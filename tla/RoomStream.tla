----------------------------- MODULE RoomStream ------------------------------
(***************************************************************************)
(* What a room promises: one append-only stream of messages, and for each  *)
(* agent a stretch of it, from the beginning, that the agent was handed.   *)
(* Posting appends at the end.  A poll hands the agent messages that       *)
(* follow the last one it got, in order, none twice and none left out.     *)
(***************************************************************************)
EXTENDS Naturals, Sequences

CONSTANTS Messages, Agents

VARIABLES
    stream,     \* the messages of the room
    received    \* agent -> the messages its polls returned

vars == <<stream, received>>

Init == stream = <<>> /\ received = [a \in Agents |-> <<>>]

Post(m) ==
    /\ \A i \in 1..Len(stream) : stream[i] # m
    /\ stream' = Append(stream, m)
    /\ UNCHANGED received

Poll(a) ==
    /\ \E n \in (Len(received[a]) + 1)..Len(stream) :
          received' = [received EXCEPT ![a] = SubSeq(stream, 1, n)]
    /\ UNCHANGED stream

Next == (\E m \in Messages : Post(m)) \/ (\E a \in Agents : Poll(a))

Spec == Init /\ [][Next]_vars
=============================================================================
