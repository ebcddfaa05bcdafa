----------------------------- MODULE AtomicDoc -------------------------------
(***************************************************************************)
(* What locked_json and read_json promise together: a document that is     *)
(* changed one update at a time and never shrinks.  A read returns the     *)
(* document as it is at some instant, or, since it takes no lock, the      *)
(* empty default.                                                          *)
(***************************************************************************)
CONSTANTS Writers, Readers

VARIABLES doc, got

Init == doc = {} /\ got = [r \in Readers |-> {}]

Update(w) ==
    /\ w \notin doc
    /\ doc' = doc \cup {w}
    /\ UNCHANGED got

Read(r) ==
    /\ \E d \in {doc, {}} : got' = [got EXCEPT ![r] = d]
    /\ UNCHANGED doc

Next == (\E w \in Writers : Update(w)) \/ (\E r \in Readers : Read(r))

Spec == Init /\ [][Next]_<<doc, got>>
=============================================================================
