------------------------------ MODULE MCRoomPush ------------------------------
(***************************************************************************)
(* Values TLC takes for the constants of RoomPush, and where its runs      *)
(* start: agent a2 has registered with webhook h1 and joined r1, to which  *)
(* a1 then posts.                                                          *)
(***************************************************************************)
EXTENDS RoomPush

CONSTANTS r1, a1, a2, h1, h2

Call(kind, a) == [kind |-> kind, room |-> r1, agent |-> a, status |-> "online",
                  hook |-> NoHook]

PushCalls ==
    {Call("post", a1), Call("join", a2), Call("leave", a2), Call("heartbeat", a2),
     [Call("heartbeat", a2) EXCEPT !.status = "unhealthy"],
     Call("register", a2), [Call("register", a2) EXCEPT !.hook = h2]}

MCInit ==
    /\ index = [r \in Rooms |-> "active"]
    /\ log = [r \in Rooms |-> <<[type |-> "created", from |-> System],
                                [type |-> "joined", from |-> a2]>>]
    /\ copy = [r \in Rooms |-> 0]
    /\ registry = [a \in Agents |-> IF a = a2 THEN "online" ELSE "none"]
    /\ hook = [a \in Agents |-> IF a = a2 THEN h1 ELSE NoHook]
    /\ status = [a \in Agents |-> IF a = a2 THEN "online" ELSE "none"]
    /\ rooms = [a \in Agents |-> IF a = a2 THEN {r1} ELSE {}]
    /\ broken = {} /\ garbled = {} /\ cuts = [f \in Documents |-> 0]
    /\ pc = [c \in Clients |-> "idle"]
    /\ op = [c \in Clients |-> Call("post", a1)]
    /\ started = 0 /\ crashes = 0
    /\ PInit

MCSpec == MCInit /\ [][PNext]_pvars
=============================================================================
