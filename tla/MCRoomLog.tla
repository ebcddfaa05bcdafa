------------------------------ MODULE MCRoomLog ------------------------------
(***************************************************************************)
(* Values TLC takes for the constants of RoomLog.                          *)
(***************************************************************************)
EXTENDS RoomLogStream

CONSTANTS w1, w2, p1, p2, a1, a2, m1, m2, m3, m4

MCWeight   == [m \in Messages |-> 1]
\* m2 alone is as large as a segment may get.
MCHeavy    == [m \in Messages |-> IF m = m2 THEN 4 ELSE 1]
OnePoller  == [p \in {p1} |-> a1]
TwoAgents  == [p \in {p1, p2} |-> IF p = p1 THEN a1 ELSE a2]
SameAgent  == [p \in {p1, p2} |-> a1]
=============================================================================
