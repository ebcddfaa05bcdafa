----------------------------- MODULE MCDelivery ------------------------------
(***************************************************************************)
(* Values TLC takes for the constants of Delivery.  Messages are posted by *)
(* agent a1.                                                               *)
(***************************************************************************)
EXTENDS Delivery

CONSTANTS a1, a2, a3, a4, m1

FromA1 == [m \in Messages |-> a1]
=============================================================================
