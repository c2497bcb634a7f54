-------------------------- MODULE MC_ControlService --------------------------
(* Instances of ControlService for TLC: two clients share one of the keys  *)
(* they submit, and one of them has another.                               *)
EXTENDS ControlService

First == CHOOSE c \in Clients : TRUE
SharedKeys == [c \in Clients |-> IF c = First THEN {"k1", "k2"} ELSE {"k2"}]
OneKey == [c \in Clients |-> {"k"}]
=============================================================================
