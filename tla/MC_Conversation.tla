---------------------------- MODULE MC_Conversation ----------------------------
(* The constants of Conversation are numbers, given in the configurations.  *)
EXTENDS Conversation
=============================================================================
