------------------------------ MODULE MC_AuditLog ------------------------------
(* The constants of AuditLog are given in the configuration.                *)
EXTENDS AuditLog
=============================================================================
