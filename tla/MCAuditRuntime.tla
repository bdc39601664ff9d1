---------------------------- MODULE MCAuditRuntime ----------------------------
(***************************************************************************)
(* Instance of AuditRuntime for TLC: two processes, one table in each      *)
(* group, one audited identity with two contents, one task.                *)
(***************************************************************************)
EXTENDS AuditRuntime

=============================================================================
