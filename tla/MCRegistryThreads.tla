-------------------------- MODULE MCRegistryThreads --------------------------
(***************************************************************************)
(* Instance of RegistryThreads for TLC: two request threads, one model     *)
(* with a validated root and child, two promotion approvals and a          *)
(* rollback, and one session.  Eight calls leave room for two              *)
(* registrations, a champion change, a competing one, a rollback, a        *)
(* repeated approval and a freeze to overlap.                              *)
(***************************************************************************)
EXTENDS RegistryThreads

CONSTANTS m1, v1, v2, s1, t1, t2

MV(v, p, r) ==
    [model |-> m1, version |-> v, parent |-> p, artifact |-> "a",
     report |-> r, trainedAt |-> 1]

Approve(action, s, t, e) ==
    [action |-> action, model |-> m1, source |-> s, target |-> t,
     evidence |-> e, approvedAt |-> 1, note |-> "n"]

MCCandidates == { MV(v1, None, "r1"), MV(v2, v1, "r2") }

MCApprovals ==
    { Approve("PROMOTE",  None, v1, "r1"), Approve("PROMOTE", v1, v2, "r2"),
      Approve("ROLLBACK", v2, v1, "r1") }

=============================================================================
