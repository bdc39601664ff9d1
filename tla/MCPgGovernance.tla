--------------------------- MODULE MCPgGovernance ---------------------------
(***************************************************************************)
(* Instance of PgGovernance for TLC.  Two processes compete for a model    *)
(* with a root version, a validated child and a rival registration of the  *)
(* child's label with other content.  The approvals hold a promotion of    *)
(* the root, of the child, a rollback to the root that makes the first     *)
(* approval's target champion again, and a rollback that names no source.  *)
(***************************************************************************)
EXTENDS PgGovernance

CONSTANTS m1, v1, v2, s1, c1, c2

MV(m, v, p, r, t) ==
    [model |-> m, version |-> v, parent |-> p, artifact |-> "a",
     report |-> r, trainedAt |-> t]

Approve(action, m, s, t, e) ==
    [action |-> action, model |-> m, source |-> s, target |-> t,
     evidence |-> e, approvedAt |-> 1, note |-> "n"]

MCCandidates ==
    { MV(m1, v1, None, "r1", 1), MV(m1, v2, v1, "r2", 1),
      MV(m1, v2, v1, None, 1) }

MCApprovals ==
    { Approve("PROMOTE",  m1, None, v1, "r1"),
      Approve("PROMOTE",  m1, v1, v2, "r2"),
      Approve("ROLLBACK", m1, v2, v1, "r1"),
      Approve("ROLLBACK", m1, None, v2, "r1") }

=============================================================================
