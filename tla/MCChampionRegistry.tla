------------------------ MODULE MCChampionRegistry ------------------------
(***************************************************************************)
(* Instance of ChampionRegistry for TLC: two models.  m1 has a root, two   *)
(* competing children of it, one of them without a validation report, and  *)
(* a grandchild; m2 has one validated version.  The approvals include two  *)
(* distinct approvals of the same change, rollbacks back to the root (so   *)
(* that an old promotion approval has its source champion again), a        *)
(* promotion with the wrong evidence, and one approved before training.    *)
(***************************************************************************)
EXTENDS ChampionRegistry

CONSTANTS m1, m2, v1, v2, v3, s1, s2

MV(m, v, p, r, t) ==
    [model |-> m, version |-> v, parent |-> p, artifact |-> "a",
     report |-> r, trainedAt |-> t]

Approve(action, m, s, t, e, at, n) ==
    [action |-> action, model |-> m, source |-> s, target |-> t,
     evidence |-> e, approvedAt |-> at, note |-> n]

MCCandidates ==
    { MV(m1, v1, None, "r1", 1),
      MV(m1, v2, v1, "r2", 2),
      MV(m1, v2, None, "r2", 1),
      MV(m1, v3, v2, None, 1),
      MV(m1, v3, v1, "r1", 1),
      MV(m2, v1, None, "r1", 1) }

MCApprovals ==
    { Approve("PROMOTE",  m1, None, v1, "r1", 1, "n1"),
      Approve("PROMOTE",  m1, None, v2, "r2", 1, "n1"),
      Approve("PROMOTE",  m1, v1, v2, "r2", 2, "n1"),
      Approve("PROMOTE",  m1, v1, v3, "r1", 2, "n1"),
      Approve("PROMOTE",  m1, v1, v3, "r2", 2, "n1"),
      Approve("ROLLBACK", m1, v2, v1, "r1", 3, "n1"),
      Approve("ROLLBACK", m1, v2, v1, "r1", 3, "n2"),
      Approve("ROLLBACK", m1, v3, v1, "r1", 3, "n1"),
      Approve("ROLLBACK", m1, v1, v3, "r2", 3, "n1"),
      Approve("PROMOTE",  m2, None, v1, "r1", 1, "n1") }

=============================================================================
