---------------------------- MODULE MCDecisionPath ----------------------------
(***************************************************************************)
(* Instance of DecisionPath for TLC: the baseline and one challenger, two  *)
(* rules files (another artifact and another strike grid under the same    *)
(* rules version), one scenario session, two days, two threads.            *)
(***************************************************************************)
EXTENDS DecisionPath

CONSTANTS m, mx, base, v2, t1, t2

Candidate ==
    [model |-> m, version |-> v2, parent |-> base, artifact |-> "a9",
     report |-> "r", trainedAt |-> 1]

Approve(action, s, t) ==
    [action |-> action, model |-> m, source |-> s, target |-> t,
     evidence |-> "r", approvedAt |-> 1, note |-> "n"]

MCCandidates == {Candidate}

MCApprovals ==
    { Approve("PROMOTE", None, v2), Approve("ROLLBACK", v2, base),
      Approve("ROLLBACK", None, base) }

MCRules ==
    { [rules |-> "rules-v1", artifact |-> "a1", increment |-> 5, wing |-> 5],
      [rules |-> "rules-v1", artifact |-> "a2", increment |-> 10, wing |-> 10] }

MCFirstRules == CHOOSE r \in MCRules : r.artifact = "a1"

Open ==
    [data_quality |-> "GREEN", contract_matches |-> TRUE, event_cleared |-> TRUE,
     unscheduled_shock |-> FALSE, option_chain_usable |-> TRUE,
     tail_expanding |-> FALSE, next_major_event_in_holding_period |-> FALSE,
     edge_ok |-> TRUE, risk_budget_ok |-> TRUE]

Values == [center |-> 5003, up |-> 21, down |-> 17, buffer |-> 1]

Live(mdl) ==
    [model |-> mdl, mode |-> "LIVE", id |-> None, asOf |-> None, gates |-> None,
     values |-> None]

Scenario(g, v) ==
    [model |-> m, mode |-> "SCENARIO", id |-> "x", asOf |-> 1, gates |-> g,
     values |-> v]

MCRequests ==
    { Live(m), Live(mx), Scenario(Open, Values), Scenario(Open, None),
      Scenario([Open EXCEPT !.data_quality = "AMBER"], Values) }

Symmetry == {[t \in {t1, t2} |-> t], [t \in {t1, t2} |-> IF t = t1 THEN t2 ELSE t1]}

MCProbes ==
    { [quality |-> "GREEN", ready |-> FALSE, esContract |-> TRUE, optionChain |-> TRUE],
      [quality |-> "GREEN", ready |-> TRUE, esContract |-> TRUE, optionChain |-> FALSE] }

=============================================================================
