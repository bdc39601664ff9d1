--------------------------- MODULE PromotionGate ---------------------------
(***************************************************************************)
(* evaluate_promotion_gate (validation/promotion_gate.py) as the endpoint  *)
(* /v1/validation/promotion-gate calls it: pre-registered criteria, a      *)
(* holdout frozen after them, evidence per slice.                          *)
(***************************************************************************)
EXTENDS Integers, Sequences, FiniteSets

CONSTANTS
    RequiredSlices,   \* PromotionCriteria.required_slices
    Ceilings,         \* the maximum_* criteria: function from metric to limit
    Floors,           \* minimum samples, minimum effect: metric to limit
    RegisteredAt      \* PromotionCriteria.registered_at

ASSUME PromotionGateAssumption ==
    /\ RequiredSlices # {} /\ DOMAIN Ceilings \intersect DOMAIN Floors = {}
    /\ RegisteredAt \in Int

(* A rejected request: HTTP 422.                                           *)
Rejected == [passed |-> FALSE, failures |-> {"422"}]

(* Evidence for a slice is [key, value], value a function on the metrics.  *)
(* What the evidence of one required slice lacks.                          *)
SliceFailures(evidence, k) ==
    LET items == {e \in evidence : e.key = k}
    IN  IF items = {} THEN {<<k, "MISSING_SLICE">>}
        ELSE UNION {{<<k, m>> : m \in {m \in DOMAIN Ceilings : e.value[m] > Ceilings[m]}}
                    \union
                    {<<k, m>> : m \in {m \in DOMAIN Floors : e.value[m] < Floors[m]}}
                    : e \in items}

(* A request that is evaluated: the three instants in order, some slice,   *)
(* and no slice twice.                                                     *)
GateAccepts(slices, frozenAt, evaluatedAt) ==
    /\ RegisteredAt < frozenAt /\ frozenAt < evaluatedAt
    /\ slices # <<>>
    /\ Cardinality({slices[i].key : i \in DOMAIN slices}) = Len(slices)

(* Every slice that was sent must meet the criteria.                       *)
BugEvaluateGate(slices, frozenAt, evaluatedAt) ==
    LET evidence == {slices[i] : i \in DOMAIN slices}
        keys     == RequiredSlices \union {e.key : e \in evidence}
        failures == UNION {SliceFailures(evidence, k) : k \in keys}
    IN  IF GateAccepts(slices, frozenAt, evaluatedAt)
        THEN [passed |-> failures = {}, failures |-> failures]
        ELSE Rejected

(* The report: the failures of the required slices.                        *)
EvaluateGate(slices, frozenAt, evaluatedAt) ==
    LET evidence == {slices[i] : i \in DOMAIN slices}
        failures == UNION {SliceFailures(evidence, k) : k \in RequiredSlices}
    IN  IF GateAccepts(slices, frozenAt, evaluatedAt)
        THEN [passed |-> failures = {}, failures |-> failures]
        ELSE Rejected
=============================================================================
