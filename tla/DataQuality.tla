------------------------------ MODULE DataQuality ------------------------------
(***************************************************************************)
(* The verdict on a set of quotes (domain/data_quality.py).  A quote is a  *)
(* record of its source, instrument, times, permissions and four values;   *)
(* `quotes' is a function into quotes, so the values of a dictionary and   *)
(* the entries of a list are both covered.  Instants are integers, prices  *)
(* and sizes integers or None; a reason is a pair of a source (or None for *)
(* the feed as a whole) and a tag.                                         *)
(***************************************************************************)
EXTENDS Integers, FiniteSets

CONSTANTS
    None,
    GreenAge, AmberAge,     \* oldest age that is still GREEN, still AMBER
    MaxLatency,             \* longest time from the source to the receipt
    AbsTolerance,           \* two sources may differ by this much, or by
    RelTolerance,           \* this many thousandths of the lower price
    RequireTwoSources

ASSUME QualityPolicyAssumption ==
    /\ GreenAge \in Nat /\ AmberAge \in Nat /\ GreenAge <= AmberAge
    /\ MaxLatency \in Nat /\ AbsTolerance \in Nat /\ RelTolerance \in Nat
    /\ RequireTwoSources \in BOOLEAN

Fields == {"bid", "ask", "bid_size", "ask_size"}

Age(asOf, t) == IF asOf < t THEN 0 ELSE asOf - t

\* Every instant an age is measured from: the stamped fields, the source and
\* the receipt.
Instants(q) ==
    {q.stamps[f] : f \in {g \in Fields : q.stamps[g] # None}} \cup {q.src, q.recv}

\* QuoteQualityEvaluator._validate_quote.
QuoteReasons(q) ==
    LET given == {f \in Fields : q[f] # None}
    IN  {"NEGATIVE_QUOTE_VALUE" : f \in {g \in given : q[g] < 0}}
        \cup {"EMPTY_QUOTE_SIZE" : f \in {g \in given \ {"bid", "ask"} : q[g] = 0}}
        \cup {"CROSSED_QUOTE" : x \in {y \in {1} : {"bid", "ask"} \subseteq given
                                                   /\ q["bid"] > q["ask"]}}

\* One pass of the evaluator's loop over the observations.
ObservationReasons(q, asOf) ==
    LET stamped == {f \in Fields : q.stamps[f] # None}
        When(tag, cond) == IF cond THEN {tag} ELSE {}
    IN  When("ENTITLEMENT", q.entitlement # "VERIFIED")
        \cup When("DELAY_STATUS_UNKNOWN", q.delayed = None)
        \cup When("DELAYED", q.delayed = TRUE)
        \cup When("RECEIVED_BEFORE_SOURCE", q.recv < q.src)
        \cup When("RECEIVE_LATENCY_EXCEEDED", q.recv - q.src > MaxLatency)
        \cup When("MISSING_FIELD", \E f \in Fields : q[f] = None)
        \cup When("MISSING_TIMESTAMP", stamped # Fields)
        \cup When("AFTER_RECEIPT", \E f \in stamped : q.stamps[f] > q.recv)
        \cup When("FUTURE_TIMESTAMP", \E t \in Instants(q) : t > asOf)
        \cup When("STALE", \E t \in Instants(q) : Age(asOf, t) > AmberAge)
        \cup QuoteReasons(q)

\* _has_conflict, on doubled midpoints; a missing side switches it off.
HasConflict(quotes) ==
    LET mids == {quotes[i].bid + quotes[i].ask : i \in DOMAIN quotes}
        low == CHOOSE m \in mids : \A n \in mids : m <= n
        high == CHOOSE m \in mids : \A n \in mids : m >= n
    IN  /\ Cardinality(DOMAIN quotes) >= 2
        /\ \A i \in DOMAIN quotes : quotes[i].bid # None /\ quotes[i].ask # None
        /\ high - low > 2 * AbsTolerance
        /\ (high - low) * 1000 > (IF low < 0 THEN -low ELSE low) * RelTolerance

Sources(quotes) == {quotes[i].source : i \in DOMAIN quotes}

FeedReasons(quotes) ==
    LET When(tag, cond) == IF cond THEN {tag} ELSE {}
        instruments == {quotes[i].instrument : i \in DOMAIN quotes}
    IN  When("NO_SOURCES", DOMAIN quotes = {})
        \cup When("DUPLICATE_SOURCE",
                  Cardinality(Sources(quotes)) # Cardinality(DOMAIN quotes))
        \cup When("SECOND_SOURCE_MISSING",
                  RequireTwoSources /\ Cardinality(Sources(quotes)) < 2)
        \cup When("INSTRUMENT_MISMATCH", Cardinality(instruments) > 1)
        \cup When("DUAL_SOURCE_CONFLICT", HasConflict(quotes))

\* QuoteQualityEvaluator.evaluate.
Evaluate(quotes, asOf) ==
    LET reasons == {<<None, r>> : r \in FeedReasons(quotes)}
                   \cup UNION {{<<quotes[i].source, r>> :
                                  r \in ObservationReasons(quotes[i], asOf)} :
                                i \in DOMAIN quotes}
        aged == \E i \in DOMAIN quotes :
                  \E t \in Instants(quotes[i]) : Age(asOf, t) > GreenAge
        status == IF reasons # {} THEN "RED" ELSE IF aged THEN "AMBER" ELSE "GREEN"
    IN  [status |-> status,
         freeze |-> HasConflict(quotes) \/ status = "RED",
         reasons |-> reasons]

PermitsDecision(report) == report.status = "GREEN" /\ ~report.freeze
=============================================================================
