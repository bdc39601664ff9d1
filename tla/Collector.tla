------------------------------- MODULE Collector -------------------------------
(***************************************************************************)
(* The collector orchestrator (services/collector_service.py): the loop of *)
(* run() over a sequence of provider events.  One step is one iteration.   *)
(* Every prefix of the event sequence is itself a run, so the result that  *)
(* run() would return is defined in every state.                           *)
(*                                                                         *)
(* The loop's local variables are the fields of `c'; `clock' is the latest *)
(* first_seen_at so far and `asOf' that of the last event, which may be    *)
(* earlier.  The input and output records of an iteration are functions of *)
(* what is kept here and are left out.  `hist' is not state of the code:   *)
(* it records what the properties compare the code's state with.           *)
(***************************************************************************)
EXTENDS DataQuality, TradingCalendar, FiniteSetsExt

CONSTANTS
    MaxEvents,              \* bound: distinct event identities of a run
    Expected,               \* the expected instrument
    Times,                  \* first_seen_at of an event
    RetryAfters,            \* retry_after_seconds of a rate limit
    ObservationsAt(_),      \* quotes an event seen at an instant may carry
    BaseBackoff, MaxBackoff, MaxReconnectAttempts,
    AllowedLateness, FreshnessLimit,
    Capabilities,           \* capability reports the run may start from
    Calendars,              \* equity calendars the run may be gated by
    LocalTime(_)            \* instant -> <<day, minute>> in New York

ASSUME CollectorPolicyAssumption ==
    /\ BaseBackoff \in Nat \ {0} /\ MaxBackoff \in Nat /\ MaxBackoff >= BaseBackoff
    /\ MaxReconnectAttempts \in Nat \ {0}
    /\ AllowedLateness \in Nat /\ FreshnessLimit \in Nat \ {0}

\* Arithmetic, spelled out for the provers, which know nothing of powers.
ASSUME BackoffAssumption ==
    \A n \in 0..MaxReconnectAttempts : 2^n \in Nat \ {0}

\* Instants and delays are numbers, and None is not one of them.
ASSUME EventAssumption ==
    /\ None \notin Int
    /\ Times \subseteq Nat /\ RetryAfters \subseteq Int
    /\ \A t \in Times : \A o \in ObservationsAt(t) : o.src \in Int

VARIABLES
    c,          \* local variables of run()
    seenEvents, \* how many event identities were met so far
    clock,      \* previous_first_seen_at: the latest one, or None
    asOf,       \* first_seen_at of the last event, or None
    report,     \* quality_report after the last event, or None
    sticky,     \* run_reasons kept by the loop
    cap, cal,   \* the capability report and the calendar of this run
    hist

vars == <<c, seenEvents, clock, asOf, report, sticky, cap, cal, hist>>

States == {"STOPPED", "CONNECTING", "STREAMING", "BACKING_OFF", "RATE_LIMITED",
           "DEGRADED", "HALTED"}

Kinds == {"START", "CONNECTED", "QUOTE", "HEARTBEAT", "CONNECTION_LOST",
          "RATE_LIMITED", "SCHEMA_DRIFT", "STOP"}

Live == {"STREAMING", "DEGRADED"}

\* CollectorEvent: only a quote has an observation, only a rate limit a delay.
\* `known' says that the identity is that of an earlier event.
Events(kind) ==
    UNION {{[known |-> k, kind |-> kind, at |-> t, drifted |-> d, obs |-> o, retry |-> r] :
              k \in BOOLEAN, d \in BOOLEAN,
              o \in IF kind = "QUOTE" THEN ObservationsAt(t) ELSE {None},
              r \in IF kind = "RATE_LIMITED" THEN RetryAfters ELSE {None}} :
            t \in Times}

NoQuotes == [s \in {} |-> None]

\* CollectorOrchestrator._capability_reasons.
CapabilityReasons(report0) ==
    {r \in {"configured", "verified", "production_ready", "green"} : ~report0[r]}

Smaller(a, b) == IF a < b THEN a ELSE b
Larger(a, b) == IF a > b THEN a ELSE b

\* CollectorPolicy.reconnect_delay.
ReconnectDelay(attempt) == Smaller(BaseBackoff * 2^(attempt - 1), MaxBackoff)

\* What identifies an observation: its permissions are not part of it.
Fingerprint(o) ==
    [f \in DOMAIN o \ {"delayed", "entitlement"} |-> o[f]]

-----------------------------------------------------------------------------
(* The branches of _apply_event.  Each maps the local variables to those   *)
(* after the event; a reason added means the event is not accepted.        *)

Refuse(x, reason) == [x EXCEPT !.reasons = @ \cup {reason}]

BugDiscard(x) == [x EXCEPT !.lastObs = None]

Discard(x) == [x EXCEPT !.latest = NoQuotes, !.lastObs = None]

Start(x, e) ==
    IF x.state # "STOPPED" THEN Refuse(x, "INVALID_TRANSITION")
    ELSE [x EXCEPT !.state = "CONNECTING"]

BugConnected(x, e) ==
    IF x.state \notin {"CONNECTING", "BACKING_OFF", "RATE_LIMITED", "DEGRADED"}
        THEN Refuse(x, "INVALID_TRANSITION")
    ELSE [x EXCEPT !.state = "STREAMING", !.retryAt = None, !.attempts = 0]

Connected(x, e) ==
    IF x.state \notin {"CONNECTING", "BACKING_OFF", "RATE_LIMITED", "DEGRADED"}
        THEN Refuse(x, "INVALID_TRANSITION")
    ELSE IF x.retryAt # None /\ e.at < x.retryAt THEN Refuse(x, "RETRY_TOO_EARLY")
    ELSE [x EXCEPT !.state = "STREAMING", !.retryAt = None, !.attempts = 0]

\* Applied in every state but HALTED, STOPPED included.
ConnectionLost(x, e) ==
    LET n == x.attempts + 1
        y == [Discard(x) EXCEPT !.attempts = n]
    IN  IF n > MaxReconnectAttempts
        THEN Refuse([y EXCEPT !.state = "HALTED", !.retryAt = None],
                    "RECONNECT_BUDGET_EXHAUSTED")
        ELSE [y EXCEPT !.state = "BACKING_OFF", !.retryAt = e.at + ReconnectDelay(n)]

RateLimitHalt(x) ==
    Refuse([Discard(x) EXCEPT !.state = "HALTED", !.retryAt = None], "INVALID_RETRY_AFTER")

RateLimited(x, e) ==
    IF e.retry <= 0 THEN RateLimitHalt(x)
    ELSE [Discard(x) EXCEPT !.state = "RATE_LIMITED",
                            !.retryAt = e.at + Larger(e.retry, BaseBackoff)]

SchemaDrift(x, e) == Refuse([x EXCEPT !.state = "HALTED"], "SCHEMA_DRIFT")

BugStop(x, e) ==
    [Discard(x) EXCEPT !.state = "STOPPED", !.retryAt = None, !.attempts = 0]

Stop(x, e) == [Discard(x) EXCEPT !.state = "STOPPED", !.retryAt = None]

Heartbeat(x, e) ==
    IF x.state \in Live THEN x ELSE Refuse(x, "INVALID_TRANSITION")

\* A quote behind the watermark is remembered and refused, however late it is.
Quote(x, e) ==
    LET o == e.obs
        late == x.watermark # None /\ o.src < x.watermark
        known == [x EXCEPT !.seen = @ \cup {Fingerprint(o)}]
    IN  IF x.state \notin Live THEN Refuse(x, "COLLECTOR_NOT_STREAMING")
        ELSE IF o.instrument # Expected THEN Refuse(x, "INSTRUMENT_MISMATCH")
        ELSE IF Fingerprint(o) \in x.seen THEN Refuse(x, "DUPLICATE_OBSERVATION")
        ELSE IF late /\ o.src < x.watermark - AllowedLateness
             THEN Refuse(Refuse(known, "OUT_OF_ORDER_OBSERVATION"), "BEHIND_WATERMARK")
        ELSE IF late THEN Refuse(known, "OUT_OF_ORDER_OBSERVATION")
        ELSE [known EXCEPT !.state = "STREAMING", !.lastObs = e.at,
                           !.watermark = o.src,
                           !.latest = [s \in DOMAIN x.latest \cup {o.source} |->
                                         IF s = o.source THEN o ELSE x.latest[s]]]

Apply(x, e) ==
    CASE e.kind = "START"           -> Start(x, e)
      [] e.kind = "CONNECTED"       -> Connected(x, e)
      [] e.kind = "CONNECTION_LOST" -> ConnectionLost(x, e)
      [] e.kind = "RATE_LIMITED"    -> RateLimited(x, e)
      [] e.kind = "SCHEMA_DRIFT"    -> SchemaDrift(x, e)
      [] e.kind = "STOP"            -> Stop(x, e)
      [] e.kind = "HEARTBEAT"       -> Heartbeat(x, e)
      [] e.kind = "QUOTE"           -> Quote(x, e)

\* _apply_freshness, after every event, accepted or not.
Freshen(x, now) ==
    IF x.state \in Live /\ (x.lastObs = None \/ now - x.lastObs > FreshnessLimit)
    THEN Refuse([x EXCEPT !.state = "DEGRADED"], "COLLECTOR_STALE")
    ELSE x

-----------------------------------------------------------------------------
Init ==
    /\ c = [state |-> "STOPPED", retryAt |-> None, attempts |-> 0, watermark |-> None,
            lastObs |-> None, latest |-> NoQuotes, seen |-> {}, reasons |-> {}]
    /\ seenEvents = 0
    /\ clock = None
    /\ asOf = None
    /\ report = None
    /\ sticky = {}
    /\ cap \in Capabilities
    /\ cal \in Calendars
    /\ hist = [quoted |-> {}, losses |-> 0, fault |-> None, top |-> None]

InOrder(e) == clock = None \/ e.at >= clock

\* A known identity or an earlier time refuses the event before it is looked at.
Refusals(e) ==
    (IF e.known THEN {"DUPLICATE_EVENT"} ELSE {})
    \cup (IF InOrder(e) THEN {} ELSE {"EVENT_TIME_REGRESSION"})

\* The local variables after the admission checks and the branch of the event.
Handled(e) ==
    LET x == [c EXCEPT !.reasons = Refusals(e)]
    IN  IF Refusals(e) # {} THEN x
        ELSE IF e.drifted THEN SchemaDrift(x, e)
        ELSE IF c.state = "HALTED" THEN Refuse(x, "COLLECTOR_HALTED")
        ELSE Apply(x, e)

Sticky == {"SCHEMA_DRIFT", "RECONNECT_BUDGET_EXHAUSTED", "INVALID_RETRY_AFTER"}

\* What the run has seen, told from the events and their outcome alone.
Remember(e, y) ==
    LET accepted == y.reasons = {}
        faulted == Refusals(e) = {} /\ ~e.drifted /\ c.state # "HALTED"
                   /\ e.kind \in {"CONNECTION_LOST", "RATE_LIMITED"}
        stopped == accepted /\ e.kind = "STOP"
        joined == accepted /\ e.kind = "CONNECTED"
    IN  [quoted |-> IF faulted \/ stopped THEN {}
                    ELSE IF accepted /\ e.kind = "QUOTE" THEN hist.quoted \cup {e.obs.source}
                    ELSE hist.quoted,
         losses |-> IF joined THEN 0
                    ELSE IF faulted /\ e.kind = "CONNECTION_LOST" THEN hist.losses + 1
                    ELSE hist.losses,
         fault |-> IF faulted THEN e.at
                   ELSE IF stopped \/ joined THEN None ELSE hist.fault,
         top |-> IF accepted /\ e.kind = "QUOTE"
                    /\ (hist.top = None \/ hist.top < e.obs.src)
                 THEN e.obs.src ELSE hist.top]

\* An event that is refused on sight, or has another schema, is not looked at
\* any further: those are enumerated for one kind only.
Offered(kind) ==
    {e \in Events(kind) :
        /\ IF e.known THEN seenEvents > 0 ELSE seenEvents < MaxEvents
        /\ Refusals(e) # {} \/ e.drifted => kind = "HEARTBEAT"}

\* One iteration of the loop.
Receive(kind) ==
    \E e \in Offered(kind) :
        LET y == Handled(e)
            z == Freshen(y, e.at)
        IN  /\ c' = [z EXCEPT !.reasons = {}]
            /\ seenEvents' = IF e.known THEN seenEvents ELSE seenEvents + 1
            /\ clock' = IF InOrder(e) THEN e.at ELSE clock
            /\ asOf' = e.at
            /\ report' = IF y.latest = NoQuotes THEN None
                         ELSE Evaluate(y.latest, e.at)
            /\ sticky' = sticky \cup (z.reasons \cap Sticky)
            /\ hist' = Remember(e, y)
            /\ UNCHANGED <<cap, cal>>

Next == \E kind \in Kinds : Receive(kind)

Spec == Init /\ [][Next]_vars

-----------------------------------------------------------------------------
(* The result of run() on the events so far.                               *)

\* Only the final instant passes the session gate.
SessionReasons ==
    IF asOf = None THEN {}
    ELSE EquityGate(cal, LocalTime(asOf)[1], LocalTime(asOf)[2])

RunReasons ==
    CapabilityReasons(cap) \cup sticky \cup SessionReasons
    \cup (IF c.state = "STREAMING" THEN {} ELSE {"COLLECTOR_" \o c.state})
    \cup (IF report = None THEN {"NO_QUALITY_REPORT"}
          ELSE IF PermitsDecision(report) THEN {}
          ELSE IF report.reasons = {} THEN {"QUALITY_NOT_GREEN"} ELSE report.reasons)

RunPermitsDecision ==
    c.state = "STREAMING" /\ report # None /\ PermitsDecision(report) /\ RunReasons = {}

-----------------------------------------------------------------------------
(* Properties.                                                             *)

TypeOK ==
    /\ c.state \in States /\ c.attempts \in 0..(MaxReconnectAttempts + 1)
    /\ c.retryAt = None \/ c.retryAt \in Nat
    /\ c.watermark = None \/ c.watermark \in Int
    /\ c.lastObs = None \/ c.lastObs \in Times
    /\ \A s \in DOMAIN c.latest : c.latest[s].source = s
    /\ seenEvents \in 0..MaxEvents
    /\ clock \in Times \cup {None} /\ asOf \in Times \cup {None}

\* After a disconnect or a rate limit both sources must be observed again
\* before the run permits a decision, whatever was known before.
BothSourcesAgain ==
    RunPermitsDecision => /\ Cardinality(hist.quoted) >= 2
                          /\ DOMAIN c.latest \subseteq hist.quoted

\* The collector counts as streaming only while its last accepted quote is
\* fresh by the latest clock it has seen, however the events' times jump.
StreamingIsFresh ==
    c.state = "STREAMING" =>
        c.lastObs # None /\ clock - c.lastObs <= FreshnessLimit

\* The reconnect budget counts the losses since the last successful connect;
\* stopping and starting does not refill it, and going over it halts.
BudgetCountsLosses ==
    /\ c.attempts = hist.losses
    /\ c.attempts > MaxReconnectAttempts => c.state = "HALTED"

\* The watermark is the newest source time ever accepted: reconnects, stops
\* and late quotes never lower it.
WatermarkIsNewest == c.watermark = hist.top

\* After a fault nothing streams until at least the base backoff has passed,
\* unless the operator stopped and restarted the collector.
BackoffBeforeStreaming ==
    [][ \A t \in Times : hist.fault = t /\ hist'.fault = None /\ c'.state \in Live
          => asOf' >= t + BaseBackoff ]_vars

\* A halt is permanent: no later event revives the collector or lets the run
\* permit a decision.
HaltIsPermanent ==
    [][c.state = "HALTED" => c'.state = "HALTED" /\ ~RunPermitsDecision']_vars

\* A permitted decision rests on quotes that are GREEN at the latest clock,
\* as long as the last event did not go back in time.
PermitIsFreshInOrder ==
    RunPermitsDecision /\ asOf = clock =>
        \A s \in DOMAIN c.latest : clock - c.latest[s].src <= GreenAge

\* A permit to decide is earned after the last fault: both sources were heard
\* again, and what they said is fresh.
PermitIsEarned == BothSourcesAgain /\ PermitIsFreshInOrder

\* A refused event (here: one whose time went back) is refused safely: it
\* never turns a run that permits no decision into one that does.
RefusedIsSafe ==
    [][ (clock # None /\ asOf' < clock) => (RunPermitsDecision' => RunPermitsDecision) ]_vars

=============================================================================
