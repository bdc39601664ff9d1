---------------------------- MODULE CollectorProofs ----------------------------
(***************************************************************************)
(* TLAPS proofs about Collector: the reconnect budget counts the losses,   *)
(* nothing streams before the backoff, a permit to decide is earned after  *)
(* the last fault, a halt is permanent, for any events in any order and    *)
(* with any times, quotes, capability reports and calendars.               *)
(***************************************************************************)
EXTENDS Collector, FiniteSetTheorems, TLAPS

-----------------------------------------------------------------------------
(* The inductive invariant.                                                *)

(* The local variables are a record of eight fields.                       *)
Locals(x) ==
    x = [state |-> x.state, retryAt |-> x.retryAt, attempts |-> x.attempts,
         watermark |-> x.watermark, lastObs |-> x.lastObs, latest |-> x.latest,
         seen |-> x.seen, reasons |-> x.reasons]

LocalsOK(x) ==
    /\ Locals(x)
    /\ x.state \in States /\ x.attempts \in Nat
    /\ x.retryAt \in Nat \cup {None}
    /\ x.watermark \in Int \cup {None}
    /\ x.lastObs \in Times \cup {None}

(* The latest quotes are those of the sources heard since the last fault   *)
(* or stop, each under its own name.                                       *)
QuotesOK(x, h) ==
    /\ h.quoted = DOMAIN x.latest
    /\ IsFiniteSet(h.quoted)
    /\ \A s \in DOMAIN x.latest : x.latest[s].source = s /\ x.latest[s].src \in Int

BudgetOK(x, h) ==
    /\ x.attempts = h.losses
    /\ x.attempts > MaxReconnectAttempts => x.state = "HALTED"

(* After a fault the collector is halted or waits for its retry time, at   *)
(* least the base backoff after the fault.                                 *)
FaultOK(x, h) ==
    h.fault \in Times =>
        \/ x.state = "HALTED"
        \/ /\ x.state \in {"BACKING_OFF", "RATE_LIMITED"}
           /\ x.retryAt \in Nat
           /\ x.retryAt >= h.fault + BaseBackoff

StateOK(x, h) ==
    /\ LocalsOK(x)
    /\ QuotesOK(x, h)
    /\ BudgetOK(x, h)
    /\ FaultOK(x, h)
    /\ x.watermark = h.top

ClockOK ==
    /\ clock \in Times \cup {None}
    /\ c.state = "STREAMING" =>
          /\ c.lastObs \in Times /\ clock \in Times
          /\ clock - c.lastObs <= FreshnessLimit

(* The report is about the latest quotes at the time of the last event.    *)
ReportOK ==
    report = IF c.latest = NoQuotes THEN None ELSE Evaluate(c.latest, asOf)

CollectorInv == StateOK(c, hist) /\ ClockOK /\ ReportOK

-----------------------------------------------------------------------------
(* Assignments to the local variables.                                     *)

(* Assigning state leaves the other local variables alone.               *)
LEMMA SetState ==
    ASSUME NEW x, Locals(x), NEW v, NEW y, y = [x EXCEPT !.state = v]
    PROVE  /\ Locals(y) /\ y.state = v
           /\ y.retryAt = x.retryAt /\ y.attempts = x.attempts /\ y.watermark = x.watermark /\ y.lastObs = x.lastObs
           /\ y.latest = x.latest /\ y.seen = x.seen /\ y.reasons = x.reasons
<1>1. y = [state |-> v, retryAt |-> x.retryAt, attempts |-> x.attempts,
           watermark |-> x.watermark, lastObs |-> x.lastObs, latest |-> x.latest,
           seen |-> x.seen, reasons |-> x.reasons]
  BY DEF Locals
<1>2. QED
  BY <1>1 DEF Locals

(* Assigning retryAt leaves the other local variables alone.             *)
LEMMA SetRetryAt ==
    ASSUME NEW x, Locals(x), NEW v, NEW y, y = [x EXCEPT !.retryAt = v]
    PROVE  /\ Locals(y) /\ y.retryAt = v
           /\ y.state = x.state /\ y.attempts = x.attempts /\ y.watermark = x.watermark /\ y.lastObs = x.lastObs
           /\ y.latest = x.latest /\ y.seen = x.seen /\ y.reasons = x.reasons
<1>1. y = [state |-> x.state, retryAt |-> v, attempts |-> x.attempts,
           watermark |-> x.watermark, lastObs |-> x.lastObs, latest |-> x.latest,
           seen |-> x.seen, reasons |-> x.reasons]
  BY DEF Locals
<1>2. QED
  BY <1>1 DEF Locals

(* Assigning attempts leaves the other local variables alone.            *)
LEMMA SetAttempts ==
    ASSUME NEW x, Locals(x), NEW v, NEW y, y = [x EXCEPT !.attempts = v]
    PROVE  /\ Locals(y) /\ y.attempts = v
           /\ y.state = x.state /\ y.retryAt = x.retryAt /\ y.watermark = x.watermark /\ y.lastObs = x.lastObs
           /\ y.latest = x.latest /\ y.seen = x.seen /\ y.reasons = x.reasons
<1>1. y = [state |-> x.state, retryAt |-> x.retryAt, attempts |-> v,
           watermark |-> x.watermark, lastObs |-> x.lastObs, latest |-> x.latest,
           seen |-> x.seen, reasons |-> x.reasons]
  BY DEF Locals
<1>2. QED
  BY <1>1 DEF Locals

(* Assigning watermark leaves the other local variables alone.           *)
LEMMA SetWatermark ==
    ASSUME NEW x, Locals(x), NEW v, NEW y, y = [x EXCEPT !.watermark = v]
    PROVE  /\ Locals(y) /\ y.watermark = v
           /\ y.state = x.state /\ y.retryAt = x.retryAt /\ y.attempts = x.attempts /\ y.lastObs = x.lastObs
           /\ y.latest = x.latest /\ y.seen = x.seen /\ y.reasons = x.reasons
<1>1. y = [state |-> x.state, retryAt |-> x.retryAt, attempts |-> x.attempts,
           watermark |-> v, lastObs |-> x.lastObs, latest |-> x.latest,
           seen |-> x.seen, reasons |-> x.reasons]
  BY DEF Locals
<1>2. QED
  BY <1>1 DEF Locals

(* Assigning lastObs leaves the other local variables alone.             *)
LEMMA SetLastObs ==
    ASSUME NEW x, Locals(x), NEW v, NEW y, y = [x EXCEPT !.lastObs = v]
    PROVE  /\ Locals(y) /\ y.lastObs = v
           /\ y.state = x.state /\ y.retryAt = x.retryAt /\ y.attempts = x.attempts /\ y.watermark = x.watermark
           /\ y.latest = x.latest /\ y.seen = x.seen /\ y.reasons = x.reasons
<1>1. y = [state |-> x.state, retryAt |-> x.retryAt, attempts |-> x.attempts,
           watermark |-> x.watermark, lastObs |-> v, latest |-> x.latest,
           seen |-> x.seen, reasons |-> x.reasons]
  BY DEF Locals
<1>2. QED
  BY <1>1 DEF Locals

(* Assigning latest leaves the other local variables alone.              *)
LEMMA SetLatest ==
    ASSUME NEW x, Locals(x), NEW v, NEW y, y = [x EXCEPT !.latest = v]
    PROVE  /\ Locals(y) /\ y.latest = v
           /\ y.state = x.state /\ y.retryAt = x.retryAt /\ y.attempts = x.attempts /\ y.watermark = x.watermark
           /\ y.lastObs = x.lastObs /\ y.seen = x.seen /\ y.reasons = x.reasons
<1>1. y = [state |-> x.state, retryAt |-> x.retryAt, attempts |-> x.attempts,
           watermark |-> x.watermark, lastObs |-> x.lastObs, latest |-> v,
           seen |-> x.seen, reasons |-> x.reasons]
  BY DEF Locals
<1>2. QED
  BY <1>1 DEF Locals

(* Assigning seen leaves the other local variables alone.                *)
LEMMA SetSeen ==
    ASSUME NEW x, Locals(x), NEW v, NEW y, y = [x EXCEPT !.seen = v]
    PROVE  /\ Locals(y) /\ y.seen = v
           /\ y.state = x.state /\ y.retryAt = x.retryAt /\ y.attempts = x.attempts /\ y.watermark = x.watermark
           /\ y.lastObs = x.lastObs /\ y.latest = x.latest /\ y.reasons = x.reasons
<1>1. y = [state |-> x.state, retryAt |-> x.retryAt, attempts |-> x.attempts,
           watermark |-> x.watermark, lastObs |-> x.lastObs, latest |-> x.latest,
           seen |-> v, reasons |-> x.reasons]
  BY DEF Locals
<1>2. QED
  BY <1>1 DEF Locals

(* Assigning reasons leaves the other local variables alone.             *)
LEMMA SetReasons ==
    ASSUME NEW x, Locals(x), NEW v, NEW y, y = [x EXCEPT !.reasons = v]
    PROVE  /\ Locals(y) /\ y.reasons = v
           /\ y.state = x.state /\ y.retryAt = x.retryAt /\ y.attempts = x.attempts /\ y.watermark = x.watermark
           /\ y.lastObs = x.lastObs /\ y.latest = x.latest /\ y.seen = x.seen
<1>1. y = [state |-> x.state, retryAt |-> x.retryAt, attempts |-> x.attempts,
           watermark |-> x.watermark, lastObs |-> x.lastObs, latest |-> x.latest,
           seen |-> x.seen, reasons |-> v]
  BY DEF Locals
<1>2. QED
  BY <1>1 DEF Locals

-----------------------------------------------------------------------------
(* What the branches of _apply_event do to the local variables.            *)

(* A refusal adds a reason, so that the event is not accepted.             *)
LEMMA RefuseFacts ==
    ASSUME NEW x, Locals(x), NEW r, NEW y, y = Refuse(x, r)
    PROVE  /\ Locals(y) /\ y.reasons # {}
           /\ y.state = x.state /\ y.retryAt = x.retryAt /\ y.attempts = x.attempts
           /\ y.watermark = x.watermark /\ y.lastObs = x.lastObs /\ y.latest = x.latest
<1>1. y = [x EXCEPT !.reasons = x.reasons \cup {r}]
  BY DEF Refuse, Locals
<1>2. y.reasons = x.reasons \cup {r}
  BY <1>1, SetReasons
<1>3. QED
  BY <1>1, <1>2, SetReasons

(* Discard forgets the quotes and when the last one came.                  *)
LEMMA DiscardFacts ==
    ASSUME NEW x, Locals(x), NEW y, y = Discard(x)
    PROVE  /\ Locals(y) /\ y.latest = NoQuotes /\ y.lastObs = None
           /\ y.state = x.state /\ y.retryAt = x.retryAt /\ y.attempts = x.attempts
           /\ y.watermark = x.watermark /\ y.reasons = x.reasons
<1>1. PICK a : a = [x EXCEPT !.latest = NoQuotes]
  OBVIOUS
<1>2. /\ Locals(a) /\ a.latest = NoQuotes
      /\ a.state = x.state /\ a.retryAt = x.retryAt /\ a.attempts = x.attempts
      /\ a.watermark = x.watermark /\ a.reasons = x.reasons
  BY <1>1, SetLatest
<1>3. y = [a EXCEPT !.lastObs = None]
  BY <1>1 DEF Discard
<1>4. /\ Locals(y) /\ y.lastObs = None /\ y.latest = a.latest
      /\ y.state = a.state /\ y.retryAt = a.retryAt /\ y.attempts = a.attempts
      /\ y.watermark = a.watermark /\ y.reasons = a.reasons
  BY <1>2, <1>3, SetLastObs
<1>5. QED
  BY <1>2, <1>4

Move(x, s, r) == [x EXCEPT !.state = s, !.retryAt = r]

(* Assigning state and retry time together.                                *)
LEMMA MoveFacts ==
    ASSUME NEW x, Locals(x), NEW s, NEW r, NEW y, y = Move(x, s, r)
    PROVE  /\ Locals(y) /\ y.state = s /\ y.retryAt = r
           /\ y.attempts = x.attempts /\ y.watermark = x.watermark
           /\ y.lastObs = x.lastObs /\ y.latest = x.latest /\ y.reasons = x.reasons
<1>1. PICK a : a = [x EXCEPT !.state = s]
  OBVIOUS
<1>2. /\ Locals(a) /\ a.state = s
      /\ a.attempts = x.attempts /\ a.watermark = x.watermark
      /\ a.lastObs = x.lastObs /\ a.latest = x.latest /\ a.reasons = x.reasons
  BY <1>1, SetState
<1>3. y = [a EXCEPT !.retryAt = r]
  BY <1>1 DEF Move
<1>4. /\ Locals(y) /\ y.state = a.state /\ y.retryAt = r
      /\ y.attempts = a.attempts /\ y.watermark = a.watermark
      /\ y.lastObs = a.lastObs /\ y.latest = a.latest /\ y.reasons = a.reasons
  BY <1>2, <1>3, SetRetryAt
<1>5. QED
  BY <1>2, <1>4

(* A connect that is due starts the stream and refills the budget; any     *)
(* other is refused and changes nothing.                                   *)
LEMMA ConnectedFacts ==
    ASSUME NEW x, Locals(x), NEW e, NEW y, y = Connected(x, e)
    PROVE  /\ Locals(y)
           /\ y.watermark = x.watermark /\ y.lastObs = x.lastObs /\ y.latest = x.latest
           /\ \/ /\ y.reasons # {} /\ y.state = x.state
                 /\ y.retryAt = x.retryAt /\ y.attempts = x.attempts
              \/ /\ y.reasons = x.reasons /\ y.state = "STREAMING"
                 /\ y.retryAt = None /\ y.attempts = 0
                 /\ x.state \in {"CONNECTING", "BACKING_OFF", "RATE_LIMITED", "DEGRADED"}
                 /\ ~(x.retryAt # None /\ e.at < x.retryAt)
<1>1. CASE \E r : y = Refuse(x, r)
  BY <1>1, RefuseFacts
<1>2. CASE /\ y = [x EXCEPT !.state = "STREAMING", !.retryAt = None, !.attempts = 0]
           /\ x.state \in {"CONNECTING", "BACKING_OFF", "RATE_LIMITED", "DEGRADED"}
           /\ ~(x.retryAt # None /\ e.at < x.retryAt)
  <2>1. PICK a : a = Move(x, "STREAMING", None)
    OBVIOUS
  <2>2. /\ Locals(a) /\ a.state = "STREAMING" /\ a.retryAt = None
        /\ a.watermark = x.watermark /\ a.lastObs = x.lastObs
        /\ a.latest = x.latest /\ a.reasons = x.reasons
    BY <2>1, MoveFacts
  <2>3. y = [a EXCEPT !.attempts = 0]
    BY <1>2, <2>1 DEF Move
  <2>4. /\ Locals(y) /\ y.attempts = 0 /\ y.state = a.state /\ y.retryAt = a.retryAt
        /\ y.watermark = a.watermark /\ y.lastObs = a.lastObs
        /\ y.latest = a.latest /\ y.reasons = a.reasons
    BY <2>2, <2>3, SetAttempts
  <2>5. QED
    BY <1>2, <2>2, <2>4
<1>3. QED
  BY <1>1, <1>2 DEF Connected

LostTo(x, e, y) ==
    /\ Locals(y) /\ y.attempts = x.attempts + 1
    /\ y.watermark = x.watermark /\ y.latest = NoQuotes /\ y.lastObs = None
    /\ \/ /\ y.state = "HALTED" /\ y.retryAt = None /\ y.reasons # {}
       \/ /\ ~(y.attempts > MaxReconnectAttempts)
          /\ y.state = "BACKING_OFF" /\ y.reasons = x.reasons
          /\ y.retryAt = e.at + ReconnectDelay(y.attempts)

(* A lost connection counts; within the budget it schedules a retry, over  *)
(* it the collector halts.                                                 *)
LEMMA ConnectionLostFacts ==
    ASSUME NEW x, Locals(x), NEW e, NEW y, y = ConnectionLost(x, e)
    PROVE  LostTo(x, e, y)
<1> USE DEF LostTo
<1>1. PICK n : n = x.attempts + 1
  OBVIOUS
<1>2. PICK a : a = Discard(x)
  OBVIOUS
<1>3. PICK b : b = [a EXCEPT !.attempts = n]
  OBVIOUS
<1>4. /\ Locals(b) /\ b.attempts = n /\ b.latest = NoQuotes /\ b.lastObs = None
      /\ b.watermark = x.watermark /\ b.reasons = x.reasons
  BY <1>2, <1>3, DiscardFacts, SetAttempts
<1>5. CASE n > MaxReconnectAttempts
  <2>1. PICK d : d = Move(b, "HALTED", None)
    OBVIOUS
  <2>2. y = Refuse(d, "RECONNECT_BUDGET_EXHAUSTED")
    BY <1>1, <1>2, <1>3, <1>5, <2>1 DEF ConnectionLost, Move
  <2>3. /\ Locals(d) /\ d.state = "HALTED" /\ d.retryAt = None
        /\ d.attempts = b.attempts /\ d.watermark = b.watermark
        /\ d.lastObs = b.lastObs /\ d.latest = b.latest
    BY <1>4, <2>1, MoveFacts
  <2>4. /\ Locals(y) /\ y.reasons # {} /\ y.state = d.state /\ y.retryAt = d.retryAt
        /\ y.attempts = d.attempts /\ y.watermark = d.watermark
        /\ y.lastObs = d.lastObs /\ y.latest = d.latest
    BY <2>2, <2>3, RefuseFacts
  <2>5. QED
    BY <1>1, <1>4, <2>3, <2>4
<1>6. CASE ~(n > MaxReconnectAttempts)
  <2>1. y = Move(b, "BACKING_OFF", e.at + ReconnectDelay(n))
    BY <1>1, <1>2, <1>3, <1>6 DEF ConnectionLost, Move
  <2>2. /\ Locals(y) /\ y.state = "BACKING_OFF"
        /\ y.retryAt = e.at + ReconnectDelay(n)
        /\ y.attempts = b.attempts /\ y.watermark = b.watermark
        /\ y.lastObs = b.lastObs /\ y.latest = b.latest /\ y.reasons = b.reasons
    BY <1>4, <2>1, MoveFacts
  <2>3. QED
    BY <1>1, <1>4, <1>6, <2>2
<1>7. QED
  BY <1>5, <1>6

LimitedTo(x, e, y) ==
    /\ Locals(y) /\ y.attempts = x.attempts
    /\ y.watermark = x.watermark /\ y.latest = NoQuotes /\ y.lastObs = None
    /\ \/ /\ y.state = "HALTED" /\ y.retryAt = None /\ y.reasons # {}
       \/ /\ y.state = "RATE_LIMITED" /\ y.reasons = x.reasons
          /\ y.retryAt = e.at + Larger(e.retry, BaseBackoff)

(* A rate limit schedules a retry, or halts when its delay makes no sense. *)
LEMMA RateLimitedFacts ==
    ASSUME NEW x, Locals(x), NEW e, NEW y, y = RateLimited(x, e)
    PROVE  LimitedTo(x, e, y)
<1> USE DEF LimitedTo
<1>1. PICK a : a = Discard(x)
  OBVIOUS
<1>2. /\ Locals(a) /\ a.attempts = x.attempts /\ a.latest = NoQuotes
      /\ a.lastObs = None /\ a.watermark = x.watermark /\ a.reasons = x.reasons
  BY <1>1, DiscardFacts
<1>3. CASE e.retry <= 0
  <2>1. PICK d : d = Move(a, "HALTED", None)
    OBVIOUS
  <2>2. y = Refuse(d, "INVALID_RETRY_AFTER")
    BY <1>1, <1>3, <2>1 DEF RateLimited, RateLimitHalt, Move
  <2>3. /\ Locals(d) /\ d.state = "HALTED" /\ d.retryAt = None
        /\ d.attempts = a.attempts /\ d.watermark = a.watermark
        /\ d.lastObs = a.lastObs /\ d.latest = a.latest
    BY <1>2, <2>1, MoveFacts
  <2>4. /\ Locals(y) /\ y.reasons # {} /\ y.state = d.state /\ y.retryAt = d.retryAt
        /\ y.attempts = d.attempts /\ y.watermark = d.watermark
        /\ y.lastObs = d.lastObs /\ y.latest = d.latest
    BY <2>2, <2>3, RefuseFacts
  <2>5. QED
    BY <1>2, <2>3, <2>4
<1>4. CASE ~(e.retry <= 0)
  <2>1. y = Move(a, "RATE_LIMITED", e.at + Larger(e.retry, BaseBackoff))
    BY <1>1, <1>4 DEF RateLimited, Move
  <2>2. /\ Locals(y) /\ y.state = "RATE_LIMITED"
        /\ y.retryAt = e.at + Larger(e.retry, BaseBackoff)
        /\ y.attempts = a.attempts /\ y.watermark = a.watermark
        /\ y.lastObs = a.lastObs /\ y.latest = a.latest /\ y.reasons = a.reasons
    BY <1>2, <2>1, MoveFacts
  <2>3. QED
    BY <1>2, <2>2
<1>5. QED
  BY <1>3, <1>4

(* Start leaves STOPPED for CONNECTING, or is refused.                     *)
LEMMA StartFacts ==
    ASSUME NEW x, Locals(x), NEW e, NEW y, y = Start(x, e)
    PROVE  /\ Locals(y) /\ y.retryAt = x.retryAt /\ y.attempts = x.attempts
           /\ y.watermark = x.watermark /\ y.lastObs = x.lastObs /\ y.latest = x.latest
           /\ \/ y.reasons # {} /\ y.state = x.state
              \/ x.state = "STOPPED" /\ y.state = "CONNECTING"
<1>1. CASE y = Refuse(x, "INVALID_TRANSITION")
  BY <1>1, RefuseFacts
<1>2. CASE x.state = "STOPPED" /\ y = [x EXCEPT !.state = "CONNECTING"]
  BY <1>2, SetState
<1>3. QED
  BY <1>1, <1>2 DEF Start

(* A schema drift halts and keeps everything else.                         *)
LEMMA SchemaDriftFacts ==
    ASSUME NEW x, Locals(x), NEW e, NEW y, y = SchemaDrift(x, e)
    PROVE  /\ Locals(y) /\ y.state = "HALTED" /\ y.reasons # {}
           /\ y.retryAt = x.retryAt /\ y.attempts = x.attempts
           /\ y.watermark = x.watermark /\ y.lastObs = x.lastObs /\ y.latest = x.latest
<1>1. PICK a : a = [x EXCEPT !.state = "HALTED"]
  OBVIOUS
<1>2. /\ Locals(a) /\ a.state = "HALTED"
      /\ a.retryAt = x.retryAt /\ a.attempts = x.attempts
      /\ a.watermark = x.watermark /\ a.lastObs = x.lastObs /\ a.latest = x.latest
  BY <1>1, SetState
<1>3. y = Refuse(a, "SCHEMA_DRIFT")
  BY <1>1 DEF SchemaDrift
<1>4. /\ Locals(y) /\ y.reasons # {} /\ y.state = a.state
      /\ y.retryAt = a.retryAt /\ y.attempts = a.attempts
      /\ y.watermark = a.watermark /\ y.lastObs = a.lastObs /\ y.latest = a.latest
  BY <1>2, <1>3, RefuseFacts
<1>5. QED
  BY <1>2, <1>4

(* A stop forgets the quotes and the retry time, not the attempts.         *)
LEMMA StopFacts ==
    ASSUME NEW x, Locals(x), NEW e, NEW y, y = Stop(x, e)
    PROVE  /\ Locals(y) /\ y.state = "STOPPED" /\ y.retryAt = None
           /\ y.attempts = x.attempts /\ y.reasons = x.reasons
           /\ y.watermark = x.watermark /\ y.lastObs = None /\ y.latest = NoQuotes
<1>1. PICK a : a = Discard(x)
  OBVIOUS
<1>2. /\ Locals(a) /\ a.attempts = x.attempts /\ a.reasons = x.reasons
      /\ a.watermark = x.watermark /\ a.lastObs = None /\ a.latest = NoQuotes
  BY <1>1, DiscardFacts
<1>3. y = Move(a, "STOPPED", None)
  BY <1>1 DEF Stop, Move
<1>4. /\ Locals(y) /\ y.state = "STOPPED" /\ y.retryAt = None
      /\ y.attempts = a.attempts /\ y.reasons = a.reasons
      /\ y.watermark = a.watermark /\ y.lastObs = a.lastObs /\ y.latest = a.latest
  BY <1>2, <1>3, MoveFacts
<1>5. QED
  BY <1>2, <1>4

(* The latest quotes after one of a source was accepted.                   *)
Joined(x, o) ==
    [s \in DOMAIN x.latest \cup {o.source} |-> IF s = o.source THEN o ELSE x.latest[s]]

QuotedTo(x, e, y) ==
    /\ Locals(y) /\ y.retryAt = x.retryAt /\ y.attempts = x.attempts
    /\ \/ /\ y.reasons # {} /\ y.state = x.state /\ y.watermark = x.watermark
          /\ y.lastObs = x.lastObs /\ y.latest = x.latest
       \/ /\ x.state \in Live /\ y.reasons = x.reasons /\ y.state = "STREAMING"
          /\ ~(x.watermark # None /\ e.obs.src < x.watermark)
          /\ y.watermark = e.obs.src
          /\ y.lastObs = e.at /\ y.latest = Joined(x, e.obs)

(* An accepted quote is the latest of its source and the newest of all; a  *)
(* refused one may be remembered, and changes nothing else.                *)
LEMMA QuoteFacts ==
    ASSUME NEW x, Locals(x), NEW e, NEW y, y = Quote(x, e)
    PROVE  QuotedTo(x, e, y)
<1> USE DEF QuotedTo
<1>1. PICK k : k = [x EXCEPT !.seen = x.seen \cup {Fingerprint(e.obs)}]
  OBVIOUS
<1>2. /\ Locals(k) /\ k.retryAt = x.retryAt /\ k.attempts = x.attempts
      /\ k.reasons = x.reasons /\ k.state = x.state /\ k.watermark = x.watermark
      /\ k.lastObs = x.lastObs /\ k.latest = x.latest
  BY <1>1, SetSeen
<1>3. CASE \E r : y = Refuse(x, r)
  BY <1>3, RefuseFacts
<1>4. CASE y = Refuse(k, "OUT_OF_ORDER_OBSERVATION")
  <2>1. /\ Locals(y) /\ y.reasons # {} /\ y.state = k.state /\ y.retryAt = k.retryAt
        /\ y.attempts = k.attempts /\ y.watermark = k.watermark
        /\ y.lastObs = k.lastObs /\ y.latest = k.latest
    BY <1>2, <1>4, RefuseFacts
  <2>2. QED
    BY <1>2, <2>1
<1>5. CASE y = Refuse(Refuse(k, "OUT_OF_ORDER_OBSERVATION"), "BEHIND_WATERMARK")
  <2>1. PICK d : d = Refuse(k, "OUT_OF_ORDER_OBSERVATION")
    OBVIOUS
  <2>2. /\ Locals(d) /\ d.state = k.state /\ d.retryAt = k.retryAt
        /\ d.attempts = k.attempts /\ d.watermark = k.watermark
        /\ d.lastObs = k.lastObs /\ d.latest = k.latest
    BY <1>2, <2>1, RefuseFacts
  <2>3. /\ Locals(y) /\ y.reasons # {} /\ y.state = d.state /\ y.retryAt = d.retryAt
        /\ y.attempts = d.attempts /\ y.watermark = d.watermark
        /\ y.lastObs = d.lastObs /\ y.latest = d.latest
    BY <1>5, <2>1, <2>2, RefuseFacts
  <2>4. QED
    BY <1>2, <2>2, <2>3
<1>6. CASE /\ x.state \in Live /\ ~(x.watermark # None /\ e.obs.src < x.watermark)
           /\ y = [k EXCEPT !.state = "STREAMING", !.lastObs = e.at,
                            !.watermark = e.obs.src, !.latest = Joined(x, e.obs)]
  <2>1. PICK a : a = [k EXCEPT !.state = "STREAMING"]
    OBVIOUS
  <2>2. /\ Locals(a) /\ a.retryAt = k.retryAt /\ a.attempts = k.attempts
        /\ a.reasons = k.reasons /\ a.state = "STREAMING"
    BY <1>2, <2>1, SetState
  <2>3. PICK b : b = [a EXCEPT !.lastObs = e.at]
    OBVIOUS
  <2>4. /\ Locals(b) /\ b.retryAt = a.retryAt /\ b.attempts = a.attempts
        /\ b.reasons = a.reasons /\ b.state = a.state /\ b.lastObs = e.at
    BY <2>2, <2>3, SetLastObs
  <2>5. PICK d : d = [b EXCEPT !.watermark = e.obs.src]
    OBVIOUS
  <2>6. /\ Locals(d) /\ d.retryAt = b.retryAt /\ d.attempts = b.attempts
        /\ d.reasons = b.reasons /\ d.state = b.state /\ d.lastObs = b.lastObs
        /\ d.watermark = e.obs.src
    BY <2>4, <2>5, SetWatermark
  <2>7. y = [d EXCEPT !.latest = Joined(x, e.obs)]
    BY <1>6, <2>1, <2>3, <2>5
  <2>8. /\ Locals(y) /\ y.retryAt = d.retryAt /\ y.attempts = d.attempts
        /\ y.reasons = d.reasons /\ y.state = d.state /\ y.lastObs = d.lastObs
        /\ y.watermark = d.watermark /\ y.latest = Joined(x, e.obs)
    BY <2>6, <2>7, SetLatest
  <2>9. QED
    BY <1>2, <1>6, <2>2, <2>4, <2>6, <2>8
<1>7. QED
  BY <1>1, <1>3, <1>4, <1>5, <1>6 DEF Quote, Joined

(* The freshness check only degrades.                                      *)
LEMMA FreshenFacts ==
    ASSUME NEW x, Locals(x), NEW now, NEW y, y = Freshen(x, now)
    PROVE  /\ Locals(y) /\ y.retryAt = x.retryAt /\ y.attempts = x.attempts
           /\ y.watermark = x.watermark /\ y.lastObs = x.lastObs /\ y.latest = x.latest
           /\ \/ x.state \in Live /\ y.state = "DEGRADED"
              \/ /\ y.state = x.state
                 /\ x.state \in Live =>
                       ~(x.lastObs = None \/ now - x.lastObs > FreshnessLimit)
<1>1. PICK a : a = [x EXCEPT !.state = "DEGRADED"]
  OBVIOUS
<1>2. /\ Locals(a) /\ a.state = "DEGRADED"
      /\ a.retryAt = x.retryAt /\ a.attempts = x.attempts
      /\ a.watermark = x.watermark /\ a.lastObs = x.lastObs /\ a.latest = x.latest
  BY <1>1, SetState
<1>3. CASE x.state \in Live /\ y = Refuse(a, "COLLECTOR_STALE")
  <2>1. /\ Locals(y) /\ y.state = a.state
        /\ y.retryAt = a.retryAt /\ y.attempts = a.attempts
        /\ y.watermark = a.watermark /\ y.lastObs = a.lastObs /\ y.latest = a.latest
    BY <1>2, <1>3, RefuseFacts
  <2>2. QED
    BY <1>2, <1>3, <2>1
<1>4. CASE /\ y = x
           /\ x.state \in Live =>
                ~(x.lastObs = None \/ now - x.lastObs > FreshnessLimit)
  BY <1>4
<1>5. QED
  BY <1>1, <1>3, <1>4 DEF Freshen

-----------------------------------------------------------------------------
(* One event.                                                              *)

(* None is not an instant.                                                 *)
LEMMA NoneIsNoTime == None \notin Times
<1>1. \A n \in Nat : n \in Int
  OBVIOUS
<1>2. QED
  BY <1>1, EventAssumption

(* The event passes the admission checks and its branch is taken.          *)
LookedAt(e) == Refusals(e) = {} /\ ~e.drifted /\ c.state # "HALTED"

Faulted(e) == LookedAt(e) /\ e.kind \in {"CONNECTION_LOST", "RATE_LIMITED"}

(* What an event does to local variables y and record g of the past.       *)
Stepped(e, y, g) ==
    /\ StateOK(y, g)
    /\ hist.fault \in Times /\ g.fault = None /\ y.state \in Live
         => e.at >= hist.fault + BaseBackoff
    /\ c.state = "HALTED" => y.state = "HALTED"

(* What is known of an event: its time is an instant, only a rate limit    *)
(* has a delay and only a quote an observation.                            *)
EventOK(e) ==
    /\ e.kind \in Kinds /\ e.at \in Times
    /\ e.known \in BOOLEAN /\ e.drifted \in BOOLEAN
    /\ e.kind = "QUOTE" => e.obs.src \in Int
    /\ e.kind = "RATE_LIMITED" => e.retry \in Int

(* Every event offered to the loop is one.                                 *)
LEMMA OfferedFacts ==
    ASSUME NEW kind \in Kinds, NEW e \in Offered(kind)
    PROVE  EventOK(e)
<1>1. e \in Events(kind)
  BY DEF Offered
<1>2. PICK t \in Times :
        e \in {[known |-> k, kind |-> kind, at |-> t, drifted |-> d, obs |-> o, retry |-> r] :
                 k \in BOOLEAN, d \in BOOLEAN,
                 o \in IF kind = "QUOTE" THEN ObservationsAt(t) ELSE {None},
                 r \in IF kind = "RATE_LIMITED" THEN RetryAfters ELSE {None}}
  BY <1>1 DEF Events
<1>3. PICK k \in BOOLEAN, d \in BOOLEAN,
           o \in IF kind = "QUOTE" THEN ObservationsAt(t) ELSE {None},
           r \in IF kind = "RATE_LIMITED" THEN RetryAfters ELSE {None} :
        e = [known |-> k, kind |-> kind, at |-> t, drifted |-> d, obs |-> o, retry |-> r]
  BY <1>2
<1>4. /\ e.kind = kind /\ e.at = t /\ e.known = k /\ e.drifted = d
      /\ e.obs = o /\ e.retry = r
  BY <1>3
<1>5. kind = "QUOTE" => o.src \in Int
  <2>1. kind = "QUOTE" => o \in ObservationsAt(t)
    OBVIOUS
  <2>2. QED
    BY <2>1, EventAssumption
<1>6. kind = "RATE_LIMITED" => r \in Int
  BY EventAssumption
<1>7. e.known \in BOOLEAN /\ e.drifted \in BOOLEAN
  BY <1>4
<1>8. QED
  BY <1>4, <1>5, <1>6, <1>7 DEF EventOK

(* The local variables an event is applied to.                             *)
LEMMA BeginFacts ==
    ASSUME Locals(c), NEW e, NEW x, x = [c EXCEPT !.reasons = Refusals(e)]
    PROVE  /\ Locals(x) /\ x.reasons = Refusals(e)
           /\ x.state = c.state /\ x.retryAt = c.retryAt /\ x.attempts = c.attempts
           /\ x.watermark = c.watermark /\ x.lastObs = c.lastObs /\ x.latest = c.latest
BY SetReasons

(* A refused event that is no fault leaves the record of the past alone.   *)
LEMMA RefusedFacts ==
    ASSUME NEW e, ~Faulted(e), NEW y, y.reasons # {}, NEW g, g = Remember(e, y)
    PROVE  /\ g.quoted = hist.quoted /\ g.losses = hist.losses
           /\ g.fault = hist.fault /\ g.top = hist.top
BY DEF Remember, Faulted, LookedAt

(* Variables that differ from those before in nothing but the reasons, or  *)
(* in being halted, keep the invariant if the past is the same.            *)
LEMMA SameStepped ==
    ASSUME StateOK(c, hist), NEW e, NEW y, Locals(y),
           y.state = c.state \/ y.state = "HALTED",
           y.retryAt = c.retryAt, y.attempts = c.attempts, y.watermark = c.watermark,
           y.lastObs = c.lastObs, y.latest = c.latest,
           NEW g, g.quoted = hist.quoted, g.losses = hist.losses,
           g.fault = hist.fault, g.top = hist.top
    PROVE  Stepped(e, y, g)
<1>1. LocalsOK(y)
  BY DEF StateOK, LocalsOK, States
<1>2. QuotesOK(y, g)
  BY DEF StateOK, QuotesOK
<1>3. BudgetOK(y, g)
  BY DEF StateOK, BudgetOK
<1>4. FaultOK(y, g)
  BY DEF StateOK, FaultOK
<1>5. hist.fault \in Times /\ g.fault = None => FALSE
  BY NoneIsNoTime
<1>6. y.watermark = g.top
  BY DEF StateOK
<1>7. c.state = "HALTED" => y.state = "HALTED"
  OBVIOUS
<1>8. QED
  BY <1>1, <1>2, <1>3, <1>4, <1>5, <1>6, <1>7 DEF Stepped, StateOK

(* An event that is refused on sight, has another schema or meets a halted *)
(* collector.                                                              *)
LEMMA NotLookedAt ==
    ASSUME StateOK(c, hist), NEW e, ~LookedAt(e),
           NEW y, y = Handled(e), NEW g, g = Remember(e, y)
    PROVE  Stepped(e, y, g)
<1>1. PICK x : x = [c EXCEPT !.reasons = Refusals(e)]
  OBVIOUS
<1>2. /\ Locals(x) /\ x.reasons = Refusals(e)
      /\ x.state = c.state /\ x.retryAt = c.retryAt /\ x.attempts = c.attempts
      /\ x.watermark = c.watermark /\ x.lastObs = c.lastObs /\ x.latest = c.latest
  BY <1>1, BeginFacts DEF StateOK, LocalsOK
<1>3. /\ Locals(y) /\ y.reasons # {}
      /\ y.state = x.state \/ y.state = "HALTED"
      /\ y.retryAt = x.retryAt /\ y.attempts = x.attempts
      /\ y.watermark = x.watermark /\ y.lastObs = x.lastObs /\ y.latest = x.latest
  <2>1. CASE Refusals(e) # {} /\ y = x
    BY <1>2, <2>1
  <2>2. CASE y = SchemaDrift(x, e)
    BY <1>2, <2>2, SchemaDriftFacts
  <2>3. CASE y = Refuse(x, "COLLECTOR_HALTED")
    BY <1>2, <2>3, RefuseFacts
  <2>4. QED
    BY <1>1, <2>1, <2>2, <2>3 DEF Handled, LookedAt
<1>4. /\ g.quoted = hist.quoted /\ g.losses = hist.losses
      /\ g.fault = hist.fault /\ g.top = hist.top
  BY <1>3, RefusedFacts DEF Faulted
<1>5. QED
  BY <1>2, <1>3, <1>4, SameStepped

(* Heartbeat and start change at most STOPPED to CONNECTING.               *)
LEMMA StartStepped ==
    ASSUME StateOK(c, hist), NEW e, EventOK(e), LookedAt(e),
           e.kind \in {"START", "HEARTBEAT"},
           NEW y, y = Handled(e), NEW g, g = Remember(e, y)
    PROVE  Stepped(e, y, g)
<1>1. PICK x : x = [c EXCEPT !.reasons = Refusals(e)]
  OBVIOUS
<1>2. /\ Locals(x) /\ x.reasons = {}
      /\ x.state = c.state /\ x.retryAt = c.retryAt /\ x.attempts = c.attempts
      /\ x.watermark = c.watermark /\ x.lastObs = c.lastObs /\ x.latest = c.latest
  BY <1>1, BeginFacts DEF StateOK, LocalsOK, LookedAt
<1>3. /\ Locals(y)
      /\ y.retryAt = x.retryAt /\ y.attempts = x.attempts
      /\ y.watermark = x.watermark /\ y.lastObs = x.lastObs /\ y.latest = x.latest
      /\ y.state = x.state \/ (x.state = "STOPPED" /\ y.state = "CONNECTING")
  <2>1. CASE y = Start(x, e)
    BY <1>2, <2>1, StartFacts
  <2>2. CASE y = x
    BY <1>2, <2>2
  <2>3. CASE y = Refuse(x, "INVALID_TRANSITION")
    BY <1>2, <2>3, RefuseFacts
  <2>4. y = Apply(x, e)
    BY <1>1 DEF Handled, LookedAt
  <2>5. y = Start(x, e) \/ y = Heartbeat(x, e)
    BY <2>4 DEF Apply
  <2>6. QED
    BY <2>1, <2>2, <2>3, <2>5 DEF Heartbeat
<1>4. /\ g.quoted = hist.quoted /\ g.losses = hist.losses
      /\ g.fault = hist.fault /\ g.top = hist.top
  BY DEF Remember
<1>5. CASE y.state = x.state
  BY <1>2, <1>3, <1>4, <1>5, SameStepped
<1>6. CASE c.state = "STOPPED" /\ y.state = "CONNECTING"
  <2>1. LocalsOK(y)
    BY <1>2, <1>3, <1>6 DEF StateOK, LocalsOK, States
  <2>2. QuotesOK(y, g)
    BY <1>2, <1>3, <1>4 DEF StateOK, QuotesOK
  <2>3. BudgetOK(y, g)
    BY <1>2, <1>3, <1>4, <1>6 DEF StateOK, BudgetOK
  <2>4. hist.fault \notin Times
    BY <1>6 DEF StateOK, FaultOK
  <2>5. y.watermark = g.top
    BY <1>2, <1>3, <1>4 DEF StateOK
  <2>6. QED
    BY <1>4, <1>6, <2>1, <2>2, <2>3, <2>4, <2>5 DEF Stepped, StateOK, FaultOK
<1>7. QED
  BY <1>2, <1>3, <1>5, <1>6

(* Without quotes nothing was quoted.                                      *)
LEMMA NoQuotesFacts ==
    ASSUME NEW y, y.latest = NoQuotes, NEW g, g.quoted = {}
    PROVE  QuotesOK(y, g)
<1>1. DOMAIN NoQuotes = {}
  BY DEF NoQuotes
<1>2. QED
  BY <1>1, FS_EmptySet DEF QuotesOK

(* A delay is a number, at least the base backoff.                         *)
LEMMA DelayFacts ==
    ASSUME NEW n \in Nat, ~(n > MaxReconnectAttempts), n >= 1
    PROVE  ReconnectDelay(n) \in Nat /\ ReconnectDelay(n) >= BaseBackoff
<1>1. n - 1 \in 0..MaxReconnectAttempts
  BY CollectorPolicyAssumption
<1>2. PICK p : p = 2^(n - 1)
  OBVIOUS
<1>3. p \in Nat /\ p >= 1
  BY <1>1, <1>2, BackoffAssumption
<1>4. BaseBackoff \in Nat /\ MaxBackoff \in Nat /\ MaxBackoff >= BaseBackoff
  BY CollectorPolicyAssumption
<1>5. BaseBackoff * p \in Nat /\ BaseBackoff * p >= BaseBackoff
  BY <1>3, <1>4
<1>6. QED
  BY <1>2, <1>4, <1>5 DEF ReconnectDelay, Smaller

(* A drift the provider reports itself halts like one that is detected.    *)
LEMMA DriftStepped ==
    ASSUME StateOK(c, hist), NEW e, EventOK(e), LookedAt(e), e.kind = "SCHEMA_DRIFT",
           NEW y, y = Handled(e), NEW g, g = Remember(e, y)
    PROVE  Stepped(e, y, g)
<1>1. PICK x : x = [c EXCEPT !.reasons = Refusals(e)]
  OBVIOUS
<1>2. /\ Locals(x) /\ x.reasons = {}
      /\ x.state = c.state /\ x.retryAt = c.retryAt /\ x.attempts = c.attempts
      /\ x.watermark = c.watermark /\ x.lastObs = c.lastObs /\ x.latest = c.latest
  BY <1>1, BeginFacts DEF StateOK, LocalsOK, LookedAt
<1>3. y = SchemaDrift(x, e)
  <2>1. y = Apply(x, e)
    BY <1>1 DEF Handled, LookedAt
  <2>2. QED
    BY <2>1 DEF Apply
<1>4. /\ Locals(y) /\ y.state = "HALTED" /\ y.reasons # {}
      /\ y.retryAt = x.retryAt /\ y.attempts = x.attempts
      /\ y.watermark = x.watermark /\ y.lastObs = x.lastObs /\ y.latest = x.latest
  BY <1>2, <1>3, SchemaDriftFacts
<1>5. /\ g.quoted = hist.quoted /\ g.losses = hist.losses
      /\ g.fault = hist.fault /\ g.top = hist.top
  BY <1>4, RefusedFacts DEF Faulted
<1>6. QED
  BY <1>2, <1>4, <1>5, SameStepped

(* A stop ends the wait that a fault began.                                *)
LEMMA StopStepped ==
    ASSUME StateOK(c, hist), NEW e, EventOK(e), LookedAt(e), e.kind = "STOP",
           NEW y, y = Handled(e), NEW g, g = Remember(e, y)
    PROVE  Stepped(e, y, g)
<1>1. PICK x : x = [c EXCEPT !.reasons = Refusals(e)]
  OBVIOUS
<1>2. /\ Locals(x) /\ x.reasons = {}
      /\ x.state = c.state /\ x.retryAt = c.retryAt /\ x.attempts = c.attempts
      /\ x.watermark = c.watermark /\ x.lastObs = c.lastObs /\ x.latest = c.latest
  BY <1>1, BeginFacts DEF StateOK, LocalsOK, LookedAt
<1>3. y = Stop(x, e)
  <2>1. y = Apply(x, e)
    BY <1>1 DEF Handled, LookedAt
  <2>2. QED
    BY <2>1 DEF Apply
<1>4. /\ Locals(y) /\ y.state = "STOPPED" /\ y.retryAt = None
      /\ y.attempts = x.attempts /\ y.reasons = x.reasons
      /\ y.watermark = x.watermark /\ y.lastObs = None /\ y.latest = NoQuotes
  BY <1>2, <1>3, StopFacts
<1>5. /\ g.quoted = {} /\ g.losses = hist.losses
      /\ g.fault = None /\ g.top = hist.top
  BY <1>2, <1>4 DEF Remember
<1>6. LocalsOK(y)
  BY <1>2, <1>4 DEF StateOK, LocalsOK, States
<1>7. QuotesOK(y, g)
  BY <1>4, <1>5, NoQuotesFacts
<1>8. BudgetOK(y, g)
  BY <1>2, <1>4, <1>5 DEF StateOK, BudgetOK, LookedAt
<1>9. FaultOK(y, g)
  BY <1>5, NoneIsNoTime DEF FaultOK
<1>10. y.watermark = g.top
  BY <1>2, <1>4, <1>5 DEF StateOK
<1>11. y.state \notin Live
  BY <1>4 DEF Live
<1>12. QED
  BY <1>6, <1>7, <1>8, <1>9, <1>10, <1>11 DEF Stepped, StateOK, LookedAt

(* A connect streams only once the retry time has come.                    *)
LEMMA ConnectedStepped ==
    ASSUME StateOK(c, hist), NEW e, EventOK(e), LookedAt(e), e.kind = "CONNECTED",
           NEW y, y = Handled(e), NEW g, g = Remember(e, y)
    PROVE  Stepped(e, y, g)
<1>1. PICK x : x = [c EXCEPT !.reasons = Refusals(e)]
  OBVIOUS
<1>2. /\ Locals(x) /\ x.reasons = {}
      /\ x.state = c.state /\ x.retryAt = c.retryAt /\ x.attempts = c.attempts
      /\ x.watermark = c.watermark /\ x.lastObs = c.lastObs /\ x.latest = c.latest
  BY <1>1, BeginFacts DEF StateOK, LocalsOK, LookedAt
<1>3. y = Connected(x, e)
  <2>1. y = Apply(x, e)
    BY <1>1 DEF Handled, LookedAt
  <2>2. QED
    BY <2>1 DEF Apply
<1>4. /\ Locals(y)
      /\ y.watermark = x.watermark /\ y.lastObs = x.lastObs /\ y.latest = x.latest
      /\ \/ /\ y.reasons # {} /\ y.state = x.state
            /\ y.retryAt = x.retryAt /\ y.attempts = x.attempts
         \/ /\ y.reasons = x.reasons /\ y.state = "STREAMING"
            /\ y.retryAt = None /\ y.attempts = 0
            /\ x.state \in {"CONNECTING", "BACKING_OFF", "RATE_LIMITED", "DEGRADED"}
            /\ ~(x.retryAt # None /\ e.at < x.retryAt)
  <2>1. Locals(x)
    BY <1>2
  <2> QED
    BY <1>3, <2>1, ConnectedFacts
<1>5. CASE /\ y.reasons # {} /\ y.state = x.state
           /\ y.retryAt = x.retryAt /\ y.attempts = x.attempts
  <2>1. /\ g.quoted = hist.quoted /\ g.losses = hist.losses
        /\ g.fault = hist.fault /\ g.top = hist.top
    BY <1>5, RefusedFacts DEF Faulted
  <2>2. QED
    BY <1>2, <1>4, <1>5, <2>1, SameStepped
<1>6. CASE /\ y.reasons = x.reasons /\ y.state = "STREAMING"
           /\ y.retryAt = None /\ y.attempts = 0
           /\ x.state \in {"CONNECTING", "BACKING_OFF", "RATE_LIMITED", "DEGRADED"}
           /\ ~(x.retryAt # None /\ e.at < x.retryAt)
  <2>1. /\ g.quoted = hist.quoted /\ g.losses = 0
        /\ g.fault = None /\ g.top = hist.top
    BY <1>2, <1>6 DEF Remember
  <2>2. LocalsOK(y)
    BY <1>2, <1>4, <1>6 DEF StateOK, LocalsOK, States
  <2>3. QuotesOK(y, g)
    BY <1>2, <1>4, <2>1 DEF StateOK, QuotesOK
  <2>4. BudgetOK(y, g)
    BY <1>6, <2>1, CollectorPolicyAssumption DEF BudgetOK
  <2>5. FaultOK(y, g)
    BY <2>1, NoneIsNoTime DEF FaultOK
  <2>6. y.watermark = g.top
    BY <1>2, <1>4, <2>1 DEF StateOK
  <2>7. hist.fault \in Times => e.at >= hist.fault + BaseBackoff
    <3>1. SUFFICES ASSUME hist.fault \in Times
                   PROVE  e.at >= hist.fault + BaseBackoff
      OBVIOUS
    <3>2. x.retryAt \in Nat /\ x.retryAt >= hist.fault + BaseBackoff
      BY <1>2, <1>6, <3>1 DEF StateOK, FaultOK
    <3>3. x.retryAt # None
      <4>1. \A n \in Nat : n \in Int
        OBVIOUS
      <4>2. QED
        BY <3>2, <4>1, EventAssumption
    <3>4. e.at \in Nat /\ hist.fault \in Nat /\ BaseBackoff \in Nat
      BY <3>1, EventAssumption, CollectorPolicyAssumption DEF EventOK
    <3>5. QED
      BY <1>6, <3>2, <3>3, <3>4
  <2>8. QED
    BY <2>2, <2>3, <2>4, <2>5, <2>6, <2>7 DEF Stepped, StateOK, LookedAt
<1>7. QED
  BY <1>4, <1>5, <1>6

(* A lost connection begins a wait of at least the base backoff, or halts. *)
LEMMA ConnectionLostStepped ==
    ASSUME StateOK(c, hist), NEW e, EventOK(e), LookedAt(e), e.kind = "CONNECTION_LOST",
           NEW y, y = Handled(e), NEW g, g = Remember(e, y)
    PROVE  Stepped(e, y, g)
<1>1. PICK x : x = [c EXCEPT !.reasons = Refusals(e)]
  OBVIOUS
<1>2. /\ Locals(x) /\ x.reasons = {}
      /\ x.state = c.state /\ x.retryAt = c.retryAt /\ x.attempts = c.attempts
      /\ x.watermark = c.watermark /\ x.lastObs = c.lastObs /\ x.latest = c.latest
  BY <1>1, BeginFacts DEF StateOK, LocalsOK, LookedAt
<1>3. y = ConnectionLost(x, e)
  <2>1. y = Apply(x, e)
    BY <1>1 DEF Handled, LookedAt
  <2>2. QED
    BY <2>1 DEF Apply
<1>4. /\ Locals(y) /\ y.attempts = x.attempts + 1
      /\ y.watermark = x.watermark /\ y.latest = NoQuotes /\ y.lastObs = None
      /\ \/ /\ y.state = "HALTED" /\ y.retryAt = None /\ y.reasons # {}
         \/ /\ ~(y.attempts > MaxReconnectAttempts)
            /\ y.state = "BACKING_OFF" /\ y.reasons = x.reasons
            /\ y.retryAt = e.at + ReconnectDelay(y.attempts)
  <2>1. LostTo(x, e, y)
    BY <1>2, <1>3, ConnectionLostFacts
  <2>2. QED
    BY <2>1 DEF LostTo
<1>5. /\ g.quoted = {} /\ g.losses = hist.losses + 1
      /\ g.fault = e.at /\ g.top = hist.top
  <2>1. ~(y.reasons = {} /\ e.kind = "QUOTE") /\ ~(y.reasons = {} /\ e.kind = "CONNECTED")
    OBVIOUS
  <2>2. QED
    BY <2>1 DEF Remember, LookedAt
<1>6. x.attempts \in Nat /\ e.at \in Nat /\ BaseBackoff \in Nat
  BY <1>2, EventAssumption, CollectorPolicyAssumption DEF StateOK, LocalsOK, EventOK
<1>7. y.state = "BACKING_OFF" =>
        y.retryAt \in Nat /\ y.retryAt >= e.at + BaseBackoff
  <2>1. SUFFICES ASSUME y.state = "BACKING_OFF"
                 PROVE  y.retryAt \in Nat /\ y.retryAt >= e.at + BaseBackoff
    OBVIOUS
  <2>2. /\ y.attempts \in Nat /\ y.attempts >= 1
        /\ ~(y.attempts > MaxReconnectAttempts)
        /\ y.retryAt = e.at + ReconnectDelay(y.attempts)
    BY <1>4, <1>6, <2>1
  <2>3. ReconnectDelay(y.attempts) \in Nat /\ ReconnectDelay(y.attempts) >= BaseBackoff
    BY <2>2, DelayFacts
  <2>4. QED
    BY <1>6, <2>2, <2>3
<1>8. LocalsOK(y)
  <2>1. y.state \in States /\ y.retryAt \in Nat \cup {None}
    BY <1>4, <1>7 DEF States
  <2>2. QED
    BY <1>2, <1>4, <1>6, <2>1 DEF StateOK, LocalsOK
<1>9. QuotesOK(y, g)
  BY <1>4, <1>5, NoQuotesFacts
<1>10. BudgetOK(y, g)
  BY <1>2, <1>4, <1>5 DEF StateOK, BudgetOK
<1>11. FaultOK(y, g)
  BY <1>4, <1>5, <1>7 DEF FaultOK
<1>12. y.watermark = g.top
  BY <1>2, <1>4, <1>5 DEF StateOK
<1>13. y.state \notin Live
  BY <1>4 DEF Live
<1>14. QED
  BY <1>8, <1>9, <1>10, <1>11, <1>12, <1>13 DEF Stepped, StateOK, LookedAt

(* A rate limit begins a wait of at least the base backoff, or halts.      *)
LEMMA RateLimitedStepped ==
    ASSUME StateOK(c, hist), NEW e, EventOK(e), LookedAt(e), e.kind = "RATE_LIMITED",
           NEW y, y = Handled(e), NEW g, g = Remember(e, y)
    PROVE  Stepped(e, y, g)
<1>1. PICK x : x = [c EXCEPT !.reasons = Refusals(e)]
  OBVIOUS
<1>2. /\ Locals(x) /\ x.reasons = {}
      /\ x.state = c.state /\ x.retryAt = c.retryAt /\ x.attempts = c.attempts
      /\ x.watermark = c.watermark /\ x.lastObs = c.lastObs /\ x.latest = c.latest
  BY <1>1, BeginFacts DEF StateOK, LocalsOK, LookedAt
<1>3. y = RateLimited(x, e)
  <2>1. y = Apply(x, e)
    BY <1>1 DEF Handled, LookedAt
  <2>2. QED
    BY <2>1 DEF Apply
<1>4. /\ Locals(y) /\ y.attempts = x.attempts
      /\ y.watermark = x.watermark /\ y.latest = NoQuotes /\ y.lastObs = None
      /\ \/ /\ y.state = "HALTED" /\ y.retryAt = None /\ y.reasons # {}
         \/ /\ y.state = "RATE_LIMITED" /\ y.reasons = x.reasons
            /\ y.retryAt = e.at + Larger(e.retry, BaseBackoff)
  <2>1. LimitedTo(x, e, y)
    BY <1>2, <1>3, RateLimitedFacts
  <2>2. QED
    BY <2>1 DEF LimitedTo
<1>5. /\ g.quoted = {} /\ g.losses = hist.losses
      /\ g.fault = e.at /\ g.top = hist.top
  <2>1. ~(y.reasons = {} /\ e.kind = "QUOTE") /\ ~(y.reasons = {} /\ e.kind = "CONNECTED")
    OBVIOUS
  <2>2. QED
    BY <2>1 DEF Remember, LookedAt
<1>6. e.retry \in Int /\ e.at \in Nat /\ BaseBackoff \in Nat
  BY EventAssumption, CollectorPolicyAssumption DEF EventOK
<1>7. y.state = "RATE_LIMITED" =>
        y.retryAt \in Nat /\ y.retryAt >= e.at + BaseBackoff
  BY <1>4, <1>6 DEF Larger
<1>8. LocalsOK(y)
  <2>1. y.state \in States /\ y.retryAt \in Nat \cup {None}
    BY <1>4, <1>7 DEF States
  <2>2. QED
    BY <1>2, <1>4, <2>1 DEF StateOK, LocalsOK
<1>9. QuotesOK(y, g)
  BY <1>4, <1>5, NoQuotesFacts
<1>10. BudgetOK(y, g)
  BY <1>2, <1>4, <1>5 DEF StateOK, BudgetOK, LookedAt
<1>11. FaultOK(y, g)
  BY <1>4, <1>5, <1>7 DEF FaultOK
<1>12. y.watermark = g.top
  BY <1>2, <1>4, <1>5 DEF StateOK
<1>13. y.state \notin Live
  BY <1>4 DEF Live
<1>14. QED
  BY <1>8, <1>9, <1>10, <1>11, <1>12, <1>13 DEF Stepped, StateOK, LookedAt

(* An accepted quote joins the latest ones, and moves the watermark up.    *)
LEMMA QuoteStepped ==
    ASSUME StateOK(c, hist), NEW e, EventOK(e), LookedAt(e), e.kind = "QUOTE",
           NEW y, y = Handled(e), NEW g, g = Remember(e, y)
    PROVE  Stepped(e, y, g)
<1>1. PICK x : x = [c EXCEPT !.reasons = Refusals(e)]
  OBVIOUS
<1>2. /\ Locals(x) /\ x.reasons = {}
      /\ x.state = c.state /\ x.retryAt = c.retryAt /\ x.attempts = c.attempts
      /\ x.watermark = c.watermark /\ x.lastObs = c.lastObs /\ x.latest = c.latest
  BY <1>1, BeginFacts DEF StateOK, LocalsOK, LookedAt
<1>3. y = Quote(x, e)
  <2>1. y = Apply(x, e)
    BY <1>1 DEF Handled, LookedAt
  <2>2. QED
    BY <2>1 DEF Apply
<1>4. /\ Locals(y) /\ y.retryAt = x.retryAt /\ y.attempts = x.attempts
      /\ \/ /\ y.reasons # {} /\ y.state = x.state /\ y.watermark = x.watermark
            /\ y.lastObs = x.lastObs /\ y.latest = x.latest
         \/ /\ x.state \in Live /\ y.reasons = x.reasons /\ y.state = "STREAMING"
            /\ ~(x.watermark # None /\ e.obs.src < x.watermark)
            /\ y.watermark = e.obs.src
            /\ y.lastObs = e.at /\ y.latest = Joined(x, e.obs)
  <2>1. QuotedTo(x, e, y)
    BY <1>2, <1>3, QuoteFacts
  <2>2. QED
    BY <2>1 DEF QuotedTo
<1>5. CASE /\ y.reasons # {} /\ y.state = x.state /\ y.watermark = x.watermark
           /\ y.lastObs = x.lastObs /\ y.latest = x.latest
  <2>1. /\ g.quoted = hist.quoted /\ g.losses = hist.losses
        /\ g.fault = hist.fault /\ g.top = hist.top
    BY <1>5, RefusedFacts DEF Faulted
  <2>2. QED
    BY <1>2, <1>4, <1>5, <2>1, SameStepped
<1>6. CASE /\ x.state \in Live /\ y.reasons = x.reasons /\ y.state = "STREAMING"
           /\ ~(x.watermark # None /\ e.obs.src < x.watermark)
           /\ y.watermark = e.obs.src
           /\ y.lastObs = e.at /\ y.latest = Joined(x, e.obs)
  <2>1. /\ g.quoted = hist.quoted \cup {e.obs.source} /\ g.losses = hist.losses
        /\ g.fault = hist.fault
        /\ g.top = IF hist.top = None \/ hist.top < e.obs.src THEN e.obs.src ELSE hist.top
    BY <1>2, <1>6 DEF Remember
  <2>2. LocalsOK(y)
    BY <1>2, <1>4, <1>6 DEF StateOK, LocalsOK, States, EventOK
  <2>3. QuotesOK(y, g)
    <3>1. DOMAIN y.latest = DOMAIN x.latest \cup {e.obs.source}
      BY <1>6 DEF Joined
    <3>2. hist.quoted = DOMAIN x.latest /\ IsFiniteSet(hist.quoted)
      BY <1>2 DEF StateOK, QuotesOK
    <3>3. IsFiniteSet(g.quoted)
      BY <2>1, <3>2, FS_AddElement
    <3>4. ASSUME NEW s \in DOMAIN y.latest
          PROVE  y.latest[s].source = s /\ y.latest[s].src \in Int
      <4>1. y.latest[s] = IF s = e.obs.source THEN e.obs ELSE x.latest[s]
        BY <1>6, <3>1, <3>4 DEF Joined
      <4>2. s # e.obs.source => x.latest[s].source = s /\ x.latest[s].src \in Int
        BY <1>2, <3>1, <3>4 DEF StateOK, QuotesOK
      <4>3. QED
        BY <4>1, <4>2 DEF EventOK
    <3>5. QED
      BY <2>1, <3>1, <3>2, <3>3, <3>4 DEF QuotesOK
  <2>4. BudgetOK(y, g)
    BY <1>2, <1>4, <2>1 DEF StateOK, BudgetOK, LookedAt
  <2>5. hist.fault \notin Times
    BY <1>2, <1>6 DEF StateOK, FaultOK, LookedAt, Live
  <2>6. y.watermark = g.top
    <3>1. x.watermark = hist.top /\ x.watermark \in Int \cup {None}
      BY <1>2 DEF StateOK, LocalsOK
    <3>2. e.obs.src \in Int
      BY DEF EventOK
    <3>3. QED
      BY <1>6, <2>1, <3>1, <3>2
  <2>7. QED
    BY <2>1, <2>2, <2>3, <2>4, <2>5, <2>6 DEF Stepped, StateOK, LookedAt, FaultOK
<1>7. QED
  BY <1>4, <1>5, <1>6

(* Every event keeps the invariant, up to the freshness check.             *)
LEMMA HandledStepped ==
    ASSUME StateOK(c, hist), NEW e, EventOK(e),
           NEW y, y = Handled(e), NEW g, g = Remember(e, y)
    PROVE  Stepped(e, y, g)
<1>1. CASE ~LookedAt(e)
  BY <1>1, NotLookedAt
<1>2. CASE LookedAt(e)
  <2>1. CASE e.kind \in {"START", "HEARTBEAT"}
    BY <1>2, <2>1, StartStepped
  <2>2. CASE e.kind = "CONNECTED"
    BY <1>2, <2>2, ConnectedStepped
  <2>3. CASE e.kind = "CONNECTION_LOST"
    BY <1>2, <2>3, ConnectionLostStepped
  <2>4. CASE e.kind = "RATE_LIMITED"
    BY <1>2, <2>4, RateLimitedStepped
  <2>5. CASE e.kind = "SCHEMA_DRIFT"
    BY <1>2, <2>5, DriftStepped
  <2>6. CASE e.kind = "STOP"
    BY <1>2, <2>6, StopStepped
  <2>7. CASE e.kind = "QUOTE"
    BY <1>2, <2>7, QuoteStepped
  <2>8. QED
    BY <2>1, <2>2, <2>3, <2>4, <2>5, <2>6, <2>7 DEF EventOK, Kinds
<1>3. QED
  BY <1>1, <1>2

-----------------------------------------------------------------------------
(* One iteration of the loop.                                              *)

(* The local variables at the end of an iteration.                         *)
Settled(e, y) == [Freshen(y, e.at) EXCEPT !.reasons = {}]

(* Streaming means that a quote was heard in time.                         *)
HeardInTime(e, y, d) ==
    d.state = "STREAMING" =>
        /\ y.state = "STREAMING" /\ y.lastObs # None
        /\ ~(e.at - y.lastObs > FreshnessLimit)

(* The freshness check and the reset of the reasons keep what an event     *)
(* left; a collector that is streaming after it heard a quote in time.     *)
LEMMA FreshenStepped ==
    ASSUME NEW e, NEW y, NEW g, Stepped(e, y, g),
           NEW d, d = Settled(e, y)
    PROVE  /\ Stepped(e, d, g) /\ d.latest = y.latest /\ d.lastObs = y.lastObs
           /\ HeardInTime(e, y, d)
<1>1. PICK z : z = Freshen(y, e.at)
  OBVIOUS
<1>2. Locals(y)
  BY DEF Stepped, StateOK, LocalsOK
<1>3. /\ Locals(z) /\ z.retryAt = y.retryAt /\ z.attempts = y.attempts
      /\ z.watermark = y.watermark /\ z.lastObs = y.lastObs /\ z.latest = y.latest
      /\ \/ y.state \in Live /\ z.state = "DEGRADED"
         \/ /\ z.state = y.state
            /\ y.state \in Live =>
                  ~(y.lastObs = None \/ e.at - y.lastObs > FreshnessLimit)
  BY <1>1, <1>2, FreshenFacts
<1>4. /\ Locals(d) /\ d.retryAt = z.retryAt /\ d.attempts = z.attempts
      /\ d.watermark = z.watermark /\ d.lastObs = z.lastObs /\ d.latest = z.latest
      /\ d.state = z.state
  BY <1>1, <1>3, SetReasons DEF Settled
<1>5. LocalsOK(d)
  BY <1>3, <1>4 DEF Stepped, StateOK, LocalsOK, States
<1>6. QuotesOK(d, g)
  BY <1>3, <1>4 DEF Stepped, StateOK, QuotesOK
<1>7. BudgetOK(d, g)
  BY <1>3, <1>4 DEF Stepped, StateOK, BudgetOK, Live
<1>8. FaultOK(d, g)
  BY <1>3, <1>4 DEF Stepped, StateOK, FaultOK, Live
<1>9. d.watermark = g.top
  BY <1>3, <1>4 DEF Stepped, StateOK
<1>10. d.state \in Live => y.state \in Live
  BY <1>3, <1>4 DEF Live
<1>11. c.state = "HALTED" => d.state = "HALTED"
  BY <1>3, <1>4 DEF Stepped, Live
<1>12. Stepped(e, d, g)
  BY <1>5, <1>6, <1>7, <1>8, <1>9, <1>10, <1>11 DEF Stepped, StateOK
<1>13. HeardInTime(e, y, d)
  BY <1>3, <1>4 DEF Live, HeardInTime
<1>14. QED
  BY <1>3, <1>4, <1>12, <1>13

(* An event whose time went back changes neither state nor quotes.         *)
LEMMA LateFacts ==
    ASSUME Locals(c), NEW e, ~InOrder(e), NEW y, y = Handled(e)
    PROVE  y.state = c.state /\ y.lastObs = c.lastObs
<1>1. PICK x : x = [c EXCEPT !.reasons = Refusals(e)]
  OBVIOUS
<1>2. x.state = c.state /\ x.lastObs = c.lastObs
  BY <1>1, BeginFacts
<1>3. Refusals(e) # {}
  BY DEF Refusals
<1>4. y = x
  BY <1>1, <1>3 DEF Handled
<1>5. QED
  BY <1>2, <1>4

(* Stepped, in terms of the state after the step.                          *)
Received(e) == EventOK(e) /\ asOf' = e.at /\ Stepped(e, c', hist')

(* An iteration keeps the invariant.                                       *)
LEMMA ReceiveStepped ==
    ASSUME CollectorInv, NEW kind \in Kinds, Receive(kind)
    PROVE  CollectorInv' /\ \E e : Received(e)
<1>1. PICK e \in Offered(kind) :
        /\ c' = [Freshen(Handled(e), e.at) EXCEPT !.reasons = {}]
        /\ clock' = IF InOrder(e) THEN e.at ELSE clock
        /\ asOf' = e.at
        /\ report' = IF Handled(e).latest = NoQuotes THEN None
                     ELSE Evaluate(Handled(e).latest, e.at)
        /\ hist' = Remember(e, Handled(e))
  BY DEF Receive
<1>2. EventOK(e)
  BY OfferedFacts
<1>3. PICK y : y = Handled(e)
  OBVIOUS
<1>4. PICK g : g = Remember(e, y)
  OBVIOUS
<1>5. Stepped(e, y, g)
  BY <1>2, <1>3, <1>4, HandledStepped DEF CollectorInv
<1>6. PICK d : d = Settled(e, y)
  OBVIOUS
<1>7. /\ Stepped(e, d, g) /\ d.latest = y.latest /\ d.lastObs = y.lastObs
      /\ HeardInTime(e, y, d)
  BY <1>5, <1>6, FreshenStepped
<1>8. c' = d /\ hist' = g
  BY <1>1, <1>3, <1>4, <1>6 DEF Settled
<1>9. StateOK(c', hist')
  BY <1>7, <1>8 DEF Stepped
<1>10. ClockOK'
  <2>1. clock' \in Times \cup {None}
    BY <1>1, <1>2 DEF CollectorInv, ClockOK, EventOK
  <2>2. SUFFICES ASSUME d.state = "STREAMING"
                 PROVE  /\ d.lastObs \in Times /\ clock' \in Times
                        /\ clock' - d.lastObs <= FreshnessLimit
    BY <1>8, <2>1 DEF ClockOK
  <2>3. d.lastObs \in Times
    BY <1>7, <2>2 DEF Stepped, StateOK, LocalsOK, HeardInTime
  <2>4. CASE InOrder(e)
    <3>1. clock' = e.at /\ e.at \in Times
      BY <1>1, <1>2, <2>4 DEF EventOK
    <3>2. e.at \in Nat /\ d.lastObs \in Nat /\ FreshnessLimit \in Nat
      BY <2>3, <3>1, EventAssumption, CollectorPolicyAssumption
    <3>3. ~(e.at - d.lastObs > FreshnessLimit)
      BY <1>7, <2>2 DEF HeardInTime
    <3>4. QED
      BY <2>3, <3>1, <3>2, <3>3
  <2>5. CASE ~InOrder(e)
    <3>1. y.state = c.state /\ y.lastObs = c.lastObs
      BY <1>3, <2>5, LateFacts DEF CollectorInv, StateOK, LocalsOK
    <3>2. clock' = clock /\ d.lastObs = c.lastObs /\ c.state = "STREAMING"
      BY <1>1, <1>7, <2>2, <2>5, <3>1 DEF HeardInTime
    <3>3. QED
      BY <3>2 DEF CollectorInv, ClockOK
  <2>6. QED
    BY <2>4, <2>5
<1>11. ReportOK'
  <2>1. c'.latest = y.latest
    BY <1>7, <1>8
  <2>2. report' = IF c'.latest = NoQuotes THEN None ELSE Evaluate(c'.latest, asOf')
    BY <1>1, <1>3, <2>1
  <2>3. QED
    BY <2>2 DEF ReportOK
<1>12. Received(e)
  BY <1>1, <1>2, <1>7, <1>8 DEF Received
<1>13. QED
  BY <1>9, <1>10, <1>11, <1>12 DEF CollectorInv

(* The run starts without quotes, losses or faults.                        *)
LEMMA InitCollector == Init => CollectorInv
<1>1. SUFFICES ASSUME Init PROVE CollectorInv
  OBVIOUS
<1>2. /\ c.state = "STOPPED" /\ c.retryAt = None /\ c.attempts = 0
      /\ c.watermark = None /\ c.lastObs = None /\ c.latest = NoQuotes
      /\ Locals(c)
  BY <1>1 DEF Init, Locals
<1>3. hist.quoted = {} /\ hist.losses = 0 /\ hist.fault = None /\ hist.top = None
  BY <1>1 DEF Init
<1>4. LocalsOK(c)
  BY <1>2 DEF LocalsOK, States
<1>5. QuotesOK(c, hist)
  BY <1>2, <1>3, NoQuotesFacts
<1>6. BudgetOK(c, hist)
  BY <1>2, <1>3, CollectorPolicyAssumption DEF BudgetOK
<1>7. FaultOK(c, hist)
  BY <1>3, NoneIsNoTime DEF FaultOK
<1>8. ClockOK
  BY <1>1, <1>2 DEF Init, ClockOK
<1>9. ReportOK
  BY <1>1, <1>2 DEF Init, ReportOK
<1>10. QED
  BY <1>2, <1>3, <1>4, <1>5, <1>6, <1>7, <1>8, <1>9 DEF CollectorInv, StateOK

(* Every step keeps the invariant.                                         *)
LEMMA NextCollector == CollectorInv /\ [Next]_vars => CollectorInv'
<1>1. SUFFICES ASSUME CollectorInv, [Next]_vars PROVE CollectorInv'
  OBVIOUS
<1>2. CASE Next
  BY <1>1, <1>2, ReceiveStepped DEF Next
<1>3. CASE UNCHANGED vars
  BY <1>1, <1>3 DEF vars, CollectorInv, StateOK, LocalsOK, Locals, QuotesOK, BudgetOK,
                    FaultOK, ClockOK, ReportOK
<1>4. QED
  BY <1>1, <1>2, <1>3

(* What holds in every state of the collector loop, for any events in any  *)
(* order: quotes, budget, watermark, waiting time, freshness and report    *)
(* agree with what happened.                                               *)
THEOREM CollectorInvariance == Spec => []CollectorInv
<1>1. QED
  BY InitCollector, NextCollector, PTL DEF Spec

-----------------------------------------------------------------------------
(* Theorems.                                                               *)

(* The attempt counter of run() counts the connections lost since the last *)
(* successful connect, stops and restarts included, and going over the     *)
(* budget halts the collector.                                             *)
THEOREM BudgetIsKept == Spec => []BudgetCountsLosses
<1>1. CollectorInv => BudgetCountsLosses
  BY DEF CollectorInv, StateOK, BudgetOK, BudgetCountsLosses
<1>2. QED
  BY <1>1, CollectorInvariance, PTL

(* A report that permits a decision has no reason against it, and all the  *)
(* instants it looked at are GREEN.                                        *)
LEMMA GreenFacts ==
    ASSUME NEW quotes, NEW now, NEW r, r = Evaluate(quotes, now),
           PermitsDecision(r)
    PROVE  /\ FeedReasons(quotes) = {}
           /\ \A i \in DOMAIN quotes : \A t \in Instants(quotes[i]) : ~(Age(now, t) > GreenAge)
<1>1. PICK rs : rs = {<<None, f>> : f \in FeedReasons(quotes)}
                     \cup UNION {{<<quotes[i].source, f>> :
                                    f \in ObservationReasons(quotes[i], now)} :
                                  i \in DOMAIN quotes}
  OBVIOUS
<1>2. r.status = IF rs # {} THEN "RED"
                 ELSE IF \E i \in DOMAIN quotes :
                           \E t \in Instants(quotes[i]) : Age(now, t) > GreenAge
                      THEN "AMBER" ELSE "GREEN"
  BY <1>1 DEF Evaluate
<1>3. r.status = "GREEN"
  BY DEF PermitsDecision
<1>4. rs = {}
  BY <1>2, <1>3
<1>5. {<<None, f>> : f \in FeedReasons(quotes)} = {}
  BY <1>1, <1>4
<1>6. FeedReasons(quotes) = {}
  BY <1>5
<1>7. QED
  BY <1>2, <1>3, <1>4, <1>6

(* A feed without reasons has two sources, when the policy asks for two.   *)
LEMMA TwoSourceFacts ==
    ASSUME RequireTwoSources = TRUE, NEW quotes, FeedReasons(quotes) = {}
    PROVE  ~(Cardinality(Sources(quotes)) < 2)
<1>1. SUFFICES ASSUME Cardinality(Sources(quotes)) < 2 PROVE FALSE
  OBVIOUS
<1>2. "SECOND_SOURCE_MISSING" \in FeedReasons(quotes)
  BY <1>1 DEF FeedReasons
<1>3. QED
  BY <1>2

(* When the policy asks for two sources, a run permits a decision only     *)
(* after both were heard again since the last fault or stop, and, unless   *)
(* the last event went back in time, only on quotes that are fresh by the  *)
(* latest clock.                                                           *)
THEOREM PermitsAreEarned ==
    ASSUME RequireTwoSources = TRUE
    PROVE  Spec => []PermitIsEarned
<1>1. ASSUME CollectorInv, RunPermitsDecision
      PROVE  /\ report = Evaluate(c.latest, asOf) /\ PermitsDecision(report)
  BY <1>1 DEF CollectorInv, ReportOK, RunPermitsDecision
<1>2. CollectorInv => BothSourcesAgain
  <2>1. SUFFICES ASSUME CollectorInv, RunPermitsDecision
                 PROVE  /\ Cardinality(hist.quoted) >= 2
                        /\ DOMAIN c.latest \subseteq hist.quoted
    BY DEF BothSourcesAgain
  <2>2. /\ hist.quoted = DOMAIN c.latest /\ IsFiniteSet(hist.quoted)
        /\ \A s \in DOMAIN c.latest : c.latest[s].source = s
    BY <2>1 DEF CollectorInv, StateOK, QuotesOK
  <2>3. Sources(c.latest) = hist.quoted
    BY <2>2 DEF Sources
  <2>4. FeedReasons(c.latest) = {}
    BY <1>1, <2>1, GreenFacts
  <2>5. ~(Cardinality(hist.quoted) < 2)
    BY <2>3, <2>4, TwoSourceFacts
  <2>6. Cardinality(hist.quoted) \in Nat
    BY <2>2, FS_CardinalityType
  <2>7. QED
    BY <2>2, <2>5, <2>6
<1>3. CollectorInv => PermitIsFreshInOrder
  <2>1. SUFFICES ASSUME CollectorInv, RunPermitsDecision, asOf = clock,
                        NEW s \in DOMAIN c.latest
                 PROVE  clock - c.latest[s].src <= GreenAge
    BY DEF PermitIsFreshInOrder
  <2>2. clock \in Int
    BY <2>1, EventAssumption DEF CollectorInv, ClockOK, RunPermitsDecision
  <2>3. c.latest[s].src \in Int
    BY <2>1 DEF CollectorInv, StateOK, QuotesOK
  <2>4. ~(Age(clock, c.latest[s].src) > GreenAge)
    <3>1. c.latest[s].src \in Instants(c.latest[s])
      BY DEF Instants
    <3>2. \A t \in Instants(c.latest[s]) : ~(Age(asOf, t) > GreenAge)
      BY <1>1, <2>1, GreenFacts
    <3>3. QED
      BY <2>1, <3>1, <3>2
  <2>5. GreenAge \in Nat
    BY QualityPolicyAssumption
  <2>6. QED
    BY <2>2, <2>3, <2>4, <2>5 DEF Age
<1>4. QED
  BY <1>2, <1>3, CollectorInvariance, PTL DEF PermitIsEarned

(* After a lost connection or a rate limit nothing streams until at least  *)
(* the base backoff has passed by the events' own times, whatever comes in *)
(* between, unless the operator stopped the collector.                     *)
THEOREM BackoffIsKept == Spec => BackoffBeforeStreaming
<1>1. ASSUME CollectorInv, [Next]_vars
      PROVE  [\A t \in Times : hist.fault = t /\ hist'.fault = None /\ c'.state \in Live
                => asOf' >= t + BaseBackoff]_vars
  <2>1. CASE UNCHANGED vars
    BY <2>1
  <2>2. CASE Next
    <3>1. PICK e : Received(e)
      BY <1>1, <2>2, ReceiveStepped DEF Next
    <3>2. QED
      BY <3>1 DEF Received, Stepped
  <2>3. QED
    BY <1>1, <2>1, <2>2
<1>2. QED
  BY <1>1, CollectorInvariance, PTL DEF Spec, BackoffBeforeStreaming

(* No event revives a halted collector or makes its run permit a decision. *)
THEOREM HaltsArePermanent == Spec => HaltIsPermanent
<1>1. ASSUME CollectorInv, [Next]_vars
      PROVE  [c.state = "HALTED" => c'.state = "HALTED" /\ ~RunPermitsDecision']_vars
  <2>1. CASE UNCHANGED vars
    BY <2>1
  <2>2. CASE Next
    <3>1. PICK e : Received(e)
      BY <1>1, <2>2, ReceiveStepped DEF Next
    <3>2. QED
      BY <3>1 DEF Received, Stepped, RunPermitsDecision
  <2>3. QED
    BY <1>1, <2>1, <2>2
<1>2. QED
  BY <1>1, CollectorInvariance, PTL DEF Spec, HaltIsPermanent

(* A streaming collector heard a quote within the freshness limit of its   *)
(* latest clock, and its watermark is the newest source time it accepted,  *)
(* however the events' times jump.                                         *)
THEOREM StreamsAreFresh == Spec => [](StreamingIsFresh /\ WatermarkIsNewest)
<1>1. CollectorInv => StreamingIsFresh /\ WatermarkIsNewest
  BY NoneIsNoTime DEF CollectorInv, ClockOK, StateOK, StreamingIsFresh, WatermarkIsNewest
<1>2. QED
  BY <1>1, CollectorInvariance, PTL

=============================================================================
