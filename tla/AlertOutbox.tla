----------------------------- MODULE AlertOutbox -----------------------------
(***************************************************************************)
(* The alert delivery outbox: AlertDeliveryOrchestrator                    *)
(* (services/alert_delivery_service.py) over its append-only SQLite store  *)
(* (services/alert_delivery_store.py).  Nothing is ever updated: what      *)
(* happens to a message next is recomputed from its event list, which the  *)
(* store returns ordered by recorded_at and then by insertion.  Every      *)
(* operation takes its time from the caller, and successive calls need not *)
(* come in time order.                                                     *)
(*                                                                         *)
(* The store commits each append by itself, so a process that dies inside  *)
(* an operation leaves the appends made so far; the file survives and the  *)
(* next process starts from it.  A restart may also bring another channel  *)
(* policy; the part of it that matters here is whether delivery is enabled.*)
(*                                                                         *)
(* Attempts are numbered by counting, so only their number is kept.  The   *)
(* sender's result is arbitrary (an exception counts as TRANSIENT, a       *)
(* refused network gate as DISABLED, a bad signature as PERMANENT).        *)
(* event_id is a hash of the content and no two appends of one message     *)
(* have equal content, so appends never coincide.                          *)
(***************************************************************************)
EXTENDS Naturals, Sequences, FiniteSets, SequencesExt

CONSTANTS
    Ids,             \* message identifiers; numbers, for the id order
    Keys,            \* dedupe keys: channel, fingerprint, destination
    Payloads,        \* message contents
    MaxTime,         \* bound: caller times are 0..MaxTime
    Cooldown, MaxAttempts, BaseBackoff, MaxBackoff,
    RequireAck, AckTimeout, MaxEscalations,    \* ChannelPolicy
    MaxCrashes,      \* bound: process deaths inside an operation
    MaxRestarts,     \* bound: restarts that change the channel policy
    None

ASSUME PolicyAssumption ==
    /\ Cooldown \in Nat
    /\ MaxAttempts \in Nat \ {0}
    /\ BaseBackoff \in Nat \ {0} /\ MaxBackoff \in Nat /\ MaxBackoff >= BaseBackoff
    /\ RequireAck \in BOOLEAN
    /\ AckTimeout \in Nat \ {0}
    /\ MaxEscalations \in Nat
ASSUME BoundsAssumption ==
    /\ Ids \subseteq Nat
    /\ MaxTime \in Nat /\ MaxCrashes \in Nat /\ MaxRestarts \in Nat
(* Arithmetic, spelled out for provers that know nothing of powers.        *)
ASSUME DelayAssumption == \A n \in 0..MaxAttempts : 2^n \in Nat \ {0}

Times == 0..MaxTime
Outcomes == {"SENT", "TRANSIENT", "PERMANENT", "DISABLED"}
Terminal == {"SUPPRESSED", "DELIVERY_DISABLED", "DEAD_LETTERED", "ACKNOWLEDGED"}
Kinds == Terminal \cup {"ENQUEUED", "RETRY_SCHEDULED", "DELIVERED", "ESCALATED"}

(* domain/alert_delivery.py: OutboxMessage, OutboxEvent.  due is           *)
(* next_attempt_at of a RETRY_SCHEDULED and ack_due_at of a DELIVERED.     *)
Message == [id : Ids, key : Keys, createdAt : Times, payload : Payloads]
Event == [kind : Kinds, at : Times, due : Nat \cup {None}]

ASSUME NoneAssumption == None \notin Nat /\ None \notin Message

VARIABLES
    messages,   \* stored message of each id, or None
    events,     \* each message's events in the order the store returns them
    attempts,   \* number of DeliveryAttempt rows of each message
    enabled,    \* ChannelPolicy.delivery_enabled of the running process
    torn,       \* history: operations on the message cut short by a crash
    crashes, restarts

vars == <<messages, events, attempts, enabled, torn, crashes, restarts>>

Init ==
    /\ messages = [i \in Ids |-> None]
    /\ events = [i \in Ids |-> <<>>]
    /\ attempts = [i \in Ids |-> 0]
    /\ enabled \in BOOLEAN
    /\ torn = [i \in Ids |-> 0]
    /\ crashes = 0 /\ restarts = 0

-----------------------------------------------------------------------------
(* The store.                                                              *)

Ev(kind, at, due) == [kind |-> kind, at |-> at, due |-> due]

(* ORDER BY recorded_at, sequence: a new event goes after every event of   *)
(* its message that is not later than it.                                  *)
Place(list, e) ==
    LET n == Cardinality({k \in DOMAIN list : list[k].at <= e.at})
    IN  SubSeq(list, 1, n) \o <<e>> \o SubSeq(list, n + 1, Len(list))

Count(list, kind) == Cardinality({k \in DOMAIN list : list[k].kind = kind})
Has(list, kind) == \E k \in DOMAIN list : list[k].kind = kind

(* latest_message_for_dedupe: ORDER BY created_at DESC, message_id DESC.   *)
Stored == {i \in Ids : messages[i] # None}
SameKey(key) == {messages[i] : i \in {j \in Stored : messages[j].key = key}}
After(a, b) ==
    a.createdAt > b.createdAt \/ (a.createdAt = b.createdAt /\ a.id >= b.id)
LatestForDedupe(key) ==
    IF SameKey(key) = {} THEN None
    ELSE CHOOSE a \in SameKey(key) : \A b \in SameKey(key) : After(a, b)

(* messages(): ORDER BY created_at, message_id.                            *)
Before(i) ==
    {j \in Stored \ {i} : After(messages[i], messages[j])}

-----------------------------------------------------------------------------
(* ChannelPolicy.retry_delay: doubling from the base, capped.              *)
RetryDelay(n) ==
    LET d == BaseBackoff * 2^(n - 1) IN IF d < MaxBackoff THEN d ELSE MaxBackoff

(* enqueue raises when the message is older than the latest one of its     *)
(* dedupe key, or when its id is stored with other content.                *)
Regressed(msg) ==
    LET previous == LatestForDedupe(msg.key)
    IN  /\ previous # None
        /\ previous.id # msg.id
        /\ msg.createdAt < previous.createdAt

Conflicts(msg) == messages[msg.id] # None /\ messages[msg.id] # msg

(* (The definitions named Bug... are faulty variants of the one they       *)
(* precede.)  This one ends the cooldown one time unit early.              *)
Suppressed(msg) ==
    LET previous == LatestForDedupe(msg.key)
    IN  /\ previous # None
        /\ previous.id # msg.id
        /\ msg.createdAt - previous.createdAt < Cooldown

FirstEvent(msg) ==
    IF Suppressed(msg) THEN "SUPPRESSED"
    ELSE IF ~ enabled THEN "DELIVERY_DISABLED" ELSE "ENQUEUED"

(* A message stored before is returned unchanged, without an event.        *)
Enqueue(msg) ==
    /\ ~ Regressed(msg)
    /\ ~ Conflicts(msg)
    /\ IF messages[msg.id] # None
       THEN UNCHANGED <<messages, events>>
       ELSE /\ messages' = [messages EXCEPT ![msg.id] = msg]
            /\ events' = [events EXCEPT ![msg.id] =
                             Place(@, Ev(FirstEvent(msg), msg.createdAt, None))]
    /\ UNCHANGED <<attempts, enabled, torn, crashes, restarts>>

-----------------------------------------------------------------------------
(* _is_due.                                                                *)
BugIsDueLatestOnly(i, now) ==
    LET list == events[i]
    IN  /\ list # <<>>
        /\ \/ Last(list).kind = "ENQUEUED" /\ Last(list).at <= now
           \/ /\ Last(list).kind = "RETRY_SCHEDULED"
              /\ Last(list).due # None /\ Last(list).due <= now

IsDue(i, now) ==
    LET list == events[i]
    IN  /\ \A k \in DOMAIN list : list[k].kind \notin Terminal
        /\ list # <<>>
        /\ \/ Last(list).kind = "ENQUEUED" /\ Last(list).at <= now
           \/ /\ Last(list).kind = "RETRY_SCHEDULED"
              /\ Last(list).due # None /\ Last(list).due <= now

(* The event _dispatch appends after attempt number n ended in outcome.    *)
BugDispatchEventBudget(n, outcome, now) ==
    CASE outcome = "SENT" ->
            Ev("DELIVERED", now, IF RequireAck THEN now + AckTimeout ELSE None)
      [] outcome = "TRANSIENT" ->
            IF n > MaxAttempts THEN Ev("DEAD_LETTERED", now, None)
            ELSE Ev("RETRY_SCHEDULED", now, now + RetryDelay(n))
      [] outcome = "PERMANENT" -> Ev("DEAD_LETTERED", now, None)
      [] OTHER -> Ev("DELIVERY_DISABLED", now, None)

DispatchEvent(n, outcome, now) ==
    CASE outcome = "SENT" ->
            Ev("DELIVERED", now, IF RequireAck THEN now + AckTimeout ELSE None)
      [] outcome = "TRANSIENT" ->
            IF n >= MaxAttempts THEN Ev("DEAD_LETTERED", now, None)
            ELSE Ev("RETRY_SCHEDULED", now, now + RetryDelay(n))
      [] outcome = "PERMANENT" -> Ev("DEAD_LETTERED", now, None)
      [] OTHER -> Ev("DELIVERY_DISABLED", now, None)

(* What the sender may return: a disabled channel is never sent to.        *)
Results == IF enabled THEN Outcomes ELSE {"DISABLED"}

(* dispatch_due: one attempt for every message that is due.                *)
DispatchDue(now) ==
    LET due == {i \in Stored : IsDue(i, now)}
    IN  /\ \E result \in [due -> Results] :
             events' = [i \in Ids |->
                IF i \in due
                THEN Place(events[i], DispatchEvent(attempts[i] + 1, result[i], now))
                ELSE events[i]]
        /\ attempts' = [i \in Ids |-> IF i \in due THEN attempts[i] + 1 ELSE attempts[i]]
        /\ UNCHANGED <<messages, enabled, torn, crashes, restarts>>

(* acknowledge: after a delivery, not before the latest one, once.         *)
MayAcknowledge(i, now) ==
    /\ messages[i] # None
    /\ Has(events[i], "DELIVERED")
    /\ \A k \in DOMAIN events[i] :
          events[i][k].kind = "DELIVERED" => events[i][k].at <= now

Acknowledge(i, now) ==
    /\ MayAcknowledge(i, now)
    /\ events' = IF Has(events[i], "ACKNOWLEDGED") THEN events
                 ELSE [events EXCEPT ![i] = Place(@, Ev("ACKNOWLEDGED", now, None))]
    /\ UNCHANGED <<messages, attempts, enabled, torn, crashes, restarts>>

(* escalate_due: a delivery nobody acknowledged in time is sent again, one *)
(* level up, until the levels are used up.                                 *)
BugAckOverdueAgain(i, now) ==
    /\ RequireAck
    /\ ~ Has(events[i], "ACKNOWLEDGED")
    /\ \E k \in DOMAIN events[i] :
          /\ events[i][k].kind = "DELIVERED"
          /\ events[i][k].due # None /\ events[i][k].due <= now

AckOverdue(i, now) ==
    /\ RequireAck
    /\ ~ Has(events[i], "ACKNOWLEDGED")
    /\ events[i] # <<>>
    /\ Last(events[i]).kind = "DELIVERED"
    /\ Last(events[i]).due # None /\ Last(events[i]).due <= now

BugEscalated(list, now) ==
    IF Count(list, "ESCALATED") >= MaxEscalations
    THEN Place(list, Ev("DEAD_LETTERED", now, None))
    ELSE Place(list, Ev("ESCALATED", now, None))

Escalated(list, now) ==
    IF Count(list, "ESCALATED") >= MaxEscalations
    THEN IF Has(list, "DEAD_LETTERED") THEN list
         ELSE Place(list, Ev("DEAD_LETTERED", now, None))
    ELSE Place(Place(list, Ev("ESCALATED", now, None)), Ev("RETRY_SCHEDULED", now, now))

EscalateDue(now) ==
    /\ events' = [i \in Ids |->
          IF i \in Stored /\ AckOverdue(i, now) THEN Escalated(events[i], now)
          ELSE events[i]]
    /\ UNCHANGED <<messages, attempts, enabled, torn, crashes, restarts>>

-----------------------------------------------------------------------------
(* Crashes inside an operation, and restarts.                              *)

Torn(i) ==
    /\ crashes < MaxCrashes
    /\ crashes' = crashes + 1
    /\ torn' = [torn EXCEPT ![i] = @ + 1]
    /\ UNCHANGED <<enabled, restarts>>

(* The message is stored, its first event is not.                          *)
EnqueueCrash(msg) ==
    /\ ~ Regressed(msg)
    /\ messages[msg.id] = None
    /\ messages' = [messages EXCEPT ![msg.id] = msg]
    /\ Torn(msg.id)
    /\ UNCHANGED <<events, attempts>>

(* The messages before i are dispatched; i's attempt may be recorded, its  *)
(* event is not.                                                           *)
DispatchCrash(now, i, recorded) ==
    LET due == {j \in Stored : IsDue(j, now)}
        done == due \cap Before(i)
    IN  /\ i \in due
        /\ Torn(i)
        /\ \E result \in [done -> Results] :
             events' = [j \in Ids |->
                IF j \in done
                THEN Place(events[j], DispatchEvent(attempts[j] + 1, result[j], now))
                ELSE events[j]]
        /\ attempts' = [j \in Ids |->
              IF j \in done \/ (j = i /\ recorded) THEN attempts[j] + 1 ELSE attempts[j]]
        /\ UNCHANGED messages

(* The messages before i are escalated; i's escalation may be recorded,    *)
(* the retry it schedules is not.                                          *)
EscalateCrash(now, i, recorded) ==
    /\ i \in Stored /\ AckOverdue(i, now)
    /\ recorded => Count(events[i], "ESCALATED") < MaxEscalations
    /\ Torn(i)
    /\ events' = [j \in Ids |->
          IF j = i
          THEN IF recorded THEN Place(events[j], Ev("ESCALATED", now, None)) ELSE events[j]
          ELSE IF j \in Before(i) /\ AckOverdue(j, now) THEN Escalated(events[j], now)
          ELSE events[j]]
    /\ UNCHANGED <<messages, attempts>>

(* A new process with another opt-in setting opens the same store.         *)
Restart ==
    /\ restarts < MaxRestarts
    /\ restarts' = restarts + 1
    /\ enabled' = ~ enabled
    /\ UNCHANGED <<messages, events, attempts, torn, crashes>>

Next ==
    \/ \E msg \in Message : Enqueue(msg) \/ EnqueueCrash(msg)
    \/ \E now \in Times : DispatchDue(now) \/ EscalateDue(now)
    \/ \E now \in Times, i \in Ids :
          \/ Acknowledge(i, now)
          \/ \E recorded \in BOOLEAN :
                DispatchCrash(now, i, recorded) \/ EscalateCrash(now, i, recorded)
    \/ Restart

Spec == Init /\ [][Next]_vars

-----------------------------------------------------------------------------
(* Properties.                                                             *)

(* TypeOK: rows are well-formed; an id without a message has no history.   *)
TypeOK ==
    /\ messages \in [Ids -> Message \cup {None}]
    /\ \A i \in Ids : events[i] \in Seq(Event)
    /\ attempts \in [Ids -> Nat]
    /\ enabled \in BOOLEAN
    /\ \A i \in Ids : messages[i] = None => events[i] = <<>> /\ attempts[i] = 0

(* AttemptBudget: "a bounded attempt budget ... and bounded                *)
(* unacknowledged-alert escalation" (alert-delivery-outbox.md).  Retries   *)
(* and escalations share one attempt counter; together they never send a   *)
(* message more than max_attempts + max_escalations times, one more for    *)
(* each attempt whose outcome a crash lost.                                *)
AttemptBudget ==
    \A i \in Ids :
        /\ Count(events[i], "ESCALATED") <= MaxEscalations
        /\ attempts[i] <= MaxAttempts + Count(events[i], "ESCALATED") + torn[i]

(* NeverStuck: a message that has not reached a terminal event can still   *)
(* be moved by some later call: it has an attempt scheduled, or has been   *)
(* delivered, and if that delivery needs an acknowledgment it has a        *)
(* deadline.  Only a crash inside an operation on that message breaks it.  *)
NeverStuck ==
    \A i \in Stored :
        \/ torn[i] > 0
        \/ \E k \in DOMAIN events[i] : events[i][k].kind \in Terminal
        \/ /\ events[i] # <<>>
           /\ \/ Last(events[i]).kind = "ENQUEUED"
              \/ /\ Last(events[i]).kind = "RETRY_SCHEDULED"
                 /\ Last(events[i]).due # None
              \/ /\ Last(events[i]).kind = "DELIVERED"
                 /\ RequireAck => Last(events[i]).due # None

(* CooldownSpacing: two messages of one dedupe key that are both handed to *)
(* delivery were created at least a cooldown apart, whatever suppressed,   *)
(* disabled or re-enqueued messages came between them.                     *)
CooldownSpacing ==
    \A i, j \in Stored :
        (/\ i # j /\ messages[i].key = messages[j].key
         /\ Has(events[i], "ENQUEUED") /\ Has(events[j], "ENQUEUED")
         /\ messages[i].createdAt <= messages[j].createdAt)
            => messages[j].createdAt - messages[i].createdAt >= Cooldown

(* EscalationPacing: a recipient gets the full acknowledgment timeout      *)
(* before every escalation: consecutive escalations of a message are at    *)
(* least ack_timeout apart, and the first is that long after a delivery.   *)
EscalationPacing ==
    \A i \in Ids : \A k \in DOMAIN events[i] :
        events[i][k].kind = "ESCALATED" =>
            /\ \E d \in 1..(k-1) :
                  /\ events[i][d].kind = "DELIVERED"
                  /\ events[i][d].at + AckTimeout <= events[i][k].at
            /\ \A p \in 1..(k-1) :
                  events[i][p].kind = "ESCALATED" =>
                      events[i][p].at + AckTimeout <= events[i][k].at

(* AckClosesHistory: in the store's order a message has at most one        *)
(* acknowledgment and no delivery after it, although an acknowledgment may *)
(* arrive late and be filed before an escalation that preceded it.         *)
AckClosesHistory ==
    \A i \in Ids :
        /\ Count(events[i], "ACKNOWLEDGED") <= 1
        /\ \A k \in DOMAIN events[i] :
              events[i][k].kind = "ACKNOWLEDGED" =>
                  \A d \in DOMAIN events[i] : d > k => events[i][d].kind # "DELIVERED"

(* TerminalIsFinal: once a message is suppressed, disabled, dead-lettered  *)
(* or acknowledged it is never attempted or escalated again, not even by   *)
(* a call with an earlier time; only an acknowledgment may still be added. *)
TerminalIsFinal ==
    [][ \A i \in Ids :
          (\E k \in DOMAIN events[i] : events[i][k].kind \in Terminal) =>
              /\ attempts'[i] = attempts[i]
              /\ \A kind \in Kinds \ {"ACKNOWLEDGED"} :
                    Count(events'[i], kind) = Count(events[i], kind) ]_vars

(* IdempotentById: "dedupe cooldown suppresses new message but is          *)
(* idempotent by id" (tests/test_alert_delivery_outbox.py): enqueueing a   *)
(* stored message again with the same content is accepted.  A newer        *)
(* message of its dedupe key breaks it; see README.                        *)
IdempotentById ==
    \A i \in Stored : ~ Regressed(messages[i])

=============================================================================
