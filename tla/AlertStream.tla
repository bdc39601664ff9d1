------------------------------ MODULE AlertStream ------------------------------
(***************************************************************************)
(* The resumable alert stream (services/stream_attribution_service.py over *)
(* its stores) and the alert feedback it projects (services/operations.py).*)
(*                                                                         *)
(* An alert's status is folded from its feedback records.  Every           *)
(* connection first projects the current alerts to stream events           *)
(* (sync_alerts), then reads the events after its cursor, records a        *)
(* delivery attempt for each and hands the frame to the client, which      *)
(* comes back with the identifier of the last frame it received.           *)
(*                                                                         *)
(* One API process holds one store connection behind one lock.  The sqlite *)
(* store assigns an identifier and commits under that lock.  The           *)
(* PostgreSQL store draws the identifier when it inserts and shows the     *)
(* event when it commits; other processes run between the two.             *)
(*                                                                         *)
(* The projection key is the hash of the alert's content; the only part of *)
(* it that changes is the status, so an event is identified with an alert  *)
(* and a status.                                                           *)
(***************************************************************************)
EXTENDS Naturals, Sequences, FiniteSets, SequencesExt

CONSTANTS
    Alerts,            \* alert identifiers stored by append_alert
    Feedbacks,         \* feedback callers send: [alert, kind, at, text]
    Conns,             \* connections, each used by one client
    Procs,             \* API processes
    Layouts,           \* which process serves which connection: the layouts tried
    NoInsert,          \* no insert in flight
    MaxFeedback,       \* bound: feedback records
    MaxFailures        \* bound: failed audit writes and lost connections

(* AlertStatus and FeedbackKind; AlertFeedback carries the caller's        *)
(* recorded_at: at is the instant it denotes, text its place in the order  *)
(* of the ISO strings the sqlite store keeps (another UTC offset moves it).*)
Statuses      == {"OPEN", "ACKNOWLEDGED", "DISMISSED"}
FeedbackKinds == {"ACKNOWLEDGED", "DISMISSED", "FALSE_POSITIVE",
                  "MANUAL_JUDGMENT"}
StreamEvent   == [id: Nat, alert: Alerts, status: Statuses]

ASSUME StreamAssumption ==
    /\ Layouts \subseteq [Conns -> Procs]
    /\ MaxFeedback \in Nat /\ MaxFailures \in Nat
    /\ \A f \in Feedbacks : f.kind \in FeedbackKinds /\ f.at \in Nat /\ f.text \in Nat

VARIABLES
    backend,           \* "sqlite" or "postgresql"
    procOf,            \* which process serves a connection
    feedback,          \* alert_feedback, in the order of the appends
    streamEvents,      \* committed rows of alert_stream_events
    lastId,            \* the last identifier the sequence has drawn
    txn,               \* per process: the insert that is not yet committed
    pc,                \* per connection: where stream_frames is
    todo,              \* per connection: alerts still to be projected
    pending,           \* per connection: events read and not yet sent
    cursor,            \* per connection: the cursor of stream_frames
    deliveries,        \* stream_deliveries: <<connection, event id>>
    received,          \* per client: identifiers of the frames it got
    failures

streamVars == <<backend, procOf, feedback, streamEvents, lastId, txn, pc, todo,
                pending, cursor, deliveries, received, failures>>
store == <<streamEvents, lastId, txn>>
fixed == <<backend, procOf>>

StreamInit ==
    /\ backend \in {"sqlite", "postgresql"}
    /\ procOf \in Layouts
    /\ backend = "sqlite" => \A c, d \in Conns : procOf[c] = procOf[d]
    /\ feedback = <<>>
    /\ streamEvents = {}
    /\ lastId = 0
    /\ txn = [p \in Procs |-> NoInsert]
    /\ pc = [c \in Conns |-> "closed"]
    /\ todo = [c \in Conns |-> <<>>]
    /\ pending = [c \in Conns |-> <<>>]
    /\ cursor = [c \in Conns |-> 0]
    /\ deliveries = {}
    /\ received = [c \in Conns |-> <<>>]
    /\ failures = 0

-----------------------------------------------------------------------------
(* Feedback and the status it adds up to.                                  *)

(* repository.feedback: ORDER BY recorded_at, which is text in sqlite and  *)
(* a timestamp in PostgreSQL; feedback_id (arrival here) breaks ties.      *)
BugOrderKey(f) == f.text
OrderKey(f) == IF backend = "sqlite" THEN f.text ELSE f.at

(* The n-th of an alert's records has n that do not come after it.         *)
NotAfter(i, j) ==
    \/ OrderKey(feedback[i]) < OrderKey(feedback[j])
    \/ OrderKey(feedback[i]) = OrderKey(feedback[j]) /\ i <= j

Ordered(a) ==
    LET fs == {i \in DOMAIN feedback : feedback[i].alert = a}
    IN  [n \in 1..Cardinality(fs) |->
            CHOOSE j \in fs : Cardinality({i \in fs : NotAfter(i, j)}) = n]

(* AlertEngine._status_for / OperationsService._with_feedback_status.      *)
StatusFor(kind, status) ==
    CASE kind = "ACKNOWLEDGED" -> "ACKNOWLEDGED"
      [] kind \in {"DISMISSED", "FALSE_POSITIVE"} -> "DISMISSED"
      [] OTHER -> status

StatusOf(a) ==
    FoldLeft(LAMBDA s, i : StatusFor(feedback[i].kind, s), "OPEN", Ordered(a))

RecordFeedback(f) ==
    /\ f.alert \in Alerts
    /\ Len(feedback) < MaxFeedback
    /\ feedback' = Append(feedback, f)
    /\ UNCHANGED <<fixed, store, pc, todo, pending, cursor, deliveries, received,
                   failures>>

-----------------------------------------------------------------------------
(* The store, as one process sees it.                                      *)

Free(c) == txn[procOf[c]] = NoInsert      \* the process's store lock

Projected(a, s) == \E e \in streamEvents : e.alert = a /\ e.status = s
InFlight(a, s) ==
    \E p \in Procs : txn[p] # NoInsert /\ txn[p].alert = a /\ txn[p].status = s
MaxId ==
    IF streamEvents = {} THEN 0
    ELSE CHOOSE n \in {e.id : e \in streamEvents} : \A e \in streamEvents : e.id <= n

(* append_alert_projection.  PostgreSQL: an equal key that is in flight is *)
(* waited for; the identifier that an insert of a committed key uses up    *)
(* leaves a gap, which nothing observes, and is not counted here.          *)
Project(c, a, s) ==
    /\ Free(c)
    /\ IF backend = "sqlite"
       THEN /\ IF Projected(a, s) THEN UNCHANGED <<streamEvents, lastId>>
               ELSE /\ lastId' = lastId + 1
                    /\ streamEvents' = streamEvents \cup
                                   {[id |-> lastId + 1, alert |-> a, status |-> s]}
            /\ UNCHANGED txn
       ELSE /\ ~InFlight(a, s)
            /\ IF Projected(a, s) THEN UNCHANGED <<lastId, txn>>
               ELSE /\ lastId' = lastId + 1
                    /\ txn' = [txn EXCEPT ![procOf[c]] =
                                 [id |-> lastId + 1, alert |-> a, status |-> s]]
            /\ UNCHANGED streamEvents

BugCommit(p) ==
    /\ txn[p] # NoInsert
    /\ streamEvents' = streamEvents \cup {txn[p]}
    /\ UNCHANGED <<fixed, feedback, lastId, txn, pc, todo, pending, cursor,
                   deliveries, received, failures>>

Commit(p) ==
    /\ txn[p] # NoInsert
    /\ streamEvents' = streamEvents \cup {txn[p]}
    /\ txn' = [txn EXCEPT ![p] = NoInsert]
    /\ UNCHANGED <<fixed, feedback, lastId, pc, todo, pending, cursor, deliveries,
                   received, failures>>

(* stream_events_after and validate_cursor: the rows after an identifier,  *)
(* ORDER BY event_id: the i-th has i rows that are not after it.           *)
EventsAfter(n) == {e \in streamEvents : e.id > n}
ById(es) ==
    [i \in 1..Cardinality(es) |->
        CHOOSE e \in es : Cardinality({f \in es : f.id <= e.id}) = i]

-----------------------------------------------------------------------------
(* A connection.  alert_stream validates the cursor (and so projects) and  *)
(* stream_frames does it again before its loop; the loop projects and      *)
(* reads once per turn.                                                    *)

Quiet == <<fixed, feedback, failures>>

(* Who reads the alerts: _alerts_provider() is called once per sync.       *)
AlertsNow == SetToSeq({<<a, StatusOf(a)>> : a \in Alerts})

Resume(c) == IF received[c] = <<>> THEN 0 ELSE received[c][Len(received[c])]

BugReconnect(c) ==
    /\ pc[c] = "closed"
    /\ pc' = [pc EXCEPT ![c] = "validate"]
    /\ cursor' = [cursor EXCEPT ![c] = MaxId]
    /\ todo' = [todo EXCEPT ![c] = AlertsNow]
    /\ UNCHANGED <<Quiet, store, pending, deliveries, received>>

Connect(c) ==
    /\ pc[c] = "closed"
    /\ pc' = [pc EXCEPT ![c] = "validate"]
    /\ cursor' = [cursor EXCEPT ![c] = Resume(c)]
    /\ todo' = [todo EXCEPT ![c] = AlertsNow]
    /\ UNCHANGED <<Quiet, store, pending, deliveries, received>>

(* One alert of a sync, then the next.                                     *)
SyncStep(c) ==
    /\ pc[c] \in {"validate", "sync"}
    /\ todo[c] # <<>>
    /\ Project(c, Head(todo[c])[1], Head(todo[c])[2])
    /\ todo' = [todo EXCEPT ![c] = Tail(@)]
    /\ UNCHANGED <<Quiet, pc, pending, cursor, deliveries, received>>

(* validate_cursor: a cursor ahead of the stream is answered with 400.     *)
Validate(c) ==
    /\ pc[c] = "validate"
    /\ todo[c] = <<>>
    /\ Free(c)
    /\ pc' = [pc EXCEPT ![c] = IF cursor[c] > MaxId THEN "closed" ELSE "loop"]
    /\ UNCHANGED <<Quiet, store, todo, pending, cursor, deliveries, received>>

LoopSync(c) ==
    /\ pc[c] = "loop"
    /\ pc' = [pc EXCEPT ![c] = "sync"]
    /\ todo' = [todo EXCEPT ![c] = AlertsNow]
    /\ UNCHANGED <<Quiet, store, pending, cursor, deliveries, received>>

ReadPending(c) ==
    /\ pc[c] = "sync"
    /\ todo[c] = <<>>
    /\ Free(c)
    /\ pending' = [pending EXCEPT ![c] = ById(EventsAfter(cursor[c]))]
    /\ pc' = [pc EXCEPT ![c] = IF EventsAfter(cursor[c]) = {} THEN "loop" ELSE "send"]
    /\ UNCHANGED <<Quiet, store, todo, cursor, deliveries, received>>

(* append_delivery before the frame is handed over.                        *)
Audit(c) ==
    /\ pc[c] = "send"
    /\ Free(c)
    /\ deliveries' = deliveries \cup {<<c, Head(pending[c]).id>>}
    /\ pc' = [pc EXCEPT ![c] = "yield"]
    /\ UNCHANGED <<Quiet, store, todo, pending, cursor, received>>

Yield(c) ==
    /\ pc[c] = "yield"
    /\ received' = [received EXCEPT ![c] = Append(@, Head(pending[c]).id)]
    /\ cursor' = [cursor EXCEPT ![c] = Head(pending[c]).id]
    /\ pending' = [pending EXCEPT ![c] = Tail(@)]
    /\ pc' = [pc EXCEPT ![c] = IF Len(pending[c]) = 1 THEN "loop" ELSE "send"]
    /\ UNCHANGED <<Quiet, store, todo, deliveries>>

(* The audit write fails, the client disconnects, or the frame is lost:    *)
(* the generator ends and its cursor with it.                              *)
Lose(c) ==
    /\ pc[c] # "closed"
    /\ failures < MaxFailures
    /\ failures' = failures + 1
    /\ pc' = [pc EXCEPT ![c] = "closed"]
    /\ todo' = [todo EXCEPT ![c] = <<>>]
    /\ pending' = [pending EXCEPT ![c] = <<>>]
    /\ UNCHANGED <<fixed, feedback, store, cursor, deliveries, received>>

Turn(c) ==
    \/ Connect(c) \/ SyncStep(c) \/ Validate(c) \/ LoopSync(c)
    \/ ReadPending(c) \/ Audit(c) \/ Yield(c)

StreamNext ==
    \/ \E f \in Feedbacks : RecordFeedback(f)
    \/ \E p \in Procs : Commit(p)
    \/ \E c \in Conns : Turn(c) \/ Lose(c)

(* A process goes on running its generators and ends its transactions, and *)
(* a client that lost its connection comes back.                           *)
StreamSpec ==
    /\ StreamInit /\ [][StreamNext]_streamVars
    /\ \A c \in Conns : SF_streamVars(Turn(c))
    /\ \A p \in Procs : WF_streamVars(Commit(p))

-----------------------------------------------------------------------------
(* Properties.                                                             *)

(* One writer: what the deployment of the repository runs.                 *)
OneWriter == \A c, d \in Conns : procOf[c] = procOf[d]

(* StreamTypeOK: rows and control have the shape the store and the         *)
(* generator give them, and an event identifier names one event.           *)
StreamTypeOK ==
    /\ streamEvents \subseteq StreamEvent
    /\ \A e, f \in streamEvents : e.id = f.id => e = f
    /\ \A e \in streamEvents : e.id <= lastId
    /\ pc \in [Conns -> {"closed", "validate", "loop", "sync", "send", "yield"}]
    /\ \A c \in Conns : (pc[c] \in {"send", "yield"}) <=> (pending[c] # <<>>)

(* OneEventPerState: however many connections project at once, a state of  *)
(* an alert becomes one event (unique projection_key).                     *)
OneEventPerState ==
    \A e, f \in streamEvents : e.alert = f.alert /\ e.status = f.status => e = f

(* NothingSkipped: with one writing process, a client has received every   *)
(* event up to the last one it knows, across audit failures and lost       *)
(* connections: its cursor never runs past an event it has not seen.       *)
NothingSkipped ==
    OneWriter =>
        \A c \in Conns, e \in streamEvents :
            e.id <= Resume(c) => \E i \in DOMAIN received[c] : received[c][i] = e.id

(* NoFrameTwice: a client that resumes from the last frame it received     *)
(* gets identifiers in increasing order and none twice.                    *)
NoFrameTwice ==
    \A c \in Conns : \A i, j \in DOMAIN received[c] :
        i < j => received[c][i] < received[c][j]

(* AuditBeforeFrame: no client holds a frame whose delivery attempt was    *)
(* not recorded first.                                                     *)
AuditBeforeFrame ==
    \A c \in Conns : \A i \in DOMAIN received[c] :
        <<c, received[c][i]>> \in deliveries

(* ClientsSeeTheLog: what a client has received is the audited log from    *)
(* its beginning, in order and without a gap or a repetition, through any  *)
(* number of failures and reconnections.                                   *)
ClientsSeeTheLog == NothingSkipped /\ NoFrameTwice /\ AuditBeforeFrame

(* LatestFeedbackWins: when all feedback on an alert was sent with one UTC *)
(* offset, its status is the one the latest status-changing feedback asks  *)
(* for, whatever the order of arrival.  (With several offsets the sqlite   *)
(* store orders the ISO strings, not the instants.)                        *)
LatestFeedbackWins ==
    \A a \in Alerts :
        LET fs == {i \in DOMAIN feedback :
                     feedback[i].alert = a /\ feedback[i].kind # "MANUAL_JUDGMENT"}
        IN  backend = "postgresql"
              \/ (\A i, j \in fs : feedback[i].text - feedback[i].at
                                     = feedback[j].text - feedback[j].at)
            => \A i \in fs :
                  (\A j \in fs \ {i} : feedback[j].at < feedback[i].at) =>
                      StatusOf(a) = StatusFor(feedback[i].kind, "OPEN")

(* CatchesUp: once connections stop failing, a client of a single-process  *)
(* deployment that lacks a committed event goes on to have them all.       *)
Behind(c) == \E e \in streamEvents : ~\E i \in DOMAIN received[c] : received[c][i] = e.id
CatchesUp == OneWriter => \A c \in Conns : Behind(c) ~> ~Behind(c)

(* NeverReordered: a newly committed identifier is larger than every       *)
(* committed one.  (production-persistence.md says so of the PostgreSQL    *)
(* store; two processes disprove it.)                                      *)
NeverReordered ==
    [][\A e \in streamEvents' \ streamEvents : \A f \in streamEvents : f.id < e.id]_streamVars

=============================================================================
