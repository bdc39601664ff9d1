----------------------------- MODULE AuditRuntime -----------------------------
(***************************************************************************)
(* The audit store of the running service: how a process opens and checks  *)
(* it (services/runtime_persistence.py), how immutable rows are appended   *)
(* (services/repository.py, services/postgres_repository.py and the        *)
(* attribution half of services/stream_attribution_store.py), and the      *)
(* review of attribution tasks on top of it (services/                     *)
(* stream_attribution_service.py).                                         *)
(*                                                                         *)
(* With the sqlite backend a first start creates the schema in several     *)
(* transactions: the core tables, each of their triggers, the stream       *)
(* tables, each of theirs.  A later start only checks.  A process may die  *)
(* between any two of these steps.  The PostgreSQL schema is installed     *)
(* beforehand by a migration.  A request of a process runs against its     *)
(* open store; requests of several processes interleave.                   *)
(***************************************************************************)
EXTENDS Naturals, FiniteSets

CONSTANTS
    Procs,
    CoreTables, StreamTables,   \* audited tables, in two groups
    Keys, Payloads,             \* identities and contents of audited rows
    Tasks,                      \* attribution tasks that exist
    Requested,                  \* statuses and
    ReviewTimes,                \* reviewed_at values that reviewers send
    None,
    MaxReviews, MaxCrashes, MaxDrops    \* bounds

ASSUME AuditAssumption ==
    /\ CoreTables \cap StreamTables = {} /\ ReviewTimes \subseteq Nat /\ MaxReviews \in Nat
    /\ IsFiniteSet(CoreTables) /\ IsFiniteSet(StreamTables)

VARIABLES
    backend,    \* "sqlite" or "postgresql"
    file,       \* whether the database file exists
    schema,     \* committed objects: table groups and triggers
    pc,         \* where each process is
    rows,       \* committed rows: key -> payload
    req,        \* the request each process is serving, or None
    acked,      \* <<key, payload>> whose append was reported as done
    reviews,    \* committed reviews of each task
    crashes, drops,
    hist        \* whether reviews overlapped or were dated back

vars == <<backend, file, schema, pc, rows, req, acked, reviews, crashes, drops, hist>>

startVars == <<backend, file, schema, crashes, drops>>
dataVars == <<rows, req, acked, reviews, hist>>

Triggers(tables) == tables \X {"deny_update", "deny_delete"}

Tables(group) == <<group, "tables">>

Complete == {Tables("core"), Tables("stream")} \cup Triggers(CoreTables) \cup Triggers(StreamTables)

\* integrity_check with require_stream_schema, as every file-backed start asks.
IntegrityOK(objects) == Complete \subseteq objects

\* The PostgreSQL check counts the enabled triggers of all audited tables.
PostgresIntegrityOK(objects) ==
    LET expected == Triggers(CoreTables) \cup Triggers(StreamTables)
    IN  /\ {Tables("core"), Tables("stream")} \subseteq objects
        /\ Cardinality(objects \cap expected) = Cardinality(expected)

-----------------------------------------------------------------------------
(* Start-up: create_runtime_persistence.                                   *)

At(p, from, to) == pc[p] = from /\ pc' = [pc EXCEPT ![p] = to]

\* Path(path).exists(), before anything is opened.
CheckPath(p) ==
    /\ backend = "sqlite"
    /\ At(p, "off", IF file THEN "probe" ELSE "create")
    /\ UNCHANGED <<startVars, dataVars>>

\* The read-only probe refuses an incomplete file and the start fails.
Probe(p) ==
    /\ At(p, "probe", IF IntegrityOK(schema) THEN "stream" ELSE "off")
    /\ UNCHANGED <<startVars, dataVars>>

\* sqlite3.connect and the journal mode create the file.
CreateFile(p) ==
    /\ At(p, "create", "core")
    /\ file' = TRUE
    /\ UNCHANGED <<backend, schema, crashes, drops, dataVars>>

\* One transaction for a group of tables, if they are not there.
CreateTables(p, group, next) ==
    /\ At(p, group, next)
    /\ schema' = schema \cup {Tables(group)}
    /\ UNCHANGED <<backend, file, crashes, drops, dataVars>>

\* CREATE TRIGGER IF NOT EXISTS, each its own transaction.
CreateTrigger(p, from, tables, next) ==
    /\ pc[p] = from
    /\ \/ \E t \in Triggers(tables) \ schema : schema' = schema \cup {t} /\ UNCHANGED pc
       \/ Triggers(tables) \subseteq schema /\ At(p, from, next) /\ UNCHANGED schema
    /\ UNCHANGED <<backend, file, crashes, drops, dataVars>>

BugFinalCheck(p) ==
    /\ At(p, "check", "serving")
    /\ UNCHANGED <<startVars, dataVars>>

FinalCheck(p) ==
    /\ At(p, "check", IF IntegrityOK(schema) THEN "serving" ELSE "off")
    /\ UNCHANGED <<startVars, dataVars>>

\* PostgreSQL: the audit, stream and governance stores are opened in turn and
\* each verifies its tables and triggers; nothing is created.
OpenPostgres(p) ==
    /\ backend = "postgresql"
    /\ At(p, "off", IF PostgresIntegrityOK(schema) THEN "serving" ELSE "off")
    /\ UNCHANGED <<startVars, dataVars>>

StartUp(p) ==
    \/ CheckPath(p) \/ Probe(p) \/ CreateFile(p)
    \/ CreateTables(p, "core", "core_triggers")
    \/ CreateTrigger(p, "core_triggers", CoreTables, "stream")
    \/ CreateTables(p, "stream", "stream_triggers")
    \/ CreateTrigger(p, "stream_triggers", StreamTables, "check")
    \/ FinalCheck(p) \/ OpenPostgres(p)

-----------------------------------------------------------------------------
(* Appends of immutable rows: decisions, alerts, feedback, point-in-time   *)
(* metadata, manifests, checkpoints, receipts, deliveries and tasks.       *)

Idle(p) == pc[p] = "serving" /\ req[p] = None

Doing(p, kind) == req[p] # None /\ req[p].kind = kind

Answer(p, r) == req' = [req EXCEPT ![p] = r]

Compare(k, v) == IF rows[k] = v THEN "done" ELSE "conflict"

\* SQLite reads the key first; the read opens no transaction.
LookUp(p, k, v) ==
    /\ backend = "sqlite" /\ Idle(p)
    /\ Answer(p, [kind |-> "append", key |-> k, value |-> v,
                  step |-> IF k \in DOMAIN rows THEN Compare(k, v) ELSE "insert"])
    /\ UNCHANGED <<startVars, pc, rows, acked, reviews, hist>>

Store(k, v) == rows' = [x \in DOMAIN rows \cup {k} |-> IF x = k THEN v ELSE rows[x]]

BugInsert(p) ==
    /\ Doing(p, "append") /\ req[p].step = "insert"
    /\ Store(req[p].key, req[p].value)
    /\ Answer(p, [req[p] EXCEPT !.step = "done"])
    /\ UNCHANGED <<startVars, pc, acked, reviews, hist>>

\* The primary key refuses the insert when another process came first.
Insert(p) ==
    /\ Doing(p, "append") /\ req[p].step = "insert"
    /\ IF req[p].key \in DOMAIN rows
       THEN Answer(p, [req[p] EXCEPT !.step = "error"]) /\ UNCHANGED rows
       ELSE /\ Store(req[p].key, req[p].value)
            /\ Answer(p, [req[p] EXCEPT !.step = "done"])
    /\ UNCHANGED <<startVars, pc, acked, reviews, hist>>

\* PostgreSQL: INSERT ... ON CONFLICT DO NOTHING, then, when nothing was
\* inserted, the stored content is read and compared in the same transaction.
Upsert(p, k, v) ==
    /\ backend = "postgresql" /\ Idle(p)
    /\ IF k \in DOMAIN rows THEN UNCHANGED rows ELSE Store(k, v)
    /\ Answer(p, [kind |-> "append", key |-> k, value |-> v,
                  step |-> IF k \in DOMAIN rows THEN Compare(k, v) ELSE "done"])
    /\ UNCHANGED <<startVars, pc, acked, reviews, hist>>

\* The call returns, or raises, to its caller.
Reply(p) ==
    /\ Doing(p, "append") /\ req[p].step # "insert"
    /\ acked' = IF req[p].step = "done" THEN acked \cup {<<req[p].key, req[p].value>>} ELSE acked
    /\ Answer(p, None)
    /\ UNCHANGED <<startVars, pc, rows, reviews, hist>>

-----------------------------------------------------------------------------
(* The review of attribution tasks.                                        *)

Terminal == {"CONFIRMED", "REJECTED", "INCONCLUSIVE"}
Completed == {"CONFIRMED", "INCONCLUSIVE"}

\* ORDER BY reviewed_at, review_id; an identity is a random UUID, `rank' here.
Before(r, s) == r.at < s.at \/ (r.at = s.at /\ r.rank < s.rank)

LatestReview(t) == CHOOSE r \in reviews[t] : \A s \in reviews[t] \ {r} : Before(s, r)

\* _with_review_state.
Status(t) == IF reviews[t] = {} THEN "OPEN" ELSE LatestReview(t).status
Retained(t) == \E r \in reviews[t] : r.retain

BugTransitionAllowed(current, requested) == requested # "OPEN" /\ current # "REJECTED"

\* _validate_review_transition.
TransitionAllowed(current, requested) == requested # "OPEN" /\ current \notin Terminal

\* review(): the status is read and the request judged ...
BeginReview(p, t, status, at, retain) ==
    /\ Idle(p)
    /\ TransitionAllowed(Status(t), status)
    /\ retain => status \in Completed
    /\ Answer(p, [kind |-> "review", task |-> t, status |-> status, at |-> at,
                  retain |-> retain])
    /\ hist' = [hist EXCEPT
         !.overlap = @ \cup {t2 \in {t} : \E q \in Procs \ {p} :
                               Doing(q, "review") /\ req[q].task = t}]
    /\ UNCHANGED <<startVars, pc, rows, acked, reviews>>

\* ... and the review is appended later.
AppendReview(p) ==
    /\ Doing(p, "review")
    /\ LET t == req[p].task
           old == UNION {{r.rank : r \in reviews[u]} : u \in Tasks}
       IN  \E rank \in (1..MaxReviews) \ old :
             LET r == [status |-> req[p].status, at |-> req[p].at,
                       retain |-> req[p].retain, rank |-> rank]
             IN  /\ reviews' = [reviews EXCEPT ![t] = @ \cup {r}]
                 /\ hist' = [hist EXCEPT !.backdated =
                       @ \cup {u \in {t} : \E s \in reviews[t] : Before(r, s)}]
    /\ Answer(p, None)
    /\ UNCHANGED <<startVars, pc, rows, acked>>

-----------------------------------------------------------------------------
(* Faults: a process dies anywhere; somebody drops a trigger.              *)

Crash(p) ==
    /\ crashes < MaxCrashes /\ crashes' = crashes + 1
    /\ pc[p] # "off"
    /\ pc' = [pc EXCEPT ![p] = "off"]
    /\ Answer(p, None)
    /\ UNCHANGED <<backend, file, schema, drops, rows, acked, reviews, hist>>

DropTrigger ==
    /\ drops < MaxDrops /\ drops' = drops + 1
    /\ \E t \in Triggers(CoreTables) \cap schema : schema' = schema \ {t}
    /\ UNCHANGED <<backend, file, crashes, pc, dataVars>>

-----------------------------------------------------------------------------
Init ==
    /\ backend \in {"sqlite", "postgresql"}
    /\ file = (backend = "postgresql")
    /\ schema = IF backend = "postgresql" THEN Complete ELSE {}
    /\ pc = [p \in Procs |-> "off"]
    /\ rows = [k \in {} |-> None]
    /\ req = [p \in Procs |-> None]
    /\ acked = {}
    /\ reviews = [t \in Tasks |-> {}]
    /\ crashes = 0 /\ drops = 0
    /\ hist = [overlap |-> {}, backdated |-> {}]

Serve(p) ==
    \/ \E k \in Keys, v \in Payloads : LookUp(p, k, v) \/ Upsert(p, k, v)
    \/ Insert(p) \/ Reply(p) \/ AppendReview(p)
    \/ /\ Cardinality(UNION {reviews[t] : t \in Tasks})
          + Cardinality({q \in Procs : Doing(q, "review")}) < MaxReviews
       /\ \E t \in Tasks, s \in Requested, at \in ReviewTimes,
             retain \in BOOLEAN : BeginReview(p, t, s, at, retain)

Next ==
    \/ \E p \in Procs : StartUp(p) \/ Serve(p) \/ Crash(p)
    \/ DropTrigger

\* A started process keeps executing its own statements; it need not be
\* started, and requests need not arrive.
Spec ==
    /\ Init /\ [][Next]_vars
    /\ \A p \in Procs : WF_vars(pc[p] # "off" /\ StartUp(p))
                        /\ WF_vars(Insert(p) \/ Reply(p) \/ AppendReview(p))

-----------------------------------------------------------------------------
(* Properties.                                                             *)

PCs == {"off", "probe", "create", "core", "core_triggers", "stream",
        "stream_triggers", "check", "serving"}

TypeOK ==
    /\ pc \in [Procs -> PCs]
    /\ schema \subseteq Complete
    /\ DOMAIN rows \subseteq Keys /\ \A k \in DOMAIN rows : rows[k] \in Payloads
    /\ \A t \in Tasks : Cardinality(reviews[t]) = Cardinality({r.rank : r \in reviews[t]})
    /\ \A p \in Procs : pc[p] # "serving" => req[p] = None

\* An append reported as done is in the store with exactly that content, for
\* ever: after crashes, restarts and competing appends of the same identity.
AckMeansStored == \A a \in acked : a[1] \in DOMAIN rows /\ rows[a[1]] = a[2]

\* A database file that its first start left incomplete is never served: with
\* no start under way that may still complete it, every later start refuses it.
Initialising == {p \in Procs : pc[p] \notin {"off", "probe", "serving"}}

InterruptedStartIsRefused ==
    [][ file /\ drops' = 0 /\ Initialising = {} /\ ~(Complete \subseteq schema)
          => schema' = schema /\ \A p \in Procs : pc'[p] \in {"off", "probe"} ]_vars

\* No process begins to serve while a denial trigger of any audited table is
\* missing, also when it was dropped between the probe and the last check.
ServesOnlyAppendOnly ==
    [][ \A p \in Procs : pc[p] # "serving" /\ pc'[p] = "serving"
          => Triggers(CoreTables) \cup Triggers(StreamTables) \subseteq schema ]_vars

\* Every start that serves stands on a complete, append-only database, whatever
\* start was cut off before it and whatever was dropped while it went on.
StartsAreSound == InterruptedStartIsRefused /\ ServesOnlyAppendOnly

\* A verdict is final as long as reviewers take turns and their clocks agree:
\* a task then has at most one terminal review, and it is its status.
VerdictStands ==
    \A t \in Tasks \ (hist.overlap \cup hist.backdated) :
      LET verdicts == {r \in reviews[t] : r.status \in Terminal}
      IN  /\ Cardinality(verdicts) <= 1
          /\ \A r \in verdicts : Status(t) = r.status

\* A task's verdict is final, without the condition above.  Two reviewers at
\* once break it: the check and the append of review are separate calls.
VerdictIsFinal ==
    \A t \in Tasks : Cardinality({r \in reviews[t] : r.status \in Terminal}) <= 1

\* A task marked as a reusable sample stays marked, whatever the order the
\* reviews carry, and was marked by a completed review.
RetainedIsKept ==
    [][ \A t \in Tasks : Retained(t) =>
          Retained(t)' /\ \E r \in reviews'[t] : r.status \in Completed ]_vars

\* Every start that is not cut off ends: the process serves or has refused.
StartsEnd ==
    \A p \in Procs : pc[p] \in PCs \ {"off", "serving"} ~> pc[p] \in {"off", "serving"}

=============================================================================
