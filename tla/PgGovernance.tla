---------------------------- MODULE PgGovernance ----------------------------
(***************************************************************************)
(* The durable governance backend: PostgreSQLGovernanceStore               *)
(* (services/postgres_governance_store.py) used by several API processes.  *)
(* Every process has one connection and one lock around it, so it runs one *)
(* transaction at a time; the transactions of different processes          *)
(* interleave statement by statement under READ COMMITTED, and a process   *)
(* or its connection may fail between any two statements.                  *)
(*                                                                         *)
(* A table is the set of its committed rows.  tx[c] is what connection c   *)
(* has inserted and not yet committed.  An advisory lock is the queue of   *)
(* the connections that asked for it; the head holds it.  A request whose  *)
(* event does not match its approval is refused before the first statement *)
(* (_validate_event_matches_approval), so it is not a transaction here;    *)
(* frozen_at, which nothing reads back, is left out of a freeze row.       *)
(***************************************************************************)
EXTENDS Naturals, Sequences, FiniteSets

CONSTANTS
    Models, Versions, Sessions, Artifacts, Reports, Notes,
    Candidates, Approvals, None,     \* as in ChampionRegistry
    Conns,                           \* connections, one per API process
    MaxCrashes                       \* bound: connection failures in a run

ASSUME ConnsAssumption  == None \notin Conns
ASSUME CrashAssumption  == MaxCrashes \in Nat

VARIABLES
    db,           \* committed rows of the four governance tables
    nextEventId,  \* the identity sequence of governance_events
    modelLock,    \* advisory lock queue of each model
    sessionLock,  \* advisory lock queue of each (model, session)
    pc,           \* the statement each connection is about to execute
    req,          \* the request it is serving
    seen,         \* the champion it has read in this transaction
    tx,           \* its uncommitted rows
    commitOrder,  \* history: approvals in the order their events committed
    crashes       \* failures so far

vars == <<db, nextEventId, modelLock, sessionLock, pc, req, seen, tx,
          commitOrder, crashes>>

locks == <<modelLock, sessionLock>>

Tables == {"models", "approvals", "events", "freezes"}
NoRows == [t \in Tables |-> {}]
Idle == [op |-> "none"]

Init ==
    /\ db = NoRows
    /\ nextEventId = 1
    /\ modelLock = [m \in Models |-> <<>>]
    /\ sessionLock = [m \in Models |-> [s \in Sessions |-> <<>>]]
    /\ pc = [c \in Conns |-> "idle"]
    /\ req = [c \in Conns |-> Idle]
    /\ seen = [c \in Conns |-> None]
    /\ tx = [c \in Conns |-> NoRows]
    /\ commitOrder = <<>>
    /\ crashes = 0

-----------------------------------------------------------------------------
(* The database.                                                           *)

(* Primary or unique key of a row.                                         *)
Key(t, row) ==
    CASE t = "models"    -> <<row.model, row.version>>
      [] t = "approvals" -> <<row>>
      [] t = "events"    -> <<row.approval>>
      [] t = "freezes"   -> <<row.model, row.session>>

(* INSERT ... ON CONFLICT DO NOTHING waits for an uncommitted row with the *)
(* same key, inserts nothing when a committed one exists (rowcount 0), and *)
(* inserts otherwise.                                                      *)
CanInsert(c, t, row) ==
    \A d \in Conns \ {c} : \A x \in tx[d][t] : Key(t, x) # Key(t, row)

Existing(t, row) == {x \in db[t] : Key(t, x) = Key(t, row)}

Insert(c, t, row) ==
    tx' = IF Existing(t, row) = {} THEN [tx EXCEPT ![c][t] = @ \cup {row}] ELSE tx

(* _model_row, _event_by_approval_row, _session_row: one row by its key.   *)
ModelRow(m, v) == {x \in db["models"] : x.model = m /\ x.version = v}
EventRow(a) == {x \in db["events"] : x.approval = a}
SessionRow(m, s) == {x \in db["freezes"] : x.model = m /\ x.session = s}

(* _current_champion_row: ORDER BY event_id DESC LIMIT 1.                  *)
EventsOf(m) == {x \in db["events"] : x.approval.model = m}

CurrentChampion(m) ==
    IF EventsOf(m) = {} THEN None
    ELSE (CHOOSE x \in EventsOf(m) :
             \A y \in EventsOf(m) : y.id <= x.id).approval.target

(* The faulty variant takes the lock in shared mode.                       *)
BugHoldsShared(c, queue) == queue # <<>>

Holds(c, queue) == queue # <<>> /\ Head(queue) = c

(* A connection waits at most once in a queue.                             *)
Without(c, queue) ==
    LET at == {i \in DOMAIN queue : queue[i] = c}
    IN  IF at = {} THEN queue
        ELSE LET i == CHOOSE i \in at : TRUE
             IN  SubSeq(queue, 1, i - 1) \o SubSeq(queue, i + 1, Len(queue))

(* Transaction-scoped advisory locks are released when it ends.            *)
ReleaseLocks(c) ==
    /\ modelLock' = [m \in Models |-> Without(c, modelLock[m])]
    /\ sessionLock' = [m \in Models |-> [s \in Sessions |-> Without(c, sessionLock[m][s])]]

(* The faulty variant keeps the lock of the transaction that ended.        *)
BugEndTransaction(c) ==
    /\ pc' = [pc EXCEPT ![c] = "idle"]
    /\ req' = [req EXCEPT ![c] = Idle]
    /\ seen' = [seen EXCEPT ![c] = None]
    /\ tx' = [tx EXCEPT ![c] = NoRows]
    /\ UNCHANGED locks

EndTransaction(c) ==
    /\ pc' = [pc EXCEPT ![c] = "idle"]
    /\ req' = [req EXCEPT ![c] = Idle]
    /\ seen' = [seen EXCEPT ![c] = None]
    /\ tx' = [tx EXCEPT ![c] = NoRows]
    /\ ReleaseLocks(c)

(* except Exception: connection.rollback(); raise.                         *)
Abort(c) ==
    /\ EndTransaction(c)
    /\ UNCHANGED <<db, nextEventId, commitOrder, crashes>>

Commit(c) ==
    /\ pc[c] = "commit"
    /\ db' = [t \in Tables |-> db[t] \cup tx[c][t]]
    /\ commitOrder' = IF tx[c]["events"] = {} THEN commitOrder
                      ELSE Append(commitOrder, req[c].approval)
    /\ EndTransaction(c)
    /\ UNCHANGED <<nextEventId, crashes>>

(* The process dies or the connection is lost: the server rolls back.      *)
Crash(c) ==
    /\ pc[c] # "idle"
    /\ crashes < MaxCrashes
    /\ crashes' = crashes + 1
    /\ EndTransaction(c)
    /\ UNCHANGED <<db, nextEventId, commitOrder>>

(* A statement succeeded: on to the next one.                              *)
Goto(c, label) == pc' = [pc EXCEPT ![c] = label]

(* A statement that only reads: continue at label if ok, else raise.       *)
ReadStep(c, ok, label) ==
    \/ /\ ok
       /\ Goto(c, label)
       /\ UNCHANGED <<db, nextEventId, locks, req, seen, tx, commitOrder, crashes>>
    \/ ~ ok /\ Abort(c)

-----------------------------------------------------------------------------
(* append_model_version: no lock, the insert decides.                      *)
BeginRegister(c, row) ==
    /\ pc[c] = "idle"
    /\ req' = [req EXCEPT ![c] = [op |-> "register", row |-> row]]
    /\ Goto(c, "register.parent")
    /\ UNCHANGED <<db, nextEventId, locks, seen, tx, commitOrder, crashes>>

RegisterParent(c) ==
    /\ pc[c] = "register.parent"
    /\ LET row == req[c].row
       IN  ReadStep(c, row.parent = None \/ ModelRow(row.model, row.parent) # {},
                    "register.insert")

RegisterInsert(c) ==
    /\ pc[c] = "register.insert"
    /\ LET row == req[c].row
           old == Existing("models", row)
       IN  /\ CanInsert(c, "models", row)
           /\ \/ /\ old \subseteq {row}
                 /\ Insert(c, "models", row)
                 /\ Goto(c, "commit")
                 /\ UNCHANGED <<db, nextEventId, locks, req, seen, commitOrder, crashes>>
              \/ ~ (old \subseteq {row}) /\ Abort(c)

-----------------------------------------------------------------------------
(* append_action, called by promote and rollback.                          *)
BeginAction(c, a) ==
    /\ pc[c] = "idle"
    /\ req' = [req EXCEPT ![c] = [op |-> "action", approval |-> a]]
    /\ modelLock' = [modelLock EXCEPT ![a.model] = Append(@, c)]
    /\ Goto(c, "action.used")
    /\ UNCHANGED <<db, nextEventId, sessionLock, seen, tx, commitOrder, crashes>>

ActionCheckUsed(c) ==
    /\ pc[c] = "action.used"
    /\ LET a == req[c].approval
       IN  /\ Holds(c, modelLock[a.model])
           /\ ReadStep(c, EventRow(a) = {}, "action.champion")

ActionReadChampion(c) ==
    /\ pc[c] = "action.champion"
    /\ LET a == req[c].approval
           current == CurrentChampion(a.model)
       IN  \/ /\ a.source = current
              /\ seen' = [seen EXCEPT ![c] = current]
              /\ Goto(c, "action.target")
              /\ UNCHANGED <<db, nextEventId, locks, req, tx, commitOrder, crashes>>
           \/ a.source # current /\ Abort(c)

(* _validate_action.  A rollback is refused only when it names the         *)
(* champion itself: nothing asks that there be a champion.                 *)
ActionValid(a, target, current) ==
    IF a.action = "PROMOTE"
    THEN /\ target.report # None
         /\ a.evidence = target.report
         /\ a.approvedAt >= target.trainedAt
         /\ current # None => target.parent = current
    ELSE target.version # current

ActionReadTarget(c) ==
    /\ pc[c] = "action.target"
    /\ LET a == req[c].approval
       IN  ReadStep(c, \E row \in ModelRow(a.model, a.target) : ActionValid(a, row, seen[c]),
                    "action.approval")

(* _insert_approval: a row with this key has this content.                 *)
ActionInsertApproval(c) ==
    /\ pc[c] = "action.approval"
    /\ CanInsert(c, "approvals", req[c].approval)
    /\ Insert(c, "approvals", req[c].approval)
    /\ Goto(c, "action.event")
    /\ UNCHANGED <<db, nextEventId, locks, req, seen, commitOrder, crashes>>

(* The identity value is drawn by the INSERT and never given back.         *)
ActionInsertEvent(c) ==
    /\ pc[c] = "action.event"
    /\ LET row == [id |-> nextEventId, approval |-> req[c].approval]
       IN  /\ CanInsert(c, "events", row)
           /\ nextEventId' = nextEventId + 1
           /\ IF Existing("events", row) = {}
              THEN /\ Insert(c, "events", row)
                   /\ Goto(c, "commit")
                   /\ UNCHANGED <<locks, req, seen>>
              ELSE EndTransaction(c)
    /\ UNCHANGED <<db, commitOrder, crashes>>

-----------------------------------------------------------------------------
(* freeze_session: the model's lock first, then the session's.             *)
BeginFreeze(c, m, s) ==
    /\ pc[c] = "idle"
    /\ req' = [req EXCEPT ![c] = [op |-> "freeze", model |-> m, session |-> s]]
    /\ modelLock' = [modelLock EXCEPT ![m] = Append(@, c)]
    /\ Goto(c, "freeze.lockSession")
    /\ UNCHANGED <<db, nextEventId, sessionLock, seen, tx, commitOrder, crashes>>

FreezeLockSession(c) ==
    /\ pc[c] = "freeze.lockSession"
    /\ Holds(c, modelLock[req[c].model])
    /\ sessionLock' = [sessionLock EXCEPT ![req[c].model][req[c].session] = Append(@, c)]
    /\ Goto(c, "freeze.existing")
    /\ UNCHANGED <<db, nextEventId, modelLock, req, seen, tx, commitOrder, crashes>>

(* An existing freeze is returned as it is.                                *)
FreezeReadExisting(c) ==
    /\ pc[c] = "freeze.existing"
    /\ Holds(c, sessionLock[req[c].model][req[c].session])
    /\ Goto(c, IF SessionRow(req[c].model, req[c].session) # {}
               THEN "commit" ELSE "freeze.champion")
    /\ UNCHANGED <<db, nextEventId, locks, req, seen, tx, commitOrder, crashes>>

FreezeReadChampion(c) ==
    /\ pc[c] = "freeze.champion"
    /\ LET current == CurrentChampion(req[c].model)
       IN  \/ /\ current # None
              /\ seen' = [seen EXCEPT ![c] = current]
              /\ Goto(c, "freeze.insert")
              /\ UNCHANGED <<db, nextEventId, locks, req, tx, commitOrder, crashes>>
           \/ current = None /\ Abort(c)

FreezeInsert(c) ==
    /\ pc[c] = "freeze.insert"
    /\ LET row == [model |-> req[c].model, session |-> req[c].session, version |-> seen[c]]
       IN  /\ CanInsert(c, "freezes", row)
           /\ Insert(c, "freezes", row)
    /\ Goto(c, "commit")
    /\ UNCHANGED <<db, nextEventId, locks, req, seen, commitOrder, crashes>>

-----------------------------------------------------------------------------
Begin(c) ==
    \/ \E row \in Candidates : BeginRegister(c, row)
    \/ \E a \in Approvals : BeginAction(c, a)
    \/ \E m \in Models, s \in Sessions : BeginFreeze(c, m, s)

Statement(c) ==
    \/ RegisterParent(c) \/ RegisterInsert(c)
    \/ ActionCheckUsed(c) \/ ActionReadChampion(c) \/ ActionReadTarget(c)
    \/ ActionInsertApproval(c) \/ ActionInsertEvent(c)
    \/ FreezeLockSession(c) \/ FreezeReadExisting(c)
    \/ FreezeReadChampion(c) \/ FreezeInsert(c)
    \/ Commit(c)

Next == \E c \in Conns : Begin(c) \/ Statement(c) \/ Crash(c)

Spec == Init /\ [][Next]_vars

(* A transaction in progress is driven to its end by the thread running    *)
(* it; nobody is obliged to start one, and nothing has to fail.            *)
FairSpec == Spec /\ \A c \in Conns : WF_vars(Statement(c))

-----------------------------------------------------------------------------
(* Properties.                                                             *)

(* TypeOK: rows and requests are of the tables' types.                     *)
TypeOK ==
    /\ db["models"] \subseteq Candidates
    /\ db["approvals"] \subseteq Approvals
    /\ db["events"] \subseteq [id : 1..(nextEventId - 1), approval : Approvals]
    /\ db["freezes"] \subseteq [model : Models, session : Sessions, version : Versions]
    /\ nextEventId \in Nat \ {0}
    /\ \A m \in Models : modelLock[m] \in Seq(Conns)
    /\ \A m \in Models, s \in Sessions : sessionLock[m][s] \in Seq(Conns)
    /\ seen \in [Conns -> Versions \cup {None}]
    /\ commitOrder \in Seq(Approvals)
    /\ crashes \in 0..MaxCrashes

(* The registry that the committed rows represent.                         *)
TheVersions ==
    [m \in Models |-> [v \in Versions |->
        IF ModelRow(m, v) = {} THEN None ELSE CHOOSE x \in ModelRow(m, v) : TRUE]]
TheChampions == [m \in Models |-> CurrentChampion(m)]
TheFreezes ==
    [m \in Models |-> [s \in Sessions |->
        IF SessionRow(m, s) = {} THEN None
        ELSE (CHOOSE x \in SessionRow(m, s) : TRUE).version]]
TheSpent == {x.approval : x \in db["events"]}

Contract == INSTANCE ChampionRegistry WITH
    BootstrapRollback <- TRUE,
    versions <- TheVersions, champions <- TheChampions,
    sessionChampions <- TheFreezes, events <- commitOrder,
    usedApprovals <- TheSpent

InProcess == INSTANCE ChampionRegistry WITH
    BootstrapRollback <- FALSE,
    versions <- TheVersions, champions <- TheChampions,
    sessionChampions <- TheFreezes, events <- commitOrder,
    usedApprovals <- TheSpent

(* Callers' records are well-formed, as for the in-process registry.       *)
ASSUME RecordsAssumption ==
    /\ Candidates \subseteq Contract!ModelVersion
    /\ Approvals \subseteq Contract!GovernanceApproval
    /\ None \notin Versions /\ None \notin Reports /\ None \notin Contract!ModelVersion

(* ImplementsRegistry: however the transactions of several processes       *)
(* interleave and fail, the committed tables change only by the atomic     *)
(* operations of the registry, "Serialize against model promotion first,   *)
(* then against another freezer" (postgres_governance_store.py:222).       *)
ImplementsRegistry == Contract!Spec

(* DropInCounterpart: the class documents itself as "Drop-in durable       *)
(* counterpart to the in-process FrozenChampionRegistry", whose rollback   *)
(* raises "model has no champion" when there is nothing to roll back.      *)
(* The store accepts that rollback, so this does not hold; see README.     *)
DropInCounterpart == InProcess!Spec

(* AtomicAudit: "Approval and event writes commit atomically"              *)
(* (docs/operations/production-persistence.md): at every moment, whatever  *)
(* has failed, the committed approvals are those of the committed events,  *)
(* one event each.                                                         *)
AtomicAudit ==
    /\ db["approvals"] = TheSpent
    /\ \A x, y \in db["events"] : x.approval = y.approval => x = y

(* EventIdsFollowCommits: the champion query takes the row with the        *)
(* largest event_id, an identity drawn before commit.  A newly committed   *)
(* event must therefore have a larger id than every event of its model     *)
(* that was already visible.                                               *)
EventIdsFollowCommits ==
    [][ \A x \in db'["events"] \ db["events"] :
          \A y \in db["events"] : y.approval.model = x.approval.model => y.id < x.id ]_vars

(* TransactionsEnd: no transaction waits forever: the two advisory locks   *)
(* and the key waits of concurrent inserts cannot deadlock or starve.      *)
TransactionsEnd == \A c \in Conns : pc[c] # "idle" ~> pc[c] = "idle"

=============================================================================
