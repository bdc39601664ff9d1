-------------------------- MODULE AuditRuntimeProofs --------------------------
(***************************************************************************)
(* TLAPS proofs about AuditRuntime: appended rows and start-up, for any    *)
(* number of processes, keys, payloads, crashes and dropped triggers.      *)
(***************************************************************************)
EXTENDS AuditRuntime, FiniteSetTheorems, TLAPS

AppendRequest ==
    [kind: {"append"}, key: Keys, value: Payloads,
     step: {"insert", "done", "conflict", "error"}]

ReviewRequest ==
    [kind: {"review"}, task: Tasks, status: Requested, at: ReviewTimes,
     retain: BOOLEAN]

RequestsOK == req \in [Procs -> {None} \cup AppendRequest \cup ReviewRequest]

(* A request about to be answered with success has its row in the store:   *)
(* what makes AckMeansStored inductive.                                    *)
DoneIsStored ==
    \A p \in Procs :
        Doing(p, "append") /\ req[p].step = "done" =>
            req[p].key \in DOMAIN rows /\ rows[req[p].key] = req[p].value

AppendInv == RequestsOK /\ DoneIsStored /\ AckMeansStored

(* Rows are only ever added: what makes every other request's promise      *)
(* survive a step.                                                         *)
RowsKept ==
    \A k \in DOMAIN rows : k \in DOMAIN rows' /\ rows'[k] = rows[k]

(* Storing a new key keeps all other rows.                                 *)
LEMMA StoreKeeps ==
    ASSUME NEW k, NEW v, k \notin DOMAIN rows, Store(k, v)
    PROVE  RowsKept /\ k \in DOMAIN rows' /\ rows'[k] = v
BY DEF Store, RowsKept

(* A step that keeps the rows and gives p one new request r that is no     *)
(* unkept promise keeps the invariant, if acked grows by kept rows only.   *)
LEMMA AnswerInv ==
    ASSUME AppendInv, NEW p \in Procs, RowsKept,
           NEW r \in {None} \cup AppendRequest \cup ReviewRequest,
           Answer(p, r),
           r # None /\ r.kind = "append" /\ r.step = "done" =>
               r.key \in DOMAIN rows' /\ rows'[r.key] = r.value,
           \A a \in acked' \ acked : a[1] \in DOMAIN rows /\ rows[a[1]] = a[2]
    PROVE  AppendInv'
<1>1. RequestsOK'
    BY DEF AppendInv, RequestsOK, Answer
<1>2. ASSUME NEW q \in Procs, (Doing(q, "append") /\ req[q].step = "done")'
      PROVE  (req[q].key \in DOMAIN rows /\ rows[req[q].key] = req[q].value)'
    <2>1. CASE q = p
        <3>1. req'[q] = r
            BY <2>1 DEF AppendInv, RequestsOK, Answer
        <3> QED BY <1>2, <3>1 DEF Doing
    <2>2. CASE q # p
        <3>1. req'[q] = req[q]
            BY <2>2 DEF AppendInv, RequestsOK, Answer
        <3> QED BY <1>2, <3>1 DEF Doing, AppendInv, DoneIsStored, RowsKept
    <2> QED BY <2>1, <2>2
<1>3. AckMeansStored'
    BY DEF AppendInv, AckMeansStored, RowsKept
<1> QED BY <1>1, <1>2, <1>3 DEF AppendInv, DoneIsStored

(* A step that touches neither rows, requests nor acknowledgments.         *)
LEMMA QuietInv ==
    ASSUME AppendInv, UNCHANGED <<rows, req, acked>>
    PROVE  AppendInv'
BY DEF AppendInv, RequestsOK, DoneIsStored, AckMeansStored, Doing

(* Unchanged rows are kept rows.                                           *)
LEMMA SameRows == ASSUME UNCHANGED rows PROVE RowsKept
BY DEF RowsKept

(* The sqlite lookup promises success only for a row it found.             *)
LEMMA LookUpInv ==
    ASSUME AppendInv, NEW p \in Procs, NEW k \in Keys, NEW v \in Payloads, LookUp(p, k, v)
    PROVE  AppendInv'
<1> DEFINE r == [kind |-> "append", key |-> k, value |-> v,
                 step |-> IF k \in DOMAIN rows THEN Compare(k, v) ELSE "insert"]
<1>1. r \in AppendRequest
    BY DEF AppendRequest, Compare
<1>2. Answer(p, r) /\ UNCHANGED <<rows, acked>>
    BY DEF LookUp
<1>3. r.step = "done" => k \in DOMAIN rows /\ rows[k] = v
    BY DEF Compare
<1>4. r.step = "done" => r.key \in DOMAIN rows' /\ rows'[r.key] = r.value
    BY <1>2, <1>3
<1> HIDE DEF r
<1> QED BY <1>1, <1>2, <1>4, AnswerInv, SameRows

(* PostgreSQL promises success only for a row it stored or found equal.    *)
LEMMA UpsertInv ==
    ASSUME AppendInv, NEW p \in Procs, NEW k \in Keys, NEW v \in Payloads, Upsert(p, k, v)
    PROVE  AppendInv'
<1> DEFINE r == [kind |-> "append", key |-> k, value |-> v,
                 step |-> IF k \in DOMAIN rows THEN Compare(k, v) ELSE "done"]
<1>1. r \in AppendRequest
    BY DEF AppendRequest, Compare
<1>2. Answer(p, r) /\ UNCHANGED acked
    BY DEF Upsert
<1>3. RowsKept /\ (k \in DOMAIN rows => UNCHANGED rows)
               /\ (k \notin DOMAIN rows => k \in DOMAIN rows' /\ rows'[k] = v)
    BY StoreKeeps, SameRows DEF Upsert
<1>4. r.step = "done" => r.key \in DOMAIN rows' /\ rows'[r.key] = r.value
    BY <1>3 DEF Compare
<1> HIDE DEF r
<1> QED BY <1>1, <1>2, <1>3, <1>4, AnswerInv

(* The sqlite insert stores under a free key, or fails.                    *)
LEMMA InsertInv ==
    ASSUME AppendInv, NEW p \in Procs, Insert(p)
    PROVE  AppendInv'
<1>1. req[p] \in AppendRequest
    BY DEF AppendInv, RequestsOK, Insert, Doing, AppendRequest, ReviewRequest
<1>2. CASE req[p].key \in DOMAIN rows
    <2> DEFINE r == [req[p] EXCEPT !.step = "error"]
    <2>1. r \in AppendRequest /\ r.step = "error"
        BY <1>1 DEF AppendRequest
    <2>2. Answer(p, r) /\ UNCHANGED <<rows, acked>>
        BY <1>2 DEF Insert
    <2> HIDE DEF r
    <2> QED BY <2>1, <2>2, AnswerInv, SameRows
<1>3. CASE req[p].key \notin DOMAIN rows
    <2> DEFINE r == [req[p] EXCEPT !.step = "done"]
    <2>1. r \in AppendRequest /\ r.key = req[p].key /\ r.value = req[p].value
        BY <1>1 DEF AppendRequest
    <2>2. Answer(p, r) /\ Store(req[p].key, req[p].value) /\ UNCHANGED acked
        BY <1>3 DEF Insert
    <2>3. RowsKept /\ r.key \in DOMAIN rows' /\ rows'[r.key] = r.value
        BY <1>3, <2>1, <2>2, StoreKeeps
    <2> HIDE DEF r
    <2> QED BY <2>1, <2>2, <2>3, AnswerInv
<1> QED BY <1>2, <1>3

(* A reply acknowledges a promise that is kept.                            *)
LEMMA ReplyInv ==
    ASSUME AppendInv, NEW p \in Procs, Reply(p)
    PROVE  AppendInv'
<1>1. Answer(p, None) /\ UNCHANGED rows
    BY DEF Reply
<1>2. \A a \in acked' \ acked : a[1] \in DOMAIN rows /\ rows[a[1]] = a[2]
    BY DEF Reply, AppendInv, DoneIsStored
<1> QED BY <1>1, <1>2, AnswerInv, SameRows

(* Reviews and crashes promise nothing about rows.                         *)
LEMMA ReviewInv ==
    ASSUME AppendInv, NEW p \in Procs,
           \/ \E t \in Tasks, s \in Requested, at \in ReviewTimes, retain \in BOOLEAN :
                 BeginReview(p, t, s, at, retain)
           \/ AppendReview(p)
           \/ Crash(p)
    PROVE  AppendInv'
<1>1. CASE AppendReview(p) \/ Crash(p)
    <2>1. Answer(p, None) /\ UNCHANGED <<rows, acked>>
        BY <1>1 DEF AppendReview, Crash
    <2> QED BY <2>1, AnswerInv, SameRows
<1>2. ASSUME NEW t \in Tasks, NEW s \in Requested, NEW at \in ReviewTimes,
             NEW retain \in BOOLEAN, BeginReview(p, t, s, at, retain)
      PROVE  AppendInv'
    <2> DEFINE r == [kind |-> "review", task |-> t, status |-> s, at |-> at,
                     retain |-> retain]
    <2>1. r \in ReviewRequest /\ r.kind # "append"
        BY DEF ReviewRequest
    <2>2. Answer(p, r) /\ UNCHANGED <<rows, acked>>
        BY <1>2 DEF BeginReview
    <2> HIDE DEF r
    <2> QED BY <2>1, <2>2, AnswerInv, SameRows
<1> QED BY <1>1, <1>2

(* Starting a process changes the schema and nothing else.                 *)
LEMMA StartUpKeepsData ==
    ASSUME NEW p \in Procs, StartUp(p)
    PROVE  UNCHANGED dataVars
BY DEF StartUp, CheckPath, Probe, CreateFile, CreateTables, CreateTrigger, FinalCheck,
       OpenPostgres

(* Every step keeps the invariant of appends.                              *)
LEMMA AppendStep == AppendInv /\ [Next]_vars => AppendInv'
<1> SUFFICES ASSUME AppendInv, [Next]_vars PROVE AppendInv'
    OBVIOUS
<1>1. ASSUME NEW p \in Procs, StartUp(p) PROVE AppendInv'
    BY <1>1, StartUpKeepsData, QuietInv DEF dataVars
<1>2. ASSUME NEW p \in Procs, Serve(p) PROVE AppendInv'
    BY <1>2, LookUpInv, UpsertInv, InsertInv, ReplyInv, ReviewInv DEF Serve
<1>3. ASSUME NEW p \in Procs, Crash(p) PROVE AppendInv'
    BY <1>3, ReviewInv
<1>4. CASE DropTrigger
    BY <1>4, QuietInv DEF DropTrigger, dataVars
<1>5. CASE UNCHANGED vars
    BY <1>5, QuietInv DEF vars
<1> QED BY <1>1, <1>2, <1>3, <1>4, <1>5 DEF Next

(* The empty store satisfies it.                                           *)
LEMMA AppendInit == Init => AppendInv
BY DEF Init, AppendInv, RequestsOK, DoneIsStored, AckMeansStored, Doing

(* An append reported as done is in the store with exactly that content    *)
(* for ever, whatever processes crash, restart or append the same          *)
(* identity: _append of both repositories.                                 *)
THEOREM AcknowledgedRowsAreStored == Spec => []AckMeansStored
<1>1. AppendInv => AckMeansStored
    BY DEF AppendInv
<1> QED BY AppendInit, AppendStep, <1>1, PTL DEF Spec

-----------------------------------------------------------------------------
(* Start-up.                                                               *)

AuditTriggers == Triggers(CoreTables) \cup Triggers(StreamTables)

(* Until a trigger is dropped, whoever serves, and every PostgreSQL        *)
(* deployment, has the complete schema.                                    *)
StartInv ==
    /\ pc \in [Procs -> PCs]
    /\ drops \in Nat
    /\ drops = 0 /\ (backend = "postgresql" \/ \E p \in Procs : pc[p] = "serving") =>
           Complete \subseteq schema

(* Counting the triggers is as good as comparing the sets.                 *)
LEMMA CountingSuffices ==
    ASSUME NEW objects, PostgresIntegrityOK(objects)
    PROVE  AuditTriggers \subseteq objects
<1>1. IsFiniteSet({"deny_update"} \cup {"deny_delete"})
    BY FS_Singleton, FS_AddElement
<1>2. IsFiniteSet({"deny_update", "deny_delete"})
    <2>1. {"deny_update"} \cup {"deny_delete"} = {"deny_update", "deny_delete"}
        OBVIOUS
    <2> QED BY <1>1, <2>1
<1>3. IsFiniteSet(Triggers(CoreTables)) /\ IsFiniteSet(Triggers(StreamTables))
    BY <1>2, AuditAssumption, FS_Product DEF Triggers
<1>4. IsFiniteSet(AuditTriggers)
    BY <1>3, FS_Union DEF AuditTriggers
<1>5. Cardinality(objects \cap AuditTriggers) = Cardinality(AuditTriggers)
    BY DEF PostgresIntegrityOK, AuditTriggers
<1>6. objects \cap AuditTriggers \in SUBSET AuditTriggers
    OBVIOUS
<1>7. AuditTriggers = objects \cap AuditTriggers
    <2> HIDE DEF AuditTriggers
    <2> QED BY <1>4, <1>5, <1>6, FS_Subset
<1> QED BY <1>7

(* Requests neither move a process nor touch the schema.                   *)
LEMMA ServeKeepsStart ==
    ASSUME NEW p \in Procs, Serve(p)
    PROVE  UNCHANGED <<startVars, pc>>
BY DEF Serve, LookUp, Upsert, Insert, Reply, AppendReview, BeginReview

(* What a start-up step may do: create objects on its way, or begin to     *)
(* serve on a database that its check found complete.                      *)
LEMMA StartUpFacts ==
    ASSUME pc \in [Procs -> PCs], NEW p \in Procs, StartUp(p)
    PROVE  /\ pc' \in [Procs -> PCs]
           /\ \A q \in Procs \ {p} : pc'[q] = pc[q]
           /\ schema \subseteq schema' /\ drops' = drops /\ backend' = backend
           /\ pc[p] # "serving"
           /\ pc'[p] = "serving" => \/ IntegrityOK(schema)
                                    \/ /\ backend = "postgresql"
                                       /\ PostgresIntegrityOK(schema)
           /\ \/ pc[p] \notin {"off", "probe"}
              \/ /\ schema' = schema
                 /\ \/ pc'[p] \in {"off", "probe"}
                    \/ pc[p] = "off" /\ (~file \/ backend = "postgresql")
                    \/ pc[p] = "probe" /\ IntegrityOK(schema)
<1>1. CASE CheckPath(p)
    BY <1>1 DEF CheckPath, At, PCs, startVars
<1>2. CASE Probe(p)
    BY <1>2 DEF Probe, At, PCs, startVars
<1>3. CASE CreateFile(p)
    BY <1>3 DEF CreateFile, At, PCs
<1>4. CASE CreateTables(p, "core", "core_triggers")
    BY <1>4 DEF CreateTables, At, PCs
<1>5. CASE CreateTables(p, "stream", "stream_triggers")
    BY <1>5 DEF CreateTables, At, PCs
<1>6. CASE CreateTrigger(p, "core_triggers", CoreTables, "stream")
    BY <1>6 DEF CreateTrigger, At, PCs
<1>7. CASE CreateTrigger(p, "stream_triggers", StreamTables, "check")
    BY <1>7 DEF CreateTrigger, At, PCs
<1>8. CASE FinalCheck(p)
    BY <1>8 DEF FinalCheck, At, PCs, startVars
<1>9. CASE OpenPostgres(p)
    BY <1>9 DEF OpenPostgres, At, PCs, startVars
<1> QED BY <1>1, <1>2, <1>3, <1>4, <1>5, <1>6, <1>7, <1>8, <1>9 DEF StartUp

(* Every step keeps the invariant of starts.                               *)
LEMMA StartStep == StartInv /\ [Next]_vars => StartInv'
<1> SUFFICES ASSUME StartInv, [Next]_vars PROVE StartInv'
    OBVIOUS
<1>1. ASSUME NEW p \in Procs, StartUp(p) PROVE StartInv'
    <2>1. pc \in [Procs -> PCs]
        BY DEF StartInv
    <2>2. IntegrityOK(schema) => Complete \subseteq schema'
        BY <1>1, <2>1, StartUpFacts DEF IntegrityOK
    <2> QED BY <1>1, <2>1, <2>2, StartUpFacts DEF StartInv
<1>2. ASSUME NEW p \in Procs, Serve(p) PROVE StartInv'
    BY <1>2, ServeKeepsStart DEF StartInv, startVars
<1>3. ASSUME NEW p \in Procs, Crash(p) PROVE StartInv'
    BY <1>3 DEF StartInv, Crash, PCs
<1>4. CASE DropTrigger
    BY <1>4 DEF StartInv, DropTrigger
<1>5. CASE UNCHANGED vars
    BY <1>5 DEF StartInv, vars
<1> QED BY <1>1, <1>2, <1>3, <1>4, <1>5 DEF Next

(* It holds of both backends before anybody has started.                   *)
LEMMA StartInit == Init => StartInv
BY DEF Init, StartInv, PCs

(* A file its first start left incomplete is refused by every later start. *)
LEMMA RefusedStep ==
    ASSUME StartInv, [Next]_vars, file, drops' = 0, Initialising = {},
           ~(Complete \subseteq schema)
    PROVE  schema' = schema /\ \A p \in Procs : pc'[p] \in {"off", "probe"}
<1>1. drops = 0
    <2>1. ASSUME NEW p \in Procs, StartUp(p) \/ Serve(p) \/ Crash(p)
          PROVE  drops' = drops
        BY <2>1, StartUpFacts, ServeKeepsStart DEF Crash, StartInv, startVars
    <2>2. ~DropTrigger
        <3>1. DropTrigger => drops' = drops + 1
            BY DEF DropTrigger
        <3>2. drops \in Nat
            BY DEF StartInv
        <3> QED BY <3>1, <3>2
    <2> QED BY <2>1, <2>2 DEF Next, vars
<1>2. backend # "postgresql" /\ \A p \in Procs : pc[p] \in {"off", "probe"}
    BY <1>1 DEF StartInv, Initialising
<1>3. ASSUME NEW p \in Procs, StartUp(p)
      PROVE  schema' = schema /\ \A q \in Procs : pc'[q] \in {"off", "probe"}
    <2>1. pc \in [Procs -> PCs] /\ ~IntegrityOK(schema)
        BY DEF StartInv, IntegrityOK
    <2> QED BY <1>2, <1>3, <2>1, StartUpFacts
<1>4. ASSUME NEW p \in Procs, Serve(p)
      PROVE  schema' = schema /\ \A q \in Procs : pc'[q] \in {"off", "probe"}
    BY <1>2, <1>4, ServeKeepsStart DEF startVars
<1>5. ASSUME NEW p \in Procs, Crash(p)
      PROVE  schema' = schema /\ \A q \in Procs : pc'[q] \in {"off", "probe"}
    BY <1>2, <1>5 DEF Crash, StartInv, PCs
<1>6. ~DropTrigger
    BY <1>1 DEF DropTrigger
<1>7. CASE UNCHANGED vars
    BY <1>2, <1>7 DEF vars
<1> QED BY <1>3, <1>4, <1>5, <1>6, <1>7 DEF Next

(* Nobody begins to serve while a denial trigger is missing.               *)
LEMMA ServingStep ==
    ASSUME StartInv, [Next]_vars, NEW p \in Procs, pc[p] # "serving", pc'[p] = "serving"
    PROVE  AuditTriggers \subseteq schema
<1>1. PICK q \in Procs : StartUp(q)
    <2>1. ASSUME NEW q \in Procs, Crash(q) PROVE FALSE
        BY <2>1 DEF Crash, StartInv
    <2>2. ASSUME NEW q \in Procs, Serve(q) PROVE FALSE
        BY <2>2, ServeKeepsStart
    <2>3. ~DropTrigger /\ ~UNCHANGED vars
        BY DEF DropTrigger, vars
    <2> QED BY <2>1, <2>2, <2>3 DEF Next
<1>2. IntegrityOK(schema) \/ PostgresIntegrityOK(schema)
    BY <1>1, StartUpFacts DEF StartInv
<1>3. IntegrityOK(schema) => AuditTriggers \subseteq schema
    BY DEF IntegrityOK, Complete, AuditTriggers
<1> QED BY <1>2, <1>3, CountingSuffices

(* Every start that serves stands on a complete, append-only database:     *)
(* create_runtime_persistence refuses a half-made file and a database      *)
(* without its denial triggers, whatever starts were cut off before.       *)
THEOREM SoundStarts == Spec => StartsAreSound
<1> DEFINE Refused == file /\ drops' = 0 /\ Initialising = {} /\ ~(Complete \subseteq schema)
                        => schema' = schema /\ \A p \in Procs : pc'[p] \in {"off", "probe"}
           Serving == \A p \in Procs : pc[p] # "serving" /\ pc'[p] = "serving"
                        => Triggers(CoreTables) \cup Triggers(StreamTables) \subseteq schema
<1>1. StartInv /\ [Next]_vars => [Refused]_vars
    BY RefusedStep
<1>2. StartInv /\ [Next]_vars => [Serving]_vars
    BY ServingStep DEF AuditTriggers
<1>3. Init /\ [][Next]_vars => [][Refused]_vars
    BY StartInit, StartStep, <1>1, PTL
<1>4. Init /\ [][Next]_vars => [][Serving]_vars
    BY StartInit, StartStep, <1>2, PTL
<1> QED BY <1>3, <1>4, PTL DEF Spec, StartsAreSound, InterruptedStartIsRefused,
           ServesOnlyAppendOnly

-----------------------------------------------------------------------------
(* Reviews.                                                                *)

Review == [status: Requested, at: ReviewTimes, retain: BOOLEAN, rank: 1..MaxReviews]

ReviewsOK ==
    /\ reviews \in [Tasks -> SUBSET Review]
    /\ hist \in [overlap: SUBSET Tasks, backdated: SUBSET Tasks]

Reviewing(p, t) == Doing(p, "review") /\ req[p].task = t

IsLatest(t, r) == r \in reviews[t] /\ \A s \in reviews[t] \ {r} : Before(s, r)

(* A task whose reviewers took turns: a verdict is its latest review, and  *)
(* a reviewer at work is the only one and has none to contradict.          *)
InTurn(t) ==
    /\ \A r \in reviews[t] : r.status \in Terminal => IsLatest(t, r)
    /\ \A p \in Procs : Reviewing(p, t) => \A r \in reviews[t] : r.status \notin Terminal
    /\ \A p, q \in Procs : Reviewing(p, t) /\ Reviewing(q, t) => p = q

VerdictInv ==
    ReviewsOK /\ \A t \in Tasks \ (hist.overlap \cup hist.backdated) : InTurn(t)

(* Dates and ranks of reviews are numbers, so Before is a strict order.    *)
LEMMA ReviewNumbers == ASSUME NEW r \in Review PROVE r.at \in Nat /\ r.rank \in Nat
<1>1. ReviewTimes \subseteq Nat /\ MaxReviews \in Nat
    BY AuditAssumption
<1>2. r.at \in ReviewTimes /\ r.rank \in 1..MaxReviews
    BY DEF Review
<1>3. \A n : MaxReviews \in Nat /\ n \in 1..MaxReviews => n \in Nat
    OBVIOUS
<1> QED BY <1>1, <1>2, <1>3, Zenon

(* The order of reviews is strict, so there is one latest.                 *)
LEMMA LatestIsUnique ==
    ASSUME ReviewsOK, NEW t \in Tasks, NEW r, IsLatest(t, r)
    PROVE  LatestReview(t) = r /\ Status(t) = r.status
<1> DEFINE l == LatestReview(t)
<1>1. l \in reviews[t] /\ \A s \in reviews[t] \ {l} : Before(s, l)
    BY DEF IsLatest, LatestReview
<1>2. r \in Review /\ l \in Review
    BY <1>1 DEF ReviewsOK, IsLatest
<1>3. r.at \in Nat /\ l.at \in Nat /\ r.rank \in Nat /\ l.rank \in Nat
    BY <1>2, ReviewNumbers
<1> HIDE DEF l
<1>4. l = r
    <2> SUFFICES ASSUME l # r PROVE FALSE
        OBVIOUS
    <2>1. Before(r, l) /\ Before(l, r)
        BY <1>1 DEF IsLatest
    <2> QED BY <1>3, <2>1 DEF Before
<1>5. reviews[t] # {}
    BY DEF IsLatest
<1> QED BY <1>4, <1>5 DEF l, Status

(* The invariant of reviews implies the property.                          *)
LEMMA VerdictsFollow == VerdictInv => VerdictStands
<1> SUFFICES ASSUME VerdictInv, NEW t \in Tasks \ (hist.overlap \cup hist.backdated)
             PROVE  LET verdicts == {r \in reviews[t] : r.status \in Terminal}
                    IN  /\ Cardinality(verdicts) <= 1
                        /\ \A r \in verdicts : Status(t) = r.status
    BY DEF VerdictStands
<1> DEFINE verdicts == {r \in reviews[t] : r.status \in Terminal}
<1>1. \A r \in verdicts : LatestReview(t) = r /\ Status(t) = r.status
    BY LatestIsUnique DEF VerdictInv, InTurn
<1>2. CASE verdicts = {}
    <2>1. Cardinality(verdicts) = 0
        BY <1>2, FS_EmptySet
    <2> QED BY <1>2, <2>1
<1>3. CASE verdicts # {}
    <2>1. verdicts = {LatestReview(t)}
        BY <1>1, <1>3
    <2> QED BY <1>1, <2>1, FS_Singleton
<1> QED BY <1>2, <1>3

(* A step that touches no review and begins none.                          *)
LEMMA ElsewhereKeeps ==
    ASSUME VerdictInv, UNCHANGED <<reviews, hist>>,
           \A q \in Procs, u \in Tasks : Reviewing(q, u)' => Reviewing(q, u)
    PROVE  VerdictInv'
<1>1. ReviewsOK'
    BY DEF VerdictInv, ReviewsOK
<1>2. ASSUME NEW u \in Tasks \ (hist.overlap \cup hist.backdated)
      PROVE  InTurn(u)'
    <2>1. InTurn(u)
        BY DEF VerdictInv
    <2>2. \A r : IsLatest(u, r)' <=> IsLatest(u, r)
        BY DEF IsLatest, Before
    <2> QED BY <2>1, <2>2 DEF InTurn
<1> QED BY <1>1, <1>2 DEF VerdictInv

(* A review that begins finds no verdict and, unless the overlap is        *)
(* remembered, no other reviewer.                                          *)
LEMMA BeginKeeps ==
    ASSUME AppendInv, VerdictInv, NEW p \in Procs, NEW t \in Tasks, NEW s \in Requested,
           NEW at \in ReviewTimes, NEW retain \in BOOLEAN,
           BeginReview(p, t, s, at, retain)
    PROVE  VerdictInv'
<1> DEFINE r == [kind |-> "review", task |-> t, status |-> s, at |-> at,
                 retain |-> retain]
<1>1. req' = [req EXCEPT ![p] = r] /\ UNCHANGED reviews
    BY DEF BeginReview, Answer
<1>2. hist' = [hist EXCEPT !.overlap = @ \cup {t2 \in {t} : \E q \in Procs \ {p} :
                               Doing(q, "review") /\ req[q].task = t}]
    BY DEF BeginReview
<1>3. ReviewsOK'
    BY <1>1, <1>2 DEF VerdictInv, ReviewsOK
<1>4. /\ hist.overlap \subseteq hist'.overlap /\ hist'.backdated = hist.backdated
      /\ t \notin hist'.overlap => \A q \in Procs \ {p} : ~Reviewing(q, t)
    BY <1>2 DEF VerdictInv, ReviewsOK, Reviewing
<1>5. \A q \in Procs, u \in Tasks :
         Reviewing(q, u)' => (q = p /\ u = t) \/ (q # p /\ Reviewing(q, u))
    <2>1. \A q \in Procs : req'[q] = IF q = p THEN r ELSE req[q]
        BY <1>1 DEF AppendInv, RequestsOK
    <2>2. r.task = t
        OBVIOUS
    <2> HIDE DEF r
    <2> QED BY <2>1, <2>2 DEF Reviewing, Doing
<1>6. ASSUME NEW u \in Tasks \ (hist'.overlap \cup hist'.backdated)
      PROVE  InTurn(u)'
    <2>1. InTurn(u)
        BY <1>4 DEF VerdictInv
    <2>2. \A x : IsLatest(u, x)' <=> IsLatest(u, x)
        BY <1>1 DEF IsLatest, Before
    <2>3. u = t => \A x \in reviews[t] : x.status \notin Terminal
        <3>1. Status(t) \notin Terminal
            BY DEF BeginReview, TransitionAllowed
        <3> QED BY <2>1, <3>1, LatestIsUnique DEF VerdictInv, InTurn
    <2>4. \A x \in reviews'[u] : x.status \in Terminal => IsLatest(u, x)'
        BY <1>1, <2>1, <2>2 DEF InTurn
    <2>5. \A q \in Procs : Reviewing(q, u)' => \A x \in reviews'[u] : x.status \notin Terminal
        BY <1>1, <1>5, <2>1, <2>3 DEF InTurn
    <2>6. \A q, q2 \in Procs : Reviewing(q, u)' /\ Reviewing(q2, u)' => q = q2
        BY <1>4, <1>5, <2>1 DEF InTurn
    <2> QED BY <2>4, <2>5, <2>6 DEF InTurn
<1> QED BY <1>3, <1>6 DEF VerdictInv

(* The review that is appended comes last, unless its date is remembered   *)
(* as earlier than another's.                                              *)
LEMMA AppendReviewKeeps ==
    ASSUME AppendInv, VerdictInv, NEW p \in Procs, AppendReview(p)
    PROVE  VerdictInv'
<1> DEFINE t == req[p].task
<1>1. req[p] \in ReviewRequest /\ Reviewing(p, t)
    BY DEF AppendInv, RequestsOK, AppendReview, Doing, AppendRequest, ReviewRequest, Reviewing
<1>2. t \in Tasks
    BY <1>1 DEF ReviewRequest
<1>3. PICK rank \in (1..MaxReviews) \ UNION {{r.rank : r \in reviews[u]} : u \in Tasks} :
         LET r == [status |-> req[p].status, at |-> req[p].at,
                   retain |-> req[p].retain, rank |-> rank]
         IN  /\ reviews' = [reviews EXCEPT ![t] = @ \cup {r}]
             /\ hist' = [hist EXCEPT !.backdated =
                   @ \cup {u \in {t} : \E s \in reviews[t] : Before(r, s)}]
    BY DEF AppendReview
<1>r. PICK r : r = [status |-> req[p].status, at |-> req[p].at,
                    retain |-> req[p].retain, rank |-> rank]
    OBVIOUS
<1>4. r \in Review /\ r.rank = rank
    BY <1>1, <1>r DEF ReviewRequest, Review
<1>5. /\ reviews' = [reviews EXCEPT ![t] = @ \cup {r}]
      /\ hist' = [hist EXCEPT !.backdated =
            @ \cup {u \in {t} : \E s \in reviews[t] : Before(r, s)}]
    BY <1>3, <1>r
<1>6. \A s \in reviews[t] : s.rank # r.rank
    BY <1>2, <1>4
<1>7. ReviewsOK'
    BY <1>2, <1>4, <1>5 DEF VerdictInv, ReviewsOK
<1>8. /\ hist.backdated \subseteq hist'.backdated /\ hist'.overlap = hist.overlap
      /\ t \notin hist'.backdated => \A s \in reviews[t] : ~Before(r, s)
    BY <1>5 DEF VerdictInv, ReviewsOK
<1>9. \A q \in Procs, u \in Tasks : Reviewing(q, u)' => q # p /\ Reviewing(q, u)
    <2>1. \A q \in Procs : req'[q] = IF q = p THEN None ELSE req[q]
        BY DEF AppendReview, Answer, AppendInv, RequestsOK
    <2> QED BY <2>1 DEF Reviewing, Doing
<1>10. ASSUME NEW u \in Tasks \ (hist'.overlap \cup hist'.backdated)
       PROVE  InTurn(u)'
    <2>1. InTurn(u)
        BY <1>8 DEF VerdictInv
    <2>2. CASE u # t
        <3>1. reviews'[u] = reviews[u]
            BY <1>5, <2>2 DEF VerdictInv, ReviewsOK
        <3>2. \A x : IsLatest(u, x)' <=> IsLatest(u, x)
            BY <3>1 DEF IsLatest, Before
        <3> QED BY <1>9, <2>1, <3>1, <3>2 DEF InTurn
    <2>3. CASE u = t
        <3>1. reviews'[t] = reviews[t] \cup {r}
            BY <1>2, <1>5 DEF VerdictInv, ReviewsOK
        <3>2. \A q \in Procs : ~Reviewing(q, u)'
            BY <1>1, <1>9, <2>1, <2>3 DEF InTurn
        <3>3. \A x \in reviews[t] : x.status \notin Terminal
            BY <1>1, <2>1, <2>3 DEF InTurn
        <3>4. \A s \in reviews[t] : Before(s, r)
            <4>1. r.at \in Nat /\ r.rank \in Nat
                BY <1>4, ReviewNumbers
            <4>2. \A s \in reviews[t] : s.at \in Nat /\ s.rank \in Nat
                BY <1>2, ReviewNumbers DEF VerdictInv, ReviewsOK
            <4> QED BY <1>6, <1>8, <2>3, <4>1, <4>2 DEF Before
        <3>5. \A x \in reviews'[u] : x.status \in Terminal => x = r
            BY <2>3, <3>1, <3>3
        <3>6. IsLatest(u, r)'
            BY <2>3, <3>1, <3>4 DEF IsLatest, Before
        <3> QED BY <3>2, <3>5, <3>6 DEF InTurn
    <2> QED BY <2>2, <2>3
<1> QED BY <1>7, <1>10 DEF VerdictInv

(* Every step keeps the invariant of reviews.                              *)
LEMMA VerdictStep == AppendInv /\ VerdictInv /\ [Next]_vars => VerdictInv'
<1> SUFFICES ASSUME AppendInv, VerdictInv, [Next]_vars PROVE VerdictInv'
    OBVIOUS
<1>1. CASE UNCHANGED <<reviews, hist, req>>
    BY <1>1, ElsewhereKeeps DEF Reviewing, Doing
<1>2. ASSUME NEW p \in Procs, NEW r, Answer(p, r), UNCHANGED <<reviews, hist>>,
             r = None \/ r.kind = "append"
      PROVE  VerdictInv'
    <2>1. \A q \in Procs : req'[q] = IF q = p THEN r ELSE req[q]
        BY <1>2 DEF Answer, AppendInv, RequestsOK
    <2>2. \A q \in Procs, u \in Tasks : Reviewing(q, u)' => Reviewing(q, u)
        BY <1>2, <2>1 DEF Reviewing, Doing
    <2> QED BY <1>2, <2>2, ElsewhereKeeps
<1>3. ASSUME NEW p \in Procs, NEW k \in Keys, NEW v \in Payloads,
             LookUp(p, k, v) \/ Upsert(p, k, v)
      PROVE  VerdictInv'
    <2> DEFINE A(step) == [kind |-> "append", key |-> k, value |-> v, step |-> step]
    <2>1. \E step : Answer(p, A(step)) /\ UNCHANGED <<reviews, hist>>
        BY <1>3 DEF LookUp, Upsert
    <2>2. \A step : A(step).kind = "append"
        OBVIOUS
    <2> HIDE DEF A
    <2> QED BY <1>2, <2>1, <2>2
<1>4. ASSUME NEW p \in Procs, Insert(p) PROVE VerdictInv'
    <2>1. req[p] \in AppendRequest
        BY <1>4 DEF AppendInv, RequestsOK, Insert, Doing, AppendRequest, ReviewRequest
    <2>2. \A step : [req[p] EXCEPT !.step = step].kind = "append"
        BY <2>1 DEF AppendRequest
    <2>3. \E step : Answer(p, [req[p] EXCEPT !.step = step]) /\ UNCHANGED <<reviews, hist>>
        BY <1>4 DEF Insert
    <2> QED BY <1>2, <2>2, <2>3
<1>5. ASSUME NEW p \in Procs, Reply(p) \/ Crash(p) PROVE VerdictInv'
    BY <1>2, <1>5 DEF Reply, Crash
<1>6. ASSUME NEW p \in Procs, StartUp(p) PROVE VerdictInv'
    BY <1>1, <1>6, StartUpKeepsData DEF dataVars
<1>7. ASSUME NEW p \in Procs, Serve(p) PROVE VerdictInv'
    BY <1>3, <1>4, <1>5, <1>7, BeginKeeps, AppendReviewKeeps DEF Serve
<1>8. CASE DropTrigger
    BY <1>1, <1>8 DEF DropTrigger, dataVars
<1>9. CASE UNCHANGED vars
    BY <1>1, <1>9 DEF vars
<1> QED BY <1>5, <1>6, <1>7, <1>8, <1>9 DEF Next

(* Without reviews it holds.                                               *)
LEMMA VerdictInit == Init => VerdictInv
BY DEF Init, VerdictInv, ReviewsOK, InTurn, Reviewing, Doing

(* A verdict is final as long as reviewers take turns and their clocks     *)
(* agree, for any number of reviewers: review and _with_review_state.      *)
THEOREM VerdictsStand == Spec => []VerdictStands
<1> QED BY AppendInit, AppendStep, VerdictInit, VerdictStep, VerdictsFollow, PTL DEF Spec
=============================================================================
