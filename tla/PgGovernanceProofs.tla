------------------------- MODULE PgGovernanceProofs -------------------------
(***************************************************************************)
(* TLAPS proofs about PgGovernance: the PostgreSQL governance store        *)
(* implements the registry's contract, for every set of models, versions,  *)
(* sessions, candidate registrations and approvals, and for any number of  *)
(* processes and lost connections.                                         *)
(***************************************************************************)
EXTENDS PgGovernance, TLAPS

-----------------------------------------------------------------------------
(* What a transaction of the store knows at each of its statements.        *)

RegisterCalls == [op : {"register"}, row : Candidates]
ActionCalls   == [op : {"action"}, approval : Approvals]
FreezeCalls   == [op : {"freeze"}, model : Models, session : Sessions]

Requests == {Idle} \cup RegisterCalls \cup ActionCalls \cup FreezeCalls

(* The rows of a transaction, by table.                                    *)
EventRows  == [id : Nat, approval : Approvals]
FreezeRows == [model : Models, session : Sessions, version : Versions]
Staged     == [Tables -> SUBSET (Candidates \cup Approvals \cup EventRows \cup FreezeRows)]

RegisterLabels == {"register.parent", "register.insert"}
ActionLabels == {"action.used", "action.champion", "action.target", "action.approval",
                 "action.event"}
FreezeLabels == {"freeze.lockSession", "freeze.existing", "freeze.champion", "freeze.insert"}
Labels == {"idle", "commit"} \cup RegisterLabels \cup ActionLabels \cup FreezeLabels

StoreTypeOK ==
    /\ TypeOK
    /\ modelLock \in [Models -> Seq(Conns)]
    /\ sessionLock \in [Models -> [Sessions -> Seq(Conns)]]
    /\ pc \in [Conns -> Labels]
    /\ req \in [Conns -> Requests]
    /\ tx \in [Conns -> Staged]

(* The rows in x are rows of table t.                                      *)
Only(x, t) == \A u \in Tables \ {t} : x[u] = {}

ParentKnown(row) == row.parent = None \/ ModelRow(row.model, row.parent) # {}

Justified(a) ==
    \E row \in ModelRow(a.model, a.target) : ActionValid(a, row, a.source)

(* What a transaction may commit, for each kind of request.                *)
RegisterReady(r, x) ==
    /\ r \in RegisterCalls
    /\ ParentKnown(r.row)
    /\ Only(x, "models")
    /\ \/ x["models"] = {}
       \/ x["models"] = {r.row} /\ ModelRow(r.row.model, r.row.version) = {}

NewestFor(n, m) == \A y \in EventsOf(m) : y.id < n

ActionReady(r, x) ==
    /\ r \in ActionCalls
    /\ EventRow(r.approval) = {}
    /\ r.approval.source = CurrentChampion(r.approval.model)
    /\ Justified(r.approval)
    /\ x["models"] = {} /\ x["freezes"] = {} /\ x["approvals"] = {r.approval}
    /\ \E n \in 1..(nextEventId - 1) :
          /\ x["events"] = {[id |-> n, approval |-> r.approval]}
          /\ NewestFor(n, r.approval.model)

FreezeRow(r, v) == [model |-> r.model, session |-> r.session, version |-> v]

FreezeReady(r, x) ==
    /\ r \in FreezeCalls
    /\ Only(x, "freezes")
    /\ \/ x["freezes"] = {}
       \/ /\ x["freezes"] = {FreezeRow(r, CurrentChampion(r.model))}
          /\ CurrentChampion(r.model) # None
          /\ SessionRow(r.model, r.session) = {}

Ready(r, x) == RegisterReady(r, x) \/ ActionReady(r, x) \/ FreezeReady(r, x)

(* l is a connection's next statement, r its request, s the champion it    *)
(* has read, x its uncommitted rows.                                       *)
RegisterOK(l, r, x) ==
    /\ l \in RegisterLabels => r \in RegisterCalls /\ x = NoRows
    /\ l = "register.insert" => ParentKnown(r.row)

ActionOK(l, r, s, x) ==
    /\ l \in ActionLabels => r \in ActionCalls
    /\ l \in ActionLabels \ {"action.event"} => x = NoRows
    /\ l \in ActionLabels \ {"action.used"} => EventRow(r.approval) = {}
    /\ l \in {"action.target", "action.approval", "action.event"} =>
          s = r.approval.source /\ s = CurrentChampion(r.approval.model)
    /\ l \in {"action.approval", "action.event"} => Justified(r.approval)
    /\ l = "action.event" => x["approvals"] = {r.approval} /\ Only(x, "approvals")

FreezeOK(l, r, s, x) ==
    /\ l \in FreezeLabels => r \in FreezeCalls /\ x = NoRows
    /\ l \in {"freeze.champion", "freeze.insert"} => SessionRow(r.model, r.session) = {}
    /\ l = "freeze.insert" => s = CurrentChampion(r.model) /\ s # None

LocalOK(l, r, s, x) ==
    /\ l = "idle" => x = NoRows
    /\ RegisterOK(l, r, x)
    /\ ActionOK(l, r, s, x)
    /\ FreezeOK(l, r, s, x)
    /\ l = "commit" => Ready(r, x)

(* A transaction that holds the advisory lock of model m.                  *)
Locked(l, r, m) ==
    \/ /\ l \in (ActionLabels \ {"action.used"}) \cup {"commit"}
       /\ r \in ActionCalls /\ r.approval.model = m
    \/ /\ l \in (FreezeLabels \ {"freeze.lockSession"}) \cup {"commit"}
       /\ r \in FreezeCalls /\ r.model = m

LockInv ==
    \A c \in Conns, m \in Models : Locked(pc[c], req[c], m) => Holds(c, modelLock[m])

(* Two transactions never hold rows of one model version.                  *)
KeysApart ==
    \A c, d \in Conns : c # d =>
        \A x \in tx[c]["models"], y \in tx[d]["models"] :
            x.model # y.model \/ x.version # y.version

(* The committed rows.                                                     *)
Latest(x, m) == x \in EventsOf(m) /\ \A y \in EventsOf(m) : y.id <= x.id

RowsOK ==
    /\ \A x, y \in db["models"] : x.model = y.model /\ x.version = y.version => x = y
    /\ AtomicAudit
    /\ \A m \in Models : EventsOf(m) = {} \/ \E x \in EventsOf(m) : Latest(x, m)

StoreInv ==
    /\ StoreTypeOK
    /\ RowsOK
    /\ LockInv
    /\ KeysApart
    /\ \A c \in Conns : LocalOK(pc[c], req[c], seen[c], tx[c])

-----------------------------------------------------------------------------
(* Operators of the model.                                                 *)

(* What the callers' records are made of.                                  *)
LEMMA RecordFacts ==
    /\ \A row \in Candidates :
          /\ row.model \in Models /\ row.version \in Versions /\ row # None
          /\ row.parent \in Versions \cup {None}
    /\ \A a \in Approvals :
          a.model \in Models /\ a.target \in Versions /\ a.source \in Versions \cup {None}
    /\ None \notin Versions
<1>1. /\ \A row \in Contract!ModelVersion :
            /\ row.model \in Models /\ row.version \in Versions
            /\ row.parent \in Versions \cup {None}
      /\ \A a \in Contract!GovernanceApproval :
            a.model \in Models /\ a.target \in Versions /\ a.source \in Versions \cup {None}
    BY DEF Contract!ModelVersion, Contract!GovernanceApproval
<1> QED
    BY <1>1, RecordsAssumption

(* The holder of a lock keeps it while others join the queue.              *)
LEMMA HoldsAppend ==
    ASSUME NEW q \in Seq(Conns), NEW c, NEW d \in Conns, Holds(c, q)
    PROVE  Append(q, d) \in Seq(Conns) /\ Holds(c, Append(q, d))
    BY DEF Holds

(* ... and while others leave it.                                          *)
LEMMA WithoutFacts ==
    ASSUME NEW q \in Seq(Conns), NEW c
    PROVE  /\ Without(c, q) \in Seq(Conns)
           /\ \A d : d # c /\ Holds(d, q) => Holds(d, Without(c, q))
<1> DEFINE at == {i \in DOMAIN q : q[i] = c}
<1>1. CASE at = {}
    <2>1. Without(c, q) = q
        BY <1>1 DEF Without
    <2> QED BY <2>1
<1>2. CASE at # {}
    <2>1. PICK i : i = CHOOSE j \in at : TRUE
        OBVIOUS
    <2>2. i \in 1..Len(q) /\ q[i] = c /\ Len(q) \in Nat
        BY <1>2, <2>1
    <2>3. Without(c, q) = SubSeq(q, 1, i - 1) \o SubSeq(q, i + 1, Len(q))
        BY <1>2, <2>1 DEF Without
    <2>4. SubSeq(q, 1, i - 1) \in Seq(Conns) /\ SubSeq(q, i + 1, Len(q)) \in Seq(Conns)
        BY <2>2
    <2>5. ASSUME NEW d, d # c, Holds(d, q)
          PROVE  Holds(d, Without(c, q))
        <3>1. i - 1 \in Nat /\ i - 1 >= 1 /\ q[1] = d
            BY <2>2, <2>5 DEF Holds
        <3>2. /\ Len(SubSeq(q, 1, i - 1)) = i - 1
              /\ SubSeq(q, 1, i - 1)[1] = d
            BY <2>2, <3>1
        <3>3. /\ Without(c, q) \in Seq(Conns)
              /\ Len(Without(c, q)) >= 1
              /\ Without(c, q)[1] = d
            BY <2>3, <2>4, <3>1, <3>2
        <3> QED BY <3>3 DEF Holds
    <2> QED BY <2>3, <2>4, <2>5
<1> QED BY <1>1, <1>2

(* Keys of rows, table by table.                                           *)
LEMMA KeyFacts ==
    ASSUME NEW x, NEW y
    PROVE  /\ Key("models", x) = Key("models", y) <=> x.model = y.model /\ x.version = y.version
           /\ Key("approvals", x) = Key("approvals", y) <=> x = y
           /\ Key("events", x) = Key("events", y) <=> x.approval = y.approval
           /\ Key("freezes", x) = Key("freezes", y) <=> x.model = y.model /\ x.session = y.session
<1>1. /\ Key("models", x) = <<x.model, x.version>> /\ Key("models", y) = <<y.model, y.version>>
      /\ Key("approvals", x) = <<x>> /\ Key("approvals", y) = <<y>>
      /\ Key("events", x) = <<x.approval>> /\ Key("events", y) = <<y.approval>>
      /\ Key("freezes", x) = <<x.model, x.session>> /\ Key("freezes", y) = <<y.model, y.session>>
    BY DEF Key
<1> QED BY <1>1

(* Only one transaction holds the lock of a model.                         *)
LEMMA Exclusive ==
    ASSUME StoreInv, NEW c \in Conns, NEW d \in Conns, NEW m \in Models,
           Locked(pc[c], req[c], m), Locked(pc[d], req[d], m)
    PROVE  c = d
    BY DEF StoreInv, LockInv, Holds

(* What a transaction knows stays true while the rows it rests on stand.   *)
Standing(l, r, x) ==
    /\ db["models"] \subseteq db'["models"]
    /\ nextEventId \in Nat /\ nextEventId' \in Nat /\ nextEventId <= nextEventId'
    /\ \A m \in Models : Locked(l, r, m) =>
          /\ EventsOf(m)' = EventsOf(m)
          /\ \A i \in Sessions : SessionRow(m, i)' = SessionRow(m, i)
    /\ l = "commit" /\ r \in RegisterCalls /\ x["models"] = {r.row}
          /\ ModelRow(r.row.model, r.row.version) = {} =>
             ModelRow(r.row.model, r.row.version)' = {}

LEMMA RowsStand ==
    ASSUME db["models"] \subseteq db'["models"]
    PROVE  /\ \A row : ParentKnown(row) => ParentKnown(row)'
           /\ \A a : Justified(a) => Justified(a)'
    BY DEF ParentKnown, Justified, ModelRow, ActionValid

LEMMA EventsStand ==
    ASSUME NEW m, EventsOf(m)' = EventsOf(m)
    PROVE  /\ CurrentChampion(m)' = CurrentChampion(m)
           /\ \A n : NewestFor(n, m) => NewestFor(n, m)'
           /\ \A a : a.model = m /\ EventRow(a) = {} => EventRow(a)' = {}
<1>1. CurrentChampion(m)' = CurrentChampion(m)
    BY DEF CurrentChampion
<1>2. \A n : NewestFor(n, m) => NewestFor(n, m)'
    BY DEF NewestFor
<1>3. \A a : a.model = m /\ EventRow(a) = {} => EventRow(a)' = {}
    BY DEF EventRow, EventsOf
<1> QED BY <1>1, <1>2, <1>3

LEMMA LocalKept ==
    ASSUME NEW l, NEW r, NEW s, NEW x, LocalOK(l, r, s, x), Standing(l, r, x)
    PROVE  LocalOK(l, r, s, x)'
<1>1. db["models"] \subseteq db'["models"]
    BY DEF Standing
<1>2. ASSUME r \in ActionCalls
      PROVE  r.approval \in Approvals /\ r.approval.model \in Models
    BY <1>2, RecordFacts DEF ActionCalls
<1>3. ASSUME r \in FreezeCalls
      PROVE  r.model \in Models /\ r.session \in Sessions
    BY <1>3 DEF FreezeCalls
<1>4. ASSUME r \in ActionCalls, l \in (ActionLabels \ {"action.used"}) \cup {"commit"}
      PROVE  /\ CurrentChampion(r.approval.model)' = CurrentChampion(r.approval.model)
             /\ \A n : NewestFor(n, r.approval.model) => NewestFor(n, r.approval.model)'
             /\ EventRow(r.approval) = {} => EventRow(r.approval)' = {}
    <2>1. Locked(l, r, r.approval.model)
        BY <1>4 DEF Locked
    <2>2. EventsOf(r.approval.model)' = EventsOf(r.approval.model)
        BY <1>2, <1>4, <2>1 DEF Standing
    <2> QED BY <2>2, EventsStand
<1>5. ASSUME r \in FreezeCalls, l \in (FreezeLabels \ {"freeze.lockSession"}) \cup {"commit"}
      PROVE  /\ CurrentChampion(r.model)' = CurrentChampion(r.model)
             /\ SessionRow(r.model, r.session)' = SessionRow(r.model, r.session)
    <2>1. Locked(l, r, r.model)
        BY <1>5 DEF Locked
    <2>2. /\ EventsOf(r.model)' = EventsOf(r.model)
          /\ SessionRow(r.model, r.session)' = SessionRow(r.model, r.session)
        BY <1>3, <1>5, <2>1 DEF Standing
    <2> QED BY <2>2, EventsStand
<1>6. RegisterOK(l, r, x)'
    <2>1. RegisterOK(l, r, x)
        BY DEF LocalOK
    <2> QED BY <2>1, <1>1, RowsStand DEF RegisterOK
<1>7. ActionOK(l, r, s, x)'
    <2>1. ActionOK(l, r, s, x)
        BY DEF LocalOK
    <2>2. CASE l \in ActionLabels
        <3>1. r \in ActionCalls
            BY <2>1, <2>2 DEF ActionOK
        <3>2. Justified(r.approval) => Justified(r.approval)'
            BY <1>1, RowsStand
        <3>3. CASE l = "action.used"
            BY <2>1, <3>1, <3>3 DEF ActionOK, ActionLabels
        <3>4. CASE l # "action.used"
            BY <2>1, <2>2, <3>1, <3>2, <3>4, <1>4 DEF ActionOK, Only
        <3> QED BY <3>3, <3>4
    <2>3. CASE l \notin ActionLabels
        BY <2>3 DEF ActionOK, ActionLabels
    <2> QED BY <2>2, <2>3
<1>8. FreezeOK(l, r, s, x)'
    <2>1. FreezeOK(l, r, s, x)
        BY DEF LocalOK
    <2>2. CASE l \in FreezeLabels
        <3>1. r \in FreezeCalls
            BY <2>1, <2>2 DEF FreezeOK
        <3>2. CASE l = "freeze.lockSession"
            BY <2>1, <3>1, <3>2 DEF FreezeOK, FreezeLabels
        <3>3. CASE l # "freeze.lockSession"
            BY <2>1, <2>2, <3>1, <3>3, <1>5 DEF FreezeOK
        <3> QED BY <3>2, <3>3
    <2>3. CASE l \notin FreezeLabels
        BY <2>3 DEF FreezeOK, FreezeLabels
    <2> QED BY <2>2, <2>3
<1>9. ASSUME l = "commit" PROVE Ready(r, x)'
    <2>1. Ready(r, x)
        BY <1>9 DEF LocalOK
    <2>2. CASE RegisterReady(r, x)
        <3>1. ParentKnown(r.row)'
            BY <2>2, <1>1, RowsStand DEF RegisterReady
        <3>2. RegisterReady(r, x)'
            BY <2>2, <3>1, <1>9 DEF RegisterReady, Standing, Only
        <3> QED BY <3>2 DEF Ready
    <2>3. CASE ActionReady(r, x)
        <3>1. r \in ActionCalls
            BY <2>3 DEF ActionReady
        <3>2. Justified(r.approval)'
            BY <2>3, <1>1, RowsStand DEF ActionReady
        <3>3. PICK n \in 1..(nextEventId - 1) :
                 /\ x["events"] = {[id |-> n, approval |-> r.approval]}
                 /\ NewestFor(n, r.approval.model)
            BY <2>3 DEF ActionReady
        <3>4. n \in 1..(nextEventId' - 1)
            BY <3>3 DEF Standing
        <3>5. NewestFor(n, r.approval.model)'
            BY <3>1, <3>3, <1>4, <1>9
        <3>6. EventRow(r.approval)' = {} /\ r.approval.source = CurrentChampion(r.approval.model)'
            BY <2>3, <3>1, <1>4, <1>9 DEF ActionReady
        <3>7. ActionReady(r, x)'
            BY <2>3, <3>1, <3>2, <3>3, <3>4, <3>5, <3>6 DEF ActionReady
        <3> QED BY <3>7 DEF Ready
    <2>4. CASE FreezeReady(r, x)
        <3>1. r \in FreezeCalls
            BY <2>4 DEF FreezeReady
        <3>2. FreezeReady(r, x)'
            BY <2>4, <3>1, <1>5, <1>9 DEF FreezeReady, FreezeRow, Only
        <3> QED BY <3>2 DEF Ready
    <2> QED BY <2>1, <2>2, <2>3, <2>4 DEF Ready
<1>10. (l = "idle" => x = NoRows)'
    BY DEF LocalOK, NoRows
<1> QED BY <1>6, <1>7, <1>8, <1>9, <1>10 DEF LocalOK

(* Connection c goes on to statement l with request r, champion s read and *)
(* uncommitted rows x; the others stay where they are.                     *)
Move(c, l, r, s, x) ==
    /\ pc' = [pc EXCEPT ![c] = l]
    /\ req' = [req EXCEPT ![c] = r]
    /\ seen' = [seen EXCEPT ![c] = s]
    /\ tx' = [tx EXCEPT ![c] = x]

LEMMA MoveFacts ==
    ASSUME StoreTypeOK, NEW c \in Conns, NEW l \in Labels, NEW r \in Requests,
           NEW s \in Versions \cup {None}, NEW x \in Staged, Move(c, l, r, s, x)
    PROVE  /\ pc' \in [Conns -> Labels] /\ seen' \in [Conns -> Versions \cup {None}]
           /\ req' \in [Conns -> Requests] /\ tx' \in [Conns -> Staged]
           /\ pc'[c] = l /\ req'[c] = r /\ seen'[c] = s /\ tx'[c] = x
           /\ \A d \in Conns : d # c => /\ pc'[d] = pc[d] /\ req'[d] = req[d]
                                        /\ seen'[d] = seen[d] /\ tx'[d] = tx[d]
    BY DEF Move, StoreTypeOK, TypeOK

(* No lock another transaction holds is taken from it.                     *)
LocksKept(c) ==
    /\ modelLock' \in [Models -> Seq(Conns)]
    /\ sessionLock' \in [Models -> [Sessions -> Seq(Conns)]]
    /\ \A d \in Conns, m \in Models :
          d # c /\ Holds(d, modelLock[m]) => Holds(d, modelLock'[m])

LEMMA IdsGrow ==
    ASSUME NEW n \in Nat, NEW k \in Nat, n <= k
    PROVE  1..(n - 1) \subseteq 1..(k - 1)
<1> SUFFICES ASSUME NEW i \in 1..(n - 1) PROVE i \in 1..(k - 1)
    OBVIOUS
<1> QED OBVIOUS

(* A statement that commits nothing.                                       *)
Quiet(c) ==
    /\ UNCHANGED <<db, commitOrder>>
    /\ nextEventId' \in {nextEventId, nextEventId + 1}
    /\ crashes' \in 0..MaxCrashes
    /\ LocksKept(c)

LEMMA QuietRows ==
    ASSUME UNCHANGED db
    PROVE  /\ \A m : EventsOf(m)' = EventsOf(m)
           /\ \A m, v : ModelRow(m, v)' = ModelRow(m, v)
           /\ \A m, i : SessionRow(m, i)' = SessionRow(m, i)
           /\ \A a : EventRow(a)' = EventRow(a)
           /\ \A m : CurrentChampion(m)' = CurrentChampion(m)
           /\ \A row : ParentKnown(row)' <=> ParentKnown(row)
           /\ \A a : Justified(a)' <=> Justified(a)
<1>1. \A m : EventsOf(m)' = EventsOf(m)
    BY DEF EventsOf
<1>2. \A m : CurrentChampion(m)' = CurrentChampion(m)
    BY DEF CurrentChampion, EventsOf
<1> QED BY <1>1, <1>2 DEF ModelRow, SessionRow, EventRow, ParentKnown, Justified, ActionValid

(* A quiet statement preserves the invariant if what the connection knows  *)
(* afterwards is true and it takes no lock and no key of another.          *)
LEMMA QuietStep ==
    ASSUME StoreInv, NEW c \in Conns, NEW l \in Labels, NEW r \in Requests,
           NEW s \in Versions \cup {None}, NEW x \in Staged,
           Move(c, l, r, s, x), Quiet(c), LocalOK(l, r, s, x)',
           \A m \in Models : Locked(l, r, m) => Holds(c, modelLock'[m]),
           \A d \in Conns : d # c =>
              \A y \in x["models"], z \in tx[d]["models"] :
                 y.model # z.model \/ y.version # z.version
    PROVE  StoreInv'
<1>1. /\ pc' \in [Conns -> Labels] /\ seen' \in [Conns -> Versions \cup {None}]
      /\ req' \in [Conns -> Requests] /\ tx' \in [Conns -> Staged]
      /\ pc'[c] = l /\ req'[c] = r /\ seen'[c] = s /\ tx'[c] = x
      /\ \A d \in Conns : d # c => /\ pc'[d] = pc[d] /\ req'[d] = req[d]
                                   /\ seen'[d] = seen[d] /\ tx'[d] = tx[d]
    BY MoveFacts DEF StoreInv
<1>2. /\ nextEventId \in Nat \ {0} /\ nextEventId' \in Nat \ {0} /\ nextEventId <= nextEventId'
      /\ db' = db
    BY DEF Quiet, StoreInv, StoreTypeOK, TypeOK
<1>3. StoreTypeOK'
    <2>1. db["events"] \subseteq [id : 1..(nextEventId' - 1), approval : Approvals]
        <3>1. db["events"] \subseteq [id : 1..(nextEventId - 1), approval : Approvals]
            BY DEF StoreInv, StoreTypeOK, TypeOK
        <3>2. 1..(nextEventId - 1) \subseteq 1..(nextEventId' - 1)
            BY <1>2, IdsGrow
        <3> QED BY <3>1, <3>2
    <2>2. TypeOK'
        BY <1>1, <1>2, <2>1 DEF StoreInv, StoreTypeOK, TypeOK, Quiet, LocksKept
    <2> QED BY <1>1, <2>2 DEF StoreTypeOK, Quiet, LocksKept
<1>4. RowsOK'
    BY <1>2 DEF StoreInv, RowsOK, AtomicAudit, TheSpent, Latest, EventsOf
<1>5. LockInv'
    <2> SUFFICES ASSUME NEW d \in Conns, NEW m \in Models, Locked(pc'[d], req'[d], m)
                 PROVE  Holds(d, modelLock'[m])
        BY DEF LockInv, Holds, Locked
    <2>1. CASE d = c
        BY <2>1, <1>1
    <2>2. CASE d # c
        BY <2>2, <1>1 DEF StoreInv, LockInv, Quiet, LocksKept
    <2> QED BY <2>1, <2>2
<1>6. KeysApart'
    <2> SUFFICES ASSUME NEW d \in Conns, NEW e \in Conns, d # e,
                        NEW y \in tx'[d]["models"], NEW z \in tx'[e]["models"]
                 PROVE  y.model # z.model \/ y.version # z.version
        BY DEF KeysApart
    <2>1. CASE d = c
        BY <2>1, <1>1
    <2>2. CASE e = c
        BY <2>2, <1>1
    <2>3. CASE d # c /\ e # c
        BY <2>3, <1>1 DEF StoreInv, KeysApart
    <2> QED BY <2>1, <2>2, <2>3
<1>7. ASSUME NEW d \in Conns
      PROVE  LocalOK(pc[d], req[d], seen[d], tx[d])'
    <2>1. CASE d = c
        <3>1. LocalOK(l, r, s, x)'
            OBVIOUS
        <3> QED BY <3>1, <2>1, <1>1 DEF LocalOK, RegisterOK, ActionOK, FreezeOK, Ready,
                    RegisterReady, ActionReady, FreezeReady, Only
    <2>2. CASE d # c
        <3>1. PICK l0, r0, s0, x0 : /\ l0 = pc[d] /\ r0 = req[d] /\ s0 = seen[d] /\ x0 = tx[d]
            OBVIOUS
        <3>2. LocalOK(l0, r0, s0, x0)
            BY <3>1 DEF StoreInv
        <3>3. Standing(l0, r0, x0)
            <4>1. /\ \A m : EventsOf(m)' = EventsOf(m)
                  /\ \A m, v : ModelRow(m, v)' = ModelRow(m, v)
                  /\ \A m, i : SessionRow(m, i)' = SessionRow(m, i)
                BY <1>2, QuietRows
            <4> QED BY <1>2, <4>1 DEF Standing
        <3>4. LocalOK(l0, r0, s0, x0)'
            BY <3>2, <3>3, LocalKept
        <3>5. pc'[d] = l0 /\ req'[d] = r0 /\ seen'[d] = s0 /\ tx'[d] = x0
            BY <2>2, <3>1, <1>1
        <3> QED BY <3>4, <3>5 DEF LocalOK, RegisterOK, ActionOK, FreezeOK, Ready,
                    RegisterReady, ActionReady, FreezeReady, Only
    <2> QED BY <2>1, <2>2
<1> QED BY <1>3, <1>4, <1>5, <1>6, <1>7 DEF StoreInv

-----------------------------------------------------------------------------
(* The ends of a transaction that commits nothing.                         *)

LEMMA EmptyRows ==
    /\ NoRows \in Staged
    /\ \A t \in Tables : NoRows[t] = {}
    /\ NoRows["models"] = {} /\ NoRows["approvals"] = {}
    /\ NoRows["events"] = {} /\ NoRows["freezes"] = {}
    BY DEF NoRows, Tables, Staged

LEMMA IdleFacts ==
    /\ Idle \in Requests /\ "idle" \in Labels
    /\ \A m : ~ Locked("idle", Idle, m)
    /\ LocalOK("idle", Idle, None, NoRows)
    BY DEF Requests, Labels, Locked, LocalOK, RegisterOK, ActionOK, FreezeOK, RegisterLabels,
       ActionLabels, FreezeLabels

LEMMA IdleNext == LocalOK("idle", Idle, None, NoRows)'
    BY DEF LocalOK, RegisterOK, ActionOK, FreezeOK, RegisterLabels, ActionLabels, FreezeLabels,
       NoRows

LEMMA EndIsMove ==
    ASSUME StoreTypeOK, NEW c \in Conns, EndTransaction(c)
    PROVE  Move(c, "idle", Idle, None, NoRows) /\ LocksKept(c)
<1>1. Move(c, "idle", Idle, None, NoRows)
    BY DEF EndTransaction, Move
<1>2. \A m \in Models : modelLock[m] \in Seq(Conns)
    BY DEF StoreTypeOK
<1>3. \A m \in Models : Without(c, modelLock[m]) \in Seq(Conns)
    BY <1>2, WithoutFacts
<1>4. \A m \in Models, i \in Sessions : Without(c, sessionLock[m][i]) \in Seq(Conns)
    <2> TAKE m \in Models, i \in Sessions
    <2>1. sessionLock[m][i] \in Seq(Conns)
        BY DEF StoreTypeOK
    <2> QED BY <2>1, WithoutFacts
<1>5. modelLock' \in [Models -> Seq(Conns)]
    BY <1>3 DEF EndTransaction, ReleaseLocks
<1>6. sessionLock' \in [Models -> [Sessions -> Seq(Conns)]]
    BY <1>4 DEF EndTransaction, ReleaseLocks
<1>7. ASSUME NEW d \in Conns, NEW m \in Models, d # c, Holds(d, modelLock[m])
      PROVE  Holds(d, modelLock'[m])
    <2>1. Holds(d, Without(c, modelLock[m]))
        BY <1>2, <1>7, WithoutFacts
    <2>2. modelLock'[m] = Without(c, modelLock[m])
        BY DEF EndTransaction, ReleaseLocks
    <2> QED BY <2>1, <2>2
<1> QED BY <1>1, <1>5, <1>6, <1>7 DEF LocksKept

(* A transaction that ends without commit: rolled back or cut off.         *)
LEMMA EndInv ==
    ASSUME StoreInv, NEW c \in Conns, EndTransaction(c), UNCHANGED <<db, commitOrder>>,
           nextEventId' \in {nextEventId, nextEventId + 1}, crashes' \in 0..MaxCrashes
    PROVE  StoreInv'
<1>1. Move(c, "idle", Idle, None, NoRows) /\ LocksKept(c)
    BY EndIsMove DEF StoreInv
<1>2. Quiet(c)
    BY <1>1 DEF Quiet
<1>3. \A m \in Models : Locked("idle", Idle, m) => Holds(c, modelLock'[m])
    BY IdleFacts
<1>4. \A d \in Conns : d # c =>
         \A y \in NoRows["models"], z \in tx[d]["models"] :
            y.model # z.model \/ y.version # z.version
    BY EmptyRows
<1> QED BY <1>1, <1>2, <1>3, <1>4, IdleFacts, IdleNext, EmptyRows, QuietStep

LEMMA AbortInv ==
    ASSUME StoreInv, NEW c \in Conns, Abort(c)
    PROVE  StoreInv'
<1>1. /\ EndTransaction(c) /\ UNCHANGED <<db, commitOrder>>
      /\ nextEventId' = nextEventId /\ crashes' \in 0..MaxCrashes
    BY DEF Abort, StoreInv, StoreTypeOK, TypeOK
<1> QED BY <1>1, EndInv

LEMMA CrashInv ==
    ASSUME StoreInv, NEW c \in Conns, Crash(c)
    PROVE  StoreInv'
<1>1. /\ EndTransaction(c) /\ UNCHANGED <<db, commitOrder>>
      /\ nextEventId' = nextEventId /\ crashes' \in 0..MaxCrashes
    BY CrashAssumption DEF Crash, StoreInv, StoreTypeOK, TypeOK
<1> QED BY <1>1, EndInv

(* A statement that reads, or inserts into the transaction, and leaves the *)
(* locks alone.                                                            *)
Goes(c, l, s, x) ==
    /\ Move(c, l, req[c], s, x)
    /\ UNCHANGED <<db, nextEventId, locks, commitOrder, crashes>>

LEMMA GoesInv ==
    ASSUME StoreInv, NEW c \in Conns, NEW l \in Labels, NEW s \in Versions \cup {None},
           NEW x \in Staged, Goes(c, l, s, x),
           \A r : r = req[c] => LocalOK(l, r, s, x)',
           \A m \in Models : Locked(l, req[c], m) => Holds(c, modelLock[m]),
           \A d \in Conns : d # c =>
              \A y \in x["models"], z \in tx[d]["models"] :
                 y.model # z.model \/ y.version # z.version
    PROVE  StoreInv'
<1>1. PICK r : r = req[c]
    OBVIOUS
<1>2. r \in Requests
    BY <1>1 DEF StoreInv, StoreTypeOK
<1>3. Move(c, l, r, s, x)
    BY <1>1 DEF Goes
<1>4. Quiet(c)
    BY DEF Goes, Quiet, LocksKept, locks, StoreInv, StoreTypeOK, TypeOK
<1>5. \A m \in Models : Locked(l, r, m) => Holds(c, modelLock'[m])
    BY <1>1 DEF Goes, locks
<1>6. LocalOK(l, r, s, x)'
    BY <1>1
<1> QED BY <1>2, <1>3, <1>4, <1>5, <1>6, QuietStep

LEMMA GotoGoes ==
    ASSUME StoreInv, NEW c \in Conns, NEW l, NEW s, NEW x, s = seen[c], x = tx[c],
           Goto(c, l), UNCHANGED <<db, nextEventId, locks, req, seen, tx, commitOrder, crashes>>
    PROVE  /\ Goes(c, l, s, x)
           /\ s \in Versions \cup {None} /\ x \in Staged
    BY DEF Goto, Goes, Move, StoreInv, StoreTypeOK, TypeOK

(* Whose lock it is that a request holds.                                  *)
LEMMA LockedModel ==
    ASSUME NEW l, NEW r, NEW m
    PROVE  /\ r \in RegisterCalls => ~ Locked(l, r, m)
           /\ r \in ActionCalls /\ Locked(l, r, m) => m = r.approval.model
           /\ r \in FreezeCalls /\ Locked(l, r, m) => m = r.model
<1>1. /\ r \in RegisterCalls => r.op = "register"
      /\ r \in ActionCalls => r.op = "action"
      /\ r \in FreezeCalls => r.op = "freeze"
    BY DEF RegisterCalls, ActionCalls, FreezeCalls
<1> QED BY <1>1 DEF Locked

-----------------------------------------------------------------------------
(* append_model_version.                                                   *)

LEMMA BeginRegisterInv ==
    ASSUME StoreInv, NEW c \in Conns, NEW row \in Candidates, BeginRegister(c, row)
    PROVE  StoreInv'
<1> DEFINE r == [op |-> "register", row |-> row]
<1>1. r \in RegisterCalls /\ r \in Requests /\ "register.parent" \in Labels
    BY DEF RegisterCalls, Requests, Labels, RegisterLabels
<1>2. PICK s, x : s = seen[c] /\ x = tx[c]
    OBVIOUS
<1>3. s \in Versions \cup {None} /\ x \in Staged
    BY <1>2 DEF StoreInv, StoreTypeOK, TypeOK
<1>4. x = NoRows
    BY <1>2 DEF StoreInv, LocalOK, BeginRegister
<1> HIDE DEF r
<1>5. Move(c, "register.parent", r, s, x)
    BY <1>2 DEF r, Move, BeginRegister, Goto, StoreInv, StoreTypeOK, TypeOK
<1>6. Quiet(c)
    BY DEF BeginRegister, Quiet, LocksKept, locks, StoreInv, StoreTypeOK, TypeOK
<1>7. LocalOK("register.parent", r, s, x)'
    BY <1>1, <1>4 DEF LocalOK, RegisterOK, ActionOK, FreezeOK, RegisterLabels, ActionLabels,
       FreezeLabels, NoRows
<1>8. \A m \in Models : Locked("register.parent", r, m) => Holds(c, modelLock'[m])
    BY <1>1, LockedModel
<1>9. x["models"] = {}
    BY <1>4, EmptyRows
<1> QED BY <1>1, <1>3, <1>5, <1>6, <1>7, <1>8, <1>9, QuietStep

LEMMA RegisterParentInv ==
    ASSUME StoreInv, NEW c \in Conns, RegisterParent(c)
    PROVE  StoreInv'
<1>1. PICK r, s, x : r = req[c] /\ s = seen[c] /\ x = tx[c]
    OBVIOUS
<1>2. r \in RegisterCalls /\ x = NoRows
    BY <1>1 DEF StoreInv, LocalOK, RegisterOK, RegisterLabels, RegisterParent
<1>3. CASE Abort(c)
    BY <1>3, AbortInv
<1>4. CASE /\ ParentKnown(r.row) /\ Goto(c, "register.insert")
           /\ UNCHANGED <<db, nextEventId, locks, req, seen, tx, commitOrder, crashes>>
    <2>1. /\ Goes(c, "register.insert", s, x)
          /\ s \in Versions \cup {None} /\ x \in Staged
        BY <1>1, <1>4, GotoGoes
    <2>2. ParentKnown(r.row)'
        BY <1>4, QuietRows
    <2>3. LocalOK("register.insert", r, s, x)'
        BY <1>2, <2>2 DEF LocalOK, RegisterOK, ActionOK, FreezeOK, RegisterLabels, ActionLabels,
           FreezeLabels, NoRows
    <2>4. \A m \in Models : Locked("register.insert", req[c], m) => Holds(c, modelLock[m])
        BY <1>1, <1>2, LockedModel
    <2>5. x["models"] = {} /\ "register.insert" \in Labels
        BY <1>2, EmptyRows DEF Labels, RegisterLabels
    <2> QED BY <1>1, <2>1, <2>3, <2>4, <2>5, GoesInv
<1> QED BY <1>1, <1>3, <1>4 DEF RegisterParent, ReadStep, ParentKnown

(* One row more in the transaction.                                        *)
With(x, t, row) == [x EXCEPT ![t] = @ \cup {row}]

LEMMA StageFacts ==
    ASSUME NEW x \in Staged, NEW t \in Tables, NEW row,
           row \in Candidates \cup Approvals \cup EventRows \cup FreezeRows
    PROVE  /\ With(x, t, row) \in Staged
           /\ With(x, t, row)[t] = x[t] \cup {row}
           /\ \A u \in Tables : u # t => With(x, t, row)[u] = x[u]
    BY DEF Staged, With

LEMMA RegisterInsertInv ==
    ASSUME StoreInv, NEW c \in Conns, RegisterInsert(c)
    PROVE  StoreInv'
<1>1. PICK r, s, x : r = req[c] /\ s = seen[c] /\ x = tx[c]
    OBVIOUS
<1>2. r \in RegisterCalls /\ r.row \in Candidates /\ x = NoRows /\ ParentKnown(r.row)
    BY <1>1 DEF StoreInv, LocalOK, RegisterOK, RegisterLabels, RegisterInsert, RegisterCalls
<1>3. CASE Abort(c)
    BY <1>3, AbortInv
<1>4. CASE /\ CanInsert(c, "models", r.row) /\ Insert(c, "models", r.row) /\ Goto(c, "commit")
           /\ UNCHANGED <<db, nextEventId, locks, req, seen, commitOrder, crashes>>
    <2>0. s \in Versions \cup {None} /\ x \in Staged
        BY <1>1 DEF StoreInv, StoreTypeOK, TypeOK
    <2>1. ParentKnown(r.row)'
        BY <1>2, <1>4, QuietRows
    <2>2. "commit" \in Labels /\ "models" \in Tables
        BY DEF Labels, Tables
    <2>3. \A m \in Models : Locked("commit", req[c], m) => Holds(c, modelLock[m])
        BY <1>1, <1>2, LockedModel
    <2>4. CASE Existing("models", r.row) = {}
        <3>1. PICK y : y = With(x, "models", r.row)
            OBVIOUS
        <3>2. /\ y \in Staged /\ y["models"] = {r.row}
              /\ \A u \in Tables \ {"models"} : y[u] = {}
            BY <1>2, <2>0, <2>2, <3>1, StageFacts, EmptyRows
        <3>3. Goes(c, "commit", s, y)
            BY <1>1, <1>4, <2>4, <3>1
               DEF Goto, Goes, Move, Insert, With, StoreInv, StoreTypeOK, TypeOK, Staged
        <3>4. ModelRow(r.row.model, r.row.version) = {}
            BY <2>4, KeyFacts DEF Existing, ModelRow
        <3>5. ModelRow(r.row.model, r.row.version)' = {}
            BY <1>4, <3>4, QuietRows
        <3>6. RegisterReady(r, y)'
            BY <1>2, <2>1, <3>2, <3>5 DEF RegisterReady, Only
        <3>7. LocalOK("commit", r, s, y)'
            BY <3>6 DEF LocalOK, RegisterOK, ActionOK, FreezeOK, RegisterLabels, ActionLabels,
               FreezeLabels, Ready
        <3>8. \A d \in Conns : d # c =>
                 \A u \in y["models"], z \in tx[d]["models"] :
                    u.model # z.model \/ u.version # z.version
            BY <1>4, <3>2, KeyFacts DEF CanInsert
        <3> QED BY <1>1, <2>0, <2>2, <2>3, <3>2, <3>3, <3>7, <3>8, GoesInv
    <2>5. CASE Existing("models", r.row) # {}
        <3>1. Goes(c, "commit", s, x)
            BY <1>1, <1>4, <2>5 DEF Goto, Goes, Move, Insert, StoreInv, StoreTypeOK, TypeOK
        <3>2. x["models"] = {} /\ \A u \in Tables \ {"models"} : x[u] = {}
            BY <1>2, EmptyRows
        <3>3. RegisterReady(r, x)'
            BY <1>2, <2>1, <3>2 DEF RegisterReady, Only
        <3>4. LocalOK("commit", r, s, x)'
            BY <3>3 DEF LocalOK, RegisterOK, ActionOK, FreezeOK, RegisterLabels, ActionLabels,
               FreezeLabels, Ready
        <3> QED BY <1>1, <2>0, <2>2, <2>3, <3>1, <3>2, <3>4, GoesInv
    <2> QED BY <2>4, <2>5
<1> QED BY <1>1, <1>3, <1>4 DEF RegisterInsert

-----------------------------------------------------------------------------
(* append_action.                                                          *)

(* The latest event of a model names a version.                            *)
LEMMA ChampionType ==
    ASSUME StoreInv, NEW m \in Models
    PROVE  CurrentChampion(m) \in Versions \cup {None}
<1>1. CASE EventsOf(m) = {}
    BY <1>1 DEF CurrentChampion
<1>2. CASE EventsOf(m) # {}
    <2>1. \E x \in EventsOf(m) : \A y \in EventsOf(m) : y.id <= x.id
        BY <1>2 DEF StoreInv, RowsOK, Latest
    <2>2. PICK x : x = CHOOSE z \in EventsOf(m) : \A y \in EventsOf(m) : y.id <= z.id
        OBVIOUS
    <2>3. x \in EventsOf(m)
        BY <2>1, <2>2
    <2>4. CurrentChampion(m) = x.approval.target
        BY <1>2, <2>2 DEF CurrentChampion
    <2>5. x.approval \in Approvals
        BY <2>3 DEF EventsOf, StoreInv, StoreTypeOK, TypeOK
    <2> QED BY <2>4, <2>5, RecordFacts
<1> QED BY <1>1, <1>2

(* The session asks for the model's lock and waits its turn.               *)
LEMMA JoinQueue ==
    ASSUME StoreInv, NEW c \in Conns, NEW m \in Models,
           modelLock' = [modelLock EXCEPT ![m] = Append(@, c)], UNCHANGED sessionLock
    PROVE  LocksKept(c)
<1>1. \A k \in Models : modelLock[k] \in Seq(Conns)
    BY DEF StoreInv, StoreTypeOK
<1>2. Append(modelLock[m], c) \in Seq(Conns)
    BY <1>1
<1>3. modelLock' \in [Models -> Seq(Conns)]
    BY <1>2 DEF StoreInv, StoreTypeOK
<1>4. ASSUME NEW d \in Conns, NEW k \in Models, Holds(d, modelLock[k])
      PROVE  Holds(d, modelLock'[k])
    <2>1. CASE k = m
        <3>1. Holds(d, Append(modelLock[m], c))
            BY <1>1, <1>4, <2>1, HoldsAppend
        <3>2. modelLock'[k] = Append(modelLock[m], c)
            BY <2>1 DEF StoreInv, StoreTypeOK
        <3> QED BY <3>1, <3>2
    <2>2. CASE k # m
        BY <1>4, <2>2 DEF StoreInv, StoreTypeOK
    <2> QED BY <2>1, <2>2
<1> QED BY <1>3, <1>4 DEF LocksKept, StoreInv, StoreTypeOK

LEMMA BeginActionInv ==
    ASSUME StoreInv, NEW c \in Conns, NEW a \in Approvals, BeginAction(c, a)
    PROVE  StoreInv'
<1> DEFINE r == [op |-> "action", approval |-> a]
<1>1. r \in ActionCalls /\ r \in Requests /\ "action.used" \in Labels
    BY DEF ActionCalls, Requests, Labels, ActionLabels
<1>2. PICK s, x : s = seen[c] /\ x = tx[c]
    OBVIOUS
<1>3. s \in Versions \cup {None} /\ x \in Staged
    BY <1>2 DEF StoreInv, StoreTypeOK, TypeOK
<1>4. x = NoRows
    BY <1>2 DEF StoreInv, LocalOK, BeginAction
<1>5. \A m : ~ Locked("action.used", r, m)
    BY DEF Locked, ActionLabels, FreezeLabels
<1> HIDE DEF r
<1>6. Move(c, "action.used", r, s, x)
    BY <1>2 DEF r, Move, BeginAction, Goto, StoreInv, StoreTypeOK, TypeOK
<1>7. LocksKept(c)
    BY JoinQueue, RecordFacts DEF BeginAction
<1>8. Quiet(c)
    BY <1>7 DEF BeginAction, Quiet, StoreInv, StoreTypeOK, TypeOK
<1>9. LocalOK("action.used", r, s, x)'
    BY <1>1, <1>4 DEF LocalOK, RegisterOK, ActionOK, FreezeOK, RegisterLabels, ActionLabels,
       FreezeLabels, NoRows
<1>10. x["models"] = {}
    BY <1>4, EmptyRows
<1> QED BY <1>1, <1>3, <1>5, <1>6, <1>8, <1>9, <1>10, QuietStep

(* Within the section of an action the lock is already held.               *)
LEMMA ActionLock ==
    ASSUME StoreInv, NEW c \in Conns, NEW r, r = req[c], r \in ActionCalls, NEW l,
           pc[c] \in ActionLabels \ {"action.used"}
    PROVE  \A m \in Models : Locked(l, req[c], m) => Holds(c, modelLock[m])
<1> SUFFICES ASSUME NEW m \in Models, Locked(l, r, m)
             PROVE  Holds(c, modelLock[m])
    OBVIOUS
<1>1. m = r.approval.model
    BY LockedModel
<1>2. Locked(pc[c], req[c], m)
    BY <1>1 DEF Locked
<1> QED BY <1>2 DEF StoreInv, LockInv

LEMMA ActionCheckUsedInv ==
    ASSUME StoreInv, NEW c \in Conns, ActionCheckUsed(c)
    PROVE  StoreInv'
<1>1. PICK r, s, x : r = req[c] /\ s = seen[c] /\ x = tx[c]
    OBVIOUS
<1>2. r \in ActionCalls /\ x = NoRows
    BY <1>1 DEF StoreInv, LocalOK, ActionOK, ActionLabels, ActionCheckUsed
<1>3. CASE Abort(c)
    BY <1>3, AbortInv
<1>4. CASE /\ EventRow(r.approval) = {} /\ Goto(c, "action.champion")
           /\ UNCHANGED <<db, nextEventId, locks, req, seen, tx, commitOrder, crashes>>
    <2>1. /\ Goes(c, "action.champion", s, x)
          /\ s \in Versions \cup {None} /\ x \in Staged
        BY <1>1, <1>4, GotoGoes
    <2>2. EventRow(r.approval)' = {}
        BY <1>4, QuietRows
    <2>3. LocalOK("action.champion", r, s, x)'
        BY <1>2, <2>2 DEF LocalOK, RegisterOK, ActionOK, FreezeOK, RegisterLabels, ActionLabels,
           FreezeLabels, NoRows
    <2>4. \A m \in Models : Locked("action.champion", req[c], m) => Holds(c, modelLock[m])
        BY <1>1, <1>2, LockedModel DEF ActionCheckUsed
    <2>5. x["models"] = {} /\ "action.champion" \in Labels
        BY <1>2, EmptyRows DEF Labels, ActionLabels
    <2> QED BY <1>1, <2>1, <2>3, <2>4, <2>5, GoesInv
<1> QED BY <1>1, <1>3, <1>4 DEF ActionCheckUsed, ReadStep

LEMMA ActionReadChampionInv ==
    ASSUME StoreInv, NEW c \in Conns, ActionReadChampion(c)
    PROVE  StoreInv'
<1>1. PICK r, s, x : r = req[c] /\ s = CurrentChampion(r.approval.model) /\ x = tx[c]
    OBVIOUS
<1>2. /\ r \in ActionCalls /\ x = NoRows /\ EventRow(r.approval) = {}
      /\ r.approval \in Approvals /\ r.approval.model \in Models
    BY <1>1, RecordFacts
       DEF StoreInv, LocalOK, ActionOK, ActionLabels, ActionReadChampion, ActionCalls
<1>3. CASE Abort(c)
    BY <1>3, AbortInv
<1>4. CASE /\ r.approval.source = s /\ seen' = [seen EXCEPT ![c] = s]
           /\ Goto(c, "action.target")
           /\ UNCHANGED <<db, nextEventId, locks, req, tx, commitOrder, crashes>>
    <2>1. s \in Versions \cup {None} /\ x \in Staged
        BY <1>1, <1>2, ChampionType DEF StoreInv, StoreTypeOK
    <2>2. Goes(c, "action.target", s, x)
        BY <1>1, <1>4 DEF Goto, Goes, Move, StoreInv, StoreTypeOK
    <2>3. EventRow(r.approval)' = {} /\ s = CurrentChampion(r.approval.model)'
        BY <1>1, <1>2, <1>4, QuietRows
    <2>4. LocalOK("action.target", r, s, x)'
        BY <1>2, <1>4, <2>3 DEF LocalOK, RegisterOK, ActionOK, FreezeOK, RegisterLabels,
           ActionLabels, FreezeLabels, NoRows
    <2>5. \A m \in Models : Locked("action.target", req[c], m) => Holds(c, modelLock[m])
        BY <1>1, <1>2, ActionLock DEF ActionReadChampion, ActionLabels
    <2>6. x["models"] = {} /\ "action.target" \in Labels
        BY <1>2, EmptyRows DEF Labels, ActionLabels
    <2> QED BY <1>1, <2>1, <2>2, <2>4, <2>5, <2>6, GoesInv
<1> QED BY <1>1, <1>3, <1>4 DEF ActionReadChampion

LEMMA ActionReadTargetInv ==
    ASSUME StoreInv, NEW c \in Conns, ActionReadTarget(c)
    PROVE  StoreInv'
<1>1. PICK r, s, x : r = req[c] /\ s = seen[c] /\ x = tx[c]
    OBVIOUS
<1>2. /\ r \in ActionCalls /\ x = NoRows /\ EventRow(r.approval) = {}
      /\ s = r.approval.source /\ s = CurrentChampion(r.approval.model)
    BY <1>1 DEF StoreInv, LocalOK, ActionOK, ActionLabels, ActionReadTarget
<1>3. CASE Abort(c)
    BY <1>3, AbortInv
<1>4. CASE /\ Justified(r.approval) /\ Goto(c, "action.approval")
           /\ UNCHANGED <<db, nextEventId, locks, req, seen, tx, commitOrder, crashes>>
    <2>1. /\ Goes(c, "action.approval", s, x)
          /\ s \in Versions \cup {None} /\ x \in Staged
        BY <1>1, <1>4, GotoGoes
    <2>2. /\ EventRow(r.approval)' = {} /\ s = CurrentChampion(r.approval.model)'
          /\ Justified(r.approval)'
        BY <1>2, <1>4, QuietRows
    <2>3. LocalOK("action.approval", r, s, x)'
        BY <1>2, <2>2 DEF LocalOK, RegisterOK, ActionOK, FreezeOK, RegisterLabels,
           ActionLabels, FreezeLabels, NoRows
    <2>4. \A m \in Models : Locked("action.approval", req[c], m) => Holds(c, modelLock[m])
        BY <1>1, <1>2, ActionLock DEF ActionReadTarget, ActionLabels
    <2>5. x["models"] = {} /\ "action.approval" \in Labels
        BY <1>2, EmptyRows DEF Labels, ActionLabels
    <2> QED BY <1>1, <2>1, <2>3, <2>4, <2>5, GoesInv
<1>5. Justified(r.approval) <=>
         \E row \in ModelRow(r.approval.model, r.approval.target) :
            ActionValid(r.approval, row, s)
    BY <1>2 DEF Justified
<1> QED BY <1>1, <1>3, <1>4, <1>5 DEF ActionReadTarget, ReadStep

LEMMA ActionInsertApprovalInv ==
    ASSUME StoreInv, NEW c \in Conns, ActionInsertApproval(c)
    PROVE  StoreInv'
<1>1. PICK r, s, x : r = req[c] /\ s = seen[c] /\ x = tx[c]
    OBVIOUS
<1>2. /\ r \in ActionCalls /\ x = NoRows /\ EventRow(r.approval) = {}
      /\ s = r.approval.source /\ s = CurrentChampion(r.approval.model)
      /\ Justified(r.approval) /\ r.approval \in Approvals
    BY <1>1 DEF StoreInv, LocalOK, ActionOK, ActionLabels, ActionInsertApproval, ActionCalls
<1>3. s \in Versions \cup {None} /\ x \in Staged
    BY <1>1 DEF StoreInv, StoreTypeOK, TypeOK
<1>4. Existing("approvals", r.approval) = {}
    <2>1. r.approval \notin db["approvals"]
        BY <1>2 DEF StoreInv, RowsOK, AtomicAudit, TheSpent, EventRow
    <2> QED BY <2>1, KeyFacts DEF Existing
<1>5. PICK y : y = With(x, "approvals", r.approval)
    OBVIOUS
<1>6. /\ y \in Staged /\ y["approvals"] = {r.approval} /\ y["models"] = {}
      /\ \A u \in Tables \ {"approvals"} : y[u] = {}
    <2>1. "approvals" \in Tables /\ "models" \in Tables
        BY DEF Tables
    <2> QED BY <1>2, <1>3, <1>5, <2>1, StageFacts, EmptyRows
<1>7. Goes(c, "action.event", s, y)
    BY <1>1, <1>4, <1>5 DEF ActionInsertApproval, Goto, Goes, Move, Insert, With, locks,
       StoreInv, StoreTypeOK, TypeOK, Staged
<1>8. /\ EventRow(r.approval)' = {} /\ s = CurrentChampion(r.approval.model)'
      /\ Justified(r.approval)'
    BY <1>2, QuietRows DEF ActionInsertApproval
<1>9. LocalOK("action.event", r, s, y)'
    BY <1>2, <1>6, <1>8 DEF LocalOK, RegisterOK, ActionOK, FreezeOK, RegisterLabels,
       ActionLabels, FreezeLabels, Only
<1>10. \A m \in Models : Locked("action.event", req[c], m) => Holds(c, modelLock[m])
    BY <1>1, <1>2, ActionLock DEF ActionInsertApproval, ActionLabels
<1>11. "action.event" \in Labels
    BY DEF Labels, ActionLabels
<1> QED BY <1>1, <1>3, <1>6, <1>7, <1>9, <1>10, <1>11, GoesInv

LEMMA ActionInsertEventInv ==
    ASSUME StoreInv, NEW c \in Conns, ActionInsertEvent(c)
    PROVE  StoreInv'
<1>1. PICK r, s, x, n : r = req[c] /\ s = seen[c] /\ x = tx[c] /\ n = nextEventId
    OBVIOUS
<1>2. /\ r \in ActionCalls /\ EventRow(r.approval) = {}
      /\ s = r.approval.source /\ s = CurrentChampion(r.approval.model)
      /\ Justified(r.approval) /\ r.approval \in Approvals
      /\ x["approvals"] = {r.approval} /\ Only(x, "approvals")
    BY <1>1 DEF StoreInv, LocalOK, ActionOK, ActionLabels, ActionInsertEvent, ActionCalls
<1>3. /\ s \in Versions \cup {None} /\ x \in Staged /\ n \in Nat /\ r \in Requests
      /\ nextEventId' = n + 1 /\ n \in 1..(nextEventId' - 1)
    BY <1>1 DEF StoreInv, StoreTypeOK, TypeOK, ActionInsertEvent
<1> DEFINE row == [id |-> n, approval |-> r.approval]
<1>4. Existing("events", row) = {}
    BY <1>2, KeyFacts DEF Existing, EventRow
<1>5. row \in EventRows
    BY <1>2, <1>3 DEF EventRows
<1> HIDE DEF row
<1>6. PICK y : y = With(x, "events", row)
    OBVIOUS
<1>7. /\ y \in Staged /\ y["events"] = {row} /\ y["approvals"] = {r.approval}
      /\ y["models"] = {} /\ y["freezes"] = {}
    <2>1. /\ "approvals" \in Tables /\ "models" \in Tables /\ "events" \in Tables
          /\ "freezes" \in Tables
        BY DEF Tables
    <2>2. x["events"] = {} /\ x["models"] = {} /\ x["freezes"] = {}
        BY <1>2, <2>1 DEF Only
    <2>3. /\ y \in Staged /\ y["events"] = x["events"] \cup {row}
          /\ \A u \in Tables : u # "events" => y[u] = x[u]
        BY <1>3, <1>5, <1>6, <2>1, StageFacts
    <2> QED BY <1>2, <2>1, <2>2, <2>3
<1>8. Insert(c, "events", row) /\ Goto(c, "commit") /\ UNCHANGED <<locks, req, seen>>
    BY <1>1, <1>4 DEF ActionInsertEvent, row
<1>9. Move(c, "commit", r, s, y)
    BY <1>1, <1>4, <1>6, <1>8 DEF Goto, Move, Insert, With, StoreInv, StoreTypeOK, TypeOK, Staged
<1>10. Quiet(c)
    BY <1>1, <1>3, <1>8 DEF ActionInsertEvent, Quiet, LocksKept, locks, StoreInv, StoreTypeOK,
       TypeOK
<1>11. ActionReady(r, y)'
    <2>1. /\ EventRow(r.approval)' = {} /\ r.approval.source = CurrentChampion(r.approval.model)'
          /\ Justified(r.approval)'
        BY <1>2, QuietRows DEF ActionInsertEvent
    <2>2. NewestFor(n, r.approval.model)
        BY <1>1 DEF NewestFor, EventsOf, StoreInv, StoreTypeOK, TypeOK
    <2>3. NewestFor(n, r.approval.model)'
        BY <2>2 DEF NewestFor, EventsOf, ActionInsertEvent
    <2>4. \E k \in 1..(nextEventId' - 1) :
             /\ y["events"] = {[id |-> k, approval |-> r.approval]}
             /\ NewestFor(k, r.approval.model)'
        BY <1>3, <1>7, <2>3 DEF row
    <2> QED BY <1>2, <1>7, <2>1, <2>4 DEF ActionReady
<1>12. LocalOK("commit", r, s, y)'
    BY <1>11 DEF LocalOK, RegisterOK, ActionOK, FreezeOK, RegisterLabels, ActionLabels,
       FreezeLabels, Ready
<1>13. \A m \in Models : Locked("commit", r, m) => Holds(c, modelLock'[m])
    BY <1>1, <1>2, <1>8, ActionLock DEF ActionInsertEvent, ActionLabels, locks
<1>14. "commit" \in Labels
    BY DEF Labels
<1> QED BY <1>3, <1>7, <1>9, <1>10, <1>12, <1>13, <1>14, QuietStep

-----------------------------------------------------------------------------
(* freeze_session.                                                         *)

LEMMA BeginFreezeInv ==
    ASSUME StoreInv, NEW c \in Conns, NEW m \in Models, NEW i \in Sessions, BeginFreeze(c, m, i)
    PROVE  StoreInv'
<1> DEFINE r == [op |-> "freeze", model |-> m, session |-> i]
<1>1. r \in FreezeCalls /\ r \in Requests /\ "freeze.lockSession" \in Labels
    BY DEF FreezeCalls, Requests, Labels, FreezeLabels
<1>2. PICK s, x : s = seen[c] /\ x = tx[c]
    OBVIOUS
<1>3. s \in Versions \cup {None} /\ x \in Staged
    BY <1>2 DEF StoreInv, StoreTypeOK, TypeOK
<1>4. x = NoRows
    BY <1>2 DEF StoreInv, LocalOK, BeginFreeze
<1>5. \A k : ~ Locked("freeze.lockSession", r, k)
    BY DEF Locked, ActionLabels, FreezeLabels
<1> HIDE DEF r
<1>6. Move(c, "freeze.lockSession", r, s, x)
    BY <1>2 DEF r, Move, BeginFreeze, Goto, StoreInv, StoreTypeOK, TypeOK
<1>7. LocksKept(c)
    BY JoinQueue DEF BeginFreeze
<1>8. Quiet(c)
    BY <1>7 DEF BeginFreeze, Quiet, StoreInv, StoreTypeOK, TypeOK
<1>9. LocalOK("freeze.lockSession", r, s, x)'
    BY <1>1, <1>4 DEF LocalOK, RegisterOK, ActionOK, FreezeOK, RegisterLabels, ActionLabels,
       FreezeLabels, NoRows
<1>10. x["models"] = {}
    BY <1>4, EmptyRows
<1> QED BY <1>1, <1>3, <1>5, <1>6, <1>8, <1>9, <1>10, QuietStep

LEMMA FreezeLock ==
    ASSUME StoreInv, NEW c \in Conns, NEW r, r = req[c], r \in FreezeCalls, NEW l,
           pc[c] \in FreezeLabels \ {"freeze.lockSession"}
    PROVE  \A m \in Models : Locked(l, req[c], m) => Holds(c, modelLock[m])
<1> SUFFICES ASSUME NEW m \in Models, Locked(l, r, m)
             PROVE  Holds(c, modelLock[m])
    OBVIOUS
<1>1. m = r.model
    BY LockedModel
<1>2. Locked(pc[c], req[c], m)
    BY <1>1 DEF Locked
<1> QED BY <1>2 DEF StoreInv, LockInv

LEMMA FreezeLockSessionInv ==
    ASSUME StoreInv, NEW c \in Conns, FreezeLockSession(c)
    PROVE  StoreInv'
<1>1. PICK r, s, x : r = req[c] /\ s = seen[c] /\ x = tx[c]
    OBVIOUS
<1>2. r \in FreezeCalls /\ x = NoRows /\ r.model \in Models /\ r.session \in Sessions
    BY <1>1 DEF StoreInv, LocalOK, FreezeOK, FreezeLabels, FreezeLockSession, FreezeCalls
<1>3. s \in Versions \cup {None} /\ x \in Staged /\ r \in Requests
    BY <1>1 DEF StoreInv, StoreTypeOK, TypeOK
<1>4. Move(c, "freeze.existing", r, s, x)
    BY <1>1 DEF FreezeLockSession, Goto, Move, StoreInv, StoreTypeOK, TypeOK
<1>5. sessionLock' \in [Models -> [Sessions -> Seq(Conns)]]
    <2>1. /\ sessionLock \in [Models -> [Sessions -> Seq(Conns)]]
          /\ sessionLock' = [sessionLock EXCEPT ![r.model][r.session] = Append(@, c)]
        BY <1>1 DEF FreezeLockSession, StoreInv, StoreTypeOK
    <2>2. Append(sessionLock[r.model][r.session], c) \in Seq(Conns)
        BY <1>2, <2>1
    <2> QED BY <1>2, <2>1, <2>2
<1>6. Quiet(c)
    BY <1>5 DEF FreezeLockSession, Quiet, LocksKept, StoreInv, StoreTypeOK, TypeOK
<1>7. LocalOK("freeze.existing", r, s, x)'
    BY <1>2 DEF LocalOK, RegisterOK, ActionOK, FreezeOK, RegisterLabels, ActionLabels,
       FreezeLabels, NoRows
<1>8. \A m \in Models : Locked("freeze.existing", r, m) => Holds(c, modelLock'[m])
    BY <1>1, <1>2, LockedModel DEF FreezeLockSession
<1>9. x["models"] = {} /\ "freeze.existing" \in Labels
    BY <1>2, EmptyRows DEF Labels, FreezeLabels
<1> QED BY <1>3, <1>4, <1>6, <1>7, <1>8, <1>9, QuietStep

LEMMA FreezeReadExistingInv ==
    ASSUME StoreInv, NEW c \in Conns, FreezeReadExisting(c)
    PROVE  StoreInv'
<1>1. PICK r, s, x : r = req[c] /\ s = seen[c] /\ x = tx[c]
    OBVIOUS
<1>2. r \in FreezeCalls /\ x = NoRows
    BY <1>1 DEF StoreInv, LocalOK, FreezeOK, FreezeLabels, FreezeReadExisting
<1>3. PICK l : l = IF SessionRow(r.model, r.session) # {} THEN "commit" ELSE "freeze.champion"
    OBVIOUS
<1>4. /\ Goto(c, l) /\ l \in Labels
      /\ UNCHANGED <<db, nextEventId, locks, req, seen, tx, commitOrder, crashes>>
    BY <1>1, <1>3 DEF FreezeReadExisting, Labels, FreezeLabels
<1>5. Goes(c, l, s, x) /\ s \in Versions \cup {None} /\ x \in Staged
    BY <1>1, <1>4, GotoGoes
<1>6. x["models"] = {} /\ \A u \in Tables : x[u] = {}
    BY <1>2, EmptyRows
<1>7. LocalOK(l, r, s, x)'
    <2>1. CASE SessionRow(r.model, r.session) # {}
        <3>1. l = "commit" /\ "freezes" \in Tables
            BY <1>3, <2>1 DEF Tables
        <3>2. FreezeReady(r, x)'
            BY <1>2, <1>6, <3>1 DEF FreezeReady, Only
        <3> QED BY <3>1, <3>2 DEF LocalOK, RegisterOK, ActionOK, FreezeOK, RegisterLabels,
                    ActionLabels, FreezeLabels, Ready
    <2>2. CASE SessionRow(r.model, r.session) = {}
        <3>1. l = "freeze.champion"
            BY <1>3, <2>2
        <3>2. SessionRow(r.model, r.session)' = {}
            BY <1>4, <2>2, QuietRows
        <3> QED BY <1>2, <3>1, <3>2 DEF LocalOK, RegisterOK, ActionOK, FreezeOK, RegisterLabels,
                    ActionLabels, FreezeLabels, NoRows
    <2> QED BY <2>1, <2>2
<1>8. \A m \in Models : Locked(l, req[c], m) => Holds(c, modelLock[m])
    BY <1>1, <1>2, FreezeLock DEF FreezeReadExisting, FreezeLabels
<1> QED BY <1>1, <1>4, <1>5, <1>6, <1>7, <1>8, GoesInv

LEMMA FreezeReadChampionInv ==
    ASSUME StoreInv, NEW c \in Conns, FreezeReadChampion(c)
    PROVE  StoreInv'
<1>1. PICK r, s, x : r = req[c] /\ s = CurrentChampion(r.model) /\ x = tx[c]
    OBVIOUS
<1>2. /\ r \in FreezeCalls /\ x = NoRows /\ SessionRow(r.model, r.session) = {}
      /\ r.model \in Models
    BY <1>1 DEF StoreInv, LocalOK, FreezeOK, FreezeLabels, FreezeReadChampion, FreezeCalls
<1>3. CASE Abort(c)
    BY <1>3, AbortInv
<1>4. CASE /\ s # None /\ seen' = [seen EXCEPT ![c] = s] /\ Goto(c, "freeze.insert")
           /\ UNCHANGED <<db, nextEventId, locks, req, tx, commitOrder, crashes>>
    <2>1. s \in Versions \cup {None} /\ x \in Staged
        BY <1>1, <1>2, ChampionType DEF StoreInv, StoreTypeOK
    <2>2. Goes(c, "freeze.insert", s, x)
        BY <1>1, <1>4 DEF Goto, Goes, Move, StoreInv, StoreTypeOK
    <2>3. SessionRow(r.model, r.session)' = {} /\ s = CurrentChampion(r.model)'
        BY <1>1, <1>2, <1>4, QuietRows
    <2>4. LocalOK("freeze.insert", r, s, x)'
        BY <1>2, <1>4, <2>3 DEF LocalOK, RegisterOK, ActionOK, FreezeOK, RegisterLabels,
           ActionLabels, FreezeLabels, NoRows
    <2>5. \A m \in Models : Locked("freeze.insert", req[c], m) => Holds(c, modelLock[m])
        BY <1>1, <1>2, FreezeLock DEF FreezeReadChampion, FreezeLabels
    <2>6. x["models"] = {} /\ "freeze.insert" \in Labels
        BY <1>2, EmptyRows DEF Labels, FreezeLabels
    <2> QED BY <1>1, <2>1, <2>2, <2>4, <2>5, <2>6, GoesInv
<1> QED BY <1>1, <1>3, <1>4 DEF FreezeReadChampion

LEMMA FreezeInsertInv ==
    ASSUME StoreInv, NEW c \in Conns, FreezeInsert(c)
    PROVE  StoreInv'
<1>1. PICK r, s, x : r = req[c] /\ s = seen[c] /\ x = tx[c]
    OBVIOUS
<1>2. /\ r \in FreezeCalls /\ x = NoRows /\ SessionRow(r.model, r.session) = {}
      /\ s = CurrentChampion(r.model) /\ s # None
      /\ r.model \in Models /\ r.session \in Sessions
    BY <1>1 DEF StoreInv, LocalOK, FreezeOK, FreezeLabels, FreezeInsert, FreezeCalls
<1>3. s \in Versions \cup {None} /\ x \in Staged
    BY <1>1 DEF StoreInv, StoreTypeOK, TypeOK
<1> DEFINE row == [model |-> r.model, session |-> r.session, version |-> s]
<1>4. row \in FreezeRows
    BY <1>2, <1>3 DEF FreezeRows
<1>5. Existing("freezes", row) = {}
    BY <1>2, KeyFacts DEF Existing, SessionRow
<1>6. Insert(c, "freezes", row)
    BY <1>1 DEF FreezeInsert
<1>7. row = FreezeRow(r, s)
    BY DEF FreezeRow
<1> HIDE DEF row
<1>8. PICK y : y = With(x, "freezes", row)
    OBVIOUS
<1>9. /\ y \in Staged /\ y["freezes"] = {row} /\ y["models"] = {}
      /\ \A u \in Tables \ {"freezes"} : y[u] = {}
    <2>1. "freezes" \in Tables /\ "models" \in Tables
        BY DEF Tables
    <2>2. /\ y \in Staged /\ y["freezes"] = x["freezes"] \cup {row}
          /\ \A u \in Tables : u # "freezes" => y[u] = x[u]
        BY <1>3, <1>4, <1>8, <2>1, StageFacts
    <2> QED BY <1>2, <2>1, <2>2, EmptyRows
<1>10. Goes(c, "commit", s, y)
    BY <1>1, <1>5, <1>6, <1>8 DEF FreezeInsert, Goto, Goes, Move, Insert, With, locks,
       StoreInv, StoreTypeOK, TypeOK, Staged
<1>11. SessionRow(r.model, r.session)' = {} /\ s = CurrentChampion(r.model)'
    BY <1>2, QuietRows DEF FreezeInsert
<1>12. FreezeReady(r, y)'
    BY <1>2, <1>7, <1>9, <1>11 DEF FreezeReady, FreezeRow, Only
<1>13. LocalOK("commit", r, s, y)'
    BY <1>12 DEF LocalOK, RegisterOK, ActionOK, FreezeOK, RegisterLabels, ActionLabels,
       FreezeLabels, Ready
<1>14. \A m \in Models : Locked("commit", req[c], m) => Holds(c, modelLock[m])
    BY <1>1, <1>2, FreezeLock DEF FreezeInsert, FreezeLabels
<1>15. "commit" \in Labels
    BY DEF Labels
<1> QED BY <1>1, <1>3, <1>9, <1>10, <1>13, <1>14, <1>15, GoesInv

-----------------------------------------------------------------------------
(* Commit.                                                                 *)

(* What each table gains.                                                  *)
LEMMA CommitRows ==
    ASSUME StoreInv, NEW c \in Conns, Commit(c), NEW r, NEW x, r = req[c], x = tx[c]
    PROVE  /\ db'["models"] = db["models"] \cup x["models"]
           /\ db'["approvals"] = db["approvals"] \cup x["approvals"]
           /\ db'["events"] = db["events"] \cup x["events"]
           /\ db'["freezes"] = db["freezes"] \cup x["freezes"]
           /\ Ready(r, x)
           /\ commitOrder' = IF x["events"] = {} THEN commitOrder
                             ELSE Append(commitOrder, r.approval)
    BY DEF Commit, Tables, StoreInv, LocalOK

(* A registration inserts its row, which no table has yet, or nothing.     *)
LEMMA RegisterRows ==
    ASSUME NEW r, NEW x, RegisterReady(r, x)
    PROVE  /\ x["approvals"] = {} /\ x["events"] = {} /\ x["freezes"] = {}
           /\ r \in RegisterCalls /\ r.row \in Candidates
           /\ \/ x["models"] = {}
              \/ x["models"] = {r.row} /\ ModelRow(r.row.model, r.row.version) = {}
    BY DEF RegisterReady, Only, Tables, RegisterCalls

(* A champion change inserts its approval and its event.                   *)
LEMMA ActionRows ==
    ASSUME NEW r, NEW x, ActionReady(r, x)
    PROVE  /\ x["models"] = {} /\ x["freezes"] = {} /\ x["approvals"] = {r.approval}
           /\ r \in ActionCalls /\ r.approval \in Approvals
           /\ Locked("commit", r, r.approval.model)
           /\ EventRow(r.approval) = {}
           /\ \E n \in 1..(nextEventId - 1) :
                 /\ x["events"] = {[id |-> n, approval |-> r.approval]}
                 /\ NewestFor(n, r.approval.model)
    BY DEF ActionReady, ActionCalls, Locked

(* A freeze inserts the session's row, or nothing.                         *)
LEMMA FreezeTableRows ==
    ASSUME StoreInv, NEW r, NEW x, FreezeReady(r, x)
    PROVE  /\ x["models"] = {} /\ x["approvals"] = {} /\ x["events"] = {}
           /\ r \in FreezeCalls /\ r.model \in Models /\ r.session \in Sessions
           /\ Locked("commit", r, r.model)
           /\ x["freezes"] \subseteq {y \in FreezeRows : y.model = r.model /\ y.session = r.session}
<1>1. r \in FreezeCalls /\ r.model \in Models /\ r.session \in Sessions
    BY DEF FreezeReady, FreezeCalls
<1>2. x["models"] = {} /\ x["approvals"] = {} /\ x["events"] = {}
    BY DEF FreezeReady, Only, Tables
<1>3. CASE x["freezes"] = {}
    BY <1>1, <1>2, <1>3 DEF Locked
<1>4. CASE /\ x["freezes"] = {FreezeRow(r, CurrentChampion(r.model))}
           /\ CurrentChampion(r.model) # None
    <2>1. PICK v : v = CurrentChampion(r.model)
        OBVIOUS
    <2>2. v \in Versions
        BY <1>1, <1>4, <2>1, ChampionType
    <2>3. /\ FreezeRow(r, v) \in FreezeRows
          /\ FreezeRow(r, v).model = r.model /\ FreezeRow(r, v).session = r.session
        BY <1>1, <2>2 DEF FreezeRow, FreezeRows
    <2> QED BY <1>1, <1>2, <1>4, <2>1, <2>3 DEF Locked
<1> QED BY <1>3, <1>4 DEF FreezeReady

(* The rows of a transaction belong to its request.                        *)
LEMMA ReadyRows ==
    ASSUME StoreInv, NEW r, NEW x, Ready(r, x)
    PROVE  /\ x["models"] \subseteq Candidates /\ x["approvals"] \subseteq Approvals
           /\ x["events"] \subseteq [id : 1..(nextEventId - 1), approval : Approvals]
           /\ x["freezes"] \subseteq FreezeRows
           /\ \A y \in x["models"] : ModelRow(y.model, y.version) = {}
           /\ \A y \in x["models"], z \in x["models"] : y = z
           /\ \A y \in x["events"] :
                 /\ Locked("commit", r, y.approval.model) /\ EventRow(y.approval) = {}
                 /\ NewestFor(y.id, y.approval.model)
           /\ \A y \in x["events"], z \in x["events"] : y = z
           /\ x["approvals"] = {y.approval : y \in x["events"]}
           /\ \A y \in x["freezes"] : Locked("commit", r, y.model)
           /\ x["events"] # {} => r \in ActionCalls /\ r.approval \in Approvals
<1>1. CASE RegisterReady(r, x)
    BY <1>1, RegisterRows
<1>2. CASE ActionReady(r, x)
    <2>1. PICK n \in 1..(nextEventId - 1) :
             /\ x["events"] = {[id |-> n, approval |-> r.approval]}
             /\ NewestFor(n, r.approval.model)
        BY <1>2, ActionRows
    <2> QED BY <1>2, <2>1, ActionRows
<1>3. CASE FreezeReady(r, x)
    BY <1>3, FreezeTableRows
<1> QED BY <1>1, <1>2, <1>3 DEF Ready

LEMMA CommitInv ==
    ASSUME StoreInv, NEW c \in Conns, Commit(c)
    PROVE  StoreInv'
<1>1. PICK r, x : r = req[c] /\ x = tx[c]
    OBVIOUS
<1>2. /\ db'["models"] = db["models"] \cup x["models"]
      /\ db'["approvals"] = db["approvals"] \cup x["approvals"]
      /\ db'["events"] = db["events"] \cup x["events"]
      /\ db'["freezes"] = db["freezes"] \cup x["freezes"]
      /\ Ready(r, x)
      /\ commitOrder' = IF x["events"] = {} THEN commitOrder ELSE Append(commitOrder, r.approval)
    BY <1>1, CommitRows
<1>3. /\ x["models"] \subseteq Candidates /\ x["approvals"] \subseteq Approvals
      /\ x["events"] \subseteq [id : 1..(nextEventId - 1), approval : Approvals]
      /\ x["freezes"] \subseteq FreezeRows
      /\ \A y \in x["models"] : ModelRow(y.model, y.version) = {}
      /\ \A y \in x["models"], z \in x["models"] : y = z
      /\ \A y \in x["events"] :
            /\ Locked("commit", r, y.approval.model) /\ EventRow(y.approval) = {}
            /\ NewestFor(y.id, y.approval.model)
      /\ \A y \in x["events"], z \in x["events"] : y = z
      /\ x["approvals"] = {y.approval : y \in x["events"]}
      /\ \A y \in x["freezes"] : Locked("commit", r, y.model)
      /\ x["events"] # {} => r \in ActionCalls /\ r.approval \in Approvals
    BY <1>2, ReadyRows
<1>4. Move(c, "idle", Idle, None, NoRows) /\ LocksKept(c)
    BY EndIsMove DEF StoreInv, Commit
<1>5. /\ pc' \in [Conns -> Labels] /\ seen' \in [Conns -> Versions \cup {None}]
      /\ req' \in [Conns -> Requests] /\ tx' \in [Conns -> Staged]
      /\ pc'[c] = "idle" /\ req'[c] = Idle /\ seen'[c] = None /\ tx'[c] = NoRows
      /\ \A d \in Conns : d # c => /\ pc'[d] = pc[d] /\ req'[d] = req[d]
                                   /\ seen'[d] = seen[d] /\ tx'[d] = tx[d]
    BY <1>4, IdleFacts, EmptyRows, MoveFacts DEF StoreInv
<1>6. StoreTypeOK'
    <2>1. commitOrder' \in Seq(Approvals)
        BY <1>2, <1>3 DEF StoreInv, StoreTypeOK, TypeOK
    <2>2. TypeOK'
        BY <1>2, <1>3, <1>4, <1>5, <2>1
           DEF StoreInv, StoreTypeOK, TypeOK, LocksKept, Commit, FreezeRows
    <2> QED BY <1>4, <1>5, <2>2 DEF StoreTypeOK, LocksKept
<1>7. RowsOK'
    <2>1. ASSUME NEW y \in db'["models"], NEW z \in db'["models"],
                 y.model = z.model, y.version = z.version
          PROVE  y = z
        BY <1>2, <1>3, <2>1 DEF StoreInv, RowsOK, ModelRow
    <2>2. AtomicAudit'
        <3>1. TheSpent' = TheSpent \cup {y.approval : y \in x["events"]}
            BY <1>2 DEF TheSpent
        <3>2. db'["approvals"] = TheSpent'
            BY <1>2, <1>3, <3>1 DEF StoreInv, RowsOK, AtomicAudit
        <3>3. ASSUME NEW y \in db'["events"], NEW z \in db'["events"], y.approval = z.approval
              PROVE  y = z
            BY <1>2, <1>3, <3>3 DEF StoreInv, RowsOK, AtomicAudit, EventRow
        <3> QED BY <3>2, <3>3 DEF AtomicAudit
    <2>3. ASSUME NEW m \in Models
          PROVE  (EventsOf(m) = {} \/ \E y \in EventsOf(m) : Latest(y, m))'
        <3>1. CASE \E y \in x["events"] : y.approval.model = m
            <4>1. PICK y \in x["events"] : y.approval.model = m
                BY <3>1
            <4>2. y \in EventsOf(m)' /\ y.id \in Nat
                BY <1>2, <1>3, <4>1 DEF EventsOf, StoreInv, StoreTypeOK, TypeOK
            <4>3. ASSUME NEW z \in EventsOf(m)'
                  PROVE  z.id <= y.id
                <5>1. CASE z \in x["events"]
                    BY <1>3, <4>1, <4>2, <5>1
                <5>2. CASE z \in EventsOf(m)
                    <6>1. z.id < y.id /\ z.id \in Nat
                        BY <1>3, <4>1, <5>2 DEF NewestFor, EventsOf, StoreInv, StoreTypeOK, TypeOK
                    <6> QED BY <4>2, <6>1
                <5> QED BY <1>2, <5>1, <5>2 DEF EventsOf
            <4> QED BY <4>2, <4>3 DEF Latest
        <3>2. CASE ~ \E y \in x["events"] : y.approval.model = m
            <4>1. EventsOf(m)' = EventsOf(m)
                BY <1>2, <3>2 DEF EventsOf
            <4> QED BY <4>1 DEF StoreInv, RowsOK, Latest
        <3> QED BY <3>1, <3>2
    <2> QED BY <2>1, <2>2, <2>3 DEF RowsOK
<1>8. LockInv'
    <2> SUFFICES ASSUME NEW d \in Conns, NEW m \in Models, Locked(pc'[d], req'[d], m)
                 PROVE  Holds(d, modelLock'[m])
        BY DEF LockInv, Holds, Locked
    <2>1. CASE d = c
        BY <2>1, <1>5, IdleFacts
    <2>2. CASE d # c
        BY <2>2, <1>4, <1>5 DEF StoreInv, LockInv, LocksKept
    <2> QED BY <2>1, <2>2
<1>9. KeysApart'
    <2> SUFFICES ASSUME NEW d \in Conns, NEW e \in Conns, d # e,
                        NEW y \in tx'[d]["models"], NEW z \in tx'[e]["models"]
                 PROVE  y.model # z.model \/ y.version # z.version
        BY DEF KeysApart
    <2>1. d # c /\ e # c
        BY <1>5, EmptyRows
    <2> QED BY <2>1, <1>5 DEF StoreInv, KeysApart
<1>10. ASSUME NEW d \in Conns
      PROVE  LocalOK(pc[d], req[d], seen[d], tx[d])'
    <2>1. CASE d = c
        BY <2>1, <1>5, IdleNext DEF LocalOK, RegisterOK, ActionOK, FreezeOK, Ready,
           RegisterReady, ActionReady, FreezeReady, Only
    <2>2. CASE d # c
        <3>1. PICK l0, r0, s0, x0 : l0 = pc[d] /\ r0 = req[d] /\ s0 = seen[d] /\ x0 = tx[d]
            OBVIOUS
        <3>2. LocalOK(l0, r0, s0, x0)
            BY <3>1 DEF StoreInv
        <3>3. ASSUME NEW m \in Models, Locked(l0, r0, m)
              PROVE  ~ Locked("commit", r, m)
            BY <1>1, <2>2, <3>1, <3>3, Exclusive DEF Commit
        <3>4. ASSUME NEW m \in Models, Locked(l0, r0, m)
              PROVE  /\ EventsOf(m)' = EventsOf(m)
                     /\ \A i \in Sessions : SessionRow(m, i)' = SessionRow(m, i)
            BY <1>2, <1>3, <3>3, <3>4 DEF EventsOf, SessionRow
        <3>5. ASSUME r0 \in RegisterCalls, x0["models"] = {r0.row},
                     ModelRow(r0.row.model, r0.row.version) = {}
              PROVE  ModelRow(r0.row.model, r0.row.version)' = {}
            <4>1. \A y \in x["models"] : y.model # r0.row.model \/ y.version # r0.row.version
                BY <1>1, <2>2, <3>1, <3>5 DEF StoreInv, KeysApart
            <4> QED BY <1>2, <3>5, <4>1 DEF ModelRow
        <3>6. nextEventId \in Nat /\ nextEventId' = nextEventId
            BY DEF Commit, StoreInv, StoreTypeOK, TypeOK
        <3>7. Standing(l0, r0, x0)
            BY <1>2, <3>4, <3>5, <3>6 DEF Standing
        <3>8. LocalOK(l0, r0, s0, x0)'
            BY <3>2, <3>7, LocalKept
        <3>9. pc'[d] = l0 /\ req'[d] = r0 /\ seen'[d] = s0 /\ tx'[d] = x0
            BY <2>2, <3>1, <1>5
        <3> QED BY <3>8, <3>9 DEF LocalOK, RegisterOK, ActionOK, FreezeOK, Ready,
                    RegisterReady, ActionReady, FreezeReady, Only
    <2> QED BY <2>1, <2>2
<1> QED BY <1>6, <1>7, <1>8, <1>9, <1>10 DEF StoreInv

-----------------------------------------------------------------------------
(* The invariant of the store.                                             *)

LEMMA StoreInit == Init => StoreInv
<1> SUFFICES ASSUME Init PROVE StoreInv
    OBVIOUS
<1>1. /\ db["models"] = {} /\ db["approvals"] = {} /\ db["events"] = {} /\ db["freezes"] = {}
    BY EmptyRows DEF Init
<1>2. \A m : EventsOf(m) = {}
    BY <1>1 DEF EventsOf
<1>3. /\ pc \in [Conns -> Labels] /\ req \in [Conns -> Requests] /\ tx \in [Conns -> Staged]
      /\ \A c \in Conns : pc[c] = "idle" /\ req[c] = Idle /\ seen[c] = None /\ tx[c] = NoRows
    BY EmptyRows, IdleFacts DEF Init
<1>4. StoreTypeOK
    BY <1>1, <1>3, CrashAssumption DEF Init, StoreTypeOK, TypeOK
<1>5. RowsOK
    BY <1>1, <1>2 DEF RowsOK, AtomicAudit, TheSpent
<1>6. LockInv
    BY <1>3, IdleFacts DEF LockInv
<1>7. KeysApart
    BY <1>3, EmptyRows DEF KeysApart
<1>8. \A c \in Conns : LocalOK(pc[c], req[c], seen[c], tx[c])
    BY <1>3, IdleFacts
<1> QED BY <1>4, <1>5, <1>6, <1>7, <1>8 DEF StoreInv

LEMMA StoreStutter ==
    ASSUME StoreInv, UNCHANGED vars
    PROVE  StoreInv'
<1>1. /\ db' = db /\ nextEventId' = nextEventId /\ modelLock' = modelLock
      /\ sessionLock' = sessionLock /\ pc' = pc /\ req' = req /\ seen' = seen /\ tx' = tx
      /\ commitOrder' = commitOrder /\ crashes' = crashes
    BY DEF vars
<1>2. StoreTypeOK'
    BY <1>1 DEF StoreInv, StoreTypeOK, TypeOK
<1>3. RowsOK'
    BY <1>1 DEF StoreInv, RowsOK, AtomicAudit, TheSpent, Latest, EventsOf
<1>4. LockInv' /\ KeysApart'
    BY <1>1 DEF StoreInv, LockInv, KeysApart, Holds, Locked
<1>5. ASSUME NEW d \in Conns
      PROVE  LocalOK(pc[d], req[d], seen[d], tx[d])'
    <2>1. PICK l0, r0, s0, x0 : l0 = pc[d] /\ r0 = req[d] /\ s0 = seen[d] /\ x0 = tx[d]
        OBVIOUS
    <2>2. LocalOK(l0, r0, s0, x0)
        BY <2>1 DEF StoreInv
    <2>3. /\ \A m : EventsOf(m)' = EventsOf(m)
          /\ \A m, v : ModelRow(m, v)' = ModelRow(m, v)
          /\ \A m, i : SessionRow(m, i)' = SessionRow(m, i)
        BY <1>1, QuietRows
    <2>4. Standing(l0, r0, x0)
        BY <1>1, <2>3 DEF Standing, StoreInv, StoreTypeOK, TypeOK
    <2>5. LocalOK(l0, r0, s0, x0)'
        BY <2>2, <2>4, LocalKept
    <2>6. pc'[d] = l0 /\ req'[d] = r0 /\ seen'[d] = s0 /\ tx'[d] = x0
        BY <1>1, <2>1
    <2> QED BY <2>5, <2>6 DEF LocalOK, RegisterOK, ActionOK, FreezeOK, Ready,
                RegisterReady, ActionReady, FreezeReady, Only
<1> QED BY <1>2, <1>3, <1>4, <1>5 DEF StoreInv

LEMMA StoreStep == StoreInv /\ [Next]_vars => StoreInv'
<1> SUFFICES ASSUME StoreInv, [Next]_vars PROVE StoreInv'
    OBVIOUS
<1>1. CASE UNCHANGED vars
    BY <1>1, StoreStutter
<1>2. ASSUME NEW c \in Conns, Begin(c) PROVE StoreInv'
    BY <1>2, BeginRegisterInv, BeginActionInv, BeginFreezeInv DEF Begin
<1>3. ASSUME NEW c \in Conns, Statement(c) PROVE StoreInv'
    BY <1>3, RegisterParentInv, RegisterInsertInv, ActionCheckUsedInv, ActionReadChampionInv,
       ActionReadTargetInv, ActionInsertApprovalInv, ActionInsertEventInv, FreezeLockSessionInv,
       FreezeReadExistingInv, FreezeReadChampionInv, FreezeInsertInv, CommitInv DEF Statement
<1>4. ASSUME NEW c \in Conns, Crash(c) PROVE StoreInv'
    BY <1>4, CrashInv
<1> QED BY <1>1, <1>2, <1>3, <1>4 DEF Next

(* StoreInvariance: StoreInv holds in every reachable state of the store.  *)
THEOREM StoreInvariance == Spec => []StoreInv
<1> QED BY StoreInit, StoreStep, PTL DEF Spec

(* StoreTypesHold: rows, locks and requests keep their types; a committed  *)
(* event has an identity that was drawn.                                   *)
THEOREM StoreTypesHold == Spec => []TypeOK
<1>1. StoreInv => TypeOK
    BY DEF StoreInv, StoreTypeOK
<1> QED BY <1>1, StoreInvariance, PTL

(* ApprovalsCommitWithEvents: "Approval and event writes commit            *)
(* atomically" (docs/operations/production-persistence.md), for any number *)
(* of processes and whatever connections fail.                             *)
THEOREM ApprovalsCommitWithEvents == Spec => []AtomicAudit
<1>1. StoreInv => AtomicAudit
    BY DEF StoreInv, RowsOK
<1> QED BY <1>1, StoreInvariance, PTL

-----------------------------------------------------------------------------
(* The store implements the registry.                                      *)

(* Only a commit changes committed rows.                                   *)
LEMMA OnlyCommits ==
    ASSUME NEW c \in Conns, Begin(c) \/ Statement(c) \/ Crash(c), ~ Commit(c)
    PROVE  UNCHANGED <<db, commitOrder>>
    BY DEF Begin, BeginRegister, BeginAction, BeginFreeze, Statement, RegisterParent,
       RegisterInsert, ActionCheckUsed, ActionReadChampion, ActionReadTarget,
       ActionInsertApproval, ActionInsertEvent, FreezeLockSession, FreezeReadExisting,
       FreezeReadChampion, FreezeInsert, Crash, ReadStep, Abort

(* The registry's state is a function of the committed rows.               *)
LEMMA SameRegistry ==
    ASSUME db'["models"] = db["models"], db'["events"] = db["events"],
           db'["freezes"] = db["freezes"], commitOrder' = commitOrder
    PROVE  UNCHANGED Contract!vars
<1>1. TheVersions' = TheVersions
    BY DEF TheVersions, ModelRow
<1>2. TheChampions' = TheChampions
    BY DEF TheChampions, CurrentChampion, EventsOf
<1>3. TheFreezes' = TheFreezes
    BY DEF TheFreezes, SessionRow
<1>4. TheSpent' = TheSpent
    BY DEF TheSpent
<1> QED BY <1>1, <1>2, <1>3, <1>4 DEF Contract!vars

(* A registered version is the one row with its key.                       *)
LEMMA TheVersion ==
    ASSUME StoreInv, NEW m \in Models, NEW v \in Versions
    PROVE  /\ ModelRow(m, v) = {} => TheVersions[m][v] = None
           /\ \A row \in ModelRow(m, v) : TheVersions[m][v] = row /\ row # None
<1>1. TheVersions[m][v] = IF ModelRow(m, v) = {} THEN None ELSE CHOOSE x \in ModelRow(m, v) : TRUE
    BY DEF TheVersions
<1>2. ASSUME NEW row \in ModelRow(m, v)
      PROVE  TheVersions[m][v] = row /\ row # None
    <2>1. ModelRow(m, v) = {row}
        BY <1>2 DEF ModelRow, StoreInv, RowsOK
    <2>2. row \in Candidates
        BY <1>2 DEF ModelRow, StoreInv, StoreTypeOK, TypeOK
    <2> QED BY <1>1, <2>1, <2>2, RecordFacts
<1> QED BY <1>1, <1>2

LEMMA MapsInit == Init => Contract!Init
<1> SUFFICES ASSUME Init PROVE Contract!Init
    OBVIOUS
<1>1. db["models"] = {} /\ db["events"] = {} /\ db["freezes"] = {}
    BY EmptyRows DEF Init
<1>2. TheVersions = [m \in Models |-> [v \in Versions |-> None]]
    BY <1>1 DEF TheVersions, ModelRow
<1>3. TheChampions = [m \in Models |-> None]
    BY <1>1 DEF TheChampions, CurrentChampion, EventsOf
<1>4. TheFreezes = [m \in Models |-> [i \in Sessions |-> None]]
    BY <1>1 DEF TheFreezes, SessionRow
<1>5. TheSpent = {}
    BY <1>1 DEF TheSpent
<1> QED BY <1>2, <1>3, <1>4, <1>5 DEF Contract!Init, Init

(* The commit of a registration is register_challenger, or nothing.        *)
LEMMA MapsRegister ==
    ASSUME StoreInv, NEW c \in Conns, Commit(c), NEW r, NEW x, r = req[c], x = tx[c],
           RegisterReady(r, x)
    PROVE  Contract!Next \/ UNCHANGED Contract!vars
<1>1. /\ db'["models"] = db["models"] \cup x["models"]
      /\ db'["events"] = db["events"] \cup x["events"]
      /\ db'["freezes"] = db["freezes"] \cup x["freezes"]
      /\ commitOrder' = IF x["events"] = {} THEN commitOrder ELSE Append(commitOrder, r.approval)
    BY CommitRows
<1>2. /\ x["events"] = {} /\ x["freezes"] = {} /\ r.row \in Candidates /\ ParentKnown(r.row)
      /\ \/ x["models"] = {}
         \/ x["models"] = {r.row} /\ ModelRow(r.row.model, r.row.version) = {}
    BY RegisterRows DEF RegisterReady
<1>3. CASE x["models"] = {}
    BY <1>1, <1>2, <1>3, SameRegistry
<1>4. CASE x["models"] = {r.row} /\ ModelRow(r.row.model, r.row.version) = {}
    <2>1. PICK row, m, v : row = r.row /\ m = row.model /\ v = row.version
        OBVIOUS
    <2>2. /\ m \in Models /\ v \in Versions /\ row # None /\ row \in Candidates
          /\ row.parent \in Versions \cup {None}
        BY <1>2, <2>1, RecordFacts
    <2>3. Contract!MayRegister(row)
        <3>1. TheVersions[m][v] = None
            BY <1>4, <2>1, <2>2, TheVersion
        <3>2. ASSUME row.parent # None
              PROVE  TheVersions[m][row.parent] # None
            BY <1>2, <2>1, <2>2, <3>2, TheVersion DEF ParentKnown
        <3> QED BY <2>1, <3>1, <3>2 DEF Contract!MayRegister
    <2>4. ASSUME NEW k \in Models, NEW w \in Versions
          PROVE  ModelRow(k, w)' = IF k = m /\ w = v THEN {row} ELSE ModelRow(k, w)
        BY <1>1, <1>4, <2>1 DEF ModelRow
    <2>5. TheVersions' = [TheVersions EXCEPT ![m][v] = row]
        <3>1. ASSUME NEW k \in Models, NEW w \in Versions
              PROVE  TheVersions'[k][w] = IF k = m /\ w = v THEN row ELSE TheVersions[k][w]
            <4>1. /\ TheVersions'[k][w] = IF ModelRow(k, w)' = {} THEN None
                                           ELSE CHOOSE y \in ModelRow(k, w)' : TRUE
                  /\ TheVersions[k][w] = IF ModelRow(k, w) = {} THEN None
                                          ELSE CHOOSE y \in ModelRow(k, w) : TRUE
                BY DEF TheVersions
            <4>2. CASE k = m /\ w = v
                <5>1. ModelRow(k, w)' = {row}
                    BY <2>4, <4>2
                <5> QED BY <4>1, <4>2, <5>1
            <4>3. CASE ~ (k = m /\ w = v)
                <5>1. ModelRow(k, w)' = ModelRow(k, w)
                    BY <2>4, <4>3
                <5> QED BY <4>1, <4>3, <5>1
            <4> QED BY <4>2, <4>3
        <3>2. /\ TheVersions = [k \in Models |-> [w \in Versions |-> TheVersions[k][w]]]
              /\ TheVersions' = [k \in Models |-> [w \in Versions |-> TheVersions'[k][w]]]
            BY DEF TheVersions
        <3> HIDE DEF TheVersions
        <3> QED BY <2>2, <3>1, <3>2
    <2>6. TheChampions' = TheChampions
        BY <1>1, <1>2 DEF TheChampions, CurrentChampion, EventsOf
    <2>7. TheFreezes' = TheFreezes
        BY <1>1, <1>2 DEF TheFreezes, SessionRow
    <2>8. TheSpent' = TheSpent /\ commitOrder' = commitOrder
        BY <1>1, <1>2 DEF TheSpent
    <2>9. Contract!RegisterChallenger(row)
        BY <2>1, <2>3, <2>5, <2>6, <2>7, <2>8 DEF Contract!RegisterChallenger
    <2> QED BY <2>2, <2>9 DEF Contract!Next
<1> QED BY <1>2, <1>3, <1>4

(* The commit of a freeze is freeze_session, or nothing.                   *)
LEMMA MapsFreeze ==
    ASSUME StoreInv, NEW c \in Conns, Commit(c), NEW r, NEW x, r = req[c], x = tx[c],
           FreezeReady(r, x)
    PROVE  Contract!Next \/ UNCHANGED Contract!vars
<1>1. /\ db'["models"] = db["models"] \cup x["models"]
      /\ db'["events"] = db["events"] \cup x["events"]
      /\ db'["freezes"] = db["freezes"] \cup x["freezes"]
      /\ commitOrder' = IF x["events"] = {} THEN commitOrder ELSE Append(commitOrder, r.approval)
    BY CommitRows
<1>2. x["models"] = {} /\ x["events"] = {} /\ r.model \in Models /\ r.session \in Sessions
    BY FreezeTableRows
<1>3. CASE x["freezes"] = {}
    BY <1>1, <1>2, <1>3, SameRegistry
<1>4. CASE /\ x["freezes"] = {FreezeRow(r, CurrentChampion(r.model))}
           /\ CurrentChampion(r.model) # None
           /\ SessionRow(r.model, r.session) = {}
    <2>1. PICK m, i, v, row : /\ m = r.model /\ i = r.session /\ v = CurrentChampion(m)
                              /\ row = FreezeRow(r, v)
        OBVIOUS
    <2>2. /\ m \in Models /\ i \in Sessions /\ v # None /\ x["freezes"] = {row}
          /\ SessionRow(m, i) = {}
        BY <1>2, <1>4, <2>1
    <2>3. row.model = m /\ row.session = i /\ row.version = v
        BY <2>1 DEF FreezeRow
    <2>4. TheChampions[m] = v
        BY <2>1, <2>2 DEF TheChampions
    <2>5. ASSUME NEW k \in Models, NEW j \in Sessions
          PROVE  SessionRow(k, j)' = IF k = m /\ j = i THEN {row} ELSE SessionRow(k, j)
        BY <1>1, <2>2, <2>3 DEF SessionRow
    <2>6. TheFreezes[m][i] = None
        BY <2>2 DEF TheFreezes
    <2>7. TheFreezes' = [TheFreezes EXCEPT ![m][i] = v]
        <3>1. ASSUME NEW k \in Models, NEW j \in Sessions
              PROVE  TheFreezes'[k][j] = IF k = m /\ j = i THEN v ELSE TheFreezes[k][j]
            <4>1. /\ TheFreezes'[k][j] = IF SessionRow(k, j)' = {} THEN None
                                          ELSE (CHOOSE y \in SessionRow(k, j)' : TRUE).version
                  /\ TheFreezes[k][j] = IF SessionRow(k, j) = {} THEN None
                                         ELSE (CHOOSE y \in SessionRow(k, j) : TRUE).version
                BY DEF TheFreezes
            <4>2. CASE k = m /\ j = i
                <5>1. SessionRow(k, j)' = {row}
                    BY <2>5, <4>2
                <5> QED BY <2>3, <4>1, <4>2, <5>1
            <4>3. CASE ~ (k = m /\ j = i)
                <5>1. SessionRow(k, j)' = SessionRow(k, j)
                    BY <2>5, <4>3
                <5> QED BY <4>1, <4>3, <5>1
            <4> QED BY <4>2, <4>3
        <3>2. /\ TheFreezes = [k \in Models |-> [j \in Sessions |-> TheFreezes[k][j]]]
              /\ TheFreezes' = [k \in Models |-> [j \in Sessions |-> TheFreezes'[k][j]]]
            BY DEF TheFreezes
        <3> HIDE DEF TheFreezes
        <3> QED BY <2>2, <3>1, <3>2
    <2>8. TheChampions' = TheChampions
        BY <1>1, <1>2 DEF TheChampions, CurrentChampion, EventsOf
    <2>9. TheVersions' = TheVersions
        BY <1>1, <1>2 DEF TheVersions, ModelRow
    <2>10. TheSpent' = TheSpent /\ commitOrder' = commitOrder
        BY <1>1, <1>2 DEF TheSpent
    <2>11. [TheFreezes EXCEPT ![m][i] = v] =
           [TheFreezes EXCEPT ![m][i] = IF @ = None THEN TheChampions[m] ELSE @]
        BY <2>2, <2>4, <2>6 DEF TheFreezes
    <2>12. Contract!FreezeSession(m, i)
        BY <2>2, <2>4, <2>7, <2>8, <2>9, <2>10, <2>11 DEF Contract!FreezeSession
    <2> QED BY <2>2, <2>12 DEF Contract!Next
<1> QED BY <1>3, <1>4 DEF FreezeReady

(* The commit of an action is promote or rollback.                         *)
LEMMA MapsAction ==
    ASSUME StoreInv, NEW c \in Conns, Commit(c), NEW r, NEW x, r = req[c], x = tx[c],
           ActionReady(r, x)
    PROVE  Contract!Next
<1>1. /\ db'["models"] = db["models"] \cup x["models"]
      /\ db'["events"] = db["events"] \cup x["events"]
      /\ db'["freezes"] = db["freezes"] \cup x["freezes"]
      /\ commitOrder' = IF x["events"] = {} THEN commitOrder ELSE Append(commitOrder, r.approval)
    BY CommitRows
<1>2. PICK a, m, v : a = r.approval /\ m = a.model /\ v = a.target
    OBVIOUS
<1>3. /\ x["models"] = {} /\ x["freezes"] = {} /\ a \in Approvals /\ EventRow(a) = {}
      /\ m \in Models /\ v \in Versions
    BY <1>2, ActionRows, RecordFacts
<1>4. PICK n \in 1..(nextEventId - 1) :
         x["events"] = {[id |-> n, approval |-> a]} /\ NewestFor(n, m)
    BY <1>2, ActionRows
<1>5. PICK new : new = [id |-> n, approval |-> a]
    OBVIOUS
<1>6. new.id = n /\ new.approval = a /\ n \in Nat /\ x["events"] = {new}
    BY <1>4, <1>5
<1>7. PICK row \in ModelRow(m, v) : ActionValid(a, row, a.source)
    BY <1>2 DEF ActionReady, Justified
<1>8. TheVersions[m][v] = row /\ row # None /\ row.version = v
    BY <1>3, <1>7, TheVersion DEF ModelRow
<1>9. TheChampions[m] = a.source
    BY <1>2, <1>3 DEF TheChampions, ActionReady
<1>10. a \notin TheSpent
    BY <1>3 DEF TheSpent, EventRow
<1>11. CurrentChampion(m)' = v
    <2>1. EventsOf(m)' = EventsOf(m) \cup {new}
        BY <1>1, <1>2, <1>6 DEF EventsOf
    <2>2. \A y \in EventsOf(m) : y.id \in Nat /\ y.id < n
        BY <1>4 DEF NewestFor, EventsOf, StoreInv, StoreTypeOK, TypeOK
    <2>3. \A y \in EventsOf(m)' : y.id <= new.id
        BY <1>6, <2>1, <2>2
    <2>4. ASSUME NEW y \in EventsOf(m)', \A z \in EventsOf(m)' : z.id <= y.id
          PROVE  y = new
        BY <1>6, <2>1, <2>2, <2>4
    <2>5. (CHOOSE y \in EventsOf(m)' : \A z \in EventsOf(m)' : z.id <= y.id) = new
        BY <2>1, <2>3, <2>4
    <2> QED BY <1>2, <1>6, <2>1, <2>5 DEF CurrentChampion
<1>12. ASSUME NEW k \in Models, k # m
       PROVE  CurrentChampion(k)' = CurrentChampion(k)
    <2>1. EventsOf(k)' = EventsOf(k)
        BY <1>1, <1>2, <1>6, <1>12 DEF EventsOf
    <2> QED BY <2>1 DEF CurrentChampion
<1>13. TheChampions' = [TheChampions EXCEPT ![m] = v]
    <2>1. \A k \in Models : TheChampions'[k] = IF k = m THEN v ELSE TheChampions[k]
        BY <1>11, <1>12 DEF TheChampions
    <2>2. /\ TheChampions = [k \in Models |-> TheChampions[k]]
          /\ TheChampions' = [k \in Models |-> TheChampions'[k]]
        BY DEF TheChampions
    <2> HIDE DEF TheChampions
    <2> QED BY <1>3, <2>1, <2>2
<1>14. TheSpent' = TheSpent \cup {a} /\ commitOrder' = Append(commitOrder, a)
    BY <1>1, <1>2, <1>6 DEF TheSpent
<1>15. TheVersions' = TheVersions
    BY <1>1, <1>3 DEF TheVersions, ModelRow
<1>16. TheFreezes' = TheFreezes
    BY <1>1, <1>3 DEF TheFreezes, SessionRow
<1>17. CASE a.action = "PROMOTE"
    <2>1. Contract!Promotable(row, a, a.source)
        BY <1>7, <1>17 DEF ActionValid, Contract!Promotable
    <2>2. Contract!Promote(m, v, a)
        BY <1>2, <1>8, <1>9, <1>10, <1>13, <1>14, <1>15, <1>16, <1>17, <2>1
           DEF Contract!Promote, Contract!ApprovalValid, Contract!Matches, Contract!Record
    <2> QED BY <1>3, <2>2 DEF Contract!Next
<1>18. CASE a.action = "ROLLBACK"
    <2>1. v # a.source
        BY <1>7, <1>8, <1>18 DEF ActionValid
    <2>2. Contract!Rollback(m, v, a)
        BY <1>2, <1>8, <1>9, <1>10, <1>13, <1>14, <1>15, <1>16, <1>18, <2>1
           DEF Contract!Rollback, Contract!ApprovalValid, Contract!Matches, Contract!Record
    <2> QED BY <1>3, <2>2 DEF Contract!Next
<1>19. a.action \in {"PROMOTE", "ROLLBACK"}
    BY <1>3, RecordsAssumption DEF Contract!GovernanceApproval
<1> QED BY <1>17, <1>18, <1>19

(* Every step of the store is a step of the registry or leaves it as it is.*)
LEMMA MapsStep == StoreInv /\ [Next]_vars => [Contract!Next]_(Contract!vars)
<1> SUFFICES ASSUME StoreInv, [Next]_vars
             PROVE  Contract!Next \/ UNCHANGED Contract!vars
    OBVIOUS
<1>1. CASE UNCHANGED <<db, commitOrder>>
    BY <1>1, SameRegistry
<1>2. ASSUME NEW c \in Conns, Commit(c)
      PROVE  Contract!Next \/ UNCHANGED Contract!vars
    <2>1. PICK r, x : r = req[c] /\ x = tx[c]
        OBVIOUS
    <2>2. Ready(r, x)
        BY <1>2, <2>1, CommitRows
    <2> QED BY <1>2, <2>1, <2>2, MapsRegister, MapsAction, MapsFreeze DEF Ready
<1>3. ASSUME NEW c \in Conns, Begin(c) \/ Statement(c) \/ Crash(c), ~ Commit(c)
      PROVE  UNCHANGED <<db, commitOrder>>
    BY <1>3, OnlyCommits
<1> QED BY <1>1, <1>2, <1>3 DEF Next, vars

(* StoreImplementsRegistry: the committed tables of the PostgreSQL store   *)
(* change only as FrozenChampionRegistry's atomic calls would change its   *)
(* dictionaries (with rollback allowed to install the first champion),     *)
(* whatever the transactions of any number of processes interleave and     *)
(* wherever connections are lost (postgres_governance_store.py).           *)
THEOREM StoreImplementsRegistry == Spec => ImplementsRegistry
<1>1. Init => Contract!Init
    BY MapsInit
<1>2. StoreInv /\ [Next]_vars => [Contract!Next]_(Contract!vars)
    BY MapsStep
<1> QED BY <1>1, <1>2, StoreInvariance, PTL DEF Spec, ImplementsRegistry, Contract!Spec

(* EventIdsInCommitOrder: a newly committed event has a larger identity    *)
(* than every event of its model committed before, so that ORDER BY        *)
(* event_id DESC finds the last change although identities are drawn       *)
(* before the commit and not given back by a rollback.                     *)
THEOREM EventIdsInCommitOrder == Spec => EventIdsFollowCommits
<1>1. ASSUME StoreInv, [Next]_vars
      PROVE  [ \A x \in db'["events"] \ db["events"] :
                 \A y \in db["events"] :
                    y.approval.model = x.approval.model => y.id < x.id ]_vars
    <2>1. CASE UNCHANGED <<db, commitOrder>>
        BY <2>1
    <2>2. ASSUME NEW c \in Conns, Commit(c), NEW x \in db'["events"] \ db["events"],
                 NEW y \in db["events"], y.approval.model = x.approval.model
          PROVE  y.id < x.id
        <3>1. PICK r, z : r = req[c] /\ z = tx[c]
            OBVIOUS
        <3>2. db'["events"] = db["events"] \cup z["events"] /\ Ready(r, z)
            BY <1>1, <2>2, <3>1, CommitRows
        <3>3. \A u \in z["events"] : NewestFor(u.id, u.approval.model)
            BY <1>1, <3>2, ReadyRows
        <3>4. NewestFor(x.id, x.approval.model)
            BY <2>2, <3>2, <3>3
        <3> QED BY <2>2, <3>4 DEF NewestFor, EventsOf
    <2>3. ASSUME NEW c \in Conns, Begin(c) \/ Statement(c) \/ Crash(c), ~ Commit(c)
          PROVE  UNCHANGED <<db, commitOrder>>
        BY <2>3, OnlyCommits
    <2> QED BY <1>1, <2>1, <2>2, <2>3 DEF Next, vars
<1> QED BY <1>1, StoreInvariance, PTL DEF Spec, EventIdsFollowCommits

=============================================================================
