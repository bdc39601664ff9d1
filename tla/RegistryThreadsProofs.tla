------------------------ MODULE RegistryThreadsProofs ------------------------
(***************************************************************************)
(* TLAPS proofs about the in-process registry, for every set of models,    *)
(* versions, sessions, candidates and approvals.  The first part is about  *)
(* ChampionRegistry, the contract in which every call is one step, for     *)
(* both values of BootstrapRollback and so for the contract of either      *)
(* backend.  The second is about RegistryThreads: what the unlocked        *)
(* registry keeps when any number of request threads interleave in any     *)
(* number of calls.                                                        *)
(***************************************************************************)
EXTENDS RegistryThreads, FiniteSetTheorems, TLAPS

-----------------------------------------------------------------------------
(* The contract.                                                           *)

(* RegistryInv is the inductive invariant.  ChampionRegistered (every      *)
(* champion is a registered version) is the strengthening: it is what lets *)
(* FrozenWasChampion survive a freeze.                                     *)
ChampionRegistered ==
    \A m \in Models : champions[m] # None => versions[m][champions[m]] # None

RegistryInv ==
    /\ TypeOK
    /\ ChampionRegistered
    /\ ChampionFollowsAudit
    /\ AuditChain
    /\ ApprovalSpentOnce
    /\ PromotionsCarryEvidence
    /\ FrozenWasChampion

(* Appending to the audit trail keeps every earlier event.                 *)
LEMMA AppendFacts ==
    ASSUME NEW S, NEW s \in Seq(S), NEW e \in S
    PROVE  /\ Append(s, e) \in Seq(S)
           /\ DOMAIN Append(s, e) = 1..(Len(s) + 1)
           /\ Len(Append(s, e)) = Len(s) + 1
           /\ DOMAIN s = 1..Len(s)
           /\ Len(s) \in Nat
           /\ \A i \in 1..Len(s) : Append(s, e)[i] = s[i]
           /\ Append(s, e)[Len(s) + 1] = e
    OBVIOUS

(* The initial registry is empty, so everything holds of it.               *)
LEMMA InitInv == Init => RegistryInv
<1> SUFFICES ASSUME Init PROVE RegistryInv
    OBVIOUS
<1>1. TypeOK
    BY DEF Init, TypeOK
<1>2. DOMAIN events = {}
    BY DEF Init
<1> QED
    BY <1>1, <1>2 DEF Init, RegistryInv, ChampionRegistered, ChampionFollowsAudit,
       AuditChain, ApprovalSpentOnce, PromotionsCarryEvidence, FrozenWasChampion

(* A registration changes one absent entry of the version table only.      *)
LEMMA RegisterInv ==
    ASSUME RegistryInv, NEW c \in Candidates, RegisterChallenger(c)
    PROVE  RegistryInv'
<1> USE CandidatesAssumption, ApprovalsAssumption, NoneAssumption
<1>1. c.model \in Models /\ c.version \in Versions /\ c # None
    BY DEF ModelVersion
<1>2. \A m \in Models, v \in Versions :
         versions[m][v] # None => versions'[m][v] = versions[m][v]
    BY <1>1 DEF RegistryInv, TypeOK, RegisterChallenger, MayRegister
<1>3. TypeOK'
    BY <1>1 DEF RegistryInv, TypeOK, RegisterChallenger
<1>4. ChampionRegistered'
    BY <1>2 DEF RegistryInv, TypeOK, ChampionRegistered, RegisterChallenger
<1>5. ChampionFollowsAudit'
    BY DEF RegistryInv, ChampionFollowsAudit, IsLastOf, RegisterChallenger
<1>6. AuditChain'
    BY DEF RegistryInv, AuditChain, RegisterChallenger
<1>7. ApprovalSpentOnce'
    BY DEF RegistryInv, ApprovalSpentOnce, RegisterChallenger
<1>8. PromotionsCarryEvidence'
  <2> SUFFICES ASSUME NEW i \in DOMAIN events, events[i].action = "PROMOTE"
               PROVE  LET d == versions'[events[i].model][events[i].target]
                      IN  /\ d # None
                          /\ d.report = events[i].evidence
                          /\ d.trainedAt <= events[i].approvedAt
                          /\ events[i].source # None => d.parent = events[i].source
    BY DEF PromotionsCarryEvidence, RegisterChallenger
  <2>1. events[i] \in GovernanceApproval
    BY DEF RegistryInv, TypeOK
  <2>2. events[i].model \in Models /\ events[i].target \in Versions
    BY <2>1 DEF GovernanceApproval
  <2> QED
    BY <1>2, <2>2 DEF RegistryInv, PromotionsCarryEvidence
<1>9. FrozenWasChampion'
    BY <1>2 DEF RegistryInv, TypeOK, FrozenWasChampion, RegisterChallenger
<1> QED
    BY <1>3, <1>4, <1>5, <1>6, <1>7, <1>8, <1>9 DEF RegistryInv

(* What promote and rollback have in common: the target becomes champion,  *)
(* and an unspent approval that names the champion it replaces is recorded.*)
ChampionChange(m, v, a) ==
    /\ m \in Models /\ v \in Versions /\ a \in Approvals
    /\ versions[m][v] # None
    /\ a \notin usedApprovals
    /\ a.model = m /\ a.source = champions[m] /\ a.target = v
    /\ a.action = "PROMOTE" => Promotable(versions[m][v], a, champions[m])
    /\ champions' = [champions EXCEPT ![m] = v]
    /\ events' = Append(events, a)
    /\ usedApprovals' = usedApprovals \cup {a}
    /\ UNCHANGED <<versions, sessionChampions>>

(* Both champion-changing operations of the registry are of that form.     *)
LEMMA ChangeOfPromoteOrRollback ==
    ASSUME NEW m \in Models, NEW v \in Versions, NEW a \in Approvals,
           Promote(m, v, a) \/ Rollback(m, v, a)
    PROVE  ChampionChange(m, v, a)
    BY DEF Promote, Rollback, ChampionChange, ApprovalValid, Matches, Record

(* Either kind of champion change preserves the invariant: the new event   *)
(* extends the chain of its model and no other model is touched.           *)
LEMMA ChangeInv ==
    ASSUME RegistryInv, NEW m, NEW v, NEW a, ChampionChange(m, v, a)
    PROVE  RegistryInv'
<1> USE CandidatesAssumption, ApprovalsAssumption, NoneAssumption
<1> DEFINE n == Len(events)
<1>1. /\ m \in Models /\ v \in Versions /\ a \in Approvals
      /\ versions[m][v] # None /\ v # None
    BY DEF ChampionChange
<1>2. events \in Seq(Approvals)
    BY DEF RegistryInv, TypeOK
<1>3. /\ events' \in Seq(Approvals)
      /\ DOMAIN events' = 1..(n + 1)
      /\ DOMAIN events = 1..n
      /\ n \in Nat
      /\ \A i \in 1..n : events'[i] = events[i]
      /\ events'[n + 1] = a
    BY <1>1, <1>2, AppendFacts DEF ChampionChange
<1>4. champions'[m] = v /\ \A k \in Models : k # m => champions'[k] = champions[k]
    BY <1>1 DEF ChampionChange, RegistryInv, TypeOK
<1> HIDE DEF n
<1>5. TypeOK'
    BY <1>1, <1>3 DEF RegistryInv, TypeOK, ChampionChange
<1>6. ChampionRegistered'
    BY <1>1, <1>4 DEF RegistryInv, ChampionRegistered, ChampionChange
<1>7. ChampionFollowsAudit'
  <2> SUFFICES ASSUME NEW k \in Models
               PROVE  \/ /\ champions'[k] = None
                         /\ \A i \in 1..(n + 1) : events'[i].model # k
                      \/ \E i \in 1..(n + 1) :
                           /\ events'[i].model = k
                           /\ \A j \in 1..(n + 1) : j > i => events'[j].model # k
                           /\ champions'[k] = events'[i].target
    BY <1>3 DEF ChampionFollowsAudit, IsLastOf
  <2>1. CASE k = m
    <3>1. events'[n + 1].model = m /\ events'[n + 1].target = v
        BY <1>3 DEF ChampionChange
    <3>2. \A j \in 1..(n + 1) : ~ (j > n + 1)
        BY <1>3
    <3> QED BY <2>1, <3>1, <3>2, <1>3, <1>4
  <2>2. CASE k # m
    <3>1. events'[n + 1].model # k
        BY <1>3, <2>2 DEF ChampionChange
    <3>2. \A j \in 1..(n + 1) : j \in 1..n \/ j = n + 1
        BY <1>3
    <3>3. champions'[k] = champions[k]
        BY <1>4, <2>2
    <3>4. CASE champions[k] = None /\ \A i \in 1..n : events[i].model # k
        BY <3>1, <3>2, <3>3, <3>4, <1>3
    <3>5. CASE \E i \in 1..n : IsLastOf(i, k) /\ champions[k] = events[i].target
        BY <3>1, <3>2, <3>3, <3>5, <1>3 DEF IsLastOf
    <3> QED
        BY <3>4, <3>5, <1>3 DEF RegistryInv, ChampionFollowsAudit
  <2> QED BY <2>1, <2>2
<1>8. AuditChain'
  <2> SUFFICES ASSUME NEW j \in 1..(n + 1)
               PROVE  \/ /\ events'[j].source = None
                         /\ \A i \in 1..(j-1) : events'[i].model # events'[j].model
                      \/ \E i \in 1..(j-1) :
                           /\ events'[i].model = events'[j].model
                           /\ events'[j].source = events'[i].target
                           /\ \A k \in (i+1)..(j-1) :
                                 events'[k].model # events'[j].model
    BY <1>3 DEF AuditChain
  <2>1. CASE j \in 1..n
    <3>1. 1..(j-1) \subseteq 1..n /\ \A i \in 1..(j-1) : (i+1)..(j-1) \subseteq 1..n
        BY <1>3, <2>1
    <3>2. events'[j] = events[j] /\ \A i \in 1..(j-1) : events'[i] = events[i]
        BY <1>3, <2>1, <3>1
    <3>3. \A i \in 1..(j-1) : \A k \in (i+1)..(j-1) : events'[k] = events[k]
        BY <1>3, <3>1
    <3>4. CASE /\ events[j].source = None
               /\ \A i \in 1..(j-1) : events[i].model # events[j].model
        BY <3>2, <3>4
    <3>5. CASE \E i \in 1..(j-1) :
                  /\ events[i].model = events[j].model
                  /\ events[j].source = events[i].target
                  /\ \A k \in (i+1)..(j-1) : events[k].model # events[j].model
      <4> PICK i \in 1..(j-1) :
                  /\ events[i].model = events[j].model
                  /\ events[j].source = events[i].target
                  /\ \A k \in (i+1)..(j-1) : events[k].model # events[j].model
          BY <3>5
      <4>1. \A k \in (i+1)..(j-1) : events'[k].model # events'[j].model
          BY <3>2, <3>3
      <4> QED BY <3>2, <4>1
    <3> QED
        BY <1>3, <2>1, <3>4, <3>5 DEF RegistryInv, AuditChain
  <2>2. CASE j = n + 1
    <3>1. events'[j] = a /\ a.model = m /\ a.source = champions[m] /\ 1..(j-1) = 1..n
        BY <1>3, <2>2 DEF ChampionChange
    <3>2. CASE champions[m] = None /\ \A i \in 1..n : events[i].model # m
        BY <3>1, <3>2, <1>3
    <3>3. CASE \E i \in 1..n : IsLastOf(i, m) /\ champions[m] = events[i].target
      <4> PICK i \in 1..n : IsLastOf(i, m) /\ champions[m] = events[i].target
          BY <3>3
      <4>1. \A k \in (i+1)..(j-1) : k \in 1..n /\ k > i
          BY <1>3, <2>2
      <4> QED
          BY <3>1, <4>1, <1>3 DEF IsLastOf
    <3> QED
        BY <1>1, <1>3, <3>2, <3>3 DEF RegistryInv, ChampionFollowsAudit
  <2> QED BY <1>3, <2>1, <2>2
<1>9. ApprovalSpentOnce'
  <2>1. \A i \in 1..n : events[i] # a
    BY <1>3 DEF RegistryInv, ApprovalSpentOnce, ChampionChange
  <2>2. \A i, j \in DOMAIN events' : events'[i] = events'[j] => i = j
    BY <1>3, <2>1 DEF RegistryInv, ApprovalSpentOnce
  <2>3. usedApprovals' = {events'[i] : i \in DOMAIN events'}
    <3>1. usedApprovals = {events[i] : i \in 1..n}
        BY <1>3 DEF RegistryInv, ApprovalSpentOnce
    <3>2. usedApprovals' = usedApprovals \cup {a}
        BY DEF ChampionChange
    <3>3. {events'[i] : i \in 1..(n+1)} = {events[i] : i \in 1..n} \cup {a}
        BY <1>3
    <3> QED BY <1>3, <3>1, <3>2, <3>3
  <2> QED BY <2>2, <2>3 DEF ApprovalSpentOnce
<1>10. PromotionsCarryEvidence'
  <2> SUFFICES ASSUME NEW i \in 1..(n + 1), events'[i].action = "PROMOTE"
               PROVE  LET d == versions[events'[i].model][events'[i].target]
                      IN  /\ d # None
                          /\ d.report = events'[i].evidence
                          /\ d.trainedAt <= events'[i].approvedAt
                          /\ events'[i].source # None => d.parent = events'[i].source
    BY <1>3 DEF PromotionsCarryEvidence, ChampionChange
  <2>1. CASE i \in 1..n
    BY <1>3, <2>1 DEF RegistryInv, PromotionsCarryEvidence
  <2>2. CASE i = n + 1
    <3>1. events'[i] = a /\ a.model = m /\ a.target = v /\ a.source = champions[m]
        BY <1>3, <2>2 DEF ChampionChange
    <3>2. Promotable(versions[m][v], a, champions[m])
        BY <3>1 DEF ChampionChange
    <3>3. versions[m][v] \in ModelVersion /\ a \in GovernanceApproval
        BY <1>1 DEF RegistryInv, TypeOK
    <3>4. versions[m][v].trainedAt \in Nat /\ a.approvedAt \in Nat
        BY <3>3 DEF ModelVersion, GovernanceApproval
    <3> QED BY <1>1, <3>1, <3>2, <3>4 DEF Promotable
  <2> QED BY <1>3, <2>1, <2>2
<1>11. FrozenWasChampion'
  <2> SUFFICES ASSUME NEW k \in Models, NEW s \in Sessions,
                      sessionChampions[k][s] # None
               PROVE  /\ versions[k][sessionChampions[k][s]] # None
                      /\ \E i \in 1..(n + 1) :
                            /\ events'[i].model = k
                            /\ events'[i].target = sessionChampions[k][s]
    BY <1>3 DEF FrozenWasChampion, ChampionChange
  <2> QED BY <1>3 DEF RegistryInv, FrozenWasChampion
<1> QED
    BY <1>5, <1>6, <1>7, <1>8, <1>9, <1>10, <1>11 DEF RegistryInv

(* A freeze records the current champion, which an event has installed.    *)
LEMMA FreezeInv ==
    ASSUME RegistryInv, NEW m \in Models, NEW s \in Sessions, FreezeSession(m, s)
    PROVE  RegistryInv'
<1>1. TypeOK'
    BY DEF RegistryInv, TypeOK, FreezeSession
<1>2. FrozenWasChampion'
  <2> SUFFICES ASSUME NEW k \in Models, NEW t \in Sessions,
                      sessionChampions'[k][t] # None
               PROVE  /\ versions[k][sessionChampions'[k][t]] # None
                      /\ \E i \in DOMAIN events :
                            /\ events[i].model = k
                            /\ events[i].target = sessionChampions'[k][t]
    BY DEF FrozenWasChampion, FreezeSession
  <2>1. \/ sessionChampions'[k][t] = sessionChampions[k][t]
        \/ k = m /\ sessionChampions'[k][t] = champions[m] /\ champions[m] # None
    BY DEF RegistryInv, TypeOK, FreezeSession
  <2>2. CASE sessionChampions'[k][t] = sessionChampions[k][t]
    BY <2>2 DEF RegistryInv, FrozenWasChampion
  <2>3. CASE k = m /\ sessionChampions'[k][t] = champions[m] /\ champions[m] # None
    BY <2>3 DEF RegistryInv, ChampionRegistered, ChampionFollowsAudit, IsLastOf
  <2> QED BY <2>1, <2>2, <2>3
<1>3. /\ ChampionRegistered' /\ ChampionFollowsAudit' /\ AuditChain'
      /\ ApprovalSpentOnce' /\ PromotionsCarryEvidence'
    BY DEF RegistryInv, ChampionRegistered, ChampionFollowsAudit, IsLastOf, AuditChain,
       ApprovalSpentOnce, PromotionsCarryEvidence, FreezeSession
<1> QED BY <1>1, <1>2, <1>3 DEF RegistryInv

(* Every step of the registry, and every stuttering step, preserves it.    *)
LEMMA StepInv == RegistryInv /\ [Next]_vars => RegistryInv'
<1> SUFFICES ASSUME RegistryInv, [Next]_vars PROVE RegistryInv'
    OBVIOUS
<1>1. CASE \E c \in Candidates : RegisterChallenger(c)
    BY <1>1, RegisterInv
<1>2. CASE \E m \in Models, v \in Versions, a \in Approvals :
             Promote(m, v, a) \/ Rollback(m, v, a)
    BY <1>2, ChangeOfPromoteOrRollback, ChangeInv
<1>3. CASE \E m \in Models, s \in Sessions : FreezeSession(m, s)
    BY <1>3, FreezeInv
<1>4. CASE UNCHANGED vars
    BY <1>4 DEF vars, RegistryInv, TypeOK, ChampionRegistered, ChampionFollowsAudit,
       IsLastOf, AuditChain, ApprovalSpentOnce, PromotionsCarryEvidence,
       FrozenWasChampion
<1> QED BY <1>1, <1>2, <1>3, <1>4 DEF Next

(* The invariant holds in every reachable state of the registry.           *)
THEOREM RegistryInvariant == Spec => []RegistryInv
<1> QED BY InitInv, StepInv, PTL DEF Spec

(* Type correctness of the registry's dictionaries.                        *)
THEOREM RegistryTypeOK == Spec => []TypeOK
<1>1. RegistryInv => TypeOK
    BY DEF RegistryInv
<1> QED BY <1>1, RegistryInvariant, PTL

(* The audit trail determines the champion: _champions and _events, which  *)
(* promote and rollback write separately, never disagree.                  *)
THEOREM ChampionIsAudited == Spec => []ChampionFollowsAudit
<1>1. RegistryInv => ChampionFollowsAudit
    BY DEF RegistryInv
<1> QED BY <1>1, RegistryInvariant, PTL

(* The audited events of each model form one unbroken chain.               *)
THEOREM AuditIsAChain == Spec => []AuditChain
<1>1. RegistryInv => AuditChain
    BY DEF RegistryInv
<1> QED BY <1>1, RegistryInvariant, PTL

(* No governance approval is ever consumed twice.                          *)
THEOREM ApprovalsAreSpentOnce == Spec => []ApprovalSpentOnce
<1>1. RegistryInv => ApprovalSpentOnce
    BY DEF RegistryInv
<1> QED BY <1>1, RegistryInvariant, PTL

(* Every audited promotion is backed by the registered evidence.           *)
THEOREM PromotionsAreJustified == Spec => []PromotionsCarryEvidence
<1>1. RegistryInv => PromotionsCarryEvidence
    BY DEF RegistryInv
<1> QED BY <1>1, RegistryInvariant, PTL

(* Sessions are frozen only to versions an event made champion.            *)
THEOREM FrozenSessionsWereChampion == Spec => []FrozenWasChampion
<1>1. RegistryInv => FrozenWasChampion
    BY DEF RegistryInv
<1> QED BY <1>1, RegistryInvariant, PTL

(* No step of the registry rewrites history: registered versions, frozen   *)
(* sessions, audited events and spent approvals stay as they are.          *)
THEOREM HistoryIsAppendOnly == Spec => HistoryOnlyGrows
<1> DEFINE Grows ==
       /\ \A m \in Models, v \in Versions :
             versions[m][v] # None => versions'[m][v] = versions[m][v]
       /\ \A m \in Models, s \in Sessions :
             sessionChampions[m][s] # None =>
                 sessionChampions'[m][s] = sessionChampions[m][s]
       /\ Len(events) <= Len(events')
       /\ \A i \in DOMAIN events : events'[i] = events[i]
       /\ usedApprovals \subseteq usedApprovals'
<1>1. RegistryInv /\ [Next]_vars => [Grows]_vars
  <2> SUFFICES ASSUME RegistryInv, Next PROVE Grows
    OBVIOUS
  <2>0. Len(events) \in Nat
    BY DEF RegistryInv, TypeOK
  <2>1. ASSUME NEW c \in Candidates, RegisterChallenger(c) PROVE Grows
    <3>1. c.model \in Models /\ c.version \in Versions
        BY CandidatesAssumption DEF ModelVersion
    <3> QED
        BY <2>0, <2>1, <3>1 DEF RegistryInv, TypeOK, RegisterChallenger, MayRegister
  <2>2. ASSUME NEW m \in Models, NEW v \in Versions, NEW a \in Approvals,
               Promote(m, v, a) \/ Rollback(m, v, a)
        PROVE  Grows
    <3>1. ChampionChange(m, v, a)
        BY <2>2, ChangeOfPromoteOrRollback
    <3>2. events \in Seq(Approvals)
        BY DEF RegistryInv, TypeOK
    <3>3. Len(events) <= Len(events') /\ \A i \in DOMAIN events : events'[i] = events[i]
        BY <3>1, <3>2, <2>0, AppendFacts DEF ChampionChange
    <3> QED BY <3>1, <3>3 DEF ChampionChange
  <2>3. ASSUME NEW m \in Models, NEW s \in Sessions, FreezeSession(m, s) PROVE Grows
    BY <2>0, <2>3 DEF RegistryInv, TypeOK, FreezeSession
  <2> QED BY <2>1, <2>2, <2>3 DEF Next
<1>2. HistoryOnlyGrows <=> [][Grows]_vars
    BY DEF HistoryOnlyGrows
<1> QED BY <1>1, <1>2, RegistryInvariant, PTL DEF Spec

-----------------------------------------------------------------------------
(* The threads.                                                            *)

Registering == {"register.check", "register.store"}
Targeting == {"change.read", "change.check", "change.champion", "change.spend",
              "change.event"}
Changing == {"change.target"} \cup Targeting
Freezing == {"freeze.read", "freeze.store"}
Labels == {"idle"} \cup Registering \cup Changing \cup Freezing

CallsOK(label, r) ==
    /\ label \in Registering => r \in Candidates
    /\ label \in Changing => r \in Approvals
    /\ label \in Freezing => r \in [model: Models, session: Sessions]

ThreadTypeOK ==
    /\ TypeOK
    /\ pc \in [Threads -> Labels]
    /\ req = [t \in Threads |-> req[t]]
    /\ cur \in [Threads -> Versions \cup {None}]
    /\ \A t \in Threads : CallsOK(pc[t], req[t])

(* The changes that have installed their champion but not yet their event. *)
Pending == {t \in Threads : pc[t] \in {"change.spend", "change.event"}}

(* v was installed as champion of m by a change that is recorded or is on  *)
(* its way to the record; and v is registered.                             *)
Installed(m, v) ==
    /\ versions[m][v] # None
    /\ \/ \E i \in DOMAIN events : events[i].model = m /\ events[i].target = v
       \/ \E t \in Pending : req[t].model = m /\ req[t].target = v

(* What a thread knows still holds when it acts on it.                     *)
InstalledInv ==
    /\ \A m \in Models : champions[m] # None => Installed(m, champions[m])
    /\ \A m \in Models, s \in Sessions :
          sessionChampions[m][s] # None => Installed(m, sessionChampions[m][s])
    /\ \A t \in Threads :
          /\ pc[t] = "freeze.store" => cur[t] # None /\ Installed(req[t].model, cur[t])
          /\ pc[t] \in Targeting => versions[req[t].model][req[t].target] # None

(* The spent set runs ahead of the audit trail by the changes whose event  *)
(* is about to be appended, and by nothing else.                           *)
SpentInv ==
    usedApprovals = {events[i] : i \in DOMAIN events}
                      \cup {req[t] : t \in {u \in Threads : pc[u] = "change.event"}}

ThreadInv == ThreadTypeOK /\ InstalledInv /\ SpentInv

-----------------------------------------------------------------------------
(* Nothing that makes a version installed is taken away by the step.       *)
Kept ==
    /\ \A m \in Models, v \in Versions : versions[m][v] # None => versions'[m][v] # None
    /\ \A i \in DOMAIN events : i \in DOMAIN events' /\ events'[i] = events[i]
    /\ \A t \in Pending : \/ t \in Pending' /\ req'[t] = req[t]
                          \/ \E i \in DOMAIN events' : events'[i] = req[t]

(* What is kept stays installed.                                           *)
LEMMA InstalledKept ==
    ASSUME Kept, NEW m \in Models, NEW v \in Versions, Installed(m, v)
    PROVE  Installed(m, v)'
<1>1. versions'[m][v] # None
    BY DEF Kept, Installed
<1>2. ASSUME NEW i \in DOMAIN events, events[i].model = m, events[i].target = v
      PROVE  Installed(m, v)'
    BY <1>1, <1>2 DEF Kept, Installed
<1>3. ASSUME NEW t \in Pending, req[t].model = m, req[t].target = v
      PROVE  Installed(m, v)'
    BY <1>1, <1>3 DEF Kept, Installed
<1> QED BY <1>2, <1>3 DEF Installed

(* Every step is a move of one thread, with or without a change of the     *)
(* registry.                                                               *)
Move(t, label, r, c) ==
    /\ pc' = [pc EXCEPT ![t] = label]
    /\ req' = [req EXCEPT ![t] = r]
    /\ cur' = [cur EXCEPT ![t] = c]

(* A move of one thread sets its own entry and no other.                   *)
LEMMA MoveFacts ==
    ASSUME ThreadTypeOK, NEW t \in Threads, NEW label, NEW r, NEW c, Move(t, label, r, c)
    PROVE  /\ pc'[t] = label /\ req'[t] = r /\ cur'[t] = c
           /\ \A u \in Threads \ {t} : pc'[u] = pc[u] /\ req'[u] = req[u] /\ cur'[u] = cur[u]
BY DEF ThreadTypeOK, Move

(* Going to a label is a move that keeps call and value read.              *)
LEMMA GotoIsMove ==
    ASSUME ThreadTypeOK, NEW t \in Threads, NEW label, Goto(t, label)
    PROVE  /\ UNCHANGED cur => Move(t, label, req[t], cur[t])
           /\ \A c : cur' = [cur EXCEPT ![t] = c] => Move(t, label, req[t], c)
BY DEF ThreadTypeOK, Goto, Move

(* Returning is a move to idle.                                            *)
LEMMA ReturnIsMove ==
    ASSUME NEW t \in Threads, Return(t)
    PROVE  Move(t, "idle", None, None)
BY DEF Return, Move

(* Moves keep the types, if the registry does.                             *)
LEMMA MoveType ==
    ASSUME ThreadTypeOK, TypeOK', NEW t \in Threads, NEW label \in Labels, NEW r,
           NEW c \in Versions \cup {None}, Move(t, label, r, c), CallsOK(label, r)
    PROVE  ThreadTypeOK'
<1>1. pc' \in [Threads -> Labels] /\ cur' \in [Threads -> Versions \cup {None}]
    BY DEF ThreadTypeOK, Move
<1>2. req' = [u \in Threads |-> req'[u]]
    BY DEF ThreadTypeOK, Move
<1>3. \A u \in Threads : CallsOK(pc'[u], req'[u])
    BY MoveFacts DEF ThreadTypeOK
<1> QED BY <1>1, <1>2, <1>3 DEF ThreadTypeOK, CallsOK

(* A move that leaves the registry alone and is not part of a change under *)
(* way.                                                                    *)
LEMMA LocalStep ==
    ASSUME ThreadInv, NEW t \in Threads, NEW label \in Labels, NEW r,
           NEW c \in Versions \cup {None}, Move(t, label, r, c), CallsOK(label, r),
           UNCHANGED vars, t \notin Pending,
           label \notin {"change.spend", "change.event"},
           label = "freeze.store" => c # None /\ Installed(r.model, c),
           label \in Targeting => versions[r.model][r.target] # None
    PROVE  ThreadInv'
<1>1. ThreadTypeOK'
    <2>1. TypeOK'
        BY DEF ThreadInv, ThreadTypeOK, vars, TypeOK
    <2> QED BY <2>1, MoveType DEF ThreadInv
<1>2. /\ pc'[t] = label /\ req'[t] = r /\ cur'[t] = c
      /\ \A u \in Threads \ {t} : pc'[u] = pc[u] /\ req'[u] = req[u] /\ cur'[u] = cur[u]
    BY MoveFacts DEF ThreadInv
<1>3. Pending' = Pending /\ \A u \in Pending : req'[u] = req[u]
    BY <1>2 DEF Pending
<1>4. \A m, v : Installed(m, v)' <=> Installed(m, v)
    BY <1>3 DEF Installed, vars
<1>5. InstalledInv'
    BY <1>2, <1>4 DEF ThreadInv, InstalledInv, vars
<1>6. SpentInv'
    <2>1. {u \in Threads : pc'[u] = "change.event"} = {u \in Threads : pc[u] = "change.event"}
        BY <1>2 DEF Pending
    <2>2. \A u \in {x \in Threads : pc[x] = "change.event"} : req'[u] = req[u]
        BY <1>3 DEF Pending
    <2> QED BY <2>1, <2>2 DEF ThreadInv, SpentInv, vars
<1> QED BY <1>1, <1>5, <1>6 DEF ThreadInv

(* The calls and the steps that only read.                                 *)
LEMMA StartInv ==
    ASSUME ThreadInv, NEW t \in Threads, Start(t)
    PROVE  ThreadInv'
<1>0. PICK label \in {"register.check", "change.target", "freeze.read"} :
         \E arg : Call(t, label, arg) /\ CallsOK(label, arg)
    <2> USE DEF CallsOK, Registering, Changing, Targeting, Freezing
    <2>1. ASSUME NEW c \in Candidates PROVE CallsOK("register.check", c)
        OBVIOUS
    <2>2. ASSUME NEW a \in Approvals PROVE CallsOK("change.target", a)
        OBVIOUS
    <2>3. ASSUME NEW m \in Models, NEW s \in Sessions
          PROVE  CallsOK("freeze.read", [model |-> m, session |-> s])
        OBVIOUS
    <2> HIDE DEF CallsOK
    <2> QED BY <2>1, <2>2, <2>3, Zenon DEF Start
<1>1. PICK arg : Call(t, label, arg) /\ CallsOK(label, arg)
    BY <1>0
<1>2. Move(t, label, arg, cur[t]) /\ UNCHANGED vars /\ pc[t] = "idle"
    BY <1>1 DEF Call, Move, ThreadInv, ThreadTypeOK
<1>3. cur[t] \in Versions \cup {None} /\ label \in Labels /\ t \notin Pending
    BY <1>2 DEF ThreadInv, ThreadTypeOK, Labels, Registering, Changing, Targeting, Freezing, Pending
<1>4. label \notin Targeting
    BY DEF Targeting
<1> QED BY <1>1, <1>2, <1>3, <1>4, LocalStep

(* A call that ends before it has installed anything leaves no trace.      *)
LEMMA IdleInv ==
    ASSUME ThreadInv, NEW t \in Threads, Return(t), UNCHANGED vars, t \notin Pending
    PROVE  ThreadInv'
<1>1. CallsOK("idle", None) /\ "idle" \in Labels
    BY DEF CallsOK, Labels, Registering, Changing, Targeting, Freezing
<1> QED BY <1>1, ReturnIsMove, LocalStep DEF Targeting

(* register_challenger's lookup only reads.                                *)
LEMMA RegisterCheckInv ==
    ASSUME ThreadInv, NEW t \in Threads, RegisterCheck(t)
    PROVE  ThreadInv'
<1>1. t \notin Pending /\ UNCHANGED vars
    BY DEF RegisterCheck, Pending
<1>2. CASE Return(t)
    BY <1>1, <1>2, IdleInv
<1>3. CASE Goto(t, "register.store") /\ UNCHANGED cur
    <2>1. Move(t, "register.store", req[t], cur[t])
        BY <1>3, GotoIsMove DEF ThreadInv
    <2>2. CallsOK("register.store", req[t]) /\ "register.store" \in Labels
        BY DEF RegisterCheck, ThreadInv, ThreadTypeOK, CallsOK, Labels, Registering, Changing,
           Targeting, Freezing
    <2>3. cur[t] \in Versions \cup {None}
        BY DEF ThreadInv, ThreadTypeOK
    <2> QED BY <1>1, <2>1, <2>2, <2>3, LocalStep DEF Targeting
<1> QED BY <1>2, <1>3 DEF RegisterCheck

(* The target a change has found is registered.                            *)
LEMMA ChangeTargetInv ==
    ASSUME ThreadInv, NEW t \in Threads, ChangeTarget(t)
    PROVE  ThreadInv'
<1>1. t \notin Pending /\ UNCHANGED vars
    BY DEF ChangeTarget, Pending
<1>2. CASE Return(t)
    BY <1>1, <1>2, IdleInv
<1>3. CASE ~Return(t)
    <2>1. /\ versions[req[t].model][req[t].target] # None
          /\ pc' = [pc EXCEPT ![t] = "change.read"] /\ UNCHANGED <<req, cur>>
        BY <1>3 DEF ChangeTarget
    <2>2. Move(t, "change.read", req[t], cur[t])
        BY <2>1 DEF Move, ThreadInv, ThreadTypeOK
    <2>3. CallsOK("change.read", req[t]) /\ "change.read" \in Labels
        BY DEF ChangeTarget, ThreadInv, ThreadTypeOK, CallsOK, Labels, Registering, Changing,
           Targeting, Freezing
    <2>4. cur[t] \in Versions \cup {None}
        BY DEF ThreadInv, ThreadTypeOK
    <2> QED BY <1>1, <2>1, <2>2, <2>3, <2>4, LocalStep
<1> QED BY <1>2, <1>3

(* The champion a change reads is well-typed.                              *)
LEMMA ChangeReadInv ==
    ASSUME ThreadInv, NEW t \in Threads, ChangeRead(t)
    PROVE  ThreadInv'
<1>1. req[t] \in Approvals /\ req[t].model \in Models
    BY CandidatesAssumption, ApprovalsAssumption, NoneAssumption DEF ChangeRead, ThreadInv, ThreadTypeOK, CallsOK, Changing,
       Targeting, GovernanceApproval
<1>2. champions[req[t].model] \in Versions \cup {None}
    BY <1>1 DEF ThreadInv, ThreadTypeOK, TypeOK
<1>3. Move(t, "change.check", req[t], champions[req[t].model])
    BY GotoIsMove DEF ChangeRead, ThreadInv
<1>4. CallsOK("change.check", req[t]) /\ "change.check" \in Labels
    BY <1>1 DEF CallsOK, Labels, Registering, Changing, Targeting, Freezing
<1>5. t \notin Pending /\ UNCHANGED vars
    BY DEF ChangeRead, Pending
<1>6. versions[req[t].model][req[t].target] # None
    BY DEF ChangeRead, ThreadInv, InstalledInv, Targeting
<1> QED BY <1>2, <1>3, <1>4, <1>5, <1>6, LocalStep

(* A change that passes its checks still has a registered target.          *)
LEMMA ChangeCheckInv ==
    ASSUME ThreadInv, NEW t \in Threads, ChangeCheck(t)
    PROVE  ThreadInv'
<1>1. t \notin Pending /\ UNCHANGED vars
    BY DEF ChangeCheck, Pending
<1>2. CASE Return(t)
    BY <1>1, <1>2, IdleInv
<1>3. CASE Goto(t, "change.champion") /\ UNCHANGED cur
    <2>1. Move(t, "change.champion", req[t], cur[t])
        BY <1>3, GotoIsMove DEF ThreadInv
    <2>2. CallsOK("change.champion", req[t]) /\ "change.champion" \in Labels
        BY DEF ChangeCheck, ThreadInv, ThreadTypeOK, CallsOK, Labels, Registering, Changing,
           Targeting, Freezing
    <2>3. cur[t] \in Versions \cup {None}
        BY DEF ThreadInv, ThreadTypeOK
    <2>4. versions[req[t].model][req[t].target] # None
        BY DEF ChangeCheck, ThreadInv, InstalledInv, Targeting
    <2> QED BY <1>1, <2>1, <2>2, <2>3, <2>4, LocalStep
<1> QED BY <1>2, <1>3 DEF ChangeCheck

(* A freeze reads a champion that is installed.                            *)
LEMMA FreezeReadInv ==
    ASSUME ThreadInv, NEW t \in Threads, FreezeRead(t)
    PROVE  ThreadInv'
<1>1. t \notin Pending /\ UNCHANGED vars
    BY DEF FreezeRead, Pending
<1>2. CASE Return(t)
    BY <1>1, <1>2, IdleInv
<1>3. CASE /\ champions[req[t].model] # None
           /\ cur' = [cur EXCEPT ![t] = champions[req[t].model]]
           /\ Goto(t, "freeze.store")
    <2>1. Move(t, "freeze.store", req[t], champions[req[t].model])
        BY <1>3, GotoIsMove DEF ThreadInv
    <2>2. CallsOK("freeze.store", req[t]) /\ "freeze.store" \in Labels
        BY DEF FreezeRead, ThreadInv, ThreadTypeOK, CallsOK, Labels, Registering, Changing,
           Targeting, Freezing
    <2>3. req[t].model \in Models
        BY DEF FreezeRead, ThreadInv, ThreadTypeOK, CallsOK, Freezing
    <2>4. champions[req[t].model] \in Versions \cup {None}
        BY <2>3 DEF ThreadInv, ThreadTypeOK, TypeOK
    <2>5. Installed(req[t].model, champions[req[t].model])
        BY <1>3, <2>3 DEF ThreadInv, InstalledInv
    <2> QED BY <1>1, <1>3, <2>1, <2>2, <2>4, <2>5, LocalStep DEF Targeting
<1> QED BY <1>2, <1>3 DEF FreezeRead

-----------------------------------------------------------------------------
(* What InstalledInv says carries over a step that keeps what was there,   *)
(* if the values the step writes itself are installed.                     *)
LEMMA WriteStep ==
    ASSUME ThreadInv, ThreadTypeOK', Kept, NEW t \in Threads, NEW label, NEW r, NEW c,
           Move(t, label, r, c), label # "freeze.store",
           label \in Targeting => versions'[r.model][r.target] # None,
           \A m \in Models : champions'[m] = champions[m]
                              \/ Installed(m, champions[m])',
           \A m \in Models, s \in Sessions :
               \/ sessionChampions'[m][s] = sessionChampions[m][s]
               \/ /\ sessionChampions'[m][s] \in Versions
                  /\ Installed(m, sessionChampions'[m][s])
    PROVE  InstalledInv'
<1>1. /\ pc'[t] = label /\ req'[t] = r /\ cur'[t] = c
      /\ \A u \in Threads \ {t} : pc'[u] = pc[u] /\ req'[u] = req[u] /\ cur'[u] = cur[u]
    BY MoveFacts DEF ThreadInv
<1>2. ASSUME NEW m \in Models, champions'[m] # None
      PROVE  Installed(m, champions[m])'
    BY <1>2, InstalledKept DEF ThreadInv, InstalledInv, ThreadTypeOK, TypeOK
<1>3. ASSUME NEW m \in Models, NEW s \in Sessions, sessionChampions'[m][s] # None
      PROVE  Installed(m, sessionChampions[m][s])'
    BY <1>3, InstalledKept DEF ThreadInv, InstalledInv, ThreadTypeOK, TypeOK
<1>4. ASSUME NEW u \in Threads, pc'[u] = "freeze.store"
      PROVE  cur'[u] # None /\ Installed(req[u].model, cur[u])'
    <2>1. u # t /\ pc[u] = "freeze.store"
        BY <1>1, <1>4
    <2>2. req[u].model \in Models
        BY <2>1 DEF ThreadInv, ThreadTypeOK, CallsOK, Freezing
    <2>3. cur[u] # None /\ Installed(req[u].model, cur[u])
        BY <2>1 DEF ThreadInv, InstalledInv
    <2>4. cur[u] \in Versions
        BY <2>1 DEF ThreadInv, ThreadTypeOK, InstalledInv
    <2> QED BY <1>1, <2>1, <2>2, <2>3, <2>4, InstalledKept
<1>5. ASSUME NEW u \in Threads, pc'[u] \in Targeting
      PROVE  versions'[req'[u].model][req'[u].target] # None
    <2>1. CASE u = t
        BY <1>1, <1>5, <2>1
    <2>2. CASE u # t
        <3>1. req[u].model \in Models /\ req[u].target \in Versions
            BY <1>1, <1>5, <2>2, CandidatesAssumption, ApprovalsAssumption, NoneAssumption
            DEF ThreadInv, ThreadTypeOK, CallsOK, Changing, Targeting, GovernanceApproval
        <3> QED BY <1>1, <1>5, <2>2, <3>1 DEF ThreadInv, InstalledInv, Kept
    <2> QED BY <2>1, <2>2
<1> QED BY <1>2, <1>3, <1>4, <1>5 DEF InstalledInv

(* An idle thread promises nothing.                                        *)
LEMMA IdleFacts == CallsOK("idle", None) /\ "idle" \in Labels
BY DEF CallsOK, Labels, Registering, Changing, Targeting, Freezing

(* register_challenger overwrites an entry with a record, never with None. *)
LEMMA RegisterStoreInv ==
    ASSUME ThreadInv, NEW t \in Threads, RegisterStore(t)
    PROVE  ThreadInv'
<1>1. /\ req[t] \in Candidates /\ req[t] # None
      /\ req[t].model \in Models /\ req[t].version \in Versions
    BY CandidatesAssumption, ApprovalsAssumption, NoneAssumption DEF RegisterStore, ThreadInv, ThreadTypeOK, CallsOK, Registering,
       ModelVersion
<1>2. Move(t, "idle", None, None) /\ UNCHANGED <<champions, sessionChampions, events>>
    BY ReturnIsMove DEF RegisterStore
<1>3. TypeOK'
    BY <1>1 DEF RegisterStore, ThreadInv, ThreadTypeOK, TypeOK
<1>4. ThreadTypeOK'
    BY <1>2, <1>3, IdleFacts, MoveType DEF ThreadInv
<1>5. /\ \A u \in Threads \ {t} : pc'[u] = pc[u] /\ req'[u] = req[u]
      /\ pc'[t] = "idle" /\ pc[t] = "register.store"
    BY <1>2, MoveFacts DEF ThreadInv, RegisterStore
<1>6. Pending' = Pending /\ \A u \in Pending : req'[u] = req[u]
    BY <1>5 DEF Pending
<1>7. Kept
    <2>1. \A m \in Models, v \in Versions : versions[m][v] # None => versions'[m][v] # None
        BY <1>1 DEF RegisterStore, ThreadInv, ThreadTypeOK, TypeOK
    <2> QED BY <1>2, <1>6, <2>1 DEF Kept
<1>8. InstalledInv'
    BY <1>2, <1>4, <1>7, WriteStep DEF Targeting
<1>9. SpentInv'
    <2>1. {u \in Threads : pc'[u] = "change.event"} = {u \in Threads : pc[u] = "change.event"}
        BY <1>5
    <2>2. usedApprovals' = usedApprovals
        BY DEF RegisterStore
    <2> QED BY <1>2, <1>5, <2>1, <2>2 DEF ThreadInv, SpentInv
<1> QED BY <1>4, <1>8, <1>9 DEF ThreadInv

(* The new champion is pending from the moment it is installed.            *)
LEMMA ChangeChampionInv ==
    ASSUME ThreadInv, NEW t \in Threads, ChangeChampion(t)
    PROVE  ThreadInv'
<1>1. /\ req[t] \in Approvals
      /\ req[t].model \in Models /\ req[t].target \in Versions
    BY CandidatesAssumption, ApprovalsAssumption, NoneAssumption DEF ChangeChampion, ThreadInv, ThreadTypeOK, CallsOK, Changing,
       Targeting, GovernanceApproval
<1>2. /\ Move(t, "change.spend", req[t], cur[t])
      /\ UNCHANGED <<versions, sessionChampions, events, usedApprovals>>
    BY GotoIsMove DEF ChangeChampion, ThreadInv
<1>3. TypeOK'
    BY <1>1 DEF ChangeChampion, ThreadInv, ThreadTypeOK, TypeOK
<1>4. ThreadTypeOK'
    <2>1. CallsOK("change.spend", req[t]) /\ "change.spend" \in Labels
        BY <1>1 DEF CallsOK, Labels, Registering, Changing, Targeting, Freezing
    <2>2. cur[t] \in Versions \cup {None}
        BY DEF ThreadInv, ThreadTypeOK
    <2> QED BY <1>2, <1>3, <2>1, <2>2, MoveType DEF ThreadInv
<1>5. /\ \A u \in Threads : req'[u] = req[u]
      /\ \A u \in Threads \ {t} : pc'[u] = pc[u]
      /\ pc'[t] = "change.spend" /\ pc[t] = "change.champion"
    BY <1>2, MoveFacts DEF ThreadInv, ChangeChampion
<1>6. Pending' = Pending \cup {t}
    BY <1>5 DEF Pending
<1>7. Kept
    BY <1>2, <1>5, <1>6 DEF Kept, Pending
<1>8. versions'[req[t].model][req[t].target] # None
    BY <1>2, <1>5 DEF ThreadInv, InstalledInv, Targeting
<1>9. \A m \in Models : champions'[m] = champions[m] \/ Installed(m, champions[m])'
    <2>1. \A m \in Models : champions'[m] = IF m = req[t].model THEN req[t].target
                                           ELSE champions[m]
        BY DEF ChangeChampion, ThreadInv, ThreadTypeOK, TypeOK
    <2> QED BY <1>5, <1>6, <1>8, <2>1 DEF Installed
<1>10. InstalledInv'
    BY <1>2, <1>4, <1>7, <1>8, <1>9, WriteStep
<1>11. SpentInv'
    <2>1. {u \in Threads : pc'[u] = "change.event"} = {u \in Threads : pc[u] = "change.event"}
        BY <1>5
    <2> QED BY <1>2, <1>5, <2>1 DEF ThreadInv, SpentInv
<1> QED BY <1>4, <1>10, <1>11 DEF ThreadInv

(* The spent set gains what the pending event will be.                     *)
LEMMA ChangeSpendInv ==
    ASSUME ThreadInv, NEW t \in Threads, ChangeSpend(t)
    PROVE  ThreadInv'
<1>1. /\ req[t] \in Approvals
      /\ req[t].model \in Models /\ req[t].target \in Versions
    BY CandidatesAssumption, ApprovalsAssumption, NoneAssumption DEF ChangeSpend, ThreadInv, ThreadTypeOK, CallsOK, Changing,
       Targeting, GovernanceApproval
<1>2. /\ Move(t, "change.event", req[t], cur[t])
      /\ UNCHANGED <<versions, champions, sessionChampions, events>>
    BY GotoIsMove DEF ChangeSpend, ThreadInv
<1>3. TypeOK'
    BY <1>1 DEF ChangeSpend, ThreadInv, ThreadTypeOK, TypeOK
<1>4. ThreadTypeOK'
    <2>1. CallsOK("change.event", req[t]) /\ "change.event" \in Labels
        BY <1>1 DEF CallsOK, Labels, Registering, Changing, Targeting, Freezing
    <2>2. cur[t] \in Versions \cup {None}
        BY DEF ThreadInv, ThreadTypeOK
    <2> QED BY <1>2, <1>3, <2>1, <2>2, MoveType DEF ThreadInv
<1>5. /\ \A u \in Threads : req'[u] = req[u]
      /\ \A u \in Threads \ {t} : pc'[u] = pc[u]
      /\ pc'[t] = "change.event" /\ pc[t] = "change.spend"
    BY <1>2, MoveFacts DEF ThreadInv, ChangeSpend
<1>6. Pending' = Pending
    BY <1>5 DEF Pending
<1>7. Kept
    BY <1>2, <1>5, <1>6 DEF Kept, Pending
<1>8. versions'[req[t].model][req[t].target] # None
    BY <1>2, <1>5 DEF ThreadInv, InstalledInv, Targeting
<1>9. InstalledInv'
    BY <1>2, <1>4, <1>7, <1>8, WriteStep
<1>10. SpentInv'
    <2>1. {u \in Threads : pc'[u] = "change.event"}
            = {u \in Threads : pc[u] = "change.event"} \cup {t}
        BY <1>5
    <2>2. usedApprovals' = usedApprovals \cup {req[t]}
        BY DEF ChangeSpend
    <2> QED BY <1>2, <1>5, <2>1, <2>2 DEF ThreadInv, SpentInv
<1> QED BY <1>4, <1>9, <1>10 DEF ThreadInv

(* Appending to the audit trail keeps every earlier event.                 *)
LEMMA TrailGrows ==
    ASSUME NEW S, NEW q \in Seq(S), NEW e \in S
    PROVE  /\ DOMAIN Append(q, e) = DOMAIN q \cup {Len(q) + 1}
           /\ \A i \in DOMAIN q : Append(q, e)[i] = q[i]
           /\ Append(q, e)[Len(q) + 1] = e
    OBVIOUS

(* The event takes over from the pending change.                           *)
LEMMA ChangeEventInv ==
    ASSUME ThreadInv, NEW t \in Threads, ChangeEvent(t)
    PROVE  ThreadInv'
<1>1. req[t] \in Approvals
    BY DEF ChangeEvent, ThreadInv, ThreadTypeOK, CallsOK, Changing, Targeting
<1>2. /\ Move(t, "idle", None, None)
      /\ UNCHANGED <<versions, champions, sessionChampions, usedApprovals>>
    BY ReturnIsMove DEF ChangeEvent
<1>3. TypeOK'
    BY <1>1 DEF ChangeEvent, ThreadInv, ThreadTypeOK, TypeOK
<1>4. ThreadTypeOK'
    BY <1>2, <1>3, IdleFacts, MoveType DEF ThreadInv
<1>5. /\ \A u \in Threads \ {t} : pc'[u] = pc[u] /\ req'[u] = req[u]
      /\ pc'[t] = "idle" /\ pc[t] = "change.event"
    BY <1>2, MoveFacts DEF ThreadInv, ChangeEvent
<1> DEFINE n == Len(events) + 1
<1>6. /\ DOMAIN events' = DOMAIN events \cup {n}
      /\ \A i \in DOMAIN events : events'[i] = events[i]
      /\ events'[n] = req[t]
    BY <1>1, TrailGrows DEF ChangeEvent, ThreadInv, ThreadTypeOK, TypeOK
<1> HIDE DEF n
<1>7. Kept
    <2>1. ASSUME NEW u \in Pending
          PROVE  \/ u \in Pending' /\ req'[u] = req[u]
                 \/ \E i \in DOMAIN events' : events'[i] = req[u]
        BY <1>5, <1>6 DEF Pending
    <2> QED BY <1>2, <1>6, <2>1 DEF Kept
<1>8. InstalledInv'
    BY <1>2, <1>4, <1>7, WriteStep DEF Targeting
<1>9. SpentInv'
    <2>1. {u \in Threads : pc'[u] = "change.event"}
            = {u \in Threads : pc[u] = "change.event"} \ {t}
        BY <1>5
    <2>2. {events'[i] : i \in DOMAIN events'}
            = {events[i] : i \in DOMAIN events} \cup {req[t]}
        BY <1>6
    <2> QED BY <1>2, <1>5, <2>1, <2>2 DEF ThreadInv, SpentInv
<1> QED BY <1>4, <1>8, <1>9 DEF ThreadInv

(* The session takes the champion the thread read, or keeps its own.       *)
LEMMA FreezeStoreInv ==
    ASSUME ThreadInv, NEW t \in Threads, FreezeStore(t)
    PROVE  ThreadInv'
<1>1. /\ req[t].model \in Models /\ req[t].session \in Sessions
      /\ cur[t] \in Versions /\ Installed(req[t].model, cur[t])
    BY DEF FreezeStore, ThreadInv, ThreadTypeOK, CallsOK, Freezing, InstalledInv
<1>2. /\ Move(t, "idle", None, None)
      /\ UNCHANGED <<versions, champions, events, usedApprovals>>
    BY ReturnIsMove DEF FreezeStore
<1>3. \A m \in Models, s \in Sessions :
         \/ sessionChampions'[m][s] = sessionChampions[m][s]
         \/ m = req[t].model /\ sessionChampions'[m][s] = cur[t]
    BY <1>1 DEF FreezeStore, ThreadInv, ThreadTypeOK, TypeOK
<1>4. TypeOK'
    BY <1>1 DEF FreezeStore, ThreadInv, ThreadTypeOK, TypeOK
<1>5. ThreadTypeOK'
    BY <1>2, <1>4, IdleFacts, MoveType DEF ThreadInv
<1>6. /\ \A u \in Threads \ {t} : pc'[u] = pc[u] /\ req'[u] = req[u]
      /\ pc'[t] = "idle" /\ pc[t] = "freeze.store"
    BY <1>2, MoveFacts DEF ThreadInv, FreezeStore
<1>7. Pending' = Pending /\ \A u \in Pending : req'[u] = req[u]
    BY <1>6 DEF Pending
<1>8. Kept
    BY <1>2, <1>7 DEF Kept
<1>9. InstalledInv'
    <2>1. \A m \in Models, s \in Sessions :
             \/ sessionChampions'[m][s] = sessionChampions[m][s]
             \/ /\ sessionChampions'[m][s] \in Versions
                /\ Installed(m, sessionChampions'[m][s])
        BY <1>1, <1>3
    <2> QED BY <1>2, <1>5, <1>8, <2>1, WriteStep DEF Targeting
<1>10. SpentInv'
    <2>1. {u \in Threads : pc'[u] = "change.event"} = {u \in Threads : pc[u] = "change.event"}
        BY <1>6
    <2> QED BY <1>2, <1>6, <2>1 DEF ThreadInv, SpentInv
<1> QED BY <1>5, <1>9, <1>10 DEF ThreadInv

-----------------------------------------------------------------------------
(* The empty registry with idle threads satisfies the invariant.           *)
LEMMA ThreadInitInv == ThreadInit => ThreadInv
<1> SUFFICES ASSUME ThreadInit PROVE ThreadInv
    OBVIOUS
<1>1. DOMAIN events = {}
    BY DEF ThreadInit, Init
<1>2. ThreadTypeOK
    BY DEF ThreadInit, Init, ThreadTypeOK, TypeOK, Labels, CallsOK, Registering, Changing,
       Targeting, Freezing
<1>3. InstalledInv
    BY DEF ThreadInit, Init, InstalledInv, Targeting
<1>4. SpentInv
    BY <1>1 DEF ThreadInit, Init, SpentInv
<1> QED BY <1>2, <1>3, <1>4 DEF ThreadInv

(* Every step of every thread keeps the invariant.                         *)
LEMMA ThreadStep == ThreadInv /\ [ThreadNext]_threadVars => ThreadInv'
<1> SUFFICES ASSUME ThreadInv, [ThreadNext]_threadVars PROVE ThreadInv'
    OBVIOUS
<1>1. ASSUME NEW t \in Threads, Start(t) PROVE ThreadInv'
    BY <1>1, StartInv
<1>2. ASSUME NEW t \in Threads, Step(t) PROVE ThreadInv'
    BY <1>2, RegisterCheckInv, RegisterStoreInv, ChangeTargetInv, ChangeReadInv,
       ChangeCheckInv,
       ChangeChampionInv, ChangeSpendInv, ChangeEventInv, FreezeReadInv, FreezeStoreInv
       DEF Step
<1>3. CASE UNCHANGED threadVars
    BY <1>3 DEF threadVars, vars, ThreadInv, ThreadTypeOK, InstalledInv, SpentInv,
       Installed, Pending, TypeOK
<1> QED BY <1>1, <1>2, <1>3 DEF ThreadNext, Done

(* Once the calls have returned, every frozen session names a registered   *)
(* version that an audited change made champion, although freezes read the *)
(* champion before its event was recorded.                                 *)
THEOREM FrozenIsAudited == ThreadSpec => []FrozenWasInstalled
<1>1. ThreadInv => FrozenWasInstalled
    BY DEF ThreadInv, InstalledInv, Installed, Pending, FrozenWasInstalled, Quiet,
       FrozenWasChampion
<1> QED BY ThreadInitInv, ThreadStep, <1>1, PTL DEF ThreadSpec

(* A session's champion, once frozen, is never replaced, although freezes  *)
(* and champion changes run unlocked: dict.setdefault is the only writer.  *)
THEOREM FreezesAreStable == ThreadSpec => FreezeIsStable
<1> DEFINE Stable == \A m \in Models, s \in Sessions :
                sessionChampions[m][s] # None =>
                    sessionChampions'[m][s] = sessionChampions[m][s]
<1>1. ASSUME ThreadInv, NEW t \in Threads, FreezeStore(t) PROVE Stable
  <2>1. req[t] \in [model: Models, session: Sessions]
      BY <1>1 DEF FreezeStore, ThreadInv, ThreadTypeOK, CallsOK, Freezing
  <2> QED
      BY <1>1, <2>1 DEF FreezeStore, ThreadInv, ThreadTypeOK, TypeOK
<1>2. ASSUME NEW t \in Threads, Start(t) \/ Step(t), ~FreezeStore(t)
      PROVE  sessionChampions' = sessionChampions
    BY <1>2 DEF Start, Step, Call, vars, RegisterCheck, RegisterStore, ChangeTarget, ChangeRead,
       ChangeCheck, ChangeChampion, ChangeSpend, ChangeEvent, FreezeRead
<1>3. ThreadInv /\ [ThreadNext]_threadVars => [Stable]_threadVars
    BY <1>1, <1>2 DEF ThreadNext, Done, threadVars, vars
<1> QED BY ThreadInitInv, ThreadStep, <1>3, PTL DEF ThreadSpec, FreezeIsStable

-----------------------------------------------------------------------------
(* Reuse of an approval.  Only calls that passed the reuse check before    *)
(* the approval entered the spent set can still record it, and each thread *)
(* makes one call at a time.                                               *)

RecordedBy(a) == {i \in DOMAIN events : events[i] = a}

Passed(a) ==
    {t \in Threads : /\ pc[t] \in {"change.champion", "change.spend", "change.event"}
                     /\ req[t] = a}

ReuseInv ==
    \A a \in Approvals :
        a \in usedApprovals =>
            Cardinality(RecordedBy(a)) + Cardinality(Passed(a)) <= Cardinality(Threads)

(* Both counts are of finite sets.                                         *)
LEMMA ReuseCounts ==
    ASSUME ThreadInv, NEW a \in Approvals
    PROVE  /\ IsFiniteSet(RecordedBy(a)) /\ IsFiniteSet(Passed(a))
           /\ Cardinality(RecordedBy(a)) \in Nat /\ Cardinality(Passed(a)) \in Nat
           /\ Cardinality(Threads) \in Nat
           /\ Cardinality(Passed(a)) <= Cardinality(Threads)
           /\ a \notin usedApprovals => RecordedBy(a) = {} /\ Cardinality(RecordedBy(a)) = 0
<1>1. DOMAIN events = 1..Len(events) /\ Len(events) \in Nat
    BY DEF ThreadInv, ThreadTypeOK, TypeOK
<1>2. IsFiniteSet(1..Len(events))
    BY <1>1, FS_Interval
<1>3. IsFiniteSet(RecordedBy(a))
    BY <1>1, <1>2, FS_Subset DEF RecordedBy
<1>4. /\ IsFiniteSet(Passed(a))
      /\ Cardinality(Passed(a)) <= Cardinality(Threads)
    BY CallsAssumption, FS_Subset DEF Passed
<1>5. a \notin usedApprovals => RecordedBy(a) = {}
    BY DEF ThreadInv, SpentInv, RecordedBy
<1> QED BY <1>3, <1>4, <1>5, CallsAssumption, FS_CardinalityType, FS_EmptySet

(* A step that records nothing and lets no call pass the check for an      *)
(* approval already spent.                                                 *)
LEMMA ReuseKept ==
    ASSUME ThreadInv, ThreadInv', ReuseInv, UNCHANGED <<events, usedApprovals>>,
           \A a \in Approvals : a \in usedApprovals => Passed(a)' \subseteq Passed(a)
    PROVE  ReuseInv'
<1> SUFFICES ASSUME NEW a \in Approvals, a \in usedApprovals
             PROVE  Cardinality(RecordedBy(a)') + Cardinality(Passed(a)')
                      <= Cardinality(Threads)
    BY DEF ReuseInv
<1>1. RecordedBy(a)' = RecordedBy(a)
    BY DEF RecordedBy
<1>2. /\ IsFiniteSet(Passed(a)) /\ Cardinality(RecordedBy(a)) \in Nat
      /\ Cardinality(Passed(a)) \in Nat /\ Cardinality(Threads) \in Nat
    BY ReuseCounts
<1>3. /\ Cardinality(Passed(a)') <= Cardinality(Passed(a))
      /\ IsFiniteSet(Passed(a)')
    BY <1>2, FS_Subset
<1>4. Cardinality(Passed(a)') \in Nat
    BY <1>3, FS_CardinalityType
<1>5. Cardinality(RecordedBy(a)) + Cardinality(Passed(a)) <= Cardinality(Threads)
    BY DEF ReuseInv
<1> HIDE DEF RecordedBy, Passed
<1> QED BY <1>1, <1>2, <1>3, <1>4, <1>5

(* The approval enters the spent set: none of its events is recorded yet.  *)
LEMMA ReuseSpend ==
    ASSUME ThreadInv, ThreadInv', ReuseInv, NEW t \in Threads, ChangeSpend(t)
    PROVE  ReuseInv'
<1> SUFFICES ASSUME NEW a \in Approvals, a \in usedApprovals'
             PROVE  Cardinality(RecordedBy(a)') + Cardinality(Passed(a)')
                      <= Cardinality(Threads)
    BY DEF ReuseInv
<1>1. /\ pc[t] = "change.spend" /\ pc' = [pc EXCEPT ![t] = "change.event"]
      /\ req' = req /\ events' = events
    BY DEF ChangeSpend, Goto
<1>2. RecordedBy(a)' = RecordedBy(a) /\ Passed(a)' = Passed(a)
    BY <1>1 DEF RecordedBy, Passed, ThreadInv, ThreadTypeOK
<1>3. /\ Cardinality(RecordedBy(a)) \in Nat /\ Cardinality(Passed(a)) \in Nat
      /\ Cardinality(Threads) \in Nat
      /\ Cardinality(Passed(a)) <= Cardinality(Threads)
      /\ a \notin usedApprovals => Cardinality(RecordedBy(a)) = 0
    BY ReuseCounts
<1>4. a \in usedApprovals =>
         Cardinality(RecordedBy(a)) + Cardinality(Passed(a)) <= Cardinality(Threads)
    BY DEF ReuseInv
<1> QED BY <1>2, <1>3, <1>4

(* The event: the call leaves those that may still record, and is counted  *)
(* among the recorded ones.                                                *)
LEMMA ReuseEvent ==
    ASSUME ThreadInv, ThreadInv', ReuseInv, NEW t \in Threads, ChangeEvent(t)
    PROVE  ReuseInv'
<1> SUFFICES ASSUME NEW a \in Approvals, a \in usedApprovals
             PROVE  Cardinality(RecordedBy(a)') + Cardinality(Passed(a)')
                      <= Cardinality(Threads)
    BY DEF ReuseInv, ChangeEvent
<1>1. req[t] \in Approvals /\ pc[t] = "change.event"
    BY DEF ChangeEvent, ThreadInv, ThreadTypeOK, CallsOK, Changing, Targeting
<1>2. /\ pc'[t] = "idle"
      /\ \A u \in Threads \ {t} : pc'[u] = pc[u] /\ req'[u] = req[u]
    BY MoveFacts, ReturnIsMove DEF ThreadInv, ChangeEvent
<1> DEFINE n == Len(events) + 1
<1>3. /\ DOMAIN events' = DOMAIN events \cup {n} /\ n \notin DOMAIN events
      /\ \A i \in DOMAIN events : events'[i] = events[i]
      /\ events'[n] = req[t]
    BY <1>1, TrailGrows DEF ChangeEvent, ThreadInv, ThreadTypeOK, TypeOK
<1> HIDE DEF n
<1>4. /\ IsFiniteSet(RecordedBy(a)) /\ IsFiniteSet(Passed(a))
      /\ Cardinality(RecordedBy(a)) \in Nat /\ Cardinality(Passed(a)) \in Nat
      /\ Cardinality(Threads) \in Nat
    BY ReuseCounts
<1>5. Cardinality(RecordedBy(a)) + Cardinality(Passed(a)) <= Cardinality(Threads)
    BY DEF ReuseInv
<1>6. CASE a = req[t]
  <2>1. RecordedBy(a)' = RecordedBy(a) \cup {n} /\ n \notin RecordedBy(a)
      BY <1>3, <1>6 DEF RecordedBy
  <2>2. Passed(a)' = Passed(a) \ {t} /\ t \in Passed(a)
      BY <1>1, <1>2, <1>6 DEF Passed
  <2>3. Cardinality(RecordedBy(a)') = Cardinality(RecordedBy(a)) + 1
      BY <1>4, <2>1, FS_AddElement
  <2>4. Cardinality(Passed(a)') = Cardinality(Passed(a)) - 1
      BY <1>4, <2>2, FS_RemoveElement
  <2> QED BY <1>4, <1>5, <2>3, <2>4
<1>7. CASE a # req[t]
  <2>1. RecordedBy(a)' = RecordedBy(a)
      BY <1>3, <1>7 DEF RecordedBy
  <2>2. Passed(a)' = Passed(a)
      BY <1>1, <1>2, <1>7 DEF Passed
  <2> QED BY <1>5, <2>1, <2>2
<1> QED BY <1>6, <1>7

(* Every other step moves a thread along; only a call whose approval is    *)
(* not spent passes the check.                                             *)
LEMMA ReuseStep == ThreadInv /\ ThreadInv' /\ ReuseInv /\ [ThreadNext]_threadVars => ReuseInv'
<1> SUFFICES ASSUME ThreadInv, ThreadInv', ReuseInv, [ThreadNext]_threadVars PROVE ReuseInv'
    OBVIOUS
<1>1. CASE \E t \in Threads : ChangeSpend(t)
    BY <1>1, ReuseSpend
<1>2. CASE \E t \in Threads : ChangeEvent(t)
    BY <1>2, ReuseEvent
<1>3. ASSUME NEW t \in Threads, Start(t)
      PROVE  ReuseInv'
  <2>1. /\ pc[t] = "idle" /\ UNCHANGED <<events, usedApprovals>>
        /\ \A u \in Threads \ {t} : pc'[u] = pc[u] /\ req'[u] = req[u]
        /\ pc'[t] \in {"register.check", "change.target", "freeze.read"}
      BY <1>3 DEF Start, Call, vars, ThreadInv, ThreadTypeOK
  <2>2. \A a \in Approvals : Passed(a)' \subseteq Passed(a)
      BY <2>1 DEF Passed
  <2> QED BY <2>1, <2>2, ReuseKept
<1>4. ASSUME NEW t \in Threads, Step(t), ~ChangeSpend(t), ~ChangeEvent(t)
      PROVE  ReuseInv'
  <2>1. UNCHANGED <<events, usedApprovals>>
      BY <1>4 DEF Step, vars, RegisterCheck, RegisterStore, ChangeTarget, ChangeRead,
         ChangeCheck, ChangeChampion, FreezeRead, FreezeStore
  <2>2. \A u \in Threads \ {t} : pc'[u] = pc[u] /\ req'[u] = req[u]
      BY <1>4 DEF Step, RegisterCheck, RegisterStore, ChangeTarget, ChangeRead,
         ChangeCheck, ChangeChampion, FreezeRead, FreezeStore, Goto, Return,
         ThreadInv, ThreadTypeOK
  <2>3. \/ pc'[t] \notin {"change.champion", "change.spend", "change.event"}
        \/ req'[t] = req[t] /\ pc[t] = "change.champion"
        \/ req'[t] = req[t] /\ req[t] \notin usedApprovals
      BY <1>4 DEF Step, RegisterCheck, RegisterStore, ChangeTarget, ChangeRead,
         ChangeCheck, ChangeChampion, FreezeRead, FreezeStore, Goto, Return,
         ThreadInv, ThreadTypeOK, ChangeAllowed, ApprovalValid
  <2>4. \A a \in Approvals : a \in usedApprovals => Passed(a)' \subseteq Passed(a)
      BY <2>2, <2>3 DEF Passed
  <2> QED BY <2>1, <2>4, ReuseKept
<1>5. CASE UNCHANGED threadVars
    BY <1>5 DEF threadVars, vars, ReuseInv, RecordedBy, Passed
<1> QED BY <1>1, <1>2, <1>3, <1>4, <1>5 DEF ThreadNext, Done

(* However many calls present an approval, and whatever the interleaving   *)
(* of the unlocked reuse check with the spent set, at most one event per   *)
(* thread records it.                                                      *)
THEOREM ReusesAreBounded == ThreadSpec => []ReuseIsBounded
<1>1. ThreadInit => ReuseInv
    BY DEF ThreadInit, Init, ReuseInv
<1>2. ThreadInv /\ ReuseInv => ReuseIsBounded
  <2> SUFFICES ASSUME ThreadInv, ReuseInv, NEW a \in Approvals
               PROVE  Cardinality(RecordedBy(a)) <= Cardinality(Threads)
      BY DEF ReuseIsBounded, RecordedBy
  <2>1. /\ Cardinality(RecordedBy(a)) \in Nat /\ Cardinality(Passed(a)) \in Nat
        /\ Cardinality(Threads) \in Nat
        /\ a \notin usedApprovals => Cardinality(RecordedBy(a)) = 0
      BY ReuseCounts
  <2> QED BY <2>1 DEF ReuseInv
<1> QED BY ThreadInitInv, ThreadStep, ReuseStep, <1>1, <1>2, PTL DEF ThreadSpec
=============================================================================
