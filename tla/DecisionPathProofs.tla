-------------------------- MODULE DecisionPathProofs --------------------------
(***************************************************************************)
(* TLAPS proofs about DecisionPath: what a recorded decision says is true  *)
(* and stays recorded, and no session is frozen ahead of its day, for any  *)
(* number of threads, requests, rules files, versions, days, restarts and  *)
(* probes, with either backend.                                            *)
(***************************************************************************)
EXTENDS DecisionPath, SequenceTheorems, TLAPS

(* The registry's dictionaries, and: what is champion or frozen is         *)
(* registered.                                                             *)
RegistryOK ==
    /\ versions \in [Models -> [Versions -> Gov!ModelVersion \cup {None}]]
    /\ champions \in [Models -> Versions \cup {None}]
    /\ sessionChampions \in [Models -> [Sessions -> Versions \cup {None}]]
    /\ \A m \in Models : champions[m] # None => versions[m][champions[m]] # None
    /\ \A m \in Models, s \in Sessions :
          sessionChampions[m][s] # None => versions[m][sessionChampions[m][s]] # None

EnvOK ==
    /\ backend \in {"sqlite", "postgresql"}
    /\ boot \in Nat
    /\ rules \in Rules
    /\ today \in 1..MaxDay
    /\ reports \in Seq({reports[i] : i \in DOMAIN reports})

(* id is the identity that session s of model m is frozen to.              *)
Frozen(m, s, id) ==
    LET v == sessionChampions[m][s]
    IN  v # None /\ versions[m][v] # None /\ id = Identity(v, versions[m][v].artifact)

(* A production-ready GREEN capability report was saved.                   *)
GreenSeen ==
    \E i \in DOMAIN reports :
        reports[i] # None /\ reports[i].ready /\ reports[i].quality = "GREEN"

(* The gates of a LIVE request, whenever they were read.                   *)
LiveGatesOK(g) ==
    /\ "event_cleared" \in Closed(g)
    /\ "data_quality" \notin Closed(g) => GreenSeen

Shaped(j) ==
    j = [model |-> j.model, mode |-> j.mode, id |-> j.id, asOf |-> j.asOf,
         gates |-> j.gates, values |-> j.values, session |-> j.session,
         governed |-> j.governed]

(* What a request knows at each of its steps, and still holds when it is   *)
(* used: fields that are set, gates, session, governed identity.           *)
JobOK(loc, j) ==
    loc # "idle" =>
        /\ Shaped(j)
        /\ j.model \in Models /\ j.mode \in {"LIVE", "SCENARIO"}
        /\ j.mode = "LIVE" => LiveGatesOK(j.gates)
        /\ j.mode = "SCENARIO" => j.id \in ScenarioIds
        /\ loc \in {"freeze", "run"} => j.session \in Sessions
        /\ loc = "run" => \/ j.governed \in {Missing, Unavailable}
                          \/ j.governed = None /\ j.mode = "SCENARIO"
                          \/ Frozen(j.model, j.session, j.governed)

JobsOK ==
    /\ pc \in [Threads -> {"idle", "clock", "freeze", "run"}]
    /\ job = [t \in Threads |-> job[t]]
    /\ \A t \in Threads : JobOK(pc[t], job[t])

(* The reasons and the output of a decision are those of its snapshot      *)
(* under the rules its artifact was computed from.                         *)
Explained(d) ==
    \E r \in Rules :
        /\ d.artifact = r.artifact
        /\ d.reasons = Closed(d.snapshot.gates)
                         \cup (IF d.snapshot.governed # None
                                  /\ d.snapshot.governed # Identity(Baseline, r.artifact)
                               THEN {"MODEL_VERSION_NOT_LOADED"} ELSE {})
        /\ d.action = IF d.reasons = {} THEN "WAIT" ELSE "NO_TRADE"
        /\ d.output = IF d.reasons = {} THEN Strikes(d.snapshot.values, r) ELSE None

(* What a recorded decision promises, now and later.                       *)
DecisionOK(d) ==
    /\ d.model = Model /\ d.session \in Sessions /\ d.version = Baseline
    /\ d.boot \in Nat /\ d.boot <= boot
    /\ d.snapshot.governed = d.governed
    /\ Explained(d)
    /\ d.mode = "LIVE" => d.governed # None /\ LiveGatesOK(d.snapshot.gates)
    /\ RealIdentity(d) /\ SameRegistry(d) => Frozen(Model, d.session, d.governed)

DecisionsOK ==
    /\ decisions \in Seq(Recorded)
    /\ \A d \in Recorded : DecisionOK(d)

DecisionInv == RegistryOK /\ EnvOK /\ JobsOK /\ DecisionsOK /\ OneIdentityPerSession

-----------------------------------------------------------------------------
(* A step within one server start takes nothing away that a request or a   *)
(* decision relies on.                                                     *)
Kept ==
    /\ \A m \in Models, v \in Versions :
          versions[m][v] # None => versions'[m][v] = versions[m][v]
    /\ \A m \in Models, s \in Sessions :
          sessionChampions[m][s] # None => sessionChampions'[m][s] = sessionChampions[m][s]
    /\ GreenSeen => GreenSeen'
    /\ backend' = backend /\ boot' = boot

(* A frozen identity is frozen for good.                                   *)
LEMMA FrozenKept ==
    ASSUME RegistryOK, Kept, NEW m \in Models, NEW s \in Sessions, NEW id, Frozen(m, s, id)
    PROVE  Frozen(m, s, id)'
<1>1. sessionChampions[m][s] \in Versions
    BY DEF RegistryOK, Frozen
<1> QED BY <1>1 DEF Kept, Frozen

(* What a request knows stays true.                                        *)
LEMMA JobKept ==
    ASSUME RegistryOK, Kept, NEW loc, NEW j, JobOK(loc, j)
    PROVE  JobOK(loc, j)'
<1>1. LiveGatesOK(j.gates) => LiveGatesOK(j.gates)'
    BY DEF LiveGatesOK, Kept
<1>2. j.model \in Models /\ j.session \in Sessions /\ Frozen(j.model, j.session, j.governed)
          => Frozen(j.model, j.session, j.governed)'
    BY FrozenKept
<1> QED BY <1>1, <1>2, Zenon DEF JobOK

(* What a decision promises stays true.                                    *)
LEMMA DecisionKept ==
    ASSUME RegistryOK, Kept, NEW d, DecisionOK(d)
    PROVE  DecisionOK(d)'
<1>1. LiveGatesOK(d.snapshot.gates) => LiveGatesOK(d.snapshot.gates)'
    BY DEF LiveGatesOK, Kept
<1>2. d.session \in Sessions /\ Frozen(Model, d.session, d.governed)
          => Frozen(Model, d.session, d.governed)'
    BY FrozenKept DEF Models
<1>3. SameRegistry(d)' <=> SameRegistry(d)
    BY DEF SameRegistry, Kept
<1>4. boot' = boot
    BY DEF Kept
<1>5. (Explained(d)' <=> Explained(d)) /\ (RealIdentity(d)' <=> RealIdentity(d))
    BY DEF Explained, RealIdentity
<1> QED BY <1>1, <1>2, <1>3, <1>4, <1>5 DEF DecisionOK

(* Requests under way keep what they know.                                 *)
LEMMA JobsKept ==
    ASSUME RegistryOK, JobsOK, Kept, UNCHANGED <<pc, job>>
    PROVE  JobsOK'
BY JobKept, Zenon DEF JobsOK

(* What is recorded keeps its promises.                                    *)
LEMMA LogKept ==
    ASSUME RegistryOK, DecisionsOK, OneIdentityPerSession, Kept, UNCHANGED decisions
    PROVE  DecisionsOK' /\ OneIdentityPerSession'
<1>1. Recorded' = Recorded
    BY DEF Recorded
<1>2. \A d \in Recorded : DecisionOK(d)'
    BY DecisionKept DEF DecisionsOK
<1>3. DecisionsOK'
    BY <1>1, <1>2 DEF DecisionsOK
<1>4. OneIdentityPerSession'
    BY <1>1 DEF OneIdentityPerSession, Kept, RealIdentity
<1> QED BY <1>3, <1>4

(* A step that changes neither registry nor environment nor decisions.     *)
LEMMA SameIsKept ==
    ASSUME UNCHANGED <<govVars, envVars>>
    PROVE  Kept /\ (RegistryOK => RegistryOK') /\ (EnvOK => EnvOK')
<1>1. UNCHANGED <<versions, champions, sessionChampions, backend, boot, rules, today, reports>>
    BY DEF govVars, envVars
<1>2. Kept
    BY <1>1 DEF Kept, GreenSeen
<1>3. RegistryOK => RegistryOK'
    BY <1>1 DEF RegistryOK
<1>4. EnvOK => EnvOK'
    BY <1>1 DEF EnvOK
<1> QED BY <1>2, <1>3, <1>4

-----------------------------------------------------------------------------
(* Governance and environment.                                             *)

(* Governance leaves environment, requests and log alone.                  *)
LEMMA GovernInv ==
    ASSUME DecisionInv, RegistryOK', Kept, UNCHANGED <<envVars, pc, job, runs, decisions>>
    PROVE  DecisionInv'
<1>1. EnvOK'
    BY DEF DecisionInv, EnvOK, envVars
<1>2. JobsOK'
    BY JobsKept DEF DecisionInv
<1>3. DecisionsOK' /\ OneIdentityPerSession'
    BY LogKept DEF DecisionInv
<1> QED BY <1>1, <1>2, <1>3 DEF DecisionInv

(* A new version takes a free label.                                       *)
LEMMA RegisterInv ==
    ASSUME DecisionInv, NEW c \in Candidates, Register(c)
    PROVE  DecisionInv'
<1>1. /\ c \in Gov!ModelVersion /\ c.model \in Models /\ c.version \in Versions
    BY DecisionAssumption DEF Gov!ModelVersion
<1>2. /\ versions[c.model][c.version] = None
      /\ versions' = [versions EXCEPT ![c.model][c.version] = c]
      /\ UNCHANGED <<champions, sessionChampions>>
      /\ UNCHANGED <<envVars, pc, job, runs, decisions>>
    BY DEF Register, Govern, Gov!RegisterChallenger, Gov!MayRegister
<1>3. c # None
    BY <1>1, DecisionAssumption
<1>4. RegistryOK
    BY DEF DecisionInv
<1>5. \A m \in Models, v \in Versions :
          versions'[m][v] = IF m = c.model /\ v = c.version THEN c ELSE versions[m][v]
    BY <1>1, <1>2, <1>4 DEF RegistryOK
<1>6. versions' \in [Models -> [Versions -> Gov!ModelVersion \cup {None}]]
    BY <1>1, <1>2, <1>4 DEF RegistryOK
<1>7. RegistryOK'
    BY <1>2, <1>3, <1>4, <1>5, <1>6 DEF RegistryOK
<1>8. Kept
    BY <1>2, <1>5 DEF Kept, GreenSeen, envVars
<1> QED BY <1>2, <1>7, <1>8, GovernInv

(* promote and rollback install a registered version.                      *)
LEMMA ChangeInv ==
    ASSUME DecisionInv, NEW v \in Versions, NEW a \in Approvals,
           Promote(v, a) \/ Rollback(v, a)
    PROVE  DecisionInv'
<1>1. /\ versions[Model][v] # None
      /\ champions' = [champions EXCEPT ![Model] = v]
      /\ UNCHANGED <<versions, sessionChampions>>
      /\ UNCHANGED <<envVars, pc, job, runs, decisions>>
    BY DEF Promote, Rollback, Govern, Gov!Promote, Gov!Rollback
<1>2. RegistryOK'
    BY <1>1 DEF DecisionInv, RegistryOK, Models
<1>3. Kept
    BY <1>1 DEF Kept, GreenSeen, envVars
<1> QED BY <1>1, <1>2, <1>3, GovernInv

(* freeze_session fixes a session once, to the registered champion.        *)
LEMMA FreezeKeeps ==
    ASSUME RegistryOK, NEW m \in Models, NEW s \in Sessions, Gov!FreezeSession(m, s),
           UNCHANGED envVars
    PROVE  RegistryOK' /\ Kept /\ sessionChampions'[m][s] # None
<1>1. /\ champions[m] # None
      /\ sessionChampions' =
           [sessionChampions EXCEPT ![m][s] = IF @ = None THEN champions[m] ELSE @]
      /\ UNCHANGED <<versions, champions>>
    BY DEF Gov!FreezeSession
<1>2. \A n \in Models, x \in Sessions :
          sessionChampions'[n][x] =
              IF n = m /\ x = s /\ sessionChampions[n][x] = None THEN champions[m]
              ELSE sessionChampions[n][x]
    BY <1>1 DEF RegistryOK
<1>3. sessionChampions' \in [Models -> [Sessions -> Versions \cup {None}]]
    BY <1>1 DEF RegistryOK
<1>4. RegistryOK'
    BY <1>1, <1>2, <1>3 DEF RegistryOK
<1>5. Kept
    BY <1>1, <1>2 DEF Kept, GreenSeen, envVars
<1> QED BY <1>1, <1>2, <1>4, <1>5

(* The public champion endpoint freezes as a request does.                 *)
LEMMA FreezePublicInv ==
    ASSUME DecisionInv, NEW s \in Sessions, FreezePublic(s)
    PROVE  DecisionInv'
<1>1. Gov!FreezeSession(Model, s) /\ UNCHANGED <<envVars, pc, job, runs, decisions>>
    BY DEF FreezePublic, Govern
<1>2. RegistryOK' /\ Kept
    BY <1>1, FreezeKeeps DEF DecisionInv, Models, envVars
<1> QED BY <1>1, <1>2, GovernInv

(* The list of reports only grows.                                         *)
LEMMA ReportsGrow ==
    ASSUME EnvOK, NEW p, reports' = Append(reports, p)
    PROVE  /\ (reports \in Seq({reports[i] : i \in DOMAIN reports}))'
           /\ GreenSeen => GreenSeen'
<1> DEFINE S == {reports[i] : i \in DOMAIN reports}
<1>1. reports \in Seq(S) /\ reports \in Seq(S \cup {p}) /\ DOMAIN reports = 1..Len(reports)
    BY DEF EnvOK
<1>2. /\ reports' \in Seq(S \cup {p})
      /\ DOMAIN reports' = 1..(Len(reports) + 1)
      /\ \A i \in DOMAIN reports : reports'[i] = reports[i]
    BY <1>1
<1>3. reports' \in Seq({reports'[i] : i \in DOMAIN reports'})
    BY <1>2
<1>4. GreenSeen => GreenSeen'
    BY <1>1, <1>2 DEF GreenSeen
<1> QED BY <1>3, <1>4

(* A capability report is saved or lost.                                   *)
LEMMA ProbeInv ==
    ASSUME DecisionInv, NEW p, reports' = Append(reports, p),
           UNCHANGED <<govVars, backend, boot, rules, today, pc, job, runs, decisions>>
    PROVE  DecisionInv'
<1>1. RegistryOK'
    BY DEF DecisionInv, RegistryOK, govVars
<1>2. EnvOK'
    BY ReportsGrow DEF DecisionInv, EnvOK
<1>3. Kept
    BY ReportsGrow DEF DecisionInv, Kept, govVars
<1>4. JobsOK' /\ DecisionsOK' /\ OneIdentityPerSession'
    BY <1>3, JobsKept, LogKept DEF DecisionInv
<1> QED BY <1>1, <1>2, <1>4 DEF DecisionInv

(* The exchange date advances.                                             *)
LEMMA MidnightInv ==
    ASSUME DecisionInv, Midnight
    PROVE  DecisionInv'
<1>1. RegistryOK'
    BY DEF DecisionInv, RegistryOK, Midnight, govVars
<1>2. EnvOK'
    BY DecisionAssumption DEF DecisionInv, EnvOK, Midnight
<1>3. Kept
    BY DEF Kept, Midnight, govVars, GreenSeen
<1>4. JobsOK' /\ DecisionsOK' /\ OneIdentityPerSession'
    BY <1>3, JobsKept, LogKept DEF DecisionInv, Midnight
<1> QED BY <1>1, <1>2, <1>4 DEF DecisionInv

-----------------------------------------------------------------------------
(* Start-up and restart.                                                   *)

(* Registering the baseline adds a version and replaces none.              *)
LEMMA BaselineOK ==
    ASSUME NEW vs \in [Models -> [Versions -> Gov!ModelVersion \cup {None}]], NEW r \in Rules
    PROVE  /\ WithBaseline(vs, r) \in [Models -> [Versions -> Gov!ModelVersion \cup {None}]]
           /\ \A m \in Models, v \in Versions :
                 vs[m][v] # None => WithBaseline(vs, r)[m][v] = vs[m][v]
<1> DEFINE b == [model |-> Model, version |-> Baseline, parent |-> None,
                 artifact |-> r.artifact, report |-> None, trainedAt |-> 0]
<1>1. b \in Gov!ModelVersion
    BY DecisionAssumption DEF Gov!ModelVersion, Models, Artifacts
<1>2. Model \in Models /\ Baseline \in Versions
    BY DecisionAssumption DEF Models
<1>3. CASE \E v \in Versions : vs[Model][v] # None
    BY <1>3 DEF WithBaseline
<1>4. CASE ~\E v \in Versions : vs[Model][v] # None
    <2>1. WithBaseline(vs, r) = [vs EXCEPT ![Model][Baseline] = b]
        BY <1>4 DEF WithBaseline
    <2> HIDE DEF b
    <2> QED BY <1>1, <1>2, <1>4, <2>1
<1> QED BY <1>3, <1>4

(* An empty registry with the baseline.                                    *)
LEMMA FreshRegistry ==
    ASSUME NEW r \in Rules
    PROVE  WithBaseline(EmptyRegistry, r) \in [Models -> [Versions -> Gov!ModelVersion \cup {None}]]
<1>1. EmptyRegistry \in [Models -> [Versions -> Gov!ModelVersion \cup {None}]]
    BY DEF EmptyRegistry
<1> QED BY <1>1, BaselineOK

(* The first start satisfies the invariant.                                *)
LEMMA DecisionInit == Init => DecisionInv
<1> SUFFICES ASSUME Init PROVE DecisionInv
    OBVIOUS
<1>1. RegistryOK
    <2>1. versions \in [Models -> [Versions -> Gov!ModelVersion \cup {None}]]
        BY FreshRegistry, DecisionAssumption DEF Init
    <2> QED BY <2>1 DEF Init, RegistryOK
<1>2. EnvOK
    BY DecisionAssumption DEF Init, EnvOK
<1>3. JobsOK
    BY DEF Init, JobsOK, JobOK, Idle
<1>4. Recorded = {}
    BY DEF Init, Recorded
<1>5. DecisionsOK /\ OneIdentityPerSession
    BY <1>4 DEF Init, DecisionsOK, OneIdentityPerSession
<1> QED BY <1>1, <1>2, <1>3, <1>5 DEF DecisionInv

(* A restart drops the requests; what it drops of the registry no decision *)
(* relies on any more.                                                     *)
LEMMA RestartInv ==
    ASSUME DecisionInv, NEW r \in Rules, Restart(r)
    PROVE  DecisionInv'
<1>1. /\ boot' = boot + 1 /\ rules' = r /\ pc' = Idle /\ job' = [t \in Threads |-> None]
      /\ UNCHANGED <<backend, today, reports, decisions>>
    BY DEF Restart
<1>2. EnvOK'
    BY <1>1 DEF DecisionInv, EnvOK
<1>3. JobsOK'
    BY <1>1 DEF JobsOK, JobOK, Idle
<1>4. Recorded' = Recorded /\ (GreenSeen' <=> GreenSeen)
    BY <1>1 DEF Recorded, GreenSeen
<1>5. OneIdentityPerSession'
    BY <1>1, <1>4 DEF DecisionInv, OneIdentityPerSession, RealIdentity
<1>6. CASE backend = "sqlite"
    <2>1. /\ versions' = WithBaseline(EmptyRegistry, r)
          /\ champions' = [m \in Models |-> None]
          /\ sessionChampions' = [m \in Models |-> [s \in Sessions |-> None]]
        BY <1>6 DEF Restart
    <2>2. RegistryOK'
        BY <2>1, FreshRegistry DEF RegistryOK
    <2>3. ASSUME NEW d \in Recorded PROVE DecisionOK(d)'
        <3>1. DecisionOK(d) /\ boot \in Nat
            BY DEF DecisionInv, DecisionsOK, EnvOK
        <3>2. ~SameRegistry(d)' /\ d.boot <= boot'
            BY <1>1, <1>6, <3>1 DEF SameRegistry, DecisionOK
        <3>3. Explained(d)'
            BY <3>1 DEF DecisionOK, Explained
        <3> QED BY <1>4, <3>1, <3>2, <3>3 DEF DecisionOK, LiveGatesOK
    <2> QED BY <1>1, <1>2, <1>3, <1>4, <1>5, <2>2, <2>3 DEF DecisionInv, DecisionsOK
<1>7. CASE backend # "sqlite"
    <2>1. versions' = WithBaseline(versions, r) /\ UNCHANGED <<champions, sessionChampions>>
        BY <1>7 DEF Restart
    <2>2. RegistryOK
        BY DEF DecisionInv
    <2>3. /\ versions' \in [Models -> [Versions -> Gov!ModelVersion \cup {None}]]
          /\ \A m \in Models, v \in Versions :
                versions[m][v] # None => versions'[m][v] = versions[m][v]
        BY <2>1, <2>2, BaselineOK DEF RegistryOK
    <2>4. RegistryOK'
        BY <2>1, <2>2, <2>3 DEF RegistryOK
    <2>5. \A m \in Models, s \in Sessions : \A id : Frozen(m, s, id) => Frozen(m, s, id)'
        BY <2>1, <2>2, <2>3 DEF RegistryOK, Frozen
    <2>6. ASSUME NEW d \in Recorded PROVE DecisionOK(d)'
        <3>1. DecisionOK(d) /\ boot \in Nat
            BY DEF DecisionInv, DecisionsOK, EnvOK
        <3>2. SameRegistry(d) /\ d.boot <= boot'
            BY <1>1, <1>7, <3>1 DEF SameRegistry, DecisionOK, DecisionInv, EnvOK
        <3>3. Explained(d)' /\ (RealIdentity(d)' <=> RealIdentity(d))
            BY <3>1 DEF DecisionOK, Explained, RealIdentity
        <3>4. RealIdentity(d) => Frozen(Model, d.session, d.governed)'
            BY <2>5, <3>1, <3>2 DEF DecisionOK, Models
        <3> QED BY <1>4, <3>1, <3>2, <3>3, <3>4 DEF DecisionOK, LiveGatesOK
    <2> QED BY <1>1, <1>2, <1>3, <1>4, <1>5, <2>4, <2>6 DEF DecisionInv, DecisionsOK
<1> QED BY <1>6, <1>7

-----------------------------------------------------------------------------
(* The requests.                                                           *)

Locations == {"idle", "clock", "freeze", "run"}

(* A thread that moves to what it may know keeps the others' knowledge.    *)
LEMMA MoveJobs ==
    ASSUME RegistryOK, JobsOK, Kept, NEW t \in Threads, NEW loc \in Locations, NEW j,
           MoveTo(t, loc, j), JobOK(loc, j)'
    PROVE  JobsOK'
<1>1. /\ pc' \in [Threads -> Locations] /\ job' = [u \in Threads |-> job'[u]]
      /\ pc'[t] = loc /\ job'[t] = j
      /\ \A u \in Threads \ {t} : pc'[u] = pc[u] /\ job'[u] = job[u]
    BY DEF JobsOK, MoveTo, Locations
<1>2. ASSUME NEW u \in Threads PROVE JobOK(pc[u], job[u])'
    <2>1. CASE u = t
        BY <1>1, <2>1 DEF JobOK
    <2>2. CASE u # t
        <3>1. JobOK(pc[u], job[u])
            BY DEF JobsOK
        <3>2. pc'[u] = pc[u] /\ job'[u] = job[u]
            BY <1>1, <2>2
        <3>3. ASSUME NEW x, NEW y, JobOK(x, y) PROVE JobOK(x, y)'
            BY <3>3, JobKept
        <3> QED BY <3>1, <3>2, <3>3 DEF JobOK
    <2> QED BY <2>1, <2>2
<1> QED BY <1>1, <1>2 DEF JobsOK, Locations

(* A thread moves and nothing else happens.                                *)
LEMMA MoveInv ==
    ASSUME DecisionInv, NEW t \in Threads, NEW loc \in Locations, NEW j,
           MoveTo(t, loc, j), JobOK(loc, j), UNCHANGED <<govVars, envVars, decisions>>
    PROVE  DecisionInv'
<1>1. RegistryOK' /\ EnvOK' /\ Kept
    BY SameIsKept DEF DecisionInv
<1>2. JobOK(loc, j)'
    BY <1>1, JobKept DEF DecisionInv
<1>3. JobsOK'
    BY <1>1, <1>2, MoveJobs DEF DecisionInv
<1>4. DecisionsOK' /\ OneIdentityPerSession'
    BY <1>1, LogKept DEF DecisionInv
<1> QED BY <1>1, <1>3, <1>4 DEF DecisionInv

(* The gates of a LIVE request never clear it, and are free of the stale-  *)
(* data reason only if the latest capability report is GREEN and ready.    *)
LEMMA LiveGatesClosed == ASSUME EnvOK PROVE LiveGatesOK(LiveGates)
<1>1. "event_cleared" \in Closed(LiveGates)
    BY DEF Closed, LiveGates
<1>2. ASSUME "data_quality" \notin Closed(LiveGates) PROVE GreenSeen
    <2>1. LiveGates.data_quality = "GREEN"
        BY <1>2 DEF Closed, LiveGates
    <2>2. Latest # None /\ Latest.ready /\ Latest.quality = "GREEN"
        BY <2>1 DEF LiveGates, EffectiveQuality
    <2>3. reports # <<>> /\ Latest = reports[Len(reports)]
        BY <2>2 DEF Latest
    <2>4. Len(reports) \in DOMAIN reports
        BY <2>3 DEF EnvOK
    <2> QED BY <2>2, <2>3, <2>4 DEF GreenSeen
<1> QED BY <1>1, <1>2 DEF LiveGatesOK

(* The gates of a request are the caller's, or those of the moment.        *)
LEMMA ReadGatesInv ==
    ASSUME DecisionInv, NEW t \in Threads, NEW r \in Requests, ReadGates(t, r)
    PROVE  DecisionInv'
<1> DEFINE j == [model |-> r.model, mode |-> r.mode, id |-> r.id, asOf |-> r.asOf,
                 gates |-> IF r.mode = "LIVE" THEN LiveGates ELSE r.gates,
                 values |-> r.values, session |-> None, governed |-> None]
<1>1. MoveTo(t, "clock", j) /\ Valid(r) /\ UNCHANGED <<govVars, envVars, decisions>>
    BY DEF ReadGates
<1>2. /\ r.model \in Models /\ r.mode \in {"LIVE", "SCENARIO"}
      /\ r.id \in ScenarioIds \cup {None}
    BY DecisionAssumption
<1>3. r.mode = "SCENARIO" => r.id \in ScenarioIds
    BY <1>1, <1>2 DEF Valid
<1>4. LiveGatesOK(LiveGates)
    BY LiveGatesClosed DEF DecisionInv
<1>5. JobOK("clock", j)
    BY <1>2, <1>3, <1>4 DEF JobOK, Shaped
<1> HIDE DEF j
<1> QED BY <1>1, <1>5, MoveInv DEF Locations

(* Setting fields of a request leaves the others alone.                    *)
LEMMA DatedJob ==
    ASSUME NEW j, Shaped(j), NEW d, NEW s
    PROVE  [j EXCEPT !.asOf = d, !.session = s] =
               [model |-> j.model, mode |-> j.mode, id |-> j.id, asOf |-> d,
                gates |-> j.gates, values |-> j.values, session |-> s,
                governed |-> j.governed]
<1> DEFINE y == [j EXCEPT !.asOf = d]
<1>1. y = [model |-> j.model, mode |-> j.mode, id |-> j.id, asOf |-> d,
           gates |-> j.gates, values |-> j.values, session |-> j.session,
           governed |-> j.governed]
    BY DEF Shaped
<1>2. [j EXCEPT !.asOf = d, !.session = s] = [y EXCEPT !.session = s]
    OBVIOUS
<1> HIDE DEF y
<1>3. [y EXCEPT !.session = s] =
          [model |-> y.model, mode |-> y.mode, id |-> y.id, asOf |-> y.asOf,
           gates |-> y.gates, values |-> y.values, session |-> s, governed |-> y.governed]
    BY <1>1
<1> QED BY <1>1, <1>2, <1>3

(* The date fixes the session of a LIVE request.                           *)
LEMMA ReadClockInv ==
    ASSUME DecisionInv, NEW t \in Threads, ReadClock(t)
    PROVE  DecisionInv'
<1> DEFINE j == job[t]
           d == IF j.mode = "LIVE" THEN today ELSE j.asOf
           x == [j EXCEPT !.asOf = d,
                          !.session = IF j.mode = "LIVE" THEN <<"LIVE", d>>
                                      ELSE <<"SCENARIO", j.id>>]
<1>1. pc[t] = "clock" /\ MoveTo(t, "freeze", x) /\ UNCHANGED <<govVars, envVars, decisions>>
    BY DEF ReadClock
<1>2. JobOK("clock", j)
    BY <1>1 DEF DecisionInv, JobsOK
<1>3. x = [model |-> j.model, mode |-> j.mode, id |-> j.id, asOf |-> d,
           gates |-> j.gates, values |-> j.values,
           session |-> IF j.mode = "LIVE" THEN <<"LIVE", d>> ELSE <<"SCENARIO", j.id>>,
           governed |-> j.governed]
    <2>1. Shaped(j)
        BY <1>2 DEF JobOK
    <2> HIDE DEF j, d
    <2> QED BY <2>1, DatedJob
<1>4. today \in 1..MaxDay
    BY DEF DecisionInv, EnvOK
<1>5. (IF j.mode = "LIVE" THEN <<"LIVE", d>> ELSE <<"SCENARIO", j.id>>) \in Sessions
    BY <1>2, <1>4 DEF JobOK, Sessions
<1>6. JobOK("freeze", x)
    <2>1. /\ x.model = j.model /\ x.mode = j.mode /\ x.id = j.id /\ x.gates = j.gates
          /\ x.session \in Sessions
          /\ Shaped(x)
        BY <1>3, <1>5 DEF Shaped
    <2> HIDE DEF x, j
    <2> QED BY <1>2, <2>1 DEF JobOK
<1> HIDE DEF x
<1> QED BY <1>1, <1>6, MoveInv DEF Locations

(* Giving a request its governed identity.                                 *)
LEMMA GovernedJob ==
    ASSUME NEW j, JobOK("freeze", j), NEW id,
           \/ id \in {Missing, Unavailable}
           \/ id = None /\ j.mode = "SCENARIO"
           \/ Frozen(j.model, j.session, id)
    PROVE  JobOK("run", [j EXCEPT !.governed = id])
<1> DEFINE x == [j EXCEPT !.governed = id]
<1>1. x = [model |-> j.model, mode |-> j.mode, id |-> j.id, asOf |-> j.asOf,
           gates |-> j.gates, values |-> j.values, session |-> j.session, governed |-> id]
    BY DEF JobOK, Shaped
<1> HIDE DEF x
<1>2. /\ x.model = j.model /\ x.mode = j.mode /\ x.id = j.id /\ x.gates = j.gates
      /\ x.session = j.session /\ x.governed = id /\ Shaped(x)
    BY <1>1 DEF Shaped
<1>3. JobOK("run", x)
    BY <1>2 DEF JobOK
<1> QED BY <1>3 DEF x

(* The sentinels are not None.                                             *)
LEMMA SentinelsSet == Missing # None /\ Unavailable # None
BY DecisionAssumption DEF Missing, Unavailable, Identity, Sentinels

(* Without a champion, or before the freeze is committed, nothing is       *)
(* frozen.                                                                 *)
LEMMA FreezeFailedInv ==
    ASSUME DecisionInv, NEW t \in Threads, FreezeMissing(t) \/ FreezeUnavailable(t),
           UNCHANGED govVars
    PROVE  DecisionInv'
<1>1. JobOK("freeze", job[t])
    BY DEF DecisionInv, JobsOK, FreezeMissing, FreezeUnavailable
<1>2. PICK id \in {None, Missing, Unavailable} :
          /\ id = None => job[t].mode = "SCENARIO"
          /\ MoveTo(t, "run", [job[t] EXCEPT !.governed = id])
          /\ UNCHANGED <<govVars, envVars, decisions>>
    BY SentinelsSet DEF FreezeMissing, FreezeUnavailable
<1>3. JobOK("run", [job[t] EXCEPT !.governed = id])
    BY <1>1, <1>2, GovernedJob
<1> QED BY <1>2, <1>3, MoveInv DEF Locations

(* A freeze that is committed although its answer is lost.                 *)
LEMMA FreezeLostInv ==
    ASSUME DecisionInv, NEW t \in Threads, FreezeUnavailable(t),
           Gov!FreezeSession(job[t].model, job[t].session)
    PROVE  DecisionInv'
<1>1. JobOK("freeze", job[t])
    BY DEF DecisionInv, JobsOK, FreezeUnavailable
<1>2. PICK x : x = [job[t] EXCEPT !.governed = Unavailable]
    OBVIOUS
<1>3. MoveTo(t, "run", x) /\ UNCHANGED <<envVars, decisions>>
    BY <1>2 DEF FreezeUnavailable
<1>4. job[t].model \in Models /\ job[t].session \in Sessions
    BY <1>1 DEF JobOK
<1>5. RegistryOK' /\ Kept
    BY <1>3, <1>4, FreezeKeeps DEF DecisionInv
<1>6. JobOK("run", x)
    BY <1>1, <1>2, GovernedJob
<1>7. JobOK("run", x)'
    BY <1>5, <1>6, JobKept DEF DecisionInv
<1>8. JobsOK'
    BY <1>3, <1>5, <1>7, MoveJobs DEF DecisionInv, Locations
<1>9. DecisionsOK' /\ OneIdentityPerSession'
    BY <1>3, <1>5, LogKept DEF DecisionInv
<1>10. EnvOK'
    BY <1>3 DEF DecisionInv, EnvOK, envVars
<1> QED BY <1>5, <1>8, <1>9, <1>10 DEF DecisionInv

(* The request takes the identity its session is frozen to, be it by this  *)
(* step or by an earlier one.                                              *)
LEMMA FreezeChampionInv ==
    ASSUME DecisionInv, NEW t \in Threads, FreezeChampion(t)
    PROVE  DecisionInv'
<1>1. PICK j : j = job[t]
    OBVIOUS
<1>2. PICK v : v = sessionChampions'[j.model][j.session]
    OBVIOUS
<1>3. PICK id : id = Identity(v, versions[j.model][v].artifact)
    OBVIOUS
<1>4. PICK x : x = [j EXCEPT !.governed = id]
    OBVIOUS
<1>5. /\ pc[t] = "freeze" /\ Gov!FreezeSession(j.model, j.session)
      /\ MoveTo(t, "run", x)
      /\ UNCHANGED <<envVars, runs, decisions>>
    BY <1>1, <1>2, <1>3, <1>4 DEF FreezeChampion
<1>6. JobOK("freeze", j)
    BY <1>1, <1>5 DEF DecisionInv, JobsOK
<1>7. j.model \in Models /\ j.session \in Sessions
    BY <1>6 DEF JobOK
<1>8. RegistryOK' /\ Kept /\ v # None
    BY <1>2, <1>5, <1>7, FreezeKeeps DEF DecisionInv, envVars
<1>9. versions' = versions
    BY <1>5 DEF Gov!FreezeSession
<1>10. Frozen(j.model, j.session, id)'
    BY <1>2, <1>3, <1>7, <1>8, <1>9 DEF RegistryOK, Frozen
<1>11. JobOK("freeze", j)'
    BY <1>6, <1>8, JobKept DEF DecisionInv
<1>12. JobOK("run", x)'
    <2>1. /\ x.model = j.model /\ x.mode = j.mode /\ x.id = j.id /\ x.gates = j.gates
          /\ x.session = j.session /\ x.governed = id /\ Shaped(x)
        BY <1>4, <1>6 DEF JobOK, Shaped
    <2> QED BY <1>10, <1>11, <2>1 DEF JobOK
<1>13. JobsOK'
    BY <1>5, <1>8, <1>12, MoveJobs DEF DecisionInv, Locations
<1>14. DecisionsOK' /\ OneIdentityPerSession'
    BY <1>5, <1>8, LogKept DEF DecisionInv
<1>15. EnvOK'
    BY <1>5 DEF DecisionInv, EnvOK, envVars
<1> QED BY <1>8, <1>13, <1>14, <1>15 DEF DecisionInv

(* Rejections, and decisions whose append fails.                           *)
LEMMA FinishInv ==
    ASSUME DecisionInv, NEW t \in Threads, Finish(t), UNCHANGED decisions
    PROVE  DecisionInv'
<1>1. MoveTo(t, "idle", None) /\ UNCHANGED <<govVars, envVars>>
    BY DEF Finish
<1>2. JobOK("idle", None)
    BY DEF JobOK
<1> QED BY <1>1, <1>2, MoveInv DEF Locations

(* A decision that is recorded keeps its promises at that moment.          *)
LEMMA ResultOK ==
    ASSUME RegistryOK, EnvOK, NEW j, JobOK("run", j), j.model = Model
    PROVE  DecisionOK(Result(j))
<1> DEFINE d == Result(j)
<1>1. /\ d.model = Model /\ d.session = j.session /\ d.version = Baseline /\ d.boot = boot
      /\ d.mode = j.mode /\ d.governed = j.governed /\ d.artifact = rules.artifact
      /\ d.reasons = RunReasons(j)
      /\ d.action = (IF RunReasons(j) = {} THEN "WAIT" ELSE "NO_TRADE")
      /\ d.output = (IF RunReasons(j) = {} THEN Strikes(j.values, rules) ELSE None)
      /\ d.snapshot.governed = j.governed /\ d.snapshot.gates = j.gates
      /\ d.snapshot.values = j.values
    BY DEF Result, SnapshotOf
<1> HIDE DEF d
<1>2. j.session \in Sessions /\ j.model \in Models /\ boot \in Nat /\ rules \in Rules
    BY DEF JobOK, EnvOK
<1>3. Explained(d)
    BY <1>1, <1>2 DEF Explained, RunReasons, Loaded
<1>4. ASSUME Frozen(j.model, j.session, j.governed) PROVE j.governed # None
    <2>1. PICK v \in Versions : versions[j.model][v] \in Gov!ModelVersion
                                /\ j.governed = <<v, versions[j.model][v].artifact>>
        BY <1>2, <1>4 DEF Frozen, RegistryOK, Identity
    <2>2. j.governed \in Versions \X Artifacts
        BY <2>1 DEF Gov!ModelVersion
    <2> QED BY <2>2, DecisionAssumption
<1>5. j.mode = "LIVE" => j.governed # None /\ LiveGatesOK(j.gates)
    BY <1>4, SentinelsSet DEF JobOK
<1>6. RealIdentity(d) => Frozen(Model, j.session, j.governed)
    BY <1>1 DEF RealIdentity, JobOK
<1>7. DecisionOK(d)
    BY <1>1, <1>2, <1>3, <1>5, <1>6 DEF DecisionOK
<1> QED BY <1>7 DEF d

(* The log grows by one decision.                                          *)
LEMMA LogGrows ==
    ASSUME decisions \in Seq(Recorded), NEW d, decisions' = Append(decisions, d)
    PROVE  Recorded' = Recorded \cup {d} /\ (decisions \in Seq(Recorded))'
<1>1. decisions \in Seq(Recorded \cup {d}) /\ DOMAIN decisions = 1..Len(decisions)
    OBVIOUS
<1>2. /\ decisions' \in Seq(Recorded \cup {d}) /\ Len(decisions) \in Nat
      /\ DOMAIN decisions' = 1..(Len(decisions) + 1)
      /\ \A i \in 1..Len(decisions) : decisions'[i] = decisions[i]
      /\ decisions'[Len(decisions) + 1] = d
    BY <1>1
<1>3. Recorded' = Recorded \cup {d}
    BY <1>1, <1>2 DEF Recorded
<1> QED BY <1>2, <1>3

(* The decision is recorded, or its append fails.                          *)
LEMMA DecideInv ==
    ASSUME DecisionInv, NEW t \in Threads, Decide(t)
    PROVE  DecisionInv'
<1>1. CASE UNCHANGED decisions
    BY <1>1, FinishInv DEF Decide
<1>2. CASE decisions' = Append(decisions, Result(job[t]))
    <2>1. PICK d : d = Result(job[t])
        OBVIOUS
    <2>2. Finish(t) /\ pc[t] = "run" /\ job[t].model = Model
        BY DEF Decide
    <2>3. DecisionOK(d) /\ d.boot = boot
        <3>1. JobOK("run", job[t])
            BY <2>2 DEF DecisionInv, JobsOK
        <3>2. DecisionOK(Result(job[t]))
            BY <2>2, <3>1, ResultOK DEF DecisionInv
        <3> QED BY <2>1, <3>2 DEF Result
    <2>4. RegistryOK' /\ EnvOK' /\ Kept
        BY <2>2, SameIsKept DEF DecisionInv, Finish
    <2>5. JobsOK'
        <3>1. JobOK("idle", None)'
            BY DEF JobOK
        <3> QED BY <2>2, <2>4, <3>1, MoveJobs DEF DecisionInv, Finish, Locations
    <2>6. Recorded' = Recorded \cup {d} /\ (decisions \in Seq(Recorded))'
        BY <1>2, <2>1, LogGrows DEF DecisionInv, DecisionsOK
    <2>7. \A e \in Recorded \cup {d} : DecisionOK(e) /\ DecisionOK(e)'
        BY <2>3, <2>4, DecisionKept DEF DecisionInv, DecisionsOK
    <2>8. DecisionsOK'
        BY <2>6, <2>7 DEF DecisionsOK
    <2>9. \A e \in Recorded \cup {d} :
              /\ e.session = d.session /\ RealIdentity(d) /\ RealIdentity(e)
              /\ backend = "postgresql" \/ e.boot = d.boot
              => e.governed = d.governed
        BY <2>3, <2>7 DEF DecisionOK, SameRegistry, Frozen
    <2>10. OneIdentityPerSession'
        <3>1. backend' = backend
            BY <2>4 DEF Kept
        <3>2. ASSUME NEW e, NEW f, e \in Recorded \cup {d}, f \in Recorded \cup {d},
                     e.session = f.session, RealIdentity(e), RealIdentity(f),
                     backend = "postgresql" \/ e.boot = f.boot
              PROVE  e.governed = f.governed
            BY <2>9, <3>2 DEF DecisionInv, OneIdentityPerSession
        <3> QED BY <2>6, <3>1, <3>2 DEF OneIdentityPerSession, RealIdentity
    <2> QED BY <2>4, <2>5, <2>8, <2>10 DEF DecisionInv
<1> QED BY <1>1, <1>2 DEF Decide

-----------------------------------------------------------------------------
(* Every step keeps the invariant.                                         *)
LEMMA DecisionStep == DecisionInv /\ [Next]_vars => DecisionInv'
<1> SUFFICES ASSUME DecisionInv, [Next]_vars PROVE DecisionInv'
    OBVIOUS
<1>1. ASSUME NEW t \in Threads, NEW r \in Requests, ReadGates(t, r) PROVE DecisionInv'
    BY <1>1, ReadGatesInv
<1>2. ASSUME NEW t \in Threads, Handle(t) PROVE DecisionInv'
    <2>1. CASE Reject(t)
        BY <2>1, FinishInv DEF Reject
    <2>2. ASSUME FreezeMissing(t) \/ FreezeUnavailable(t) PROVE DecisionInv'
        BY <2>2, FreezeFailedInv, FreezeLostInv DEF FreezeMissing, FreezeUnavailable
    <2> QED BY <1>2, <2>1, <2>2, ReadClockInv, FreezeChampionInv, DecideInv DEF Handle
<1>3. ASSUME NEW c \in Candidates, Register(c) PROVE DecisionInv'
    BY <1>3, RegisterInv
<1>4. ASSUME NEW v \in Versions, NEW a \in Approvals, Promote(v, a) \/ Rollback(v, a)
      PROVE  DecisionInv'
    BY <1>4, ChangeInv
<1>5. ASSUME NEW s \in Sessions, FreezePublic(s) PROVE DecisionInv'
    BY <1>5, FreezePublicInv
<1>6. ASSUME NEW p \in Probes, SaveProbe(p) PROVE DecisionInv'
    BY <1>6, ProbeInv DEF SaveProbe
<1>7. ASSUME NEW r \in Rules, Restart(r) PROVE DecisionInv'
    BY <1>7, RestartInv
<1>8. CASE LoseProbe
    BY <1>8, ProbeInv DEF LoseProbe
<1>9. CASE Midnight
    BY <1>9, MidnightInv
<1>10. CASE UNCHANGED vars
    <2>1. UNCHANGED <<govVars, envVars, pc, job, runs, decisions>>
        BY <1>10 DEF vars
    <2>2. RegistryOK' /\ EnvOK' /\ Kept
        BY <2>1, SameIsKept DEF DecisionInv
    <2> QED BY <2>1, <2>2, GovernInv
<1> QED BY <1>1, <1>2, <1>3, <1>4, <1>5, <1>6, <1>7, <1>8, <1>9, <1>10 DEF Next

(* The invariant holds in every reachable state.                           *)
LEMMA DecisionInvariant == Spec => []DecisionInv
BY DecisionInit, DecisionStep, PTL DEF Spec

(* A WAIT decision with a governed identity ran exactly the version and    *)
(* artifact its session is frozen to, whatever was promoted, rolled back   *)
(* or reloaded meanwhile: DecisionRunner.run and freeze_session.           *)
THEOREM GovernedDecisionsRunTheirVersion == Spec => []GovernedRunsTheFrozenVersion
<1>1. DecisionInv => GovernedRunsTheFrozenVersion
    <2> SUFFICES ASSUME DecisionInv, NEW d \in Recorded, d.action = "WAIT", d.governed # None
                 PROVE  /\ d.governed = Identity(d.version, d.artifact)
                        /\ SameRegistry(d) =>
                             LET v == sessionChampions[Model][d.session]
                             IN  v = d.version /\ versions[Model][v].artifact = d.artifact
        BY DEF GovernedRunsTheFrozenVersion
    <2>1. DecisionOK(d)
        BY DEF DecisionInv, DecisionsOK
    <2>2. d.reasons = {} /\ d.governed = Identity(Baseline, d.artifact) /\ d.version = Baseline
        BY <2>1 DEF DecisionOK, Explained
    <2>3. RealIdentity(d)
        <3>1. Baseline \notin Sentinels
            BY DecisionAssumption
        <3> QED BY <2>2, <3>1 DEF RealIdentity, Missing, Unavailable, Identity, Sentinels
    <2>4. SameRegistry(d) => Frozen(Model, d.session, d.governed)
        BY <2>1, <2>3 DEF DecisionOK
    <2> QED BY <2>2, <2>4 DEF Frozen, Identity
<1> QED BY <1>1, DecisionInvariant, PTL

(* All governed decisions of a session name one version and artifact, for  *)
(* ever with PostgreSQL, within one server start with sqlite.              *)
THEOREM SessionsKeepTheirIdentity == Spec => []OneIdentityPerSession
<1>1. DecisionInv => OneIdentityPerSession
    BY DEF DecisionInv
<1> QED BY <1>1, DecisionInvariant, PTL

(* A LIVE decision is NO_TRADE and governed, says so when it could not be  *)
(* governed, and is free of the stale-data reason only after a GREEN       *)
(* production-ready report: run_decision with _live_gate_context.          *)
THEOREM LiveDecisionsFailClosed == Spec => []LiveFailsClosed
<1>1. DecisionInv => LiveFailsClosed
    <2> SUFFICES ASSUME DecisionInv, NEW d \in Recorded, d.mode = "LIVE"
                 PROVE  /\ d.action = "NO_TRADE"
                        /\ d.governed # None
                        /\ ~RealIdentity(d) => "MODEL_VERSION_NOT_LOADED" \in d.reasons
                        /\ "data_quality" \notin d.reasons => GreenSeen
        BY DEF LiveFailsClosed, GreenSeen
    <2>1. DecisionOK(d)
        BY DEF DecisionInv, DecisionsOK
    <2>2. d.governed # None /\ LiveGatesOK(d.snapshot.gates)
        BY <2>1 DEF DecisionOK
    <2>3. Closed(d.snapshot.gates) \subseteq d.reasons
        BY <2>1 DEF DecisionOK, Explained
    <2>4. d.action = "NO_TRADE"
        BY <2>1, <2>2, <2>3 DEF DecisionOK, Explained, LiveGatesOK
    <2>5. ASSUME ~RealIdentity(d) PROVE "MODEL_VERSION_NOT_LOADED" \in d.reasons
        <3>1. d.governed \in {Missing, Unavailable}
            BY <2>2, <2>5 DEF RealIdentity
        <3>2. \A a : d.governed # Identity(Baseline, a)
            <4>1. Baseline \notin Sentinels
                BY DecisionAssumption
            <4> QED BY <3>1, <4>1 DEF Missing, Unavailable, Identity, Sentinels
        <3> QED BY <2>1, <2>2, <3>2 DEF DecisionOK, Explained
    <2> QED BY <2>2, <2>3, <2>4, <2>5 DEF LiveGatesOK
<1> QED BY <1>1, DecisionInvariant, PTL

(* Two decisions with one snapshot made by one artifact agree in action,   *)
(* reasons and output: what freeze_snapshot hashes is all the runner uses. *)
THEOREM SnapshotsExplainDecisions == Spec => []SnapshotDeterminesDecision
<1>1. DecisionInv => SnapshotDeterminesDecision
    <2> SUFFICES ASSUME DecisionInv, NEW d \in Recorded, NEW e \in Recorded,
                        d.snapshot = e.snapshot, d.artifact = e.artifact
                 PROVE  d.action = e.action /\ d.reasons = e.reasons /\ d.output = e.output
        BY DEF SnapshotDeterminesDecision
    <2>1. Explained(d) /\ Explained(e)
        BY DEF DecisionInv, DecisionsOK, DecisionOK
    <2>2. \A r, s \in Rules : r.artifact = s.artifact => r = s
        BY DecisionAssumption
    <2> QED BY <2>1, <2>2 DEF Explained
<1> QED BY <1>1, DecisionInvariant, PTL

-----------------------------------------------------------------------------
(* No LIVE session is frozen ahead of its day.                             *)

NotAhead(s, day) == s[1] = "LIVE" => s[2] <= day

(* A request that is about to freeze has a session of today or before, and *)
(* so has what is frozen.                                                  *)
DatesOK ==
    /\ \A t \in Threads : pc[t] = "freeze" => NotAhead(job[t].session, today)
    /\ \A s \in Sessions : sessionChampions[Model][s] # None => NotAhead(s, today)

(* A day that is not ahead stays so, since the clock does not go back.     *)
LEMMA DatesKept ==
    ASSUME DecisionInv, DatesOK, today \in Nat, today' \in Nat, today <= today',
           \A t \in Threads : pc'[t] = "freeze" =>
               (pc[t] = "freeze" /\ job'[t] = job[t]) \/ NotAhead(job'[t].session, today'),
           \A s \in Sessions : sessionChampions'[Model][s] # None =>
               sessionChampions[Model][s] # None \/ NotAhead(s, today),
           \A t \in Threads : pc[t] = "freeze" => job[t].session \in Sessions
    PROVE  DatesOK'
<1>1. ASSUME NEW s \in Sessions, NotAhead(s, today) PROVE NotAhead(s, today')
  <2>1. s[1] = "LIVE" => s[2] \in Nat
    BY DecisionAssumption DEF Sessions
  <2> QED BY <1>1, <2>1 DEF NotAhead
<1>2. \A t \in Threads : pc'[t] = "freeze" => NotAhead(job'[t].session, today')
    BY <1>1 DEF DatesOK, NotAhead
<1>3. \A s \in Sessions : sessionChampions'[Model][s] # None => NotAhead(s, today')
    BY <1>1 DEF DatesOK
<1> QED BY <1>2, <1>3 DEF DatesOK, NotAhead

(* The steps that freeze nothing and bring no request to the freeze.       *)
LEMMA DatesRest ==
    ASSUME DecisionInv, DatesOK, today' \in Nat, today <= today',
           \A t \in Threads : pc'[t] = "freeze" => pc[t] = "freeze" /\ job'[t] = job[t],
           \A s \in Sessions :
               sessionChampions'[Model][s] # None => sessionChampions[Model][s] # None
    PROVE  DatesOK'
<1>1. today \in Nat /\ \A t \in Threads : pc[t] = "freeze" => job[t].session \in Sessions
    BY DecisionAssumption DEF DecisionInv, EnvOK, JobsOK, JobOK
<1> QED BY <1>1, DatesKept

(* A freeze by session s, which is not ahead.                              *)
LEMMA FreezeDates ==
    ASSUME DecisionInv, DatesOK, NEW m \in Models, NEW s \in Sessions, NotAhead(s, today),
           Gov!FreezeSession(m, s), today' = today,
           \A t \in Threads : pc'[t] = "freeze" => pc[t] = "freeze" /\ job'[t] = job[t]
    PROVE  DatesOK'
<1>1. today \in Nat /\ \A t \in Threads : pc[t] = "freeze" => job[t].session \in Sessions
    BY DecisionAssumption DEF DecisionInv, EnvOK, JobsOK, JobOK
<1>2. sessionChampions' =
          [sessionChampions EXCEPT ![m][s] = IF @ = None THEN champions[m] ELSE @]
    BY DEF Gov!FreezeSession
<1>3. \A x \in Sessions : sessionChampions'[Model][x] = sessionChampions[Model][x] \/ x = s
    BY <1>2 DEF DecisionInv, RegistryOK, Models
<1> QED BY <1>1, <1>3, DatesKept

(* What a step of a request does to pc and job.                            *)
LEMMA MovedAway ==
    ASSUME DecisionInv, NEW t \in Threads, NEW loc, loc # "freeze", NEW j, MoveTo(t, loc, j)
    PROVE  \A u \in Threads : pc'[u] = "freeze" => pc[u] = "freeze" /\ job'[u] = job[u]
BY DEF DecisionInv, JobsOK, MoveTo

(* Every step keeps the dates.                                             *)
LEMMA DatesStep == ASSUME DecisionInv, DatesOK, [Next]_vars PROVE DatesOK'
<1>0. today \in Nat
    BY DecisionAssumption DEF DecisionInv, EnvOK
<1>1. ASSUME NEW t \in Threads, NEW r \in Requests, ReadGates(t, r) PROVE DatesOK'
  <2>1. PICK j : MoveTo(t, "clock", j)
    BY <1>1 DEF ReadGates
  <2>2. UNCHANGED <<sessionChampions, today>>
    BY <1>1 DEF ReadGates, govVars, envVars
  <2> QED BY <1>0, <2>1, <2>2, MovedAway, DatesRest
<1>2. ASSUME NEW t \in Threads, ReadClock(t) PROVE DatesOK'
  <2> DEFINE j == job[t]
             d == IF j.mode = "LIVE" THEN today ELSE j.asOf
             x == [j EXCEPT !.asOf = d,
                            !.session = IF j.mode = "LIVE" THEN <<"LIVE", d>>
                                        ELSE <<"SCENARIO", j.id>>]
  <2>1. pc[t] = "clock" /\ MoveTo(t, "freeze", x) /\ UNCHANGED <<sessionChampions, today>>
    BY <1>2 DEF ReadClock, govVars, envVars
  <2>2. Shaped(j)
    BY <2>1 DEF DecisionInv, JobsOK, JobOK
  <2>3. x.session = IF j.mode = "LIVE" THEN <<"LIVE", d>> ELSE <<"SCENARIO", j.id>>
    <3> HIDE DEF j, d
    <3> QED BY <2>2, DatedJob
  <2>4. NotAhead(x.session, today')
    BY <1>0, <2>1, <2>3 DEF NotAhead
  <2> HIDE DEF x
  <2>5. job'[t] = x /\ \A u \in Threads \ {t} : pc'[u] = pc[u] /\ job'[u] = job[u]
    BY <2>1 DEF DecisionInv, JobsOK, MoveTo
  <2>6. \A u \in Threads : pc'[u] = "freeze" =>
            (pc[u] = "freeze" /\ job'[u] = job[u]) \/ NotAhead(job'[u].session, today')
    BY <2>4, <2>5 DEF NotAhead
  <2>7. \A u \in Threads : pc[u] = "freeze" => job[u].session \in Sessions
    BY DEF DecisionInv, JobsOK, JobOK
  <2> QED BY <1>0, <2>1, <2>6, <2>7, DatesKept
<1>3. ASSUME NEW t \in Threads, FreezeChampion(t) \/ FreezeUnavailable(t),
             Gov!FreezeSession(job[t].model, job[t].session)
      PROVE  DatesOK'
  <2>1. PICK m, s : m = job[t].model /\ s = job[t].session
    OBVIOUS
  <2>2. PICK j : MoveTo(t, "run", j)
    BY <1>3 DEF FreezeChampion, FreezeUnavailable
  <2>3. pc[t] = "freeze" /\ Gov!FreezeSession(m, s) /\ today' = today
    BY <1>3, <2>1 DEF FreezeChampion, FreezeUnavailable, envVars
  <2>4. m \in Models /\ s \in Sessions
    BY <2>1, <2>3 DEF DecisionInv, JobsOK, JobOK
  <2>5. NotAhead(s, today)
    BY <2>1, <2>3 DEF DatesOK
  <2> QED BY <2>2, <2>3, <2>4, <2>5, MovedAway, FreezeDates
<1>4. ASSUME NEW t \in Threads,
             \/ FreezeMissing(t) \/ Reject(t) \/ Decide(t)
             \/ FreezeUnavailable(t) /\ UNCHANGED govVars
      PROVE  DatesOK'
  <2>1. PICK loc, j : loc \in {"idle", "run"} /\ MoveTo(t, loc, j)
    BY <1>4 DEF FreezeMissing, FreezeUnavailable, Reject, Decide, Finish
  <2>2. UNCHANGED <<sessionChampions, today>>
    BY <1>4 DEF FreezeMissing, FreezeUnavailable, Reject, Decide, Finish, govVars, envVars
  <2> QED BY <1>0, <2>1, <2>2, MovedAway, DatesRest
<1>5. ASSUME NEW c \in Candidates, Register(c) PROVE DatesOK'
    BY <1>0, <1>5, DatesRest DEF Register, Govern, envVars, Gov!RegisterChallenger
<1>6. ASSUME NEW v \in Versions, NEW a \in Approvals, Promote(v, a) \/ Rollback(v, a)
      PROVE  DatesOK'
    BY <1>0, <1>6, DatesRest
       DEF Promote, Rollback, Govern, envVars, Gov!Promote, Gov!Rollback
<1>7. ASSUME NEW s \in Sessions, FreezePublic(s) PROVE DatesOK'
  <2>1. Gov!FreezeSession(Model, s) /\ UNCHANGED <<today, pc, job>> /\ s[1] = "SCENARIO"
    BY <1>7 DEF FreezePublic, Govern, PublicSession, envVars
  <2>2. NotAhead(s, today)
    BY <2>1 DEF NotAhead
  <2> QED BY <2>1, <2>2, FreezeDates DEF Models
<1>8. ASSUME NEW p \in Probes, SaveProbe(p) PROVE DatesOK'
    BY <1>0, <1>8, DatesRest DEF SaveProbe, govVars
<1>9. ASSUME NEW r \in Rules, Restart(r) PROVE DatesOK'
  <2>1. today' = today /\ pc' = Idle
    BY <1>9 DEF Restart
  <2>2. \A s \in Sessions :
            sessionChampions'[Model][s] # None => sessionChampions[Model][s] # None
    BY <1>9 DEF Restart, Models
  <2>3. \A t \in Threads : pc'[t] # "freeze"
    BY <2>1 DEF Idle
  <2> QED BY <1>0, <2>1, <2>2, <2>3, DatesRest
<1>10. CASE LoseProbe
    BY <1>0, <1>10, DatesRest DEF LoseProbe, govVars
<1>11. CASE Midnight
  <2>1. today' = today + 1 /\ UNCHANGED <<sessionChampions, pc, job>>
    BY <1>11 DEF Midnight, govVars
  <2> QED BY <1>0, <2>1, DatesRest
<1>12. CASE UNCHANGED vars
    BY <1>0, <1>12, DatesRest DEF vars, govVars, envVars
<1>13. ASSUME NEW t \in Threads, FreezeChampion(t) \/ FreezeUnavailable(t) PROVE DatesOK'
  <2>1. \/ Gov!FreezeSession(job[t].model, job[t].session)
        \/ FreezeUnavailable(t) /\ UNCHANGED govVars
    BY <1>13 DEF FreezeChampion, FreezeUnavailable
  <2> QED BY <1>3, <1>4, <1>13, <2>1
<1> QED BY <1>1, <1>2, <1>4, <1>5, <1>6, <1>7, <1>8, <1>9, <1>10, <1>11, <1>12, <1>13
           DEF Next, Handle

(* Neither a scenario nor the public champion endpoint fixes a coming LIVE *)
(* session to the champion of today: its freeze is by a run that read the  *)
(* clock on that day or later (_governance_session_id, champion).          *)
THEOREM LiveSessionsWaitForTheirDay == Spec => []LiveSessionsAreNotPreFrozen
<1>1. Init => DatesOK
    BY DEF Init, Idle, DatesOK, Models
<1>2. DecisionInv /\ DatesOK /\ [Next]_vars => DatesOK'
    BY DatesStep
<1>3. DatesOK => LiveSessionsAreNotPreFrozen
  <2> SUFFICES ASSUME DatesOK, NEW d \in 1..MaxDay,
                      sessionChampions[Model][<<"LIVE", d>>] # None
               PROVE  d <= today
    BY DEF LiveSessionsAreNotPreFrozen
  <2>1. <<"LIVE", d>> \in Sessions
    BY DEF Sessions
  <2>2. NotAhead(<<"LIVE", d>>, today)
    BY <2>1 DEF DatesOK
  <2> QED BY <2>2 DEF NotAhead
<1> QED BY <1>1, <1>2, <1>3, DecisionInvariant, PTL DEF Spec

-----------------------------------------------------------------------------
(* The decision log, and a freeze in PostgreSQL.                           *)

LEMMA LogStep ==
    ASSUME DecisionInv, [Next]_vars
    PROVE  decisions' = decisions \/ \E d : decisions' = Append(decisions, d)
<1>1. ASSUME NEW t \in Threads, NEW r \in Requests, ReadGates(t, r)
      PROVE  decisions' = decisions
    BY <1>1 DEF ReadGates
<1>2. ASSUME NEW t \in Threads, Handle(t), ~Decide(t) PROVE decisions' = decisions
    BY <1>2 DEF Handle, ReadClock, FreezeChampion, FreezeMissing, FreezeUnavailable, Reject
<1>3. ASSUME NEW t \in Threads, Decide(t)
      PROVE  decisions' = decisions \/ decisions' = Append(decisions, Result(job[t]))
    BY <1>3 DEF Decide
<1>4. ASSUME \/ \E c \in Candidates : Register(c)
             \/ \E v \in Versions, a \in Approvals : Promote(v, a) \/ Rollback(v, a)
             \/ \E s \in Sessions : FreezePublic(s)
      PROVE  decisions' = decisions
    BY <1>4 DEF Register, Promote, Rollback, FreezePublic, Govern
<1>5. ASSUME \/ \E p \in Probes : SaveProbe(p)
             \/ \E r \in Rules : Restart(r)
             \/ LoseProbe \/ Midnight \/ UNCHANGED vars
      PROVE  decisions' = decisions
    BY <1>5 DEF SaveProbe, Restart, LoseProbe, Midnight, vars
<1> QED BY <1>1, <1>2, <1>3, <1>4, <1>5 DEF Next

LEMMA FreezeStep ==
    ASSUME DecisionInv, [Next]_vars, backend = "postgresql", NEW s \in Sessions,
           sessionChampions[Model][s] # None
    PROVE  sessionChampions'[Model][s] = sessionChampions[Model][s]
<1>1. ASSUME NEW m \in Models, NEW x \in Sessions, Gov!FreezeSession(m, x)
      PROVE  sessionChampions'[Model][s] = sessionChampions[Model][s]
    BY <1>1 DEF Gov!FreezeSession, DecisionInv, RegistryOK, Models
<1>2. ASSUME NEW t \in Threads, FreezeChampion(t) \/ FreezeUnavailable(t)
      PROVE  sessionChampions'[Model][s] = sessionChampions[Model][s]
  <2>1. job[t].model \in Models /\ job[t].session \in Sessions
    BY <1>2 DEF FreezeChampion, FreezeUnavailable, DecisionInv, JobsOK, JobOK
  <2>2. \/ Gov!FreezeSession(job[t].model, job[t].session)
        \/ sessionChampions' = sessionChampions
    BY <1>2 DEF FreezeChampion, FreezeUnavailable, govVars
  <2> QED BY <1>1, <2>1, <2>2
<1>3. ASSUME NEW x \in Sessions, FreezePublic(x)
      PROVE  sessionChampions'[Model][s] = sessionChampions[Model][s]
    BY <1>1, <1>3 DEF FreezePublic, Govern, Models
<1>4. ASSUME \/ \E t \in Threads, r \in Requests : ReadGates(t, r)
             \/ \E t \in Threads :
                   ReadClock(t) \/ FreezeMissing(t) \/ Reject(t) \/ Decide(t)
      PROVE  sessionChampions' = sessionChampions
    BY <1>4 DEF ReadGates, ReadClock, FreezeMissing, Reject, Decide, Finish, govVars
<1>5. ASSUME \/ \E c \in Candidates : Register(c)
             \/ \E v \in Versions, a \in Approvals : Promote(v, a) \/ Rollback(v, a)
      PROVE  sessionChampions' = sessionChampions
    BY <1>5 DEF Register, Promote, Rollback, Govern, Gov!RegisterChallenger, Gov!Promote,
                Gov!Rollback
<1>6. ASSUME \/ \E p \in Probes : SaveProbe(p)
             \/ \E r \in Rules : Restart(r)
             \/ LoseProbe \/ Midnight \/ UNCHANGED vars
      PROVE  sessionChampions' = sessionChampions
    BY <1>6 DEF SaveProbe, Restart, LoseProbe, Midnight, vars, govVars
<1> QED BY <1>2, <1>3, <1>4, <1>5, <1>6 DEF Next, Handle

(* The decision log only grows, across restarts too, and in PostgreSQL a   *)
(* freeze is never changed or lost (append, freeze_session).               *)
THEOREM DecisionsAreKept == Spec => DecisionsSurvive
<1>1. ASSUME DecisionInv, [Next]_vars
      PROVE  [ /\ Len(decisions') >= Len(decisions)
               /\ SubSeq(decisions', 1, Len(decisions)) = decisions
               /\ backend = "postgresql" =>
                    \A s \in Sessions : sessionChampions[Model][s] # None =>
                        sessionChampions'[Model][s] = sessionChampions[Model][s] ]_vars
  <2>1. decisions \in Seq(Recorded)
    BY <1>1 DEF DecisionInv, DecisionsOK
  <2>2. ASSUME decisions' = decisions
        PROVE  /\ Len(decisions') >= Len(decisions)
               /\ SubSeq(decisions', 1, Len(decisions)) = decisions
    <3>1. SubSeq(decisions, 1, Len(decisions)) = decisions
        BY <2>1, SubSeqFull
    <3> QED BY <2>1, <2>2, <3>1
  <2>3. ASSUME NEW d, decisions' = Append(decisions, d)
        PROVE  /\ Len(decisions') >= Len(decisions)
               /\ SubSeq(decisions', 1, Len(decisions)) = decisions
    BY <2>1, <2>3
  <2>4. /\ Len(decisions') >= Len(decisions)
        /\ SubSeq(decisions', 1, Len(decisions)) = decisions
    BY <1>1, <2>1, <2>2, <2>3, LogStep
  <2> QED BY <1>1, <2>4, FreezeStep
<1> QED BY <1>1, DecisionInvariant, PTL DEF Spec, DecisionsSurvive
=============================================================================
