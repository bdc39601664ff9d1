----------------------------- MODULE DecisionPath -----------------------------
(***************************************************************************)
(* A decision request from its HTTP handler (services/api.py,              *)
(* run_decision) to the recorded decision: the safety gates are read, the  *)
(* clock is read, the governed champion is frozen for the session, the     *)
(* runner compares it with the model that is loaded, and the decision is   *)
(* appended to the audit log.  Requests run on several threads while       *)
(* champions are promoted and rolled back, capability probes are saved by  *)
(* the probe command, midnight passes, and the server restarts, possibly   *)
(* with other rules.                                                       *)
(*                                                                         *)
(* The registry is the one of ChampionRegistry, one step per call          *)
(* (RegistryThreads and PgGovernance model what happens inside a call).    *)
(* With the sqlite backend it lives in memory and a restart empties it;    *)
(* with the postgresql backend it is durable.  Decisions are durable with  *)
(* both.  A snapshot identifier is the hash of what was frozen, so it is   *)
(* identified with that content.                                           *)
(***************************************************************************)
EXTENDS Integers, Sequences, FiniteSets

CONSTANTS
    Model,             \* the model id that is loaded (and governed)
    OtherModel,        \* a model id no model is loaded for
    Baseline,          \* BASELINE_VERSION, the version label that is loaded
    Versions, Reports, Notes, None,
    Candidates,        \* the challengers callers register
    Approvals,         \* the approvals callers present
    Rules,             \* rules files: [rules, artifact, increment, wing]
    FirstRules,        \* the rules file of the first start
    ScenarioIds,       \* scenario_session_id values
    Requests,          \* the DecisionRunInput records callers send
    Probes,            \* CapabilityReports the probe command saves
    Threads,           \* request threads
    MaxDay,            \* bound: days the server clock runs
    MaxRuns,           \* bound: requests handled
    MaxBoots,          \* bound: times the server is started
    MaxProbes          \* bound: capability reports saved

Models    == {Model, OtherModel}
Artifacts == {r.artifact : r \in Rules} \cup {c.artifact : c \in Candidates}
Sessions  == ({"LIVE"} \X (1..MaxDay)) \cup ({"SCENARIO"} \X ScenarioIds)

VARIABLES
    versions, champions, sessionChampions, events, usedApprovals, \* registry
    backend,           \* MARKETPILOT_AUDIT_BACKEND
    boot,              \* how often the server was started
    rules,             \* rules_config of this start; fixes the loaded artifact
    today,             \* the server clock, by exchange date
    reports,           \* capability reports saved, oldest first; None when
                       \* latest.json became unreadable
    pc, job,           \* per thread: where its request is, and what it holds
    runs,              \* requests begun
    decisions          \* the audit log of decisions

govVars == <<versions, champions, sessionChampions, events, usedApprovals>>
envVars == <<backend, boot, rules, today, reports>>
vars    == <<govVars, envVars, pc, job, runs, decisions>>

Gov == INSTANCE ChampionRegistry WITH BootstrapRollback <- TRUE

(* Callers' records are well-formed (DecisionRunInput, domain/governance), *)
(* an artifact hash determines the rules it was computed from, the         *)
(* sentinels are no version labels, and None is none of the values it      *)
(* stands beside.                                                          *)
Sentinels == {"GOVERNANCE_CHAMPION_MISSING", "GOVERNANCE_BACKEND_UNAVAILABLE"}

ASSUME DecisionAssumption ==
    /\ Candidates \subseteq Gov!ModelVersion /\ Approvals \subseteq Gov!GovernanceApproval
    /\ Baseline \in Versions /\ FirstRules \in Rules /\ MaxDay \in Nat \ {0}
    /\ \A r, s \in Rules : r.artifact = s.artifact => r = s
    /\ \A r \in Requests : /\ r.model \in Models /\ r.mode \in {"LIVE", "SCENARIO"}
                            /\ r.id \in ScenarioIds \cup {None}
    /\ Versions \cap Sentinels = {}
    /\ None \notin Versions /\ None \notin Gov!ModelVersion
    /\ None \notin (Versions \cup Sentinels) \X (Artifacts \cup Sentinels)

-----------------------------------------------------------------------------
(* The pure parts.                                                         *)

(* RiskGate.evaluate: every closed gate adds its reason.                   *)
Closed(g) ==
    {x \in DOMAIN g : CASE x = "data_quality" -> g[x] # "GREEN"
                        [] x \in {"unscheduled_shock", "tail_expanding",
                                  "next_major_event_in_holding_period"} -> g[x]
                        [] OTHER -> ~g[x]}

(* _effective_capability_quality: an unverified provider is AMBER at best. *)
EffectiveQuality(quality, ready) ==
    IF ready THEN quality ELSE IF quality = "RED" THEN "RED" ELSE "AMBER"

(* CapabilityReportStore.latest, then _live_gate_context.                  *)
Latest == IF reports = <<>> THEN None ELSE reports[Len(reports)]

LiveGates ==
    [data_quality |-> IF Latest = None THEN "RED"
                      ELSE EffectiveQuality(Latest.quality, Latest.ready),
     contract_matches |-> Latest # None /\ Latest.esContract,
     event_cleared |-> FALSE, unscheduled_shock |-> FALSE,
     option_chain_usable |-> Latest # None /\ Latest.optionChain,
     tail_expanding |-> FALSE, next_major_event_in_holding_period |-> FALSE,
     edge_ok |-> FALSE, risk_budget_ok |-> TRUE]

(* select_iron_condor_strikes, on whole points.                            *)
CeilTo(x, n)  == n * (-((-x) \div n))
FloorTo(x, n) == n * (x \div n)

Strikes(v, r) ==
    LET shortCall == CeilTo(v.center + v.up + v.buffer, r.increment)
        shortPut  == FloorTo(v.center - v.down - v.buffer, r.increment)
    IN  [shortPut |-> shortPut, longPut |-> shortPut - r.wing,
         shortCall |-> shortCall, longCall |-> shortCall + r.wing,
         putDistance |-> v.center - shortPut, callDistance |-> shortCall - v.center]

(* StrikePilotModel.evaluate raises on missing or negative inputs.         *)
Evaluable(v) ==
    /\ v # None
    /\ v.center > 0
    /\ v.up >= 0 /\ v.down >= 0 /\ v.buffer >= 0

Identity(version, artifact) == <<version, artifact>>
Loaded == Identity(Baseline, rules.artifact)
Missing     == Identity("GOVERNANCE_CHAMPION_MISSING", "GOVERNANCE_CHAMPION_MISSING")
Unavailable == Identity("GOVERNANCE_BACKEND_UNAVAILABLE", "GOVERNANCE_BACKEND_UNAVAILABLE")

(* DecisionRunner.run: the reasons for NO_TRADE.                           *)
BugReasonsAnyArtifact(j) ==
    Closed(j.gates) \cup
    (IF j.governed # None /\ j.governed[1] # Baseline
     THEN {"MODEL_VERSION_NOT_LOADED"} ELSE {})

RunReasons(j) ==
    Closed(j.gates) \cup
    (IF j.governed # None /\ j.governed # Loaded
     THEN {"MODEL_VERSION_NOT_LOADED"} ELSE {})

(* freeze_snapshot in run_decision: what the snapshot id is a hash of.     *)
(* (code_version is left out: the code of every start is this code.)       *)
BugSnapshot(j) ==
    [model |-> j.model, mode |-> j.mode, asOf |-> j.asOf, values |-> j.values,
     rules |-> rules.rules, session |-> j.session, governed |-> j.governed]

SnapshotOf(j) ==
    [model |-> j.model, mode |-> j.mode, asOf |-> j.asOf, values |-> j.values,
     gates |-> j.gates, rules |-> rules.rules, session |-> j.session,
     governed |-> j.governed]

(* DecisionResult and DecisionRunOutput.                                   *)
Result(j) ==
    LET reasons == RunReasons(j)
    IN  [mode |-> j.mode, model |-> j.model, session |-> j.session,
         version |-> Baseline, artifact |-> rules.artifact,
         governed |-> j.governed, snapshot |-> SnapshotOf(j),
         action |-> IF reasons = {} THEN "WAIT" ELSE "NO_TRADE",
         reasons |-> reasons,
         output |-> IF reasons = {} THEN Strikes(j.values, rules) ELSE None,
         boot |-> boot]

-----------------------------------------------------------------------------
(* Start-up: create_runtime_persistence picks the registry, and            *)
(* GovernanceService registers the baseline when the model has no version. *)
EmptyRegistry == [m \in Models |-> [v \in Versions |-> None]]

WithBaseline(vs, r) ==
    IF \E v \in Versions : vs[Model][v] # None THEN vs
    ELSE [vs EXCEPT ![Model][Baseline] =
            [model |-> Model, version |-> Baseline, parent |-> None,
             artifact |-> r.artifact, report |-> None, trainedAt |-> 0]]

Idle == [t \in Threads |-> "idle"]

Init ==
    /\ backend \in {"sqlite", "postgresql"}
    /\ rules = FirstRules
    /\ boot = 1
    /\ versions = WithBaseline(EmptyRegistry, rules)
    /\ champions = [m \in Models |-> None]
    /\ sessionChampions = [m \in Models |-> [s \in Sessions |-> None]]
    /\ events = <<>>
    /\ usedApprovals = {}
    /\ today = 1
    /\ reports = <<>>
    /\ pc = Idle
    /\ job = [t \in Threads |-> None]
    /\ runs = 0
    /\ decisions = <<>>

(* The server stops, whatever its threads were doing, and starts again     *)
(* with the rules file as it is now.                                       *)
Restart(r) ==
    /\ boot < MaxBoots
    /\ boot' = boot + 1
    /\ rules' = r
    /\ pc' = Idle
    /\ job' = [t \in Threads |-> None]
    /\ IF backend = "sqlite"
       THEN /\ versions' = WithBaseline(EmptyRegistry, r)
            /\ champions' = [m \in Models |-> None]
            /\ sessionChampions' = [m \in Models |-> [s \in Sessions |-> None]]
            /\ events' = <<>>
            /\ usedApprovals' = {}
       ELSE /\ versions' = WithBaseline(versions, r)
            /\ UNCHANGED <<champions, sessionChampions, events, usedApprovals>>
    /\ UNCHANGED <<backend, today, reports, runs, decisions>>

-----------------------------------------------------------------------------
(* The environment of the requests.                                        *)

Midnight ==
    /\ today < MaxDay
    /\ today' = today + 1
    /\ UNCHANGED <<govVars, backend, boot, rules, reports, pc, job, runs,
                   decisions>>

(* CapabilityReportStore.save: the timestamped file, then latest.json,     *)
(* each replaced as a whole.                                               *)
SaveProbe(p) ==
    /\ Len(reports) < MaxProbes
    /\ reports' = Append(reports, p)
    /\ UNCHANGED <<govVars, backend, boot, rules, today, pc, job, runs, decisions>>

(* latest.json becomes unreadable or no longer validates.                  *)
LoseProbe ==
    /\ Latest # None
    /\ reports' = Append(reports, None)
    /\ UNCHANGED <<govVars, backend, boot, rules, today, pc, job, runs, decisions>>

Govern(A) == A /\ UNCHANGED <<envVars, pc, job, runs, decisions>>

Register(c)      == Govern(Gov!RegisterChallenger(c))
Promote(v, a)    == Govern(Gov!Promote(Model, v, a))
Rollback(v, a)   == /\ backend = "postgresql" \/ champions[Model] # None
                    /\ Govern(Gov!Rollback(Model, v, a))

(* GovernanceService.champion with a session: the public endpoint freezes  *)
(* SCENARIO sessions only.                                                 *)
PublicSession(s) == s[1] = "SCENARIO"

FreezePublic(s) ==
    /\ PublicSession(s)
    /\ Govern(Gov!FreezeSession(Model, s))

-----------------------------------------------------------------------------
(* run_decision.                                                           *)

MoveTo(t, loc, j) ==
    /\ pc' = [pc EXCEPT ![t] = loc]
    /\ job' = [job EXCEPT ![t] = j]

(* DecisionRunInput.validate_gate_source: a LIVE request brings no gates,  *)
(* values, clock or session of its own, a SCENARIO request has to bring    *)
(* all four (values may be incomplete).                                    *)
Valid(r) ==
    IF r.mode = "LIVE"
    THEN r.gates = None /\ r.values = None /\ r.asOf = None /\ r.id = None
    ELSE r.gates # None /\ r.asOf # None /\ r.id # None

ReadGates(t, r) ==
    /\ pc[t] = "idle"
    /\ runs < MaxRuns
    /\ Valid(r)
    /\ runs' = runs + 1
    /\ MoveTo(t, "clock",
         [model |-> r.model, mode |-> r.mode, id |-> r.id, asOf |-> r.asOf,
          gates |-> IF r.mode = "LIVE" THEN LiveGates ELSE r.gates,
          values |-> r.values, session |-> None, governed |-> None])
    /\ UNCHANGED <<govVars, envVars, decisions>>

(* _decision_as_of and _governance_session_id.                             *)
ReadClock(t) ==
    LET j == job[t]
        d == IF j.mode = "LIVE" THEN today ELSE j.asOf
    IN  /\ pc[t] = "clock"
        /\ MoveTo(t, "freeze",
             [j EXCEPT !.asOf = d,
                       !.session = IF j.mode = "LIVE" THEN <<"LIVE", d>>
                                   ELSE <<"SCENARIO", j.id>>])
        /\ UNCHANGED <<govVars, envVars, runs, decisions>>

(* _frozen_governed_model_identity: the frozen champion; without one a     *)
(* SCENARIO run is ungoverned and a LIVE run carries a sentinel.           *)
BugFreezeCurrent(t) ==
    LET j == job[t]
    IN  /\ pc[t] = "freeze"
        /\ Gov!FreezeSession(j.model, j.session)
        /\ LET v == champions[j.model]
           IN  MoveTo(t, "run",
                 [j EXCEPT !.governed = Identity(v, versions[j.model][v].artifact)])
        /\ UNCHANGED <<envVars, runs, decisions>>

FreezeChampion(t) ==
    LET j == job[t]
    IN  /\ pc[t] = "freeze"
        /\ Gov!FreezeSession(j.model, j.session)
        /\ LET v == sessionChampions'[j.model][j.session]
           IN  MoveTo(t, "run",
                 [j EXCEPT !.governed = Identity(v, versions[j.model][v].artifact)])
        /\ UNCHANGED <<envVars, runs, decisions>>

BugFreezeMissing(t) ==
    LET j == job[t]
    IN  /\ pc[t] = "freeze"
        /\ champions[j.model] = None
        /\ MoveTo(t, "run", [j EXCEPT !.governed = None])
        /\ UNCHANGED <<govVars, envVars, runs, decisions>>

FreezeMissing(t) ==
    LET j == job[t]
    IN  /\ pc[t] = "freeze"
        /\ champions[j.model] = None
        /\ MoveTo(t, "run",
             [j EXCEPT !.governed = IF j.mode = "SCENARIO" THEN None ELSE Missing])
        /\ UNCHANGED <<govVars, envVars, runs, decisions>>

(* The governance backend fails (a database outage), before the freeze is  *)
(* committed or after, when the answer is lost.                            *)
FreezeUnavailable(t) ==
    /\ backend = "postgresql"
    /\ pc[t] = "freeze"
    /\ UNCHANGED govVars \/ Gov!FreezeSession(job[t].model, job[t].session)
    /\ MoveTo(t, "run", [job[t] EXCEPT !.governed = Unavailable])
    /\ UNCHANGED <<envVars, runs, decisions>>

Finish(t) == MoveTo(t, "idle", None) /\ UNCHANGED <<govVars, envVars, runs>>

(* DecisionRunner.run raises (unknown model, unusable values): HTTP 422.   *)
Reject(t) ==
    LET j == job[t]
    IN  /\ pc[t] = "run"
        /\ j.model # Model \/ (RunReasons(j) = {} /\ ~Evaluable(j.values))
        /\ Finish(t)
        /\ UNCHANGED decisions

(* The decision is appended and answered, or the append fails (HTTP 500).  *)
Decide(t) ==
    LET j == job[t]
    IN  /\ pc[t] = "run"
        /\ j.model = Model
        /\ RunReasons(j) = {} => Evaluable(j.values)
        /\ Finish(t)
        /\ \/ decisions' = Append(decisions, Result(j))
           \/ UNCHANGED decisions

Handle(t) ==
    \/ ReadClock(t)
    \/ FreezeChampion(t) \/ FreezeMissing(t) \/ FreezeUnavailable(t)
    \/ Reject(t) \/ Decide(t)

Next ==
    \/ \E t \in Threads, r \in Requests : ReadGates(t, r)
    \/ \E t \in Threads : Handle(t)
    \/ \E c \in Candidates : Register(c)
    \/ \E v \in Versions, a \in Approvals : Promote(v, a) \/ Rollback(v, a)
    \/ \E s \in Sessions : FreezePublic(s)
    \/ \E p \in Probes : SaveProbe(p)
    \/ \E r \in Rules : Restart(r)
    \/ LoseProbe
    \/ Midnight

Spec == Init /\ [][Next]_vars

-----------------------------------------------------------------------------
(* Properties.                                                             *)

Recorded == {decisions[i] : i \in DOMAIN decisions}

(* Is what the registry held for d still there?  (In-memory registries are *)
(* emptied by a restart.)                                                  *)
SameRegistry(d) == backend = "postgresql" \/ d.boot = boot

RealIdentity(d) == d.governed \notin {None, Missing, Unavailable}

(* TypeOK: requests and registry entries have the shape the code gives     *)
(* them at each point of run_decision.                                     *)
TypeOK ==
    /\ \A t \in Threads :
          /\ (pc[t] = "idle") <=> (job[t] = None)
          /\ pc[t] \in {"freeze", "run"} => job[t].session \in Sessions
    /\ versions[Model][Baseline] # None
    /\ \A d \in Recorded : d.model = Model /\ d.session \in Sessions

(* GovernedRunsTheFrozenVersion: a WAIT decision with a governed identity  *)
(* ran exactly the version and artifact its session is frozen to, whatever *)
(* was promoted, rolled back or reloaded between the freeze and the run.   *)
GovernedRunsTheFrozenVersion ==
    \A d \in Recorded :
        d.action = "WAIT" /\ d.governed # None =>
            /\ d.governed = Identity(d.version, d.artifact)
            /\ SameRegistry(d) =>
                 LET v == sessionChampions[Model][d.session]
                 IN  /\ v = d.version
                     /\ versions[Model][v].artifact = d.artifact

(* OneIdentityPerSession: all governed decisions of one session name one   *)
(* version and artifact: for ever with the postgresql backend, within one  *)
(* server start with the in-memory registry of the sqlite backend.         *)
OneIdentityPerSession ==
    \A d, e \in Recorded :
        /\ d.session = e.session /\ RealIdentity(d) /\ RealIdentity(e)
        /\ backend = "postgresql" \/ d.boot = e.boot
        => d.governed = e.governed

(* LiveFailsClosed: a LIVE decision is NO_TRADE, is never ungoverned, says *)
(* so when no champion could be frozen for it, and is free of the stale-   *)
(* data reason only if a production-ready GREEN capability report was      *)
(* saved: whatever failed or changed while the request was under way.      *)
LiveFailsClosed ==
    \A d \in Recorded :
        d.mode = "LIVE" =>
            /\ d.action = "NO_TRADE"
            /\ d.governed # None
            /\ ~RealIdentity(d) => "MODEL_VERSION_NOT_LOADED" \in d.reasons
            /\ "data_quality" \notin d.reasons =>
                 \E i \in DOMAIN reports :
                     reports[i] # None /\ reports[i].ready /\ reports[i].quality = "GREEN"

(* LiveSessionsAreNotPreFrozen: a LIVE session is frozen on its day or     *)
(* later, by a run that read that date, never ahead of time: neither a     *)
(* scenario nor the public champion endpoint can fix a coming session to   *)
(* the champion of today.                                                  *)
LiveSessionsAreNotPreFrozen ==
    \A d \in 1..MaxDay : sessionChampions[Model][<<"LIVE", d>>] # None => d <= today

(* SnapshotDeterminesDecision: two decisions with one snapshot identifier  *)
(* made by one loaded artifact agree in action, reasons and output.        *)
SnapshotDeterminesDecision ==
    \A d, e \in Recorded :
        d.snapshot = e.snapshot /\ d.artifact = e.artifact =>
            d.action = e.action /\ d.reasons = e.reasons /\ d.output = e.output

(* StrikesAreTight: the short strikes of a WAIT decision lie outside the   *)
(* tails and buffer, on the grid, with no grid strike nearer that would    *)
(* do, and the long strikes one wing further out.                          *)
StrikesAreTight ==
    \A d \in Recorded :
        d.action = "WAIT" =>
            LET v == d.snapshot.values
                o == d.output
                r == CHOOSE x \in Rules : x.artifact = d.artifact
                Grid(a, b) == {x \in a..b : x % r.increment = 0}
                outCall == v.center + v.up + v.buffer
                outPut  == v.center - v.down - v.buffer
            IN  /\ Grid(outCall, o.shortCall) = {o.shortCall}
                /\ Grid(o.shortPut, outPut) = {o.shortPut}
                /\ o.longCall - o.shortCall = r.wing /\ o.shortPut - o.longPut = r.wing
                /\ o.callDistance >= v.up + v.buffer /\ o.putDistance >= v.down + v.buffer

(* DecisionsSurvive: the decision log is append-only across restarts, and  *)
(* with postgresql a session's freeze is never changed or lost.            *)
DecisionsSurvive ==
    [][ /\ Len(decisions') >= Len(decisions)
        /\ SubSeq(decisions', 1, Len(decisions)) = decisions
        /\ backend = "postgresql" =>
             \A s \in Sessions : sessionChampions[Model][s] # None =>
                 sessionChampions'[Model][s] = sessionChampions[Model][s] ]_vars

=============================================================================
