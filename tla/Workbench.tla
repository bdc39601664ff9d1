------------------------------ MODULE Workbench ------------------------------
(***************************************************************************)
(* The parts that compute from what they are given, side by side: the      *)
(* replay ledger, the alert engine, the label and feature batches, the     *)
(* risk lock, the walk-forward splitter, the promotion gate and the condor *)
(* economics.  They share no state; a behaviour works on one job, so that  *)
(* their state spaces add up and do not multiply.                          *)
(***************************************************************************)
EXTENDS Replay, AlertEngine, RiskLock, WalkForward, PromotionGate, CondorEconomics,
        LabelBatch

CONSTANT Jobs   \* the requests: records with a field "task"

(* What the request models of the endpoints and commands let through.      *)
ASSUME JobsAssumption ==
    \A j \in Jobs :
        /\ j.task = "event" =>
               j.event \in EventRecord /\ ValidTimeline(j.event) /\ j.at \in Nat
        /\ j.task = "split" =>
               /\ IsFiniteSet(j.samples)
               /\ \A s \in j.samples : s.at \in Nat /\ s.group \in Nat
               /\ j.plan.minTrain \in Nat \ {0} /\ j.plan.test \in Nat \ {0}
               /\ j.plan.step \in Nat \ {0} /\ j.plan.gap \in Nat
        /\ j.task = "gate" =>
               /\ j.slices \in Seq(Range(j.slices))
               /\ j.frozenAt \in Int /\ j.evaluatedAt \in Int
        /\ j.task = "days" => j.days \in Seq(DayRecord)

VARIABLES
    job,      \* the request at hand
    answer    \* what was answered

benchVars == <<replayVars, engineVars, labelVars, job, answer>>

NoAnswer == [done |-> FALSE]

BenchInit ==
    /\ ReplayInit /\ EngineInit /\ LabelInit
    /\ job \in Jobs
    /\ job.task # "replay" => kind = "memory"
    /\ answer = NoAnswer

(* A request is answered once.                                             *)
Answer(task, result) ==
    /\ job.task = task /\ answer = NoAnswer
    /\ answer' = [done |-> TRUE, result |-> result]
    /\ UNCHANGED <<replayVars, engineVars, labelVars, job>>

SplitSamples  == job.task = "split" /\ Answer("split", Split(job.samples, job.plan))
Gate          == job.task = "gate" /\ Answer("gate",
                     EvaluateGate(job.slices, job.frozenAt, job.evaluatedAt))
AssessEvent   == job.task = "event" /\ job.at >= job.event.seen
                     /\ Answer("event", Assess(job.event, job.at))
EvaluateDays  == job.task = "days" /\ Answer("days",
                     [economics |-> EconomicsBatch(job.days),
                      exits |-> ExitComparison(job.days)])

UseLedger ==
    job.task = "replay" /\ ReplayNext /\ UNCHANGED <<engineVars, labelVars, job, answer>>

UseEngine ==
    job.task = "alerts" /\ EngineNext /\ UNCHANGED <<replayVars, labelVars, job, answer>>

UseBatches ==
    job.task = "labels" /\ LabelNext /\ UNCHANGED <<replayVars, engineVars, job, answer>>

BenchNext == SplitSamples \/ Gate \/ AssessEvent \/ EvaluateDays \/ UseLedger \/ UseEngine
        \/ UseBatches

BenchSpec == BenchInit /\ [][BenchNext]_benchVars

-----------------------------------------------------------------------------
BenchTypeOK ==
    /\ ReplayTypeOK /\ EngineTypeOK /\ LabelTypeOK
    /\ job \in Jobs /\ answer.done \in BOOLEAN

Answered(task) == job.task = task /\ answer.done

(* NoLeakage: in every fold of a split, each training sample lies more     *)
(* than the purge gap before each test sample, and no group has samples on *)
(* both sides, even when groups overlap in time.                           *)
NoLeakage ==
    Answered("split") /\ answer.result.ok =>
        \A k \in DOMAIN answer.result.folds :
            LET fold == answer.result.folds[k]
            IN  \A s \in fold.train, x \in fold.test :
                    x.at - s.at > job.plan.gap /\ s.group # x.group

(* EveryGroupIsTested: the folds advance in time, and when the step is the *)
(* size of the test window every group after the first training groups is  *)
(* tested in exactly one fold, except for a last window that is not full.  *)
EveryGroupIsTested ==
    Answered("split") /\ answer.result.ok =>
        LET folds == answer.result.folds
            order == GroupOrder(job.samples)
            TestedIn(g) == {k \in DOMAIN folds : \E s \in folds[k].test : s.group = g}
        IN  /\ \A k, l \in DOMAIN folds : k < l => folds[k].start <= folds[l].start
            /\ job.plan.step = job.plan.test =>
                   \A i \in DOMAIN order :
                       LET behind == i - job.plan.minTrain
                           full == ((Len(order) - job.plan.minTrain)
                                      \div job.plan.test) * job.plan.test
                       IN  Cardinality(TestedIn(order[i]))
                             = IF behind \in 1..full THEN 1 ELSE 0

(* SplitIsSound: the folds of a split leak nothing and leave no group out. *)
SplitIsSound == NoLeakage /\ EveryGroupIsTested

(* PassNeedsEverySlice: a gate that passed was fed a holdout frozen after  *)
(* the criteria and before the evaluation, with evidence for every         *)
(* required slice.  Without the evidence of a required slice it does not   *)
(* pass; evidence for any other slice, good or bad, can be left out of an  *)
(* evaluated request without changing the report, passed or failed.        *)
PassNeedsEverySlice ==
    Answered("gate") =>
        /\ answer.result.passed =>
               /\ RegisteredAt < job.frozenAt /\ job.frozenAt < job.evaluatedAt
               /\ RequiredSlices \subseteq {job.slices[i].key : i \in DOMAIN job.slices}
        /\ GateAccepts(job.slices, job.frozenAt, job.evaluatedAt) =>
               \A i \in DOMAIN job.slices :
                   LET rest    == RemoveAt(job.slices, i)
                       without == EvaluateGate(rest, job.frozenAt, job.evaluatedAt)
                   IN  IF job.slices[i].key \in RequiredSlices
                       THEN ~without.passed
                       ELSE rest # <<>> => without = answer.result

(* ClearedForGood: an event is cleared only after confirmation, reaction   *)
(* of other assets and a whole stability window, in that order; and the    *)
(* same facts assessed later are still cleared.                            *)
ClearedForGood ==
    Answered("event") /\ answer.result.state = "CLEARED" =>
        LET e == job.event
        IN  /\ e.seen <= e.confirmed /\ e.confirmed <= e.cross /\ e.cross <= e.stable
            /\ e.stable + StabilityWindow <= job.at
            /\ \A t \in job.at..(job.at + StabilityWindow + 1) :
                   Assess(e, t).state = "CLEARED"

(* RerunSuffices: an event that is stabilizing and says when to look again *)
(* is cleared by then, unless it lacks observations, which no waiting      *)
(* brings.  No assessment in between clears it.                            *)
RerunSuffices ==
    Answered("event") /\ answer.result.rerun # Unknown =>
        LET rerun == answer.result.rerun
            again == Assess(job.event, Max({rerun, job.at}))
        IN  /\ again.reasons \in {{"EVENT_STABLE"}, {"INSUFFICIENT_STABLE_OBSERVATIONS"}}
            /\ \A t \in job.at..(rerun - 1) : Assess(job.event, t).state # "CLEARED"

(* ClearsWhenPromised: the lock opens at the instant it announced, not     *)
(* before, and does not close again on the same facts.                     *)
ClearsWhenPromised == ClearedForGood /\ RerunSuffices

(* HoldIsTheBaseline: run on the same days, the HOLD rule of the exit      *)
(* comparison and the economics batch report the same counts and the same  *)
(* gross total, every rule counts the same days, and every day with a      *)
(* label or a distance is counted once.  The batches differ only where     *)
(* one raises: economics on a credit above the wing, the comparison on an  *)
(* entry after the close.                                                  *)
HoldIsTheBaseline ==
    Answered("days") =>
        LET economics == answer.result.economics
            exits     == answer.result.exits
            hold      == exits["HOLD"]
            Counted(r) == r.priced + r.unpriceable + r.chain + r.labels + r.distances
        IN  /\ ~economics.raised /\ ~hold.raised =>
                   economics = [hold EXCEPT !.net = hold.total - FeePoints * hold.priced]
            /\ \A rule \in ExitRules :
                   ~exits[rule].raised =>
                       /\ exits[rule].priced = hold.priced
                       /\ exits[rule].unpriceable = hold.unpriceable
                       /\ Counted(exits[rule]) =
                            Cardinality({i \in DOMAIN job.days :
                                            job.days[i].labelled \/ job.days[i].ranged})

(* The days of a request whose exits can be simulated.                     *)
SimulatedDays ==
    IF Answered("days")
    THEN {d \in {job.days[i] : i \in DaysWith(job.days, "priced")} :
             d.entry < SessionClose}
    ELSE {}

(* NoLookahead: an exit before expiry is decided by what was quoted by     *)
(* then: wherever the later quotes are cut off, the day is filled at the   *)
(* same credit and closed at the same minute for the same cost.            *)
NoLookahead ==
    \A d \in SimulatedDays, rule \in ExitRules :
        LET exit == SimulateExit(d, rule)
        IN  exit.reason # "EXPIRY" =>
                \A n \in 0..Len(d.quotes) :
                    (\A i \in (n + 1)..Len(d.quotes) : d.quotes[i].ts > exit.at) =>
                        SimulateExit([d EXCEPT !.quotes = SubSeq(@, 1, n)], rule) = exit

(* TriggersPay: on a position opened for a credit, a profit target never   *)
(* closes for less than its share of the credit, a stop never closes at    *)
(* less than its multiple of it in loss, and expiry never loses more than  *)
(* the wing leaves.  On a debit the two are reversed: the stop fires at    *)
(* once, even at a gain.                                                   *)
TriggersPay ==
    \A d \in SimulatedDays, rule \in ExitRules :
        LET exit == SimulateExit(d, rule)
        IN  Credit(d) > 0 =>
                /\ exit.reason = "PROFIT_TARGET" => 2 * exit.pnl >= Profit * Credit(d)
                /\ exit.reason = "STOP_LOSS" => exit.pnl <= -(StopMultiple * Credit(d))
                /\ exit.reason = "EXPIRY" => exit.pnl \in (Credit(d) - Wing)..Credit(d)

(* ExitsAreFair: a simulated exit uses no later quote and closes on the    *)
(* side its trigger stands for.                                            *)
ExitsAreFair == NoLookahead /\ TriggersPay
=============================================================================
