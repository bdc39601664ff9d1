------------------------------ MODULE RiskLock ------------------------------
(***************************************************************************)
(* The event risk lock: EventRecord's validator (domain/events.py) and     *)
(* RiskLockEngine.assess (events/risk_lock.py).  Instants are numbers; the *)
(* checkpoints of an event are offsets from its anchor.                    *)
(***************************************************************************)
EXTENDS Integers, FiniteSets, FiniteSetsExt

CONSTANTS
    MinSources,        \* RiskLockPolicy.minimum_corroborating_sources
    MinObservations,   \* RiskLockPolicy.minimum_stable_observations
    StabilityWindow,   \* RiskLockPolicy.stability_window
    Offsets            \* EVENT_CHECKPOINTS: offsets from the anchor

ASSUME RiskLockAssumption ==
    /\ MinSources \in Nat /\ MinObservations \in Nat /\ StabilityWindow \in Nat
    /\ Offsets \subseteq Int

(* An instant that is not known.                                           *)
Unknown == -1

(* EventRecord, as far as the lock reads it.                               *)
EventRecord ==
    LET Known == Nat \union {Unknown}
    IN  [seen : Nat, confirmed : Known, cross : Known, stable : Known, sources : Nat,
         observations : Nat, contradictory : BOOLEAN, scheduled : Known, close : Known,
         open : Known]

(* EventRecord.validate_timeline: what pydantic lets through.              *)
ValidTimeline(e) ==
    LET floor == IF e.cross # Unknown THEN e.cross
                 ELSE IF e.confirmed # Unknown THEN e.confirmed ELSE e.seen
    IN  /\ e.confirmed # Unknown => e.confirmed >= e.seen
        /\ e.cross # Unknown => e.cross >= e.seen
        /\ e.confirmed # Unknown /\ e.cross # Unknown => e.cross >= e.confirmed
        /\ e.stable # Unknown => e.stable >= floor
        /\ e.close # Unknown /\ e.open # Unknown => e.open > e.close

-----------------------------------------------------------------------------
(* The reasons that keep the lock shut.                                    *)
LockReasons(e, t) ==
    {r \in {"CONTRADICTORY_EVIDENCE", "EVENT_NOT_CONFIRMED",
            "INSUFFICIENT_CORROBORATION", "CROSS_ASSET_NOT_CONFIRMED"} :
        CASE r = "CONTRADICTORY_EVIDENCE"     -> e.contradictory
          [] r = "EVENT_NOT_CONFIRMED"        -> e.confirmed = Unknown \/ e.confirmed > t
          [] r = "INSUFFICIENT_CORROBORATION" -> e.sources < MinSources
          [] r = "CROSS_ASSET_NOT_CONFIRMED"  -> e.cross = Unknown \/ e.cross > t}

(* The reasons that keep it stabilizing once nothing keeps it shut.        *)
StabilityReasons(e, t) ==
    {r \in {"STABILITY_WINDOW_NOT_STARTED", "STABILITY_WINDOW_INCOMPLETE",
            "INSUFFICIENT_STABLE_OBSERVATIONS"} :
        CASE r = "STABILITY_WINDOW_NOT_STARTED" -> e.stable = Unknown \/ e.stable > t
          [] r = "STABILITY_WINDOW_INCOMPLETE"  ->
                 e.stable # Unknown /\ e.stable <= t /\ e.stable + StabilityWindow > t
          [] r = "INSUFFICIENT_STABLE_OBSERVATIONS" -> e.observations < MinObservations}

(* When a stabilizing event is worth another look.                         *)
BugRerunAt(e) == IF e.stable = Unknown THEN Unknown ELSE e.stable

RerunAt(e) == IF e.stable = Unknown THEN Unknown ELSE e.stable + StabilityWindow

(* The next checkpoint after t, or how monitoring stands without one.      *)
NextCheckpoint(e, t) ==
    LET anchor == IF e.scheduled # Unknown THEN e.scheduled ELSE e.seen
        all    == {anchor + o : o \in Offsets}
                    \union ({e.close, e.open} \ {Unknown})
        coming == {c \in all : c > t}
    IN  IF coming # {} THEN Min(coming)
        ELSE IF e.open # Unknown THEN "MONITORING_COMPLETE"
             ELSE "SESSION_BOUNDARY_UNCONFIGURED"

(* RiskLockEngine.assess, for an event visible at t.                       *)
Assess(e, t) ==
    LET locked == LockReasons(e, t)
        stabilizing == StabilityReasons(e, t)
    IN  [state  |-> IF locked # {} THEN "LOCKED"
                    ELSE IF stabilizing # {} THEN "STABILIZING" ELSE "CLEARED",
         reasons |-> IF locked # {} THEN locked
                     ELSE IF stabilizing # {} THEN stabilizing ELSE {"EVENT_STABLE"},
         rerun  |-> IF locked = {} /\ stabilizing # {} THEN RerunAt(e) ELSE Unknown,
         next   |-> NextCheckpoint(e, t)]
=============================================================================
