----------------------------- MODULE AlertEngine -----------------------------
(***************************************************************************)
(* The in-process alert state machine, AlertEngine (alerts/engine.py):     *)
(* hysteresis and cooldown on observations, feedback, and escalation of    *)
(* open P0 alerts.  Instants come from the callers and may go back.        *)
(***************************************************************************)
EXTENDS Integers, Sequences

CONSTANTS
    Fingerprints,
    Priorities,       \* a set of priorities with "P0"
    Hysteresis,       \* AlertPolicy.hysteresis_observations
    Cooldown,         \* AlertPolicy.cooldown
    EscalateAfter,    \* AlertPolicy.p0_escalation_after
    LastMoment,       \* bound on the instants callers pass
    MaxAlerts,        \* bound on the alerts raised
    MaxCount,         \* bound on observations in a row, duplicates and levels
    MaxFeedback       \* bound on the feedback entries

ASSUME AlertEngineAssumption ==
    /\ "P0" \in Priorities
    /\ Hysteresis \in Nat /\ Cooldown \in Nat /\ EscalateAfter \in Nat
    /\ {LastMoment, MaxAlerts, MaxCount, MaxFeedback} \subseteq Nat

VARIABLES
    observations,   \* _observations: active observations in a row
    alerts,         \* _alerts, in the order they were raised
    latest,         \* _latest_by_fingerprint: index in alerts, 0 for none
    feedback        \* _feedback

engineVars == <<observations, alerts, latest, feedback>>

Moments == 0..LastMoment
FeedbackKinds == {"ACKNOWLEDGED", "DISMISSED", "FALSE_POSITIVE", "MANUAL_JUDGMENT"}

EngineInit ==
    /\ observations = [f \in Fingerprints |-> 0]
    /\ alerts = <<>>
    /\ latest = [f \in Fingerprints |-> 0]
    /\ feedback = <<>>

(* observe(active=False): the row of observations is broken.               *)
ObserveInactive(f) ==
    /\ observations' = [observations EXCEPT ![f] = 0]
    /\ UNCHANGED <<alerts, latest, feedback>>

(* What an active observation at t does once it is counted: too few in a   *)
(* row, a duplicate within the cooldown, an instant before the latest      *)
(* alert (it raises, but stays counted), or a new alert.                   *)
React(f, priority, t) ==
    LET last == latest[f]
        count == observations'[f]
    IN  IF count < Hysteresis \/ (last # 0 /\ t < alerts[last].created)
        THEN UNCHANGED <<alerts, latest>>
        ELSE IF last # 0 /\ t - alerts[last].created < Cooldown
        THEN /\ alerts' = [alerts EXCEPT ![last].duplicates = @ + 1]
             /\ UNCHANGED latest
        ELSE /\ alerts' = Append(alerts, [fingerprint |-> f, priority |-> priority,
                                          created |-> t, status |-> "OPEN",
                                          duplicates |-> 0, level |-> 0])
             /\ latest' = [latest EXCEPT ![f] = Len(alerts) + 1]

(* observe(active=True).                                                   *)
Observe(f, priority, t) ==
    /\ observations[f] < MaxCount /\ Len(alerts) < MaxAlerts
    /\ \A i \in DOMAIN alerts : alerts[i].duplicates < MaxCount
    /\ observations' = [observations EXCEPT ![f] = @ + 1]
    /\ React(f, priority, t)
    /\ UNCHANGED feedback

(* _status_for, and the status an alert has after feedback of that kind.   *)
StatusFor(k, status) ==
    CASE k = "ACKNOWLEDGED" -> "ACKNOWLEDGED"
      [] k \in {"DISMISSED", "FALSE_POSITIVE"} -> "DISMISSED"
      [] OTHER -> status

(* record_feedback: refused before the alert was created.                  *)
RecordFeedback(i, k, t) ==
    /\ t >= alerts[i].created
    /\ Len(feedback) < MaxFeedback
    /\ feedback' = Append(feedback, [alert |-> i, kind |-> k])
    /\ alerts' = [alerts EXCEPT ![i].status = StatusFor(k, @)]
    /\ UNCHANGED <<observations, latest>>

(* due_escalations raises the level of every due alert on every call.      *)
BugDue(a, t) ==
    a.priority = "P0" /\ t - a.created >= EscalateAfter

Due(a, t) ==
    a.priority = "P0" /\ a.status = "OPEN" /\ t - a.created >= EscalateAfter

DueEscalations(t) ==
    /\ \A i \in DOMAIN alerts : Due(alerts[i], t) => alerts[i].level < MaxCount
    /\ alerts' = [i \in DOMAIN alerts |->
                     IF Due(alerts[i], t) THEN [alerts[i] EXCEPT !.level = @ + 1]
                     ELSE alerts[i]]
    /\ UNCHANGED <<observations, latest, feedback>>

EngineNext ==
    \/ \E f \in Fingerprints : ObserveInactive(f)
    \/ \E f \in Fingerprints, p \in Priorities, t \in Moments : Observe(f, p, t)
    \/ \E i \in DOMAIN alerts, k \in FeedbackKinds, t \in Moments : RecordFeedback(i, k, t)
    \/ \E t \in Moments : DueEscalations(t)

-----------------------------------------------------------------------------
EngineTypeOK ==
    /\ observations \in [Fingerprints -> 0..MaxCount]
    /\ latest \in [Fingerprints -> 0..Len(alerts)]
    /\ Len(alerts) <= MaxAlerts /\ Len(feedback) <= MaxFeedback
    /\ \A i \in DOMAIN alerts :
           /\ alerts[i].status \in {"OPEN", "ACKNOWLEDGED", "DISMISSED"}
           /\ alerts[i].level \in 0..MaxCount

(* AlertsSpaced: whatever order observations arrive in, two alerts of one  *)
(* fingerprint are never closer than the cooldown, and the later one was   *)
(* raised later: observe never goes back before the latest alert.          *)
AlertsSpaced ==
    \A i, j \in DOMAIN alerts :
        i < j /\ alerts[i].fingerprint = alerts[j].fingerprint =>
            alerts[j].created - alerts[i].created >= Cooldown

(* ClosedStaysClosed: an alert someone acknowledged or dismissed is never  *)
(* open again and is never escalated again, whatever is observed, polled   *)
(* or recorded after that.                                                 *)
ClosedStaysClosed ==
    [][\A i \in DOMAIN alerts :
           alerts[i].status # "OPEN" =>
               /\ alerts'[i].status # "OPEN"
               /\ alerts'[i].level = alerts[i].level]_engineVars
=============================================================================
