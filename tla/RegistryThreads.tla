--------------------------- MODULE RegistryThreads ---------------------------
(***************************************************************************)
(* FrozenChampionRegistry as the API process uses it with the default      *)
(* backend: one registry object, no lock, and synchronous request handlers *)
(* (services/governance_router.py, services/api.py) that the web framework *)
(* runs on a pool of threads.  Each dictionary, set or list operation is   *)
(* atomic; another thread may run between any two of them.                 *)
(*                                                                         *)
(* pc[t] is the operation thread t executes next, req[t] its call,         *)
(* candidate[t] the version record and cur[t] the champion it read.        *)
(* Validating the challenger touches only what was read and the spent set, *)
(* so it is one step.                                                      *)
(***************************************************************************)
EXTENDS ChampionRegistry

CONSTANTS
    Threads,           \* request threads of the API process
    MaxCalls           \* bound: calls the threads make in all

ASSUME CallsAssumption == MaxCalls \in Nat /\ IsFiniteSet(Threads)

VARIABLES pc, req, candidate, cur, calls

threadVars == <<vars, pc, req, candidate, cur, calls>>

ThreadInit ==
    /\ Init
    /\ pc = [t \in Threads |-> "idle"]
    /\ req = [t \in Threads |-> None]
    /\ candidate = [t \in Threads |-> None]
    /\ cur = [t \in Threads |-> None]
    /\ calls = 0

-----------------------------------------------------------------------------
Call(t, label, arg) ==
    /\ pc[t] = "idle"
    /\ calls < MaxCalls
    /\ calls' = calls + 1
    /\ pc' = [pc EXCEPT ![t] = label]
    /\ req' = [req EXCEPT ![t] = arg]
    /\ UNCHANGED <<vars, candidate, cur>>

Goto(t, label) ==
    /\ pc' = [pc EXCEPT ![t] = label]
    /\ UNCHANGED <<req, candidate, calls>>

(* Return, normally or with a GovernanceError.                             *)
Return(t) ==
    /\ pc' = [pc EXCEPT ![t] = "idle"]
    /\ req' = [req EXCEPT ![t] = None]
    /\ candidate' = [candidate EXCEPT ![t] = None]
    /\ cur' = [cur EXCEPT ![t] = None]
    /\ UNCHANGED calls

(* register_challenger: two membership tests, then the assignment.         *)
RegisterCheck(t) ==
    /\ pc[t] = "register.check"
    /\ UNCHANGED vars
    /\ IF MayRegister(req[t])
       THEN Goto(t, "register.store") /\ UNCHANGED cur
       ELSE Return(t)

RegisterStore(t) ==
    /\ pc[t] = "register.store"
    /\ versions' = [versions EXCEPT ![req[t].model][req[t].version] = req[t]]
    /\ Return(t)
    /\ UNCHANGED <<champions, sessionChampions, events, usedApprovals>>

(* promote and rollback: _get(model_id, version), an unknown one ends the  *)
(* call.                                                                   *)
ChangeTarget(t) ==
    /\ pc[t] = "change.target"
    /\ UNCHANGED vars
    /\ LET found == versions[req[t].model][req[t].target]
       IN  IF found = None THEN Return(t)
           ELSE /\ candidate' = [candidate EXCEPT ![t] = found]
                /\ pc' = [pc EXCEPT ![t] = "change.read"]
                /\ UNCHANGED <<req, cur, calls>>

(* current = self._champions.get(model_id).                                *)
ChangeRead(t) ==
    /\ pc[t] = "change.read"
    /\ cur' = [cur EXCEPT ![t] = champions[req[t].model]]
    /\ Goto(t, "change.check")
    /\ UNCHANGED vars

(* _validate_approval and the operation's own checks, all against the      *)
(* record and the champion read before.                                    *)
BugChangeAllowed(a, found, current) ==
    /\ Matches(a, a.action, a.model, current, a.target)
    /\ a.action = "PROMOTE" => Promotable(found, a, current)
    /\ a.action = "ROLLBACK" => current # None /\ a.target # current

ChangeAllowed(a, found, current) ==
    /\ ApprovalValid(a, a.action, a.model, current, a.target)
    /\ a.action = "PROMOTE" => Promotable(found, a, current)
    /\ a.action = "ROLLBACK" => current # None /\ a.target # current

ChangeCheck(t) ==
    /\ pc[t] = "change.check"
    /\ UNCHANGED vars
    /\ IF ChangeAllowed(req[t], candidate[t], cur[t])
       THEN Goto(t, "change.champion") /\ UNCHANGED cur
       ELSE Return(t)

ChangeChampion(t) ==
    /\ pc[t] = "change.champion"
    /\ champions' = [champions EXCEPT ![req[t].model] = req[t].target]
    /\ Goto(t, "change.spend")
    /\ UNCHANGED <<versions, sessionChampions, events, usedApprovals, cur>>

(* _record: the spent set first, then the event.                           *)
ChangeSpend(t) ==
    /\ pc[t] = "change.spend"
    /\ usedApprovals' = usedApprovals \cup {req[t]}
    /\ Goto(t, "change.event")
    /\ UNCHANGED <<versions, champions, sessionChampions, events, cur>>

ChangeEvent(t) ==
    /\ pc[t] = "change.event"
    /\ events' = Append(events, req[t])
    /\ Return(t)
    /\ UNCHANGED <<versions, champions, sessionChampions, usedApprovals>>

(* Freezing whatever challenger was registered last, not the champion.     *)
BugFreezeReadChallenger(t) ==
    /\ pc[t] = "freeze.read"
    /\ UNCHANGED vars
    /\ \E v \in Versions :
          /\ versions[req[t].model][v] # None
          /\ cur' = [cur EXCEPT ![t] = v]
    /\ Goto(t, "freeze.store")

(* freeze_session: read the champion, then dict.setdefault.                *)
FreezeRead(t) ==
    /\ pc[t] = "freeze.read"
    /\ UNCHANGED vars
    /\ IF champions[req[t].model] # None
       THEN /\ cur' = [cur EXCEPT ![t] = champions[req[t].model]]
            /\ Goto(t, "freeze.store")
       ELSE Return(t)

FreezeStore(t) ==
    /\ pc[t] = "freeze.store"
    /\ sessionChampions' =
         [sessionChampions EXCEPT ![req[t].model][req[t].session] =
             IF @ = None THEN cur[t] ELSE @]
    /\ Return(t)
    /\ UNCHANGED <<versions, champions, events, usedApprovals>>

-----------------------------------------------------------------------------
Start(t) ==
    \/ \E c \in Candidates : Call(t, "register.check", c)
    \/ \E a \in Approvals : Call(t, "change.target", a)
    \/ \E m \in Models, s \in Sessions :
          Call(t, "freeze.read", [model |-> m, session |-> s])

Step(t) ==
    \/ RegisterCheck(t) \/ RegisterStore(t)
    \/ ChangeTarget(t) \/ ChangeRead(t) \/ ChangeCheck(t)
    \/ ChangeChampion(t) \/ ChangeSpend(t) \/ ChangeEvent(t)
    \/ FreezeRead(t) \/ FreezeStore(t)

(* All calls made and answered.                                            *)
Done ==
    /\ calls = MaxCalls
    /\ \A t \in Threads : pc[t] = "idle"
    /\ UNCHANGED threadVars

ThreadNext == Done \/ \E t \in Threads : Start(t) \/ Step(t)

ThreadSpec == ThreadInit /\ [][ThreadNext]_threadVars

-----------------------------------------------------------------------------
(* Properties.                                                             *)

Quiet == \A t \in Threads : pc[t] = "idle"

(* FreezeIsStable: a session's champion, once frozen, is never replaced,   *)
(* although the freeze and the champion change are not serialised: the     *)
(* single setdefault is what protects it.                                  *)
FreezeIsStable ==
    [][ \A m \in Models, s \in Sessions :
          sessionChampions[m][s] # None =>
              sessionChampions'[m][s] = sessionChampions[m][s] ]_threadVars

(* FrozenWasInstalled: a session frozen while promotions are in flight is  *)
(* still frozen to a version that some call has made champion, and that    *)
(* call leaves its event in the audit trail.                               *)
FrozenWasInstalled ==
    Quiet => FrozenWasChampion

(* ReuseIsBounded: the reuse check and the entry into the spent set are    *)
(* not one operation, so an approval presented by several threads at once  *)
(* can be recorded several times; but no thread records it twice, however  *)
(* often it is presented again and whatever rollback makes its source      *)
(* champion again.  An approval has at most one event per thread.          *)
ReuseIsBounded ==
    \A a \in Approvals :
        Cardinality({i \in DOMAIN events : events[i] = a}) <= Cardinality(Threads)

(* ApprovalRejectedTwice: "tampered or reused approval is rejected"        *)
(* (tests/test_model_governance.py:157): no approval has two events.  The  *)
(* test presents it twice in one thread; two threads of the API process    *)
(* that present it at once break it.                                       *)
ApprovalRejectedTwice ==
    \A i, j \in DOMAIN events : events[i] = events[j] => i = j

=============================================================================
