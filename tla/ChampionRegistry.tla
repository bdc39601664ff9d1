-------------------------- MODULE ChampionRegistry --------------------------
(***************************************************************************)
(* Model governance: which registered version of a decision model is its   *)
(* champion, who approved each change, and which champion a trading        *)
(* session is frozen to.  This module is FrozenChampionRegistry            *)
(* (governance/registry.py) with every call taken as one step, and it is   *)
(* the abstract specification that the threaded in-process registry        *)
(* (RegistryThreads) and the PostgreSQL store (PgGovernance) are compared  *)
(* with.                                                                   *)
(*                                                                         *)
(* An approval's identifier is the hash of its content                     *)
(* (GovernanceApproval.create and verify), so an approval is identified    *)
(* with its content here: two approvals are the same approval exactly when *)
(* the records are equal.  approved_by and note are one field, note.       *)
(* Blank strings and naive timestamps, which the constructors refuse, are  *)
(* not among the values.                                                   *)
(***************************************************************************)
EXTENDS Naturals, Sequences, FiniteSets

CONSTANTS
    Models,            \* model identifiers
    Versions,          \* version labels
    Sessions,          \* governance session identifiers
    Artifacts,         \* artifact hashes
    Reports,           \* hashes of validation reports (and of other evidence)
    Notes,             \* approver and note of an approval
    Candidates,        \* the ModelVersion records callers register
    Approvals,         \* the GovernanceApproval records callers present
    BootstrapRollback, \* may a rollback install a model's first champion?
                       \* FALSE in FrozenChampionRegistry
    None               \* Python's None

(* domain/governance.py: ModelVersion, GovernanceApproval.                 *)
ModelVersion ==
    [model: Models, version: Versions, parent: Versions \cup {None},
     artifact: Artifacts, report: Reports \cup {None}, trainedAt: Nat]

GovernanceApproval ==
    [action: {"PROMOTE", "ROLLBACK"}, model: Models,
     source: Versions \cup {None}, target: Versions, evidence: Reports,
     approvedAt: Nat, note: Notes]

ASSUME CandidatesAssumption == Candidates \subseteq ModelVersion
ASSUME ApprovalsAssumption  == Approvals \subseteq GovernanceApproval
ASSUME BootstrapAssumption  == BootstrapRollback \in BOOLEAN
ASSUME NoneAssumption ==
    None \notin Versions /\ None \notin Reports /\ None \notin ModelVersion

VARIABLES
    versions,          \* _versions: model, version -> record, None if absent
    champions,         \* _champions: model -> version, None if absent
    sessionChampions,  \* _session_champions: model, session -> version
    events,            \* _events: one GovernanceEvent per approval consumed
    usedApprovals      \* _used_approvals

vars == <<versions, champions, sessionChampions, events, usedApprovals>>

Init ==
    /\ versions = [m \in Models |-> [v \in Versions |-> None]]
    /\ champions = [m \in Models |-> None]
    /\ sessionChampions = [m \in Models |-> [s \in Sessions |-> None]]
    /\ events = <<>>
    /\ usedApprovals = {}

-----------------------------------------------------------------------------
(* register_challenger: a version label is registered once, after its      *)
(* parent.  (The definitions named Bug... are faulty variants of the one   *)
(* they precede; the mutants of PROJECT.json put them in its place.)       *)
MayRegister(c) ==
    /\ versions[c.model][c.version] = None
    /\ c.parent # None => versions[c.model][c.parent] # None

RegisterChallenger(c) ==
    /\ MayRegister(c)
    /\ versions' = [versions EXCEPT ![c.model][c.version] = c]
    /\ UNCHANGED <<champions, sessionChampions, events, usedApprovals>>

(* _validate_approval.                                                     *)
Matches(a, action, m, source, target) ==
    /\ a.action = action
    /\ a.model = m
    /\ a.source = source
    /\ a.target = target

BugApprovalReusable(a, action, m, source, target) ==
    Matches(a, action, m, source, target)

BugApprovalAnySource(a, action, m, source, target) ==
    /\ a \notin usedApprovals
    /\ Matches(a, action, m, a.source, target)

ApprovalValid(a, action, m, source, target) ==
    /\ a \notin usedApprovals
    /\ Matches(a, action, m, source, target)

(* The checks promote makes on the challenger itself: a frozen validation  *)
(* report, the approval's evidence is that report, the approval is not     *)
(* older than the model, and the challenger descends from the champion.    *)
BugPromotableAnyLineage(c, a, current) ==
    /\ c.report # None
    /\ a.evidence = c.report
    /\ a.approvedAt >= c.trainedAt

Promotable(c, a, current) ==
    /\ c.report # None
    /\ a.evidence = c.report
    /\ a.approvedAt >= c.trainedAt
    /\ current # None => c.parent = current

(* _record: the approval is spent and the audit event appended.            *)
Record(a) ==
    /\ usedApprovals' = usedApprovals \cup {a}
    /\ events' = Append(events, a)

Promote(m, v, a) ==
    /\ versions[m][v] # None
    /\ ApprovalValid(a, "PROMOTE", m, champions[m], v)
    /\ Promotable(versions[m][v], a, champions[m])
    /\ champions' = [champions EXCEPT ![m] = v]
    /\ Record(a)
    /\ UNCHANGED <<versions, sessionChampions>>

(* rollback: the target has to be registered, nothing else is asked of it. *)
Rollback(m, v, a) ==
    /\ versions[m][v] # None
    /\ BootstrapRollback \/ champions[m] # None
    /\ v # champions[m]
    /\ ApprovalValid(a, "ROLLBACK", m, champions[m], v)
    /\ champions' = [champions EXCEPT ![m] = v]
    /\ Record(a)
    /\ UNCHANGED <<versions, sessionChampions>>

(* freeze_session: the first freeze of a session wins (dict.setdefault).   *)
FreezeSession(m, s) ==
    /\ champions[m] # None
    /\ sessionChampions' =
         [sessionChampions EXCEPT ![m][s] = IF @ = None THEN champions[m] ELSE @]
    /\ UNCHANGED <<versions, champions, events, usedApprovals>>

Next ==
    \/ \E c \in Candidates : RegisterChallenger(c)
    \/ \E m \in Models, v \in Versions, a \in Approvals :
          Promote(m, v, a) \/ Rollback(m, v, a)
    \/ \E m \in Models, s \in Sessions : FreezeSession(m, s)

Spec == Init /\ [][Next]_vars

-----------------------------------------------------------------------------
(* What the registry answers.                                              *)

(* champion(model_id, session_id=...): the frozen version of the session,  *)
(* else the current champion (None stands for the GovernanceError).        *)
Champion(m, s) ==
    IF sessionChampions[m][s] # None THEN sessionChampions[m][s] ELSE champions[m]

(* lineage: the walk from a version to its parent and on.  Ancestor(m, v)  *)
(* is the version reached after n steps, None once the walk has ended      *)
(* (at a root, or at the GovernanceError for an unknown parent).           *)
Ancestor(m, v) ==
    LET up[n \in Nat] ==
          IF n = 0 THEN v
          ELSE LET w == up[n - 1]
               IN  IF w = None \/ versions[m][w] = None
                   THEN None ELSE versions[m][w].parent
    IN  up

-----------------------------------------------------------------------------
(* Properties.                                                             *)

(* TypeOK: the registry's dictionaries hold registered values only.        *)
TypeOK ==
    /\ versions \in [Models -> [Versions -> Candidates \cup {None}]]
    /\ champions \in [Models -> Versions \cup {None}]
    /\ sessionChampions \in [Models -> [Sessions -> Versions \cup {None}]]
    /\ events \in Seq(Approvals)
    /\ usedApprovals \subseteq Approvals

IsLastOf(i, m) ==
    /\ events[i].model = m
    /\ \A j \in DOMAIN events : j > i => events[j].model # m

(* ChampionFollowsAudit: the audit trail determines the champion.  The     *)
(* champion dictionary and the event list are written separately by        *)
(* promote and rollback; a model's champion must be the target of its last *)
(* event, and a model without events has none.                             *)
ChampionFollowsAudit ==
    \A m \in Models :
        \/ /\ champions[m] = None
           /\ \A i \in DOMAIN events : events[i].model # m
        \/ \E i \in DOMAIN events :
              IsLastOf(i, m) /\ champions[m] = events[i].target

(* AuditChain: the events of one model form an unbroken chain.  The first  *)
(* has no source version and every later one starts where the previous one *)
(* of that model ended, across interleaved models, promotions and          *)
(* rollbacks (registry.py compares source_version with the champion).      *)
AuditChain ==
    \A j \in DOMAIN events :
        \/ /\ events[j].source = None
           /\ \A i \in 1..(j-1) : events[i].model # events[j].model
        \/ \E i \in 1..(j-1) :
              /\ events[i].model = events[j].model
              /\ events[j].source = events[i].target
              /\ \A k \in (i+1)..(j-1) : events[k].model # events[j].model

(* ApprovalSpentOnce: one approval authorises one change.  No approval has *)
(* two events, even after rollbacks have made its source the champion      *)
(* again, and the spent set is exactly the approvals with an event.        *)
ApprovalSpentOnce ==
    /\ \A i, j \in DOMAIN events : events[i] = events[j] => i = j
    /\ usedApprovals = {events[i] : i \in DOMAIN events}

(* PromotionsCarryEvidence: every promotion in the audit trail can still   *)
(* be justified from the registry: its target is registered with the       *)
(* report the approval cites, was trained before the approval, and is a    *)
(* child of the champion it replaced.                                      *)
PromotionsCarryEvidence ==
    \A i \in DOMAIN events :
        events[i].action = "PROMOTE" =>
            LET c == versions[events[i].model][events[i].target]
            IN  /\ c # None
                /\ c.report = events[i].evidence
                /\ c.trainedAt <= events[i].approvedAt
                /\ events[i].source # None => c.parent = events[i].source

(* FrozenWasChampion: a session is frozen to a registered version that was *)
(* made champion by an audited event, never to a challenger.               *)
FrozenWasChampion ==
    \A m \in Models, s \in Sessions :
        sessionChampions[m][s] # None =>
            /\ versions[m][sessionChampions[m][s]] # None
            /\ \E i \in DOMAIN events :
                  events[i].model = m /\ events[i].target = sessionChampions[m][s]

(* LineageIsRooted: the walk that lineage() makes from any registered      *)
(* version reaches a root within the number of versions: its cycle error   *)
(* and its unknown-parent error are unreachable.                           *)
LineageIsRooted ==
    \A m \in Models, v \in Versions :
        versions[m][v] # None =>
            \E n \in 0..Cardinality(Versions) :
                LET w == Ancestor(m, v)[n]
                IN  w # None /\ versions[m][w] # None /\ versions[m][w].parent = None

(* HistoryOnlyGrows: no step changes a registered version, a session's     *)
(* frozen champion, or an event already in the trail, and no approval is   *)
(* ever unspent.                                                           *)
HistoryOnlyGrows ==
    [][ /\ \A m \in Models, v \in Versions :
              versions[m][v] # None => versions'[m][v] = versions[m][v]
        /\ \A m \in Models, s \in Sessions :
              sessionChampions[m][s] # None =>
                  sessionChampions'[m][s] = sessionChampions[m][s]
        /\ Len(events) <= Len(events')
        /\ \A i \in DOMAIN events : events'[i] = events[i]
        /\ usedApprovals \subseteq usedApprovals' ]_vars

=============================================================================
