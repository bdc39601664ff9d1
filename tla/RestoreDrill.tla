------------------------------ MODULE RestoreDrill ------------------------------
(***************************************************************************)
(* The backup/restore drill (restore_drill.py): two labelled containers    *)
(* and two labelled volumes are created, a fixture is dumped from one      *)
(* database and restored into the other, the copy is verified, everything  *)
(* is removed again and a report replaces the previous one.  Docker and    *)
(* PostgreSQL are external: a command may fail, the daemon may stop        *)
(* answering, the docker program itself may be missing, and the restored   *)
(* copy may differ from the source.  The process may be killed.            *)
(***************************************************************************)
EXTENDS Naturals, Sequences

CONSTANTS NoReport, MaxDrills, MaxKills, MaxOutages

VARIABLES
    drill,      \* number of the drill under way or last started
    phase,      \* a member of Steps, "idle" or "cleanup"
    docker,     \* "up", "down" (no answer) or "missing" (no program)
    resources,  \* existing resources, as <<drill, name>>
    copy,       \* the restored database: "empty", the "same" as the source,
                \* different "elsewhere" than the checks look, or "differs"
    ok,         \* all checks of this drill passed
    swept,      \* resources the cleanup has dealt with, and its verdict
    report,     \* the report file
    proved,     \* drills whose restored copy held what the checks look at
    unseen,     \* drills whose cleanup met a daemon that did not answer
    kills, outages

drillVars == <<drill, phase, docker, resources, copy, ok, swept, report, proved,
               unseen, kills, outages>>

\* The steps of run_restore_drill and the resource each one creates.
Steps == <<"docker_version", "source_volume", "restore_volume", "source_container",
           "fixture", "dump", "restore_container", "restore", "verify">>

Creates == {"source_volume", "restore_volume", "source_container", "restore_container"}

\* _cleanup takes the containers first: a volume in use cannot be removed.
CleanupOrder == <<"source_container", "restore_container", "source_volume", "restore_volume">>

StepAt(i) == phase = Steps[i]

Nothing == [done |-> 0, clean |-> TRUE]

\* The process ends and its variables with it.
Over == phase' = "idle" /\ copy' = "empty" /\ ok' = FALSE /\ swept' = Nothing

Begin ==
    /\ phase = "idle" /\ drill < MaxDrills
    /\ drill' = drill + 1
    /\ phase' = Steps[1]
    /\ UNCHANGED <<docker, resources, copy, ok, swept, report, proved, unseen, kills, outages>>

\* The four hashed projections (decisions, manifests, checkpoints, governance)
\* equal those of the source, and the counts, triggers, foreign keys and the
\* checkpoint's links are as expected.  The rows of the other tables, alerts
\* among them, may differ.
Matching == {"same", "elsewhere"}

\* A command that succeeds; the restored copy is right or wrong.
StepDone(i) ==
    /\ StepAt(i) /\ docker = "up" /\ Steps[i] # "verify"
    /\ resources' = resources \cup ({Steps[i]} \cap Creates) \X {drill}
    /\ copy' \in IF Steps[i] = "restore" THEN Matching \cup {"differs"} ELSE {copy}
    /\ proved' = IF Steps[i] = "restore" /\ copy' \in Matching
                 THEN proved \cup {drill} ELSE proved
    /\ phase' = Steps[i + 1]
    /\ UNCHANGED <<drill, docker, ok, swept, report, unseen, kills, outages>>

\* hashes_match and every check of _verify_restored_database.
Verified == copy \in Matching

VerifyCopy ==
    /\ StepAt(Len(Steps)) /\ docker = "up"
    /\ ok' = Verified
    /\ phase' = "cleanup"
    /\ UNCHANGED <<drill, docker, resources, copy, swept, report, proved, unseen, kills, outages>>

\* A command that fails, perhaps after it created its resource, and any command
\* once docker is gone; the finally clause takes over.
StepFailed(i) ==
    /\ StepAt(i)
    /\ \/ UNCHANGED resources
       \/ docker = "up" /\ resources' = resources \cup ({Steps[i]} \cap Creates) \X {drill}
    /\ phase' = "cleanup"
    /\ UNCHANGED <<drill, docker, copy, ok, swept, report, proved, unseen, kills, outages>>

InUse(name) ==
    \/ name = "source_volume" /\ <<"source_container", drill>> \in resources
    \/ name = "restore_volume" /\ <<"restore_container", drill>> \in resources

\* One resource of _cleanup: inspected, removed if it carries the label, and
\* inspected again.  An inspection that fails counts as absence.
Sweep ==
    /\ phase = "cleanup" /\ docker # "missing" /\ swept.done < Len(CleanupOrder)
    /\ LET r == <<CleanupOrder[swept.done + 1], drill>>
           answered == docker = "up"
       IN  \E removed \in IF answered /\ r \in resources /\ ~InUse(r[1])
                          THEN BOOLEAN ELSE {FALSE} :
             /\ resources' = IF removed THEN resources \ {r} ELSE resources
             /\ swept' = [done |-> swept.done + 1,
                          clean |-> swept.clean /\ ~(answered /\ r \in resources /\ ~removed)]
             /\ unseen' = IF answered THEN unseen ELSE unseen \cup {drill}
    /\ UNCHANGED <<drill, phase, docker, copy, ok, report, proved, kills, outages>>

\* Without the docker program the cleanup itself raises: no report is written.
SweepRaises ==
    /\ phase = "cleanup" /\ docker = "missing"
    /\ Over
    /\ UNCHANGED <<drill, docker, resources, report, proved, unseen, kills, outages>>

BugWriteReport ==
    /\ phase = "cleanup" /\ swept.done = Len(CleanupOrder)
    /\ report' = [drill |-> drill, status |-> IF ok THEN "PASS" ELSE "FAIL", cleaned |-> TRUE]
    /\ Over
    /\ UNCHANGED <<drill, docker, resources, proved, unseen, kills, outages>>

\* _write_report: written to a temporary file that replaces the report.
WriteReport ==
    /\ phase = "cleanup" /\ swept.done = Len(CleanupOrder)
    /\ report' = [drill |-> drill,
                  status |-> IF ok /\ swept.clean THEN "PASS" ELSE "FAIL",
                  cleaned |-> swept.clean]
    /\ Over
    /\ UNCHANGED <<drill, docker, resources, proved, unseen, kills, outages>>

Kill ==
    /\ kills < MaxKills /\ kills' = kills + 1
    /\ phase # "idle" /\ Over
    /\ UNCHANGED <<drill, docker, resources, report, proved, unseen, outages>>

Outage ==
    /\ phase # "idle" /\ docker = "up"
    /\ outages < MaxOutages /\ outages' = outages + 1
    /\ docker' \in {"down", "missing"}
    /\ UNCHANGED <<drill, phase, resources, copy, ok, swept, report, proved, unseen, kills>>

Recovers ==
    /\ docker # "up" /\ docker' = "up"
    /\ UNCHANGED <<drill, phase, resources, copy, ok, swept, report, proved, unseen,
                   kills, outages>>

DrillInit ==
    /\ drill = 0 /\ phase = "idle" /\ docker = "up"
    /\ resources = {} /\ copy = "empty" /\ ok = FALSE /\ swept = Nothing
    /\ report = NoReport /\ proved = {} /\ unseen = {}
    /\ kills = 0 /\ outages = 0

DrillStep ==
    \/ \E i \in DOMAIN Steps : StepDone(i) \/ StepFailed(i)
    \/ VerifyCopy \/ Sweep \/ SweepRaises \/ WriteReport

DrillNext == Begin \/ DrillStep \/ Kill \/ Outage \/ Recovers

DrillSpec == DrillInit /\ [][DrillNext]_drillVars

-----------------------------------------------------------------------------
(* Properties.                                                             *)

DrillTypeOK ==
    /\ phase \in {Steps[i] : i \in DOMAIN Steps} \cup {"idle", "cleanup"}
    /\ resources \subseteq Creates \X (1..MaxDrills)
    /\ ok => phase \in {"cleanup", "idle"}

\* PASS is only ever reported for a drill whose restored copy held the source's
\* decisions, manifests, checkpoints and governance rows, however that or an
\* earlier drill ended, and never with a resource known to be left over.
PassIsProved ==
    report # NoReport /\ report.status = "PASS" =>
        report.drill \in proved /\ report.cleaned

\* "Cleaned" means that nothing of the drill is left, if the docker daemon
\* answered throughout the cleanup.
CleanedMeansGone ==
    report # NoReport /\ report.cleaned /\ report.drill \notin unseen =>
        \A name \in Creates : <<name, report.drill>> \notin resources

\* What a report says of its drill is true: of the copy and of the cleanup.
ReportIsTrue == PassIsProved /\ CleanedMeansGone

\* The stronger reading: the report's "cleaned" can be taken at its word.
CleanedAlwaysMeansGone ==
    report # NoReport /\ report.cleaned =>
        \A name \in Creates : <<name, report.drill>> \notin resources
=============================================================================
