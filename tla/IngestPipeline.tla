--------------------------- MODULE IngestPipeline ---------------------------
(***************************************************************************)
(* Licensed history ingestion: the CLI commands ingest-plan and ingest-run *)
(* (cli.py) over IngestPipeline (ingest/pipeline.py), the hash-chained cost*)
(* ledger (ingest/cost_ledger.py), the point-in-time batch ledger          *)
(* (ingest/pit_ledger.py) and the encrypted landing (services/             *)
(* raw_landing.py, ingest/local_landing.py).  Everything a command leaves  *)
(* behind is in files; it can die between any two file operations, and     *)
(* nothing stops an operator from starting two of them.                    *)
(*                                                                         *)
(* A batch is known by its logical key.  An object's identity contains its *)
(* first_seen_at, so every landing makes a new object: objects are numbered*)
(* in the order of their creation.  An entry of the cost ledger is         *)
(* identified by its plan, which stands for its hash.  The provider bills  *)
(* every successful download at the price it estimated, and a download     *)
(* that fails after the gateway's retries bills nothing.  The record count *)
(* asked for between landing and recording changes nothing.                *)
(***************************************************************************)
EXTENDS Naturals, Sequences, FiniteSets, FiniteSetsExt

CONSTANTS
    Procs,           \* CLI processes that may run at the same time
    Windows,         \* the pull lists a command may be given (_default_pulls)
    ZeroDte,         \* batches of scope spxw-0dte, planned by enumeration
    DefinitionsOf,   \* the definitions batch of each of those
    EmptyDays,       \* those of them whose chain has no contract
    Days, DayOf,     \* trading days, and the day of each batch
    Price,           \* metadata.get_cost of each batch
    Ceiling,         \* ceiling_usd
    MaxRuns,         \* bound: commands started
    MaxCrashes       \* bound: processes that die

Keys == DOMAIN Price
Definitions == {DefinitionsOf[b] : b \in ZeroDte}

ASSUME BatchAssumption ==
    /\ IsFiniteSet(Keys)
    /\ ZeroDte \subseteq Keys /\ EmptyDays \subseteq ZeroDte
    /\ DefinitionsOf \in [ZeroDte -> Keys \ ZeroDte]
    /\ DayOf \in [Keys -> Days]
    /\ \A b \in ZeroDte : DayOf[DefinitionsOf[b]] = DayOf[b]
    /\ Windows \subseteq Seq(Keys \ Definitions)
    /\ \A w \in Windows : \A i, j \in DOMAIN w : w[i] = w[j] => i = j
    /\ \A b, c \in ZeroDte : DefinitionsOf[b] = DefinitionsOf[c] => b = c
ASSUME CostAssumption ==
    /\ \A k \in Keys : Price[k] \in Nat
    /\ Ceiling \in Nat /\ MaxRuns \in Nat /\ MaxCrashes \in Nat

VARIABLES
    objects,    \* object files, in order of creation
    receipts,   \* objects with a line in receipts.jsonl
    pit,        \* batch-records.jsonl
    costs,      \* cost-ledger.jsonl
    reports,    \* pull-reports.jsonl
    closed,     \* days that have closed
    proc,       \* what each process is doing
    runs,       \* commands started so far
    paid,       \* history: downloads billed, by command and batch
    overlap,    \* history: was a command started while another one ran?
    crashes

vars == <<objects, receipts, pit, costs, reports, closed, proc, runs, paid, overlap,
          crashes>>
files == <<objects, receipts, pit, costs, reports>>

Statuses == {"LANDED", "SKIPPED_PRESENT", "NOT_DUE", "GAP", "EMPTY_CHAIN"}

(* pc: next step; run: number of the command, and of its plan; mode: its   *)
(* name; todo: batches left; items: planned batches; est: estimate so far; *)
(* seen: ledger entries read; job, object: the batch being landed.         *)
Labels == {"idle", "plan", "resolve", "definitions", "resolved", "estimate", "gate",
           "run", "download", "object", "receipt", "check", "record"}
Command ==
    [pc : Labels, run : Nat, mode : {"plan", "run"}, todo : Seq(Keys), items : Seq(Keys),
     est : Nat, seen : Nat, job : Keys \cup {"none"}, object : Nat,
     outcomes : SUBSET (Keys \X Statuses)]

Idle == [pc |-> "idle", run |-> 0, mode |-> "plan", todo |-> <<>>, items |-> <<>>,
         est |-> 0, seen |-> 0, job |-> "none", object |-> 0, outcomes |-> {}]

Init ==
    /\ objects = <<>> /\ receipts = {} /\ pit = <<>> /\ costs = <<>> /\ reports = <<>>
    /\ closed \in SUBSET Days
    /\ proc = [p \in Procs |-> Idle]
    /\ runs = 0
    /\ paid = [r \in 1..MaxRuns |-> [k \in Keys |-> 0]]
    /\ overlap = FALSE
    /\ crashes = 0

-----------------------------------------------------------------------------
(* PitBatchLedger.find and CostLedger._verify.  (The definitions named     *)
(* Bug... are faulty variants of the one they precede.)                    *)
Find(k) == \E i \in DOMAIN pit : pit[i].key = k

HashOf(n) == IF n = 0 THEN 0 ELSE costs[n].plan

Verifies ==
    \A n \in DOMAIN costs : costs[n].sequence = n - 1 /\ costs[n].previous = HashOf(n - 1)

At(p, label) == proc[p].pc = label
Batch(p) == Head(proc[p].todo)
Becomes(p, new) == proc' = [proc EXCEPT ![p] = new]
Goto(p, label) == Becomes(p, [proc[p] EXCEPT !.pc = label])

(* The current batch is settled with an outcome; on to the next one.       *)
Settle(p, status, label) ==
    Becomes(p, [proc[p] EXCEPT !.pc = label, !.todo = Tail(@),
                               !.outcomes = @ \cup {<<Batch(p), status>>}])

Bill(p, k) == paid' = [paid EXCEPT ![proc[p].run][k] = @ + 1]

(* _ingest: ingest-run needs --confirm-spend, and both commands plan.      *)
Start(p, window, mode) ==
    /\ At(p, "idle")
    /\ runs < MaxRuns
    /\ runs' = runs + 1
    /\ Becomes(p, [Idle EXCEPT !.pc = "plan", !.run = runs + 1, !.mode = mode,
                               !.todo = window])
    /\ overlap' = (overlap \/ \E q \in Procs : ~ At(q, "idle"))
    /\ UNCHANGED <<files, closed, paid, crashes>>

-----------------------------------------------------------------------------
(* build_plan.  A 0DTE batch already recorded costs nothing and is not     *)
(* enumerated again.                                                       *)
PlanDay(p) ==
    /\ At(p, "plan") /\ proc[p].todo # <<>>
    /\ LET b == Batch(p)
       IN  IF b \in ZeroDte /\ Find(b)
           THEN Becomes(p, [proc[p] EXCEPT !.items = Append(@, b), !.todo = Tail(@)])
           ELSE Goto(p, IF b \in ZeroDte THEN "resolve" ELSE "estimate")
    /\ UNCHANGED <<files, closed, runs, paid, overlap, crashes>>

(* _resolve_zero_dte: estimate and download the day's definitions.  The    *)
(* resolver's cache is the process's own and a command has one chain per   *)
(* day, so it never answers here.                                          *)
BugResolveNotEstimated(p) ==
    /\ At(p, "resolve")
    /\ Bill(p, DefinitionsOf[Batch(p)])
    /\ Goto(p, "definitions")
    /\ UNCHANGED <<files, closed, runs, overlap, crashes>>

Resolve(p) ==
    /\ At(p, "resolve")
    /\ LET k == DefinitionsOf[Batch(p)]
       IN  \/ Settle(p, "GAP", "plan") /\ UNCHANGED paid
           \/ /\ Bill(p, k)
              /\ Becomes(p, [proc[p] EXCEPT !.pc = "definitions", !.est = @ + Price[k]])
    /\ UNCHANGED <<files, closed, runs, overlap, crashes>>

(* _land_definitions: only once, and only after the day has closed.        *)
LandDefinitions(p) ==
    /\ At(p, "definitions")
    /\ LET k == DefinitionsOf[Batch(p)]
       IN  IF Find(k) \/ DayOf[k] \notin closed THEN Goto(p, "resolved")
           ELSE Becomes(p, [proc[p] EXCEPT !.pc = "object", !.job = k])
    /\ UNCHANGED <<files, closed, runs, paid, overlap, crashes>>

Resolved(p) ==
    /\ At(p, "resolved")
    /\ IF Batch(p) \in EmptyDays THEN Settle(p, "EMPTY_CHAIN", "plan")
       ELSE Goto(p, "estimate")
    /\ UNCHANGED <<files, closed, runs, paid, overlap, crashes>>

Estimate(p) ==
    /\ At(p, "estimate")
    /\ \/ Settle(p, "GAP", "plan")
       \/ Becomes(p, [proc[p] EXCEPT !.pc = "plan", !.todo = Tail(@),
                                     !.items = Append(@, Batch(p)),
                                     !.est = @ + Price[Batch(p)]])
    /\ UNCHANGED <<files, closed, runs, paid, overlap, crashes>>

(* CostLedger.append: load and verify, then write.  A ledger that does not *)
(* verify raises, which ends the command.                                  *)
ReadLedger(p) ==
    /\ At(p, "plan") /\ proc[p].todo = <<>>
    /\ Becomes(p, IF Verifies THEN [proc[p] EXCEPT !.pc = "gate", !.seen = Len(costs)]
                  ELSE Idle)
    /\ UNCHANGED <<files, closed, runs, paid, overlap, crashes>>

WithinCeiling(total) == total <= Ceiling

(* The decision is recorded; a blocked plan and ingest-plan end here.      *)
Gate(p) ==
    /\ At(p, "gate")
    /\ LET me == proc[p]
       IN  /\ costs' = Append(costs,
                 [plan |-> me.run, sequence |-> me.seen, previous |-> HashOf(me.seen),
                  total |-> me.est, approved |-> WithinCeiling(me.est)])
           /\ Becomes(p, IF WithinCeiling(me.est) /\ me.mode = "run"
                         THEN [me EXCEPT !.pc = "run", !.todo = me.items]
                         ELSE Idle)
    /\ UNCHANGED <<objects, receipts, pit, reports, closed, runs, paid, overlap, crashes>>

-----------------------------------------------------------------------------
(* run and _run_day.                                                       *)
BugRunDayAgain(p) ==
    /\ At(p, "run") /\ proc[p].todo # <<>>
    /\ IF DayOf[Batch(p)] \notin closed THEN Settle(p, "NOT_DUE", "run")
       ELSE Goto(p, "download")
    /\ UNCHANGED <<files, closed, runs, paid, overlap, crashes>>

RunDay(p) ==
    /\ At(p, "run") /\ proc[p].todo # <<>>
    /\ IF Find(Batch(p)) THEN Settle(p, "SKIPPED_PRESENT", "run")
       ELSE IF DayOf[Batch(p)] \notin closed THEN Settle(p, "NOT_DUE", "run")
       ELSE Goto(p, "download")
    /\ UNCHANGED <<files, closed, runs, paid, overlap, crashes>>

Download(p) ==
    /\ At(p, "download")
    /\ \/ Settle(p, "GAP", "run") /\ UNCHANGED paid
       \/ /\ Bill(p, Batch(p))
          /\ Becomes(p, [proc[p] EXCEPT !.pc = "object", !.job = Batch(p)])
    /\ UNCHANGED <<files, closed, runs, overlap, crashes>>

(* LicensedPayloadLandingService.land: the object file, then the receipt.  *)
PutObject(p) ==
    /\ At(p, "object")
    /\ objects' = Append(objects, [key |-> proc[p].job, whole |-> TRUE])
    /\ Becomes(p, [proc[p] EXCEPT !.pc = "receipt", !.object = Len(objects) + 1])
    /\ UNCHANGED <<receipts, pit, costs, reports, closed, runs, paid, overlap, crashes>>

BugAppendReceiptSkipped(p) ==
    /\ At(p, "receipt")
    /\ Goto(p, "check")
    /\ UNCHANGED <<files, closed, runs, paid, overlap, crashes>>

AppendReceipt(p) ==
    /\ At(p, "receipt")
    /\ receipts' = receipts \cup {proc[p].object}
    /\ Goto(p, "check")
    /\ UNCHANGED <<objects, pit, costs, reports, closed, runs, paid, overlap, crashes>>

(* PitBatchLedger.append: a record of this key made by another landing is  *)
(* a conflict, which ends the command.                                     *)
PitCheck(p) ==
    /\ At(p, "check")
    /\ Becomes(p, IF Find(proc[p].job) THEN Idle ELSE [proc[p] EXCEPT !.pc = "record"])
    /\ UNCHANGED <<files, closed, runs, paid, overlap, crashes>>

(* A recording that reports the batch although nothing was appended.       *)
BugPitAppendLost(p) ==
    /\ At(p, "record")
    /\ IF proc[p].job \in Definitions THEN Goto(p, "resolved")
       ELSE Settle(p, "LANDED", "run")
    /\ UNCHANGED <<files, closed, runs, paid, overlap, crashes>>

PitAppend(p) ==
    /\ At(p, "record")
    /\ pit' = Append(pit, [key |-> proc[p].job, object |-> proc[p].object])
    /\ IF proc[p].job \in Definitions THEN Goto(p, "resolved")
       ELSE Settle(p, "LANDED", "run")
    /\ UNCHANGED <<objects, receipts, costs, reports, closed, runs, paid, overlap, crashes>>

(* _persist_report.                                                        *)
PersistReport(p) ==
    /\ At(p, "run") /\ proc[p].todo = <<>>
    /\ reports' = Append(reports, [plan |-> proc[p].run, outcomes |-> proc[p].outcomes])
    /\ Becomes(p, Idle)
    /\ UNCHANGED <<objects, receipts, pit, costs, closed, runs, paid, overlap, crashes>>

-----------------------------------------------------------------------------
(* A process dies.  While it writes an object it may leave part of it.     *)
Crash(p) ==
    /\ ~ At(p, "idle")
    /\ crashes < MaxCrashes
    /\ crashes' = crashes + 1
    /\ \/ UNCHANGED objects
       \/ /\ At(p, "object")
          /\ objects' = Append(objects, [key |-> proc[p].job, whole |-> FALSE])
    /\ Becomes(p, Idle)
    /\ UNCHANGED <<receipts, pit, costs, reports, closed, runs, paid, overlap>>

DayCloses(d) ==
    /\ d \notin closed
    /\ closed' = closed \cup {d}
    /\ UNCHANGED <<files, proc, runs, paid, overlap, crashes>>

(* No command is left to start.                                            *)
Done ==
    /\ runs = MaxRuns /\ closed = Days
    /\ \A p \in Procs : At(p, "idle")
    /\ UNCHANGED vars

Step(p) ==
    \/ PlanDay(p) \/ Resolve(p) \/ LandDefinitions(p) \/ Resolved(p) \/ Estimate(p)
    \/ ReadLedger(p) \/ Gate(p)
    \/ RunDay(p) \/ Download(p)
    \/ PutObject(p) \/ AppendReceipt(p) \/ PitCheck(p) \/ PitAppend(p)
    \/ PersistReport(p)

Next ==
    \/ \E p \in Procs :
          \/ \E w \in Windows, mode \in {"plan", "run"} : Start(p, w, mode)
          \/ Step(p)
          \/ Crash(p)
    \/ \E d \in Days : DayCloses(d)
    \/ Done

Spec == Init /\ [][Next]_vars

-----------------------------------------------------------------------------
(* Properties.                                                             *)

(* TypeOK: the ledgers hold records of their types, which name objects     *)
(* that exist and commands that were started.                              *)
TypeOK ==
    /\ objects \in Seq([key : Keys, whole : BOOLEAN])
    /\ receipts \subseteq DOMAIN objects
    /\ pit \in Seq([key : Keys, object : DOMAIN objects])
    /\ costs \in Seq([plan : 1..runs, sequence : Nat, previous : 0..runs,
                      total : Nat, approved : BOOLEAN])
    /\ reports \in Seq([plan : 1..runs, outcomes : SUBSET (Keys \X Statuses)])
    /\ closed \subseteq Days
    /\ proc \in [Procs -> Command]
    /\ runs \in 0..MaxRuns
    /\ paid \in [1..MaxRuns -> [Keys -> Nat]]
    /\ overlap \in BOOLEAN
    /\ crashes \in 0..MaxCrashes

(* VisibleIsWhole: a batch is read through its point-in-time record; "never*)
(* partially visible" (historical-ingestion.md): whatever died when, every *)
(* record leads to a complete object of its own batch that has a receipt.  *)
VisibleIsWhole ==
    \A n \in DOMAIN pit :
        /\ objects[pit[n].object] = [key |-> pit[n].key, whole |-> TRUE]
        /\ pit[n].object \in receipts

(* OneRecordPerKey: "one record per dataset/schema/symbol/day"             *)
(* (historical-ingestion.md), across crashes and repeated commands, as     *)
(* long as no two of them ran at once: find and append are not one step.   *)
OneRecordPerKey ==
    overlap \/ \A m, n \in DOMAIN pit : pit[m].key = pit[n].key => m = n

Spent(r, S) == MapThenSumSet(LAMBDA k : paid[r][k] * Price[k], S)

(* SpendIsAccounted: a command with a ledger entry never pays more than    *)
(* the estimate in it; when it was approved that is within the ceiling,    *)
(* and when it was blocked it has paid for enumeration only, although the  *)
(* enumeration is paid before the ceiling is looked at.                    *)
SpendIsAccounted ==
    \A n \in DOMAIN costs :
        LET e == costs[n]
        IN  /\ Spent(e.plan, Keys) <= e.total
            /\ e.approved => e.total <= Ceiling
            /\ ~ e.approved => Spent(e.plan, Keys \ Definitions) = 0

(* ReportMatchesLedger: a persisted report belongs to an approved plan,    *)
(* gives every batch one outcome, and what it calls LANDED or              *)
(* SKIPPED_PRESENT is in the point-in-time ledger.                         *)
ReportMatchesLedger ==
    \A n \in DOMAIN reports :
        /\ \E m \in DOMAIN costs : costs[m].plan = reports[n].plan /\ costs[m].approved
        /\ \A x, y \in reports[n].outcomes : x[1] = y[1] => x = y
        /\ \A x \in reports[n].outcomes :
              x[2] \in {"LANDED", "SKIPPED_PRESENT"} => Find(x[1])

(* LandedDayNotBilled: "never rewrites a landed day": once a day's batch   *)
(* is recorded no later command downloads, and pays for, it again, unless  *)
(* commands overlap.                                                       *)
LandedDayNotBilled ==
    [][ \A k \in Keys \ Definitions :
          Find(k) /\ ~ overlap => \A r \in 1..MaxRuns : paid'[r][k] = paid[r][k] ]_vars

(* ExclusiveLedgerVerifies: commands that never overlap keep the chain of  *)
(* the cost ledger intact, wherever they die.                              *)
ExclusiveLedgerVerifies == overlap \/ Verifies

(* The three statements below do not hold; see README.                     *)
(* CostLedgerVerifies: the cost ledger is a "hash-chained append-only      *)
(* record of every cost-gate decision" (cost_ledger.py): load accepts it.  *)
CostLedgerVerifies == Verifies

(* PlanningIsIdempotent: the definitions "land as auditable PIT batches,   *)
(* so planning is not free but is accounted and idempotent"                *)
(* (historical-ingestion.md): definitions that are recorded are not bought *)
(* again.                                                                  *)
PlanningIsIdempotent ==
    [][ \A k \in Definitions :
          Find(k) => \A r \in 1..MaxRuns : paid'[r][k] = paid[r][k] ]_vars

(* LandedOrAbsent: "a day batch is either fully landed and recorded or     *)
(* absent" (historical-ingestion.md): when no command runs, every object   *)
(* file is one the point-in-time ledger leads to.                          *)
LandedOrAbsent ==
    (\A p \in Procs : At(p, "idle")) =>
        \A n \in DOMAIN objects : \E m \in DOMAIN pit : pit[m].object = n

=============================================================================
