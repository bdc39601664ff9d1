------------------------ MODULE IngestPipelineProofs ------------------------
(***************************************************************************)
(* TLAPS proofs about IngestPipeline, for any number of processes,         *)
(* commands, crashes, batches and days, any prices and any ceiling.        *)
(***************************************************************************)
EXTENDS IngestPipeline, SequenceTheorems, FiniteSetTheorems, WellFoundedInduction,
        TLAPS

(* What a command knows of the files at each of its steps.  A batch in     *)
(* hand has an object, from the receipt on a whole one of its own, and     *)
(* from the check on one with a receipt.                                   *)
Busy == {"resolve", "definitions", "resolved", "estimate", "download",
         "object", "receipt", "check", "record"}

Sound(r) ==
    /\ r.pc \in Busy => r.todo # <<>>
    /\ r.pc \in {"resolve", "definitions"} => Head(r.todo) \in ZeroDte
    /\ r.pc \in {"object", "receipt", "check", "record"} => r.job \in Keys
    /\ r.pc \in {"receipt", "check", "record"} =>
          /\ r.object \in DOMAIN objects
          /\ objects[r.object] = [key |-> r.job, whole |-> TRUE]
    /\ r.pc \in {"check", "record"} => r.object \in receipts
    /\ r.pc # "idle" => r.run \in 1..runs
    /\ r.seen <= Len(costs)

(* What a command that runs alone still knows when it acts on what it has  *)
(* read: nothing has been appended to a ledger since.                      *)
Fresh(r) ==
    /\ r.pc = "gate" => r.seen = Len(costs)
    /\ r.pc = "record" => ~ Find(r.job)
    /\ r.pc = "download" => ~ Find(Head(r.todo))

Alone ==
    \A p, q \in Procs : proc[p].pc # "idle" /\ proc[q].pc # "idle" => p = q

Distinct == \A m, n \in DOMAIN pit : pit[m].key = pit[n].key => m = n

Exclusion ==
    ~ overlap =>
        /\ Alone
        /\ \A p \in Procs : Fresh(proc[p])
        /\ Distinct
        /\ Verifies

(* The inductive invariant.                                                *)
IngestInv ==
    /\ TypeOK
    /\ \A p \in Procs : Sound(proc[p])
    /\ VisibleIsWhole
    /\ Exclusion

-----------------------------------------------------------------------------
(* An append keeps the lines that are there.                               *)
LEMMA AppendKeeps ==
    ASSUME NEW S, NEW s \in Seq(S), NEW e \in S
    PROVE  /\ Append(s, e) \in Seq(S)
           /\ DOMAIN s = 1..Len(s)
           /\ Len(s) \in Nat
           /\ Len(Append(s, e)) = Len(s) + 1
           /\ DOMAIN Append(s, e) = 1..(Len(s) + 1)
           /\ \A i \in 1..Len(s) : Append(s, e)[i] = s[i]
           /\ Append(s, e)[Len(s) + 1] = e
    OBVIOUS

(* The first batch of a list, and the rest of it.                          *)
LEMMA HeadAndTail ==
    ASSUME NEW s \in Seq(Keys), s # <<>>
    PROVE  Head(s) \in Keys /\ Tail(s) \in Seq(Keys)
    OBVIOUS

(* Every batch of a 0DTE chain has definitions, which are never a chain.   *)
LEMMA DefinitionsFacts ==
    ASSUME NEW b \in ZeroDte
    PROVE  /\ b \in Keys
           /\ DefinitionsOf[b] \in Keys
           /\ DefinitionsOf[b] \in Definitions
    BY BatchAssumption DEF Definitions

(* A step of one process that only lets the files grow leaves what every   *)
(* other process knows true.                                               *)
FilesGrow ==
    /\ \A n \in DOMAIN objects : n \in DOMAIN objects' /\ objects'[n] = objects[n]
    /\ receipts \subseteq receipts'
    /\ Len(costs) <= Len(costs')
    /\ runs <= runs'

LEMMA ProcStep ==
    ASSUME TypeOK, \A q \in Procs : Sound(proc[q]),
           FilesGrow, runs' \in Nat, Len(costs') \in Nat,
           NEW p \in Procs, NEW new \in Command, Becomes(p, new), Sound(new)'
    PROVE  /\ proc' \in [Procs -> Command]
           /\ proc'[p] = new
           /\ \A q \in Procs : q # p => proc'[q] = proc[q]
           /\ \A q \in Procs : Sound(proc[q])'
<1>1. /\ proc' \in [Procs -> Command]
      /\ proc'[p] = new
      /\ \A q \in Procs : q # p => proc'[q] = proc[q]
    BY DEF TypeOK, Becomes
<1>2. ASSUME NEW q \in Procs, q # p
      PROVE  Sound(proc[q])'
  <2>1. proc[q] \in Command /\ proc'[q] = proc[q] /\ Sound(proc[q])
    BY <1>1, <1>2 DEF TypeOK
  <2>2. proc[q].seen \in Nat /\ proc[q].run \in Nat /\ Len(costs) \in Nat /\ runs \in Nat
    BY <2>1 DEF Command, TypeOK
  <2> QED
    BY <2>1, <2>2 DEF Sound, FilesGrow
<1>3. Sound(proc[p])'
    BY <1>1 DEF Sound
<1> QED
    BY <1>1, <1>2, <1>3

-----------------------------------------------------------------------------
(* A step of a running process that may write files: they must keep their  *)
(* types and grow, every record must stay whole, what the process moves on *)
(* to must fit the new files, and a process that is alone must keep the    *)
(* ledgers exclusive.                                                      *)
FilesTyped ==
    /\ objects \in Seq([key : Keys, whole : BOOLEAN])
    /\ receipts \subseteq DOMAIN objects
    /\ pit \in Seq([key : Keys, object : DOMAIN objects])
    /\ costs \in Seq([plan : 1..runs, sequence : Nat, previous : 0..runs,
                      total : Nat, approved : BOOLEAN])
    /\ reports \in Seq([plan : 1..runs, outcomes : SUBSET (Keys \X Statuses)])

LEMMA WriteStep ==
    ASSUME IngestInv, NEW p \in Procs, proc[p].pc # "idle",
           NEW new \in Command, Becomes(p, new),
           UNCHANGED <<closed, runs, overlap>>,
           paid' \in [1..MaxRuns -> [Keys -> Nat]], crashes' \in 0..MaxCrashes,
           FilesTyped', FilesGrow, VisibleIsWhole',
           Sound(new)',
           ~ overlap => Fresh(new)' /\ Distinct' /\ Verifies'
    PROVE  IngestInv'
<1>1. TypeOK /\ runs' \in Nat /\ Len(costs') \in Nat
    BY DEF IngestInv, TypeOK, FilesTyped
<1>2. /\ proc' \in [Procs -> Command]
      /\ proc'[p] = new
      /\ \A q \in Procs : q # p => proc'[q] = proc[q]
      /\ \A q \in Procs : Sound(proc[q])'
    BY <1>1, ProcStep DEF IngestInv
<1>3. TypeOK'
    BY <1>1, <1>2 DEF TypeOK, FilesTyped
<1>4. ASSUME ~ overlap'
      PROVE  Alone' /\ \A q \in Procs : Fresh(proc[q])'
  <2>1. ~ overlap /\ Alone
    BY <1>4 DEF IngestInv, Exclusion
  <2>2. \A q \in Procs : q # p => proc'[q].pc = "idle"
    BY <1>2, <2>1 DEF Alone
  <2>3. Alone'
    BY <2>2 DEF Alone
  <2>4. \A q \in Procs : Fresh(proc[q])'
    BY <1>2, <2>1, <2>2 DEF Fresh, Find
  <2> QED
    BY <2>3, <2>4
<1> QED
    BY <1>2, <1>3, <1>4 DEF IngestInv, Exclusion

(* A step of a running process that writes no file.                        *)
LEMMA QuietStep ==
    ASSUME IngestInv, NEW p \in Procs, proc[p].pc # "idle",
           NEW new \in Command, Becomes(p, new),
           UNCHANGED <<files, closed, runs, overlap>>,
           paid' \in [1..MaxRuns -> [Keys -> Nat]], crashes' \in 0..MaxCrashes,
           Sound(new), ~ overlap => Fresh(new)
    PROVE  IngestInv'
<1>1. /\ UNCHANGED <<objects, receipts, pit, costs, reports>>
      /\ TypeOK
      /\ runs \in Nat /\ Len(costs) \in Nat
    BY DEF files, IngestInv, TypeOK
<1>2. FilesGrow /\ FilesTyped'
    BY <1>1 DEF FilesGrow, TypeOK, FilesTyped
<1>3. Sound(new)'
    BY <1>1 DEF Sound
<1>4. VisibleIsWhole'
    BY <1>1 DEF IngestInv, VisibleIsWhole
<1>5. ASSUME ~ overlap
      PROVE  Fresh(new)' /\ Distinct' /\ Verifies'
  <2>1. Fresh(new) /\ Distinct /\ Verifies
    BY <1>5 DEF IngestInv, Exclusion
  <2> QED
    BY <1>1, <2>1 DEF Fresh, Find, Distinct, Verifies, HashOf
<1> QED
    BY <1>2, <1>3, <1>4, <1>5, WriteStep

(* The moves of a process between two file operations, and their fields.   *)
LEMMA GotoFields ==
    ASSUME NEW r \in Command, NEW label \in Labels
    PROVE  LET new == [r EXCEPT !.pc = label]
           IN  /\ new \in Command
               /\ new.pc = label /\ new.run = r.run /\ new.todo = r.todo
               /\ new.seen = r.seen /\ new.job = r.job /\ new.object = r.object
    BY DEF Command

Settled(r, status, label) ==
    [r EXCEPT !.pc = label, !.todo = Tail(@),
              !.outcomes = @ \cup {<<Head(r.todo), status>>}]

LEMMA SettleFields ==
    ASSUME NEW r \in Command, r.todo # <<>>, NEW status \in Statuses, NEW label \in Labels
    PROVE  LET new == Settled(r, status, label)
           IN  /\ new \in Command
               /\ new.pc = label /\ new.run = r.run /\ new.seen = r.seen
<1>1. r.todo \in Seq(Keys) /\ r.outcomes \in SUBSET (Keys \X Statuses)
    BY DEF Command
<1>2. Head(r.todo) \in Keys /\ Tail(r.todo) \in Seq(Keys)
    BY <1>1, HeadAndTail
<1>3. r.outcomes \cup {<<Head(r.todo), status>>} \in SUBSET (Keys \X Statuses)
    BY <1>1, <1>2
<1> QED
    BY <1>1, <1>2, <1>3 DEF Command, Settled

(* A process that ends, in whatever way.                                   *)
LEMMA IdleFields ==
    Idle \in Command /\ Idle.pc = "idle" /\ Idle.seen = 0
    BY DEF Idle, Command, Labels

(* The first batch settled with an outcome, and on to the next one.        *)
LEMMA SettleStep ==
    ASSUME IngestInv, NEW p \in Procs, proc[p].pc \in Busy \cup {"run"},
           proc[p].todo # <<>>,
           NEW status \in Statuses, NEW label \in {"plan", "run"},
           Settle(p, status, label),
           UNCHANGED <<files, closed, runs, paid, overlap, crashes>>
    PROVE  IngestInv'
<1>1. proc[p] \in Command /\ Sound(proc[p]) /\ label \in Labels /\ proc[p].pc # "idle"
    BY DEF IngestInv, TypeOK, Labels, Busy
<1> DEFINE new == Settled(proc[p], status, label)
<1>2. /\ new \in Command
      /\ new.pc = label /\ new.run = proc[p].run /\ new.seen = proc[p].seen
    BY <1>1, SettleFields
<1>3. Becomes(p, new)
    BY DEF Settle, Batch, Settled
<1>4. Sound(new) /\ Fresh(new)
    BY <1>1, <1>2 DEF Sound, Fresh, Busy
<1>5. paid' \in [1..MaxRuns -> [Keys -> Nat]] /\ crashes' \in 0..MaxCrashes
    BY DEF IngestInv, TypeOK
<1> HIDE DEF new
<1> QED
    BY <1>1, <1>2, <1>3, <1>4, <1>5, QuietStep

(* A process that only moves to its next step.                             *)
LEMMA GotoStep ==
    ASSUME IngestInv, NEW p \in Procs, proc[p].pc # "idle",
           NEW label \in Labels, Goto(p, label),
           Sound([proc[p] EXCEPT !.pc = label]),
           ~ overlap => Fresh([proc[p] EXCEPT !.pc = label]),
           UNCHANGED <<files, closed, runs, paid, overlap, crashes>>
    PROVE  IngestInv'
<1>1. proc[p] \in Command
    BY DEF IngestInv, TypeOK
<1> DEFINE new == [proc[p] EXCEPT !.pc = label]
<1>2. new \in Command /\ Becomes(p, new)
    BY <1>1, GotoFields DEF Goto
<1>3. paid' \in [1..MaxRuns -> [Keys -> Nat]] /\ crashes' \in 0..MaxCrashes
    BY DEF IngestInv, TypeOK
<1> HIDE DEF new
<1>4. Sound(new) /\ (~ overlap => Fresh(new))
    BY DEF new
<1> QED
    BY <1>2, <1>3, <1>4, QuietStep

(* What is known of a process about to take a step.                        *)
LEMMA Here ==
    ASSUME IngestInv, NEW p \in Procs
    PROVE  /\ proc[p] \in Command /\ Sound(proc[p])
           /\ ~ overlap => Fresh(proc[p])
           /\ proc[p].todo \in Seq(Keys) /\ proc[p].items \in Seq(Keys)
           /\ proc[p].est \in Nat /\ proc[p].seen \in Nat
           /\ paid \in [1..MaxRuns -> [Keys -> Nat]] /\ crashes \in 0..MaxCrashes
<1>1. proc[p] \in Command /\ Sound(proc[p]) /\ (~ overlap => Fresh(proc[p]))
    BY DEF IngestInv, TypeOK, Exclusion
<1> QED
    BY <1>1 DEF IngestInv, TypeOK, Command

(* The provider's bill is counted for the command that asked.              *)
LEMMA BillTyped ==
    ASSUME IngestInv, NEW p \in Procs, proc[p].pc # "idle", NEW k \in Keys, Bill(p, k)
    PROVE  /\ paid' \in [1..MaxRuns -> [Keys -> Nat]]
           /\ \A r \in 1..MaxRuns, j \in Keys : j # k => paid'[r][j] = paid[r][j]
<1>1. proc[p].run \in 1..runs /\ runs \in 0..MaxRuns /\ MaxRuns \in Nat
    BY Here, CostAssumption DEF Sound, IngestInv, TypeOK
<1>2. proc[p].run \in 1..MaxRuns
    BY <1>1
<1> DEFINE run == proc[p].run
           row == [paid[run] EXCEPT ![k] = @ + 1]
<1>3. paid \in [1..MaxRuns -> [Keys -> Nat]] /\ paid' = [paid EXCEPT ![run] = row]
    BY Here DEF Bill
<1>4. row \in [Keys -> Nat] /\ \A j \in Keys : j # k => row[j] = paid[run][j]
    BY <1>2, <1>3
<1> HIDE DEF row
<1> QED
    BY <1>2, <1>3, <1>4

-----------------------------------------------------------------------------
(* The steps of build_plan.                                                *)
LEMMA PlanDayInv ==
    ASSUME IngestInv, NEW p \in Procs, PlanDay(p)
    PROVE  IngestInv'
<1> DEFINE r == proc[p]
           b == Head(r.todo)
<1>1. /\ r \in Command /\ Sound(r) /\ r.pc = "plan" /\ r.todo # <<>>
      /\ r.todo \in Seq(Keys) /\ r.items \in Seq(Keys)
      /\ UNCHANGED <<files, closed, runs, paid, overlap, crashes>>
    BY Here DEF PlanDay, At
<1>2. b \in Keys /\ Tail(r.todo) \in Seq(Keys) /\ Append(r.items, b) \in Seq(Keys)
    BY <1>1, HeadAndTail
<1>3. CASE b \in ZeroDte /\ Find(b)
  <2> DEFINE new == [r EXCEPT !.items = Append(@, b), !.todo = Tail(@)]
  <2>1. Becomes(p, new)
    BY <1>3 DEF PlanDay, Batch
  <2>2. new \in Command /\ new.pc = "plan" /\ new.run = r.run /\ new.seen = r.seen
    BY <1>1, <1>2 DEF Command
  <2>3. Sound(new) /\ Fresh(new)
    BY <1>1, <2>2 DEF Sound, Fresh, Busy
  <2>4. paid' \in [1..MaxRuns -> [Keys -> Nat]] /\ crashes' \in 0..MaxCrashes
    BY <1>1, Here
  <2> HIDE DEF new
  <2> QED
    BY <1>1, <2>1, <2>2, <2>3, <2>4, QuietStep
<1>4. CASE ~ (b \in ZeroDte /\ Find(b))
  <2> DEFINE label == IF b \in ZeroDte THEN "resolve" ELSE "estimate"
  <2>1. label \in Labels /\ Goto(p, label)
    BY <1>4 DEF PlanDay, Batch, Labels
  <2>2. Sound([r EXCEPT !.pc = label]) /\ Fresh([r EXCEPT !.pc = label])
    BY <1>1, <2>1, GotoFields DEF Sound, Fresh, Busy
  <2> HIDE DEF label
  <2> QED
    BY <1>1, <2>1, <2>2, GotoStep
<1> QED
    BY <1>3, <1>4

LEMMA ResolveInv ==
    ASSUME IngestInv, NEW p \in Procs, Resolve(p)
    PROVE  IngestInv'
<1> DEFINE r == proc[p]
           k == DefinitionsOf[Head(r.todo)]
<1>1. /\ r \in Command /\ Sound(r) /\ r.pc = "resolve" /\ r.todo # <<>> /\ r.est \in Nat
      /\ Head(r.todo) \in ZeroDte
      /\ UNCHANGED <<files, closed, runs, overlap, crashes>>
    BY Here DEF Resolve, At, Sound, Busy
<1>2. k \in Keys /\ r.est + Price[k] \in Nat
    BY <1>1, DefinitionsFacts, CostAssumption
<1>3. CASE Settle(p, "GAP", "plan") /\ UNCHANGED paid
    BY <1>1, <1>3, SettleStep DEF Statuses, Busy
<1>4. CASE /\ Bill(p, k)
           /\ Becomes(p, [r EXCEPT !.pc = "definitions", !.est = @ + Price[k]])
  <2> DEFINE new == [r EXCEPT !.pc = "definitions", !.est = @ + Price[k]]
  <2>1. /\ new \in Command /\ new.pc = "definitions" /\ new.run = r.run
        /\ new.seen = r.seen /\ new.todo = r.todo
    BY <1>1, <1>2 DEF Command, Labels
  <2>2. Sound(new) /\ Fresh(new)
    BY <1>1, <2>1 DEF Sound, Fresh, Busy
  <2>3. paid' \in [1..MaxRuns -> [Keys -> Nat]] /\ crashes' \in 0..MaxCrashes
    BY <1>1, <1>2, <1>4, BillTyped, Here
  <2>4. Becomes(p, new)
    BY <1>4
  <2> HIDE DEF new
  <2> QED
    BY <1>1, <2>1, <2>2, <2>3, <2>4, QuietStep
<1> QED
    BY <1>3, <1>4 DEF Resolve, Batch

LEMMA LandDefinitionsInv ==
    ASSUME IngestInv, NEW p \in Procs, LandDefinitions(p)
    PROVE  IngestInv'
<1> DEFINE r == proc[p]
           k == DefinitionsOf[Head(r.todo)]
<1>1. /\ r \in Command /\ Sound(r) /\ r.pc = "definitions" /\ r.todo # <<>>
      /\ Head(r.todo) \in ZeroDte
      /\ UNCHANGED <<files, closed, runs, paid, overlap, crashes>>
    BY Here DEF LandDefinitions, At, Sound, Busy
<1>2. k \in Keys
    BY <1>1, DefinitionsFacts
<1>3. CASE Goto(p, "resolved")
  <2>1. "resolved" \in Labels
    BY DEF Labels
  <2>2. Sound([r EXCEPT !.pc = "resolved"]) /\ Fresh([r EXCEPT !.pc = "resolved"])
    BY <1>1, <2>1, GotoFields DEF Sound, Fresh, Busy
  <2> QED
    BY <1>1, <1>3, <2>1, <2>2, GotoStep
<1>4. CASE Becomes(p, [r EXCEPT !.pc = "object", !.job = k])
  <2> DEFINE new == [r EXCEPT !.pc = "object", !.job = k]
  <2>1. /\ new \in Command /\ new.pc = "object" /\ new.run = r.run /\ new.job = k
        /\ new.seen = r.seen /\ new.todo = r.todo
    BY <1>1, <1>2 DEF Command, Labels
  <2>2. Sound(new) /\ Fresh(new)
    BY <1>1, <1>2, <2>1 DEF Sound, Fresh, Busy
  <2>3. paid' \in [1..MaxRuns -> [Keys -> Nat]] /\ crashes' \in 0..MaxCrashes
    BY <1>1, Here
  <2>4. Becomes(p, new)
    BY <1>4
  <2> HIDE DEF new
  <2> QED
    BY <1>1, <2>1, <2>2, <2>3, <2>4, QuietStep
<1> QED
    BY <1>3, <1>4 DEF LandDefinitions, Batch

LEMMA ResolvedInv ==
    ASSUME IngestInv, NEW p \in Procs, Resolved(p)
    PROVE  IngestInv'
<1> DEFINE r == proc[p]
<1>1. /\ r \in Command /\ Sound(r) /\ r.pc = "resolved" /\ r.todo # <<>>
      /\ UNCHANGED <<files, closed, runs, paid, overlap, crashes>>
    BY Here DEF Resolved, At, Sound, Busy
<1>2. CASE Settle(p, "EMPTY_CHAIN", "plan")
    BY <1>1, <1>2, SettleStep DEF Statuses, Busy
<1>3. CASE Goto(p, "estimate")
  <2>1. "estimate" \in Labels
    BY DEF Labels
  <2>2. Sound([r EXCEPT !.pc = "estimate"]) /\ Fresh([r EXCEPT !.pc = "estimate"])
    BY <1>1, <2>1, GotoFields DEF Sound, Fresh, Busy
  <2> QED
    BY <1>1, <1>3, <2>1, <2>2, GotoStep
<1> QED
    BY <1>2, <1>3 DEF Resolved

LEMMA EstimateInv ==
    ASSUME IngestInv, NEW p \in Procs, Estimate(p)
    PROVE  IngestInv'
<1> DEFINE r == proc[p]
           b == Head(r.todo)
<1>1. /\ r \in Command /\ Sound(r) /\ r.pc = "estimate" /\ r.todo # <<>> /\ r.est \in Nat
      /\ r.todo \in Seq(Keys) /\ r.items \in Seq(Keys)
      /\ UNCHANGED <<files, closed, runs, paid, overlap, crashes>>
    BY Here DEF Estimate, At, Sound, Busy
<1>2. /\ Tail(r.todo) \in Seq(Keys) /\ Append(r.items, b) \in Seq(Keys)
      /\ r.est + Price[b] \in Nat
    BY <1>1, HeadAndTail, CostAssumption
<1>3. CASE Settle(p, "GAP", "plan")
    BY <1>1, <1>3, SettleStep DEF Statuses, Busy
<1> DEFINE new == [r EXCEPT !.pc = "plan", !.todo = Tail(@), !.items = Append(@, b),
                            !.est = @ + Price[b]]
<1>4. CASE Becomes(p, new)
  <2>1. new \in Command /\ new.pc = "plan" /\ new.run = r.run /\ new.seen = r.seen
    BY <1>1, <1>2 DEF Command, Labels
  <2>2. Sound(new) /\ Fresh(new)
    BY <1>1, <2>1 DEF Sound, Fresh, Busy
  <2>3. paid' \in [1..MaxRuns -> [Keys -> Nat]] /\ crashes' \in 0..MaxCrashes
    BY <1>1, Here
  <2> HIDE DEF new
  <2> QED
    BY <1>1, <1>4, <2>1, <2>2, <2>3, QuietStep
<1> QED
    BY <1>3, <1>4 DEF Estimate, Batch

(* A command that ends without writing anything.                           *)
LEMMA StopStep ==
    ASSUME IngestInv, NEW p \in Procs, proc[p].pc # "idle", Becomes(p, Idle),
           UNCHANGED <<files, closed, runs, overlap, paid>>, crashes' \in 0..MaxCrashes
    PROVE  IngestInv'
<1>1. Idle \in Command /\ Sound(Idle) /\ Fresh(Idle)
    BY IdleFields DEF Sound, Fresh, Busy, IngestInv, TypeOK
<1>2. paid' \in [1..MaxRuns -> [Keys -> Nat]]
    BY Here
<1> QED
    BY <1>1, <1>2, QuietStep

LEMMA ReadLedgerInv ==
    ASSUME IngestInv, NEW p \in Procs, ReadLedger(p)
    PROVE  IngestInv'
<1> DEFINE r == proc[p]
           new == [r EXCEPT !.pc = "gate", !.seen = Len(costs)]
<1>1. /\ r \in Command /\ Sound(r) /\ r.pc = "plan"
      /\ UNCHANGED <<files, closed, runs, paid, overlap, crashes>>
      /\ Len(costs) \in Nat
    BY Here DEF ReadLedger, At, IngestInv, TypeOK
<1>2. paid' \in [1..MaxRuns -> [Keys -> Nat]] /\ crashes' \in 0..MaxCrashes
    BY <1>1, Here
<1>3. CASE Becomes(p, Idle)
    BY <1>1, <1>2, <1>3, StopStep
<1>4. CASE Becomes(p, new)
  <2>1. /\ new \in Command /\ new.pc = "gate" /\ new.run = r.run
        /\ new.seen = Len(costs)
    BY <1>1 DEF Command, Labels
  <2>2. Sound(new) /\ Fresh(new)
    BY <1>1, <2>1 DEF Sound, Fresh, Busy
  <2> HIDE DEF new
  <2> QED
    BY <1>1, <1>2, <1>4, <2>1, <2>2, QuietStep
<1> QED
    BY <1>3, <1>4 DEF ReadLedger

(* A line that follows the last one extends the chain of the cost ledger.  *)
LEMMA ChainExtends ==
    ASSUME NEW S, costs \in Seq(S), NEW e \in S, costs' = Append(costs, e),
           e.sequence = Len(costs), e.previous = HashOf(Len(costs)), Verifies
    PROVE  Verifies'
<1> DEFINE N == Len(costs)
<1>1. /\ N \in Nat /\ DOMAIN costs = 1..N /\ DOMAIN costs' = 1..(N + 1)
      /\ \A n \in 1..N : costs'[n] = costs[n]
      /\ costs'[N + 1] = e
    BY AppendKeeps
<1> HIDE DEF N
<1>2. ASSUME NEW n \in 0..N
      PROVE  HashOf(n)' = HashOf(n)
  <2>1. n # 0 => n \in 1..N
    BY <1>1
  <2> QED
    BY <1>1, <2>1 DEF HashOf
<1>3. ASSUME NEW n \in 1..(N + 1)
      PROVE  costs'[n].sequence = n - 1 /\ costs'[n].previous = HashOf(n - 1)'
  <2>1. n - 1 \in 0..N
    BY <1>1
  <2>2. HashOf(n - 1)' = HashOf(n - 1)
    BY <1>2, <2>1
  <2>3. CASE n = N + 1
    BY <1>1, <2>2, <2>3 DEF N
  <2>4. CASE n \in 1..N
    BY <1>1, <2>2, <2>4 DEF Verifies
  <2> QED
    BY <1>1, <2>3, <2>4
<1> QED
    BY <1>1, <1>3 DEF Verifies

(* The gate appends a line to the cost ledger.  Alone, a command has read  *)
(* the whole of it, and the new line extends the chain.                    *)
LEMMA GateInv ==
    ASSUME IngestInv, NEW p \in Procs, Gate(p)
    PROVE  IngestInv'
<1> DEFINE r == proc[p]
           E == [plan : 1..runs, sequence : Nat, previous : 0..runs,
                 total : Nat, approved : BOOLEAN]
           running == [r EXCEPT !.pc = "run", !.todo = r.items]
<1>1. /\ r \in Command /\ Sound(r) /\ r.pc = "gate"
      /\ r.est \in Nat /\ r.seen \in Nat /\ r.items \in Seq(Keys)
      /\ UNCHANGED <<objects, receipts, pit, reports, closed, runs, paid, overlap, crashes>>
    BY Here DEF Gate, At
<1>2. /\ costs \in Seq(E) /\ Len(costs) \in Nat /\ runs \in Nat
      /\ r.run \in 1..runs /\ r.seen <= Len(costs)
    BY <1>1 DEF IngestInv, TypeOK, Sound
<1>3. HashOf(r.seen) \in 0..runs
  <2>1. ASSUME r.seen # 0
        PROVE  costs[r.seen].plan \in 1..runs
    <3>1. r.seen \in 1..Len(costs)
      BY <1>1, <1>2, <2>1
    <3> HIDE DEF E
    <3>2. costs[r.seen] \in E
      BY <1>2, <3>1
    <3> QED
      BY <3>2 DEF E
  <2>2. CASE r.seen = 0
    BY <1>2, <2>2 DEF HashOf
  <2>3. CASE r.seen # 0
    <3>1. HashOf(r.seen) = costs[r.seen].plan
      BY <2>3 DEF HashOf
    <3>2. costs[r.seen].plan \in 1..runs
      BY <2>1, <2>3
    <3>3. runs \in Nat
      BY <1>2
    <3> QED
      BY <3>1, <3>2, <3>3
  <2> QED
    BY <2>2, <2>3
<1>4. PICK e \in E : /\ costs' = Append(costs, e)
                     /\ e.sequence = r.seen /\ e.previous = HashOf(r.seen)
  <2> DEFINE h == HashOf(r.seen)
             w == WithinCeiling(r.est)
             line == [plan |-> r.run, sequence |-> r.seen, previous |-> h,
                      total |-> r.est, approved |-> w]
  <2>1. costs' = Append(costs, line)
    BY DEF Gate
  <2>2. w \in BOOLEAN
    BY DEF WithinCeiling
  <2>3. h \in 0..runs
    BY <1>3
  <2> HIDE DEF h, w
  <2>4. line \in E /\ line.sequence = r.seen /\ line.previous = h
    BY <1>1, <1>2, <2>2, <2>3
  <2> HIDE DEF line, E
  <2> QED
    BY <2>1, <2>4 DEF h
<1>5. PICK new \in Command : /\ Becomes(p, new)
                             /\ new.pc \in {"run", "idle"}
                             /\ new.pc = "run" => new.run = r.run
                             /\ new.seen <= r.seen
  <2>1. /\ running \in Command /\ running.pc = "run" /\ running.run = r.run
        /\ running.seen = r.seen
    BY <1>1 DEF Command, Labels
  <2>2. Becomes(p, running) \/ Becomes(p, Idle)
    BY DEF Gate
  <2> HIDE DEF running
  <2> QED
    BY <1>1, <2>1, <2>2, IdleFields
<1> HIDE DEF E
<1>6. /\ costs' \in Seq(E) /\ Len(costs') = Len(costs) + 1
    BY <1>2, <1>4, AppendKeeps
<1>7. FilesTyped' /\ FilesGrow
  <2>1. FilesTyped'
    BY <1>1, <1>6 DEF IngestInv, TypeOK, FilesTyped, E
  <2>2. FilesGrow
    BY <1>1, <1>2, <1>6 DEF FilesGrow
  <2> QED
    BY <2>1, <2>2
<1>8. VisibleIsWhole'
    BY <1>1 DEF IngestInv, VisibleIsWhole
<1>9. Sound(new)' /\ Fresh(new)'
  <2>1. new.seen \in Nat
    BY DEF Command
  <2> QED
    BY <1>1, <1>2, <1>5, <1>6, <2>1 DEF Sound, Fresh, Busy
<1>10. ASSUME ~ overlap
       PROVE  Distinct' /\ Verifies'
  <2>1. Distinct /\ Verifies /\ r.seen = Len(costs)
    BY <1>1, <1>10 DEF IngestInv, Exclusion, Fresh
  <2>2. Distinct'
    BY <1>1, <2>1 DEF Distinct
  <2>3. Verifies'
    BY <1>2, <1>4, <2>1, ChainExtends
  <2> QED
    BY <2>2, <2>3
<1>11. paid' \in [1..MaxRuns -> [Keys -> Nat]] /\ crashes' \in 0..MaxCrashes
    BY <1>1, Here
<1> QED
    BY <1>1, <1>5, <1>7, <1>8, <1>9, <1>10, <1>11, WriteStep

-----------------------------------------------------------------------------
(* The steps of run.                                                       *)
LEMMA RunDayInv ==
    ASSUME IngestInv, NEW p \in Procs, RunDay(p)
    PROVE  IngestInv'
<1> DEFINE r == proc[p]
<1>1. /\ r \in Command /\ Sound(r) /\ r.pc = "run" /\ r.todo # <<>>
      /\ UNCHANGED <<files, closed, runs, paid, overlap, crashes>>
    BY Here DEF RunDay, At
<1>2. CASE Settle(p, "SKIPPED_PRESENT", "run") \/ Settle(p, "NOT_DUE", "run")
    BY <1>1, <1>2, SettleStep DEF Statuses
<1>3. CASE ~ Find(Head(r.todo)) /\ Goto(p, "download")
  <2>1. "download" \in Labels
    BY DEF Labels
  <2>2. Sound([r EXCEPT !.pc = "download"]) /\ Fresh([r EXCEPT !.pc = "download"])
    BY <1>1, <1>3, <2>1, GotoFields DEF Sound, Fresh, Busy
  <2> QED
    BY <1>1, <1>3, <2>1, <2>2, GotoStep
<1> QED
    BY <1>2, <1>3 DEF RunDay, Batch

LEMMA DownloadInv ==
    ASSUME IngestInv, NEW p \in Procs, Download(p)
    PROVE  IngestInv'
<1> DEFINE r == proc[p]
           b == Head(r.todo)
<1>1. /\ r \in Command /\ Sound(r) /\ r.pc = "download" /\ r.todo # <<>>
      /\ r.todo \in Seq(Keys)
      /\ UNCHANGED <<files, closed, runs, overlap, crashes>>
    BY Here DEF Download, At, Sound, Busy
<1>2. b \in Keys
    BY <1>1, HeadAndTail
<1>3. CASE Settle(p, "GAP", "run") /\ UNCHANGED paid
    BY <1>1, <1>3, SettleStep DEF Statuses, Busy
<1> DEFINE new == [r EXCEPT !.pc = "object", !.job = b]
<1>4. CASE Bill(p, b) /\ Becomes(p, new)
  <2>1. /\ new \in Command /\ new.pc = "object" /\ new.run = r.run /\ new.job = b
        /\ new.seen = r.seen /\ new.todo = r.todo
    BY <1>1, <1>2 DEF Command, Labels
  <2>2. Sound(new) /\ Fresh(new)
    BY <1>1, <1>2, <2>1 DEF Sound, Fresh, Busy
  <2>3. paid' \in [1..MaxRuns -> [Keys -> Nat]] /\ crashes' \in 0..MaxCrashes
    BY <1>1, <1>2, <1>4, BillTyped, Here
  <2> HIDE DEF new
  <2> QED
    BY <1>1, <1>4, <2>1, <2>2, <2>3, QuietStep
<1> QED
    BY <1>3, <1>4 DEF Download, Batch

(* A new object file, whole or not, disturbs nothing that is recorded.     *)
LEMMA ObjectAdded ==
    ASSUME IngestInv, NEW o \in [key : Keys, whole : BOOLEAN], objects' = Append(objects, o),
           UNCHANGED <<receipts, pit, costs, reports, runs>>
    PROVE  /\ FilesTyped' /\ FilesGrow /\ VisibleIsWhole'
           /\ ~ overlap => Distinct' /\ Verifies'
           /\ Len(objects) + 1 \in Nat
           /\ Len(objects) + 1 \in DOMAIN objects'
           /\ objects'[Len(objects) + 1] = o
<1> DEFINE O == [key : Keys, whole : BOOLEAN]
           N == Len(objects)
<1>1. /\ objects' \in Seq(O) /\ N \in Nat /\ DOMAIN objects = 1..N
      /\ DOMAIN objects' = 1..(N + 1)
      /\ \A n \in 1..N : objects'[n] = objects[n]
      /\ objects'[N + 1] = o
  <2>1. objects \in Seq(O) /\ o \in O
    BY DEF IngestInv, TypeOK
  <2> HIDE DEF O
  <2> QED
    BY <2>1, AppendKeeps
<1> HIDE DEF N
<1>2. DOMAIN objects \subseteq DOMAIN objects'
    BY <1>1
<1>3. pit' \in Seq([key : Keys, object : DOMAIN objects'])
  <2> DEFINE A == [key : Keys, object : DOMAIN objects]
             B == [key : Keys, object : DOMAIN objects']
  <2>1. A \subseteq B /\ pit \in Seq(A) /\ pit' = pit
    BY <1>2 DEF IngestInv, TypeOK
  <2> HIDE DEF A, B
  <2>2. pit' \in Seq(B)
    BY <2>1, SeqMonotonic
  <2> QED
    BY <2>2 DEF B
<1>4. FilesTyped'
    BY <1>1, <1>2, <1>3 DEF IngestInv, TypeOK, FilesTyped
<1>5. FilesGrow
  <2>1. Len(costs) \in Nat /\ runs \in Nat
    BY DEF IngestInv, TypeOK
  <2> QED
    BY <1>1, <2>1 DEF FilesGrow
<1>6. VisibleIsWhole'
  <2> DEFINE A == [key : Keys, object : DOMAIN objects]
  <2>1. ASSUME NEW n \in DOMAIN pit
        PROVE  pit[n].object \in DOMAIN objects
    <3>1. pit \in Seq(A)
      BY DEF IngestInv, TypeOK
    <3> HIDE DEF A
    <3>2. pit[n] \in A
      BY <3>1
    <3> QED
      BY <3>2 DEF A
  <2> QED
    BY <1>1, <2>1 DEF IngestInv, VisibleIsWhole
<1>7. ~ overlap => Distinct' /\ Verifies'
    BY DEF IngestInv, Exclusion, Distinct, Verifies, HashOf
<1> QED
    BY <1>1, <1>4, <1>5, <1>6, <1>7 DEF N

LEMMA PutObjectInv ==
    ASSUME IngestInv, NEW p \in Procs, PutObject(p)
    PROVE  IngestInv'
<1> DEFINE r == proc[p]
           o == [key |-> r.job, whole |-> TRUE]
           N == Len(objects) + 1
<1>1. /\ r \in Command /\ Sound(r) /\ r.pc = "object" /\ r.job \in Keys /\ r.todo # <<>>
      /\ UNCHANGED <<receipts, pit, costs, reports, closed, runs, paid, overlap, crashes>>
      /\ objects' = Append(objects, o)
    BY Here DEF PutObject, At, Sound, Busy
<1>2. o \in [key : Keys, whole : BOOLEAN]
    BY <1>1
<1>3. /\ FilesTyped' /\ FilesGrow /\ VisibleIsWhole'
      /\ ~ overlap => Distinct' /\ Verifies'
      /\ N \in Nat /\ N \in DOMAIN objects' /\ objects'[N] = o
    BY <1>1, <1>2, ObjectAdded
<1>4. PICK new \in Command : /\ Becomes(p, new)
                             /\ new.pc = "receipt" /\ new.run = r.run /\ new.seen = r.seen
                             /\ new.todo = r.todo /\ new.job = r.job /\ new.object = N
  <2> DEFINE c == [r EXCEPT !.pc = "receipt", !.object = N]
  <2>1. /\ c \in Command /\ c.pc = "receipt" /\ c.run = r.run /\ c.seen = r.seen
        /\ c.todo = r.todo /\ c.job = r.job /\ c.object = N
    BY <1>1, <1>3 DEF Command, Labels
  <2>2. Becomes(p, c)
    BY DEF PutObject
  <2> HIDE DEF c
  <2> QED
    BY <2>1, <2>2
<1>5. Sound(new)' /\ Fresh(new)'
    BY <1>1, <1>3, <1>4 DEF Sound, Fresh, Busy
<1>6. paid' \in [1..MaxRuns -> [Keys -> Nat]] /\ crashes' \in 0..MaxCrashes
    BY <1>1, Here
<1> QED
    BY <1>1, <1>3, <1>4, <1>5, <1>6, WriteStep

LEMMA AppendReceiptInv ==
    ASSUME IngestInv, NEW p \in Procs, AppendReceipt(p)
    PROVE  IngestInv'
<1> DEFINE r == proc[p]
<1>1. /\ r \in Command /\ Sound(r) /\ r.pc = "receipt" /\ r.object \in DOMAIN objects
      /\ UNCHANGED <<objects, pit, costs, reports, closed, runs, paid, overlap, crashes>>
      /\ receipts' = receipts \cup {r.object}
    BY Here DEF AppendReceipt, At, Sound
<1>2. FilesTyped'
    BY <1>1 DEF IngestInv, TypeOK, FilesTyped
<1>3. FilesGrow
  <2>1. Len(costs) \in Nat /\ runs \in Nat
    BY DEF IngestInv, TypeOK
  <2> QED
    BY <1>1, <2>1 DEF FilesGrow
<1>4. VisibleIsWhole'
    BY <1>1 DEF IngestInv, VisibleIsWhole
<1>5. ~ overlap => Distinct' /\ Verifies'
    BY <1>1 DEF IngestInv, Exclusion, Distinct, Verifies, HashOf
<1>6. PICK new \in Command : /\ Becomes(p, new)
                             /\ new.pc = "check" /\ new.run = r.run /\ new.seen = r.seen
                             /\ new.todo = r.todo /\ new.job = r.job
                             /\ new.object = r.object
  <2>1. "check" \in Labels /\ Becomes(p, [r EXCEPT !.pc = "check"])
    BY DEF AppendReceipt, Goto, Labels
  <2> QED
    BY <1>1, <2>1, GotoFields
<1>7. Sound(new)' /\ Fresh(new)'
    BY <1>1, <1>6 DEF Sound, Fresh, Busy
<1>8. paid' \in [1..MaxRuns -> [Keys -> Nat]] /\ crashes' \in 0..MaxCrashes
    BY <1>1, Here
<1> QED
    BY <1>1, <1>2, <1>3, <1>4, <1>5, <1>6, <1>7, <1>8, WriteStep

LEMMA PitCheckInv ==
    ASSUME IngestInv, NEW p \in Procs, PitCheck(p)
    PROVE  IngestInv'
<1> DEFINE r == proc[p]
<1>1. /\ r \in Command /\ Sound(r) /\ r.pc = "check"
      /\ UNCHANGED <<files, closed, runs, paid, overlap, crashes>>
    BY Here DEF PitCheck, At
<1>2. CASE Becomes(p, Idle)
  <2>1. crashes' \in 0..MaxCrashes
    BY <1>1, Here
  <2> QED
    BY <1>1, <1>2, <2>1, StopStep
<1>3. CASE ~ Find(r.job) /\ Goto(p, "record")
  <2>1. "record" \in Labels
    BY DEF Labels
  <2>2. Sound([r EXCEPT !.pc = "record"]) /\ Fresh([r EXCEPT !.pc = "record"])
    BY <1>1, <1>3, <2>1, GotoFields DEF Sound, Fresh, Busy
  <2> QED
    BY <1>1, <1>3, <2>1, <2>2, GotoStep
<1> QED
    BY <1>2, <1>3 DEF PitCheck, Goto

(* The record is appended last, when object and receipt are there.  Alone, *)
(* a command knows that the batch is not recorded yet.                     *)
LEMMA PitAppendInv ==
    ASSUME IngestInv, NEW p \in Procs, PitAppend(p)
    PROVE  IngestInv'
<1> DEFINE r == proc[p]
           R == [key : Keys, object : DOMAIN objects]
           N == Len(pit)
<1>1. /\ r \in Command /\ Sound(r) /\ r.pc = "record" /\ r.todo # <<>>
      /\ r.job \in Keys /\ r.object \in DOMAIN objects /\ r.object \in receipts
      /\ objects[r.object] = [key |-> r.job, whole |-> TRUE]
      /\ UNCHANGED <<objects, receipts, costs, reports, closed, runs, paid, overlap, crashes>>
    BY Here DEF PitAppend, At, Sound, Busy
<1>2. PICK x \in R : pit' = Append(pit, x) /\ x.key = r.job /\ x.object = r.object
    BY <1>1 DEF PitAppend
<1>3. /\ pit' \in Seq(R) /\ N \in Nat /\ DOMAIN pit = 1..N /\ DOMAIN pit' = 1..(N + 1)
      /\ \A n \in 1..N : pit'[n] = pit[n]
      /\ pit'[N + 1] = x
  <2>1. pit \in Seq(R) /\ x \in R
    BY <1>2 DEF IngestInv, TypeOK
  <2> HIDE DEF R
  <2> QED
    BY <1>2, <2>1, AppendKeeps
<1> HIDE DEF N
<1>4. FilesTyped'
    BY <1>1, <1>3 DEF IngestInv, TypeOK, FilesTyped
<1>5. FilesGrow
  <2>1. Len(costs) \in Nat /\ runs \in Nat
    BY DEF IngestInv, TypeOK
  <2> QED
    BY <1>1, <2>1 DEF FilesGrow
<1>6. VisibleIsWhole'
  <2>1. ASSUME NEW n \in 1..(N + 1)
        PROVE  /\ objects[pit'[n].object] = [key |-> pit'[n].key, whole |-> TRUE]
               /\ pit'[n].object \in receipts
    <3>1. CASE n = N + 1
      BY <1>1, <1>2, <1>3, <3>1
    <3>2. CASE n \in 1..N
      BY <1>3, <3>2 DEF IngestInv, VisibleIsWhole
    <3> QED
      BY <1>3, <3>1, <3>2
  <2> QED
    BY <1>1, <1>3, <2>1 DEF VisibleIsWhole
<1>7. ASSUME ~ overlap
      PROVE  Distinct' /\ Verifies'
  <2>1. Distinct /\ Verifies /\ ~ Find(r.job)
    BY <1>1, <1>7 DEF IngestInv, Exclusion, Fresh
  <2>2. \A n \in 1..N : pit'[n].key # r.job
    BY <1>3, <2>1 DEF Find
  <2>3. ASSUME NEW m \in 1..(N + 1), NEW n \in 1..(N + 1), pit'[m].key = pit'[n].key
        PROVE  m = n
    <3>1. CASE m \in 1..N /\ n \in 1..N
      BY <1>3, <2>1, <2>3, <3>1 DEF Distinct
    <3>2. CASE m = N + 1 \/ n = N + 1
      BY <1>2, <1>3, <2>2, <2>3, <3>2
    <3> QED
      BY <1>3, <3>1, <3>2
  <2>4. Distinct'
    BY <1>3, <2>3 DEF Distinct
  <2>5. Verifies'
    BY <1>1, <2>1 DEF Verifies, HashOf
  <2> QED
    BY <2>4, <2>5
<1>8. PICK new \in Command : /\ Becomes(p, new)
                             /\ new.pc \in {"resolved", "run"} /\ new.run = r.run
                             /\ new.seen = r.seen
                             /\ new.pc = "resolved" => new.todo = r.todo
  <2>1. CASE Goto(p, "resolved")
    <3> DEFINE c == [r EXCEPT !.pc = "resolved"]
    <3>1. "resolved" \in Labels /\ Becomes(p, c)
      BY <2>1 DEF Goto, Labels
    <3>2. /\ c \in Command /\ c.pc = "resolved" /\ c.run = r.run
          /\ c.seen = r.seen /\ c.todo = r.todo
      BY <1>1, <3>1, GotoFields
    <3> HIDE DEF c
    <3> QED
      BY <3>1, <3>2
  <2>2. CASE Settle(p, "LANDED", "run")
    <3>1. "run" \in Labels /\ "LANDED" \in Statuses
          /\ Becomes(p, Settled(r, "LANDED", "run"))
      BY <2>2 DEF Settle, Settled, Batch, Labels, Statuses
    <3> QED
      BY <1>1, <3>1, SettleFields
  <2> QED
    BY <2>1, <2>2 DEF PitAppend
<1>9. Sound(new)' /\ Fresh(new)'
    BY <1>1, <1>8 DEF Sound, Fresh, Busy
<1>10. paid' \in [1..MaxRuns -> [Keys -> Nat]] /\ crashes' \in 0..MaxCrashes
    BY <1>1, Here
<1> QED
    BY <1>1, <1>4, <1>5, <1>6, <1>7, <1>8, <1>9, <1>10, WriteStep

LEMMA PersistReportInv ==
    ASSUME IngestInv, NEW p \in Procs, PersistReport(p)
    PROVE  IngestInv'
<1> DEFINE r == proc[p]
           R == [plan : 1..runs, outcomes : SUBSET (Keys \X Statuses)]
           x == [plan |-> r.run, outcomes |-> r.outcomes]
<1>1. /\ r \in Command /\ Sound(r) /\ r.pc = "run"
      /\ UNCHANGED <<objects, receipts, pit, costs, closed, runs, paid, overlap, crashes>>
      /\ reports' = Append(reports, x) /\ Becomes(p, Idle)
      /\ reports \in Seq(R) /\ Len(costs) \in Nat /\ runs \in Nat
    BY Here DEF PersistReport, At, IngestInv, TypeOK
<1>2. x \in R
  <2>1. r.run \in 1..runs /\ r.outcomes \in SUBSET (Keys \X Statuses)
    BY <1>1 DEF Sound, Command
  <2> QED
    BY <2>1
<1>3. reports' \in Seq(R)
  <2> HIDE DEF R, x
  <2> QED
    BY <1>1, <1>2, AppendKeeps
<1>4. FilesTyped'
    BY <1>1, <1>3 DEF IngestInv, TypeOK, FilesTyped
<1>5. FilesGrow
    BY <1>1 DEF FilesGrow
<1>6. VisibleIsWhole'
    BY <1>1 DEF IngestInv, VisibleIsWhole
<1>7. ~ overlap => Distinct' /\ Verifies'
    BY <1>1 DEF IngestInv, Exclusion, Distinct, Verifies, HashOf
<1>8. PICK new \in Command : new = Idle
    BY IdleFields
<1>9. Sound(new)' /\ Fresh(new)' /\ Becomes(p, new)
    BY <1>1, <1>8, IdleFields DEF Sound, Fresh, Busy
<1>10. paid' \in [1..MaxRuns -> [Keys -> Nat]] /\ crashes' \in 0..MaxCrashes
    BY <1>1, Here
<1> QED
    BY <1>1, <1>4, <1>5, <1>6, <1>7, <1>9, <1>10, WriteStep

-----------------------------------------------------------------------------
(* The death of a process, which may leave part of an object file behind.  *)
LEMMA CrashInv ==
    ASSUME IngestInv, NEW p \in Procs, Crash(p)
    PROVE  IngestInv'
<1> DEFINE r == proc[p]
           o == [key |-> r.job, whole |-> FALSE]
<1>1. /\ r \in Command /\ Sound(r) /\ r.pc # "idle"
      /\ UNCHANGED <<receipts, pit, costs, reports, closed, runs, paid, overlap>>
      /\ Becomes(p, Idle)
      /\ Len(costs) \in Nat
    BY Here DEF Crash, At, IngestInv, TypeOK
<1>2. crashes' \in 0..MaxCrashes
    BY Here, CostAssumption DEF Crash
<1>3. CASE UNCHANGED objects
    BY <1>1, <1>2, <1>3, StopStep DEF files
<1>4. CASE r.pc = "object" /\ objects' = Append(objects, o)
  <2>1. o \in [key : Keys, whole : BOOLEAN]
    BY <1>1, <1>4 DEF Sound
  <2>2. /\ FilesTyped' /\ FilesGrow /\ VisibleIsWhole'
        /\ ~ overlap => Distinct' /\ Verifies'
    BY <1>1, <1>4, <2>1, ObjectAdded
  <2>3. PICK new \in Command : new = Idle
    BY IdleFields
  <2>4. Sound(new)' /\ Fresh(new)' /\ Becomes(p, new)
    BY <1>1, <2>3, IdleFields DEF Sound, Fresh, Busy
  <2>5. paid' \in [1..MaxRuns -> [Keys -> Nat]]
    BY <1>1, Here
  <2> QED
    BY <1>1, <1>2, <2>2, <2>4, <2>5, WriteStep
<1> QED
    BY <1>3, <1>4 DEF Crash, At

(* A new command finds every process idle, or the overlap is remembered.   *)
LEMMA StartInv ==
    ASSUME IngestInv, NEW p \in Procs, NEW w \in Windows, NEW mode \in {"plan", "run"},
           Start(p, w, mode)
    PROVE  IngestInv'
<1>1. /\ runs < MaxRuns /\ runs' = runs + 1 /\ proc[p].pc = "idle"
      /\ overlap' = (overlap \/ \E q \in Procs : proc[q].pc # "idle")
      /\ UNCHANGED <<objects, receipts, pit, costs, reports, closed, paid, crashes>>
      /\ runs \in Nat /\ MaxRuns \in Nat /\ Len(costs) \in Nat
      /\ TypeOK
    BY CostAssumption DEF Start, At, files, IngestInv, TypeOK
<1>2. w \in Seq(Keys)
  <2>1. w \in Seq(Keys \ Definitions) /\ (Keys \ Definitions) \subseteq Keys
    BY BatchAssumption
  <2> QED
    BY <2>1, SeqMonotonic
<1>3. PICK new \in Command : /\ Becomes(p, new)
                             /\ new.pc = "plan" /\ new.run = runs + 1 /\ new.seen = 0
  <2> DEFINE c == [Idle EXCEPT !.pc = "plan", !.run = runs + 1, !.mode = mode, !.todo = w]
  <2>1. c \in Command /\ c.pc = "plan" /\ c.run = runs + 1 /\ c.seen = 0
    <3>1. runs + 1 \in Nat
      BY <1>1
    <3> QED
      BY <1>2, <3>1, IdleFields DEF Idle, Command, Labels
  <2>2. Becomes(p, c)
    BY DEF Start
  <2> HIDE DEF c
  <2> QED
    BY <2>1, <2>2
<1>4. Sound(new)' /\ Fresh(new)'
    BY <1>1, <1>3 DEF Sound, Fresh, Busy
<1>5. FilesGrow /\ runs' \in Nat /\ Len(costs') \in Nat
    BY <1>1 DEF FilesGrow
<1>6. /\ proc' \in [Procs -> Command]
      /\ proc'[p] = new
      /\ \A q \in Procs : q # p => proc'[q] = proc[q]
      /\ \A q \in Procs : Sound(proc[q])'
    BY <1>1, <1>3, <1>4, <1>5, ProcStep DEF IngestInv
<1>7. TypeOK'
  <2> DEFINE C(n) == [plan : 1..n, sequence : Nat, previous : 0..n,
                      total : Nat, approved : BOOLEAN]
             R(n) == [plan : 1..n, outcomes : SUBSET (Keys \X Statuses)]
  <2>1. 1..runs \subseteq 1..(runs + 1) /\ 0..runs \subseteq 0..(runs + 1)
    BY <1>1
  <2>2. C(runs) \subseteq C(runs + 1) /\ R(runs) \subseteq R(runs + 1)
    BY <2>1
  <2>3. costs \in Seq(C(runs)) /\ reports \in Seq(R(runs))
    BY <1>1 DEF TypeOK
  <2> HIDE DEF C, R
  <2>4. costs \in Seq(C(runs + 1)) /\ reports \in Seq(R(runs + 1))
    BY <2>2, <2>3, SeqMonotonic
  <2>5. runs' \in 0..MaxRuns /\ overlap' \in BOOLEAN
    BY <1>1 DEF TypeOK
  <2> QED
    BY <1>1, <1>6, <2>4, <2>5 DEF TypeOK, C, R
<1>8. VisibleIsWhole'
    BY <1>1 DEF IngestInv, VisibleIsWhole
<1>9. ASSUME ~ overlap'
      PROVE  Alone' /\ (\A q \in Procs : Fresh(proc[q]))' /\ Distinct' /\ Verifies'
  <2>1. ~ overlap /\ \A q \in Procs : proc[q].pc = "idle"
    BY <1>1, <1>9
  <2>2. \A q \in Procs : q # p => proc'[q].pc = "idle"
    BY <1>6, <2>1
  <2>3. Alone'
    BY <2>2 DEF Alone
  <2>4. \A q \in Procs : Fresh(proc[q])'
    BY <1>4, <1>6, <2>2 DEF Fresh, Find
  <2>5. Distinct' /\ Verifies'
    BY <1>1, <2>1 DEF IngestInv, Exclusion, Distinct, Verifies, HashOf
  <2> QED
    BY <2>3, <2>4, <2>5
<1> QED
    BY <1>6, <1>7, <1>8, <1>9 DEF IngestInv, Exclusion

(* The close of a day touches none of the files.                           *)
LEMMA DayClosesInv ==
    ASSUME IngestInv, NEW d \in Days, DayCloses(d)
    PROVE  IngestInv'
<1>1. /\ UNCHANGED <<objects, receipts, pit, costs, reports, proc, runs, paid, overlap,
                     crashes>>
      /\ closed' \subseteq Days
    BY DEF DayCloses, files, IngestInv, TypeOK
<1>2. TypeOK'
    BY <1>1 DEF IngestInv, TypeOK
<1>3. \A q \in Procs : Sound(proc[q])'
    BY <1>1 DEF IngestInv, Sound
<1>4. VisibleIsWhole'
    BY <1>1 DEF IngestInv, VisibleIsWhole
<1>5. Exclusion'
    BY <1>1 DEF IngestInv, Exclusion, Alone, Fresh, Find, Distinct, Verifies, HashOf
<1> QED
    BY <1>2, <1>3, <1>4, <1>5 DEF IngestInv

(* Nothing is there at first.                                              *)
LEMMA InitIngestInv == Init => IngestInv
<1> SUFFICES ASSUME Init PROVE IngestInv
    OBVIOUS
<1>1. /\ \A p \in Procs : proc[p] = Idle
      /\ DOMAIN pit = {} /\ DOMAIN costs = {} /\ Len(costs) = 0
    BY DEF Init
<1>2. TypeOK
  <2>1. objects = <<>> /\ receipts = {} /\ pit = <<>> /\ costs = <<>> /\ reports = <<>>
    BY DEF Init
  <2>2. proc \in [Procs -> Command]
    BY IdleFields DEF Init
  <2>3. runs \in 0..MaxRuns /\ crashes \in 0..MaxCrashes
    BY CostAssumption DEF Init
  <2>4. closed \subseteq Days /\ paid \in [1..MaxRuns -> [Keys -> Nat]]
        /\ overlap \in BOOLEAN
    BY DEF Init
  <2> QED
    BY <2>1, <2>2, <2>3, <2>4 DEF TypeOK
<1>3. \A p \in Procs : Sound(proc[p]) /\ Fresh(proc[p])
    BY <1>1, IdleFields DEF Sound, Fresh, Busy
<1>4. Alone /\ Distinct /\ Verifies /\ VisibleIsWhole
    BY <1>1, IdleFields DEF Alone, Distinct, Verifies, VisibleIsWhole
<1> QED
    BY <1>2, <1>3, <1>4 DEF IngestInv, Exclusion

(* IngestInv holds initially and every step keeps it.                      *)
LEMMA NextIngestInv == IngestInv /\ [Next]_vars => IngestInv'
<1> SUFFICES ASSUME IngestInv, [Next]_vars PROVE IngestInv'
    OBVIOUS
<1>1. ASSUME NEW p \in Procs, NEW w \in Windows, NEW mode \in {"plan", "run"},
             Start(p, w, mode)
      PROVE  IngestInv'
    BY <1>1, StartInv
<1>2. ASSUME NEW p \in Procs, Step(p)
      PROVE  IngestInv'
    BY <1>2, PlanDayInv, ResolveInv, LandDefinitionsInv, ResolvedInv, EstimateInv,
       ReadLedgerInv, GateInv, RunDayInv, DownloadInv, PutObjectInv, AppendReceiptInv,
       PitCheckInv, PitAppendInv, PersistReportInv DEF Step
<1>3. ASSUME NEW p \in Procs, Crash(p)
      PROVE  IngestInv'
    BY <1>3, CrashInv
<1>4. ASSUME NEW d \in Days, DayCloses(d)
      PROVE  IngestInv'
    BY <1>4, DayClosesInv
<1>5. CASE UNCHANGED vars
  <2>1. UNCHANGED <<objects, receipts, pit, costs, reports, closed, proc, runs, paid,
                    overlap, crashes>>
    BY <1>5 DEF vars
  <2>2. TypeOK'
    BY <2>1 DEF IngestInv, TypeOK
  <2>3. \A q \in Procs : Sound(proc[q])'
    BY <2>1 DEF IngestInv, Sound
  <2>4. VisibleIsWhole'
    BY <2>1 DEF IngestInv, VisibleIsWhole
  <2>5. Exclusion'
    BY <2>1 DEF IngestInv, Exclusion, Alone, Fresh, Find, Distinct, Verifies, HashOf
  <2> QED
    BY <2>2, <2>3, <2>4, <2>5 DEF IngestInv
<1> QED
    BY <1>1, <1>2, <1>3, <1>4, <1>5 DEF Next, Done

LEMMA IngestInvariant == Spec => []IngestInv
    BY InitIngestInv, NextIngestInv, PTL DEF Spec

-----------------------------------------------------------------------------
(* The theorems.                                                           *)

(* The ledgers, objects, reports and commands keep their types, and every  *)
(* record names an object that exists (all of IngestPipeline's files).     *)
THEOREM IngestTypeOK == Spec => []TypeOK
<1>1. IngestInv => TypeOK
    BY DEF IngestInv
<1> QED
    BY <1>1, IngestInvariant, PTL

(* Wherever processes die and however many run at once, a point-in-time    *)
(* record leads to a whole object of its batch with a receipt: land writes *)
(* object, receipt and record in this order (raw_landing.py, pipeline.py). *)
THEOREM RecordedBatchesAreWhole == Spec => []VisibleIsWhole
<1>1. IngestInv => VisibleIsWhole
    BY DEF IngestInv
<1> QED
    BY <1>1, IngestInvariant, PTL

(* Commands that never overlap record no batch twice: find-then-append of  *)
(* pit_ledger.py needs no more than exclusion, whatever dies.              *)
THEOREM BatchesAreRecordedOnce == Spec => []OneRecordPerKey
<1>1. IngestInv => OneRecordPerKey
    BY DEF IngestInv, Exclusion, Distinct, OneRecordPerKey
<1> QED
    BY <1>1, IngestInvariant, PTL

(* Commands that never overlap leave a cost ledger that load accepts.      *)
THEOREM ExclusiveCommandsKeepTheChain == Spec => []ExclusiveLedgerVerifies
<1>1. IngestInv => ExclusiveLedgerVerifies
    BY DEF IngestInv, Exclusion, ExclusiveLedgerVerifies
<1> QED
    BY <1>1, IngestInvariant, PTL

(* A step that bills a batch is a download of definitions, or of a batch   *)
(* that is not recorded unless commands overlap.                           *)
NotBilledAgain ==
    \A k \in Keys \ Definitions :
        Find(k) /\ ~ overlap => \A r \in 1..MaxRuns : paid'[r][k] = paid[r][k]

LEMMA StepNotBilledAgain == IngestInv /\ [Next]_vars => NotBilledAgain
<1> SUFFICES ASSUME IngestInv, [Next]_vars,
                    NEW k \in Keys \ Definitions, Find(k), ~ overlap,
                    NEW r \in 1..MaxRuns
             PROVE  paid'[r][k] = paid[r][k]
    BY DEF NotBilledAgain
<1>1. ASSUME NEW p \in Procs, Resolve(p)
      PROVE  paid'[r][k] = paid[r][k]
  <2> DEFINE d == DefinitionsOf[Head(proc[p].todo)]
  <2>1. proc[p].pc = "resolve" /\ Head(proc[p].todo) \in ZeroDte
    BY <1>1, Here DEF Resolve, At, Sound
  <2>2. d \in Keys /\ d # k
    BY <2>1, DefinitionsFacts
  <2>3. Bill(p, d) \/ UNCHANGED paid
    BY <1>1 DEF Resolve, Batch
  <2> HIDE DEF d
  <2> QED
    BY <2>1, <2>2, <2>3, BillTyped
<1>2. ASSUME NEW p \in Procs, Download(p)
      PROVE  paid'[r][k] = paid[r][k]
  <2> DEFINE b == Head(proc[p].todo)
  <2>1. proc[p].pc = "download" /\ proc[p].todo # <<>> /\ proc[p].todo \in Seq(Keys)
        /\ ~ Find(b)
    BY <1>2, Here DEF Download, At, Sound, Fresh, Busy
  <2>2. b \in Keys /\ b # k
    BY <2>1, HeadAndTail
  <2>3. Bill(p, b) \/ UNCHANGED paid
    BY <1>2 DEF Download, Batch
  <2> HIDE DEF b
  <2> QED
    BY <2>1, <2>2, <2>3, BillTyped
<1>3. CASE UNCHANGED paid
    BY <1>3
<1>4. \/ UNCHANGED paid
      \/ \E p \in Procs : Resolve(p) \/ Download(p)
    BY DEF Next, Step, Start, PlanDay, LandDefinitions, Resolved, Estimate, ReadLedger,
       Gate, RunDay, PutObject, AppendReceipt, PitCheck, PitAppend, PersistReport, Crash,
       DayCloses, Done, vars
<1> QED
    BY <1>1, <1>2, <1>3, <1>4

(* Once a day's batch is recorded no command downloads, and pays for, it   *)
(* again, unless commands overlap: _run_day looks first (pipeline.py).     *)
THEOREM RecordedDaysAreNotBilledAgain == Spec => LandedDayNotBilled
<1>1. IngestInv /\ [Next]_vars =>
        [\A k \in Keys \ Definitions :
           Find(k) /\ ~ overlap =>
             \A r \in 1..MaxRuns : paid'[r][k] = paid[r][k]]_vars
    BY StepNotBilledAgain DEF NotBilledAgain
<1> QED
    BY <1>1, IngestInvariant, PTL DEF Spec, LandedDayNotBilled

-----------------------------------------------------------------------------
(* Reports.  What a command has on its lists, given the batches recorded   *)
(* and the plans approved: batches left and batches planned appear once    *)
(* and have no outcome yet, no batch has two outcomes, what is called      *)
(* landed or present is recorded, and only an approved plan runs.          *)
Recorded == {pit[i].key : i \in DOMAIN pit}

Passed == {costs[m].plan : m \in {n \in DOMAIN costs : costs[n].approved}}

Landing == {"object", "receipt", "check", "record"}

Planning(r) ==
    \/ r.pc \in {"plan", "resolve", "definitions", "resolved", "estimate", "gate"}
    \/ r.pc \in Landing /\ r.job \in Definitions

Running(r) ==
    \/ r.pc \in {"run", "download"}
    \/ r.pc \in Landing /\ r.job \notin Definitions

Open(list, outcomes) ==
    /\ list \in Seq(Keys \ Definitions)
    /\ \A i, j \in DOMAIN list : list[i] = list[j] => i = j
    /\ \A i \in DOMAIN list : \A x \in outcomes : x[1] # list[i]

Told(outcomes, recorded) ==
    /\ \A x, y \in outcomes : x[1] = y[1] => x = y
    /\ \A x \in outcomes : x[2] \in {"LANDED", "SKIPPED_PRESENT"} => x[1] \in recorded

Apart(todo, items) == \A i \in DOMAIN todo, j \in DOMAIN items : todo[i] # items[j]

Listed(r, recorded, passed) ==
    r.pc # "idle" =>
        /\ Open(r.todo, r.outcomes)
        /\ Told(r.outcomes, recorded)
        /\ Planning(r) => Open(r.items, r.outcomes) /\ Apart(r.todo, r.items)
        /\ Running(r) => r.run \in passed
        /\ Running(r) /\ r.pc \in Landing => r.job = Head(r.todo)

Reported(recorded, passed) ==
    \A n \in DOMAIN reports :
        reports[n].plan \in passed /\ Told(reports[n].outcomes, recorded)

ReportInv ==
    /\ \A p \in Procs : Listed(proc[p], Recorded, Passed)
    /\ Reported(Recorded, Passed)

(* A list of batches and the rest of it.                                   *)
LEMMA TailFacts ==
    ASSUME NEW S, NEW s \in Seq(S), s # <<>>
    PROVE  /\ Head(s) \in S /\ Head(s) = s[1] /\ 1 \in DOMAIN s
           /\ Tail(s) \in Seq(S)
           /\ \A i \in DOMAIN Tail(s) : i + 1 \in DOMAIN s /\ Tail(s)[i] = s[i + 1]
           /\ \A i \in DOMAIN Tail(s) : i \in Nat /\ i + 1 # 1
    OBVIOUS

(* The first batch leaves the list: the rest stays open, whether or not    *)
(* the first one gets an outcome.                                          *)
LEMMA OpenTail ==
    ASSUME NEW list, NEW S, Open(list, S), list # <<>>, NEW st, NEW b, b = Head(list)
    PROVE  /\ b \in Keys \ Definitions
           /\ Open(Tail(list), S) /\ Open(Tail(list), S \cup {<<b, st>>})
           /\ \A i \in DOMAIN Tail(list) : Tail(list)[i] # b
           /\ \A x \in S : x[1] # b
<1>1. PICK t : t = Tail(list)
    OBVIOUS
<1>2. /\ b \in Keys \ Definitions /\ b = list[1] /\ 1 \in DOMAIN list
      /\ t \in Seq(Keys \ Definitions)
      /\ \A i \in DOMAIN t : i + 1 \in DOMAIN list /\ t[i] = list[i + 1]
      /\ \A i \in DOMAIN t : i \in Nat /\ i + 1 # 1
    BY <1>1, TailFacts DEF Open
<1>3. \A i \in DOMAIN t : t[i] # b
    BY <1>2 DEF Open
<1>4. ASSUME NEW i \in DOMAIN t, NEW j \in DOMAIN t, t[i] = t[j]
      PROVE  i = j
  <2>1. i + 1 = j + 1
    BY <1>2, <1>4 DEF Open
  <2> QED
    BY <1>2, <2>1
<1>5. \A i \in DOMAIN t : \A x \in S : x[1] # t[i]
    BY <1>2 DEF Open
<1>6. \A i \in DOMAIN t : \A x \in S \cup {<<b, st>>} : x[1] # t[i]
    BY <1>3, <1>5
<1>7. Open(t, S) /\ Open(t, S \cup {<<b, st>>})
    BY <1>2, <1>4, <1>5, <1>6 DEF Open
<1>8. \A x \in S : x[1] # b
    BY <1>2 DEF Open
<1> QED
    BY <1>1, <1>2, <1>3, <1>7, <1>8

(* What the first batch leaves behind on the list of planned batches.      *)
LEMMA ApartTail ==
    ASSUME NEW todo, NEW items, NEW S, Open(todo, S), todo # <<>>, Open(items, S),
           Apart(todo, items), NEW st, NEW b, b = Head(todo)
    PROVE  Open(items, S \cup {<<b, st>>}) /\ Apart(Tail(todo), items)
<1>1. PICK t : t = Tail(todo)
    OBVIOUS
<1>2. /\ b = todo[1] /\ 1 \in DOMAIN todo
      /\ \A i \in DOMAIN t : i + 1 \in DOMAIN todo /\ t[i] = todo[i + 1]
    BY <1>1, TailFacts DEF Open
<1>3. \A j \in DOMAIN items : items[j] # b
    BY <1>2 DEF Apart
<1>4. Open(items, S \cup {<<b, st>>})
  <2>1. \A i \in DOMAIN items : \A x \in S \cup {<<b, st>>} : x[1] # items[i]
    BY <1>3 DEF Open
  <2> QED
    BY <2>1 DEF Open
<1>5. Apart(t, items)
    BY <1>2 DEF Apart
<1> QED
    BY <1>1, <1>4, <1>5

(* The first batch moves to the list of planned batches.                   *)
LEMMA ApartAppend ==
    ASSUME NEW todo, NEW items, NEW S, Open(todo, S), todo # <<>>, Open(items, S),
           Apart(todo, items), NEW b, b = Head(todo)
    PROVE  Open(Append(items, b), S) /\ Apart(Tail(todo), Append(items, b))
<1>1. PICK t : t = Tail(todo)
    OBVIOUS
<1>2. PICK l : l = Append(items, b)
    OBVIOUS
<1>3. PICK n : n = Len(items)
    OBVIOUS
<1>4. /\ b \in Keys \ Definitions /\ Open(t, S)
      /\ \A i \in DOMAIN t : t[i] # b
      /\ \A x \in S : x[1] # b
    BY <1>1, OpenTail
<1>5. /\ l \in Seq(Keys \ Definitions) /\ n \in Nat
      /\ DOMAIN items = 1..n /\ DOMAIN l = 1..(n + 1)
      /\ \A i \in 1..n : l[i] = items[i]
      /\ l[n + 1] = b
    BY <1>2, <1>3, <1>4, AppendKeeps DEF Open
<1>6. \A i \in 1..n : l[i] # b
  <2>1. b = todo[1] /\ 1 \in DOMAIN todo
    BY TailFacts DEF Open
  <2> QED
    BY <1>5, <2>1 DEF Apart
<1>7. \A i \in 1..(n + 1) : i \in 1..n \/ i = n + 1
    BY <1>5
<1>8. ASSUME NEW i \in 1..(n + 1), NEW j \in 1..(n + 1), l[i] = l[j]
      PROVE  i = j
  <2>1. CASE i \in 1..n /\ j \in 1..n
    BY <1>5, <1>8, <2>1 DEF Open
  <2>2. CASE i = n + 1 \/ j = n + 1
    BY <1>5, <1>6, <1>7, <1>8, <2>2
  <2> QED
    BY <1>7, <2>1, <2>2
<1>9. \A i \in 1..(n + 1) : \A x \in S : x[1] # l[i]
    BY <1>4, <1>5, <1>7 DEF Open
<1>10. Apart(t, l)
  <2>1. Apart(t, items)
    BY <1>1, ApartTail
  <2> QED
    BY <1>4, <1>5, <1>7, <2>1 DEF Apart
<1> QED
    BY <1>1, <1>2, <1>5, <1>8, <1>9, <1>10 DEF Open

(* A batch without an outcome gets one; what it claims must be recorded.   *)
LEMMA ToldAdd ==
    ASSUME NEW S, NEW K, Told(S, K), NEW b, \A x \in S : x[1] # b,
           NEW st, st \in {"LANDED", "SKIPPED_PRESENT"} => b \in K
    PROVE  Told(S \cup {<<b, st>>}, K)
    BY DEF Told

(* More records and more approved plans take nothing away.                 *)
LEMMA ListedGrows ==
    ASSUME NEW r, NEW K, NEW A, Listed(r, K, A), NEW L, K \subseteq L, NEW B, A \subseteq B
    PROVE  Listed(r, L, B)
<1>1. Told(r.outcomes, K) => Told(r.outcomes, L)
    BY DEF Told
<1> QED
    BY <1>1 DEF Listed

-----------------------------------------------------------------------------
(* The moves of a command, on its lists alone.                             *)

(* It moves on within its phase and leaves the lists as they are.          *)
LEMMA KeepListed ==
    ASSUME NEW r, NEW K, NEW A, Listed(r, K, A), r.pc # "idle", NEW new,
           new.todo = r.todo, new.items = r.items, new.outcomes = r.outcomes,
           new.run = r.run,
           (Planning(r) /\ Planning(new)) \/ (Running(r) /\ Running(new)),
           Running(new) /\ new.pc \in Landing => new.job = Head(new.todo)
    PROVE  Listed(new, K, A)
<1>1. ~ (Planning(new) /\ Running(new))
    BY DEF Planning, Running, Landing
<1> QED
    BY <1>1 DEF Listed

(* It settles the first batch, in whichever phase.                         *)
LEMMA SettleListed ==
    ASSUME NEW r \in Command, r.todo # <<>>, r.pc # "idle",
           NEW K, NEW A, Listed(r, K, A), NEW st, NEW label,
           (Planning(r) /\ label = "plan") \/ (Running(r) /\ label = "run"),
           NEW L, K \subseteq L,
           st \in {"LANDED", "SKIPPED_PRESENT"} => Head(r.todo) \in L
    PROVE  Listed(Settled(r, st, label), L, A)
<1>1. PICK b : b = Head(r.todo)
    OBVIOUS
<1>2. PICK S : S = r.outcomes \cup {<<b, st>>}
    OBVIOUS
<1>3. PICK new : new = Settled(r, st, label)
    OBVIOUS
<1>4. /\ new.pc = label /\ new.todo = Tail(r.todo) /\ new.items = r.items
      /\ new.outcomes = S /\ new.run = r.run
    BY <1>1, <1>2, <1>3 DEF Settled, Command
<1>5. Open(r.todo, r.outcomes) /\ Told(r.outcomes, L)
    BY DEF Listed, Told
<1>6. Open(new.todo, S) /\ \A x \in r.outcomes : x[1] # b
  <2>1. Open(Tail(r.todo), r.outcomes \cup {<<b, st>>})
        /\ \A x \in r.outcomes : x[1] # b
    BY <1>1, <1>5, OpenTail
  <2> QED
    BY <1>2, <1>4, <2>1
<1>7. Told(S, L)
    BY <1>1, <1>2, <1>5, <1>6, ToldAdd
<1>8. CASE Planning(r) /\ label = "plan"
  <2>1. Open(r.items, r.outcomes) /\ Apart(r.todo, r.items)
    BY <1>8 DEF Listed
  <2>2. Open(new.items, S) /\ Apart(new.todo, new.items)
    <3>1. Open(r.items, r.outcomes \cup {<<b, st>>}) /\ Apart(Tail(r.todo), r.items)
      BY <1>1, <1>5, <2>1, ApartTail
    <3> QED
      BY <1>2, <1>4, <3>1
  <2>3. ~ Running(new)
    BY <1>4, <1>8 DEF Running, Landing
  <2> QED
    BY <1>3, <1>4, <1>6, <1>7, <2>2, <2>3 DEF Listed
<1>9. CASE Running(r) /\ label = "run"
  <2>1. ~ Planning(new) /\ new.pc \notin Landing /\ new.run \in A
    BY <1>4, <1>9 DEF Planning, Landing, Listed
  <2> QED
    BY <1>3, <1>4, <1>6, <1>7, <2>1 DEF Listed
<1> QED
    BY <1>8, <1>9

(* It plans the first batch.                                               *)
LEMMA PlanListed ==
    ASSUME NEW r, r.todo # <<>>, r.pc # "idle", Planning(r),
           NEW K, NEW A, Listed(r, K, A), NEW new, new.pc = "plan",
           new.todo = Tail(r.todo), new.items = Append(r.items, Head(r.todo)),
           new.outcomes = r.outcomes
    PROVE  Listed(new, K, A)
<1>1. PICK b : b = Head(r.todo)
    OBVIOUS
<1>2. /\ Open(r.todo, r.outcomes) /\ Told(r.outcomes, K)
      /\ Open(r.items, r.outcomes) /\ Apart(r.todo, r.items)
    BY DEF Listed
<1>3. Open(new.todo, new.outcomes)
  <2>1. Open(Tail(r.todo), r.outcomes)
    BY <1>1, <1>2, OpenTail
  <2> QED
    BY <2>1
<1>4. Open(new.items, new.outcomes) /\ Apart(new.todo, new.items)
    BY <1>1, <1>2, ApartAppend
<1>5. ~ Running(new)
    BY DEF Running, Landing
<1> QED
    BY <1>2, <1>3, <1>4, <1>5 DEF Listed

(* An idle process has nothing on its lists.                               *)
LEMMA IdleListed == \A K, A : Listed(Idle, K, A)
    BY IdleFields DEF Listed

-----------------------------------------------------------------------------
(* The steps.                                                              *)

(* One process moves, the ledgers only grow.                               *)
LEMMA ListedStep ==
    ASSUME IngestInv, ReportInv, NEW p \in Procs, NEW new, Becomes(p, new),
           Recorded \subseteq Recorded', Passed \subseteq Passed',
           Listed(new, Recorded', Passed'), Reported(Recorded, Passed)'
    PROVE  ReportInv'
<1>1. proc'[p] = new /\ \A q \in Procs : q # p => proc'[q] = proc[q]
    BY DEF IngestInv, TypeOK, Becomes
<1>2. PICK L, B : L = Recorded' /\ B = Passed'
    OBVIOUS
<1>3. ASSUME NEW q \in Procs
      PROVE  Listed(proc'[q], L, B)
  <2>1. CASE q = p
    BY <1>1, <1>2, <2>1
  <2>2. CASE q # p
    <3>1. Listed(proc[q], Recorded, Passed)
      BY DEF ReportInv
    <3>2. Listed(proc[q], L, B)
      BY <1>2, <3>1, ListedGrows
    <3> QED
      BY <1>1, <2>2, <3>2
  <2> QED
    BY <2>1, <2>2
<1>4. \A q \in Procs : Listed(proc'[q], Recorded', Passed')
    BY <1>2, <1>3
<1> QED
    BY <1>4 DEF ReportInv

(* One process moves and none of the three ledgers changes.                *)
LEMMA ListedQuiet ==
    ASSUME IngestInv, ReportInv, NEW p \in Procs, NEW new, Becomes(p, new),
           UNCHANGED <<pit, costs, reports>>, Listed(new, Recorded, Passed)
    PROVE  ReportInv'
<1>1. Recorded' = Recorded /\ Passed' = Passed
    BY DEF Recorded, Passed
<1>2. Listed(new, Recorded', Passed')
    BY <1>1
<1>3. Reported(Recorded, Passed)'
    BY <1>1 DEF ReportInv, Reported
<1> QED
    BY <1>1, <1>2, <1>3, ListedStep

(* What is known of a process about to take a step.                        *)
LEMMA HereListed ==
    ASSUME IngestInv, ReportInv, NEW p \in Procs
    PROVE  /\ proc[p] \in Command /\ Sound(proc[p])
           /\ Listed(proc[p], Recorded, Passed)
           /\ UNCHANGED files => UNCHANGED <<pit, costs, reports>>
           /\ \A k : Find(k) <=> k \in Recorded
    BY Here DEF ReportInv, files, Find, Recorded

(* The fields of a process that goes to another step.                      *)
LEMMA GotoLists ==
    ASSUME NEW r \in Command, NEW label, NEW new, new = [r EXCEPT !.pc = label]
    PROVE  /\ new.pc = label /\ new.todo = r.todo /\ new.items = r.items
           /\ new.outcomes = r.outcomes /\ new.run = r.run /\ new.job = r.job
    BY DEF Command

(* A process goes to another step of its phase.                            *)
LEMMA ListedGoto ==
    ASSUME IngestInv, ReportInv, NEW p \in Procs, proc[p].pc # "idle",
           NEW label \in Labels, Goto(p, label),
           UNCHANGED <<pit, costs, reports>>,
           \/ /\ Planning(proc[p])
              /\ label \in {"plan", "resolve", "definitions", "resolved", "estimate"}
           \/ Running(proc[p]) /\ label = "download"
           \/ proc[p].pc \in Landing /\ label \in Landing
    PROVE  ReportInv'
<1>1. PICK new : new = [proc[p] EXCEPT !.pc = label]
    OBVIOUS
<1>2. proc[p] \in Command /\ Listed(proc[p], Recorded, Passed)
    BY HereListed
<1>3. /\ new.pc = label /\ new.todo = proc[p].todo /\ new.items = proc[p].items
      /\ new.outcomes = proc[p].outcomes /\ new.run = proc[p].run /\ new.job = proc[p].job
    BY <1>1, <1>2, GotoLists
<1>4. (Planning(proc[p]) /\ Planning(new)) \/ (Running(proc[p]) /\ Running(new))
    BY <1>3 DEF Planning, Running, Landing
<1>5. Running(new) /\ new.pc \in Landing => new.job = Head(new.todo)
    BY <1>2, <1>3 DEF Listed, Planning, Running, Landing
<1>6. Listed(new, Recorded, Passed)
    BY <1>2, <1>3, <1>4, <1>5, KeepListed
<1>7. Becomes(p, new)
    BY <1>1 DEF Goto
<1> QED
    BY <1>6, <1>7, ListedQuiet

(* A process settles a batch with an outcome that needs no new record.     *)
LEMMA ListedSettle ==
    ASSUME IngestInv, ReportInv, NEW p \in Procs, proc[p].pc # "idle",
           proc[p].todo # <<>>, NEW st, NEW label, Settle(p, st, label),
           \/ Planning(proc[p]) /\ label = "plan"
           \/ Running(proc[p]) /\ label = "run",
           st \in {"LANDED", "SKIPPED_PRESENT"} => Find(Head(proc[p].todo)),
           UNCHANGED <<pit, costs, reports>>
    PROVE  ReportInv'
<1>1. PICK new : new = Settled(proc[p], st, label)
    OBVIOUS
<1>2. /\ proc[p] \in Command /\ Listed(proc[p], Recorded, Passed)
      /\ st \in {"LANDED", "SKIPPED_PRESENT"} => Head(proc[p].todo) \in Recorded
    BY HereListed
<1>3. Listed(new, Recorded, Passed)
    BY <1>1, <1>2, SettleListed
<1>4. Becomes(p, new)
    BY <1>1 DEF Settle, Settled, Batch
<1> QED
    BY <1>3, <1>4, ListedQuiet

(* A command that ends.                                                    *)
LEMMA ListedStop ==
    ASSUME IngestInv, ReportInv, NEW p \in Procs, Becomes(p, Idle),
           UNCHANGED <<pit, costs, reports>>
    PROVE  ReportInv'
<1>1. Listed(Idle, Recorded, Passed)
    BY IdleListed
<1> QED
    BY <1>1, ListedQuiet

(* The steps of build_plan before the gate.                                *)
LEMMA PlanReport ==
    ASSUME IngestInv, ReportInv, NEW p \in Procs,
           PlanDay(p) \/ Resolve(p) \/ LandDefinitions(p) \/ Resolved(p) \/ Estimate(p)
    PROVE  ReportInv'
<1> DEFINE r == proc[p]
           b == Head(r.todo)
<1>1. /\ r \in Command /\ Sound(r) /\ Listed(r, Recorded, Passed)
      /\ UNCHANGED <<pit, costs, reports>>
      /\ r.pc \in {"plan", "resolve", "definitions", "resolved", "estimate"}
      /\ r.todo # <<>> /\ r.pc # "idle"
    BY HereListed DEF PlanDay, Resolve, LandDefinitions, Resolved, Estimate, At, files,
                      Sound, Busy
<1>2. Planning(r)
    BY <1>1 DEF Planning
<1>3. CASE \E st \in {"GAP", "EMPTY_CHAIN"} : Settle(p, st, "plan")
    BY <1>1, <1>2, <1>3, ListedSettle
<1>4. CASE \E label \in {"resolve", "resolved", "estimate"} : Goto(p, label)
    BY <1>1, <1>2, <1>4, ListedGoto DEF Labels
<1>5. CASE PlanDay(p)
  <2>1. CASE Becomes(p, [r EXCEPT !.items = Append(@, b), !.todo = Tail(@)])
    <3>1. r.pc = "plan"
      BY <1>5 DEF PlanDay, At
    <3>2. PICK new : new = [r EXCEPT !.items = Append(@, b), !.todo = Tail(@)]
      OBVIOUS
    <3>3. /\ new.pc = "plan" /\ new.todo = Tail(r.todo)
          /\ new.items = Append(r.items, Head(r.todo)) /\ new.outcomes = r.outcomes
      BY <1>1, <3>1, <3>2 DEF Command
    <3>4. Listed(new, Recorded, Passed)
      BY <1>1, <1>2, <3>3, PlanListed
    <3> QED
      BY <1>1, <2>1, <3>2, <3>4, ListedQuiet
  <2>2. CASE Goto(p, "resolve") \/ Goto(p, "estimate")
    BY <1>4, <2>2
  <2> QED
    BY <1>5, <2>1, <2>2 DEF PlanDay, Batch
<1>6. CASE Resolve(p)
  <2>1. CASE Becomes(p, [r EXCEPT !.pc = "definitions",
                                  !.est = @ + Price[DefinitionsOf[b]]])
    <3>1. PICK new : new = [r EXCEPT !.pc = "definitions",
                                     !.est = @ + Price[DefinitionsOf[b]]]
      OBVIOUS
    <3>2. /\ new.pc = "definitions" /\ new.todo = r.todo /\ new.items = r.items
          /\ new.outcomes = r.outcomes /\ new.run = r.run
      BY <1>1, <3>1 DEF Command
    <3>3. Planning(new) /\ new.pc \notin Landing
      BY <3>2 DEF Planning, Landing
    <3>4. Listed(new, Recorded, Passed)
      BY <1>1, <1>2, <3>2, <3>3, KeepListed
    <3> QED
      BY <1>1, <2>1, <3>1, <3>4, ListedQuiet
  <2>2. CASE Settle(p, "GAP", "plan")
    BY <1>3, <2>2
  <2> QED
    BY <1>6, <2>1, <2>2 DEF Resolve, Batch
<1>7. CASE LandDefinitions(p)
  <2>1. CASE Becomes(p, [r EXCEPT !.pc = "object", !.job = DefinitionsOf[b]])
    <3>1. DefinitionsOf[b] \in Definitions
      BY <1>1, <1>7, DefinitionsFacts DEF LandDefinitions, At, Sound
    <3>2. PICK new : new = [r EXCEPT !.pc = "object", !.job = DefinitionsOf[b]]
      OBVIOUS
    <3>3. /\ new.pc = "object" /\ new.todo = r.todo /\ new.items = r.items
          /\ new.outcomes = r.outcomes /\ new.run = r.run /\ new.job \in Definitions
      BY <1>1, <3>1, <3>2 DEF Command
    <3>4. Planning(new) /\ ~ Running(new)
      BY <3>3 DEF Planning, Running, Landing
    <3>5. Listed(new, Recorded, Passed)
      BY <1>1, <1>2, <3>3, <3>4, KeepListed
    <3> QED
      BY <1>1, <2>1, <3>2, <3>5, ListedQuiet
  <2>2. CASE Goto(p, "resolved")
    BY <1>4, <2>2
  <2> QED
    BY <1>7, <2>1, <2>2 DEF LandDefinitions, Batch
<1>8. CASE Resolved(p)
    BY <1>3, <1>4, <1>8 DEF Resolved
<1>9. CASE Estimate(p)
  <2>1. CASE Settle(p, "GAP", "plan")
    BY <1>3, <2>1
  <2>2. CASE Becomes(p, [r EXCEPT !.pc = "plan", !.todo = Tail(@),
                                  !.items = Append(@, b), !.est = @ + Price[b]])
    <3>1. PICK new : new = [r EXCEPT !.pc = "plan", !.todo = Tail(@),
                                     !.items = Append(@, b), !.est = @ + Price[b]]
      OBVIOUS
    <3>2. /\ new.pc = "plan" /\ new.todo = Tail(r.todo)
          /\ new.items = Append(r.items, Head(r.todo)) /\ new.outcomes = r.outcomes
      BY <1>1, <3>1 DEF Command
    <3>3. Listed(new, Recorded, Passed)
      BY <1>1, <1>2, <3>2, PlanListed
    <3> QED
      BY <1>1, <2>2, <3>1, <3>3, ListedQuiet
  <2> QED
    BY <1>9, <2>1, <2>2 DEF Estimate, Batch
<1> QED
    BY <1>5, <1>6, <1>7, <1>8, <1>9

(* An ended command, or one that has read the cost ledger.                 *)
LEMMA ReadLedgerReport ==
    ASSUME IngestInv, ReportInv, NEW p \in Procs, ReadLedger(p)
    PROVE  ReportInv'
<1> DEFINE r == proc[p]
<1>1. /\ r \in Command /\ Listed(r, Recorded, Passed)
      /\ UNCHANGED <<pit, costs, reports>> /\ r.pc = "plan"
    BY HereListed DEF ReadLedger, At, files
<1>2. CASE Becomes(p, Idle)
    BY <1>1, <1>2, ListedStop
<1>3. CASE Becomes(p, [r EXCEPT !.pc = "gate", !.seen = Len(costs)])
  <2>1. PICK new : new = [r EXCEPT !.pc = "gate", !.seen = Len(costs)]
    OBVIOUS
  <2>2. /\ new.pc = "gate" /\ new.todo = r.todo /\ new.items = r.items
        /\ new.outcomes = r.outcomes /\ new.run = r.run
    BY <1>1, <2>1 DEF Command
  <2>3. Planning(r) /\ Planning(new) /\ new.pc \notin Landing
    BY <1>1, <2>2 DEF Planning, Landing
  <2>4. Listed(new, Recorded, Passed)
    BY <1>1, <2>2, <2>3, KeepListed
  <2> QED
    BY <1>1, <1>3, <2>1, <2>4, ListedQuiet
<1> QED
    BY <1>2, <1>3 DEF ReadLedger

(* The gate approves the plan in the ledger before the command runs it.    *)
LEMMA GateReport ==
    ASSUME IngestInv, ReportInv, NEW p \in Procs, Gate(p)
    PROVE  ReportInv'
<1> DEFINE r == proc[p]
<1>1. /\ r \in Command /\ Listed(r, Recorded, Passed)
      /\ UNCHANGED <<pit, reports>> /\ r.pc = "gate"
    BY HereListed DEF Gate, At
<1>2. PICK w : w = WithinCeiling(r.est)
    OBVIOUS
<1>3. PICK h : h = HashOf(r.seen)
    OBVIOUS
<1>4. PICK e : e = [plan |-> r.run, sequence |-> r.seen, previous |-> h,
                    total |-> r.est, approved |-> w]
    OBVIOUS
<1>5. costs' = Append(costs, e) /\ e.plan = r.run /\ e.approved = w
    BY <1>2, <1>3, <1>4 DEF Gate
<1>6. /\ DOMAIN costs \subseteq DOMAIN costs' /\ \A n \in DOMAIN costs : costs'[n] = costs[n]
      /\ \E n \in DOMAIN costs' : costs'[n] = e
  <2>1. PICK S : costs \in Seq(S) /\ e \in S
    <3>1. PICK T : costs \in Seq(T)
      BY DEF IngestInv, TypeOK
    <3>2. costs \in Seq(T \cup {e})
      BY <3>1, SeqMonotonic
    <3> QED
      BY <3>2
  <2>2. PICK n : n = Len(costs)
    OBVIOUS
  <2>3. /\ n \in Nat /\ DOMAIN costs = 1..n /\ DOMAIN costs' = 1..(n + 1)
        /\ \A i \in 1..n : costs'[i] = costs[i]
        /\ costs'[n + 1] = e
    BY <1>5, <2>1, <2>2, AppendKeeps
  <2> QED
    BY <2>3
<1>7. Recorded' = Recorded
    BY <1>1 DEF Recorded
<1>8. Passed \subseteq Passed'
    BY <1>6 DEF Passed
<1>9. w = TRUE => r.run \in Passed'
    BY <1>5, <1>6 DEF Passed
<1>10. Reported(Recorded, Passed)'
  <2>1. \A n \in DOMAIN reports : reports[n].plan \in Passed'
                                  /\ Told(reports[n].outcomes, Recorded)
    BY <1>8 DEF ReportInv, Reported
  <2> QED
    BY <1>1, <1>7, <2>1 DEF Reported
<1>11. CASE Becomes(p, Idle)
  <2>1. Listed(Idle, Recorded', Passed')
    BY IdleListed
  <2> QED
    BY <1>7, <1>8, <1>10, <1>11, <2>1, ListedStep
<1>12. CASE w = TRUE /\ Becomes(p, [r EXCEPT !.pc = "run", !.todo = r.items])
  <2>1. PICK new : new = [r EXCEPT !.pc = "run", !.todo = r.items]
    OBVIOUS
  <2>2. /\ new.pc = "run" /\ new.todo = r.items
        /\ new.outcomes = r.outcomes /\ new.run = r.run
    BY <1>1, <2>1 DEF Command
  <2>3. Open(r.items, r.outcomes) /\ Told(r.outcomes, Recorded)
    BY <1>1 DEF Listed, Planning
  <2>4. ~ Planning(new) /\ new.pc \notin Landing
    BY <2>2 DEF Planning, Landing
  <2>5. PICK L, B : L = Recorded' /\ B = Passed'
    OBVIOUS
  <2>6. Listed(new, L, B)
    BY <1>7, <1>9, <1>12, <2>2, <2>3, <2>4, <2>5 DEF Listed
  <2>7. Listed(new, Recorded', Passed')
    BY <2>5, <2>6
  <2> QED
    BY <1>7, <1>8, <1>10, <1>12, <2>1, <2>7, ListedStep
<1> QED
    BY <1>2, <1>11, <1>12 DEF Gate, WithinCeiling

(* The steps of run up to the landing.                                     *)
LEMMA RunReport ==
    ASSUME IngestInv, ReportInv, NEW p \in Procs, RunDay(p) \/ Download(p)
    PROVE  ReportInv'
<1> DEFINE r == proc[p]
           b == Head(r.todo)
<1>1. /\ r \in Command /\ Listed(r, Recorded, Passed)
      /\ UNCHANGED <<pit, costs, reports>> /\ r.pc \in {"run", "download"}
      /\ r.todo # <<>> /\ r.pc # "idle"
    BY HereListed DEF RunDay, Download, At, files, Sound, Busy
<1>2. Running(r)
    BY <1>1 DEF Running
<1>3. CASE Find(b) /\ Settle(p, "SKIPPED_PRESENT", "run")
    BY <1>1, <1>2, <1>3, ListedSettle
<1>4. CASE \E st \in {"NOT_DUE", "GAP"} : Settle(p, st, "run")
    BY <1>1, <1>2, <1>4, ListedSettle
<1>5. CASE Goto(p, "download")
    BY <1>1, <1>2, <1>5, ListedGoto DEF Labels
<1>6. CASE Becomes(p, [r EXCEPT !.pc = "object", !.job = b])
  <2>1. PICK new : new = [r EXCEPT !.pc = "object", !.job = b]
    OBVIOUS
  <2>2. /\ new.pc = "object" /\ new.todo = r.todo /\ new.items = r.items
        /\ new.outcomes = r.outcomes /\ new.run = r.run /\ new.job = b
    BY <1>1, <2>1 DEF Command
  <2>3. b \notin Definitions
    BY <1>1, TailFacts DEF Listed, Open
  <2>4. Running(new) /\ new.job = Head(new.todo)
    BY <2>2, <2>3 DEF Running, Landing
  <2>5. Listed(new, Recorded, Passed)
    BY <1>1, <1>2, <2>2, <2>4, KeepListed
  <2> QED
    BY <1>1, <1>6, <2>1, <2>5, ListedQuiet
<1> QED
    BY <1>3, <1>4, <1>5, <1>6 DEF RunDay, Download, Batch

(* The landing of a batch up to its record.                                *)
LEMMA LandReport ==
    ASSUME IngestInv, ReportInv, NEW p \in Procs,
           PutObject(p) \/ AppendReceipt(p) \/ PitCheck(p)
    PROVE  ReportInv'
<1> DEFINE r == proc[p]
<1>1. /\ r \in Command /\ Listed(r, Recorded, Passed)
      /\ UNCHANGED <<pit, costs, reports>> /\ r.pc \in Landing /\ r.pc # "idle"
    BY HereListed DEF PutObject, AppendReceipt, PitCheck, At, files, Landing
<1>2. CASE Becomes(p, Idle)
    BY <1>1, <1>2, ListedStop
<1>3. CASE Goto(p, "check") \/ Goto(p, "record")
    BY <1>1, <1>3, ListedGoto DEF Labels, Landing
<1>4. CASE Becomes(p, [r EXCEPT !.pc = "receipt", !.object = Len(objects) + 1])
  <2>1. PICK new : new = [r EXCEPT !.pc = "receipt", !.object = Len(objects) + 1]
    OBVIOUS
  <2>2. /\ new.pc = "receipt" /\ new.todo = r.todo /\ new.items = r.items
        /\ new.outcomes = r.outcomes /\ new.run = r.run /\ new.job = r.job
    BY <1>1, <2>1 DEF Command
  <2>3. (Planning(r) /\ Planning(new)) \/ (Running(r) /\ Running(new))
    BY <1>1, <2>2 DEF Planning, Running, Landing
  <2>4. Running(new) => new.job = Head(new.todo)
    BY <1>1, <2>2 DEF Listed, Planning, Running, Landing
  <2>5. Listed(new, Recorded, Passed)
    BY <1>1, <2>2, <2>3, <2>4, KeepListed
  <2> QED
    BY <1>1, <1>4, <2>1, <2>5, ListedQuiet
<1> QED
    BY <1>2, <1>3, <1>4 DEF PutObject, AppendReceipt, PitCheck, Goto

(* The record is there when the batch is called landed.                    *)
LEMMA PitAppendReport ==
    ASSUME IngestInv, ReportInv, NEW p \in Procs, PitAppend(p)
    PROVE  ReportInv'
<1> DEFINE r == proc[p]
<1>1. /\ r \in Command /\ Listed(r, Recorded, Passed)
      /\ UNCHANGED <<costs, reports>> /\ r.pc = "record" /\ r.todo # <<>>
    BY HereListed DEF PitAppend, At, Sound, Busy
<1>2. Recorded' = Recorded \cup {r.job}
  <2>1. PICK e : e = [key |-> r.job, object |-> r.object]
    OBVIOUS
  <2>2. PICK S : pit \in Seq(S) /\ e \in S
    <3>1. PICK T : pit \in Seq(T)
      BY DEF IngestInv, TypeOK
    <3>2. pit \in Seq(T \cup {e})
      BY <3>1, SeqMonotonic
    <3> QED
      BY <3>2
  <2>3. PICK n : n = Len(pit)
    OBVIOUS
  <2>4. pit' = Append(pit, e) /\ e.key = r.job
    BY <2>1 DEF PitAppend
  <2>5. /\ n \in Nat /\ DOMAIN pit = 1..n /\ DOMAIN pit' = 1..(n + 1)
        /\ \A i \in 1..n : pit'[i] = pit[i]
        /\ pit'[n + 1] = e
    BY <2>2, <2>3, <2>4, AppendKeeps
  <2>6. \A i \in 1..(n + 1) : i \in 1..n \/ i = n + 1
    BY <2>5
  <2>7. 1..n \subseteq 1..(n + 1) /\ n + 1 \in 1..(n + 1)
    BY <2>5
  <2> QED
    BY <2>4, <2>5, <2>6, <2>7 DEF Recorded
<1>3. Passed' = Passed
    BY <1>1 DEF Passed
<1>4. Reported(Recorded, Passed)'
  <2>1. PICK L : L = Recorded'
    OBVIOUS
  <2>2. \A n \in DOMAIN reports : reports[n].plan \in Passed /\ Told(reports[n].outcomes, L)
    BY <1>2, <2>1 DEF ReportInv, Reported, Told
  <2> QED
    BY <1>1, <1>3, <2>1, <2>2 DEF Reported
<1>5. CASE r.job \in Definitions /\ Goto(p, "resolved")
  <2>1. PICK new : new = [r EXCEPT !.pc = "resolved"]
    OBVIOUS
  <2>2. /\ new.pc = "resolved" /\ new.todo = r.todo /\ new.items = r.items
        /\ new.outcomes = r.outcomes /\ new.run = r.run
    BY <1>1, <2>1, GotoLists
  <2>3. Planning(r) /\ Planning(new) /\ new.pc \notin Landing
    BY <1>1, <1>5, <2>2 DEF Planning, Landing
  <2>4. Listed(new, Recorded, Passed)
    BY <1>1, <2>2, <2>3, KeepListed
  <2>5. PICK L, B : L = Recorded' /\ B = Passed'
    OBVIOUS
  <2>6. Listed(new, L, B)
    BY <1>2, <1>3, <2>4, <2>5, ListedGrows
  <2>7. Becomes(p, new) /\ Listed(new, Recorded', Passed')
    BY <1>5, <2>1, <2>5, <2>6 DEF Goto
  <2> QED
    BY <1>2, <1>3, <1>4, <2>7, ListedStep
<1>6. CASE r.job \notin Definitions /\ Settle(p, "LANDED", "run")
  <2>1. Running(r) /\ r.job = Head(r.todo)
    BY <1>1, <1>6 DEF Running, Landing, Listed
  <2>2. PICK L : L = Recorded'
    OBVIOUS
  <2>3. Recorded \subseteq L /\ Head(r.todo) \in L
    BY <1>2, <2>1, <2>2
  <2>4. PICK new : new = Settled(r, "LANDED", "run")
    OBVIOUS
  <2>5. Listed(new, L, Passed)
    BY <1>1, <2>1, <2>3, <2>4, SettleListed
  <2>6. Becomes(p, new)
    BY <1>6, <2>4 DEF Settle, Settled, Batch
  <2>7. Listed(new, Recorded', Passed')
    BY <1>3, <2>2, <2>5
  <2> QED
    BY <1>2, <1>3, <1>4, <2>6, <2>7, ListedStep
<1> QED
    BY <1>5, <1>6 DEF PitAppend

(* A report is written from the lists of a command that runs.              *)
LEMMA PersistReportReport ==
    ASSUME IngestInv, ReportInv, NEW p \in Procs, PersistReport(p)
    PROVE  ReportInv'
<1> DEFINE r == proc[p]
<1>1. /\ r \in Command /\ Listed(r, Recorded, Passed)
      /\ UNCHANGED <<pit, costs>> /\ r.pc = "run" /\ Becomes(p, Idle)
    BY HereListed DEF PersistReport, At
<1>2. Recorded' = Recorded /\ Passed' = Passed
    BY <1>1 DEF Recorded, Passed
<1>3. r.run \in Passed /\ Told(r.outcomes, Recorded)
    BY <1>1 DEF Listed, Running
<1>4. PICK e : e = [plan |-> r.run, outcomes |-> r.outcomes]
    OBVIOUS
<1>5. reports' = Append(reports, e) /\ e.plan = r.run /\ e.outcomes = r.outcomes
    BY <1>4 DEF PersistReport
<1>6. PICK S : reports \in Seq(S) /\ e \in S
  <2>1. PICK T : reports \in Seq(T)
    BY DEF IngestInv, TypeOK
  <2>2. reports \in Seq(T \cup {e})
    BY <2>1, SeqMonotonic
  <2> QED
    BY <2>2
<1>7. PICK n : n = Len(reports)
    OBVIOUS
<1>8. /\ n \in Nat /\ DOMAIN reports = 1..n /\ DOMAIN reports' = 1..(n + 1)
      /\ \A i \in 1..n : reports'[i] = reports[i]
      /\ reports'[n + 1] = e
    BY <1>5, <1>6, <1>7, AppendKeeps
<1>9. ASSUME NEW i \in 1..(n + 1)
      PROVE  reports'[i].plan \in Passed /\ Told(reports'[i].outcomes, Recorded)
  <2>1. i \in 1..n \/ i = n + 1
    BY <1>8
  <2>2. CASE i \in 1..n
    BY <1>8, <2>2 DEF ReportInv, Reported
  <2>3. CASE i = n + 1
    BY <1>3, <1>5, <1>8, <2>3
  <2> QED
    BY <2>1, <2>2, <2>3
<1>10. Reported(Recorded, Passed)'
    BY <1>2, <1>8, <1>9 DEF Reported
<1>11. Listed(Idle, Recorded', Passed')
    BY IdleListed
<1> QED
    BY <1>1, <1>2, <1>10, <1>11, ListedStep

(* A command starts with the batches of its window and nothing settled.    *)
LEMMA StartReport ==
    ASSUME IngestInv, ReportInv, NEW p \in Procs, NEW w \in Windows,
           NEW mode \in {"plan", "run"}, Start(p, w, mode)
    PROVE  ReportInv'
<1>1. PICK new : new = [Idle EXCEPT !.pc = "plan", !.run = runs + 1, !.mode = mode,
                                    !.todo = w]
    OBVIOUS
<1>2. Becomes(p, new) /\ UNCHANGED <<pit, costs, reports>>
    BY <1>1 DEF Start, files
<1>3. new.pc = "plan" /\ new.todo = w /\ new.items = <<>> /\ new.outcomes = {}
    BY <1>1 DEF Idle
<1>4. Open(w, {}) /\ Open(<<>>, {}) /\ Apart(w, <<>>)
    BY BatchAssumption DEF Open, Apart
<1>5. ~ Running(new)
    BY <1>3 DEF Running, Landing
<1>6. \A K : Told({}, K)
    BY DEF Told
<1>7. Listed(new, Recorded, Passed)
    BY <1>3, <1>4, <1>5, <1>6 DEF Listed
<1> QED
    BY <1>2, <1>7, ListedQuiet

(* Nothing is listed or reported at first.                                 *)
LEMMA InitReportInv == Init => ReportInv
<1> SUFFICES ASSUME Init PROVE ReportInv
    OBVIOUS
<1>1. \A p \in Procs : proc[p] = Idle
    BY DEF Init
<1>2. \A p \in Procs : Listed(proc[p], Recorded, Passed)
    BY <1>1, IdleListed
<1>3. DOMAIN reports = {}
    BY DEF Init
<1> QED
    BY <1>2, <1>3 DEF ReportInv, Reported

(* Every step keeps lists and reports in agreement with the ledgers.       *)
LEMMA NextReportInv == IngestInv /\ ReportInv /\ [Next]_vars => ReportInv'
<1> SUFFICES ASSUME IngestInv, ReportInv, [Next]_vars PROVE ReportInv'
    OBVIOUS
<1>1. ASSUME NEW p \in Procs, NEW w \in Windows, NEW mode \in {"plan", "run"},
             Start(p, w, mode)
      PROVE  ReportInv'
    BY <1>1, StartReport
<1>2. ASSUME NEW p \in Procs, Step(p)
      PROVE  ReportInv'
    BY <1>2, PlanReport, ReadLedgerReport, GateReport, RunReport, LandReport,
       PitAppendReport, PersistReportReport DEF Step
<1>3. ASSUME NEW p \in Procs, Crash(p)
      PROVE  ReportInv'
  <2>1. Becomes(p, Idle) /\ UNCHANGED <<pit, costs, reports>>
    BY <1>3 DEF Crash
  <2> QED
    BY <2>1, ListedStop
<1>4. ASSUME UNCHANGED <<pit, costs, reports, proc>>
      PROVE  ReportInv'
  <2>1. Recorded' = Recorded /\ Passed' = Passed
    BY <1>4 DEF Recorded, Passed
  <2> QED
    BY <1>4, <2>1 DEF ReportInv, Reported
<1>5. ASSUME NEW d \in Days, DayCloses(d)
      PROVE  ReportInv'
    BY <1>4, <1>5 DEF DayCloses, files
<1>6. CASE UNCHANGED vars
    BY <1>4, <1>6 DEF vars
<1> QED
    BY <1>1, <1>2, <1>3, <1>5, <1>6 DEF Next, Done

LEMMA ReportInvariant == Spec => []ReportInv
    BY InitReportInv, NextReportInv, IngestInvariant, PTL DEF Spec

(* Every persisted report (_persist_report, pipeline.py) belongs to a plan *)
(* the cost ledger approved, gives each batch one outcome, and what it     *)
(* calls landed or present is recorded, however many commands overlap and  *)
(* wherever they die.                                                      *)
THEOREM ReportsMatchTheLedgers == Spec => []ReportMatchesLedger
<1>1. ReportInv => ReportMatchesLedger
    BY DEF ReportInv, Reported, Told, Recorded, Passed, ReportMatchesLedger, Find
<1> QED
    BY <1>1, ReportInvariant, PTL

-----------------------------------------------------------------------------
(* Sums over finite sets of batches.  The library's sum takes one element  *)
(* after the other from the set; Adds says that f is the function of the   *)
(* subsets of S which it chooses, for batches weighed by w.                *)
FirstOf(s) == CHOOSE y \in s : TRUE

Adds(f, w, S) ==
    f = [s \in SUBSET S |->
            IF s = {} THEN 0
            ELSE w[FirstOf(s)] * Price[FirstOf(s)] + f[s \ {FirstOf(s)}]]

Cost(w, S) == (CHOOSE f : Adds(f, w, S))[S]

LEMMA SpentIsCost ==
    ASSUME NEW r, NEW S
    PROVE  Spent(r, S) = Cost(paid[r], S)
    BY DEF Spent, MapThenSumSet, MapThenFoldSet, Cost, Adds, FirstOf

(* Every nonempty set of numbers has a least one.                          *)
LEMMA LeastNat ==
    ASSUME NEW T \in SUBSET Nat, T # {}
    PROVE  \E n \in T : \A m \in T : n <= m
<1>1. PICK R : R = OpToRel(<, Nat)
    OBVIOUS
<1>2. IsWellFoundedOn(R, Nat)
    BY <1>1, NatLessThanWellFounded
<1>3. PICK n \in T : \A m \in T : ~(<<m, n>> \in R)
    BY <1>2, WFMin
<1>4. \A x, y \in Nat : <<x, y>> \in R <=> x < y
    BY <1>1 DEF OpToRel
<1>5. \A m \in T : ~(m < n)
    BY <1>3, <1>4
<1> QED BY <1>5

LEMMA FirstIsIn ==
    ASSUME NEW s, s # {}
    PROVE  FirstOf(s) \in s
    BY DEF FirstOf

(* A subset without one of its elements is smaller by one.                 *)
LEMMA OneLess ==
    ASSUME NEW S, IsFiniteSet(S), NEW s \in SUBSET S, NEW x \in s
    PROVE  /\ s \ {x} \in SUBSET S
           /\ Cardinality(s) \in Nat /\ Cardinality(s \ {x}) \in Nat
           /\ Cardinality(s \ {x}) = Cardinality(s) - 1
<1>1. IsFiniteSet(s)
    BY FS_Subset
<1>2. Cardinality(s) \in Nat
    BY <1>1, FS_CardinalityType
<1>3. IsFiniteSet(s \ {x}) /\ Cardinality(s \ {x}) = Cardinality(s) - 1
    BY <1>1, FS_RemoveElement
<1>4. Cardinality(s \ {x}) \in Nat
    BY <1>3, FS_CardinalityType
<1> QED
    BY <1>2, <1>3, <1>4

(* Induction over the subsets of a finite set: if some are bad, one is bad *)
(* although it is good without any of its elements.                        *)
LEMMA LeastBad ==
    ASSUME NEW S, IsFiniteSet(S), NEW B \in SUBSET (SUBSET S), B # {}
    PROVE  \E s \in B : \A x \in s : s \ {x} \notin B
<1>1. \A s \in B : Cardinality(s) \in Nat
    BY FS_Subset, FS_CardinalityType
<1>2. PICK T : T = {Cardinality(s) : s \in B}
    OBVIOUS
<1>3. T \in SUBSET Nat /\ T # {}
    BY <1>1, <1>2
<1>4. PICK n \in T : \A m \in T : n <= m
    BY <1>3, LeastNat
<1>5. PICK s \in B : Cardinality(s) = n
    BY <1>2, <1>4
<1>6. ASSUME NEW x \in s, s \ {x} \in B
      PROVE  FALSE
  <2>1. Cardinality(s \ {x}) = n - 1 /\ n \in Nat
    BY <1>5, <1>6, OneLess
  <2>2. Cardinality(s \ {x}) \in T
    BY <1>2, <1>6
  <2>3. n <= n - 1
    BY <1>4, <2>1, <2>2
  <2> QED
    BY ONLY <2>1, <2>3
<1> QED
    BY <1>6

(* The function that is chosen exists: it is built up from the subsets of  *)
(* at most n elements.                                                     *)
Small(S, n) == {s \in SUBSET S : Cardinality(s) <= n}

AddsUpTo(f, w, S, n) ==
    /\ f \in [Small(S, n) -> Nat]
    /\ \A s \in Small(S, n) :
          f[s] = IF s = {} THEN 0
                 ELSE w[FirstOf(s)] * Price[FirstOf(s)] + f[s \ {FirstOf(s)}]

Weights == [Keys -> Nat]

LEMMA WeightTyped ==
    ASSUME NEW w \in Weights, NEW k \in Keys
    PROVE  w[k] * Price[k] \in Nat
<1>1. w[k] \in Nat /\ Price[k] \in Nat
    BY CostAssumption DEF Weights
<1> QED BY <1>1

LEMMA AddsStep ==
    ASSUME NEW S \in SUBSET Keys, IsFiniteSet(S), NEW w \in Weights, NEW n \in Nat,
           NEW f, AddsUpTo(f, w, S, n)
    PROVE  \E g : AddsUpTo(g, w, S, n + 1)
<1>1. PICK g : g = [s \in Small(S, n + 1) |->
                       IF s = {} THEN 0
                       ELSE w[FirstOf(s)] * Price[FirstOf(s)] + f[s \ {FirstOf(s)}]]
    OBVIOUS
<1>2. \A s \in Small(S, n) : g[s] = f[s] /\ s \in Small(S, n + 1)
  <2>1. \A s \in SUBSET S : Cardinality(s) \in Nat
    BY FS_Subset, FS_CardinalityType
  <2>2. \A s \in Small(S, n) : s \in Small(S, n + 1)
    BY <2>1 DEF Small
  <2> QED
    BY <1>1, <2>2 DEF AddsUpTo
<1>3. ASSUME NEW s \in Small(S, n + 1), s # {}
      PROVE  /\ s \ {FirstOf(s)} \in Small(S, n)
             /\ FirstOf(s) \in Keys
  <2>1. s \in SUBSET S /\ Cardinality(s) <= n + 1 /\ FirstOf(s) \in s
    BY <1>3, FirstIsIn DEF Small
  <2>2. /\ s \ {FirstOf(s)} \in SUBSET S
        /\ Cardinality(s) \in Nat /\ Cardinality(s \ {FirstOf(s)}) \in Nat
        /\ Cardinality(s \ {FirstOf(s)}) = Cardinality(s) - 1
    BY <2>1, OneLess
  <2>3. Cardinality(s \ {FirstOf(s)}) <= n
    BY <2>1, <2>2
  <2> QED
    BY <2>1, <2>2, <2>3 DEF Small
<1>4. ASSUME NEW s \in Small(S, n + 1)
      PROVE  g[s] \in Nat
  <2>1. CASE s = {}
    BY <1>1, <2>1
  <2>2. CASE s # {}
    <3>1. w[FirstOf(s)] * Price[FirstOf(s)] \in Nat
      BY <1>3, <2>2, WeightTyped
    <3>2. f[s \ {FirstOf(s)}] \in Nat
      BY <1>3, <2>2 DEF AddsUpTo
    <3>3. g[s] = w[FirstOf(s)] * Price[FirstOf(s)] + f[s \ {FirstOf(s)}]
      BY <1>1, <2>2
    <3> QED
      BY <3>1, <3>2, <3>3
  <2> QED
    BY <2>1, <2>2
<1>5. g \in [Small(S, n + 1) -> Nat]
    BY <1>1, <1>4
<1>6. ASSUME NEW s \in Small(S, n + 1)
      PROVE  g[s] = IF s = {} THEN 0
                    ELSE w[FirstOf(s)] * Price[FirstOf(s)] + g[s \ {FirstOf(s)}]
    BY <1>1, <1>2, <1>3
<1> QED
    BY <1>5, <1>6 DEF AddsUpTo

LEMMA AddsExists ==
    ASSUME NEW S \in SUBSET Keys, IsFiniteSet(S), NEW w \in Weights
    PROVE  \E f \in [SUBSET S -> Nat] : Adds(f, w, S)
<1>1. PICK T : T = {n \in Nat : ~ \E f : AddsUpTo(f, w, S, n)}
    OBVIOUS
<1>2. T = {}
  <2>1. SUFFICES ASSUME T # {} PROVE FALSE
    OBVIOUS
  <2>2. PICK n \in T : \A m \in T : n <= m
    BY <1>1, <2>1, LeastNat
  <2>3. n \in Nat /\ ~ \E f : AddsUpTo(f, w, S, n)
    BY <1>1
  <2>4. CASE n = 0
    <3>1. \A s \in SUBSET S : IsFiniteSet(s) /\ Cardinality(s) \in Nat
      BY FS_Subset, FS_CardinalityType
    <3>2. Small(S, 0) = {{}}
      <4>1. \A s \in SUBSET S : Cardinality(s) <= 0 => s = {}
        BY <3>1, FS_EmptySet
      <4>2. Cardinality({}) = 0
        BY FS_EmptySet
      <4> QED
        BY <4>1, <4>2 DEF Small
    <3>3. PICK f : f = [s \in Small(S, 0) |-> 0]
      OBVIOUS
    <3>4. AddsUpTo(f, w, S, 0)
      BY <3>2, <3>3 DEF AddsUpTo
    <3> QED
      BY <2>3, <2>4, <3>4
  <2>5. CASE n # 0
    <3>1. PICK m : m = n - 1
      OBVIOUS
    <3>2. m \in Nat /\ n = m + 1 /\ m \notin T
      BY <2>2, <2>3, <2>5, <3>1
    <3>3. PICK f : AddsUpTo(f, w, S, m)
      BY <1>1, <3>2
    <3> QED
      BY <2>3, <3>2, <3>3, AddsStep
  <2> QED
    BY <2>4, <2>5
<1>3. PICK n : n = Cardinality(S)
    OBVIOUS
<1>4. n \in Nat
    BY <1>3, FS_CardinalityType
<1>5. PICK f : AddsUpTo(f, w, S, n)
    BY <1>1, <1>2, <1>4
<1>6. Small(S, n) = SUBSET S
    BY <1>3, FS_Subset DEF Small
<1>7. f \in [SUBSET S -> Nat]
    BY <1>5, <1>6 DEF AddsUpTo
<1>8. \A s \in SUBSET S :
          f[s] = IF s = {} THEN 0
                 ELSE w[FirstOf(s)] * Price[FirstOf(s)] + f[s \ {FirstOf(s)}]
    BY <1>5, <1>6 DEF AddsUpTo
<1>9. Adds(f, w, S)
    BY <1>7, <1>8 DEF Adds
<1> QED
    BY <1>7, <1>9

(* What the chosen function does at each subset.                           *)
Summed(f, w, S) ==
    /\ f \in [SUBSET S -> Nat]
    /\ f[{}] = 0
    /\ \A s \in SUBSET S :
          s # {} => f[s] = w[FirstOf(s)] * Price[FirstOf(s)] + f[s \ {FirstOf(s)}]

LEMMA SummedWhenAdds ==
    ASSUME NEW S \in SUBSET Keys, IsFiniteSet(S), NEW w \in Weights, NEW f, Adds(f, w, S)
    PROVE  Summed(f, w, S)
<1>1. \A s \in SUBSET S :
          f[s] = IF s = {} THEN 0
                 ELSE w[FirstOf(s)] * Price[FirstOf(s)] + f[s \ {FirstOf(s)}]
    BY DEF Adds
<1>2. f[{}] = 0
    BY <1>1
<1>3. PICK B : B = {s \in SUBSET S : f[s] \notin Nat}
    OBVIOUS
<1>4. ASSUME B # {} PROVE FALSE
  <2>1. PICK s \in B : \A x \in s : s \ {x} \notin B
    BY <1>3, <1>4, LeastBad
  <2>2. s \in SUBSET S /\ f[s] \notin Nat /\ s # {}
    <3>1. s \in SUBSET S /\ f[s] \notin Nat
      BY <1>3, <2>1
    <3>2. s # {}
      BY <1>2, <3>1
    <3> QED
      BY <3>1, <3>2
  <2>3. FirstOf(s) \in s /\ FirstOf(s) \in Keys
    BY <2>2, FirstIsIn
  <2>4. f[s \ {FirstOf(s)}] \in Nat
    BY <1>3, <2>1, <2>2, <2>3
  <2>5. w[FirstOf(s)] * Price[FirstOf(s)] \in Nat
    BY <2>3, WeightTyped
  <2>6. f[s] = w[FirstOf(s)] * Price[FirstOf(s)] + f[s \ {FirstOf(s)}]
    BY <1>1, <2>2
  <2> QED
    BY <2>2, <2>4, <2>5, <2>6
<1>5. \A s \in SUBSET S : f[s] \in Nat
    BY <1>3, <1>4
<1>6. f \in [SUBSET S -> Nat]
    BY <1>5 DEF Adds
<1> QED
    BY <1>1, <1>2, <1>6 DEF Summed

LEMMA CostIsSummed ==
    ASSUME NEW S \in SUBSET Keys, NEW w \in Weights
    PROVE  \E f : Summed(f, w, S) /\ Cost(w, S) = f[S] /\ f[S] \in Nat
<1>1. IsFiniteSet(S)
    BY BatchAssumption, FS_Subset
<1>2. PICK f : f = CHOOSE g : Adds(g, w, S)
    OBVIOUS
<1>3. \E g : Adds(g, w, S)
    BY <1>1, AddsExists
<1>4. Adds(f, w, S)
    BY <1>2, <1>3
<1>5. Summed(f, w, S)
    BY <1>1, <1>4, SummedWhenAdds
<1>6. Cost(w, S) = f[S]
    BY <1>2 DEF Cost
<1>7. f[S] \in Nat
    BY <1>5 DEF Summed
<1> QED
    BY <1>5, <1>6, <1>7

(* Nothing bought costs nothing.                                           *)
LEMMA CostZero ==
    ASSUME NEW S \in SUBSET Keys, NEW w \in Weights, \A k \in S : w[k] = 0
    PROVE  Cost(w, S) = 0
<1>1. PICK f : Summed(f, w, S) /\ Cost(w, S) = f[S]
    BY CostIsSummed
<1>2. IsFiniteSet(S)
    BY BatchAssumption, FS_Subset
<1>3. PICK B : B = {s \in SUBSET S : f[s] # 0}
    OBVIOUS
<1>4. ASSUME B # {} PROVE FALSE
  <2>1. PICK s \in B : \A x \in s : s \ {x} \notin B
    BY <1>2, <1>3, <1>4, LeastBad
  <2>2. s \in SUBSET S /\ f[s] # 0 /\ s # {}
    BY <1>1, <1>3, <2>1 DEF Summed
  <2>3. FirstOf(s) \in s
    BY <2>2, FirstIsIn
  <2>4. w[FirstOf(s)] = 0 /\ Price[FirstOf(s)] \in Nat
    BY <2>2, <2>3, CostAssumption
  <2>5. f[s \ {FirstOf(s)}] = 0
    BY <1>3, <2>1, <2>2, <2>3
  <2>6. f[s] = w[FirstOf(s)] * Price[FirstOf(s)] + f[s \ {FirstOf(s)}]
    BY <1>1, <2>2 DEF Summed
  <2> QED
    BY <2>2, <2>4, <2>5, <2>6
<1> QED
    BY <1>1, <1>3, <1>4

(* Who buys less of everything pays less.                                  *)
LEMMA ProductGrows ==
    ASSUME NEW a \in Nat, NEW b \in Nat, NEW c \in Nat, a <= b
    PROVE  a * c <= b * c /\ a * c \in Nat /\ b * c \in Nat
    OBVIOUS

LEMMA CostGrows ==
    ASSUME NEW S \in SUBSET Keys, NEW v \in Weights, NEW w \in Weights,
           \A k \in S : v[k] <= w[k]
    PROVE  Cost(v, S) <= Cost(w, S)
<1>1. PICK f : Summed(f, v, S) /\ Cost(v, S) = f[S]
    BY CostIsSummed
<1>2. PICK g : Summed(g, w, S) /\ Cost(w, S) = g[S]
    BY CostIsSummed
<1>3. IsFiniteSet(S)
    BY BatchAssumption, FS_Subset
<1>4. PICK B : B = {s \in SUBSET S : ~(f[s] <= g[s])}
    OBVIOUS
<1>5. ASSUME B # {} PROVE FALSE
  <2>1. PICK s \in B : \A x \in s : s \ {x} \notin B
    BY <1>3, <1>4, <1>5, LeastBad
  <2>2. s \in SUBSET S /\ ~(f[s] <= g[s]) /\ s # {}
    <3>1. s \in SUBSET S /\ ~(f[s] <= g[s])
      BY <1>4, <2>1
    <3>2. f[{}] = 0 /\ g[{}] = 0
      BY <1>1, <1>2 DEF Summed
    <3>3. s # {}
      BY <3>1, <3>2
    <3> QED
      BY <3>1, <3>3
  <2>3. PICK x : x = FirstOf(s)
    OBVIOUS
  <2>4. x \in s /\ s \ {x} \in SUBSET S
    BY <2>2, <2>3, FirstIsIn
  <2>5. v[x] \in Nat /\ w[x] \in Nat /\ Price[x] \in Nat /\ v[x] <= w[x]
    BY <2>2, <2>4, CostAssumption DEF Weights
  <2>6. f[s \ {x}] <= g[s \ {x}]
    BY <1>4, <2>1, <2>4
  <2>7. f[s] = v[x] * Price[x] + f[s \ {x}] /\ g[s] = w[x] * Price[x] + g[s \ {x}]
    BY <1>1, <1>2, <2>2, <2>3 DEF Summed
  <2>8. f[s \ {x}] \in Nat /\ g[s \ {x}] \in Nat
    BY <1>1, <1>2, <2>4 DEF Summed
  <2>9. PICK a, b : a = v[x] * Price[x] /\ b = w[x] * Price[x]
    OBVIOUS
  <2>10. a \in Nat /\ b \in Nat /\ a <= b
    BY <2>5, <2>9, ProductGrows
  <2> QED
    BY <2>2, <2>6, <2>7, <2>8, <2>9, <2>10
<1>6. S \notin B /\ S \in SUBSET S
    BY <1>5
<1>7. f[S] <= g[S]
    BY <1>4, <1>6
<1> QED
    BY <1>1, <1>2, <1>7

(* One more of a batch costs its price.                                    *)
LEMMA CostOfOneMore ==
    ASSUME NEW S \in SUBSET Keys, NEW v \in Weights, NEW w \in Weights, NEW k \in S,
           w = [v EXCEPT ![k] = @ + 1]
    PROVE  Cost(w, S) = Cost(v, S) + Price[k]
<1>1. PICK f : Summed(f, v, S) /\ Cost(v, S) = f[S]
    BY CostIsSummed
<1>2. PICK g : Summed(g, w, S) /\ Cost(w, S) = g[S]
    BY CostIsSummed
<1>3. IsFiniteSet(S)
    BY BatchAssumption, FS_Subset
<1>4. PICK B : B = {s \in SUBSET S : g[s] # f[s] + (IF k \in s THEN Price[k] ELSE 0)}
    OBVIOUS
<1>5. /\ v[k] \in Nat /\ Price[k] \in Nat /\ w[k] = v[k] + 1
      /\ \A j \in Keys : j # k => w[j] = v[j]
    BY CostAssumption DEF Weights
<1>6. ASSUME B # {} PROVE FALSE
  <2>1. PICK s \in B : \A x \in s : s \ {x} \notin B
    BY <1>3, <1>4, <1>6, LeastBad
  <2>2. s \in SUBSET S /\ g[s] # f[s] + (IF k \in s THEN Price[k] ELSE 0) /\ s # {}
    <3>1. s \in SUBSET S /\ g[s] # f[s] + (IF k \in s THEN Price[k] ELSE 0)
      BY <1>4, <2>1
    <3>2. f[{}] = 0 /\ g[{}] = 0
      BY <1>1, <1>2 DEF Summed
    <3>3. s # {}
      BY <3>1, <3>2
    <3> QED
      BY <3>1, <3>3
  <2>3. PICK x : x = FirstOf(s)
    OBVIOUS
  <2>4. x \in s /\ s \ {x} \in SUBSET S
    BY <2>2, <2>3, FirstIsIn
  <2>5. v[x] \in Nat /\ w[x] \in Nat /\ Price[x] \in Nat
    BY <2>2, <2>4, CostAssumption DEF Weights
  <2>6. g[s \ {x}] = f[s \ {x}] + (IF k \in s \ {x} THEN Price[k] ELSE 0)
    BY <1>4, <2>1, <2>4
  <2>7. f[s] = v[x] * Price[x] + f[s \ {x}] /\ g[s] = w[x] * Price[x] + g[s \ {x}]
    BY <1>1, <1>2, <2>2, <2>3 DEF Summed
  <2>8. f[s \ {x}] \in Nat /\ g[s \ {x}] \in Nat
    BY <1>1, <1>2, <2>4 DEF Summed
  <2>9. PICK a, b : a = v[x] * Price[x] /\ b = w[x] * Price[x]
    OBVIOUS
  <2>10. a \in Nat /\ b \in Nat
    BY <2>5, <2>9, ProductGrows
  <2>11. CASE x = k
    <3>1. b = a + Price[k]
      BY <1>5, <2>9, <2>11
    <3> QED
      BY <1>5, <2>2, <2>4, <2>6, <2>7, <2>8, <2>9, <2>10, <2>11, <3>1
  <2>12. CASE x # k
    <3>1. b = a
      BY <1>5, <2>2, <2>4, <2>9, <2>12
    <3> QED
      BY <1>5, <2>2, <2>4, <2>6, <2>7, <2>8, <2>9, <2>10, <2>12, <3>1
  <2> QED
    BY <2>11, <2>12
<1>7. S \notin B /\ S \in SUBSET S
    BY <1>6
<1>8. g[S] = f[S] + Price[k]
    BY <1>4, <1>7
<1> QED
    BY <1>1, <1>2, <1>8

-----------------------------------------------------------------------------
(* Spending.  An allowance w says how often each batch is in the estimate  *)
(* of a command, or in the total of its ledger entry.  What a command has  *)
(* bought is in its allowance, and so is every batch on its list that is   *)
(* not recorded.  While it plans it has bought definitions only and has no *)
(* entry; when it runs it has not bought what it has yet to download.      *)
Foreseen(list, recorded, w) ==
    \A i \in DOMAIN list : list[i] \in recorded \/ w[list[i]] >= 1

Unbought(list, bought, landing) ==
    \A i \in DOMAIN list : bought[list[i]] = 0 \/ (landing /\ i = 1)

PlanFunded(est, items, bought, recorded, w) ==
    /\ Cost(w, Keys) <= est
    /\ \A k \in Keys \ Definitions : bought[k] = 0
    /\ Foreseen(items, recorded, w)

RunFunded(todo, pc, bought, recorded, w) ==
    /\ Unbought(todo, bought, pc \in Landing)
    /\ Foreseen(todo, recorded, w)
    /\ pc = "download" => w[Head(todo)] >= 1

Funded(r, bought, recorded, w) ==
    /\ \A k \in Keys : bought[k] <= w[k]
    /\ Planning(r) => PlanFunded(r.est, r.items, bought, recorded, w)
    /\ Running(r) => RunFunded(r.todo, r.pc, bought, recorded, w)

Granted(r, ledger, w) ==
    \A n \in DOMAIN ledger :
        ledger[n].plan = r.run =>
            /\ Running(r)
            /\ ledger[n].approved
            /\ Cost(w, Keys) <= ledger[n].total

InBudget(r, bought, recorded, ledger) ==
    \E w \in Weights : Funded(r, bought, recorded, w) /\ Granted(r, ledger, w)

Covered(e, bought) ==
    /\ Cost(bought, Keys) <= e.total
    /\ e.approved => e.total <= Ceiling
    /\ ~ e.approved => \A k \in Keys \ Definitions : bought[k] = 0

OneRunEach ==
    \A p, q \in Procs :
        proc[p].pc # "idle" /\ proc[q].pc # "idle" /\ p # q => proc[p].run # proc[q].run

(* The inductive invariant.                                                *)
SpendInv ==
    /\ \A p \in Procs :
          proc[p].pc # "idle" => InBudget(proc[p], paid[proc[p].run], Recorded, costs)
    /\ \A n \in DOMAIN costs : Covered(costs[n], paid[costs[n].plan])
    /\ OneRunEach
    /\ \A r \in 1..MaxRuns : r > runs => \A k \in Keys : paid[r][k] = 0

(* More records take nothing away.                                         *)
LEMMA ForeseenGrows ==
    ASSUME NEW list, NEW K, NEW w, Foreseen(list, K, w), NEW L, K \subseteq L
    PROVE  Foreseen(list, L, w)
    BY DEF Foreseen

LEMMA FundedGrows ==
    ASSUME NEW r, NEW bought, NEW K, NEW w, Funded(r, bought, K, w), NEW L, K \subseteq L
    PROVE  Funded(r, bought, L, w)
<1>1. Planning(r) => PlanFunded(r.est, r.items, bought, L, w)
    BY ForeseenGrows DEF Funded, PlanFunded
<1>2. Running(r) => RunFunded(r.todo, r.pc, bought, L, w)
    BY ForeseenGrows DEF Funded, RunFunded
<1> QED
    BY <1>1, <1>2 DEF Funded

(* A ledger that grows by entries of the command with number run.          *)
GrowsFor(ledger, longer, run) ==
    \A n \in DOMAIN longer :
        (n \in DOMAIN ledger /\ longer[n] = ledger[n]) \/ longer[n].plan = run

(* What every other command and entry keeps when the command with number   *)
(* run makes a step.                                                       *)
LEMMA OthersInBudget ==
    ASSUME NEW r, NEW bought, NEW K, NEW ledger, InBudget(r, bought, K, ledger),
           NEW L, K \subseteq L, NEW longer, NEW run, GrowsFor(ledger, longer, run),
           r.run # run
    PROVE  InBudget(r, bought, L, longer)
<1>1. PICK w \in Weights : Funded(r, bought, K, w) /\ Granted(r, ledger, w)
    BY DEF InBudget
<1>2. Funded(r, bought, L, w)
    BY <1>1, FundedGrows
<1>3. Granted(r, longer, w)
    BY <1>1 DEF Granted, GrowsFor
<1> QED
    BY <1>2, <1>3 DEF InBudget

LEMMA RunTyped ==
    ASSUME IngestInv, NEW p \in Procs, proc[p].pc # "idle"
    PROVE  /\ proc[p].run \in 1..runs /\ proc[p].run \in 1..MaxRuns
           /\ runs \in Nat
           /\ paid \in [1..MaxRuns -> Weights] /\ paid[proc[p].run] \in Weights
<1>1. proc[p].run \in 1..runs /\ runs \in 0..MaxRuns /\ MaxRuns \in Nat
    BY Here, CostAssumption DEF Sound, IngestInv, TypeOK
<1>2. proc[p].run \in 1..MaxRuns /\ runs \in Nat
    BY <1>1
<1>3. paid \in [1..MaxRuns -> Weights]
    BY DEF IngestInv, TypeOK, Weights
<1> QED
    BY <1>1, <1>2, <1>3

LEMMA EntryTyped ==
    ASSUME IngestInv, NEW n \in DOMAIN costs
    PROVE  /\ costs[n].plan \in 1..runs /\ costs[n].plan \in 1..MaxRuns
           /\ costs[n].total \in Nat
<1>1. PICK E : E = [plan : 1..runs, sequence : Nat, previous : 0..runs, total : Nat,
                    approved : BOOLEAN]
    OBVIOUS
<1>2. costs \in Seq(E)
    BY <1>1 DEF IngestInv, TypeOK
<1>3. costs[n] \in E
    BY <1>2
<1>4. costs[n].plan \in 1..runs /\ costs[n].total \in Nat
    BY <1>1, <1>3
<1>5. runs \in 0..MaxRuns /\ MaxRuns \in Nat
    BY CostAssumption DEF IngestInv, TypeOK
<1> QED
    BY <1>4, <1>5

(* One command moves: only its row of bills and its ledger entries change. *)
LEMMA SpendStep ==
    ASSUME IngestInv, SpendInv, NEW p \in Procs, proc[p].pc # "idle",
           NEW new, Becomes(p, new), new.pc # "idle" => new.run = proc[p].run,
           UNCHANGED runs, Recorded \subseteq Recorded',
           NEW row \in Weights, paid' = [paid EXCEPT ![proc[p].run] = row],
           NEW ledger, ledger = costs', GrowsFor(costs, ledger, proc[p].run),
           new.pc # "idle" => InBudget(new, row, Recorded', ledger),
           \A n \in DOMAIN ledger : ledger[n].plan = proc[p].run => Covered(ledger[n], row)
    PROVE  SpendInv'
<1>1. proc'[p] = new /\ \A q \in Procs : q # p => proc'[q] = proc[q]
    BY DEF IngestInv, TypeOK, Becomes
<1>2. PICK run : run = proc[p].run
    OBVIOUS
<1>3. PICK L : L = Recorded'
    OBVIOUS
<1>4. run \in 1..runs /\ run \in 1..MaxRuns /\ runs \in Nat /\ paid \in [1..MaxRuns -> Weights]
    BY <1>2, RunTyped
<1>5. paid'[run] = row /\ \A r \in 1..MaxRuns : r # run => paid'[r] = paid[r]
    BY <1>2, <1>4
<1>6. ASSUME NEW q \in Procs, proc'[q].pc # "idle"
      PROVE  InBudget(proc'[q], paid'[proc'[q].run], L, ledger)
  <2>1. CASE q = p
    BY <1>1, <1>2, <1>3, <1>5, <1>6, <2>1
  <2>2. CASE q # p
    <3>1. proc'[q] = proc[q] /\ proc[q].pc # "idle"
      BY <1>1, <1>6, <2>2
    <3>2. proc[q].run # run /\ proc[q].run \in 1..MaxRuns
      BY <1>2, <2>2, <3>1, RunTyped DEF SpendInv, OneRunEach
    <3>3. InBudget(proc[q], paid[proc[q].run], Recorded, costs)
      BY <3>1 DEF SpendInv
    <3>4. InBudget(proc[q], paid[proc[q].run], L, ledger)
      BY <1>2, <1>3, <3>2, <3>3, OthersInBudget
    <3>5. paid'[proc[q].run] = paid[proc[q].run]
      BY <1>5, <3>2
    <3> QED
      BY <3>1, <3>4, <3>5
  <2> QED
    BY <2>1, <2>2
<1>7. ASSUME NEW n \in DOMAIN ledger
      PROVE  Covered(ledger[n], paid'[ledger[n].plan])
  <2>1. CASE ledger[n].plan = run
    BY <1>2, <1>5, <2>1
  <2>2. CASE ledger[n].plan # run
    <3>1. n \in DOMAIN costs /\ ledger[n] = costs[n]
      BY <1>2, <2>2 DEF GrowsFor
    <3>2. costs[n].plan \in 1..MaxRuns
      BY <3>1, EntryTyped
    <3>3. paid'[costs[n].plan] = paid[costs[n].plan]
      BY <1>5, <2>2, <3>1, <3>2
    <3>4. Covered(costs[n], paid[costs[n].plan])
      BY <3>1 DEF SpendInv
    <3> QED
      BY <3>1, <3>3, <3>4
  <2> QED
    BY <2>1, <2>2
<1>8. OneRunEach'
    BY <1>1 DEF SpendInv, OneRunEach
<1>9. ASSUME NEW r \in 1..MaxRuns, r > runs, NEW k \in Keys
      PROVE  paid'[r][k] = 0
  <2>1. r # run
    BY <1>4, <1>9
  <2> QED
    BY <1>5, <1>9, <2>1 DEF SpendInv
<1>10. \A q \in Procs : proc'[q].pc # "idle" =>
           InBudget(proc'[q], paid'[proc'[q].run], Recorded', costs')
    BY <1>3, <1>6
<1>11. \A n \in DOMAIN costs' : Covered(costs'[n], paid'[costs'[n].plan])
    BY <1>7
<1> QED
    BY <1>8, <1>9, <1>10, <1>11 DEF SpendInv

(* One command moves and pays nothing; its ledger entries stay.            *)
LEMMA SpendQuiet ==
    ASSUME IngestInv, SpendInv, NEW p \in Procs, proc[p].pc # "idle",
           NEW new, Becomes(p, new), new.pc # "idle" => new.run = proc[p].run,
           UNCHANGED <<runs, costs, paid>>, Recorded \subseteq Recorded',
           new.pc # "idle" => InBudget(new, paid[proc[p].run], Recorded, costs)
    PROVE  SpendInv'
<1>1. PICK row : row = paid[proc[p].run]
    OBVIOUS
<1>2. PICK ledger : ledger = costs
    OBVIOUS
<1>3. /\ row \in Weights /\ paid \in [1..MaxRuns -> Weights]
      /\ proc[p].run \in 1..MaxRuns
    BY <1>1, RunTyped
<1>4. paid' = [paid EXCEPT ![proc[p].run] = row]
    BY <1>1, <1>3
<1>5. ledger = costs' /\ GrowsFor(costs, ledger, proc[p].run)
    BY <1>2 DEF GrowsFor
<1>6. \A n \in DOMAIN ledger : ledger[n].plan = proc[p].run => Covered(ledger[n], row)
    BY <1>1, <1>2 DEF SpendInv
<1>7. PICK L : L = Recorded'
    OBVIOUS
<1>8. ASSUME new.pc # "idle" PROVE InBudget(new, row, L, ledger)
  <2>1. PICK w \in Weights : Funded(new, row, Recorded, w) /\ Granted(new, ledger, w)
    BY <1>1, <1>2, <1>8 DEF InBudget
  <2>2. Funded(new, row, L, w)
    BY <1>7, <2>1, FundedGrows
  <2> QED
    BY <2>1, <2>2 DEF InBudget
<1>9. new.pc # "idle" => InBudget(new, row, Recorded', ledger)
    BY <1>7, <1>8
<1> QED
    BY <1>3, <1>4, <1>5, <1>6, <1>9, SpendStep

(* A command that ends leaves its entries as they are.                     *)
LEMMA SpendStop ==
    ASSUME IngestInv, SpendInv, NEW p \in Procs, proc[p].pc # "idle", Becomes(p, Idle),
           UNCHANGED <<runs, costs, paid, pit>>
    PROVE  SpendInv'
<1>1. Recorded' = Recorded
    BY DEF Recorded
<1> QED
    BY <1>1, IdleFields, SpendQuiet

(* What is known of a command about to take a step.                        *)
LEMMA HereFunded ==
    ASSUME IngestInv, SpendInv, NEW p \in Procs, proc[p].pc # "idle"
    PROVE  \E w \in Weights : /\ Funded(proc[p], paid[proc[p].run], Recorded, w)
                              /\ Granted(proc[p], costs, w)
    BY DEF SpendInv, InBudget

LEMMA Phases ==
    ASSUME NEW r
    PROVE  ~ (Planning(r) /\ Running(r))
    BY DEF Planning, Running, Landing

(* A planning command that adds nothing to its list.                       *)
LEMMA StaysPlanned ==
    ASSUME NEW r, NEW bought, NEW K, NEW ledger, InBudget(r, bought, K, ledger),
           Planning(r), NEW new, Planning(new),
           new.est = r.est, new.items = r.items, new.run = r.run
    PROVE  InBudget(new, bought, K, ledger)
<1>1. PICK w \in Weights : Funded(r, bought, K, w) /\ Granted(r, ledger, w)
    BY DEF InBudget
<1>2. ~ Running(r) /\ ~ Running(new)
    BY Phases
<1>3. Funded(new, bought, K, w)
    BY <1>1, <1>2 DEF Funded
<1>4. Granted(new, ledger, w)
    BY <1>1, <1>2 DEF Granted
<1> QED
    BY <1>3, <1>4 DEF InBudget

(* A running command that stays with its batch.                            *)
LEMMA StaysRunning ==
    ASSUME NEW r, NEW bought, NEW K, NEW ledger, InBudget(r, bought, K, ledger),
           Running(r), NEW new, Running(new),
           new.todo = r.todo, new.run = r.run,
           r.pc \in Landing => new.pc \in Landing,
           new.pc = "download" => 1 \in DOMAIN r.todo /\ Head(r.todo) = r.todo[1]
                                  /\ Head(r.todo) \notin K
    PROVE  InBudget(new, bought, K, ledger)
<1>1. PICK w \in Weights : Funded(r, bought, K, w) /\ Granted(r, ledger, w)
    BY DEF InBudget
<1>2. ~ Planning(new)
    BY Phases
<1>3. RunFunded(r.todo, r.pc, bought, K, w)
    BY <1>1 DEF Funded
<1>4. Unbought(r.todo, bought, new.pc \in Landing)
    BY <1>3 DEF RunFunded, Unbought
<1>5. new.pc = "download" => w[Head(r.todo)] >= 1
    BY <1>3 DEF RunFunded, Foreseen
<1>6. RunFunded(new.todo, new.pc, bought, K, w)
    BY <1>3, <1>4, <1>5 DEF RunFunded
<1>7. Funded(new, bought, K, w)
    BY <1>1, <1>2, <1>6 DEF Funded
<1>8. Granted(new, ledger, w)
    BY <1>1 DEF Granted
<1> QED
    BY <1>7, <1>8 DEF InBudget

(* A running command that is done with its first batch.                    *)
LEMMA RunsOn ==
    ASSUME NEW r, NEW bought, NEW K, NEW ledger, InBudget(r, bought, K, ledger),
           Running(r), r.todo \in Seq(Keys), r.todo # <<>>,
           NEW new, new.pc = "run", new.todo = Tail(r.todo), new.run = r.run
    PROVE  InBudget(new, bought, K, ledger)
<1>1. PICK w \in Weights : Funded(r, bought, K, w) /\ Granted(r, ledger, w)
    BY DEF InBudget
<1>2. Running(new) /\ ~ Planning(new) /\ new.pc \notin Landing
    BY DEF Running, Planning, Landing
<1>3. RunFunded(r.todo, r.pc, bought, K, w)
    BY <1>1 DEF Funded
<1>4. /\ \A i \in DOMAIN new.todo : i + 1 \in DOMAIN r.todo /\ new.todo[i] = r.todo[i + 1]
      /\ \A i \in DOMAIN new.todo : i \in Nat /\ i + 1 # 1
    BY TailFacts
<1>5. Foreseen(new.todo, K, w)
    BY <1>3, <1>4 DEF RunFunded, Foreseen
<1>6. Unbought(new.todo, bought, new.pc \in Landing)
    BY <1>3, <1>4 DEF RunFunded, Unbought
<1>7. RunFunded(new.todo, new.pc, bought, K, w)
    BY <1>5, <1>6 DEF RunFunded
<1>8. Funded(new, bought, K, w)
    BY <1>1, <1>2, <1>7 DEF Funded
<1>9. Granted(new, ledger, w)
    BY <1>1, <1>2 DEF Granted
<1> QED
    BY <1>8, <1>9 DEF InBudget

(* One more of batch k in an allowance.                                    *)
Increased(w, k, v) == v = [w EXCEPT ![k] = @ + 1]

LEMMA OneMore ==
    ASSUME NEW w \in Weights, NEW k \in Keys, NEW v, Increased(w, k, v)
    PROVE  /\ v \in Weights
           /\ v[k] = w[k] + 1 /\ v[k] >= 1
           /\ \A j \in Keys : w[j] <= v[j] /\ w[j] \in Nat /\ v[j] \in Nat
           /\ \A j \in Keys : j # k => v[j] = w[j]
           /\ Cost(v, Keys) = Cost(w, Keys) + Price[k]
           /\ Cost(w, Keys) \in Nat /\ Price[k] \in Nat
<1>1. \A j \in Keys : w[j] \in Nat
    BY DEF Weights
<1>2. v \in Weights /\ v[k] = w[k] + 1 /\ \A j \in Keys : j # k => v[j] = w[j]
    BY <1>1 DEF Weights, Increased
<1>3. ASSUME NEW j \in Keys PROVE w[j] <= v[j] /\ v[j] \in Nat /\ v[k] >= 1
  <2>1. w[j] \in Nat /\ w[k] \in Nat /\ (v[j] = w[j] \/ v[j] = w[j] + 1)
    BY <1>1, <1>2
  <2> QED
    BY ONLY <1>2, <2>1
<1>4. Cost(v, Keys) = Cost(w, Keys) + Price[k]
    BY <1>2, CostOfOneMore DEF Increased
<1>5. Cost(w, Keys) \in Nat /\ Price[k] \in Nat
    BY CostIsSummed, CostAssumption
<1>6. v[k] >= 1
    BY <1>3
<1> QED
    BY <1>1, <1>2, <1>3, <1>4, <1>5, <1>6

(* The items of a longer plan: those it had, those recorded, and k.        *)
Lengthens(items, longer, K, k) ==
    \A i \in DOMAIN longer :
        (\E j \in DOMAIN items : longer[i] = items[j]) \/ longer[i] \in K \/ longer[i] = k

(* A planning command that puts the price of batch k into its estimate and *)
(* then buys it, if it is one of the definitions, or plans it.             *)
LEMMA PlansMore ==
    ASSUME NEW r, NEW bought \in Weights, NEW K, NEW ledger,
           InBudget(r, bought, K, ledger), Planning(r), r.est \in Nat,
           NEW k \in Keys, NEW row \in Weights,
           \/ row = bought
           \/ k \in Definitions /\ Increased(bought, k, row),
           NEW new, Planning(new), new.run = r.run, new.est = r.est + Price[k],
           \A i \in DOMAIN r.items : r.items[i] \in Keys,
           Lengthens(r.items, new.items, K, k)
    PROVE  InBudget(new, row, K, ledger)
<1>1. PICK w \in Weights : Funded(r, bought, K, w) /\ Granted(r, ledger, w)
    BY DEF InBudget
<1>2. ~ Running(r) /\ ~ Running(new)
    BY Phases
<1>3. PICK v : Increased(w, k, v)
    BY DEF Increased
<1>4. /\ v \in Weights /\ v[k] = w[k] + 1 /\ v[k] >= 1
      /\ \A j \in Keys : w[j] <= v[j] /\ w[j] \in Nat /\ v[j] \in Nat
      /\ \A j \in Keys : j # k => v[j] = w[j]
      /\ Cost(v, Keys) = Cost(w, Keys) + Price[k]
      /\ Cost(w, Keys) \in Nat /\ Price[k] \in Nat
    BY <1>3, OneMore
<1>5. PlanFunded(r.est, r.items, bought, K, w) /\ \A j \in Keys : bought[j] <= w[j]
    BY <1>1 DEF Funded
<1>6. Cost(v, Keys) <= new.est
    BY <1>4, <1>5 DEF PlanFunded
<1>7. /\ \A j \in Keys : bought[j] \in Nat
      /\ \A j \in Keys \ Definitions : row[j] = bought[j]
      /\ \A j \in Keys : row[j] = bought[j] \/ (j = k /\ row[j] = bought[j] + 1)
    BY DEF Weights, Increased
<1>8. \A j \in Keys : row[j] <= v[j]
    BY <1>4, <1>5, <1>7
<1>9. \A j \in Keys \ Definitions : row[j] = 0
    BY <1>5, <1>7 DEF PlanFunded
<1>10. \A i \in DOMAIN r.items : r.items[i] \in K \/ v[r.items[i]] >= 1
    BY <1>4, <1>5 DEF PlanFunded, Foreseen
<1>11. Foreseen(new.items, K, v)
    BY <1>4, <1>10 DEF Foreseen, Lengthens
<1>12. Funded(new, row, K, v)
    BY <1>2, <1>6, <1>8, <1>9, <1>11 DEF Funded, PlanFunded
<1>13. Granted(new, ledger, v)
    BY <1>1, <1>2 DEF Granted
<1> QED
    BY <1>4, <1>12, <1>13 DEF InBudget

(* A planning command that plans a recorded batch, which costs nothing.    *)
LEMMA PlansRecorded ==
    ASSUME NEW r, NEW bought, NEW K, NEW ledger,
           InBudget(r, bought, K, ledger), Planning(r),
           NEW k \in K, NEW new, Planning(new), new.run = r.run, new.est = r.est,
           Lengthens(r.items, new.items, K, k)
    PROVE  InBudget(new, bought, K, ledger)
<1>1. PICK w \in Weights : Funded(r, bought, K, w) /\ Granted(r, ledger, w)
    BY DEF InBudget
<1>2. ~ Running(r) /\ ~ Running(new)
    BY Phases
<1>3. PlanFunded(r.est, r.items, bought, K, w)
    BY <1>1 DEF Funded
<1>4. Foreseen(new.items, K, w)
    BY <1>3 DEF PlanFunded, Foreseen, Lengthens
<1>5. Funded(new, bought, K, w)
    BY <1>1, <1>2, <1>3, <1>4 DEF Funded, PlanFunded
<1>6. Granted(new, ledger, w)
    BY <1>1, <1>2 DEF Granted
<1> QED
    BY <1>5, <1>6 DEF InBudget

LEMMA AppendLengthens ==
    ASSUME NEW items \in Seq(Keys), NEW k \in Keys, NEW K
    PROVE  Lengthens(items, Append(items, k), K, k) /\ Lengthens(items, items, K, k)
<1>1. PICK n : n = Len(items)
    OBVIOUS
<1>2. PICK l : l = Append(items, k)
    OBVIOUS
<1>3. /\ n \in Nat /\ DOMAIN items = 1..n /\ DOMAIN l = 1..(n + 1)
      /\ \A i \in 1..n : l[i] = items[i]
      /\ l[n + 1] = k
    BY <1>1, <1>2, AppendKeeps
<1>4. \A i \in 1..(n + 1) : i \in 1..n \/ i = n + 1
    BY <1>3
<1>5. Lengthens(items, l, K, k)
    BY <1>3, <1>4 DEF Lengthens
<1>6. Lengthens(items, items, K, k)
    BY DEF Lengthens
<1> QED
    BY <1>2, <1>5, <1>6

(* The bill of a command goes to its own row.                              *)
LEMMA BillRow ==
    ASSUME IngestInv, NEW p \in Procs, proc[p].pc # "idle", NEW k \in Keys, Bill(p, k),
           NEW row, Increased(paid[proc[p].run], k, row)
    PROVE  /\ row \in Weights /\ paid' = [paid EXCEPT ![proc[p].run] = row]
           /\ row[k] = paid[proc[p].run][k] + 1
           /\ \A j \in Keys : j # k => row[j] = paid[proc[p].run][j]
<1>1. paid[proc[p].run] \in Weights
    BY RunTyped
<1>2. paid' = [paid EXCEPT ![proc[p].run] = row]
    BY DEF Bill, Increased
<1> QED
    BY <1>1, <1>2, OneMore

-----------------------------------------------------------------------------
(* The steps.                                                              *)
LEMMA HereSpend ==
    ASSUME IngestInv, ReportInv, SpendInv, NEW p \in Procs, proc[p].pc # "idle"
    PROVE  /\ proc[p] \in Command /\ Sound(proc[p])
           /\ proc[p].todo \in Seq(Keys) /\ proc[p].items \in Seq(Keys)
           /\ proc[p].est \in Nat
           /\ \A i \in DOMAIN proc[p].items : proc[p].items[i] \in Keys
           /\ Listed(proc[p], Recorded, Passed)
           /\ InBudget(proc[p], paid[proc[p].run], Recorded, costs)
           /\ paid[proc[p].run] \in Weights
           /\ UNCHANGED files => UNCHANGED <<pit, costs>>
           /\ UNCHANGED pit => Recorded' = Recorded
           /\ \A k : Find(k) <=> k \in Recorded
<1>1. proc[p] \in Command /\ Sound(proc[p]) /\ Listed(proc[p], Recorded, Passed)
      /\ \A k : Find(k) <=> k \in Recorded
    BY HereListed
<1>2. proc[p].todo \in Seq(Keys) /\ proc[p].items \in Seq(Keys) /\ proc[p].est \in Nat
    BY Here
<1>3. \A i \in DOMAIN proc[p].items : proc[p].items[i] \in Keys
    BY <1>2
<1>4. InBudget(proc[p], paid[proc[p].run], Recorded, costs)
    BY DEF SpendInv
<1>5. paid[proc[p].run] \in Weights
    BY RunTyped
<1>6. (UNCHANGED files => UNCHANGED <<pit, costs>>) /\ (UNCHANGED pit => Recorded' = Recorded)
    BY DEF files, Recorded
<1> QED
    BY <1>1, <1>2, <1>3, <1>4, <1>5, <1>6

(* The fields that spending is about, of a command that moves on or        *)
(* settles a batch.                                                        *)
LEMMA MoveFields ==
    ASSUME NEW r \in Command, NEW label, NEW st
    PROVE  /\ LET new == [r EXCEPT !.pc = label]
              IN  /\ new.pc = label /\ new.run = r.run /\ new.est = r.est
                  /\ new.items = r.items /\ new.todo = r.todo /\ new.job = r.job
           /\ LET new == Settled(r, st, label)
              IN  /\ new.pc = label /\ new.run = r.run /\ new.est = r.est
                  /\ new.items = r.items /\ new.todo = Tail(r.todo)
    BY DEF Command, Settled

(* A planning command that goes on planning and pays nothing.              *)
LEMMA PlansOn ==
    ASSUME IngestInv, ReportInv, SpendInv, NEW p \in Procs, proc[p].pc # "idle",
           Planning(proc[p]), NEW new, Becomes(p, new), Planning(new),
           new.est = proc[p].est, new.items = proc[p].items, new.run = proc[p].run,
           UNCHANGED <<runs, costs, paid>>, Recorded \subseteq Recorded'
    PROVE  SpendInv'
<1>1. InBudget(new, paid[proc[p].run], Recorded, costs)
    BY HereSpend, StaysPlanned
<1> QED
    BY <1>1, SpendQuiet

LEMMA PlanGoto ==
    ASSUME IngestInv, ReportInv, SpendInv, NEW p \in Procs, proc[p].pc # "idle",
           Planning(proc[p]), NEW label \in {"resolve", "resolved", "estimate"},
           Goto(p, label), UNCHANGED <<runs, costs, paid>>, Recorded \subseteq Recorded'
    PROVE  SpendInv'
<1>1. PICK new : new = [proc[p] EXCEPT !.pc = label]
    OBVIOUS
<1>2. /\ new.pc = label /\ new.run = proc[p].run /\ new.est = proc[p].est
      /\ new.items = proc[p].items
    BY <1>1, HereSpend, MoveFields
<1>3. Planning(new) /\ Becomes(p, new)
    BY <1>1, <1>2 DEF Planning, Goto
<1> QED
    BY <1>2, <1>3, PlansOn

LEMMA PlanSettle ==
    ASSUME IngestInv, ReportInv, SpendInv, NEW p \in Procs, proc[p].pc # "idle",
           Planning(proc[p]), NEW st, Settle(p, st, "plan"),
           UNCHANGED <<runs, costs, paid, pit>>
    PROVE  SpendInv'
<1>1. PICK new : new = Settled(proc[p], st, "plan")
    OBVIOUS
<1>2. /\ new.pc = "plan" /\ new.run = proc[p].run /\ new.est = proc[p].est
      /\ new.items = proc[p].items
    BY <1>1, HereSpend, MoveFields
<1>3. Planning(new) /\ Becomes(p, new)
    BY <1>1, <1>2 DEF Planning, Settle, Settled, Batch
<1>4. Recorded \subseteq Recorded'
    BY DEF Recorded
<1> QED
    BY <1>2, <1>3, <1>4, PlansOn

LEMMA PlanDaySpend ==
    ASSUME IngestInv, ReportInv, SpendInv, NEW p \in Procs, PlanDay(p)
    PROVE  SpendInv'
<1> DEFINE r == proc[p]
           b == Head(r.todo)
<1>1. r.pc = "plan" /\ r.pc # "idle" /\ r.todo # <<>> /\ Planning(r)
    BY DEF PlanDay, At, Planning
<1>2. UNCHANGED <<runs, costs, paid, pit>> /\ Recorded' = Recorded
    BY <1>1, HereSpend DEF PlanDay
<1>3. CASE b \in ZeroDte /\ Find(b)
  <2>1. PICK new : new = [r EXCEPT !.items = Append(@, b), !.todo = Tail(@)]
    OBVIOUS
  <2>2. Becomes(p, new)
    BY <1>3, <2>1 DEF PlanDay, Batch
  <2>3. /\ r \in Command /\ r.items \in Seq(Keys) /\ b \in Keys /\ b \in Recorded
    BY <1>1, <1>3, HereSpend, HeadAndTail
  <2>4. /\ new.pc = "plan" /\ new.run = r.run /\ new.est = r.est
        /\ new.items = Append(r.items, b)
    BY <1>1, <2>1, <2>3 DEF Command
  <2>5. Planning(new)
    BY <2>4 DEF Planning
  <2>6. Lengthens(r.items, new.items, Recorded, b)
    BY <2>3, <2>4, AppendLengthens
  <2>7. InBudget(r, paid[r.run], Recorded, costs)
    BY <1>1, HereSpend
  <2>8. InBudget(new, paid[r.run], Recorded, costs)
    BY <1>1, <2>3, <2>4, <2>5, <2>6, <2>7, PlansRecorded
  <2> QED
    BY <1>1, <1>2, <2>2, <2>4, <2>8, SpendQuiet
<1>4. CASE Goto(p, "resolve") \/ Goto(p, "estimate")
    BY <1>1, <1>2, <1>4, PlanGoto
<1> QED
    BY <1>3, <1>4 DEF PlanDay, Batch

LEMMA ResolveSpend ==
    ASSUME IngestInv, ReportInv, SpendInv, NEW p \in Procs, Resolve(p)
    PROVE  SpendInv'
<1> DEFINE r == proc[p]
<1>1. r.pc = "resolve" /\ r.pc # "idle" /\ Planning(r)
    BY DEF Resolve, At, Planning
<1>2. UNCHANGED <<runs, costs, pit>> /\ Recorded' = Recorded
    BY <1>1, HereSpend DEF Resolve
<1>3. PICK k : k = DefinitionsOf[Head(r.todo)]
    OBVIOUS
<1>4. k \in Keys /\ k \in Definitions
    BY <1>1, <1>3, HereSpend, DefinitionsFacts DEF Sound
<1>5. CASE Settle(p, "GAP", "plan") /\ UNCHANGED paid
    BY <1>1, <1>2, <1>5, PlanSettle
<1>6. CASE /\ Bill(p, k)
           /\ Becomes(p, [r EXCEPT !.pc = "definitions", !.est = @ + Price[k]])
  <2>1. PICK new : new = [r EXCEPT !.pc = "definitions", !.est = @ + Price[k]]
    OBVIOUS
  <2>2. PICK row : Increased(paid[r.run], k, row)
    BY DEF Increased
  <2>3. row \in Weights /\ paid' = [paid EXCEPT ![r.run] = row]
    BY <1>1, <1>4, <1>6, <2>2, BillRow
  <2>4. /\ r \in Command /\ r.items \in Seq(Keys) /\ r.est \in Nat
        /\ \A i \in DOMAIN r.items : r.items[i] \in Keys
        /\ InBudget(r, paid[r.run], Recorded, costs)
        /\ paid[r.run] \in Weights
    BY <1>1, HereSpend
  <2>5. /\ new.pc = "definitions" /\ new.run = r.run /\ new.est = r.est + Price[k]
        /\ new.items = r.items
    BY <2>1, <2>4 DEF Command
  <2>6. Planning(new)
    BY <2>5 DEF Planning
  <2>7. Lengthens(r.items, new.items, Recorded, k)
    BY <1>4, <2>4, <2>5, AppendLengthens
  <2>8. InBudget(new, row, Recorded, costs)
    BY <1>1, <1>4, <2>2, <2>3, <2>4, <2>5, <2>6, <2>7, PlansMore
  <2>9. PICK ledger : ledger = costs
    OBVIOUS
  <2>10. \A n \in DOMAIN ledger : ledger[n].plan # r.run
    BY <1>1, <2>4, <2>9, Phases DEF InBudget, Granted
  <2>11. GrowsFor(costs, ledger, r.run) /\ ledger = costs'
    BY <1>2, <2>9 DEF GrowsFor
  <2>12. InBudget(new, row, Recorded', ledger)
    BY <1>2, <2>8, <2>9
  <2>13. Becomes(p, new)
    BY <1>6, <2>1
  <2> QED
    BY <1>1, <1>2, <2>3, <2>5, <2>10, <2>11, <2>12, <2>13, SpendStep
<1> QED
    BY <1>3, <1>5, <1>6 DEF Resolve, Batch

LEMMA EstimateSpend ==
    ASSUME IngestInv, ReportInv, SpendInv, NEW p \in Procs, Estimate(p)
    PROVE  SpendInv'
<1> DEFINE r == proc[p]
<1>1. r.pc = "estimate" /\ r.pc # "idle" /\ Planning(r)
    BY DEF Estimate, At, Planning
<1>2. UNCHANGED <<runs, costs, paid, pit>> /\ Recorded' = Recorded
    BY <1>1, HereSpend DEF Estimate
<1>3. PICK k : k = Head(r.todo)
    OBVIOUS
<1>4. /\ r \in Command /\ r.items \in Seq(Keys) /\ r.est \in Nat
      /\ \A i \in DOMAIN r.items : r.items[i] \in Keys
      /\ InBudget(r, paid[r.run], Recorded, costs)
      /\ paid[r.run] \in Weights
      /\ Sound(r) /\ r.todo \in Seq(Keys)
    BY <1>1, HereSpend
<1>5. k \in Keys
    BY <1>1, <1>3, <1>4, HeadAndTail DEF Sound, Busy
<1>6. CASE Settle(p, "GAP", "plan")
    BY <1>1, <1>2, <1>6, PlanSettle
<1>7. CASE Becomes(p, [r EXCEPT !.pc = "plan", !.todo = Tail(@),
                                !.items = Append(@, k), !.est = @ + Price[k]])
  <2>1. PICK new : new = [r EXCEPT !.pc = "plan", !.todo = Tail(@),
                                   !.items = Append(@, k), !.est = @ + Price[k]]
    OBVIOUS
  <2>2. /\ new.pc = "plan" /\ new.run = r.run /\ new.est = r.est + Price[k]
        /\ new.items = Append(r.items, k)
    BY <1>4, <2>1 DEF Command
  <2>3. Planning(new)
    BY <2>2 DEF Planning
  <2>4. Lengthens(r.items, new.items, Recorded, k)
    BY <1>4, <1>5, <2>2, AppendLengthens
  <2>5. InBudget(new, paid[r.run], Recorded, costs)
    BY <1>1, <1>4, <1>5, <2>2, <2>3, <2>4, PlansMore
  <2> QED
    BY <1>1, <1>2, <1>7, <2>1, <2>2, <2>5, SpendQuiet
<1> QED
    BY <1>3, <1>6, <1>7 DEF Estimate, Batch

LEMMA ResolvedSpend ==
    ASSUME IngestInv, ReportInv, SpendInv, NEW p \in Procs,
           LandDefinitions(p) \/ Resolved(p) \/ ReadLedger(p)
    PROVE  SpendInv'
<1> DEFINE r == proc[p]
<1>1. r.pc \in {"definitions", "resolved", "plan"} /\ r.pc # "idle" /\ Planning(r)
    BY DEF LandDefinitions, Resolved, ReadLedger, At, Planning
<1>2. UNCHANGED <<runs, costs, paid, pit>> /\ Recorded' = Recorded
    BY <1>1, HereSpend DEF LandDefinitions, Resolved, ReadLedger
<1>3. r \in Command
    BY <1>1, HereSpend
<1>4. CASE LandDefinitions(p)
  <2>1. PICK k : k = DefinitionsOf[Head(r.todo)]
    OBVIOUS
  <2>2. k \in Definitions
    BY <1>1, <1>4, <2>1, HereSpend, DefinitionsFacts DEF Sound, LandDefinitions, At
  <2>3. CASE Goto(p, "resolved")
    BY <1>1, <1>2, <2>3, PlanGoto
  <2>4. CASE Becomes(p, [r EXCEPT !.pc = "object", !.job = k])
    <3>1. PICK new : new = [r EXCEPT !.pc = "object", !.job = k]
      OBVIOUS
    <3>2. /\ new.pc = "object" /\ new.job = k /\ new.run = r.run
          /\ new.est = r.est /\ new.items = r.items
      BY <1>3, <3>1 DEF Command
    <3>3. Planning(new)
      BY <2>2, <3>2 DEF Planning, Landing
    <3> QED
      BY <1>1, <1>2, <2>4, <3>1, <3>2, <3>3, PlansOn
  <2> QED
    BY <1>4, <2>1, <2>3, <2>4 DEF LandDefinitions, Batch
<1>5. CASE Resolved(p)
    BY <1>1, <1>2, <1>5, PlanGoto, PlanSettle DEF Resolved
<1>6. CASE ReadLedger(p)
  <2>1. CASE Becomes(p, Idle)
    BY <1>1, <1>2, <2>1, SpendStop
  <2>2. CASE Becomes(p, [r EXCEPT !.pc = "gate", !.seen = Len(costs)])
    <3>1. PICK new : new = [r EXCEPT !.pc = "gate", !.seen = Len(costs)]
      OBVIOUS
    <3>2. /\ new.pc = "gate" /\ new.run = r.run
          /\ new.est = r.est /\ new.items = r.items
      BY <1>3, <3>1 DEF Command
    <3>3. Planning(new)
      BY <3>2 DEF Planning
    <3> QED
      BY <1>1, <1>2, <2>2, <3>1, <3>2, <3>3, PlansOn
  <2> QED
    BY <1>6, <2>1, <2>2 DEF ReadLedger
<1> QED
    BY <1>4, <1>5, <1>6

(* The gate writes the estimate into the ledger: the allowance of the plan *)
(* becomes that of the run, and only an approved plan runs.                *)
LEMMA GateSpend ==
    ASSUME IngestInv, ReportInv, SpendInv, NEW p \in Procs, Gate(p)
    PROVE  SpendInv'
<1> DEFINE r == proc[p]
<1>1. r.pc = "gate" /\ r.pc # "idle" /\ Planning(r) /\ ~ Running(r)
    BY DEF Gate, At, Planning, Running, Landing
<1>2. /\ r \in Command /\ r.items \in Seq(Keys) /\ r.est \in Nat
      /\ Listed(r, Recorded, Passed)
      /\ InBudget(r, paid[r.run], Recorded, costs)
      /\ paid[r.run] \in Weights
    BY <1>1, HereSpend
<1>3. PICK row : row = paid[r.run]
    OBVIOUS
<1>4. UNCHANGED <<runs, paid, pit>> /\ Recorded' = Recorded
    BY DEF Gate, Recorded
<1>5. PICK w \in Weights : Funded(r, row, Recorded, w) /\ Granted(r, costs, w)
    BY <1>2, <1>3 DEF InBudget
<1>6. PICK ok : ok = WithinCeiling(r.est)
    OBVIOUS
<1>7. PICK h : h = HashOf(r.seen)
    OBVIOUS
<1>8. PICK e : e = [plan |-> r.run, sequence |-> r.seen, previous |-> h,
                    total |-> r.est, approved |-> ok]
    OBVIOUS
<1>9. /\ costs' = Append(costs, e)
      /\ e.plan = r.run /\ e.approved = ok /\ e.total = r.est
    BY <1>6, <1>7, <1>8 DEF Gate
<1>10. PICK ledger : ledger = costs'
    OBVIOUS
<1>11. \A n \in DOMAIN ledger : (n \in DOMAIN costs /\ ledger[n] = costs[n]) \/ ledger[n] = e
  <2>1. PICK S : costs \in Seq(S) /\ e \in S
    <3>1. PICK T : costs \in Seq(T)
      BY DEF IngestInv, TypeOK
    <3>2. costs \in Seq(T \cup {e})
      BY <3>1, SeqMonotonic
    <3> QED
      BY <3>2
  <2>2. PICK n : n = Len(costs)
    OBVIOUS
  <2>3. /\ n \in Nat /\ DOMAIN costs = 1..n /\ DOMAIN ledger = 1..(n + 1)
        /\ \A i \in 1..n : ledger[i] = costs[i]
        /\ ledger[n + 1] = e
    BY <1>9, <1>10, <2>1, <2>2, AppendKeeps
  <2>4. \A i \in 1..(n + 1) : i \in 1..n \/ i = n + 1
    BY <2>3
  <2> QED
    BY <2>3, <2>4
<1>12. \A n \in DOMAIN ledger : ledger[n].plan = r.run => ledger[n] = e
    BY <1>1, <1>5, <1>11 DEF Granted
<1>13. GrowsFor(costs, ledger, r.run)
    BY <1>9, <1>11 DEF GrowsFor
<1>14. /\ PlanFunded(r.est, r.items, row, Recorded, w)
       /\ \A k \in Keys : row[k] <= w[k]
    BY <1>1, <1>5 DEF Funded
<1>15. Covered(e, row)
  <2>1. Cost(row, Keys) <= Cost(w, Keys)
    BY <1>2, <1>3, <1>14, CostGrows
  <2>2. Cost(row, Keys) \in Nat /\ Cost(w, Keys) \in Nat
    BY <1>2, <1>3, CostIsSummed
  <2>3. Cost(w, Keys) <= r.est
    BY <1>14 DEF PlanFunded
  <2>4. Cost(row, Keys) <= r.est
    BY <1>2, <2>1, <2>2, <2>3
  <2>5. e.approved => e.total <= Ceiling
    BY <1>6, <1>9 DEF WithinCeiling
  <2>6. \A k \in Keys \ Definitions : row[k] = 0
    BY <1>14 DEF PlanFunded
  <2> QED
    BY <1>9, <2>4, <2>5, <2>6 DEF Covered
<1>16. \A n \in DOMAIN ledger : ledger[n].plan = r.run => Covered(ledger[n], row)
    BY <1>12, <1>15
<1>17. row \in Weights /\ paid' = [paid EXCEPT ![r.run] = row]
    BY <1>1, <1>2, <1>3, <1>4, RunTyped
<1>18. CASE Becomes(p, Idle)
    BY <1>1, <1>4, <1>10, <1>13, <1>16, <1>17, <1>18, IdleFields, SpendStep
<1>19. CASE ok = TRUE /\ Becomes(p, [r EXCEPT !.pc = "run", !.todo = r.items])
  <2>1. PICK new : new = [r EXCEPT !.pc = "run", !.todo = r.items]
    OBVIOUS
  <2>2. new.pc = "run" /\ new.todo = r.items /\ new.run = r.run
    BY <1>2, <2>1 DEF Command
  <2>3. Running(new) /\ ~ Planning(new) /\ new.pc \notin Landing
    BY <2>2 DEF Running, Planning, Landing
  <2>4. \A i \in DOMAIN r.items : r.items[i] \in Keys \ Definitions
    <3>1. r.items \in Seq(Keys \ Definitions)
      BY <1>1, <1>2 DEF Listed, Open
    <3> QED
      BY <3>1
  <2>5. Unbought(r.items, row, new.pc \in Landing)
    BY <1>14, <2>4 DEF PlanFunded, Unbought
  <2>6. RunFunded(new.todo, new.pc, row, Recorded, w)
    BY <1>14, <2>2, <2>5 DEF PlanFunded, RunFunded
  <2>7. Funded(new, row, Recorded, w)
    BY <1>14, <2>3, <2>6 DEF Funded
  <2>8. Granted(new, ledger, w)
    BY <1>9, <1>12, <1>14, <1>19, <2>2, <2>3 DEF Granted, PlanFunded
  <2>9. InBudget(new, row, Recorded', ledger)
    BY <1>4, <2>7, <2>8 DEF InBudget
  <2> QED
    BY <1>1, <1>4, <1>10, <1>13, <1>16, <1>17, <1>19, <2>1, <2>2, <2>9, SpendStep
<1> QED
    BY <1>6, <1>18, <1>19 DEF Gate, WithinCeiling

(* A running command settles its first batch.                              *)
LEMMA RunSettle ==
    ASSUME IngestInv, ReportInv, SpendInv, NEW p \in Procs, proc[p].pc # "idle",
           Running(proc[p]), proc[p].todo # <<>>, NEW st, Settle(p, st, "run"),
           UNCHANGED <<runs, costs, paid>>, Recorded \subseteq Recorded'
    PROVE  SpendInv'
<1>1. PICK new : new = Settled(proc[p], st, "run")
    OBVIOUS
<1>2. new.pc = "run" /\ new.run = proc[p].run /\ new.todo = Tail(proc[p].todo)
    BY <1>1, HereSpend, MoveFields
<1>3. Becomes(p, new)
    BY <1>1 DEF Settle, Settled, Batch
<1>4. InBudget(new, paid[proc[p].run], Recorded, costs)
    BY <1>2, HereSpend, RunsOn
<1> QED
    BY <1>2, <1>3, <1>4, SpendQuiet

LEMMA RunDaySpend ==
    ASSUME IngestInv, ReportInv, SpendInv, NEW p \in Procs, RunDay(p)
    PROVE  SpendInv'
<1> DEFINE r == proc[p]
<1>1. r.pc = "run" /\ r.pc # "idle" /\ r.todo # <<>> /\ Running(r)
    BY DEF RunDay, At, Running
<1>2. UNCHANGED <<runs, costs, paid, pit>> /\ Recorded' = Recorded
    BY <1>1, HereSpend DEF RunDay
<1>3. CASE \E st \in Statuses : Settle(p, st, "run")
    BY <1>1, <1>2, <1>3, RunSettle
<1>4. CASE ~ Find(Head(r.todo)) /\ Goto(p, "download")
  <2>1. PICK new : new = [r EXCEPT !.pc = "download"]
    OBVIOUS
  <2>2. new.pc = "download" /\ new.run = r.run /\ new.todo = r.todo
    BY <1>1, <2>1, HereSpend, MoveFields
  <2>3. Running(new) /\ r.pc \notin Landing
    BY <1>1, <2>2 DEF Running, Landing
  <2>4. 1 \in DOMAIN r.todo /\ Head(r.todo) = r.todo[1] /\ Head(r.todo) \notin Recorded
    BY <1>1, <1>4, HereSpend, TailFacts
  <2>5. InBudget(r, paid[r.run], Recorded, costs)
    BY <1>1, HereSpend
  <2>6. InBudget(new, paid[r.run], Recorded, costs)
    BY <1>1, <2>2, <2>3, <2>4, <2>5, StaysRunning
  <2> QED
    BY <1>1, <1>2, <1>4, <2>1, <2>2, <2>6, SpendQuiet DEF Goto
<1> QED
    BY <1>3, <1>4 DEF RunDay, Batch, Statuses

(* A download pays for the first batch, which is in the allowance and was  *)
(* not bought before.                                                      *)
LEMMA DownloadSpend ==
    ASSUME IngestInv, ReportInv, SpendInv, NEW p \in Procs, Download(p)
    PROVE  SpendInv'
<1> DEFINE r == proc[p]
<1>1. r.pc = "download" /\ r.pc # "idle" /\ Running(r) /\ ~ Planning(r) /\ r.pc \notin Landing
    BY DEF Download, At, Running, Planning, Landing
<1>2. UNCHANGED <<runs, costs, pit>> /\ Recorded' = Recorded
    BY <1>1, HereSpend DEF Download
<1>3. /\ r \in Command /\ Sound(r) /\ r.todo \in Seq(Keys)
      /\ Listed(r, Recorded, Passed)
      /\ InBudget(r, paid[r.run], Recorded, costs)
      /\ paid[r.run] \in Weights
    BY <1>1, HereSpend
<1>4. r.todo # <<>>
    BY <1>1, <1>3 DEF Sound, Busy
<1>5. PICK k : k = Head(r.todo)
    OBVIOUS
<1>6. k \in Keys /\ k = r.todo[1] /\ 1 \in DOMAIN r.todo /\ k \notin Definitions
  <2>1. k \in Keys /\ k = r.todo[1] /\ 1 \in DOMAIN r.todo
    BY <1>3, <1>4, <1>5, TailFacts
  <2>2. r.todo \in Seq(Keys \ Definitions)
    BY <1>1, <1>3 DEF Listed, Open
  <2> QED
    BY <2>1, <2>2
<1>7. CASE Settle(p, "GAP", "run") /\ UNCHANGED paid
    BY <1>1, <1>2, <1>4, <1>7, RunSettle
<1>8. CASE Bill(p, k) /\ Becomes(p, [r EXCEPT !.pc = "object", !.job = k])
  <2>1. PICK new : new = [r EXCEPT !.pc = "object", !.job = k]
    OBVIOUS
  <2>2. PICK old : old = paid[r.run]
    OBVIOUS
  <2>3. PICK row : Increased(old, k, row)
    BY DEF Increased
  <2>4. /\ row \in Weights /\ paid' = [paid EXCEPT ![r.run] = row]
        /\ row[k] = old[k] + 1
        /\ \A j \in Keys : j # k => row[j] = old[j]
    BY <1>1, <1>6, <1>8, <2>2, <2>3, BillRow
  <2>5. new.pc = "object" /\ new.job = k /\ new.run = r.run /\ new.todo = r.todo
    BY <1>3, <2>1 DEF Command
  <2>6. Running(new) /\ ~ Planning(new) /\ new.pc \in Landing
    BY <1>6, <2>5 DEF Running, Planning, Landing
  <2>7. PICK w \in Weights : Funded(r, old, Recorded, w) /\ Granted(r, costs, w)
    BY <1>3, <2>2 DEF InBudget
  <2>8. /\ RunFunded(r.todo, r.pc, old, Recorded, w)
        /\ \A j \in Keys : old[j] <= w[j]
    BY <1>1, <2>7 DEF Funded
  <2>9. w[k] >= 1
    BY <1>1, <1>5, <2>8 DEF RunFunded
  <2>10. /\ Unbought(r.todo, old, FALSE) /\ Foreseen(r.todo, Recorded, w)
         /\ old[k] = 0
    BY <1>1, <1>6, <2>8 DEF RunFunded, Unbought
  <2>11. row[k] = 1
    BY <2>4, <2>10
  <2>12. \A j \in Keys : row[j] <= w[j]
    BY <2>4, <2>8, <2>9, <2>11
  <2>13. Unbought(r.todo, row, TRUE)
    <3>1. \A i \in DOMAIN r.todo : i = 1 \/ (r.todo[i] # k /\ r.todo[i] \in Keys)
      <4>1. Open(r.todo, r.outcomes)
        BY <1>1, <1>3 DEF Listed
      <4>2. \A i \in DOMAIN r.todo : r.todo[i] = r.todo[1] => i = 1
        BY <1>6, <4>1 DEF Open
      <4>3. \A i \in DOMAIN r.todo : r.todo[i] \in Keys
        BY <1>3
      <4> QED
        BY <1>6, <4>2, <4>3
    <3> QED
      BY <2>4, <2>10, <3>1 DEF Unbought
  <2>14. RunFunded(new.todo, new.pc, row, Recorded, w)
    BY <2>5, <2>6, <2>10, <2>13 DEF RunFunded
  <2>15. Funded(new, row, Recorded, w)
    BY <2>6, <2>12, <2>14 DEF Funded
  <2>16. Granted(new, costs, w)
    BY <2>5, <2>6, <2>7 DEF Granted
  <2>17. PICK ledger : ledger = costs
    OBVIOUS
  <2>18. ASSUME NEW n \in DOMAIN ledger, ledger[n].plan = r.run
         PROVE  Covered(ledger[n], row)
    <3>1. ledger[n].approved /\ Cost(w, Keys) <= ledger[n].total
      BY <2>7, <2>17, <2>18 DEF Granted
    <3>2. Cost(row, Keys) <= Cost(w, Keys)
      BY <2>4, <2>12, CostGrows
    <3>3. Cost(row, Keys) \in Nat /\ Cost(w, Keys) \in Nat
      BY <2>4, CostIsSummed
    <3>4. ledger[n].total \in Nat
      BY <2>17, EntryTyped
    <3>5. Cost(row, Keys) <= ledger[n].total
      BY <3>1, <3>2, <3>3, <3>4
    <3>6. ledger[n].total <= Ceiling
      BY <2>17, <3>1 DEF SpendInv, Covered
    <3> QED
      BY <3>1, <3>5, <3>6 DEF Covered
  <2>19. GrowsFor(costs, ledger, r.run) /\ ledger = costs'
    BY <1>2, <2>17 DEF GrowsFor
  <2>20. Becomes(p, new) /\ InBudget(new, row, Recorded', ledger)
    BY <1>2, <1>8, <2>1, <2>15, <2>16, <2>17 DEF InBudget
  <2> QED
    BY <1>1, <1>2, <2>4, <2>5, <2>18, <2>19, <2>20, SpendStep
<1> QED
    BY <1>5, <1>7, <1>8 DEF Download, Batch

(* The landing of a batch up to its record.                                *)
LEMMA LandSpend ==
    ASSUME IngestInv, ReportInv, SpendInv, NEW p \in Procs,
           PutObject(p) \/ AppendReceipt(p) \/ PitCheck(p)
    PROVE  SpendInv'
<1> DEFINE r == proc[p]
<1>1. r.pc \in Landing /\ r.pc # "idle"
    BY DEF PutObject, AppendReceipt, PitCheck, At, Landing
<1>2. UNCHANGED <<runs, costs, paid, pit>> /\ Recorded' = Recorded
    BY <1>1, HereSpend DEF PutObject, AppendReceipt, PitCheck
<1>3. r \in Command /\ InBudget(r, paid[r.run], Recorded, costs)
    BY <1>1, HereSpend
<1>4. CASE Becomes(p, Idle)
    BY <1>1, <1>2, <1>4, SpendStop
<1>5. ASSUME NEW new, Becomes(p, new), new.pc \in Landing, new.job = r.job,
             new.run = r.run, new.est = r.est, new.items = r.items, new.todo = r.todo
      PROVE  SpendInv'
  <2>1. CASE Planning(r)
    <3>1. Planning(new)
      BY <1>1, <1>5, <2>1 DEF Planning, Landing
    <3> QED
      BY <1>1, <1>2, <1>5, <2>1, <3>1, PlansOn
  <2>2. CASE Running(r)
    <3>1. Running(new) /\ new.pc # "download"
      BY <1>1, <1>5, <2>2 DEF Running, Landing
    <3>2. InBudget(new, paid[r.run], Recorded, costs)
      BY <1>3, <1>5, <2>2, <3>1, StaysRunning
    <3> QED
      BY <1>1, <1>2, <1>5, <3>2, SpendQuiet
  <2> QED
    BY <1>1, <2>1, <2>2 DEF Planning, Running
<1>6. CASE \E label \in {"check", "record"} : Goto(p, label)
  <2>1. PICK label \in {"check", "record"} : Goto(p, label)
    BY <1>6
  <2>2. PICK new : new = [r EXCEPT !.pc = label]
    OBVIOUS
  <2>3. /\ new.pc = label /\ new.run = r.run /\ new.est = r.est
        /\ new.items = r.items /\ new.todo = r.todo /\ new.job = r.job
    BY <1>3, <2>2, MoveFields
  <2>4. Becomes(p, new) /\ new.pc \in Landing
    BY <2>1, <2>2, <2>3 DEF Goto, Landing
  <2> QED
    BY <1>5, <2>3, <2>4
<1>7. CASE Becomes(p, [r EXCEPT !.pc = "receipt", !.object = Len(objects) + 1])
  <2>1. PICK new : new = [r EXCEPT !.pc = "receipt", !.object = Len(objects) + 1]
    OBVIOUS
  <2>2. /\ new.pc = "receipt" /\ new.run = r.run /\ new.est = r.est
        /\ new.items = r.items /\ new.todo = r.todo /\ new.job = r.job
    BY <1>3, <2>1 DEF Command
  <2> QED
    BY <1>5, <1>7, <2>1, <2>2 DEF Landing
<1> QED
    BY <1>4, <1>6, <1>7 DEF PutObject, AppendReceipt, PitCheck, Goto

(* A batch is recorded: definitions while planning, others while running.  *)
LEMMA PitAppendSpend ==
    ASSUME IngestInv, ReportInv, SpendInv, NEW p \in Procs, PitAppend(p)
    PROVE  SpendInv'
<1> DEFINE r == proc[p]
<1>1. r.pc = "record" /\ r.pc # "idle" /\ r.pc \in Landing
    BY DEF PitAppend, At, Landing
<1>2. UNCHANGED <<runs, costs, paid>> /\ r \in Command /\ Sound(r)
    BY <1>1, HereSpend DEF PitAppend
<1>3. r.todo # <<>>
    BY <1>1, <1>2 DEF Sound, Busy
<1>4. Recorded \subseteq Recorded'
  <2>1. PICK e : e = [key |-> r.job, object |-> r.object]
    OBVIOUS
  <2>2. PICK S : pit \in Seq(S) /\ e \in S
    <3>1. PICK T : pit \in Seq(T)
      BY DEF IngestInv, TypeOK
    <3>2. pit \in Seq(T \cup {e})
      BY <3>1, SeqMonotonic
    <3> QED
      BY <3>2
  <2>3. PICK n : n = Len(pit)
    OBVIOUS
  <2>4. pit' = Append(pit, e)
    BY <2>1 DEF PitAppend
  <2>5. /\ n \in Nat /\ DOMAIN pit = 1..n /\ DOMAIN pit' = 1..(n + 1)
        /\ \A i \in 1..n : pit'[i] = pit[i]
    BY <2>2, <2>3, <2>4, AppendKeeps
  <2>6. 1..n \subseteq 1..(n + 1)
    BY <2>5
  <2> QED
    BY <2>5, <2>6 DEF Recorded
<1>5. CASE r.job \in Definitions /\ Goto(p, "resolved")
  <2>1. Planning(r)
    BY <1>1, <1>5 DEF Planning
  <2> QED
    BY <1>1, <1>2, <1>4, <1>5, <2>1, PlanGoto
<1>6. CASE r.job \notin Definitions /\ Settle(p, "LANDED", "run")
  <2>1. Running(r)
    BY <1>1, <1>6 DEF Running
  <2> QED
    BY <1>1, <1>2, <1>3, <1>4, <1>6, <2>1, RunSettle
<1> QED
    BY <1>5, <1>6 DEF PitAppend

(* A new command has bought nothing and has no entry.                      *)
LEMMA StartSpend ==
    ASSUME IngestInv, SpendInv, NEW p \in Procs, NEW list \in Windows,
           NEW mode \in {"plan", "run"}, Start(p, list, mode)
    PROVE  SpendInv'
<1>1. PICK run : run = runs + 1
    OBVIOUS
<1>2. PICK new : new = [Idle EXCEPT !.pc = "plan", !.run = run, !.mode = mode,
                                    !.todo = list]
    OBVIOUS
<1>3. /\ Becomes(p, new) /\ UNCHANGED <<pit, costs, paid>>
      /\ runs' = run /\ runs < MaxRuns /\ proc[p].pc = "idle"
    BY <1>1, <1>2 DEF Start, files, At
<1>4. new.pc = "plan" /\ new.run = run /\ new.est = 0 /\ new.items = <<>>
    BY <1>2 DEF Idle
<1>5. runs \in Nat /\ MaxRuns \in Nat /\ paid \in [1..MaxRuns -> Weights]
    BY CostAssumption DEF IngestInv, TypeOK, Weights
<1>6. run \in 1..MaxRuns /\ run > runs /\ run \in Nat
    BY <1>1, <1>3, <1>5
<1>7. PICK row : row = paid[run]
    OBVIOUS
<1>8. row \in Weights /\ \A k \in Keys : row[k] = 0
    BY <1>5, <1>6, <1>7 DEF SpendInv
<1>9. Planning(new) /\ ~ Running(new)
    BY <1>4 DEF Planning, Running, Landing
<1>10. Cost(row, Keys) = 0
    BY <1>8, CostZero
<1>11. \A k \in Keys : row[k] <= row[k]
    BY <1>8
<1>12. PlanFunded(new.est, new.items, row, Recorded, row)
    BY <1>4, <1>8, <1>10 DEF PlanFunded, Foreseen
<1>13. Funded(new, row, Recorded, row)
    BY <1>9, <1>11, <1>12 DEF Funded
<1>14. \A n \in DOMAIN costs : costs[n].plan # run
  <2>1. \A n \in DOMAIN costs : costs[n].plan \in 1..runs
    BY EntryTyped
  <2> QED
    BY <1>5, <1>6, <2>1
<1>15. InBudget(new, row, Recorded, costs)
    BY <1>4, <1>8, <1>13, <1>14 DEF Granted, InBudget
<1>16. proc'[p] = new /\ \A q \in Procs : q # p => proc'[q] = proc[q]
    BY <1>3 DEF IngestInv, TypeOK, Becomes
<1>17. Recorded' = Recorded
    BY <1>3 DEF Recorded
<1>18. ASSUME NEW q \in Procs, proc'[q].pc # "idle"
       PROVE  InBudget(proc'[q], paid[proc'[q].run], Recorded, costs)
  <2>1. CASE q = p
    BY <1>4, <1>7, <1>15, <1>16, <2>1
  <2>2. CASE q # p
    BY <1>16, <1>18, <2>2 DEF SpendInv
  <2> QED
    BY <2>1, <2>2
<1>19. OneRunEach'
  <2>1. \A q \in Procs : q # p /\ proc'[q].pc # "idle" => proc'[q].run # run
    <3>1. \A q \in Procs : proc[q].pc # "idle" => proc[q].run \in 1..runs
      BY RunTyped
    <3> QED
      BY <1>5, <1>6, <1>16, <3>1
  <2>2. \A x, y \in Procs : x # p /\ y # p /\ x # y /\ proc'[x].pc # "idle"
                            /\ proc'[y].pc # "idle" => proc'[x].run # proc'[y].run
    BY <1>16 DEF SpendInv, OneRunEach
  <2>3. proc'[p].run = run
    BY <1>4, <1>16
  <2> QED
    BY <2>1, <2>2, <2>3 DEF OneRunEach
<1>20. ASSUME NEW r \in 1..MaxRuns, r > run, NEW k \in Keys
       PROVE  paid[r][k] = 0
  <2>1. r > runs
    BY <1>5, <1>6, <1>20
  <2> QED
    BY <2>1 DEF SpendInv
<1>21. \A q \in Procs : proc'[q].pc # "idle" =>
           InBudget(proc'[q], paid'[proc'[q].run], Recorded', costs')
    BY <1>3, <1>17, <1>18
<1>22. \A n \in DOMAIN costs' : Covered(costs'[n], paid'[costs'[n].plan])
    BY <1>3 DEF SpendInv
<1>23. \A r \in 1..MaxRuns : r > runs' => \A k \in Keys : paid'[r][k] = 0
    BY <1>3, <1>20
<1> QED
    BY <1>19, <1>21, <1>22, <1>23 DEF SpendInv

(* Nothing is bought at first.                                             *)
LEMMA InitSpendInv == Init => SpendInv
<1> SUFFICES ASSUME Init PROVE SpendInv
    OBVIOUS
<1>1. \A p \in Procs : proc[p].pc = "idle"
    BY IdleFields DEF Init
<1>2. DOMAIN costs = {}
    BY DEF Init
<1>3. \A r \in 1..MaxRuns : \A k \in Keys : paid[r][k] = 0
    BY DEF Init
<1> QED
    BY <1>1, <1>2, <1>3 DEF SpendInv, OneRunEach

(* A step that leaves what spending is about.                              *)
LEMMA SpendStutter ==
    ASSUME SpendInv, UNCHANGED <<pit, costs, paid, runs, proc>>
    PROVE  SpendInv'
<1>1. Recorded' = Recorded
    BY DEF Recorded
<1>2. \A p \in Procs :
         proc'[p].pc # "idle" => InBudget(proc'[p], paid'[proc'[p].run], Recorded', costs')
    BY <1>1 DEF SpendInv
<1>3. \A n \in DOMAIN costs' : Covered(costs'[n], paid'[costs'[n].plan])
    BY DEF SpendInv
<1>4. OneRunEach'
    BY DEF SpendInv, OneRunEach
<1>5. \A r \in 1..MaxRuns : r > runs' => \A k \in Keys : paid'[r][k] = 0
    BY DEF SpendInv
<1> QED
    BY <1>2, <1>3, <1>4, <1>5 DEF SpendInv

(* Every step keeps what is bought within its allowance.                   *)
LEMMA NextSpendInv == IngestInv /\ ReportInv /\ SpendInv /\ [Next]_vars => SpendInv'
<1> SUFFICES ASSUME IngestInv, ReportInv, SpendInv, [Next]_vars PROVE SpendInv'
    OBVIOUS
<1>1. ASSUME NEW p \in Procs, NEW list \in Windows, NEW mode \in {"plan", "run"},
             Start(p, list, mode)
      PROVE  SpendInv'
    BY <1>1, StartSpend
<1>2. ASSUME NEW p \in Procs, PersistReport(p) \/ Crash(p)
      PROVE  SpendInv'
  <2>1. proc[p].pc # "idle" /\ Becomes(p, Idle) /\ UNCHANGED <<runs, costs, paid, pit>>
    BY <1>2 DEF PersistReport, Crash, At
  <2> QED
    BY <2>1, SpendStop
<1>3. ASSUME NEW p \in Procs, Step(p)
      PROVE  SpendInv'
    BY <1>2, <1>3, PlanDaySpend, ResolveSpend, ResolvedSpend, EstimateSpend, GateSpend,
       RunDaySpend, DownloadSpend, LandSpend, PitAppendSpend DEF Step
<1>4. ASSUME NEW d \in Days, DayCloses(d)
      PROVE  SpendInv'
  <2>1. UNCHANGED <<pit, costs, paid, runs, proc>>
    BY <1>4 DEF DayCloses, files
  <2> QED
    BY <2>1, SpendStutter
<1>5. CASE UNCHANGED vars
  <2>1. UNCHANGED <<pit, costs, paid, runs, proc>>
    BY <1>5 DEF vars
  <2> QED
    BY <2>1, SpendStutter
<1> QED
    BY <1>1, <1>2, <1>3, <1>4, <1>5 DEF Next, Done

(* A command never pays the provider more than the estimate in its ledger  *)
(* entry; an approved estimate is within the ceiling, and a blocked plan   *)
(* has paid for enumeration only (build_plan, CostLedger.append and        *)
(* _run_day), for any prices and ceiling, any number of overlapping        *)
(* commands, gaps and crashes.                                             *)
THEOREM SpendStaysAccounted == Spec => []SpendIsAccounted
<1>1. IngestInv /\ SpendInv => SpendIsAccounted
  <2> SUFFICES ASSUME IngestInv, SpendInv, NEW n \in DOMAIN costs
               PROVE  /\ Spent(costs[n].plan, Keys) <= costs[n].total
                      /\ costs[n].approved => costs[n].total <= Ceiling
                      /\ ~ costs[n].approved =>
                            Spent(costs[n].plan, Keys \ Definitions) = 0
    BY DEF SpendIsAccounted
  <2>1. PICK row : row = paid[costs[n].plan]
    OBVIOUS
  <2>2. Covered(costs[n], row)
    BY <2>1 DEF SpendInv
  <2>3. row \in Weights
    BY <2>1, EntryTyped DEF IngestInv, TypeOK, Weights
  <2>4. /\ Spent(costs[n].plan, Keys) = Cost(row, Keys)
        /\ Spent(costs[n].plan, Keys \ Definitions) = Cost(row, Keys \ Definitions)
    BY <2>1, SpentIsCost
  <2>5. ASSUME ~ costs[n].approved
        PROVE  Cost(row, Keys \ Definitions) = 0
    <3>1. \A k \in Keys \ Definitions : row[k] = 0
      BY <2>2, <2>5 DEF Covered
    <3> QED
      BY <2>3, <3>1, CostZero
  <2> QED
    BY <2>2, <2>4, <2>5 DEF Covered
<1>2. Spec => []SpendInv
    BY InitSpendInv, NextSpendInv, IngestInvariant, ReportInvariant, PTL DEF Spec
<1> QED
    BY <1>1, <1>2, IngestInvariant, PTL
=============================================================================
