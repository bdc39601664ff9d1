---------------------------- MODULE EvidenceProofs ----------------------------
(***************************************************************************)
(* TLAPS proofs about the evidence that operators and researchers act on.  *)
(* Readiness: the shadow ledger and the admission gate, for any number of  *)
(* commands, sessions, manifests, crashes and edits.  RestoreDrill: what a *)
(* report says, for any number of drills, kills and outages.  Workbench:   *)
(* the event risk lock, the promotion gate, the alert engine, the replay   *)
(* ledger, the label and feature batches, the exit rules, the economics    *)
(* batch and the walk-forward splitter, for any requests, slices, alerts,  *)
(* records, histories, batches, quotes, samples and plans.                 *)
(***************************************************************************)
EXTENDS Evidence, SequenceTheorems, FiniteSetTheorems, FunctionTheorems,
        WellFoundedInduction, TLAPS

-----------------------------------------------------------------------------
(* The inductive invariant: the drill.                                     *)

Phases == {Steps[i] : i \in DOMAIN Steps}

(* The process state of a drill: what the copy tells, when "ok" can be     *)
(* set, where the cleanup is.                                              *)
DrillStateOK ==
    /\ drill \in Nat
    /\ phase \in Phases \cup {"idle", "cleanup"}
    /\ swept = [done |-> swept.done, clean |-> swept.clean]
    /\ swept.done \in 0..4 /\ swept.clean \in BOOLEAN
    /\ phase # "cleanup" => swept = Nothing
    /\ phase # "cleanup" => ok = FALSE
    /\ ok => drill \in proved
    /\ phase = "idle" => copy = "empty"
    /\ copy \in Matching => drill \in proved

(* What a clean sweep has dealt with is gone, if docker answered.          *)
SweptIsGone ==
    phase = "cleanup" /\ swept.clean /\ drill \notin unseen =>
        \A k \in 1..swept.done : <<CleanupOrder[k], drill>> \notin resources

(* The report is of an earlier drill than the one under way.               *)
ReportIsOld ==
    report # NoReport => /\ report.drill \in Nat /\ report.drill <= drill
                         /\ phase # "idle" => report.drill < drill

DrillInv == DrillStateOK /\ SweptIsGone /\ ReportIsOld /\ PassIsProved /\ CleanedMeansGone

-----------------------------------------------------------------------------
(* The inductive invariant: the ledger and the gate.                       *)

(* A line is an entry some command wrote, its session perhaps edited.      *)
Lines ==
    {[sequence |-> w.sequence, previous |-> w.previous, session |-> s, hash |-> w.hash] :
        w \in written, s \in Sessions}

(* An entry that a command wrote, or is about to write.                    *)
Sound(w) == w = Entry(w.sequence, w.previous, w.session)

WrittenOK ==
    /\ ledger \in Seq(Lines)
    /\ \A w \in written : Sound(w) /\ w.sequence \in Nat \ {0} /\ w.session \in Sessions

(* Nobody cut the end off: no two entries were written for one place, and  *)
(* none beyond the last line, unless a line was glued to another.          *)
UncutOK ==
    /\ cut \in BOOLEAN
    /\ ~cut => \A v, w \in written : v.sequence = w.sequence => v = w
    /\ ~cut /\ tail # "glued" =>
         \A w \in written : ledger # <<>> /\ w.sequence <= ledger[Len(ledger)].sequence

(* The entry of a command is the next one of the chain, of a new session.  *)
Extends(r) ==
    LET n == Len(ledger)
    IN  /\ r.entry = Entry(n + 1, IF n = 0 THEN "GENESIS" ELSE ledger[n].hash, r.session)
        /\ \A i \in DOMAIN ledger : ledger[i].session.id # r.session.id

Inside == {"read", "write", "flush"}

(* What a command knows at each of its steps, and still holds when it is   *)
(* used, because it holds the lock.                                        *)
CommandOK(c) ==
    LET r == rec[c]
    IN  /\ r = [step |-> r.step, session |-> r.session, entry |-> r.entry]
        /\ r.step \in {"idle", "lock"} \cup Inside
        /\ r.step = "idle" => r = Idle
        /\ r.step # "idle" => r.session \in Sessions
        /\ r.step \in Inside <=> lock = c
        /\ r.step \in {"write", "flush"} => Verify(ledger)
        /\ r.step = "write" => tail \in {"none", "unterminated"} /\ Extends(r)
        /\ r.step = "flush" => tail \in {"partial", "glued"}
        /\ r.step = "flush" /\ tail = "partial" => Extends(r)

CommandsOK ==
    /\ rec = [c \in Recorders |-> rec[c]]
    /\ lock \in Recorders \cup {None}
    /\ \A c \in Recorders : CommandOK(c)

(* The file's end, the time and the evaluation under way.                  *)
FileOK ==
    /\ tail \in {"none", "partial", "unterminated", "glued"}
    /\ tail = "unterminated" => ledger # <<>>
    /\ now \in Nat /\ edits \in Nat
    /\ manifest \in Manifests \cup {None}
    /\ gate = [loaded |-> gate.loaded, ready |-> gate.ready]
    /\ gate.loaded \in Manifests \cup {None}

ReadinessInv ==
    /\ WrittenOK /\ UncutOK /\ CommandsOK /\ FileOK
    /\ ChainVerifies /\ RecordedIsKept

-----------------------------------------------------------------------------
(* Sequences.                                                              *)

(* A sequence without its last element.                                    *)
LEMMA FrontFacts ==
    ASSUME NEW S, NEW s \in Seq(S), s # <<>>
    PROVE  /\ Front(s) \in Seq(S) /\ Len(Front(s)) = Len(s) - 1
           /\ \A i \in 1..(Len(s) - 1) : Front(s)[i] = s[i]
<1>1. Len(s) \in Nat \ {0} /\ \A i \in 1..Len(s) : s[i] \in S
    BY EmptySeq, ElementOfSeq
<1>2. PICK n : n = Len(s) - 1
    OBVIOUS
<1>3. n \in Nat /\ \A i \in 1..n : s[i] \in S
    BY <1>1, <1>2
<1>4. /\ SubSeq(s, 1, n) \in Seq(S)
      /\ Len(SubSeq(s, 1, n)) = IF 1 <= n THEN n - 1 + 1 ELSE 0
      /\ \A i \in 1..(n - 1 + 1) : SubSeq(s, 1, n)[i] = s[1 + i - 1]
    BY <1>3, SubSeqProperties
<1>5. Len(SubSeq(s, 1, n)) = n /\ \A i \in 1..n : SubSeq(s, 1, n)[i] = s[i]
    BY <1>3, <1>4
<1> QED BY <1>2, <1>4, <1>5 DEF Front

(* A sequence without its i-th element.                                    *)
LEMMA RemoveAtFacts ==
    ASSUME NEW S, NEW s \in Seq(S), NEW i \in 1..Len(s)
    PROVE  /\ RemoveAt(s, i) \in Seq(S) /\ Len(RemoveAt(s, i)) = Len(s) - 1
           /\ \A j \in 1..(Len(s) - 1) : RemoveAt(s, i)[j] = IF j < i THEN s[j] ELSE s[j + 1]
<1>1. Len(s) \in Nat /\ i \in Nat \ {0} /\ i <= Len(s) /\ \A j \in 1..Len(s) : s[j] \in S
    BY LenProperties, ElementOfSeq
<1>2. PICK a, b : a = SubSeq(s, 1, i - 1) /\ b = SubSeq(s, i + 1, Len(s))
    OBVIOUS
<1>3. /\ a \in Seq(S) /\ Len(a) = IF 1 <= i - 1 THEN i - 1 - 1 + 1 ELSE 0
      /\ \A j \in 1..(i - 1 - 1 + 1) : a[j] = s[1 + j - 1]
  <2>1. \A j \in 1..(i - 1) : s[j] \in S
    BY <1>1
  <2> QED BY <1>1, <1>2, <2>1, SubSeqProperties
<1>4. /\ b \in Seq(S) /\ Len(b) = IF i + 1 <= Len(s) THEN Len(s) - (i + 1) + 1 ELSE 0
      /\ \A j \in 1..(Len(s) - (i + 1) + 1) : b[j] = s[i + 1 + j - 1]
  <2>1. \A j \in (i + 1)..Len(s) : s[j] \in S
    BY <1>1
  <2> QED BY <1>1, <1>2, <2>1, SubSeqProperties
<1>5. Len(a) = i - 1 /\ \A j \in 1..(i - 1) : a[j] = s[j]
    BY <1>1, <1>3
<1>6. Len(b) = Len(s) - i /\ \A j \in 1..(Len(s) - i) : b[j] = s[i + j]
    BY <1>1, <1>4
<1>7. /\ a \o b \in Seq(S) /\ Len(a \o b) = Len(a) + Len(b)
      /\ \A j \in 1..(Len(a) + Len(b)) :
            (a \o b)[j] = IF j <= Len(a) THEN a[j] ELSE b[j - Len(a)]
    BY <1>3, <1>4, ConcatProperties
<1>8. Len(a \o b) = Len(s) - 1
    BY <1>1, <1>5, <1>6, <1>7
<1>9. ASSUME NEW j \in 1..(Len(s) - 1)
      PROVE  (a \o b)[j] = IF j < i THEN s[j] ELSE s[j + 1]
  <2>1. (a \o b)[j] = IF j <= i - 1 THEN a[j] ELSE b[j - (i - 1)]
    BY <1>1, <1>5, <1>6, <1>7
  <2>2. CASE j < i
    BY <1>1, <1>5, <2>1, <2>2
  <2>3. CASE j >= i
    <3>1. j - (i - 1) \in 1..(Len(s) - i) /\ i + (j - (i - 1)) = j + 1
      BY <1>1, <2>3
    <3> QED BY <1>1, <1>6, <2>1, <2>3, <3>1
  <2>4. j < i \/ j >= i
    BY <1>1
  <2> QED BY <2>2, <2>3, <2>4
<1> QED BY <1>2, <1>7, <1>8, <1>9 DEF RemoveAt

-----------------------------------------------------------------------------
(* The drill.                                                              *)

(* The steps of a drill are its phases, and there are four resources.      *)
LEMMA StepFacts ==
    /\ DOMAIN Steps = 1..9 /\ Len(Steps) = 9 /\ Steps[9] = "verify"
    /\ \A i \in 1..9 : Steps[i] \in Phases /\ Steps[i] \notin {"idle", "cleanup"}
    /\ \A i \in 1..9 : Steps[i] # "verify" => i + 1 \in 1..9
    /\ "idle" \notin Phases /\ "cleanup" \notin Phases
    /\ Len(CleanupOrder) = 4
    /\ Creates = {CleanupOrder[k] : k \in 1..4}
<1>1. DOMAIN Steps = 1..9 /\ Len(Steps) = 9 /\ Steps[9] = "verify"
    BY DEF Steps
<1>2. \A i \in 1..9 : Steps[i] \notin {"idle", "cleanup"}
    BY DEF Steps
<1>3. \A i \in 1..9 : Steps[i] # "verify" => i + 1 \in 1..9
    BY <1>1
<1>4. Len(CleanupOrder) = 4 /\ Creates = {CleanupOrder[k] : k \in 1..4}
  <2>1. /\ CleanupOrder[1] = "source_container" /\ CleanupOrder[2] = "restore_container"
        /\ CleanupOrder[3] = "source_volume" /\ CleanupOrder[4] = "restore_volume"
        /\ Len(CleanupOrder) = 4
    BY DEF CleanupOrder
  <2>2. 1..4 = {1, 2, 3, 4}
    OBVIOUS
  <2> QED BY <2>1, <2>2 DEF Creates
<1> QED BY <1>1, <1>2, <1>3, <1>4 DEF Phases

(* The first drill has not begun.                                          *)
LEMMA DrillInvInit == DrillInit => DrillInv
<1> SUFFICES ASSUME DrillInit PROVE DrillInv
    OBVIOUS
<1>1. DrillStateOK
    BY DEF DrillInit, DrillStateOK, Nothing, Matching
<1>2. SweptIsGone /\ ReportIsOld /\ PassIsProved /\ CleanedMeansGone
    BY DEF DrillInit, SweptIsGone, ReportIsOld, PassIsProved, CleanedMeansGone
<1> QED BY <1>1, <1>2 DEF DrillInv

(* A drill begins.                                                         *)
LEMMA BeginKeeps == ASSUME DrillInv, Begin PROVE DrillInv'
<1>1. Steps[1] \in Phases /\ Steps[1] \notin {"idle", "cleanup"}
    BY StepFacts
<1>2. DrillStateOK'
    BY <1>1 DEF DrillInv, DrillStateOK, Begin, Nothing, Matching
<1>3. SweptIsGone' /\ ReportIsOld'
    BY <1>1 DEF DrillInv, DrillStateOK, SweptIsGone, ReportIsOld, Begin
<1>4. PassIsProved' /\ CleanedMeansGone'
    BY DEF DrillInv, PassIsProved, CleanedMeansGone, Begin
<1> QED BY <1>2, <1>3, <1>4 DEF DrillInv

(* New resources belong to the drill under way, not to the one reported.   *)
LEMMA CreationKeepsReport ==
    ASSUME DrillInv, phase # "idle", NEW names,
           \/ resources' = resources
           \/ resources' = resources \cup (names \X {drill}),
           UNCHANGED <<report, unseen>>
    PROVE  CleanedMeansGone'
<1>1. report # NoReport => report.drill # drill
    BY DEF DrillInv, DrillStateOK, ReportIsOld
<1> QED BY <1>1 DEF DrillInv, CleanedMeansGone

(* A command of the drill succeeds.                                        *)
LEMMA StepDoneKeeps ==
    ASSUME DrillInv, NEW i \in DOMAIN Steps, StepDone(i) PROVE DrillInv'
<1>1. /\ i \in 1..9 /\ phase = Steps[i] /\ phase \notin {"idle", "cleanup"}
      /\ phase' \in Phases /\ phase' \notin {"idle", "cleanup"}
    BY StepFacts DEF StepDone, StepAt
<1>2. DrillStateOK'
    BY <1>1 DEF DrillInv, DrillStateOK, StepDone, Nothing, Matching
<1>3. SweptIsGone' /\ ReportIsOld'
    BY <1>1 DEF DrillInv, SweptIsGone, ReportIsOld, StepDone
<1>4. PassIsProved'
    BY DEF DrillInv, PassIsProved, StepDone
<1>5. CleanedMeansGone'
    BY <1>1, CreationKeepsReport DEF StepDone
<1> QED BY <1>2, <1>3, <1>4, <1>5 DEF DrillInv

(* A command of the drill fails.                                           *)
LEMMA StepFailedKeeps ==
    ASSUME DrillInv, NEW i \in DOMAIN Steps, StepFailed(i) PROVE DrillInv'
<1>1. i \in 1..9 /\ phase = Steps[i] /\ phase \notin {"idle", "cleanup"} /\ phase' = "cleanup"
    BY StepFacts DEF StepFailed, StepAt
<1>2. DrillStateOK'
    BY <1>1 DEF DrillInv, DrillStateOK, StepFailed, Nothing, Matching
<1>3. SweptIsGone' /\ ReportIsOld'
  <2>1. swept' = Nothing
    BY <1>1 DEF DrillInv, DrillStateOK, StepFailed
  <2>2. 1..swept'.done = {}
    BY <2>1 DEF Nothing
  <2> QED BY <1>1, <2>2 DEF DrillInv, SweptIsGone, ReportIsOld, StepFailed
<1>4. PassIsProved'
    BY DEF DrillInv, PassIsProved, StepFailed
<1>5. CleanedMeansGone'
    BY <1>1, CreationKeepsReport DEF StepFailed
<1> QED BY <1>2, <1>3, <1>4, <1>5 DEF DrillInv

(* The copy is verified: "ok" is set only for a drill that proved it.      *)
LEMMA VerifyCopyKeeps == ASSUME DrillInv, VerifyCopy PROVE DrillInv'
<1>1. phase = "verify" /\ phase' = "cleanup"
    BY StepFacts DEF VerifyCopy, StepAt
<1>2. swept' = Nothing /\ UNCHANGED <<drill, swept>>
    BY <1>1 DEF DrillInv, DrillStateOK, VerifyCopy
<1>3. ok' => drill \in proved'
    BY DEF DrillInv, DrillStateOK, VerifyCopy, Verified
<1>4. DrillStateOK'
    BY <1>1, <1>2, <1>3 DEF DrillInv, DrillStateOK, VerifyCopy, Nothing
<1>5. 1..swept'.done = {}
    BY <1>2 DEF Nothing
<1>6. SweptIsGone' /\ ReportIsOld'
    BY <1>1, <1>5 DEF DrillInv, SweptIsGone, ReportIsOld, VerifyCopy
<1>7. PassIsProved' /\ CleanedMeansGone'
    BY DEF DrillInv, PassIsProved, CleanedMeansGone, VerifyCopy
<1> QED BY <1>4, <1>6, <1>7 DEF DrillInv

(* One resource is swept: the verdict stays clean only if it is gone.      *)
LEMMA SweepKeeps == ASSUME DrillInv, Sweep PROVE DrillInv'
<1>1. /\ phase = "cleanup" /\ swept.done \in 0..3 /\ swept.clean \in BOOLEAN
      /\ drill \in Nat
      /\ UNCHANGED <<drill, phase, copy, ok, report, proved>>
    BY StepFacts DEF DrillInv, DrillStateOK, Sweep
<1>2. PICK r : r = <<CleanupOrder[swept.done + 1], drill>>
    OBVIOUS
<1>3. PICK removed \in BOOLEAN :
          /\ resources' = IF removed THEN resources \ {r} ELSE resources
          /\ swept' = [done |-> swept.done + 1,
                       clean |-> swept.clean /\ ~(docker = "up" /\ r \in resources /\ ~removed)]
          /\ unseen' = IF docker = "up" THEN unseen ELSE unseen \cup {drill}
    BY <1>2 DEF Sweep
<1>4. DrillStateOK'
    BY <1>1, <1>3 DEF DrillInv, DrillStateOK
<1>5. SweptIsGone'
  <2> SUFFICES ASSUME swept'.clean, drill \notin unseen', NEW k \in 1..swept'.done
               PROVE  <<CleanupOrder[k], drill>> \notin resources'
    BY <1>1 DEF SweptIsGone
  <2>1. docker = "up" /\ drill \notin unseen /\ swept.clean /\ (r \in resources => removed)
    BY <1>1, <1>3
  <2>2. r \notin resources'
    BY <1>3, <2>1
  <2>3. k \in 1..swept.done \/ k = swept.done + 1
    BY <1>1, <1>3
  <2>4. CASE k \in 1..swept.done
    BY <1>1, <1>3, <2>1, <2>4 DEF DrillInv, SweptIsGone
  <2> QED BY <1>2, <2>2, <2>3, <2>4
<1>6. ReportIsOld' /\ PassIsProved'
    BY <1>1 DEF DrillInv, ReportIsOld, PassIsProved
<1>7. CleanedMeansGone'
    BY <1>1, <1>3 DEF DrillInv, CleanedMeansGone
<1> QED BY <1>4, <1>5, <1>6, <1>7 DEF DrillInv

(* The process ends without a new report.                                  *)
LEMMA OverKeeps ==
    ASSUME DrillInv, Over, UNCHANGED <<drill, resources, report, proved, unseen>>
    PROVE  DrillInv'
<1>1. DrillStateOK'
    BY DEF DrillInv, DrillStateOK, Over, Nothing, Matching
<1>2. SweptIsGone' /\ ReportIsOld'
    BY DEF DrillInv, SweptIsGone, ReportIsOld, Over
<1>3. PassIsProved' /\ CleanedMeansGone'
    BY DEF DrillInv, PassIsProved, CleanedMeansGone
<1> QED BY <1>1, <1>2, <1>3 DEF DrillInv

(* The report is written: all four resources were swept.                   *)
LEMMA WriteReportKeeps == ASSUME DrillInv, WriteReport PROVE DrillInv'
<1>1. /\ phase = "cleanup" /\ swept.done = 4 /\ drill \in Nat /\ Over
      /\ UNCHANGED <<drill, resources, proved, unseen>>
    BY StepFacts DEF DrillInv, DrillStateOK, WriteReport
<1>2. /\ report'.drill = drill /\ report'.cleaned = swept.clean
      /\ report'.status = IF ok /\ swept.clean THEN "PASS" ELSE "FAIL"
    BY DEF WriteReport
<1>3. DrillStateOK'
    BY <1>1 DEF DrillInv, DrillStateOK, Over, Nothing, Matching
<1>4. SweptIsGone' /\ ReportIsOld'
    BY <1>1, <1>2 DEF SweptIsGone, ReportIsOld, Over
<1>5. PassIsProved'
    BY <1>1, <1>2 DEF DrillInv, DrillStateOK, PassIsProved
<1>6. CleanedMeansGone'
  <2> SUFFICES ASSUME swept.clean, drill \notin unseen, NEW name \in Creates
               PROVE  <<name, drill>> \notin resources
    BY <1>1, <1>2 DEF CleanedMeansGone
  <2>1. PICK k \in 1..4 : name = CleanupOrder[k]
    BY StepFacts
  <2> QED BY <1>1, <2>1 DEF DrillInv, SweptIsGone
<1> QED BY <1>3, <1>4, <1>5, <1>6 DEF DrillInv

(* Steps that leave the drill alone, or only docker's state.               *)
LEMMA DockerKeeps ==
    ASSUME DrillInv,
           UNCHANGED <<drill, phase, resources, copy, ok, swept, report, proved, unseen>>
    PROVE  DrillInv'
BY DEF DrillInv, DrillStateOK, SweptIsGone, ReportIsOld, PassIsProved, CleanedMeansGone,
       Nothing, Phases

(* Every step keeps the drill's invariant.                                 *)
LEMMA DrillKeeps == ASSUME DrillInv, [DrillNext]_drillVars PROVE DrillInv'
<1>1. CASE UNCHANGED drillVars
    BY <1>1, DockerKeeps DEF drillVars
<1>2. CASE Begin
    BY <1>2, BeginKeeps
<1>3. CASE DrillStep
  <2>1. ASSUME NEW i \in DOMAIN Steps, StepDone(i) PROVE DrillInv'
    BY <2>1, StepDoneKeeps
  <2>2. ASSUME NEW i \in DOMAIN Steps, StepFailed(i) PROVE DrillInv'
    BY <2>2, StepFailedKeeps
  <2>3. CASE SweepRaises
    BY <2>3, OverKeeps DEF SweepRaises
  <2> QED BY <1>3, <2>1, <2>2, <2>3, VerifyCopyKeeps, SweepKeeps, WriteReportKeeps
          DEF DrillStep
<1>4. CASE Kill
    BY <1>4, OverKeeps DEF Kill
<1>5. CASE Outage \/ Recovers
    BY <1>5, DockerKeeps DEF Outage, Recovers
<1> QED BY <1>1, <1>2, <1>3, <1>4, <1>5 DEF DrillNext

(* What a drill's report says of the copy and of the cleanup is true,      *)
(* whatever fails or is killed, in this drill or an earlier one            *)
(* (run_restore_drill).                                                    *)
THEOREM ReportsAreTrue == DrillSpec => []ReportIsTrue
<1>1. DrillInit => DrillInv
    BY DrillInvInit
<1>2. DrillInv /\ [DrillNext]_drillVars => DrillInv'
    BY DrillKeeps
<1>3. DrillInv => ReportIsTrue
    BY DEF DrillInv, ReportIsTrue
<1> QED BY <1>1, <1>2, <1>3, PTL DEF DrillSpec

-----------------------------------------------------------------------------
(* The ledger.                                                             *)

(* Every line has the place, the link and the hash of an entry a command   *)
(* wrote, and some session.                                                *)
LEMMA LineFacts ==
    ASSUME WrittenOK
    PROVE  /\ Len(ledger) \in Nat /\ DOMAIN ledger = 1..Len(ledger)
           /\ ledger # <<>> <=> Len(ledger) # 0
           /\ \A i \in 1..Len(ledger) :
                /\ ledger[i] = [sequence |-> ledger[i].sequence, previous |-> ledger[i].previous,
                                session |-> ledger[i].session, hash |-> ledger[i].hash]
                /\ ledger[i].session \in Sessions
                /\ ledger[i].sequence \in Nat
                /\ \E w \in written :
                      /\ ledger[i].sequence = w.sequence /\ ledger[i].previous = w.previous
                      /\ ledger[i].hash = w.hash
<1>1. Len(ledger) \in Nat /\ DOMAIN ledger = 1..Len(ledger) /\ ledger # <<>> <=> Len(ledger) # 0
    BY LenProperties, EmptySeq DEF WrittenOK
<1> SUFFICES ASSUME NEW i \in 1..Len(ledger)
             PROVE  /\ ledger[i] = [sequence |-> ledger[i].sequence,
                                    previous |-> ledger[i].previous,
                                    session |-> ledger[i].session, hash |-> ledger[i].hash]
                    /\ ledger[i].session \in Sessions
                    /\ ledger[i].sequence \in Nat
                    /\ \E w \in written :
                          /\ ledger[i].sequence = w.sequence
                          /\ ledger[i].previous = w.previous
                          /\ ledger[i].hash = w.hash
    BY <1>1
<1>2. ledger[i] \in Lines
    BY ElementOfSeq DEF WrittenOK
<1>3. PICK w \in written, s \in Sessions :
          ledger[i] = [sequence |-> w.sequence, previous |-> w.previous,
                       session |-> s, hash |-> w.hash]
    BY <1>2 DEF Lines
<1>4. w.sequence \in Nat
    BY DEF WrittenOK
<1> QED BY <1>3, <1>4

(* The lines of a ledger that verifies are entries that commands wrote:    *)
(* an edited session would not match its hash.                             *)
LEMMA VerifiedIsWritten ==
    ASSUME WrittenOK, Verify(ledger), NEW i \in DOMAIN ledger
    PROVE  ledger[i] \in written /\ ledger[i].sequence = i
<1>1. PICK w \in written :
          /\ ledger[i].sequence = w.sequence /\ ledger[i].previous = w.previous
          /\ ledger[i].hash = w.hash
    BY LineFacts
<1>2. /\ ledger[i].sequence = i
      /\ ledger[i].hash = <<i, ledger[i].previous, ledger[i].session>>
    BY DEF Verify, EntryHash
<1>3. w = [sequence |-> w.sequence, previous |-> w.previous, session |-> w.session,
           hash |-> <<w.sequence, w.previous, w.session>>]
    BY DEF WrittenOK, Sound, Entry, EntryHash
<1>4. w.hash = <<w.sequence, w.previous, w.session>>
    BY <1>3
<1>5. ledger[i].session = w.session
  <2>1. <<i, ledger[i].previous, ledger[i].session>> = <<w.sequence, w.previous, w.session>>
    BY <1>1, <1>2, <1>4, Zenon
  <2> QED BY <2>1
<1>6. ledger[i] = [sequence |-> ledger[i].sequence, previous |-> ledger[i].previous,
                   session |-> ledger[i].session, hash |-> ledger[i].hash]
    BY LineFacts
<1>7. ledger[i] = w
    BY <1>1, <1>3, <1>4, <1>5, <1>6
<1> QED BY <1>2, <1>7

(* The next entry keeps the chain, the lines and the uncut end.            *)
LEMMA AppendKeeps ==
    ASSUME WrittenOK, UncutOK, Verify(ledger), tail # "glued", cut' = cut,
           NEW r, Extends(r), r.session \in Sessions,
           ledger' = Append(ledger, r.entry), written' = written \cup {r.entry}
    PROVE  /\ WrittenOK' /\ UncutOK' /\ Verify(ledger)'
           /\ ledger' # <<>>
           /\ \A i \in DOMAIN ledger : i \in DOMAIN ledger' /\ ledger'[i] = ledger[i]
           /\ \E i \in DOMAIN ledger' : ledger'[i].session = r.session
<1>1. PICK n : n = Len(ledger)
    OBVIOUS
<1>2. PICK p : p = IF n = 0 THEN "GENESIS" ELSE ledger[n].hash
    OBVIOUS
<1>3. PICK e : e = r.entry
    OBVIOUS
<1>4. /\ e = [sequence |-> n + 1, previous |-> p, session |-> r.session,
              hash |-> <<n + 1, p, r.session>>]
      /\ \A i \in DOMAIN ledger : ledger[i].session.id # r.session.id
    BY <1>1, <1>2, <1>3 DEF Extends, Entry, EntryHash
<1>5. n \in Nat /\ DOMAIN ledger = 1..n
    BY <1>1, LineFacts
<1>6. Lines \subseteq Lines' /\ e \in Lines'
  <2>1. \A w \in written : w \in written'
    OBVIOUS
  <2>2. Lines \subseteq Lines'
    BY <2>1 DEF Lines
  <2>3. e \in written' /\ r.session \in Sessions
    BY <1>3
  <2>4. e = [sequence |-> e.sequence, previous |-> e.previous, session |-> r.session,
             hash |-> e.hash]
    BY <1>4
  <2>5. e \in Lines'
    BY <2>3, <2>4 DEF Lines
  <2> QED BY <2>2, <2>5
<1>7. /\ ledger' \in Seq(Lines') /\ Len(ledger') = n + 1 /\ ledger' # <<>>
      /\ \A i \in 1..n : ledger'[i] = ledger[i]
      /\ ledger'[n + 1] = e
  <2>1. ledger \in Seq(Lines')
    BY <1>6, SeqMonotonic DEF WrittenOK
  <2> QED BY <1>1, <1>3, <1>6, <2>1, AppendProperties
<1>8. DOMAIN ledger' = 1..(n + 1)
    BY <1>7, LenProperties
<1>9. WrittenOK'
  <2>1. Sound(e) /\ e.sequence \in Nat \ {0} /\ e.session = r.session
    BY <1>4, <1>5 DEF Sound, Entry, EntryHash
  <2>2. ASSUME NEW w \in written' PROVE (Sound(w) /\ w.sequence \in Nat \ {0} /\ w.session \in Sessions)'
    <3>1. w \in written \/ w = e
      BY <1>3
    <3>2. Sound(w) /\ w.sequence \in Nat \ {0} /\ w.session \in Sessions
      BY <2>1, <3>1 DEF WrittenOK
    <3> QED BY <3>2 DEF Sound
  <2> QED BY <1>7, <2>2 DEF WrittenOK
<1>10. Verify(ledger)'
  <2>1. ASSUME NEW i \in DOMAIN ledger'
        PROVE  /\ ledger'[i].sequence = i
               /\ ledger'[i].previous = IF i = 1 THEN "GENESIS" ELSE ledger'[i - 1].hash
               /\ ledger'[i].hash = EntryHash(i, ledger'[i].previous, ledger'[i].session)
    <3>1. CASE i \in 1..n
      <4>1. i = 1 \/ i - 1 \in 1..n
        BY <1>5, <3>1
      <4>2. ledger'[i] = ledger[i] /\ (i # 1 => ledger'[i - 1] = ledger[i - 1])
        BY <1>7, <3>1, <4>1
      <4> QED BY <1>5, <3>1, <4>2 DEF Verify, EntryHash
    <3>2. CASE i = n + 1
      <4>1. ledger'[i] = e /\ (i # 1 => n # 0 /\ i - 1 = n /\ n \in 1..n)
        BY <1>5, <1>7, <3>2
      <4>2. p = IF i = 1 THEN "GENESIS" ELSE ledger'[i - 1].hash
        BY <1>2, <1>5, <1>7, <3>2, <4>1
      <4> QED BY <1>4, <3>2, <4>1, <4>2 DEF EntryHash
    <3> QED BY <1>5, <1>8, <3>1, <3>2
  <2>2. ASSUME NEW i \in DOMAIN ledger', NEW j \in DOMAIN ledger',
               ledger'[i].session.id = ledger'[j].session.id
        PROVE  i = j
    <3>1. (i \in 1..n \/ i = n + 1) /\ (j \in 1..n \/ j = n + 1)
      BY <1>5, <1>8
    <3>2. CASE i \in 1..n /\ j \in 1..n
      BY <1>5, <1>7, <2>2, <3>2 DEF Verify
    <3>3. e.session = r.session
      BY <1>4
    <3> QED BY <1>4, <1>5, <1>7, <2>2, <3>1, <3>2, <3>3
  <2> QED BY <2>1, <2>2 DEF Verify
<1>11. UncutOK'
  <2>1. CASE cut
    BY <2>1 DEF UncutOK
  <2>2. CASE ~cut
    <3>1. ASSUME NEW w \in written PROVE w.sequence \in Nat /\ w.sequence <= n
      <4>1. ledger # <<>> /\ w.sequence <= ledger[n].sequence /\ w.sequence \in Nat
        BY <1>1, <2>2 DEF UncutOK, WrittenOK
      <4>2. n \in DOMAIN ledger
        BY <1>1, <1>5, <4>1, LineFacts
      <4> QED BY <4>1, <4>2 DEF Verify
    <3>2. e.sequence = n + 1
      BY <1>4
    <3>3. ASSUME NEW v \in written', NEW w \in written', v.sequence = w.sequence PROVE v = w
      <4>1. (v \in written \/ v = e) /\ (w \in written \/ w = e)
        BY <1>3
      <4>2. CASE v \in written /\ w \in written
        BY <2>2, <3>3, <4>2 DEF UncutOK
      <4> QED BY <1>5, <3>1, <3>2, <3>3, <4>1, <4>2
    <3>4. ASSUME NEW w \in written' PROVE w.sequence <= ledger'[Len(ledger')].sequence
      <4>1. w \in written \/ w = e
        BY <1>3
      <4> QED BY <1>5, <1>7, <3>1, <3>2, <4>1
    <3> QED BY <1>7, <2>2, <3>3, <3>4 DEF UncutOK
  <2> QED BY <2>1, <2>2 DEF UncutOK
<1>12. /\ \A i \in DOMAIN ledger : i \in DOMAIN ledger' /\ ledger'[i] = ledger[i]
       /\ \E i \in DOMAIN ledger' : ledger'[i].session = r.session
  <2>1. e.session = r.session
    BY <1>4
  <2> QED BY <1>5, <1>7, <1>8, <2>1
<1> QED BY <1>7, <1>9, <1>10, <1>11, <1>12

(* Losing the last line to a glued one leaves a chain that verifies.       *)
LEMMA FrontKeeps ==
    ASSUME WrittenOK, UncutOK, Verify(ledger), ledger # <<>>, ledger' = Front(ledger),
           tail' = "glued", UNCHANGED <<written, cut>>
    PROVE  WrittenOK' /\ UncutOK' /\ Verify(ledger)'
<1>1. PICK n : n = Len(ledger) - 1
    OBVIOUS
<1>2. n \in Nat /\ DOMAIN ledger = 1..(n + 1)
    BY <1>1, LineFacts
<1>3. /\ ledger' \in Seq(Lines) /\ Len(ledger') = n
      /\ \A i \in 1..n : ledger'[i] = ledger[i]
    BY <1>1, FrontFacts DEF WrittenOK
<1>4. DOMAIN ledger' = 1..n
    BY <1>3, LenProperties
<1>5. Lines' = Lines
    BY DEF Lines
<1>6. WrittenOK'
    BY <1>3, <1>5 DEF WrittenOK, Sound
<1>7. UncutOK'
    BY DEF UncutOK
<1>8. Verify(ledger)'
  <2>1. ASSUME NEW i \in DOMAIN ledger'
        PROVE  /\ ledger'[i].sequence = i
               /\ ledger'[i].previous = IF i = 1 THEN "GENESIS" ELSE ledger'[i - 1].hash
               /\ ledger'[i].hash = EntryHash(i, ledger'[i].previous, ledger'[i].session)
    <3>1. i \in 1..n /\ (i = 1 \/ i - 1 \in 1..n)
      BY <1>2, <1>4
    <3>2. ledger'[i] = ledger[i] /\ (i # 1 => ledger'[i - 1] = ledger[i - 1])
      BY <1>3, <3>1
    <3> QED BY <1>2, <3>1, <3>2 DEF Verify, EntryHash
  <2>2. ASSUME NEW i \in DOMAIN ledger', NEW j \in DOMAIN ledger',
               ledger'[i].session.id = ledger'[j].session.id
        PROVE  i = j
    BY <1>2, <1>3, <1>4, <2>2 DEF Verify
  <2> QED BY <2>1, <2>2 DEF Verify
<1> QED BY <1>6, <1>7, <1>8

(* An edit of a session leaves every line with its place, link and hash.   *)
LEMMA EditedSessionKeeps ==
    ASSUME WrittenOK, UncutOK, NEW i \in DOMAIN ledger, NEW s \in Sessions,
           ledger' = [ledger EXCEPT ![i].session = s],
           UNCHANGED <<written, cut, tail>>
    PROVE  WrittenOK' /\ UncutOK'
<1>1. i \in 1..Len(ledger) /\ Len(ledger) \in Nat
    BY LineFacts
<1>2. PICK e : e = [ledger[i] EXCEPT !.session = s]
    OBVIOUS
<1>3. e \in Lines /\ e.sequence = ledger[i].sequence
  <2>1. PICK w \in written, t \in Sessions :
            ledger[i] = [sequence |-> w.sequence, previous |-> w.previous,
                         session |-> t, hash |-> w.hash]
    BY <1>1, ElementOfSeq DEF WrittenOK, Lines
  <2>2. e = [sequence |-> w.sequence, previous |-> w.previous, session |-> s, hash |-> w.hash]
    BY <1>2, <2>1
  <2> QED BY <2>1, <2>2 DEF Lines
<1>4. ledger' = [ledger EXCEPT ![i] = e]
    BY <1>2
<1>5. /\ ledger' \in Seq(Lines) /\ Len(ledger') = Len(ledger)
      /\ \A j \in 1..Len(ledger) : ledger'[j] = IF j = i THEN e ELSE ledger[j]
    BY <1>1, <1>3, <1>4, ExceptSeq, SMTT(30) DEF WrittenOK
<1>6. Lines' = Lines
    BY DEF Lines
<1>7. WrittenOK'
    BY <1>5, <1>6 DEF WrittenOK, Sound
<1>8. /\ ledger # <<>> /\ ledger' # <<>>
      /\ ledger'[Len(ledger')].sequence = ledger[Len(ledger)].sequence
  <2>1. Len(ledger) \in 1..Len(ledger)
    BY <1>1
  <2>2. ledger # <<>> /\ ledger' # <<>>
    BY <1>1, <1>5, EmptySeq
  <2> QED BY <1>3, <1>5, <2>1, <2>2
<1>9. UncutOK'
    BY <1>8 DEF UncutOK
<1> QED BY <1>7, <1>9

(* Removing a line that is not the last keeps the end of the ledger.       *)
LEMMA RemovalKeeps ==
    ASSUME WrittenOK, UncutOK, NEW i \in DOMAIN ledger, ledger' = RemoveAt(ledger, i),
           cut' = (cut \/ i = Len(ledger)), UNCHANGED <<written, tail>>
    PROVE  WrittenOK' /\ UncutOK'
<1>1. PICK n : n = Len(ledger)
    OBVIOUS
<1>2. i \in 1..n /\ n \in Nat \ {0}
    BY <1>1, LineFacts
<1>3. /\ ledger' \in Seq(Lines) /\ Len(ledger') = n - 1
      /\ \A j \in 1..(n - 1) : ledger'[j] = IF j < i THEN ledger[j] ELSE ledger[j + 1]
    BY <1>1, <1>2, RemoveAtFacts DEF WrittenOK
<1>4. Lines' = Lines
    BY DEF Lines
<1>5. WrittenOK'
    BY <1>3, <1>4 DEF WrittenOK, Sound
<1>6. CASE i = n
  <2>1. cut' = TRUE
    BY <1>1, <1>6 DEF UncutOK
  <2> QED BY <1>5, <2>1 DEF UncutOK
<1>7. CASE i # n
  <2>1. n - 1 \in 1..(n - 1) /\ ~(n - 1 < i) /\ n - 1 + 1 = n
    BY <1>2, <1>7
  <2>2. ledger'[n - 1] = ledger[n]
    BY <1>3, <2>1
  <2>3. ledger' # <<>> /\ ledger # <<>>
    BY <1>1, <1>2, <1>3, <2>1, EmptySeq
  <2>4. cut' = cut
    BY <1>1, <1>7 DEF UncutOK
  <2>5. UncutOK'
    BY <1>1, <1>3, <2>2, <2>3, <2>4 DEF UncutOK
  <2> QED BY <1>5, <2>5
<1> QED BY <1>6, <1>7

-----------------------------------------------------------------------------
(* The commands and the gate.                                              *)

(* A command knows what it knew while the file and its lock stay.          *)
LEMMA CommandKept ==
    ASSUME NEW d, CommandOK(d), rec'[d] = rec[d], UNCHANGED <<ledger, tail, lock>>
    PROVE  CommandOK(d)'
BY DEF CommandOK, Extends

(* Commands that wait or are idle rely on nothing but their session.       *)
LEMMA OutsiderKept ==
    ASSUME NEW d, CommandOK(d), rec'[d] = rec[d], lock # d, lock' # d
    PROVE  CommandOK(d)'
BY DEF CommandOK, Inside

(* A step of one command that holds the lock, takes or releases it.        *)
LEMMA OthersKept ==
    ASSUME CommandsOK, NEW c \in Recorders, NEW r, rec' = [rec EXCEPT ![c] = r],
           lock \in {c, None}, lock' \in {c, None}, CommandOK(c)'
    PROVE  CommandsOK'
<1>1. rec' = [d \in Recorders |-> rec'[d]] /\ \A d \in Recorders \ {c} : rec'[d] = rec[d]
    BY DEF CommandsOK
<1>2. None \notin Recorders
    BY ReadinessAssumption
<1>3. \A d \in Recorders \ {c} : CommandOK(d)'
    BY <1>1, <1>2, OutsiderKept DEF CommandsOK
<1> QED BY <1>1, <1>3 DEF CommandsOK

(* A step of one command that leaves the file and the lock alone.          *)
LEMMA BystandersKept ==
    ASSUME CommandsOK, NEW c \in Recorders, NEW r, rec' = [rec EXCEPT ![c] = r],
           UNCHANGED <<ledger, tail, lock>>, CommandOK(c)'
    PROVE  CommandsOK'
<1>1. rec' = [d \in Recorders |-> rec'[d]] /\ \A d \in Recorders \ {c} : rec'[d] = rec[d]
    BY DEF CommandsOK
<1>2. \A d \in Recorders \ {c} : CommandOK(d)'
    BY <1>1, CommandKept DEF CommandsOK
<1> QED BY <1>1, <1>2 DEF CommandsOK

(* Steps that leave the file alone keep what is said of it.                *)
LEMMA FileKept ==
    ASSUME WrittenOK, UncutOK, ChainVerifies, RecordedIsKept,
           UNCHANGED <<ledger, tail, written, acked, cut, edits>>
    PROVE  WrittenOK' /\ UncutOK' /\ ChainVerifies' /\ RecordedIsKept'
<1>1. Lines' = Lines
    BY DEF Lines
<1>2. WrittenOK'
    BY <1>1 DEF WrittenOK, Sound
<1> QED BY <1>2 DEF UncutOK, ChainVerifies, RecordedIsKept, Verify

(* A command is started.                                                   *)
LEMMA AskKeeps ==
    ASSUME ReadinessInv, NEW c \in Recorders, NEW s \in Sessions, Ask(c, s)
    PROVE  ReadinessInv'
<1>1. /\ UNCHANGED <<ledger, tail, lock, written, acked, now, manifest, gate, cut, edits>>
      /\ rec[c] = Idle
    BY DEF Ask, Untouched
<1>3. rec' = [rec EXCEPT ![c] = [step |-> "lock", session |-> s, entry |-> None]]
  <2>1. PICK a : a = [Idle EXCEPT !.step = "lock"]
    OBVIOUS
  <2>2. a = [step |-> "lock", session |-> None, entry |-> None]
    BY <2>1 DEF Idle
  <2>3. [a EXCEPT !.session = s] = [step |-> "lock", session |-> s, entry |-> None]
    BY <2>2
  <2>4. rec' = [rec EXCEPT ![c] = [a EXCEPT !.session = s]]
    BY <2>1 DEF Ask
  <2> QED BY <2>3, <2>4
<1>4. rec'[c] = [step |-> "lock", session |-> s, entry |-> None]
    BY <1>3 DEF ReadinessInv, CommandsOK
<1>5. rec[c].step = "idle" /\ lock # c
    BY <1>1 DEF ReadinessInv, CommandsOK, CommandOK, Idle, Inside
<1>6. CommandOK(c)'
    BY <1>1, <1>4, <1>5 DEF CommandOK, Inside
<1>7. CommandsOK'
    BY <1>1, <1>3, <1>6, BystandersKept DEF ReadinessInv
<1>8. FileOK'
    BY <1>1 DEF ReadinessInv, FileOK
<1> QED BY <1>1, <1>7, <1>8, FileKept DEF ReadinessInv

(* A command takes the lock.                                               *)
LEMMA LockKeeps ==
    ASSUME ReadinessInv, NEW c \in Recorders, Lock(c)
    PROVE  ReadinessInv'
<1>1. UNCHANGED <<ledger, tail, written, acked, now, manifest, gate, cut, edits>>
    BY DEF Lock, Untouched
<1>2. PICK r : r = [rec[c] EXCEPT !.step = "read"]
    OBVIOUS
<1>3. /\ rec' = [rec EXCEPT ![c] = r] /\ rec'[c] = r
      /\ rec[c].step = "lock" /\ lock = None /\ lock' = c
    BY <1>2 DEF Lock, ReadinessInv, CommandsOK
<1>4. /\ r = [step |-> "read", session |-> rec[c].session, entry |-> rec[c].entry]
      /\ rec[c].session \in Sessions
    BY <1>2, <1>3 DEF ReadinessInv, CommandsOK, CommandOK
<1>5. CommandOK(c)'
    BY <1>1, <1>3, <1>4 DEF CommandOK, Inside
<1>6. CommandsOK'
    BY <1>1, <1>3, <1>5, OthersKept DEF ReadinessInv
<1>7. FileOK'
    BY <1>1 DEF ReadinessInv, FileOK
<1> QED BY <1>1, <1>6, <1>7, FileKept DEF ReadinessInv

(* A command reads the ledger under the lock: it prepares the next entry   *)
(* of a chain that verifies, or gives up.                                  *)
LEMMA ReadLedgerKeeps ==
    ASSUME ReadinessInv, NEW c \in Recorders, ReadLedger(c)
    PROVE  ReadinessInv'
<1>1. UNCHANGED <<ledger, tail, written, acked, now, manifest, gate, cut, edits>>
    BY DEF ReadLedger, Untouched
<1>2. rec[c].step = "read" /\ lock = c /\ rec[c].session \in Sessions /\ c # None
    BY ReadinessAssumption
       DEF ReadLedger, ReadinessInv, CommandsOK, CommandOK, Inside
<1>3. PICK refused : refused = (~Loadable \/ \E i \in DOMAIN ledger :
                                                ledger[i].session.id = rec[c].session.id)
    OBVIOUS
<1>4. PICK e : e = Entry(Len(ledger) + 1,
                         IF Len(ledger) = 0 THEN "GENESIS" ELSE ledger[Len(ledger)].hash,
                         rec[c].session)
    OBVIOUS
<1>5. PICK r : r = IF refused THEN Idle
                   ELSE [step |-> "write", session |-> rec[c].session, entry |-> e]
    OBVIOUS
<1>6. /\ rec' = [rec EXCEPT ![c] = r]
      /\ lock' = IF refused THEN None ELSE lock
    BY <1>3, <1>4, <1>5 DEF ReadLedger
<1>7. rec'[c] = r
    BY <1>6 DEF ReadinessInv, CommandsOK
<1>8. CommandOK(c)'
  <2>1. CASE refused
    BY <1>2, <1>5, <1>6, <1>7, <2>1 DEF CommandOK, Idle, Inside
  <2>2. CASE ~refused
    <3>1. Loadable /\ \A i \in DOMAIN ledger : ledger[i].session.id # rec[c].session.id
      BY <1>3, <2>2
    <3>2. /\ rec'[c].step = "write" /\ rec'[c].session = rec[c].session /\ rec'[c].entry = e
          /\ rec'[c] = [step |-> "write", session |-> rec[c].session, entry |-> e]
      BY <1>5, <1>7, <2>2
    <3>3. Extends(rec'[c])
      BY <1>4, <3>1, <3>2 DEF Extends
    <3>4. Extends(rec[c])'
      BY <1>1, <3>3 DEF Extends
    <3>5. rec'[c].session \in Sessions
      BY <1>2, <3>2
    <3>6. Verify(ledger)' /\ tail' \in {"none", "unterminated"}
      BY <1>1, <3>1 DEF Loadable, Verify
    <3> QED BY <1>2, <1>6, <2>2, <3>2, <3>4, <3>5, <3>6 DEF CommandOK, Inside
  <2> QED BY <1>3, <2>1, <2>2
<1>9. CommandsOK'
    BY <1>1, <1>2, <1>3, <1>6, <1>8, OthersKept DEF ReadinessInv
<1>10. FileOK'
    BY <1>1 DEF ReadinessInv, FileOK
<1> QED BY <1>1, <1>9, <1>10, FileKept DEF ReadinessInv

(* A line begins to reach the file.                                        *)
LEMMA BeginWriteKeeps ==
    ASSUME ReadinessInv, NEW c \in Recorders, BeginWrite(c)
    PROVE  ReadinessInv'
<1>1. UNCHANGED <<lock, written, acked, now, manifest, gate, cut, edits>>
    BY DEF BeginWrite, Untouched
<1>2. PICK r : r = [rec[c] EXCEPT !.step = "flush"]
    OBVIOUS
<1>3. rec' = [rec EXCEPT ![c] = r] /\ rec'[c] = r /\ rec[c].step = "write"
    BY <1>2 DEF BeginWrite, ReadinessInv, CommandsOK
<1>4. /\ r = [step |-> "flush", session |-> rec[c].session, entry |-> rec[c].entry]
      /\ r.step = "flush" /\ r.session = rec[c].session /\ r.entry = rec[c].entry
      /\ rec[c].session \in Sessions /\ lock = c /\ Verify(ledger)
      /\ tail \in {"none", "unterminated"} /\ Extends(rec[c])
    BY <1>2, <1>3 DEF ReadinessInv, CommandsOK, CommandOK, Inside
<1>5. CASE tail = "none"
  <2>1. ledger' = ledger /\ tail' = "partial"
    BY <1>5 DEF BeginWrite
  <2>2. Extends(rec[c])' /\ Verify(ledger)' /\ rec'[c].session \in Sessions
    BY <1>1, <1>3, <1>4, <2>1 DEF Extends, Verify
  <2>3. CommandOK(c)'
    BY <1>1, <1>3, <1>4, <2>1, <2>2 DEF CommandOK, Inside
  <2>4. CommandsOK'
    BY <1>1, <1>3, <1>4, <2>3, OthersKept DEF ReadinessInv
  <2>5. WrittenOK' /\ UncutOK'
    <3>1. Lines' = Lines
      BY <1>1 DEF Lines
    <3>2. WrittenOK'
      BY <1>1, <2>1, <3>1 DEF ReadinessInv, WrittenOK, Sound
    <3> QED BY <1>1, <1>5, <2>1, <3>2 DEF ReadinessInv, UncutOK
  <2>6. ChainVerifies' /\ RecordedIsKept'
    BY <1>1, <1>5, <2>1, <2>2 DEF ReadinessInv, ChainVerifies, RecordedIsKept
  <2>7. FileOK'
    BY <1>1, <2>1 DEF ReadinessInv, FileOK
  <2> QED BY <2>4, <2>5, <2>6, <2>7 DEF ReadinessInv
<1>6. CASE tail = "unterminated"
  <2>1. ledger' = Front(ledger) /\ tail' = "glued" /\ ledger # <<>>
    BY <1>6 DEF BeginWrite, ReadinessInv, FileOK
  <2>2. WrittenOK' /\ UncutOK' /\ Verify(ledger)'
    BY <1>1, <1>4, <2>1, FrontKeeps DEF ReadinessInv
  <2>3. rec'[c].session \in Sessions
    BY <1>3, <1>4
  <2>4. CommandOK(c)'
    BY <1>1, <1>3, <1>4, <2>1, <2>2, <2>3 DEF CommandOK, Inside
  <2>5. CommandsOK'
    BY <1>1, <1>3, <1>4, <2>4, OthersKept DEF ReadinessInv
  <2>6. ChainVerifies' /\ RecordedIsKept'
    BY <2>1, <2>2 DEF ChainVerifies, RecordedIsKept
  <2>7. FileOK'
    BY <1>1, <2>1 DEF ReadinessInv, FileOK
  <2> QED BY <2>2, <2>5, <2>6, <2>7 DEF ReadinessInv
<1> QED BY <1>4, <1>5, <1>6

(* A command that ends is idle, and the lock it held is free.              *)
LEMMA EndedKeeps ==
    ASSUME CommandsOK, NEW c \in Recorders, rec' = [rec EXCEPT ![c] = Idle],
           lock = c, lock' = None
    PROVE  CommandsOK'
<1>1. rec'[c] = Idle /\ c # None
    BY ReadinessAssumption DEF CommandsOK
<1>2. CommandOK(c)'
    BY <1>1 DEF CommandOK, Idle, Inside
<1> QED BY <1>2, OthersKept

(* The rest of the line reaches the file.                                  *)
LEMMA FlushKeeps ==
    ASSUME ReadinessInv, NEW c \in Recorders, Flush(c)
    PROVE  ReadinessInv'
<1>1. /\ UNCHANGED <<now, manifest, gate, cut, edits>>
      /\ rec' = [rec EXCEPT ![c] = Idle] /\ lock' = None
      /\ acked' = acked \cup {rec[c].session}
      /\ rec[c].step = "flush"
    BY DEF Flush, Untouched
<1>2. /\ rec[c].session \in Sessions /\ lock = c /\ Verify(ledger)
      /\ tail \in {"partial", "glued"} /\ (tail = "partial" => Extends(rec[c]))
    BY <1>1 DEF ReadinessInv, CommandsOK, CommandOK, Inside
<1>3. CommandsOK'
    BY <1>1, <1>2, EndedKeeps DEF ReadinessInv
<1>5. CASE tail = "partial"
  <2>1. /\ tail' = "none" /\ ledger' = Append(ledger, rec[c].entry)
        /\ written' = written \cup {rec[c].entry}
    BY <1>5 DEF Flush
  <2>2. /\ WrittenOK' /\ UncutOK' /\ Verify(ledger)'
        /\ \A i \in DOMAIN ledger : i \in DOMAIN ledger' /\ ledger'[i] = ledger[i]
        /\ \E i \in DOMAIN ledger' : ledger'[i].session = rec[c].session
    BY <1>1, <1>2, <1>5, <2>1, AppendKeeps DEF ReadinessInv
  <2>3. ChainVerifies' /\ RecordedIsKept'
    BY <1>1, <1>5, <2>2 DEF ReadinessInv, ChainVerifies, RecordedIsKept
  <2>4. FileOK'
    BY <1>1, <2>1 DEF ReadinessInv, FileOK
  <2> QED BY <1>3, <2>2, <2>3, <2>4 DEF ReadinessInv
<1>6. CASE tail = "glued"
  <2>1. UNCHANGED <<tail, ledger, written>>
    BY <1>6 DEF Flush
  <2>2. WrittenOK' /\ UncutOK'
    <3>1. Lines' = Lines
      BY <2>1 DEF Lines
    <3>2. WrittenOK'
      BY <1>1, <2>1, <3>1 DEF ReadinessInv, WrittenOK, Sound
    <3> QED BY <1>1, <1>6, <2>1, <3>2 DEF ReadinessInv, UncutOK
  <2>3. ChainVerifies' /\ RecordedIsKept'
    BY <1>1, <1>2, <1>6, <2>1 DEF ChainVerifies, RecordedIsKept, Verify
  <2>4. FileOK'
    BY <1>1, <2>1 DEF ReadinessInv, FileOK
  <2> QED BY <1>3, <2>2, <2>3, <2>4 DEF ReadinessInv
<1> QED BY <1>2, <1>5, <1>6

(* A command dies, with nothing more in the file, all but the newline, or  *)
(* the whole line.                                                         *)
LEMMA RecordCrashKeeps ==
    ASSUME ReadinessInv, NEW c \in Recorders, RecordCrash(c)
    PROVE  ReadinessInv'
<1>1. /\ UNCHANGED <<acked, now, manifest, gate, cut, edits>>
      /\ rec' = [rec EXCEPT ![c] = Idle]
      /\ lock' = IF lock = c THEN None ELSE lock
    BY DEF RecordCrash, Untouched
<1>3. CASE UNCHANGED <<ledger, tail, written>>
  <2>1. CommandsOK'
    <3>1. CASE lock = c
      BY <1>1, <3>1, EndedKeeps DEF ReadinessInv
    <3>2. CASE lock # c
      <4>1. rec'[c] = Idle /\ lock' = lock
        BY <1>1, <3>2 DEF ReadinessInv, CommandsOK
      <4>2. CommandOK(c)'
        BY <3>2, <4>1 DEF CommandOK, Idle, Inside
      <4> QED BY <1>1, <1>3, <4>1, <4>2, BystandersKept DEF ReadinessInv
    <3> QED BY <3>1, <3>2
  <2>2. FileOK'
    BY <1>1, <1>3 DEF ReadinessInv, FileOK
  <2> QED BY <1>1, <1>3, <2>1, <2>2, FileKept DEF ReadinessInv
<1>4. CASE /\ rec[c].step = "flush" /\ tail = "partial"
           /\ tail' \in {"unterminated", "none"}
           /\ ledger' = Append(ledger, rec[c].entry)
           /\ written' = written \cup {rec[c].entry}
  <2>1. rec[c].session \in Sessions /\ lock = c /\ Verify(ledger) /\ Extends(rec[c])
    BY <1>4 DEF ReadinessInv, CommandsOK, CommandOK, Inside
  <2>2. CommandsOK'
    BY <1>1, <2>1, EndedKeeps DEF ReadinessInv
  <2>3. /\ WrittenOK' /\ UncutOK' /\ Verify(ledger)' /\ ledger' # <<>>
        /\ \A i \in DOMAIN ledger : i \in DOMAIN ledger' /\ ledger'[i] = ledger[i]
    BY <1>1, <1>4, <2>1, AppendKeeps DEF ReadinessInv
  <2>4. ChainVerifies' /\ RecordedIsKept'
    BY <1>1, <1>4, <2>3 DEF ReadinessInv, ChainVerifies, RecordedIsKept
  <2>5. FileOK'
    BY <1>1, <1>4, <2>3 DEF ReadinessInv, FileOK
  <2> QED BY <2>2, <2>3, <2>4, <2>5 DEF ReadinessInv
<1> QED BY <1>3, <1>4 DEF RecordCrash

(* Somebody edits the file while no command holds the lock.                *)
LEMMA EditKeeps == ASSUME ReadinessInv, Edit PROVE ReadinessInv'
<1>1. /\ UNCHANGED <<now, manifest, tail, lock, rec, gate, written, acked>>
      /\ lock = None /\ tail = "none" /\ edits' = edits + 1
    BY DEF Edit
<1>2. WrittenOK' /\ UncutOK'
  <2>1. PICK i \in DOMAIN ledger :
            \/ \E s \in Sessions \ {ledger[i].session} :
                 /\ ledger' = [ledger EXCEPT ![i].session = s]
                 /\ UNCHANGED cut
            \/ ledger' = RemoveAt(ledger, i) /\ cut' = (cut \/ i = Len(ledger))
    BY DEF Edit
  <2>2. CASE \E s \in Sessions \ {ledger[i].session} :
                 /\ ledger' = [ledger EXCEPT ![i].session = s]
                 /\ UNCHANGED cut
    BY <1>1, <2>2, EditedSessionKeeps DEF ReadinessInv
  <2>3. CASE ledger' = RemoveAt(ledger, i) /\ cut' = (cut \/ i = Len(ledger))
    BY <1>1, <2>3, RemovalKeeps DEF ReadinessInv
  <2> QED BY <2>1, <2>2, <2>3
<1>3. CommandsOK'
  <2>1. \A d \in Recorders : CommandOK(d)'
    BY <1>1, ReadinessAssumption, OutsiderKept DEF ReadinessInv, CommandsOK
  <2> QED BY <1>1, <2>1 DEF ReadinessInv, CommandsOK
<1>4. edits \in Nat /\ edits' \in Nat /\ edits' # 0
    BY <1>1 DEF ReadinessInv, FileOK
<1>5. ChainVerifies' /\ RecordedIsKept'
    BY <1>4 DEF ChainVerifies, RecordedIsKept
<1>6. FileOK'
    BY <1>1, <1>4 DEF ReadinessInv, FileOK
<1> QED BY <1>2, <1>3, <1>5, <1>6 DEF ReadinessInv

(* No blocker is left: no session strayed.                                 *)
LEMMA NoBlockers ==
    ASSUME NEW m, NEW entries, NEW t, ShadowBlockers(m, entries, t) = {}
    PROVE  \A s \in OfManifest(m, entries) : ~Strays(m, s, t)
<1>1. "STRAY" \notin ShadowBlockers(m, entries, t)
    OBVIOUS
<1> QED BY <1>1 DEF ShadowBlockers

(* What a positive verdict rests on: lines that commands wrote, and all    *)
(* the entries ever written unless the end was cut off.                    *)
LEMMA PositiveVerdict ==
    ASSUME ReadinessInv, gate.loaded # None, Loadable, AdmissionReady(gate.loaded, ledger, now)
    PROVE  /\ \A i \in DOMAIN ledger : ledger[i] \in written
           /\ ~cut => \A e \in written :
                 e.session.manifest = gate.loaded.id =>
                     e.session.start >= gate.loaded.generated /\ e.session.code = Code
<1>1. /\ WrittenOK /\ UncutOK /\ Verify(ledger) /\ tail # "glued"
      /\ gate.loaded \in Manifests /\ now \in Nat
    BY DEF ReadinessInv, Loadable, FileOK
<1>2. \A i \in DOMAIN ledger : ledger[i] \in written /\ ledger[i].sequence = i
    BY <1>1, VerifiedIsWritten
<1>3. \A s \in OfManifest(gate.loaded, ledger) : ~Strays(gate.loaded, s, now)
    BY NoBlockers DEF AdmissionReady
<1>4. ASSUME ~cut, NEW e \in written, e.session.manifest = gate.loaded.id
      PROVE  e.session.start >= gate.loaded.generated /\ e.session.code = Code
  <2>1. PICK n : n = Len(ledger)
    OBVIOUS
  <2>2. n \in Nat /\ DOMAIN ledger = 1..n /\ (ledger # <<>> <=> n # 0)
    BY <1>1, <2>1, LineFacts
  <2>3. ledger # <<>> /\ e.sequence <= ledger[n].sequence /\ e.sequence \in Nat \ {0}
    BY <1>1, <1>4, <2>1 DEF UncutOK, WrittenOK
  <2>4. ledger[n].sequence = n
    BY <1>2, <2>2, <2>3
  <2>5. e.sequence \in DOMAIN ledger
    BY <2>2, <2>3, <2>4
  <2>6. ledger[e.sequence] = e
    BY <1>1, <1>2, <1>4, <2>5 DEF UncutOK
  <2>7. e.session \in OfManifest(gate.loaded, ledger)
    BY <1>4, <2>5, <2>6 DEF OfManifest
  <2>8. ~Strays(gate.loaded, e.session, now)
    BY <1>3, <2>7
  <2>9. e.session.start \in Nat /\ gate.loaded.generated \in Nat
    BY <1>1, ReadinessAssumption DEF WrittenOK
  <2> QED BY <2>8, <2>9 DEF Strays
<1> QED BY <1>2, <1>4

(* Steps of the gate, of the manifest file and of the clock.               *)
LEMMA GateKeeps ==
    ASSUME ReadinessInv,
           LoadManifest \/ Evaluate \/ Tick \/ \E m \in Manifests : InstallManifest(m)
    PROVE  ReadinessInv'
<1>1. UNCHANGED <<ledger, tail, lock, rec, written, acked, cut, edits>>
    BY DEF LoadManifest, Evaluate, Tick, InstallManifest, ledgerVars
<1>2. CommandsOK'
  <2>1. \A d \in Recorders : CommandOK(d)'
    BY <1>1, CommandKept DEF ReadinessInv, CommandsOK
  <2> QED BY <1>1, <2>1 DEF ReadinessInv, CommandsOK
<1>3. FileOK'
  <2>1. CASE LoadManifest
    <3>1. /\ manifest \in Manifests \cup {None} /\ UNCHANGED <<now, manifest>>
          /\ gate = [loaded |-> gate.loaded, ready |-> gate.ready]
          /\ gate.loaded = None
      BY <2>1 DEF LoadManifest, ReadinessInv, FileOK
    <3>2. CASE manifest = None
      <4>1. gate' = [loaded |-> gate.loaded, ready |-> FALSE]
        BY <2>1, <3>1, <3>2 DEF LoadManifest
      <4> QED BY <1>1, <3>1, <4>1 DEF ReadinessInv, FileOK
    <3>3. CASE manifest # None
      <4>1. gate' = [loaded |-> manifest, ready |-> gate.ready]
        BY <2>1, <3>1, <3>3 DEF LoadManifest
      <4> QED BY <1>1, <3>1, <4>1 DEF ReadinessInv, FileOK
    <3> QED BY <3>2, <3>3
  <2>2. CASE Evaluate
    <3>1. PICK v : v = (Loadable /\ AdmissionReady(gate.loaded, ledger, now))
      OBVIOUS
    <3>2. /\ gate' = [loaded |-> None, ready |-> v] /\ gate.loaded # None
          /\ UNCHANGED <<now, manifest>>
      BY <2>2, <3>1 DEF Evaluate
    <3> QED BY <1>1, <3>2 DEF ReadinessInv, FileOK
  <2>3. CASE Tick
    BY <1>1, <2>3 DEF Tick, ReadinessInv, FileOK
  <2>4. CASE \E m \in Manifests : InstallManifest(m)
    BY <1>1, <2>4 DEF InstallManifest, ReadinessInv, FileOK
  <2> QED BY <2>1, <2>2, <2>3, <2>4
<1> QED BY <1>1, <1>2, <1>3, FileKept DEF ReadinessInv

(* The invariant holds at the start.                                       *)
LEMMA ReadinessInvInit == ReadinessInit => ReadinessInv
<1> SUFFICES ASSUME ReadinessInit PROVE ReadinessInv
    OBVIOUS
<1>1. /\ now = 0 /\ manifest = None /\ ledger = <<>> /\ tail = "none" /\ lock = None
      /\ rec = [c \in Recorders |-> Idle]
      /\ gate = [loaded |-> None, ready |-> FALSE]
      /\ written = {} /\ acked = {} /\ cut = FALSE /\ edits = 0
    BY DEF ReadinessInit
<1>2. WrittenOK /\ UncutOK
    BY <1>1, EmptySeq DEF WrittenOK, UncutOK
<1>3. CommandsOK
  <2>1. \A c \in Recorders : CommandOK(c)
    BY <1>1, ReadinessAssumption DEF CommandOK, Idle, Inside
  <2> QED BY <1>1, <2>1 DEF CommandsOK
<1>4. FileOK /\ RecordedIsKept
    BY <1>1 DEF FileOK, RecordedIsKept
<1>5. ChainVerifies
    BY <1>1 DEF ChainVerifies, Verify
<1> QED BY <1>2, <1>3, <1>4, <1>5 DEF ReadinessInv

(* Every step keeps the invariant.                                         *)
LEMMA ReadinessInvKept ==
    ASSUME ReadinessInv, [ReadinessNext]_readinessVars PROVE ReadinessInv'
<1>1. CASE UNCHANGED readinessVars
  <2>1. UNCHANGED <<now, manifest, ledger, tail, lock, rec, gate, written, acked, cut, edits>>
    BY <1>1 DEF readinessVars
  <2>2. CommandsOK'
    <3>1. \A d \in Recorders : CommandOK(d)'
      BY <2>1, CommandKept DEF ReadinessInv, CommandsOK
    <3> QED BY <2>1, <3>1 DEF ReadinessInv, CommandsOK
  <2>3. FileOK'
    BY <2>1 DEF ReadinessInv, FileOK
  <2> QED BY <2>1, <2>2, <2>3, FileKept DEF ReadinessInv
<1>2. ASSUME NEW c \in Recorders, NEW s \in Sessions, Ask(c, s)
      PROVE  ReadinessInv'
    BY <1>2, AskKeeps
<1>3. ASSUME NEW c \in Recorders,
             Lock(c) \/ ReadLedger(c) \/ BeginWrite(c) \/ Flush(c) \/ RecordCrash(c)
      PROVE  ReadinessInv'
    BY <1>3, LockKeeps, ReadLedgerKeeps, BeginWriteKeeps, FlushKeeps, RecordCrashKeeps
<1> QED BY <1>1, <1>2, <1>3, GateKeeps, EditKeeps DEF ReadinessNext

(* The invariant of ledger and gate holds in every behaviour.              *)
THEOREM ReadinessInvariance == ReadinessSpec => []ReadinessInv
<1>1. ReadinessInv /\ [ReadinessNext]_readinessVars => ReadinessInv'
    BY ReadinessInvKept
<1> QED BY <1>1, ReadinessInvInit, PTL DEF ReadinessSpec

(* The unedited ledger is one chain holding every session reported         *)
(* recorded, whatever commands overlap or die (ShadowLedger.append).       *)
THEOREM LedgerStaysWhole == ReadinessSpec => []LedgerIsWhole
<1>1. ReadinessInv => LedgerIsWhole
    BY DEF ReadinessInv, LedgerIsWhole
<1> QED BY <1>1, ReadinessInvariance, PTL

(* A positive verdict rests on lines that commands wrote, and on all that  *)
(* were written unless the end was cut off (evaluate_shadow_evidence).     *)
THEOREM VerdictsRestOnTheLedger == ReadinessSpec => AdmissionRestsOnTheLedger
<1>1. ASSUME ReadinessInv, [ReadinessNext]_readinessVars
      PROVE  [ gate.loaded # None /\ gate'.loaded = None /\ gate'.ready =>
                 /\ \A i \in DOMAIN ledger : ledger[i] \in written
                 /\ ~cut => \A e \in written :
                       LET s == e.session
                       IN  s.manifest = gate.loaded.id =>
                             s.start >= gate.loaded.generated /\ s.code = Code ]_readinessVars
  <2> SUFFICES ASSUME gate.loaded # None, gate'.loaded = None, gate'.ready
               PROVE  /\ \A i \in DOMAIN ledger : ledger[i] \in written
                      /\ ~cut => \A e \in written :
                            e.session.manifest = gate.loaded.id =>
                               /\ e.session.start >= gate.loaded.generated
                               /\ e.session.code = Code
    OBVIOUS
  <2>1. gate' # gate
    BY SMTT(30)
  <2>2. Evaluate
    BY <1>1, <2>1 DEF readinessVars, ReadinessNext,
          Ask, Lock, ReadLedger, BeginWrite, Flush, RecordCrash, Edit, Untouched,
          LoadManifest, InstallManifest, Tick
  <2>3. Loadable /\ AdmissionReady(gate.loaded, ledger, now)
    <3>1. PICK v : v = (Loadable /\ AdmissionReady(gate.loaded, ledger, now))
      OBVIOUS
    <3>2. gate' = [loaded |-> None, ready |-> v]
      BY <2>2, <3>1 DEF Evaluate
    <3>3. v
      BY <3>2
    <3> QED BY <3>1, <3>3
  <2> QED BY <1>1, <2>3, PositiveVerdict
<1> QED BY <1>1, ReadinessInvariance, PTL DEF ReadinessSpec, AdmissionRestsOnTheLedger

(* Once a line was changed or taken out of the middle, every later append  *)
(* is refused (ShadowLedger._verify, called by append under the lock).     *)
THEOREM EditsStopRecording == ReadinessSpec => EditStopsRecording
<1>1. ASSUME ReadinessInv, [ReadinessNext]_readinessVars
      PROVE  [ (\E i \in DOMAIN ledger : ledger[i] \notin written \/ ledger[i].sequence # i) =>
                 acked' = acked ]_readinessVars
  <2> SUFFICES ASSUME acked' # acked
               PROVE  \A i \in DOMAIN ledger : ledger[i] \in written /\ ledger[i].sequence = i
    BY SMTT(30)
  <2>1. PICK c \in Recorders : Flush(c)
    BY <1>1 DEF readinessVars, ReadinessNext,
          Ask, Lock, ReadLedger, BeginWrite, RecordCrash, Edit, Untouched, ledgerVars,
          LoadManifest, Evaluate, InstallManifest, Tick
  <2>2. Verify(ledger) /\ WrittenOK
    BY <1>1, <2>1 DEF Flush, ReadinessInv, CommandsOK, CommandOK
  <2> QED BY <2>2, VerifiedIsWritten
<1> QED BY <1>1, ReadinessInvariance, PTL DEF ReadinessSpec, EditStopsRecording

-----------------------------------------------------------------------------
(* A request is answered with what its computation gives.                  *)
AnswerInv ==
    /\ job \in Jobs
    /\ \/ answer = NoAnswer
       \/ /\ job.task = "split"
          /\ answer = [done |-> TRUE, result |-> Split(job.samples, job.plan)]
       \/ /\ job.task = "gate"
          /\ answer = [done |-> TRUE,
                       result |-> EvaluateGate(job.slices, job.frozenAt, job.evaluatedAt)]
       \/ /\ job.task = "event" /\ job.at >= job.event.seen
          /\ answer = [done |-> TRUE, result |-> Assess(job.event, job.at)]
       \/ /\ job.task = "days"
          /\ answer = [done |-> TRUE,
                       result |-> [economics |-> EconomicsBatch(job.days),
                                   exits |-> ExitComparison(job.days)]]

LEMMA AnswerInvariance == BenchSpec => []AnswerInv
<1>1. BenchInit => AnswerInv
    BY DEF BenchInit, AnswerInv
<1>2. ASSUME AnswerInv, [BenchNext]_benchVars PROVE AnswerInv'
  <2>1. CASE SplitSamples
    BY <1>2, <2>1 DEF AnswerInv, SplitSamples, Answer
  <2>2. CASE Gate
    BY <1>2, <2>2 DEF AnswerInv, Gate, Answer
  <2>3. CASE AssessEvent
    BY <1>2, <2>3 DEF AnswerInv, AssessEvent, Answer
  <2>4. CASE EvaluateDays
    BY <1>2, <2>4 DEF AnswerInv, EvaluateDays, Answer
  <2>5. CASE UseLedger \/ UseEngine \/ UseBatches \/ UNCHANGED benchVars
    BY <1>2, <2>5 DEF AnswerInv, UseLedger, UseEngine, UseBatches, benchVars
  <2> QED BY <1>2, <2>1, <2>2, <2>3, <2>4, <2>5 DEF BenchNext
<1> QED BY <1>1, <1>2, PTL DEF BenchSpec

-----------------------------------------------------------------------------
(* The event risk lock.                                                    *)

LEMMA MaxOfTwo ==
    ASSUME NEW a \in Int, NEW b \in Int
    PROVE  Max({a, b}) \in {a, b} /\ Max({a, b}) >= a /\ Max({a, b}) >= b
<1>1. \E x \in {a, b} : \A y \in {a, b} : x >= y
    OBVIOUS
<1> QED BY <1>1 DEF Max

(* What the lock looks at, reason by reason.                               *)
LEMMA NothingLocks ==
    ASSUME NEW e \in EventRecord, NEW t \in Nat
    PROVE  LockReasons(e, t) = {} <=>
             /\ ~e.contradictory /\ e.sources >= MinSources
             /\ e.confirmed # Unknown /\ e.confirmed <= t
             /\ e.cross # Unknown /\ e.cross <= t
<1>1. "CONTRADICTORY_EVIDENCE" \in LockReasons(e, t) <=> e.contradictory
    BY DEF LockReasons
<1>2. "EVENT_NOT_CONFIRMED" \in LockReasons(e, t)
        <=> e.confirmed = Unknown \/ e.confirmed > t
    BY DEF LockReasons
<1>3. "INSUFFICIENT_CORROBORATION" \in LockReasons(e, t) <=> e.sources < MinSources
    BY DEF LockReasons
<1>4. "CROSS_ASSET_NOT_CONFIRMED" \in LockReasons(e, t)
        <=> e.cross = Unknown \/ e.cross > t
    BY DEF LockReasons
<1>5. LockReasons(e, t) \subseteq {"CONTRADICTORY_EVIDENCE", "EVENT_NOT_CONFIRMED",
                                   "INSUFFICIENT_CORROBORATION",
                                   "CROSS_ASSET_NOT_CONFIRMED"}
    BY DEF LockReasons
<1>6. LockReasons(e, t) = {} <=>
        /\ "CONTRADICTORY_EVIDENCE" \notin LockReasons(e, t)
        /\ "EVENT_NOT_CONFIRMED" \notin LockReasons(e, t)
        /\ "INSUFFICIENT_CORROBORATION" \notin LockReasons(e, t)
        /\ "CROSS_ASSET_NOT_CONFIRMED" \notin LockReasons(e, t)
    BY <1>5
<1>7. /\ e.sources \in Int /\ MinSources \in Int
      /\ e.confirmed \in Int /\ e.cross \in Int
    BY RiskLockAssumption DEF EventRecord, Unknown
<1>8. /\ e.sources < MinSources <=> ~(e.sources >= MinSources)
      /\ e.confirmed > t <=> ~(e.confirmed <= t)
      /\ e.cross > t <=> ~(e.cross <= t)
    BY <1>7
<1> QED BY <1>1, <1>2, <1>3, <1>4, <1>6, <1>8

LEMMA Delays ==
    ASSUME NEW e \in EventRecord, NEW t \in Nat
    PROVE  /\ "STABILITY_WINDOW_NOT_STARTED" \in StabilityReasons(e, t)
                <=> e.stable = Unknown \/ e.stable > t
           /\ "STABILITY_WINDOW_INCOMPLETE" \in StabilityReasons(e, t)
                <=> /\ e.stable # Unknown /\ e.stable <= t
                    /\ e.stable + StabilityWindow > t
           /\ "INSUFFICIENT_STABLE_OBSERVATIONS" \in StabilityReasons(e, t)
                <=> e.observations < MinObservations
           /\ StabilityReasons(e, t) \subseteq
                {"STABILITY_WINDOW_NOT_STARTED", "STABILITY_WINDOW_INCOMPLETE",
                 "INSUFFICIENT_STABLE_OBSERVATIONS"}
           /\ e.stable \in Int /\ StabilityWindow \in Nat
           /\ e.observations \in Nat /\ MinObservations \in Nat
<1>1. "STABILITY_WINDOW_NOT_STARTED" \in StabilityReasons(e, t)
        <=> e.stable = Unknown \/ e.stable > t
    BY DEF StabilityReasons
<1>2. "STABILITY_WINDOW_INCOMPLETE" \in StabilityReasons(e, t)
        <=> e.stable # Unknown /\ e.stable <= t /\ e.stable + StabilityWindow > t
    BY DEF StabilityReasons
<1>3. "INSUFFICIENT_STABLE_OBSERVATIONS" \in StabilityReasons(e, t)
        <=> e.observations < MinObservations
    BY DEF StabilityReasons
<1>4. StabilityReasons(e, t) \subseteq
        {"STABILITY_WINDOW_NOT_STARTED", "STABILITY_WINDOW_INCOMPLETE",
         "INSUFFICIENT_STABLE_OBSERVATIONS"}
    BY DEF StabilityReasons
<1>5. /\ e.stable \in Int /\ StabilityWindow \in Nat
      /\ e.observations \in Nat /\ MinObservations \in Nat
    BY RiskLockAssumption DEF EventRecord, Unknown
<1> QED BY <1>1, <1>2, <1>3, <1>4, <1>5

LEMMA NothingDelays ==
    ASSUME NEW e \in EventRecord, NEW t \in Nat
    PROVE  StabilityReasons(e, t) = {} <=>
             /\ e.stable # Unknown /\ e.stable + StabilityWindow <= t
             /\ e.observations >= MinObservations
<1>1. StabilityReasons(e, t) = {} <=>
        /\ "STABILITY_WINDOW_NOT_STARTED" \notin StabilityReasons(e, t)
        /\ "STABILITY_WINDOW_INCOMPLETE" \notin StabilityReasons(e, t)
        /\ "INSUFFICIENT_STABLE_OBSERVATIONS" \notin StabilityReasons(e, t)
    BY Delays
<1>2. /\ e.stable \in Int /\ StabilityWindow \in Nat
      /\ e.observations \in Nat /\ MinObservations \in Nat
    BY Delays
<1>3. /\ e.observations < MinObservations <=> ~(e.observations >= MinObservations)
      /\ e.stable + StabilityWindow <= t
           <=> ~(e.stable > t) /\ ~(e.stable <= t /\ e.stable + StabilityWindow > t)
    BY <1>2
<1> QED BY <1>1, <1>3, Delays

(* Once the window has passed only the observations may be missing.        *)
LEMMA WindowPassed ==
    ASSUME NEW e \in EventRecord, NEW t \in Nat, e.stable # Unknown,
           e.stable + StabilityWindow <= t
    PROVE  StabilityReasons(e, t) \in {{}, {"INSUFFICIENT_STABLE_OBSERVATIONS"}}
<1>1. /\ e.stable \in Int /\ StabilityWindow \in Nat
    BY Delays
<1>2. ~(e.stable > t) /\ ~(e.stable + StabilityWindow > t)
    BY <1>1
<1>3. /\ "STABILITY_WINDOW_NOT_STARTED" \notin StabilityReasons(e, t)
      /\ "STABILITY_WINDOW_INCOMPLETE" \notin StabilityReasons(e, t)
    BY <1>2, Delays
<1> QED BY <1>3, Delays

(* The verdict, field by field.                                            *)
LEMMA VerdictOf ==
    ASSUME NEW e, NEW t
    PROVE  LET v == Assess(e, t)
           IN  /\ v.state = "CLEARED" <=>
                     LockReasons(e, t) = {} /\ StabilityReasons(e, t) = {}
               /\ v.rerun # Unknown <=>
                     /\ LockReasons(e, t) = {} /\ StabilityReasons(e, t) # {}
                     /\ RerunAt(e) # Unknown
               /\ v.rerun # Unknown => v.rerun = RerunAt(e)
               /\ LockReasons(e, t) = {} =>
                     v.reasons = IF StabilityReasons(e, t) = {} THEN {"EVENT_STABLE"}
                                 ELSE StabilityReasons(e, t)
<1>1. PICK v : v = Assess(e, t)
    OBVIOUS
<1>2. PICK locked, stabilizing, next :
         /\ locked = LockReasons(e, t) /\ stabilizing = StabilityReasons(e, t)
         /\ next = NextCheckpoint(e, t)
    OBVIOUS
<1>3. v = [state  |-> IF locked # {} THEN "LOCKED"
                      ELSE IF stabilizing # {} THEN "STABILIZING" ELSE "CLEARED",
           reasons |-> IF locked # {} THEN locked
                       ELSE IF stabilizing # {} THEN stabilizing ELSE {"EVENT_STABLE"},
           rerun  |-> IF locked = {} /\ stabilizing # {} THEN RerunAt(e) ELSE Unknown,
           next   |-> next]
    BY <1>1, <1>2 DEF Assess
<1>4. /\ v.state = "CLEARED" <=> locked = {} /\ stabilizing = {}
      /\ v.rerun = IF locked = {} /\ stabilizing # {} THEN RerunAt(e) ELSE Unknown
      /\ locked = {} => v.reasons = IF stabilizing = {} THEN {"EVENT_STABLE"}
                                    ELSE stabilizing
    BY <1>3
<1> QED BY <1>1, <1>2, <1>4

LEMMA LockStaysOpen ==
    ASSUME NEW e \in EventRecord, NEW t \in Nat, NEW u \in Nat, t <= u,
           LockReasons(e, t) = {}
    PROVE  LockReasons(e, u) = {}
<1>1. e.confirmed \in Int /\ e.cross \in Int
    BY DEF EventRecord, Unknown
<1>2. e.confirmed <= u /\ e.cross <= u
    BY <1>1, NothingLocks
<1> QED BY <1>2, NothingLocks

(* An answered event: what the validator let through, and its verdict.     *)
LEMMA EventAnswered ==
    ASSUME AnswerInv, Answered("event")
    PROVE  /\ job.event \in EventRecord /\ ValidTimeline(job.event) /\ job.at \in Nat
           /\ answer.result = Assess(job.event, job.at)
<1>1. job.task = "event" /\ job \in Jobs /\ answer # NoAnswer
    BY DEF Answered, AnswerInv, NoAnswer
<1>2. answer = [done |-> TRUE, result |-> Assess(job.event, job.at)]
    BY <1>1 DEF AnswerInv
<1> QED BY <1>1, <1>2, JobsAssumption

LEMMA ClearedIsFinal == AnswerInv => ClearedForGood
<1> SUFFICES ASSUME AnswerInv, Answered("event"), answer.result.state = "CLEARED",
                    NEW e, e = job.event, NEW at, at = job.at
             PROVE  /\ e.seen <= e.confirmed /\ e.confirmed <= e.cross /\ e.cross <= e.stable
                    /\ e.stable + StabilityWindow <= at
                    /\ \A t \in at..(at + StabilityWindow + 1) :
                           Assess(e, t).state = "CLEARED"
    BY DEF ClearedForGood
<1>1. /\ e \in EventRecord /\ ValidTimeline(e) /\ at \in Nat
      /\ Assess(e, at).state = "CLEARED"
    BY EventAnswered
<1>2. LockReasons(e, at) = {} /\ StabilityReasons(e, at) = {}
    BY <1>1, VerdictOf
<1>3. /\ e.confirmed # Unknown /\ e.cross # Unknown
      /\ e.stable # Unknown /\ e.stable + StabilityWindow <= at
      /\ e.observations >= MinObservations
    BY <1>1, <1>2, NothingLocks, NothingDelays
<1>4. e.seen <= e.confirmed /\ e.confirmed <= e.cross /\ e.cross <= e.stable
  <2>1. /\ e.seen \in Int /\ e.confirmed \in Int /\ e.cross \in Int /\ e.stable \in Int
    BY <1>1 DEF EventRecord, Unknown
  <2>2. e.confirmed >= e.seen /\ e.cross >= e.confirmed /\ e.stable >= e.cross
    BY <1>1, <1>3 DEF ValidTimeline
  <2> QED BY <2>1, <2>2
<1>5. ASSUME NEW t \in at..(at + StabilityWindow + 1)
      PROVE  Assess(e, t).state = "CLEARED"
  <2>1. t \in Nat /\ at <= t
    BY <1>1, RiskLockAssumption
  <2>2. LockReasons(e, t) = {}
    BY <1>1, <1>2, <2>1, LockStaysOpen
  <2>3. e.stable \in Int /\ StabilityWindow \in Int
    BY <1>1, RiskLockAssumption DEF EventRecord, Unknown
  <2>4. e.stable + StabilityWindow <= t
    BY <1>1, <1>3, <2>1, <2>3
  <2>5. StabilityReasons(e, t) = {}
    BY <1>1, <1>3, <2>1, <2>4, NothingDelays
  <2> QED BY <2>2, <2>5, VerdictOf
<1> QED BY <1>3, <1>4, <1>5

LEMMA RerunIsEnough == AnswerInv => RerunSuffices
<1> SUFFICES ASSUME AnswerInv, Answered("event"), answer.result.rerun # Unknown,
                    NEW e, e = job.event, NEW at, at = job.at,
                    NEW rerun, rerun = answer.result.rerun,
                    NEW later, later = Max({rerun, at})
             PROVE  /\ Assess(e, later).reasons
                         \in {{"EVENT_STABLE"}, {"INSUFFICIENT_STABLE_OBSERVATIONS"}}
                    /\ \A t \in at..(rerun - 1) : Assess(e, t).state # "CLEARED"
    BY DEF RerunSuffices
<1>1. /\ e \in EventRecord /\ at \in Nat /\ Assess(e, at).rerun # Unknown
      /\ rerun = Assess(e, at).rerun
    BY EventAnswered
<1>2. /\ LockReasons(e, at) = {} /\ rerun = RerunAt(e) /\ rerun # Unknown
    BY <1>1, VerdictOf
<1>3. /\ e.stable # Unknown /\ rerun = e.stable + StabilityWindow
      /\ e.stable \in Int /\ StabilityWindow \in Nat /\ rerun \in Int
  <2>1. e.stable # Unknown /\ rerun = e.stable + StabilityWindow
    BY <1>2 DEF RerunAt
  <2>2. e.stable \in Int /\ StabilityWindow \in Nat
    BY <1>1, RiskLockAssumption DEF EventRecord, Unknown
  <2> QED BY <2>1, <2>2
<1>4. later \in Nat /\ at <= later /\ e.stable + StabilityWindow <= later
  <2>1. rerun \in Int /\ at \in Int
    BY <1>1, <1>3
  <2>2. LET m == Max({rerun, at}) IN m \in {rerun, at} /\ m >= rerun /\ m >= at
    BY <2>1, MaxOfTwo, Zenon
  <2>3. later \in {rerun, at} /\ later >= rerun /\ later >= at
    BY <2>2, Zenon
  <2> QED BY <1>1, <1>3, <2>3
<1>5. LockReasons(e, later) = {}
    BY <1>1, <1>2, <1>4, LockStaysOpen
<1>6. StabilityReasons(e, later) \in {{}, {"INSUFFICIENT_STABLE_OBSERVATIONS"}}
    BY <1>1, <1>3, <1>4, WindowPassed
<1>7. Assess(e, later).reasons = IF StabilityReasons(e, later) = {} THEN {"EVENT_STABLE"}
                                 ELSE StabilityReasons(e, later)
    BY <1>5, VerdictOf
<1>8. ASSUME NEW t \in at..(rerun - 1) PROVE Assess(e, t).state # "CLEARED"
  <2>1. t \in Nat /\ ~(e.stable + StabilityWindow <= t)
    BY <1>1, <1>3
  <2>2. StabilityReasons(e, t) # {}
    BY <1>1, <2>1, NothingDelays
  <2> QED BY <2>2, VerdictOf
<1> QED BY <1>6, <1>7, <1>8

(* LockKeepsItsPromise: for every policy, event that passes the validator  *)
(* and instant, an event RiskLockEngine.assess clears went through         *)
(* confirmation, reaction and a whole window in that order and stays       *)
(* cleared, and one that is told when to be looked at again is cleared     *)
(* then, not before, unless observations are missing.                      *)
THEOREM LockKeepsItsPromise == BenchSpec => []ClearsWhenPromised
<1>1. AnswerInv => ClearsWhenPromised
    BY ClearedIsFinal, RerunIsEnough DEF ClearsWhenPromised
<1> QED BY <1>1, AnswerInvariance, PTL

-----------------------------------------------------------------------------
(* The promotion gate.                                                     *)

Evidence(slices) == {slices[i] : i \in DOMAIN slices}

Distinct(slices) ==
    \A i, j \in DOMAIN slices : slices[i].key = slices[j].key => i = j

(* The count of the gate: as many keys as slices means no key twice.       *)
LEMMA KeysCounted ==
    ASSUME NEW S, NEW slices \in Seq(S)
    PROVE  Cardinality({e.key : e \in Evidence(slices)}) = Len(slices) <=> Distinct(slices)
<1>1. PICK n, T, f : /\ n = Len(slices) /\ T = {e.key : e \in Evidence(slices)}
                     /\ f = [i \in 1..n |-> slices[i].key]
    OBVIOUS
<1>2. n \in Nat /\ DOMAIN slices = 1..n
    BY <1>1, LenProperties
<1>3. f \in Surjection(1..n, T)
  <2>1. f \in [1..n -> T]
    BY <1>1, <1>2 DEF Evidence
  <2>2. \A t \in T : \E i \in 1..n : f[i] = t
    BY <1>1, <1>2 DEF Evidence
  <2> QED BY <2>1, <2>2 DEF Surjection
<1>4. IsFiniteSet(1..n) /\ Cardinality(1..n) = n
    BY <1>2, FS_Interval
<1>5. Cardinality(T) = n <=> f \in Injection(1..n, T)
    BY <1>3, <1>4, FS_Surjection
<1>6. f \in Injection(1..n, T) <=> \A i, j \in 1..n : f[i] = f[j] => i = j
    BY <1>3 DEF Injection, Surjection, IsInjective
<1>7. (\A i, j \in 1..n : f[i] = f[j] => i = j) <=> Distinct(slices)
    BY <1>1, <1>2 DEF Distinct
<1> QED BY <1>1, <1>5, <1>6, <1>7

(* When a request is evaluated, and when the gate passes.                  *)
LEMMA AcceptedRequest ==
    ASSUME NEW S, NEW slices \in Seq(S), NEW frozen, NEW evaluated
    PROVE  GateAccepts(slices, frozen, evaluated) <=>
             /\ RegisteredAt < frozen /\ frozen < evaluated
             /\ slices # <<>> /\ Distinct(slices)
<1>1. {slices[i].key : i \in DOMAIN slices} = {e.key : e \in Evidence(slices)}
    BY DEF Evidence
<1> QED BY <1>1, KeysCounted DEF GateAccepts

GateReport(failures) == [passed |-> failures = {}, failures |-> failures]

LEMMA GatePasses ==
    ASSUME NEW slices, NEW frozen, NEW evaluated,
           NEW verdict, verdict = EvaluateGate(slices, frozen, evaluated),
           NEW failures,
           failures = UNION {SliceFailures(Evidence(slices), k) : k \in RequiredSlices}
    PROVE  /\ verdict.passed <=> GateAccepts(slices, frozen, evaluated) /\ failures = {}
           /\ failures = {} <=>
                \A k \in RequiredSlices : SliceFailures(Evidence(slices), k) = {}
           /\ GateAccepts(slices, frozen, evaluated) =>
                verdict = GateReport(failures)
<1>1. PICK good : good = GateAccepts(slices, frozen, evaluated)
    OBVIOUS
<1>2. verdict = IF good THEN GateReport(failures) ELSE Rejected
    BY <1>1 DEF EvaluateGate, Evidence, GateReport
<1>3. CASE good
  <2>1. verdict.passed = (failures = {})
    BY <1>2, <1>3 DEF GateReport
  <2> QED BY <1>1, <1>2, <1>3, <2>1
<1>4. CASE ~good
  <2>1. verdict.passed = FALSE
    BY <1>2, <1>4 DEF Rejected
  <2> QED BY <1>1, <1>4, <2>1
<1> QED BY <1>3, <1>4

(* A slice without evidence fails; a slice's failures are those of its own *)
(* evidence.                                                               *)
LEMMA MissingFails ==
    ASSUME NEW evidence, NEW k, SliceFailures(evidence, k) = {}
    PROVE  \E e \in evidence : e.key = k
<1>1. CASE {e \in evidence : e.key = k} = {}
    BY <1>1 DEF SliceFailures
<1> QED BY <1>1

LEMMA OwnEvidence ==
    ASSUME NEW evidence, NEW other, NEW k,
           {e \in evidence : e.key = k} = {e \in other : e.key = k}
    PROVE  SliceFailures(evidence, k) = SliceFailures(other, k)
BY DEF SliceFailures

LEMMA WithoutOne ==
    ASSUME NEW S, NEW slices \in Seq(S), NEW i \in 1..Len(slices), Distinct(slices),
           NEW rest, rest = RemoveAt(slices, i)
    PROVE  /\ rest \in Seq(S) /\ Distinct(rest)
           /\ Evidence(rest) = {e \in Evidence(slices) : e.key # slices[i].key}
           /\ rest = <<>> => Len(slices) = 1
<1>1. PICK n : n = Len(slices)
    OBVIOUS
<1>2. n \in Nat \ {0} /\ DOMAIN slices = 1..n /\ i \in 1..n
    BY <1>1, LenProperties
<1>3. /\ rest \in Seq(S) /\ Len(rest) = n - 1
      /\ \A j \in 1..(n - 1) : rest[j] = IF j < i THEN slices[j] ELSE slices[j + 1]
    BY <1>1, RemoveAtFacts
<1>4. DOMAIN rest = 1..(n - 1)
    BY <1>3, LenProperties
<1>5. PICK at : at = [j \in 1..(n - 1) |-> IF j < i THEN j ELSE j + 1]
    OBVIOUS
<1>6. /\ \A j \in 1..(n - 1) : at[j] \in 1..n /\ at[j] # i /\ rest[j] = slices[at[j]]
      /\ \A j, k \in 1..(n - 1) : at[j] = at[k] => j = k
      /\ \A m \in 1..n : m # i => \E j \in 1..(n - 1) : at[j] = m
  <2>1. \A j \in 1..(n - 1) : at[j] \in 1..n /\ at[j] # i /\ rest[j] = slices[at[j]]
    BY <1>2, <1>3, <1>5
  <2>2. \A j, k \in 1..(n - 1) : at[j] = at[k] => j = k
    BY <1>2, <1>5
  <2>3. ASSUME NEW m \in 1..n, m # i PROVE \E j \in 1..(n - 1) : at[j] = m
    <3>1. CASE m < i
      BY <1>2, <1>5, <3>1
    <3>2. CASE ~(m < i)
      <4>1. m - 1 \in 1..(n - 1) /\ at[m - 1] = m
        BY <1>2, <1>5, <2>3, <3>2
      <4> QED BY <4>1
    <3> QED BY <3>1, <3>2
  <2> QED BY <2>1, <2>2, <2>3
<1>7. Distinct(rest)
    BY <1>2, <1>4, <1>6 DEF Distinct
<1>8. Evidence(rest) = {e \in Evidence(slices) : e.key # slices[i].key}
  <2>1. ASSUME NEW j \in 1..(n - 1)
        PROVE  rest[j] \in Evidence(slices) /\ rest[j].key # slices[i].key
    BY <1>2, <1>6 DEF Evidence, Distinct
  <2>2. ASSUME NEW m \in 1..n, slices[m].key # slices[i].key
        PROVE  \E j \in 1..(n - 1) : rest[j] = slices[m]
    BY <1>6, <2>2
  <2>3. Evidence(rest) \subseteq {e \in Evidence(slices) : e.key # slices[i].key}
    BY <1>4, <2>1 DEF Evidence
  <2>4. ASSUME NEW e \in Evidence(slices), e.key # slices[i].key
        PROVE  e \in Evidence(rest)
    <3>1. PICK m \in 1..n : e = slices[m]
      BY <1>2 DEF Evidence
    <3>2. PICK j \in 1..(n - 1) : rest[j] = slices[m]
      BY <2>2, <2>4, <3>1
    <3> QED BY <1>4, <3>1, <3>2 DEF Evidence
  <2> QED BY <2>3, <2>4
<1>9. rest = <<>> => n = 1
    BY <1>2, <1>3
<1> QED BY <1>1, <1>3, <1>7, <1>8, <1>9

(* What leaving one slice out of an evaluated request changes.             *)
LEMMA SliceLeftOut ==
    ASSUME NEW S, NEW slices \in Seq(S), NEW frozen, NEW evaluated,
           GateAccepts(slices, frozen, evaluated), NEW i \in DOMAIN slices,
           NEW rest, rest = RemoveAt(slices, i), NEW key, key = slices[i].key,
           NEW verdict, verdict = EvaluateGate(slices, frozen, evaluated),
           NEW without, without = EvaluateGate(rest, frozen, evaluated)
    PROVE  /\ key \in RequiredSlices => ~without.passed
           /\ key \notin RequiredSlices /\ rest # <<>> => without = verdict
<1>1. i \in 1..Len(slices)
    BY LenProperties
<1>2. RegisteredAt < frozen /\ frozen < evaluated /\ Distinct(slices)
    BY AcceptedRequest
<1>3. /\ rest \in Seq(S) /\ Distinct(rest)
      /\ Evidence(rest) = {e \in Evidence(slices) : e.key # key}
    BY <1>1, <1>2, WithoutOne
<1>4. rest # <<>> => GateAccepts(rest, frozen, evaluated)
    BY <1>2, <1>3, AcceptedRequest
<1>5. PICK failures, others :
         /\ failures = UNION {SliceFailures(Evidence(slices), k) : k \in RequiredSlices}
         /\ others = UNION {SliceFailures(Evidence(rest), k) : k \in RequiredSlices}
    OBVIOUS
<1>6. CASE key \in RequiredSlices
  <2>1. ~\E e \in Evidence(rest) : e.key = key
    BY <1>3
  <2>2. SliceFailures(Evidence(rest), key) # {}
    BY <2>1, MissingFails
  <2>3. ~without.passed
    BY <1>5, <1>6, <2>2, GatePasses
  <2> QED BY <1>6, <2>3
<1>7. CASE key \notin RequiredSlices
  <2>1. ASSUME NEW k \in RequiredSlices
        PROVE  SliceFailures(Evidence(rest), k) = SliceFailures(Evidence(slices), k)
    <3>1. {e \in Evidence(rest) : e.key = k} = {e \in Evidence(slices) : e.key = k}
      BY <1>3, <1>7
    <3> QED BY <3>1, OwnEvidence
  <2>2. others = failures
    BY <1>5, <2>1
  <2>3. rest # <<>> => without = GateReport(others)
    BY <1>4, <1>5, GatePasses
  <2>4. verdict = GateReport(failures)
    BY <1>5, GatePasses
  <2> QED BY <1>7, <2>2, <2>3, <2>4
<1> QED BY <1>6, <1>7

LEMMA EverySliceCounts == AnswerInv => PassNeedsEverySlice
<1> SUFFICES ASSUME AnswerInv, Answered("gate") PROVE PassNeedsEverySlice
    BY DEF PassNeedsEverySlice
<1>1. PICK slices, frozen, evaluated, S :
         /\ slices = job.slices /\ frozen = job.frozenAt /\ evaluated = job.evaluatedAt
         /\ S = Range(job.slices)
    OBVIOUS
<1>2. job.task = "gate" /\ job \in Jobs /\ answer # NoAnswer
    BY DEF Answered, AnswerInv, NoAnswer
<1>3. slices \in Seq(S)
    BY <1>1, <1>2, JobsAssumption
<1>4. PICK verdict : verdict = EvaluateGate(slices, frozen, evaluated)
    OBVIOUS
<1>5. answer.result = verdict
  <2>1. answer = [done |-> TRUE, result |-> verdict]
    BY <1>1, <1>2, <1>4 DEF AnswerInv
  <2> QED BY <2>1
<1>6. ASSUME verdict.passed
      PROVE  /\ RegisteredAt < frozen /\ frozen < evaluated
             /\ RequiredSlices \subseteq {slices[i].key : i \in DOMAIN slices}
  <2>1. /\ GateAccepts(slices, frozen, evaluated)
        /\ \A k \in RequiredSlices : SliceFailures(Evidence(slices), k) = {}
    BY <1>4, <1>6, GatePasses
  <2>2. \A k \in RequiredSlices : \E e \in Evidence(slices) : e.key = k
    BY <2>1, MissingFails
  <2>3. RequiredSlices \subseteq {slices[i].key : i \in DOMAIN slices}
    BY <2>2 DEF Evidence
  <2> QED BY <1>3, <2>1, <2>3, AcceptedRequest
<1>7. ASSUME GateAccepts(slices, frozen, evaluated), NEW i \in DOMAIN slices
      PROVE  LET rest    == RemoveAt(slices, i)
                 without == EvaluateGate(rest, frozen, evaluated)
             IN  IF slices[i].key \in RequiredSlices THEN ~without.passed
                 ELSE rest # <<>> => without = verdict
    BY <1>3, <1>4, <1>7, SliceLeftOut
<1> QED BY <1>1, <1>5, <1>6, <1>7 DEF PassNeedsEverySlice

(* GateNeedsEverySlice: for all criteria and all evidence, when            *)
(* evaluate_promotion_gate passes, the holdout was frozen between the      *)
(* registration and the evaluation and every required slice has evidence;  *)
(* leaving a required slice out fails the gate, and leaving any other out  *)
(* leaves the report as it is.                                             *)
THEOREM GateNeedsEverySlice == BenchSpec => []PassNeedsEverySlice
BY EverySliceCounts, AnswerInvariance, PTL

-----------------------------------------------------------------------------
(* The alert engine.                                                       *)

AlertRecord ==
    [fingerprint : Fingerprints, priority : Priorities, created : Moments,
     status : {"OPEN", "ACKNOWLEDGED", "DISMISSED"}, duplicates : Nat, level : Nat]

EngineOK ==
    alerts \in Seq(AlertRecord) /\ latest \in [Fingerprints -> 0..Len(alerts)]

(* An alert as a step may leave it: closed stays closed, and is not        *)
(* escalated.                                                              *)
Follows(a, b) ==
    a.status # "OPEN" => b.status # "OPEN" /\ b.level = a.level

LEMMA DuplicateCounted ==
    ASSUME NEW a \in AlertRecord
    PROVE  LET b == [a EXCEPT !.duplicates = @ + 1] IN b \in AlertRecord /\ Follows(a, b)
BY DEF AlertRecord, Follows

LEMMA FeedbackApplied ==
    ASSUME NEW a \in AlertRecord, NEW k
    PROVE  LET b == [a EXCEPT !.status = StatusFor(k, @)]
           IN  b \in AlertRecord /\ Follows(a, b)
<1>1. PICK s : s = StatusFor(k, a.status)
    OBVIOUS
<1>2. /\ s \in {"OPEN", "ACKNOWLEDGED", "DISMISSED"}
      /\ a.status # "OPEN" => s # "OPEN"
    BY <1>1 DEF StatusFor, AlertRecord
<1>3. LET b == [a EXCEPT !.status = s] IN b \in AlertRecord /\ Follows(a, b)
    BY <1>2 DEF AlertRecord, Follows
<1> QED BY <1>1, <1>3

LEMMA LevelRaised ==
    ASSUME NEW a \in AlertRecord, a.status = "OPEN"
    PROVE  LET b == [a EXCEPT !.level = @ + 1] IN b \in AlertRecord /\ Follows(a, b)
BY DEF AlertRecord, Follows

LEMMA EngineStep ==
    ASSUME EngineOK, EngineNext
    PROVE  EngineOK' /\ \A i \in DOMAIN alerts : Follows(alerts[i], alerts'[i])
<1>1. /\ DOMAIN alerts = 1..Len(alerts) /\ Len(alerts) \in Nat
      /\ \A i \in DOMAIN alerts : alerts[i] \in AlertRecord
    BY LenProperties, ElementOfSeq DEF EngineOK
<1>2. ASSUME UNCHANGED <<alerts, latest>>
      PROVE  EngineOK' /\ \A i \in DOMAIN alerts : Follows(alerts[i], alerts'[i])
    BY <1>2 DEF EngineOK, Follows
<1>3. ASSUME NEW i \in DOMAIN alerts, NEW b, b \in AlertRecord, Follows(alerts[i], b),
             alerts' = [alerts EXCEPT ![i] = b], UNCHANGED latest
      PROVE  EngineOK' /\ \A j \in DOMAIN alerts : Follows(alerts[j], alerts'[j])
  <2>1. alerts' \in Seq(AlertRecord) /\ Len(alerts') = Len(alerts)
    BY <1>1, <1>3, ExceptSeq DEF EngineOK
  <2>2. \A j \in DOMAIN alerts : alerts'[j] = IF j = i THEN b ELSE alerts[j]
    BY <1>3
  <2> QED BY <1>3, <2>1, <2>2 DEF EngineOK, Follows
<1>4. ASSUME NEW f \in Fingerprints, NEW p \in Priorities, NEW t \in Moments,
             Observe(f, p, t)
      PROVE  EngineOK' /\ \A i \in DOMAIN alerts : Follows(alerts[i], alerts'[i])
  <2>1. PICK last : last = latest[f]
    OBVIOUS
  <2>2. last \in 0..Len(alerts)
    BY <2>1 DEF EngineOK
  <2>3. PICK new : new = [fingerprint |-> f, priority |-> p, created |-> t,
                          status |-> "OPEN", duplicates |-> 0, level |-> 0]
    OBVIOUS
  <2>4. \/ UNCHANGED <<alerts, latest>>
        \/ /\ last # 0
           /\ alerts' = [alerts EXCEPT ![last].duplicates = @ + 1] /\ UNCHANGED latest
        \/ /\ alerts' = Append(alerts, new)
           /\ latest' = [latest EXCEPT ![f] = Len(alerts) + 1]
    BY <1>4, <2>1, <2>3 DEF Observe, React
  <2>5. CASE /\ last # 0 /\ UNCHANGED latest
             /\ alerts' = [alerts EXCEPT ![last].duplicates = @ + 1]
    <3>1. PICK b : b = [alerts[last] EXCEPT !.duplicates = @ + 1]
      OBVIOUS
    <3>2. last \in DOMAIN alerts /\ alerts[last] \in AlertRecord
      BY <1>1, <2>2, <2>5
    <3>3. b \in AlertRecord /\ Follows(alerts[last], b)
      BY <3>1, <3>2, DuplicateCounted
    <3>4. alerts' = [alerts EXCEPT ![last] = b]
      BY <2>5, <3>1
    <3> QED BY <1>3, <2>5, <3>2, <3>3, <3>4
  <2>6. CASE alerts' = Append(alerts, new) /\ latest' = [latest EXCEPT ![f] = Len(alerts) + 1]
    <3>1. new \in AlertRecord
      BY <2>3 DEF AlertRecord
    <3>2. /\ alerts' \in Seq(AlertRecord) /\ Len(alerts') = Len(alerts) + 1
          /\ \A i \in 1..Len(alerts) : alerts'[i] = alerts[i]
      BY <2>6, <3>1, AppendProperties DEF EngineOK
    <3>3. latest' \in [Fingerprints -> 0..(Len(alerts) + 1)]
      BY <1>1, <2>6 DEF EngineOK
    <3> QED BY <1>1, <3>2, <3>3 DEF EngineOK, Follows
  <2> QED BY <1>2, <2>4, <2>5, <2>6
<1>5. ASSUME NEW i \in DOMAIN alerts, NEW k \in FeedbackKinds, NEW t \in Moments,
             RecordFeedback(i, k, t)
      PROVE  EngineOK' /\ \A j \in DOMAIN alerts : Follows(alerts[j], alerts'[j])
  <2>1. PICK b : b = [alerts[i] EXCEPT !.status = StatusFor(k, @)]
    OBVIOUS
  <2>2. b \in AlertRecord /\ Follows(alerts[i], b)
    BY <1>1, <2>1, FeedbackApplied
  <2>3. alerts' = [alerts EXCEPT ![i] = b] /\ UNCHANGED latest
    BY <1>5, <2>1 DEF RecordFeedback
  <2> QED BY <1>3, <2>2, <2>3
<1>6. ASSUME NEW t \in Moments, DueEscalations(t)
      PROVE  EngineOK' /\ \A i \in DOMAIN alerts : Follows(alerts[i], alerts'[i])
  <2>1. /\ alerts' = [i \in DOMAIN alerts |->
                         IF Due(alerts[i], t) THEN [alerts[i] EXCEPT !.level = @ + 1]
                         ELSE alerts[i]]
        /\ UNCHANGED latest
    BY <1>6 DEF DueEscalations
  <2>2. ASSUME NEW i \in DOMAIN alerts
        PROVE  alerts'[i] \in AlertRecord /\ Follows(alerts[i], alerts'[i])
    <3>1. CASE Due(alerts[i], t)
      <4>1. alerts'[i] = [alerts[i] EXCEPT !.level = @ + 1] /\ alerts[i].status = "OPEN"
        BY <2>1, <3>1 DEF Due
      <4> QED BY <1>1, <4>1, LevelRaised
    <3>2. CASE ~Due(alerts[i], t)
      BY <1>1, <2>1, <3>2 DEF Follows
    <3> QED BY <3>1, <3>2
  <2>3. alerts' \in Seq(AlertRecord) /\ Len(alerts') = Len(alerts)
    BY <1>1, <2>1, <2>2
  <2> QED BY <2>1, <2>2, <2>3 DEF EngineOK
<1>7. ASSUME NEW f \in Fingerprints, ObserveInactive(f)
      PROVE  EngineOK' /\ \A i \in DOMAIN alerts : Follows(alerts[i], alerts'[i])
    BY <1>2, <1>7 DEF ObserveInactive
<1> QED BY <1>4, <1>5, <1>6, <1>7 DEF EngineNext

(* ClosedAlertsStayClosed: for any number of alerts, fingerprints and      *)
(* feedback, and observations and polls at any instants, an alert          *)
(* record_feedback closed is never open and never escalated again.         *)
THEOREM ClosedAlertsStayClosed == BenchSpec => ClosedStaysClosed
<1>1. BenchInit => EngineOK
  <2>1. ASSUME BenchInit PROVE EngineOK
    <3>1. alerts = <<>> /\ latest = [f \in Fingerprints |-> 0]
      BY <2>1 DEF BenchInit, EngineInit
    <3>2. alerts \in Seq(AlertRecord) /\ Len(alerts) = 0
      BY <3>1, EmptySeq
    <3> QED BY <3>1, <3>2 DEF EngineOK
  <2> QED BY <2>1
<1>2. ASSUME EngineOK, [BenchNext]_benchVars
      PROVE  /\ EngineOK'
             /\ [\A i \in DOMAIN alerts :
                    alerts[i].status # "OPEN" =>
                        /\ alerts'[i].status # "OPEN"
                        /\ alerts'[i].level = alerts[i].level]_engineVars
  <2>1. CASE UseEngine
    <3>1. EngineOK' /\ \A i \in DOMAIN alerts : Follows(alerts[i], alerts'[i])
      BY <1>2, <2>1, EngineStep DEF UseEngine
    <3> QED BY <3>1 DEF Follows
  <2>2. CASE UNCHANGED engineVars
    BY <1>2, <2>2 DEF EngineOK, engineVars
  <2>3. UseEngine \/ UNCHANGED engineVars
    BY <1>2 DEF BenchNext, benchVars, SplitSamples, Gate, AssessEvent, EvaluateDays,
                Answer, UseLedger, UseBatches
  <2> QED BY <2>1, <2>2, <2>3
<1> QED BY <1>1, <1>2, PTL DEF BenchSpec, ClosedStaysClosed

(* Two alerts with the same fingerprint and instant.                       *)
SameOrigin(a, b) == a.fingerprint = b.fingerprint /\ a.created = b.created

(* The latest alert of a fingerprint is the last one raised for it, and    *)
(* none of its alerts was raised after it.                                 *)
LatestOK ==
    \A i \in DOMAIN alerts :
        LET f == alerts[i].fingerprint
        IN  /\ latest[f] # 0 /\ i <= latest[f]
            /\ alerts[latest[f]].fingerprint = f
            /\ alerts[i].created <= alerts[latest[f]].created

RaisedFor(f, t) ==
    \E new :
        /\ alerts' = Append(alerts, new) /\ latest' = [latest EXCEPT ![f] = Len(alerts) + 1]
        /\ new.fingerprint = f /\ new.created = t
        /\ latest[f] # 0 => t - alerts[latest[f]].created >= Cooldown

(* A step raises an alert out of the cooldown, or none.                    *)
LEMMA EngineMoves ==
    ASSUME EngineOK, EngineNext
    PROVE  \/ /\ DOMAIN alerts' = DOMAIN alerts /\ latest' = latest
              /\ \A i \in DOMAIN alerts : SameOrigin(alerts'[i], alerts[i])
           \/ \E f \in Fingerprints, t \in Moments : RaisedFor(f, t)
<1>1. /\ DOMAIN alerts = 1..Len(alerts) /\ Len(alerts) \in Nat
      /\ \A i \in DOMAIN alerts : alerts[i] \in AlertRecord
    BY LenProperties, ElementOfSeq DEF EngineOK
<1>2. ASSUME NEW i \in DOMAIN alerts, NEW b, SameOrigin(b, alerts[i]),
             alerts' = [alerts EXCEPT ![i] = b]
      PROVE  /\ DOMAIN alerts' = DOMAIN alerts
             /\ \A j \in DOMAIN alerts : SameOrigin(alerts'[j], alerts[j])
    BY <1>2 DEF SameOrigin
<1>3. ASSUME NEW a \in AlertRecord, NEW x
      PROVE  /\ SameOrigin([a EXCEPT !.duplicates = x], a)
             /\ SameOrigin([a EXCEPT !.status = x], a)
             /\ SameOrigin([a EXCEPT !.level = x], a)
    BY DEF AlertRecord, SameOrigin
<1>4. ASSUME NEW f \in Fingerprints, NEW p \in Priorities, NEW t \in Moments,
             Observe(f, p, t)
      PROVE  \/ /\ DOMAIN alerts' = DOMAIN alerts /\ latest' = latest
                /\ \A i \in DOMAIN alerts : SameOrigin(alerts'[i], alerts[i])
             \/ RaisedFor(f, t)
  <2>1. PICK last : last = latest[f]
    OBVIOUS
  <2>2. last \in 0..Len(alerts)
    BY <2>1 DEF EngineOK
  <2>3. PICK new : new = [fingerprint |-> f, priority |-> p, created |-> t,
                          status |-> "OPEN", duplicates |-> 0, level |-> 0]
    OBVIOUS
  <2>4. \/ UNCHANGED <<alerts, latest>>
        \/ /\ last # 0 /\ UNCHANGED latest
           /\ alerts' = [alerts EXCEPT ![last].duplicates = @ + 1]
        \/ /\ last # 0 => ~(t - alerts[last].created < Cooldown)
           /\ alerts' = Append(alerts, new)
           /\ latest' = [latest EXCEPT ![f] = Len(alerts) + 1]
    BY <1>4, <2>1, <2>3 DEF Observe, React
  <2>5. CASE UNCHANGED <<alerts, latest>>
    BY <2>5 DEF SameOrigin
  <2>6. CASE /\ last # 0 /\ UNCHANGED latest
             /\ alerts' = [alerts EXCEPT ![last].duplicates = @ + 1]
    <3>1. PICK b : b = [alerts[last] EXCEPT !.duplicates = @ + 1]
      OBVIOUS
    <3>2. last \in DOMAIN alerts /\ alerts[last] \in AlertRecord
      BY <1>1, <2>2, <2>6
    <3>3. SameOrigin(b, alerts[last])
      BY <1>3, <3>1, <3>2
    <3>4. alerts' = [alerts EXCEPT ![last] = b]
      BY <2>6, <3>1
    <3> QED BY <1>2, <2>6, <3>2, <3>3, <3>4
  <2>7. CASE /\ last # 0 => ~(t - alerts[last].created < Cooldown)
             /\ alerts' = Append(alerts, new)
             /\ latest' = [latest EXCEPT ![f] = Len(alerts) + 1]
    <3>1. last # 0 => t - alerts[last].created >= Cooldown
      <4>1. ASSUME last # 0 PROVE alerts[last].created \in Nat
        BY <1>1, <2>2, <4>1, AlertEngineAssumption DEF AlertRecord, Moments
      <4> QED BY <2>7, <4>1, AlertEngineAssumption DEF Moments
    <3>2. new.fingerprint = f /\ new.created = t
      BY <2>3
    <3> QED BY <2>1, <2>7, <3>1, <3>2 DEF RaisedFor
  <2> QED BY <2>4, <2>5, <2>6, <2>7
<1>5. ASSUME NEW i \in DOMAIN alerts, NEW k \in FeedbackKinds, NEW t \in Moments,
             RecordFeedback(i, k, t)
      PROVE  /\ DOMAIN alerts' = DOMAIN alerts /\ latest' = latest
             /\ \A j \in DOMAIN alerts : SameOrigin(alerts'[j], alerts[j])
  <2>1. PICK b : b = [alerts[i] EXCEPT !.status = StatusFor(k, @)]
    OBVIOUS
  <2>2. SameOrigin(b, alerts[i])
    BY <1>1, <1>3, <2>1
  <2>3. alerts' = [alerts EXCEPT ![i] = b] /\ UNCHANGED latest
    BY <1>5, <2>1 DEF RecordFeedback
  <2> QED BY <1>2, <2>2, <2>3
<1>6. ASSUME NEW t \in Moments, DueEscalations(t)
      PROVE  /\ DOMAIN alerts' = DOMAIN alerts /\ latest' = latest
             /\ \A i \in DOMAIN alerts : SameOrigin(alerts'[i], alerts[i])
  <2>1. /\ alerts' = [i \in DOMAIN alerts |->
                         IF Due(alerts[i], t) THEN [alerts[i] EXCEPT !.level = @ + 1]
                         ELSE alerts[i]]
        /\ UNCHANGED latest
    BY <1>6 DEF DueEscalations
  <2>2. ASSUME NEW i \in DOMAIN alerts PROVE SameOrigin(alerts'[i], alerts[i])
    <3>1. \/ alerts'[i] = [alerts[i] EXCEPT !.level = @ + 1] \/ alerts'[i] = alerts[i]
      BY <2>1
    <3>2. SameOrigin([alerts[i] EXCEPT !.level = @ + 1], alerts[i])
      BY <1>1, <1>3
    <3> QED BY <3>1, <3>2 DEF SameOrigin
  <2> QED BY <2>1, <2>2
<1>7. ASSUME NEW f \in Fingerprints, ObserveInactive(f)
      PROVE  /\ DOMAIN alerts' = DOMAIN alerts /\ latest' = latest
             /\ \A i \in DOMAIN alerts : SameOrigin(alerts'[i], alerts[i])
    BY <1>7 DEF ObserveInactive, SameOrigin
<1> QED BY <1>4, <1>5, <1>6, <1>7 DEF EngineNext

(* Every step keeps the distance.                                          *)
LEMMA SpacedStep ==
    ASSUME EngineOK, LatestOK, AlertsSpaced, EngineNext
    PROVE  LatestOK' /\ AlertsSpaced'
<1>1. /\ DOMAIN alerts = 1..Len(alerts) /\ Len(alerts) \in Nat
      /\ \A i \in DOMAIN alerts : alerts[i] \in AlertRecord
    BY LenProperties, ElementOfSeq DEF EngineOK
<1>2. \A i \in DOMAIN alerts : alerts[i].created \in Nat /\ alerts[i].fingerprint \in Fingerprints
    BY <1>1, AlertEngineAssumption DEF AlertRecord, Moments
<1>3. \A i \in DOMAIN alerts : latest[alerts[i].fingerprint] \in DOMAIN alerts
    BY <1>1, <1>2 DEF EngineOK, LatestOK
<1>4. CASE /\ DOMAIN alerts' = DOMAIN alerts /\ latest' = latest
           /\ \A i \in DOMAIN alerts : SameOrigin(alerts'[i], alerts[i])
  <2>1. LatestOK'
    BY <1>3, <1>4 DEF LatestOK, SameOrigin
  <2>2. AlertsSpaced'
    BY <1>4 DEF AlertsSpaced, SameOrigin
  <2> QED BY <2>1, <2>2
<1>5. ASSUME NEW f \in Fingerprints, NEW t \in Moments, RaisedFor(f, t)
      PROVE  LatestOK' /\ AlertsSpaced'
  <2>1. PICK new :
            /\ alerts' = Append(alerts, new) /\ latest' = [latest EXCEPT ![f] = Len(alerts) + 1]
            /\ new.fingerprint = f /\ new.created = t
            /\ latest[f] # 0 => t - alerts[latest[f]].created >= Cooldown
    BY <1>5 DEF RaisedFor
  <2>2. PICK n : n = Len(alerts)
    OBVIOUS
  <2>3. /\ DOMAIN alerts' = 1..(n + 1) /\ alerts'[n + 1] = new
        /\ \A i \in 1..n : alerts'[i] = alerts[i]
    BY <1>1, <2>1, <2>2
  <2>4. latest'[f] = n + 1 /\ \A g \in Fingerprints \ {f} : latest'[g] = latest[g]
    BY <2>1, <2>2 DEF EngineOK
  <2>5. t \in Nat /\ Cooldown \in Nat /\ n \in Nat /\ DOMAIN alerts = 1..n
    BY <1>1, <2>2, AlertEngineAssumption DEF Moments
  <2>6. ASSUME NEW i \in 1..n, alerts[i].fingerprint = f
        PROVE  t - alerts[i].created >= Cooldown
    <3>1. PICK c, d : c = alerts[i].created /\ d = alerts[latest[f]].created
      OBVIOUS
    <3>2. c \in Nat /\ d \in Nat /\ c <= d /\ latest[f] # 0
      BY <1>2, <1>3, <2>5, <2>6, <3>1 DEF LatestOK
    <3>3. t - d >= Cooldown
      BY <2>1, <3>1, <3>2
    <3>4. t - c >= Cooldown
      BY <2>5, <3>2, <3>3
    <3> QED BY <3>1, <3>4
  <2>7. ASSUME NEW i \in 1..(n + 1)
        PROVE  LET g == alerts'[i].fingerprint
               IN  /\ latest'[g] # 0 /\ i <= latest'[g]
                   /\ alerts'[latest'[g]].fingerprint = g
                   /\ alerts'[i].created <= alerts'[latest'[g]].created
    <3>1. CASE i = n + 1
      BY <2>1, <2>3, <2>4, <2>5, <3>1
    <3>2. CASE i # n + 1 /\ alerts'[i].fingerprint = f
      <4>1. i \in 1..n /\ alerts[i].fingerprint = f /\ alerts'[i] = alerts[i]
        BY <2>3, <2>5, <3>2
      <4>2. PICK c : c = alerts[i].created
        OBVIOUS
      <4>3. t - c >= Cooldown /\ c \in Nat
        BY <1>2, <2>5, <2>6, <4>1, <4>2
      <4>4. c <= t
        BY <2>5, <4>3
      <4>5. i <= n + 1 /\ n + 1 # 0
        BY <2>5
      <4> QED BY <2>1, <2>3, <2>4, <3>2, <4>1, <4>2, <4>4, <4>5
    <3>3. CASE i # n + 1 /\ alerts'[i].fingerprint # f
      <4>1. i \in 1..n /\ alerts'[i] = alerts[i]
        BY <2>3, <2>5, <3>3
      <4>2. PICK g : g = alerts[i].fingerprint
        OBVIOUS
      <4>3. g \in Fingerprints \ {f} /\ latest'[g] = latest[g] /\ latest[g] \in 1..n
        BY <1>2, <1>3, <2>4, <2>5, <3>3, <4>1, <4>2
      <4>4. alerts'[latest[g]] = alerts[latest[g]]
        BY <2>3, <4>3
      <4> QED BY <2>5, <4>1, <4>2, <4>3, <4>4 DEF LatestOK
    <3> QED BY <3>1, <3>2, <3>3
  <2>8. LatestOK'
    BY <2>3, <2>7 DEF LatestOK
  <2>9. ASSUME NEW i \in 1..(n + 1), NEW j \in 1..(n + 1), i < j,
               alerts'[i].fingerprint = alerts'[j].fingerprint
        PROVE  alerts'[j].created - alerts'[i].created >= Cooldown
    <3>1. i \in 1..n /\ alerts'[i] = alerts[i]
      BY <2>3, <2>5, <2>9
    <3>2. CASE j = n + 1
      BY <2>1, <2>3, <2>6, <2>9, <3>1, <3>2
    <3>3. CASE j # n + 1
      <4>1. j \in 1..n /\ alerts'[j] = alerts[j]
        BY <2>3, <2>5, <3>3
      <4> QED BY <2>5, <2>9, <3>1, <4>1 DEF AlertsSpaced
    <3> QED BY <3>2, <3>3
  <2>10. AlertsSpaced'
    BY <2>3, <2>9 DEF AlertsSpaced
  <2> QED BY <2>8, <2>10
<1> QED BY <1>4, <1>5, EngineMoves

(* Whatever order observations come in, two alerts of one fingerprint are  *)
(* at least a cooldown apart and the later one was raised later (observe). *)
THEOREM AlertsKeepTheirDistance == BenchSpec => []AlertsSpaced
<1>1. BenchInit => EngineOK /\ LatestOK /\ AlertsSpaced
  <2>1. ASSUME BenchInit PROVE EngineOK /\ LatestOK /\ AlertsSpaced
    <3>1. alerts = <<>> /\ latest = [f \in Fingerprints |-> 0]
      BY <2>1 DEF BenchInit, EngineInit
    <3>2. alerts \in Seq(AlertRecord) /\ Len(alerts) = 0 /\ DOMAIN alerts = {}
      BY <3>1, EmptySeq
    <3> QED BY <3>1, <3>2 DEF EngineOK, LatestOK, AlertsSpaced
  <2> QED BY <2>1
<1>2. ASSUME EngineOK, LatestOK, AlertsSpaced, [BenchNext]_benchVars
      PROVE  EngineOK' /\ LatestOK' /\ AlertsSpaced'
  <2>1. CASE UseEngine
    BY <1>2, <2>1, EngineStep, SpacedStep DEF UseEngine
  <2>2. CASE UNCHANGED engineVars
    BY <1>2, <2>2 DEF EngineOK, LatestOK, AlertsSpaced, engineVars
  <2>3. UseEngine \/ UNCHANGED engineVars
    BY <1>2 DEF BenchNext, benchVars, SplitSamples, Gate, AssessEvent, EvaluateDays,
                Answer, UseLedger, UseBatches
  <2> QED BY <2>1, <2>2, <2>3
<1> QED BY <1>1, <1>2, PTL DEF BenchSpec

-----------------------------------------------------------------------------
(* Finite sets of numbers and numbered things.                             *)

(* A set of naturals has a least member.                                   *)
LEMMA LeastNat ==
    ASSUME NEW T \in SUBSET Nat, T # {}
    PROVE  \E n \in T : \A m \in T : n <= m
<1>1. PICK R : R = OpToRel(<, Nat)
    OBVIOUS
<1>2. IsWellFoundedOn(R, Nat)
    BY <1>1, NatLessThanWellFounded
<1>3. PICK n \in T : \A m \in T : ~(<<m, n>> \in R)
    BY <1>2, WFMin
<1>4. \A x, y \in Nat : <<x, y>> \in R <=> x < y
    BY <1>1 DEF OpToRel
<1>5. \A m \in T : ~(m < n)
    BY <1>3, <1>4
<1> QED BY <1>5

(* The things of a finite set with different numbers have the ranks from 1 *)
(* to its size.                                                            *)
RankIn(S, num, x) == Cardinality({y \in S : num[y] <= num[x]})

LEMMA RankRises ==
    ASSUME NEW S, IsFiniteSet(S), NEW num \in [S -> Nat], NEW x \in S, NEW y \in S,
           num[x] < num[y]
    PROVE  RankIn(S, num, x) < RankIn(S, num, y)
<1>1. PICK X, Y : X = {z \in S : num[z] <= num[x]} /\ Y = {z \in S : num[z] <= num[y]}
    OBVIOUS
<1>2. X \in SUBSET Y /\ y \in Y /\ y \notin X /\ Y \in SUBSET S
    BY <1>1
<1>3. IsFiniteSet(Y) /\ IsFiniteSet(X)
    BY <1>2, FS_Subset
<1>4. Cardinality(X) <= Cardinality(Y) /\ Cardinality(X) # Cardinality(Y)
    BY <1>2, <1>3, FS_Subset
<1>5. Cardinality(X) \in Nat /\ Cardinality(Y) \in Nat
    BY <1>3, FS_CardinalityType
<1> QED BY <1>1, <1>4, <1>5 DEF RankIn

LEMMA RankInRange ==
    ASSUME NEW S, IsFiniteSet(S), NEW num \in [S -> Nat], NEW x \in S
    PROVE  RankIn(S, num, x) \in 1..Cardinality(S)
<1>1. PICK X : X = {z \in S : num[z] <= num[x]}
    OBVIOUS
<1>2. X \in SUBSET S /\ x \in X
    BY <1>1
<1>3. IsFiniteSet(X) /\ Cardinality(X) <= Cardinality(S)
    BY <1>2, FS_Subset
<1>4. Cardinality(X) \in Nat /\ Cardinality(S) \in Nat /\ Cardinality(X) # 0
    BY <1>2, <1>3, FS_CardinalityType, FS_EmptySet
<1> QED BY <1>1, <1>3, <1>4 DEF RankIn

LEMMA EveryRank ==
    ASSUME NEW S, IsFiniteSet(S), NEW num \in [S -> Nat],
           \A x, y \in S : num[x] = num[y] => x = y, NEW i \in 1..Cardinality(S)
    PROVE  \E x \in S : RankIn(S, num, x) = i
<1>1. PICK n, rank, T : /\ n = Cardinality(S) /\ rank = [x \in S |-> RankIn(S, num, x)]
                        /\ T = {RankIn(S, num, x) : x \in S}
    OBVIOUS
<1>2. n \in Nat
    BY <1>1, FS_CardinalityType
<1>3. rank \in [S -> T] /\ \A t \in T : \E x \in S : rank[x] = t
    BY <1>1
<1>4. ASSUME NEW x \in S, NEW y \in S, rank[x] = rank[y] PROVE x = y
  <2>1. RankIn(S, num, x) = RankIn(S, num, y) /\ RankIn(S, num, x) \in Nat
    BY <1>1, <1>2, <1>4, RankInRange
  <2>2. ~(num[x] < num[y]) /\ ~(num[y] < num[x])
    BY <2>1, RankRises
  <2> QED BY <2>2
<1>5. rank \in Bijection(S, T)
    BY <1>3, <1>4 DEF Bijection, Injection, Surjection, IsInjective
<1>6. Cardinality(T) = n
    BY <1>1, <1>5, FS_Bijection DEF ExistsBijection
<1>7. T \in SUBSET (1..n)
    BY <1>1, RankInRange
<1>8. IsFiniteSet(1..n) /\ Cardinality(1..n) = n
    BY <1>2, FS_Interval
<1>9. T = 1..n
    BY <1>6, <1>7, <1>8, FS_Subset
<1> QED BY <1>1, <1>9

-----------------------------------------------------------------------------
(* Point-in-time replay.                                                   *)

LEMMA RecordFacts ==
    ASSUME NEW r \in Records
    PROVE  r.key \in Nat /\ r.published \in Nat /\ r.seen \in Nat /\ r.content \in Nat
<1>1. /\ r.key \in LogicalKeys /\ r.published \in 0..LastInstant
      /\ r.seen \in 0..LastInstant /\ r.content \in Contents
    BY DEF Records, Instants
<1>2. LogicalKeys \subseteq Nat /\ Contents \subseteq Nat /\ LastInstant \in Nat
    BY ReplayAssumption
<1>3. r.key \in Nat /\ r.content \in Nat
    BY <1>1, <1>2
<1>4. r.published \in Nat /\ r.seen \in Nat
    BY <1>1, <1>2
<1> QED BY <1>3, <1>4

(* The order of the revisions of a key is strict and total.                *)
LEMMA NewerOrders ==
    /\ \A r, s \in Records : Newer(r, s) => ~Newer(s, r)
    /\ \A r, s, u \in Records : Newer(r, s) /\ Newer(s, u) => Newer(r, u)
    /\ \A r, s \in Records : r.key = s.key /\ r # s => Newer(r, s) \/ Newer(s, r)
<1>1. \A r, s \in Records : Newer(r, s) => ~Newer(s, r)
    BY RecordFacts DEF Newer
<1>2. \A r, s, u \in Records : Newer(r, s) /\ Newer(s, u) => Newer(r, u)
    BY RecordFacts DEF Newer
<1>3. ASSUME NEW r \in Records, NEW s \in Records, r.key = s.key, r # s
      PROVE  Newer(r, s) \/ Newer(s, r)
  <2>1. r.published # s.published \/ r.seen # s.seen \/ r.content # s.content
    BY <1>3 DEF Records
  <2> QED BY <2>1, RecordFacts DEF Newer
<1> QED BY <1>1, <1>2, <1>3

(* Among finitely many revisions of a key there is a newest.               *)
LEMMA NewestExists ==
    ASSUME NEW S \in SUBSET Records, IsFiniteSet(S), S # {},
           \A r, s \in S : r.key = s.key
    PROVE  \E r \in S : \A s \in S \ {r} : Newer(r, s)
<1> DEFINE After(r) == {s \in S : Newer(s, r)}
           T == {Cardinality(After(r)) : r \in S}
<1>1. \A r \in S : IsFiniteSet(After(r)) /\ Cardinality(After(r)) \in Nat
  <2> TAKE r \in S
  <2>1. After(r) \in SUBSET S
    OBVIOUS
  <2> QED BY <2>1, FS_Subset, FS_CardinalityType
<1>2. T \in SUBSET Nat /\ T # {}
    BY <1>1
<1>3. PICK n \in T : \A m \in T : n <= m
    BY <1>2, LeastNat
<1>4. PICK r \in S : n = Cardinality(After(r))
    BY <1>3
<1>5. ASSUME NEW s \in S \ {r}, ~Newer(r, s) PROVE FALSE
  <2>1. Newer(s, r) /\ s \in S /\ r \in Records /\ s \in Records
    BY <1>5, NewerOrders
  <2>2. After(s) \in SUBSET After(r) /\ s \in After(r) /\ s \notin After(s)
    BY <2>1, NewerOrders
  <2>3. PICK X, Y : X = After(s) /\ Y = After(r)
    OBVIOUS
  <2>4. IsFiniteSet(Y) /\ X \in SUBSET Y /\ X # Y
    BY <1>1, <2>2, <2>3
  <2>5. Cardinality(X) <= Cardinality(Y) /\ Cardinality(X) # Cardinality(Y)
    BY <2>4, FS_Subset
  <2>6. Cardinality(X) \in Nat /\ Cardinality(Y) \in Nat /\ Cardinality(X) \in T
    BY <1>1, <2>1, <2>3
  <2>7. Cardinality(Y) <= Cardinality(X)
    BY <1>3, <1>4, <2>3, <2>6
  <2> QED BY <2>5, <2>6, <2>7
<1> QED BY <1>5

(* What was seen by t, and the view of it.                                 *)
SeenBy(records, t) == {r \in records : r.seen <= t}

Newest(r, shown) == \A s \in shown \ {r} : s.key = r.key => Newer(r, s)

LEMMA ObservedView ==
    ASSUME NEW records, NEW t
    PROVE  Visible(records, t, "OBSERVED")
             = {r \in SeenBy(records, t) : Newest(r, SeenBy(records, t))}
BY DEF Visible, VisibleAt, SeenBy, Newest

LEMMA EveryKeyIsShown ==
    ASSUME NEW shown \in SUBSET Records, IsFiniteSet(shown), NEW r \in shown
    PROVE  \E s \in shown : s.key = r.key /\ Newest(s, shown)
<1>1. PICK S : S = {s \in shown : s.key = r.key}
    OBVIOUS
<1>2. S \in SUBSET shown /\ S \in SUBSET Records /\ r \in S /\ \A s, u \in S : s.key = u.key
    BY <1>1
<1>3. IsFiniteSet(S)
    BY <1>2, FS_Subset
<1>4. PICK s \in S : \A u \in S \ {s} : Newer(s, u)
    BY <1>2, <1>3, NewestExists
<1> QED BY <1>1, <1>4 DEF Newest

(* When replay accepts a manifest.                                         *)
EntrySound(e, records, t, visible) ==
    /\ e.id \in records /\ e.id.seen <= t
    /\ e.hash = e.id.content /\ e.key = e.id.key /\ e.id \in visible

Accepts(records, m) ==
    LET visible == Visible(records, m.as_of, "OBSERVED")
    IN  /\ m.digest = <<m.as_of, m.entries>>
        /\ \A i \in DOMAIN m.entries : EntrySound(m.entries[i], records, m.as_of, visible)
        /\ {m.entries[i].key : i \in DOMAIN m.entries} = {r.key : r \in visible}

Named(m) == [ok |-> TRUE, records |-> [i \in DOMAIN m.entries |-> m.entries[i].id]]

LEMMA ReplayAnswer ==
    ASSUME NEW records, NEW m
    PROVE  Replayed(records, m) = IF Accepts(records, m) THEN Named(m) ELSE Refused
BY DEF Replayed, Accepts, EntrySound, Named

(* What is accepted with more records was accepted with fewer.             *)
LEMMA RefusalIsFinal ==
    ASSUME NEW A \in SUBSET Records, NEW B \in SUBSET Records, A \subseteq B,
           IsFiniteSet(B), NEW m, \A i \in DOMAIN m.entries : m.entries[i].id \in A,
           Accepts(B, m)
    PROVE  Accepts(A, m)
<1>1. PICK t, old, new, va, vb :
         /\ t = m.as_of /\ old = SeenBy(A, t) /\ new = SeenBy(B, t)
         /\ va = Visible(A, t, "OBSERVED") /\ vb = Visible(B, t, "OBSERVED")
    OBVIOUS
<1>2. /\ va = {r \in old : Newest(r, old)} /\ vb = {r \in new : Newest(r, new)}
      /\ old \subseteq new /\ new \in SUBSET Records /\ old \subseteq A
    BY <1>1, ObservedView DEF SeenBy
<1>3. IsFiniteSet(new)
  <2>1. new \in SUBSET B
    BY <1>1 DEF SeenBy
  <2> QED BY <2>1, FS_Subset
<1>4. /\ m.digest = <<t, m.entries>>
      /\ \A i \in DOMAIN m.entries : EntrySound(m.entries[i], B, t, vb)
      /\ {m.entries[i].key : i \in DOMAIN m.entries} = {r.key : r \in vb}
    BY <1>1 DEF Accepts
<1>5. ASSUME NEW i \in DOMAIN m.entries PROVE EntrySound(m.entries[i], A, t, va)
  <2>1. PICK e : e = m.entries[i]
    OBVIOUS
  <2>2. e.id \in A /\ EntrySound(e, B, t, vb)
    BY <1>4, <2>1
  <2>3. e.id \in old /\ Newest(e.id, old)
    BY <1>1, <1>2, <2>2 DEF EntrySound, SeenBy, Newest
  <2> QED BY <1>2, <2>1, <2>2, <2>3 DEF EntrySound
<1>6. \A i \in DOMAIN m.entries : \E r \in va : m.entries[i].key = r.key
    BY <1>5 DEF EntrySound
<1>7. ASSUME NEW r \in va PROVE \E i \in DOMAIN m.entries : m.entries[i].key = r.key
  <2>1. r \in new
    BY <1>2
  <2>2. PICK s \in new : s.key = r.key /\ Newest(s, new)
    BY <1>2, <1>3, <2>1, EveryKeyIsShown
  <2>3. s \in vb /\ s.key = r.key
    BY <1>2, <2>2
  <2> QED BY <1>4, <2>3
<1>8. {m.entries[i].key : i \in DOMAIN m.entries} = {r.key : r \in va}
    BY <1>6, <1>7
<1> QED BY <1>1, <1>4, <1>5, <1>8 DEF Accepts

(* A record seen later than the manifest's instant changes nothing.        *)
LEMMA LaterChangesNothing ==
    ASSUME NEW A, NEW B, A \subseteq B, NEW m,
           \A r \in B \ A : ~(r.seen <= m.as_of), Accepts(A, m)
    PROVE  Accepts(B, m)
<1>1. SeenBy(B, m.as_of) = SeenBy(A, m.as_of)
    BY DEF SeenBy
<1>2. Visible(B, m.as_of, "OBSERVED") = Visible(A, m.as_of, "OBSERVED")
    BY <1>1, ObservedView
<1>3. PICK v : v = Visible(A, m.as_of, "OBSERVED")
    OBVIOUS
<1>4. /\ m.digest = <<m.as_of, m.entries>>
      /\ \A i \in DOMAIN m.entries : EntrySound(m.entries[i], A, m.as_of, v)
      /\ {m.entries[i].key : i \in DOMAIN m.entries} = {r.key : r \in v}
    BY <1>3 DEF Accepts
<1>5. \A i \in DOMAIN m.entries : EntrySound(m.entries[i], B, m.as_of, v)
    BY <1>4 DEF EntrySound
<1> QED BY <1>2, <1>3, <1>4, <1>5 DEF Accepts

LEMMA ViewIsKept ==
    ASSUME NEW A \in SUBSET Records, NEW B \in SUBSET Records, A \subseteq B,
           IsFiniteSet(B), NEW m, \A i \in DOMAIN m.entries : m.entries[i].id \in A
    PROVE  LET before == Replayed(A, m)
               after  == Replayed(B, m)
           IN  /\ after \in {before, Refused}
               /\ after # before => \E r \in B \ A : r.seen <= m.as_of
<1>1. PICK before, after : before = Replayed(A, m) /\ after = Replayed(B, m)
    OBVIOUS
<1>2. /\ before = IF Accepts(A, m) THEN Named(m) ELSE Refused
      /\ after = IF Accepts(B, m) THEN Named(m) ELSE Refused
    BY <1>1, ReplayAnswer
<1>3. Accepts(B, m) => Accepts(A, m)
    BY RefusalIsFinal
<1>4. Accepts(A, m) /\ ~Accepts(B, m) => \E r \in B \ A : r.seen <= m.as_of
    BY LaterChangesNothing
<1>5. after \in {before, Refused}
    BY <1>2, <1>3
<1>6. after # before => \E r \in B \ A : r.seen <= m.as_of
    BY <1>2, <1>3, <1>4
<1> QED BY <1>1, <1>5, <1>6

(* A manifest names records of the view it is made from.                   *)
LEMMA ManifestNames ==
    ASSUME NEW A \in SUBSET Records, IsFiniteSet(A), NEW t, NEW visibility,
           NEW m, m = ManifestOf(t, Visible(A, t, visibility))
    PROVE  \A i \in DOMAIN m.entries : m.entries[i].id \in A
<1>1. PICK view, num : /\ view = Visible(A, t, visibility)
                       /\ num = [r \in view |-> r.key]
    OBVIOUS
<1>2. view \in SUBSET A /\ view \in SUBSET Records
    BY <1>1 DEF Visible
<1>3. IsFiniteSet(view)
    BY <1>2, FS_Subset
<1>4. num \in [view -> Nat]
    BY <1>1, <1>2, RecordFacts
<1>5. ASSUME NEW r \in view, NEW s \in view, num[r] = num[s] PROVE r = s
  <2>1. r.key = s.key /\ r \in Records /\ s \in Records
    BY <1>1, <1>2, <1>5
  <2>2. r # s => Newer(r, s) /\ Newer(s, r)
    BY <1>1, <2>1 DEF Visible
  <2> QED BY <2>1, <2>2, NewerOrders
<1>6. ASSUME NEW i \in 1..Cardinality(view)
      PROVE  \E r \in view : Cardinality({s \in view : s.key <= r.key}) = i
  <2>1. PICK r \in view : RankIn(view, num, r) = i
    BY <1>3, <1>4, <1>5, EveryRank
  <2>2. {s \in view : num[s] <= num[r]} = {s \in view : s.key <= r.key}
    BY <1>1
  <2> QED BY <2>1, <2>2 DEF RankIn
<1>7. PICK ordered : ordered = ByKey(view)
    OBVIOUS
<1>8. DOMAIN ordered = 1..Cardinality(view) /\ \A i \in 1..Cardinality(view) : ordered[i] \in view
    BY <1>6, <1>7 DEF ByKey
<1>9. m.entries = [i \in DOMAIN ordered |-> EntryOf(ordered[i])]
    BY <1>1, <1>7 DEF ManifestOf
<1> QED BY <1>2, <1>8, <1>9 DEF EntryOf

ReplayInv ==
    /\ appended \subseteq Records /\ IsFiniteSet(appended)
    /\ \A i \in DOMAIN held.entries : held.entries[i].id \in appended

LEMMA ReplayStep ==
    ASSUME ReplayInv, ReplayNext
    PROVE  ReplayInv' /\ appended \subseteq appended'
<1>1. ASSUME NEW r \in Records, AppendRecord(r) \/ AppendBatch(r)
      PROVE  ReplayInv' /\ appended \subseteq appended'
  <2>1. appended' = appended \union {r} /\ held' = held
    BY <1>1 DEF AppendRecord, AppendBatch
  <2>2. IsFiniteSet(appended')
    BY <2>1, FS_AddElement DEF ReplayInv
  <2> QED BY <2>1, <2>2 DEF ReplayInv
<1>2. ASSUME NEW t \in Instants, BuildManifest(t) \/ EmitManifest(t)
      PROVE  ReplayInv' /\ appended \subseteq appended'
  <2>1. PICK visibility :
           held' = ManifestOf(t, Visible(appended, t, visibility)) /\ appended' = appended
    BY <1>2 DEF BuildManifest, EmitManifest
  <2>2. \A i \in DOMAIN held'.entries : held'.entries[i].id \in appended
    BY <2>1, ManifestNames DEF ReplayInv
  <2> QED BY <2>1, <2>2 DEF ReplayInv
<1> QED BY <1>1, <1>2 DEF ReplayNext

(* ReplayIsStable: for any records, back-dated ones too, and manifests of  *)
(* both ledgers, a held manifest replays to the same records or is refused *)
(* from then on, and only a record back-dated to before its instant makes  *)
(* replay refuse it.                                                       *)
THEOREM ReplayIsStable == BenchSpec => ReplayNeverDrifts
<1>1. ASSUME BenchInit PROVE ReplayInv
  <2>1. appended = {} /\ held.entries = <<>>
    BY <1>1 DEF BenchInit, ReplayInit, NoManifest
  <2> QED BY <2>1, FS_EmptySet DEF ReplayInv
<1>2. ASSUME ReplayInv, [BenchNext]_benchVars
      PROVE  /\ ReplayInv'
             /\ [held' = held =>
                   LET before == Replayed(appended, held)
                       after  == Replayed(appended', held)
                   IN  /\ after \in {before, Refused}
                       /\ after # before =>
                              \E r \in appended' \ appended : r.seen <= held.as_of
                ]_replayVars
  <2>1. CASE UseLedger
    <3>1. ReplayInv' /\ appended \subseteq appended'
      BY <1>2, <2>1, ReplayStep DEF UseLedger
    <3>2. /\ appended \in SUBSET Records /\ appended' \in SUBSET Records
          /\ IsFiniteSet(appended')
          /\ \A i \in DOMAIN held.entries : held.entries[i].id \in appended
      BY <1>2, <3>1 DEF ReplayInv, Records, Instants
    <3> QED BY <3>1, <3>2, ViewIsKept
  <2>2. CASE UNCHANGED replayVars
    BY <1>2, <2>2 DEF ReplayInv, replayVars, Records, Instants
  <2>3. UseLedger \/ UNCHANGED replayVars
    BY <1>2 DEF BenchNext, benchVars, SplitSamples, Gate, AssessEvent, EvaluateDays,
                Answer, UseEngine, UseBatches
  <2> QED BY <2>1, <2>2, <2>3
<1> QED BY <1>1, <1>2, PTL DEF BenchSpec, ReplayNeverDrifts

-----------------------------------------------------------------------------
(* The label and feature batches.                                          *)

(* Max and Min of sets of days or of positions.                            *)
LEMMA GreatestOf ==
    ASSUME NEW n \in Nat, NEW T \in SUBSET (0..n), T # {}
    PROVE  Max(T) \in T /\ \A k \in T : k <= Max(T)
<1>1. PICK U : U = {n - k : k \in T}
    OBVIOUS
<1>2. U \in SUBSET Nat /\ U # {}
  <2>1. \A k \in T : n - k \in Nat
    OBVIOUS
  <2>2. \E k \in T : n - k \in U
    BY <1>1
  <2> QED BY <1>1, <2>1, <2>2
<1>3. PICK u \in U : \A m \in U : u <= m
    BY <1>2, LeastNat
<1>4. PICK x \in T : u = n - x
    BY <1>1
<1>5. ASSUME NEW k \in T PROVE x >= k
  <2>1. n - k \in U
    BY <1>1
  <2>2. u <= n - k
    BY <1>3, <2>1
  <2>3. k \in Int /\ x \in Int
    OBVIOUS
  <2> QED BY <1>4, <2>2, <2>3
<1>6. Max(T) \in T /\ \A k \in T : Max(T) >= k
  <2>1. \E y \in T : \A k \in T : y >= k
    BY <1>5
  <2> QED BY <2>1 DEF Max
<1>7. \A k \in T : k \in Int
    OBVIOUS
<1>8. PICK m : m = Max(T)
    OBVIOUS
<1>9. m \in T /\ \A k \in T : m >= k
    BY <1>6, <1>8
<1>10. m \in Int /\ \A k \in T : k <= m
    BY <1>7, <1>9
<1> QED BY <1>8, <1>9, <1>10

LEMMA LeastOf ==
    ASSUME NEW T \in SUBSET Nat, T # {}
    PROVE  Min(T) \in T
<1>1. \E x \in T : \A y \in T : x <= y
    BY LeastNat
<1> QED BY <1>1, Zenon DEF Min

DayBars == Seq([ts : Int, price : Int])
Ordered(bars) == \A i, j \in DOMAIN bars : i < j => bars[i].ts < bars[j].ts

LEMMA BarFacts ==
    ASSUME NEW bars \in DayBars
    PROVE  /\ bars \in Seq([ts : Int, price : Int])
           /\ Len(bars) \in Nat /\ DOMAIN bars = 1..Len(bars)
           /\ \A i \in 1..Len(bars) : /\ bars[i] \in [ts : Int, price : Int]
                                       /\ bars[i].ts \in Int
<1>1. \A i \in 1..Len(bars) : bars[i] \in [ts : Int, price : Int]
    BY ElementOfSeq DEF DayBars
<1>2. \A i \in 1..Len(bars) : bars[i].ts \in Int
    BY <1>1
<1> QED BY <1>1, <1>2, LenProperties DEF DayBars

(* The positions at or before an instant are an initial segment.           *)
Through(bars, t) == {i \in DOMAIN bars : bars[i].ts <= t}
LastAt(bars, t) == Max(Through(bars, t))
Within(bars, entry, close) ==
    {i \in DOMAIN bars : entry < bars[i].ts /\ bars[i].ts <= close}

LEMMA UpTo ==
    ASSUME NEW bars \in DayBars, Ordered(bars), NEW t \in Int,
           Through(bars, t) # {}
    PROVE  /\ LastAt(bars, t) \in 1..Len(bars)
           /\ Through(bars, t) = 1..LastAt(bars, t)
<1> DEFINE T == Through(bars, t)
           m == Max(T)
<1>0. T = {k \in DOMAIN bars : bars[k].ts <= t} /\ T # {}
    BY DEF Through
<1> HIDE DEF T
<1>1. Len(bars) \in Nat /\ DOMAIN bars = 1..Len(bars)
    BY BarFacts
<1>2. T \in SUBSET (0..Len(bars))
    BY <1>0, <1>1
<1>3. m \in T /\ \A k \in T : k <= m
    BY <1>0, <1>1, <1>2, GreatestOf
<1> HIDE DEF m
<1>4. m \in 1..Len(bars)
    BY <1>0, <1>1, <1>3
<1>5. ASSUME NEW k \in 1..m PROVE k \in T
  <2>1. k \in DOMAIN bars /\ m \in DOMAIN bars /\ (k = m \/ k < m)
    BY <1>1, <1>4
  <2>2. bars[k] \in [ts : Int, price : Int] /\ bars[m] \in [ts : Int, price : Int]
    BY <1>1, <2>1, BarFacts
  <2>3. k < m => bars[k].ts < bars[m].ts
    BY <2>1 DEF Ordered
  <2>4. bars[m].ts <= t
    BY <1>0, <1>3
  <2>5. bars[k].ts \in Int /\ bars[m].ts \in Int
    BY <2>2
  <2> QED BY <1>0, <2>1, <2>3, <2>4, <2>5
<1>6. ASSUME NEW k \in T PROVE k \in 1..m
    BY <1>0, <1>1, <1>3, <1>4
<1> QED BY <1>4, <1>5, <1>6 DEF T, m, LastAt
(* The excursion of a covered day, from the position of its entry price    *)
(* and the position of its last observation.                               *)
Moves(bars, window, price) == {0} \union {bars[i].price - price : i \in window}
Falls(bars, window, price) == {0} \union {price - bars[i].price : i \in window}

CoveredFrom(bars, a, b, close) ==
    /\ \A i \in (a + 1)..b : bars[i].ts - bars[i - 1].ts <= MaxGap
    /\ close - bars[b].ts <= MaxGap

LEMMA Between ==
    ASSUME NEW a \in Nat, NEW b \in Nat, (1..b) \ (1..a) # {}
    PROVE  /\ (1..b) \ (1..a) = (a + 1)..b /\ a < b
           /\ Max((1..b) \ (1..a)) = b
<1>1. (1..b) \ (1..a) = (a + 1)..b
    OBVIOUS
<1>2. a < b
    OBVIOUS
<1>3. /\ (a + 1)..b \in SUBSET (0..b) /\ (a + 1)..b # {} /\ b \in (a + 1)..b
    BY <1>2
<1>4. PICK m : m = Max((a + 1)..b)
    OBVIOUS
<1>5. m \in (a + 1)..b /\ \A k \in (a + 1)..b : k <= m
    BY <1>3, <1>4, GreatestOf
<1>6. m = b
    BY <1>3, <1>5
<1> QED BY <1>1, <1>2, <1>4, <1>6

WindowAt(bars, entry, close, a, b) ==
    /\ a \in 1..Len(bars) /\ b \in 1..Len(bars) /\ a < b
    /\ Through(bars, entry) = 1..a /\ Within(bars, entry, close) = (a + 1)..b
    /\ Max(Within(bars, entry, close)) = b

MeasuredAs(e, bars, a, b) ==
    /\ e.covered
    /\ e.price = bars[a].price /\ e.final = bars[b].price
    /\ e.up = Max(Moves(bars, (a + 1)..b, bars[a].price))
    /\ e.down = Max(Falls(bars, (a + 1)..b, bars[a].price))

LEMMA WindowPositions ==
    ASSUME NEW bars \in DayBars, Ordered(bars),
           NEW entry \in Int, NEW close \in Int, entry < close,
           Through(bars, entry) # {}, Within(bars, entry, close) # {},
           NEW a, a = LastAt(bars, entry), NEW b, b = LastAt(bars, close)
    PROVE  WindowAt(bars, entry, close, a, b)
<1>1. Len(bars) \in Nat /\ DOMAIN bars = 1..Len(bars)
    BY BarFacts
<1>2. \A i \in DOMAIN bars : bars[i].ts \in Int
    BY BarFacts
<1>3. /\ Through(bars, close) # {}
      /\ Within(bars, entry, close) = Through(bars, close) \ Through(bars, entry)
    BY <1>2 DEF Through, Within
<1>4. a \in 1..Len(bars) /\ Through(bars, entry) = 1..a
    BY UpTo
<1>5. b \in 1..Len(bars) /\ Through(bars, close) = 1..b
    BY <1>3, UpTo
<1>6. a \in Nat /\ b \in Nat
    BY <1>1, <1>4, <1>5
<1>7. Within(bars, entry, close) = (1..b) \ (1..a)
    BY <1>3, <1>4, <1>5
<1>8. (1..b) \ (1..a) = (a + 1)..b /\ a < b /\ Max((1..b) \ (1..a)) = b
  <2>1. (1..b) \ (1..a) # {}
    BY <1>7
  <2> QED BY ONLY <1>6, <2>1, Between
<1> QED BY <1>4, <1>5, <1>7, <1>8 DEF WindowAt

LEMMA ExcursionIs ==
    ASSUME NEW bars \in DayBars, Ordered(bars),
           NEW entry \in Int, NEW close \in Int, entry < close,
           Through(bars, entry) # {}, Within(bars, entry, close) # {},
           NEW a, a = LastAt(bars, entry), NEW b, b = LastAt(bars, close),
           CoveredFrom(bars, a, b, close),
           NEW e, e = Excursion(bars, entry, close)
    PROVE  MeasuredAs(e, bars, a, b)
<1>1. PICK before, window :
         before = Through(bars, entry) /\ window = Within(bars, entry, close)
    OBVIOUS
<1>2. window = (a + 1)..b /\ Max(window) = b
    BY <1>1, WindowPositions DEF WindowAt
<1>3. PICK covered : covered = (/\ before # {} /\ window # {}
            /\ \A i \in window : bars[i].ts - bars[i - 1].ts <= MaxGap
            /\ close - bars[Max(window)].ts <= MaxGap)
    OBVIOUS
<1>4. covered
    BY <1>1, <1>2, <1>3 DEF CoveredFrom
<1>5. e = [covered |-> covered,
           price |-> IF covered THEN bars[a].price ELSE 0,
           final |-> IF covered THEN bars[Max(window)].price ELSE 0,
           up |-> IF covered THEN Max({0} \union {bars[i].price - bars[a].price :
                                                      i \in window}) ELSE 0,
           down |-> IF covered THEN Max({0} \union {bars[a].price - bars[i].price :
                                                      i \in window}) ELSE 0]
    BY <1>1, <1>3 DEF Excursion, Through, Within, LastAt
<1> QED BY <1>2, <1>4, <1>5 DEF Moves, Falls, MeasuredAs

LEMMA CoveredIs ==
    ASSUME NEW bars, NEW entry, NEW close, Excursion(bars, entry, close).covered
    PROVE  /\ Through(bars, entry) # {} /\ Within(bars, entry, close) # {}
           /\ \A i \in Within(bars, entry, close) : bars[i].ts - bars[i - 1].ts <= MaxGap
           /\ close - bars[Max(Within(bars, entry, close))].ts <= MaxGap
<1>1. PICK before, window :
         before = Through(bars, entry) /\ window = Within(bars, entry, close)
    OBVIOUS
<1>2. PICK covered : covered = (/\ before # {} /\ window # {}
            /\ \A i \in window : bars[i].ts - bars[i - 1].ts <= MaxGap
            /\ close - bars[Max(window)].ts <= MaxGap)
    OBVIOUS
<1>3. Excursion(bars, entry, close).covered = covered
    BY <1>1, <1>2 DEF Excursion, Through, Within
<1> QED BY <1>1, <1>2, <1>3

(* A stretch of a sequence, position by position.                          *)
Cut(bars, a, b) == SubSeq(bars, a, b)

Shows(sub, bars, a, b, n) ==
    /\ n \in Nat /\ 1 < n /\ a \in Nat /\ b \in Nat
    /\ Len(sub) = n /\ DOMAIN sub = 1..n
    /\ \A k \in 1..n : a + k - 1 \in a..b /\ sub[k] = bars[a + k - 1]
    /\ \A i \in a..b : i - a + 1 \in 1..n /\ sub[i - a + 1] = bars[i]
    /\ a..b \subseteq DOMAIN bars

LEMMA CutFacts ==
    ASSUME NEW S, NEW bars \in Seq(S), NEW a \in 1..Len(bars), NEW b \in 1..Len(bars), a < b,
           NEW n, n = b - a + 1
    PROVE  Cut(bars, a, b) \in Seq(S) /\ Shows(Cut(bars, a, b), bars, a, b, n)
<1>1. Len(bars) \in Nat /\ DOMAIN bars = 1..Len(bars)
    BY LenProperties
<1>2. a \in Nat /\ b \in Nat /\ n \in Nat /\ 1 < n /\ a..b \subseteq 1..Len(bars)
    BY <1>1
<1>3. \A i \in a..b : bars[i] \in S
    BY <1>2, ElementOfSeq
<1>4. a \in Int /\ b \in Int /\ a <= b
    BY <1>2
<1>5. PICK sub : sub = Cut(bars, a, b)
    OBVIOUS
<1>6. /\ sub \in Seq(S) /\ Len(sub) = n /\ \A k \in 1..n : sub[k] = bars[a + k - 1]
    BY <1>3, <1>4, <1>5, SubSeqProperties DEF Cut
<1>7. DOMAIN sub = 1..n
    BY <1>6, LenProperties
<1>8. \A k \in 1..n : a + k - 1 \in a..b
    BY <1>2
<1>9. ASSUME NEW i \in a..b PROVE i - a + 1 \in 1..n /\ sub[i - a + 1] = bars[i]
  <2>1. i - a + 1 \in 1..n /\ a + (i - a + 1) - 1 = i
    BY <1>2
  <2> QED BY <1>6, <2>1
<1> QED BY <1>1, <1>2, <1>5, <1>6, <1>7, <1>8, <1>9 DEF Shows

LEMMA ShownLength ==
    ASSUME NEW sub, NEW bars, NEW a, NEW b, NEW n, Shows(sub, bars, a, b, n)
    PROVE  a <= b /\ n = b - a + 1
<1>1. /\ n \in Nat /\ 1 < n /\ a \in Nat /\ b \in Nat
      /\ \A k \in 1..n : a + k - 1 \in a..b
      /\ \A i \in a..b : i - a + 1 \in 1..n
    BY DEF Shows
<1>2. n \in 1..n /\ 1 \in 1..n
    BY <1>1
<1>3. a + n - 1 \in a..b /\ a + 1 - 1 \in a..b
    BY <1>1, <1>2
<1>4. a <= b /\ n <= b - a + 1
    BY <1>1, <1>3
<1>5. b \in a..b
    BY <1>1, <1>4
<1>6. b - a + 1 \in 1..n
    BY <1>1, <1>5
<1> QED BY <1>1, <1>4, <1>6

(* The window of a day, cut out of it: its instants and its coverage.      *)
LEMMA CutWindow ==
    ASSUME NEW bars \in DayBars, Ordered(bars),
           NEW entry \in Int, NEW close \in Int, entry < close,
           NEW a, NEW b, WindowAt(bars, entry, close, a, b), CoveredFrom(bars, a, b, close),
           NEW sub \in DayBars, NEW n, Shows(sub, bars, a, b, n)
    PROVE  /\ Ordered(sub)
           /\ Through(sub, entry) = 1..1 /\ Through(sub, close) = 1..n
           /\ Within(sub, entry, close) = 2..n
           /\ CoveredFrom(sub, 1, n, close)
<1>0. /\ Through(bars, entry) = 1..a /\ Within(bars, entry, close) = (a + 1)..b
      /\ a \in 1..Len(bars)
    BY DEF WindowAt
<1>1. /\ n \in Nat /\ 1 < n /\ a \in Nat /\ b \in Nat
      /\ DOMAIN sub = 1..n
      /\ \A k \in 1..n : a + k - 1 \in a..b /\ sub[k] = bars[a + k - 1]
      /\ a..b \subseteq DOMAIN bars
    BY DEF Shows
<1>12. n = b - a + 1
    BY ShownLength
<1>2. \A k \in 1..n : sub[k].ts \in Int
    BY BarFacts DEF Shows
<1>3. ASSUME NEW i \in 1..n, NEW j \in 1..n, i < j PROVE sub[i].ts < sub[j].ts
  <2>1. PICK x, y : x = a + i - 1 /\ y = a + j - 1
    OBVIOUS
  <2>2. x < y
    BY <1>1, <1>3, <2>1
  <2>3. x \in DOMAIN bars /\ y \in DOMAIN bars
    BY <1>1, <2>1
  <2>4. bars[x].ts < bars[y].ts
    BY <2>2, <2>3 DEF Ordered
  <2> QED BY <1>1, <2>1, <2>4
<1>4. Ordered(sub)
    BY <1>1, <1>3 DEF Ordered
<1>5. ASSUME NEW k \in 1..n
      PROVE  /\ sub[k].ts <= entry <=> k = 1
             /\ sub[k].ts <= close
             /\ entry < sub[k].ts <=> k # 1
  <2>1. PICK x : x = a + k - 1
    OBVIOUS
  <2>2. x \in DOMAIN bars /\ sub[k] = bars[x]
    BY <1>1, <2>1
  <2>5. PICK t : t = bars[x].ts
    OBVIOUS
  <2>6. t \in Int /\ sub[k].ts = t
    BY <1>2, <2>2, <2>5
  <2>3. CASE k = 1
    <3>1. x = a /\ 1 <= a
      BY <1>0, <1>1, <2>1, <2>3
    <3>4. x \in Through(bars, entry)
      BY <1>0, <1>1, <3>1
    <3>2. bars[x].ts <= entry
      BY <3>4 DEF Through
    <3>3. t <= entry /\ t <= close /\ ~(entry < t)
      BY ONLY <2>5, <2>6, <3>2, entry \in Int, close \in Int, entry < close
    <3> QED BY <2>6, <2>3, <3>3
  <2>4. CASE k # 1
    <3>1. x \in Within(bars, entry, close)
      BY <1>0, <1>1, <1>12, <2>1, <2>4
    <3>2. entry < bars[x].ts /\ bars[x].ts <= close
      BY <3>1 DEF Within
    <3>3. ~(t <= entry) /\ t <= close /\ entry < t
      BY ONLY <2>5, <2>6, <3>2, entry \in Int, close \in Int, entry < close
    <3> QED BY <2>6, <2>4, <3>3
  <2> QED BY <2>3, <2>4
<1>6. Through(sub, entry) = 1..1
  <2>1. Through(sub, entry) = {k \in 1..n : k = 1}
    BY <1>1, <1>5 DEF Through
  <2>2. 1 \in 1..n /\ 1..1 = {1}
    BY ONLY <1>1
  <2> QED BY <2>1, <2>2
<1>7. Through(sub, close) = 1..n
    BY <1>1, <1>5 DEF Through
<1>8. Within(sub, entry, close) = 2..n
  <2>1. Within(sub, entry, close) = {k \in 1..n : k # 1}
    BY <1>1, <1>5 DEF Within
  <2>2. ASSUME NEW k \in 2..n PROVE k \in 1..n /\ k # 1
    BY ONLY <1>1, k \in 2..n
  <2>3. ASSUME NEW k \in 1..n, k # 1 PROVE k \in 2..n
    BY ONLY <1>1, k \in 1..n, <2>3
  <2> QED BY <2>1, <2>2, <2>3
<1>9. ASSUME NEW k \in (1 + 1)..n PROVE sub[k].ts - sub[k - 1].ts <= MaxGap
  <2>1. PICK x : x = a + k - 1
    OBVIOUS
  <2>2. /\ k \in 1..n /\ k - 1 \in 1..n /\ x \in (a + 1)..b
        /\ a + (k - 1) - 1 = x - 1
    BY <1>1, <1>12, <2>1
  <2>3. sub[k] = bars[x] /\ sub[k - 1] = bars[x - 1]
    BY <1>1, <2>1, <2>2
  <2>4. bars[x].ts - bars[x - 1].ts <= MaxGap
    BY <2>2 DEF CoveredFrom
  <2> QED BY <2>3, <2>4
<1>10. sub[n] = bars[b]
  <2>1. n \in 1..n /\ a + n - 1 = b
    BY <1>1, <1>12
  <2> QED BY <1>1, <2>1
<1>11. CoveredFrom(sub, 1, n, close)
    BY <1>9, <1>10 DEF CoveredFrom
<1> QED BY <1>4, <1>6, <1>7, <1>8, <1>11
LEMMA CutMoves ==
    ASSUME NEW sub, NEW bars, NEW a, NEW b, NEW n, Shows(sub, bars, a, b, n), NEW p
    PROVE  /\ sub[1] = bars[a] /\ sub[n] = bars[b]
           /\ Moves(sub, 2..n, p) = Moves(bars, (a + 1)..b, p)
           /\ Falls(sub, 2..n, p) = Falls(bars, (a + 1)..b, p)
<1>1. /\ n \in Nat /\ 1 < n /\ a \in Nat /\ b \in Nat
      /\ \A k \in 1..n : a + k - 1 \in a..b /\ sub[k] = bars[a + k - 1]
      /\ \A i \in a..b : i - a + 1 \in 1..n /\ sub[i - a + 1] = bars[i]
    BY DEF Shows
<1>2. a <= b /\ n = b - a + 1
    BY ShownLength
<1>3. sub[1] = bars[a] /\ sub[n] = bars[b]
  <2>1. 1 \in 1..n /\ n \in 1..n /\ a + 1 - 1 = a /\ a + n - 1 = b
    BY <1>1, <1>2
  <2>2. sub[1] = bars[a + 1 - 1] /\ sub[n] = bars[a + n - 1]
    BY <1>1, <2>1
  <2> QED BY <2>1, <2>2
<1>4. ASSUME NEW k \in 2..n
      PROVE  a + k - 1 \in (a + 1)..b /\ sub[k] = bars[a + k - 1]
  <2>1. k \in 1..n /\ a + k - 1 \in (a + 1)..b
    BY <1>1, <1>2
  <2> QED BY <1>1, <2>1
<1>5. ASSUME NEW i \in (a + 1)..b
      PROVE  i - a + 1 \in 2..n /\ sub[i - a + 1] = bars[i]
  <2>1. i \in a..b /\ i - a + 1 \in 2..n
    BY <1>1, <1>2
  <2> QED BY <1>1, <2>1
<1>6. /\ \A k \in 2..n : \E i \in (a + 1)..b : sub[k] = bars[i]
      /\ \A i \in (a + 1)..b : \E k \in 2..n : sub[k] = bars[i]
    BY <1>4, <1>5
<1>7. /\ {sub[k].price - p : k \in 2..n} = {bars[i].price - p : i \in (a + 1)..b}
      /\ {p - sub[k].price : k \in 2..n} = {p - bars[i].price : i \in (a + 1)..b}
    BY <1>6
<1> QED BY <1>3, <1>7 DEF Moves, Falls

(* Cut to its window, a covered day has the same excursion.                *)
LEMMA WindowKept ==
    ASSUME NEW bars \in DayBars, Ordered(bars),
           NEW entry \in Int, NEW close \in Int, entry < close,
           Excursion(bars, entry, close).covered,
           NEW a, a = LastAt(bars, entry), NEW b, b = LastAt(bars, close),
           NEW sub, sub = Cut(bars, a, b),
           NEW e, e = Excursion(sub, entry, close), NEW f, f = Excursion(bars, entry, close)
    PROVE  /\ e.covered
           /\ e.price = f.price /\ e.final = f.final /\ e.up = f.up /\ e.down = f.down
<1>1. /\ Through(bars, entry) # {} /\ Within(bars, entry, close) # {}
      /\ \A i \in Within(bars, entry, close) : bars[i].ts - bars[i - 1].ts <= MaxGap
      /\ close - bars[Max(Within(bars, entry, close))].ts <= MaxGap
    BY CoveredIs
<1>2. WindowAt(bars, entry, close, a, b)
    BY <1>1, WindowPositions
<1>3. CoveredFrom(bars, a, b, close)
    BY <1>1, <1>2 DEF CoveredFrom, WindowAt
<1>4. MeasuredAs(f, bars, a, b)
    BY <1>1, <1>3, ExcursionIs
<1>5. PICK n : n = b - a + 1
    OBVIOUS
<1>6. sub \in DayBars /\ Shows(sub, bars, a, b, n)
  <2>1. a \in 1..Len(bars) /\ b \in 1..Len(bars) /\ a < b
    BY <1>2 DEF WindowAt
  <2> QED BY <1>5, <2>1, CutFacts DEF DayBars
<1>7. n \in Nat /\ 1 < n
    BY <1>6 DEF Shows
<1>8. /\ Ordered(sub)
      /\ Through(sub, entry) = 1..1 /\ Through(sub, close) = 1..n
      /\ Within(sub, entry, close) = 2..n
      /\ CoveredFrom(sub, 1, n, close)
    BY <1>2, <1>3, <1>6, CutWindow
<1>9. 1 = LastAt(sub, entry) /\ n = LastAt(sub, close)
  <2>1. 1 \in Nat /\ 1..1 \in SUBSET (0..1) /\ 1..1 # {}
    OBVIOUS
  <2>2. 1..n \in SUBSET (0..n) /\ 1..n # {} /\ n \in 1..n
    BY ONLY <1>7
  <2>3. Max(1..1) \in 1..1
    BY ONLY <2>1, GreatestOf
  <2>4. PICK m : m = Max(1..n)
    OBVIOUS
  <2>5. m \in 1..n /\ \A k \in 1..n : k <= m
    BY ONLY <1>7, <2>2, <2>4, GreatestOf
  <2>6. m = n
    BY ONLY <1>7, <2>2, <2>5
  <2>7. Max(1..1) = 1
    BY ONLY <2>3
  <2> QED BY <1>8, <2>4, <2>6, <2>7 DEF LastAt
<1>10. MeasuredAs(e, sub, 1, n)
  <2>1. 1 \in 1..1 /\ 2 \in 2..n
    BY ONLY <1>7
  <2>2. Through(sub, entry) # {} /\ Within(sub, entry, close) # {}
    BY <1>8, <2>1
  <2> QED BY <1>6, <1>8, <1>9, <2>2, ExcursionIs
<1>11. /\ sub[1] = bars[a] /\ sub[n] = bars[b]
       /\ Moves(sub, 2..n, sub[1].price) = Moves(bars, (a + 1)..b, sub[1].price)
       /\ Falls(sub, 2..n, sub[1].price) = Falls(bars, (a + 1)..b, sub[1].price)
    BY <1>6, CutMoves
<1>12. 1 + 1 = 2
    OBVIOUS
<1> QED BY <1>4, <1>10, <1>11, <1>12 DEF MeasuredAs
-----------------------------------------------------------------------------
(* The inductive invariant of the batches.                                 *)

IsSeq(s) == \E S : s \in Seq(S)

DaysIn(lines) == {lines[i].day : i \in DOMAIN lines}
ReadDays(days, n) == {days[k] : k \in 1..n}
Priced(lines, d, p) == \E j \in DOMAIN lines : lines[j].day = d /\ lines[j].price = p

LandedOK(days) ==
    /\ days \in Seq(TradingDays)
    /\ \A m, n \in DOMAIN days : days[m] = days[n] => m = n

(* A label's anchor is the nearest day its command had read.               *)
AnchorSound(days, x) ==
    /\ x.read \in 0..Len(days)
    /\ x.prior \in ReadDays(days, x.read) /\ x.prior < x.day
    /\ \A d \in ReadDays(days, x.read) : ~(x.prior < d /\ d < x.day)

WindowSound(x) ==
    LET bars == Bars[x.day]
        entryAt == Max({k \in DOMAIN bars : bars[k].ts <= x.entry})
        last == Max({k \in DOMAIN bars : bars[k].ts <= CloseOf(x.day)})
        e == Excursion(SubSeq(bars, entryAt, last), x.entry, CloseOf(x.day))
    IN  /\ e.covered
        /\ <<e.price, e.final, e.up, e.down>> = <<x.price, x.final, x.up, x.down>>

LabelSound(days, x) ==
    x.day \in TradingDays /\ AnchorSound(days, x) /\ WindowSound(x)

OutcomesSound(lines, r) ==
    /\ {o[1] : o \in r.outcomes}
         = (r.first..(r.day - 1)) \intersect (r.es \union r.definitions)
    /\ \A o, x \in r.outcomes : o[1] = x[1] => o = x
    /\ \A o \in r.outcomes :
           o[2] \in {"LABELLED", "ALREADY_PRESENT"} => o[1] \in DaysIn(lines)

DayOutcomes ==
    {"GAP", "ABSENT", "ALREADY_PRESENT", "SKIPPED_NO_PRIOR", "SKIPPED_NO_ANCHOR",
     "SKIPPED_ENTRY_AFTER_CLOSE", "NormalizeError", "SKIPPED_COVERAGE", "LABELLED"}

(* A label command knows what it read, and what is in the store unless     *)
(* another one may write to it.                                            *)
LabelCommand ==
    [pc : {"label"}, day : Nat, first : TradingDays, entry : EntryTimes, anchors : AnchorFiles,
     es : SUBSET TradingDays, read : Nat, definitions : SUBSET TradingDays,
     present : SUBSET TradingDays, outcomes : SUBSET (TradingDays \X DayOutcomes)]

LabelCommandOK(days, lines, alone, r) ==
    /\ r \in LabelCommand /\ r.first <= r.day
    /\ r.read <= Len(days) /\ r.es = ReadDays(days, r.read)
    /\ r.present \subseteq DaysIn(lines)
    /\ alone => r.present = DaysIn(lines)
    /\ OutcomesSound(lines, r)

(* A feature command computes from labels that are in the store.           *)
FeatureCommandOK(lines, computed, alone, r) ==
    /\ r = [pc |-> "feature", entry |-> r.entry, todo |-> r.todo, centers |-> r.centers,
            present |-> r.present, outcomes |-> r.outcomes]
    /\ r.todo \subseteq TradingDays
    /\ \A d \in r.todo : Priced(lines, d, r.centers[d])
    /\ alone => r.present = DaysIn(computed)

BatchOK(days, lines, computed, alone, r) ==
    \/ r = Stopped
    \/ LabelCommandOK(days, lines, alone, r)
    \/ FeatureCommandOK(lines, computed, alone, r)

OneEach(lines) == \A i, j \in DOMAIN lines : lines[i].day = lines[j].day => i = j

LandingInv == LandedOK(landed) /\ definitions \subseteq TradingDays

LabelLinesInv ==
    /\ IsSeq(labels) /\ \A i \in DOMAIN labels : LabelSound(landed, labels[i])
    /\ ~overlapped => OneEach(labels)

FeatureLinesInv ==
    /\ IsSeq(features)
    /\ \A i \in DOMAIN features : Priced(labels, features[i].day, features[i].center)
    /\ ~overlapped => OneEach(features)

(* Until two commands of one kind overlap there is at most one of each.    *)
CommandsInv ==
    /\ command = [c \in Commands |-> command[c]]
    /\ \A c \in Commands : BatchOK(landed, labels, features, ~overlapped, command[c])
    /\ overlapped \in BOOLEAN
    /\ ~overlapped => \A c, x \in Commands :
           command[c] # Stopped /\ command[c].pc = command[x].pc => c = x

LabelInv == LandingInv /\ LabelLinesInv /\ FeatureLinesInv /\ CommandsInv

-----------------------------------------------------------------------------
Lengthened(s, e, t) ==
    /\ IsSeq(t) /\ Len(s) \in Nat /\ DOMAIN s = 1..Len(s) /\ Len(t) = Len(s) + 1
    /\ DOMAIN t = DOMAIN s \union {Len(s) + 1} /\ Len(s) + 1 \notin DOMAIN s
    /\ t[Len(s) + 1] = e /\ \A i \in DOMAIN s : t[i] = s[i]

LEMMA LineAppended ==
    ASSUME NEW s, IsSeq(s), NEW e, NEW t, t = Append(s, e)
    PROVE  Lengthened(s, e, t)
<1>1. PICK S : s \in Seq(S)
    BY DEF IsSeq
<1>2. s \in Seq(S \union {e}) /\ e \in S \union {e}
    BY <1>1, SeqMonotonic
<1>3. /\ t \in Seq(S \union {e}) /\ Len(t) = Len(s) + 1
      /\ \A i \in 1..Len(s) : t[i] = s[i]
      /\ t[Len(s) + 1] = e
    BY <1>2, AppendProperties
<1>4. Len(s) \in Nat /\ DOMAIN s = 1..Len(s) /\ DOMAIN t = 1..Len(t)
    BY <1>1, <1>3, LenProperties
<1>5. 1..(Len(s) + 1) = (1..Len(s)) \union {Len(s) + 1} /\ Len(s) + 1 \notin 1..Len(s)
    BY <1>4
<1> QED BY <1>3, <1>4, <1>5 DEF IsSeq, Lengthened

LEMMA DaysGrow ==
    ASSUME NEW s, IsSeq(s), NEW e, NEW t, t = Append(s, e)
    PROVE  /\ DaysIn(t) = DaysIn(s) \union {e.day}
           /\ \A d, p : Priced(s, d, p) => Priced(t, d, p)
           /\ OneEach(s) /\ e.day \notin DaysIn(s) => OneEach(t)
<1>1. /\ DOMAIN t = DOMAIN s \union {Len(s) + 1} /\ Len(s) + 1 \notin DOMAIN s
      /\ t[Len(s) + 1] = e /\ \A i \in DOMAIN s : t[i] = s[i]
    BY LineAppended DEF Lengthened
<1>2. DaysIn(t) = DaysIn(s) \union {e.day}
    BY <1>1 DEF DaysIn
<1>3. \A d, p : Priced(s, d, p) => Priced(t, d, p)
    BY <1>1 DEF Priced
<1>4. ASSUME OneEach(s), e.day \notin DaysIn(s) PROVE OneEach(t)
  <2>1. \A i \in DOMAIN s : t[i].day # e.day
    BY <1>1, <1>4 DEF DaysIn
  <2>2. \A i, j \in DOMAIN s : t[i].day = t[j].day => i = j
    BY <1>1, <1>4 DEF OneEach
  <2> QED BY <1>1, <2>1, <2>2 DEF OneEach
<1> QED BY <1>2, <1>3, <1>4

LEMMA LandedAppended ==
    ASSUME NEW days, LandedOK(days), NEW d \in TradingDays, d \notin Range(days),
           NEW more, more = Append(days, d)
    PROVE  /\ LandedOK(more) /\ Len(days) \in Nat /\ Len(more) = Len(days) + 1
           /\ \A n \in 0..Len(days) : ReadDays(more, n) = ReadDays(days, n)
<1>1. IsSeq(days)
    BY DEF IsSeq, LandedOK
<1>2. /\ DOMAIN days = 1..Len(days) /\ Len(days) \in Nat /\ Len(more) = Len(days) + 1
      /\ DOMAIN more = DOMAIN days \union {Len(days) + 1} /\ Len(days) + 1 \notin DOMAIN days
      /\ more[Len(days) + 1] = d /\ \A i \in DOMAIN days : more[i] = days[i]
    BY <1>1, LineAppended DEF Lengthened
<1>3. more \in Seq(TradingDays)
    BY AppendProperties DEF LandedOK
<1>4. \A i \in DOMAIN days : more[i] # d
    BY <1>2 DEF Range
<1>5. \A m, n \in DOMAIN more : more[m] = more[n] => m = n
    BY <1>2, <1>4 DEF LandedOK
<1>6. ASSUME NEW n \in 0..Len(days) PROVE ReadDays(more, n) = ReadDays(days, n)
  <2>1. 1..n \subseteq DOMAIN days
    BY <1>2
  <2> QED BY <1>2, <2>1 DEF ReadDays
<1> QED BY <1>2, <1>3, <1>5, <1>6 DEF LandedOK

(* What holds of a label or a command goes on holding when a day lands.    *)
LEMMA LandingKeeps ==
    ASSUME NEW days, LandedOK(days), NEW d \in TradingDays, d \notin Range(days),
           NEW more, more = Append(days, d)
    PROVE  /\ \A x : LabelSound(days, x) => LabelSound(more, x)
           /\ \A lines, computed, alone, r :
                 BatchOK(days, lines, computed, alone, r)
                   => BatchOK(more, lines, computed, alone, r)
<1>1. /\ Len(days) \in Nat /\ Len(more) = Len(days) + 1
      /\ \A n \in 0..Len(days) : ReadDays(more, n) = ReadDays(days, n)
    BY LandedAppended
<1>2. ASSUME NEW x, LabelSound(days, x) PROVE LabelSound(more, x)
  <2>1. x.read \in 0..Len(days)
    BY <1>2 DEF LabelSound, AnchorSound
  <2>2. x.read \in 0..Len(more)
    BY <1>1, <2>1
  <2>3. ReadDays(more, x.read) = ReadDays(days, x.read)
    BY <1>1, <2>1
  <2> QED BY <1>2, <2>2, <2>3 DEF LabelSound, AnchorSound
<1>3. ASSUME NEW lines, NEW alone, NEW r, LabelCommandOK(days, lines, alone, r)
      PROVE  LabelCommandOK(more, lines, alone, r)
  <2>1. r.read \in Nat /\ r.read <= Len(days)
    BY <1>3 DEF LabelCommandOK, LabelCommand
  <2>2. r.read \in 0..Len(days) /\ r.read <= Len(more)
    BY <1>1, <2>1
  <2>3. ReadDays(more, r.read) = ReadDays(days, r.read)
    BY <1>1, <2>2
  <2> QED BY <1>3, <2>2, <2>3 DEF LabelCommandOK
<1> QED BY <1>2, <1>3 DEF BatchOK

LEMMA LandStep ==
    ASSUME LabelInv, NEW d \in TradingDays, LandDay(d)
    PROVE  LabelInv'
<1>1. /\ LandedOK(landed) /\ d \notin Range(landed) /\ landed' = Append(landed, d)
      /\ UNCHANGED <<definitions, labels, features, command, starts, overlapped>>
    BY DEF LandDay, LabelInv, LandingInv
<1>2. LandedOK(landed')
    BY <1>1, LandedAppended
<1>3. /\ \A x : LabelSound(landed, x) => LabelSound(landed', x)
      /\ \A lines, computed, alone, r :
            BatchOK(landed, lines, computed, alone, r)
              => BatchOK(landed', lines, computed, alone, r)
    BY <1>1, LandingKeeps
<1>4. LandingInv'
    BY <1>1, <1>2 DEF LabelInv, LandingInv
<1>5. LabelLinesInv'
    BY <1>1, <1>3 DEF LabelInv, LabelLinesInv
<1>6. FeatureLinesInv'
    BY <1>1 DEF LabelInv, FeatureLinesInv
<1>7. CommandsInv'
    BY <1>1, <1>3 DEF LabelInv, CommandsInv
<1> QED BY <1>4, <1>5, <1>6, <1>7 DEF LabelInv
LEMMA DefinitionStep ==
    ASSUME LabelInv, NEW d \in TradingDays, LandDefinition(d)
    PROVE  LabelInv'
<1>1. /\ definitions' = definitions \union {d}
      /\ UNCHANGED <<landed, labels, features, command, starts, overlapped>>
    BY DEF LandDefinition
<1>2. LandingInv'
    BY <1>1 DEF LabelInv, LandingInv
<1>3. LabelLinesInv' /\ FeatureLinesInv' /\ CommandsInv'
    BY <1>1 DEF LabelInv, LabelLinesInv, FeatureLinesInv, CommandsInv
<1> QED BY <1>2, <1>3 DEF LabelInv

LEMMA RunningKinds ==
    ASSUME NEW days, NEW lines, NEW computed, NEW alone, NEW r, r # Stopped,
           BatchOK(days, lines, computed, alone, r)
    PROVE  r.pc \in {"label", "feature"}
<1>1. ASSUME LabelCommandOK(days, lines, alone, r) PROVE r.pc = "label"
    BY <1>1 DEF LabelCommandOK, LabelCommand
<1>2. ASSUME FeatureCommandOK(lines, computed, alone, r) PROVE r.pc = "feature"
    BY <1>2 DEF FeatureCommandOK
<1> QED BY <1>1, <1>2 DEF BatchOK

(* A command goes on or stops: there is still at most one of each kind.    *)
LEMMA OneMoves ==
    ASSUME LabelInv, NEW c \in Commands, NEW r,
           command' = [command EXCEPT ![c] = r], overlapped' = overlapped,
           r = Stopped \/ (command[c] # Stopped /\ r.pc = command[c].pc),
           BatchOK(landed', labels', features', ~overlapped', r),
           \A x \in Commands \ {c} :
               BatchOK(landed', labels', features', ~overlapped', command[x])
    PROVE  CommandsInv'
<1>1. /\ command' = [x \in Commands |-> command'[x]]
      /\ \A x \in Commands : command'[x] = IF x = c THEN r ELSE command[x]
    BY DEF LabelInv, CommandsInv
<1>2. \A x \in Commands : BatchOK(landed', labels', features', ~overlapped', command'[x])
    BY <1>1
<1>3. ASSUME ~overlapped', NEW x \in Commands, NEW y \in Commands,
             command'[x] # Stopped, command'[x].pc = command'[y].pc
      PROVE  x = y
  <2>1. command'[y] # Stopped
    <3>1. command'[x].pc \in {"label", "feature"}
      BY <1>2, <1>3, RunningKinds
    <3>2. Stopped.pc = "stopped"
      BY DEF Stopped
    <3> QED BY <1>3, <3>1, <3>2
  <2>2. \A z \in Commands : command'[z] # Stopped =>
            command[z] # Stopped /\ command'[z].pc = command[z].pc
    BY <1>1
  <2>3. command[x] # Stopped /\ command[x].pc = command[y].pc
    BY <1>3, <2>1, <2>2
  <2> QED BY <1>3, <2>3 DEF LabelInv, CommandsInv
<1>4. overlapped' \in BOOLEAN
    BY DEF LabelInv, CommandsInv
<1> QED BY <1>1, <1>2, <1>3, <1>4 DEF CommandsInv

LEMMA EndStep ==
    ASSUME LabelInv, NEW c \in Commands, EndCommand(c)
    PROVE  LabelInv'
<1>1. /\ command' = [command EXCEPT ![c] = Stopped]
      /\ UNCHANGED <<landed, definitions, labels, features, starts, overlapped>>
    BY DEF EndCommand
<1>2. LandingInv' /\ LabelLinesInv' /\ FeatureLinesInv'
    BY <1>1 DEF LabelInv, LandingInv, LabelLinesInv, FeatureLinesInv
<1>3. BatchOK(landed', labels', features', ~overlapped', Stopped)
    BY DEF BatchOK
<1>4. \A x \in Commands : BatchOK(landed', labels', features', ~overlapped', command[x])
    BY <1>1 DEF LabelInv, CommandsInv
<1>5. CommandsInv'
    BY <1>1, <1>3, <1>4, OneMoves
<1> QED BY <1>2, <1>5 DEF LabelInv

(* Nothing is asked of a command that it was not asked while alone.        *)
LEMMA CompanyKeeps ==
    ASSUME NEW days, NEW lines, NEW computed, NEW alone, NEW still, still => alone, NEW r,
           BatchOK(days, lines, computed, alone, r)
    PROVE  BatchOK(days, lines, computed, still, r)
    BY DEF BatchOK, LabelCommandOK, FeatureCommandOK

(* A command of its own kind starts: the others keep what they had.        *)
LEMMA StartKeeps ==
    ASSUME LabelInv, NEW c \in Commands, NEW pc, NEW r, r.pc = pc,
           Start(c, pc, r),
           BatchOK(landed, labels, features, ~overlapped', r)
    PROVE  LabelInv'
<1>1. /\ command[c] = Stopped
      /\ command' = [command EXCEPT ![c] = r]
      /\ overlapped' = (overlapped \/ \E x \in Commands : command[x].pc = pc)
      /\ UNCHANGED <<landed, definitions, labels, features>>
    BY DEF Start
<1>2. overlapped' \in BOOLEAN /\ (~overlapped' => ~overlapped)
    BY <1>1 DEF LabelInv, CommandsInv
<1>3. LandingInv' /\ LabelLinesInv' /\ FeatureLinesInv'
    BY <1>1, <1>2 DEF LabelInv, LandingInv, LabelLinesInv, FeatureLinesInv
<1>4. /\ command' = [x \in Commands |-> command'[x]]
      /\ \A x \in Commands : command'[x] = IF x = c THEN r ELSE command[x]
    BY <1>1 DEF LabelInv, CommandsInv
<1>5. ASSUME NEW x \in Commands
      PROVE  BatchOK(landed, labels, features, ~overlapped', command'[x])
  <2>1. CASE x = c
    BY <1>4, <2>1
  <2>2. CASE x # c
    <3>1. BatchOK(landed, labels, features, ~overlapped, command[x])
      BY DEF LabelInv, CommandsInv
    <3>2. BatchOK(landed, labels, features, ~overlapped', command[x])
      BY <1>2, <3>1, CompanyKeeps
    <3> QED BY <1>4, <2>2, <3>2
  <2> QED BY <2>1, <2>2
<1>6. ASSUME ~overlapped', NEW x \in Commands, NEW y \in Commands,
             command'[x] # Stopped, command'[x].pc = command'[y].pc
      PROVE  x = y
  <2>1. \A z \in Commands : command[z].pc # pc
    BY <1>1, <1>6
  <2>2. command[x] # Stopped /\ command[x].pc = command[y].pc => x = y
    BY <1>2, <1>6 DEF LabelInv, CommandsInv
  <2> QED BY <1>4, <1>6, <2>1, <2>2
<1>7. CommandsInv'
    BY <1>1, <1>2, <1>4, <1>5, <1>6 DEF CommandsInv
<1> QED BY <1>3, <1>7 DEF LabelInv

LEMMA LabelledDays ==
    ASSUME LabelInv
    PROVE  DaysIn(labels) \subseteq TradingDays
    BY DEF LabelInv, LabelLinesInv, LabelSound, DaysIn

LEMMA StartLabelsStep ==
    ASSUME LabelInv, NEW c \in Commands, NEW first \in FirstDays, NEW entry \in EntryTimes,
           NEW anchors \in AnchorFiles, StartLabels(c, first, entry, anchors)
    PROVE  LabelInv'
<1>1. PICK r : r = [pc |-> "label", day |-> first, first |-> first, entry |-> entry,
             anchors |-> anchors, es |-> Range(landed), read |-> Len(landed),
             definitions |-> definitions,
             present |-> {labels[i].day : i \in DOMAIN labels}, outcomes |-> {}]
    OBVIOUS
<1>2. Start(c, "label", r)
    BY <1>1 DEF StartLabels
<1>3. landed \in Seq(TradingDays) /\ definitions \subseteq TradingDays
    BY DEF LabelInv, LandingInv, LandedOK
<1>4. Len(landed) \in Nat /\ DOMAIN landed = 1..Len(landed)
    BY <1>3, LenProperties
<1>5. Range(landed) = ReadDays(landed, Len(landed)) /\ Range(landed) \subseteq TradingDays
  <2>1. \A i \in DOMAIN landed : landed[i] \in TradingDays
    BY <1>3, <1>4, ElementOfSeq
  <2> QED BY <1>4, <2>1 DEF Range, ReadDays
<1>6. r.present = DaysIn(labels) /\ r.present \subseteq TradingDays
    BY <1>1, LabelledDays DEF DaysIn
<1>7. first \in TradingDays /\ first \in Nat
    BY LabelAssumption DEF TradingDays
<1>8. r \in LabelCommand
  <2>1. {} \in SUBSET (TradingDays \X DayOutcomes)
    OBVIOUS
  <2>2. DaysIn(labels) \in SUBSET TradingDays
    BY LabelledDays
  <2>3. r = [pc |-> "label", day |-> first, first |-> first, entry |-> entry,
             anchors |-> anchors, es |-> Range(landed), read |-> Len(landed),
             definitions |-> definitions, present |-> DaysIn(labels), outcomes |-> {}]
    BY <1>1 DEF DaysIn
  <2> QED BY <1>3, <1>4, <1>5, <1>7, <2>1, <2>2, <2>3 DEF LabelCommand
<1>9. OutcomesSound(labels, r)
  <2>1. first..(first - 1) = {}
    BY <1>7
  <2>2. r.outcomes = {} /\ r.first = first /\ r.day = first
    BY <1>1
  <2> QED BY <2>1, <2>2 DEF OutcomesSound
<1>10. /\ r.pc = "label" /\ r.first = first /\ r.day = first /\ r.read = Len(landed)
       /\ r.es = Range(landed)
    BY <1>1
<1>11. \A alone : LabelCommandOK(landed, labels, alone, r)
    BY <1>4, <1>5, <1>6, <1>7, <1>8, <1>9, <1>10 DEF LabelCommandOK
<1>12. BatchOK(landed, labels, features, ~overlapped', r)
    BY <1>11 DEF BatchOK
<1> QED BY <1>2, <1>10, <1>12, StartKeeps

LEMMA StartFeaturesStep ==
    ASSUME LabelInv, NEW c \in Commands, NEW first \in FirstDays, NEW entry \in EntryTimes,
           StartFeatures(c, first, entry)
    PROVE  LabelInv'
<1>1. PICK days : days = {labels[i].day : i \in DOMAIN labels} \intersect first..LastDay
    OBVIOUS
<1>2. PICK centers : centers =
        [d \in days |-> labels[Max({i \in DOMAIN labels : labels[i].day = d})].price]
    OBVIOUS
<1>3. PICK r : r = [pc |-> "feature", entry |-> entry, todo |-> days, centers |-> centers,
                    present |-> {features[i].day : i \in DOMAIN features}, outcomes |-> {}]
    OBVIOUS
<1>4. Start(c, "feature", r)
    BY <1>1, <1>2, <1>3 DEF StartFeatures
<1>5. days \subseteq DaysIn(labels) /\ days \subseteq TradingDays
    BY <1>1, LabelledDays DEF DaysIn
<1>6. Len(labels) \in Nat /\ DOMAIN labels = 1..Len(labels)
    BY LenProperties DEF LabelInv, LabelLinesInv, IsSeq
<1>7. ASSUME NEW d \in days PROVE Priced(labels, d, centers[d])
  <2>1. PICK T : T = {i \in DOMAIN labels : labels[i].day = d}
    OBVIOUS
  <2>2. T \in SUBSET (0..Len(labels)) /\ T # {}
    <3>1. T # {}
      BY <1>5, <2>1 DEF DaysIn
    <3> QED BY <1>6, <2>1, <3>1
  <2>3. Max(T) \in T
    BY <1>6, <2>2, GreatestOf
  <2>4. centers[d] = labels[Max(T)].price
    BY <1>2, <2>1
  <2> QED BY <2>1, <2>3, <2>4 DEF Priced
<1>8. /\ r.pc = "feature" /\ r.todo = days /\ r.centers = centers
      /\ r.present = DaysIn(features)
      /\ r = [pc |-> "feature", entry |-> r.entry, todo |-> r.todo, centers |-> r.centers,
              present |-> r.present, outcomes |-> r.outcomes]
    BY <1>3 DEF DaysIn
<1>9. \A alone : FeatureCommandOK(labels, features, alone, r)
    BY <1>5, <1>7, <1>8 DEF FeatureCommandOK
<1>10. BatchOK(landed, labels, features, ~overlapped', r)
    BY <1>9 DEF BatchOK
<1> QED BY <1>4, <1>8, <1>10, StartKeeps
(* A feature line is appended: a command whose line it is not keeps what   *)
(* it had, unless it is a feature command that was taken to be alone.      *)
LEMMA FeatureDayStep ==
    ASSUME LabelInv, NEW c \in Commands, FeatureDay(c)
    PROVE  LabelInv'
<1>1. PICK r, d, outcome :
        /\ r = command[c] /\ d = Min(r.todo)
        /\ outcome = IF d \in r.present THEN "ALREADY_PRESENT"
                     ELSE IF d \notin ChainDays \/ d \in CorruptDays THEN "GAP"
                     ELSE "COMPUTED"
    OBVIOUS
<1>2. PICK line : line = [day |-> d, entry |-> r.entry, center |-> r.centers[d]]
    OBVIOUS
<1>3. PICK next : next = [r EXCEPT !.todo = @ \ {d},
                                   !.present = IF outcome = "COMPUTED" THEN @ \union {d} ELSE @,
                                   !.outcomes = @ \union {<<d, outcome>>}]
    OBVIOUS
<1>4. /\ r.pc = "feature" /\ r.todo # {}
      /\ features' = IF outcome = "COMPUTED" THEN Append(features, line) ELSE features
      /\ command' = [command EXCEPT ![c] = next]
      /\ UNCHANGED <<landed, definitions, labels, starts, overlapped>>
    BY <1>1, <1>2, <1>3 DEF FeatureDay, LabelInv, CommandsInv
<1>5. FeatureCommandOK(labels, features, ~overlapped, r) /\ r # Stopped
  <2>1. BatchOK(landed, labels, features, ~overlapped, r)
    BY <1>1 DEF LabelInv, CommandsInv
  <2>2. ~LabelCommandOK(landed, labels, ~overlapped, r)
    BY <1>4 DEF LabelCommandOK, LabelCommand
  <2>3. Stopped.pc = "stopped"
    BY DEF Stopped
  <2> QED BY <1>4, <2>1, <2>2, <2>3 DEF BatchOK
<1>6. d \in r.todo /\ d \in TradingDays /\ Priced(labels, d, r.centers[d])
  <2>1. r.todo \in SUBSET Nat
    BY <1>5 DEF FeatureCommandOK, TradingDays
  <2>2. d \in r.todo
    BY <1>1, <1>4, <2>1, LeastOf
  <2> QED BY <1>5, <2>2 DEF FeatureCommandOK
<1>7. /\ next.pc = "feature" /\ next.todo = r.todo \ {d} /\ next.centers = r.centers
      /\ next.present = IF outcome = "COMPUTED" THEN r.present \union {d} ELSE r.present
      /\ next = [pc |-> "feature", entry |-> next.entry, todo |-> next.todo,
                 centers |-> next.centers, present |-> next.present,
                 outcomes |-> next.outcomes]
  <2>1. r = [pc |-> "feature", entry |-> r.entry, todo |-> r.todo, centers |-> r.centers,
             present |-> r.present, outcomes |-> r.outcomes]
    BY <1>5 DEF FeatureCommandOK
  <2>2. next = [pc |-> "feature", entry |-> r.entry, todo |-> r.todo \ {d},
                centers |-> r.centers,
                present |-> IF outcome = "COMPUTED" THEN r.present \union {d} ELSE r.present,
                outcomes |-> r.outcomes \union {<<d, outcome>>}]
    <3>1. PICK T, P, O :
            /\ T = r.todo \ {d} /\ O = r.outcomes \union {<<d, outcome>>}
            /\ P = IF outcome = "COMPUTED" THEN r.present \union {d} ELSE r.present
      OBVIOUS
    <3>2. next = [r EXCEPT !.todo = T, !.present = P, !.outcomes = O]
      BY <1>3, <3>1
    <3>3. PICK E, C, T0, P0, O0 :
            r = [pc |-> "feature", entry |-> E, todo |-> T0, centers |-> C, present |-> P0,
                 outcomes |-> O0]
      BY <2>1
    <3>4. next = [pc |-> "feature", entry |-> E, todo |-> T, centers |-> C, present |-> P,
                  outcomes |-> O]
      BY ONLY <3>2, <3>3
    <3>5. r.entry = E /\ r.centers = C
      BY ONLY <3>3
    <3> QED BY <3>1, <3>4, <3>5
  <2> QED BY <2>2
<1>8. LandingInv' /\ LabelLinesInv'
    BY <1>4 DEF LabelInv, LandingInv, LabelLinesInv
<1>9. IsSeq(features) /\ line.day = d /\ line.center = r.centers[d]
    BY <1>2 DEF LabelInv, FeatureLinesInv
<1>10. CASE outcome # "COMPUTED"
  <2>1. features' = features /\ next.present = r.present
    BY <1>4, <1>7, <1>10
  <2>2. FeatureLinesInv'
    BY <1>4, <2>1 DEF LabelInv, FeatureLinesInv
  <2>3. FeatureCommandOK(labels, features, ~overlapped, next)
    BY <1>5, <1>7, <2>1 DEF FeatureCommandOK
  <2>4. BatchOK(landed', labels', features', ~overlapped', next)
    BY <1>4, <2>1, <2>3 DEF BatchOK
  <2>5. \A x \in Commands : BatchOK(landed', labels', features', ~overlapped', command[x])
    BY <1>4, <2>1 DEF LabelInv, CommandsInv
  <2>6. CommandsInv'
    BY <1>1, <1>4, <1>5, <1>7, <2>4, <2>5, OneMoves
  <2> QED BY <1>8, <2>2, <2>6 DEF LabelInv
<1>11. CASE outcome = "COMPUTED"
  <2>1. /\ features' = Append(features, line) /\ d \notin r.present
        /\ next.present = r.present \union {d}
    BY <1>1, <1>4, <1>7, <1>11
  <2>2. /\ IsSeq(features') /\ DOMAIN features' = DOMAIN features \union {Len(features) + 1}
        /\ features'[Len(features) + 1] = line
        /\ \A i \in DOMAIN features : features'[i] = features[i]
    <3>1. Lengthened(features, line, features')
      BY <1>9, <2>1, LineAppended
    <3> QED BY <3>1 DEF Lengthened
  <2>3. /\ DaysIn(features') = DaysIn(features) \union {d}
        /\ OneEach(features) /\ d \notin DaysIn(features) => OneEach(features')
    BY <1>9, <2>1, DaysGrow
  <2>4. \A i \in DOMAIN features' : Priced(labels, features'[i].day, features'[i].center)
    BY <1>6, <1>9, <2>2 DEF LabelInv, FeatureLinesInv
  <2>5. ~overlapped => r.present = DaysIn(features)
    BY <1>5 DEF FeatureCommandOK
  <2>6. FeatureLinesInv'
    BY <1>4, <2>1, <2>2, <2>3, <2>4, <2>5 DEF LabelInv, FeatureLinesInv
  <2>7. FeatureCommandOK(labels, features', ~overlapped, next)
    BY <1>5, <1>7, <2>1, <2>3, <2>5 DEF FeatureCommandOK
  <2>8. BatchOK(landed', labels', features', ~overlapped', next)
    BY <1>4, <2>7 DEF BatchOK
  <2>9. ASSUME NEW x \in Commands \ {c}
        PROVE  BatchOK(landed', labels', features', ~overlapped', command[x])
    <3>1. BatchOK(landed, labels, features, ~overlapped, command[x])
      BY DEF LabelInv, CommandsInv
    <3>2. ASSUME FeatureCommandOK(labels, features, ~overlapped, command[x])
          PROVE  FeatureCommandOK(labels, features', ~overlapped, command[x])
      <4>1. command[x].pc = "feature"
        BY <3>2 DEF FeatureCommandOK
      <4>2. overlapped
        BY <1>1, <1>4, <1>5, <4>1 DEF LabelInv, CommandsInv
      <4> QED BY <3>2, <4>2 DEF FeatureCommandOK
    <3> QED BY <1>4, <3>1, <3>2 DEF BatchOK
  <2>10. CommandsInv'
    BY <1>1, <1>4, <1>5, <1>7, <2>8, <2>9, OneMoves
  <2> QED BY <1>8, <2>6, <2>10 DEF LabelInv
<1> QED BY <1>10, <1>11
(* What an outcome says about its day.                                     *)
LEMMA OutcomeFacts ==
    ASSUME NEW r, NEW d, NEW o, o = OutcomeOf(r, d)
    PROVE  /\ o \in DayOutcomes
           /\ o # "ABSENT" <=> d \in r.es \union r.definitions
           /\ o = "ALREADY_PRESENT" => d \in r.present
           /\ o = "LABELLED" =>
                 /\ d \in r.es /\ d \notin r.present /\ PriorDay(r.es, d) # 0
                 /\ ~(r.entry >= CloseOf(d)) /\ Excursion(Bars[d], r.entry, CloseOf(d)).covered
<1>1. PICK prior, close, corrupt, covered :
        /\ prior = PriorDay(r.es, d) /\ close = CloseOf(d)
        /\ corrupt = ({d, prior} \intersect CorruptDays # {})
        /\ covered = Excursion(Bars[d], r.entry, close).covered
    OBVIOUS
<1>2. o = IF d \notin r.es THEN IF d \in r.definitions THEN "GAP" ELSE "ABSENT"
          ELSE IF d \in r.present        THEN "ALREADY_PRESENT"
          ELSE IF prior = 0              THEN "SKIPPED_NO_PRIOR"
          ELSE IF prior \notin r.anchors THEN "SKIPPED_NO_ANCHOR"
          ELSE IF r.entry >= close       THEN "SKIPPED_ENTRY_AFTER_CLOSE"
          ELSE IF corrupt THEN "NormalizeError"
          ELSE IF ~covered THEN "SKIPPED_COVERAGE"
          ELSE "LABELLED"
    BY <1>1 DEF OutcomeOf
<1>3. o \in DayOutcomes
    BY <1>2 DEF DayOutcomes
<1>4. o # "ABSENT" <=> d \in r.es \union r.definitions
    BY <1>2
<1>5. o = "ALREADY_PRESENT" => d \in r.present
    BY <1>2
<1>6. o = "LABELLED" =>
         d \in r.es /\ d \notin r.present /\ prior # 0 /\ ~(r.entry >= close) /\ covered
    BY <1>2
<1> QED BY <1>1, <1>3, <1>4, <1>5, <1>6

(* The day a label is anchored on is the nearest one.                      *)
LEMMA NearestDay ==
    ASSUME NEW days \in SUBSET TradingDays, NEW d \in TradingDays,
           NEW prior, prior = PriorDay(days, d), prior # 0
    PROVE  /\ prior \in days /\ prior < d
           /\ \A e \in days : ~(prior < e /\ e < d)
<1>1. PICK T : T = {0} \union {e \in days : e < d}
    OBVIOUS
<1>2. T \in SUBSET (0..LastDay) /\ T # {} /\ LastDay \in Nat
  <2>1. LastDay \in Nat
    BY LabelAssumption
  <2>2. 0 \in 0..LastDay /\ \A e \in TradingDays : e \in 0..LastDay
    BY <2>1 DEF TradingDays
  <2>3. \A e \in T : e = 0 \/ e \in TradingDays
    BY <1>1
  <2>4. 0 \in T
    BY <1>1
  <2> QED BY <2>1, <2>2, <2>3, <2>4
<1>3. prior \in T /\ \A k \in T : k <= prior
    BY <1>1, <1>2, GreatestOf DEF PriorDay
<1>4. prior \in days /\ prior < d
    BY <1>1, <1>3
<1>5. ASSUME NEW e \in days, prior < e, e < d PROVE FALSE
  <2>1. e <= prior
    BY <1>1, <1>3, <1>5
  <2>2. e \in Int /\ prior \in Int
    BY <1>4 DEF TradingDays
  <2> QED BY <1>5, <2>1, <2>2
<1> QED BY <1>4, <1>5

(* A new label is anchored and measured as it should.                      *)
LEMMA NewLabel ==
    ASSUME NEW days, NEW lines, NEW alone, NEW r, LabelCommandOK(days, lines, alone, r),
           LandedOK(days), NEW d, OutcomeOf(r, d) = "LABELLED", NEW x, x = LabelOf(r, d)
    PROVE  LabelSound(days, x) /\ x.day = d
<1>1. /\ d \in r.es /\ PriorDay(r.es, d) # 0 /\ ~(r.entry >= CloseOf(d))
      /\ Excursion(Bars[d], r.entry, CloseOf(d)).covered
    BY OutcomeFacts
<1>2. /\ r.es \in SUBSET TradingDays /\ r.read \in Nat /\ r.entry \in EntryTimes
      /\ r.read <= Len(days) /\ r.es = ReadDays(days, r.read)
    BY DEF LabelCommandOK, LabelCommand
<1>3. d \in TradingDays /\ Len(days) \in Nat
    BY <1>1, <1>2, LenProperties DEF LandedOK
<1>4. PICK f : f = Excursion(Bars[d], r.entry, CloseOf(d))
    OBVIOUS
<1>5. /\ x.day = d /\ x.entry = r.entry /\ x.prior = PriorDay(r.es, d) /\ x.read = r.read
      /\ x.price = f.price /\ x.final = f.final /\ x.up = f.up /\ x.down = f.down
    BY <1>4 DEF LabelOf
<1>6. AnchorSound(days, x)
  <2>1. /\ x.prior \in r.es /\ x.prior < d
        /\ \A e \in r.es : ~(x.prior < e /\ e < d)
    BY <1>1, <1>2, <1>3, <1>5, NearestDay
  <2>2. x.read \in 0..Len(days)
    <3>1. r.read \in Nat /\ r.read <= Len(days) /\ Len(days) \in Nat
      BY <1>2, <1>3
    <3>2. r.read \in 0..Len(days)
      BY ONLY <3>1
    <3> QED BY <1>5, <3>2
  <2> QED BY <1>2, <1>5, <2>1, <2>2 DEF AnchorSound
<1>7. WindowSound(x)
  <2>1. PICK bars, entry, close : bars = Bars[d] /\ entry = r.entry /\ close = CloseOf(d)
    OBVIOUS
  <2>2. bars \in DayBars /\ Ordered(bars)
    <3>1. d \in 1..LastDay
      BY <1>3 DEF TradingDays
    <3>2. /\ Bars[d] \in Seq([ts : Int, price : Int])
          /\ \A i, j \in DOMAIN Bars[d] : i < j => Bars[d][i].ts < Bars[d][j].ts
      BY <3>1, LabelAssumption
    <3> QED BY <2>1, <3>2 DEF DayBars, Ordered
  <2>3. entry \in Int /\ close \in Int
    <3>1. /\ EntryTimes \subseteq Int /\ UsualClose \in Int
          /\ \A y \in DOMAIN EarlyCloses : EarlyCloses[y] \in Int
      BY LabelAssumption
    <3>2. CloseOf(d) \in Int
      BY <3>1 DEF CloseOf
    <3> QED BY <1>2, <2>1, <3>1, <3>2
  <2>4. entry < close
    BY <1>1, <2>1, <2>3
  <2>5. PICK a, b : a = LastAt(bars, entry) /\ b = LastAt(bars, close)
    OBVIOUS
  <2>6. PICK sub : sub = Cut(bars, a, b)
    OBVIOUS
  <2>7. PICK e : e = Excursion(sub, entry, close)
    OBVIOUS
  <2>8. f = Excursion(bars, entry, close) /\ Excursion(bars, entry, close).covered
    BY <1>1, <1>4, <2>1
  <2>9. /\ e.covered
        /\ e.price = f.price /\ e.final = f.final /\ e.up = f.up /\ e.down = f.down
    BY <2>2, <2>3, <2>4, <2>5, <2>6, <2>7, <2>8, WindowKept
  <2>10. /\ a = Max({k \in DOMAIN bars : bars[k].ts <= entry})
         /\ b = Max({k \in DOMAIN bars : bars[k].ts <= close})
         /\ sub = SubSeq(bars, a, b)
    BY <2>5, <2>6 DEF LastAt, Through, Cut
  <2> QED BY <1>5, <2>1, <2>7, <2>9, <2>10 DEF WindowSound
<1> QED BY <1>3, <1>5, <1>6, <1>7 DEF LabelSound

Updated(next, r, D, P, O) ==
    /\ next \in LabelCommand /\ next.pc = "label"
    /\ next.day = D /\ next.present = P /\ next.outcomes = O
    /\ next.first = r.first /\ next.read = r.read /\ next.es = r.es
    /\ next.definitions = r.definitions

LEMMA CommandUpdated ==
    ASSUME NEW r \in LabelCommand, NEW D \in Nat, NEW P \in SUBSET TradingDays,
           NEW O \in SUBSET (TradingDays \X DayOutcomes),
           NEW next, next = [r EXCEPT !.day = D, !.present = P, !.outcomes = O]
    PROVE  Updated(next, r, D, P, O)
    BY DEF LabelCommand, Updated
(* The outcomes after one more day.                                        *)
LEMMA OutcomeAdded ==
    ASSUME NEW lines, NEW longer, DaysIn(lines) \subseteq DaysIn(longer),
           NEW r \in LabelCommand, r.first <= r.day, OutcomesSound(lines, r),
           NEW d, d = r.day, d \in TradingDays, NEW o \in DayOutcomes,
           o # "ABSENT" <=> d \in r.es \union r.definitions,
           o \in {"LABELLED", "ALREADY_PRESENT"} => d \in DaysIn(longer),
           NEW O, O = IF o = "ABSENT" THEN r.outcomes ELSE r.outcomes \union {<<d, o>>},
           NEW next, NEW P, Updated(next, r, d + 1, P, O)
    PROVE  OutcomesSound(longer, next)
<1>0. /\ next.first = r.first /\ next.day = d + 1 /\ next.es = r.es
      /\ next.definitions = r.definitions /\ next.outcomes = O
    BY DEF Updated
<1>1. r.first \in Nat /\ d \in Nat /\ r.first <= d
    BY DEF LabelCommand, TradingDays
<1>2. PICK known, old : known = r.es \union r.definitions /\ old = r.first..(d - 1)
    OBVIOUS
<1>3. /\ {x[1] : x \in r.outcomes} = old \intersect known
      /\ \A x, y \in r.outcomes : x[1] = y[1] => x = y
      /\ \A x \in r.outcomes :
             x[2] \in {"LABELLED", "ALREADY_PRESENT"} => x[1] \in DaysIn(longer)
    BY <1>2 DEF OutcomesSound
<1>4. next.first..(next.day - 1) = old \union {d} /\ d \notin old
  <2>1. r.first..d = (r.first..(d - 1)) \union {d} /\ d \notin r.first..(d - 1)
    BY ONLY <1>1
  <2>2. d + 1 - 1 = d
    BY <1>1
  <2> QED BY <1>0, <1>2, <2>1, <2>2
<1>5. next.es \union next.definitions = known
    BY <1>0, <1>2
<1>6. CASE o = "ABSENT"
  <2>1. d \notin known
    BY <1>2, <1>6
  <2>2. (old \union {d}) \intersect known = old \intersect known
    BY <2>1
  <2> QED BY <1>0, <1>3, <1>4, <1>5, <1>6, <2>2 DEF OutcomesSound
<1>7. CASE o # "ABSENT"
  <2>1. d \in known
    BY <1>2, <1>7
  <2>2. PICK p : p = <<d, o>>
    OBVIOUS
  <2>3. p[1] = d /\ p[2] = o /\ next.outcomes = r.outcomes \union {p}
    BY <1>0, <1>7, <2>2
  <2>4. \A x \in r.outcomes : x[1] # d
    BY <1>3, <1>4
  <2>5. {x[1] : x \in next.outcomes} = (old \intersect known) \union {d}
    BY <1>3, <2>3
  <2>6. (old \union {d}) \intersect known = (old \intersect known) \union {d}
    BY <2>1
  <2>7. \A x, y \in next.outcomes : x[1] = y[1] => x = y
    BY <1>3, <2>3, <2>4
  <2>8. \A x \in next.outcomes :
            x[2] \in {"LABELLED", "ALREADY_PRESENT"} => x[1] \in DaysIn(longer)
    BY <1>3, <2>3
  <2> QED BY <1>4, <1>5, <2>5, <2>6, <2>7, <2>8 DEF OutcomesSound
<1> QED BY <1>6, <1>7

LEMMA LabelDayStep ==
    ASSUME LabelInv, NEW c \in Commands, LabelDay(c)
    PROVE  LabelInv'
<1>1. PICK r, d, o : r = command[c] /\ d = r.day /\ o = OutcomeOf(r, d)
    OBVIOUS
<1>2. PICK line, P, O :
        /\ line = LabelOf(r, d)
        /\ P = IF o = "LABELLED" THEN r.present \union {d} ELSE r.present
        /\ O = IF o = "ABSENT" THEN r.outcomes ELSE r.outcomes \union {<<d, o>>}
    OBVIOUS
<1>3. PICK next : next = [r EXCEPT !.day = d + 1, !.present = P, !.outcomes = O]
    OBVIOUS
<1>4. PICK moved : moved = IF o = "NormalizeError" THEN Stopped ELSE next
    OBVIOUS
<1>5. /\ r.pc = "label" /\ d <= LastDay
      /\ labels' = IF o = "LABELLED" THEN Append(labels, line) ELSE labels
      /\ command' = [command EXCEPT ![c] = moved]
      /\ UNCHANGED <<landed, definitions, features, starts, overlapped>>
    BY <1>1, <1>2, <1>3, <1>4 DEF LabelDay
<1>6. LabelCommandOK(landed, labels, ~overlapped, r) /\ r # Stopped
  <2>1. BatchOK(landed, labels, features, ~overlapped, r)
    BY <1>1 DEF LabelInv, CommandsInv
  <2>2. ~FeatureCommandOK(labels, features, ~overlapped, r)
    <3>1. ASSUME FeatureCommandOK(labels, features, ~overlapped, r) PROVE r.pc = "feature"
      BY <3>1 DEF FeatureCommandOK
    <3> QED BY <1>5, <3>1
  <2>3. Stopped.pc = "stopped"
    BY DEF Stopped
  <2> QED BY <1>5, <2>1, <2>2, <2>3 DEF BatchOK
<1>7. /\ r \in LabelCommand /\ r.first <= d /\ d \in Nat
      /\ r.present \subseteq DaysIn(labels) /\ (~overlapped => r.present = DaysIn(labels))
      /\ OutcomesSound(labels, r)
    BY <1>1, <1>6 DEF LabelCommandOK, LabelCommand
<1>8. /\ o \in DayOutcomes
      /\ o # "ABSENT" <=> d \in r.es \union r.definitions
      /\ o = "ALREADY_PRESENT" => d \in r.present
      /\ o = "LABELLED" => d \in r.es /\ d \notin r.present
    BY <1>1, OutcomeFacts
<1>9. LandingInv' /\ IsSeq(labels) /\ LandedOK(landed)
    BY <1>5 DEF LabelInv, LandingInv, LabelLinesInv
<1>10. /\ LabelLinesInv'
       /\ DaysIn(labels') = IF o = "LABELLED" THEN DaysIn(labels) \union {d} ELSE DaysIn(labels)
       /\ \A y, p : Priced(labels, y, p) => Priced(labels', y, p)
  <2>1. CASE o # "LABELLED"
    BY <1>5, <2>1 DEF LabelInv, LabelLinesInv
  <2>2. CASE o = "LABELLED"
    <3>1. LabelSound(landed, line) /\ line.day = d
      <4>1. PICK alone : LabelCommandOK(landed, labels, alone, r)
        BY <1>6
      <4>2. OutcomeOf(r, d) = "LABELLED"
        BY <1>1, <2>2
      <4> QED BY <1>2, <1>9, <4>1, <4>2, NewLabel
    <3>2. Lengthened(labels, line, labels')
      BY <1>5, <1>9, <2>2, LineAppended
    <3>3. /\ DaysIn(labels') = DaysIn(labels) \union {d}
          /\ \A y, p : Priced(labels, y, p) => Priced(labels', y, p)
          /\ OneEach(labels) /\ d \notin DaysIn(labels) => OneEach(labels')
      BY <1>5, <1>9, <2>2, <3>1, DaysGrow
    <3>4. \A i \in DOMAIN labels' : LabelSound(landed, labels'[i])
      BY <3>1, <3>2 DEF Lengthened, LabelInv, LabelLinesInv
    <3>5. ~overlapped => OneEach(labels')
      BY <1>7, <1>8, <2>2, <3>3 DEF LabelInv, LabelLinesInv
    <3>6. IsSeq(labels')
      BY <3>2 DEF Lengthened
    <3>7. LabelLinesInv'
      BY <1>5, <3>4, <3>5, <3>6 DEF LabelLinesInv
    <3> QED BY <2>2, <3>3, <3>7
  <2> QED BY <2>1, <2>2
<1>11. FeatureLinesInv'
    BY <1>5, <1>10 DEF LabelInv, FeatureLinesInv
<1>12. DaysIn(labels) \subseteq DaysIn(labels')
    BY <1>10
<1>13. P \subseteq DaysIn(labels') /\ (~overlapped => P = DaysIn(labels'))
    BY <1>2, <1>7, <1>10
<1>14. ASSUME o # "NormalizeError"
       PROVE  next.pc = "label" /\ LabelCommandOK(landed, labels', ~overlapped, next)
  <2>1. d \in TradingDays \/ o = "ABSENT"
    BY <1>7, <1>8 DEF LabelCommand
  <2>2. P \in SUBSET TradingDays /\ O \in SUBSET (TradingDays \X DayOutcomes) /\ d + 1 \in Nat
    <3>1. r.present \in SUBSET TradingDays /\ r.outcomes \in SUBSET (TradingDays \X DayOutcomes)
      BY <1>7 DEF LabelCommand
    <3>2. P \in SUBSET TradingDays
      BY <1>2, <1>8, <2>1, <3>1
    <3>3. O \in SUBSET (TradingDays \X DayOutcomes)
      BY <1>2, <1>8, <2>1, <3>1
    <3> QED BY <1>7, <3>2, <3>3
  <2>3. Updated(next, r, d + 1, P, O)
    BY <1>3, <1>7, <2>2, CommandUpdated
  <2>4. d \in TradingDays
    <3>1. r.first \in TradingDays /\ LastDay \in Nat
      BY <1>7, LabelAssumption DEF LabelCommand
    <3> QED BY <1>5, <1>7, <3>1 DEF TradingDays
  <2>5. o \in {"LABELLED", "ALREADY_PRESENT"} => d \in DaysIn(labels')
    BY <1>7, <1>8, <1>10
  <2>6. OutcomesSound(labels', next)
    <3>1. PICK lines, longer : lines = labels /\ longer = labels'
      OBVIOUS
    <3>2. /\ DaysIn(lines) \subseteq DaysIn(longer) /\ OutcomesSound(lines, r)
          /\ r.first <= r.day
          /\ o \in {"LABELLED", "ALREADY_PRESENT"} => d \in DaysIn(longer)
      BY <1>1, <1>7, <1>12, <2>5, <3>1
    <3>3. /\ r \in LabelCommand /\ d = r.day /\ o \in DayOutcomes
          /\ o # "ABSENT" <=> d \in r.es \union r.definitions
          /\ O = IF o = "ABSENT" THEN r.outcomes ELSE r.outcomes \union {<<d, o>>}
      BY <1>1, <1>2, <1>7, <1>8
    <3>4. OutcomesSound(longer, next)
      BY ONLY <2>3, <2>4, <3>2, <3>3, OutcomeAdded
    <3> QED BY <3>1, <3>4
  <2>7. next.first <= next.day
    <3>1. r.first \in Nat
      BY <1>7 DEF LabelCommand, TradingDays
    <3> QED BY <1>7, <2>3, <3>1 DEF Updated
  <2> QED BY <1>6, <1>13, <2>3, <2>6, <2>7 DEF LabelCommandOK, Updated
<1>15. BatchOK(landed', labels', features', ~overlapped', moved)
    BY <1>4, <1>5, <1>14 DEF BatchOK
<1>16. ASSUME NEW x \in Commands \ {c}
       PROVE  BatchOK(landed', labels', features', ~overlapped', command[x])
  <2>1. BatchOK(landed, labels, features, ~overlapped, command[x])
    BY DEF LabelInv, CommandsInv
  <2>2. ASSUME LabelCommandOK(landed, labels, ~overlapped, command[x])
        PROVE  LabelCommandOK(landed, labels', ~overlapped, command[x])
    <3>1. command[x].pc = "label"
      BY <2>2 DEF LabelCommandOK, LabelCommand
    <3>2. overlapped
      BY <1>1, <1>5, <1>6, <3>1 DEF LabelInv, CommandsInv
    <3> QED BY <1>12, <2>2, <3>2 DEF LabelCommandOK, OutcomesSound
  <2>3. ASSUME FeatureCommandOK(labels, features, ~overlapped, command[x])
        PROVE  FeatureCommandOK(labels', features, ~overlapped, command[x])
    BY <1>10, <2>3 DEF FeatureCommandOK
  <2> QED BY <1>5, <2>1, <2>2, <2>3 DEF BatchOK
<1>17. moved = Stopped \/ (command[c] # Stopped /\ moved.pc = command[c].pc)
    BY <1>1, <1>4, <1>5, <1>6, <1>14
<1>18. CommandsInv'
    BY <1>5, <1>15, <1>16, <1>17, OneMoves
<1> QED BY <1>9, <1>10, <1>11, <1>18 DEF LabelInv
LEMMA LabelStep ==
    ASSUME LabelInv, LabelNext
    PROVE  LabelInv'
<1>1. ASSUME NEW d \in TradingDays, LandDay(d) \/ LandDefinition(d) PROVE LabelInv'
    BY <1>1, LandStep, DefinitionStep
<1>2. ASSUME NEW c \in Commands, NEW first \in FirstDays, NEW entry \in EntryTimes,
             \/ \E anchors \in AnchorFiles : StartLabels(c, first, entry, anchors)
             \/ StartFeatures(c, first, entry)
      PROVE  LabelInv'
    BY <1>2, StartLabelsStep, StartFeaturesStep
<1>3. ASSUME NEW c \in Commands, LabelDay(c) \/ FeatureDay(c) \/ EndCommand(c)
      PROVE  LabelInv'
    BY <1>3, LabelDayStep, FeatureDayStep, EndStep
<1> QED BY <1>1, <1>2, <1>3 DEF LabelNext

LEMMA LabelInvariance == BenchSpec => []LabelInv
<1>1. BenchInit => LabelInv
  <2> SUFFICES ASSUME BenchInit PROVE LabelInv
    OBVIOUS
  <2>1. /\ landed = <<>> /\ definitions = {} /\ labels = <<>> /\ features = <<>>
        /\ command = [c \in Commands |-> Stopped] /\ overlapped = FALSE
    BY DEF BenchInit, LabelInit
  <2>2. <<>> \in Seq(TradingDays) /\ DOMAIN <<>> = {}
    BY EmptySeq
  <2>3. LandingInv
    BY <2>1, <2>2 DEF LandingInv, LandedOK
  <2>4. LabelLinesInv /\ FeatureLinesInv
    BY <2>1, <2>2 DEF LabelLinesInv, FeatureLinesInv, IsSeq, OneEach
  <2>5. \A c \in Commands : command[c] = Stopped
    BY <2>1
  <2>6. CommandsInv
    BY <2>1, <2>5 DEF CommandsInv, BatchOK
  <2> QED BY <2>3, <2>4, <2>6 DEF LabelInv
<1>2. ASSUME LabelInv, [BenchNext]_benchVars PROVE LabelInv'
  <2>1. CASE UseBatches
    BY <1>2, <2>1, LabelStep DEF UseBatches
  <2>2. CASE UNCHANGED labelVars
    BY <1>2, <2>2 DEF labelVars, LabelInv, LandingInv, LabelLinesInv, FeatureLinesInv,
          CommandsInv
  <2>3. UseBatches \/ UNCHANGED labelVars
    BY <1>2 DEF BenchNext, benchVars, SplitSamples, Gate, AssessEvent, EvaluateDays, Answer,
          UseLedger, UseEngine
  <2> QED BY <2>1, <2>2, <2>3
<1> QED BY <1>1, <1>2, PTL DEF BenchSpec

LEMMA LinesAreRight == LabelInv => LabelsAreRight
<1> SUFFICES ASSUME LabelInv PROVE LabelsAreRight
    OBVIOUS
<1>1. OneLineForADay
  <2>1. ASSUME ~overlapped PROVE OneEach(labels) /\ OneEach(features)
    BY <2>1 DEF LabelInv, LabelLinesInv, FeatureLinesInv
  <2>2. \A i \in DOMAIN features : Priced(labels, features[i].day, features[i].center)
    BY DEF LabelInv, FeatureLinesInv
  <2> QED BY <2>1, <2>2 DEF OneLineForADay, OneEach, Priced
<1>2. \A i \in DOMAIN labels : AnchorSound(landed, labels[i]) /\ WindowSound(labels[i])
    BY DEF LabelInv, LabelLinesInv, LabelSound
<1>3. AnchoredOnTheNearestDay
  <2> SUFFICES ASSUME NEW i \in DOMAIN labels, NEW x, x = labels[i]
               PROVE  /\ x.prior \in Range(landed) /\ x.prior < x.day
                      /\ \A d \in Range(landed) : x.prior < d /\ d < x.day =>
                             (CHOOSE n \in DOMAIN landed : landed[n] = d) > x.read
    BY DEF AnchoredOnTheNearestDay
  <2>1. AnchorSound(landed, x)
    BY <1>2
  <2>2. Len(landed) \in Nat /\ DOMAIN landed = 1..Len(landed)
    BY LenProperties DEF LabelInv, LandingInv, LandedOK
  <2>3. x.read \in 0..Len(landed)
    BY <2>1 DEF AnchorSound
  <2>4. 1..x.read \subseteq DOMAIN landed
    BY <2>2, <2>3
  <2>5. x.prior \in Range(landed) /\ x.prior < x.day
    BY <2>1, <2>4 DEF AnchorSound, ReadDays, Range
  <2>6. ASSUME NEW d \in Range(landed), x.prior < d, d < x.day
        PROVE  (CHOOSE n \in DOMAIN landed : landed[n] = d) > x.read
    <3>1. PICK n : n = CHOOSE k \in DOMAIN landed : landed[k] = d
      OBVIOUS
    <3>2. n \in DOMAIN landed /\ landed[n] = d
      BY <3>1 DEF Range
    <3>3. d \notin ReadDays(landed, x.read)
      BY <2>1, <2>6 DEF AnchorSound
    <3>4. n \notin 1..x.read
      BY <3>2, <3>3 DEF ReadDays
    <3>5. n > x.read
      BY <2>2, <2>3, <3>2, <3>4
    <3> QED BY <3>1, <3>5
  <2> QED BY <2>5, <2>6
<1>4. NoDayIsSilent
  <2> SUFFICES ASSUME NEW c \in Commands, NEW r, r = command[c], r.pc = "label"
               PROVE  /\ {o[1] : o \in r.outcomes}
                           = (r.first..(r.day - 1)) \intersect (r.es \union r.definitions)
                      /\ \A o, x \in r.outcomes : o[1] = x[1] => o = x
                      /\ \A o \in r.outcomes :
                             o[2] \in {"LABELLED", "ALREADY_PRESENT"} =>
                                 \E i \in DOMAIN labels : labels[i].day = o[1]
    BY DEF NoDayIsSilent
  <2>1. BatchOK(landed, labels, features, ~overlapped, r)
    BY DEF LabelInv, CommandsInv
  <2>2. ~FeatureCommandOK(labels, features, ~overlapped, r)
    <3>1. ASSUME FeatureCommandOK(labels, features, ~overlapped, r) PROVE r.pc = "feature"
      BY <3>1 DEF FeatureCommandOK
    <3> QED BY <3>1
  <2>3. r # Stopped
    BY DEF Stopped
  <2>4. OutcomesSound(labels, r)
    BY <2>1, <2>2, <2>3 DEF BatchOK, LabelCommandOK
  <2>5. \A d \in DaysIn(labels) : \E i \in DOMAIN labels : labels[i].day = d
    BY DEF DaysIn
  <2> QED BY <2>4, <2>5 DEF OutcomesSound
<1>5. LabelsUseTheirWindow
    BY <1>2 DEF LabelsUseTheirWindow, WindowSound
<1> QED BY <1>1, <1>3, <1>4, <1>5 DEF LabelsAreRight

(* LabelsKeepTheirPromise: for every history, however it lands, and any    *)
(* number of label and feature batches, killed and started again,          *)
(* generate_labels and generate_entry_features write one line a day unless *)
(* two batches of a kind overlap, every label is anchored on the nearest   *)
(* day its batch had read and measured in its own window, features use the *)
(* price of a label, and no day of a batch goes without an outcome.        *)
THEOREM LabelsKeepTheirPromise == BenchSpec => []LabelsAreRight
    BY LinesAreRight, LabelInvariance, PTL

-----------------------------------------------------------------------------
(* The exit rules.                                                         *)

LEMMA MinOfTwo ==
    ASSUME NEW a \in Int, NEW b \in Int
    PROVE  Min({a, b}) \in {a, b} /\ Min({a, b}) <= a /\ Min({a, b}) <= b
<1>1. \E x \in {a, b} : \A y \in {a, b} : x <= y
    OBVIOUS
<1> QED BY <1>1 DEF Min

(* The only candidate for the least element is the least element.          *)
LEMMA LeastIs ==
    ASSUME NEW T \in SUBSET Nat, NEW x \in T, \A y \in T : x <= y
    PROVE  Min(T) = x
<1>1. Min(T) \in T /\ \A y \in T : Min(T) <= y
    BY Zenon DEF Min
<1>2. PICK y : y = Min(T)
    OBVIOUS
<1>3. y \in T /\ y <= x /\ x <= y
    BY <1>1, <1>2
<1>4. y = x
    BY ONLY <1>3, T \in SUBSET Nat, x \in T
<1> QED BY <1>2, <1>4

LEMMA LeastIsLeast ==
    ASSUME NEW T \in SUBSET Nat, T # {}
    PROVE  Min(T) \in T /\ \A y \in T : Min(T) <= y
<1>1. \E x \in T : \A y \in T : x <= y
    BY LeastNat
<1> QED BY <1>1, Zenon DEF Min

DayQuotes == Seq(OptionQuote)

LEMMA QuoteFacts ==
    ASSUME NEW qs \in DayQuotes, NEW i \in DOMAIN qs
    PROVE  qs[i].ts \in Nat /\ qs[i].bid \in Int /\ qs[i].ask \in Int
<1>1. PICK Q : Q = OptionQuote
    OBVIOUS
<1>2. qs \in Seq(Q)
    BY <1>1 DEF DayQuotes
<1>3. qs[i] \in Q
    BY <1>2
<1> QED BY <1>1, <1>3 DEF OptionQuote

(* The quotes of a leg known at a minute.                                  *)
KnownQuotes(qs, leg, t) == {i \in DOMAIN qs : qs[i].leg = leg /\ qs[i].ts <= t}

LEMMA LatestIs ==
    ASSUME NEW qs, NEW leg, NEW t
    PROVE  LatestQuote(qs, leg, t) = IF KnownQuotes(qs, leg, t) = {} THEN NoQuote
                                     ELSE qs[Max(KnownQuotes(qs, leg, t))]
BY DEF LatestQuote, KnownQuotes

LEMMA LatestTyped ==
    ASSUME NEW qs \in DayQuotes, NEW leg, NEW t
    PROVE  /\ LatestQuote(qs, leg, t).bid \in Int
           /\ LatestQuote(qs, leg, t).ask \in Int
<1>1. PICK K : K = KnownQuotes(qs, leg, t)
    OBVIOUS
<1>2. K \subseteq DOMAIN qs
    BY <1>1 DEF KnownQuotes
<1>3. CASE K = {}
  <2>1. LatestQuote(qs, leg, t) = NoQuote
    BY <1>1, <1>3, LatestIs
  <2> QED BY <2>1 DEF NoQuote, NoPrice
<1>4. CASE K # {}
  <2>1. Len(qs) \in Nat /\ DOMAIN qs = 1..Len(qs)
    BY DEF DayQuotes
  <2>2. K \in SUBSET (0..Len(qs))
    BY <1>2, <2>1
  <2>3. Max(K) \in DOMAIN qs
    BY <1>2, <1>4, <2>1, <2>2, GreatestOf
  <2>4. LatestQuote(qs, leg, t) = qs[Max(K)]
    BY <1>1, <1>4, LatestIs
  <2> QED BY <2>3, <2>4, QuoteFacts
<1> QED BY <1>3, <1>4

(* The quotes cut off lie after a minute: up to that minute the latest     *)
(* quotes are the same.                                                    *)
LEMMA CutLatest ==
    ASSUME NEW qs \in DayQuotes, NEW n \in 0..Len(qs), NEW T \in Nat,
           \A i \in (n + 1)..Len(qs) : qs[i].ts > T,
           NEW leg, NEW t \in Nat, t <= T
    PROVE  LatestQuote(SubSeq(qs, 1, n), leg, t) = LatestQuote(qs, leg, t)
<1>1. PICK early : early = SubSeq(qs, 1, n)
    OBVIOUS
<1>2. Len(qs) \in Nat /\ DOMAIN qs = 1..Len(qs)
    BY DEF DayQuotes
<1>3. /\ DOMAIN early = 1..n
      /\ \A i \in 1..n : early[i] = qs[i]
  <2>1. PICK Q : Q = OptionQuote
    OBVIOUS
  <2>2. qs \in Seq(Q)
    BY <2>1 DEF DayQuotes
  <2> QED BY ONLY <1>1, <2>2, n \in 0..Len(qs)
<1>4. \A i \in DOMAIN qs : qs[i].ts <= t => i \in 1..n
  <2>1. SUFFICES ASSUME NEW i \in DOMAIN qs, qs[i].ts <= t, i \notin 1..n PROVE FALSE
    OBVIOUS
  <2>2. i \in (n + 1)..Len(qs)
    BY <1>2, <2>1
  <2> QED BY <2>1, <2>2, QuoteFacts
<1>5. KnownQuotes(early, leg, t) = KnownQuotes(qs, leg, t)
    BY <1>2, <1>3, <1>4 DEF KnownQuotes
<1>6. \A i \in KnownQuotes(qs, leg, t) : i \in 1..n
    BY <1>4 DEF KnownQuotes
<1>7. CASE KnownQuotes(qs, leg, t) = {}
    BY <1>1, <1>5, <1>7, LatestIs
<1>8. CASE KnownQuotes(qs, leg, t) # {}
  <2>0. n \in Nat
    BY <1>2
  <2>1. KnownQuotes(qs, leg, t) \in SUBSET (0..n)
    BY <1>6
  <2>2. Max(KnownQuotes(qs, leg, t)) \in KnownQuotes(qs, leg, t)
    BY <1>8, <2>1, <2>0, GreatestOf
  <2>3. Max(KnownQuotes(qs, leg, t)) \in 1..n
    BY <1>6, <2>2
  <2> QED BY <1>1, <1>3, <1>5, <1>8, <2>3, LatestIs
<1> QED BY <1>7, <1>8

-----------------------------------------------------------------------------
(* The minutes that trigger a rule, and the exit they give.                *)
Fired(day, rule) ==
    {m \in (day.entry + 1)..SessionClose :
        /\ Usable(ClosePrices(day, m))
        /\ Triggers(rule, Credit(day), NetOf(ClosePrices(day, m)), m)}

LEMMA ExitIs ==
    ASSUME NEW day, NEW rule
    PROVE  SimulateExit(day, rule) =
             IF Fired(day, rule) = {}
             THEN [reason |-> "EXPIRY", at |-> SessionClose,
                   cost |-> Settlement(day.close), pnl |-> DayPnl(day)]
             ELSE [reason |-> rule, at |-> Min(Fired(day, rule)),
                   cost |-> NetOf(ClosePrices(day, Min(Fired(day, rule)))),
                   pnl |-> Credit(day) - NetOf(ClosePrices(day, Min(Fired(day, rule))))]
BY DEF SimulateExit, Fired

LEMMA DayFacts ==
    ASSUME NEW d \in DayRecord
    PROVE  d.entry \in Nat /\ d.quotes \in DayQuotes /\ d.close \in Nat
BY DEF DayRecord, DayQuotes

LEMMA PricesTyped ==
    ASSUME NEW d \in DayRecord, NEW m
    PROVE  Credit(d) \in Int /\ NetOf(ClosePrices(d, m)) \in Int
<1>1. PICK qs : qs = d.quotes /\ qs \in DayQuotes
    BY DayFacts
<1>2. \A leg, t : LatestQuote(qs, leg, t).bid \in Int /\ LatestQuote(qs, leg, t).ask \in Int
    BY <1>1, LatestTyped
<1>3. \A leg, t : /\ SellPrice(LatestQuote(qs, leg, t)) \in Int
                  /\ BuyPrice(LatestQuote(qs, leg, t)) \in Int
    BY <1>2 DEF SellPrice, BuyPrice, NoPrice
<1>4. Credit(d) \in Int
    BY <1>1, <1>3 DEF Credit, NetOf, FillPrices
<1>5. NetOf(ClosePrices(d, m)) \in Int
    BY <1>1, <1>3 DEF NetOf, ClosePrices
<1> QED BY <1>4, <1>5

LEMMA FiredFacts ==
    ASSUME NEW d \in DayRecord, NEW rule
    PROVE  /\ Fired(d, rule) \in SUBSET Nat
           /\ \A m \in Fired(d, rule) : m > d.entry /\ m <= SessionClose
BY DayFacts, EconomicsAssumption DEF Fired

(* What a settlement costs is between nothing and the wing.                *)
LEMMA SettlementBounds ==
    ASSUME NEW close \in Nat
    PROVE  Wing \in Nat /\ Settlement(close) \in 0..Wing
<1>1. /\ Strikes.sp \in Nat /\ Strikes.lp \in Nat /\ Strikes.sc \in Nat
      /\ Strikes.lc \in Nat /\ Wing \in Nat
    BY EconomicsAssumption DEF Legs, Wing
<1>2. PICK a, b, c, e : /\ a = Max({0, Strikes.sp - close})
                        /\ b = Max({0, close - Strikes.sc})
                        /\ c = Max({0, Strikes.lp - close})
                        /\ e = Max({0, close - Strikes.lc})
    OBVIOUS
<1>3. a \in Int /\ b \in Int /\ c \in Int /\ e \in Int
  <2>1. /\ 0 \in Int /\ Strikes.sp - close \in Int /\ close - Strikes.sc \in Int
        /\ Strikes.lp - close \in Int /\ close - Strikes.lc \in Int
    BY <1>1
  <2> QED BY <1>2, <2>1, MaxOfTwo
<1>4. PICK loss \in Int : loss = a + b - (c + e)
    BY <1>3
<1>5. Settlement(close) = Min({Max({0, loss}), Wing})
    BY <1>2, <1>4 DEF Settlement
<1>6. Max({0, loss}) \in Nat
    BY MaxOfTwo
<1>7. PICK x : x = Max({0, loss}) /\ x \in Nat
    BY <1>6
<1>8. Min({x, Wing}) \in 0..Wing
  <2>1. x \in Int /\ Wing \in Int
    BY <1>1, <1>7
  <2>2. Min({x, Wing}) \in {x, Wing} /\ Min({x, Wing}) <= Wing
    BY <2>1, MinOfTwo
  <2>3. PICK y : y = Min({x, Wing})
    OBVIOUS
  <2>4. (y = x \/ y = Wing) /\ y <= Wing
    BY <2>2, <2>3
  <2>5. y \in 0..Wing
    BY ONLY <1>1, <1>7, <2>4
  <2> QED BY <2>3, <2>5
<1> QED BY <1>1, <1>5, <1>7, <1>8

-----------------------------------------------------------------------------
(* A day whose quotes after a minute are cut off.                          *)
CutDay(d, n) == [d EXCEPT !.quotes = SubSeq(@, 1, n)]

LEMMA CutDayFacts ==
    ASSUME NEW d \in DayRecord, NEW n \in 0..Len(d.quotes)
    PROVE  /\ CutDay(d, n).entry = d.entry /\ CutDay(d, n).close = d.close
           /\ CutDay(d, n).quotes = SubSeq(d.quotes, 1, n)
BY DEF CutDay, DayRecord

LEMMA CutPrices ==
    ASSUME NEW d \in DayRecord, NEW n \in 0..Len(d.quotes), NEW T \in Nat,
           \A i \in (n + 1)..Len(d.quotes) : d.quotes[i].ts > T,
           d.entry <= T
    PROVE  /\ Credit(CutDay(d, n)) = Credit(d)
           /\ \A m \in 0..T : ClosePrices(CutDay(d, n), m) = ClosePrices(d, m)
<1>1. PICK qs : qs = d.quotes /\ qs \in DayQuotes /\ d.entry \in Nat
    BY DayFacts
<1>2. \A leg : \A t \in 0..T :
          LatestQuote(SubSeq(qs, 1, n), leg, t) = LatestQuote(qs, leg, t)
  <2>1. SUFFICES ASSUME NEW leg, NEW t \in 0..T
                 PROVE  LatestQuote(SubSeq(qs, 1, n), leg, t) = LatestQuote(qs, leg, t)
    OBVIOUS
  <2>2. /\ qs \in DayQuotes /\ n \in 0..Len(qs) /\ t \in Nat /\ t <= T
        /\ \A i \in (n + 1)..Len(qs) : qs[i].ts > T
    BY <1>1
  <2> QED BY <2>2, CutLatest
<1>3. /\ CutDay(d, n).entry = d.entry
      /\ CutDay(d, n).quotes = SubSeq(qs, 1, n)
    BY <1>1, CutDayFacts
<1>4. d.entry \in 0..T
    BY <1>1
<1>5. FillPrices(CutDay(d, n)) = FillPrices(d)
    BY <1>1, <1>2, <1>3, <1>4 DEF FillPrices
<1>6. \A m \in 0..T : ClosePrices(CutDay(d, n), m) = ClosePrices(d, m)
    BY <1>1, <1>2, <1>3 DEF ClosePrices
<1> QED BY <1>5, <1>6 DEF Credit

(* An exit is the same on the day cut off after it.                        *)
LEMMA CutExit ==
    ASSUME NEW d \in DayRecord, NEW rule \in ExitRules, Fired(d, rule) # {},
           NEW n \in 0..Len(d.quotes),
           \A i \in (n + 1)..Len(d.quotes) : d.quotes[i].ts > Min(Fired(d, rule))
    PROVE  SimulateExit(CutDay(d, n), rule) = SimulateExit(d, rule)
<1>1. PICK T : T = Min(Fired(d, rule))
    OBVIOUS
<1>2. /\ T \in Fired(d, rule)
      /\ \A m \in Fired(d, rule) : T <= m
      /\ T \in Nat
    BY <1>1, FiredFacts, LeastIsLeast
<1>3. d.entry <= T
    BY <1>2, FiredFacts, DayFacts
<1>4. PICK c : c = CutDay(d, n)
    OBVIOUS
<1>5. /\ Credit(c) = Credit(d)
      /\ \A m \in 0..T : ClosePrices(c, m) = ClosePrices(d, m)
      /\ c.entry = d.entry
    BY <1>1, <1>2, <1>3, <1>4, CutPrices, CutDayFacts
<1>6. \A m \in 0..T : m \in Fired(c, rule) <=> m \in Fired(d, rule)
    BY <1>5 DEF Fired
<1>7. Fired(c, rule) \in SUBSET Nat
    BY <1>5, DayFacts, EconomicsAssumption DEF Fired
<1>8. T \in Fired(c, rule)
    BY <1>2, <1>6
<1>9. \A m \in Fired(c, rule) : T <= m
  <2>1. SUFFICES ASSUME NEW m \in Fired(c, rule), ~(T <= m) PROVE FALSE
    OBVIOUS
  <2>2. m \in 0..T
    BY <1>2, <1>7, <2>1
  <2> QED BY <1>2, <1>6, <2>1, <2>2
<1>10. Min(Fired(c, rule)) = T
    BY <1>7, <1>8, <1>9, LeastIs
<1>11. ClosePrices(c, T) = ClosePrices(d, T)
    BY <1>2, <1>5
<1> QED BY <1>1, <1>4, <1>5, <1>8, <1>10, <1>11, ExitIs

-----------------------------------------------------------------------------
(* What an exit makes.                                                     *)
LEMMA ExitPays ==
    ASSUME NEW d \in DayRecord, NEW rule \in ExitRules, Credit(d) > 0,
           NEW exit, exit = SimulateExit(d, rule)
    PROVE  /\ exit.reason = "PROFIT_TARGET" => 2 * exit.pnl >= Profit * Credit(d)
           /\ exit.reason = "STOP_LOSS" => exit.pnl <= -(StopMultiple * Credit(d))
           /\ exit.reason = "EXPIRY" => exit.pnl \in (Credit(d) - Wing)..Credit(d)
<1>1. PICK credit \in Int : credit = Credit(d)
    BY PricesTyped
<1>2. CASE Fired(d, rule) = {}
  <2>1. exit.reason = "EXPIRY" /\ exit.pnl = DayPnl(d)
    BY <1>2, ExitIs
  <2>2. PICK paid : paid = Settlement(d.close)
    OBVIOUS
  <2>3. Wing \in Nat /\ paid \in 0..Wing
    BY <2>2, SettlementBounds, DayFacts
  <2>4. exit.pnl = credit - paid
    BY <1>1, <2>1, <2>2 DEF DayPnl
  <2>5. exit.pnl \in (credit - Wing)..credit
    BY ONLY <1>1, <2>3, <2>4
  <2> QED BY <1>1, <2>1, <2>5
<1>3. CASE Fired(d, rule) # {}
  <2>1. PICK T : T = Min(Fired(d, rule)) /\ T \in Fired(d, rule)
    BY <1>3, FiredFacts, LeastIsLeast
  <2>2. PICK cost \in Int : cost = NetOf(ClosePrices(d, T))
    BY PricesTyped
  <2>3. exit.reason = rule /\ exit.pnl = credit - cost
    BY <1>1, <1>3, <2>1, <2>2, ExitIs
  <2>4. Triggers(rule, credit, cost, T)
    BY <1>1, <2>1, <2>2 DEF Fired
  <2>5. rule # "EXPIRY"
    BY DEF ExitRules
  <2>6. ASSUME rule = "PROFIT_TARGET" PROVE 2 * exit.pnl >= Profit * credit
    <3>1. 2 * cost <= credit * (2 - Profit)
      BY <2>4, <2>6 DEF Triggers
    <3>2. Profit = 1 \/ Profit = 2
      BY EconomicsAssumption
    <3>3. CASE Profit = 1
      BY ONLY <1>1, <2>2, <2>3, <3>1, <3>3
    <3>4. CASE Profit = 2
      BY ONLY <1>1, <2>2, <2>3, <3>1, <3>4
    <3> QED BY <3>2, <3>3, <3>4
  <2>7. ASSUME rule = "STOP_LOSS" PROVE exit.pnl <= -(StopMultiple * credit)
    <3>1. cost >= credit * (1 + StopMultiple)
      BY <2>4, <2>7 DEF Triggers
    <3>2. StopMultiple \in Int
      BY EconomicsAssumption
    <3>3. credit * (1 + StopMultiple) = credit + StopMultiple * credit
      BY ONLY <1>1, <3>2
    <3>4. PICK loss \in Int : loss = StopMultiple * credit
      BY <1>1, <3>2
    <3>5. cost >= credit + loss
      BY <3>1, <3>3, <3>4
    <3>6. credit - cost <= -loss
      BY ONLY <1>1, <2>2, <3>4, <3>5
    <3> QED BY <2>3, <3>4, <3>6
  <2> QED BY <1>1, <2>3, <2>5, <2>6, <2>7
<1> QED BY <1>2, <1>3

(* The days a request simulates are days of the request.                   *)
LEMMA SimulatedAreDays == AnswerInv => SimulatedDays \subseteq DayRecord
<1>1. SUFFICES ASSUME AnswerInv, NEW d \in SimulatedDays PROVE d \in DayRecord
    OBVIOUS
<1>2. Answered("days") /\ \E i \in DOMAIN job.days : d = job.days[i]
    BY <1>1 DEF SimulatedDays, DaysWith
<1>3. job \in Jobs /\ job.task = "days"
    BY <1>1, <1>2 DEF AnswerInv, Answered
<1>4. PICK D : D = DayRecord
    OBVIOUS
<1>5. job.days \in Seq(D)
    BY <1>3, <1>4, JobsAssumption
<1> QED BY <1>2, <1>4, <1>5

LEMMA FairFromAnswer == AnswerInv => ExitsAreFair
<1>1. SUFFICES ASSUME AnswerInv PROVE ExitsAreFair
    OBVIOUS
<1>2. NoLookahead
  <2>1. SUFFICES ASSUME NEW d \in SimulatedDays, NEW rule \in ExitRules,
                        SimulateExit(d, rule).reason # "EXPIRY",
                        NEW n \in 0..Len(d.quotes),
                        \A i \in (n + 1)..Len(d.quotes) :
                            d.quotes[i].ts > SimulateExit(d, rule).at
                 PROVE  SimulateExit(CutDay(d, n), rule) = SimulateExit(d, rule)
    BY DEF NoLookahead, CutDay
  <2>2. d \in DayRecord
    BY <1>1, <2>1, SimulatedAreDays
  <2>3. Fired(d, rule) # {} /\ SimulateExit(d, rule).at = Min(Fired(d, rule))
    BY <2>1, ExitIs
  <2> QED BY <2>1, <2>2, <2>3, CutExit
<1>3. TriggersPay
    BY <1>1, SimulatedAreDays, ExitPays DEF TriggersPay
<1> QED BY <1>2, <1>3 DEF ExitsAreFair

(* For any days, quotes and rules: an exit before expiry depends on no     *)
(* quote after it, and a target, a stop and an expiry of a position opened *)
(* for a credit pay on the side they stand for.                            *)
THEOREM ExitsStayFair == BenchSpec => []ExitsAreFair
BY AnswerInvariance, FairFromAnswer, PTL

-----------------------------------------------------------------------------
(* Totals: the sum over a set as the library builds it, a function on the  *)
(* subsets of S which it chooses, for days that made w less a fee each.    *)
FirstOf(s) == CHOOSE y \in s : TRUE

Adds(f, w, fee, S) ==
    f = [s \in SUBSET S |->
            IF s = {} THEN 0 ELSE (w[FirstOf(s)] - fee) + f[s \ {FirstOf(s)}]]

Made(w, fee, S) == (CHOOSE f : Adds(f, w, fee, S))[S]

LEMMA SummaryIs ==
    ASSUME NEW days, NEW pnl, NEW fee
    PROVE  Summary(days, pnl, fee) =
             [raised      |-> FALSE,
              priced      |-> Cardinality(DaysWith(days, "priced")),
              unpriceable |-> Cardinality(DaysWith(days, "unpriceable")),
              chain       |-> Cardinality(DaysWith(days, "chain")),
              labels      |-> Cardinality(DaysWith(days, "labels")),
              distances   |-> Cardinality(DaysWith(days, "distances")),
              total       |-> Made(pnl, 0, DaysWith(days, "priced")),
              net         |-> Made(pnl, fee, DaysWith(days, "priced"))]
BY DEF Summary, MapThenSumSet, MapThenFoldSet, Made, Adds, FirstOf

LEMMA FirstIsIn ==
    ASSUME NEW s, s # {}
    PROVE  FirstOf(s) \in s
BY DEF FirstOf

LEMMA OneLess ==
    ASSUME NEW S, IsFiniteSet(S), NEW s \in SUBSET S, NEW x \in s
    PROVE  /\ s \ {x} \in SUBSET S
           /\ Cardinality(s) \in Nat /\ Cardinality(s \ {x}) \in Nat
           /\ Cardinality(s \ {x}) = Cardinality(s) - 1
<1>1. IsFiniteSet(s)
    BY FS_Subset
<1>2. Cardinality(s) \in Nat
    BY <1>1, FS_CardinalityType
<1>3. IsFiniteSet(s \ {x}) /\ Cardinality(s \ {x}) = Cardinality(s) - 1
    BY <1>1, FS_RemoveElement
<1>4. Cardinality(s \ {x}) \in Nat
    BY <1>3, FS_CardinalityType
<1> QED BY <1>2, <1>3, <1>4

(* Induction over the subsets of a finite set: if some are bad, one is bad *)
(* although it is good without any of its elements.                        *)
LEMMA LeastBad ==
    ASSUME NEW S, IsFiniteSet(S), NEW B \in SUBSET (SUBSET S), B # {}
    PROVE  \E s \in B : \A x \in s : s \ {x} \notin B
<1>1. \A s \in B : Cardinality(s) \in Nat
    BY FS_Subset, FS_CardinalityType
<1>2. PICK T : T = {Cardinality(s) : s \in B}
    OBVIOUS
<1>3. T \in SUBSET Nat /\ T # {}
    BY <1>1, <1>2
<1>4. PICK n \in T : \A m \in T : n <= m
    BY <1>3, LeastNat
<1>5. PICK s \in B : Cardinality(s) = n
    BY <1>2, <1>4
<1>6. ASSUME NEW x \in s, s \ {x} \in B PROVE FALSE
  <2>1. Cardinality(s \ {x}) = n - 1 /\ n \in Nat
    BY <1>5, <1>6, OneLess
  <2>2. Cardinality(s \ {x}) \in T
    BY <1>2, <1>6
  <2>3. n <= n - 1
    BY <1>4, <2>1, <2>2
  <2> QED BY ONLY <2>1, <2>3
<1> QED BY <1>6

(* The function that is chosen exists: it is built up from the subsets of  *)
(* at most n elements.                                                     *)
Small(S, n) == {s \in SUBSET S : Cardinality(s) <= n}

AddsUpTo(f, w, fee, S, n) ==
    /\ DOMAIN f = Small(S, n)
    /\ f = [s \in Small(S, n) |->
               IF s = {} THEN 0 ELSE (w[FirstOf(s)] - fee) + f[s \ {FirstOf(s)}]]

LEMMA AddsStep ==
    ASSUME NEW S, IsFiniteSet(S), NEW w, NEW fee, NEW n \in Nat,
           NEW f, AddsUpTo(f, w, fee, S, n)
    PROVE  \E g : AddsUpTo(g, w, fee, S, n + 1)
<1>1. PICK g : g = [s \in Small(S, n + 1) |->
                       IF s = {} THEN 0 ELSE (w[FirstOf(s)] - fee) + f[s \ {FirstOf(s)}]]
    OBVIOUS
<1>2. \A s \in Small(S, n) : g[s] = f[s]
  <2>1. \A s \in SUBSET S : Cardinality(s) \in Nat
    BY FS_Subset, FS_CardinalityType
  <2>2. \A s \in Small(S, n) : s \in Small(S, n + 1)
    BY <2>1 DEF Small
  <2> QED BY <1>1, <2>2 DEF AddsUpTo
<1>3. ASSUME NEW s \in Small(S, n + 1), s # {}
      PROVE  s \ {FirstOf(s)} \in Small(S, n)
  <2>1. s \in SUBSET S /\ Cardinality(s) <= n + 1 /\ FirstOf(s) \in s
    BY <1>3, FirstIsIn DEF Small
  <2>2. /\ s \ {FirstOf(s)} \in SUBSET S
        /\ Cardinality(s) \in Nat /\ Cardinality(s \ {FirstOf(s)}) \in Nat
        /\ Cardinality(s \ {FirstOf(s)}) = Cardinality(s) - 1
    BY <2>1, OneLess
  <2>3. Cardinality(s \ {FirstOf(s)}) <= n
    BY <2>1, <2>2
  <2> QED BY <2>2, <2>3 DEF Small
<1>4. ASSUME NEW s \in Small(S, n + 1)
      PROVE  g[s] = IF s = {} THEN 0 ELSE (w[FirstOf(s)] - fee) + g[s \ {FirstOf(s)}]
    BY <1>1, <1>2, <1>3
<1>5. g = [s \in Small(S, n + 1) |->
              IF s = {} THEN 0 ELSE (w[FirstOf(s)] - fee) + g[s \ {FirstOf(s)}]]
    BY <1>1, <1>4
<1>6. DOMAIN g = Small(S, n + 1)
    BY <1>1
<1>7. AddsUpTo(g, w, fee, S, n + 1)
    BY ONLY <1>5, <1>6, Zenon DEF AddsUpTo
<1> QED BY <1>7

LEMMA AddsExists ==
    ASSUME NEW S, IsFiniteSet(S), NEW w, NEW fee
    PROVE  \E f : Adds(f, w, fee, S)
<1>1. PICK T : T = {n \in Nat : ~ \E f : AddsUpTo(f, w, fee, S, n)}
    OBVIOUS
<1>2. T = {}
  <2>1. SUFFICES ASSUME T # {} PROVE FALSE
    OBVIOUS
  <2>2. PICK n \in T : \A m \in T : n <= m
    BY <1>1, <2>1, LeastNat
  <2>3. n \in Nat /\ ~ \E f : AddsUpTo(f, w, fee, S, n)
    BY <1>1
  <2>4. CASE n = 0
    <3>1. \A s \in SUBSET S : IsFiniteSet(s) /\ Cardinality(s) \in Nat
      BY FS_Subset, FS_CardinalityType
    <3>2. Small(S, 0) = {{}}
      <4>1. \A s \in SUBSET S : Cardinality(s) <= 0 => s = {}
        BY <3>1, FS_EmptySet
      <4>2. Cardinality({}) = 0
        BY FS_EmptySet
      <4> QED BY <4>1, <4>2 DEF Small
    <3>3. PICK f : f = [s \in Small(S, 0) |-> 0]
      OBVIOUS
    <3>4. AddsUpTo(f, w, fee, S, 0)
      BY <3>2, <3>3 DEF AddsUpTo
    <3> QED BY <2>3, <2>4, <3>4
  <2>5. CASE n # 0
    <3>1. PICK m : m = n - 1
      OBVIOUS
    <3>2. m \in Nat /\ n = m + 1 /\ m \notin T
      BY <2>2, <2>3, <2>5, <3>1
    <3>3. PICK f : AddsUpTo(f, w, fee, S, m)
      BY <1>1, <3>2
    <3> QED BY <2>3, <3>2, <3>3, AddsStep
  <2> QED BY <2>4, <2>5
<1>3. PICK n : n = Cardinality(S)
    OBVIOUS
<1>4. n \in Nat
    BY <1>3, FS_CardinalityType
<1>5. PICK f : AddsUpTo(f, w, fee, S, n)
    BY <1>1, <1>2, <1>4
<1>6. Small(S, n) = SUBSET S
    BY <1>3, FS_Subset DEF Small
<1>7. Adds(f, w, fee, S)
    BY <1>5, <1>6 DEF Adds, AddsUpTo
<1> QED BY <1>7

(* What the chosen function does at each subset.                           *)
Summed(f, w, fee, S) ==
    /\ f[{}] = 0
    /\ \A s \in SUBSET S : f[s] \in Int
    /\ \A s \in SUBSET S :
          s # {} => f[s] = (w[FirstOf(s)] - fee) + f[s \ {FirstOf(s)}]

LEMMA MadeIsSummed ==
    ASSUME NEW S, IsFiniteSet(S), NEW w \in [S -> Int], NEW fee \in Int
    PROVE  \E f : Summed(f, w, fee, S) /\ Made(w, fee, S) = f[S]
<1>1. PICK f : f = CHOOSE g : Adds(g, w, fee, S)
    OBVIOUS
<1>2. Adds(f, w, fee, S)
    BY <1>1, AddsExists
<1>3. Made(w, fee, S) = f[S]
    BY <1>1 DEF Made
<1>4. \A s \in SUBSET S :
          f[s] = IF s = {} THEN 0 ELSE (w[FirstOf(s)] - fee) + f[s \ {FirstOf(s)}]
    BY <1>2 DEF Adds
<1>5. f[{}] = 0
    BY <1>4
<1>6. PICK B : B = {s \in SUBSET S : f[s] \notin Int}
    OBVIOUS
<1>7. ASSUME B # {} PROVE FALSE
  <2>1. PICK s \in B : \A x \in s : s \ {x} \notin B
    BY <1>6, <1>7, LeastBad
  <2>2. s \in SUBSET S /\ f[s] \notin Int
    BY <1>6, <2>1
  <2>3. s # {}
    BY <1>5, <2>2
  <2>4. FirstOf(s) \in s /\ w[FirstOf(s)] \in Int
    BY <2>2, <2>3, FirstIsIn
  <2>5. f[s \ {FirstOf(s)}] \in Int
    BY <1>6, <2>1, <2>2, <2>4
  <2>6. f[s] = (w[FirstOf(s)] - fee) + f[s \ {FirstOf(s)}]
    BY <1>4, <2>2, <2>3
  <2> QED BY <2>2, <2>4, <2>5, <2>6
<1>8. \A s \in SUBSET S : f[s] \in Int
    BY <1>6, <1>7
<1>9. Summed(f, w, fee, S)
    BY <1>4, <1>5, <1>8 DEF Summed
<1> QED BY <1>3, <1>9

(* A fee on each day takes the fee times the days from the total.          *)
LEMMA FeesComeOff ==
    ASSUME NEW S, IsFiniteSet(S), NEW w \in [S -> Int], NEW fee \in Int
    PROVE  Made(w, fee, S) = Made(w, 0, S) - fee * Cardinality(S)
<1>1. PICK f : Summed(f, w, fee, S) /\ Made(w, fee, S) = f[S]
    BY MadeIsSummed
<1>2. PICK g : Summed(g, w, 0, S) /\ Made(w, 0, S) = g[S]
    BY MadeIsSummed
<1>3. PICK B : B = {s \in SUBSET S : f[s] # g[s] - fee * Cardinality(s)}
    OBVIOUS
<1>4. ASSUME B # {} PROVE FALSE
  <2>1. PICK s \in B : \A x \in s : s \ {x} \notin B
    BY <1>3, <1>4, LeastBad
  <2>2. s \in SUBSET S /\ f[s] # g[s] - fee * Cardinality(s)
    BY <1>3, <2>1
  <2>3. s # {}
    <3>1. f[{}] = 0 /\ g[{}] = 0 /\ Cardinality({}) = 0
      BY <1>1, <1>2, FS_EmptySet DEF Summed
    <3>2. f[{}] = g[{}] - fee * Cardinality({})
      BY <3>1
    <3> QED BY <2>2, <3>2
  <2>4. PICK x : x = FirstOf(s)
    OBVIOUS
  <2>5. x \in s /\ s \ {x} \in SUBSET S
    BY <2>2, <2>3, <2>4, FirstIsIn
  <2>6. PICK n, r : n = Cardinality(s) /\ r = s \ {x}
    OBVIOUS
  <2>7. n \in Nat /\ Cardinality(r) = n - 1
    BY <2>2, <2>5, <2>6, OneLess
  <2>8. f[r] = g[r] - fee * (n - 1)
    BY <1>3, <2>1, <2>5, <2>6, <2>7
  <2>9. f[s] = (w[x] - fee) + f[r] /\ g[s] = (w[x] - 0) + g[r]
    BY <1>1, <1>2, <2>2, <2>3, <2>4, <2>6 DEF Summed
  <2>10. f[r] \in Int /\ g[r] \in Int /\ w[x] \in Int
    BY <1>1, <1>2, <2>2, <2>5, <2>6 DEF Summed
  <2>11. fee * (n - 1) = fee * n - fee /\ fee * n \in Int
    BY ONLY <2>7, fee \in Int
  <2>12. f[s] = g[s] - fee * n
    BY ONLY <2>7, <2>8, <2>9, <2>10, <2>11, fee \in Int
  <2> QED BY <2>2, <2>6, <2>12
<1>5. S \notin B /\ S \in SUBSET S
    BY <1>4
<1> QED BY <1>1, <1>2, <1>3, <1>5

-----------------------------------------------------------------------------
(* What becomes of a day.                                                  *)

LEMMA DaysAre ==
    ASSUME NEW days
    PROVE  /\ DaysWith(days, "labels") =
                {i \in DOMAIN days : ~days[i].labelled /\ days[i].ranged}
           /\ DaysWith(days, "distances") =
                {i \in DOMAIN days : days[i].labelled /\ ~days[i].ranged}
           /\ DaysWith(days, "chain") =
                {i \in DOMAIN days : days[i].labelled /\ days[i].ranged /\ ~days[i].chain}
           /\ DaysWith(days, "unpriceable") =
                {i \in DOMAIN days : /\ days[i].labelled /\ days[i].ranged /\ days[i].chain
                                     /\ ~Priceable(days[i])}
           /\ DaysWith(days, "priced") =
                {i \in DOMAIN days : /\ days[i].labelled /\ days[i].ranged /\ days[i].chain
                                     /\ Priceable(days[i])}
BY DEF DaysWith

(* Disjoint sets are counted one by one.                                   *)
LEMMA CountApart ==
    ASSUME NEW S, NEW T, IsFiniteSet(S), IsFiniteSet(T), S \cap T = {}
    PROVE  /\ IsFiniteSet(S \cup T)
           /\ Cardinality(S) \in Nat /\ Cardinality(T) \in Nat
           /\ Cardinality(S \cup T) = Cardinality(S) + Cardinality(T)
<1>1. Cardinality(S) \in Nat /\ Cardinality(T) \in Nat
    BY FS_CardinalityType
<1>2. Cardinality(S \cap T) = 0
    BY FS_EmptySet
<1>3. /\ IsFiniteSet(S \cup T)
      /\ Cardinality(S \cup T) = Cardinality(S) + Cardinality(T) - Cardinality(S \cap T)
    BY FS_Union
<1> QED BY <1>1, <1>2, <1>3

LEMMA EveryDayCounted ==
    ASSUME NEW days \in Seq(DayRecord)
    PROVE  Cardinality(DaysWith(days, "priced")) + Cardinality(DaysWith(days, "unpriceable"))
             + Cardinality(DaysWith(days, "chain")) + Cardinality(DaysWith(days, "labels"))
             + Cardinality(DaysWith(days, "distances"))
           = Cardinality({i \in DOMAIN days : days[i].labelled \/ days[i].ranged})
<1>1. PICK A, B, C, E, F : /\ A = DaysWith(days, "priced")
                           /\ B = DaysWith(days, "unpriceable")
                           /\ C = DaysWith(days, "chain")
                           /\ E = DaysWith(days, "labels")
                           /\ F = DaysWith(days, "distances")
    OBVIOUS
<1>2. IsFiniteSet(DOMAIN days)
  <2>1. Len(days) \in Int /\ DOMAIN days = 1..Len(days)
    OBVIOUS
  <2> QED BY <2>1, FS_Interval
<1>3. /\ A \subseteq DOMAIN days /\ B \subseteq DOMAIN days /\ C \subseteq DOMAIN days
      /\ E \subseteq DOMAIN days /\ F \subseteq DOMAIN days
    BY <1>1, DaysAre
<1>4. /\ IsFiniteSet(A) /\ IsFiniteSet(B) /\ IsFiniteSet(C)
      /\ IsFiniteSet(E) /\ IsFiniteSet(F)
    BY <1>2, <1>3, FS_Subset
<1>5. A \cap B = {} /\ (A \cup B) \cap C = {}
    BY <1>1, DaysAre
<1>6. ((A \cup B) \cup C) \cap E = {} /\ (((A \cup B) \cup C) \cup E) \cap F = {}
    BY <1>1, DaysAre
<1>7. (((A \cup B) \cup C) \cup E) \cup F =
          {i \in DOMAIN days : days[i].labelled \/ days[i].ranged}
    BY <1>1, DaysAre
<1>8. /\ IsFiniteSet(A \cup B)
      /\ Cardinality(A) \in Nat /\ Cardinality(B) \in Nat
      /\ Cardinality(A \cup B) = Cardinality(A) + Cardinality(B)
    BY <1>4, <1>5, CountApart
<1>9. /\ IsFiniteSet((A \cup B) \cup C) /\ Cardinality(C) \in Nat
      /\ Cardinality((A \cup B) \cup C) = Cardinality(A \cup B) + Cardinality(C)
    BY <1>4, <1>5, <1>8, CountApart
<1>10. /\ IsFiniteSet(((A \cup B) \cup C) \cup E) /\ Cardinality(E) \in Nat
       /\ Cardinality(((A \cup B) \cup C) \cup E)
            = Cardinality((A \cup B) \cup C) + Cardinality(E)
    BY <1>4, <1>6, <1>9, CountApart
<1>11. Cardinality((((A \cup B) \cup C) \cup E) \cup F)
         = Cardinality(((A \cup B) \cup C) \cup E) + Cardinality(F)
    BY <1>4, <1>6, <1>10, CountApart
<1> QED BY <1>1, <1>7, <1>8, <1>9, <1>10, <1>11

(* Holding never exits: its days make what the economics batch says.       *)
LEMMA HoldPays ==
    ASSUME NEW days
    PROVE  RulePnl(days, "HOLD")
             = [i \in DaysWith(days, "priced") |-> DayPnl(days[i])]
<1>1. \A d : Fired(d, "HOLD") = {}
    BY DEF Fired, Triggers
<1>2. \A d : SimulateExit(d, "HOLD").pnl = DayPnl(d)
    BY <1>1, ExitIs
<1> QED BY <1>2 DEF RulePnl

LEMMA PnlTyped ==
    ASSUME NEW d \in DayRecord
    PROVE  DayPnl(d) \in Int
<1>1. Credit(d) \in Int
    BY PricesTyped
<1>2. Wing \in Nat /\ Settlement(d.close) \in 0..Wing
    BY SettlementBounds, DayFacts
<1> QED BY <1>1, <1>2 DEF DayPnl

LEMMA BaselineFromAnswer == AnswerInv => HoldIsTheBaseline
<1>1. SUFFICES ASSUME AnswerInv, Answered("days") PROVE HoldIsTheBaseline
    BY DEF HoldIsTheBaseline
<1>2. PICK days, economics, exits :
          /\ days = job.days
          /\ economics = answer.result.economics /\ exits = answer.result.exits
    OBVIOUS
<1>3. /\ job \in Jobs /\ job.task = "days"
      /\ economics = EconomicsBatch(days) /\ exits = ExitComparison(days)
    BY <1>1, <1>2 DEF AnswerInv, Answered, NoAnswer
<1>4. days \in Seq(DayRecord)
    BY <1>2, <1>3, JobsAssumption
<1>5. PICK S : S = DaysWith(days, "priced")
    OBVIOUS
<1>6. IsFiniteSet(S) /\ S \subseteq DOMAIN days
  <2>1. Len(days) \in Int /\ DOMAIN days = 1..Len(days)
    BY <1>4
  <2>2. S \subseteq DOMAIN days
    BY <1>5, DaysAre
  <2> QED BY <2>1, <2>2, FS_Interval, FS_Subset
<1>7. PICK w : w = [i \in S |-> DayPnl(days[i])]
    OBVIOUS
<1>8. w \in [S -> Int]
  <2>1. \A i \in S : days[i] \in DayRecord
    BY <1>4, <1>6
  <2> QED BY <1>7, <2>1, PnlTyped
<1>9. /\ economics = Raised \/ economics = Summary(days, w, FeePoints)
      /\ \A rule \in ExitRules :
             exits[rule] = Raised \/ exits[rule] = Summary(days, RulePnl(days, rule), 0)
      /\ "HOLD" \in ExitRules
    BY <1>3, <1>5, <1>7 DEF EconomicsBatch, ExitComparison, ExitRules
<1>10. RulePnl(days, "HOLD") = w
    BY <1>5, <1>7, HoldPays
<1>11. Raised.raised
    BY DEF Raised
<1>12. ASSUME ~economics.raised, ~exits["HOLD"].raised
       PROVE  economics = [exits["HOLD"] EXCEPT
                  !.net = exits["HOLD"].total - FeePoints * exits["HOLD"].priced]
  <2>1. economics = Summary(days, w, FeePoints) /\ exits["HOLD"] = Summary(days, w, 0)
    BY <1>9, <1>10, <1>11, <1>12
  <2>2. Made(w, FeePoints, S) = Made(w, 0, S) - FeePoints * Cardinality(S)
    BY <1>6, <1>8, FeesComeOff, EconomicsAssumption
  <2>3. PICK a, b, c, e, f, t, m : /\ a = Cardinality(S)
                                   /\ b = Cardinality(DaysWith(days, "unpriceable"))
                                   /\ c = Cardinality(DaysWith(days, "chain"))
                                   /\ e = Cardinality(DaysWith(days, "labels"))
                                   /\ f = Cardinality(DaysWith(days, "distances"))
                                   /\ t = Made(w, 0, S) /\ m = Made(w, FeePoints, S)
    OBVIOUS
  <2>4. economics = [raised |-> FALSE, priced |-> a, unpriceable |-> b, chain |-> c,
                     labels |-> e, distances |-> f, total |-> t, net |-> m]
    BY <1>5, <2>1, <2>3, SummaryIs
  <2>5. exits["HOLD"] = [raised |-> FALSE, priced |-> a, unpriceable |-> b, chain |-> c,
                         labels |-> e, distances |-> f, total |-> t, net |-> t]
    BY <1>5, <2>1, <2>3, SummaryIs
  <2>6. m = t - FeePoints * a
    BY <2>2, <2>3
  <2>7. exits["HOLD"].total - FeePoints * exits["HOLD"].priced = m
    BY <2>5, <2>6
  <2>8. economics = [exits["HOLD"] EXCEPT !.net = m]
    <3>1. PICK h, no : h = exits["HOLD"] /\ no = FALSE
      OBVIOUS
    <3>2. h = [raised |-> no, priced |-> a, unpriceable |-> b, chain |-> c,
               labels |-> e, distances |-> f, total |-> t, net |-> t]
      BY <2>5, <3>1
    <3>3. [h EXCEPT !.net = m] =
             [raised |-> no, priced |-> a, unpriceable |-> b, chain |-> c,
              labels |-> e, distances |-> f, total |-> t, net |-> m]
      BY ONLY <3>2
    <3> QED BY <2>4, <3>1, <3>3
  <2> QED BY ONLY <2>7, <2>8, Zenon
<1>13. ASSUME NEW rule \in ExitRules, ~exits[rule].raised
       PROVE  exits["HOLD"] = Summary(days, w, 0)
  <2>1. CASE \E i \in S : days[i].entry >= SessionClose
    <3>1. exits[rule] = Raised
      BY <1>3, <1>5, <2>1 DEF ExitComparison
    <3> QED BY <1>11, <1>13, <3>1
  <2>2. CASE ~ \E i \in S : days[i].entry >= SessionClose
    BY <1>3, <1>5, <1>9, <1>10, <2>2 DEF ExitComparison
  <2> QED BY <2>1, <2>2
<1>14. ASSUME NEW rule \in ExitRules, ~exits[rule].raised
       PROVE  /\ exits[rule].priced = exits["HOLD"].priced
              /\ exits[rule].unpriceable = exits["HOLD"].unpriceable
              /\ exits[rule].priced + exits[rule].unpriceable + exits[rule].chain
                   + exits[rule].labels + exits[rule].distances
                 = Cardinality({i \in DOMAIN days : days[i].labelled \/ days[i].ranged})
  <2>1. exits[rule] = Summary(days, RulePnl(days, rule), 0)
    BY <1>9, <1>11, <1>14
  <2>2. exits["HOLD"] = Summary(days, w, 0)
    BY <1>13, <1>14
  <2> QED BY <1>4, <2>1, <2>2, SummaryIs, EveryDayCounted
<1> QED BY <1>2, <1>12, <1>14 DEF HoldIsTheBaseline

(* For any days and fees: the HOLD rule and the economics batch report the *)
(* same counts and gross total and differ by the fees, every rule counts   *)
(* the same days, and every day with a label or a distance counts once.    *)
THEOREM HoldStaysTheBaseline == BenchSpec => []HoldIsTheBaseline
BY AnswerInvariance, BaselineFromAnswer, PTL

-----------------------------------------------------------------------------
(* The walk-forward split.                                                 *)

(* A finite set in a total order, and where its members stand.             *)
Chain(S, R) ==
    /\ IsFiniteSet(S)
    /\ \A x \in S : <<x, x>> \in R
    /\ \A x, y \in S : <<x, y>> \in R \/ <<y, x>> \in R
    /\ \A x, y \in S : <<x, y>> \in R /\ <<y, x>> \in R => x = y
    /\ \A x, y, z \in S : <<x, y>> \in R /\ <<y, z>> \in R => <<x, z>> \in R

Standing(S, R, x) == Cardinality({y \in S : <<y, x>> \in R})

LEMMA StandingGrows ==
    ASSUME NEW S, NEW R, Chain(S, R), NEW x \in S, NEW y \in S, <<x, y>> \in R, x # y
    PROVE  Standing(S, R, x) < Standing(S, R, y)
<1> DEFINE E == {z \in S : <<z, x>> \in R}
           F == {z \in S : <<z, y>> \in R}
<1>1. E \in SUBSET F /\ y \in F /\ y \notin E /\ F \in SUBSET S
    BY DEF Chain
<1>2. IsFiniteSet(F) /\ IsFiniteSet(E)
    BY <1>1, FS_Subset DEF Chain
<1> HIDE DEF E, F
<1>3. Cardinality(E) <= Cardinality(F) /\ Cardinality(E) # Cardinality(F)
    BY <1>1, <1>2, FS_Subset
<1>4. Cardinality(E) \in Nat /\ Cardinality(F) \in Nat
    BY <1>2, FS_CardinalityType
<1>5. Cardinality(E) < Cardinality(F)
    BY <1>3, <1>4
<1> QED BY <1>5 DEF Standing, E, F

LEMMA StandingInRange ==
    ASSUME NEW S, NEW R, Chain(S, R), NEW x \in S
    PROVE  Standing(S, R, x) \in 1..Cardinality(S)
<1> DEFINE E == {z \in S : <<z, x>> \in R}
<1>1. E \in SUBSET S /\ x \in E
    BY DEF Chain
<1> HIDE DEF E
<1>2. IsFiniteSet(E) /\ Cardinality(E) <= Cardinality(S)
    BY <1>1, FS_Subset DEF Chain
<1>3. Cardinality(E) \in Nat /\ Cardinality(S) \in Nat /\ Cardinality(E) # 0
    BY <1>1, <1>2, FS_CardinalityType, FS_EmptySet DEF Chain
<1>4. Cardinality(E) \in 1..Cardinality(S)
    BY <1>2, <1>3
<1> QED BY <1>4 DEF Standing, E

LEMMA SameStanding ==
    ASSUME NEW S, NEW R, Chain(S, R), NEW x \in S, NEW y \in S,
           Standing(S, R, x) = Standing(S, R, y)
    PROVE  x = y
<1>1. Standing(S, R, x) \in Nat /\ Standing(S, R, y) \in Nat
    BY StandingInRange, FS_CardinalityType DEF Chain
<1>2. <<x, y>> \in R \/ <<y, x>> \in R
    BY DEF Chain
<1> QED BY <1>1, <1>2, StandingGrows

LEMMA EveryStanding ==
    ASSUME NEW S, NEW R, Chain(S, R), NEW i \in 1..Cardinality(S)
    PROVE  \E x \in S : Standing(S, R, x) = i
<1> DEFINE n == Cardinality(S)
           r == [x \in S |-> Standing(S, R, x)]
           T == {Standing(S, R, x) : x \in S}
<1>1. n \in Nat
    BY FS_CardinalityType DEF Chain
<1>2. r \in [S -> T]
    OBVIOUS
<1>3. \A x, y \in S : r[x] = r[y] => x = y
    BY SameStanding
<1>4. \A t \in T : \E x \in S : r[x] = t
    OBVIOUS
<1> HIDE DEF r, T
<1>5. r \in Bijection(S, T)
    BY <1>2, <1>3, <1>4 DEF Bijection, Injection, Surjection, IsInjective
<1>6. Cardinality(T) = n
    BY <1>5, FS_Bijection DEF ExistsBijection, Chain
<1>7. T \in SUBSET (1..n)
    BY StandingInRange DEF T
<1>8. IsFiniteSet(1..n) /\ Cardinality(1..n) = n
    BY <1>1, FS_Interval
<1>9. T = 1..n
    BY <1>6, <1>7, <1>8, FS_Subset
<1> QED BY <1>9 DEF T

-----------------------------------------------------------------------------
(* The samples, and the order of their groups.                             *)

Samples(S) == IsFiniteSet(S) /\ \A s \in S : s.at \in Nat /\ s.group \in Nat
GroupsOf(S) == {s.group : s \in S}
GroupRelation(S) == {p \in GroupsOf(S) \X GroupsOf(S) : GroupNotAfter(S, p[1], p[2])}

(* The first sample of a group.                                            *)
LEMMA FirstOfGroup ==
    ASSUME NEW S, Samples(S), NEW g \in GroupsOf(S)
    PROVE  /\ FirstAt(S, g) \in Nat /\ g \in Nat
           /\ \E s \in S : s.group = g /\ s.at = FirstAt(S, g)
           /\ \A s \in S : s.group = g => FirstAt(S, g) <= s.at
<1>1. PICK T : T = {s.at : s \in {x \in S : x.group = g}}
    OBVIOUS
<1>2. T \in SUBSET Nat
    BY <1>1 DEF Samples
<1>3. T # {}
    BY <1>1 DEF GroupsOf
<1>4. Min(T) \in T /\ \A y \in T : Min(T) <= y
    BY <1>2, <1>3, LeastIsLeast
<1>5. FirstAt(S, g) = Min(T)
    BY <1>1 DEF FirstAt
<1>6. g \in Nat
    BY DEF GroupsOf, Samples
<1> QED BY <1>1, <1>2, <1>4, <1>5, <1>6

LEMMA GroupsInOrder ==
    ASSUME NEW S, Samples(S)
    PROVE  Chain(GroupsOf(S), GroupRelation(S))
<1>1. PICK G, R : G = GroupsOf(S) /\ R = GroupRelation(S)
    OBVIOUS
<1>2. IsFiniteSet(G)
  <2>1. PICK group : group = [s \in S |-> s.group]
    OBVIOUS
  <2>2. group \in Surjection(S, G)
    BY <1>1, <2>1 DEF Surjection, GroupsOf
  <2> QED BY <2>2, FS_Surjection DEF Samples
<1>3. PICK first : first = [g \in G |-> FirstAt(S, g)]
    OBVIOUS
<1>4. \A g \in G : first[g] \in Nat /\ g \in Nat
    BY <1>1, <1>3, FirstOfGroup
<1>5. \A g, h \in G : <<g, h>> \in R <=> first[g] < first[h] \/ (first[g] = first[h] /\ g <= h)
  <2>1. SUFFICES ASSUME NEW g \in G, NEW h \in G
                 PROVE  <<g, h>> \in R
                          <=> first[g] < first[h] \/ (first[g] = first[h] /\ g <= h)
    OBVIOUS
  <2>2. <<g, h>> \in R <=> GroupNotAfter(S, g, h)
    BY <1>1, Zenon DEF GroupRelation
  <2> QED BY <1>3, <2>2 DEF GroupNotAfter
<1>6. \A x \in G : <<x, x>> \in R
    BY <1>4, <1>5
<1>7. \A x, y \in G : <<x, y>> \in R \/ <<y, x>> \in R
  <2>1. SUFFICES ASSUME NEW x \in G, NEW y \in G PROVE <<x, y>> \in R \/ <<y, x>> \in R
    OBVIOUS
  <2>2. \/ first[x] < first[y] \/ (first[x] = first[y] /\ x <= y)
        \/ first[y] < first[x] \/ (first[y] = first[x] /\ y <= x)
    BY <1>4, <2>1
  <2> QED BY <1>5, <2>2
<1>8. \A x, y \in G : <<x, y>> \in R /\ <<y, x>> \in R => x = y
    BY <1>4, <1>5
<1>9. \A x, y, z \in G : <<x, y>> \in R /\ <<y, z>> \in R => <<x, z>> \in R
    BY <1>4, <1>5
<1> QED BY <1>1, <1>2, <1>6, <1>7, <1>8, <1>9 DEF Chain

(* Every group once, in the order of the first samples.                    *)
OrderOf(order, S) ==
    /\ Len(order) \in Nat /\ DOMAIN order = 1..Len(order)
    /\ \A i \in DOMAIN order : order[i] \in GroupsOf(S)
    /\ \A i, j \in DOMAIN order : order[i] = order[j] => i = j
    /\ \A i, j \in DOMAIN order : i < j => FirstAt(S, order[i]) <= FirstAt(S, order[j])

GroupPlace(S, h) == Cardinality({g \in GroupsOf(S) : GroupNotAfter(S, g, h)})

LEMMA GroupOrderIs ==
    ASSUME NEW S, Samples(S)
    PROVE  OrderOf(GroupOrder(S), S)
<1>1. PICK G, R, order : G = GroupsOf(S) /\ R = GroupRelation(S) /\ order = GroupOrder(S)
    OBVIOUS
<1>2. Chain(G, R)
    BY <1>1, GroupsInOrder
<1>3. PICK n \in Nat : n = Cardinality(G)
    BY <1>2, FS_CardinalityType DEF Chain
<1>4. \A h \in G : {g \in G : GroupNotAfter(S, g, h)} = {g \in G : <<g, h>> \in R}
    BY <1>1 DEF GroupRelation
<1>5. \A h \in G : GroupPlace(S, h) = Standing(G, R, h)
    BY <1>1, <1>4 DEF Standing, GroupPlace
<1>6. order = [i \in 1..n |-> CHOOSE h \in G : GroupPlace(S, h) = i]
    BY <1>1, <1>3 DEF GroupOrder, GroupsOf, GroupPlace
<1>7. ASSUME NEW i \in 1..n
      PROVE  order[i] \in G /\ Standing(G, R, order[i]) = i
  <2>1. \E h \in G : GroupPlace(S, h) = i
    BY <1>2, <1>3, <1>5, EveryStanding
  <2>2. order[i] = CHOOSE h \in G : GroupPlace(S, h) = i
    BY <1>6
  <2>3. order[i] \in G /\ GroupPlace(S, order[i]) = i
    BY <2>1, <2>2, Zenon
  <2> QED BY <1>5, <2>3
<1>8. Len(order) = n /\ DOMAIN order = 1..n
  <2>1. DOMAIN order = 1..n
    BY <1>6
  <2>2. order = [i \in 1..n |-> order[i]]
    BY <1>6
  <2>3. order \in [1..n -> G]
    BY <1>7, <2>2
  <2>4. order \in Seq(G)
    BY <1>3, <2>3
  <2> QED BY <1>3, <2>1, <2>4
<1>9. ASSUME NEW i \in 1..n, NEW j \in 1..n, i < j
      PROVE  FirstAt(S, order[i]) <= FirstAt(S, order[j])
  <2>1. /\ order[i] \in G /\ order[j] \in G
        /\ Standing(G, R, order[i]) = i /\ Standing(G, R, order[j]) = j
    BY <1>7
  <2>2. <<order[i], order[j]>> \in R \/ <<order[j], order[i]>> \in R
    BY <1>2, <2>1 DEF Chain
  <2>3. ~(Standing(G, R, order[j]) < Standing(G, R, order[i])) /\ order[i] # order[j]
    BY <1>9, <2>1
  <2>4. <<order[i], order[j]>> \in R
    BY <1>2, <2>1, <2>2, <2>3, StandingGrows
  <2>5. GroupNotAfter(S, order[i], order[j])
    BY <1>1, <2>1, <2>4, Zenon DEF GroupRelation
  <2>6. FirstAt(S, order[i]) \in Nat /\ FirstAt(S, order[j]) \in Nat
    BY <1>1, <2>1, FirstOfGroup
  <2> QED BY <2>5, <2>6 DEF GroupNotAfter
<1>10. \A i, j \in 1..n : order[i] = order[j] => i = j
    BY <1>7
<1>11. OrderOf(order, S)
    BY <1>1, <1>3, <1>7, <1>8, <1>9, <1>10 DEF OrderOf
<1> QED BY <1>1, <1>11

-----------------------------------------------------------------------------
(* Windows of one size, side by side.                                      *)

LEMMA ProductRises ==
    ASSUME NEW b \in Nat, NEW x \in Int, NEW y \in Int, x <= y
    PROVE  b * x <= b * y /\ b * x \in Int /\ b * y \in Int
<1>1. PICK d \in Nat : y = x + d
    BY y - x \in Nat
<1>2. b * y = b * x + b * d /\ b * d \in Nat
    BY <1>1
<1> QED BY <1>2

(* What division leaves, and that only one number divides so.              *)
LEMMA Divides ==
    ASSUME NEW a \in Int, NEW b \in Nat \ {0}
    PROVE  /\ a \div b \in Int
           /\ b * (a \div b) <= a /\ a < b * (a \div b) + b
OBVIOUS

LEMMA OneQuotient ==
    ASSUME NEW b \in Nat \ {0}, NEW a \in Int, NEW p \in Int, NEW q \in Int,
           b * p <= a, a < b * p + b, b * q <= a, a < b * q + b
    PROVE  p = q
<1>1. ASSUME NEW x \in Int, NEW y \in Int, x < y, b * y <= a, a < b * x + b PROVE FALSE
  <2>1. x + 1 <= y
    BY <1>1
  <2>2. b * (x + 1) <= b * y /\ b * y \in Int /\ b * (x + 1) \in Int
    BY <2>1, ProductRises
  <2>3. b * (x + 1) = b * x + b /\ b * x \in Int
    BY ONLY b \in Nat, x \in Int
  <2> QED BY ONLY <1>1, <2>2, <2>3, a \in Int, b \in Nat
<1>2. ~(p < q) /\ ~(q < p)
    BY <1>1
<1> QED BY <1>2

(* Taking one divisor away takes one from the quotient.                    *)
LEMMA OneLessQuotient ==
    ASSUME NEW a \in Int, NEW b \in Nat \ {0}
    PROVE  (a - b) \div b + 1 = a \div b
<1>1. PICK p : p = (a - b) \div b
    OBVIOUS
<1>2. PICK q : q = a \div b
    OBVIOUS
<1>3. p \in Int /\ b * p <= a - b /\ a - b < b * p + b
    BY <1>1, Divides, a - b \in Int
<1>4. q \in Int /\ b * q <= a /\ a < b * q + b
    BY <1>2, Divides
<1>5. b * (p + 1) = b * p + b /\ b * p \in Int
    BY <1>3
<1>6. b * (p + 1) <= a /\ a < b * (p + 1) + b
    BY ONLY <1>3, <1>5, a \in Int, b \in Nat
<1>7. p + 1 = q
    BY <1>3, <1>4, <1>6, OneQuotient
<1> QED BY <1>1, <1>2, <1>7

(* A place x lies in window k of size b; the windows 1..K cover 1..b * K,  *)
(* each place once.                                                        *)
InWindow(x, k, b) == b * (k - 1) < x /\ x <= b * (k - 1) + b

LEMMA OneWindowEach ==
    ASSUME NEW b \in Nat \ {0}, NEW K \in Nat, NEW x \in Int
    PROVE  /\ \A k, l \in 1..K : InWindow(x, k, b) /\ InWindow(x, l, b) => k = l
           /\ (\E k \in 1..K : InWindow(x, k, b)) <=> x \in 1..(b * K)
<1>1. ASSUME NEW k \in 1..K, NEW l \in 1..K, InWindow(x, k, b), InWindow(x, l, b)
      PROVE  k = l
  <2>1. PICK p \in Int, q \in Int : p = k - 1 /\ q = l - 1
    OBVIOUS
  <2>2. b * p \in Int /\ b * q \in Int
    OBVIOUS
  <2>3. b * p < x /\ x <= b * p + b /\ b * q < x /\ x <= b * q + b
    BY <1>1, <2>1 DEF InWindow
  <2>4. /\ b * p <= x - 1 /\ x - 1 < b * p + b
        /\ b * q <= x - 1 /\ x - 1 < b * q + b
    BY ONLY <2>2, <2>3, x \in Int, b \in Nat
  <2>5. p = q
    BY <2>4, OneQuotient, x - 1 \in Int
  <2> QED BY <2>1, <2>5
<1>2. ASSUME NEW k \in 1..K, InWindow(x, k, b) PROVE x \in 1..(b * K)
  <2>1. PICK p \in Int : p = k - 1
    OBVIOUS
  <2>2. 0 <= p /\ p + 1 <= K
    BY <2>1
  <2>3. b * p < x /\ x <= b * p + b
    BY <1>2, <2>1 DEF InWindow
  <2>4. b * 0 <= b * p /\ b * p \in Int
    BY <2>2, ProductRises
  <2>5. b * (p + 1) <= b * K /\ b * K \in Int
    BY <2>2, ProductRises, p + 1 \in Int, K \in Int
  <2>6. b * (p + 1) = b * p + b /\ b * 0 = 0
    OBVIOUS
  <2> QED BY ONLY <2>3, <2>4, <2>5, <2>6, x \in Int, b \in Nat
<1>3. ASSUME x \in 1..(b * K) PROVE \E k \in 1..K : InWindow(x, k, b)
  <2>1. PICK p : p = (x - 1) \div b
    OBVIOUS
  <2>2. p \in Int /\ b * p <= x - 1 /\ x - 1 < b * p + b
    BY <2>1, Divides, x - 1 \in Int
  <2>3. b * p \in Int /\ b * K \in Int /\ x - 1 >= 0 /\ x - 1 < b * K
    BY <1>3, <2>2
  <2>4. p >= 0
    <3>1. ASSUME p + 1 <= 0 PROVE FALSE
      <4>1. b * (p + 1) <= b * 0
        BY <2>2, <3>1, ProductRises, p + 1 \in Int
      <4>2. b * (p + 1) = b * p + b /\ b * 0 = 0
        BY <2>2
      <4> QED BY ONLY <2>2, <2>3, <4>1, <4>2, b \in Nat, x \in Int
    <3> QED BY <2>2, <3>1
  <2>5. p < K
    <3>1. ASSUME K <= p PROVE FALSE
      <4>1. b * K <= b * p
        BY <2>2, <3>1, ProductRises
      <4> QED BY ONLY <2>2, <2>3, <4>1, x \in Int
    <3> QED BY <2>2, <3>1
  <2>6. PICK k : k = p + 1
    OBVIOUS
  <2>7. k \in 1..K /\ k - 1 = p
    BY <2>2, <2>4, <2>5, <2>6
  <2>8. InWindow(x, k, b)
    <3>1. b * p < x /\ x <= b * p + b
      BY ONLY <2>2, <2>3, x \in Int, b \in Nat
    <3> QED BY <2>7, <3>1 DEF InWindow
  <2> QED BY <2>7, <2>8
<1> QED BY <1>1, <1>2, <1>3
-----------------------------------------------------------------------------
(* The folds.                                                              *)

PlanOK(plan) ==
    /\ plan.minTrain \in Nat \ {0} /\ plan.test \in Nat \ {0}
    /\ plan.step \in Nat \ {0} /\ plan.gap \in Nat

(* A fold tests the groups of its window, starts with the first of their   *)
(* samples, and trains on earlier groups, before the gap.                  *)
FoldIs(fold, S, order, off, plan) ==
    /\ fold.test = {s \in S : \E i \in (off + 1)..(off + plan.test) : s.group = order[i]}
    /\ fold.start \in Nat
    /\ \A x \in fold.test : fold.start <= x.at
    /\ \E x \in fold.test : x.at = fold.start
    /\ \A s \in fold.train :
          s \in S /\ s.at < fold.start - plan.gap /\ \E i \in 1..off : s.group = order[i]

LEMMA FoldFacts ==
    ASSUME NEW S, Samples(S), NEW order, OrderOf(order, S), NEW plan, PlanOK(plan),
           NEW off \in Nat, off + plan.test <= Len(order)
    PROVE  FoldIs(Fold(S, order, off, plan), S, order, off, plan)
<1>1. PICK tested, trained, test, start :
          /\ tested = {order[i] : i \in (off + 1)..(off + plan.test)}
          /\ trained = {order[i] : i \in 1..off}
          /\ test = {s \in S : s.group \in tested}
          /\ start = Min({s.at : s \in test})
    OBVIOUS
<1>2. PICK fold : fold = Fold(S, order, off, plan)
    OBVIOUS
<1>3. /\ fold.test = test /\ fold.start = start
      /\ fold.train = {s \in S : s.group \in trained /\ s.at < start - plan.gap}
    BY <1>1, <1>2 DEF Fold
<1>4. PICK T : T = {s.at : s \in test}
    OBVIOUS
<1>5. T \in SUBSET Nat
    BY <1>1, <1>4 DEF Samples
<1>6. T # {}
  <2>1. off + 1 \in DOMAIN order /\ off + 1 \in (off + 1)..(off + plan.test)
    BY DEF OrderOf, PlanOK
  <2>2. PICK s \in S : s.group = order[off + 1]
    BY <2>1 DEF OrderOf, GroupsOf
  <2>3. s \in test
    BY <1>1, <2>1, <2>2
  <2> QED BY <1>4, <2>3
<1>7. start \in T /\ \A t \in T : start <= t
    BY <1>1, <1>4, <1>5, <1>6, LeastIsLeast
<1>8. start \in Nat /\ (\A x \in test : start <= x.at) /\ (\E x \in test : x.at = start)
    BY <1>4, <1>5, <1>7
<1>9. test = {s \in S : \E i \in (off + 1)..(off + plan.test) : s.group = order[i]}
    BY <1>1
<1>10. \A s \in fold.train :
          s \in S /\ s.at < start - plan.gap /\ \E i \in 1..off : s.group = order[i]
    BY <1>1, <1>3
<1>11. FoldIs(fold, S, order, off, plan)
    BY <1>3, <1>8, <1>9, <1>10 DEF FoldIs
<1> QED BY <1>2, <1>11

(* Where the folds start.                                                  *)
LEMMA OffsetFacts ==
    ASSUME NEW n \in Nat, NEW plan, PlanOK(plan), NEW offsets, offsets = FoldOffsets(n, plan)
    PROVE  /\ n - plan.minTrain - plan.test < 0 => DOMAIN offsets = {}
           /\ n - plan.minTrain - plan.test >= 0 =>
                 /\ (n - plan.minTrain - plan.test) \div plan.step + 1 \in Nat
                 /\ DOMAIN offsets =
                      1..((n - plan.minTrain - plan.test) \div plan.step + 1)
           /\ \A k \in DOMAIN offsets :
                 /\ k \in Nat \ {0}
                 /\ offsets[k] = plan.minTrain + (k - 1) * plan.step
                 /\ offsets[k] \in Nat /\ offsets[k] + plan.test <= n
           /\ \A k, l \in DOMAIN offsets : k < l => offsets[k] <= offsets[l]
<1>1. PICK least, size, step : least = plan.minTrain /\ size = plan.test /\ step = plan.step
    OBVIOUS
<1>2. least \in Nat /\ size \in Nat /\ step \in Nat \ {0}
    BY <1>1 DEF PlanOK
<1>3. PICK m \in Int : m = n - least - size
    BY <1>2
<1>4. offsets = IF m < 0 THEN <<>>
                ELSE [k \in 1..(m \div step + 1) |-> least + (k - 1) * step]
    BY <1>1, <1>3 DEF FoldOffsets
<1>5. CASE m < 0
  <2>1. DOMAIN offsets = {}
    BY <1>4, <1>5
  <2> QED BY <1>1, <1>3, <1>5, <2>1
<1>6. CASE m >= 0
  <2>1. PICK q : q = m \div step
    OBVIOUS
  <2>2. q \in Int /\ step * q <= m /\ m < step * q + step
    BY <1>2, <2>1, Divides
  <2>3. q >= 0
    <3>1. ASSUME q + 1 <= 0 PROVE FALSE
      <4>1. step * (q + 1) <= step * 0
        BY <1>2, <2>2, <3>1, ProductRises, q + 1 \in Int
      <4>2. step * (q + 1) = step * q + step /\ step * 0 = 0 /\ step * q \in Int
        BY <1>2, <2>2
      <4> QED BY ONLY <1>2, <1>6, <2>2, <4>1, <4>2, m \in Int
    <3> QED BY <2>2, <3>1
  <2>4. DOMAIN offsets = 1..(q + 1) /\ q + 1 \in Nat
    BY <1>3, <1>4, <1>6, <2>1, <2>2, <2>3
  <2>5. \A k \in 1..(q + 1) : offsets[k] = least + (k - 1) * step
    BY <1>3, <1>4, <1>6, <2>1
  <2>6. ASSUME NEW k \in 1..(q + 1)
        PROVE  offsets[k] \in Nat /\ offsets[k] + size <= n /\ k \in Nat \ {0}
    <3>1. PICK j \in Nat : j = k - 1
      BY <2>2
    <3>2. j <= q
      BY <2>2, <3>1
    <3>3. step * j <= step * q /\ step * q \in Int
      BY <1>2, <2>2, <3>2, ProductRises
    <3>4. (k - 1) * step = step * j /\ step * j \in Nat
      BY <1>2, <3>1
    <3>5. offsets[k] = least + step * j
      BY <2>5, <3>4
    <3> QED BY <1>2, <1>3, <2>2, <3>3, <3>4, <3>5
  <2>7. ASSUME NEW k \in 1..(q + 1), NEW l \in 1..(q + 1), k < l
        PROVE  offsets[k] <= offsets[l]
    <3>1. PICK i \in Nat, j \in Nat : i = k - 1 /\ j = l - 1
      BY <2>2
    <3>2. step * i <= step * j /\ step * i \in Int /\ step * j \in Int
      BY <1>2, <2>7, <3>1, ProductRises
    <3>3. (k - 1) * step = step * i /\ (l - 1) * step = step * j
      BY <1>2, <3>1
    <3>4. offsets[k] = least + step * i /\ offsets[l] = least + step * j
      BY <2>5, <3>3
    <3> QED BY ONLY <1>2, <3>2, <3>4
  <2> QED BY <1>1, <1>3, <1>6, <2>1, <2>4, <2>5, <2>6, <2>7
<1> QED BY <1>3, <1>5, <1>6

(* What a split that was made consists of.                                 *)
FoldsOf(folds, S, plan) ==
    LET order == GroupOrder(S)
        offsets == FoldOffsets(Len(order), plan)
    IN  /\ DOMAIN folds = DOMAIN offsets
        /\ \A k \in DOMAIN folds : FoldIs(folds[k], S, order, offsets[k], plan)

LEMMA SplitMakes ==
    ASSUME NEW S, Samples(S), NEW plan, PlanOK(plan), Split(S, plan).ok
    PROVE  FoldsOf(Split(S, plan).folds, S, plan)
<1>1. PICK order, offsets : order = GroupOrder(S) /\ offsets = FoldOffsets(Len(order), plan)
    OBVIOUS
<1>2. OrderOf(order, S)
    BY <1>1, GroupOrderIs
<1>3. Split(S, plan).folds = [k \in DOMAIN offsets |-> Fold(S, order, offsets[k], plan)]
    BY <1>1 DEF Split, NoSplit
<1>4. \A k \in DOMAIN offsets : offsets[k] \in Nat /\ offsets[k] + plan.test <= Len(order)
    BY <1>1, <1>2, OffsetFacts DEF OrderOf
<1>5. \A k \in DOMAIN offsets :
          FoldIs(Fold(S, order, offsets[k], plan), S, order, offsets[k], plan)
    BY <1>2, <1>4, FoldFacts
<1> QED BY <1>1, <1>3, <1>5 DEF FoldsOf

(* No sample of a fold leaks into its test.                                *)
LEMMA FoldLeaksNothing ==
    ASSUME NEW S, Samples(S), NEW order, OrderOf(order, S), NEW plan, PlanOK(plan),
           NEW off \in Nat, off + plan.test <= Len(order),
           NEW fold, FoldIs(fold, S, order, off, plan),
           NEW s \in fold.train, NEW x \in fold.test
    PROVE  x.at - s.at > plan.gap /\ s.group # x.group
<1>1. /\ s \in S /\ s.at < fold.start - plan.gap /\ x \in S
      /\ fold.start <= x.at /\ fold.start \in Nat
    BY DEF FoldIs
<1>2. s.at \in Nat /\ x.at \in Nat /\ plan.gap \in Nat /\ plan.test \in Nat
    BY <1>1 DEF Samples, PlanOK
<1>3. x.at - s.at > plan.gap
    BY ONLY <1>1, <1>2
<1>4. PICK i \in 1..off : s.group = order[i]
    BY DEF FoldIs
<1>5. PICK j \in (off + 1)..(off + plan.test) : x.group = order[j]
    BY DEF FoldIs
<1>6. i \in DOMAIN order /\ j \in DOMAIN order /\ i # j
    BY <1>2 DEF OrderOf
<1>7. order[i] # order[j]
    BY <1>6 DEF OrderOf
<1> QED BY <1>3, <1>4, <1>5, <1>7

(* A later window starts no earlier.                                       *)
LEMMA FoldsAdvance ==
    ASSUME NEW S, Samples(S), NEW order, OrderOf(order, S), NEW plan, PlanOK(plan),
           NEW p \in Nat, p + plan.test <= Len(order), NEW q \in Nat, p <= q,
           q + plan.test <= Len(order),
           NEW f, FoldIs(f, S, order, p, plan), NEW g, FoldIs(g, S, order, q, plan)
    PROVE  f.start <= g.start
<1>0. plan.test \in Nat \ {0}
    BY DEF PlanOK
<1>1. PICK x \in g.test : x.at = g.start
    BY DEF FoldIs
<1>2. x \in S /\ \E j \in (q + 1)..(q + plan.test) : x.group = order[j]
    BY DEF FoldIs
<1>3. PICK j \in (q + 1)..(q + plan.test) : x.group = order[j]
    BY <1>2
<1>4. PICK i : i = p + 1
    OBVIOUS
<1>5. /\ i \in DOMAIN order /\ j \in DOMAIN order /\ i <= j
      /\ i \in (p + 1)..(p + plan.test)
    BY <1>0, <1>3, <1>4 DEF OrderOf
<1>6. order[i] \in GroupsOf(S) /\ order[j] \in GroupsOf(S)
    BY <1>5 DEF OrderOf
<1>7. FirstAt(S, order[i]) \in Nat /\ FirstAt(S, order[j]) \in Nat
    BY <1>6, FirstOfGroup
<1>8. FirstAt(S, order[i]) <= FirstAt(S, order[j])
  <2>1. CASE i = j
    BY <1>7, <2>1
  <2>2. CASE i # j
    <3>1. i < j
      BY <1>3, <1>4, <1>5, <2>2
    <3> QED BY <1>5, <3>1 DEF OrderOf
  <2> QED BY <2>1, <2>2
<1>9. FirstAt(S, order[j]) <= x.at
    BY <1>2, <1>3, <1>6, FirstOfGroup
<1>10. PICK s \in S : s.group = order[i] /\ s.at = FirstAt(S, order[i])
    BY <1>6, FirstOfGroup
<1>11. s \in f.test
    BY <1>5, <1>10 DEF FoldIs
<1>12. f.start <= s.at /\ f.start \in Nat /\ g.start \in Nat
    BY <1>11 DEF FoldIs
<1> QED BY ONLY <1>1, <1>7, <1>8, <1>9, <1>10, <1>12
(* The folds that test a group are those whose window it is in.            *)
TestedIn(folds, g) == {k \in DOMAIN folds : \E s \in folds[k].test : s.group = g}

LEMMA TestedWhere ==
    ASSUME NEW S, Samples(S), NEW plan, PlanOK(plan), NEW folds, FoldsOf(folds, S, plan),
           plan.step = plan.test,
           NEW order, order = GroupOrder(S), NEW i \in DOMAIN order
    PROVE  TestedIn(folds, order[i]) =
             {k \in DOMAIN folds : InWindow(i - plan.minTrain, k, plan.test)}
<1>1. PICK offsets : offsets = FoldOffsets(Len(order), plan)
    OBVIOUS
<1>2. OrderOf(order, S)
    BY GroupOrderIs
<1>3. DOMAIN folds = DOMAIN offsets
      /\ \A k \in DOMAIN folds : FoldIs(folds[k], S, order, offsets[k], plan)
    BY <1>1 DEF FoldsOf
<1>4. PICK least, size : least = plan.minTrain /\ size = plan.test
    OBVIOUS
<1>5. least \in Nat /\ size \in Nat \ {0}
    BY <1>4 DEF PlanOK
<1>6. ASSUME NEW k \in DOMAIN folds
      PROVE  (\E s \in folds[k].test : s.group = order[i]) <=> InWindow(i - least, k, size)
  <2>1. PICK off \in Nat : off = offsets[k] /\ off + size <= Len(order)
    BY <1>1, <1>2, <1>3, <1>4, <1>6, OffsetFacts DEF OrderOf
  <2>2. k \in Nat \ {0} /\ off = least + (k - 1) * size
    BY <1>1, <1>2, <1>3, <1>4, <1>6, <2>1, OffsetFacts DEF OrderOf
  <2>3. folds[k].test = {s \in S : \E j \in (off + 1)..(off + size) : s.group = order[j]}
    BY <1>3, <1>4, <1>6, <2>1 DEF FoldIs
  <2>4. (off + 1)..(off + size) \subseteq DOMAIN order /\ i \in Nat
    BY <1>2, <1>5, <2>1 DEF OrderOf
  <2>5. (\E s \in folds[k].test : s.group = order[i]) <=> i \in (off + 1)..(off + size)
    <3>1. ASSUME NEW s \in folds[k].test, s.group = order[i]
          PROVE  i \in (off + 1)..(off + size)
      <4>1. PICK j \in (off + 1)..(off + size) : s.group = order[j]
        BY <2>3
      <4>2. j \in DOMAIN order /\ order[i] = order[j]
        BY <2>4, <3>1, <4>1
      <4>3. i = j
        BY <1>2, <4>2 DEF OrderOf
      <4> QED BY <4>1, <4>3
    <3>2. ASSUME i \in (off + 1)..(off + size)
          PROVE  \E s \in folds[k].test : s.group = order[i]
      <4>1. PICK s \in S : s.group = order[i]
        BY <1>2 DEF OrderOf, GroupsOf
      <4>2. s \in folds[k].test
        BY <2>3, <3>2, <4>1
      <4> QED BY <4>1, <4>2
    <3> QED BY <3>1, <3>2
  <2>6. PICK w \in Nat : w = size * (k - 1)
    BY <1>5, <2>2
  <2>7. (k - 1) * size = w
    BY <1>5, <2>2, <2>6
  <2>8. i \in (off + 1)..(off + size) <=> (w < i - least /\ i - least <= w + size)
    <3>1. off = least + w /\ i \in Nat
      BY <2>2, <2>4, <2>7
    <3> QED BY ONLY <1>5, <3>1, w \in Nat, off \in Nat
  <2> QED BY <2>5, <2>6, <2>8 DEF InWindow
<1> QED BY <1>4, <1>6 DEF TestedIn

(* With steps of the size of the window each group in a whole window is    *)
(* tested once, and no other.                                              *)
LEMMA TestedOnce ==
    ASSUME NEW S, Samples(S), NEW plan, PlanOK(plan), NEW folds, FoldsOf(folds, S, plan),
           plan.step = plan.test,
           NEW order, order = GroupOrder(S), NEW i \in DOMAIN order,
           NEW full, full = ((Len(order) - plan.minTrain) \div plan.test) * plan.test
    PROVE  Cardinality(TestedIn(folds, order[i]))
             = IF i - plan.minTrain \in 1..full THEN 1 ELSE 0
<1>1. PICK least, size, n : least = plan.minTrain /\ size = plan.test /\ n = Len(order)
    OBVIOUS
<1>2. least \in Nat /\ size \in Nat \ {0} /\ n \in Nat /\ i \in Nat
    BY <1>1, GroupOrderIs DEF PlanOK, OrderOf
<1>3. PICK behind \in Int : behind = i - least
    BY <1>2
<1>4. PICK a \in Int : a = n - least
    BY <1>2
<1>5. PICK K : K = a \div size
    OBVIOUS
<1>6. K \in Int /\ size * K <= a /\ a < size * K + size /\ size * K \in Int
    BY <1>2, <1>5, Divides
<1>7. full = size * K
  <2>1. full = K * size
    BY <1>1, <1>4, <1>5
  <2> QED BY <1>2, <1>6, <2>1
<1>8. PICK W : W = {k \in DOMAIN folds : InWindow(behind, k, size)}
    OBVIOUS
<1>9. TestedIn(folds, order[i]) = W
    BY <1>1, <1>3, <1>8, TestedWhere
<1>10. CASE a - size < 0
  <2>1. n - plan.minTrain - plan.test < 0
    BY <1>1, <1>2, <1>4, <1>10
  <2>2. DOMAIN folds = {}
    <3>1. DOMAIN FoldOffsets(n, plan) = {}
      BY <1>2, <2>1, OffsetFacts
    <3> QED BY <1>1, <3>1 DEF FoldsOf
  <2>3. Cardinality(W) = 0
    BY <1>8, <2>2, FS_EmptySet
  <2>4. K <= 0
    <3>1. ASSUME 1 <= K PROVE FALSE
      <4>1. size * 1 <= size * K
        BY <1>2, <1>6, <3>1, ProductRises
      <4> QED BY <1>2, <1>6, <1>10, <4>1
    <3> QED BY <1>6, <3>1
  <2>5. size * K <= size * 0
    BY <1>2, <1>6, <2>4, ProductRises
  <2>6. behind \notin 1..full
    BY <1>2, <1>3, <1>6, <1>7, <2>5
  <2> QED BY <1>1, <1>3, <1>9, <2>3, <2>6
<1>11. CASE a - size >= 0
  <2>1. n - plan.minTrain - plan.test = a - size
    BY <1>1, <1>2, <1>4
  <2>2. (a - size) \div size + 1 = K
    BY <1>2, <1>5, OneLessQuotient
  <2>3. K \in Nat /\ DOMAIN folds = 1..K
    <3>1. /\ (a - size) \div size + 1 \in Nat
          /\ DOMAIN FoldOffsets(n, plan) = 1..((a - size) \div size + 1)
      BY <1>1, <1>2, <1>11, <2>1, OffsetFacts
    <3> QED BY <1>1, <2>2, <3>1 DEF FoldsOf
  <2>4. /\ \A k, l \in 1..K : InWindow(behind, k, size) /\ InWindow(behind, l, size) => k = l
        /\ (\E k \in 1..K : InWindow(behind, k, size)) <=> behind \in 1..(size * K)
    BY <1>2, <2>3, OneWindowEach
  <2>5. CASE behind \in 1..full
    <3>1. PICK k \in 1..K : InWindow(behind, k, size)
      BY <1>7, <2>4, <2>5
    <3>2. W = {k}
      BY <1>8, <2>3, <2>4, <3>1
    <3>3. Cardinality(W) = 1
      BY <3>2, FS_Singleton
    <3> QED BY <1>1, <1>3, <1>9, <2>5, <3>3
  <2>6. CASE behind \notin 1..full
    <3>1. W = {}
      BY <1>7, <1>8, <2>3, <2>4, <2>6
    <3>2. Cardinality(W) = 0
      BY <3>1, FS_EmptySet
    <3> QED BY <1>1, <1>3, <1>9, <2>6, <3>2
  <2> QED BY <2>5, <2>6
<1> QED BY <1>2, <1>4, <1>10, <1>11

LEMMA SoundFromAnswer == AnswerInv => SplitIsSound
<1>1. SUFFICES ASSUME AnswerInv, Answered("split"), answer.result.ok PROVE SplitIsSound
    BY DEF SplitIsSound, NoLeakage, EveryGroupIsTested
<1>2. PICK S, plan, folds, order, offsets :
          /\ S = job.samples /\ plan = job.plan /\ folds = answer.result.folds
          /\ order = GroupOrder(S) /\ offsets = FoldOffsets(Len(order), plan)
    OBVIOUS
<1>3. job \in Jobs /\ job.task = "split" /\ answer.result = Split(S, plan)
    BY <1>1, <1>2 DEF AnswerInv, Answered, NoAnswer
<1>4. Samples(S) /\ PlanOK(plan)
    BY <1>2, <1>3, JobsAssumption DEF Samples, PlanOK
<1>5. OrderOf(order, S)
    BY <1>2, <1>4, GroupOrderIs
<1>6. FoldsOf(folds, S, plan)
    BY <1>1, <1>2, <1>3, <1>4, SplitMakes
<1>7. /\ DOMAIN folds = DOMAIN offsets
      /\ \A k \in DOMAIN folds : FoldIs(folds[k], S, order, offsets[k], plan)
    BY <1>2, <1>6 DEF FoldsOf
<1>8. /\ \A k \in DOMAIN folds : offsets[k] \in Nat /\ offsets[k] + plan.test <= Len(order)
      /\ \A k, l \in DOMAIN folds : k < l => offsets[k] <= offsets[l]
    BY <1>2, <1>4, <1>5, <1>7, OffsetFacts DEF OrderOf
<1>9. NoLeakage
  <2>1. ASSUME NEW k \in DOMAIN folds, NEW s \in folds[k].train, NEW x \in folds[k].test
        PROVE  x.at - s.at > plan.gap /\ s.group # x.group
    BY <1>4, <1>5, <1>7, <1>8, FoldLeaksNothing
  <2> QED BY <1>2, <2>1 DEF NoLeakage
<1>10. ASSUME NEW k \in DOMAIN folds, NEW l \in DOMAIN folds, k < l
       PROVE  folds[k].start <= folds[l].start
    BY <1>4, <1>5, <1>7, <1>8, <1>10, FoldsAdvance
<1>11. ASSUME plan.step = plan.test, NEW i \in DOMAIN order
       PROVE  Cardinality(TestedIn(folds, order[i]))
                = IF i - plan.minTrain
                       \in 1..(((Len(order) - plan.minTrain) \div plan.test) * plan.test)
                  THEN 1 ELSE 0
    BY <1>2, <1>4, <1>6, <1>11, TestedOnce
<1>12. EveryGroupIsTested
    BY <1>2, <1>10, <1>11 DEF EveryGroupIsTested, TestedIn
<1> QED BY <1>9, <1>12 DEF SplitIsSound

(* For any samples, groups that overlap in time included, and any plan:    *)
(* the folds of a split leak nothing and leave no group out.               *)
THEOREM SplitStaysSound == BenchSpec => []SplitIsSound
BY AnswerInvariance, SoundFromAnswer, PTL

-----------------------------------------------------------------------------
(* The ledger, the drill and the workbench side by side are each what they *)
(* are alone, so the theorems above are about the composition too.         *)
THEOREM PartsAreIndependent == EvidenceSpec => ReadinessSpec /\ DrillSpec /\ BenchSpec
<1>1. EvidenceInit => ReadinessInit /\ DrillInit /\ BenchInit
    BY DEF EvidenceInit
<1>2. [EvidenceNext]_evidenceVars => [ReadinessNext]_readinessVars
    BY DEF EvidenceNext, UseShadowLedger, UseDrill, UseWorkbench, evidenceVars
<1>3. [EvidenceNext]_evidenceVars => [DrillNext]_drillVars
    BY DEF EvidenceNext, UseShadowLedger, UseDrill, UseWorkbench, evidenceVars
<1>4. [EvidenceNext]_evidenceVars => [BenchNext]_benchVars
    BY DEF EvidenceNext, UseShadowLedger, UseDrill, UseWorkbench, evidenceVars
<1> QED BY <1>1, <1>2, <1>3, <1>4, PTL DEF EvidenceSpec, ReadinessSpec, DrillSpec, BenchSpec
=============================================================================
