------------------------------- MODULE Readiness -------------------------------
(***************************************************************************)
(* Readiness evidence: the manifest file, the hash-chained shadow ledger   *)
(* and the admission gate (services/readiness.py, domain/readiness.py,     *)
(* services/readiness_router.py and the readiness commands of cli.py).     *)
(*                                                                         *)
(* shadow-record commands append under an exclusive file lock; the gate    *)
(* reads the manifest and then the ledger with no lock.  A command may die *)
(* with its line half written, written up to its newline, or written and  *)
(* not yet reported, and somebody may edit the file.  A hash is modelled   *)
(* as the value it is computed from; a session is a record of what the     *)
(* gate looks at.                                                          *)
(***************************************************************************)
EXTENDS Naturals, Sequences, FiniteSets, SequencesExt

CONSTANTS
    None,
    Sessions,       \* session summaries that operators may record
    Manifests,      \* manifests that may be installed
    Code,           \* expected_code_version of the running service
    MinSessions, MinDates,
    Recorders,      \* concurrent shadow-record commands
    MaxTime, MaxRecordCrashes, MaxEdits

ASSUME ReadinessAssumption ==
    /\ None \notin Recorders
    /\ \A s \in Sessions : s.start \in Nat /\ s.end \in Nat
    /\ \A m \in Manifests : m.generated \in Nat /\ m.expires \in Nat
    /\ MaxTime \in Nat

VARIABLES
    now,
    manifest,       \* the manifest file: a member of Manifests, or None
    ledger,         \* the lines of the ledger file that parse
    tail,           \* what ends the file: "none", a "partial" line, a last
                    \* line without newline ("unterminated"), or a new line
                    \* run into either ("mangled", "glued")
    lock,           \* holder of the flock, or None
    rec,            \* what each command is doing
    gate,           \* the evaluation under way and the last verdict
    written, acked, \* lines ever written by a command; sessions reported recorded
    cut,            \* whether an edit removed the last line
    recordCrashes, edits

readinessVars == <<now, manifest, ledger, tail, lock, rec, gate, written, acked, cut,
                   recordCrashes, edits>>

\* Validation of a session summary (ShadowSession) and of a manifest.
ValidSession(s) == s.end > s.start

EntryHash(seq, prev, s) == <<seq, prev, s>>

Entry(seq, prev, s) ==
    [sequence |-> seq, previous |-> prev, session |-> s, hash |-> EntryHash(seq, prev, s)]

\* ShadowLedger._verify.
Verify(entries) ==
    /\ \A i \in DOMAIN entries :
         /\ entries[i].sequence = i
         /\ entries[i].previous = IF i = 1 THEN "GENESIS" ELSE entries[i - 1].hash
         /\ entries[i].hash = EntryHash(i, entries[i].previous, entries[i].session)
    /\ \A i, j \in DOMAIN entries :
         entries[i].session.id = entries[j].session.id => i = j

\* What load() accepts: every line parses and the chain verifies.
Loadable == tail \in {"none", "unterminated"} /\ Verify(ledger)

-----------------------------------------------------------------------------
(* shadow-record: ShadowLedger.append.                                     *)

Idle == [step |-> "idle", session |-> None, entry |-> None]

Untouched == <<now, manifest, gate, cut, edits>>

Ask(c, s) ==
    /\ rec[c] = Idle /\ ValidSession(s)
    /\ rec' = [rec EXCEPT ![c] = [Idle EXCEPT !.step = "lock", !.session = s]]
    /\ UNCHANGED <<ledger, tail, lock, written, acked, recordCrashes, Untouched>>

BugLock(c) ==
    /\ rec[c].step = "lock"
    /\ lock' = c
    /\ rec' = [rec EXCEPT ![c].step = "read"]
    /\ UNCHANGED <<ledger, tail, written, acked, recordCrashes, Untouched>>

Lock(c) ==
    /\ rec[c].step = "lock" /\ lock = None
    /\ lock' = c
    /\ rec' = [rec EXCEPT ![c].step = "read"]
    /\ UNCHANGED <<ledger, tail, written, acked, recordCrashes, Untouched>>

\* Reads and verifies the whole file; a bad file or a known identity ends it.
ReadLedger(c) ==
    /\ rec[c].step = "read"
    /\ LET s == rec[c].session
           n == Len(ledger)
           refused == ~Loadable \/ \E i \in DOMAIN ledger : ledger[i].session.id = s.id
       IN  /\ rec' = [rec EXCEPT ![c] =
                 IF refused THEN Idle
                 ELSE [step |-> "write", session |-> s,
                       entry |-> Entry(n + 1, IF n = 0 THEN "GENESIS" ELSE ledger[n].hash, s)]]
           /\ lock' = IF refused THEN None ELSE lock
    /\ UNCHANGED <<ledger, tail, written, acked, recordCrashes, Untouched>>

\* The line reaches the file in pieces, after whatever the file ends with: a
\* last line without its newline and the new one become one line.
BeginWrite(c) ==
    /\ rec[c].step = "write"
    /\ tail' = CASE tail = "none" -> "partial"
                 [] tail = "unterminated" -> "glued"
                 [] OTHER -> "mangled"
    /\ ledger' = IF tail = "unterminated" THEN Front(ledger) ELSE ledger
    /\ rec' = [rec EXCEPT ![c].step = "flush"]
    /\ UNCHANGED <<lock, written, acked, recordCrashes, Untouched>>

\* The rest of the line, flushed and synced; the command reports success.
Flush(c) ==
    /\ rec[c].step = "flush"
    /\ IF tail = "partial"
       THEN /\ tail' = "none"
            /\ ledger' = Append(ledger, rec[c].entry)
            /\ written' = written \cup {rec[c].entry}
       ELSE UNCHANGED <<tail, ledger, written>>
    /\ acked' = acked \cup {rec[c].session}
    /\ rec' = [rec EXCEPT ![c] = Idle]
    /\ lock' = None
    /\ UNCHANGED <<recordCrashes, Untouched>>

\* Death releases the lock and leaves what was written: part of the line, all
\* of it but the newline, or all of it with success not yet reported.
RecordCrash(c) ==
    /\ recordCrashes < MaxRecordCrashes /\ recordCrashes' = recordCrashes + 1
    /\ rec[c] # Idle
    /\ \/ UNCHANGED <<ledger, tail, written>>
       \/ /\ rec[c].step = "flush" /\ tail = "partial"
          /\ tail' \in {"unterminated", "none"}
          /\ ledger' = Append(ledger, rec[c].entry)
          /\ written' = written \cup {rec[c].entry}
    /\ rec' = [rec EXCEPT ![c] = Idle]
    /\ lock' = IF lock = c THEN None ELSE lock
    /\ UNCHANGED <<acked, Untouched>>

\* Somebody edits the session of a line or removes a line.
Edit ==
    /\ edits < MaxEdits /\ edits' = edits + 1
    /\ lock = None /\ tail = "none"
    /\ \E i \in DOMAIN ledger :
         \/ \E s \in Sessions \ {ledger[i].session} :
              /\ ledger' = [ledger EXCEPT ![i].session = s]
              /\ UNCHANGED cut
         \/ ledger' = RemoveAt(ledger, i) /\ cut' = (cut \/ i = Len(ledger))
    /\ UNCHANGED <<now, manifest, tail, lock, rec, gate, written, acked, recordCrashes>>

-----------------------------------------------------------------------------
(* The gate: evaluate_readiness and evaluate_shadow_evidence.              *)

OfManifest(m, entries) == {entries[i].session : i \in {j \in DOMAIN entries :
                                                        entries[j].session.manifest = m.id}}

\* A session outside the manifest's window, or of another build.
Strays(m, s, t) == s.start < m.generated \/ s.end > t \/ s.code # Code

Qualifying(m, entries, t) ==
    {s \in OfManifest(m, entries) : ~Strays(m, s, t) /\ s.sound}

BugShadowBlockers(m, entries, t) ==
    LET q == Qualifying(m, entries, t)
    IN  {b \in {"COUNT", "DATES", "DEGRADATION", "RECOVERY"} :
          \/ b = "COUNT" /\ Cardinality(q) < MinSessions
          \/ b = "DATES" /\ Cardinality({s.date : s \in q}) < MinDates
          \/ b = "DEGRADATION" /\ ~\E s \in q : s.degradation
          \/ b = "RECOVERY" /\ ~\E s \in q : s.recovery}

ShadowBlockers(m, entries, t) ==
    LET q == Qualifying(m, entries, t)
    IN  {b \in {"STRAY", "COUNT", "DATES", "DEGRADATION", "RECOVERY"} :
          \/ b = "STRAY" /\ \E s \in OfManifest(m, entries) : Strays(m, s, t)
          \/ b = "COUNT" /\ Cardinality(q) < MinSessions
          \/ b = "DATES" /\ Cardinality({s.date : s \in q}) < MinDates
          \/ b = "DEGRADATION" /\ ~\E s \in q : s.degradation
          \/ b = "RECOVERY" /\ ~\E s \in q : s.recovery}

\* Every requirement verified and not expired; the manifest not from the future.
EvidenceComplete(m, t) == m.verified /\ m.expires > t /\ m.generated <= t

AdmissionReady(m, entries, t) ==
    EvidenceComplete(m, t) /\ ShadowBlockers(m, entries, t) = {}

ledgerVars == <<ledger, tail, lock, rec, written, acked, cut, recordCrashes, edits>>

LoadManifest ==
    /\ gate.loaded = None
    /\ gate' = IF manifest = None THEN [gate EXCEPT !.ready = FALSE]
               ELSE [gate EXCEPT !.loaded = manifest]
    /\ UNCHANGED <<now, manifest, ledgerVars>>

\* The ledger is loaded later and the instant of the verdict taken after that.
Evaluate ==
    /\ gate.loaded # None
    /\ gate' = [loaded |-> None,
                ready |-> Loadable /\ AdmissionReady(gate.loaded, ledger, now)]
    /\ UNCHANGED <<now, manifest, ledgerVars>>

\* save_readiness_manifest replaces the file atomically.
InstallManifest(m) ==
    /\ m # manifest /\ m.generated <= now
    /\ manifest' = m
    /\ UNCHANGED <<now, gate, ledgerVars>>

Tick ==
    /\ now < MaxTime /\ now' = now + 1
    /\ UNCHANGED <<manifest, gate, ledgerVars>>

-----------------------------------------------------------------------------
ReadinessInit ==
    /\ now = 0
    /\ manifest = None
    /\ ledger = <<>>
    /\ tail = "none"
    /\ lock = None
    /\ rec = [c \in Recorders |-> Idle]
    /\ gate = [loaded |-> None, ready |-> FALSE]
    /\ written = {} /\ acked = {} /\ cut = FALSE
    /\ recordCrashes = 0 /\ edits = 0

\* Any valid session summary may be recorded: the drill digests that one
\* carries are checked for their form only.
ReadinessNext ==
    \/ \E c \in Recorders :
         \/ \E s \in Sessions : Ask(c, s)
         \/ Lock(c) \/ ReadLedger(c) \/ BeginWrite(c) \/ Flush(c) \/ RecordCrash(c)
    \/ LoadManifest \/ Evaluate \/ Tick \/ Edit
    \/ \E m \in Manifests : InstallManifest(m)

ReadinessSpec == ReadinessInit /\ [][ReadinessNext]_readinessVars

-----------------------------------------------------------------------------
(* Properties.                                                             *)

ReadinessTypeOK ==
    /\ now \in 0..MaxTime /\ manifest \in Manifests \cup {None}
    /\ \A i \in DOMAIN ledger : ledger[i].session \in Sessions
    /\ lock \in Recorders \cup {None}
    /\ lock # None => rec[lock].step \in {"read", "write", "flush"}

\* Whatever commands overlap or die, the lines of an unedited ledger form one
\* chain without a duplicate session.
ChainVerifies == edits = 0 => Verify(ledger)

\* A session whose command reported success is in the unedited ledger, unless
\* its line ran into one that an earlier command had left without a newline.
RecordedIsKept ==
    edits = 0 /\ tail # "glued" =>
        \A s \in acked : \E i \in DOMAIN ledger : ledger[i].session = s

\* The ledger stays whole under overlapping and dying commands: one chain that
\* verifies, holding every session whose command reported success.
LedgerIsWhole == ChainVerifies /\ RecordedIsKept

\* Once a line was changed or taken out of the middle, nothing is recorded any
\* more: every later append is refused.
EditStopsRecording ==
    [][ (\E i \in DOMAIN ledger : ledger[i] \notin written \/ ledger[i].sequence # i) =>
          acked' = acked ]_readinessVars

\* A positive verdict rests on lines that commands wrote, each at its own
\* place, and no session ever recorded under the manifest started before it or
\* ran another build, as long as nobody cut the end of the ledger off.
AdmissionRestsOnTheLedger ==
    [][ gate.loaded # None /\ gate'.loaded = None /\ gate'.ready =>
          /\ \A i \in DOMAIN ledger : ledger[i] \in written
          /\ ~cut => \A e \in written :
                LET s == e.session
                IN  s.manifest = gate.loaded.id =>
                      s.start >= gate.loaded.generated /\ s.code = Code ]_readinessVars
=============================================================================
