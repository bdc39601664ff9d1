------------------------------- MODULE Replay -------------------------------
(***************************************************************************)
(* Point-in-time replay: PointInTimeLedger and VirtualReplayClock          *)
(* (services/replay.py), the records and manifests they exchange           *)
(* (domain/point_in_time.py) and the batch ledger that emits manifests for *)
(* backtests (ingest/pit_ledger.py).                                       *)
(*                                                                         *)
(* A record's identity is the hash of all of its fields, so the record     *)
(* itself stands for its identity.  Records that differ only in content    *)
(* are ordered by their hashes, an order as good as any other: here the    *)
(* order of the numbers that stand for the contents.                       *)
(***************************************************************************)
EXTENDS Integers, FiniteSets, Sequences, SequencesExt

CONSTANTS
    LogicalKeys,   \* logical keys, numbers: a view is listed in key order
    Contents,      \* contents of records, numbers: see above
    LastInstant,   \* bound on the instants of records and of views
    MaxRecords     \* bound on the records of the ledger

ASSUME ReplayAssumption ==
    /\ LogicalKeys \subseteq Nat /\ Contents \subseteq Nat
    /\ LastInstant \in Nat /\ MaxRecords \in Nat

VARIABLES
    kind,     \* "memory" or "batch": which ledger is in use
    appended, \* the set of records appended
    held      \* the manifest made last, with the view it was made from

replayVars == <<kind, appended, held>>

Instants == 0..LastInstant
NoManifest == [as_of |-> -1, entries |-> <<>>, digest |-> <<>>]
Refused == [ok |-> FALSE, records |-> <<>>]   \* PointInTimeError

Records == [key : LogicalKeys, published : Instants, seen : Instants,
            content : Contents]

(* PointInTimeRecord.verify, and create before it.                         *)
Verifies(r) == r.published <= r.seen

-----------------------------------------------------------------------------
(* ReplayVisibility: which instant decides whether a record is visible.    *)
BugVisibleAt(r, visibility) == r.published

VisibleAt(r, visibility) ==
    IF visibility = "OBSERVED" THEN r.seen ELSE r.published

(* _revision_order, compared as Python compares tuples.                    *)
Newer(r, s) ==
    \/ r.seen > s.seen
    \/ r.seen = s.seen /\ r.published > s.published
    \/ r.seen = s.seen /\ r.published = s.published /\ r.content > s.content

(* visible_records: the newest visible revision of every logical key.      *)
Visible(records, t, visibility) ==
    LET shown == {r \in records : VisibleAt(r, visibility) <= t}
    IN  {r \in shown : \A s \in shown \ {r} : s.key = r.key => Newer(r, s)}

EntryOf(r) == [key |-> r.key, id |-> r, hash |-> r.content]

(* sorted(..., key=logical_key): of the records of a view, which have      *)
(* different keys, i have no larger key than the i-th.                     *)
ByKey(view) ==
    [i \in 1..Cardinality(view) |->
        CHOOSE r \in view : Cardinality({s \in view : s.key <= r.key}) = i]

(* ReplayManifest.create: entries in key order and a digest over all of it. *)
ManifestOf(t, view) ==
    LET ordered == ByKey(view)
        entries == [i \in DOMAIN ordered |-> EntryOf(ordered[i])]
    IN  [as_of |-> t, entries |-> entries, digest |-> <<t, entries>>]

(* VirtualReplayClock.replay: every entry names a record of the ledger, as *)
(* it was seen by then, with its own hash and key, and the visible         *)
(* revision of that key; together the entries cover every visible key.     *)
Replayed(records, manifest) ==
    LET visible == Visible(records, manifest.as_of, "OBSERVED")
        Sound(e) == /\ e.id \in records /\ e.id.seen <= manifest.as_of
                    /\ e.hash = e.id.content /\ e.key = e.id.key
                    /\ e.id \in visible
    IN  IF /\ manifest.digest = <<manifest.as_of, manifest.entries>>
           /\ \A i \in DOMAIN manifest.entries : Sound(manifest.entries[i])
           /\ {manifest.entries[i].key : i \in DOMAIN manifest.entries}
                = {r.key : r \in visible}
        THEN [ok |-> TRUE,
              records |-> [i \in DOMAIN manifest.entries |-> manifest.entries[i].id]]
        ELSE Refused

-----------------------------------------------------------------------------
ReplayInit ==
    /\ kind \in {"memory", "batch"}
    /\ appended = {}
    /\ held = NoManifest

(* PointInTimeLedger.append.  A record with the identity of another is     *)
(* that record, so a collision changes nothing.                            *)
AppendRecord(r) ==
    /\ kind = "memory"
    /\ Verifies(r) /\ r \notin appended
    /\ Cardinality(appended) < MaxRecords
    /\ appended' = appended \union {r}
    /\ UNCHANGED <<kind, held>>

(* PitBatchLedger.append: one record per logical key, for ever.            *)
AppendBatch(r) ==
    /\ kind = "batch"
    /\ Verifies(r) /\ \A s \in appended : s.key # r.key
    /\ Cardinality(appended) < MaxRecords
    /\ appended' = appended \union {r}
    /\ UNCHANGED <<kind, held>>

(* VirtualReplayClock.build_manifest.                                      *)
BuildManifest(t) ==
    /\ kind = "memory"
    /\ held' = ManifestOf(t, Visible(appended, t, "OBSERVED"))
    /\ UNCHANGED <<kind, appended>>

(* PitBatchLedger.emit_manifest.                                           *)
EmitManifest(t) ==
    /\ kind = "batch"
    /\ held' = ManifestOf(t, Visible(appended, t, "AVAILABLE"))
    /\ UNCHANGED <<kind, appended>>

ReplayNext ==
    \/ \E r \in Records : AppendRecord(r) \/ AppendBatch(r)
    \/ \E t \in Instants : BuildManifest(t) \/ EmitManifest(t)

-----------------------------------------------------------------------------
ReplayTypeOK ==
    /\ kind \in {"memory", "batch"}
    /\ appended \subseteq Records
    /\ held.as_of \in Instants \union {-1}
    /\ \A i \in DOMAIN held.entries : held.entries[i].id \in Records

(* Manifests a caller may present: a few entries that name records of the  *)
(* ledger, under any key and any hash, in any order and with repetitions.  *)
Presented ==
    LET entries == [key : LogicalKeys, id : appended, hash : Contents]
    IN  {[as_of |-> t, entries |-> s, digest |-> <<t, s>>] :
            t \in Instants, s \in UNION {[1..n -> entries] : n \in 0..2}}

(* AcceptedIsTheView: whatever manifest replay is given, if it accepts it, *)
(* it returns exactly the records this system had seen by then, the        *)
(* newest revision of each key and no key left out.                        *)
AcceptedIsTheView ==
    \A manifest \in Presented :
        LET result == Replayed(appended, manifest)
        IN  result # Refused =>
                Range(result.records) = Visible(appended, manifest.as_of, "OBSERVED")

(* ReplayNeverDrifts: a manifest replays to what it was made from or not   *)
(* at all.  While the ledger grows, a record seen after the manifest's     *)
(* instant changes nothing; only a record back-dated to before it can make *)
(* replay refuse, and what is refused once is refused from then on.        *)
ReplayNeverDrifts ==
    [][held' = held =>
           LET before == Replayed(appended, held)
               after  == Replayed(appended', held)
           IN  /\ after \in {before, Refused}
               /\ after # before =>
                      \E r \in appended' \ appended : r.seen <= held.as_of
      ]_replayVars
=============================================================================
