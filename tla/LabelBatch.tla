----------------------------- MODULE LabelBatch -----------------------------
(***************************************************************************)
(* The label and feature batches over landed history: generate_labels with *)
(* its store (validation/excursion_batch.py), the excursion of a day       *)
(* (validation/realized_excursions.py), and generate_entry_features        *)
(* (features/entry_snapshot_batch.py).  Batches are commands that may run  *)
(* side by side and may be killed between two days, while history keeps    *)
(* landing.                                                                *)
(*                                                                         *)
(* Prices are those of the future; the implied index is a fixed positive   *)
(* multiple of them, given by the prior day the label is anchored on.      *)
(***************************************************************************)
EXTENDS Integers, Sequences, FiniteSets, FiniteSetsExt, SequencesExt

CONSTANTS
    LastDay,       \* days are 1..LastDay
    Bars,          \* Bars[d]: the day's observations [ts, price] in time order
    CorruptDays,   \* days whose ES batch cannot be decoded
    GapDays,       \* days whose definition batch may land
    ChainDays,     \* days whose option chain can be normalized
    AnchorFiles,   \* the sets of days with an official close a command may be given
    FirstDays,     \* the first days of the windows a command may be given
    EntryTimes,    \* the entry times a command may be given
    UsualClose,    \* close_time_et
    EarlyCloses,   \* early_closes: function on some days
    MaxGap,        \* max_gap_seconds
    Commands,      \* the commands that may run side by side
    MaxStarts      \* bound on the commands started

(* _normalize refuses observations that are not strictly in time order.    *)
ASSUME LabelAssumption ==
    /\ LastDay \in Nat /\ UsualClose \in Nat /\ MaxGap \in Nat /\ MaxStarts \in Nat
    /\ CorruptDays \union GapDays \union ChainDays \union FirstDays
         \subseteq 1..LastDay
    /\ EntryTimes \subseteq Int
    /\ \A d \in DOMAIN EarlyCloses : EarlyCloses[d] \in Int
    /\ \A d \in 1..LastDay :
           /\ Bars[d] \in Seq([ts : Int, price : Int])
           /\ \A i, j \in DOMAIN Bars[d] : i < j => Bars[d][i].ts < Bars[d][j].ts

VARIABLES
    landed,       \* the days whose ES batch is in the ledger, in landing order
    definitions,  \* the days whose definition batch is in the ledger
    labels,       \* the label store, line by line
    features,     \* the feature store, line by line
    command,      \* what each command is doing
    starts,       \* commands started so far
    overlapped    \* two commands of one kind have run at the same time

labelVars == <<landed, definitions, labels, features, command, starts, overlapped>>

TradingDays == 1..LastDay
Stopped == [pc |-> "stopped"]

-----------------------------------------------------------------------------
(* realized_excursion: the entry price is the last at or before the entry, *)
(* the extremes are of the observations after it and up to the close, and  *)
(* no gap in between is longer than MaxGap.                                *)
Excursion(bars, entry, close) ==
    LET before == {i \in DOMAIN bars : bars[i].ts <= entry}
        window == {i \in DOMAIN bars : entry < bars[i].ts /\ bars[i].ts <= close}
        first  == Max(before)
        covered ==
            /\ before # {} /\ window # {}
            /\ \A i \in window : bars[i].ts - bars[i - 1].ts <= MaxGap
            /\ close - bars[Max(window)].ts <= MaxGap
    IN  [covered |-> covered,
         price |-> IF covered THEN bars[first].price ELSE 0,
         final |-> IF covered THEN bars[Max(window)].price ELSE 0,
         up |-> IF covered THEN Max({0} \union {bars[i].price - bars[first].price :
                                                    i \in window}) ELSE 0,
         down |-> IF covered THEN Max({0} \union {bars[first].price - bars[i].price :
                                                    i \in window}) ELSE 0]

(* The session close of a day.                                             *)
CloseOf(d) == IF d \in DOMAIN EarlyCloses THEN EarlyCloses[d] ELSE UsualClose

(* The landed day a label is anchored on: the last one before it, 0 for    *)
(* none (bisect_left - 1).                                                 *)
PriorDay(days, d) == Max({0} \union {e \in days : e < d})

-----------------------------------------------------------------------------
LabelInit ==
    /\ landed = <<>> /\ definitions = {}
    /\ labels = <<>> /\ features = <<>>
    /\ command = [c \in Commands |-> Stopped]
    /\ starts = 0 /\ overlapped = FALSE

(* Ingestion lands a day's batches, in any order of days.                  *)
LandDay(d) ==
    /\ d \notin Range(landed)
    /\ landed' = Append(landed, d)
    /\ UNCHANGED <<definitions, labels, features, command, starts, overlapped>>

LandDefinition(d) ==
    /\ d \in GapDays \ definitions
    /\ definitions' = definitions \union {d}
    /\ UNCHANGED <<landed, labels, features, command, starts, overlapped>>

Start(c, pc, r) ==
    /\ command[c] = Stopped /\ starts < MaxStarts
    /\ starts' = starts + 1
    /\ command' = [command EXCEPT ![c] = r]
    /\ overlapped' = (overlapped \/ \E x \in Commands : command[x].pc = pc)
    /\ UNCHANGED <<landed, definitions, labels, features>>

(* generate_labels up to its loop: the ledger and the labels are read once. *)
StartLabels(c, first, entry, anchors) ==
    Start(c, "label",
          [pc |-> "label", day |-> first, first |-> first, entry |-> entry,
           anchors |-> anchors, es |-> Range(landed), read |-> Len(landed),
           definitions |-> definitions,
           present |-> {labels[i].day : i \in DOMAIN labels}, outcomes |-> {}])

(* What becomes of the day a label command is at.                          *)
OutcomeOf(r, d) ==
    LET prior == PriorDay(r.es, d)
        close == CloseOf(d)
    IN  IF d \notin r.es THEN IF d \in r.definitions THEN "GAP" ELSE "ABSENT"
        ELSE IF d \in r.present        THEN "ALREADY_PRESENT"
        ELSE IF prior = 0              THEN "SKIPPED_NO_PRIOR"
        ELSE IF prior \notin r.anchors THEN "SKIPPED_NO_ANCHOR"
        ELSE IF r.entry >= close       THEN "SKIPPED_ENTRY_AFTER_CLOSE"
        ELSE IF {d, prior} \intersect CorruptDays # {} THEN "NormalizeError"
        ELSE IF ~Excursion(Bars[d], r.entry, close).covered THEN "SKIPPED_COVERAGE"
        ELSE "LABELLED"

(* build_label_record.  "read" is not part of the record: it tells how     *)
(* much of the ledger the command had read.                                *)
LabelOf(r, d) ==
    LET x == Excursion(Bars[d], r.entry, CloseOf(d))
    IN  [day |-> d, entry |-> r.entry, prior |-> PriorDay(r.es, d), read |-> r.read,
         price |-> x.price, final |-> x.final, up |-> x.up, down |-> x.down]

(* One day of the loop.  A batch that cannot be decoded ends the command;  *)
(* the days before it keep their labels.                                   *)
BugLabelDay(c) ==
    LET r == command[c]
        d == r.day
        outcome == OutcomeOf([r EXCEPT !.present = {}], d)
    IN  /\ r.pc = "label" /\ d <= LastDay
        /\ labels' = IF outcome = "LABELLED" THEN Append(labels, LabelOf(r, d)) ELSE labels
        /\ command' = [command EXCEPT ![c] =
               IF outcome = "NormalizeError" THEN Stopped
               ELSE [r EXCEPT !.day = d + 1,
                              !.present = IF outcome = "LABELLED" THEN @ \union {d} ELSE @,
                              !.outcomes = IF outcome = "ABSENT" THEN @
                                           ELSE @ \union {<<d, outcome>>}]]
        /\ UNCHANGED <<landed, definitions, features, starts, overlapped>>

LabelDay(c) ==
    LET r == command[c]
        d == r.day
        outcome == OutcomeOf(r, d)
    IN  /\ r.pc = "label" /\ d <= LastDay
        /\ labels' = IF outcome = "LABELLED" THEN Append(labels, LabelOf(r, d)) ELSE labels
        /\ command' = [command EXCEPT ![c] =
               IF outcome = "NormalizeError" THEN Stopped
               ELSE [r EXCEPT !.day = d + 1,
                              !.present = IF outcome = "LABELLED" THEN @ \union {d} ELSE @,
                              !.outcomes = IF outcome = "ABSENT" THEN @
                                           ELSE @ \union {<<d, outcome>>}]]
        /\ UNCHANGED <<landed, definitions, features, starts, overlapped>>

(* generate_entry_features up to its loop: the last label of a day counts. *)
StartFeatures(c, first, entry) ==
    LET days == {labels[i].day : i \in DOMAIN labels} \intersect first..LastDay
        LastOf(d) == labels[Max({i \in DOMAIN labels : labels[i].day = d})]
    IN  Start(c, "feature",
              [pc |-> "feature", entry |-> entry, todo |-> days,
               centers |-> [d \in days |-> LastOf(d).price],
               present |-> {features[i].day : i \in DOMAIN features}, outcomes |-> {}])

(* One labelled day of the loop, in day order.                             *)
FeatureDay(c) ==
    LET r == command[c]
        d == Min(r.todo)
        outcome == IF d \in r.present THEN "ALREADY_PRESENT"
                   ELSE IF d \notin ChainDays \/ d \in CorruptDays THEN "GAP"
                   ELSE "COMPUTED"
    IN  /\ r.pc = "feature" /\ r.todo # {}
        /\ features' = IF outcome = "COMPUTED"
                       THEN Append(features, [day |-> d, entry |-> r.entry,
                                              center |-> r.centers[d]])
                       ELSE features
        /\ command' = [command EXCEPT ![c].todo = @ \ {d},
                                      ![c].present =
                                          IF outcome = "COMPUTED" THEN @ \union {d} ELSE @,
                                      ![c].outcomes = @ \union {<<d, outcome>>}]
        /\ UNCHANGED <<landed, definitions, labels, starts, overlapped>>

(* The command reports and exits, or is killed on its way.  What a killed  *)
(* command leaves is what a command with a shorter window leaves.          *)
EndCommand(c) ==
    /\ command[c] # Stopped
    /\ command' = [command EXCEPT ![c] = Stopped]
    /\ UNCHANGED <<landed, definitions, labels, features, starts, overlapped>>

LabelNext ==
    \/ \E d \in TradingDays : LandDay(d) \/ LandDefinition(d)
    \/ \E c \in Commands :
          \/ \E first \in FirstDays, entry \in EntryTimes :
                \/ \E anchors \in AnchorFiles : StartLabels(c, first, entry, anchors)
                \/ StartFeatures(c, first, entry)
          \/ LabelDay(c) \/ FeatureDay(c) \/ EndCommand(c)

-----------------------------------------------------------------------------
LabelTypeOK ==
    /\ Range(landed) \subseteq TradingDays /\ definitions \subseteq GapDays
    /\ \A i \in DOMAIN labels : labels[i].day \in TradingDays
    /\ \A i \in DOMAIN features : features[i].day \in TradingDays
    /\ starts \in 0..MaxStarts /\ overlapped \in BOOLEAN

(* OneLineForADay: unless two batches of one kind overlap, a day is        *)
(* labelled once and its features computed once, however often batches are *)
(* started, killed and started again, with whatever windows; and a day     *)
(* with features was labelled, with the entry price its features use.      *)
OneLineForADay ==
    ~overlapped =>
        /\ \A i, j \in DOMAIN labels : labels[i].day = labels[j].day => i = j
        /\ \A i, j \in DOMAIN features : features[i].day = features[j].day => i = j
        /\ \A i \in DOMAIN features :
               \E j \in DOMAIN labels : /\ labels[j].day = features[i].day
                                        /\ labels[j].price = features[i].center

(* AnchoredOnTheNearestDay: a label is anchored on an earlier landed day,  *)
(* and any day between the two landed only after the command had read the  *)
(* ledger: it stays anchored there when the missing day lands later.       *)
AnchoredOnTheNearestDay ==
    \A i \in DOMAIN labels :
        LET x == labels[i]
            At(d) == CHOOSE n \in DOMAIN landed : landed[n] = d
        IN  /\ x.prior \in Range(landed) /\ x.prior < x.day
            /\ \A d \in Range(landed) :
                   x.prior < d /\ d < x.day => At(d) > x.read

(* NoDayIsSilent: a label command that has been through its window has an  *)
(* outcome for every day it found in the ledger, whether bars or only      *)
(* definitions, one each, and the days it reports as labelled or present   *)
(* are in the store.                                                       *)
NoDayIsSilent ==
    \A c \in Commands :
        LET r == command[c]
        IN  r.pc = "label" =>
                /\ {o[1] : o \in r.outcomes}
                     = (r.first..(r.day - 1)) \intersect (r.es \union r.definitions)
                /\ \A o, x \in r.outcomes : o[1] = x[1] => o = x
                /\ \A o \in r.outcomes :
                       o[2] \in {"LABELLED", "ALREADY_PRESENT"} =>
                           \E i \in DOMAIN labels : labels[i].day = o[1]

(* LabelsUseTheirWindow: a label depends on nothing outside the window     *)
(* from its entry to its close: with the observations before the entry     *)
(* price and after the close taken away, the excursion is the same.        *)
LabelsUseTheirWindow ==
    \A i \in DOMAIN labels :
        LET x == labels[i]
            bars == Bars[x.day]
            entryAt == Max({k \in DOMAIN bars : bars[k].ts <= x.entry})
            last == Max({k \in DOMAIN bars : bars[k].ts <= CloseOf(x.day)})
            e == Excursion(SubSeq(bars, entryAt, last), x.entry, CloseOf(x.day))
        IN  /\ e.covered
            /\ <<e.price, e.final, e.up, e.down>> = <<x.price, x.final, x.up, x.down>>

(* LabelsAreRight: every label and feature line is the only one of its     *)
(* day, rests on the nearest day and on its own window, and no day of a    *)
(* batch goes unreported.                                                  *)
LabelsAreRight ==
    OneLineForADay /\ AnchoredOnTheNearestDay /\ NoDayIsSilent /\ LabelsUseTheirWindow
=============================================================================
