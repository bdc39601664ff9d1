----------------------------- MODULE MCEvidence -----------------------------
(***************************************************************************)
(* Instance of Evidence for TLC: its constants and the requests to the     *)
(* parts of Workbench.                                                     *)
(***************************************************************************)
EXTENDS Evidence

(* A manifest that expires, two good sessions and one that started before  *)
(* the manifest, of another build.                                         *)
MCManifests == {[id |-> "m1", generated |-> 1, verified |-> TRUE, expires |-> 3]}

MCSession(id, m, start, end, code, recovery) ==
    [id |-> id, manifest |-> m, start |-> start, end |-> end, code |-> code,
     sound |-> TRUE, date |-> start, degradation |-> TRUE, recovery |-> recovery]

MCSessions == {MCSession("a", "m1", 1, 2, "v1", TRUE),
               MCSession("b", "m1", 1, 2, "v1", FALSE),
               MCSession("b", "m1", 0, 2, "v0", FALSE)}

(* Three or four samples in three groups that may overlap in time.         *)
MCSamples ==
    LET s == [at : 0..2, group : 1..3]
    IN  {{[id |-> 1, at |-> a.at, group |-> a.group],
          [id |-> 2, at |-> b.at, group |-> b.group],
          [id |-> c.id, at |-> c.at, group |-> c.group],
          [id |-> 4, at |-> d.at, group |-> d.group]} :
            a \in s, b \in s, c \in [id : {2, 3}, at : 1..2, group : 2..3],
            d \in [at : 2..3, group : 1..3]}

MCPlans == [minTrain : {1}, test : 1..2, step : 1..2, gap : 0..1]

MCCeilings == [touch |-> 0]
MCFloors   == [samples |-> 1, effect |-> 1]
MCSlices ==
    [key : 1..3, value : [touch : 0..1, samples : 0..1, effect : 0..1]]

MCEvents ==
    {e \in [seen : 0..1, confirmed : {Unknown} \union 0..2,
            cross : {Unknown} \union 0..3, stable : {Unknown} \union 0..4,
            sources : 0..1, observations : 0..1, contradictory : BOOLEAN,
            scheduled : {Unknown, 1}, close : {Unknown, 4}, open : {Unknown, 5}] :
        ValidTimeline(e)}
MCOffsets == {-2, -1, 1, 2, 4}

MCStrikes == [sp |-> 3, lp |-> 1, sc |-> 5, lc |-> 7]

Q(ts, leg, bid, ask) == [ts |-> ts, leg |-> leg, bid |-> bid, ask |-> ask]

(* Opening quotes: a credit, a debit, a credit above the wing, a short     *)
(* without a bid, and a leg that is not quoted.                            *)
Opening(sp, lp) ==
    <<Q(0, "sp", sp, sp), Q(0, "lp", lp, lp), Q(0, "sc", 1, 1), Q(0, "lc", 1, 1)>>
MCOpenings ==
    {Opening(2, 1), Opening(1, 2), Opening(4, 1), Opening(0, 1),
     SubSeq(Opening(2, 1), 1, 3)}

(* What may be quoted in a minute after the entry.                         *)
MCUpdates(ts) ==
    {<<>>, <<Q(ts, "sp", 0, 1)>>, <<Q(ts, "sp", 4, 5)>>, <<Q(ts, "sp", 1, NoPrice)>>,
     <<Q(ts, "lp", NoPrice, 1)>>, <<Q(ts, "lp", 2, 3)>>, <<Q(ts, "sc", 2, 3)>>}

MCDay(labelled, ranged, chain, entry, quotes, close) ==
    [labelled |-> labelled, ranged |-> ranged, chain |-> chain, entry |-> entry,
     quotes |-> quotes, close |-> close]

MCQuotedDays ==
    {<<MCDay(TRUE, TRUE, TRUE, 0, open \o a \o b \o c, close)>> :
        open \in MCOpenings, a \in MCUpdates(1), b \in MCUpdates(2), c \in MCUpdates(3),
        close \in {2, 4, 9}}

MCPlainDays ==
    {MCDay(l, r, c, entry, open, 4) :
        l \in BOOLEAN, r \in BOOLEAN, c \in BOOLEAN, entry \in {0, 3}, open \in MCOpenings}

(* Four days: the first cannot be decoded, the third closes early and its  *)
(* bars go on, the last has a hole after the earlier entry time.           *)
MCBars ==
    LET B(ts, price) == [ts |-> ts, price |-> price]
    IN  <<<<B(0, 5), B(1, 4), B(2, 6), B(3, 6)>>,
          <<B(0, 5), B(1, 6), B(2, 3), B(3, 7), B(4, 9)>>,
          <<B(1, 5), B(2, 6), B(3, 4), B(4, 1)>>,
          <<B(0, 5), B(2, 5), B(3, 6)>>>>
MCEarlyCloses == [d \in {3} |-> 2]
MCAnchorFiles == {{1, 2}}

(* The commands are alike, recording ones and batches.                     *)
MCSymmetry == Permutations(Commands)

MCJobs ==
    [task : {"shadow", "drill", "replay", "alerts", "labels"}]
    \union [task : {"split"}, samples : MCSamples, plan : MCPlans]
    \union [task : {"gate"}, frozenAt : 0..2, evaluatedAt : 1..3,
            slices : UNION {[1..n -> MCSlices] : n \in 0..2}]
    \union [task : {"gate"}, frozenAt : {1}, evaluatedAt : {2},
            slices : [1..3 -> MCSlices]]
    \union [task : {"event"}, event : MCEvents, at : 1..5]
    \union [task : {"days"}, days : MCQuotedDays]
    \union [task : {"days"}, days : {<<a, b>> : a \in MCPlainDays, b \in MCPlainDays}]
=============================================================================
