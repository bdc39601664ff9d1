---------------------------- MODULE WalkForward ----------------------------
(***************************************************************************)
(* PurgedWalkForwardSplitter.split (validation/walk_forward.py): an        *)
(* expanding training window, tested on the next groups, with a purge gap  *)
(* between the two.                                                        *)
(***************************************************************************)
EXTENDS Integers, FiniteSets, Sequences, FiniteSetsExt

(* The ValueErrors of the splitter.                                        *)
NoSplit == [ok |-> FALSE, folds |-> <<>>]

(* Samples are records [id, at, group]; a plan is [minTrain, test, step,   *)
(* gap].  Groups in the order of their first sample, then of their names:  *)
(* the n-th has n that do not come after it.                               *)
FirstAt(samples, g) == Min({s.at : s \in {x \in samples : x.group = g}})

GroupNotAfter(samples, g, h) ==
    \/ FirstAt(samples, g) < FirstAt(samples, h)
    \/ FirstAt(samples, g) = FirstAt(samples, h) /\ g <= h

GroupOrder(samples) ==
    LET groups == {s.group : s \in samples}
    IN  [n \in 1..Cardinality(groups) |->
            CHOOSE h \in groups :
                Cardinality({g \in groups : GroupNotAfter(samples, g, h)}) = n]

(* The fold tested on the groups from offset + 1 on.                       *)
BugFold(samples, order, offset, plan) ==
    LET tested  == {order[i] : i \in (offset + 1)..(offset + plan.test)}
        trained == {order[i] : i \in 1..offset}
        test    == {s \in samples : s.group \in tested}
        start   == Min({s.at : s \in test})
        cutoff  == start - plan.gap
    IN  [train |-> {s \in samples : s.group \in trained /\ s.at <= cutoff},
         test |-> test, cutoff |-> cutoff, start |-> start,
         end |-> Max({s.at : s \in test})]

Fold(samples, order, offset, plan) ==
    LET tested  == {order[i] : i \in (offset + 1)..(offset + plan.test)}
        trained == {order[i] : i \in 1..offset}
        test    == {s \in samples : s.group \in tested}
        start   == Min({s.at : s \in test})
        cutoff  == start - plan.gap
    IN  [train |-> {s \in samples : s.group \in trained /\ s.at < cutoff},
         test |-> test, cutoff |-> cutoff, start |-> start,
         end |-> Max({s.at : s \in test})]

(* Where the folds start: minTrain, and on in steps while a whole test     *)
(* window is left.                                                         *)
FoldOffsets(n, plan) ==
    LET m == n - plan.minTrain - plan.test
    IN  IF m < 0 THEN <<>>
        ELSE [k \in 1..(m \div plan.step + 1) |-> plan.minTrain + (k - 1) * plan.step]

(* split.  A fold that the gap leaves without training samples fails the   *)
(* whole split, however many folds were made before it.                    *)
Split(samples, plan) ==
    LET order   == GroupOrder(samples)
        offsets == FoldOffsets(Len(order), plan)
        folds   == [k \in DOMAIN offsets |-> Fold(samples, order, offsets[k], plan)]
    IN  IF \E s, x \in samples : s # x /\ s.id = x.id THEN NoSplit
        ELSE IF \E k \in DOMAIN folds : folds[k].train = {} THEN NoSplit
        ELSE [ok |-> TRUE, folds |-> folds]
=============================================================================
