------------------------- MODULE AlertDeliveryProofs -------------------------
(***************************************************************************)
(* TLAPS proofs about the two ways an alert reaches somebody.              *)
(*                                                                         *)
(* AlertOutbox: attempts stay within their budget, no message gets stuck,  *)
(* escalations keep their distance, an ended message stays ended, enqueued *)
(* messages of one key are a cooldown apart and an acknowledgment closes   *)
(* its history, for any number of messages, policies, caller times in any  *)
(* order, crashes and restarts.                                            *)
(*                                                                         *)
(* AlertStream: what a client has received was audited first, in the order *)
(* of the identifiers, without repetition and, with one writing process,   *)
(* without a gap, for any clients, processes, feedback and failures; the   *)
(* latest feedback on an alert decides its status; and a state is          *)
(* projected once.                                                         *)
(***************************************************************************)
EXTENDS AlertOutbox, AlertStream, SequenceTheorems, FiniteSetTheorems, FunctionTheorems,
        WellFoundedInduction, TLAPS

-----------------------------------------------------------------------------
(* The inductive invariant.                                                *)

Sorted(list) == \A j, k \in DOMAIN list : j < k => list[j].at <= list[k].at

Finished(list) == \E k \in DOMAIN list : list[k].kind \in Terminal

(* A retry is never scheduled for the past; a delivery's deadline is the   *)
(* acknowledgment timeout after it.                                        *)
DueOK(e) ==
    /\ e.kind = "RETRY_SCHEDULED" => e.due \in Nat /\ e.at <= e.due
    /\ e.kind = "DELIVERED" => e.due = IF RequireAck THEN e.at + AckTimeout ELSE None

(* The escalation at place k of the list came after its timeouts.          *)
PacedAt(list, k) ==
    list[k].kind = "ESCALATED" =>
        /\ \E d \in 1..(k-1) :
              list[d].kind = "DELIVERED" /\ list[d].at + AckTimeout <= list[k].at
        /\ \A p \in 1..(k-1) :
              list[p].kind = "ESCALATED" => list[p].at + AckTimeout <= list[k].at

HistoryOK(list) ==
    /\ list \in Seq(Event)
    /\ Sorted(list)
    /\ \A k \in DOMAIN list : DueOK(list[k]) /\ PacedAt(list, k)
    /\ Finished(list) => Last(list).kind # "DELIVERED"

(* The message is waiting for an attempt, or for an answer.                *)
Scheduled(list) ==
    /\ list # <<>> /\ ~Finished(list)
    /\ Last(list).kind \in {"ENQUEUED", "RETRY_SCHEDULED"}

Movable(list) ==
    /\ list # <<>>
    /\ \/ Last(list).kind = "ENQUEUED"
       \/ Last(list).kind = "RETRY_SCHEDULED" /\ Last(list).due # None
       \/ /\ Last(list).kind = "DELIVERED"
          /\ RequireAck => Last(list).due # None

(* What holds of a stored message: its history, its n attempts and the t   *)
(* operations on it that a crash cut short.  A message waiting for an      *)
(* attempt has one left.                                                   *)
MessageOK(list, n, t) ==
    /\ HistoryOK(list) /\ n \in Nat /\ t \in Nat
    /\ Count(list, "ESCALATED") <= MaxEscalations
    /\ n <= MaxAttempts + Count(list, "ESCALATED") + t
    /\ Scheduled(list) => n + 1 <= MaxAttempts + Count(list, "ESCALATED") + t
    /\ t > 0 \/ Finished(list) \/ Movable(list)

(* An id without a message has no history.                                 *)
Unused(list, n, t) == list = <<>> /\ n = 0 /\ t \in Nat

(* The variables are functions on Ids.                                     *)
Rows ==
    /\ messages = [i \in Ids |-> messages[i]] /\ events = [i \in Ids |-> events[i]]
    /\ attempts = [i \in Ids |-> attempts[i]] /\ torn = [i \in Ids |-> torn[i]]
    /\ enabled \in BOOLEAN

RowOK(i) ==
    IF messages[i] = None THEN Unused(events[i], attempts[i], torn[i])
    ELSE MessageOK(events[i], attempts[i], torn[i])

OutboxInv == Rows /\ \A i \in Ids : RowOK(i)

-----------------------------------------------------------------------------
(* The store's order.                                                      *)

(* An initial part of 1..m is 1..n for its size n.                         *)
LEMMA InitialPart ==
    ASSUME NEW m \in Nat, NEW S \in SUBSET (1..m),
           \A j \in 1..m, k \in S : j <= k => j \in S
    PROVE  /\ Cardinality(S) \in 0..m
           /\ S = 1..Cardinality(S)
<1>1. IsFiniteSet(1..m) /\ Cardinality(1..m) = m
    BY FS_Interval
<1>2. IsFiniteSet(S) /\ Cardinality(S) <= m
    BY <1>1, FS_Subset
<1>3. Cardinality(S) \in Nat
    BY <1>2, FS_CardinalityType
<1>4. PICK n : n = Cardinality(S)
    OBVIOUS
<1>5. n \in 0..m
    BY <1>2, <1>3, <1>4
<1>6. S \subseteq 1..n
  <2> SUFFICES ASSUME NEW k \in S PROVE k \in 1..n
    OBVIOUS
  <2>1. 1..k \in SUBSET S /\ k \in Nat \ {0}
    OBVIOUS
  <2>2. Cardinality(1..k) <= n
    BY <1>2, <1>4, <2>1, FS_Subset
  <2>3. Cardinality(1..k) = k
    BY <2>1, FS_Interval
  <2> QED BY <1>5, <2>1, <2>2, <2>3
<1>7. IsFiniteSet(1..n) /\ Cardinality(1..n) = n
    BY <1>5, FS_Interval
<1>8. 1..n = S
    BY <1>4, <1>6, <1>7, FS_Subset
<1> QED BY <1>4, <1>5, <1>8

(* The events that are not later than e are the first n of a list in       *)
(* order.                                                                  *)
LEMMA NotLater ==
    ASSUME NEW list \in Seq(Event), Sorted(list), NEW e \in Event
    PROVE  LET n == Cardinality({k \in DOMAIN list : list[k].at <= e.at})
           IN  /\ n \in 0..Len(list)
               /\ \A k \in 1..Len(list) : list[k].at <= e.at <=> k <= n
<1>1. PICK m : m = Len(list)
    OBVIOUS
<1>2. m \in Nat /\ DOMAIN list = 1..m /\ \A k \in 1..m : list[k].at \in Nat
  <2>1. \A k \in 1..m : list[k] \in Event
    BY <1>1, ElementOfSeq
  <2> QED BY <1>1, <2>1, LenProperties, BoundsAssumption DEF Event, Times
<1>3. PICK S : S = {k \in DOMAIN list : list[k].at <= e.at}
    OBVIOUS
<1>4. e.at \in Nat
    BY BoundsAssumption DEF Event, Times
<1>5. ASSUME NEW j \in 1..m, NEW k \in S, j <= k PROVE j \in S
  <2>1. j = k \/ list[j].at <= list[k].at
    BY <1>2, <1>3, <1>5 DEF Sorted
  <2> QED BY <1>2, <1>3, <1>4, <2>1
<1>6. S \in SUBSET (1..m)
    BY <1>2, <1>3
<1>7. Cardinality(S) \in 0..m /\ S = 1..Cardinality(S)
    BY <1>2, <1>5, <1>6, InitialPart
<1> QED BY <1>1, <1>2, <1>3, <1>7

(* Where Place puts an event, and where the others go.                     *)
LEMMA PlaceFacts ==
    ASSUME NEW list \in Seq(Event), Sorted(list), NEW e \in Event
    PROVE  \E n \in 0..Len(list) :
             /\ \A k \in 1..Len(list) : list[k].at <= e.at <=> k <= n
             /\ Place(list, e) \in Seq(Event)
             /\ Len(Place(list, e)) = Len(list) + 1
             /\ \A k \in 1..n : Place(list, e)[k] = list[k]
             /\ Place(list, e)[n + 1] = e
             /\ \A k \in (n + 1)..Len(list) : Place(list, e)[k + 1] = list[k]
<1>1. PICK n : n = Cardinality({k \in DOMAIN list : list[k].at <= e.at})
    OBVIOUS
<1>2. n \in 0..Len(list) /\ \A k \in 1..Len(list) : list[k].at <= e.at <=> k <= n
    BY <1>1, NotLater
<1>3. PICK m : m = Len(list)
    OBVIOUS
<1>4. m \in Nat /\ n \in Nat /\ n <= m /\ \A k \in 1..m : list[k] \in Event
    BY <1>2, <1>3, LenProperties, ElementOfSeq
<1>5. PICK a, b : a = SubSeq(list, 1, n) /\ b = SubSeq(list, n + 1, m)
    OBVIOUS
<1>6. /\ a \in Seq(Event) /\ Len(a) = IF 1 <= n THEN n - 1 + 1 ELSE 0
      /\ \A k \in 1..(n - 1 + 1) : a[k] = list[1 + k - 1]
  <2>1. \A k \in 1..n : list[k] \in Event
    BY <1>4
  <2> QED BY <1>4, <1>5, <2>1, SubSeqProperties
<1>7. /\ b \in Seq(Event) /\ Len(b) = IF n + 1 <= m THEN m - (n + 1) + 1 ELSE 0
      /\ \A k \in 1..(m - (n + 1) + 1) : b[k] = list[n + 1 + k - 1]
  <2>1. \A k \in (n + 1)..m : list[k] \in Event
    BY <1>4
  <2> QED BY <1>4, <1>5, <2>1, SubSeqProperties
<1>8. Len(a) = n /\ \A k \in 1..n : a[k] = list[k]
    BY <1>4, <1>6
<1>9. Len(b) = m - n /\ \A k \in 1..(m - n) : b[k] = list[n + k]
    BY <1>4, <1>7
<1>10. <<e>> \in Seq(Event) /\ Len(<<e>>) = 1 /\ <<e>>[1] = e
    OBVIOUS
<1>11. PICK f : f = a \o <<e>>
    OBVIOUS
<1>12. /\ f \in Seq(Event) /\ Len(f) = n + 1
       /\ \A k \in 1..n : f[k] = list[k]
       /\ f[n + 1] = e
  <2>1. /\ f \in Seq(Event) /\ Len(f) = Len(a) + Len(<<e>>)
        /\ \A k \in 1..(Len(a) + Len(<<e>>)) :
              f[k] = IF k <= Len(a) THEN a[k] ELSE <<e>>[k - Len(a)]
    BY <1>6, <1>10, <1>11, ConcatProperties
  <2>2. Len(f) = n + 1 /\ \A k \in 1..(n + 1) : f[k] = IF k <= n THEN a[k] ELSE <<e>>[k - n]
    BY <1>4, <1>8, <1>10, <2>1
  <2>3. f[n + 1] = e
    <3>1. n + 1 \in 1..(n + 1) /\ ~(n + 1 <= n) /\ n + 1 - n = 1
      BY <1>4
    <3>2. f[n + 1] = <<e>>[n + 1 - n]
      BY <1>4, <2>2, <3>1
    <3> QED BY <1>10, <3>1, <3>2
  <2> QED BY <1>4, <1>8, <2>1, <2>2, <2>3
<1>13. PICK g : g = f \o b
    OBVIOUS
<1>14. /\ g \in Seq(Event) /\ Len(g) = m + 1
       /\ \A k \in 1..(m + 1) : g[k] = IF k <= n + 1 THEN f[k] ELSE b[k - (n + 1)]
  <2>1. /\ g \in Seq(Event) /\ Len(g) = Len(f) + Len(b)
        /\ \A k \in 1..(Len(f) + Len(b)) : g[k] = IF k <= Len(f) THEN f[k] ELSE b[k - Len(f)]
    BY <1>7, <1>12, <1>13, ConcatProperties
  <2>2. Len(f) + Len(b) = m + 1
    BY <1>4, <1>9, <1>12
  <2> QED BY <1>12, <2>1, <2>2
<1>15. \A k \in 1..n : g[k] = list[k]
    BY <1>4, <1>12, <1>14
<1>16. g[n + 1] = e
    BY <1>4, <1>12, <1>14
<1>17. ASSUME NEW k \in (n + 1)..m PROVE g[k + 1] = list[k]
  <2>1. k + 1 \in 1..(m + 1) /\ ~(k + 1 <= n + 1) /\ k + 1 - (n + 1) = k - n
    BY <1>4
  <2>2. g[k + 1] = b[k - n]
    BY <1>4, <1>14, <2>1
  <2>3. k - n \in 1..(m - n) /\ n + (k - n) = k
    BY <1>4
  <2> QED BY <1>9, <2>2, <2>3
<1>18. Place(list, e) = g
    BY <1>1, <1>3, <1>5, <1>11, <1>13 DEF Place
<1> QED BY <1>2, <1>3, <1>14, <1>15, <1>16, <1>17, <1>18

(* The event e stands at n + 1 of g: the m entries of list that are not    *)
(* later are before it and the others, moved by one, after it.             *)
PlacedAt(list, e, g, m, n) ==
    /\ \A k \in 1..m : list[k].at <= e.at <=> k <= n
    /\ g \in Seq(Event)
    /\ DOMAIN g = 1..(m + 1)
    /\ Len(g) = m + 1
    /\ g[n + 1] = e
    /\ \A k \in 1..n : g[k] = list[k]
    /\ \A k \in (n + 1)..m : g[k + 1] = list[k]
    /\ \A j \in (n + 2)..(m + 1) : j - 1 \in 1..m /\ g[j] = list[j - 1]

(* Place, read backwards: what is at each place of the new list.           *)
LEMMA PlaceInverse ==
    ASSUME NEW list \in Seq(Event), Sorted(list), NEW e \in Event,
           NEW g, g = Place(list, e), NEW m, m = Len(list)
    PROVE  \E n \in 0..m : PlacedAt(list, e, g, m, n)
<1>1. PICK n \in 0..m :
          /\ \A k \in 1..m : list[k].at <= e.at <=> k <= n
          /\ g \in Seq(Event)
          /\ Len(g) = m + 1
          /\ \A k \in 1..n : g[k] = list[k]
          /\ g[n + 1] = e
          /\ \A k \in (n + 1)..m : g[k + 1] = list[k]
    BY PlaceFacts
<1>2. m \in Nat /\ DOMAIN g = 1..(m + 1)
    BY <1>1, LenProperties
<1>3. ASSUME NEW j \in (n + 2)..(m + 1)
      PROVE  j - 1 \in 1..m /\ g[j] = list[j - 1]
  <2>1. j - 1 \in (n + 1)..m /\ j - 1 + 1 = j /\ j - 1 \in 1..m
    BY <1>2
  <2>2. g[j - 1 + 1] = list[j - 1]
    BY <1>1, <2>1
  <2> QED BY <2>1, <2>2
<1> QED BY <1>1, <1>2, <1>3 DEF PlacedAt

(* The store's order is kept.                                              *)
LEMMA PlaceSorted ==
    ASSUME NEW list \in Seq(Event), Sorted(list), NEW e \in Event
    PROVE  Place(list, e) \in Seq(Event) /\ Sorted(Place(list, e))
<1>1. PICK g : g = Place(list, e)
    OBVIOUS
<1>2. PICK m : m = Len(list)
    OBVIOUS
<1>3. PICK n \in 0..m :
          /\ \A k \in 1..m : list[k].at <= e.at <=> k <= n
          /\ g \in Seq(Event)
          /\ DOMAIN g = 1..(m + 1)
          /\ g[n + 1] = e
          /\ \A k \in 1..n : g[k] = list[k]
          /\ \A j \in (n + 2)..(m + 1) : j - 1 \in 1..m /\ g[j] = list[j - 1]
  <2>1. PICK n \in 0..m : PlacedAt(list, e, g, m, n)
    BY <1>1, <1>2, PlaceInverse
  <2> QED
    BY <2>1 DEF PlacedAt
<1>4. m \in Nat /\ DOMAIN list = 1..m /\ e.at \in Nat /\ \A k \in 1..m : list[k].at \in Nat
  <2>1. \A k \in 1..m : list[k] \in Event
    BY <1>2, ElementOfSeq
  <2> QED BY <1>2, <2>1, LenProperties, BoundsAssumption DEF Event, Times
<1>5. ASSUME NEW j \in 1..(m + 1), NEW k \in 1..(m + 1), j < k
      PROVE  g[j].at <= g[k].at
  <2>1. CASE k <= n
    <3>1. j \in 1..n /\ k \in 1..n /\ j \in 1..m /\ k \in 1..m
      BY <1>4, <1>5, <2>1
    <3> QED BY <1>3, <1>4, <1>5, <3>1 DEF Sorted
  <2>2. CASE k = n + 1
    <3>1. j \in 1..n /\ j \in 1..m
      BY <1>4, <1>5, <2>2
    <3> QED BY <1>3, <1>4, <2>2, <3>1
  <2>3. CASE k > n + 1
    <3>1. k \in (n + 2)..(m + 1) /\ k - 1 \in 1..m /\ g[k] = list[k - 1] /\ k - 1 > n
      BY <1>3, <1>4, <2>3
    <3>2. CASE j <= n
      <4>1. j \in 1..n /\ j \in 1..m /\ j < k - 1
        BY <1>4, <3>1, <3>2
      <4> QED BY <1>3, <1>4, <3>1, <4>1 DEF Sorted
    <3>3. CASE j = n + 1
      <4>1. ~(list[k - 1].at <= e.at)
        BY <1>3, <1>4, <3>1
      <4> QED BY <1>3, <1>4, <3>1, <3>3, <4>1
    <3>4. CASE j > n + 1
      <4>1. j \in (n + 2)..(m + 1) /\ j - 1 \in 1..m /\ g[j] = list[j - 1] /\ j - 1 < k - 1
        BY <1>3, <1>4, <1>5, <3>4
      <4> QED BY <1>4, <3>1, <4>1 DEF Sorted
    <3>5. j <= n \/ j = n + 1 \/ j > n + 1
      BY <1>4
    <3> QED BY <3>2, <3>3, <3>4, <3>5
  <2>4. k <= n \/ k = n + 1 \/ k > n + 1
    BY <1>4
  <2> QED BY <2>1, <2>2, <2>3, <2>4
<1> QED BY <1>1, <1>3, <1>5 DEF Sorted

(* How many events of a kind there are.                                    *)
LEMMA CountType ==
    ASSUME NEW list \in Seq(Event), NEW kind
    PROVE  /\ IsFiniteSet({k \in DOMAIN list : list[k].kind = kind})
           /\ Count(list, kind) \in Nat
<1>1. Len(list) \in Nat /\ DOMAIN list = 1..Len(list)
    BY LenProperties
<1>2. IsFiniteSet(1..Len(list))
    BY <1>1, FS_Interval
<1>3. {k \in DOMAIN list : list[k].kind = kind} \in SUBSET (1..Len(list))
    BY <1>1
<1>4. IsFiniteSet({k \in DOMAIN list : list[k].kind = kind})
    BY <1>2, <1>3, FS_Subset
<1> QED BY <1>4, FS_CardinalityType DEF Count

(* Placing an event counts it, and changes no other count.                 *)
LEMMA PlaceCount ==
    ASSUME NEW list \in Seq(Event), Sorted(list), NEW e \in Event, NEW kind
    PROVE  Count(Place(list, e), kind) = Count(list, kind) + (IF e.kind = kind THEN 1 ELSE 0)
<1>1. PICK g : g = Place(list, e)
    OBVIOUS
<1>2. PICK m : m = Len(list)
    OBVIOUS
<1>3. PICK n \in 0..m :
          /\ g \in Seq(Event)
          /\ DOMAIN g = 1..(m + 1)
          /\ g[n + 1] = e
          /\ \A k \in 1..n : g[k] = list[k]
          /\ \A k \in (n + 1)..m : g[k + 1] = list[k]
          /\ \A j \in (n + 2)..(m + 1) : j - 1 \in 1..m /\ g[j] = list[j - 1]
  <2>1. PICK n \in 0..m : PlacedAt(list, e, g, m, n)
    BY <1>1, <1>2, PlaceInverse
  <2> QED
    BY <2>1 DEF PlacedAt
<1>4. m \in Nat /\ DOMAIN list = 1..m
    BY <1>2, LenProperties
<1>5. PICK K : K = {k \in DOMAIN list : list[k].kind = kind}
    OBVIOUS
<1>6. PICK G : G = {k \in DOMAIN g : g[k].kind = kind}
    OBVIOUS
<1>7. PICK H : H = G \ {n + 1}
    OBVIOUS
<1>8. PICK f : f = [k \in K |-> IF k <= n THEN k ELSE k + 1]
    OBVIOUS
<1>9. \A k \in K : k \in 1..m /\ list[k].kind = kind
    BY <1>4, <1>5
<1>10. \A j \in H : j \in 1..(m + 1) /\ j # n + 1 /\ g[j].kind = kind
    BY <1>3, <1>6, <1>7
<1>11. f \in [K -> H]
  <2> SUFFICES ASSUME NEW k \in K PROVE f[k] \in H
    BY <1>8
  <2>1. CASE k <= n
    <3>1. k \in 1..n /\ f[k] = k /\ k \in 1..(m + 1) /\ k # n + 1
      BY <1>4, <1>8, <1>9, <2>1
    <3> QED BY <1>3, <1>6, <1>7, <1>9, <3>1
  <2>2. CASE ~(k <= n)
    <3>1. k \in (n + 1)..m /\ f[k] = k + 1 /\ k + 1 \in 1..(m + 1) /\ k + 1 # n + 1
      BY <1>4, <1>8, <1>9, <2>2
    <3>2. g[k + 1] = list[k]
      BY <1>3, <3>1
    <3> QED BY <1>3, <1>6, <1>7, <1>9, <3>1, <3>2
  <2> QED BY <2>1, <2>2
<1>12. \A j, k \in K : f[j] = f[k] => j = k
  <2>1. \A k \in K : k \in Nat /\ f[k] = IF k <= n THEN k ELSE k + 1
    BY <1>8, <1>9
  <2> QED BY <1>4, <2>1
<1>13. ASSUME NEW j \in H PROVE \E k \in K : f[k] = j
  <2>1. CASE j <= n
    <3>1. j \in 1..n /\ j \in DOMAIN list
      BY <1>4, <1>10, <2>1
    <3>2. j \in K
      BY <1>3, <1>5, <1>10, <3>1
    <3> QED BY <1>8, <2>1, <3>2
  <2>2. CASE ~(j <= n)
    <3>1. j \in (n + 2)..(m + 1)
      BY <1>4, <1>10, <2>2
    <3>2. j - 1 \in 1..m /\ g[j] = list[j - 1] /\ ~(j - 1 <= n) /\ j - 1 + 1 = j
      BY <1>3, <1>4, <3>1
    <3>3. j - 1 \in K
      BY <1>4, <1>5, <1>10, <3>2
    <3> QED BY <1>8, <3>2, <3>3
  <2> QED BY <2>1, <2>2
<1>14. f \in Bijection(K, H)
    BY <1>11, <1>12, <1>13, Fun_IsBij
<1>15. IsFiniteSet(K) /\ Cardinality(K) \in Nat
    BY <1>5, CountType, FS_CardinalityType
<1>16. IsFiniteSet(H) /\ Cardinality(H) = Cardinality(K)
    BY <1>14, <1>15, FS_Bijection DEF ExistsBijection
<1>17. CASE e.kind = kind
  <2>1. n + 1 \in G
    BY <1>3, <1>4, <1>6, <1>17
  <2>2. G = H \cup {n + 1} /\ n + 1 \notin H
    BY <1>7, <2>1
  <2>3. Cardinality(G) = Cardinality(H) + 1
    BY <1>16, <2>2, FS_AddElement
  <2> QED BY <1>1, <1>5, <1>6, <1>15, <1>16, <1>17, <2>3 DEF Count
<1>18. CASE e.kind # kind
  <2>1. G = H
    BY <1>3, <1>6, <1>7, <1>18
  <2>2. Count(Place(list, e), kind) = Cardinality(K) /\ Count(list, kind) = Cardinality(K)
    BY <1>1, <1>5, <1>6, <1>16, <2>1 DEF Count
  <2> QED BY <1>15, <1>18, <2>2
<1> QED BY <1>17, <1>18

(* A count that the new event does not belong to.                          *)
LEMMA PlaceOther ==
    ASSUME NEW list \in Seq(Event), Sorted(list), NEW e \in Event, NEW kind, e.kind # kind
    PROVE  Count(Place(list, e), kind) = Count(list, kind) /\ Count(list, kind) \in Nat
<1>1. Count(list, kind) \in Nat
    BY CountType
<1>2. Count(Place(list, e), kind) = Count(list, kind) + (IF e.kind = kind THEN 1 ELSE 0)
    BY PlaceCount
<1> QED BY <1>1, <1>2

(* An event not earlier than the last one goes to the end.                 *)
LEMMA PlaceAtEnd ==
    ASSUME NEW list \in Seq(Event), Sorted(list), NEW e \in Event,
           list # <<>> => Last(list).at <= e.at
    PROVE  /\ DOMAIN list = 1..Len(list) /\ Len(list) \in Nat
           /\ DOMAIN Place(list, e) = 1..(Len(list) + 1)
           /\ Place(list, e) # <<>> /\ Last(Place(list, e)) = e
           /\ \A k \in 1..Len(list) : Place(list, e)[k] = list[k]
           /\ Place(list, e)[Len(list) + 1] = e
<1>1. PICK g : g = Place(list, e)
    OBVIOUS
<1>2. PICK m : m = Len(list)
    OBVIOUS
<1>3. PICK n \in 0..m :
          /\ \A k \in 1..m : list[k].at <= e.at <=> k <= n
          /\ g \in Seq(Event) /\ Len(g) = m + 1
          /\ DOMAIN g = 1..(m + 1)
          /\ g[n + 1] = e
          /\ \A k \in 1..n : g[k] = list[k]
  <2>1. PICK n \in 0..m : PlacedAt(list, e, g, m, n)
    BY <1>1, <1>2, PlaceInverse
  <2> QED
    BY <2>1 DEF PlacedAt
<1>4. m \in Nat /\ DOMAIN list = 1..m /\ (list # <<>> => m # 0) /\ (m # 0 => list # <<>>)
    BY <1>2, LenProperties, EmptySeq
<1>5. n = m
  <2>1. CASE m = 0
    BY <1>4, <2>1
  <2>2. CASE m # 0
    <3>1. m \in 1..m /\ list[m].at <= e.at
      BY <1>2, <1>4, <2>2 DEF Last
    <3> QED BY <1>3, <1>4, <3>1
  <2> QED BY <2>1, <2>2
<1>6. g # <<>> /\ Last(g) = e
    BY <1>3, <1>4, <1>5, EmptySeq DEF Last
<1> QED BY <1>1, <1>2, <1>3, <1>4, <1>5, <1>6

(* A history stays sound when its next event is put at its end.            *)
LEMMA AppendHistory ==
    ASSUME NEW list, HistoryOK(list), NEW e \in Event, DueOK(e),
           list # <<>> => Last(list).at <= e.at,
           Finished(list) => e.kind # "DELIVERED",
           e.kind = "ESCALATED" =>
               /\ list # <<>> /\ Last(list).kind = "DELIVERED"
               /\ Last(list).at + AckTimeout <= e.at
    PROVE  /\ HistoryOK(Place(list, e))
           /\ Place(list, e) # <<>> /\ Last(Place(list, e)) = e
           /\ Finished(Place(list, e)) <=> Finished(list) \/ e.kind \in Terminal
<1>1. list \in Seq(Event) /\ Sorted(list)
    BY DEF HistoryOK
<1>2. PICK g : g = Place(list, e)
    OBVIOUS
<1>3. PICK m : m = Len(list)
    OBVIOUS
<1>4. /\ m \in Nat /\ DOMAIN list = 1..m /\ DOMAIN g = 1..(m + 1)
      /\ g # <<>> /\ Last(g) = e
      /\ \A k \in 1..m : g[k] = list[k]
      /\ g[m + 1] = e
    BY <1>1, <1>2, <1>3, PlaceAtEnd
<1>5. g \in Seq(Event) /\ Sorted(g)
    BY <1>1, <1>2, PlaceSorted
<1>6. \A k \in 1..(m + 1) : k \in 1..m \/ k = m + 1
    BY <1>4
<1>7. \A k \in DOMAIN g : DueOK(g[k])
    BY <1>4, <1>6 DEF HistoryOK
<1>8. ASSUME NEW k \in DOMAIN g PROVE PacedAt(g, k)
  <2>1. CASE k \in 1..m
    <3>1. PacedAt(list, k) /\ \A j \in 1..(k - 1) : j \in 1..m /\ g[j] = list[j]
      BY <1>4, <2>1 DEF HistoryOK
    <3>2. g[k] = list[k]
      BY <1>4, <2>1
    <3> QED BY <3>1, <3>2 DEF PacedAt
  <2>2. CASE k = m + 1
    <3> SUFFICES ASSUME e.kind = "ESCALATED"
                 PROVE  /\ \E d \in 1..m : /\ g[d].kind = "DELIVERED"
                                           /\ g[d].at + AckTimeout <= e.at
                        /\ \A p \in 1..m : g[p].at + AckTimeout <= e.at
      <4>1. g[k] = e /\ k - 1 = m
        BY <1>4, <2>2
      <4> QED BY <4>1 DEF PacedAt
    <3>1. m # 0 /\ m \in 1..m /\ Last(list) = list[m]
      BY <1>1, <1>3, <1>4, EmptySeq DEF Last
    <3>2. list[m].kind = "DELIVERED" /\ list[m].at + AckTimeout <= e.at
      BY <3>1
    <3>3. \A p \in 1..m : list[p].at \in Nat
      <4>1. \A p \in 1..m : list[p] \in Event
        BY <1>1, <1>3, ElementOfSeq
      <4> QED BY <4>1, BoundsAssumption DEF Event, Times
    <3>4. e.at \in Nat /\ AckTimeout \in Nat
      BY BoundsAssumption, PolicyAssumption DEF Event, Times
    <3>5. ASSUME NEW p \in 1..m PROVE g[p].at + AckTimeout <= e.at
      <4>1. list[p].at <= list[m].at
        <5>1. p = m \/ p < m
          BY <1>4
        <5> QED BY <1>1, <1>4, <3>1, <3>3, <5>1 DEF Sorted
      <4> QED BY <1>4, <3>1, <3>2, <3>3, <3>4, <4>1
    <3> QED BY <1>4, <3>1, <3>2, <3>5
  <2> QED BY <1>4, <1>6, <2>1, <2>2
<1>9. Finished(g) <=> Finished(list) \/ e.kind \in Terminal
  <2>1. Finished(g) => Finished(list) \/ e.kind \in Terminal
    BY <1>4, <1>6 DEF Finished
  <2>2. Finished(list) => Finished(g)
    <3>1. \A k \in 1..m : k \in 1..(m + 1)
      BY <1>4
    <3> QED BY <1>4, <3>1 DEF Finished
  <2>3. e.kind \in Terminal => Finished(g)
    <3>1. m + 1 \in 1..(m + 1)
      BY <1>4
    <3> QED BY <1>4, <3>1 DEF Finished
  <2> QED BY <2>1, <2>2, <2>3
<1>10. Finished(g) => Last(g).kind # "DELIVERED"
    BY <1>4, <1>9 DEF Terminal
<1> QED BY <1>2, <1>4, <1>5, <1>7, <1>8, <1>9, <1>10 DEF HistoryOK

(* An acknowledgment may be filed in the middle: after every delivery, and *)
(* without changing the distances between the other events.                *)
LEMMA AckHistory ==
    ASSUME NEW list, HistoryOK(list), NEW now \in Times,
           \A k \in DOMAIN list : list[k].kind = "DELIVERED" => list[k].at <= now
    PROVE  LET e == Ev("ACKNOWLEDGED", now, None)
           IN  /\ e \in Event /\ e.kind = "ACKNOWLEDGED"
               /\ HistoryOK(Place(list, e)) /\ Finished(Place(list, e))
<1>1. list \in Seq(Event) /\ Sorted(list)
    BY DEF HistoryOK
<1>2. PICK e : e = Ev("ACKNOWLEDGED", now, None)
    OBVIOUS
<1>3. e \in Event /\ e.kind = "ACKNOWLEDGED" /\ e.at = now
    BY <1>2 DEF Ev, Event, Kinds, Terminal
<1>4. PICK g : g = Place(list, e)
    OBVIOUS
<1>5. PICK m : m = Len(list)
    OBVIOUS
<1>6. PICK n \in 0..m :
          /\ \A k \in 1..m : list[k].at <= e.at <=> k <= n
          /\ g \in Seq(Event)
          /\ DOMAIN g = 1..(m + 1)
          /\ Len(g) = m + 1
          /\ g[n + 1] = e
          /\ \A k \in 1..n : g[k] = list[k]
          /\ \A k \in (n + 1)..m : g[k + 1] = list[k]
          /\ \A j \in (n + 2)..(m + 1) : j - 1 \in 1..m /\ g[j] = list[j - 1]
  <2>1. PICK n \in 0..m : PlacedAt(list, e, g, m, n)
    BY <1>1, <1>3, <1>4, <1>5, PlaceInverse
  <2> QED
    BY <2>1 DEF PlacedAt
<1>7. m \in Nat /\ DOMAIN list = 1..m
    BY <1>1, <1>5, LenProperties
<1>8. g \in Seq(Event) /\ Sorted(g)
    BY <1>1, <1>3, <1>4, PlaceSorted
<1>9. \A k \in 1..(m + 1) : k \in 1..n \/ k = n + 1 \/ k \in (n + 2)..(m + 1)
    BY <1>7
<1>10. \A k \in 1..n : k \in 1..m
    BY <1>7
<1>11. \A k \in DOMAIN g : DueOK(g[k])
  <2>1. DueOK(e)
    BY <1>3 DEF DueOK
  <2> QED BY <1>6, <1>7, <1>9, <1>10, <2>1 DEF HistoryOK
<1>12. ASSUME NEW k \in DOMAIN g PROVE PacedAt(g, k)
  <2>1. CASE k \in 1..n
    <3>1. PacedAt(list, k) /\ \A j \in 1..(k - 1) : g[j] = list[j]
      BY <1>6, <1>7, <2>1 DEF HistoryOK
    <3>2. g[k] = list[k]
      BY <1>6, <2>1
    <3> QED BY <3>1, <3>2 DEF PacedAt
  <2>2. CASE k = n + 1
    BY <1>3, <1>6, <2>2 DEF PacedAt
  <2>3. CASE k \in (n + 2)..(m + 1)
    <3>1. PICK q : q = k - 1
      OBVIOUS
    <3>2. q \in 1..m /\ g[k] = list[q] /\ q \in Nat /\ q >= n + 1
      BY <1>6, <1>7, <2>3, <3>1
    <3>3. PacedAt(list, q)
      BY <1>7, <3>2 DEF HistoryOK
    <3> SUFFICES ASSUME list[q].kind = "ESCALATED"
                 PROVE  /\ \E d \in 1..q : /\ g[d].kind = "DELIVERED"
                                           /\ g[d].at + AckTimeout <= list[q].at
                        /\ \A p \in 1..q :
                              g[p].kind = "ESCALATED" => g[p].at + AckTimeout <= list[q].at
      BY <3>1, <3>2 DEF PacedAt
    <3>4. PICK d \in 1..(q - 1) :
              list[d].kind = "DELIVERED" /\ list[d].at + AckTimeout <= list[q].at
      BY <3>3 DEF PacedAt
    <3>5. \E x \in 1..q : g[x] = list[d]
      <4>1. CASE d <= n
        <5>1. d \in 1..n /\ d \in 1..q
          BY <1>7, <3>2, <4>1
        <5> QED BY <1>6, <5>1
      <4>2. CASE ~(d <= n)
        <5>1. d \in (n + 1)..m /\ d + 1 \in 1..q
          BY <1>7, <3>2, <4>2
        <5> QED BY <1>6, <5>1
      <4> QED BY <4>1, <4>2
    <3>6. ASSUME NEW p \in 1..q, g[p].kind = "ESCALATED"
          PROVE  g[p].at + AckTimeout <= list[q].at
      <4>1. \E x \in 1..(q - 1) : g[p] = list[x]
        <5>1. CASE p <= n
          <6>1. p \in 1..n /\ p \in 1..(q - 1)
            BY <1>7, <3>2, <5>1
          <6> QED BY <1>6, <6>1
        <5>2. CASE p = n + 1
          BY <1>3, <1>6, <3>6, <5>2
        <5>3. CASE p > n + 1
          <6>1. p \in (n + 2)..(m + 1) /\ p - 1 \in 1..(q - 1)
            BY <1>7, <3>2, <5>3
          <6> QED BY <1>6, <6>1
        <5>4. p <= n \/ p = n + 1 \/ p > n + 1
          BY <1>7
        <5> QED BY <5>1, <5>2, <5>3, <5>4
      <4> QED BY <3>3, <3>6, <4>1 DEF PacedAt
    <3> QED BY <3>4, <3>5, <3>6
  <2> QED BY <1>6, <1>9, <2>1, <2>2, <2>3
<1>13. Last(g).kind # "DELIVERED"
  <2>1. CASE n = m
    BY <1>3, <1>6, <2>1 DEF Last
  <2>2. CASE n # m
    <3>1. m + 1 \in (n + 2)..(m + 1) /\ m \in 1..m /\ m + 1 - 1 = m /\ ~(m <= n)
      BY <1>7, <2>2
    <3>2. g[m + 1] = list[m] /\ ~(list[m].at <= e.at)
      <4>1. g[m + 1] = list[m + 1 - 1]
        BY <1>6, <3>1
      <4> QED BY <1>6, <3>1, <4>1
    <3> QED BY <1>3, <1>6, <1>7, <3>1, <3>2 DEF Last
  <2> QED BY <2>1, <2>2
<1>14. Finished(g)
  <2>1. n + 1 \in 1..(m + 1)
    BY <1>7
  <2> QED BY <1>3, <1>6, <2>1 DEF Finished, Terminal
<1> QED BY <1>2, <1>3, <1>4, <1>8, <1>11, <1>12, <1>13, <1>14 DEF HistoryOK

-----------------------------------------------------------------------------
(* What each operation does to one message.                                *)

(* _is_due and the condition of escalate_due, of a list.                   *)
DueAt(list, now) ==
    /\ \A k \in DOMAIN list : list[k].kind \notin Terminal
    /\ list # <<>>
    /\ \/ Last(list).kind = "ENQUEUED" /\ Last(list).at <= now
       \/ /\ Last(list).kind = "RETRY_SCHEDULED"
          /\ Last(list).due # None /\ Last(list).due <= now

OverdueAt(list, now) ==
    /\ RequireAck
    /\ ~ Has(list, "ACKNOWLEDGED")
    /\ list # <<>>
    /\ Last(list).kind = "DELIVERED"
    /\ Last(list).due # None /\ Last(list).due <= now

(* The last event of a history is one of its events.                       *)
LEMMA LastFacts ==
    ASSUME NEW list, HistoryOK(list), list # <<>>
    PROVE  Last(list) \in Event /\ DueOK(Last(list)) /\ Last(list).at \in Nat
<1>1. Len(list) \in 1..Len(list) /\ DOMAIN list = 1..Len(list)
    BY LenProperties, EmptySeq DEF HistoryOK
<1>2. list[Len(list)] \in Event
    BY <1>1, ElementOfSeq DEF HistoryOK
<1> QED BY <1>1, <1>2, BoundsAssumption DEF HistoryOK, Last, Event, Times

(* A due or overdue message's events are all in the past of the call.      *)
LEMMA CalledAfterLast ==
    ASSUME NEW list, HistoryOK(list), NEW now \in Times,
           DueAt(list, now) \/ OverdueAt(list, now)
    PROVE  list # <<>> /\ Last(list).at <= now
<1>1. list # <<>>
    BY DEF DueAt, OverdueAt
<1>2. /\ Last(list).at \in Nat /\ DueOK(Last(list)) /\ now \in Nat /\ AckTimeout \in Nat
    BY <1>1, LastFacts, BoundsAssumption, PolicyAssumption DEF Times
<1>3. CASE DueAt(list, now)
    BY <1>1, <1>2, <1>3 DEF DueAt, DueOK
<1>4. CASE OverdueAt(list, now)
    BY <1>1, <1>2, <1>4 DEF OverdueAt, DueOK
<1> QED BY <1>3, <1>4

(* The event of an attempt: a retry within the budget, or an end.          *)
LEMMA DispatchFacts ==
    ASSUME NEW n \in Nat \ {0}, NEW outcome \in Outcomes, NEW now \in Times
    PROVE  LET e == DispatchEvent(n, outcome, now)
           IN  /\ e \in Event /\ e.at = now /\ DueOK(e)
               /\ e.kind \in Terminal \cup {"RETRY_SCHEDULED", "DELIVERED"}
               /\ e.kind = "RETRY_SCHEDULED" => n < MaxAttempts
<1>1. now \in Nat /\ AckTimeout \in Nat /\ None \notin Nat /\ MaxAttempts \in Nat
    BY BoundsAssumption, NoneAssumption, PolicyAssumption DEF Times
<1>2. PICK e : e = DispatchEvent(n, outcome, now)
    OBVIOUS
<1>3. CASE outcome = "SENT"
  <2>1. e = Ev("DELIVERED", now, IF RequireAck THEN now + AckTimeout ELSE None)
    BY <1>2, <1>3 DEF DispatchEvent
  <2> QED BY <1>1, <1>2, <2>1 DEF Ev, Event, Kinds, DueOK
<1>4. CASE outcome = "TRANSIENT" /\ n < MaxAttempts
  <2>1. e = Ev("RETRY_SCHEDULED", now, now + RetryDelay(n))
    BY <1>1, <1>2, <1>4 DEF DispatchEvent
  <2>2. 2^(n - 1) \in Nat
    BY <1>1, <1>4, DelayAssumption
  <2>3. RetryDelay(n) \in Nat
    BY <2>2, PolicyAssumption DEF RetryDelay
  <2>4. now + RetryDelay(n) \in Nat /\ now <= now + RetryDelay(n)
    BY <1>1, <2>3
  <2> QED BY <1>1, <1>2, <1>4, <2>1, <2>4 DEF Ev, Event, Kinds, DueOK
<1>5. CASE \/ outcome = "TRANSIENT" /\ ~(n < MaxAttempts)
           \/ outcome = "PERMANENT"
  <2>1. e = Ev("DEAD_LETTERED", now, None)
    BY <1>1, <1>2, <1>5 DEF DispatchEvent
  <2> QED BY <1>2, <2>1 DEF Ev, Event, Kinds, Terminal, DueOK
<1>6. CASE outcome = "DISABLED"
  <2>1. e = Ev("DELIVERY_DISABLED", now, None)
    BY <1>2, <1>6 DEF DispatchEvent
  <2> QED BY <1>2, <2>1 DEF Ev, Event, Kinds, Terminal, DueOK
<1> QED BY <1>3, <1>4, <1>5, <1>6 DEF Outcomes

(* A message that is due has an attempt left, and its outcome is recorded. *)
LEMMA DispatchMessage ==
    ASSUME NEW list, NEW n, NEW t, MessageOK(list, n, t), NEW now \in Times,
           DueAt(list, now), NEW outcome \in Outcomes
    PROVE  MessageOK(Place(list, DispatchEvent(n + 1, outcome, now)), n + 1, t)
<1>1. PICK e : e = DispatchEvent(n + 1, outcome, now)
    OBVIOUS
<1>2. n \in Nat /\ t \in Nat /\ HistoryOK(list) /\ list \in Seq(Event) /\ Sorted(list)
    BY DEF MessageOK, HistoryOK
<1>3. /\ e \in Event /\ e.at = now /\ DueOK(e)
      /\ e.kind \in Terminal \cup {"RETRY_SCHEDULED", "DELIVERED"}
      /\ e.kind = "RETRY_SCHEDULED" => n + 1 < MaxAttempts
  <2>1. n + 1 \in Nat \ {0}
    BY <1>2
  <2> QED BY <1>1, <2>1, DispatchFacts
<1>4. e.kind # "ESCALATED"
    BY <1>3 DEF Terminal
<1>5. list # <<>> /\ Last(list).at <= now /\ ~Finished(list)
    BY <1>2, CalledAfterLast DEF DueAt, Finished
<1>6. PICK g : g = Place(list, e)
    OBVIOUS
<1>7. /\ HistoryOK(g) /\ g # <<>> /\ Last(g) = e
      /\ Finished(g) <=> e.kind \in Terminal
    BY <1>2, <1>3, <1>4, <1>5, <1>6, AppendHistory
<1>8. PICK x : x = Count(list, "ESCALATED")
    OBVIOUS
<1>9. Count(g, "ESCALATED") = x /\ x \in Nat
    BY <1>2, <1>3, <1>4, <1>6, <1>8, PlaceOther
<1>10. n + 1 <= MaxAttempts + x + t /\ x <= MaxEscalations
  <2>1. Scheduled(list)
    BY <1>5 DEF Scheduled, DueAt
  <2> QED BY <1>8, <2>1 DEF MessageOK
<1>11. Scheduled(g) => n + 1 + 1 <= MaxAttempts + x + t
  <2>1. Scheduled(g) => n + 1 < MaxAttempts
    BY <1>3, <1>7 DEF Scheduled
  <2> QED BY <1>2, <1>9, <2>1, PolicyAssumption
<1>12. Finished(g) \/ Movable(g)
  <2>1. CASE e.kind = "RETRY_SCHEDULED"
    BY <1>3, <1>7, <2>1, NoneAssumption DEF Movable, DueOK
  <2>2. CASE e.kind = "DELIVERED"
    <3>1. e.at + AckTimeout \in Nat
      BY <1>3, BoundsAssumption, PolicyAssumption DEF Event, Times
    <3> QED BY <1>3, <1>7, <2>2, <3>1, NoneAssumption DEF Movable, DueOK
  <2> QED BY <1>3, <1>7, <2>1, <2>2
<1>13. n + 1 \in Nat
    BY <1>2
<1> QED BY <1>1, <1>2, <1>6, <1>7, <1>9, <1>10, <1>11, <1>12, <1>13 DEF MessageOK

(* A crash may lose an attempt's outcome, or the attempt too.              *)
LEMMA TornMessage ==
    ASSUME NEW list, NEW n, NEW t, MessageOK(list, n, t)
    PROVE  MessageOK(list, n, t + 1) /\ MessageOK(list, n + 1, t + 1)
<1>1. PICK x : x = Count(list, "ESCALATED")
    OBVIOUS
<1>2. x \in Nat /\ MaxAttempts \in Nat /\ n \in Nat /\ t \in Nat
    BY <1>1, CountType, PolicyAssumption DEF MessageOK, HistoryOK
<1>3. /\ HistoryOK(list) /\ x <= MaxEscalations /\ n <= MaxAttempts + x + t
      /\ Scheduled(list) => n + 1 <= MaxAttempts + x + t
    BY <1>1 DEF MessageOK
<1>4. /\ n + 1 \in Nat /\ t + 1 \in Nat /\ t + 1 > 0
      /\ n <= MaxAttempts + x + (t + 1) /\ n + 1 <= MaxAttempts + x + (t + 1)
      /\ Scheduled(list) => n + 1 + 1 <= MaxAttempts + x + (t + 1)
    BY <1>2, <1>3
<1> QED BY <1>1, <1>2, <1>3, <1>4 DEF MessageOK

(* The first half of an escalation: the level is recorded.                 *)
LEMMA EscalatedHalf ==
    ASSUME NEW list, NEW n, NEW t, MessageOK(list, n, t), NEW now \in Times,
           OverdueAt(list, now), Count(list, "ESCALATED") < MaxEscalations
    PROVE  LET g == Place(list, Ev("ESCALATED", now, None))
           IN  /\ HistoryOK(g) /\ g # <<>>
               /\ Last(g).kind = "ESCALATED" /\ Last(g).at = now
               /\ ~Finished(g)
               /\ Count(g, "ESCALATED") = Count(list, "ESCALATED") + 1
               /\ Count(list, "ESCALATED") \in Nat
<1>1. PICK e : e = Ev("ESCALATED", now, None)
    OBVIOUS
<1>2. e \in Event /\ e.kind = "ESCALATED" /\ e.at = now /\ DueOK(e) /\ e.kind \notin Terminal
    BY <1>1 DEF Ev, Event, Kinds, Terminal, DueOK
<1>3. HistoryOK(list) /\ list \in Seq(Event) /\ Sorted(list)
    BY DEF MessageOK, HistoryOK
<1>4. list # <<>> /\ Last(list).at <= now
    BY <1>3, CalledAfterLast
<1>5. Last(list).kind = "DELIVERED" /\ Last(list).at + AckTimeout <= now
  <2>1. DueOK(Last(list))
    BY <1>3, <1>4, LastFacts
  <2> QED BY <2>1 DEF OverdueAt, DueOK
<1>6. ~Finished(list)
    BY <1>3, <1>5 DEF HistoryOK
<1>7. PICK g : g = Place(list, e)
    OBVIOUS
<1>8. HistoryOK(g) /\ g # <<>> /\ Last(g) = e /\ ~Finished(g)
    BY <1>2, <1>3, <1>4, <1>5, <1>6, <1>7, AppendHistory
<1>9. Count(g, "ESCALATED") = Count(list, "ESCALATED") + 1
    BY <1>2, <1>3, <1>7, PlaceCount
<1>10. Count(list, "ESCALATED") \in Nat
    BY <1>3, CountType
<1> QED BY <1>1, <1>2, <1>7, <1>8, <1>9, <1>10

(* A crash leaves an escalation without its retry.                         *)
LEMMA TornEscalation ==
    ASSUME NEW list, NEW n, NEW t, MessageOK(list, n, t), NEW now \in Times,
           OverdueAt(list, now), Count(list, "ESCALATED") < MaxEscalations
    PROVE  MessageOK(Place(list, Ev("ESCALATED", now, None)), n, t + 1)
<1>1. PICK g, x : g = Place(list, Ev("ESCALATED", now, None)) /\ x = Count(list, "ESCALATED")
    OBVIOUS
<1>2. /\ HistoryOK(g) /\ Last(g).kind = "ESCALATED"
      /\ Count(g, "ESCALATED") = x + 1 /\ x \in Nat
    BY <1>1, EscalatedHalf
<1>3. ~Scheduled(g)
    BY <1>2 DEF Scheduled
<1>4. /\ MaxAttempts \in Nat /\ MaxEscalations \in Nat /\ n \in Nat /\ t \in Nat
      /\ n <= MaxAttempts + x + t /\ x < MaxEscalations
    BY <1>1, PolicyAssumption DEF MessageOK
<1>5. t + 1 \in Nat /\ t + 1 > 0 /\ n <= MaxAttempts + (x + 1) + (t + 1) /\ x + 1 <= MaxEscalations
    BY <1>2, <1>4
<1> QED BY <1>1, <1>2, <1>3, <1>4, <1>5 DEF MessageOK

(* An escalation schedules one more attempt, or ends the message.          *)
LEMMA EscalateMessage ==
    ASSUME NEW list, NEW n, NEW t, MessageOK(list, n, t), NEW now \in Times,
           OverdueAt(list, now)
    PROVE  MessageOK(Escalated(list, now), n, t)
<1>1. HistoryOK(list) /\ list \in Seq(Event) /\ Sorted(list) /\ n \in Nat /\ t \in Nat
    BY DEF MessageOK, HistoryOK
<1>2. PICK x : x = Count(list, "ESCALATED")
    OBVIOUS
<1>3. /\ x \in Nat /\ MaxEscalations \in Nat /\ MaxAttempts \in Nat /\ now \in Nat
      /\ x <= MaxEscalations /\ n <= MaxAttempts + x + t
  <2>1. Count(list, "ESCALATED") \in Nat
    BY <1>1, CountType
  <2> QED BY <1>2, <2>1, PolicyAssumption, BoundsAssumption DEF MessageOK, Times
<1>4. CASE x >= MaxEscalations
  <2>1. CASE Has(list, "DEAD_LETTERED")
    BY <1>2, <1>4, <2>1 DEF Escalated
  <2>2. CASE ~Has(list, "DEAD_LETTERED")
    <3>1. PICK e : e = Ev("DEAD_LETTERED", now, None)
      OBVIOUS
    <3>2. e \in Event /\ e.kind = "DEAD_LETTERED" /\ e.at = now /\ DueOK(e)
      BY <3>1 DEF Ev, Event, Kinds, Terminal, DueOK
    <3>3. PICK g : g = Place(list, e)
      OBVIOUS
    <3>4. Escalated(list, now) = g
      BY <1>2, <1>4, <2>2, <3>1, <3>3 DEF Escalated
    <3>5. list # <<>> /\ Last(list).at <= now
      BY <1>1, CalledAfterLast
    <3>6. HistoryOK(g) /\ Finished(g)
      BY <1>1, <3>2, <3>3, <3>5, AppendHistory DEF Terminal
    <3>7. Count(g, "ESCALATED") = x
      BY <1>1, <1>2, <1>3, <3>2, <3>3, PlaceCount
    <3>8. ~Scheduled(g)
      BY <3>6 DEF Scheduled
    <3> QED BY <1>1, <1>3, <3>4, <3>6, <3>7, <3>8 DEF MessageOK
  <2> QED BY <2>1, <2>2
<1>5. CASE ~(x >= MaxEscalations)
  <2>1. PICK g : g = Place(list, Ev("ESCALATED", now, None))
    OBVIOUS
  <2>2. /\ HistoryOK(g) /\ g # <<>> /\ Last(g).at = now /\ ~Finished(g)
        /\ Count(g, "ESCALATED") = x + 1
    <3>1. x < MaxEscalations
      BY <1>3, <1>5
    <3> QED BY <1>2, <2>1, <3>1, EscalatedHalf
  <2>3. PICK e : e = Ev("RETRY_SCHEDULED", now, now)
    OBVIOUS
  <2>4. /\ e \in Event /\ e.kind = "RETRY_SCHEDULED" /\ e.at = now /\ e.due = now /\ DueOK(e)
        /\ e.kind \notin Terminal
    BY <1>3, <2>3 DEF Ev, Event, Kinds, Terminal, DueOK
  <2>5. PICK h : h = Place(g, e)
    OBVIOUS
  <2>6. Escalated(list, now) = h
    BY <1>2, <1>5, <2>1, <2>3, <2>5 DEF Escalated
  <2>7. HistoryOK(h) /\ h # <<>> /\ Last(h) = e
    BY <1>3, <2>2, <2>4, <2>5, AppendHistory
  <2>8. Count(h, "ESCALATED") = x + 1
    <3>1. g \in Seq(Event) /\ Sorted(g)
      BY <2>2 DEF HistoryOK
    <3> QED BY <1>3, <2>2, <2>4, <2>5, <3>1, PlaceCount
  <2>9. Movable(h)
    BY <1>3, <2>4, <2>7, NoneAssumption DEF Movable
  <2>10. /\ x + 1 <= MaxEscalations
         /\ n <= MaxAttempts + (x + 1) + t /\ n + 1 <= MaxAttempts + (x + 1) + t
    BY <1>1, <1>3, <1>5
  <2> QED BY <1>1, <2>6, <2>7, <2>8, <2>9, <2>10 DEF MessageOK
<1> QED BY <1>4, <1>5

(* An acknowledgment ends the message.                                     *)
LEMMA AcknowledgeMessage ==
    ASSUME NEW list, NEW n, NEW t, MessageOK(list, n, t), NEW now \in Times,
           \A k \in DOMAIN list : list[k].kind = "DELIVERED" => list[k].at <= now
    PROVE  MessageOK(Place(list, Ev("ACKNOWLEDGED", now, None)), n, t)
<1>1. PICK e : e = Ev("ACKNOWLEDGED", now, None)
    OBVIOUS
<1>2. PICK g : g = Place(list, e)
    OBVIOUS
<1>3. HistoryOK(list) /\ list \in Seq(Event) /\ Sorted(list)
    BY DEF MessageOK, HistoryOK
<1>4. e \in Event /\ e.kind = "ACKNOWLEDGED" /\ HistoryOK(g) /\ Finished(g)
    BY <1>1, <1>2, <1>3, AckHistory
<1>5. Count(g, "ESCALATED") = Count(list, "ESCALATED")
  <2>1. e.kind # "ESCALATED"
    BY <1>4
  <2> QED BY <1>2, <1>3, <1>4, <2>1, PlaceOther
<1>6. ~Scheduled(g)
    BY <1>4 DEF Scheduled
<1> QED BY <1>1, <1>2, <1>4, <1>5, <1>6 DEF MessageOK

(* The empty history.                                                      *)
LEMMA EmptyHistory ==
    HistoryOK(<<>>) /\ Count(<<>>, "ESCALATED") = 0 /\ ~Finished(<<>>)
<1>1. <<>> \in Seq(Event) /\ DOMAIN <<>> = {}
    OBVIOUS
<1>2. HistoryOK(<<>>) /\ ~Finished(<<>>)
    BY <1>1 DEF HistoryOK, Sorted, Finished
<1>3. {k \in DOMAIN <<>> : <<>>[k].kind = "ESCALATED"} = {}
    BY <1>1
<1>4. Count(<<>>, "ESCALATED") = 0
    BY <1>3, FS_EmptySet DEF Count
<1> QED BY <1>2, <1>4

(* A message is stored with its first event, or a crash loses that event.  *)
LEMMA FirstMessage ==
    ASSUME NEW t \in Nat, NEW at \in Times,
           NEW kind \in {"SUPPRESSED", "DELIVERY_DISABLED", "ENQUEUED"}
    PROVE  /\ MessageOK(Place(<<>>, Ev(kind, at, None)), 0, t)
           /\ MessageOK(<<>>, 0, t + 1)
<1>1. PICK e : e = Ev(kind, at, None)
    OBVIOUS
<1>2. /\ e \in Event /\ e.kind = kind /\ DueOK(e) /\ e.kind \notin {"ESCALATED", "DELIVERED"}
      /\ kind # "ENQUEUED" => e.kind \in Terminal
    BY <1>1 DEF Ev, Event, Kinds, Terminal, DueOK
<1>3. HistoryOK(<<>>) /\ <<>> \in Seq(Event) /\ Sorted(<<>>) /\ Count(<<>>, "ESCALATED") = 0
    BY EmptyHistory DEF HistoryOK
<1>4. PICK g : g = Place(<<>>, e)
    OBVIOUS
<1>5. /\ HistoryOK(g) /\ g # <<>> /\ Last(g) = e
      /\ e.kind \in Terminal => Finished(g)
    BY <1>2, <1>3, <1>4, EmptyHistory, AppendHistory
<1>6. Count(g, "ESCALATED") = 0
    BY <1>2, <1>3, <1>4, PlaceOther
<1>7. /\ 0 <= MaxEscalations /\ 0 + 1 <= MaxAttempts + 0 + t /\ 0 <= MaxAttempts + 0 + t
      /\ t + 1 \in Nat /\ t + 1 > 0 /\ 0 <= MaxAttempts + 0 + (t + 1)
    BY PolicyAssumption
<1>8. Finished(g) \/ Movable(g)
    BY <1>2, <1>5 DEF Movable
<1>9. MessageOK(g, 0, t)
    BY <1>5, <1>6, <1>7, <1>8 DEF MessageOK
<1>10. MessageOK(<<>>, 0, t + 1)
    BY <1>3, <1>7 DEF MessageOK, Scheduled
<1> QED BY <1>1, <1>4, <1>9, <1>10

-----------------------------------------------------------------------------
(* The operations.                                                         *)

(* A stored message is as the invariant says.                              *)
LEMMA StoredOK ==
    ASSUME OutboxInv, NEW i \in Stored
    PROVE  i \in Ids /\ messages[i] # None /\ MessageOK(events[i], attempts[i], torn[i])
BY DEF OutboxInv, RowOK, Stored

(* A row that a step leaves alone.                                         *)
LEMMA RowKept ==
    ASSUME NEW i, RowOK(i), messages'[i] = messages[i], events'[i] = events[i],
           attempts'[i] = attempts[i], torn'[i] = torn[i]
    PROVE  RowOK(i)'
BY DEF RowOK

(* A sound row of a stored message.                                        *)
LEMMA RowStored ==
    ASSUME NEW i, messages'[i] # None, MessageOK(events'[i], attempts'[i], torn'[i])
    PROVE  RowOK(i)'
BY DEF RowOK

(* enqueue.                                                                *)
LEMMA EnqueueKeeps == ASSUME OutboxInv, NEW msg \in Message, Enqueue(msg) PROVE OutboxInv'
<1>1. /\ UNCHANGED <<attempts, enabled, torn>>
      /\ msg.id \in Ids /\ msg.createdAt \in Times /\ msg # None
    BY NoneAssumption DEF Enqueue, Message
<1>2. CASE messages[msg.id] # None
  <2>1. UNCHANGED <<messages, events>>
    BY <1>2 DEF Enqueue
  <2>2. Rows' /\ \A i \in Ids : RowOK(i)'
    BY <1>1, <2>1, RowKept DEF OutboxInv, Rows
  <2> QED BY <2>2 DEF OutboxInv
<1>3. CASE messages[msg.id] = None
  <2>1. PICK list : list = Place(events[msg.id], Ev(FirstEvent(msg), msg.createdAt, None))
    OBVIOUS
  <2>2. /\ messages' = [messages EXCEPT ![msg.id] = msg]
        /\ events' = [events EXCEPT ![msg.id] = list]
    BY <1>3, <2>1 DEF Enqueue
  <2>3. Unused(events[msg.id], attempts[msg.id], torn[msg.id])
    BY <1>1, <1>3 DEF OutboxInv, RowOK
  <2>4. FirstEvent(msg) \in {"SUPPRESSED", "DELIVERY_DISABLED", "ENQUEUED"}
    BY DEF FirstEvent
  <2>5. MessageOK(list, attempts[msg.id], torn[msg.id])
    BY <1>1, <2>1, <2>3, <2>4, FirstMessage DEF Unused
  <2>6. messages'[msg.id] = msg /\ events'[msg.id] = list
    BY <1>1, <2>2 DEF OutboxInv, Rows
  <2>7. RowOK(msg.id)'
    BY <1>1, <2>5, <2>6, RowStored
  <2>8. ASSUME NEW i \in Ids, i # msg.id PROVE RowOK(i)'
    <3>1. messages'[i] = messages[i] /\ events'[i] = events[i]
      BY <2>2, <2>8 DEF OutboxInv, Rows
    <3> QED BY <1>1, <3>1, RowKept DEF OutboxInv
  <2>9. Rows'
    BY <1>1, <2>2 DEF OutboxInv, Rows
  <2> QED BY <2>7, <2>8, <2>9 DEF OutboxInv
<1> QED BY <1>2, <1>3

(* enqueue dies between the message and its event.                         *)
LEMMA EnqueueCrashKeeps ==
    ASSUME OutboxInv, NEW msg \in Message, EnqueueCrash(msg) PROVE OutboxInv'
<1>1. /\ UNCHANGED <<events, attempts, enabled>>
      /\ msg.id \in Ids /\ msg # None /\ messages[msg.id] = None
      /\ messages' = [messages EXCEPT ![msg.id] = msg]
      /\ torn' = [torn EXCEPT ![msg.id] = torn[msg.id] + 1]
    BY NoneAssumption DEF EnqueueCrash, Torn, Message
<1>2. Unused(events[msg.id], attempts[msg.id], torn[msg.id])
    BY <1>1 DEF OutboxInv, RowOK
<1>3. MessageOK(events[msg.id], attempts[msg.id], torn[msg.id] + 1)
  <2>1. torn[msg.id] \in Nat /\ 0 \in Times
    BY <1>2, BoundsAssumption DEF Unused, Times
  <2> QED BY <1>2, <2>1, FirstMessage DEF Unused
<1>4. messages'[msg.id] = msg /\ torn'[msg.id] = torn[msg.id] + 1
    BY <1>1 DEF OutboxInv, Rows
<1>5. RowOK(msg.id)'
    BY <1>1, <1>3, <1>4, RowStored
<1>6. ASSUME NEW i \in Ids, i # msg.id PROVE RowOK(i)'
  <2>1. messages'[i] = messages[i] /\ torn'[i] = torn[i]
    BY <1>1, <1>6 DEF OutboxInv, Rows
  <2> QED BY <1>1, <2>1, RowKept DEF OutboxInv
<1>7. Rows'
    BY <1>1 DEF OutboxInv, Rows
<1> QED BY <1>5, <1>6, <1>7 DEF OutboxInv

(* _is_due and the condition of escalate_due look at the list alone.       *)
LEMMA ConditionsOfList ==
    ASSUME NEW i, NEW now
    PROVE  (IsDue(i, now) <=> DueAt(events[i], now)) /\ (AckOverdue(i, now) <=> OverdueAt(events[i], now))
BY DEF IsDue, DueAt, AckOverdue, OverdueAt

(* dispatch_due.                                                           *)
LEMMA DispatchDueKeeps ==
    ASSUME OutboxInv, NEW now \in Times, DispatchDue(now) PROVE OutboxInv'
<1>1. PICK due : due = {i \in Stored : IsDue(i, now)}
    OBVIOUS
<1>2. PICK result \in [due -> Results] :
          events' = [i \in Ids |->
              IF i \in due THEN Place(events[i], DispatchEvent(attempts[i] + 1, result[i], now))
              ELSE events[i]]
    BY <1>1 DEF DispatchDue
<1>3. /\ attempts' = [i \in Ids |-> IF i \in due THEN attempts[i] + 1 ELSE attempts[i]]
      /\ UNCHANGED <<messages, enabled, torn>>
    BY <1>1 DEF DispatchDue
<1>4. ASSUME NEW i \in Ids, i \in due PROVE RowOK(i)'
  <2>1. i \in Stored /\ DueAt(events[i], now)
    BY <1>1, <1>4, ConditionsOfList
  <2>2. messages[i] # None /\ MessageOK(events[i], attempts[i], torn[i])
    BY <2>1, StoredOK
  <2>3. result[i] \in Outcomes
    BY <1>2, <1>4 DEF Results, Outcomes
  <2>4. MessageOK(Place(events[i], DispatchEvent(attempts[i] + 1, result[i], now)),
                  attempts[i] + 1, torn[i])
    BY <2>1, <2>2, <2>3, DispatchMessage
  <2>5. /\ events'[i] = Place(events[i], DispatchEvent(attempts[i] + 1, result[i], now))
        /\ attempts'[i] = attempts[i] + 1 /\ torn'[i] = torn[i] /\ messages'[i] = messages[i]
    BY <1>2, <1>3, <1>4
  <2> QED BY <2>2, <2>4, <2>5, RowStored
<1>5. ASSUME NEW i \in Ids, i \notin due PROVE RowOK(i)'
  <2>1. /\ events'[i] = events[i] /\ attempts'[i] = attempts[i]
        /\ torn'[i] = torn[i] /\ messages'[i] = messages[i]
    BY <1>2, <1>3, <1>5
  <2> QED BY <2>1, RowKept DEF OutboxInv
<1>6. Rows'
    BY <1>2, <1>3 DEF OutboxInv, Rows
<1> QED BY <1>4, <1>5, <1>6 DEF OutboxInv

(* acknowledge.                                                            *)
LEMMA AcknowledgeKeeps ==
    ASSUME OutboxInv, NEW now \in Times, NEW i \in Ids, Acknowledge(i, now) PROVE OutboxInv'
<1>1. /\ UNCHANGED <<messages, attempts, enabled, torn>>
      /\ messages[i] # None
      /\ \A k \in DOMAIN events[i] : events[i][k].kind = "DELIVERED" => events[i][k].at <= now
    BY DEF Acknowledge, MayAcknowledge
<1>2. CASE events' = events
  <2>1. Rows' /\ \A j \in Ids : RowOK(j)'
    BY <1>1, <1>2, RowKept DEF OutboxInv, Rows
  <2> QED BY <2>1 DEF OutboxInv
<1>3. PICK list : list = Place(events[i], Ev("ACKNOWLEDGED", now, None))
    OBVIOUS
<1>4. CASE events' = [events EXCEPT ![i] = list]
  <2>1. MessageOK(list, attempts[i], torn[i])
    BY <1>1, <1>3, AcknowledgeMessage DEF OutboxInv, RowOK
  <2>2. events'[i] = list
    BY <1>4 DEF OutboxInv, Rows
  <2>3. RowOK(i)'
    BY <1>1, <2>1, <2>2, RowStored
  <2>4. ASSUME NEW j \in Ids, j # i PROVE RowOK(j)'
    <3>1. events'[j] = events[j]
      BY <1>4, <2>4 DEF OutboxInv, Rows
    <3> QED BY <1>1, <3>1, RowKept DEF OutboxInv
  <2>5. Rows'
    BY <1>1, <1>4 DEF OutboxInv, Rows
  <2> QED BY <2>3, <2>4, <2>5 DEF OutboxInv
<1> QED BY <1>2, <1>3, <1>4 DEF Acknowledge

(* escalate_due.                                                           *)
LEMMA EscalateDueKeeps ==
    ASSUME OutboxInv, NEW now \in Times, EscalateDue(now) PROVE OutboxInv'
<1>1. /\ events' = [i \in Ids |->
            IF i \in Stored /\ AckOverdue(i, now) THEN Escalated(events[i], now) ELSE events[i]]
      /\ UNCHANGED <<messages, attempts, enabled, torn>>
    BY DEF EscalateDue
<1>2. ASSUME NEW i \in Ids, i \in Stored, AckOverdue(i, now) PROVE RowOK(i)'
  <2>1. messages[i] # None /\ MessageOK(events[i], attempts[i], torn[i]) /\ OverdueAt(events[i], now)
    BY <1>2, StoredOK, ConditionsOfList
  <2>2. MessageOK(Escalated(events[i], now), attempts[i], torn[i])
    BY <2>1, EscalateMessage
  <2>3. events'[i] = Escalated(events[i], now)
    BY <1>1, <1>2
  <2> QED BY <1>1, <2>1, <2>2, <2>3, RowStored
<1>3. ASSUME NEW i \in Ids, ~(i \in Stored /\ AckOverdue(i, now)) PROVE RowOK(i)'
  <2>1. events'[i] = events[i]
    BY <1>1, <1>3
  <2> QED BY <1>1, <2>1, RowKept DEF OutboxInv
<1>4. Rows'
    BY <1>1 DEF OutboxInv, Rows
<1> QED BY <1>2, <1>3, <1>4 DEF OutboxInv

(* dispatch_due dies at message i.                                         *)
LEMMA DispatchCrashKeeps ==
    ASSUME OutboxInv, NEW now \in Times, NEW i \in Ids, NEW recorded \in BOOLEAN,
           DispatchCrash(now, i, recorded)
    PROVE  OutboxInv'
<1>1. PICK due : due = {j \in Stored : IsDue(j, now)}
    OBVIOUS
<1>2. PICK done : done = due \cap Before(i)
    OBVIOUS
<1>3. PICK result \in [done -> Results] :
          events' = [j \in Ids |->
              IF j \in done THEN Place(events[j], DispatchEvent(attempts[j] + 1, result[j], now))
              ELSE events[j]]
    BY <1>1, <1>2 DEF DispatchCrash
<1>4. /\ attempts' = [j \in Ids |->
            IF j \in done \/ (j = i /\ recorded) THEN attempts[j] + 1 ELSE attempts[j]]
      /\ torn' = [torn EXCEPT ![i] = torn[i] + 1]
      /\ UNCHANGED <<messages, enabled>>
      /\ i \in Stored
    BY <1>1, <1>2 DEF DispatchCrash, Torn
<1>5. i \notin done
    BY <1>2 DEF Before
<1>6. ASSUME NEW j \in Ids, j \in done PROVE RowOK(j)'
  <2>1. j \in Stored /\ DueAt(events[j], now) /\ j # i
    BY <1>1, <1>2, <1>5, <1>6, ConditionsOfList
  <2>2. messages[j] # None /\ MessageOK(events[j], attempts[j], torn[j])
    BY <2>1, StoredOK
  <2>3. result[j] \in Outcomes
    BY <1>3, <1>6 DEF Results, Outcomes
  <2>4. MessageOK(Place(events[j], DispatchEvent(attempts[j] + 1, result[j], now)),
                  attempts[j] + 1, torn[j])
    BY <2>1, <2>2, <2>3, DispatchMessage
  <2>5. /\ events'[j] = Place(events[j], DispatchEvent(attempts[j] + 1, result[j], now))
        /\ attempts'[j] = attempts[j] + 1 /\ torn'[j] = torn[j] /\ messages'[j] = messages[j]
    BY <1>3, <1>4, <1>6, <2>1 DEF OutboxInv, Rows
  <2> QED BY <2>2, <2>4, <2>5, RowStored
<1>7. RowOK(i)'
  <2>1. messages[i] # None /\ MessageOK(events[i], attempts[i], torn[i])
    BY <1>4, StoredOK
  <2>2. /\ events'[i] = events[i] /\ messages'[i] = messages[i] /\ torn'[i] = torn[i] + 1
        /\ attempts'[i] = attempts[i] \/ attempts'[i] = attempts[i] + 1
    BY <1>3, <1>4, <1>5 DEF OutboxInv, Rows
  <2>3. MessageOK(events[i], attempts'[i], torn[i] + 1)
    BY <2>1, <2>2, TornMessage
  <2> QED BY <2>1, <2>2, <2>3, RowStored
<1>8. ASSUME NEW j \in Ids, j \notin done, j # i PROVE RowOK(j)'
  <2>1. /\ events'[j] = events[j] /\ attempts'[j] = attempts[j]
        /\ torn'[j] = torn[j] /\ messages'[j] = messages[j]
    BY <1>3, <1>4, <1>8 DEF OutboxInv, Rows
  <2> QED BY <2>1, RowKept DEF OutboxInv
<1>9. Rows'
    BY <1>3, <1>4 DEF OutboxInv, Rows
<1> QED BY <1>6, <1>7, <1>8, <1>9 DEF OutboxInv

(* escalate_due dies at message i.                                         *)
LEMMA EscalateCrashKeeps ==
    ASSUME OutboxInv, NEW now \in Times, NEW i \in Ids, NEW recorded \in BOOLEAN,
           EscalateCrash(now, i, recorded)
    PROVE  OutboxInv'
<1>1. /\ events' = [j \in Ids |->
            IF j = i
            THEN IF recorded THEN Place(events[j], Ev("ESCALATED", now, None)) ELSE events[j]
            ELSE IF j \in Before(i) /\ AckOverdue(j, now) THEN Escalated(events[j], now)
            ELSE events[j]]
      /\ torn' = [torn EXCEPT ![i] = torn[i] + 1]
      /\ UNCHANGED <<messages, attempts, enabled>>
      /\ i \in Stored /\ AckOverdue(i, now)
      /\ recorded => Count(events[i], "ESCALATED") < MaxEscalations
    BY DEF EscalateCrash, Torn
<1>2. RowOK(i)'
  <2>1. messages[i] # None /\ MessageOK(events[i], attempts[i], torn[i]) /\ OverdueAt(events[i], now)
    BY <1>1, StoredOK, ConditionsOfList
  <2>2. /\ torn'[i] = torn[i] + 1
        /\ events'[i] = IF recorded THEN Place(events[i], Ev("ESCALATED", now, None)) ELSE events[i]
    BY <1>1 DEF OutboxInv, Rows
  <2>3. MessageOK(events'[i], attempts[i], torn[i] + 1)
    BY <1>1, <2>1, <2>2, TornEscalation, TornMessage
  <2> QED BY <1>1, <2>1, <2>2, <2>3, RowStored
<1>3. ASSUME NEW j \in Ids, j # i, j \in Before(i), AckOverdue(j, now) PROVE RowOK(j)'
  <2>1. messages[j] # None /\ MessageOK(events[j], attempts[j], torn[j]) /\ OverdueAt(events[j], now)
    BY <1>3, StoredOK, ConditionsOfList DEF Before
  <2>2. MessageOK(Escalated(events[j], now), attempts[j], torn[j])
    BY <2>1, EscalateMessage
  <2>3. events'[j] = Escalated(events[j], now) /\ torn'[j] = torn[j]
    BY <1>1, <1>3 DEF OutboxInv, Rows
  <2> QED BY <1>1, <2>1, <2>2, <2>3, RowStored
<1>4. ASSUME NEW j \in Ids, j # i, ~(j \in Before(i) /\ AckOverdue(j, now)) PROVE RowOK(j)'
  <2>1. events'[j] = events[j] /\ torn'[j] = torn[j]
    BY <1>1, <1>4 DEF OutboxInv, Rows
  <2> QED BY <1>1, <2>1, RowKept DEF OutboxInv
<1>5. Rows'
    BY <1>1 DEF OutboxInv, Rows
<1> QED BY <1>2, <1>3, <1>4, <1>5 DEF OutboxInv

(* Steps that leave the store alone: restarts and stuttering.              *)
LEMMA StoreKept ==
    ASSUME OutboxInv, UNCHANGED <<messages, events, attempts, torn>>, enabled' \in BOOLEAN
    PROVE  OutboxInv'
<1>1. Rows' /\ \A i \in Ids : RowOK(i)'
    BY RowKept DEF OutboxInv, Rows
<1> QED BY <1>1 DEF OutboxInv

(* The invariant holds at the start.                                       *)
LEMMA OutboxInvInit == Init => OutboxInv
<1> SUFFICES ASSUME Init PROVE OutboxInv
    OBVIOUS
<1>1. Rows
    BY DEF Init, Rows
<1>2. \A i \in Ids : RowOK(i)
    BY DEF Init, RowOK, Unused
<1> QED BY <1>1, <1>2 DEF OutboxInv

(* Every step keeps the invariant.                                         *)
LEMMA OutboxInvKept == ASSUME OutboxInv, [Next]_vars PROVE OutboxInv'
<1>1. CASE UNCHANGED vars
    BY <1>1, StoreKept DEF vars, OutboxInv, Rows
<1>2. ASSUME NEW msg \in Message, Enqueue(msg) \/ EnqueueCrash(msg) PROVE OutboxInv'
    BY <1>2, EnqueueKeeps, EnqueueCrashKeeps
<1>3. ASSUME NEW now \in Times, DispatchDue(now) \/ EscalateDue(now) PROVE OutboxInv'
    BY <1>3, DispatchDueKeeps, EscalateDueKeeps
<1>4. ASSUME NEW now \in Times, NEW i \in Ids, Acknowledge(i, now) PROVE OutboxInv'
    BY <1>4, AcknowledgeKeeps
<1>5. ASSUME NEW now \in Times, NEW i \in Ids, NEW recorded \in BOOLEAN,
             DispatchCrash(now, i, recorded) \/ EscalateCrash(now, i, recorded)
      PROVE  OutboxInv'
    BY <1>5, DispatchCrashKeeps, EscalateCrashKeeps
<1>6. CASE Restart
    BY <1>6, StoreKept DEF Restart
<1> QED BY <1>1, <1>2, <1>3, <1>4, <1>5, <1>6 DEF Next

(* The invariant of the outbox holds in every behaviour.                   *)
THEOREM OutboxInvariance == Spec => []OutboxInv
<1>1. Init => OutboxInv
    BY OutboxInvInit
<1>2. OutboxInv /\ [Next]_vars => OutboxInv'
    BY OutboxInvKept
<1> QED BY <1>1, <1>2, PTL DEF Spec

-----------------------------------------------------------------------------
(* What the invariant says of a message.                                   *)

(* Retries and escalations together never send a message more often than   *)
(* max_attempts + max_escalations times, one more for each attempt whose   *)
(* outcome a crash lost (dispatch_due, escalate_due).                      *)
THEOREM AttemptsStayInBudget == Spec => []AttemptBudget
<1>1. OutboxInv => AttemptBudget
  <2> SUFFICES ASSUME OutboxInv, NEW i \in Ids
               PROVE  /\ Count(events[i], "ESCALATED") <= MaxEscalations
                      /\ attempts[i] <= MaxAttempts + Count(events[i], "ESCALATED") + torn[i]
    BY DEF AttemptBudget
  <2>1. CASE messages[i] = None
    <3>1. Unused(events[i], attempts[i], torn[i])
      BY <2>1 DEF OutboxInv, RowOK
    <3> QED BY <3>1, EmptyHistory, PolicyAssumption DEF Unused
  <2>2. CASE messages[i] # None
    BY <2>2 DEF OutboxInv, RowOK, MessageOK
  <2> QED BY <2>1, <2>2
<1> QED BY <1>1, OutboxInvariance, PTL

(* A message that has not ended can still be moved by some later call,     *)
(* unless a crash cut an operation on it short (_is_due, escalate_due).    *)
THEOREM NoMessageIsStuck == Spec => []NeverStuck
<1>1. OutboxInv => NeverStuck
  <2> SUFFICES ASSUME OutboxInv, NEW i \in Stored
               PROVE  torn[i] > 0 \/ Finished(events[i]) \/ Movable(events[i])
    BY DEF NeverStuck, Finished, Movable
  <2> QED BY StoredOK DEF MessageOK
<1> QED BY <1>1, OutboxInvariance, PTL

(* A recipient gets the full acknowledgment timeout before every           *)
(* escalation, in whatever order the calls' times come (escalate_due).     *)
THEOREM EscalationsArePaced == Spec => []EscalationPacing
<1>1. OutboxInv => EscalationPacing
  <2> SUFFICES ASSUME OutboxInv, NEW i \in Ids, NEW k \in DOMAIN events[i]
               PROVE  PacedAt(events[i], k)
    BY DEF EscalationPacing, PacedAt
  <2>1. HistoryOK(events[i])
    BY EmptyHistory DEF OutboxInv, RowOK, Unused, MessageOK
  <2> QED BY <2>1 DEF HistoryOK
<1> QED BY <1>1, OutboxInvariance, PTL

(* An ended message is neither due nor overdue.                            *)
LEMMA FinishedIsQuiet ==
    ASSUME OutboxInv, NEW i \in Ids, Finished(events[i]), NEW now
    PROVE  ~IsDue(i, now) /\ ~AckOverdue(i, now) /\ messages[i] # None
<1>1. messages[i] # None
    BY EmptyHistory DEF OutboxInv, RowOK, Unused
<1>2. HistoryOK(events[i])
    BY <1>1 DEF OutboxInv, RowOK, MessageOK
<1>3. ~DueAt(events[i], now)
    BY DEF DueAt, Finished
<1>4. ~OverdueAt(events[i], now)
    BY <1>2 DEF OverdueAt, HistoryOK
<1> QED BY <1>1, <1>3, <1>4, ConditionsOfList

(* A step leaves an ended message alone, or acknowledges it.               *)
LEMMA FinishedStep ==
    ASSUME OutboxInv, [Next]_vars, NEW i \in Ids, Finished(events[i])
    PROVE  /\ attempts'[i] = attempts[i]
           /\ \/ events'[i] = events[i]
              \/ \E now \in Times :
                    events'[i] = Place(events[i], Ev("ACKNOWLEDGED", now, None))
<1>1. messages[i] # None /\ \A now \in Times : ~IsDue(i, now) /\ ~AckOverdue(i, now)
    BY FinishedIsQuiet, BoundsAssumption DEF Times
<1>2. events = [j \in Ids |-> events[j]]
    BY DEF OutboxInv, Rows
<1>3. CASE UNCHANGED vars
    BY <1>3 DEF vars
<1>4. ASSUME NEW msg \in Message, Enqueue(msg) \/ EnqueueCrash(msg)
      PROVE  attempts'[i] = attempts[i] /\ events'[i] = events[i]
    BY <1>1, <1>2, <1>4 DEF Enqueue, EnqueueCrash, Torn
<1>5. ASSUME NEW now \in Times, DispatchDue(now) \/ EscalateDue(now)
      PROVE  attempts'[i] = attempts[i] /\ events'[i] = events[i]
  <2>1. CASE DispatchDue(now)
    <3>1. i \notin {j \in Stored : IsDue(j, now)}
      BY <1>1
    <3> QED BY <2>1, <3>1 DEF DispatchDue
  <2>2. CASE EscalateDue(now)
    BY <1>1, <2>2 DEF EscalateDue
  <2> QED BY <1>5, <2>1, <2>2
<1>6. ASSUME NEW now \in Times, NEW j \in Ids, Acknowledge(j, now)
      PROVE  /\ attempts'[i] = attempts[i]
             /\ \/ events'[i] = events[i]
                \/ events'[i] = Place(events[i], Ev("ACKNOWLEDGED", now, None))
    BY <1>2, <1>6 DEF Acknowledge
<1>7. ASSUME NEW now \in Times, NEW j \in Ids, NEW recorded \in BOOLEAN,
             DispatchCrash(now, j, recorded) \/ EscalateCrash(now, j, recorded)
      PROVE  attempts'[i] = attempts[i] /\ events'[i] = events[i]
  <2>1. CASE DispatchCrash(now, j, recorded)
    <3>1. PICK due : due = {x \in Stored : IsDue(x, now)}
      OBVIOUS
    <3>2. i \notin due /\ j \in due /\ i \notin due \cap Before(j) /\ i # j
      BY <1>1, <2>1, <3>1 DEF DispatchCrash
    <3> QED BY <2>1, <3>1, <3>2 DEF DispatchCrash
  <2>2. CASE EscalateCrash(now, j, recorded)
    BY <1>1, <2>2 DEF EscalateCrash
  <2> QED BY <1>7, <2>1, <2>2
<1>8. CASE Restart
    BY <1>8 DEF Restart
<1> QED BY <1>3, <1>4, <1>5, <1>6, <1>7, <1>8 DEF Next

(* Once a message has ended it is never attempted or escalated again, not  *)
(* even by a call with an earlier time (_is_due, escalate_due).            *)
THEOREM EndsAreFinal == Spec => TerminalIsFinal
<1>1. ASSUME OutboxInv, [Next]_vars
      PROVE  [ \A i \in Ids :
                 (\E k \in DOMAIN events[i] : events[i][k].kind \in Terminal) =>
                     /\ attempts'[i] = attempts[i]
                     /\ \A kind \in Kinds \ {"ACKNOWLEDGED"} :
                           Count(events'[i], kind) = Count(events[i], kind) ]_vars
  <2> SUFFICES ASSUME NEW i \in Ids, Finished(events[i])
               PROVE  /\ attempts'[i] = attempts[i]
                      /\ \A kind \in Kinds \ {"ACKNOWLEDGED"} :
                            Count(events'[i], kind) = Count(events[i], kind)
    BY DEF Finished
  <2>1. /\ attempts'[i] = attempts[i]
        /\ \/ events'[i] = events[i]
           \/ \E now \in Times : events'[i] = Place(events[i], Ev("ACKNOWLEDGED", now, None))
    BY <1>1, FinishedStep
  <2>2. ASSUME NEW now \in Times, NEW kind \in Kinds \ {"ACKNOWLEDGED"},
               events'[i] = Place(events[i], Ev("ACKNOWLEDGED", now, None))
        PROVE  Count(events'[i], kind) = Count(events[i], kind)
    <3>1. PICK e : e = Ev("ACKNOWLEDGED", now, None)
      OBVIOUS
    <3>2. e \in Event /\ e.kind # kind
      BY <3>1 DEF Ev, Event, Kinds, Terminal
    <3>3. events[i] \in Seq(Event) /\ Sorted(events[i])
      BY <1>1, EmptyHistory DEF OutboxInv, RowOK, Unused, MessageOK, HistoryOK
    <3> QED BY <2>2, <3>1, <3>2, <3>3, PlaceOther
  <2> QED BY <2>1, <2>2
<1> QED BY <1>1, OutboxInvariance, PTL DEF Spec, TerminalIsFinal

-----------------------------------------------------------------------------
(* The cooldown.                                                           *)

(* Every nonempty set of numbers has a least one.                          *)
LEMMA LeastNumber ==
    ASSUME NEW T \in SUBSET Nat, T # {}
    PROVE  \E n \in T : \A m \in T : n <= m
<1>1. PICK R : R = OpToRel(<, Nat)
    OBVIOUS
<1>2. IsWellFoundedOn(R, Nat)
    BY <1>1, NatLessThanWellFounded
<1>3. PICK n \in T : \A m \in T : ~(<<m, n>> \in R)
    BY <1>2, WFMin
<1>4. \A x, y \in Nat : <<x, y>> \in R <=> x < y
    BY <1>1 DEF OpToRel
<1>5. \A m \in T : ~(m < n)
    BY <1>3, <1>4
<1> QED BY <1>5

(* A message is stored under its id, and ids do not grow without bound.    *)
StoreOK ==
    /\ messages = [i \in Ids |-> messages[i]]
    /\ \A i \in Stored : messages[i] \in Message /\ messages[i].id = i
    /\ \E bound \in Nat : \A i \in Stored : i <= bound

SpacingInv == StoreOK /\ CooldownSpacing

(* latest_message_for_dedupe finds the message that all others of the key  *)
(* are not after.                                                          *)
LEMMA LatestExists ==
    ASSUME StoreOK, NEW key, SameKey(key) # {}
    PROVE  /\ LatestForDedupe(key) \in SameKey(key)
           /\ \A b \in SameKey(key) : After(LatestForDedupe(key), b)
<1>1. PICK S : S = SameKey(key)
    OBVIOUS
<1>2. PICK bound \in Nat : \A i \in Stored : i <= bound
    BY DEF StoreOK
<1>3. \A a \in S : /\ a.createdAt \in Nat /\ a.createdAt <= MaxTime
                   /\ a.id \in Nat /\ a.id <= bound
  <2> SUFFICES ASSUME NEW i \in Stored
               PROVE  /\ messages[i].createdAt \in Nat /\ messages[i].createdAt <= MaxTime
                      /\ messages[i].id \in Nat /\ messages[i].id <= bound
    BY <1>1 DEF SameKey
  <2>1. messages[i] \in Message /\ messages[i].id = i /\ i \in Nat /\ i <= bound
    BY <1>2, BoundsAssumption DEF StoreOK, Stored
  <2>2. messages[i].createdAt \in 0..MaxTime /\ MaxTime \in Nat
    BY <2>1, BoundsAssumption DEF Message, Times
  <2> QED BY <2>1, <2>2
<1>4. PICK T : T = {MaxTime - a.createdAt : a \in S}
    OBVIOUS
<1>5. T \in SUBSET Nat /\ T # {}
  <2>1. \A a \in S : MaxTime - a.createdAt \in Nat
    BY <1>3, BoundsAssumption
  <2> QED BY <1>1, <1>4, <2>1
<1>6. PICK t \in T : \A u \in T : t <= u
    BY <1>5, LeastNumber
<1>7. PICK c \in S : t = MaxTime - c.createdAt
    BY <1>4, <1>6
<1>8. \A a \in S : a.createdAt <= c.createdAt
  <2> SUFFICES ASSUME NEW a \in S PROVE a.createdAt <= c.createdAt
    OBVIOUS
  <2>1. MaxTime - a.createdAt \in T
    BY <1>4
  <2>2. MaxTime - c.createdAt <= MaxTime - a.createdAt
    BY <1>6, <1>7, <2>1
  <2> QED BY <1>3, <2>2, BoundsAssumption
<1>9. PICK L : L = {a \in S : a.createdAt = c.createdAt}
    OBVIOUS
<1>10. PICK U : U = {bound - a.id : a \in L}
    OBVIOUS
<1>11. U \in SUBSET Nat /\ U # {}
  <2>1. \A a \in L : bound - a.id \in Nat
    BY <1>3, <1>9
  <2>2. c \in L
    BY <1>7, <1>9
  <2> QED BY <1>10, <2>1, <2>2
<1>12. PICK u \in U : \A v \in U : u <= v
    BY <1>11, LeastNumber
<1>13. PICK d \in L : u = bound - d.id
    BY <1>10, <1>12
<1>14. d \in S /\ d.createdAt = c.createdAt
    BY <1>9, <1>13
<1>15. ASSUME NEW b \in S PROVE After(d, b)
  <2>1. b.createdAt <= d.createdAt
    BY <1>8, <1>14, <1>15
  <2>2. CASE b.createdAt = d.createdAt
    <3>1. bound - b.id \in U
      BY <1>9, <1>10, <1>14, <1>15, <2>2
    <3>2. bound - d.id <= bound - b.id
      BY <1>12, <1>13, <3>1
    <3>3. d.id >= b.id
      BY <1>3, <1>14, <1>15, <3>2
    <3> QED BY <2>2, <3>3 DEF After
  <2>3. CASE b.createdAt # d.createdAt
    <3>1. d.createdAt > b.createdAt
      BY <1>3, <1>14, <1>15, <2>1, <2>3
    <3> QED BY <3>1 DEF After
  <2> QED BY <2>2, <2>3
<1>16. \E a \in S : \A b \in S : After(a, b)
    BY <1>14, <1>15
<1>17. LatestForDedupe(key) = CHOOSE a \in S : \A b \in S : After(a, b)
    BY <1>1 DEF LatestForDedupe
<1> QED BY <1>1, <1>16, <1>17

(* A message that is not suppressed comes a cooldown after every stored    *)
(* message of its key.                                                     *)
LEMMA NotSuppressed ==
    ASSUME StoreOK, NEW msg \in Message, messages[msg.id] = None, ~Suppressed(msg),
           NEW i \in Stored, messages[i].key = msg.key
    PROVE  msg.createdAt - messages[i].createdAt >= Cooldown
<1>1. messages[i] \in SameKey(msg.key)
    BY DEF SameKey
<1>2. PICK p : p = LatestForDedupe(msg.key)
    OBVIOUS
<1>3. p \in SameKey(msg.key) /\ After(p, messages[i])
    BY <1>1, <1>2, LatestExists
<1>4. PICK j \in Stored : p = messages[j] /\ messages[j].key = msg.key
    BY <1>3 DEF SameKey
<1>5. p # None /\ p.id # msg.id /\ p \in Message /\ messages[i] \in Message
    BY <1>4 DEF StoreOK, Stored
<1>6. ~(msg.createdAt - p.createdAt < Cooldown)
    BY <1>2, <1>5 DEF Suppressed
<1>7. /\ msg.createdAt \in Nat /\ p.createdAt \in Nat /\ messages[i].createdAt \in Nat
      /\ Cooldown \in Nat
    BY <1>5, BoundsAssumption, PolicyAssumption DEF Message, Times
<1>8. p.createdAt >= messages[i].createdAt
    BY <1>3, <1>7 DEF After
<1> QED BY <1>6, <1>7, <1>8

(* A place in the list shows its kind.                                     *)
LEMMA PlaceHas ==
    ASSUME NEW list \in Seq(Event), Sorted(list), NEW e \in Event, NEW kind, e.kind # kind,
           Has(Place(list, e), kind)
    PROVE  Has(list, kind)
<1>1. PICK g : g = Place(list, e)
    OBVIOUS
<1>2. PICK m : m = Len(list)
    OBVIOUS
<1>3. PICK n \in 0..m : PlacedAt(list, e, g, m, n)
    BY <1>1, <1>2, PlaceInverse
<1>4. m \in Nat /\ DOMAIN list = 1..m
    BY <1>2, LenProperties
<1>5. PICK k \in 1..(m + 1) : g[k].kind = kind
    BY <1>1, <1>3 DEF Has, PlacedAt
<1>6. CASE k <= n
  <2>1. k \in 1..n /\ k \in 1..m
    BY <1>4, <1>6
  <2>2. g[k] = list[k]
    BY <1>3, <2>1 DEF PlacedAt
  <2> QED BY <1>4, <1>5, <2>1, <2>2 DEF Has
<1>7. CASE k = n + 1
    BY <1>3, <1>5, <1>7 DEF PlacedAt
<1>8. CASE k > n + 1
  <2>1. k \in (n + 2)..(m + 1)
    BY <1>4, <1>8
  <2>2. k - 1 \in 1..m /\ g[k] = list[k - 1]
    BY <1>3, <2>1 DEF PlacedAt
  <2> QED BY <1>4, <1>5, <2>2 DEF Has
<1>9. k <= n \/ k = n + 1 \/ k > n + 1
    BY <1>4
<1> QED BY <1>6, <1>7, <1>8, <1>9

(* Neither an attempt nor an escalation enqueues or acknowledges.          *)
CallerKinds == {"ENQUEUED", "ACKNOWLEDGED"}

LEMMA DispatchHas ==
    ASSUME NEW list, HistoryOK(list), NEW n \in Nat, NEW outcome \in Outcomes,
           NEW now \in Times, NEW kind \in CallerKinds,
           Has(Place(list, DispatchEvent(n + 1, outcome, now)), kind)
    PROVE  Has(list, kind)
<1>1. PICK e : e = DispatchEvent(n + 1, outcome, now)
    OBVIOUS
<1>2. n + 1 \in Nat \ {0}
    OBVIOUS
<1>3. e \in Event
    BY <1>1, <1>2, DispatchFacts
<1>4. e.kind \notin CallerKinds
    BY <1>1 DEF DispatchEvent, Outcomes, Ev, CallerKinds
<1> QED BY <1>1, <1>3, <1>4, PlaceHas DEF HistoryOK

LEMMA EscalatedHas ==
    ASSUME NEW list, HistoryOK(list), NEW now \in Times, NEW kind \in CallerKinds,
           \/ Has(Escalated(list, now), kind)
           \/ Has(Place(list, Ev("ESCALATED", now, None)), kind)
    PROVE  Has(list, kind)
<1>1. PICK a, b, c : /\ a = Ev("DEAD_LETTERED", now, None)
                     /\ b = Ev("ESCALATED", now, None)
                     /\ c = Ev("RETRY_SCHEDULED", now, now)
    OBVIOUS
<1>2. /\ a \in Event /\ b \in Event /\ c \in Event
      /\ kind \notin {a.kind, b.kind, c.kind}
    BY <1>1, BoundsAssumption DEF Ev, Event, Kinds, Terminal, Times, CallerKinds
<1>3. list \in Seq(Event) /\ Sorted(list)
    BY DEF HistoryOK
<1>4. Place(list, b) \in Seq(Event) /\ Sorted(Place(list, b))
    BY <1>2, <1>3, PlaceSorted
<1>5. \/ Has(list, kind) \/ Has(Place(list, a), kind)
      \/ Has(Place(list, b), kind) \/ Has(Place(Place(list, b), c), kind)
    BY <1>1 DEF Escalated
<1>6. Has(Place(Place(list, b), c), kind) => Has(Place(list, b), kind)
    BY <1>2, <1>4, PlaceHas
<1>7. /\ Has(Place(list, b), kind) => Has(list, kind)
      /\ Has(Place(list, a), kind) => Has(list, kind)
    BY <1>2, <1>3, PlaceHas
<1> QED BY <1>5, <1>6, <1>7

(* A stored message gets no second ENQUEUED, and an ACKNOWLEDGED only from *)
(* acknowledge.                                                            *)
LEMMA StepHas ==
    ASSUME OutboxInv, [Next]_vars, NEW i \in Stored, NEW kind \in CallerKinds,
           Has(events'[i], kind)
    PROVE  \/ Has(events[i], kind)
           \/ kind = "ACKNOWLEDGED" /\ \E now \in Times : Acknowledge(i, now)
<1>0. i \in Ids /\ HistoryOK(events[i]) /\ attempts[i] \in Nat /\ messages[i] # None
    BY StoredOK DEF MessageOK
<1>1. CASE events'[i] = events[i]
    BY <1>1
<1>2. ASSUME NEW msg \in Message, Enqueue(msg) \/ EnqueueCrash(msg)
      PROVE  events'[i] = events[i]
  <2>1. events' = events \/ msg.id # i
    BY <1>0, <1>2 DEF Enqueue, EnqueueCrash
  <2> QED BY <1>0, <1>2, <2>1 DEF Enqueue, EnqueueCrash, OutboxInv, Rows
<1>3. ASSUME NEW now \in Times, NEW S, NEW result \in [S -> Results],
             events' = [j \in Ids |->
                IF j \in S
                THEN Place(events[j], DispatchEvent(attempts[j] + 1, result[j], now))
                ELSE events[j]]
      PROVE  Has(events[i], kind)
  <2>1. CASE i \in S
    <3>1. result[i] \in Outcomes
      BY <1>3, <2>1 DEF Results, Outcomes
    <3> QED BY <1>0, <1>3, <2>1, <3>1, DispatchHas
  <2>2. CASE i \notin S
    BY <1>0, <1>3, <2>2
  <2> QED BY <2>1, <2>2
<1>4. ASSUME NEW now \in Times, DispatchDue(now) PROVE Has(events[i], kind)
    BY <1>3, <1>4 DEF DispatchDue
<1>5. ASSUME NEW now \in Times, NEW j \in Ids, NEW recorded \in BOOLEAN,
             DispatchCrash(now, j, recorded)
      PROVE  Has(events[i], kind)
    BY <1>3, <1>5 DEF DispatchCrash
<1>6. ASSUME NEW now \in Times,
             \/ EscalateDue(now)
             \/ \E j \in Ids, recorded \in BOOLEAN : EscalateCrash(now, j, recorded)
      PROVE  Has(events[i], kind)
  <2>1. \/ events'[i] = Escalated(events[i], now) \/ events'[i] = events[i]
        \/ events'[i] = Place(events[i], Ev("ESCALATED", now, None))
    BY <1>0, <1>6 DEF EscalateDue, EscalateCrash
  <2> QED BY <1>0, <1>6, <2>1, EscalatedHas
<1>7. ASSUME NEW now \in Times, NEW j \in Ids, Acknowledge(j, now)
      PROVE  Has(events[i], kind) \/ (kind = "ACKNOWLEDGED" /\ Acknowledge(i, now))
  <2>1. CASE i # j
    BY <1>0, <1>1, <1>7, <2>1 DEF Acknowledge, OutboxInv, Rows
  <2>2. CASE i = j
    <3>1. PICK e : e = Ev("ACKNOWLEDGED", now, None)
      OBVIOUS
    <3>2. e \in Event /\ e.kind = "ACKNOWLEDGED"
      BY <3>1 DEF Ev, Event, Kinds, Terminal
    <3>3. events'[i] = Place(events[i], e) \/ events'[i] = events[i]
      BY <1>0, <1>7, <2>2, <3>1 DEF Acknowledge, OutboxInv, Rows
    <3> QED BY <1>0, <1>7, <2>2, <3>2, <3>3, PlaceHas DEF HistoryOK
  <2> QED BY <2>1, <2>2
<1>8. CASE Restart \/ UNCHANGED vars
    BY <1>1, <1>8 DEF Restart, vars
<1> QED BY <1>1, <1>2, <1>4, <1>5, <1>6, <1>7, <1>8 DEF Next

(* The first event of a message is not an acknowledgment.                  *)
LEMMA FirstHas ==
    ASSUME OutboxInv, [Next]_vars, NEW i \in Ids \ Stored
    PROVE  /\ events[i] = <<>>
           /\ \/ events'[i] = <<>>
              \/ \E msg \in Message :
                    /\ Enqueue(msg) /\ msg.id = i
                    /\ events'[i] = Place(<<>>, Ev(FirstEvent(msg), msg.createdAt, None))
<1>1. events[i] = <<>> /\ messages[i] = None
    BY DEF OutboxInv, RowOK, Unused, Stored
<1>2. ASSUME NEW msg \in Message, Enqueue(msg)
      PROVE  \/ events'[i] = <<>>
             \/ /\ msg.id = i
                /\ events'[i] = Place(<<>>, Ev(FirstEvent(msg), msg.createdAt, None))
    BY <1>1, <1>2 DEF Enqueue, OutboxInv, Rows
<1>3. ASSUME NEW msg \in Message, EnqueueCrash(msg) PROVE events'[i] = <<>>
    BY <1>1, <1>3 DEF EnqueueCrash
<1>4. ASSUME NEW now \in Times, DispatchDue(now) \/ EscalateDue(now) PROVE events'[i] = <<>>
    BY <1>1, <1>4 DEF DispatchDue, EscalateDue, Stored
<1>5. ASSUME NEW now \in Times, NEW j \in Ids, Acknowledge(j, now) PROVE events'[i] = <<>>
    BY <1>1, <1>5 DEF Acknowledge, MayAcknowledge, OutboxInv, Rows
<1>6. ASSUME NEW now \in Times, NEW j \in Ids, NEW recorded \in BOOLEAN,
             DispatchCrash(now, j, recorded) \/ EscalateCrash(now, j, recorded)
      PROVE  events'[i] = <<>>
  <2>1. j \in Stored /\ i \notin Before(j)
    BY <1>6 DEF DispatchCrash, EscalateCrash, Before
  <2> QED BY <1>1, <1>6, <2>1 DEF DispatchCrash, EscalateCrash
<1>7. CASE Restart \/ UNCHANGED vars
    BY <1>1, <1>7 DEF Restart, vars
<1> QED BY <1>1, <1>2, <1>3, <1>4, <1>5, <1>6, <1>7 DEF Next

(* Steps that store no message and enqueue none.                           *)
LEMMA SpacingKept ==
    ASSUME SpacingInv, messages' = messages,
           \A i \in Stored : Has(events'[i], "ENQUEUED") => Has(events[i], "ENQUEUED")
    PROVE  SpacingInv'
<1>1. Stored' = Stored
    BY DEF Stored
<1>2. StoreOK'
    BY <1>1 DEF SpacingInv, StoreOK
<1>3. CooldownSpacing'
    BY <1>1 DEF SpacingInv, CooldownSpacing
<1> QED BY <1>2, <1>3 DEF SpacingInv

(* A message is stored; if it is handed to delivery it was not suppressed. *)
LEMMA SpacingStored ==
    ASSUME OutboxInv, SpacingInv, NEW msg \in Message, messages[msg.id] = None,
           messages' = [messages EXCEPT ![msg.id] = msg],
           \A i \in Stored : events'[i] = events[i],
           Has(events'[msg.id], "ENQUEUED") => ~Suppressed(msg)
    PROVE  SpacingInv'
<1>1. msg.id \in Ids /\ msg # None /\ msg.id \in Nat
    BY NoneAssumption, BoundsAssumption DEF Message
<1>2. /\ messages' = [i \in Ids |-> messages'[i]] /\ messages'[msg.id] = msg
      /\ \A i \in Ids \ {msg.id} : messages'[i] = messages[i]
    BY <1>1 DEF SpacingInv, StoreOK
<1>3. Stored' = Stored \cup {msg.id} /\ msg.id \notin Stored
    BY <1>1, <1>2 DEF Stored
<1>4. \A i \in Stored : i # msg.id /\ messages'[i] = messages[i] /\ i \in Nat
    BY <1>2, <1>3, BoundsAssumption DEF Stored
<1>5. StoreOK'
  <2>1. PICK bound \in Nat : \A i \in Stored : i <= bound
    BY DEF SpacingInv, StoreOK
  <2>2. bound + msg.id \in Nat /\ \A i \in Stored' : i <= bound + msg.id
    BY <1>1, <1>3, <1>4, <2>1
  <2>3. \A i \in Stored' : messages'[i] \in Message /\ messages'[i].id = i
    BY <1>2, <1>3, <1>4 DEF SpacingInv, StoreOK
  <2> QED BY <1>2, <2>2, <2>3 DEF StoreOK
<1>6. CooldownSpacing'
  <2> SUFFICES ASSUME NEW i \in Stored', NEW j \in Stored',
                      i # j, messages'[i].key = messages'[j].key,
                      Has(events'[i], "ENQUEUED"), Has(events'[j], "ENQUEUED"),
                      messages'[i].createdAt <= messages'[j].createdAt
               PROVE  messages'[j].createdAt - messages'[i].createdAt >= Cooldown
    BY DEF CooldownSpacing, Has
  <2>1. CASE i \in Stored /\ j \in Stored
    BY <1>4, <2>1 DEF SpacingInv, CooldownSpacing
  <2>2. CASE j = msg.id
    <3>1. i \in Stored
      BY <1>3, <2>2
    <3> QED BY <1>2, <1>4, <2>2, <3>1, NotSuppressed DEF SpacingInv
  <2>3. CASE i = msg.id
    <3>1. j \in Stored
      BY <1>3, <2>3
    <3>2. msg.createdAt - messages[j].createdAt >= Cooldown
      BY <1>2, <1>4, <2>3, <3>1, NotSuppressed DEF SpacingInv
    <3>3. messages[j] \in Message
      BY <3>1 DEF SpacingInv, StoreOK
    <3>4. msg.createdAt \in Nat /\ messages[j].createdAt \in Nat /\ Cooldown \in Nat
      BY <3>3, BoundsAssumption, PolicyAssumption DEF Message, Times
    <3>5. msg.createdAt <= messages[j].createdAt
      BY <1>2, <1>4, <2>3, <3>1
    <3>6. messages[j].createdAt - msg.createdAt >= Cooldown
      BY <3>2, <3>4, <3>5
    <3> QED BY <1>2, <1>4, <2>3, <3>1, <3>6
  <2> QED BY <1>3, <2>1, <2>2, <2>3
<1> QED BY <1>5, <1>6 DEF SpacingInv

(* Every step keeps the distance.                                          *)
LEMMA SpacingStep == ASSUME OutboxInv, SpacingInv, [Next]_vars PROVE SpacingInv'
<1>1. ASSUME messages' = messages PROVE SpacingInv'
  <2>1. \A i \in Stored : Has(events'[i], "ENQUEUED") => Has(events[i], "ENQUEUED")
    BY StepHas DEF CallerKinds
  <2> QED BY <1>1, <2>1, SpacingKept
<1>2. ASSUME NEW msg \in Message, Enqueue(msg) \/ EnqueueCrash(msg), messages[msg.id] = None
      PROVE  SpacingInv'
  <2>1. msg.id \in Ids /\ events[msg.id] = <<>>
    BY <1>2 DEF OutboxInv, RowOK, Unused, Message
  <2>2. /\ messages' = [messages EXCEPT ![msg.id] = msg]
        /\ \A i \in Stored : events'[i] = events[i]
    BY <1>2 DEF Enqueue, EnqueueCrash, OutboxInv, Rows, Stored
  <2>3. ASSUME Has(events'[msg.id], "ENQUEUED"), Suppressed(msg) PROVE FALSE
    <3>1. PICK e : e = Ev(FirstEvent(msg), msg.createdAt, None)
      OBVIOUS
    <3>2. e.kind = "SUPPRESSED" /\ e \in Event
      BY <2>3, <3>1 DEF FirstEvent, Ev, Event, Kinds, Terminal, Message
    <3>3. events'[msg.id] = <<>> \/ events'[msg.id] = Place(<<>>, e)
      BY <1>2, <2>1, <3>1 DEF Enqueue, EnqueueCrash, OutboxInv, Rows
    <3>4. <<>> \in Seq(Event) /\ Sorted(<<>>) /\ ~Has(<<>>, "ENQUEUED")
      BY EmptyHistory DEF HistoryOK, Has
    <3> QED BY <2>3, <3>2, <3>3, <3>4, PlaceHas
  <2> QED BY <1>2, <2>2, <2>3, SpacingStored
<1>3. \/ messages' = messages
      \/ \E msg \in Message :
            (Enqueue(msg) \/ EnqueueCrash(msg)) /\ messages[msg.id] = None
  <2>1. ASSUME NEW msg \in Message, Enqueue(msg) \/ EnqueueCrash(msg)
        PROVE  messages' = messages \/ messages[msg.id] = None
    BY <2>1 DEF Enqueue, EnqueueCrash
  <2>2. ASSUME NEW now \in Times, DispatchDue(now) \/ EscalateDue(now)
        PROVE  messages' = messages
    BY <2>2 DEF DispatchDue, EscalateDue
  <2>3. ASSUME NEW now \in Times, NEW i \in Ids,
               \/ Acknowledge(i, now)
               \/ \E recorded \in BOOLEAN :
                     DispatchCrash(now, i, recorded) \/ EscalateCrash(now, i, recorded)
        PROVE  messages' = messages
    BY <2>3 DEF Acknowledge, DispatchCrash, EscalateCrash
  <2>4. ASSUME Restart \/ UNCHANGED vars PROVE messages' = messages
    BY <2>4 DEF Restart, vars
  <2> QED BY <2>1, <2>2, <2>3, <2>4 DEF Next
<1> QED BY <1>1, <1>2, <1>3

(* Two messages of one dedupe key that are both handed to delivery were    *)
(* created at least a cooldown apart, whatever suppressed, disabled,       *)
(* repeated or half-stored messages came between them (enqueue).           *)
THEOREM DeliveriesKeepTheCooldown == Spec => []CooldownSpacing
<1>1. Init => SpacingInv
  <2> SUFFICES ASSUME Init PROVE SpacingInv
    OBVIOUS
  <2>1. Stored = {} /\ messages = [i \in Ids |-> messages[i]] /\ 0 \in Nat
    BY DEF Init, Stored
  <2> QED BY <2>1 DEF SpacingInv, StoreOK, CooldownSpacing
<1>2. OutboxInv /\ SpacingInv /\ [Next]_vars => SpacingInv'
    BY SpacingStep
<1>3. SpacingInv => CooldownSpacing
    BY DEF SpacingInv
<1> QED BY <1>1, <1>2, <1>3, OutboxInvariance, PTL DEF Spec

-----------------------------------------------------------------------------
(* The acknowledgment.                                                     *)

AckLast(list) ==
    /\ Count(list, "ACKNOWLEDGED") <= 1
    /\ \A k \in DOMAIN list :
          list[k].kind = "ACKNOWLEDGED" =>
              \A d \in DOMAIN list : d > k => list[d].kind # "DELIVERED"

(* A list without one.                                                     *)
LEMMA NoAck ==
    ASSUME NEW list, ~Has(list, "ACKNOWLEDGED")
    PROVE  AckLast(list) /\ Count(list, "ACKNOWLEDGED") = 0
<1>1. {k \in DOMAIN list : list[k].kind = "ACKNOWLEDGED"} = {}
    BY DEF Has
<1>2. Count(list, "ACKNOWLEDGED") = 0
    BY <1>1, FS_EmptySet DEF Count
<1> QED BY <1>2 DEF AckLast, Has

(* The first acknowledgment, not before any delivery, stands after all of  *)
(* them.                                                                   *)
LEMMA FirstAck ==
    ASSUME NEW list, HistoryOK(list), ~Has(list, "ACKNOWLEDGED"), NEW now \in Times,
           \A k \in DOMAIN list : list[k].kind = "DELIVERED" => list[k].at <= now
    PROVE  AckLast(Place(list, Ev("ACKNOWLEDGED", now, None)))
<1>1. PICK e : e = Ev("ACKNOWLEDGED", now, None)
    OBVIOUS
<1>2. e \in Event /\ e.kind = "ACKNOWLEDGED" /\ e.at = now
    BY <1>1 DEF Ev, Event, Kinds, Terminal
<1>3. list \in Seq(Event) /\ Sorted(list)
    BY DEF HistoryOK
<1>4. PICK g : g = Place(list, e)
    OBVIOUS
<1>5. Count(g, "ACKNOWLEDGED") <= 1
    BY <1>2, <1>3, <1>4, NoAck, PlaceCount
<1>6. PICK m : m = Len(list)
    OBVIOUS
<1>7. PICK n \in 0..m : PlacedAt(list, e, g, m, n)
    BY <1>2, <1>3, <1>4, <1>6, PlaceInverse
<1>8. m \in Nat /\ DOMAIN list = 1..m /\ DOMAIN g = 1..(m + 1)
    BY <1>3, <1>6, <1>7, LenProperties DEF PlacedAt
<1>9. ASSUME NEW d \in 1..(m + 1), d > n + 1
      PROVE  g[d].kind \notin {"DELIVERED", "ACKNOWLEDGED"}
  <2>1. d \in (n + 2)..(m + 1)
    BY <1>8, <1>9
  <2>2. d - 1 \in 1..m /\ g[d] = list[d - 1] /\ ~(d - 1 <= n)
    BY <1>7, <1>8, <2>1 DEF PlacedAt
  <2>3. ~(list[d - 1].at <= now)
    BY <1>2, <1>7, <2>2 DEF PlacedAt
  <2> QED BY <1>8, <2>2, <2>3 DEF Has
<1>10. ASSUME NEW k \in 1..(m + 1), g[k].kind = "ACKNOWLEDGED" PROVE k >= n + 1
  <2>1. CASE k <= n
    <3>1. k \in 1..n /\ k \in 1..m
      BY <1>8, <2>1
    <3>2. g[k] = list[k]
      BY <1>7, <3>1 DEF PlacedAt
    <3> QED BY <1>8, <1>10, <3>1, <3>2 DEF Has
  <2> QED BY <1>8, <2>1
<1>11. ASSUME NEW k \in 1..(m + 1), g[k].kind = "ACKNOWLEDGED", NEW d \in 1..(m + 1), d > k
       PROVE  g[d].kind # "DELIVERED"
  <2>1. d > n + 1
    BY <1>8, <1>10, <1>11
  <2> QED BY <1>9, <2>1
<1> QED BY <1>1, <1>4, <1>5, <1>8, <1>11 DEF AckLast

(* An acknowledged message is left alone.                                  *)
LEMMA AckedStays ==
    ASSUME OutboxInv, [Next]_vars, NEW i \in Ids, Has(events[i], "ACKNOWLEDGED")
    PROVE  events'[i] = events[i]
<1>1. Finished(events[i])
    BY DEF Finished, Has, Terminal
<1>2. messages[i] # None /\ \A now \in Times : ~IsDue(i, now) /\ ~AckOverdue(i, now)
    BY <1>1, FinishedIsQuiet
<1>3. events = [j \in Ids |-> events[j]]
    BY DEF OutboxInv, Rows
<1>4. ASSUME NEW msg \in Message, Enqueue(msg) \/ EnqueueCrash(msg)
      PROVE  events'[i] = events[i]
    BY <1>2, <1>3, <1>4 DEF Enqueue, EnqueueCrash
<1>5. ASSUME NEW now \in Times, DispatchDue(now) \/ EscalateDue(now)
      PROVE  events'[i] = events[i]
    BY <1>2, <1>5 DEF DispatchDue, EscalateDue
<1>6. ASSUME NEW now \in Times, NEW j \in Ids, Acknowledge(j, now)
      PROVE  events'[i] = events[i]
    BY <1>3, <1>6 DEF Acknowledge
<1>7. ASSUME NEW now \in Times, NEW j \in Ids, NEW recorded \in BOOLEAN,
             DispatchCrash(now, j, recorded) \/ EscalateCrash(now, j, recorded)
      PROVE  events'[i] = events[i]
    BY <1>2, <1>7 DEF DispatchCrash, EscalateCrash
<1>8. CASE Restart \/ UNCHANGED vars
    BY <1>8 DEF Restart, vars
<1> QED BY <1>4, <1>5, <1>6, <1>7, <1>8 DEF Next

(* Every step keeps acknowledged histories closed.                         *)
LEMMA AckStep ==
    ASSUME OutboxInv, [Next]_vars, NEW i \in Ids, AckLast(events[i])
    PROVE  AckLast(events'[i])
<1>1. CASE ~Has(events'[i], "ACKNOWLEDGED")
    BY <1>1, NoAck
<1>2. CASE i \notin Stored
  <2>1. CASE events'[i] = <<>>
    <3>1. ~Has(<<>>, "ACKNOWLEDGED")
      BY DEF Has
    <3> QED BY <2>1, <3>1, NoAck
  <2>2. CASE events'[i] # <<>>
    <3>1. PICK msg \in Message :
              events'[i] = Place(<<>>, Ev(FirstEvent(msg), msg.createdAt, None))
      BY <1>2, <2>2, FirstHas
    <3>2. PICK e : e = Ev(FirstEvent(msg), msg.createdAt, None)
      OBVIOUS
    <3>3. e \in Event /\ e.kind # "ACKNOWLEDGED"
      BY <3>2 DEF FirstEvent, Ev, Event, Kinds, Terminal, Message
    <3>4. <<>> \in Seq(Event) /\ Sorted(<<>>) /\ ~Has(<<>>, "ACKNOWLEDGED")
      BY EmptyHistory DEF HistoryOK, Has
    <3> QED BY <1>1, <3>1, <3>2, <3>3, <3>4, PlaceHas
  <2> QED BY <2>1, <2>2
<1>3. CASE i \in Stored /\ Has(events[i], "ACKNOWLEDGED")
  <2>1. events'[i] = events[i]
    BY <1>3, AckedStays
  <2> QED BY <2>1
<1>4. CASE i \in Stored /\ ~Has(events[i], "ACKNOWLEDGED") /\ Has(events'[i], "ACKNOWLEDGED")
  <2>1. PICK now \in Times : Acknowledge(i, now)
    BY <1>4, StepHas DEF CallerKinds
  <2>2. HistoryOK(events[i])
    BY <1>4, StoredOK DEF MessageOK
  <2>3. events'[i] = Place(events[i], Ev("ACKNOWLEDGED", now, None))
    BY <1>4, <2>1 DEF Acknowledge, OutboxInv, Rows
  <2>4. \A k \in DOMAIN events[i] : events[i][k].kind = "DELIVERED" => events[i][k].at <= now
    BY <2>1 DEF Acknowledge, MayAcknowledge
  <2> QED BY <1>4, <2>2, <2>3, <2>4, FirstAck
<1> QED BY <1>1, <1>2, <1>3, <1>4

(* In the store's order a message has at most one acknowledgment and no    *)
(* delivery after it, although an acknowledgment may come late and be      *)
(* filed before an escalation that preceded it (acknowledge).              *)
THEOREM AcksCloseHistories == Spec => []AckClosesHistory
<1>1. AckClosesHistory <=> \A i \in Ids : AckLast(events[i])
    BY DEF AckClosesHistory, AckLast
<1>2. Init => AckClosesHistory
  <2> SUFFICES ASSUME Init, NEW i \in Ids PROVE AckLast(events[i])
    BY <1>1
  <2>1. ~Has(events[i], "ACKNOWLEDGED")
    BY DEF Init, Has
  <2> QED BY <2>1, NoAck
<1>3. ASSUME OutboxInv, AckClosesHistory, [Next]_vars PROVE AckClosesHistory'
  <2>1. \A i \in Ids : AckLast(events'[i])
    BY <1>1, <1>3, AckStep
  <2> QED BY <2>1 DEF AckClosesHistory, AckLast, Count
<1> QED BY <1>2, <1>3, OutboxInvariance, PTL DEF Spec

-----------------------------------------------------------------------------
(* ORDER BY event_id.                                                      *)

(* Identifiers are numbers and each names one row.                         *)
Identified(es) ==
    /\ IsFiniteSet(es)
    /\ \A e \in es : e.id \in Nat \ {0}
    /\ \A e, f \in es : e.id = f.id => e = f

Rank(es, e) == Cardinality({f \in es : f.id <= e.id})

(* The rank of a row grows with its identifier.                            *)
LEMMA RankGrows ==
    ASSUME NEW es, Identified(es), NEW e \in es, NEW f \in es, e.id < f.id
    PROVE  Rank(es, e) < Rank(es, f)
<1> DEFINE E == {x \in es : x.id <= e.id}
           F == {x \in es : x.id <= f.id}
<1>1. E \in SUBSET F /\ f \in F /\ f \notin E /\ F \in SUBSET es
    BY DEF Identified
<1>2. IsFiniteSet(F) /\ IsFiniteSet(E)
    BY <1>1, FS_Subset DEF Identified
<1> HIDE DEF E, F
<1>3. Cardinality(E) <= Cardinality(F) /\ Cardinality(E) # Cardinality(F)
    BY <1>1, <1>2, FS_Subset
<1>4. Cardinality(E) \in Nat /\ Cardinality(F) \in Nat
    BY <1>2, FS_CardinalityType
<1>5. Cardinality(E) < Cardinality(F)
    BY <1>3, <1>4
<1> QED BY <1>5 DEF Rank, E, F

(* A rank is a place of the list, and every place is the rank of a row.    *)
LEMMA RankIsAPlace ==
    ASSUME NEW es, Identified(es), NEW e \in es
    PROVE  Rank(es, e) \in 1..Cardinality(es)
<1> DEFINE E == {x \in es : x.id <= e.id}
<1>1. E \in SUBSET es /\ e \in E
    BY DEF Identified
<1> HIDE DEF E
<1>2. IsFiniteSet(E) /\ Cardinality(E) <= Cardinality(es)
    BY <1>1, FS_Subset DEF Identified
<1>3. Cardinality(E) \in Nat /\ Cardinality(es) \in Nat /\ Cardinality(E) # 0
    BY <1>1, <1>2, FS_CardinalityType, FS_EmptySet DEF Identified
<1>4. Cardinality(E) \in 1..Cardinality(es)
    BY <1>2, <1>3
<1> QED BY <1>4 DEF Rank, E

LEMMA SameRank ==
    ASSUME NEW es, Identified(es), NEW e \in es, NEW f \in es, Rank(es, e) = Rank(es, f)
    PROVE  e = f
<1>1. Rank(es, e) \in Nat /\ Rank(es, f) \in Nat
    BY RankIsAPlace, FS_CardinalityType DEF Identified
<1>2. ~(e.id < f.id) /\ ~(f.id < e.id)
    BY <1>1, RankGrows
<1> QED BY <1>2 DEF Identified

LEMMA PlacesAreRanks ==
    ASSUME NEW es, Identified(es), NEW i \in 1..Cardinality(es)
    PROVE  \E e \in es : Rank(es, e) = i
<1> DEFINE n == Cardinality(es)
           r == [e \in es |-> Rank(es, e)]
           T == {Rank(es, e) : e \in es}
<1>1. n \in Nat
    BY FS_CardinalityType DEF Identified
<1>2. r \in [es -> T]
    OBVIOUS
<1>3. \A e, f \in es : r[e] = r[f] => e = f
    BY SameRank
<1>4. \A t \in T : \E e \in es : r[e] = t
    OBVIOUS
<1> HIDE DEF r, T
<1>5. r \in Bijection(es, T)
    BY <1>2, <1>3, <1>4 DEF Bijection, Injection, Surjection, IsInjective
<1>6. Cardinality(T) = n
    BY <1>5, FS_Bijection DEF ExistsBijection, Identified
<1>7. T \in SUBSET (1..n)
    BY RankIsAPlace DEF T
<1>8. IsFiniteSet(1..n) /\ Cardinality(1..n) = n
    BY <1>1, FS_Interval
<1>9. T = 1..n
    BY <1>6, <1>7, <1>8, FS_Subset
<1> QED BY <1>9 DEF T

(* What stream_events_after returns: every row once, in the order of the   *)
(* identifiers.                                                            *)
Listed(s, es) ==
    /\ s \in Seq(es)
    /\ \A i, j \in DOMAIN s : i < j => s[i].id < s[j].id
    /\ \A e \in es : \E i \in DOMAIN s : s[i] = e

LEMMA ByIdLists ==
    ASSUME NEW es, Identified(es)
    PROVE  Listed(ById(es), es)
<1> DEFINE n == Cardinality(es)
<1>1. PICK s : s = ById(es)
    OBVIOUS
<1>2. n \in Nat
    BY FS_CardinalityType DEF Identified
<1>3. s = [i \in 1..n |-> CHOOSE e \in es : Rank(es, e) = i]
    BY <1>1 DEF ById, Rank
<1>4. \A i \in 1..n : s[i] \in es /\ Rank(es, s[i]) = i
    BY <1>3, PlacesAreRanks
<1>5. s \in Seq(es) /\ DOMAIN s = 1..n
    BY <1>2, <1>3, <1>4
<1>6. ASSUME NEW i \in 1..n, NEW j \in 1..n, i < j
      PROVE  s[i].id < s[j].id
  <2>1. /\ s[i] \in es /\ s[j] \in es /\ Rank(es, s[i]) = i /\ Rank(es, s[j]) = j
    BY <1>4
  <2>2. s[i].id \in Nat /\ s[j].id \in Nat
    BY <2>1 DEF Identified
  <2>3. s[i].id # s[j].id
    BY <1>6, <2>1 DEF Identified
  <2>4. ~(s[j].id < s[i].id)
    BY <1>6, <2>1, RankGrows
  <2> QED BY <2>2, <2>3, <2>4
<1>7. ASSUME NEW e \in es PROVE \E i \in 1..n : s[i] = e
  <2>1. Rank(es, e) \in 1..n
    BY RankIsAPlace
  <2>2. s[Rank(es, e)] \in es /\ Rank(es, s[Rank(es, e)]) = Rank(es, e)
    BY <1>4, <2>1
  <2>3. s[Rank(es, e)] = e
    BY <2>2, SameRank
  <2> QED BY <2>1, <2>3
<1>8. Listed(s, es)
    BY <1>5, <1>6, <1>7 DEF Listed
<1> QED BY <1>1, <1>8

-----------------------------------------------------------------------------
(* The invariant.                                                          *)

(* Where a client resumes, from the identifiers it has got.                *)
LastOf(got) == IF got = <<>> THEN 0 ELSE got[Len(got)]

(* What a client has got, when es are the committed rows and ds the        *)
(* recorded deliveries: rows, each audited, in order; and, if one process  *)
(* writes, all of them up to the last.                                     *)
ClientOK(c, got, es, ds, one) ==
    /\ got \in Seq(Nat)
    /\ \A i \in DOMAIN got : (\E e \in es : e.id = got[i]) /\ <<c, got[i]>> \in ds
    /\ \A i, j \in DOMAIN got : i < j => got[i] < got[j]
    /\ one => \A e \in es : e.id <= LastOf(got) => \E i \in DOMAIN got : got[i] = e.id

(* What a connection has read and not sent: rows after its cursor, in      *)
(* order; and, if one process writes, a row that is not among them came    *)
(* after them.                                                             *)
QueueOK(queue, cur, es, one) ==
    /\ queue \in Seq(es) /\ queue # <<>>
    /\ \A i, j \in DOMAIN queue : i < j => queue[i].id < queue[j].id
    /\ \A i \in DOMAIN queue : cur < queue[i].id
    /\ one => \A e \in es :
                 cur < e.id => \/ \E i \in DOMAIN queue : queue[i] = e
                               \/ \A i \in DOMAIN queue : queue[i].id < e.id

Locations == {"closed", "validate", "loop", "sync", "send", "yield"}

(* An open connection stands where its client does.                        *)
ServeOK(c, at, queue, cur, got, es, ds, one) ==
    /\ at \in Locations
    /\ at # "closed" => cur = LastOf(got)
    /\ at \in {"send", "yield"} => QueueOK(queue, cur, es, one)
    /\ at = "yield" => <<c, queue[1].id>> \in ds

RowsInv ==
    /\ Identified(streamEvents) /\ lastId \in Nat
    /\ \A e \in streamEvents : e.id <= lastId
    /\ procOf \in [Conns -> Procs]
    /\ txn = [p \in Procs |-> txn[p]]
    /\ \A p \in Procs : txn[p] # NoInsert =>
          txn[p].id \in 1..lastId /\ \A e \in streamEvents : e.id # txn[p].id
    /\ \A p, q \in Procs :
          txn[p] # NoInsert /\ txn[q] # NoInsert /\ txn[p].id = txn[q].id => p = q

(* An insert serves a connection, and the insert of the only writer comes  *)
(* after every committed row.                                              *)
WriterInv ==
    \A p \in Procs : txn[p] # NoInsert =>
        /\ \E c \in Conns : procOf[c] = p
        /\ OneWriter => \A e \in streamEvents : e.id < txn[p].id

ConnOK(c, at, queue, cur, got, es, ds, one) ==
    ClientOK(c, got, es, ds, one) /\ ServeOK(c, at, queue, cur, got, es, ds, one)

ClientInv ==
    /\ pc = [c \in Conns |-> pc[c]] /\ pending = [c \in Conns |-> pending[c]]
    /\ cursor = [c \in Conns |-> cursor[c]] /\ received = [c \in Conns |-> received[c]]
    /\ \A c \in Conns : ConnOK(c, pc[c], pending[c], cursor[c], received[c],
                               streamEvents, deliveries, OneWriter)

StreamInv == RowsInv /\ WriterInv /\ ClientInv

-----------------------------------------------------------------------------
(* Facts about one connection.                                             *)

(* New rows and new deliveries take nothing from a client.                 *)
LEMMA ClientKept ==
    ASSUME NEW c, NEW got, NEW es, NEW ds, NEW es2, NEW ds2, NEW one,
           ClientOK(c, got, es, ds, one), es \subseteq es2, ds \subseteq ds2,
           Identified(es2),
           one => \A e \in es, f \in es2 \ es : e.id < f.id
    PROVE  ClientOK(c, got, es2, ds2, one)
<1>1. ASSUME one, NEW e \in es2, e.id <= LastOf(got)
      PROVE  \E i \in DOMAIN got : got[i] = e.id
  <2>1. CASE e \in es
    BY <1>1, <2>1 DEF ClientOK
  <2>2. CASE e \notin es
    <3>1. LastOf(got) # 0
      BY <1>1 DEF Identified, LastOf, ClientOK
    <3>2. got # <<>> /\ LastOf(got) = got[Len(got)]
      BY <3>1 DEF LastOf
    <3>3. Len(got) \in DOMAIN got
      BY <3>2 DEF ClientOK
    <3>4. PICK f \in es : f.id = LastOf(got)
      BY <3>2, <3>3 DEF ClientOK
    <3>5. f.id < e.id /\ f.id \in Nat /\ e.id \in Nat
      BY <1>1, <2>2 DEF Identified
    <3> QED BY <1>1, <3>4, <3>5
  <2> QED BY <2>1, <2>2
<1>2. \A i \in DOMAIN got : (\E e \in es2 : e.id = got[i]) /\ <<c, got[i]>> \in ds2
    BY DEF ClientOK
<1> QED BY <1>1, <1>2 DEF ClientOK

LEMMA QueueKept ==
    ASSUME NEW queue, NEW cur, NEW es, NEW es2, NEW one,
           QueueOK(queue, cur, es, one), es \subseteq es2,
           one => \A e \in es, f \in es2 \ es : e.id < f.id
    PROVE  QueueOK(queue, cur, es2, one)
<1>1. queue \in Seq(es2) /\ \A i \in DOMAIN queue : queue[i] \in es
  <2>1. queue \in Seq(es)
    BY DEF QueueOK
  <2>2. DOMAIN queue = 1..Len(queue) /\ \A i \in 1..Len(queue) : queue[i] \in es
    BY <2>1, ElementOfSeq, LenProperties
  <2>3. queue \in Seq(es2)
    BY <2>1, SeqMonotonic
  <2> QED BY <2>2, <2>3
<1>2. ASSUME one, NEW e \in es2, cur < e.id
      PROVE  \/ \E i \in DOMAIN queue : queue[i] = e
             \/ \A i \in DOMAIN queue : queue[i].id < e.id
  <2>1. CASE e \in es
    BY <1>2, <2>1 DEF QueueOK
  <2>2. CASE e \notin es
    BY <1>1, <1>2, <2>2
  <2> QED BY <2>1, <2>2
<1> QED BY <1>1, <1>2 DEF QueueOK

LEMMA ServeKept ==
    ASSUME NEW c, NEW at, NEW queue, NEW cur, NEW got, NEW es, NEW ds, NEW es2, NEW ds2,
           NEW one, ServeOK(c, at, queue, cur, got, es, ds, one),
           es \subseteq es2, ds \subseteq ds2,
           one => \A e \in es, f \in es2 \ es : e.id < f.id
    PROVE  ServeOK(c, at, queue, cur, got, es2, ds2, one)
<1>1. at \in {"send", "yield"} => QueueOK(queue, cur, es2, one)
    BY QueueKept DEF ServeOK
<1> QED BY <1>1 DEF ServeOK

(* A client got nothing after the place where it resumes.                  *)
LEMMA LastIsLast ==
    ASSUME NEW c, NEW got, NEW es, NEW ds, NEW one, ClientOK(c, got, es, ds, one)
    PROVE  LastOf(got) \in Nat /\ \A i \in DOMAIN got : got[i] <= LastOf(got)
<1>0. Len(got) \in Nat
    BY DEF ClientOK
<1>1. got \in Seq(Nat) /\ DOMAIN got = 1..Len(got) /\ Len(got) \in Nat
    BY DEF ClientOK
<1>2. /\ \A i \in 1..Len(got) : got[i] \in Nat
      /\ \A i, j \in 1..Len(got) : i < j => got[i] < got[j]
    BY <1>1, ElementOfSeq DEF ClientOK
<1>3. CASE got = <<>>
    BY <1>3 DEF LastOf
<1>4. CASE got # <<>>
  <2>1. LastOf(got) = got[Len(got)] /\ Len(got) \in 1..Len(got)
    BY <1>1, <1>4, EmptySeq DEF LastOf
  <2>2. ASSUME NEW i \in 1..Len(got) PROVE got[i] <= got[Len(got)]
    <3>1. CASE i = Len(got)
      BY <1>2, <2>1, <3>1
    <3>2. CASE i # Len(got)
      <4>1. i < Len(got)
        BY <1>0, <3>2
      <4>2. got[i] < got[Len(got)]
        BY <1>2, <2>1, <4>1
      <4> QED BY <1>2, <2>1, <4>2
    <3> QED BY <3>1, <3>2
  <2> QED BY <1>1, <1>2, <2>1, <2>2
<1> QED BY <1>3, <1>4

(* A frame is handed over: the client has it, and the rest stays queued.   *)
Handed(c, queue, h, got, new, ds) ==
    h = queue[1] /\ <<c, h.id>> \in ds /\ new = Append(got, h.id)

LEMMA FrameToClient ==
    ASSUME NEW c, NEW got, NEW queue, NEW es, NEW ds, NEW one,
           ClientOK(c, got, es, ds, one), Identified(es),
           QueueOK(queue, LastOf(got), es, one), NEW h, NEW new,
           Handed(c, queue, h, got, new, ds)
    PROVE  ClientOK(c, new, es, ds, one) /\ LastOf(new) = h.id
<1> h = queue[1] /\ <<c, h.id>> \in ds /\ new = Append(got, h.id)
    BY DEF Handed
<1>0. Len(got) \in Nat
    BY DEF ClientOK
<1>1. /\ got \in Seq(Nat) /\ DOMAIN got = 1..Len(got) /\ Len(got) \in Nat
      /\ \A i \in 1..Len(got) : got[i] \in Nat
    BY ElementOfSeq, LenProperties DEF ClientOK
<1>2. h \in es /\ 1 \in DOMAIN queue /\ h.id \in Nat /\ LastOf(got) < h.id
  <2>1. queue \in Seq(es) /\ Len(queue) \in Nat \ {0}
    BY EmptySeq DEF QueueOK
  <2>2. 1 \in 1..Len(queue) /\ DOMAIN queue = 1..Len(queue)
    BY <2>1, LenProperties
  <2>3. h \in es
    BY <2>1, <2>2, ElementOfSeq
  <2> QED BY <2>2, <2>3 DEF QueueOK, Identified
<1>3. LastOf(got) \in Nat /\ \A i \in 1..Len(got) : got[i] <= LastOf(got)
    BY <1>1, LastIsLast
<1>4. /\ new \in Seq(Nat) /\ Len(new) = Len(got) + 1 /\ DOMAIN new = 1..(Len(got) + 1)
      /\ \A i \in 1..Len(got) : new[i] = got[i]
      /\ new[Len(got) + 1] = h.id
    BY <1>1, <1>2, AppendProperties
<1>5. new # <<>> /\ LastOf(new) = h.id
    BY <1>1, <1>4, EmptySeq DEF LastOf
<1>6. ASSUME NEW i \in 1..(Len(got) + 1)
      PROVE  (\E e \in es : e.id = new[i]) /\ <<c, new[i]>> \in ds
  <2>1. CASE i \in 1..Len(got)
    BY <1>1, <1>4, <2>1 DEF ClientOK
  <2>2. CASE i = Len(got) + 1
    BY <1>2, <1>4, <2>2
  <2>3. i \in 1..Len(got) \/ i = Len(got) + 1
    BY <1>0
  <2> QED BY <2>1, <2>2, <2>3
<1>7. ASSUME NEW i \in 1..(Len(got) + 1), NEW j \in 1..(Len(got) + 1), i < j
      PROVE  new[i] < new[j]
  <2>1. i \in 1..Len(got) /\ new[i] = got[i]
    BY <1>1, <1>4, <1>7
  <2>2. CASE j \in 1..Len(got)
    BY <1>1, <1>4, <1>7, <2>1, <2>2 DEF ClientOK
  <2>3. CASE j = Len(got) + 1
    BY <1>1, <1>2, <1>3, <1>4, <2>1, <2>3
  <2> QED BY <1>1, <2>2, <2>3
<1>8. ASSUME one, NEW e \in es, e.id <= h.id
      PROVE  \E i \in 1..(Len(got) + 1) : new[i] = e.id
  <2>1. CASE e.id <= LastOf(got)
    <3>1. PICK i \in 1..Len(got) : got[i] = e.id
      BY <1>1, <1>8, <2>1 DEF ClientOK
    <3>2. new[i] = e.id
      BY <1>4, <3>1
    <3>3. i \in 1..(Len(got) + 1)
      BY <1>0
    <3> QED BY <3>2, <3>3
  <2>2. CASE e = h
    BY <1>1, <1>4, <2>2
  <2>3. CASE ~(e.id <= LastOf(got)) /\ e # h
    <3>1. LastOf(got) < e.id /\ e.id \in Nat
      BY <1>3, <2>3 DEF Identified
    <3>2. ~(\A i \in DOMAIN queue : queue[i].id < e.id)
      BY <1>2, <1>8, <3>1
    <3>3. PICK i \in DOMAIN queue : queue[i] = e
      BY <1>8, <3>1, <3>2 DEF QueueOK
    <3>4. i # 1 /\ i \in Nat \ {0}
      BY <2>3, <3>3 DEF QueueOK
    <3>5. h.id < e.id
      BY <1>2, <3>3, <3>4 DEF QueueOK
    <3> QED BY <1>2, <1>8, <3>1, <3>5
  <2> QED BY <2>1, <2>2, <2>3
<1> QED BY <1>4, <1>5, <1>6, <1>7, <1>8 DEF ClientOK

LEMMA RestOfQueue ==
    ASSUME NEW queue, NEW cur, NEW es, NEW one, QueueOK(queue, cur, es, one),
           Identified(es), cur \in Nat, NEW h, h = queue[1], NEW rest, rest = Tail(queue),
           rest # <<>>
    PROVE  QueueOK(rest, h.id, es, one)
<1>1. /\ queue \in Seq(es) /\ Len(queue) \in Nat \ {0} /\ DOMAIN queue = 1..Len(queue)
      /\ \A i \in 1..Len(queue) : queue[i] \in es
    BY EmptySeq, LenProperties, ElementOfSeq DEF QueueOK
<1>2. /\ rest \in Seq(es) /\ Len(rest) = Len(queue) - 1 /\ DOMAIN rest = 1..(Len(queue) - 1)
      /\ \A i \in 1..(Len(queue) - 1) : rest[i] = queue[i + 1] /\ i + 1 \in 1..Len(queue)
    BY <1>1, HeadTailProperties, LenProperties DEF QueueOK
<1>3. \A i, j \in DOMAIN rest : i < j => rest[i].id < rest[j].id
    BY <1>1, <1>2 DEF QueueOK
<1>4. \A i \in DOMAIN rest : h.id < rest[i].id
    BY <1>1, <1>2 DEF QueueOK
<1>5. h \in es /\ h.id \in Nat /\ cur < h.id
    BY <1>1 DEF QueueOK, Identified
<1>6. ASSUME one, NEW e \in es, h.id < e.id
      PROVE  \/ \E i \in DOMAIN rest : rest[i] = e
             \/ \A i \in DOMAIN rest : rest[i].id < e.id
  <2>1. cur < e.id /\ e.id \in Nat
    BY <1>5, <1>6 DEF Identified
  <2>2. CASE \A i \in DOMAIN queue : queue[i].id < e.id
    BY <1>1, <1>2, <2>2
  <2>3. ASSUME NEW i \in DOMAIN queue, queue[i] = e
        PROVE  \E k \in DOMAIN rest : rest[k] = e
    <3>1. i # 1
      BY <1>5, <1>6, <2>1, <2>3
    <3>2. i - 1 \in 1..(Len(queue) - 1) /\ (i - 1) + 1 = i
      BY <1>1, <3>1
    <3>3. rest[i - 1] = e
      BY <1>2, <2>3, <3>2
    <3> QED BY <1>2, <3>2, <3>3
  <2> QED BY <1>6, <2>1, <2>2, <2>3 DEF QueueOK
<1> QED BY <1>2, <1>3, <1>4, <1>6 DEF QueueOK

(* What a connection reads: all rows after its cursor, in order.           *)
LEMMA ReadQueue ==
    ASSUME NEW cur \in Nat, NEW es, Identified(es), NEW later,
           later = {e \in es : e.id > cur}, later # {}, NEW one,
           NEW queue, queue = ById(later)
    PROVE  QueueOK(queue, cur, es, one)
<1>1. later \in SUBSET es /\ \A e \in later : cur < e.id
    BY DEF Identified
<1>2. Identified(later)
    BY <1>1, FS_Subset DEF Identified
<1>3. Listed(queue, later)
    BY <1>2, ByIdLists
<1>4. queue \in Seq(later) /\ DOMAIN queue = 1..Len(queue)
      /\ \A i \in 1..Len(queue) : queue[i] \in later
    BY <1>3, ElementOfSeq, LenProperties DEF Listed
<1>5. queue \in Seq(es)
    BY <1>1, <1>4, SeqMonotonic
<1>6. queue # <<>>
    BY <1>3 DEF Listed
<1>7. \A e \in es : cur < e.id => \E i \in DOMAIN queue : queue[i] = e
    BY <1>3 DEF Listed, Identified
<1> QED BY <1>1, <1>3, <1>4, <1>5, <1>6, <1>7 DEF QueueOK, Listed

-----------------------------------------------------------------------------
(* The store's steps.                                                      *)

LEMMA RowAdded ==
    ASSUME NEW es, Identified(es), NEW r, r.id \in Nat \ {0},
           \A e \in es : e.id # r.id
    PROVE  Identified(es \cup {r})
<1>1. IsFiniteSet(es \cup {r})
    BY FS_AddElement DEF Identified
<1>2. \A e \in es \cup {r} : e.id \in Nat \ {0}
    BY DEF Identified
<1>3. \A e, f \in es \cup {r} : e.id = f.id => e = f
    BY DEF Identified
<1> QED BY <1>1, <1>2, <1>3 DEF Identified

(* What a step may do to the rows without disturbing a connection.         *)
RowsGrow ==
    /\ Identified(streamEvents') /\ streamEvents \subseteq streamEvents'
    /\ deliveries \subseteq deliveries' /\ procOf' = procOf
    /\ OneWriter => \A e \in streamEvents, f \in streamEvents' \ streamEvents : e.id < f.id

LEMMA ConnKept ==
    ASSUME ClientInv, RowsGrow, NEW c \in Conns
    PROVE  ConnOK(c, pc[c], pending[c], cursor[c], received[c],
                  streamEvents', deliveries', OneWriter')
<1>1. OneWriter' = OneWriter
    BY DEF RowsGrow, OneWriter
<1>2. ConnOK(c, pc[c], pending[c], cursor[c], received[c], streamEvents, deliveries,
             OneWriter)
    BY DEF ClientInv
<1>3. PICK one : one = OneWriter
    OBVIOUS
<1>4. ClientOK(c, received[c], streamEvents', deliveries', one)
    BY <1>2, <1>3, ClientKept DEF ConnOK, RowsGrow
<1>5. ServeOK(c, pc[c], pending[c], cursor[c], received[c], streamEvents', deliveries', one)
    BY <1>2, <1>3, ServeKept DEF ConnOK, RowsGrow
<1> QED BY <1>1, <1>3, <1>4, <1>5 DEF ConnOK

LEMMA AllConnsKept ==
    ASSUME ClientInv, RowsGrow, UNCHANGED <<pc, pending, cursor, received>>
    PROVE  ClientInv'
<1>1. \A c \in Conns : ConnOK(c, pc[c], pending[c], cursor[c], received[c],
                              streamEvents', deliveries', OneWriter')
    BY ConnKept
<1> QED BY <1>1 DEF ClientInv

(* One connection moves, and the others stand.                             *)
LEMMA OneConnMoves ==
    ASSUME ClientInv, RowsGrow, NEW c \in Conns, NEW at, NEW queue, NEW cur, NEW got,
           pc' = [pc EXCEPT ![c] = at], pending' = [pending EXCEPT ![c] = queue],
           cursor' = [cursor EXCEPT ![c] = cur], received' = [received EXCEPT ![c] = got],
           ConnOK(c, at, queue, cur, got, streamEvents', deliveries', OneWriter')
    PROVE  ClientInv'
<1>1. /\ pc' = [d \in Conns |-> pc'[d]] /\ pending' = [d \in Conns |-> pending'[d]]
      /\ cursor' = [d \in Conns |-> cursor'[d]] /\ received' = [d \in Conns |-> received'[d]]
    BY DEF ClientInv
<1>2. ASSUME NEW d \in Conns
      PROVE  ConnOK(d, pc'[d], pending'[d], cursor'[d], received'[d],
                    streamEvents', deliveries', OneWriter')
  <2>1. CASE d = c
    <3>1. pc'[d] = at /\ pending'[d] = queue /\ cursor'[d] = cur /\ received'[d] = got
      BY <2>1 DEF ClientInv
    <3> QED BY <2>1, <3>1
  <2>2. CASE d # c
    <3>1. /\ pc'[d] = pc[d] /\ pending'[d] = pending[d] /\ cursor'[d] = cursor[d]
          /\ received'[d] = received[d]
      BY <2>2 DEF ClientInv
    <3>2. ConnOK(d, pc[d], pending[d], cursor[d], received[d],
                 streamEvents', deliveries', OneWriter')
      BY ConnKept
    <3> QED BY <3>1, <3>2
  <2> QED BY <2>1, <2>2
<1> QED BY <1>1, <1>2 DEF ClientInv

(* A step that leaves the store alone.                                     *)
LEMMA StoreStands ==
    ASSUME RowsInv, WriterInv, UNCHANGED <<fixed, store>>
    PROVE  RowsInv' /\ WriterInv'
<1>1. UNCHANGED <<procOf, streamEvents, lastId, txn>>
    BY DEF fixed, store
<1> QED BY <1>1 DEF RowsInv, WriterInv, OneWriter

LEMMA NothingGrows ==
    ASSUME RowsInv, UNCHANGED <<fixed, store>>, deliveries \subseteq deliveries'
    PROVE  RowsGrow
BY DEF RowsInv, RowsGrow, fixed, store

LEMMA StreamInitInv ==
    ASSUME StreamInit
    PROVE  StreamInv
<1>1. RowsInv
    BY StreamAssumption, FS_EmptySet DEF StreamInit, RowsInv, Identified
<1>2. WriterInv
    BY DEF StreamInit, WriterInv
<1>3. ASSUME NEW c \in Conns
      PROVE  ConnOK(c, pc[c], pending[c], cursor[c], received[c],
                    streamEvents, deliveries, OneWriter)
  <2>1. pc[c] = "closed" /\ received[c] = <<>> /\ streamEvents = {}
    BY DEF StreamInit
  <2>2. ClientOK(c, <<>>, {}, deliveries, OneWriter)
    BY DEF ClientOK
  <2>3. ServeOK(c, "closed", pending[c], cursor[c], <<>>, {}, deliveries, OneWriter)
    BY DEF ServeOK, Locations
  <2> QED BY <2>1, <2>2, <2>3 DEF ConnOK
<1>4. ClientInv
    BY <1>3 DEF ClientInv, StreamInit
<1> QED BY <1>1, <1>2, <1>4 DEF StreamInv

(* An insert becomes a row: no other insert has its identifier, and a sole *)
(* writer has no other insert.                                             *)
LEMMA CommitKeeps ==
    ASSUME StreamInv, NEW p \in Procs, Commit(p)
    PROVE  StreamInv'
<1>1. /\ RowsInv /\ WriterInv /\ ClientInv /\ txn[p] # NoInsert
      /\ streamEvents' = streamEvents \cup {txn[p]} /\ txn' = [txn EXCEPT ![p] = NoInsert]
      /\ UNCHANGED <<procOf, lastId, pc, pending, cursor, deliveries, received>>
    BY DEF StreamInv, Commit, fixed
<1>2. PICK r : r = txn[p]
    OBVIOUS
<1>3. r.id \in 1..lastId /\ lastId \in Nat /\ \A e \in streamEvents : e.id # r.id
    BY <1>1, <1>2 DEF RowsInv
<1>4. Identified(streamEvents')
    BY <1>1, <1>2, <1>3, RowAdded DEF RowsInv
<1>5. /\ txn' = [q \in Procs |-> txn'[q]]
      /\ \A q \in Procs : txn'[q] # NoInsert => q # p /\ txn'[q] = txn[q]
    BY <1>1 DEF RowsInv
<1>6. RowsInv'
  <2>1. \A e \in streamEvents' : e.id <= lastId'
    BY <1>1, <1>2, <1>3 DEF RowsInv
  <2>2. ASSUME NEW q \in Procs, txn'[q] # NoInsert
        PROVE  txn'[q].id \in 1..lastId' /\ \A e \in streamEvents' : e.id # txn'[q].id
    <3>1. q # p /\ txn'[q] = txn[q] /\ txn[q] # NoInsert
      BY <1>5, <2>2
    <3>2. txn[q].id # r.id
      BY <1>1, <1>2, <3>1 DEF RowsInv
    <3> QED BY <1>1, <1>2, <3>1, <3>2 DEF RowsInv
  <2>3. ASSUME NEW q \in Procs, NEW o \in Procs, txn'[q] # NoInsert, txn'[o] # NoInsert,
               txn'[q].id = txn'[o].id
        PROVE  q = o
    BY <1>1, <1>5, <2>3 DEF RowsInv
  <2>4. procOf' \in [Conns -> Procs] /\ lastId' \in Nat
    BY <1>1 DEF RowsInv
  <2> QED BY <1>4, <1>5, <2>1, <2>2, <2>3, <2>4 DEF RowsInv
<1>7. OneWriter => \A q \in Procs : txn[q] # NoInsert => q = p
    BY <1>1 DEF WriterInv, OneWriter
<1>8. WriterInv'
  <2>1. OneWriter' = OneWriter
    BY <1>1 DEF OneWriter
  <2>2. \A q \in Procs : txn'[q] # NoInsert => \E c \in Conns : procOf'[c] = q
    BY <1>1, <1>5 DEF WriterInv
  <2>3. OneWriter' => \A q \in Procs : txn'[q] = NoInsert
    BY <1>5, <1>7, <2>1
  <2> QED BY <2>2, <2>3 DEF WriterInv
<1>9. RowsGrow
    BY <1>1, <1>2, <1>4 DEF RowsGrow, WriterInv
<1>10. ClientInv'
    BY <1>1, <1>9, AllConnsKept
<1> QED BY <1>6, <1>8, <1>10 DEF StreamInv

(* A new identifier is drawn: it is beyond every row and every insert.     *)
LEMMA RowCommitted ==
    ASSUME RowsInv, WriterInv, NEW c \in Conns, Free(c), NEW r, r.id = lastId + 1,
           streamEvents' = streamEvents \cup {r}, lastId' = lastId + 1,
           UNCHANGED <<procOf, txn, deliveries>>
    PROVE  RowsInv' /\ WriterInv' /\ RowsGrow
<1>1. lastId \in Nat /\ \A e \in streamEvents : e.id \in Nat /\ e.id <= lastId
    BY DEF RowsInv, Identified
<1>2. r.id \in Nat \ {0} /\ \A e \in streamEvents : e.id < r.id /\ e.id # r.id
    BY <1>1
<1>3. Identified(streamEvents')
    BY <1>2, RowAdded DEF RowsInv
<1>4. \A p \in Procs : txn[p] # NoInsert =>
         txn[p].id \in 1..(lastId + 1) /\ txn[p].id # r.id
  <2>1. \A p \in Procs : txn[p] # NoInsert => txn[p].id \in 1..lastId
    BY DEF RowsInv
  <2> QED BY <1>1, <2>1
<1>5. RowsInv'
  <2>1. \A e \in streamEvents' : e.id <= lastId'
    BY <1>1
  <2>2. \A p \in Procs : txn'[p] # NoInsert =>
           txn'[p].id \in 1..lastId' /\ \A e \in streamEvents' : e.id # txn'[p].id
    BY <1>4 DEF RowsInv
  <2> QED BY <1>1, <1>3, <2>1, <2>2 DEF RowsInv
<1>6. WriterInv'
  <2>1. OneWriter => \A p \in Procs : txn[p] = NoInsert
    BY DEF WriterInv, OneWriter, Free
  <2> QED BY <2>1 DEF WriterInv, OneWriter
<1>7. RowsGrow
    BY <1>2, <1>3 DEF RowsGrow
<1> QED BY <1>5, <1>6, <1>7

LEMMA RowInserted ==
    ASSUME RowsInv, WriterInv, NEW c \in Conns, Free(c), NEW r, r.id = lastId + 1,
           txn' = [txn EXCEPT ![procOf[c]] = r], lastId' = lastId + 1,
           UNCHANGED <<procOf, streamEvents, deliveries>>
    PROVE  RowsInv' /\ WriterInv' /\ RowsGrow
<1>1. PICK p \in Procs : p = procOf[c]
    BY DEF RowsInv
<1>2. /\ txn' = [q \in Procs |-> txn'[q]] /\ txn'[p] = r
      /\ \A q \in Procs : q # p => txn'[q] = txn[q]
    BY <1>1 DEF RowsInv
<1>3. lastId \in Nat /\ \A e \in streamEvents : e.id \in Nat /\ e.id <= lastId
    BY DEF RowsInv, Identified
<1>4. r.id \in 1..(lastId + 1) /\ \A e \in streamEvents : e.id < r.id /\ e.id # r.id
    BY <1>3
<1>5. \A q \in Procs : txn[q] # NoInsert => txn[q].id \in 1..lastId
    BY DEF RowsInv
<1>6. \A q \in Procs : txn[q] # NoInsert =>
         txn[q].id \in 1..(lastId + 1) /\ txn[q].id # r.id
    BY <1>3, <1>5
<1>7. RowsInv'
  <2>1. ASSUME NEW q \in Procs, txn'[q] # NoInsert
        PROVE  txn'[q].id \in 1..lastId' /\ \A e \in streamEvents' : e.id # txn'[q].id
    <3>1. CASE q = p
      BY <1>2, <1>4, <3>1
    <3>2. CASE q # p
      BY <1>2, <1>6, <2>1, <3>2 DEF RowsInv
    <3> QED BY <3>1, <3>2
  <2>2. ASSUME NEW q \in Procs, NEW o \in Procs, txn'[q] # NoInsert, txn'[o] # NoInsert,
               txn'[q].id = txn'[o].id
        PROVE  q = o
    <3>1. CASE q # p /\ o # p
      BY <1>2, <2>2, <3>1 DEF RowsInv
    <3>2. CASE q = p \/ o = p
      BY <1>2, <1>6, <2>2, <3>2
    <3> QED BY <3>1, <3>2
  <2>3. \A e \in streamEvents' : e.id <= lastId'
    BY <1>3
  <2>4. Identified(streamEvents') /\ lastId' \in Nat /\ procOf' \in [Conns -> Procs]
    BY <1>3 DEF RowsInv
  <2> QED BY <1>2, <2>1, <2>2, <2>3, <2>4 DEF RowsInv
<1>8. WriterInv'
  <2>1. OneWriter' = OneWriter
    BY DEF OneWriter
  <2>2. ASSUME NEW q \in Procs, txn'[q] # NoInsert
        PROVE  /\ \E d \in Conns : procOf'[d] = q
               /\ OneWriter' => \A e \in streamEvents' : e.id < txn'[q].id
    <3>1. CASE q = p
      BY <1>1, <1>2, <1>4, <3>1
    <3>2. CASE q # p
      BY <1>2, <2>1, <2>2, <3>2 DEF WriterInv
    <3> QED BY <3>1, <3>2
  <2> QED BY <2>2 DEF WriterInv
<1>9. RowsGrow
    BY DEF RowsGrow, RowsInv
<1> QED BY <1>7, <1>8, <1>9

LEMMA SyncStepKeeps ==
    ASSUME StreamInv, NEW c \in Conns, SyncStep(c)
    PROVE  StreamInv'
<1>1. /\ RowsInv /\ WriterInv /\ ClientInv
      /\ UNCHANGED <<procOf, deliveries>> /\ UNCHANGED <<pc, pending, cursor, received>>
    BY DEF StreamInv, SyncStep, Quiet, fixed
<1>2. PICK a, s : Project(c, a, s)
    BY DEF SyncStep
<1>3. PICK r : r = [id |-> lastId + 1, alert |-> a, status |-> s]
    OBVIOUS
<1>4. r.id = lastId + 1
    BY <1>3
<1>5. Free(c) /\ \/ UNCHANGED <<streamEvents, lastId, txn>>
                 \/ /\ lastId' = lastId + 1 /\ streamEvents' = streamEvents \cup {r}
                    /\ UNCHANGED txn
                 \/ /\ lastId' = lastId + 1 /\ txn' = [txn EXCEPT ![procOf[c]] = r]
                    /\ UNCHANGED streamEvents
    BY <1>2, <1>3 DEF Project
<1>6. RowsInv' /\ WriterInv' /\ RowsGrow
  <2>1. CASE UNCHANGED <<streamEvents, lastId, txn>>
    BY <1>1, <2>1 DEF RowsInv, WriterInv, OneWriter, RowsGrow
  <2>2. CASE lastId' = lastId + 1 /\ streamEvents' = streamEvents \cup {r} /\ UNCHANGED txn
    BY <1>1, <1>4, <1>5, <2>2, RowCommitted
  <2>3. CASE /\ lastId' = lastId + 1 /\ txn' = [txn EXCEPT ![procOf[c]] = r]
             /\ UNCHANGED streamEvents
    BY <1>1, <1>4, <1>5, <2>3, RowInserted
  <2> QED BY <1>5, <2>1, <2>2, <2>3
<1>7. ClientInv'
    BY <1>1, <1>6, AllConnsKept
<1> QED BY <1>6, <1>7 DEF StreamInv

-----------------------------------------------------------------------------
(* A connection's steps.  SameStore: it leaves the store alone and records *)
(* deliveries at most.                                                     *)

SameStore == UNCHANGED <<fixed, store>> /\ deliveries \subseteq deliveries'

LEMMA ConnMoves ==
    ASSUME StreamInv, SameStore, NEW c \in Conns, NEW at, NEW queue, NEW cur, NEW got,
           pc' = [pc EXCEPT ![c] = at], pending' = [pending EXCEPT ![c] = queue],
           cursor' = [cursor EXCEPT ![c] = cur], received' = [received EXCEPT ![c] = got],
           ConnOK(c, at, queue, cur, got, streamEvents, deliveries', OneWriter)
    PROVE  StreamInv'
<1>1. streamEvents' = streamEvents /\ OneWriter' = OneWriter
    BY DEF SameStore, fixed, store, OneWriter
<1>2. RowsInv' /\ WriterInv' /\ RowsGrow
    BY StoreStands, NothingGrows DEF SameStore, StreamInv
<1>3. ConnOK(c, at, queue, cur, got, streamEvents', deliveries', OneWriter')
    BY <1>1
<1>4. ClientInv'
    BY <1>2, <1>3, OneConnMoves DEF StreamInv
<1> QED BY <1>2, <1>4 DEF StreamInv

(* What a step that leaves a variable alone does to one connection of it.  *)
LEMMA SameEntry ==
    ASSUME ClientInv, NEW c \in Conns
    PROVE  /\ UNCHANGED pending => pending' = [pending EXCEPT ![c] = pending[c]]
           /\ UNCHANGED cursor => cursor' = [cursor EXCEPT ![c] = cursor[c]]
           /\ UNCHANGED received => received' = [received EXCEPT ![c] = received[c]]
BY DEF ClientInv

LEMMA ConnState ==
    ASSUME StreamInv, NEW c \in Conns
    PROVE  /\ ClientOK(c, received[c], streamEvents, deliveries, OneWriter)
           /\ ServeOK(c, pc[c], pending[c], cursor[c], received[c], streamEvents,
                      deliveries, OneWriter)
           /\ Resume(c) = LastOf(received[c]) /\ Resume(c) \in Nat
           /\ Identified(streamEvents)
<1>1. /\ ClientOK(c, received[c], streamEvents, deliveries, OneWriter)
      /\ ServeOK(c, pc[c], pending[c], cursor[c], received[c], streamEvents,
                 deliveries, OneWriter)
    BY DEF StreamInv, ClientInv, ConnOK
<1>2. Resume(c) = LastOf(received[c])
    BY DEF Resume, LastOf
<1> QED BY <1>1, <1>2, LastIsLast DEF StreamInv, RowsInv

LEMMA ConnectKeeps ==
    ASSUME StreamInv, NEW c \in Conns, Connect(c)
    PROVE  StreamInv'
<1>1. /\ SameStore /\ deliveries' = deliveries /\ UNCHANGED <<pending, received>>
      /\ pc' = [pc EXCEPT ![c] = "validate"] /\ cursor' = [cursor EXCEPT ![c] = Resume(c)]
    BY DEF Connect, Quiet, SameStore
<1>2. ConnOK(c, "validate", pending[c], Resume(c), received[c], streamEvents,
             deliveries', OneWriter)
    BY <1>1, ConnState DEF ConnOK, ServeOK, Locations
<1>3. /\ SameStore
      /\ pc' = [pc EXCEPT ![c] = "validate"] /\ cursor' = [cursor EXCEPT ![c] = Resume(c)]
    BY <1>1
<1>4. /\ pending' = [pending EXCEPT ![c] = pending[c]]
      /\ received' = [received EXCEPT ![c] = received[c]]
    BY <1>1, SameEntry DEF StreamInv
<1> QED BY <1>2, <1>3, <1>4, ConnMoves

(* The connection goes on, with no queue.                                  *)
LEMMA ConnGoesOn ==
    ASSUME StreamInv, NEW c \in Conns, pc[c] # "closed", NEW at,
           at \in {"closed", "loop", "sync"}, SameStore, deliveries' = deliveries,
           UNCHANGED <<cursor, received>>, NEW queue,
           pending' = [pending EXCEPT ![c] = queue], pc' = [pc EXCEPT ![c] = at]
    PROVE  StreamInv'
<1>1. ConnOK(c, at, queue, cursor[c], received[c], streamEvents, deliveries', OneWriter)
    BY ConnState DEF ConnOK, ServeOK, Locations
<1>2. /\ cursor' = [cursor EXCEPT ![c] = cursor[c]]
      /\ received' = [received EXCEPT ![c] = received[c]]
    BY SameEntry DEF StreamInv
<1> QED BY <1>1, <1>2, ConnMoves

LEMMA ValidateKeeps ==
    ASSUME StreamInv, NEW c \in Conns, Validate(c)
    PROVE  StreamInv'
<1>1. /\ SameStore /\ deliveries' = deliveries /\ UNCHANGED <<cursor, received>>
      /\ UNCHANGED pending /\ pc[c] # "closed"
      /\ \E at \in {"closed", "loop", "sync"} : pc' = [pc EXCEPT ![c] = at]
    BY DEF Validate, Quiet, SameStore
<1>2. pending' = [pending EXCEPT ![c] = pending[c]]
    BY <1>1, SameEntry DEF StreamInv
<1> QED BY <1>1, <1>2, ConnGoesOn

LEMMA LoopSyncKeeps ==
    ASSUME StreamInv, NEW c \in Conns, LoopSync(c)
    PROVE  StreamInv'
<1>1. /\ SameStore /\ deliveries' = deliveries /\ UNCHANGED <<cursor, received>>
      /\ UNCHANGED pending /\ pc[c] # "closed" /\ pc' = [pc EXCEPT ![c] = "sync"]
    BY DEF LoopSync, Quiet, SameStore
<1>2. pending' = [pending EXCEPT ![c] = pending[c]]
    BY <1>1, SameEntry DEF StreamInv
<1> QED BY <1>1, <1>2, ConnGoesOn

LEMMA LoseKeeps ==
    ASSUME StreamInv, NEW c \in Conns, Lose(c)
    PROVE  StreamInv'
<1>1. /\ SameStore /\ deliveries' = deliveries /\ UNCHANGED <<cursor, received>>
      /\ pending' = [pending EXCEPT ![c] = <<>>] /\ pc[c] # "closed"
      /\ pc' = [pc EXCEPT ![c] = "closed"]
    BY DEF Lose, SameStore
<1> QED BY <1>1, ConnGoesOn

LEMMA ReadPendingKeeps ==
    ASSUME StreamInv, NEW c \in Conns, ReadPending(c)
    PROVE  StreamInv'
<1>1. PICK later : later = EventsAfter(cursor[c])
    OBVIOUS
<1>2. PICK queue : queue = ById(later)
    OBVIOUS
<1>3. /\ SameStore /\ deliveries' = deliveries /\ UNCHANGED <<cursor, received>>
      /\ pc[c] = "sync" /\ pending' = [pending EXCEPT ![c] = queue]
      /\ pc' = [pc EXCEPT ![c] = IF later = {} THEN "loop" ELSE "send"]
    BY <1>1, <1>2 DEF ReadPending, Quiet, SameStore
<1>4. CASE later = {}
    BY <1>3, <1>4, ConnGoesOn
<1>5. CASE later # {}
  <2>1. cursor[c] \in Nat /\ cursor[c] = LastOf(received[c]) /\ Identified(streamEvents)
    BY <1>3, ConnState DEF ServeOK
  <2>2. later = {e \in streamEvents : e.id > cursor[c]}
    BY <1>1 DEF EventsAfter
  <2>3. QueueOK(queue, cursor[c], streamEvents, OneWriter)
    BY <1>2, <1>5, <2>1, <2>2, ReadQueue
  <2>4. ConnOK(c, "send", queue, cursor[c], received[c], streamEvents, deliveries', OneWriter)
    BY <1>3, <2>1, <2>3, ConnState DEF ConnOK, ServeOK, Locations
  <2>5. SameStore /\ pc' = [pc EXCEPT ![c] = "send"] /\ pending' = [pending EXCEPT ![c] = queue]
    BY <1>3, <1>5
  <2>6. /\ cursor' = [cursor EXCEPT ![c] = cursor[c]]
        /\ received' = [received EXCEPT ![c] = received[c]]
    BY <1>3, SameEntry DEF StreamInv
  <2> QED BY <2>4, <2>5, <2>6, ConnMoves
<1> QED BY <1>4, <1>5

LEMMA AuditKeeps ==
    ASSUME StreamInv, NEW c \in Conns, Audit(c)
    PROVE  StreamInv'
<1>1. /\ SameStore /\ UNCHANGED <<pending, cursor, received>> /\ pc[c] = "send"
      /\ deliveries' = deliveries \cup {<<c, Head(pending[c]).id>>}
      /\ pc' = [pc EXCEPT ![c] = "yield"]
    BY DEF Audit, Quiet, SameStore
<1>2. PICK queue : queue = pending[c]
    OBVIOUS
<1>3. QueueOK(queue, cursor[c], streamEvents, OneWriter) /\ cursor[c] = LastOf(received[c])
    BY <1>1, <1>2, ConnState DEF ServeOK
<1>4. Head(queue) = queue[1]
    BY DEF Head
<1>5. <<c, queue[1].id>> \in deliveries'
    BY <1>1, <1>2, <1>4
<1>6. ClientOK(c, received[c], streamEvents, deliveries', OneWriter)
    BY <1>1, ConnState, ClientKept
<1>7. ConnOK(c, "yield", queue, cursor[c], received[c], streamEvents, deliveries', OneWriter)
    BY <1>3, <1>5, <1>6 DEF ConnOK, ServeOK, Locations
<1>8. /\ SameStore /\ pc' = [pc EXCEPT ![c] = "yield"]
      /\ pending' = [pending EXCEPT ![c] = queue]
      /\ cursor' = [cursor EXCEPT ![c] = cursor[c]]
      /\ received' = [received EXCEPT ![c] = received[c]]
    BY <1>1, <1>2, SameEntry DEF StreamInv
<1> QED BY <1>7, <1>8, ConnMoves

LEMMA YieldKeeps ==
    ASSUME StreamInv, NEW c \in Conns, Yield(c)
    PROVE  StreamInv'
<1>1. PICK queue, h, got, new, rest :
         /\ queue = pending[c] /\ h = queue[1] /\ got = received[c]
         /\ new = Append(got, h.id) /\ rest = Tail(queue)
    OBVIOUS
<1>2. Head(queue) = h
    BY <1>1 DEF Head
<1>3. /\ SameStore /\ deliveries' = deliveries /\ pc[c] = "yield"
      /\ received' = [received EXCEPT ![c] = new] /\ cursor' = [cursor EXCEPT ![c] = h.id]
      /\ pending' = [pending EXCEPT ![c] = rest]
      /\ pc' = [pc EXCEPT ![c] = IF Len(queue) = 1 THEN "loop" ELSE "send"]
    BY <1>1, <1>2 DEF Yield, Quiet, SameStore
<1>4. /\ ClientOK(c, got, streamEvents, deliveries, OneWriter) /\ Identified(streamEvents)
      /\ QueueOK(queue, LastOf(got), streamEvents, OneWriter) /\ LastOf(got) \in Nat
      /\ <<c, h.id>> \in deliveries
    BY <1>1, <1>3, ConnState DEF ServeOK
<1>5. ClientOK(c, new, streamEvents, deliveries, OneWriter) /\ LastOf(new) = h.id
  <2>1. PICK one : one = OneWriter
    OBVIOUS
  <2>2. /\ ClientOK(c, got, streamEvents, deliveries, one)
        /\ QueueOK(queue, LastOf(got), streamEvents, one)
    BY <1>4, <2>1
  <2>3. Handed(c, queue, h, got, new, deliveries) /\ Identified(streamEvents)
    BY <1>1, <1>4 DEF Handed
  <2>4. ClientOK(c, new, streamEvents, deliveries, one) /\ LastOf(new) = h.id
    BY <2>2, <2>3, FrameToClient
  <2> QED BY <2>1, <2>4
<1>6. Len(queue) # 1 => rest # <<>>
  <2>1. queue \in Seq(streamEvents) /\ queue # <<>>
    BY <1>4 DEF QueueOK
  <2>2. rest \in Seq(streamEvents) /\ Len(rest) = Len(queue) - 1 /\ Len(queue) \in Nat
    BY <1>1, <2>1, HeadTailProperties, LenProperties
  <2> QED BY <2>2, EmptySeq
<1>7. Len(queue) # 1 => QueueOK(rest, h.id, streamEvents, OneWriter)
    BY <1>1, <1>4, <1>6, RestOfQueue
<1>8. PICK at : at = IF Len(queue) = 1 THEN "loop" ELSE "send"
    OBVIOUS
<1>9. ServeOK(c, at, rest, h.id, new, streamEvents, deliveries, OneWriter)
    BY <1>5, <1>7, <1>8 DEF ServeOK, Locations
<1>10. ConnOK(c, at, rest, h.id, new, streamEvents, deliveries', OneWriter)
    BY <1>3, <1>5, <1>9 DEF ConnOK
<1> QED BY <1>3, <1>8, <1>10, ConnMoves

-----------------------------------------------------------------------------
(* Every step keeps the invariant.                                         *)

LEMMA StreamStepInv ==
    ASSUME StreamInv, [StreamNext]_streamVars
    PROVE  StreamInv'
<1>1. CASE UNCHANGED streamVars \/ \E f \in Feedbacks : RecordFeedback(f)
  <2>1. UNCHANGED <<fixed, store, pc, pending, cursor, deliveries, received>>
    BY <1>1 DEF streamVars, RecordFeedback, fixed, store
  <2>2. RowsInv' /\ WriterInv' /\ RowsGrow
    BY <2>1, StoreStands, NothingGrows DEF StreamInv
  <2> QED BY <2>1, <2>2, AllConnsKept DEF StreamInv
<1>2. CASE \E p \in Procs : Commit(p)
    BY <1>2, CommitKeeps
<1>3. CASE \E c \in Conns : Turn(c) \/ Lose(c)
    BY <1>3, ConnectKeeps, SyncStepKeeps, ValidateKeeps, LoopSyncKeeps, ReadPendingKeeps,
       AuditKeeps, YieldKeeps, LoseKeeps DEF Turn
<1> QED BY <1>1, <1>2, <1>3 DEF StreamNext

(* ClientsGetTheLog: for any clients, processes, feedback and number of    *)
(* failures, what a client of stream_frames has received was audited       *)
(* first, is in the order of the identifiers without repetition and, when  *)
(* one process writes, has no gap.                                         *)
THEOREM ClientsGetTheLog == StreamSpec => []ClientsSeeTheLog
<1>1. StreamInv => ClientsSeeTheLog
  <2>1. ASSUME StreamInv PROVE NothingSkipped
    BY <2>1, ConnState DEF ClientOK, NothingSkipped
  <2>2. ASSUME StreamInv PROVE NoFrameTwice
    BY <2>2, ConnState DEF ClientOK, NoFrameTwice
  <2>3. ASSUME StreamInv PROVE AuditBeforeFrame
    BY <2>3, ConnState DEF ClientOK, AuditBeforeFrame
  <2> QED BY <2>1, <2>2, <2>3 DEF ClientsSeeTheLog
<1> QED BY <1>1, StreamInitInv, StreamStepInv, PTL DEF StreamSpec

-----------------------------------------------------------------------------
(* Feedback.                                                               *)

(* A finite set in a total order, and where its members stand.             *)
Chain(S, R) ==
    /\ IsFiniteSet(S)
    /\ \A x \in S : <<x, x>> \in R
    /\ \A x, y \in S : <<x, y>> \in R \/ <<y, x>> \in R
    /\ \A x, y \in S : <<x, y>> \in R /\ <<y, x>> \in R => x = y
    /\ \A x, y, z \in S : <<x, y>> \in R /\ <<y, z>> \in R => <<x, z>> \in R

Standing(S, R, x) == Cardinality({y \in S : <<y, x>> \in R})

LEMMA StandingGrows ==
    ASSUME NEW S, NEW R, Chain(S, R), NEW x \in S, NEW y \in S, <<x, y>> \in R, x # y
    PROVE  Standing(S, R, x) < Standing(S, R, y)
<1> DEFINE E == {z \in S : <<z, x>> \in R}
           F == {z \in S : <<z, y>> \in R}
<1>1. E \in SUBSET F /\ y \in F /\ y \notin E /\ F \in SUBSET S
    BY DEF Chain
<1>2. IsFiniteSet(F) /\ IsFiniteSet(E)
    BY <1>1, FS_Subset DEF Chain
<1> HIDE DEF E, F
<1>3. Cardinality(E) <= Cardinality(F) /\ Cardinality(E) # Cardinality(F)
    BY <1>1, <1>2, FS_Subset
<1>4. Cardinality(E) \in Nat /\ Cardinality(F) \in Nat
    BY <1>2, FS_CardinalityType
<1>5. Cardinality(E) < Cardinality(F)
    BY <1>3, <1>4
<1> QED BY <1>5 DEF Standing, E, F

LEMMA StandingInRange ==
    ASSUME NEW S, NEW R, Chain(S, R), NEW x \in S
    PROVE  Standing(S, R, x) \in 1..Cardinality(S)
<1> DEFINE E == {z \in S : <<z, x>> \in R}
<1>1. E \in SUBSET S /\ x \in E
    BY DEF Chain
<1> HIDE DEF E
<1>2. IsFiniteSet(E) /\ Cardinality(E) <= Cardinality(S)
    BY <1>1, FS_Subset DEF Chain
<1>3. Cardinality(E) \in Nat /\ Cardinality(S) \in Nat /\ Cardinality(E) # 0
    BY <1>1, <1>2, FS_CardinalityType, FS_EmptySet DEF Chain
<1>4. Cardinality(E) \in 1..Cardinality(S)
    BY <1>2, <1>3
<1> QED BY <1>4 DEF Standing, E

LEMMA SameStanding ==
    ASSUME NEW S, NEW R, Chain(S, R), NEW x \in S, NEW y \in S,
           Standing(S, R, x) = Standing(S, R, y)
    PROVE  x = y
<1>1. Standing(S, R, x) \in Nat /\ Standing(S, R, y) \in Nat
    BY StandingInRange, FS_CardinalityType DEF Chain
<1>2. <<x, y>> \in R \/ <<y, x>> \in R
    BY DEF Chain
<1> QED BY <1>1, <1>2, StandingGrows

LEMMA EveryStanding ==
    ASSUME NEW S, NEW R, Chain(S, R), NEW i \in 1..Cardinality(S)
    PROVE  \E x \in S : Standing(S, R, x) = i
<1> DEFINE n == Cardinality(S)
           r == [x \in S |-> Standing(S, R, x)]
           T == {Standing(S, R, x) : x \in S}
<1>1. n \in Nat
    BY FS_CardinalityType DEF Chain
<1>2. r \in [S -> T]
    OBVIOUS
<1>3. \A x, y \in S : r[x] = r[y] => x = y
    BY SameStanding
<1>4. \A t \in T : \E x \in S : r[x] = t
    OBVIOUS
<1> HIDE DEF r, T
<1>5. r \in Bijection(S, T)
    BY <1>2, <1>3, <1>4 DEF Bijection, Injection, Surjection, IsInjective
<1>6. Cardinality(T) = n
    BY <1>5, FS_Bijection DEF ExistsBijection, Chain
<1>7. T \in SUBSET (1..n)
    BY StandingInRange DEF T
<1>8. IsFiniteSet(1..n) /\ Cardinality(1..n) = n
    BY <1>1, FS_Interval
<1>9. T = 1..n
    BY <1>6, <1>7, <1>8, FS_Subset
<1> QED BY <1>9 DEF T

-----------------------------------------------------------------------------
(* ORDER BY recorded_at.                                                   *)

FeedbackInv == feedback \in Seq(Feedbacks)

RecordsOf(a) == {i \in DOMAIN feedback : feedback[i].alert = a}
RecordOrder(a) ==
    {p \in RecordsOf(a) \X RecordsOf(a) : NotAfter(p[1], p[2])}

LEMMA FeedbackTyped ==
    ASSUME FeedbackInv, NEW i \in DOMAIN feedback
    PROVE  /\ feedback[i].kind \in FeedbackKinds
           /\ feedback[i].at \in Nat /\ feedback[i].text \in Nat
           /\ OrderKey(feedback[i]) \in Nat /\ i \in Nat
<1>1. feedback[i] \in Feedbacks /\ i \in Nat
    BY DEF FeedbackInv
<1> QED BY <1>1, StreamAssumption DEF OrderKey

LEMMA RecordsInOrder ==
    ASSUME FeedbackInv, NEW a
    PROVE  Chain(RecordsOf(a), RecordOrder(a))
<1>1. PICK S : S = RecordsOf(a)
    OBVIOUS
<1>2. S \subseteq DOMAIN feedback
    BY <1>1 DEF RecordsOf
<1>3. IsFiniteSet(S)
  <2>1. Len(feedback) \in Int /\ DOMAIN feedback = 1..Len(feedback)
    BY DEF FeedbackInv
  <2> QED BY <1>2, <2>1, FS_Interval, FS_Subset
<1>4. PICK key : key = [i \in DOMAIN feedback |-> OrderKey(feedback[i])]
    OBVIOUS
<1>5. \A i \in S : key[i] \in Nat /\ i \in Nat
    BY <1>2, <1>4, FeedbackTyped
<1>6. \A i, j \in S : <<i, j>> \in RecordOrder(a)
                        <=> key[i] < key[j] \/ (key[i] = key[j] /\ i <= j)
  <2>1. SUFFICES ASSUME NEW i \in S, NEW j \in S
                 PROVE  <<i, j>> \in RecordOrder(a)
                          <=> key[i] < key[j] \/ (key[i] = key[j] /\ i <= j)
    OBVIOUS
  <2>2. <<i, j>> \in RecordOrder(a) <=> NotAfter(i, j)
    BY <1>1, Zenon DEF RecordOrder
  <2>3. key[i] = OrderKey(feedback[i]) /\ key[j] = OrderKey(feedback[j])
    BY <1>2, <1>4
  <2> QED BY <2>2, <2>3 DEF NotAfter
<1>7. \A x \in S : <<x, x>> \in RecordOrder(a)
    BY <1>5, <1>6
<1>8. \A x, y \in S : <<x, y>> \in RecordOrder(a) \/ <<y, x>> \in RecordOrder(a)
  <2>1. SUFFICES ASSUME NEW x \in S, NEW y \in S
                 PROVE  <<x, y>> \in RecordOrder(a) \/ <<y, x>> \in RecordOrder(a)
    OBVIOUS
  <2>2. \/ key[x] < key[y] \/ (key[x] = key[y] /\ x <= y)
        \/ key[y] < key[x] \/ (key[y] = key[x] /\ y <= x)
    BY <1>5, <2>1
  <2> QED BY <1>6, <2>2
<1>9. \A x, y \in S : <<x, y>> \in RecordOrder(a) /\ <<y, x>> \in RecordOrder(a) => x = y
    BY <1>5, <1>6
<1>10. \A x, y, z \in S : <<x, y>> \in RecordOrder(a) /\ <<y, z>> \in RecordOrder(a)
                             => <<x, z>> \in RecordOrder(a)
    BY <1>5, <1>6
<1> QED BY <1>1, <1>3, <1>7, <1>8, <1>9, <1>10 DEF Chain

(* Every record of an alert stands at its place.                           *)
LEMMA OrderedIs ==
    ASSUME FeedbackInv, NEW a
    PROVE  /\ Cardinality(RecordsOf(a)) \in Nat
           /\ DOMAIN Ordered(a) = 1..Cardinality(RecordsOf(a))
           /\ \A n \in DOMAIN Ordered(a) :
                 /\ Ordered(a)[n] \in RecordsOf(a)
                 /\ Standing(RecordsOf(a), RecordOrder(a), Ordered(a)[n]) = n
           /\ \A i \in RecordsOf(a) : \E n \in DOMAIN Ordered(a) : Ordered(a)[n] = i
<1>1. PICK S, R : S = RecordsOf(a) /\ R = RecordOrder(a)
    OBVIOUS
<1>2. Chain(S, R)
    BY <1>1, RecordsInOrder
<1>3. Cardinality(S) \in Nat
    BY <1>2, FS_CardinalityType DEF Chain
<1>4. \A j \in S : {i \in S : NotAfter(i, j)} = {i \in S : <<i, j>> \in R}
    BY <1>1 DEF RecordOrder
<1>5. \A j \in S : Cardinality({i \in S : NotAfter(i, j)}) = Standing(S, R, j)
    BY <1>4 DEF Standing
<1>6. Ordered(a) = [n \in 1..Cardinality(S) |->
                       CHOOSE j \in S : Cardinality({i \in S : NotAfter(i, j)}) = n]
    BY <1>1 DEF Ordered, RecordsOf
<1>7. ASSUME NEW n \in 1..Cardinality(S)
      PROVE  Ordered(a)[n] \in S /\ Standing(S, R, Ordered(a)[n]) = n
  <2>1. \E j \in S : Cardinality({i \in S : NotAfter(i, j)}) = n
    BY <1>2, <1>5, EveryStanding
  <2>2. Ordered(a)[n] = CHOOSE j \in S : Cardinality({i \in S : NotAfter(i, j)}) = n
    BY <1>6
  <2>3. Ordered(a)[n] \in S /\ Cardinality({i \in S : NotAfter(i, Ordered(a)[n])}) = n
    BY <2>1, <2>2, Zenon
  <2> QED BY <1>5, <2>3
<1>8. ASSUME NEW i \in S PROVE \E n \in 1..Cardinality(S) : Ordered(a)[n] = i
  <2>1. PICK n \in 1..Cardinality(S) : n = Standing(S, R, i)
    BY <1>2, StandingInRange
  <2>2. Ordered(a)[n] \in S /\ Standing(S, R, Ordered(a)[n]) = Standing(S, R, i)
    BY <1>7, <2>1
  <2> QED BY <1>2, <2>2, SameStanding
<1>9. DOMAIN Ordered(a) = 1..Cardinality(S)
    BY <1>6
<1> QED BY <1>1, <1>3, <1>7, <1>8, <1>9

-----------------------------------------------------------------------------
(* The status: the fold as the library builds it, a function on the sets   *)
(* of places which it chooses.                                             *)

Folded(f, order) ==
    f = [s \in SUBSET DOMAIN order |->
            IF s = {} THEN "OPEN"
            ELSE StatusFor(feedback[order[Max(s)]].kind, f[s \ {Max(s)}])]

LEMMA StatusIsFolded ==
    ASSUME NEW a
    PROVE  StatusOf(a) = (CHOOSE f : Folded(f, Ordered(a)))[DOMAIN Ordered(a)]
BY DEF StatusOf, FoldLeft, MapThenFoldSet, Folded

(* A nonempty bounded set of numbers has a greatest one.                   *)
LEMMA GreatestNumber ==
    ASSUME NEW n \in Nat, NEW T \in SUBSET (1..n), T # {}
    PROVE  Max(T) \in T /\ \A k \in T : k <= Max(T)
<1>1. PICK U : U = {n - k : k \in T}
    OBVIOUS
<1>2. U \in SUBSET Nat /\ U # {}
  <2>1. \A k \in T : n - k \in Nat
    OBVIOUS
  <2>2. \E k \in T : n - k \in U
    BY <1>1
  <2> QED BY <1>1, <2>1, <2>2
<1>3. PICK u \in U : \A m \in U : u <= m
    BY <1>2, LeastNumber
<1>4. PICK x \in T : u = n - x
    BY <1>1
<1>5. ASSUME NEW k \in T PROVE x >= k
  <2>1. n - k \in U
    BY <1>1
  <2>2. u <= n - k
    BY <1>3, <2>1
  <2>3. k \in Int /\ x \in Int
    OBVIOUS
  <2> QED BY <1>4, <2>2, <2>3
<1>6. Max(T) \in T /\ \A k \in T : Max(T) >= k
  <2>1. \E y \in T : \A k \in T : y >= k
    BY <1>5
  <2> QED BY <2>1 DEF Max
<1>7. PICK m : m = Max(T)
    OBVIOUS
<1>8. m \in T /\ \A k \in T : m >= k
    BY <1>6, <1>7
<1>9. \A k \in T : k <= m
    BY <1>8
<1> QED BY <1>7, <1>8, <1>9

LEMMA GreatestIs ==
    ASSUME NEW n \in Nat, NEW T \in SUBSET (1..n), NEW x \in T, \A k \in T : k <= x
    PROVE  Max(T) = x
<1>1. PICK m : m = Max(T)
    OBVIOUS
<1>2. m \in T /\ x <= m /\ m <= x
    BY <1>1, GreatestNumber
<1> QED BY <1>1, <1>2

(* The records that change the status, and what the last of them leaves.   *)
Changing(order, s) == {r \in s : feedback[order[r]].kind # "MANUAL_JUDGMENT"}
LastStatus(order, s) ==
    IF Changing(order, s) = {} THEN "OPEN"
    ELSE StatusFor(feedback[order[Max(Changing(order, s))]].kind, "OPEN")

LEMMA StatusKept ==
    ASSUME NEW kind \in FeedbackKinds, NEW status
    PROVE  /\ kind = "MANUAL_JUDGMENT" => StatusFor(kind, status) = status
           /\ kind # "MANUAL_JUDGMENT" => StatusFor(kind, status) = StatusFor(kind, "OPEN")
BY DEF StatusFor, FeedbackKinds

(* One more record either changes the status or leaves it.                 *)
LEMMA LastStatusStep ==
    ASSUME NEW n \in Nat, NEW order, DOMAIN order = 1..n,
           \A r \in 1..n : feedback[order[r]].kind \in FeedbackKinds,
           NEW s \in SUBSET (1..n), s # {}
    PROVE  LastStatus(order, s)
             = StatusFor(feedback[order[Max(s)]].kind, LastStatus(order, s \ {Max(s)}))
<1>1. PICK x : x = Max(s)
    OBVIOUS
<1>2. x \in s /\ x \in 1..n /\ \A r \in s : r <= x
    BY <1>1, GreatestNumber
<1>3. PICK kind \in FeedbackKinds : kind = feedback[order[x]].kind
    BY <1>2
<1>4. CASE kind = "MANUAL_JUDGMENT"
  <2>1. Changing(order, s) = Changing(order, s \ {x})
    BY <1>3, <1>4 DEF Changing
  <2>2. LastStatus(order, s) = LastStatus(order, s \ {x})
    BY <2>1 DEF LastStatus
  <2> QED BY <1>1, <1>3, <1>4, <2>2, StatusKept
<1>5. CASE kind # "MANUAL_JUDGMENT"
  <2>1. /\ Changing(order, s) \in SUBSET (1..n)
        /\ x \in Changing(order, s)
        /\ \A r \in Changing(order, s) : r <= x
    BY <1>2, <1>3, <1>5 DEF Changing
  <2>2. Max(Changing(order, s)) = x
    BY <2>1, GreatestIs
  <2>3. LastStatus(order, s) = StatusFor(kind, "OPEN")
    BY <1>3, <2>1, <2>2 DEF LastStatus
  <2> QED BY <1>1, <1>3, <1>5, <2>3, StatusKept
<1> QED BY <1>4, <1>5

(* Any fold gives that status: at a smallest set where it does not, it     *)
(* does without the last place.                                            *)
LEMMA FoldedIsLast ==
    ASSUME NEW n \in Nat, NEW order, DOMAIN order = 1..n,
           \A r \in 1..n : feedback[order[r]].kind \in FeedbackKinds,
           NEW f, Folded(f, order)
    PROVE  f[1..n] = LastStatus(order, 1..n)
<1>1. PICK B : B = {s \in SUBSET (1..n) : f[s] # LastStatus(order, s)}
    OBVIOUS
<1>2. \A s \in SUBSET (1..n) : IsFiniteSet(s) /\ Cardinality(s) \in Nat
  <2>1. IsFiniteSet(1..n)
    BY FS_Interval, 1 \in Int, n \in Int
  <2>2. \A s \in SUBSET (1..n) : IsFiniteSet(s)
    BY <2>1, FS_Subset
  <2> QED BY <2>2, FS_CardinalityType
<1>3. ASSUME B # {} PROVE FALSE
  <2>1. PICK T : T = {Cardinality(s) : s \in B}
    OBVIOUS
  <2>2. T \in SUBSET Nat /\ T # {}
    BY <1>1, <1>2, <1>3, <2>1
  <2>3. PICK c \in T : \A m \in T : c <= m
    BY <2>2, LeastNumber
  <2>4. PICK s \in B : Cardinality(s) = c
    BY <2>1, <2>3
  <2>5. s \in SUBSET (1..n) /\ f[s] # LastStatus(order, s)
    BY <1>1, <2>4
  <2>6. f[s] = IF s = {} THEN "OPEN"
               ELSE StatusFor(feedback[order[Max(s)]].kind, f[s \ {Max(s)}])
    BY <2>5 DEF Folded
  <2>7. s # {}
    <3>1. LastStatus(order, {}) = "OPEN"
      BY DEF LastStatus, Changing
    <3> QED BY <2>5, <2>6, <3>1
  <2>8. PICK x : x = Max(s)
    OBVIOUS
  <2>9. x \in s /\ s \ {x} \in SUBSET (1..n)
    BY <2>5, <2>7, <2>8, GreatestNumber
  <2>10. Cardinality(s \ {x}) = c - 1 /\ c \in Nat
    BY <1>2, <2>4, <2>5, <2>9, FS_RemoveElement
  <2>11. s \ {x} \notin B
    BY <2>1, <2>3, <2>10
  <2>12. f[s \ {x}] = LastStatus(order, s \ {x})
    BY <1>1, <2>9, <2>11
  <2>13. LastStatus(order, s)
           = StatusFor(feedback[order[x]].kind, LastStatus(order, s \ {x}))
    BY <2>5, <2>7, <2>8, LastStatusStep
  <2>14. f[s] = StatusFor(feedback[order[x]].kind, LastStatus(order, s \ {x}))
    BY <2>6, <2>7, <2>8, <2>12
  <2> QED BY <2>5, <2>13, <2>14
<1> QED BY <1>1, <1>3

(* _with_feedback_status: the status is what the last status-changing      *)
(* record leaves.                                                          *)
LEMMA StatusIsLast ==
    ASSUME FeedbackInv, NEW a
    PROVE  StatusOf(a) = LastStatus(Ordered(a), DOMAIN Ordered(a))
<1>1. PICK order, n : order = Ordered(a) /\ n = Cardinality(RecordsOf(a))
    OBVIOUS
<1>2. n \in Nat /\ DOMAIN order = 1..n /\ \A r \in 1..n : order[r] \in DOMAIN feedback
    BY <1>1, OrderedIs DEF RecordsOf
<1>3. \A r \in 1..n : feedback[order[r]].kind \in FeedbackKinds
    BY <1>2, FeedbackTyped
<1>4. PICK g : g = [s \in SUBSET (1..n) |-> LastStatus(order, s)]
    OBVIOUS
<1>5. Folded(g, order)
  <2>1. ASSUME NEW s \in SUBSET (1..n)
        PROVE  g[s] = IF s = {} THEN "OPEN"
                      ELSE StatusFor(feedback[order[Max(s)]].kind, g[s \ {Max(s)}])
    <3>1. CASE s = {}
      BY <1>4, <3>1 DEF LastStatus, Changing
    <3>2. CASE s # {}
      <4>1. LastStatus(order, s)
              = StatusFor(feedback[order[Max(s)]].kind, LastStatus(order, s \ {Max(s)}))
        BY <1>2, <1>3, <3>2, LastStatusStep
      <4>2. s \ {Max(s)} \in SUBSET (1..n)
        OBVIOUS
      <4> QED BY <1>4, <3>2, <4>1, <4>2
    <3> QED BY <3>1, <3>2
  <2>2. g = [s \in SUBSET DOMAIN order |->
                IF s = {} THEN "OPEN"
                ELSE StatusFor(feedback[order[Max(s)]].kind, g[s \ {Max(s)}])]
    BY <1>2, <1>4, <2>1
  <2> QED BY ONLY <2>2, Zenon DEF Folded
<1>6. PICK f : f = CHOOSE h : Folded(h, order)
    OBVIOUS
<1>7. Folded(f, order)
    BY <1>5, <1>6
<1>8. f[1..n] = LastStatus(order, 1..n)
    BY <1>2, <1>3, <1>7, FoldedIsLast
<1>9. StatusOf(a) = f[1..n]
    BY <1>1, <1>2, <1>6, StatusIsFolded
<1> QED BY <1>1, <1>2, <1>8, <1>9

(* A record that is later than every other one that changes the status     *)
(* stands last among them.                                                 *)
LEMMA LatestStandsLast ==
    ASSUME FeedbackInv, NEW a, NEW fs,
           fs = {i \in DOMAIN feedback :
                    feedback[i].alert = a /\ feedback[i].kind # "MANUAL_JUDGMENT"},
           NEW i \in fs, \A j \in fs \ {i} : OrderKey(feedback[j]) < OrderKey(feedback[i])
    PROVE  StatusOf(a) = StatusFor(feedback[i].kind, "OPEN")
<1>1. PICK order, n, C : /\ order = Ordered(a) /\ n = Cardinality(RecordsOf(a))
                         /\ C = Changing(order, 1..n)
    OBVIOUS
<1>2. /\ n \in Nat /\ DOMAIN order = 1..n
      /\ \A r \in 1..n : order[r] \in RecordsOf(a)
      /\ \A r \in 1..n : Standing(RecordsOf(a), RecordOrder(a), order[r]) = r
      /\ \A j \in RecordsOf(a) : \E r \in 1..n : order[r] = j
    BY <1>1, OrderedIs
<1>3. \A j \in fs : j \in RecordsOf(a)
    BY DEF RecordsOf
<1>4. PICK p \in 1..n : order[p] = i
    BY <1>2, <1>3
<1>5. C \in SUBSET (1..n) /\ p \in C
    BY <1>1, <1>4 DEF Changing
<1>6. ASSUME NEW q \in C PROVE q <= p
  <2>1. PICK j : j = order[q]
    OBVIOUS
  <2>2. q \in 1..n /\ j \in fs
    BY <1>1, <1>2, <1>6, <2>1 DEF Changing, RecordsOf
  <2>3. CASE j = i
    <3>1. q = p
      BY <1>2, <1>4, <2>1, <2>2, <2>3
    <3> QED BY <2>2, <3>1
  <2>4. CASE j # i
    <3>1. NotAfter(j, i)
      BY <2>2, <2>4 DEF NotAfter
    <3>2. <<j, i>> \in RecordOrder(a)
      BY <1>3, <2>2, <3>1, Zenon DEF RecordOrder
    <3>3. Standing(RecordsOf(a), RecordOrder(a), j)
            < Standing(RecordsOf(a), RecordOrder(a), i)
      BY <1>3, <2>2, <2>4, <3>2, RecordsInOrder, StandingGrows
    <3>4. q < p
      BY <1>2, <1>4, <2>1, <2>2, <3>3
    <3> QED BY <2>2, <3>4
  <2> QED BY <2>3, <2>4
<1>7. Max(C) = p
    BY <1>2, <1>5, <1>6, GreatestIs
<1>8. LastStatus(order, 1..n) = StatusFor(feedback[i].kind, "OPEN")
    BY <1>1, <1>4, <1>5, <1>7 DEF LastStatus
<1> QED BY <1>1, <1>2, <1>8, StatusIsLast

LEMMA FeedbackInvariance == StreamSpec => []FeedbackInv
<1>1. StreamInit => FeedbackInv
    BY DEF StreamInit, FeedbackInv
<1>2. ASSUME FeedbackInv, [StreamNext]_streamVars PROVE FeedbackInv'
  <2>1. ASSUME NEW f \in Feedbacks, RecordFeedback(f) PROVE FeedbackInv'
    BY <1>2, <2>1 DEF FeedbackInv, RecordFeedback
  <2>2. ASSUME NEW c \in Conns, Turn(c) PROVE feedback' = feedback
    BY <2>2 DEF Turn, Connect, SyncStep, Validate, LoopSync, ReadPending, Audit, Yield, Quiet
  <2>3. ASSUME NEW c \in Conns, Lose(c) PROVE feedback' = feedback
    BY <2>3 DEF Lose
  <2>4. ASSUME NEW p \in Procs, Commit(p) PROVE feedback' = feedback
    BY <2>4 DEF Commit
  <2>5. CASE UNCHANGED streamVars
    BY <1>2, <2>5 DEF streamVars, FeedbackInv
  <2> QED BY <1>2, <2>1, <2>2, <2>3, <2>4, <2>5 DEF StreamNext, FeedbackInv
<1> QED BY <1>1, <1>2, PTL DEF StreamSpec

(* For any feedback in any order of arrival: sent with one UTC offset, or  *)
(* kept in PostgreSQL, the latest record that changes the status decides.  *)
THEOREM LatestFeedbackDecides == StreamSpec => []LatestFeedbackWins
<1>1. FeedbackInv => LatestFeedbackWins
  <2>1. SUFFICES ASSUME FeedbackInv, NEW a \in Alerts, NEW fs,
                        fs = {i \in DOMAIN feedback :
                                 feedback[i].alert = a /\ feedback[i].kind # "MANUAL_JUDGMENT"},
                        backend = "postgresql"
                          \/ (\A i, j \in fs : feedback[i].text - feedback[i].at
                                                 = feedback[j].text - feedback[j].at),
                        NEW i \in fs, \A j \in fs \ {i} : feedback[j].at < feedback[i].at
                 PROVE  StatusOf(a) = StatusFor(feedback[i].kind, "OPEN")
    BY DEF LatestFeedbackWins
  <2>2. ASSUME NEW j \in fs \ {i} PROVE OrderKey(feedback[j]) < OrderKey(feedback[i])
    <3>1. /\ feedback[i].at \in Nat /\ feedback[i].text \in Nat
          /\ feedback[j].at \in Nat /\ feedback[j].text \in Nat
      BY <2>1, FeedbackTyped
    <3>2. feedback[j].at < feedback[i].at
      BY <2>1, <2>2
    <3>3. CASE backend = "sqlite"
      <4>1. feedback[i].text - feedback[i].at = feedback[j].text - feedback[j].at
        BY <2>1, <2>2, <3>3
      <4>2. feedback[j].text < feedback[i].text
        BY ONLY <3>1, <3>2, <4>1
      <4> QED BY <3>3, <4>2 DEF OrderKey
    <3>4. CASE backend # "sqlite"
      BY <3>2, <3>4 DEF OrderKey
    <3> QED BY <3>3, <3>4
  <2> QED BY <2>1, <2>2, LatestStandsLast
<1> QED BY <1>1, FeedbackInvariance, PTL

-----------------------------------------------------------------------------
(* One event per state.                                                    *)

SameKeyAs(e, f) == e.alert = f.alert /\ e.status = f.status

(* A state is committed once, or in flight once; sqlite has no insert in   *)
(* flight.                                                                 *)
KeyInv ==
    /\ txn = [p \in Procs |-> txn[p]] /\ procOf \in [Conns -> Procs]
    /\ OneEventPerState
    /\ \A p \in Procs, e \in streamEvents : txn[p] # NoInsert => ~SameKeyAs(txn[p], e)
    /\ \A p, q \in Procs :
          txn[p] # NoInsert /\ txn[q] # NoInsert /\ SameKeyAs(txn[p], txn[q]) => p = q
    /\ backend = "sqlite" => \A p \in Procs : txn[p] = NoInsert

LEMMA KeysKept ==
    ASSUME KeyInv, UNCHANGED <<backend, procOf, streamEvents, txn>>
    PROVE  KeyInv'
BY DEF KeyInv, OneEventPerState

(* append_alert_projection checks the key, or waits for it.                *)
LEMMA ProjectKeys ==
    ASSUME KeyInv, NEW c \in Conns, NEW a, NEW s, Project(c, a, s), UNCHANGED <<backend, procOf>>
    PROVE  KeyInv'
<1>1. PICK e : e = [id |-> lastId + 1, alert |-> a, status |-> s]
    OBVIOUS
<1>2. e.alert = a /\ e.status = s /\ procOf[c] \in Procs
    BY <1>1 DEF KeyInv
<1>3. CASE Projected(a, s)
    BY <1>3, KeysKept DEF Project
<1>4. CASE ~Projected(a, s) /\ backend = "sqlite"
  <2>1. streamEvents' = streamEvents \cup {e} /\ txn' = txn
    BY <1>1, <1>4 DEF Project
  <2>2. \A f \in streamEvents : ~SameKeyAs(e, f) /\ ~SameKeyAs(f, e)
    BY <1>2, <1>4 DEF Projected, SameKeyAs
  <2>3. OneEventPerState'
    BY <2>1, <2>2 DEF KeyInv, OneEventPerState, SameKeyAs
  <2>4. \A p \in Procs : txn[p] = NoInsert
    BY <1>4 DEF KeyInv
  <2> QED BY <2>1, <2>3, <2>4 DEF KeyInv
<1>5. CASE ~Projected(a, s) /\ backend # "sqlite"
  <2>1. /\ streamEvents' = streamEvents /\ ~InFlight(a, s)
        /\ txn' = [txn EXCEPT ![procOf[c]] = e]
    BY <1>1, <1>5 DEF Project
  <2>2. txn'[procOf[c]] = e /\ \A p \in Procs \ {procOf[c]} : txn'[p] = txn[p]
    BY <1>2, <2>1 DEF KeyInv
  <2>3. \A f \in streamEvents : ~SameKeyAs(e, f)
    BY <1>2, <1>5 DEF Projected, SameKeyAs
  <2>4. \A p \in Procs : txn[p] # NoInsert => ~SameKeyAs(txn[p], e) /\ ~SameKeyAs(e, txn[p])
    BY <1>2, <2>1 DEF InFlight, SameKeyAs
  <2>5. OneEventPerState'
    BY <2>1 DEF KeyInv, OneEventPerState
  <2>6. \A p \in Procs, f \in streamEvents' : txn'[p] # NoInsert => ~SameKeyAs(txn'[p], f)
    BY <2>1, <2>2, <2>3 DEF KeyInv
  <2>7. \A p, q \in Procs :
            txn'[p] # NoInsert /\ txn'[q] # NoInsert /\ SameKeyAs(txn'[p], txn'[q]) => p = q
    BY <2>2, <2>4 DEF KeyInv
  <2>8. txn' = [p \in Procs |-> txn'[p]]
    BY <2>1 DEF KeyInv
  <2> QED BY <1>5, <2>5, <2>6, <2>7, <2>8 DEF KeyInv, SameKeyAs
<1> QED BY <1>3, <1>4, <1>5

LEMMA CommitKeys ==
    ASSUME KeyInv, NEW p \in Procs, Commit(p)
    PROVE  KeyInv'
<1>1. /\ txn[p] # NoInsert /\ streamEvents' = streamEvents \cup {txn[p]}
      /\ txn' = [txn EXCEPT ![p] = NoInsert] /\ UNCHANGED <<backend, procOf>>
    BY DEF Commit, fixed
<1>2. txn'[p] = NoInsert /\ \A q \in Procs \ {p} : txn'[q] = txn[q]
    BY <1>1 DEF KeyInv
<1>3. OneEventPerState'
  <2>1. \A f \in streamEvents : ~SameKeyAs(txn[p], f) /\ ~SameKeyAs(f, txn[p])
    BY <1>1 DEF KeyInv, SameKeyAs
  <2> QED BY <1>1, <2>1 DEF KeyInv, OneEventPerState, SameKeyAs
<1>4. \A q \in Procs, f \in streamEvents' : txn'[q] # NoInsert => ~SameKeyAs(txn'[q], f)
    BY <1>1, <1>2 DEF KeyInv
<1>5. \A q, r \in Procs :
          txn'[q] # NoInsert /\ txn'[r] # NoInsert /\ SameKeyAs(txn'[q], txn'[r]) => q = r
    BY <1>2 DEF KeyInv
<1>6. txn' = [q \in Procs |-> txn'[q]]
    BY <1>1 DEF KeyInv
<1> QED BY <1>1, <1>2, <1>3, <1>4, <1>5, <1>6 DEF KeyInv, SameKeyAs

(* However many connections project at once, a state of an alert becomes   *)
(* one event (append_alert_projection, unique projection_key).             *)
THEOREM StatesAreProjectedOnce == StreamSpec => []OneEventPerState
<1>1. StreamInit => KeyInv
    BY StreamAssumption DEF StreamInit, KeyInv, OneEventPerState
<1>2. ASSUME KeyInv, [StreamNext]_streamVars PROVE KeyInv'
  <2>1. ASSUME NEW c \in Conns, SyncStep(c) PROVE KeyInv'
    BY <1>2, <2>1, ProjectKeys DEF SyncStep, Quiet, fixed
  <2>2. ASSUME NEW c \in Conns, Turn(c), ~SyncStep(c)
        PROVE  UNCHANGED <<backend, procOf, streamEvents, txn>>
    BY <2>2 DEF Turn, Connect, Validate, LoopSync, ReadPending, Audit, Yield, Quiet, fixed, store
  <2>3. ASSUME NEW c \in Conns, Lose(c)
        PROVE  UNCHANGED <<backend, procOf, streamEvents, txn>>
    BY <2>3 DEF Lose, fixed, store
  <2>4. ASSUME NEW f \in Feedbacks, RecordFeedback(f)
        PROVE  UNCHANGED <<backend, procOf, streamEvents, txn>>
    BY <2>4 DEF RecordFeedback, fixed, store
  <2>5. ASSUME UNCHANGED streamVars
        PROVE  UNCHANGED <<backend, procOf, streamEvents, txn>>
    BY <2>5 DEF streamVars
  <2>6. ASSUME NEW p \in Procs, Commit(p) PROVE KeyInv'
    BY <1>2, <2>6, CommitKeys
  <2> QED BY <1>2, <2>1, <2>2, <2>3, <2>4, <2>5, <2>6, KeysKept DEF StreamNext
<1>3. KeyInv => OneEventPerState
    BY DEF KeyInv
<1> QED BY <1>1, <1>2, <1>3, PTL DEF StreamSpec
=============================================================================
