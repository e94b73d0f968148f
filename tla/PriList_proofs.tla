--------------------------- MODULE PriList_proofs ---------------------------
(***************************************************************************)
(* What the list macros of struct/list.h return, for every list: an        *)
(* insertion finds its place, adds one node and keeps a sorted list        *)
(* sorted; an unlinking takes one node away and keeps the order; a walk    *)
(* that unlinks the nodes it serves cuts the list in two.                  *)
(***************************************************************************)
EXTENDS PriList, SequenceTheorems, WellFoundedInduction, TLAPS

(***************************************************************************)
(* FOREACH_NODE() with a break always ends at one place: there is a first  *)
(* position in stops, or none and the walk ends past the last node.        *)
(***************************************************************************)
LEMMA FirstStop ==
  ASSUME NEW n \in Nat, NEW stops
  PROVE  \E k \in 1..(n + 1) :
           /\ k <= n => k \in stops
           /\ \A j \in 1..(k - 1) : j \notin stops
<1> DEFINE T == {k \in 1..(n + 1) : k = n + 1 \/ k \in stops}
<1>1. T \subseteq Nat /\ T # {}
  <2>1. n + 1 \in T
    OBVIOUS
  <2> QED
    BY <2>1
<1>2. PICK k \in T : \A j \in T : ~(<<j, k>> \in OpToRel(<, Nat))
  <2> HIDE DEF T
  <2> QED
    BY <1>1, NatLessThanWellFounded, WFMin, Zenon
<1>3. \A j \in T : ~(j < k)
  BY <1>1, <1>2 DEF OpToRel
<1> QED
  BY <1>3
(***************************************************************************)
(* INSERT_BEFORE() and REMOVE(), node by node.                             *)
(***************************************************************************)
LEMMA InsertAtProperties ==
  ASSUME NEW S, NEW list \in Seq(S), NEW k \in 1..(Len(list) + 1), NEW e \in S
  PROVE  /\ InsertAt(list, k, e) \in Seq(S)
         /\ Len(InsertAt(list, k, e)) = Len(list) + 1
         /\ \A i \in 1..(Len(list) + 1) :
              InsertAt(list, k, e)[i] =
                IF i < k THEN list[i] ELSE IF i = k THEN e ELSE list[i - 1]
<1> DEFINE before == SubSeq(list, 1, k - 1)
           after  == SubSeq(list, k, Len(list))
<1>1. /\ before \in Seq(S) /\ Len(before) = k - 1
      /\ \A i \in 1..(k - 1) : before[i] = list[i]
  BY ElementOfSeq, LenProperties, SubSeqProperties, SMT
<1>2. /\ after \in Seq(S) /\ Len(after) = Len(list) - k + 1
      /\ \A i \in 1..(Len(list) - k + 1) : after[i] = list[k + i - 1]
  BY ElementOfSeq, LenProperties, SubSeqProperties, SMT
<1>3. <<e>> \in Seq(S) /\ Len(<<e>>) = 1 /\ <<e>>[1] = e
  OBVIOUS
<1>4. InsertAt(list, k, e) = (before \o <<e>>) \o after
  BY DEF InsertAt
<1> HIDE DEF before, after
<1>5. /\ before \o <<e>> \in Seq(S) /\ Len(before \o <<e>>) = k
      /\ \A i \in 1..k : (before \o <<e>>)[i] = IF i < k THEN list[i] ELSE e
  BY <1>1, <1>3, ConcatProperties, SMT
<1> DEFINE front == before \o <<e>>
<1>6. front \in Seq(S) /\ Len(front) = k
  BY <1>5
<1> HIDE DEF front
<1>7. /\ front \o after \in Seq(S)
      /\ Len(front \o after) = Len(list) + 1
      /\ \A i \in 1..(Len(list) + 1) :
           (front \o after)[i] = IF i <= k THEN front[i] ELSE after[i - k]
  <2>1. Len(front) + Len(after) = Len(list) + 1
    BY <1>2, <1>6, LenProperties
  <2> QED
    <3>1. after \in Seq(S)
      BY <1>2
    <3>2. /\ front \o after \in Seq(S)
          /\ Len(front \o after) = Len(front) + Len(after)
          /\ \A i \in 1..(Len(front) + Len(after)) :
               (front \o after)[i] = IF i <= Len(front) THEN front[i] ELSE after[i - Len(front)]
      BY <1>6, <3>1, ConcatProperties
    <3> QED
      BY <1>6, <2>1, <3>2
<1>8. \A i \in 1..(Len(list) + 1) : i > k => after[i - k] = list[i - 1]
  BY <1>2, LenProperties
<1>9. \A i \in 1..k : front[i] = IF i < k THEN list[i] ELSE e
  BY <1>5 DEF front
<1>10. InsertAt(list, k, e) = front \o after
  BY <1>4 DEF front
<1>11. InsertAt(list, k, e) \in Seq(S) /\ Len(InsertAt(list, k, e)) = Len(list) + 1
  BY <1>7, <1>10
<1>12. ASSUME NEW i \in 1..(Len(list) + 1)
       PROVE  InsertAt(list, k, e)[i] =
                IF i < k THEN list[i] ELSE IF i = k THEN e ELSE list[i - 1]
  <2>1. InsertAt(list, k, e)[i] = IF i <= k THEN front[i] ELSE after[i - k]
    BY <1>7, <1>10
  <2>2. k \in Int /\ i \in Int /\ 1 <= i
    BY LenProperties
  <2>3. CASE i <= k
    BY <1>9, <2>1, <2>2, <2>3
  <2>4. CASE i > k
    BY <1>8, <2>1, <2>2, <2>4
  <2> QED
    BY <2>2, <2>3, <2>4
<1> QED
  BY <1>11, <1>12

\* Taking out the node at a position.
LEMMA RemoveAtProperties ==
  ASSUME NEW S, NEW list \in Seq(S), NEW k \in 1..Len(list)
  PROVE  /\ RemoveAt(list, k) \in Seq(S)
         /\ Len(RemoveAt(list, k)) = Len(list) - 1
         /\ \A i \in 1..(Len(list) - 1) :
              RemoveAt(list, k)[i] = IF i < k THEN list[i] ELSE list[i + 1]
<1> DEFINE before == SubSeq(list, 1, k - 1)
           after  == SubSeq(list, k + 1, Len(list))
<1>1. /\ before \in Seq(S) /\ Len(before) = k - 1
      /\ \A i \in 1..(k - 1) : before[i] = list[i]
  BY ElementOfSeq, LenProperties, SubSeqProperties, SMT
<1>2. /\ after \in Seq(S) /\ Len(after) = Len(list) - k
      /\ \A i \in 1..(Len(list) - k) : after[i] = list[k + i]
  BY ElementOfSeq, LenProperties, SubSeqProperties, SMT
<1>3. RemoveAt(list, k) = before \o after
  BY DEF RemoveAt
<1> HIDE DEF before, after
<1>4. /\ before \o after \in Seq(S)
      /\ Len(before \o after) = Len(list) - 1
      /\ \A i \in 1..(Len(list) - 1) :
           (before \o after)[i] = IF i <= k - 1 THEN before[i] ELSE after[i - (k - 1)]
  <2>1. Len(before) + Len(after) = Len(list) - 1
    BY <1>1, <1>2, LenProperties
  <2>2. before \in Seq(S) /\ after \in Seq(S)
    BY <1>1, <1>2
  <2>3. /\ before \o after \in Seq(S)
        /\ Len(before \o after) = Len(before) + Len(after)
        /\ \A i \in 1..(Len(before) + Len(after)) :
             (before \o after)[i] = IF i <= Len(before) THEN before[i]
                                                       ELSE after[i - Len(before)]
    BY <2>2, ConcatProperties
  <2>4. Len(before) = k - 1
    BY <1>1
  <2> QED
    BY <2>1, <2>3, <2>4
<1>5. \A i \in 1..(Len(list) - 1) : i > k - 1 => after[i - (k - 1)] = list[i + 1]
  BY <1>2, LenProperties
<1>6. RemoveAt(list, k) \in Seq(S) /\ Len(RemoveAt(list, k)) = Len(list) - 1
  BY <1>3, <1>4
<1>7. ASSUME NEW i \in 1..(Len(list) - 1)
      PROVE  RemoveAt(list, k)[i] = IF i < k THEN list[i] ELSE list[i + 1]
  <2>1. RemoveAt(list, k)[i] = IF i <= k - 1 THEN before[i] ELSE after[i - (k - 1)]
    BY <1>3, <1>4
  <2>2. k \in Int /\ i \in Int /\ 1 <= i
    BY LenProperties
  <2>3. CASE i < k
    BY <1>1, <2>1, <2>2, <2>3
  <2>4. CASE i >= k
    BY <1>5, <2>1, <2>2, <2>4
  <2> QED
    BY <2>2, <2>3, <2>4
<1> QED
  BY <1>6, <1>7
(***************************************************************************)
(* What an insertion in place k does to the set of nodes.                  *)
(***************************************************************************)
LEMMA InsertAtMembers ==
  ASSUME NEW S, NEW list \in Seq(S), NEW k \in 1..(Len(list) + 1), NEW e \in S
  PROVE  /\ \A q : Contains(InsertAt(list, k, e), q) <=> q = e \/ Contains(list, q)
         /\ NoDup(list) /\ ~Contains(list, e) => NoDup(InsertAt(list, k, e))
<1> DEFINE new == InsertAt(list, k, e)
<1>1. /\ Len(list) \in Nat /\ Len(new) = Len(list) + 1
      /\ \A i \in 1..(Len(list) + 1) :
           new[i] = IF i < k THEN list[i] ELSE IF i = k THEN e ELSE list[i - 1]
  BY InsertAtProperties, LenProperties
<1> HIDE DEF new
<1>2. ASSUME NEW q
      PROVE  Contains(new, q) <=> q = e \/ Contains(list, q)
  <2>1. ASSUME Contains(new, q) PROVE q = e \/ Contains(list, q)
    <3>1. PICK i \in 1..Len(new) : new[i] = q
      BY <2>1 DEF Contains
    <3>2. CASE i < k
      BY <1>1, <3>1, <3>2 DEF Contains
    <3>3. CASE i = k
      BY <1>1, <3>1, <3>3
    <3>4. CASE i > k
      <4>1. i - 1 \in 1..Len(list) /\ list[i - 1] = q
        BY <1>1, <3>1, <3>4
      <4> QED
        BY <4>1 DEF Contains
    <3> QED
      BY <1>1, <3>2, <3>3, <3>4
  <2>2. ASSUME q = e PROVE Contains(new, q)
    <3>1. k \in 1..Len(new) /\ new[k] = q
      BY <1>1, <2>2
    <3> QED
      BY <3>1 DEF Contains
  <2>3. ASSUME Contains(list, q) PROVE Contains(new, q)
    <3>1. PICK i \in 1..Len(list) : list[i] = q
      BY <2>3 DEF Contains
    <3>2. i < k => i \in 1..Len(new) /\ new[i] = q
      BY <1>1, <3>1
    <3>3. ~(i < k) => i + 1 \in 1..Len(new) /\ new[i + 1] = q
      BY <1>1, <3>1
    <3> QED
      BY <3>2, <3>3 DEF Contains
  <2> QED
    BY <2>1, <2>2, <2>3
<1>3. ASSUME NoDup(list), ~Contains(list, e)
      PROVE  NoDup(new)
  <2>1. \A i \in 1..Len(list) : list[i] # e
    BY <1>3 DEF Contains
  <2>2. \A i, j \in 1..Len(list) : list[i] = list[j] => i = j
    BY <1>3 DEF NoDup
  <2>3. ASSUME NEW i \in 1..Len(new), NEW j \in 1..Len(new), new[i] = new[j]
        PROVE  i = j
    <3> DEFINE from(m) == IF m < k THEN m ELSE m - 1
    <3>1. ASSUME NEW m \in 1..Len(new), m # k
          PROVE  from(m) \in 1..Len(list) /\ new[m] = list[from(m)] /\ new[m] # e
      <4>1. from(m) \in 1..Len(list) /\ new[m] = list[from(m)]
        BY <1>1, <3>1
      <4> QED
        BY <2>1, <4>1
    <3>2. k \in 1..Len(new) /\ new[k] = e
      BY <1>1
    <3>3. CASE i = k \/ j = k
      BY <2>3, <3>1, <3>2, <3>3
    <3>4. CASE i # k /\ j # k
      <4>1. from(i) = from(j)
        <5> HIDE DEF from
        <5> QED
          BY <2>2, <2>3, <3>1, <3>4
      <4> QED
        BY <1>1, <3>4, <4>1
    <3> QED
      BY <3>3, <3>4
  <2> QED
    BY <2>3 DEF NoDup
<1> QED
  BY <1>2, <1>3 DEF new

(***************************************************************************)
(* LIST_ENQUEUE() and LIST_ENQUEUE_HEAD() insert the node in a place of    *)
(* the list, before the first node of lower (of no higher) priority.       *)
(***************************************************************************)
LEMMA EnqueuePlace ==
  ASSUME NEW S, NEW list \in Seq(S), NEW node \in S, NEW pri \in [S -> Int]
  PROVE  \E k \in 1..(Len(list) + 1) :
           /\ Enqueue(list, node, pri) = InsertAt(list, k, node)
           /\ k <= Len(list) => pri[list[k]] < pri[node]
           /\ \A j \in 1..(k - 1) : ~(pri[list[j]] < pri[node])
<1> DEFINE Place(k) == /\ k <= Len(list) => pri[list[k]] < pri[node]
                       /\ \A j \in 1..(k - 1) : ~(pri[list[j]] < pri[node])
           at == CHOOSE k \in 1..(Len(list) + 1) : Place(k)
<1>1. \E k \in 1..(Len(list) + 1) : Place(k)
  <2> DEFINE stops == {i \in 1..Len(list) : pri[list[i]] < pri[node]}
  <2>1. PICK k \in 1..(Len(list) + 1) :
          /\ k <= Len(list) => k \in stops
          /\ \A j \in 1..(k - 1) : j \notin stops
    <3> HIDE DEF stops
    <3> QED
      BY FirstStop, LenProperties
  <2> QED
    BY <2>1, LenProperties
<1>2. at \in 1..(Len(list) + 1) /\ Place(at)
  BY <1>1, Zenon
<1>3. Enqueue(list, node, pri) = InsertAt(list, at, node)
  BY DEF Enqueue, WalkUntil
<1> HIDE DEF at
<1> QED
  BY <1>2, <1>3

\* LIST_ENQUEUE_HEAD(): in front of the first node of at most its priority.
LEMMA EnqueueHeadPlace ==
  ASSUME NEW S, NEW list \in Seq(S), NEW node \in S, NEW pri \in [S -> Int]
  PROVE  \E k \in 1..(Len(list) + 1) :
           /\ EnqueueHead(list, node, pri) = InsertAt(list, k, node)
           /\ k <= Len(list) => pri[list[k]] <= pri[node]
           /\ \A j \in 1..(k - 1) : ~(pri[list[j]] <= pri[node])
<1> DEFINE Place(k) == /\ k <= Len(list) => pri[list[k]] <= pri[node]
                       /\ \A j \in 1..(k - 1) : ~(pri[list[j]] <= pri[node])
           at == CHOOSE k \in 1..(Len(list) + 1) : Place(k)
<1>1. \E k \in 1..(Len(list) + 1) : Place(k)
  <2> DEFINE stops == {i \in 1..Len(list) : pri[list[i]] <= pri[node]}
  <2>1. PICK k \in 1..(Len(list) + 1) :
          /\ k <= Len(list) => k \in stops
          /\ \A j \in 1..(k - 1) : j \notin stops
    <3> HIDE DEF stops
    <3> QED
      BY FirstStop, LenProperties
  <2> QED
    BY <2>1, LenProperties
<1>2. at \in 1..(Len(list) + 1) /\ Place(at)
  BY <1>1, Zenon
<1>3. EnqueueHead(list, node, pri) = InsertAt(list, at, node)
  BY DEF EnqueueHead, WalkUntil
<1> HIDE DEF at
<1> QED
  BY <1>2, <1>3

(***************************************************************************)
(* LIST_ENQUEUE() returns a list of the same kind, with the node and with  *)
(* nothing else new.                                                       *)
(***************************************************************************)
THEOREM EnqueueMembers ==
  ASSUME NEW S, NEW list \in Seq(S), NEW node \in S, NEW pri \in [S -> Int]
  PROVE  /\ Enqueue(list, node, pri) \in Seq(S)
         /\ Len(Enqueue(list, node, pri)) = Len(list) + 1
         /\ \A q : Contains(Enqueue(list, node, pri), q) <=> q = node \/ Contains(list, q)
         /\ NoDup(list) /\ ~Contains(list, node) => NoDup(Enqueue(list, node, pri))
<1>1. PICK k \in 1..(Len(list) + 1) : Enqueue(list, node, pri) = InsertAt(list, k, node)
  BY EnqueuePlace
<1> QED
  BY <1>1, InsertAtProperties, InsertAtMembers

(***************************************************************************)
(* LIST_ENQUEUE_HEAD() does, too.                                          *)
(***************************************************************************)
THEOREM EnqueueHeadMembers ==
  ASSUME NEW S, NEW list \in Seq(S), NEW node \in S, NEW pri \in [S -> Int]
  PROVE  /\ EnqueueHead(list, node, pri) \in Seq(S)
         /\ \A q : Contains(EnqueueHead(list, node, pri), q) <=> q = node \/ Contains(list, q)
         /\ NoDup(list) /\ ~Contains(list, node) => NoDup(EnqueueHead(list, node, pri))
<1>1. PICK k \in 1..(Len(list) + 1) : EnqueueHead(list, node, pri) = InsertAt(list, k, node)
  BY EnqueueHeadPlace
<1> QED
  BY <1>1, InsertAtProperties, InsertAtMembers

(***************************************************************************)
(* LIST_ENQUEUE() keeps a sorted list sorted, whatever the priorities.     *)
(***************************************************************************)
THEOREM EnqueueSorted ==
  ASSUME NEW S, NEW list \in Seq(S), NEW node \in S, NEW pri \in [S -> Int],
         Sorted(list, pri)
  PROVE  Sorted(Enqueue(list, node, pri), pri)
<1>1. PICK k \in 1..(Len(list) + 1) :
        /\ Enqueue(list, node, pri) = InsertAt(list, k, node)
        /\ k <= Len(list) => pri[list[k]] < pri[node]
        /\ \A j \in 1..(k - 1) : ~(pri[list[j]] < pri[node])
  BY EnqueuePlace
<1> DEFINE new == InsertAt(list, k, node)
<1>2. /\ Len(list) \in Nat /\ Len(new) = Len(list) + 1
      /\ \A i \in 1..(Len(list) + 1) :
           new[i] = IF i < k THEN list[i] ELSE IF i = k THEN node ELSE list[i - 1]
  BY InsertAtProperties, LenProperties
<1>3. \A i \in 1..Len(list) : list[i] \in S /\ pri[list[i]] \in Int
  BY ElementOfSeq
<1>4. \A i, j \in 1..Len(list) : i <= j => pri[list[i]] >= pri[list[j]]
  BY <1>3 DEF Sorted
<1> HIDE DEF new
<1>5. ASSUME NEW i \in 1..Len(new), NEW j \in 1..Len(new), i < j
      PROVE  pri[new[i]] >= pri[new[j]]
  <2>1. CASE i # k /\ j # k
    <3>1. \E h, l \in 1..Len(list) : h <= l /\ new[i] = list[h] /\ new[j] = list[l]
      <4>1. CASE j < k
        BY <1>2, <1>5, <4>1
      <4>2. CASE i < k /\ k < j
        <5>1. i <= j - 1 /\ j - 1 \in 1..Len(list) /\ i \in 1..Len(list)
          BY <1>2, <1>5, <4>2
        <5>2. new[i] = list[i] /\ new[j] = list[j - 1]
          BY <1>2, <1>5, <4>2
        <5> QED
          BY <5>1, <5>2
      <4>3. CASE k < i
        <5>1. i - 1 <= j - 1 /\ j - 1 \in 1..Len(list) /\ i - 1 \in 1..Len(list)
          BY <1>2, <1>5, <4>3
        <5>2. new[i] = list[i - 1] /\ new[j] = list[j - 1]
          BY <1>2, <1>5, <4>3
        <5> QED
          BY <5>1, <5>2
      <4> QED
        BY <1>2, <1>5, <2>1, <4>1, <4>2, <4>3
    <3> QED
      BY <1>4, <3>1
  <2>2. CASE j = k
    BY <1>1, <1>2, <1>3, <1>5, <2>2
  <2>3. CASE i = k
    <3>1. k <= Len(list) /\ j - 1 \in 1..Len(list) /\ new[j] = list[j - 1] /\ new[i] = node
      BY <1>2, <1>5, <2>3
    <3>2. pri[list[k]] >= pri[list[j - 1]]
      BY <1>2, <1>4, <1>5, <2>3, <3>1
    <3> QED
      BY <1>1, <1>3, <3>1, <3>2
  <2> QED
    BY <2>1, <2>2, <2>3, <1>2
<1> QED
  BY <1>1, <1>5 DEF Sorted, new

(***************************************************************************)
(* REMOVE() of a node of a list takes away this one node.                  *)
(***************************************************************************)
THEOREM UnlinkMembers ==
  ASSUME NEW S, NEW list \in Seq(S), NEW node, Contains(list, node)
  PROVE  /\ Unlink(list, node) \in Seq(S)
         /\ NoDup(list) => /\ NoDup(Unlink(list, node))
                           /\ \A q : Contains(Unlink(list, node), q) <=>
                                       q # node /\ Contains(list, q)
<1> DEFINE k == CHOOSE i \in 1..Len(list) : list[i] = node
           new == RemoveAt(list, k)
<1>1. k \in 1..Len(list) /\ list[k] = node
  BY DEF Contains
<1> HIDE DEF k
<1>2. /\ new \in Seq(S) /\ Len(list) \in Nat /\ Len(new) = Len(list) - 1
      /\ \A i \in 1..(Len(list) - 1) : new[i] = IF i < k THEN list[i] ELSE list[i + 1]
  BY <1>1, RemoveAtProperties, LenProperties
<1> HIDE DEF new
<1>3. ASSUME NoDup(list)
      PROVE  NoDup(new)
  <2>1. \A i, j \in 1..Len(list) : list[i] = list[j] => i = j
    BY <1>3 DEF NoDup
  <2>2. \A i, j \in 1..Len(new) : new[i] = new[j] => i = j
    BY <1>1, <1>2, <2>1
  <2> QED
    BY <2>2 DEF NoDup
<1>4. ASSUME NoDup(list), NEW q
      PROVE  Contains(new, q) <=> q # node /\ Contains(list, q)
  <2>1. \A i, j \in 1..Len(list) : list[i] = list[j] => i = j
    BY <1>4 DEF NoDup
  <2>2. ASSUME Contains(new, q) PROVE q # node /\ Contains(list, q)
    <3>1. PICK i \in 1..Len(new) : new[i] = q
      BY <2>2 DEF Contains
    <3>2. \E j \in 1..Len(list) : j # k /\ list[j] = q
      <4>1. CASE i < k
        BY <1>1, <1>2, <3>1, <4>1
      <4>2. CASE ~(i < k)
        <5>1. i + 1 \in 1..Len(list) /\ i + 1 # k /\ list[i + 1] = q
          BY <1>1, <1>2, <3>1, <4>2
        <5> QED
          BY <5>1
      <4> QED
        BY <4>1, <4>2
    <3> QED
      BY <1>1, <2>1, <3>2 DEF Contains
  <2>3. ASSUME q # node, Contains(list, q) PROVE Contains(new, q)
    <3>1. PICK j \in 1..Len(list) : list[j] = q
      BY <2>3 DEF Contains
    <3>2. j < k => j \in 1..Len(new) /\ new[j] = q
      BY <1>1, <1>2, <3>1
    <3>3. j > k => j - 1 \in 1..Len(new) /\ new[j - 1] = q
      BY <1>1, <1>2, <3>1
    <3>4. j # k
      BY <1>1, <2>3, <3>1
    <3> QED
      BY <1>1, <3>2, <3>3, <3>4 DEF Contains
  <2> QED
    BY <2>2, <2>3
<1>5. Unlink(list, node) = new
  BY DEF Unlink, new, k
<1> QED
  BY <1>2, <1>3, <1>4, <1>5

\* Positions behind the node that is taken out move by one: the order stays.
LEMMA SkipOneOrder ==
  ASSUME NEW i \in Int, NEW j \in Int, NEW k \in Int, i < j,
         NEW m, m = (IF i < k THEN i ELSE i + 1),
         NEW n, n = (IF j < k THEN j ELSE j + 1)
  PROVE  m < n
<1>1. CASE i < k
  BY <1>1
<1>2. CASE ~(i < k)
  BY <1>2
<1> QED
  BY <1>1, <1>2

(***************************************************************************)
(* REMOVE() keeps a sorted list sorted.                                    *)
(***************************************************************************)
THEOREM UnlinkSorted ==
  ASSUME NEW S, NEW list \in Seq(S), NEW node, Contains(list, node),
         NEW pri \in [S -> Int], Sorted(list, pri)
  PROVE  Sorted(Unlink(list, node), pri)
<1> DEFINE k == CHOOSE i \in 1..Len(list) : list[i] = node
           new == RemoveAt(list, k)
<1>1. k \in 1..Len(list)
  BY DEF Contains
<1> HIDE DEF k
<1>2. /\ Len(list) \in Nat /\ Len(new) = Len(list) - 1
      /\ \A i \in 1..(Len(list) - 1) : new[i] = IF i < k THEN list[i] ELSE list[i + 1]
  BY <1>1, RemoveAtProperties, LenProperties
<1>3. Unlink(list, node) = new
  BY DEF Unlink, new, k
<1> HIDE DEF new
<1>4. \A i, j \in 1..Len(list) : i < j => pri[list[i]] >= pri[list[j]]
  BY DEF Sorted
<1>6. \A i \in 1..Len(new) : \E m \in 1..Len(list) :
        new[i] = list[m] /\ m = IF i < k THEN i ELSE i + 1
  BY <1>1, <1>2
<1>5. ASSUME NEW i \in 1..Len(new), NEW j \in 1..Len(new), i < j
      PROVE  pri[new[i]] >= pri[new[j]]
  <2>1. PICK m \in 1..Len(list) : new[i] = list[m] /\ m = IF i < k THEN i ELSE i + 1
    BY <1>6
  <2>2. PICK n \in 1..Len(list) : new[j] = list[n] /\ n = IF j < k THEN j ELSE j + 1
    BY <1>6
  <2>3. m < n
    BY <1>1, <1>2, <1>5, <2>1, <2>2, SkipOneOrder
  <2> QED
    BY <1>4, <2>1, <2>2, <2>3
<1> QED
  BY <1>3, <1>5 DEF Sorted

\* Sorted, but for a node whose priority has changed.
SortedBut(list, pri, node) ==
  \A i, j \in 1..Len(list) :
    i < j /\ list[i] # node /\ list[j] # node => pri[list[i]] >= pri[list[j]]

(***************************************************************************)
(* REMOVE() of the one node that is out of place leaves a sorted list.     *)
(***************************************************************************)
THEOREM UnlinkRepairs ==
  ASSUME NEW S, NEW list \in Seq(S), NEW node, Contains(list, node), NoDup(list),
         NEW pri \in [S -> Int], SortedBut(list, pri, node)
  PROVE  Sorted(Unlink(list, node), pri)
<1> DEFINE k == CHOOSE i \in 1..Len(list) : list[i] = node
           new == RemoveAt(list, k)
<1>1. k \in 1..Len(list) /\ list[k] = node
  BY DEF Contains
<1> HIDE DEF k
<1>2. /\ Len(list) \in Nat /\ Len(new) = Len(list) - 1
      /\ \A i \in 1..(Len(list) - 1) : new[i] = IF i < k THEN list[i] ELSE list[i + 1]
  BY <1>1, RemoveAtProperties, LenProperties
<1>3. Unlink(list, node) = new
  BY DEF Unlink, new, k
<1> HIDE DEF new
<1>4. \A i \in 1..Len(list) : i # k => list[i] # node
  BY <1>1 DEF NoDup
<1>5. \A i \in 1..Len(new) : \E m \in 1..Len(list) :
        /\ new[i] = list[m] /\ m # k
        /\ m = IF i < k THEN i ELSE i + 1
  BY <1>1, <1>2
<1>6. ASSUME NEW i \in 1..Len(new), NEW j \in 1..Len(new), i < j
      PROVE  pri[new[i]] >= pri[new[j]]
  <2>1. PICK m \in 1..Len(list) : /\ new[i] = list[m] /\ m # k
                                  /\ m = IF i < k THEN i ELSE i + 1
    BY <1>5
  <2>2. PICK n \in 1..Len(list) : /\ new[j] = list[n] /\ n # k
                                  /\ n = IF j < k THEN j ELSE j + 1
    BY <1>5
  <2>3. m < n
    BY <1>1, <1>2, <1>6, <2>1, <2>2, SkipOneOrder, SMTT(30)
  <2> QED
    BY <1>4, <2>1, <2>2, <2>3 DEF SortedBut
<1> QED
  BY <1>3, <1>6 DEF Sorted

(***************************************************************************)
(* A walk that serves the first nodes of a list, up to k, and unlinks      *)
(* them, cuts the list in two.                                             *)
(***************************************************************************)
THEOREM SplitMembers ==
  ASSUME NEW S, NEW list \in Seq(S), NEW k \in 1..(Len(list) + 1)
  PROVE  LET served == SubSeq(list, 1, k - 1)
             rest   == SubSeq(list, k, Len(list))
         IN  /\ served \in Seq(S) /\ rest \in Seq(S)
             /\ \A q : Contains(served, q) <=> \E i \in 1..(k - 1) : list[i] = q
             /\ \A q : Contains(rest, q) <=> \E i \in k..Len(list) : list[i] = q
             /\ \A q : Contains(list, q) <=> Contains(served, q) \/ Contains(rest, q)
             /\ NoDup(list) => /\ NoDup(served) /\ NoDup(rest)
                               /\ \A q : ~(Contains(served, q) /\ Contains(rest, q))
             /\ \A pri \in [S -> Int] : Sorted(list, pri) => Sorted(rest, pri)
<1> DEFINE served == SubSeq(list, 1, k - 1)
           rest   == SubSeq(list, k, Len(list))
<1>1. /\ served \in Seq(S) /\ Len(served) = k - 1
      /\ \A i \in 1..(k - 1) : served[i] = list[i]
  BY SubSeqProperties, LenProperties
<1>2. /\ rest \in Seq(S) /\ Len(rest) = Len(list) - k + 1
      /\ \A i \in 1..(Len(list) - k + 1) : rest[i] = list[k + i - 1]
  BY SubSeqProperties, LenProperties
<1>3. Len(list) \in Nat
  BY LenProperties
<1> HIDE DEF served, rest
<1>4. ASSUME NEW q PROVE Contains(served, q) <=> \E i \in 1..(k - 1) : list[i] = q
  BY <1>1, <1>3 DEF Contains
<1>5. ASSUME NEW q PROVE Contains(rest, q) <=> \E i \in k..Len(list) : list[i] = q
  <2>1. ASSUME Contains(rest, q) PROVE \E i \in k..Len(list) : list[i] = q
    <3>1. PICK i \in 1..Len(rest) : rest[i] = q
      BY <2>1 DEF Contains
    <3>2. k + i - 1 \in k..Len(list) /\ list[k + i - 1] = q
      BY <1>2, <1>3, <3>1
    <3> QED
      BY <3>2
  <2>2. ASSUME NEW i \in k..Len(list), list[i] = q PROVE Contains(rest, q)
    <3>1. i - k + 1 \in 1..Len(rest) /\ rest[i - k + 1] = q
      BY <1>2, <1>3, <2>2
    <3> QED
      BY <3>1 DEF Contains
  <2> QED
    BY <2>1, <2>2
<1>6. ASSUME NEW q PROVE Contains(list, q) <=> Contains(served, q) \/ Contains(rest, q)
  <2>1. Contains(list, q) <=> \E i \in 1..Len(list) : list[i] = q
    BY DEF Contains
  <2>2. \A i : i \in 1..Len(list) <=> i \in 1..(k - 1) \/ i \in k..Len(list)
    BY <1>3
  <2> QED
    BY <1>4, <1>5, <2>1, <2>2, Zenon
<1>7. ASSUME NoDup(list)
      PROVE  NoDup(served) /\ NoDup(rest) /\ \A q : ~(Contains(served, q) /\ Contains(rest, q))
  <2>1. \A i, j \in 1..Len(list) : list[i] = list[j] => i = j
    BY <1>7 DEF NoDup
  <2>2. NoDup(served)
    BY <1>1, <1>3, <2>1 DEF NoDup
  <2>3. \A i, j \in 1..Len(rest) : rest[i] = rest[j] => i = j
    BY <1>2, <1>3, <2>1
  <2>4. \A q : ~(Contains(served, q) /\ Contains(rest, q))
    BY <1>3, <1>4, <1>5, <2>1
  <2> QED
    BY <2>2, <2>3, <2>4 DEF NoDup
<1>8. ASSUME NEW pri \in [S -> Int], Sorted(list, pri)
      PROVE  Sorted(rest, pri)
  <2>1. \A i, j \in 1..Len(list) : i < j => pri[list[i]] >= pri[list[j]]
    BY <1>8 DEF Sorted
  <2>2. ASSUME NEW i \in 1..Len(rest), NEW j \in 1..Len(rest), i < j
        PROVE  pri[rest[i]] >= pri[rest[j]]
    <3>1. k + i - 1 \in 1..Len(list) /\ k + j - 1 \in 1..Len(list) /\ k + i - 1 < k + j - 1
      BY <1>2, <1>3, <2>2
    <3>2. rest[i] = list[k + i - 1] /\ rest[j] = list[k + j - 1]
      BY <1>2, <1>3
    <3> QED
      BY <2>1, <3>1, <3>2
  <2> QED
    BY <2>2 DEF Sorted
<1> QED
  BY <1>1, <1>2, <1>4, <1>5, <1>6, <1>7, <1>8 DEF served, rest
(***************************************************************************)
(* list_remHead() takes away the first node.                               *)
(***************************************************************************)
THEOREM TailMembers ==
  ASSUME NEW S, NEW list \in Seq(S), list # <<>>
  PROVE  /\ Head(list) \in S /\ Tail(list) \in Seq(S)
         /\ Contains(list, Head(list))
         /\ NoDup(list) => /\ NoDup(Tail(list))
                           /\ \A q : Contains(Tail(list), q) <=>
                                       q # Head(list) /\ Contains(list, q)
<1> DEFINE new == Tail(list)
<1>1. /\ Head(list) \in S /\ new \in Seq(S) /\ Len(list) \in Nat \ {0}
      /\ Head(list) = list[1] /\ Len(new) = Len(list) - 1
      /\ \A i \in 1..(Len(list) - 1) : new[i] = list[i + 1]
  BY EmptySeq, HeadTailProperties
<1> HIDE DEF new
<1>2. Contains(list, Head(list))
  <2>1. 1 \in 1..Len(list)
    BY <1>1
  <2> QED
    BY <1>1, <2>1 DEF Contains
<1>3. ASSUME NoDup(list)
      PROVE  NoDup(new) /\ \A q : Contains(new, q) <=> q # Head(list) /\ Contains(list, q)
  <2>1. \A i, j \in 1..Len(list) : list[i] = list[j] => i = j
    BY <1>3 DEF NoDup
  <2>2. \A i, j \in 1..Len(new) : new[i] = new[j] => i = j
    BY <1>1, <2>1
  <2>3. ASSUME NEW q, Contains(new, q) PROVE q # Head(list) /\ Contains(list, q)
    <3>1. PICK i \in 1..Len(new) : new[i] = q
      BY <2>3 DEF Contains
    <3>2. i + 1 \in 1..Len(list) /\ list[i + 1] = q /\ 1 \in 1..Len(list)
      BY <1>1, <3>1
    <3>3. list[i + 1] # list[1]
      BY <2>1, <3>2
    <3> QED
      BY <1>1, <3>2, <3>3 DEF Contains
  <2>4. ASSUME NEW q, q # Head(list), Contains(list, q) PROVE Contains(new, q)
    <3>1. PICK i \in 1..Len(list) : list[i] = q
      BY <2>4 DEF Contains
    <3>2. i - 1 \in 1..Len(new) /\ new[i - 1] = q
      BY <1>1, <2>4, <3>1
    <3> QED
      BY <3>2 DEF Contains
  <2> QED
    BY <2>2, <2>3, <2>4 DEF NoDup
<1> QED
  BY <1>1, <1>2, <1>3 DEF new

(***************************************************************************)
(* The first node of a sorted list has the highest priority, and without   *)
(* it the list is sorted.                                                  *)
(***************************************************************************)
THEOREM TailSorted ==
  ASSUME NEW S, NEW list \in Seq(S), list # <<>>, NEW pri \in [S -> Int], Sorted(list, pri)
  PROVE  /\ Sorted(Tail(list), pri)
         /\ \A q : Contains(list, q) => pri[Head(list)] >= pri[q]
<1> DEFINE new == Tail(list)
<1>1. /\ Len(list) \in Nat \ {0} /\ Head(list) = list[1] /\ Len(new) = Len(list) - 1
      /\ \A i \in 1..(Len(list) - 1) : new[i] = list[i + 1]
      /\ \A i \in 1..Len(list) : list[i] \in S
  BY EmptySeq, HeadTailProperties, ElementOfSeq
<1> HIDE DEF new
<1>2. \A i, j \in 1..Len(list) : i < j => pri[list[i]] >= pri[list[j]]
  BY DEF Sorted
<1>3. ASSUME NEW i \in 1..Len(new), NEW j \in 1..Len(new), i < j
      PROVE  pri[new[i]] >= pri[new[j]]
  <2>1. i + 1 \in 1..Len(list) /\ j + 1 \in 1..Len(list) /\ i + 1 < j + 1
    BY <1>1, <1>3
  <2>2. new[i] = list[i + 1] /\ new[j] = list[j + 1]
    BY <1>1
  <2> QED
    BY <1>2, <2>1, <2>2
<1>4. ASSUME NEW q, Contains(list, q) PROVE pri[list[1]] >= pri[q]
  <2>1. PICK i \in 1..Len(list) : list[i] = q
    BY <1>4 DEF Contains
  <2>2. CASE i = 1
    <3>1. pri[list[1]] \in Int
      BY <1>1, <2>1, <2>2
    <3> QED
      BY <2>1, <2>2, <3>1
  <2>3. CASE i # 1
    <3>1. 1 \in 1..Len(list) /\ 1 < i
      BY <1>1, <2>1, <2>3
    <3> QED
      BY <1>2, <2>1, <3>1
  <2> QED
    BY <2>2, <2>3
<1> QED
  BY <1>1, <1>3, <1>4 DEF Sorted, new

(***************************************************************************)
(* ADDTAIL() adds one node.                                                *)
(***************************************************************************)
THEOREM AppendMembers ==
  ASSUME NEW S, NEW list \in Seq(S), NEW node \in S
  PROVE  /\ Append(list, node) \in Seq(S)
         /\ \A q : Contains(Append(list, node), q) <=> q = node \/ Contains(list, q)
         /\ NoDup(list) /\ ~Contains(list, node) => NoDup(Append(list, node))
<1> DEFINE new == Append(list, node)
<1>1. /\ new \in Seq(S) /\ Len(list) \in Nat /\ Len(new) = Len(list) + 1
      /\ \A i \in 1..Len(list) : new[i] = list[i]
      /\ new[Len(list) + 1] = node
  BY AppendProperties, LenProperties
<1> HIDE DEF new
<1>2. ASSUME NEW q PROVE Contains(new, q) <=> q = node \/ Contains(list, q)
  <2>1. ASSUME Contains(new, q) PROVE q = node \/ Contains(list, q)
    BY <1>1, <2>1 DEF Contains
  <2>2. Len(list) + 1 \in 1..Len(new)
    BY <1>1
  <2>3. ASSUME Contains(list, q) PROVE Contains(new, q)
    <3>1. PICK i \in 1..Len(list) : list[i] = q
      BY <2>3 DEF Contains
    <3>2. i \in 1..Len(new) /\ new[i] = q
      BY <1>1, <3>1
    <3> QED
      BY <3>2 DEF Contains
  <2> QED
    BY <1>1, <2>1, <2>2, <2>3 DEF Contains
<1>3. ASSUME NoDup(list), ~Contains(list, node) PROVE NoDup(new)
  <2>1. \A i \in 1..Len(list) : list[i] # node
    BY <1>3 DEF Contains
  <2>2. \A i, j \in 1..Len(list) : list[i] = list[j] => i = j
    BY <1>3 DEF NoDup
  <2>3. \A i, j \in 1..Len(new) : new[i] = new[j] => i = j
    BY <1>1, <2>1, <2>2
  <2> QED
    BY <2>3 DEF NoDup
<1> QED
  BY <1>1, <1>2, <1>3 DEF new

\* LIST_INIT(): the empty list has no node.
LEMMA EmptyMembers == NoDup(<<>>) /\ \A q : ~Contains(<<>>, q)
BY DEF NoDup, Contains
=============================================================================
