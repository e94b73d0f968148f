---------------------------- MODULE Signal_proofs ----------------------------
(***************************************************************************)
(* Signals are safe for every set of processes, of signals and of timeouts *)
(* and every start of the application.                                     *)
(*                                                                         *)
(* A sleeping process is on no list: what the scheduler guarantees is      *)
(* KInv(SigPlaces, Sleeping) of Proc_proofs.  On top of it stands, for     *)
(* each process, what its place in sig_wait() and sig_waitTimeout() says   *)
(* of its signals, its mask and its timer.  Lost wake-ups, timers and the  *)
(* scheduler's lists are one argument: a signal wakes the process that     *)
(* waits for it because that process is on no list yet, which holds        *)
(* because it was awakened only once, and a timer finds its process in     *)
(* sig_wait() because the call ends it before it returns.                  *)
(***************************************************************************)
EXTENDS Signal, Proc_proofs

\* Where the processes of Signal are, and which of them sleep.
SigPlaces == Labels \cup SigLabels \cup CallLabels
Sleeping == {p \in Procs : Waiting(p)}

\* The types of Signal's own variables.
SigOwnTypes ==
  /\ recv \in [Procs -> SUBSET Sigs]
  /\ wait \in [Procs -> SUBSET Sigs]
  /\ mask \in [Procs -> SUBSET Sigs]
  /\ timers \in Seq(Procs)
  /\ due \in [Procs -> UNION {0..d : d \in Delays \cup {0}}]

\* Places in a call that has an argument.
Asking == {"sig_wait", "sig_resume", "sig_check", "timeout_poll"}

\* What a place says of the process's signals.
WaitAt(p) ==
  /\ recv[p] \cap wait[p] = {}
  /\ pc[p] = "sig_resume" /\ wait[p] = {} => recv[p] \cap mask[p] # {}
  /\ wait[p] # {} => pc[p] = "sig_resume" /\ wait[p] = mask[p]
  /\ pc[p] \in Asking <=> mask[p] # {}
  /\ pc[p] = "sig_check" => SigTimeout \notin mask[p]
  /\ pc[p] = "timeout_poll" => mask[p] = {SigTimeout}

\* A sig_waitTimeout() of p is in progress.
Timed(p) == pc[p] = "timeout_check" \/ SigTimeout \in mask[p]

\* What it says of the process's timer.
TimerAt(p) ==
  /\ Contains(timers, p) <=> Timed(p) /\ SigTimeout \notin recv[p]
  /\ SigTimeout \in recv[p] => Timed(p)
  /\ Contains(timers, p) /\ 0 \notin Delays => due[p] > 0

\* The control block that proc_new() is about to enqueue has no signals.
FreshAt(p) == pc[p] = "new_enq" => recv[obj[p]] = {} /\ wait[obj[p]] = {}

\* timers_queue is in the order of expiry.
TimersQueue == NoDup(timers) /\ Sorted(timers, [p \in Procs |-> -due[p]])

SigInv ==
  /\ KInv(SigPlaces, Sleeping)
  /\ SigOwnTypes
  /\ TimersQueue
  /\ \A p \in Procs : WaitAt(p) /\ TimerAt(p) /\ FreshAt(p)

-----------------------------------------------------------------------------
(***************************************************************************)
(* Processes that are not listed are put in the ready list one after the   *)
(* other.  (The recursive function is taken apart with the least number    *)
(* of nodes for which the statement would fail.)                           *)
(***************************************************************************)
LEMMA EnqueueWokenMembers ==
  ASSUME NEW list \in Seq(Procs), NEW nodes \in Seq(Procs), NEW woken, pri \in [Procs -> Int],
         NoDup(list), NoDup(nodes), \A q \in woken : ~Contains(list, q)
  PROVE  /\ EnqueueWoken(list, nodes, woken) \in Seq(Procs)
         /\ NoDup(EnqueueWoken(list, nodes, woken))
         /\ \A q : Contains(EnqueueWoken(list, nodes, woken), q) <=>
                     Contains(list, q) \/ (q \in woken /\ Contains(nodes, q))
<1> DEFINE N == Len(nodes)
           Put(before, n) ==
             IF nodes[n] \in woken THEN EnqueueHead(before, nodes[n], pri) ELSE before
           Upto(f, k) == f = [n \in 0..k |-> IF n = 0 THEN list ELSE Put(f[n - 1], n)]
           after == CHOOSE f : Upto(f, N)
<1>1. N \in Nat /\ \A n \in 1..N : nodes[n] \in Procs
  BY LenProperties, ElementOfSeq
<1> HIDE DEF N, Put
<1>2. \A k \in 0..N : \E f : Upto(f, k)
  <2> DEFINE T == {k \in 0..N : ~\E f : Upto(f, k)}
  <2> SUFFICES ASSUME T # {} PROVE FALSE
    BY Zenon
  <2>1. T \subseteq Nat
    BY <1>1
  <2>2. PICK k \in T : \A j \in T : ~(<<j, k>> \in OpToRel(<, Nat))
    <3> HIDE DEF T
    <3> QED
      BY <2>1, NatLessThanWellFounded, WFMin, Zenon
  <2>3. \A j \in T : ~(j < k)
    BY <2>1, <2>2 DEF OpToRel
  <2>4. k \in 0..N /\ ~\E f : Upto(f, k)
    BY Zenon
  <2>5. CASE k = 0
    <3> DEFINE f == [n \in 0..0 |-> list]
    <3>1. f = [n \in 0..0 |-> IF n = 0 THEN list ELSE Put(f[n - 1], n)]
      OBVIOUS
    <3> QED
      BY <2>4, <2>5, <3>1
  <2>6. CASE k # 0
    <3>1. k - 1 \in 0..N /\ k - 1 < k /\ k \in Nat
      BY <1>1, <2>4, <2>6
    <3>2. PICK g : Upto(g, k - 1)
      BY <2>3, <3>1, Zenon
    <3> DEFINE f == [n \in 0..k |-> IF n < k THEN g[n] ELSE Put(g[k - 1], k)]
    <3>3. \A n \in 0..(k - 1) : g[n] = IF n = 0 THEN list ELSE Put(g[n - 1], n)
      BY <3>2
    <3>4. \A n \in 0..k : f[n] = IF n = 0 THEN list ELSE Put(f[n - 1], n)
      <4> SUFFICES ASSUME NEW n \in 0..k
                   PROVE  f[n] = IF n = 0 THEN list ELSE Put(f[n - 1], n)
        OBVIOUS
      <4>1. CASE n = 0
        BY <2>6, <3>1, <3>3, <4>1
      <4>2. CASE n # 0
        <5>1. n - 1 \in 0..k /\ n - 1 < k /\ f[n - 1] = g[n - 1]
          BY <3>1, <4>2
        <5>2. CASE n < k
          <6>1. n \in 0..(k - 1) /\ f[n] = g[n]
            BY <3>1, <5>2
          <6>2. f[n] = Put(g[n - 1], n)
            BY <3>3, <4>2, <6>1
          <6> QED
            BY <4>2, <5>1, <6>2
        <5>3. CASE n = k
          BY <3>1, <4>2, <5>1, <5>3
        <5> QED
          BY <3>1, <5>2, <5>3
      <4> QED
        BY <4>1, <4>2
    <3>5. f = [n \in 0..k |-> f[n]]
      OBVIOUS
    <3>6. Upto(f, k)
      <4> HIDE DEF f
      <4> QED
        BY <3>4, <3>5
    <3> QED
      <4> HIDE DEF f, Upto
      <4> QED
        BY <2>4, <3>6
  <2> QED
    BY <2>5, <2>6
<1>3. Upto(after, N)
  <2>1. \E f : Upto(f, N)
    BY <1>1, <1>2
  <2> HIDE DEF Upto
  <2> QED
    BY <2>1
<1>4. EnqueueWoken(list, nodes, woken) = after[N]
  BY DEF EnqueueWoken, N, Put
<1> HIDE DEF after
<1>5. \A n \in 0..N : after[n] = IF n = 0 THEN list ELSE Put(after[n - 1], n)
  BY <1>3
<1> DEFINE Holds(k) == /\ after[k] \in Seq(Procs) /\ NoDup(after[k])
                       /\ \A q : Contains(after[k], q) <=>
                            Contains(list, q) \/ (q \in woken /\ \E i \in 1..k : nodes[i] = q)
<1>6. \A k \in 0..N : Holds(k)
  <2> DEFINE T == {k \in 0..N : ~Holds(k)}
  <2> HIDE DEF Holds
  <2> SUFFICES ASSUME T # {} PROVE FALSE
    BY Zenon
  <2>1. T \subseteq Nat
    BY <1>1
  <2>2. PICK k \in T : \A j \in T : ~(<<j, k>> \in OpToRel(<, Nat))
    <3> HIDE DEF T
    <3> QED
      BY <2>1, NatLessThanWellFounded, WFMin, Zenon
  <2>3. \A j \in T : ~(j < k)
    BY <2>1, <2>2 DEF OpToRel
  <2>4. k \in 0..N /\ ~Holds(k)
    BY Zenon
  <2>5. k # 0
    <3>1. after[0] = list /\ \A i : i \notin 1..0
      BY <1>1, <1>5
    <3>2. Holds(0)
      BY <3>1 DEF Holds
    <3> QED
      BY <2>4, <3>2
  <2>6. k - 1 \in 0..N /\ k - 1 < k /\ k \in 1..N
    BY <1>1, <2>4, <2>5
  <2>7. Holds(k - 1)
    BY <2>3, <2>6, Zenon
  <2>8. after[k] = Put(after[k - 1], k)
    BY <1>5, <2>4, <2>5
  <2> DEFINE Said(q, n) == Contains(list, q) \/ (q \in woken /\ \E i \in 1..n : nodes[i] = q)
  <2>9. /\ after[k - 1] \in Seq(Procs) /\ NoDup(after[k - 1])
        /\ \A q : Contains(after[k - 1], q) <=> Said(q, k - 1)
    BY <2>7 DEF Holds
  <2>10. ASSUME NEW q
         PROVE  Said(q, k) <=> Said(q, k - 1) \/ (q \in woken /\ q = nodes[k])
    <3>1. \A i : i \in 1..k <=> i \in 1..(k - 1) \/ i = k
      BY <1>1, <2>6
    <3> QED
      BY <3>1, Zenon
  <2>11. CASE nodes[k] \notin woken
    <3>1. after[k] = after[k - 1]
      BY <2>8, <2>11 DEF Put
    <3>2. \A q : Said(q, k) <=> Said(q, k - 1)
      BY <2>10, <2>11, Zenon
    <3>3. Holds(k)
      BY <2>9, <3>1, <3>2 DEF Holds
    <3> QED
      BY <2>4, <3>3
  <2>12. CASE nodes[k] \in woken
    <3>1. after[k] = EnqueueHead(after[k - 1], nodes[k], pri) /\ nodes[k] \in Procs
      BY <1>1, <2>6, <2>8, <2>12 DEF Put
    <3>2. \A i \in 1..(k - 1) : nodes[i] # nodes[k]
      BY <1>1, <2>6 DEF NoDup, N
    <3>3. ~Contains(after[k - 1], nodes[k])
      BY <2>9, <2>12, <3>2
    <3>4. /\ after[k] \in Seq(Procs) /\ NoDup(after[k])
          /\ \A q : Contains(after[k], q) <=> q = nodes[k] \/ Contains(after[k - 1], q)
      <4>1. PICK before \in Seq(Procs), node \in Procs : before = after[k - 1] /\ node = nodes[k]
        BY <2>9, <3>1
      <4>2. NoDup(before) /\ ~Contains(before, node)
        BY <2>9, <3>3, <4>1
      <4>3. LET new == EnqueueHead(before, node, pri) IN
              /\ new \in Seq(Procs) /\ NoDup(new)
              /\ \A q : Contains(new, q) <=> q = node \/ Contains(before, q)
        BY <4>2, EnqueueHeadMembers
      <4> QED
        BY <3>1, <4>1, <4>3
    <3>5. \A q : Contains(after[k], q) <=> Said(q, k)
      BY <2>9, <2>10, <2>12, <3>4, Zenon
    <3>6. Holds(k)
      BY <3>4, <3>5 DEF Holds
    <3> QED
      BY <2>4, <3>6
  <2> QED
    BY <2>11, <2>12
<1>7. Holds(N)
  BY <1>1, <1>6
<1>8. \A q : Contains(nodes, q) <=> \E i \in 1..N : nodes[i] = q
  BY DEF Contains, N
<1> QED
  BY <1>4, <1>7, <1>8
-----------------------------------------------------------------------------
(***************************************************************************)
(* The order of a list depends on the keys of its own nodes.               *)
(***************************************************************************)
LEMMA SortedAs ==
  ASSUME NEW S, NEW list \in Seq(S), NEW f \in [S -> Int], NEW g \in [S -> Int],
         \A q, r \in S : Contains(list, q) /\ Contains(list, r) /\ f[q] >= f[r] => g[q] >= g[r],
         Sorted(list, f)
  PROVE  Sorted(list, g)
<1>1. \A i \in 1..Len(list) : list[i] \in S /\ Contains(list, list[i])
  BY ElementOfSeq DEF Contains
<1> QED
  BY <1>1 DEF Sorted

\* The invariant of the scheduler for a set that is the sleeping processes,
\* before and after a step.
LEMMA SleepingNow ==
  ASSUME NEW S, S = Sleeping, KInv(SigPlaces, Sleeping)
  PROVE  KInv(SigPlaces, S)
  BY Zenon

\* The same, for those that sleep after the step.
LEMMA SleepingNext ==
  ASSUME NEW S, S = Sleeping', KInv(SigPlaces, S)'
  PROVE  KInv(SigPlaces, Sleeping)'
  BY DEF KInv, AsleepOutside, Running, ReadyExact

\* The timeouts are natural numbers.
LEMMA DueType ==
  ASSUME SigOwnTypes
  PROVE  due \in [Procs -> Nat] /\ [p \in Procs |-> -due[p]] \in [Procs -> Int]
<1>1. \A d \in Delays \cup {0} : 0..d \subseteq Nat
  BY DelaysAssumption
<1> QED
  BY <1>1 DEF SigOwnTypes

\* The process that runs does not sleep; outside the critical sections it has
\* no block in hand, none open, and is no zombie.
LEMMA RunningFacts ==
  ASSUME SigInv, NEW p \in Procs, p = cpu, ~idle
  PROVE  /\ Live(p) /\ wait[p] = {} /\ p \notin Sleeping
         /\ pc[p] = "user" \/ pc[p] \notin Labels =>
              obj[p] = NoProc /\ nest[p] = 0 /\ ~Contains(zombies, p) /\ ~Cleared(p)
<1>1. KInv(SigPlaces, Sleeping)
  BY DEF SigInv
<1>2. Live(p) /\ p \notin Sleeping
  BY <1>1 DEF KInv, Running
<1>3. ASSUME pc[p] = "user" \/ pc[p] \notin Labels
      PROVE  obj[p] = NoProc /\ nest[p] = 0 /\ ~Contains(zombies, p) /\ ~Cleared(p)
  <2>1. \A labels \in SUBSET Labels : Towards(p, labels) => pc[p] \in labels
    BY <1>3 DEF Towards, Labels, CountLabels
  <2>2. ~Cleared(p)
    BY <1>3, <2>1 DEF Cleared, Labels, OutsideLabels
  <2>3. obj[p] = NoProc
    BY <1>1, <1>3, <2>1
       DEF KInv, BlocksInv, BlockStateAt, FreeingLabels, InitLabels, Labels, OutsideLabels,
           InsideLabels
  <2>4. nest[p] = 0
    BY <1>1, <1>3 DEF KInv, PlaceInv, SectionsAt, OutsideLabels
  <2>5. ~Contains(zombies, p)
    BY <1>1, <1>2, <1>3, <2>2
       DEF KInv, ZombiesInv, ZombieAt, Live, Dead, Labels, InsideLabels
  <2> QED
    BY <2>2, <2>3, <2>4, <2>5
<1> QED
  BY <1>2, <1>3 DEF Sleeping, Waiting

\* The block that a proc_new() initialises is nobody's.
LEMMA BlockFacts ==
  ASSUME NEW S, KInv(SigPlaces, S), NEW p \in Procs, pc[p] \in InitLabels
  PROVE  obj[p] \in Procs /\ pc[obj[p]] = "alloc"
<1>1. ~(pc[p] \in CountLabels) /\ Towards(p, InitLabels)
  BY DEF InitLabels, CountLabels, Towards
<1>2. BlockStateAt(p) /\ BlockSetAt(p) /\ obj[p] \in Procs \cup {NoProc}
  BY DEF KInv, BlocksInv, TypesOK
<1>3. obj[p] # NoProc
  BY <1>1, <1>2 DEF BlockSetAt, Towards, InitLabels
<1>4. ~Towards(p, FreeingLabels) /\ pc[p] \notin {"reenqueue", "slot_take"}
  BY <1>1 DEF Towards, FreeingLabels, InitLabels
<1> QED
  BY <1>2, <1>3, <1>4 DEF BlockStateAt

\* The new control block stays clean while signals go to live processes.
LEMMA FreshKept ==
  ASSUME SigInv, \A p \in Procs : pc'[p] = "new_enq" => pc[p] = "new_enq" /\ obj'[p] = obj[p],
         \A p \in Procs : pc[p] = "alloc" => recv'[p] = recv[p] /\ wait'[p] = wait[p]
  PROVE  \A p \in Procs : FreshAt(p)'
<1>1. PICK S : S = Sleeping
  OBVIOUS
<1>2. KInv(SigPlaces, S) /\ \A p \in Procs : FreshAt(p)
  BY <1>1, SleepingNow DEF SigInv
<1>3. \A p \in Procs : pc[p] = "new_enq" => obj[p] \in Procs /\ pc[obj[p]] = "alloc"
  BY <1>2, BlockFacts DEF InitLabels
<1> QED
  BY <1>2, <1>3 DEF FreshAt

(***************************************************************************)
(* What timer_poll() does: it takes from the queue the timers that have    *)
(* expired, all of them and no other since the queue is sorted, sets       *)
(* SIG_TIMEOUT for their processes and puts those that sleep in the ready  *)
(* list.                                                                   *)
(***************************************************************************)
LEMMA TimerPollFacts ==
  ASSUME SigInv, TimerPoll
  PROVE  \E served \in SUBSET Procs :
           LET woken == {p \in served : (recv[p] \cup {SigTimeout}) \cap wait[p] # {}} IN
             /\ \A p \in served : Contains(timers, p)
             /\ timers' \in Seq(Procs) /\ NoDup(timers')
             /\ \A p \in Procs : Contains(timers', p) <=> Contains(timers, p) /\ p \notin served
             /\ \A p \in Procs : Contains(timers', p) => due[p] > 1
             /\ Sorted(timers', [p \in Procs |-> -due[p]])
             /\ due' = [p \in Procs |-> IF Contains(timers', p) THEN due[p] - 1 ELSE 0]
             /\ recv' = [p \in Procs |->
                           IF p \in served THEN recv[p] \cup {SigTimeout} ELSE recv[p]]
             /\ wait' = [p \in Procs |-> IF p \in woken THEN {} ELSE wait[p]]
             /\ ready' \in Seq(Procs) /\ NoDup(ready')
             /\ \A p \in Procs : Contains(ready', p) <=> Contains(ready, p) \/ p \in woken
<1> DEFINE First(k) == /\ k <= Len(timers) => due[timers[k]] > 1
                       /\ \A j \in 1..(k - 1) : ~(due[timers[j]] > 1)
           left == CHOOSE k \in 1..(Len(timers) + 1) : First(k)
           expired == SubSeq(timers, 1, left - 1)
           served == {p \in Procs : Contains(expired, p)}
           woken == {p \in served : (recv[p] \cup {SigTimeout}) \cap wait[p] # {}}
           key == [p \in Procs |-> -due[p]]
<1>1. /\ SigOwnTypes /\ TimersQueue /\ KInv(SigPlaces, Sleeping)
      /\ \A p \in Procs : WaitAt(p)
      /\ timers \in Seq(Procs)
      /\ due \in [Procs -> Nat] /\ key \in [Procs -> Int]
  BY DueType DEF SigInv, SigOwnTypes
<1>2. Len(timers) \in Nat /\ \A i \in 1..Len(timers) : timers[i] \in Procs
  BY <1>1, LenProperties, ElementOfSeq
<1>3. \E k \in 1..(Len(timers) + 1) : First(k)
  <2> DEFINE stops == {i \in 1..Len(timers) : due[timers[i]] > 1}
  <2>1. PICK k \in 1..(Len(timers) + 1) :
          /\ k <= Len(timers) => k \in stops
          /\ \A j \in 1..(k - 1) : j \notin stops
    <3> HIDE DEF stops
    <3> QED
      BY <1>2, FirstStop
  <2> QED
    BY <1>2, <2>1
<1>4. left \in 1..(Len(timers) + 1) /\ First(left)
  BY <1>3, Zenon
<1>5. left = WalkUntil(timers, LAMBDA p : due[p] > 1)
  BY DEF WalkUntil
<1> HIDE DEF left
<1>6. /\ expired \in Seq(Procs) /\ NoDup(expired)
      /\ SubSeq(timers, left, Len(timers)) \in Seq(Procs)
      /\ NoDup(SubSeq(timers, left, Len(timers)))
      /\ \A p : Contains(SubSeq(timers, left, Len(timers)), p) <=>
                  \E i \in left..Len(timers) : timers[i] = p
      /\ \A p : Contains(timers, p) <=>
                  Contains(expired, p) \/ Contains(SubSeq(timers, left, Len(timers)), p)
      /\ \A p : ~(Contains(expired, p) /\ Contains(SubSeq(timers, left, Len(timers)), p))
      /\ Sorted(SubSeq(timers, left, Len(timers)), key)
  BY <1>1, <1>4, SplitMembers DEF TimersQueue
<1>7. /\ timers' = SubSeq(timers, left, Len(timers))
      /\ due' = [p \in Procs |-> IF Contains(timers', p) THEN due[p] - 1 ELSE 0]
      /\ recv' = [p \in Procs |->
                    IF Contains(expired, p) THEN recv[p] \cup {SigTimeout} ELSE recv[p]]
      /\ wait' = [p \in Procs |-> IF p \in woken THEN {} ELSE wait[p]]
      /\ ready' = EnqueueWoken(ready, expired, woken)
  <2>1. woken = {p \in Procs : /\ Contains(expired, p)
                               /\ (recv[p] \cup {SigTimeout}) \cap wait[p] # {}}
    OBVIOUS
  <2> QED
    BY <1>5, <2>1 DEF TimerPoll
<1>8. ASSUME NEW p \in Procs, Contains(timers', p)
      PROVE  due[p] > 1
  <2>1. PICK i \in left..Len(timers) : timers[i] = p
    BY <1>6, <1>7, <1>8
  <2>2. left \in 1..Len(timers) /\ i \in 1..Len(timers) /\ due[timers[left]] > 1
    BY <1>2, <1>4, <2>1
  <2>3. key[timers[left]] = -due[timers[left]] /\ key[timers[i]] = -due[timers[i]]
    BY <1>2, <2>2
  <2>4. left < i => key[timers[left]] >= key[timers[i]]
    <3> HIDE DEF key
    <3> QED
      BY <1>1, <2>2 DEF TimersQueue, Sorted, key
  <2>5. due[timers[left]] \in Nat /\ due[timers[i]] \in Nat
    BY <1>1, <1>2, <2>2
  <2>6. left \in Int /\ i \in Int /\ ~(left < i) => left = i
    BY <1>2, <1>4, <2>1
  <2> QED
    BY <2>1, <2>2, <2>3, <2>4, <2>5, <2>6
<1>9. \A p \in woken : ~Contains(ready, p)
  BY <1>1 DEF KInv, ReadyExact, Sleeping, Waiting
<1>10. /\ ready' \in Seq(Procs) /\ NoDup(ready')
       /\ \A p \in Procs : Contains(ready', p) <=> Contains(ready, p) \/ p \in woken
  <2>1. ready \in Seq(Procs) /\ NoDup(ready) /\ pri \in [Procs -> Int]
    BY <1>1 DEF KInv, TypesOK, ReadyExact
  <2>2. \A p \in woken : Contains(expired, p)
    OBVIOUS
  <2> HIDE DEF expired, woken
  <2>3. /\ EnqueueWoken(ready, expired, woken) \in Seq(Procs)
        /\ NoDup(EnqueueWoken(ready, expired, woken))
        /\ \A q : Contains(EnqueueWoken(ready, expired, woken), q) <=>
                    Contains(ready, q) \/ (q \in woken /\ Contains(expired, q))
    BY <1>6, <1>9, <2>1, EnqueueWokenMembers
  <2> QED
    BY <1>7, <2>2, <2>3
<1>11. \A p \in served : Contains(timers, p)
  BY <1>6
<1>12. \A p \in Procs : Contains(timers', p) <=> Contains(timers, p) /\ p \notin served
  BY <1>6, <1>7
<1>13. recv' = [p \in Procs |-> IF p \in served THEN recv[p] \cup {SigTimeout} ELSE recv[p]]
  BY <1>7
<1>14. timers' \in Seq(Procs) /\ NoDup(timers') /\ Sorted(timers', key)
  BY <1>6, <1>7
<1>15. served \in SUBSET Procs
  OBVIOUS
<1> HIDE DEF expired, served
<1> QED
  BY <1>7, <1>8, <1>10, <1>11, <1>12, <1>13, <1>14, <1>15

(***************************************************************************)
(* The steps of sig_wait(), sig_check() and sig_waitTimeout() that do not  *)
(* switch leave the scheduler alone.                                       *)
(***************************************************************************)
LEMMA OutsideStepInv ==
  ASSUME SigInv, NEW p \in Procs, p = cpu, ~idle,
         pc[p] = "user" \/ pc[p] \in SigLabels \cup CallLabels,
         NEW label \in {"user"} \cup CallLabels, pc' = [pc EXCEPT ![p] = label],
         UNCHANGED <<current, cpu, idle, ready, quantum, isr, zombies, pri, preemptCount, reg,
                     nest, cont, obj, wait>>
  PROVE  KInv(SigPlaces, Sleeping)'
<1>1. PICK S : S = Sleeping
  OBVIOUS
<1>2. S = Sleeping'
  BY <1>1 DEF Sleeping, Waiting
<1>3. KInv(SigPlaces, S)
  BY <1>1, SleepingNow DEF SigInv
<1>4. "user" \in Labels /\ \A l \in SigLabels \cup CallLabels : l \notin Labels
  BY DEF Labels, SigLabels, CallLabels, OutsideLabels, InsideLabels, CountLabels, Dead
<1>5. /\ Live(p) /\ obj[p] = NoProc /\ nest[p] = 0 /\ ~Contains(zombies, p) /\ ~Cleared(p)
  BY <1>4, RunningFacts
<1>6. TypesOK(SigPlaces) /\ CountIsNest /\ Running(S)
  BY <1>3 DEF KInv
<1>7. pc'[p] = label /\ \A q \in Procs \ {p} : pc'[q] = pc[q]
  BY <1>6 DEF TypesOK
<1>8. TypesOK(SigPlaces)'
  BY <1>6 DEF TypesOK, SigPlaces, Labels, OutsideLabels, CallLabels
<1>9. SectionsAt(p)' /\ RegisterAt(p)' /\ CountIsNest'
  BY <1>4, <1>5, <1>6, <1>7
     DEF SectionsAt, RegisterAt, CountIsNest, CallLabels, InsideLabels, Dead
<1>10. Live(p)' /\ ~Cleared(p)' /\ ZombieAt(p)'
  BY <1>5, <1>7 DEF Live, Cleared, Towards, ZombieAt, CountLabels, Dead, CallLabels
<1>11. BlockStateAt(p)' /\ BlockSetAt(p)' /\ BlockListedAt(p)' /\ obj'[p] = NoProc
  BY <1>5, <1>7
     DEF BlockStateAt, BlockSetAt, BlockListedAt, Towards, InitLabels, CountLabels, CallLabels
<1>12. KInv(SigPlaces, S)'
  <2>1. Cleared(p)' = Cleared(p)
    BY <1>5, <1>10 DEF Cleared, Towards
  <2>2. \A q \in Procs \ {p} : /\ pc'[q] = pc[q] /\ cont'[q] = cont[q] /\ reg'[q] = reg[q]
                              /\ nest'[q] = nest[q] /\ obj'[q] = obj[q]
    BY <1>7
  <2>3. UNCHANGED <<current, cpu, idle, ready, zombies>>
    OBVIOUS
  <2>4. \A q \in Procs \ {p} : obj'[p] # NoProc /\ obj[q] = obj'[p] =>
          pc'[p] = "reenqueue" \/ pc[q] = "reenqueue"
    BY <1>11
  <2> QED
    BY <1>3, <1>8, <1>9, <1>10, <1>11, <2>1, <2>2, <2>3, <2>4, OwnStepInv
<1> QED
  BY <1>2, <1>12, SleepingNext

(***************************************************************************)
(* sig_wait() that finds nothing goes to sleep.                            *)
(***************************************************************************)
LEMMA SleepStepInv ==
  ASSUME SigInv, NEW p \in Procs, p = cpu, ~idle,
         pc[p] = "user" \/ pc[p] \in SigLabels \cup CallLabels,
         pc' = [pc EXCEPT ![p] = "sig_resume"], Switch,
         NEW sigs, sigs # {}, wait' = [wait EXCEPT ![p] = sigs],
         UNCHANGED <<isr, zombies, pri, preemptCount, reg, nest, cont, obj>>
  PROVE  KInv(SigPlaces, Sleeping)'
<1>1. PICK S : S = Sleeping
  OBVIOUS
<1>2. S \cup {p} = Sleeping'
  BY <1>1 DEF Sleeping, Waiting, SigInv, SigOwnTypes
<1>3. KInv(SigPlaces, S)
  BY <1>1, SleepingNow DEF SigInv
<1>4. "user" \in Labels /\ \A l \in SigLabels \cup CallLabels : l \notin Labels
  BY DEF Labels, SigLabels, CallLabels, OutsideLabels, InsideLabels, CountLabels, Dead
<1>5. obj[p] = NoProc /\ nest[p] = 0 /\ ~Contains(zombies, p)
  BY <1>4, RunningFacts
<1>6. "sig_resume" \in SigPlaces /\ "sig_resume" \notin Labels
  BY <1>4 DEF SigPlaces, SigLabels
<1>7. KInv(SigPlaces, S \cup {p})'
  BY <1>3, <1>5, <1>6, LeaveInv
<1> QED
  BY <1>2, <1>7, SleepingNext
-----------------------------------------------------------------------------
(***************************************************************************)
(* A call is made: its argument is noted, nothing is taken yet.            *)
(***************************************************************************)
LEMMA CallInv ==
  ASSUME SigInv, NEW p \in Procs, NEW from \in {"user", "timeout_check"}, At(p, from),
         NEW label \in {"sig_wait", "sig_check", "timeout_poll"},
         NEW sigs \in (SUBSET Sigs) \ {{}}, CallWith(p, label, sigs),
         SigTimeout \in sigs <=> from = "timeout_check",
         label = "timeout_poll" => sigs = {SigTimeout},
         label = "sig_check" => from = "user",
         UNCHANGED <<recv, wait, timers, due, schedVars, isr, zombies, pri, countVars, cont, obj>>
  PROVE  SigInv'
<1>1. /\ SigOwnTypes /\ TimersQueue
      /\ \A q \in Procs : WaitAt(q) /\ TimerAt(q) /\ FreshAt(q)
      /\ pc \in [Procs -> SigPlaces]
  BY DEF SigInv, KInv, TypesOK
<1>2. /\ p = cpu /\ ~idle /\ pc[p] = from /\ pc[p] \in {"user"} \cup SigLabels \cup CallLabels
      /\ label \in {"user"} \cup CallLabels
      /\ mask' = [mask EXCEPT ![p] = sigs] /\ pc' = [pc EXCEPT ![p] = label]
      /\ UNCHANGED <<recv, wait, timers, due, current, cpu, idle, ready, quantum, isr, zombies, pri,
                     preemptCount, reg, nest, cont, obj>>
  BY DEF At, CallWith, Goto, schedVars, countVars, CallLabels
<1>3. Live(p) /\ wait[p] = {} /\ mask[p] = {}
  BY <1>1, <1>2, RunningFacts DEF WaitAt, Asking
<1>4. KInv(SigPlaces, Sleeping)'
  BY <1>2, OutsideStepInv
<1>5. SigOwnTypes' /\ TimersQueue'
  BY <1>1, <1>2 DEF SigOwnTypes, TimersQueue
<1>6. /\ pc'[p] = label /\ mask'[p] = sigs
      /\ \A q \in Procs \ {p} : pc'[q] = pc[q] /\ mask'[q] = mask[q]
  BY <1>1, <1>2 DEF SigOwnTypes
<1>7. WaitAt(p)'
  BY <1>2, <1>3, <1>6 DEF WaitAt, Asking
<1>8. TimerAt(p)'
  <2>1. Timed(p)' <=> Timed(p)
    BY <1>2, <1>3, <1>6 DEF Timed
  <2> QED
    BY <1>1, <1>2, <2>1 DEF TimerAt
<1>9. ASSUME NEW q \in Procs, q # p PROVE WaitAt(q)' /\ TimerAt(q)'
  BY <1>1, <1>2, <1>6, <1>9 DEF WaitAt, TimerAt, Timed
<1>10. \A q \in Procs : FreshAt(q)'
  BY <1>2, <1>6, FreshKept
<1> QED
  BY <1>4, <1>5, <1>7, <1>8, <1>9, <1>10 DEF SigInv

\* sig_wait(), sig_check() and the second half of sig_waitTimeout() are called.
LEMMA CallsInv ==
  ASSUME SigInv, NEW p \in Procs,
         \/ \E sigs \in Masks : SigWait(p, sigs) \/ SigCheck(p, sigs)
         \/ TimeoutCheck(p)
  PROVE  SigInv'
<1>1. ASSUME NEW sigs \in Masks, SigWait(p, sigs) \/ SigCheck(p, sigs) PROVE SigInv'
  <2>1. /\ sigs \in (SUBSET Sigs) \ {{}} /\ SigTimeout \notin sigs
        /\ At(p, "user")
        /\ CallWith(p, "sig_wait", sigs) \/ CallWith(p, "sig_check", sigs)
        /\ UNCHANGED <<recv, wait, timers, due, schedVars, isr, zombies, pri, countVars, cont, obj>>
    BY <1>1 DEF Masks, SigWait, SigCheck, timerVars
  <2>2. CASE CallWith(p, "sig_wait", sigs)
    BY <2>1, <2>2, CallInv
  <2>3. CASE CallWith(p, "sig_check", sigs)
    BY <2>1, <2>3, CallInv
  <2> QED
    BY <2>1, <2>2, <2>3
<1>2. CASE TimeoutCheck(p)
  <2>1. /\ At(p, "timeout_check") /\ CallWith(p, "timeout_poll", {SigTimeout})
        /\ UNCHANGED <<recv, wait, timers, due, schedVars, isr, zombies, pri, countVars, cont, obj>>
    BY <1>2 DEF TimeoutCheck, timerVars
  <2>2. {SigTimeout} \in (SUBSET Sigs) \ {{}}
    BY DelaysAssumption
  <2> QED
    BY <2>1, <2>2, CallInv
<1> QED
  BY <1>1, <1>2

(***************************************************************************)
(* A process takes what it asked for and returns, with its timer in the    *)
(* queue or its SIG_TIMEOUT taken.                                         *)
(***************************************************************************)
LEMMA TakeInv ==
  ASSUME SigInv, NEW p \in Procs, p = cpu, ~idle, pc[p] \in Asking,
         NEW next \in {"user", "timeout_check"}, TakeAsked(p, next),
         next = "timeout_check" <=> SigTimeout \in mask[p] \ recv[p],
         UNCHANGED <<wait, timers, due, schedVars, isr, zombies, pri, countVars, cont, obj>>
  PROVE  SigInv'
<1>1. /\ SigOwnTypes /\ TimersQueue
      /\ \A q \in Procs : WaitAt(q) /\ TimerAt(q) /\ FreshAt(q)
      /\ pc \in [Procs -> SigPlaces]
  BY DEF SigInv, KInv, TypesOK
<1>2. /\ recv' = [recv EXCEPT ![p] = @ \ mask[p]]
      /\ mask' = [mask EXCEPT ![p] = {}]
      /\ pc' = [pc EXCEPT ![p] = next]
      /\ UNCHANGED <<current, cpu, idle, ready, quantum, preemptCount, reg, nest>>
  BY DEF TakeAsked, Goto, schedVars, countVars
<1>3. Live(p) /\ wait[p] = {}
  BY RunningFacts
<1>4. KInv(SigPlaces, Sleeping)'
  <2>1. pc[p] \in SigLabels \cup CallLabels /\ next \in {"user"} \cup CallLabels
    BY DEF Asking, SigLabels, CallLabels
  <2> QED
    BY <1>2, <2>1, OutsideStepInv
<1>5. SigOwnTypes' /\ TimersQueue'
  BY <1>1, <1>2 DEF SigOwnTypes, TimersQueue
<1>6. /\ pc'[p] = next /\ recv'[p] = recv[p] \ mask[p] /\ mask'[p] = {}
      /\ \A q \in Procs \ {p} : pc'[q] = pc[q] /\ recv'[q] = recv[q] /\ mask'[q] = mask[q]
  BY <1>1, <1>2 DEF SigOwnTypes
<1>7. WaitAt(p)'
  BY <1>2, <1>3, <1>6 DEF WaitAt, Asking
<1>8. TimerAt(p)'
  <2>1. Timed(p)' <=> SigTimeout \in mask[p] \ recv[p]
    BY <1>6 DEF Timed
  <2>2. Timed(p) <=> SigTimeout \in mask[p]
    BY DEF Timed, Asking
  <2> QED
    BY <1>1, <1>6, <2>1, <2>2 DEF TimerAt
<1>9. ASSUME NEW q \in Procs, q # p PROVE WaitAt(q)' /\ TimerAt(q)'
  BY <1>1, <1>2, <1>6, <1>9 DEF WaitAt, TimerAt, Timed
<1>10. \A q \in Procs : FreshAt(q)'
  BY <1>2, <1>3, <1>6, FreshKept DEF Live, Dead
<1> QED
  BY <1>4, <1>5, <1>7, <1>8, <1>9, <1>10 DEF SigInv

\* sig_check() of the application, which does not ask for SIG_TIMEOUT.
LEMMA CheckSignalInv ==
  ASSUME SigInv, NEW p \in Procs, CheckSignal(p)
  PROVE  SigInv'
<1>1. /\ p = cpu /\ ~idle /\ pc[p] = "sig_check" /\ TakeAsked(p, "user")
      /\ UNCHANGED <<wait, timers, due, schedVars, isr, zombies, pri, countVars, cont, obj>>
  BY DEF CheckSignal, At, timerVars
<1>2. SigTimeout \notin mask[p] /\ pc[p] \in Asking
  BY <1>1 DEF SigInv, WaitAt, Asking
<1> QED
  BY <1>1, <1>2, TakeInv

(***************************************************************************)
(* sig_wait(): a process that finds a signal returns; one that finds none  *)
(* sleeps.                                                                 *)
(***************************************************************************)
LEMMA WaitLoopInv ==
  ASSUME SigInv, NEW p \in Procs, WaitLoop(p)
  PROVE  SigInv'
<1>1. /\ SigOwnTypes /\ TimersQueue
      /\ \A q \in Procs : WaitAt(q) /\ TimerAt(q) /\ FreshAt(q)
      /\ pc \in [Procs -> SigPlaces]
  BY DEF SigInv, KInv, TypesOK
<1>2. /\ p = cpu /\ ~idle /\ pc[p] \in {"sig_wait", "sig_resume"}
      /\ UNCHANGED <<timers, due, isr, zombies, pri, countVars, cont, obj>>
  BY DEF WaitLoop, At, timerVars
<1>3. Live(p) /\ wait[p] = {}
  BY <1>2, RunningFacts
<1>4. pc[p] \in Asking /\ mask[p] # {}
  BY <1>1, <1>2 DEF WaitAt, Asking
<1>5. CASE recv[p] \cap mask[p] # {}
  <2>1. TakeAsked(p, Return(p)) /\ UNCHANGED <<wait, schedVars>>
    BY <1>5 DEF WaitLoop
  <2>2. /\ Return(p) \in {"user", "timeout_check"}
        /\ Return(p) = "timeout_check" <=> SigTimeout \in mask[p] \ recv[p]
    BY DEF Return
  <2> QED
    BY <1>2, <1>4, <2>1, <2>2, TakeInv
<1>6. CASE recv[p] \cap mask[p] = {}
  <2>1. /\ wait' = [wait EXCEPT ![p] = mask[p]]
        /\ pc' = [pc EXCEPT ![p] = "sig_resume"]
        /\ recv' = recv /\ mask' = mask
        /\ Switch
        /\ UNCHANGED <<preemptCount, reg, nest>>
    BY <1>2, <1>6 DEF WaitLoop, Sleep, Goto, countVars
  <2>2. KInv(SigPlaces, Sleeping)'
    <3>1. pc[p] \in SigLabels \cup CallLabels
      BY <1>2 DEF SigLabels, CallLabels
    <3> QED
      BY <1>2, <1>4, <2>1, <3>1, SleepStepInv
  <2>3. SigOwnTypes' /\ TimersQueue'
    BY <1>1, <1>2, <2>1 DEF SigOwnTypes, TimersQueue
  <2>4. /\ pc'[p] = "sig_resume" /\ wait'[p] = mask[p]
        /\ \A q \in Procs \ {p} : pc'[q] = pc[q] /\ wait'[q] = wait[q]
    BY <1>1, <2>1 DEF SigOwnTypes
  <2>5. WaitAt(p)'
    BY <1>4, <1>6, <2>1, <2>4 DEF WaitAt, Asking
  <2>6. TimerAt(p)'
    <3>1. Timed(p)' <=> Timed(p)
      BY <1>2, <2>1, <2>4 DEF Timed
    <3> QED
      BY <1>1, <1>2, <2>1, <3>1 DEF TimerAt
  <2>7. ASSUME NEW q \in Procs, q # p PROVE WaitAt(q)' /\ TimerAt(q)'
    BY <1>1, <1>2, <2>1, <2>4, <2>7 DEF WaitAt, TimerAt, Timed
  <2>8. \A q \in Procs : FreshAt(q)'
    <3>1. \A q \in Procs : pc'[q] = "new_enq" => pc[q] = "new_enq" /\ obj'[q] = obj[q]
      BY <1>2, <2>4
    <3>2. \A q \in Procs : pc[q] = "alloc" => recv'[q] = recv[q] /\ wait'[q] = wait[q]
      BY <2>1, <2>4, <1>2
    <3> QED
      BY <3>1, <3>2, FreshKept
  <2> QED
    BY <2>2, <2>3, <2>5, <2>6, <2>7, <2>8 DEF SigInv
<1> QED
  BY <1>5, <1>6

(***************************************************************************)
(* timer_add() of sig_waitTimeout(): the process had no timer, so it is    *)
(* in the queue once.                                                      *)
(***************************************************************************)
LEMMA WaitTimeoutInv ==
  ASSUME SigInv, NEW p \in Procs, NEW sigs \in Masks, NEW delay \in Delays,
         WaitTimeout(p, sigs, delay)
  PROVE  SigInv'
<1> DEFINE tick == [due EXCEPT ![p] = delay]
           key == [q \in Procs |-> -due[q]]
           after == [q \in Procs |-> -tick[q]]
<1>1. /\ SigOwnTypes /\ TimersQueue
      /\ \A q \in Procs : WaitAt(q) /\ TimerAt(q) /\ FreshAt(q)
      /\ pc \in [Procs -> SigPlaces]
      /\ due \in [Procs -> Nat] /\ key \in [Procs -> Int]
      /\ timers \in Seq(Procs) /\ delay \in Nat
  BY DueType, DelaysAssumption DEF SigInv, SigOwnTypes, KInv, TypesOK
<1>2. /\ p = cpu /\ ~idle /\ pc[p] = "user"
      /\ due' = tick /\ timers' = Enqueue(timers, p, after)
      /\ mask' = [mask EXCEPT ![p] = sigs \cup {SigTimeout}]
      /\ pc' = [pc EXCEPT ![p] = "sig_wait"]
      /\ UNCHANGED <<current, cpu, idle, ready, quantum, isr, zombies, pri, preemptCount, reg,
                     nest, cont, obj, recv, wait>>
  BY DEF WaitTimeout, TimerAdd, At, CallWith, Goto, schedVars, countVars
<1>3. Live(p) /\ ~Timed(p) /\ wait[p] = {}
  BY <1>1, <1>2, RunningFacts DEF WaitAt, Timed, Asking
<1>4. ~Contains(timers, p) /\ SigTimeout \notin recv[p]
  BY <1>1, <1>3 DEF TimerAt
<1>5. KInv(SigPlaces, Sleeping)'
  BY <1>2, OutsideStepInv DEF CallLabels
<1>6. tick \in [Procs -> Nat] /\ tick[p] = delay /\ \A q \in Procs \ {p} : tick[q] = due[q]
  BY <1>1
<1> HIDE DEF tick
<1>7. after \in [Procs -> Int] /\ after = [q \in Procs |-> -due'[q]]
  BY <1>2, <1>6
<1>8. \A q \in Procs \ {p} : key[q] = after[q]
  BY <1>6
<1> HIDE DEF key, after
<1>9. Sorted(timers, after)
  <2>1. Sorted(timers, key)
    BY <1>1 DEF TimersQueue, key
  <2>2. \A q, r \in Procs : Contains(timers, q) /\ Contains(timers, r) /\ key[q] >= key[r] =>
          after[q] >= after[r]
    BY <1>4, <1>8
  <2> QED
    BY <1>1, <1>7, <2>1, <2>2, SortedAs
<1>10. /\ timers' \in Seq(Procs) /\ NoDup(timers')
       /\ \A q : Contains(timers', q) <=> q = p \/ Contains(timers, q)
       /\ Sorted(timers', after)
  BY <1>1, <1>2, <1>4, <1>7, <1>9, EnqueueMembers, EnqueueSorted DEF TimersQueue
<1>11. TimersQueue'
  BY <1>7, <1>10 DEF TimersQueue
<1>12. SigOwnTypes'
  <2>1. due' \in [Procs -> UNION {0..d : d \in Delays \cup {0}}]
    <3>1. delay \in UNION {0..d : d \in Delays \cup {0}}
      BY <1>1
    <3>2. due \in [Procs -> UNION {0..d : d \in Delays \cup {0}}]
      BY <1>1 DEF SigOwnTypes
    <3> DEFINE D == UNION {0..d : d \in Delays \cup {0}}
    <3> HIDE DEF D
    <3>3. delay \in D /\ due \in [Procs -> D] => [due EXCEPT ![p] = delay] \in [Procs -> D]
      OBVIOUS
    <3> QED
      BY <1>2, <3>1, <3>2, <3>3 DEF D, tick
  <2>2. mask' \in [Procs -> SUBSET Sigs]
    BY <1>1, <1>2, DelaysAssumption DEF SigOwnTypes, Masks
  <2> QED
    BY <1>1, <1>2, <1>10, <2>1, <2>2 DEF SigOwnTypes
<1>13. /\ pc'[p] = "sig_wait" /\ due'[p] = delay /\ mask'[p] = sigs \cup {SigTimeout}
       /\ \A q \in Procs \ {p} : pc'[q] = pc[q] /\ due'[q] = due[q] /\ mask'[q] = mask[q]
  BY <1>1, <1>2, <1>6 DEF SigOwnTypes
<1>14. WaitAt(p)'
  <2>1. mask'[p] # {}
    BY <1>13
  <2> QED
    BY <1>2, <1>3, <1>13, <2>1 DEF WaitAt, Asking
<1>15. TimerAt(p)'
  <2>1. 0 \notin Delays => delay > 0
    BY <1>1
  <2> QED
    BY <1>2, <1>4, <1>10, <1>13, <2>1 DEF TimerAt, Timed
<1>16. ASSUME NEW q \in Procs, q # p PROVE WaitAt(q)' /\ TimerAt(q)'
  <2>1. pc'[q] = pc[q] /\ due'[q] = due[q] /\ mask'[q] = mask[q]
    BY <1>13, <1>16
  <2>2. recv'[q] = recv[q] /\ wait'[q] = wait[q] /\ WaitAt(q) /\ TimerAt(q)
    BY <1>1, <1>2
  <2>3. Contains(timers', q) <=> Contains(timers, q)
    BY <1>10, <1>16
  <2> QED
    BY <2>1, <2>2, <2>3 DEF WaitAt, TimerAt, Timed
<1>17. \A q \in Procs : FreshAt(q)'
  BY <1>2, <1>13, FreshKept
<1> QED
  BY <1>5, <1>11, <1>12, <1>14, <1>15, <1>16, <1>17 DEF SigInv

(***************************************************************************)
(* sig_waitTimeout() after sig_wait(): either SIG_TIMEOUT is there, or the *)
(* timer is in its queue.                                                  *)
(***************************************************************************)
LEMMA TimeoutPollInv ==
  ASSUME SigInv, NEW p \in Procs, TimeoutPoll(p)
  PROVE  SigInv'
<1>1. /\ SigOwnTypes /\ TimersQueue
      /\ \A q \in Procs : WaitAt(q) /\ TimerAt(q) /\ FreshAt(q)
      /\ pc \in [Procs -> SigPlaces]
      /\ due \in [Procs -> Nat] /\ [q \in Procs |-> -due[q]] \in [Procs -> Int]
      /\ timers \in Seq(Procs)
  BY DueType DEF SigInv, SigOwnTypes, KInv, TypesOK
<1>2. /\ p = cpu /\ ~idle /\ pc[p] = "timeout_poll" /\ TakeAsked(p, "user")
      /\ UNCHANGED <<wait, schedVars, isr, zombies, pri, countVars, cont, obj>>
  BY DEF TimeoutPoll, At
<1>3. mask[p] = {SigTimeout} /\ pc[p] \in Asking
  BY <1>1, <1>2 DEF WaitAt, Asking
<1>4. CASE SigTimeout \in recv[p]
  <2>1. UNCHANGED <<timers, due>>
    BY <1>4 DEF TimeoutPoll, timerVars
  <2>2. SigTimeout \notin mask[p] \ recv[p]
    BY <1>4
  <2> QED
    BY <1>2, <1>3, <2>1, <2>2, TakeInv
<1>5. CASE SigTimeout \notin recv[p]
  <2>1. timers' = Unlink(timers, p) /\ due' = [due EXCEPT ![p] = 0]
    BY <1>5 DEF TimeoutPoll, TimerAbort
  <2>2. /\ mask' = [mask EXCEPT ![p] = {}]
        /\ pc' = [pc EXCEPT ![p] = "user"]
        /\ UNCHANGED <<recv, wait, current, cpu, idle, ready, quantum, isr, zombies, pri,
                       preemptCount, reg, nest, cont, obj>>
    <3>1. recv' = [recv EXCEPT ![p] = @ \ {SigTimeout}]
      BY <1>2, <1>3 DEF TakeAsked
    <3>2. recv[p] \ {SigTimeout} = recv[p]
      BY <1>5
    <3>3. recv' = recv
      BY <1>1, <3>1, <3>2 DEF SigOwnTypes
    <3> QED
      BY <1>2, <3>3 DEF TakeAsked, Goto, schedVars, countVars
  <2>3. Live(p) /\ wait[p] = {}
    BY <1>2, RunningFacts
  <2>4. KInv(SigPlaces, Sleeping)'
    BY <1>2, <2>2, OutsideStepInv DEF CallLabels
  <2>5. Contains(timers, p)
    BY <1>1, <1>3, <1>5 DEF TimerAt, Timed
  <2> DEFINE key == [q \in Procs |-> -due[q]]
             after == [q \in Procs |-> -due'[q]]
  <2>6. due' \in [Procs -> Nat] /\ due'[p] = 0 /\ \A q \in Procs \ {p} : due'[q] = due[q]
    BY <1>1, <2>1
  <2>7. /\ key \in [Procs -> Int] /\ after \in [Procs -> Int]
        /\ \A q \in Procs \ {p} : key[q] = after[q]
    BY <1>1, <2>6
  <2>8. /\ timers' \in Seq(Procs) /\ NoDup(timers')
        /\ \A q : Contains(timers', q) <=> q # p /\ Contains(timers, q)
        /\ Sorted(timers', key)
    BY <1>1, <2>1, <2>5, UnlinkMembers, UnlinkSorted DEF TimersQueue
  <2>9. TimersQueue'
    <3> HIDE DEF key, after
    <3>1. \A q, r \in Procs : Contains(timers', q) /\ Contains(timers', r) /\ key[q] >= key[r] =>
            after[q] >= after[r]
      BY <2>7, <2>8
    <3>2. Sorted(timers', after)
      BY <2>7, <2>8, <3>1, SortedAs
    <3> QED
      BY <2>8, <3>2 DEF TimersQueue, after
  <2>10. SigOwnTypes'
    <3> DEFINE D == UNION {0..d : d \in Delays \cup {0}}
    <3>1. due \in [Procs -> D] /\ 0 \in D
      <4>1. 0 \in 0..0 /\ 0 \in Delays \cup {0}
        OBVIOUS
      <4> QED
        BY <1>1, <4>1 DEF SigOwnTypes
    <3> HIDE DEF D
    <3>2. due' \in [Procs -> D]
      BY <2>1, <3>1
    <3> QED
      BY <1>1, <2>2, <2>8, <3>2 DEF SigOwnTypes, D
  <2>11. /\ pc'[p] = "user" /\ mask'[p] = {}
         /\ \A q \in Procs \ {p} : pc'[q] = pc[q] /\ mask'[q] = mask[q]
    BY <1>1, <2>2 DEF SigOwnTypes
  <2>12. WaitAt(p)' /\ TimerAt(p)'
    BY <1>1, <1>5, <2>2, <2>3, <2>8, <2>11 DEF WaitAt, TimerAt, Timed, Asking
  <2>13. ASSUME NEW q \in Procs, q # p PROVE WaitAt(q)' /\ TimerAt(q)'
    BY <1>1, <2>2, <2>6, <2>8, <2>11, <2>13 DEF WaitAt, TimerAt, Timed
  <2>14. \A q \in Procs : FreshAt(q)'
    BY <2>2, <2>11, FreshKept
  <2> QED
    BY <2>4, <2>9, <2>10, <2>12, <2>13, <2>14 DEF SigInv
<1> QED
  BY <1>4, <1>5

(***************************************************************************)
(* __sig_signal() to a live process: one that waits for the signal is on   *)
(* no list, and is put on one, or runs; the others keep the bits.          *)
(***************************************************************************)
LEMMA DeliverInv ==
  ASSUME SigInv, NEW q \in Procs, Live(q), NEW sigs \in Masks, NEW wakeup \in BOOLEAN,
         Deliver(q, sigs, wakeup), isr' \in BOOLEAN,
         wakeup => isr' = isr /\ \E p \in Procs : At(p, "user"),
         UNCHANGED <<timers, due, mask, zombies, pri, preemptCount, reg, nest, pc, cont, obj>>
  PROVE  SigInv'
<1>1. /\ SigOwnTypes /\ TimersQueue
      /\ \A r \in Procs : WaitAt(r) /\ TimerAt(r) /\ FreshAt(r)
      /\ sigs \subseteq Sigs /\ SigTimeout \notin sigs
  BY DEF SigInv, Masks
<1>2. PICK S : S = Sleeping
  OBVIOUS
<1>3. KInv(SigPlaces, S) /\ TypesOK(SigPlaces) /\ ReadyExact(S)
  BY <1>2, SleepingNow DEF SigInv, KInv
<1>4. /\ recv' = [recv EXCEPT ![q] = @ \cup sigs]
      /\ recv'[q] = recv[q] \cup sigs
      /\ \A r \in Procs \ {q} : recv'[r] = recv[r]
      /\ recv' \in [Procs -> SUBSET Sigs]
  BY <1>1 DEF Deliver, SigOwnTypes
<1>5. CASE (recv[q] \cup sigs) \cap wait[q] # {}
  <2>1. /\ wait' = [wait EXCEPT ![q] = {}]
        /\ wakeup => Wakeup(q)
        /\ ~wakeup => ready' = EnqueueHead(ready, q, pri)
        /\ ~wakeup => UNCHANGED <<current, cpu, idle, quantum>>
    BY <1>5 DEF Deliver
  <2>2. wait'[q] = {} /\ \A r \in Procs \ {q} : wait'[r] = wait[r]
    BY <1>1, <2>1 DEF SigOwnTypes
  <2>3. q \in S /\ S \ {q} = Sleeping'
    <3>1. wait[q] # {}
      BY <1>5
    <3> QED
      BY <1>2, <2>2, <3>1 DEF Sleeping, Waiting
  <2>4. KInv(SigPlaces, S \ {q})'
    <3>1. CASE wakeup
      <4>1. PICK p \in Procs : At(p, "user")
        BY <3>1
      <4>2. UNCHANGED <<isr, zombies, pri, preemptCount, pc, cont, reg, nest, obj>>
        BY <3>1
      <4>3. Wakeup(q)
        BY <2>1, <3>1
      <4> QED
        BY <1>3, <2>3, <4>1, <4>2, <4>3, WakeupInv
    <3>2. CASE ~wakeup
      <4>1. ~Contains(ready, q)
        BY <1>3, <2>3 DEF ReadyExact
      <4>2. /\ ready' \in Seq(Procs) /\ NoDup(ready')
            /\ \A r : Contains(ready', r) <=> r = q \/ Contains(ready, r)
        <5>1. ready \in Seq(Procs) /\ NoDup(ready) /\ pri \in [Procs -> Int]
          BY <1>3 DEF TypesOK, ReadyExact
        <5>2. ready' = EnqueueHead(ready, q, pri)
          BY <2>1, <3>2
        <5> QED
          BY <4>1, <5>1, <5>2, EnqueueHeadMembers
      <4>3. UNCHANGED <<current, cpu, idle, zombies, pri, preemptCount, pc, cont, reg, nest, obj>>
        BY <2>1, <3>2
      <4>4. quantum' \in 0..Quantum
        BY <1>3, <2>1, <3>2 DEF TypesOK
      <4>5. \A r \in Procs : Contains(ready', r) <=> Contains(ready, r) \/ r \in S \ (S \ {q})
        BY <2>3, <4>2
      <4>6. S \ {q} \in SUBSET S
        OBVIOUS
      <4> QED
        BY <1>3, <4>2, <4>3, <4>4, <4>5, <4>6, WakeInv
    <3> QED
      BY <3>1, <3>2
  <2>5. KInv(SigPlaces, Sleeping)'
    BY <2>3, <2>4, SleepingNext
  <2>6. SigOwnTypes' /\ TimersQueue'
    BY <1>1, <1>4, <2>1 DEF SigOwnTypes, TimersQueue
  <2>7. WaitAt(q)'
    BY <1>1, <1>4, <1>5, <2>2 DEF WaitAt
  <2>8. TimerAt(q)'
    BY <1>1, <1>4 DEF TimerAt, Timed
  <2>9. ASSUME NEW r \in Procs, r # q PROVE WaitAt(r)' /\ TimerAt(r)'
    BY <1>1, <1>4, <2>2, <2>9 DEF WaitAt, TimerAt, Timed
  <2>10. \A r \in Procs : FreshAt(r)'
    BY <1>4, <2>2, FreshKept DEF Live, Dead
  <2> QED
    BY <2>5, <2>6, <2>7, <2>8, <2>9, <2>10 DEF SigInv
<1>6. CASE (recv[q] \cup sigs) \cap wait[q] = {}
  <2>1. wait' = wait /\ UNCHANGED <<current, cpu, idle, ready, quantum>>
    BY <1>6 DEF Deliver, schedVars
  <2>2. KInv(SigPlaces, S)'
    <3>1. UNCHANGED <<current, cpu, idle, zombies, pri, preemptCount, pc, cont, reg, nest, obj>>
      BY <2>1
    <3>2. quantum' \in 0..Quantum /\ ready' \in Seq(Procs) /\ NoDup(ready')
      BY <1>3, <2>1 DEF TypesOK, ReadyExact
    <3>3. \A r \in Procs : Contains(ready', r) <=> Contains(ready, r) \/ r \in S \ S
      BY <2>1
    <3>4. S \in SUBSET S
      OBVIOUS
    <3> QED
      BY <1>3, <3>1, <3>2, <3>3, <3>4, WakeInv
  <2>3. S = Sleeping'
    BY <1>2, <2>1 DEF Sleeping, Waiting
  <2>4. KInv(SigPlaces, Sleeping)'
    BY <2>2, <2>3, SleepingNext
  <2>5. SigOwnTypes' /\ TimersQueue'
    BY <1>1, <1>4, <2>1 DEF SigOwnTypes, TimersQueue
  <2>6. WaitAt(q)'
    BY <1>1, <1>4, <1>6, <2>1 DEF WaitAt
  <2>7. TimerAt(q)'
    BY <1>1, <1>4 DEF TimerAt, Timed
  <2>8. ASSUME NEW r \in Procs, r # q PROVE WaitAt(r)' /\ TimerAt(r)'
    BY <1>1, <1>4, <2>1, <2>8 DEF WaitAt, TimerAt, Timed
  <2>9. \A r \in Procs : FreshAt(r)'
    BY <1>4, <2>1, FreshKept DEF Live, Dead
  <2> QED
    BY <2>4, <2>5, <2>6, <2>7, <2>8, <2>9 DEF SigInv
<1> QED
  BY <1>5, <1>6

\* The three ways to send a signal.
LEMMA SendInv ==
  ASSUME SigInv, NEW q \in Procs, NEW sigs \in Masks,
         \/ \E p \in Procs : SigSend(p, q, sigs) \/ SigPost(p, q, sigs)
         \/ IsrPost(q, sigs)
  PROVE  SigInv'
<1>1. isr \in BOOLEAN
  BY DEF SigInv, KInv, TypesOK
<1>2. ASSUME NEW p \in Procs, SigSend(p, q, sigs) PROVE SigInv'
  <2>1. /\ At(p, "user") /\ Live(q) /\ Deliver(q, sigs, TRUE) /\ isr' = isr
        /\ UNCHANGED <<timers, due, mask, zombies, pri, preemptCount, reg, nest, pc, cont,
                       obj>>
    BY <1>2 DEF SigSend, timerVars, countVars
  <2> QED
    BY <1>1, <2>1, DeliverInv
<1>3. ASSUME NEW p \in Procs, SigPost(p, q, sigs) PROVE SigInv'
  <2>1. /\ Live(q) /\ Deliver(q, sigs, FALSE) /\ isr' = isr
        /\ UNCHANGED <<timers, due, mask, zombies, pri, preemptCount, reg, nest, pc, cont,
                       obj>>
    BY <1>3 DEF SigPost, timerVars, countVars
  <2> QED
    BY <1>1, <2>1, DeliverInv
<1>4. CASE IsrPost(q, sigs)
  <2>1. /\ Live(q) /\ Deliver(q, sigs, FALSE) /\ isr' = TRUE
        /\ UNCHANGED <<timers, due, mask, zombies, pri, preemptCount, reg, nest, pc, cont,
                       obj>>
    BY <1>4 DEF IsrPost, timerVars, countVars
  <2> QED
    BY <2>1, DeliverInv
<1> QED
  BY <1>2, <1>3, <1>4

-----------------------------------------------------------------------------
(***************************************************************************)
(* The timer interrupt: the processes whose timers have expired are the    *)
(* ones that a sig_waitTimeout() is in progress for.                       *)
(***************************************************************************)
LEMMA SigTickInv ==
  ASSUME SigInv, SigTick
  PROVE  SigInv'
<1>1. /\ SigOwnTypes /\ TimersQueue
      /\ \A p \in Procs : WaitAt(p) /\ TimerAt(p) /\ FreshAt(p)
      /\ due \in [Procs -> Nat] /\ [p \in Procs |-> -due[p]] \in [Procs -> Int]
  BY DueType DEF SigInv
<1>2. /\ TimerPoll
      /\ isr' \in BOOLEAN /\ quantum' \in 0..Quantum
      /\ UNCHANGED <<current, cpu, idle, mask, zombies, pri, preemptCount, reg, nest, pc,
                     cont, obj>>
  <2>1. quantum \in 0..Quantum
    BY DEF SigInv, KInv, TypesOK
  <2>2. quantum' = IF Preempt /\ quantum > 0 THEN quantum - 1 ELSE quantum
    BY DEF SigTick
  <2>3. quantum' \in 0..Quantum
    BY <2>1, <2>2, QuantumAssumption
  <2> QED
    BY <2>3 DEF SigTick, TimerPoll, countVars
<1>3. PICK served \in SUBSET Procs :
        LET woken == {p \in served : (recv[p] \cup {SigTimeout}) \cap wait[p] # {}} IN
          /\ \A p \in served : Contains(timers, p)
          /\ timers' \in Seq(Procs) /\ NoDup(timers')
          /\ \A p \in Procs : Contains(timers', p) <=> Contains(timers, p) /\ p \notin served
          /\ \A p \in Procs : Contains(timers', p) => due[p] > 1
          /\ Sorted(timers', [p \in Procs |-> -due[p]])
          /\ due' = [p \in Procs |-> IF Contains(timers', p) THEN due[p] - 1 ELSE 0]
          /\ recv' = [p \in Procs |-> IF p \in served THEN recv[p] \cup {SigTimeout} ELSE recv[p]]
          /\ wait' = [p \in Procs |-> IF p \in woken THEN {} ELSE wait[p]]
          /\ ready' \in Seq(Procs) /\ NoDup(ready')
          /\ \A p \in Procs : Contains(ready', p) <=> Contains(ready, p) \/ p \in woken
  BY <1>2, TimerPollFacts
<1> DEFINE woken == {p \in served : (recv[p] \cup {SigTimeout}) \cap wait[p] # {}}
<1>4. /\ \A p \in served : Contains(timers, p)
      /\ timers' \in Seq(Procs) /\ NoDup(timers')
      /\ \A p \in Procs : Contains(timers', p) <=> Contains(timers, p) /\ p \notin served
      /\ \A p \in Procs : Contains(timers', p) => due[p] > 1
      /\ Sorted(timers', [p \in Procs |-> -due[p]])
      /\ due' = [p \in Procs |-> IF Contains(timers', p) THEN due[p] - 1 ELSE 0]
      /\ recv' = [p \in Procs |-> IF p \in served THEN recv[p] \cup {SigTimeout} ELSE recv[p]]
      /\ wait' = [p \in Procs |-> IF p \in woken THEN {} ELSE wait[p]]
      /\ ready' \in Seq(Procs) /\ NoDup(ready')
      /\ \A p \in Procs : Contains(ready', p) <=> Contains(ready, p) \/ p \in woken
  BY <1>3
<1>5. \A p \in Procs : p \in woken <=>
        p \in served /\ (recv[p] \cup {SigTimeout}) \cap wait[p] # {}
  OBVIOUS
<1> HIDE DEF woken
<1>6. KInv(SigPlaces, Sleeping)'
  <2>1. PICK S, T : S = Sleeping /\ T = S \ woken
    OBVIOUS
  <2>2. T = Sleeping'
    BY <1>4, <2>1 DEF Sleeping, Waiting
  <2>3. woken \subseteq S /\ woken = S \ T /\ T \in SUBSET S
    <3>1. \A p \in woken : p \in Procs
      BY <1>3 DEF woken
    <3>2. \A p \in woken : wait[p] # {}
      BY <1>5, <3>1
    <3> QED
      BY <2>1, <3>1, <3>2 DEF Sleeping, Waiting
  <2>4. KInv(SigPlaces, S)
    BY <2>1, SleepingNow DEF SigInv
  <2>5. \A p \in Procs : Contains(ready', p) <=> Contains(ready, p) \/ p \in S \ T
    BY <1>4, <2>3
  <2>6. UNCHANGED <<current, cpu, idle, zombies, pri, preemptCount, pc, cont, reg, nest, obj>>
    BY <1>2
  <2>7. KInv(SigPlaces, T)'
    BY <1>2, <1>4, <2>3, <2>4, <2>5, <2>6, WakeInv
  <2> QED
    BY <2>2, <2>7, SleepingNext
<1>7. \A p \in served : p \in Procs /\ Timed(p) /\ SigTimeout \notin recv[p]
  BY <1>1, <1>4 DEF TimerAt
<1>8. due' \in [Procs -> Int] /\ \A p \in Procs : Contains(timers', p) => due'[p] = due[p] - 1
  BY <1>1, <1>4
<1>9. TimersQueue'
  <2> DEFINE key == [p \in Procs |-> -due[p]]
             after == [p \in Procs |-> -due'[p]]
  <2>1. key \in [Procs -> Int] /\ after \in [Procs -> Int] /\ Sorted(timers', key)
    BY <1>1, <1>4, <1>8
  <2>2. ASSUME NEW q \in Procs, NEW r \in Procs, Contains(timers', q), Contains(timers', r),
               key[q] >= key[r]
        PROVE  after[q] >= after[r]
    <3>1. key[q] = -due[q] /\ key[r] = -due[r] /\ after[q] = -due'[q] /\ after[r] = -due'[r]
      OBVIOUS
    <3>2. due'[q] = due[q] - 1 /\ due'[r] = due[r] - 1 /\ due[q] \in Nat /\ due[r] \in Nat
      BY <1>1, <1>8, <2>2
    <3> HIDE DEF key, after
    <3> QED
      BY <2>2, <3>1, <3>2
  <2> HIDE DEF key, after
  <2>3. Sorted(timers', after)
    BY <1>4, <2>1, <2>2, SortedAs
  <2> QED
    BY <1>4, <2>3 DEF TimersQueue, after
<1>10. SigOwnTypes'
  <2>1. due' \in [Procs -> UNION {0..d : d \in Delays \cup {0}}]
    <3> DEFINE D == UNION {0..d : d \in Delays \cup {0}}
    <3>1. ASSUME NEW n \in D PROVE n - 1 \in D \/ ~(n > 1)
      <4>1. PICK d \in Delays \cup {0} : n \in 0..d
        OBVIOUS
      <4>2. d \in Nat
        BY DelaysAssumption
      <4>3. n > 1 => n - 1 \in 0..d
        BY <4>1, <4>2
      <4> QED
        BY <4>3
    <3>2. due \in [Procs -> D] /\ 0 \in D
      <4>1. 0 \in 0..0 /\ 0 \in Delays \cup {0}
        OBVIOUS
      <4> QED
        BY <1>1, <4>1 DEF SigOwnTypes
    <3> HIDE DEF D
    <3>3. \A p \in Procs : due'[p] \in D
      BY <1>4, <3>1, <3>2
    <3> QED
      BY <1>4, <3>3 DEF D
  <2>2. recv' \in [Procs -> SUBSET Sigs]
    BY <1>1, <1>4, DelaysAssumption DEF SigOwnTypes
  <2>3. wait' \in [Procs -> SUBSET Sigs]
    BY <1>1, <1>4 DEF SigOwnTypes
  <2> QED
    BY <1>1, <1>2, <1>4, <2>1, <2>2, <2>3 DEF SigOwnTypes
<1>11. ASSUME NEW p \in Procs PROVE WaitAt(p)'
  <2>1. wait'[p] = IF p \in woken THEN {} ELSE wait[p]
    BY <1>4
  <2>2. recv'[p] = IF p \in served THEN recv[p] \cup {SigTimeout} ELSE recv[p]
    BY <1>4
  <2>3. CASE p \in woken
    <3>1. p \in served /\ (recv[p] \cup {SigTimeout}) \cap wait[p] # {}
      BY <1>5, <2>3
    <3>2. wait[p] = mask[p] /\ pc[p] = "sig_resume"
      BY <1>1, <3>1 DEF WaitAt
    <3> QED
      BY <1>1, <1>2, <2>1, <2>2, <2>3, <3>1, <3>2 DEF WaitAt
  <2>4. CASE p \notin woken
    <3>1. recv'[p] \cap wait[p] = {}
      BY <1>1, <1>5, <2>2, <2>4 DEF WaitAt
    <3>2. recv[p] \subseteq recv'[p]
      BY <2>2
    <3> QED
      BY <1>1, <1>2, <2>1, <2>4, <3>1, <3>2 DEF WaitAt
  <2> QED
    BY <2>3, <2>4
<1>12. ASSUME NEW p \in Procs PROVE TimerAt(p)'
  <2>1. Timed(p)' <=> Timed(p)
    BY <1>2 DEF Timed
  <2>2. recv'[p] = IF p \in served THEN recv[p] \cup {SigTimeout} ELSE recv[p]
    BY <1>4
  <2>3. Contains(timers', p) => due'[p] > 0
    BY <1>1, <1>4, <1>8
  <2> QED
    BY <1>1, <1>4, <1>7, <2>1, <2>2, <2>3 DEF TimerAt
<1>13. \A p \in Procs : FreshAt(p)'
  <2>1. \A p \in Procs : pc[p] = "alloc" => ~Timed(p) /\ wait[p] = {}
    BY <1>1 DEF WaitAt, Timed, Asking
  <2>2. \A p \in Procs : pc[p] = "alloc" => recv'[p] = recv[p] /\ wait'[p] = wait[p]
    BY <1>4, <1>7, <2>1
  <2> QED
    BY <1>2, <2>2, FreshKept
<1> QED
  BY <1>6, <1>9, <1>10, <1>11, <1>12, <1>13 DEF SigInv

(***************************************************************************)
(* Steps of the scheduler alone.                                           *)
(***************************************************************************)
LEMMA SchedulerStepInv ==
  ASSUME SigInv, NEW S, S = Sleeping, KInv(SigPlaces, S)',
         UNCHANGED <<pc, obj, recv, wait, mask, timers, due>>
  PROVE  SigInv'
<1>1. S = Sleeping'
  BY DEF Sleeping, Waiting
<1>2. KInv(SigPlaces, Sleeping)'
  BY <1>1, SleepingNext
<1>3. SigOwnTypes' /\ TimersQueue'
  BY DEF SigInv, SigOwnTypes, TimersQueue
<1>4. \A p \in Procs : WaitAt(p)' /\ TimerAt(p)' /\ FreshAt(p)'
  BY DEF SigInv, WaitAt, TimerAt, Timed, FreshAt
<1> QED
  BY <1>2, <1>3, <1>4 DEF SigInv

\* Idling, the end of an interrupt and stuttering.
LEMMA SigSchedulerInv ==
  ASSUME SigInv, SigIdleLoop \/ SigIsrExit \/ UNCHANGED allVars
  PROVE  SigInv'
<1>1. PICK S : S = Sleeping
  OBVIOUS
<1>2. KInv(SigPlaces, S)
  BY <1>1, SleepingNow DEF SigInv
<1>3. CASE SigIdleLoop
  <2>1. IdleLoop /\ UNCHANGED <<pc, obj, recv, wait, mask, timers, due>>
    BY <1>3 DEF SigIdleLoop, IdleLoop, sigVars, timerVars
  <2>2. KInv(SigPlaces, S)'
    BY <1>2, <2>1, IdleLoopInv
  <2> QED
    BY <1>1, <2>1, <2>2, SchedulerStepInv
<1>4. CASE SigIsrExit
  <2>1. IsrExit /\ UNCHANGED <<pc, obj, recv, wait, mask, timers, due>>
    BY <1>4 DEF SigIsrExit, IsrExit, sigVars, timerVars
  <2>2. KInv(SigPlaces, S)'
    BY <1>2, <2>1, IsrExitInv
  <2> QED
    BY <1>1, <2>1, <2>2, SchedulerStepInv
<1>5. CASE UNCHANGED allVars
  <2>1. UNCHANGED vars /\ UNCHANGED <<pc, obj, recv, wait, mask, timers, due>>
    BY <1>5 DEF allVars, vars, sigVars, timerVars
  <2>2. KInv(SigPlaces, S)'
    BY <1>2, <2>1, StutterInv
  <2> QED
    BY <1>1, <2>1, <2>2, SchedulerStepInv
<1> QED
  BY <1>3, <1>4, <1>5

-----------------------------------------------------------------------------
(***************************************************************************)
(* What a step of the scheduler's own code means for signals: processes    *)
(* stay where they are, or go from a place of Proc to a place of Proc; a   *)
(* control block comes to proc_new()'s last step through its               *)
(* initialisation, and to life in that step.                               *)
(***************************************************************************)
LEMMA StepPlaces ==
  ASSUME NEW S, KInv(SigPlaces, S), NEW p \in Procs, Continue(p) \/ Decide(p)
  PROVE  /\ Live(p)
         /\ pc[p] \in Labels /\ pc'[p] \in Labels
         /\ pc'[p] = "new_enq" => pc[p] = "new_init" /\ obj'[p] = obj[p]
         /\ pc'[p] \in Dead => pc[p] = "exit_switch"
         /\ \A q \in Procs \ {p} :
              /\ obj'[q] = obj[q]
              /\ \/ pc'[q] = pc[q]
                 \/ /\ q = obj[p] /\ pc[q] \in Dead
                    /\ pc'[q] \in Dead \/ (pc[p] = "new_enq" /\ pc'[q] = "user")
<1>1. /\ TypesOK(SigPlaces) /\ SectionsAt(p) /\ BlockStateAt(p) /\ BlockSetAt(p) /\ Running(S)
  BY DEF KInv, PlaceInv, BlocksInv
<1>2. pc \in [Procs -> SigPlaces] /\ obj \in [Procs -> Procs \cup {NoProc}]
  BY <1>1 DEF TypesOK
<1> USE DEF At, Goto, CallCount
<1>3. p = cpu /\ ~idle
  BY DEF Continue, Decide, CountLoad, ForbidStore, PermitStore, AppPermit, Reenqueue, FreeLoop,
         FirstZombie, RemZombie, ZombieTest, FreeZombie, FindSlot, TakeSlot, InitStruct,
         EnqueueNew, AddZombie, ClearCurrent, ExitSwitch, AppForbid, Yield, New, Exit, SetPri
<1>4. Live(p)
  BY <1>1, <1>3 DEF Running
<1> USE DEF Labels, OutsideLabels, InsideLabels, CountLabels
<1>5. CASE CountLoad(p)
  BY <1>2, <1>4, <1>5 DEF CountLoad, Dead
<1>6. CASE ForbidStore(p) \/ PermitStore(p)
  <2>1. cont[p] \in {"zomb_first", "zomb_free", "slot_find", "exit_zombie", "crit", "user",
                     "zomb_test", "free_loop", "new_init", "exit_switch"}
    BY <1>1, <1>6 DEF SectionsAt, ForbidStore, PermitStore
  <2> QED
    BY <1>2, <1>4, <1>6, <2>1 DEF ForbidStore, PermitStore, Dead
<1>7. CASE AppForbid(p) \/ AppPermit(p) \/ New(p) \/ FreeLoop(p) \/ Exit(p)
  BY <1>2, <1>4, <1>7 DEF AppForbid, AppPermit, New, FreeLoop, Exit, Dead
<1>8. CASE Yield(p) \/ Reenqueue(p)
  BY <1>2, <1>4, <1>8 DEF Yield, Reenqueue, Dead
<1>9. CASE \E q \in Procs, v \in Prios : SetPri(p, q, v)
  BY <1>2, <1>4, <1>9 DEF SetPri, Dead
<1>10. CASE FirstZombie(p) \/ RemZombie(p) \/ ZombieTest(p)
  BY <1>2, <1>4, <1>10 DEF FirstZombie, RemZombie, ZombieTest, Dead
<1>11. CASE FindSlot(p)
  BY <1>2, <1>4, <1>11 DEF FindSlot, Dead
<1>12. CASE AddZombie(p) \/ ClearCurrent(p)
  BY <1>2, <1>4, <1>12 DEF AddZombie, ClearCurrent, Dead
<1>13. CASE ExitSwitch(p)
  BY <1>2, <1>4, <1>13 DEF ExitSwitch, Dead
<1>14. CASE InitStruct(p)
  BY <1>2, <1>4, <1>14 DEF InitStruct, Dead
<1>15. CASE FreeZombie(p)
  <2>1. obj[p] \in Procs /\ pc[obj[p]] \in Dead
    BY <1>1, <1>2, <1>15
       DEF FreeZombie, BlockSetAt, BlockStateAt, Towards, FreeingLabels, InitLabels, Dead
  <2>2. obj[p] # p
    BY <1>4, <2>1 DEF Live
  <2> QED
    BY <1>2, <1>4, <1>15, <2>1, <2>2 DEF FreeZombie, Dead
<1>16. CASE TakeSlot(p)
  <2>1. obj[p] \in Procs /\ pc[obj[p]] \in Dead
    BY <1>1, <1>2, <1>16
       DEF TakeSlot, BlockSetAt, BlockStateAt, Towards, FreeingLabels, InitLabels, Dead
  <2>2. obj[p] # p
    BY <1>4, <2>1 DEF Live
  <2> QED
    BY <1>2, <1>4, <1>16, <2>1, <2>2 DEF TakeSlot, Dead
<1>17. CASE EnqueueNew(p)
  <2>1. obj[p] \in Procs /\ pc[obj[p]] = "alloc"
    BY <1>17, BlockFacts DEF EnqueueNew, InitLabels
  <2>2. obj[p] # p
    BY <1>4, <2>1 DEF Live, Dead
  <2> QED
    BY <1>2, <1>4, <1>17, <2>1, <2>2 DEF EnqueueNew, Dead
<1> QED
  BY <1>5, <1>6, <1>7, <1>8, <1>9, <1>10, <1>11, <1>12, <1>13, <1>14, <1>15, <1>16, <1>17
     DEF Continue, Decide

(***************************************************************************)
(* A step of proc.c: the new control block has no signals.                 *)
(***************************************************************************)
LEMMA ProcStepInv ==
  ASSUME SigInv, NEW p \in Procs, ProcStep(p)
  PROVE  SigInv'
<1>1. PICK S : S = Sleeping
  OBVIOUS
<1>2. KInv(SigPlaces, S)
  BY <1>1, SleepingNow DEF SigInv
<1>3. Continue(p) \/ Decide(p)
  BY DEF ProcStep
<1>4. /\ SigOwnTypes /\ TimersQueue
      /\ \A q \in Procs : WaitAt(q) /\ TimerAt(q) /\ FreshAt(q)
  BY DEF SigInv
<1>5. /\ Live(p)
      /\ pc[p] \in Labels /\ pc'[p] \in Labels
      /\ pc'[p] = "new_enq" => pc[p] = "new_init" /\ obj'[p] = obj[p]
      /\ \A q \in Procs \ {p} :
           /\ obj'[q] = obj[q]
           /\ \/ pc'[q] = pc[q]
              \/ /\ q = obj[p] /\ pc[q] \in Dead
                 /\ pc'[q] \in Dead \/ (pc[p] = "new_enq" /\ pc'[q] = "user")
  BY <1>2, <1>3, StepPlaces
<1>6. UNCHANGED <<mask, timers, due>>
  BY DEF ProcStep, timerVars
<1>7. pc[p] = "new_init" => /\ obj[p] \in Procs /\ pc[obj[p]] = "alloc"
                            /\ recv' = [recv EXCEPT ![obj[p]] = {}]
                            /\ wait' = [wait EXCEPT ![obj[p]] = {}]
  BY <1>2, BlockFacts DEF ProcStep, InitLabels
<1>8. pc[p] # "new_init" => recv' = recv /\ wait' = wait
  BY DEF ProcStep
<1>9. \A q \in Procs : pc[q] = "alloc" => mask[q] = {} /\ wait[q] = {} /\ SigTimeout \notin recv[q]
  BY <1>4 DEF WaitAt, TimerAt, Timed, Asking
<1>10. wait' = wait
  <2>1. wait \in [Procs -> SUBSET Sigs]
    BY <1>4 DEF SigOwnTypes
  <2>2. ASSUME pc[p] = "new_init" PROVE wait' = wait
    <3>1. PICK b \in Procs : wait[b] = {} /\ wait' = [wait EXCEPT ![b] = {}]
      BY <1>7, <1>9, <2>2
    <3> QED
      BY <2>1, <3>1
  <2> QED
    BY <1>8, <2>2
<1>11. \A q \in Procs : \/ recv'[q] = recv[q]
                        \/ recv'[q] = {} /\ pc[q] = "alloc" /\ q = obj[p] /\ pc[p] = "new_init"
  BY <1>4, <1>7, <1>8 DEF SigOwnTypes
<1>12. KInv(SigPlaces, Sleeping)'
  <2>1. S = Sleeping'
    BY <1>1, <1>10 DEF Sleeping, Waiting
  <2>2. KInv(SigPlaces, S)'
    BY <1>2, <1>3, StepInv
  <2> QED
    BY <2>1, <2>2, SleepingNext
<1>13. SigOwnTypes' /\ TimersQueue'
  BY <1>4, <1>6, <1>7, <1>8, <1>10 DEF SigOwnTypes, TimersQueue
<1>14. \A q \in Procs : \/ pc'[q] = pc[q]
                        \/ /\ pc[q] \notin SigLabels \cup CallLabels
                           /\ pc'[q] \notin SigLabels \cup CallLabels
  BY <1>5
     DEF Labels, OutsideLabels, InsideLabels, CountLabels, Dead, SigLabels, CallLabels
<1>15. ASSUME NEW q \in Procs PROVE WaitAt(q)' /\ TimerAt(q)'
  <2>1. pc'[q] = pc[q] \/ (pc[q] \notin Asking /\ pc'[q] \notin Asking)
    BY <1>14 DEF SigLabels, CallLabels, Asking
  <2>2. Timed(q)' <=> Timed(q)
    BY <1>6, <1>14 DEF Timed, CallLabels
  <2>3. recv'[q] = recv[q] \/ (recv'[q] = {} /\ pc[q] = "alloc")
    BY <1>11
  <2>4. WaitAt(q)'
    BY <1>4, <1>6, <1>9, <1>10, <2>1, <2>3 DEF WaitAt, Asking
  <2>5. TimerAt(q)'
    BY <1>4, <1>6, <1>9, <2>2, <2>3 DEF TimerAt
  <2> QED
    BY <2>4, <2>5
<1>16. ASSUME NEW q \in Procs PROVE FreshAt(q)'
  <2> SUFFICES ASSUME pc'[q] = "new_enq" PROVE recv'[obj'[q]] = {} /\ wait'[obj'[q]] = {}
    BY DEF FreshAt
  <2>1. CASE q = p
    <3>1. obj'[p] = obj[p] /\ pc[p] = "new_init"
      BY <1>5, <2>1
    <3>2. obj[p] \in Procs /\ pc[obj[p]] = "alloc" /\ recv'[obj[p]] = {}
      BY <1>4, <1>7, <3>1 DEF SigOwnTypes
    <3> QED
      BY <1>9, <1>10, <2>1, <3>1, <3>2
  <2>2. CASE q # p
    <3>1. pc[q] = "new_enq" /\ obj'[q] = obj[q]
      BY <1>5, <2>2 DEF Dead
    <3>2. obj[q] \in Procs
      BY <1>2, <3>1, BlockFacts DEF InitLabels
    <3> QED
      BY <1>4, <1>10, <1>11, <3>1, <3>2 DEF FreshAt
  <2> QED
    BY <2>1, <2>2
<1> QED
  BY <1>12, <1>13, <1>15, <1>16 DEF SigInv

-----------------------------------------------------------------------------
(***************************************************************************)
(* The invariant is inductive.                                             *)
(***************************************************************************)
LEMMA SigInitInv == SigInit => SigInv
<1> SUFFICES ASSUME SigInit PROVE SigInv
  OBVIOUS
<1> USE DEF SigInit
<1>1. KInv(SigPlaces, {})
  BY StartAssumption, StartedInv DEF SigPlaces
<1>2. {} = Sleeping
  BY DEF Sleeping, Waiting
<1>3. KInv(SigPlaces, Sleeping)
  BY <1>1, <1>2, Zenon
<1>4. SigOwnTypes
  <2>1. 0 \in UNION {0..d : d \in Delays \cup {0}}
    <3>1. 0 \in 0..0 /\ 0 \in Delays \cup {0}
      OBVIOUS
    <3> QED
      BY <3>1
  <2> DEFINE D == UNION {0..d : d \in Delays \cup {0}}
  <2>2. due \in [Procs -> D]
    <3> HIDE DEF D
    <3> QED
      BY <2>1 DEF D
  <2>3. timers \in Seq(Procs)
    BY EmptySeq
  <2> QED
    BY <2>2, <2>3 DEF SigOwnTypes
<1>5. TimersQueue
  <2>1. \A i : i \notin 1..Len(<<>>)
    BY EmptySeq
  <2> QED
    BY <2>1, EmptyMembers DEF TimersQueue, Sorted
<1>6. \A p \in Procs : pc[p] \in {"user", "free"}
  BY DEF Started
<1>7. \A p \in Procs : WaitAt(p) /\ TimerAt(p) /\ FreshAt(p)
  BY <1>6, EmptyMembers DEF WaitAt, Asking, TimerAt, Timed, FreshAt
<1> QED
  BY <1>3, <1>4, <1>5, <1>7 DEF SigInv

\* Every step preserves the invariant.
LEMMA SigNextInv == SigInv /\ [SigNext]_allVars => SigInv'
<1> SUFFICES ASSUME SigInv, [SigNext]_allVars PROVE SigInv'
  OBVIOUS
<1>1. ASSUME NEW p \in Procs,
             ProcStep(p) \/ WaitLoop(p) \/ CheckSignal(p) \/ TimeoutCheck(p) \/ TimeoutPoll(p)
      PROVE  SigInv'
  BY <1>1, ProcStepInv, WaitLoopInv, CheckSignalInv, CallsInv, TimeoutPollInv
<1>2. ASSUME NEW p \in Procs, NEW sigs \in Masks, SigWait(p, sigs) \/ SigCheck(p, sigs)
      PROVE  SigInv'
  BY <1>2, CallsInv
<1>3. ASSUME NEW p \in Procs, NEW sigs \in Masks, NEW delay \in Delays, WaitTimeout(p, sigs, delay)
      PROVE  SigInv'
  BY <1>3, WaitTimeoutInv
<1>4. ASSUME NEW p \in Procs, NEW q \in Procs, NEW sigs \in Masks,
             SigSend(p, q, sigs) \/ SigPost(p, q, sigs)
      PROVE  SigInv'
  BY <1>4, SendInv
<1>5. ASSUME NEW q \in Procs, NEW sigs \in Masks, IsrPost(q, sigs)
      PROVE  SigInv'
  BY <1>5, SendInv
<1>6. CASE SigTick
  BY <1>6, SigTickInv
<1>7. CASE SigIdleLoop \/ SigIsrExit \/ UNCHANGED allVars
  BY <1>7, SigSchedulerInv
<1> QED
  BY <1>1, <1>2, <1>3, <1>4, <1>5, <1>6, <1>7 DEF SigNext

\* The inductive invariant of the signals holds in every reachable state.
THEOREM SigInvariance == SigSpec => []SigInv
<1>1. SigInit => SigInv
  BY SigInitInv
<1>2. SigInv /\ [SigNext]_allVars => SigInv'
  BY SigNextInv
<1> QED
  BY <1>1, <1>2, PTL DEF SigSpec

-----------------------------------------------------------------------------
(***************************************************************************)
(* What it says.                                                           *)
(***************************************************************************)

\* The variables keep their types, a timer its number of ticks.
THEOREM SigTypeCorrect == SigSpec => []SigTypeOK
<1>1. SigInv => SigTypeOK
  BY DEF SigInv, KInv, TypesOK, SigOwnTypes, SigPlaces, SigTypeOK
<1> QED
  BY <1>1, SigInvariance, PTL

\* signal.c:152-160 and the assertions of sig_wait(), signal.c:180-181: no
\* process sleeps with a signal it waits for pending, and none is awakened
\* without one.
THEOREM NoWakeupIsLost == SigSpec => []NoLostWakeup
<1>1. SigInv => NoLostWakeup
  BY DEF SigInv, WaitAt, Waiting, NoLostWakeup
<1> QED
  BY <1>1, SigInvariance, PTL

\* The assertion of __sig_signal(), signal.c:237, and the one link node of a
\* process: it sleeps, is ready or runs.
THEOREM SleepersAreUnlisted == SigSpec => []OnePlaceSig
<1>1. SigInv => OnePlaceSig
  <2> SUFFICES ASSUME SigInv PROVE OnePlaceSig
    OBVIOUS
  <2>1. Running(Sleeping) /\ ReadyExact(Sleeping)
    BY DEF SigInv, KInv
  <2>2. \A p \in Procs : p \in Sleeping <=> Waiting(p)
    BY DEF Sleeping
  <2>3. NoDup(ready) /\ (idle => current = NoProc) /\ (~idle => cpu \notin Sleeping)
    BY <2>1 DEF Running, ReadyExact
  <2>4. \A p \in Procs : p = current => p = cpu /\ ~idle
    BY <2>1, ProcsAssumption DEF Running
  <2>5. \A p \in Procs :
          Contains(ready, p) <=> Live(p) /\ ~Waiting(p) /\ (p # cpu \/ idle)
    BY <2>1, <2>2 DEF ReadyExact
  <2>6. \A p \in Procs : Contains(ready, p) => Live(p) /\ p # current /\ ~Waiting(p)
    BY <2>4, <2>5
  <2>7. \A p \in Procs : Waiting(p) => p # current
    BY <2>2, <2>3, <2>4
  <2>8. \A p \in Procs : Live(p) /\ p # current /\ ~Waiting(p) =>
          Contains(ready, p) \/ (p = cpu /\ ~idle)
    BY <2>5
  <2> QED
    BY <2>3, <2>6, <2>7, <2>8 DEF OnePlaceSig
<1> QED
  BY <1>1, SigInvariance, PTL

\* signal.c:215-219 and the assertion of sig_waitTimeout(), signal.c:202: the
\* timer of a call is in the queue exactly until it sends SIG_TIMEOUT or the
\* call takes it out, and no SIG_TIMEOUT outlives its call.
THEOREM TimersAreArmed == SigSpec => []TimersArmed
<1>1. SigInv => TimersArmed
  BY DEF SigInv, TimersQueue, TimerAt, Timed, TimersArmed
<1> QED
  BY <1>1, SigInvariance, PTL

\* proc.c:372: a process starts with no signals, whatever was sent to the one
\* that had its control block before.
THEOREM NewProcessIsUnsignalled == SigSpec => StartsUnsignalled
<1>1. SigInv /\ SigInv' /\ [SigNext]_allVars =>
        [\A p \in Procs : ~Live(p) /\ Live(p)' => recv'[p] = {} /\ wait'[p] = {}]_allVars
  <2> SUFFICES ASSUME SigInv, SigNext, NEW q \in Procs, ~Live(q), Live(q)'
               PROVE  recv'[q] = {} /\ wait'[q] = {}
    OBVIOUS
  <2>1. pc \in [Procs -> SigPlaces] /\ cpu \in Procs
    BY DEF SigInv, KInv, TypesOK
  <2>2. PICK p \in Procs : ProcStep(p)
    <3>1. ASSUME NEW p \in Procs, NEW label, At(p, pc[p]), pc' = [pc EXCEPT ![p] = label]
          PROVE  FALSE
      <4>1. Live(p)
        BY <3>1 DEF At, SigInv, KInv, Running
      <4>2. q # p /\ pc'[q] = pc[q]
        BY <2>1, <3>1, <4>1
      <4> QED
        BY <4>2 DEF Live
    <3>2. ASSUME pc' = pc PROVE FALSE
      BY <3>2 DEF Live
    <3>3. ASSUME NEW p \in Procs, WaitLoop(p) PROVE FALSE
      <4>1. At(p, pc[p]) /\ \E label : pc' = [pc EXCEPT ![p] = label]
        BY <3>3 DEF WaitLoop, TakeAsked, Sleep, Goto, At
      <4> QED
        BY <3>1, <4>1
    <3>4. ASSUME NEW p \in Procs, CheckSignal(p) \/ TimeoutCheck(p) \/ TimeoutPoll(p) PROVE FALSE
      BY <3>1, <3>4 DEF CheckSignal, TimeoutCheck, TimeoutPoll, CallWith, TakeAsked, At, Goto
    <3>5. ASSUME NEW p \in Procs, NEW sigs \in Masks,
                 \/ SigWait(p, sigs) \/ SigCheck(p, sigs)
                 \/ \E delay \in Delays : WaitTimeout(p, sigs, delay)
          PROVE  FALSE
      BY <3>1, <3>5 DEF SigWait, SigCheck, WaitTimeout, CallWith, At, Goto
    <3>6. ASSUME NEW p \in Procs, NEW r \in Procs, NEW sigs \in Masks,
                 SigSend(p, r, sigs) \/ SigPost(p, r, sigs) \/ IsrPost(r, sigs)
          PROVE  FALSE
      BY <3>2, <3>6 DEF SigSend, SigPost, IsrPost
    <3>7. ASSUME SigIdleLoop \/ SigTick \/ SigIsrExit PROVE FALSE
      BY <3>2, <3>7 DEF SigIdleLoop, IdleLoop, SigTick, SigIsrExit, IsrExit
    <3> QED
      BY <2>1, <3>3, <3>4, <3>5, <3>6, <3>7 DEF SigNext
  <2>3. PICK S : S = Sleeping
    OBVIOUS
  <2>4. KInv(SigPlaces, S)
    BY <2>3, SleepingNow DEF SigInv
  <2>5. Live(p) /\ (q # p => \/ pc'[q] = pc[q]
                             \/ q = obj[p] /\ (pc'[q] \in Dead \/ pc[p] = "new_enq"))
    BY <2>2, <2>4, StepPlaces DEF ProcStep
  <2>6. q = obj[p] /\ pc[p] = "new_enq"
    BY <2>5 DEF Live
  <2>7. recv[q] = {} /\ wait[q] = {}
    BY <2>6 DEF SigInv, FreshAt
  <2> QED
    BY <2>2, <2>6, <2>7 DEF ProcStep
<1> QED
  BY <1>1, SigInvariance, PTL DEF SigSpec, StartsUnsignalled

-----------------------------------------------------------------------------
(***************************************************************************)
(* Refinement: every step is a step of the box of SignalBox, or changes    *)
(* nothing that the box shows.                                             *)
(***************************************************************************)

\* The processes that live.
Alive == {p \in Procs : Live(p)}

\* Where the running process goes on says whether it is in a sig_check().
LEMMA OwnBox ==
  ASSUME SigInv, NEW p \in Procs, At(p, pc[p]), NEW label, label \notin Dead,
         pc' = [pc EXCEPT ![p] = label]
  PROVE  /\ p \in Alive /\ Alive' = Alive
         /\ label \in {"sig_check", "timeout_poll"} => Polls' = Polls \cup {p}
         /\ label \notin {"sig_check", "timeout_poll"} => Polls' = Polls \ {p}
<1>1. Live(p) /\ pc'[p] = label /\ \A q \in Procs \ {p} : pc'[q] = pc[q]
  BY RunningFacts DEF At, SigInv, KInv, TypesOK
<1>2. \A q \in Procs : Live(q)' <=> Live(q)
  BY <1>1 DEF Live
<1> QED
  BY <1>1, <1>2 DEF Alive, Polls

\* A call is a step of the box.
LEMMA AskBox ==
  ASSUME SigInv, NEW p \in Procs, NEW from \in {"user", "timeout_check"}, At(p, from),
         NEW label \in {"sig_wait", "sig_check", "timeout_poll"}, NEW sigs, CallWith(p, label, sigs),
         recv' = recv
  PROVE  /\ p \in Alive /\ mask[p] = {} /\ mask' = [mask EXCEPT ![p] = sigs]
         /\ Polls' \in {Polls, Polls \cup {p}} /\ recv' = recv /\ Alive' = Alive
<1>1. At(p, pc[p]) /\ pc[p] = from /\ label \notin Dead /\ pc' = [pc EXCEPT ![p] = label]
  BY DEF At, CallWith, Goto, Dead
<1>2. p \notin Polls
  BY <1>1 DEF Polls
<1>3. mask[p] = {}
  BY <1>1 DEF SigInv, WaitAt, Asking
<1>4. p \in Alive /\ Alive' = Alive /\ (Polls' = Polls \cup {p} \/ Polls' = Polls \ {p})
  BY <1>1, OwnBox
<1> QED
  BY <1>2, <1>3, <1>4 DEF CallWith

\* The end of a call takes what was asked for, or finds nothing in a sig_check().
LEMMA TakeBox ==
  ASSUME SigInv, NEW p \in Procs, At(p, pc[p]), NEW next \in {"user", "timeout_check"},
         TakeAsked(p, next), recv[p] \cap mask[p] # {} \/ p \in Polls
  PROVE  Box!Take(p) \/ Box!Decline(p)
<1>1. next \notin Dead /\ pc' = [pc EXCEPT ![p] = next]
  BY DEF TakeAsked, Goto, Dead
<1>2. Alive' = Alive /\ Polls' = Polls \ {p}
  BY <1>1, OwnBox
<1>3. {q \in Procs : Live(q)}' = {q \in Procs : Live(q)}
  BY <1>2 DEF Alive
<1>4. recv' = [recv EXCEPT ![p] = @ \ mask[p]] /\ mask' = [mask EXCEPT ![p] = {}]
  BY DEF TakeAsked
<1>5. CASE recv[p] \cap mask[p] # {}
  BY <1>2, <1>3, <1>4, <1>5 DEF Box!Take
<1>6. CASE recv[p] \cap mask[p] = {}
  <2>1. recv \in [Procs -> SUBSET Sigs] /\ recv[p] \ mask[p] = recv[p]
    BY <1>6 DEF SigInv, SigOwnTypes
  <2>2. recv' = recv
    BY <1>4, <2>1
  <2> QED
    BY <1>2, <1>3, <1>4, <1>6, <2>2 DEF Box!Decline
<1> QED
  BY <1>5, <1>6

\* Processes begin and end with no call in progress; a new one has no signals.
LEMMA ProcBox ==
  ASSUME SigInv, NEW p \in Procs, ProcStep(p)
  PROVE  \/ \E q \in Procs : Box!Reset(q) \/ Box!Begin(q) \/ Box!End(q)
         \/ UNCHANGED <<recv, mask, Polls, Alive>>
<1>1. PICK S : S = Sleeping
  OBVIOUS
<1>2. KInv(SigPlaces, S)
  BY <1>1, SleepingNow DEF SigInv
<1>3. /\ Live(p)
      /\ pc[p] \in Labels /\ pc'[p] \in Labels
      /\ pc'[p] \in Dead => pc[p] = "exit_switch"
      /\ \A q \in Procs \ {p} :
           \/ pc'[q] = pc[q]
           \/ /\ q = obj[p] /\ pc[q] \in Dead
              /\ pc'[q] \in Dead \/ (pc[p] = "new_enq" /\ pc'[q] = "user")
  BY <1>2, StepPlaces DEF ProcStep
<1>4. mask' = mask /\ (pc[p] # "new_init" => recv' = recv)
  BY DEF ProcStep
<1>5. Polls' = Polls
  <2>1. \A q \in Procs : pc'[q] = pc[q] \/ ~(pc[q] \in {"sig_check", "timeout_poll"}
                                            \/ pc'[q] \in {"sig_check", "timeout_poll"})
    BY <1>3 DEF Labels, OutsideLabels, InsideLabels, CountLabels, Dead
  <2> QED
    BY <2>1 DEF Polls
<1>6. \A q \in Procs : pc[q] \in Labels => mask[q] = {}
  BY DEF SigInv, WaitAt, Asking, Labels, OutsideLabels, InsideLabels, CountLabels, Dead
<1>7. CASE pc[p] = "new_init"
  <2>1. /\ obj[p] \in Procs /\ pc[obj[p]] = "alloc"
        /\ recv' = [recv EXCEPT ![obj[p]] = {}]
    BY <1>2, <1>7, BlockFacts DEF ProcStep, InitLabels
  <2>2. \A q \in Procs : Live(q)' <=> Live(q)
    BY <1>3, <1>7 DEF Live, Dead
  <2>3. obj[p] \notin {q \in Procs : Live(q)}
    BY <2>1 DEF Live, Dead
  <2>4. Box!Reset(obj[p])
    BY <1>4, <1>5, <2>1, <2>2, <2>3 DEF Box!Reset
  <2> QED
    BY <2>1, <2>4
<1>8. CASE pc[p] = "new_enq"
  <2>1. PICK b \in Procs : b = obj[p] /\ pc[b] = "alloc"
    BY <1>2, <1>8, BlockFacts DEF InitLabels
  <2>2. recv[b] = {} /\ mask[b] = {}
    BY <1>6, <1>8, <2>1 DEF SigInv, FreshAt, Labels, Dead
  <2>3. ~Live(b) /\ b # p
    BY <1>3, <2>1 DEF Live, Dead
  <2>4. \A q \in Procs \ {b} : Live(q)' <=> Live(q)
    BY <1>3, <1>8, <2>1 DEF Live
  <2>5. CASE Live(b)'
    <3>1. {q \in Procs : Live(q)}' = {q \in Procs : Live(q)} \cup {b}
      BY <2>4, <2>5
    <3>2. Box!Begin(b)
      BY <1>4, <1>5, <1>8, <2>2, <2>3, <3>1 DEF Box!Begin
    <3> QED
      BY <3>2
  <2>6. CASE ~Live(b)'
    <3>1. Alive' = Alive
      BY <2>3, <2>4, <2>6 DEF Alive
    <3> QED
      BY <1>4, <1>5, <1>8, <3>1
  <2> QED
    BY <2>5, <2>6
<1>9. CASE pc[p] \notin {"new_init", "new_enq"}
  <2>1. \A q \in Procs \ {p} : Live(q)' <=> Live(q)
    BY <1>3, <1>9 DEF Live
  <2>2. CASE Live(p)'
    <3>1. Alive' = Alive
      BY <1>3, <2>1, <2>2 DEF Alive
    <3> QED
      BY <1>4, <1>5, <1>9, <3>1
  <2>3. CASE ~Live(p)'
    <3>1. {q \in Procs : Live(q)}' = {q \in Procs : Live(q)} \ {p}
      BY <2>1, <2>3
    <3>2. Box!End(p)
      BY <1>3, <1>4, <1>5, <1>6, <1>9, <3>1 DEF Box!End
    <3> QED
      BY <3>2
  <2> QED
    BY <2>2, <2>3
<1> QED
  BY <1>7, <1>8, <1>9

\* Every step is a step of the box.
LEMMA BoxStep == SigInv /\ [SigNext]_allVars => [Box!BoxNext]_Box!boxVars
<1> SUFFICES ASSUME SigInv, [SigNext]_allVars
             PROVE  Box!BoxNext \/ UNCHANGED <<recv, mask, Polls, Alive>>
  BY DEF Box!boxVars, Alive
<1>1. /\ recv \in [Procs -> SUBSET Sigs] /\ mask \in [Procs -> SUBSET Sigs]
      /\ \A p \in Procs : WaitAt(p) /\ TimerAt(p)
      /\ Masks \subseteq (SUBSET Sigs) \ {{}} /\ SigTimeout \in Sigs
  BY DelaysAssumption DEF SigInv, SigOwnTypes, Masks
<1>2. ASSUME NEW p \in Procs, NEW sigs \in (SUBSET Sigs) \ {{}},
             /\ p \in Alive /\ mask[p] = {} /\ mask' = [mask EXCEPT ![p] = sigs]
             /\ Polls' \in {Polls, Polls \cup {p}} /\ recv' = recv /\ Alive' = Alive
      PROVE  Box!BoxNext
  <2>1. Box!Ask(p, sigs)
    BY <1>2 DEF Box!Ask, Alive
  <2> QED
    BY <1>2, <2>1 DEF Box!BoxNext
<1>3. ASSUME NEW p \in Procs, NEW sigs \in Masks,
             \/ SigWait(p, sigs) \/ SigCheck(p, sigs)
             \/ \E delay \in Delays : WaitTimeout(p, sigs, delay)
      PROVE  Box!BoxNext
  <2>1. PICK label \in {"sig_wait", "sig_check", "timeout_poll"}, s \in (SUBSET Sigs) \ {{}} :
          At(p, "user") /\ CallWith(p, label, s) /\ recv' = recv
    <3>1. sigs \in (SUBSET Sigs) \ {{}} /\ sigs \cup {SigTimeout} \in SUBSET Sigs
      BY <1>1
    <3>2. sigs \cup {SigTimeout} \in (SUBSET Sigs) \ {{}}
      BY <3>1
    <3> QED
      BY <1>3, <3>1, <3>2 DEF SigWait, SigCheck, WaitTimeout
  <2> QED
    BY <1>2, <2>1, AskBox
<1>4. ASSUME NEW p \in Procs, TimeoutCheck(p)
      PROVE  Box!BoxNext
  <2>1. At(p, "timeout_check") /\ CallWith(p, "timeout_poll", {SigTimeout}) /\ recv' = recv
    BY <1>4 DEF TimeoutCheck
  <2>2. {SigTimeout} \in (SUBSET Sigs) \ {{}}
    BY <1>1
  <2> QED
    BY <1>2, <2>1, <2>2, AskBox
<1>5. ASSUME NEW p \in Procs, CheckSignal(p) \/ TimeoutPoll(p)
      PROVE  Box!BoxNext
  <2>1. At(p, pc[p]) /\ p \in Polls /\ TakeAsked(p, "user")
    BY <1>5 DEF CheckSignal, TimeoutPoll, At, Polls
  <2>2. Box!Take(p) \/ Box!Decline(p)
    BY <2>1, TakeBox
  <2> QED
    BY <1>5, <2>2 DEF Box!BoxNext
<1>6. ASSUME NEW p \in Procs, WaitLoop(p)
      PROVE  Box!BoxNext \/ UNCHANGED <<recv, mask, Polls, Alive>>
  <2>1. At(p, pc[p]) /\ pc[p] \in {"sig_wait", "sig_resume"}
    BY <1>6 DEF WaitLoop, At
  <2>2. CASE recv[p] \cap mask[p] # {}
    <3>1. Return(p) \in {"user", "timeout_check"} /\ TakeAsked(p, Return(p))
      BY <1>6, <2>2 DEF WaitLoop, Return
    <3>2. Box!Take(p) \/ Box!Decline(p)
      BY <2>1, <2>2, <3>1, TakeBox
    <3> QED
      BY <1>6, <3>2 DEF Box!BoxNext
  <2>3. CASE recv[p] \cap mask[p] = {}
    <3>1. pc' = [pc EXCEPT ![p] = "sig_resume"] /\ UNCHANGED <<recv, mask>>
      BY <1>6, <2>3 DEF WaitLoop, Sleep, Goto
    <3>2. Alive' = Alive /\ Polls' = Polls \ {p}
      <4>1. "sig_resume" \notin Dead /\ "sig_resume" \notin {"sig_check", "timeout_poll"}
        BY DEF Dead
      <4> QED
        BY <2>1, <3>1, <4>1, OwnBox
    <3>3. p \notin Polls
      BY <2>1 DEF Polls
    <3> QED
      BY <3>1, <3>2, <3>3
  <2> QED
    BY <2>2, <2>3
<1>7. ASSUME NEW served \in SUBSET Procs, NEW sigs \in (SUBSET Sigs) \ {{}}, served \subseteq Alive,
             recv' = [p \in Procs |-> IF p \in served THEN recv[p] \cup sigs ELSE recv[p]],
             mask' = mask, pc' = pc
      PROVE  Box!BoxNext
  <2>1. Polls' = Polls /\ {p \in Procs : Live(p)}' = {p \in Procs : Live(p)}
    BY <1>7 DEF Polls, Live
  <2>2. Box!Put(served, sigs)
    BY <1>7, <2>1 DEF Box!Put, Alive
  <2> QED
    BY <1>7, <2>2 DEF Box!BoxNext
<1>8. ASSUME NEW p \in Procs, NEW q \in Procs, NEW sigs \in Masks,
             SigSend(p, q, sigs) \/ SigPost(p, q, sigs) \/ IsrPost(q, sigs)
      PROVE  Box!BoxNext
  <2>1. /\ Live(q) /\ recv' = [recv EXCEPT ![q] = @ \cup sigs]
        /\ mask' = mask /\ pc' = pc
    BY <1>8 DEF SigSend, SigPost, IsrPost, Deliver
  <2>2. recv' = [r \in Procs |-> IF r \in {q} THEN recv[r] \cup sigs ELSE recv[r]]
    BY <1>1, <2>1
  <2>3. {q} \in SUBSET Procs /\ sigs \in (SUBSET Sigs) \ {{}} /\ {q} \subseteq Alive
    BY <1>1, <2>1 DEF Alive
  <2> QED
    BY <1>7, <2>1, <2>2, <2>3
<1>9. CASE SigTick
  <2>1. PICK served \in SUBSET Procs :
          /\ \A p \in served : Contains(timers, p)
          /\ recv' = [p \in Procs |-> IF p \in served THEN recv[p] \cup {SigTimeout} ELSE recv[p]]
    BY <1>9, TimerPollFacts DEF SigTick
  <2>2. \A p \in Procs : Contains(timers, p) => Live(p)
    BY <1>1 DEF TimerAt, Timed, WaitAt, Asking, Live, Dead
  <2>3. mask' = mask /\ pc' = pc /\ {SigTimeout} \in (SUBSET Sigs) \ {{}} /\ served \subseteq Alive
    BY <1>1, <1>9, <2>1, <2>2 DEF SigTick, Alive
  <2> QED
    BY <1>7, <2>1, <2>3
<1>10. CASE SigIdleLoop \/ SigIsrExit \/ UNCHANGED allVars
  <2>1. UNCHANGED <<recv, mask, pc>>
    BY <1>10 DEF SigIdleLoop, IdleLoop, SigIsrExit, IsrExit, allVars, sigVars, vars
  <2> QED
    BY <2>1 DEF Polls, Alive, Live
<1>11. ASSUME NEW p \in Procs, ProcStep(p)
       PROVE  Box!BoxNext \/ UNCHANGED <<recv, mask, Polls, Alive>>
  BY <1>11, ProcBox DEF Box!BoxNext
<1> QED
  BY <1>3, <1>4, <1>5, <1>6, <1>8, <1>9, <1>10, <1>11 DEF SigNext

\* signal.c gives every process a box of pending signals: sig_wait() and
\* sig_check() take what they asked for and is there, all of it and no other
\* signal, sig_wait() never returns with nothing, and while a process lives
\* nothing else takes its signals.
THEOREM SignalsAreBoxes == SigSpec => ImplementsBox
<1>1. SigInit => Box!BoxInit
  <2>1. SigInit => \A p \in Procs : pc[p] \in {"user", "free"}
    BY DEF SigInit, Started
  <2> QED
    BY <2>1 DEF SigInit, Polls, Box!BoxInit
<1>2. SigInv /\ [SigNext]_allVars => [Box!BoxNext]_Box!boxVars
  BY BoxStep
<1> QED
  BY <1>1, <1>2, SigInvariance, PTL DEF SigSpec, ImplementsBox, Box!BoxSpec
=============================================================================
