----------------------------- MODULE Sem_proofs -----------------------------
(***************************************************************************)
(* The semaphores of Sem are safe for every set of processes, of           *)
(* semaphores and of priorities, whatever the application calls, when no   *)
(* interrupt preempts sem_obtain() between its proc_permit() and its       *)
(* proc_switch() (without this hypothesis they are not: the run SemWindow  *)
(* shows a process that is listed twice).                                  *)
(*                                                                         *)
(* That a semaphore has one owner, which counts right, needs that nobody   *)
(* else is between the test and the update; that needs the preemption      *)
(* counter, which needs that each process is in one place; and a process   *)
(* that waits is in one place only if the owner hands the semaphore over   *)
(* to it exactly once.  SemInv is the conjunction of it all: what the      *)
(* scheduler knows, in SemKernel, and what the calls know, in SemCalls.    *)
(* InhInv, at the end, adds what the priorities are meanwhile.             *)
(***************************************************************************)
EXTENDS Sem, Proc_proofs, FiniteSetTheorems

\* The places of Proc that the application of Sem reaches, and Sem's own.
SemPlaces == {"user", "crit", "reenqueue", "free"} \cup CountLabels \cup SemLabels
SemReturns == {"user", "crit"} \cup SemLabels

SemTypes ==
  /\ current \in Procs \cup {NoProc} /\ cpu \in Procs
  /\ idle \in BOOLEAN /\ isr \in BOOLEAN
  /\ ready \in Seq(Procs) /\ zombies \in Seq(Procs)
  /\ pri \in [Procs -> Int] /\ quantum \in 0..Quantum /\ preemptCount \in Int
  /\ pc \in [Procs -> SemPlaces] /\ cont \in [Procs -> SemReturns]
  /\ reg \in [Procs -> Int] /\ nest \in [Procs -> Int]
  /\ obj \in [Procs -> Procs \cup {NoProc}]
  /\ owner \in [Sems -> Procs \cup {NoProc}]
  /\ queue \in [Sems -> Seq(Procs)]
  /\ nestCount \in [Sems -> Nat]
  /\ origPri \in [Procs -> Int] /\ inhPri \in [Procs -> Int]
  /\ blockedBy \in [Procs -> Sems \cup {NoSem}]
  /\ inhList \in [Procs -> SUBSET Procs]
  /\ arg \in [Procs -> Sems \cup {NoSem}]
  /\ held \in [Procs -> [Sems -> Nat]]

\* Places at which a process has no section open, and one.
SemOutside == {"user", "reenqueue", "free", "obt_switch", "obt_done", "rel_wake"}
SemInside  == {"obt_test", "obt_block", "inherit", "obt_take",
               "att_test", "att_take", "rel_dec", "rel_pass"}

SemSectionsAt(p) ==
  /\ nest[p] \in Nat
  /\ pc[p] \in SemOutside => nest[p] = 0
  /\ pc[p] \in SemInside => nest[p] = 1
  /\ pc[p] = "crit" => nest[p] > 0
  /\ pc[p] \in {"forbid", "forbid_store"} =>
       \/ cont[p] \in {"obt_test", "att_test", "rel_dec"} /\ nest[p] = 0
       \/ cont[p] = "crit"
  /\ pc[p] \in {"permit", "permit_store"} =>
       \/ cont[p] \in {"user", "obt_switch", "obt_done", "rel_wake"} /\ nest[p] = 1
       \/ cont[p] = "crit" /\ nest[p] > 1

\* Who waits, who has entered the wait queue and still runs, who wakes
\* somebody up, and who was made the owner and has yet to be awakened.
Blocked(p) == blockedBy[p] # NoSem
Leaving(p) == Towards(p, {"inherit", "obt_switch"})
Waking(p)  == Towards(p, {"rel_wake"})
Granted(p) == \E r \in Procs : Waking(r) /\ obj[r] = p

\* Who runs, and who is listed.
SemRunning ==
  /\ idle => current = NoProc /\ Blocked(cpu)
  /\ ~idle => /\ current = cpu
              /\ Live(cpu)
              /\ Blocked(cpu) => Leaving(cpu)
              /\ ~Granted(cpu)
  /\ \A p \in Procs : Leaving(p) => p = cpu /\ ~idle
SemReady ==
  /\ NoDup(ready)
  /\ \A p \in Procs :
       Contains(ready, p) <=> Live(p) /\ ~Blocked(p) /\ ~Granted(p) /\ (p # cpu \/ idle)

\* Nobody is preempted between the wait queue and proc_switch().
WindowClosed == Preempt /\ isr /\ ~idle => pc[cpu] # "obt_switch"

SemKernel ==
  /\ SemTypes
  /\ \A p \in Procs : SemSectionsAt(p) /\ RegisterAt(p)
  /\ CountIsNest
  /\ OthersOutside
  /\ SemRunning
  /\ SemReady
  /\ WindowClosed

\* Who waits is in one queue, and stays at its proc_switch() or comes to it.
WaitingAt(p) ==
  /\ Blocked(p) => arg[p] = blockedBy[p] /\ (Leaving(p) \/ pc[p] = "obt_done")
  /\ Leaving(p) => Blocked(p)
QueueAt(s) ==
  /\ NoDup(queue[s])
  /\ \A p \in Procs : Contains(queue[s], p) <=> blockedBy[p] = s

\* A new owner is awakened by one process, after its proc_switch().
GrantAt(r) ==
  Waking(r) =>
    /\ obj[r] \in Procs
    /\ pc[obj[r]] = "obt_done"
    /\ ~Blocked(obj[r])
    /\ \A q \in Procs : Waking(q) /\ obj[q] = obj[r] => q = r

\* What a call knows at each place of its semaphore and of the local variable
\* proc.
CallAt(p) ==
  /\ Towards(p, SemLabels) => arg[p] \in Sems
  /\ pc[p] \in {"obt_take", "att_take"} => owner[arg[p]] \in {NoProc, p}
  /\ pc[p] = "obt_block" => owner[arg[p]] \notin {NoProc, p}
  /\ Towards(p, {"rel_dec"}) => held[p][arg[p]] > 0
  /\ pc[p] = "inherit" => obj[p] \in Procs

\* p was made the owner of s once more and has not returned to the application;
\* p is about to pass s on.
Taken(p, s)   == Towards(p, {"obt_done"}) /\ arg[p] = s /\ ~Blocked(p)
Passing(p, s) == pc[p] = "rel_pass" /\ arg[p] = s

\* Only the owner of a semaphore has obtained it, as often as it counts.
OwnerAt(s) ==
  /\ owner[s] = NoProc => nestCount[s] = 0 /\ queue[s] = <<>>
  /\ \A p \in Procs :
       /\ held[p][s] > 0 \/ Taken(p, s) \/ Passing(p, s) => owner[s] = p
       /\ owner[s] = p =>
            /\ nestCount[s] = held[p][s] + IF Taken(p, s) THEN 1 ELSE 0
            /\ nestCount[s] = 0 <=> Passing(p, s)
            /\ blockedBy[p] # s

SemCalls ==
  /\ \A p \in Procs : WaitingAt(p) /\ GrantAt(p) /\ CallAt(p)
  /\ \A s \in Sems : QueueAt(s) /\ OwnerAt(s)

SemInv == SemKernel /\ SemCalls

-----------------------------------------------------------------------------
(***************************************************************************)
(* The priority of a process: what proc_setPri() computes is the highest   *)
(* of its own and of those it inherits.                                    *)
(***************************************************************************)
IsHighest(v, S) == v \in S /\ \A y \in S : v >= y

\* A finite set of numbers that is not empty has a highest one.
LEMMA HighestExists ==
  ASSUME NEW S, S \subseteq Int, S # {}, IsFiniteSet(S)
  PROVE  \E v : IsHighest(v, S)
<1>1. PICK n \in Nat : ExistsSurjection(1..n, S)
  BY FS_NatSurjection
<1>2. PICK f \in [1..n -> S] : \A v \in S : \E k \in 1..n : f[k] = v
  BY <1>1 DEF ExistsSurjection, Surjection
<1> DEFINE Best(m, k) == m \in 1..k /\ \A j \in 1..k : f[m] >= f[j]
           Bad == {k \in 1..n : \A m \in 1..k : ~Best(m, k)}
<1>3. \A k \in 1..n : f[k] \in Int
  OBVIOUS
<1>4. Bad = {}
  <2> SUFFICES ASSUME Bad # {} PROVE FALSE
    OBVIOUS
  <2>1. Bad \subseteq Nat
    OBVIOUS
  <2>2. PICK k \in Bad : \A j \in Bad : ~(<<j, k>> \in OpToRel(<, Nat))
    <3> HIDE DEF Bad
    <3> QED
      BY <2>1, NatLessThanWellFounded, WFMin, Zenon
  <2>3. \A j \in Bad : ~(j < k)
    BY <2>1, <2>2 DEF OpToRel
  <2>4. k \in 1..n /\ \A m \in 1..k : ~Best(m, k)
    OBVIOUS
  <2>5. CASE k = 1
    <3>1. Best(1, 1)
      BY <1>3, <2>4, <2>5
    <3> QED
      BY <2>4, <2>5, <3>1
  <2>6. CASE k # 1
    <3>1. k - 1 \in 1..n /\ k - 1 < k
      BY <2>4, <2>6
    <3>0. k - 1 \notin Bad
      <4> HIDE DEF Bad
      <4> QED
        BY <2>3, <3>1
    <3>2. PICK m \in 1..(k - 1) : Best(m, k - 1)
      BY <3>0, <3>1
    <3>3. m \in 1..k /\ k \in 1..k /\ f[m] \in Int /\ f[k] \in Int
      BY <1>3, <2>4, <3>1, <3>2
    <3>4. CASE f[m] >= f[k]
      <4>1. \A j \in 1..k : j = k \/ j \in 1..(k - 1)
        BY <2>4
      <4>2. \A j \in 1..k : f[m] >= f[j]
        BY <3>2, <3>4, <4>1
      <4> QED
        BY <2>4, <3>3, <4>2
    <3>5. CASE ~(f[m] >= f[k])
      <4>1. \A j \in 1..(k - 1) : f[j] \in Int /\ f[m] >= f[j]
        BY <1>3, <2>4, <3>2
      <4>2. f[k] > f[m]
        BY <3>3, <3>5
      <4>3. \A j \in 1..(k - 1) : f[k] >= f[j]
        BY <3>3, <4>1, <4>2
      <4>4. \A j \in 1..k : j = k \/ j \in 1..(k - 1)
        BY <2>4
      <4>5. \A j \in 1..k : f[k] >= f[j]
        BY <3>3, <4>3, <4>4
      <4> QED
        BY <2>4, <3>3, <4>5
    <3> QED
      BY <3>4, <3>5
  <2> QED
    BY <2>5, <2>6
<1>5. n \in 1..n
  <2>1. PICK v \in S : TRUE
    OBVIOUS
  <2>2. PICK k \in 1..n : f[k] = v
    BY <1>2
  <2> QED
    BY <2>2
<1>6. PICK m \in 1..n : \A j \in 1..n : f[m] >= f[j]
  BY <1>4, <1>5
<1>7. IsHighest(f[m], S)
  BY <1>2, <1>6 DEF IsHighest
<1> QED
  BY <1>7

\* Max() is the highest of the set, when there is one.
LEMMA MaxHighest ==
  ASSUME NEW S, S \subseteq Int
  PROVE  /\ IsFiniteSet(S) /\ S # {} => IsHighest(Max(S), S)
         /\ \A v : IsHighest(v, S) => Max(S) = v
<1>1. ASSUME NEW v, IsHighest(v, S) PROVE IsHighest(Max(S), S) /\ Max(S) = v
  <2>1. Max(S) \in S /\ \A y \in S : Max(S) >= y
    BY <1>1 DEF IsHighest, Max
  <2>2. Max(S) >= v /\ v >= Max(S) /\ v \in Int /\ Max(S) \in Int
    BY <1>1, <2>1 DEF IsHighest
  <2> QED
    BY <2>1, <2>2 DEF IsHighest
<1> QED
  BY <1>1, HighestExists

\* __prio_proc() returns the highest.
LEMMA ProcPriHighest ==
  ASSUME NEW p \in Procs, NEW orig \in [Procs -> Int], NEW list \in [Procs -> SUBSET Procs],
         NEW prios \in [Procs -> Int]
  PROVE  /\ ProcPri(p, orig, list, prios) \in Int
         /\ IsHighest(ProcPri(p, orig, list, prios),
                      {orig[p]} \cup {prios[q] : q \in list[p]})
<1> DEFINE T == {prios[q] : q \in list[p]}
           S == {orig[p]} \cup T
<1>1. IsFiniteSet(list[p])
  BY FiniteAssumption, FS_Subset
<1>2. IsFiniteSet(T)
  <2> DEFINE f == [q \in list[p] |-> prios[q]]
  <2>1. f \in [list[p] -> T] /\ \A t \in T : \E q \in list[p] : f[q] = t
    OBVIOUS
  <2> HIDE DEF f, T
  <2>2. f \in Surjection(list[p], T)
    BY <2>1 DEF Surjection
  <2> QED
    BY <1>1, <2>2, FS_Surjection
<1>3. IsFiniteSet(S)
  <2> HIDE DEF T
  <2> QED
    BY <1>2, FS_Singleton, FS_Union
<1>4. S \subseteq Int /\ S # {}
  OBVIOUS
<1>5. IsHighest(Max(S), S)
  <2> HIDE DEF S
  <2> QED
    BY <1>3, <1>4, MaxHighest
<1>6. ProcPri(p, orig, list, prios) = Max(S)
  BY DEF ProcPri
<1> HIDE DEF S
<1>7. Max(S) \in Int
  BY <1>4, <1>5 DEF IsHighest
<1> QED
  BY <1>5, <1>6, <1>7 DEF S

-----------------------------------------------------------------------------
(***************************************************************************)
(* Which steps preserve the two halves of the invariant.                   *)
(***************************************************************************)

\* What is needed of the types to say that the others are left alone.
Domains ==
  /\ DOMAIN pc = Procs /\ DOMAIN cont = Procs /\ DOMAIN reg = Procs /\ DOMAIN nest = Procs
  /\ DOMAIN obj = Procs /\ DOMAIN arg = Procs /\ DOMAIN held = Procs

\* The types give them.
LEMMA TypesDomains ==
  ASSUME SemTypes
  PROVE  Domains
<1>1. DOMAIN pc = Procs /\ DOMAIN cont = Procs /\ DOMAIN reg = Procs /\ DOMAIN nest = Procs
  BY DEF SemTypes
<1>2. DOMAIN obj = Procs /\ DOMAIN arg = Procs /\ DOMAIN held = Procs
  BY DEF SemTypes
<1> QED
  BY <1>1, <1>2 DEF Domains

\* What is known of the process that executes a step.
LEMMA SemInvAt ==
  ASSUME SemInv, NEW p \in Procs, p = cpu, ~idle
  PROVE  /\ SemTypes /\ SemSectionsAt(p) /\ RegisterAt(p) /\ CountIsNest
         /\ current = p /\ Live(p) /\ ~Granted(p) /\ (Blocked(p) => Leaving(p))
         /\ WaitingAt(p) /\ GrantAt(p) /\ CallAt(p)
BY DEF SemInv, SemKernel, SemCalls, SemRunning

\* Nobody but the process that runs is inside a section.
LEMMA OutsideOthers ==
  ASSUME SemInv, NEW q \in Procs, q # cpu
  PROVE  /\ nest[q] = 0
         /\ pc[q] \notin SemInside
BY DEF SemInv, SemKernel, OthersOutside, SemSectionsAt

(***************************************************************************)
(* A step of the process p that runs and goes on running, which changes    *)
(* neither who is ready nor who waits, preserves what the scheduler knows  *)
(* when it does so for p.                                                  *)
(***************************************************************************)
LEMMA OwnKernel ==
  ASSUME SemInv, SemTypes', NEW p \in Procs, p = cpu, ~idle, ~isr,
         UNCHANGED <<current, cpu, idle, isr, blockedBy>>,
         \A q \in Procs \ {p} : /\ pc'[q] = pc[q] /\ cont'[q] = cont[q] /\ reg'[q] = reg[q]
                               /\ nest'[q] = nest[q] /\ obj'[q] = obj[q],
         SemSectionsAt(p)', RegisterAt(p)', CountIsNest', Live(p)',
         Blocked(p) => Leaving(p)',
         Waking(p)' <=> Waking(p), Waking(p) => obj'[p] = obj[p],
         NoDup(ready'), \A q \in Procs : Contains(ready', q) <=> Contains(ready, q)
  PROVE  SemKernel'
<1> USE DEF SemInv, SemKernel
<1>1. \A q \in Procs : Blocked(q)' = Blocked(q)
  BY DEF Blocked
<1>2. \A q \in Procs \ {p} : Live(q)' = Live(q) /\ Leaving(q)' = Leaving(q)
                            /\ Waking(q)' = Waking(q)
  BY DEF Live, Leaving, Waking, Towards
<1>3. \A q \in Procs : (Waking(q)' <=> Waking(q)) /\ (Waking(q) => obj'[q] = obj[q])
  BY <1>2
<1>4. \A q : Granted(q)' <=> Granted(q)
  BY <1>3 DEF Granted
<1>5. \A q \in Procs : (SemSectionsAt(q) /\ RegisterAt(q))'
  <2> SUFFICES ASSUME NEW q \in Procs \ {p} PROVE (SemSectionsAt(q) /\ RegisterAt(q))'
    OBVIOUS
  <2> QED
    BY DEF SemSectionsAt, RegisterAt
<1>6. OthersOutside'
  BY DEF OthersOutside
<1>7. SemRunning'
  BY <1>1, <1>2, <1>4 DEF SemRunning
<1>8. SemReady'
  BY <1>1, <1>2, <1>4 DEF SemReady, SemRunning
<1>9. WindowClosed'
  BY DEF WindowClosed
<1> QED
  BY <1>5, <1>6, <1>7, <1>8, <1>9

(***************************************************************************)
(* A step that switches the CPU from p, outside its sections, to a live    *)
(* process that does not wait.                                             *)
(***************************************************************************)
LEMMA SwitchKernel ==
  ASSUME SemInv, SemTypes', NEW p \in Procs, p = cpu, ~idle, nest[p] = 0,
         UNCHANGED <<preemptCount, nest>>,
         \A q \in Procs \ {p} : pc'[q] = pc[q] /\ cont'[q] = cont[q] /\ reg'[q] = reg[q],
         SemSectionsAt(p)', RegisterAt(p)', ~Leaving(p)',
         WaitingAt(cpu)', ~idle', current' = cpu', Live(cpu)', ~Blocked(cpu)', ~Granted(cpu)',
         NoDup(ready'),
         \A q \in Procs : Contains(ready', q) <=>
                            Live(q)' /\ ~Blocked(q)' /\ ~Granted(q)' /\ q # cpu'
  PROVE  SemKernel'
<1> USE DEF SemInv, SemKernel
<1>1. \A q \in Procs : ~Leaving(q)'
  <2> SUFFICES ASSUME NEW q \in Procs \ {p} PROVE ~Leaving(q)'
    OBVIOUS
  <2>1. Leaving(q)' = Leaving(q)
    BY DEF Leaving, Towards
  <2> QED
    BY <2>1 DEF SemRunning
<1>2. \A q \in Procs : (SemSectionsAt(q) /\ RegisterAt(q))'
  <2> SUFFICES ASSUME NEW q \in Procs \ {p} PROVE (SemSectionsAt(q) /\ RegisterAt(q))'
    OBVIOUS
  <2> QED
    BY DEF SemSectionsAt, RegisterAt
<1>3. CountIsNest' /\ OthersOutside'
  BY DEF CountIsNest, OthersOutside, SemTypes
<1>4. SemRunning'
  BY <1>1 DEF SemRunning
<1>5. SemReady'
  BY DEF SemReady
<1>6. WindowClosed'
  BY <1>1 DEF WindowClosed, Leaving, Towards, SemTypes
<1> QED
  BY <1>2, <1>3, <1>4, <1>5, <1>6

(***************************************************************************)
(* A step of the process p that runs, which changes nobody's place in a    *)
(* wait queue, preserves what the calls know when it does so for p and for *)
(* the owners.                                                             *)
(***************************************************************************)
LEMMA OwnCalls ==
  ASSUME SemInv, SemTypes', NEW p \in Procs, p = cpu, ~idle,
         UNCHANGED <<queue, blockedBy>>,
         \A q \in Procs \ {p} : /\ pc'[q] = pc[q] /\ cont'[q] = cont[q] /\ obj'[q] = obj[q]
                               /\ arg'[q] = arg[q] /\ held'[q] = held[q],
         Waking(p)' => Waking(p) /\ obj'[p] = obj[p],
         WaitingAt(p)', CallAt(p)', \A s \in Sems : OwnerAt(s)'
  PROVE  SemCalls'
<1> USE DEF SemInv, SemCalls
<1>1. \A q \in Procs : Blocked(q)' = Blocked(q)
  BY DEF Blocked
<1>2. \A q \in Procs \ {p} : \A labels : Towards(q, labels)' = Towards(q, labels)
  BY DEF Towards
<1>3. \A q \in Procs : Waking(q)' => Waking(q) /\ obj'[q] = obj[q]
  BY <1>2 DEF Waking
<1>4. \A q \in Procs : Waking(q) => obj[q] # p
  BY SemInvAt DEF Granted
<1>5. ASSUME NEW q \in Procs PROVE GrantAt(q)'
  <2> SUFFICES ASSUME Waking(q)'
               PROVE  /\ obj'[q] \in Procs /\ pc'[obj'[q]] = "obt_done" /\ ~Blocked(obj[q])'
                      /\ \A r \in Procs : Waking(r)' /\ obj'[r] = obj'[q] => r = q
    BY DEF GrantAt
  <2>1. Waking(q) /\ obj'[q] = obj[q] /\ GrantAt(q)
    BY <1>3
  <2>2. obj[q] \in Procs \ {p} /\ pc[obj[q]] = "obt_done" /\ ~Blocked(obj[q])
    BY <1>4, <2>1 DEF GrantAt
  <2>3. \A r \in Procs : Waking(r)' /\ obj'[r] = obj'[q] => r = q
    BY <1>3, <2>1 DEF GrantAt
  <2> QED
    BY <2>1, <2>2, <2>3 DEF Blocked
<1>6. ASSUME NEW q \in Procs, q # p PROVE WaitingAt(q)' /\ CallAt(q)'
  <2>1. WaitingAt(q)'
    BY <1>1, <1>2, <1>6 DEF WaitingAt, Leaving
  <2>2. pc[q] \notin SemInside /\ CallAt(q)
    BY <1>6, OutsideOthers
  <2>3. CallAt(q)'
    BY <1>2, <1>6, <2>2 DEF CallAt, SemInside
  <2> QED
    BY <2>1, <2>3
<1>7. \A s \in Sems : QueueAt(s)'
  BY DEF QueueAt
<1> QED
  BY <1>5, <1>6, <1>7

\* What a semaphore knows, while nobody does anything with it.
LEMMA OwnerKept ==
  ASSUME NEW s \in Sems, OwnerAt(s),
         owner'[s] = owner[s], nestCount'[s] = nestCount[s], queue'[s] = queue[s],
         \A q \in Procs : /\ held'[q][s] = held[q][s]
                          /\ Taken(q, s)' <=> Taken(q, s)
                          /\ Passing(q, s)' <=> Passing(q, s)
                          /\ blockedBy'[q] = s => blockedBy[q] = s
  PROVE  OwnerAt(s)'
BY DEF OwnerAt

(***************************************************************************)
(* The two lemmas together, for the steps inside a call: p moves in its    *)
(* code, and the semaphores stay as they are.                              *)
(***************************************************************************)
LEMMA PlainStep ==
  ASSUME SemInv, SemTypes', NEW p \in Procs, p = cpu, ~idle, ~isr,
         UNCHANGED <<current, cpu, idle, isr, owner, queue, nestCount, blockedBy, held>>,
         \A q \in Procs \ {p} : /\ pc'[q] = pc[q] /\ cont'[q] = cont[q] /\ reg'[q] = reg[q]
                               /\ nest'[q] = nest[q] /\ obj'[q] = obj[q] /\ arg'[q] = arg[q],
         SemSectionsAt(p)', RegisterAt(p)', CountIsNest', Live(p)',
         Leaving(p)' <=> Leaving(p),
         Waking(p)' <=> Waking(p), Waking(p) => obj'[p] = obj[p],
         Towards(p, {"obt_done"})' <=> Towards(p, {"obt_done"}),
         Towards(p, {"obt_done"}) \/ Leaving(p) => arg'[p] = arg[p],
         pc[p] # "rel_pass", pc'[p] # "rel_pass",
         CallAt(p)',
         NoDup(ready'), \A q \in Procs : Contains(ready', q) <=> Contains(ready, q)
  PROVE  SemInv'
<1>1. /\ WaitingAt(p) /\ (Blocked(p) => Leaving(p))
      /\ \A q \in Procs : Blocked(q)' = Blocked(q)
  BY SemInvAt DEF Blocked
<1>2. \A s \in Sems : OwnerAt(s)'
  <2> SUFFICES ASSUME NEW s \in Sems PROVE OwnerAt(s)'
    OBVIOUS
  <2>1. \A q \in Procs : Taken(q, s)' <=> Taken(q, s)
    BY <1>1 DEF Taken, Towards
  <2>2. \A q \in Procs : Passing(q, s)' <=> Passing(q, s)
    BY DEF Passing
  <2>3. OwnerAt(s)
    BY DEF SemInv, SemCalls
  <2> QED
    BY <2>1, <2>2, <2>3, OwnerKept
<1>3. SemKernel'
  BY <1>1, OwnKernel
<1>4. WaitingAt(p)'
  BY <1>1 DEF WaitingAt
<1>5. SemCalls'
  BY <1>2, <1>4, OwnCalls
<1> QED
  BY <1>3, <1>5 DEF SemInv

-----------------------------------------------------------------------------
\* REMOVE() and LIST_ENQUEUE() of a node of a list keep its members.
LEMMA RequeueMembers ==
  ASSUME NEW list \in Seq(Procs), NoDup(list), NEW q, NEW f \in [Procs -> Int],
         NEW new, new = IF Contains(list, q) THEN Enqueue(Unlink(list, q), q, f) ELSE list
  PROVE  /\ new \in Seq(Procs) /\ NoDup(new)
         /\ \A r : Contains(new, r) <=> Contains(list, r)
<1>1. CASE ~Contains(list, q)
  BY <1>1
<1>2. CASE Contains(list, q)
  <2>1. PICK rest : rest = Unlink(list, q)
    OBVIOUS
  <2>2. /\ rest \in Seq(Procs) /\ NoDup(rest)
        /\ \A r : Contains(rest, r) <=> r # q /\ Contains(list, r)
    BY <1>2, <2>1, UnlinkMembers
  <2>3. q \in Procs
    BY <1>2, ElementOfSeq DEF Contains
  <2>4. /\ Enqueue(rest, q, f) \in Seq(Procs) /\ NoDup(Enqueue(rest, q, f))
        /\ \A r : Contains(Enqueue(rest, q, f), r) <=> r = q \/ Contains(rest, r)
    BY <2>2, <2>3, EnqueueMembers
  <2> QED
    BY <1>2, <2>1, <2>2, <2>4
<1> QED
  BY <1>1, <1>2

-----------------------------------------------------------------------------
(***************************************************************************)
(* The steps that leave the semaphores and the wait queues as they are.    *)
(***************************************************************************)

\* preempt_count is loaded.
LEMMA CountLoadSem ==
  ASSUME SemInv, NEW p \in Procs, CountLoad(p), UNCHANGED <<semVars, inhVars, arg, held>>
  PROVE  SemInv'
<1> USE DEF CountLoad, At, Goto, CallCount, schedVars, countVars, semVars, inhVars
<1>1. p = cpu /\ ~idle /\ ~isr /\ SemTypes
  BY DEF SemInv, SemKernel
<1>2. /\ SemSectionsAt(p) /\ RegisterAt(p) /\ CountIsNest /\ CallAt(p) /\ WaitingAt(p)
      /\ ~Granted(p) /\ (Blocked(p) => Leaving(p))
  BY <1>1, SemInvAt
<1>3. /\ UNCHANGED <<current, cpu, idle, isr, owner, queue, nestCount, blockedBy, held>>
      /\ \A q \in Procs \ {p} : /\ pc'[q] = pc[q] /\ cont'[q] = cont[q] /\ reg'[q] = reg[q]
                               /\ nest'[q] = nest[q] /\ obj'[q] = obj[q] /\ arg'[q] = arg[q]
  <2>1. Domains
    BY <1>1, TypesDomains
  <2> QED
    BY <2>1 DEF Domains
<1>4. SemTypes'
  <2>1. pc' \in [Procs -> SemPlaces]
    BY <1>1 DEF SemTypes, SemPlaces, CountLabels
  <2>2. reg' \in [Procs -> Int]
    BY <1>1 DEF SemTypes
  <2>3. UNCHANGED <<schedVars, isr, zombies, pri, preemptCount, cont, nest, obj,
                    semVars, inhVars, arg, held>>
    OBVIOUS
  <2> HIDE DEF CountLoad
  <2> QED
    BY <1>1, <2>1, <2>2, <2>3 DEF SemTypes
<1>5. SemSectionsAt(p)' /\ RegisterAt(p)' /\ CountIsNest'
  BY <1>1, <1>2
     DEF SemTypes, SemSectionsAt, RegisterAt, CountIsNest, SemOutside, SemInside, SemPlaces,
         SemReturns, SemLabels, CountLabels
<1>6. /\ Live(p)'
      /\ Leaving(p)' <=> Leaving(p)
      /\ Waking(p)' <=> Waking(p)
      /\ Towards(p, {"obt_done"})' <=> Towards(p, {"obt_done"})
  BY <1>1, <1>2
     DEF SemTypes, SemSectionsAt, Live, Dead, Leaving, Waking, Towards, SemPlaces, SemReturns,
         SemLabels, CountLabels
<1>7. /\ Waking(p) => obj'[p] = obj[p]
      /\ Towards(p, {"obt_done"}) \/ Leaving(p) => arg'[p] = arg[p]
      /\ pc[p] # "rel_pass" /\ pc'[p] # "rel_pass"
  BY <1>1, <1>2
     DEF SemTypes, SemSectionsAt, Leaving, Waking, Towards, SemPlaces, SemReturns, SemLabels,
         CountLabels
<1>8. CallAt(p)'
  BY <1>1, <1>2 DEF SemTypes, CallAt, Towards, SemLabels, CountLabels
<1>9. NoDup(ready') /\ \A q \in Procs : Contains(ready', q) <=> Contains(ready, q)
  BY DEF SemInv, SemKernel, SemReady
<1> QED
  BY <1>1, <1>3, <1>4, <1>5, <1>6, <1>7, <1>8, <1>9, PlainStep

\* preempt_count is incremented, and what was loaded is still true.
LEMMA ForbidStoreSem ==
  ASSUME SemInv, NEW p \in Procs, ForbidStore(p), UNCHANGED <<semVars, inhVars, arg, held>>
  PROVE  SemInv'
<1> USE DEF ForbidStore, At, Goto, CallCount, schedVars, countVars, semVars, inhVars
<1>1. p = cpu /\ ~idle /\ ~isr /\ SemTypes
  BY DEF SemInv, SemKernel
<1>2. /\ SemSectionsAt(p) /\ RegisterAt(p) /\ CountIsNest /\ CallAt(p) /\ WaitingAt(p)
      /\ ~Granted(p) /\ (Blocked(p) => Leaving(p))
  BY <1>1, SemInvAt
<1>3. /\ UNCHANGED <<current, cpu, idle, isr, owner, queue, nestCount, blockedBy, held>>
      /\ \A q \in Procs \ {p} : /\ pc'[q] = pc[q] /\ cont'[q] = cont[q] /\ reg'[q] = reg[q]
                               /\ nest'[q] = nest[q] /\ obj'[q] = obj[q] /\ arg'[q] = arg[q]
  <2>1. Domains
    BY <1>1, TypesDomains
  <2> QED
    BY <2>1 DEF Domains
<1>0. cont[p] \in {"obt_test", "att_test", "rel_dec", "crit"}
  BY <1>1, <1>2 DEF SemSectionsAt
<1>4. SemTypes'
  <2>1. pc' \in [Procs -> SemPlaces] /\ cont' \in [Procs -> SemReturns]
    BY <1>0, <1>1 DEF SemTypes, SemPlaces, SemReturns, SemLabels, CountLabels
  <2>2. preemptCount' \in Int
    <3>1. reg[p] + 1 \in Int /\ preemptCount \in Int
      BY <1>1 DEF SemTypes
    <3>2. preemptCount' = IF Preempt THEN reg[p] + 1 ELSE preemptCount
      OBVIOUS
    <3> HIDE DEF ForbidStore
    <3> QED
      BY <3>1, <3>2
  <2>4. reg' \in [Procs -> Int] /\ nest' \in [Procs -> Int]
    BY <1>1 DEF SemTypes
  <2>3. UNCHANGED <<schedVars, isr, zombies, pri, obj, semVars, inhVars, arg, held>>
    OBVIOUS
  <2> HIDE DEF ForbidStore
  <2> QED
    BY <1>1, <2>1, <2>2, <2>3, <2>4 DEF SemTypes
<1>5. SemSectionsAt(p)' /\ RegisterAt(p)' /\ CountIsNest'
  <2>1. pc'[p] = cont[p] /\ nest'[p] = nest[p] + 1 /\ nest[p] \in Int
    BY <1>1 DEF SemTypes
  <2>2. SemSectionsAt(p)'
    BY <1>0, <1>1, <1>2, <2>1 DEF SemSectionsAt, SemOutside, SemInside
  <2>3. RegisterAt(p)' /\ CountIsNest'
    BY <1>0, <1>1, <1>2, <2>1 DEF SemTypes, RegisterAt, CountIsNest
  <2> QED
    BY <2>2, <2>3
<1>6. /\ Live(p)'
      /\ Leaving(p)' <=> Leaving(p)
      /\ Waking(p)' <=> Waking(p)
      /\ Towards(p, {"obt_done"})' <=> Towards(p, {"obt_done"})
  BY <1>1, <1>2
     DEF SemTypes, SemSectionsAt, Live, Dead, Leaving, Waking, Towards, SemPlaces, SemReturns,
         SemLabels, CountLabels
<1>7. /\ Waking(p) => obj'[p] = obj[p]
      /\ Towards(p, {"obt_done"}) \/ Leaving(p) => arg'[p] = arg[p]
      /\ pc[p] # "rel_pass" /\ pc'[p] # "rel_pass"
  BY <1>1, <1>2
     DEF SemTypes, SemSectionsAt, Leaving, Waking, Towards, SemPlaces, SemReturns, SemLabels,
         CountLabels
<1>8. CallAt(p)'
  <2>1. pc'[p] = cont[p] /\ cont'[p] = "user"
    BY <1>1 DEF SemTypes
  <2> QED
    BY <1>0, <1>1, <1>2, <2>1 DEF CallAt, Towards, SemLabels, CountLabels
<1>9. NoDup(ready') /\ \A q \in Procs : Contains(ready', q) <=> Contains(ready, q)
  BY DEF SemInv, SemKernel, SemReady
<1> QED
  BY <1>1, <1>3, <1>4, <1>5, <1>6, <1>7, <1>8, <1>9, PlainStep

\* preempt_count is decremented.
LEMMA PermitStoreSem ==
  ASSUME SemInv, NEW p \in Procs, PermitStore(p), UNCHANGED <<semVars, inhVars, arg, held>>
  PROVE  SemInv'
<1> USE DEF PermitStore, At, Goto, CallCount, schedVars, countVars, semVars, inhVars
<1>1. p = cpu /\ ~idle /\ ~isr /\ SemTypes
  BY DEF SemInv, SemKernel
<1>2. /\ SemSectionsAt(p) /\ RegisterAt(p) /\ CountIsNest /\ CallAt(p) /\ WaitingAt(p)
      /\ ~Granted(p) /\ (Blocked(p) => Leaving(p))
  BY <1>1, SemInvAt
<1>3. /\ UNCHANGED <<current, cpu, idle, isr, owner, queue, nestCount, blockedBy, held>>
      /\ \A q \in Procs \ {p} : /\ pc'[q] = pc[q] /\ cont'[q] = cont[q] /\ reg'[q] = reg[q]
                               /\ nest'[q] = nest[q] /\ obj'[q] = obj[q] /\ arg'[q] = arg[q]
  <2>1. Domains
    BY <1>1, TypesDomains
  <2> QED
    BY <2>1 DEF Domains
<1>0. cont[p] \in {"user", "obt_switch", "obt_done", "rel_wake", "crit"}
  BY <1>1, <1>2 DEF SemSectionsAt
<1>4. SemTypes'
  <2>1. pc' \in [Procs -> SemPlaces] /\ cont' \in [Procs -> SemReturns]
    BY <1>0, <1>1 DEF SemTypes, SemPlaces, SemReturns, SemLabels, CountLabels
  <2>2. preemptCount' \in Int
    <3>1. reg[p] - 1 \in Int /\ preemptCount \in Int
      BY <1>1 DEF SemTypes
    <3>2. preemptCount' = IF Preempt THEN reg[p] - 1 ELSE preemptCount
      OBVIOUS
    <3> HIDE DEF PermitStore
    <3> QED
      BY <3>1, <3>2
  <2>4. reg' \in [Procs -> Int] /\ nest' \in [Procs -> Int]
    BY <1>1 DEF SemTypes
  <2>3. UNCHANGED <<schedVars, isr, zombies, pri, obj, semVars, inhVars, arg, held>>
    OBVIOUS
  <2> HIDE DEF PermitStore
  <2> QED
    BY <1>1, <2>1, <2>2, <2>3, <2>4 DEF SemTypes
<1>5. SemSectionsAt(p)' /\ RegisterAt(p)' /\ CountIsNest'
  <2>1. pc'[p] = cont[p] /\ nest'[p] = nest[p] - 1 /\ nest[p] \in Int
    BY <1>1 DEF SemTypes
  <2>2. SemSectionsAt(p)'
    BY <1>0, <1>1, <1>2, <2>1 DEF SemSectionsAt, SemOutside, SemInside
  <2>3. RegisterAt(p)' /\ CountIsNest'
    BY <1>0, <1>1, <1>2, <2>1 DEF SemTypes, RegisterAt, CountIsNest
  <2> QED
    BY <2>2, <2>3
<1>6. /\ Live(p)'
      /\ Leaving(p)' <=> Leaving(p)
      /\ Waking(p)' <=> Waking(p)
      /\ Towards(p, {"obt_done"})' <=> Towards(p, {"obt_done"})
  BY <1>1, <1>2
     DEF SemTypes, SemSectionsAt, Live, Dead, Leaving, Waking, Towards, SemPlaces, SemReturns,
         SemLabels, CountLabels
<1>7. /\ Waking(p) => obj'[p] = obj[p]
      /\ Towards(p, {"obt_done"}) \/ Leaving(p) => arg'[p] = arg[p]
      /\ pc[p] # "rel_pass" /\ pc'[p] # "rel_pass"
  BY <1>1, <1>2
     DEF SemTypes, SemSectionsAt, Leaving, Waking, Towards, SemPlaces, SemReturns, SemLabels,
         CountLabels
<1>8. CallAt(p)'
  <2>1. pc'[p] = cont[p] /\ cont'[p] = "user"
    BY <1>1 DEF SemTypes
  <2> QED
    BY <1>0, <1>1, <1>2, <2>1 DEF CallAt, Towards, SemLabels, CountLabels
<1>9. NoDup(ready') /\ \A q \in Procs : Contains(ready', q) <=> Contains(ready, q)
  BY DEF SemInv, SemKernel, SemReady
<1> QED
  BY <1>1, <1>3, <1>4, <1>5, <1>6, <1>7, <1>8, <1>9, PlainStep

\* The application closes a section.
LEMMA AppPermitSem ==
  ASSUME SemInv, NEW p \in Procs, AppPermit(p), UNCHANGED <<semVars, inhVars, arg, held>>
  PROVE  SemInv'
<1> USE DEF AppPermit, At, Goto, CallCount, schedVars, countVars, semVars, inhVars
<1>1. p = cpu /\ ~idle /\ ~isr /\ SemTypes
  BY DEF SemInv, SemKernel
<1>2. /\ SemSectionsAt(p) /\ RegisterAt(p) /\ CountIsNest /\ CallAt(p) /\ WaitingAt(p)
      /\ ~Granted(p) /\ (Blocked(p) => Leaving(p))
  BY <1>1, SemInvAt
<1>3. /\ UNCHANGED <<current, cpu, idle, isr, owner, queue, nestCount, blockedBy, held>>
      /\ \A q \in Procs \ {p} : /\ pc'[q] = pc[q] /\ cont'[q] = cont[q] /\ reg'[q] = reg[q]
                               /\ nest'[q] = nest[q] /\ obj'[q] = obj[q] /\ arg'[q] = arg[q]
  <2>1. Domains
    BY <1>1, TypesDomains
  <2> QED
    BY <2>1 DEF Domains
<1>4. SemTypes'
  BY <1>1 DEF SemTypes, SemPlaces, SemReturns, SemLabels, CountLabels
<1>5. SemSectionsAt(p)' /\ RegisterAt(p)' /\ CountIsNest'
  BY <1>1, <1>2
     DEF SemTypes, SemSectionsAt, RegisterAt, CountIsNest, SemOutside, SemInside, SemPlaces,
         SemReturns, SemLabels, CountLabels
<1>6. /\ Live(p)'
      /\ Leaving(p)' <=> Leaving(p)
      /\ Waking(p)' <=> Waking(p)
      /\ Towards(p, {"obt_done"})' <=> Towards(p, {"obt_done"})
  BY <1>1, <1>2
     DEF SemTypes, SemSectionsAt, Live, Dead, Leaving, Waking, Towards, SemPlaces, SemReturns,
         SemLabels, CountLabels
<1>7. /\ Waking(p) => obj'[p] = obj[p]
      /\ Towards(p, {"obt_done"}) \/ Leaving(p) => arg'[p] = arg[p]
      /\ pc[p] # "rel_pass" /\ pc'[p] # "rel_pass"
  BY <1>1, <1>2
     DEF SemTypes, SemSectionsAt, Leaving, Waking, Towards, SemPlaces, SemReturns, SemLabels,
         CountLabels
<1>8. CallAt(p)'
  BY <1>1, <1>2 DEF SemTypes, CallAt, Towards, SemLabels, CountLabels
<1>9. NoDup(ready') /\ \A q \in Procs : Contains(ready', q) <=> Contains(ready, q)
  BY DEF SemInv, SemKernel, SemReady
<1> QED
  BY <1>1, <1>3, <1>4, <1>5, <1>6, <1>7, <1>8, <1>9, PlainStep

\* The application opens a section.
LEMMA AppForbidSem ==
  ASSUME SemInv, NEW p \in Procs, AppForbid(p), UNCHANGED <<semVars, inhVars, arg, held>>
  PROVE  SemInv'
<1> USE DEF AppForbid, At, Goto, CallCount, schedVars, countVars, semVars, inhVars
<1>1. p = cpu /\ ~idle /\ ~isr /\ SemTypes
  BY DEF SemInv, SemKernel
<1>2. /\ SemSectionsAt(p) /\ RegisterAt(p) /\ CountIsNest /\ CallAt(p) /\ WaitingAt(p)
      /\ ~Granted(p) /\ (Blocked(p) => Leaving(p))
  BY <1>1, SemInvAt
<1>3. /\ UNCHANGED <<current, cpu, idle, isr, owner, queue, nestCount, blockedBy, held>>
      /\ \A q \in Procs \ {p} : /\ pc'[q] = pc[q] /\ cont'[q] = cont[q] /\ reg'[q] = reg[q]
                               /\ nest'[q] = nest[q] /\ obj'[q] = obj[q] /\ arg'[q] = arg[q]
  <2>1. Domains
    BY <1>1, TypesDomains
  <2> QED
    BY <2>1 DEF Domains
<1>4. SemTypes'
  BY <1>1 DEF SemTypes, SemPlaces, SemReturns, SemLabels, CountLabels
<1>5. SemSectionsAt(p)' /\ RegisterAt(p)' /\ CountIsNest'
  BY <1>1, <1>2
     DEF SemTypes, SemSectionsAt, RegisterAt, CountIsNest, SemOutside, SemInside, SemPlaces,
         SemReturns, SemLabels, CountLabels
<1>6. /\ Live(p)'
      /\ Leaving(p)' <=> Leaving(p)
      /\ Waking(p)' <=> Waking(p)
      /\ Towards(p, {"obt_done"})' <=> Towards(p, {"obt_done"})
  BY <1>1, <1>2
     DEF SemTypes, SemSectionsAt, Live, Dead, Leaving, Waking, Towards, SemPlaces, SemReturns,
         SemLabels, CountLabels
<1>7. /\ Waking(p) => obj'[p] = obj[p]
      /\ Towards(p, {"obt_done"}) \/ Leaving(p) => arg'[p] = arg[p]
      /\ pc[p] # "rel_pass" /\ pc'[p] # "rel_pass"
  BY <1>1, <1>2
     DEF SemTypes, SemSectionsAt, Leaving, Waking, Towards, SemPlaces, SemReturns, SemLabels,
         CountLabels
<1>8. CallAt(p)'
  BY <1>1, <1>2 DEF SemTypes, CallAt, Towards, SemLabels, CountLabels
<1>9. NoDup(ready') /\ \A q \in Procs : Contains(ready', q) <=> Contains(ready, q)
  BY DEF SemInv, SemKernel, SemReady
<1> QED
  BY <1>1, <1>3, <1>4, <1>5, <1>6, <1>7, <1>8, <1>9, PlainStep

\* proc_setPri() puts a ready process in its new place.
LEMMA ReenqueueSem ==
  ASSUME SemInv, NEW p \in Procs, Reenqueue(p), UNCHANGED <<semVars, inhVars, arg, held>>
  PROVE  SemInv'
<1> USE DEF Reenqueue, At, Goto, CallCount, schedVars, countVars, semVars, inhVars
<1>1. p = cpu /\ ~idle /\ ~isr /\ SemTypes
  BY DEF SemInv, SemKernel
<1>2. /\ SemSectionsAt(p) /\ RegisterAt(p) /\ CountIsNest /\ CallAt(p) /\ WaitingAt(p)
      /\ ~Granted(p) /\ (Blocked(p) => Leaving(p))
  BY <1>1, SemInvAt
<1>3. /\ UNCHANGED <<current, cpu, idle, isr, owner, queue, nestCount, blockedBy, held>>
      /\ \A q \in Procs \ {p} : /\ pc'[q] = pc[q] /\ cont'[q] = cont[q] /\ reg'[q] = reg[q]
                               /\ nest'[q] = nest[q] /\ obj'[q] = obj[q] /\ arg'[q] = arg[q]
  <2>1. Domains
    BY <1>1, TypesDomains
  <2> QED
    BY <2>1 DEF Domains
<1>0. /\ ready' \in Seq(Procs) /\ NoDup(ready')
      /\ \A q \in Procs : Contains(ready', q) <=> Contains(ready, q)
  <2>1. ready \in Seq(Procs) /\ NoDup(ready) /\ pri \in [Procs -> Int]
    BY DEF SemInv, SemKernel, SemTypes, SemReady
  <2>2. ready' = IF Contains(ready, obj[p]) THEN Enqueue(Unlink(ready, obj[p]), obj[p], pri)
                                            ELSE ready
    OBVIOUS
  <2> QED
    BY <2>1, <2>2, RequeueMembers
<1>4. SemTypes'
  BY <1>0, <1>1 DEF SemTypes, SemPlaces, SemReturns, SemLabels, CountLabels
<1>5. SemSectionsAt(p)' /\ RegisterAt(p)' /\ CountIsNest'
  BY <1>1, <1>2
     DEF SemTypes, SemSectionsAt, RegisterAt, CountIsNest, SemOutside, SemInside, SemPlaces,
         SemReturns, SemLabels, CountLabels
<1>6. /\ Live(p)'
      /\ Leaving(p)' <=> Leaving(p)
      /\ Waking(p)' <=> Waking(p)
      /\ Towards(p, {"obt_done"})' <=> Towards(p, {"obt_done"})
  BY <1>1, <1>2
     DEF SemTypes, SemSectionsAt, Live, Dead, Leaving, Waking, Towards, SemPlaces, SemReturns,
         SemLabels, CountLabels
<1>7. /\ Waking(p) => obj'[p] = obj[p]
      /\ Towards(p, {"obt_done"}) \/ Leaving(p) => arg'[p] = arg[p]
      /\ pc[p] # "rel_pass" /\ pc'[p] # "rel_pass"
  BY <1>1, <1>2
     DEF SemTypes, SemSectionsAt, Leaving, Waking, Towards, SemPlaces, SemReturns, SemLabels,
         CountLabels
<1>8. CallAt(p)'
  BY <1>1, <1>2 DEF SemTypes, CallAt, Towards, SemLabels, CountLabels
<1>9. NoDup(ready') /\ \A q \in Procs : Contains(ready', q) <=> Contains(ready, q)
  BY <1>0
<1> QED
  BY <1>1, <1>3, <1>4, <1>5, <1>6, <1>7, <1>8, <1>9, PlainStep

\* sem_obtain(), sem_attempt() or sem_release() begins.
LEMMA CallSemSem ==
  ASSUME SemInv, NEW p \in Procs, NEW s \in Sems, NEW label \in {"obt_test", "att_test", "rel_dec"},
         CallSem(p, s, label), label = "rel_dec" => held[p][s] > 0, UNCHANGED held
  PROVE  SemInv'
<1> USE DEF CallSem, At, Goto, CallCount, schedVars, countVars, semVars, inhVars
<1>1. p = cpu /\ ~idle /\ ~isr /\ SemTypes
  BY DEF SemInv, SemKernel
<1>2. /\ SemSectionsAt(p) /\ RegisterAt(p) /\ CountIsNest /\ CallAt(p) /\ WaitingAt(p)
      /\ ~Granted(p) /\ (Blocked(p) => Leaving(p))
  BY <1>1, SemInvAt
<1>3. /\ UNCHANGED <<current, cpu, idle, isr, owner, queue, nestCount, blockedBy, held>>
      /\ \A q \in Procs \ {p} : /\ pc'[q] = pc[q] /\ cont'[q] = cont[q] /\ reg'[q] = reg[q]
                               /\ nest'[q] = nest[q] /\ obj'[q] = obj[q] /\ arg'[q] = arg[q]
  <2>1. Domains
    BY <1>1, TypesDomains
  <2> QED
    BY <2>1 DEF Domains
<1>4. SemTypes'
  <2>1. pc' \in [Procs -> SemPlaces] /\ cont' \in [Procs -> SemReturns]
    BY <1>1 DEF SemTypes, SemPlaces, SemReturns, SemLabels, CountLabels
  <2>2. arg' \in [Procs -> Sems \cup {NoSem}]
    BY <1>1 DEF SemTypes
  <2> QED
    BY <1>1, <2>1, <2>2 DEF SemTypes
<1>5. SemSectionsAt(p)' /\ RegisterAt(p)' /\ CountIsNest'
  BY <1>1, <1>2
     DEF SemTypes, SemSectionsAt, RegisterAt, CountIsNest, SemOutside, SemInside, SemPlaces,
         SemReturns, SemLabels, CountLabels
<1>6. /\ Live(p)'
      /\ Leaving(p)' <=> Leaving(p)
      /\ Waking(p)' <=> Waking(p)
      /\ Towards(p, {"obt_done"})' <=> Towards(p, {"obt_done"})
  BY <1>1, <1>2
     DEF SemTypes, SemSectionsAt, Live, Dead, Leaving, Waking, Towards, SemPlaces, SemReturns,
         SemLabels, CountLabels
<1>7. /\ Waking(p) => obj'[p] = obj[p]
      /\ Towards(p, {"obt_done"}) \/ Leaving(p) => arg'[p] = arg[p]
      /\ pc[p] # "rel_pass" /\ pc'[p] # "rel_pass"
  BY <1>1, <1>2
     DEF SemTypes, SemSectionsAt, Leaving, Waking, Towards, SemPlaces, SemReturns, SemLabels,
         CountLabels
<1>8. CallAt(p)'
  BY <1>1, <1>2 DEF SemTypes, CallAt, Towards, SemLabels, CountLabels
<1>9. NoDup(ready') /\ \A q \in Procs : Contains(ready', q) <=> Contains(ready, q)
  BY DEF SemInv, SemKernel, SemReady
<1> QED
  BY <1>1, <1>3, <1>4, <1>5, <1>6, <1>7, <1>8, <1>9, PlainStep

\* sem_obtain() finds whether the semaphore is locked by another process.
LEMMA ObtTestSem ==
  ASSUME SemInv, NEW p \in Procs, ObtTest(p)
  PROVE  SemInv'
<1> USE DEF ObtTest, At, Goto, CallCount, schedVars, countVars, semVars, inhVars
<1>1. p = cpu /\ ~idle /\ ~isr /\ SemTypes
  BY DEF SemInv, SemKernel
<1>2. /\ SemSectionsAt(p) /\ RegisterAt(p) /\ CountIsNest /\ CallAt(p) /\ WaitingAt(p)
      /\ ~Granted(p) /\ (Blocked(p) => Leaving(p))
  BY <1>1, SemInvAt
<1>3. /\ UNCHANGED <<current, cpu, idle, isr, owner, queue, nestCount, blockedBy, held>>
      /\ \A q \in Procs \ {p} : /\ pc'[q] = pc[q] /\ cont'[q] = cont[q] /\ reg'[q] = reg[q]
                               /\ nest'[q] = nest[q] /\ obj'[q] = obj[q] /\ arg'[q] = arg[q]
  <2>1. Domains
    BY <1>1, TypesDomains
  <2> QED
    BY <2>1 DEF Domains
<1>4. SemTypes'
  BY <1>1 DEF SemTypes, SemPlaces, SemReturns, SemLabels, CountLabels
<1>5. SemSectionsAt(p)' /\ RegisterAt(p)' /\ CountIsNest'
  BY <1>1, <1>2
     DEF SemTypes, SemSectionsAt, RegisterAt, CountIsNest, SemOutside, SemInside, SemPlaces,
         SemReturns, SemLabels, CountLabels
<1>6. /\ Live(p)'
      /\ Leaving(p)' <=> Leaving(p)
      /\ Waking(p)' <=> Waking(p)
      /\ Towards(p, {"obt_done"})' <=> Towards(p, {"obt_done"})
  BY <1>1, <1>2
     DEF SemTypes, SemSectionsAt, Live, Dead, Leaving, Waking, Towards, SemPlaces, SemReturns,
         SemLabels, CountLabels
<1>7. /\ Waking(p) => obj'[p] = obj[p]
      /\ Towards(p, {"obt_done"}) \/ Leaving(p) => arg'[p] = arg[p]
      /\ pc[p] # "rel_pass" /\ pc'[p] # "rel_pass"
  BY <1>1, <1>2
     DEF SemTypes, SemSectionsAt, Leaving, Waking, Towards, SemPlaces, SemReturns, SemLabels,
         CountLabels
<1>8. CallAt(p)'
  BY <1>1, <1>2 DEF SemTypes, CallAt, Towards, SemLabels, CountLabels
<1>9. NoDup(ready') /\ \A q \in Procs : Contains(ready', q) <=> Contains(ready, q)
  BY DEF SemInv, SemKernel, SemReady
<1> QED
  BY <1>1, <1>3, <1>4, <1>5, <1>6, <1>7, <1>8, <1>9, PlainStep

\* sem_attempt() finds it, too.
LEMMA AttTestSem ==
  ASSUME SemInv, NEW p \in Procs, AttTest(p)
  PROVE  SemInv'
<1> USE DEF AttTest, At, Goto, CallCount, schedVars, countVars, semVars, inhVars
<1>1. p = cpu /\ ~idle /\ ~isr /\ SemTypes
  BY DEF SemInv, SemKernel
<1>2. /\ SemSectionsAt(p) /\ RegisterAt(p) /\ CountIsNest /\ CallAt(p) /\ WaitingAt(p)
      /\ ~Granted(p) /\ (Blocked(p) => Leaving(p))
  BY <1>1, SemInvAt
<1>3. /\ UNCHANGED <<current, cpu, idle, isr, owner, queue, nestCount, blockedBy, held>>
      /\ \A q \in Procs \ {p} : /\ pc'[q] = pc[q] /\ cont'[q] = cont[q] /\ reg'[q] = reg[q]
                               /\ nest'[q] = nest[q] /\ obj'[q] = obj[q] /\ arg'[q] = arg[q]
  <2>1. Domains
    BY <1>1, TypesDomains
  <2> QED
    BY <2>1 DEF Domains
<1>4. SemTypes'
  <2>1. pc' \in [Procs -> SemPlaces] /\ cont' \in [Procs -> SemReturns]
    <3>1. CASE Goto(p, "att_take") /\ UNCHANGED <<cont, arg>>
      BY <1>1, <3>1 DEF SemTypes, SemPlaces, SemReturns, SemLabels, CountLabels
    <3>2. CASE CallCount(p, "permit", "user")
      BY <1>1, <3>2 DEF SemTypes, SemPlaces, SemReturns, SemLabels, CountLabels
    <3> QED
      BY <3>1, <3>2
  <2>2. arg' \in [Procs -> Sems \cup {NoSem}]
    BY <1>1 DEF SemTypes
  <2> QED
    BY <1>1, <2>1, <2>2 DEF SemTypes
<1>5. SemSectionsAt(p)' /\ RegisterAt(p)' /\ CountIsNest'
  <2>1. /\ pc[p] = "att_test" /\ cpu' = cpu /\ UNCHANGED <<preemptCount, nest, reg>>
    BY <1>1
  <2>2. nest[p] = 1 /\ pc'[p] \in {"att_take", "permit"} /\ (pc'[p] = "permit" => cont'[p] = "user")
    BY <1>1, <1>2, <2>1 DEF SemTypes, SemSectionsAt, SemInside
  <2> HIDE DEF AttTest
  <2> QED
    BY <1>1, <1>2, <2>1, <2>2
       DEF SemSectionsAt, RegisterAt, CountIsNest, SemOutside, SemInside
<1>6. /\ Live(p)'
      /\ Leaving(p)' <=> Leaving(p)
      /\ Waking(p)' <=> Waking(p)
      /\ Towards(p, {"obt_done"})' <=> Towards(p, {"obt_done"})
  BY <1>1, <1>2
     DEF SemTypes, SemSectionsAt, Live, Dead, Leaving, Waking, Towards, SemPlaces, SemReturns,
         SemLabels, CountLabels
<1>7. /\ Waking(p) => obj'[p] = obj[p]
      /\ Towards(p, {"obt_done"}) \/ Leaving(p) => arg'[p] = arg[p]
      /\ pc[p] # "rel_pass" /\ pc'[p] # "rel_pass"
  BY <1>1, <1>2
     DEF SemTypes, SemSectionsAt, Leaving, Waking, Towards, SemPlaces, SemReturns, SemLabels,
         CountLabels
<1>8. CallAt(p)'
  <2>1. CASE owner[arg[p]] \in {NoProc, p}
    <3>1. /\ pc'[p] = "att_take" /\ arg'[p] = arg[p] /\ owner' = owner
          /\ arg[p] \in Sems
      BY <1>1, <1>2, <2>1 DEF SemTypes, CallAt, Towards, SemLabels
    <3> HIDE DEF AttTest
    <3> QED
      BY <2>1, <3>1 DEF CallAt, Towards, SemLabels, CountLabels
  <2>2. CASE owner[arg[p]] \notin {NoProc, p}
    <3>1. pc'[p] = "permit" /\ cont'[p] = "user"
      BY <1>1, <2>2 DEF SemTypes
    <3> HIDE DEF AttTest
    <3> QED
      BY <3>1 DEF CallAt, Towards, SemLabels, CountLabels
  <2> QED
    BY <2>1, <2>2
<1>9. NoDup(ready') /\ \A q \in Procs : Contains(ready', q) <=> Contains(ready, q)
  BY DEF SemInv, SemKernel, SemReady
<1> QED
  BY <1>1, <1>3, <1>4, <1>5, <1>6, <1>7, <1>8, <1>9, PlainStep

\* pri_inheritBlock() boosts one process of the chain.
LEMMA InheritSem ==
  ASSUME SemInv, NEW p \in Procs, Inherit(p)
  PROVE  SemInv'
<1> USE DEF Inherit, At, Goto, CallCount, schedVars, countVars, semVars, inhVars
<1>1. p = cpu /\ ~idle /\ ~isr /\ SemTypes
  BY DEF SemInv, SemKernel
<1>2. /\ SemSectionsAt(p) /\ RegisterAt(p) /\ CountIsNest /\ CallAt(p) /\ WaitingAt(p)
      /\ ~Granted(p) /\ (Blocked(p) => Leaving(p))
  BY <1>1, SemInvAt
<1>3. /\ UNCHANGED <<current, cpu, idle, isr, owner, queue, nestCount, blockedBy, held>>
      /\ \A q \in Procs \ {p} : /\ pc'[q] = pc[q] /\ cont'[q] = cont[q] /\ reg'[q] = reg[q]
                               /\ nest'[q] = nest[q] /\ obj'[q] = obj[q] /\ arg'[q] = arg[q]
  <2>1. Domains
    BY <1>1, TypesDomains
  <2> QED
    BY <2>1 DEF Domains
<1>0. obj[p] \in Procs /\ pc[p] = "inherit"
  BY <1>2 DEF CallAt
<1>10. /\ pri' \in [Procs -> Int]
       /\ ready' \in Seq(Procs) /\ NoDup(ready')
       /\ \A q \in Procs : Contains(ready', q) <=> Contains(ready, q)
  <2>1. ready \in Seq(Procs) /\ NoDup(ready) /\ pri \in [Procs -> Int]
    BY DEF SemInv, SemKernel, SemTypes, SemReady
  <2>2. CASE pri' = pri /\ ready' = ready
    BY <2>1, <2>2
  <2>3. CASE UpdatePri(obj[p], origPri, inhList, inhPri)
    <3>1. ProcPri(obj[p], origPri, inhList, inhPri) \in Int
      BY <1>0, <1>1, ProcPriHighest DEF SemTypes
    <3>2. PICK f : f = pri'
      OBVIOUS
    <3>3. f \in [Procs -> Int]
      BY <2>1, <2>3, <3>1, <3>2 DEF UpdatePri
    <3>4. CASE ready' = ready
      BY <2>1, <3>2, <3>3, <3>4
    <3>5. CASE Contains(ready, obj[p]) /\ ready' = Enqueue(Unlink(ready, obj[p]), obj[p], f)
      BY <2>1, <3>2, <3>3, <3>5, RequeueMembers
    <3>6. ready' = ready \/ ready' = Enqueue(Unlink(ready, obj[p]), obj[p], f)
      BY <2>3, <3>2 DEF UpdatePri
    <3>7. ready' # ready => Contains(ready, obj[p])
      BY <2>3 DEF UpdatePri
    <3> QED
      BY <3>4, <3>5, <3>6, <3>7
  <2> QED
    BY <2>2, <2>3
<1>11. /\ pc' \in [Procs -> SemPlaces] /\ cont' \in [Procs -> SemReturns]
       /\ obj' \in [Procs -> Procs \cup {NoProc}] /\ pc'[p] \in {"inherit", "permit"}
       /\ pc'[p] = "inherit" => cont' = cont /\ obj'[p] \in Procs
       /\ pc'[p] = "permit" => cont'[p] = "obt_switch"
  <2>1. CASE CallCount(p, "permit", "obt_switch") /\ obj' = [obj EXCEPT ![p] = NoProc]
    BY <1>1, <2>1 DEF SemTypes, SemPlaces, SemReturns, SemLabels, CountLabels
  <2>2. CASE /\ blockedBy[obj[p]] # NoSem /\ obj' = [obj EXCEPT ![p] = owner[blockedBy[obj[p]]]]
             /\ UNCHANGED <<pc, cont>>
    <3>1. PICK s \in Sems : s = blockedBy[obj[p]]
      BY <1>0, <1>1, <2>2 DEF SemTypes
    <3>2. Contains(queue[s], obj[p]) /\ OwnerAt(s)
      BY <1>0, <3>1 DEF SemInv, SemCalls, QueueAt
    <3>3. owner[s] # NoProc
      BY <3>2, EmptyMembers DEF OwnerAt
    <3>4. owner[s] \in Procs
      BY <1>1, <3>3 DEF SemTypes
    <3>5. obj' \in [Procs -> Procs \cup {NoProc}] /\ obj'[p] \in Procs
      BY <1>1, <2>2, <3>1, <3>4 DEF SemTypes
    <3> QED
      BY <1>0, <1>1, <2>2, <3>5 DEF SemTypes
  <2> QED
    BY <2>1, <2>2
<1>4. SemTypes'
  <2>1. inhPri' \in [Procs -> Int]
    BY <1>0, <1>1, <1>10 DEF SemTypes
  <2>2. inhList' \in [Procs -> SUBSET Procs]
    <3>1. CASE inhList' = inhList
      BY <1>1, <3>1 DEF SemTypes
    <3>2. CASE inhList' = [q \in Procs |-> IF q = owner[blockedBy[obj[p]]]
                                            THEN inhList[q] \cup {obj[p]}
                                            ELSE inhList[q] \ {obj[p]}]
      <4> HIDE DEF Inherit
      <4> QED
        BY <1>0, <1>1, <3>2 DEF SemTypes
    <3> QED
      BY <3>1, <3>2
  <2>3. UNCHANGED <<current, cpu, idle, quantum, isr, zombies, preemptCount, reg, nest,
                    owner, queue, nestCount, origPri, blockedBy, arg, held>>
    OBVIOUS
  <2>4. /\ ready' \in Seq(Procs) /\ pri' \in [Procs -> Int]
        /\ pc' \in [Procs -> SemPlaces] /\ cont' \in [Procs -> SemReturns]
        /\ obj' \in [Procs -> Procs \cup {NoProc}]
    BY <1>10, <1>11
  <2> HIDE DEF Inherit
  <2> QED
    BY <1>1, <2>1, <2>2, <2>3, <2>4 DEF SemTypes
<1>5. SemSectionsAt(p)' /\ RegisterAt(p)' /\ CountIsNest'
  <2>1. /\ pc[p] = "inherit" /\ cpu' = cpu /\ ~idle' /\ UNCHANGED <<preemptCount, nest, reg>>
    BY <1>1
  <2>2. nest[p] = 1 /\ pc'[p] \in {"inherit", "permit"}
        /\ (pc'[p] = "permit" => cont'[p] = "obt_switch")
    BY <1>2, <1>11, <2>1 DEF SemSectionsAt, SemInside
  <2> HIDE DEF Inherit
  <2> QED
    BY <1>1, <1>2, <2>1, <2>2
       DEF SemSectionsAt, RegisterAt, CountIsNest, SemOutside, SemInside
<1>6. /\ Live(p)'
      /\ Leaving(p)' <=> Leaving(p)
      /\ Waking(p)' <=> Waking(p)
      /\ Towards(p, {"obt_done"})' <=> Towards(p, {"obt_done"})
  <2>1. pc[p] = "inherit"
    OBVIOUS
  <2> HIDE DEF Inherit
  <2> QED
    BY <1>11, <2>1 DEF Live, Dead, Leaving, Waking, Towards, CountLabels
<1>7. /\ Waking(p) => obj'[p] = obj[p]
      /\ Towards(p, {"obt_done"}) \/ Leaving(p) => arg'[p] = arg[p]
      /\ pc[p] # "rel_pass" /\ pc'[p] # "rel_pass"
  BY <1>1, <1>2
     DEF SemTypes, SemSectionsAt, Leaving, Waking, Towards, SemPlaces, SemReturns, SemLabels,
         CountLabels
<1>8. CallAt(p)'
  <2>1. arg' = arg /\ CallAt(p) /\ pc[p] = "inherit"
    BY <1>2
  <2> HIDE DEF Inherit
  <2>2. arg[p] \in Sems
    BY <2>1 DEF CallAt, Towards, SemLabels
  <2>3. \/ pc'[p] = "inherit" /\ obj'[p] \in Procs
        \/ pc'[p] = "permit" /\ cont'[p] = "obt_switch"
    BY <1>11
  <2> QED
    BY <2>1, <2>2, <2>3 DEF CallAt, Towards, SemLabels, CountLabels
<1>9. NoDup(ready') /\ \A q \in Procs : Contains(ready', q) <=> Contains(ready, q)
  BY <1>10
<1> QED
  BY <1>1, <1>3, <1>4, <1>5, <1>6, <1>7, <1>8, <1>9, PlainStep

\* proc_setPri() stores a priority.
LEMMA SetPriSem ==
  ASSUME SemInv, NEW p \in Procs, NEW q \in Procs, NEW v \in Prios, SetPriInh(p, q, v)
  PROVE  SemInv'
<1> USE DEF SetPriInh, At, Goto, CallCount, schedVars, countVars, semVars, inhVars
<1>1. p = cpu /\ ~idle /\ ~isr /\ SemTypes
  BY DEF SemInv, SemKernel
<1>2. /\ SemSectionsAt(p) /\ RegisterAt(p) /\ CountIsNest /\ CallAt(p) /\ WaitingAt(p)
      /\ ~Granted(p) /\ (Blocked(p) => Leaving(p))
  BY <1>1, SemInvAt
<1>3. /\ UNCHANGED <<current, cpu, idle, isr, owner, queue, nestCount, blockedBy, held>>
      /\ \A r \in Procs \ {p} : /\ pc'[r] = pc[r] /\ cont'[r] = cont[r] /\ reg'[r] = reg[r]
                               /\ nest'[r] = nest[r] /\ obj'[r] = obj[r] /\ arg'[r] = arg[r]
  <2>1. Domains
    BY <1>1, TypesDomains
  <2> QED
    BY <2>1 DEF Domains
<1>4. SemTypes'
  <2>1. PICK orig : orig = origPri'
    OBVIOUS
  <2>2. orig \in [Procs -> Int]
    BY <1>1, PriosAssumption, <2>1 DEF SemTypes
  <2>3. ProcPri(q, orig, inhList, inhPri) \in Int
    BY <1>1, <2>2, ProcPriHighest DEF SemTypes
  <2>4. pri' \in [Procs -> Int]
    BY <1>1, <2>1, <2>3 DEF SemTypes
  <2>5. pc' \in [Procs -> SemPlaces] /\ obj' \in [Procs -> Procs \cup {NoProc}]
    <3>1. CASE UNCHANGED <<pc, obj>>
      BY <1>1, <3>1 DEF SemTypes
    <3>2. CASE pc' = [pc EXCEPT ![p] = "reenqueue"] /\ obj' = [obj EXCEPT ![p] = q]
      <4> HIDE DEF SetPriInh
      <4> QED
        BY <1>1, <3>2 DEF SemTypes, SemPlaces
    <3> QED
      BY <3>1, <3>2
  <2>6. ready' \in Seq(Procs)
    BY <1>1 DEF SemTypes
  <2>7. UNCHANGED <<current, cpu, idle, isr, quantum, zombies, countVars, cont, semVars,
                    blockedBy, inhPri, inhList, arg, held>>
    OBVIOUS
  <2> HIDE DEF SetPriInh
  <2> QED
    BY <1>1, <2>1, <2>2, <2>4, <2>5, <2>6, <2>7 DEF SemTypes
<1>5. SemSectionsAt(p)' /\ RegisterAt(p)' /\ CountIsNest'
  BY <1>1, <1>2
     DEF SemTypes, SemSectionsAt, RegisterAt, CountIsNest, SemOutside, SemInside, SemPlaces,
         SemReturns, SemLabels, CountLabels
<1>6. /\ Live(p)'
      /\ Leaving(p)' <=> Leaving(p)
      /\ Waking(p)' <=> Waking(p)
      /\ Towards(p, {"obt_done"})' <=> Towards(p, {"obt_done"})
  BY <1>1, <1>2
     DEF SemTypes, SemSectionsAt, Live, Dead, Leaving, Waking, Towards, SemPlaces, SemReturns,
         SemLabels, CountLabels
<1>7. /\ Waking(p) => obj'[p] = obj[p]
      /\ Towards(p, {"obt_done"}) \/ Leaving(p) => arg'[p] = arg[p]
      /\ pc[p] # "rel_pass" /\ pc'[p] # "rel_pass"
  BY <1>1, <1>2
     DEF SemTypes, SemSectionsAt, Leaving, Waking, Towards, SemPlaces, SemReturns, SemLabels,
         CountLabels
<1>8. CallAt(p)'
  <2>1. pc'[p] \in {"user", "reenqueue"}
    BY <1>1 DEF SemTypes
  <2> HIDE DEF SetPriInh
  <2> QED
    BY <2>1 DEF CallAt, Towards, SemLabels, CountLabels
<1>9. NoDup(ready') /\ \A r \in Procs : Contains(ready', r) <=> Contains(ready, r)
  BY DEF SemInv, SemKernel, SemReady
<1> QED
  BY <1>1, <1>3, <1>4, <1>5, <1>6, <1>7, <1>8, <1>9, PlainStep

-----------------------------------------------------------------------------
(***************************************************************************)
(* The steps that change what a semaphore knows of its owner.              *)
(***************************************************************************)
LEMMA OwnStep ==
  ASSUME SemInv, SemTypes', NEW p \in Procs, p = cpu, ~idle, ~isr,
         UNCHANGED <<current, cpu, idle, isr, ready, queue, blockedBy>>,
         \A q \in Procs \ {p} : /\ pc'[q] = pc[q] /\ cont'[q] = cont[q] /\ reg'[q] = reg[q]
                               /\ nest'[q] = nest[q] /\ obj'[q] = obj[q] /\ arg'[q] = arg[q]
                               /\ held'[q] = held[q],
         SemSectionsAt(p)', RegisterAt(p)', CountIsNest', Live(p)',
         ~Leaving(p), ~Leaving(p)', ~Waking(p), ~Waking(p)',
         CallAt(p)', \A s \in Sems : OwnerAt(s)'
  PROVE  SemInv'
<1>1. WaitingAt(p) /\ ~Blocked(p) /\ blockedBy' = blockedBy
  BY SemInvAt
<1>2. SemKernel'
  <2>1. NoDup(ready') /\ \A q \in Procs : Contains(ready', q) <=> Contains(ready, q)
    BY DEF SemInv, SemKernel, SemReady
  <2> QED
    BY <1>1, <2>1, OwnKernel
<1>3. WaitingAt(p)'
  BY <1>1 DEF WaitingAt, Blocked
<1>4. SemCalls'
  BY <1>3, OwnCalls
<1> QED
  BY <1>2, <1>4 DEF SemInv

(***************************************************************************)
(* The other semaphores know what they knew.                               *)
(***************************************************************************)
LEMMA OtherOwners ==
  ASSUME SemInv, NEW p \in Procs, NEW s \in Sems, arg[p] = s,
         NEW t \in Sems, t # s,
         owner'[t] = owner[t], nestCount'[t] = nestCount[t],
         UNCHANGED <<queue, blockedBy>>,
         \A q \in Procs \ {p} : /\ pc'[q] = pc[q] /\ cont'[q] = cont[q]
                               /\ arg'[q] = arg[q] /\ held'[q] = held[q],
         arg'[p] \in {s, NoSem}, held'[p][t] = held[p][t]
  PROVE  OwnerAt(t)'
<1>1. OwnerAt(t) /\ arg'[p] # t /\ arg[p] # t
  BY SemsAssumption DEF SemInv, SemCalls
<1>2. \A q \in Procs : Taken(q, t)' <=> Taken(q, t)
  BY <1>1 DEF Taken, Towards, Blocked
<1>3. \A q \in Procs : Passing(q, t)' <=> Passing(q, t)
  BY <1>1 DEF Passing
<1> QED
  BY <1>1, <1>2, <1>3, OwnerKept

\* sem_obtain() takes a semaphore that is free, or the caller's.
LEMMA ObtTakeSem ==
  ASSUME SemInv, NEW p \in Procs, ObtTake(p)
  PROVE  SemInv'
<1> USE DEF ObtTake, At, Goto, CallCount, schedVars, countVars, semVars, inhVars
<1>1. p = cpu /\ ~idle /\ ~isr /\ SemTypes
  BY DEF SemInv, SemKernel
<1>2. /\ SemSectionsAt(p) /\ RegisterAt(p) /\ CountIsNest /\ CallAt(p) /\ WaitingAt(p)
      /\ ~Granted(p) /\ (Blocked(p) => Leaving(p))
  BY <1>1, SemInvAt
<1>3. /\ UNCHANGED <<current, cpu, idle, isr, ready, queue, blockedBy>>
      /\ \A q \in Procs \ {p} : /\ pc'[q] = pc[q] /\ cont'[q] = cont[q] /\ reg'[q] = reg[q]
                               /\ nest'[q] = nest[q] /\ obj'[q] = obj[q] /\ arg'[q] = arg[q]
                               /\ held'[q] = held[q]
  <2>1. Domains
    BY <1>1, TypesDomains
  <2> QED
    BY <2>1 DEF Domains
<1>4. PICK s \in Sems : arg[p] = s
  BY <1>2 DEF CallAt, Towards, SemLabels
<1>5. SemTypes'
  <2>1. pc' \in [Procs -> SemPlaces] /\ cont' \in [Procs -> SemReturns]
    BY <1>1 DEF SemTypes, SemPlaces, SemReturns, SemLabels, CountLabels
  <2>2. owner' \in [Sems -> Procs \cup {NoProc}] /\ nestCount' \in [Sems -> Nat]
    <3>1. owner' = [owner EXCEPT ![s] = p] /\ nestCount' = [nestCount EXCEPT ![s] = @ + 1]
      BY <1>4
    <3>2. nestCount[s] + 1 \in Nat
      <4> HIDE DEF ObtTake, At, Goto, CallCount, schedVars, countVars, semVars, inhVars
      <4>1. nestCount[s] \in Nat
        BY <1>1 DEF SemTypes
      <4> QED
        BY <4>1
    <3> HIDE DEF ObtTake
    <3> QED
      BY <1>1, <3>1, <3>2 DEF SemTypes
  <2>3. UNCHANGED <<schedVars, isr, zombies, pri, countVars, obj, queue, inhVars, arg, held>>
    OBVIOUS
  <2> HIDE DEF ObtTake
  <2> QED
    BY <1>1, <2>1, <2>2, <2>3 DEF SemTypes
<1>6. /\ ~Leaving(p) /\ ~Leaving(p)' /\ ~Waking(p) /\ ~Waking(p)' /\ Live(p)'
  BY <1>1, <1>2
     DEF SemTypes, SemSectionsAt, Leaving, Waking, Towards, Live, Dead, SemPlaces, SemReturns,
         SemLabels, CountLabels
<1>7. SemSectionsAt(p)' /\ RegisterAt(p)' /\ CountIsNest'
  BY <1>1, <1>2
     DEF SemTypes, SemSectionsAt, RegisterAt, CountIsNest, SemOutside, SemInside, SemPlaces,
         SemReturns, SemLabels, CountLabels
<1>8. CallAt(p)'
  BY <1>1, <1>2, <1>4 DEF SemTypes, CallAt, Towards, SemLabels, CountLabels
<1>9. ~Blocked(p) /\ OwnerAt(s)
  BY <1>2, <1>6 DEF SemInv, SemCalls
<1>10. OwnerAt(s)'
  <2>1. \A q \in Procs \ {p} : /\ held'[q][s] = held[q][s]
                               /\ Taken(q, s)' <=> Taken(q, s)
                               /\ Passing(q, s)' <=> Passing(q, s)
    BY <1>3 DEF Taken, Passing, Towards, Blocked
  <2>2. /\ owner[s] \in {NoProc, p} /\ owner'[s] = p /\ nestCount'[s] = nestCount[s] + 1
        /\ held'[p][s] = held[p][s] /\ held[p][s] \in Nat /\ nestCount[s] \in Nat
        /\ queue'[s] = queue[s] /\ blockedBy'[p] # s
    BY <1>1, <1>2, <1>4, <1>9, SemsAssumption DEF SemTypes, CallAt, Blocked
  <2>3. ~Taken(p, s) /\ Taken(p, s)' /\ ~Passing(p, s) /\ ~Passing(p, s)'
    BY <1>1, <1>4, <1>9 DEF SemTypes, Taken, Passing, Towards, Blocked, CountLabels
  <2>4. nestCount[s] = held[p][s]
    BY <1>9, <2>2, <2>3, ProcsAssumption DEF OwnerAt
  <2>5. \A q \in Procs \ {p} : ~(held[q][s] > 0 \/ Taken(q, s) \/ Passing(q, s))
    BY <1>9, <2>2, ProcsAssumption DEF OwnerAt
  <2> HIDE DEF ObtTake
  <2> QED
    BY <2>1, <2>2, <2>3, <2>4, <2>5, ProcsAssumption DEF OwnerAt
<1>11. ASSUME NEW t \in Sems, t # s PROVE OwnerAt(t)'
  <2>1. owner'[t] = owner[t] /\ nestCount'[t] = nestCount[t] /\ held'[p][t] = held[p][t]
    BY <1>1, <1>4, <1>11 DEF SemTypes
  <2>2. arg'[p] \in {s, NoSem}
    BY <1>1, <1>4 DEF SemTypes
  <2> QED
    BY <1>3, <1>4, <1>11, <2>1, <2>2, OtherOwners
<1> QED
  BY <1>1, <1>3, <1>5, <1>6, <1>7, <1>8, <1>10, <1>11, OwnStep

\* sem_attempt() does.
LEMMA AttTakeSem ==
  ASSUME SemInv, NEW p \in Procs, AttTake(p)
  PROVE  SemInv'
<1> USE DEF AttTake, At, Goto, CallCount, schedVars, countVars, semVars, inhVars
<1>1. p = cpu /\ ~idle /\ ~isr /\ SemTypes
  BY DEF SemInv, SemKernel
<1>2. /\ SemSectionsAt(p) /\ RegisterAt(p) /\ CountIsNest /\ CallAt(p) /\ WaitingAt(p)
      /\ ~Granted(p) /\ (Blocked(p) => Leaving(p))
  BY <1>1, SemInvAt
<1>3. /\ UNCHANGED <<current, cpu, idle, isr, ready, queue, blockedBy>>
      /\ \A q \in Procs \ {p} : /\ pc'[q] = pc[q] /\ cont'[q] = cont[q] /\ reg'[q] = reg[q]
                               /\ nest'[q] = nest[q] /\ obj'[q] = obj[q] /\ arg'[q] = arg[q]
                               /\ held'[q] = held[q]
  <2>1. Domains
    BY <1>1, TypesDomains
  <2> QED
    BY <2>1 DEF Domains
<1>4. PICK s \in Sems : arg[p] = s
  BY <1>2 DEF CallAt, Towards, SemLabels
<1>5. SemTypes'
  <2>1. pc' \in [Procs -> SemPlaces] /\ cont' \in [Procs -> SemReturns]
    BY <1>1 DEF SemTypes, SemPlaces, SemReturns, SemLabels, CountLabels
  <2>2. owner' \in [Sems -> Procs \cup {NoProc}] /\ nestCount' \in [Sems -> Nat]
    <3>1. owner' = [owner EXCEPT ![s] = p] /\ nestCount' = [nestCount EXCEPT ![s] = @ + 1]
      BY <1>4
    <3>2. nestCount[s] + 1 \in Nat
      BY <1>1 DEF SemTypes
    <3> HIDE DEF AttTake
    <3> QED
      BY <1>1, <3>1, <3>2 DEF SemTypes
  <2>3. UNCHANGED <<schedVars, isr, zombies, pri, countVars, obj, queue, inhVars, arg, held>>
    OBVIOUS
  <2> HIDE DEF AttTake
  <2> QED
    BY <1>1, <2>1, <2>2, <2>3 DEF SemTypes
<1>6. /\ ~Leaving(p) /\ ~Leaving(p)' /\ ~Waking(p) /\ ~Waking(p)' /\ Live(p)'
  BY <1>1, <1>2
     DEF SemTypes, SemSectionsAt, Leaving, Waking, Towards, Live, Dead, SemPlaces, SemReturns,
         SemLabels, CountLabels
<1>7. SemSectionsAt(p)' /\ RegisterAt(p)' /\ CountIsNest'
  BY <1>1, <1>2
     DEF SemTypes, SemSectionsAt, RegisterAt, CountIsNest, SemOutside, SemInside, SemPlaces,
         SemReturns, SemLabels, CountLabels
<1>8. CallAt(p)'
  BY <1>1, <1>2, <1>4 DEF SemTypes, CallAt, Towards, SemLabels, CountLabels
<1>9. ~Blocked(p) /\ OwnerAt(s)
  BY <1>2, <1>6 DEF SemInv, SemCalls
<1>10. OwnerAt(s)'
  <2>1. \A q \in Procs \ {p} : /\ held'[q][s] = held[q][s]
                               /\ Taken(q, s)' <=> Taken(q, s)
                               /\ Passing(q, s)' <=> Passing(q, s)
    BY <1>3 DEF Taken, Passing, Towards, Blocked
  <2>2. /\ owner[s] \in {NoProc, p} /\ owner'[s] = p /\ nestCount'[s] = nestCount[s] + 1
        /\ held'[p][s] = held[p][s] /\ held[p][s] \in Nat /\ nestCount[s] \in Nat
        /\ queue'[s] = queue[s] /\ blockedBy'[p] # s
    BY <1>1, <1>2, <1>4, <1>9, SemsAssumption DEF SemTypes, CallAt, Blocked
  <2>3. ~Taken(p, s) /\ Taken(p, s)' /\ ~Passing(p, s) /\ ~Passing(p, s)'
    BY <1>1, <1>4, <1>9 DEF SemTypes, Taken, Passing, Towards, Blocked, CountLabels
  <2>4. nestCount[s] = held[p][s]
    BY <1>9, <2>2, <2>3, ProcsAssumption DEF OwnerAt
  <2>5. \A q \in Procs \ {p} : ~(held[q][s] > 0 \/ Taken(q, s) \/ Passing(q, s))
    BY <1>9, <2>2, ProcsAssumption DEF OwnerAt
  <2> HIDE DEF AttTake
  <2> QED
    BY <2>1, <2>2, <2>3, <2>4, <2>5, ProcsAssumption DEF OwnerAt
<1>11. ASSUME NEW t \in Sems, t # s PROVE OwnerAt(t)'
  <2>1. owner'[t] = owner[t] /\ nestCount'[t] = nestCount[t] /\ held'[p][t] = held[p][t]
    BY <1>1, <1>4, <1>11 DEF SemTypes
  <2>2. arg'[p] \in {s, NoSem}
    BY <1>1, <1>4 DEF SemTypes
  <2> QED
    BY <1>3, <1>4, <1>11, <2>1, <2>2, OtherOwners
<1> QED
  BY <1>1, <1>3, <1>5, <1>6, <1>7, <1>8, <1>10, <1>11, OwnStep

\* sem_obtain() or sem_attempt() returns: the semaphore is the caller's.
LEMMA ObtDoneSem ==
  ASSUME SemInv, NEW p \in Procs, ObtDone(p)
  PROVE  SemInv'
<1> USE DEF ObtDone, At, Goto, CallCount, schedVars, countVars, semVars, inhVars
<1>1. p = cpu /\ ~idle /\ ~isr /\ SemTypes
  BY DEF SemInv, SemKernel
<1>2. /\ SemSectionsAt(p) /\ RegisterAt(p) /\ CountIsNest /\ CallAt(p) /\ WaitingAt(p)
      /\ ~Granted(p) /\ (Blocked(p) => Leaving(p))
  BY <1>1, SemInvAt
<1>3. /\ UNCHANGED <<current, cpu, idle, isr, ready, queue, blockedBy>>
      /\ \A q \in Procs \ {p} : /\ pc'[q] = pc[q] /\ cont'[q] = cont[q] /\ reg'[q] = reg[q]
                               /\ nest'[q] = nest[q] /\ obj'[q] = obj[q] /\ arg'[q] = arg[q]
                               /\ held'[q] = held[q]
  <2>1. Domains
    BY <1>1, TypesDomains
  <2> QED
    BY <2>1 DEF Domains
<1>4. PICK s \in Sems : arg[p] = s
  BY <1>2 DEF CallAt, Towards, SemLabels
<1>5. SemTypes'
  <2>1. pc' \in [Procs -> SemPlaces] /\ cont' \in [Procs -> SemReturns]
    BY <1>1 DEF SemTypes, SemPlaces, SemReturns, SemLabels, CountLabels
  <2>2. arg' \in [Procs -> Sems \cup {NoSem}]
    BY <1>1, <1>4 DEF SemTypes
  <2>3. held' = [held EXCEPT ![p][s] = held[p][s] + 1]
    BY <1>4
  <2>4. held[p] \in [Sems -> Nat] /\ held[p][s] + 1 \in Nat
    BY <1>1 DEF SemTypes
  <2>5. held' \in [Procs -> [Sems -> Nat]]
    <3> HIDE DEF ObtDone
    <3> QED
      BY <1>1, <2>3, <2>4 DEF SemTypes
  <2> QED
    BY <1>1, <2>1, <2>2, <2>5 DEF SemTypes
<1>6. /\ ~Leaving(p) /\ ~Leaving(p)' /\ ~Waking(p) /\ ~Waking(p)' /\ Live(p)'
  BY <1>1, <1>2
     DEF SemTypes, SemSectionsAt, Leaving, Waking, Towards, Live, Dead, SemPlaces, SemReturns,
         SemLabels, CountLabels
<1>7. SemSectionsAt(p)' /\ RegisterAt(p)' /\ CountIsNest'
  BY <1>1, <1>2
     DEF SemTypes, SemSectionsAt, RegisterAt, CountIsNest, SemOutside, SemInside, SemPlaces,
         SemReturns, SemLabels, CountLabels
<1>8. CallAt(p)'
  BY <1>1, <1>2, <1>4 DEF SemTypes, CallAt, Towards, SemLabels, CountLabels
<1>9. ~Blocked(p) /\ OwnerAt(s)
  BY <1>2, <1>6 DEF SemInv, SemCalls
<1>10. OwnerAt(s)'
  <2>1. \A q \in Procs \ {p} : /\ held'[q][s] = held[q][s]
                               /\ Taken(q, s)' <=> Taken(q, s)
                               /\ Passing(q, s)' <=> Passing(q, s)
    BY <1>3 DEF Taken, Passing, Towards, Blocked
  <2>2. /\ owner'[s] = owner[s] /\ nestCount'[s] = nestCount[s]
        /\ held'[p][s] = held[p][s] + 1 /\ held[p][s] \in Nat /\ nestCount[s] \in Nat
        /\ queue'[s] = queue[s] /\ blockedBy'[p] # s
    BY <1>1, <1>2, <1>4, <1>9, SemsAssumption DEF SemTypes, Blocked
  <2>3. Taken(p, s) /\ ~Taken(p, s)' /\ ~Passing(p, s) /\ ~Passing(p, s)'
    BY <1>1, <1>4, <1>9 DEF SemTypes, Taken, Passing, Towards, Blocked, CountLabels
  <2>4. owner[s] = p /\ nestCount[s] = held[p][s] + 1
    BY <1>9, <2>3 DEF OwnerAt
  <2>5. \A q \in Procs \ {p} : ~(held[q][s] > 0 \/ Taken(q, s) \/ Passing(q, s))
    BY <1>9, <2>4, ProcsAssumption DEF OwnerAt
  <2> HIDE DEF ObtDone
  <2> QED
    BY <2>1, <2>2, <2>3, <2>4, <2>5, ProcsAssumption DEF OwnerAt
<1>11. ASSUME NEW t \in Sems, t # s PROVE OwnerAt(t)'
  <2>1. owner'[t] = owner[t] /\ nestCount'[t] = nestCount[t] /\ held'[p][t] = held[p][t]
    BY <1>1, <1>4, <1>11 DEF SemTypes
  <2>2. arg'[p] \in {s, NoSem}
    BY <1>1, <1>4 DEF SemTypes
  <2> QED
    BY <1>3, <1>4, <1>11, <2>1, <2>2, OtherOwners
<1> QED
  BY <1>1, <1>3, <1>5, <1>6, <1>7, <1>8, <1>10, <1>11, OwnStep

\* sem_release() counts down.
LEMMA RelDecSem ==
  ASSUME SemInv, NEW p \in Procs, RelDec(p)
  PROVE  SemInv'
<1> USE DEF RelDec, At, Goto, CallCount, schedVars, countVars, semVars, inhVars
<1>1. p = cpu /\ ~idle /\ ~isr /\ SemTypes
  BY DEF SemInv, SemKernel
<1>2. /\ SemSectionsAt(p) /\ RegisterAt(p) /\ CountIsNest /\ CallAt(p) /\ WaitingAt(p)
      /\ ~Granted(p) /\ (Blocked(p) => Leaving(p))
  BY <1>1, SemInvAt
<1>3. /\ UNCHANGED <<current, cpu, idle, isr, ready, queue, blockedBy>>
      /\ \A q \in Procs \ {p} : /\ pc'[q] = pc[q] /\ cont'[q] = cont[q] /\ reg'[q] = reg[q]
                               /\ nest'[q] = nest[q] /\ obj'[q] = obj[q] /\ arg'[q] = arg[q]
                               /\ held'[q] = held[q]
  <2>1. Domains
    BY <1>1, TypesDomains
  <2> QED
    BY <2>1 DEF Domains
<1>4. PICK s \in Sems : arg[p] = s
  BY <1>2 DEF CallAt, Towards, SemLabels
<1>12. owner[s] = p /\ nestCount[s] = held[p][s] /\ held[p][s] > 0
  <2>1. held[p][s] > 0 /\ ~Taken(p, s) /\ OwnerAt(s)
    BY <1>2, <1>4 DEF CallAt, Taken, Towards, CountLabels, SemInv, SemCalls
  <2>2. held[p][s] \in Nat /\ nestCount[s] \in Nat
    BY <1>1 DEF SemTypes
  <2> QED
    BY <2>1, <2>2 DEF OwnerAt
<1>13. /\ nestCount[s] - 1 \in Nat /\ held[p][s] - 1 \in Nat
       /\ nestCount' = [nestCount EXCEPT ![s] = nestCount[s] - 1]
       /\ held' = [held EXCEPT ![p][s] = held[p][s] - 1]
       /\ \/ /\ nestCount[s] - 1 = 0 /\ UNCHANGED <<cont, arg>>
             /\ pc' = [pc EXCEPT ![p] = "rel_pass"]
          \/ /\ nestCount[s] - 1 # 0 /\ arg' = [arg EXCEPT ![p] = NoSem]
             /\ pc' = [pc EXCEPT ![p] = "permit"] /\ cont' = [cont EXCEPT ![p] = "user"]
  <2>1. held[p][s] \in Nat /\ nestCount[s] \in Nat
    BY <1>1 DEF SemTypes
  <2> QED
    BY <1>4, <1>12, <2>1
<1>5. SemTypes'
  <2>0. UNCHANGED <<current, cpu, idle, ready, quantum, isr, zombies, pri, countVars, obj,
                    owner, queue, inhVars>>
    OBVIOUS
  <2> HIDE DEF RelDec
  <2>1. pc' \in [Procs -> SemPlaces] /\ cont' \in [Procs -> SemReturns]
    <3>1. CASE pc' = [pc EXCEPT ![p] = "rel_pass"] /\ cont' = cont
      BY <1>1, <3>1 DEF SemTypes, SemPlaces, SemReturns, SemLabels, CountLabels
    <3>2. CASE pc' = [pc EXCEPT ![p] = "permit"] /\ cont' = [cont EXCEPT ![p] = "user"]
      BY <1>1, <3>2 DEF SemTypes, SemPlaces, SemReturns, SemLabels, CountLabels
    <3> QED
      BY <1>13, <3>1, <3>2
  <2>2. nestCount' \in [Sems -> Nat] /\ arg' \in [Procs -> Sems \cup {NoSem}]
    BY <1>1, <1>13 DEF SemTypes
  <2>3. held' \in [Procs -> [Sems -> Nat]]
    BY <1>1, <1>13 DEF SemTypes
  <2> QED
    BY <1>1, <2>0, <2>1, <2>2, <2>3 DEF SemTypes
<1>6. /\ ~Leaving(p) /\ ~Leaving(p)' /\ ~Waking(p) /\ ~Waking(p)' /\ Live(p)'
  BY <1>1, <1>2
     DEF SemTypes, SemSectionsAt, Leaving, Waking, Towards, Live, Dead, SemPlaces, SemReturns,
         SemLabels, CountLabels
<1>7. SemSectionsAt(p)' /\ RegisterAt(p)' /\ CountIsNest'
  BY <1>1, <1>2
     DEF SemTypes, SemSectionsAt, RegisterAt, CountIsNest, SemOutside, SemInside, SemPlaces,
         SemReturns, SemLabels, CountLabels
<1>8. CallAt(p)'
  <2>1. pc' = [pc EXCEPT ![p] = pc'[p]] /\ pc'[p] \in {"rel_pass", "permit"}
    BY <1>1, <1>13 DEF SemTypes
  <2>2. pc'[p] = "rel_pass" => arg'[p] \in Sems
    BY <1>1, <1>4, <1>13 DEF SemTypes
  <2>3. pc'[p] = "permit" => cont'[p] = "user"
    BY <1>1, <1>13 DEF SemTypes
  <2> HIDE DEF RelDec
  <2> QED
    BY <2>1, <2>2, <2>3 DEF CallAt, Towards, SemLabels, CountLabels
<1>9. ~Blocked(p) /\ OwnerAt(s)
  BY <1>2, <1>6 DEF SemInv, SemCalls
<1>10. OwnerAt(s)'
  <2>1. \A q \in Procs \ {p} : /\ held'[q][s] = held[q][s]
                               /\ Taken(q, s)' <=> Taken(q, s)
                               /\ Passing(q, s)' <=> Passing(q, s)
    BY <1>3 DEF Taken, Passing, Towards, Blocked
  <2>2. /\ owner'[s] = p /\ nestCount'[s] = nestCount[s] - 1
        /\ held'[p][s] = held[p][s] - 1 /\ held[p][s] \in Nat /\ nestCount[s] \in Nat
        /\ queue'[s] = queue[s] /\ blockedBy'[p] # s
    BY <1>1, <1>2, <1>4, <1>9, <1>12, <1>13, SemsAssumption DEF SemTypes, Blocked
  <2>3. ~Taken(p, s) /\ ~Taken(p, s)' /\ ~Passing(p, s)
    BY <1>1, <1>4, <1>9 DEF SemTypes, Taken, Passing, Towards, Blocked, CountLabels
  <2>4. nestCount'[s] = 0 <=> Passing(p, s)'
    BY <1>1, <1>4, <1>13, <2>2 DEF SemTypes, Passing
  <2>5. \A q \in Procs \ {p} : ~(held[q][s] > 0 \/ Taken(q, s) \/ Passing(q, s))
    BY <1>9, <1>12, ProcsAssumption DEF OwnerAt
  <2> HIDE DEF RelDec
  <2> QED
    BY <1>12, <2>1, <2>2, <2>3, <2>4, <2>5, ProcsAssumption DEF OwnerAt
<1>11. ASSUME NEW t \in Sems, t # s PROVE OwnerAt(t)'
  <2>1. owner'[t] = owner[t] /\ nestCount'[t] = nestCount[t] /\ held'[p][t] = held[p][t]
    BY <1>1, <1>4, <1>11 DEF SemTypes
  <2>2. arg'[p] \in {s, NoSem}
    BY <1>1, <1>4 DEF SemTypes
  <2> QED
    BY <1>3, <1>4, <1>11, <2>1, <2>2, OtherOwners
<1> QED
  BY <1>1, <1>3, <1>5, <1>6, <1>7, <1>8, <1>10, <1>11, OwnStep

\* sem_release() disowns a semaphore nobody waits for.
LEMMA RelFreeSem ==
  ASSUME SemInv, NEW p \in Procs, RelFree(p)
  PROVE  SemInv'
<1> USE DEF RelFree, At, Goto, CallCount, schedVars, countVars, semVars, inhVars
<1>1. p = cpu /\ ~idle /\ ~isr /\ SemTypes
  BY DEF SemInv, SemKernel
<1>2. /\ SemSectionsAt(p) /\ RegisterAt(p) /\ CountIsNest /\ CallAt(p) /\ WaitingAt(p)
      /\ ~Granted(p) /\ (Blocked(p) => Leaving(p))
  BY <1>1, SemInvAt
<1>3. /\ UNCHANGED <<current, cpu, idle, isr, ready, queue, blockedBy>>
      /\ \A q \in Procs \ {p} : /\ pc'[q] = pc[q] /\ cont'[q] = cont[q] /\ reg'[q] = reg[q]
                               /\ nest'[q] = nest[q] /\ obj'[q] = obj[q] /\ arg'[q] = arg[q]
                               /\ held'[q] = held[q]
  <2>1. Domains
    BY <1>1, TypesDomains
  <2> QED
    BY <2>1 DEF Domains
<1>4. PICK s \in Sems : arg[p] = s
  BY <1>2 DEF CallAt, Towards, SemLabels
<1>5. SemTypes'
  <2>1. pc' \in [Procs -> SemPlaces] /\ cont' \in [Procs -> SemReturns]
    BY <1>1 DEF SemTypes, SemPlaces, SemReturns, SemLabels, CountLabels
  <2>2. /\ owner' \in [Sems -> Procs \cup {NoProc}] /\ nestCount' \in [Sems -> Nat]
        /\ arg' \in [Procs -> Sems \cup {NoSem}]
        /\ held' \in [Procs -> [Sems -> Nat]]
    BY <1>1, <1>2, <1>4 DEF SemTypes
  <2> QED
    BY <1>1, <2>1, <2>2 DEF SemTypes
<1>6. /\ ~Leaving(p) /\ ~Leaving(p)' /\ ~Waking(p) /\ ~Waking(p)' /\ Live(p)'
  BY <1>1, <1>2
     DEF SemTypes, SemSectionsAt, Leaving, Waking, Towards, Live, Dead, SemPlaces, SemReturns,
         SemLabels, CountLabels
<1>7. SemSectionsAt(p)' /\ RegisterAt(p)' /\ CountIsNest'
  BY <1>1, <1>2
     DEF SemTypes, SemSectionsAt, RegisterAt, CountIsNest, SemOutside, SemInside, SemPlaces,
         SemReturns, SemLabels, CountLabels
<1>8. CallAt(p)'
  BY <1>1, <1>2, <1>4 DEF SemTypes, CallAt, Towards, SemLabels, CountLabels
<1>9. ~Blocked(p) /\ OwnerAt(s)
  BY <1>2, <1>6 DEF SemInv, SemCalls
<1>10. OwnerAt(s)'
  <2>1. \A q \in Procs \ {p} : /\ held'[q][s] = held[q][s]
                               /\ Taken(q, s)' <=> Taken(q, s)
                               /\ Passing(q, s)' <=> Passing(q, s)
    BY <1>3 DEF Taken, Passing, Towards, Blocked
  <2>2. /\ owner'[s] = NoProc /\ nestCount'[s] = nestCount[s]
        /\ held'[p][s] = held[p][s] /\ held[p][s] \in Nat /\ nestCount[s] \in Nat
        /\ queue'[s] = <<>>
    BY <1>1, <1>2, <1>4 DEF SemTypes
  <2>3. ~Taken(p, s) /\ ~Taken(p, s)' /\ Passing(p, s) /\ ~Passing(p, s)'
    BY <1>1, <1>4, <1>9 DEF SemTypes, Taken, Passing, Towards, Blocked, CountLabels
  <2>4. owner[s] = p /\ nestCount[s] = 0 /\ held[p][s] = 0
    BY <1>9, <2>2, <2>3 DEF OwnerAt
  <2>5. \A q \in Procs \ {p} : ~(held[q][s] > 0 \/ Taken(q, s) \/ Passing(q, s))
    BY <1>9, <2>4, ProcsAssumption DEF OwnerAt
  <2> HIDE DEF RelFree
  <2> QED
    BY <2>1, <2>2, <2>3, <2>4, <2>5, ProcsAssumption DEF OwnerAt
<1>11. ASSUME NEW t \in Sems, t # s PROVE OwnerAt(t)'
  <2>1. owner'[t] = owner[t] /\ nestCount'[t] = nestCount[t] /\ held'[p][t] = held[p][t]
    BY <1>1, <1>4, <1>11 DEF SemTypes
  <2>2. arg'[p] \in {s, NoSem}
    BY <1>1, <1>4 DEF SemTypes
  <2> QED
    BY <1>3, <1>4, <1>11, <2>1, <2>2, OtherOwners
<1> QED
  BY <1>1, <1>3, <1>5, <1>6, <1>7, <1>8, <1>10, <1>11, OwnStep

-----------------------------------------------------------------------------
(***************************************************************************)
(* The steps that switch the CPU, or serve an interrupt.                   *)
(***************************************************************************)

\* What the calls know depends on their variables only.
LEMMA CallsSame ==
  ASSUME SemInv,
         UNCHANGED <<pc, cont, obj, arg, held, owner, queue, nestCount, blockedBy>>
  PROVE  SemCalls'
<1>1. \A p \in Procs : (WaitingAt(p) /\ GrantAt(p) /\ CallAt(p))'
  <2> SUFFICES ASSUME NEW p \in Procs PROVE (WaitingAt(p) /\ GrantAt(p) /\ CallAt(p))'
    OBVIOUS
  <2>1. WaitingAt(p) /\ GrantAt(p) /\ CallAt(p)
    BY DEF SemInv, SemCalls
  <2> QED
    BY <2>1 DEF WaitingAt, GrantAt, CallAt, Blocked, Leaving, Waking, Towards
<1>2. \A s \in Sems : (QueueAt(s) /\ OwnerAt(s))'
  <2> SUFFICES ASSUME NEW s \in Sems PROVE (QueueAt(s) /\ OwnerAt(s))'
    OBVIOUS
  <2>1. QueueAt(s) /\ OwnerAt(s)
    BY DEF SemInv, SemCalls
  <2>2. QueueAt(s)'
    BY <2>1 DEF QueueAt
  <2>3. \A q \in Procs : (Taken(q, s)' <=> Taken(q, s)) /\ (Passing(q, s)' <=> Passing(q, s))
    BY DEF Taken, Passing, Towards, Blocked
  <2> QED
    BY <2>1, <2>2, <2>3, OwnerKept
<1> QED
  BY <1>1, <1>2 DEF SemCalls

\* An interrupt that changes no process.
LEMMA KernelSame ==
  ASSUME SemInv,
         UNCHANGED <<current, cpu, idle, ready, zombies, pri, countVars, pc, cont, obj,
                     semVars, inhVars, arg, held>>,
         isr' \in BOOLEAN, quantum' \in 0..Quantum, WindowClosed'
  PROVE  SemInv'
<1> USE DEF countVars, semVars, inhVars
<1>1. SemCalls'
  BY CallsSame
<1>2. SemTypes'
  BY DEF SemInv, SemKernel, SemTypes
<1>3. \A p \in Procs : (SemSectionsAt(p) /\ RegisterAt(p))'
  BY DEF SemInv, SemKernel, SemSectionsAt, RegisterAt
<1>4. CountIsNest' /\ OthersOutside'
  BY DEF SemInv, SemKernel, CountIsNest, OthersOutside
<1>5. \A p : /\ Live(p)' = Live(p) /\ Blocked(p)' = Blocked(p) /\ Leaving(p)' = Leaving(p)
             /\ Granted(p)' = Granted(p)
  BY DEF Live, Blocked, Leaving, Granted, Waking, Towards
<1>6. SemRunning'
  BY <1>5 DEF SemInv, SemKernel, SemRunning
<1>7. SemReady'
  BY <1>5 DEF SemInv, SemKernel, SemReady
<1> QED
  BY <1>1, <1>2, <1>3, <1>4, <1>6, <1>7 DEF SemInv, SemKernel

\* No interrupt is served between the proc_permit() and the proc_switch() of
\* sem_obtain(), or none preempts.
LEMMA TickSem ==
  ASSUME SemInv, ~(Preempt /\ WindowIrq), SemTick
  PROVE  SemInv'
<1>1. /\ Tick /\ UNCHANGED <<semVars, inhVars, arg, held>>
      /\ WindowIrq \/ idle \/ pc[cpu] # "obt_switch"
  BY DEF SemTick
<1>2. /\ isr' = TRUE /\ quantum' = IF Preempt /\ quantum > 0 THEN quantum - 1 ELSE quantum
      /\ UNCHANGED <<current, cpu, idle, ready, zombies, pri, countVars, pc, cont, obj>>
  BY <1>1 DEF Tick
<1>3. quantum' \in 0..Quantum
  BY <1>2, QuantumAssumption DEF SemInv, SemKernel, SemTypes
<1>4. WindowClosed'
  BY <1>1, <1>2 DEF WindowClosed
<1> QED
  BY <1>1, <1>2, <1>3, <1>4, KernelSame

\* Those who are not to be listed.
LEMMA ReadyOrAway ==
  ASSUME SemInv, NEW p \in Procs, p = cpu, ~idle
  PROVE  /\ ready \in Seq(Procs) /\ NoDup(ready) /\ ~Contains(ready, p)
         /\ pri \in [Procs -> Int]
         /\ \A q \in Procs : Contains(ready, q) <=>
              Live(q) /\ q \notin {r \in Procs : Blocked(r) \/ Granted(r)} /\ q # p
BY DEF SemInv, SemKernel, SemTypes, SemReady

\* A preemption at the end of an interrupt finds no section open, and nobody
\* on the way to the wait queue.
LEMMA IsrExitSem ==
  ASSUME SemInv, SemIsrExit
  PROVE  SemInv'
<1>1. /\ isr /\ isr' = FALSE
      /\ UNCHANGED <<zombies, pri, countVars, pc, cont, obj>>
      /\ UNCHANGED <<semVars, inhVars, arg, held>>
  BY DEF SemIsrExit, IsrExit
<1>2. CASE ~(Preempt /\ NeedPreempt)
  <2>1. UNCHANGED <<current, cpu, idle, ready, quantum>>
    BY <1>2 DEF SemIsrExit, IsrExit, schedVars
  <2>2. quantum' \in 0..Quantum /\ WindowClosed'
    BY <1>1, <2>1 DEF SemInv, SemKernel, SemTypes, WindowClosed
  <2> QED
    BY <1>1, <2>1, <2>2, KernelSame
<1>3. CASE Preempt /\ NeedPreempt
  <2> DEFINE Away == {r \in Procs : Blocked(r) \/ Granted(r)}
             list == Enqueue(ready, current, pri)
  <2>1. quantum' = Quantum /\ Schedule(list) /\ current # NoProc /\ preemptCount = 0
    BY <1>3 DEF SemIsrExit, IsrExit, PreemptCurrent, NeedPreempt, PreemptAllowed
  <2>2. current = cpu /\ cpu \in Procs /\ ~idle /\ nest[cpu] = 0 /\ Live(cpu) /\ SemTypes
    BY <1>3, <2>1 DEF SemInv, SemKernel, SemTypes, SemRunning, CountIsNest
  <2>3. PICK p \in Procs : p = cpu
    BY <2>2
  <2>4. /\ SemSectionsAt(p) /\ RegisterAt(p) /\ ~Granted(p) /\ (Blocked(p) => Leaving(p))
    BY <2>2, <2>3, SemInvAt
  <2>5. ~Leaving(p) /\ ~Blocked(p)
    <3>1. pc[p] # "obt_switch"
      BY <1>1, <1>3, <2>2, <2>3 DEF SemInv, SemKernel, WindowClosed
    <3>2. ~Leaving(p)
      BY <2>2, <2>3, <2>4, <3>1 DEF SemSectionsAt, Leaving, Towards, CountLabels, SemInside
    <3> QED
      BY <2>4, <3>2
  <2>6. /\ ready \in Seq(Procs) /\ NoDup(ready) /\ ~Contains(ready, p) /\ pri \in [Procs -> Int]
        /\ \A q \in Procs : Contains(ready, q) <=> Live(q) /\ q \notin Away /\ q # p
    BY <2>2, <2>3, ReadyOrAway
  <2>7. /\ list \in Seq(Procs) /\ NoDup(list)
        /\ \A q : Contains(list, q) <=> q = p \/ Contains(ready, q)
    BY <2>2, <2>3, <2>6, EnqueueMembers
  <2> HIDE DEF list
  <2>8. /\ list # <<>>
        /\ \A q \in Procs : Contains(list, q) <=> Live(q) /\ q \notin Away
    BY <2>2, <2>3, <2>4, <2>5, <2>6, <2>7, EmptyMembers
  <2>9. /\ cpu' \in Procs /\ Live(cpu') /\ cpu' \notin Away
        /\ current' = cpu' /\ idle' = FALSE
        /\ ready' \in Seq(Procs) /\ NoDup(ready')
        /\ \A q \in Procs : Contains(ready', q) <=> Live(q) /\ q \notin Away /\ q # cpu'
    <3> HIDE DEF Away
    <3> QED
      BY <2>1, <2>7, <2>8, ScheduleLive
  <2>10. SemTypes'
    <3>1. quantum' \in 0..Quantum
      BY <2>1, QuantumAssumption
    <3> QED
      BY <1>1, <2>2, <2>9, <3>1 DEF SemTypes, countVars, semVars, inhVars
  <2>11. SemCalls'
    BY <1>1, CallsSame DEF semVars, inhVars
  <2>12. \A q \in Procs : /\ Live(q)' = Live(q) /\ Blocked(q)' = Blocked(q)
                          /\ Leaving(q)' = Leaving(q) /\ Granted(q)' = Granted(q)
    BY <1>1 DEF Live, Blocked, Leaving, Granted, Waking, Towards, inhVars
  <2>13. (SemSectionsAt(p) /\ RegisterAt(p))'
    BY <1>1, <2>4 DEF SemSectionsAt, RegisterAt, countVars
  <2>14. /\ Live(cpu)' /\ ~Blocked(cpu)' /\ ~Granted(cpu)' /\ WaitingAt(cpu)'
         /\ \A q \in Procs : Contains(ready', q) <=>
                               Live(q)' /\ ~Blocked(q)' /\ ~Granted(q)' /\ q # cpu'
    <3>1. /\ Live(cpu') /\ ~Blocked(cpu') /\ ~Granted(cpu')
          /\ \A q \in Procs : Contains(ready', q) <=>
                                Live(q) /\ ~Blocked(q) /\ ~Granted(q) /\ q # cpu'
      BY <2>9
    <3>2. /\ Live(cpu)' = Live(cpu') /\ Blocked(cpu)' = Blocked(cpu')
          /\ Granted(cpu)' = Granted(cpu')
      BY <1>1 DEF Live, Blocked, Granted, Waking, Towards, inhVars
    <3>3. WaitingAt(cpu)'
      BY <2>9, <2>11 DEF SemCalls
    <3> QED
      BY <2>12, <3>1, <3>2, <3>3
  <2>15. SemKernel'
    BY <1>1, <2>2, <2>3, <2>5, <2>9, <2>10, <2>12, <2>13, <2>14, SwitchKernel DEF countVars
  <2> QED
    BY <2>11, <2>15 DEF SemInv
<1> QED
  BY <1>2, <1>3

\* proc_yield() hands the CPU to the first ready process.
LEMMA YieldSem ==
  ASSUME SemInv, NEW p \in Procs, Yield(p), UNCHANGED <<semVars, inhVars, arg, held>>
  PROVE  SemInv'
<1> DEFINE Away == {r \in Procs : Blocked(r) \/ Granted(r)}
<1>1. /\ p = cpu /\ ~idle /\ pc[p] = "user" /\ ready # <<>>
      /\ UNCHANGED <<isr, zombies, pri, preemptCount, reg, nest, pc, cont, obj, idle,
                     owner, queue, nestCount, origPri, inhPri, blockedBy, inhList, arg, held>>
      /\ ready' = Enqueue(Tail(ready), current, pri)
      /\ quantum' = Quantum /\ current' = Head(ready) /\ cpu' = Head(ready)
  BY DEF Yield, At, SwitchTo, countVars, semVars, inhVars
<1>2. /\ SemTypes /\ SemSectionsAt(p) /\ RegisterAt(p) /\ ~Granted(p)
      /\ (Blocked(p) => Leaving(p)) /\ current = p /\ Live(p)
  BY <1>1, SemInvAt
<1>3. nest[p] = 0 /\ ~Leaving(p) /\ ~Blocked(p)
  BY <1>1, <1>2 DEF SemSectionsAt, SemOutside, Leaving, Towards, CountLabels
<1>4. /\ ready \in Seq(Procs) /\ NoDup(ready) /\ ~Contains(ready, p) /\ pri \in [Procs -> Int]
      /\ \A q \in Procs : Contains(ready, q) <=> Live(q) /\ q \notin Away /\ q # p
  BY <1>1, ReadyOrAway
<1>5. /\ Head(ready) \in Procs /\ Contains(ready, Head(ready))
      /\ Tail(ready) \in Seq(Procs) /\ NoDup(Tail(ready))
      /\ \A q : Contains(Tail(ready), q) <=> q # Head(ready) /\ Contains(ready, q)
  BY <1>1, <1>4, TailMembers
<1>6. /\ ready' \in Seq(Procs) /\ NoDup(ready')
      /\ \A q : Contains(ready', q) <=> q = p \/ Contains(Tail(ready), q)
  BY <1>1, <1>2, <1>4, <1>5, EnqueueMembers
<1>7. /\ cpu' \in Procs /\ current' = cpu' /\ ~idle'
      /\ Live(cpu') /\ ~Blocked(cpu') /\ ~Granted(cpu')
      /\ \A q \in Procs : Contains(ready', q) <=>
                            Live(q) /\ ~Blocked(q) /\ ~Granted(q) /\ q # cpu'
  BY <1>1, <1>2, <1>3, <1>4, <1>5, <1>6
<1>8. SemTypes'
  <2>1. quantum' \in 0..Quantum
    BY <1>1, QuantumAssumption
  <2> QED
    BY <1>1, <1>2, <1>6, <1>7, <2>1 DEF SemTypes
<1>9. SemCalls'
  BY <1>1, CallsSame
<1>10. /\ Live(cpu)' = Live(cpu') /\ Blocked(cpu)' = Blocked(cpu')
       /\ Granted(cpu)' = Granted(cpu')
       /\ \A q \in Procs : /\ Live(q)' = Live(q) /\ Blocked(q)' = Blocked(q)
                           /\ Leaving(q)' = Leaving(q) /\ Granted(q)' = Granted(q)
  BY <1>1 DEF Live, Blocked, Leaving, Granted, Waking, Towards
<1>11. (SemSectionsAt(p) /\ RegisterAt(p))' /\ WaitingAt(cpu)'
  BY <1>1, <1>2, <1>7, <1>9 DEF SemSectionsAt, RegisterAt, SemCalls
<1>12. SemKernel'
  BY <1>1, <1>3, <1>6, <1>7, <1>8, <1>10, <1>11, SwitchKernel
<1> QED
  BY <1>9, <1>12 DEF SemInv

(***************************************************************************)
(* sem_obtain() gives the CPU away: the process is in a wait queue, in no  *)
(* other list, and comes back when it owns the semaphore.                  *)
(***************************************************************************)
LEMMA ObtSwitchSem ==
  ASSUME SemInv, NEW p \in Procs, ObtSwitch(p)
  PROVE  SemInv'
<1> DEFINE Away == {r \in Procs : Blocked(r) \/ Granted(r)}
<1>1. /\ p = cpu /\ ~idle /\ pc[p] = "obt_switch" /\ quantum' = Quantum /\ Schedule(ready)
      /\ pc' = [pc EXCEPT ![p] = "obt_done"]
      /\ UNCHANGED <<isr, zombies, pri, preemptCount, reg, nest, cont, obj,
                     owner, queue, nestCount, origPri, inhPri, blockedBy, inhList, arg, held>>
  BY DEF ObtSwitch, At, Goto, Switch, countVars, semVars, inhVars
<1>2. /\ SemTypes /\ SemSectionsAt(p) /\ RegisterAt(p) /\ ~Granted(p) /\ current = p
      /\ WaitingAt(p) /\ CallAt(p) /\ CountIsNest
  BY <1>1, SemInvAt
<1>3. Leaving(p) /\ Blocked(p) /\ nest[p] = 0
  BY <1>1, <1>2 DEF SemSectionsAt, SemOutside, Leaving, Towards, WaitingAt
<1>4. pc'[p] = "obt_done" /\ \A q \in Procs \ {p} : pc'[q] = pc[q]
  BY <1>1, <1>2 DEF SemTypes
<1>5. /\ ready \in Seq(Procs) /\ NoDup(ready) /\ ~Contains(ready, p) /\ pri \in [Procs -> Int]
      /\ \A q \in Procs : Contains(ready, q) <=> Live(q) /\ q \notin Away
  <2>1. p \in Away
    BY <1>3
  <2> HIDE DEF Away
  <2> QED
    BY <1>1, <2>1, ReadyOrAway DEF Away
<1>6. \A q \in Procs : /\ Blocked(q)' = Blocked(q)
                       /\ Live(q)' <=> Live(q)
                       /\ Leaving(q)' <=> Leaving(q) /\ q # p
                       /\ Waking(q)' <=> Waking(q)
                       /\ Granted(q)' <=> Granted(q)
  <2>1. \A q \in Procs : Waking(q)' <=> Waking(q)
    BY <1>1, <1>4 DEF Waking, Towards, CountLabels
  <2>2. \A q \in Procs : Granted(q)' <=> Granted(q)
    BY <1>1, <2>1 DEF Granted
  <2>3. \A q \in Procs : Blocked(q)' = Blocked(q) /\ (Live(q)' <=> Live(q))
    BY <1>1, <1>4 DEF Blocked, Live, Dead
  <2>4. \A q \in Procs : Leaving(q)' <=> Leaving(q) /\ q # p
    BY <1>1, <1>4 DEF Leaving, Towards, CountLabels
  <2> QED
    BY <2>1, <2>2, <2>3, <2>4
<1>7. (SemSectionsAt(p) /\ RegisterAt(p) /\ WaitingAt(p) /\ CallAt(p))'
  <2>1. SemSectionsAt(p)' /\ RegisterAt(p)'
    BY <1>1, <1>2, <1>3, <1>4
       DEF SemSectionsAt, RegisterAt, SemOutside, SemInside
  <2>2. WaitingAt(p)'
    BY <1>1, <1>2, <1>4, <1>6 DEF WaitingAt, Blocked
  <2>3. CallAt(p)'
    BY <1>1, <1>2, <1>4 DEF CallAt, Towards, SemLabels, CountLabels
  <2> QED
    BY <2>1, <2>2, <2>3
<1>8. pc' \in [Procs -> SemPlaces] /\ quantum' \in 0..Quantum
  BY <1>1, <1>2, QuantumAssumption DEF SemTypes, SemPlaces, SemLabels
<1>9. ASSUME current' \in Procs \cup {NoProc}, cpu' \in Procs, idle' \in BOOLEAN,
             ready' \in Seq(Procs)
      PROVE  SemTypes' /\ SemCalls'
  <2>1. SemTypes'
    BY <1>1, <1>2, <1>8, <1>9 DEF SemTypes
  <2>2. \A s \in Sems : OwnerAt(s)'
    <3> SUFFICES ASSUME NEW s \in Sems PROVE OwnerAt(s)'
      OBVIOUS
    <3>1. \A q \in Procs : /\ Taken(q, s)' <=> Taken(q, s)
                           /\ Passing(q, s)' <=> Passing(q, s)
      BY <1>1, <1>3, <1>4, <1>6 DEF Taken, Passing, Towards
    <3>2. OwnerAt(s)
      BY DEF SemInv, SemCalls
    <3> QED
      BY <1>1, <3>1, <3>2, OwnerKept
  <2>3. Waking(p)' => Waking(p) /\ obj'[p] = obj[p]
    BY <1>1, <1>6
  <2>4. SemCalls'
    BY <1>1, <1>4, <1>7, <2>1, <2>2, <2>3, OwnCalls
  <2> QED
    BY <2>1, <2>4
<1>10. CASE ready # <<>>
  <2>1. /\ cpu' \in Procs /\ Live(cpu') /\ cpu' \notin Away
        /\ current' = cpu' /\ idle' = FALSE
        /\ ready' \in Seq(Procs) /\ NoDup(ready')
        /\ \A q \in Procs : Contains(ready', q) <=> Live(q) /\ q \notin Away /\ q # cpu'
    <3> HIDE DEF Away
    <3> QED
      BY <1>1, <1>5, <1>10, ScheduleLive
  <2>2. SemTypes' /\ SemCalls'
    BY <1>9, <2>1
  <2>3. /\ Live(cpu)' /\ ~Blocked(cpu)' /\ ~Granted(cpu)' /\ WaitingAt(cpu)'
        /\ \A q \in Procs : Contains(ready', q) <=>
                              Live(q)' /\ ~Blocked(q)' /\ ~Granted(q)' /\ q # cpu'
    <3>1. PICK n \in Procs : n = cpu'
      BY <2>1
    <3>2. Live(n)' /\ ~Blocked(n)' /\ ~Granted(n)' /\ WaitingAt(n)'
      BY <1>6, <2>1, <2>2, <3>1 DEF SemCalls
    <3>3. Live(cpu)' /\ ~Blocked(cpu)' /\ ~Granted(cpu)' /\ WaitingAt(cpu)'
      BY <3>1, <3>2 DEF Live, Blocked, Granted, WaitingAt, Leaving, Towards
    <3> QED
      BY <1>6, <2>1, <3>3
  <2>4. SemKernel'
    BY <1>1, <1>3, <1>4, <1>6, <1>7, <2>1, <2>2, <2>3, SwitchKernel
  <2> QED
    BY <2>2, <2>4 DEF SemInv
<1>11. CASE ready = <<>>
  <2>1. current' = NoProc /\ idle' = TRUE /\ ready' = <<>> /\ cpu' = cpu
    BY <1>1, <1>11 DEF Schedule
  <2>2. SemTypes' /\ SemCalls'
    BY <1>2, <1>9, <2>1, EmptySeq DEF SemTypes
  <2>3. \A q \in Procs : (SemSectionsAt(q) /\ RegisterAt(q))'
    <3> SUFFICES ASSUME NEW q \in Procs \ {p} PROVE (SemSectionsAt(q) /\ RegisterAt(q))'
      BY <1>7
    <3>1. SemSectionsAt(q) /\ RegisterAt(q)
      BY DEF SemInv, SemKernel
    <3> QED
      BY <1>1, <1>4, <3>1 DEF SemSectionsAt, RegisterAt
  <2>4. CountIsNest' /\ OthersOutside'
    BY <1>1, <2>1 DEF SemInv, SemKernel, CountIsNest, OthersOutside
  <2>5. SemRunning'
    <3>1. Blocked(cpu)'
      BY <1>1, <1>3, <2>1 DEF Blocked
    <3>2. \A q \in Procs : ~Leaving(q)'
      BY <1>1, <1>6 DEF SemInv, SemKernel, SemRunning
    <3> QED
      BY <2>1, <3>1, <3>2 DEF SemRunning
  <2>6. SemReady'
    <3>1. \A q \in Procs : ~(Live(q) /\ ~Blocked(q) /\ ~Granted(q))
      BY <1>5, <1>11, EmptyMembers
    <3> QED
      BY <1>6, <2>1, <3>1, EmptyMembers DEF SemReady
  <2>7. WindowClosed'
    BY <2>1 DEF WindowClosed
  <2> QED
    BY <2>2, <2>3, <2>4, <2>5, <2>6, <2>7 DEF SemInv, SemKernel
<1> QED
  BY <1>10, <1>11

(***************************************************************************)
(* sem_release() awakens the new owner, which runs at once or is made      *)
(* ready: it was in no list, and nobody else awakens it.                   *)
(***************************************************************************)
LEMMA RelWakeSem ==
  ASSUME SemInv, NEW p \in Procs, RelWake(p)
  PROVE  SemInv'
<1> DEFINE Away == {r \in Procs : Blocked(r) \/ Granted(r)}
<1>1. /\ p = cpu /\ ~idle /\ ~isr /\ pc[p] = "rel_wake" /\ Wakeup(obj[p])
      /\ pc' = [pc EXCEPT ![p] = "user"] /\ obj' = [obj EXCEPT ![p] = NoProc]
      /\ arg' = [arg EXCEPT ![p] = NoSem]
      /\ UNCHANGED <<isr, zombies, pri, preemptCount, reg, nest, cont,
                     owner, queue, nestCount, origPri, inhPri, blockedBy, inhList, held>>
  BY DEF RelWake, At, Goto, countVars, semVars, inhVars
<1>2. /\ SemTypes /\ SemSectionsAt(p) /\ RegisterAt(p) /\ ~Granted(p) /\ current = p
      /\ WaitingAt(p) /\ GrantAt(p) /\ CountIsNest /\ Live(p) /\ (Blocked(p) => Leaving(p))
  BY <1>1, SemInvAt
<1>3. Waking(p) /\ ~Leaving(p) /\ ~Blocked(p) /\ nest[p] = 0
  BY <1>1, <1>2 DEF SemSectionsAt, SemOutside, Leaving, Waking, Towards, CountLabels
<1>4. /\ pc'[p] = "user" /\ obj'[p] = NoProc /\ arg'[p] = NoSem
      /\ \A q \in Procs \ {p} : pc'[q] = pc[q] /\ obj'[q] = obj[q] /\ arg'[q] = arg[q]
  BY <1>1, <1>2 DEF SemTypes
<1>5. PICK n \in Procs : n = obj[p]
  BY <1>2, <1>3 DEF GrantAt
<1>6. /\ Granted(n) /\ ~Blocked(n) /\ n # p /\ Live(n) /\ Wakeup(n)
      /\ \A q \in Procs : Waking(q) /\ obj[q] = n => q = p
  <2>1. Granted(n) /\ n # p
    BY <1>2, <1>3, <1>5 DEF Granted
  <2> QED
    BY <1>1, <1>2, <1>3, <1>5, <2>1 DEF GrantAt, Live, Dead
<1>7. \A q \in Procs : /\ Blocked(q)' = Blocked(q)
                       /\ Live(q)' <=> Live(q)
                       /\ Leaving(q)' <=> Leaving(q)
                       /\ Waking(q)' <=> Waking(q) /\ q # p
                       /\ Granted(q)' <=> Granted(q) /\ q # n
  <2>1. \A q \in Procs : Waking(q)' <=> Waking(q) /\ q # p
    BY <1>1, <1>4 DEF Waking, Towards, CountLabels
  <2>2. \A q \in Procs : Granted(q)' <=> Granted(q) /\ q # n
    BY <1>4, <1>5, <1>6, <2>1 DEF Granted
  <2>3. \A q \in Procs : Blocked(q)' = Blocked(q) /\ (Live(q)' <=> Live(q))
    BY <1>1, <1>2, <1>4 DEF Blocked, Live, Dead
  <2>4. \A q \in Procs : Leaving(q)' <=> Leaving(q)
    BY <1>1, <1>4 DEF Leaving, Towards, CountLabels
  <2> QED
    BY <2>1, <2>2, <2>3, <2>4
<1>8. (SemSectionsAt(p) /\ RegisterAt(p) /\ WaitingAt(p) /\ CallAt(p))'
  <2>1. SemSectionsAt(p)' /\ RegisterAt(p)'
    BY <1>1, <1>2, <1>3, <1>4
       DEF SemSectionsAt, RegisterAt, SemOutside, SemInside
  <2>2. WaitingAt(p)'
    BY <1>3, <1>7 DEF WaitingAt
  <2>3. CallAt(p)'
    BY <1>4 DEF CallAt, Towards, SemLabels, CountLabels
  <2> QED
    BY <2>1, <2>2, <2>3
<1>9. /\ pc' \in [Procs -> SemPlaces] /\ obj' \in [Procs -> Procs \cup {NoProc}]
      /\ arg' \in [Procs -> Sems \cup {NoSem}]
  BY <1>1, <1>2 DEF SemTypes, SemPlaces
<1>10. ASSUME current' \in Procs \cup {NoProc}, cpu' \in Procs, idle' \in BOOLEAN,
              ready' \in Seq(Procs), quantum' \in 0..Quantum
       PROVE  SemTypes' /\ SemCalls'
  <2>1. SemTypes'
    BY <1>1, <1>2, <1>9, <1>10 DEF SemTypes
  <2>2. \A s \in Sems : OwnerAt(s)'
    <3> SUFFICES ASSUME NEW s \in Sems PROVE OwnerAt(s)'
      OBVIOUS
    <3>1. \A q \in Procs : /\ Taken(q, s)' <=> Taken(q, s)
                           /\ Passing(q, s)' <=> Passing(q, s)
      <4>1. ~Taken(p, s) /\ ~Taken(p, s)' /\ ~Passing(p, s) /\ ~Passing(p, s)'
        BY <1>1, <1>4 DEF Taken, Passing, Towards, CountLabels
      <4>2. \A q \in Procs \ {p} : /\ Taken(q, s)' <=> Taken(q, s)
                                   /\ Passing(q, s)' <=> Passing(q, s)
        BY <1>1, <1>4, <1>7 DEF Taken, Passing, Towards
      <4> QED
        BY <4>1, <4>2
    <3>2. OwnerAt(s)
      BY DEF SemInv, SemCalls
    <3> QED
      BY <1>1, <3>1, <3>2, OwnerKept
  <2>3. ~Waking(p)'
    BY <1>7
  <2>4. SemCalls'
    BY <1>1, <1>4, <1>8, <2>1, <2>2, <2>3, OwnCalls
  <2> QED
    BY <2>1, <2>4
<1>11. /\ ready \in Seq(Procs) /\ NoDup(ready) /\ ~Contains(ready, p) /\ pri \in [Procs -> Int]
       /\ \A q \in Procs : Contains(ready, q) <=> Live(q) /\ ~Blocked(q) /\ ~Granted(q) /\ q # p
  BY <1>1, ReadyOrAway
<1>12. ~Contains(ready, n)
  BY <1>6, <1>11
<1>13. CASE pri[n] >= pri[current]
  <2>1. /\ ready' = Enqueue(ready, p, pri) /\ quantum' = Quantum
        /\ current' = n /\ cpu' = n /\ idle' = idle
    BY <1>2, <1>6, <1>13 DEF Wakeup, SwitchTo
  <2>2. /\ ready' \in Seq(Procs) /\ NoDup(ready')
        /\ \A q : Contains(ready', q) <=> q = p \/ Contains(ready, q)
    BY <1>11, <2>1, EnqueueMembers
  <2>3. quantum' \in 0..Quantum /\ idle' \in BOOLEAN
    BY <1>2, <2>1, QuantumAssumption DEF SemTypes
  <2>4. SemTypes' /\ SemCalls'
    BY <1>10, <2>1, <2>2, <2>3
  <2>5. Live(n)' /\ ~Blocked(n)' /\ ~Granted(n)' /\ WaitingAt(n)'
    BY <1>6, <1>7, <2>4 DEF SemCalls
  <2>6. Live(cpu)' /\ ~Blocked(cpu)' /\ ~Granted(cpu)' /\ WaitingAt(cpu)'
    BY <2>1, <2>5 DEF Live, Blocked, Granted, WaitingAt, Leaving, Towards
  <2>7. \A q \in Procs : Contains(ready', q) <=>
                           Live(q)' /\ ~Blocked(q)' /\ ~Granted(q)' /\ q # cpu'
    BY <1>2, <1>3, <1>6, <1>7, <1>11, <1>12, <2>1, <2>2
  <2>8. ~Leaving(p)'
    BY <1>3, <1>7
  <2>9. SemKernel'
    BY <1>1, <1>3, <1>4, <1>8, <2>1, <2>2, <2>4, <2>6, <2>7, <2>8, SwitchKernel
  <2> QED
    BY <2>4, <2>9 DEF SemInv
<1>14. CASE ~(pri[n] >= pri[current])
  <2>1. ready' = EnqueueHead(ready, n, pri) /\ UNCHANGED <<current, cpu, idle, quantum>>
    BY <1>6, <1>14 DEF Wakeup
  <2>2. /\ ready' \in Seq(Procs) /\ NoDup(ready')
        /\ \A q : Contains(ready', q) <=> q = n \/ Contains(ready, q)
    BY <1>11, <1>12, <2>1, EnqueueHeadMembers
  <2>3. SemTypes' /\ SemCalls'
    BY <1>2, <1>10, <2>1, <2>2 DEF SemTypes
  <2>4. \A q \in Procs : (SemSectionsAt(q) /\ RegisterAt(q))'
    <3> SUFFICES ASSUME NEW q \in Procs \ {p} PROVE (SemSectionsAt(q) /\ RegisterAt(q))'
      BY <1>8
    <3>1. SemSectionsAt(q) /\ RegisterAt(q)
      BY DEF SemInv, SemKernel
    <3> QED
      BY <1>1, <1>4, <3>1 DEF SemSectionsAt, RegisterAt
  <2>5. CountIsNest' /\ OthersOutside'
    BY <1>1, <2>1 DEF SemInv, SemKernel, CountIsNest, OthersOutside
  <2>6. SemRunning'
    <3>1. Live(p)' /\ ~Blocked(p)' /\ ~Granted(p)'
      BY <1>2, <1>3, <1>7
    <3>2. Live(cpu)' /\ ~Blocked(cpu)' /\ ~Granted(cpu)'
      BY <1>1, <2>1, <3>1 DEF Live, Blocked, Granted
    <3>3. \A q \in Procs : ~Leaving(q)'
      BY <1>1, <1>3, <1>7 DEF SemInv, SemKernel, SemRunning
    <3> QED
      BY <1>1, <1>2, <2>1, <3>2, <3>3 DEF SemRunning
  <2>7. SemReady'
    <3>1. \A q \in Procs : Contains(ready', q) <=>
                             Live(q)' /\ ~Blocked(q)' /\ ~Granted(q)' /\ q # p
      BY <1>6, <1>7, <1>11, <2>2
    <3> QED
      BY <1>1, <2>1, <2>2, <3>1 DEF SemReady
  <2>8. WindowClosed'
    BY <1>1 DEF WindowClosed
  <2> QED
    BY <2>3, <2>4, <2>5, <2>6, <2>7, <2>8 DEF SemInv, SemKernel
<1> QED
  BY <1>13, <1>14

(***************************************************************************)
(* sem_obtain() puts the caller, which was in no wait queue, in that of a  *)
(* semaphore that has another owner.                                       *)
(***************************************************************************)
LEMMA ObtBlockSem ==
  ASSUME SemInv, NEW p \in Procs, ObtBlock(p)
  PROVE  SemInv'
<1>1. p = cpu /\ ~idle /\ ~isr /\ pc[p] = "obt_block"
  BY DEF ObtBlock, At
<1>2. /\ SemTypes /\ SemSectionsAt(p) /\ RegisterAt(p) /\ ~Granted(p) /\ current = p
      /\ WaitingAt(p) /\ GrantAt(p) /\ CallAt(p) /\ CountIsNest /\ Live(p)
      /\ (Blocked(p) => Leaving(p))
  BY <1>1, SemInvAt
<1>3. PICK s \in Sems : arg[p] = s
  BY <1>1, <1>2 DEF CallAt, Towards, SemLabels
<1>4. PICK o \in Procs \ {p} : owner[s] = o
  BY <1>1, <1>2, <1>3 DEF CallAt, SemTypes
<1>5. /\ queue' = [queue EXCEPT ![s] = Append(queue[s], p)]
      /\ inhPri' = [inhPri EXCEPT ![p] = ProcPri(p, origPri, inhList, inhPri)]
      /\ inhList' = [inhList EXCEPT ![o] = inhList[o] \cup {p}]
      /\ blockedBy' = [blockedBy EXCEPT ![p] = s]
      /\ obj' = [obj EXCEPT ![p] = o]
      /\ pc' = [pc EXCEPT ![p] = "inherit"]
      /\ UNCHANGED <<current, cpu, idle, ready, quantum, isr, zombies, pri,
                     preemptCount, reg, nest, cont, owner, nestCount, origPri, arg, held>>
  BY <1>3, <1>4 DEF ObtBlock, Goto, AddWaiter, schedVars, countVars
<1>6. /\ pc'[p] = "inherit" /\ obj'[p] = o /\ blockedBy'[p] = s
      /\ \A q \in Procs \ {p} : /\ pc'[q] = pc[q] /\ obj'[q] = obj[q]
                                /\ blockedBy'[q] = blockedBy[q]
      /\ \A t \in Sems : queue'[t] = IF t = s THEN Append(queue[s], p) ELSE queue[t]
  BY <1>2, <1>5 DEF SemTypes
<1>7. ~Leaving(p) /\ ~Blocked(p) /\ ~Waking(p) /\ nest[p] = 1
  BY <1>1, <1>2 DEF SemSectionsAt, SemInside, Leaving, Waking, Towards, CountLabels
<1>8. /\ Blocked(p)' /\ Leaving(p)' /\ ~Waking(p)' /\ Live(p)'
      /\ \A q \in Procs \ {p} : /\ Blocked(q)' = Blocked(q)
                                /\ Live(q)' <=> Live(q)
                                /\ Leaving(q)' <=> Leaving(q)
                                /\ Waking(q)' <=> Waking(q)
  BY <1>5, <1>6, SemsAssumption DEF Blocked, Leaving, Waking, Towards, Live, Dead, CountLabels
<1>9. \A q \in Procs : Granted(q)' <=> Granted(q)
  BY <1>6, <1>7, <1>8 DEF Granted
<1>10. SemTypes'
  <2>1. ProcPri(p, origPri, inhList, inhPri) \in Int
    BY <1>2, ProcPriHighest DEF SemTypes
  <2>2. inhPri' \in [Procs -> Int] /\ inhList' \in [Procs -> SUBSET Procs]
    BY <1>2, <1>5, <2>1 DEF SemTypes
  <2>3. Append(queue[s], p) \in Seq(Procs)
    BY <1>2, AppendProperties DEF SemTypes
  <2>4. /\ queue' \in [Sems -> Seq(Procs)]
        /\ blockedBy' \in [Procs -> Sems \cup {NoSem}]
    BY <1>2, <1>5, <2>3 DEF SemTypes
  <2>5. /\ obj' \in [Procs -> Procs \cup {NoProc}] /\ pc' \in [Procs -> SemPlaces]
    BY <1>2, <1>5 DEF SemTypes, SemPlaces, SemLabels
  <2> QED
    BY <1>2, <1>5, <2>2, <2>4, <2>5 DEF SemTypes
<1>11. SemKernel'
  <2>1. \A q \in Procs : (SemSectionsAt(q) /\ RegisterAt(q))'
    <3>1. (SemSectionsAt(p) /\ RegisterAt(p))'
      BY <1>2, <1>5, <1>6, <1>7 DEF SemSectionsAt, RegisterAt, SemOutside
    <3>2. ASSUME NEW q \in Procs \ {p} PROVE (SemSectionsAt(q) /\ RegisterAt(q))'
      <4>1. SemSectionsAt(q) /\ RegisterAt(q)
        BY DEF SemInv, SemKernel
      <4> QED
        BY <1>5, <1>6, <4>1 DEF SemSectionsAt, RegisterAt
    <3> QED
      BY <3>1, <3>2
  <2>2. CountIsNest' /\ OthersOutside'
    BY <1>5 DEF SemInv, SemKernel, CountIsNest, OthersOutside
  <2>3. SemRunning'
    <3>1. Leaving(cpu)' /\ Live(cpu)' /\ ~Granted(cpu)'
      <4>1. cpu' = p
        BY <1>1, <1>5
      <4>2. Leaving(p)' /\ Live(p)' /\ ~Granted(p)'
        BY <1>2, <1>8, <1>9
      <4> QED
        BY <4>1, <4>2 DEF Leaving, Live, Granted, Towards
    <3>2. \A q \in Procs : Leaving(q)' => q = p
      BY <1>1, <1>8 DEF SemInv, SemKernel, SemRunning
    <3> QED
      BY <1>1, <1>2, <1>5, <3>1, <3>2 DEF SemRunning
  <2>4. SemReady'
    <3>1. NoDup(ready) /\ \A q \in Procs : Contains(ready, q) <=>
                            Live(q) /\ ~Blocked(q) /\ ~Granted(q) /\ q # p
      BY <1>1 DEF SemInv, SemKernel, SemReady
    <3> QED
      BY <1>1, <1>5, <1>8, <1>9, <3>1 DEF SemReady
  <2>5. WindowClosed'
    BY <1>1, <1>5 DEF WindowClosed
  <2> QED
    BY <1>10, <2>1, <2>2, <2>3, <2>4, <2>5 DEF SemKernel
<1>12. ASSUME NEW q \in Procs PROVE (WaitingAt(q) /\ GrantAt(q) /\ CallAt(q))'
  <2>1. WaitingAt(q) /\ GrantAt(q) /\ CallAt(q)
    BY DEF SemInv, SemCalls
  <2>2. WaitingAt(q)'
    <3>1. CASE q = p
      BY <1>3, <1>5, <1>6, <1>8, <3>1 DEF WaitingAt
    <3>2. CASE q # p
      BY <1>5, <1>6, <1>8, <2>1, <3>2 DEF WaitingAt
    <3> QED
      BY <3>1, <3>2
  <2>3. GrantAt(q)'
    <3> SUFFICES ASSUME Waking(q)' PROVE GrantAt(q)'
      BY DEF GrantAt
    <3>1. q # p /\ Waking(q) /\ obj'[q] = obj[q]
      BY <1>6, <1>8
    <3>2. obj[q] \in Procs \ {p} /\ pc[obj[q]] = "obt_done" /\ ~Blocked(obj[q])
      BY <1>2, <2>1, <3>1 DEF GrantAt, Granted
    <3>3. PICK x \in Procs \ {p} : x = obj[q]
      BY <3>2
    <3>4. pc'[x] = "obt_done" /\ ~Blocked(x)'
      BY <1>6, <1>8, <3>2, <3>3
    <3>5. \A r \in Procs : Waking(r)' /\ obj'[r] = x => r = q
      BY <1>6, <1>8, <2>1, <3>1, <3>3 DEF GrantAt
    <3> QED
      BY <3>1, <3>3, <3>4, <3>5 DEF GrantAt, Blocked
  <2>4. CallAt(q)'
    <3>1. CASE q = p
      BY <1>3, <1>4, <1>5, <1>6, <3>1 DEF CallAt, Towards, CountLabels
    <3>2. CASE q # p
      <4>1. pc[q] \notin SemInside
        BY <1>1, <3>2, OutsideOthers
      <4> QED
        BY <1>5, <1>6, <2>1, <3>2, <4>1 DEF CallAt, Towards, SemInside
    <3> QED
      BY <3>1, <3>2
  <2> QED
    BY <2>2, <2>3, <2>4
<1>13. ASSUME NEW t \in Sems PROVE (QueueAt(t) /\ OwnerAt(t))'
  <2>1. QueueAt(t) /\ OwnerAt(t) /\ QueueAt(s) /\ OwnerAt(s)
    BY DEF SemInv, SemCalls
  <2>2. \A q \in Procs : /\ Taken(q, t)' <=> Taken(q, t)
                         /\ Passing(q, t)' <=> Passing(q, t)
    <3>1. ~Taken(p, t) /\ ~Taken(p, t)' /\ ~Passing(p, t) /\ ~Passing(p, t)'
      BY <1>1, <1>6 DEF Taken, Passing, Towards, CountLabels
    <3>2. \A q \in Procs \ {p} : /\ Taken(q, t)' <=> Taken(q, t)
                                 /\ Passing(q, t)' <=> Passing(q, t)
      BY <1>5, <1>6, <1>8 DEF Taken, Passing, Towards
    <3> QED
      BY <3>1, <3>2
  <2>3. CASE t # s
    <3>1. queue'[t] = queue[t] /\ \A q \in Procs : blockedBy'[q] = t <=> blockedBy[q] = t
      BY <1>6, <1>7, <2>3, SemsAssumption DEF Blocked
    <3>2. QueueAt(t)'
      BY <2>1, <3>1 DEF QueueAt
    <3>3. OwnerAt(t)'
      BY <1>5, <2>1, <2>2, <3>1, OwnerKept
    <3> QED
      BY <3>2, <3>3
  <2>4. CASE t = s
    <3>1. queue[s] \in Seq(Procs) /\ queue'[s] = Append(queue[s], p)
      BY <1>2, <1>6 DEF SemTypes
    <3>2. NoDup(queue[s]) /\ ~Contains(queue[s], p)
      BY <1>7, <2>1, SemsAssumption DEF QueueAt, Blocked
    <3>3. /\ NoDup(Append(queue[s], p))
          /\ \A q : Contains(Append(queue[s], p), q) <=> q = p \/ Contains(queue[s], q)
      BY <3>1, <3>2, AppendMembers
    <3>4. QueueAt(s)'
      BY <1>6, <2>1, <3>1, <3>3 DEF QueueAt
    <3>5. OwnerAt(s)'
      BY <1>4, <1>5, <1>6, <2>1, <2>2, <2>4, ProcsAssumption DEF OwnerAt
    <3> QED
      BY <2>4, <3>4, <3>5
  <2> QED
    BY <2>3, <2>4
<1> QED
  BY <1>11, <1>12, <1>13 DEF SemInv, SemCalls

(***************************************************************************)
(* sem_release() makes the first applicant the owner: it leaves the wait   *)
(* queue, and stays in no list until it is awakened.                       *)
(***************************************************************************)
LEMMA RelPassSem ==
  ASSUME SemInv, NEW p \in Procs, RelPass(p)
  PROVE  SemInv'
<1>1. p = cpu /\ ~idle /\ ~isr /\ pc[p] = "rel_pass" /\ queue[arg[p]] # <<>>
  BY DEF RelPass, At
<1>2. /\ SemTypes /\ SemSectionsAt(p) /\ RegisterAt(p) /\ ~Granted(p) /\ current = p
      /\ WaitingAt(p) /\ GrantAt(p) /\ CallAt(p) /\ CountIsNest /\ Live(p)
      /\ (Blocked(p) => Leaving(p))
  BY <1>1, SemInvAt
<1>3. PICK s \in Sems : arg[p] = s
  BY <1>1, <1>2 DEF CallAt, Towards, SemLabels
<1>4. PICK n : n = Head(queue[s])
  OBVIOUS
<1>5. /\ queue' = [queue EXCEPT ![s] = Tail(queue[s])]
      /\ blockedBy' = [blockedBy EXCEPT ![n] = NoSem]
      /\ nestCount' = [nestCount EXCEPT ![s] = 1]
      /\ owner' = [owner EXCEPT ![s] = n]
      /\ obj' = [obj EXCEPT ![p] = n]
      /\ pc' = [pc EXCEPT ![p] = "permit"] /\ cont' = [cont EXCEPT ![p] = "rel_wake"]
      /\ UNCHANGED <<current, cpu, idle, ready, quantum, isr, zombies,
                     preemptCount, reg, nest, origPri, inhPri, arg, held>>
  BY <1>3, <1>4 DEF RelPass, CallCount, schedVars, countVars
<1>6. /\ n \in Procs /\ Contains(queue[s], n)
      /\ Tail(queue[s]) \in Seq(Procs) /\ NoDup(Tail(queue[s]))
      /\ \A q : Contains(Tail(queue[s]), q) <=> q # n /\ Contains(queue[s], q)
  <2>1. queue[s] \in Seq(Procs) /\ NoDup(queue[s]) /\ queue[s] # <<>>
    BY <1>1, <1>2, <1>3 DEF SemTypes, SemInv, SemCalls, QueueAt
  <2> QED
    BY <1>4, <2>1, TailMembers
<1>7. /\ ~Leaving(p) /\ ~Blocked(p) /\ ~Waking(p) /\ nest[p] = 1
      /\ Passing(p, s) /\ \A t \in Sems : ~Taken(p, t)
  BY <1>1, <1>2, <1>3
     DEF SemSectionsAt, SemInside, Leaving, Waking, Passing, Taken, Towards, CountLabels
<1>8. /\ OwnerAt(s) /\ QueueAt(s)
      /\ owner[s] = p /\ nestCount[s] = 0 /\ held[p][s] = 0 /\ blockedBy[p] # s
  <2>1. OwnerAt(s) /\ QueueAt(s)
    BY DEF SemInv, SemCalls
  <2>2. owner[s] = p /\ nestCount[s] = 0 /\ blockedBy[p] # s
    BY <1>7, <2>1 DEF OwnerAt
  <2>3. nestCount[s] = held[p][s] + IF Taken(p, s) THEN 1 ELSE 0
    BY <2>1, <2>2 DEF OwnerAt
  <2>4. held[p][s] \in Nat
    BY <1>2 DEF SemTypes
  <2> QED
    BY <1>7, <2>1, <2>2, <2>3, <2>4
<1>9. /\ blockedBy[n] = s /\ Blocked(n) /\ n # p /\ ~Leaving(n)
      /\ arg[n] = s /\ pc[n] = "obt_done" /\ ~Granted(n)
  <2>1. blockedBy[n] = s /\ Blocked(n) /\ n # p
    BY <1>6, <1>7, <1>8, SemsAssumption DEF QueueAt, Blocked
  <2>2. ~Leaving(n)
    BY <1>1, <1>6, <2>1 DEF SemInv, SemKernel, SemRunning
  <2>3. arg[n] = s /\ pc[n] = "obt_done"
    BY <1>6, <2>1, <2>2 DEF SemInv, SemCalls, WaitingAt
  <2>4. ~Granted(n)
    <3> SUFFICES ASSUME NEW r \in Procs, Waking(r), obj[r] = n PROVE FALSE
      BY DEF Granted
    <3>1. ~Blocked(n)
      BY DEF SemInv, SemCalls, GrantAt
    <3> QED
      BY <2>1, <3>1
  <2> QED
    BY <2>1, <2>2, <2>3, <2>4
<1>10. /\ pc'[p] = "permit" /\ cont'[p] = "rel_wake" /\ obj'[p] = n /\ blockedBy'[n] = NoSem
       /\ \A q \in Procs \ {p} : pc'[q] = pc[q] /\ cont'[q] = cont[q] /\ obj'[q] = obj[q]
       /\ \A q \in Procs \ {n} : blockedBy'[q] = blockedBy[q]
       /\ owner'[s] = n /\ nestCount'[s] = 1 /\ queue'[s] = Tail(queue[s])
       /\ \A t \in Sems \ {s} : /\ owner'[t] = owner[t] /\ nestCount'[t] = nestCount[t]
                                /\ queue'[t] = queue[t]
  BY <1>2, <1>5, <1>6 DEF SemTypes
<1>11. /\ ~Leaving(p)' /\ Waking(p)' /\ Live(p)' /\ ~Blocked(n)'
       /\ \A q \in Procs \ {p} : /\ Live(q)' <=> Live(q)
                                 /\ Leaving(q)' <=> Leaving(q)
                                 /\ Waking(q)' <=> Waking(q)
       /\ \A q \in Procs \ {n} : Blocked(q)' = Blocked(q)
       /\ \A q \in Procs : Granted(q)' <=> Granted(q) \/ q = n
  <2>1. ~Leaving(p)' /\ Waking(p)' /\ Live(p)' /\ ~Blocked(n)'
    BY <1>10 DEF Leaving, Waking, Towards, Live, Dead, Blocked, CountLabels
  <2>2. \A q \in Procs \ {p} : /\ Live(q)' <=> Live(q)
                               /\ Leaving(q)' <=> Leaving(q)
                               /\ Waking(q)' <=> Waking(q)
    BY <1>10 DEF Leaving, Waking, Towards, Live
  <2>3. \A q \in Procs \ {n} : Blocked(q)' = Blocked(q)
    BY <1>10 DEF Blocked
  <2>4. \A q \in Procs : Granted(q)' <=> Granted(q) \/ q = n
    <3>1. ASSUME NEW q \in Procs, Granted(q)' PROVE Granted(q) \/ q = n
      <4>1. PICK r \in Procs : Waking(r)' /\ obj'[r] = q
        BY <3>1 DEF Granted
      <4> QED
        BY <1>10, <2>2, <4>1 DEF Granted
    <3>2. ASSUME NEW q \in Procs, Granted(q) \/ q = n PROVE Granted(q)'
      <4>1. CASE q = n
        BY <1>10, <2>1, <4>1 DEF Granted
      <4>2. CASE Granted(q)
        <5>1. PICK r \in Procs : Waking(r) /\ obj[r] = q
          BY <4>2 DEF Granted
        <5>2. Waking(r)' /\ obj'[r] = q
          BY <1>7, <1>10, <2>2, <5>1
        <5> QED
          BY <5>2 DEF Granted
      <4> QED
        BY <3>2, <4>1, <4>2
    <3> QED
      BY <3>1, <3>2
  <2> QED
    BY <2>1, <2>2, <2>3, <2>4
<1>12. SemTypes'
  <2>1. PICK list : list = inhList'
    OBVIOUS
  <2>2. list \in [Procs -> SUBSET Procs]
    <3>1. \A q \in Procs : inhList[q] \in SUBSET Procs
      BY <1>2 DEF SemTypes
    <3>2. owner[s] \in Procs
      BY <1>8
    <3>3. list = [q \in Procs |-> list[q]]
      BY <2>1 DEF RelPass
    <3>4. ASSUME NEW q \in Procs, NEW x \in list[q] PROVE x \in Procs
      <4>1. x \in inhList[q] \/ x \in inhList[owner[s]]
        BY <1>3, <2>1, <3>4 DEF RelPass
      <4> QED
        BY <3>1, <3>2, <4>1
    <3> QED
      BY <3>3, <3>4
  <2>3. pri' \in [Procs -> Int]
    <3>1. \A q \in Procs : ProcPri(q, origPri, list, inhPri) \in Int /\ pri[q] \in Int
      BY <1>2, <2>2, ProcPriHighest DEF SemTypes
    <3>2. \A q \in Procs : pri'[q] = ProcPri(q, origPri, list, inhPri) \/ pri'[q] = pri[q]
      BY <1>3, <1>4, <1>8, <1>9, <2>1 DEF RelPass
    <3>3. pri' = [q \in Procs |-> pri'[q]]
      BY DEF RelPass
    <3> QED
      BY <3>1, <3>2, <3>3
  <2>4. /\ queue' \in [Sems -> Seq(Procs)]
        /\ blockedBy' \in [Procs -> Sems \cup {NoSem}]
        /\ nestCount' \in [Sems -> Nat] /\ owner' \in [Sems -> Procs \cup {NoProc}]
        /\ obj' \in [Procs -> Procs \cup {NoProc}]
    BY <1>2, <1>5, <1>6 DEF SemTypes
  <2>5. pc' \in [Procs -> SemPlaces] /\ cont' \in [Procs -> SemReturns]
    BY <1>2, <1>5 DEF SemTypes, SemPlaces, SemReturns, SemLabels, CountLabels
  <2> QED
    BY <1>2, <1>5, <2>1, <2>2, <2>3, <2>4, <2>5 DEF SemTypes
<1>13. SemKernel'
  <2>1. \A q \in Procs : (SemSectionsAt(q) /\ RegisterAt(q))'
    <3>1. (SemSectionsAt(p) /\ RegisterAt(p))'
      BY <1>2, <1>5, <1>7, <1>10 DEF SemSectionsAt, RegisterAt, SemOutside, SemInside
    <3>2. ASSUME NEW q \in Procs \ {p} PROVE (SemSectionsAt(q) /\ RegisterAt(q))'
      <4>1. SemSectionsAt(q) /\ RegisterAt(q)
        BY DEF SemInv, SemKernel
      <4> QED
        BY <1>5, <1>10, <4>1 DEF SemSectionsAt, RegisterAt
    <3> QED
      BY <3>1, <3>2
  <2>2. CountIsNest' /\ OthersOutside'
    BY <1>5 DEF SemInv, SemKernel, CountIsNest, OthersOutside
  <2>3. SemRunning'
    <3>1. ~Blocked(p)' /\ Live(p)' /\ ~Granted(p)'
      BY <1>2, <1>7, <1>9, <1>11
    <3>2. ~Blocked(cpu)' /\ Live(cpu)' /\ ~Granted(cpu)'
      BY <1>1, <1>5, <3>1 DEF Blocked, Live, Granted
    <3>3. \A q \in Procs : ~Leaving(q)'
      BY <1>1, <1>11 DEF SemInv, SemKernel, SemRunning
    <3> QED
      BY <1>1, <1>2, <1>5, <3>2, <3>3 DEF SemRunning
  <2>4. SemReady'
    <3>1. NoDup(ready) /\ \A q \in Procs : Contains(ready, q) <=>
                            Live(q) /\ ~Blocked(q) /\ ~Granted(q) /\ q # p
      BY <1>1 DEF SemInv, SemKernel, SemReady
    <3>2. \A q \in Procs : Contains(ready, q) <=>
                             Live(q)' /\ ~Blocked(q)' /\ ~Granted(q)' /\ q # p
      BY <1>9, <1>11, <3>1
    <3> QED
      BY <1>1, <1>5, <3>1, <3>2 DEF SemReady
  <2>5. WindowClosed'
    BY <1>1, <1>5 DEF WindowClosed
  <2> QED
    BY <1>12, <2>1, <2>2, <2>3, <2>4, <2>5 DEF SemKernel
<1>14. ASSUME NEW q \in Procs PROVE (WaitingAt(q) /\ GrantAt(q) /\ CallAt(q))'
  <2>1. WaitingAt(q) /\ GrantAt(q) /\ CallAt(q)
    BY DEF SemInv, SemCalls
  <2>2. WaitingAt(q)'
    <3>1. CASE q = p
      BY <1>7, <1>9, <1>11, <3>1 DEF WaitingAt
    <3>2. CASE q = n
      BY <1>9, <1>11, <3>2 DEF WaitingAt
    <3>3. CASE q # p /\ q # n
      BY <1>5, <1>10, <1>11, <2>1, <3>3 DEF WaitingAt
    <3> QED
      BY <3>1, <3>2, <3>3
  <2>3. GrantAt(q)'
    <3>1. CASE q = p
      <4>1. \A r \in Procs : Waking(r)' /\ obj'[r] = n => r = p
        BY <1>9, <1>10, <1>11 DEF Granted
      <4>2. pc'[n] = "obt_done" /\ ~Blocked(n)'
        BY <1>6, <1>9, <1>10, <1>11
      <4> QED
        BY <1>6, <1>10, <3>1, <4>1, <4>2 DEF GrantAt, Blocked
    <3>2. CASE q # p
      <4> SUFFICES ASSUME Waking(q)' PROVE GrantAt(q)'
        BY DEF GrantAt
      <4>1. Waking(q) /\ obj'[q] = obj[q]
        BY <1>10, <1>11, <3>2
      <4>2. /\ obj[q] \in Procs \ {p, n} /\ pc[obj[q]] = "obt_done" /\ ~Blocked(obj[q])
        BY <1>2, <1>9, <2>1, <4>1 DEF GrantAt, Granted
      <4>3. PICK x \in Procs \ {p, n} : x = obj[q]
        BY <4>2
      <4>4. pc'[x] = "obt_done" /\ ~Blocked(x)'
        BY <1>10, <1>11, <4>2, <4>3
      <4>5. \A r \in Procs : Waking(r)' /\ obj'[r] = x => r = q
        BY <1>10, <1>11, <2>1, <4>1, <4>3 DEF GrantAt
      <4> QED
        BY <4>1, <4>3, <4>4, <4>5 DEF GrantAt, Blocked
    <3> QED
      BY <3>1, <3>2
  <2>4. CallAt(q)'
    <3>1. CASE q = p
      BY <1>3, <1>5, <1>10, <3>1 DEF CallAt, Towards, CountLabels
    <3>2. CASE q # p
      <4>1. pc[q] \notin SemInside
        BY <1>1, <3>2, OutsideOthers
      <4> QED
        BY <1>5, <1>10, <2>1, <3>2, <4>1 DEF CallAt, Towards, SemInside
    <3> QED
      BY <3>1, <3>2
  <2> QED
    BY <2>2, <2>3, <2>4
<1>15. ASSUME NEW t \in Sems PROVE (QueueAt(t) /\ OwnerAt(t))'
  <2>1. QueueAt(t) /\ OwnerAt(t)
    BY DEF SemInv, SemCalls
  <2>2. CASE t # s
    <3>1. /\ queue'[t] = queue[t] /\ owner'[t] = owner[t] /\ nestCount'[t] = nestCount[t]
          /\ \A q \in Procs : blockedBy'[q] = t <=> blockedBy[q] = t
      BY <1>9, <1>10, <2>2, SemsAssumption
    <3>2. \A q \in Procs : /\ Taken(q, t)' <=> Taken(q, t)
                           /\ Passing(q, t)' <=> Passing(q, t)
      <4>1. /\ ~Taken(p, t) /\ ~Taken(p, t)' /\ ~Passing(p, t) /\ ~Passing(p, t)'
            /\ ~Taken(n, t) /\ ~Taken(n, t)' /\ ~Passing(n, t) /\ ~Passing(n, t)'
        BY <1>3, <1>5, <1>9, <2>2 DEF Taken, Passing
      <4>2. \A q \in Procs \ {p, n} : /\ Taken(q, t)' <=> Taken(q, t)
                                      /\ Passing(q, t)' <=> Passing(q, t)
        BY <1>5, <1>10, <1>11 DEF Taken, Passing, Towards
      <4> QED
        BY <4>1, <4>2
    <3>3. QueueAt(t)'
      BY <2>1, <3>1 DEF QueueAt
    <3>4. OwnerAt(t)'
      BY <1>5, <2>1, <3>1, <3>2, OwnerKept
    <3> QED
      BY <3>3, <3>4
  <2>3. CASE t = s
    <3>1. QueueAt(s)'
      BY <1>6, <1>8, <1>9, <1>10, SemsAssumption DEF QueueAt
    <3>2. \A q \in Procs \ {p} : ~(held[q][s] > 0 \/ Taken(q, s) \/ Passing(q, s))
      BY <1>8 DEF OwnerAt
    <3>3. \A q \in Procs \ {p, n} : ~(held'[q][s] > 0 \/ Taken(q, s)' \/ Passing(q, s)')
      BY <1>5, <1>10, <1>11, <3>2 DEF Taken, Passing, Towards
    <3>4. ~(held'[p][s] > 0 \/ Taken(p, s)' \/ Passing(p, s)')
      BY <1>5, <1>8, <1>10 DEF Taken, Passing, Towards
    <3>5. held'[n][s] = 0 /\ Taken(n, s)' /\ ~Passing(n, s)'
      <4>1. held[n][s] \in Nat
        BY <1>2, <1>6 DEF SemTypes
      <4>2. held'[n][s] = 0
        BY <1>5, <1>6, <1>9, <3>2, <4>1
      <4>3. pc'[n] = "obt_done" /\ arg'[n] = s
        BY <1>5, <1>6, <1>9, <1>10
      <4> QED
        BY <1>11, <4>2, <4>3 DEF Taken, Passing, Towards
    <3>6. OwnerAt(s)'
      BY <1>6, <1>10, <3>3, <3>4, <3>5, ProcsAssumption, SemsAssumption DEF OwnerAt
    <3> QED
      BY <2>3, <3>1, <3>6
  <2> QED
    BY <2>2, <2>3
<1> QED
  BY <1>13, <1>14, <1>15 DEF SemInv, SemCalls

-----------------------------------------------------------------------------
(***************************************************************************)
(* The invariant.                                                          *)
(***************************************************************************)

\* Nobody waits after the start-up.
LEMMA SemInitInv ==
  ASSUME SemInit
  PROVE  SemInv
<1> USE DEF SemInit, Started
<1>1. InitReady \in Seq(Procs) /\ zombies = <<>> /\ <<>> \in Seq(Procs)
  BY StartAssumption, EmptySeq, SeqMonotonic
<1>2. ~Contains(InitReady, Main) /\ NoDup(InitReady)
  BY StartAssumption, ElementOfSeq, LenProperties DEF Contains
<1>3. /\ \A p \in Procs : pc[p] = IF p = Main \/ Contains(InitReady, p) THEN "user" ELSE "free"
      /\ \A p \in Procs : cont[p] = "user" /\ arg[p] = NoSem /\ blockedBy[p] = NoSem
      /\ pc \in [Procs -> SemPlaces] /\ cont \in [Procs -> SemReturns]
  BY DEF SemPlaces, SemReturns
<1>4. \A p \in Procs : /\ ~Blocked(p) /\ ~Leaving(p) /\ ~Waking(p)
                       /\ \A labels : "user" \notin labels /\ "free" \notin labels
                                      => ~Towards(p, labels)
  BY <1>3 DEF Blocked, Leaving, Waking, Towards, CountLabels
<1>5. \A p : ~Granted(p)
  BY <1>4 DEF Granted
<1>6. SemTypes
  <2>1. /\ pri \in [Procs -> Int] /\ origPri \in [Procs -> Int] /\ inhPri \in [Procs -> Int]
        /\ reg \in [Procs -> Int] /\ nest \in [Procs -> Int]
        /\ obj \in [Procs -> Procs \cup {NoProc}] /\ quantum \in 0..Quantum
    BY StartAssumption, QuantumAssumption
  <2>2. /\ owner \in [Sems -> Procs \cup {NoProc}] /\ queue \in [Sems -> Seq(Procs)]
        /\ nestCount \in [Sems -> Nat] /\ blockedBy \in [Procs -> Sems \cup {NoSem}]
        /\ inhList \in [Procs -> SUBSET Procs] /\ arg \in [Procs -> Sems \cup {NoSem}]
    BY <1>1
  <2>3. held \in [Procs -> [Sems -> Nat]]
    OBVIOUS
  <2>4. /\ current \in Procs \cup {NoProc} /\ cpu \in Procs
        /\ ready \in Seq(Procs) /\ preemptCount \in Int
    BY <1>1, ProcsAssumption
  <2>5. zombies \in Seq(Procs)
    BY <1>1
  <2>6. idle \in BOOLEAN /\ isr \in BOOLEAN
    BY Zenon
  <2> QED
    BY <1>3, <2>1, <2>2, <2>3, <2>4, <2>5, <2>6 DEF SemTypes
<1>7. \A p \in Procs : SemSectionsAt(p) /\ RegisterAt(p)
  BY <1>3 DEF SemSectionsAt, RegisterAt, SemInside
<1>8. CountIsNest /\ OthersOutside /\ WindowClosed
  BY ProcsAssumption DEF CountIsNest, OthersOutside, WindowClosed
<1>9. SemRunning
  BY <1>3, <1>4, <1>5, ProcsAssumption DEF SemRunning, Live, Dead
<1>10. SemReady
  BY <1>2, <1>3, <1>4, <1>5 DEF SemReady, Live, Dead
<1>11. \A p \in Procs : WaitingAt(p) /\ GrantAt(p) /\ CallAt(p)
  BY <1>3, <1>4 DEF WaitingAt, GrantAt, CallAt, SemLabels
<1>12. \A s \in Sems : QueueAt(s) /\ OwnerAt(s)
  <2> SUFFICES ASSUME NEW s \in Sems PROVE QueueAt(s) /\ OwnerAt(s)
    OBVIOUS
  <2>1. queue[s] = <<>> /\ s # NoSem /\ owner[s] = NoProc /\ nestCount[s] = 0
    BY SemsAssumption
  <2>2. QueueAt(s)
    BY <1>3, <2>1, EmptyMembers DEF QueueAt
  <2>3. \A p \in Procs : held[p][s] = 0 /\ ~Taken(p, s) /\ ~Passing(p, s)
    BY <1>3, <1>4 DEF Taken, Passing
  <2> QED
    BY <2>1, <2>2, <2>3, ProcsAssumption DEF OwnerAt
<1> QED
  BY <1>6, <1>7, <1>8, <1>9, <1>10, <1>11, <1>12 DEF SemInv, SemKernel, SemCalls

\* Processes are neither created nor do they exit.
LEMMA SemContinueInv ==
  ASSUME SemInv, NEW p \in Procs, SemContinue(p)
  PROVE  SemInv'
<1>1. CASE Continue(p) /\ UNCHANGED <<semVars, inhVars, arg, held>>
  <2>1. pc[p] \in SemPlaces
    BY DEF SemInv, SemKernel, SemTypes
  <2>2. ~(\/ FreeLoop(p) \/ FirstZombie(p) \/ RemZombie(p) \/ ZombieTest(p) \/ FreeZombie(p)
          \/ FindSlot(p) \/ TakeSlot(p) \/ InitStruct(p) \/ EnqueueNew(p)
          \/ AddZombie(p) \/ ClearCurrent(p) \/ ExitSwitch(p))
    BY <2>1
       DEF SemPlaces, SemLabels, CountLabels, At, FreeLoop, FirstZombie, RemZombie, ZombieTest,
           FreeZombie, FindSlot, TakeSlot, InitStruct, EnqueueNew, AddZombie, ClearCurrent,
           ExitSwitch
  <2>3. \/ CountLoad(p) \/ ForbidStore(p) \/ PermitStore(p) \/ AppPermit(p) \/ Reenqueue(p)
    BY <1>1, <2>2 DEF Continue
  <2> QED
    BY <1>1, <2>3, CountLoadSem, ForbidStoreSem, PermitStoreSem, AppPermitSem, ReenqueueSem
<1>2. CASE ObtTest(p) \/ ObtTake(p) \/ ObtBlock(p) \/ Inherit(p) \/ ObtSwitch(p) \/ ObtDone(p)
  BY <1>2, ObtTestSem, ObtTakeSem, ObtBlockSem, InheritSem, ObtSwitchSem, ObtDoneSem
<1>3. CASE AttTest(p) \/ AttTake(p)
  BY <1>3, AttTestSem, AttTakeSem
<1>4. CASE RelDec(p) \/ RelFree(p) \/ RelPass(p) \/ RelWake(p)
  BY <1>4, RelDecSem, RelFreeSem, RelPassSem, RelWakeSem
<1> QED
  BY <1>1, <1>2, <1>3, <1>4 DEF SemContinue

\* What the application decides preserves the invariant.
LEMMA SemDecideInv ==
  ASSUME SemInv, NEW p \in Procs, SemDecide(p)
  PROVE  SemInv'
<1>1. CASE (AppForbid(p) \/ Yield(p)) /\ UNCHANGED <<semVars, inhVars, arg, held>>
  BY <1>1, AppForbidSem, YieldSem
<1>2. ASSUME NEW s \in Sems, Obtain(p, s) \/ Attempt(p, s) \/ Release(p, s) PROVE SemInv'
  <2>1. CASE Obtain(p, s)
    BY <2>1, CallSemSem DEF Obtain
  <2>2. CASE Attempt(p, s)
    BY <2>2, CallSemSem DEF Attempt
  <2>3. CASE Release(p, s)
    BY <2>3, CallSemSem DEF Release
  <2> QED
    BY <1>2, <2>1, <2>2, <2>3
<1>3. ASSUME NEW q \in Procs, NEW v \in Prios, SetPriInh(p, q, v) PROVE SemInv'
  BY <1>3, SetPriSem
<1> QED
  BY <1>1, <1>2, <1>3 DEF SemDecide

\* Every step does, when no interrupt may preempt the window.
LEMMA SemNextInv ==
  ASSUME SemInv, ~(Preempt /\ WindowIrq), [SemNext]_allVars
  PROVE  SemInv'
<1>1. CASE SemNext
  BY <1>1, SemContinueInv, SemDecideInv, TickSem, IsrExitSem DEF SemNext
<1>2. CASE UNCHANGED allVars
  <2>1. /\ UNCHANGED <<current, cpu, idle, ready, zombies, pri, countVars, pc, cont, obj,
                       semVars, inhVars, arg, held, isr, quantum>>
    BY <1>2 DEF allVars, vars, countVars
  <2>2. isr' \in BOOLEAN /\ quantum' \in 0..Quantum /\ WindowClosed'
    BY <2>1 DEF SemInv, SemKernel, SemTypes, WindowClosed
  <2> QED
    BY <2>1, <2>2, KernelSame
<1> QED
  BY <1>1, <1>2

\* The invariant holds in every state of Sem.
THEOREM SemInvariance ==
  ASSUME ~(Preempt /\ WindowIrq)
  PROVE  SemSpec => []SemInv
<1>1. SemInv /\ [SemNext]_allVars => SemInv'
  BY SemNextInv
<1> QED
  BY <1>1, SemInitInv, PTL DEF SemSpec

(***************************************************************************)
(* The types of the variables.                                             *)
(***************************************************************************)
THEOREM SemTypeCorrect ==
  ASSUME ~(Preempt /\ WindowIrq)
  PROVE  SemSpec => []SemTypeOK
<1>1. SemInv => SemTypeOK
  <2> SUFFICES ASSUME SemTypes PROVE SemTypeOK
    BY DEF SemInv, SemKernel
  <2>1. /\ pc \in [Procs -> Labels \cup SemLabels] /\ cont \in [Procs -> Labels \cup SemLabels]
    BY DEF SemTypes, SemPlaces, SemReturns, Labels, OutsideLabels, CountLabels, Dead
  <2> QED
    BY <2>1 DEF SemTypes, SemTypeOK
<1> QED
  BY <1>1, SemInvariance, PTL

(***************************************************************************)
(* Only one process at a time is between its sem_obtain() and its last     *)
(* sem_release(): the semaphore has it as its owner and counts right.      *)
(***************************************************************************)
THEOREM SemaphoresExclude ==
  ASSUME ~(Preempt /\ WindowIrq)
  PROVE  SemSpec => []MutualExclusion
<1>1. ASSUME SemInv, NEW s \in Sems, NEW p \in Procs
      PROVE  LET done == pc[p] = "obt_done" /\ arg[p] = s IN
             /\ held[p][s] > 0 =>
                  /\ owner[s] = p
                  /\ \A q \in Procs \ {p} : held[q][s] = 0
                  /\ Quiet => nestCount[s] = held[p][s] + IF done THEN 1 ELSE 0
             /\ done /\ (p = current \/ Contains(ready, p)) => owner[s] = p
  <2> DEFINE done == pc[p] = "obt_done" /\ arg[p] = s
  <2>1. OwnerAt(s) /\ WaitingAt(p) /\ SemSectionsAt(p) /\ SemTypes
    BY <1>1 DEF SemInv, SemKernel, SemCalls
  <2>2. ASSUME held[p][s] > 0
        PROVE  /\ owner[s] = p
               /\ \A q \in Procs \ {p} : held[q][s] = 0
               /\ Quiet => nestCount[s] = held[p][s] + IF done THEN 1 ELSE 0
    <3>1. owner[s] = p
      BY <2>1, <2>2 DEF OwnerAt
    <3>2. \A q \in Procs \ {p} : held[q][s] = 0
      <4>1. \A q \in Procs \ {p} : held[q][s] \in Nat /\ ~(held[q][s] > 0)
        BY <2>1, <3>1 DEF OwnerAt, SemTypes
      <4> QED
        BY <4>1
    <3>3. ASSUME Quiet PROVE done <=> Taken(p, s)
      <4>1. ~(pc[p] \in CountLabels /\ cont[p] = "obt_done")
        BY <2>1, <3>3 DEF SemSectionsAt, Quiet, CountLabels
      <4>2. done => ~Blocked(p)
        BY <2>1, <3>1 DEF WaitingAt, OwnerAt
      <4> QED
        BY <4>1, <4>2 DEF Taken, Towards
    <3> QED
      BY <2>1, <3>1, <3>2, <3>3 DEF OwnerAt
  <2>3. ASSUME done, p = current \/ Contains(ready, p) PROVE owner[s] = p
    <3>1. ~Leaving(p)
      BY <2>3 DEF Leaving, Towards, CountLabels
    <3>2. ~Blocked(p)
      <4>1. CASE p = current
        BY <1>1, <3>1, <4>1, ProcsAssumption DEF SemInv, SemKernel, SemRunning
      <4>2. CASE Contains(ready, p)
        BY <1>1, <4>2 DEF SemInv, SemKernel, SemReady
      <4> QED
        BY <2>3, <4>1, <4>2
    <3> QED
      BY <2>1, <2>3, <3>2 DEF OwnerAt, Taken, Towards
  <2> QED
    BY <2>2, <2>3
<1>2. SemInv => MutualExclusion
  BY <1>1 DEF MutualExclusion
<1> QED
  BY <1>2, SemInvariance, PTL

(***************************************************************************)
(* A semaphore that is waited for has an owner; who waits for it does not  *)
(* own it.                                                                 *)
(***************************************************************************)
THEOREM QueuesHaveOwners ==
  ASSUME ~(Preempt /\ WindowIrq)
  PROVE  SemSpec => []NoOrphanQueue
<1>1. ASSUME SemInv, NEW s \in Sems
      PROVE  /\ queue[s] # <<>> => owner[s] # NoProc /\ ~Contains(queue[s], owner[s])
             /\ Quiet => (owner[s] = NoProc) = (nestCount[s] = 0)
  <2>1. OwnerAt(s) /\ QueueAt(s) /\ SemTypes
    BY <1>1 DEF SemInv, SemKernel, SemCalls
  <2>2. ASSUME queue[s] # <<>> PROVE owner[s] # NoProc /\ ~Contains(queue[s], owner[s])
    <3>1. owner[s] \in Procs
      BY <2>1, <2>2 DEF OwnerAt, SemTypes
    <3> QED
      BY <2>1, <3>1, ProcsAssumption DEF OwnerAt, QueueAt
  <2>3. ASSUME Quiet PROVE owner[s] = NoProc <=> nestCount[s] = 0
    <3>1. \A p \in Procs : ~Passing(p, s)
      BY <1>1, <2>3 DEF SemInv, SemKernel, SemSectionsAt, SemInside, Quiet, Passing
    <3> QED
      BY <2>1, <3>1 DEF OwnerAt, SemTypes
  <2> QED
    BY <2>2, <2>3
<1>2. SemInv => NoOrphanQueue
  BY <1>1 DEF NoOrphanQueue
<1> QED
  BY <1>2, SemInvariance, PTL

(***************************************************************************)
(* Each process is in one place: none is on two lists through its one link *)
(* node, and none is lost between the wait queue and the ready list.       *)
(***************************************************************************)
THEOREM WaitersInOnePlace ==
  ASSUME ~(Preempt /\ WindowIrq)
  PROVE  SemSpec => []OnePlaceSem
<1>1. ASSUME SemInv PROVE QueuesValid
  <2>1. \A s \in Sems : QueueAt(s)
    BY <1>1 DEF SemInv, SemCalls
  <2>2. \A p \in Procs : Queued(p) => Blocked(p)
    BY <2>1, SemsAssumption DEF Queued, QueueAt, Blocked
  <2>3. \A p \in Procs : Blocked(p) => ~Contains(ready, p)
    BY <1>1 DEF SemInv, SemKernel, SemReady
  <2>4. \A p \in Procs, s, t \in Sems : Contains(queue[s], p) /\ Contains(queue[t], p) => s = t
    BY <2>1 DEF QueueAt
  <2> QED
    BY <2>1, <2>2, <2>3, <2>4 DEF QueuesValid, QueueAt
<1>2. ASSUME SemInv, NEW p \in Procs, Live(p)
      PROVE  \/ p = current \/ Contains(ready, p) \/ Queued(p)
             \/ \E r \in Procs : obj[r] = p /\ (pc[r] = "rel_wake" \/ cont[r] = "rel_wake")
  <2>1. CASE p = cpu /\ ~idle
    BY <1>2, <2>1 DEF SemInv, SemKernel, SemRunning
  <2>2. CASE Blocked(p)
    <3>1. PICK s \in Sems : blockedBy[p] = s
      BY <1>2, <2>2 DEF SemInv, SemKernel, SemTypes, Blocked
    <3> QED
      BY <1>2, <3>1 DEF SemInv, SemCalls, QueueAt, Queued
  <2>3. CASE Granted(p)
    BY <2>3 DEF Granted, Waking, Towards
  <2>4. CASE ~Blocked(p) /\ ~Granted(p) /\ (p # cpu \/ idle)
    BY <1>2, <2>4 DEF SemInv, SemKernel, SemReady
  <2> QED
    BY <2>1, <2>2, <2>3, <2>4
<1>3. SemInv => OnePlaceSem
  BY <1>1, <1>2 DEF OnePlaceSem, NoneLost
<1> QED
  BY <1>3, SemInvariance, PTL
-----------------------------------------------------------------------------
(***************************************************************************)
(* Priority inheritance, while the application does not call               *)
(* proc_setPri().  Between two sections every priority is exact; in        *)
(* pri_inheritBlock() it is for every process but the one that the loop    *)
(* has come to, whose priority is either exact or to be raised to that of  *)
(* the caller.                                                             *)
(***************************************************************************)
\* The priorities among which that of r is the highest.
Inherited(r) == {origPri[r]} \cup {inhPri[q] : q \in inhList[r]}

\* p has come to r in the loop.
Boosting(p, r) == pc[p] = "inherit" /\ obj[p] = r

\* The inheritance list of r, and the priority by which who waits is in one.
InhListAt(r) == inhList[r] = {q \in Procs : Blocked(q) /\ owner[blockedBy[q]] = r}
InhPriAt(q)  == Blocked(q) => inhPri[q] = pri[q]

PriorityAt(r) ==
  /\ (\A p \in Procs : ~Boosting(p, r)) => IsHighest(pri[r], Inherited(r))
  /\ \A p \in Procs : Boosting(p, r) =>
       /\ inhPri[p] <= pri[r] => IsHighest(pri[r], Inherited(r))
       /\ inhPri[p] > pri[r] => IsHighest(inhPri[p], Inherited(r))

InhInv == \A r \in Procs : InhListAt(r) /\ InhPriAt(r) /\ PriorityAt(r)

\* The highest is one: no two numbers are each the highest of a set.
LEMMA HighestUnique ==
  ASSUME NEW S, S \subseteq Int, NEW v, NEW w, IsHighest(v, S), IsHighest(w, S)
  PROVE  v = w
BY DEF IsHighest

\* These priorities are numbers.
LEMMA InheritedInts ==
  ASSUME SemTypes, NEW r \in Procs
  PROVE  Inherited(r) \subseteq Int
BY DEF SemTypes, Inherited

\* __prio_proc() of any process returns the highest of these.
LEMMA ProcPriInherited ==
  ASSUME SemTypes, NEW r \in Procs
  PROVE  IsHighest(ProcPri(r, origPri, inhList, inhPri), Inherited(r))
<1>1. /\ origPri \in [Procs -> Int] /\ inhList \in [Procs -> SUBSET Procs]
      /\ inhPri \in [Procs -> Int]
  BY DEF SemTypes
<1>2. IsHighest(ProcPri(r, origPri, inhList, inhPri),
                {origPri[r]} \cup {inhPri[q] : q \in inhList[r]})
  BY <1>1, ProcPriHighest
<1> QED
  BY <1>2 DEF Inherited

\* Only the process that runs is in the loop.
LEMMA OnlyOneBoosts ==
  ASSUME SemInv, NEW p \in Procs, pc[p] = "inherit"
  PROVE  p = cpu
BY OutsideOthers DEF SemInside

(***************************************************************************)
(* A step that leaves the priorities, the lists and the owners of the      *)
(* semaphores that are waited for alone keeps the priorities exact.        *)
(***************************************************************************)
LEMMA InhFrame ==
  ASSUME InhInv,
         UNCHANGED <<pri, origPri, inhPri, inhList, blockedBy>>,
         \A q \in Procs : Blocked(q) => owner'[blockedBy[q]] = owner[blockedBy[q]],
         \A q \in Procs : pc'[q] = "inherit" \/ pc[q] = "inherit" =>
                            pc'[q] = pc[q] /\ obj'[q] = obj[q]
  PROVE  InhInv'
<1> SUFFICES ASSUME NEW r \in Procs PROVE InhListAt(r)' /\ InhPriAt(r)' /\ PriorityAt(r)'
  BY DEF InhInv
<1>1. InhListAt(r) /\ InhPriAt(r) /\ PriorityAt(r)
  BY DEF InhInv
<1>2. \A q \in Procs : Blocked(q)' = Blocked(q) /\ blockedBy'[q] = blockedBy[q]
  BY DEF Blocked
<1>3. InhListAt(r)'
  BY <1>1, <1>2 DEF InhListAt
<1>4. InhPriAt(r)'
  BY <1>1, <1>2 DEF InhPriAt
<1>5. \A q \in Procs : Boosting(q, r)' <=> Boosting(q, r)
  BY DEF Boosting
<1>6. Inherited(r)' = Inherited(r)
  BY DEF Inherited
<1>7. PriorityAt(r)'
  BY <1>1, <1>5, <1>6 DEF PriorityAt
<1> QED
  BY <1>3, <1>4, <1>7

\* A step of the process that runs, outside the loop.
LEMMA OwnInh ==
  ASSUME SemInv, InhInv, NEW p \in Procs, p = cpu,
         UNCHANGED <<pri, origPri, inhPri, inhList, blockedBy>>,
         \A q \in Procs : Blocked(q) => owner'[blockedBy[q]] = owner[blockedBy[q]],
         \A q \in Procs \ {p} : pc'[q] = pc[q],
         pc[p] # "inherit", pc'[p] # "inherit"
  PROVE  InhInv'
<1>1. \A q \in Procs \ {p} : pc[q] # "inherit"
  BY OnlyOneBoosts
<1> QED
  BY <1>1, InhFrame

\* sem_obtain() puts the caller into the list of the owner.
LEMMA ObtBlockInh ==
  ASSUME SemInv, InhInv, NEW p \in Procs, ObtBlock(p)
  PROVE  InhInv'
<1> USE DEF ObtBlock, At, Goto
<1>0. PICK s, o : s = arg[p] /\ o = owner[s]
  OBVIOUS
<1>1. p = cpu /\ ~idle /\ SemTypes /\ pc[p] = "obt_block"
  BY DEF SemInv, SemKernel
<1>2. s \in Sems /\ o \in Procs /\ o # p /\ ~Blocked(p)
  <2>1. CallAt(p) /\ WaitingAt(p)
    BY <1>1, SemInvAt
  <2>2. ~Towards(p, {"inherit", "obt_switch"})
    BY <1>1 DEF Towards, CountLabels
  <2>3. s \in Sems
    BY <1>0, <1>1, <2>1 DEF CallAt, Towards, SemLabels
  <2>4. o \in Procs /\ o # p
    BY <1>0, <1>1, <2>1, <2>3 DEF CallAt, SemTypes
  <2>5. ~Blocked(p)
    BY <1>1, <2>1, <2>2 DEF WaitingAt, Leaving
  <2> QED
    BY <2>3, <2>4, <2>5
<1>3. \A q \in Procs : pc[q] # "inherit"
  BY <1>1, OnlyOneBoosts
<1>4. \A r \in Procs : /\ InhListAt(r) /\ InhPriAt(r)
                       /\ IsHighest(pri[r], Inherited(r))
  BY <1>3 DEF InhInv, PriorityAt, Boosting
<1>5. ProcPri(p, origPri, inhList, inhPri) = pri[p]
  <2>1. IsHighest(ProcPri(p, origPri, inhList, inhPri), Inherited(p))
    BY <1>1, ProcPriInherited
  <2> QED
    BY <1>1, <1>4, <2>1, InheritedInts, HighestUnique
<1>6. /\ inhPri' = [inhPri EXCEPT ![p] = pri[p]] /\ origPri' = origPri /\ pri' = pri
      /\ inhList' = [inhList EXCEPT ![o] = @ \cup {p}]
      /\ blockedBy' = [blockedBy EXCEPT ![p] = s] /\ owner' = owner
      /\ pc' = [pc EXCEPT ![p] = "inherit"] /\ obj' = [obj EXCEPT ![p] = o]
  BY <1>0, <1>5 DEF semVars
<1>7. /\ pc'[p] = "inherit" /\ obj'[p] = o /\ blockedBy'[p] = s /\ inhPri'[p] = pri[p]
      /\ \A q \in Procs \ {p} : /\ pc'[q] # "inherit" /\ blockedBy'[q] = blockedBy[q]
                               /\ inhPri'[q] = inhPri[q]
      /\ inhList'[o] = inhList[o] \cup {p}
      /\ \A r \in Procs \ {o} : inhList'[r] = inhList[r]
  BY <1>1, <1>2, <1>3, <1>6 DEF SemTypes
<1>8. /\ Blocked(p)' /\ \A q \in Procs \ {p} : Blocked(q)' = Blocked(q)
      /\ s # NoSem
  BY <1>2, <1>7, SemsAssumption DEF Blocked
<1> HIDE DEF ObtBlock
<1>9. ASSUME NEW r \in Procs PROVE InhListAt(r)'
  <2>1. inhList[r] = {q \in Procs : Blocked(q) /\ owner[blockedBy[q]] = r}
    BY <1>4 DEF InhListAt
  <2>2. \A q \in Procs : q \in inhList'[r] <=> Blocked(q)' /\ owner'[blockedBy'[q]] = r
    <3>1. p \in inhList'[r] <=> Blocked(p)' /\ owner'[blockedBy'[p]] = r
      BY <1>0, <1>2, <1>4, <1>6, <1>7, <1>8, <2>1
    <3>2. ASSUME NEW q \in Procs \ {p}
          PROVE  q \in inhList'[r] <=> Blocked(q)' /\ owner'[blockedBy'[q]] = r
      BY <1>6, <1>7, <1>8, <2>1
    <3> QED
      BY <3>1, <3>2
  <2>3. inhList'[r] \subseteq Procs
    <3>1. inhList[r] \subseteq Procs
      BY <2>1
    <3>2. inhList'[r] \subseteq inhList[r] \cup {p}
      BY <1>7
    <3> QED
      BY <3>1, <3>2
  <2> QED
    BY <2>2, <2>3 DEF InhListAt
<1>10. ASSUME NEW r \in Procs PROVE InhPriAt(r)'
  BY <1>4, <1>6, <1>7, <1>8 DEF InhPriAt
<1>11. ASSUME NEW r \in Procs PROVE p \notin inhList[r]
  BY <1>2, <1>4 DEF InhListAt
<1>12. ASSUME NEW r \in Procs, NEW q \in inhList[r] PROVE inhPri'[q] = inhPri[q]
  <2>1. q \in Procs /\ q # p
    BY <1>1, <1>11 DEF SemTypes
  <2> QED
    BY <1>7, <2>1
<1>13. ASSUME NEW r \in Procs PROVE PriorityAt(r)'
  <2>1. CASE r # o
    <3>1. Inherited(r)' = Inherited(r)
      BY <1>6, <1>7, <1>12, <2>1 DEF Inherited
    <3>2. \A q \in Procs : ~Boosting(q, r)'
      BY <1>7, <2>1 DEF Boosting
    <3> QED
      BY <1>4, <1>6, <3>1, <3>2 DEF PriorityAt
  <2>2. CASE r = o
    <3>1. Inherited(o)' = Inherited(o) \cup {inhPri'[p]}
      BY <1>2, <1>6, <1>7, <1>12 DEF Inherited
    <3>2. \A q \in Procs : Boosting(q, o)' <=> q = p
      BY <1>7 DEF Boosting
    <3>3. IsHighest(pri[o], Inherited(o)) /\ pri' = pri
      BY <1>2, <1>4, <1>6
    <3>4. Inherited(o) \subseteq Int /\ pri[o] \in Int /\ inhPri'[p] \in Int
      BY <1>1, <1>2, <1>7, InheritedInts DEF SemTypes
    <3>5. inhPri'[p] <= pri[o] => IsHighest(pri[o], Inherited(o)')
      BY <3>1, <3>3, <3>4 DEF IsHighest
    <3>6. inhPri'[p] > pri[o] => IsHighest(inhPri'[p], Inherited(o)')
      BY <3>1, <3>3, <3>4 DEF IsHighest
    <3> QED
      BY <2>2, <3>2, <3>3, <3>5, <3>6 DEF PriorityAt
  <2> QED
    BY <2>1, <2>2
<1> QED
  BY <1>9, <1>10, <1>13 DEF InhInv

\* A round of the loop of pri_inheritBlock().
LEMMA InheritInh ==
  ASSUME SemInv, InhInv, NEW p \in Procs, Inherit(p)
  PROVE  InhInv'
<1>0. PICK o, next : o = obj[p] /\ next = owner[blockedBy[o]]
  OBVIOUS
<1>1. /\ p = cpu /\ SemTypes /\ pc[p] = "inherit"
      /\ UNCHANGED <<owner, origPri, blockedBy>>
      /\ \A q \in Procs \ {p} : pc'[q] = pc[q]
  <2>1. SemTypes
    BY DEF SemInv, SemKernel
  <2>2. p = cpu /\ pc[p] = "inherit" /\ UNCHANGED <<owner, origPri, blockedBy>>
    BY DEF Inherit, At, semVars
  <2>3. \E label : pc' = [pc EXCEPT ![p] = label]
    <3>1. pc' = [pc EXCEPT ![p] = "permit"] \/ pc' = pc
      BY DEF Inherit, CallCount
    <3>2. pc = [pc EXCEPT ![p] = "inherit"]
      BY <2>1, <2>2 DEF SemTypes
    <3> QED
      BY <3>1, <3>2
  <2>4. \A q \in Procs \ {p} : pc'[q] = pc[q]
    BY <2>1, <2>3 DEF SemTypes
  <2> QED
    BY <2>1, <2>2, <2>4
<1>2. o \in Procs /\ Blocked(p) /\ ~idle
  <2>1. ~idle /\ CallAt(p) /\ WaitingAt(p)
    BY <1>1, SemInvAt DEF Inherit, At
  <2>2. Leaving(p)
    BY <1>1 DEF Leaving, Towards
  <2> QED
    BY <1>0, <1>1, <2>1, <2>2 DEF CallAt, WaitingAt
<1>3. \A q \in Procs : Boosting(q, o) <=> q = p
  BY <1>0, <1>1, OnlyOneBoosts DEF Boosting
<1>4. \A r \in Procs : InhListAt(r) /\ InhPriAt(r) /\ PriorityAt(r)
  BY DEF InhInv
<1>5. \A r \in Procs \ {o} : IsHighest(pri[r], Inherited(r))
  <2>1. \A q \in Procs, r \in Procs \ {o} : ~Boosting(q, r)
    BY <1>0, <1>1, OnlyOneBoosts DEF Boosting
  <2> QED
    BY <1>4, <2>1 DEF PriorityAt
<1>6. /\ inhPri[p] <= pri[o] => IsHighest(pri[o], Inherited(o))
      /\ inhPri[p] > pri[o] => IsHighest(inhPri[p], Inherited(o))
  BY <1>2, <1>3, <1>4 DEF PriorityAt
<1>7. pri[o] \in Int /\ inhPri[p] \in Int /\ inhPri[p] = pri[p]
  BY <1>1, <1>2, <1>4 DEF SemTypes, InhPriAt
<1>8. CASE inhPri[p] <= pri[o]
  <2>1. UNCHANGED <<pri, inhPri, inhList, owner, origPri, blockedBy>> /\ pc'[p] # "inherit"
    <3>1. ~(inhPri[p] > pri[o])
      BY <1>7, <1>8
    <3>2. CallCount(p, "permit", "obt_switch") /\ UNCHANGED <<pri, inhPri, inhList>>
      BY <1>0, <3>1 DEF Inherit
    <3> QED
      BY <1>1, <3>2 DEF CallCount, SemTypes
  <2>2. \A q \in Procs : pc'[q] # "inherit"
    BY <1>1, <2>1, OnlyOneBoosts
  <2>3. \A q, r \in Procs : ~Boosting(q, r)'
    BY <2>2 DEF Boosting
  <2>4. \A r \in Procs : IsHighest(pri[r], Inherited(r))
    BY <1>5, <1>6, <1>8
  <2>5. \A q \in Procs : Blocked(q)' = Blocked(q)
    BY <2>1 DEF Blocked
  <2>6. ASSUME NEW r \in Procs PROVE InhListAt(r)' /\ InhPriAt(r)' /\ PriorityAt(r)'
    <3>1. Inherited(r)' = Inherited(r)
      BY <2>1 DEF Inherited
    <3> QED
      BY <1>4, <2>1, <2>3, <2>4, <2>5, <3>1 DEF InhListAt, InhPriAt, PriorityAt
  <2> QED
    BY <2>6 DEF InhInv
<1>9. CASE inhPri[p] > pri[o]
  <2>1. ProcPri(o, origPri, inhList, inhPri) = inhPri[p]
    <3>1. IsHighest(ProcPri(o, origPri, inhList, inhPri), Inherited(o))
      BY <1>1, <1>2, ProcPriInherited
    <3> QED
      BY <1>1, <1>2, <1>6, <1>9, <3>1, InheritedInts, HighestUnique
  <2>2. o # p
    BY <1>7, <1>9
  <2>3. pri' = [pri EXCEPT ![o] = inhPri[p]]
    BY <1>0, <1>2, <1>7, <1>9, <2>1 DEF Inherit, UpdatePri
  <2>4. /\ pri'[o] = inhPri[p]
        /\ \A q \in Procs \ {o} : pri'[q] = pri[q]
    BY <1>1, <1>2, <2>3 DEF SemTypes
  <2>5. \A q \in Procs : Blocked(q)' = Blocked(q)
    BY <1>1 DEF Blocked
  <2>6. CASE ~Blocked(o)
    <3>1. UNCHANGED <<inhPri, inhList>> /\ pc'[p] # "inherit"
      BY <1>0, <1>1, <1>2, <1>7, <1>9, <2>6 DEF Inherit, CallCount, SemTypes, Blocked
    <3>2. \A q \in Procs : pc'[q] # "inherit"
      BY <1>1, <3>1, OnlyOneBoosts
    <3>3. \A q, r \in Procs : ~Boosting(q, r)'
      BY <3>2 DEF Boosting
    <3>4. ASSUME NEW r \in Procs PROVE InhListAt(r)' /\ InhPriAt(r)' /\ PriorityAt(r)'
      <4>1. Inherited(r)' = Inherited(r)
        BY <1>1, <3>1 DEF Inherited
      <4>2. IsHighest(pri'[r], Inherited(r))
        BY <1>5, <1>6, <1>9, <2>4
      <4>3. InhPriAt(r)'
        BY <1>4, <2>4, <2>5, <2>6, <3>1 DEF InhPriAt
      <4>4. InhListAt(r)'
        BY <1>1, <1>4, <2>5, <3>1 DEF InhListAt
      <4> QED
        BY <3>3, <4>1, <4>2, <4>3, <4>4 DEF PriorityAt
    <3> QED
      BY <3>4 DEF InhInv
  <2>7. CASE Blocked(o)
    <3>1. blockedBy[o] \in Sems /\ next \in Procs /\ next # o
      <4>1. blockedBy[o] \in Sems
        BY <1>1, <1>2, <2>7 DEF SemTypes, Blocked
      <4>2. QueueAt(blockedBy[o]) /\ OwnerAt(blockedBy[o])
        BY <4>1 DEF SemInv, SemCalls
      <4>3. queue[blockedBy[o]] # <<>>
        BY <1>2, <4>2 DEF QueueAt, Contains
      <4>4. owner[blockedBy[o]] \in Procs
        BY <1>0, <1>1, <4>1, <4>2, <4>3 DEF OwnerAt, SemTypes
      <4> QED
        BY <1>0, <1>2, <4>1, <4>2, <4>4 DEF OwnerAt
    <3>2. /\ inhPri' = [inhPri EXCEPT ![o] = inhPri[p]]
          /\ inhList' = [q \in Procs |-> IF q = next THEN inhList[q] \cup {o}
                                                     ELSE inhList[q] \ {o}]
          /\ obj' = [obj EXCEPT ![p] = next]
          /\ pc' = pc
      BY <1>0, <1>2, <1>7, <1>9, <2>4, <2>7 DEF Inherit, Blocked
    <3>3. \A r \in Procs : o \in inhList[r] <=> r = next
      BY <1>0, <1>2, <1>4, <2>7 DEF InhListAt
    <3>4. \A r \in Procs : inhList'[r] = inhList[r]
      BY <3>2, <3>3
    <3>5. /\ inhPri'[o] = inhPri[p]
          /\ \A q \in Procs \ {o} : inhPri'[q] = inhPri[q]
          /\ obj'[p] = next
      BY <1>1, <1>2, <3>2 DEF SemTypes
    <3>6. \A q, r \in Procs : Boosting(q, r)' <=> q = p /\ r = next
      BY <1>1, <3>2, <3>5, OnlyOneBoosts DEF Boosting
    <3>7. ASSUME NEW r \in Procs PROVE InhListAt(r)'
      BY <1>1, <1>4, <2>5, <3>4 DEF InhListAt
    <3>8. ASSUME NEW r \in Procs PROVE InhPriAt(r)'
      BY <1>4, <2>4, <2>5, <3>5 DEF InhPriAt
    <3>9. ASSUME NEW r \in Procs, r # next PROVE PriorityAt(r)'
      <4>1. \A q \in inhList[r] : q \in Procs /\ q # o
        BY <1>1, <3>3, <3>9 DEF SemTypes
      <4>2. Inherited(r)' = Inherited(r)
        BY <1>1, <3>4, <3>5, <4>1 DEF Inherited
      <4>3. IsHighest(pri'[r], Inherited(r))
        BY <1>5, <1>6, <1>9, <2>4
      <4> QED
        BY <3>6, <3>9, <4>2, <4>3 DEF PriorityAt
    <3>10. PriorityAt(next)'
      <4>1. /\ Inherited(next)' = {origPri[next]} \cup {inhPri'[q] : q \in inhList[next]}
            /\ inhList[next] \subseteq Procs /\ o \in inhList[next]
            /\ inhPri \in [Procs -> Int] /\ origPri[next] \in Int
        BY <1>1, <1>2, <3>1, <3>3, <3>4 DEF Inherited, SemTypes
      <4>2. pri'[next] = pri[next] /\ inhPri'[p] = inhPri[p] /\ pri[next] \in Int
        BY <1>1, <2>2, <2>4, <3>1, <3>5 DEF SemTypes
      <4>3. /\ pri[next] = origPri[next] \/ \E q \in inhList[next] : pri[next] = inhPri[q]
            /\ pri[next] >= origPri[next]
            /\ \A q \in inhList[next] : pri[next] >= inhPri[q]
        BY <1>5, <3>1 DEF IsHighest, Inherited
      <4>4. inhPri[o] < inhPri[p]
        BY <1>2, <1>4, <1>9, <2>7 DEF InhPriAt
      <4>5. CASE inhPri[p] <= pri[next]
        <5>1. pri[next] # inhPri[o]
          BY <1>7, <4>2, <4>4, <4>5
        <5>2. pri[next] \in Inherited(next)'
          BY <3>5, <4>1, <4>3, <5>1
        <5>3. \A y \in Inherited(next)' : pri[next] >= y
          BY <3>5, <4>1, <4>3, <4>5, <1>7, <4>2
        <5>4. ~(inhPri[p] > pri[next])
          BY <4>2, <4>5, <1>7
        <5> QED
          BY <3>1, <3>6, <4>2, <5>2, <5>3, <5>4 DEF PriorityAt, IsHighest
      <4>6. CASE ~(inhPri[p] <= pri[next])
        <5>1. inhPri[p] \in Inherited(next)'
          BY <3>5, <4>1
        <5>2. \A y \in Inherited(next)' : inhPri[p] >= y
          BY <1>7, <3>5, <4>1, <4>2, <4>3, <4>6
        <5> QED
          BY <3>1, <3>6, <4>2, <4>6, <5>1, <5>2 DEF PriorityAt, IsHighest
      <4> QED
        BY <4>5, <4>6
    <3> QED
      BY <3>7, <3>8, <3>9, <3>10 DEF InhInv
  <2> QED
    BY <2>6, <2>7
<1> QED
  BY <1>7, <1>8, <1>9

\* sem_release() hands the semaphore over: the others that wait for it go over
\* to the list of the new owner.
LEMMA RelPassInh ==
  ASSUME SemInv, InhInv, NEW p \in Procs, RelPass(p)
  PROVE  InhInv'
<1>1. p = cpu /\ ~idle /\ pc[p] = "rel_pass" /\ queue[arg[p]] # <<>>
  BY DEF RelPass, At
<1>2. /\ SemTypes /\ WaitingAt(p) /\ CallAt(p) /\ (Blocked(p) => Leaving(p))
  BY <1>1, SemInvAt
<1>3. PICK s \in Sems : arg[p] = s
  BY <1>1, <1>2 DEF CallAt, Towards, SemLabels
<1>4. PICK n : n = Head(queue[s])
  OBVIOUS
<1>5. owner[s] = p /\ ~Blocked(p)
  <2>1. Passing(p, s) /\ ~Leaving(p)
    BY <1>1, <1>3 DEF Passing, Leaving, Towards, CountLabels
  <2>2. OwnerAt(s)
    BY DEF SemInv, SemCalls
  <2> QED
    BY <1>2, <2>1, <2>2 DEF OwnerAt
<1>6. n \in Procs /\ blockedBy[n] = s /\ n # p /\ s # NoSem
  <2>1. queue[s] \in Seq(Procs) /\ queue[s] # <<>> /\ NoDup(queue[s]) /\ QueueAt(s)
    BY <1>1, <1>2, <1>3 DEF SemTypes, SemInv, SemCalls, QueueAt
  <2>2. n \in Procs /\ Contains(queue[s], n)
    BY <1>4, <2>1, TailMembers
  <2>3. blockedBy[n] = s
    BY <2>1, <2>2 DEF QueueAt
  <2> QED
    BY <1>5, <2>2, <2>3, SemsAssumption DEF Blocked
<1>7. PICK moved : moved = {q \in inhList[p] \ {n} : blockedBy[q] = s}
  OBVIOUS
<1>8. PICK list : list = inhList'
  OBVIOUS
<1>9. \A q \in Procs : list[q] = CASE q = n -> inhList[q] \cup moved
                                   [] q = p -> inhList[q] \ (moved \cup {n})
                                   [] OTHER -> inhList[q]
  BY <1>3, <1>4, <1>5, <1>7, <1>8 DEF RelPass
<1>10. \A q \in Procs : pri'[q] = CASE q = n -> IF \E r \in moved : inhPri[r] > pri[q]
                                               THEN ProcPri(q, origPri, list, inhPri)
                                               ELSE pri[q]
                                 [] q = p -> ProcPri(q, origPri, list, inhPri)
                                 [] OTHER -> pri[q]
  BY <1>3, <1>4, <1>5, <1>7, <1>8 DEF RelPass
<1>11. /\ blockedBy' = [blockedBy EXCEPT ![n] = NoSem]
       /\ owner' = [owner EXCEPT ![s] = n]
       /\ pc' = [pc EXCEPT ![p] = "permit"]
       /\ UNCHANGED <<origPri, inhPri>>
  BY <1>3, <1>4 DEF RelPass, CallCount
<1>12. /\ blockedBy'[n] = NoSem /\ ~Blocked(n)'
       /\ \A q \in Procs \ {n} : blockedBy'[q] = blockedBy[q] /\ Blocked(q)' = Blocked(q)
       /\ owner'[s] = n /\ \A t \in Sems \ {s} : owner'[t] = owner[t]
  BY <1>2, <1>6, <1>11 DEF SemTypes, Blocked
<1>13. \A q \in Procs : pc'[q] # "inherit" /\ pc[q] # "inherit"
  BY <1>1, <1>2, <1>11, OnlyOneBoosts DEF SemTypes
<1>14. \A q, r \in Procs : ~Boosting(q, r) /\ ~Boosting(q, r)'
  BY <1>13 DEF Boosting
<1>15. \A r \in Procs : InhListAt(r) /\ InhPriAt(r) /\ IsHighest(pri[r], Inherited(r))
  BY <1>14 DEF InhInv, PriorityAt
<1>16. \A r \in Procs : inhList[r] = {q \in Procs : Blocked(q) /\ owner[blockedBy[q]] = r}
  BY <1>15 DEF InhListAt
<1>17. /\ \A q \in Procs : q \in moved <=> q # n /\ blockedBy[q] = s
       /\ moved \subseteq Procs
  <2>1. \A q \in Procs : q \in inhList[p] <=> Blocked(q) /\ owner[blockedBy[q]] = p
    BY <1>16
  <2>2. inhList[p] \subseteq Procs
    BY <1>16
  <2> QED
    BY <1>5, <1>6, <1>7, <2>1, <2>2 DEF Blocked
<1>18. /\ list[n] = inhList[n] \cup moved
       /\ list[p] = inhList[p] \ (moved \cup {n})
       /\ \A r \in Procs \ {n, p} : list[r] = inhList[r]
       /\ list \in [Procs -> SUBSET Procs]
  <2>1. SemTypes'
    BY RelPassSem DEF SemInv, SemKernel
  <2>2. list \in [Procs -> SUBSET Procs]
    BY <1>8, <2>1 DEF SemTypes
  <2> QED
    BY <1>6, <1>9, <2>2
<1>19. ASSUME NEW r \in Procs PROVE InhListAt(r)'
  <2>1. ASSUME NEW q \in Procs
        PROVE  q \in list[r] <=> Blocked(q)' /\ owner'[blockedBy'[q]] = r
    <3>1. q \in inhList[r] <=> Blocked(q) /\ owner[blockedBy[q]] = r
      BY <1>16
    <3>2. CASE q = n
      <4>1. n \in inhList[r] <=> r = p
        BY <1>5, <1>6, <1>16 DEF Blocked
      <4> QED
        BY <1>6, <1>12, <1>17, <1>18, <3>2, <4>1
    <3>3. CASE q # n /\ blockedBy[q] = s
      BY <1>5, <1>6, <1>12, <1>17, <1>18, <3>1, <3>3 DEF Blocked
    <3>4. CASE q # n /\ blockedBy[q] # s
      <4>1. Blocked(q) => blockedBy[q] \in Sems \ {s}
        BY <1>2, <3>4 DEF Blocked, SemTypes
      <4>2. q \notin moved
        BY <1>17, <3>4
      <4> QED
        BY <1>12, <1>18, <3>1, <3>4, <4>1, <4>2
    <3> QED
      BY <3>2, <3>3, <3>4
  <2> QED
    BY <1>8, <1>18, <2>1 DEF InhListAt
<1>20. /\ \A r \in Procs \ {n, p} : pri'[r] = pri[r]
       /\ pri'[p] = ProcPri(p, origPri, list, inhPri)
       /\ pri'[n] = IF \E r \in moved : inhPri[r] > pri[n]
                    THEN ProcPri(n, origPri, list, inhPri) ELSE pri[n]
  BY <1>6, <1>10
<1>21. ASSUME NEW r \in Procs PROVE InhPriAt(r)'
  BY <1>5, <1>11, <1>12, <1>15, <1>20 DEF InhPriAt
<1>22. \A r \in Procs : IsHighest(ProcPri(r, origPri, list, inhPri), Inherited(r)')
  <2>1. origPri \in [Procs -> Int] /\ inhPri \in [Procs -> Int]
    BY <1>2 DEF SemTypes
  <2>2. \A r \in Procs : Inherited(r)' = {origPri[r]} \cup {inhPri[q] : q \in list[r]}
    BY <1>8, <1>11 DEF Inherited
  <2> QED
    BY <1>18, <2>1, <2>2, ProcPriHighest
<1>23. ASSUME NEW r \in Procs PROVE IsHighest(pri'[r], Inherited(r)')
  <2>1. CASE r = p
    BY <1>20, <1>22, <2>1
  <2>2. CASE r \notin {n, p}
    <3>1. Inherited(r)' = Inherited(r)
      BY <1>8, <1>11, <1>18, <2>2 DEF Inherited
    <3> QED
      BY <1>15, <1>20, <2>2, <3>1
  <2>3. CASE r = n /\ \E q \in moved : inhPri[q] > pri[n]
    BY <1>20, <1>22, <2>3
  <2>4. CASE r = n /\ ~\E q \in moved : inhPri[q] > pri[n]
    <3>1. Inherited(n)' = Inherited(n) \cup {inhPri[q] : q \in moved}
      BY <1>8, <1>11, <1>18, <2>4 DEF Inherited
    <3>2. \A q \in moved : inhPri[q] \in Int /\ pri[n] >= inhPri[q]
      <4>1. \A q \in moved : inhPri[q] \in Int /\ pri[n] \in Int
        BY <1>2, <1>6, <1>17 DEF SemTypes
      <4> QED
        BY <2>4, <4>1
    <3>3. IsHighest(pri[n], Inherited(n))
      BY <1>6, <1>15
    <3>4. IsHighest(pri[n], Inherited(n)')
      BY <3>1, <3>2, <3>3 DEF IsHighest
    <3> QED
      BY <1>20, <2>4, <3>4
  <2> QED
    BY <2>1, <2>2, <2>3, <2>4
<1> QED
  BY <1>14, <1>19, <1>21, <1>23 DEF InhInv, PriorityAt

\* The other steps of the calls: none is in the loop, and a semaphore that
\* they give an owner, or disown, is waited for by nobody.
LEMMA CallsInh ==
  ASSUME SemInv, InhInv, NEW p \in Procs,
         ObtTest(p) \/ ObtTake(p) \/ AttTest(p) \/ AttTake(p) \/ ObtSwitch(p) \/ ObtDone(p)
         \/ RelDec(p) \/ RelFree(p) \/ RelWake(p)
  PROVE  InhInv'
<1> USE DEF At, Goto, CallCount
<1>1. /\ SemTypes /\ p = cpu /\ ~idle /\ CallAt(p)
      /\ UNCHANGED <<pri, origPri, inhPri, inhList, blockedBy>>
  <2>1. p = cpu /\ ~idle /\ UNCHANGED <<pri, origPri, inhPri, inhList, blockedBy>>
    BY DEF ObtTest, ObtTake, AttTest, AttTake, ObtSwitch, ObtDone, RelDec, RelFree, RelWake,
           semVars, inhVars
  <2> QED
    BY <2>1, SemInvAt
<1>2. pc[p] # "inherit" /\ pc'[p] # "inherit" /\ \A q \in Procs \ {p} : pc'[q] = pc[q]
  <2>1. pc \in [Procs -> SemPlaces]
    BY <1>1 DEF SemTypes
  <2> QED
    BY <2>1 DEF ObtTest, ObtTake, AttTest, AttTake, ObtSwitch, ObtDone, RelDec, RelFree, RelWake
<1>3. ASSUME NEW q \in Procs, Blocked(q) PROVE owner'[blockedBy[q]] = owner[blockedBy[q]]
  <2>1. PICK t \in Sems : blockedBy[q] = t
    BY <1>1, <1>3 DEF SemTypes, Blocked
  <2>2. queue[t] # <<>> /\ OwnerAt(t)
    BY <2>1 DEF SemInv, SemCalls, QueueAt, Contains
  <2>3. owner[t] # NoProc
    BY <2>2 DEF OwnerAt
  <2>4. CASE ObtTake(p) \/ AttTake(p)
    <3>1. owner[arg[p]] \in {NoProc, p} /\ owner' = [owner EXCEPT ![arg[p]] = p]
      BY <1>1, <2>4 DEF CallAt, ObtTake, AttTake
    <3> QED
      BY <1>1, <2>1, <2>3, <3>1 DEF SemTypes
  <2>5. CASE RelFree(p)
    <3>1. queue[arg[p]] = <<>> /\ owner' = [owner EXCEPT ![arg[p]] = NoProc]
      BY <2>5 DEF RelFree
    <3> QED
      BY <1>1, <2>1, <2>2, <3>1 DEF SemTypes
  <2>6. CASE ObtTest(p) \/ AttTest(p) \/ ObtSwitch(p) \/ ObtDone(p) \/ RelDec(p) \/ RelWake(p)
    BY <2>6 DEF ObtTest, AttTest, ObtSwitch, ObtDone, RelDec, RelWake, semVars
  <2> QED
    BY <2>4, <2>5, <2>6
<1> QED
  BY <1>1, <1>2, <1>3, OwnInh

\* The steps of the scheduler.
LEMMA KernelInh ==
  ASSUME SemInv, InhInv, NEW p \in Procs,
         \/ CountLoad(p) \/ ForbidStore(p) \/ PermitStore(p) \/ AppPermit(p) \/ Reenqueue(p)
         \/ AppForbid(p) \/ Yield(p),
         UNCHANGED <<semVars, inhVars>>
  PROVE  InhInv'
<1> USE DEF At, Goto, CallCount
<1>1. SemTypes /\ p = cpu /\ ~idle /\ SemSectionsAt(p)
  <2>1. p = cpu /\ ~idle
    BY DEF CountLoad, ForbidStore, PermitStore, AppPermit, Reenqueue, AppForbid, Yield
  <2> QED
    BY <2>1, SemInvAt
<1>2. UNCHANGED <<pri, origPri, inhPri, inhList, blockedBy, owner>>
  BY DEF CountLoad, ForbidStore, PermitStore, AppPermit, Reenqueue, AppForbid, Yield,
         semVars, inhVars
<1>3. pc[p] \in CountLabels => cont[p] # "inherit"
  BY <1>1 DEF SemTypes, SemSectionsAt, CountLabels
<1>4. pc[p] # "inherit" /\ pc'[p] # "inherit" /\ \A q \in Procs \ {p} : pc'[q] = pc[q]
  <2>1. pc \in [Procs -> SemPlaces]
    BY <1>1 DEF SemTypes
  <2> QED
    BY <1>3, <2>1
       DEF CountLoad, ForbidStore, PermitStore, AppPermit, Reenqueue, AppForbid, Yield,
           CountLabels
<1> QED
  BY <1>1, <1>2, <1>4, OwnInh

\* At the start nobody waits.
LEMMA InhInit ==
  ASSUME SemInit
  PROVE  InhInv
<1> SUFFICES ASSUME NEW r \in Procs PROVE InhListAt(r) /\ InhPriAt(r) /\ PriorityAt(r)
  BY DEF InhInv
<1>1. /\ \A q \in Procs : pc[q] # "inherit" /\ ~Blocked(q)
      /\ inhList[r] = {} /\ origPri[r] = pri[r] /\ pri[r] \in Int
  BY StartAssumption DEF SemInit, Started, Blocked
<1>2. InhListAt(r) /\ InhPriAt(r)
  BY <1>1 DEF InhListAt, InhPriAt
<1>3. Inherited(r) = {pri[r]}
  BY <1>1 DEF Inherited
<1>4. PriorityAt(r)
  BY <1>1, <1>3 DEF PriorityAt, Boosting, IsHighest
<1> QED
  BY <1>2, <1>4

\* Every step keeps the priorities exact, when proc_setPri() is not called.
LEMMA InhNext ==
  ASSUME SemInv, InhInv, "setpri" \notin Calls, [SemNext]_allVars
  PROVE  InhInv'
<1>1. ASSUME NEW p \in Procs, SemContinue(p) PROVE InhInv'
  <2>1. CASE Continue(p) /\ UNCHANGED <<semVars, inhVars, arg, held>>
    <3>1. pc[p] \in SemPlaces
      BY DEF SemInv, SemKernel, SemTypes
    <3>2. ~(\/ FreeLoop(p) \/ FirstZombie(p) \/ RemZombie(p) \/ ZombieTest(p) \/ FreeZombie(p)
            \/ FindSlot(p) \/ TakeSlot(p) \/ InitStruct(p) \/ EnqueueNew(p)
            \/ AddZombie(p) \/ ClearCurrent(p) \/ ExitSwitch(p))
      BY <3>1
         DEF SemPlaces, SemLabels, CountLabels, At, FreeLoop, FirstZombie, RemZombie,
             ZombieTest, FreeZombie, FindSlot, TakeSlot, InitStruct, EnqueueNew, AddZombie,
             ClearCurrent, ExitSwitch
    <3>3. \/ CountLoad(p) \/ ForbidStore(p) \/ PermitStore(p) \/ AppPermit(p) \/ Reenqueue(p)
      BY <2>1, <3>2 DEF Continue
    <3> QED
      BY <2>1, <3>3, KernelInh
  <2>2. CASE ObtBlock(p) \/ Inherit(p) \/ RelPass(p)
    BY <2>2, ObtBlockInh, InheritInh, RelPassInh
  <2>3. CASE ObtTest(p) \/ ObtTake(p) \/ AttTest(p) \/ AttTake(p) \/ ObtSwitch(p)
             \/ ObtDone(p) \/ RelDec(p) \/ RelFree(p) \/ RelWake(p)
    BY <2>3, CallsInh
  <2> QED
    BY <1>1, <2>1, <2>2, <2>3 DEF SemContinue
<1>2. ASSUME NEW p \in Procs, SemDecide(p) PROVE InhInv'
  <2>1. CASE (AppForbid(p) \/ Yield(p)) /\ UNCHANGED <<semVars, inhVars, arg, held>>
    BY <2>1, KernelInh
  <2>2. ASSUME NEW s \in Sems, Obtain(p, s) \/ Attempt(p, s) \/ Release(p, s) PROVE InhInv'
    <3>1. PICK label \in {"obt_test", "att_test", "rel_dec"} : CallSem(p, s, label)
      BY <2>2 DEF Obtain, Attempt, Release
    <3>2. p = cpu /\ ~idle /\ pc[p] = "user" /\ pc' = [pc EXCEPT ![p] = "forbid"]
          /\ UNCHANGED <<pri, origPri, inhPri, inhList, blockedBy, owner>>
      BY <3>1 DEF CallSem, At, CallCount, semVars, inhVars
    <3>3. pc \in [Procs -> SemPlaces]
      BY DEF SemInv, SemKernel, SemTypes
    <3> QED
      BY <3>2, <3>3, OwnInh
  <2> QED
    BY <1>2, <2>1, <2>2 DEF SemDecide, SetPriInh
<1>3. CASE SemTick \/ SemIsrExit \/ UNCHANGED allVars
  <2>1. UNCHANGED <<pri, origPri, inhPri, inhList, blockedBy, owner, pc, obj>>
    BY <1>3 DEF SemTick, SemIsrExit, Tick, IsrExit, allVars, vars, countVars, semVars, inhVars
  <2> QED
    BY <2>1, InhFrame
<1> QED
  BY <1>1, <1>2, <1>3 DEF SemNext

(***************************************************************************)
(* Priority inheritance is exact outside the sections, along every chain   *)
(* of processes that wait for each other and even around a circle, while   *)
(* the application does not call proc_setPri(): that call stores a         *)
(* priority without passing it on.                                         *)
(***************************************************************************)
THEOREM InheritanceIsExact ==
  ASSUME ~(Preempt /\ WindowIrq), "setpri" \notin Calls
  PROVE  SemSpec => []InheritanceExact
<1>1. SemInit => InhInv
  BY InhInit
<1>2. SemInv /\ InhInv /\ [SemNext]_allVars => InhInv'
  BY InhNext
<1>3. ASSUME SemInv, InhInv, Quiet, NEW p \in Procs
      PROVE  /\ inhList[p] = {q \in Procs : blockedBy[q] # NoSem /\ owner[blockedBy[q]] = p}
             /\ pri[p] = Max({origPri[p]} \cup {pri[q] : q \in inhList[p]})
             /\ \A s \in Sems : (blockedBy[p] = s) = Contains(queue[s], p)
  <2>1. SemTypes /\ \A q \in Procs : InhListAt(q) /\ InhPriAt(q) /\ PriorityAt(q)
    BY <1>3 DEF SemInv, SemKernel, InhInv
  <2>2. \A q \in Procs : pc[q] # "inherit"
    BY <1>3 DEF SemInv, SemKernel, SemSectionsAt, SemInside, Quiet
  <2>3. IsHighest(pri[p], Inherited(p))
    BY <2>1, <2>2 DEF PriorityAt, Boosting
  <2>4. inhList[p] = {q \in Procs : Blocked(q) /\ owner[blockedBy[q]] = p}
    BY <2>1 DEF InhListAt
  <2>5. \A q \in inhList[p] : inhPri[q] = pri[q]
    BY <2>1, <2>4 DEF InhPriAt
  <2>6. Inherited(p) = {origPri[p]} \cup {pri[q] : q \in inhList[p]}
    BY <2>5 DEF Inherited
  <2>7. pri[p] = Max(Inherited(p))
    BY <2>1, <2>3, InheritedInts, MaxHighest
  <2>8. \A s \in Sems : (blockedBy[p] = s) = Contains(queue[s], p)
    <3> SUFFICES ASSUME NEW s \in Sems PROVE (blockedBy[p] = s) <=> Contains(queue[s], p)
      BY Zenon DEF Contains
    <3> QED
      BY <1>3 DEF SemInv, SemCalls, QueueAt
  <2> QED
    BY <2>4, <2>6, <2>7, <2>8 DEF Blocked
<1>4. SemInv /\ InhInv => InheritanceExact
  BY <1>3 DEF InheritanceExact
<1> QED
  BY <1>1, <1>2, <1>4, SemInvariance, PTL DEF SemSpec
=============================================================================
