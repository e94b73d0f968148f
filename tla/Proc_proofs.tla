----------------------------- MODULE Proc_proofs -----------------------------
(***************************************************************************)
(* The scheduler of Proc is safe for every set of processes, of priorities *)
(* and of services, every quantum, with and without preemption.            *)
(*                                                                         *)
(* The other services of the kernel are built on the scheduler: they add   *)
(* places to the code, at which a process may sleep and be on no list of   *)
(* Proc.  The invariant and the lemmas about the steps have them as        *)
(* parameters, so that they hold there too: KInv(Places, Asleep) says that *)
(* processes are at Places, and that those in Asleep sleep.  IInv is the   *)
(* instance for Proc alone, where nobody sleeps.                           *)
(*                                                                         *)
(* None of the properties is inductive alone: that the counter is exact    *)
(* needs that no process is in two places, which needs that no block is    *)
(* handed out twice, which needs that sections are not preempted, which    *)
(* needs the counter.  KInv is their conjunction, with what each place in  *)
(* the code knows about the counter and about the local variable proc.     *)
(* OrderInv, at the end, adds the order of the ready list.                 *)
(***************************************************************************)
EXTENDS Proc, PriList_proofs

\* p is at one of the labels, or is about to be, after a proc_forbid() or a
\* proc_permit().
Towards(p, labels) == pc[p] \in labels \/ (pc[p] \in CountLabels /\ cont[p] \in labels)

\* p has executed current_process = NULL.
Cleared(p) == Towards(p, {"exit_switch"})

\* The types of Proc's variables, when Places are the places in the code.
TypesOK(Places) ==
  /\ Labels \subseteq Places
  /\ current \in Procs \cup {NoProc} /\ cpu \in Procs
  /\ idle \in BOOLEAN /\ isr \in BOOLEAN
  /\ ready \in Seq(Procs) /\ zombies \in Seq(Procs)
  /\ pri \in [Procs -> Int]
  /\ quantum \in 0..Quantum
  /\ preemptCount \in Int
  /\ pc \in [Procs -> Places] /\ cont \in [Procs -> Labels]
  /\ reg \in [Procs -> Int] /\ nest \in [Procs -> Int]
  /\ obj \in [Procs -> Procs \cup {NoProc}]

\* Processes sleep in services that are not Proc's.
AsleepOutside(Asleep) == Asleep \subseteq Procs /\ \A p \in Asleep : pc[p] \notin Labels

\* How many sections are open at each place of the code: none in the services
\* that are not Proc's.
SectionsAt(p) ==
  /\ nest[p] \in Nat
  /\ pc[p] \notin Labels => nest[p] = 0
  /\ pc[p] \in OutsideLabels \cup Dead => nest[p] = 0
  /\ pc[p] \in InsideLabels => nest[p] = 1
  /\ pc[p] = "crit" => nest[p] > 0
  /\ pc[p] \in {"forbid", "forbid_store"} =>
       \/ cont[p] \in {"zomb_first", "zomb_free", "slot_find", "exit_zombie"} /\ nest[p] = 0
       \/ cont[p] = "crit"
  /\ pc[p] \in {"permit", "permit_store"} =>
       \/ cont[p] \in {"user", "zomb_test", "free_loop", "new_init", "exit_switch"} /\ nest[p] = 1
       \/ cont[p] = "crit" /\ nest[p] > 1

\* What a process read from preempt_count is still true when it writes it.
RegisterAt(p) ==
  pc[p] \in {"forbid_store", "permit_store"} => reg[p] = IF Preempt THEN nest[p] ELSE 0

\* The argument of proc.h:296-317, for the process that runs and the others.
CountIsNest == preemptCount = IF Preempt THEN nest[cpu] ELSE 0
OthersOutside == \A p \in Procs \ {cpu} : nest[p] = 0

\* Who runs.  The CPU idles on the stack of the last process that ran, which
\* may be ready again.
Running(Asleep) ==
  /\ current \in {NoProc, cpu}
  /\ idle => current = NoProc /\ (pc[cpu] = "zombie" \/ pc[cpu] \notin Labels)
  /\ ~idle => Live(cpu) /\ cpu \notin Asleep
  /\ ~idle /\ ~Cleared(cpu) => current = cpu
  /\ \A p \in Procs : Cleared(p) => p = cpu /\ current = NoProc

\* Who is listed.
ReadyExact(Asleep) ==
  /\ NoDup(ready)
  /\ \A p \in Procs :
       Contains(ready, p) <=> Live(p) /\ p \notin Asleep /\ (p # cpu \/ idle)

ZombieAt(p) ==
  Contains(zombies, p) => pc[p] = "zombie" \/ (p = cpu /\ (pc[p] = "exit_null" \/ Cleared(p)))

\* Places of proc_new() at which proc is a zombie, and a block to initialise.
FreeingLabels == {"zomb_first", "zomb_rem", "zomb_test", "zomb_free", "free_loop"}
InitLabels == {"new_init", "new_enq"}

\* The local variable proc of proc_new(), at each place: the state of the
\* block it points to, where it is set, and whether the block is still in the
\* zombie list.
BlockStateAt(p) ==
  obj[p] # NoProc =>
    \/ pc[p] = "reenqueue"
    \/ Towards(p, FreeingLabels) /\ pc[obj[p]] = "zombie"
    \/ pc[p] = "slot_take" /\ pc[obj[p]] = "free"
    \/ Towards(p, InitLabels) /\ pc[obj[p]] = "alloc"

BlockSetAt(p) ==
  \/ pc[p] \in {"reenqueue", "zomb_rem", "slot_take"}
  \/ Towards(p, {"zomb_free"} \cup InitLabels)
  => obj[p] # NoProc

BlockListedAt(p) ==
  /\ pc[p] = "zomb_rem" => zombies # <<>> /\ obj[p] = Head(zombies)
  /\ obj[p] # NoProc /\ Contains(zombies, obj[p]) => pc[p] \in {"reenqueue", "zomb_rem"}

PlaceInv == \A p \in Procs : SectionsAt(p) /\ RegisterAt(p)
ZombiesInv == NoDup(zombies) /\ \A p \in Procs : ZombieAt(p)
BlocksInv == \A p \in Procs : BlockStateAt(p) /\ BlockSetAt(p) /\ BlockListedAt(p)

KInv(Places, Asleep) ==
  /\ TypesOK(Places)
  /\ AsleepOutside(Asleep)
  /\ PlaceInv
  /\ CountIsNest
  /\ OthersOutside
  /\ Running(Asleep)
  /\ ReadyExact(Asleep)
  /\ ZombiesInv
  /\ BlocksInv
  /\ BlocksDistinct

IInv == KInv(Labels, {})

-----------------------------------------------------------------------------
(***************************************************************************)
(* What the modules start with satisfies the invariant: main runs, some    *)
(* other processes are ready, the rest of the control blocks are free.     *)
(***************************************************************************)
LEMMA StartedInv ==
  ASSUME NEW Places, Labels \subseteq Places, NEW list \in Seq(Procs \ {Main}), NoDup(list),
         NEW prios \in [Procs -> Int], Started(list, prios)
  PROVE  KInv(Places, {})
<1> USE DEF Started
<1>1. list \in Seq(Procs) /\ zombies = <<>> /\ <<>> \in Seq(Procs)
  BY EmptySeq, SeqMonotonic
<1>2. ~Contains(list, Main) /\ \A p : Contains(list, p) => p \in Procs
  BY ElementOfSeq, LenProperties DEF Contains
<1>3. /\ \A p \in Procs : pc[p] = IF p = Main \/ Contains(list, p) THEN "user" ELSE "free"
      /\ pc \in [Procs -> Labels]
  BY DEF Labels, OutsideLabels, Dead
<1>4. TypesOK(Places)
  <2>1. pc \in [Procs -> Places]
    BY <1>3
  <2>2. cont \in [Procs -> Labels]
    BY DEF Labels, OutsideLabels
  <2>3. pri \in [Procs -> Int] /\ reg \in [Procs -> Int] /\ nest \in [Procs -> Int]
    OBVIOUS
  <2>4. obj \in [Procs -> Procs \cup {NoProc}] /\ quantum \in 0..Quantum
    BY QuantumAssumption
  <2> QED
    BY <1>1, <2>1, <2>2, <2>3, <2>4, ProcsAssumption DEF TypesOK
<1>5. PlaceInv
  BY <1>3
     DEF PlaceInv, SectionsAt, RegisterAt, Labels, CountLabels, OutsideLabels, InsideLabels, Dead
<1>6. CountIsNest /\ OthersOutside
  BY ProcsAssumption DEF CountIsNest, OthersOutside
<1>7. Running({}) /\ AsleepOutside({})
  BY <1>3, ProcsAssumption
     DEF Running, AsleepOutside, Live, Cleared, Towards, CountLabels, Dead
<1>8. ReadyExact({})
  BY <1>2, <1>3 DEF ReadyExact, Live, Dead
<1>9. ZombiesInv
  BY <1>1, EmptyMembers DEF ZombiesInv, ZombieAt
<1>10. BlocksInv /\ BlocksDistinct
  BY <1>1, <1>3
     DEF BlocksInv, BlockStateAt, BlockSetAt, BlockListedAt, BlocksDistinct, Towards,
         CountLabels, InitLabels
<1> QED
  BY <1>4, <1>5, <1>6, <1>7, <1>8, <1>9, <1>10 DEF KInv

-----------------------------------------------------------------------------
(***************************************************************************)
(* Most steps move the running process p in its code and change its own    *)
(* variables only.  Such a step preserves the invariant when it preserves  *)
(* what the invariant says of p.                                           *)
(***************************************************************************)
LEMMA OwnStepInv ==
  ASSUME NEW Places, NEW Asleep, KInv(Places, Asleep), TypesOK(Places)',
         NEW p \in Procs, p = cpu, ~idle,
         UNCHANGED <<current, cpu, idle, ready, zombies>>,
         \A q \in Procs \ {p} :
           /\ pc'[q] = pc[q] /\ cont'[q] = cont[q] /\ reg'[q] = reg[q]
           /\ nest'[q] = nest[q] /\ obj'[q] = obj[q],
         SectionsAt(p)', RegisterAt(p)', CountIsNest', Live(p)',
         Cleared(p)' = Cleared(p), ZombieAt(p)',
         BlockStateAt(p)', BlockSetAt(p)', BlockListedAt(p)',
         \A q \in Procs \ {p} : obj'[p] # NoProc /\ obj[q] = obj'[p] =>
           pc'[p] = "reenqueue" \/ pc[q] = "reenqueue"
  PROVE  KInv(Places, Asleep)'
<1> USE DEF KInv
<1>0. AsleepOutside(Asleep)'
  BY DEF AsleepOutside, Running
<1>1. Live(p)
  BY DEF Running
<1>2. PlaceInv'
  BY DEF PlaceInv, SectionsAt, RegisterAt, Labels, CountLabels, OutsideLabels, InsideLabels, Dead
<1>3. OthersOutside'
  BY DEF OthersOutside
<1>4. \A q \in Procs \ {p} : Cleared(q)' = Cleared(q)
  BY DEF Cleared, Towards
<1>5. Running(Asleep)'
  BY <1>4 DEF Running, TypesOK
<1>6. ReadyExact(Asleep)'
  BY <1>1 DEF ReadyExact, Live
<1>7. ZombiesInv'
  BY <1>4 DEF ZombiesInv, ZombieAt
<1>8. BlocksInv'
  <2> SUFFICES ASSUME NEW q \in Procs, q # p
               PROVE  (BlockStateAt(q) /\ BlockSetAt(q) /\ BlockListedAt(q))'
    BY DEF BlocksInv
  <2>1. \A labels : Towards(q, labels)' = Towards(q, labels)
    BY DEF Towards
  <2>2. BlockSetAt(q)'
    BY <2>1 DEF BlocksInv, BlockSetAt
  <2>3. BlockListedAt(q)'
    BY DEF BlocksInv, BlockListedAt
  <2>4. obj[q] # NoProc => pc[q] = "reenqueue" \/ pc[obj[q]] \in Dead
    BY DEF BlocksInv, BlockStateAt, Dead
  <2>5. obj[q] # NoProc => pc[q] = "reenqueue" \/ (obj[q] \in Procs /\ obj[q] # p)
    BY <1>1, <2>4 DEF TypesOK, Live
  <2>6. BlockStateAt(q)'
    BY <2>1, <2>5 DEF BlocksInv, BlockStateAt
  <2> QED
    BY <2>2, <2>3, <2>6
<1>9. BlocksDistinct'
  <2> SUFFICES ASSUME NEW q \in Procs, NEW r \in Procs,
                      q # r, obj'[q] # NoProc, obj'[q] = obj'[r]
               PROVE  pc'[q] = "reenqueue" \/ pc'[r] = "reenqueue"
    BY DEF BlocksDistinct
  <2>1. CASE q = p \/ r = p
    BY <2>1
  <2>2. CASE q # p /\ r # p
    BY <2>2 DEF BlocksDistinct
  <2> QED
    BY <2>1, <2>2
<1> QED
  BY <1>0, <1>2, <1>3, <1>5, <1>6, <1>7, <1>8, <1>9
-----------------------------------------------------------------------------
(***************************************************************************)
(* The steps of one process in its own code.                               *)
(***************************************************************************)

\* preempt_count is loaded: nobody else has a section open, so it is the number
\* of the sections of p.
LEMMA CountLoadInv ==
  ASSUME NEW Places, NEW Asleep, KInv(Places, Asleep), NEW p \in Procs, CountLoad(p)
  PROVE  KInv(Places, Asleep)'
<1>0. KInv(Places, Asleep)
  OBVIOUS
<1>1. /\ TypesOK(Places) /\ SectionsAt(p) /\ RegisterAt(p) /\ CountIsNest
      /\ Running(Asleep) /\ ZombieAt(p)
      /\ BlockStateAt(p) /\ BlockSetAt(p) /\ BlockListedAt(p)
  BY <1>0 DEF KInv, PlaceInv, ZombiesInv, BlocksInv
<1> USE DEF CountLoad, At, Goto, CallCount, schedVars, countVars
<1>2. p = cpu /\ ~idle /\ UNCHANGED <<current, cpu, idle, ready, zombies>>
  OBVIOUS
<1>3. \A q \in Procs \ {p} : /\ pc'[q] = pc[q] /\ cont'[q] = cont[q] /\ reg'[q] = reg[q]
                            /\ nest'[q] = nest[q] /\ obj'[q] = obj[q]
  BY <1>1 DEF TypesOK
<1>4. TypesOK(Places)'
  BY <1>1 DEF TypesOK, Labels, OutsideLabels, InsideLabels, CountLabels
<1>5. SectionsAt(p)' /\ RegisterAt(p)' /\ CountIsNest'
  BY <1>1
     DEF TypesOK, SectionsAt, RegisterAt, CountIsNest, OutsideLabels, InsideLabels, Dead,
         Labels, CountLabels
<1>6. Live(p)' /\ Cleared(p)' = Cleared(p) /\ ZombieAt(p)'
  BY <1>1 DEF TypesOK, Live, Cleared, Towards, ZombieAt, CountLabels, Dead
<1>7. BlockStateAt(p)' /\ BlockSetAt(p)' /\ BlockListedAt(p)'
  BY <1>1
     DEF TypesOK, BlockStateAt, BlockSetAt, BlockListedAt, Towards, FreeingLabels, InitLabels,
         CountLabels
<1>8. \A q \in Procs \ {p} : obj'[p] # NoProc /\ obj[q] = obj'[p] =>
        pc'[p] = "reenqueue" \/ pc[q] = "reenqueue"
  BY <1>0 DEF TypesOK, KInv, BlocksDistinct
<1> QED
  BY <1>0, <1>2, <1>3, <1>4, <1>5, <1>6, <1>7, <1>8, OwnStepInv

\* The incremented counter is stored: what was loaded is still true.
LEMMA ForbidStoreInv ==
  ASSUME NEW Places, NEW Asleep, KInv(Places, Asleep), NEW p \in Procs, ForbidStore(p)
  PROVE  KInv(Places, Asleep)'
<1>0. KInv(Places, Asleep)
  OBVIOUS
<1>1. /\ TypesOK(Places) /\ SectionsAt(p) /\ RegisterAt(p) /\ CountIsNest
      /\ Running(Asleep) /\ ZombieAt(p)
      /\ BlockStateAt(p) /\ BlockSetAt(p) /\ BlockListedAt(p)
  BY <1>0 DEF KInv, PlaceInv, ZombiesInv, BlocksInv
<1> USE DEF ForbidStore, At, Goto, CallCount, schedVars, countVars
<1>2. p = cpu /\ ~idle /\ UNCHANGED <<current, cpu, idle, ready, zombies>>
  OBVIOUS
<1>3. \A q \in Procs \ {p} : /\ pc'[q] = pc[q] /\ cont'[q] = cont[q] /\ reg'[q] = reg[q]
                            /\ nest'[q] = nest[q] /\ obj'[q] = obj[q]
  BY <1>1 DEF TypesOK
<1>4. TypesOK(Places)'
  <2>1. pc' \in [Procs -> Places] /\ cont' \in [Procs -> Labels]
    BY <1>1 DEF TypesOK, Labels, OutsideLabels
  <2>2. preemptCount' \in Int
    <3>1. reg[p] + 1 \in Int /\ preemptCount \in Int
      BY <1>1 DEF TypesOK
    <3>2. preemptCount' = IF Preempt THEN reg[p] + 1 ELSE preemptCount
      OBVIOUS
    <3> HIDE DEF ForbidStore
    <3> QED
      BY <3>1, <3>2
  <2>4. reg' \in [Procs -> Int] /\ nest' \in [Procs -> Int]
    BY <1>1 DEF TypesOK
  <2>3. UNCHANGED <<schedVars, isr, zombies, pri, obj>>
    OBVIOUS
  <2> HIDE DEF ForbidStore
  <2> QED
    BY <1>1, <2>1, <2>2, <2>3, <2>4 DEF TypesOK
<1>5. SectionsAt(p)' /\ RegisterAt(p)' /\ CountIsNest'
  <2>1. /\ pc[p] = "forbid_store" /\ cpu' = cpu /\ ~idle'
        /\ pc'[p] = cont[p] /\ nest'[p] = nest[p] + 1
        /\ preemptCount' = IF Preempt THEN reg[p] + 1 ELSE preemptCount
    BY <1>1 DEF TypesOK
  <2>2. \/ cont[p] \in {"zomb_first", "zomb_free", "slot_find", "exit_zombie"} /\ nest[p] = 0
        \/ cont[p] = "crit" /\ nest[p] \in Nat
    BY <1>1, <2>1 DEF SectionsAt
  <2> HIDE DEF ForbidStore
  <2>3. SectionsAt(p)' /\ RegisterAt(p)'
    BY <2>1, <2>2 DEF SectionsAt, RegisterAt, OutsideLabels, InsideLabels, Dead, Labels, CountLabels
  <2>4. CountIsNest'
    BY <1>1, <1>2, <2>1, <2>2 DEF TypesOK, RegisterAt, CountIsNest
  <2> QED
    BY <2>3, <2>4
<1>6. Live(p)' /\ Cleared(p)' = Cleared(p) /\ ZombieAt(p)'
  <2>1. cont[p] \in {"zomb_first", "zomb_free", "slot_find", "exit_zombie", "crit"}
    BY <1>1 DEF SectionsAt, Labels, CountLabels, OutsideLabels, InsideLabels, Dead
  <2> QED
    BY <1>1, <2>1 DEF TypesOK, Live, Cleared, Towards, ZombieAt, CountLabels, Dead
<1>7. BlockStateAt(p)' /\ BlockSetAt(p)' /\ BlockListedAt(p)'
  <2>1. cont[p] \in {"zomb_first", "zomb_free", "slot_find", "exit_zombie", "crit"}
    BY <1>1 DEF SectionsAt, Labels, CountLabels, OutsideLabels, InsideLabels, Dead
  <2>2. pc'[p] = cont[p] /\ obj' = obj /\ zombies' = zombies
    BY <1>1 DEF TypesOK
  <2>3. obj[p] # NoProc => obj[p] # p /\ pc'[obj[p]] = pc[obj[p]]
    BY <1>1, <1>3 DEF TypesOK, BlockStateAt
  <2>4. BlockStateAt(p)'
    BY <1>1, <2>1, <2>2, <2>3
       DEF BlockStateAt, Towards, FreeingLabels, InitLabels, CountLabels
  <2>5. BlockSetAt(p)'
    BY <1>1, <2>1, <2>2 DEF BlockSetAt, Towards, InitLabels, CountLabels
  <2>6. BlockListedAt(p)'
    BY <1>1, <2>1, <2>2 DEF BlockListedAt
  <2> QED
    BY <2>4, <2>5, <2>6
<1>8. \A q \in Procs \ {p} : obj'[p] # NoProc /\ obj[q] = obj'[p] =>
        pc'[p] = "reenqueue" \/ pc[q] = "reenqueue"
  BY <1>0 DEF TypesOK, KInv, BlocksDistinct
<1> QED
  BY <1>0, <1>2, <1>3, <1>4, <1>5, <1>6, <1>7, <1>8, OwnStepInv

\* The decremented counter is stored.
LEMMA PermitStoreInv ==
  ASSUME NEW Places, NEW Asleep, KInv(Places, Asleep), NEW p \in Procs, PermitStore(p)
  PROVE  KInv(Places, Asleep)'
<1>0. KInv(Places, Asleep)
  OBVIOUS
<1>1. /\ TypesOK(Places) /\ SectionsAt(p) /\ RegisterAt(p) /\ CountIsNest
      /\ Running(Asleep) /\ ZombieAt(p)
      /\ BlockStateAt(p) /\ BlockSetAt(p) /\ BlockListedAt(p)
  BY <1>0 DEF KInv, PlaceInv, ZombiesInv, BlocksInv
<1> USE DEF PermitStore, At, Goto, CallCount, schedVars, countVars
<1>2. p = cpu /\ ~idle /\ UNCHANGED <<current, cpu, idle, ready, zombies>>
  OBVIOUS
<1>3. \A q \in Procs \ {p} : /\ pc'[q] = pc[q] /\ cont'[q] = cont[q] /\ reg'[q] = reg[q]
                            /\ nest'[q] = nest[q] /\ obj'[q] = obj[q]
  BY <1>1 DEF TypesOK
<1>4. TypesOK(Places)'
  <2>1. pc' \in [Procs -> Places] /\ cont' \in [Procs -> Labels]
    BY <1>1 DEF TypesOK, Labels, OutsideLabels
  <2>2. preemptCount' \in Int
    <3>1. reg[p] - 1 \in Int /\ preemptCount \in Int
      BY <1>1 DEF TypesOK
    <3>2. preemptCount' = IF Preempt THEN reg[p] - 1 ELSE preemptCount
      OBVIOUS
    <3> HIDE DEF PermitStore
    <3> QED
      BY <3>1, <3>2
  <2>4. reg' \in [Procs -> Int] /\ nest' \in [Procs -> Int]
    BY <1>1 DEF TypesOK
  <2>3. UNCHANGED <<schedVars, isr, zombies, pri, obj>>
    OBVIOUS
  <2> HIDE DEF PermitStore
  <2> QED
    BY <1>1, <2>1, <2>2, <2>3, <2>4 DEF TypesOK
<1>5. SectionsAt(p)' /\ RegisterAt(p)' /\ CountIsNest'
  <2>1. /\ pc[p] = "permit_store" /\ cpu' = cpu /\ ~idle'
        /\ pc'[p] = cont[p] /\ nest'[p] = nest[p] - 1
        /\ preemptCount' = IF Preempt THEN reg[p] - 1 ELSE preemptCount
    BY <1>1 DEF TypesOK
  <2>2. /\ \/ /\ cont[p] \in {"user", "zomb_test", "free_loop", "new_init", "exit_switch"}
              /\ nest[p] = 1
           \/ cont[p] = "crit" /\ nest[p] > 1
        /\ nest[p] \in Nat
    BY <1>1, <2>1 DEF SectionsAt
  <2> HIDE DEF PermitStore
  <2>3. SectionsAt(p)' /\ RegisterAt(p)'
    BY <2>1, <2>2 DEF SectionsAt, RegisterAt, OutsideLabels, InsideLabels, Dead, Labels, CountLabels
  <2>4. CountIsNest'
    BY <1>1, <1>2, <2>1, <2>2 DEF TypesOK, RegisterAt, CountIsNest
  <2> QED
    BY <2>3, <2>4
<1>6. Live(p)' /\ Cleared(p)' = Cleared(p) /\ ZombieAt(p)'
  <2>1. cont[p] \in {"user", "zomb_test", "free_loop", "new_init", "exit_switch", "crit"}
    BY <1>1 DEF SectionsAt, Labels, CountLabels, OutsideLabels, InsideLabels, Dead
  <2> QED
    BY <1>1, <2>1 DEF TypesOK, Live, Cleared, Towards, ZombieAt, CountLabels, Dead
<1>7. BlockStateAt(p)' /\ BlockSetAt(p)' /\ BlockListedAt(p)'
  <2>1. cont[p] \in {"user", "zomb_test", "free_loop", "new_init", "exit_switch", "crit"}
    BY <1>1 DEF SectionsAt, Labels, CountLabels, OutsideLabels, InsideLabels, Dead
  <2>2. pc'[p] = cont[p] /\ obj' = obj /\ zombies' = zombies
    BY <1>1 DEF TypesOK
  <2>3. obj[p] # NoProc => obj[p] # p /\ pc'[obj[p]] = pc[obj[p]]
    BY <1>1, <1>3 DEF TypesOK, BlockStateAt
  <2>4. BlockStateAt(p)'
    BY <1>1, <2>1, <2>2, <2>3
       DEF BlockStateAt, Towards, FreeingLabels, InitLabels, CountLabels
  <2>5. BlockSetAt(p)'
    BY <1>1, <2>1, <2>2 DEF BlockSetAt, Towards, InitLabels, CountLabels
  <2>6. BlockListedAt(p)'
    BY <1>1, <2>1, <2>2 DEF BlockListedAt
  <2> QED
    BY <2>4, <2>5, <2>6
<1>8. \A q \in Procs \ {p} : obj'[p] # NoProc /\ obj[q] = obj'[p] =>
        pc'[p] = "reenqueue" \/ pc[q] = "reenqueue"
  BY <1>0 DEF TypesOK, KInv, BlocksDistinct
<1> QED
  BY <1>0, <1>2, <1>3, <1>4, <1>5, <1>6, <1>7, <1>8, OwnStepInv

\* The application calls proc_forbid().
LEMMA AppForbidInv ==
  ASSUME NEW Places, NEW Asleep, KInv(Places, Asleep), NEW p \in Procs, AppForbid(p)
  PROVE  KInv(Places, Asleep)'
<1>0. KInv(Places, Asleep)
  OBVIOUS
<1>1. /\ TypesOK(Places) /\ SectionsAt(p) /\ RegisterAt(p) /\ CountIsNest
      /\ Running(Asleep) /\ ZombieAt(p)
      /\ BlockStateAt(p) /\ BlockSetAt(p) /\ BlockListedAt(p)
  BY <1>0 DEF KInv, PlaceInv, ZombiesInv, BlocksInv
<1> USE DEF AppForbid, At, Goto, CallCount, schedVars, countVars
<1>2. p = cpu /\ ~idle /\ UNCHANGED <<current, cpu, idle, ready, zombies>>
  OBVIOUS
<1>3. \A q \in Procs \ {p} : /\ pc'[q] = pc[q] /\ cont'[q] = cont[q] /\ reg'[q] = reg[q]
                            /\ nest'[q] = nest[q] /\ obj'[q] = obj[q]
  BY <1>1 DEF TypesOK
<1>4. TypesOK(Places)'
  BY <1>1 DEF TypesOK, Labels, OutsideLabels, InsideLabels, CountLabels
<1>5. SectionsAt(p)' /\ RegisterAt(p)' /\ CountIsNest'
  BY <1>1
     DEF TypesOK, SectionsAt, RegisterAt, CountIsNest, OutsideLabels, InsideLabels, Dead,
         Labels, CountLabels
<1>6. Live(p)' /\ Cleared(p)' = Cleared(p) /\ ZombieAt(p)'
  BY <1>1 DEF TypesOK, Live, Cleared, Towards, ZombieAt, CountLabels, Dead
<1>7. BlockStateAt(p)' /\ BlockSetAt(p)' /\ BlockListedAt(p)'
  BY <1>1
     DEF TypesOK, BlockStateAt, BlockSetAt, BlockListedAt, Towards, FreeingLabels, InitLabels,
         CountLabels
<1>8. \A q \in Procs \ {p} : obj'[p] # NoProc /\ obj[q] = obj'[p] =>
        pc'[p] = "reenqueue" \/ pc[q] = "reenqueue"
  BY <1>0 DEF TypesOK, KInv, BlocksDistinct
<1> QED
  BY <1>0, <1>2, <1>3, <1>4, <1>5, <1>6, <1>7, <1>8, OwnStepInv

\* The application calls proc_permit().
LEMMA AppPermitInv ==
  ASSUME NEW Places, NEW Asleep, KInv(Places, Asleep), NEW p \in Procs, AppPermit(p)
  PROVE  KInv(Places, Asleep)'
<1>0. KInv(Places, Asleep)
  OBVIOUS
<1>1. /\ TypesOK(Places) /\ SectionsAt(p) /\ RegisterAt(p) /\ CountIsNest
      /\ Running(Asleep) /\ ZombieAt(p)
      /\ BlockStateAt(p) /\ BlockSetAt(p) /\ BlockListedAt(p)
  BY <1>0 DEF KInv, PlaceInv, ZombiesInv, BlocksInv
<1> USE DEF AppPermit, At, Goto, CallCount, schedVars, countVars
<1>2. p = cpu /\ ~idle /\ UNCHANGED <<current, cpu, idle, ready, zombies>>
  OBVIOUS
<1>3. \A q \in Procs \ {p} : /\ pc'[q] = pc[q] /\ cont'[q] = cont[q] /\ reg'[q] = reg[q]
                            /\ nest'[q] = nest[q] /\ obj'[q] = obj[q]
  BY <1>1 DEF TypesOK
<1>4. TypesOK(Places)'
  BY <1>1 DEF TypesOK, Labels, OutsideLabels, InsideLabels, CountLabels
<1>5. SectionsAt(p)' /\ RegisterAt(p)' /\ CountIsNest'
  BY <1>1
     DEF TypesOK, SectionsAt, RegisterAt, CountIsNest, OutsideLabels, InsideLabels, Dead,
         Labels, CountLabels
<1>6. Live(p)' /\ Cleared(p)' = Cleared(p) /\ ZombieAt(p)'
  BY <1>1 DEF TypesOK, Live, Cleared, Towards, ZombieAt, CountLabels, Dead
<1>7. BlockStateAt(p)' /\ BlockSetAt(p)' /\ BlockListedAt(p)'
  BY <1>1
     DEF TypesOK, BlockStateAt, BlockSetAt, BlockListedAt, Towards, FreeingLabels, InitLabels,
         CountLabels
<1>8. \A q \in Procs \ {p} : obj'[p] # NoProc /\ obj[q] = obj'[p] =>
        pc'[p] = "reenqueue" \/ pc[q] = "reenqueue"
  BY <1>0 DEF TypesOK, KInv, BlocksDistinct
<1> QED
  BY <1>0, <1>2, <1>3, <1>4, <1>5, <1>6, <1>7, <1>8, OwnStepInv

\* proc_new() begins.
LEMMA NewInv ==
  ASSUME NEW Places, NEW Asleep, KInv(Places, Asleep), NEW p \in Procs, New(p)
  PROVE  KInv(Places, Asleep)'
<1>0. KInv(Places, Asleep)
  OBVIOUS
<1>1. /\ TypesOK(Places) /\ SectionsAt(p) /\ RegisterAt(p) /\ CountIsNest
      /\ Running(Asleep) /\ ZombieAt(p)
      /\ BlockStateAt(p) /\ BlockSetAt(p) /\ BlockListedAt(p)
  BY <1>0 DEF KInv, PlaceInv, ZombiesInv, BlocksInv
<1> USE DEF New, At, Goto, CallCount, schedVars, countVars
<1>2. p = cpu /\ ~idle /\ UNCHANGED <<current, cpu, idle, ready, zombies>>
  OBVIOUS
<1>3. \A q \in Procs \ {p} : /\ pc'[q] = pc[q] /\ cont'[q] = cont[q] /\ reg'[q] = reg[q]
                            /\ nest'[q] = nest[q] /\ obj'[q] = obj[q]
  BY <1>1 DEF TypesOK
<1>4. TypesOK(Places)'
  BY <1>1 DEF TypesOK, Labels, OutsideLabels, InsideLabels, CountLabels
<1>5. SectionsAt(p)' /\ RegisterAt(p)' /\ CountIsNest'
  BY <1>1
     DEF TypesOK, SectionsAt, RegisterAt, CountIsNest, OutsideLabels, InsideLabels, Dead,
         Labels, CountLabels
<1>6. Live(p)' /\ Cleared(p)' = Cleared(p) /\ ZombieAt(p)'
  BY <1>1 DEF TypesOK, Live, Cleared, Towards, ZombieAt, CountLabels, Dead
<1>7. BlockStateAt(p)' /\ BlockSetAt(p)' /\ BlockListedAt(p)'
  BY <1>1
     DEF TypesOK, BlockStateAt, BlockSetAt, BlockListedAt, Towards, FreeingLabels, InitLabels,
         CountLabels
<1>8. \A q \in Procs \ {p} : obj'[p] # NoProc /\ obj[q] = obj'[p] =>
        pc'[p] = "reenqueue" \/ pc[q] = "reenqueue"
  BY <1>0 DEF TypesOK, KInv, BlocksDistinct
<1> QED
  BY <1>0, <1>2, <1>3, <1>4, <1>5, <1>6, <1>7, <1>8, OwnStepInv

\* The loop of proc_freeZombies() begins again.
LEMMA FreeLoopInv ==
  ASSUME NEW Places, NEW Asleep, KInv(Places, Asleep), NEW p \in Procs, FreeLoop(p)
  PROVE  KInv(Places, Asleep)'
<1>0. KInv(Places, Asleep)
  OBVIOUS
<1>1. /\ TypesOK(Places) /\ SectionsAt(p) /\ RegisterAt(p) /\ CountIsNest
      /\ Running(Asleep) /\ ZombieAt(p)
      /\ BlockStateAt(p) /\ BlockSetAt(p) /\ BlockListedAt(p)
  BY <1>0 DEF KInv, PlaceInv, ZombiesInv, BlocksInv
<1> USE DEF FreeLoop, At, Goto, CallCount, schedVars, countVars
<1>2. p = cpu /\ ~idle /\ UNCHANGED <<current, cpu, idle, ready, zombies>>
  OBVIOUS
<1>3. \A q \in Procs \ {p} : /\ pc'[q] = pc[q] /\ cont'[q] = cont[q] /\ reg'[q] = reg[q]
                            /\ nest'[q] = nest[q] /\ obj'[q] = obj[q]
  BY <1>1 DEF TypesOK
<1>4. TypesOK(Places)'
  BY <1>1 DEF TypesOK, Labels, OutsideLabels, InsideLabels, CountLabels
<1>5. SectionsAt(p)' /\ RegisterAt(p)' /\ CountIsNest'
  BY <1>1
     DEF TypesOK, SectionsAt, RegisterAt, CountIsNest, OutsideLabels, InsideLabels, Dead,
         Labels, CountLabels
<1>6. Live(p)' /\ Cleared(p)' = Cleared(p) /\ ZombieAt(p)'
  BY <1>1 DEF TypesOK, Live, Cleared, Towards, ZombieAt, CountLabels, Dead
<1>7. BlockStateAt(p)' /\ BlockSetAt(p)' /\ BlockListedAt(p)'
  BY <1>1
     DEF TypesOK, BlockStateAt, BlockSetAt, BlockListedAt, Towards, FreeingLabels, InitLabels,
         CountLabels
<1>8. \A q \in Procs \ {p} : obj'[p] # NoProc /\ obj[q] = obj'[p] =>
        pc'[p] = "reenqueue" \/ pc[q] = "reenqueue"
  BY <1>0 DEF TypesOK, KInv, BlocksDistinct
<1> QED
  BY <1>0, <1>2, <1>3, <1>4, <1>5, <1>6, <1>7, <1>8, OwnStepInv

\* proc is the first zombie, which does not run and which nobody else frees.
LEMMA FirstZombieInv ==
  ASSUME NEW Places, NEW Asleep, KInv(Places, Asleep), NEW p \in Procs, FirstZombie(p)
  PROVE  KInv(Places, Asleep)'
<1>0. KInv(Places, Asleep)
  OBVIOUS
<1>1. /\ TypesOK(Places) /\ SectionsAt(p) /\ RegisterAt(p) /\ CountIsNest
      /\ Running(Asleep) /\ ZombieAt(p)
      /\ BlockStateAt(p) /\ BlockSetAt(p) /\ BlockListedAt(p)
  BY <1>0 DEF KInv, PlaceInv, ZombiesInv, BlocksInv
<1> USE DEF FirstZombie, At, Goto, CallCount, schedVars, countVars
<1>2. p = cpu /\ ~idle /\ UNCHANGED <<current, cpu, idle, ready, zombies>>
  OBVIOUS
<1>3. \A q \in Procs \ {p} : /\ pc'[q] = pc[q] /\ cont'[q] = cont[q] /\ reg'[q] = reg[q]
                            /\ nest'[q] = nest[q] /\ obj'[q] = obj[q]
  BY <1>1 DEF TypesOK
<1>4. TypesOK(Places)'
  <2>1. zombies # <<>> => Head(zombies) \in Procs
    BY <1>1, TailMembers DEF TypesOK
  <2>2. obj' \in [Procs -> Procs \cup {NoProc}]
    BY <1>1, <2>1 DEF TypesOK
  <2>3. pc' \in [Procs -> Places] /\ cont' \in [Procs -> Labels]
    BY <1>1 DEF TypesOK, Labels, OutsideLabels, InsideLabels, CountLabels
  <2> QED
    BY <1>1, <2>2, <2>3 DEF TypesOK
<1>5. SectionsAt(p)' /\ RegisterAt(p)' /\ CountIsNest'
  BY <1>1
     DEF TypesOK, SectionsAt, RegisterAt, CountIsNest, OutsideLabels, InsideLabels, Dead,
         Labels, CountLabels
<1>6. Live(p)' /\ Cleared(p)' = Cleared(p) /\ ZombieAt(p)'
  BY <1>1 DEF TypesOK, Live, Cleared, Towards, ZombieAt, CountLabels, Dead
<1>7. BlockStateAt(p)' /\ BlockSetAt(p)' /\ BlockListedAt(p)'
  <2>1. CASE zombies = <<>>
    BY <1>1, <2>1
       DEF TypesOK, BlockStateAt, BlockSetAt, BlockListedAt, Towards, InitLabels, CountLabels
  <2>2. CASE zombies # <<>>
    <3>1. Head(zombies) \in Procs /\ Contains(zombies, Head(zombies))
      BY <1>1, <2>2, TailMembers DEF TypesOK
    <3>2. pc[Head(zombies)] = "zombie"
      BY <1>0, <1>1, <1>2, <3>1 DEF KInv, ZombiesInv, ZombieAt, Cleared, Towards, CountLabels
    <3>3. pc'[p] = "zomb_rem" /\ obj'[p] = Head(zombies) /\ pc'[Head(zombies)] = "zombie"
      BY <1>1, <1>2, <2>2, <3>1, <3>2 DEF TypesOK
    <3> QED
      BY <1>2, <2>2, <3>1, <3>3, ProcsAssumption
         DEF BlockStateAt, BlockSetAt, BlockListedAt, Towards, FreeingLabels
  <2> QED
    BY <2>1, <2>2
<1>8. \A q \in Procs \ {p} : obj'[p] # NoProc /\ obj[q] = obj'[p] =>
        pc'[p] = "reenqueue" \/ pc[q] = "reenqueue"
  <2> SUFFICES ASSUME NEW q \in Procs \ {p}, obj'[p] # NoProc, obj[q] = obj'[p]
               PROVE  pc[q] = "reenqueue"
    OBVIOUS
  <2>1. zombies # <<>> /\ obj[q] = Head(zombies)
    BY <1>1 DEF TypesOK
  <2>2. Contains(zombies, obj[q])
    BY <1>1, <2>1, TailMembers DEF TypesOK
  <2>3. pc[q] \in {"reenqueue", "zomb_rem"}
    BY <1>0, <2>1, <2>2 DEF KInv, BlocksInv, BlockListedAt
  <2>4. nest[q] = 0 /\ SectionsAt(q)
    BY <1>0, <1>2 DEF KInv, OthersOutside, PlaceInv
  <2> QED
    BY <2>3, <2>4 DEF SectionsAt, InsideLabels, Labels, CountLabels, OutsideLabels, Dead
<1> QED
  BY <1>0, <1>2, <1>3, <1>4, <1>5, <1>6, <1>7, <1>8, OwnStepInv

\* Whether there was a zombie, and whether its stack is the heap's.
LEMMA ZombieTestInv ==
  ASSUME NEW Places, NEW Asleep, KInv(Places, Asleep), NEW p \in Procs, ZombieTest(p)
  PROVE  KInv(Places, Asleep)'
<1>0. KInv(Places, Asleep)
  OBVIOUS
<1>1. /\ TypesOK(Places) /\ SectionsAt(p) /\ RegisterAt(p) /\ CountIsNest
      /\ Running(Asleep) /\ ZombieAt(p)
      /\ BlockStateAt(p) /\ BlockSetAt(p) /\ BlockListedAt(p)
  BY <1>0 DEF KInv, PlaceInv, ZombiesInv, BlocksInv
<1> USE DEF ZombieTest, At, Goto, CallCount, schedVars, countVars
<1>2. p = cpu /\ ~idle /\ UNCHANGED <<current, cpu, idle, ready, zombies>>
  OBVIOUS
<1>3. \A q \in Procs \ {p} : /\ pc'[q] = pc[q] /\ cont'[q] = cont[q] /\ reg'[q] = reg[q]
                            /\ nest'[q] = nest[q] /\ obj'[q] = obj[q]
  BY <1>1 DEF TypesOK
<1>4. TypesOK(Places)'
  BY <1>1 DEF TypesOK, Labels, OutsideLabels, InsideLabels, CountLabels
<1>5. SectionsAt(p)' /\ RegisterAt(p)' /\ CountIsNest'
  BY <1>1
     DEF TypesOK, SectionsAt, RegisterAt, CountIsNest, OutsideLabels, InsideLabels, Dead,
         Labels, CountLabels
<1>6. Live(p)' /\ Cleared(p)' = Cleared(p) /\ ZombieAt(p)'
  BY <1>1 DEF TypesOK, Live, Cleared, Towards, ZombieAt, CountLabels, Dead
<1>7. BlockStateAt(p)' /\ BlockSetAt(p)' /\ BlockListedAt(p)'
  BY <1>1
     DEF TypesOK, BlockStateAt, BlockSetAt, BlockListedAt, Towards, FreeingLabels, InitLabels,
         CountLabels
<1>8. \A q \in Procs \ {p} : obj'[p] # NoProc /\ obj[q] = obj'[p] =>
        pc'[p] = "reenqueue" \/ pc[q] = "reenqueue"
  BY <1>0 DEF TypesOK, KInv, BlocksDistinct
<1> QED
  BY <1>0, <1>2, <1>3, <1>4, <1>5, <1>6, <1>7, <1>8, OwnStepInv

\* proc is a free block, which nobody else was given.
LEMMA FindSlotInv ==
  ASSUME NEW Places, NEW Asleep, KInv(Places, Asleep), NEW p \in Procs, FindSlot(p)
  PROVE  KInv(Places, Asleep)'
<1>0. KInv(Places, Asleep)
  OBVIOUS
<1>1. /\ TypesOK(Places) /\ SectionsAt(p) /\ RegisterAt(p) /\ CountIsNest
      /\ Running(Asleep) /\ ZombieAt(p)
      /\ BlockStateAt(p) /\ BlockSetAt(p) /\ BlockListedAt(p)
  BY <1>0 DEF KInv, PlaceInv, ZombiesInv, BlocksInv
<1> USE DEF FindSlot, At, Goto, CallCount, schedVars, countVars
<1>2. p = cpu /\ ~idle /\ UNCHANGED <<current, cpu, idle, ready, zombies>>
  OBVIOUS
<1>3. \A q \in Procs \ {p} : /\ pc'[q] = pc[q] /\ cont'[q] = cont[q] /\ reg'[q] = reg[q]
                            /\ nest'[q] = nest[q] /\ obj'[q] = obj[q]
  BY <1>1 DEF TypesOK
<1>4. TypesOK(Places)'
  BY <1>1 DEF TypesOK, Labels, OutsideLabels, InsideLabels, CountLabels
<1>5. SectionsAt(p)' /\ RegisterAt(p)' /\ CountIsNest'
  BY <1>1
     DEF TypesOK, SectionsAt, RegisterAt, CountIsNest, OutsideLabels, InsideLabels, Dead,
         Labels, CountLabels
<1>6. Live(p)' /\ Cleared(p)' = Cleared(p) /\ ZombieAt(p)'
  BY <1>1 DEF TypesOK, Live, Cleared, Towards, ZombieAt, CountLabels, Dead
<1>7. BlockStateAt(p)' /\ BlockSetAt(p)' /\ BlockListedAt(p)'
  <2>1. CASE CallCount(p, "permit", "user") /\ obj' = obj
    BY <1>1, <2>1
       DEF TypesOK, BlockStateAt, BlockSetAt, BlockListedAt, Towards, FreeingLabels, InitLabels,
           CountLabels
  <2>2. CASE \E q \in Procs : /\ pc[q] = "free" /\ Goto(p, "slot_take")
                             /\ obj' = [obj EXCEPT ![p] = q]
    <3>1. PICK q \in Procs : /\ pc[q] = "free" /\ Goto(p, "slot_take")
                             /\ obj' = [obj EXCEPT ![p] = q]
      BY <2>2
    <3>2. q # p /\ pc'[p] = "slot_take" /\ pc'[q] = "free" /\ obj'[p] = q
      BY <1>1, <3>1 DEF TypesOK
    <3>3. ~Contains(zombies, q)
      BY <1>0, <1>2, <3>1, <3>2 DEF KInv, ZombiesInv, ZombieAt
    <3> QED
      BY <1>2, <3>1, <3>2, <3>3, ProcsAssumption DEF BlockStateAt, BlockSetAt, BlockListedAt
  <2> QED
    BY <2>1, <2>2
<1>8. \A q \in Procs \ {p} : obj'[p] # NoProc /\ obj[q] = obj'[p] =>
        pc'[p] = "reenqueue" \/ pc[q] = "reenqueue"
  <2> SUFFICES ASSUME NEW q \in Procs \ {p}, obj'[p] # NoProc, obj[q] = obj'[p]
               PROVE  pc[q] = "reenqueue"
    OBVIOUS
  <2>1. obj[p] = NoProc
    BY <1>1 DEF BlockStateAt, Towards, FreeingLabels, InitLabels, CountLabels
  <2>2. pc[obj[q]] = "free" /\ obj[q] # NoProc
    BY <1>1, <2>1 DEF TypesOK
  <2>3. pc[q] \in {"reenqueue", "slot_take"}
    BY <1>0, <2>2 DEF KInv, BlocksInv, BlockStateAt
  <2>4. nest[q] = 0 /\ SectionsAt(q)
    BY <1>0, <1>2 DEF KInv, OthersOutside, PlaceInv
  <2> QED
    BY <2>3, <2>4 DEF SectionsAt, InsideLabels, Labels, CountLabels, OutsideLabels, Dead
<1> QED
  BY <1>0, <1>2, <1>3, <1>4, <1>5, <1>6, <1>7, <1>8, OwnStepInv

\* The control block is initialised.
LEMMA InitStructInv ==
  ASSUME NEW Places, NEW Asleep, KInv(Places, Asleep), NEW p \in Procs, InitStruct(p)
  PROVE  KInv(Places, Asleep)'
<1>0. KInv(Places, Asleep)
  OBVIOUS
<1>1. /\ TypesOK(Places) /\ SectionsAt(p) /\ RegisterAt(p) /\ CountIsNest
      /\ Running(Asleep) /\ ZombieAt(p)
      /\ BlockStateAt(p) /\ BlockSetAt(p) /\ BlockListedAt(p)
  BY <1>0 DEF KInv, PlaceInv, ZombiesInv, BlocksInv
<1> USE DEF InitStruct, At, Goto, CallCount, schedVars, countVars
<1>2. p = cpu /\ ~idle /\ UNCHANGED <<current, cpu, idle, ready, zombies>>
  OBVIOUS
<1>3. \A q \in Procs \ {p} : /\ pc'[q] = pc[q] /\ cont'[q] = cont[q] /\ reg'[q] = reg[q]
                            /\ nest'[q] = nest[q] /\ obj'[q] = obj[q]
  BY <1>1 DEF TypesOK
<1>4. TypesOK(Places)'
  <2>1. pri' \in [Procs -> Int]
    <3>1. obj[p] \in Procs
      BY <1>1 DEF TypesOK, BlockSetAt, Towards, InitLabels
    <3> QED
      BY <1>1, <3>1 DEF TypesOK
  <2>2. pc' \in [Procs -> Places]
    BY <1>1 DEF TypesOK, Labels, OutsideLabels
  <2> QED
    BY <1>1, <2>1, <2>2 DEF TypesOK
<1>5. SectionsAt(p)' /\ RegisterAt(p)' /\ CountIsNest'
  BY <1>1
     DEF TypesOK, SectionsAt, RegisterAt, CountIsNest, OutsideLabels, InsideLabels, Dead,
         Labels, CountLabels
<1>6. Live(p)' /\ Cleared(p)' = Cleared(p) /\ ZombieAt(p)'
  BY <1>1 DEF TypesOK, Live, Cleared, Towards, ZombieAt, CountLabels, Dead
<1>7. BlockStateAt(p)' /\ BlockSetAt(p)' /\ BlockListedAt(p)'
  BY <1>1
     DEF TypesOK, BlockStateAt, BlockSetAt, BlockListedAt, Towards, FreeingLabels, InitLabels,
         CountLabels
<1>8. \A q \in Procs \ {p} : obj'[p] # NoProc /\ obj[q] = obj'[p] =>
        pc'[p] = "reenqueue" \/ pc[q] = "reenqueue"
  BY <1>0 DEF TypesOK, KInv, BlocksDistinct
<1> QED
  BY <1>0, <1>2, <1>3, <1>4, <1>5, <1>6, <1>7, <1>8, OwnStepInv

\* proc_setPri() stores the priority of o.
LEMMA SetPriInv ==
  ASSUME NEW Places, NEW Asleep, KInv(Places, Asleep), NEW p \in Procs, NEW o \in Procs,
         NEW v \in Prios, SetPri(p, o, v)
  PROVE  KInv(Places, Asleep)'
<1>0. KInv(Places, Asleep)
  OBVIOUS
<1>1. /\ TypesOK(Places) /\ SectionsAt(p) /\ RegisterAt(p) /\ CountIsNest
      /\ Running(Asleep) /\ ZombieAt(p)
      /\ BlockStateAt(p) /\ BlockSetAt(p) /\ BlockListedAt(p)
  BY <1>0 DEF KInv, PlaceInv, ZombiesInv, BlocksInv
<1> USE DEF SetPri, At, Goto, CallCount, schedVars, countVars
<1>2. p = cpu /\ ~idle /\ UNCHANGED <<current, cpu, idle, ready, zombies>>
  OBVIOUS
<1>3. \A q \in Procs \ {p} : /\ pc'[q] = pc[q] /\ cont'[q] = cont[q] /\ reg'[q] = reg[q]
                            /\ nest'[q] = nest[q] /\ obj'[q] = obj[q]
  BY <1>1 DEF TypesOK
<1>4. TypesOK(Places)'
  <2>1. pri' \in [Procs -> Int]
    BY <1>1, PriosAssumption DEF TypesOK
  <2>2. pc' \in [Procs -> Places] /\ obj' \in [Procs -> Procs \cup {NoProc}]
    BY <1>1 DEF TypesOK, Labels, OutsideLabels
  <2> QED
    BY <1>1, <2>1, <2>2 DEF TypesOK
<1>5. SectionsAt(p)' /\ RegisterAt(p)' /\ CountIsNest'
  BY <1>1
     DEF TypesOK, SectionsAt, RegisterAt, CountIsNest, OutsideLabels, InsideLabels, Dead,
         Labels, CountLabels
<1>6. Live(p)' /\ Cleared(p)' = Cleared(p) /\ ZombieAt(p)'
  BY <1>1 DEF TypesOK, Live, Cleared, Towards, ZombieAt, CountLabels, Dead
<1>7. BlockStateAt(p)' /\ BlockSetAt(p)' /\ BlockListedAt(p)'
  <2>1. CASE o = current
    BY <1>1, <2>1 DEF BlockStateAt, BlockSetAt, BlockListedAt, Towards
  <2>2. CASE o # current
    <3>1. pc'[p] = "reenqueue" /\ obj'[p] = o
      BY <1>1, <2>2 DEF TypesOK
    <3> QED
      BY <3>1, ProcsAssumption DEF BlockStateAt, BlockSetAt, BlockListedAt
  <2> QED
    BY <2>1, <2>2
<1>8. \A q \in Procs \ {p} : obj'[p] # NoProc /\ obj[q] = obj'[p] =>
        pc'[p] = "reenqueue" \/ pc[q] = "reenqueue"
  BY <1>0, <1>1, <1>2 DEF TypesOK, BlockStateAt, Towards, FreeingLabels, InitLabels, CountLabels
<1> QED
  BY <1>0, <1>2, <1>3, <1>4, <1>5, <1>6, <1>7, <1>8, OwnStepInv

\* proc_exit() begins.
LEMMA ExitInv ==
  ASSUME NEW Places, NEW Asleep, KInv(Places, Asleep), NEW p \in Procs, Exit(p)
  PROVE  KInv(Places, Asleep)'
<1>0. KInv(Places, Asleep)
  OBVIOUS
<1>1. /\ TypesOK(Places) /\ SectionsAt(p) /\ RegisterAt(p) /\ CountIsNest
      /\ Running(Asleep) /\ ZombieAt(p)
      /\ BlockStateAt(p) /\ BlockSetAt(p) /\ BlockListedAt(p)
  BY <1>0 DEF KInv, PlaceInv, ZombiesInv, BlocksInv
<1> USE DEF Exit, At, Goto, CallCount, schedVars, countVars
<1>2. p = cpu /\ ~idle /\ UNCHANGED <<current, cpu, idle, ready, zombies>>
  OBVIOUS
<1>3. \A q \in Procs \ {p} : /\ pc'[q] = pc[q] /\ cont'[q] = cont[q] /\ reg'[q] = reg[q]
                            /\ nest'[q] = nest[q] /\ obj'[q] = obj[q]
  BY <1>1 DEF TypesOK
<1>4. TypesOK(Places)'
  BY <1>1 DEF TypesOK, Labels, OutsideLabels, InsideLabels, CountLabels
<1>5. SectionsAt(p)' /\ RegisterAt(p)' /\ CountIsNest'
  BY <1>1
     DEF TypesOK, SectionsAt, RegisterAt, CountIsNest, OutsideLabels, InsideLabels, Dead,
         Labels, CountLabels
<1>6. Live(p)' /\ Cleared(p)' = Cleared(p) /\ ZombieAt(p)'
  BY <1>1 DEF TypesOK, Live, Cleared, Towards, ZombieAt, CountLabels, Dead
<1>7. BlockStateAt(p)' /\ BlockSetAt(p)' /\ BlockListedAt(p)'
  BY <1>1
     DEF TypesOK, BlockStateAt, BlockSetAt, BlockListedAt, Towards, FreeingLabels, InitLabels,
         CountLabels
<1>8. \A q \in Procs \ {p} : obj'[p] # NoProc /\ obj[q] = obj'[p] =>
        pc'[p] = "reenqueue" \/ pc[q] = "reenqueue"
  BY <1>0 DEF TypesOK, KInv, BlocksDistinct
<1> QED
  BY <1>0, <1>2, <1>3, <1>4, <1>5, <1>6, <1>7, <1>8, OwnStepInv

-----------------------------------------------------------------------------
(***************************************************************************)
(* The steps that change one of the lists.                                 *)
(***************************************************************************)

\* What the invariant says of the running process.
LEMMA InvAt ==
  ASSUME NEW Places, NEW Asleep, KInv(Places, Asleep), NEW p \in Procs
  PROVE  /\ TypesOK(Places) /\ SectionsAt(p) /\ RegisterAt(p) /\ ZombieAt(p)
         /\ BlockStateAt(p) /\ BlockSetAt(p) /\ BlockListedAt(p)
BY DEF KInv, PlaceInv, ZombiesInv, BlocksInv

\* sched_reenqueue() leaves the same processes in the list, or does nothing.
LEMMA ReenqueueInv ==
  ASSUME NEW Places, NEW Asleep, KInv(Places, Asleep), NEW p \in Procs, Reenqueue(p)
  PROVE  KInv(Places, Asleep)'
<1> DEFINE q == obj[p]
<1>1. /\ KInv(Places, Asleep) /\ TypesOK(Places) /\ SectionsAt(p) /\ ZombieAt(p) /\ BlockSetAt(p)
  BY InvAt
<1>2. /\ p = cpu /\ ~idle /\ pc[p] = "reenqueue" /\ q \in Procs
      /\ UNCHANGED <<current, cpu, idle, quantum, isr, zombies, pri, preemptCount, reg,
                     nest, cont>>
      /\ pc' = [pc EXCEPT ![p] = "user"] /\ obj' = [obj EXCEPT ![p] = NoProc]
      /\ ready' = IF Contains(ready, q) THEN Enqueue(Unlink(ready, q), q, pri) ELSE ready
  BY <1>1 DEF Reenqueue, At, Goto, countVars, BlockSetAt, TypesOK
<1> HIDE DEF q
<1>3. ready' \in Seq(Procs) /\ NoDup(ready') /\ \A r : Contains(ready', r) <=> Contains(ready, r)
  <2>1. ready \in Seq(Procs) /\ NoDup(ready) /\ pri \in [Procs -> Int]
    BY <1>1 DEF KInv, TypesOK, ReadyExact
  <2>2. CASE ~Contains(ready, q)
    BY <1>2, <2>1, <2>2
  <2>3. CASE Contains(ready, q)
    <3>1. /\ Unlink(ready, q) \in Seq(Procs) /\ NoDup(Unlink(ready, q))
          /\ \A r : Contains(Unlink(ready, q), r) <=> r # q /\ Contains(ready, r)
      BY <2>1, <2>3, UnlinkMembers
    <3>2. /\ ready' \in Seq(Procs) /\ NoDup(ready')
          /\ \A r : Contains(ready', r) <=> r = q \/ Contains(Unlink(ready, q), r)
      BY <1>2, <2>1, <2>3, <3>1, EnqueueMembers
    <3> QED
      BY <2>3, <3>1, <3>2
  <2> QED
    BY <2>2, <2>3
<1>4. TypesOK(Places)'
  <2>1. pc' \in [Procs -> Places] /\ obj' \in [Procs -> Procs \cup {NoProc}]
    BY <1>1, <1>2 DEF TypesOK, Labels, OutsideLabels
  <2> QED
    BY <1>1, <1>2, <1>3, <2>1 DEF TypesOK
<1>14. AsleepOutside(Asleep)'
  BY <1>1, <1>2 DEF KInv, TypesOK, AsleepOutside, Labels, OutsideLabels
<1>5. PlaceInv'
  BY <1>1, <1>2
     DEF KInv, TypesOK, PlaceInv, SectionsAt, RegisterAt, OutsideLabels, InsideLabels, Dead,
         Labels, CountLabels
<1>6. CountIsNest' /\ OthersOutside'
  BY <1>1, <1>2 DEF KInv, CountIsNest, OthersOutside
<1>7. \A r \in Procs : Cleared(r)' = Cleared(r) /\ Live(r)' = Live(r)
  BY <1>1, <1>2 DEF TypesOK, Cleared, Towards, CountLabels, Live, Dead
<1>8. Running(Asleep)'
  BY <1>1, <1>2, <1>7 DEF KInv, TypesOK, Running
<1>9. ReadyExact(Asleep)'
  BY <1>1, <1>2, <1>3, <1>7 DEF KInv, ReadyExact
<1>10. ZombiesInv'
  BY <1>1, <1>2, <1>7 DEF KInv, TypesOK, ZombiesInv, ZombieAt
<1>11. \A r \in Procs : \A labels : r # p => Towards(r, labels)' = Towards(r, labels)
  BY <1>1, <1>2 DEF TypesOK, Towards
<1>12. BlocksInv'
  <2> SUFFICES ASSUME NEW r \in Procs
               PROVE  (BlockStateAt(r) /\ BlockSetAt(r) /\ BlockListedAt(r))'
    BY DEF BlocksInv
  <2>1. CASE r = p
    BY <1>1, <1>2, <2>1
       DEF TypesOK, BlockStateAt, BlockSetAt, BlockListedAt, Towards, InitLabels, CountLabels
  <2>2. CASE r # p
    <3>1. /\ pc'[r] = pc[r] /\ obj'[r] = obj[r] /\ obj[r] \in Procs \cup {NoProc}
          /\ BlockStateAt(r) /\ BlockSetAt(r) /\ BlockListedAt(r)
      BY <1>1, <1>2, <2>2, InvAt DEF TypesOK
    <3>2. obj[r] # NoProc => pc[r] = "reenqueue" \/ pc'[obj[r]] = pc[obj[r]]
      BY <1>1, <1>2, <3>1 DEF TypesOK, BlockStateAt
    <3> QED
      BY <1>2, <1>11, <2>2, <3>1, <3>2 DEF BlockStateAt, BlockSetAt, BlockListedAt
  <2> QED
    BY <2>1, <2>2
<1>13. BlocksDistinct'
  <2> SUFFICES ASSUME NEW r \in Procs, NEW s \in Procs,
                      r # s, obj'[r] # NoProc, obj'[r] = obj'[s]
               PROVE  pc'[r] = "reenqueue" \/ pc'[s] = "reenqueue"
    BY DEF BlocksDistinct
  <2>1. r # p /\ s # p
    BY <1>1, <1>2 DEF TypesOK
  <2> QED
    BY <1>1, <1>2, <2>1 DEF KInv, TypesOK, BlocksDistinct
<1> QED
  BY <1>4, <1>5, <1>6, <1>8, <1>9, <1>10, <1>12, <1>13, <1>14 DEF KInv

(***************************************************************************)
(* A step of the running process that changes its own variables, the       *)
(* zombie list or current_process.  It adds no zombie but the process, and *)
(* current_process is the process until it is cleared.                     *)
(***************************************************************************)
LEMMA ListStepInv ==
  ASSUME NEW Places, NEW Asleep, KInv(Places, Asleep), TypesOK(Places)',
         NEW p \in Procs, p = cpu, ~idle,
         UNCHANGED <<cpu, idle, ready>>,
         \A q \in Procs \ {p} :
           /\ pc'[q] = pc[q] /\ cont'[q] = cont[q] /\ reg'[q] = reg[q]
           /\ nest'[q] = nest[q] /\ obj'[q] = obj[q],
         SectionsAt(p)', RegisterAt(p)', CountIsNest', Live(p)',
         Cleared(p)' => current' = NoProc,
         ~Cleared(p)' => current' = p,
         NoDup(zombies)', ZombieAt(p)',
         \A q : Contains(zombies', q) => q = p \/ Contains(zombies, q),
         BlockStateAt(p)', BlockSetAt(p)', BlockListedAt(p)',
         \A q \in Procs \ {p} : obj'[p] # NoProc /\ obj[q] = obj'[p] =>
           pc'[p] = "reenqueue" \/ pc[q] = "reenqueue"
  PROVE  KInv(Places, Asleep)'
<1> USE DEF KInv
<1>0. AsleepOutside(Asleep)'
  BY DEF AsleepOutside, Running
<1>1. Live(p)
  BY DEF Running
<1>2. PlaceInv'
  BY DEF PlaceInv, SectionsAt, RegisterAt, Labels, CountLabels, OutsideLabels, InsideLabels, Dead
<1>3. OthersOutside'
  BY DEF OthersOutside
<1>4. \A q \in Procs \ {p} : Cleared(q)' = Cleared(q)
  BY DEF Cleared, Towards
<1>5. Running(Asleep)'
  BY <1>4 DEF Running, TypesOK
<1>6. ReadyExact(Asleep)'
  BY <1>1 DEF ReadyExact, Live
<1>7. ZombiesInv'
  BY <1>4 DEF ZombiesInv, ZombieAt
<1>8. BlocksInv'
  <2> SUFFICES ASSUME NEW q \in Procs, q # p
               PROVE  (BlockStateAt(q) /\ BlockSetAt(q) /\ BlockListedAt(q))'
    BY DEF BlocksInv
  <2>1. \A labels : Towards(q, labels)' = Towards(q, labels)
    BY DEF Towards
  <2>2. BlockSetAt(q)'
    BY <2>1 DEF BlocksInv, BlockSetAt
  <2>3. obj[q] # NoProc => pc[q] = "reenqueue" \/ pc[obj[q]] \in Dead
    BY DEF BlocksInv, BlockStateAt, Dead
  <2>4. obj[q] # NoProc => pc[q] = "reenqueue" \/ (obj[q] \in Procs /\ obj[q] # p)
    BY <1>1, <2>3 DEF TypesOK, Live
  <2>5. BlockStateAt(q)'
    BY <2>1, <2>4 DEF BlocksInv, BlockStateAt
  <2>6. pc[q] # "zomb_rem"
    BY DEF OthersOutside, PlaceInv, SectionsAt, InsideLabels, Labels, CountLabels, OutsideLabels, Dead
  <2>7. BlockListedAt(q)'
    BY <2>4, <2>6 DEF BlocksInv, BlockListedAt
  <2> QED
    BY <2>2, <2>5, <2>7
<1>9. BlocksDistinct'
  <2> SUFFICES ASSUME NEW q \in Procs, NEW r \in Procs,
                      q # r, obj'[q] # NoProc, obj'[q] = obj'[r]
               PROVE  pc'[q] = "reenqueue" \/ pc'[r] = "reenqueue"
    BY DEF BlocksDistinct
  <2>1. CASE q = p \/ r = p
    BY <2>1
  <2>2. CASE q # p /\ r # p
    BY <2>2 DEF BlocksDistinct
  <2> QED
    BY <2>1, <2>2
<1> QED
  BY <1>0, <1>2, <1>3, <1>5, <1>6, <1>7, <1>8, <1>9

\* The first zombie, which proc_new() found, leaves the list.
LEMMA RemZombieInv ==
  ASSUME NEW Places, NEW Asleep, KInv(Places, Asleep), NEW p \in Procs, RemZombie(p)
  PROVE  KInv(Places, Asleep)'
<1>1. /\ KInv(Places, Asleep) /\ TypesOK(Places) /\ SectionsAt(p) /\ RegisterAt(p) /\ ZombieAt(p)
      /\ BlockStateAt(p) /\ BlockSetAt(p) /\ BlockListedAt(p)
  BY InvAt
<1>2. /\ p = cpu /\ ~idle /\ pc[p] = "zomb_rem" /\ zombies # <<>> /\ obj[p] = Head(zombies)
      /\ obj[p] # NoProc
      /\ UNCHANGED <<current, cpu, idle, ready, quantum, isr, pri, preemptCount, reg, nest, obj>>
      /\ pc' = [pc EXCEPT ![p] = "permit"] /\ cont' = [cont EXCEPT ![p] = "zomb_test"]
      /\ zombies' = Tail(zombies)
  BY <1>1
     DEF RemZombie, At, CallCount, schedVars, countVars, BlockListedAt, BlockSetAt, TypesOK
<1>3. /\ zombies' \in Seq(Procs) /\ NoDup(zombies')
      /\ \A q : Contains(zombies', q) <=> q # obj[p] /\ Contains(zombies, q)
  <2>1. zombies \in Seq(Procs) /\ NoDup(zombies)
    BY <1>1 DEF KInv, TypesOK, ZombiesInv
  <2> QED
    BY <1>2, <2>1, TailMembers
<1>4. TypesOK(Places)'
  <2>1. pc' \in [Procs -> Places] /\ cont' \in [Procs -> Labels]
    BY <1>1, <1>2 DEF TypesOK, Labels, OutsideLabels, CountLabels
  <2> QED
    BY <1>1, <1>2, <1>3, <2>1 DEF TypesOK
<1>5. pc'[p] = "permit" /\ cont'[p] = "zomb_test" /\ nest'[p] = 1
  BY <1>1, <1>2 DEF TypesOK, SectionsAt, InsideLabels, Labels, CountLabels, OutsideLabels, Dead
<1>6. \A q \in Procs \ {p} : /\ pc'[q] = pc[q] /\ cont'[q] = cont[q] /\ reg'[q] = reg[q]
                            /\ nest'[q] = nest[q] /\ obj'[q] = obj[q]
  BY <1>1, <1>2 DEF TypesOK
<1>7. SectionsAt(p)' /\ RegisterAt(p)' /\ CountIsNest' /\ Live(p)' /\ ~Cleared(p)'
  BY <1>1, <1>2, <1>5
     DEF KInv, CountIsNest, SectionsAt, RegisterAt, OutsideLabels, InsideLabels, Dead, Live,
         Cleared, Towards, Labels, CountLabels
<1>8. current' = p
  BY <1>1, <1>2 DEF KInv, Running, Cleared, Towards, CountLabels
<1>9. ZombieAt(p)'
  BY <1>1, <1>2, <1>3 DEF ZombieAt, Cleared, Towards, CountLabels
<1>10. BlockStateAt(p)' /\ BlockSetAt(p)' /\ BlockListedAt(p)'
  <2>1. pc[obj[p]] = "zombie" /\ obj[p] \in Procs \ {p}
    BY <1>1, <1>2 DEF TypesOK, BlockStateAt, Towards, CountLabels, FreeingLabels, InitLabels
  <2> QED
    BY <1>2, <1>3, <1>5, <1>6, <2>1
       DEF BlockStateAt, BlockSetAt, BlockListedAt, Towards, CountLabels, FreeingLabels,
           InitLabels
<1>11. \A q \in Procs \ {p} : obj'[p] # NoProc /\ obj[q] = obj'[p] =>
         pc'[p] = "reenqueue" \/ pc[q] = "reenqueue"
  BY <1>1, <1>2 DEF KInv, BlocksDistinct
<1> QED
  BY <1>1, <1>2, <1>3, <1>4, <1>6, <1>7, <1>8, <1>9, <1>10, <1>11, ListStepInv

\* The exiting process becomes a zombie.
LEMMA AddZombieInv ==
  ASSUME NEW Places, NEW Asleep, KInv(Places, Asleep), NEW p \in Procs, AddZombie(p)
  PROVE  KInv(Places, Asleep)'
<1>1. /\ KInv(Places, Asleep) /\ TypesOK(Places) /\ SectionsAt(p) /\ RegisterAt(p) /\ ZombieAt(p)
      /\ BlockStateAt(p) /\ BlockSetAt(p) /\ BlockListedAt(p)
  BY InvAt
<1>2. /\ p = cpu /\ ~idle /\ pc[p] = "exit_zombie"
      /\ UNCHANGED <<current, cpu, idle, ready, quantum, isr, pri, preemptCount, reg, nest, obj>>
      /\ UNCHANGED cont /\ pc' = [pc EXCEPT ![p] = "exit_null"]
      /\ zombies' = Append(zombies, current)
  BY DEF AddZombie, At, Goto, schedVars, countVars
<1>3. current = p /\ obj[p] = NoProc /\ ~Contains(zombies, p)
  BY <1>1, <1>2
     DEF KInv, Running, ZombieAt, BlockStateAt, Cleared, Towards, CountLabels, FreeingLabels,
         InitLabels
<1>4. /\ zombies' \in Seq(Procs) /\ NoDup(zombies')
      /\ \A q : Contains(zombies', q) <=> q = p \/ Contains(zombies, q)
  <2>1. zombies \in Seq(Procs) /\ NoDup(zombies)
    BY <1>1 DEF KInv, TypesOK, ZombiesInv
  <2> QED
    BY <1>2, <1>3, <2>1, AppendMembers
<1>5. TypesOK(Places)'
  <2>1. pc' \in [Procs -> Places]
    BY <1>1, <1>2 DEF TypesOK, Labels, InsideLabels
  <2> QED
    BY <1>1, <1>2, <1>4, <2>1 DEF TypesOK
<1>6. pc'[p] = "exit_null" /\ nest'[p] = 1
  BY <1>1, <1>2 DEF TypesOK, SectionsAt, InsideLabels, Labels, CountLabels, OutsideLabels, Dead
<1>7. \A q \in Procs \ {p} : /\ pc'[q] = pc[q] /\ cont'[q] = cont[q] /\ reg'[q] = reg[q]
                            /\ nest'[q] = nest[q] /\ obj'[q] = obj[q]
  BY <1>1, <1>2 DEF TypesOK
<1>8. SectionsAt(p)' /\ RegisterAt(p)' /\ CountIsNest' /\ Live(p)' /\ ~Cleared(p)'
  BY <1>1, <1>2, <1>6
     DEF KInv, CountIsNest, SectionsAt, RegisterAt, OutsideLabels, InsideLabels, Dead, Live,
         Cleared, Towards, CountLabels, Labels
<1>9. ZombieAt(p)'
  BY <1>2, <1>6 DEF ZombieAt
<1>10. BlockStateAt(p)' /\ BlockSetAt(p)' /\ BlockListedAt(p)'
  BY <1>2, <1>3, <1>6
     DEF BlockStateAt, BlockSetAt, BlockListedAt, Towards, CountLabels, InitLabels
<1> QED
  BY <1>1, <1>2, <1>3, <1>4, <1>5, <1>7, <1>8, <1>9, <1>10, ListStepInv

\* current_process = NULL.
LEMMA ClearCurrentInv ==
  ASSUME NEW Places, NEW Asleep, KInv(Places, Asleep), NEW p \in Procs, ClearCurrent(p)
  PROVE  KInv(Places, Asleep)'
<1>1. /\ KInv(Places, Asleep) /\ TypesOK(Places) /\ SectionsAt(p) /\ RegisterAt(p) /\ ZombieAt(p)
      /\ BlockStateAt(p) /\ BlockSetAt(p) /\ BlockListedAt(p)
  BY InvAt
<1>2. /\ p = cpu /\ ~idle /\ pc[p] = "exit_null" /\ current' = NoProc
      /\ UNCHANGED <<cpu, idle, ready, quantum, isr, pri, preemptCount, reg, nest, obj, zombies>>
      /\ pc' = [pc EXCEPT ![p] = "permit"] /\ cont' = [cont EXCEPT ![p] = "exit_switch"]
  BY DEF ClearCurrent, At, CallCount, schedVars, countVars
<1>3. obj[p] = NoProc
  BY <1>1, <1>2 DEF BlockStateAt, Towards, CountLabels, FreeingLabels, InitLabels
<1>4. TypesOK(Places)'
  <2>1. pc' \in [Procs -> Places] /\ cont' \in [Procs -> Labels]
    BY <1>1, <1>2 DEF TypesOK, Labels, OutsideLabels, CountLabels
  <2> QED
    BY <1>1, <1>2, <2>1 DEF TypesOK
<1>5. pc'[p] = "permit" /\ cont'[p] = "exit_switch" /\ nest'[p] = 1
  BY <1>1, <1>2 DEF TypesOK, SectionsAt, InsideLabels, Labels, CountLabels, OutsideLabels, Dead
<1>6. \A q \in Procs \ {p} : /\ pc'[q] = pc[q] /\ cont'[q] = cont[q] /\ reg'[q] = reg[q]
                            /\ nest'[q] = nest[q] /\ obj'[q] = obj[q]
  BY <1>1, <1>2 DEF TypesOK
<1>7. SectionsAt(p)' /\ RegisterAt(p)' /\ CountIsNest' /\ Live(p)' /\ Cleared(p)'
  BY <1>1, <1>2, <1>5
     DEF KInv, CountIsNest, SectionsAt, RegisterAt, OutsideLabels, InsideLabels, Dead, Live,
         Cleared, Towards, CountLabels, Labels
<1>8. ZombieAt(p)' /\ NoDup(zombies)'
  BY <1>1, <1>2, <1>7 DEF KInv, ZombiesInv, ZombieAt
<1>9. BlockStateAt(p)' /\ BlockSetAt(p)' /\ BlockListedAt(p)'
  BY <1>2, <1>3, <1>5
     DEF BlockStateAt, BlockSetAt, BlockListedAt, Towards, CountLabels, InitLabels
<1> QED
  BY <1>1, <1>2, <1>3, <1>4, <1>6, <1>7, <1>8, <1>9, ListStepInv

(***************************************************************************)
(* A step of the running process p on the block that its proc points to: b *)
(* is freed, allocated, or made a live process.  b is not the process, and *)
(* nobody else has a use for it.                                           *)
(***************************************************************************)
LEMMA BlockStepInv ==
  ASSUME NEW Places, NEW Asleep, KInv(Places, Asleep), TypesOK(Places)',
         NEW p \in Procs, NEW b \in Procs, p = cpu, ~idle,
         obj[p] = b, b # p, pc[b] \in Dead, ~Contains(zombies, b),
         pc[p] # "reenqueue",
         UNCHANGED <<current, cpu, idle, zombies, preemptCount, nest, reg>>,
         \A q \in Procs \ {p} : cont'[q] = cont[q] /\ obj'[q] = obj[q],
         \A q \in Procs \ {p, b} : pc'[q] = pc[q],
         pc'[b] \in Dead \cup {"user"},
         SectionsAt(p)', RegisterAt(p)', Live(p)', Cleared(p)' = Cleared(p), ZombieAt(p)',
         BlockStateAt(p)', BlockSetAt(p)', BlockListedAt(p)',
         obj'[p] \in {NoProc, b},
         ReadyExact(Asleep)'
  PROVE  KInv(Places, Asleep)'
<1> USE DEF KInv
<1>0. AsleepOutside(Asleep)'
  BY DEF AsleepOutside, Running, Labels
<1>1. nest[b] = 0 /\ obj[b] = NoProc
  <2>1. SectionsAt(b) /\ BlockStateAt(b)
    BY InvAt
  <2> QED
    BY <2>1
       DEF SectionsAt, BlockStateAt, Dead, Towards, CountLabels, FreeingLabels, InitLabels,
           Labels, OutsideLabels, InsideLabels
<1>2. PlaceInv'
  <2>1. SectionsAt(b)' /\ RegisterAt(b)'
    BY <1>1 DEF SectionsAt, RegisterAt, OutsideLabels, InsideLabels, Dead, Labels, CountLabels
  <2>2. \A q \in Procs \ {p, b} : SectionsAt(q)' /\ RegisterAt(q)'
    BY DEF PlaceInv, SectionsAt, RegisterAt, Labels, CountLabels, OutsideLabels, InsideLabels, Dead
  <2> QED
    BY <2>1, <2>2 DEF PlaceInv
<1>3. CountIsNest' /\ OthersOutside'
  BY DEF CountIsNest, OthersOutside
<1>4. \A q \in Procs : Cleared(q)' = Cleared(q)
  BY DEF Cleared, Towards, Dead, CountLabels
<1>5. Running(Asleep)'
  BY <1>4 DEF Running, TypesOK
<1>6. ZombiesInv'
  BY <1>4 DEF ZombiesInv, ZombieAt
<1>7. BlocksInv'
  <2>1. (BlockStateAt(b) /\ BlockSetAt(b) /\ BlockListedAt(b))'
    <3>1. obj'[b] = NoProc
      BY <1>1
    <3>2. BlockStateAt(b)'
      BY <3>1 DEF BlockStateAt
    <3>3. BlockSetAt(b)'
      BY DEF BlockSetAt, Dead, Towards, CountLabels, InitLabels
    <3>4. BlockListedAt(b)'
      BY <3>1 DEF BlockListedAt, Dead
    <3> QED
      BY <3>2, <3>3, <3>4
  <2> SUFFICES ASSUME NEW q \in Procs \ {p, b}
               PROVE  (BlockStateAt(q) /\ BlockSetAt(q) /\ BlockListedAt(q))'
    BY <2>1 DEF BlocksInv
  <2>2. \A labels : Towards(q, labels)' = Towards(q, labels)
    BY DEF Towards
  <2>3. BlockSetAt(q)' /\ BlockListedAt(q)'
    <3>1. BlockSetAt(q) /\ BlockListedAt(q)
      BY DEF BlocksInv
    <3>2. pc'[q] = pc[q] /\ obj'[q] = obj[q] /\ zombies' = zombies
      OBVIOUS
    <3> QED
      BY <2>2, <3>1, <3>2 DEF BlockSetAt, BlockListedAt
  <2>4. Live(p) /\ pc[p] \notin Dead
    BY DEF Running, Live
  <2>5. BlockStateAt(q)
    BY DEF BlocksInv
  <2>6. obj[q] # NoProc => pc[q] = "reenqueue" \/ pc[obj[q]] \in Dead
    BY <2>5 DEF BlockStateAt, Dead
  <2>7. obj[q] = b => pc[q] = "reenqueue"
    BY ProcsAssumption DEF BlocksDistinct
  <2>8. obj[q] # NoProc => pc[q] = "reenqueue" \/ pc'[obj[q]] = pc[obj[q]]
    BY <2>4, <2>6, <2>7 DEF TypesOK
  <2>9. BlockStateAt(q)'
    BY <2>2, <2>5, <2>8 DEF BlockStateAt
  <2> QED
    BY <2>3, <2>9
<1>8. BlocksDistinct'
  <2> SUFFICES ASSUME NEW q \in Procs, NEW r \in Procs,
                      q # r, obj'[q] # NoProc, obj'[q] = obj'[r]
               PROVE  pc'[q] = "reenqueue" \/ pc'[r] = "reenqueue"
    BY DEF BlocksDistinct
  <2>1. q # b /\ r # b
    BY <1>1
  <2>2. obj[q] = obj'[q] /\ obj[r] = obj'[r]
    OBVIOUS
  <2>3. pc[q] = "reenqueue" \/ pc[r] = "reenqueue"
    BY <2>2 DEF BlocksDistinct
  <2> QED
    BY <2>1, <2>3
<1> QED
  BY <1>0, <1>2, <1>3, <1>5, <1>6, <1>7, <1>8

\* The stack of a zombie is freed.
LEMMA FreeZombieInv ==
  ASSUME NEW Places, NEW Asleep, KInv(Places, Asleep), NEW p \in Procs, FreeZombie(p)
  PROVE  KInv(Places, Asleep)'
<1> DEFINE b == obj[p]
<1>1. /\ KInv(Places, Asleep) /\ TypesOK(Places) /\ SectionsAt(p) /\ RegisterAt(p) /\ ZombieAt(p)
      /\ BlockStateAt(p) /\ BlockSetAt(p) /\ BlockListedAt(p)
  BY InvAt
<1>2. /\ p = cpu /\ ~idle /\ pc[p] = "zomb_free"
      /\ UNCHANGED <<current, cpu, idle, ready, quantum, isr, pri, preemptCount, reg, nest,
                     zombies>>
      /\ pc' = [pc EXCEPT ![p] = "permit", ![b] = "free"]
      /\ cont' = [cont EXCEPT ![p] = "free_loop"] /\ obj' = [obj EXCEPT ![p] = NoProc]
  BY DEF FreeZombie, At, schedVars, countVars
<1>3. b \in Procs /\ b # p /\ pc[b] = "zombie" /\ ~Contains(zombies, b)
  <2>1. b # NoProc
    BY <1>1, <1>2 DEF BlockSetAt, Towards
  <2>2. pc[b] = "zombie"
    BY <1>1, <1>2, <2>1 DEF BlockStateAt, Towards, CountLabels, InitLabels
  <2> QED
    BY <1>1, <1>2, <2>1, <2>2 DEF TypesOK, BlockListedAt
<1>4. TypesOK(Places)'
  <2>1. pc' \in [Procs -> Places] /\ cont' \in [Procs -> Labels]
    BY <1>1, <1>2 DEF TypesOK, Labels, OutsideLabels, CountLabels, Dead
  <2>2. obj' \in [Procs -> Procs \cup {NoProc}]
    BY <1>1, <1>2 DEF TypesOK
  <2> QED
    BY <1>1, <1>2, <2>1, <2>2 DEF TypesOK
<1>5. /\ pc'[p] = "permit" /\ cont'[p] = "free_loop" /\ nest'[p] = 1 /\ obj'[p] = NoProc
      /\ pc'[b] = "free"
  BY <1>1, <1>2, <1>3
     DEF TypesOK, SectionsAt, InsideLabels, Labels, CountLabels, OutsideLabels, Dead
<1> HIDE DEF b
<1>6. /\ \A q \in Procs \ {p} : cont'[q] = cont[q] /\ obj'[q] = obj[q]
      /\ \A q \in Procs \ {p, b} : pc'[q] = pc[q]
  BY <1>1, <1>2 DEF TypesOK
<1>7. SectionsAt(p)' /\ RegisterAt(p)' /\ Live(p)' /\ ~Cleared(p) /\ Cleared(p)' = Cleared(p)
  BY <1>2, <1>5
     DEF SectionsAt, RegisterAt, OutsideLabels, InsideLabels, Dead, Live, Cleared, Towards,
         CountLabels, Labels
<1>8. ZombieAt(p)'
  BY <1>1, <1>2, <1>7 DEF ZombieAt
<1>9. BlockStateAt(p)' /\ BlockSetAt(p)' /\ BlockListedAt(p)'
  BY <1>5 DEF BlockStateAt, BlockSetAt, BlockListedAt, Towards, CountLabels, InitLabels
<1>10. ReadyExact(Asleep)'
  <2>1. ReadyExact(Asleep)
    BY <1>1 DEF KInv
  <2>2. ASSUME NEW q \in Procs PROVE Live(q)' <=> Live(q)
    <3>1. CASE q = p
      BY <1>7, <1>2, <3>1 DEF Live, Dead
    <3>2. CASE q = b
      BY <1>3, <1>5, <3>2 DEF Live, Dead
    <3>3. CASE q # p /\ q # b
      BY <1>6, <3>3 DEF Live
    <3> QED
      BY <3>1, <3>2, <3>3
  <2>3. ready' = ready /\ cpu' = cpu /\ idle' = idle
    BY <1>2
  <2> QED
    BY <2>1, <2>2, <2>3 DEF ReadyExact
<1>11. b \in Procs /\ b # p /\ pc[b] \in Dead /\ ~Contains(zombies, b) /\ pc'[b] \in Dead
  BY <1>1, <1>2, <1>3, <1>5 DEF Dead
<1>12. obj[p] = b /\ obj'[p] = NoProc /\ pc[p] # "reenqueue"
  BY <1>2, <1>5 DEF b
<1> QED
  BY <1>1, <1>2, <1>4, <1>6, <1>7, <1>8, <1>9, <1>10, <1>11, <1>12, BlockStepInv

\* A free block is taken.
LEMMA TakeSlotInv ==
  ASSUME NEW Places, NEW Asleep, KInv(Places, Asleep), NEW p \in Procs, TakeSlot(p)
  PROVE  KInv(Places, Asleep)'
<1> DEFINE b == obj[p]
<1>1. /\ KInv(Places, Asleep) /\ TypesOK(Places) /\ SectionsAt(p) /\ RegisterAt(p) /\ ZombieAt(p)
      /\ BlockStateAt(p) /\ BlockSetAt(p) /\ BlockListedAt(p)
  BY InvAt
<1>2. /\ p = cpu /\ ~idle /\ pc[p] = "slot_take"
      /\ UNCHANGED <<current, cpu, idle, ready, quantum, isr, pri, preemptCount, reg, nest,
                     obj, zombies>>
      /\ pc' = [pc EXCEPT ![p] = "permit", ![b] = "alloc"]
      /\ cont' = [cont EXCEPT ![p] = "new_init"]
  BY DEF TakeSlot, At, schedVars, countVars
<1>3. b \in Procs /\ b # p /\ pc[b] = "free" /\ ~Contains(zombies, b)
  <2>1. b # NoProc
    BY <1>1, <1>2 DEF BlockSetAt
  <2>2. pc[b] = "free"
    BY <1>1, <1>2, <2>1 DEF BlockStateAt, Towards, CountLabels, InitLabels, FreeingLabels
  <2> QED
    BY <1>1, <1>2, <2>1, <2>2 DEF TypesOK, BlockListedAt
<1>4. TypesOK(Places)'
  <2>1. pc' \in [Procs -> Places] /\ cont' \in [Procs -> Labels]
    BY <1>1, <1>2 DEF TypesOK, Labels, OutsideLabels, CountLabels, Dead
  <2> QED
    BY <1>1, <1>2, <2>1 DEF TypesOK
<1>5. /\ pc'[p] = "permit" /\ cont'[p] = "new_init" /\ nest'[p] = 1 /\ obj'[p] = b
      /\ pc'[b] = "alloc"
  BY <1>1, <1>2, <1>3
     DEF TypesOK, SectionsAt, InsideLabels, Labels, CountLabels, OutsideLabels, Dead
<1> HIDE DEF b
<1>6. /\ \A q \in Procs \ {p} : cont'[q] = cont[q] /\ obj'[q] = obj[q]
      /\ \A q \in Procs \ {p, b} : pc'[q] = pc[q]
  BY <1>1, <1>2 DEF TypesOK
<1>7. SectionsAt(p)' /\ RegisterAt(p)' /\ Live(p)' /\ ~Cleared(p) /\ Cleared(p)' = Cleared(p)
  BY <1>2, <1>5
     DEF SectionsAt, RegisterAt, OutsideLabels, InsideLabels, Dead, Live, Cleared, Towards,
         CountLabels, Labels
<1>8. ZombieAt(p)'
  BY <1>1, <1>2, <1>7 DEF ZombieAt
<1>9. BlockStateAt(p)' /\ BlockSetAt(p)' /\ BlockListedAt(p)'
  <2>1. BlockStateAt(p)'
    BY <1>5 DEF BlockStateAt, Towards, CountLabels, InitLabels
  <2>2. BlockSetAt(p)'
    BY <1>3, <1>5, ProcsAssumption DEF BlockSetAt
  <2>3. BlockListedAt(p)'
    BY <1>2, <1>3, <1>5 DEF BlockListedAt
  <2> QED
    BY <2>1, <2>2, <2>3
<1>10. ReadyExact(Asleep)'
  <2>1. \A q \in Procs : Live(q)' = Live(q)
    <3>1. Live(p)' /\ Live(p)
      BY <1>2, <1>7 DEF Live, Dead
    <3>2. pc'[b] \in Dead /\ pc[b] \in Dead
      BY <1>3, <1>5 DEF Dead
    <3> SUFFICES ASSUME NEW q \in Procs PROVE Live(q)' = Live(q)
      OBVIOUS
    <3>3. CASE q = p
      BY <3>1, <3>3
    <3>4. CASE q = b
      BY <3>2, <3>4 DEF Live
    <3>5. CASE q \notin {p, b}
      BY <1>6, <3>5 DEF Live
    <3> QED
      BY <3>3, <3>4, <3>5
  <2>2. ready' = ready /\ current' = current /\ cpu' = cpu /\ idle' = idle
    BY <1>2
  <2> QED
    BY <1>1, <2>1, <2>2 DEF KInv, ReadyExact
<1> QED
  BY <1>1, <1>2, <1>3, <1>4, <1>5, <1>6, <1>7, <1>8, <1>9, <1>10, BlockStepInv DEF b, Dead

\* The new process is made ready.
LEMMA EnqueueNewInv ==
  ASSUME NEW Places, NEW Asleep, KInv(Places, Asleep), NEW p \in Procs, EnqueueNew(p)
  PROVE  KInv(Places, Asleep)'
<1> DEFINE b == obj[p]
<1>1. /\ KInv(Places, Asleep) /\ TypesOK(Places) /\ SectionsAt(p) /\ RegisterAt(p) /\ ZombieAt(p)
      /\ BlockStateAt(p) /\ BlockSetAt(p) /\ BlockListedAt(p)
  BY InvAt
<1>2. /\ p = cpu /\ ~idle /\ pc[p] = "new_enq"
      /\ UNCHANGED <<current, cpu, idle, quantum, isr, pri, preemptCount, reg, nest,
                     zombies, cont>>
      /\ ready' = Enqueue(ready, b, pri)
      /\ pc' = [pc EXCEPT ![p] = "user", ![b] = "user"] /\ obj' = [obj EXCEPT ![p] = NoProc]
  BY DEF EnqueueNew, At, countVars
<1>3. b \in Procs /\ b # p /\ pc[b] = "alloc" /\ ~Contains(zombies, b)
  <2>1. b # NoProc
    BY <1>1, <1>2 DEF BlockSetAt, Towards, InitLabels
  <2>2. pc[b] = "alloc"
    BY <1>1, <1>2, <2>1 DEF BlockStateAt, Towards, CountLabels, InitLabels, FreeingLabels
  <2> QED
    BY <1>1, <1>2, <2>1, <2>2 DEF TypesOK, BlockListedAt
<1>4. /\ ready' \in Seq(Procs) /\ NoDup(ready')
      /\ \A q : Contains(ready', q) <=> q = b \/ Contains(ready, q)
  <2>1. ready \in Seq(Procs) /\ NoDup(ready) /\ pri \in [Procs -> Int] /\ ~Contains(ready, b)
    BY <1>1, <1>3 DEF KInv, TypesOK, ReadyExact, Live, Dead
  <2> QED
    BY <1>2, <1>3, <2>1, EnqueueMembers
<1>5. TypesOK(Places)'
  <2>1. pc' \in [Procs -> Places] /\ obj' \in [Procs -> Procs \cup {NoProc}]
    BY <1>1, <1>2 DEF TypesOK, Labels, OutsideLabels
  <2> QED
    BY <1>1, <1>2, <1>4, <2>1 DEF TypesOK
<1>6. pc'[p] = "user" /\ nest'[p] = 0 /\ obj'[p] = NoProc /\ pc'[b] = "user"
  BY <1>1, <1>2, <1>3
     DEF TypesOK, SectionsAt, OutsideLabels, Labels, CountLabels, InsideLabels, Dead
<1> HIDE DEF b
<1>7. /\ \A q \in Procs \ {p} : cont'[q] = cont[q] /\ obj'[q] = obj[q]
      /\ \A q \in Procs \ {p, b} : pc'[q] = pc[q]
  BY <1>1, <1>2 DEF TypesOK
<1>8. SectionsAt(p)' /\ RegisterAt(p)' /\ Live(p)' /\ ~Cleared(p) /\ Cleared(p)' = Cleared(p)
  BY <1>2, <1>6
     DEF SectionsAt, RegisterAt, OutsideLabels, InsideLabels, Dead, Live, Cleared, Towards,
         CountLabels, Labels
<1>9. ZombieAt(p)'
  BY <1>1, <1>2, <1>8 DEF ZombieAt, Cleared
<1>10. BlockStateAt(p)' /\ BlockSetAt(p)' /\ BlockListedAt(p)'
  BY <1>6 DEF BlockStateAt, BlockSetAt, BlockListedAt, Towards, CountLabels, InitLabels
<1>11. ReadyExact(Asleep)'
  <2>1. b \notin Asleep
    BY <1>1, <1>3 DEF KInv, AsleepOutside, Labels, Dead
  <2> QED
    BY <1>1, <1>2, <1>3, <1>4, <1>6, <1>7, <1>8, <2>1 DEF KInv, ReadyExact, Live, Dead
<1> QED
  BY <1>1, <1>2, <1>3, <1>5, <1>6, <1>7, <1>8, <1>9, <1>10, <1>11, BlockStepInv DEF b, Dead

-----------------------------------------------------------------------------
(***************************************************************************)
(* The steps that switch the CPU to another process, or make processes     *)
(* ready.                                                                  *)
(***************************************************************************)

(***************************************************************************)
(* The variables of the processes stay as they are; some that were asleep  *)
(* may be made ready, and Still sleep.                                     *)
(***************************************************************************)
LEMMA WakeInv ==
  ASSUME NEW Places, NEW Asleep, NEW Still \in SUBSET Asleep, KInv(Places, Asleep),
         UNCHANGED <<current, cpu, idle, zombies, pri, preemptCount, pc, cont, reg, nest, obj>>,
         isr' \in BOOLEAN, quantum' \in 0..Quantum,
         ready' \in Seq(Procs), NoDup(ready'),
         \A q \in Procs : Contains(ready', q) <=> Contains(ready, q) \/ q \in Asleep \ Still
  PROVE  KInv(Places, Still)'
<1> USE DEF KInv
<1>1. \A q \in Procs : Live(q)' = Live(q) /\ Cleared(q)' = Cleared(q)
  BY DEF Live, Cleared, Towards
<1>2. TypesOK(Places)'
  BY DEF TypesOK
<1>3. AsleepOutside(Still)'
  BY DEF AsleepOutside
<1>4. PlaceInv' /\ CountIsNest' /\ OthersOutside'
  BY DEF PlaceInv, SectionsAt, RegisterAt, CountIsNest, OthersOutside
<1>5. Running(Still)'
  BY <1>1 DEF Running, TypesOK
<1>6. ReadyExact(Still)'
  <2>1. \A q \in Asleep : q \in Procs /\ Live(q) /\ (q # cpu \/ idle)
    BY DEF AsleepOutside, Running, Live, Labels
  <2> QED
    BY <1>1, <2>1 DEF ReadyExact
<1>7. ZombiesInv'
  BY <1>1 DEF ZombiesInv, ZombieAt
<1>8. BlocksInv' /\ BlocksDistinct'
  BY DEF BlocksInv, BlockStateAt, BlockSetAt, BlockListedAt, Towards, BlocksDistinct
<1> QED
  BY <1>2, <1>3, <1>4, <1>5, <1>6, <1>7, <1>8

(***************************************************************************)
(* A switch to a live process, while nobody has a section open and nobody  *)
(* is exiting.                                                             *)
(***************************************************************************)
LEMMA SwitchInv ==
  ASSUME NEW Places, NEW Asleep, NEW Still \in SUBSET Asleep, KInv(Places, Asleep),
         TypesOK(Places)',
         UNCHANGED <<preemptCount, pc, cont, reg, nest, obj, zombies>>,
         nest[cpu] = 0, \A q \in Procs : ~Cleared(q),
         Live(cpu'), cpu' \notin Still, current' = cpu', ~idle',
         NoDup(ready'),
         \A q \in Procs : Contains(ready', q) <=> Live(q) /\ q \notin Still /\ q # cpu'
  PROVE  KInv(Places, Still)'
<1> USE DEF KInv
<1>1. \A q \in Procs : Live(q)' = Live(q) /\ Cleared(q)' = Cleared(q)
  BY DEF Live, Cleared, Towards
<1>2. PlaceInv'
  BY DEF PlaceInv, SectionsAt, RegisterAt
<1>3. CountIsNest' /\ OthersOutside'
  BY DEF CountIsNest, OthersOutside, TypesOK
<1>4. Running(Still)'
  BY <1>1 DEF Running, TypesOK
<1>5. ReadyExact(Still)'
  BY <1>1 DEF ReadyExact
<1>6. ZombiesInv'
  <2>1. pc[cpu] # "exit_null"
    BY DEF PlaceInv, SectionsAt, InsideLabels, TypesOK
  <2> QED
    BY <2>1 DEF ZombiesInv, ZombieAt
<1>7. BlocksInv'
  BY DEF BlocksInv, BlockStateAt, BlockSetAt, BlockListedAt, Towards
<1>8. BlocksDistinct'
  BY DEF BlocksDistinct
<1>9. AsleepOutside(Still)'
  BY DEF AsleepOutside
<1> QED
  BY <1>2, <1>3, <1>4, <1>5, <1>6, <1>7, <1>8, <1>9

(***************************************************************************)
(* proc_schedule() with a list of all the processes that could run takes   *)
(* one of them off the list.                                               *)
(***************************************************************************)
LEMMA ScheduleLive ==
  ASSUME NEW Asleep, NEW list \in Seq(Procs), NoDup(list), list # <<>>,
         \A q \in Procs : Contains(list, q) <=> Live(q) /\ q \notin Asleep,
         Schedule(list)
  PROVE  /\ cpu' \in Procs /\ Live(cpu') /\ cpu' \notin Asleep
         /\ current' = cpu' /\ idle' = FALSE
         /\ ready' \in Seq(Procs) /\ NoDup(ready')
         /\ \A q \in Procs : Contains(ready', q) <=> Live(q) /\ q \notin Asleep /\ q # cpu'
<1>1. /\ Head(list) \in Procs /\ Contains(list, Head(list))
      /\ Tail(list) \in Seq(Procs) /\ NoDup(Tail(list))
      /\ \A q : Contains(Tail(list), q) <=> q # Head(list) /\ Contains(list, q)
  BY TailMembers
<1>2. /\ current' = Head(list) /\ cpu' = Head(list) /\ idle' = FALSE
      /\ ready' = Tail(list)
  BY DEF Schedule
<1> QED
  BY <1>1, <1>2

\* proc_yield() hands the CPU to the first ready process.
LEMMA YieldInv ==
  ASSUME NEW Places, NEW Asleep, KInv(Places, Asleep), NEW p \in Procs, Yield(p)
  PROVE  KInv(Places, Asleep)'
<1>1. KInv(Places, Asleep) /\ TypesOK(Places) /\ SectionsAt(p)
  BY InvAt
<1>2. /\ p = cpu /\ ~idle /\ pc[p] = "user" /\ ready # <<>>
      /\ UNCHANGED <<isr, zombies, pri, preemptCount, reg, nest, pc, cont, obj, idle>>
      /\ ready' = Enqueue(Tail(ready), current, pri)
      /\ quantum' = Quantum /\ current' = Head(ready) /\ cpu' = Head(ready)
  BY DEF Yield, At, SwitchTo, countVars
<1>3. /\ nest[cpu] = 0 /\ current = p /\ Live(p) /\ p \notin Asleep
      /\ \A q \in Procs : ~Cleared(q)
  BY <1>1, <1>2
     DEF KInv, SectionsAt, OutsideLabels, Running, Cleared, Towards, CountLabels
<1>4. /\ Head(ready) \in Procs /\ Contains(ready, Head(ready))
      /\ Tail(ready) \in Seq(Procs) /\ NoDup(Tail(ready))
      /\ \A q : Contains(Tail(ready), q) <=> q # Head(ready) /\ Contains(ready, q)
  <2>1. ready \in Seq(Procs) /\ NoDup(ready)
    BY <1>1 DEF KInv, TypesOK, ReadyExact
  <2> QED
    BY <1>2, <2>1, TailMembers
<1>5. /\ ~Contains(ready, p) /\ Live(Head(ready)) /\ Head(ready) # p
      /\ Head(ready) \notin Asleep
  BY <1>1, <1>2, <1>4 DEF KInv, ReadyExact
<1>6. /\ ready' \in Seq(Procs) /\ NoDup(ready')
      /\ \A q : Contains(ready', q) <=> q = p \/ Contains(Tail(ready), q)
  <2>1. pri \in [Procs -> Int] /\ ~Contains(Tail(ready), p)
    BY <1>1, <1>4, <1>5 DEF TypesOK
  <2> QED
    BY <1>2, <1>3, <1>4, <2>1, EnqueueMembers
<1>7. \A q \in Procs : Contains(ready', q) <=> Live(q) /\ q \notin Asleep /\ q # cpu'
  BY <1>1, <1>2, <1>3, <1>4, <1>5, <1>6 DEF KInv, ReadyExact
<1>8. TypesOK(Places)'
  <2>1. current' \in Procs /\ cpu' \in Procs /\ ready' \in Seq(Procs) /\ quantum' \in 0..Quantum
    BY <1>2, <1>4, <1>6, QuantumAssumption
  <2> QED
    BY <1>1, <1>2, <2>1 DEF TypesOK
<1> QED
  BY <1>1, <1>2, <1>3, <1>5, <1>6, <1>7, <1>8, SwitchInv

(***************************************************************************)
(* proc_wakeup() of a process that sleeps, by one that runs user code: the *)
(* sleeper runs at once, or is made ready.                                 *)
(***************************************************************************)
LEMMA WakeupInv ==
  ASSUME NEW Places, NEW Asleep, KInv(Places, Asleep), NEW p \in Procs, At(p, "user"),
         NEW q \in Asleep, Wakeup(q),
         UNCHANGED <<isr, zombies, pri, preemptCount, pc, cont, reg, nest, obj>>
  PROVE  KInv(Places, Asleep \ {q})'
<1>1. KInv(Places, Asleep) /\ TypesOK(Places) /\ SectionsAt(p)
  BY InvAt
<1>2. p = cpu /\ ~idle /\ pc[p] = "user"
  BY DEF At
<1>3. /\ nest[cpu] = 0 /\ current = p /\ Live(p) /\ p \notin Asleep
      /\ \A r \in Procs : ~Cleared(r)
  BY <1>1, <1>2
     DEF KInv, SectionsAt, OutsideLabels, Running, Cleared, Towards, CountLabels
<1>4. q \in Procs /\ Live(q) /\ ~Contains(ready, q) /\ ~Contains(ready, p)
  BY <1>1, <1>2 DEF KInv, AsleepOutside, ReadyExact, Live, Labels
<1>5. ready \in Seq(Procs) /\ NoDup(ready) /\ pri \in [Procs -> Int]
  BY <1>1 DEF KInv, TypesOK, ReadyExact
<1>6. Asleep \ {q} \in SUBSET Asleep
  OBVIOUS
<1>7. CASE pri[q] >= pri[current]
  <2>1. /\ ready' = Enqueue(ready, p, pri) /\ quantum' = Quantum
        /\ current' = q /\ cpu' = q /\ idle' = idle
    BY <1>3, <1>7 DEF Wakeup, SwitchTo
  <2>2. /\ ready' \in Seq(Procs) /\ NoDup(ready')
        /\ \A r : Contains(ready', r) <=> r = p \/ Contains(ready, r)
    BY <1>4, <1>5, <2>1, EnqueueMembers
  <2>3. \A r \in Procs : Contains(ready', r) <=> Live(r) /\ r \notin Asleep \ {q} /\ r # cpu'
    BY <1>1, <1>2, <1>3, <1>4, <2>1, <2>2 DEF KInv, ReadyExact
  <2>4. TypesOK(Places)'
    BY <1>1, <1>4, <2>1, <2>2, QuantumAssumption DEF TypesOK
  <2> QED
    BY <1>1, <1>2, <1>3, <1>4, <1>6, <2>1, <2>2, <2>3, <2>4, SwitchInv
<1>8. CASE ~(pri[q] >= pri[current])
  <2>1. ready' = EnqueueHead(ready, q, pri) /\ UNCHANGED <<current, cpu, idle, quantum>>
    BY <1>8 DEF Wakeup
  <2>2. /\ ready' \in Seq(Procs) /\ NoDup(ready')
        /\ \A r : Contains(ready', r) <=> r = q \/ Contains(ready, r)
    BY <1>4, <1>5, <2>1, EnqueueHeadMembers
  <2>3. isr' \in BOOLEAN /\ quantum' \in 0..Quantum
    BY <1>1, <2>1 DEF TypesOK
  <2> QED
    BY <1>1, <1>6, <2>1, <2>2, <2>3, WakeInv
<1> QED
  BY <1>7, <1>8

\* The quantum goes down, not below zero.
LEMMA TickInv ==
  ASSUME NEW Places, NEW Asleep, KInv(Places, Asleep), Tick
  PROVE  KInv(Places, Asleep)'
<1>1. /\ isr' = TRUE /\ quantum' = IF Preempt /\ quantum > 0 THEN quantum - 1 ELSE quantum
      /\ UNCHANGED <<current, cpu, idle, ready, zombies, pri, preemptCount, reg, nest, pc,
                     cont, obj>>
  BY DEF Tick, countVars
<1>2. /\ TypesOK(Places) /\ NoDup(ready') /\ ready' \in Seq(Procs)
      /\ quantum' \in 0..Quantum
  BY <1>1, QuantumAssumption DEF KInv, TypesOK, ReadyExact
<1> QED
  BY <1>1, <1>2, WakeInv

\* The loop of proc_schedule() finds a ready process.
LEMMA IdleLoopInv ==
  ASSUME NEW Places, NEW Asleep, KInv(Places, Asleep), IdleLoop
  PROVE  KInv(Places, Asleep)'
<1>1. /\ idle /\ ready # <<>> /\ Schedule(ready)
      /\ UNCHANGED <<quantum, isr, zombies, pri, preemptCount, reg, nest, pc, cont, obj>>
  BY DEF IdleLoop, countVars
<1>2. /\ TypesOK(Places) /\ cpu \in Procs /\ SectionsAt(cpu)
      /\ pc[cpu] = "zombie" \/ pc[cpu] \notin Labels
  BY <1>1 DEF KInv, TypesOK, PlaceInv, Running
<1>3. nest[cpu] = 0 /\ \A q \in Procs : ~Cleared(q)
  BY <1>2
     DEF KInv, Running, SectionsAt, Cleared, Towards, Labels, CountLabels, OutsideLabels, Dead
<1>4. /\ ready \in Seq(Procs) /\ NoDup(ready)
      /\ \A q \in Procs : Contains(ready, q) <=> Live(q) /\ q \notin Asleep
  BY <1>1, <1>2 DEF KInv, TypesOK, ReadyExact
<1>5. /\ cpu' \in Procs /\ Live(cpu') /\ cpu' \notin Asleep
      /\ current' = cpu' /\ idle' = FALSE
      /\ ready' \in Seq(Procs) /\ NoDup(ready')
      /\ \A q \in Procs : Contains(ready', q) <=> Live(q) /\ q \notin Asleep /\ q # cpu'
  BY <1>1, <1>4, ScheduleLive
<1>6. TypesOK(Places)'
  BY <1>1, <1>2, <1>5 DEF TypesOK
<1> QED
  BY <1>1, <1>3, <1>5, <1>6, SwitchInv

\* An interrupt ends without a preemption, or with one that finds no section
\* open.
LEMMA IsrExitInv ==
  ASSUME NEW Places, NEW Asleep, KInv(Places, Asleep), IsrExit
  PROVE  KInv(Places, Asleep)'
<1>1. TypesOK(Places) /\ ready \in Seq(Procs) /\ NoDup(ready)
  BY DEF KInv, TypesOK, ReadyExact
<1>2. /\ isr' = FALSE
      /\ UNCHANGED <<zombies, pri, preemptCount, reg, nest, pc, cont, obj>>
  BY DEF IsrExit, countVars
<1>3. CASE ~(Preempt /\ NeedPreempt)
  <2>1. UNCHANGED <<current, cpu, idle, ready, quantum>>
    BY <1>3 DEF IsrExit, schedVars
  <2>2. quantum' \in 0..Quantum /\ ready' \in Seq(Procs) /\ NoDup(ready')
    BY <1>1, <2>1 DEF TypesOK
  <2> QED
    BY <1>2, <2>1, <2>2, WakeInv
<1>4. CASE Preempt /\ NeedPreempt
  <2> DEFINE list == Enqueue(ready, current, pri)
  <2>1. quantum' = Quantum /\ Schedule(list) /\ current # NoProc /\ preemptCount = 0
    BY <1>4 DEF IsrExit, PreemptCurrent, NeedPreempt, PreemptAllowed
  <2>2. /\ current = cpu /\ ~idle /\ nest[cpu] = 0 /\ Live(cpu) /\ cpu \notin Asleep
        /\ \A q \in Procs : ~Cleared(q)
    BY <1>4, <2>1 DEF KInv, Running, CountIsNest
  <2>3. pri \in [Procs -> Int] /\ cpu \in Procs
    BY <1>1 DEF TypesOK
  <2>4. /\ list \in Seq(Procs) /\ NoDup(list)
        /\ \A q : Contains(list, q) <=> q = cpu \/ Contains(ready, q)
    <3>1. ~Contains(ready, cpu)
      BY <2>2, <2>3 DEF KInv, ReadyExact
    <3> QED
      BY <1>1, <2>2, <2>3, <3>1, EnqueueMembers
  <2> HIDE DEF list
  <2>5. list # <<>> /\ \A q \in Procs : Contains(list, q) <=> Live(q) /\ q \notin Asleep
    <3>1. \A q \in Procs : Contains(list, q) <=> Live(q) /\ q \notin Asleep
      BY <2>2, <2>4 DEF KInv, ReadyExact
    <3> QED
      BY <2>4, <3>1, EmptyMembers
  <2>6. /\ cpu' \in Procs /\ Live(cpu') /\ cpu' \notin Asleep
        /\ current' = cpu' /\ idle' = FALSE
        /\ ready' \in Seq(Procs) /\ NoDup(ready')
        /\ \A q \in Procs : Contains(ready', q) <=> Live(q) /\ q \notin Asleep /\ q # cpu'
    BY <2>1, <2>4, <2>5, ScheduleLive
  <2>7. TypesOK(Places)'
    <3>1. quantum' \in 0..Quantum
      BY <2>1, QuantumAssumption
    <3> QED
      BY <1>1, <1>2, <2>6, <3>1 DEF TypesOK
  <2> QED
    BY <1>2, <2>2, <2>6, <2>7, SwitchInv
<1> QED
  BY <1>3, <1>4

(***************************************************************************)
(* proc_switch() by a process that will not be in the ready list, because  *)
(* it exits or goes to sleep at the place label: the CPU stays on its      *)
(* stack while no process is ready.                                        *)
(***************************************************************************)
LEMMA LeaveInv ==
  ASSUME NEW Places, NEW Asleep, NEW After, KInv(Places, Asleep),
         NEW p \in Procs, p = cpu, ~idle, obj[p] = NoProc, nest[p] = 0,
         Switch, NEW label \in Places, pc' = [pc EXCEPT ![p] = label],
         UNCHANGED <<isr, zombies, pri, preemptCount, reg, nest, cont, obj>>,
         \/ label = "zombie" /\ After = Asleep
         \/ label \notin Labels /\ After = Asleep \cup {p} /\ ~Contains(zombies, p)
  PROVE  KInv(Places, After)'
<1>1. KInv(Places, Asleep) /\ TypesOK(Places) /\ p \notin Asleep
  BY DEF KInv, Running
<1>2. quantum' = Quantum /\ Schedule(ready)
  BY DEF Switch
<1>3. pc'[p] = label
  BY <1>1 DEF TypesOK
<1>4. \A q \in Procs \ {p} : pc'[q] = pc[q] /\ ~Cleared(q)
  BY <1>1 DEF KInv, TypesOK, Running
<1>5. \A q \in Procs : /\ ~Cleared(q)'
                       /\ Live(q)' /\ q \notin After <=> Live(q) /\ q \notin Asleep /\ q # p
  <2>1. label \notin CountLabels /\ label # "exit_switch"
    BY DEF Labels, CountLabels, OutsideLabels
  <2>2. \A q \in Procs : ~Cleared(q)'
    BY <1>3, <1>4, <2>1 DEF Cleared, Towards
  <2>3. Live(p)' /\ p \notin After <=> FALSE
    BY <1>1, <1>3 DEF Live, Dead
  <2>4. \A q \in Procs \ {p} : Live(q)' = Live(q) /\ (q \in After <=> q \in Asleep)
    BY <1>4 DEF Live
  <2> QED
    BY <2>2, <2>3, <2>4
<1>6. /\ ready \in Seq(Procs) /\ NoDup(ready)
      /\ \A q \in Procs : Contains(ready, q) <=> Live(q) /\ q \notin Asleep /\ q # p
  BY <1>1 DEF KInv, TypesOK, ReadyExact
<1>7. /\ cpu' \in Procs /\ ready' \in Seq(Procs) /\ idle' \in BOOLEAN
      /\ idle' => current' = NoProc /\ cpu' = p
      /\ ~idle' => current' = cpu' /\ Live(cpu)' /\ cpu' \notin After
      /\ ReadyExact(After)'
  <2>1. CASE ready = <<>>
    <3>1. idle' = TRUE /\ current' = NoProc /\ cpu' = p /\ ready' = <<>>
      BY <1>2, <2>1 DEF Schedule
    <3>2. \A q \in Procs : ~(Live(q)' /\ q \notin After)
      BY <1>5, <1>6, <2>1, EmptyMembers
    <3>3. ReadyExact(After)'
      BY <3>1, <3>2, EmptyMembers DEF ReadyExact
    <3> QED
      BY <1>6, <2>1, <3>1, <3>3
  <2>2. CASE ready # <<>>
    <3>1. /\ Head(ready) \in Procs /\ Contains(ready, Head(ready))
          /\ Tail(ready) \in Seq(Procs) /\ NoDup(Tail(ready))
          /\ \A q : Contains(Tail(ready), q) <=> q # Head(ready) /\ Contains(ready, q)
      BY <1>6, <2>2, TailMembers
    <3>2. current' = Head(ready) /\ cpu' = Head(ready) /\ idle' = FALSE /\ ready' = Tail(ready)
      BY <1>2, <2>2 DEF Schedule
    <3>3. Live(Head(ready)) /\ Head(ready) # p /\ Head(ready) \notin Asleep
      BY <1>6, <3>1
    <3>4. pc'[Head(ready)] \notin Dead /\ Head(ready) \notin After
      BY <1>5, <3>1, <3>3 DEF Live
    <3>5. Live(cpu)' /\ cpu' \notin After
      BY <3>2, <3>4 DEF Live
    <3>6. ReadyExact(After)'
      <4> SUFFICES ASSUME NEW q \in Procs
                   PROVE  Contains(ready', q) <=> Live(q)' /\ q \notin After /\ q # cpu'
        BY <3>1, <3>2 DEF ReadyExact
      <4> QED
        BY <1>5, <1>6, <3>1, <3>2
    <3> QED
      BY <3>1, <3>2, <3>5, <3>6
  <2> QED
    BY <2>1, <2>2
<1>8. TypesOK(Places)'
  <2>1. pc' \in [Procs -> Places] /\ current' \in Procs \cup {NoProc}
    BY <1>1, <1>7 DEF TypesOK
  <2> QED
    BY <1>1, <1>2, <1>7, <2>1, QuantumAssumption DEF TypesOK
<1>9. PlaceInv'
  <2>1. SectionsAt(p)' /\ RegisterAt(p)'
    <3>1. \/ label = "zombie"
          \/ label \notin OutsideLabels \cup InsideLabels \cup CountLabels \cup {"crit"} \cup Dead
      BY DEF Labels
    <3> QED
      BY <1>3, <3>1 DEF SectionsAt, RegisterAt, OutsideLabels, InsideLabels, CountLabels, Dead
  <2>2. \A q \in Procs \ {p} : SectionsAt(q)' /\ RegisterAt(q)'
    BY <1>1, <1>4 DEF KInv, PlaceInv, SectionsAt, RegisterAt
  <2> QED
    BY <2>1, <2>2 DEF PlaceInv
<1>10. CountIsNest' /\ OthersOutside'
  BY <1>1, <1>7 DEF KInv, CountIsNest, OthersOutside
<1>11. Running(After)'
  BY <1>3, <1>5, <1>7 DEF Running, Live
<1>12. ZombiesInv'
  BY <1>1, <1>3, <1>4 DEF KInv, ZombiesInv, ZombieAt
<1>13. BlocksInv'
  <2> SUFFICES ASSUME NEW q \in Procs
               PROVE  (BlockStateAt(q) /\ BlockSetAt(q) /\ BlockListedAt(q))'
    BY DEF BlocksInv
  <2>1. CASE q = p
    <3>1. /\ label \notin {"reenqueue", "zomb_rem", "slot_take", "zomb_free"} \cup InitLabels
          /\ label \notin CountLabels
      BY DEF Labels, OutsideLabels, InsideLabels, CountLabels, InitLabels
    <3> QED
      BY <1>3, <2>1, <3>1 DEF BlockStateAt, BlockSetAt, BlockListedAt, Towards
  <2>2. CASE q # p
    <3>1. BlockStateAt(q) /\ BlockSetAt(q) /\ BlockListedAt(q) /\ pc'[q] = pc[q]
      BY <1>1, <1>4, <2>2, InvAt
    <3>2. Live(p)
      BY <1>1 DEF KInv, Running
    <3>3. obj[q] # NoProc => pc[q] = "reenqueue" \/ pc'[obj[q]] = pc[obj[q]]
      BY <1>1, <1>4, <3>1, <3>2 DEF TypesOK, BlockStateAt, Live, Dead
    <3> QED
      BY <3>1, <3>3 DEF BlockStateAt, BlockSetAt, BlockListedAt, Towards
  <2> QED
    BY <2>1, <2>2
<1>14. BlocksDistinct'
  BY <1>1, <1>4 DEF KInv, BlocksDistinct
<1>15. AsleepOutside(After)'
  BY <1>1, <1>3, <1>4 DEF KInv, AsleepOutside
<1> QED
  BY <1>7, <1>8, <1>9, <1>10, <1>11, <1>12, <1>13, <1>14, <1>15 DEF KInv

\* The last switch of a process that exits.
LEMMA ExitSwitchInv ==
  ASSUME NEW Places, NEW Asleep, KInv(Places, Asleep), NEW p \in Procs, ExitSwitch(p)
  PROVE  KInv(Places, Asleep)'
<1>1. /\ KInv(Places, Asleep) /\ TypesOK(Places) /\ SectionsAt(p) /\ BlockStateAt(p)
  BY InvAt
<1>2. /\ p = cpu /\ ~idle /\ pc[p] = "exit_switch" /\ Switch
      /\ pc' = [pc EXCEPT ![p] = "zombie"]
      /\ UNCHANGED <<isr, zombies, pri, preemptCount, reg, nest, cont, obj>>
  BY DEF ExitSwitch, At, Goto, countVars
<1>3. nest[p] = 0 /\ obj[p] = NoProc /\ "zombie" \in Places
  BY <1>1, <1>2
     DEF SectionsAt, OutsideLabels, BlockStateAt, Towards, CountLabels, FreeingLabels,
         InitLabels, TypesOK, Labels, Dead
<1> QED
  BY <1>1, <1>2, <1>3, LeaveInv

-----------------------------------------------------------------------------
(***************************************************************************)
(* The theorems.                                                           *)
(***************************************************************************)

(***************************************************************************)
(* Every step of a process in the scheduler preserves the invariant, also  *)
(* when other processes sleep in services of other modules.                *)
(***************************************************************************)
LEMMA StepInv ==
  ASSUME NEW Places, NEW Asleep, KInv(Places, Asleep), NEW p \in Procs, Continue(p) \/ Decide(p)
  PROVE  KInv(Places, Asleep)'
<1>1. CASE Continue(p)
  BY <1>1, CountLoadInv, ForbidStoreInv, PermitStoreInv, AppPermitInv, ReenqueueInv,
     FreeLoopInv, FirstZombieInv, RemZombieInv, ZombieTestInv, FreeZombieInv, FindSlotInv,
     TakeSlotInv, InitStructInv, EnqueueNewInv, AddZombieInv, ClearCurrentInv, ExitSwitchInv
     DEF Continue
<1>2. CASE Decide(p)
  <2>1. CASE \E q \in Procs, v \in Prios : SetPri(p, q, v)
    BY <2>1, SetPriInv
  <2> QED
    BY <1>2, <2>1, AppForbidInv, YieldInv, NewInv, ExitInv DEF Decide
<1> QED
  BY <1>1, <1>2

\* A step that changes nothing of Proc preserves the invariant.
LEMMA StutterInv ==
  ASSUME NEW Places, NEW Asleep, KInv(Places, Asleep), UNCHANGED vars
  PROVE  KInv(Places, Asleep)'
<1>1. /\ isr' \in BOOLEAN /\ quantum' \in 0..Quantum /\ ready' \in Seq(Procs) /\ NoDup(ready')
      /\ Asleep \in SUBSET Asleep
  BY DEF vars, KInv, TypesOK, ReadyExact
<1> QED
  BY <1>1, WakeInv DEF vars

\* What proc_init() sets up satisfies the invariant.
LEMMA InitInv == Init => IInv
<1>1. <<>> \in Seq(Procs \ {Main}) /\ NoDup(<<>>) /\ [p \in Procs |-> 0] \in [Procs -> Int]
  BY EmptySeq, EmptyMembers
<1> QED
  BY <1>1, StartedInv DEF Init, IInv

\* Every step of the scheduler preserves the invariant.
LEMMA NextInv == IInv /\ [Next]_vars => IInv'
<1> SUFFICES ASSUME KInv(Labels, {}), [Next]_vars PROVE KInv(Labels, {})'
  BY DEF IInv
<1> QED
  BY StepInv, StutterInv, TickInv, IsrExitInv DEF Next

\* IInv is an invariant of the scheduler.
THEOREM Invariance == Spec => []IInv
BY InitInv, NextInv, PTL DEF Spec

(***************************************************************************)
(* Type correctness: in particular _proc_quantum never wraps below zero.   *)
(***************************************************************************)
THEOREM TypeCorrect == Spec => []TypeOK
<1>1. IInv => TypeOK
  BY DEF IInv, KInv, TypesOK, TypeOK
<1> QED
  BY <1>1, Invariance, PTL

(***************************************************************************)
(* The unprotected ++preempt_count and --preempt_count of proc.h:296-349   *)
(* are right on one CPU: the counter is the number of sections that the    *)
(* running process has open, and the others have none.                     *)
(***************************************************************************)
THEOREM CountIsExact == Spec => []PreemptCountExact
<1>1. IInv => PreemptCountExact
  BY DEF IInv, KInv, PreemptCountExact, CountIsNest, OthersOutside, PlaceInv, RegisterAt, TypesOK
<1> QED
  BY <1>1, Invariance, PTL

(***************************************************************************)
(* No process is lost or duplicated: a live process runs or is ready, and  *)
(* its one link node is in one list.                                       *)
(***************************************************************************)
THEOREM EachInOnePlace == Spec => []OnePlace
<1>1. ASSUME IInv PROVE OnePlace
  <2>1. cpu \in Procs /\ (idle => ~Live(cpu))
    BY <1>1 DEF IInv, KInv, TypesOK, Running, Live, Dead
  <2>2. NoDup(ready) /\ NoDup(zombies) /\ ~Contains(ready, cpu)
    BY <1>1, <2>1 DEF IInv, KInv, ReadyExact, ZombiesInv
  <2>3. ASSUME NEW p \in Procs
        PROVE  /\ Contains(ready, p) => Live(p) /\ p # current
               /\ Live(p) /\ p # cpu => Contains(ready, p)
    BY <1>1, ProcsAssumption DEF IInv, KInv, ReadyExact, Running
  <2>4. ASSUME NEW p \in Procs, Contains(zombies, p)
        PROVE  \/ pc[p] = "zombie"
               \/ p = cpu /\ pc[p] \in CountLabels \cup {"exit_null", "exit_switch"}
    BY <1>1, <2>4 DEF IInv, KInv, ZombiesInv, ZombieAt, Cleared, Towards
  <2> QED
    BY <2>2, <2>3, <2>4 DEF OnePlace
<1> QED
  BY <1>1, Invariance, PTL

(***************************************************************************)
(* The stack that the CPU executes on is not given back to the heap, even  *)
(* while proc_schedule() spins on the stack of a process that exited.      *)
(***************************************************************************)
THEOREM StackStaysInUse == Spec => []StackInUse
<1>1. IInv => StackInUse
  BY DEF IInv, KInv, TypesOK, Running, Live, Dead, StackInUse
<1> QED
  BY <1>1, Invariance, PTL

(***************************************************************************)
(* Concurrent calls of proc_new() work on different blocks.                *)
(***************************************************************************)
THEOREM BlocksAreDistinct == Spec => []BlocksDistinct
<1>1. IInv => BlocksDistinct
  BY DEF IInv, KInv
<1> QED
  BY <1>1, Invariance, PTL

(***************************************************************************)
(* proc_forbid() works: while a process has a section open, every switch   *)
(* waits, the voluntary ones (it is not in user code) and the ones of the  *)
(* interrupts (the counter is not zero).                                   *)
(***************************************************************************)
THEOREM SectionsAreExclusive == Spec => SectionNotPreempted
<1>1. ASSUME IInv, [Next]_vars, Preempt, nest[cpu] > 0 PROVE cpu' = cpu
  <2>1. SectionsAt(cpu) /\ cpu \in Procs
    BY <1>1, InvAt DEF IInv, KInv, TypesOK
  <2>2. preemptCount # 0
    BY <1>1, <2>1 DEF IInv, KInv, CountIsNest, SectionsAt
  <2>3. ASSUME NEW p \in Procs, Yield(p) \/ ExitSwitch(p) PROVE FALSE
    BY <1>1, <2>1, <2>3 DEF Yield, ExitSwitch, At, SectionsAt, OutsideLabels
  <2>4. CASE IsrExit
    BY <1>1, <2>2, <2>4 DEF IsrExit, NeedPreempt, PreemptAllowed, schedVars
  <2>5. ASSUME NEW p \in Procs, Continue(p) PROVE cpu' = cpu
    BY <2>3, <2>5
       DEF Continue, CountLoad, ForbidStore, PermitStore, AppPermit, Reenqueue, FreeLoop,
           FirstZombie, RemZombie, ZombieTest, FreeZombie, FindSlot, TakeSlot, InitStruct,
           EnqueueNew, AddZombie, ClearCurrent, schedVars
  <2>6. ASSUME NEW p \in Procs, Decide(p) PROVE cpu' = cpu
    BY <2>3, <2>6 DEF Decide, AppForbid, New, Exit, SetPri, schedVars
  <2>7. CASE Tick
    BY <2>7 DEF Tick
  <2>8. CASE UNCHANGED vars
    BY <2>8 DEF vars
  <2> QED
    BY <1>1, <2>4, <2>5, <2>6, <2>7, <2>8 DEF Next
<1>2. IInv /\ [Next]_vars => [Preempt /\ nest[cpu] > 0 => cpu' = cpu]_vars
  BY <1>1
<1> QED
  BY <1>2, Invariance, PTL DEF Spec, SectionNotPreempted

-----------------------------------------------------------------------------
(***************************************************************************)
(* The order of the ready list.  proc_setPri() leaves the node of another  *)
(* process out of place until sched_reenqueue(): the list is sorted but    *)
(* for it, if no interrupt inserts a node meanwhile.                       *)
(***************************************************************************)
OwnPriority == \A p, q \in Procs : <<p, q>> \in Retarget => p = q

OrderInv ==
  /\ \A p \in Procs : pc[p] = "reenqueue" => p = cpu /\ ~idle /\ ~Preempt
  /\ IF pc[cpu] = "reenqueue" THEN SortedBut(ready, pri, obj[cpu]) ELSE Sorted(ready, pri)

\* Priorities may change elsewhere than in the list.
LEMMA SortedFrame ==
  ASSUME NEW list \in Seq(Procs), NEW old, NEW new, Sorted(list, old),
         \A q \in Procs : Contains(list, q) => new[q] = old[q]
  PROVE  Sorted(list, new)
<1>1. \A i \in 1..Len(list) : list[i] \in Procs /\ Contains(list, list[i])
  BY ElementOfSeq DEF Contains
<1> QED
  BY <1>1 DEF Sorted

\* A step of the process that runs which leaves the list alone.
LEMMA OrderKept ==
  ASSUME IInv, OrderInv, NEW p \in Procs, p = cpu, pc[p] # "reenqueue",
         \A q \in Procs : pc'[q] = "reenqueue" => pc[q] = "reenqueue",
         cpu' \in Procs,
         Sorted(ready, pri) => Sorted(ready', pri')
  PROVE  OrderInv'
<1>1. \A q \in Procs : pc'[q] # "reenqueue"
  BY DEF OrderInv
<1> QED
  BY <1>1 DEF OrderInv

\* Every step keeps the list sorted.
LEMMA OrderNext ==
  ASSUME IInv, OrderInv, Preempt => OwnPriority, [Next]_vars
  PROVE  OrderInv'
<1> USE DEF At, Goto, CallCount
<1>1. /\ TypesOK(Labels) /\ NoDup(ready) /\ cpu \in Procs /\ ready \in Seq(Procs)
      /\ pri \in [Procs -> Int] /\ pc \in [Procs -> Labels]
      /\ ~idle /\ ~Cleared(cpu) => current = cpu
      /\ \A q \in Procs : Contains(ready, q) => q # cpu \/ idle
  BY DEF IInv, KInv, TypesOK, ReadyExact, Running
<1>2. \A p \in Procs : SectionsAt(p) /\ BlockStateAt(p)
  BY InvAt DEF IInv
<1>3. cpu' \in Procs /\ pri' \in [Procs -> Int]
  BY NextInv DEF IInv, KInv, TypesOK
<1>4. ASSUME NEW p \in Procs,
             \/ CountLoad(p) \/ ForbidStore(p) \/ PermitStore(p) \/ AppPermit(p) \/ FreeLoop(p)
             \/ FirstZombie(p) \/ RemZombie(p) \/ ZombieTest(p) \/ FreeZombie(p) \/ FindSlot(p)
             \/ TakeSlot(p) \/ AddZombie(p) \/ ClearCurrent(p)
             \/ AppForbid(p) \/ New(p) \/ Exit(p)
      PROVE  OrderInv'
  <2>1. p = cpu /\ pc[p] # "reenqueue" /\ UNCHANGED <<ready, pri>>
    BY <1>4 DEF CountLoad, ForbidStore, PermitStore, AppPermit, FreeLoop, FirstZombie,
           RemZombie, ZombieTest, FreeZombie, FindSlot, TakeSlot, AddZombie, ClearCurrent,
           AppForbid, New, Exit, schedVars
  <2>2. \A q \in Procs : pc'[q] = "reenqueue" => pc[q] = "reenqueue"
    <3>1. pc[p] \in CountLabels => cont[p] # "reenqueue"
      BY <1>2 DEF SectionsAt, CountLabels
    <3> QED
      BY <1>1, <1>4, <3>1
         DEF CountLoad, ForbidStore, PermitStore, AppPermit, FreeLoop, FirstZombie,
             RemZombie, ZombieTest, FreeZombie, FindSlot, TakeSlot, AddZombie, ClearCurrent,
             AppForbid, New, Exit, CountLabels
  <2> QED
    BY <1>3, <2>1, <2>2, OrderKept
<1>5. ASSUME NEW p \in Procs, InitStruct(p) PROVE OrderInv'
  <2>1. /\ p = cpu /\ pc[p] = "new_init" /\ UNCHANGED ready
        /\ pri' = [pri EXCEPT ![obj[p]] = 0] /\ pc' = [pc EXCEPT ![p] = "new_enq"]
    BY <1>5 DEF InitStruct, schedVars
  <2>2. ~Contains(ready, obj[p])
    <3>1. obj[p] # NoProc => pc[obj[p]] = "alloc"
      BY <1>2, <2>1 DEF BlockStateAt, Towards, CountLabels, FreeingLabels
    <3>2. obj[p] \in Procs \/ obj[p] = NoProc
      BY <1>1 DEF TypesOK
    <3>3. \A q \in Procs : Contains(ready, q) => Live(q)
      BY DEF IInv, KInv, ReadyExact
    <3>4. ~Contains(ready, NoProc)
      BY <1>1, ProcsAssumption, ElementOfSeq DEF Contains
    <3> QED
      BY <3>1, <3>2, <3>3, <3>4 DEF Live, Dead
  <2>3. \A q \in Procs : Contains(ready, q) => pri'[q] = pri[q]
    BY <1>1, <2>1, <2>2
  <2>4. Sorted(ready, pri) => Sorted(ready', pri')
    BY <1>1, <2>1, <2>3, SortedFrame
  <2>5. \A q \in Procs : pc'[q] = "reenqueue" => pc[q] = "reenqueue"
    BY <1>1, <2>1
  <2> QED
    BY <1>3, <2>1, <2>4, <2>5, OrderKept
<1>6. ASSUME NEW p \in Procs, EnqueueNew(p) PROVE OrderInv'
  <2>1. /\ p = cpu /\ pc[p] = "new_enq" /\ ready' = Enqueue(ready, obj[p], pri) /\ pri' = pri
        /\ pc' = [pc EXCEPT ![p] = "user", ![obj[p]] = "user"]
    BY <1>6 DEF EnqueueNew
  <2>2. obj[p] \in Procs
    BY <1>1, <2>1, InvAt DEF IInv, BlockSetAt, Towards, InitLabels, TypesOK
  <2>3. Sorted(ready, pri) => Sorted(ready', pri')
    BY <1>1, <2>1, <2>2, EnqueueSorted
  <2>4. \A q \in Procs : pc'[q] = "reenqueue" => pc[q] = "reenqueue"
    BY <1>1, <2>1
  <2> QED
    BY <1>3, <2>1, <2>3, <2>4, OrderKept
<1>7. ASSUME NEW p \in Procs, Reenqueue(p) PROVE OrderInv'
  <2>1. /\ p = cpu /\ pc[p] = "reenqueue" /\ pri' = pri /\ cpu' = cpu
        /\ ready' = IF Contains(ready, obj[p])
                    THEN Enqueue(Unlink(ready, obj[p]), obj[p], pri) ELSE ready
        /\ pc' = [pc EXCEPT ![p] = "user"]
    BY <1>7 DEF Reenqueue
  <2>2. SortedBut(ready, pri, obj[p]) /\ \A q \in Procs \ {p} : pc[q] # "reenqueue"
    BY <2>1 DEF OrderInv
  <2>3. obj[p] \in Procs
    BY <1>1, <2>1, InvAt DEF IInv, BlockSetAt, TypesOK
  <2>4. Sorted(ready', pri)
    <3>1. CASE Contains(ready, obj[p])
      <4>1. Unlink(ready, obj[p]) \in Seq(Procs) /\ Sorted(Unlink(ready, obj[p]), pri)
        BY <1>1, <2>2, <3>1, UnlinkMembers, UnlinkRepairs
      <4> QED
        BY <1>1, <2>1, <2>3, <3>1, <4>1, EnqueueSorted
    <3>2. CASE ~Contains(ready, obj[p])
      <4>1. \A i \in 1..Len(ready) : ready[i] # obj[p]
        BY <3>2 DEF Contains
      <4> QED
        BY <2>1, <2>2, <3>2, <4>1 DEF Sorted, SortedBut
    <3> QED
      BY <3>1, <3>2
  <2>5. \A q \in Procs : pc'[q] # "reenqueue"
    BY <1>1, <2>1, <2>2
  <2> QED
    BY <1>1, <2>1, <2>4, <2>5 DEF OrderInv
<1>8. ASSUME NEW p \in Procs, NEW q \in Procs, NEW v \in Prios, SetPri(p, q, v) PROVE OrderInv'
  <2>1. /\ p = cpu /\ ~idle /\ pc[p] = "user" /\ UNCHANGED <<cpu, idle, ready, current>>
        /\ pri' = [pri EXCEPT ![q] = v] /\ <<p, q>> \in Retarget
        /\ IF q = current
           THEN UNCHANGED <<pc, obj>>
           ELSE pc' = [pc EXCEPT ![p] = "reenqueue"] /\ obj' = [obj EXCEPT ![p] = q]
    BY <1>8 DEF SetPri, schedVars
  <2>2. current = p
    BY <1>1, <2>1 DEF Cleared, Towards, CountLabels
  <2>3. Sorted(ready, pri) /\ \A r \in Procs : pc[r] # "reenqueue"
    BY <2>1 DEF OrderInv
  <2>4. CASE q = p
    <3>1. \A r \in Procs : Contains(ready, r) => pri'[r] = pri[r]
      BY <1>1, <2>1, <2>4
    <3>2. Sorted(ready', pri') /\ pc' = pc
      BY <1>1, <2>1, <2>2, <2>3, <2>4, <3>1, SortedFrame
    <3> QED
      BY <1>1, <2>1, <2>3, <3>2 DEF OrderInv
  <2>5. CASE q # p
    <3>1. ~Preempt
      BY <2>1, <2>5 DEF OwnPriority
    <3>2. pc'[p] = "reenqueue" /\ obj'[p] = q /\ \A r \in Procs \ {p} : pc'[r] = pc[r]
      BY <1>1, <2>1, <2>2, <2>5 DEF TypesOK
    <3>3. \A i \in 1..Len(ready) : ready[i] \in Procs
      BY <1>1, ElementOfSeq
    <3>4. \A r \in Procs \ {q} : pri'[r] = pri[r]
      BY <1>1, <2>1
    <3>5. SortedBut(ready', pri', q)
      BY <2>1, <2>3, <3>3, <3>4 DEF Sorted, SortedBut
    <3> QED
      BY <2>1, <2>3, <3>1, <3>2, <3>5 DEF OrderInv
  <2> QED
    BY <2>4, <2>5
<1>9. ASSUME NEW p \in Procs, Yield(p) PROVE OrderInv'
  <2>1. /\ p = cpu /\ ~idle /\ pc[p] = "user" /\ ready # <<>> /\ pri' = pri /\ pc' = pc
        /\ ready' = Enqueue(Tail(ready), current, pri)
    BY <1>9 DEF Yield, SwitchTo
  <2>2. current = p
    BY <1>1, <2>1 DEF Cleared, Towards, CountLabels
  <2>3. ASSUME Sorted(ready, pri) PROVE Sorted(ready', pri')
    <3>1. Tail(ready) \in Seq(Procs) /\ Sorted(Tail(ready), pri)
      BY <1>1, <2>1, <2>3, TailMembers, TailSorted
    <3> QED
      BY <1>1, <2>1, <2>2, <3>1, EnqueueSorted
  <2> QED
    BY <1>3, <2>1, <2>3, OrderKept
<1>10. ASSUME NEW p \in Procs, ExitSwitch(p) PROVE OrderInv'
  <2>1. /\ p = cpu /\ pc[p] = "exit_switch" /\ pri' = pri
        /\ pc' = [pc EXCEPT ![p] = "zombie"]
        /\ ready' = IF ready = <<>> THEN <<>> ELSE Tail(ready)
    BY <1>10 DEF ExitSwitch, Switch, Schedule
  <2>2. ASSUME Sorted(ready, pri) PROVE Sorted(ready', pri')
    BY <1>1, <2>1, <2>2, TailSorted DEF Sorted
  <2>3. \A q \in Procs : pc'[q] = "reenqueue" => pc[q] = "reenqueue"
    BY <1>1, <2>1
  <2> QED
    BY <1>3, <2>1, <2>2, <2>3, OrderKept
<1>11. CASE UNCHANGED <<ready, cpu, idle, pri, pc, obj>>
  BY <1>11 DEF OrderInv
<1>12. CASE IsrExit
  <2>1. CASE ~(Preempt /\ NeedPreempt)
    BY <1>11, <1>12, <2>1 DEF IsrExit, schedVars
  <2>2. CASE Preempt /\ NeedPreempt
    <3>1. /\ pri' = pri /\ pc' = pc /\ current # NoProc
          /\ Schedule(Enqueue(ready, current, pri))
      BY <1>12, <2>2 DEF IsrExit, PreemptCurrent, NeedPreempt
    <3>2. current \in Procs
      BY <1>1, <3>1 DEF TypesOK
    <3>3. pc[cpu] # "reenqueue" /\ Sorted(ready, pri)
      BY <1>1, <2>2 DEF OrderInv
    <3>4. PICK list \in Seq(Procs) : list = Enqueue(ready, current, pri)
      BY <1>1, <3>2, EnqueueMembers
    <3>5. Sorted(list, pri)
      BY <1>1, <3>2, <3>3, <3>4, EnqueueSorted
    <3>6. Sorted(ready', pri')
      BY <1>1, <3>1, <3>4, <3>5, TailSorted DEF Schedule, Sorted
    <3> QED
      BY <1>1, <1>3, <3>1, <3>3, <3>6, OrderKept
  <2> QED
    BY <2>1, <2>2
<1>13. CASE Tick \/ UNCHANGED vars
  BY <1>11, <1>13 DEF Tick, vars
<1>14. ASSUME NEW p \in Procs, Continue(p) \/ Decide(p) PROVE OrderInv'
  BY <1>4, <1>5, <1>6, <1>7, <1>8, <1>9, <1>10, <1>14 DEF Continue, Decide
<1> QED
  BY <1>12, <1>13, <1>14 DEF Next

\* At the start the list is empty.
LEMMA OrderInit == Init => OrderInv
BY ProcsAssumption DEF Init, Started, OrderInv, Sorted, Contains

(***************************************************************************)
(* proc.c:67: the ready list is in the order of the priorities, when the   *)
(* kernel is cooperative or processes change only their own priority.      *)
(***************************************************************************)
THEOREM ReadyIsSorted ==
  ASSUME Preempt => OwnPriority
  PROVE  Spec => []ReadySorted
<1>1. IInv /\ OrderInv /\ [Next]_vars => OrderInv'
  BY OrderNext
<1>2. IInv /\ OrderInv => ReadySorted
  BY DEF IInv, KInv, TypesOK, OrderInv, ReadySorted
<1> QED
  BY <1>1, <1>2, OrderInit, Invariance, PTL DEF Spec

(***************************************************************************)
(* proc.c:71, 434: an interrupt leaves the CPU to a process of the highest *)
(* priority, when processes change only their own.                         *)
(***************************************************************************)
THEOREM TheHighestRuns ==
  ASSUME OwnPriority
  PROVE  Spec => HighestRuns
<1>1. IInv /\ OrderInv /\ [Next]_vars => OrderInv'
  BY OrderNext
<1>2. ASSUME IInv, OrderInv, [Next]_vars, isr, ~isr', Preempt, PreemptAllowed,
             current # NoProc, NEW p \in Procs, Contains(ready', p)
      PROVE  pri[current'] >= pri[p]
  <2>1. /\ cpu \in Procs /\ ready \in Seq(Procs) /\ pri \in [Procs -> Int] /\ current \in Procs
    BY <1>2 DEF IInv, KInv, TypesOK
  <2>2. Sorted(ready, pri)
    BY <1>2, <2>1 DEF OrderInv
  <2>3. IsrExit
    <3>1. ~Tick /\ ~UNCHANGED vars
      BY <1>2 DEF Tick, vars
    <3>2. \A q \in Procs : ~Continue(q)
      BY <1>2
         DEF Continue, At, CountLoad, ForbidStore, PermitStore, AppPermit, Reenqueue, FreeLoop,
             FirstZombie, RemZombie, ZombieTest, FreeZombie, FindSlot, TakeSlot, InitStruct,
             EnqueueNew, AddZombie, ClearCurrent, ExitSwitch
    <3>3. \A q \in Procs : ~Decide(q)
      BY <1>2 DEF Decide, At, AppForbid, Yield, New, Exit, SetPri
    <3> QED
      BY <1>2, <3>1, <3>2, <3>3 DEF Next
  <2>4. CASE NeedPreempt
    <3>1. PICK list \in Seq(Procs) : list = Enqueue(ready, current, pri)
      BY <2>1, EnqueueMembers
    <3>2. Sorted(list, pri)
      BY <2>1, <2>2, <3>1, EnqueueSorted
    <3>3. Schedule(list)
      BY <1>2, <2>3, <2>4, <3>1 DEF IsrExit, PreemptCurrent
    <3>4. list # <<>> /\ NoDup(list)
      <4>1. Contains(list, current)
        BY <2>1, <3>1, EnqueueMembers
      <4>2. NoDup(ready) /\ ~Contains(ready, current)
        BY <1>2, <2>1, ProcsAssumption DEF IInv, KInv, ReadyExact, Running
      <4> QED
        BY <2>1, <3>1, <4>1, <4>2, EnqueueMembers, EmptyMembers
    <3>5. current' = Head(list) /\ ready' = Tail(list)
      BY <3>3, <3>4 DEF Schedule
    <3>6. Contains(list, p)
      BY <1>2, <3>4, <3>5, TailMembers
    <3> QED
      BY <2>1, <3>2, <3>4, <3>5, <3>6, TailSorted
  <2>5. CASE ~NeedPreempt
    <3>1. ready' = ready /\ current' = current
      BY <2>3, <2>5 DEF IsrExit, schedVars
    <3>2. ready # <<>>
      BY <1>2, <3>1, EmptyMembers
    <3>3. Head(ready) \in Procs /\ pri[Head(ready)] >= pri[p]
      BY <1>2, <2>1, <2>2, <3>1, <3>2, TailMembers, TailSorted
    <3>4. pri[current] >= pri[Head(ready)]
      BY <1>2, <2>1, <2>5, <3>2, <3>3 DEF NeedPreempt
    <3>5. pri[current] \in Int /\ pri[Head(ready)] \in Int /\ pri[p] \in Int
      BY <2>1, <3>3
    <3> QED
      BY <3>1, <3>3, <3>4, <3>5
  <2> QED
    BY <2>4, <2>5
<1>3. IInv /\ OrderInv /\ [Next]_vars =>
        [isr /\ ~isr' /\ Preempt /\ PreemptAllowed /\ current # NoProc =>
           \A p \in Procs : Contains(ready', p) => pri[current'] >= pri[p]]_vars
  BY <1>2
<1> QED
  BY <1>1, <1>3, OrderInit, Invariance, PTL DEF Spec, HighestRuns
=============================================================================
