-------------------------------- MODULE Sem ---------------------------------
(***************************************************************************)
(* The semaphores of kern/sem.c, with priority inheritance                 *)
(* (CONFIG_KERN_PRI_INHERIT), on top of the scheduler of Proc.             *)
(*                                                                         *)
(* The sections between proc_forbid() and proc_permit() are cut between    *)
(* the test of a semaphore and its update.  An inheritance list is kept    *)
(* sorted by LIST_ENQUEUE() and only its head is looked at: it is a set    *)
(* here, and the priority of its head is the highest in the set.           *)
(***************************************************************************)
EXTENDS Proc

CONSTANTS
  Sems,       \* the semaphores, natural numbers
  NoSem,      \* a null inh_blocked_by
  InitReady,  \* the ready list and the priorities after start-up
  InitPri,
  MaxHold,    \* how many times a process obtains a semaphore it holds
  InOrder,    \* processes obtain semaphores in increasing order only
  WindowIrq   \* an interrupt may come between proc_permit() and proc_switch()
              \* in sem_obtain()

ASSUME SemsAssumption == Sems \subseteq Nat /\ NoSem \notin Sems
ASSUME StartAssumption ==
  /\ InitPri \in [Procs -> Int]
  /\ InitReady \in Seq(Procs \ {Main})
  /\ NoDup(InitReady) /\ Sorted(InitReady, InitPri)
ASSUME FiniteAssumption == IsFiniteSet(Procs)
ASSUME ServicesAssumption == Calls \subseteq {"yield", "forbid", "setpri"}
ASSUME HoldAssumption == MaxHold \in Nat /\ InOrder \in BOOLEAN /\ WindowIrq \in BOOLEAN

VARIABLES
  owner,      \* Semaphore.owner
  queue,      \* Semaphore.wait_queue
  nestCount,  \* Semaphore.nest_count
  origPri,    \* Process.orig_pri
  inhPri,     \* Process.inh_link.pri
  blockedBy,  \* Process.inh_blocked_by
  inhList,    \* Process.inh_list
  arg,        \* the argument of a semaphore call in progress
  held        \* how often each process has obtained and not released

semVars == <<owner, queue, nestCount>>
inhVars == <<origPri, inhPri, blockedBy, inhList>>
allVars == <<vars, semVars, inhVars, arg, held>>

SemLabels == {"obt_test", "obt_block", "inherit", "obt_switch", "obt_take", "obt_done",
              "att_test", "att_take", "rel_dec", "rel_pass", "rel_wake"}

-----------------------------------------------------------------------------
\* Mutant of ProcPri: what a process inherits is left out.
ProcPriOwn(p, orig, list, prios) == orig[p]

\* __prio_proc(p), with the given priorities in the given list.
ProcPri(p, orig, list, prios) == Max({orig[p]} \cup {prios[q] : q \in list[p]})

\* proc_setPri(p, orig_pri): the new priority, and p's place in the ready list.
UpdatePri(p, orig, list, prios) ==
  /\ pri' = [pri EXCEPT ![p] = ProcPri(p, orig, list, prios)]
  /\ ready' = IF Contains(ready, p) /\ pri'[p] # pri[p]
              THEN Enqueue(Unlink(ready, p), p, pri') ELSE ready

\* Mutant of CallSem: the section is not opened.
CallSemUnprotected(p, s, label) ==
  /\ At(p, "user")
  /\ Goto(p, label)
  /\ arg' = [arg EXCEPT ![p] = s]
  /\ UNCHANGED <<schedVars, isr, zombies, pri, countVars, cont, obj, semVars, inhVars>>

\* sem_obtain(), sem_attempt() and sem_release() of s begin.
CallSem(p, s, label) ==
  /\ At(p, "user")
  /\ CallCount(p, "forbid", label)
  /\ arg' = [arg EXCEPT ![p] = s]
  /\ UNCHANGED <<schedVars, isr, zombies, pri, countVars, obj, semVars, inhVars>>

MayObtain(p, s) ==
  /\ held[p][s] < MaxHold
  /\ InOrder => \A t \in Sems : held[p][t] > 0 => t <= s

Obtain(p, s)  == MayObtain(p, s) /\ CallSem(p, s, "obt_test") /\ UNCHANGED held
Attempt(p, s) == MayObtain(p, s) /\ CallSem(p, s, "att_test") /\ UNCHANGED held
Release(p, s) ==
  /\ held[p][s] > 0
  /\ CallSem(p, s, "rel_dec")
  /\ UNCHANGED held

-----------------------------------------------------------------------------
\* Is the semaphore already locked by another process?
ObtTest(p) ==
  /\ At(p, "obt_test")
  /\ Goto(p, IF owner[arg[p]] \notin {NoProc, p} THEN "obt_block" ELSE "obt_take")
  /\ UNCHANGED <<schedVars, isr, zombies, pri, countVars, cont, obj, semVars, inhVars, arg, held>>

\* Mutant of ObtTake: the nesting is not counted.
ObtTakeUncounted(p) ==
  /\ At(p, "obt_take")
  /\ owner' = [owner EXCEPT ![arg[p]] = p]
  /\ CallCount(p, "permit", "obt_done")
  /\ UNCHANGED <<schedVars, isr, zombies, pri, countVars, obj, queue, nestCount, inhVars, arg, held>>

\* The semaphore was free, or is the caller's own.
ObtTake(p) ==
  /\ At(p, "obt_take")
  /\ owner' = [owner EXCEPT ![arg[p]] = p]
  /\ nestCount' = [nestCount EXCEPT ![arg[p]] = @ + 1]
  /\ CallCount(p, "permit", "obt_done")
  /\ UNCHANGED <<schedVars, isr, zombies, pri, countVars, obj, queue, inhVars, arg, held>>

\* ADDTAIL(&s->wait_queue, current_process), and its mutant, ADDHEAD.
AddWaiterHead(list, p) == <<p>> \o list
AddWaiter(list, p) == Append(list, p)

\* The caller goes to the wait queue, and to the owner's inheritance list.
ObtBlock(p) ==
  LET s == arg[p] IN
  /\ At(p, "obt_block")
  /\ queue' = [queue EXCEPT ![s] = AddWaiter(@, p)]
  /\ inhPri' = [inhPri EXCEPT ![p] = ProcPri(p, origPri, inhList, inhPri)]
  /\ inhList' = [inhList EXCEPT ![owner[s]] = @ \cup {p}]
  /\ blockedBy' = [blockedBy EXCEPT ![p] = s]
  /\ obj' = [obj EXCEPT ![p] = owner[s]]
  /\ Goto(p, "inherit")
  /\ UNCHANGED <<schedVars, isr, zombies, pri, countVars, cont, owner, nestCount,
                 origPri, arg, held>>

\* One round of the loop of pri_inheritBlock(): boost the owner o, and, when o
\* is itself blocked, move it in the list of the process that blocks it.
Inherit(p) ==
  LET o == obj[p]
      next == owner[blockedBy[o]]
  IN
  /\ At(p, "inherit")
  /\ \/ /\ inhPri[p] <= pri[o]
        /\ CallCount(p, "permit", "obt_switch")
        /\ obj' = [obj EXCEPT ![p] = NoProc]
        /\ UNCHANGED <<pri, ready, inhPri, inhList>>
     \/ /\ inhPri[p] > pri[o]
        /\ UpdatePri(o, origPri, inhList, inhPri)
        /\ IF blockedBy[o] = NoSem
           THEN /\ CallCount(p, "permit", "obt_switch")
                /\ obj' = [obj EXCEPT ![p] = NoProc]
                /\ UNCHANGED <<inhPri, inhList>>
           ELSE /\ inhPri' = [inhPri EXCEPT ![o] = pri'[o]]
                /\ inhList' = [q \in Procs |-> IF q = next THEN inhList[q] \cup {o}
                                                         ELSE inhList[q] \ {o}]
                /\ obj' = [obj EXCEPT ![p] = next]
                /\ UNCHANGED <<pc, cont>>
  /\ UNCHANGED <<current, cpu, idle, quantum, isr, zombies, countVars, semVars,
                 origPri, blockedBy, arg, held>>

\* Mutant of ObtSwitch: it stays in the ready list.
ObtSwitchReady(p) ==
  /\ At(p, "obt_switch")
  /\ quantum' = Quantum /\ Schedule(Enqueue(ready, p, pri))
  /\ Goto(p, "obt_done")
  /\ UNCHANGED <<isr, zombies, pri, countVars, cont, obj, semVars, inhVars, arg, held>>

\* proc_switch(); the process goes on when sem_release() has made it the owner.
ObtSwitch(p) ==
  /\ At(p, "obt_switch")
  /\ Switch
  /\ Goto(p, "obt_done")
  /\ UNCHANGED <<isr, zombies, pri, countVars, cont, obj, semVars, inhVars, arg, held>>

\* The call returns to the application.
ObtDone(p) ==
  /\ At(p, "obt_done")
  /\ Goto(p, "user")
  /\ arg' = [arg EXCEPT ![p] = NoSem]
  /\ held' = [held EXCEPT ![p][arg[p]] = @ + 1]
  /\ UNCHANGED <<schedVars, isr, zombies, pri, countVars, cont, obj, semVars, inhVars>>

\* sem_attempt().
AttTest(p) ==
  /\ At(p, "att_test")
  /\ IF owner[arg[p]] \in {NoProc, p}
     THEN Goto(p, "att_take") /\ UNCHANGED <<cont, arg>>
     ELSE CallCount(p, "permit", "user") /\ arg' = [arg EXCEPT ![p] = NoSem]
  /\ UNCHANGED <<schedVars, isr, zombies, pri, countVars, obj, semVars, inhVars, held>>

AttTake(p) ==
  /\ At(p, "att_take")
  /\ owner' = [owner EXCEPT ![arg[p]] = p]
  /\ nestCount' = [nestCount EXCEPT ![arg[p]] = @ + 1]
  /\ CallCount(p, "permit", "obt_done")
  /\ UNCHANGED <<schedVars, isr, zombies, pri, countVars, obj, queue, inhVars, arg, held>>

-----------------------------------------------------------------------------
\* --nest_count == 0: has the semaphore been fully unlocked?
RelDec(p) ==
  LET n == nestCount[arg[p]] - 1 IN
  /\ At(p, "rel_dec")
  /\ nestCount' = [nestCount EXCEPT ![arg[p]] = n]
  /\ held' = [held EXCEPT ![p][arg[p]] = @ - 1]
  /\ IF n = 0
     THEN Goto(p, "rel_pass") /\ UNCHANGED <<cont, arg>>
     ELSE CallCount(p, "permit", "user") /\ arg' = [arg EXCEPT ![p] = NoSem]
  /\ UNCHANGED <<schedVars, isr, zombies, pri, countVars, obj, owner, queue, inhVars>>

\* Mutant of RelFree: the semaphore is disowned whoever waits.
RelFreeAlways(p) ==
  /\ At(p, "rel_pass")
  /\ owner' = [owner EXCEPT ![arg[p]] = NoProc]
  /\ CallCount(p, "permit", "user")
  /\ arg' = [arg EXCEPT ![p] = NoSem]
  /\ UNCHANGED <<schedVars, isr, zombies, pri, countVars, obj, queue, nestCount, inhVars, held>>

\* Nobody waits: disown the semaphore.
RelFree(p) ==
  /\ At(p, "rel_pass")
  /\ queue[arg[p]] = <<>>
  /\ owner' = [owner EXCEPT ![arg[p]] = NoProc]
  /\ CallCount(p, "permit", "user")
  /\ arg' = [arg EXCEPT ![p] = NoSem]
  /\ UNCHANGED <<schedVars, isr, zombies, pri, countVars, obj, queue, nestCount, inhVars, held>>

\* The first applicant becomes the owner.  pri_inheritUnblock(): the others
\* that wait for s go over to its inheritance list, and the priorities of both
\* are set.
RelPass(p) ==
  LET s     == arg[p]
      proc  == Head(queue[s])
      moved == {q \in inhList[owner[s]] \ {proc} : blockedBy[q] = s}
  IN
  /\ At(p, "rel_pass")
  /\ queue[s] # <<>>
  /\ queue' = [queue EXCEPT ![s] = Tail(@)]
  /\ blockedBy' = [blockedBy EXCEPT ![proc] = NoSem]
  /\ inhList' = [q \in Procs |->
       CASE q = proc     -> inhList[q] \cup moved
         [] q = owner[s] -> inhList[q] \ (moved \cup {proc})
         [] OTHER        -> inhList[q]]
  /\ pri' = [q \in Procs |->
       CASE q = proc     -> IF \E r \in moved : inhPri[r] > pri[q]
                            THEN ProcPri(q, origPri, inhList', inhPri) ELSE pri[q]
         [] q = owner[s] -> ProcPri(q, origPri, inhList', inhPri)
         [] OTHER        -> pri[q]]
  /\ nestCount' = [nestCount EXCEPT ![s] = 1]
  /\ owner' = [owner EXCEPT ![s] = proc]
  /\ obj' = [obj EXCEPT ![p] = proc]
  /\ CallCount(p, "permit", "rel_wake")
  /\ UNCHANGED <<schedVars, isr, zombies, countVars, origPri, inhPri, arg, held>>

\* Mutant of RelWake: the new owner is not awakened.
RelWakeNot(p) ==
  /\ At(p, "rel_wake")
  /\ Goto(p, "user")
  /\ obj' = [obj EXCEPT ![p] = NoProc]
  /\ arg' = [arg EXCEPT ![p] = NoSem]
  /\ UNCHANGED <<schedVars, isr, zombies, pri, countVars, cont, semVars, inhVars, held>>

\* ATOMIC(proc_wakeup(proc)).
RelWake(p) ==
  /\ At(p, "rel_wake")
  /\ Wakeup(obj[p])
  /\ Goto(p, "user")
  /\ obj' = [obj EXCEPT ![p] = NoProc]
  /\ arg' = [arg EXCEPT ![p] = NoSem]
  /\ UNCHANGED <<isr, zombies, pri, countVars, cont, semVars, inhVars, held>>

-----------------------------------------------------------------------------
\* proc_setPri(q, v) with priority inheritance; sched_reenqueue() follows.
SetPriInh(p, q, v) ==
  /\ "setpri" \in Calls
  /\ <<p, q>> \in Retarget
  /\ At(p, "user")
  /\ Live(q)
  /\ origPri[q] # v
  /\ origPri' = [origPri EXCEPT ![q] = v]
  /\ pri' = [pri EXCEPT ![q] = ProcPri(q, origPri', inhList, inhPri)]
  /\ IF pri'[q] = pri[q] \/ q = current
     THEN UNCHANGED <<pc, obj>>
     ELSE Goto(p, "reenqueue") /\ obj' = [obj EXCEPT ![p] = q]
  /\ UNCHANGED <<schedVars, isr, zombies, countVars, cont, semVars,
                 inhPri, blockedBy, inhList, arg, held>>

\* What a process does in the middle of a call.
SemContinue(p) ==
  \/ Continue(p) /\ UNCHANGED <<semVars, inhVars, arg, held>>
  \/ ObtTest(p) \/ ObtTake(p) \/ ObtBlock(p) \/ Inherit(p) \/ ObtSwitch(p) \/ ObtDone(p)
  \/ AttTest(p) \/ AttTake(p)
  \/ RelDec(p) \/ RelFree(p) \/ RelPass(p) \/ RelWake(p)

\* What the application decides.
SemDecide(p) ==
  \/ (AppForbid(p) \/ Yield(p)) /\ UNCHANGED <<semVars, inhVars, arg, held>>
  \/ \E s \in Sems : Obtain(p, s) \/ Attempt(p, s) \/ Release(p, s)
  \/ \E q \in Procs, v \in Prios : SetPriInh(p, q, v)

SemTick ==
  /\ WindowIrq \/ idle \/ pc[cpu] # "obt_switch"
  /\ Tick
  /\ UNCHANGED <<semVars, inhVars, arg, held>>
SemIsrExit == IsrExit /\ UNCHANGED <<semVars, inhVars, arg, held>>

SemInit ==
  /\ Started(InitReady, InitPri)
  /\ owner = [s \in Sems |-> NoProc]
  /\ queue = [s \in Sems |-> <<>>]
  /\ nestCount = [s \in Sems |-> 0]
  /\ origPri = InitPri
  /\ inhPri = InitPri
  /\ blockedBy = [p \in Procs |-> NoSem]
  /\ inhList = [p \in Procs |-> {}]
  /\ arg = [p \in Procs |-> NoSem]
  /\ held = [p \in Procs |-> [s \in Sems |-> 0]]

SemNext ==
  \/ \E p \in Procs : SemContinue(p) \/ SemDecide(p)
  \/ SemTick \/ SemIsrExit

SemSpec == SemInit /\ [][SemNext]_allVars

\* As in Proc, but each process gets time to execute when it is not preempted
\* at once every time; and the application releases what it has obtained.
SemFairness ==
  /\ WF_allVars(SemIsrExit)
  /\ \A p \in Procs : SF_allVars(SemContinue(p))
  /\ SF_allVars(SemTick /\ PreemptAllowed)
  /\ \A p \in Procs, s \in Sems : SF_allVars(Release(p, s))

SemFairSpec == SemSpec /\ SemFairness

-----------------------------------------------------------------------------
SemTypeOK ==
  /\ current \in Procs \cup {NoProc} /\ cpu \in Procs
  /\ idle \in BOOLEAN /\ isr \in BOOLEAN
  /\ ready \in Seq(Procs) /\ zombies \in Seq(Procs)
  /\ pri \in [Procs -> Int] /\ quantum \in 0..Quantum /\ preemptCount \in Int
  /\ pc \in [Procs -> Labels \cup SemLabels] /\ cont \in [Procs -> Labels \cup SemLabels]
  /\ reg \in [Procs -> Int] /\ nest \in [Procs -> Int]
  /\ obj \in [Procs -> Procs \cup {NoProc}]
  /\ owner \in [Sems -> Procs \cup {NoProc}]
  /\ queue \in [Sems -> Seq(Procs)]
  /\ nestCount \in [Sems -> Nat]
  /\ origPri \in [Procs -> Int] /\ inhPri \in [Procs -> Int]
  /\ blockedBy \in [Procs -> Sems \cup {NoSem}]
  /\ inhList \in [Procs -> SUBSET Procs]
  /\ arg \in [Procs -> Sems \cup {NoSem}]
  /\ held \in [Procs -> [Sems -> Nat]]

\* Nobody is inside a section of sem.c.
Quiet == \A p \in Procs : nest[p] = 0

Queued(p) == \E s \in Sems : Contains(queue[s], p)

\* Only one process at a time is between its obtain and its last release, and
\* the semaphore knows it and counts right; one that sem_obtain() put to sleep
\* goes on only when the semaphore was locked for it (sem.c:241-245).
MutualExclusion ==
  \A s \in Sems, p \in Procs :
    LET done == pc[p] = "obt_done" /\ arg[p] = s IN
    /\ held[p][s] > 0 =>
         /\ owner[s] = p
         /\ \A q \in Procs \ {p} : held[q][s] = 0
         /\ Quiet => nestCount[s] = held[p][s] + IF done THEN 1 ELSE 0
    /\ done /\ (p = current \/ Contains(ready, p)) => owner[s] = p

\* A semaphore that is waited for has an owner, which does not wait for it: a
\* release hands it over and never leaves the others asleep.
NoOrphanQueue ==
  \A s \in Sems :
    /\ queue[s] # <<>> => owner[s] # NoProc /\ ~Contains(queue[s], owner[s])
    /\ Quiet => (owner[s] = NoProc) = (nestCount[s] = 0)

\* sem.c:51: the wait queues are valid: a process in one, linked through its
\* only link node, is in no other list.
QueuesValid ==
  /\ \A s \in Sems : NoDup(queue[s])
  /\ \A p \in Procs : Queued(p) => ~Contains(ready, p)
  /\ \A p \in Procs, s, t \in Sems : Contains(queue[s], p) /\ Contains(queue[t], p) => s = t

\* No process is lost: it runs, is ready, waits for a semaphore, or was made
\* the owner of one by a process about to wake it up.
NoneLost ==
  \A p \in Procs : Live(p) =>
    \/ p = current \/ Contains(ready, p) \/ Queued(p)
    \/ \E r \in Procs : obj[r] = p /\ (pc[r] = "rel_wake" \/ cont[r] = "rel_wake")

\* Each process is in one place, whatever happens to priorities meanwhile.
OnePlaceSem == QueuesValid /\ NoneLost

\* Priority inheritance is exact when nobody is inside a section: the list of
\* a process holds those who wait for its semaphores, and its priority is its
\* own or the highest among theirs, so that whoever blocks a process, through
\* any chain, has at least its priority (sem.c:68-72).
InheritanceExact ==
  Quiet => \A p \in Procs :
    /\ inhList[p] = {q \in Procs : blockedBy[q] # NoSem /\ owner[blockedBy[q]] = p}
    /\ pri[p] = Max({origPri[p]} \cup {pri[q] : q \in inhList[p]})
    /\ \A s \in Sems : (blockedBy[p] = s) = Contains(queue[s], p)

\* Every process that waits for a semaphore obtains it, unless priorities
\* become unequal: then a process of a higher one may keep the CPU.
WaiterServed ==
  \A p \in Procs :
    pc[p] = "obt_switch" ~> pc[p] = "user" \/ \E q \in Procs : origPri[q] # origPri[p]
=============================================================================
