-------------------------------- MODULE Proc --------------------------------
(***************************************************************************)
(* The scheduler of kern/proc.c: process creation and termination, the     *)
(* ready list, voluntary switches, preemption at the end of an interrupt,  *)
(* the preemption counter and priority changes.                            *)
(*                                                                         *)
(* There is one CPU.  Code that runs with interrupts disabled is one step; *)
(* code that runs with interrupts enabled is cut wherever it touches       *)
(* shared state, and interrupts may come in between.  cpu is the process   *)
(* whose stack the CPU executes on.  It differs from current_process while *)
(* a process exits and while proc_schedule() spins on an empty ready list. *)
(***************************************************************************)
EXTENDS PriList, FiniteSets

CONSTANTS
  Procs,     \* the process control blocks: main_process and the heap's slots
  Main,      \* main_process
  NoProc,    \* NULL
  Prios,     \* the priorities in use
  Quantum,   \* CONFIG_KERN_QUANTUM
  Preempt,   \* CONFIG_KERN_PREEMPT
  Calls,     \* the services the application calls
  Retarget,  \* <<p, q>> is here when p may call proc_setPri(q, _)
  MaxNest    \* the deepest nesting of proc_forbid() in the application

Services == {"yield", "forbid", "setpri", "new", "exit"}

ASSUME ProcsAssumption == Main \in Procs /\ NoProc \notin Procs
ASSUME PriosAssumption == Prios \subseteq Int /\ 0 \in Prios
ASSUME QuantumAssumption == Quantum \in Nat
ASSUME PreemptAssumption == Preempt \in BOOLEAN
ASSUME CallsAssumption == Calls \subseteq Services /\ Retarget \subseteq Procs \X Procs
ASSUME MaxNestAssumption == MaxNest \in Nat \ {0}

VARIABLES
  current,       \* current_process
  cpu,           \* the process whose stack is in use
  idle,          \* proc_schedule() is spinning on an empty ready list
  isr,           \* an interrupt is being served, its exit is due
  ready,         \* proc_ready_list
  zombies,       \* zombie_list
  pri,           \* Process.link.pri
  quantum,       \* _proc_quantum
  preemptCount,  \* preempt_count
  pc,            \* where each process is in its code
  cont,          \* where a proc_forbid() or proc_permit() returns to
  reg,           \* preempt_count as loaded in a register
  nest,          \* the proc_forbid() calls a process has yet to undo
  obj            \* the local variable proc of proc_new(), of proc_setPri()

vars == <<current, cpu, idle, isr, ready, zombies, pri, quantum, preemptCount,
          pc, cont, reg, nest, obj>>

schedVars == <<current, cpu, idle, ready, quantum>>
countVars == <<preemptCount, reg, nest>>

\* Nobody runs these: the slot is unused, or allocated and not yet started,
\* or its process has exited.
Dead == {"free", "alloc", "zombie"}

\* Places where a process has the given number of sections open.
OutsideLabels == {"user", "free_loop", "zomb_test", "new_init", "new_enq",
                  "reenqueue", "exit_switch"}
InsideLabels  == {"zomb_first", "zomb_rem", "zomb_free", "slot_find", "slot_take",
                  "exit_zombie", "exit_null"}
CountLabels   == {"forbid", "forbid_store", "permit", "permit_store"}
Labels == OutsideLabels \cup InsideLabels \cup CountLabels \cup {"crit"} \cup Dead

\* A process that was created and has not called proc_exit().
Live(p) == pc[p] \notin Dead

-----------------------------------------------------------------------------
(***************************************************************************)
(* Parts of steps: they set the scheduling variables.                      *)
(***************************************************************************)

\* proc_schedule(), with the ready list as given.
Schedule(list) ==
  IF list = <<>>
  THEN /\ current' = NoProc /\ idle' = TRUE
       /\ ready' = <<>>
       /\ UNCHANGED cpu
  ELSE /\ current' = Head(list) /\ cpu' = Head(list) /\ idle' = FALSE
       /\ ready' = Tail(list)

\* proc_switch(), called when preemption is allowed.
Switch == quantum' = Quantum /\ Schedule(ready)

\* Mutant of SwitchTo: the current process goes to the tail, unsorted.
SwitchToTail(proc, list) ==
  /\ ready' = Append(list, current)
  /\ quantum' = Quantum
  /\ current' = proc /\ cpu' = proc
  /\ UNCHANGED idle

\* proc_switchTo(proc), with proc already unlinked and the ready list as given.
SwitchTo(proc, list) ==
  /\ ready' = Enqueue(list, current, pri)
  /\ quantum' = Quantum
  /\ current' = proc /\ cpu' = proc
  /\ UNCHANGED idle

\* proc_wakeup(proc).
Wakeup(proc) ==
  IF pri[proc] >= pri[current]
  THEN SwitchTo(proc, ready)
  ELSE /\ ready' = EnqueueHead(ready, proc, pri)
       /\ UNCHANGED <<current, cpu, idle, quantum>>

\* proc_preemptAllowed().
PreemptAllowed == Preempt => preemptCount = 0

\* Mutants of NeedPreempt: the counter is not looked at; nobody is preempted
\* before the quantum is over.
NeedPreemptNoCount ==
  /\ current # NoProc
  /\ ready # <<>>
  /\ IF quantum > 0 THEN pri[Head(ready)] > pri[current]
                    ELSE pri[Head(ready)] >= pri[current]
NeedPreemptLate ==
  /\ current # NoProc
  /\ PreemptAllowed
  /\ ready # <<>>
  /\ quantum = 0
  /\ pri[Head(ready)] >= pri[current]

\* proc_needPreempt().
NeedPreempt ==
  /\ current # NoProc
  /\ PreemptAllowed
  /\ ready # <<>>
  /\ IF quantum > 0 THEN pri[Head(ready)] > pri[current]
                    ELSE pri[Head(ready)] >= pri[current]

\* Mutant of PreemptCurrent: the preempted process is the first of its equals.
PreemptCurrentHead ==
  /\ quantum' = Quantum
  /\ Schedule(EnqueueHead(ready, current, pri))

\* proc_preempt().
PreemptCurrent ==
  /\ quantum' = Quantum
  /\ Schedule(Enqueue(ready, current, pri))

-----------------------------------------------------------------------------
(***************************************************************************)
(* The CPU executes p's code and p is at the given place.                  *)
(***************************************************************************)
At(p, label) == cpu = p /\ ~idle /\ ~isr /\ pc[p] = label

Goto(p, label) == pc' = [pc EXCEPT ![p] = label]

\* Call proc_forbid() or proc_permit() and go on at the place next.
CallCount(p, which, next) ==
  /\ pc' = [pc EXCEPT ![p] = which]
  /\ cont' = [cont EXCEPT ![p] = next]

(***************************************************************************)
(* proc_forbid() and proc_permit(): ++preempt_count and --preempt_count    *)
(* are a load and a store.  Without CONFIG_KERN_PREEMPT both are empty.    *)
(* (reg and cont are set back once they are dead.)                         *)
(***************************************************************************)
CountLoad(p) ==
  /\ \/ At(p, "forbid") /\ Goto(p, "forbid_store")
     \/ At(p, "permit") /\ Goto(p, "permit_store")
  /\ reg' = [reg EXCEPT ![p] = preemptCount]
  /\ UNCHANGED <<schedVars, isr, zombies, pri, preemptCount, cont, nest, obj>>

ForbidStore(p) ==
  /\ At(p, "forbid_store")
  /\ preemptCount' = IF Preempt THEN reg[p] + 1 ELSE preemptCount
  /\ nest' = [nest EXCEPT ![p] = @ + 1]
  /\ reg' = [reg EXCEPT ![p] = 0]
  /\ pc' = [pc EXCEPT ![p] = cont[p]]
  /\ cont' = [cont EXCEPT ![p] = "user"]
  /\ UNCHANGED <<schedVars, isr, zombies, pri, obj>>

PermitStore(p) ==
  /\ At(p, "permit_store")
  /\ preemptCount' = IF Preempt THEN reg[p] - 1 ELSE preemptCount
  /\ nest' = [nest EXCEPT ![p] = @ - 1]
  /\ reg' = [reg EXCEPT ![p] = 0]
  /\ pc' = [pc EXCEPT ![p] = cont[p]]
  /\ cont' = [cont EXCEPT ![p] = "user"]
  /\ UNCHANGED <<schedVars, isr, zombies, pri, obj>>

\* The application opens a section, possibly within another one.
AppForbid(p) ==
  /\ "forbid" \in Calls
  /\ At(p, "user") \/ At(p, "crit")
  /\ nest[p] < MaxNest
  /\ CallCount(p, "forbid", "crit")
  /\ UNCHANGED <<schedVars, isr, zombies, pri, countVars, obj>>

\* The application closes its innermost section.
AppPermit(p) ==
  /\ At(p, "crit")
  /\ CallCount(p, "permit", IF nest[p] = 1 THEN "user" ELSE "crit")
  /\ UNCHANGED <<schedVars, isr, zombies, pri, countVars, obj>>

-----------------------------------------------------------------------------
\* proc_yield(): the head of the ready list runs, whatever its priority.
Yield(p) ==
  /\ "yield" \in Calls
  /\ At(p, "user")
  /\ ready # <<>>
  /\ SwitchTo(Head(ready), Tail(ready))
  /\ UNCHANGED <<isr, zombies, pri, countVars, pc, cont, obj>>

(***************************************************************************)
(* proc_setPri(q, v): the node's priority is stored with interrupts        *)
(* enabled, and the node put back in its place in a second step.           *)
(***************************************************************************)
SetPri(p, q, v) ==
  /\ "setpri" \in Calls
  /\ <<p, q>> \in Retarget
  /\ At(p, "user")
  /\ Live(q)
  /\ pri[q] # v
  /\ pri' = [pri EXCEPT ![q] = v]
  /\ IF q = current
     THEN UNCHANGED <<pc, obj>>
     ELSE Goto(p, "reenqueue") /\ obj' = [obj EXCEPT ![p] = q]
  /\ UNCHANGED <<schedVars, isr, zombies, countVars, cont>>

\* Mutant of Reenqueue: the process is inserted even if it was not listed.
ReenqueueAlways(p) ==
  LET q == obj[p]
      rest == IF Contains(ready, q) THEN Unlink(ready, q) ELSE ready
  IN
  /\ At(p, "reenqueue")
  /\ ready' = Enqueue(rest, q, pri)
  /\ Goto(p, "user")
  /\ obj' = [obj EXCEPT ![p] = NoProc]
  /\ UNCHANGED <<current, cpu, idle, quantum, isr, zombies, pri, countVars, cont>>

\* sched_reenqueue(): nothing happens when q is not in the ready list.
Reenqueue(p) ==
  LET q == obj[p] IN
  /\ At(p, "reenqueue")
  /\ ready' = IF Contains(ready, q) THEN Enqueue(Unlink(ready, q), q, pri) ELSE ready
  /\ Goto(p, "user")
  /\ obj' = [obj EXCEPT ![p] = NoProc]
  /\ UNCHANGED <<current, cpu, idle, quantum, isr, zombies, pri, countVars, cont>>

-----------------------------------------------------------------------------
(***************************************************************************)
(* proc_new(): first proc_freeZombies(), then the allocation of the stack  *)
(* that also holds the control block, its initialisation and the insertion *)
(* in the ready list.                                                      *)
(***************************************************************************)
New(p) ==
  /\ "new" \in Calls
  /\ At(p, "user")
  /\ CallCount(p, "forbid", "zomb_first")
  /\ UNCHANGED <<schedVars, isr, zombies, pri, countVars, obj>>

\* while (1) in proc_freeZombies().
FreeLoop(p) ==
  /\ At(p, "free_loop")
  /\ CallCount(p, "forbid", "zomb_first")
  /\ UNCHANGED <<schedVars, isr, zombies, pri, countVars, obj>>

\* PROC_ATOMIC(proc = list_remHead(&zombie_list)): find the first node,
\* then unlink it.
FirstZombie(p) ==
  /\ At(p, "zomb_first")
  /\ IF zombies = <<>>
     THEN /\ CallCount(p, "permit", "zomb_test")
          /\ obj' = [obj EXCEPT ![p] = NoProc]
     ELSE /\ Goto(p, "zomb_rem") /\ UNCHANGED cont
          /\ obj' = [obj EXCEPT ![p] = Head(zombies)]
  /\ UNCHANGED <<schedVars, isr, zombies, pri, countVars>>

RemZombie(p) ==
  /\ At(p, "zomb_rem")
  /\ zombies' = IF zombies = <<>> THEN <<>> ELSE Tail(zombies)
  /\ CallCount(p, "permit", "zomb_test")
  /\ UNCHANGED <<schedVars, isr, pri, countVars, obj>>

\* Mutant of ZombieTest: the heap is used without proc_forbid().
ZombieTestUnprotected(p) ==
  /\ At(p, "zomb_test")
  /\ CASE obj[p] = NoProc -> Goto(p, "slot_find") /\ UNCHANGED cont
       [] obj[p] = Main   -> Goto(p, "free_loop") /\ UNCHANGED cont
       [] OTHER           -> CallCount(p, "forbid", "zomb_free")
  /\ UNCHANGED <<schedVars, isr, zombies, pri, countVars, obj>>

\* The list is empty: go and allocate.  Only heap stacks (PF_FREESTACK) are
\* freed: main's is not.
ZombieTest(p) ==
  /\ At(p, "zomb_test")
  /\ CASE obj[p] = NoProc -> CallCount(p, "forbid", "slot_find")
       [] obj[p] = Main   -> Goto(p, "free_loop") /\ UNCHANGED cont
       [] OTHER           -> CallCount(p, "forbid", "zomb_free")
  /\ UNCHANGED <<schedVars, isr, zombies, pri, countVars, obj>>

\* PROC_ATOMIC(heap_freemem(...)).
FreeZombie(p) ==
  /\ At(p, "zomb_free")
  /\ pc' = [pc EXCEPT ![p] = "permit", ![obj[p]] = "free"]
  /\ cont' = [cont EXCEPT ![p] = "free_loop"]
  /\ obj' = [obj EXCEPT ![p] = NoProc]
  /\ UNCHANGED <<schedVars, isr, zombies, pri, countVars>>

\* PROC_ATOMIC(stack_base = heap_allocmem(...)), which may find no memory:
\* find a free block, then take it.
FindSlot(p) ==
  /\ At(p, "slot_find")
  /\ \/ /\ \A q \in Procs : pc[q] # "free"
        /\ CallCount(p, "permit", "user")
        /\ UNCHANGED obj
     \/ \E q \in Procs :
          /\ pc[q] = "free"
          /\ Goto(p, "slot_take") /\ UNCHANGED cont
          /\ obj' = [obj EXCEPT ![p] = q]
  /\ UNCHANGED <<schedVars, isr, zombies, pri, countVars>>

TakeSlot(p) ==
  /\ At(p, "slot_take")
  /\ pc' = [pc EXCEPT ![p] = "permit", ![obj[p]] = "alloc"]
  /\ cont' = [cont EXCEPT ![p] = "new_init"]
  /\ UNCHANGED <<schedVars, isr, zombies, pri, countVars, obj>>

\* proc_initStruct() and the rest of the control block.
InitStruct(p) ==
  /\ At(p, "new_init")
  /\ pri' = [pri EXCEPT ![obj[p]] = 0]
  /\ Goto(p, "new_enq")
  /\ UNCHANGED <<schedVars, isr, zombies, countVars, cont, obj>>

\* ATOMIC(SCHED_ENQUEUE(proc)).
EnqueueNew(p) ==
  /\ At(p, "new_enq")
  /\ ready' = Enqueue(ready, obj[p], pri)
  /\ pc' = [pc EXCEPT ![p] = "user", ![obj[p]] = "user"]
  /\ obj' = [obj EXCEPT ![p] = NoProc]
  /\ UNCHANGED <<current, cpu, idle, quantum, isr, zombies, pri, countVars, cont>>

-----------------------------------------------------------------------------
\* Mutant of Exit: the process becomes a zombie without proc_forbid().
ExitUnprotected(p) ==
  /\ "exit" \in Calls
  /\ At(p, "user")
  /\ Goto(p, "exit_zombie")
  /\ UNCHANGED <<schedVars, isr, zombies, pri, countVars, cont, obj>>

\* proc_exit(): the process goes to the zombie list while it still runs.
Exit(p) ==
  /\ "exit" \in Calls
  /\ At(p, "user")
  /\ CallCount(p, "forbid", "exit_zombie")
  /\ UNCHANGED <<schedVars, isr, zombies, pri, countVars, obj>>

\* proc_addZombie(current_process).
AddZombie(p) ==
  /\ At(p, "exit_zombie")
  /\ zombies' = Append(zombies, current)
  /\ Goto(p, "exit_null")
  /\ UNCHANGED <<schedVars, isr, pri, countVars, cont, obj>>

\* current_process = NULL; proc_permit().
ClearCurrent(p) ==
  /\ At(p, "exit_null")
  /\ current' = NoProc
  /\ CallCount(p, "permit", "exit_switch")
  /\ UNCHANGED <<cpu, idle, ready, quantum, isr, zombies, pri, countVars, obj>>

\* proc_switch(), which never returns.
ExitSwitch(p) ==
  /\ At(p, "exit_switch")
  /\ Switch
  /\ Goto(p, "zombie")
  /\ UNCHANGED <<isr, zombies, pri, countVars, cont, obj>>

-----------------------------------------------------------------------------
(***************************************************************************)
(* The loop of proc_schedule() finds a process that an interrupt made      *)
(* ready.  Nothing in this module does that once the last process has      *)
(* exited: the step belongs to the modules whose interrupts awaken         *)
(* processes.                                                              *)
(***************************************************************************)
IdleLoop ==
  /\ idle /\ ~isr
  /\ ready # <<>>
  /\ Schedule(ready)
  /\ UNCHANGED <<quantum, isr, zombies, pri, countVars, pc, cont, obj>>

\* Mutant of Tick: the quantum is decremented without looking at it.
TickUnder ==
  /\ ~isr
  /\ isr' = TRUE
  /\ quantum' = quantum - 1
  /\ UNCHANGED <<current, cpu, idle, ready, zombies, pri, countVars, pc, cont, obj>>

\* The timer interrupt: proc_decQuantum().
Tick ==
  /\ ~isr
  /\ isr' = TRUE
  /\ quantum' = IF Preempt /\ quantum > 0 THEN quantum - 1 ELSE quantum
  /\ UNCHANGED <<current, cpu, idle, ready, zombies, pri, countVars, pc, cont, obj>>

\* The end of an interrupt: IRQ_PREEMPT_HANDLER().
IsrExit ==
  /\ isr
  /\ isr' = FALSE
  /\ IF Preempt /\ NeedPreempt THEN PreemptCurrent ELSE UNCHANGED schedVars
  /\ UNCHANGED <<zombies, pri, countVars, pc, cont, obj>>

-----------------------------------------------------------------------------
\* Main runs, the processes of list are ready.  _proc_quantum is in .bss: the
\* first slice is empty.
Started(list, prios) ==
  /\ current = Main /\ cpu = Main /\ idle = FALSE /\ isr = FALSE
  /\ ready = list /\ zombies = <<>>
  /\ pri = prios
  /\ quantum = 0
  /\ preemptCount = 0
  /\ pc = [p \in Procs |-> IF p = Main \/ Contains(list, p) THEN "user" ELSE "free"]
  /\ cont = [p \in Procs |-> "user"]
  /\ reg = [p \in Procs |-> 0]
  /\ nest = [p \in Procs |-> 0]
  /\ obj = [p \in Procs |-> NoProc]

\* proc_init(): main is the only process.
Init == Started(<<>>, [p \in Procs |-> 0])

\* What a process does between two of its own decisions.
Continue(p) ==
  \/ CountLoad(p) \/ ForbidStore(p) \/ PermitStore(p) \/ AppPermit(p)
  \/ Reenqueue(p)
  \/ FreeLoop(p) \/ FirstZombie(p) \/ RemZombie(p) \/ ZombieTest(p) \/ FreeZombie(p)
  \/ FindSlot(p) \/ TakeSlot(p) \/ InitStruct(p) \/ EnqueueNew(p)
  \/ AddZombie(p) \/ ClearCurrent(p) \/ ExitSwitch(p)

\* What the application decides.
Decide(p) ==
  \/ AppForbid(p) \/ Yield(p) \/ New(p) \/ Exit(p)
  \/ \E q \in Procs, v \in Prios : SetPri(p, q, v)

Next ==
  \/ \E p \in Procs : Continue(p) \/ Decide(p)
  \/ Tick \/ IsrExit

Spec == Init /\ [][Next]_vars

(***************************************************************************)
(* Fairness.  Every interrupt ends, and interrupts leave the CPU time to   *)
(* execute the program.  The timer keeps ticking, and, not being           *)
(* synchronised with the program, does not always hit a section that       *)
(* forbids preemption.                                                     *)
(***************************************************************************)
Fairness ==
  /\ WF_vars(IsrExit)
  /\ SF_vars(\E p \in Procs : Continue(p))
  /\ SF_vars(Tick /\ PreemptAllowed)

FairSpec == Spec /\ Fairness

-----------------------------------------------------------------------------
(***************************************************************************)
(* The values of the variables.                                            *)
(***************************************************************************)
TypeOK ==
  /\ current \in Procs \cup {NoProc} /\ cpu \in Procs
  /\ idle \in BOOLEAN /\ isr \in BOOLEAN
  /\ ready \in Seq(Procs) /\ zombies \in Seq(Procs)
  /\ pri \in [Procs -> Int]
  /\ quantum \in 0..Quantum
  /\ preemptCount \in Int
  /\ pc \in [Procs -> Labels] /\ cont \in [Procs -> Labels]
  /\ reg \in [Procs -> Int] /\ nest \in [Procs -> Int]
  /\ obj \in [Procs -> Procs \cup {NoProc}]

\* proc.h:296-317 argues that ++preempt_count needs no protection: whatever
\* the preemptions between the load and the store, the counter is the number
\* of sections the running process has open, nobody who was switched out has
\* one open, and a value held in a register is the one in memory.
PreemptCountExact ==
  /\ preemptCount = IF Preempt THEN nest[cpu] ELSE 0
  /\ Preempt => \A p \in Procs \ {cpu} : nest[p] = 0
  /\ pc[cpu] \in {"forbid_store", "permit_store"} => reg[cpu] = preemptCount

\* Each process is in one place: no process is lost by a switch, none is on
\* two lists through its one link node, and none runs while it is listed.
\* (proc_addZombie() lists the exiting process just before current_process
\* is cleared.)
OnePlace ==
  /\ NoDup(ready) /\ NoDup(zombies)
  /\ \A p \in Procs : Contains(ready, p) => Live(p) /\ p # current
  /\ \A p \in Procs : Live(p) /\ p # cpu => Contains(ready, p)
  /\ ~Contains(ready, cpu)
  /\ \A p \in Procs : Contains(zombies, p) =>
       pc[p] = "zombie" \/ (p = cpu /\ pc[p] \in CountLabels \cup {"exit_null", "exit_switch"})

\* The stack the CPU runs on is neither freed nor given to a new process: an
\* exiting process is a zombie while it still executes, and proc_schedule()
\* may idle on its stack for long.
StackInUse == pc[cpu] \notin {"free", "alloc"}

\* Two concurrent proc_new() never free or initialise the same block.
BlocksDistinct ==
  \A p, q \in Procs :
    /\ p # q /\ obj[p] # NoProc /\ obj[p] = obj[q]
    => {pc[p], pc[q]} \cap {"reenqueue"} # {}

\* proc.c:67: the priority defines the order in the ready list, but for a
\* node whose proc_setPri() has yet to put it in its place.
ReadySorted == (\A p \in Procs : pc[p] # "reenqueue") => Sorted(ready, pri)

\* A section opened by proc_forbid() is never interrupted by another process.
SectionNotPreempted == [][Preempt /\ nest[cpu] > 0 => cpu' = cpu]_vars

\* proc.c:71, 434: at the end of every interrupt no ready process has a higher
\* priority than the one that goes on running.
HighestRuns ==
  [][isr /\ ~isr' /\ Preempt /\ PreemptAllowed /\ current # NoProc =>
       \A p \in Procs : Contains(ready', p) => pri[current'] >= pri[p]]_vars

\* proc.c:435: processes of equal priority share the CPU in turn: each gets it,
\* unless one of a higher priority appears meanwhile.
RoundRobin ==
  \A p \in Procs :
    Contains(ready, p) ~> current = p \/ \E q \in Procs : Live(q) /\ pri[q] > pri[p]
=============================================================================
