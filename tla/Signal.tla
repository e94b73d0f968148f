------------------------------- MODULE Signal -------------------------------
(***************************************************************************)
(* Inter-process signals, kern/signal.c: processes sleep in sig_wait(),    *)
(* and are awakened by sig_send() and sig_post() of other processes and by *)
(* sig_post() of interrupt handlers, on top of the scheduler of Proc; and  *)
(* sig_waitTimeout(), with the queue of soft timers of drv/timer.c that    *)
(* the tick interrupt serves.                                              *)
(*                                                                         *)
(* The application has created its processes and given them priorities     *)
(* when the model starts.                                                  *)
(***************************************************************************)
EXTENDS Proc

CONSTANTS
  Sigs,       \* signal bits
  SigTimeout, \* SIG_TIMEOUT, which only timers send
  Delays,     \* the timeouts in use, in ticks
  InitReady,  \* the ready list and the priorities after start-up
  InitPri

ASSUME DelaysAssumption == Delays \subseteq Nat /\ SigTimeout \in Sigs
ASSUME StartAssumption ==
  /\ InitPri \in [Procs -> Int]
  /\ InitReady \in Seq(Procs \ {Main})
  /\ NoDup(InitReady) /\ Sorted(InitReady, InitPri)

VARIABLES
  recv,   \* Process.sig.recv
  wait,   \* Process.sig.wait
  mask,   \* the argument sigs of a sig_wait() or sig_check() in progress
  timers, \* timers_queue: the processes whose timer is in it
  due     \* Timer.tick - _clock of the timer of a process in timers

timerVars == <<timers, due>>
sigVars == <<recv, wait, mask, timerVars>>
allVars == <<vars, sigVars>>

\* sig_wait() goes on here, with interrupts disabled, when proc_switch() returns.
SigLabels == {"sig_resume"}

\* The call has been made and its section with interrupts disabled is yet to
\* come: sig_wait(), sig_check(), sig_waitTimeout() after a sig_wait() that
\* returned without SIG_TIMEOUT, and its sig_check(SIG_TIMEOUT).
CallLabels == {"sig_wait", "sig_check", "timeout_check", "timeout_poll"}

Waiting(p) == wait[p] # {}

\* Interrupts are enabled in the idle loop and everywhere outside sig_wait().
IrqEnabled == idle \/ pc[cpu] \notin SigLabels

-----------------------------------------------------------------------------
\* Call sig_wait(sigs) or sig_check(sigs).
CallWith(p, which, sigs) ==
  /\ mask' = [mask EXCEPT ![p] = sigs]
  /\ Goto(p, which)

\* Where a process goes on when its sig_wait() returns: a sig_waitTimeout() that
\* was not ended by its timer has still to look after it.
Return(p) == IF SigTimeout \in mask[p] \ recv[p] THEN "timeout_check" ELSE "user"

\* Take the signals asked for and return to the place next.
TakeAsked(p, next) ==
  /\ recv' = [recv EXCEPT ![p] = @ \ mask[p]]
  /\ mask' = [mask EXCEPT ![p] = {}]
  /\ Goto(p, next)

\* Tell the others what is waited for, and sleep.
Sleep(p) ==
  /\ wait' = [wait EXCEPT ![p] = mask[p]]
  /\ Goto(p, "sig_resume")
  /\ Switch
  /\ UNCHANGED <<recv, mask>>

\* sig_wait(sigs).
SigWait(p, sigs) ==
  /\ At(p, "user")
  /\ CallWith(p, "sig_wait", sigs)
  /\ UNCHANGED <<recv, wait, timerVars, schedVars, isr, zombies, pri, countVars, cont, obj>>

\* Mutants of WaitLoop: sig_wait() sleeps without looking at recv first; it
\* clears all the signals when it does not have to sleep.
WaitLoopBlind(p) ==
  /\ At(p, "sig_wait") \/ At(p, "sig_resume")
  /\ IF recv[p] \cap mask[p] # {} /\ pc[p] = "sig_resume"
     THEN TakeAsked(p, Return(p)) /\ UNCHANGED <<wait, schedVars>>
     ELSE Sleep(p)
  /\ UNCHANGED <<timerVars, isr, zombies, pri, countVars, cont, obj>>
WaitLoopClear(p) ==
  /\ At(p, "sig_wait") \/ At(p, "sig_resume")
  /\ IF recv[p] \cap mask[p] # {}
     THEN /\ recv' = [recv EXCEPT ![p] = IF pc[p] = "sig_wait" THEN {} ELSE @ \ mask[p]]
          /\ mask' = [mask EXCEPT ![p] = {}]
          /\ Goto(p, Return(p))
          /\ UNCHANGED <<wait, schedVars>>
     ELSE Sleep(p)
  /\ UNCHANGED <<timerVars, isr, zombies, pri, countVars, cont, obj>>

\* The loop of sig_wait(), at its first test and when proc_switch() returns:
\* return the signals that came, or sleep.
WaitLoop(p) ==
  /\ At(p, "sig_wait") \/ At(p, "sig_resume")
  /\ IF recv[p] \cap mask[p] # {}
     THEN TakeAsked(p, Return(p)) /\ UNCHANGED <<wait, schedVars>>
     ELSE Sleep(p)
  /\ UNCHANGED <<timerVars, isr, zombies, pri, countVars, cont, obj>>

\* sig_check(sigs).
SigCheck(p, sigs) ==
  /\ At(p, "user")
  /\ CallWith(p, "sig_check", sigs)
  /\ UNCHANGED <<recv, wait, timerVars, schedVars, isr, zombies, pri, countVars, cont, obj>>

\* It clears what it returns, which may be nothing.
CheckSignal(p) ==
  /\ At(p, "sig_check")
  /\ TakeAsked(p, "user")
  /\ UNCHANGED <<wait, timerVars, schedVars, isr, zombies, pri, countVars, cont, obj>>

\* Mutants of Deliver: wait is left as it is; the pending signals are replaced;
\* the signals are looked at before they are set.
DeliverKeepWait(q, sigs, wakeup) ==
  /\ recv' = [recv EXCEPT ![q] = @ \cup sigs]
  /\ IF (recv[q] \cup sigs) \cap wait[q] # {}
     THEN IF wakeup
          THEN Wakeup(q)
          ELSE /\ ready' = EnqueueHead(ready, q, pri)
               /\ UNCHANGED <<current, cpu, idle, quantum>>
     ELSE UNCHANGED schedVars
  /\ UNCHANGED wait
DeliverOverwrite(q, sigs, wakeup) ==
  /\ recv' = [recv EXCEPT ![q] = sigs]
  /\ IF sigs \cap wait[q] # {}
     THEN /\ wait' = [wait EXCEPT ![q] = {}]
          /\ IF wakeup
             THEN Wakeup(q)
             ELSE /\ ready' = EnqueueHead(ready, q, pri)
                  /\ UNCHANGED <<current, cpu, idle, quantum>>
     ELSE UNCHANGED <<wait, schedVars>>
DeliverEarly(q, sigs, wakeup) ==
  /\ recv' = [recv EXCEPT ![q] = @ \cup sigs]
  /\ IF recv[q] \cap wait[q] # {}
     THEN /\ wait' = [wait EXCEPT ![q] = {}]
          /\ IF wakeup
             THEN Wakeup(q)
             ELSE /\ ready' = EnqueueHead(ready, q, pri)
                  /\ UNCHANGED <<current, cpu, idle, quantum>>
     ELSE UNCHANGED <<wait, schedVars>>

\* __sig_signal(): set the bits; a process waiting for one of them goes on.
Deliver(q, sigs, wakeup) ==
  /\ recv' = [recv EXCEPT ![q] = @ \cup sigs]
  /\ IF (recv[q] \cup sigs) \cap wait[q] # {}
     THEN /\ wait' = [wait EXCEPT ![q] = {}]
          /\ IF wakeup
             THEN Wakeup(q)
             ELSE /\ ready' = EnqueueHead(ready, q, pri)
                  /\ UNCHANGED <<current, cpu, idle, quantum>>
     ELSE UNCHANGED <<wait, schedVars>>

\* sig_send(q, sigs), which asserts that preemption is allowed.
SigSend(p, q, sigs) ==
  /\ At(p, "user")
  /\ Live(q)
  /\ Deliver(q, sigs, TRUE)
  /\ UNCHANGED <<timerVars, mask, isr, zombies, pri, countVars, pc, cont, obj>>

\* sig_post(q, sigs) called by a process, also with preemption forbidden.
SigPost(p, q, sigs) ==
  /\ At(p, "user") \/ At(p, "crit")
  /\ Live(q)
  /\ Deliver(q, sigs, FALSE)
  /\ UNCHANGED <<timerVars, mask, isr, zombies, pri, countVars, pc, cont, obj>>

\* sig_post(q, sigs) called by an interrupt handler.
IsrPost(q, sigs) ==
  /\ IrqEnabled
  /\ Live(q)
  /\ Deliver(q, sigs, FALSE)
  /\ isr' = TRUE
  /\ UNCHANGED <<timerVars, mask, zombies, pri, countVars, pc, cont, obj>>

-----------------------------------------------------------------------------
\* Mutant of ProcStep: proc_initStruct() leaves the signals as they are.
ProcStepKeep(p) ==
  /\ Continue(p) \/ Decide(p)
  /\ UNCHANGED sigVars

\* A step of proc.c; proc_initStruct() also clears the signals.
ProcStep(p) ==
  /\ Continue(p) \/ Decide(p)
  /\ IF pc[p] = "new_init"
     THEN /\ recv' = [recv EXCEPT ![obj[p]] = {}]
          /\ wait' = [wait EXCEPT ![obj[p]] = {}]
     ELSE UNCHANGED <<recv, wait>>
  /\ UNCHANGED <<mask, timerVars>>

-----------------------------------------------------------------------------
\* timer_add() puts the timer, which lives in the stack frame of p's call, behind
\* those that expire no later.
TimerAdd(p, delay) ==
  LET tick == [due EXCEPT ![p] = delay] IN
  /\ due' = tick
  /\ timers' = Enqueue(timers, p, [q \in Procs |-> -tick[q]])

\* timer_abort().
TimerAbort(p) ==
  /\ timers' = Unlink(timers, p)
  /\ due' = [due EXCEPT ![p] = 0]

\* sig_waitTimeout(sigs, delay): the timer is started and sig_wait() called for
\* the signals and the timeout.
WaitTimeout(p, sigs, delay) ==
  /\ At(p, "user")
  /\ TimerAdd(p, delay)
  /\ CallWith(p, "sig_wait", sigs \cup {SigTimeout})
  /\ UNCHANGED <<recv, wait, schedVars, isr, zombies, pri, countVars, cont, obj>>

\* Other signals ended the wait: sig_check(SIG_TIMEOUT).
TimeoutCheck(p) ==
  /\ At(p, "timeout_check")
  /\ CallWith(p, "timeout_poll", {SigTimeout})
  /\ UNCHANGED <<recv, wait, timerVars, schedVars, isr, zombies, pri, countVars, cont, obj>>

\* Mutant of TimeoutPoll: the timer is left in its queue.
TimeoutPollOnly(p) ==
  /\ At(p, "timeout_poll")
  /\ TakeAsked(p, "user")
  /\ UNCHANGED <<wait, timerVars, schedVars, isr, zombies, pri, countVars, cont, obj>>

\* Take the SIG_TIMEOUT that the timer has sent since, or the timer from its
\* queue.
TimeoutPoll(p) ==
  /\ At(p, "timeout_poll")
  /\ IF SigTimeout \in recv[p]
     THEN UNCHANGED timerVars
     ELSE TimerAbort(p)
  /\ TakeAsked(p, "user")
  /\ UNCHANGED <<wait, schedVars, isr, zombies, pri, countVars, cont, obj>>

\* sig_post() puts those in woken, of the processes in nodes, one after the other
\* in the ready list.
EnqueueWoken(list, nodes, woken) ==
  LET after[n \in 0..Len(nodes)] ==
        IF n = 0 THEN list
        ELSE IF nodes[n] \in woken THEN EnqueueHead(after[n - 1], nodes[n], pri)
        ELSE after[n - 1]
  IN after[Len(nodes)]

\* timer_poll() one tick later: it serves the timers at the head of the queue
\* up to the first that has not expired, each with a sig_post(SIG_TIMEOUT).
TimerPoll ==
  LET left    == WalkUntil(timers, LAMBDA p : due[p] > 1)
      expired == SubSeq(timers, 1, left - 1)
      woken   == {p \in Procs : /\ Contains(expired, p)
                                /\ (recv[p] \cup {SigTimeout}) \cap wait[p] # {}}
  IN
  /\ timers' = SubSeq(timers, left, Len(timers))
  /\ due' = [p \in Procs |-> IF Contains(timers', p) THEN due[p] - 1 ELSE 0]
  /\ recv' = [p \in Procs |-> IF Contains(expired, p) THEN recv[p] \cup {SigTimeout} ELSE recv[p]]
  /\ wait' = [p \in Procs |-> IF p \in woken THEN {} ELSE wait[p]]
  /\ ready' = EnqueueWoken(ready, expired, woken)
  /\ UNCHANGED <<current, cpu, idle>>

\* Mutant of SigTick: the quantum is decremented without looking at it.
SigTickUnder ==
  /\ IrqEnabled /\ ~isr
  /\ isr' = TRUE
  /\ quantum' = quantum - 1
  /\ TimerPoll
  /\ UNCHANGED <<mask, zombies, pri, countVars, pc, cont, obj>>

\* The timer interrupt: the clock, the quantum, the timers.
SigTick ==
  /\ IrqEnabled /\ ~isr
  /\ isr' = TRUE
  /\ quantum' = IF Preempt /\ quantum > 0 THEN quantum - 1 ELSE quantum
  /\ TimerPoll
  /\ UNCHANGED <<mask, zombies, pri, countVars, pc, cont, obj>>

SigIsrExit == IsrExit /\ UNCHANGED sigVars
SigIdleLoop == IdleLoop /\ UNCHANGED sigVars

SigInit ==
  /\ Started(InitReady, InitPri)
  /\ recv = [p \in Procs |-> {}]
  /\ wait = [p \in Procs |-> {}]
  /\ mask = [p \in Procs |-> {}]
  /\ timers = <<>>
  /\ due = [p \in Procs |-> 0]

\* What the application waits for and sends.
Masks == (SUBSET (Sigs \ {SigTimeout})) \ {{}}

SigNext ==
  \/ \E p \in Procs :
       \/ ProcStep(p)
       \/ WaitLoop(p) \/ CheckSignal(p) \/ TimeoutCheck(p) \/ TimeoutPoll(p)
       \/ \E sigs \in Masks :
            \/ SigWait(p, sigs) \/ SigCheck(p, sigs)
            \/ \E delay \in Delays : WaitTimeout(p, sigs, delay)
            \/ \E q \in Procs : SigSend(p, q, sigs) \/ SigPost(p, q, sigs)
  \/ \E q \in Procs, sigs \in Masks : IsrPost(q, sigs)
  \/ SigIdleLoop \/ SigTick \/ SigIsrExit

SigSpec == SigInit /\ [][SigNext]_allVars

\* As in Proc: interrupts end, and leave the program time to execute.
SigFairness ==
  /\ WF_allVars(SigIsrExit)
  /\ SF_allVars(SigIdleLoop)
  /\ SF_allVars(\E p \in Procs :
                  \/ WaitLoop(p) \/ CheckSignal(p) \/ TimeoutCheck(p) \/ TimeoutPoll(p)
                  \/ Continue(p) /\ ProcStep(p))
  /\ SF_allVars(SigTick /\ PreemptAllowed)

SigFairSpec == SigSpec /\ SigFairness

-----------------------------------------------------------------------------
SigTypeOK ==
  /\ current \in Procs \cup {NoProc} /\ cpu \in Procs
  /\ idle \in BOOLEAN /\ isr \in BOOLEAN
  /\ ready \in Seq(Procs) /\ zombies \in Seq(Procs)
  /\ pri \in [Procs -> Int]
  /\ quantum \in 0..Quantum
  /\ preemptCount \in Int
  /\ pc \in [Procs -> Labels \cup SigLabels \cup CallLabels] /\ cont \in [Procs -> Labels]
  /\ reg \in [Procs -> Int] /\ nest \in [Procs -> Int]
  /\ obj \in [Procs -> Procs \cup {NoProc}]
  /\ recv \in [Procs -> SUBSET Sigs]
  /\ wait \in [Procs -> SUBSET Sigs]
  /\ mask \in [Procs -> SUBSET Sigs]
  /\ timers \in Seq(Procs)
  /\ due \in [Procs -> UNION {0..d : d \in Delays \cup {0}}]

\* signal.c:152-160: a process never sleeps with a signal it waits for already
\* pending, and one that was awakened finds such a signal (the assertions of
\* sig_wait(), signal.c:180-181).
NoLostWakeup ==
  \A p \in Procs :
    /\ recv[p] \cap wait[p] = {}
    /\ pc[p] = "sig_resume" /\ ~Waiting(p) => recv[p] \cap mask[p] # {}
    /\ Waiting(p) => pc[p] = "sig_resume" /\ wait[p] = mask[p]

\* A process sleeps, is ready or runs, never two of them: one signal awakens
\* it once, whoever sends it, and the process that runs is never awakened
\* (the assertion of __sig_signal(), signal.c:237).  The CPU idles only while
\* all of them sleep, but for the instant between the interrupt that makes one
\* ready and the loop that finds it.
OnePlaceSig ==
  /\ NoDup(ready)
  /\ \A p \in Procs : Contains(ready, p) => Live(p) /\ p # current /\ ~Waiting(p)
  /\ \A p \in Procs : Waiting(p) => p # current
  /\ \A p \in Procs : Live(p) /\ p # current /\ ~Waiting(p) =>
       Contains(ready, p) \/ (p = cpu /\ ~idle)
  /\ idle => current = NoProc

\* proc.c:372: a process starts with no signals pending, whatever was sent to
\* the one whose control block it uses, up to its last instruction.
StartsUnsignalled ==
  [][\A p \in Procs : ~Live(p) /\ Live(p)' => recv'[p] = {} /\ wait'[p] = {}]_allVars

\* signal.c:215-219: the race of a signal and its timeout.  A timer is in the
\* queue exactly while its stack frame exists and it has not sent SIG_TIMEOUT:
\* timer_abort() finds it there, no dead frame is listed, none outlives its
\* tick, and no SIG_TIMEOUT is left for the next wait (the assertion of
\* sig_waitTimeout(), signal.c:202).
TimersArmed ==
  /\ NoDup(timers)
  /\ \A p \in Procs :
       LET timed == pc[p] = "timeout_check" \/ SigTimeout \in mask[p] IN
       /\ Contains(timers, p) <=> timed /\ SigTimeout \notin recv[p]
       /\ SigTimeout \in recv[p] => timed
       /\ Contains(timers, p) /\ 0 \notin Delays => due[p] > 0

\* A process of the highest priority that waits for a signal goes on when it
\* was sent one, and when its timeout has passed though nobody sends.
TopIsServed ==
  \A p \in Procs :
    (\A q \in Procs \ {p} : InitPri[p] > InitPri[q]) =>
      (\/ recv[p] \cap mask[p] # {}
       \/ pc[p] = "timeout_check" \/ SigTimeout \in mask[p]) ~> (pc[p] = "user")

\* signal.c and signal.h do what a box of pending signals per process promises,
\* whatever the scheduler does between the steps of sig_wait(), sig_check() and
\* __sig_signal(): a process gets what it asked for and is there, all of it and
\* nothing else, and only the end of a process loses signals.
Polls == {p \in Procs : pc[p] \in {"sig_check", "timeout_poll"}}

Box == INSTANCE SignalBox WITH
         pending <- recv, asked <- mask, polls <- Polls, alive <- {p \in Procs : Live(p)}

ImplementsBox == Box!BoxSpec
=============================================================================
