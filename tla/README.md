# BeRTOS in TLA+

BeRTOS is a small real-time operating system for microcontrollers with one CPU.
This directory models the core of it: the kernel (the scheduler and the
synchronisation built on it), a serial port with its lock-free buffers, a flash
file system that survives power cuts, and a protocol for noisy lines. TLC checks
the models; TLAPS proves the safety of the whole kernel, of the serial port, of the file system and of
the protocol for every value of their constants. Paths below are relative to the
repository's `bertos/` directory unless they name a `.tla` or `.cfg` file.

Contents: 1 the system and its parts; 2 the modules; 3 how the models
correspond to the code; 4 the runs, with bounds and fairness; 5 what the runs
found; 6 the proofs; 7 what is only model-checked, and what is not modelled;
8 the plan.

## 1. The system

A process is a control block that lies in its own stack, taken from a heap.
`current_process` runs; the others are in `proc_ready_list`, or in the wait
queue of something, or nowhere (asleep). All these lists are linked through the
*one* node `Process.link`. `proc_schedule()` takes the head of the ready list,
or polls the empty list with interrupts enabled, still on the stack of the
process that called it. Interrupt handlers awaken processes, and at the end of a
handler `proc_preempt()` may switch. Two devices keep the kernel consistent:
`ATOMIC()`, which disables interrupts, and `proc_forbid()`/`proc_permit()`, which
let interrupts come but forbid preemption by means of an ordinary variable,
`preempt_count`.

| Part | State | Operations | Interacts with | Hard behaviour | Correct when |
|---|---|---|---|---|---|
| Priority lists, `struct/list.h` | links, `PriNode.pri` | `LIST_ENQUEUE`, `LIST_ENQUEUE_HEAD`, `REMOVE`, `ADDTAIL`, `list_remHead` | used by all | a node's priority is changed in place | members are exact, order is by priority |
| Scheduler, `kern/proc.c` | `current_process`, `proc_ready_list`, `zombie_list`, `_proc_quantum`, `preempt_count`, priorities, stacks | `proc_new`, `proc_exit`, `proc_yield`, `proc_setPri`, `proc_forbid`, `proc_permit`, `proc_wakeup`, `proc_switch`, `proc_preempt` | heap, timer, end of interrupts | preemption between any two instructions; exit on a stack others may free; idling | each process in one place, stack in use not freed, counter exact, sections exclusive, highest priority runs, equals share |
| Signals, `kern/signal.c` | `sig.recv`, `sig.wait` of each process | `sig_wait`, `sig_waitTimeout`, `sig_check`, `sig_send`, `sig_post` | scheduler, interrupts, timers | wake-up races with going to sleep | no wake-up lost, woken once, each call takes what it asks and nothing else |
| Semaphores, `kern/sem.c` | owner, nesting, wait queue; `orig_pri`, `inh_list`, `inh_blocked_by` | `sem_obtain`, `sem_attempt`, `sem_release`; `proc_setPri` | scheduler | chains of blocked owners, deadlock, hand-over while preempted | mutual exclusion, FIFO hand-over, inheritance exact, nobody lost |
| Timers, `drv/timer.c` | `_clock`, the sorted queue of soft timers | `timer_add`, `timer_abort`, `timer_delayTicks`, the tick interrupt | signals, scheduler | a timeout races the signal; clock wraps, callbacks change the queue | each timer fires once, in order, or is taken out |
| FIFO, `struct/fifobuf.h` | buffer, head, tail | push, pop, flush, full, empty | drivers, interrupts | concurrent without locks | a bounded queue: no loss, no repetition, order |
| Serial ports, `drv/ser.c`, `cpu/*/drv/ser_*.c` | two FIFOs, `status`, `sending`, the UART | put, get, flush, purge, reopen; receive, empty and complete interrupts | FIFO, interrupts | a transmission that ends while it is fed; full buffers | lost characters are reported; flush returns, when the buffer is empty and, with a transceiver, the last bit has left |
| Block devices, `io/kblock.c` | one buffered block, its number, dirty flag | read, write, load, flush, copy | file systems | the buffer is lost or torn in a power cut; stores fail | no dirty block is dropped |
| BattFS, `fs/battfs.c` | page array, free pages, open files | mount, open, create, write, flush, close, fsck | block devices | power cut between any two stores; stores that fail, noticed or not; pages move under open files | a flush makes all durable; after a mount all files are as at one moment since the last flush |
| XModem, `net/xmodem.c` | block number, retries, CRC or checksum | `xmodem_send`, `xmodem_recv` | KFile, serial line | lost, garbled and late messages | the file arrives exact; both ends return; true means true (but for one case, section 5) |
| Events, `mware/event.c` | type, process, signal or flag | `event_wait`, `event_waitTimeout`, `event_select`, `event_do` | signals, timers, interrupts | fast path races with the event | an event is not lost |
| Messages, `kern/msg.h` | queue of a port | put, get, peek, reply | signals | | no message lost, FIFO |
| Real-time tasks, `kern/rtask.c` | sorted list of deadlines | `rtask_add`, `rtask_proc` | timers, pool | earlier deadline while the server sleeps | served by the deadline |
| Heap, `struct/heap.c` | list of free chunks | alloc, free | scheduler | splitting, merging | free chunks disjoint and merged |
| Monitor, containers, KFile, FAT, other drivers, `net/`, `mware/`, `algo/`, `gfx/` ... | | | | | see section 7 |

The list of components with their status, and the list of the hazards at their
lines with the properties that watch over them, are in `PROJECT.json`.

## 2. The modules

| Module | What it models | Extends |
|---|---|---|
| `PriList` | `struct/list.h`: lists as sequences of nodes, priorities as a function | |
| `Proc` | the scheduler of `kern/proc.c`, `proc.h`, `proc_p.h`, the tick and the end of interrupts | `PriList` |
| `SignalBox` | abstract: a set of pending signals per process; a call takes all that it asked for and nothing else | |
| `Signal` | `kern/signal.c` and the timers of `sig_waitTimeout()` (`drv/timer.c`) on the scheduler; implements `SignalBox` | `Proc` |
| `Sem` | `kern/sem.c` with priority inheritance on the scheduler | `Proc` |
| `CharQueue` | abstract: a bounded queue with one producer and one consumer | |
| `Fifo` | `struct/fifobuf.h`; implements `CharQueue` | |
| `Serial` | `drv/ser.c` with the UART drivers of the AVR and the STM32, on `Fifo` | `Fifo` |
| `KBlock` | `io/kblock.c`: a device with a one-block buffer, as functions | |
| `FileStore` | abstract: files with a write-back cache, a flush, and power cuts | |
| `BattFs` | `fs/battfs.c`; implements `FileStore` | `KBlock` |
| `XModem` | `net/xmodem.c`: both ends and the line between | |
| `MCProc`, `MCSignal`, `MCSem`, `MCSerial`, `MCBattFs` | the constants of the instances TLC checks | the above |
| `PriList_proofs` | facts about the list operators | `PriList`, `TLAPS` |
| `Proc_proofs` | the inductive invariant of the scheduler and what follows | `Proc`, `PriList_proofs` |
| `Signal_proofs` | the invariant of signals and their timers, the refinement of `SignalBox` | `Signal`, `Proc_proofs` |
| `Sem_proofs` | the invariants of semaphores and of the inherited priorities | `Sem`, `Proc_proofs` |
| `Serial_proofs` | the FIFO is a queue; the inductive invariant of the port and what follows | `Serial`, `TLAPS` |
| `BattFs_proofs` | the inductive invariant of the file system, what a mount computes, what follows | `BattFs`, `FiniteSetTheorems`, `TLAPS` |
| `BattStore_proofs` | the refinement of `FileStore`, on that invariant | `BattFs_proofs` |
| `XModem_proofs` | the inductive invariant of a transfer and what follows | `XModem`, `TLAPS` |

`Signal` and `Sem` do not abstract the scheduler away: their steps are steps of
`Proc` with the service's own, so that every preemption of the scheduler happens
inside the services too. In the same way the receive buffer of `Serial` is `Fifo`
itself, and `BattFs` calls the functions of `KBlock`. The kernel, the port, the file
system and the protocol do not share state in the code but through these
interfaces, and are separate specifications.

Definitions whose comment begins "Mutant of" are not part of the models. Each is
a plausible mistake in the code, and `PROJECT.json` names the property that
notices it when it takes the place of the definition below it.

## 3. How the models correspond to the code

### The kernel: `Proc`, `Signal`, `Sem`

**Granularity.** There is one CPU. What executes with interrupts disabled is one
step. What executes with interrupts enabled is cut between its accesses to
shared state: `pc[p]` says where process `p` is, and between two of its steps an
interrupt (`Tick`, `IsrPost`) may begin, whose end (`IsrExit`) may switch to
another process. `isr` is TRUE between the two. Sections protected by
`proc_forbid()` are cut too, between a test and the update it justifies: that
they are not interleaved has to follow from `preempt_count`, not from the model.

**The preemption counter.** `++preempt_count` and `--preempt_count` are not
protected. They are a load into `reg[p]` (`CountLoad`) and a store
(`ForbidStore`, `PermitStore`). `cont[p]` is where the call returns to. `nest`
counts the sections a process has open: it is not in the code, the properties
compare the counter with it. Without `CONFIG_KERN_PREEMPT` (`Preempt = FALSE`)
the macros are empty: the counter stays 0 and no interrupt preempts.

**current and cpu.** `current` is `current_process`; `cpu` is the process whose
stack and code the CPU executes. They differ while a process exits
(`current_process = NULL` before the switch) and while `proc_schedule()` idles
(`idle`): then the CPU is on the stack of the process that slept or exited last.

| Places `pc[p]` | Code |
|---|---|
| `user`, `crit` | application code, outside and inside its own sections |
| `forbid`, `forbid_store`, `permit`, `permit_store` | `proc_forbid()`, `proc_permit()` |
| `reenqueue` | `proc_setPri()` before `ATOMIC(sched_reenqueue())` |
| `zomb_*`, `free_loop` | `proc_freeZombies()`, called by `proc_new()` |
| `slot_*`, `new_init`, `new_enq` | the rest of `proc_new()` |
| `exit_*` | `proc_exit()` |
| `free`, `alloc`, `zombie` | nobody executes: the slot is unused, allocated, or the process has exited |
| `sig_wait`, `sig_check` | the call has been made, its section with interrupts disabled is yet to come |
| `sig_resume` | `sig_wait()` when `proc_switch()` returns, interrupts disabled |
| `timeout_check`, `timeout_poll` | `sig_waitTimeout()` after its `sig_wait()`, and in its `sig_check(SIG_TIMEOUT)` |
| `obt_*`, `inherit`, `att_*`, `rel_*` | `sem_obtain()`, `sem_attempt()`, `sem_release()` |

**Data.** A list is the sequence of its nodes. `inh_list`, of which the code
reads only the head, is a set, and the head's priority is its highest. The heap
is a set of blocks, each of them enough for one process; allocation looks for a
free block and then takes it, so that two unprotected allocations would collide.
The stack is its block. Masks of signals are sets. `Calls`, `Retarget`,
`MayObtain` say what the application does; they follow the documented
preconditions (`sig_send()` only with preemption allowed, a process releases only
what it owns, no call with a section open but those that allow it).

**Timers.** Each `sig_waitTimeout()` has one timer, in its own stack frame.
`timers` is the queue, `due` the ticks each has left (`Timer.tick - _clock`). The
tick interrupt (`SigTick`) serves, in the same step, all that have expired: each
posts `SIG_TIMEOUT`. Between `timer_add()` and `sig_wait()`, and between its
return and `timer_abort()`, anything may happen.

**Signals as boxes.** `mask[p]` is the argument of the call that `p` is in. It is stored in a step
of its own, before the call looks at `sig.recv`, so that `SignalBox` sees what each call asks for, also
when it does not have to sleep: `Ask`, then `Take`, which removes all that was asked for and is
pending and no other signal, or `Decline` when `sig_check()` finds nothing. Nothing else
removes a signal from a process that lives; `Reset`, the clearing by `proc_new()`, is
possible only for a control block that is not in use.

**Start.** `Proc` starts as `proc_init()` leaves the system. `Signal` and `Sem`
start after the application has created its processes and set their priorities,
main running: a state `Proc` reaches.

### The serial port: `Fifo`, `Serial`

`Fifo` is cut between the accesses of `fifo_push()`, `fifo_pop()` and `fifo_flush()` to
`buf`, `head` and `tail`: `writing`, `reading` and `mark` say how far a call is.
`Contents` is the queue that the slots between head and tail hold; it changes
when a push moves the tail, when a pop moves the head, and when a flush stores it.

`Serial` has one process, at place `pc`, and the interrupts.

| Places `pc` | Code |
|---|---|
| `user` | the application, which chooses the next call |
| `put_wait`, `put_push` | `ser_putchar()` |
| `tx_start`, `tx_begin` | `uart0_enabletxirq()` |
| `tx_pop`, `tx_move`, `tx_ready`, `tx_store` | the STM32's `txStart()`: `fifo_pop()` reads the character, then moves head; wait for the data register; store |
| `get_wait`, `get_status`, `get_pop` | `ser_getchar()` |
| `purge_*`, `flush`, `close*` | `ser_purge()`, `ser_flush()`, `ser_close()` |
| `open`, `open_clear` | `ser_reopen()`: `init()`, which lets characters in, and then `ser_setstatus(0)` |
| `undefined` | `fifo_pop()` of an empty buffer, or with head past tail (STM32, section 5): nothing is said about what follows |

`driver` chooses between the AVR's handlers without (`mega`) and with (`mega485`)
an RS-485 transceiver and the STM32's. `dr` and `shift` are the two registers of
the UART that hold characters not yet sent; `rxie`, `txie`, `tcie` are the
interrupt enables. `txc` is the flag that the last bit has left: the hardware sets it whenever the
UART runs dry and only serving its interrupt clears it, so that it may be stale when the interrupt is
enabled. `late` is not in the code: with a transceiver, it records that a handler, or the process
before it started a transmission, came after the UART had run dry (section 5).
`missed` is not in the code either: it records that a character was
thrown away since the errors were last cleared, and the property compares `status`
with it. The transmit buffer is a sequence: its handlers take from it in one step,
the process is its only producer, and `Fifo` is proved to be such a queue. Only the STM32 has a second
consumer, the process in `txStart()`, and there the pop is cut.

### The file system: `KBlock`, `BattFs`

A device is a record: the blocks of the medium, the buffer, the block it stands
for, the dirty flag. A page is its footer (inode, offset in the file, sequence
number, whether the check sequence is right) and its bytes; the page array, the
free pages and the open files are those of the code. A call of `battfs_write()` is
one step per page (`job` is what is left): the buffer is stored to the medium
only when another block is loaded or on a flush, so a power cut inside such a
step leaves what one before or after it leaves. `PowerCut` loses the buffer and
everything in memory; if the buffer was dirty, the block it was being stored to may
be torn, with a check sequence that is wrong. `Mount` is the whole of
`countDiskFilePages()` and `fillPageArray()`, assertions included. Sequence numbers
are bounded by `MaxSeq`; the code's are at least 40 bits wide. `PAGE_UNSET_SENTINEL` is
no page (`UnsetAssumption`): the mount asserts it (`fs/battfs.c:376`). `Absent`, which stands for
"there is no such file", is no content (`AbsentAssumption`).

An erased page is all ones: `Blank` has inode 255, offset 65535, a fill beyond any page (the code's is
65535), and the sequence number -1, since adding 1 to 40 ones gives 0 on the
medium. Its check sequence is wrong. `asserts` collects the assertions of the mount: of every
page with a right check sequence, that its fill is possible (line 238); of a second copy
of a page, those at lines 296 to 300 and after them. A torn block is modelled as an erased one: of both the code uses
only that the check sequence is wrong, except after the mistake that `BattFsFull` is about.

Stores fail in two ways. An error that a call returns sets `failed`; a `battfs_flush()`, a close or a
`battfs_umount()` may return one too, and an unmount tries again for every open file, so that it
may fail at one and succeed at the next (`UmountFails`). The failed `kblock_copy()` that
`battfs_write()` ignores (line 608) returns none: `WriteTailSpoilt` is the step in which the
`kblock_write()` after it succeeds, and the page gets a footer over whatever it held. `spoiled` remembers
the files this has happened to since power-up; it is not in the code, nor is `flushed`, which
says that the last call stored everything. `FileStore` has both: `Flush`, which has to make all
files durable, and `Spoil`.

`Avoids` names three traps of the code that an application may stay out of: see
section 5.

### The protocol: `XModem`

`toRecv` and `toSend` are the two directions of the line, in order. A block is one
message. It may be lost; a byte of its header or of its data may be wrong; it may lose its
first byte, its beginning or its end. `Stray` stands for the bytes that remain of a block: the receiver reads
them one by one for control codes, and one of them, the number of the fourth block for instance, may
be a 4, which is `XM_EOT`. The driver may note an error (`LineError`, and with a damaged block
`Breaks`): then `kfile_getc()` fails, and takes nothing from the buffer until the error is
cleared, so that the `kfile_resync()` of `Purge` leaves in it what was there, or as
much as fits (`Overflown`). Otherwise it empties the line. A block that is not the last message may also be read as
too short, when the rest does not come in time (`Fails`).

`blocknr`, `retries` and so on are the variables of the two
functions; `Wrap` stands for 256, for block numbers are a byte. `patient` is chosen
at the start: the set of the ends that do not time out while the other is still going to
answer; the timeouts of an end that is not in it race with the answers. Two history variables:
`spared`, no ACK was hit, and the received file could be written; `misread`, the receiver has
taken a byte of a damaged block for EOT.

## 4. The runs

| Run | Shows | States |
|---|---|---|
| `ProcAll` | Every service, anybody changes any priority, sections nested twice: `TypeOK`, `PreemptCountExact`, `OnePlace`, `StackInUse`, `BlocksDistinct`, `SectionNotPreempted` | 347k |
| `ProcShare` | Every service, each process changes only its own priority, slices of two ticks, fairness: `ReadySorted`; `HighestRuns` at the end of every interrupt; each ready process gets the CPU unless one of a higher priority appears (`RoundRobin`) | 474k |
| `SignalMasks` | Three priorities, a signal, timeouts of one and two ticks, sections, fairness: `NoLostWakeup`, `OnePlaceSig`; no timer and no `SIG_TIMEOUT` is left behind (`TimersArmed`); the highest process goes on when it is signalled or its time is over (`TopIsServed`); `Signal` implements `SignalBox`: each call, also one that does not sleep, takes what it asked for and nothing else | 197k |
| `SignalLife` | Two signals and a timeout, any masks, while processes exit and are created: no signal reaches the next user of a block (`StartsUnsignalled`); the refinement | 231k |
| `SemPreempt` | Two semaphores, nested, in any order, chains and deadlocks, preemption everywhere but in the window of `SemWindow`: `MutualExclusion`, `NoOrphanQueue`, `OnePlaceSem`, `InheritanceExact` | 2.4M |
| `SemLive` | One semaphore, the priority of an owner or waiter changes, fairness: nobody lost, every waiter is served while priorities are equal (`WaiterServed`) | 67k |
| `SerialPort` | Three drivers, each call of `ser.c` against each interrupt, fairness: `OverrunReported`; a flush returns (`FlushReturns`), with an empty buffer and, with a transceiver that was not served late, an empty UART (`FlushMeansSent`); the receive buffer implements `CharQueue` | 1.2M |
| `BattFs` | Two files, power cuts and failing stores anywhere, noticed or not: the file system passes its own check (`FsckPasses`), open files keep their place (`HandlesAgree`), every memory can be mounted (`Mountable`), the page a mount would choose is never overwritten (`CopyOnWrite`); `BattFs` implements `FileStore`: what was flushed survives, and all files survive as at one moment since then | 134k |
| `XModem` | Two failures of the line anywhere, or one if an end does not wait for late answers, fairness: `OutIsPrefix`, `SuccessIsTrue` (`xmodem_send()` always, `xmodem_recv()` unless it misread a damaged block), `BothReturn`, `Recovers` | 697k |
| `SemWindow`, `BattFsFull`, `XModemAck` | the findings of section 5, each a violation | |

**Bounds of the kernel.** Three processes are enough for a preempted one, one that
preempts it and a third that is affected, for a chain of owners, and for a deadlock
of two with a bystander. Two priorities are enough where they change, and three
distinct ones where processes keep theirs. `SignalLife` has two processes and two
masks more instead. `Quantum` is 1 or 2 ticks: a slice that is over and one that
is not. `MaxNest` is 2 where nesting is the question. `MaxHold` bounds how often a
process obtains what it holds: 2 is the first nested obtain and the last release
that frees. `Sems` has one or two elements: two give chains and deadlocks.
`InOrder` (semaphores in increasing order) is FALSE where deadlock is wanted.
`Prios = {0}` where the processes' priorities come from `InitPri` and `setpri` is
not among the calls. No other variable grows.

`WindowIrq = FALSE` leaves out of `SemPreempt` and `SemLive` the interrupt that
comes between `proc_permit()` and `proc_switch()` in `sem_obtain()`: with it the
lists are broken (first finding), and nothing else could be learnt about the
preemptive kernel. All other preemptions remain.

**Bounds of the rest.** `SerialPort`: a receive buffer of three slots holds two
characters, so that its pointers wrap, it is full, empty and in between, and two
different characters tell order from loss; a transmit buffer of two. `BattFs`: four
pages of two bytes hold two files, a file of several pages, a memory that is full
and pages that are freed; writes begin in a page, cross into the next one, or lie
beyond the end; a page is rewritten twice (`MaxSeq`); each file is spoiled at most once between power
cuts. `BattFsFull`: one byte value, writes of a full page and of a byte after it (`FullWrites`), an
application that takes the two other precautions. `XModem`: three blocks with
numbers modulo 3, so that the last block has the number that the receiver starts from
(`Wrap` is 256 in the code); `MaxRetries` 7 and `MaxCrcRetries` 6 (15 and 7 in
`cfg/cfg_xmodem.h`) are more than two failures (`MaxFaults`) can cost, and both limits are
reached when the other end has gone. One failure only (`LateFaults`) when one of the ends is impatient; both
impatient at once are not checked by TLC, but the theorems of section 6 hold for them. The receiver falls
back from CRC to the checksum only when an end is impatient.

Symmetry is used in `ProcAll` over the heap's slots (main's is not from the heap) and
in the two runs of `BattFs` over the bytes; no run with liveness uses it.

**Idling.** `proc_schedule()` idles when nobody is ready. Only an interrupt that
awakens a process ends that, so the step `IdleLoop` is taken in `Signal`, not in `Proc` nor
in `Sem`, where the CPU idles after the last exit or in a deadlock and stays there.

**Deadlock** is checked everywhere but in `XModem` and `XModemAck`, whose two functions
return: then nothing is left to happen, and `BothReturn` says that they do. In the kernel
the timer always ticks, so the check only says that the model is never stuck inside
an interrupt.

**Fairness.** `WF(IsrExit)`: an interrupt handler ends. `SF` on the idle loop of `Signal` and on
the process's own steps: interrupts leave time to the program, though each step can
be interrupted before it happens. `SF(Tick /\ PreemptAllowed)`: the timer is not
synchronised with the program, so it does not find preemption forbidden every time.
`Sem` assumes each process's steps fair, since a process that keeps getting the CPU
proceeds, and `SF(Release)`: the application gives back what it obtained. `Serial`: the
process continues within a call; the UART sends what is in its registers; the
interrupts for an empty register and for the last bit are served while enabled and
requested. No reception and no timeout is assumed to happen. `XModem`: both programs go
on, which includes that `kfile_getc()` times out when nothing comes. `BattFs` has
no liveness property and no fairness. What an application decides (yield, send, exit,
obtain, write) is never assumed to happen.

**Mutants.** `PROJECT.json` names, for each property of each passing run, a mistake
in the model's code that the property finds in this run, with these bounds.

## 5. What the runs found

1. **`sem_obtain()` can corrupt the lists** (`SemWindow`, `kern/sem.c:246`). The
   caller is inserted in `wait_queue`, then calls `proc_permit()`, then
   `proc_switch()`. An interrupt that ends in between preempts it, and
   `proc_preempt()` inserts the same link node in the ready list.
2. **A write to a file whose last page is full takes a page that is not its own**
   (`BattFsFull`, `fs/battfs.c:950`). `battfs_fileopen()` sets `max_off` to the size
   divided by the size of a page, one too many when nothing remains. A write at the
   end of such a file, opened again, renews the page that follows in the array as if
   it were the file's own. In the run that is an erased page. Its header is all ones, so the
   write finds a fill of 65535, adds nothing to it (`fs/battfs.c:750`), and gives the
   page a right check sequence: `battfs_fsck()` notices nothing before the unmount,
   and the next mount fails its assertion `hdr.fill <= disk->data_size` (`fs/battfs.c:238`). When
   the page that follows is another file's, that file is overwritten, and all counts stay consistent.
3. **One lost ACK ends a transfer** (`XModemAck`, `net/xmodem.c:268`). The receiver
   recognises the repeated block and does not write it again, but it does not
   acknowledge it either; it asks for it until its retries are over. The
   comment there says that the case was meant to be survived.

Known, and left out of the properties, as the hazards list says:

- Kernel: two processes that signal each other each go to the head of their equals, with a
  new quantum: a third one of the same priority may never run. `RoundRobin` is a
  property of the scheduler alone.
- `proc_setPri()` of a process that is in the ready list and does not run stores the
  priority first and moves the process in a later `ATOMIC` (`kern/proc.c:473`). An
  interrupt that awakens a process in between inserts it before the misplaced node,
  and the list stays unsorted. `ReadySorted` is checked for processes that change their
  own priority, and proved for them, and in the cooperative kernel for all; `OnePlace` holds
  whoever calls.
- `proc_setPri()` on a process that waits for a semaphore updates neither its
  `inh_link` nor the owner it boosts. `InheritanceExact` is checked with constant
  original priorities; `SemLive` changes them and checks the lists.
- The assertion of `sem_obtain()` that the wait queue is empty (`kern/sem.c:251`) fails
  when an owner obtains again while others wait. The model has no such
  assertion; the code without it is right.
- Between `proc_permit()` and `proc_wakeup()` in `sem_release()` the new owner is in
  no list; when the releasing process is preempted there by others, an owner of a
  higher priority waits for it. `NoneLost` and `WaiterServed` say it is
  not for ever; `HighestRuns` speaks of the ready list.
- `BlocksDistinct` and `OnePlace` suppose that `proc_setPri(q)` names a process
  that exists when it is called. `q` may exit between the two steps of the call,
  and its block may be used again: `sched_reenqueue()` then moves the new process,
  to its right place.
- Serial, errors: the STM32's handler overwrites `status`, so an overrun may be gone before anybody
  reads it (`ser_stm32.c:239`): `OverrunReported` excludes this driver. `ser_open()` calls `init()`,
  which enables reception, before its `ser_setstatus(0)` (`drv/ser.c:362`, `373`): an error in between is
  forgotten with the old ones.
- Serial, flush: the comment in `ser_flush()` says that it waits "until the byte currently in the
  hardware register gets shifted out" (`drv/ser.c:327-329`), and so does `ser_close()` ("Wait until we finish
  sending everything", `drv/ser.c:390`). It waits for `txSending()`, which without a transceiver is off
  as soon as the buffer is empty: on the AVR without one and on the STM32 up to two characters
  are still in the UART when it returns, and the `cleanup()` of `ser_close()` then disables it. The
  function's own note concedes that "any hardware FIFOs are ignored" (`315-317`). `FlushMeansSent`
  therefore asks for an empty UART only with a transceiver, where the driver waits for the last bit.
- Serial, transceiver: nothing clears a TXC that was set before its interrupt was enabled. If the UART runs
  dry before the handler of the empty register is served, the flag is stale, and the next transmission
  ends, with the transceiver turned, as soon as its buffer is empty. And if the process is
  delayed between its `fifo_push()` and `txStart()` until its character has been sent and the transmission
  has ended, or purges the buffer before a late handler, then the interrupt is enabled with nothing
  to send: TXC is never set, `sending` stays on, and the port is stuck. The model has both;
  `FlushMeansSent` and `FlushReturns` are about what is not `late`.
- Serial, STM32: `txStart()` pops in the process while the handler, which looks at the
  status flag and not at what is enabled, may pop too (`ser_stm32.c:291`, `226`). A character is sent twice, or
  popped from an empty buffer, or head ends past tail: the process of the model then stops at `undefined`.
- BattFS: a write before the last page tests whether the *last* page is in the buffer
  (`fs/battfs.c:713`), and then rewrites a stored page in place: a power cut destroys
  it (`"inplace"` in `Avoids`). An error of the device in `renewPage()` leaves the old page
  both used and free: nothing is promised until the next mount (`"errors"`).
- BattFS: the result of one `kblock_copy()` is ignored (`fs/battfs.c:608`). If the copy
  fails and the writes after it succeed, the last page of the file has its new length
  and a right check sequence over whatever the new page held, and no call returns an error. `FileStore`
  allows for it with `Spoil`, for that file only.
- BattFS: `battfs_umount()` walks the list of open files with `FOREACH_NODE` while
  `battfs_fileclose()` removes the node it is at. In a release build the removed node keeps its links, and
  the model has what happens then; in a `_DEBUG` build `REMOVE` clears them (`struct/list.h:271`, `328`) and the
  walk goes on through a null pointer.
- XModem: the number of the fourth block is 4, the code of EOT. When the first byte of that
  block is lost, or when bytes of a damaged block are left in the buffer because an error was noted
  (`ser_getchar()` takes nothing then, `drv/ser.c:172`, and `kfile_resync()` ends by clearing the error), the receiver may take
  such a byte for the end of the file: it acknowledges, and `xmodem_recv()` returns true with the file
  cut short (`net/xmodem.c:161`, `287`). `SuccessIsTrue` excuses the receiver in that case, marked by
  `misread`, and shows that `xmodem_send()` does not return true then.
- XModem: the sender never forgets that it once received a C. When the receiver has fallen back to the checksum, the
  two never agree, and the transfer fails. In `XModem` `MaxCrcRetries` is high enough
  for two failures not to lead there; `Recovers` promises nothing beyond that.

## 6. The proofs

Every theorem is checked by `tlapm` to the last leaf; the only assumptions are the
`ASSUME`s of the modules on their constants, which TLC evaluates in the runs.

`PriList_proofs` proves, for lists of any length: inserting at either end of the
equals adds the node and nothing else and no node twice (`EnqueueMembers`,
`EnqueueHeadMembers`), inserting keeps a sorted list sorted (`EnqueueSorted`), unlinking
removes that node only and keeps the order (`UnlinkMembers`, `UnlinkSorted`); a list that
is sorted but for one node is sorted when that node is taken out (`UnlinkRepairs`); and the
same facts about `Tail`, `Append` and a list cut in two. `WalkUntil`, the first place where
a walk stops, is shown to exist by the well-order of the naturals.

### The scheduler

`Proc_proofs` proves, for every set of processes, priorities and services, any
quantum and nesting, with and without preemption:

| Theorem | States |
|---|---|
| `Invariance` | `Spec => []IInv`, the inductive invariant |
| `TypeCorrect` | `[]TypeOK` |
| `CountIsExact` | `[]PreemptCountExact`: the argument of the comment at `kern/proc.h:296`, that the unprotected counter is right |
| `EachInOnePlace` | `[]OnePlace`: no process is lost or on two lists |
| `StackStaysInUse` | `[]StackInUse`: the stack in use is never freed |
| `BlocksAreDistinct` | `[]BlocksDistinct`: concurrent `proc_new()` calls do not collide |
| `SectionsAreExclusive` | `SectionNotPreempted`: a step property, from the invariant |
| `ReadyIsSorted` | `[]ReadySorted`, if with preemption each process changes only its own priority |
| `TheHighestRuns` | `HighestRuns`, a step property, if each process changes only its own priority |

**Why the invariant is needed.** None of these properties is inductive. The counter
is exact only because a process that is switched out has no section open; it has
none because a preemption requires the counter to be 0, so the counter must be exact;
and voluntary switches come only at places outside sections, so each `pc` must
determine how many are open. A process is in one place only because an exiting
process is not preempted between `proc_addZombie()` and `current_process = NULL`;
and no stack in use is freed only because whoever frees zombies runs, so the
exiting process has already left. The invariant therefore states all of it together. It
has two parameters, so that it holds for services built on the scheduler too:
`KInv(Places, Asleep)` says that processes are at `Places` and that those in `Asleep`
sleep, in no list; `IInv` is `KInv(Labels, {})`, for in `Proc` alone nobody sleeps. Its parts:

- `TypesOK`, and that who sleeps is at a place of the service, none of `Proc` (`AsleepOutside`);
- `PlaceInv`: `SectionsAt(p)`, how many sections are open at each `pc`, and
  `RegisterAt(p)`, what was loaded is still in memory;
- `CountIsNest` and `OthersOutside`: the counter is the nesting of the process on the
  CPU, the others have none;
- `Running` and `ReadyExact`: `current` against `cpu`; the ready list holds exactly
  the live processes that neither run nor sleep, once;
- `ZombiesInv`: who is in the zombie list, and that an exiting process is there while
  it still executes;
- `BlocksInv` and `BlocksDistinct`: the state of the block a `proc_new()` holds at
  each place, and that nobody else holds it.

**Layout.** Most steps change one process's own variables, others the lists, others a
block, and four of them switch. `OwnStepInv`, `ListStepInv`, `BlockStepInv` and
`SwitchInv` say, each for one kind of step, which few facts are to be shown for
the invariant of the next state; `ScheduleLive` says that the scheduler picks a live
process. One lemma per action (`CountLoadInv` ... `IsrExitInv`) shows these facts, `NextInv`
collects them, and `Invariance` concludes. Assumptions: those of `Proc` on its constants
(`Main` is a process, `NoProc` is none, `0 \in Prios`, priorities are
integers, `Quantum` a natural number, `MaxNest` a positive one).

**The order of the ready list** is no part of `IInv`, which holds whoever changes
priorities. `OrderInv` says that the list is sorted but for the one process that
`proc_setPri()` has given its priority and not yet moved. That is enough for the next
insertion only if there is none in between, which is where the hypothesis comes from
(`OwnPriority`): a process that changes its own priority is in no list, and without
preemption nothing comes between. Without it both properties are false: see `proc_setPri()`
in section 5. `OrderKept` shows it for the steps that insert, move or take the head, and
`SortedFrame` for those that leave the list and its priorities alone.

### Signals and timers

`Signal_proofs` proves, for every set of processes, signals and timeouts, every start,
with and without preemption, with processes that exit and are created:

| Theorem | States |
|---|---|
| `SigInvariance` | `SigSpec => []SigInv` |
| `SigTypeCorrect` | `[]SigTypeOK` |
| `NoWakeupIsLost` | `[]NoLostWakeup`: nobody sleeps with a signal pending that it waits for |
| `SleepersAreUnlisted` | `[]OnePlaceSig`: a process sleeps, is ready or runs; the assertion of `__sig_signal()` |
| `TimersAreArmed` | `[]TimersArmed`: no timer outlives its call, and no `SIG_TIMEOUT` |
| `NewProcessIsUnsignalled` | `StartsUnsignalled`: a step property |
| `SignalsAreBoxes` | `ImplementsBox`: `sig_wait()` and `sig_check()`, with and without sleeping, take what was asked for and is there and no other signal; a live process loses none otherwise |

`SigInv` is the scheduler's invariant for the larger set of places and the processes that
sleep, `KInv(SigPlaces, Sleeping)`, with what each place of `sig_wait()` and
`sig_waitTimeout()` says of a process's signals (`WaitAt`), of its timer (`TimerAt`), of a
control block about to be used again (`FreshAt`), and with `timers_queue` in order
(`TimersQueue`). `WaitAt` also says that `mask` holds an argument exactly at the places within a
call, which is what the refinement needs: `TakeBox` shows that each place takes that argument
and nothing else, and `ProcBox` that `proc_new()` clears the signals of a block that nobody uses. These are one argument. A signal may put its receiver in the ready list only
if it is not there; it is not, because `sig.wait` is cleared when it is awakened. A timer
that expires finds its process in `sig_waitTimeout()`, because the call aborts it or has taken
`SIG_TIMEOUT`. The tick handler awakens several at once: `EnqueueWoken` is a recursive
function on the queue, and what it returns follows from the least number of timers for
which the statement would fail (`EnqueueWokenMembers`). The steps of `Proc` are not proved again:
they are steps of `KInv` that leave the signals alone, but for `proc_new()`, which clears them.

### Semaphores

`Sem_proofs` proves, for every finite set of processes, all semaphores and priorities, any
nesting and any order of obtaining, deadlocks included, with one hypothesis:
`~(Preempt /\ WindowIrq)`, no interrupt preempts `sem_obtain()` between its `proc_permit()`
and its `proc_switch()`. `SemWindow` shows that it is necessary (section 5). Without
preemption it holds by itself.

| Theorem | States |
|---|---|
| `SemInvariance` | `SemSpec => []SemInv` |
| `SemTypeCorrect` | `[]SemTypeOK` |
| `SemaphoresExclude` | `[]MutualExclusion`: only the owner holds it, as often as it counts |
| `QueuesHaveOwners` | `[]NoOrphanQueue`: nobody waits for a semaphore without an owner |
| `WaitersInOnePlace` | `[]OnePlaceSem`: a process waits in one queue, is ready, runs, or is being awakened |
| `InheritanceIsExact` | `[]InheritanceExact`: between calls each priority is the highest of the process's own and of those that wait for it, through any chain; if `proc_setPri()` is not called |

**Why the invariant is needed.** `sem_obtain()` tests the owner in one step and takes the
semaphore in another. That nobody takes it in between is the preemption counter's doing; the
counter is exact because who is switched out is at one of a few places; and who waits there
is awakened once, in no list before, because one process at a time is about to awaken it,
the one that handed the semaphore over. So `SemInv` is the conjunction of what the scheduler
knows (`SemKernel`: places and sections, the counter, who runs, who is ready) and what the
calls know (`SemCalls`: `QueueAt`, a queue has exactly those that are blocked by its semaphore;
`GrantAt`, a new owner has one waker; `CallAt`, what each place has tested; `OwnerAt`, how the
nesting count relates to who obtained). `SemKernel` is not an instance of `KInv`: between
`proc_permit()` and `proc_switch()` a process is both running and in a wait queue, which
`KInv` excludes.

**Inheritance** takes a second invariant on top. The loop of `sem_obtain()` walks up the chain
of owners, one step each: `InhInv` says that every priority is exact, except of the
process that the loop has come to, which may still lack the caller's. That a
highest priority exists at all needs finitely many processes (`HighestExists`); that `Max`
is it, and that no other is, are `MaxHighest` and `HighestUnique`. With `proc_setPri()`
the property is false (section 5), hence the hypothesis.

### The FIFO and the serial port

`Serial_proofs`, about the FIFO: for every size of at least two, all characters and all interleavings,
`FifoInvariance` (`[]FifoInv`) and `FifoIsQueue`: each step of `Fifo` is a step of
`CharQueue` or changes nothing of it. `FifoInv` says that a started push has a
free slot, that the slot being read is the one just behind the head, where no push can
store before the read is over, and that what a flush in progress has seen is still
between head and tail. The refinement needs facts about positions in a circle
(`Distance`, `Ahead`), which are lemmas.

About the port: for every size of both buffers and all three drivers, `SerTypeOK`
(`PortTypeCorrect`), `OverrunReported`, `FlushMeansSent` and the refinement of `CharQueue` for
the port (`PortKeepsQueue`). The invariant `SerInv` adds to `FifoInv`: at which places a pop
or flush is in progress and that no character is received while the port is closed
(`Receiver`: `ser_open()` sets head and tail, which would drop a character or cut a pop in
two); that with a transceiver no interrupt is enabled while `sending` is off, and, as long as nobody
was `late`, nothing is in the registers then, and a TXC that is set speaks of the last bit
(`Transmitter`: what `FlushMeansSent` needs); and that a
character to be pushed has room (`Sender`: the wait and the push are two steps, and only the
process fills the buffer).

### The file system

`BattFs_proofs` and `BattStore_proofs`: for every number and size of pages, all files, all writes and all sequence
numbers, with power cuts and failing stores anywhere, and an application that takes all three
precautions of `Avoids` (section 5 shows what happens without each; the run `BattFsFull` is one):

- `BattTypes`: `BattTypeOK`. The page array lists every page once, and `free_bytes` stays
  between 0 and the size of the memory.
- `FsckAlwaysPasses`: `FsckPasses`, the program's own check, between any two calls.
- `HandlesAlwaysAgree`: `HandlesAgree`, the start and size an open file remembers against what a
  search of the array would give.
- `AlwaysMountable`: `Mountable`, the assertions of `fillPageArray()` after any power cut.
- `AlwaysCopyOnWrite`: `CopyOnWrite`, that no chosen copy is written over.
- `FilesSurvive`: `ImplementsStore`, that each step is one of `FileStore` or is not seen. A read
  returns what was written, byte for byte; a flush, close or unmount that succeeds makes all
  of it durable; and a power cut takes all files back to one moment since the last of these. Only
  files in `spoiled`, by the ignored error of line 608, may have other bytes.

They follow from `BattInv` (`BattInvariant`), which TLC checked as an invariant of the instance of
the run `BattFs` before it was proved. None of the properties is inductive alone. What `FsckPasses` says of
neighbours in the array holds after a mount only because of what the *memory* was before
the cut, so half of the invariant (`DevOK`) is about the medium, mounted or not: two copies
of a page differ in their sequence numbers; before the chosen copy of a page that is not
the first of its file there is a chosen copy of the page before it, and that one is full;
and a dirty buffer never stands for a chosen copy, so that tearing its block does no harm.
The other half (`RunOK`) is about the array of a mounted file system: which pages are
used, in which order, that each of the others is superseded by a used one, where the
files with a handle lie, and what free space is left. Between two steps of a `battfs_write()` one more
part (`JobOK`) says where the call has got to (the tail, with its bytes copied or spoilt, is one lemma,
`FillTailInv`); an empty page in the middle, which
`battfs_fsck()` would refuse, exists only when the next step writes it (`LastOK`).

A step of the application that puts a page into the array is `Extended`, one that
rewrites a page is `Rewritten`; the lemmas below them are about the device (`Stored`), the
array (`InsertArray`, `RewriteArray`, `RenewListed`), files and handles, and sums (`InsertSum`,
`RewriteSum`). `FindFileValue` and `FileSizeValue` give the results of `findFile()`, a binary
search, and of `countFileSize()` on every array in order.

The mount is the longest part, for what `Scan` computes is a recursion over the device whose
positions are sums over files. There is no rule of induction for the provers, but the
set of numbers for which a formula holds is a set: `InductiveSet` proves from
the well-order of the naturals that it has all of them, and a recursive definition is shown to
have a solution before it is used (`SumSolution`, `SearchSolution`, `SizeSolution`, `ScanSolution`).
`CountByClass` proves that what `countPages()` adds up is the number of pages of the smaller files. After n
turns `Scanned` holds: the right pages but for the superseded copies met so far (`Kept`) have a
place each, the number of pages of smaller files plus the offset (`Place`), those met are there, and
those superseded or not right fill the end (`Filed`). A turn that meets a first copy
(`TurnFirst`), a second one (`TurnOne`, through `PlaceWithout`: what `movePages()` does to the
places) or a page that is not right (`TurnBad`) keeps it; at the end every place is taken (`Arranged`), and the
array is in order.

The refinement (`BattStore_proofs`) maps the files of `FileStore` to what a read returns (`Visible`: by `findFile()`
and the page array) and its durable files to what a mount of the medium would find (`Durable`: by
the chosen copies, joined). Two computations of a content, and `Text(d, n, t)` is what they
have in common: the bytes of t are those of the n pages d, of which all but the last are full.
There is one such t (`TextUnique`), a read gives it (`ContentText`), and the concatenation
gives it as well (`JoinedText`, `SurvivesText`). Hence `VisibleOK`: what is visible is what a mount
would find *if the buffer were stored now*. That is the reason why a cached write survives
whole or not at all, and the same for all files: a step that has the device store its buffer
makes durable exactly what was visible before the step (`WriteMedia`), and a torn block changes no content
(`LoseText`). What a step does to the contents follows from what it does to pages: one more page puts its
bytes behind the file (`InsertOwnText`, `ExtendStores`); a rewritten page overwrites the bytes at its
place in the file (`RewriteOwnText`, `AlterStores`); other files stay as they are. One lemma per action (`CreateStores` ...
`CutStores`) then gives the step of `FileStore`, and `NextIsStore` collects them. A write that goes
beyond the end is the long case: its zeros are `Extend`, page by page (`WriteTailStores`, `WriteZerosStores`),
or `Spoil` (`WriteTailSpoiltStores`), before its bytes are `Write`. `FlushStores` is where a flush has to
make `Durable` equal to `Visible`: a stored buffer is what `VisibleOK` speaks of.

### XModem

`XModem_proofs`: for files of any length, any number of failures, any limits on retries,
ends with or without patience, and block numbers modulo three or more:

- `XModemTypeCorrect` (`XmTypeOK`) and `ReceivedIsSent` (`OutIsPrefix`): the received file is the beginning of
  the sent one.
- `TrueMeansReceived` (`SuccessIsTrue`): `xmodem_send()` returns true only when `xmodem_recv()` has and the
  file is complete, without any condition; `xmodem_recv()` returns true with less than the file only
  after it has taken a byte of a damaged block for EOT.

None is inductive: the receiver trusts numbers modulo `Wrap`, and the sender trusts that an ACK is
for its last block. `XmInv` (`XmInvariance`) has two cases. `Honest`, no byte was mistaken: on the line
are only copies of the last written block and of the next one, in this order, and EOT only after the last
block (`ToReceiver`); and at most one ACK, only when the sender's block has been written (`ToSender`).
`NumbersDiffer` proves that three numbers in a row differ modulo `Wrap`, `FreshIsNext` that the
receiver then takes no old block for a new one. `Mistaken`, the receiver has returned too early: its extra
ACK puts the sender up to two blocks ahead, but at most two ACKs are left (`ToSenderLate`), and they
run out before the sender could take one for that of its EOT. That is why the sender's result can be trusted also
then. One lemma per action, through `SenderStep` and `ReceiverStep`, keeps `Honest`; `MisreadInv` leads
to `Mistaken` and `MistakenNext` stays there.

## 7. Only model-checked, and not modelled

Liveness (`RoundRobin`, `TopIsServed`, `WaiterServed`, `FlushReturns`, `BothReturn`,
`Recovers`) is out of reach of the proof system and stays with TLC. Every invariant, action
property and refinement that a passing run checks is also a theorem, some under the hypotheses that section 6
gives with them: precautions of an application or settings of the kernel without which section 5
shows the property to be false.
The abstract specifications have no theorems of their own.

Not modelled in the modelled parts:

- `proc_new()` with a stack supplied by the caller or without `CONFIG_KERN_HEAP`, the
  monitor's hooks, names, user data, the contents of stacks; the memory of a zombie of main,
  which is never freed; signal sets other than the default one. Counters have no width:
  `preempt_count` is an `int` and nests as deep as the stack. Compilers and memory order:
  a single CPU, `MEMORY_BARRIER` taken at its word.
- Timers: deadlines that wrap (`due` is what is left), callbacks other than a signal,
  `timer_delayTicks()`.
- Serial: other CPUs' drivers, SPI, hardware flow control, baud rates, `ser_getchar_nowait()`.
- Block devices: the drivers, but for the state after `kblockram_init()`; a load that fails, devices without a buffer, partial writes, `kblock_trim()`.
- BattFS: the shuffle of free pages (`CONFIG_BATTFS_SHUFFLE_FREE_PAGES`), read errors, two
  handles of one file, devices without a buffer.
- XModem: the bytes within a block, and whether it has 128 or 1024 of them; noise that turns one
  code into another, or that makes a damaged block look right.

Not modelled at all: the context switch itself (assembly), `kern/monitor.c` (reports),
hash tables and bit arrays (sequential), the other drivers (registers of many chips), FAT
(a wrapper of vendored code), the parsers of `net/` and `mware/`, arithmetic in `algo/`
and `sec/`, graphics. Events, messages, real-time tasks and the heap's free list are planned.
By lines, nearly all of the repository is none of this: fonts, bitmaps and code pages,
vendored code (lwIP, FatFs, nmeap), chip headers, and copies of boards' examples. The share
of the repository that the models cover is small for that reason.

## 8. Plan

1. `Event` and `Msg` on `Signal`, with `timer_delayTicks()` and the stale `SIG_SINGLE`;
   `RTask` on it: a task added while the server sleeps.
2. `Heap`: the free list as a sequence of intervals, refinement of a set of bytes in use.
3. `drv/nand.c`: the remapping of bad blocks under failing writes and power cuts, below
   `KBlock`. `net/kiss.c`: the access to a shared channel.
