-------------------------------- MODULE Fifo --------------------------------
(***************************************************************************)
(* The circular buffer of struct/fifobuf.h, shared without a lock by one   *)
(* context that pushes and one that pops, a process and an interrupt       *)
(* handler or two processes.  Pointers are indices from 0, the first slot, *)
(* to End, and are read and written in one access (CPU_REG_BITS >=         *)
(* CPU_BITS_PER_PTR); everything else may be cut.                          *)
(*                                                                         *)
(* fifo_pop() moves head first and reads the slot afterwards when it wraps *)
(* around; elsewhere the compiler chooses the order, and the model takes   *)
(* the one that is harder to get right, head first.                        *)
(***************************************************************************)
EXTENDS Integers, Sequences

CONSTANTS
  Size,    \* the length of the buffer
  Chars,   \* the characters
  NoChar,  \* no character
  NoSlot   \* no slot

ASSUME SizeAssumption == Size \in Nat \ {0, 1}
ASSUME CharsAssumption == NoChar \notin Chars
ASSUME SlotAssumption == NoSlot \notin Nat

VARIABLES
  buf,      \* the characters in the slots
  head,     \* FIFOBuffer.head
  tail,     \* FIFOBuffer.tail
  writing,  \* fifo_push() has stored its character and not yet moved tail
  reading,  \* the slot fifo_pop() is about to read, or NoSlot
  mark      \* tail as fifo_flush() has read it, or NoSlot

fifoVars == <<buf, head, tail, writing, reading, mark>>

End == Size - 1
Slots == 0..End

\* One position forward, around the end.
After(i) == IF i = End THEN 0 ELSE i + 1

\* fifo_isempty().
IsEmpty == head = tail

\* Mutant of IsFull: the wrapped case is forgotten.
IsFullBehind == tail = head - 1

\* fifo_isfull().
IsFull == (head = 0 /\ tail = End) \/ tail = head - 1

\* DECLARE_FIFO() and fifo_init(): what is in the buffer is not looked at.
FifoInit ==
  /\ buf \in [Slots -> Chars]
  /\ head = 0 /\ tail = 0
  /\ writing = FALSE
  /\ reading = NoSlot /\ mark = NoSlot

\* fifo_push(c), called when the buffer is not full: store, then move tail.
PushStore(c) ==
  /\ ~writing /\ ~IsFull
  /\ buf' = [buf EXCEPT ![tail] = c]
  /\ writing' = TRUE
  /\ UNCHANGED <<head, tail, reading, mark>>

PushMove ==
  /\ writing
  /\ tail' = After(tail)
  /\ writing' = FALSE
  /\ UNCHANGED <<buf, head, reading, mark>>

\* The same where nothing can come in between: in an interrupt handler, and in
\* fifo_push_locked() of the 8-bit CPUs.
Push(c) ==
  /\ ~writing /\ ~IsFull
  /\ buf' = [buf EXCEPT ![tail] = c]
  /\ tail' = After(tail)
  /\ UNCHANGED <<head, writing, reading, mark>>

\* fifo_pop(), called when the buffer is not empty: move head, then read.
PopMove ==
  /\ reading = NoSlot /\ mark = NoSlot /\ ~IsEmpty
  /\ reading' = head
  /\ head' = After(head)
  /\ UNCHANGED <<buf, tail, writing, mark>>

PopRead ==
  /\ reading # NoSlot
  /\ reading' = NoSlot
  /\ UNCHANGED <<buf, head, tail, writing, mark>>

\* fifo_flush(), called by the context that pops: head = tail.
FlushLoad ==
  /\ reading = NoSlot /\ mark = NoSlot
  /\ mark' = tail
  /\ UNCHANGED <<buf, head, tail, writing, reading>>

FlushStore ==
  /\ mark # NoSlot
  /\ head' = mark
  /\ mark' = NoSlot
  /\ UNCHANGED <<buf, tail, writing, reading>>

FifoNext ==
  \/ \E c \in Chars : PushStore(c) \/ Push(c)
  \/ PushMove \/ PopMove \/ PopRead \/ FlushLoad \/ FlushStore

FifoSpec == FifoInit /\ [][FifoNext]_fifoVars

-----------------------------------------------------------------------------
\* How many steps forward lead from slot i to slot j.
Distance(i, j) == IF i <= j THEN j - i ELSE j - i + Size

\* The slot n steps after slot i.
Ahead(i, n) == IF i + n < Size THEN i + n ELSE i + n - Size

Length == Distance(head, tail)

Contents == [k \in 1..Length |-> buf[Ahead(head, k - 1)]]

FifoTypeOK ==
  /\ buf \in [Slots -> Chars]
  /\ head \in Slots /\ tail \in Slots
  /\ writing \in BOOLEAN
  /\ reading \in Slots \cup {NoSlot}
  /\ mark \in Slots \cup {NoSlot}

\* fifobuf.h:47-66: one slot is always left empty.  The pushing context never
\* makes the buffer full and then stores again, so that the free slot is the
\* one that the popping context has left behind and may still be reading.
FifoInv ==
  /\ FifoTypeOK
  /\ writing => ~IsFull
  /\ reading # NoSlot => head = After(reading) /\ mark = NoSlot
  /\ mark # NoSlot => Distance(head, mark) <= Length

\* fifobuf.h:154-157 and 187: it is safe to call fifo_pop() and fifo_push() from
\* concurrent contexts.  The buffer is a queue of Size - 1 characters,
\* whatever the interleaving: no character is lost, repeated, reordered or
\* overwritten while it is being read.
Queue == INSTANCE CharQueue WITH
  Capacity <- End,
  queue <- Contents,
  hand <- IF reading = NoSlot THEN NoChar ELSE buf[reading],
  doomed <- IF mark = NoSlot THEN 0 ELSE Distance(head, mark)

ImplementsQueue == Queue!QueueSpec
=============================================================================
