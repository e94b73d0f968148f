---------------------------- MODULE Serial_proofs ----------------------------
(***************************************************************************)
(* The circular buffer of struct/fifobuf.h is a queue for every size and   *)
(* every interleaving of the context that pushes and the one that pops.    *)
(* FifoInv is the inductive invariant.  That a push never makes the buffer *)
(* full, read by the popping context as empty, needs its second conjunct;  *)
(* that a character is not overwritten while it is being read needs the    *)
(* third, by which the slot being read is the one left free; and that a    *)
(* flush discards what it has seen needs the last.                         *)
(*                                                                         *)
(* The serial port of Serial, for every size of the buffers and every set  *)
(* of characters and drivers: the receive buffer it shares with the        *)
(* interrupt handlers is a queue, an overrun is reported, and ser_flush()  *)
(* returns when the buffer is empty and a transceiver may be turned.       *)
(*                                                                         *)
(* SerInv says which handler may run at which place of ser.c: none that    *)
(* receives while the port is closed and opened again, and none that sends *)
(* while the flag "sending" is off or is just being turned on.             *)
(***************************************************************************)
EXTENDS Serial, SequenceTheorems, TLAPS

-----------------------------------------------------------------------------
(***************************************************************************)
(* Positions in the circle.                                                *)
(***************************************************************************)
LEMMA SlotsAreNumbers == Size \in Nat /\ Size >= 2 /\ Slots = 0..(Size - 1) /\ End = Size - 1
BY SizeAssumption DEF Slots, End

\* The slot after a slot is another one.
LEMMA AfterSlot ==
  ASSUME NEW i \in Slots
  PROVE  After(i) \in Slots /\ After(i) # i
BY SlotsAreNumbers DEF After

\* How far it is from one slot to another.
LEMMA DistanceBound ==
  ASSUME NEW i \in Slots, NEW j \in Slots
  PROVE  Distance(i, j) \in 0..End
BY SlotsAreNumbers DEF Distance

\* Going ahead stays within the buffer.
LEMMA AheadSlot ==
  ASSUME NEW i \in Slots, NEW n \in 0..End
  PROVE  Ahead(i, n) \in Slots
BY SlotsAreNumbers DEF Ahead

(***************************************************************************)
(* fifo_isfull() compares the pointers; it is true at End characters.      *)
(***************************************************************************)
LEMMA FullLength ==
  ASSUME head \in Slots, tail \in Slots
  PROVE  /\ IsFull <=> Length = End
         /\ IsFull <=> After(tail) = head
         /\ IsEmpty <=> Length = 0
BY SlotsAreNumbers DEF IsFull, IsEmpty, Length, Distance, After

(***************************************************************************)
(* The characters in n slots from slot h on.                               *)
(***************************************************************************)
Slice(f, h, n) == [k \in 1..n |-> f[Ahead(h, k - 1)]]

\* A slice is a sequence of so many characters.
LEMMA SliceProperties ==
  ASSUME NEW f \in [Slots -> Chars], NEW h \in Slots, NEW n \in 0..End
  PROVE  /\ Slice(f, h, n) \in Seq(Chars)
         /\ Len(Slice(f, h, n)) = n
         /\ \A k \in 1..n : Slice(f, h, n)[k] = f[Ahead(h, k - 1)]
<1>1. n \in Nat
  BY SlotsAreNumbers
<1>2. ASSUME NEW k \in 1..n PROVE f[Ahead(h, k - 1)] \in Chars
  <2>1. k - 1 \in 0..End
    BY SlotsAreNumbers
  <2> QED
    BY <2>1, AheadSlot
<1>3. Slice(f, h, n) \in [1..n -> Chars]
  BY <1>2 DEF Slice
<1>4. \A k \in 1..n : Slice(f, h, n)[k] = f[Ahead(h, k - 1)]
  BY DEF Slice
<1> QED
  BY <1>1, <1>3, <1>4

\* The characters of the queue are the slice from head to tail.
LEMMA ContentsSlice ==
  ASSUME FifoTypeOK
  PROVE  /\ Contents = Slice(buf, head, Length)
         /\ Length \in 0..End
BY DistanceBound DEF Contents, Slice, Length, FifoTypeOK

(***************************************************************************)
(* A store into a slot outside changes nothing; one at the end is an       *)
(* Append; a slice without its first slots is a SubSeq.                    *)
(***************************************************************************)
LEMMA SliceOutside ==
  ASSUME NEW f \in [Slots -> Chars], NEW h \in Slots, NEW n \in 0..(End - 1), NEW c \in Chars
  PROVE  Slice([f EXCEPT ![Ahead(h, n)] = c], h, n) = Slice(f, h, n)
<1>1. ASSUME NEW k \in 1..n PROVE Ahead(h, k - 1) # Ahead(h, n) /\ Ahead(h, k - 1) \in Slots
  BY SlotsAreNumbers DEF Ahead
<1>2. \A k \in 1..n : [f EXCEPT ![Ahead(h, n)] = c][Ahead(h, k - 1)] = f[Ahead(h, k - 1)]
  BY <1>1
<1> QED
  BY <1>2 DEF Slice

\* A slice that is longer by one slot.
LEMMA SliceAppend ==
  ASSUME NEW f \in [Slots -> Chars], NEW h \in Slots, NEW n \in 0..(End - 1)
  PROVE  Slice(f, h, n + 1) = Append(Slice(f, h, n), f[Ahead(h, n)])
<1> DEFINE long == Slice(f, h, n + 1)
           short == Slice(f, h, n)
<1>1. n \in 0..End /\ n + 1 \in 0..End /\ n \in Nat
  BY SlotsAreNumbers
<1>2. /\ long \in Seq(Chars) /\ Len(long) = n + 1
      /\ \A k \in 1..(n + 1) : long[k] = f[Ahead(h, k - 1)]
  BY <1>1, SliceProperties
<1>3. /\ short \in Seq(Chars) /\ Len(short) = n
      /\ \A k \in 1..n : short[k] = f[Ahead(h, k - 1)]
  BY <1>1, SliceProperties
<1>4. f[Ahead(h, n)] \in Chars
  BY <1>1, AheadSlot
<1> HIDE DEF long, short
<1> DEFINE app == Append(short, f[Ahead(h, n)])
<1>5. /\ app \in Seq(Chars) /\ Len(app) = n + 1 /\ app[n + 1] = f[Ahead(h, n)]
      /\ \A k \in 1..n : app[k] = short[k]
  BY <1>1, <1>3, <1>4, AppendProperties
<1> HIDE DEF app
<1>6. \A k \in 1..(n + 1) : long[k] = app[k]
  <2> TAKE k \in 1..(n + 1)
  <2>1. CASE k \in 1..n
    BY <1>2, <1>3, <1>5, <2>1
  <2>2. CASE k = n + 1
    <3>1. k - 1 = n
      BY <1>1, <2>2
    <3> QED
      BY <1>2, <1>5, <2>2, <3>1
  <2> QED
    BY <1>1, <2>1, <2>2
<1>7. long = app
  BY <1>2, <1>5, <1>6, SeqEqual
<1> QED
  BY <1>7 DEF long, app, short

\* What is left of a slice without its first characters.
LEMMA SliceRest ==
  ASSUME NEW f \in [Slots -> Chars], NEW h \in Slots, NEW n \in 0..End, NEW d \in 0..n
  PROVE  Slice(f, Ahead(h, d), n - d) = SubSeq(Slice(f, h, n), d + 1, n)
<1> DEFINE s == Slice(f, h, n)
           t == Slice(f, Ahead(h, d), n - d)
           u == SubSeq(s, d + 1, n)
<1>1. n \in Nat /\ d \in Nat /\ d <= n /\ n - d \in 0..End /\ d \in 0..End
  BY SlotsAreNumbers
<1>2. s \in Seq(Chars) /\ Len(s) = n /\ \A k \in 1..n : s[k] = f[Ahead(h, k - 1)]
  BY <1>1, SliceProperties
<1>3. /\ t \in Seq(Chars) /\ Len(t) = n - d
      /\ \A k \in 1..(n - d) : t[k] = f[Ahead(Ahead(h, d), k - 1)]
  BY <1>1, AheadSlot, SliceProperties
<1> HIDE DEF s, t
<1>4. \A k \in (d + 1)..n : s[k] \in Chars
  BY <1>1, <1>2, ElementOfSeq
<1>5. /\ u \in Seq(Chars) /\ Len(u) = n - d
      /\ \A k \in 1..(n - d) : u[k] = s[d + k]
  <2>1. /\ u \in Seq(Chars)
        /\ Len(u) = IF d + 1 <= n THEN n - (d + 1) + 1 ELSE 0
        /\ \A k \in 1..(n - (d + 1) + 1) : u[k] = s[d + 1 + k - 1]
    BY <1>1, <1>4, SubSeqProperties
  <2> HIDE DEF u
  <2> QED
    BY <1>1, <2>1
<1> HIDE DEF u
<1>6. \A k \in 1..(n - d) : t[k] = u[k]
  <2> TAKE k \in 1..(n - d)
  <2>1. d + k \in 1..n
    BY <1>1
  <2>2. Ahead(Ahead(h, d), k - 1) = Ahead(h, d + k - 1)
    BY <1>1, SlotsAreNumbers DEF Ahead
  <2>3. u[k] = s[d + k]
    BY <1>5
  <2>4. s[d + k] = f[Ahead(h, (d + k) - 1)]
    BY <1>2, <2>1
  <2>5. t[k] = f[Ahead(Ahead(h, d), k - 1)]
    BY <1>3
  <2> QED
    BY <2>2, <2>3, <2>4, <2>5
<1>7. t = u
  BY <1>3, <1>5, <1>6, SeqEqual
<1> QED
  BY <1>7 DEF s, t, u
-----------------------------------------------------------------------------
(***************************************************************************)
(* The invariant.                                                          *)
(***************************************************************************)
LEMMA FifoInvInit == FifoInit => FifoInv
<1>1. 0 \in Slots
  BY SlotsAreNumbers
<1> QED
  BY <1>1 DEF FifoInit, FifoInv, FifoTypeOK

\* Every step preserves the invariant.
LEMMA FifoInvNext == FifoInv /\ [FifoNext]_fifoVars => FifoInv'
<1> SUFFICES ASSUME FifoInv, [FifoNext]_fifoVars
             PROVE  FifoInv'
  OBVIOUS
<1>0. FifoTypeOK /\ head \in Slots /\ tail \in Slots
  BY DEF FifoInv, FifoTypeOK
<1>1. ASSUME NEW c \in Chars, PushStore(c)
      PROVE  FifoInv'
  BY <1>1, SlotsAreNumbers DEF PushStore, FifoInv, FifoTypeOK, IsFull, Length
<1>2. ASSUME NEW c \in Chars, Push(c)
      PROVE  FifoInv'
  <2>1. FifoTypeOK'
    BY <1>0, <1>2, AfterSlot DEF Push, FifoTypeOK
  <2>2. (mark # NoSlot => Distance(head, mark) <= Length)'
    BY <1>0, <1>2, SlotsAreNumbers, SMTT(30)
    DEF Push, FifoInv, FifoTypeOK, IsFull, Length, Distance, After
  <2> QED
    BY <1>2, <2>1, <2>2 DEF Push, FifoInv
<1>3. CASE PushMove
  <2>1. FifoTypeOK'
    BY <1>0, <1>3, AfterSlot DEF PushMove, FifoTypeOK
  <2>2. (mark # NoSlot => Distance(head, mark) <= Length)'
    BY <1>0, <1>3, SlotsAreNumbers
    DEF PushMove, FifoInv, FifoTypeOK, IsFull, Length, Distance, After
  <2> QED
    BY <1>3, <2>1, <2>2 DEF PushMove, FifoInv
<1>4. CASE PopMove
  <2>1. FifoTypeOK'
    BY <1>0, <1>4, AfterSlot DEF PopMove, FifoTypeOK
  <2>2. (writing => ~IsFull)'
    BY <1>0, <1>4, SlotsAreNumbers
    DEF PopMove, FifoInv, IsFull, IsEmpty, After
  <2> QED
    BY <1>4, <2>1, <2>2 DEF PopMove, FifoInv
<1>5. CASE PopRead
  BY <1>5 DEF PopRead, FifoInv, FifoTypeOK, IsFull, Length
<1>6. CASE FlushLoad
  BY <1>0, <1>6, SlotsAreNumbers DEF FlushLoad, FifoInv, FifoTypeOK, IsFull, Length, Distance
<1>7. CASE FlushStore
  <2>1. mark \in Slots /\ reading = NoSlot
    BY <1>7 DEF FlushStore, FifoInv, FifoTypeOK
  <2>2. FifoTypeOK'
    BY <1>0, <1>7, <2>1 DEF FlushStore, FifoTypeOK
  <2>3. (writing => ~IsFull)'
    BY <1>0, <1>7, <2>1, SlotsAreNumbers
    DEF FlushStore, FifoInv, IsFull, Length, Distance
  <2> QED
    BY <1>7, <2>1, <2>2, <2>3 DEF FlushStore, FifoInv
<1>8. CASE UNCHANGED fifoVars
  BY <1>8 DEF fifoVars, FifoInv, FifoTypeOK, IsFull, Length
<1> QED
  BY <1>1, <1>2, <1>3, <1>4, <1>5, <1>6, <1>7, <1>8 DEF FifoNext

(***************************************************************************)
(* The pointers stay in the buffer, a push between its two steps finds the *)
(* room it has tested for, and the slot being read is the one left free.   *)
(***************************************************************************)
THEOREM FifoInvariance == FifoSpec => []FifoInv
<1>1. FifoInit => FifoInv
  BY FifoInvInit
<1>2. FifoInv /\ [FifoNext]_fifoVars => FifoInv'
  BY FifoInvNext
<1> QED
  BY <1>1, <1>2, PTL DEF FifoSpec

-----------------------------------------------------------------------------
(***************************************************************************)
(* The refinement: each step is one of the queue's, or none of them.       *)
(***************************************************************************)
\* The values that the queue's hand and doomed have here.
Hand == IF reading = NoSlot THEN NoChar ELSE buf[reading]
Doomed == IF mark = NoSlot THEN 0 ELSE Distance(head, mark)

\* A slice without slots.
LEMMA SliceOfNothing ==
  ASSUME NEW f, NEW h
  PROVE  Slice(f, h, 0) = <<>>
BY DEF Slice

\* The queue holds as many characters as the pointers say.
LEMMA ContentsLength ==
  ASSUME FifoTypeOK
  PROVE  /\ Contents \in Seq(Chars) /\ Len(Contents) = Length /\ Length \in 0..End
         /\ Length > 0 => Contents # <<>> /\ Head(Contents) = buf[head]
<1>1. Contents = Slice(buf, head, Length) /\ Length \in 0..End
  BY ContentsSlice
<1>2. /\ Contents \in Seq(Chars) /\ Len(Contents) = Length
      /\ \A k \in 1..Length : Contents[k] = buf[Ahead(head, k - 1)]
  BY <1>1, SliceProperties DEF FifoTypeOK
<1>3. ASSUME Length > 0
      PROVE  Contents # <<>> /\ Head(Contents) = buf[head]
  <2>1. Length \in Nat /\ 1 \in 1..Length
    BY <1>1, <1>3, SlotsAreNumbers
  <2>2. Contents # <<>>
    BY <1>2, <2>1
  <2>3. Head(Contents) = Contents[1]
    BY <1>2, <2>2
  <2>4. Ahead(head, 1 - 1) = head
    BY SlotsAreNumbers DEF Ahead, FifoTypeOK
  <2> QED
    BY <1>2, <2>1, <2>2, <2>3, <2>4
<1> QED
  BY <1>1, <1>2, <1>3

\* An empty buffer is an empty queue.
LEMMA InitMaps == FifoInit => Queue!QueueInit
<1> SUFFICES ASSUME FifoInit
             PROVE  Queue!QueueInit
  OBVIOUS
<1>1. Length = 0
  BY DEF FifoInit, Length, Distance
<1>2. Contents = <<>>
  BY <1>1 DEF Contents
<1> QED
  BY <1>2 DEF Queue!QueueInit, FifoInit

\* A store outside the contents changes neither them nor the slot being read.
LEMMA StoreIsHidden ==
  ASSUME FifoInv, ~IsFull, NEW c \in Chars, buf' = [buf EXCEPT ![tail] = c]
  PROVE  /\ buf' \in [Slots -> Chars]
         /\ Slice(buf', head, Length) = Contents
         /\ reading # NoSlot => buf'[reading] = buf[reading]
         /\ Length \in 0..(End - 1) /\ tail = Ahead(head, Length)
<1>1. FifoTypeOK /\ head \in Slots /\ tail \in Slots /\ buf \in [Slots -> Chars]
  BY DEF FifoInv, FifoTypeOK
<1>2. Contents = Slice(buf, head, Length) /\ Length \in 0..End /\ Length # End
  BY <1>1, ContentsSlice, FullLength
<1>3. Length \in 0..(End - 1) /\ tail = Ahead(head, Length)
  BY <1>1, <1>2, SlotsAreNumbers DEF Length, Distance, Ahead
<1>4. Slice(buf', head, Length) = Contents
  BY <1>1, <1>2, <1>3, SliceOutside
<1>5. ASSUME reading # NoSlot
      PROVE  buf'[reading] = buf[reading]
  <2>1. reading \in Slots /\ reading # tail
    BY <1>1, <1>5, FullLength DEF FifoInv, FifoTypeOK
  <2> QED
    BY <1>1, <2>1
<1> QED
  BY <1>1, <1>3, <1>4, <1>5

\* Moving tail over a character makes it the last of the queue.
LEMMA MoveAppends ==
  ASSUME NEW f \in [Slots -> Chars], head \in Slots, tail \in Slots, ~IsFull
  PROVE  /\ Distance(head, After(tail)) = Length + 1
         /\ Slice(f, head, Length + 1) = Append(Slice(f, head, Length), f[tail])
<1>1. Length \in 0..(End - 1) /\ tail = Ahead(head, Length)
  BY FullLength, SlotsAreNumbers DEF Length, Distance, Ahead
<1>2. Distance(head, After(tail)) = Length + 1
  BY FullLength, SlotsAreNumbers DEF Length, Distance, After
<1> QED
  BY <1>1, <1>2, SliceAppend

\* A step of the buffer is one of the queue, or is not seen.
LEMMA StepMaps ==
  FifoInv /\ [FifoNext]_fifoVars => [Queue!QueueNext]_(Queue!queueVars)
<1> SUFFICES ASSUME FifoInv, [FifoNext]_fifoVars
             PROVE  [Queue!QueueNext]_(Queue!queueVars)
  OBVIOUS
<1>0. /\ FifoTypeOK /\ head \in Slots /\ tail \in Slots /\ buf \in [Slots -> Chars]
      /\ Contents = Slice(buf, head, Length)
      /\ Contents \in Seq(Chars) /\ Len(Contents) = Length /\ Length \in 0..End
  BY ContentsSlice, ContentsLength DEF FifoInv, FifoTypeOK
<1> DEFINE newLength == Distance(head', tail')
<1>a. Contents' = Slice(buf', head', newLength)
  BY DEF Contents, Slice, Length
<1>1. ASSUME NEW c \in Chars, PushStore(c)
      PROVE  UNCHANGED Queue!queueVars
  <2>1. ~IsFull /\ buf' = [buf EXCEPT ![tail] = c] /\ UNCHANGED <<head, tail, reading, mark>>
    BY <1>1 DEF PushStore
  <2>2. newLength = Length
    BY <2>1 DEF Length
  <2>3. Slice(buf', head, Length) = Contents /\ (reading # NoSlot => buf'[reading] = buf[reading])
    BY <2>1, StoreIsHidden
  <2>4. Contents' = Contents
    BY <1>a, <2>1, <2>2, <2>3
  <2>5. UNCHANGED Hand /\ UNCHANGED Doomed
    BY <2>1, <2>3 DEF Hand, Doomed
  <2> QED
    BY <2>4, <2>5 DEF Queue!queueVars, Hand, Doomed
<1>2. ASSUME NEW c \in Chars, Push(c)
      PROVE  Queue!Put(c)
  <2>1. /\ ~IsFull /\ buf' = [buf EXCEPT ![tail] = c] /\ tail' = After(tail)
        /\ UNCHANGED <<head, reading, mark>>
    BY <1>2 DEF Push
  <2>2. /\ buf' \in [Slots -> Chars] /\ Slice(buf', head, Length) = Contents
        /\ reading # NoSlot => buf'[reading] = buf[reading]
        /\ Length \in 0..(End - 1)
    BY <2>1, StoreIsHidden
  <2>3. newLength = Length + 1 /\ Slice(buf', head, Length + 1) = Append(Contents, buf'[tail])
    BY <1>0, <2>1, <2>2, MoveAppends
  <2>4. buf'[tail] = c
    BY <1>0, <2>1
  <2>5. Contents' = Append(Contents, c)
    BY <1>a, <2>1, <2>3, <2>4
  <2>6. UNCHANGED Hand /\ UNCHANGED Doomed
    BY <2>1, <2>2 DEF Hand, Doomed
  <2>7. Len(Contents) < End
    BY <1>0, <2>2, SlotsAreNumbers
  <2> QED
    BY <2>5, <2>6, <2>7 DEF Queue!Put, Hand, Doomed
<1>3. CASE PushMove
  <2>1. ~IsFull /\ tail' = After(tail) /\ UNCHANGED <<buf, head, reading, mark>>
    BY <1>3 DEF PushMove, FifoInv
  <2>2. newLength = Length + 1 /\ Slice(buf, head, Length + 1) = Append(Contents, buf[tail])
    BY <1>0, <2>1, MoveAppends
  <2>3. Contents' = Append(Contents, buf[tail])
    BY <1>a, <2>1, <2>2
  <2>4. UNCHANGED Hand /\ UNCHANGED Doomed
    BY <2>1 DEF Hand, Doomed
  <2>5. Len(Contents) < End /\ buf[tail] \in Chars
    BY <1>0, <2>1, FullLength, SlotsAreNumbers
  <2>6. Queue!Put(buf[tail])
    BY <2>3, <2>4, <2>5 DEF Queue!Put, Hand, Doomed
  <2> QED
    BY <2>5, <2>6 DEF Queue!QueueNext
<1>4. CASE PopMove
  <2>1. /\ reading = NoSlot /\ mark = NoSlot /\ ~IsEmpty /\ reading' = head
        /\ head' = After(head) /\ UNCHANGED <<buf, tail, mark>>
    BY <1>4 DEF PopMove
  <2>2. Length \in 1..End
    BY <1>0, <2>1, FullLength, SlotsAreNumbers
  <2>3. Contents # <<>> /\ Head(Contents) = buf[head]
    BY <1>0, <2>2, ContentsLength, SlotsAreNumbers
  <2>4. newLength = Length - 1 /\ head' = Ahead(head, 1)
    BY <1>0, <2>1, SlotsAreNumbers DEF Length, Distance, After, Ahead, IsEmpty
  <2>5. Contents' = SubSeq(Contents, 2, Length)
    <3>1. 1 \in 0..Length /\ 1 + 1 = 2
      BY <2>2, SlotsAreNumbers
    <3>2. Slice(buf, Ahead(head, 1), Length - 1) = SubSeq(Contents, 1 + 1, Length)
      BY <1>0, <3>1, SliceRest
    <3> QED
      BY <1>a, <2>1, <2>4, <3>1, <3>2
  <2>6. Contents' = Tail(Contents)
    BY <1>0, <2>3, <2>5, TailIsSubSeq
  <2>7. head # NoSlot
    BY <1>0, SlotAssumption, SlotsAreNumbers
  <2>8. Hand = NoChar /\ Hand' = buf[head] /\ Doomed = 0 /\ UNCHANGED Doomed
    BY <2>1, <2>7 DEF Hand, Doomed
  <2>9. Queue!Take
    BY <2>3, <2>6, <2>8 DEF Queue!Take, Hand, Doomed
  <2> QED
    BY <2>9 DEF Queue!QueueNext
<1>5. CASE PopRead
  <2>1. reading # NoSlot /\ reading' = NoSlot /\ UNCHANGED <<buf, head, tail, mark>>
    BY <1>5 DEF PopRead
  <2>2. buf[reading] \in Chars
    BY <2>1 DEF FifoInv, FifoTypeOK
  <2>3. Hand # NoChar /\ Hand' = NoChar /\ UNCHANGED Doomed
    BY <2>1, <2>2, CharsAssumption DEF Hand, Doomed
  <2>4. Contents' = Contents
    BY <1>0, <1>a, <2>1 DEF Length
  <2>5. Queue!Return
    BY <2>3, <2>4 DEF Queue!Return, Hand, Doomed
  <2> QED
    BY <2>5 DEF Queue!QueueNext
<1>6. CASE FlushLoad
  <2>1. reading = NoSlot /\ mark = NoSlot /\ mark' = tail /\ UNCHANGED <<buf, head, tail, reading>>
    BY <1>6 DEF FlushLoad
  <2>2. tail # NoSlot
    BY <1>0, SlotAssumption, SlotsAreNumbers
  <2>3. Hand = NoChar /\ UNCHANGED Hand /\ Doomed' = Length
    BY <2>1, <2>2 DEF Hand, Doomed, Length
  <2>4. Contents' = Contents
    BY <1>0, <1>a, <2>1 DEF Length
  <2>5. Queue!Doom
    BY <1>0, <2>3, <2>4 DEF Queue!Doom, Hand, Doomed
  <2> QED
    BY <2>5 DEF Queue!QueueNext
<1>7. CASE FlushStore
  <2>1. mark # NoSlot /\ head' = mark /\ mark' = NoSlot /\ UNCHANGED <<buf, tail, reading>>
    BY <1>7 DEF FlushStore
  <2>2. mark \in Slots /\ Doomed = Distance(head, mark) /\ Doomed <= Length
    BY <2>1 DEF FifoInv, FifoTypeOK, Doomed
  <2>3. reading = NoSlot /\ UNCHANGED Hand /\ Doomed' = 0
    BY <2>1 DEF Hand, Doomed, FifoInv
  <2>4. /\ Doomed \in 0..Length /\ head' = Ahead(head, Doomed)
        /\ newLength = Length - Doomed
    BY <1>0, <2>1, <2>2, SlotsAreNumbers DEF Length, Distance, Ahead
  <2>5. Contents' = SubSeq(Contents, Doomed + 1, Length)
    BY <1>0, <1>a, <2>1, <2>4, SliceRest
  <2>6. Queue!Discard
    BY <1>0, <2>3, <2>5 DEF Queue!Discard, Hand, Doomed
  <2> QED
    BY <2>6 DEF Queue!QueueNext
<1>8. CASE UNCHANGED fifoVars
  <2>1. Contents' = Contents /\ UNCHANGED Hand /\ UNCHANGED Doomed
    BY <1>0, <1>a, <1>8 DEF fifoVars, Length, Hand, Doomed
  <2> QED
    BY <2>1 DEF Queue!queueVars, Hand, Doomed
<1> QED
  BY <1>1, <1>2, <1>3, <1>4, <1>5, <1>6, <1>7, <1>8 DEF FifoNext, Queue!QueueNext

(***************************************************************************)
(* fifobuf.h:154-157, 187: fifo_push() and fifo_pop() may be called from   *)
(* concurrent contexts.  A buffer of any size is a queue of one character  *)
(* less, whatever the interleaving.                                        *)
(***************************************************************************)
THEOREM FifoIsQueue == FifoSpec => ImplementsQueue
<1>1. FifoInit => Queue!QueueInit
  BY InitMaps
<1>2. FifoInv /\ [FifoNext]_fifoVars => [Queue!QueueNext]_(Queue!queueVars)
  BY StepMaps
<1> QED
  BY <1>1, <1>2, FifoInvariance, PTL DEF FifoSpec, ImplementsQueue, Queue!QueueSpec

-----------------------------------------------------------------------------
\* The calls that are in progress in the receive buffer.
Receiver ==
  /\ reading # NoSlot => pc = "get_pop"
  /\ mark # NoSlot => pc \in {"purge_rx", "purge_both", "close_rx"}
  /\ pc \in {"close_rx", "close_tx", "open"} => ~rxie
  /\ pc = "close_rx" => mark = tail
  /\ pc \in {"close_tx", "open"} => head = tail

\* With a transceiver, sending is TRUE from before the first interrupt is
\* enabled until the last one is served, and one of the two is enabled.  As
\* long as nobody was late, TXC speaks of the last bit that was to be sent.
Transmitter ==
  /\ pc \in {"tx_pop", "tx_move", "tx_ready", "tx_store"} => driver = "stm32"
  /\ driver = "mega485" =>
       /\ ~sending => txie = FALSE /\ tcie = FALSE
       /\ ~sending /\ ~late => dr = NoChar /\ shift = NoChar
       /\ txc /\ ~late => tcie /\ dr = NoChar /\ shift = NoChar
       /\ pc = "tx_begin" => sending /\ txie = FALSE /\ tcie = FALSE
       /\ pc = "close" => ~sending
       /\ txie = TRUE => tcie = FALSE

\* A character that is being sent is one, and has room in the buffer.
Sender ==
  /\ SerTypeOK
  /\ pc \in {"put_wait", "put_push", "tx_move", "tx_ready", "tx_store"} => char \in Chars
  /\ pc = "put_push" => Len(txfifo) < TxSize

SerInv == FifoInv /\ Receiver /\ Transmitter /\ OverrunReported /\ Sender

-----------------------------------------------------------------------------
\* The port is closed and empty.
LEMMA SerInvInit == SerInit => SerInv
<1> SUFFICES ASSUME SerInit
             PROVE  SerInv
  OBVIOUS
<1>1. FifoInv
  BY FifoInvInit DEF SerInit
<1>2. Receiver
  BY DEF SerInit, FifoInit, Receiver
<1>3. Transmitter
  BY DEF SerInit, Transmitter
<1>4. OverrunReported
  BY DEF SerInit, OverrunReported
<1>5. Sender
  <2>1. txfifo \in Seq(Chars) /\ Len(txfifo) <= TxSize /\ pc = "user"
    BY TxAssumption DEF SerInit
  <2>2. status \subseteq RxErrors \cup TxErrors
    BY DEF SerInit
  <2> QED
    BY <1>1, <2>1, <2>2 DEF SerInit, Sender, SerTypeOK, FifoInv
<1> QED
  BY <1>1, <1>2, <1>3, <1>4, <1>5 DEF SerInv

(***************************************************************************)
(* The steps of the process and of the handlers leave the receive buffer   *)
(* alone, or are those of Fifo; only ser_open() initialises it.            *)
(***************************************************************************)
LEMMA FifoPart ==
  ASSUME [SerNext]_serVars
  PROVE  [FifoNext]_fifoVars \/ Open
<1>1. ASSUME NEW c \in Chars, NEW errors, MegaRx(c, errors) \/ StmRx(c, errors)
      PROVE  [FifoNext]_fifoVars
  BY <1>1 DEF MegaRx, StmRx, Receive, FifoNext
<1>2. CASE GetPop
  BY <1>2 DEF GetPop, FifoNext
<1>3. CASE Purge \/ Close
  BY <1>3 DEF Purge, Close, FifoNext
<1>4. CASE PurgeRx
  BY <1>4 DEF PurgeRx, FifoNext
<1>5. CASE PutWait \/ PutPush \/ TxStart \/ TxBegin \/ TxPop \/ TxMove \/ TxReady \/ TxStore
  BY <1>5 DEF PutWait, PutPush, TxStart, TxBegin, TxPop, TxMove, TxReady, TxStore
<1>6. CASE GetWait \/ GetStatus \/ PurgeTx \/ FlushWait \/ OpenClear
  BY <1>6 DEF GetWait, GetStatus, PurgeTx, FlushWait, OpenClear
<1>7. CASE (\E c \in TxChars : PutChar(c)) \/ GetChar \/ ClearErr \/ Flush
  BY <1>7 DEF PutChar, GetChar, ClearErr, Flush
<1>8. CASE PutTimeout \/ GetTimeout \/ MegaTx \/ MegaTxDone \/ Shift \/ Sent
  BY <1>8 DEF PutTimeout, GetTimeout, MegaTx, MegaTxDone, Shift, Sent
<1>9. CASE UNCHANGED serVars
  BY <1>9 DEF serVars
<1> QED
  BY <1>1, <1>2, <1>3, <1>4, <1>5, <1>6, <1>7, <1>8, <1>9
  DEF SerNext, Continue, Decide, Hardware

\* The port keeps the invariant of its receive buffer.
LEMMA FifoKept == SerInv /\ [SerNext]_serVars => FifoInv'
<1> SUFFICES ASSUME SerInv, [SerNext]_serVars
             PROVE  FifoInv'
  OBVIOUS
<1>1. CASE [FifoNext]_fifoVars
  BY <1>1, FifoInvNext DEF SerInv
<1>2. CASE Open
  <2>1. /\ mark = NoSlot /\ reading = NoSlot /\ FifoInv
    BY <1>2 DEF Open, At, SerInv, Receiver
  <2>2. /\ head' = 0 /\ tail' = 0 /\ 0 \in Slots
        /\ UNCHANGED <<buf, writing, reading, mark>>
    BY <1>2, SlotsAreNumbers DEF Open
  <2>3. (~IsFull)'
    BY <2>2, SlotsAreNumbers DEF IsFull
  <2> QED
    BY <2>1, <2>2, <2>3 DEF FifoInv, FifoTypeOK
<1> QED
  BY <1>1, <1>2, FifoPart

\* Receiver is kept.
LEMMA ReceiverKept == SerInv /\ [SerNext]_serVars => Receiver'
<1> SUFFICES ASSUME SerInv, [SerNext]_serVars
             PROVE  Receiver'
  OBVIOUS
<1> USE DEF At, Goto
<1>1. ASSUME NEW c \in Chars, NEW errors, MegaRx(c, errors) \/ StmRx(c, errors)
      PROVE  Receiver'
  BY <1>1 DEF MegaRx, StmRx, Receive, Push, fifoVars, irqVars, SerInv, Receiver
<1>2. CASE GetPop
  BY <1>2 DEF GetPop, PopMove, PopRead, irqVars, SerInv, Receiver
<1>3. CASE Purge
  BY <1>3 DEF Purge, FlushLoad, irqVars, SerInv, Receiver
<1>4. CASE Close
  BY <1>4 DEF Close, FlushLoad, SerInv, Receiver
<1>5. CASE PurgeRx
  BY <1>5 DEF PurgeRx, FlushStore, irqVars, SerInv, Receiver
<1>6. CASE Open
  BY <1>6 DEF Open, SerInv, Receiver
<1>7. CASE PutWait \/ PutPush \/ TxStart \/ TxBegin \/ TxPop \/ TxMove \/ TxReady \/ TxStore
  BY <1>7 DEF PutWait, PutPush, TxStart, TxBegin, TxPop, TxMove, TxReady, TxStore,
              fifoVars, irqVars, SerInv, Receiver
<1>8. CASE GetWait \/ GetStatus \/ PurgeTx \/ FlushWait \/ OpenClear
  BY <1>8 DEF GetWait, GetStatus, PurgeTx, FlushWait, OpenClear,
              fifoVars, irqVars, SerInv, Receiver
<1>9. CASE (\E c \in TxChars : PutChar(c)) \/ GetChar \/ ClearErr \/ Flush
  BY <1>9 DEF PutChar, GetChar, ClearErr, Flush, fifoVars, irqVars, SerInv, Receiver
<1>10. CASE PutTimeout \/ GetTimeout \/ Shift \/ Sent
  BY <1>10 DEF PutTimeout, GetTimeout, Shift, Sent, fifoVars, irqVars, SerInv, Receiver
<1>11. CASE MegaTx \/ MegaTxDone
  <2>1. UNCHANGED <<reading, mark, head, tail, pc, rxie>>
    BY <1>11 DEF MegaTx, MegaTxDone, fifoVars
  <2> QED
    BY <2>1 DEF SerInv, Receiver
<1>12. CASE UNCHANGED serVars
  BY <1>12 DEF serVars, fifoVars, irqVars, SerInv, Receiver
<1> QED
  BY <1>1, <1>2, <1>3, <1>4, <1>5, <1>6, <1>7, <1>8, <1>9, <1>10, <1>11, <1>12
  DEF SerNext, Continue, Decide, Hardware

\* Transmitter is kept.
LEMMA TransmitterKept == SerInv /\ [SerNext]_serVars => Transmitter'
<1> SUFFICES ASSUME SerInv, [SerNext]_serVars
             PROVE  Transmitter'
  OBVIOUS
<1> USE DEF At, Goto
<1>a. <<sending, txc, late, txie, tcie>> \in BOOLEAN \X BOOLEAN \X BOOLEAN \X BOOLEAN \X BOOLEAN
  BY DEF SerInv, Sender, SerTypeOK
<1>1. ASSUME NEW c \in Chars, NEW errors, MegaRx(c, errors) \/ StmRx(c, errors)
      PROVE  Transmitter'
  BY <1>1 DEF MegaRx, StmRx, StmTransmit, txVars, irqVars, SerInv, Transmitter
<1>2. CASE PutWait \/ PutPush \/ TxPop \/ TxMove \/ TxReady
  BY <1>2 DEF PutWait, PutPush, TxPop, TxMove, TxReady,
              txVars, uartVars, irqVars, SerInv, Transmitter
<1>3. CASE TxStart
  BY <1>3 DEF TxStart, irqVars, SerInv, Transmitter
<1>4. CASE TxBegin
  BY <1>4 DEF TxBegin, txVars, SerInv, Transmitter
<1>5. CASE TxStore
  BY <1>5 DEF TxStore, irqVars, SerInv, Transmitter
<1>6. CASE GetWait \/ GetStatus \/ GetPop \/ PurgeRx \/ FlushWait \/ OpenClear
  BY <1>6 DEF GetWait, GetStatus, GetPop, PurgeRx, FlushWait, OpenClear,
              txVars, irqVars, SerInv, Transmitter
<1>7. CASE PurgeTx
  <2>1. late' = FALSE => late = FALSE
    BY <1>7, <1>a DEF PurgeTx
  <2> QED
    BY <1>7, <1>a, <2>1 DEF PurgeTx, irqVars, SerInv, Transmitter
<1>8. CASE Close
  <2>1. UNCHANGED <<driver, dr, shift, txc, late>> /\ pc = "close" /\ pc' = "close_rx"
    BY <1>8 DEF Close, uartVars
  <2>2. tcie' = FALSE /\ txie' = FALSE
    BY <1>8 DEF Close
  <2>3. driver = "mega485" => UNCHANGED sending /\ ~sending /\ (late \/ ~txc)
    BY <1>8, <2>1 DEF Close, SerInv, Transmitter
  <2> QED
    BY <1>a, <2>1, <2>2, <2>3 DEF SerInv, Transmitter
<1>9. CASE Open
  BY <1>9 DEF Open, uartVars, SerInv, Transmitter
<1>10. CASE (\E c \in TxChars : PutChar(c)) \/ GetChar \/ ClearErr \/ Purge \/ Flush
  BY <1>10 DEF PutChar, GetChar, ClearErr, Purge, Flush, txVars, irqVars, SerInv, Transmitter
<1>11. CASE PutTimeout \/ GetTimeout
  BY <1>11 DEF PutTimeout, GetTimeout, txVars, irqVars, SerInv, Transmitter
<1>12. CASE MegaTx
  BY <1>12 DEF MegaTx, SerInv, Transmitter
<1>13. CASE MegaTxDone
  BY <1>13 DEF MegaTxDone, SerInv, Transmitter
<1>14. CASE Shift
  BY <1>14 DEF Shift, irqVars, SerInv, Transmitter
<1>15. CASE Sent
  <2>1. /\ UNCHANGED <<driver, pc, sending, dr, txie, tcie>> /\ shift' = NoChar
        /\ driver = "mega485" /\ late' = FALSE => late = FALSE
        /\ driver = "mega485" /\ late' = FALSE /\ dr = NoChar => tcie
        /\ dr # NoChar => txc' = txc
    BY <1>15, <1>a DEF Sent, irqVars
  <2> QED
    BY <1>a, <2>1 DEF SerInv, Transmitter
<1>16. CASE UNCHANGED serVars
  BY <1>16 DEF serVars, txVars, irqVars, SerInv, Transmitter
<1> QED
  BY <1>1, <1>2, <1>3, <1>4, <1>5, <1>6, <1>7, <1>8, <1>9, <1>10, <1>11, <1>12, <1>13,
     <1>14, <1>15, <1>16
  DEF SerNext, Continue, Decide, Hardware

\* An overrun stays reported.
LEMMA OverrunKept == SerInv /\ [SerNext]_serVars => OverrunReported'
<1> SUFFICES ASSUME SerInv, [SerNext]_serVars
             PROVE  OverrunReported'
  OBVIOUS
<1>1. ASSUME NEW c \in Chars, NEW errors, MegaRx(c, errors) \/ StmRx(c, errors)
      PROVE  OverrunReported'
  BY <1>1 DEF MegaRx, StmRx, Receive, SerInv, OverrunReported
<1>2. CASE ClearErr \/ Open \/ OpenClear
  BY <1>2 DEF ClearErr, Open, OpenClear, SerInv, OverrunReported
<1>3. CASE PutTimeout \/ GetTimeout
  BY <1>3 DEF PutTimeout, GetTimeout, SerInv, OverrunReported
<1>4. CASE PutWait \/ PutPush \/ TxStart \/ TxBegin \/ TxPop \/ TxMove \/ TxReady \/ TxStore
  BY <1>4 DEF PutWait, PutPush, TxStart, TxBegin, TxPop, TxMove, TxReady, TxStore, SerInv, OverrunReported
<1>5. CASE GetWait \/ GetStatus \/ GetPop \/ PurgeRx \/ PurgeTx \/ FlushWait \/ Close
  BY <1>5 DEF GetWait, GetStatus, GetPop, PurgeRx, PurgeTx, FlushWait, Close,
              SerInv, OverrunReported
<1>6. CASE (\E c \in TxChars : PutChar(c)) \/ GetChar \/ Purge \/ Flush
  BY <1>6 DEF PutChar, GetChar, Purge, Flush, SerInv, OverrunReported
<1>7. CASE MegaTx \/ MegaTxDone \/ Shift \/ Sent
  BY <1>7 DEF MegaTx, MegaTxDone, Shift, Sent, SerInv, OverrunReported
<1>8. CASE UNCHANGED serVars
  BY <1>8 DEF serVars, SerInv, OverrunReported
<1> QED
  BY <1>1, <1>2, <1>3, <1>4, <1>5, <1>6, <1>7, <1>8
  DEF SerNext, Continue, Decide, Hardware

\* What the steps do to the transmit buffer: put one character, which the
\* caller has found room for, take one, or empty it.
TxKept == UNCHANGED txfifo \/ txfifo' = <<>> \/ (txfifo # <<>> /\ txfifo' = Tail(txfifo))

\* Taking from the transmit buffer keeps its type.
LEMMA TailTyped ==
  ASSUME txfifo \in Seq(Chars), Len(txfifo) <= TxSize, TxKept
  PROVE  txfifo' \in Seq(Chars) /\ Len(txfifo') <= Len(txfifo)
<1>1. CASE UNCHANGED txfifo
  BY <1>1
<1>2. CASE txfifo' = <<>>
  BY <1>2
<1>3. CASE txfifo # <<>> /\ txfifo' = Tail(txfifo)
  BY <1>3, HeadTailProperties
<1> QED
  BY <1>1, <1>2, <1>3 DEF TxKept

\* Sender is kept.
LEMMA SenderKept == SerInv /\ [SerNext]_serVars /\ FifoInv' => Sender'
<1> SUFFICES ASSUME SerInv, [SerNext]_serVars, FifoInv'
             PROVE  Sender'
  OBVIOUS
<1> USE DEF At, Goto
<1> DEFINE Chars0 == Chars \cup {NoChar}
           Placed == pc \in {"put_wait", "put_push", "tx_move", "tx_ready", "tx_store"} => char \in Chars
           Others == /\ driver \in Drivers /\ char \in Chars0
                     /\ sending \in BOOLEAN /\ missed \in BOOLEAN
                     /\ txc \in BOOLEAN /\ late \in BOOLEAN
                     /\ status \subseteq RxErrors \cup TxErrors
                     /\ <<rxie, txie, tcie>> \in BOOLEAN \X BOOLEAN \X BOOLEAN
                     /\ dr \in Chars0 /\ shift \in Chars0
<1>a. /\ Others /\ Placed /\ FifoTypeOK'
      /\ txfifo \in Seq(Chars) /\ Len(txfifo) <= TxSize
      /\ pc = "put_push" => Len(txfifo) < TxSize
  BY DEF SerInv, Sender, SerTypeOK, FifoInv
<1>b. ASSUME Others', Placed', TxKept, pc' = "put_push" => Len(txfifo') < TxSize
      PROVE  Sender'
  <2>1. txfifo' \in Seq(Chars) /\ Len(txfifo') <= Len(txfifo) /\ Len(txfifo) \in Nat
    BY <1>a, <1>b, TailTyped
  <2> QED
    BY <1>a, <1>b, <2>1, TxAssumption DEF Sender, SerTypeOK
<1>c. ASSUME txfifo # <<>>
      PROVE  Head(txfifo) \in Chars
  BY <1>a, <1>c, HeadTailProperties
<1>1. ASSUME NEW c \in Chars, NEW errors \in SUBSET {"frame"}, MegaRx(c, errors)
      PROVE  Sender'
  BY <1>1, <1>a, <1>b DEF MegaRx, Receive, RxErrors, TxErrors, TxKept, txVars, irqVars
<1>2. ASSUME NEW c \in Chars, NEW errors \in SUBSET {"frame"}, StmRx(c, errors)
      PROVE  Sender'
  <2>1. /\ status' \subseteq RxErrors \cup TxErrors /\ missed' \in BOOLEAN
        /\ UNCHANGED <<driver, pc, char, shift, txc, late, rxie, tcie>>
    BY <1>2, <1>a DEF StmRx, Receive, RxErrors, TxErrors
  <2>2. /\ TxKept /\ dr' \in Chars0 /\ sending' \in BOOLEAN /\ txie' \in BOOLEAN
    BY <1>2, <1>a, <1>c DEF StmRx, StmTransmit, TxKept
  <2>3. pc' = "put_push" => Len(txfifo') < TxSize
    BY <1>a, <2>1, <2>2, TailTyped, TxAssumption
  <2> QED
    BY <1>a, <1>b, <2>1, <2>2, <2>3
<1>3. CASE PutWait
  BY <1>3, <1>a, <1>b, TxAssumption DEF PutWait, TxFull, TxKept, txVars, irqVars
<1>4. CASE PutPush
  <2>1. /\ txfifo' \in Seq(Chars) /\ Len(txfifo') = Len(txfifo) + 1 /\ Len(txfifo) \in Nat
    BY <1>4, <1>a, AppendProperties DEF PutPush
  <2>2. Others' /\ pc' = "tx_start"
    BY <1>4, <1>a DEF PutPush, uartVars, irqVars
  <2>3. Len(txfifo') <= TxSize
    BY <1>4, <1>a, <2>1, TxAssumption DEF PutPush
  <2> QED
    BY <1>a, <2>1, <2>2, <2>3 DEF Sender, SerTypeOK
<1>5. CASE TxStart \/ TxBegin
  BY <1>5, <1>a, <1>b DEF TxStart, TxBegin, TxKept, txVars, irqVars
<1>6. CASE TxPop \/ TxMove
  BY <1>6, <1>a, <1>b, <1>c DEF TxPop, TxMove, TxKept, txVars, uartVars, irqVars
<1>7. CASE TxReady \/ TxStore
  BY <1>7, <1>a, <1>b DEF TxReady, TxStore, TxKept, txVars, irqVars
<1>8. CASE GetWait \/ GetStatus \/ GetPop \/ PurgeRx
  BY <1>8, <1>a, <1>b DEF GetWait, GetStatus, GetPop, PurgeRx, TxKept, txVars, irqVars
<1>9. CASE PurgeTx \/ FlushWait
  BY <1>9, <1>a, <1>b DEF PurgeTx, FlushWait, TxKept, txVars, irqVars
<1>10. CASE Close \/ Open \/ OpenClear
  BY <1>10, <1>a, <1>b DEF Close, Open, OpenClear, TxKept, txVars, uartVars, irqVars
<1>11. ASSUME NEW c \in TxChars, PutChar(c)
       PROVE  Sender'
  <2>1. c \in Chars
    BY TxAssumption
  <2>2. Len(txfifo) # TxSize => Len(txfifo) < TxSize
    BY <1>a, TxAssumption
  <2> QED
    BY <1>11, <1>a, <1>b, <2>1, <2>2 DEF PutChar, TxFull, TxKept, txVars, irqVars
<1>12. CASE GetChar \/ ClearErr \/ Purge \/ Flush
  BY <1>12, <1>a, <1>b DEF GetChar, ClearErr, Purge, Flush, TxKept, txVars, irqVars
<1>13. CASE PutTimeout \/ GetTimeout
  BY <1>13, <1>a, <1>b DEF PutTimeout, GetTimeout, TxKept, txVars, irqVars, RxErrors, TxErrors
<1>14. CASE MegaTx
  <2>1. /\ TxKept /\ dr' \in Chars0 /\ sending' \in BOOLEAN
        /\ txie' \in BOOLEAN /\ tcie' \in BOOLEAN
        /\ UNCHANGED <<driver, pc, char, shift, txc, late, status, missed, rxie>>
    BY <1>14, <1>a, <1>c DEF MegaTx, TxKept
  <2>2. pc' = "put_push" => Len(txfifo') < TxSize
    BY <1>a, <2>1, TailTyped, TxAssumption
  <2> QED
    BY <1>a, <1>b, <2>1, <2>2
<1>15. CASE MegaTxDone
  BY <1>15, <1>a, <1>b DEF MegaTxDone, TxKept
<1>16. CASE Shift \/ Sent
  BY <1>16, <1>a, <1>b DEF Shift, Sent, TxKept, irqVars
<1>17. CASE UNCHANGED serVars
  BY <1>17, <1>a, <1>b DEF serVars, TxKept, txVars, irqVars
<1> QED
  BY <1>1, <1>2, <1>3, <1>4, <1>5, <1>6, <1>7, <1>8, <1>9, <1>10, <1>11, <1>12, <1>13,
     <1>14, <1>15, <1>16, <1>17
  DEF SerNext, Continue, Decide, Hardware

(***************************************************************************)
(* The inductive invariant holds in every reachable state.                 *)
(***************************************************************************)
THEOREM SerInvariance == SerSpec => []SerInv
<1>1. SerInit => SerInv
  BY SerInvInit
<1>2. SerInv /\ [SerNext]_serVars => SerInv'
  BY FifoKept, ReceiverKept, TransmitterKept, OverrunKept, SenderKept DEF SerInv
<1> QED
  BY <1>1, <1>2, PTL DEF SerSpec

(***************************************************************************)
(* Nothing is put into a full transmit buffer, nor taken from an empty one *)
(* by a handler.                                                           *)
(***************************************************************************)
THEOREM PortTypeCorrect == SerSpec => []SerTypeOK
<1>1. SerInv => SerTypeOK
  BY DEF SerInv, Sender
<1> QED
  BY <1>1, SerInvariance, PTL

(***************************************************************************)
(* ser_mega.c: a character thrown away leaves an error that stays until    *)
(* the application clears it.                                              *)
(***************************************************************************)
THEOREM OverrunIsReported == SerSpec => []OverrunReported
<1>1. SerInv => OverrunReported
  BY DEF SerInv
<1> QED
  BY <1>1, SerInvariance, PTL

(***************************************************************************)
(* ser_mega.c:989-1003: nothing is in the transmit buffer when ser_flush() *)
(* returns, nor in the UART when it has a transceiver to turn, as long as  *)
(* no handler was late.                                                    *)
(***************************************************************************)
THEOREM FlushedIsSent == SerSpec => FlushMeansSent
<1> DEFINE Sends == /\ pc \in {"flush", "close_flush"} /\ pc' # pc
                    => /\ txfifo = <<>>
                       /\ driver = "mega485" /\ ~late => dr = NoChar /\ shift = NoChar
<1>1. ASSUME SerInv, [SerNext]_serVars
      PROVE  [Sends]_serVars
  <2> USE DEF At, Goto
  <2>1. ASSUME NEW c \in Chars, NEW errors, MegaRx(c, errors) \/ StmRx(c, errors)
        PROVE  Sends
    BY <2>1 DEF MegaRx, StmRx
  <2>2. CASE FlushWait
    BY <1>1, <2>2 DEF FlushWait, SerInv, Transmitter
  <2>3. CASE PutWait \/ PutPush \/ TxStart \/ TxBegin \/ TxPop \/ TxMove \/ TxReady \/ TxStore
    BY <2>3 DEF PutWait, PutPush, TxStart, TxBegin, TxPop, TxMove, TxReady, TxStore
  <2>4. CASE GetWait \/ GetStatus \/ GetPop \/ PurgeRx \/ PurgeTx \/ Close \/ Open
             \/ OpenClear
    BY <2>4 DEF GetWait, GetStatus, GetPop, PurgeRx, PurgeTx, Close, Open, OpenClear
  <2>5. CASE (\E c \in TxChars : PutChar(c)) \/ GetChar \/ ClearErr \/ Purge \/ Flush
    BY <2>5 DEF PutChar, GetChar, ClearErr, Purge, Flush
  <2>6. CASE PutTimeout \/ GetTimeout \/ MegaTx \/ MegaTxDone \/ Shift \/ Sent
    BY <2>6 DEF PutTimeout, GetTimeout, MegaTx, MegaTxDone, Shift, Sent
  <2> QED
    BY <1>1, <2>1, <2>2, <2>3, <2>4, <2>5, <2>6 DEF SerNext, Continue, Decide, Hardware
<1> QED
  BY <1>1, SerInvariance, PTL DEF SerSpec, FlushMeansSent

(***************************************************************************)
(* fifobuf.h:154-157, 187, in its use by ser.c and the drivers: the        *)
(* receive buffer is a queue also while the port is purged, closed and     *)
(* opened again.                                                           *)
(***************************************************************************)
THEOREM PortKeepsQueue == SerSpec => ImplementsQueue
<1>1. SerInit => Queue!QueueInit
  BY InitMaps DEF SerInit
<1>2. ASSUME SerInv, [SerNext]_serVars
      PROVE  [Queue!QueueNext]_(Queue!queueVars)
  <2>1. CASE [FifoNext]_fifoVars
    BY <1>2, <2>1, StepMaps DEF SerInv
  <2>2. CASE Open
    <3>1. /\ head = tail /\ mark = NoSlot /\ reading = NoSlot
          /\ head' = 0 /\ tail' = 0 /\ UNCHANGED <<buf, reading, mark>>
      BY <1>2, <2>2 DEF Open, At, SerInv, Receiver
    <3>2. Length = 0 /\ Length' = 0
      BY <1>2, <3>1, SlotsAreNumbers DEF Length, Distance, SerInv, FifoInv, FifoTypeOK
    <3>3. Contents = <<>> /\ Contents' = <<>>
      BY <3>2 DEF Contents
    <3> QED
      BY <3>1, <3>3 DEF Queue!queueVars
  <2> QED
    BY <1>2, <2>1, <2>2, FifoPart
<1> QED
  BY <1>1, <1>2, SerInvariance, PTL DEF SerSpec, ImplementsQueue, Queue!QueueSpec
=============================================================================
