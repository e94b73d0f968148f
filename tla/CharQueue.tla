------------------------------ MODULE CharQueue ------------------------------
(***************************************************************************)
(* What struct/fifobuf.h promises to one context that pushes and one that  *)
(* pops: a queue of at most Capacity characters.  A character is the       *)
(* consumer's from the moment it leaves the queue, and stays what it was   *)
(* until fifo_pop() has returned it.                                       *)
(***************************************************************************)
EXTENDS Integers, Sequences

CONSTANTS
  Capacity,  \* how many characters fit
  Chars,     \* the characters
  NoChar     \* no character

VARIABLES
  queue,  \* the characters pushed and not yet popped
  hand,   \* the character that fifo_pop() is about to return, or NoChar
  doomed  \* how many characters a fifo_flush() in progress will discard

queueVars == <<queue, hand, doomed>>

QueueInit == queue = <<>> /\ hand = NoChar /\ doomed = 0

\* fifo_push(c), on a queue that is not full.
Put(c) ==
  /\ Len(queue) < Capacity
  /\ queue' = Append(queue, c)
  /\ UNCHANGED <<hand, doomed>>

\* fifo_pop(), on a queue that is not empty, picks its character.
Take ==
  /\ queue # <<>> /\ hand = NoChar /\ doomed = 0
  /\ hand' = Head(queue)
  /\ queue' = Tail(queue)
  /\ UNCHANGED doomed

\* fifo_pop() returns it.
Return ==
  /\ hand # NoChar
  /\ hand' = NoChar
  /\ UNCHANGED <<queue, doomed>>

\* fifo_flush() discards the characters that are in the queue when it begins.
Doom ==
  /\ hand = NoChar
  /\ doomed' = Len(queue)
  /\ UNCHANGED <<queue, hand>>

Discard ==
  /\ queue' = SubSeq(queue, doomed + 1, Len(queue))
  /\ doomed' = 0
  /\ UNCHANGED hand

QueueNext == (\E c \in Chars : Put(c)) \/ Take \/ Return \/ Doom \/ Discard

QueueSpec == QueueInit /\ [][QueueNext]_queueVars
=============================================================================
