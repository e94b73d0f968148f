------------------------------- MODULE PriList -------------------------------
(***************************************************************************)
(* The intrusive lists of struct/list.h, as far as the kernel uses them.   *)
(* A list is the sequence of the nodes found by following succ from the    *)
(* list head.  The priority a node carries (PriNode.pri) is a function of  *)
(* the node, passed as pri: the code compares the values found in the      *)
(* nodes at the time of the insertion, so a node whose priority is changed *)
(* in place may leave the list unsorted.                                   *)
(***************************************************************************)
EXTENDS Integers, SequencesExt

\* A node occurs at most once in a list.
NoDup(list) == \A i, j \in 1..Len(list) : list[i] = list[j] => i = j

\* Higher priorities first; the order among equals is the history.
Sorted(list, pri) ==
  \A i, j \in 1..Len(list) : i < j => pri[list[i]] >= pri[list[j]]

(***************************************************************************)
(* FOREACH_NODE(ln, list) if (stop(ln)) break: the position of the first   *)
(* node that stops the walk, one past the end when none does.              *)
(***************************************************************************)
WalkUntil(list, stop(_)) ==
  CHOOSE k \in 1..(Len(list) + 1) :
    /\ k <= Len(list) => stop(list[k])
    /\ \A j \in 1..(k - 1) : ~stop(list[j])

\* LIST_ENQUEUE: before the first node of lower priority.
Enqueue(list, node, pri) ==
  InsertAt(list, WalkUntil(list, LAMBDA ln : pri[ln] < pri[node]), node)

\* LIST_ENQUEUE_HEAD: before the first node of no higher priority.
EnqueueHead(list, node, pri) ==
  InsertAt(list, WalkUntil(list, LAMBDA ln : pri[ln] <= pri[node]), node)

\* REMOVE: unlink a node of the list.
Unlink(list, node) ==
  RemoveAt(list, CHOOSE i \in 1..Len(list) : list[i] = node)
=============================================================================
