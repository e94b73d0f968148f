-------------------------------- MODULE MCSem -------------------------------
(***************************************************************************)
(* Instances of Sem for TLC.                                               *)
(***************************************************************************)
EXTENDS Sem, TLC

CONSTANTS m, a, b

MCProcs == {m, a, b}
NoRetarget  == {}
\* main changes the priority of a, also while a waits or owns.
OneRetarget == {<<m, a>>}

\* All at priority 0, or b above a above m.
Equal  == [p \in MCProcs |-> 0]
Stairs == m :> 0 @@ a :> 1 @@ b :> 2
ReadyBA == <<b, a>>
=============================================================================
