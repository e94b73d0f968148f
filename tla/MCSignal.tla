------------------------------ MODULE MCSignal ------------------------------
(***************************************************************************)
(* Instances of Signal for TLC.                                            *)
(***************************************************************************)
EXTENDS Signal, TLC

CONSTANTS m, a, b

MCProcs == {m, a, b}
MCPair  == {m, a}
NoRetarget == {}

\* b above a above m.
Stairs  == m :> 0 @@ a :> 1 @@ b :> 2
ReadyBA == <<b, a>>
PairPri == m :> 0 @@ a :> 1
ReadyA  == <<a>>
=============================================================================
