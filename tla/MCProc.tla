------------------------------- MODULE MCProc -------------------------------
(***************************************************************************)
(* Instances of Proc for TLC.                                              *)
(***************************************************************************)
EXTENDS Proc, TLC

CONSTANTS m, a, b

MCProcs == {m, a, b}

\* Who may change whose priority: nobody, everybody his own, everybody all.
NoRetarget   == {}
SelfRetarget == {<<p, p>> : p \in MCProcs}
AnyRetarget  == MCProcs \X MCProcs

\* The heap's slots are interchangeable.
Symmetry == Permutations(MCProcs \ {m})
=============================================================================
