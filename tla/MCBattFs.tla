------------------------------ MODULE MCBattFs ------------------------------
(***************************************************************************)
(* Instances of BattFs for TLC.                                            *)
(***************************************************************************)
EXTENDS BattFs, TLC

TwoFiles == {1, 2}

\* The first byte; across a page boundary; far beyond the end.
SomeWrites == {<<0, 1>>, <<1, 2>>, <<3, 1>>}

\* A full page, and a byte after it.
FullWrites == {<<0, 2>>, <<2, 1>>}

ByteSymmetry == Permutations(Bytes)
=============================================================================
