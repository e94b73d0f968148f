------------------------------ MODULE MCSerial ------------------------------
(***************************************************************************)
(* Instances of Serial for TLC.                                            *)
(***************************************************************************)
EXTENDS Serial

AllDrivers == {"mega", "mega485", "stm32"}
=============================================================================
