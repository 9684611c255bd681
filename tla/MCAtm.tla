------------------------------- MODULE MCAtm --------------------------------
(***************************************************************************)
(* Instances of AtmController for TLC.                                     *)
(***************************************************************************)
EXTENDS AtmController, TLC

Symmetry == Permutations(Browser) \cup Permutations(Push)
===========================================================================
