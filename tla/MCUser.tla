------------------------------- MODULE MCUser -------------------------------
(***************************************************************************)
(* Instances of the user administration for TLC.                           *)
(***************************************************************************)
EXTENDS UserController, TLC

Symmetry == Permutations(Client) \cup Permutations(Name) \cup Permutations(Text)
===========================================================================
