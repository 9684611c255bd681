------------------------------ MODULE MCDelayed -----------------------------
(***************************************************************************)
(* Instances of DelayedBroadcast for TLC: the texts m1 and m2 and the      *)
(* object o1 are delayed, the texts b1 and b2 and the object n1 broadcast. *)
(***************************************************************************)
EXTENDS DelayedBroadcast

Symmetry == Permutations(Delayed \cap Text) \cup Permutations(Text \ Delayed)
===========================================================================
