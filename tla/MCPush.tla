------------------------------ MODULE MCPush ------------------------------
(***************************************************************************)
(* Instances of the push runtime for TLC.                                  *)
(***************************************************************************)
EXTENDS PushInvariant, TLC

CONSTANTS r1, r2

\* Everyone, one response alone, and nobody.
AllTargets == {{r1}, {}}
NoTargets == {}

Symmetry == Permutations(Worker) \cup Permutations(Closer)
SymmetryAll == Symmetry \cup Permutations(Resource)
===========================================================================
