------------------------------ MODULE MCShared ------------------------------
(***************************************************************************)
(* Goroutines, Shared values and pooled objects as model values.           *)
(***************************************************************************)
EXTENDS Shared, TLC

\* Goroutines, Shared values, libraries, inputs and pooled objects are
\* interchangeable.
SharedSymmetry ==
  Permutations(Procs) \cup Permutations(Shareds) \cup Permutations(Libs)
    \cup Permutations(Inputs) \cup Permutations(Objs)
=============================================================================
