------------------------ MODULE MCSystemEnvironment ------------------------
(***************************************************************************)
(* The instances of SystemEnvironment that TLC explores.                   *)
(***************************************************************************)
EXTENDS SystemEnvironment, TLC

\* Keys, pids and instances only ever meet their equals.
Symmetry == Permutations(Keys) \union Permutations(Pids) \union Permutations(Instances)

=============================================================================
