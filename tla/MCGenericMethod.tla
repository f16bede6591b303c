-------------------------- MODULE MCGenericMethod --------------------------
(* Finite instances of GenericMethod. *)
EXTENDS GenericMethod, TLC

\* Callers are not told apart, nor are type arguments.
GenericSymmetry == Permutations(Callers) \cup Permutations(Types)

\* Bound: how many method infos the stack ever holds.
CONSTANT MaxInfos
StackBound == Len(stack) <= MaxInfos
=============================================================================
