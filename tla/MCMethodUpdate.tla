--------------------------- MODULE MCMethodUpdate ---------------------------
(* Finite instances of MethodUpdate. *)
EXTENDS MethodUpdate, TLC

\* Two overloads, and methods that each have a name of their own.
Overloads == [m \in Methods |-> "name"]
Distinct == [m \in Methods |-> m]

\* Overloads are not told apart.
MethodSymmetry == Permutations(Methods)

\* Only one of the methods meets the module initializer or the registration
\* when a second document arrives, which is for one of them.
OneAtOnce ==
  /\ Cardinality(crossed) > 1 => latest <= 1
  /\ latest > 1 => Cardinality(document) <= 1

\* One method is called, as calls change nothing, and only while the properties of
\* calls are about it; a handler that is registered by then was when all were loaded.
CallsBound ==
  /\ Cardinality({m \in Methods : called = m \/ before[m] # 0}) <= 1
  /\ called \notin crossed
  /\ caller # "idle" => (handler => earlier = Methods)
=============================================================================
