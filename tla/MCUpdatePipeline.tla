-------------------------- MODULE MCUpdatePipeline --------------------------
(* Small instances of UpdatePipeline for TLC: a C# file whose first edit does *)
(* not compile but whose second does again, and a Razor file.                 *)
EXTENDS UpdatePipeline

CONSTANTS cs, razor

MCBroken == {<<cs, 1>>}

\* Three edits, those before the solution was loaded included; but two edits and two
\* jobs beside the dry run once jobs overlap, or the dry run waits for its text.
EditBound ==
  /\ disk[cs] + disk[razor] <= 3
  /\ disturbed \/ Dry \in delayed =>
       /\ disk[cs] + disk[razor] <= 2
       /\ \A j \in Jobs : j > 2 => pc[j] = "idle"
=============================================================================
