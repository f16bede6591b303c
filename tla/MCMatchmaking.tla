--------------------------- MODULE MCMatchmaking ---------------------------
(* Small instances of Matchmaking for TLC: every constant is given in a cfg. *)
EXTENDS Matchmaking
=============================================================================
