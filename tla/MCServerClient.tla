--------------------------- MODULE MCServerClient ---------------------------
(* Small instances of ServerClient for TLC: every constant is given in a cfg. *)
EXTENDS ServerClient
=============================================================================
