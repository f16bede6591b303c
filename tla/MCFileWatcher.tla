--------------------------- MODULE MCFileWatcher ---------------------------
(* Small instances of FileWatcher for TLC: every constant is given in a cfg. *)
EXTENDS FileWatcher
=============================================================================
