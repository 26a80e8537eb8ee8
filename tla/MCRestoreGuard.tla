--------------------------- MODULE MCRestoreGuard ---------------------------
(* Small instances of RestoreGuard for TLC. *)
EXTENDS RestoreGuard
=============================================================================
