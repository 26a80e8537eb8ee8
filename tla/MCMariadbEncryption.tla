------------------------- MODULE MCMariadbEncryption -------------------------
(* MariadbEncryption for TLC: finite as it stands. *)
EXTENDS MariadbEncryption
=============================================================================
