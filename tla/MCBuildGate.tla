----------------------------- MODULE MCBuildGate -----------------------------
(* Small instance of BuildGate for TLC. *)
EXTENDS BuildGate
=============================================================================
