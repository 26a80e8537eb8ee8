---------------------------- MODULE MCAppStudio ----------------------------
(* Small instances of AppStudio for TLC. *)
EXTENDS AppStudio
=============================================================================
