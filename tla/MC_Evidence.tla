---------------------------- MODULE MC_Evidence ----------------------------
(* Small instances of Evidence for TLC. *)
EXTENDS Evidence
=============================================================================
