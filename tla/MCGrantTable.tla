----------------------------- MODULE MCGrantTable -----------------------------
(* Small instances of GrantTable for TLC.                                     *)
EXTENDS GrantTable
==============================================================================
