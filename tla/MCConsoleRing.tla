----------------------------- MODULE MCConsoleRing -----------------------------
(* Small instances of ConsoleRing for TLC.                                     *)
EXTENDS ConsoleRing

Line     == {<<"x", "nl">>}
Wrapping == {30}       \* with IdxMod = 32, the indices come round
Ends     == {0, 31}    \* ... and input begins in the first or the last cell
Zero     == {0}
===============================================================================
