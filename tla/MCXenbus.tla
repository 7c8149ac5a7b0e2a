------------------------------- MODULE MCXenbus -------------------------------
(* Small instances of Xenbus for TLC: rings of 4 cells, headers of 2.         *)
EXTENDS Xenbus

Zero      == {0}
ZeroOrEnd == {0, 28}  \* with IdxMod = 32, the request index may be about to wrap
NearEnd   == {30}     \* ... and the first response crosses the end
===============================================================================
