---------------------------- MODULE MCEventChannel ----------------------------
(* Small instances of EventChannel for TLC.                                   *)
EXTENDS EventChannel

LowPorts  == {0, 1}     \* ports of the lower half of the first word
FirstPort == {0}
==============================================================================
