--------------------------- MODULE MCTimeKeeping ----------------------------
EXTENDS TimeKeeping

\* One nanosecond a tick, and two.
MCRates == {[mul |-> 8, shift |-> 1], [mul |-> 8, shift |-> 2]}
MCWalls == {[sec |-> 1, nsec |-> 3], [sec |-> 2, nsec |-> 1]}
=============================================================================
