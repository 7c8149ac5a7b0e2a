------------------------------ MODULE Allocator ------------------------------
(****************************************************************************)
(* What my_malloc and my_free promise their callers: the regions handed out *)
(* and not yet freed lie in the memory of the heap and do not overlap.      *)
(****************************************************************************)
EXTENDS Integers

CONSTANTS
  Requests,   \* the sizes a caller may ask for
  Memory      \* the addresses of the heap

VARIABLE held   \* the regions handed out: first address -> size asked for

Region(p, n) == p..(p + n - 1)

Init == held = [p \in {} |-> 0]

\* A region that was not handed out is; my_malloc may also refuse, which
\* changes nothing.
Malloc ==
  \E p \in Memory, n \in Requests :
    /\ p \notin DOMAIN held
    /\ Region(p, n) \subseteq Memory
    /\ \A q \in DOMAIN held : Region(p, n) \cap Region(q, held[q]) = {}
    /\ held' = [q \in DOMAIN held \cup {p} |-> IF q = p THEN n ELSE held[q]]

Free ==
  \E p \in DOMAIN held : held' = [q \in DOMAIN held \ {p} |-> held[q]]

Next == Malloc \/ Free

Spec == Init /\ [][Next]_held
=============================================================================
