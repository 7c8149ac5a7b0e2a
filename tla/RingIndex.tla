------------------------------ MODULE RingIndex ------------------------------
(****************************************************************************)
(* The indices of a ring shared with another domain, as xenbus.c and         *)
(* xencons_ring.c use them: unsigned counters that come round.  The cell of  *)
(* an index is its remainder by the ring's size, a power of two.             *)
(****************************************************************************)
EXTENDS Naturals

CONSTANT IdxMod    \* 2^32, the values of XENSTORE_RING_IDX and XENCONS_RING_IDX

ASSUME IdxModAssumption == IdxMod \in Nat \ {0}

\* An index n further on, and the cells in use between the two of a ring.
Advance(idx, n)  == (idx + n) % IdxMod
Used(prod, cons) == (prod + IdxMod - cons) % IdxMod
=============================================================================
