-------------------------------- MODULE Heap ---------------------------------
(****************************************************************************)
(* The kernel's heap (hw2/my_malloc.c on the lists of nano/list.h): first   *)
(* fit over a list of free blocks, which are split and never joined.        *)
(*                                                                          *)
(* A block is known by the address of its header.  The size the code keeps  *)
(* in the header counts the header too, of the first block as well, so that *)
(* the last Header bytes of heapMemory are never used.                      *)
(****************************************************************************)
EXTENDS Integers, Sequences

CONSTANTS
  HeapSize,   \* HEAP_SIZE
  Header,     \* sizeof(BlockHeader)
  Slack,      \* what is worth splitting off: 16
  SizeT,      \* the values of a size_t: 2^64
  Requests,   \* the sizes the callers ask for
  Safe        \* the build flag SAFE, which is off unless it is given

\* A size that wraps with its header is not tested for by the code; the
\* callers ask for less.
ASSUME HeapAssumption ==
  /\ HeapSize \in Nat /\ Header \in Nat \ {0} /\ Slack \in Nat \ {0} /\ SizeT \in Nat
  /\ 2 * Header <= HeapSize
  /\ Safe \in BOOLEAN
  /\ \A n \in Requests : n \in Nat /\ n + Header < SizeT

VARIABLES
  size,       \* the headers: address -> size
  isFree,     \* the headers: address -> isFree
  freeList,   \* the addresses in freeList, from its head
  held        \* history: what was handed out and not freed: address -> size asked for

heapVars == <<size, isFree, freeList, held>>

Arena == HeapSize - Header
Members(s) == {s[i] : i \in DOMAIN s}

\* Mutant: the block taken stays on the list.
ListDel_Stays(i, s) == s

\* list_add and list_del
ListAdd(a, s) == <<a>> \o s
ListDel(i, s) == [j \in 1..(Len(s) - 1) |-> IF j < i THEN s[j] ELSE s[j + 1]]

\* The size of a block for n bytes, computed in a size_t
NewSize(n) == (n + Header) % SizeT

Fits(n, i) == size[freeList[i]] >= NewSize(n)
FirstFit(n, i) ==
  /\ i \in DOMAIN freeList
  /\ Fits(n, i)
  /\ \A j \in DOMAIN freeList : j < i => ~Fits(n, j)

Splits(a, n) == size[a] >= NewSize(n) + Header + Slack

\* initHeap
HeapInit ==
  /\ size = [a \in {0} |-> Arena]
  /\ isFree = [a \in {0} |-> TRUE]
  /\ freeList = ListAdd(0, <<>>)
  /\ held = [a \in {} |-> 0]

\* my_malloc takes the whole block at a, the i-th of the list ...
TakeWhole(a, i) ==
  /\ size' = size
  /\ isFree' = [isFree EXCEPT ![a] = FALSE]
  /\ freeList' = ListDel(i, freeList)

\* Mutant: the size of the first part is left as it was.
Split_SizeKept(a, i, n) ==
  LET rest == a + NewSize(n) IN
  /\ size' = [b \in DOMAIN size \cup {rest} |->
                IF b = rest THEN size[a] - NewSize(n) ELSE size[b]]
  /\ isFree' = [b \in DOMAIN size \cup {rest} |->
                  IF b = a THEN FALSE ELSE IF b = rest THEN TRUE ELSE isFree[b]]
  /\ freeList' = ListAdd(rest, ListDel(i, freeList))

\* ... or the front of it, and puts the rest at the head of the list.
Split(a, i, n) ==
  LET rest == a + NewSize(n) IN
  /\ size' = [b \in DOMAIN size \cup {rest} |->
                IF b = a THEN NewSize(n)
                ELSE IF b = rest THEN size[a] - NewSize(n) ELSE size[b]]
  /\ isFree' = [b \in DOMAIN size \cup {rest} |->
                  IF b = a THEN FALSE ELSE IF b = rest THEN TRUE ELSE isFree[b]]
  /\ freeList' = ListAdd(rest, ListDel(i, freeList))

\* my_malloc(n) from the i-th block of the list
Malloc(n, i) ==
  /\ FirstFit(n, i)
  /\ LET a == freeList[i] IN
     /\ IF Splits(a, n) THEN Split(a, i, n) ELSE TakeWhole(a, i)
     /\ held' = [b \in DOMAIN held \cup {a} |-> IF b = a THEN n ELSE held[b]]

\* my_malloc(n) returns NULL
MallocFails(n) ==
  /\ \A i \in DOMAIN freeList : ~Fits(n, i)
  /\ UNCHANGED heapVars

\* my_free of a pointer that is held.  Only the SAFE build marks the block.
FreeHeld(p) ==
  /\ p \in DOMAIN held
  /\ Safe => ~isFree[p]
  /\ isFree' = IF Safe THEN [isFree EXCEPT ![p] = TRUE] ELSE isFree
  /\ freeList' = ListAdd(p, freeList)
  /\ held' = [b \in DOMAIN held \ {p} |-> held[b]]
  /\ UNCHANGED size

\* my_free of a pointer freed before, which the SAFE build refuses
FreeAgain(p) ==
  /\ Safe
  /\ p \in DOMAIN size \ DOMAIN held
  /\ isFree[p]
  /\ UNCHANGED heapVars

HeapNext ==
  \/ \E n \in Requests : (\E i \in DOMAIN freeList : Malloc(n, i)) \/ MallocFails(n)
  \/ \E p \in DOMAIN held : FreeHeld(p)
  \/ \E p \in DOMAIN size : FreeAgain(p)

HeapSpec == HeapInit /\ [][HeapNext]_heapVars

(****************************************************************************)
(* Properties.                                                              *)
(****************************************************************************)
HeapTypeOK ==
  /\ size \in [DOMAIN size -> Nat]
  /\ DOMAIN size \subseteq 0..(Arena - 1)
  /\ isFree \in [DOMAIN size -> BOOLEAN]
  /\ freeList \in Seq(DOMAIN size)
  /\ held \in [DOMAIN held -> Requests]

\* No address is on the free list twice, and the list holds just the blocks
\* that nobody holds.
FreeListExact ==
  /\ \A i, j \in DOMAIN freeList : freeList[i] = freeList[j] => i = j
  /\ Members(freeList) \cap DOMAIN held = {}
  /\ Members(freeList) \cup DOMAIN held = DOMAIN size

\* The blocks tile the arena: each ends where the next one begins, whatever
\* was split off and freed in between, so that no byte is lost or shared;
\* a block that is held has room for what was asked for.
BlocksTile ==
  /\ 0 \in DOMAIN size
  /\ \A a \in DOMAIN size :
       /\ size[a] >= Header
       /\ a + size[a] \in DOMAIN size \cup {Arena}
       /\ \A b \in DOMAIN size : a < b => a + size[a] <= b
  /\ \A p \in DOMAIN held : size[p] >= held[p] + Header

HeapSound == HeapTypeOK /\ FreeListExact /\ BlocksTile

\* The pointers a caller gets and holds: their regions lie in heapMemory and
\* are disjoint.
Promise == INSTANCE Allocator WITH
  Memory <- 0..(HeapSize - 1),
  held <- [p \in {a + Header : a \in DOMAIN held} |-> held[p - Header]]
ImplementsAllocator == Promise!Spec
=============================================================================
