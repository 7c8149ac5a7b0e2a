--------------------------- MODULE KernelProgramProofs ---------------------------
(****************************************************************************)
(* Proofs about Heap and KernelProgram, for every size of the heap and of   *)
(* its headers and for every set of requests that do not wrap, and for      *)
(* programs that put any characters into their buffers.  The first part is  *)
(* about the heap alone.  The second is about a program on it: the string   *)
(* and memory routines write inside the buffer they are given, so that the  *)
(* headers stay as they are, and do what their namesakes of the C library   *)
(* do, but where KernelProgram says that they depart from them.             *)
(****************************************************************************)
EXTENDS KernelProgram, FiniteSetTheorems, WellFoundedInduction, TLAPS

USE HeapAssumption

NoTwice(s) == \A i, j \in DOMAIN s : s[i] = s[j] => i = j

\* A request is rounded to itself and its header.
LEMMA NewSizeValue ==
  ASSUME NEW n \in Requests
  PROVE  NewSize(n) = n + Header /\ NewSize(n) \in Nat /\ NewSize(n) >= Header
<1>1. n \in Nat /\ n + Header < SizeT /\ n + Header \in Nat
  OBVIOUS
<1>2. (n + Header) % SizeT = n + Header
  BY <1>1
<1> QED BY <1>1, <1>2 DEF NewSize

\* A block put on the list is on it once, with those that were.
LEMMA ListAddAdds ==
  ASSUME NEW S, NEW s \in Seq(S), NEW a \in S, NoTwice(s), a \notin Members(s)
  PROVE  /\ ListAdd(a, s) \in Seq(S)
         /\ NoTwice(ListAdd(a, s))
         /\ Members(ListAdd(a, s)) = Members(s) \cup {a}
<1> DEFINE t == ListAdd(a, s)
<1>1. t \in Seq(S) /\ Len(t) = Len(s) + 1
  BY DEF ListAdd
<1>2. t[1] = a /\ \A i \in 2..Len(t) : t[i] = s[i - 1] /\ i - 1 \in DOMAIN s
  BY DEF ListAdd
<1>3. \A i \in DOMAIN s : t[i + 1] = s[i] /\ i + 1 \in DOMAIN t
  BY <1>1, <1>2
<1>4. ASSUME NEW i \in DOMAIN t, NEW j \in DOMAIN t, t[i] = t[j]
      PROVE  i = j
  <2>1. \A k \in DOMAIN s : s[k] # a
    BY DEF Members
  <2>2. CASE i = 1 \/ j = 1
    BY <1>1, <1>2, <1>4, <2>1, <2>2
  <2>3. CASE i # 1 /\ j # 1
    <3>1. i \in 2..Len(t) /\ j \in 2..Len(t)
      BY <1>1, <2>3
    <3>2. s[i - 1] = s[j - 1] /\ i - 1 \in DOMAIN s /\ j - 1 \in DOMAIN s
      BY <1>2, <1>4, <3>1
    <3> QED BY <3>1, <3>2 DEF NoTwice
  <2> QED BY <2>2, <2>3
<1>5. Members(t) = Members(s) \cup {a}
  <2>1. ASSUME NEW x \in Members(t) PROVE x \in Members(s) \cup {a}
    <3>1. PICK i \in DOMAIN t : x = t[i]
      BY <2>1 DEF Members
    <3>2. CASE i = 1
      BY <1>2, <3>1, <3>2
    <3>3. CASE i # 1
      <4>1. i \in 2..Len(t)
        BY <1>1, <3>3
      <4> QED BY <1>2, <3>1, <4>1 DEF Members
    <3> QED BY <3>2, <3>3
  <2>2. ASSUME NEW x \in Members(s) \cup {a} PROVE x \in Members(t)
    <3>1. CASE x = a
      BY <1>1, <1>2, <3>1 DEF Members
    <3>2. CASE x \in Members(s)
      <4>1. PICK i \in DOMAIN s : x = s[i]
        BY <3>2 DEF Members
      <4> QED BY <1>3, <4>1 DEF Members
    <3> QED BY <2>2, <3>1, <3>2
  <2> QED BY <2>1, <2>2
<1> QED BY <1>1, <1>4, <1>5 DEF NoTwice

\* A block taken off the list is on it no more, and the others still are.
LEMMA ListDelDeletes ==
  ASSUME NEW S, NEW s \in Seq(S), NEW i \in DOMAIN s, NoTwice(s)
  PROVE  /\ ListDel(i, s) \in Seq(S)
         /\ NoTwice(ListDel(i, s))
         /\ Members(ListDel(i, s)) = Members(s) \ {s[i]}
<1> DEFINE t == ListDel(i, s)
           From(j) == IF j < i THEN j ELSE j + 1
<1>1. DOMAIN s = 1..Len(s) /\ Len(s) \in Nat /\ i \in 1..Len(s)
  OBVIOUS
<1>2. DOMAIN t = 1..(Len(s) - 1) /\ \A j \in DOMAIN t : t[j] = s[From(j)]
  BY DEF ListDel
<1>3. \A j \in DOMAIN t : From(j) \in DOMAIN s /\ From(j) # i
  BY <1>1, <1>2
<1>4. t \in Seq(S)
  <2>1. Len(s) - 1 \in Nat
    BY <1>1
  <2>2. \A j \in 1..(Len(s) - 1) : t[j] \in S
    BY <1>2, <1>3
  <2>3. t = [j \in 1..(Len(s) - 1) |-> t[j]]
    BY DEF ListDel
  <2> QED BY <2>1, <2>2, <2>3
<1>5. ASSUME NEW j \in DOMAIN t, NEW k \in DOMAIN t, t[j] = t[k]
      PROVE  j = k
  <2>1. From(j) = From(k)
    BY <1>2, <1>3, <1>5 DEF NoTwice
  <2> QED BY <1>1, <1>2, <2>1
<1>6. Members(t) = Members(s) \ {s[i]}
  <2>1. ASSUME NEW x \in Members(t) PROVE x \in Members(s) /\ x # s[i]
    <3>1. PICK j \in DOMAIN t : x = t[j]
      BY <2>1 DEF Members
    <3>2. x = s[From(j)] /\ From(j) \in DOMAIN s /\ From(j) # i
      BY <1>2, <1>3, <3>1
    <3> QED BY <3>2 DEF Members, NoTwice
  <2>2. ASSUME NEW x \in Members(s), x # s[i] PROVE x \in Members(t)
    <3>1. PICK k \in DOMAIN s : x = s[k]
      BY <2>2 DEF Members
    <3>2. k # i /\ k \in 1..Len(s)
      BY <1>1, <2>2, <3>1
    <3>3. CASE k < i
      <4>1. k \in 1..(Len(s) - 1) /\ From(k) = k
        BY <1>1, <3>2, <3>3
      <4>2. k \in DOMAIN t /\ t[k] = s[k]
        BY <1>2, <4>1
      <4> QED BY <3>1, <4>2 DEF Members
    <3>4. CASE k > i
      <4>1. k - 1 \in 1..(Len(s) - 1) /\ From(k - 1) = k
        BY <1>1, <3>2, <3>4
      <4>2. k - 1 \in DOMAIN t /\ t[k - 1] = s[k]
        BY <1>2, <4>1
      <4> QED BY <3>1, <4>2 DEF Members
    <3> QED BY <1>1, <3>2, <3>3, <3>4
  <2> QED BY <2>1, <2>2
<1> QED BY <1>4, <1>5, <1>6 DEF NoTwice

\* initHeap leaves one block, which is free.
LEMMA InitSound == HeapInit => HeapSound
<1> SUFFICES ASSUME HeapInit PROVE HeapSound
  OBVIOUS
<1>1. Arena \in Nat /\ Arena >= Header /\ Arena > 0
  BY DEF Arena
<1>2. freeList = <<0>> /\ DOMAIN freeList = {1} /\ Members(freeList) = {0}
  <2>1. freeList = <<0>>
    BY DEF HeapInit, ListAdd
  <2>2. DOMAIN freeList = {1} /\ freeList[1] = 0
    BY <2>1
  <2> QED BY <2>1, <2>2 DEF Members
<1>3. DOMAIN size = {0} /\ size[0] = Arena /\ DOMAIN held = {}
  BY DEF HeapInit
<1>4. HeapTypeOK
  <2>1. size \in [DOMAIN size -> Nat] /\ isFree \in [DOMAIN size -> BOOLEAN]
    BY <1>1 DEF HeapInit
  <2>2. freeList \in Seq({0})
    BY <1>2
  <2>3. held \in [DOMAIN held -> Requests]
    BY DEF HeapInit
  <2> QED BY <1>1, <1>3, <2>1, <2>2, <2>3 DEF HeapTypeOK
<1>5. FreeListExact
  BY <1>2, <1>3 DEF FreeListExact
<1>6. BlocksTile
  BY <1>1, <1>3 DEF BlocksTile
<1> QED BY <1>4, <1>5, <1>6 DEF HeapSound

\* The block my_malloc takes is free and large enough.
LEMMA FitIsFree ==
  ASSUME HeapSound, NEW n \in Requests, NEW i \in DOMAIN freeList, FirstFit(n, i)
  PROVE  /\ freeList[i] \in DOMAIN size /\ freeList[i] \notin DOMAIN held
         /\ freeList[i] \in Nat
         /\ size[freeList[i]] \in Nat /\ size[freeList[i]] >= n + Header
<1>1. freeList[i] \in Members(freeList)
  BY DEF Members
<1>2. freeList[i] \in DOMAIN size /\ freeList[i] \notin DOMAIN held
  BY <1>1 DEF HeapSound, FreeListExact
<1>3. size[freeList[i]] \in Nat /\ freeList[i] \in Nat
  BY <1>2 DEF HeapSound, HeapTypeOK
<1>4. size[freeList[i]] >= NewSize(n)
  BY DEF FirstFit, Fits
<1> QED BY <1>2, <1>3, <1>4, NewSizeValue

\* Taking a whole block.
LEMMA TakeWholeSound ==
  ASSUME HeapSound, NEW n \in Requests, NEW i \in DOMAIN freeList, FirstFit(n, i),
         TakeWhole(freeList[i], i),
         held' = [b \in DOMAIN held \cup {freeList[i]} |-> IF b = freeList[i] THEN n ELSE held[b]]
  PROVE  HeapSound'
<1> DEFINE a == freeList[i]
<1>1. /\ a \in DOMAIN size /\ a \notin DOMAIN held
      /\ size[a] \in Nat /\ size[a] >= n + Header
  BY FitIsFree
<1>2. size' = size /\ isFree' = [isFree EXCEPT ![a] = FALSE] /\ freeList' = ListDel(i, freeList)
  BY DEF TakeWhole
<1>3. DOMAIN held' = DOMAIN held \cup {a}
  OBVIOUS
<1>4. freeList \in Seq(DOMAIN size) /\ NoTwice(freeList)
  BY DEF HeapSound, HeapTypeOK, FreeListExact, NoTwice
<1>5. /\ freeList' \in Seq(DOMAIN size) /\ NoTwice(freeList')
      /\ Members(freeList') = Members(freeList) \ {a}
  BY <1>2, <1>4, ListDelDeletes
<1>6. HeapTypeOK'
  <2>1. held' \in [DOMAIN held' -> Requests]
    BY <1>3 DEF HeapSound, HeapTypeOK
  <2>2. isFree' \in [DOMAIN size' -> BOOLEAN]
    BY <1>2 DEF HeapSound, HeapTypeOK
  <2> QED BY <1>2, <1>5, <2>1, <2>2 DEF HeapSound, HeapTypeOK
<1>7. FreeListExact'
  <2>1. Members(freeList') \cap DOMAIN held' = {}
    BY <1>3, <1>5 DEF HeapSound, FreeListExact
  <2>2. Members(freeList') \cup DOMAIN held' = DOMAIN size'
    BY <1>1, <1>2, <1>3, <1>5 DEF HeapSound, FreeListExact
  <2> QED BY <1>5, <2>1, <2>2 DEF FreeListExact, NoTwice
<1>8. BlocksTile'
  <2>1. \A p \in DOMAIN held' : size'[p] >= held'[p] + Header
    BY <1>1, <1>2, <1>3 DEF HeapSound, BlocksTile
  <2> QED BY <1>2, <2>1 DEF HeapSound, BlocksTile, Arena
<1> QED BY <1>6, <1>7, <1>8 DEF HeapSound

\* Splitting a block: the rest is a block of its own, between the front and
\* what followed.
LEMMA SplitSound ==
  ASSUME HeapSound, NEW n \in Requests, NEW i \in DOMAIN freeList, FirstFit(n, i),
         Splits(freeList[i], n), Split(freeList[i], i, n),
         held' = [b \in DOMAIN held \cup {freeList[i]} |-> IF b = freeList[i] THEN n ELSE held[b]]
  PROVE  HeapSound'
<1> DEFINE a == freeList[i]
           new == n + Header
           rest == a + new
<1>1. /\ a \in DOMAIN size /\ a \notin DOMAIN held /\ a \in Nat
      /\ size[a] \in Nat /\ size[a] >= new
  BY FitIsFree
<1>2. NewSize(n) = new /\ new \in Nat /\ new >= Header
  BY NewSizeValue
<1>3. size[a] >= new + Header + Slack
  BY <1>2 DEF Splits
<1>4. /\ size' = [b \in DOMAIN size \cup {rest} |->
                    IF b = a THEN new ELSE IF b = rest THEN size[a] - new ELSE size[b]]
      /\ isFree' = [b \in DOMAIN size \cup {rest} |->
                      IF b = a THEN FALSE ELSE IF b = rest THEN TRUE ELSE isFree[b]]
      /\ freeList' = ListAdd(rest, ListDel(i, freeList))
  BY <1>2 DEF Split
<1>5. \A b \in DOMAIN size : b \in Nat /\ b < Arena /\ size[b] \in Nat /\ size[b] >= Header
  BY DEF HeapSound, HeapTypeOK, BlocksTile, Arena
<1>6. Arena \in Nat
  BY DEF Arena
<1>7. /\ a + size[a] \in DOMAIN size \cup {Arena}
      /\ \A b \in DOMAIN size : a < b => a + size[a] <= b
  BY <1>1 DEF HeapSound, BlocksTile
<1>8. rest \in Nat /\ a < rest /\ rest < a + size[a] /\ rest < Arena
  BY <1>1, <1>2, <1>3, <1>5, <1>6, <1>7
<1>9. rest \notin DOMAIN size
  BY <1>1, <1>5, <1>7, <1>8
<1>10. DOMAIN size' = DOMAIN size \cup {rest} /\ DOMAIN held' = DOMAIN held \cup {a}
  BY <1>4
<1>11. freeList \in Seq(DOMAIN size) /\ NoTwice(freeList)
  BY DEF HeapSound, HeapTypeOK, FreeListExact, NoTwice
<1>12. /\ ListDel(i, freeList) \in Seq(DOMAIN size) /\ NoTwice(ListDel(i, freeList))
       /\ Members(ListDel(i, freeList)) = Members(freeList) \ {a}
  BY <1>11, ListDelDeletes
<1>13. Members(freeList) \subseteq DOMAIN size
  BY DEF HeapSound, FreeListExact
<1>14. /\ freeList' \in Seq(DOMAIN size') /\ NoTwice(freeList')
       /\ Members(freeList') = (Members(freeList) \ {a}) \cup {rest}
  <2>1. ListDel(i, freeList) \in Seq(DOMAIN size \cup {rest})
    BY <1>12
  <2>2. rest \notin Members(ListDel(i, freeList))
    BY <1>9, <1>12, <1>13
  <2> QED BY <1>4, <1>10, <1>12, <2>1, <2>2, ListAddAdds
<1>15. HeapTypeOK'
  <2>1. size' \in [DOMAIN size' -> Nat]
    BY <1>1, <1>2, <1>4, <1>5
  <2>2. isFree' \in [DOMAIN size' -> BOOLEAN]
    BY <1>4, <1>10 DEF HeapSound, HeapTypeOK
  <2>3. held' \in [DOMAIN held' -> Requests]
    BY <1>10 DEF HeapSound, HeapTypeOK
  <2>4. DOMAIN size' \subseteq 0..(Arena - 1)
    BY <1>5, <1>6, <1>8, <1>10
  <2> QED BY <1>14, <2>1, <2>2, <2>3, <2>4 DEF HeapTypeOK, Arena
<1>16. FreeListExact'
  <2>1. Members(freeList) \cap DOMAIN held = {} /\ Members(freeList) \cup DOMAIN held = DOMAIN size
    BY DEF HeapSound, FreeListExact
  <2>2. Members(freeList') \cap DOMAIN held' = {}
    BY <1>1, <1>9, <1>10, <1>14, <2>1
  <2>3. Members(freeList') \cup DOMAIN held' = DOMAIN size'
    BY <1>1, <1>10, <1>14, <2>1
  <2> QED BY <1>14, <2>2, <2>3 DEF FreeListExact, NoTwice
<1>17. BlocksTile'
  <2>1. 0 \in DOMAIN size'
    BY <1>10 DEF HeapSound, BlocksTile
  <2>2. ASSUME NEW c \in DOMAIN size'
        PROVE  /\ size'[c] >= Header
               /\ c + size'[c] \in DOMAIN size' \cup {Arena}
               /\ \A b \in DOMAIN size' : c < b => c + size'[c] <= b
    <3>1. CASE c = a
      <4>1. size'[c] = new
        BY <1>1, <1>4, <3>1
      <4> QED BY <1>1, <1>2, <1>5, <1>7, <1>8, <1>10, <3>1, <4>1
    <3>2. CASE c = rest
      <4>1. size'[c] = size[a] - new
        BY <1>4, <1>8, <1>1, <3>2
      <4>2. c + size'[c] = a + size[a]
        BY <1>1, <1>2, <3>2, <4>1
      <4> QED BY <1>1, <1>2, <1>3, <1>5, <1>7, <1>8, <1>10, <3>2, <4>1, <4>2
    <3>3. CASE c # a /\ c # rest
      <4>1. c \in DOMAIN size /\ size'[c] = size[c]
        BY <1>4, <1>10, <3>3
      <4>2. /\ c + size[c] \in DOMAIN size \cup {Arena}
            /\ \A b \in DOMAIN size : c < b => c + size[c] <= b
        BY <4>1 DEF HeapSound, BlocksTile
      <4>3. c < rest => c + size[c] <= rest
        BY <1>1, <1>5, <1>7, <1>8, <3>3, <4>1, <4>2
      <4> QED BY <1>5, <1>10, <4>1, <4>2, <4>3
    <3> QED BY <3>1, <3>2, <3>3
  <2>3. ASSUME NEW p \in DOMAIN held'
        PROVE  size'[p] >= held'[p] + Header
    <3>1. CASE p = a
      BY <1>1, <1>2, <1>4, <3>1
    <3>2. CASE p # a
      <4>1. p \in DOMAIN held /\ held'[p] = held[p]
        BY <1>10, <3>2
      <4>2. p \in DOMAIN size /\ size[p] >= held[p] + Header
        BY <4>1 DEF HeapSound, FreeListExact, BlocksTile
      <4>3. size'[p] = size[p]
        BY <1>4, <1>9, <3>2, <4>2
      <4> QED BY <4>1, <4>2, <4>3
    <3> QED BY <3>1, <3>2
  <2>4. Arena' = Arena
    BY DEF Arena
  <2> QED BY <2>1, <2>2, <2>3, <2>4 DEF BlocksTile
<1> QED BY <1>15, <1>16, <1>17 DEF HeapSound

LEMMA MallocSound ==
  ASSUME HeapSound, NEW n \in Requests, NEW i \in DOMAIN freeList, Malloc(n, i)
  PROVE  HeapSound'
<1>1. FirstFit(n, i)
  BY DEF Malloc
<1>2. held' = [b \in DOMAIN held \cup {freeList[i]} |-> IF b = freeList[i] THEN n ELSE held[b]]
  BY DEF Malloc
<1>3. CASE Splits(freeList[i], n)
  <2>1. Split(freeList[i], i, n)
    BY <1>3 DEF Malloc
  <2> QED BY <1>1, <1>2, <1>3, <2>1, SplitSound
<1>4. CASE ~Splits(freeList[i], n)
  <2>1. TakeWhole(freeList[i], i)
    BY <1>4 DEF Malloc
  <2> QED BY <1>1, <1>2, <2>1, TakeWholeSound
<1> QED BY <1>3, <1>4

\* A block that is given back goes to the list, where it is not yet.
LEMMA FreeSound ==
  ASSUME HeapSound, NEW p \in DOMAIN held, FreeHeld(p)
  PROVE  HeapSound'
<1>1. /\ size' = size /\ freeList' = ListAdd(p, freeList)
      /\ held' = [b \in DOMAIN held \ {p} |-> held[b]]
      /\ isFree' = IF Safe THEN [isFree EXCEPT ![p] = TRUE] ELSE isFree
  BY DEF FreeHeld
<1>2. Members(freeList) \cap DOMAIN held = {} /\ Members(freeList) \cup DOMAIN held = DOMAIN size
  BY DEF HeapSound, FreeListExact
<1>3. p \in DOMAIN size /\ p \notin Members(freeList)
  BY <1>2
<1>4. /\ freeList' \in Seq(DOMAIN size) /\ NoTwice(freeList')
      /\ Members(freeList') = Members(freeList) \cup {p}
  <2>1. freeList \in Seq(DOMAIN size) /\ NoTwice(freeList)
    BY DEF HeapSound, HeapTypeOK, FreeListExact, NoTwice
  <2> QED BY <1>1, <1>3, <2>1, ListAddAdds
<1>5. DOMAIN held' = DOMAIN held \ {p} /\ \A b \in DOMAIN held' : held'[b] = held[b]
  BY <1>1
<1>6. HeapTypeOK'
  <2>1. isFree' \in [DOMAIN size' -> BOOLEAN]
    BY <1>1 DEF HeapSound, HeapTypeOK
  <2>2. held' \in [DOMAIN held' -> Requests]
    BY <1>1, <1>5 DEF HeapSound, HeapTypeOK
  <2> QED BY <1>1, <1>4, <2>1, <2>2 DEF HeapSound, HeapTypeOK
<1>7. FreeListExact'
  BY <1>1, <1>2, <1>3, <1>4, <1>5 DEF FreeListExact, NoTwice
<1>8. BlocksTile'
  BY <1>1, <1>5 DEF HeapSound, BlocksTile, Arena
<1> QED BY <1>6, <1>7, <1>8 DEF HeapSound

LEMMA StutterSound == ASSUME HeapSound, UNCHANGED heapVars PROVE HeapSound'
<1>1. size' = size /\ isFree' = isFree /\ freeList' = freeList /\ held' = held
  BY DEF heapVars
<1> QED BY <1>1 DEF HeapSound, HeapTypeOK, FreeListExact, BlocksTile, Members, Arena

LEMMA NextSound == ASSUME HeapSound, [HeapNext]_heapVars PROVE HeapSound'
<1>1. ASSUME NEW n \in Requests, NEW i \in DOMAIN freeList, Malloc(n, i) PROVE HeapSound'
  BY <1>1, MallocSound
<1>2. ASSUME NEW n \in Requests, MallocFails(n) PROVE HeapSound'
  BY <1>2, StutterSound DEF MallocFails
<1>3. ASSUME NEW p \in DOMAIN held, FreeHeld(p) PROVE HeapSound'
  BY <1>3, FreeSound
<1>4. ASSUME NEW p \in DOMAIN size, FreeAgain(p) PROVE HeapSound'
  BY <1>4, StutterSound DEF FreeAgain
<1> QED BY <1>1, <1>2, <1>3, <1>4, StutterSound DEF HeapNext

\* The free list and the held blocks are the blocks there are, which tile the
\* heap without gap or overlap, whatever is allocated and freed in whatever
\* order, in both builds of my_free.
THEOREM HeapStaysSound == HeapSpec => []HeapSound
<1>1. HeapInit => HeapSound
  BY InitSound
<1>2. HeapSound /\ [HeapNext]_heapVars => HeapSound'
  BY NextSound
<1> QED BY <1>1, <1>2, PTL DEF HeapSpec

\* What the callers see of the heap, and what is true of it: a region handed
\* out lies in its block, behind the header, and in the memory of the heap;
\* the blocks are disjoint, so the regions are.
Handed == [p \in {a + Header : a \in DOMAIN held} |-> held[p - Header]]

Regions ==
  /\ DOMAIN Handed = {a + Header : a \in DOMAIN held}
  /\ \A a \in DOMAIN held :
       /\ a \in Nat /\ held[a] \in Nat
       /\ Handed[a + Header] = held[a]
       /\ a + Header \in 0..(HeapSize - 1)
       /\ Promise!Region(a + Header, held[a]) \subseteq 0..(HeapSize - 1)
       /\ \A b \in DOMAIN held : a # b =>
            Promise!Region(a + Header, held[a]) \cap Promise!Region(b + Header, held[b]) = {}

LEMMA SoundRegions == HeapSound => Regions
<1> SUFFICES ASSUME HeapSound PROVE Regions
  OBVIOUS
<1>1. ASSUME NEW a \in DOMAIN held
      PROVE  /\ a \in DOMAIN size /\ a \in Nat /\ a < Arena /\ held[a] \in Nat /\ size[a] \in Nat
             /\ size[a] >= held[a] + Header
             /\ a + size[a] <= Arena
  <2>1. a \in DOMAIN size /\ a \in Nat /\ a < Arena /\ held[a] \in Nat /\ size[a] \in Nat
    BY DEF HeapSound, HeapTypeOK, FreeListExact, Arena
  <2>2. a + size[a] \in DOMAIN size \cup {Arena}
    BY <2>1 DEF HeapSound, BlocksTile
  <2>3. \A b \in DOMAIN size : b < Arena /\ b \in Nat
    BY DEF HeapSound, HeapTypeOK, Arena
  <2> QED BY <2>1, <2>2, <2>3 DEF HeapSound, BlocksTile, Arena
<1>2. DOMAIN Handed = {a + Header : a \in DOMAIN held}
  BY DEF Handed
<1>3. ASSUME NEW a \in DOMAIN held PROVE Handed[a + Header] = held[a]
  <2>1. (a + Header) - Header = a
    BY <1>1
  <2>2. a + Header \in {b + Header : b \in DOMAIN held}
    OBVIOUS
  <2>3. Handed[a + Header] = held[(a + Header) - Header]
    BY <2>2 DEF Handed
  <2> QED BY <2>1, <2>3
<1>4. ASSUME NEW a \in DOMAIN held
      PROVE  /\ a + Header \in 0..(HeapSize - 1)
             /\ Promise!Region(a + Header, held[a]) \subseteq 0..(HeapSize - 1)
  BY <1>1 DEF Promise!Region, Arena
<1>5. ASSUME NEW a \in DOMAIN held, NEW b \in DOMAIN held, a # b
      PROVE  Promise!Region(a + Header, held[a]) \cap Promise!Region(b + Header, held[b]) = {}
  <2>1. (a < b => a + size[a] <= b) /\ (b < a => b + size[b] <= a)
    BY <1>1 DEF HeapSound, BlocksTile
  <2> QED BY <1>1, <1>5, <2>1 DEF Promise!Region
<1> QED BY <1>1, <1>2, <1>3, <1>4, <1>5 DEF Regions

LEMMA SoundRegionsNext == HeapSound' => Regions'
BY SoundRegions, PTL

\* A call of my_malloc that succeeds hands out a region of its own.
LEMMA MallocImplements ==
  ASSUME HeapSound, HeapSound', NEW n \in Requests, NEW i \in DOMAIN freeList, Malloc(n, i)
  PROVE  Promise!Malloc
<1> DEFINE a == freeList[i]
           p == a + Header
<1>1. a \in Nat /\ a \notin DOMAIN held
  <2>1. FirstFit(n, i)
    BY DEF Malloc
  <2> QED BY <2>1, FitIsFree
<1>2. held' = [b \in DOMAIN held \cup {a} |-> IF b = a THEN n ELSE held[b]]
  BY DEF Malloc
<1>3. /\ DOMAIN held' = DOMAIN held \cup {a} /\ held'[a] = n
      /\ \A b \in DOMAIN held : b # a /\ held'[b] = held[b]
  BY <1>1, <1>2
<1>4. Regions /\ Regions'
  BY SoundRegions, SoundRegionsNext
<1>5. p \notin DOMAIN Handed
  BY <1>1, <1>4 DEF Regions
<1>6. p \in 0..(HeapSize - 1) /\ Promise!Region(p, n) \subseteq 0..(HeapSize - 1)
  BY <1>3, <1>4 DEF Regions
<1>7. ASSUME NEW q \in DOMAIN Handed
      PROVE  Promise!Region(p, n) \cap Promise!Region(q, Handed[q]) = {}
  <2>1. PICK b \in DOMAIN held : q = b + Header /\ Handed[q] = held[b]
    BY <1>4 DEF Regions
  <2>2. b # a /\ b \in DOMAIN held' /\ a \in DOMAIN held' /\ held'[b] = held[b]
    BY <1>3
  <2> QED BY <1>3, <1>4, <2>1, <2>2 DEF Regions
<1>8. Handed' = [q \in DOMAIN Handed \cup {p} |-> IF q = p THEN n ELSE Handed[q]]
  <2>1. DOMAIN Handed' = DOMAIN Handed \cup {p}
    BY <1>3, <1>4 DEF Regions
  <2>2. ASSUME NEW q \in DOMAIN Handed'
        PROVE  Handed'[q] = IF q = p THEN n ELSE Handed[q]
    <3>1. PICK b \in DOMAIN held' : q = b + Header /\ Handed'[q] = held'[b]
      BY <1>4 DEF Regions
    <3>2. CASE b = a
      BY <1>3, <3>1, <3>2
    <3>3. CASE b # a
      <4>1. b \in DOMAIN held /\ held'[b] = held[b] /\ Handed[q] = held[b]
        BY <1>3, <1>4, <3>1, <3>3 DEF Regions
      <4>2. q # p
        BY <1>5, <1>4, <3>1, <4>1 DEF Regions
      <4> QED BY <3>1, <4>1, <4>2
    <3> QED BY <3>2, <3>3
  <2>3. Handed' = [q \in DOMAIN Handed' |-> Handed'[q]]
    BY DEF Handed
  <2> QED BY <2>1, <2>2, <2>3
<1> QED BY <1>5, <1>6, <1>7, <1>8 DEF Promise!Malloc, Handed

\* my_free takes back just the region it is given.
LEMMA FreeImplements ==
  ASSUME HeapSound, HeapSound', NEW a \in DOMAIN held, FreeHeld(a)
  PROVE  Promise!Free
<1> DEFINE p == a + Header
<1>1. /\ DOMAIN held' = DOMAIN held \ {a}
      /\ \A b \in DOMAIN held' : held'[b] = held[b]
  BY DEF FreeHeld
<1>2. Regions /\ Regions'
  BY SoundRegions, SoundRegionsNext
<1>3. p \in DOMAIN Handed
  BY <1>2 DEF Regions
<1>4. Handed' = [q \in DOMAIN Handed \ {p} |-> Handed[q]]
  <2>1. \A b \in DOMAIN held : b + Header = p => b = a
    BY <1>2 DEF Regions
  <2>2. DOMAIN Handed' = DOMAIN Handed \ {p}
    BY <1>1, <1>2, <2>1 DEF Regions
  <2>3. ASSUME NEW q \in DOMAIN Handed' PROVE Handed'[q] = Handed[q]
    <3>1. PICK b \in DOMAIN held' : q = b + Header /\ Handed'[q] = held'[b]
      BY <1>2 DEF Regions
    <3> QED BY <1>1, <1>2, <3>1 DEF Regions
  <2>4. Handed' = [q \in DOMAIN Handed' |-> Handed'[q]]
    BY DEF Handed
  <2> QED BY <2>2, <2>3, <2>4
<1> QED BY <1>3, <1>4 DEF Promise!Free, Handed

\* The regions my_malloc hands out lie in heapMemory and are disjoint until
\* they are given back: the heap implements the allocator.
THEOREM HeapIsAllocator == HeapSpec => ImplementsAllocator
<1>1. HeapInit => Promise!Init
  <2> SUFFICES ASSUME HeapInit PROVE Handed = [p \in {} |-> 0]
    BY DEF Promise!Init, Handed
  <2>1. DOMAIN held = {}
    BY DEF HeapInit
  <2> QED BY <2>1 DEF Handed
<1>2. HeapSound /\ HeapSound' /\ [HeapNext]_heapVars => [Promise!Next]_Handed
  <2> SUFFICES ASSUME HeapSound, HeapSound', [HeapNext]_heapVars
               PROVE  Promise!Next \/ Handed' = Handed
    OBVIOUS
  <2>1. ASSUME NEW n \in Requests, NEW i \in DOMAIN freeList, Malloc(n, i) PROVE Promise!Next
    BY <2>1, MallocImplements DEF Promise!Next
  <2>2. ASSUME NEW n \in Requests, MallocFails(n) PROVE Handed' = Handed
    BY <2>2 DEF MallocFails, heapVars, Handed
  <2>3. ASSUME NEW p \in DOMAIN held, FreeHeld(p) PROVE Promise!Next
    BY <2>3, FreeImplements DEF Promise!Next
  <2>4. ASSUME NEW p \in DOMAIN size, FreeAgain(p) PROVE Handed' = Handed
    BY <2>4 DEF FreeAgain, heapVars, Handed
  <2>5. UNCHANGED heapVars => Handed' = Handed
    BY DEF heapVars, Handed
  <2> QED BY <2>1, <2>2, <2>3, <2>4, <2>5 DEF HeapNext
<1> QED BY <1>1, <1>2, HeapStaysSound, PTL DEF HeapSpec, ImplementsAllocator, Promise!Spec, Handed

(****************************************************************************)
(* The program.                                                             *)
(****************************************************************************)
Addresses == 0..(HeapSize - 1)

\* The headers of the blocks are what the heap wrote there, so that writing
\* them again changes nothing.
HeadersMarked == \A b \in DOMAIN size : \A a \in b..(b + Header - 1) : mem[a] = HeaderMark

\* The inductive invariant
ProgramInv ==
  /\ HeapSound
  /\ mem \in [Addresses -> Int]
  /\ \A a \in Addresses : mem[a] \in Char
  /\ HeadersMarked

\* Where a buffer lies: in the memory, and clear of every header.
LEMMA BufferLies ==
  ASSUME HeapSound, NEW p \in DOMAIN held
  PROVE  /\ Start(p) \in Nat /\ Room(p) \in Nat
         /\ Start(p) + Room(p) <= HeapSize
         /\ Buffer(p) = Start(p)..(Start(p) + Room(p) - 1)
         /\ Buffer(p) \subseteq Addresses
         /\ \A b \in DOMAIN size : Buffer(p) \cap (b..(b + Header - 1)) = {}
<1>1. /\ p \in DOMAIN size /\ p \in Nat /\ p < Arena /\ held[p] \in Nat /\ size[p] \in Nat
      /\ size[p] >= held[p] + Header
  BY DEF HeapSound, HeapTypeOK, FreeListExact, BlocksTile, Arena
<1>2. \A b \in DOMAIN size : b \in Nat /\ b < Arena /\ size[b] \in Nat /\ size[b] >= Header
  BY DEF HeapSound, HeapTypeOK, BlocksTile, Arena
<1>3. p + size[p] <= Arena
  <2>1. p + size[p] \in DOMAIN size \cup {Arena}
    BY <1>1 DEF HeapSound, BlocksTile
  <2> QED BY <1>1, <1>2, <2>1 DEF Arena
<1>4. ASSUME NEW b \in DOMAIN size
      PROVE  Buffer(p) \cap (b..(b + Header - 1)) = {}
  <2>1. (p < b => p + size[p] <= b) /\ (b < p => b + size[b] <= p)
    BY <1>1 DEF HeapSound, BlocksTile
  <2> QED BY <1>1, <1>2, <2>1 DEF Buffer
<1> QED BY <1>1, <1>3, <1>4 DEF Start, Room, Buffer, Arena, Addresses

\* A set of numbers has a least one.
LEMMA Least ==
  ASSUME NEW T, T \subseteq Nat, T # {}
  PROVE  \E n \in T : \A m \in T : n <= m
<1> DEFINE R == OpToRel(<, Nat)
<1>1. IsWellFoundedOn(R, Nat)
  BY NatLessThanWellFounded
<1> HIDE DEF R
<1>2. PICK n \in T : \A m \in T : ~(<<m, n>> \in R)
  BY <1>1, WFMin, Zenon
<1>3. \A a, b \in Nat : a < b => <<a, b>> \in R
  BY DEF OpToRel, R
<1>4. \A m \in T : ~(m < n)
  BY <1>2, <1>3, Zenon
<1>5. \A m \in T : n <= m
  BY <1>4
<1> QED BY <1>5

LEMMA AddressCount == Cardinality(Addresses) = HeapSize
BY FS_Interval, 0 \in Int, HeapSize - 1 \in Int DEF Addresses

\* The string at an address ends at its first NUL.
LEMMA StrLenIs ==
  ASSUME NEW m \in [Addresses -> Int], NEW s \in Nat, NEW k \in Nat, s + k < HeapSize,
         m[s + k] = NUL, \A j \in 0..(k - 1) : m[s + j] # NUL
  PROVE  StrLen(m, s) = k
<1> DEFINE Ends(l) == m[s + l] = NUL /\ \A j \in 0..(l - 1) : m[s + j] # NUL
<1>1. StrLen(m, s) = CHOOSE l \in 0..HeapSize : Ends(l)
  BY AddressCount DEF StrLen
<1>2. k \in 0..HeapSize /\ Ends(k)
  OBVIOUS
<1>3. ASSUME NEW l \in 0..HeapSize, Ends(l) PROVE l = k
  <2>1. ~(l < k)
    BY <1>3
  <2>2. ~(k < l)
    BY <1>3
  <2> QED BY <2>1, <2>2
<1> HIDE DEF Ends
<1> QED BY <1>1, <1>2, <1>3

\* A string in a buffer, character by character.
Text(m, s, n) ==
  /\ n \in Nat
  /\ m[s + n] = NUL
  /\ \A j \in 0..(n - 1) : m[s + j] # NUL
  /\ StrLen(m, s) = n

LEMMA TextEnds ==
  ASSUME ProgramInv, NEW p \in DOMAIN held, IsText(p)
  PROVE  Text(mem, Start(p), LengthOf(p)) /\ LengthOf(p) < Room(p)
<1> DEFINE s == Start(p)
           T == {k \in 0..(Room(p) - 1) : mem[s + k] = NUL}
<1>1. /\ s \in Nat /\ Room(p) \in Nat /\ s + Room(p) <= HeapSize
      /\ Buffer(p) = s..(s + Room(p) - 1)
      /\ mem \in [Addresses -> Int]
  BY BufferLies DEF ProgramInv
<1> HIDE DEF s
<1>2. PICK a \in Buffer(p) : mem[a] = NUL
  BY DEF IsText
<1>3. a - s \in T
  BY <1>1, <1>2
<1>4. T \subseteq Nat /\ T # {}
  BY <1>1, <1>3
<1>5. PICK n \in T : \A k \in T : n <= k
  BY <1>4, Least, Zenon
<1>6. n \in Nat /\ n < Room(p) /\ mem[s + n] = NUL
  BY <1>1, <1>5
<1>7. ASSUME NEW j \in 0..(n - 1) PROVE mem[s + j] # NUL
  <2>1. j \in 0..(Room(p) - 1) /\ ~(n <= j)
    BY <1>1, <1>6
  <2>2. j \notin T
    BY <1>5, <2>1
  <2> QED BY <2>1, <2>2
<1>8. s + n < HeapSize
  BY <1>1, <1>6
<1>9. StrLen(mem, s) = n
  BY <1>1, <1>6, <1>7, <1>8, StrLenIs
<1> QED BY <1>6, <1>7, <1>9 DEF Text, LengthOf, s

LEMMA TextFits ==
  ASSUME ProgramInv, NEW p \in DOMAIN held, IsText(p)
  PROVE  LengthOf(p) \in Nat /\ LengthOf(p) <= Room(p) /\ LengthOf(p) = StrLen(mem, Start(p))
<1>1. LengthOf(p) \in Nat /\ LengthOf(p) < Room(p) /\ LengthOf(p) = StrLen(mem, Start(p))
  BY TextEnds DEF Text, LengthOf
<1>2. Room(p) \in Nat
  BY BufferLies DEF ProgramInv
<1> QED BY <1>1, <1>2

(****************************************************************************)
(* What the calls write.                                                    *)
(****************************************************************************)
\* A routine has written into the buffer of p, and nowhere else.
WroteInto(m, p) ==
  /\ m \in [Addresses -> Int]
  /\ \A a \in Addresses : m[a] \in Char
  /\ \A a \in Addresses : m[a] # mem[a] => a \in Buffer(p)

\* n characters and a NUL after them, from behind the first l of the buffer
LEMMA CopyEndedInside ==
  ASSUME ProgramInv, NEW p \in DOMAIN held, NEW q \in DOMAIN held,
         NEW l \in Nat, NEW n \in Nat, l + n < Room(p), n <= Room(q)
  PROVE  WroteInto(CopyEnded(mem, Start(p) + l, Start(q), n), p)
<1> DEFINE d == Start(p)
           s == Start(q)
           m == CopyEnded(mem, d + l, s, n)
<1>1. /\ d \in Nat /\ Room(p) \in Nat /\ d + Room(p) <= HeapSize
      /\ Buffer(p) = d..(d + Room(p) - 1)
      /\ s \in Nat /\ Room(q) \in Nat /\ s + Room(q) <= HeapSize
      /\ mem \in [Addresses -> Int] /\ DOMAIN mem = Addresses
      /\ \A a \in Addresses : mem[a] \in Char
  BY BufferLies DEF ProgramInv
<1> HIDE DEF d, s
<1>2. m = [a \in Addresses |-> IF a \in (d + l)..(d + l + n - 1) THEN mem[s + a - (d + l)]
                               ELSE IF a = d + l + n THEN NUL ELSE mem[a]]
  BY <1>1 DEF CopyEnded
<1>3. ASSUME NEW a \in Addresses
      PROVE  m[a] \in Char /\ (m[a] # mem[a] => a \in Buffer(p))
  <2>1. a \in Nat
    BY DEF Addresses
  <2>2. CASE a \in (d + l)..(d + l + n - 1)
    <3>1. s + a - (d + l) \in Addresses
      <4>1. s \in Nat /\ s + Room(q) <= HeapSize /\ Room(q) \in Nat /\ d \in Nat
        BY <1>1
      <4> DEFINE room == Room(q)
      <4>2. room \in Nat /\ n <= room /\ s + room <= HeapSize
        BY <4>1
      <4> HIDE DEF room
      <4> QED BY <4>1, <4>2, <2>1, <2>2, HeapAssumption DEF Addresses
    <3>2. m[a] = mem[s + a - (d + l)]
      BY <1>2, <2>2
    <3>3. a \in Buffer(p)
      BY <1>1, <2>1, <2>2
    <3> QED BY <1>1, <3>1, <3>2, <3>3
  <2>3. CASE a \notin (d + l)..(d + l + n - 1) /\ a = d + l + n
    BY <1>1, <1>2, <2>3 DEF NUL, Char
  <2>4. CASE a \notin (d + l)..(d + l + n - 1) /\ a # d + l + n
    BY <1>1, <1>2, <2>4
  <2> QED BY <2>2, <2>3, <2>4
<1>4. m \in [Addresses -> Int] /\ \A a \in Addresses : m[a] \in Char
  BY <1>2, <1>3 DEF Char
<1> HIDE DEF m
<1>5. WroteInto(m, p)
  BY <1>3, <1>4 DEF WroteInto
<1> QED BY <1>5 DEF m, d, s

LEMMA MemcpyInside ==
  ASSUME ProgramInv, NEW p \in DOMAIN held, NEW q \in DOMAIN held,
         NEW n \in Nat, n <= Room(p), n <= Room(q)
  PROVE  WroteInto(Memcpy(mem, Start(p), Start(q), n), p)
<1> DEFINE d == Start(p)
           s == Start(q)
           m == Memcpy(mem, d, s, n)
<1>1. /\ d \in Nat /\ Room(p) \in Nat /\ d + Room(p) <= HeapSize
      /\ Buffer(p) = d..(d + Room(p) - 1)
      /\ s \in Nat /\ Room(q) \in Nat /\ s + Room(q) <= HeapSize
      /\ mem \in [Addresses -> Int] /\ DOMAIN mem = Addresses
      /\ \A a \in Addresses : mem[a] \in Char
  BY BufferLies DEF ProgramInv
<1> HIDE DEF d, s
<1>2. m = [a \in Addresses |-> IF a \in d..(d + n - 1) THEN mem[s + a - d] ELSE mem[a]]
  BY <1>1 DEF Memcpy
<1>3. ASSUME NEW a \in Addresses
      PROVE  m[a] \in Char /\ (m[a] # mem[a] => a \in Buffer(p))
  <2>1. a \in Nat
    BY DEF Addresses
  <2>2. CASE a \in d..(d + n - 1)
    <3>1. s + a - d \in Addresses
      BY <1>1, <2>1, <2>2 DEF Addresses
    <3>2. m[a] = mem[s + a - d]
      BY <1>2, <2>2
    <3>3. a \in Buffer(p)
      BY <1>1, <2>1, <2>2
    <3> QED BY <1>1, <3>1, <3>2, <3>3
  <2>3. CASE a \notin d..(d + n - 1)
    BY <1>1, <1>2, <2>3
  <2> QED BY <2>2, <2>3
<1>4. m \in [Addresses -> Int] /\ \A a \in Addresses : m[a] \in Char
  BY <1>2, <1>3 DEF Char
<1> HIDE DEF m
<1>5. WroteInto(m, p)
  BY <1>3, <1>4 DEF WroteInto
<1> QED BY <1>5 DEF m, d, s

LEMMA MemsetInside ==
  ASSUME ProgramInv, NEW p \in DOMAIN held, NEW c \in Chars, NEW n \in Nat, n <= Room(p)
  PROVE  WroteInto(Memset(mem, Start(p), c, n), p)
<1> DEFINE d == Start(p)
           m == Memset(mem, d, c, n)
<1>1. /\ d \in Nat /\ Room(p) \in Nat /\ d + Room(p) <= HeapSize
      /\ Buffer(p) = d..(d + Room(p) - 1)
      /\ mem \in [Addresses -> Int] /\ DOMAIN mem = Addresses
      /\ \A a \in Addresses : mem[a] \in Char
  BY BufferLies DEF ProgramInv
<1> HIDE DEF d
<1>2. m = [a \in Addresses |-> IF a \in d..(d + n - 1) THEN c ELSE mem[a]]
  BY <1>1 DEF Memset
<1>3. c \in Char
  BY CharsAssumption
<1>4. ASSUME NEW a \in Addresses
      PROVE  m[a] \in Char /\ (m[a] # mem[a] => a \in Buffer(p))
  BY <1>1, <1>2, <1>3
<1>5. m \in [Addresses -> Int] /\ \A a \in Addresses : m[a] \in Char
  BY <1>2, <1>4 DEF Char
<1> HIDE DEF m
<1>6. WroteInto(m, p)
  BY <1>4, <1>5 DEF WroteInto
<1> QED BY <1>6 DEF m, d

\* The room a program leaves for what it copies.
LEMMA RoomForIs ==
  ASSUME NEW p, NEW q, NEW n
  PROVE  /\ RoomFor(p, q, "strcpy", n) <=> IsText(q) /\ LengthOf(q) < Room(p)
         /\ RoomFor(p, q, "strcat", n) <=>
              IsText(q) /\ IsText(p) /\ LengthOf(p) + LengthOf(q) < Room(p)
         /\ RoomFor(p, q, "strncpy", n) <=> n <= Room(q) /\ n < Room(p)
         /\ RoomFor(p, q, "strncat", n) <=>
              n <= Room(q) /\ IsText(p) /\ LengthOf(p) + n < Room(p)
BY DEF RoomFor

\* Every call of a routine writes into one buffer, which is held; my_printf
\* writes into none.
LEMMA TextStepInside ==
  ASSUME ProgramInv, TextStep
  PROVE  /\ UNCHANGED heapVars
         /\ mem' = mem \/ \E p \in DOMAIN held : WroteInto(mem', p)
<1>1. PICK p \in DOMAIN held :
        \/ \E c \in Chars, n \in Counts(p) : CallMemset(p, c, n)
        \/ \E pieces \in Formats : CallPrintf(pieces, p)
        \/ \E q \in DOMAIN held :
             \/ CallStrcpy(p, q) \/ CallStrcat(p, q)
             \/ \E n \in Counts(p) : CallMemcpy(p, q, n) \/ CallStrncpy(p, q, n) \/ CallStrncat(p, q, n)
  BY DEF TextStep
<1>2. Room(p) \in Nat /\ Start(p) \in Nat /\ \A n \in Counts(p) : n \in Nat
  BY BufferLies DEF ProgramInv, Counts
<1>3. ASSUME NEW c \in Chars, NEW n \in Counts(p), CallMemset(p, c, n)
      PROVE  UNCHANGED heapVars /\ WroteInto(mem', p)
  <2>1. n \in Nat /\ n <= Room(p) /\ mem' = Memset(mem, Start(p), c, n) /\ UNCHANGED heapVars
    BY <1>2, <1>3 DEF CallMemset, Write
  <2> QED BY <2>1, MemsetInside
<1>4. ASSUME NEW pieces \in Formats, CallPrintf(pieces, p)
      PROVE  UNCHANGED heapVars /\ mem' = mem
  BY <1>4 DEF CallPrintf
<1>5. ASSUME NEW q \in DOMAIN held, CallStrcpy(p, q)
      PROVE  UNCHANGED heapVars /\ WroteInto(mem', p)
  <2>1. IsText(q) /\ LengthOf(q) < Room(p) /\ UNCHANGED heapVars
    BY <1>5, RoomForIs DEF CallStrcpy, Write
  <2>2. LengthOf(q) \in Nat /\ LengthOf(q) <= Room(q) /\ LengthOf(q) = StrLen(mem, Start(q))
    BY <2>1, TextFits
  <2>3. mem' = CopyEnded(mem, Start(p) + 0, Start(q), LengthOf(q))
    BY <1>2, <1>5, <2>2 DEF CallStrcpy, Write, Strcpy
  <2>4. 0 + LengthOf(q) < Room(p)
    BY <2>1, <2>2
  <2> DEFINE zero == 0
  <2>5. zero \in Nat
    OBVIOUS
  <2> HIDE DEF zero
  <2>6. mem' = CopyEnded(mem, Start(p) + zero, Start(q), LengthOf(q)) /\ zero + LengthOf(q) < Room(p)
    BY <2>3, <2>4 DEF zero
  <2> QED BY <2>1, <2>2, <2>5, <2>6, CopyEndedInside
<1>6. ASSUME NEW q \in DOMAIN held, CallStrcat(p, q)
      PROVE  UNCHANGED heapVars /\ WroteInto(mem', p)
  <2>1. /\ IsText(p) /\ IsText(q) /\ LengthOf(p) + LengthOf(q) < Room(p)
        /\ UNCHANGED heapVars
    BY <1>6, RoomForIs DEF CallStrcat, Write
  <2>2. /\ LengthOf(q) \in Nat /\ LengthOf(q) <= Room(q) /\ LengthOf(p) \in Nat
        /\ LengthOf(q) = StrLen(mem, Start(q)) /\ LengthOf(p) = StrLen(mem, Start(p))
    BY <2>1, TextFits
  <2>3. mem' = CopyEnded(mem, Start(p) + LengthOf(p), Start(q), LengthOf(q))
    BY <1>6, <2>2 DEF CallStrcat, Write, Strcat
  <2> QED BY <2>1, <2>2, <2>3, CopyEndedInside
<1>7. ASSUME NEW q \in DOMAIN held, NEW n \in Counts(p), CallMemcpy(p, q, n)
      PROVE  UNCHANGED heapVars /\ WroteInto(mem', p)
  <2>1. /\ n \in Nat /\ n <= Room(p) /\ n <= Room(q) /\ UNCHANGED heapVars
        /\ mem' = Memcpy(mem, Start(p), Start(q), n)
    BY <1>2, <1>7 DEF CallMemcpy, Write
  <2> QED BY <2>1, MemcpyInside
<1>8. ASSUME NEW q \in DOMAIN held, NEW n \in Counts(p), CallStrncpy(p, q, n)
      PROVE  UNCHANGED heapVars /\ WroteInto(mem', p)
  <2>1. n \in Nat /\ n <= Room(q) /\ n < Room(p) /\ UNCHANGED heapVars
    BY <1>2, <1>8, RoomForIs DEF CallStrncpy, Write
  <2> DEFINE zero == 0
  <2>3. zero \in Nat /\ zero + n < Room(p)
    BY <2>1
  <2>4. mem' = CopyEnded(mem, Start(p) + zero, Start(q), n)
    BY <1>2, <1>8 DEF CallStrncpy, Write, Strncpy
  <2> HIDE DEF zero
  <2> QED BY <2>1, <2>3, <2>4, CopyEndedInside
<1>9. ASSUME NEW q \in DOMAIN held, NEW n \in Counts(p), CallStrncat(p, q, n)
      PROVE  UNCHANGED heapVars /\ WroteInto(mem', p)
  <2>1. /\ IsText(p) /\ n \in Nat /\ n <= Room(q) /\ LengthOf(p) + n < Room(p)
        /\ UNCHANGED heapVars
    BY <1>2, <1>9, RoomForIs DEF CallStrncat, Write
  <2>2. LengthOf(p) \in Nat /\ LengthOf(p) = StrLen(mem, Start(p))
    BY <2>1, TextEnds DEF Text, LengthOf
  <2>3. mem' = CopyEnded(mem, Start(p) + LengthOf(p), Start(q), n)
    BY <1>9, <2>2 DEF CallStrncat, Write, Strncat
  <2> QED BY <2>1, <2>2, <2>3, CopyEndedInside
<1>10. CASE \E c \in Chars, n \in Counts(p) : CallMemset(p, c, n)
  BY <1>3, <1>10
<1>11. CASE \E pieces \in Formats : CallPrintf(pieces, p)
  BY <1>4, <1>11
<1>12. CASE \E q \in DOMAIN held :
             \/ CallStrcpy(p, q) \/ CallStrcat(p, q)
             \/ \E n \in Counts(p) : CallMemcpy(p, q, n) \/ CallStrncpy(p, q, n) \/ CallStrncat(p, q, n)
  BY <1>5, <1>6, <1>7, <1>8, <1>9, <1>12
<1> QED BY <1>1, <1>10, <1>11, <1>12

\* A step of the heap writes the headers it makes, which lie in the memory.
LEMMA HeadersLie ==
  ASSUME HeapSound
  PROVE  \A b \in DOMAIN size : b..(b + Header - 1) \subseteq Addresses
<1>1. \A b \in DOMAIN size : b \in Nat /\ b < Arena
  BY DEF HeapSound, HeapTypeOK, Arena
<1> QED BY <1>1 DEF Arena, Addresses

LEMMA HeadersLieNext == HeapSound' => \A b \in DOMAIN size' : b..(b + Header - 1) \subseteq Addresses
<1>1. HeapSound => \A b \in DOMAIN size : b..(b + Header - 1) \subseteq Addresses
  BY HeadersLie
<1>2. (HeapSound => \A b \in DOMAIN size : b..(b + Header - 1) \subseteq Addresses)'
  BY <1>1, PTL
<1> QED BY <1>2 DEF Addresses

LEMMA HeapStepMarks ==
  ASSUME ProgramInv, HeapSound', mem' = WithHeaders(mem)
  PROVE  /\ mem' \in [Addresses -> Int] /\ HeadersMarked'
         /\ \A a \in Addresses : mem'[a] \in Char
<1> DEFINE Marked(a) == \E b \in DOMAIN size' : a \in b..(b + Header - 1)
<1>1. mem \in [Addresses -> Int] /\ DOMAIN mem = Addresses /\ \A a \in Addresses : mem[a] \in Char
  BY DEF ProgramInv
<1>2. mem' = [a \in Addresses |-> IF Marked(a) THEN HeaderMark ELSE mem[a]]
  BY <1>1 DEF WithHeaders
<1>3. \A b \in DOMAIN size' : b..(b + Header - 1) \subseteq Addresses
  BY HeadersLieNext
<1>4. ASSUME NEW b \in DOMAIN size', NEW a \in b..(b + Header - 1)
      PROVE  mem'[a] = HeaderMark
  <2>1. Marked(a) /\ a \in Addresses
    BY <1>3
  <2> HIDE DEF Marked
  <2> QED BY <1>2, <2>1
<1>5. HeadersMarked'
  BY <1>4 DEF HeadersMarked
<1>6. mem' \in [Addresses -> Int] /\ \A a \in Addresses : mem'[a] \in Char
  <2> HIDE DEF Marked
  <2>1. HeaderMark \in Char /\ HeaderMark \in Int
    BY DEF HeaderMark, Char
  <2> QED BY <1>1, <1>2, <2>1
<1> QED BY <1>5, <1>6

\* The heap at rest leaves the memory as it is.
LEMMA RestKeeps ==
  ASSUME ProgramInv, UNCHANGED heapVars, mem' = WithHeaders(mem)
  PROVE  mem' = mem
<1>1. size' = size /\ mem \in [Addresses -> Int]
  BY DEF heapVars, ProgramInv
<1>2. \A a \in Addresses : (\E b \in DOMAIN size' : a \in b..(b + Header - 1)) => mem[a] = HeaderMark
  BY <1>1 DEF ProgramInv, HeadersMarked
<1> QED BY <1>1, <1>2 DEF WithHeaders

LEMMA ProgramInit == Init => ProgramInv
<1> SUFFICES ASSUME Init PROVE ProgramInv
  OBVIOUS
<1>1. HeapSound
  BY InitSound DEF Init
<1>2. mem = [a \in Addresses |-> IF a < Header THEN HeaderMark ELSE NUL]
  BY DEF Init, Addresses
<1>3. DOMAIN size = {0}
  BY DEF Init, HeapInit
<1>4. mem \in [Addresses -> Int] /\ \A a \in Addresses : mem[a] \in Char
  BY <1>2 DEF HeaderMark, NUL, Char
<1>5. HeadersMarked
  <2>1. \A a \in 0..(Header - 1) : a \in Addresses /\ a < Header
    BY DEF Addresses
  <2> QED BY <1>2, <1>3, <2>1 DEF HeadersMarked
<1> QED BY <1>1, <1>4, <1>5 DEF ProgramInv

LEMMA WriteKeeps ==
  ASSUME ProgramInv, UNCHANGED heapVars, NEW p \in DOMAIN held, WroteInto(mem', p)
  PROVE  ProgramInv'
<1>1. HeapSound'
  BY StutterSound DEF ProgramInv
<1>2. size' = size
  BY DEF heapVars
<1>3. ASSUME NEW b \in DOMAIN size, NEW a \in b..(b + Header - 1)
      PROVE  mem'[a] = HeaderMark
  <2>1. a \in Addresses /\ mem[a] = HeaderMark
    BY HeadersLie DEF ProgramInv, HeadersMarked
  <2>2. a \notin Buffer(p)
    BY BufferLies DEF ProgramInv
  <2> QED BY <2>1, <2>2 DEF WroteInto
<1>4. HeadersMarked'
  BY <1>2, <1>3 DEF HeadersMarked
<1>5. mem' \in [Addresses -> Int] /\ \A a \in Addresses : mem'[a] \in Char
  BY DEF WroteInto
<1> QED BY <1>1, <1>4, <1>5 DEF ProgramInv, Addresses

LEMMA ProgramNext == ASSUME ProgramInv, [Next]_vars PROVE ProgramInv'
<1>1. CASE HeapStep
  <2>1. HeapSound'
    BY <1>1, NextSound DEF HeapStep, ProgramInv
  <2>2. mem' \in [Addresses -> Int] /\ HeadersMarked' /\ \A a \in Addresses : mem'[a] \in Char
    BY <1>1, <2>1, HeapStepMarks DEF HeapStep
  <2> QED BY <2>1, <2>2 DEF ProgramInv, Addresses
<1>2. ASSUME UNCHANGED heapVars, mem' = mem PROVE ProgramInv'
  <2>1. HeapSound' /\ size' = size
    BY <1>2, StutterSound DEF ProgramInv, heapVars
  <2> QED BY <1>2, <2>1 DEF ProgramInv, HeadersMarked, Addresses
<1>3. CASE TextStep
  BY <1>2, <1>3, TextStepInside, WriteKeeps
<1>4. CASE UNCHANGED vars
  BY <1>2, <1>4 DEF vars
<1> QED BY <1>1, <1>3, <1>4 DEF Next

LEMMA ProgramInvHolds == Spec => []ProgramInv
BY ProgramInit, ProgramNext, PTL DEF Spec

\* The heap stays sound under every program that keeps to its buffers: what it
\* writes reaches no header.
THEOREM ProgramKeepsHeapSound == Spec => []HeapSound
<1>1. ProgramInv => HeapSound
  BY DEF ProgramInv
<1> QED BY <1>1, ProgramInvHolds, PTL

\* A call of a string or memory routine, given a destination with the room that
\* routine uses, changes no byte outside one held buffer: no header and
\* no other buffer, whatever is in the strings.
THEOREM RoutinesWriteInside == Spec => WritesInside
<1> DEFINE Inside == UNCHANGED heapVars =>
      \A a, b \in DOMAIN mem : mem'[a] # mem[a] /\ mem'[b] # mem[b] =>
        \E p \in DOMAIN held : {a, b} \subseteq Buffer(p)
<1>1. ASSUME ProgramInv, [Next]_vars PROVE [Inside]_vars
  <2> SUFFICES ASSUME UNCHANGED heapVars, NEW a \in DOMAIN mem, NEW b \in DOMAIN mem,
                      mem'[a] # mem[a], mem'[b] # mem[b]
               PROVE  \E p \in DOMAIN held : {a, b} \subseteq Buffer(p)
    OBVIOUS
  <2>1. DOMAIN mem = Addresses
    BY <1>1 DEF ProgramInv
  <2>2. CASE HeapStep
    BY <1>1, <2>2, RestKeeps DEF HeapStep
  <2>3. CASE TextStep
    <3>1. PICK p \in DOMAIN held : WroteInto(mem', p)
      BY <1>1, <2>3, TextStepInside
    <3> QED BY <2>1, <3>1 DEF WroteInto
  <2>4. CASE UNCHANGED vars
    BY <2>4 DEF vars
  <2> QED BY <1>1, <2>2, <2>3, <2>4 DEF Next
<1>2. Spec => [][Inside]_vars
  BY <1>1, ProgramInvHolds, PTL DEF Spec
<1> QED BY <1>2 DEF WritesInside

\* A program sees the abstract allocator.
THEOREM ProgramSeesAllocator == Spec => ImplementsAllocator
<1>1. Init => HeapInit
  BY DEF Init
<1>2. ProgramInv /\ [Next]_vars => [HeapNext]_heapVars
  BY TextStepInside DEF Next, HeapStep, vars
<1>3. Spec => HeapSpec
  BY <1>1, <1>2, ProgramInvHolds, PTL DEF Spec, HeapSpec
<1> QED BY <1>3, HeapIsAllocator

(****************************************************************************)
(* What the routines leave in the destination, and how they compare.        *)
(****************************************************************************)
\* Strings are sequences of characters.
LEMMA StringIs ==
  ASSUME NEW m \in [Addresses -> Int], NEW s \in Nat, NEW n, Text(m, s, n), s + n < HeapSize
  PROVE  /\ StringAt(m, s) \in Seq(Int) /\ Len(StringAt(m, s)) = n
         /\ StringAt(m, s) = [i \in 1..n |-> m[s + i - 1]]
<1>1. n \in Nat /\ StrLen(m, s) = n /\ \A j \in 0..(n - 1) : m[s + j] # NUL
  BY DEF Text
<1>2. StringAt(m, s) = [i \in 1..n |-> m[s + i - 1]]
  BY <1>1 DEF StringAt
<1>3. ASSUME NEW i \in 1..n PROVE m[s + i - 1] \in Int
  <2>1. s + i - 1 \in Addresses
    BY <1>1 DEF Addresses
  <2> QED BY <2>1
<1>4. [i \in 1..n |-> m[s + i - 1]] \in Seq(Int) /\ Len([i \in 1..n |-> m[s + i - 1]]) = n
  BY <1>1, <1>3
<1> QED BY <1>2, <1>4

\* The first n characters of a string.
LEMMA PrefixIs ==
  ASSUME NEW u \in Seq(Int), NEW n \in Nat
  PROVE  /\ Prefix(u, n) \in Seq(Int)
         /\ Len(Prefix(u, n)) = IF Len(u) < n THEN Len(u) ELSE n
         /\ \A i \in 1..Len(Prefix(u, n)) : Prefix(u, n)[i] = u[i]
<1> DEFINE k == IF Len(u) < n THEN Len(u) ELSE n
<1>1. k \in Nat /\ k <= Len(u)
  OBVIOUS
<1>2. Prefix(u, n) = SubSeq(u, 1, k)
  BY DEF Prefix
<1> HIDE DEF k
<1>3. SubSeq(u, 1, k) \in Seq(Int) /\ Len(SubSeq(u, 1, k)) = k
  BY <1>1
<1>4. \A i \in 1..k : SubSeq(u, 1, k)[i] = u[i]
  BY <1>1
<1>5. Len(Prefix(u, n)) = k
  BY <1>2, <1>3
<1> QED BY <1>2, <1>3, <1>4, <1>5 DEF k

\* Two sequences with the same elements are the same.
LEMMA SameText ==
  ASSUME NEW u \in Seq(Int), NEW v \in Seq(Int), Len(u) = Len(v),
         \A i \in 1..Len(u) : u[i] = v[i]
  PROVE  u = v
OBVIOUS

\* The facts of a buffer that a routine is called with.
LEMMA TwoBuffers ==
  ASSUME ProgramInv, NEW p \in DOMAIN held
  PROVE  /\ mem \in [Addresses -> Int] /\ DOMAIN mem = Addresses
         /\ Start(p) \in Nat /\ Room(p) \in Nat /\ Start(p) + Room(p) <= HeapSize
         /\ IsText(p) => /\ Text(mem, Start(p), LengthOf(p))
                         /\ LengthOf(p) = StrLen(mem, Start(p))
                         /\ LengthOf(p) \in Nat /\ LengthOf(p) < Room(p)
                         /\ Start(p) + LengthOf(p) < HeapSize
                         /\ \A j \in 0..(LengthOf(p) - 1) : mem[Start(p) + j] # NUL
                         /\ TextOf(mem, p) \in Seq(Int) /\ Len(TextOf(mem, p)) = LengthOf(p)
                         /\ TextOf(mem, p) = [i \in 1..LengthOf(p) |-> mem[Start(p) + i - 1]]
<1>1. /\ mem \in [Addresses -> Int] /\ DOMAIN mem = Addresses
      /\ Start(p) \in Nat /\ Room(p) \in Nat /\ Start(p) + Room(p) <= HeapSize
  BY BufferLies DEF ProgramInv
<1>2. ASSUME IsText(p)
      PROVE  /\ Text(mem, Start(p), LengthOf(p))
             /\ LengthOf(p) = StrLen(mem, Start(p))
             /\ LengthOf(p) \in Nat /\ LengthOf(p) < Room(p)
             /\ Start(p) + LengthOf(p) < HeapSize
             /\ \A j \in 0..(LengthOf(p) - 1) : mem[Start(p) + j] # NUL
             /\ TextOf(mem, p) \in Seq(Int) /\ Len(TextOf(mem, p)) = LengthOf(p)
             /\ TextOf(mem, p) = [i \in 1..LengthOf(p) |-> mem[Start(p) + i - 1]]
  <2>1. Text(mem, Start(p), LengthOf(p)) /\ LengthOf(p) < Room(p)
    BY <1>2, TextEnds
  <2>2. LengthOf(p) \in Nat /\ \A j \in 0..(LengthOf(p) - 1) : mem[Start(p) + j] # NUL
    BY <2>1 DEF Text
  <2>3. LengthOf(p) = StrLen(mem, Start(p))
    BY DEF LengthOf
  <2>4. Start(p) + LengthOf(p) < HeapSize
    BY <1>1, <2>1, <2>2
  <2>5. StringAt(mem, Start(p)) \in Seq(Int) /\ Len(StringAt(mem, Start(p))) = LengthOf(p)
    BY <1>1, <2>1, <2>4, StringIs
  <2>6. TextOf(mem, p) = [i \in 1..LengthOf(p) |-> mem[Start(p) + i - 1]]
    BY <2>3 DEF TextOf, StringAt
  <2> QED BY <2>1, <2>2, <2>3, <2>4, <2>5, <2>6 DEF TextOf
<1> QED BY <1>1, <1>2

\* The bytes of a buffer after n bytes of q, and a NUL, have been written
\* behind its first l.
LEMMA CopiedBytes ==
  ASSUME ProgramInv, NEW p \in DOMAIN held, NEW q \in DOMAIN held,
         NEW l \in Nat, NEW n \in Nat, l + n < Room(p),
         NEW i \in 1..Room(p)
  PROVE  Bytes(CopyEnded(mem, Start(p) + l, Start(q), n), p, Room(p))[i] =
           IF i \in (l + 1)..(l + n) THEN mem[Start(q) + (i - l) - 1]
           ELSE IF i = l + n + 1 THEN NUL ELSE mem[Start(p) + i - 1]
<1> DEFINE d == Start(p)
           s == Start(q)
           room == Room(p)
           a == d + i - 1
           m == CopyEnded(mem, d + l, s, n)
<1>1. /\ DOMAIN mem = Addresses /\ d \in Nat /\ s \in Nat
      /\ room \in Nat /\ d + room <= HeapSize
  BY TwoBuffers
<1>2. Bytes(m, p, room)[i] = m[a]
  BY DEF Bytes
<1>3. i \in 1..room
  OBVIOUS
<1> HIDE DEF d, s, room
<1>4. a \in Addresses
  BY <1>1, <1>3 DEF Addresses
<1>5. m[a] = IF a \in (d + l)..(d + l + n - 1) THEN mem[s + a - (d + l)]
             ELSE IF a = d + l + n THEN NUL ELSE mem[a]
  BY <1>1, <1>4 DEF CopyEnded
<1>6. /\ a \in (d + l)..(d + l + n - 1) <=> i \in (l + 1)..(l + n)
      /\ a = d + l + n <=> i = l + n + 1
      /\ s + a - (d + l) = s + (i - l) - 1
  BY <1>1, <1>3
<1> HIDE DEF a, m
<1>7. m[a] = IF i \in (l + 1)..(l + n) THEN mem[s + (i - l) - 1]
             ELSE IF i = l + n + 1 THEN NUL ELSE mem[a]
  BY <1>5, <1>6
<1> QED BY <1>2, <1>7 DEF d, s, room, a, m

\* The text of q, copied behind the first l bytes of p
LEMMA TextCopied ==
  ASSUME ProgramInv, NEW p \in DOMAIN held, NEW q \in DOMAIN held, IsText(q),
         NEW l \in Nat, l + LengthOf(q) < Room(p)
  PROVE  Bytes(CopyEnded(mem, Start(p) + l, Start(q), LengthOf(q)), p, Room(p)) =
           LibraryStrcat(Bytes(mem, p, Room(p)), l, TextOf(mem, q))
<1> DEFINE n == LengthOf(q)
           s == Start(q)
           u == TextOf(mem, q)
           b == Bytes(mem, p, Room(p))
           out == Bytes(CopyEnded(mem, Start(p) + l, s, n), p, Room(p))
<1>1. n \in Nat /\ Len(u) = n /\ u = [i \in 1..n |-> mem[s + i - 1]]
  BY TwoBuffers
<1>2. /\ out = [i \in 1..Room(p) |-> out[i]]
      /\ DOMAIN b = 1..Room(p) /\ \A i \in 1..Room(p) : b[i] = mem[Start(p) + i - 1]
  BY DEF Bytes
<1>3. \A i \in 1..Room(p) :
        out[i] = IF i \in (l + 1)..(l + n) THEN mem[s + (i - l) - 1]
                 ELSE IF i = l + n + 1 THEN NUL ELSE mem[Start(p) + i - 1]
  BY <1>1, CopiedBytes
<1>4. Room(p) \in Nat
  BY TwoBuffers
<1> HIDE DEF n, s, u, b, out
<1>5. ASSUME NEW i \in 1..Room(p)
      PROVE  out[i] = IF i \in (l + 1)..(l + Len(u)) THEN u[i - l]
                      ELSE IF i = l + Len(u) + 1 THEN NUL ELSE b[i]
  <2>1. i \in Nat
    BY <1>4
  <2>2. i \in (l + 1)..(l + n) => u[i - l] = mem[s + (i - l) - 1]
    <3>1. i \in (l + 1)..(l + n) => i - l \in 1..n
      BY <1>1, <2>1
    <3> QED BY <1>1, <3>1
  <2> QED BY <1>1, <1>2, <1>3, <2>2
<1>6. out = LibraryStrcat(b, l, u)
  BY <1>2, <1>5 DEF LibraryStrcat
<1> QED BY <1>6 DEF n, s, u, b, out

\* The bytes a counted copy leaves behind the first l of p
LEMMA CountedCopy ==
  ASSUME ProgramInv, NEW p \in DOMAIN held, NEW q \in DOMAIN held,
         NEW l \in Nat, NEW n \in Nat, l + n < Room(p),
         NEW out, out = Bytes(CopyEnded(mem, Start(p) + l, Start(q), n), p, Room(p)),
         NEW src, src = Bytes(mem, q, n),
         NEW b, b = Bytes(mem, p, Room(p))
  PROVE  /\ Len(src) = n /\ DOMAIN src = 1..n
         /\ Room(p) \in Nat /\ DOMAIN out = 1..Room(p) /\ DOMAIN b = 1..Room(p)
         /\ \A i \in 1..Room(p) :
              out[i] = IF i \in (l + 1)..(l + n) THEN src[i - l]
                       ELSE IF i = l + n + 1 THEN NUL ELSE b[i]
<1> DEFINE s == Start(q)
<1>1. DOMAIN src = 1..n /\ \A j \in 1..n : src[j] = mem[s + j - 1]
  BY DEF Bytes
<1>2. src \in Seq({src[j] : j \in 1..n}) /\ Len(src) = n
  <2>1. src = [j \in 1..n |-> src[j]]
    BY DEF Bytes
  <2> QED BY <2>1
<1>3. DOMAIN out = 1..Room(p) /\ DOMAIN b = 1..Room(p) /\ \A i \in 1..Room(p) : b[i] = mem[Start(p) + i - 1]
  BY DEF Bytes
<1>4. Room(p) \in Nat
  BY TwoBuffers
<1>5. \A i \in 1..Room(p) :
        out[i] = IF i \in (l + 1)..(l + n) THEN mem[s + (i - l) - 1]
                 ELSE IF i = l + n + 1 THEN NUL ELSE mem[Start(p) + i - 1]
  BY CopiedBytes
<1>6. ASSUME NEW i \in 1..Room(p), i \in (l + 1)..(l + n) PROVE src[i - l] = mem[s + (i - l) - 1]
  <2>1. i - l \in 1..n
    BY <1>4, <1>6
  <2> QED BY <1>1, <2>1
<1> HIDE DEF s
<1> QED BY <1>1, <1>2, <1>3, <1>4, <1>5, <1>6

LEMMA StrncpyRight ==
  ASSUME ProgramInv, NEW p \in DOMAIN held, NEW q \in DOMAIN held,
         NEW n \in Nat, n < Room(p)
  PROVE  LET src == Bytes(mem, q, n)
         IN Counted(Bytes(Strncpy(mem, Start(p), Start(q), n), p, Room(p)),
                    LibraryStrncpy(Bytes(mem, p, Room(p)), src), 0, src)
<1> DEFINE src == Bytes(mem, q, n)
           b == Bytes(mem, p, Room(p))
           out == Bytes(Strncpy(mem, Start(p), Start(q), n), p, Room(p))
           zero == 0
<1>1. out = Bytes(CopyEnded(mem, Start(p) + zero, Start(q), n), p, Room(p))
  <2>1. Start(p) + zero = Start(p)
    BY TwoBuffers
  <2> QED BY <2>1 DEF Strncpy
<1>2. zero \in Nat /\ zero + n < Room(p) /\ zero = 0
  OBVIOUS
<1> HIDE DEF zero
<1>3. /\ Len(src) = n /\ DOMAIN src = 1..n
      /\ Room(p) \in Nat /\ DOMAIN out = 1..Room(p) /\ DOMAIN b = 1..Room(p)
      /\ \A i \in 1..Room(p) :
           out[i] = IF i \in (zero + 1)..(zero + n) THEN src[i - zero]
                    ELSE IF i = zero + n + 1 THEN NUL ELSE b[i]
  BY <1>1, <1>2, CountedCopy
<1> HIDE DEF src, b, out
<1>4. ASSUME NEW i \in DOMAIN out
      PROVE  out[i] = IF Departs(i, 0, src) THEN src[i - 0]
                      ELSE IF Last(i, 0, src) THEN NUL ELSE LibraryStrncpy(b, src)[i]
  <2>1. i \in Nat /\ i >= 1 /\ i \in 1..Room(p) /\ i - 0 = i
    BY <1>3
  <2>2. out[i] = IF i \in 1..n THEN src[i] ELSE IF i = n + 1 THEN NUL ELSE b[i]
    BY <1>2, <1>3, <2>1
  <2>3. LibraryStrncpy(b, src)[i] =
          IF i \notin 1..n THEN b[i] ELSE IF InText(src, i) THEN src[i] ELSE NUL
    BY <1>3, <2>1 DEF LibraryStrncpy
  <2>4. Departs(i, 0, src) <=> i \in 1..n /\ \E j \in 1..(i - 1) : src[j] = NUL
    BY <1>3, <2>1 DEF Departs
  <2>5. Last(i, 0, src) <=> i = n + 1
    BY <1>3, <2>1 DEF Last
  <2>6. ASSUME i \in 1..n, ~Departs(i, 0, src)
        PROVE  src[i] = IF InText(src, i) THEN src[i] ELSE NUL
    <3>1. \A j \in 1..i : j \in 1..(i - 1) \/ j = i
      BY <2>1
    <3> QED BY <1>3, <2>4, <2>6, <3>1 DEF InText
  <2>7. i \in 1..n => i # n + 1
    BY <2>1
  <2> QED BY <2>1, <2>2, <2>3, <2>4, <2>5, <2>6, <2>7
<1>5. Counted(out, LibraryStrncpy(b, src), 0, src)
  BY <1>4 DEF Counted
<1> QED BY <1>5 DEF src, b, out

LEMMA StrncatRight ==
  ASSUME ProgramInv, NEW p \in DOMAIN held, NEW q \in DOMAIN held, IsText(p),
         NEW n \in Nat, LengthOf(p) + n < Room(p)
  PROVE  LET src == Bytes(mem, q, n)
         IN Counted(Bytes(Strncat(mem, Start(p), Start(q), n), p, Room(p)),
                    LibraryStrncat(Bytes(mem, p, Room(p)), LengthOf(p), src), LengthOf(p), src)
<1> DEFINE src == Bytes(mem, q, n)
           b == Bytes(mem, p, Room(p))
           l == LengthOf(p)
           out == Bytes(Strncat(mem, Start(p), Start(q), n), p, Room(p))
<1>1. out = Bytes(CopyEnded(mem, Start(p) + l, Start(q), n), p, Room(p)) /\ l \in Nat /\ l + n < Room(p)
  BY TwoBuffers DEF Strncat, LengthOf
<1> HIDE DEF l
<1>3. /\ Len(src) = n /\ DOMAIN src = 1..n
      /\ Room(p) \in Nat /\ DOMAIN out = 1..Room(p) /\ DOMAIN b = 1..Room(p)
      /\ \A i \in 1..Room(p) :
           out[i] = IF i \in (l + 1)..(l + n) THEN src[i - l]
                    ELSE IF i = l + n + 1 THEN NUL ELSE b[i]
  BY <1>1, CountedCopy
<1> HIDE DEF src, b, out
<1>4. ASSUME NEW i \in DOMAIN out
      PROVE  out[i] = IF Departs(i, l, src) THEN src[i - l]
                      ELSE IF Last(i, l, src) THEN NUL ELSE LibraryStrncat(b, l, src)[i]
  <2>1. i \in Nat /\ i >= 1 /\ i \in 1..Room(p)
    BY <1>3
  <2>2. out[i] = IF i \in (l + 1)..(l + n) THEN src[i - l] ELSE IF i = l + n + 1 THEN NUL ELSE b[i]
    BY <1>3, <2>1
  <2>3. LibraryStrncat(b, l, src)[i] =
          IF i <= l THEN b[i] ELSE IF InText(src, i - l) THEN src[i - l]
          ELSE IF EndsText(src, i - l) THEN NUL ELSE b[i]
    BY <1>3, <2>1 DEF LibraryStrncat
  <2>4. Departs(i, l, src) <=> i \in (l + 1)..(l + n) /\ \E j \in 1..(i - l - 1) : src[j] = NUL
    BY <1>3, <2>1 DEF Departs
  <2>5. Last(i, l, src) <=> i = l + n + 1
    BY <1>3, <2>1 DEF Last
  <2>6. CASE i <= l
    BY <1>1, <2>1, <2>2, <2>3, <2>4, <2>5, <2>6
  <2>7. CASE i \in (l + 1)..(l + n) /\ ~Departs(i, l, src)
    <3> DEFINE k == i - l
    <3>1. k \in 1..n /\ ~(i <= l) /\ i # l + n + 1
      BY <1>1, <2>1, <2>7
    <3>2. \A j \in 1..(k - 1) : src[j] # NUL
      BY <2>4, <2>7
    <3> HIDE DEF k
    <3>3. \A j \in 1..k : j \in 1..(k - 1) \/ j = k
      BY <3>1
    <3>4. \A j \in 1..(k - 1) : InText(src, j)
      <4>1. ASSUME NEW j \in 1..(k - 1) PROVE InText(src, j)
        <5>1. j \in 1..n /\ \A h \in 1..j : h \in 1..(k - 1)
          BY <3>1
        <5> QED BY <1>3, <3>2, <5>1 DEF InText
      <4> QED BY <4>1
    <3>5. src[k] = IF InText(src, k) THEN src[k] ELSE IF EndsText(src, k) THEN NUL ELSE b[i]
      <4>1. InText(src, k) <=> src[k] # NUL
        BY <1>3, <3>1, <3>2, <3>3 DEF InText
      <4> QED BY <3>4, <4>1 DEF EndsText
    <3> QED BY <2>2, <2>3, <2>5, <2>7, <3>1, <3>5 DEF k
  <2>8. CASE Departs(i, l, src)
    BY <2>2, <2>4, <2>8
  <2>9. CASE i = l + n + 1
    <3>1. i \notin (l + 1)..(l + n)
      BY <1>1, <2>9
    <3> QED BY <2>2, <2>4, <2>5, <2>9, <3>1
  <2>10. CASE i > l + n + 1
    <3> DEFINE k == i - l
    <3>1. k \notin 1..n /\ ~(i <= l) /\ i \notin (l + 1)..(l + n) /\ i # l + n + 1
          /\ n + 1 \in 1..(k - 1) /\ n + 1 \notin 1..n
      BY <1>1, <2>1, <2>10
    <3> HIDE DEF k
    <3>2. ~InText(src, k) /\ ~InText(src, n + 1)
      BY <1>3, <3>1 DEF InText
    <3>3. ~EndsText(src, k)
      BY <3>1, <3>2 DEF EndsText
    <3> QED BY <2>2, <2>3, <2>4, <2>5, <3>1, <3>2, <3>3 DEF k
  <2>11. i <= l \/ i \in (l + 1)..(l + n) \/ i = l + n + 1 \/ i > l + n + 1
    BY <1>1, <2>1
  <2> QED BY <2>6, <2>7, <2>8, <2>9, <2>10, <2>11
<1>5. Counted(out, LibraryStrncat(b, l, src), l, src)
  BY <1>4 DEF Counted
<1> QED BY <1>5 DEF src, b, out, l

LEMMA MemcpyRight ==
  ASSUME ProgramInv, NEW p \in DOMAIN held, NEW q \in DOMAIN held,
         NEW n \in Nat, n <= Room(p)
  PROVE  Bytes(Memcpy(mem, Start(p), Start(q), n), p, n) = Bytes(mem, q, n)
<1> DEFINE d == Start(p)
           s == Start(q)
<1>1. /\ d \in Nat /\ d + Room(p) <= HeapSize /\ DOMAIN mem = Addresses
      /\ s \in Nat /\ Room(p) \in Nat
  BY TwoBuffers
<1> HIDE DEF d, s
<1>2. ASSUME NEW i \in 1..n PROVE Memcpy(mem, d, s, n)[d + i - 1] = mem[s + i - 1]
  <2> DEFINE a == d + i - 1
  <2>1. a \in Addresses /\ a \in d..(d + n - 1) /\ s + a - d = s + i - 1
    BY <1>1 DEF Addresses
  <2> HIDE DEF a
  <2>2. Memcpy(mem, d, s, n)[a] = mem[s + a - d]
    BY <1>1, <2>1 DEF Memcpy
  <2> QED BY <2>1, <2>2 DEF a
<1> QED BY <1>2 DEF Bytes, d, s

LEMMA WritesAreRight == ProgramInv => WriteRight
<1> SUFFICES ASSUME ProgramInv, NEW p \in DOMAIN held, NEW q \in DOMAIN held \ {p}
             PROVE  LET d == Start(p)
                        s == Start(q)
                        b == Bytes(mem, p, Room(p))
                        Left(m) == Bytes(m, p, Room(p))
                    IN /\ RoomFor(p, q, "strcpy", 0) =>
                            Left(Strcpy(mem, d, s)) = LibraryStrcpy(b, TextOf(mem, q))
                       /\ RoomFor(p, q, "strcat", 0) =>
                            Left(Strcat(mem, d, s)) = LibraryStrcat(b, LengthOf(p), TextOf(mem, q))
                       /\ \A n \in Counts(p) :
                            LET src == Bytes(mem, q, n) IN
                            /\ RoomFor(p, q, "strncpy", n) =>
                                 Counted(Left(Strncpy(mem, d, s, n)), LibraryStrncpy(b, src), 0, src)
                            /\ RoomFor(p, q, "strncat", n) =>
                                 Counted(Left(Strncat(mem, d, s, n)),
                                         LibraryStrncat(b, LengthOf(p), src), LengthOf(p), src)
                            /\ n <= Room(q) => Bytes(Memcpy(mem, d, s, n), p, n) = src
  BY DEF WriteRight
<1> DEFINE d == Start(p)
           s == Start(q)
           b == Bytes(mem, p, Room(p))
           Left(m) == Bytes(m, p, Room(p))
<1>1. Room(p) \in Nat /\ \A n \in Counts(p) : n \in Nat /\ n <= Room(p)
  BY TwoBuffers DEF Counts
<1>2. ASSUME RoomFor(p, q, "strcpy", 0)
      PROVE  Left(Strcpy(mem, d, s)) = LibraryStrcpy(b, TextOf(mem, q))
  <2> DEFINE zero == 0
  <2>1. IsText(q) /\ LengthOf(q) < Room(p) /\ LengthOf(q) \in Nat /\ d \in Nat
    BY <1>2, RoomForIs, TwoBuffers
  <2>2. zero \in Nat /\ zero + LengthOf(q) < Room(p) /\ d + zero = d /\ zero = 0
    BY <2>1
  <2> HIDE DEF zero
  <2>3. Left(CopyEnded(mem, d + zero, s, LengthOf(q))) = LibraryStrcat(b, zero, TextOf(mem, q))
    BY <2>1, <2>2, TextCopied
  <2> QED BY <2>2, <2>3 DEF Strcpy, LengthOf, LibraryStrcpy
<1>3. ASSUME RoomFor(p, q, "strcat", 0)
      PROVE  Left(Strcat(mem, d, s)) = LibraryStrcat(b, LengthOf(p), TextOf(mem, q))
  <2>1. IsText(q) /\ IsText(p) /\ LengthOf(p) + LengthOf(q) < Room(p) /\ LengthOf(p) \in Nat
    BY <1>3, RoomForIs, TwoBuffers
  <2>2. Left(CopyEnded(mem, d + LengthOf(p), s, LengthOf(q))) =
          LibraryStrcat(b, LengthOf(p), TextOf(mem, q))
    BY <2>1, TextCopied
  <2> QED BY <2>2 DEF Strcat, LengthOf
<1>4. ASSUME NEW n \in Counts(p), RoomFor(p, q, "strncpy", n)
      PROVE  Counted(Left(Strncpy(mem, d, s, n)), LibraryStrncpy(b, Bytes(mem, q, n)), 0, Bytes(mem, q, n))
  <2>1. n \in Nat /\ n < Room(p)
    BY <1>1, <1>4, RoomForIs
  <2> QED BY <2>1, StrncpyRight
<1>5. ASSUME NEW n \in Counts(p), RoomFor(p, q, "strncat", n)
      PROVE  Counted(Left(Strncat(mem, d, s, n)), LibraryStrncat(b, LengthOf(p), Bytes(mem, q, n)),
                     LengthOf(p), Bytes(mem, q, n))
  <2>1. n \in Nat /\ IsText(p) /\ LengthOf(p) + n < Room(p)
    BY <1>1, <1>5, RoomForIs
  <2> QED BY <2>1, StrncatRight
<1>6. ASSUME NEW n \in Counts(p)
      PROVE  Bytes(Memcpy(mem, d, s, n), p, n) = Bytes(mem, q, n)
  BY <1>1, MemcpyRight
<1> HIDE DEF d, s, b, Left
<1> QED BY <1>2, <1>3, <1>4, <1>5, <1>6 DEF d, s, b, Left

\* Two sequences are the same for k places.
Agree(u, v, k) == \A i \in 1..k : Nth(u, i) = Nth(v, i) /\ Nth(u, i) \in Int

\* The difference of two characters has the sign of the C library's order, or
\* the opposite where the order is turned.
LEMMA CharOrder ==
  ASSUME NEW a \in Char, NEW b \in Char, a # b
  PROVE  Sign(a - b) = IF Turned(a, b) THEN -LibraryOrder(a, b) ELSE LibraryOrder(a, b)
<1>1. a \in Int /\ b \in Int /\ a >= -128 /\ a <= 127 /\ b >= -128 /\ b <= 127
  BY DEF Char
<1>2. CASE a < 0 /\ b < 0
  BY <1>1, <1>2 DEF Sign, LibraryOrder, Unsigned, Turned
<1>3. CASE a < 0 /\ ~(b < 0)
  <2>1. Turned(a, b)
    BY <1>3 DEF Turned
  <2>2. Sign(a - b) = -1
    BY <1>1, <1>3 DEF Sign
  <2>3. LibraryOrder(a, b) = 1
    BY <1>1, <1>3 DEF Sign, LibraryOrder, Unsigned
  <2> QED BY <2>1, <2>2, <2>3
<1>4. CASE ~(a < 0) /\ b < 0
  <2>1. Turned(a, b)
    BY <1>4 DEF Turned
  <2>2. Sign(a - b) = 1
    BY <1>1, <1>4 DEF Sign
  <2>3. LibraryOrder(a, b) = -1
    BY <1>1, <1>4 DEF Sign, LibraryOrder, Unsigned
  <2> QED BY <2>1, <2>2, <2>3
<1>5. CASE ~(a < 0) /\ ~(b < 0)
  BY <1>1, <1>5 DEF Sign, LibraryOrder, Unsigned, Turned
<1> QED BY <1>2, <1>3, <1>4, <1>5

\* Two sequences compare by the first place where they differ, and there is
\* only one.
LEMMA ComparesAt ==
  ASSUME NEW u \in Seq(Int), NEW v \in Seq(Int), NEW k \in Nat, k <= Len(u),
         Nth(u, k + 1) \in Char, Nth(v, k + 1) \in Char, Nth(u, k + 1) # Nth(v, k + 1),
         Agree(u, v, k)
  PROVE  Compares(Nth(u, k + 1) - Nth(v, k + 1), u, v)
<1> DEFINE a == Nth(u, k + 1)
           b == Nth(v, k + 1)
<1>1. u # v
  OBVIOUS
<1>2. ASSUME NEW i \in 1..(Len(u) + 1), FirstDifference(u, v, i) PROVE i = k + 1
  <2>1. ~(i < k + 1)
    <3>1. i < k + 1 => i \in 1..k
      OBVIOUS
    <3> QED BY <1>2, <3>1 DEF FirstDifference, Agree
  <2>2. ~(k + 1 < i)
    <3>1. k + 1 < i => k + 1 \in 1..(i - 1)
      OBVIOUS
    <3> QED BY <1>2, <3>1 DEF FirstDifference
  <2> QED BY <2>1, <2>2
<1>3. Sign(a - b) = IF Turned(a, b) THEN -LibraryOrder(a, b) ELSE LibraryOrder(a, b)
  BY CharOrder
<1> QED BY <1>1, <1>2, <1>3 DEF Compares

LEMMA ComparesSame == ASSUME NEW u, NEW v, u = v PROVE Compares(0, u, v)
BY DEF Compares, FirstDifference

\* A character of a text, or the NUL behind it.
LEMMA NthText ==
  ASSUME ProgramInv, NEW p \in DOMAIN held, IsText(p), NEW j \in 0..LengthOf(p)
  PROVE  Nth(TextOf(mem, p), j + 1) = mem[Start(p) + j] /\ mem[Start(p) + j] \in Int
<1> DEFINE s == Start(p)
           l == LengthOf(p)
           u == TextOf(mem, p)
<1>1. /\ mem \in [Addresses -> Int] /\ s \in Nat /\ l \in Nat /\ s + l < HeapSize
      /\ mem[s + l] = NUL
  BY TwoBuffers DEF Text
<1>2. u \in Seq(Int) /\ Len(u) = l
  BY TwoBuffers
<1>3. u = [i \in 1..l |-> mem[s + i - 1]]
  BY TwoBuffers
<1>4. j \in 0..l
  OBVIOUS
<1> HIDE DEF s, l, u
<1>5. mem[s + j] \in Int
  <2>1. s + j \in Addresses
    BY <1>1, <1>4 DEF Addresses
  <2> QED BY <1>1, <2>1
<1>6. CASE j < l
  <2>1. j + 1 \in 1..l /\ s + (j + 1) - 1 = s + j
    BY <1>1, <1>4, <1>6
  <2>2. u[j + 1] = mem[s + (j + 1) - 1] /\ j + 1 \in DOMAIN u
    BY <1>3, <2>1
  <2>3. Nth(u, j + 1) = mem[s + j]
    BY <2>1, <2>2 DEF Nth
  <2> QED BY <1>5, <2>3 DEF s, u
<1>7. CASE ~(j < l)
  <2>1. j = l
    BY <1>1, <1>4, <1>7
  <2>2. l + 1 \notin DOMAIN u
    BY <1>1, <1>3
  <2>3. Nth(u, j + 1) = mem[s + j]
    BY <1>1, <2>1, <2>2 DEF Nth
  <2> QED BY <1>5, <2>3 DEF s, u
<1> QED BY <1>6, <1>7

LEMMA CharText ==
  ASSUME ProgramInv, NEW p \in DOMAIN held, IsText(p), NEW j \in 0..LengthOf(p)
  PROVE  mem[Start(p) + j] \in Char
<1>1. Start(p) \in Nat /\ LengthOf(p) \in Nat /\ Start(p) + LengthOf(p) < HeapSize
  BY TwoBuffers
<1>2. Start(p) + j \in Addresses
  BY <1>1 DEF Addresses
<1> QED BY <1>2 DEF ProgramInv

\* Where a comparison of two texts stops.
NoStop(m, s, t, n) == \A j \in 0..(n - 1) : ~StopsAt(m, s, t, j)

LEMMA StrcmpIs ==
  ASSUME NEW m \in [Addresses -> Int], NEW s, NEW t, NEW k \in 0..HeapSize,
         StopsAt(m, s, t, k), NoStop(m, s, t, k)
  PROVE  Strcmp(m, s, t) = m[s + k] - m[t + k]
<1> DEFINE First(l) == StopsAt(m, s, t, l) /\ \A j \in 0..(l - 1) : ~StopsAt(m, s, t, j)
           c == CHOOSE l \in 0..HeapSize : First(l)
<1>1. Strcmp(m, s, t) = m[s + c] - m[t + c]
  BY AddressCount DEF Strcmp
<1>2. First(k)
  BY DEF NoStop
<1>3. ASSUME NEW l \in 0..HeapSize, First(l) PROVE l = k
  <2>1. ~(l < k)
    BY <1>3 DEF NoStop
  <2>2. ~(k < l)
    BY <1>3
  <2> QED BY <2>1, <2>2
<1> HIDE DEF First
<1>4. c = k
  BY <1>2, <1>3
<1> QED BY <1>1, <1>4

LEMMA StrncmpIs ==
  ASSUME NEW m, NEW s, NEW t, NEW n \in Nat, NEW k \in 0..n,
         k = n \/ StopsAt(m, s, t, k), NoStop(m, s, t, k)
  PROVE  Strncmp(m, s, t, n) = m[s + k] - m[t + k]
<1> DEFINE Stops(l) == l = n \/ StopsAt(m, s, t, l)
           First(l) == Stops(l) /\ \A j \in 0..(l - 1) : ~Stops(j)
           c == CHOOSE l \in 0..n : First(l)
<1>1. Strncmp(m, s, t, n) = m[s + c] - m[t + c]
  BY DEF Strncmp
<1>2. First(k)
  BY DEF NoStop
<1>3. ASSUME NEW l \in 0..n, First(l) PROVE l = k
  <2>1. ~(l < k)
    BY <1>3 DEF NoStop
  <2>2. ~(k < l)
    BY <1>3
  <2> QED BY <2>1, <2>2
<1> HIDE DEF First
<1>4. c = k
  BY <1>2, <1>3
<1> QED BY <1>1, <1>4

\* Two texts up to where their comparison stops.
LEMMA TextsAgree ==
  ASSUME ProgramInv, NEW p \in DOMAIN held, NEW q \in DOMAIN held, IsText(p), IsText(q),
         NEW k \in Nat, NoStop(mem, Start(p), Start(q), k)
  PROVE  /\ k <= LengthOf(p) /\ k <= LengthOf(q)
         /\ Agree(TextOf(mem, p), TextOf(mem, q), k)
<1> DEFINE s == Start(p)
           t == Start(q)
<1>1. LengthOf(p) \in Nat /\ LengthOf(q) \in Nat
  BY TwoBuffers
<1>2. mem[s + LengthOf(p)] = NUL /\ mem[t + LengthOf(q)] = NUL
  BY TwoBuffers DEF Text
<1> HIDE DEF s, t
<1>3. \A j \in 0..(k - 1) : mem[s + j] # NUL /\ mem[t + j] # NUL /\ mem[s + j] = mem[t + j]
  BY DEF NoStop, StopsAt, s, t
<1>4. k <= LengthOf(p) /\ k <= LengthOf(q)
  BY <1>1, <1>2, <1>3
<1>5. ASSUME NEW i \in 1..k
      PROVE  Nth(TextOf(mem, p), i) = Nth(TextOf(mem, q), i) /\ Nth(TextOf(mem, p), i) \in Int
  <2> DEFINE j == i - 1
  <2>1. j \in 0..(k - 1) /\ j \in 0..LengthOf(p) /\ j \in 0..LengthOf(q) /\ j + 1 = i
    BY <1>1, <1>4
  <2> HIDE DEF j
  <2>2. Nth(TextOf(mem, p), j + 1) = mem[s + j] /\ mem[s + j] \in Int
    BY <2>1, NthText DEF s
  <2>3. Nth(TextOf(mem, q), j + 1) = mem[t + j]
    BY <2>1, NthText DEF t
  <2> QED BY <1>3, <2>1, <2>2, <2>3
<1> QED BY <1>4, <1>5 DEF Agree

LEMMA TextsStop ==
  ASSUME ProgramInv, NEW p \in DOMAIN held, NEW q \in DOMAIN held, IsText(p), IsText(q),
         NEW k \in Nat, NoStop(mem, Start(p), Start(q), k), StopsAt(mem, Start(p), Start(q), k)
  PROVE  /\ Nth(TextOf(mem, p), k + 1) = mem[Start(p) + k] /\ mem[Start(p) + k] \in Int
         /\ Nth(TextOf(mem, q), k + 1) = mem[Start(q) + k] /\ mem[Start(q) + k] \in Int
         /\ mem[Start(p) + k] \in Char /\ mem[Start(q) + k] \in Char
         /\ mem[Start(p) + k] = mem[Start(q) + k] => TextOf(mem, p) = TextOf(mem, q)
<1> DEFINE s == Start(p)
           t == Start(q)
           u == TextOf(mem, p)
           v == TextOf(mem, q)
<1>1. /\ LengthOf(p) \in Nat /\ u \in Seq(Int) /\ Len(u) = LengthOf(p)
      /\ \A j \in 0..(LengthOf(p) - 1) : mem[s + j] # NUL
  BY TwoBuffers
<1>2. /\ LengthOf(q) \in Nat /\ v \in Seq(Int) /\ Len(v) = LengthOf(q)
      /\ \A j \in 0..(LengthOf(q) - 1) : mem[t + j] # NUL
  BY TwoBuffers
<1>3. k <= LengthOf(p) /\ k <= LengthOf(q) /\ \A i \in 1..k : Nth(u, i) = Nth(v, i)
  BY TextsAgree DEF Agree
<1>4. k \in 0..LengthOf(p) /\ k \in 0..LengthOf(q)
  BY <1>1, <1>2, <1>3
<1>5. /\ Nth(u, k + 1) = mem[s + k] /\ mem[s + k] \in Int
      /\ Nth(v, k + 1) = mem[t + k] /\ mem[t + k] \in Int
  BY <1>4, NthText
<1>6. ASSUME mem[s + k] = mem[t + k] PROVE u = v
  <2>1. mem[s + k] = NUL /\ mem[t + k] = NUL
    BY <1>6 DEF StopsAt
  <2>2. ~(k < LengthOf(p)) /\ ~(k < LengthOf(q))
    <3>1. k < LengthOf(p) => k \in 0..(LengthOf(p) - 1)
      BY <1>1
    <3>2. k < LengthOf(q) => k \in 0..(LengthOf(q) - 1)
      BY <1>2
    <3> QED BY <1>1, <1>2, <2>1, <3>1, <3>2
  <2>3. Len(u) = k /\ Len(v) = k
    BY <1>1, <1>2, <1>3, <2>2
  <2> HIDE DEF u, v
  <2>4. \A i \in 1..Len(u) : u[i] = v[i]
    BY <1>1, <1>2, <1>3, <2>3 DEF Nth
  <2> QED BY <1>1, <1>2, <2>3, <2>4, SameText
<1>7. mem[s + k] \in Char /\ mem[t + k] \in Char
  BY <1>4, CharText
<1> QED BY <1>5, <1>6, <1>7

LEMMA StrcmpRight ==
  ASSUME ProgramInv, NEW p \in DOMAIN held, NEW q \in DOMAIN held, IsText(p), IsText(q)
  PROVE  Compares(Strcmp(mem, Start(p), Start(q)), TextOf(mem, p), TextOf(mem, q))
<1> DEFINE s == Start(p)
           t == Start(q)
           u == TextOf(mem, p)
           v == TextOf(mem, q)
           T == {k \in 0..LengthOf(p) : StopsAt(mem, s, t, k)}
<1>1. /\ LengthOf(p) \in Nat /\ LengthOf(p) < HeapSize /\ mem[s + LengthOf(p)] = NUL
      /\ mem \in [Addresses -> Int]
  BY TwoBuffers DEF Text
<1>2. T \subseteq Nat /\ LengthOf(p) \in T
  BY <1>1 DEF StopsAt
<1>3. PICK k \in T : \A j \in T : k <= j
  BY <1>2, Least, Zenon
<1>4. k \in Nat /\ k \in 0..HeapSize /\ k <= LengthOf(p) /\ StopsAt(mem, s, t, k)
  BY <1>1, <1>3
<1>5. NoStop(mem, s, t, k)
  <2>1. ASSUME NEW j \in 0..(k - 1) PROVE ~StopsAt(mem, s, t, j)
    <3>1. j \in 0..LengthOf(p) /\ ~(k <= j)
      BY <1>1, <1>4
    <3>2. j \notin T
      BY <1>3, <3>1
    <3> QED BY <3>1, <3>2
  <2> QED BY <2>1 DEF NoStop
<1>6. Strcmp(mem, s, t) = mem[s + k] - mem[t + k]
  BY <1>1, <1>4, <1>5, StrcmpIs
<1>7. /\ Nth(u, k + 1) = mem[s + k] /\ mem[s + k] \in Int
      /\ Nth(v, k + 1) = mem[t + k] /\ mem[t + k] \in Int
      /\ mem[s + k] = mem[t + k] => u = v
  BY <1>4, <1>5, TextsStop
<1>8. u \in Seq(Int) /\ Len(u) = LengthOf(p) /\ v \in Seq(Int)
  BY TwoBuffers
<1>9. Agree(u, v, k)
  BY <1>4, <1>5, TextsAgree
<1> HIDE DEF s, t, u, v
<1>10. CASE mem[s + k] = mem[t + k]
  <2>1. mem[s + k] - mem[t + k] = 0
    BY <1>7, <1>10
  <2> QED BY <1>6, <1>7, <1>10, <2>1, ComparesSame DEF s, t, u, v
<1>11. CASE mem[s + k] # mem[t + k]
  <2>1. mem[s + k] \in Char /\ mem[t + k] \in Char
    BY <1>4, <1>5, TextsStop DEF s, t
  <2>2. Compares(Nth(u, k + 1) - Nth(v, k + 1), u, v)
    BY <1>4, <1>7, <1>8, <1>9, <1>11, <2>1, ComparesAt
  <2> QED BY <1>6, <1>7, <2>2 DEF s, t, u, v
<1> QED BY <1>10, <1>11

\* A character of a prefix is that of the whole.
LEMMA NthPrefix ==
  ASSUME NEW u \in Seq(Int), NEW n \in Nat, NEW i \in 1..n
  PROVE  Nth(Prefix(u, n), i) = Nth(u, i)
<1> DEFINE w == Prefix(u, n)
<1>1. w \in Seq(Int) /\ Len(w) = (IF Len(u) < n THEN Len(u) ELSE n)
  BY PrefixIs
<1>2. \A j \in 1..Len(w) : w[j] = u[j]
  BY PrefixIs
<1> HIDE DEF w
<1>3. i \in DOMAIN w <=> i \in DOMAIN u
  BY <1>1
<1>4. i \in DOMAIN w => w[i] = u[i]
  BY <1>1, <1>2
<1>5. Nth(w, i) = Nth(u, i)
  BY <1>3, <1>4 DEF Nth
<1> QED BY <1>5 DEF w

LEMMA StrncmpRight ==
  ASSUME ProgramInv, NEW p \in DOMAIN held, NEW q \in DOMAIN held, IsText(p), IsText(q),
         NEW n \in Nat
  PROVE  Compares(Strncmp(mem, Start(p), Start(q), n),
                  Prefix(TextOf(mem, p), n + 1), Prefix(TextOf(mem, q), n + 1))
<1> DEFINE s == Start(p)
           t == Start(q)
           u == TextOf(mem, p)
           v == TextOf(mem, q)
           x == Prefix(u, n + 1)
           y == Prefix(v, n + 1)
           T == {k \in 0..n : k = n \/ StopsAt(mem, s, t, k)}
<1>1. T \subseteq Nat /\ n \in T
  OBVIOUS
<1>2. PICK k \in T : \A j \in T : k <= j
  BY <1>1, Least, Zenon
<1>3. k \in 0..n /\ (k = n \/ StopsAt(mem, s, t, k)) /\ k \in Nat
  BY <1>2
<1>4. NoStop(mem, s, t, k)
  <2>1. ASSUME NEW j \in 0..(k - 1) PROVE ~StopsAt(mem, s, t, j)
    <3>1. j \in 0..n /\ ~(k <= j)
      BY <1>3
    <3>2. j \notin T
      BY <1>2, <3>1
    <3> QED BY <3>1, <3>2
  <2> QED BY <2>1 DEF NoStop
<1>5. Strncmp(mem, s, t, n) = mem[s + k] - mem[t + k]
  BY <1>3, <1>4, StrncmpIs
<1>6. /\ u \in Seq(Int) /\ Len(u) = LengthOf(p) /\ LengthOf(p) \in Nat
      /\ v \in Seq(Int) /\ Len(v) = LengthOf(q) /\ LengthOf(q) \in Nat
  BY TwoBuffers
<1>7. /\ k <= LengthOf(p) /\ k <= LengthOf(q)
      /\ \A i \in 1..k : Nth(u, i) = Nth(v, i) /\ Nth(u, i) \in Int
  BY <1>3, <1>4, TextsAgree DEF Agree
<1>8. x \in Seq(Int) /\ Len(x) = (IF Len(u) < n + 1 THEN Len(u) ELSE n + 1)
  BY <1>6, PrefixIs
<1>9. y \in Seq(Int) /\ Len(y) = (IF Len(v) < n + 1 THEN Len(v) ELSE n + 1)
  BY <1>6, PrefixIs
<1>10. \A i \in 1..(n + 1) : Nth(x, i) = Nth(u, i) /\ Nth(y, i) = Nth(v, i)
  BY <1>6, NthPrefix
<1>11. StopsAt(mem, s, t, k) =>
         /\ Nth(u, k + 1) = mem[s + k] /\ mem[s + k] \in Int /\ mem[s + k] \in Char
         /\ Nth(v, k + 1) = mem[t + k] /\ mem[t + k] \in Int /\ mem[t + k] \in Char
         /\ mem[s + k] = mem[t + k] => u = v
  BY <1>3, <1>4, TextsStop
<1>12. u = v => x = y
  OBVIOUS
<1>13. ~StopsAt(mem, s, t, k) =>
         /\ n + 1 <= LengthOf(p) /\ n + 1 <= LengthOf(q)
         /\ \A i \in 1..(n + 1) : Nth(u, i) = Nth(v, i)
         /\ mem[s + k] \in Int /\ mem[s + k] = mem[t + k]
  <2> SUFFICES ASSUME ~StopsAt(mem, s, t, k)
               PROVE  /\ n + 1 <= LengthOf(p) /\ n + 1 <= LengthOf(q)
                      /\ \A i \in 1..(n + 1) : Nth(u, i) = Nth(v, i)
                      /\ mem[s + k] \in Int /\ mem[s + k] = mem[t + k]
    OBVIOUS
  <2> DEFINE h == n + 1
  <2>1. k = n /\ h \in Nat
    BY <1>3
  <2>2. \A j \in 0..(h - 1) : j \in 0..(k - 1) \/ j = k
    BY <1>3, <2>1
  <2> HIDE DEF h
  <2>3. NoStop(mem, s, t, h)
    BY <1>4, <2>2 DEF NoStop
  <2>4. h <= LengthOf(p) /\ h <= LengthOf(q) /\ \A i \in 1..h : Nth(u, i) = Nth(v, i)
    BY <2>1, <2>3, TextsAgree DEF Agree
  <2>5. k \in 0..LengthOf(p)
    BY <1>3, <1>6, <1>7
  <2>6. mem[s + k] \in Int
    BY <2>5, NthText
  <2> QED BY <2>4, <2>6 DEF h, StopsAt
<1> HIDE DEF s, t, u, v, x, y
<1>14. CASE ~StopsAt(mem, s, t, k)
  <2>1. Len(x) = n + 1 /\ Len(y) = n + 1
    BY <1>6, <1>8, <1>9, <1>13, <1>14
  <2>2. \A i \in 1..(n + 1) : Nth(x, i) = Nth(y, i)
    BY <1>10, <1>13, <1>14
  <2>3. \A i \in 1..Len(x) : x[i] = y[i]
    <3>1. ASSUME NEW i \in 1..(n + 1) PROVE x[i] = y[i]
      <4>1. i \in DOMAIN x /\ i \in DOMAIN y
        BY <1>8, <1>9, <2>1
      <4> QED BY <2>2, <4>1 DEF Nth
    <3> QED BY <2>1, <3>1
  <2>4. x = y
    BY <1>8, <1>9, <2>1, <2>3, SameText
  <2>5. mem[s + k] - mem[t + k] = 0
    BY <1>13, <1>14
  <2> QED BY <1>5, <2>4, <2>5, ComparesSame DEF s, t, u, v, x, y
<1>15. CASE StopsAt(mem, s, t, k) /\ mem[s + k] = mem[t + k]
  <2>1. mem[s + k] - mem[t + k] = 0 /\ x = y
    BY <1>11, <1>12, <1>15
  <2> QED BY <1>5, <2>1, ComparesSame DEF s, t, u, v, x, y
<1>16. CASE StopsAt(mem, s, t, k) /\ mem[s + k] # mem[t + k]
  <2>1. k + 1 \in 1..(n + 1)
    BY <1>3
  <2>2. Nth(x, k + 1) = mem[s + k] /\ Nth(y, k + 1) = mem[t + k]
    BY <1>10, <1>11, <1>16, <2>1
  <2>3. Agree(x, y, k)
    <3>1. \A i \in 1..k : i \in 1..(n + 1)
      BY <1>3
    <3> QED BY <1>7, <1>10, <3>1 DEF Agree
  <2>4. k <= Len(x)
    BY <1>3, <1>6, <1>7, <1>8
  <2>5. mem[s + k] \in Char /\ mem[t + k] \in Char
    BY <1>11, <1>16
  <2>6. Compares(Nth(x, k + 1) - Nth(y, k + 1), x, y)
    BY <1>3, <1>8, <1>9, <1>16, <2>2, <2>3, <2>4, <2>5, ComparesAt
  <2> QED BY <1>5, <2>2, <2>6 DEF s, t, u, v, x, y
<1> QED BY <1>14, <1>15, <1>16

\* The bytes of a buffer.
LEMMA BytesAre ==
  ASSUME ProgramInv, NEW p \in DOMAIN held, NEW n \in Nat, n <= Room(p)
  PROVE  /\ Bytes(mem, p, n) \in Seq(Int) /\ Len(Bytes(mem, p, n)) = n
         /\ \A k \in 0..(n - 1) : /\ Nth(Bytes(mem, p, n), k + 1) = mem[Start(p) + k]
                                  /\ mem[Start(p) + k] \in Int /\ mem[Start(p) + k] \in Char
<1> DEFINE s == Start(p)
           b == Bytes(mem, p, n)
<1>1. /\ mem \in [Addresses -> Int] /\ s \in Nat
      /\ Room(p) \in Nat /\ s + Room(p) <= HeapSize
      /\ \A a \in Addresses : mem[a] \in Char
  BY TwoBuffers DEF ProgramInv
<1>2. b = [i \in 1..n |-> mem[s + i - 1]]
  BY DEF Bytes
<1> HIDE DEF s, b
<1>3. ASSUME NEW i \in 1..n PROVE mem[s + i - 1] \in Int /\ mem[s + i - 1] \in Char
  <2>1. s + i - 1 \in Addresses
    BY <1>1 DEF Addresses
  <2> QED BY <1>1, <2>1
<1>4. b \in Seq(Int) /\ Len(b) = n
  BY <1>2, <1>3
<1>5. ASSUME NEW k \in 0..(n - 1) 
      PROVE  Nth(b, k + 1) = mem[s + k] /\ mem[s + k] \in Int /\ mem[s + k] \in Char
  <2>1. k + 1 \in 1..n /\ s + (k + 1) - 1 = s + k
    BY <1>1
  <2>2. /\ k + 1 \in DOMAIN b /\ b[k + 1] = mem[s + (k + 1) - 1]
        /\ mem[s + (k + 1) - 1] \in Int /\ mem[s + (k + 1) - 1] \in Char
    BY <1>2, <1>3, <2>1
  <2> QED BY <2>1, <2>2 DEF Nth
<1> QED BY <1>4, <1>5 DEF s, b

LEMMA MemcmpRight ==
  ASSUME ProgramInv, NEW p \in DOMAIN held, NEW q \in DOMAIN held,
         NEW n \in Nat, n <= Room(p), n <= Room(q)
  PROVE  Compares(Memcmp(mem, Start(p), Start(q), n), Bytes(mem, p, n), Bytes(mem, q, n))
<1> DEFINE s == Start(p)
           t == Start(q)
           u == Bytes(mem, p, n)
           v == Bytes(mem, q, n)
           differ == {k \in 0..(n - 1) : mem[s + k] # mem[t + k]}
<1>1. /\ u \in Seq(Int) /\ Len(u) = n
      /\ \A k \in 0..(n - 1) : Nth(u, k + 1) = mem[s + k] /\ mem[s + k] \in Int /\ mem[s + k] \in Char
  BY BytesAre
<1>2. /\ v \in Seq(Int) /\ Len(v) = n
      /\ \A k \in 0..(n - 1) : Nth(v, k + 1) = mem[t + k] /\ mem[t + k] \in Int /\ mem[t + k] \in Char
  BY BytesAre
<1>3. Memcmp(mem, s, t, n) =
        IF differ = {} THEN 0 ELSE mem[s + Min(differ)] - mem[t + Min(differ)]
  BY DEF Memcmp
<1>4. \A i \in 1..n : i - 1 \in 0..(n - 1) /\ (i - 1) + 1 = i
  OBVIOUS
<1>5. differ \subseteq Nat
  OBVIOUS
<1> HIDE DEF s, t, u, v
<1>6. CASE differ = {}
  <2>1. \A k \in 0..(n - 1) : Nth(u, k + 1) = Nth(v, k + 1)
    BY <1>1, <1>2, <1>6
  <2>2. \A i \in 1..n : Nth(u, i) = Nth(v, i)
    BY <1>4, <2>1
  <2>3. \A i \in 1..Len(u) : u[i] = v[i]
    BY <1>1, <1>2, <2>2 DEF Nth
  <2>4. u = v
    BY <1>1, <1>2, <2>3, SameText
  <2> QED BY <1>3, <1>6, <2>4, ComparesSame DEF s, t, u, v
<1>7. CASE differ # {}
  <2>1. \E k \in differ : \A j \in differ : k <= j
    BY <1>5, <1>7, Least, Zenon
  <2> DEFINE k == Min(differ)
  <2>2. k \in differ /\ \A j \in differ : k <= j
    BY <2>1 DEF Min
  <2> HIDE DEF k
  <2>3. k \in 0..(n - 1) /\ mem[s + k] # mem[t + k] /\ k \in Nat
    BY <2>2
  <2>4. \A j \in 0..(k - 1) : j \in 0..(n - 1) /\ mem[s + j] = mem[t + j]
    <3>1. ASSUME NEW j \in 0..(k - 1) PROVE j \in 0..(n - 1) /\ mem[s + j] = mem[t + j]
      <4>1. j \in 0..(n - 1) /\ ~(k <= j)
        BY <2>3
      <4>2. j \notin differ
        BY <2>2, <4>1
      <4> QED BY <4>1, <4>2
    <3> QED BY <3>1
  <2>5. Agree(u, v, k)
    <3>1. ASSUME NEW i \in 1..k PROVE Nth(u, i) = Nth(v, i) /\ Nth(u, i) \in Int
      <4> DEFINE j == i - 1
      <4>1. j \in 0..(k - 1) /\ j + 1 = i
        BY <2>3
      <4> HIDE DEF j
      <4>2. Nth(u, j + 1) = Nth(v, j + 1) /\ Nth(u, j + 1) \in Int
        BY <1>1, <1>2, <2>4, <4>1
      <4> QED BY <4>1, <4>2
    <3> QED BY <3>1 DEF Agree
  <2>6. /\ Nth(u, k + 1) = mem[s + k] /\ mem[s + k] \in Int /\ mem[s + k] \in Char
        /\ Nth(v, k + 1) = mem[t + k] /\ mem[t + k] \in Int /\ mem[t + k] \in Char
    BY <1>1, <1>2, <2>3
  <2>7. k <= Len(u)
    BY <1>1, <2>3
  <2>8. Compares(Nth(u, k + 1) - Nth(v, k + 1), u, v)
    BY <1>1, <1>2, <2>3, <2>5, <2>6, <2>7, ComparesAt
  <2>9. Memcmp(mem, s, t, n) = mem[s + k] - mem[t + k]
    BY <1>3, <1>7 DEF k
  <2> QED BY <2>6, <2>8, <2>9 DEF s, t, u, v
<1> QED BY <1>6, <1>7

LEMMA ComparesAreRight == ProgramInv => CompareRight
<1> SUFFICES ASSUME ProgramInv, NEW p \in DOMAIN held, NEW q \in DOMAIN held
             PROVE  LET s == Start(p)
                        t == Start(q)
                        u == TextOf(mem, p)
                        v == TextOf(mem, q)
                    IN /\ IsText(p) /\ IsText(q) =>
                            /\ Compares(Strcmp(mem, s, t), u, v)
                            /\ \A n \in Counts(p) :
                                 Compares(Strncmp(mem, s, t, n), Prefix(u, n + 1), Prefix(v, n + 1))
                       /\ \A n \in Counts(p) : n <= Room(q) =>
                            Compares(Memcmp(mem, s, t, n), Bytes(mem, p, n), Bytes(mem, q, n))
  BY DEF CompareRight
<1>1. \A n \in Counts(p) : n \in Nat /\ n <= Room(p)
  BY TwoBuffers DEF Counts
<1>2. IsText(p) /\ IsText(q) =>
        Compares(Strcmp(mem, Start(p), Start(q)), TextOf(mem, p), TextOf(mem, q))
  BY StrcmpRight
<1>3. ASSUME IsText(p), IsText(q), NEW n \in Counts(p)
      PROVE  Compares(Strncmp(mem, Start(p), Start(q), n),
                      Prefix(TextOf(mem, p), n + 1), Prefix(TextOf(mem, q), n + 1))
  BY <1>1, <1>3, StrncmpRight
<1>4. ASSUME NEW n \in Counts(p), n <= Room(q)
      PROVE  Compares(Memcmp(mem, Start(p), Start(q), n), Bytes(mem, p, n), Bytes(mem, q, n))
  BY <1>1, <1>4, MemcmpRight
<1> QED BY <1>2, <1>3, <1>4

\* Whatever a program has put into its buffers, the string and memory routines
\* leave every byte as the C library's do and order as they do, but for the
\* departures that TextRight names: what a counted copy leaves behind the NUL
\* of its source and behind all, the character my_strncmp takes more, and the
\* order of characters over 127.
THEOREM RoutinesAreRight == Spec => []TextRight
<1>1. ProgramInv => TextRight
  BY WritesAreRight, ComparesAreRight DEF TextRight
<1> QED BY <1>1, ProgramInvHolds, PTL
=============================================================================
