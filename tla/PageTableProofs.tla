-------------------------- MODULE PageTableProofs --------------------------
(***************************************************************************)
(* Proofs about PageTable, for tables, memories and queues of every size   *)
(* and every history of calls: what the processor has cached is what the   *)
(* tables say, tables in use stay protected, each frame has one use, the   *)
(* two roots of a space agree.                                             *)
(*                                                                         *)
(* These are facts of a whole graph of tables; a store changes one entry.  *)
(* The invariant therefore names, in a context c, the level and the space  *)
(* of each frame and the tables of the kernel's half, and says entry by    *)
(* entry that memory, allocator and processor agree with it (Struct,       *)
(* Allocator, Core).                                                       *)
(*                                                                         *)
(* Inside a call updates wait in the queue: Good(k, c) is the invariant    *)
(* with updates that c allows, Kept adds the kernel that has stopped, Idle *)
(* has nothing waiting.  Calls that make tables end in a context that      *)
(* extends the first (Ext; Safe for Kept, Done for Idle).  Mirror compares *)
(* the two roots by what their entries are once the queue is flushed       *)
(* (Final), except those the call has still to copy, which c names (stale).*)
(* World is the invariant between calls.                                   *)
(***************************************************************************)
EXTENDS PageTable, WellFoundedInduction, TLAPS

I2 == 0 .. Entries[2] - 1
I3 == 0 .. Entries[3] - 1
Index == 0 .. Width - 1
Content == Pte \cup {Free}
Tab == [Index -> Content]
Opt == Frames \cup {None}
Update == [ptr : Frames \X Index, val : Content]
Cache == {t \in [page : UserPages \cup {None}, pte : Content] : t.page # None => t.pte \in Pte}
Lists == {s \in Seq(Frames) : Len(s) <= MaxPts}
KSet == [mem : [Frames -> Tab], unused : SUBSET Frames, count : [Frames -> Nat],
         noWrite : Lists, queue : Seq(Update), roots : SUBSET Frames,
         pinned : SUBSET Frames, loaded : Opt, tlb : Cache, bug : BOOLEAN]

\* What a call does not change, and what the frames are used for: the tables
\* of the kernel's half (t2[i] for entry i of the level 3 table, t1[i][j] for
\* entry j of that one), and of every frame the level it is a table of (lev, 0
\* if it is none of an address space) and the space (own).  The tables of the
\* space dying may be given back already.  The entries of the
\* root tables in stale are not the same in both roots of a space.
Ctx == [t2 : [I3 -> Opt], t1 : [I3 -> [I2 -> Opt]], roots : SUBSET Frames,
        pinned : SUBSET Frames, loaded : Opt, lev : [Frames -> 0 .. 4],
        own : [Frames -> Opt], dying : Opt, stale : SUBSET (Frames \X Index)]

K2(c) == {f \in Frames : \E i \in I3 : f = c.t2[i]}
K1(c) == {f \in Frames : \E i \in I3, j \in I2 : f = c.t1[i][j]}
Kt(c) == {PtBase, PtBase + 1} \cup K2(c) \cup K1(c)

\* The kernel's entry for frame f
Loc(c, f) == Location(c.t1[Offset(3, f)][Offset(2, f)], Offset(1, f))

CtxKernel(c) ==
    /\ PtBase \notin K2(c) \cup K1(c) /\ PtBase + 1 \notin K2(c) \cup K1(c)
    /\ K2(c) \cap K1(c) = {}
    /\ \A i \in I3, h \in I3 : c.t2[i] = c.t2[h] /\ c.t2[i] # None => i = h
    /\ \A i \in I3, j \in I2, h \in I3, l \in I2 :
          c.t1[i][j] = c.t1[h][l] /\ c.t1[i][j] # None => i = h /\ j = l
    /\ \A i \in I3, j \in I2 : c.t2[i] = None => c.t1[i][j] = None
CtxSpaces(c) ==
    /\ \A f \in Frames : c.lev[f] # 0 => f \notin Kt(c) /\ c.own[f] \in c.roots
    /\ \A r \in c.roots : /\ c.lev[r] = 4 /\ c.own[r] = r
                          /\ UserRoot(r) \in Frames \ c.roots
                          /\ c.lev[UserRoot(r)] = 4 /\ c.own[UserRoot(r)] = r
    /\ \A f \in Frames : c.lev[f] = 4 => f = c.own[f] \/ f = UserRoot(c.own[f])
    /\ PtBase \in c.pinned
    /\ \A f \in c.pinned : f = PtBase \/ c.lev[f] = 4
    /\ c.loaded \in c.roots \cup {None} /\ c.dying \in c.roots \cup {None}
CtxOK(c) == c \in Ctx /\ CtxKernel(c) /\ CtxSpaces(c)

KernelEntry == PteCreate(PtBase + 1, "rw")
Shape(m, c) ==
    /\ \A i \in 0 .. Entries[4] - 1 : m[PtBase][i] = IF i = PtUserEntries THEN KernelEntry ELSE Free
    /\ \A i \in I3 : m[PtBase + 1][i].frame = c.t2[i]
    /\ \A i \in I3, j \in I2 : c.t2[i] # None => m[c.t2[i]][j].frame = c.t1[i][j]

KernPtes(f) == {PteCreate(f, "ro"), PteCreate(f, "rw")}
Kernel(m, c) ==
    \A f \in Frames : Loc(c, f) # <<>> => EntryAt(m, Loc(c, f)) \in KernPtes(f) \cup {Free}

\* Entry val fits a table t of level 2, 3 or 4 of an address space.
Fits(c, t, val) ==
    val = Free \/ (val.frame \in Frames /\ c.lev[val.frame] = c.lev[t] - 1 /\ c.own[val.frame] = c.own[t])
Top(m, c, t) ==
    \A i \in 0 .. Entries[4] - 1 :
        IF i < PtUserEntries THEN Fits(c, t, m[t][i])
        ELSE m[t][i] = IF t \in c.roots /\ i = PtUserEntries THEN KernelEntry ELSE Free
Trees(m, c) ==
    \A t \in Frames :
        /\ c.lev[t] = 4 => Top(m, c, t)
        /\ c.lev[t] = 3 => \A i \in I3 : Fits(c, t, m[t][i])
        /\ c.lev[t] = 2 => \A i \in I2 : Fits(c, t, m[t][i])

Allocator(k, c) ==
    \A f \in Frames :
        /\ f \in k.unused => f \notin Kt(c) /\ k.count[f] = 0 /\ (c.lev[f] = 0 \/ c.own[f] = c.dying)
        /\ k.count[f] # 0 => f \notin Kt(c) /\ c.lev[f] = 0

----------------------------------------------------------------------------
(* Loops                                                                   *)

LEMMA Least ==
  ASSUME NEW T, T \subseteq Nat, T # {}
  PROVE  \E n \in T : \A m \in T : n <= m
<1> DEFINE R == OpToRel(<, Nat)
<1>1. IsWellFoundedOn(R, Nat)
  BY NatLessThanWellFounded
<1> HIDE DEF R
<1>2. PICK n \in T : \A m \in T : ~(<<m, n>> \in R)
  BY <1>1, WFMin, Zenon
<1>3. \A a, b \in Nat : a < b => <<a, b>> \in R
  BY DEF OpToRel, R
<1>4. \A m \in T : ~(m < n)
  BY <1>2, <1>3, Zenon
<1>5. \A m \in T : n <= m
  BY <1>4
<1> QED BY <1>5

LEMMA Induction ==
  ASSUME NEW T, 0 \in T, \A n \in Nat : n \in T => n + 1 \in T
  PROVE  Nat \subseteq T
<1> DEFINE B == {n \in Nat : n \notin T}
<1>1. CASE B # {}
  <2>1. PICK n \in B : \A m \in B : n <= m
    BY <1>1, Least
  <2>2. n \in Nat /\ n # 0 /\ n - 1 \in Nat
    BY <2>1
  <2>3. n - 1 \notin T
    BY <2>2
  <2> QED BY <2>1, <2>2, <2>3
<1> QED BY <1>1

\* A function defined from its value one place before,
Rounds(f, S, k, N, g) == /\ f \in [0 .. N -> S] /\ f[0] = k
                         /\ \A i \in 1 .. N : f[i] = g[<<f[i - 1], i>>]

\* ... exists, if every round stays in a set.
LEMMA RoundsExist ==
  ASSUME NEW S, NEW k \in S, NEW N \in Nat, NEW g \in [S \X (1 .. N) -> S]
  PROVE  \E f : Rounds(f, S, k, N, g)
<1> USE DEF Rounds
<1> DEFINE T == {n \in Nat : n <= N => \E f : Rounds(f, S, k, n, g)}
<1>1. 0 \in T
  <2>1. Rounds([i \in 0 .. 0 |-> k], S, k, 0, g)
    OBVIOUS
  <2> QED BY <2>1
<1>2. ASSUME NEW n \in Nat, n \in T
      PROVE  n + 1 \in T
  <2>1. SUFFICES ASSUME n + 1 <= N
                 PROVE  \E f : Rounds(f, S, k, n + 1, g)
    OBVIOUS
  <2>2. PICK f : Rounds(f, S, k, n, g)
    BY <1>2, <2>1
  <2> DEFINE h == [i \in 0 .. n + 1 |-> IF i <= n THEN f[i] ELSE g[<<f[n], n + 1>>]]
  <2>3. f[n] \in S /\ n + 1 \in 1 .. N
    BY <2>1, <2>2
  <2>4. g[<<f[n], n + 1>>] \in S
    BY <2>3
  <2>5. h \in [0 .. n + 1 -> S]
    BY <2>2, <2>4
  <2>6. ASSUME NEW i \in 1 .. n + 1
        PROVE  h[i] = g[<<h[i - 1], i>>]
    <3>1. CASE i <= n
      BY <2>2, <3>1
    <3>2. CASE i = n + 1
      <4>1. h[i] = g[<<f[n], n + 1>>]
        BY <3>2
      <4>2. i - 1 = n /\ i - 1 \in 0 .. n + 1 /\ i - 1 <= n
        BY <3>2
      <4>3. h[i - 1] = f[n]
        BY <4>2
      <4> HIDE DEF h
      <4> QED BY <3>2, <4>1, <4>3, Zenon
    <3> QED BY <3>1, <3>2
  <2>7. h[0] = k
    BY <2>2
  <2>8. Rounds(h, S, k, n + 1, g)
    BY <2>5, <2>6, <2>7
  <2> QED BY <2>8
<1> HIDE DEF T
<1>3. N \in T
  BY <1>1, <1>2, Induction
<1>4. PICK f : Rounds(f, S, k, N, g)
  BY <1>3 DEF T
<1> QED BY <1>4

\* A sequence of states that each round keeps in a set ends in it.
LEMMA RoundsStay ==
  ASSUME NEW S, NEW N \in Nat, NEW f, f[0] \in S,
         \A i \in 1 .. N : f[i - 1] \in S => f[i] \in S
  PROVE  f[N] \in S
<1> DEFINE T == {n \in Nat : n <= N => f[n] \in S}
<1>1. 0 \in T
  OBVIOUS
<1>2. ASSUME NEW n \in Nat, n \in T
      PROVE  n + 1 \in T
  <2>1. SUFFICES ASSUME n + 1 <= N PROVE f[n + 1] \in S
    OBVIOUS
  <2>2. n + 1 \in 1 .. N /\ (n + 1) - 1 = n /\ f[n] \in S
    BY <1>2, <2>1
  <2> QED BY <2>2
<1> HIDE DEF T
<1>3. N \in T
  BY <1>1, <1>2, Induction
<1> QED BY <1>3 DEF T

----------------------------------------------------------------------------
(* Division, and the offsets of a page                                     *)

LEMMA DivMod ==
  ASSUME NEW a \in Int, NEW n \in Int, n > 0
  PROVE  a \div n \in Int /\ a % n \in 0 .. n - 1 /\ a = n * (a \div n) + (a % n)
<1>1. a = n * (a \div n) + (a % n)
  BY SMT
<1>2. a \div n \in Int /\ a % n \in 0 .. n - 1
  BY SMT
<1> QED BY <1>1, <1>2

LEMMA Division ==
  ASSUME NEW a \in Nat, NEW b \in Nat \ {0}
  PROVE  /\ a \div b \in Nat /\ a % b \in 0 .. b - 1
         /\ a = b * (a \div b) + (a % b)
<1>0. a \in Int /\ b \in Int /\ b > 0
  OBVIOUS
<1>1. a = b * (a \div b) + (a % b)
  BY ONLY <1>0, DivMod
<1>2. a % b \in 0 .. b - 1
  OBVIOUS
<1>3. a \div b \in Nat
  OBVIOUS
<1> QED BY <1>1, <1>2, <1>3

LEMMA Product ==
  ASSUME NEW a \in Nat, NEW b \in Nat
  PROVE  /\ a * b \in Nat /\ a * b = b * a
         /\ a # 0 => b <= a * b
         /\ a # 0 /\ b # 0 => a * b # 0
  OBVIOUS

LEMMA Monotone ==
  ASSUME NEW a \in Nat, NEW b \in Nat, NEW d \in Nat, a <= b
  PROVE  d * a <= d * b
<1>1. b = a + (b - a) /\ b - a \in Nat
  OBVIOUS
<1>2. d * (b - a) \in Nat
  BY <1>1, Product
<1>3. d * b = d * a + d * (b - a)
  BY <1>1
<1>4. d * a \in Nat /\ d * b \in Nat
  BY Product
<1> QED BY <1>2, <1>3, <1>4

\* The quotient and the remainder are the only ones.
LEMMA Quotient ==
  ASSUME NEW a \in Nat, NEW b \in Nat \ {0}, NEW q \in Nat, NEW r \in 0 .. b - 1,
         a = b * q + r
  PROVE  a \div b = q /\ a % b = r
<1> DEFINE p == a \div b
           s == a % b
<1>1. p \in Nat /\ s \in 0 .. b - 1 /\ a = b * p + s
  BY Division
<1> HIDE DEF p, s
<1>2. b * p \in Nat /\ b * q \in Nat
  BY <1>1, Product
<1>3. CASE p < q
  <2>1. p + 1 <= q
    BY <1>1, <1>3
  <2>2. b * (p + 1) <= b * q
    BY <1>1, <2>1, Monotone
  <2>3. b * (p + 1) = b * p + b
    BY <1>1
  <2> QED BY <1>1, <1>2, <2>2, <2>3
<1>4. CASE q < p
  <2>1. q + 1 <= p
    BY <1>1, <1>4
  <2>2. b * (q + 1) <= b * p
    BY <1>1, <2>1, Monotone
  <2>3. b * (q + 1) = b * q + b
    OBVIOUS
  <2> QED BY <1>1, <1>2, <2>2, <2>3
<1>5. CASE p = q
  BY <1>1, <1>2, <1>5 DEF p, s
<1> QED BY <1>1, <1>3, <1>4, <1>5

LEMMA Small ==
  ASSUME NEW a \in Nat, NEW b \in Nat \ {0}, a < b
  PROVE  a \div b = 0 /\ a % b = a
<1>1. a = b * 0 + a /\ a \in 0 .. b - 1
  OBVIOUS
<1> DEFINE zero == 0
<1>2. zero \in Nat /\ a = b * zero + a
  BY <1>1
<1> HIDE DEF zero
<1>3. a \div b = zero /\ a % b = a
  BY <1>1, <1>2, Quotient
<1> QED BY <1>3 DEF zero

\* Multiples of the divisor go to the quotient.
LEMMA AddMultiple ==
  ASSUME NEW a \in Nat, NEW b \in Nat \ {0}, NEW q \in Nat
  PROVE  (b * q + a) \div b = q + a \div b /\ (b * q + a) % b = a % b
<1> DEFINE x == b * q + a
           p == a \div b
           s == a % b
<1>1. p \in Nat /\ s \in 0 .. b - 1 /\ a = b * p + s
  BY Division
<1>2. b * q \in Nat
  BY Product
<1>3. x \in Nat
  BY <1>2
<1> HIDE DEF p, s
<1>4. b * (q + p) = b * q + b * p /\ b * p \in Nat
  BY <1>1, Product
<1>5. x = b * (q + p) + s
  BY <1>1, <1>2, <1>4
<1> HIDE DEF x
<1> DEFINE y == q + p
<1>6. y \in Nat /\ x = b * y + s
  BY <1>1, <1>5
<1> HIDE DEF y
<1>7. x \div b = y /\ x % b = s
  BY <1>1, <1>3, <1>6, Quotient
<1> QED BY <1>7 DEF x, y, p, s

\* Dividing twice is dividing by the product.
LEMMA DivideTwice ==
  ASSUME NEW a \in Nat, NEW b \in Nat \ {0}, NEW d \in Nat \ {0}
  PROVE  a \div (b * d) = (a \div b) \div d
<1> DEFINE p == a \div b
           s == a % b
           q == p \div d
           t == p % d
           e == b * d
           r == b * t + s
<1>1. p \in Nat /\ s \in 0 .. b - 1 /\ a = b * p + s
  BY Division
<1> HIDE DEF p, s
<1>2. q \in Nat /\ t \in 0 .. d - 1 /\ p = d * q + t
  BY <1>1, Division
<1> HIDE DEF q, t
<1>3. e \in Nat \ {0}
  BY Product
<1>4. b * t \in Nat /\ t \in Nat
  BY <1>2, Product
<1>5. b * (t + 1) <= b * d
  <2>1. t + 1 <= d /\ t + 1 \in Nat
    BY <1>2
  <2> QED BY <2>1, Monotone
<1>6. b * (t + 1) = b * t + b
  BY <1>4
<1>7. r \in 0 .. e - 1
  BY <1>1, <1>3, <1>4, <1>5, <1>6
<1>8. b * p = b * (d * q) + b * t
  <2>1. d * q \in Nat
    BY <1>2, Product
  <2> DEFINE z == d * q
  <2> HIDE DEF z
  <2>2. b * (z + t) = b * z + b * t
    BY <1>4, <2>1 DEF z
  <2> QED BY <1>2, <2>2 DEF z
<1>9. b * (d * q) = e * q
  BY <1>2
<1>10. a = e * q + r
  <2>1. e * q \in Nat
    BY <1>2, <1>3, Product
  <2> QED BY <1>1, <1>4, <1>8, <1>9, <2>1
<1> HIDE DEF e, r
<1>11. a \div e = q
  BY <1>2, <1>3, <1>7, <1>10, Quotient
<1> QED BY <1>11 DEF e, q, p

LEMMA LessQuotient ==
  ASSUME NEW a \in Nat, NEW b \in Nat \ {0}, NEW d \in Nat, a < b * d
  PROVE  a \div b < d
<1> DEFINE p == a \div b
           s == a % b
<1>1. p \in Nat /\ s \in 0 .. b - 1 /\ a = b * p + s
  BY Division
<1> HIDE DEF p, s
<1>2. b * p \in Nat
  BY <1>1, Product
<1>3. CASE d <= p
  <2>1. b * d <= b * p
    BY <1>1, <1>3, Monotone
  <2>2. b * d \in Nat
    BY Product
  <2> QED BY <1>1, <1>2, <2>1, <2>2
<1> QED BY <1>1, <1>3 DEF p

LEMMA Sizes ==
  /\ \A l \in 1 .. 4 : Entries[l] \in Nat \ {0} /\ Entries[l] <= Width
  /\ Width \in Nat \ {0}
  /\ PtUserEntries \in Nat \ {0} /\ PtUserEntries < Entries[4]
  /\ \A l \in 1 .. 4 : Span(l) \in Nat \ {0}
  /\ Span(1) = 1 /\ Span(2) = Entries[1]
  /\ Span(3) = Entries[1] * Entries[2] /\ Span(4) = Span(3) * Entries[3]
  /\ UserEnd \in Nat /\ UserEnd = Span(4) * PtUserEntries
  /\ NrPages \in Nat /\ NrPages <= Span(4)
<1>1. \A l \in 1 .. 4 : Entries[l] \in Nat \ {0}
  BY SizesAssumption
<1>2. Width \in Nat \ {0} /\ \A l \in 1 .. 4 : Entries[l] <= Width
  <2> DEFINE S == {Entries[l] : l \in 1 .. 4}
             e == <<Entries[1], Entries[2], Entries[3], Entries[4]>>
  <2>1. S \subseteq Nat /\ \A l \in 1 .. 4 : Entries[l] \in S
    BY <1>1
  <2>2. \E x \in S : \A y \in S : x >= y
    <3>1. S = {Entries[1], Entries[2], Entries[3], Entries[4]}
      OBVIOUS
    <3>2. Entries[1] \in Nat /\ Entries[2] \in Nat /\ Entries[3] \in Nat /\ Entries[4] \in Nat
      BY <1>1
    <3> HIDE DEF S
    <3>3. ASSUME NEW a \in Nat, NEW b \in Nat
          PROVE  \E x \in {a, b} : x >= a /\ x >= b
      OBVIOUS
    <3>4. PICK x \in {Entries[1], Entries[2]} : x >= Entries[1] /\ x >= Entries[2]
      BY <3>2, <3>3
    <3>5. PICK y \in {Entries[3], Entries[4]} : y >= Entries[3] /\ y >= Entries[4]
      BY <3>2, <3>3
    <3>6. PICK z \in {x, y} : z >= x /\ z >= y
      BY <3>2, <3>3, <3>4, <3>5
    <3>7. z \in S /\ \A u \in S : z >= u
      BY <3>1, <3>2, <3>4, <3>5, <3>6
    <3> QED BY <3>7
  <2>3. Width \in S /\ \A y \in S : Width >= y
    <3>1. Width = CHOOSE x \in S : \A y \in S : x >= y
      BY DEF Width, Max
    <3> HIDE DEF S
    <3> QED BY <2>2, <3>1
  <2> QED BY <1>1, <2>1, <2>3
<1>3. PtUserEntries \in Nat \ {0} /\ PtUserEntries < Entries[4]
  <2>1. Entries[4] % 2 = 0 /\ Entries[4] \in Nat \ {0}
    BY SizesAssumption
  <2> QED BY <2>1 DEF PtUserEntries
<1>4. /\ Span(1) = 1 /\ Span(2) = Entries[1] /\ Span(3) = Entries[1] * Entries[2]
      /\ Span(4) = Span(3) * Entries[3]
  BY DEF Span
<1>5. Span(3) \in Nat \ {0}
  BY <1>1, <1>4, Product
<1>6. Span(4) \in Nat \ {0}
  BY <1>1, <1>4, <1>5, Product
<1>7. \A l \in 1 .. 4 : Span(l) \in Nat \ {0}
  BY <1>1, <1>4, <1>5, <1>6
<1>8. UserEnd \in Nat /\ UserEnd = Span(4) * PtUserEntries
  BY <1>3, <1>6, Product DEF UserEnd
<1>9. NrPages \in Nat /\ NrPages <= Span(4)
  BY SizesAssumption, <1>4
<1> QED BY <1>1, <1>2, <1>3, <1>4, <1>7, <1>8, <1>9

LEMMA OffsetRange ==
  ASSUME NEW l \in 1 .. 4, NEW page \in Nat
  PROVE  /\ Offset(l, page) \in 0 .. Entries[l] - 1 /\ Offset(l, page) \in Index
<1>1. Span(l) \in Nat \ {0} /\ Entries[l] \in Nat \ {0} /\ Entries[l] <= Width /\ Width \in Nat
  BY Sizes
<1> DEFINE s == Span(l)
           e == Entries[l]
           q == page \div s
<1> HIDE DEF s, e
<1>2. q \in Nat
  BY <1>1, Division DEF s
<1> HIDE DEF q
<1>3. q % e \in 0 .. e - 1
  BY <1>1, <1>2, Division DEF e
<1> QED BY <1>1, <1>3 DEF Offset, s, e, q, Index

LEMMA UserOffset ==
  ASSUME NEW page \in Nat, page < UserEnd
  PROVE  Offset(4, page) \in 0 .. PtUserEntries - 1
<1> DEFINE s == Span(4)
           p == PtUserEntries
           e == Entries[4]
           q == page \div s
<1>1. s \in Nat \ {0} /\ p \in Nat \ {0} /\ e \in Nat \ {0} /\ p < e /\ page < s * p
  BY Sizes
<1>2. Offset(4, page) = q % e
  BY DEF Offset
<1> HIDE DEF s, p, e
<1>3. q \in Nat /\ q < p
  BY <1>1, Division, LessQuotient
<1> HIDE DEF q
<1>4. q % e = q
  BY <1>1, <1>3, Small
<1> QED BY <1>1, <1>2, <1>3, <1>4 DEF p

LEMMA PathOffset ==
  ASSUME NEW l \in 1 .. 4, NEW page \in Nat, page < UserEnd
  PROVE  Offset(l, page) \in Index /\ (l = 4 => Offset(l, page) < PtUserEntries)
<1>1. Offset(l, page) \in Index
  BY OffsetRange
<1>2. Offset(4, page) < PtUserEntries
  <2>1. Offset(4, page) \in 0 .. PtUserEntries - 1
    BY UserOffset
  <2>2. PtUserEntries \in Nat
    BY Sizes
  <2> QED BY <2>1, <2>2
<1> QED BY <1>1, <1>2

LEMMA KernOffset ==
  ASSUME NEW f \in Frames
  PROVE  /\ KernPage(f) \in Nat /\ UserEnd <= KernPage(f)
         /\ Offset(4, KernPage(f)) = PtUserEntries
         /\ \A l \in 1 .. 3 : Offset(l, KernPage(f)) = Offset(l, f)
<1> DEFINE e1 == Entries[1]
           e2 == Entries[2]
           e3 == Entries[3]
           e4 == Entries[4]
           s3 == Span(3)
           s4 == Span(4)
           p == PtUserEntries
<1>1. /\ e1 \in Nat \ {0} /\ e2 \in Nat \ {0} /\ e3 \in Nat \ {0} /\ e4 \in Nat \ {0}
      /\ p \in Nat \ {0} /\ p < e4 /\ s3 = e1 * e2 /\ s4 = s3 * e3
      /\ s3 \in Nat \ {0} /\ s4 \in Nat \ {0}
  BY Sizes
<1>2. f \in Nat /\ f < s4 /\ KernPage(f) = s4 * p + f
  BY Sizes DEF Frames, KernPage
<1>3. /\ Offset(1, KernPage(f)) = (KernPage(f) \div 1) % e1 /\ Offset(1, f) = (f \div 1) % e1
      /\ Offset(2, KernPage(f)) = (KernPage(f) \div e1) % e2 /\ Offset(2, f) = (f \div e1) % e2
      /\ Offset(3, KernPage(f)) = (KernPage(f) \div s3) % e3 /\ Offset(3, f) = (f \div s3) % e3
      /\ Offset(4, KernPage(f)) = (KernPage(f) \div s4) % e4
  BY Sizes DEF Offset
<1>4. KernPage(f) \in Nat /\ UserEnd <= KernPage(f)
  BY Sizes, <1>2 DEF Frames, KernPage
<1> DEFINE k == KernPage(f)
<1> HIDE DEF e1, e2, e3, e4, s3, s4, p, k
<1>5. Offset(4, KernPage(f)) = p
  <2>1. (s4 * p + f) \div s4 = p + f \div s4
    <3>1. p \in Nat /\ s4 \in Nat \ {0} /\ f \in Nat
      BY <1>1, <1>2
    <3> QED BY ONLY <3>1, AddMultiple
  <2>2. f \div s4 = 0
    BY <1>1, <1>2, Small
  <2>3. k \div s4 = p
    BY <1>1, <1>2, <2>1, <2>2 DEF k
  <2>4. p % e4 = p
    BY <1>1, Small
  <2> QED BY <1>3, <2>3, <2>4 DEF k
<1>6. Offset(3, KernPage(f)) = Offset(3, f)
  <2> DEFINE n == e3 * p
             d == f \div s3
  <2>1. n \in Nat /\ d \in Nat
    BY <1>1, <1>2, Product, Division
  <2>2. s4 * p = s3 * n
    BY <1>1
  <2> HIDE DEF n
  <2>3. (s3 * n + f) \div s3 = n + d
    BY <1>1, <1>2, <2>1, AddMultiple
  <2>4. k \div s3 = n + d
    BY <1>2, <2>2, <2>3 DEF k
  <2> HIDE DEF d
  <2>5. (e3 * p + d) % e3 = d % e3
    BY <1>1, <2>1, AddMultiple
  <2> QED BY <1>3, <2>4, <2>5 DEF k, n, d
<1>7. Offset(2, KernPage(f)) = Offset(2, f)
  <2> DEFINE m == e3 * p
             n == e2 * m
             d == f \div e1
  <2>1. m \in Nat
    BY <1>1, Product
  <2>2. s4 * p = e1 * n
    BY <1>1
  <2> HIDE DEF m
  <2>3. n \in Nat /\ d \in Nat
    BY <1>1, <1>2, <2>1, Product, Division
  <2> HIDE DEF n
  <2>4. (e1 * n + f) \div e1 = n + d
    BY <1>1, <1>2, <2>3, AddMultiple
  <2>5. k \div e1 = n + d
    BY <1>2, <2>2, <2>4 DEF k
  <2> HIDE DEF d
  <2>6. (e2 * m + d) % e2 = d % e2
    BY <1>1, <2>1, <2>3, AddMultiple
  <2> QED BY <1>3, <2>5, <2>6 DEF k, n, d
<1>8. Offset(1, KernPage(f)) = Offset(1, f)
  <2> DEFINE m == e3 * p
             o == e2 * m
  <2>1. m \in Nat
    BY <1>1, Product
  <2>2. s4 * p = e1 * o
    BY <1>1
  <2> HIDE DEF m
  <2>3. o \in Nat
    BY <1>1, <2>1, Product
  <2> HIDE DEF o
  <2>4. (e1 * o + f) % e1 = f % e1
    BY <1>1, <1>2, <2>3, AddMultiple
  <2>5. k \div 1 = k /\ f \div 1 = f
    BY <1>2, <1>4 DEF k
  <2> QED BY <1>2, <1>3, <2>2, <2>4, <2>5 DEF k
<1>9. \A l \in 1 .. 3 : l = 1 \/ l = 2 \/ l = 3
  OBVIOUS
<1> QED BY <1>4, <1>5, <1>6, <1>7, <1>8, <1>9 DEF p

\* A frame is found from its offsets.
LEMMA FrameOfOffsets ==
  ASSUME NEW f \in Frames, NEW g \in Frames,
         Offset(1, f) = Offset(1, g), Offset(2, f) = Offset(2, g), Offset(3, f) = Offset(3, g)
  PROVE  f = g
<1> DEFINE e1 == Entries[1]
           e2 == Entries[2]
           e3 == Entries[3]
           s3 == Span(3)
           s4 == Span(4)
<1>1. /\ e1 \in Nat \ {0} /\ e2 \in Nat \ {0} /\ e3 \in Nat \ {0}
      /\ s3 = e1 * e2 /\ s4 = s3 * e3 /\ s3 \in Nat \ {0} /\ s4 \in Nat \ {0}
  BY Sizes
<1>2. \A x \in Frames : x \in Nat /\ x < s4
  BY Sizes DEF Frames
<1>3. \A x \in Frames : /\ Offset(1, x) = (x \div 1) % e1
                        /\ Offset(2, x) = (x \div e1) % e2
                        /\ Offset(3, x) = (x \div s3) % e3
  BY Sizes DEF Offset
<1> HIDE DEF e1, e2, e3, s3, s4
<1>4. ASSUME NEW x \in Frames
      PROVE  /\ x \div e1 \in Nat /\ (x \div e1) \div e2 = Offset(3, x)
             /\ x = e1 * (x \div e1) + Offset(1, x)
             /\ x \div e1 = e2 * Offset(3, x) + Offset(2, x)
  <2>1. x \in Nat /\ x < s3 * e3
    BY <1>1, <1>2
  <2>2. x \div s3 \in Nat /\ x \div s3 < e3
    BY <1>1, <2>1, Division, LessQuotient
  <2>3. Offset(3, x) = x \div s3
    <3> DEFINE y == x \div s3
    <3> HIDE DEF y
    <3>1. y % e3 = y
      BY <1>1, <2>2, Small DEF y
    <3> QED BY <1>3, <3>1 DEF y
  <2>4. x \div (e1 * e2) = (x \div e1) \div e2
    <3>1. x \in Nat /\ e1 \in Nat \ {0} /\ e2 \in Nat \ {0}
      BY <1>1, <2>1
    <3> QED BY ONLY <3>1, DivideTwice, Zenon
  <2> DEFINE z == x \div e1
  <2>5. z \in Nat /\ x = e1 * z + (x % e1)
    BY <1>1, <2>1, Division
  <2>6. x \div 1 = x
    BY <2>1
  <2> HIDE DEF z
  <2>7. z = e2 * (z \div e2) + (z % e2)
    BY <1>1, <2>5, Division
  <2>8. Offset(1, x) = x % e1 /\ Offset(2, x) = z % e2
    BY <1>3, <2>6 DEF z
  <2>9. z \div e2 = Offset(3, x)
    BY <1>1, <2>3, <2>4 DEF z
  <2>10. x = e1 * z + Offset(1, x) /\ z = e2 * Offset(3, x) + Offset(2, x)
    BY <1>1, <2>1, <2>5, <2>7, <2>8, <2>9
  <2> QED BY <2>5, <2>9, <2>10 DEF z
<1>5. f \div e1 = g \div e1
  BY <1>4
<1> QED BY <1>4, <1>5

----------------------------------------------------------------------------
(* What a table leads to, and the tables in use                            *)

InUse(m, tops) == LET T3 == Below(m, tops, 4)
                      T2 == Below(m, T3, 3)
                  IN tops \cup T3 \cup T2 \cup Below(m, T2, 2)

Same(m, n, S) == \A t \in S : n[t] = m[t]

LEMMA BelowSame ==
  ASSUME NEW m, NEW n, NEW S, NEW l, Same(m, n, S)
  PROVE  Below(n, S, l) = Below(m, S, l)
  BY DEF Below, Same

LEMMA BelowFewer ==
  ASSUME NEW m, NEW S, NEW T, NEW l, S \subseteq T
  PROVE  Below(m, S, l) \subseteq Below(m, T, l)
  BY DEF Below

\* An entry of a table leads below it.
LEMMA EntryBelow ==
  ASSUME NEW m, NEW S, NEW l, NEW t \in S, NEW i \in 0 .. Entries[l] - 1, m[t][i].frame # None
  PROVE  m[t][i].frame \in Below(m, S, l)
<1> DEFINE In(u) == {m[u][j].frame : j \in 0 .. Entries[l] - 1}
           f == m[t][i].frame
<1>1. f \in In(t)
  OBVIOUS
<1> HIDE DEF In, f
<1>2. f \in UNION {In(u) : u \in S}
  BY <1>1, Zenon
<1>3. Below(m, S, l) = (UNION {In(u) : u \in S}) \ {None}
  BY Zenon DEF Below, In
<1> QED BY <1>2, <1>3 DEF f

LEMMA InUseSame ==
  ASSUME NEW m, NEW n, NEW tops, Same(m, n, InUse(m, tops))
  PROVE  InUse(n, tops) = InUse(m, tops) /\ Accepts(n, tops) = Accepts(m, tops)
<1> DEFINE T3 == Below(m, tops, 4)
           T2 == Below(m, T3, 3)
           T1 == Below(m, T2, 2)
<1>1. InUse(m, tops) = tops \cup T3 \cup T2 \cup T1
  BY DEF InUse
<1> DEFINE U3 == Below(n, tops, 4)
           U2 == Below(n, U3, 3)
           U1 == Below(n, U2, 2)
<1>2. InUse(n, tops) = tops \cup U3 \cup U2 \cup U1
  BY DEF InUse
<1>3. Accepts(m, tops) = Valid(m, T1, T2, T3, tops) /\ Accepts(n, tops) = Valid(n, U1, U2, U3, tops)
  BY DEF Accepts
<1>4. Same(m, n, tops) /\ Same(m, n, T3) /\ Same(m, n, T2) /\ Same(m, n, T1)
  BY <1>1 DEF Same
<1>5. U3 = T3
  BY <1>4, BelowSame
<1>6. U2 = T2
  BY <1>4, <1>5, BelowSame
<1>7. U1 = T1
  BY <1>4, <1>6, BelowSame
<1> HIDE DEF T1, T2, T3, U1, U2, U3
<1>8. Valid(n, T1, T2, T3, tops) = Valid(m, T1, T2, T3, tops)
  BY <1>4 DEF Valid, Same
<1> QED BY <1>1, <1>2, <1>3, <1>5, <1>6, <1>7, <1>8

LEMMA InUseFewer ==
  ASSUME NEW m, NEW S, NEW T, S \subseteq T, Accepts(m, T)
  PROVE  Accepts(m, S) /\ InUse(m, S) \subseteq InUse(m, T)
<1> DEFINE T3 == Below(m, T, 4)
           T2 == Below(m, T3, 3)
           T1 == Below(m, T2, 2)
           U3 == Below(m, S, 4)
           U2 == Below(m, U3, 3)
           U1 == Below(m, U2, 2)
<1>1. InUse(m, T) = T \cup T3 \cup T2 \cup T1 /\ InUse(m, S) = S \cup U3 \cup U2 \cup U1
  BY DEF InUse
<1>2. Valid(m, T1, T2, T3, T) /\ Accepts(m, S) = Valid(m, U1, U2, U3, S)
  BY DEF Accepts
<1>3. U3 \subseteq T3
  BY BelowFewer
<1>4. U2 \subseteq T2
  BY <1>3, BelowFewer
<1>5. U1 \subseteq T1
  BY <1>4, BelowFewer
<1> HIDE DEF T1, T2, T3, U1, U2, U3
<1>6. Valid(m, U1, U2, U3, S)
  <2>1. /\ U1 \cap (U2 \cup U3 \cup S) = {} /\ U2 \cap (U3 \cup S) = {} /\ U3 \cap S = {}
    BY <1>2, <1>3, <1>4, <1>5, Zenon DEF Valid
  <2>2. \A t \in U1, i \in 0 .. Entries[1] - 1 :
           m[t][i].perm = "rw" => m[t][i].frame \notin U1 \cup U2 \cup U3 \cup S
    BY <1>2, <1>3, <1>4, <1>5 DEF Valid
  <2> QED BY <2>1, <2>2 DEF Valid
<1> QED BY <1>1, <1>2, <1>3, <1>4, <1>5, <1>6

----------------------------------------------------------------------------
(* Walks                                                                   *)

LEMMA Walk ==
  ASSUME NEW m, NEW pt, NEW page
  PROVE  /\ TableOf(m, pt, page, 4) = pt
         /\ TableOf(m, pt, page, 3) = Child(m, pt, Offset(4, page))
         /\ TableOf(m, pt, page, 2) = Child(m, TableOf(m, pt, page, 3), Offset(3, page))
         /\ TableOf(m, pt, page, 1) = Child(m, TableOf(m, pt, page, 2), Offset(2, page))
<1> DEFINE Step(T, j) == IF j = 4 THEN pt ELSE Child(m, T[j + 1], Offset(j + 1, page))
           t3 == Child(m, pt, Offset(4, page))
           t2 == Child(m, t3, Offset(3, page))
           t1 == Child(m, t2, Offset(2, page))
           W == [j \in 1 .. 4 |-> IF j = 4 THEN pt ELSE IF j = 3 THEN t3 ELSE IF j = 2 THEN t2 ELSE t1]
           V == CHOOSE T : T = [j \in 1 .. 4 |-> Step(T, j)]
<1>1. \A l : TableOf(m, pt, page, l) = V[l]
  BY DEF TableOf
<1>2. W = [j \in 1 .. 4 |-> Step(W, j)]
  <2>1. W[4] = pt /\ W[3] = t3 /\ W[2] = t2 /\ W[1] = t1
    OBVIOUS
  <2> HIDE DEF t1, t2, t3
  <2>2. t3 = Child(m, W[4], Offset(4, page)) /\ t2 = Child(m, W[3], Offset(3, page))
        /\ t1 = Child(m, W[2], Offset(2, page))
    BY <2>1 DEF t1, t2, t3
  <2>3. \A j \in 1 .. 4 : W[j] = Step(W, j)
    <3>1. W[1] = Step(W, 1)
      BY <2>1, <2>2
    <3>2. W[2] = Step(W, 2)
      BY <2>1, <2>2
    <3>3. W[3] = Step(W, 3)
      BY <2>1, <2>2
    <3>4. W[4] = Step(W, 4)
      BY <2>1
    <3>5. \A j \in 1 .. 4 : j = 1 \/ j = 2 \/ j = 3 \/ j = 4
      OBVIOUS
    <3> HIDE DEF W, Step
    <3> QED BY <3>1, <3>2, <3>3, <3>4, <3>5, Zenon
  <2>4. W = [j \in 1 .. 4 |-> W[j]]
    OBVIOUS
  <2> HIDE DEF W, Step
  <2> QED BY <2>3, <2>4
<1>3. V = [j \in 1 .. 4 |-> Step(V, j)]
  BY <1>2, Zenon
<1> HIDE DEF V, W
<1>4. V[4] = pt /\ V[3] = Child(m, V[4], Offset(4, page))
      /\ V[2] = Child(m, V[3], Offset(3, page)) /\ V[1] = Child(m, V[2], Offset(2, page))
  <2>1. \A j \in 1 .. 4 : V[j] = Step(V, j)
    BY <1>3
  <2> QED BY <2>1
<1> QED BY <1>1, <1>4

Memory == [Frames -> Tab]

LEMMA FreeEntry == Free.frame = None /\ Free.perm = "free" /\ Free \in Content
  BY DEF Free, Content

LEMMA ContentFrame ==
  ASSUME NEW e \in Content
  PROVE  /\ e.frame \in Opt /\ (e = Free <=> e.frame = None)
         /\ e # Free => e.frame \in Frames /\ e \in Pte
<1>1. None \notin Frames
  BY Sizes DEF None, Frames
<1> QED BY <1>1 DEF Content, Pte, Free, Opt

LEMMA EntryTyped ==
  ASSUME NEW m \in Memory, NEW t \in Frames, NEW i \in Index
  PROVE  m[t] \in Tab /\ m[t][i] \in Content
  BY DEF Memory, Tab

LEMMA ChildTyped ==
  ASSUME NEW m \in Memory, NEW t \in Opt, NEW i \in Index
  PROVE  Child(m, t, i) \in Opt
<1>1. CASE t = None
  BY <1>1 DEF Child, Opt
<1>2. CASE t \in Frames
  BY <1>2, EntryTyped, ContentFrame DEF Child, Opt
<1> QED BY <1>1, <1>2 DEF Opt

LEMMA WalkTyped ==
  ASSUME NEW m \in Memory, NEW pt \in Frames, NEW page \in Nat, NEW l \in 1 .. 4
  PROVE  TableOf(m, pt, page, l) \in Opt
<1>1. \A j \in 1 .. 4 : Offset(j, page) \in Index
  BY OffsetRange
<1>2. TableOf(m, pt, page, 4) \in Opt
  BY Walk DEF Opt
<1>3. TableOf(m, pt, page, 3) \in Opt
  <2>1. pt \in Opt
    BY DEF Opt
  <2> QED BY <1>1, <2>1, Walk, ChildTyped
<1>4. TableOf(m, pt, page, 2) \in Opt
  BY <1>1, <1>3, Walk, ChildTyped
<1>5. TableOf(m, pt, page, 1) \in Opt
  BY <1>1, <1>4, Walk, ChildTyped
<1> QED BY <1>2, <1>3, <1>4, <1>5

LEMMA LocationTyped ==
  ASSUME NEW t \in Opt, NEW i \in Index
  PROVE  /\ Location(t, i) = <<>> <=> t = None
         /\ t # None => t \in Frames /\ Location(t, i) = <<t, i>>
  BY DEF Location, Opt

LEMMA PtrTyped ==
  ASSUME NEW m \in Memory, NEW pt \in Frames, NEW page \in Nat
  PROVE  /\ PteGetPtr(m, pt, page) \in {<<>>} \cup (Frames \X Index)
         /\ EntryAt(m, PteGetPtr(m, pt, page)) \in Content
<1> DEFINE t == TableOf(m, pt, page, 1)
           i == Offset(1, page)
<1>1. t \in Opt
  BY WalkTyped
<1>2. i \in Index
  BY OffsetRange
<1>3. PteGetPtr(m, pt, page) = Location(t, i)
  BY DEF PteGetPtr
<1> HIDE DEF t, i
<1>4. CASE t = None
  BY <1>1, <1>2, <1>3, <1>4, LocationTyped, FreeEntry DEF EntryAt
<1>5. CASE t # None
  <2>1. t \in Frames /\ Location(t, i) = <<t, i>>
    BY <1>1, <1>2, <1>5, LocationTyped
  <2>2. m[t][i] \in Content
    BY <1>2, <2>1, EntryTyped
  <2> QED BY <1>2, <1>3, <2>1, <2>2 DEF EntryAt
<1> QED BY <1>4, <1>5

LEMMA Bases ==
  /\ PtBase \in Frames /\ PtBase + 1 \in Frames /\ PtBase # PtBase + 1 /\ 0 \in Frames
  /\ None \notin Frames /\ \A f \in Frames : f # None /\ f \in Nat
  /\ PtUserEntries \in Index /\ PtUserEntries \in 0 .. Entries[4] - 1
  /\ I2 \subseteq Index /\ I3 \subseteq Index /\ 0 .. Entries[1] - 1 \subseteq Index
  /\ 0 .. Entries[4] - 1 \subseteq Index
<1> DEFINE n == NrPtFrames - NotL1Frames
           x == n * Entries[1]
<1>1. /\ PtBase \in Nat /\ NrPtFrames \in Nat /\ NrPtFrames > 3 /\ NrPages \in Nat
      /\ PtBase + NrPtFrames < x /\ x <= NrPages
  BY SizesAssumption DEF NotL1Frames
<1>2. x \in Nat
  <2>1. n \in Nat /\ Entries[1] \in Nat
    BY Sizes, <1>1 DEF NotL1Frames
  <2> HIDE DEF n
  <2> QED BY <2>1, Product
<1> HIDE DEF x
<1>3. PtBase \in Frames /\ PtBase + 1 \in Frames /\ PtBase # PtBase + 1 /\ 0 \in Frames
  BY <1>1, <1>2 DEF Frames
<1>4. \A f \in Frames : f # None /\ f \in Nat
  BY <1>1 DEF Frames, None
<1>5. /\ I2 \subseteq Index /\ I3 \subseteq Index /\ 0 .. Entries[1] - 1 \subseteq Index
      /\ 0 .. Entries[4] - 1 \subseteq Index
  <2>1. /\ Entries[1] \in Nat /\ Entries[1] <= Width /\ Entries[2] \in Nat /\ Entries[2] <= Width
        /\ Entries[3] \in Nat /\ Entries[3] <= Width /\ Entries[4] \in Nat /\ Entries[4] <= Width
        /\ Width \in Nat
    BY Sizes
  <2> QED BY <2>1 DEF I2, I3, Index
<1>6. PtUserEntries \in 0 .. Entries[4] - 1
  BY Sizes
<1> QED BY <1>3, <1>4, <1>5, <1>6

LEMMA CtxTyped ==
  ASSUME NEW c, CtxOK(c)
  PROVE  /\ \A i \in I3 : c.t2[i] \in Opt
         /\ \A i \in I3, j \in I2 : c.t1[i][j] \in Opt
         /\ \A f \in Frames : c.lev[f] \in 0 .. 4 /\ c.own[f] \in Opt
         /\ c.roots \subseteq Frames /\ c.pinned \subseteq Frames
         /\ K2(c) \subseteq Frames /\ K1(c) \subseteq Frames /\ Kt(c) \subseteq Frames
         /\ \A i \in I3 : c.t2[i] # None => c.t2[i] \in K2(c)
         /\ \A i \in I3, j \in I2 : c.t1[i][j] # None => c.t1[i][j] \in K1(c)
         /\ c.stale \subseteq Frames \X Index
<1>1. c \in Ctx
  BY DEF CtxOK
<1>2. /\ \A i \in I3 : c.t2[i] \in Opt
      /\ \A i \in I3, j \in I2 : c.t1[i][j] \in Opt
      /\ \A f \in Frames : c.lev[f] \in 0 .. 4 /\ c.own[f] \in Opt
      /\ c.roots \subseteq Frames /\ c.pinned \subseteq Frames /\ c.stale \subseteq Frames \X Index
  BY <1>1 DEF Ctx
<1>3. K2(c) \subseteq Frames /\ K1(c) \subseteq Frames /\ Kt(c) \subseteq Frames
  BY Bases DEF K2, K1, Kt
<1>4. \A i \in I3 : c.t2[i] # None => c.t2[i] \in K2(c)
  BY <1>2 DEF K2, Opt
<1>5. \A i \in I3, j \in I2 : c.t1[i][j] # None => c.t1[i][j] \in K1(c)
  BY <1>2 DEF K1, Opt
<1> QED BY <1>2, <1>3, <1>4, <1>5

\* The kernel's entry for a frame lies in a table of level 1.
LEMMA LocTyped ==
  ASSUME NEW c, CtxOK(c), NEW f \in Frames
  PROVE  /\ Offset(3, f) \in I3 /\ Offset(2, f) \in I2 /\ Offset(1, f) \in 0 .. Entries[1] - 1
         /\ Loc(c, f) = <<>> <=> c.t1[Offset(3, f)][Offset(2, f)] = None
         /\ Loc(c, f) # <<>> => /\ Loc(c, f) = <<c.t1[Offset(3, f)][Offset(2, f)], Offset(1, f)>>
                                /\ Loc(c, f) \in Frames \X Index
                                /\ c.t1[Offset(3, f)][Offset(2, f)] \in K1(c)
<1>1. Offset(3, f) \in I3 /\ Offset(2, f) \in I2 /\ Offset(1, f) \in 0 .. Entries[1] - 1
  BY OffsetRange, Bases DEF I2, I3
<1> DEFINE t == c.t1[Offset(3, f)][Offset(2, f)]
           o == Offset(1, f)
<1>2. t \in Opt /\ (t # None => t \in K1(c) /\ t \in Frames)
  BY <1>1, CtxTyped
<1>3. Loc(c, f) = Location(t, o) /\ o \in Index
  BY <1>1, Bases DEF Loc
<1> HIDE DEF t, o
<1>4. Loc(c, f) = <<>> <=> t = None
  BY <1>2, <1>3, LocationTyped
<1>5. t # None => Loc(c, f) = <<t, o>> /\ Loc(c, f) \in Frames \X Index
  BY <1>2, <1>3, LocationTyped
<1> QED BY <1>1, <1>2, <1>4, <1>5 DEF t, o

LEMMA KernelWalk ==
  ASSUME NEW c, CtxOK(c), NEW m \in Memory, Shape(m, c), NEW pt \in Frames,
         m[pt][PtUserEntries] = KernelEntry, NEW f \in Frames
  PROVE  PteGetPtr(m, pt, KernPage(f)) = Loc(c, f)
<1> DEFINE p == KernPage(f)
           o3 == Offset(3, f)
           o2 == Offset(2, f)
<1>1. Offset(4, p) = PtUserEntries /\ Offset(3, p) = o3 /\ Offset(2, p) = o2 /\ Offset(1, p) = Offset(1, f)
  BY KernOffset
<1>2. o3 \in I3 /\ o2 \in I2
  BY LocTyped
<1> HIDE DEF p, o3, o2
<1>3. TableOf(m, pt, p, 3) = PtBase + 1
  <2>1. TableOf(m, pt, p, 3) = m[pt][PtUserEntries].frame
    BY Walk, <1>1, Bases DEF Child
  <2> QED BY <2>1 DEF KernelEntry, PteCreate
<1>4. TableOf(m, pt, p, 2) = c.t2[o3]
  <2>1. TableOf(m, pt, p, 2) = m[PtBase + 1][o3].frame
    BY Walk, <1>1, <1>3, Bases DEF Child
  <2> QED BY <1>2, <2>1 DEF Shape
<1>5. TableOf(m, pt, p, 1) = c.t1[o3][o2]
  <2>1. TableOf(m, pt, p, 1) = Child(m, c.t2[o3], o2)
    BY Walk, <1>1, <1>4
  <2>2. CASE c.t2[o3] = None
    <3>1. c.t1[o3][o2] = None
      BY <1>2, <2>2 DEF CtxOK, CtxKernel
    <3> QED BY <2>1, <2>2, <3>1 DEF Child
  <2>3. CASE c.t2[o3] # None
    BY <1>2, <2>1, <2>3 DEF Child, Shape
  <2> QED BY <2>2, <2>3
<1> QED BY <1>1, <1>5 DEF PteGetPtr, Loc, p, o3, o2

LEMMA UserWalk ==
  ASSUME NEW c, CtxOK(c), NEW m \in Memory, Trees(m, c), NEW r \in c.roots,
         NEW page \in Nat, page < UserEnd, NEW l \in 1 .. 4
  PROVE  \/ TableOf(m, r, page, l) = None
         \/ /\ TableOf(m, r, page, l) \in Frames
            /\ c.lev[TableOf(m, r, page, l)] = l /\ c.own[TableOf(m, r, page, l)] = r
<1> DEFINE At(j, t) == t = None \/ (t \in Frames /\ c.lev[t] = j /\ c.own[t] = r)
<1>1. At(4, TableOf(m, r, page, 4))
  <2>1. TableOf(m, r, page, 4) = r
    BY Walk
  <2>2. r \in Frames /\ c.lev[r] = 4 /\ c.own[r] = r
    BY CtxTyped DEF CtxOK, CtxSpaces
  <2> QED BY <2>1, <2>2
<1>2. /\ Offset(4, page) \in 0 .. Entries[4] - 1 /\ Offset(4, page) < PtUserEntries
      /\ Offset(3, page) \in I3 /\ Offset(2, page) \in I2
  BY OffsetRange, UserOffset, Sizes DEF I3, I2
<1>3. ASSUME NEW t, NEW j, NEW val, At(j, t), t # None, Fits(c, t, val)
      PROVE  At(j - 1, val.frame)
  BY <1>3, FreeEntry DEF Fits
<1>4. At(3, TableOf(m, r, page, 3))
  <2>1. TableOf(m, r, page, 3) = m[r][Offset(4, page)].frame /\ r # None
    BY Walk, CtxTyped, Bases DEF Child
  <2>2. Top(m, c, r)
    BY <1>1, CtxTyped DEF CtxOK, CtxSpaces, Trees
  <2>3. Fits(c, r, m[r][Offset(4, page)])
    BY <1>2, <2>2 DEF Top
  <2>4. At(4, r)
    BY <1>1, Walk
  <2> DEFINE four == 4
  <2>5. At(four - 1, m[r][Offset(4, page)].frame)
    <3> HIDE DEF four, At
    <3>1. At(four, r)
      BY <2>4 DEF four
    <3> QED BY <1>3, <2>1, <2>3, <3>1
  <2> QED BY <2>1, <2>5
<1>5. At(2, TableOf(m, r, page, 2))
  <2> DEFINE t == TableOf(m, r, page, 3)
             e == m[t][Offset(3, page)]
  <2>1. TableOf(m, r, page, 2) = Child(m, t, Offset(3, page))
    BY Walk
  <2> HIDE DEF t
  <2>2. CASE t = None
    BY <2>1, <2>2 DEF Child
  <2>3. CASE t # None
    <3>1. TableOf(m, r, page, 2) = e.frame /\ t \in Frames /\ c.lev[t] = 3 /\ c.own[t] = r
      BY <1>4, <2>1, <2>3 DEF Child, t
    <3>2. Fits(c, t, e)
      BY <1>2, <3>1 DEF Trees
    <3> QED BY <3>1, <3>2, FreeEntry DEF Fits
  <2> QED BY <2>2, <2>3
<1>6. At(1, TableOf(m, r, page, 1))
  <2> DEFINE t == TableOf(m, r, page, 2)
             e == m[t][Offset(2, page)]
  <2>1. TableOf(m, r, page, 1) = Child(m, t, Offset(2, page))
    BY Walk
  <2> HIDE DEF t
  <2>2. CASE t = None
    BY <2>1, <2>2 DEF Child
  <2>3. CASE t # None
    <3>1. TableOf(m, r, page, 1) = e.frame /\ t \in Frames /\ c.lev[t] = 2 /\ c.own[t] = r
      BY <1>5, <2>1, <2>3 DEF Child, t
    <3>2. Fits(c, t, e)
      BY <1>2, <3>1 DEF Trees
    <3> QED BY <3>1, <3>2, FreeEntry DEF Fits
  <2> QED BY <2>2, <2>3
<1>7. l = 1 \/ l = 2 \/ l = 3 \/ l = 4
  OBVIOUS
<1> QED BY <1>1, <1>4, <1>5, <1>6, <1>7

Struct(m, c) == Shape(m, c) /\ Kernel(m, c) /\ Trees(m, c)
Level3(m, tops) == Below(m, tops, 4)
Level2(m, tops) == Below(m, Level3(m, tops), 3)
Level1(m, tops) == Below(m, Level2(m, tops), 2)

LEMMA Levels ==
  ASSUME NEW m, NEW tops
  PROVE  /\ InUse(m, tops) = tops \cup Level3(m, tops) \cup Level2(m, tops) \cup Level1(m, tops)
         /\ Accepts(m, tops) = Valid(m, Level1(m, tops), Level2(m, tops), Level3(m, tops), tops)
  BY DEF InUse, Accepts, Level1, Level2, Level3

\* The tables of the kernel's half are in use.
LEMMA KernelChain ==
  ASSUME NEW c, CtxOK(c), NEW m \in Memory, Shape(m, c), NEW tops, PtBase \in tops
  PROVE  /\ PtBase + 1 \in Level3(m, tops) /\ K2(c) \subseteq Level2(m, tops)
         /\ K1(c) \subseteq Level1(m, tops)
<1>1. PtBase + 1 \in Level3(m, tops)
  <2> DEFINE e == m[PtBase][PtUserEntries]
             four == 4
  <2>1. e.frame = PtBase + 1
    BY Bases DEF Shape, KernelEntry, PteCreate
  <2>2. e.frame # None /\ PtUserEntries \in 0 .. Entries[four] - 1
    BY <2>1, Bases
  <2> HIDE DEF four
  <2>3. e.frame \in Below(m, tops, four)
    BY <2>2, EntryBelow
  <2> QED BY <2>1, <2>3 DEF Level3, four
<1>2. K2(c) \subseteq Level2(m, tops)
  <2>1. SUFFICES ASSUME NEW i \in I3, c.t2[i] \in Frames
                 PROVE  c.t2[i] \in Level2(m, tops)
    BY DEF K2
  <2> DEFINE b == PtBase + 1
             e == m[b][i]
             S == Level3(m, tops)
             three == 3
  <2>2. e.frame = c.t2[i]
    BY DEF Shape
  <2>3. e.frame # None /\ i \in 0 .. Entries[three] - 1 /\ b \in S
    BY <1>1, <2>1, <2>2, Bases DEF I3
  <2> HIDE DEF b, S, three
  <2>4. e.frame \in Below(m, S, three)
    BY <2>3, EntryBelow
  <2> QED BY <2>2, <2>4 DEF Level2, S, three
<1>3. K1(c) \subseteq Level1(m, tops)
  <2>1. SUFFICES ASSUME NEW i \in I3, NEW j \in I2, c.t1[i][j] \in Frames
                 PROVE  c.t1[i][j] \in Level1(m, tops)
    BY DEF K1
  <2>2. c.t2[i] # None
    BY <2>1, Bases DEF CtxOK, CtxKernel
  <2> DEFINE b == c.t2[i]
             e == m[b][j]
             S == Level2(m, tops)
             two == 2
  <2>3. e.frame = c.t1[i][j]
    BY <2>2 DEF Shape
  <2>4. e.frame # None /\ j \in 0 .. Entries[two] - 1 /\ b \in S
    BY <1>2, <2>1, <2>2, <2>3, Bases, CtxTyped DEF I2
  <2> HIDE DEF b, S, two
  <2>5. e.frame \in Below(m, S, two)
    BY <2>4, EntryBelow
  <2> QED BY <2>3, <2>5 DEF Level1, S, two
<1> QED BY <1>1, <1>2, <1>3

LEMMA KernelPteIs ==
  ASSUME NEW c, CtxOK(c), NEW m \in Memory, Struct(m, c), NEW f \in Frames
  PROVE  /\ KernelPte(m, f) = EntryAt(m, Loc(c, f))
         /\ KernelPte(m, f) \in KernPtes(f) \cup {Free}
         /\ KernelPte(m, f) # Free => Loc(c, f) # <<>>
<1>1. m[PtBase][PtUserEntries] = KernelEntry
  BY Bases DEF Struct, Shape
<1>2. PteGetPtr(m, PtBase, KernPage(f)) = Loc(c, f)
  BY <1>1, Bases, KernelWalk DEF Struct
<1>3. KernelPte(m, f) = EntryAt(m, Loc(c, f))
  BY <1>2 DEF KernelPte
<1>4. Loc(c, f) = <<>> => EntryAt(m, Loc(c, f)) = Free
  BY DEF EntryAt
<1> QED BY <1>3, <1>4 DEF Struct, Kernel

\* A table in use is not writable by the kernel.
LEMMA Protected ==
  ASSUME NEW c, CtxOK(c), NEW m \in Memory, Struct(m, c), NEW tops, PtBase \in tops,
         Accepts(m, tops), NEW f \in Frames, KernelPte(m, f).perm = "rw"
  PROVE  f \notin InUse(m, tops)
<1>1. KernelPte(m, f) # Free
  BY FreeEntry
<1>2. Loc(c, f) # <<>>
  BY <1>1, KernelPteIs
<1> DEFINE t == c.t1[Offset(3, f)][Offset(2, f)]
           o == Offset(1, f)
<1>3. Loc(c, f) = <<t, o>> /\ t \in K1(c) /\ o \in 0 .. Entries[1] - 1
  BY <1>2, LocTyped
<1> HIDE DEF t, o
<1>4. KernelPte(m, f) = m[t][o]
  BY <1>2, <1>3, KernelPteIs DEF EntryAt
<1>5. m[t][o].frame = f /\ m[t][o].perm = "rw"
  BY <1>1, <1>4, KernelPteIs DEF KernPtes, PteCreate
<1>6. t \in Level1(m, tops)
  BY <1>3, KernelChain DEF Struct
<1>7. Valid(m, Level1(m, tops), Level2(m, tops), Level3(m, tops), tops)
  BY Levels
<1>8. f \notin Level1(m, tops) \cup Level2(m, tops) \cup Level3(m, tops) \cup tops
  BY <1>3, <1>5, <1>6, <1>7 DEF Valid
<1> QED BY <1>8, Levels

\* The tables in use are the kernel's, and those of the spaces.
Owned(c, R, l) == {f \in Frames : c.lev[f] = l /\ c.own[f] \in R}

LEMMA InUseKnown ==
  ASSUME NEW c, CtxOK(c), NEW m \in Memory, Struct(m, c), NEW R,
         NEW tops, tops \subseteq {PtBase} \cup Owned(c, R, 4)
  PROVE  /\ Level3(m, tops) \subseteq {PtBase + 1} \cup Owned(c, R, 3)
         /\ Level2(m, tops) \subseteq K2(c) \cup Owned(c, R, 2)
         /\ Level1(m, tops) \subseteq K1(c) \cup Owned(c, R, 1)
<1>1. ASSUME NEW t \in Frames, NEW val, Fits(c, t, val), val.frame # None, c.own[t] \in R
      PROVE  val.frame \in Owned(c, R, c.lev[t] - 1)
  BY <1>1, FreeEntry DEF Fits, Owned
<1>2. ASSUME NEW S, NEW l, NEW f \in Below(m, S, l)
      PROVE  \E t \in S : \E i \in 0 .. Entries[l] - 1 : f = m[t][i].frame /\ f # None
  BY <1>2 DEF Below
<1>3. ASSUME NEW f \in Level3(m, tops)
      PROVE  f \in {PtBase + 1} \cup Owned(c, R, 3)
  <2>1. PICK t \in tops : \E i \in 0 .. Entries[4] - 1 : f = m[t][i].frame /\ f # None
    BY <1>2, <1>3 DEF Level3
  <2>2. PICK i \in 0 .. Entries[4] - 1 : f = m[t][i].frame /\ f # None
    BY <2>1
  <2>3. CASE t = PtBase
    <3>1. m[PtBase][i] = IF i = PtUserEntries THEN KernelEntry ELSE Free
      BY <2>2 DEF Struct, Shape
    <3> QED BY <2>2, <2>3, <3>1, FreeEntry DEF KernelEntry, PteCreate
  <2>4. CASE t \in Owned(c, R, 4)
    <3>1. t \in Frames /\ c.lev[t] = 4 /\ c.own[t] \in R
      BY <2>4 DEF Owned
    <3>2. Top(m, c, t)
      BY <3>1 DEF Struct, Trees
    <3>3. CASE i < PtUserEntries
      <4>1. Fits(c, t, m[t][i])
        BY <3>2, <3>3 DEF Top
      <4> DEFINE e == m[t][i]
      <4> HIDE DEF e
      <4>2. e.frame \in Owned(c, R, c.lev[t] - 1)
        BY <1>1, <2>2, <3>1, <4>1 DEF e
      <4>3. c.lev[t] - 1 = 3
        BY <3>1
      <4> QED BY <2>2, <4>2, <4>3 DEF e
    <3>4. CASE ~(i < PtUserEntries)
      <4>1. m[t][i] = KernelEntry \/ m[t][i] = Free
        BY <3>2, <3>4 DEF Top
      <4> QED BY <2>2, <4>1, FreeEntry DEF KernelEntry, PteCreate
    <3> QED BY <3>3, <3>4
  <2> QED BY <2>1, <2>3, <2>4
<1>4. ASSUME NEW f \in Level2(m, tops)
      PROVE  f \in K2(c) \cup Owned(c, R, 2)
  <2>1. PICK t \in Level3(m, tops) : \E i \in 0 .. Entries[3] - 1 : f = m[t][i].frame /\ f # None
    BY <1>2, <1>4 DEF Level2
  <2>2. PICK i \in 0 .. Entries[3] - 1 : f = m[t][i].frame /\ f # None
    BY <2>1
  <2>3. CASE t = PtBase + 1
    <3>1. i \in I3 /\ m[PtBase + 1][i].frame = c.t2[i]
      BY <2>2 DEF Struct, Shape, I3
    <3> QED BY <2>2, <2>3, <3>1, CtxTyped
  <2>4. CASE t \in Owned(c, R, 3)
    <3>1. t \in Frames /\ c.lev[t] = 3 /\ c.own[t] \in R
      BY <2>4 DEF Owned
    <3>2. Fits(c, t, m[t][i])
      BY <2>2, <3>1 DEF Struct, Trees, I3
    <3> DEFINE e == m[t][i]
    <3> HIDE DEF e
    <3>3. e.frame \in Owned(c, R, c.lev[t] - 1)
      BY <1>1, <2>2, <3>1, <3>2 DEF e
    <3>4. c.lev[t] - 1 = 2
      BY <3>1
    <3> QED BY <2>2, <3>3, <3>4 DEF e
  <2> QED BY <1>3, <2>3, <2>4
<1>5. ASSUME NEW f \in Level1(m, tops)
      PROVE  f \in K1(c) \cup Owned(c, R, 1)
  <2>1. PICK t \in Level2(m, tops) : \E i \in 0 .. Entries[2] - 1 : f = m[t][i].frame /\ f # None
    BY <1>2, <1>5 DEF Level1
  <2>2. PICK i \in 0 .. Entries[2] - 1 : f = m[t][i].frame /\ f # None
    BY <2>1
  <2>3. CASE t \in K2(c)
    <3>1. PICK h \in I3 : t = c.t2[h]
      BY <2>3 DEF K2
    <3>2. t # None /\ i \in I2
      BY <2>2, <2>3, CtxTyped, Bases DEF I2
    <3>3. m[c.t2[h]][i].frame = c.t1[h][i]
      BY <3>1, <3>2 DEF Struct, Shape
    <3>4. f = c.t1[h][i] /\ f # None
      BY <2>2, <3>1, <3>3
    <3> QED BY <3>2, <3>4, CtxTyped
  <2>4. CASE t \in Owned(c, R, 2)
    <3>1. t \in Frames /\ c.lev[t] = 2 /\ c.own[t] \in R
      BY <2>4 DEF Owned
    <3>2. Fits(c, t, m[t][i])
      BY <2>2, <3>1 DEF Struct, Trees, I2
    <3> DEFINE e == m[t][i]
    <3> HIDE DEF e
    <3>3. e.frame \in Owned(c, R, c.lev[t] - 1)
      BY <1>1, <2>2, <3>1, <3>2 DEF e
    <3>4. c.lev[t] - 1 = 1
      BY <3>1
    <3> QED BY <2>2, <3>3, <3>4 DEF e
  <2> QED BY <1>4, <2>3, <2>4
<1> QED BY <1>3, <1>4, <1>5

\* The walk from a table in use reads tables in use only.
LEMMA WalkSame ==
  ASSUME NEW m \in Memory, NEW n \in Memory, NEW tops, Same(m, n, InUse(m, tops)),
         NEW pt \in tops, pt \in Frames, NEW page \in Nat
  PROVE  /\ PteGetPtr(n, pt, page) = PteGetPtr(m, pt, page)
         /\ EntryAt(n, PteGetPtr(m, pt, page)) = EntryAt(m, PteGetPtr(m, pt, page))
<1> DEFINE S3 == {None} \cup Level3(m, tops)
           S2 == {None} \cup Level2(m, tops)
           S1 == {None} \cup Level1(m, tops)
           t3 == TableOf(m, pt, page, 3)
           t2 == TableOf(m, pt, page, 2)
           t1 == TableOf(m, pt, page, 1)
<1>1. ASSUME NEW t, NEW i, NEW S, NEW l, t = None \/ t \in S, i \in 0 .. Entries[l] - 1
      PROVE  Child(m, t, i) \in {None} \cup Below(m, S, l)
  <2>1. CASE t = None
    BY <2>1 DEF Child
  <2>2. CASE t # None
    <3>1. Child(m, t, i) = m[t][i].frame /\ t \in S
      BY <1>1, <2>2 DEF Child
    <3>2. m[t][i].frame # None => m[t][i].frame \in Below(m, S, l)
      BY <1>1, <3>1, EntryBelow
    <3> QED BY <3>1, <3>2
  <2> QED BY <2>1, <2>2
<1>2. /\ Offset(4, page) \in 0 .. Entries[4] - 1 /\ Offset(3, page) \in 0 .. Entries[3] - 1
      /\ Offset(2, page) \in 0 .. Entries[2] - 1
  BY OffsetRange
<1>3. t3 \in S3
  BY <1>1, <1>2, Walk DEF Level3
<1>4. t2 \in S2
  BY <1>1, <1>2, <1>3, Walk DEF Level2
<1>5. t1 \in S1
  BY <1>1, <1>2, <1>4, Walk DEF Level1
<1>6. InUse(m, tops) = tops \cup Level3(m, tops) \cup Level2(m, tops) \cup Level1(m, tops)
  BY Levels
<1>7. /\ n[pt] = m[pt] /\ (t3 # None => n[t3] = m[t3]) /\ (t2 # None => n[t2] = m[t2])
      /\ (t1 # None => n[t1] = m[t1])
  BY <1>3, <1>4, <1>5, <1>6 DEF Same
<1> HIDE DEF S3, S2, S1, t3, t2, t1
<1>8. TableOf(n, pt, page, 3) = t3
  BY <1>7, Walk DEF Child, t3
<1>9. TableOf(n, pt, page, 2) = t2
  BY <1>7, <1>8, Walk DEF Child, t2, t3
<1>10. TableOf(n, pt, page, 1) = t1
  BY <1>7, <1>9, Walk DEF Child, t1, t2
<1>11. PteGetPtr(m, pt, page) = Location(t1, Offset(1, page))
       /\ PteGetPtr(n, pt, page) = Location(t1, Offset(1, page))
  BY <1>10 DEF PteGetPtr, t1
<1>12. EntryAt(n, Location(t1, Offset(1, page))) = EntryAt(m, Location(t1, Offset(1, page)))
  BY <1>7 DEF EntryAt, Location
<1> QED BY <1>11, <1>12

----------------------------------------------------------------------------
(* Writes to the tables                                                    *)

\* A write that keeps the tables of their levels, and of their spaces.
Allowed(c, t, i, val) ==
    \/ c.lev[t] = 1
    \/ c.lev[t] \in 2 .. 4 /\ (c.lev[t] = 4 => i < PtUserEntries) /\ Fits(c, t, val)
    \/ t \in c.roots /\ i = PtUserEntries /\ val = KernelEntry
    \/ \E f \in Frames : Loc(c, f) = <<t, i>> /\ val \in KernPtes(f)

\* A frame that is no table.
Loose(c, t) == c.lev[t] = 0 /\ t \notin Kt(c)

Put(m, t, i, val) == [m EXCEPT ![t][i] = val]

LEMMA PutTyped ==
  ASSUME NEW m \in Memory, NEW t \in Frames, NEW i \in Index, NEW val \in Content
  PROVE  /\ Put(m, t, i, val) \in Memory /\ Put(m, t, i, val)[t][i] = val
         /\ \A u \in Frames : u # t => Put(m, t, i, val)[u] = m[u]
         /\ \A u \in Frames, j \in Index : u # t \/ j # i => Put(m, t, i, val)[u][j] = m[u][j]
  BY DEF Put, Memory, Tab

Table(c, t) == t \in Kt(c) \/ c.lev[t] # 0

LEMMA StructSame ==
  ASSUME NEW c, CtxOK(c), NEW m \in Memory, NEW n \in Memory, Struct(m, c),
         \A t \in Frames : Table(c, t) => n[t] = m[t]
  PROVE  Struct(n, c)
<1>1. Shape(n, c)
  <2>1. n[PtBase] = m[PtBase] /\ n[PtBase + 1] = m[PtBase + 1]
    BY Bases DEF Table, Kt
  <2>2. ASSUME NEW i \in I3, c.t2[i] # None
        PROVE  n[c.t2[i]] = m[c.t2[i]]
    BY <2>2, CtxTyped DEF Table, Kt
  <2> QED BY <2>1, <2>2 DEF Struct, Shape
<1>2. Kernel(n, c)
  <2>1. SUFFICES ASSUME NEW f \in Frames, Loc(c, f) # <<>>
                 PROVE  EntryAt(n, Loc(c, f)) = EntryAt(m, Loc(c, f))
    BY DEF Kernel, Struct
  <2> DEFINE t == c.t1[Offset(3, f)][Offset(2, f)]
             o == Offset(1, f)
  <2>2. Loc(c, f) = <<t, o>> /\ t \in K1(c) /\ t \in Frames
    BY <2>1, LocTyped, CtxTyped
  <2> HIDE DEF t, o
  <2>3. n[t] = m[t]
    BY <2>2 DEF Table, Kt
  <2> QED BY <2>1, <2>2, <2>3 DEF EntryAt
<1>3. Trees(n, c)
  <2>1. SUFFICES ASSUME NEW t \in Frames
                 PROVE  /\ c.lev[t] = 4 => Top(n, c, t)
                        /\ c.lev[t] = 3 => \A i \in I3 : Fits(c, t, n[t][i])
                        /\ c.lev[t] = 2 => \A i \in I2 : Fits(c, t, n[t][i])
    BY DEF Trees
  <2>2. c.lev[t] # 0 => n[t] = m[t]
    BY DEF Table
  <2> QED BY <2>2 DEF Struct, Trees, Top
<1> QED BY <1>1, <1>2, <1>3 DEF Struct

LEMMA LocOnce ==
  ASSUME NEW c, CtxOK(c), NEW f \in Frames, NEW g \in Frames, Loc(c, f) # <<>>, Loc(c, f) = Loc(c, g)
  PROVE  f = g
<1>1. Offset(1, f) = Offset(1, g) /\ c.t1[Offset(3, f)][Offset(2, f)] = c.t1[Offset(3, g)][Offset(2, g)]
      /\ c.t1[Offset(3, f)][Offset(2, f)] # None
  BY LocTyped
<1>2. /\ Offset(3, f) \in I3 /\ Offset(2, f) \in I2 /\ Offset(3, g) \in I3 /\ Offset(2, g) \in I2
  BY LocTyped
<1>3. Offset(3, f) = Offset(3, g) /\ Offset(2, f) = Offset(2, g)
  BY <1>1, <1>2 DEF CtxOK, CtxKernel
<1> QED BY <1>1, <1>3, FrameOfOffsets

LEMMA LocTable ==
  ASSUME NEW c, CtxOK(c), NEW f \in Frames, NEW t, NEW i, Loc(c, f) = <<t, i>>
  PROVE  t \in K1(c)
<1> DEFINE u == c.t1[Offset(3, f)][Offset(2, f)]
           o == Offset(1, f)
<1>1. Loc(c, f) # <<>>
  OBVIOUS
<1>2. Loc(c, f) = <<u, o>> /\ u \in K1(c)
  BY <1>1, LocTyped
<1> HIDE DEF u, o
<1> QED BY <1>2

LEMMA WriteOK ==
  ASSUME NEW c, CtxOK(c), NEW m \in Memory, Struct(m, c), NEW t \in Frames, NEW i \in Index,
         NEW val \in Content, Allowed(c, t, i, val) \/ Loose(c, t)
  PROVE  Struct(Put(m, t, i, val), c)
<1> DEFINE n == Put(m, t, i, val)
<1>1. /\ n \in Memory /\ n[t][i] = val
      /\ \A u \in Frames : u # t => n[u] = m[u]
      /\ \A u \in Frames, j \in Index : u # t \/ j # i => n[u][j] = m[u][j]
  BY PutTyped
<1> HIDE DEF n
<1>2. CASE Loose(c, t)
  <2>1. \A u \in Frames : Table(c, u) => n[u] = m[u]
    BY <1>1, <1>2 DEF Loose, Table
  <2> QED BY <1>1, <2>1, StructSame DEF n
<1>3. CASE c.lev[t] # 0
  <2>1. t \notin Kt(c)
    BY <1>3 DEF CtxOK, CtxSpaces
  <2>2. Shape(n, c)
    <3>1. n[PtBase] = m[PtBase] /\ n[PtBase + 1] = m[PtBase + 1]
      BY <1>1, <2>1, Bases DEF Kt
    <3>2. ASSUME NEW j \in I3, c.t2[j] # None
          PROVE  n[c.t2[j]] = m[c.t2[j]]
      BY <1>1, <2>1, <3>2, CtxTyped DEF Kt
    <3> QED BY <3>1, <3>2 DEF Struct, Shape
  <2>3. Kernel(n, c)
    <3>1. SUFFICES ASSUME NEW f \in Frames, Loc(c, f) # <<>>
                   PROVE  EntryAt(n, Loc(c, f)) = EntryAt(m, Loc(c, f))
      BY DEF Kernel, Struct
    <3> DEFINE u == c.t1[Offset(3, f)][Offset(2, f)]
               o == Offset(1, f)
    <3>2. Loc(c, f) = <<u, o>> /\ u \in K1(c) /\ u \in Frames
      BY <3>1, LocTyped, CtxTyped
    <3> HIDE DEF u, o
    <3>3. n[u] = m[u]
      BY <1>1, <2>1, <3>2 DEF Kt
    <3> QED BY <3>1, <3>2, <3>3 DEF EntryAt
  <2>4. Trees(n, c)
    <3>1. SUFFICES ASSUME NEW u \in Frames
                   PROVE  /\ c.lev[u] = 4 => Top(n, c, u)
                          /\ c.lev[u] = 3 => \A j \in I3 : Fits(c, u, n[u][j])
                          /\ c.lev[u] = 2 => \A j \in I2 : Fits(c, u, n[u][j])
      BY DEF Trees
    <3>2. CASE u # t
      BY <1>1, <3>2 DEF Struct, Trees, Top
    <3>3. CASE u = t
      <4>1. c.lev[t] \in 1 .. 4
        BY <1>3, CtxTyped
      <4>2. CASE c.lev[t] = 1
        BY <3>3, <4>2
      <4>3. CASE c.lev[t] \in {2, 3}
        <5>1. Fits(c, t, val)
          <6>1. t \notin c.roots
            BY <4>3 DEF CtxOK, CtxSpaces
          <6>2. ~\E f \in Frames : Loc(c, f) = <<t, i>>
            <7>1. SUFFICES ASSUME NEW f \in Frames, Loc(c, f) = <<t, i>> PROVE FALSE
              OBVIOUS
            <7>2. t \in K1(c)
              BY <7>1, LocTable
            <7> QED BY <2>1, <7>2 DEF Kt
          <6>3. Allowed(c, t, i, val)
            BY <1>3 DEF Loose
          <6> QED BY <4>3, <6>1, <6>2, <6>3 DEF Allowed
        <5>2. \A j \in Index : n[t][j] = val \/ n[t][j] = m[t][j]
          BY <1>1
        <5>3. CASE c.lev[t] = 3
          BY <3>3, <5>1, <5>2, <5>3, Bases DEF Struct, Trees
        <5>4. CASE c.lev[t] = 2
          BY <3>3, <5>1, <5>2, <5>4, Bases DEF Struct, Trees
        <5> QED BY <4>3, <5>3, <5>4
      <4>4. CASE c.lev[t] = 4
        <5>1. Top(m, c, t)
          BY <4>4 DEF Struct, Trees
        <5>2. SUFFICES ASSUME NEW j \in 0 .. Entries[4] - 1
                       PROVE  IF j < PtUserEntries THEN Fits(c, t, n[t][j])
                              ELSE n[t][j] = IF t \in c.roots /\ j = PtUserEntries THEN KernelEntry ELSE Free
          BY <3>3, <4>4 DEF Top
        <5>3. j \in Index
          BY Bases
        <5>4. CASE j # i
          <6>1. n[t][j] = m[t][j]
            BY <1>1, <5>3, <5>4
          <6> QED BY <5>1, <6>1 DEF Top
        <5>5. CASE j = i
          <6>1. n[t][j] = val
            BY <1>1, <5>5
          <6>2. ~\E f \in Frames : Loc(c, f) = <<t, i>>
            <7>1. SUFFICES ASSUME NEW f \in Frames, Loc(c, f) = <<t, i>> PROVE FALSE
              OBVIOUS
            <7>2. t \in K1(c)
              BY <7>1, LocTable
            <7> QED BY <2>1, <7>2 DEF Kt
          <6>3. Allowed(c, t, i, val)
            BY <1>3 DEF Loose
          <6>4. \/ i < PtUserEntries /\ Fits(c, t, val)
                \/ t \in c.roots /\ i = PtUserEntries /\ val = KernelEntry
            BY <4>4, <6>2, <6>3 DEF Allowed
          <6>5. ~(PtUserEntries < PtUserEntries)
            BY Sizes
          <6> QED BY <5>5, <6>1, <6>4, <6>5
        <5> QED BY <5>4, <5>5
      <4> QED BY <4>1, <4>2, <4>3, <4>4
    <3> QED BY <3>2, <3>3
  <2> QED BY <2>2, <2>3, <2>4 DEF Struct, n
<1>4. CASE c.lev[t] = 0 /\ ~Loose(c, t)
  <2>1. t \notin c.roots
    BY <1>4 DEF CtxOK, CtxSpaces
  <2>2. PICK f \in Frames : Loc(c, f) = <<t, i>> /\ val \in KernPtes(f)
    BY <1>4, <2>1 DEF Allowed
  <2>3. t \in K1(c)
    BY <2>2, LocTable
  <2>4. Shape(n, c)
    <3>1. n[PtBase] = m[PtBase] /\ n[PtBase + 1] = m[PtBase + 1]
      BY <1>1, <2>3, Bases DEF CtxOK, CtxKernel
    <3>2. ASSUME NEW j \in I3, c.t2[j] # None
          PROVE  n[c.t2[j]] = m[c.t2[j]]
      <4>1. c.t2[j] \in K2(c) /\ c.t2[j] \in Frames
        BY <3>2, CtxTyped
      <4> QED BY <1>1, <2>3, <4>1 DEF CtxOK, CtxKernel
    <3> QED BY <3>1, <3>2 DEF Struct, Shape
  <2>5. Kernel(n, c)
    <3>1. SUFFICES ASSUME NEW g \in Frames, Loc(c, g) # <<>>
                   PROVE  EntryAt(n, Loc(c, g)) \in KernPtes(g) \cup {Free}
      BY DEF Kernel
    <3> DEFINE u == c.t1[Offset(3, g)][Offset(2, g)]
               o == Offset(1, g)
    <3>2. Loc(c, g) = <<u, o>> /\ u \in Frames /\ o \in Index
      BY <3>1, LocTyped, CtxTyped, Bases
    <3> HIDE DEF u, o
    <3>3. CASE u = t /\ o = i
      <4>1. f = g
        BY <2>2, <3>1, <3>2, <3>3, LocOnce
      <4> QED BY <1>1, <2>2, <3>1, <3>2, <3>3, <4>1 DEF EntryAt
    <3>4. CASE ~(u = t /\ o = i)
      <4>1. n[u][o] = m[u][o]
        BY <1>1, <3>2, <3>4
      <4>2. EntryAt(n, Loc(c, g)) = EntryAt(m, Loc(c, g))
        BY <3>1, <3>2, <4>1 DEF EntryAt
      <4> QED BY <3>1, <4>2 DEF Kernel, Struct
    <3> QED BY <3>3, <3>4
  <2>6. Trees(n, c)
    <3>1. \A u \in Frames : c.lev[u] # 0 => n[u] = m[u]
      BY <1>1, <1>4
    <3> QED BY <3>1 DEF Struct, Trees, Top
  <2> QED BY <2>4, <2>5, <2>6 DEF Struct, n
<1> QED BY <1>2, <1>3, <1>4

----------------------------------------------------------------------------
(* The state of a call                                                     *)

TlbOK(k) ==
    k.tlb.page # None =>
        EntryAt(k.mem, PteGetPtr(k.mem, k.loaded, k.tlb.page)) = k.tlb.pte
Core(k, c) ==
    /\ k \in KSet /\ CtxOK(c) /\ Struct(k.mem, c) /\ Allocator(k, c)
    /\ k.roots = c.roots /\ k.pinned = c.pinned /\ k.loaded = c.loaded
    /\ Accepts(k.mem, Tops(k))
    /\ k.loaded = None => k.tlb = NoTlb
\* What entry i of table t is once the queue is flushed.
Final(k, t, i, v) ==
    \/ /\ v = k.mem[t][i]
       /\ \A j \in 1 .. Len(k.queue) : k.queue[j].ptr # <<t, i>>
    \/ \E j \in 1 .. Len(k.queue) :
          /\ k.queue[j].ptr = <<t, i>> /\ k.queue[j].val = v
          /\ \A h \in 1 .. Len(k.queue) : h > j => k.queue[h].ptr # <<t, i>>
Mirrored(k, r, i) == \E v : Final(k, r, i, v) /\ Final(k, UserRoot(r), i, v)
Mirror(k, c) ==
    \A r \in c.roots, i \in 0 .. PtUserEntries - 1 :
        r # c.dying /\ <<r, i>> \notin c.stale => Mirrored(k, r, i)
\* Entry i of table t may change without the other root of its space.
Exempt(c, t, i) ==
    c.lev[t] = 4 /\ i < PtUserEntries => c.own[t] = c.dying \/ <<c.own[t], i>> \in c.stale

GoodQueue(k, c) ==
    \A j \in 1 .. Len(k.queue) : Allowed(c, k.queue[j].ptr[1], k.queue[j].ptr[2], k.queue[j].val)
Good(k, c) == Core(k, c) /\ GoodQueue(k, c) /\ TlbOK(k) /\ Mirror(k, c)

Halted == {k \in KSet : k.bug}
Kept(k, c) == k \in Halted \/ Good(k, c)

LEMMA KTyped ==
  ASSUME NEW k \in KSet
  PROVE  /\ k.mem \in Memory /\ k.unused \subseteq Frames /\ k.count \in [Frames -> Nat]
         /\ k.noWrite \in Seq(Frames) /\ k.queue \in Seq(Update) /\ k.roots \subseteq Frames
         /\ k.pinned \subseteq Frames /\ k.loaded \in Opt /\ k.tlb \in Cache /\ k.bug \in BOOLEAN
  BY DEF KSet, Memory, Lists

LEMMA NoTlbTyped == NoTlb \in Cache /\ NoTlb.page = None
  BY FreeEntry DEF NoTlb, Cache

\* The records that the operations make of one.
LEMMA WithTyped ==
  ASSUME NEW k \in KSet
  PROVE  /\ Stop(k) \in Halted
         /\ \A m \in Memory : [k EXCEPT !.mem = m] \in KSet
         /\ \A q \in Seq(Update) : [k EXCEPT !.queue = q] \in KSet
         /\ \A t \in Cache : [k EXCEPT !.tlb = t] \in KSet
<1>1. Stop(k) \in Halted
  BY DEF Stop, Halted, KSet
<1>2. \A m \in Memory : [k EXCEPT !.mem = m] \in KSet
  BY DEF KSet, Memory
<1>3. \A q \in Seq(Update) : [k EXCEPT !.queue = q] \in KSet
  BY DEF KSet
<1>4. \A t \in Cache : [k EXCEPT !.tlb = t] \in KSet
  BY DEF KSet
<1> QED BY <1>1, <1>2, <1>3, <1>4

\* Everything but the tables is the same.
Elsewhere(x, k) ==
    /\ x.unused = k.unused /\ x.count = k.count /\ x.noWrite = k.noWrite /\ x.roots = k.roots
    /\ x.pinned = k.pinned /\ x.loaded = k.loaded
    /\ (x.bug = k.bug)

LEMMA WithMem ==
  ASSUME NEW k \in KSet, NEW m \in Memory
  PROVE  /\ [k EXCEPT !.mem = m] \in KSet /\ [k EXCEPT !.mem = m].mem = m
         /\ [k EXCEPT !.mem = m].queue = k.queue /\ [k EXCEPT !.mem = m].tlb = k.tlb
         /\ Elsewhere([k EXCEPT !.mem = m], k)
<1>1. [k EXCEPT !.mem = m] \in KSet
  BY WithTyped
<1> QED BY <1>1 DEF KSet, Elsewhere

LEMMA WithQueue ==
  ASSUME NEW k \in KSet, NEW q \in Seq(Update)
  PROVE  /\ [k EXCEPT !.queue = q] \in KSet /\ [k EXCEPT !.queue = q].mem = k.mem
         /\ [k EXCEPT !.queue = q].queue = q /\ [k EXCEPT !.queue = q].tlb = k.tlb
         /\ Elsewhere([k EXCEPT !.queue = q], k)
<1>1. [k EXCEPT !.queue = q] \in KSet
  BY WithTyped
<1> QED BY <1>1 DEF KSet, Elsewhere

LEMMA WithTlb ==
  ASSUME NEW k \in KSet, NEW t \in Cache
  PROVE  /\ [k EXCEPT !.tlb = t] \in KSet /\ [k EXCEPT !.tlb = t].mem = k.mem
         /\ [k EXCEPT !.tlb = t].queue = k.queue /\ [k EXCEPT !.tlb = t].tlb = t
         /\ Elsewhere([k EXCEPT !.tlb = t], k)
<1>1. [k EXCEPT !.tlb = t] \in KSet
  BY WithTyped
<1> QED BY <1>1 DEF KSet, Elsewhere

LEMMA TopsKnown ==
  ASSUME NEW k, NEW c, Core(k, c)
  PROVE  /\ PtBase \in Tops(k) /\ Tops(k) \subseteq Frames
         /\ Tops(k) \subseteq {PtBase} \cup Owned(c, c.roots, 4)
         /\ k.loaded # None => k.loaded \in Tops(k) /\ k.loaded \in Frames
<1>1. k.pinned = c.pinned /\ k.loaded = c.loaded /\ CtxOK(c)
  BY DEF Core
<1>2. PtBase \in Tops(k)
  BY <1>1 DEF Tops, CtxOK, CtxSpaces
<1>3. ASSUME NEW f \in Frames, c.lev[f] = 4
      PROVE  f \in Owned(c, c.roots, 4)
  BY <1>1, <1>3 DEF Owned, CtxOK, CtxSpaces
<1>4. c.pinned \subseteq {PtBase} \cup Owned(c, c.roots, 4)
  BY <1>1, <1>3, CtxTyped DEF CtxOK, CtxSpaces
<1>5. c.loaded # None => {c.loaded, UserRoot(c.loaded)} \subseteq Owned(c, c.roots, 4)
  BY <1>1, <1>3, CtxTyped DEF CtxOK, CtxSpaces
<1>6. Tops(k) \subseteq {PtBase} \cup Owned(c, c.roots, 4)
  BY <1>1, <1>4, <1>5 DEF Tops
<1>7. k.loaded # None => k.loaded \in Tops(k)
  BY DEF Tops
<1> QED BY <1>2, <1>6, <1>7, Bases DEF Owned

LEMMA TopsSame ==
  ASSUME NEW x, NEW k, Elsewhere(x, k)
  PROVE  Tops(x) = Tops(k)
  BY DEF Elsewhere, Tops

LEMMA AllocatorSame ==
  ASSUME NEW x, NEW k, NEW c, Elsewhere(x, k), Allocator(k, c)
  PROVE  Allocator(x, c)
  BY DEF Elsewhere, Allocator

\* One element of the queue.
LEMMA ApplyOK ==
  ASSUME NEW k, NEW c, Core(k, c), NEW t \in Frames, NEW i \in Index, NEW val \in Content,
         Allowed(c, t, i, val) \/ Loose(c, t), NEW u, u.ptr = <<t, i>>, u.val = val
  PROVE  \/ Apply(k, u) \in Halted
         \/ /\ Core(Apply(k, u), c) /\ Apply(k, u).mem = Put(k.mem, t, i, val)
            /\ Elsewhere(Apply(k, u), k) /\ Apply(k, u).queue = k.queue
<1> DEFINE n == Put(k.mem, t, i, val)
           x == [k EXCEPT !.mem = n]
<1>1. k \in KSet /\ k.mem \in Memory /\ CtxOK(c)
  BY KTyped DEF Core
<1>2. n \in Memory
  BY <1>1, PutTyped
<1>3. Apply(k, u) = Checked(k, n)
  BY DEF Apply, Put
<1> HIDE DEF n
<1>4. x \in KSet /\ x.mem = n /\ x.queue = k.queue /\ x.tlb = k.tlb /\ Elsewhere(x, k)
  BY <1>1, <1>2, WithMem
<1>5. CASE ~Accepts(n, Tops(k))
  BY <1>1, <1>3, <1>5, WithTyped DEF Checked
<1>6. CASE Accepts(n, Tops(k))
  <2>1. Apply(k, u) = x
    BY <1>3, <1>6 DEF Checked
  <2> HIDE DEF x
  <2>2. Struct(n, c)
    BY <1>1, WriteOK DEF Core, n
  <2>3. Tops(x) = Tops(k) /\ Allocator(x, c)
    BY <1>4, TopsSame, AllocatorSame DEF Core
  <2>4. Core(x, c)
    BY <1>1, <1>4, <1>6, <2>2, <2>3 DEF Core, Elsewhere
  <2> QED BY <1>4, <2>1, <2>4 DEF n
<1> QED BY <1>5, <1>6

LEMMA QueueTyped ==
  ASSUME NEW k \in KSet, NEW j \in 1 .. Len(k.queue)
  PROVE  /\ k.queue[j] \in Update /\ k.queue[j].ptr = <<k.queue[j].ptr[1], k.queue[j].ptr[2]>>
         /\ k.queue[j].ptr[1] \in Frames /\ k.queue[j].ptr[2] \in Index /\ k.queue[j].val \in Content
<1>1. k.queue \in Seq(Update)
  BY KTyped
<1>2. k.queue[j] \in Update
  BY <1>1
<1> QED BY <1>2 DEF Update

LEMMA LenNat ==
  ASSUME NEW k \in KSet
  PROVE  Len(k.queue) \in Nat /\ (k.queue # <<>> => Len(k.queue) # 0)
<1>1. k.queue \in Seq(Update)
  BY KTyped
<1> QED BY <1>1

LEMMA ApplyTyped ==
  ASSUME NEW k \in KSet, NEW t \in Frames, NEW i \in Index, NEW val \in Content,
         NEW u, u.ptr = <<t, i>>, u.val = val
  PROVE  Apply(k, u) \in KSet /\ (k.bug => Apply(k, u) \in Halted)
<1> DEFINE n == Put(k.mem, t, i, val)
<1>1. n \in Memory
  BY KTyped, PutTyped
<1>2. Apply(k, u) = Checked(k, n)
  BY DEF Apply, Put
<1> HIDE DEF n
<1>3. [k EXCEPT !.mem = n] \in KSet /\ [k EXCEPT !.mem = n].bug = k.bug
  BY <1>1, WithMem DEF Elsewhere
<1>4. Stop(k) \in Halted
  BY WithTyped
<1>5. CASE Accepts(n, Tops(k))
  BY <1>2, <1>3, <1>5 DEF Checked, Halted
<1>6. CASE ~Accepts(n, Tops(k))
  BY <1>2, <1>4, <1>6 DEF Checked, Halted
<1> QED BY <1>5, <1>6

\* The queued updates, one after the other.
Flushes(F, k) ==
    /\ F[0] = k
    /\ \A i \in 1 .. Len(k.queue) : F[i - 1] \in KSet /\ F[i] = Apply(F[i - 1], k.queue[i])
    /\ F[Len(k.queue)] \in KSet
    /\ DoUpdate(k) = PageTableLoad([F[Len(k.queue)] EXCEPT !.queue = <<>>])

LEMMA Applied ==
  ASSUME NEW k \in KSet, ~k.bug, k.queue # <<>>
  PROVE  \E F : Flushes(F, k)
<1> DEFINE N == Len(k.queue)
           Round(s, i) == Apply(s, k.queue[i])
           g == [x \in KSet \X (1 .. N) |-> Round(x[1], x[2])]
           F == CHOOSE f : f = [i \in 0 .. N |-> IF i = 0 THEN k ELSE Round(f[i - 1], i)]
<1>1. N \in Nat
  BY LenNat
<1>2. \A x \in KSet, i \in 1 .. N : Round(x, i) \in KSet
  <2>1. SUFFICES ASSUME NEW x \in KSet, NEW i \in 1 .. N PROVE Round(x, i) \in KSet
    OBVIOUS
  <2> DEFINE u == k.queue[i]
             t == u.ptr[1]
             o == u.ptr[2]
             v == u.val
  <2>2. t \in Frames /\ o \in Index /\ v \in Content /\ u.ptr = <<t, o>>
    BY QueueTyped
  <2> HIDE DEF u, t, o, v
  <2>3. Apply(x, u) \in KSet
    BY <2>2, ApplyTyped DEF v
  <2> QED BY <2>3 DEF u
<1>3. g \in [KSet \X (1 .. N) -> KSet]
  BY <1>2
<1>4. \A x \in KSet, i \in 1 .. N : g[<<x, i>>] = Round(x, i)
  OBVIOUS
<1> HIDE DEF N, g, Round
<1>5. PICK f : Rounds(f, KSet, k, N, g)
  BY <1>1, <1>3, RoundsExist
<1>6. f = [i \in 0 .. N |-> IF i = 0 THEN k ELSE Round(f[i - 1], i)]
  <2>1. f \in [0 .. N -> KSet] /\ f[0] = k /\ \A i \in 1 .. N : f[i] = g[<<f[i - 1], i>>]
    BY <1>5 DEF Rounds
  <2>2. \A i \in 1 .. N : f[i - 1] \in KSet
    BY <1>1, <2>1
  <2>3. \A i \in 0 .. N : f[i] = IF i = 0 THEN k ELSE Round(f[i - 1], i)
    <3>1. SUFFICES ASSUME NEW i \in 0 .. N PROVE f[i] = IF i = 0 THEN k ELSE Round(f[i - 1], i)
      OBVIOUS
    <3>2. i = 0 \/ i \in 1 .. N
      BY <1>1
    <3> QED BY <1>4, <2>1, <2>2, <3>2
  <2>4. f = [i \in 0 .. N |-> f[i]]
    BY <2>1
  <2> QED BY <2>3, <2>4
<1>7. F = [i \in 0 .. N |-> IF i = 0 THEN k ELSE Round(F[i - 1], i)]
  BY <1>6, Zenon
<1>8. DoUpdate(k) = PageTableLoad([F[N] EXCEPT !.queue = <<>>])
  BY DEF DoUpdate, For, N, F, Round
<1> HIDE DEF F
<1>9. F[0] = k /\ \A i \in 1 .. N : F[i] = Round(F[i - 1], i)
  <2> DEFINE b == [i \in 0 .. N |-> IF i = 0 THEN k ELSE Round(F[i - 1], i)]
  <2>1. b[0] = k
    BY <1>1
  <2>2. ASSUME NEW i \in 1 .. N
        PROVE  b[i] = Round(F[i - 1], i)
    BY <1>1
  <2>3. F = b
    BY <1>7
  <2> HIDE DEF b
  <2> QED BY <2>1, <2>2, <2>3
<1>10. \A i \in 0 .. N : F[i] \in KSet
  <2>1. SUFFICES ASSUME NEW n \in 0 .. N PROVE F[n] \in KSet
    OBVIOUS
  <2>2. n \in Nat
    BY <1>1
  <2>3. \A i \in 1 .. n : F[i - 1] \in KSet => F[i] \in KSet
    BY <1>1, <1>2, <1>9
  <2> HIDE DEF F
  <2> QED BY <1>9, <2>2, <2>3, RoundsStay
<1>11. \A i \in 1 .. N : F[i - 1] \in KSet /\ F[i] = Apply(F[i - 1], k.queue[i])
  BY <1>1, <1>9, <1>10 DEF Round
<1>12. F[N] \in KSet
  BY <1>1, <1>10
<1> QED BY <1>8, <1>9, <1>11, <1>12 DEF Flushes, N

\* The kernel goes on with what the first n elements made of k.
Steadily(x, k, c) ==
    x \in Halted \/ (Core(x, c) /\ Elsewhere(x, k) /\ x.queue = k.queue)

LEMMA Flushed ==
  ASSUME NEW k, NEW c, Core(k, c), NEW F, Flushes(F, k), NEW n \in Nat, n <= Len(k.queue),
         \A j \in 1 .. n : Allowed(c, k.queue[j].ptr[1], k.queue[j].ptr[2], k.queue[j].val)
  PROVE  /\ Steadily(F[n], k, c)
         /\ \A t \in Frames :
               F[n] \in Halted \/ (\E j \in 1 .. n : k.queue[j].ptr[1] = t) \/ F[n].mem[t] = k.mem[t]
<1> DEFINE Kind(x) == /\ Steadily(x, k, c)
                      /\ \A t \in Frames : \/ x \in Halted
                                           \/ \E j \in 1 .. n : k.queue[j].ptr[1] = t
                                           \/ x.mem[t] = k.mem[t]
           S == {x \in KSet : Kind(x)}
<1>1. k \in KSet /\ Len(k.queue) \in Nat
  BY LenNat DEF Core
<1>2. F[0] \in S
  BY <1>1 DEF Flushes, Steadily, Elsewhere
<1>3. ASSUME NEW i \in 1 .. n, F[i - 1] \in S
      PROVE  F[i] \in S
  <2> DEFINE x == F[i - 1]
             u == k.queue[i]
             t == u.ptr[1]
             o == u.ptr[2]
             v == u.val
  <2>1. i \in 1 .. Len(k.queue)
    BY <1>1
  <2>2. x \in KSet /\ Kind(x) /\ F[i] = Apply(x, u)
    BY <1>3, <2>1 DEF Flushes
  <2>3. t \in Frames /\ o \in Index /\ v \in Content /\ u.ptr = <<t, o>>
    BY <1>1, <2>1, QueueTyped
  <2>4. Allowed(c, t, o, v)
    OBVIOUS
  <2>5. \A s \in Frames : (\E j \in 1 .. n : k.queue[j].ptr[1] = s) \/ s # t
    OBVIOUS
  <2> HIDE DEF x, u, t, o, v
  <2>6. CASE x \in Halted
    <3>1. F[i] \in Halted
      BY <2>2, <2>3, <2>6, ApplyTyped DEF Halted, v
    <3> QED BY <3>1 DEF Steadily, Halted
  <2>7. CASE x \notin Halted
    <3>1. Core(x, c) /\ Elsewhere(x, k) /\ x.queue = k.queue
      BY <2>2, <2>7 DEF Steadily
    <3>2. \/ Apply(x, u) \in Halted
          \/ /\ Core(Apply(x, u), c) /\ Apply(x, u).mem = Put(x.mem, t, o, v)
             /\ Elsewhere(Apply(x, u), x) /\ Apply(x, u).queue = x.queue
      BY <2>3, <2>4, <3>1, ApplyOK DEF v
    <3>3. CASE Apply(x, u) \in Halted
      BY <2>2, <3>3 DEF Steadily, Halted
    <3>4. CASE Apply(x, u) \notin Halted
      <4>1. Core(F[i], c) /\ Elsewhere(F[i], k) /\ F[i].queue = k.queue
        BY <2>2, <3>1, <3>2, <3>4 DEF Elsewhere
      <4>2. \A s \in Frames : s # t => F[i].mem[s] = x.mem[s]
        <5>1. x.mem \in Memory
          BY <2>2, KTyped
        <5> QED BY <2>2, <2>3, <3>2, <3>4, <5>1, PutTyped
      <4>3. F[i] \in KSet
        BY <4>1 DEF Core
      <4>4. \A s \in Frames : (\E j \in 1 .. n : k.queue[j].ptr[1] = s) \/ F[i].mem[s] = k.mem[s]
        BY <2>2, <2>5, <2>7, <4>2
      <4> QED BY <4>1, <4>3, <4>4 DEF Steadily
    <3> QED BY <3>3, <3>4
  <2> QED BY <2>6, <2>7
<1> HIDE DEF S
<1>4. F[n] \in S
  BY <1>2, <1>3, RoundsStay
<1> QED BY <1>4 DEF S

\* What remains is to load the base of the tables again.
LEMMA Loaded ==
  ASSUME NEW x, NEW c, Core(x, c)
  PROVE  /\ Core(PageTableLoad([x EXCEPT !.queue = <<>>]), c)
         /\ GoodQueue(PageTableLoad([x EXCEPT !.queue = <<>>]), c)
         /\ TlbOK(PageTableLoad([x EXCEPT !.queue = <<>>]))
         /\ PageTableLoad([x EXCEPT !.queue = <<>>]).queue = <<>>
         /\ PageTableLoad([x EXCEPT !.queue = <<>>]).mem = x.mem
         /\ Elsewhere(PageTableLoad([x EXCEPT !.queue = <<>>]), x)
<1> DEFINE y == [x EXCEPT !.queue = <<>>]
           z == [y EXCEPT !.tlb = NoTlb]
           w == PageTableLoad(y)
<1>1. x \in KSet /\ <<>> \in Seq(Update)
  BY DEF Core
<1>2. y \in KSet /\ y.mem = x.mem /\ y.queue = <<>> /\ y.tlb = x.tlb /\ Elsewhere(y, x)
  BY <1>1, WithQueue
<1> HIDE DEF y
<1>3. z \in KSet /\ z.mem = x.mem /\ z.queue = <<>> /\ z.tlb = NoTlb /\ Elsewhere(z, y)
  BY <1>2, WithTlb, NoTlbTyped
<1> HIDE DEF z
<1>4. w \in KSet /\ w.mem = x.mem /\ w.queue = <<>> /\ w.tlb = NoTlb /\ Elsewhere(w, x)
  <2>1. CASE y.loaded = None
    <3>1. x.loaded = None
      BY <1>2, <2>1 DEF Elsewhere
    <3>2. x.tlb = NoTlb
      BY <3>1 DEF Core
    <3> QED BY <1>2, <2>1, <3>2 DEF PageTableLoad
  <2>2. CASE y.loaded # None
    BY <1>2, <1>3, <2>2 DEF PageTableLoad, z, Elsewhere
  <2> QED BY <2>1, <2>2
<1> HIDE DEF w
<1>5. Tops(w) = Tops(x) /\ Allocator(w, c)
  BY <1>4, TopsSame, AllocatorSame DEF Core
<1>6. Core(w, c)
  BY <1>4, <1>5 DEF Core, Elsewhere
<1>7. GoodQueue(w, c) /\ TlbOK(w)
  BY <1>4, NoTlbTyped DEF GoodQueue, TlbOK
<1> QED BY <1>4, <1>6, <1>7 DEF w, y

LEMMA LoadHalted ==
  ASSUME NEW x \in Halted
  PROVE  PageTableLoad(x) \in Halted /\ PageTableLoad([x EXCEPT !.queue = <<>>]) \in Halted
<1>1. ASSUME NEW y \in Halted PROVE PageTableLoad(y) \in Halted
  <2>1. y \in KSet /\ y.bug
    BY <1>1 DEF Halted
  <2>2. [y EXCEPT !.tlb = NoTlb] \in KSet /\ [y EXCEPT !.tlb = NoTlb].bug = y.bug
    BY <2>1, WithTlb, NoTlbTyped DEF Elsewhere
  <2> QED BY <2>1, <2>2 DEF PageTableLoad, Halted
<1>2. [x EXCEPT !.queue = <<>>] \in Halted
  <2>1. x \in KSet /\ x.bug /\ <<>> \in Seq(Update)
    BY DEF Halted
  <2>2. [x EXCEPT !.queue = <<>>] \in KSet /\ [x EXCEPT !.queue = <<>>].bug = x.bug
    BY <2>1, WithQueue DEF Elsewhere
  <2> QED BY <2>1, <2>2 DEF Halted
<1> QED BY <1>1, <1>2

LEMMA UpdateHalted ==
  ASSUME NEW k \in Halted
  PROVE  DoUpdate(k) \in Halted
  BY DEF DoUpdate, Halted

----------------------------------------------------------------------------
(* The two roots of a space                                                *)

\* What the flush leaves is the last update of each entry.
FlushedUp(m, k, n) ==
    \A t \in Frames, i \in Index :
        /\ (\A j \in 1 .. n : k.queue[j].ptr # <<t, i>>) => m[t][i] = k.mem[t][i]
        /\ \A j \in 1 .. n :
              k.queue[j].ptr = <<t, i>> /\ (\A h \in 1 .. n : h > j => k.queue[h].ptr # <<t, i>>)
              => m[t][i] = k.queue[j].val

LEMMA FlushedFinal ==
  ASSUME NEW k \in KSet, NEW F, Flushes(F, k)
  PROVE  F[Len(k.queue)] \in Halted \/ FlushedUp(F[Len(k.queue)].mem, k, Len(k.queue))
<1> DEFINE N == Len(k.queue)
           T == {n \in Nat : n <= N => F[n] \in Halted \/ FlushedUp(F[n].mem, k, n)}
<1>1. N \in Nat
  BY LenNat
<1>2. 0 \in T
  BY DEF Flushes, FlushedUp
<1>3. ASSUME NEW n \in Nat, n \in T
      PROVE  n + 1 \in T
  <2>1. SUFFICES ASSUME n + 1 <= N
                 PROVE  F[n + 1] \in Halted \/ FlushedUp(F[n + 1].mem, k, n + 1)
    OBVIOUS
  <2> DEFINE x == F[n]
             u == k.queue[n + 1]
             y == F[n + 1]
             s == u.ptr[1]
             o == u.ptr[2]
  <2>2. n + 1 \in 1 .. N /\ (n + 1) - 1 = n /\ n <= N
    BY <1>1, <2>1
  <2>3. x \in KSet /\ y = Apply(x, u)
    BY <2>2 DEF Flushes
  <2>4. s \in Frames /\ o \in Index /\ u.val \in Content /\ u.ptr = <<s, o>>
    BY <2>2, QueueTyped
  <2>5. x \in Halted \/ FlushedUp(x.mem, k, n)
    BY <1>3, <2>2
  <2> HIDE DEF x, y, s, o, T, N
  <2>6. CASE x \in Halted
    <3>1. y \in Halted
      BY <2>3, <2>4, <2>6, ApplyTyped DEF Halted
    <3> QED BY <3>1 DEF y
  <2>7. CASE x \notin Halted
    <3>1. y \in Halted \/ y.mem = Put(x.mem, s, o, u.val)
      <4>1. x.mem \in Memory
        BY <2>3, KTyped
      <4>2. Put(x.mem, s, o, u.val) \in Memory
        BY <2>4, <4>1, PutTyped
      <4>3. Apply(x, u) = Checked(x, Put(x.mem, s, o, u.val))
        BY <2>4 DEF Apply, Put
      <4> QED BY <2>3, <4>2, <4>3, WithMem, WithTyped DEF Checked
    <3>2. CASE y.mem = Put(x.mem, s, o, u.val)
      <4>1. x.mem \in Memory
        BY <2>3, KTyped
      <4>2. /\ y.mem[s][o] = u.val
            /\ \A t \in Frames, i \in Index : t # s \/ i # o => y.mem[t][i] = x.mem[t][i]
        BY <2>4, <3>2, <4>1, PutTyped
      <4>3. FlushedUp(x.mem, k, n)
        BY <2>5, <2>7
      <4>4. ASSUME NEW t \in Frames, NEW i \in Index
            PROVE  /\ (\A j \in 1 .. n + 1 : k.queue[j].ptr # <<t, i>>) => y.mem[t][i] = k.mem[t][i]
                   /\ \A j \in 1 .. n + 1 :
                         k.queue[j].ptr = <<t, i>> /\ (\A h \in 1 .. n + 1 : h > j => k.queue[h].ptr # <<t, i>>)
                         => y.mem[t][i] = k.queue[j].val
        <5>1. CASE t = s /\ i = o
          <6>1. u.ptr = <<t, i>> /\ y.mem[t][i] = u.val
            BY <2>4, <4>2, <5>1
          <6>2. \A j \in 1 .. n + 1 : n + 1 > j \/ j = n + 1
            OBVIOUS
          <6>3. n + 1 \in 1 .. n + 1
            OBVIOUS
          <6> QED BY <6>1, <6>2, <6>3
        <5>2. CASE t # s \/ i # o
          <6>1. y.mem[t][i] = x.mem[t][i] /\ u.ptr # <<t, i>>
            BY <2>4, <4>2, <5>2
          <6>2. \A j \in 1 .. n + 1 : j \in 1 .. n \/ j = n + 1
            OBVIOUS
          <6>3. \A j \in 1 .. n : j \in 1 .. n + 1
            OBVIOUS
          <6>4. /\ (\A j \in 1 .. n : k.queue[j].ptr # <<t, i>>) => x.mem[t][i] = k.mem[t][i]
                /\ \A j \in 1 .. n :
                      k.queue[j].ptr = <<t, i>> /\ (\A h \in 1 .. n : h > j => k.queue[h].ptr # <<t, i>>)
                      => x.mem[t][i] = k.queue[j].val
            BY <4>3 DEF FlushedUp
          <6> QED BY <6>1, <6>2, <6>3, <6>4
        <5> QED BY <5>1, <5>2
      <4> HIDE DEF u
      <4>5. FlushedUp(y.mem, k, n + 1)
        BY <4>4 DEF FlushedUp
      <4> QED BY <4>5 DEF y
    <3> QED BY <3>1, <3>2 DEF y
  <2> QED BY <2>6, <2>7
<1> HIDE DEF T
<1>4. N \in T
  BY <1>1, <1>2, <1>3, Induction
<1> QED BY <1>1, <1>4 DEF T

LEMMA UpdateFinal ==
  ASSUME NEW k \in KSet, NEW t \in Frames, NEW i \in Index, NEW v, Final(k, t, i, v)
  PROVE  DoUpdate(k) \in Halted \/ Final(DoUpdate(k), t, i, v)
<1>1. CASE k.bug \/ k.queue = <<>>
  BY <1>1 DEF DoUpdate
<1>2. CASE ~(k.bug \/ k.queue = <<>>)
  <2>1. PICK F : Flushes(F, k)
    BY <1>2, Applied
  <2> DEFINE x == F[Len(k.queue)]
             y == DoUpdate(k)
  <2>2. x \in KSet /\ y = PageTableLoad([x EXCEPT !.queue = <<>>])
    BY <2>1 DEF Flushes
  <2>3. x \in Halted \/ FlushedUp(x.mem, k, Len(k.queue))
    BY <2>1, FlushedFinal
  <2> HIDE DEF x, y
  <2>4. CASE x \in Halted
    BY <2>2, <2>4, LoadHalted DEF y
  <2>5. CASE x \notin Halted
    <3>1. y.mem = x.mem /\ y.queue = <<>>
      BY <2>2 DEF PageTableLoad, KSet
    <3>2. x.mem[t][i] = v
      BY <2>3, <2>5 DEF FlushedUp, Final
    <3>3. Final(y, t, i, v)
      BY <3>1, <3>2 DEF Final
    <3> QED BY <3>3 DEF y
  <2> QED BY <2>4, <2>5
<1> QED BY <1>1, <1>2

LEMMA RootFrames ==
  ASSUME NEW c, CtxOK(c), NEW r \in c.roots
  PROVE  /\ r \in Frames /\ UserRoot(r) \in Frames /\ r # UserRoot(r)
         /\ c.lev[r] = 4 /\ c.own[r] = r /\ c.lev[UserRoot(r)] = 4 /\ c.own[UserRoot(r)] = r
         /\ \A i \in 0 .. PtUserEntries - 1 : i \in Index /\ i < PtUserEntries
<1>1. r \in Frames /\ UserRoot(r) \in Frames /\ r \in c.roots /\ UserRoot(r) \notin c.roots
  BY CtxTyped DEF CtxOK, CtxSpaces
<1>2. \A i \in 0 .. PtUserEntries - 1 : i \in Index /\ i < PtUserEntries
  BY Sizes DEF Index
<1> QED BY <1>1, <1>2 DEF CtxOK, CtxSpaces

LEMMA UpdateMirror ==
  ASSUME NEW k \in KSet, NEW c, CtxOK(c), Mirror(k, c)
  PROVE  DoUpdate(k) \in Halted \/ Mirror(DoUpdate(k), c)
<1> DEFINE y == DoUpdate(k)
<1>1. \A t \in Frames, i \in Index : \A v : Final(k, t, i, v) => y \in Halted \/ Final(y, t, i, v)
  BY UpdateFinal
<1> HIDE DEF y
<1>2. ASSUME y \notin Halted, NEW r \in c.roots, NEW i \in 0 .. PtUserEntries - 1, Mirrored(k, r, i)
      PROVE  Mirrored(y, r, i)
  <2>1. r \in Frames /\ UserRoot(r) \in Frames /\ i \in Index
    BY RootFrames
  <2> QED BY <1>1, <1>2, <2>1 DEF Mirrored
<1>3. y \in Halted \/ Mirror(y, c)
  BY <1>2 DEF Mirror
<1> QED BY <1>3 DEF y

\* One entry changes.
Queued(x, k, t, i, val) ==
    /\ Final(x, t, i, val)
    /\ \A s \in Frames, j \in Index : \A v :
          (s # t \/ j # i) /\ Final(k, s, j, v) => Final(x, s, j, v)

LEMMA QueuedMirror ==
  ASSUME NEW k, NEW c, CtxOK(c), Mirror(k, c), NEW t, NEW i, Exempt(c, t, i), NEW val,
         NEW x, Queued(x, k, t, i, val)
  PROVE  Mirror(x, c)
<1>1. SUFFICES ASSUME NEW r \in c.roots, NEW j \in 0 .. PtUserEntries - 1,
                      r # c.dying, <<r, j>> \notin c.stale
               PROVE  Mirrored(x, r, j)
  BY DEF Mirror
<1> DEFINE u == UserRoot(r)
<1>2. /\ r \in Frames /\ u \in Frames /\ j \in Index /\ j < PtUserEntries
      /\ c.lev[r] = 4 /\ c.own[r] = r /\ c.lev[u] = 4 /\ c.own[u] = r
  BY RootFrames
<1> HIDE DEF u
<1>3. r # t \/ j # i
  BY <1>1, <1>2 DEF Exempt
<1>4. u # t \/ j # i
  BY <1>1, <1>2 DEF Exempt
<1>5. PICK v : Final(k, r, j, v) /\ Final(k, u, j, v)
  BY <1>1 DEF Mirror, Mirrored, u
<1> QED BY <1>2, <1>3, <1>4, <1>5 DEF Mirrored, Queued, u

\* The same entries, and updates.
SameRoots(m, n, c) ==
    \A r \in c.roots, i \in 0 .. PtUserEntries - 1 :
        r # c.dying /\ <<r, i>> \notin c.stale
        => n[r][i] = m[r][i] /\ n[UserRoot(r)][i] = m[UserRoot(r)][i]

LEMMA RootsMirror ==
  ASSUME NEW k, NEW c, Mirror(k, c), NEW x, x.queue = k.queue, SameRoots(k.mem, x.mem, c)
  PROVE  Mirror(x, c)
<1>1. SUFFICES ASSUME NEW r \in c.roots, NEW i \in 0 .. PtUserEntries - 1,
                      r # c.dying, <<r, i>> \notin c.stale
               PROVE  Mirrored(x, r, i)
  BY DEF Mirror
<1>2. x.mem[r][i] = k.mem[r][i] /\ x.mem[UserRoot(r)][i] = k.mem[UserRoot(r)][i]
  BY <1>1 DEF SameRoots
<1>3. PICK v : Final(k, r, i, v) /\ Final(k, UserRoot(r), i, v)
  BY <1>1 DEF Mirror, Mirrored
<1>4. Final(x, r, i, v) /\ Final(x, UserRoot(r), i, v)
  BY <1>2, <1>3 DEF Final
<1> QED BY <1>4 DEF Mirrored

LEMMA SameMirror ==
  ASSUME NEW k, NEW c, Mirror(k, c), NEW x, x.queue = k.queue, x.mem = k.mem
  PROVE  Mirror(x, c)
  BY RootsMirror DEF SameRoots

LEMMA PutRoots ==
  ASSUME NEW c, CtxOK(c), NEW m \in Memory, NEW t \in Frames, NEW i \in Index, NEW val \in Content,
         Exempt(c, t, i)
  PROVE  SameRoots(m, Put(m, t, i, val), c)
<1> DEFINE n == Put(m, t, i, val)
<1>1. \A u \in Frames, j \in Index : u # t \/ j # i => n[u][j] = m[u][j]
  BY PutTyped
<1> HIDE DEF n
<1>2. ASSUME NEW r \in c.roots, NEW j \in 0 .. PtUserEntries - 1, r # c.dying, <<r, j>> \notin c.stale
      PROVE  n[r][j] = m[r][j] /\ n[UserRoot(r)][j] = m[UserRoot(r)][j]
  <2> DEFINE u == UserRoot(r)
  <2>1. /\ r \in Frames /\ u \in Frames /\ j \in Index /\ j < PtUserEntries
        /\ c.lev[r] = 4 /\ c.own[r] = r /\ c.lev[u] = 4 /\ c.own[u] = r
    BY RootFrames
  <2> HIDE DEF u
  <2>2. (r # t \/ j # i) /\ (u # t \/ j # i)
    BY <1>2, <2>1 DEF Exempt
  <2>3. n[r][j] = m[r][j] /\ n[u][j] = m[u][j]
    BY <1>1, <2>1, <2>2
  <2> QED BY <2>3 DEF u
<1> QED BY <1>2 DEF SameRoots, n

LEMMA TablesRoots ==
  ASSUME NEW c, CtxOK(c), NEW m, NEW n, \A t \in Frames : Table(c, t) => n[t] = m[t]
  PROVE  SameRoots(m, n, c)
<1>1. \A r \in c.roots : n[r] = m[r] /\ n[UserRoot(r)] = m[UserRoot(r)]
  BY RootFrames DEF Table
<1> QED BY <1>1 DEF SameRoots

LEMMA KernelExempt ==
  ASSUME NEW c, CtxOK(c), NEW t \in Frames, t \in Kt(c) \/ t \in K1(c), NEW i
  PROVE  Exempt(c, t, i)
<1>1. t \in Kt(c)
  BY DEF Kt
<1> QED BY <1>1 DEF CtxOK, CtxSpaces, Exempt

LEMMA UpdateOK ==
  ASSUME NEW k, NEW c, Good(k, c)
  PROVE  \/ DoUpdate(k) \in Halted
         \/ /\ Good(DoUpdate(k), c) /\ DoUpdate(k).queue = <<>> /\ Elsewhere(DoUpdate(k), k)
            /\ \A t \in Frames : \/ \E j \in 1 .. Len(k.queue) : k.queue[j].ptr[1] = t
                                 \/ DoUpdate(k).mem[t] = k.mem[t]
<1>1. Core(k, c) /\ k \in KSet /\ Len(k.queue) \in Nat
  BY LenNat DEF Good, Core
<1>2. CASE k.bug
  BY <1>1, <1>2 DEF DoUpdate, Halted
<1>3. CASE ~k.bug /\ k.queue = <<>>
  BY <1>3 DEF DoUpdate, Elsewhere
<1>4. CASE ~k.bug /\ k.queue # <<>>
  <2>1. PICK F : Flushes(F, k)
    BY <1>1, <1>4, Applied
  <2> DEFINE N == Len(k.queue)
             x == F[N]
             y == DoUpdate(k)
  <2>2. /\ Steadily(x, k, c)
        /\ \A t \in Frames : x \in Halted \/ (\E j \in 1 .. N : k.queue[j].ptr[1] = t) \/ x.mem[t] = k.mem[t]
    <3>1. N <= N /\ N \in Nat
      BY <1>1
    <3>2. \A j \in 1 .. N : Allowed(c, k.queue[j].ptr[1], k.queue[j].ptr[2], k.queue[j].val)
      BY DEF Good, GoodQueue
    <3> HIDE DEF N
    <3>3. N <= Len(k.queue)
      BY <3>1 DEF N
    <3> QED BY <1>1, <2>1, <3>1, <3>2, <3>3, Flushed
  <2>3. y = PageTableLoad([x EXCEPT !.queue = <<>>])
    BY <2>1 DEF Flushes
  <2> HIDE DEF N, x, y
  <2>4. CASE x \in Halted
    BY <2>3, <2>4, LoadHalted DEF y
  <2>5. CASE x \notin Halted
    <3>1. Core(x, c) /\ Elsewhere(x, k)
      BY <2>2, <2>5 DEF Steadily
    <3>2. /\ Core(y, c) /\ GoodQueue(y, c) /\ TlbOK(y)
          /\ y.queue = <<>> /\ y.mem = x.mem /\ Elsewhere(y, x)
      BY <2>3, <3>1, Loaded
    <3>3. Elsewhere(y, k)
      BY <3>1, <3>2 DEF Elsewhere
    <3>4. y \in Halted \/ Mirror(y, c)
      BY <1>1, UpdateMirror DEF y, Good, Core
    <3>5. y \in Halted \/ Good(y, c)
      BY <3>2, <3>4 DEF Good
    <3> QED BY <2>2, <2>5, <3>2, <3>3, <3>5 DEF N, y
  <2> QED BY <2>4, <2>5
<1> QED BY <1>2, <1>3, <1>4

LEMMA UserPage ==
  ASSUME NEW p \in UserPages
  PROVE  p \in Nat /\ p < UserEnd
<1> DEFINE e == UserEnd
<1>1. UserPages \subseteq 0 .. (e - 1) /\ e \in Nat
  BY BoundsAssumption, Sizes
<1> HIDE DEF e
<1>2. p \in Nat /\ p < e
  BY <1>1
<1> QED BY <1>2 DEF e

LEMMA DeferredHalted ==
  ASSUME NEW k \in KSet, NEW ptr, NEW val, k.bug \/ ptr = <<>>
  PROVE  DeferredUpdate(k, ptr, val) \in Halted
  BY WithTyped DEF DeferredUpdate

\* All that is queued is for entries of the kernel's level 1 tables.
KernelOnly(k, c) == \A j \in 1 .. Len(k.queue) : k.queue[j].ptr[1] \in K1(c)

\* The call goes on, without a change of other tables if only the kernel's are changed.
Goes(x, k, c) ==
    \/ x \in Halted
    \/ /\ Good(x, c) /\ Elsewhere(x, k)
       /\ KernelOnly(k, c) => KernelOnly(x, c) /\ \A t \in Frames \ K1(c) : x.mem[t] = k.mem[t]

LEMMA RoomOK ==
  ASSUME NEW k, NEW c, Good(k, c)
  PROVE  Goes(Room(k), k, c)
<1>1. CASE Room(k) = k
  BY <1>1 DEF Goes, Elsewhere
<1>2. CASE Room(k) = DoUpdate(k)
  <2>1. CASE DoUpdate(k) \in Halted
    BY <1>2, <2>1 DEF Goes
  <2>2. CASE DoUpdate(k) \notin Halted
    <3> DEFINE y == DoUpdate(k)
    <3>1. /\ Good(y, c) /\ y.queue = <<>> /\ Elsewhere(y, k)
          /\ \A t \in Frames : (\E j \in 1 .. Len(k.queue) : k.queue[j].ptr[1] = t) \/ y.mem[t] = k.mem[t]
      BY <2>2, UpdateOK
    <3> HIDE DEF y
    <3>2. KernelOnly(y, c)
      BY <3>1 DEF KernelOnly
    <3>3. KernelOnly(k, c) => \A t \in Frames \ K1(c) : y.mem[t] = k.mem[t]
      BY <3>1 DEF KernelOnly
    <3>4. Goes(y, k, c)
      BY <3>1, <3>2, <3>3 DEF Goes
    <3> QED BY <1>2, <3>4 DEF y
  <2> QED BY <2>1, <2>2
<1> QED BY <1>1, <1>2 DEF Room

LEMMA AppendQueue ==
  ASSUME NEW q \in Seq(Update), NEW u \in Update
  PROVE  /\ Append(q, u) \in Seq(Update) /\ Len(Append(q, u)) = Len(q) + 1
         /\ Len(q) \in Nat
         /\ \A j \in 1 .. Len(q) : Append(q, u)[j] = q[j]
         /\ Append(q, u)[Len(q) + 1] = u
  OBVIOUS

LEMMA AppendFinal ==
  ASSUME NEW k \in KSet, NEW t \in Frames, NEW i \in Index, NEW u \in Update, u.ptr = <<t, i>>,
         NEW x, x.mem = k.mem, x.queue = Append(k.queue, u)
  PROVE  Queued(x, k, t, i, u.val)
<1> DEFINE q == k.queue
           p == x.queue
           N == Len(q)
<1>1. /\ N \in Nat /\ Len(p) = N + 1 /\ \A j \in 1 .. N : p[j] = q[j]
      /\ p[N + 1] = u
  BY KTyped, AppendQueue
<1>2. /\ \A j \in 1 .. N + 1 : j \in 1 .. N \/ j = N + 1
      /\ \A j \in 1 .. N : j \in 1 .. N + 1
      /\ N + 1 \in 1 .. N + 1 /\ \A h \in 1 .. N + 1 : ~(h > N + 1)
  BY <1>1
<1> HIDE DEF N, q, p
<1>3. Final(x, t, i, u.val)
  BY <1>1, <1>2 DEF Final, p
<1>4. ASSUME NEW s \in Frames, NEW j \in Index, NEW v, s # t \/ j # i, Final(k, s, j, v)
      PROVE  Final(x, s, j, v)
  <2>1. u.ptr # <<s, j>>
    BY <1>4
  <2>2. CASE v = k.mem[s][j] /\ \A h \in 1 .. N : q[h].ptr # <<s, j>>
    <3>1. \A h \in 1 .. N + 1 : p[h].ptr # <<s, j>>
      BY <1>1, <1>2, <2>1, <2>2
    <3> QED BY <1>1, <2>2, <3>1 DEF Final, p
  <2>3. CASE \E h \in 1 .. N : /\ q[h].ptr = <<s, j>> /\ q[h].val = v
                               /\ \A g \in 1 .. N : g > h => q[g].ptr # <<s, j>>
    <3>1. PICK h \in 1 .. N : /\ q[h].ptr = <<s, j>> /\ q[h].val = v
                              /\ \A g \in 1 .. N : g > h => q[g].ptr # <<s, j>>
      BY <2>3
    <3>2. h \in 1 .. N + 1 /\ p[h].ptr = <<s, j>> /\ p[h].val = v
      BY <1>1, <1>2, <3>1
    <3>3. \A g \in 1 .. N + 1 : g > h => p[g].ptr # <<s, j>>
      BY <1>1, <1>2, <2>1, <3>1
    <3> QED BY <1>1, <3>2, <3>3 DEF Final, p
  <2> QED BY <1>4, <2>2, <2>3 DEF Final, q, N
<1> QED BY <1>3, <1>4 DEF Queued

LEMMA AppendOK ==
  ASSUME NEW k, NEW c, Good(k, c), NEW t \in Frames, NEW i \in Index, NEW val \in Content,
         Allowed(c, t, i, val), Exempt(c, t, i)
  PROVE  /\ Good([k EXCEPT !.queue = Append(@, [ptr |-> <<t, i>>, val |-> val])], c)
         /\ Elsewhere([k EXCEPT !.queue = Append(@, [ptr |-> <<t, i>>, val |-> val])], k)
         /\ [k EXCEPT !.queue = Append(@, [ptr |-> <<t, i>>, val |-> val])].mem = k.mem
         /\ KernelOnly(k, c) /\ t \in K1(c) =>
               KernelOnly([k EXCEPT !.queue = Append(@, [ptr |-> <<t, i>>, val |-> val])], c)
<1> DEFINE u == [ptr |-> <<t, i>>, val |-> val]
           q == Append(k.queue, u)
           x == [k EXCEPT !.queue = q]
<1>1. k \in KSet /\ k.queue \in Seq(Update)
  BY KTyped DEF Good, Core
<1>2. u \in Update /\ u.ptr = <<t, i>> /\ u.val = val
  BY DEF Update
<1>3. x = [k EXCEPT !.queue = Append(@, [ptr |-> <<t, i>>, val |-> val])]
  OBVIOUS
<1> HIDE DEF u
<1>4. /\ q \in Seq(Update) /\ Len(q) = Len(k.queue) + 1 /\ Len(k.queue) \in Nat
      /\ \A j \in 1 .. Len(k.queue) : q[j] = k.queue[j]
      /\ q[Len(k.queue) + 1] = u
  BY <1>1, <1>2, AppendQueue
<1> HIDE DEF q
<1>5. x \in KSet /\ x.mem = k.mem /\ x.queue = q /\ x.tlb = k.tlb /\ Elsewhere(x, k)
  BY <1>1, <1>4, WithQueue
<1> HIDE DEF x
<1>6. Core(x, c)
  <2>1. Tops(x) = Tops(k) /\ Allocator(x, c)
    BY <1>5, TopsSame, AllocatorSame DEF Good, Core
  <2> QED BY <1>5, <2>1 DEF Good, Core, Elsewhere
<1>7. \A j \in 1 .. Len(q) : j \in 1 .. Len(k.queue) \/ j = Len(k.queue) + 1
  BY <1>4
<1>8. GoodQueue(x, c)
  <2>1. SUFFICES ASSUME NEW j \in 1 .. Len(q)
                 PROVE  Allowed(c, q[j].ptr[1], q[j].ptr[2], q[j].val)
    BY <1>5 DEF GoodQueue
  <2>2. CASE j \in 1 .. Len(k.queue)
    BY <1>4, <2>2 DEF Good, GoodQueue
  <2>3. CASE j = Len(k.queue) + 1
    BY <1>2, <1>4, <2>3
  <2> QED BY <1>7, <2>2, <2>3
<1>9. TlbOK(x)
  BY <1>5 DEF Good, TlbOK, Elsewhere
<1>10. ASSUME KernelOnly(k, c), t \in K1(c)
       PROVE  KernelOnly(x, c)
  <2>1. SUFFICES ASSUME NEW j \in 1 .. Len(q) PROVE q[j].ptr[1] \in K1(c)
    BY <1>5 DEF KernelOnly
  <2>2. CASE j \in 1 .. Len(k.queue)
    BY <1>4, <1>10, <2>2 DEF KernelOnly
  <2>3. CASE j = Len(k.queue) + 1
    BY <1>2, <1>4, <1>10, <2>3
  <2> QED BY <1>7, <2>2, <2>3
<1>11. Mirror(x, c)
  <2>1. Queued(x, k, t, i, val)
    BY <1>1, <1>2, <1>5, AppendFinal DEF q
  <2> QED BY <2>1, QueuedMirror DEF Good, Core
<1> QED BY <1>3, <1>5, <1>6, <1>8, <1>9, <1>10, <1>11 DEF Good

\* An update is queued; the queue is flushed before if it is full.
LEMMA DeferredOK ==
  ASSUME NEW k, NEW c, Good(k, c), NEW t \in Frames, NEW i \in Index, NEW val \in Content,
         Allowed(c, t, i, val), Exempt(c, t, i)
  PROVE  /\ Kept(DeferredUpdate(k, <<t, i>>, val), c)
         /\ t \in K1(c) => Goes(DeferredUpdate(k, <<t, i>>, val), k, c)
         /\ DeferredUpdate(k, <<t, i>>, val) \in Halted \/ Elsewhere(DeferredUpdate(k, <<t, i>>, val), k)
<1> DEFINE r == Room(k)
           x == [r EXCEPT !.queue = Append(@, [ptr |-> <<t, i>>, val |-> val])]
           y == DeferredUpdate(k, <<t, i>>, val)
<1>1. k \in KSet
  BY DEF Good, Core
<1>2. CASE k.bug
  BY <1>1, <1>2, DeferredHalted DEF Kept, Goes
<1>3. CASE ~k.bug
  <2>1. y = x
    BY <1>3 DEF DeferredUpdate
  <2>2. Goes(r, k, c)
    BY RoomOK
  <2> HIDE DEF r
  <2>3. CASE r \in Halted
    <3>1. r \in KSet /\ r.bug /\ r.queue \in Seq(Update)
      BY <2>3, KTyped DEF Halted
    <3> DEFINE u == [ptr |-> <<t, i>>, val |-> val]
               q == Append(r.queue, u)
    <3>2. u \in Update
      BY DEF Update
    <3>3. x = [r EXCEPT !.queue = q]
      OBVIOUS
    <3> HIDE DEF u, x
    <3>4. q \in Seq(Update)
      BY <3>1, <3>2
    <3> HIDE DEF q
    <3>5. x \in KSet /\ Elsewhere(x, r)
      BY <3>1, <3>3, <3>4, WithQueue
    <3>6. x \in Halted
      BY <3>1, <3>5 DEF Halted, Elsewhere
    <3> QED BY <2>1, <3>6 DEF Kept, Goes
  <2>4. CASE r \notin Halted
    <3>1. Good(r, c) /\ Elsewhere(r, k)
      BY <2>2, <2>4 DEF Goes
    <3>2. Good(x, c) /\ Elsewhere(x, r) /\ x.mem = r.mem /\ (KernelOnly(r, c) /\ t \in K1(c) => KernelOnly(x, c))
      BY <3>1, AppendOK
    <3> HIDE DEF x, y
    <3>3. Elsewhere(x, k)
      BY <3>1, <3>2 DEF Elsewhere
    <3>4. t \in K1(c) => Goes(x, k, c)
      BY <2>2, <2>4, <3>2, <3>3 DEF Goes
    <3> QED BY <2>1, <3>2, <3>3, <3>4 DEF Kept, y
  <2> QED BY <2>3, <2>4
<1> QED BY <1>2, <1>3

LEMMA InvalidateOK ==
  ASSUME NEW k, NEW c, Kept(k, c), NEW page
  PROVE  Kept(Invalidate(k, page), c) /\ Invalidate(k, page).queue = k.queue
<1>1. k \in KSet
  BY DEF Kept, Good, Core, Halted
<1> DEFINE x == [k EXCEPT !.tlb = NoTlb]
<1>2. x \in KSet /\ x.mem = k.mem /\ x.queue = k.queue /\ x.tlb = NoTlb /\ Elsewhere(x, k)
  BY <1>1, NoTlbTyped, WithTlb
<1> HIDE DEF x
<1>3. Kept(x, c)
  <2>1. CASE k \in Halted
    BY <1>2, <2>1 DEF Kept, Halted, Elsewhere
  <2>2. CASE k \notin Halted
    <3>1. Good(k, c)
      BY <2>2 DEF Kept
    <3>2. Tops(x) = Tops(k) /\ Allocator(x, c)
      BY <1>2, <3>1, TopsSame, AllocatorSame DEF Good, Core
    <3>3. Core(x, c)
      BY <1>2, <3>1, <3>2 DEF Good, Core, Elsewhere
    <3>4. GoodQueue(x, c)
      BY <1>2, <3>1 DEF Good, GoodQueue
    <3>5. TlbOK(x)
      BY <1>2, NoTlbTyped DEF TlbOK
    <3>6. Mirror(x, c)
      BY <1>2, <3>1, SameMirror DEF Good
    <3> QED BY <3>3, <3>4, <3>5, <3>6 DEF Kept, Good
  <2> QED BY <2>1, <2>2
<1>4. Invalidate(k, page) = k \/ Invalidate(k, page) = x
  BY DEF Invalidate, x
<1> QED BY <1>2, <1>3, <1>4

\* Stores to tables that are not in use change nothing for the hypervisor.
LEMMA MemOK ==
  ASSUME NEW k, NEW c, Good(k, c), NEW n \in Memory, Struct(n, c),
         Same(k.mem, n, InUse(k.mem, Tops(k))), SameRoots(k.mem, n, c)
  PROVE  /\ Good([k EXCEPT !.mem = n], c) /\ [k EXCEPT !.mem = n].mem = n
         /\ [k EXCEPT !.mem = n].queue = k.queue /\ Elsewhere([k EXCEPT !.mem = n], k)
<1> DEFINE x == [k EXCEPT !.mem = n]
<1>1. k \in KSet /\ Core(k, c) /\ k.mem \in Memory
  BY KTyped DEF Good, Core
<1>2. x \in KSet /\ x.mem = n /\ x.queue = k.queue /\ x.tlb = k.tlb /\ Elsewhere(x, k)
  BY <1>1, WithMem
<1> HIDE DEF x
<1>3. Tops(x) = Tops(k) /\ Allocator(x, c)
  BY <1>1, <1>2, TopsSame, AllocatorSame DEF Core
<1>4. Accepts(n, Tops(k)) = Accepts(k.mem, Tops(k))
  BY InUseSame
<1>5. Core(x, c)
  BY <1>1, <1>2, <1>3, <1>4 DEF Core, Elsewhere
<1>6. GoodQueue(x, c)
  BY <1>2 DEF Good, GoodQueue
<1>7. TlbOK(x)
  <2>1. SUFFICES ASSUME k.tlb.page # None
                 PROVE  EntryAt(n, PteGetPtr(n, k.loaded, k.tlb.page)) = k.tlb.pte
    BY <1>2 DEF TlbOK, Elsewhere
  <2>2. k.loaded # None
    BY <1>1, <2>1, NoTlbTyped DEF Core
  <2> DEFINE pt == k.loaded
             page == k.tlb.page
             m == k.mem
             tops == Tops(k)
  <2>3. pt \in tops /\ pt \in Frames
    BY <1>1, <2>2, TopsKnown
  <2>4. page \in Nat
    <3>1. page \in UserPages
      BY <1>1, <2>1, KTyped DEF Cache
    <3> QED BY <3>1, UserPage
  <2>5. EntryAt(m, PteGetPtr(m, pt, page)) = k.tlb.pte
    BY <2>1 DEF Good, TlbOK
  <2>6. Same(m, n, InUse(m, tops)) /\ m \in Memory
    BY <1>1
  <2> HIDE DEF pt, page, m, tops
  <2>7. /\ PteGetPtr(n, pt, page) = PteGetPtr(m, pt, page)
        /\ EntryAt(n, PteGetPtr(m, pt, page)) = EntryAt(m, PteGetPtr(m, pt, page))
    BY <2>3, <2>4, <2>6, WalkSame
  <2> QED BY <2>5, <2>7 DEF pt, page
<1>8. Mirror(x, c)
  BY <1>2, RootsMirror DEF Good
<1> QED BY <1>2, <1>5, <1>6, <1>7, <1>8 DEF Good, x

LEMMA MinIn ==
  ASSUME NEW S, S \subseteq Nat, S # {}
  PROVE  Min(S) \in S /\ \A y \in S : Min(S) <= y
<1>1. \E n \in S : \A m \in S : n <= m
  BY Least
<1> QED BY <1>1 DEF Min

LEMMA MaxIn ==
  ASSUME NEW n \in Nat, NEW S, S \subseteq 0 .. n, S # {}
  PROVE  Max(S) \in S /\ \A y \in S : Max(S) >= y
<1> DEFINE T == {n - x : x \in S}
<1>1. T \subseteq Nat /\ T # {}
  OBVIOUS
<1>2. PICK y \in T : \A z \in T : y <= z
  BY <1>1, Least
<1>3. PICK x \in S : y = n - x
  BY <1>2
<1>4. \A z \in S : y <= n - z
  BY <1>2
<1>5. \A z \in S : x >= z
  BY <1>3, <1>4
<1>6. \E w \in S : \A z \in S : w >= z
  BY <1>5
<1> QED BY <1>6 DEF Max

LEMMA UnusedFrame ==
  ASSUME NEW k \in KSet, k.unused # {}
  PROVE  NextFrame(k) \in k.unused /\ UserFrame(k) \in k.unused /\ k.unused \subseteq Frames
<1>1. k.unused \subseteq Frames
  BY KTyped
<1> DEFINE n == NrPages - 1
<1>2. n \in Nat /\ Frames = 0 .. n
  <2>1. 0 \in Frames /\ NrPages \in Nat
    BY Bases, Sizes
  <2> QED BY <2>1 DEF Frames
<1> HIDE DEF n
<1>3. k.unused \subseteq Nat /\ k.unused \subseteq 0 .. n
  BY <1>1, <1>2
<1> QED BY <1>1, <1>2, <1>3, MinIn, MaxIn DEF NextFrame, UserFrame

----------------------------------------------------------------------------
(* Stores, and frames that are taken and given back                        *)

LEMMA StoreHalted ==
  ASSUME NEW k \in KSet, NEW ptr, NEW val, k.bug \/ ptr = <<>>
  PROVE  Store(k, ptr, val) \in Halted
  BY WithTyped DEF Store

LEMMA StoreOK ==
  ASSUME NEW k, NEW c, Good(k, c), NEW t \in Frames, NEW i \in Index, NEW val \in Content,
         (Allowed(c, t, i, val) /\ Exempt(c, t, i)) \/ Loose(c, t)
  PROVE  \/ Store(k, <<t, i>>, val) \in Halted
         \/ /\ Good(Store(k, <<t, i>>, val), c)
            /\ Store(k, <<t, i>>, val).mem = Put(k.mem, t, i, val)
            /\ Store(k, <<t, i>>, val).queue = k.queue
            /\ Elsewhere(Store(k, <<t, i>>, val), k)
<1> DEFINE y == Store(k, <<t, i>>, val)
           n == Put(k.mem, t, i, val)
<1>1. k \in KSet /\ Core(k, c) /\ CtxOK(c) /\ k.mem \in Memory /\ Struct(k.mem, c)
  BY KTyped DEF Good, Core
<1>2. CASE k.bug
  BY <1>1, <1>2, StoreHalted
<1>3. CASE ~k.bug /\ KernelPte(k.mem, t).perm # "rw"
  BY <1>1, <1>3, WithTyped DEF Store
<1>4. CASE ~k.bug /\ KernelPte(k.mem, t).perm = "rw"
  <2>1. y = [k EXCEPT !.mem = n]
    BY <1>4 DEF Store, Put
  <2>2. t \notin InUse(k.mem, Tops(k))
    <3> DEFINE tops == Tops(k)
               m == k.mem
    <3>1. PtBase \in tops /\ Accepts(m, tops) /\ m \in Memory /\ Struct(m, c) /\ KernelPte(m, t).perm = "rw"
      BY <1>1, <1>4, TopsKnown DEF Core
    <3> HIDE DEF tops, m
    <3>2. t \notin InUse(m, tops)
      BY <1>1, <3>1, Protected
    <3> QED BY <3>2 DEF tops, m
  <2>3. n \in Memory /\ Struct(n, c) /\ \A u \in Frames : u # t => n[u] = k.mem[u]
    BY <1>1, WriteOK, PutTyped
  <2>4. Same(k.mem, n, InUse(k.mem, Tops(k)))
    <3>1. InUse(k.mem, Tops(k)) \subseteq Frames
      <4> DEFINE m == k.mem
                 tops == Tops(k)
                 R == c.roots
      <4>1. tops \subseteq {PtBase} \cup Owned(c, R, 4) /\ m \in Memory /\ Struct(m, c)
        BY <1>1, TopsKnown
      <4> HIDE DEF m, tops, R
      <4>2. /\ Level3(m, tops) \subseteq {PtBase + 1} \cup Owned(c, R, 3)
            /\ Level2(m, tops) \subseteq K2(c) \cup Owned(c, R, 2)
            /\ Level1(m, tops) \subseteq K1(c) \cup Owned(c, R, 1)
        BY <1>1, <4>1, InUseKnown
      <4>3. InUse(m, tops) \subseteq Frames
        BY <1>1, <4>1, <4>2, Levels, Bases, CtxTyped DEF Owned
      <4> QED BY <4>3 DEF m, tops
    <3> QED BY <2>2, <2>3, <3>1 DEF Same
  <2>5. SameRoots(k.mem, n, c)
    <3>1. Exempt(c, t, i)
      BY DEF Exempt, Loose
    <3> QED BY <1>1, <3>1, PutRoots
  <2> HIDE DEF n, y
  <2>6. Good(y, c) /\ y.mem = n /\ y.queue = k.queue /\ Elsewhere(y, k)
    BY <2>1, <2>3, <2>4, <2>5, MemOK
  <2> QED BY <2>6 DEF n, y
<1> QED BY <1>2, <1>3, <1>4

LEMMA InUseTables ==
  ASSUME NEW k, NEW c, Core(k, c)
  PROVE  \A t \in InUse(k.mem, Tops(k)) : t \in Frames /\ Table(c, t)
<1> DEFINE m == k.mem
           tops == Tops(k)
           R == c.roots
<1>1. tops \subseteq {PtBase} \cup Owned(c, R, 4) /\ m \in Memory /\ Struct(m, c) /\ CtxOK(c)
  BY TopsKnown, KTyped DEF Core
<1> HIDE DEF m, tops, R
<1>2. /\ Level3(m, tops) \subseteq {PtBase + 1} \cup Owned(c, R, 3)
      /\ Level2(m, tops) \subseteq K2(c) \cup Owned(c, R, 2)
      /\ Level1(m, tops) \subseteq K1(c) \cup Owned(c, R, 1)
  BY <1>1, InUseKnown
<1>3. \A t \in InUse(m, tops) :
         \/ t \in Kt(c)
         \/ t \in Owned(c, R, 4) \cup Owned(c, R, 3) \cup Owned(c, R, 2) \cup Owned(c, R, 1)
  BY <1>1, <1>2, Levels DEF Kt
<1>4. \A t \in InUse(m, tops) : t \in Frames /\ Table(c, t)
  BY <1>1, <1>3, CtxTyped DEF Table, Owned
<1> QED BY <1>4 DEF m, tops

\* What is allocated is no table, and no table points to it.
LEMMA UnusedLoose ==
  ASSUME NEW k, NEW c, Core(k, c), c.dying = None, NEW f \in k.unused
  PROVE  f \in Frames /\ Loose(c, f) /\ k.count[f] = 0
<1>1. f \in Frames /\ Allocator(k, c) /\ CtxOK(c)
  BY KTyped DEF Core
<1>2. f \notin Kt(c) /\ k.count[f] = 0 /\ (c.lev[f] = 0 \/ c.own[f] = c.dying)
  BY <1>1 DEF Allocator
<1>3. c.lev[f] = 0
  BY <1>1, <1>2, CtxTyped, Bases DEF CtxOK, CtxSpaces
<1> QED BY <1>1, <1>2, <1>3 DEF Loose

LEMMA ClearedTyped == Cleared \in Tab /\ \A i \in Index : Cleared[i] = Free
  BY FreeEntry DEF Cleared, Tab, Index

\* A new table.
Taken(x, k, f) ==
    /\ x.mem = [k.mem EXCEPT ![f] = Cleared] /\ x.unused = k.unused \ {f} /\ x.count = k.count
    /\ x.queue = k.queue /\ x.noWrite = k.noWrite
    /\ f \in k.unused

LEMMA PtpAllocHalted ==
  ASSUME NEW k \in Halted
  PROVE  PtpAlloc(k) \in Halted
  BY WithTyped DEF PtpAlloc, Halted

LEMMA PtpAllocOK ==
  ASSUME NEW k, NEW c, Good(k, c), c.dying = None
  PROVE  \/ PtpAlloc(k) \in Halted
         \/ Good(PtpAlloc(k), c) /\ Taken(PtpAlloc(k), k, NextFrame(k))
<1> DEFINE f == NextFrame(k)
           n == [k.mem EXCEPT ![f] = Cleared]
           z == [k EXCEPT !.mem = n]
           y == [k EXCEPT !.unused = @ \ {f}, !.mem[f] = Cleared]
           x == PtpAlloc(k)
<1>1. k \in KSet /\ Core(k, c) /\ CtxOK(c) /\ k.mem \in Memory /\ Struct(k.mem, c)
  BY KTyped DEF Good, Core
<1>2. CASE k.bug \/ k.unused = {}
  BY <1>1, <1>2, WithTyped DEF PtpAlloc
<1>3. CASE ~(k.bug \/ k.unused = {})
  <2>1. f \in k.unused
    BY <1>1, <1>3, UnusedFrame
  <2>2. f \in Frames /\ Loose(c, f)
    BY <1>1, <2>1, UnusedLoose
  <2>3. x = TakeTable(k, f)
    BY <1>3 DEF PtpAlloc
  <2> HIDE DEF f
  <2>4. x = Stop(k) \/ x = y
    BY <2>3 DEF TakeTable
  <2>5. CASE x = Stop(k)
    BY <1>1, <2>5, WithTyped
  <2>6. CASE x = y
    <3>1. n \in Memory /\ \A u \in Frames : u # f => n[u] = k.mem[u]
      BY <1>1, <2>2, ClearedTyped DEF Memory
    <3>2. \A u \in Frames : Table(c, u) => n[u] = k.mem[u]
      BY <2>2, <3>1 DEF Table, Loose
    <3>3. Struct(n, c)
      BY <1>1, <3>1, <3>2, StructSame
    <3>4. Same(k.mem, n, InUse(k.mem, Tops(k)))
      BY <1>1, <3>2, InUseTables DEF Same
    <3>0. SameRoots(k.mem, n, c)
      BY <1>1, <3>2, TablesRoots
    <3>5. Good(z, c) /\ z.mem = n /\ z.queue = k.queue /\ Elsewhere(z, k)
      BY <3>0, <3>1, <3>3, <3>4, MemOK
    <3>6. y = [z EXCEPT !.unused = k.unused \ {f}]
      BY <1>1 DEF KSet
    <3> HIDE DEF z, n
    <3>7. z \in KSet
      BY <3>5 DEF Good, Core
    <3>8. /\ y \in KSet /\ y.mem = z.mem /\ y.queue = z.queue /\ y.tlb = z.tlb
          /\ y.unused = k.unused \ {f} /\ y.count = z.count /\ y.noWrite = z.noWrite /\ y.roots = z.roots
          /\ y.pinned = z.pinned /\ y.loaded = z.loaded
      BY <1>1, <3>6, <3>7 DEF KSet
    <3> HIDE DEF y
    <3>9. Good(y, c)
      <4>1. Allocator(y, c)
        BY <3>5, <3>8 DEF Good, Core, Allocator, Elsewhere
      <4>2. Tops(y) = Tops(z)
        BY <3>8 DEF Tops
      <4>3. Core(y, c)
        BY <3>5, <3>8, <4>1, <4>2 DEF Good, Core
      <4>4. Mirror(y, c)
        BY <3>5, <3>8, SameMirror DEF Good
      <4> QED BY <3>5, <3>8, <4>3, <4>4 DEF Good, GoodQueue, TlbOK
    <3>10. Taken(y, k, f)
      BY <2>1, <3>5, <3>8 DEF Taken, Elsewhere, n
    <3> QED BY <2>6, <3>9, <3>10 DEF f
  <2> QED BY <2>4, <2>5, <2>6
<1> QED BY <1>2, <1>3

----------------------------------------------------------------------------
(* New tables of an address space                                          *)

Ext(c, d) ==
    /\ CtxOK(d) /\ d.t2 = c.t2 /\ d.t1 = c.t1 /\ d.roots = c.roots /\ d.pinned = c.pinned
    /\ d.loaded = c.loaded /\ d.dying = c.dying /\ d.stale = c.stale
    /\ \A f \in Frames : c.lev[f] # 0 => d.lev[f] = c.lev[f] /\ d.own[f] = c.own[f]

LEMMA ExtKept ==
  ASSUME NEW c, CtxOK(c), NEW d, Ext(c, d)
  PROVE  /\ Kt(d) = Kt(c) /\ K1(d) = K1(c) /\ K2(d) = K2(c)
         /\ \A f : Loc(d, f) = Loc(c, f)
         /\ \A t, val : c.lev[t] \in 2 .. 4 /\ t \in Frames /\ Fits(c, t, val) => Fits(d, t, val)
         /\ \A t \in Frames : \A i, val : Allowed(c, t, i, val) => Allowed(d, t, i, val)
<1>1. Kt(d) = Kt(c) /\ K1(d) = K1(c) /\ K2(d) = K2(c)
  BY DEF Ext, Kt, K1, K2
<1>2. \A f : Loc(d, f) = Loc(c, f)
  BY DEF Ext, Loc
<1>3. ASSUME NEW t \in Frames, NEW val, c.lev[t] \in 2 .. 4, Fits(c, t, val)
      PROVE  Fits(d, t, val)
  <2>1. CASE val = Free
    BY <2>1 DEF Fits
  <2>2. CASE val # Free
    <3>1. val.frame \in Frames /\ c.lev[val.frame] = c.lev[t] - 1 /\ c.own[val.frame] = c.own[t]
      BY <1>3, <2>2 DEF Fits
    <3>2. c.lev[val.frame] # 0 /\ c.lev[t] # 0
      BY <1>3, <3>1
    <3> QED BY <3>1, <3>2 DEF Fits, Ext
  <2> QED BY <2>1, <2>2
<1>4. ASSUME NEW t \in Frames, NEW i, NEW val, Allowed(c, t, i, val)
      PROVE  Allowed(d, t, i, val)
  <2>1. CASE c.lev[t] = 1
    BY <2>1 DEF Ext, Allowed
  <2>2. CASE c.lev[t] \in 2 .. 4 /\ (c.lev[t] = 4 => i < PtUserEntries) /\ Fits(c, t, val)
    <3>1. d.lev[t] = c.lev[t]
      BY <2>2 DEF Ext
    <3> QED BY <1>3, <2>2, <3>1 DEF Allowed
  <2>3. CASE t \in c.roots /\ i = PtUserEntries /\ val = KernelEntry
    BY <2>3 DEF Ext, Allowed
  <2>4. CASE \E f \in Frames : Loc(c, f) = <<t, i>> /\ val \in KernPtes(f)
    BY <1>2, <2>4 DEF Allowed
  <2> QED BY <1>4, <2>1, <2>2, <2>3, <2>4 DEF Allowed
<1> QED BY <1>1, <1>2, <1>3, <1>4

\* Contexts with the same tables.
Agree(c, d) == d.t2 = c.t2 /\ d.t1 = c.t1 /\ d.roots = c.roots /\ d.lev = c.lev /\ d.own = c.own

LEMMA StructAgree ==
  ASSUME NEW c, NEW d, Agree(c, d), NEW m, Struct(m, c)
  PROVE  Struct(m, d)
<1>1. \A f : Loc(d, f) = Loc(c, f)
  BY DEF Agree, Loc
<1>2. \A t, v : Fits(d, t, v) = Fits(c, t, v)
  BY DEF Agree, Fits
<1>3. Shape(m, d)
  BY DEF Agree, Struct, Shape
<1>4. Kernel(m, d)
  BY <1>1 DEF Struct, Kernel
<1>5. Trees(m, d)
  <2>1. SUFFICES ASSUME NEW t \in Frames
                 PROVE  /\ d.lev[t] = 4 => Top(m, d, t)
                        /\ d.lev[t] = 3 => \A i \in I3 : Fits(d, t, m[t][i])
                        /\ d.lev[t] = 2 => \A i \in I2 : Fits(d, t, m[t][i])
    BY DEF Trees
  <2>2. d.lev[t] = c.lev[t] /\ d.roots = c.roots
    BY DEF Agree
  <2>3. c.lev[t] = 4 => Top(m, d, t)
    BY <1>2, <2>2 DEF Struct, Trees, Top
  <2>4. c.lev[t] = 3 => \A i \in I3 : Fits(d, t, m[t][i])
    BY <1>2 DEF Struct, Trees
  <2>5. c.lev[t] = 2 => \A i \in I2 : Fits(d, t, m[t][i])
    BY <1>2 DEF Struct, Trees
  <2> QED BY <2>2, <2>3, <2>4, <2>5
<1> QED BY <1>3, <1>4, <1>5 DEF Struct

LEMMA AllowedAgree ==
  ASSUME NEW c, NEW d, Agree(c, d), NEW t, NEW i, NEW val, Allowed(c, t, i, val)
  PROVE  Allowed(d, t, i, val)
<1>1. \A f : Loc(d, f) = Loc(c, f)
  BY DEF Agree, Loc
<1>2. \A u, v : Fits(d, u, v) = Fits(c, u, v)
  BY DEF Agree, Fits
<1>3. d.lev = c.lev /\ d.roots = c.roots
  BY DEF Agree
<1> QED BY <1>1, <1>2, <1>3 DEF Allowed

\* The same context, in which other entries are stale.
With(c, S) == [c EXCEPT !.stale = S]

LEMMA WithOK ==
  ASSUME NEW c, CtxOK(c), NEW S, S \subseteq Frames \X Index
  PROVE  /\ CtxOK(With(c, S)) /\ Agree(c, With(c, S)) /\ With(c, S).stale = S
         /\ With(c, S).pinned = c.pinned /\ With(c, S).loaded = c.loaded
         /\ With(c, S).dying = c.dying
<1> DEFINE d == With(c, S)
<1>1. c \in Ctx
  BY DEF CtxOK
<1>2. /\ d \in Ctx /\ d.t2 = c.t2 /\ d.t1 = c.t1 /\ d.roots = c.roots /\ d.lev = c.lev /\ d.own = c.own
      /\ d.pinned = c.pinned /\ d.loaded = c.loaded /\ d.dying = c.dying /\ d.stale = S
  BY <1>1 DEF With, Ctx
<1> HIDE DEF d
<1>3. Kt(d) = Kt(c) /\ K1(d) = K1(c) /\ K2(d) = K2(c)
  BY <1>2 DEF Kt, K1, K2
<1>4. CtxKernel(d)
  BY <1>2, <1>3 DEF CtxOK, CtxKernel
<1>5. CtxSpaces(d)
  BY <1>2, <1>3 DEF CtxOK, CtxSpaces
<1> QED BY <1>2, <1>4, <1>5 DEF CtxOK, Agree, d

LEMMA WithAgain ==
  ASSUME NEW c, CtxOK(c), NEW S, NEW T, S \subseteq Frames \X Index, T \subseteq Frames \X Index
  PROVE  /\ With(With(c, S), T) = With(c, T)
         /\ With(c, c.stale) = c
<1>1. c \in Ctx
  BY DEF CtxOK
<1> QED BY <1>1 DEF With, Ctx

\* Contexts that differ in the stale entries only.
LEMMA Restale ==
  ASSUME NEW k, NEW c, Good(k, c), NEW d, CtxOK(d), Agree(c, d), d.pinned = c.pinned,
         d.loaded = c.loaded, d.dying = c.dying, Mirror(k, d)
  PROVE  Good(k, d)
<1>1. Core(k, c)
  BY DEF Good
<1>2. Struct(k.mem, d)
  BY <1>1, StructAgree DEF Core
<1>3. Allocator(k, d)
  <2>1. Kt(d) = Kt(c)
    BY DEF Agree, Kt, K1, K2
  <2> QED BY <1>1, <2>1 DEF Core, Allocator, Agree
<1>4. GoodQueue(k, d)
  BY AllowedAgree DEF Good, GoodQueue
<1>5. Core(k, d)
  BY <1>1, <1>2, <1>3 DEF Core, Agree
<1> QED BY <1>4, <1>5 DEF Good

\* More entries may be stale; one that is the same in both roots need not be.
LEMMA Staler ==
  ASSUME NEW k, NEW c, Good(k, c), NEW S, c.stale \subseteq S, S \subseteq Frames \X Index
  PROVE  Good(k, With(c, S))
<1> DEFINE d == With(c, S)
<1>1. CtxOK(c) /\ Mirror(k, c)
  BY DEF Good, Core
<1>2. CtxOK(d) /\ Agree(c, d) /\ d.stale = S /\ d.pinned = c.pinned /\ d.loaded = c.loaded
      /\ d.dying = c.dying
  BY <1>1, WithOK
<1> HIDE DEF d
<1>3. Mirror(k, d)
  BY <1>1, <1>2 DEF Mirror, Agree
<1>4. Good(k, d)
  BY <1>2, <1>3, Restale
<1> QED BY <1>4 DEF d

LEMMA Fresher ==
  ASSUME NEW k, NEW c, Good(k, c), NEW r, NEW i, Mirrored(k, r, i),
         NEW S, S \subseteq Frames \X Index, c.stale \subseteq S \cup {<<r, i>>}
  PROVE  Good(k, With(c, S))
<1> DEFINE d == With(c, S)
<1>1. CtxOK(c) /\ Mirror(k, c)
  BY DEF Good, Core
<1>2. CtxOK(d) /\ Agree(c, d) /\ d.stale = S /\ d.pinned = c.pinned /\ d.loaded = c.loaded
      /\ d.dying = c.dying
  BY <1>1, WithOK
<1> HIDE DEF d
<1>3. ASSUME NEW q \in d.roots, NEW j \in 0 .. PtUserEntries - 1, q # d.dying, <<q, j>> \notin d.stale
      PROVE  Mirrored(k, q, j)
  <2>1. q \in c.roots /\ q # c.dying
    BY <1>2, <1>3 DEF Agree
  <2>2. CASE <<q, j>> = <<r, i>>
    BY <2>2
  <2>3. CASE <<q, j>> # <<r, i>>
    <3>1. <<q, j>> \notin c.stale
      BY <1>2, <1>3, <2>3
    <3> QED BY <1>1, <2>1, <3>1 DEF Mirror
  <2> QED BY <2>2, <2>3
<1>4. Good(k, d)
  BY <1>2, <1>3, Restale DEF Mirror
<1> QED BY <1>4 DEF d

\* What an update that is queued leaves of the others, and of itself.
LEMMA DeferredFinal ==
  ASSUME NEW k, NEW c, Good(k, c), NEW t \in Frames, NEW i \in Index, NEW val \in Content,
         ~k.bug
  PROVE  \/ DeferredUpdate(k, <<t, i>>, val) \in Halted
         \/ Queued(DeferredUpdate(k, <<t, i>>, val), k, t, i, val)
<1> DEFINE x == Room(k)
           u == [ptr |-> <<t, i>>, val |-> val]
           q == Append(x.queue, u)
           y == DeferredUpdate(k, <<t, i>>, val)
<1>1. k \in KSet
  BY DEF Good, Core
<1>2. y = [x EXCEPT !.queue = q]
  BY DEF DeferredUpdate
<1>3. x = k \/ x = DoUpdate(k)
  BY DEF Room
<1>4. x \in KSet
  <2>1. Goes(x, k, c)
    BY RoomOK
  <2> HIDE DEF x
  <2> QED BY <2>1 DEF Goes, Halted, Good, Core
<1>5. u \in Update /\ u.ptr = <<t, i>> /\ u.val = val
  BY DEF Update
<1>6. \A s \in Frames, j \in Index : \A v : Final(k, s, j, v) => x \in Halted \/ Final(x, s, j, v)
  BY <1>1, <1>3, UpdateFinal
<1> HIDE DEF x, u, y
<1>7. q \in Seq(Update)
  BY <1>4, <1>5, KTyped
<1> HIDE DEF q
<1>8. y \in KSet /\ y.mem = x.mem /\ y.queue = q /\ Elsewhere(y, x)
  BY <1>2, <1>4, <1>7, WithQueue
<1>9. CASE x \in Halted
  BY <1>8, <1>9 DEF Halted, Elsewhere, y
<1>10. CASE x \notin Halted
  <2>1. Queued(y, x, t, i, val)
    BY <1>4, <1>5, <1>8, AppendFinal DEF q
  <2>2. Queued(y, k, t, i, val)
    BY <1>6, <1>10, <2>1 DEF Queued
  <2> QED BY <2>2 DEF y
<1> QED BY <1>9, <1>10

LEMMA ExtItself == ASSUME NEW c, CtxOK(c) PROVE Ext(c, c)
  BY DEF Ext

LEMMA ExtAgain ==
  ASSUME NEW c, NEW d, NEW e, Ext(c, d), Ext(d, e)
  PROVE  Ext(c, e)
  BY DEF Ext

Grown(c, f, l, r) == [c EXCEPT !.lev = [c.lev EXCEPT ![f] = l], !.own = [c.own EXCEPT ![f] = r]]

LEMMA GrownOK ==
  ASSUME NEW c, CtxOK(c), NEW f \in Frames, Loose(c, f), NEW l \in 1 .. 3, NEW r \in c.roots
  PROVE  /\ Ext(c, Grown(c, f, l, r)) /\ Grown(c, f, l, r).lev[f] = l /\ Grown(c, f, l, r).own[f] = r
         /\ \A g \in Frames : g # f => /\ Grown(c, f, l, r).lev[g] = c.lev[g]
                                       /\ Grown(c, f, l, r).own[g] = c.own[g]
<1> DEFINE d == Grown(c, f, l, r)
<1>1. c \in Ctx /\ r \in Frames
  BY CtxTyped DEF CtxOK
<1>2. /\ d \in Ctx /\ d.t2 = c.t2 /\ d.t1 = c.t1 /\ d.roots = c.roots /\ d.pinned = c.pinned
      /\ d.loaded = c.loaded /\ d.dying = c.dying /\ d.stale = c.stale
      /\ d.lev = [c.lev EXCEPT ![f] = l] /\ d.own = [c.own EXCEPT ![f] = r]
  <2> DEFINE lev == [c.lev EXCEPT ![f] = l]
             own == [c.own EXCEPT ![f] = r]
  <2>1. lev \in [Frames -> 0 .. 4] /\ own \in [Frames -> Opt]
    BY <1>1 DEF Ctx, Opt
  <2>2. d = [c EXCEPT !.lev = lev, !.own = own]
    BY DEF Grown
  <2> HIDE DEF lev, own, d
  <2>3. d \in Ctx /\ d.lev = lev /\ d.own = own
    BY <1>1, <2>1, <2>2 DEF Ctx
  <2>4. /\ d.t2 = c.t2 /\ d.t1 = c.t1 /\ d.roots = c.roots /\ d.pinned = c.pinned
        /\ d.loaded = c.loaded /\ d.dying = c.dying /\ d.stale = c.stale
    BY <1>1, <2>2 DEF Ctx
  <2> QED BY <2>3, <2>4 DEF lev, own
<1> HIDE DEF d
<1>3. /\ d.lev[f] = l /\ d.own[f] = r
      /\ \A g \in Frames : g # f => d.lev[g] = c.lev[g] /\ d.own[g] = c.own[g]
  BY <1>1, <1>2 DEF Ctx
<1>4. c.lev[f] = 0 /\ f \notin Kt(c)
  BY DEF Loose
<1>5. Kt(d) = Kt(c) /\ K1(d) = K1(c) /\ K2(d) = K2(c)
  BY <1>2 DEF Kt, K1, K2
<1>6. CtxKernel(d)
  BY <1>2, <1>5 DEF CtxOK, CtxKernel
<1>7. CtxSpaces(d)
  <2>1. \A g \in Frames : d.lev[g] # 0 => g \notin Kt(d) /\ d.own[g] \in d.roots
    BY <1>2, <1>3, <1>4, <1>5 DEF CtxOK, CtxSpaces
  <2>2. \A q \in d.roots : /\ d.lev[q] = 4 /\ d.own[q] = q
                           /\ UserRoot(q) \in Frames \ d.roots
                           /\ d.lev[UserRoot(q)] = 4 /\ d.own[UserRoot(q)] = q
    <3>1. SUFFICES ASSUME NEW q \in c.roots
                   PROVE  /\ d.lev[q] = 4 /\ d.own[q] = q
                          /\ UserRoot(q) \in Frames \ c.roots
                          /\ d.lev[UserRoot(q)] = 4 /\ d.own[UserRoot(q)] = q
      BY <1>2
    <3>2. /\ c.lev[q] = 4 /\ c.own[q] = q /\ UserRoot(q) \in Frames \ c.roots /\ q \in Frames
          /\ c.lev[UserRoot(q)] = 4 /\ c.own[UserRoot(q)] = q
      BY CtxTyped DEF CtxOK, CtxSpaces
    <3> QED BY <1>3, <1>4, <3>2
  <2>3. \A g \in Frames : d.lev[g] = 4 => g = d.own[g] \/ g = UserRoot(d.own[g])
    BY <1>3 DEF CtxOK, CtxSpaces
  <2>4. PtBase \in d.pinned /\ \A g \in d.pinned : g = PtBase \/ d.lev[g] = 4
    <3>1. \A g \in c.pinned : g = PtBase \/ c.lev[g] = 4
      BY DEF CtxOK, CtxSpaces
    <3>2. \A g \in c.pinned : g \in Frames
      BY CtxTyped
    <3> QED BY <1>2, <1>3, <1>4, <3>1, <3>2 DEF CtxOK, CtxSpaces
  <2>5. d.loaded \in d.roots \cup {None} /\ d.dying \in d.roots \cup {None}
    BY <1>2 DEF CtxOK, CtxSpaces
  <2> QED BY <2>1, <2>2, <2>3, <2>4, <2>5 DEF CtxSpaces
<1>8. CtxOK(d)
  BY <1>2, <1>6, <1>7 DEF CtxOK
<1>9. Ext(c, d)
  BY <1>2, <1>3, <1>4, <1>8 DEF Ext
<1> QED BY <1>3, <1>9 DEF d

\* The context may grow by a table that is cleared.
LEMMA GrowOK ==
  ASSUME NEW k, NEW c, Good(k, c), NEW f \in Frames, Loose(c, f), f \notin k.unused, k.count[f] = 0,
         k.mem[f] = Cleared, NEW l \in 1 .. 3, NEW r \in c.roots
  PROVE  Good(k, Grown(c, f, l, r))
<1> DEFINE d == Grown(c, f, l, r)
<1>1. CtxOK(c) /\ Core(k, c) /\ k.mem \in Memory /\ k \in KSet
  BY KTyped DEF Good, Core
<1>2. /\ Ext(c, d) /\ d.lev[f] = l /\ d.own[f] = r
      /\ \A g \in Frames : g # f => d.lev[g] = c.lev[g] /\ d.own[g] = c.own[g]
  BY <1>1, GrownOK
<1> HIDE DEF d
<1>3. /\ Kt(d) = Kt(c) /\ K1(d) = K1(c) /\ K2(d) = K2(c)
      /\ \A g : Loc(d, g) = Loc(c, g)
      /\ \A t, val : c.lev[t] \in 2 .. 4 /\ t \in Frames /\ Fits(c, t, val) => Fits(d, t, val)
      /\ \A t \in Frames : \A i, val : Allowed(c, t, i, val) => Allowed(d, t, i, val)
  BY <1>1, <1>2, ExtKept
<1>4. Shape(k.mem, d)
  BY <1>1, <1>2 DEF Core, Struct, Shape, Ext
<1>5. Kernel(k.mem, d)
  BY <1>1, <1>3 DEF Core, Struct, Kernel
<1>6. Trees(k.mem, d)
  <2>1. SUFFICES ASSUME NEW t \in Frames
                 PROVE  /\ d.lev[t] = 4 => Top(k.mem, d, t)
                        /\ d.lev[t] = 3 => \A i \in I3 : Fits(d, t, k.mem[t][i])
                        /\ d.lev[t] = 2 => \A i \in I2 : Fits(d, t, k.mem[t][i])
    BY DEF Trees
  <2>2. CASE t = f
    <3>1. d.lev[t] # 4
      BY <1>2, <2>2
    <3>2. \A i \in Index : k.mem[t][i] = Free
      BY <2>2, ClearedTyped
    <3> QED BY <3>1, <3>2, Bases DEF Fits
  <2>3. CASE t # f
    <3>1. d.lev[t] = c.lev[t]
      BY <1>2, <2>3
    <3>2. CASE c.lev[t] = 4
      <4>1. Top(k.mem, c, t)
        BY <1>1, <3>2 DEF Core, Struct, Trees
      <4>2. d.roots = c.roots
        BY <1>2 DEF Ext
      <4> QED BY <1>3, <3>1, <3>2, <4>1, <4>2 DEF Top
    <3>3. CASE c.lev[t] = 3
      BY <1>1, <1>3, <3>1, <3>3 DEF Core, Struct, Trees
    <3>4. CASE c.lev[t] = 2
      BY <1>1, <1>3, <3>1, <3>4 DEF Core, Struct, Trees
    <3> QED BY <3>1, <3>2, <3>3, <3>4
  <2> QED BY <2>2, <2>3
<1>7. Allocator(k, d)
  <2>1. d.dying = c.dying
    BY <1>2 DEF Ext
  <2> QED BY <1>1, <1>2, <1>3, <2>1 DEF Core, Allocator
<1>8. Core(k, d)
  BY <1>1, <1>2, <1>4, <1>5, <1>6, <1>7 DEF Core, Struct, Ext
<1>9. GoodQueue(k, d)
  <2>1. SUFFICES ASSUME NEW j \in 1 .. Len(k.queue)
                 PROVE  Allowed(d, k.queue[j].ptr[1], k.queue[j].ptr[2], k.queue[j].val)
    BY DEF GoodQueue
  <2>2. k.queue[j].ptr[1] \in Frames
    BY <1>1, QueueTyped
  <2> QED BY <1>3, <2>2 DEF Good, GoodQueue
<1>10. Mirror(k, d)
  BY <1>2 DEF Good, Mirror, Ext
<1> QED BY <1>8, <1>9, <1>10 DEF Good, d

\* A new table of level l of the space r.
LEMMA NewTableOK ==
  ASSUME NEW k, NEW c, Good(k, c), c.dying = None, NEW l \in 1 .. 3, NEW r \in c.roots
  PROVE  \/ PtpAlloc(k) \in Halted
         \/ \E d : /\ Ext(c, d) /\ Good(PtpAlloc(k), d) /\ NextFrame(k) \in Frames
                   /\ d.lev[NextFrame(k)] = l /\ d.own[NextFrame(k)] = r
<1> DEFINE x == PtpAlloc(k)
           f == NextFrame(k)
           d == Grown(c, f, l, r)
<1>1. CASE x \in Halted
  BY <1>1
<1>2. CASE x \notin Halted
  <2>1. Good(x, c) /\ Taken(x, k, f) /\ Core(k, c)
    BY <1>2, PtpAllocOK DEF Good
  <2> HIDE DEF x, f
  <2>2. f \in k.unused
    BY <2>1 DEF Taken
  <2>3. f \in Frames /\ Loose(c, f) /\ k.count[f] = 0
    BY <2>1, <2>2, UnusedLoose
  <2>4. k.mem \in Memory
    BY <2>1, KTyped DEF Core
  <2>5. f \notin x.unused /\ x.count[f] = 0 /\ x.mem[f] = Cleared
    BY <2>1, <2>3, <2>4 DEF Taken, Memory
  <2>6. Good(x, d)
    BY <2>1, <2>3, <2>5, GrowOK
  <2>7. Ext(c, d) /\ d.lev[f] = l /\ d.own[f] = r
    BY <2>1, <2>3, GrownOK DEF Good, Core
  <2> HIDE DEF d
  <2>8. \E e : Ext(c, e) /\ Good(x, e) /\ f \in Frames /\ e.lev[f] = l /\ e.own[f] = r
    BY <2>3, <2>6, <2>7
  <2> QED BY <2>8 DEF x, f
<1> QED BY <1>1, <1>2

\* The tables are the same, and what is known of them.
Alike(x, k) ==
    /\ x.mem = k.mem /\ x.queue = k.queue /\ x.tlb = k.tlb /\ x.roots = k.roots
    /\ x.pinned = k.pinned /\ x.loaded = k.loaded

LEMMA AlikeOK ==
  ASSUME NEW k, NEW c, Good(k, c), NEW x \in KSet, Alike(x, k), Allocator(x, c)
  PROVE  Good(x, c)
<1>1. Tops(x) = Tops(k)
  BY DEF Alike, Tops
<1>2. Core(x, c)
  BY <1>1 DEF Good, Core, Alike
<1>3. Mirror(x, c)
  BY SameMirror DEF Good, Alike
<1> QED BY <1>2, <1>3 DEF Good, GoodQueue, TlbOK, Alike

LEMMA TakeFrameHalted ==
  ASSUME NEW k \in Halted
  PROVE  TakeFrame(k) \in Halted
  BY WithTyped DEF TakeFrame, Halted

LEMMA TakeFrameOK ==
  ASSUME NEW k, NEW c, Good(k, c), c.dying = None
  PROVE  \/ TakeFrame(k) \in Halted
         \/ Good(TakeFrame(k), c) /\ UserFrame(k) \in Frames
<1> DEFINE f == UserFrame(k)
           x == TakeFrame(k)
<1>1. k \in KSet /\ Core(k, c)
  BY DEF Good, Core
<1>2. CASE k.bug \/ k.unused = {}
  BY <1>1, <1>2, WithTyped DEF TakeFrame
<1>3. CASE ~(k.bug \/ k.unused = {})
  <2>1. f \in k.unused /\ f \in Frames
    BY <1>1, <1>3, UnusedFrame
  <2>2. x = [k EXCEPT !.unused = @ \ {f}, !.count[f] = 1]
    BY <1>3 DEF TakeFrame
  <2> HIDE DEF f, x
  <2>3. Loose(c, f)
    BY <1>1, <2>1, UnusedLoose
  <2>4. x \in KSet /\ Alike(x, k) /\ x.unused = k.unused \ {f} /\ x.count = [k.count EXCEPT ![f] = 1]
    BY <1>1, <2>1, <2>2 DEF KSet, Alike
  <2>5. Allocator(x, c)
    <3>1. k.count \in [Frames -> Nat] /\ Allocator(k, c)
      BY <1>1, KTyped DEF Core
    <3> QED BY <2>1, <2>3, <2>4, <3>1 DEF Allocator, Loose
  <2> QED BY <2>1, <2>4, <2>5, AlikeOK DEF f, x
<1> QED BY <1>2, <1>3

LEMMA PfnUserFreeHalted ==
  ASSUME NEW k \in Halted, NEW f
  PROVE  PfnUserFree(k, f) \in Halted
  BY WithTyped DEF PfnUserFree, Halted

LEMMA PfnUserFreeOK ==
  ASSUME NEW k, NEW c, Good(k, c), NEW f \in Frames
  PROVE  Kept(PfnUserFree(k, f), c)
<1> DEFINE x == PfnUserFree(k, f)
           u == IF k.count[f] = 1 THEN k.unused \cup {f} ELSE k.unused
           n == [k.count EXCEPT ![f] = k.count[f] - 1]
<1>1. k \in KSet /\ Core(k, c) /\ k.count \in [Frames -> Nat] /\ Allocator(k, c) /\ k.unused \subseteq Frames
  BY KTyped DEF Good, Core
<1>2. CASE k.bug \/ k.count[f] = 0
  BY <1>1, <1>2, WithTyped DEF PfnUserFree, Kept
<1>3. CASE ~(k.bug \/ k.count[f] = 0)
  <2>1. x = [k EXCEPT !.count = n, !.unused = u]
    BY <1>1, <1>3 DEF PfnUserFree, KSet
  <2>2. n \in [Frames -> Nat] /\ u \subseteq Frames
    BY <1>1, <1>3
  <2>3. \A g \in Frames : /\ n[g] # 0 => k.count[g] # 0
                          /\ g \in u /\ g \notin k.unused => g = f /\ n[f] = 0
                          /\ k.count[g] = 0 => n[g] = 0 \/ g = f
    <3>1. n[f] = k.count[f] - 1 /\ \A g \in Frames : g # f => n[g] = k.count[g]
      BY <1>1
    <3>2. \A g \in Frames : g \in u /\ g \notin k.unused => g = f /\ k.count[f] = 1
      OBVIOUS
    <3> HIDE DEF n, u
    <3> QED BY <1>1, <1>3, <3>1, <3>2
  <2>4. f \notin k.unused
    BY <1>1, <1>3 DEF Allocator
  <2>5. f \notin Kt(c) /\ c.lev[f] = 0
    BY <1>1, <1>3 DEF Allocator
  <2> HIDE DEF x, n, u
  <2>6. x \in KSet /\ Alike(x, k) /\ x.unused = u /\ x.count = n
    BY <1>1, <2>1, <2>2 DEF KSet, Alike
  <2>7. Allocator(x, c)
    <3>1. SUFFICES ASSUME NEW g \in Frames
                   PROVE  /\ g \in u => g \notin Kt(c) /\ n[g] = 0 /\ (c.lev[g] = 0 \/ c.own[g] = c.dying)
                          /\ n[g] # 0 => g \notin Kt(c) /\ c.lev[g] = 0
      BY <2>6 DEF Allocator
    <3>2. n[g] # 0 => g \notin Kt(c) /\ c.lev[g] = 0
      BY <1>1, <2>3 DEF Allocator
    <3>3. CASE g \in k.unused
      BY <1>1, <2>3, <2>4, <3>2, <3>3 DEF Allocator
    <3>4. CASE g \notin k.unused
      BY <2>3, <2>5, <3>2, <3>4
    <3> QED BY <3>2, <3>3, <3>4
  <2> QED BY <2>6, <2>7, AlikeOK DEF Kept, x
<1> QED BY <1>2, <1>3

LEMMA ShareHalted ==
  ASSUME NEW k \in Halted, NEW f
  PROVE  Share(k, f) \in Halted
  BY WithTyped DEF Share, Halted

LEMMA ShareOK ==
  ASSUME NEW k, NEW c, Good(k, c), NEW f \in Frames
  PROVE  Kept(Share(k, f), c)
<1> DEFINE x == Share(k, f)
           n == [k.count EXCEPT ![f] = k.count[f] + 1]
<1>1. k \in KSet /\ Core(k, c) /\ k.count \in [Frames -> Nat] /\ Allocator(k, c)
  BY KTyped DEF Good, Core
<1>2. CASE k.bug \/ k.count[f] = 0
  BY <1>1, <1>2, WithTyped DEF Share, Kept
<1>3. CASE ~(k.bug \/ k.count[f] = 0)
  <2>1. x = [k EXCEPT !.count = n]
    BY <1>1, <1>3 DEF Share, KSet
  <2>2. n \in [Frames -> Nat] /\ \A g \in Frames : n[g] = 0 <=> k.count[g] = 0
    BY <1>1, <1>3
  <2> HIDE DEF x, n
  <2>3. x \in KSet /\ Alike(x, k) /\ x.unused = k.unused /\ x.count = n
    BY <1>1, <2>1, <2>2 DEF KSet, Alike
  <2>4. Allocator(x, c)
    BY <1>1, <2>2, <2>3 DEF Allocator
  <2> QED BY <2>3, <2>4, AlikeOK DEF Kept, x
<1> QED BY <1>2, <1>3

----------------------------------------------------------------------------
(* The kernel's entry of a frame                                           *)

\* A root table has the kernel's half.
KernelRoot(c, pt) == pt = PtBase \/ pt \in c.roots

LEMMA KernelRootWalk ==
  ASSUME NEW c, CtxOK(c), NEW m \in Memory, Struct(m, c), NEW pt, KernelRoot(c, pt), NEW f \in Frames
  PROVE  PteGetPtr(m, pt, KernPage(f)) = Loc(c, f) /\ pt \in Frames
<1>1. CASE pt = PtBase
  <2>1. m[pt][PtUserEntries] = KernelEntry /\ pt \in Frames
    BY <1>1, Bases DEF Struct, Shape
  <2> QED BY <2>1, KernelWalk DEF Struct
<1>2. CASE pt \in c.roots
  <2>1. pt \in Frames /\ c.lev[pt] = 4
    BY <1>2, CtxTyped DEF CtxOK, CtxSpaces
  <2>2. Top(m, c, pt)
    BY <2>1 DEF Struct, Trees
  <2>3. m[pt][PtUserEntries] = KernelEntry
    <3>1. ~(PtUserEntries < PtUserEntries)
      BY Sizes
    <3> QED BY <1>2, <2>2, <3>1, Bases DEF Top
  <2> QED BY <2>1, <2>3, KernelWalk DEF Struct
<1> QED BY <1>1, <1>2 DEF KernelRoot

\* What PteGet finds for a frame of the kernel.
LEMMA KernelPtr ==
  ASSUME NEW c, CtxOK(c), NEW m \in Memory, Struct(m, c), NEW pt, KernelRoot(c, pt), NEW f \in Frames
  PROVE  \/ PteGet(m, pt, KernPage(f)) = <<>>
         \/ \E t \in Frames, i \in Index :
               PteGet(m, pt, KernPage(f)) = <<t, i>> /\ Loc(c, f) = <<t, i>> /\ t \in K1(c)
<1> DEFINE t == c.t1[Offset(3, f)][Offset(2, f)]
           i == Offset(1, f)
           p == PteGet(m, pt, KernPage(f))
<1>1. p = <<>> \/ (p = Loc(c, f) /\ p # <<>>)
  BY KernelRootWalk DEF PteGet, InUseOnly
<1>2. Loc(c, f) # <<>> => Loc(c, f) = <<t, i>> /\ t \in K1(c) /\ t \in Frames /\ i \in Index
  BY LocTyped, CtxTyped, Bases
<1> HIDE DEF p, t, i
<1> QED BY <1>1, <1>2 DEF p

\* The permission of a frame's kernel page is to change.
LEMMA SetKernelPage ==
  ASSUME NEW k, NEW c, Good(k, c), NEW m \in Memory, Struct(m, c), NEW pt, KernelRoot(c, pt),
         NEW f \in Frames, NEW val \in KernPtes(f)
  PROVE  Goes(DeferredUpdate(k, PteGet(m, pt, KernPage(f)), val), k, c)
<1> DEFINE p == PteGet(m, pt, KernPage(f))
<1>0. CtxOK(c) /\ k \in KSet
  BY DEF Good, Core
<1>1. val \in Content
  BY DEF KernPtes, PteCreate, Content, Pte
<1>2. p = <<>> \/ \E t \in Frames, i \in Index : p = <<t, i>> /\ Loc(c, f) = <<t, i>> /\ t \in K1(c)
  BY <1>0, KernelPtr
<1> HIDE DEF p
<1>3. CASE p = <<>>
  BY <1>0, <1>3, DeferredHalted DEF Goes, p
<1>4. CASE p # <<>>
  <2>1. PICK t \in Frames, i \in Index : p = <<t, i>> /\ Loc(c, f) = <<t, i>> /\ t \in K1(c)
    BY <1>2, <1>4
  <2>2. Allowed(c, t, i, val)
    BY <2>1 DEF Allowed
  <2>3. Exempt(c, t, i)
    BY <1>0, <2>1, KernelExempt
  <2>4. Goes(DeferredUpdate(k, <<t, i>>, val), k, c)
    BY <1>1, <2>1, <2>2, <2>3, DeferredOK
  <2> QED BY <2>1, <2>4 DEF p
<1> QED BY <1>3, <1>4

LEMMA WriteProtectHalted ==
  ASSUME NEW k \in Halted, NEW pt, NEW f
  PROVE  WriteProtect(k, pt, f) \in Halted
  BY DeferredHalted DEF WriteProtect, Halted

LEMMA WriteProtectOK ==
  ASSUME NEW k, NEW c, Good(k, c), NEW pt, KernelRoot(c, pt), NEW f \in Frames
  PROVE  Goes(WriteProtect(k, pt, f), k, c)
<1> DEFINE val == PteCreate(f, "ro")
           m == k.mem
<1>1. val \in KernPtes(f) /\ m \in Memory /\ Struct(m, c)
  BY KTyped DEF KernPtes, Good, Core
<1> HIDE DEF val, m
<1>2. Goes(DeferredUpdate(k, PteGet(m, pt, KernPage(f)), val), k, c)
  BY <1>1, SetKernelPage
<1> QED BY <1>2 DEF WriteProtect, val, m

Safe(k, c) == \E d : Ext(c, d) /\ Kept(k, d)

LEMMA HaltedSafe ==
  ASSUME NEW c, CtxOK(c), NEW k \in Halted
  PROVE  Safe(k, c)
  BY ExtItself DEF Safe, Kept

LEMMA SafeAgain ==
  ASSUME NEW c, NEW d, Ext(c, d), NEW k, Safe(k, d)
  PROVE  Safe(k, c)
<1>1. PICK e : Ext(d, e) /\ Kept(k, e)
  BY DEF Safe
<1>2. Ext(c, e)
  BY <1>1, ExtAgain
<1> QED BY <1>1, <1>2 DEF Safe

LEMMA KeptSafe ==
  ASSUME NEW c, CtxOK(c), NEW k, Kept(k, c)
  PROVE  Safe(k, c)
  BY ExtItself DEF Safe

----------------------------------------------------------------------------
(* Tables for a page of user space                                         *)

\* An entry for a table of level l of the space r; for a page if l is 0.
TableEntry(c, l, r, val) ==
    /\ val \in Content
    /\ l # 0 => val.frame \in Frames /\ c.lev[val.frame] = l /\ c.own[val.frame] = r

LEMMA EntryFits ==
  ASSUME NEW c, NEW l \in 1 .. 4, NEW r, NEW t \in Frames, c.lev[t] = l, c.own[t] = r,
         NEW val, NEW i, TableEntry(c, l - 1, r, val), l = 4 => i < PtUserEntries
  PROVE  Allowed(c, t, i, val)
<1>1. CASE l = 1
  BY <1>1 DEF Allowed
<1>2. CASE l # 1
  <2>1. l - 1 # 0 /\ l \in 2 .. 4
    BY <1>2
  <2>2. Fits(c, t, val)
    BY <2>1 DEF TableEntry, Fits
  <2> QED BY <2>1, <2>2 DEF Allowed
<1> QED BY <1>1, <1>2

LEMMA ExtTableEntry ==
  ASSUME NEW c, NEW d, Ext(c, d), NEW l \in Nat, NEW r, NEW val, TableEntry(c, l, r, val)
  PROVE  TableEntry(d, l, r, val)
  BY DEF TableEntry, Ext

\* A new table for an entry, without write access.
Inserted(x, f, c, l, r) ==
    \/ x \in Halted
    \/ \E d : Ext(c, d) /\ Good(x, d) /\ f \in Frames /\ d.lev[f] = l /\ d.own[f] = r

LEMMA InsertPtpHalted ==
  ASSUME NEW k \in Halted, NEW pt, NEW offset, NEW val
  PROVE  InsertPtp(k, pt, offset, val) \in Halted
<1> DEFINE f == NextFrame(k)
           y == Store(PtpAlloc(k), <<f, offset>>, val)
<1>1. PtpAlloc(k) \in Halted
  BY PtpAllocHalted
<1>2. y \in Halted
  BY <1>1, StoreHalted DEF Halted
<1> HIDE DEF f, y
<1>3. WriteProtect(y, pt, f) \in Halted
  BY <1>2, WriteProtectHalted
<1> QED BY <1>3 DEF InsertPtp, f, y

LEMMA InsertPtpOK ==
  ASSUME NEW k, NEW c, Good(k, c), c.dying = None, NEW pt \in c.roots, NEW l \in 1 .. 3,
         NEW offset \in Index, NEW val, TableEntry(c, l - 1, pt, val)
  PROVE  Inserted(InsertPtp(k, pt, offset, val), NextFrame(k), c, l, pt)
<1> DEFINE f == NextFrame(k)
           x == PtpAlloc(k)
           y == Store(x, <<f, offset>>, val)
           z == WriteProtect(y, pt, f)
<1>1. InsertPtp(k, pt, offset, val) = z
  BY DEF InsertPtp
<1>2. x \in Halted \/ \E d : /\ Ext(c, d) /\ Good(x, d) /\ f \in Frames /\ d.lev[f] = l /\ d.own[f] = pt
  BY NewTableOK
<1> HIDE DEF x, f
<1>3. CASE x \in Halted
  <2>1. y \in Halted
    BY <1>3, StoreHalted DEF Halted
  <2> HIDE DEF y
  <2>2. z \in Halted
    BY <2>1, WriteProtectHalted
  <2> QED BY <1>1, <2>2 DEF Inserted
<1>4. CASE x \notin Halted
  <2>1. PICK d : Ext(c, d) /\ Good(x, d) /\ f \in Frames /\ d.lev[f] = l /\ d.own[f] = pt
    BY <1>2, <1>4
  <2>2. TableEntry(d, l - 1, pt, val) /\ val \in Content
    <3>1. val \in Content /\ l - 1 \in Nat
      BY DEF TableEntry
    <3>2. TableEntry(d, l - 1, pt, val)
      BY <2>1, <3>1, ExtTableEntry
    <3> QED BY <3>1, <3>2
  <2>3. Allowed(d, f, offset, val)
    <3> DEFINE m == l
    <3>1. m \in 1 .. 4 /\ (m = 4 => offset < PtUserEntries)
      OBVIOUS
    <3> HIDE DEF m
    <3>2. d.lev[f] = m /\ TableEntry(d, m - 1, pt, val)
      BY <2>1, <2>2 DEF m
    <3> QED BY <2>1, <3>1, <3>2, EntryFits
  <2>0. Exempt(d, f, offset)
    BY <2>1 DEF Exempt
  <2>4. y \in Halted \/ Good(y, d)
    BY <2>0, <2>1, <2>2, <2>3, StoreOK
  <2> HIDE DEF y
  <2>5. CASE y \in Halted
    BY <1>1, <2>5, WriteProtectHalted DEF Inserted
  <2>6. CASE y \notin Halted
    <3>1. KernelRoot(d, pt)
      BY <2>1 DEF KernelRoot, Ext
    <3>2. Goes(z, y, d)
      BY <2>1, <2>4, <2>6, <3>1, WriteProtectOK
    <3>3. z \in Halted \/ Good(z, d)
      BY <3>2 DEF Goes
    <3> HIDE DEF z
    <3>4. Inserted(z, f, c, l, pt)
      BY <2>1, <3>3 DEF Inserted
    <3> QED BY <1>1, <3>4 DEF f
  <2> QED BY <2>5, <2>6
<1> QED BY <1>3, <1>4

\* The tables that have been built: an entry for the last one.
Built(b, c, l, r) ==
    b.kk \in Halted \/ \E d : Ext(c, d) /\ Good(b.kk, d) /\ TableEntry(d, l, r, b.val)

LEMMA NewTableBuilt ==
  ASSUME NEW b, NEW c, c.dying = None, NEW pt \in c.roots, NEW l \in 1 .. 3, NEW offset \in Index,
         NEW j, j = l - 1, Built(b, c, j, pt)
  PROVE  Built(NewTable(b, pt, offset), c, l, pt)
<1> DEFINE k == b.kk
           x == InsertPtp(k, pt, offset, b.val)
           f == NextFrame(k)
           v == PteCreate(f, "rw")
           n == NewTable(b, pt, offset)
<1>1. n.kk = x /\ n.val = v
  BY DEF NewTable
<1> HIDE DEF n
<1>2. CASE k \in Halted
  <2>1. x \in Halted
    BY <1>2, InsertPtpHalted
  <2> QED BY <1>1, <2>1 DEF Built, n
<1>3. CASE k \notin Halted
  <2>1. PICK d : Ext(c, d) /\ Good(k, d) /\ TableEntry(d, l - 1, pt, b.val)
    BY <1>3 DEF Built
  <2>2. d.dying = None /\ pt \in d.roots
    BY <2>1 DEF Ext
  <2>3. Inserted(x, f, d, l, pt)
    BY <2>1, <2>2, InsertPtpOK
  <2>4. f \in Frames => v \in Content /\ v.frame = f
    BY DEF PteCreate, Content, Pte
  <2> HIDE DEF k, x, f, v
  <2>5. CASE x \in Halted
    BY <1>1, <2>5 DEF Built, n
  <2>6. CASE x \notin Halted
    <3>1. PICK e : Ext(d, e) /\ Good(x, e) /\ f \in Frames /\ e.lev[f] = l /\ e.own[f] = pt
      BY <2>3, <2>6 DEF Inserted
    <3>2. Ext(c, e)
      BY <2>1, <3>1, ExtAgain
    <3>3. TableEntry(e, l, pt, v)
      BY <2>4, <3>1 DEF TableEntry
    <3> QED BY <1>1, <3>1, <3>2, <3>3 DEF Built, n
  <2> QED BY <2>5, <2>6
<1> QED BY <1>2, <1>3

NewTableHalted(b) == b.kk \in Halted
LEMMA NewTableStays ==
  ASSUME NEW b, NewTableHalted(b), NEW pt, NEW offset
  PROVE  NewTableHalted(NewTable(b, pt, offset))
  BY InsertPtpHalted DEF NewTableHalted, NewTable

\* The entry is linked.
LEMMA LinkHalted ==
  ASSUME NEW b, b.kk \in Halted, NEW pt, NEW page, NEW level
  PROVE  Link(b, pt, page, level) \in Halted
<1> DEFINE x == DeferredUpdate(b.kk, Location(TableOf(b.kk.mem, pt, page, level), Offset(level, page)), b.val)
           y == DeferredUpdate(x, <<UserRoot(pt), Offset(4, page)>>, b.val)
<1>1. x \in Halted
  BY DeferredHalted DEF Halted
<1>2. Link(b, pt, page, level) = IF level < 4 THEN x ELSE y
  BY DEF Link
<1> HIDE DEF x
<1>3. y \in Halted
  BY <1>1, DeferredHalted DEF Halted
<1> QED BY <1>1, <1>2, <1>3

LEMMA LinkOK ==
  ASSUME NEW b, NEW d, Good(b.kk, d), NEW pt \in d.roots, NEW page \in Nat, page < UserEnd,
         NEW level \in 1 .. 4, NEW j, j = level - 1, TableEntry(d, j, pt, b.val)
  PROVE  Kept(Link(b, pt, page, level), d)
<1> DEFINE k == b.kk
           val == b.val
           m == k.mem
           t == TableOf(m, pt, page, level)
           o == Offset(level, page)
           loc == Location(t, o)
           x == DeferredUpdate(k, loc, val)
           u == UserRoot(pt)
           p == Offset(4, page)
           y == DeferredUpdate(x, <<u, p>>, val)
<1>1. Link(b, pt, page, level) = IF level < 4 THEN x ELSE y
  BY DEF Link
<1>2. k \in KSet /\ m \in Memory /\ CtxOK(d) /\ Trees(m, d)
  BY KTyped DEF Good, Core, Struct
<1>3. val \in Content
  BY DEF TableEntry
<1>4. t = None \/ (t \in Frames /\ d.lev[t] = level /\ d.own[t] = pt)
  <2> HIDE DEF m
  <2> QED BY <1>2, UserWalk
<1>5. o \in Index /\ (level = 4 => o < PtUserEntries) /\ p \in Index /\ p < PtUserEntries
  <2>1. o \in Index /\ (level = 4 => o < PtUserEntries)
    BY PathOffset
  <2>2. 4 \in 1 .. 4
    OBVIOUS
  <2>3. p \in Index /\ p < PtUserEntries
    BY <2>2, PathOffset
  <2> QED BY <2>1, <2>3
<1>6. u \in Frames /\ d.lev[u] = 4 /\ d.own[u] = pt
  BY <1>2 DEF CtxOK, CtxSpaces
<1>7. t # None /\ level # 4 => Kept(x, d)
  <2> HIDE DEF t, o, k, val, m
  <2>1. SUFFICES ASSUME t # None, level # 4 PROVE Kept(x, d)
    OBVIOUS
  <2>2. loc = <<t, o>>
    BY <2>1 DEF Location
  <2>3. Allowed(d, t, o, val) /\ Exempt(d, t, o)
    BY <1>4, <1>5, <2>1, EntryFits DEF val, Exempt
  <2>4. Kept(DeferredUpdate(k, <<t, o>>, val), d)
    BY <1>3, <1>4, <1>5, <2>1, <2>3, DeferredOK DEF k
  <2> QED BY <2>2, <2>4
<1>8. t = None => x \in Halted
  <2> HIDE DEF t, o, k, val, m
  <2> QED BY <1>2, DeferredHalted DEF Location
<1>9. x \in Halted => y \in Halted
  <2> HIDE DEF x
  <2> QED BY DeferredHalted DEF Halted
<1>10. CASE level # 4
  BY <1>1, <1>7, <1>8, <1>10 DEF Kept
<1>11. CASE level = 4
  \* The two roots may differ in the entry until both updates are queued.
  <2> DEFINE S == d.stale \cup {<<pt, p>>}
             e == With(d, S)
  <2>1. t = pt /\ o = p /\ pt \in Frames /\ d.lev[pt] = 4 /\ d.own[pt] = pt
    BY <1>2, <1>11, Walk, CtxTyped DEF CtxOK, CtxSpaces
  <2> HIDE DEF t, o, u, p, val
  <2>2. S \subseteq Frames \X Index
    BY <1>2, <1>5, <2>1, CtxTyped
  <2>3. Good(k, e)
    BY <2>2, Staler
  <2>4. CtxOK(e) /\ Agree(d, e) /\ e.stale = S /\ e.dying = d.dying /\ e.pinned = d.pinned /\ e.loaded = d.loaded
    BY <1>2, <2>2, WithOK
  <2> HIDE DEF e, S
  <2>5. Allowed(d, pt, p, val) /\ Allowed(d, u, p, val)
    <3>1. TableEntry(d, level - 1, pt, val)
      BY DEF val
    <3> QED BY <1>5, <1>6, <1>11, <2>1, <3>1, EntryFits
  <2>6. Allowed(e, pt, p, val) /\ Allowed(e, u, p, val)
    BY <2>4, <2>5, AllowedAgree
  <2>7. Exempt(e, pt, p) /\ Exempt(e, u, p)
    BY <1>6, <2>1, <2>4 DEF Exempt, Agree, S
  <2>8. x = DeferredUpdate(k, <<pt, p>>, val)
    BY <1>11, <2>1, Bases DEF Location
  <2> HIDE DEF x, y
  <2>9. CASE k.bug
    <3>1. x \in Halted
      BY <1>2, <2>8, <2>9, DeferredHalted
    <3> QED BY <1>1, <1>9, <1>11, <3>1 DEF Kept
  <2>10. CASE ~k.bug /\ y \notin Halted
    <3>1. x \notin Halted
      BY <1>9, <2>10
    <3>2. Good(x, e)
      BY <1>3, <1>5, <2>1, <2>3, <2>6, <2>7, <2>8, <3>1, DeferredOK DEF Kept
    <3>3. ~x.bug
      BY <3>1, <3>2 DEF Halted, Good, Core
    <3>4. Good(y, e)
      BY <1>3, <1>5, <1>6, <2>6, <2>7, <2>10, <3>2, DeferredOK DEF Kept, y
    <3>5. Queued(x, k, pt, p, val)
      BY <1>3, <1>5, <2>1, <2>3, <2>8, <2>10, <3>1, DeferredFinal
    <3>6. Queued(y, x, u, p, val)
      BY <1>3, <1>5, <1>6, <2>10, <3>2, <3>3, DeferredFinal DEF y
    <3>7. pt # u
      BY <1>2, RootFrames DEF u
    <3>8. Final(y, pt, p, val) /\ Final(y, u, p, val)
      BY <1>5, <2>1, <3>5, <3>6, <3>7 DEF Queued
    <3>9. Mirrored(y, pt, p)
      BY <3>8 DEF Mirrored, u
    <3>10. d.stale \subseteq Frames \X Index /\ With(e, d.stale) = d
      BY <1>2, <2>2, CtxTyped, WithAgain DEF e
    <3>11. Good(y, d)
      BY <2>4, <3>4, <3>9, <3>10, Fresher DEF S
    <3> QED BY <1>1, <1>11, <3>11 DEF Kept
  <2>11. CASE y \in Halted
    BY <1>1, <1>11, <2>11 DEF Kept
  <2> QED BY <2>9, <2>10, <2>11
<1> QED BY <1>10, <1>11

\* Tables are built for the levels below that of the free entry.
B0(k, pte) == [kk |-> k, val |-> pte]
B1(k, pt, page, pte) == NewTable(B0(k, pte), pt, Offset(1, page))
B2(k, pt, page, pte) == NewTable(B1(k, pt, page, pte), pt, Offset(2, page))
B3(k, pt, page, pte) == NewTable(B2(k, pt, page, pte), pt, Offset(3, page))

LEMMA InsertBelowIs ==
  ASSUME NEW k, NEW pt, NEW page, NEW pte
  PROVE  /\ InsertBelow(k, pt, page, pte, 0) = Stop(k)
         /\ InsertBelow(k, pt, page, pte, 1) = Link(B0(k, pte), pt, page, 1)
         /\ InsertBelow(k, pt, page, pte, 2) = Link(B1(k, pt, page, pte), pt, page, 2)
         /\ InsertBelow(k, pt, page, pte, 3) = Link(B2(k, pt, page, pte), pt, page, 3)
         /\ InsertBelow(k, pt, page, pte, 4) = Link(B3(k, pt, page, pte), pt, page, 4)
<1> DEFINE b0 == B0(k, pte)
           b1 == B1(k, pt, page, pte)
           b2 == B2(k, pt, page, pte)
           b3 == B3(k, pt, page, pte)
           Step(T, l) == IF l = 0 THEN [kk |-> k, val |-> pte] ELSE NewTable(T[l - 1], pt, Offset(l, page))
           W == [l \in 0 .. 3 |-> IF l = 0 THEN b0 ELSE IF l = 1 THEN b1 ELSE IF l = 2 THEN b2 ELSE b3]
           V == CHOOSE T : T = [l \in 0 .. 3 |-> Step(T, l)]
<1>1. \A level : InsertBelow(k, pt, page, pte, level) =
                    IF level = 0 THEN Stop(k) ELSE Link(V[level - 1], pt, page, level)
  BY DEF InsertBelow
<1>2. W = [l \in 0 .. 3 |-> Step(W, l)]
  <2>1. W[0] = b0 /\ W[1] = b1 /\ W[2] = b2 /\ W[3] = b3
    OBVIOUS
  <2>2. b0 = [kk |-> k, val |-> pte] /\ b1 = NewTable(b0, pt, Offset(1, page))
        /\ b2 = NewTable(b1, pt, Offset(2, page)) /\ b3 = NewTable(b2, pt, Offset(3, page))
    BY DEF B0, B1, B2, B3
  <2> HIDE DEF b0, b1, b2, b3
  <2>3. \A l \in 0 .. 3 : W[l] = Step(W, l)
    <3>0. W[0] = Step(W, 0)
      BY <2>1, <2>2
    <3>1. W[1] = Step(W, 1)
      BY <2>1, <2>2
    <3>2. W[2] = Step(W, 2)
      BY <2>1, <2>2
    <3>3. W[3] = Step(W, 3)
      BY <2>1, <2>2
    <3>5. \A l \in 0 .. 3 : l = 0 \/ l = 1 \/ l = 2 \/ l = 3
      OBVIOUS
    <3> HIDE DEF W, Step
    <3> QED BY <3>0, <3>1, <3>2, <3>3, <3>5, Zenon
  <2>4. W = [l \in 0 .. 3 |-> W[l]]
    OBVIOUS
  <2> HIDE DEF W, Step
  <2> QED BY <2>3, <2>4
<1>3. V = [l \in 0 .. 3 |-> Step(V, l)]
  BY <1>2, Zenon
<1> HIDE DEF V, W
<1>4. V[0] = b0 /\ V[1] = b1 /\ V[2] = b2 /\ V[3] = b3
  <2>1. \A l \in 0 .. 3 : V[l] = Step(V, l)
    BY <1>3
  <2>2. V[0] = b0
    BY <2>1 DEF B0
  <2>3. V[1] = NewTable(V[0], pt, Offset(1, page))
    BY <2>1
  <2>4. V[2] = NewTable(V[1], pt, Offset(2, page))
    BY <2>1
  <2>5. V[3] = NewTable(V[2], pt, Offset(3, page))
    BY <2>1
  <2>6. V[1] = b1
    BY <2>2, <2>3 DEF B1
  <2>7. V[2] = b2
    BY <2>4, <2>6 DEF B2
  <2>8. V[3] = b3
    BY <2>5, <2>7 DEF B3
  <2> QED BY <2>2, <2>6, <2>7, <2>8
<1> HIDE DEF b0, b1, b2, b3, Step
<1> QED BY <1>1, <1>4 DEF b0, b1, b2, b3

LEMMA FreeLevelRange ==
  ASSUME NEW m, NEW pt, NEW page
  PROVE  /\ FreeLevel(m, pt, page) \in 0 .. 4
         /\ FreeLevel(m, pt, page) # 0 =>
              /\ TableOf(m, pt, page, FreeLevel(m, pt, page)) # None
              /\ EntryAt(m, Location(TableOf(m, pt, page, FreeLevel(m, pt, page)),
                                     Offset(FreeLevel(m, pt, page), page))) = Free
<1> DEFINE P(l) == /\ EntryAt(m, Location(TableOf(m, pt, page, l), Offset(l, page))) = Free
                   /\ TableOf(m, pt, page, l) # None
           S == {0} \cup {l \in 1 .. 4 : P(l)}
           n == 4
<1>1. FreeLevel(m, pt, page) = Max(S)
  BY DEF FreeLevel
<1>2. S \subseteq 0 .. n /\ S # {} /\ n \in Nat
  OBVIOUS
<1>3. \A l \in S : l # 0 => P(l)
  OBVIOUS
<1> HIDE DEF n, S, P
<1>4. Max(S) \in S
  BY <1>2, MaxIn
<1> QED BY <1>1, <1>2, <1>3, <1>4 DEF n, P

LEMMA BuiltAll ==
  ASSUME NEW k, NEW c, Good(k, c), c.dying = None, NEW pt \in c.roots, NEW page \in Nat,
         NEW pte \in Content
  PROVE  /\ Built(B0(k, pte), c, 0, pt) /\ Built(B1(k, pt, page, pte), c, 1, pt)
         /\ Built(B2(k, pt, page, pte), c, 2, pt) /\ Built(B3(k, pt, page, pte), c, 3, pt)
<1>1. Built(B0(k, pte), c, 0, pt)
  <2>1. CtxOK(c)
    BY DEF Good, Core
  <2>2. Ext(c, c) /\ TableEntry(c, 0, pt, pte)
    BY <2>1, ExtItself DEF TableEntry
  <2> QED BY <2>2 DEF Built, B0
<1>2. \A l \in 1 .. 4 : Offset(l, page) \in Index
  BY OffsetRange
<1> DEFINE one == 1
           two == 2
           three == 3
           zero == 0
<1>3. one \in 1 .. 3 /\ two \in 1 .. 3 /\ three \in 1 .. 3 /\ zero = one - 1 /\ one = two - 1 /\ two = three - 1
  OBVIOUS
<1>4. Offset(1, page) \in Index /\ Offset(2, page) \in Index /\ Offset(3, page) \in Index
  BY <1>2
<1>5. Built(B0(k, pte), c, zero, pt)
  BY <1>1
<1> HIDE DEF one, two, three, zero
<1>6. Built(B1(k, pt, page, pte), c, one, pt)
  BY <1>3, <1>4, <1>5, NewTableBuilt DEF B1
<1>7. Built(B2(k, pt, page, pte), c, two, pt)
  BY <1>3, <1>4, <1>6, NewTableBuilt DEF B2
<1>8. Built(B3(k, pt, page, pte), c, three, pt)
  BY <1>3, <1>4, <1>7, NewTableBuilt DEF B3
<1> QED BY <1>1, <1>6, <1>7, <1>8 DEF one, two, three

\* A table of the last level that was built is linked.
LEMMA LinkBuilt ==
  ASSUME NEW b, NEW c, CtxOK(c), NEW pt \in c.roots, NEW page \in Nat, page < UserEnd,
         NEW level \in 1 .. 4, NEW j, j = level - 1, Built(b, c, j, pt)
  PROVE  Safe(Link(b, pt, page, level), c)
<1>1. CASE b.kk \in Halted
  BY <1>1, LinkHalted, HaltedSafe
<1>2. CASE b.kk \notin Halted
  <2>1. PICK d : Ext(c, d) /\ Good(b.kk, d) /\ TableEntry(d, j, pt, b.val)
    BY <1>2 DEF Built
  <2>2. pt \in d.roots
    BY <2>1 DEF Ext
  <2>3. Kept(Link(b, pt, page, level), d)
    BY <2>1, <2>2, LinkOK
  <2> QED BY <2>1, <2>3 DEF Safe
<1> QED BY <1>1, <1>2

LEMMA InsertHalted ==
  ASSUME NEW k \in Halted, NEW pt, NEW page, NEW pte
  PROVE  InsertInternal(k, pt, page, pte) \in Halted
<1>1. B0(k, pte).kk \in Halted
  BY DEF B0
<1>2. B1(k, pt, page, pte).kk \in Halted
  BY <1>1, NewTableStays DEF NewTableHalted, B1
<1>3. B2(k, pt, page, pte).kk \in Halted
  BY <1>2, NewTableStays DEF NewTableHalted, B2
<1>4. B3(k, pt, page, pte).kk \in Halted
  BY <1>3, NewTableStays DEF NewTableHalted, B3
<1>5. \A level \in 0 .. 4 : InsertBelow(k, pt, page, pte, level) \in Halted
  <2>1. InsertBelow(k, pt, page, pte, 0) \in Halted
    BY InsertBelowIs, WithTyped DEF Halted
  <2>2. InsertBelow(k, pt, page, pte, 1) \in Halted
    BY <1>1, InsertBelowIs, LinkHalted
  <2>3. InsertBelow(k, pt, page, pte, 2) \in Halted
    BY <1>2, InsertBelowIs, LinkHalted
  <2>4. InsertBelow(k, pt, page, pte, 3) \in Halted
    BY <1>3, InsertBelowIs, LinkHalted
  <2>5. InsertBelow(k, pt, page, pte, 4) \in Halted
    BY <1>4, InsertBelowIs, LinkHalted
  <2>6. \A level \in 0 .. 4 : level = 0 \/ level = 1 \/ level = 2 \/ level = 3 \/ level = 4
    OBVIOUS
  <2> QED BY <2>1, <2>2, <2>3, <2>4, <2>5, <2>6, Zenon
<1> QED BY <1>5, FreeLevelRange DEF InsertInternal

LEMMA InsertOK ==
  ASSUME NEW k, NEW c, Good(k, c), c.dying = None, NEW pt \in c.roots, NEW page \in Nat,
         page < UserEnd, NEW pte \in Content
  PROVE  Safe(InsertInternal(k, pt, page, pte), c)
<1>0. CtxOK(c) /\ k \in KSet
  BY DEF Good, Core
<1>1. /\ Built(B0(k, pte), c, 0, pt) /\ Built(B1(k, pt, page, pte), c, 1, pt)
      /\ Built(B2(k, pt, page, pte), c, 2, pt) /\ Built(B3(k, pt, page, pte), c, 3, pt)
  BY BuiltAll
<1>2. \A level \in 0 .. 4 : Safe(InsertBelow(k, pt, page, pte, level), c)
  <2> DEFINE zero == 0
             one == 1
             two == 2
             three == 3
             four == 4
  <2>0. /\ one \in 1 .. 4 /\ two \in 1 .. 4 /\ three \in 1 .. 4 /\ four \in 1 .. 4
        /\ zero = one - 1 /\ one = two - 1 /\ two = three - 1 /\ three = four - 1
        /\ Built(B0(k, pte), c, zero, pt) /\ Built(B1(k, pt, page, pte), c, one, pt)
        /\ Built(B2(k, pt, page, pte), c, two, pt) /\ Built(B3(k, pt, page, pte), c, three, pt)
    BY <1>1
  <2>1. Safe(InsertBelow(k, pt, page, pte, 0), c)
    BY <1>0, InsertBelowIs, WithTyped, HaltedSafe
  <2>2. /\ InsertBelow(k, pt, page, pte, one) = Link(B0(k, pte), pt, page, one)
        /\ InsertBelow(k, pt, page, pte, two) = Link(B1(k, pt, page, pte), pt, page, two)
        /\ InsertBelow(k, pt, page, pte, three) = Link(B2(k, pt, page, pte), pt, page, three)
        /\ InsertBelow(k, pt, page, pte, four) = Link(B3(k, pt, page, pte), pt, page, four)
    BY InsertBelowIs
  <2>7. \A level \in 0 .. 4 : level = 0 \/ level = one \/ level = two \/ level = three \/ level = four
    OBVIOUS
  <2> HIDE DEF zero, one, two, three, four
  <2>3. Safe(InsertBelow(k, pt, page, pte, one), c)
    BY <1>0, <2>0, <2>2, LinkBuilt
  <2>4. Safe(InsertBelow(k, pt, page, pte, two), c)
    BY <1>0, <2>0, <2>2, LinkBuilt
  <2>5. Safe(InsertBelow(k, pt, page, pte, three), c)
    BY <1>0, <2>0, <2>2, LinkBuilt
  <2>6. Safe(InsertBelow(k, pt, page, pte, four), c)
    BY <1>0, <2>0, <2>2, LinkBuilt
  <2> QED BY <2>1, <2>3, <2>4, <2>5, <2>6, <2>7, Zenon
<1> QED BY <1>2, FreeLevelRange DEF InsertInternal

LEMMA UpdateSafe ==
  ASSUME NEW k, NEW c, Safe(k, c)
  PROVE  Safe(DoUpdate(k), c)
<1>1. PICK d : Ext(c, d) /\ Kept(k, d)
  BY DEF Safe
<1>2. DoUpdate(k) \in Halted \/ Good(DoUpdate(k), d)
  BY <1>1, UpdateHalted, UpdateOK DEF Kept
<1> QED BY <1>1, <1>2 DEF Safe, Kept

LEMMA PteTyped ==
  ASSUME NEW f \in Frames, NEW permission
  PROVE  PteCreate(f, PteFlags(permission)) \in Content
  BY DEF PteCreate, PteFlags, Content, Pte

----------------------------------------------------------------------------
(* Entries of pages of user space                                          *)

LeafPtr(c, ptr) == ptr = <<>> \/ \E t \in Frames, i \in Index : ptr = <<t, i>> /\ c.lev[t] = 1

LEMMA LeafPtrIs ==
  ASSUME NEW k, NEW c, Core(k, c), NEW pt \in c.roots, NEW page \in Nat, page < UserEnd
  PROVE  LeafPtr(c, PteGetPtr(k.mem, pt, page)) /\ LeafPtr(c, PteGet(k.mem, pt, page))
<1> DEFINE m == k.mem
           t == TableOf(m, pt, page, 1)
           o == Offset(1, page)
           one == 1
<1>1. CtxOK(c) /\ m \in Memory /\ Trees(m, c) /\ one \in 1 .. 4
  BY KTyped DEF Core, Struct
<1>2. t = None \/ (t \in Frames /\ c.lev[t] = 1)
  <2>1. t = TableOf(m, pt, page, one)
    OBVIOUS
  <2> HIDE DEF m, one, t
  <2>2. t = None \/ (t \in Frames /\ c.lev[t] = one)
    BY <1>1, <2>1, UserWalk
  <2> QED BY <2>2 DEF one
<1>3. o \in Index /\ PteGetPtr(m, pt, page) = Location(t, o)
  BY OffsetRange DEF PteGetPtr
<1> HIDE DEF m, t, o
<1>4. LeafPtr(c, PteGetPtr(m, pt, page))
  BY <1>2, <1>3 DEF LeafPtr, Location
<1>5. PteGet(m, pt, page) = <<>> \/ PteGet(m, pt, page) = PteGetPtr(m, pt, page)
  BY DEF PteGet, InUseOnly
<1>6. LeafPtr(c, PteGet(m, pt, page))
  BY <1>4, <1>5 DEF LeafPtr
<1> QED BY <1>4, <1>6 DEF m

LEMMA LeafPtrExt ==
  ASSUME NEW c, NEW d, Ext(c, d), NEW ptr, LeafPtr(c, ptr)
  PROVE  LeafPtr(d, ptr)
  BY DEF LeafPtr, Ext

LEMMA LeafQueued ==
  ASSUME NEW k, NEW c, Kept(k, c), NEW ptr, LeafPtr(c, ptr), NEW val,
         k \in Halted \/ val \in Content
  PROVE  Kept(DeferredUpdate(k, ptr, val), c)
<1>1. k \in KSet
  BY DEF Kept, Halted, Good, Core
<1>2. CASE k \in Halted \/ ptr = <<>>
  BY <1>1, <1>2, DeferredHalted DEF Halted, Kept
<1>3. CASE k \notin Halted /\ ptr # <<>>
  <2>1. PICK t \in Frames, i \in Index : ptr = <<t, i>> /\ c.lev[t] = 1
    BY <1>3 DEF LeafPtr
  <2>2. Allowed(c, t, i, val) /\ Exempt(c, t, i)
    BY <2>1 DEF Allowed, Exempt
  <2> QED BY <1>3, <2>1, <2>2, DeferredOK DEF Kept
<1> QED BY <1>2, <1>3

\* The end of a call: nothing is queued.
Idle(k, c) == k \in Halted \/ (Good(k, c) /\ k.queue = <<>>)
Done(k, c) == \E d : Ext(c, d) /\ Idle(k, d)

LEMMA UpdateIdle ==
  ASSUME NEW k, NEW c, Kept(k, c)
  PROVE  Idle(DoUpdate(k), c)
  BY UpdateHalted, UpdateOK DEF Kept, Idle

LEMMA UpdateDone ==
  ASSUME NEW k, NEW c, Safe(k, c)
  PROVE  Done(DoUpdate(k), c)
  BY UpdateIdle DEF Safe, Done

LEMMA IdleKept ==
  ASSUME NEW k, NEW c, Idle(k, c)
  PROVE  Kept(k, c)
  BY DEF Idle, Kept

LEMMA IdleDone ==
  ASSUME NEW c, CtxOK(c), NEW k, Idle(k, c)
  PROVE  Done(k, c)
  BY ExtItself DEF Done

LEMMA DoneSafe ==
  ASSUME NEW k, NEW c, Done(k, c)
  PROVE  Safe(k, c)
  BY IdleKept DEF Done, Safe

LEMMA DoneAgain ==
  ASSUME NEW c, NEW d, Ext(c, d), NEW k, Done(k, d)
  PROVE  Done(k, c)
<1>1. PICK e : Ext(d, e) /\ Idle(k, e)
  BY DEF Done
<1>2. Ext(c, e)
  BY <1>1, ExtAgain
<1> QED BY <1>1, <1>2 DEF Done

LEMMA KeptIdle ==
  ASSUME NEW k, NEW c, Kept(k, c), k.queue = <<>>
  PROVE  Idle(k, c)
  BY DEF Kept, Idle

LEMMA InvalidateIdle ==
  ASSUME NEW k, NEW c, Idle(k, c), NEW page
  PROVE  Idle(Invalidate(k, page), c)
<1> DEFINE x == Invalidate(k, page)
<1>1. Kept(x, c) /\ x.queue = k.queue
  BY InvalidateOK, IdleKept
<1>2. CASE k \in Halted
  <2>1. x \in Halted
    <3> DEFINE y == [k EXCEPT !.tlb = NoTlb]
    <3>1. k \in KSet /\ k.bug
      BY <1>2 DEF Halted
    <3>2. y \in KSet /\ Elsewhere(y, k)
      BY <3>1, NoTlbTyped, WithTlb
    <3> HIDE DEF y
    <3>3. y \in Halted
      BY <3>1, <3>2 DEF Halted, Elsewhere
    <3> QED BY <1>2, <3>3 DEF Invalidate, y
  <2> QED BY <2>1 DEF Idle
<1> HIDE DEF x
<1>3. CASE k \notin Halted
  BY <1>1, <1>3, KeptIdle DEF Idle, x
<1> QED BY <1>2, <1>3

LEMMA SafeTyped ==
  ASSUME NEW k, NEW c, Safe(k, c)
  PROVE  k \in KSet
  BY DEF Safe, Kept, Halted, Good, Core

LEMMA RemoveOK ==
  ASSUME NEW k, NEW c, Good(k, c), NEW pt \in c.roots, NEW page \in Nat, page < UserEnd
  PROVE  Idle(PageTableRemove(k, pt, page), c)
<1> DEFINE p == PteGet(k.mem, pt, page)
           x == DeferredUpdate(k, p, Free)
           y == DoUpdate(x)
<1>1. LeafPtr(c, p)
  BY LeafPtrIs DEF Good
<1> HIDE DEF p
<1>2. Kept(x, c)
  BY <1>1, LeafQueued, FreeEntry DEF Kept
<1> HIDE DEF x
<1>3. Idle(y, c)
  BY <1>2, UpdateIdle
<1> HIDE DEF y
<1>4. Idle(Invalidate(y, page), c)
  BY <1>3, InvalidateIdle
<1> QED BY <1>4 DEF PageTableRemove, p, x, y

LEMMA ReplaceOK ==
  ASSUME NEW k, NEW c, Kept(k, c), NEW pt \in c.roots, NEW page \in Nat, page < UserEnd,
         NEW f, k \in Halted \/ f \in Frames, NEW permission
  PROVE  Idle(PageTableReplace(k, pt, page, f, permission), c)
<1> DEFINE p == PteGet(k.mem, pt, page)
           v == PteCreate(f, PteFlags(permission))
           x == DeferredUpdate(k, p, v)
           y == DoUpdate(x)
<1>1. Kept(x, c)
  <2>1. CASE k \in Halted
    <3> HIDE DEF p, v
    <3>1. x \in Halted
      BY <2>1, DeferredHalted DEF Halted
    <3> QED BY <3>1 DEF Kept
  <2>2. CASE k \notin Halted
    <3>1. Good(k, c) /\ Core(k, c)
      BY <2>2 DEF Kept, Good
    <3>2. LeafPtr(c, p)
      BY <3>1, LeafPtrIs
    <3>3. v \in Content
      BY <2>2, PteTyped
    <3> HIDE DEF p, v
    <3> QED BY <3>2, <3>3, LeafQueued
  <2> QED BY <2>1, <2>2
<1> HIDE DEF x, p, v
<1>2. Idle(y, c)
  BY <1>1, UpdateIdle
<1> HIDE DEF y
<1>3. Idle(Invalidate(y, page), c)
  BY <1>2, InvalidateIdle
<1> QED BY <1>3 DEF PageTableReplace, p, x, y, v

LEMMA UserUpdateOK ==
  ASSUME NEW k, NEW c, Good(k, c), NEW ptr, LeafPtr(c, ptr), NEW f \in Frames, NEW permission
  PROVE  Idle(UserUpdate(k, ptr, f, permission), c)
<1> DEFINE v == PteCreate(f, PteFlags(permission))
           x == DeferredUpdate(k, ptr, v)
           y == DoUpdate(x)
<1>1. Kept(x, c)
  BY LeafQueued, PteTyped DEF Kept
<1> HIDE DEF x
<1>2. Idle(y, c)
  BY <1>1, UpdateIdle
<1> HIDE DEF y
<1>3. Idle(Invalidate(y, KernPage(f)), c)
  BY <1>2, InvalidateIdle
<1> QED BY <1>3 DEF UserUpdate, x, y

\* archPageTableInsert, for a page of user space
LEMMA PageTableInsertOK ==
  ASSUME NEW k, NEW c, Kept(k, c), CtxOK(c), c.dying = None, NEW pt \in c.roots, NEW page \in Nat,
         page < UserEnd, NEW f, k \in Halted \/ f \in Frames, NEW permission
  PROVE  Done(PageTableInsert(k, pt, page, f, permission), c)
<1> DEFINE v == PteCreate(f, PteFlags(permission))
           x == InsertInternal(k, pt, page, v)
<1>1. PageTableInsert(k, pt, page, f, permission) = DoUpdate(x)
  BY DEF PageTableInsert
<1>2. Safe(x, c)
  <2>1. CASE k \in Halted
    BY <2>1, InsertHalted, HaltedSafe
  <2>2. CASE k \notin Halted
    <3>1. v \in Content /\ Good(k, c)
      BY <2>2, PteTyped DEF Kept
    <3> HIDE DEF v
    <3> QED BY <3>1, InsertOK
  <2> QED BY <2>1, <2>2
<1> HIDE DEF x
<1> QED BY <1>1, <1>2, UpdateDone

\* One page of archPageTablePageUpdate
LEMMA UpdateOneOK ==
  ASSUME NEW s, NEW c, Safe(s, c), CtxOK(c), c.dying = None, NEW pt \in c.roots, NEW page \in Nat,
         page < UserEnd, NEW v \in Content
  PROVE  Safe(UpdateFree(InsertInternal(s, pt, page, v), PteGetPtr(s.mem, pt, page), v), c)
<1> DEFINE x == InsertInternal(s, pt, page, v)
           p == PteGetPtr(s.mem, pt, page)
           y == UpdateFree(x, p, v)
<1>1. PICK d : Ext(c, d) /\ Kept(s, d)
  BY DEF Safe
<1>2. ASSUME x \in Halted PROVE y \in Halted
  <2>1. x \in KSet /\ x.bug
    BY <1>2 DEF Halted
  <2> HIDE DEF x, p
  <2> QED BY <2>1, DeferredHalted, WithTyped DEF UpdateFree
<1>3. CASE s \in Halted
  <2>1. y \in Halted
    BY <1>2, <1>3, InsertHalted
  <2> QED BY <2>1, HaltedSafe
<1>4. CASE s \notin Halted
  <2>1. Good(s, d) /\ Core(s, d) /\ CtxOK(d) /\ d.dying = None /\ pt \in d.roots
    BY <1>1, <1>4 DEF Kept, Good, Core, Ext
  <2>2. Safe(x, d)
    BY <2>1, InsertOK
  <2>3. LeafPtr(d, p)
    BY <2>1, LeafPtrIs
  <2> HIDE DEF x, p
  <2>4. PICK e : Ext(d, e) /\ Kept(x, e)
    BY <2>2 DEF Safe
  <2>5. LeafPtr(e, p)
    BY <2>3, <2>4, LeafPtrExt
  <2>6. x \in KSet
    BY <2>2, SafeTyped
  <2>7. Kept(y, e)
    <3>1. Kept(DeferredUpdate(x, p, v), e)
      BY <2>4, <2>5, LeafQueued
    <3>2. Stop(x) \in Halted
      BY <2>6, WithTyped
    <3> QED BY <3>1, <3>2 DEF UpdateFree, Kept
  <2>8. Ext(c, e)
    BY <1>1, <2>4, ExtAgain
  <2> HIDE DEF y
  <2>9. Safe(y, c)
    BY <2>7, <2>8 DEF Safe
  <2> QED BY <2>9 DEF x, y, p
<1> QED BY <1>3, <1>4

LEMMA SeqElement ==
  ASSUME NEW R, NEW s \in Seq(R), NEW i \in 1 .. Len(s)
  PROVE  s[i] \in R
  OBVIOUS

LEMMA PageUpdateOK ==
  ASSUME NEW k, NEW c, Safe(k, c), CtxOK(c), c.dying = None, NEW pt \in c.roots, NEW permission,
         NEW updates \in Seq([page : UserPages, frame : Frames])
  PROVE  Done(PageTablePageUpdate(k, pt, updates, permission), c)
<1> DEFINE One(s, u) == UpdateFree(InsertInternal(s, pt, u.page, PteCreate(u.frame, PteFlags(permission))),
                                   PteGetPtr(s.mem, pt, u.page), PteCreate(u.frame, PteFlags(permission)))
           Round(s, i) == One(s, updates[i])
           N == Len(updates)
           S == {x \in KSet : Safe(x, c)}
           g == [x \in S \X (1 .. N) |-> Round(x[1], x[2])]
           F == CHOOSE f : f = [i \in 0 .. N |-> IF i = 0 THEN k ELSE Round(f[i - 1], i)]
<1>1. N \in Nat
  OBVIOUS
<1>2. k \in S
  BY SafeTyped
<1>3. \A x \in S, i \in 1 .. N : Round(x, i) \in S
  <2>1. SUFFICES ASSUME NEW x \in S, NEW i \in 1 .. N PROVE Round(x, i) \in S
    OBVIOUS
  <2> DEFINE page == updates[i].page
             f == updates[i].frame
             v == PteCreate(f, PteFlags(permission))
             y == UpdateFree(InsertInternal(x, pt, page, v), PteGetPtr(x.mem, pt, page), v)
  <2>2. page \in UserPages /\ f \in Frames /\ Safe(x, c)
    <3> DEFINE R == [page : UserPages, frame : Frames]
    <3>1. updates \in Seq(R) /\ i \in 1 .. Len(updates)
      OBVIOUS
    <3> HIDE DEF R
    <3>2. updates[i] \in R
      BY <3>1, SeqElement
    <3> QED BY <3>2 DEF R
  <2>3. v \in Content /\ page \in Nat /\ page < UserEnd
    BY <2>2, PteTyped, UserPage
  <2>4. Round(x, i) = y
    OBVIOUS
  <2> HIDE DEF page, f, v, Round
  <2>5. Safe(y, c)
    BY <2>2, <2>3, UpdateOneOK
  <2> HIDE DEF y
  <2> QED BY <2>4, <2>5, SafeTyped
<1>4. g \in [S \X (1 .. N) -> S] /\ \A x \in S, i \in 1 .. N : g[<<x, i>>] = Round(x, i)
  BY <1>3
<1> HIDE DEF N, g, Round, S
<1>5. PICK f : Rounds(f, S, k, N, g)
  BY <1>1, <1>2, <1>4, RoundsExist
<1>6. f = [i \in 0 .. N |-> IF i = 0 THEN k ELSE Round(f[i - 1], i)]
  <2>1. f \in [0 .. N -> S] /\ f[0] = k /\ \A i \in 1 .. N : f[i] = g[<<f[i - 1], i>>]
    BY <1>5 DEF Rounds
  <2>2. \A i \in 1 .. N : f[i - 1] \in S
    BY <1>1, <2>1
  <2>3. \A i \in 0 .. N : f[i] = IF i = 0 THEN k ELSE Round(f[i - 1], i)
    <3>1. SUFFICES ASSUME NEW i \in 0 .. N PROVE f[i] = IF i = 0 THEN k ELSE Round(f[i - 1], i)
      OBVIOUS
    <3>2. i = 0 \/ i \in 1 .. N
      BY <1>1
    <3> QED BY <1>4, <2>1, <2>2, <3>2
  <2>4. f = [i \in 0 .. N |-> f[i]]
    BY <2>1
  <2> QED BY <2>3, <2>4
<1>7. F = [i \in 0 .. N |-> IF i = 0 THEN k ELSE Round(F[i - 1], i)]
  BY <1>6, Zenon
<1>8. For(k, N, Round) = F[N]
  BY DEF For, F
<1> HIDE DEF F
<1>9. F[0] = k /\ \A i \in 1 .. N : F[i] = Round(F[i - 1], i)
  <2> DEFINE b == [i \in 0 .. N |-> IF i = 0 THEN k ELSE Round(F[i - 1], i)]
  <2>1. b[0] = k
    BY <1>1
  <2>2. ASSUME NEW i \in 1 .. N
        PROVE  b[i] = Round(F[i - 1], i)
    BY <1>1
  <2>3. F = b
    BY <1>7
  <2> HIDE DEF b
  <2> QED BY <2>1, <2>2, <2>3
<1>10. F[0] \in S /\ \A i \in 1 .. N : F[i - 1] \in S => F[i] \in S
  BY <1>2, <1>3, <1>9
<1>11. F[N] \in S
  BY <1>1, <1>10, RoundsStay
<1>20. Safe(For(k, N, Round), c)
  BY <1>11, <1>8 DEF S
<1>21. PageTablePageUpdate(k, pt, updates, permission) = DoUpdate(For(k, N, Round))
  BY DEF PageTablePageUpdate, N, Round
<1> QED BY <1>20, <1>21, UpdateDone

----------------------------------------------------------------------------
(* Ranges of pages                                                         *)

LEMMA StepsTyped ==
  ASSUME NEW a \in Nat, NEW b \in Nat
  PROVE  Steps(a, b) \in Nat /\ a \div PageSize \in Nat
<1> DEFINE x == b \div PageSize + 1 - a \div PageSize
           S == {0, x}
<1>1. PageSize \in Nat \ {0}
  BY SizesAssumption
<1>2. a \div PageSize \in Nat /\ b \div PageSize \in Nat
  BY <1>1, Division
<1>3. x \in Int
  BY <1>2
<1> HIDE DEF x
<1>4. \E m \in S : \A y \in S : m >= y
  <2>1. CASE x <= 0
    <3>1. 0 \in S /\ \A y \in S : 0 >= y
      BY <1>3, <2>1
    <3> QED BY <3>1
  <2>2. CASE ~(x <= 0)
    <3>1. x \in S /\ \A y \in S : x >= y
      BY <1>3, <2>2
    <3> QED BY <3>1
  <2> QED BY <2>1, <2>2
<1>5. Max(S) \in S /\ \A y \in S : Max(S) >= y
  BY <1>4 DEF Max
<1>6. Max(S) \in Nat
  BY <1>3, <1>5
<1>7. Steps(a, b) = Max(S)
  BY DEF Steps, x
<1> QED BY <1>2, <1>6, <1>7

UserNumbers == {p \in Nat : p < UserEnd}

LEMMA PageBefore ==
  ASSUME NEW p \in Nat, NEW hi \in Nat, hi <= UserEnd * PageSize, ~(p * PageSize >= hi)
  PROVE  p \in UserNumbers
<1> DEFINE e == UserEnd
           s == PageSize
<1>1. e \in Nat /\ s \in Nat \ {0}
  BY Sizes, SizesAssumption
<1>2. p * s < hi /\ hi <= e * s
  BY <1>1
<1> HIDE DEF e, s
<1>3. SUFFICES ASSUME ~(p < e) PROVE FALSE
  BY DEF UserNumbers, e
<1>4. s * e <= s * p
  BY <1>1, <1>3, Monotone
<1>5. s * e = e * s /\ s * p = p * s /\ e * s \in Nat /\ p * s \in Nat
  BY <1>1, Product
<1> QED BY <1>2, <1>4, <1>5

LEMMA NextPageTyped ==
  ASSUME NEW p \in Nat, NEW free \in 0 .. 4
  PROVE  NextPage(p, free) \in Nat
<1>1. CASE free = 0
  BY <1>1 DEF NextPage
<1>2. CASE free # 0
  <2> DEFINE s == Span(free)
             q == p \div s
  <2>1. free \in 1 .. 4
    BY <1>2
  <2>2. s \in Nat \ {0}
    BY <2>1, Sizes
  <2> HIDE DEF s
  <2>3. q \in Nat
    BY <2>2, Division
  <2> HIDE DEF q
  <2>4. (q + 1) * s \in Nat
    BY <2>2, <2>3
  <2> QED BY <1>2, <2>4 DEF NextPage, q, s
<1> QED BY <1>1, <1>2

LEMMA PagesAppend ==
  ASSUME NEW R, NEW s \in Seq(R), NEW p \in R
  PROVE  Append(s, p) \in Seq(R)
  OBVIOUS

UsedNumbers(m, pt) == {p \in UserNumbers : PteGet(m, pt, p) # <<>>}

LEMMA UsedPagesTyped ==
  ASSUME NEW m, NEW pt, NEW addr \in Nat, NEW hi \in Nat, hi <= UserEnd * PageSize
  PROVE  UsedPages(m, pt, addr, hi) \in Seq(UsedNumbers(m, pt))
<1> DEFINE Round(a, i) == IF a.page * PageSize >= hi THEN a ELSE Found(a, m, pt)
           k == [page |-> addr \div PageSize, found |-> <<>>]
           N == Steps(addr, hi)
           S == [page : Nat, found : Seq(UsedNumbers(m, pt))]
           g == [x \in S \X (1 .. N) |-> Round(x[1], x[2])]
           F == CHOOSE f : f = [i \in 0 .. N |-> IF i = 0 THEN k ELSE Round(f[i - 1], i)]
<1>1. N \in Nat
  BY StepsTyped
<1>2. k \in S
  <2>1. addr \div PageSize \in Nat
    BY StepsTyped
  <2> QED BY <2>1
<1>3. \A x \in S, i \in 1 .. N : Round(x, i) \in S
  <2>1. SUFFICES ASSUME NEW x \in S, NEW i \in 1 .. N PROVE Round(x, i) \in S
    OBVIOUS
  <2> DEFINE p == x.page
             q == NextPage(p, FreeLevel(m, pt, p))
             l == IF PteGet(m, pt, p) = <<>> THEN x.found ELSE Append(x.found, p)
  <2>2. p \in Nat /\ x.found \in Seq(UsedNumbers(m, pt))
    OBVIOUS
  <2> HIDE DEF p
  <2>3. CASE p * PageSize >= hi
    BY <2>3 DEF p
  <2>4. CASE ~(p * PageSize >= hi)
    <3>1. q \in Nat
      BY <2>2, FreeLevelRange, NextPageTyped
    <3>2. p \in UserNumbers
      BY <2>2, <2>4, PageBefore
    <3>3. l \in Seq(UsedNumbers(m, pt))
      BY <2>2, <3>2, PagesAppend DEF UsedNumbers
    <3>4. Round(x, i) = [page |-> q, found |-> l]
      BY <2>4 DEF Found, p
    <3> HIDE DEF q, l, Round
    <3> QED BY <3>1, <3>3, <3>4
  <2> QED BY <2>3, <2>4
<1> HIDE DEF k
<1>4. g \in [S \X (1 .. N) -> S] /\ \A x \in S, i \in 1 .. N : g[<<x, i>>] = Round(x, i)
  BY <1>3
<1> HIDE DEF N, g, Round, S
<1>5. PICK f : Rounds(f, S, k, N, g)
  BY <1>1, <1>2, <1>4, RoundsExist
<1>6. f = [i \in 0 .. N |-> IF i = 0 THEN k ELSE Round(f[i - 1], i)]
  <2>1. f \in [0 .. N -> S] /\ f[0] = k /\ \A i \in 1 .. N : f[i] = g[<<f[i - 1], i>>]
    BY <1>5 DEF Rounds
  <2>2. \A i \in 1 .. N : f[i - 1] \in S
    BY <1>1, <2>1
  <2>3. \A i \in 0 .. N : f[i] = IF i = 0 THEN k ELSE Round(f[i - 1], i)
    <3>1. SUFFICES ASSUME NEW i \in 0 .. N PROVE f[i] = IF i = 0 THEN k ELSE Round(f[i - 1], i)
      OBVIOUS
    <3>2. i = 0 \/ i \in 1 .. N
      BY <1>1
    <3> QED BY <1>4, <2>1, <2>2, <3>2
  <2>4. f = [i \in 0 .. N |-> f[i]]
    BY <2>1
  <2> QED BY <2>3, <2>4
<1>7. F = [i \in 0 .. N |-> IF i = 0 THEN k ELSE Round(F[i - 1], i)]
  BY <1>6, Zenon
<1>8. For(k, N, Round) = F[N]
  BY DEF For, F
<1> HIDE DEF F
<1>9. F[0] = k /\ \A i \in 1 .. N : F[i] = Round(F[i - 1], i)
  <2> DEFINE b == [i \in 0 .. N |-> IF i = 0 THEN k ELSE Round(F[i - 1], i)]
  <2>1. b[0] = k
    BY <1>1
  <2>2. ASSUME NEW i \in 1 .. N
        PROVE  b[i] = Round(F[i - 1], i)
    BY <1>1
  <2>3. F = b
    BY <1>7
  <2> HIDE DEF b
  <2> QED BY <2>1, <2>2, <2>3
<1>10. F[0] \in S /\ \A i \in 1 .. N : F[i - 1] \in S => F[i] \in S
  BY <1>2, <1>3, <1>9
<1>11. F[N] \in S
  BY <1>1, <1>10, RoundsStay
<1>20. UsedPages(m, pt, addr, hi) = For(k, N, Round).found
  BY DEF UsedPages, k, N, Round
<1> QED BY <1>11, <1>8, <1>20 DEF S

\* The pages of a range, one by one
LEMMA UsedPage ==
  ASSUME NEW m, NEW pt, NEW addr \in Nat, NEW hi \in Nat, hi <= UserEnd * PageSize
  PROVE  /\ Len(UsedPages(m, pt, addr, hi)) \in Nat
         /\ \A i \in 1 .. Len(UsedPages(m, pt, addr, hi)) :
               /\ UsedPages(m, pt, addr, hi)[i] \in Nat
               /\ UsedPages(m, pt, addr, hi)[i] < UserEnd
               /\ PteGet(m, pt, UsedPages(m, pt, addr, hi)[i]) # <<>>
<1> DEFINE s == UsedPages(m, pt, addr, hi)
<1>1. s \in Seq(UsedNumbers(m, pt))
  BY UsedPagesTyped
<1> HIDE DEF s
<1>2. Len(s) \in Nat /\ \A i \in 1 .. Len(s) : s[i] \in UsedNumbers(m, pt)
  BY <1>1, SeqElement
<1> QED BY <1>2 DEF s, UserNumbers, UsedNumbers

LEMMA SetPermOK ==
  ASSUME NEW k, NEW c, Kept(k, c), NEW pt \in c.roots, NEW page \in Nat, page < UserEnd,
         NEW perm \in {"none", "ro", "rw"}
  PROVE  Kept(SetPerm(k, PteGet(k.mem, pt, page), perm), c)
<1> DEFINE p == PteGet(k.mem, pt, page)
           v == PteCreate(EntryAt(k.mem, p).frame, perm)
           x == DeferredUpdate(k, p, v)
<1>1. SetPerm(k, p, perm) = IF p = <<>> THEN k ELSE x
  BY DEF SetPerm
<1>2. CASE k \in Halted
  <2> HIDE DEF p, v
  <2>1. x \in Halted
    BY <1>2, DeferredHalted DEF Halted
  <2> QED BY <1>1, <1>2, <2>1 DEF Kept, p
<1>3. CASE k \notin Halted
  <2>1. Good(k, c) /\ Core(k, c) /\ k.mem \in Memory /\ CtxOK(c)
    BY <1>3, KTyped DEF Kept, Good, Core
  <2>2. LeafPtr(c, p)
    BY <2>1, LeafPtrIs
  <2>3. p # <<>> => v \in Content
    <3> DEFINE q == PteGetPtr(k.mem, pt, page)
               e == EntryAt(k.mem, q)
    <3>1. e \in Content
      BY <2>1, CtxTyped, PtrTyped
    <3>2. p # <<>> => p = q /\ e # Free
      BY DEF PteGet, InUseOnly
    <3> HIDE DEF e, q, p
    <3>3. p # <<>> => e.frame \in Frames
      BY <3>1, <3>2, ContentFrame
    <3> QED BY <3>2, <3>3 DEF PteCreate, Content, Pte, e
  <2> HIDE DEF p, v
  <2>4. p # <<>> => Kept(x, c)
    BY <2>2, <2>3, LeafQueued
  <2> QED BY <1>1, <2>4 DEF p
<1> QED BY <1>2, <1>3

LEMMA RangeOK ==
  ASSUME NEW k, NEW c, Kept(k, c), NEW pt \in c.roots, NEW addr \in Nat, NEW hi \in Nat,
         hi <= UserEnd * PageSize, NEW perm \in {"none", "ro", "rw"}
  PROVE  Kept(RangeSet(k, pt, addr, hi, perm), c)
<1> DEFINE pages == UsedPages(k.mem, pt, addr, hi)
           Round(s, i) == Invalidate(SetPerm(s, PteGet(s.mem, pt, pages[i]), perm), addr \div PageSize)
           N == Len(pages)
           S == {x \in KSet : Kept(x, c)}
           g == [x \in S \X (1 .. N) |-> Round(x[1], x[2])]
           F == CHOOSE f : f = [i \in 0 .. N |-> IF i = 0 THEN k ELSE Round(f[i - 1], i)]
<1>1. N \in Nat /\ \A i \in 1 .. N : pages[i] \in Nat /\ pages[i] < UserEnd
  BY UsedPage
<1>2. k \in S
  BY DEF Kept, Halted, Good, Core
<1> HIDE DEF pages
<1>3. \A x \in S, i \in 1 .. N : Round(x, i) \in S
  <2>1. SUFFICES ASSUME NEW x \in S, NEW i \in 1 .. N PROVE Round(x, i) \in S
    OBVIOUS
  <2> DEFINE page == pages[i]
             y == SetPerm(x, PteGet(x.mem, pt, page), perm)
             z == Invalidate(y, addr \div PageSize)
  <2>2. page \in Nat /\ page < UserEnd /\ Kept(x, c)
    BY <1>1
  <2>3. Round(x, i) = z
    OBVIOUS
  <2> HIDE DEF page, Round
  <2>4. Kept(y, c)
    BY <2>2, SetPermOK
  <2> HIDE DEF y
  <2>5. Kept(z, c)
    BY <2>4, InvalidateOK
  <2> HIDE DEF z
  <2> QED BY <2>3, <2>5 DEF Kept, Halted, Good, Core
<1>4. g \in [S \X (1 .. N) -> S] /\ \A x \in S, i \in 1 .. N : g[<<x, i>>] = Round(x, i)
  BY <1>3
<1> HIDE DEF N, g, Round, S
<1>5. PICK f : Rounds(f, S, k, N, g)
  BY <1>1, <1>2, <1>4, RoundsExist
<1>6. f = [i \in 0 .. N |-> IF i = 0 THEN k ELSE Round(f[i - 1], i)]
  <2>1. f \in [0 .. N -> S] /\ f[0] = k /\ \A i \in 1 .. N : f[i] = g[<<f[i - 1], i>>]
    BY <1>5 DEF Rounds
  <2>2. \A i \in 1 .. N : f[i - 1] \in S
    BY <1>1, <2>1
  <2>3. \A i \in 0 .. N : f[i] = IF i = 0 THEN k ELSE Round(f[i - 1], i)
    <3>1. SUFFICES ASSUME NEW i \in 0 .. N PROVE f[i] = IF i = 0 THEN k ELSE Round(f[i - 1], i)
      OBVIOUS
    <3>2. i = 0 \/ i \in 1 .. N
      BY <1>1
    <3> QED BY <1>4, <2>1, <2>2, <3>2
  <2>4. f = [i \in 0 .. N |-> f[i]]
    BY <2>1
  <2> QED BY <2>3, <2>4
<1>7. F = [i \in 0 .. N |-> IF i = 0 THEN k ELSE Round(F[i - 1], i)]
  BY <1>6, Zenon
<1>8. For(k, N, Round) = F[N]
  BY DEF For, F
<1> HIDE DEF F
<1>9. F[0] = k /\ \A i \in 1 .. N : F[i] = Round(F[i - 1], i)
  <2> DEFINE b == [i \in 0 .. N |-> IF i = 0 THEN k ELSE Round(F[i - 1], i)]
  <2>1. b[0] = k
    BY <1>1
  <2>2. ASSUME NEW i \in 1 .. N
        PROVE  b[i] = Round(F[i - 1], i)
    BY <1>1
  <2>3. F = b
    BY <1>7
  <2> HIDE DEF b
  <2> QED BY <2>1, <2>2, <2>3
<1>10. F[0] \in S /\ \A i \in 1 .. N : F[i - 1] \in S => F[i] \in S
  BY <1>2, <1>3, <1>9
<1>11. F[N] \in S
  BY <1>1, <1>10, RoundsStay
<1>20. Kept(For(k, N, Round), c)
  BY <1>11, <1>8 DEF S
<1>21. RangeSet(k, pt, addr, hi, perm) = IF hi - addr < PageSize THEN k ELSE For(k, N, Round)
  BY DEF RangeSet, N, Round, pages
<1> QED BY <1>20, <1>21

LEMMA ProtectRangeOK ==
  ASSUME NEW k, NEW c, Kept(k, c), NEW pt \in c.roots, NEW addr \in ProbeAddresses,
         NEW hi \in ProbeAddresses, NEW permission
  PROVE  Idle(PageTableProtectRange(k, pt, addr, hi, permission), c)
<1> DEFINE perm == PteFlags(permission)
           top == UserEnd * PageSize
<1>1. perm \in {"none", "ro", "rw"}
  BY DEF PteFlags
<1>2. top \in Nat /\ addr \in 0 .. top /\ hi \in 0 .. top
  <2>1. UserEnd \in Nat /\ PageSize \in Nat
    BY Sizes, SizesAssumption
  <2> QED BY <2>1, Product, BoundsAssumption
<1> HIDE DEF perm
<1>3. addr \in Nat /\ hi \in Nat /\ hi <= top
  <2> HIDE DEF top
  <2> QED BY <1>2
<1>4. Kept(RangeSet(k, pt, addr, hi, perm), c)
  BY <1>1, <1>3, RangeOK
<1> QED BY <1>4, UpdateIdle DEF PageTableProtectRange, perm

\* The first entry of the kernel's half is the same everywhere.
LEMMA PropagateOK ==
  ASSUME NEW k, NEW c, Good(k, c), NEW pt \in c.roots
  PROVE  Idle(PropagateKernelEntry(k, pt, KernPage(0)), c)
<1> DEFINE p == KernPage(0)
           o == Offset(4, p)
           v == k.mem[PtBase][o]
           zero == 0
<1>1. zero \in Frames
  BY Bases
<1>2. o = PtUserEntries
  <2> HIDE DEF zero
  <2>1. Offset(4, KernPage(zero)) = PtUserEntries
    BY <1>1, KernOffset
  <2> QED BY <2>1 DEF zero
<1>3. CtxOK(c) /\ k.mem \in Memory /\ Shape(k.mem, c)
  BY KTyped DEF Good, Core, Struct
<1>4. v = KernelEntry /\ v \in Content
  <2>1. v = KernelEntry
    BY <1>2, <1>3, Bases DEF Shape
  <2>2. KernelEntry \in Content
    BY Bases DEF KernelEntry, PteCreate, Content, Pte
  <2> QED BY <2>1, <2>2
<1>5. pt \in Frames /\ o \in Index /\ Allowed(c, pt, o, v)
  BY <1>2, <1>3, <1>4, CtxTyped, Bases DEF Allowed
<1>7. Exempt(c, pt, o)
  <2>1. ~(o < PtUserEntries)
    BY <1>2, Sizes
  <2> QED BY <2>1 DEF Exempt
<1> HIDE DEF o, v
<1>6. Kept(DeferredUpdate(k, <<pt, o>>, v), c)
  BY <1>4, <1>5, <1>7, DeferredOK
<1> QED BY <1>6, UpdateIdle DEF PropagateKernelEntry, o, v

----------------------------------------------------------------------------
(* Tables that are not in use yet                                          *)

\* What leaves the queue alone.
LEMMA QueueStays ==
  ASSUME NEW k \in KSet, NEW ptr, NEW val, NEW f
  PROVE  /\ Store(k, ptr, val).queue = k.queue /\ TakeFrame(k).queue = k.queue
         /\ Share(k, f).queue = k.queue /\ PfnUserFree(k, f).queue = k.queue
<1>1. Stop(k).queue = k.queue
  BY DEF Stop, KSet
<1>2. Store(k, ptr, val).queue = k.queue
  BY <1>1 DEF Store, KSet
<1>3. TakeFrame(k).queue = k.queue
  BY <1>1 DEF TakeFrame, KSet
<1>4. Share(k, f).queue = k.queue
  BY <1>1 DEF Share, KSet
<1>5. PfnUserFree(k, f).queue = k.queue
  BY <1>1 DEF PfnUserFree, KSet
<1> QED BY <1>2, <1>3, <1>4, <1>5

LEMMA HaltedDone ==
  ASSUME NEW c, CtxOK(c), NEW k \in Halted
  PROVE  Done(k, c)
  BY ExtItself DEF Done, Idle

LEMMA DoneTyped ==
  ASSUME NEW k, NEW c, Done(k, c)
  PROVE  k \in KSet /\ (k \notin Halted => \E d : Ext(c, d) /\ Good(k, d) /\ k.queue = <<>>)
  BY DEF Done, Idle, Halted, Good, Core

LEMMA ExtFacts ==
  ASSUME NEW c, NEW d, Ext(c, d), c.dying = None, NEW pt \in c.roots
  PROVE  CtxOK(d) /\ d.dying = None /\ pt \in d.roots
  BY DEF Ext

LEMMA TakeFrameDone ==
  ASSUME NEW k, NEW c, Done(k, c), CtxOK(c), c.dying = None
  PROVE  Done(TakeFrame(k), c) /\ (TakeFrame(k) \in Halted \/ UserFrame(k) \in Frames)
<1>1. CASE k \in Halted
  BY <1>1, TakeFrameHalted, HaltedDone
<1>2. CASE k \notin Halted
  <2>1. k \in KSet
    BY DoneTyped
  <2>2. PICK d : Ext(c, d) /\ Good(k, d) /\ k.queue = <<>>
    BY <1>2, DoneTyped
  <2>3. d.dying = None
    BY <2>2 DEF Ext
  <2>4. TakeFrame(k) \in Halted \/ (Good(TakeFrame(k), d) /\ UserFrame(k) \in Frames)
    BY <2>2, <2>3, TakeFrameOK
  <2>5. TakeFrame(k).queue = <<>>
    BY <2>1, <2>2, QueueStays
  <2> QED BY <2>2, <2>4, <2>5, HaltedDone DEF Done, Idle
<1> QED BY <1>1, <1>2

LEMMA ShareDone ==
  ASSUME NEW k, NEW c, Done(k, c), CtxOK(c), NEW f \in Frames
  PROVE  Done(Share(k, f), c)
<1>1. CASE k \in Halted
  BY <1>1, ShareHalted, HaltedDone
<1>2. CASE k \notin Halted
  <2>1. k \in KSet
    BY DoneTyped
  <2>2. PICK d : Ext(c, d) /\ Good(k, d) /\ k.queue = <<>>
    BY <1>2, DoneTyped
  <2>3. Kept(Share(k, f), d)
    BY <2>2, ShareOK
  <2>4. Share(k, f).queue = <<>>
    BY <2>1, <2>2, QueueStays
  <2> QED BY <2>2, <2>3, <2>4, KeptIdle DEF Done
<1> QED BY <1>1, <1>2

LEMMA PfnUserFreeIdle ==
  ASSUME NEW k, NEW c, Idle(k, c), NEW f, k \in Halted \/ f \in Frames
  PROVE  Idle(PfnUserFree(k, f), c)
<1>1. CASE k \in Halted
  BY <1>1, PfnUserFreeHalted DEF Idle
<1>2. CASE k \notin Halted
  <2>1. Good(k, c) /\ k.queue = <<>> /\ k \in KSet
    BY <1>2 DEF Idle, Good, Core
  <2>2. Kept(PfnUserFree(k, f), c)
    BY <1>2, <2>1, PfnUserFreeOK
  <2>3. PfnUserFree(k, f).queue = <<>>
    BY <2>1, QueueStays
  <2> QED BY <2>2, <2>3, KeptIdle
<1> QED BY <1>1, <1>2

LEMMA ListGrows ==
  ASSUME NEW s \in Lists, NEW f \in Frames, ~(Len(s) + 1 >= MaxPts)
  PROVE  Append(s, f) \in Lists
<1>1. s \in Seq(Frames) /\ Len(s) \in Nat /\ MaxPts \in Nat
  BY SizesAssumption DEF Lists
<1>2. Append(s, f) \in Seq(Frames) /\ Len(Append(s, f)) = Len(s) + 1
  BY <1>1
<1> HIDE DEF Lists
<1>3. Len(Append(s, f)) <= MaxPts
  BY <1>1, <1>2
<1> QED BY <1>2, <1>3 DEF Lists

LEMMA OfflineAllocOK ==
  ASSUME NEW k, NEW c, Good(k, c), c.dying = None, NEW l \in 1 .. 3, NEW r \in c.roots
  PROVE  \/ OfflinePtpAlloc(k) \in Halted
         \/ \E d : /\ Ext(c, d) /\ Good(OfflinePtpAlloc(k), d) /\ NextFrame(k) \in Frames
                   /\ d.lev[NextFrame(k)] = l /\ d.own[NextFrame(k)] = r
                   /\ OfflinePtpAlloc(k).queue = k.queue
<1> DEFINE x == PtpAlloc(k)
           f == NextFrame(k)
           list == Append(x.noWrite, f)
           y == OfflinePtpAlloc(k)
<1>1. k \in KSet
  BY DEF Good, Core
<1>2. CASE k.bug \/ k.unused = {} \/ Len(k.noWrite) + 1 >= MaxPts
  BY <1>1, <1>2, WithTyped DEF OfflinePtpAlloc
<1>3. CASE ~(k.bug \/ k.unused = {} \/ Len(k.noWrite) + 1 >= MaxPts)
  <2>1. y = [x EXCEPT !.noWrite = list]
    BY <1>3 DEF OfflinePtpAlloc
  <2>2. f \in Frames
    BY <1>1, <1>3, UnusedFrame
  <2>3. x.noWrite = k.noWrite
    <3>1. x = Stop(k) \/ x = [k EXCEPT !.unused = @ \ {f}, !.mem[f] = Cleared]
      BY DEF PtpAlloc, TakeTable
    <3> HIDE DEF x, f
    <3> QED BY <1>1, <3>1 DEF KSet, Stop
  <2>4. k.noWrite \in Lists
    BY <1>1 DEF KSet
  <2>5. list \in Lists
    BY <1>3, <2>2, <2>3, <2>4, ListGrows
  <2>6. \/ x \in Halted
        \/ (Good(x, c) /\ Taken(x, k, f))
    BY PtpAllocOK
  <2>7. \/ x \in Halted
        \/ \E d : Ext(c, d) /\ Good(x, d) /\ d.lev[f] = l /\ d.own[f] = r
    BY NewTableOK
  <2> HIDE DEF list, x, f, y
  <2>9. CASE x \in Halted
    <3>1. x \in KSet /\ x.bug
      BY <2>9 DEF Halted
    <3>2. y \in KSet /\ y.bug = x.bug
      BY <2>1, <2>5, <3>1 DEF KSet
    <3> QED BY <3>1, <3>2 DEF Halted, y
  <2>10. CASE x \notin Halted
    <3>1. PICK d : Ext(c, d) /\ Good(x, d) /\ d.lev[f] = l /\ d.own[f] = r
      BY <2>7, <2>10
    <3>2. x \in KSet /\ Allocator(x, d)
      BY <3>1 DEF Good, Core
    <3>3. /\ y \in KSet /\ y.mem = x.mem /\ y.queue = x.queue /\ y.tlb = x.tlb /\ y.roots = x.roots
          /\ y.pinned = x.pinned /\ y.loaded = x.loaded /\ y.unused = x.unused /\ y.count = x.count
      BY <2>1, <2>5, <3>2 DEF KSet
    <3>4. Alike(y, x)
      BY <3>3 DEF Alike
    <3>5. Allocator(y, d)
      BY <3>2, <3>3 DEF Allocator
    <3>6. Good(y, d)
      BY <3>1, <3>3, <3>4, <3>5, AlikeOK
    <3>7. y.queue = k.queue
      BY <2>6, <2>10, <3>3 DEF Taken
    <3> QED BY <2>2, <3>1, <3>6, <3>7 DEF y, f
  <2> QED BY <2>9, <2>10
<1> QED BY <1>2, <1>3

LEMMA OfflineAllocTyped ==
  ASSUME NEW k \in KSet, k.bug
  PROVE  OfflinePtpAlloc(k) \in Halted
  BY WithTyped DEF OfflinePtpAlloc

LEMMA ExtWith ==
  ASSUME NEW c, CtxOK(c), NEW d, Ext(c, d), NEW S, S \subseteq Frames \X Index
  PROVE  Ext(With(c, S), With(d, S))
<1> DEFINE x == With(c, S)
           y == With(d, S)
<1>1. CtxOK(d)
  BY DEF Ext
<1>2. /\ Agree(c, x) /\ x.stale = S /\ x.pinned = c.pinned /\ x.loaded = c.loaded /\ x.dying = c.dying
      /\ CtxOK(y) /\ Agree(d, y) /\ y.stale = S /\ y.pinned = d.pinned /\ y.loaded = d.loaded
      /\ y.dying = d.dying
  BY <1>1, WithOK
<1> HIDE DEF x, y
<1>3. Ext(x, y)
  BY <1>2 DEF Ext, Agree
<1> QED BY <1>3 DEF x, y

LEMMA DoneStaler ==
  ASSUME NEW k, NEW c, CtxOK(c), Done(k, c), NEW S, c.stale \subseteq S, S \subseteq Frames \X Index
  PROVE  Done(k, With(c, S))
<1>1. PICK d : Ext(c, d) /\ Idle(k, d)
  BY DEF Done
<1>2. Ext(With(c, S), With(d, S)) /\ d.stale = c.stale
  BY <1>1, ExtWith DEF Ext
<1>3. Idle(k, With(d, S))
  BY <1>1, <1>2, Staler DEF Idle
<1> QED BY <1>2, <1>3 DEF Done

\* The table below an entry on the path to a page of user space.
LEMMA OfflineStepOK ==
  ASSUME NEW k, NEW c, Done(k, c), CtxOK(c), c.dying = None, NEW pt \in c.roots, NEW page \in Nat,
         page < UserEnd, NEW l \in 2 .. 4, l = 4 => <<pt, Offset(4, page)>> \in c.stale
  PROVE  Done(OfflineStep(k, pt, page, l), c)
<1> DEFINE t == TableOf(k.mem, pt, page, l)
           o == Offset(l, page)
           ptr == Location(t, o)
           x == OfflinePtpAlloc(k)
           f == NextFrame(k)
           v == PteCreate(f, "rw")
           y == Store(x, ptr, v)
           j == l - 1
<1>1. OfflineStep(k, pt, page, l) = IF k.bug \/ EntryAt(k.mem, ptr) # Free THEN k ELSE y
  BY DEF OfflineStep, OfflineLevel
<1>2. CASE k.bug \/ EntryAt(k.mem, ptr) # Free
  BY <1>1, <1>2
<1>3. CASE ~(k.bug \/ EntryAt(k.mem, ptr) # Free)
  <2>1. k \notin Halted
    BY <1>3 DEF Halted
  <2>2. PICK d : Ext(c, d) /\ Good(k, d) /\ k.queue = <<>>
    BY <2>1, DoneTyped
  <2>3. CtxOK(d) /\ d.dying = None /\ pt \in d.roots
    BY <2>2, ExtFacts
  <2>4. k.mem \in Memory /\ Trees(k.mem, d)
    BY <2>2, KTyped DEF Good, Core, Struct
  <2>5. t = None \/ (t \in Frames /\ d.lev[t] = l /\ d.own[t] = pt)
    <3> DEFINE m == k.mem
    <3>1. l \in 1 .. 4 /\ m \in Memory /\ Trees(m, d)
      BY <2>4
    <3> HIDE DEF m
    <3>2. TableOf(m, pt, page, l) = None
          \/ (/\ TableOf(m, pt, page, l) \in Frames /\ d.lev[TableOf(m, pt, page, l)] = l
              /\ d.own[TableOf(m, pt, page, l)] = pt)
      BY <2>3, <3>1, UserWalk
    <3> QED BY <3>2 DEF m
  <2>6. j \in 1 .. 3
    OBVIOUS
  <2>7. o \in Index /\ (l = 4 => o < PtUserEntries)
    <3>1. l \in 1 .. 4
      OBVIOUS
    <3> QED BY <3>1, PathOffset
  <2>8. \/ x \in Halted
        \/ \E e : /\ Ext(d, e) /\ Good(x, e) /\ f \in Frames /\ e.lev[f] = j /\ e.own[f] = pt
                  /\ x.queue = k.queue
    <3> HIDE DEF j
    <3> QED BY <2>2, <2>3, <2>6, OfflineAllocOK
  <2> HIDE DEF x, f, t, o
  <2>9. CASE x \in Halted
    <3>1. x \in KSet /\ x.bug
      BY <2>9 DEF Halted
    <3>2. y \in Halted
      BY <3>1, StoreHalted
    <3> QED BY <1>1, <1>3, <3>2, HaltedDone
  <2>10. CASE x \notin Halted
    <3>1. PICK e : /\ Ext(d, e) /\ Good(x, e) /\ f \in Frames /\ e.lev[f] = j /\ e.own[f] = pt
                   /\ x.queue = k.queue
      BY <2>8, <2>10
    <3>2. Ext(c, e) /\ x \in KSet
      BY <2>2, <3>1, ExtAgain DEF Good, Core
    <3>3. CASE t = None
      <4>1. ptr = <<>>
        BY <3>3 DEF Location
      <4>2. y \in Halted
        BY <3>2, <4>1, StoreHalted
      <4> QED BY <1>1, <1>3, <4>2, HaltedDone
    <3>4. CASE t # None
      <4>1. ptr = <<t, o>> /\ t \in Frames /\ e.lev[t] = l /\ e.own[t] = pt
        BY <2>5, <3>1, <3>4 DEF Location, Ext
      <4>2. v \in Content /\ TableEntry(e, j, pt, v)
        BY <3>1 DEF PteCreate, Content, Pte, TableEntry
      <4> HIDE DEF v, ptr
      <4>3. Allowed(e, t, o, v)
        <5> DEFINE h == l
        <5>1. h \in 1 .. 4 /\ (h = 4 => o < PtUserEntries) /\ e.lev[t] = h /\ TableEntry(e, h - 1, pt, v)
          BY <2>7, <4>1, <4>2
        <5> HIDE DEF h
        <5> QED BY <4>1, <5>1, EntryFits
      <4>8. Exempt(e, t, o)
        <5>1. e.stale = c.stale
          BY <3>2 DEF Ext
        <5> QED BY <4>1, <5>1 DEF Exempt, o
      <4>4. \/ Store(x, <<t, o>>, v) \in Halted
            \/ Good(Store(x, <<t, o>>, v), e)
        BY <2>7, <3>1, <4>1, <4>2, <4>3, <4>8, StoreOK
      <4>5. y.queue = <<>>
        BY <2>2, <3>1, <3>2, QueueStays
      <4> HIDE DEF y
      <4>6. y \in Halted \/ Good(y, e)
        BY <4>1, <4>4 DEF y
      <4>7. Idle(y, e)
        BY <4>5, <4>6 DEF Idle
      <4> QED BY <1>1, <1>3, <3>2, <4>7 DEF Done
    <3> QED BY <3>3, <3>4
  <2> QED BY <2>9, <2>10
<1> QED BY <1>2, <1>3

LEMMA OfflineLowerOK ==
  ASSUME NEW k, NEW c, Done(k, c), CtxOK(c), c.dying = None, NEW pt \in c.roots, NEW page \in Nat,
         page < UserEnd
  PROVE  Done(OfflineLower(k, pt, page), c)
<1> DEFINE two == 2
           three == 3
           x == OfflineStep(k, pt, page, three)
<1>1. two \in 2 .. 4 /\ three \in 2 .. 4 /\ two # 4 /\ three # 4
  OBVIOUS
<1>2. OfflineLower(k, pt, page) = OfflineStep(x, pt, page, two)
  BY DEF OfflineLower
<1> HIDE DEF two, three
<1>3. Done(x, c)
  BY <1>1, OfflineStepOK
<1> HIDE DEF x
<1>4. Done(OfflineStep(x, pt, page, two), c)
  BY <1>1, <1>3, OfflineStepOK
<1> QED BY <1>2, <1>4

\* The second root has the entry too.
LEMMA DuplicateOK ==
  ASSUME NEW k, NEW c, Done(k, c), CtxOK(c), c.dying = None, NEW pt \in c.roots,
         NEW o \in 0 .. PtUserEntries - 1, <<pt, o>> \in c.stale
  PROVE  Done(OfflineDuplicateL4(k, pt, o), With(c, c.stale \ {<<pt, o>>}))
<1> DEFINE u == UserRoot(pt)
           v == k.mem[pt][o]
           y == Store(k, <<u, o>>, v)
           S == c.stale \ {<<pt, o>>}
<1>1. OfflineDuplicateL4(k, pt, o) = y
  BY DEF OfflineDuplicateL4
<1>0. S \subseteq Frames \X Index /\ CtxOK(With(c, S))
  <2>1. S \subseteq Frames \X Index
    BY CtxTyped
  <2> HIDE DEF S
  <2> QED BY <2>1, WithOK
<1> HIDE DEF S
<1>2. CASE k \in Halted
  <2>1. y \in Halted
    BY <1>2, StoreHalted DEF Halted
  <2> HIDE DEF y
  <2> QED BY <1>0, <1>1, <2>1, HaltedDone DEF S
<1>3. CASE k \notin Halted
  <2>1. PICK d : Ext(c, d) /\ Good(k, d) /\ k.queue = <<>>
    BY <1>3, DoneTyped
  <2>2. CtxOK(d) /\ pt \in d.roots /\ d.stale = c.stale
    BY <2>1, ExtFacts DEF Ext
  <2>3. k \in KSet /\ k.mem \in Memory /\ Trees(k.mem, d)
    BY <2>1, KTyped DEF Good, Core, Struct
  <2>4. /\ pt \in Frames /\ u \in Frames /\ d.lev[pt] = 4 /\ d.own[pt] = pt /\ d.lev[u] = 4
        /\ d.own[u] = pt /\ pt # u
    BY <2>2, RootFrames
  <2>5. o \in Index /\ o < PtUserEntries /\ o \in 0 .. Entries[4] - 1
    <3>1. /\ Entries[4] \in Nat /\ Entries[4] <= Width /\ Width \in Nat
          /\ PtUserEntries \in Nat /\ PtUserEntries < Entries[4]
      BY Sizes
    <3> QED BY <3>1 DEF Index
  <2>6. v \in Content
    BY <2>3, <2>4, <2>5, EntryTyped
  <2>7. Fits(d, pt, v)
    BY <2>3, <2>4, <2>5 DEF Trees, Top
  <2>8. Allowed(d, u, o, v) /\ Exempt(d, u, o)
    BY <2>2, <2>4, <2>5, <2>7 DEF Allowed, Fits, Exempt
  <2>9. y \in Halted \/ y.mem = Put(k.mem, u, o, v)
    <3>1. y = Stop(k) \/ y = [k EXCEPT !.mem[u][o] = v]
      BY DEF Store
    <3>2. Stop(k) \in Halted
      BY <2>3, WithTyped
    <3> HIDE DEF y, u, v
    <3> QED BY <2>3, <3>1, <3>2 DEF KSet, Put
  <2> HIDE DEF u
  <2>10. k.mem[pt][o] = v
    OBVIOUS
  <2> HIDE DEF v
  <2>11. y \in Halted \/ Good(y, d)
    BY <2>1, <2>4, <2>5, <2>6, <2>8, StoreOK
  <2>12. y.queue = <<>>
    BY <2>1, <2>3, QueueStays
  <2> HIDE DEF y
  <2>13. CASE y \in Halted
    BY <1>0, <1>1, <2>13, HaltedDone DEF S
  <2>14. CASE y \notin Halted
    <3>1. y.mem[u][o] = v /\ y.mem[pt][o] = v
      BY <2>3, <2>4, <2>5, <2>6, <2>9, <2>10, <2>14, PutTyped
    <3>2. Final(y, pt, o, v) /\ Final(y, u, o, v)
      BY <2>12, <3>1 DEF Final
    <3>3. Mirrored(y, pt, o)
      BY <3>2 DEF Mirrored, u
    <3>4. d.stale \subseteq S \cup {<<pt, o>>}
      BY <2>2 DEF S
    <3>5. Good(y, With(d, S))
      BY <1>0, <2>11, <2>14, <3>3, <3>4, Fresher
    <3>6. Ext(With(c, S), With(d, S))
      BY <1>0, <2>1, ExtWith
    <3> QED BY <1>1, <2>12, <3>5, <3>6 DEF Done, Idle, S
  <2> QED BY <2>13, <2>14
<1> QED BY <1>2, <1>3

LEMMA OfflinePathOK ==
  ASSUME NEW k, NEW c, Done(k, c), CtxOK(c), c.dying = None, NEW pt \in c.roots, NEW page \in Nat,
         page < UserEnd, <<pt, Offset(4, page)>> \in c.stale
  PROVE  Done(OfflinePath(k, pt, page), With(c, c.stale \ {<<pt, Offset(4, page)>>}))
<1> DEFINE four == 4
           x == OfflineStep(k, pt, page, four)
           o == Offset(4, page)
           y == OfflineDuplicateL4(x, pt, o)
           S == c.stale \ {<<pt, o>>}
           d == With(c, S)
<1>1. four \in 2 .. 4 /\ (four = 4 => <<pt, Offset(4, page)>> \in c.stale)
  OBVIOUS
<1>2. OfflinePath(k, pt, page) = OfflineLower(y, pt, page)
  BY DEF OfflinePath
<1>3. o \in 0 .. PtUserEntries - 1 /\ <<pt, o>> \in c.stale
  BY UserOffset
<1>4. S \subseteq Frames \X Index
  BY CtxTyped
<1> HIDE DEF four, o
<1>5. Done(x, c)
  BY <1>1, OfflineStepOK
<1> HIDE DEF x
<1>6. Done(y, d)
  BY <1>3, <1>5, DuplicateOK
<1> HIDE DEF y, S
<1>7. CtxOK(d) /\ d.dying = None /\ pt \in d.roots
  BY <1>4, WithOK DEF Agree
<1> HIDE DEF d
<1>8. Done(OfflineLower(y, pt, page), d)
  BY <1>6, <1>7, OfflineLowerOK
<1> QED BY <1>2, <1>8 DEF d, S, o

LEMMA PathHalted ==
  ASSUME NEW k \in Halted, NEW pt, NEW page
  PROVE  OfflinePath(k, pt, page) \in Halted
<1>1. k.bug
  BY DEF Halted
<1>2. \A x \in Halted : \A l : OfflineStep(x, pt, page, l) = x
  BY DEF OfflineStep, OfflineLevel, Halted
<1>3. OfflineStep(k, pt, page, 4) = k
  BY <1>2
<1> DEFINE y == OfflineDuplicateL4(k, pt, Offset(4, page))
<1>4. y \in Halted
  BY StoreHalted DEF OfflineDuplicateL4, Halted
<1>5. OfflinePath(k, pt, page) = OfflineLower(y, pt, page)
  BY <1>3 DEF OfflinePath
<1> HIDE DEF y
<1>6. OfflineLower(y, pt, page) = y
  BY <1>2, <1>4 DEF OfflineLower
<1> QED BY <1>4, <1>5, <1>6

\* A page is put into a space that is not pinned: the roots are the same below it.
LEMMA OfflineInsertOK ==
  ASSUME NEW k, NEW c, Done(k, c), CtxOK(c), c.dying = None, NEW pt \in c.roots, NEW page \in Nat,
         page < UserEnd, NEW f, k \in Halted \/ f \in Frames, NEW permission,
         <<pt, Offset(4, page)>> \in c.stale
  PROVE  Done(OfflineUserInsert(k, pt, page, f, permission),
              With(c, c.stale \ {<<pt, Offset(4, page)>>}))
<1> DEFINE x == OfflinePath(k, pt, page)
           v == PteCreate(f, PteFlags(permission))
           p == PteGetPtr(x.mem, pt, page)
           y == Store(x, p, v)
           S == c.stale \ {<<pt, Offset(4, page)>>}
           a == With(c, S)
<1>1. OfflineUserInsert(k, pt, page, f, permission) = y
  BY DEF OfflineUserInsert, StoreLeaf
<1>2. Done(x, a)
  BY OfflinePathOK
<1>3. k \notin Halted => v \in Content
  BY PteTyped
<1>4. k \in Halted => x \in Halted
  BY PathHalted
<1>7. CtxOK(a) /\ a.dying = None /\ pt \in a.roots
  <2>1. S \subseteq Frames \X Index
    BY CtxTyped
  <2> HIDE DEF S
  <2> QED BY <2>1, WithOK DEF Agree
<1> HIDE DEF x, v, a
<1>8. SUFFICES Done(y, a)
  BY <1>1 DEF a
<1>5. CASE x \in Halted
  <2>1. y \in Halted
    BY <1>5, StoreHalted DEF Halted
  <2> HIDE DEF y
  <2> QED BY <1>7, <2>1, HaltedDone
<1>6. CASE x \notin Halted
  <2>1. PICK d : Ext(a, d) /\ Good(x, d) /\ x.queue = <<>>
    BY <1>2, <1>6, DoneTyped
  <2>2. CtxOK(d) /\ pt \in d.roots /\ x \in KSet
    BY <1>7, <2>1, ExtFacts DEF Good, Core
  <2>3. LeafPtr(d, p)
    BY <2>1, <2>2, LeafPtrIs DEF Good
  <2> HIDE DEF p
  <2>4. y.queue = <<>>
    BY <2>1, <2>2, QueueStays
  <2>5. CASE p = <<>>
    <3>1. y \in Halted
      BY <2>2, <2>5, StoreHalted
    <3> HIDE DEF y
    <3> QED BY <1>7, <3>1, HaltedDone
  <2>6. CASE p # <<>>
    <3>1. PICK t \in Frames, i \in Index : p = <<t, i>> /\ d.lev[t] = 1
      BY <2>3, <2>6 DEF LeafPtr
    <3>2. Allowed(d, t, i, v) /\ Exempt(d, t, i)
      BY <3>1 DEF Allowed, Exempt
    <3>3. Store(x, <<t, i>>, v) \in Halted \/ Good(Store(x, <<t, i>>, v), d)
      BY <1>3, <1>4, <1>6, <2>1, <3>2, StoreOK
    <3>4. y \in Halted \/ Good(y, d)
      BY <3>1, <3>3
    <3> HIDE DEF y
    <3> QED BY <2>1, <2>4, <3>4 DEF Done, Idle
  <2> QED BY <2>5, <2>6
<1> QED BY <1>5, <1>6

LEMMA InsertFrom ==
  ASSUME NEW k, NEW c, CtxOK(c), c.dying = None, NEW pt \in c.roots, NEW page \in Nat,
         page < UserEnd, NEW f, k \in Halted \/ f \in Frames, NEW permission,
         NEW S, S \subseteq Frames \X Index, <<pt, Offset(4, page)>> \in S, Done(k, With(c, S))
  PROVE  Done(OfflineUserInsert(k, pt, page, f, permission), With(c, S \ {<<pt, Offset(4, page)>>}))
<1> DEFINE d == With(c, S)
           e == <<pt, Offset(4, page)>>
           T == S \ {e}
<1>1. CtxOK(d) /\ d.dying = None /\ pt \in d.roots /\ d.stale = S
  BY WithOK DEF Agree
<1>2. With(d, T) = With(c, T)
  BY WithAgain
<1> HIDE DEF d
<1>3. Done(OfflineUserInsert(k, pt, page, f, permission), With(d, d.stale \ {e}))
  BY <1>1, OfflineInsertOK DEF d
<1> QED BY <1>1, <1>2, <1>3

\* Nothing is stale before, nor after.
LEMMA InsertAlone ==
  ASSUME NEW k, NEW c, Done(k, c), CtxOK(c), c.dying = None, c.stale = {}, NEW pt \in c.roots,
         NEW page \in Nat, page < UserEnd, NEW f, k \in Halted \/ f \in Frames, NEW permission
  PROVE  Done(OfflineUserInsert(k, pt, page, f, permission), c)
<1> DEFINE o == Offset(4, page)
           S == {<<pt, o>>}
<1>1. o \in Index /\ pt \in Frames
  <2>1. o \in 0 .. PtUserEntries - 1
    BY UserOffset
  <2> HIDE DEF o
  <2> QED BY <2>1, RootFrames
<1>2. S \subseteq Frames \X Index /\ c.stale \subseteq S
  BY <1>1
<1>3. Done(k, With(c, S))
  BY <1>2, DoneStaler
<1>4. Done(OfflineUserInsert(k, pt, page, f, permission), With(c, S \ {<<pt, Offset(4, page)>>}))
  BY <1>2, <1>3, InsertFrom
<1>5. S \ {<<pt, Offset(4, page)>>} = c.stale
  OBVIOUS
<1> QED BY <1>2, <1>4, <1>5, WithAgain

LEMMA TreePage ==
  ASSUME NEW from \in Nat, NEW to \in Nat, from <= to, to < UserEnd
  PROVE  /\ to \div Span(2) - from \div Span(2) + 1 \in Nat
         /\ \A i \in 1 .. to \div Span(2) - from \div Span(2) + 1 :
               /\ (from \div Span(2) + i - 1) * Span(2) \in Nat
               /\ (from \div Span(2) + i - 1) * Span(2) < UserEnd
<1> DEFINE s == Span(2)
           a == from \div s
           b == to \div s
           r == to % s
           e == UserEnd
<1>1. s \in Nat \ {0} /\ e \in Nat /\ to < e
  BY Sizes
<1> HIDE DEF s, e
<1>2. a \in Nat /\ b \in Nat /\ r \in 0 .. s - 1 /\ to = s * b + r
  BY <1>1, Division
<1>3. a < b + 1
  <2> DEFINE q == b + 1
  <2>1. s * b \in Nat /\ s * q = s * b + s /\ q \in Nat
    BY <1>1, <1>2
  <2>2. from < s * q
    BY <1>1, <1>2, <2>1
  <2> HIDE DEF q
  <2>3. a < q
    BY <1>1, <2>1, <2>2, LessQuotient
  <2> QED BY <2>3 DEF q
<1> HIDE DEF a, b, r
<1>4. b - a + 1 \in Nat
  BY <1>2, <1>3
<1>5. \A i \in 1 .. b - a + 1 : (a + i - 1) * s \in Nat /\ (a + i - 1) * s < e
  <2>1. SUFFICES ASSUME NEW i \in 1 .. b - a + 1
                 PROVE  (a + i - 1) * s \in Nat /\ (a + i - 1) * s < e
    OBVIOUS
  <2> DEFINE q == a + i - 1
  <2>2. q \in Nat /\ q <= b
    BY <1>2, <1>3
  <2> HIDE DEF q
  <2>3. s * q <= s * b /\ s * q \in Nat /\ s * q = q * s /\ s * b \in Nat
    BY <1>1, <1>2, <2>2, Monotone, Product
  <2> QED BY <1>1, <1>2, <2>3 DEF q
<1> QED BY <1>4, <1>5 DEF s, a, b, e

\* A round of the tree's loop is for the top level entry of a page of the range.
LEMMA TreeOffset ==
  ASSUME NEW from \in Nat, NEW to \in Nat, from <= to,
         NEW i \in 1 .. to \div Span(2) - from \div Span(2) + 1
  PROVE  \E p \in from .. to : Offset(4, (from \div Span(2) + i - 1) * Span(2)) = Offset(4, p)
<1> DEFINE s == Span(2)
           e == Entries[2] * Entries[3]
           a == from \div s
           b == to \div s
           n == a + i - 1
           q == n * s
           r == to % s
           w == from % s
<1>1. s \in Nat \ {0} /\ e \in Nat \ {0} /\ Span(4) = s * e
  <2>1. Entries[1] \in Nat \ {0} /\ Entries[2] \in Nat \ {0} /\ Entries[3] \in Nat \ {0}
    BY Sizes
  <2>2. s = Entries[1] /\ Span(4) = (Entries[1] * Entries[2]) * Entries[3]
    BY Sizes
  <2>3. e \in Nat \ {0}
    BY <2>1, Product
  <2>4. (Entries[1] * Entries[2]) * Entries[3] = Entries[1] * (Entries[2] * Entries[3])
    BY <2>1
  <2> QED BY <2>1, <2>2, <2>3, <2>4
<1> HIDE DEF s, e
<1>2. a \in Nat /\ b \in Nat /\ r \in 0 .. s - 1 /\ to = s * b + r /\ w \in 0 .. s - 1 /\ from = s * a + w
  BY <1>1, Division
<1> HIDE DEF a, b, r, w
<1>3. i \in 1 .. b - a + 1
  BY DEF a, b, s
<1>4. n \in Nat /\ n <= b /\ (i = 1 => n = a) /\ (i # 1 => a + 1 <= n)
  BY <1>2, <1>3
<1> HIDE DEF n
<1>5. q \in Nat /\ q = s * n
  BY <1>1, <1>4, Product
<1>6. q \div s = n
  <2> DEFINE zero == 0
  <2>1. zero \in 0 .. s - 1 /\ q = s * n + zero
    BY <1>1, <1>5
  <2> HIDE DEF zero, q
  <2> QED BY <1>1, <1>4, <1>5, <2>1, Quotient
<1> HIDE DEF q
<1>7. \A p \in Nat : p \div s = n => Offset(4, q) = Offset(4, p)
  <2>1. SUFFICES ASSUME NEW p \in Nat, p \div s = n PROVE Offset(4, q) = Offset(4, p)
    OBVIOUS
  <2>2. p \div (s * e) = (p \div s) \div e /\ q \div (s * e) = (q \div s) \div e
    BY <1>1, <1>5, DivideTwice
  <2>3. p \div Span(4) = q \div Span(4)
    BY <1>1, <1>6, <2>1, <2>2
  <2> QED BY <2>3 DEF Offset
<1>8. CASE i = 1
  <2>1. from \div s = n /\ from \in from .. to
    BY <1>4, <1>8 DEF a
  <2>2. \E p \in from .. to : Offset(4, q) = Offset(4, p)
    BY <1>7, <2>1
  <2> QED BY <2>2 DEF q, n, a, s
<1>9. CASE i # 1
  <2>1. s * (a + 1) <= s * n /\ s * n <= s * b
    BY <1>1, <1>2, <1>4, <1>9, Monotone
  <2>2. s * (a + 1) = s * a + s /\ s * a \in Nat /\ s * b \in Nat
    BY <1>1, <1>2, Product
  <2>3. q \in from .. to
    BY <1>1, <1>2, <1>5, <2>1, <2>2
  <2>4. \E p \in from .. to : Offset(4, q) = Offset(4, p)
    BY <2>3
  <2> QED BY <2>4 DEF q, n, a, s
<1> QED BY <1>8, <1>9

LEMMA AllocTreeOK ==
  ASSUME NEW k, NEW c, Done(k, c), CtxOK(c), c.dying = None, NEW pt \in c.roots,
         NEW from \in Nat, NEW to \in Nat, from <= to, to < UserEnd,
         \A p \in from .. to : <<pt, Offset(4, p)>> \in c.stale
  PROVE  Done(OfflineAllocTree(k, pt, from, to), c)
<1> DEFINE Page(i) == (from \div Span(2) + i - 1) * Span(2)
           Round(s, i) == OfflineLower(OfflineStep(s, pt, Page(i), 4), pt, Page(i))
           N == to \div Span(2) - from \div Span(2) + 1
           S == {x \in KSet : Done(x, c)}
           g == [x \in S \X (1 .. N) |-> Round(x[1], x[2])]
           F == CHOOSE f : f = [i \in 0 .. N |-> IF i = 0 THEN k ELSE Round(f[i - 1], i)]
<1>1. N \in Nat /\ \A i \in 1 .. N : Page(i) \in Nat /\ Page(i) < UserEnd
  BY TreePage
<1>2. k \in S
  BY DoneTyped
<1>3. \A x \in S, i \in 1 .. N : Round(x, i) \in S
  <2>1. SUFFICES ASSUME NEW x \in S, NEW i \in 1 .. N PROVE Round(x, i) \in S
    OBVIOUS
  <2> DEFINE page == Page(i)
             four == 4
             y == OfflineStep(x, pt, page, four)
             z == OfflineLower(y, pt, page)
  <2>2. page \in Nat /\ page < UserEnd /\ Done(x, c) /\ four \in 2 .. 4
    BY <1>1
  <2>3. Round(x, i) = z
    OBVIOUS
  <2>6. <<pt, Offset(4, page)>> \in c.stale
    <3>1. PICK p \in from .. to : Offset(4, page) = Offset(4, p)
      BY TreeOffset
    <3> QED BY <3>1
  <2> HIDE DEF page, Round, four
  <2>4. Done(y, c)
    BY <2>2, <2>6, OfflineStepOK
  <2> HIDE DEF y
  <2>5. Done(z, c)
    BY <2>2, <2>4, OfflineLowerOK
  <2> HIDE DEF z
  <2> QED BY <2>3, <2>5, DoneTyped
<1>4. g \in [S \X (1 .. N) -> S] /\ \A x \in S, i \in 1 .. N : g[<<x, i>>] = Round(x, i)
  BY <1>3
<1> HIDE DEF N, g, Round, S
<1>5. PICK f : Rounds(f, S, k, N, g)
  BY <1>1, <1>2, <1>4, RoundsExist
<1>6. f = [i \in 0 .. N |-> IF i = 0 THEN k ELSE Round(f[i - 1], i)]
  <2>1. f \in [0 .. N -> S] /\ f[0] = k /\ \A i \in 1 .. N : f[i] = g[<<f[i - 1], i>>]
    BY <1>5 DEF Rounds
  <2>2. \A i \in 1 .. N : f[i - 1] \in S
    BY <1>1, <2>1
  <2>3. \A i \in 0 .. N : f[i] = IF i = 0 THEN k ELSE Round(f[i - 1], i)
    <3>1. SUFFICES ASSUME NEW i \in 0 .. N PROVE f[i] = IF i = 0 THEN k ELSE Round(f[i - 1], i)
      OBVIOUS
    <3>2. i = 0 \/ i \in 1 .. N
      BY <1>1
    <3> QED BY <1>4, <2>1, <2>2, <3>2
  <2>4. f = [i \in 0 .. N |-> f[i]]
    BY <2>1
  <2> QED BY <2>3, <2>4
<1>7. F = [i \in 0 .. N |-> IF i = 0 THEN k ELSE Round(F[i - 1], i)]
  BY <1>6, Zenon
<1>8. For(k, N, Round) = F[N]
  BY DEF For, F
<1> HIDE DEF F
<1>9. F[0] = k /\ \A i \in 1 .. N : F[i] = Round(F[i - 1], i)
  <2> DEFINE b == [i \in 0 .. N |-> IF i = 0 THEN k ELSE Round(F[i - 1], i)]
  <2>1. b[0] = k
    BY <1>1
  <2>2. ASSUME NEW i \in 1 .. N
        PROVE  b[i] = Round(F[i - 1], i)
    BY <1>1
  <2>3. F = b
    BY <1>7
  <2> HIDE DEF b
  <2> QED BY <2>1, <2>2, <2>3
<1>10. F[0] \in S /\ \A i \in 1 .. N : F[i - 1] \in S => F[i] \in S
  BY <1>2, <1>3, <1>9
<1>11. F[N] \in S
  BY <1>1, <1>10, RoundsStay
<1>20. Done(For(k, N, Round), c)
  BY <1>11, <1>8 DEF S
<1>21. OfflineAllocTree(k, pt, from, to) = For(k, N, Round)
  BY DEF OfflineAllocTree, N, Round
<1> QED BY <1>20, <1>21

LEMMA UserspaceAllocOK ==
  ASSUME NEW k0, NEW c, Done(k0, c), CtxOK(c), c.dying = None, c.stale = {}, NEW pt \in c.roots,
         NEW from \in UserPages, NEW to \in UserPages, from <= to, from .. to \subseteq UserPages
  PROVE  Done(PageTableUserspaceAlloc(k0, pt, from, to), c)
<1> DEFINE One(s, page) == OfflineUserInsert(TakeFrame(s), pt, page, UserFrame(s), {"r", "w"})
           Round(s, i) == One(s, from + i - 1)
           N == to - from + 1
           k == OfflineAllocTree(k0, pt, from, to)
           E(p) == <<pt, Offset(4, p)>>
           Rest(n) == {E(p) : p \in from + n .. to}
           S == {x \in KSet : Done(x, With(c, Rest(0)))}
           g == [x \in S \X (1 .. N) |-> Round(x[1], x[2])]
           F == CHOOSE f : f = [i \in 0 .. N |-> IF i = 0 THEN k ELSE Round(f[i - 1], i)]
<1>0. from \in Nat /\ to \in Nat /\ to < UserEnd
  BY UserPage
<1>1. N \in Nat
  BY <1>0
<1>2. \A n \in Nat : Rest(n) \subseteq Frames \X Index
  <2>1. \A p \in from .. to : E(p) \in Frames \X Index
    <3>1. SUFFICES ASSUME NEW p \in from .. to PROVE E(p) \in Frames \X Index
      OBVIOUS
    <3> DEFINE o == Offset(4, p)
    <3>2. p \in Nat /\ p < UserEnd
      BY <1>0, UserPage
    <3>3. o \in 0 .. PtUserEntries - 1
      BY <3>2, UserOffset
    <3> HIDE DEF o
    <3>4. <<pt, o>> \in Frames \X Index
      BY <3>3, RootFrames
    <3> QED BY <3>4 DEF o
  <2> HIDE DEF E
  <2>2. \A n \in Nat : from + n .. to \subseteq from .. to
    BY <1>0
  <2> QED BY <2>1, <2>2
<1>3. k \in S
  <2> DEFINE R == Rest(0)
             d == With(c, R)
  <2>1. R \subseteq Frames \X Index
    BY <1>2
  <2>2. \A p \in from .. to : <<pt, Offset(4, p)>> \in R
    BY <1>0
  <2> HIDE DEF R
  <2>3. Done(k0, d)
    BY <2>1, DoneStaler
  <2>4. CtxOK(d) /\ d.dying = None /\ pt \in d.roots /\ d.stale = R
    BY <2>1, WithOK DEF Agree
  <2> HIDE DEF d
  <2>5. Done(k, d)
    BY <1>0, <2>2, <2>3, <2>4, AllocTreeOK
  <2> HIDE DEF k
  <2> QED BY <2>5, DoneTyped DEF d, R
<1> HIDE DEF k
<1>4. ASSUME NEW x, NEW i \in 1 .. N, NEW B, B \subseteq Frames \X Index, E(from + i - 1) \in B,
             Done(x, With(c, B))
      PROVE  Done(Round(x, i), With(c, B \ {E(from + i - 1)}))
  <2> DEFINE page == from + i - 1
             d == With(c, B)
             y == TakeFrame(x)
             f == UserFrame(x)
             z == OfflineUserInsert(y, pt, page, f, {"r", "w"})
  <2>1. CtxOK(d) /\ d.dying = None
    BY <1>4, WithOK
  <2>2. page \in Nat /\ page < UserEnd
    <3>1. page \in from .. to
      BY <1>0
    <3> HIDE DEF page
    <3> QED BY <1>0, <3>1, UserPage
  <2>3. Round(x, i) = z /\ E(from + i - 1) = <<pt, Offset(4, page)>>
    OBVIOUS
  <2> HIDE DEF page, Round, y, f, E, d
  <2>4. Done(y, d) /\ (y \in Halted \/ f \in Frames)
    BY <1>4, <2>1, TakeFrameDone DEF d, y, f
  <2>5. Done(z, With(c, B \ {<<pt, Offset(4, page)>>}))
    BY <1>4, <2>2, <2>3, <2>4, InsertFrom DEF d
  <2> HIDE DEF z
  <2> QED BY <2>3, <2>5
<1>5. ASSUME NEW n \in 0 .. N, n < N
      PROVE  E(from + n) \in Rest(n) /\ Rest(n) \ {E(from + n)} \subseteq Rest(n + 1)
  <2>1. \A p \in from + n .. to : p = from + n \/ p \in from + (n + 1) .. to
    BY <1>0
  <2>2. from + n \in from + n .. to
    BY <1>0, <1>5
  <2> HIDE DEF E
  <2> QED BY <2>1, <2>2
<1>6. \A i \in 1 .. N : i - 1 \in 0 .. N /\ i - 1 < N /\ (i - 1) + 1 = i /\ from + (i - 1) = from + i - 1
                        /\ from + i - 1 \in from + 0 .. to
  BY <1>0
<1>7. \A x \in S, i \in 1 .. N : Round(x, i) \in S
  <2>1. SUFFICES ASSUME NEW x \in S, NEW i \in 1 .. N PROVE Round(x, i) \in S
    OBVIOUS
  <2> DEFINE R == Rest(0)
             e == E(from + i - 1)
             T == R \ {e}
             d == With(c, T)
             y == Round(x, i)
  <2>2. R \subseteq Frames \X Index /\ e \in R /\ Done(x, With(c, R))
    BY <1>2, <1>6
  <2>3. T \subseteq Frames \X Index /\ T \subseteq R
    BY <2>2
  <2> HIDE DEF R, y
  <2>4. Done(y, d)
    BY <1>4, <2>2 DEF y
  <2> HIDE DEF T, e
  <2>5. CtxOK(d) /\ d.stale = T /\ With(d, R) = With(c, R)
    BY <2>2, <2>3, WithOK, WithAgain
  <2> HIDE DEF d
  <2>6. Done(y, With(c, R))
    BY <2>2, <2>3, <2>4, <2>5, DoneStaler
  <2> QED BY <2>6, DoneTyped DEF y, R
<1>8. g \in [S \X (1 .. N) -> S] /\ \A x \in S, i \in 1 .. N : g[<<x, i>>] = Round(x, i)
  BY <1>7
<1> HIDE DEF N, g, Round, S, E
<1>9. PICK f : Rounds(f, S, k, N, g)
  BY <1>1, <1>3, <1>8, RoundsExist
<1>10. f = [i \in 0 .. N |-> IF i = 0 THEN k ELSE Round(f[i - 1], i)]
  <2>1. f \in [0 .. N -> S] /\ f[0] = k /\ \A i \in 1 .. N : f[i] = g[<<f[i - 1], i>>]
    BY <1>9 DEF Rounds
  <2>2. \A i \in 1 .. N : f[i - 1] \in S
    BY <1>1, <2>1
  <2>3. \A i \in 0 .. N : f[i] = IF i = 0 THEN k ELSE Round(f[i - 1], i)
    <3>1. SUFFICES ASSUME NEW i \in 0 .. N PROVE f[i] = IF i = 0 THEN k ELSE Round(f[i - 1], i)
      OBVIOUS
    <3>2. i = 0 \/ i \in 1 .. N
      BY <1>1
    <3> QED BY <1>8, <2>1, <2>2, <3>2
  <2>4. f = [i \in 0 .. N |-> f[i]]
    BY <2>1
  <2> QED BY <2>3, <2>4
<1>11. F = [i \in 0 .. N |-> IF i = 0 THEN k ELSE Round(F[i - 1], i)]
  BY <1>10, Zenon
<1>12. For(k, N, Round) = F[N]
  BY DEF For, F
<1> HIDE DEF F
<1>13. F[0] = k /\ \A i \in 1 .. N : F[i] = Round(F[i - 1], i)
  <2> DEFINE b == [i \in 0 .. N |-> IF i = 0 THEN k ELSE Round(F[i - 1], i)]
  <2>1. b[0] = k
    BY <1>1
  <2>2. ASSUME NEW i \in 1 .. N
        PROVE  b[i] = Round(F[i - 1], i)
    BY <1>1
  <2>3. F = b
    BY <1>11
  <2> HIDE DEF b
  <2> QED BY <2>1, <2>2, <2>3
\* After n rounds the pages from from + n on are left.
<1> DEFINE T == {n \in Nat : n <= N => Done(F[n], With(c, Rest(n)))}
<1>14. 0 \in T
  BY <1>3, <1>13 DEF S
<1>15. ASSUME NEW n \in Nat, n \in T
       PROVE  n + 1 \in T
  <2>1. SUFFICES ASSUME n + 1 <= N PROVE Done(F[n + 1], With(c, Rest(n + 1)))
    OBVIOUS
  <2> DEFINE i == n + 1
             B == Rest(n)
             A == Rest(i)
             e == E(from + n)
             C == B \ {e}
             d == With(c, C)
             y == F[i]
  <2>2. /\ i \in 1 .. N /\ n \in 0 .. N /\ n < N /\ n <= N /\ i - 1 = n /\ i \in Nat
        /\ from + i - 1 = from + n
    BY <1>0, <1>1, <2>1
  <2>3. Done(F[n], With(c, B)) /\ B \subseteq Frames \X Index /\ A \subseteq Frames \X Index
    BY <1>2, <1>15, <2>2
  <2>4. e \in B /\ C \subseteq A
    BY <1>5, <2>2
  <2>5. y = Round(F[n], i)
    BY <1>13, <2>2
  <2> HIDE DEF T, A, B, y, Rest
  <2>6. Done(y, d)
    <3>1. Done(Round(F[n], i), With(c, B \ {E(from + i - 1)}))
      <4>1. E(from + i - 1) \in B
        BY <2>2, <2>4
      <4> QED BY <1>4, <2>2, <2>3, <4>1
    <3> QED BY <2>2, <2>5, <3>1
  <2>7. C \subseteq Frames \X Index
    BY <2>3
  <2> HIDE DEF C
  <2>8. CtxOK(d) /\ d.stale = C /\ With(d, A) = With(c, A)
    BY <2>3, <2>7, WithOK, WithAgain
  <2> HIDE DEF d
  <2>9. Done(y, With(c, A))
    BY <2>3, <2>4, <2>6, <2>8, DoneStaler
  <2> QED BY <2>9 DEF y, A
<1> HIDE DEF T
<1>16. N \in T
  BY <1>1, <1>14, <1>15, Induction
<1>17. Rest(N) = c.stale
  BY <1>0 DEF N
<1>20. Done(For(k, N, Round), c)
  <2>1. Done(F[N], With(c, Rest(N)))
    BY <1>1, <1>16 DEF T
  <2> HIDE DEF Rest
  <2>2. With(c, c.stale) = c
    <3>1. c.stale \subseteq Frames \X Index
      BY CtxTyped
    <3> QED BY <3>1, WithAgain
  <2> QED BY <1>12, <1>17, <2>1, <2>2
<1>21. PageTableUserspaceAlloc(k0, pt, from, to) = For(k, N, Round)
  BY DEF PageTableUserspaceAlloc, N, Round, k
<1> QED BY <1>20, <1>21

LEMMA UserspaceCopyOK ==
  ASSUME NEW k, NEW c, Idle(k, c), k \notin Halted, CtxOK(c), c.dying = None, c.stale = {},
         NEW pt \in c.roots, NEW toPt \in c.roots, NEW addr \in Nat, NEW hi \in Nat, hi <= UserEnd * PageSize,
         NEW offset, NEW permission,
         \A i \in 1 .. Len(UsedPages(k.mem, pt, addr, hi)) :
            UsedPages(k.mem, pt, addr, hi)[i] + offset \div PageSize \in UserPages
  PROVE  Done(UserspaceCopy(k, pt, addr, hi, toPt, offset, permission), c)
<1> DEFINE Frame(p) == EntryAt(k.mem, PteGetPtr(k.mem, pt, p)).frame
           pages == UsedPages(k.mem, pt, addr, hi)
           Round(s, i) == OfflineUserInsert(Share(s, Frame(pages[i])), toPt, pages[i] + offset \div PageSize,
                                            Frame(pages[i]), permission)
           N == Len(pages)
           S == {x \in KSet : Done(x, c)}
           g == [x \in S \X (1 .. N) |-> Round(x[1], x[2])]
           F == CHOOSE f : f = [i \in 0 .. N |-> IF i = 0 THEN k ELSE Round(f[i - 1], i)]
<1>0. k \in KSet /\ k.mem \in Memory /\ pt \in Frames /\ Done(k, c)
  BY KTyped, CtxTyped, IdleDone DEF Idle, Good, Core
<1>1. N \in Nat /\ \A i \in 1 .. N : Frame(pages[i]) \in Frames /\ pages[i] + offset \div PageSize \in UserPages
  <2> DEFINE m == k.mem
  <2>1. /\ N \in Nat
        /\ \A i \in 1 .. N : pages[i] \in Nat /\ PteGet(m, pt, pages[i]) # <<>>
    BY UsedPage
  <2>2. ASSUME NEW p \in Nat, PteGet(m, pt, p) # <<>>
        PROVE  Frame(p) \in Frames
    <3> DEFINE e == EntryAt(m, PteGetPtr(m, pt, p))
    <3>1. e \in Content
      BY <1>0, PtrTyped
    <3>2. e # Free
      BY <2>2 DEF PteGet, InUseOnly
    <3>3. Frame(p) = e.frame
      OBVIOUS
    <3> HIDE DEF e, Frame
    <3> QED BY <3>1, <3>2, <3>3, ContentFrame
  <2>3. \A i \in 1 .. N : pages[i] + offset \div PageSize \in UserPages
    OBVIOUS
  <2> HIDE DEF pages, Frame
  <2> QED BY <2>1, <2>2, <2>3
<1>2. k \in S
  BY <1>0
<1> HIDE DEF pages, Frame
<1>3. \A x \in S, i \in 1 .. N : Round(x, i) \in S
  <2>1. SUFFICES ASSUME NEW x \in S, NEW i \in 1 .. N PROVE Round(x, i) \in S
    OBVIOUS
  <2> DEFINE page == pages[i] + offset \div PageSize
             f == Frame(pages[i])
             y == Share(x, f)
             z == OfflineUserInsert(y, toPt, page, f, permission)
  <2>2. page \in UserPages /\ f \in Frames /\ Done(x, c)
    BY <1>1
  <2>3. Round(x, i) = z
    OBVIOUS
  <2> HIDE DEF page, f, Round
  <2>4. Done(y, c)
    BY <2>2, ShareDone
  <2> HIDE DEF y
  <2>5. page \in Nat /\ page < UserEnd
    BY <2>2, UserPage
  <2>6. Done(z, c)
    BY <2>2, <2>4, <2>5, InsertAlone
  <2> HIDE DEF z
  <2> QED BY <2>3, <2>6, DoneTyped
<1>4. g \in [S \X (1 .. N) -> S] /\ \A x \in S, i \in 1 .. N : g[<<x, i>>] = Round(x, i)
  BY <1>3
<1> HIDE DEF N, g, Round, S
<1>5. PICK f : Rounds(f, S, k, N, g)
  BY <1>1, <1>2, <1>4, RoundsExist
<1>6. f = [i \in 0 .. N |-> IF i = 0 THEN k ELSE Round(f[i - 1], i)]
  <2>1. f \in [0 .. N -> S] /\ f[0] = k /\ \A i \in 1 .. N : f[i] = g[<<f[i - 1], i>>]
    BY <1>5 DEF Rounds
  <2>2. \A i \in 1 .. N : f[i - 1] \in S
    BY <1>1, <2>1
  <2>3. \A i \in 0 .. N : f[i] = IF i = 0 THEN k ELSE Round(f[i - 1], i)
    <3>1. SUFFICES ASSUME NEW i \in 0 .. N PROVE f[i] = IF i = 0 THEN k ELSE Round(f[i - 1], i)
      OBVIOUS
    <3>2. i = 0 \/ i \in 1 .. N
      BY <1>1
    <3> QED BY <1>4, <2>1, <2>2, <3>2
  <2>4. f = [i \in 0 .. N |-> f[i]]
    BY <2>1
  <2> QED BY <2>3, <2>4
<1>7. F = [i \in 0 .. N |-> IF i = 0 THEN k ELSE Round(F[i - 1], i)]
  BY <1>6, Zenon
<1>8. For(k, N, Round) = F[N]
  BY DEF For, F
<1> HIDE DEF F
<1>9. F[0] = k /\ \A i \in 1 .. N : F[i] = Round(F[i - 1], i)
  <2> DEFINE b == [i \in 0 .. N |-> IF i = 0 THEN k ELSE Round(F[i - 1], i)]
  <2>1. b[0] = k
    BY <1>1
  <2>2. ASSUME NEW i \in 1 .. N
        PROVE  b[i] = Round(F[i - 1], i)
    BY <1>1
  <2>3. F = b
    BY <1>7
  <2> HIDE DEF b
  <2> QED BY <2>1, <2>2, <2>3
<1>10. F[0] \in S /\ \A i \in 1 .. N : F[i - 1] \in S => F[i] \in S
  BY <1>2, <1>3, <1>9
<1>11. F[N] \in S
  BY <1>1, <1>10, RoundsStay
<1>20. Done(For(k, N, Round), c)
  BY <1>11, <1>8 DEF S
<1>21. UserspaceCopy(k, pt, addr, hi, toPt, offset, permission) = IF hi - addr < PageSize THEN k ELSE For(k, N, Round)
  BY DEF UserspaceCopy, N, Round, pages, Frame
<1> QED BY <1>0, <1>20, <1>21

\* The frames for the pages of an update
LEMMA TakeFramesOK ==
  ASSUME NEW k0, NEW c, Done(k0, c), CtxOK(c), c.dying = None, NEW pages, pages \subseteq UserPages, pages # {}
  PROVE  /\ Done(TakeFrames(k0, pages).kk, c)
         /\ TakeFrames(k0, pages).updates \in Seq([page : UserPages, frame : Frames])
<1> DEFINE Round(a, i) == IF Max(pages) + 1 - i \in pages /\ a.kk.unused # {}
                          THEN Take(a, Max(pages) + 1 - i) ELSE a
           k == [kk |-> k0, updates |-> <<>>]
           N == Max(pages) - Min(pages) + 1
           U == [page : UserPages, frame : Frames]
           D == {x \in KSet : Done(x, c)}
           S == [kk : D, updates : Seq(U)]
           g == [x \in S \X (1 .. N) |-> Round(x[1], x[2])]
           F == CHOOSE f : f = [i \in 0 .. N |-> IF i = 0 THEN k ELSE Round(f[i - 1], i)]
<1>1. N \in Nat
  <2> DEFINE e == UserEnd
             n == e - 1
  <2>1. e \in Nat /\ UserPages \subseteq 0 .. n
    BY Sizes, BoundsAssumption
  <2> HIDE DEF e
  <2>2. n \in Nat
    <3>1. PICK p \in pages : p \in 0 .. n
      BY <2>1
    <3> QED BY <2>1, <3>1
  <2> HIDE DEF n
  <2>3. pages \subseteq 0 .. n /\ pages \subseteq Nat
    BY <2>1, <2>2
  <2>4. Max(pages) \in pages /\ Min(pages) \in pages /\ Max(pages) >= Min(pages)
    BY <2>2, <2>3, MaxIn, MinIn
  <2> DEFINE a == Max(pages)
             b == Min(pages)
  <2>5. a \in Nat /\ b \in Nat /\ a >= b
    BY <2>3, <2>4
  <2> HIDE DEF a, b
  <2>6. a - b + 1 \in Nat
    BY <2>5
  <2> QED BY <2>6 DEF a, b
<1>2. k \in S
  <2>1. k0 \in D
    BY DoneTyped
  <2> HIDE DEF D, U
  <2> QED BY <2>1
<1> HIDE DEF k
<1>3. \A x \in S, i \in 1 .. N : Round(x, i) \in S
  <2>1. SUFFICES ASSUME NEW x \in S, NEW i \in 1 .. N PROVE Round(x, i) \in S
    OBVIOUS
  <2> DEFINE page == Max(pages) + 1 - i
             s == x.kk
             y == TakeFrame(s)
             f == UserFrame(s)
             u == [page |-> page, frame |-> f]
             l == Append(x.updates, u)
  <2>2. CASE ~(page \in pages /\ s.unused # {})
    BY <2>2
  <2>3. CASE page \in pages /\ s.unused # {}
    <3>1. Round(x, i) = [kk |-> y, updates |-> l]
      BY <2>3 DEF Take
    <3>2. s \in KSet /\ Done(s, c) /\ x.updates \in Seq(U)
      OBVIOUS
    <3> HIDE DEF s, Round, page
    <3>3. f \in Frames
      BY <2>3, <3>2, UnusedFrame
    <3>4. Done(y, c)
      BY <3>2, TakeFrameDone
    <3>5. u \in U
      BY <2>3, <3>3
    <3> HIDE DEF y, u, U
    <3>6. l \in Seq(U)
      BY <3>2, <3>5, PagesAppend
    <3> HIDE DEF l
    <3>7. y \in D
      BY <3>4, DoneTyped
    <3> HIDE DEF D
    <3> QED BY <3>1, <3>6, <3>7
  <2> QED BY <2>2, <2>3
<1> HIDE DEF D, U
<1>4. g \in [S \X (1 .. N) -> S] /\ \A x \in S, i \in 1 .. N : g[<<x, i>>] = Round(x, i)
  BY <1>3
<1> HIDE DEF N, g, Round, S
<1>5. PICK f : Rounds(f, S, k, N, g)
  BY <1>1, <1>2, <1>4, RoundsExist
<1>6. f = [i \in 0 .. N |-> IF i = 0 THEN k ELSE Round(f[i - 1], i)]
  <2>1. f \in [0 .. N -> S] /\ f[0] = k /\ \A i \in 1 .. N : f[i] = g[<<f[i - 1], i>>]
    BY <1>5 DEF Rounds
  <2>2. \A i \in 1 .. N : f[i - 1] \in S
    BY <1>1, <2>1
  <2>3. \A i \in 0 .. N : f[i] = IF i = 0 THEN k ELSE Round(f[i - 1], i)
    <3>1. SUFFICES ASSUME NEW i \in 0 .. N PROVE f[i] = IF i = 0 THEN k ELSE Round(f[i - 1], i)
      OBVIOUS
    <3>2. i = 0 \/ i \in 1 .. N
      BY <1>1
    <3> QED BY <1>4, <2>1, <2>2, <3>2
  <2>4. f = [i \in 0 .. N |-> f[i]]
    BY <2>1
  <2> QED BY <2>3, <2>4
<1>7. F = [i \in 0 .. N |-> IF i = 0 THEN k ELSE Round(F[i - 1], i)]
  BY <1>6, Zenon
<1>8. For(k, N, Round) = F[N]
  BY DEF For, F
<1> HIDE DEF F
<1>9. F[0] = k /\ \A i \in 1 .. N : F[i] = Round(F[i - 1], i)
  <2> DEFINE b == [i \in 0 .. N |-> IF i = 0 THEN k ELSE Round(F[i - 1], i)]
  <2>1. b[0] = k
    BY <1>1
  <2>2. ASSUME NEW i \in 1 .. N
        PROVE  b[i] = Round(F[i - 1], i)
    BY <1>1
  <2>3. F = b
    BY <1>7
  <2> HIDE DEF b
  <2> QED BY <2>1, <2>2, <2>3
<1>10. F[0] \in S /\ \A i \in 1 .. N : F[i - 1] \in S => F[i] \in S
  BY <1>2, <1>3, <1>9
<1>11. F[N] \in S
  BY <1>1, <1>10, RoundsStay
<1>20. For(k, N, Round).kk \in D /\ For(k, N, Round).updates \in Seq(U)
  BY <1>11, <1>8 DEF S
<1>21. TakeFrames(k0, pages) = For(k, N, Round)
  BY DEF TakeFrames, N, Round, k
<1> QED BY <1>20, <1>21 DEF D, U

----------------------------------------------------------------------------
(* Pinned and loaded tables                                                *)

\* The context for other tables in use.
Re(c, P, L, D) == [c EXCEPT !.pinned = P, !.loaded = L, !.dying = D]

LEMMA ReOK ==
  ASSUME NEW c, CtxOK(c), NEW P, P \subseteq Frames, PtBase \in P,
         \A f \in P : f = PtBase \/ c.lev[f] = 4, NEW L \in c.roots \cup {None},
         NEW D \in c.roots \cup {None}
  PROVE  /\ CtxOK(Re(c, P, L, D)) /\ Re(c, P, L, D).t2 = c.t2 /\ Re(c, P, L, D).t1 = c.t1
         /\ Re(c, P, L, D).roots = c.roots /\ Re(c, P, L, D).lev = c.lev /\ Re(c, P, L, D).own = c.own
         /\ Re(c, P, L, D).pinned = P /\ Re(c, P, L, D).loaded = L /\ Re(c, P, L, D).dying = D
         /\ Re(c, P, L, D).stale = c.stale
<1> DEFINE d == Re(c, P, L, D)
<1>1. c \in Ctx /\ L \in Opt /\ D \in Opt
  BY CtxTyped DEF CtxOK, Opt
<1>2. /\ d \in Ctx /\ d.t2 = c.t2 /\ d.t1 = c.t1 /\ d.roots = c.roots /\ d.lev = c.lev /\ d.own = c.own
      /\ d.pinned = P /\ d.loaded = L /\ d.dying = D /\ d.stale = c.stale
  BY <1>1 DEF Re, Ctx
<1> HIDE DEF d
<1>3. Kt(d) = Kt(c) /\ K1(d) = K1(c) /\ K2(d) = K2(c)
  BY <1>2 DEF Kt, K1, K2
<1>4. CtxKernel(d)
  BY <1>2, <1>3 DEF CtxOK, CtxKernel
<1>5. CtxSpaces(d)
  <2>1. \A f \in Frames : d.lev[f] # 0 => f \notin Kt(d) /\ d.own[f] \in d.roots
    BY <1>2, <1>3 DEF CtxOK, CtxSpaces
  <2>2. \A r \in d.roots : /\ d.lev[r] = 4 /\ d.own[r] = r
                           /\ UserRoot(r) \in Frames \ d.roots
                           /\ d.lev[UserRoot(r)] = 4 /\ d.own[UserRoot(r)] = r
    BY <1>2 DEF CtxOK, CtxSpaces
  <2>3. \A f \in Frames : d.lev[f] = 4 => f = d.own[f] \/ f = UserRoot(d.own[f])
    BY <1>2 DEF CtxOK, CtxSpaces
  <2> QED BY <1>2, <2>1, <2>2, <2>3 DEF CtxSpaces
<1> QED BY <1>2, <1>4, <1>5 DEF CtxOK, d

\* The same tables, of which others are pinned or loaded.
LEMMA ReGood ==
  ASSUME NEW k, NEW c, Good(k, c), NEW P, P \subseteq Frames, PtBase \in P,
         \A f \in P : f = PtBase \/ c.lev[f] = 4, NEW L \in c.roots \cup {None},
         NEW D \in c.roots \cup {None}, c.dying = None \/ c.dying = D,
         NEW x \in KSet, x.mem = k.mem, x.queue = k.queue, x.unused = k.unused, x.count = k.count,
         x.roots = k.roots, x.pinned = P, x.loaded = L, Accepts(x.mem, Tops(x)), TlbOK(x),
         x.loaded = None => x.tlb = NoTlb
  PROVE  Good(x, Re(c, P, L, D))
<1> DEFINE d == Re(c, P, L, D)
<1>1. Core(k, c) /\ CtxOK(c)
  BY DEF Good, Core
<1>2. /\ CtxOK(d) /\ Agree(c, d) /\ d.pinned = P /\ d.loaded = L /\ d.dying = D
      /\ d.roots = c.roots /\ d.stale = c.stale
  BY <1>1, ReOK DEF Agree
<1> HIDE DEF d
<1>3. Struct(x.mem, d)
  BY <1>1, <1>2, StructAgree DEF Core
<1>4. Allocator(x, d)
  <2>1. Kt(d) = Kt(c)
    BY <1>2 DEF Agree, Kt, K1, K2
  <2>2. \A f \in Frames : c.lev[f] # 0 => c.own[f] # None
    <3>1. None \notin c.roots
      BY <1>1, CtxTyped, Bases
    <3> QED BY <1>1, <3>1 DEF CtxOK, CtxSpaces
  <2> QED BY <1>1, <1>2, <2>1, <2>2 DEF Core, Allocator, Agree
<1>5. GoodQueue(x, d)
  BY <1>2, AllowedAgree DEF Good, GoodQueue
<1>6. Core(x, d)
  BY <1>1, <1>2, <1>3, <1>4 DEF Core
<1>7. Mirror(x, d)
  <2>1. Mirror(x, c) /\ None \notin c.roots
    BY <1>1, SameMirror, CtxTyped, Bases DEF Good
  <2> QED BY <1>2, <2>1 DEF Mirror
<1> QED BY <1>5, <1>6, <1>7 DEF Good, d

LEMMA PinHalted ==
  ASSUME NEW k \in Halted, NEW pt \in Frames
  PROVE  Pin(k, pt) \in Halted
<1>1. k \in KSet /\ k.bug
  BY DEF Halted
<1>2. [k EXCEPT !.pinned = @ \cup {pt}] \in Halted
  BY <1>1 DEF KSet, Halted
<1> QED BY <1>1, <1>2, WithTyped DEF Pin

LEMMA PinOK ==
  ASSUME NEW k, NEW c, Idle(k, c), CtxOK(c), c.dying = None, NEW pt \in Frames, c.lev[pt] = 4
  PROVE  Idle(Pin(k, pt), Re(c, c.pinned \cup {pt}, c.loaded, None))
<1> DEFINE x == [k EXCEPT !.pinned = @ \cup {pt}]
           P == c.pinned \cup {pt}
           L == c.loaded
           none == None
<1>1. CASE k \in Halted
  BY <1>1, PinHalted DEF Idle
<1>2. CASE k \notin Halted
  <2>1. Good(k, c) /\ k.queue = <<>> /\ k \in KSet /\ Core(k, c)
    BY <1>2 DEF Idle, Good, Core
  <2>2. CASE ~Accepts(k.mem, Tops(k) \cup {pt})
    BY <2>1, <2>2, WithTyped DEF Pin, Idle
  <2>3. CASE Accepts(k.mem, Tops(k) \cup {pt})
    <3>1. Pin(k, pt) = x
      BY <2>3 DEF Pin
    <3>2. /\ x \in KSet /\ x.mem = k.mem /\ x.queue = k.queue /\ x.unused = k.unused /\ x.count = k.count
          /\ x.roots = k.roots /\ x.pinned = k.pinned \cup {pt} /\ x.loaded = k.loaded /\ x.tlb = k.tlb
      BY <2>1 DEF KSet
    <3> HIDE DEF x
    <3>3. Tops(x) = Tops(k) \cup {pt}
      BY <3>2 DEF Tops
    <3>4. Accepts(x.mem, Tops(x))
      BY <2>3, <3>2, <3>3
    <3>5. TlbOK(x)
      BY <2>1, <3>2 DEF Good, TlbOK
    <3>6. k.pinned = c.pinned /\ k.loaded = c.loaded /\ (x.loaded = None => x.tlb = NoTlb)
      BY <2>1, <3>2 DEF Core
    <3>7. P \subseteq Frames /\ PtBase \in P /\ \A f \in P : f = PtBase \/ c.lev[f] = 4
      BY CtxTyped DEF CtxOK, CtxSpaces
    <3>8. L \in c.roots \cup {None} /\ none \in c.roots \cup {None} /\ (c.dying = None \/ c.dying = none)
      BY DEF CtxOK, CtxSpaces
    <3>9. x.pinned = P /\ x.loaded = L
      BY <3>2, <3>6
    <3> HIDE DEF P, L, none
    <3>10. Good(x, Re(c, P, L, none))
      BY <2>1, <3>2, <3>4, <3>5, <3>6, <3>7, <3>8, <3>9, ReGood
    <3> QED BY <2>1, <3>1, <3>2, <3>10 DEF Idle, P, L, none
  <2> QED BY <2>2, <2>3
<1> QED BY <1>1, <1>2

----------------------------------------------------------------------------
(* The end of a call                                                       *)

\* Both roots of a space are pinned, or none, and they are the same.
Paired(c) == c.stale = {} /\ \A r \in c.roots : r \in c.pinned => UserRoot(r) \in c.pinned
World(k) == k \in Halted \/ \E c : Good(k, c) /\ k.queue = <<>> /\ c.dying = None /\ Paired(c)

LEMMA WorldIs ==
  ASSUME NEW k, NEW c, Idle(k, c), c.dying = None, Paired(c)
  PROVE  World(k)
  BY DEF Idle, World

LEMMA DoneWorld ==
  ASSUME NEW k, NEW c, Done(k, c), c.dying = None, Paired(c)
  PROVE  World(k)
<1>1. PICK d : Ext(c, d) /\ Idle(k, d)
  BY DEF Done
<1>2. d.dying = None /\ Paired(d)
  BY <1>1 DEF Ext, Paired
<1> QED BY <1>1, <1>2, WorldIs

LEMMA ListTyped ==
  ASSUME NEW S, NEW s \in Seq(S), NEW a \in S, NEW b \in S
  PROVE  s \o <<a, b>> \in Seq(S) /\ Len(s \o <<a, b>>) \in Nat
  OBVIOUS

----------------------------------------------------------------------------
(* An address space goes online, and is loaded                             *)

\* The write access of all new tables goes.
ProtectAll(k, tables) == LET Round(s, i) == WriteProtect(s, PtBase, tables[i])
                         IN For(k, Len(tables), Round)
LEMMA ProtectAllOK ==
  ASSUME NEW k, NEW c, Kept(k, c), CtxOK(c), NEW tables \in Seq(Frames)
  PROVE  Kept(ProtectAll(k, tables), c)
<1> DEFINE Round(s, i) == WriteProtect(s, PtBase, tables[i])
           N == Len(tables)
           S == {x \in KSet : Kept(x, c)}
           g == [x \in S \X (1 .. N) |-> Round(x[1], x[2])]
           F == CHOOSE f : f = [i \in 0 .. N |-> IF i = 0 THEN k ELSE Round(f[i - 1], i)]
<1>1. N \in Nat
  OBVIOUS
<1>2. k \in S
  BY DEF Kept, Halted, Good, Core
<1>3. \A x \in S, i \in 1 .. N : Round(x, i) \in S
  <2>1. SUFFICES ASSUME NEW x \in S, NEW i \in 1 .. N PROVE Round(x, i) \in S
    OBVIOUS
  <2> DEFINE f == tables[i]
             y == WriteProtect(x, PtBase, f)
  <2>2. Round(x, i) = y /\ Kept(x, c)
    OBVIOUS
  <2> DEFINE R == Frames
  <2> HIDE DEF R
  <2>6. tables \in Seq(R)
    BY DEF R
  <2>7. tables[i] \in R
    BY <2>6, SeqElement
  <2>8. f \in Frames
    BY <2>7 DEF R
  <2> HIDE DEF f, Round
  <2>3. KernelRoot(c, PtBase)
    BY DEF KernelRoot
  <2>4. CASE x \in Halted
    BY <2>2, <2>4, WriteProtectHalted DEF Kept, Halted
  <2>5. CASE x \notin Halted
    <3>1. Good(x, c)
      BY <2>2, <2>5 DEF Kept
    <3>2. Goes(y, x, c)
      BY <2>3, <2>8, <3>1, WriteProtectOK
    <3> QED BY <2>2, <3>2 DEF Goes, Kept, Halted, Good, Core
  <2> QED BY <2>4, <2>5
<1>4. g \in [S \X (1 .. N) -> S] /\ \A x \in S, i \in 1 .. N : g[<<x, i>>] = Round(x, i)
  BY <1>3
<1> HIDE DEF N, g, Round, S
<1>5. PICK f : Rounds(f, S, k, N, g)
  BY <1>1, <1>2, <1>4, RoundsExist
<1>6. f = [i \in 0 .. N |-> IF i = 0 THEN k ELSE Round(f[i - 1], i)]
  <2>1. f \in [0 .. N -> S] /\ f[0] = k /\ \A i \in 1 .. N : f[i] = g[<<f[i - 1], i>>]
    BY <1>5 DEF Rounds
  <2>2. \A i \in 1 .. N : f[i - 1] \in S
    BY <1>1, <2>1
  <2>3. \A i \in 0 .. N : f[i] = IF i = 0 THEN k ELSE Round(f[i - 1], i)
    <3>1. SUFFICES ASSUME NEW i \in 0 .. N PROVE f[i] = IF i = 0 THEN k ELSE Round(f[i - 1], i)
      OBVIOUS
    <3>2. i = 0 \/ i \in 1 .. N
      BY <1>1
    <3> QED BY <1>4, <2>1, <2>2, <3>2
  <2>4. f = [i \in 0 .. N |-> f[i]]
    BY <2>1
  <2> QED BY <2>3, <2>4
<1>7. F = [i \in 0 .. N |-> IF i = 0 THEN k ELSE Round(F[i - 1], i)]
  BY <1>6, Zenon
<1>8. For(k, N, Round) = F[N]
  BY DEF For, F
<1> HIDE DEF F
<1>9. F[0] = k /\ \A i \in 1 .. N : F[i] = Round(F[i - 1], i)
  <2> DEFINE b == [i \in 0 .. N |-> IF i = 0 THEN k ELSE Round(F[i - 1], i)]
  <2>1. b[0] = k
    BY <1>1
  <2>2. ASSUME NEW i \in 1 .. N
        PROVE  b[i] = Round(F[i - 1], i)
    BY <1>1
  <2>3. F = b
    BY <1>7
  <2> HIDE DEF b
  <2> QED BY <2>1, <2>2, <2>3
<1>10. F[0] \in S /\ \A i \in 1 .. N : F[i - 1] \in S => F[i] \in S
  BY <1>2, <1>3, <1>9
<1>11. F[N] \in S
  BY <1>1, <1>10, RoundsStay
<1>20. Kept(For(k, N, Round), c)
  BY <1>11, <1>8 DEF S
<1>21. ProtectAll(k, tables) = For(k, N, Round)
  BY DEF N, Round, ProtectAll
<1> QED BY <1>20, <1>21

\* The list of new tables is empty again.
LEMMA ListEmptied ==
  ASSUME NEW k, NEW c, Idle(k, c)
  PROVE  Idle([k EXCEPT !.noWrite = <<>>], c)
<1> DEFINE x == [k EXCEPT !.noWrite = <<>>]
<1>1. k \in KSet
  BY DEF Idle, Halted, Good, Core
<1>2. <<>> \in Lists
  BY SizesAssumption DEF Lists
<1>3. /\ x \in KSet /\ x.mem = k.mem /\ x.queue = k.queue /\ x.tlb = k.tlb /\ x.roots = k.roots
      /\ x.pinned = k.pinned /\ x.loaded = k.loaded /\ x.unused = k.unused /\ x.count = k.count
      /\ (x.bug = k.bug)
  BY <1>1, <1>2 DEF KSet
<1> HIDE DEF x
<1>4. CASE k \in Halted
  BY <1>3, <1>4 DEF Halted, Idle, x
<1>5. CASE k \notin Halted
  <2>1. Good(k, c) /\ k.queue = <<>> /\ Allocator(k, c)
    BY <1>5 DEF Idle, Good, Core
  <2>2. Allocator(x, c) /\ Alike(x, k)
    BY <1>3, <2>1 DEF Allocator, Alike
  <2>3. Good(x, c)
    BY <1>3, <2>1, <2>2, AlikeOK
  <2> QED BY <1>3, <2>1, <2>3 DEF Idle, x
<1> QED BY <1>4, <1>5

\* The tables of a space, both its roots pinned
Pinned(c, pt) == Re(c, (c.pinned \cup {pt}) \cup {UserRoot(pt)}, c.loaded, None)

LEMMA PinnedOK ==
  ASSUME NEW c, CtxOK(c), c.dying = None, NEW pt \in c.roots
  PROVE  /\ CtxOK(Pinned(c, pt)) /\ Pinned(c, pt).roots = c.roots /\ Pinned(c, pt).dying = None
         /\ pt \in Pinned(c, pt).pinned /\ UserRoot(pt) \in Pinned(c, pt).pinned
         /\ Paired(c) => Paired(Pinned(c, pt))
<1> DEFINE P == (c.pinned \cup {pt}) \cup {UserRoot(pt)}
           L == c.loaded
           none == None
           d == Re(c, P, L, none)
<1>1. /\ c.roots \subseteq Frames /\ c.pinned \subseteq Frames /\ UserRoot(pt) \in Frames
      /\ c.lev[pt] = 4 /\ c.lev[UserRoot(pt)] = 4 /\ UserRoot(pt) \notin c.roots
  BY CtxTyped DEF CtxOK, CtxSpaces
<1>2. P \subseteq Frames /\ PtBase \in P /\ \A f \in P : f = PtBase \/ c.lev[f] = 4
  BY <1>1 DEF CtxOK, CtxSpaces
<1>3. L \in c.roots \cup {None} /\ none \in c.roots \cup {None}
  BY DEF CtxOK, CtxSpaces
<1>4. pt \in P /\ UserRoot(pt) \in P /\ c.pinned \subseteq P
  OBVIOUS
<1>5. \A r \in c.roots : r \in P => r \in c.pinned \/ r = pt
  BY <1>1
<1> HIDE DEF P, L, none
<1>6. /\ CtxOK(d) /\ d.t2 = c.t2 /\ d.t1 = c.t1 /\ d.roots = c.roots /\ d.lev = c.lev /\ d.own = c.own
      /\ d.pinned = P /\ d.loaded = L /\ d.dying = none /\ d.stale = c.stale
  BY <1>2, <1>3, ReOK
<1>7. Pinned(c, pt) = d
  BY DEF Pinned, d, P, L, none
<1> HIDE DEF d
<1>8. Paired(c) => Paired(d)
  BY <1>4, <1>5, <1>6 DEF Paired
<1> QED BY <1>4, <1>6, <1>7, <1>8 DEF none

\* archPageTableOfflineCompleteExisting
LEMMA CompleteOK ==
  ASSUME NEW k, NEW c, Good(k, c), k.queue = <<>>, c.dying = None, NEW pt \in c.roots
  PROVE  Idle(OfflineCompleteExisting(k, pt), Pinned(c, pt))
<1> DEFINE tables == k.noWrite \o <<pt, UserRoot(pt)>>
           w == ProtectAll(k, tables)
           x == DoUpdate(w)
           y == Pin(x, pt)
           z == Pin(y, UserRoot(pt))
           q == UserRoot(pt)
           P == c.pinned \cup {pt}
           L == c.loaded
           none == None
           d == Re(c, P, L, none)
<1>1. k \in KSet /\ CtxOK(c) /\ k.noWrite \in Seq(Frames)
  BY KTyped DEF Good, Core
<1>2. /\ pt \in Frames /\ q \in Frames /\ c.lev[pt] = 4 /\ c.lev[q] = 4
  BY <1>1, CtxTyped DEF CtxOK, CtxSpaces
<1>3. OfflineCompleteExisting(k, pt) =
        IF Len(k.noWrite) + 2 > MaxPts THEN Stop(k) ELSE [z EXCEPT !.noWrite = <<>>]
  BY DEF OfflineCompleteExisting, ProtectAll
<1>4. tables \in Seq(Frames)
  <2> HIDE DEF q
  <2>1. k.noWrite \o <<pt, q>> \in Seq(Frames)
    BY <1>1, <1>2, ListTyped
  <2> QED BY <2>1 DEF q
<1> HIDE DEF tables
<1>5. Kept(w, c)
  <2>1. Kept(k, c)
    BY DEF Kept
  <2> QED BY <1>1, <1>4, <2>1, ProtectAllOK
<1> HIDE DEF w
<1>6. Idle(x, c)
  BY <1>5, UpdateIdle
<1> HIDE DEF x
<1>7. Idle(y, Re(c, c.pinned \cup {pt}, c.loaded, None))
  BY <1>1, <1>2, <1>6, PinOK
<1>8. P \subseteq Frames /\ PtBase \in P /\ \A f \in P : f = PtBase \/ c.lev[f] = 4
  BY <1>1, <1>2, CtxTyped DEF CtxOK, CtxSpaces
<1>9. L \in c.roots \cup {None} /\ none \in c.roots \cup {None}
  BY <1>1 DEF CtxOK, CtxSpaces
<1>10. Idle(y, d)
  BY <1>7
<1> HIDE DEF y, P, L, none, q
<1>11. /\ CtxOK(d) /\ d.t2 = c.t2 /\ d.t1 = c.t1 /\ d.roots = c.roots /\ d.lev = c.lev /\ d.own = c.own
       /\ d.pinned = P /\ d.loaded = L /\ d.dying = none
  BY <1>1, <1>8, <1>9, ReOK
<1>12. d = [c EXCEPT !.pinned = P, !.loaded = L, !.dying = none]
  BY DEF d, Re
<1> HIDE DEF d
<1>13. Idle(Pin(y, q), Re(d, d.pinned \cup {q}, d.loaded, None))
  BY <1>2, <1>10, <1>11, PinOK DEF none
<1>14. Re(d, d.pinned \cup {q}, d.loaded, None) = Pinned(c, pt)
  <2>1. c \in Ctx
    BY <1>1 DEF CtxOK
  <2>2. Re(d, d.pinned \cup {q}, d.loaded, None) = [d EXCEPT !.pinned = P \cup {q}, !.loaded = L, !.dying = none]
    BY <1>11 DEF Re, none
  <2>3. [d EXCEPT !.pinned = P \cup {q}, !.loaded = L, !.dying = none]
           = [c EXCEPT !.pinned = P \cup {q}, !.loaded = L, !.dying = none]
    BY <1>12, <2>1 DEF Ctx
  <2> QED BY <2>2, <2>3 DEF Pinned, Re, P, L, none, q
<1>15. Idle(z, Pinned(c, pt))
  BY <1>13, <1>14 DEF q
<1> HIDE DEF z
<1>16. Idle([z EXCEPT !.noWrite = <<>>], Pinned(c, pt))
  BY <1>15, ListEmptied
<1>17. Idle(Stop(k), Pinned(c, pt))
  BY <1>1, WithTyped DEF Idle
<1> QED BY <1>3, <1>16, <1>17

\* pageTableSwitch: the root is one of those that are pinned.
Loading(c, pt) == Re(c, c.pinned, pt, None)

LEMMA SwitchOK ==
  ASSUME NEW k, NEW c, Idle(k, c), CtxOK(c), c.dying = None, NEW pt \in c.roots, pt \in c.pinned,
         UserRoot(pt) \in c.pinned
  PROVE  Idle(PageTableSwitch(k, pt), Loading(c, pt))
<1> DEFINE x == [k EXCEPT !.loaded = pt]
           y == [x EXCEPT !.tlb = NoTlb]
           P == c.pinned
           none == None
<1>1. pt \in Frames /\ pt # None
  BY CtxTyped, Bases DEF CtxOK
<1>2. k \in KSet
  BY DEF Idle, Halted, Good, Core
<1>3. /\ x \in KSet /\ x.mem = k.mem /\ x.queue = k.queue /\ x.unused = k.unused /\ x.count = k.count
      /\ x.roots = k.roots /\ x.pinned = k.pinned /\ x.loaded = pt /\ (x.bug = k.bug)
  BY <1>1, <1>2 DEF KSet, Opt
<1>4. PageTableSwitch(k, pt) = PageTableLoad(x)
  BY DEF PageTableSwitch
<1> HIDE DEF x
<1>5. PageTableLoad(x) = y
  BY <1>1, <1>3 DEF PageTableLoad
<1>6. y \in KSet /\ y.tlb = NoTlb /\ y.mem = x.mem /\ y.queue = x.queue /\ Elsewhere(y, x)
  BY <1>3, WithTlb, NoTlbTyped
<1> HIDE DEF y
<1>7. CASE k \in Halted
  BY <1>3, <1>4, <1>5, <1>6, <1>7 DEF Halted, Elsewhere, Idle
<1>8. CASE k \notin Halted
  <2>1. Good(k, c) /\ k.queue = <<>> /\ Core(k, c)
    BY <1>8 DEF Idle, Good
  <2>2. Tops(y) = k.pinned \cup {pt, UserRoot(pt)}
    BY <1>1, <1>3, <1>6 DEF Tops, Elsewhere
  <2>3. Tops(y) \subseteq Tops(k)
    BY <2>1, <2>2 DEF Tops, Core
  <2>4. Accepts(y.mem, Tops(y))
    <3> DEFINE S == Tops(y)
               T == Tops(k)
               m == k.mem
    <3>1. S \subseteq T /\ Accepts(m, T) /\ y.mem = m
      BY <1>3, <1>6, <2>1, <2>3 DEF Core
    <3> HIDE DEF S, T, m
    <3>2. Accepts(m, S)
      BY <3>1, InUseFewer
    <3> QED BY <3>1, <3>2 DEF S
  <2>5. TlbOK(y)
    BY <1>6, NoTlbTyped DEF TlbOK
  <2>6. P \subseteq Frames /\ PtBase \in P /\ \A f \in P : f = PtBase \/ c.lev[f] = 4
    BY CtxTyped DEF CtxOK, CtxSpaces
  <2>7. pt \in c.roots \cup {None} /\ none \in c.roots \cup {None} /\ (c.dying = None \/ c.dying = none)
    OBVIOUS
  <2>8. /\ y.mem = k.mem /\ y.queue = k.queue /\ y.unused = k.unused /\ y.count = k.count
        /\ y.roots = k.roots /\ y.pinned = P /\ y.loaded = pt /\ (y.loaded = None => y.tlb = NoTlb)
    BY <1>3, <1>6, <2>1 DEF Elsewhere, Core
  <2> HIDE DEF P, none
  <2>9. Good(y, Re(c, P, pt, none))
    BY <1>6, <2>1, <2>4, <2>5, <2>6, <2>7, <2>8, ReGood
  <2> QED BY <1>4, <1>5, <2>1, <2>8, <2>9 DEF Idle, Loading, P, none
<1> QED BY <1>7, <1>8

----------------------------------------------------------------------------
(* A new address space                                                     *)

Rooted(c, r) == [c EXCEPT !.roots = c.roots \cup {r},
                          !.lev = [[c.lev EXCEPT ![r] = 4] EXCEPT ![UserRoot(r)] = 4],
                          !.own = [[c.own EXCEPT ![r] = r] EXCEPT ![UserRoot(r)] = r]]

LEMMA RootedOK ==
  ASSUME NEW c, CtxOK(c), NEW r \in Frames, Loose(c, r), UserRoot(r) \in Frames, Loose(c, UserRoot(r))
  PROVE  /\ CtxOK(Rooted(c, r)) /\ Rooted(c, r).t2 = c.t2 /\ Rooted(c, r).t1 = c.t1
         /\ Rooted(c, r).roots = c.roots \cup {r} /\ Rooted(c, r).pinned = c.pinned
         /\ Rooted(c, r).loaded = c.loaded /\ Rooted(c, r).dying = c.dying
         /\ Rooted(c, r).stale = c.stale
         /\ \A f \in Frames : f # r /\ f # UserRoot(r) =>
               Rooted(c, r).lev[f] = c.lev[f] /\ Rooted(c, r).own[f] = c.own[f]
         /\ \A f \in {r, UserRoot(r)} : Rooted(c, r).lev[f] = 4 /\ Rooted(c, r).own[f] = r
<1> DEFINE d == Rooted(c, r)
           q == UserRoot(r)
           lev == [[c.lev EXCEPT ![r] = 4] EXCEPT ![q] = 4]
           own == [[c.own EXCEPT ![r] = r] EXCEPT ![q] = r]
           grown == c.roots \cup {r}
<1>1. c \in Ctx /\ q \in Frames /\ q # r /\ r \in Opt /\ grown \subseteq Frames
  BY CtxTyped DEF CtxOK, Frames, UserRoot, Opt
<1>2. /\ lev \in [Frames -> 0 .. 4] /\ lev[r] = 4 /\ lev[q] = 4
      /\ \A f \in Frames : f # r /\ f # q => lev[f] = c.lev[f]
  BY <1>1 DEF Ctx
<1>3. /\ own \in [Frames -> Opt] /\ own[r] = r /\ own[q] = r
      /\ \A f \in Frames : f # r /\ f # q => own[f] = c.own[f]
  BY <1>1 DEF Ctx
<1>4. d = [c EXCEPT !.roots = grown, !.lev = lev, !.own = own]
  BY DEF Rooted
<1> HIDE DEF lev, own, grown, d
<1>5. /\ d \in Ctx /\ d.roots = grown /\ d.lev = lev /\ d.own = own /\ d.t2 = c.t2 /\ d.t1 = c.t1
      /\ d.pinned = c.pinned /\ d.loaded = c.loaded /\ d.dying = c.dying /\ d.stale = c.stale
  BY <1>1, <1>2, <1>3, <1>4 DEF Ctx
<1>6. Kt(d) = Kt(c) /\ K1(d) = K1(c) /\ K2(d) = K2(c)
  BY <1>5 DEF Kt, K1, K2
<1>7. CtxKernel(d)
  BY <1>5, <1>6 DEF CtxOK, CtxKernel
<1>8. CtxSpaces(d)
  <2> USE <1>1, <1>2, <1>3, <1>5, <1>6
  <2>1. \A f \in Frames : d.lev[f] # 0 => f \notin Kt(d) /\ d.own[f] \in d.roots
    BY DEF CtxOK, CtxSpaces, Loose, grown
  <2>2. ASSUME NEW s \in d.roots
        PROVE  /\ d.lev[s] = 4 /\ d.own[s] = s /\ UserRoot(s) \in Frames \ d.roots
               /\ d.lev[UserRoot(s)] = 4 /\ d.own[UserRoot(s)] = s
    <3>1. CASE s = r
      <4>1. q \notin c.roots
        BY DEF CtxOK, CtxSpaces, Loose
      <4> QED BY <3>1, <4>1 DEF grown
    <3>2. CASE s # r
      <4>1. /\ s \in c.roots /\ c.lev[s] = 4 /\ c.own[s] = s /\ UserRoot(s) \in Frames \ c.roots
            /\ c.lev[UserRoot(s)] = 4 /\ c.own[UserRoot(s)] = s /\ s \in Frames
        BY <3>2, CtxTyped DEF grown, CtxOK, CtxSpaces
      <4>2. c.lev[r] = 0 /\ c.lev[q] = 0
        BY DEF Loose
      <4>3. s # q /\ UserRoot(s) # r /\ UserRoot(s) # q
        BY <4>1, <4>2
      <4> HIDE DEF q
      <4> QED BY <3>2, <4>1, <4>3 DEF grown
    <3> QED BY <3>1, <3>2
  <2>3. \A f \in Frames : d.lev[f] = 4 => f = d.own[f] \/ f = UserRoot(d.own[f])
    BY DEF CtxOK, CtxSpaces
  <2>4. \A f \in d.pinned : f = PtBase \/ d.lev[f] = 4
    <3>1. ASSUME NEW f \in c.pinned, f # PtBase
          PROVE  f \in Frames /\ c.lev[f] = 4
      BY <3>1, CtxTyped DEF CtxOK, CtxSpaces
    <3>2. ASSUME NEW f \in c.pinned, f # PtBase
          PROVE  d.lev[f] = 4
      <4>1. f \in Frames /\ c.lev[f] = 4
        BY <3>1, <3>2
      <4>2. CASE f = r \/ f = q
        BY <4>2
      <4>3. CASE f # r /\ f # q
        BY <4>1, <4>3
      <4> QED BY <4>2, <4>3
    <3> QED BY <3>2
  <2>5. PtBase \in d.pinned /\ d.loaded \in d.roots \cup {None} /\ d.dying \in d.roots \cup {None}
    BY DEF CtxOK, CtxSpaces, grown
  <2> QED BY <2>1, <2>2, <2>3, <2>4, <2>5 DEF CtxSpaces
<1>9. CtxOK(d)
  BY <1>5, <1>7, <1>8 DEF CtxOK
<1> QED BY <1>2, <1>3, <1>5, <1>9 DEF d, grown

\* A root with the kernel's half, and one that is empty
LEMMA RootedStruct ==
  ASSUME NEW c, CtxOK(c), NEW r \in Frames, Loose(c, r), UserRoot(r) \in Frames, Loose(c, UserRoot(r)),
         NEW n \in Memory, Struct(n, c), n[r] = KernelHalf(n[PtBase]), n[UserRoot(r)] = Cleared
  PROVE  Struct(n, Rooted(c, r))
<1> DEFINE d == Rooted(c, r)
           q == UserRoot(r)
<1>1. /\ CtxOK(d) /\ d.t2 = c.t2 /\ d.t1 = c.t1 /\ d.roots = c.roots \cup {r}
      /\ \A f \in Frames : f # r /\ f # q => d.lev[f] = c.lev[f] /\ d.own[f] = c.own[f]
      /\ d.lev[r] = 4 /\ d.lev[q] = 4 /\ d.own[r] = r /\ d.own[q] = r
  BY RootedOK
<1> HIDE DEF d
<1>2. q \notin d.roots /\ q # r /\ c.lev[r] = 0 /\ c.lev[q] = 0
  <2>1. r \in d.roots
    BY <1>1
  <2>2. q \in Frames \ d.roots
    BY <1>1, <2>1 DEF CtxOK, CtxSpaces
  <2> QED BY <2>1, <2>2 DEF Loose
<1>3. Shape(n, d)
  BY <1>1 DEF Struct, Shape
<1>4. Kernel(n, d)
  <2>1. \A f : Loc(d, f) = Loc(c, f)
    BY <1>1 DEF Loc
  <2> QED BY <2>1 DEF Struct, Kernel
<1>5. ASSUME NEW t \in Frames, c.lev[t] \in 2 .. 4, NEW v, Fits(c, t, v)
      PROVE  Fits(d, t, v)
  <2>1. CASE v = Free
    BY <2>1 DEF Fits
  <2>2. CASE v # Free
    <3>1. v.frame \in Frames /\ c.lev[v.frame] = c.lev[t] - 1 /\ c.own[v.frame] = c.own[t]
      BY <1>5, <2>2 DEF Fits
    <3>2. d.lev[t] = c.lev[t] /\ d.own[t] = c.own[t]
      BY <1>1, <1>2, <1>5
    <3>3. c.lev[v.frame] # 0
      BY <1>5, <3>1
    <3>4. d.lev[v.frame] = c.lev[v.frame] /\ d.own[v.frame] = c.own[v.frame]
      BY <1>1, <1>2, <3>1, <3>3
    <3> QED BY <3>1, <3>2, <3>4 DEF Fits
  <2> QED BY <2>1, <2>2
<1>6. Trees(n, d)
  <2>1. SUFFICES ASSUME NEW t \in Frames
                 PROVE  /\ d.lev[t] = 4 => Top(n, d, t)
                        /\ d.lev[t] = 3 => \A i \in I3 : Fits(d, t, n[t][i])
                        /\ d.lev[t] = 2 => \A i \in I2 : Fits(d, t, n[t][i])
    BY DEF Trees
  <2>2. CASE t = r
    <3>1. ASSUME NEW i \in 0 .. Entries[4] - 1
          PROVE  n[t][i] = IF i = PtUserEntries THEN KernelEntry ELSE Free
      <4>1. i \in Index /\ PtUserEntries \in Nat /\ Entries[4] \in Nat
        BY Bases, Sizes
      <4>2. n[r][i] = IF i \in PtUserEntries .. (Entries[4] - 1) THEN n[PtBase][i] ELSE Free
        BY <4>1 DEF KernelHalf, Index
      <4>3. n[PtBase][i] = IF i = PtUserEntries THEN KernelEntry ELSE Free
        BY DEF Struct, Shape
      <4> QED BY <2>2, <4>1, <4>2, <4>3
    <3>2. Top(n, d, t)
      BY <1>1, <2>2, <3>1, Sizes DEF Top, Fits
    <3> QED BY <1>1, <2>2, <3>2
  <2>3. CASE t = q
    <3>1. \A i \in 0 .. Entries[4] - 1 : n[t][i] = Free
      BY <2>3, ClearedTyped, Bases
    <3>2. Top(n, d, t)
      BY <1>2, <2>3, <3>1 DEF Top, Fits
    <3> QED BY <1>1, <2>3, <3>2
  <2>4. CASE t # r /\ t # q
    <3>1. d.lev[t] = c.lev[t] /\ (t \in d.roots <=> t \in c.roots)
      BY <1>1, <2>4
    <3>2. ASSUME c.lev[t] = 4
          PROVE  Top(n, d, t)
      <4>1. Top(n, c, t)
        BY <3>2 DEF Struct, Trees
      <4>2. \A v : Fits(c, t, v) => Fits(d, t, v)
        BY <1>5, <3>2
      <4> QED BY <3>1, <4>1, <4>2 DEF Top
    <3>3. c.lev[t] = 3 => \A i \in I3 : Fits(d, t, n[t][i])
      BY <1>5 DEF Struct, Trees
    <3>4. c.lev[t] = 2 => \A i \in I2 : Fits(d, t, n[t][i])
      BY <1>5 DEF Struct, Trees
    <3> QED BY <3>1, <3>2, <3>3, <3>4
  <2> QED BY <2>2, <2>3, <2>4
<1> QED BY <1>3, <1>4, <1>6 DEF Struct, d

\* The frames of the new roots are no longer free.
NewSpace(k, new) == [k EXCEPT !.unused = @ \ {new, UserRoot(new)}, !.roots = @ \cup {new}]

LEMMA CloneMemory ==
  ASSUME NEW m \in Memory, NEW new \in Frames, UserRoot(new) \in Frames, new # PtBase
  PROVE  \E n \in Memory :
            /\ n = [[m EXCEPT ![new] = KernelHalf(m[PtBase])] EXCEPT ![UserRoot(new)] = Cleared]
            /\ n[new] = KernelHalf(m[PtBase]) /\ n[UserRoot(new)] = Cleared
            /\ \A t \in Frames : t # new /\ t # UserRoot(new) => n[t] = m[t]
<1> DEFINE q == UserRoot(new)
           a == KernelHalf(m[PtBase])
           n == [[m EXCEPT ![new] = a] EXCEPT ![q] = Cleared]
<1>1. q # new
  BY DEF Frames, UserRoot
<1>2. a \in Tab
  <2>1. m[PtBase] \in Tab
    BY Bases DEF Memory
  <2> QED BY <2>1, FreeEntry DEF KernelHalf, Tab, Index
<1>3. Cleared \in Tab
  BY ClearedTyped
<1> HIDE DEF a
<1>4. /\ n \in Memory /\ n[new] = a /\ n[q] = Cleared
      /\ \A t \in Frames : t # new /\ t # q => n[t] = m[t]
  BY <1>1, <1>2, <1>3 DEF Memory
<1> QED BY <1>4 DEF a

\* archPageTableOfflineClone, for pageTableAlloc
LEMMA CloneOK ==
  ASSUME NEW k, NEW c, Good(k, c), k.queue = <<>>, c.dying = None, Paired(c), NEW new \in k.unused,
         UserRoot(new) \in k.unused
  PROVE  World(OfflineClone(NewSpace(k, new), new, PtBase))
<1> DEFINE q == UserRoot(new)
           b == NewSpace(k, new)
           m == k.mem
           y(n) == [b EXCEPT !.mem = n]
           d == Rooted(c, new)
<1>1. Core(k, c) /\ k \in KSet /\ m \in Memory /\ CtxOK(c) /\ Struct(m, c)
  BY KTyped DEF Good, Core
<1>2. /\ new \in Frames /\ Loose(c, new) /\ k.count[new] = 0
      /\ q \in Frames /\ Loose(c, q) /\ k.count[q] = 0
  BY <1>1, UnusedLoose
<1>3. new # PtBase /\ q # PtBase /\ q # new
  BY <1>2 DEF Loose, Kt, Frames, UserRoot
<1>4. PICK n \in Memory :
            /\ n = [[m EXCEPT ![new] = KernelHalf(m[PtBase])] EXCEPT ![q] = Cleared]
            /\ n[new] = KernelHalf(m[PtBase]) /\ n[q] = Cleared
            /\ \A t \in Frames : t # new /\ t # q => n[t] = m[t]
  BY <1>1, <1>2, <1>3, CloneMemory
<1>5. /\ b \in KSet /\ b.mem = m /\ b.unused = k.unused \ {new, q} /\ b.roots = k.roots \cup {new}
      /\ b.count = k.count /\ b.queue = k.queue /\ b.pinned = k.pinned /\ b.loaded = k.loaded
      /\ b.tlb = k.tlb
  BY <1>1, <1>2 DEF KSet, NewSpace
<1> HIDE DEF b
<1>6. OfflineClone(b, new, PtBase) \in {Stop(b), y(n)}
  <2>1. [b EXCEPT !.mem[new] = KernelHalf(b.mem[PtBase]), !.mem[q] = Cleared]
          = [b EXCEPT !.mem = [[b.mem EXCEPT ![new] = KernelHalf(b.mem[PtBase])] EXCEPT ![q] = Cleared]]
    BY <1>5 DEF KSet
  <2>2. [b EXCEPT !.mem[new] = KernelHalf(b.mem[PtBase]), !.mem[q] = Cleared] = y(n)
    BY <1>4, <1>5, <2>1
  <2> HIDE DEF y
  <2> QED BY <2>2 DEF OfflineClone
<1>7. Stop(b) \in Halted
  BY <1>5, WithTyped
<1> DEFINE x == y(n)
<1>8. /\ x \in KSet /\ x.mem = n /\ x.queue = b.queue /\ x.tlb = b.tlb /\ Elsewhere(x, b)
  BY <1>5, WithMem
<1>9. OfflineClone(b, new, PtBase) \in {Stop(b), x}
  BY <1>6
<1> HIDE DEF x, y
<1>10. Same(m, n, InUse(m, Tops(k)))
  <2>1. \A t \in InUse(m, Tops(k)) : t \in Frames /\ Table(c, t)
    BY <1>1, InUseTables
  <2> QED BY <1>2, <1>4, <2>1 DEF Same, Table, Loose
<1>11. Struct(n, c)
  <2>1. \A t \in Frames : Table(c, t) => t # new /\ t # q
    BY <1>2 DEF Table, Loose
  <2>2. \A t \in Frames : Table(c, t) => n[t] = m[t]
    BY <1>4, <2>1
  <2> QED BY <1>1, <2>2, StructSame
<1>12. n[PtBase] = m[PtBase]
  BY <1>3, <1>4, Bases
<1>13. Struct(n, d)
  BY <1>1, <1>2, <1>4, <1>11, <1>12, RootedStruct
<1>14. /\ CtxOK(d) /\ d.t2 = c.t2 /\ d.t1 = c.t1 /\ d.roots = c.roots \cup {new} /\ d.pinned = c.pinned
       /\ d.loaded = c.loaded /\ d.dying = c.dying /\ d.stale = c.stale
       /\ \A f \in Frames : f # new /\ f # q => d.lev[f] = c.lev[f] /\ d.own[f] = c.own[f]
       /\ \A f \in {new, q} : d.lev[f] = 4 /\ d.own[f] = new
  BY <1>1, <1>2, RootedOK
<1> HIDE DEF d
<1>15. Allocator(x, d)
  <2>1. Kt(d) = Kt(c)
    BY <1>14 DEF Kt, K1, K2
  <2>2. Allocator(k, c) /\ x.unused = k.unused \ {new, q} /\ x.count = k.count
    BY <1>1, <1>5, <1>8 DEF Core, Elsewhere
  <2>3. SUFFICES ASSUME NEW f \in Frames
                 PROVE  /\ f \in x.unused => f \notin Kt(d) /\ x.count[f] = 0 /\ (d.lev[f] = 0 \/ d.own[f] = d.dying)
                        /\ x.count[f] # 0 => f \notin Kt(d) /\ d.lev[f] = 0
    BY DEF Allocator
  <2>4. CASE f = new \/ f = q
    BY <1>2, <2>2, <2>4
  <2>5. CASE f # new /\ f # q
    BY <1>14, <2>1, <2>2, <2>5 DEF Allocator
  <2> QED BY <2>4, <2>5
<1>16. Tops(x) = Tops(k) /\ Accepts(n, Tops(k))
  <2>1. Tops(x) = Tops(k)
    BY <1>5, <1>8 DEF Tops, Elsewhere
  <2>2. Accepts(m, Tops(k))
    BY <1>1 DEF Core
  <2> QED BY <1>10, <2>1, <2>2, InUseSame
<1>17. Core(x, d)
  BY <1>1, <1>5, <1>8, <1>13, <1>14, <1>15, <1>16 DEF Core, Elsewhere
<1>18. TlbOK(x)
  <2>1. SUFFICES ASSUME x.tlb.page # None
                 PROVE  EntryAt(n, PteGetPtr(n, x.loaded, x.tlb.page)) = x.tlb.pte
    BY <1>8 DEF TlbOK
  <2>2. x.tlb = k.tlb /\ x.loaded = k.loaded
    BY <1>5, <1>8 DEF Elsewhere
  <2>3. k.loaded # None
    BY <1>1, <2>1, <2>2, NoTlbTyped DEF Core
  <2>4. k.loaded \in Tops(k) /\ k.loaded \in Frames
    BY <1>1, <2>3, TopsKnown
  <2>5. k.tlb.page \in Nat
    <3>1. k.tlb.page \in UserPages
      BY <1>1, <2>1, <2>2, KTyped DEF Cache
    <3> QED BY <3>1, UserPage
  <2>6. EntryAt(m, PteGetPtr(m, k.loaded, k.tlb.page)) = k.tlb.pte
    BY <2>1, <2>2 DEF Good, TlbOK
  <2>7. /\ PteGetPtr(n, k.loaded, k.tlb.page) = PteGetPtr(m, k.loaded, k.tlb.page)
        /\ EntryAt(n, PteGetPtr(m, k.loaded, k.tlb.page)) = EntryAt(m, PteGetPtr(m, k.loaded, k.tlb.page))
    <3> DEFINE tops == Tops(k)
               pt == k.loaded
               page == k.tlb.page
    <3>1. Same(m, n, InUse(m, tops)) /\ pt \in tops /\ pt \in Frames /\ page \in Nat
      BY <1>10, <2>4, <2>5
    <3> HIDE DEF tops, pt, page, m
    <3>2. m \in Memory
      BY <1>1
    <3>3. /\ PteGetPtr(n, pt, page) = PteGetPtr(m, pt, page)
          /\ EntryAt(n, PteGetPtr(m, pt, page)) = EntryAt(m, PteGetPtr(m, pt, page))
      BY <3>1, <3>2, WalkSame
    <3> QED BY <3>3 DEF pt, page
  <2> QED BY <2>2, <2>6, <2>7
<1>19. x.queue = <<>> /\ GoodQueue(x, d)
  BY <1>5, <1>8 DEF GoodQueue
<1>20. Paired(d)
  <2>1. new \notin c.pinned
    BY <1>1, <1>2, <1>3 DEF CtxOK, CtxSpaces, Loose
  <2> QED BY <1>14, <2>1 DEF Paired
<1>21. Mirror(x, d)
  <2>1. \A t \in Frames : Table(c, t) => n[t] = m[t]
    BY <1>2, <1>4 DEF Table, Loose
  <2>2. SameRoots(m, n, c)
    BY <1>1, <2>1, TablesRoots
  <2>3. Mirror(x, c)
    BY <1>5, <1>8, <2>2, RootsMirror DEF Good
  <2>4. ASSUME NEW i \in 0 .. PtUserEntries - 1
        PROVE  Mirrored(x, new, i)
    <3>1. i \in Index /\ i \notin PtUserEntries .. (Entries[4] - 1)
      BY Sizes, Bases DEF Index
    <3>2. n[new][i] = Free /\ n[q][i] = Free
      BY <1>4, <3>1, ClearedTyped DEF KernelHalf, Index
    <3>3. Final(x, new, i, Free) /\ Final(x, q, i, Free)
      BY <1>8, <1>19, <3>2 DEF Final
    <3> QED BY <3>3 DEF Mirrored
  <2>5. ASSUME NEW r \in c.roots, NEW i \in 0 .. PtUserEntries - 1, r # d.dying, <<r, i>> \notin d.stale
        PROVE  Mirrored(x, r, i)
    BY <1>14, <2>3, <2>5 DEF Mirror
  <2> QED BY <1>14, <2>4, <2>5 DEF Mirror
<1>22. World(x)
  BY <1>14, <1>17, <1>18, <1>19, <1>20, <1>21 DEF Good, World
<1> QED BY <1>7, <1>9, <1>22 DEF World, b

----------------------------------------------------------------------------
(* The end of an address space                                             *)

\* An entry of a table of level 2, 3 or 4 of an address space
TreeEntry(c, t, i) ==
    /\ t \in Frames /\ i \in Index /\ c.lev[t] \in 2 .. 4
    /\ (c.lev[t] = 4 => i < PtUserEntries) /\ (c.lev[t] = 3 => i \in I3) /\ (c.lev[t] = 2 => i \in I2)

LEMMA TreeFits ==
  ASSUME NEW c, NEW m, Struct(m, c), NEW t, NEW i, TreeEntry(c, t, i)
  PROVE  Fits(c, t, m[t][i])
<1>1. CASE c.lev[t] = 4
  <2>1. i \in 0 .. Entries[4] - 1
    BY <1>1, Sizes DEF TreeEntry, Index
  <2> QED BY <1>1, <2>1 DEF TreeEntry, Struct, Trees, Top
<1>2. CASE c.lev[t] = 3
  BY <1>2 DEF TreeEntry, Struct, Trees
<1>3. CASE c.lev[t] = 2
  BY <1>3 DEF TreeEntry, Struct, Trees
<1> QED BY <1>1, <1>2, <1>3 DEF TreeEntry

\* A table of the space that ends is given back.
LEMMA ReleaseOK ==
  ASSUME NEW k, NEW c, Good(k, c), NEW f \in Frames, c.lev[f] # 0, c.own[f] = c.dying
  PROVE  Good(PtpRelease(k, f), c)
<1> DEFINE x == PtpRelease(k, f)
<1>1. k \in KSet /\ Allocator(k, c) /\ CtxOK(c)
  BY DEF Good, Core
<1>2. /\ x \in KSet /\ x.mem = k.mem /\ x.queue = k.queue /\ x.tlb = k.tlb /\ x.roots = k.roots
      /\ x.pinned = k.pinned /\ x.loaded = k.loaded /\ x.unused = k.unused \cup {f} /\ x.count = k.count
  BY <1>1 DEF KSet, PtpRelease
<1> HIDE DEF x
<1>3. f \notin Kt(c) /\ k.count[f] = 0
  BY <1>1 DEF CtxOK, CtxSpaces, Allocator
<1>4. Allocator(x, c)
  BY <1>1, <1>2, <1>3 DEF Allocator
<1>5. Alike(x, k)
  BY <1>2 DEF Alike
<1>6. Good(x, c)
  BY <1>2, <1>4, <1>5, AlikeOK
<1> QED BY <1>6 DEF x

\* _ptpFree
LEMMA PtpFreeOK ==
  ASSUME NEW k, NEW c, Kept(k, c), CtxOK(c), NEW pt \in c.roots, c.dying = pt, NEW t, NEW i,
         TreeEntry(c, t, i), c.own[t] = pt
  PROVE  Kept(PtpFree(k, pt, <<t, i>>), c)
<1> DEFINE ptr == <<t, i>>
           e == EntryAt(k.mem, ptr)
           f == e.frame
           x == PtpRelease(k, f)
           free == Free
           y == DeferredUpdate(x, ptr, free)
           v == PteCreate(f, "rw")
           z == DeferredUpdate(y, PteGet(k.mem, pt, KernPage(f)), v)
<1>1. k \in KSet
  BY DEF Kept, Halted, Good, Core
<1>2. CASE k.bug \/ e = Free
  BY <1>1, <1>2, WithTyped DEF PtpFree, Kept
<1>3. CASE ~(k.bug \/ e = Free)
  <2>1. Good(k, c) /\ Struct(k.mem, c) /\ k.mem \in Memory
    BY <1>1, <1>3, KTyped DEF Kept, Halted, Good, Core
  <2>2. e = k.mem[t][i]
    BY DEF EntryAt
  <2>3. Fits(c, t, e)
    BY <2>1, <2>2, TreeFits
  <2>4. f \in Frames /\ c.lev[f] # 0 /\ c.own[f] = c.dying
    BY <1>3, <2>3 DEF Fits, TreeEntry
  <2>5. PtpFree(k, pt, ptr) = z
    BY <1>3 DEF PtpFree, Unlink
  <2>6. t \in Frames /\ i \in Index /\ Allowed(c, t, i, free) /\ free \in Content
    BY FreeEntry DEF TreeEntry, Allowed, Fits
  <2>7. KernelRoot(c, pt)
    BY DEF KernelRoot
  <2>8. v \in KernPtes(f)
    BY DEF KernPtes
  <2>9. <<t, i>> = ptr
    OBVIOUS
  <2> HIDE DEF f, free
  <2>10. Good(x, c) /\ Exempt(c, t, i)
    BY <2>1, <2>4, ReleaseOK DEF Exempt
  <2> HIDE DEF x, v
  <2>11. Kept(y, c)
    <3>1. Kept(DeferredUpdate(x, <<t, i>>, free), c)
      BY <2>6, <2>10, DeferredOK
    <3> QED BY <3>1
  <2> HIDE DEF y, ptr
  <2>12. CASE y \in Halted
    <3>1. y \in KSet /\ y.bug
      BY <2>12 DEF Halted
    <3>2. z \in Halted
      BY <3>1, DeferredHalted
    <3> QED BY <2>5, <3>2 DEF Kept, ptr
  <2>13. CASE y \notin Halted
    <3>1. Good(y, c)
      BY <2>11, <2>13 DEF Kept
    <3> DEFINE m == k.mem
    <3>2. m \in Memory /\ Struct(m, c)
      BY <2>1
    <3>3. z = DeferredUpdate(y, PteGet(m, pt, KernPage(f)), v)
      OBVIOUS
    <3> HIDE DEF m, z
    <3>4. Goes(DeferredUpdate(y, PteGet(m, pt, KernPage(f)), v), y, c)
      BY <2>4, <2>7, <2>8, <3>1, <3>2, SetKernelPage
    <3> QED BY <2>5, <3>3, <3>4 DEF Goes, Kept, ptr
  <2> QED BY <2>12, <2>13
<1> QED BY <1>2, <1>3

LEMMA PfnUserFreeKept ==
  ASSUME NEW k, NEW c, Kept(k, c), NEW f \in Frames
  PROVE  Kept(PfnUserFree(k, f), c)
<1>1. CASE k \in Halted
  BY <1>1, PfnUserFreeHalted DEF Kept
<1>2. CASE Good(k, c)
  BY <1>2, PfnUserFreeOK
<1> QED BY <1>1, <1>2 DEF Kept

\* The states of a call that goes on, as a set
Going(c) == {x \in KSet : Kept(x, c)}
LEMMA GoingIs ==
  ASSUME NEW k, NEW c
  PROVE  k \in Going(c) <=> Kept(k, c)
  BY DEF Going, Kept, Halted, Good, Core

\* An entry that is in use in the tables of the space
LEMMA UsedEntry ==
  ASSUME NEW m \in Memory, NEW t \in Frames, NEW i, i - 1 \in Index, Used(m, t, i)
  PROVE  /\ Entry(m, t, i) \in Frames /\ Entry(m, t, i) = m[t][i - 1].frame
         /\ m[t][i - 1] # Free
<1> DEFINE o == i - 1
           e == m[t][o]
<1>1. e \in Content
  BY EntryTyped
<1> HIDE DEF o
<1>2. e # Free /\ Entry(m, t, i) = e.frame
  BY DEF Used, Entry, o
<1> HIDE DEF e
<1>3. e.frame \in Frames
  BY <1>1, <1>2, ContentFrame
<1> QED BY <1>2, <1>3 DEF e, o

LEMMA UsedBelow ==
  ASSUME NEW m \in Memory, NEW c, Struct(m, c), NEW t, NEW i, TreeEntry(c, t, i - 1), Used(m, t, i)
  PROVE  /\ Entry(m, t, i) \in Frames /\ c.lev[Entry(m, t, i)] = c.lev[t] - 1
         /\ c.own[Entry(m, t, i)] = c.own[t]
<1> DEFINE o == i - 1
<1>1. t \in Frames /\ i - 1 \in Index
  BY DEF TreeEntry
<1>2. Entry(m, t, i) \in Frames /\ Entry(m, t, i) = m[t][o].frame /\ m[t][o] # Free
  BY <1>1, UsedEntry
<1>3. TreeEntry(c, t, o)
  OBVIOUS
<1> HIDE DEF o
<1>4. Fits(c, t, m[t][o])
  BY <1>3, TreeFits
<1> QED BY <1>2, <1>4 DEF Fits

LEMMA FreeLeavesOK ==
  ASSUME NEW k, NEW c, Kept(k, c), NEW m \in Memory, NEW t1 \in Frames
  PROVE  Kept(FreeLeaves(k, m, t1), c)
<1> DEFINE Round(u, i) == IF Used(m, t1, i) THEN PfnUserFree(u, Entry(m, t1, i)) ELSE u
           N == Entries[1]
           S == Going(c)
           g == [x \in S \X (1 .. N) |-> Round(x[1], x[2])]
           F == CHOOSE f : f = [i \in 0 .. N |-> IF i = 0 THEN k ELSE Round(f[i - 1], i)]
<1>1. N \in Nat /\ \A i \in 1 .. N : i - 1 \in Index
  BY Sizes DEF Index
<1>2. k \in S
  BY GoingIs
<1>3. \A x \in S, i \in 1 .. N : Round(x, i) \in S
  <2>1. SUFFICES ASSUME NEW x \in S, NEW i \in 1 .. N PROVE Round(x, i) \in S
    OBVIOUS
  <2>2. CASE Used(m, t1, i)
    <3> DEFINE f == Entry(m, t1, i)
               y == PfnUserFree(x, f)
    <3>1. Kept(x, c) /\ Round(x, i) = y
      BY <2>2, GoingIs
    <3>2. i - 1 \in Index
      BY <1>1
    <3>3. f \in Frames
      BY <2>2, <3>2, UsedEntry
    <3> HIDE DEF f, Round
    <3>4. Kept(y, c)
      BY <3>1, <3>3, PfnUserFreeKept
    <3> QED BY <3>1, <3>4, GoingIs
  <2>3. CASE ~Used(m, t1, i)
    BY <2>3
  <2> QED BY <2>2, <2>3
<1>4. g \in [S \X (1 .. N) -> S] /\ \A x \in S, i \in 1 .. N : g[<<x, i>>] = Round(x, i)
  BY <1>3
<1> HIDE DEF N, g, Round, S
<1>5. PICK f : Rounds(f, S, k, N, g)
  BY <1>1, <1>2, <1>4, RoundsExist
<1>6. f = [i \in 0 .. N |-> IF i = 0 THEN k ELSE Round(f[i - 1], i)]
  <2>1. f \in [0 .. N -> S] /\ f[0] = k /\ \A i \in 1 .. N : f[i] = g[<<f[i - 1], i>>]
    BY <1>5 DEF Rounds
  <2>2. \A i \in 1 .. N : f[i - 1] \in S
    BY <1>1, <2>1
  <2>3. \A i \in 0 .. N : f[i] = IF i = 0 THEN k ELSE Round(f[i - 1], i)
    <3>1. SUFFICES ASSUME NEW i \in 0 .. N PROVE f[i] = IF i = 0 THEN k ELSE Round(f[i - 1], i)
      OBVIOUS
    <3>2. i = 0 \/ i \in 1 .. N
      BY <1>1
    <3> QED BY <1>4, <2>1, <2>2, <3>2
  <2>4. f = [i \in 0 .. N |-> f[i]]
    BY <2>1
  <2> QED BY <2>3, <2>4
<1>7. F = [i \in 0 .. N |-> IF i = 0 THEN k ELSE Round(F[i - 1], i)]
  BY <1>6, Zenon
<1>8. For(k, N, Round) = F[N]
  BY DEF For, F
<1> HIDE DEF F
<1>9. F[0] = k /\ \A i \in 1 .. N : F[i] = Round(F[i - 1], i)
  <2> DEFINE b == [i \in 0 .. N |-> IF i = 0 THEN k ELSE Round(F[i - 1], i)]
  <2>1. b[0] = k
    BY <1>1
  <2>2. ASSUME NEW i \in 1 .. N
        PROVE  b[i] = Round(F[i - 1], i)
    BY <1>1
  <2>3. F = b
    BY <1>7
  <2> HIDE DEF b
  <2> QED BY <2>1, <2>2, <2>3
<1>10. F[0] \in S /\ \A i \in 1 .. N : F[i - 1] \in S => F[i] \in S
  BY <1>2, <1>3, <1>9
<1>11. F[N] \in S
  BY <1>1, <1>10, RoundsStay
<1>20. Kept(For(k, N, Round), c)
  BY <1>11, <1>8, GoingIs DEF S
<1>21. FreeLeaves(k, m, t1) = For(k, N, Round)
  BY DEF FreeLeaves, N, Round
<1> QED BY <1>20, <1>21

LEMMA FreeTables2OK ==
  ASSUME NEW k, NEW c, Kept(k, c), CtxOK(c), NEW pt \in c.roots, c.dying = pt, NEW m \in Memory,
         Struct(m, c), NEW t \in Frames, c.lev[t] = 2, c.own[t] = pt
  PROVE  Kept(FreeTables2(k, m, pt, t), c)
<1> DEFINE Round(u, i) == IF Used(m, t, i) THEN PtpFree(FreeLeaves(u, m, Entry(m, t, i)), pt, <<t, i - 1>>) ELSE u
           N == Entries[2]
           S == Going(c)
           g == [x \in S \X (1 .. N) |-> Round(x[1], x[2])]
           F == CHOOSE f : f = [i \in 0 .. N |-> IF i = 0 THEN k ELSE Round(f[i - 1], i)]
<1>1. N \in Nat /\ \A i \in 1 .. N : TreeEntry(c, t, i - 1)
  BY Sizes, Bases DEF TreeEntry, I2, Index
<1>2. k \in S
  BY GoingIs

<1>3. \A x \in S, i \in 1 .. N : Round(x, i) \in S
  <2>1. SUFFICES ASSUME NEW x \in S, NEW i \in 1 .. N PROVE Round(x, i) \in S
    OBVIOUS
  <2>2. CASE Used(m, t, i)
    <3> DEFINE f == Entry(m, t, i)
               o == i - 1
               y == FreeLeaves(x, m, f)
               z == PtpFree(y, pt, <<t, o>>)
    <3>1. Kept(x, c) /\ Round(x, i) = z
      BY <2>2, GoingIs
    <3>2. TreeEntry(c, t, i - 1) /\ TreeEntry(c, t, o)
      BY <1>1
    <3>3. f \in Frames /\ c.lev[f] = c.lev[t] - 1 /\ c.own[f] = c.own[t]
      BY <2>2, <3>2, UsedBelow
    <3> HIDE DEF f, o, Round
    <3>4. Kept(y, c)
      BY <3>1, <3>3, FreeLeavesOK
    <3> HIDE DEF y
    <3>5. Kept(z, c)
      BY <3>2, <3>4, PtpFreeOK
    <3> QED BY <3>1, <3>5, GoingIs
  <2>3. CASE ~Used(m, t, i)
    BY <2>3
  <2> QED BY <2>2, <2>3
<1>4. g \in [S \X (1 .. N) -> S] /\ \A x \in S, i \in 1 .. N : g[<<x, i>>] = Round(x, i)
  BY <1>3
<1> HIDE DEF N, g, Round, S
<1>5. PICK f : Rounds(f, S, k, N, g)
  BY <1>1, <1>2, <1>4, RoundsExist
<1>6. f = [i \in 0 .. N |-> IF i = 0 THEN k ELSE Round(f[i - 1], i)]
  <2>1. f \in [0 .. N -> S] /\ f[0] = k /\ \A i \in 1 .. N : f[i] = g[<<f[i - 1], i>>]
    BY <1>5 DEF Rounds
  <2>2. \A i \in 1 .. N : f[i - 1] \in S
    BY <1>1, <2>1
  <2>3. \A i \in 0 .. N : f[i] = IF i = 0 THEN k ELSE Round(f[i - 1], i)
    <3>1. SUFFICES ASSUME NEW i \in 0 .. N PROVE f[i] = IF i = 0 THEN k ELSE Round(f[i - 1], i)
      OBVIOUS
    <3>2. i = 0 \/ i \in 1 .. N
      BY <1>1
    <3> QED BY <1>4, <2>1, <2>2, <3>2
  <2>4. f = [i \in 0 .. N |-> f[i]]
    BY <2>1
  <2> QED BY <2>3, <2>4
<1>7. F = [i \in 0 .. N |-> IF i = 0 THEN k ELSE Round(F[i - 1], i)]
  BY <1>6, Zenon
<1>8. For(k, N, Round) = F[N]
  BY DEF For, F
<1> HIDE DEF F
<1>9. F[0] = k /\ \A i \in 1 .. N : F[i] = Round(F[i - 1], i)
  <2> DEFINE b == [i \in 0 .. N |-> IF i = 0 THEN k ELSE Round(F[i - 1], i)]
  <2>1. b[0] = k
    BY <1>1
  <2>2. ASSUME NEW i \in 1 .. N
        PROVE  b[i] = Round(F[i - 1], i)
    BY <1>1
  <2>3. F = b
    BY <1>7
  <2> HIDE DEF b
  <2> QED BY <2>1, <2>2, <2>3
<1>10. F[0] \in S /\ \A i \in 1 .. N : F[i - 1] \in S => F[i] \in S
  BY <1>2, <1>3, <1>9
<1>11. F[N] \in S
  BY <1>1, <1>10, RoundsStay
<1>20. Kept(For(k, N, Round), c)
  BY <1>11, <1>8, GoingIs DEF S
<1>21. FreeTables2(k, m, pt, t) = For(k, N, Round)
  BY DEF FreeTables2, N, Round
<1> QED BY <1>20, <1>21

LEMMA FreeTables3OK ==
  ASSUME NEW k, NEW c, Kept(k, c), CtxOK(c), NEW pt \in c.roots, c.dying = pt, NEW m \in Memory,
         Struct(m, c), NEW t \in Frames, c.lev[t] = 3, c.own[t] = pt
  PROVE  Kept(FreeTables3(k, m, pt, t), c)
<1> DEFINE Round(u, i) == IF Used(m, t, i) THEN PtpFree(FreeTables2(u, m, pt, Entry(m, t, i)), pt, <<t, i - 1>>) ELSE u
           N == Entries[3]
           S == Going(c)
           g == [x \in S \X (1 .. N) |-> Round(x[1], x[2])]
           F == CHOOSE f : f = [i \in 0 .. N |-> IF i = 0 THEN k ELSE Round(f[i - 1], i)]
<1>1. N \in Nat /\ \A i \in 1 .. N : TreeEntry(c, t, i - 1)
  BY Sizes, Bases DEF TreeEntry, I3, Index
<1>2. k \in S
  BY GoingIs

<1>3. \A x \in S, i \in 1 .. N : Round(x, i) \in S
  <2>1. SUFFICES ASSUME NEW x \in S, NEW i \in 1 .. N PROVE Round(x, i) \in S
    OBVIOUS
  <2>2. CASE Used(m, t, i)
    <3> DEFINE f == Entry(m, t, i)
               o == i - 1
               y == FreeTables2(x, m, pt, f)
               z == PtpFree(y, pt, <<t, o>>)
    <3>1. Kept(x, c) /\ Round(x, i) = z
      BY <2>2, GoingIs
    <3>2. TreeEntry(c, t, i - 1) /\ TreeEntry(c, t, o)
      BY <1>1
    <3>3. f \in Frames /\ c.lev[f] = c.lev[t] - 1 /\ c.own[f] = c.own[t]
      BY <2>2, <3>2, UsedBelow
    <3> HIDE DEF f, o, Round
    <3>4. Kept(y, c)
      BY <3>1, <3>3, FreeTables2OK
    <3> HIDE DEF y
    <3>5. Kept(z, c)
      BY <3>2, <3>4, PtpFreeOK
    <3> QED BY <3>1, <3>5, GoingIs
  <2>3. CASE ~Used(m, t, i)
    BY <2>3
  <2> QED BY <2>2, <2>3
<1>4. g \in [S \X (1 .. N) -> S] /\ \A x \in S, i \in 1 .. N : g[<<x, i>>] = Round(x, i)
  BY <1>3
<1> HIDE DEF N, g, Round, S
<1>5. PICK f : Rounds(f, S, k, N, g)
  BY <1>1, <1>2, <1>4, RoundsExist
<1>6. f = [i \in 0 .. N |-> IF i = 0 THEN k ELSE Round(f[i - 1], i)]
  <2>1. f \in [0 .. N -> S] /\ f[0] = k /\ \A i \in 1 .. N : f[i] = g[<<f[i - 1], i>>]
    BY <1>5 DEF Rounds
  <2>2. \A i \in 1 .. N : f[i - 1] \in S
    BY <1>1, <2>1
  <2>3. \A i \in 0 .. N : f[i] = IF i = 0 THEN k ELSE Round(f[i - 1], i)
    <3>1. SUFFICES ASSUME NEW i \in 0 .. N PROVE f[i] = IF i = 0 THEN k ELSE Round(f[i - 1], i)
      OBVIOUS
    <3>2. i = 0 \/ i \in 1 .. N
      BY <1>1
    <3> QED BY <1>4, <2>1, <2>2, <3>2
  <2>4. f = [i \in 0 .. N |-> f[i]]
    BY <2>1
  <2> QED BY <2>3, <2>4
<1>7. F = [i \in 0 .. N |-> IF i = 0 THEN k ELSE Round(F[i - 1], i)]
  BY <1>6, Zenon
<1>8. For(k, N, Round) = F[N]
  BY DEF For, F
<1> HIDE DEF F
<1>9. F[0] = k /\ \A i \in 1 .. N : F[i] = Round(F[i - 1], i)
  <2> DEFINE b == [i \in 0 .. N |-> IF i = 0 THEN k ELSE Round(F[i - 1], i)]
  <2>1. b[0] = k
    BY <1>1
  <2>2. ASSUME NEW i \in 1 .. N
        PROVE  b[i] = Round(F[i - 1], i)
    BY <1>1
  <2>3. F = b
    BY <1>7
  <2> HIDE DEF b
  <2> QED BY <2>1, <2>2, <2>3
<1>10. F[0] \in S /\ \A i \in 1 .. N : F[i - 1] \in S => F[i] \in S
  BY <1>2, <1>3, <1>9
<1>11. F[N] \in S
  BY <1>1, <1>10, RoundsStay
<1>20. Kept(For(k, N, Round), c)
  BY <1>11, <1>8, GoingIs DEF S
<1>21. FreeTables3(k, m, pt, t) = For(k, N, Round)
  BY DEF FreeTables3, N, Round
<1> QED BY <1>20, <1>21

LEMMA OfflineFreeOK ==
  ASSUME NEW k, NEW c, Good(k, c), NEW pt \in c.roots, c.dying = pt
  PROVE  Kept(OfflineFree(k, pt), c)
<1> DEFINE m == k.mem
           Round(u, i) == IF Used(m, pt, i) THEN PtpFree(FreeTables3(u, m, pt, Entry(m, pt, i)), pt, <<pt, i - 1>>) ELSE u
           N == PtUserEntries
           S == Going(c)
           g == [x \in S \X (1 .. N) |-> Round(x[1], x[2])]
           F == CHOOSE f : f = [i \in 0 .. N |-> IF i = 0 THEN k ELSE Round(f[i - 1], i)]
<1>0. CtxOK(c) /\ m \in Memory /\ Struct(m, c) /\ Kept(k, c) /\ pt \in Frames /\ c.lev[pt] = 4 /\ c.own[pt] = pt
  BY KTyped, CtxTyped DEF Good, Core, Kept, CtxOK, CtxSpaces
<1>1. N \in Nat /\ \A i \in 1 .. N : TreeEntry(c, pt, i - 1)
  BY <1>0, Sizes, Bases DEF TreeEntry, Index
<1>2. k \in S
  BY <1>0, GoingIs
<1> HIDE DEF m
<1>3. \A x \in S, i \in 1 .. N : Round(x, i) \in S
  <2>1. SUFFICES ASSUME NEW x \in S, NEW i \in 1 .. N PROVE Round(x, i) \in S
    OBVIOUS
  <2>2. CASE Used(m, pt, i)
    <3> DEFINE f == Entry(m, pt, i)
               o == i - 1
               y == FreeTables3(x, m, pt, f)
               z == PtpFree(y, pt, <<pt, o>>)
    <3>1. Kept(x, c) /\ Round(x, i) = z
      BY <2>2, GoingIs
    <3>2. TreeEntry(c, pt, i - 1) /\ TreeEntry(c, pt, o)
      BY <1>1
    <3>3. f \in Frames /\ c.lev[f] = c.lev[pt] - 1 /\ c.own[f] = c.own[pt]
      BY <1>0, <2>2, <3>2, UsedBelow
    <3> HIDE DEF f, o, Round
    <3>4. Kept(y, c)
      BY <1>0, <3>1, <3>3, FreeTables3OK
    <3> HIDE DEF y
    <3>5. Kept(z, c)
      BY <1>0, <3>2, <3>4, PtpFreeOK
    <3> QED BY <3>1, <3>5, GoingIs
  <2>3. CASE ~Used(m, pt, i)
    BY <2>3
  <2> QED BY <2>2, <2>3
<1>4. g \in [S \X (1 .. N) -> S] /\ \A x \in S, i \in 1 .. N : g[<<x, i>>] = Round(x, i)
  BY <1>3
<1> HIDE DEF N, g, Round, S
<1>5. PICK f : Rounds(f, S, k, N, g)
  BY <1>1, <1>2, <1>4, RoundsExist
<1>6. f = [i \in 0 .. N |-> IF i = 0 THEN k ELSE Round(f[i - 1], i)]
  <2>1. f \in [0 .. N -> S] /\ f[0] = k /\ \A i \in 1 .. N : f[i] = g[<<f[i - 1], i>>]
    BY <1>5 DEF Rounds
  <2>2. \A i \in 1 .. N : f[i - 1] \in S
    BY <1>1, <2>1
  <2>3. \A i \in 0 .. N : f[i] = IF i = 0 THEN k ELSE Round(f[i - 1], i)
    <3>1. SUFFICES ASSUME NEW i \in 0 .. N PROVE f[i] = IF i = 0 THEN k ELSE Round(f[i - 1], i)
      OBVIOUS
    <3>2. i = 0 \/ i \in 1 .. N
      BY <1>1
    <3> QED BY <1>4, <2>1, <2>2, <3>2
  <2>4. f = [i \in 0 .. N |-> f[i]]
    BY <2>1
  <2> QED BY <2>3, <2>4
<1>7. F = [i \in 0 .. N |-> IF i = 0 THEN k ELSE Round(F[i - 1], i)]
  BY <1>6, Zenon
<1>8. For(k, N, Round) = F[N]
  BY DEF For, F
<1> HIDE DEF F
<1>9. F[0] = k /\ \A i \in 1 .. N : F[i] = Round(F[i - 1], i)
  <2> DEFINE b == [i \in 0 .. N |-> IF i = 0 THEN k ELSE Round(F[i - 1], i)]
  <2>1. b[0] = k
    BY <1>1
  <2>2. ASSUME NEW i \in 1 .. N
        PROVE  b[i] = Round(F[i - 1], i)
    BY <1>1
  <2>3. F = b
    BY <1>7
  <2> HIDE DEF b
  <2> QED BY <2>1, <2>2, <2>3
<1>10. F[0] \in S /\ \A i \in 1 .. N : F[i - 1] \in S => F[i] \in S
  BY <1>2, <1>3, <1>9
<1>11. F[N] \in S
  BY <1>1, <1>10, RoundsStay
<1>20. Kept(For(k, N, Round), c)
  BY <1>11, <1>8, GoingIs DEF S
<1>21. OfflineFree(k, pt) = For(k, N, Round)
  BY DEF OfflineFree, N, Round, m
<1> QED BY <1>20, <1>21

\* archPageTableFree
LEMMA PageTableFreeOK ==
  ASSUME NEW k, NEW c, Good(k, c), NEW pt \in c.roots, c.dying = pt
  PROVE  Idle(PageTableFree(k, pt), c)
<1> DEFINE q == UserRoot(pt)
           m == k.mem
           v == PteCreate(pt, "rw")
           w == PteCreate(q, "rw")
           x == OfflineFree(k, pt)
           y == DeferredUpdate(x, PteGet(m, pt, KernPage(pt)), v)
           z == DeferredUpdate(y, PteGet(m, pt, KernPage(q)), w)
<1>1. CtxOK(c) /\ m \in Memory /\ Struct(m, c)
  BY KTyped DEF Good, Core
<1>2. pt \in Frames /\ q \in Frames /\ KernelRoot(c, pt)
  BY <1>1, CtxTyped DEF CtxOK, CtxSpaces, KernelRoot
<1>3. v \in KernPtes(pt) /\ w \in KernPtes(q)
  BY DEF KernPtes
<1>4. PageTableFree(k, pt) = DoUpdate(z)
  BY DEF PageTableFree
<1>5. Kept(x, c)
  BY OfflineFreeOK
<1> HIDE DEF q, m, v, w, x
<1>6. ASSUME NEW s, Kept(s, c), NEW f \in Frames, NEW e \in KernPtes(f)
      PROVE  Kept(DeferredUpdate(s, PteGet(m, pt, KernPage(f)), e), c)
  <2>1. CASE s \in Halted
    <3>1. s \in KSet /\ s.bug
      BY <2>1 DEF Halted
    <3> QED BY <3>1, DeferredHalted DEF Kept
  <2>2. CASE Good(s, c)
    <3>1. Goes(DeferredUpdate(s, PteGet(m, pt, KernPage(f)), e), s, c)
      BY <1>1, <1>2, <1>6, <2>2, SetKernelPage
    <3> QED BY <3>1 DEF Goes, Kept
  <2> QED BY <1>6, <2>1, <2>2 DEF Kept
<1>7. Kept(y, c)
  BY <1>2, <1>3, <1>5, <1>6
<1> HIDE DEF y
<1>8. Kept(z, c)
  BY <1>2, <1>3, <1>6, <1>7
<1> HIDE DEF z
<1> QED BY <1>4, <1>8, UpdateIdle

\* Neither root is pinned any more.
Dying(c, pt) == Re(c, (c.pinned \ {pt}) \ {UserRoot(pt)}, c.loaded, pt)

LEMMA RootNotBase ==
  ASSUME NEW c, CtxOK(c), NEW pt \in c.roots
  PROVE  /\ pt # PtBase /\ UserRoot(pt) # PtBase /\ pt \in Frames /\ UserRoot(pt) \in Frames
         /\ c.lev[pt] = 4 /\ c.own[pt] = pt /\ c.lev[UserRoot(pt)] = 4 /\ c.own[UserRoot(pt)] = pt
         /\ \A r \in c.roots : UserRoot(r) # pt /\ (UserRoot(r) = UserRoot(pt) => r = pt)
<1>1. /\ pt \in Frames /\ UserRoot(pt) \in Frames
      /\ c.lev[pt] = 4 /\ c.own[pt] = pt /\ c.lev[UserRoot(pt)] = 4 /\ c.own[UserRoot(pt)] = pt
  BY CtxTyped DEF CtxOK, CtxSpaces
<1>2. pt # PtBase /\ UserRoot(pt) # PtBase
  BY <1>1 DEF CtxOK, CtxSpaces, Kt
<1>3. \A r \in c.roots : UserRoot(r) # pt /\ (UserRoot(r) = UserRoot(pt) => r = pt)
  BY <1>1 DEF CtxOK, CtxSpaces
<1> QED BY <1>1, <1>2, <1>3

LEMMA UnpinOK ==
  ASSUME NEW k, NEW c, Good(k, c), k.queue = <<>>, c.dying = None, NEW pt \in c.roots, pt # c.loaded
  PROVE  /\ Good(Unpin(Unpin(k, pt), UserRoot(pt)), Dying(c, pt))
         /\ Unpin(Unpin(k, pt), UserRoot(pt)).queue = <<>>
         /\ CtxOK(Dying(c, pt)) /\ Dying(c, pt).roots = c.roots /\ Dying(c, pt).dying = pt
         /\ Dying(c, pt).loaded = c.loaded /\ Dying(c, pt).pinned = (c.pinned \ {pt}) \ {UserRoot(pt)}
         /\ Dying(c, pt).own = c.own /\ Dying(c, pt).stale = c.stale
<1> DEFINE q == UserRoot(pt)
           x == Unpin(Unpin(k, pt), q)
           P == (c.pinned \ {pt}) \ {q}
           L == c.loaded
           d == Re(c, P, L, pt)
<1>1. Core(k, c) /\ k \in KSet /\ CtxOK(c) /\ k.pinned = c.pinned /\ k.loaded = c.loaded
  BY DEF Good, Core
<1>2. /\ x \in KSet /\ x.mem = k.mem /\ x.queue = k.queue /\ x.unused = k.unused /\ x.count = k.count
      /\ x.roots = k.roots /\ x.pinned = P /\ x.loaded = L /\ x.tlb = k.tlb
  BY <1>1 DEF KSet, Unpin
<1> HIDE DEF x
<1>3. P \subseteq Frames /\ PtBase \in P /\ \A f \in P : f = PtBase \/ c.lev[f] = 4
  BY <1>1, CtxTyped, RootNotBase DEF CtxOK, CtxSpaces
<1>4. L \in c.roots \cup {None} /\ pt \in c.roots \cup {None}
  BY <1>1 DEF CtxOK, CtxSpaces
<1>5. Accepts(x.mem, Tops(x))
  <2> DEFINE S == Tops(x)
             T == Tops(k)
             m == k.mem
  <2>1. S \subseteq T
    BY <1>1, <1>2 DEF Tops
  <2>2. Accepts(m, T)
    BY <1>1 DEF Core
  <2> HIDE DEF S, T, m
  <2>3. Accepts(m, S)
    BY <2>1, <2>2, InUseFewer
  <2> QED BY <1>2, <2>3 DEF S, m
<1>6. TlbOK(x) /\ (x.loaded = None => x.tlb = NoTlb)
  BY <1>1, <1>2 DEF Good, Core, TlbOK
<1> HIDE DEF P, L
<1>7. Good(x, d)
  BY <1>2, <1>3, <1>4, <1>5, <1>6, ReGood
<1>8. /\ CtxOK(d) /\ d.roots = c.roots /\ d.dying = pt /\ d.loaded = L /\ d.pinned = P /\ d.own = c.own
      /\ d.stale = c.stale
  BY <1>1, <1>3, <1>4, ReOK
<1> QED BY <1>2, <1>7, <1>8 DEF Dying, x, d, P, L, q

\* The space is gone.
Dropped(c, pt) == [c EXCEPT !.roots = c.roots \ {pt}, !.dying = None,
                            !.lev = [f \in Frames |-> IF c.own[f] = pt THEN 0 ELSE c.lev[f]]]

LEMMA DroppedOK ==
  ASSUME NEW c, CtxOK(c), NEW pt \in c.roots, pt # c.loaded, pt \notin c.pinned, UserRoot(pt) \notin c.pinned
  PROVE  /\ CtxOK(Dropped(c, pt)) /\ Dropped(c, pt).t2 = c.t2 /\ Dropped(c, pt).t1 = c.t1
         /\ Dropped(c, pt).roots = c.roots \ {pt} /\ Dropped(c, pt).pinned = c.pinned
         /\ Dropped(c, pt).loaded = c.loaded /\ Dropped(c, pt).own = c.own
         /\ Dropped(c, pt).dying = None /\ Dropped(c, pt).stale = c.stale
         /\ \A f \in Frames : Dropped(c, pt).lev[f] = IF c.own[f] = pt THEN 0 ELSE c.lev[f]
<1> DEFINE d == Dropped(c, pt)
           lev == [f \in Frames |-> IF c.own[f] = pt THEN 0 ELSE c.lev[f]]
           others == c.roots \ {pt}
<1>1. c \in Ctx /\ others \subseteq Frames
  BY CtxTyped DEF CtxOK
<1>2. lev \in [Frames -> 0 .. 4] /\ \A f \in Frames : lev[f] = IF c.own[f] = pt THEN 0 ELSE c.lev[f]
  BY CtxTyped
<1>3. d = [c EXCEPT !.roots = others, !.dying = None, !.lev = lev]
  BY DEF Dropped
<1> HIDE DEF lev, others, d
<1>4. /\ d \in Ctx /\ d.roots = others /\ d.lev = lev /\ d.own = c.own /\ d.t2 = c.t2 /\ d.t1 = c.t1
      /\ d.pinned = c.pinned /\ d.loaded = c.loaded /\ d.dying = None /\ d.stale = c.stale
  BY <1>1, <1>2, <1>3 DEF Ctx, Opt
<1>5. Kt(d) = Kt(c) /\ K1(d) = K1(c) /\ K2(d) = K2(c)
  BY <1>4 DEF Kt, K1, K2
<1>6. CtxKernel(d)
  BY <1>4, <1>5 DEF CtxOK, CtxKernel
<1>7. CtxSpaces(d)
  <2> USE <1>2, <1>4, <1>5
  <2>1. \A f \in Frames : d.lev[f] # 0 => f \notin Kt(d) /\ d.own[f] \in d.roots
    BY DEF CtxOK, CtxSpaces, others
  <2>2. ASSUME NEW r \in d.roots
        PROVE  /\ d.lev[r] = 4 /\ d.own[r] = r /\ UserRoot(r) \in Frames \ d.roots
               /\ d.lev[UserRoot(r)] = 4 /\ d.own[UserRoot(r)] = r
    <3>1. r \in c.roots /\ r # pt
      BY DEF others
    <3>2. /\ r \in Frames /\ UserRoot(r) \in Frames /\ UserRoot(r) \notin c.roots
          /\ c.lev[r] = 4 /\ c.own[r] = r /\ c.lev[UserRoot(r)] = 4 /\ c.own[UserRoot(r)] = r
      BY <3>1, CtxTyped DEF CtxOK, CtxSpaces
    <3> QED BY <3>1, <3>2 DEF others
  <2>3. \A f \in Frames : d.lev[f] = 4 => f = d.own[f] \/ f = UserRoot(d.own[f])
    BY DEF CtxOK, CtxSpaces
  <2>4. ASSUME NEW f \in d.pinned PROVE f = PtBase \/ d.lev[f] = 4
    <3>1. f \in Frames /\ (f = PtBase \/ c.lev[f] = 4)
      BY CtxTyped DEF CtxOK, CtxSpaces
    <3>2. c.lev[f] = 4 /\ c.own[f] = pt => f = pt \/ f = UserRoot(pt)
      BY <3>1 DEF CtxOK, CtxSpaces
    <3> QED BY <3>1, <3>2
  <2>5. PtBase \in d.pinned /\ d.loaded \in d.roots \cup {None} /\ d.dying \in d.roots \cup {None}
    BY DEF CtxOK, CtxSpaces, others
  <2> QED BY <2>1, <2>2, <2>3, <2>4, <2>5 DEF CtxSpaces
<1>8. CtxOK(d)
  BY <1>4, <1>6, <1>7 DEF CtxOK
<1> QED BY <1>2, <1>4, <1>8 DEF d, others

LEMMA DroppedStruct ==
  ASSUME NEW c, CtxOK(c), NEW pt \in c.roots, pt # c.loaded, pt \notin c.pinned, UserRoot(pt) \notin c.pinned,
         NEW m, Struct(m, c)
  PROVE  Struct(m, Dropped(c, pt))
<1> DEFINE d == Dropped(c, pt)
<1>1. /\ CtxOK(d) /\ d.t2 = c.t2 /\ d.t1 = c.t1 /\ d.roots = c.roots \ {pt} /\ d.own = c.own
      /\ \A f \in Frames : d.lev[f] = IF c.own[f] = pt THEN 0 ELSE c.lev[f]
  BY DroppedOK
<1> HIDE DEF d
<1>2. Shape(m, d)
  BY <1>1 DEF Struct, Shape
<1>3. Kernel(m, d)
  <2>1. \A f : Loc(d, f) = Loc(c, f)
    BY <1>1 DEF Loc
  <2> QED BY <2>1 DEF Struct, Kernel
<1>4. ASSUME NEW t \in Frames, c.own[t] # pt, NEW v, Fits(c, t, v)
      PROVE  Fits(d, t, v)
  BY <1>1, <1>4 DEF Fits
<1>5. Trees(m, d)
  <2>1. SUFFICES ASSUME NEW t \in Frames
                 PROVE  /\ d.lev[t] = 4 => Top(m, d, t)
                        /\ d.lev[t] = 3 => \A i \in I3 : Fits(d, t, m[t][i])
                        /\ d.lev[t] = 2 => \A i \in I2 : Fits(d, t, m[t][i])
    BY DEF Trees
  <2>2. CASE c.own[t] = pt
    <3>1. d.lev[t] = 0
      BY <1>1, <2>2
    <3> QED BY <3>1
  <2>3. CASE c.own[t] # pt
    <3>1. d.lev[t] = c.lev[t]
      BY <1>1, <2>3
    <3>2. c.lev[t] = 4 => Top(m, d, t)
      <4>1. SUFFICES ASSUME c.lev[t] = 4 PROVE Top(m, d, t)
        OBVIOUS
      <4>2. Top(m, c, t) /\ (t \in d.roots <=> t \in c.roots)
        <5>1. c.own[pt] = pt
          BY RootNotBase
        <5> QED BY <1>1, <2>3, <4>1, <5>1 DEF Struct, Trees
      <4>3. \A v : Fits(c, t, v) => Fits(d, t, v)
        BY <1>4, <2>3
      <4> QED BY <4>2, <4>3 DEF Top
    <3>3. c.lev[t] = 3 => \A i \in I3 : Fits(d, t, m[t][i])
      BY <1>4, <2>3 DEF Struct, Trees
    <3>4. c.lev[t] = 2 => \A i \in I2 : Fits(d, t, m[t][i])
      BY <1>4, <2>3 DEF Struct, Trees
    <3> QED BY <3>1, <3>2, <3>3, <3>4
  <2> QED BY <2>2, <2>3
<1> QED BY <1>2, <1>3, <1>5 DEF Struct, d

\* The two roots are given back, and the space is forgotten.
Forget(k, pt) == [k EXCEPT !.roots = @ \ {pt}, !.unused = @ \cup {pt, UserRoot(pt)}]

LEMMA ForgetOK ==
  ASSUME NEW k, NEW c, Idle(k, c), CtxOK(c), NEW pt \in c.roots, pt # c.loaded, c.dying = pt,
         pt \notin c.pinned, UserRoot(pt) \notin c.pinned
  PROVE  Idle(Forget(k, pt), Dropped(c, pt))
<1> DEFINE x == Forget(k, pt)
           q == UserRoot(pt)
           d == Dropped(c, pt)
<1>1. k \in KSet
  BY DEF Idle, Halted, Good, Core
<1>2. pt \in Frames /\ q \in Frames /\ c.lev[pt] = 4 /\ c.lev[q] = 4 /\ c.own[pt] = pt /\ c.own[q] = pt
  BY RootNotBase
<1>3. /\ x \in KSet /\ x.mem = k.mem /\ x.queue = k.queue /\ x.unused = k.unused \cup {pt, q}
      /\ x.count = k.count /\ x.roots = k.roots \ {pt} /\ x.pinned = k.pinned /\ x.loaded = k.loaded
      /\ x.tlb = k.tlb /\ (x.bug = k.bug)
  BY <1>1, <1>2 DEF KSet, Forget
<1> HIDE DEF x
<1>4. CASE k \in Halted
  BY <1>3, <1>4 DEF Halted, Idle, x
<1>5. CASE k \notin Halted
  <2>1. Good(k, c) /\ k.queue = <<>> /\ Core(k, c) /\ Struct(k.mem, c) /\ Allocator(k, c)
    BY <1>5 DEF Idle, Good, Core
  <2>2. /\ CtxOK(d) /\ d.t2 = c.t2 /\ d.t1 = c.t1 /\ d.roots = c.roots \ {pt} /\ d.pinned = c.pinned
        /\ d.loaded = c.loaded /\ d.own = c.own /\ d.dying = None /\ d.stale = c.stale
        /\ \A f \in Frames : d.lev[f] = IF c.own[f] = pt THEN 0 ELSE c.lev[f]
    BY DroppedOK
  <2>3. Struct(k.mem, d)
    BY <2>1, DroppedStruct
  <2> HIDE DEF d
  <2>4. Allocator(x, d)
    <3>1. Kt(d) = Kt(c)
      BY <2>2 DEF Kt, K1, K2
    <3>2. pt \notin Kt(c) /\ q \notin Kt(c) /\ k.count[pt] = 0 /\ k.count[q] = 0
      BY <1>2, <2>1 DEF CtxOK, CtxSpaces, Allocator
    <3>3. SUFFICES ASSUME NEW f \in Frames
                   PROVE  /\ f \in x.unused => f \notin Kt(d) /\ x.count[f] = 0 /\ (d.lev[f] = 0 \/ d.own[f] = d.dying)
                          /\ x.count[f] # 0 => f \notin Kt(d) /\ d.lev[f] = 0
      BY DEF Allocator
    <3>4. f \in x.unused => f \notin Kt(d) /\ x.count[f] = 0 /\ d.lev[f] = 0
      BY <1>2, <1>3, <2>1, <2>2, <3>1, <3>2 DEF Allocator
    <3>5. x.count[f] # 0 => f \notin Kt(d) /\ d.lev[f] = 0
      BY <1>3, <2>1, <2>2, <3>1 DEF Allocator
    <3> QED BY <3>4, <3>5
  <2>5. Tops(x) = Tops(k)
    BY <1>3 DEF Tops
  <2>6. Core(x, d)
    BY <1>3, <2>1, <2>2, <2>3, <2>4, <2>5 DEF Core
  <2>7. TlbOK(x) /\ GoodQueue(x, d) /\ x.queue = <<>>
    BY <1>3, <2>1 DEF Good, TlbOK, GoodQueue
  <2>8. Mirror(x, d)
    <3>1. Mirror(x, c)
      BY <1>3, <2>1, SameMirror DEF Good
    <3> QED BY <2>2, <3>1 DEF Mirror
  <2> QED BY <2>6, <2>7, <2>8 DEF Idle, Good, d, x
<1> QED BY <1>4, <1>5

\* pageTableFree
LEMMA FreeSpaceOK ==
  ASSUME NEW k, NEW c, Good(k, c), k.queue = <<>>, c.dying = None, Paired(c), NEW pt \in c.roots, pt # c.loaded
  PROVE  World(Forget(PageTableFree(Unpin(Unpin(k, pt), UserRoot(pt)), pt), pt))
<1> DEFINE q == UserRoot(pt)
           u == Unpin(Unpin(k, pt), q)
           d == Dying(c, pt)
           e == Dropped(d, pt)
           x == PageTableFree(u, pt)
<1>1. /\ Good(u, d) /\ CtxOK(d) /\ d.roots = c.roots /\ d.dying = pt /\ d.loaded = c.loaded
      /\ d.pinned = (c.pinned \ {pt}) \ {q} /\ d.stale = c.stale
  BY UnpinOK
<1> HIDE DEF u, d
<1>2. Idle(x, d)
  BY <1>1, PageTableFreeOK
<1>3. pt \in d.roots /\ pt # d.loaded /\ pt \notin d.pinned /\ q \notin d.pinned
  BY <1>1
<1> HIDE DEF x
<1>4. Idle(Forget(x, pt), e)
  BY <1>1, <1>2, <1>3, ForgetOK
<1>5. e.roots = d.roots \ {pt} /\ e.pinned = d.pinned /\ e.dying = None /\ e.stale = d.stale
  BY <1>1, <1>3, DroppedOK
<1>6. Paired(e)
  <2>1. \A r \in c.roots : UserRoot(r) # pt /\ (UserRoot(r) = q => r = pt)
    <3>1. CtxOK(c)
      BY DEF Good, Core
    <3> QED BY <3>1, RootNotBase
  <2> QED BY <1>1, <1>5, <2>1 DEF Paired
<1> QED BY <1>4, <1>5, <1>6, WorldIs DEF x, u, q

----------------------------------------------------------------------------
(* New tables of the kernel's half                                         *)

\* The tables of levels 2 and 1 for the kernel's page of frame f
Chain(c, f, t, n) ==
    [c EXCEPT !.t2 = [c.t2 EXCEPT ![Offset(3, f)] = t],
              !.t1 = [c.t1 EXCEPT ![Offset(3, f)] = [c.t1[Offset(3, f)] EXCEPT ![Offset(2, f)] = n]]]

\* The table of level 2 is there, or new.
Joins(c, f, t, n) ==
    /\ t \in Frames /\ n \in Frames /\ t # n /\ Loose(c, n)
    /\ t = c.t2[Offset(3, f)] \/ (Loose(c, t) /\ c.t2[Offset(3, f)] = None)
    /\ c.t1[Offset(3, f)][Offset(2, f)] = None

LEMMA ChainIs ==
  ASSUME NEW c, CtxOK(c), NEW f \in Frames, NEW t, NEW n, Joins(c, f, t, n)
  PROVE  /\ Chain(c, f, t, n) \in Ctx /\ Chain(c, f, t, n).roots = c.roots
         /\ Chain(c, f, t, n).pinned = c.pinned /\ Chain(c, f, t, n).loaded = c.loaded
         /\ Chain(c, f, t, n).lev = c.lev /\ Chain(c, f, t, n).own = c.own
         /\ Chain(c, f, t, n).dying = c.dying /\ Chain(c, f, t, n).stale = c.stale
         /\ Chain(c, f, t, n).t2[Offset(3, f)] = t
         /\ Chain(c, f, t, n).t1[Offset(3, f)][Offset(2, f)] = n
         /\ \A i \in I3 : i # Offset(3, f) => Chain(c, f, t, n).t2[i] = c.t2[i]
         /\ \A i \in I3, j \in I2 : i # Offset(3, f) \/ j # Offset(2, f) =>
               Chain(c, f, t, n).t1[i][j] = c.t1[i][j]
<1> DEFINE a == Offset(3, f)
           b == Offset(2, f)
           row == [c.t1[a] EXCEPT ![b] = n]
           t2 == [c.t2 EXCEPT ![a] = t]
           t1 == [c.t1 EXCEPT ![a] = row]
           d == Chain(c, f, t, n)
<1>1. c \in Ctx /\ a \in I3 /\ b \in I2 /\ t \in Opt /\ n \in Opt
  BY LocTyped DEF CtxOK, Joins, Opt
<1>2. d = [c EXCEPT !.t2 = t2, !.t1 = t1]
  BY DEF Chain
<1> HIDE DEF a, b, d
<1>3. t2 \in [I3 -> Opt] /\ t2[a] = t /\ \A i \in I3 : i # a => t2[i] = c.t2[i]
  BY <1>1 DEF Ctx
<1>4. c.t1[a] \in [I2 -> Opt]
  BY <1>1 DEF Ctx
<1>5. row \in [I2 -> Opt] /\ row[b] = n /\ \A j \in I2 : j # b => row[j] = c.t1[a][j]
  BY <1>1, <1>4
<1> HIDE DEF row, t2
<1>6. t1 \in [I3 -> [I2 -> Opt]] /\ t1[a] = row /\ \A i \in I3 : i # a => t1[i] = c.t1[i]
  BY <1>1, <1>5 DEF Ctx
<1> HIDE DEF t1
<1>7. /\ d \in Ctx /\ d.t2 = t2 /\ d.t1 = t1 /\ d.roots = c.roots /\ d.pinned = c.pinned
      /\ d.loaded = c.loaded /\ d.lev = c.lev /\ d.own = c.own /\ d.dying = c.dying
      /\ d.stale = c.stale
  BY <1>1, <1>2, <1>3, <1>6 DEF Ctx
<1>8. t1[a][b] = n /\ \A i \in I3, j \in I2 : i # a \/ j # b => t1[i][j] = c.t1[i][j]
  BY <1>5, <1>6
<1> QED BY <1>3, <1>7, <1>8 DEF d, a, b

LEMMA ChainOK ==
  ASSUME NEW c, CtxOK(c), NEW f \in Frames, NEW t, NEW n, Joins(c, f, t, n)
  PROVE  /\ CtxOK(Chain(c, f, t, n))
         /\ Kt(Chain(c, f, t, n)) = Kt(c) \cup {t, n}
<1> DEFINE a == Offset(3, f)
           b == Offset(2, f)
           d == Chain(c, f, t, n)
<1>1. a \in I3 /\ b \in I2 /\ t \in Frames /\ n \in Frames /\ t # n /\ t # None /\ n # None
  BY LocTyped, Bases DEF Joins
<1>2. /\ d \in Ctx /\ d.roots = c.roots /\ d.pinned = c.pinned /\ d.loaded = c.loaded
      /\ d.lev = c.lev /\ d.own = c.own /\ d.dying = c.dying
      /\ d.t2[a] = t /\ d.t1[a][b] = n
      /\ \A i \in I3 : i # a => d.t2[i] = c.t2[i]
      /\ \A i \in I3, j \in I2 : i # a \/ j # b => d.t1[i][j] = c.t1[i][j]
  BY ChainIs
<1>3. /\ c.lev[n] = 0 /\ n \notin Kt(c) /\ (t = c.t2[a] \/ (c.lev[t] = 0 /\ t \notin Kt(c) /\ c.t2[a] = None))
      /\ c.t1[a][b] = None
  BY DEF Joins, Loose
<1> HIDE DEF a, b, d
<1>4. K2(d) = K2(c) \cup {t}
  BY <1>1, <1>2, <1>3, Bases DEF K2
<1>5. K1(d) = K1(c) \cup {n}
  BY <1>1, <1>2, <1>3, Bases DEF K1
<1>6. Kt(d) = Kt(c) \cup {t, n}
  BY <1>4, <1>5 DEF Kt
<1>7. t \in K2(c) \/ (c.lev[t] = 0 /\ t \notin Kt(c) /\ c.t2[a] = None)
  BY <1>1, <1>3 DEF K2
<1>8. CtxKernel(d)
  <2>1. t \notin K1(c) /\ t \notin {PtBase, PtBase + 1}
    BY <1>7 DEF CtxOK, CtxKernel, Kt
  <2>2. n \notin K1(c) \cup K2(c) /\ n \notin {PtBase, PtBase + 1}
    BY <1>3 DEF Kt
  <2>3. PtBase \notin K2(d) \cup K1(d) /\ PtBase + 1 \notin K2(d) \cup K1(d) /\ K2(d) \cap K1(d) = {}
    BY <1>1, <1>4, <1>5, <2>1, <2>2 DEF CtxOK, CtxKernel
  <2>4. \A i \in I3, h \in I3 : d.t2[i] = d.t2[h] /\ d.t2[i] # None => i = h
    <3>1. SUFFICES ASSUME NEW i \in I3, NEW h \in I3, d.t2[i] = d.t2[h], d.t2[i] # None, i # h
                   PROVE  FALSE
      OBVIOUS
    <3>2. CASE i # a /\ h # a
      BY <1>2, <3>1, <3>2 DEF CtxOK, CtxKernel
    <3>3. ASSUME NEW g \in I3, g # a, c.t2[g] = t
          PROVE  FALSE
      <4>1. c.t2[g] \in K2(c)
        BY <1>1, <3>3 DEF K2
      <4>2. t = c.t2[a]
        BY <1>3, <3>3, <4>1 DEF Kt
      <4> QED BY <1>1, <3>3, <4>2 DEF CtxOK, CtxKernel
    <3> QED BY <1>1, <1>2, <3>1, <3>2, <3>3
  <2>5. \A i \in I3, j \in I2, h \in I3, l \in I2 :
            d.t1[i][j] = d.t1[h][l] /\ d.t1[i][j] # None => i = h /\ j = l
    <3>1. \A g \in I3, l \in I2 : c.t1[g][l] # n
      BY <1>1, <2>2 DEF K1
    <3>2. SUFFICES ASSUME NEW i \in I3, NEW j \in I2, NEW h \in I3, NEW l \in I2,
                          d.t1[i][j] = d.t1[h][l], d.t1[i][j] # None, i # h \/ j # l
                   PROVE  FALSE
      OBVIOUS
    <3>3. CASE (i # a \/ j # b) /\ (h # a \/ l # b)
      BY <1>2, <3>2, <3>3 DEF CtxOK, CtxKernel
    <3>4. CASE i = a /\ j = b
      BY <1>2, <3>1, <3>2, <3>4
    <3>5. CASE h = a /\ l = b
      BY <1>2, <3>1, <3>2, <3>5
    <3> QED BY <3>3, <3>4, <3>5
  <2>6. \A i \in I3, j \in I2 : d.t2[i] = None => d.t1[i][j] = None
    <3>1. SUFFICES ASSUME NEW i \in I3, NEW j \in I2, d.t2[i] = None PROVE d.t1[i][j] = None
      OBVIOUS
    <3>2. i # a
      BY <1>1, <1>2, <3>1
    <3> QED BY <1>2, <3>1, <3>2 DEF CtxOK, CtxKernel
  <2> QED BY <2>3, <2>4, <2>5, <2>6 DEF CtxKernel
<1>9. CtxSpaces(d)
  <2>1. \A g \in Frames : d.lev[g] # 0 => g \notin Kt(d) /\ d.own[g] \in d.roots
    <3>1. \A g \in Frames : c.lev[g] # 0 => g # t /\ g # n
      BY <1>3, <1>7 DEF CtxOK, CtxSpaces, Kt
    <3> QED BY <1>2, <1>6, <3>1 DEF CtxOK, CtxSpaces
  <2> QED BY <1>2, <2>1 DEF CtxOK, CtxSpaces
<1>10. CtxOK(d)
  BY <1>2, <1>8, <1>9 DEF CtxOK
<1> QED BY <1>6, <1>10 DEF d

\* The memory m2 in which the new tables are linked
Linked(m, m2, c, f, t, n) ==
    /\ \A u \in Frames, j \in Index :
          /\ Table(c, u)
          /\ u # PtBase + 1 \/ j # Offset(3, f)
          /\ u # t \/ j # Offset(2, f)
          => m2[u][j] = m[u][j]
    /\ m2[PtBase + 1][Offset(3, f)].frame = t
    /\ m2[t][Offset(2, f)].frame = n
    /\ c.t2[Offset(3, f)] = None => \A j \in Index : j # Offset(2, f) => m2[t][j] = Free
    /\ \A j \in Index : m2[n][j] = IF j = Offset(1, f) THEN PteCreate(f, "rw") ELSE Free

LEMMA ChainStruct ==
  ASSUME NEW c, CtxOK(c), NEW f \in Frames, NEW t, NEW n, Joins(c, f, t, n), NEW m \in Memory,
         NEW m2 \in Memory, Struct(m, c), Linked(m, m2, c, f, t, n)
  PROVE  Struct(m2, Chain(c, f, t, n))
<1> DEFINE a == Offset(3, f)
           b == Offset(2, f)
           o == Offset(1, f)
           d == Chain(c, f, t, n)
<1>1. a \in I3 /\ b \in I2 /\ t \in Frames /\ n \in Frames /\ t # n /\ t # None /\ n # None /\ o \in Index
  BY LocTyped, Bases DEF Joins
<1>2. /\ d.roots = c.roots /\ d.lev = c.lev /\ d.own = c.own
      /\ d.t2[a] = t /\ d.t1[a][b] = n
      /\ \A i \in I3 : i # a => d.t2[i] = c.t2[i]
      /\ \A i \in I3, j \in I2 : i # a \/ j # b => d.t1[i][j] = c.t1[i][j]
  BY ChainIs
<1>3. CtxOK(d) /\ Kt(d) = Kt(c) \cup {t, n}
  BY ChainOK
<1>4. /\ c.lev[n] = 0 /\ n \notin Kt(c) /\ (t = c.t2[a] \/ (c.lev[t] = 0 /\ t \notin Kt(c) /\ c.t2[a] = None))
  BY DEF Joins, Loose
<1>5. /\ \A u \in Frames, j \in Index : Table(c, u) /\ (u # PtBase + 1 \/ j # a) /\ (u # t \/ j # b) => m2[u][j] = m[u][j]
      /\ m2[PtBase + 1][a].frame = t
      /\ m2[t][b].frame = n
      /\ c.t2[a] = None => \A j \in Index : j # b => m2[t][j] = Free
      /\ \A j \in Index : m2[n][j] = IF j = o THEN PteCreate(f, "rw") ELSE Free
  BY DEF Linked
<1>6. t \in K2(c) \/ (c.lev[t] = 0 /\ t \notin Kt(c) /\ c.t2[a] = None)
  BY <1>1, <1>4 DEF K2
<1>7. t # PtBase /\ t # PtBase + 1 /\ t \notin K1(c) /\ c.lev[t] = 0
  BY <1>1, <1>6 DEF CtxOK, CtxKernel, CtxSpaces, Kt
<1>8. \A g \in Frames : Loc(d, g) = Location(d.t1[Offset(3, g)][Offset(2, g)], Offset(1, g))
  BY DEF Loc
<1> HIDE DEF d
<1>9. Shape(m2, d)
  <2>1. \A i \in 0 .. Entries[4] - 1 : m2[PtBase][i] = IF i = PtUserEntries THEN KernelEntry ELSE Free
    <3>1. \A i \in Index : m2[PtBase][i] = m[PtBase][i]
      BY <1>5, <1>7, Bases DEF Table, Kt
    <3> QED BY <3>1, Bases DEF Struct, Shape
  <2>2. \A i \in I3 : m2[PtBase + 1][i].frame = d.t2[i]
    <3>1. SUFFICES ASSUME NEW i \in I3 PROVE m2[PtBase + 1][i].frame = d.t2[i]
      OBVIOUS
    <3>2. CASE i = a
      BY <1>2, <1>5, <3>2
    <3>3. CASE i # a
      <4>1. i \in Index /\ PtBase + 1 \in Frames /\ Table(c, PtBase + 1)
        BY Bases DEF Table, Kt
      <4>2. m2[PtBase + 1][i] = m[PtBase + 1][i]
        BY <1>5, <1>7, <3>3, <4>1
      <4> QED BY <1>2, <3>3, <4>2 DEF Struct, Shape
    <3> QED BY <3>2, <3>3
  <2>3. \A i \in I3, j \in I2 : d.t2[i] # None => m2[d.t2[i]][j].frame = d.t1[i][j]
    <3>1. SUFFICES ASSUME NEW i \in I3, NEW j \in I2, d.t2[i] # None
                   PROVE  m2[d.t2[i]][j].frame = d.t1[i][j]
      OBVIOUS
    <3>2. j \in Index
      BY Bases
    <3>3. CASE i = a /\ j = b
      BY <1>2, <1>5, <3>3
    <3>4. CASE i = a /\ j # b /\ c.t2[a] = None
      <4>1. m2[t][j] = Free /\ Free.frame = None
        BY <1>5, <3>2, <3>4, FreeEntry
      <4>2. c.t1[a][j] = None
        BY <1>1, <3>4 DEF CtxOK, CtxKernel
      <4> QED BY <1>2, <3>4, <4>1, <4>2
    <3>5. CASE i = a /\ j # b /\ c.t2[a] # None
      <4>1. t = c.t2[a] /\ t \in K2(c)
        BY <1>4, <1>6, <3>5
      <4>2. Table(c, t)
        BY <4>1 DEF Table, Kt
      <4>3. m2[t][j] = m[t][j]
        BY <1>1, <1>5, <1>7, <3>2, <3>5, <4>2
      <4>4. m[t][j].frame = c.t1[a][j]
        BY <1>1, <3>5, <4>1 DEF Struct, Shape
      <4> QED BY <1>2, <3>5, <4>3, <4>4
    <3>6. CASE i # a
      <4> DEFINE u == c.t2[i]
      <4>1. d.t2[i] = u /\ u # None
        BY <1>2, <3>1, <3>6
      <4>2. u \in K2(c) /\ u \in Frames
        BY <4>1, CtxTyped
      <4>3. Table(c, u) /\ u # PtBase + 1
        BY <4>2 DEF Table, Kt, CtxOK, CtxKernel
      <4>4. u # t
        <5>1. ASSUME u = t PROVE FALSE
          <6>1. t = c.t2[a]
            BY <1>4, <4>2, <5>1 DEF Kt
          <6> QED BY <1>1, <3>6, <4>1, <5>1, <6>1 DEF CtxOK, CtxKernel
        <5> QED BY <5>1
      <4>5. m[u][j].frame = c.t1[i][j]
        BY <4>1 DEF Struct, Shape
      <4> HIDE DEF u
      <4>6. m2[u][j] = m[u][j]
        BY <1>5, <3>2, <4>2, <4>3, <4>4
      <4> QED BY <1>2, <3>6, <4>1, <4>5, <4>6
    <3> QED BY <3>3, <3>4, <3>5, <3>6
  <2> QED BY <2>1, <2>2, <2>3 DEF Shape
<1>10. Kernel(m2, d)
  <2>1. SUFFICES ASSUME NEW g \in Frames, Loc(d, g) # <<>>
                 PROVE  EntryAt(m2, Loc(d, g)) \in KernPtes(g) \cup {Free}
    BY DEF Kernel
  <2> DEFINE p == Offset(3, g)
             q == Offset(2, g)
             r == Offset(1, g)
             u == d.t1[p][q]
  <2>2. p \in I3 /\ q \in I2 /\ r \in Index /\ u # None /\ Loc(d, g) = <<u, r>> /\ u \in Frames
    BY <1>3, <2>1, LocTyped, Bases, CtxTyped
  <2>3. EntryAt(m2, Loc(d, g)) = m2[u][r]
    BY <2>2 DEF EntryAt
  <2>4. CASE p = a /\ q = b
    <3>1. u = n
      BY <1>2, <2>4
    <3>2. CASE r = o
      <4>1. g = f
        <5>1. Offset(1, g) = Offset(1, f) /\ Offset(2, g) = Offset(2, f) /\ Offset(3, g) = Offset(3, f)
          BY <2>4, <3>2
        <5> QED BY <5>1, FrameOfOffsets
      <4> QED BY <1>5, <2>2, <2>3, <3>1, <3>2, <4>1 DEF KernPtes
    <3>3. CASE r # o
      BY <1>5, <2>2, <2>3, <3>1, <3>3
    <3> QED BY <3>2, <3>3
  <2>5. CASE p # a \/ q # b
    <3>1. u = c.t1[p][q]
      BY <1>2, <2>2, <2>5
    <3>2. u \in K1(c)
      BY <2>2, <3>1, CtxTyped
    <3>3. Loc(c, g) = <<u, r>> /\ Loc(c, g) # <<>>
      BY <2>2, <3>1 DEF Loc, Location
    <3>4. m[u][r] \in KernPtes(g) \cup {Free}
      <4>1. EntryAt(m, Loc(c, g)) \in KernPtes(g) \cup {Free}
        BY <3>3 DEF Struct, Kernel
      <4> QED BY <3>3, <4>1 DEF EntryAt
    <3>5. Table(c, u) /\ u # PtBase + 1 /\ u # t
      BY <1>7, <3>2 DEF Table, Kt, CtxOK, CtxKernel
    <3> HIDE DEF u, r
    <3>6. m2[u][r] = m[u][r]
      BY <1>5, <2>2, <3>5
    <3> QED BY <2>3, <3>4, <3>6
  <2> QED BY <2>4, <2>5
<1>11. Trees(m2, d)
  <2>1. ASSUME NEW u \in Frames, c.lev[u] # 0
        PROVE  \A j \in Index : m2[u][j] = m[u][j]
    <3>1. Table(c, u) /\ u # PtBase + 1 /\ u # t
      BY <1>7, <2>1 DEF Table, CtxOK, CtxSpaces, Kt
    <3> QED BY <1>5, <3>1
  <2>2. \A u, v : Fits(d, u, v) = Fits(c, u, v)
    BY <1>2 DEF Fits
  <2>3. SUFFICES ASSUME NEW u \in Frames, c.lev[u] # 0
                 PROVE  /\ d.lev[u] = 4 => Top(m2, d, u)
                        /\ d.lev[u] = 3 => \A i \in I3 : Fits(d, u, m2[u][i])
                        /\ d.lev[u] = 2 => \A i \in I2 : Fits(d, u, m2[u][i])
    BY <1>2 DEF Trees
  <2>4. \A j \in Index : m2[u][j] = m[u][j]
    BY <2>1, <2>3
  <2>5. c.lev[u] = 4 => Top(m2, d, u)
    BY <1>2, <2>2, <2>4, Bases DEF Struct, Trees, Top
  <2>6. c.lev[u] = 3 => \A i \in I3 : Fits(d, u, m2[u][i])
    BY <2>2, <2>4, Bases DEF Struct, Trees
  <2>7. c.lev[u] = 2 => \A i \in I2 : Fits(d, u, m2[u][i])
    BY <2>2, <2>4, Bases DEF Struct, Trees
  <2> QED BY <1>2, <2>5, <2>6, <2>7
<1> QED BY <1>9, <1>10, <1>11 DEF Struct, d

\* The table n has one entry.
Only(m, n, o, val) == \A j \in Index : m[n][j] = IF j = o THEN val ELSE Free

\* A table for the kernel's half was built, and is not linked yet.
Kerneled(x, k, c, n, o, val) ==
    /\ Good(x, c) /\ KernelOnly(x, c) /\ n \in Frames /\ Loose(c, n) /\ n \in k.unused /\ k.count[n] = 0
    /\ x.unused = k.unused \ {n} /\ x.count = k.count /\ Only(x.mem, n, o, val)
    /\ \A t \in Frames : t \notin K1(c) /\ t # n => x.mem[t] = k.mem[t]

LEMMA KernelTableOK ==
  ASSUME NEW k, NEW c, Good(k, c), c.dying = None, KernelOnly(k, c), NEW o \in Index, NEW val \in Content
  PROVE  \/ InsertPtp(k, PtBase, o, val) \in Halted
         \/ Kerneled(InsertPtp(k, PtBase, o, val), k, c, NextFrame(k), o, val)
<1> DEFINE n == NextFrame(k)
           p == PtpAlloc(k)
           s == Store(p, <<n, o>>, val)
           x == WriteProtect(s, PtBase, n)
<1>1. InsertPtp(k, PtBase, o, val) = x
  BY DEF InsertPtp
<1>2. p \in Halted \/ (Good(p, c) /\ Taken(p, k, n))
  BY PtpAllocOK
<1> HIDE DEF n, p
<1>3. CASE p \in Halted
  <2>1. p \in KSet /\ p.bug
    BY <1>3 DEF Halted
  <2>2. s \in Halted
    BY <2>1, StoreHalted
  <2> HIDE DEF s
  <2>3. x \in Halted
    BY <2>2, WriteProtectHalted
  <2> QED BY <1>1, <2>3
<1>4. CASE Good(p, c) /\ Taken(p, k, n)
  <2>1. /\ p.mem = [k.mem EXCEPT ![n] = Cleared] /\ p.unused = k.unused \ {n} /\ p.count = k.count
        /\ p.queue = k.queue /\ n \in k.unused
    BY <1>4 DEF Taken
  <2>2. n \in Frames /\ Loose(c, n) /\ k.count[n] = 0
    <3>1. Core(k, c)
      BY DEF Good
    <3> QED BY <2>1, <3>1, UnusedLoose
  <2>3. \/ s \in Halted
        \/ Good(s, c) /\ s.mem = Put(p.mem, n, o, val) /\ s.queue = p.queue /\ Elsewhere(s, p)
    BY <1>4, <2>2, StoreOK
  <2>4. KernelRoot(c, PtBase)
    BY DEF KernelRoot
  <2>5. k.mem \in Memory /\ p.mem \in Memory
    BY <1>4, KTyped DEF Good, Core
  <2> HIDE DEF s
  <2>6. CASE s \in Halted
    <3>1. x \in Halted
      BY <2>6, WriteProtectHalted
    <3> QED BY <1>1, <3>1
  <2>7. CASE Good(s, c) /\ s.mem = Put(p.mem, n, o, val) /\ s.queue = p.queue /\ Elsewhere(s, p)
    <3>1. KernelOnly(s, c)
      BY <2>1, <2>7 DEF KernelOnly
    <3>2. Goes(x, s, c)
      BY <2>2, <2>4, <2>7, WriteProtectOK
    <3> HIDE DEF x
    <3>3. CASE x \in Halted
      BY <1>1, <3>3
    <3>4. CASE x \notin Halted
      <4>1. /\ Good(x, c) /\ Elsewhere(x, s) /\ KernelOnly(x, c)
            /\ \A t \in Frames \ K1(c) : x.mem[t] = s.mem[t]
        BY <3>1, <3>2, <3>4 DEF Goes
      <4>2. x.unused = k.unused \ {n} /\ x.count = k.count
        BY <2>1, <2>7, <4>1 DEF Elsewhere
      <4>3. n \notin K1(c)
        BY <2>2 DEF Loose, Kt
      <4>4. p.mem[n] = Cleared
        BY <2>1, <2>2, <2>5 DEF Memory
      <4>5. Only(x.mem, n, o, val)
        <5>1. \A j \in Index : s.mem[n][j] = IF j = o THEN val ELSE p.mem[n][j]
          BY <2>2, <2>5, <2>7, PutTyped
        <5> QED BY <2>2, <4>1, <4>3, <4>4, <5>1, ClearedTyped DEF Only
      <4>6. ASSUME NEW t \in Frames, t \notin K1(c), t # n PROVE x.mem[t] = k.mem[t]
        <5>1. x.mem[t] = s.mem[t]
          BY <4>1, <4>6
        <5>2. s.mem[t] = p.mem[t]
          BY <2>2, <2>5, <2>7, <4>6, PutTyped
        <5>3. p.mem[t] = k.mem[t]
          BY <2>1, <2>2, <2>5, <4>6 DEF Memory
        <5> QED BY <5>1, <5>2, <5>3
      <4> QED BY <1>1, <2>1, <2>2, <4>1, <4>2, <4>5, <4>6 DEF Kerneled, n
    <3> QED BY <3>3, <3>4
  <2> QED BY <2>3, <2>6, <2>7
<1> QED BY <1>2, <1>3, <1>4

\* The entry that links the tables: the last one that is queued.
Links(k, c, f, t, n, u, i, val) ==
    \A m \in Memory : Struct(m, c) /\ (\A z \in Frames : z \notin K1(c) => m[z] = k.mem[z])
                      => Linked(m, Put(m, u, i, val), c, f, t, n)

LEMMA LinkApply ==
  ASSUME NEW s, NEW c, Core(s, c), NEW f \in Frames, NEW t, NEW n, Joins(c, f, t, n), n \notin s.unused,
         s.count[n] = 0, t \notin s.unused, s.count[t] = 0, NEW u \in Frames, NEW i \in Index, NEW val \in Content,
         Linked(s.mem, Put(s.mem, u, i, val), c, f, t, n), NEW e, e.ptr = <<u, i>>, e.val = val
  PROVE  Apply(s, e) \in Halted \/ Core(Apply(s, e), Chain(c, f, t, n))
<1> DEFINE m == s.mem
           m2 == Put(m, u, i, val)
           x == [s EXCEPT !.mem = m2]
           d == Chain(c, f, t, n)
<1>1. s \in KSet /\ m \in Memory /\ CtxOK(c) /\ Struct(m, c) /\ Allocator(s, c)
  BY KTyped DEF Core
<1>2. m2 \in Memory
  BY <1>1, PutTyped
<1>3. Linked(m, m2, c, f, t, n)
  OBVIOUS
<1>4. Apply(s, e) = Checked(s, m2)
  BY DEF Apply, Put
<1> HIDE DEF m2
<1>5. x \in KSet /\ x.mem = m2 /\ x.tlb = s.tlb /\ Elsewhere(x, s)
  BY <1>1, <1>2, WithMem
<1>6. CASE ~Accepts(m2, Tops(s))
  BY <1>1, <1>4, <1>6, WithTyped DEF Checked
<1>7. CASE Accepts(m2, Tops(s))
  <2>1. Apply(s, e) = x
    BY <1>4, <1>7 DEF Checked
  <2> HIDE DEF x, m
  <2>2. Struct(m2, d)
    BY <1>1, <1>2, <1>3, ChainStruct
  <2>3. CtxOK(d) /\ Kt(d) = Kt(c) \cup {t, n}
    BY <1>1, ChainOK
  <2>4. /\ d.roots = c.roots /\ d.pinned = c.pinned /\ d.loaded = c.loaded
        /\ d.lev = c.lev /\ d.own = c.own /\ d.dying = c.dying
    BY <1>1, ChainIs
  <2> HIDE DEF d
  <2>5. x.unused = s.unused /\ x.count = s.count
    BY <1>5 DEF Elsewhere
  <2>6. Allocator(x, d)
    <3>1. SUFFICES ASSUME NEW g \in Frames
                   PROVE  /\ g \in x.unused => g \notin Kt(d) /\ x.count[g] = 0 /\ (d.lev[g] = 0 \/ d.own[g] = d.dying)
                          /\ x.count[g] # 0 => g \notin Kt(d) /\ d.lev[g] = 0
      BY DEF Allocator
    <3>2. CASE g = t \/ g = n
      BY <2>5, <3>2
    <3>3. CASE g # t /\ g # n
      BY <1>1, <2>3, <2>4, <2>5, <3>3 DEF Allocator
    <3> QED BY <3>2, <3>3
  <2>7. Tops(x) = Tops(s)
    BY <1>5, TopsSame
  <2>8. Core(x, d)
    BY <1>5, <1>7, <2>2, <2>3, <2>4, <2>6, <2>7 DEF Core, Elsewhere
  <2> QED BY <2>1, <2>8 DEF d
<1> QED BY <1>6, <1>7

AllowedUpTo(q, c, n) == \A j \in 1 .. n : Allowed(c, q[j].ptr[1], q[j].ptr[2], q[j].val)
Written(x, k, n) ==
    \A t \in Frames : x \in Halted \/ (\E j \in 1 .. n : k.queue[j].ptr[1] = t) \/ x.mem[t] = k.mem[t]

LEMMA FlushedUpTo ==
  ASSUME NEW k, NEW c, Core(k, c), NEW F, Flushes(F, k), NEW n \in Nat, n <= Len(k.queue),
         AllowedUpTo(k.queue, c, n)
  PROVE  Steadily(F[n], k, c) /\ Written(F[n], k, n)
<1>1. \A j \in 1 .. n : Allowed(c, k.queue[j].ptr[1], k.queue[j].ptr[2], k.queue[j].val)
  BY DEF AllowedUpTo
<1>2. /\ Steadily(F[n], k, c)
      /\ \A t \in Frames :
            F[n] \in Halted \/ (\E j \in 1 .. n : k.queue[j].ptr[1] = t) \/ F[n].mem[t] = k.mem[t]
  BY <1>1, Flushed
<1> QED BY <1>2 DEF Written

\* A link between tables of the kernel's half
LEMMA LinkMirror ==
  ASSUME NEW x, NEW c, Good(x, c), NEW f \in Frames, NEW t, NEW n, Joins(c, f, t, n),
         NEW u \in Frames, NEW i \in Index, Exempt(c, u, i), NEW e \in Update, e.ptr = <<u, i>>,
         NEW y \in KSet, y.mem = x.mem, y.queue = Append(x.queue, e)
  PROVE  DoUpdate(y) \in Halted \/ Mirror(DoUpdate(y), Chain(c, f, t, n))
<1> DEFINE d == Chain(c, f, t, n)
<1>1. x \in KSet /\ CtxOK(c) /\ Mirror(x, c)
  BY DEF Good, Core
<1>2. Queued(y, x, u, i, e.val)
  BY <1>1, AppendFinal
<1>3. Mirror(y, c)
  BY <1>1, <1>2, QueuedMirror
<1>4. DoUpdate(y) \in Halted \/ Mirror(DoUpdate(y), c)
  BY <1>1, <1>3, UpdateMirror
<1>5. d.roots = c.roots /\ d.dying = c.dying /\ d.stale = c.stale
  BY <1>1, ChainIs
<1> HIDE DEF d
<1>6. Mirror(DoUpdate(y), c) => Mirror(DoUpdate(y), d)
  BY <1>5 DEF Mirror
<1> QED BY <1>4, <1>6 DEF d

LEMMA LinkFlushed ==
  ASSUME NEW x, NEW c, Good(x, c), KernelOnly(x, c), NEW f \in Frames, NEW t, NEW n, Joins(c, f, t, n),
         n \notin x.unused, x.count[n] = 0, t \notin x.unused, x.count[t] = 0,
         NEW u \in Frames, NEW i \in Index, Exempt(c, u, i), NEW val \in Content,
         Links(x, c, f, t, n, u, i, val), NEW e, e = [ptr |-> <<u, i>>, val |-> val]
  PROVE  Idle(DoUpdate([x EXCEPT !.queue = Append(@, e)]), Chain(c, f, t, n))
<1> DEFINE q == Append(x.queue, e)
           y == [x EXCEPT !.queue = q]
           N == Len(x.queue)
           d == Chain(c, f, t, n)
<1>1. x \in KSet /\ x.queue \in Seq(Update) /\ Core(x, c) /\ CtxOK(c)
  BY KTyped DEF Good, Core
<1>2. e \in Update /\ e.ptr = <<u, i>> /\ e.val = val
  BY DEF Update
<1>3. /\ q \in Seq(Update) /\ Len(q) = N + 1 /\ N \in Nat /\ q[N + 1] = e
      /\ \A j \in 1 .. N : q[j] = x.queue[j]
  BY <1>1, <1>2, AppendQueue
<1>4. [x EXCEPT !.queue = Append(@, e)] = y
  OBVIOUS
<1> HIDE DEF q, N
<1>5. y \in KSet /\ y.mem = x.mem /\ y.queue = q /\ y.tlb = x.tlb /\ Elsewhere(y, x)
  BY <1>1, <1>3, WithQueue
<1> HIDE DEF y
<1>6. Core(y, c)
  <2>1. Allocator(y, c) /\ Tops(y) = Tops(x)
    BY <1>1, <1>5, AllocatorSame, TopsSame DEF Core
  <2> QED BY <1>1, <1>5, <2>1 DEF Core, Elsewhere
<1>7. CASE y.bug
  <2>1. y \in Halted
    BY <1>5, <1>7 DEF Halted
  <2> QED BY <1>4, <2>1, UpdateHalted DEF Idle
<1>8. CASE ~y.bug
  <2>1. q # <<>>
    BY <1>3
  <2>2. PICK F : Flushes(F, y)
    BY <1>5, <1>8, <2>1, Applied
  <2>3. N \in Nat /\ N <= Len(y.queue) /\ Len(y.queue) = N + 1
    BY <1>3, <1>5
  <2>4. AllowedUpTo(y.queue, c, N)
    BY <1>3, <1>5 DEF Good, GoodQueue, AllowedUpTo, N
  <2>5. Steadily(F[N], y, c) /\ Written(F[N], y, N)
    BY <1>6, <2>2, <2>3, <2>4, FlushedUpTo
  <2> DEFINE s == F[N]
             a == F[N + 1]
             r == PageTableLoad([a EXCEPT !.queue = <<>>])
  <2>6. s \in KSet /\ a = Apply(s, e) /\ DoUpdate(y) = r
    <3>1. N + 1 \in 1 .. Len(y.queue) /\ (N + 1) - 1 = N
      BY <2>3
    <3> QED BY <1>3, <1>5, <2>2, <2>3, <3>1 DEF Flushes
  <2>7. Steadily(s, y, c) /\ Written(s, y, N)
    BY <2>5
  <2> HIDE DEF s, a
  <2>8. CASE s \in Halted
    <3>1. a \in Halted
      BY <1>2, <2>6, <2>8, ApplyTyped DEF Halted
    <3>2. r \in Halted
      BY <3>1, LoadHalted
    <3> QED BY <1>4, <2>6, <3>2 DEF Idle
  <2>9. CASE s \notin Halted
    <3>1. Core(s, c) /\ Elsewhere(s, y)
      BY <2>7, <2>9 DEF Steadily
    <3>2. \A z \in Frames : z \notin K1(c) => s.mem[z] = x.mem[z]
      <4>1. \A j \in 1 .. N : y.queue[j].ptr[1] \in K1(c)
        BY <1>3, <1>5 DEF KernelOnly, N
      <4> QED BY <1>5, <2>7, <2>9, <4>1 DEF Written
    <3>3. s.mem \in Memory /\ Struct(s.mem, c)
      BY <2>6, <3>1, KTyped DEF Core
    <3>4. Linked(s.mem, Put(s.mem, u, i, val), c, f, t, n)
      BY <3>2, <3>3 DEF Links
    <3>5. n \notin s.unused /\ s.count[n] = 0 /\ t \notin s.unused /\ s.count[t] = 0
      BY <1>5, <3>1 DEF Elsewhere
    <3>6. Apply(s, e) \in Halted \/ Core(Apply(s, e), d)
      BY <1>2, <3>1, <3>4, <3>5, LinkApply
    <3> HIDE DEF d
    <3>7. CASE a \in Halted
      <4>1. r \in Halted
        BY <3>7, LoadHalted
      <4> QED BY <1>4, <2>6, <4>1 DEF Idle
    <3>8. CASE Core(a, d)
      <4>1. Core(r, d) /\ GoodQueue(r, d) /\ TlbOK(r) /\ r.queue = <<>>
        BY <3>8, Loaded
      <4>2. r \in Halted \/ Mirror(r, d)
        BY <1>2, <1>5, <2>6, LinkMirror DEF d, q
      <4>3. r \in Halted \/ Good(r, d)
        BY <4>1, <4>2 DEF Good
      <4> QED BY <1>4, <2>6, <4>1, <4>3 DEF Idle, d
    <3> QED BY <2>6, <3>6, <3>7, <3>8
  <2> QED BY <2>8, <2>9
<1> QED BY <1>7, <1>8

LEMMA LinkKernelOK ==
  ASSUME NEW k, NEW c, Good(k, c), KernelOnly(k, c), NEW f \in Frames, NEW t, NEW n, Joins(c, f, t, n),
         n \notin k.unused, k.count[n] = 0, t \notin k.unused, k.count[t] = 0,
         NEW u \in Frames, NEW i \in Index, Exempt(c, u, i), NEW val \in Content,
         Links(k, c, f, t, n, u, i, val)
  PROVE  Idle(DoUpdate(DeferredUpdate(k, <<u, i>>, val)), Chain(c, f, t, n))
<1> DEFINE e == [ptr |-> <<u, i>>, val |-> val]
           x == Room(k)
           y == [x EXCEPT !.queue = Append(@, e)]
           z == DeferredUpdate(k, <<u, i>>, val)
           ptr == <<u, i>>
<1>1. k \in KSet
  BY DEF Good, Core
<1>2. CASE k.bug
  <2>1. DeferredUpdate(k, ptr, val) \in Halted
    BY <1>1, <1>2, DeferredHalted
  <2>2. z \in Halted
    BY <2>1
  <2> HIDE DEF z
  <2> QED BY <2>2, UpdateHalted DEF Idle, z
<1>3. CASE ~k.bug
  <2>1. z = y
    BY <1>3 DEF DeferredUpdate
  <2>2. Goes(x, k, c)
    BY RoomOK
  <2>3. e \in Update /\ e = [ptr |-> <<u, i>>, val |-> val]
    BY DEF Update
  <2> HIDE DEF x, e
  <2>4. CASE x \in Halted
    <3>1. x \in KSet /\ x.bug /\ Append(x.queue, e) \in Seq(Update)
      BY <2>3, <2>4, KTyped, AppendQueue DEF Halted
    <3>2. y \in Halted
      BY <3>1 DEF KSet, Halted
    <3> HIDE DEF y, z
    <3> QED BY <2>1, <3>2, UpdateHalted DEF Idle, z
  <2>5. CASE x \notin Halted
    <3>1. /\ Good(x, c) /\ Elsewhere(x, k) /\ KernelOnly(x, c)
          /\ \A g \in Frames \ K1(c) : x.mem[g] = k.mem[g]
      BY <2>2, <2>5 DEF Goes
    <3>2. Links(x, c, f, t, n, u, i, val)
      BY <3>1 DEF Links
    <3>3. n \notin x.unused /\ x.count[n] = 0 /\ t \notin x.unused /\ x.count[t] = 0
      BY <3>1 DEF Elsewhere
    <3>4. Idle(DoUpdate([x EXCEPT !.queue = Append(@, e)]), Chain(c, f, t, n))
      BY <2>3, <3>1, <3>2, <3>3, LinkFlushed
    <3> QED BY <2>1, <3>4
  <2> QED BY <2>4, <2>5
<1> QED BY <1>2, <1>3

\* The tables on the path to the kernel's page of a frame
LEMMA KernelTablesAre ==
  ASSUME NEW c, CtxOK(c), NEW m \in Memory, Shape(m, c), NEW f \in Frames
  PROVE  /\ TableOf(m, PtBase, KernPage(f), 4) = PtBase
         /\ TableOf(m, PtBase, KernPage(f), 3) = PtBase + 1
         /\ TableOf(m, PtBase, KernPage(f), 2) = c.t2[Offset(3, f)]
         /\ TableOf(m, PtBase, KernPage(f), 1) = c.t1[Offset(3, f)][Offset(2, f)]
         /\ m[PtBase][PtUserEntries] = KernelEntry
         /\ m[PtBase + 1][Offset(3, f)].frame = c.t2[Offset(3, f)]
         /\ c.t2[Offset(3, f)] # None =>
               m[c.t2[Offset(3, f)]][Offset(2, f)].frame = c.t1[Offset(3, f)][Offset(2, f)]
<1> DEFINE p == KernPage(f)
           a == Offset(3, f)
           b == Offset(2, f)
           T(l) == TableOf(m, PtBase, p, l)
<1>1. /\ Offset(4, p) = PtUserEntries /\ Offset(3, p) = a /\ Offset(2, p) = b
      /\ a \in I3 /\ b \in I2
  BY KernOffset, LocTyped
<1> HIDE DEF p, a, b
<1>2. T(4) = PtBase /\ T(3) = Child(m, PtBase, Offset(4, p)) /\ T(2) = Child(m, T(3), Offset(3, p))
      /\ T(1) = Child(m, T(2), Offset(2, p))
  BY Walk
<1>3. m[PtBase][PtUserEntries] = KernelEntry /\ m[PtBase + 1][a].frame = c.t2[a]
      /\ (c.t2[a] # None => m[c.t2[a]][b].frame = c.t1[a][b])
      /\ (c.t2[a] = None => c.t1[a][b] = None)
  BY <1>1, Bases DEF Shape, CtxOK, CtxKernel
<1>4. T(3) = PtBase + 1
  BY <1>1, <1>2, <1>3, Bases DEF Child, KernelEntry, PteCreate
<1>5. T(2) = c.t2[a]
  BY <1>1, <1>2, <1>3, <1>4, Bases DEF Child
<1>6. T(1) = c.t1[a][b]
  BY <1>1, <1>2, <1>3, <1>5 DEF Child
<1> QED BY <1>2, <1>3, <1>4, <1>5, <1>6 DEF a, b, p

\* The kernel's context after a call of archPageTablePopulate
Widened(k, c) ==
    \E d : Idle(k, d) /\ d.dying = None /\ d.roots = c.roots /\ d.pinned = c.pinned /\ d.stale = c.stale

LEMMA ChainWidened ==
  ASSUME NEW k, NEW c, CtxOK(c), c.dying = None, NEW f \in Frames, NEW t, NEW n, Joins(c, f, t, n),
         Idle(k, Chain(c, f, t, n))
  PROVE  Widened(k, c)
<1> DEFINE d == Chain(c, f, t, n)
<1>1. d.dying = None /\ d.roots = c.roots /\ d.pinned = c.pinned /\ d.stale = c.stale
  BY ChainIs
<1>2. Idle(k, d)
  OBVIOUS
<1> HIDE DEF d
<1> QED BY <1>1, <1>2 DEF Widened

HaltedWidened(k) == k \in Halted
LEMMA HaltedIsWidened ==
  ASSUME NEW k, NEW c, HaltedWidened(k), c.dying = None
  PROVE  Widened(k, c)
  BY DEF HaltedWidened, Widened, Idle

\* A table in use is not free, and counts no pages.
LEMMA KernelTableFacts ==
  ASSUME NEW k, NEW c, Core(k, c), NEW f \in Frames, c.t2[Offset(3, f)] # None
  PROVE  /\ c.t2[Offset(3, f)] \in Frames /\ c.t2[Offset(3, f)] \in Kt(c)
         /\ c.t2[Offset(3, f)] \notin k.unused /\ k.count[c.t2[Offset(3, f)]] = 0
         /\ c.t2[Offset(3, f)] \notin K1(c) /\ c.t2[Offset(3, f)] # PtBase + 1
<1> DEFINE t == c.t2[Offset(3, f)]
<1>1. CtxOK(c) /\ Allocator(k, c)
  BY DEF Core
<1>2. t \in K2(c) /\ t \in Frames
  BY <1>1, LocTyped, CtxTyped
<1> HIDE DEF t
<1>3. t \in Kt(c) /\ t \notin K1(c) /\ t # PtBase + 1
  BY <1>1, <1>2 DEF Kt, CtxOK, CtxKernel
<1>4. t \notin k.unused /\ k.count[t] = 0
  BY <1>1, <1>2, <1>3 DEF Allocator
<1> QED BY <1>2, <1>3, <1>4 DEF t

\* Only an entry of the last level is missing.
LEMMA PopulateOne ==
  ASSUME NEW k, NEW c, Good(k, c), k.queue = <<>>, c.dying = None, NEW f \in Frames,
         c.t1[Offset(3, f)][Offset(2, f)] # None
  PROVE  Widened(DoUpdate(Link(B0(k, PteCreate(f, "rw")), PtBase, KernPage(f), 1)), c)
<1> DEFINE t == c.t1[Offset(3, f)][Offset(2, f)]
           o == Offset(1, f)
           v == PteCreate(f, "rw")
           page == KernPage(f)
           x == DeferredUpdate(k, <<t, o>>, v)
           l == Link(B0(k, v), PtBase, page, 1)
<1>1. CtxOK(c) /\ k.mem \in Memory /\ Shape(k.mem, c)
  BY KTyped DEF Good, Core, Struct
<1>2. TableOf(k.mem, PtBase, page, 1) = t
  BY <1>1, KernelTablesAre
<1>3. Offset(1, page) = o
  BY KernOffset
<1>4. Loc(c, f) # <<>> /\ Loc(c, f) = <<t, o>> /\ t \in Frames /\ o \in Index /\ t \in K1(c)
  <2>1. Loc(c, f) # <<>>
    BY <1>1, LocTyped
  <2> QED BY <1>1, <2>1, LocTyped, CtxTyped, Bases
<1>5. v \in Content /\ v \in KernPtes(f)
  BY DEF PteCreate, Content, Pte, KernPtes
<1>6. l = x
  BY <1>2, <1>3, <1>4, Bases DEF Link, B0, Location
<1>7. Allowed(c, t, o, v) /\ Exempt(c, t, o)
  BY <1>1, <1>4, <1>5, KernelExempt DEF Allowed
<1> HIDE DEF t, o, v, l
<1>8. Kept(x, c)
  BY <1>4, <1>5, <1>7, DeferredOK
<1> HIDE DEF x
<1>9. Idle(DoUpdate(x), c)
  BY <1>8, UpdateIdle
<1>10. Widened(DoUpdate(x), c)
  BY <1>9 DEF Widened
<1> QED BY <1>6, <1>10 DEF l, v, page

\* The first table for the page: its entry is that of the page.
LEMMA PopulateTable ==
  ASSUME NEW k, NEW c, Good(k, c), k.queue = <<>>, c.dying = None, NEW f \in Frames
  PROVE  LET b == B1(k, PtBase, KernPage(f), PteCreate(f, "rw"))
         IN /\ b.val = PteCreate(NextFrame(k), "rw")
            /\ \/ b.kk \in Halted
               \/ Kerneled(b.kk, k, c, NextFrame(k), Offset(1, f), PteCreate(f, "rw"))
<1> DEFINE o == Offset(1, f)
           v == PteCreate(f, "rw")
<1>1. Offset(1, KernPage(f)) = o
  BY KernOffset
<1>2. o \in Index /\ v \in Content
  BY LocTyped, OffsetRange DEF PteCreate, Content, Pte, Frames
<1>3. KernelOnly(k, c)
  BY DEF KernelOnly
<1> HIDE DEF o, v
<1>4. InsertPtp(k, PtBase, o, v) \in Halted \/ Kerneled(InsertPtp(k, PtBase, o, v), k, c, NextFrame(k), o, v)
  BY <1>2, <1>3, KernelTableOK
<1> QED BY <1>1, <1>4 DEF B1, B0, NewTable, o, v

\* A table of level 1 is missing.
LEMMA PopulateTwo ==
  ASSUME NEW k, NEW c, Good(k, c), k.queue = <<>>, c.dying = None, NEW f \in Frames,
         c.t2[Offset(3, f)] # None, c.t1[Offset(3, f)][Offset(2, f)] = None
  PROVE  Widened(DoUpdate(Link(B1(k, PtBase, KernPage(f), PteCreate(f, "rw")), PtBase, KernPage(f), 2)), c)
<1> DEFINE t == c.t2[Offset(3, f)]
           s == Offset(2, f)
           o == Offset(1, f)
           page == KernPage(f)
           b == B1(k, PtBase, page, PteCreate(f, "rw"))
           x == b.kk
           n == NextFrame(k)
           v == PteCreate(n, "rw")
           y == DeferredUpdate(x, <<t, s>>, v)
           l == Link(b, PtBase, page, 2)
<1>1. b.val = v /\ (x \in Halted \/ Kerneled(x, k, c, n, o, PteCreate(f, "rw")))
  BY PopulateTable
<1>2. s \in Index /\ Offset(2, page) = s /\ o \in Index
  BY KernOffset, LocTyped, OffsetRange DEF Frames
<1> HIDE DEF b, n
<1>3. CASE x \in Halted
  <2>1. l \in Halted
    BY <1>3, LinkHalted
  <2>2. HaltedWidened(DoUpdate(l))
    BY <2>1, UpdateHalted DEF HaltedWidened
  <2> QED BY <2>2, HaltedIsWidened DEF b
<1>4. CASE Kerneled(x, k, c, n, o, PteCreate(f, "rw"))
  <2>1. /\ Good(x, c) /\ KernelOnly(x, c) /\ n \in Frames /\ Loose(c, n) /\ n \in k.unused /\ k.count[n] = 0
        /\ x.unused = k.unused \ {n} /\ x.count = k.count /\ Only(x.mem, n, o, PteCreate(f, "rw"))
    BY <1>4 DEF Kerneled
  <2>2. Core(x, c) /\ CtxOK(c) /\ x.mem \in Memory /\ Shape(x.mem, c)
    BY <2>1, KTyped DEF Good, Core, Struct
  <2>3. t \in Frames /\ t \in Kt(c) /\ t \notin x.unused /\ x.count[t] = 0 /\ t \notin K1(c) /\ t # PtBase + 1
    BY <2>2, KernelTableFacts
  <2>4. l = y
    <3>1. TableOf(x.mem, PtBase, page, 2) = t
      BY <2>2, KernelTablesAre
    <3> QED BY <1>1, <1>2, <2>3, <3>1, Bases DEF Link, Location
  <2>5. t # n /\ Joins(c, f, t, n)
    BY <2>1, <2>3 DEF Joins, Loose
  <2>6. v \in Content /\ v.frame = n
    BY <2>1 DEF PteCreate, Content, Pte
  <2>7. Links(x, c, f, t, n, t, s, v)
    <3>1. SUFFICES ASSUME NEW m \in Memory, Struct(m, c), \A z \in Frames : z \notin K1(c) => m[z] = x.mem[z]
                   PROVE  Linked(m, Put(m, t, s, v), c, f, t, n)
      BY DEF Links
    <3> DEFINE m2 == Put(m, t, s, v)
    <3>2. /\ m2[t][s] = v /\ \A u \in Frames, j \in Index : u # t \/ j # s => m2[u][j] = m[u][j]
      BY <1>2, <2>3, <2>6, PutTyped
    <3> HIDE DEF m2
    <3>3. m[PtBase + 1][Offset(3, f)].frame = t /\ Offset(3, f) \in Index
      BY <2>2, <3>1, KernelTablesAre, LocTyped, Bases DEF Struct
    <3>4. m2[PtBase + 1][Offset(3, f)].frame = t
      BY <2>3, <3>2, <3>3, Bases
    <3>5. n \notin K1(c)
      BY <2>1 DEF Loose, Kt
    <3>6. \A j \in Index : m2[n][j] = IF j = o THEN PteCreate(f, "rw") ELSE Free
      <4>1. m[n] = x.mem[n]
        BY <2>1, <3>1, <3>5
      <4> QED BY <2>1, <2>5, <3>2, <4>1 DEF Only
    <3>7. m2[t][s].frame = n
      BY <2>6, <3>2
    <3> QED BY <3>2, <3>4, <3>6, <3>7 DEF Linked, m2
  <2>8. n \notin x.unused /\ x.count[n] = 0 /\ Exempt(c, t, s)
    BY <2>1, <2>2, <2>3, KernelExempt
  <2> HIDE DEF t, s, v, x, l
  <2>9. Idle(DoUpdate(y), Chain(c, f, t, n))
    BY <1>2, <2>1, <2>3, <2>5, <2>6, <2>7, <2>8, LinkKernelOK
  <2> HIDE DEF y
  <2>10. Widened(DoUpdate(y), c)
    BY <2>2, <2>5, <2>9, ChainWidened
  <2> QED BY <2>4, <2>10 DEF l, b
<1> QED BY <1>1, <1>3, <1>4

\* The tables of the levels 1 and 2 are missing.
LEMMA PopulateThree ==
  ASSUME NEW k, NEW c, Good(k, c), k.queue = <<>>, c.dying = None, NEW f \in Frames,
         c.t2[Offset(3, f)] = None, c.t1[Offset(3, f)][Offset(2, f)] = None
  PROVE  Widened(DoUpdate(Link(B2(k, PtBase, KernPage(f), PteCreate(f, "rw")), PtBase, KernPage(f), 3)), c)
<1> DEFINE a == Offset(3, f)
           s == Offset(2, f)
           o == Offset(1, f)
           u == PtBase + 1
           page == KernPage(f)
           b == B1(k, PtBase, page, PteCreate(f, "rw"))
           n == NextFrame(k)
           v1 == PteCreate(n, "rw")
           w == b.kk
           x == InsertPtp(w, PtBase, s, v1)
           t == NextFrame(w)
           v == PteCreate(t, "rw")
           e == B2(k, PtBase, page, PteCreate(f, "rw"))
           y == DeferredUpdate(x, <<u, a>>, v)
           l == Link(e, PtBase, page, 3)
<1>1. b.val = v1 /\ (w \in Halted \/ Kerneled(w, k, c, n, o, PteCreate(f, "rw")))
  BY PopulateTable
<1>2. a \in Index /\ s \in Index /\ o \in Index /\ Offset(2, page) = s /\ Offset(3, page) = a /\ u \in Frames
  BY KernOffset, LocTyped, OffsetRange, Bases DEF Frames
<1>3. e.kk = x /\ e.val = v
  BY <1>1, <1>2 DEF B2, NewTable
<1> HIDE DEF b, n, e
<1>4. CASE w \in Halted
  <2>1. x \in Halted
    BY <1>4, InsertPtpHalted
  <2>2. l \in Halted
    BY <1>3, <2>1, LinkHalted
  <2>3. HaltedWidened(DoUpdate(l))
    BY <2>2, UpdateHalted DEF HaltedWidened
  <2> QED BY <2>3, HaltedIsWidened DEF e
<1>5. CASE Kerneled(w, k, c, n, o, PteCreate(f, "rw"))
  <2>1. /\ Good(w, c) /\ KernelOnly(w, c) /\ n \in Frames /\ Loose(c, n) /\ n \in k.unused /\ k.count[n] = 0
        /\ w.unused = k.unused \ {n} /\ w.count = k.count /\ Only(w.mem, n, o, PteCreate(f, "rw"))
    BY <1>5 DEF Kerneled
  <2>2. v1 \in Content /\ v1.frame = n
    BY <2>1 DEF PteCreate, Content, Pte
  <2> HIDE DEF w, v1, s
  <2>3. x \in Halted \/ Kerneled(x, w, c, t, s, v1)
    BY <1>2, <2>1, <2>2, KernelTableOK
  <2> HIDE DEF t, x
  <2>4. CASE x \in Halted
    <3>1. l \in Halted
      BY <1>3, <2>4, LinkHalted
    <3>2. HaltedWidened(DoUpdate(l))
      BY <3>1, UpdateHalted DEF HaltedWidened
    <3> QED BY <3>2, HaltedIsWidened DEF e
  <2>5. CASE Kerneled(x, w, c, t, s, v1)
    <3>1. /\ Good(x, c) /\ KernelOnly(x, c) /\ t \in Frames /\ Loose(c, t) /\ t \in w.unused /\ w.count[t] = 0
          /\ x.unused = w.unused \ {t} /\ x.count = w.count /\ Only(x.mem, t, s, v1)
          /\ \A z \in Frames : z \notin K1(c) /\ z # t => x.mem[z] = w.mem[z]
      BY <2>5 DEF Kerneled
    <3>2. CtxOK(c) /\ x.mem \in Memory /\ Shape(x.mem, c)
      BY <3>1, KTyped DEF Good, Core, Struct
    <3>3. t # n /\ n \notin x.unused /\ t \notin x.unused /\ x.count[n] = 0 /\ x.count[t] = 0
      BY <2>1, <3>1
    <3>4. l = y
      <4>1. TableOf(x.mem, PtBase, page, 3) = u
        BY <3>2, KernelTablesAre
      <4>2. u # None
        BY Bases
      <4> HIDE DEF u
      <4> QED BY <1>2, <1>3, <4>1, <4>2 DEF Link, Location
    <3>5. Joins(c, f, t, n)
      BY <2>1, <3>1, <3>3 DEF Joins
    <3>6. v \in Content /\ v.frame = t
      BY <3>1 DEF PteCreate, Content, Pte
    <3>7. n \notin K1(c) /\ t \notin K1(c) /\ t # u /\ n # u /\ u \in Kt(c)
      BY <2>1, <3>1 DEF Loose, Kt
    <3>8. Links(x, c, f, t, n, u, a, v)
      <4>1. SUFFICES ASSUME NEW m \in Memory, Struct(m, c), \A z \in Frames : z \notin K1(c) => m[z] = x.mem[z]
                     PROVE  Linked(m, Put(m, u, a, v), c, f, t, n)
        BY DEF Links
      <4> DEFINE m2 == Put(m, u, a, v)
      <4>2. m2[u][a] = v /\ \A z \in Frames, j \in Index : z # u \/ j # a => m2[z][j] = m[z][j]
        BY <1>2, <3>6, PutTyped
      <4> HIDE DEF m2
      <4>3. m2[u][a].frame = t
        BY <3>6, <4>2
      <4>4. \A j \in Index : m2[t][j] = IF j = s THEN v1 ELSE Free
        <5>1. m[t] = x.mem[t]
          BY <3>1, <3>7, <4>1
        <5> QED BY <3>1, <3>7, <4>2, <5>1 DEF Only
      <4>5. \A j \in Index : m2[n][j] = IF j = o THEN PteCreate(f, "rw") ELSE Free
        <5>1. m[n] = w.mem[n]
          BY <2>1, <3>1, <3>3, <3>7, <4>1
        <5> QED BY <2>1, <3>7, <4>2, <5>1 DEF Only
      <4>6. m2[t][s].frame = n
        BY <1>2, <2>2, <4>4
      <4>7. \A z \in Frames, j \in Index : (z # PtBase + 1 \/ j # Offset(3, f)) => m2[z][j] = m[z][j]
        BY <4>2
      <4>8. \A j \in Index : j # Offset(2, f) => m2[t][j] = Free
        BY <4>4 DEF s
      <4>9. m2[t][Offset(2, f)].frame = n
        BY <4>6 DEF s
      <4> QED BY <4>3, <4>5, <4>7, <4>8, <4>9 DEF Linked, m2
    <3> HIDE DEF a, v, l, u
    <3>9. Exempt(c, u, a)
      BY <1>2, <3>2, <3>7, KernelExempt
    <3>10. Idle(DoUpdate(y), Chain(c, f, t, n))
      BY <1>2, <2>1, <3>1, <3>3, <3>5, <3>6, <3>8, <3>9, LinkKernelOK
    <3> HIDE DEF y
    <3>11. Widened(DoUpdate(y), c)
      BY <3>2, <3>5, <3>10, ChainWidened
    <3> QED BY <3>4, <3>11 DEF l, e
  <2> QED BY <2>3, <2>4, <2>5
<1> QED BY <1>1, <1>4, <1>5

\* One round of archPageTablePopulate
LEMMA PopulateOK ==
  ASSUME NEW k, NEW c, Good(k, c), k.queue = <<>>, c.dying = None, NEW f \in Frames
  PROVE  Widened(PageTableInsert(k, PtBase, KernPage(f), f, {}), c)
<1> DEFINE page == KernPage(f)
           v == PteCreate(f, "rw")
           m == k.mem
           lev == FreeLevel(m, PtBase, page)
           a == Offset(3, f)
           b == Offset(2, f)
           x == InsertBelow(k, PtBase, page, v, lev)
<1>1. CtxOK(c) /\ m \in Memory /\ Shape(m, c) /\ k \in KSet
  BY KTyped DEF Good, Core, Struct
<1>2. PageTableInsert(k, PtBase, page, f, {}) = DoUpdate(x)
  <2>1. ~(page < UserEnd)
    BY KernOffset, Sizes
  <2> HIDE DEF page
  <2> QED BY <2>1 DEF PageTableInsert, InsertInternal
<1>3. /\ lev \in 0 .. 4
      /\ lev # 0 => EntryAt(m, Location(TableOf(m, PtBase, page, lev), Offset(lev, page))) = Free
                    /\ TableOf(m, PtBase, page, lev) # None
  BY FreeLevelRange
<1>4. /\ TableOf(m, PtBase, page, 4) = PtBase
      /\ TableOf(m, PtBase, page, 3) = PtBase + 1
      /\ TableOf(m, PtBase, page, 2) = c.t2[a]
      /\ TableOf(m, PtBase, page, 1) = c.t1[a][b]
      /\ m[PtBase][PtUserEntries] = KernelEntry
      /\ m[PtBase + 1][a].frame = c.t2[a]
      /\ c.t2[a] # None => m[c.t2[a]][b].frame = c.t1[a][b]
  BY <1>1, KernelTablesAre
<1>5. Offset(4, page) = PtUserEntries /\ Offset(3, page) = a /\ Offset(2, page) = b
  BY KernOffset
<1>6. /\ InsertBelow(k, PtBase, page, v, 0) = Stop(k)
      /\ InsertBelow(k, PtBase, page, v, 1) = Link(B0(k, v), PtBase, page, 1)
      /\ InsertBelow(k, PtBase, page, v, 2) = Link(B1(k, PtBase, page, v), PtBase, page, 2)
      /\ InsertBelow(k, PtBase, page, v, 3) = Link(B2(k, PtBase, page, v), PtBase, page, 3)
  BY InsertBelowIs
<1>7. a \in I3 /\ b \in I2 /\ (c.t2[a] = None => c.t1[a][b] = None)
  BY <1>1, LocTyped DEF CtxOK, CtxKernel
<1> HIDE DEF lev, page, a, b, v, m
<1>8. CASE lev = 0
  <2>1. Stop(k) \in Halted
    BY <1>1, WithTyped
  <2>2. HaltedWidened(DoUpdate(x))
    BY <1>6, <1>8, <2>1, UpdateHalted DEF HaltedWidened
  <2> QED BY <1>2, <2>2, HaltedIsWidened DEF page
<1>9. CASE lev = 1
  <2>1. c.t1[a][b] # None
    BY <1>3, <1>4, <1>9
  <2>2. Widened(DoUpdate(Link(B0(k, v), PtBase, page, 1)), c)
    BY <2>1, PopulateOne DEF v, page, a, b
  <2> QED BY <1>2, <1>6, <1>9, <2>2 DEF page
<1>10. CASE lev = 2
  <2>1. c.t2[a] # None /\ EntryAt(m, Location(c.t2[a], b)) = Free
    BY <1>3, <1>4, <1>5, <1>10
  <2>2. c.t1[a][b] = None
    BY <1>4, <2>1, FreeEntry DEF EntryAt, Location
  <2>3. Widened(DoUpdate(Link(B1(k, PtBase, page, v), PtBase, page, 2)), c)
    BY <2>1, <2>2, PopulateTwo DEF v, page, a, b
  <2> QED BY <1>2, <1>6, <1>10, <2>3 DEF page
<1>11. CASE lev = 3
  <2>1. EntryAt(m, Location(PtBase + 1, a)) = Free
    BY <1>3, <1>4, <1>5, <1>11
  <2>2. c.t2[a] = None /\ c.t1[a][b] = None
    BY <1>4, <1>7, <2>1, FreeEntry, Bases DEF EntryAt, Location
  <2>3. Widened(DoUpdate(Link(B2(k, PtBase, page, v), PtBase, page, 3)), c)
    BY <2>2, PopulateThree DEF v, page, a, b
  <2> QED BY <1>2, <1>6, <1>11, <2>3 DEF page
<1>12. CASE lev = 4
  <2>1. EntryAt(m, Location(PtBase, PtUserEntries)) = Free
    BY <1>3, <1>4, <1>5, <1>12
  <2>2. KernelEntry = Free
    BY <1>4, <2>1, Bases DEF EntryAt, Location
  <2>3. FALSE
    BY <2>2, FreeEntry, Bases DEF KernelEntry, PteCreate
  <2> QED BY <2>3
<1> QED BY <1>3, <1>8, <1>9, <1>10, <1>11, <1>12

----------------------------------------------------------------------------
(* The tables of the domain builder                                        *)

NrL1 == NrPtFrames - NotL1Frames
StartTables == PtBase .. StartPfn - 1
Start == [t2 |-> [i \in I3 |-> IF i = 0 THEN PtBase + 2 ELSE None],
          t1 |-> [i \in I3 |-> [j \in I2 |-> IF i = 0 /\ j < NrL1 THEN PtBase + 3 + j ELSE None]],
          roots |-> {}, pinned |-> {PtBase}, loaded |-> None, lev |-> [f \in Frames |-> 0],
          own |-> [f \in Frames |-> None], dying |-> None, stale |-> {}]
StartMemory == [f \in Frames |-> IF f \in StartTables THEN InitialTable(f) ELSE Cleared]

LEMMA StartSizes ==
  /\ NrL1 \in Nat \ {0} /\ NrL1 <= Entries[2] /\ NrL1 <= Width /\ NrL1 * Entries[1] \in Nat
  /\ PtBase \in Nat /\ StartPfn \in Nat /\ StartPfn = PtBase + 3 + NrL1
  /\ StartPfn < NrL1 * Entries[1] /\ NrL1 * Entries[1] <= NrPages /\ NrPages \in Nat
  /\ Entries[1] \in Nat \ {0} /\ Entries[2] \in Nat \ {0} /\ Entries[3] \in Nat \ {0}
  /\ 0 \in I3 /\ 0 \in I2 /\ StartTables \subseteq Frames
  /\ PtBase + 2 \in StartTables /\ PtBase \in StartTables /\ PtBase + 1 \in StartTables
<1>1. /\ NrL1 \in Nat \ {0} /\ NrL1 <= Entries[2] /\ PtBase \in Nat /\ StartPfn = PtBase + 3 + NrL1
      /\ NrPages \in Nat /\ NrPtFrames = NrL1 + 3
  BY SizesAssumption, Sizes DEF NrL1, StartPfn, NotL1Frames
<1>2. /\ Entries[1] \in Nat \ {0} /\ Entries[2] \in Nat \ {0} /\ Entries[3] \in Nat \ {0}
      /\ Entries[2] <= Width /\ Width \in Nat
  BY Sizes
<1>3. NrL1 * Entries[1] \in Nat
  BY <1>1, <1>2, Product
<1>4. StartPfn < NrL1 * Entries[1] /\ NrL1 * Entries[1] <= NrPages
  BY SizesAssumption DEF NrL1, StartPfn
<1>5. 0 \in I3 /\ 0 \in I2
  BY <1>2 DEF I3, I2
<1> DEFINE top == NrL1 * Entries[1]
<1>6. top \in Nat /\ StartPfn < top /\ top <= NrPages
  BY <1>3, <1>4
<1> HIDE DEF top
<1>7. StartTables \subseteq Frames
  BY <1>1, <1>6 DEF StartTables, Frames
<1>8. PtBase + 2 \in StartTables /\ PtBase \in StartTables /\ PtBase + 1 \in StartTables
  BY <1>1 DEF StartTables
<1> QED BY <1>1, <1>2, <1>3, <1>4, <1>5, <1>7, <1>8

\* Frame b of a level 1 table, and the number of it
LEMMA StartFrame ==
  ASSUME NEW b \in 0 .. NrL1 - 1, NEW j \in 0 .. Entries[1] - 1
  PROVE  /\ b * Entries[1] + j \in Frames
         /\ Offset(1, b * Entries[1] + j) = j /\ Offset(2, b * Entries[1] + j) = b
         /\ Offset(3, b * Entries[1] + j) = 0
<1> DEFINE e == Entries[1]
           d == Entries[2]
           h == Entries[3]
           x == b * e
           g == x + j
           n == NrL1
           one == 1
           zero == 0
<1>1. e \in Nat \ {0} /\ d \in Nat \ {0} /\ h \in Nat \ {0} /\ n \in Nat /\ n <= d /\ b \in Nat /\ b < n /\ j \in Nat /\ j < e
  BY StartSizes
<1>2. n * e <= NrPages /\ NrPages \in Nat /\ n * e \in Nat
  BY StartSizes
<1>3. Span(1) = 1 /\ Span(2) = e /\ Span(3) = e * d
  BY Sizes
<1> HIDE DEF e, d, h, n
<1>4. x \in Nat /\ x = e * b
  BY <1>1, Product
<1>5. g < n * e
  <2> DEFINE c == b + 1
  <2>1. c \in Nat /\ c <= n
    BY <1>1
  <2>2. e * c = e * b + e
    BY <1>1
  <2> HIDE DEF c
  <2>3. e * c <= e * n /\ e * n = n * e
    BY <1>1, <2>1, Monotone, Product
  <2>4. e * b \in Nat /\ e * n \in Nat /\ e * c \in Nat
    BY <1>1, <2>1, Product
  <2> HIDE DEF x
  <2> QED BY <1>1, <1>2, <1>4, <2>2, <2>3, <2>4
<1> HIDE DEF x
<1>6. g \in Nat /\ g = e * b + j
  BY <1>1, <1>4
<1>7. g \in Frames
  <2> DEFINE top == n * e
  <2>1. top \in Nat /\ top <= NrPages /\ g < top
    BY <1>2, <1>5
  <2> HIDE DEF top, g
  <2> QED BY <1>2, <1>6, <2>1 DEF Frames
<1> HIDE DEF g
<1>8. g \div e = b /\ g % e = j
  <2>1. j \in 0 .. e - 1
    BY <1>1
  <2> QED BY <1>1, <1>6, <2>1, Quotient
<1>9. g \div one = g
  <2>1. one \in Nat \ {0} /\ zero \in 0 .. one - 1 /\ g = one * g + zero
    BY <1>6
  <2> HIDE DEF one, zero
  <2> QED BY <1>6, <2>1, Quotient
<1>10. b \div d = 0 /\ b % d = b
  <2>1. b < d
    BY <1>1
  <2> QED BY <1>1, <2>1, Small
<1>11. g \div (e * d) = 0
  <2>1. g \div (e * d) = (g \div e) \div d
    BY <1>1, <1>6, DivideTwice
  <2> QED BY <1>8, <1>10, <2>1
<1>12. zero % h = 0
  <2>1. zero \in Nat /\ zero < h
    BY <1>1
  <2> HIDE DEF zero
  <2>2. zero % h = zero
    BY <1>1, <2>1, Small
  <2> QED BY <2>2 DEF zero
<1>13. Offset(1, g) = g % e
  BY <1>3, <1>9 DEF Offset, e
<1>14. Offset(2, g) = b % d
  BY <1>3, <1>8 DEF Offset, d
<1>15. Offset(3, g) = zero % h
  BY <1>3, <1>11 DEF Offset, h
<1> QED BY <1>7, <1>8, <1>10, <1>12, <1>13, <1>14, <1>15 DEF g, x, e

\* The entries of the tables of the domain builder
LEMMA StartTable ==
  /\ StartMemory \in Memory
  /\ \A i \in Index : StartMemory[PtBase][i] = IF i = PtUserEntries THEN PteCreate(PtBase + 1, "rw") ELSE Free
  /\ \A i \in Index : StartMemory[PtBase + 1][i] = IF i = 0 THEN PteCreate(PtBase + 2, "rw") ELSE Free
  /\ \A i \in Index : StartMemory[PtBase + 2][i] =
                          IF i < NrL1 THEN PteCreate(PtBase + 3 + i, "rw") ELSE Free
  /\ \A b \in 0 .. NrL1 - 1, j \in 0 .. Entries[1] - 1 :
        StartMemory[PtBase + 3 + b][j] =
            PteCreate(b * Entries[1] + j, IF b * Entries[1] + j \in StartTables THEN "ro" ELSE "rw")
<1>1. /\ NrL1 \in Nat \ {0} /\ PtBase \in Nat /\ StartPfn = PtBase + 3 + NrL1 /\ StartTables \subseteq Frames
      /\ PtBase + 2 \in StartTables /\ PtBase \in StartTables /\ PtBase + 1 \in StartTables
      /\ Entries[1] \in Nat \ {0} /\ NrL1 <= Width
  BY StartSizes
<1>2. Width \in Nat \ {0} /\ Entries[1] <= Width
  BY Sizes
<1>3. \A i \in Index : InitialTable(PtBase)[i] = IF i = PtUserEntries THEN PteCreate(PtBase + 1, "rw") ELSE Free
  BY DEF InitialTable, Index
<1>4. \A i \in Index : InitialTable(PtBase + 1)[i] = IF i = 0 THEN PteCreate(PtBase + 2, "rw") ELSE Free
  <2>1. PtBase + 1 # PtBase
    BY <1>1
  <2> QED BY <2>1 DEF InitialTable, Index
<1>5. \A i \in Index : InitialTable(PtBase + 2)[i] = IF i < NrL1 THEN PteCreate(PtBase + 3 + i, "rw") ELSE Free
  <2>1. PtBase + 2 # PtBase /\ PtBase + 2 # PtBase + 1
    BY <1>1
  <2> QED BY <2>1 DEF InitialTable, Index, NrL1, NotL1Frames
<1>6. ASSUME NEW b \in 0 .. NrL1 - 1, NEW j \in Index
      PROVE  /\ PtBase + 3 + b \in StartTables
             /\ InitialTable(PtBase + 3 + b)[j] =
                  IF j >= Entries[1] THEN Free
                  ELSE PteCreate(b * Entries[1] + j, IF b * Entries[1] + j \in StartTables THEN "ro" ELSE "rw")
  <2> DEFINE t == PtBase + 3 + b
  <2>1. b \in Nat /\ t # PtBase /\ t # PtBase + 1 /\ t # PtBase + 2 /\ t - PtBase - NotL1Frames = b /\ t \in StartTables
    BY <1>1 DEF NotL1Frames, StartTables
  <2> HIDE DEF t
  <2>2. InitialTable(t)[j] =
          IF j >= Entries[1] THEN Free
          ELSE PteCreate((t - PtBase - NotL1Frames) * Entries[1] + j,
                         IF (t - PtBase - NotL1Frames) * Entries[1] + j \in StartTables THEN "ro" ELSE "rw")
    BY <2>1 DEF InitialTable, Index, StartTables
  <2> QED BY <2>1, <2>2 DEF t
<1>7. \A f \in StartTables : f \in {PtBase, PtBase + 1, PtBase + 2} \/ \E b \in 0 .. NrL1 - 1 : f = PtBase + 3 + b
  <2>1. SUFFICES ASSUME NEW f \in StartTables, f \notin {PtBase, PtBase + 1, PtBase + 2}
                 PROVE  \E b \in 0 .. NrL1 - 1 : f = PtBase + 3 + b
    OBVIOUS
  <2>2. f - PtBase - 3 \in 0 .. NrL1 - 1 /\ f = PtBase + 3 + (f - PtBase - 3)
    BY <1>1, <2>1 DEF StartTables
  <2> QED BY <2>2
<1>8. \A f \in StartTables : InitialTable(f) \in Tab
  <2>1. ASSUME NEW f \in StartTables
        PROVE  InitialTable(f) = [x \in Index |-> InitialTable(f)[x]]
    BY DEF InitialTable, Index
  <2>2. SUFFICES ASSUME NEW f \in StartTables, NEW i \in Index
                 PROVE  InitialTable(f)[i] \in Content
    BY <2>1 DEF Tab
  <2>3. \A g \in Frames, perm \in {"ro", "rw"} : PteCreate(g, perm) \in Content
    BY DEF PteCreate, Content, Pte
  <2>4. CASE f \in {PtBase, PtBase + 1, PtBase + 2}
    <3>1. \A x \in Nat : x < NrL1 => PtBase + 3 + x \in Frames
      <4>1. SUFFICES ASSUME NEW x \in Nat, x < NrL1 PROVE PtBase + 3 + x \in Frames
        OBVIOUS
      <4>2. PtBase + 3 + x \in StartTables
        <5>1. NrL1 \in Nat \ {0} /\ PtBase \in Nat /\ StartPfn = PtBase + 3 + NrL1
          BY <1>1
        <5> QED BY <4>1, <5>1 DEF StartTables
      <4> QED BY <1>1, <4>2
    <3>2. i \in Nat
      BY <1>2 DEF Index
    <3>3. PtBase + 1 \in Frames /\ PtBase + 2 \in Frames
      BY <1>1
    <3>4. CASE f = PtBase
      BY <1>3, <2>3, <3>3, <3>4, FreeEntry
    <3>5. CASE f = PtBase + 1
      BY <1>4, <2>3, <3>3, <3>5, FreeEntry
    <3>6. CASE f = PtBase + 2
      BY <1>5, <2>3, <3>1, <3>2, <3>6, FreeEntry
    <3> QED BY <2>4, <3>4, <3>5, <3>6
  <2>5. CASE f \notin {PtBase, PtBase + 1, PtBase + 2}
    <3>1. PICK b \in 0 .. NrL1 - 1 : f = PtBase + 3 + b
      BY <1>7, <2>5
    <3>2. InitialTable(f)[i] = IF i >= Entries[1] THEN Free
            ELSE PteCreate(b * Entries[1] + i, IF b * Entries[1] + i \in StartTables THEN "ro" ELSE "rw")
      BY <1>6, <3>1
    <3>3. CASE i >= Entries[1]
      BY <3>2, <3>3, FreeEntry
    <3>4. CASE ~(i >= Entries[1])
      <4>1. i \in 0 .. Entries[1] - 1
        BY <1>1, <1>2, <3>4 DEF Index
      <4>2. b * Entries[1] + i \in Frames
        BY <4>1, StartFrame
      <4> QED BY <2>3, <3>2, <3>4, <4>2
    <3> QED BY <3>3, <3>4
  <2> QED BY <2>4, <2>5
<1>9. StartMemory \in Memory
  BY <1>8, ClearedTyped DEF StartMemory, Memory
<1>10. \A f \in StartTables : StartMemory[f] = InitialTable(f)
  BY <1>1 DEF StartMemory
<1>11. ASSUME NEW b \in 0 .. NrL1 - 1, NEW j \in 0 .. Entries[1] - 1
       PROVE  StartMemory[PtBase + 3 + b][j] =
                PteCreate(b * Entries[1] + j, IF b * Entries[1] + j \in StartTables THEN "ro" ELSE "rw")
  <2>1. j \in Index /\ ~(j >= Entries[1])
    BY <1>1, <1>2 DEF Index
  <2> QED BY <1>6, <1>10, <2>1
<1> QED BY <1>1, <1>3, <1>4, <1>5, <1>9, <1>10, <1>11

LEMMA StartFields ==
  /\ Start \in Ctx
  /\ \A i \in I3 : Start.t2[i] = IF i = 0 THEN PtBase + 2 ELSE None
  /\ \A i \in I3, j \in I2 : Start.t1[i][j] = IF i = 0 /\ j < NrL1 THEN PtBase + 3 + j ELSE None
  /\ Start.roots = {} /\ Start.pinned = {PtBase} /\ Start.loaded = None /\ Start.dying = None
  /\ Start.stale = {}
  /\ \A f \in Frames : Start.lev[f] = 0 /\ Start.own[f] = None
<1>1. PtBase \in Frames /\ PtBase + 2 \in Frames /\ None \in Opt /\ Frames \subseteq Opt
  BY StartSizes DEF Opt
<1>2. ASSUME NEW j \in I2, j < NrL1
      PROVE  PtBase + 3 + j \in Frames
  <2>1. j \in Nat /\ NrL1 \in Nat /\ PtBase \in Nat /\ StartPfn = PtBase + 3 + NrL1
    BY StartSizes DEF I2
  <2>2. PtBase + 3 + j \in StartTables
    BY <1>2, <2>1 DEF StartTables
  <2> QED BY <2>2, StartSizes
<1>3. [i \in I3 |-> IF i = 0 THEN PtBase + 2 ELSE None] \in [I3 -> Opt]
  BY <1>1
<1>4. [i \in I3 |-> [j \in I2 |-> IF i = 0 /\ j < NrL1 THEN PtBase + 3 + j ELSE None]] \in [I3 -> [I2 -> Opt]]
  BY <1>1, <1>2
<1>5. [f \in Frames |-> 0] \in [Frames -> 0 .. 4] /\ [f \in Frames |-> None] \in [Frames -> Opt]
  BY <1>1
<1>6. Start \in Ctx
  BY <1>1, <1>3, <1>4, <1>5 DEF Start, Ctx
<1> QED BY <1>6 DEF Start

LEMMA StartKt ==
  /\ K2(Start) = {PtBase + 2}
  /\ \A f \in K1(Start) : \E b \in 0 .. NrL1 - 1 : f = PtBase + 3 + b
  /\ K1(Start) \subseteq StartTables /\ K2(Start) \subseteq StartTables
  /\ Kt(Start) \subseteq StartTables
<1>1. /\ NrL1 \in Nat \ {0} /\ PtBase \in Nat /\ StartPfn = PtBase + 3 + NrL1 /\ StartTables \subseteq Frames
      /\ PtBase + 2 \in StartTables /\ PtBase \in StartTables /\ PtBase + 1 \in StartTables /\ 0 \in I3
  BY StartSizes
<1>2. None \notin Frames
  BY Bases
<1>3. K2(Start) = {PtBase + 2}
  BY <1>1, <1>2, StartFields DEF K2
<1>4. ASSUME NEW f \in K1(Start)
      PROVE  f \in StartTables /\ \E b \in 0 .. NrL1 - 1 : f = PtBase + 3 + b
  <2>1. PICK i \in I3, j \in I2 : f = Start.t1[i][j]
    BY DEF K1
  <2>2. f \in Frames
    BY DEF K1
  <2>3. f = PtBase + 3 + j /\ j < NrL1
    BY <1>2, <2>1, <2>2, StartFields
  <2>4. j \in 0 .. NrL1 - 1
    BY <1>1, <2>3 DEF I2
  <2>5. f \in StartTables
    BY <1>1, <2>3, <2>4 DEF StartTables
  <2> QED BY <2>3, <2>4, <2>5
<1> QED BY <1>1, <1>3, <1>4 DEF Kt

LEMMA StartOK == CtxOK(Start)
<1>1. /\ PtBase \in Nat /\ NrL1 \in Nat /\ 0 \in I3
  BY StartSizes
<1>2. /\ None \notin Frames /\ PtBase \in Frames
  BY Bases
<1>3. CtxKernel(Start)
  <2>1. PtBase \notin K2(Start) \cup K1(Start) /\ PtBase + 1 \notin K2(Start) \cup K1(Start)
    BY <1>1, StartKt
  <2>2. K2(Start) \cap K1(Start) = {}
    BY <1>1, StartKt
  <2>3. \A i \in I3, h \in I3 : Start.t2[i] = Start.t2[h] /\ Start.t2[i] # None => i = h
    BY StartFields
  <2>4. ASSUME NEW i \in I3, NEW j \in I2, NEW h \in I3, NEW l \in I2,
               Start.t1[i][j] = Start.t1[h][l], Start.t1[i][j] # None
        PROVE  i = h /\ j = l
    <3>1. i = 0 /\ h = 0 /\ PtBase + 3 + j = PtBase + 3 + l
      BY <2>4, StartFields
    <3>2. j \in Nat /\ l \in Nat
      BY DEF I2
    <3> QED BY <1>1, <3>1, <3>2
  <2>5. \A i \in I3, j \in I2 : Start.t2[i] = None => Start.t1[i][j] = None
    <3>1. PtBase + 2 # None
      BY <1>1 DEF None
    <3> QED BY <3>1, StartFields
  <2> QED BY <2>1, <2>2, <2>3, <2>4, <2>5 DEF CtxKernel
<1>4. CtxSpaces(Start)
  BY StartFields DEF CtxSpaces
<1> QED BY <1>3, <1>4, StartFields DEF CtxOK

\* The kernel's entry for a frame is in the table that the domain builder made
\* for it.
LEMMA StartLoc ==
  ASSUME NEW f \in Frames, Loc(Start, f) # <<>>
  PROVE  /\ Offset(3, f) = 0 /\ Offset(2, f) \in 0 .. NrL1 - 1 /\ Offset(1, f) \in 0 .. Entries[1] - 1
         /\ f = Offset(2, f) * Entries[1] + Offset(1, f)
         /\ Loc(Start, f) = <<PtBase + 3 + Offset(2, f), Offset(1, f)>>
<1> DEFINE b == Offset(2, f)
           j == Offset(1, f)
           e == Entries[1]
           g == b * e + j
<1>1. Offset(3, f) \in I3 /\ b \in I2 /\ j \in 0 .. e - 1
  BY StartOK, LocTyped
<1>2. Start.t1[Offset(3, f)][b] # None /\ Loc(Start, f) = <<Start.t1[Offset(3, f)][b], j>>
  BY StartOK, LocTyped
<1> HIDE DEF b, j, e
<1>3. Offset(3, f) = 0 /\ b < NrL1 /\ Start.t1[Offset(3, f)][b] = PtBase + 3 + b
  BY <1>1, <1>2, StartFields
<1>4. b \in 0 .. NrL1 - 1
  <2>1. NrL1 \in Nat
    BY StartSizes
  <2> QED BY <1>1, <1>3, <2>1 DEF I2
<1>5. g \in Frames /\ Offset(1, g) = j /\ Offset(2, g) = b /\ Offset(3, g) = 0
  BY <1>1, <1>4, StartFrame DEF e
<1> HIDE DEF g
<1>6. f = g
  BY <1>3, <1>5, FrameOfOffsets DEF b, j
<1> QED BY <1>1, <1>2, <1>3, <1>4, <1>6 DEF b, j, e, g

LEMMA StartStruct == Struct(StartMemory, Start)
<1>1. /\ PtBase \in Nat /\ NrL1 \in Nat /\ 0 \in I3 /\ NrL1 <= Entries[2] /\ Entries[2] \in Nat
  BY StartSizes
<1>2. I2 \subseteq Index /\ I3 \subseteq Index /\ 0 .. Entries[4] - 1 \subseteq Index
  BY Bases
<1>3. Shape(StartMemory, Start)
  <2>1. \A i \in 0 .. Entries[4] - 1 :
           StartMemory[PtBase][i] = IF i = PtUserEntries THEN KernelEntry ELSE Free
    BY <1>2, StartTable DEF KernelEntry
  <2>2. \A i \in I3 : StartMemory[PtBase + 1][i].frame = Start.t2[i]
    BY <1>2, StartTable, StartFields, FreeEntry DEF PteCreate
  <2>3. \A i \in I3, j \in I2 : Start.t2[i] # None => StartMemory[Start.t2[i]][j].frame = Start.t1[i][j]
    <3>1. SUFFICES ASSUME NEW i \in I3, NEW j \in I2, Start.t2[i] # None
                   PROVE  StartMemory[Start.t2[i]][j].frame = Start.t1[i][j]
      OBVIOUS
    <3>2. i = 0 /\ Start.t2[i] = PtBase + 2
      BY <3>1, StartFields
    <3>3. Start.t1[i][j] = IF j < NrL1 THEN PtBase + 3 + j ELSE None
      BY <3>2, StartFields
    <3>4. StartMemory[PtBase + 2][j] = IF j < NrL1 THEN PteCreate(PtBase + 3 + j, "rw") ELSE Free
      BY <1>2, StartTable
    <3> QED BY <3>2, <3>3, <3>4, FreeEntry DEF PteCreate
  <2> QED BY <2>1, <2>2, <2>3 DEF Shape
<1>4. Kernel(StartMemory, Start)
  <2>1. SUFFICES ASSUME NEW f \in Frames, Loc(Start, f) # <<>>
                 PROVE  EntryAt(StartMemory, Loc(Start, f)) \in KernPtes(f)
    BY DEF Kernel
  <2> DEFINE b == Offset(2, f)
             j == Offset(1, f)
  <2>2. /\ b \in 0 .. NrL1 - 1 /\ j \in 0 .. Entries[1] - 1 /\ f = b * Entries[1] + j
        /\ Loc(Start, f) = <<PtBase + 3 + b, j>>
    BY <2>1, StartLoc
  <2> HIDE DEF b, j
  <2>3. EntryAt(StartMemory, Loc(Start, f)) = StartMemory[PtBase + 3 + b][j]
    BY <2>1, <2>2 DEF EntryAt
  <2>4. StartMemory[PtBase + 3 + b][j] = PteCreate(f, IF f \in StartTables THEN "ro" ELSE "rw")
    BY <2>2, StartTable
  <2> QED BY <2>3, <2>4 DEF KernPtes
<1>5. Trees(StartMemory, Start)
  BY StartFields DEF Trees
<1> QED BY <1>3, <1>4, <1>5 DEF Struct

LEMMA StartAccepts == Accepts(StartMemory, {PtBase})
<1> DEFINE m == StartMemory
           tops == {PtBase}
<1>1. m \in Memory /\ Struct(m, Start) /\ CtxOK(Start)
  BY StartTable, StartStruct, StartOK
<1>2. \A l : Owned(Start, {}, l) = {}
  BY DEF Owned
<1>3. /\ Level3(m, tops) \subseteq {PtBase + 1} /\ Level2(m, tops) \subseteq K2(Start)
      /\ Level1(m, tops) \subseteq K1(Start)
  <2> DEFINE R == {}
  <2>1. tops \subseteq {PtBase} \cup Owned(Start, R, 4)
    OBVIOUS
  <2>2. \A l : Owned(Start, R, l) = {}
    BY <1>2
  <2> HIDE DEF R, m, tops
  <2> QED BY <1>1, <2>1, <2>2, InUseKnown
<1>4. /\ PtBase \notin K2(Start) \cup K1(Start) /\ PtBase + 1 \notin K2(Start) \cup K1(Start)
      /\ K2(Start) \cap K1(Start) = {} /\ PtBase # PtBase + 1
  BY StartOK, Bases DEF CtxOK, CtxKernel
<1>5. ASSUME NEW t \in Level1(m, tops), NEW i \in 0 .. Entries[1] - 1, m[t][i].perm = "rw"
      PROVE  m[t][i].frame \notin StartTables
  <2>1. PICK b \in 0 .. NrL1 - 1 : t = PtBase + 3 + b
    BY <1>3, StartKt
  <2> DEFINE g == b * Entries[1] + i
  <2>2. m[t][i] = PteCreate(g, IF g \in StartTables THEN "ro" ELSE "rw")
    BY <2>1, StartTable
  <2> HIDE DEF g, m
  <2> QED BY <1>5, <2>2 DEF PteCreate
<1>6. Level1(m, tops) \cup Level2(m, tops) \cup Level3(m, tops) \cup tops \subseteq StartTables
  BY <1>3, StartKt, StartSizes
<1> HIDE DEF m, tops
<1>7. Valid(m, Level1(m, tops), Level2(m, tops), Level3(m, tops), tops)
  <2> DEFINE T1 == Level1(m, tops)
             T2 == Level2(m, tops)
             T3 == Level3(m, tops)
  <2>1. T1 \cap (T2 \cup T3 \cup tops) = {} /\ T2 \cap (T3 \cup tops) = {} /\ T3 \cap tops = {}
    BY <1>3, <1>4 DEF tops
  <2>2. \A t \in T1, i \in 0 .. Entries[1] - 1 :
           m[t][i].perm = "rw" => m[t][i].frame \notin T1 \cup T2 \cup T3 \cup tops
    BY <1>5, <1>6
  <2> HIDE DEF T1, T2, T3
  <2>3. Valid(m, T1, T2, T3, tops)
    BY <2>1, <2>2 DEF Valid
  <2> QED BY <2>3 DEF T1, T2, T3
<1> QED BY <1>7, Levels DEF m, tops

----------------------------------------------------------------------------
(* The first state                                                         *)

LEMMA EmptyTyped ==
  /\ <<>> \in Lists /\ <<>> \in Seq(Update) /\ Len(<<>>) = 0 /\ NoTlb \in Cache
  /\ \A S : <<>> \in Seq(S)
<1>1. \A S : <<>> \in Seq(S)
  OBVIOUS
<1>2. MaxPts \in Nat
  BY SizesAssumption
<1>3. <<>> \in Lists
  BY <1>1, <1>2 DEF Lists
<1> QED BY <1>1, <1>3, NoTlbTyped

LEMMA InitWorld == Init => World(K)
<1> SUFFICES ASSUME Init PROVE World(K)
  OBVIOUS
<1>1. /\ K.mem = StartMemory /\ K.unused = StartPfn .. NrPages - 1 /\ K.count = [f \in Frames |-> 0]
      /\ K.noWrite = <<>> /\ K.queue = <<>> /\ K.roots = {} /\ K.pinned = {PtBase} /\ K.loaded = None
      /\ K.tlb = NoTlb /\ (K.bug = FALSE)
  BY DEF Init, K, StartMemory, StartTables
<1>2. StartPfn .. NrPages - 1 \subseteq Frames
  <2>1. StartPfn \in Nat /\ NrPages \in Nat
    BY StartSizes
  <2> QED BY <2>1 DEF Frames
<1>3. K \in KSet
  <2>1. mem \in [Frames -> Tab]
    BY StartTable DEF Init, StartMemory, Memory, StartTables
  <2>2. unused \in SUBSET Frames /\ count \in [Frames -> Nat]
    BY <1>2 DEF Init
  <2>3. noWrite \in Lists /\ queue \in Seq(Update) /\ tlb \in Cache /\ bug \in BOOLEAN
    BY EmptyTyped DEF Init
  <2>4. roots \in SUBSET Frames /\ pinned \in SUBSET Frames /\ loaded \in Opt
    BY Bases DEF Init, Opt
  <2> QED BY <2>1, <2>2, <2>3, <2>4 DEF K, KSet
<1>4. CtxOK(Start) /\ Struct(K.mem, Start)
  BY <1>1, StartOK, StartStruct
<1>5. Allocator(K, Start)
  <2>1. ASSUME NEW f \in Frames, f \in K.unused
        PROVE  f \notin Kt(Start)
    <3>1. PtBase \in Nat /\ StartPfn \in Nat /\ NrPages \in Nat
      BY StartSizes
    <3>2. f \notin StartTables
      BY <1>1, <2>1, <3>1 DEF StartTables
    <3> QED BY <3>2, StartKt
  <2>2. \A f \in Frames : K.count[f] = 0
    BY <1>1
  <2> QED BY <2>1, <2>2, StartFields DEF Allocator
<1>6. K.roots = Start.roots /\ K.pinned = Start.pinned /\ K.loaded = Start.loaded
  BY <1>1, StartFields
<1>7. Tops(K) = {PtBase}
  BY <1>1 DEF Tops
<1>8. Accepts(K.mem, Tops(K))
  BY <1>1, <1>7, StartAccepts
<1>9. Core(K, Start)
  BY <1>1, <1>3, <1>4, <1>5, <1>6, <1>8 DEF Core
<1>10. GoodQueue(K, Start)
  <2>1. Len(K.queue) = 0
    BY <1>1
  <2> QED BY <2>1 DEF GoodQueue
<1>11. TlbOK(K)
  BY <1>1, NoTlbTyped DEF TlbOK
<1>12. Start.dying = None /\ Paired(Start) /\ Mirror(K, Start)
  BY StartFields DEF Paired, Mirror
<1> QED BY <1>1, <1>9, <1>10, <1>11, <1>12 DEF World, Good

----------------------------------------------------------------------------
(* The end of a step                                                       *)

Wiped(k) == [f \in Frames |-> IF f \in k.unused THEN Cleared ELSE k.mem[f]]
Settled(k) == [k EXCEPT !.mem = Wiped(k)]

LEMMA WipedTyped ==
  ASSUME NEW k \in KSet
  PROVE  Wiped(k) \in Memory /\ \A f \in Frames : f \notin k.unused => Wiped(k)[f] = k.mem[f]
BY KTyped, ClearedTyped DEF Wiped, Memory

LEMMA SettledWorld ==
  ASSUME NEW k, World(k)
  PROVE  World(Settled(k))
<1>1. CASE k \in Halted
  <2>1. k \in KSet /\ k.bug
    BY <1>1 DEF Halted
  <2> DEFINE n == Wiped(k)
             x == [k EXCEPT !.mem = n]
  <2>2. n \in Memory
    BY <2>1, WipedTyped
  <2> HIDE DEF n
  <2>3. x \in KSet /\ Elsewhere(x, k)
    BY <2>1, <2>2, WithMem
  <2>4. x.bug = k.bug
    BY <2>3 DEF Elsewhere
  <2> HIDE DEF x
  <2>5. x \in Halted
    BY <2>1, <2>3, <2>4 DEF Halted
  <2>6. World(x)
    BY <2>5 DEF World
  <2> QED BY <2>6 DEF Settled, x, n
<1>2. CASE k \notin Halted
  <2>1. PICK c : Good(k, c) /\ k.queue = <<>> /\ c.dying = None /\ Paired(c)
    BY <1>2 DEF World
  <2>2. Core(k, c) /\ k \in KSet /\ CtxOK(c) /\ Struct(k.mem, c) /\ k.mem \in Memory
    BY <2>1, KTyped DEF Good, Core
  <2> DEFINE n == Wiped(k)
             x == [k EXCEPT !.mem = n]
  <2>3. n \in Memory /\ \A f \in Frames : f \notin k.unused => n[f] = k.mem[f]
    BY <2>2, WipedTyped
  <2> HIDE DEF n
  <2>4. \A t \in Frames : Table(c, t) => t \notin k.unused
    BY <2>1, <2>2, UnusedLoose DEF Loose, Table
  <2>5. Struct(n, c)
    BY <2>2, <2>3, <2>4, StructSame
  <2>6. Same(k.mem, n, InUse(k.mem, Tops(k)))
    BY <2>2, <2>3, <2>4, InUseTables DEF Same
  <2>7. SameRoots(k.mem, n, c)
    BY <2>2, <2>3, <2>4, TablesRoots
  <2>8. Good(x, c) /\ x.queue = k.queue
    BY <2>1, <2>3, <2>5, <2>6, <2>7, MemOK
  <2> HIDE DEF x
  <2>9. World(x)
    BY <2>1, <2>8 DEF World
  <2> QED BY <2>9 DEF Settled, x, n
<1> QED BY <1>1, <1>2

LEMMA WorldTyped ==
  ASSUME NEW k, World(k)
  PROVE  k \in KSet
BY DEF World, Halted, Good, Core

LEMMA BecomeIs ==
  ASSUME NEW k \in KSet, Become(k)
  PROVE  K' = Settled(k)
<1>1. k = [mem |-> k.mem, unused |-> k.unused, count |-> k.count, noWrite |-> k.noWrite, queue |-> k.queue,
           roots |-> k.roots, pinned |-> k.pinned, loaded |-> k.loaded, tlb |-> k.tlb, bug |-> k.bug]
  BY DEF KSet
<1>2. Settled(k) = [mem |-> Wiped(k), unused |-> k.unused, count |-> k.count, noWrite |-> k.noWrite, queue |-> k.queue,
           roots |-> k.roots, pinned |-> k.pinned, loaded |-> k.loaded, tlb |-> k.tlb, bug |-> k.bug]
  BY <1>1 DEF Settled
<1>3. /\ mem' = Wiped(k) /\ unused' = k.unused /\ count' = k.count /\ noWrite' = k.noWrite
      /\ queue' = k.queue /\ roots' = k.roots /\ pinned' = k.pinned /\ loaded' = k.loaded
      /\ tlb' = k.tlb /\ bug' = k.bug
  BY Zenon DEF Become, Wiped
<1> QED BY <1>2, <1>3, Zenon DEF K

LEMMA BecomeWorld ==
  ASSUME NEW k, World(k), Become(k)
  PROVE  World(K')
BY SettledWorld, WorldTyped, BecomeIs

\* What holds of the variables while the kernel runs.
LEMMA Runs ==
  ASSUME World(K), ~bug
  PROVE  \E c : Good(K, c) /\ K.queue = <<>> /\ c.dying = None /\ Paired(c)
<1>1. K \notin Halted
  <2>1. K.bug = bug
    BY DEF K
  <2> QED BY <2>1 DEF Halted
<1> QED BY <1>1 DEF World

----------------------------------------------------------------------------
(* The steps                                                               *)

LEMMA KIs ==
  /\ K.mem = mem /\ K.unused = unused /\ K.count = count /\ K.queue = queue /\ K.roots = roots
  /\ K.pinned = pinned /\ K.loaded = loaded /\ K.tlb = tlb
  /\ (K.bug = bug)
BY DEF K

LEMMA GoodFacts ==
  ASSUME NEW c, Good(K, c), K.queue = <<>>
  PROVE  /\ Core(K, c) /\ CtxOK(c) /\ K \in KSet /\ Kept(K, c) /\ Idle(K, c) /\ Done(K, c)
         /\ roots = c.roots /\ pinned = c.pinned /\ loaded = c.loaded /\ mem \in Memory
         /\ roots \subseteq Frames
<1>1. Core(K, c) /\ CtxOK(c) /\ K \in KSet /\ K.roots = c.roots /\ K.pinned = c.pinned /\ K.loaded = c.loaded
  BY DEF Good, Core
<1>2. Kept(K, c) /\ Idle(K, c)
  BY DEF Kept, Idle
<1>3. Done(K, c)
  BY <1>1, <1>2, IdleDone
<1> QED BY <1>1, <1>2, <1>3, KIs, KTyped

LEMMA StepPopulate ==
  ASSUME World(K), Populate
  PROVE  World(K')
<1> DEFINE f == FirstUnmapped
           x == PageTableInsert(K, PtBase, KernPage(f), f, {})
<1>1. ~bug /\ ~Populated /\ Become(ReadBack(x, f))
  BY DEF Populate
<1>2. PICK c : Good(K, c) /\ K.queue = <<>> /\ c.dying = None /\ Paired(c)
  BY <1>1, Runs
<1>3. f \in Frames
  <2> DEFINE S == {g \in Frames : KernelPte(mem, g) = Free}
  <2>1. NrPages - 1 \in Frames
    <3>1. 0 \in Frames
      BY Bases
    <3>2. NrPages \in Nat
      BY SizesAssumption
    <3> QED BY <3>1, <3>2 DEF Frames
  <2>2. NrPages - 1 \in S
    BY <1>1, <2>1 DEF Populated
  <2>3. S \subseteq Frames /\ S \subseteq Nat
    BY Bases
  <2> HIDE DEF S
  <2>4. Min(S) \in S
    BY <2>2, <2>3, MinIn
  <2> QED BY <2>3, <2>4 DEF FirstUnmapped, S
<1> HIDE DEF f
<1>4. Widened(x, c)
  BY <1>2, <1>3, PopulateOK
<1> HIDE DEF x
<1>5. PICK d : /\ Idle(x, d) /\ d.dying = None /\ d.roots = c.roots /\ d.pinned = c.pinned
               /\ d.stale = c.stale
  BY <1>4 DEF Widened
<1>6. Paired(d)
  BY <1>2, <1>5 DEF Paired
<1>7. World(x)
  BY <1>5, <1>6, WorldIs
<1>8. World(ReadBack(x, f))
  <2>1. CASE KernelPte(x.mem, f) = Free
    <3>1. Stop(x) \in Halted
      BY <1>7, WorldTyped, WithTyped
    <3>2. World(Stop(x))
      BY <3>1 DEF World
    <3> QED BY <2>1, <3>2 DEF ReadBack
  <2>2. CASE KernelPte(x.mem, f) # Free
    BY <1>7, <2>2 DEF ReadBack
  <2> QED BY <2>1, <2>2
<1> QED BY <1>1, <1>8, BecomeWorld

LEMMA StepAlloc ==
  ASSUME World(K), Alloc
  PROVE  World(K')
<1> DEFINE pairs == {f \in unused : UserRoot(f) \in unused}
           new == Min(pairs)
<1>1. /\ ~bug /\ pairs # {} /\ Become(OfflineClone(NewSpace(K, new), new, PtBase))
  BY DEF Alloc, Running, Call, NewSpace
<1>2. PICK c : Good(K, c) /\ K.queue = <<>> /\ c.dying = None /\ Paired(c)
  BY <1>1, Runs
<1>3. new \in unused /\ UserRoot(new) \in unused
  <2>1. unused \subseteq Frames
    BY <1>2, GoodFacts, KTyped, KIs
  <2>2. pairs \subseteq Nat
    BY <2>1, Bases
  <2> HIDE DEF pairs
  <2>3. Min(pairs) \in pairs
    BY <1>1, <2>2, MinIn
  <2> QED BY <2>3 DEF pairs
<1> HIDE DEF new, pairs
<1>4. new \in K.unused /\ UserRoot(new) \in K.unused
  BY <1>3, KIs
<1>5. World(OfflineClone(NewSpace(K, new), new, PtBase))
  BY <1>2, <1>4, CloneOK
<1> QED BY <1>1, <1>5, BecomeWorld

LEMMA StepUserspaceAlloc ==
  ASSUME World(K), UserspaceAlloc
  PROVE  World(K')
<1>1. PICK pt \in Offline, from \in UserPages, to \in UserPages :
         /\ ~bug /\ from <= to /\ from .. to \subseteq UserPages
         /\ Become(PageTableUserspaceAlloc(K, pt, from, to))
  BY DEF UserspaceAlloc, Running, Call
<1>2. PICK c : Good(K, c) /\ K.queue = <<>> /\ c.dying = None /\ Paired(c)
  BY <1>1, Runs
<1>3. pt \in c.roots
  BY <1>2, GoodFacts DEF Offline
<1>4. Done(PageTableUserspaceAlloc(K, pt, from, to), c)
  <2>1. c.stale = {} /\ Done(K, c) /\ CtxOK(c)
    BY <1>2, GoodFacts DEF Paired
  <2> QED BY <1>1, <1>2, <1>3, <2>1, UserspaceAllocOK
<1>5. World(PageTableUserspaceAlloc(K, pt, from, to))
  BY <1>2, <1>4, DoneWorld
<1> QED BY <1>1, <1>5, BecomeWorld

\* The bounds of the ranges
LEMMA Probe ==
  ASSUME NEW a \in ProbeAddresses
  PROVE  a \in Nat /\ a <= UserEnd * PageSize
<1>1. UserEnd \in Nat /\ PageSize \in Nat
  BY Sizes, SizesAssumption
<1> DEFINE n == UserEnd * PageSize
<1>2. n \in Nat
  BY <1>1, Product
<1>3. ProbeAddresses \subseteq 0 .. n
  BY BoundsAssumption
<1> HIDE DEF n
<1>4. a \in Nat /\ a <= n
  BY <1>2, <1>3
<1> QED BY <1>4 DEF n

LEMMA ShiftPages ==
  ASSUME NEW shift \in {0, 1}
  PROVE  (shift * PageSize) \div PageSize = shift
<1> DEFINE p == PageSize
           zero == 0
<1>1. p \in Nat \ {0} /\ shift \in Nat
  BY SizesAssumption
<1>2. zero \in Nat /\ zero < p
  BY <1>1
<1> HIDE DEF p
<1>3. CASE shift = 0
  <2>1. shift * p = zero
    BY <1>1, <1>3
  <2>2. zero \div p = 0
    <3> HIDE DEF zero
    <3> QED BY <1>1, <1>2, Small
  <2> QED BY <1>3, <2>1, <2>2 DEF p
<1>4. CASE shift = 1
  <2>1. shift * p = p
    BY <1>1, <1>4
  <2> DEFINE one == 1
  <2>2. one \in Nat /\ zero \in 0 .. p - 1 /\ p = p * one + zero
    BY <1>1
  <2> HIDE DEF one, zero
  <2>3. p \div p = one
    BY <1>1, <2>2, Quotient
  <2> QED BY <1>4, <2>1, <2>3 DEF p, one
<1> QED BY <1>3, <1>4

LEMMA StepCopyOnWrite ==
  ASSUME World(K), CopyOnWrite
  PROVE  World(K')
<1>1. PICK pt \in Online, toPt \in Offline, addr \in ProbeAddresses, hi \in ProbeAddresses, shift \in {0, 1} :
         /\ ~bug
         /\ \A i \in 1 .. Len(UsedPages(mem, pt, addr, hi)) :
               UsedPages(mem, pt, addr, hi)[i] + shift \in UserPages
         /\ Become(PageTableProtectRange(UserspaceCopy(K, pt, addr, hi, toPt, shift * PageSize, {"r"}),
                                         pt, addr, hi, {"r"}))
  BY DEF CopyOnWrite, Running, Call
<1>2. PICK c : Good(K, c) /\ K.queue = <<>> /\ c.dying = None /\ Paired(c)
  BY <1>1, Runs
<1>3. pt \in c.roots /\ toPt \in c.roots
  BY <1>2, GoodFacts DEF Offline, Online
<1>4. addr \in Nat /\ hi \in Nat /\ hi <= UserEnd * PageSize
  BY Probe
<1> DEFINE offset == shift * PageSize
           permission == {"r"}
           x == UserspaceCopy(K, pt, addr, hi, toPt, offset, permission)
<1>5. offset \div PageSize = shift
  BY ShiftPages
<1> HIDE DEF offset, permission
<1>6. \A i \in 1 .. Len(UsedPages(K.mem, pt, addr, hi)) :
         UsedPages(K.mem, pt, addr, hi)[i] + offset \div PageSize \in UserPages
  BY <1>1, <1>5, KIs
<1>7. K \notin Halted
  BY <1>1, KIs DEF Halted
<1>8. Done(x, c)
  <2>1. c.stale = {} /\ Idle(K, c) /\ CtxOK(c)
    BY <1>2, GoodFacts DEF Paired
  <2> QED BY <1>2, <1>3, <1>4, <1>6, <1>7, <2>1, UserspaceCopyOK
<1> HIDE DEF x
<1>9. PICK d : Ext(c, d) /\ Idle(x, d)
  BY <1>8 DEF Done
<1>10. CtxOK(d) /\ d.dying = None /\ pt \in d.roots /\ Kept(x, d)
  BY <1>2, <1>3, <1>9, ExtFacts, IdleKept
<1>11. Idle(PageTableProtectRange(x, pt, addr, hi, permission), d)
  BY <1>10, ProtectRangeOK
<1>12. Done(PageTableProtectRange(x, pt, addr, hi, permission), c)
  BY <1>9, <1>11 DEF Done
<1>13. World(PageTableProtectRange(x, pt, addr, hi, permission))
  BY <1>2, <1>12, DoneWorld
<1>14. Become(PageTableProtectRange(x, pt, addr, hi, permission))
  BY <1>1 DEF x, offset, permission
<1> QED BY <1>13, <1>14, BecomeWorld

LEMMA StepCompleteExisting ==
  ASSUME World(K), CompleteExisting
  PROVE  World(K')
<1>1. PICK pt \in Offline : ~bug /\ Become(OfflineCompleteExisting(K, pt))
  BY DEF CompleteExisting, Running, Call
<1>2. PICK c : Good(K, c) /\ K.queue = <<>> /\ c.dying = None /\ Paired(c)
  BY <1>1, Runs
<1>3. pt \in c.roots /\ CtxOK(c)
  BY <1>2, GoodFacts DEF Offline
<1>4. Idle(OfflineCompleteExisting(K, pt), Pinned(c, pt))
  BY <1>2, <1>3, CompleteOK
<1>5. World(OfflineCompleteExisting(K, pt))
  BY <1>2, <1>3, <1>4, PinnedOK, WorldIs
<1> QED BY <1>1, <1>5, BecomeWorld

LEMMA LoadingOK ==
  ASSUME NEW c, CtxOK(c), Paired(c), c.dying = None, NEW pt \in c.roots
  PROVE  Paired(Loading(c, pt)) /\ Loading(c, pt).dying = None
<1>1. c \in Ctx
  BY DEF CtxOK
<1>2. /\ Loading(c, pt).roots = c.roots /\ Loading(c, pt).pinned = c.pinned
      /\ Loading(c, pt).dying = None /\ Loading(c, pt).stale = c.stale
  BY <1>1 DEF Loading, Re, Ctx
<1> QED BY <1>2 DEF Paired

LEMMA StepCompleteNew ==
  ASSUME World(K), CompleteNew
  PROVE  World(K')
<1>1. PICK pt \in Offline : ~bug /\ Become(OfflineCompleteNew(K, pt))
  BY DEF CompleteNew, Running, Call
<1>2. PICK c : Good(K, c) /\ K.queue = <<>> /\ c.dying = None /\ Paired(c)
  BY <1>1, Runs
<1>3. pt \in c.roots /\ CtxOK(c)
  BY <1>2, GoodFacts DEF Offline
<1> DEFINE x == OfflineCompleteExisting(K, pt)
           d == Pinned(c, pt)
<1>4. Idle(x, d)
  BY <1>2, <1>3, CompleteOK
<1>5. /\ CtxOK(d) /\ d.roots = c.roots /\ d.dying = None /\ pt \in d.pinned
      /\ UserRoot(pt) \in d.pinned /\ Paired(d)
  BY <1>2, <1>3, PinnedOK
<1> HIDE DEF x, d
<1>6. Idle(PageTableSwitch(x, pt), Loading(d, pt))
  BY <1>3, <1>4, <1>5, SwitchOK
<1>7. World(PageTableSwitch(x, pt))
  BY <1>3, <1>5, <1>6, LoadingOK, WorldIs
<1>8. Become(PageTableSwitch(x, pt))
  BY <1>1 DEF OfflineCompleteNew, x
<1> QED BY <1>7, <1>8, BecomeWorld

LEMMA StepSwitch ==
  ASSUME World(K), Switch
  PROVE  World(K')
<1>1. PICK pt \in Online : ~bug /\ Become(PageTableSwitch(K, pt))
  BY DEF Switch, Running, Call
<1>2. PICK c : Good(K, c) /\ K.queue = <<>> /\ c.dying = None /\ Paired(c)
  BY <1>1, Runs
<1>3. pt \in c.roots /\ pt \in c.pinned /\ UserRoot(pt) \in c.pinned
  BY <1>2, GoodFacts DEF Online, Paired
<1>4. Idle(K, c) /\ CtxOK(c)
  BY <1>2, GoodFacts
<1>5. Idle(PageTableSwitch(K, pt), Loading(c, pt))
  BY <1>2, <1>3, <1>4, SwitchOK
<1>6. World(PageTableSwitch(K, pt))
  BY <1>2, <1>3, <1>4, <1>5, LoadingOK, WorldIs
<1> QED BY <1>1, <1>6, BecomeWorld

LEMMA StepUserAlloc ==
  ASSUME World(K), UserAlloc
  PROVE  World(K')
<1> DEFINE permission == {"r", "w"}
           x == TakeFrame(K)
           f == UserFrame(K)
<1>1. PICK page \in UserPages :
         ~bug /\ loaded \in roots /\ Become(PageTableInsert(x, loaded, page, f, permission))
  BY DEF UserAlloc, Running, Call
<1>2. PICK c : Good(K, c) /\ K.queue = <<>> /\ c.dying = None /\ Paired(c)
  BY <1>1, Runs
<1>3. loaded \in c.roots /\ CtxOK(c) /\ page \in Nat /\ page < UserEnd
  BY <1>1, <1>2, GoodFacts, UserPage
<1>4. Kept(x, c) /\ (x \in Halted \/ f \in Frames)
  BY <1>2, TakeFrameOK DEF Kept
<1> HIDE DEF x, f, permission
<1>5. Done(PageTableInsert(x, loaded, page, f, permission), c)
  BY <1>2, <1>3, <1>4, PageTableInsertOK
<1>6. World(PageTableInsert(x, loaded, page, f, permission))
  BY <1>2, <1>5, DoneWorld
<1> QED BY <1>1, <1>6, BecomeWorld

LEMMA StepPageUpdate ==
  ASSUME World(K), PageUpdate
  PROVE  World(K')
<1> DEFINE permission == {"r", "w"}
<1>1. PICK pages \in (SUBSET UserPages) \ {{}} :
         /\ ~bug /\ loaded \in roots
         /\ Become(PageTablePageUpdate(TakeFrames(K, pages).kk, loaded, TakeFrames(K, pages).updates, permission))
  BY DEF PageUpdate, Running, Call
<1>2. PICK c : Good(K, c) /\ K.queue = <<>> /\ c.dying = None /\ Paired(c)
  BY <1>1, Runs
<1>3. loaded \in c.roots /\ CtxOK(c) /\ Done(K, c)
  BY <1>1, <1>2, GoodFacts
<1> DEFINE x == TakeFrames(K, pages).kk
           u == TakeFrames(K, pages).updates
<1>4. Done(x, c) /\ u \in Seq([page : UserPages, frame : Frames])
  BY <1>2, <1>3, TakeFramesOK
<1> HIDE DEF x, u, permission
<1>5. Safe(x, c)
  BY <1>4, DoneSafe
<1>6. Done(PageTablePageUpdate(x, loaded, u, permission), c)
  BY <1>2, <1>3, <1>4, <1>5, PageUpdateOK
<1>7. World(PageTablePageUpdate(x, loaded, u, permission))
  BY <1>2, <1>6, DoneWorld
<1>8. Become(PageTablePageUpdate(x, loaded, u, permission))
  BY <1>1 DEF x, u
<1> QED BY <1>7, <1>8, BecomeWorld

LEMMA StepProtect ==
  ASSUME World(K), Protect
  PROVE  World(K')
<1>1. PICK pt \in Online, addr \in ProbeAddresses, hi \in ProbeAddresses, permission \in {{}, {"r"}} :
         ~bug /\ Become(PageTableProtectRange(K, pt, addr, hi, permission))
  BY DEF Protect, Running, Call
<1>2. PICK c : Good(K, c) /\ K.queue = <<>> /\ c.dying = None /\ Paired(c)
  BY <1>1, Runs
<1>3. pt \in c.roots /\ Kept(K, c)
  BY <1>2, GoodFacts DEF Online
<1>4. Idle(PageTableProtectRange(K, pt, addr, hi, permission), c)
  BY <1>3, ProtectRangeOK
<1>5. World(PageTableProtectRange(K, pt, addr, hi, permission))
  BY <1>2, <1>4, WorldIs
<1> QED BY <1>1, <1>5, BecomeWorld

\* The entry of a page of user space in the space that is loaded
LEMMA LeafIs ==
  ASSUME NEW c, Good(K, c), K.queue = <<>>, loaded \in roots, NEW page \in UserPages
  PROVE  /\ page \in Nat /\ page < UserEnd
         /\ LeafPtr(c, PteGetPtr(mem, loaded, page))
         /\ Leaf(loaded, page) = EntryAt(K.mem, PteGetPtr(mem, loaded, page))
         /\ Leaf(loaded, page) \in Content
         /\ Leaf(loaded, page) # Free => Leaf(loaded, page).frame \in Frames /\ Leaf(loaded, page) \in Pte
<1>1. page \in Nat /\ page < UserEnd
  BY UserPage
<1>2. Core(K, c) /\ loaded \in c.roots /\ loaded \in Frames /\ mem \in Memory
  BY GoodFacts
<1>3. LeafPtr(c, PteGetPtr(mem, loaded, page))
  BY <1>1, <1>2, LeafPtrIs, KIs
<1>4. Leaf(loaded, page) = EntryAt(K.mem, PteGetPtr(mem, loaded, page))
  BY KIs DEF Leaf
<1>5. Leaf(loaded, page) \in Content
  BY <1>1, <1>2, PtrTyped DEF Leaf
<1> QED BY <1>1, <1>3, <1>4, <1>5, ContentFrame

LEMMA StepWriteFault ==
  ASSUME World(K), WriteFault
  PROVE  World(K')
<1> DEFINE permission == {"r", "w"}
           x == TakeFrame(K)
           f == UserFrame(K)
<1>1. PICK page \in UserPages :
         /\ ~bug /\ loaded \in roots /\ Leaf(loaded, page).perm = "ro"
         /\ \/ Become(PfnUserFree(PageTableReplace(x, loaded, page, f, permission), Leaf(loaded, page).frame))
            \/ Become(PteUserUpdate(K, PteGetPtr(mem, loaded, page), permission))
  BY DEF WriteFault, Running, Call
<1>2. PICK c : Good(K, c) /\ K.queue = <<>> /\ c.dying = None /\ Paired(c)
  BY <1>1, Runs
<1> DEFINE old == Leaf(loaded, page).frame
           ptr == PteGetPtr(mem, loaded, page)
<1>3. loaded \in c.roots /\ CtxOK(c)
  BY <1>1, <1>2, GoodFacts
<1>4. Leaf(loaded, page) # Free
  BY <1>1, FreeEntry
<1>5. /\ page \in Nat /\ page < UserEnd /\ old \in Frames /\ LeafPtr(c, ptr) /\ old = EntryAt(K.mem, ptr).frame
  BY <1>1, <1>2, <1>4, LeafIs
<1>6. Kept(x, c) /\ (x \in Halted \/ f \in Frames)
  BY <1>2, TakeFrameOK DEF Kept
<1> HIDE DEF x, f, permission, old, ptr
<1>7. CASE Become(PfnUserFree(PageTableReplace(x, loaded, page, f, permission), old))
  <2>1. Idle(PageTableReplace(x, loaded, page, f, permission), c)
    BY <1>3, <1>5, <1>6, ReplaceOK
  <2>2. Idle(PfnUserFree(PageTableReplace(x, loaded, page, f, permission), old), c)
    BY <1>5, <2>1, PfnUserFreeIdle
  <2>3. World(PfnUserFree(PageTableReplace(x, loaded, page, f, permission), old))
    BY <1>2, <2>2, WorldIs
  <2> QED BY <1>7, <2>3, BecomeWorld
<1>8. CASE Become(PteUserUpdate(K, ptr, permission))
  <2>1. PteUserUpdate(K, ptr, permission) = UserUpdate(K, ptr, old, permission)
    BY <1>5 DEF PteUserUpdate
  <2>2. Idle(UserUpdate(K, ptr, old, permission), c)
    BY <1>2, <1>5, UserUpdateOK
  <2>3. World(UserUpdate(K, ptr, old, permission))
    BY <1>2, <2>2, WorldIs
  <2> QED BY <1>8, <2>1, <2>3, BecomeWorld
<1> QED BY <1>1, <1>7, <1>8 DEF old, ptr

LEMMA StepRemovePage ==
  ASSUME World(K), RemovePage
  PROVE  World(K')
<1>1. PICK page \in UserPages :
         /\ ~bug /\ loaded \in roots /\ page \in Mapped(loaded)
         /\ Become(PfnUserFree(PageTableRemove(K, loaded, page), Leaf(loaded, page).frame))
  BY DEF RemovePage, Running, Call
<1>2. PICK c : Good(K, c) /\ K.queue = <<>> /\ c.dying = None /\ Paired(c)
  BY <1>1, Runs
<1> DEFINE old == Leaf(loaded, page).frame
<1>3. loaded \in c.roots
  BY <1>1, <1>2, GoodFacts
<1>4. Leaf(loaded, page) # Free
  BY <1>1 DEF Mapped
<1>5. page \in Nat /\ page < UserEnd /\ old \in Frames
  BY <1>1, <1>2, <1>4, LeafIs
<1> HIDE DEF old
<1>6. Idle(PageTableRemove(K, loaded, page), c)
  BY <1>2, <1>3, <1>5, RemoveOK
<1>7. Idle(PfnUserFree(PageTableRemove(K, loaded, page), old), c)
  BY <1>5, <1>6, PfnUserFreeIdle
<1>8. World(PfnUserFree(PageTableRemove(K, loaded, page), old))
  BY <1>2, <1>7, WorldIs
<1>9. Become(PfnUserFree(PageTableRemove(K, loaded, page), old))
  BY <1>1 DEF old
<1> QED BY <1>8, <1>9, BecomeWorld

LEMMA StepPropagate ==
  ASSUME World(K), Propagate
  PROVE  World(K')
<1>1. ~bug /\ loaded \in roots /\ Become(PropagateKernelEntry(K, loaded, KernPage(0)))
  BY DEF Propagate, Running, Call
<1>2. PICK c : Good(K, c) /\ K.queue = <<>> /\ c.dying = None /\ Paired(c)
  BY <1>1, Runs
<1>3. loaded \in c.roots
  BY <1>1, <1>2, GoodFacts
<1>4. Idle(PropagateKernelEntry(K, loaded, KernPage(0)), c)
  BY <1>2, <1>3, PropagateOK
<1>5. World(PropagateKernelEntry(K, loaded, KernPage(0)))
  BY <1>2, <1>4, WorldIs
<1> QED BY <1>1, <1>5, BecomeWorld

LEMMA StepFreeSpace ==
  ASSUME World(K), FreeSpace
  PROVE  World(K')
<1>1. PICK pt \in Online \ {loaded} :
         ~bug /\ Become(Forget(PageTableFree(Unpin(Unpin(K, pt), UserRoot(pt)), pt), pt))
  BY DEF FreeSpace, Running, Call, Forget
<1>2. PICK c : Good(K, c) /\ K.queue = <<>> /\ c.dying = None /\ Paired(c)
  BY <1>1, Runs
<1>3. pt \in c.roots /\ pt # c.loaded
  BY <1>2, GoodFacts DEF Online
<1>4. World(Forget(PageTableFree(Unpin(Unpin(K, pt), UserRoot(pt)), pt), pt))
  BY <1>2, <1>3, FreeSpaceOK
<1> QED BY <1>1, <1>4, BecomeWorld

\* The processor caches a translation.
LEMMA CacheOK ==
  ASSUME NEW k, NEW c, Good(k, c), k.loaded # None, NEW t \in Cache,
         EntryAt(k.mem, PteGetPtr(k.mem, k.loaded, t.page)) = t.pte
  PROVE  Good([k EXCEPT !.tlb = t], c) /\ [k EXCEPT !.tlb = t].queue = k.queue
<1> DEFINE x == [k EXCEPT !.tlb = t]
<1>1. Core(k, c) /\ GoodQueue(k, c) /\ k \in KSet
  BY DEF Good, Core
<1>2. x \in KSet /\ x.mem = k.mem /\ x.queue = k.queue /\ x.tlb = t /\ Elsewhere(x, k)
  BY <1>1, WithTlb
<1> HIDE DEF x
<1>3. Tops(x) = Tops(k) /\ Allocator(x, c)
  BY <1>1, <1>2, TopsSame, AllocatorSame DEF Core
<1>4. x.roots = k.roots /\ x.pinned = k.pinned /\ x.loaded = k.loaded
  BY <1>2 DEF Elsewhere
<1>5. Core(x, c)
  BY <1>1, <1>2, <1>3, <1>4 DEF Core
<1>6. GoodQueue(x, c) /\ TlbOK(x)
  BY <1>1, <1>2, <1>4 DEF GoodQueue, TlbOK
<1>7. Mirror(x, c)
  BY <1>2, SameMirror DEF Good
<1>8. Good(x, c)
  BY <1>5, <1>6, <1>7 DEF Good
<1> QED BY <1>2, <1>8 DEF x

LEMMA StepTouch ==
  ASSUME World(K), Touch
  PROVE  World(K')
<1>1. PICK page \in UserPages :
         /\ ~bug /\ loaded \in roots /\ Leaf(loaded, page).perm \in {"ro", "rw"}
         /\ tlb' = [page |-> page, pte |-> Leaf(loaded, page)]
         /\ UNCHANGED <<mem, unused, count, noWrite, queue, roots, pinned, loaded, bug>>
  BY DEF Touch, Running
<1>2. PICK c : Good(K, c) /\ K.queue = <<>> /\ c.dying = None /\ Paired(c)
  BY <1>1, Runs
<1> DEFINE t == [page |-> page, pte |-> Leaf(loaded, page)]
<1>3. Leaf(loaded, page) # Free
  BY <1>1, FreeEntry
<1>4. page \in Nat /\ Leaf(loaded, page) \in Pte /\ Leaf(loaded, page) \in Content
  BY <1>1, <1>2, <1>3, LeafIs
<1>5. t \in Cache /\ t.page = page /\ t.pte = Leaf(loaded, page)
  BY <1>1, <1>4 DEF Cache
<1>6. K.loaded # None /\ EntryAt(K.mem, PteGetPtr(K.mem, K.loaded, page)) = Leaf(loaded, page)
  BY <1>1, <1>2, GoodFacts, Bases, KIs DEF Leaf
<1> HIDE DEF t
<1>7. Good([K EXCEPT !.tlb = t], c) /\ [K EXCEPT !.tlb = t].queue = K.queue
  BY <1>2, <1>5, <1>6, CacheOK
<1>8. K' = [K EXCEPT !.tlb = t]
  BY <1>1 DEF K, t
<1> QED BY <1>2, <1>7, <1>8 DEF World

LEMMA StepOK ==
  ASSUME World(K), [Next]_vars
  PROVE  World(K')
<1>1. CASE UNCHANGED vars
  <2>1. K' = K
    BY <1>1 DEF vars, K
  <2> QED BY <2>1
<1>2. CASE Next
  BY <1>2, StepPopulate, StepAlloc, StepUserspaceAlloc, StepCopyOnWrite, StepCompleteExisting,
     StepCompleteNew, StepSwitch, StepUserAlloc, StepPageUpdate, StepProtect, StepWriteFault,
     StepRemovePage, StepPropagate, StepFreeSpace, StepTouch DEF Next
<1> QED BY <1>1, <1>2

----------------------------------------------------------------------------
(* Theorems                                                                *)

\* The inductive invariant: the kernel has stopped, or there is a context that
\* gives every table its level and its address space, with which the contents
\* of the tables, the allocator, the tables in use and the cached translation
\* agree.
IInv == World(K)

LEMMA Invariant == Spec => []IInv
<1>1. Init => IInv
  BY InitWorld DEF IInv
<1>2. IInv /\ [Next]_vars => IInv'
  <2>1. SUFFICES ASSUME IInv, [Next]_vars PROVE IInv'
    OBVIOUS
  <2>2. World(K')
    BY <2>1, StepOK DEF IInv
  <2> QED BY <2>2 DEF IInv
<1> QED BY <1>1, <1>2, PTL DEF Spec

LEMMA TypeFollows == IInv => TypeOK
<1> SUFFICES ASSUME World(K) PROVE TypeOK
  BY DEF IInv
<1>1. K \in KSet
  BY WorldTyped
<1>2. K.noWrite = noWrite
  BY DEF K
<1>3. /\ mem \in Memory /\ unused \subseteq Frames /\ count \in [Frames -> Nat] /\ roots \subseteq Frames
      /\ pinned \subseteq Frames /\ tlb \in Cache /\ bug \in BOOLEAN
  BY <1>1, KTyped, KIs
<1>4. noWrite \in Lists
  BY <1>1, <1>2 DEF KSet
<1>5. noWrite \in Seq(Frames) /\ Len(noWrite) <= MaxPts
  BY <1>4 DEF Lists
<1>6. bug \/ queue = <<>>
  BY Runs, KIs
<1>7. tlb.page \in UserPages => tlb.pte \in Pte
  <2>1. tlb.page \in UserPages => tlb.page # None
    BY UserPage DEF None
  <2> QED BY <1>3, <2>1 DEF Cache
<1>8. mem \in [Frames -> [0 .. Width - 1 -> Pte \cup {Free}]]
  BY <1>3 DEF Memory, Tab, Index, Content
<1> QED BY <1>3, <1>5, <1>6, <1>7, <1>8 DEF TypeOK

\* The tables of the kernel's half, and those of a space, are the ones of the
\* context.
LEMMA KernelTablesKt ==
  ASSUME NEW c, Good(K, c)
  PROVE  KernelTables \subseteq Kt(c) /\ Kt(c) \subseteq KernelTables
<1> DEFINE R == {}
<1> DEFINE tops == {PtBase}
<1>1. CtxOK(c) /\ mem \in Memory /\ Struct(mem, c)
  BY KIs, KTyped DEF Good, Core
<1>2. KernelTables = tops \cup Level3(mem, tops) \cup Level2(mem, tops) \cup Level1(mem, tops)
  BY DEF KernelTables, Beneath, Level3, Level2, Level1
<1>3. PtBase \in tops /\ tops \subseteq {PtBase} \cup Owned(c, R, 4) /\ \A l : Owned(c, R, l) = {}
  BY DEF Owned
<1>4. tops \subseteq Kt(c) /\ Kt(c) \subseteq tops \cup {PtBase + 1} \cup K2(c) \cup K1(c)
  BY DEF Kt
<1>5. Shape(mem, c)
  BY <1>1 DEF Struct
<1> HIDE DEF tops, R
<1>6. /\ PtBase + 1 \in Level3(mem, tops) /\ K2(c) \subseteq Level2(mem, tops)
      /\ K1(c) \subseteq Level1(mem, tops)
  BY <1>1, <1>3, <1>5, KernelChain
<1>7. /\ Level3(mem, tops) \subseteq {PtBase + 1} \cup Owned(c, R, 3)
      /\ Level2(mem, tops) \subseteq K2(c) \cup Owned(c, R, 2)
      /\ Level1(mem, tops) \subseteq K1(c) \cup Owned(c, R, 1)
  BY <1>1, <1>3, InUseKnown
<1>8. KernelTables \subseteq Kt(c)
  BY <1>2, <1>3, <1>4, <1>7 DEF Kt
<1>9. Kt(c) \subseteq KernelTables
  BY <1>2, <1>4, <1>6
<1> QED BY <1>8, <1>9

LEMMA BeneathOwned ==
  ASSUME NEW c, Good(K, c), NEW pt \in c.roots, NEW top \in {pt, UserRoot(pt)}
  PROVE  \A f \in {top} \cup Beneath(top) : f \in Kt(c) \/ (f \in Frames /\ c.lev[f] # 0 /\ c.own[f] = pt)
<1> DEFINE tops == {top}
           R == {pt}
<1>1. CtxOK(c) /\ mem \in Memory /\ Struct(mem, c)
  BY KIs, KTyped DEF Good, Core
<1>2. Beneath(top) = Level3(mem, tops) \cup Level2(mem, tops) \cup Level1(mem, tops)
  BY DEF Beneath, Level3, Level2, Level1
<1>3. top \in Frames /\ c.lev[top] = 4 /\ c.own[top] = pt
  BY <1>1, CtxTyped DEF CtxOK, CtxSpaces
<1>4. tops \subseteq {PtBase} \cup Owned(c, R, 4)
  BY <1>3 DEF Owned
<1>5. \A l \in 1 .. 4 : \A f \in Owned(c, R, l) : f \in Frames /\ c.lev[f] # 0 /\ c.own[f] = pt
  BY DEF Owned
<1> HIDE DEF tops, R
<1>6. /\ Level3(mem, tops) \subseteq {PtBase + 1} \cup Owned(c, R, 3)
      /\ Level2(mem, tops) \subseteq K2(c) \cup Owned(c, R, 2)
      /\ Level1(mem, tops) \subseteq K1(c) \cup Owned(c, R, 1)
  BY <1>1, <1>4, InUseKnown
<1>7. SUFFICES ASSUME NEW f \in {top} \cup Beneath(top), f \notin Kt(c)
               PROVE  f \in Frames /\ c.lev[f] # 0 /\ c.own[f] = pt
  OBVIOUS
<1>8. f # PtBase + 1 /\ f \notin K2(c) /\ f \notin K1(c)
  BY <1>7 DEF Kt
<1>9. f = top \/ f \in Owned(c, R, 3) \/ f \in Owned(c, R, 2) \/ f \in Owned(c, R, 1)
  BY <1>2, <1>6, <1>7, <1>8
<1>10. CASE f = top
  BY <1>3, <1>10
<1>11. CASE f \in Owned(c, R, 3) \/ f \in Owned(c, R, 2) \/ f \in Owned(c, R, 1)
  BY <1>5, <1>11
<1> QED BY <1>9, <1>10, <1>11

LEMMA ApartFollows == IInv => FramesApart
<1> SUFFICES ASSUME World(K), ~bug
             PROVE  /\ \A pt, qt \in roots : pt # qt => Tables(pt) \cap Tables(qt) = {}
                    /\ \A t \in KernelTables \cup UNION {Tables(pt) : pt \in roots} :
                          t \notin unused /\ count[t] = 0
  BY DEF IInv, FramesApart
<1>1. PICK c : Good(K, c) /\ K.queue = <<>> /\ c.dying = None /\ Paired(c)
  BY Runs
<1>2. roots = c.roots /\ CtxOK(c) /\ Allocator(K, c) /\ Kt(c) \subseteq Frames /\ roots \subseteq Frames
  BY <1>1, GoodFacts, CtxTyped DEF Core
<1>3. KernelTables \subseteq Kt(c) /\ Kt(c) \subseteq KernelTables
  BY <1>1, KernelTablesKt
<1>4. \A pt \in roots : \A f \in Tables(pt) : f \in Frames /\ f \notin Kt(c) /\ c.lev[f] # 0 /\ c.own[f] = pt
  <2>1. SUFFICES ASSUME NEW pt \in roots, NEW f \in Tables(pt)
                 PROVE  f \in Frames /\ f \notin Kt(c) /\ c.lev[f] # 0 /\ c.own[f] = pt
    OBVIOUS
  <2>2. f \notin Kt(c) /\ f \in ({pt} \cup Beneath(pt)) \cup ({UserRoot(pt)} \cup Beneath(UserRoot(pt)))
    BY <1>3, <2>1 DEF Tables
  <2>3. CASE f \in {pt} \cup Beneath(pt)
    BY <1>1, <1>2, <2>2, <2>3, BeneathOwned
  <2>4. CASE f \in {UserRoot(pt)} \cup Beneath(UserRoot(pt))
    BY <1>1, <1>2, <2>2, <2>4, BeneathOwned
  <2> QED BY <2>2, <2>3, <2>4
<1>5. \A pt, qt \in roots : pt # qt => Tables(pt) \cap Tables(qt) = {}
  BY <1>4
<1>6. \A t \in Kt(c) : t \notin unused /\ count[t] = 0
  BY <1>2, KIs DEF Allocator
<1>8. \A t \in KernelTables : t \notin unused /\ count[t] = 0
  BY <1>3, <1>6
<1>7. \A pt \in roots : \A t \in Tables(pt) : t \notin unused /\ count[t] = 0
  <2>1. \A pt \in roots : pt # None
    BY <1>2, Bases
  <2> QED BY <1>1, <1>2, <1>4, <2>1, KIs DEF Allocator
<1> QED BY <1>5, <1>7, <1>8

LEMMA MirrorFollows == IInv => UserRootMirrors
<1> SUFFICES ASSUME World(K), ~bug, NEW pt \in roots, NEW i \in 0 .. (Entries[4] - 1)
             PROVE  mem[UserRoot(pt)][i] = IF i < PtUserEntries THEN mem[pt][i] ELSE Free
  BY DEF IInv, UserRootMirrors
<1> DEFINE q == UserRoot(pt)
<1>1. PICK c : Good(K, c) /\ K.queue = <<>> /\ c.dying = None /\ Paired(c)
  BY Runs
<1>2. /\ Core(K, c) /\ CtxOK(c) /\ pt \in c.roots /\ mem = K.mem
      /\ i \in 0 .. Entries[4] - 1 /\ i \in Nat /\ PtUserEntries \in Nat
  <2>1. Core(K, c) /\ CtxOK(c) /\ pt \in c.roots
    BY <1>1, GoodFacts
  <2>2. mem = K.mem
    BY DEF K
  <2> QED BY <2>1, <2>2, Sizes
<1>3. pt \in Frames /\ q \in Frames /\ c.lev[q] = 4
  BY <1>2, RootFrames
<1>4. q \notin c.roots /\ None \notin c.roots
  BY <1>2, CtxTyped, Bases DEF CtxOK, CtxSpaces
<1>5. CASE i < PtUserEntries
  <2>1. i \in 0 .. PtUserEntries - 1
    BY <1>2, <1>5
  <2>2. Mirrored(K, pt, i)
    BY <1>1, <1>2, <1>4, <2>1 DEF Good, Mirror, Paired
  <2>3. PICK v : Final(K, pt, i, v) /\ Final(K, q, i, v)
    BY <2>2 DEF Mirrored
  <2>4. Len(K.queue) = 0
    BY <1>1
  <2>5. mem[pt][i] = v /\ mem[q][i] = v
    BY <1>2, <2>3, <2>4 DEF Final
  <2> QED BY <1>5, <2>5
<1>6. CASE ~(i < PtUserEntries)
  <2>1. Top(mem, c, q)
    BY <1>2, <1>3 DEF Core, Struct, Trees
  <2>2. mem[q][i] = Free
    BY <1>4, <1>6, <2>1 DEF Top
  <2> QED BY <1>6, <2>2
<1> QED BY <1>5, <1>6

\* The variables keep their shapes whatever is called in whatever order, the
\* list of new tables never outgrows its array, and no call of a running kernel
\* ends with updates still in the queue (_doUpdate, _offlinePtpAlloc).
THEOREM TypeCorrect == Spec => []TypeOK
BY Invariant, TypeFollows, PTL

\* The translation that the processor has cached is the one that the tables of
\* the space it runs give, whatever was removed, replaced, protected or
\* switched since (_ptpI7, archPageTableLoad).
THEOREM CachedTranslation == Spec => []TlbAgrees
<1>1. IInv => TlbAgrees
  <2>1. SUFFICES ASSUME World(K), ~bug, tlb.page # None
                 PROVE  Leaf(loaded, tlb.page) = tlb.pte
    BY DEF IInv, TlbAgrees
  <2>2. PICK c : Good(K, c)
    BY <2>1, Runs
  <2>3. TlbOK(K)
    BY <2>2 DEF Good
  <2> QED BY <2>1, <2>3, KIs DEF TlbOK, Leaf
<1> QED BY <1>1, Invariant, PTL

\* Every table in use is of one level and never writable by the kernel, while
\* tables are stored to, linked, unlinked and given back around it (_insertPtp,
\* _ptpFree, archPageTableOfflineClone, archPageTableOfflineCompleteNew).
THEOREM InUseProtected == Spec => []TablesProtected
<1>1. IInv => TablesProtected
  <2>1. SUFFICES ASSUME World(K), ~bug
                 PROVE  Accepts(mem, Tops(K))
    BY DEF IInv, TablesProtected
  <2>2. PICK c : Good(K, c)
    BY <2>1, Runs
  <2> QED BY <2>2, KIs DEF Good, Core
<1> QED BY <1>1, Invariant, PTL

\* No frame is a table of two address spaces, of a space and the kernel, or a
\* table and a page of user space or free (_ptpFree, _offlineFree, _insertPtp).
THEOREM OneUse == Spec => []FramesApart
BY Invariant, ApartFollows, PTL

\* Whenever no call is going on, the root for user mode has the user half of the
\* root for the kernel and nothing of the kernel's half, although a call links a
\* table below the two roots by two stores or two updates, and a full queue is
\* flushed between them (_offlineDuplicateL4, _cloneUser, archPageTableOfflineClone).
THEOREM SecondRoot == Spec => []UserRootMirrors
BY Invariant, MirrorFollows, PTL
=============================================================================
