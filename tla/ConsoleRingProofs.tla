--------------------------- MODULE ConsoleRingProofs ---------------------------
(****************************************************************************)
(* Proofs about ConsoleRing, for rings of every size, indices that begin     *)
(* anywhere, and any number of texts.  What a sender gave the ring is the    *)
(* sequence of its numbered characters; the invariant says that those among  *)
(* the shown cells and the cells in use are just the characters it has       *)
(* published, where the part it is copying lies, and how old its copy of the *)
(* daemon's index may be.  Functions of a sequence are reasoned about by     *)
(* induction on its length, from the least element of a set of numbers.      *)
(****************************************************************************)
EXTENDS ConsoleRing, WellFoundedInduction, TLAPS

\* Remainders, and the indices of RingIndex: what the two indices of a ring say of
\* the cells between them although they come round.

\* Division with remainder, as the code's % computes it.
LEMMA DivMod ==
  ASSUME NEW a \in Int, NEW n \in Int, n > 0
  PROVE  a \div n \in Int /\ a % n \in 0 .. n - 1 /\ a = n * (a \div n) + (a % n)
<1>1. a = n * (a \div n) + (a % n)
  BY SMT
<1>2. a \div n \in Int /\ a % n \in 0 .. n - 1
  BY SMT
<1> QED BY <1>1, <1>2

\* The remainder is determined by being one.
LEMMA Remainder ==
  ASSUME NEW n \in Int, n > 0, NEW q \in Int, NEW r \in 0 .. n - 1
  PROVE  (n * q + r) % n = r
<1> DEFINE a == n * q + r
           d == q - (a \div n)
<1>1. a \in Int /\ a \div n \in Int /\ a % n \in 0 .. n - 1 /\ a = n * (a \div n) + (a % n)
  BY DivMod
<1>2. d \in Int /\ n * d = (a % n) - r
  BY <1>1
<1> HIDE DEF d
<1>3. d >= 1 => n * d >= n
  BY <1>2
<1>4. d <= -1 => n * d <= -n
  BY <1>2
<1>5. d = 0
  BY <1>1, <1>2, <1>3, <1>4
<1>6. n * d = 0
  BY <1>5
<1> QED BY <1>1, <1>2, <1>6

\* A number below twice the divisor.
LEMMA SmallMod ==
  ASSUME NEW n \in Int, n > 0, NEW a \in 0 .. (2 * n) - 1
  PROVE  (a < n => a % n = a) /\ (a >= n => a % n = a - n)
<1>1. CASE a < n
  <2>1. (n * 0 + a) % n = a
    BY <1>1, Remainder
  <2> QED BY <1>1, <2>1
<1>2. CASE a >= n
  <2>1. a - n \in 0 .. n - 1
    BY <1>2
  <2>2. (n * 1 + (a - n)) % n = a - n
    BY <2>1, Remainder
  <2> QED BY <1>2, <2>2
<1> QED BY <1>1, <1>2

\* A remainder may be taken of either summand first.
LEMMA ModPlus ==
  ASSUME NEW n \in Int, n > 0, NEW a \in Int, NEW b \in Int
  PROVE  ((a % n) + b) % n = (a + b) % n
<1> DEFINE q == a \div n
           r == a % n
           d == (r + b) \div n
           s == (r + b) % n
<1>1. q \in Int /\ r \in Int /\ a = n * q + r
  BY DivMod
<1>2. d \in Int /\ s \in 0 .. n - 1 /\ r + b = n * d + s
  BY <1>1, DivMod
<1> HIDE DEF q, d, s
<1>3. a + b = n * (q + d) + s /\ q + d \in Int
  BY <1>1, <1>2
<1>4. (a + b) % n = s
  BY <1>2, <1>3, Remainder, ZenonT(40)
<1> QED BY <1>4 DEF s

\* An index reduced by a multiple of the ring's size keeps its cell.
LEMMA ModOfMod ==
  ASSUME NEW n \in Int, n > 0, NEW m \in Int, m > 0, m % n = 0, NEW a \in Int
  PROVE  (a % m) % n = a % n
<1> DEFINE k == m \div n
           q == a \div m
           r == a % m
           d == r \div n
           s == r % n
<1>1. k \in Int /\ m = n * k
  BY DivMod
<1>2. q \in Int /\ r \in Int /\ a = m * q + r
  BY DivMod
<1>3. d \in Int /\ s \in 0 .. n - 1 /\ r = n * d + s
  BY <1>2, DivMod
<1> HIDE DEF k, q, d, s
<1>4. a = n * (k * q + d) + s /\ k * q + d \in Int
  <2>1. m * q = n * (k * q)
    BY <1>1, <1>2
  <2>2. k * q \in Int
    BY <1>1, <1>2
  <2> QED BY <1>2, <1>3, <2>1, <2>2
<1>5. a % n = s
  BY <1>3, <1>4, Remainder
<1> QED BY <1>5 DEF s

----------------------------------------------------------------------------
Index == 0 .. IdxMod - 1

\* An index stays one.
LEMMA AdvanceType ==
  ASSUME NEW idx \in Int, NEW n \in Int
  PROVE  Advance(idx, n) \in Index
BY IdxModAssumption, DivMod DEF Advance, Index

\* Two moves in one.
LEMMA AdvanceTwice ==
  ASSUME NEW idx \in Index, NEW m \in Nat, NEW n \in Nat
  PROVE  Advance(Advance(idx, m), n) = Advance(idx, m + n)
<1>1. IdxMod \in Int /\ IdxMod > 0 /\ idx + m \in Int /\ n \in Int
  BY IdxModAssumption DEF Index
<1>2. \A a, b \in Int : ((a % IdxMod) + b) % IdxMod = (a + b) % IdxMod
  BY <1>1, ModPlus
<1>3. (((idx + m) % IdxMod) + n) % IdxMod = ((idx + m) + n) % IdxMod
  BY <1>1, <1>2, Zenon
<1> QED BY <1>1, <1>3 DEF Advance, Index

\* After a move of n the indices are n apart,
LEMMA UsedAdvance ==
  ASSUME NEW idx \in Index, NEW n \in Index
  PROVE  Used(Advance(idx, n), idx) = n
<1>1. IdxMod \in Int /\ IdxMod > 0 /\ idx + n \in 0 .. (2 * IdxMod) - 1
  BY IdxModAssumption DEF Index
<1>2. /\ idx + n < IdxMod => Advance(idx, n) = idx + n
      /\ idx + n >= IdxMod => Advance(idx, n) = idx + n - IdxMod
  BY <1>1, SmallMod DEF Advance, Index
<1>3. CASE idx + n < IdxMod
  <2>1. Advance(idx, n) + IdxMod - idx = n + IdxMod
    BY <1>1, <1>2, <1>3 DEF Index
  <2>2. n + IdxMod \in 0 .. (2 * IdxMod) - 1 /\ n + IdxMod >= IdxMod
    BY <1>1 DEF Index
  <2> QED BY <1>1, <2>1, <2>2, SmallMod DEF Used, Index
<1>4. CASE idx + n >= IdxMod
  <2>1. Advance(idx, n) + IdxMod - idx = n
    BY <1>1, <1>2, <1>4 DEF Index
  <2>2. n \in 0 .. (2 * IdxMod) - 1 /\ n < IdxMod
    BY <1>1 DEF Index
  <2> QED BY <1>1, <2>1, <2>2, SmallMod DEF Used, Index
<1> QED BY <1>1, <1>3, <1>4

\* ... and the distance between two indices is the move from one to the other.
LEMMA AdvanceUsed ==
  ASSUME NEW prod \in Index, NEW cons \in Index
  PROVE  Used(prod, cons) \in Index /\ Advance(cons, Used(prod, cons)) = prod
<1>1. /\ IdxMod \in Int /\ IdxMod > 0 /\ prod \in Int /\ cons \in Int
      /\ prod + IdxMod - cons \in 0 .. (2 * IdxMod) - 1
  BY IdxModAssumption DEF Index
<1>2. /\ prod < cons => Used(prod, cons) = prod + IdxMod - cons
      /\ prod >= cons => Used(prod, cons) = prod - cons
  BY <1>1, SmallMod DEF Used, Index
<1>3. Used(prod, cons) \in Index
  BY <1>1, <1>2 DEF Index
<1>4. cons + Used(prod, cons) \in 0 .. (2 * IdxMod) - 1
  BY <1>1, <1>3 DEF Index
<1>5. Advance(cons, Used(prod, cons)) = prod
  BY <1>1, <1>2, <1>4, SmallMod DEF Advance, Index
<1> QED BY <1>3, <1>5

\* Cells are added at the one index,
LEMMA UsedGrows ==
  ASSUME NEW prod \in Index, NEW cons \in Index, NEW n \in Nat, Used(prod, cons) + n < IdxMod
  PROVE  Used(Advance(prod, n), cons) = Used(prod, cons) + n
<1>1. Used(prod, cons) \in Index /\ Advance(cons, Used(prod, cons)) = prod
  BY AdvanceUsed
<1>2. Used(prod, cons) \in Nat /\ Used(prod, cons) + n \in Index
  BY <1>1, IdxModAssumption DEF Index
<1>3. Advance(prod, n) = Advance(cons, Used(prod, cons) + n)
  BY <1>1, <1>2, AdvanceTwice
<1> QED BY <1>2, <1>3, UsedAdvance

\* ... and taken at the other.
LEMMA UsedShrinks ==
  ASSUME NEW prod \in Index, NEW cons \in Index, NEW n \in Nat, n <= Used(prod, cons)
  PROVE  Used(prod, Advance(cons, n)) = Used(prod, cons) - n
<1>1. Used(prod, cons) \in Index /\ Advance(cons, Used(prod, cons)) = prod
  BY AdvanceUsed
<1>2. /\ Used(prod, cons) - n \in Index /\ Used(prod, cons) - n \in Nat
      /\ n + (Used(prod, cons) - n) = Used(prod, cons)
  BY <1>1, IdxModAssumption DEF Index
<1>3. prod = Advance(Advance(cons, n), Used(prod, cons) - n)
  BY <1>1, <1>2, AdvanceTwice
<1>4. Advance(cons, n) \in Index
  BY AdvanceType DEF Index
<1> QED BY <1>2, <1>3, <1>4, UsedAdvance

\* A ring is empty when its indices are equal.
LEMMA UsedNone ==
  ASSUME NEW prod \in Index, NEW cons \in Index
  PROVE  Used(prod, cons) = 0 <=> prod = cons
<1>1. Used(prod, cons) = 0 => Advance(cons, 0) = prod
  BY AdvanceUsed
<1>2. Advance(cons, 0) = cons /\ 0 \in Index
  BY IdxModAssumption, SmallMod DEF Advance, Index
<1>3. Used(cons, cons) = 0
  BY <1>2, UsedAdvance
<1> QED BY <1>1, <1>2, <1>3

\* The cell of an index, in a ring of n cells, does not depend on whether the
\* index came round.
LEMMA CellOf ==
  ASSUME NEW n \in Int, n > 0, IdxMod % n = 0, NEW idx \in Index, NEW m \in Nat, NEW j \in Nat
  PROVE  (Advance(idx, m) + j) % n = (idx + m + j) % n
<1> DEFINE x == (idx + m) % IdxMod
<1>1. IdxMod \in Int /\ IdxMod > 0 /\ idx + m \in Int /\ j \in Int
  BY IdxModAssumption DEF Index
<1>2. x \in Int
  BY <1>1, DivMod
<1>3. x % n = (idx + m) % n
  BY <1>1, ModOfMod
<1>4. (x + j) % n = ((x % n) + j) % n
  BY <1>1, <1>2, ModPlus
<1>5. (((idx + m) % n) + j) % n = (idx + m + j) % n
  BY <1>1, ModPlus
<1> QED BY <1>3, <1>4, <1>5 DEF Advance

\* Fewer than n places apart, two cells differ.
LEMMA CellsDiffer ==
  ASSUME NEW n \in Int, n > 0, NEW idx \in Index, NEW i \in 0 .. n - 1, NEW j \in 0 .. n - 1,
         (idx + i) % n = (idx + j) % n
  PROVE  i = j
<1> DEFINE x == idx % n
<1>1. idx \in Int /\ i \in Int /\ j \in Int
  BY DEF Index
<1>2. x \in 0 .. n - 1
  BY <1>1, DivMod
<1>3. (x + i) % n = (x + j) % n
  BY <1>1, ModPlus
<1> HIDE DEF x
<1>4. x + i \in 0 .. (2 * n) - 1 /\ x + j \in 0 .. (2 * n) - 1
  BY <1>2
<1> DEFINE y == x + i
           z == x + j
<1>5. y \in 0 .. (2 * n) - 1 /\ z \in 0 .. (2 * n) - 1 /\ y % n = z % n
  BY <1>3, <1>4
<1>8. y = x + i /\ z = x + j
  OBVIOUS
<1> HIDE DEF y, z
<1>6. (y < n => y % n = y) /\ (y >= n => y % n = y - n)
  BY <1>5, SmallMod
<1>7. (z < n => z % n = z) /\ (z >= n => z % n = z - n)
  BY <1>5, SmallMod
<1> QED BY <1>2, <1>5, <1>6, <1>7, <1>8

----------------------------------------------------------------------------

\* The cells of a ring that n places from an index on hold.
Segment(ring, size, idx, n) == [k \in 1 .. n |-> ring[(idx + k - 1) % size]]

\* The numbered characters of a sender after the first p of them.
Block(w, p, n) == [k \in 1 .. n |-> <<w, p + k>>]

\* The inductive invariant.  Types, with what is left of each call: a piece is
\* sent in parts, and the next is begun when nothing is left of it.
Chars  == {"nul", "a", "cr"}
Pieces == Seq(1 .. OutSize)
Calls  == [pc : {"off", "cons", "prod", "copy", "publish"}, todo : Pieces, sent : Nat,
           cons : Index, prod : Index, left : 0 .. OutSize, made : Nat]

CallShape(s) == /\ s \in Calls
                /\ s.pc = "off" <=> s.todo = <<>>
                /\ s.pc \in {"cons", "prod"} => s.sent < Head(s.todo)
                /\ s.pc = "copy" => 1 <= s.left /\ s.sent + s.left <= Head(s.todo)
                /\ s.pc = "publish" => s.left = 0 /\ s.sent <= Head(s.todo)

Shapes == /\ out \in [0 .. OutSize - 1 -> Cells] /\ in \in [0 .. InSize - 1 -> Chars]
          /\ out_prod \in Index /\ out_cons \in Index
          /\ in_prod \in Index /\ in_cons \in Index
          /\ send \in [Senders -> Calls]
          /\ \A w \in Senders : CallShape(send[w])
          /\ kern \in [pc : {"idle", "flush"}, prints : Nat]
          /\ initialized \in BOOLEAN /\ pend \in BOOLEAN /\ note \in BOOLEAN
          /\ cb \in [pc : {"unbound", "off", "loop", "clear"}, cons : Index, prod : Index]
          /\ temp \in Seq(Chars) /\ typed \in Seq(Chars) /\ shown \in Seq(Cells)
          /\ daemon \in [awake : BOOLEAN, upto : Index]
          /\ published \in [Senders -> Nat]
          /\ broken \subseteq {"overtaken", "erased", "spilt", "late"}

\* Input: what the handler has still to take is a part of what was there when it
\* began, and that a part of what is in the ring.
InputRoom == /\ Used(in_prod, in_cons) <= InSize
             /\ cb.pc = "loop" => /\ Used(cb.prod, cb.cons) <= Used(in_prod, cb.cons)
                                  /\ Used(in_prod, cb.cons) <= Used(in_prod, in_cons)
             /\ Len(temp) + Used(in_prod, NextIn) = Len(typed)
             /\ Len(typed) <= MaxTyped

\* The handler sends at most three characters for each one it took.
Echoes   == {<<>>, <<1>>, <<2>>, <<1, 2>>}
Total(p) == IF p = <<>> THEN 0 ELSE IF Len(p) = 1 THEN p[1] ELSE p[1] + p[2]
EchoBound == LET s == send["handler"]
             IN  /\ s.todo \in Echoes
                 /\ cb.pc # "loop" => s.pc = "off"
                 /\ s.made + Total(s.todo) <= 3 * Len(temp) + (IF s.todo = <<>> THEN 0 ELSE s.sent)

\* Output: what of a part lies behind the index; what of it is made is given
\* when the index is stored.
InPart(w)   == send[w].pc \in {"copy", "publish"}
Made(w)     == send[w].made - published[w]
PartCount(w) == IF InPart(w) THEN published[w] <= send[w].made ELSE published[w] = send[w].made

\* A sender's copy of the daemon's index may be old by what the handler sent.
StaleCons(w) == send[w].pc = "prod" =>
                  /\ Used(out_prod, out_cons) <= Used(out_prod, send[w].cons)
                  /\ Used(out_prod, send[w].cons) <= OutSize + published["handler"]

\* The part that is under way, unless the handler is overwriting it.
Intact(w)  == InPart(w) /\ (w = "thread" => ~InPart("handler"))
PartLies(w) == Intact(w) =>
                 /\ send[w].prod = Advance(out_prod, Made(w))
                 /\ Used(out_prod, out_cons) + Made(w) + send[w].left <= OutSize
                 /\ Segment(out, OutSize, out_prod, Made(w)) = Block(w, published[w], Made(w))

OutputRoom == /\ Used(out_prod, out_cons) <= OutSize
              /\ daemon.awake => Used(daemon.upto, out_cons) <= Used(out_prod, out_cons)

Unbroken  == broken \cap {"overtaken", "spilt"} = {}
OutputInv == Unbroken => /\ OutputRoom
                         /\ \A w \in Senders : StaleCons(w) /\ PartLies(w) /\ Kept(w)

Inv == /\ Shapes /\ InputRoom /\ EchoBound
       /\ \A w \in Senders : PartCount(w)
       /\ InputWhole /\ OutputInv

\* Natural numbers: a set of them has a least one, so that what holds of 0, and
\* of each successor, holds of all.
LEMMA Least ==
  ASSUME NEW T, T \subseteq Nat, T # {}
  PROVE  \E n \in T : \A m \in T : n <= m
<1> DEFINE R == OpToRel(<, Nat)
<1>1. IsWellFoundedOn(R, Nat)
  BY NatLessThanWellFounded
<1> HIDE DEF R
<1>2. PICK n \in T : \A m \in T : ~(<<m, n>> \in R)
  BY <1>1, WFMin, Zenon
<1>3. \A a, b \in Nat : a < b => <<a, b>> \in R
  BY DEF OpToRel, R
<1>4. \A m \in T : ~(m < n)
  BY <1>2, <1>3, Zenon
<1>5. \A m \in T : n <= m
  BY <1>4
<1> QED BY <1>5

\* What holds of 0 and of each successor holds of every number.
LEMMA Induction ==
  ASSUME NEW T, 0 \in T, \A n \in Nat : n \in T => n + 1 \in T
  PROVE  Nat \subseteq T
<1> DEFINE B == {n \in Nat : n \notin T}
<1>1. CASE B # {}
  <2>1. PICK n \in B : \A m \in B : n <= m
    BY <1>1, Least
  <2>2. n \in Nat /\ n # 0 /\ n - 1 \in Nat
    BY <2>1
  <2>3. n - 1 \notin T
    BY <2>2
  <2> QED BY <2>1, <2>2, <2>3
<1> QED BY <1>1

\* A function defined from its value one place before exists.
Defined(f, S, a, N, g) == /\ f \in [0 .. N -> S] /\ f[0] = a
                          /\ \A k \in 1 .. N : f[k] = g[<<f[k - 1], k>>]

\* ... and is found one place after the other.
LEMMA Recursion ==
  ASSUME NEW S, NEW a \in S, NEW N \in Nat, NEW g \in [S \X (1 .. N) -> S]
  PROVE  \E f : Defined(f, S, a, N, g)
<1> USE DEF Defined
<1> DEFINE T == {n \in Nat : n <= N => \E f : Defined(f, S, a, n, g)}
<1>1. 0 \in T
  <2>1. Defined([k \in 0 .. 0 |-> a], S, a, 0, g)
    OBVIOUS
  <2> QED BY <2>1
<1>2. ASSUME NEW n \in Nat, n \in T
      PROVE  n + 1 \in T
  <2>1. SUFFICES ASSUME n + 1 <= N
                 PROVE  \E f : Defined(f, S, a, n + 1, g)
    OBVIOUS
  <2>2. PICK f : Defined(f, S, a, n, g)
    BY <1>2, <2>1
  <2> DEFINE h == [k \in 0 .. n + 1 |-> IF k <= n THEN f[k] ELSE g[<<f[n], n + 1>>]]
  <2>3. f[n] \in S /\ n + 1 \in 1 .. N
    BY <2>1, <2>2
  <2>4. g[<<f[n], n + 1>>] \in S
    BY <2>3
  <2>5. h \in [0 .. n + 1 -> S]
    BY <2>2, <2>4
  <2>6. ASSUME NEW k \in 1 .. n + 1
        PROVE  h[k] = g[<<h[k - 1], k>>]
    <3>1. CASE k <= n
      BY <2>2, <3>1
    <3>2. CASE k = n + 1
      <4>1. h[k] = g[<<f[n], n + 1>>]
        BY <3>2
      <4>2. k - 1 = n /\ k - 1 \in 0 .. n + 1 /\ k - 1 <= n
        BY <3>2
      <4>3. h[k - 1] = f[n]
        BY <4>2
      <4> HIDE DEF h
      <4> QED BY <3>2, <4>1, <4>3, Zenon
    <3> QED BY <3>1, <3>2
  <2>7. h[0] = a
    BY <2>2
  <2>8. Defined(h, S, a, n + 1, g)
    BY <2>5, <2>6, <2>7
  <2> QED BY <2>8
<1> HIDE DEF T
<1>3. N \in T
  BY <1>1, <1>2, Induction
<1>4. PICK f : Defined(f, S, a, N, g)
  BY <1>3 DEF T
<1> QED BY <1>4

----------------------------------------------------------------------------
\* The characters of one sender: what From(w, chars) is, and how it grows.
FromStep(w, chars, f, k) == IF k = 0 THEN <<>>
                            ELSE IF chars[k][1] # w THEN f[k - 1]
                            ELSE Append(f[k - 1], chars[k])
FromIs(w, chars, f) == f = [k \in 0 .. Len(chars) |-> FromStep(w, chars, f, k)]

\* The function by which From is defined exists,
LEMMA FromExists ==
  ASSUME NEW w, NEW chars \in Seq(Cells)
  PROVE  \E f : FromIs(w, chars, f)
<1> DEFINE N == Len(chars)
           S == Seq(Cells)
           g == [p \in S \X (1 .. N) |->
                   IF chars[p[2]][1] # w THEN p[1] ELSE Append(p[1], chars[p[2]])]
<1>1. N \in Nat /\ \A k \in 1 .. N : chars[k] \in Cells
  OBVIOUS
<1>2. <<>> \in S
  OBVIOUS
<1>3. g \in [S \X (1 .. N) -> S]
  BY <1>1
<1> HIDE DEF g, N, S
<1>4. PICK f : Defined(f, S, <<>>, N, g)
  <2> DEFINE a == <<>>
  <2>1. a \in S
    BY <1>2
  <2> HIDE DEF a
  <2>2. \E f : Defined(f, S, a, N, g)
    BY <1>1, <1>3, <2>1, Recursion
  <2> QED BY <2>2 DEF a
<1>5. ASSUME NEW k \in 0 .. N
      PROVE  f[k] = FromStep(w, chars, f, k)
  <2>1. CASE k = 0
    BY <1>4, <2>1 DEF Defined, FromStep
  <2>2. CASE k # 0
    <3>1. k \in 1 .. N /\ f[k - 1] \in S
      BY <1>1, <1>4, <2>2 DEF Defined
    <3>2. f[k] = g[<<f[k - 1], k>>]
      BY <1>4, <3>1 DEF Defined
    <3>3. g[<<f[k - 1], k>>] = IF chars[k][1] # w THEN f[k - 1] ELSE Append(f[k - 1], chars[k])
      BY <3>1 DEF g
    <3> QED BY <2>2, <3>2, <3>3 DEF FromStep
  <2> QED BY <2>1, <2>2
<1>6. f = [k \in 0 .. N |-> FromStep(w, chars, f, k)]
  BY <1>4, <1>5 DEF Defined
<1> QED BY <1>6 DEF FromIs, N

\* ... and From is its last value,
LEMMA FromLast ==
  ASSUME NEW w, NEW chars \in Seq(Cells)
  PROVE  \E f : FromIs(w, chars, f) /\ From(w, chars) = f[Len(chars)]
<1> DEFINE from == CHOOSE f : f = [k \in 0 .. Len(chars) |-> FromStep(w, chars, f, k)]
<1>1. FromIs(w, chars, from)
  BY FromExists DEF FromIs
<1>2. From(w, chars) = from[Len(chars)]
  BY DEF From, FromStep
<1> QED BY <1>1, <1>2

\* The characters before the last do not depend on it.
LEMMA FromPrefix ==
  ASSUME NEW w, NEW chars \in Seq(Cells), NEW c \in Cells, NEW f, NEW h,
         FromIs(w, chars, f), FromIs(w, Append(chars, c), h)
  PROVE  f[Len(chars)] = h[Len(chars)]
<1> DEFINE N == Len(chars)
           T == {n \in Nat : n <= N => f[n] = h[n]}
<1>1. /\ N \in Nat /\ Len(Append(chars, c)) = N + 1
      /\ \A k \in 1 .. N : Append(chars, c)[k] = chars[k]
  OBVIOUS
<1>2. \A k \in 0 .. N : /\ f[k] = FromStep(w, chars, f, k)
                        /\ h[k] = FromStep(w, Append(chars, c), h, k)
  <2> DEFINE more == Append(chars, c)
  <2>1. Len(more) = N + 1
    BY <1>1
  <2> HIDE DEF more, N
  <2>2. h = [k \in 0 .. N + 1 |-> FromStep(w, more, h, k)]
    BY <2>1 DEF FromIs, more
  <2>3. f = [k \in 0 .. N |-> FromStep(w, chars, f, k)]
    BY DEF FromIs, N
  <2>4. \A k \in 0 .. N : f[k] = FromStep(w, chars, f, k)
    BY <2>3, Zenon
  <2>5. \A k \in 0 .. N + 1 : h[k] = FromStep(w, more, h, k)
    BY <2>2, Zenon
  <2>6. \A k \in 0 .. N : k \in 0 .. N + 1
    BY <1>1
  <2> QED BY <2>4, <2>5, <2>6, Zenon DEF more
<1> HIDE DEF N
<1>3. 0 \in T
  <2>1. 0 \in 0 .. N
    BY <1>1
  <2>2. f[0] = FromStep(w, chars, f, 0) /\ h[0] = FromStep(w, Append(chars, c), h, 0)
    BY <1>2, <2>1, Zenon
  <2>3. f[0] = <<>> /\ h[0] = <<>>
    BY <2>2, Zenon DEF FromStep
  <2> QED BY <2>3
<1>4. ASSUME NEW n \in Nat, n \in T
      PROVE  n + 1 \in T
  <2>1. SUFFICES ASSUME n + 1 <= N
                 PROVE  f[n + 1] = h[n + 1]
    OBVIOUS
  <2>2. f[n] = h[n] /\ n + 1 \in 1 .. N /\ n + 1 \in 0 .. N /\ (n + 1) - 1 = n /\ n + 1 # 0
    BY <1>1, <1>4, <2>1
  <2>3. f[n + 1] = FromStep(w, chars, f, n + 1) /\ h[n + 1] = FromStep(w, Append(chars, c), h, n + 1)
    BY <1>2, <2>2
  <2>4. Append(chars, c)[n + 1] = chars[n + 1]
    BY <1>1, <2>2
  <2> QED BY <2>2, <2>3, <2>4, Zenon DEF FromStep
<1> HIDE DEF T
<1>5. N \in T
  BY <1>1, <1>3, <1>4, Induction
<1> QED BY <1>1, <1>5 DEF T, N

\* No characters, and one more.
LEMMA FromNone ==
  ASSUME NEW w
  PROVE  From(w, <<>>) = <<>>
<1> DEFINE none == <<>>
<1>1. none \in Seq(Cells) /\ Len(none) = 0
  OBVIOUS
<1> HIDE DEF none
<1>2. PICK f : FromIs(w, none, f) /\ From(w, none) = f[Len(none)]
  BY <1>1, FromLast
<1>3. From(w, none) = <<>>
  BY <1>1, <1>2 DEF FromIs, FromStep
<1> QED BY <1>3 DEF none

\* ... which a further character joins if it is of the sender.
LEMMA FromMore ==
  ASSUME NEW w, NEW chars \in Seq(Cells), NEW c \in Cells
  PROVE  /\ c[1] = w => From(w, Append(chars, c)) = Append(From(w, chars), c)
         /\ c[1] # w => From(w, Append(chars, c)) = From(w, chars)
<1> DEFINE more == Append(chars, c)
           N == Len(chars)
<1>1. /\ more \in Seq(Cells) /\ Len(more) = N + 1 /\ N \in Nat /\ more[N + 1] = c
      /\ N + 1 # 0 /\ N + 1 \in 0 .. N + 1 /\ (N + 1) - 1 = N
  OBVIOUS
<1>2. PICK f : FromIs(w, chars, f) /\ From(w, chars) = f[N]
  BY FromLast
<1>3. PICK h : FromIs(w, more, h) /\ From(w, more) = h[N + 1]
  BY <1>1, FromLast
<1>4. f[N] = h[N]
  BY <1>2, <1>3, FromPrefix
<1> HIDE DEF more, N
<1>5. h[N + 1] = FromStep(w, more, h, N + 1)
  BY <1>1, <1>3 DEF FromIs
<1>6. FromStep(w, more, h, N + 1) = IF c[1] # w THEN h[N] ELSE Append(h[N], c)
  BY <1>1, Zenon DEF FromStep
<1> QED BY <1>2, <1>3, <1>4, <1>5, <1>6 DEF more

\* A sender's characters in their order, and what a new part adds to them.
Row(w, p) == [k \in 1 .. p |-> <<w, k>>]

\* A block grows by its next character.
LEMMA RowType ==
  ASSUME NEW w \in Senders, NEW p \in Nat, NEW n \in Nat
  PROVE  /\ Row(w, p) \in Seq(Cells) /\ Block(w, p, n) \in Seq(Cells)
         /\ Len(Block(w, p, n)) = n
         /\ Row(w, p + 1) = Append(Row(w, p), <<w, p + 1>>)
         /\ Block(w, p, n + 1) = Append(Block(w, p, n), <<w, p + n + 1>>)
<1>1. \A k \in Nat : <<w, k>> \in Cells
  BY DEF Cells
<1>2. Row(w, p) \in Seq(Cells) /\ Block(w, p, n) \in Seq(Cells) /\ Len(Block(w, p, n)) = n
  BY <1>1 DEF Row, Block
<1>3. Row(w, p + 1) = Append(Row(w, p), <<w, p + 1>>)
  BY DEF Row
<1>4. Block(w, p, n + 1) = Append(Block(w, p, n), <<w, p + n + 1>>)
  BY DEF Block
<1> QED BY <1>2, <1>3, <1>4

\* A character appended to the second of two sequences.
LEMMA AppendRight ==
  ASSUME NEW S, NEW s \in Seq(S), NEW t \in Seq(S), NEW c \in S
  PROVE  s \o Append(t, c) = Append(s \o t, c) /\ s \o t \in Seq(S) /\ s \o <<>> = s
OBVIOUS

\* A block given is added to what there was of its sender, and to no other.
LEMMA BlockGiven ==
  ASSUME NEW w \in Senders, NEW v \in Senders, NEW chars \in Seq(Cells), NEW p \in Nat,
         NEW n \in Nat
  PROVE  /\ v # w => From(v, chars \o Block(w, p, n)) = From(v, chars)
         /\ From(w, chars) = Row(w, p) => From(w, chars \o Block(w, p, n)) = Row(w, p + n)
<1> DEFINE More(m) == chars \o Block(w, p, m)
           T == {m \in Nat : /\ v # w => From(v, More(m)) = From(v, chars)
                             /\ From(w, chars) = Row(w, p) => From(w, More(m)) = Row(w, p + m)}
<1>1. 0 \in T
  <2>1. Block(w, p, 0) = <<>>
    BY DEF Block
  <2>2. More(0) = chars
    BY <2>1
  <2> HIDE DEF More
  <2>3. p + 0 = p
    OBVIOUS
  <2> QED BY <2>2, <2>3
<1>2. ASSUME NEW m \in Nat, m \in T
      PROVE  m + 1 \in T
  <2> DEFINE c == <<w, p + m + 1>>
  <2>1. c \in Cells /\ c[1] = w
    BY DEF Cells
  <2>2. /\ Block(w, p, m) \in Seq(Cells)
        /\ Block(w, p, m + 1) = Append(Block(w, p, m), c)
    BY RowType
  <2>3. p + m \in Nat /\ p + (m + 1) = (p + m) + 1 /\ m + 1 \in Nat
    OBVIOUS
  <2>4. Row(w, p + (m + 1)) = Append(Row(w, p + m), c)
    BY <2>3, RowType, ZenonT(40)
  <2> HIDE DEF c
  <2>5. More(m + 1) = Append(More(m), c) /\ More(m) \in Seq(Cells)
    <3> DEFINE S == Cells
               t == Block(w, p, m)
    <3>1. S = Cells /\ t \in Seq(S) /\ chars \in Seq(S) /\ c \in S
      BY <2>1, <2>2
    <3> HIDE DEF S, t
    <3>2. chars \o Append(t, c) = Append(chars \o t, c) /\ chars \o t \in Seq(S)
      BY <3>1, AppendRight
    <3> QED BY <2>2, <3>1, <3>2 DEF t
  <2> HIDE DEF More
  <2>6. From(w, More(m + 1)) = Append(From(w, More(m)), c)
    BY <2>1, <2>5, FromMore
  <2>7. v # w => From(v, More(m + 1)) = From(v, More(m))
    <3>1. ASSUME v # w
          PROVE  c[1] # v
      BY <2>1, <3>1
    <3>2. c[1] # v => From(v, Append(More(m), c)) = From(v, More(m))
      BY <2>1, <2>5, FromMore
    <3> QED BY <2>5, <3>1, <3>2
  <2> QED BY <1>2, <2>3, <2>4, <2>6, <2>7
<1> HIDE DEF T
<1>3. n \in T
  BY <1>1, <1>2, Induction
<1> QED BY <1>3 DEF T

----------------------------------------------------------------------------
\* The pieces of a text.
CutStep(text, f, k) == IF k = 0 THEN [lengths |-> <<>>, run |-> 0] ELSE CutAt(f[k - 1], text[k])
CutIs(text, f) == f = [k \in 0 .. Len(text) |-> CutStep(text, f, k)]

\* The function by which consolePrint is defined exists,
LEMMA CutExists ==
  ASSUME NEW text, Len(text) \in Nat
  PROVE  \E f : CutIs(text, f)
<1> DEFINE N == Len(text)
           S == [lengths : Seq(Nat), run : Nat]
           a == [lengths |-> <<>>, run |-> 0]
           g == [p \in S \X (1 .. N) |-> CutAt(p[1], text[p[2]])]
<1>1. a \in S
  OBVIOUS
<1>2. ASSUME NEW cut \in S, NEW c
      PROVE  CutAt(cut, c) \in S
  <2>1. cut.lengths \in Seq(Nat) /\ cut.run \in Nat
    OBVIOUS
  <2>2. Flushed(cut) \in Seq(Nat)
    BY <2>1 DEF Flushed
  <2>3. CASE c = "nl"
    <3>1. CutAt(cut, c) = [lengths |-> Append(Flushed(cut), 2), run |-> 0]
      BY <2>3 DEF CutAt
    <3>2. Append(Flushed(cut), 2) \in Seq(Nat)
      BY <2>2
    <3> QED BY <3>1, <3>2
  <2>4. CASE c # "nl"
    BY <2>1, <2>4 DEF CutAt
  <2> QED BY <2>3, <2>4
<1> HIDE DEF S
<1>3. g \in [S \X (1 .. N) -> S]
  BY <1>2
<1> HIDE DEF a, g, N
<1>4. PICK f : Defined(f, S, a, N, g)
  BY <1>1, <1>3, Recursion DEF N
<1>5. ASSUME NEW k \in 0 .. N
      PROVE  f[k] = CutStep(text, f, k)
  <2>1. CASE k = 0
    BY <1>4, <2>1 DEF Defined, CutStep, a
  <2>2. CASE k # 0
    <3>1. k \in 1 .. N /\ f[k - 1] \in S
      BY <1>4, <2>2 DEF Defined, N
    <3>2. f[k] = g[<<f[k - 1], k>>]
      BY <1>4, <3>1 DEF Defined
    <3>3. g[<<f[k - 1], k>>] = CutAt(f[k - 1], text[k])
      BY <3>1 DEF g
    <3> QED BY <2>2, <3>2, <3>3 DEF CutStep
  <2> QED BY <2>1, <2>2
<1>6. f = [k \in 0 .. N |-> CutStep(text, f, k)]
  BY <1>4, <1>5 DEF Defined
<1> QED BY <1>6 DEF CutIs, N

\* ... and what it says of a text is what CutAt says, character by character.
LEMMA CutLast ==
  ASSUME NEW text, Len(text) \in Nat
  PROVE  \E f : CutIs(text, f) /\ consolePrint(text) = Flushed(f[Len(text)])
<1> DEFINE cut == CHOOSE f : f = [k \in 0 .. Len(text) |-> CutStep(text, f, k)]
<1>1. CutIs(text, cut)
  BY CutExists DEF CutIs
<1>2. consolePrint(text) = Flushed(cut[Len(text)])
  BY DEF consolePrint, CutStep
<1> QED BY <1>1, <1>2

\* Every piece fits in the ring.
LEMMA PiecesFit ==
  ASSUME NEW text \in Seq({"x", "nl"}), \A i \in 1 .. Len(text) - OutSize : LineEnds(text, i)
  PROVE  consolePrint(text) \in Pieces
<1> DEFINE N == Len(text)
<1>1. N \in Nat /\ OutSize \in Nat /\ 2 <= OutSize
  BY SizesAssumption
<1>2. PICK f : CutIs(text, f) /\ consolePrint(text) = Flushed(f[N])
  BY <1>1, CutLast
<1> DEFINE Good(k) == /\ f[k] \in [lengths : Pieces, run : 0 .. OutSize]
                      /\ f[k].run <= k
                      /\ \A j \in (k - f[k].run) + 1 .. k : text[j] # "nl"
           T == {k \in Nat : k <= N => Good(k)}
<1>3. \A k \in 0 .. N : f[k] = CutStep(text, f, k)
  BY <1>2 DEF CutIs
<1>4. 0 \in T
  <2>1. f[0] = [lengths |-> <<>>, run |-> 0]
    BY <1>1, <1>3 DEF CutStep
  <2>2. <<>> \in Pieces
    BY DEF Pieces
  <2> QED BY <1>1, <2>1, <2>2
<1>5. ASSUME NEW cut \in [lengths : Pieces, run : 0 .. OutSize]
      PROVE  Flushed(cut) \in Pieces
  <2>1. cut.lengths \in Seq(1 .. OutSize) /\ cut.run \in 0 .. OutSize
    BY DEF Pieces
  <2>2. cut.run # 0 => Append(cut.lengths, cut.run) \in Seq(1 .. OutSize)
    BY <1>1, <2>1
  <2> QED BY <2>1, <2>2 DEF Flushed, Pieces
<1>6. ASSUME NEW k \in Nat, k \in T
      PROVE  k + 1 \in T
  <2>1. SUFFICES ASSUME k + 1 <= N
                 PROVE  Good(k + 1)
    OBVIOUS
  <2>2. Good(k) /\ k + 1 \in 0 .. N /\ k + 1 \in 1 .. N /\ k + 1 # 0 /\ (k + 1) - 1 = k
    BY <1>1, <1>6, <2>1
  <2>3. f[k + 1] = CutAt(f[k], text[k + 1])
    BY <1>3, <2>2 DEF CutStep
  <2> DEFINE run == f[k].run
  <2>4. run \in 0 .. OutSize /\ f[k].lengths \in Pieces
    BY <2>2
  <2>5. CASE text[k + 1] = "nl"
    <3>1. f[k + 1] = [lengths |-> Append(Flushed(f[k]), 2), run |-> 0]
      BY <2>3, <2>5 DEF CutAt
    <3>2. Append(Flushed(f[k]), 2) \in Pieces
      BY <1>1, <1>5, <2>2 DEF Pieces
    <3> QED BY <1>1, <2>2, <3>1, <3>2
  <2>6. CASE text[k + 1] # "nl"
    <3>1. f[k + 1] = [f[k] EXCEPT !.run = @ + 1]
      BY <2>3, <2>6 DEF CutAt
    <3>2. f[k + 1] = [lengths |-> f[k].lengths, run |-> run + 1]
      BY <2>2, <3>1
    <3>3. ASSUME NEW j \in (k - run) + 1 .. k + 1
          PROVE  text[j] # "nl"
      BY <2>2, <2>4, <2>6
    <3>4. run # OutSize
      <4>1. SUFFICES ASSUME run = OutSize
                     PROVE  FALSE
        OBVIOUS
      <4> DEFINE i == (k - OutSize) + 1
      <4>2. i \in 1 .. N - OutSize
        BY <1>1, <2>1, <2>2, <4>1
      <4>3. PICK j \in i .. i + OutSize : text[j] = "nl"
        BY <4>2 DEF LineEnds
      <4>4. j \in (k - run) + 1 .. k + 1
        BY <1>1, <4>1, <4>2, <4>3
      <4> QED BY <3>3, <4>3, <4>4
    <3>5. run + 1 \in 0 .. OutSize /\ run + 1 <= k + 1 /\ (k + 1) - (run + 1) = k - run
      BY <1>1, <2>2, <2>4, <3>4
    <3> QED BY <2>4, <3>2, <3>3, <3>5
  <2> QED BY <2>5, <2>6
<1> HIDE DEF T
<1>7. N \in T
  BY <1>1, <1>4, <1>6, Induction
<1>8. Good(N)
  BY <1>1, <1>7 DEF T
<1> QED BY <1>2, <1>5, <1>8

\* The echo of a character is of one piece or two.
LEMMA EchoPieces ==
  ASSUME NEW c \in Chars
  PROVE  /\ consolePrint(Echo(c)) \in Echoes
         /\ Total(consolePrint(Echo(c))) <= 3 /\ Total(consolePrint(Echo(c))) \in Nat
<1>1. ASSUME NEW text, Len(text) \in Nat
      PROVE  \E f : /\ consolePrint(text) = Flushed(f[Len(text)])
                    /\ f[0] = [lengths |-> <<>>, run |-> 0]
                    /\ \A k \in 1 .. Len(text) : f[k] = CutAt(f[k - 1], text[k])
  <2>1. PICK f : CutIs(text, f) /\ consolePrint(text) = Flushed(f[Len(text)])
    BY <1>1, CutLast
  <2>2. \A k \in 0 .. Len(text) : f[k] = CutStep(text, f, k)
    BY <2>1 DEF CutIs
  <2> QED BY <1>1, <2>1, <2>2 DEF CutStep
<1>2. consolePrint(<<>>) = <<>>
  BY <1>1 DEF Flushed
<1>3. consolePrint(<<"x">>) = <<1>>
  <2> DEFINE t == <<"x">>
  <2>1. Len(t) = 1 /\ t[1] = "x"
    OBVIOUS
  <2> HIDE DEF t
  <2>2. PICK f : /\ consolePrint(t) = Flushed(f[1])
                 /\ f[0] = [lengths |-> <<>>, run |-> 0] /\ f[1] = CutAt(f[0], t[1])
    BY <1>1, <2>1
  <2>3. f[1] = [lengths |-> <<>>, run |-> 1]
    BY <2>1, <2>2 DEF CutAt
  <2>4. Flushed(f[1]) = <<1>>
    BY <2>3 DEF Flushed
  <2> QED BY <2>2, <2>4 DEF t
<1>4. consolePrint(<<"x", "nl">>) = <<1, 2>>
  <2> DEFINE t == <<"x", "nl">>
  <2>1. Len(t) = 2 /\ t[1] = "x" /\ t[2] = "nl"
    OBVIOUS
  <2> HIDE DEF t
  <2>2. PICK f : /\ consolePrint(t) = Flushed(f[2]) /\ f[0] = [lengths |-> <<>>, run |-> 0]
                 /\ f[1] = CutAt(f[0], t[1]) /\ f[2] = CutAt(f[1], t[2])
    <3>1. Len(t) \in Nat /\ 1 \in 1 .. Len(t) /\ 2 \in 1 .. Len(t) /\ 1 - 1 = 0 /\ 2 - 1 = 1
      BY <2>1
    <3>2. PICK f : /\ consolePrint(t) = Flushed(f[Len(t)]) /\ f[0] = [lengths |-> <<>>, run |-> 0]
                   /\ \A k \in 1 .. Len(t) : f[k] = CutAt(f[k - 1], t[k])
      BY <1>1, <3>1
    <3>3. f[1] = CutAt(f[0], t[1]) /\ f[2] = CutAt(f[1], t[2])
      BY <3>1, <3>2
    <3> QED BY <2>1, <3>2, <3>3
  <2>3. f[1] = [lengths |-> <<>>, run |-> 1]
    BY <2>1, <2>2 DEF CutAt
  <2>4. f[2] = [lengths |-> <<1, 2>>, run |-> 0]
    BY <2>1, <2>2, <2>3 DEF CutAt, Flushed
  <2>5. Flushed(f[2]) = <<1, 2>>
    BY <2>4 DEF Flushed
  <2> QED BY <2>2, <2>5 DEF t
<1>5. /\ c = "a" => Echo(c) = <<"x">>
      /\ c = "cr" => Echo(c) = <<"x", "nl">>
      /\ c = "nul" => Echo(c) = <<>>
  BY DEF Echo
<1>6. Total(<<>>) = 0 /\ Total(<<1>>) = 1 /\ Total(<<1, 2>>) = 3
  BY DEF Total
<1> QED BY <1>2, <1>3, <1>4, <1>5, <1>6 DEF Chars, Echoes

----------------------------------------------------------------------------
\* A ring is a queue: its cells in use are a sequence, ...
LEMMA SegmentType ==
  ASSUME NEW S, NEW n \in Int, NEW ring \in [0 .. n - 1 -> S], NEW idx \in Index, NEW k \in Nat,
         n > 0
  PROVE  Segment(ring, n, idx, k) \in Seq(S) /\ Len(Segment(ring, n, idx, k)) = k
<1>1. \A i \in 1 .. k : (idx + i - 1) % n \in 0 .. n - 1
  <2> TAKE i \in 1 .. k
  <2>1. idx + i - 1 \in Int
    BY DEF Index
  <2> HIDE DEF Index
  <2> QED BY <2>1, DivMod
<1>2. \A i \in 1 .. k : ring[(idx + i - 1) % n] \in S
  BY <1>1
<1>3. Segment(ring, n, idx, k) = [i \in 1 .. k |-> ring[(idx + i - 1) % n]]
  BY DEF Segment
<1> QED BY <1>2, <1>3

\* ... that falls into parts,
LEMMA SegmentSplit ==
  ASSUME NEW ring, NEW n \in Int, NEW idx \in Index, NEW a \in Nat, NEW b \in Nat,
         n > 0, IdxMod % n = 0
  PROVE  Segment(ring, n, idx, a + b)
           = Segment(ring, n, idx, a) \o Segment(ring, n, Advance(idx, a), b)
<1> DEFINE s == Segment(ring, n, idx, a)
           t == Segment(ring, n, Advance(idx, a), b)
           u == Segment(ring, n, idx, a + b)
<1>1. s = [i \in 1 .. a |-> ring[(idx + i - 1) % n]]
  BY DEF Segment
<1>2. t = [i \in 1 .. b |-> ring[(Advance(idx, a) + i - 1) % n]]
  BY DEF Segment
<1>3. u = [i \in 1 .. a + b |-> ring[(idx + i - 1) % n]]
  BY DEF Segment
<1>4. \A i \in 1 .. b : (Advance(idx, a) + i - 1) % n = (idx + (a + i) - 1) % n
  <2> TAKE i \in 1 .. b
  <2>1. i - 1 \in Nat /\ idx \in Int
    BY DEF Index
  <2>2. (Advance(idx, a) + (i - 1)) % n = (idx + a + (i - 1)) % n
    BY <2>1, CellOf
  <2>3. Advance(idx, a) \in Int
    BY <2>1, AdvanceType DEF Index
  <2>4. Advance(idx, a) + (i - 1) = Advance(idx, a) + i - 1 /\ idx + a + (i - 1) = idx + (a + i) - 1
    BY <2>1, <2>3
  <2> QED BY <2>2, <2>4
<1>5. t = [i \in 1 .. b |-> ring[(idx + (a + i) - 1) % n]]
  BY <1>2, <1>4
<1> HIDE DEF s, t, u
<1> DEFINE g == [i \in 1 .. a + b |-> ring[(idx + i - 1) % n]]
<1>6. s = [i \in 1 .. a |-> g[i]] /\ t = [i \in 1 .. b |-> g[a + i]]
  BY <1>1, <1>5
<1>7. DOMAIN g = 1 .. a + b /\ u = [i \in 1 .. a + b |-> g[i]]
  BY <1>3
<1> HIDE DEF g
<1>8. u = s \o t
  BY <1>6, <1>7
<1> QED BY <1>8 DEF s, t, u

Parts(ring, n, idx, a, b, all) == Segment(ring, n, idx, all)
                                    = Segment(ring, n, idx, a) \o Segment(ring, n, Advance(idx, a), b)

\* The same, as a fact about a ring and five numbers.
LEMMA SegmentParts ==
  ASSUME NEW ring, NEW n \in Int, NEW idx \in Index, NEW a \in Nat, NEW b \in Nat, NEW all,
         n > 0, IdxMod % n = 0, all = a + b
  PROVE  Parts(ring, n, idx, a, b, all)
<1>1. Segment(ring, n, idx, a + b) = Segment(ring, n, idx, a) \o Segment(ring, n, Advance(idx, a), b)
  BY SegmentSplit, ZenonT(40)
<1> QED BY <1>1 DEF Parts

\* ... to which the cell behind it is added,
Put(ring, i, c) == [ring EXCEPT ![i] = c]

\* A cell written at or behind the end leaves a segment, or lengthens it by one.
LEMMA SegmentMore ==
  ASSUME NEW n \in Int, NEW ring, NEW idx \in Index, NEW k \in Nat, NEW j \in Nat, NEW c,
         n > 0, IdxMod % n = 0, DOMAIN ring = 0 .. n - 1, k <= j, j < n
  PROVE  /\ Segment(Put(ring, Advance(idx, j) % n, c), n, idx, k) = Segment(ring, n, idx, k)
         /\ j = k => Segment(Put(ring, Advance(idx, j) % n, c), n, idx, k + 1)
                       = Append(Segment(ring, n, idx, k), c)
<1> DEFINE more == Put(ring, Advance(idx, j) % n, c)
           cell(i) == (idx + i - 1) % n
<1>1. idx \in Int /\ k \in Nat /\ j \in Nat /\ k <= j /\ j < n
  BY DEF Index
<1>2. Advance(idx, j) % n = cell(j + 1)
  <2>1. (Advance(idx, j) + 0) % n = (idx + j + 0) % n
    BY <1>1, CellOf
  <2>2. Advance(idx, j) \in Int
    BY <1>1, AdvanceType DEF Index
  <2>3. Advance(idx, j) + 0 = Advance(idx, j) /\ idx + j + 0 = idx + (j + 1) - 1
    BY <1>1, <2>2
  <2> QED BY <2>1, <2>3
<1>3. ASSUME NEW i \in 1 .. n
      PROVE  cell(i) \in 0 .. n - 1 /\ (i # j + 1 => cell(i) # cell(j + 1))
  <2>1. i - 1 \in 0 .. n - 1 /\ j \in 0 .. n - 1 /\ idx + (i - 1) = idx + i - 1 /\ idx + j = idx + (j + 1) - 1
    BY <1>1
  <2>2. (idx + (i - 1)) % n = (idx + j) % n => i - 1 = j
    BY <2>1, CellsDiffer
  <2>3. idx + i - 1 \in Int
    BY <1>1
  <2>4. cell(i) \in 0 .. n - 1
    BY <2>3, DivMod
  <2> QED BY <1>1, <2>1, <2>2, <2>4
<1> HIDE DEF cell
<1>4. ASSUME NEW i \in 1 .. n
      PROVE  /\ i # j + 1 => more[cell(i)] = ring[cell(i)]
             /\ i = j + 1 => more[cell(i)] = c
  BY <1>2, <1>3 DEF Put
<1> HIDE DEF more
<1>5. Segment(ring, n, idx, k) = [i \in 1 .. k |-> ring[cell(i)]]
  BY DEF Segment, cell
<1>6. /\ Segment(more, n, idx, k) = [i \in 1 .. k |-> more[cell(i)]]
      /\ Segment(more, n, idx, k + 1) = [i \in 1 .. k + 1 |-> more[cell(i)]]
  BY DEF Segment, cell
<1>7. \A i \in 1 .. k : more[cell(i)] = ring[cell(i)]
  BY <1>1, <1>4
<1>8. Segment(more, n, idx, k) = Segment(ring, n, idx, k)
  <2>1. [i \in 1 .. k |-> more[cell(i)]] = [i \in 1 .. k |-> ring[cell(i)]]
    BY <1>7
  <2> QED BY <1>5, <1>6, <2>1, Zenon
<1>9. ASSUME j = k
      PROVE  Segment(more, n, idx, k + 1) = Append(Segment(ring, n, idx, k), c)
  <2>1. more[cell(k + 1)] = c
    BY <1>1, <1>4, <1>9
  <2>2. Segment(more, n, idx, k + 1) = [i \in 1 .. k + 1 |-> more[cell(i)]]
    BY <1>6, Zenon
  <2>3. ASSUME NEW f, NEW g, f = [i \in 1 .. k |-> ring[cell(i)]], g = [i \in 1 .. k + 1 |-> more[cell(i)]]
        PROVE  g = Append(f, c)
    <3>1. Len(f) = k /\ \A i \in 1 .. k : g[i] = f[i]
      BY <1>1, <1>7, <2>3
    <3>2. g[k + 1] = c /\ g = [i \in 1 .. k + 1 |-> g[i]]
      BY <1>1, <2>1, <2>3
    <3>3. Append(f, c) = [i \in 1 .. k + 1 |-> IF i = k + 1 THEN c ELSE f[i]]
      BY <1>1, <2>3, <3>1
    <3> HIDE DEF Index
    <3>4. ASSUME NEW i \in 1 .. k + 1
          PROVE  g[i] = IF i = k + 1 THEN c ELSE f[i]
      <4>1. i # k + 1 => i \in 1 .. k
        BY <1>1
      <4> QED BY <3>1, <3>2, <4>1
    <3> QED BY <3>2, <3>3, <3>4
  <2> QED BY <1>5, <2>2, <2>3
<1> QED BY <1>8, <1>9 DEF more

\* ... and the first is taken away.
LEMMA SegmentFirst ==
  ASSUME NEW ring, NEW n \in Int, NEW idx \in Index, NEW k \in Nat, n > 0, IdxMod % n = 0
  PROVE  Segment(ring, n, idx, k + 1) = <<ring[idx % n]>> \o Segment(ring, n, Advance(idx, 1), k)
<1>1. k + 1 = 1 + k
  OBVIOUS
<1>2. Segment(ring, n, idx, 1 + k) = Segment(ring, n, idx, 1) \o Segment(ring, n, Advance(idx, 1), k)
  <2> DEFINE a == 1
  <2>1. a \in Nat
    OBVIOUS
  <2> HIDE DEF a
  <2>2. Segment(ring, n, idx, a + k) = Segment(ring, n, idx, a) \o Segment(ring, n, Advance(idx, a), k)
    BY <2>1, SegmentSplit, ZenonT(40)
  <2> QED BY <2>2 DEF a
<1>3. Segment(ring, n, idx, 1) = <<ring[idx % n]>>
  <2>1. idx + 1 - 1 = idx
    BY DEF Index
  <2> QED BY <2>1 DEF Segment
<1> QED BY <1>1, <1>2, <1>3

----------------------------------------------------------------------------
\* What the assumptions say of the sizes.
LEMMA Sizes == /\ IdxMod \in Int /\ IdxMod > 0
               /\ OutSize \in Int /\ OutSize > 1 /\ 4 * OutSize <= IdxMod /\ IdxMod % OutSize = 0
               /\ InSize \in Int /\ InSize > 0 /\ 4 * InSize <= IdxMod /\ IdxMod % InSize = 0
               /\ MaxTyped \in Nat
BY IdxModAssumption, SizesAssumption, BoundsAssumption

\* The number of cells in use is less than the range of the indices.
LEMMA UsedNat ==
  ASSUME NEW prod \in Index, NEW cons \in Index
  PROVE  Used(prod, cons) \in Nat /\ Used(prod, cons) < IdxMod
<1>1. Used(prod, cons) \in Index
  BY AdvanceUsed
<1> QED BY <1>1, Sizes DEF Index

\* The room is never negative, and it is what the cells in use leave unless the
\* copy of the daemon's index is half the range of indices old.
LEMMA RoomLeft ==
  ASSUME NEW prod \in Index, NEW cons \in Index
  PROVE  LET used == Used(prod, cons)
         IN  /\ Room(prod, cons) \in Nat
             /\ used <= OutSize => Room(prod, cons) = OutSize - used
             /\ used > OutSize /\ 2 * used < IdxMod => Room(prod, cons) = 0
<1> DEFINE used == Used(prod, cons)
<1>1. used \in Index
  BY AdvanceUsed
<1> HIDE DEF used
<1>2. used \in Nat /\ used < IdxMod
  BY <1>1, Sizes DEF Index
<1>3. Room(prod, cons) = IF used <= OutSize THEN OutSize - used
                         ELSE IF 2 * used < IdxMod THEN 0 ELSE OutSize + IdxMod - used
  BY DEF Room, used
<1> QED BY <1>2, <1>3, Sizes DEF used

\* The calls.
LEMMA HeadTail ==
  ASSUME NEW S, NEW p \in Seq(S), p # <<>>
  PROVE  Head(p) \in S /\ Tail(p) \in Seq(S)
<1>1. Len(p) \in Nat /\ Len(p) # 0 /\ p[1] \in S /\ Head(p) = p[1]
  OBVIOUS
<1>2. Tail(p) \in Seq(S)
  BY <1>1
<1> QED BY <1>1, <1>2

\* A call that begins, or goes on with its next piece, has the shape of one.
LEMMA NewCall ==
  ASSUME NEW pieces \in Pieces, NEW made \in Nat
  PROVE  CallShape(Call(pieces, made))
<1> DEFINE s == Call(pieces, made)
<1>1. s = [pc |-> IF pieces = <<>> THEN "off" ELSE "cons", todo |-> pieces, sent |-> 0,
           cons |-> 0, prod |-> 0, left |-> 0, made |-> made]
  BY DEF Call
<1>2. 0 \in Index /\ 0 \in 0 .. OutSize
  BY Sizes DEF Index
<1>3. s \in Calls
  BY <1>1, <1>2 DEF Calls
<1>4. pieces # <<>> => 0 < Head(pieces)
  <2>1. SUFFICES ASSUME pieces # <<>>
                 PROVE  0 < Head(pieces)
    OBVIOUS
  <2>2. Head(pieces) \in 1 .. OutSize
    BY <2>1, HeadTail DEF Pieces
  <2> QED BY <2>2, Sizes
<1> QED BY <1>1, <1>3, <1>4 DEF CallShape

\* The call of one sender changes.
LEMMA OneCall ==
  ASSUME NEW w \in Senders, NEW s, send \in [Senders -> Calls],
         \A v \in Senders : CallShape(send[v]), CallShape(s), send' = [send EXCEPT ![w] = s]
  PROVE  send' \in [Senders -> Calls] /\ \A v \in Senders : CallShape(send'[v])
<1>1. s \in Calls
  BY DEF CallShape
<1> QED BY <1>1

\* What is left of a call: a piece of which no more than its length is sent.
LEMMA HeadLeft ==
  ASSUME NEW s, CallShape(s), s.pc # "off"
  PROVE  /\ Head(s.todo) \in 1 .. OutSize /\ Tail(s.todo) \in Pieces
         /\ s.sent <= Head(s.todo) /\ s.sent \in Nat /\ s.made \in Nat /\ s.left \in 0 .. OutSize
         /\ s.cons \in Index /\ s.prod \in Index /\ s.todo \in Pieces
<1>1. /\ s.todo \in Pieces /\ s.todo # <<>> /\ s.sent \in Nat /\ s.made \in Nat
      /\ s.left \in 0 .. OutSize /\ s.cons \in Index /\ s.prod \in Index
  BY DEF CallShape, Calls
<1>2. Head(s.todo) \in 1 .. OutSize /\ Tail(s.todo) \in Pieces
  BY <1>1, HeadTail DEF Pieces
<1>3. s.pc \in {"off", "cons", "prod", "copy", "publish"}
  BY DEF CallShape, Calls
<1>4. s.pc = "copy" => s.left \in Nat
  BY <1>1, Sizes
<1>5. s.sent <= Head(s.todo)
  BY <1>1, <1>2, <1>3, <1>4, Sizes DEF CallShape
<1> QED BY <1>1, <1>2, <1>5

\* What each step of a call makes of it.
Read(s)     == [s EXCEPT !.cons = out_cons, !.pc = "prod"]
Begun(s)    == [s EXCEPT !.pc = "copy", !.prod = out_prod,
                         !.left = Smaller(Room(out_prod, s.cons), Head(s.todo) - s.sent)]
Copied(s)   == [s EXCEPT !.prod = Advance(s.prod, 1), !.sent = s.sent + 1, !.made = s.made + 1,
                         !.left = s.left - 1, !.pc = IF s.left = 1 THEN "publish" ELSE "copy"]
Stored(s)   == IF s.sent = Head(s.todo) THEN Call(Tail(s.todo), s.made)
               ELSE [s EXCEPT !.pc = "cons"]

\* The steps of a sender, the steps that send.
LEMMA Sends ==
  ASSUME Shapes, NEW w \in Senders
  PROVE  /\ ReadCons(w) => /\ send[w].pc = "cons"
                           /\ send' = [send EXCEPT ![w] = Read(send[w])]
         /\ ReadProd(w) => /\ send[w].pc = "prod"
                           /\ Room(out_prod, send[w].cons) = 0 =>
                                send' = [send EXCEPT ![w] = [send[w] EXCEPT !.pc = "cons"]]
                           /\ Room(out_prod, send[w].cons) # 0 =>
                                send' = [send EXCEPT ![w] = Begun(send[w])]
         /\ Copy(w) => /\ send[w].pc = "copy"
                       /\ send' = [send EXCEPT ![w] = Copied(send[w])]
         /\ Publish(w) => /\ send[w].pc = "publish"
                          /\ send' = [send EXCEPT ![w] = Stored(send[w])]
<1>1. send \in [Senders -> Calls] /\ send[w] \in Calls
  BY DEF Shapes
<1>2. ReadCons(w) => send' = [send EXCEPT ![w] = Read(send[w])]
  BY <1>1 DEF ReadCons, Read, Calls
<1>3. ReadProd(w) => /\ Room(out_prod, send[w].cons) = 0 =>
                          send' = [send EXCEPT ![w] = [send[w] EXCEPT !.pc = "cons"]]
                     /\ Room(out_prod, send[w].cons) # 0 =>
                          send' = [send EXCEPT ![w] = Begun(send[w])]
  BY <1>1 DEF ReadProd, Begun, Calls
<1>4. Copy(w) => send' = [send EXCEPT ![w] = Copied(send[w])]
  BY <1>1 DEF Copy, Copied, Calls
<1>5. Publish(w) => send' = [send EXCEPT ![w] = Stored(send[w])]
  BY <1>1 DEF Publish, Stored, Calls
<1>6. /\ ReadCons(w) => send[w].pc = "cons"
      /\ ReadProd(w) => send[w].pc = "prod"
      /\ Copy(w) => send[w].pc = "copy"
      /\ Publish(w) => send[w].pc = "publish"
  BY DEF ReadCons, ReadProd, Copy, Publish
<1> QED BY <1>2, <1>3, <1>4, <1>5, <1>6

\* Every step of a call leaves it the shape of one.
LEMMA CallSteps ==
  ASSUME NEW s, CallShape(s), out_cons \in Index, out_prod \in Index
  PROVE  /\ s.pc = "cons" => CallShape(Read(s))
         /\ s.pc = "prod" => CallShape([s EXCEPT !.pc = "cons"])
         /\ s.pc = "prod" /\ Room(out_prod, s.cons) # 0 => CallShape(Begun(s))
         /\ s.pc = "copy" => CallShape(Copied(s))
         /\ s.pc = "publish" => CallShape(Stored(s))
<1>1. s \in Calls
  BY DEF CallShape
<1>2. CASE s.pc = "cons"
  <2> DEFINE t == Read(s)
  <2>1. t \in Calls /\ t.pc = "prod" /\ t.todo = s.todo /\ t.sent = s.sent
    BY <1>1 DEF Read, Calls
  <2> HIDE DEF t
  <2>2. CallShape(t)
    BY <1>2, <2>1 DEF CallShape
  <2> QED BY <1>2, <2>2 DEF t
<1>3. CASE s.pc = "prod"
  <2> DEFINE t == [s EXCEPT !.pc = "cons"]
             u == Begun(s)
             room == Room(out_prod, s.cons)
             rest == Head(s.todo) - s.sent
  <2>1. t \in Calls /\ t.pc = "cons" /\ t.todo = s.todo /\ t.sent = s.sent
    BY <1>1 DEF Calls
  <2>2. CallShape(t)
    <3> HIDE DEF t
    <3> QED BY <1>3, <2>1 DEF CallShape
  <2>3. /\ Head(s.todo) \in 1 .. OutSize /\ s.sent \in Nat /\ s.cons \in Index
        /\ s.sent < Head(s.todo)
    BY <1>3, HeadLeft DEF CallShape
  <2>4. room \in Nat
    BY <2>3, RoomLeft
  <2>5. rest \in 1 .. OutSize
    BY <2>3, Sizes
  <2>6. ASSUME room # 0
        PROVE  Smaller(room, rest) \in 1 .. OutSize /\ Smaller(room, rest) <= rest
    BY <2>4, <2>5, <2>6, Sizes DEF Smaller
  <2>7. ASSUME room # 0
        PROVE  CallShape(u)
    <3>1. /\ u \in Calls /\ u.pc = "copy" /\ u.todo = s.todo /\ u.sent = s.sent
          /\ u.left = Smaller(room, rest)
      <4> DEFINE l == Smaller(room, rest)
      <4>1. l \in 0 .. OutSize
        BY <2>6, <2>7, Sizes
      <4>2. u = [s EXCEPT !.pc = "copy", !.prod = out_prod, !.left = l]
        BY DEF Begun
      <4> HIDE DEF l, u, room, rest
      <4> QED BY <1>1, <4>1, <4>2 DEF Calls, l
    <3>2. 1 <= u.left /\ u.sent + u.left <= Head(u.todo)
      BY <2>3, <2>5, <2>6, <2>7, <3>1, Sizes
    <3> HIDE DEF u, room, rest
    <3> QED BY <1>3, <3>1, <3>2 DEF CallShape
  <2> QED BY <1>3, <2>2, <2>7
<1>4. CASE s.pc = "copy"
  <2> DEFINE t == Copied(s)
  <2>1. /\ Head(s.todo) \in 1 .. OutSize /\ s.sent \in Nat /\ s.made \in Nat
        /\ s.left \in 0 .. OutSize /\ s.prod \in Index
        /\ 1 <= s.left /\ s.sent + s.left <= Head(s.todo)
    BY <1>4, HeadLeft DEF CallShape
  <2>2. Advance(s.prod, 1) \in Index
    <3> DEFINE one == 1
    <3>1. s.prod \in Int /\ one \in Int
      BY <2>1 DEF Index
    <3> HIDE DEF one
    <3>2. Advance(s.prod, one) \in Index
      BY <3>1, AdvanceType
    <3> QED BY <3>2 DEF one
  <2>3. s.left - 1 \in 0 .. OutSize /\ s.sent + 1 \in Nat /\ s.made + 1 \in Nat
    BY <2>1, Sizes
  <2>4. /\ t \in Calls /\ t.pc = (IF s.left = 1 THEN "publish" ELSE "copy") /\ t.todo = s.todo
        /\ t.sent = s.sent + 1 /\ t.left = s.left - 1
    BY <1>1, <2>2, <2>3 DEF Copied, Calls
  <2> HIDE DEF t
  <2>5. s.left \in Int /\ Head(t.todo) \in Int /\ Head(t.todo) = Head(s.todo)
    BY <2>1, <2>4, Sizes
  <2>6. t.todo # <<>>
    BY <1>4, <2>4 DEF CallShape
  <2>7. ASSUME s.left = 1
        PROVE  CallShape(t)
    <3>1. t.pc = "publish" /\ t.left = 0 /\ t.sent <= Head(t.todo)
      BY <2>1, <2>4, <2>5, <2>7
    <3> QED BY <2>4, <2>6, <3>1 DEF CallShape
  <2>8. ASSUME s.left # 1
        PROVE  CallShape(t)
    <3>1. t.pc = "copy" /\ 1 <= t.left /\ t.sent + t.left <= Head(t.todo)
      BY <2>1, <2>4, <2>5, <2>8
    <3> QED BY <2>4, <2>6, <3>1 DEF CallShape
  <2> QED BY <1>4, <2>7, <2>8 DEF t
<1>5. CASE s.pc = "publish"
  <2>1. Tail(s.todo) \in Pieces /\ s.made \in Nat /\ s.sent <= Head(s.todo) /\ s.sent \in Nat
        /\ Head(s.todo) \in 1 .. OutSize
    BY <1>5, HeadLeft
  <2>2. CASE s.sent = Head(s.todo)
    BY <1>5, <2>1, <2>2, NewCall DEF Stored
  <2>3. CASE s.sent # Head(s.todo)
    <3> DEFINE t == [s EXCEPT !.pc = "cons"]
    <3>1. t \in Calls /\ t.pc = "cons" /\ t.todo = s.todo /\ t.sent = s.sent
      BY <1>1 DEF Calls
    <3> HIDE DEF t
    <3>2. t.sent < Head(t.todo)
      BY <2>1, <2>3, <3>1
    <3>3. CallShape(t)
      BY <1>5, <3>1, <3>2 DEF CallShape
    <3> QED BY <1>5, <2>3, <3>3 DEF Stored, t
  <2> QED BY <2>2, <2>3
<1>6. s.pc \in {"off", "cons", "prod", "copy", "publish"}
  BY <1>1 DEF Calls
<1> QED BY <1>2, <1>3, <1>4, <1>5, <1>6

----------------------------------------------------------------------------
\* The steps, each by its name.
LEMMA Steps ==
  ASSUME [Next]_vars
  PROVE  \/ \E text \in Texts : Begin(text)
         \/ InitBind \/ InitFlushed
         \/ \E w \in Senders : ReadCons(w) \/ ReadProd(w) \/ Copy(w) \/ Publish(w)
         \/ Deliver \/ TakeChar \/ EndInput \/ Clear
         \/ DaemonWake \/ DaemonShow \/ \E c \in {"a", "cr"} : DaemonType(c)
         \/ UNCHANGED vars
<1>1. "thread" \in Senders /\ "handler" \in Senders
  BY DEF Senders
<1>2. \A w \in Senders : Send(w) => ReadCons(w) \/ ReadProd(w) \/ Copy(w) \/ Publish(w)
  BY DEF Send
<1>3. Thread \/ Upcall => \/ InitFlushed \/ Deliver \/ TakeChar \/ EndInput \/ Clear
                          \/ \E w \in Senders : ReadCons(w) \/ ReadProd(w) \/ Copy(w) \/ Publish(w)
  BY <1>1, <1>2, Zenon DEF Thread, Upcall
<1> QED BY <1>3, Zenon DEF Next

\* A cell is written, a character appended.
LEMMA Written ==
  ASSUME NEW S, NEW n \in Int, NEW ring \in [0 .. n - 1 -> S], NEW idx \in Index, NEW c \in S, n > 0
  PROVE  idx % n \in 0 .. n - 1 /\ [ring EXCEPT ![idx % n] = c] \in [0 .. n - 1 -> S]
<1>1. idx % n \in 0 .. n - 1
  <2>1. idx \in Int
    BY DEF Index
  <2> QED BY <2>1, DivMod
<1> QED BY <1>1

\* An index moved by one is an index.
LEMMA OneOn ==
  ASSUME NEW idx \in Index
  PROVE  Advance(idx, 1) \in Index
<1> DEFINE one == 1
<1>1. idx \in Int /\ one \in Int
  BY DEF Index
<1> HIDE DEF one
<1>2. Advance(idx, one) \in Index
  BY <1>1, AdvanceType
<1> QED BY <1>2 DEF one

\* The types hold before consoleInit,
LEMMA ShapesInit == Init => Shapes
<1> SUFFICES ASSUME Init
             PROVE  Shapes
  OBVIOUS
<1>1. /\ out_prod \in Index /\ out_cons \in Index /\ in_prod \in Index /\ in_cons \in Index
  BY StartAssumption DEF Init, Index
<1>2. /\ out \in [0 .. OutSize - 1 -> Cells] /\ in \in [0 .. InSize - 1 -> Chars]
  BY DEF Init, Cells, Chars
<1>3. send \in [Senders -> Calls] /\ \A w \in Senders : CallShape(send[w])
  <2>1. <<>> \in Pieces
    BY DEF Pieces
  <2>2. CallShape(Call(<<>>, 0))
    BY <2>1, NewCall
  <2>3. Call(<<>>, 0) \in Calls
    BY <2>2 DEF CallShape
  <2>4. send = [w \in Senders |-> Call(<<>>, 0)]
    BY DEF Init
  <2> QED BY <2>2, <2>3, <2>4
<1>4. 0 \in Index
  BY Sizes DEF Index
<1>5. /\ kern \in [pc : {"idle", "flush"}, prints : Nat]
      /\ initialized \in BOOLEAN /\ pend \in BOOLEAN /\ note \in BOOLEAN
      /\ cb \in [pc : {"unbound", "off", "loop", "clear"}, cons : Index, prod : Index]
      /\ temp \in Seq(Chars) /\ typed \in Seq(Chars) /\ shown \in Seq(Cells)
      /\ daemon \in [awake : BOOLEAN, upto : Index]
      /\ published \in [Senders -> Nat]
      /\ broken \subseteq {"overtaken", "erased", "spilt", "late"}
  <2>1. /\ kern \in [pc : {"idle", "flush"}, prints : Nat]
        /\ initialized \in BOOLEAN /\ pend \in BOOLEAN /\ note \in BOOLEAN
    BY DEF Init
  <2>2. cb \in [pc : {"unbound", "off", "loop", "clear"}, cons : Index, prod : Index]
    <3>1. cb = [pc |-> "unbound", cons |-> 0, prod |-> 0]
      BY DEF Init
    <3> QED BY <1>4, <3>1
  <2>3. temp \in Seq(Chars) /\ typed \in Seq(Chars) /\ shown \in Seq(Cells)
    BY DEF Init
  <2>4. daemon \in [awake : BOOLEAN, upto : Index]
    BY <1>4 DEF Init
  <2>5. published \in [Senders -> Nat] /\ broken \subseteq {"overtaken", "erased", "spilt", "late"}
    BY DEF Init
  <2> QED BY <2>1, <2>2, <2>3, <2>4, <2>5
<1> QED BY <1>1, <1>2, <1>3, <1>5 DEF Shapes

\* What lies in the output ring is a sequence of cells.
LEMMA BetweenIs ==
  ASSUME Shapes, NEW cons \in Index, NEW prod \in Index
  PROVE  /\ Used(prod, cons) \in Nat
         /\ Between(cons, prod) = Segment(out, OutSize, cons, Used(prod, cons))
         /\ Between(cons, prod) \in Seq(Cells)
<1>1. Used(prod, cons) \in Nat
  BY AdvanceUsed, Sizes DEF Index
<1>2. Between(cons, prod) = Segment(out, OutSize, cons, Used(prod, cons))
  BY DEF Between, Segment
<1>3. Segment(out, OutSize, cons, Used(prod, cons)) \in Seq(Cells)
  BY <1>1, SegmentType, Sizes DEF Shapes
<1> QED BY <1>1, <1>2, <1>3

\* An echo fits in the ring.
LEMMA EchoFits == Echoes \subseteq Pieces
<1>1. 1 \in 1 .. OutSize /\ 2 \in 1 .. OutSize
  BY Sizes
<1> QED BY <1>1 DEF Echoes, Pieces

\* ... and after every step.
LEMMA ShapesStep ==
  ASSUME Shapes, [Next]_vars
  PROVE  Shapes'
<1> USE DEF Shapes
<1>1. ASSUME NEW text \in Texts, Begin(text)
      PROVE  Shapes'
  <2> DEFINE s == Call(consolePrint(text), send["thread"].made)
  <2>1. "thread" \in Senders /\ send["thread"].made \in Nat
    BY DEF Senders, Calls
  <2>2. consolePrint(text) \in Pieces
    BY PiecesFit, TextAssumption
  <2>3. CallShape(s)
    BY <2>1, <2>2, NewCall
  <2>4. send' = [send EXCEPT !["thread"] = s]
    BY <1>1 DEF Begin
  <2> HIDE DEF s
  <2>5. send' \in [Senders -> Calls] /\ \A v \in Senders : CallShape(send'[v])
    BY <2>1, <2>3, <2>4, OneCall
  <2>6. kern' \in [pc : {"idle", "flush"}, prints : Nat]
    <3>1. kern \in [pc : {"idle", "flush"}, prints : Nat] /\ kern' = [kern EXCEPT !.prints = @ + 1]
      BY <1>1 DEF Begin
    <3> HIDE DEF Shapes
    <3> QED BY <3>1
  <2> QED BY <1>1, <2>5, <2>6 DEF Begin, output, input, past
<1>2. CASE InitBind \/ InitFlushed \/ Clear \/ UNCHANGED vars
  <2>1. CASE InitBind
    BY <2>1 DEF InitBind, output, input, past
  <2>2. CASE InitFlushed
    BY <2>2 DEF InitFlushed, output, input, past
  <2>3. CASE Clear
    BY <2>3 DEF Clear, output, input, past
  <2>4. CASE UNCHANGED vars
    BY <2>4 DEF vars, output, input, past
  <2> QED BY <1>2, <2>1, <2>2, <2>3, <2>4
<1>3. ASSUME NEW w \in Senders, ReadCons(w)
      PROVE  Shapes'
  <2>1. send' \in [Senders -> Calls] /\ \A v \in Senders : CallShape(send'[v])
    BY <1>3, Sends, CallSteps, OneCall
  <2> QED BY <1>3, <2>1 DEF ReadCons, output, input, past
<1>4. ASSUME NEW w \in Senders, ReadProd(w)
      PROVE  Shapes'
  <2>1. CallShape(send[w]) /\ send[w].pc = "prod"
    BY <1>4, Sends
  <2>2. CallShape([send[w] EXCEPT !.pc = "cons"])
    BY <2>1, CallSteps
  <2>3. Room(out_prod, send[w].cons) # 0 => CallShape(Begun(send[w]))
    BY <2>1, CallSteps
  <2>4. send' \in [Senders -> Calls] /\ \A v \in Senders : CallShape(send'[v])
    BY <1>4, <2>2, <2>3, Sends, OneCall
  <2> QED BY <1>4, <2>4 DEF ReadProd, output, input, past
<1>5. ASSUME NEW w \in Senders, Copy(w)
      PROVE  Shapes'
  <2>1. CallShape(send[w]) /\ send[w].pc = "copy"
    BY <1>5, Sends
  <2>2. CallShape(Copied(send[w]))
    BY <2>1, CallSteps
  <2>3. send' \in [Senders -> Calls] /\ \A v \in Senders : CallShape(send'[v])
    BY <1>5, <2>2, Sends, OneCall
  <2>4. send[w].prod \in Index /\ <<w, send[w].made + 1>> \in Cells
    BY DEF Calls, Cells
  <2>5. out' = [out EXCEPT ![send[w].prod % OutSize] = <<w, send[w].made + 1>>]
    BY <1>5 DEF Copy
  <2>6. out' \in [0 .. OutSize - 1 -> Cells]
    BY <2>4, <2>5, Written, Sizes
  <2> QED BY <1>5, <2>3, <2>6 DEF Copy, input, past
<1>6. ASSUME NEW w \in Senders, Publish(w)
      PROVE  Shapes'
  <2>1. CallShape(send[w]) /\ send[w].pc = "publish"
    BY <1>6, Sends
  <2>2. CallShape(Stored(send[w]))
    BY <2>1, CallSteps
  <2>3. send' \in [Senders -> Calls] /\ \A v \in Senders : CallShape(send'[v])
    BY <1>6, <2>2, Sends, OneCall
  <2>4. /\ out_prod' \in Index /\ published' \in [Senders -> Nat]
        /\ broken' \subseteq {"overtaken", "erased", "spilt", "late"}
    BY <1>6 DEF Publish, Calls
  <2>5. note' \in BOOLEAN
    BY <1>6 DEF Publish
  <2> QED BY <1>6, <2>3, <2>4, <2>5 DEF Publish, input
<1>7. CASE Deliver
  BY <1>7 DEF Deliver, output, input, past
<1>8. CASE TakeChar
  <2> DEFINE i == cb.cons % InSize
             c == in[i]
             s == Call(consolePrint(Echo(c)), send["handler"].made)
  <2>1. "handler" \in Senders /\ send["handler"].made \in Nat /\ cb.cons \in Index
    BY DEF Senders, Calls
  <2>2. i \in 0 .. InSize - 1
    <3>1. cb.cons \in Int
      BY <2>1 DEF Index
    <3> QED BY <3>1, DivMod, Sizes
  <2>3. c \in Chars
    BY <2>2
  <2>4. in' \in [0 .. InSize - 1 -> Chars] /\ out' \in [0 .. OutSize - 1 -> Cells]
    <3>1. Terminate(i)
      BY <1>8 DEF TakeChar
    <3>2. "nul" \in Chars /\ <<"none", 0>> \in Cells
      BY DEF Chars, Cells
    <3> HIDE DEF i
    <3> QED BY <2>2, <3>1, <3>2, Sizes, ZenonT(40) DEF Terminate
  <2>5. broken' \subseteq {"overtaken", "erased", "spilt", "late"}
    BY <1>8 DEF TakeChar, Terminate
  <2> HIDE DEF i
  <2>6. temp' = Append(temp, c) /\ send' = [send EXCEPT !["handler"] = s]
    BY <1>8 DEF TakeChar, i
  <2>7. temp' \in Seq(Chars)
    BY <2>3, <2>6
  <2>8. CallShape(s)
    BY <2>1, <2>3, EchoPieces, EchoFits, NewCall
  <2> HIDE DEF s, c
  <2>9. send' \in [Senders -> Calls] /\ \A v \in Senders : CallShape(send'[v])
    BY <2>1, <2>6, <2>8, OneCall
  <2>10. cb' \in [pc : {"unbound", "off", "loop", "clear"}, cons : Index, prod : Index]
    BY <1>8, <2>1, OneOn DEF TakeChar
  <2> QED BY <1>8, <2>4, <2>5, <2>7, <2>9, <2>10 DEF TakeChar
<1>9. CASE EndInput
  BY <1>9 DEF EndInput, output, past
<1>10. CASE DaemonWake
  <2>1. daemon' \in [awake : BOOLEAN, upto : Index]
    <3> DEFINE sane == Used(out_prod, out_cons) \in 1 .. OutSize
    <3>1. daemon' = [awake |-> sane, upto |-> out_prod]
      BY <1>10 DEF DaemonWake
    <3>2. sane \in BOOLEAN
      OBVIOUS
    <3> HIDE DEF sane
    <3> QED BY <3>1, <3>2
  <2> QED BY <1>10, <2>1 DEF DaemonWake, output, input, past
<1>11. CASE DaemonShow
  <2>1. Between(out_cons, daemon.upto) \in Seq(Cells)
    BY BetweenIs
  <2>2. shown' \in Seq(Cells)
    BY <1>11, <2>1 DEF DaemonShow
  <2> QED BY <1>11, <2>2 DEF DaemonShow, input
<1>12. ASSUME NEW c \in {"a", "cr"}, DaemonType(c)
      PROVE  Shapes'
  <2>1. c \in Chars
    BY DEF Chars
  <2>2. in' = [in EXCEPT ![in_prod % InSize] = c] /\ in_prod' = Advance(in_prod, 1)
    BY <1>12 DEF DaemonType
  <2>3. in' \in [0 .. InSize - 1 -> Chars]
    BY <2>1, <2>2, Written, Sizes
  <2>4. in_prod' \in Index
    BY <2>2, OneOn
  <2>5. typed' \in Seq(Chars)
    BY <1>12, <2>1 DEF DaemonType
  <2> QED BY <1>12, <2>3, <2>4, <2>5 DEF DaemonType, output
<1> QED BY <1>1, <1>2, <1>3, <1>4, <1>5, <1>6, <1>7, <1>8, <1>9, <1>10, <1>11, <1>12, Steps, Zenon

----------------------------------------------------------------------------
\* Input.  What is waiting is a sequence of characters, one for each cell in use.
LEMMA WaitingIs ==
  ASSUME Shapes
  PROVE  /\ NextIn \in Index /\ Used(in_prod, NextIn) \in Nat
         /\ Advance(NextIn, Used(in_prod, NextIn)) = in_prod
         /\ Waiting = Segment(in, InSize, NextIn, Used(in_prod, NextIn))
         /\ Waiting \in Seq(Chars)
<1>1. NextIn \in Index /\ in_prod \in Index
  BY DEF Shapes, NextIn
<1>2. Used(in_prod, NextIn) \in Nat /\ Advance(NextIn, Used(in_prod, NextIn)) = in_prod
  BY <1>1, AdvanceUsed, Sizes DEF Index
<1>3. Waiting = Segment(in, InSize, NextIn, Used(in_prod, NextIn))
  BY DEF Waiting, Segment
<1>4. Segment(in, InSize, NextIn, Used(in_prod, NextIn)) \in Seq(Chars)
  BY <1>1, <1>2, SegmentType, Sizes DEF Shapes
<1> QED BY <1>1, <1>2, <1>3, <1>4

\* Nothing is typed before consoleInit.
LEMMA InputInit == Init => InputRoom /\ InputWhole
<1> SUFFICES ASSUME Init
             PROVE  InputRoom /\ InputWhole
  OBVIOUS
<1>1. Shapes
  BY ShapesInit
<1>2. cb.pc = "unbound" /\ in_cons \in Index /\ temp = <<>> /\ typed = <<>> /\ in_cons = in_prod
  <2>1. cb = [pc |-> "unbound", cons |-> 0, prod |-> 0]
    BY DEF Init
  <2> QED BY <1>1, <2>1 DEF Init, Shapes
<1>3. NextIn = in_cons /\ Used(in_prod, in_cons) = 0
  BY <1>2, UsedNone DEF NextIn
<1>4. Waiting = <<>>
  BY <1>3 DEF Waiting
<1>5. InputRoom
  BY <1>2, <1>3, Sizes DEF InputRoom
<1>6. InputWhole
  BY <1>2, <1>4 DEF InputWhole
<1> QED BY <1>5, <1>6

\* Nothing that concerns input changes.
LEMMA InputSame ==
  ASSUME InputRoom, InputWhole, UNCHANGED <<in, in_prod, in_cons, temp, typed>>,
         cb' = cb \/ (cb.pc # "loop" /\ cb'.pc # "loop"),
         "erased" \in broken => "erased" \in broken'
  PROVE  InputRoom' /\ InputWhole'
<1>1. NextIn' = NextIn
  BY DEF NextIn
<1>2. Waiting' = Waiting
  BY <1>1 DEF Waiting
<1>3. InputRoom'
  BY <1>1 DEF InputRoom
<1>4. InputWhole'
  BY <1>2 DEF InputWhole
<1> QED BY <1>3, <1>4

\* The handler takes a character, or the last erases what followed it.
LEMMA InputTakes ==
  ASSUME Shapes, Shapes', InputRoom, InputWhole, TakeChar
  PROVE  InputRoom' /\ InputWhole'
<1> DEFINE next == cb.cons
           i == next % InSize
           u == Used(in_prod, next)
<1>1. /\ cb.pc = "loop" /\ cb.cons # cb.prod /\ temp' = Append(temp, in[i])
      /\ Terminate(i)
      /\ in_prod' = in_prod /\ in_cons' = in_cons /\ typed' = typed
      /\ cb' = [cb EXCEPT !.cons = Advance(next, 1)]
  BY DEF TakeChar
<1>2. next \in Index /\ cb.prod \in Index /\ in_prod \in Index /\ in_cons \in Index
  BY DEF Shapes
<1>3. cb'.pc = "loop" /\ cb'.cons = Advance(next, 1) /\ cb'.prod = cb.prod
  BY <1>1 DEF Shapes
<1>4. NextIn = next /\ NextIn' = Advance(next, 1)
  BY <1>1, <1>3 DEF NextIn
<1>5. /\ u \in Nat /\ Used(cb.prod, next) \in Nat /\ Used(cb.prod, next) # 0
      /\ Used(cb.prod, next) <= u /\ u <= Used(in_prod, in_cons)
      /\ Used(in_prod, in_cons) \in Nat /\ Len(temp) \in Nat
      /\ Len(temp) + u = Len(typed) /\ Len(typed) <= MaxTyped
      /\ Used(in_prod, in_cons) <= InSize
  <2>1. Used(cb.prod, next) # 0
    BY <1>1, <1>2, UsedNone
  <2>2. u \in Index /\ Used(cb.prod, next) \in Index /\ Used(in_prod, in_cons) \in Index
    BY <1>2, AdvanceUsed
  <2>3. Len(temp) \in Nat
    BY DEF Shapes
  <2> QED BY <1>1, <1>4, <2>1, <2>2, <2>3, Sizes DEF InputRoom, Index
<1>6. /\ Used(in_prod, Advance(next, 1)) = u - 1
      /\ Used(cb.prod, Advance(next, 1)) = Used(cb.prod, next) - 1
  <2> DEFINE one == 1
  <2>1. one \in Nat /\ one <= u /\ one <= Used(cb.prod, next)
    BY <1>5
  <2> HIDE DEF one
  <2>2. /\ Used(in_prod, Advance(next, one)) = u - one
        /\ Used(cb.prod, Advance(next, one)) = Used(cb.prod, next) - one
    BY <1>2, <2>1, UsedShrinks
  <2> QED BY <2>2 DEF one
<1>7. Len(temp') = Len(temp) + 1
  BY <1>1 DEF Shapes
<1> HIDE DEF u, i, next
<1>8. InputRoom'
  <2>1. Used(in_prod', NextIn') = u - 1 /\ Used(in_prod', in_cons') = Used(in_prod, in_cons)
    BY <1>1, <1>4, <1>6
  <2>2. Used(cb'.prod, cb'.cons) = Used(cb.prod, next) - 1 /\ Used(in_prod', cb'.cons) = u - 1
    BY <1>1, <1>3, <1>6
  <2>3. Len(temp') + (u - 1) = Len(typed')
    BY <1>1, <1>5, <1>7
  <2>4. Len(typed') <= MaxTyped
    BY <1>1, <1>5
  <2> QED BY <1>5, <2>1, <2>2, <2>3, <2>4 DEF InputRoom
<1>9. ASSUME "erased" \notin broken'
      PROVE  temp' \o Waiting' = typed'
  <2>1. broken \subseteq broken'
    BY <1>1 DEF Terminate
  <2>2. temp \o Waiting = typed
    BY <1>9, <2>1 DEF InputWhole
  <2>3. Waiting = <<in[i]>> \o Segment(in, InSize, Advance(next, 1), u - 1)
    <3>1. Waiting = Segment(in, InSize, next, u)
      BY <1>4, WaitingIs DEF u
    <3>2. u - 1 \in Nat /\ (u - 1) + 1 = u
      BY <1>5
    <3>3. Segment(in, InSize, next, (u - 1) + 1)
            = <<in[i]>> \o Segment(in, InSize, Advance(next, 1), u - 1)
      BY <1>2, <3>2, SegmentFirst, Sizes, ZenonT(40) DEF i
    <3> QED BY <3>1, <3>2, <3>3
  <2>4. Waiting' = Segment(in', InSize, Advance(next, 1), u - 1)
    <3>1. Waiting' = Segment(in', InSize, NextIn', Used(in_prod', NextIn'))
      BY DEF Waiting, Segment
    <3> QED BY <1>1, <1>4, <1>6, <3>1
  <2>5. Segment(in', InSize, Advance(next, 1), u - 1) = Segment(in, InSize, Advance(next, 1), u - 1)
    <3>1. CASE i + 1 < InSize
      <4>1. ~(Used(in_prod, cb.cons) > 1)
        BY <1>1, <1>9, <3>1 DEF Terminate
      <4>2. u - 1 = 0
        BY <1>5, <4>1 DEF u, next
      <4> QED BY <4>2 DEF Segment
    <3>2. CASE ~(i + 1 < InSize)
      BY <1>1, <3>2 DEF Terminate
    <3> QED BY <3>1, <3>2
  <2>6. Segment(in, InSize, Advance(next, 1), u - 1) \in Seq(Chars)
    <3>1. u - 1 \in Nat /\ Advance(next, 1) \in Index
      BY <1>2, <1>5, OneOn
    <3> QED BY <3>1, SegmentType, Sizes DEF Shapes
  <2>7. temp \in Seq(Chars) /\ in[i] \in Chars
    <3>1. next \in Int
      BY <1>2 DEF Index
    <3>2. i \in 0 .. InSize - 1
      BY <3>1, DivMod, Sizes DEF i
    <3> QED BY <3>2 DEF Shapes
  <2>8. ASSUME NEW s \in Seq(Chars)
        PROVE  Append(temp, in[i]) \o s = temp \o (<<in[i]>> \o s)
    BY <2>7
  <2> QED BY <1>1, <2>2, <2>3, <2>4, <2>5, <2>6, <2>8
<1> QED BY <1>8, <1>9 DEF InputWhole

\* The daemon adds a character.
LEMMA InputTyped ==
  ASSUME Shapes, Shapes', InputRoom, InputWhole, NEW c \in {"a", "cr"}, DaemonType(c)
  PROVE  InputRoom' /\ InputWhole'
<1> DEFINE next == NextIn
           u == Used(in_prod, next)
<1>1. /\ Len(typed) < MaxTyped /\ Used(in_prod, in_cons) < InSize
      /\ in' = [in EXCEPT ![in_prod % InSize] = c] /\ in_prod' = Advance(in_prod, 1)
      /\ typed' = Append(typed, c) /\ in_cons' = in_cons /\ cb' = cb /\ temp' = temp
      /\ broken \subseteq broken'
  BY DEF DaemonType
<1>2. next \in Index /\ in_prod \in Index /\ in_cons \in Index /\ cb.cons \in Index /\ cb.prod \in Index
  BY WaitingIs DEF Shapes
<1>3. /\ u \in Nat /\ Advance(next, u) = in_prod /\ Waiting = Segment(in, InSize, next, u)
      /\ Waiting \in Seq(Chars) /\ NextIn' = next
  BY <1>1, WaitingIs DEF NextIn
<1>4. Used(in_prod, in_cons) \in Nat /\ Used(in_prod, cb.cons) \in Nat /\ Used(cb.prod, cb.cons) \in Nat
  BY <1>2, UsedNat
<1>5. u <= Used(in_prod, in_cons) /\ u < InSize
  BY <1>1, <1>3, <1>4, Sizes DEF InputRoom, NextIn
<1>6. ASSUME NEW x \in Index, Used(in_prod, x) + 1 < IdxMod
      PROVE  Used(in_prod', x) = Used(in_prod, x) + 1
  <2> DEFINE one == 1
  <2>1. one \in Nat /\ Used(in_prod, x) + one < IdxMod
    BY <1>6
  <2> HIDE DEF one
  <2>2. Used(Advance(in_prod, one), x) = Used(in_prod, x) + one
    BY <1>2, <2>1, UsedGrows
  <2> QED BY <1>1, <2>2 DEF one
<1>7. /\ Used(in_prod', next) = u + 1
      /\ Used(in_prod', in_cons) = Used(in_prod, in_cons) + 1
      /\ cb.pc = "loop" => Used(in_prod', cb.cons) = Used(in_prod, cb.cons) + 1
  <2>1. u + 1 < IdxMod /\ Used(in_prod, in_cons) + 1 < IdxMod
    <3>1. InSize + 1 < IdxMod
      BY Sizes
    <3>2. u + 1 <= InSize /\ Used(in_prod, in_cons) + 1 <= InSize
      BY <1>1, <1>3, <1>4, <1>5, Sizes
    <3> QED BY <1>3, <1>4, <3>1, <3>2, Sizes
  <2>2. cb.pc = "loop" => Used(in_prod, cb.cons) + 1 < IdxMod
    BY <1>1, <1>4, Sizes DEF InputRoom
  <2> QED BY <1>2, <1>6, <2>1, <2>2
<1> HIDE DEF u, next
<1>8. InputRoom'
  <2>1. Len(typed') = Len(typed) + 1 /\ Len(typed) \in Nat /\ Len(temp) \in Nat
    BY <1>1 DEF Shapes
  <2>2. Len(temp) + u = Len(typed)
    BY DEF InputRoom, u, next
  <2>3. Len(temp') + Used(in_prod', NextIn') = Len(typed')
    BY <1>1, <1>3, <1>7, <2>1, <2>2
  <2>4. Len(typed') <= MaxTyped
    BY <1>1, <2>1, Sizes
  <2>5. Used(in_prod', in_cons') <= InSize
    BY <1>1, <1>4, <1>7, Sizes
  <2>6. cb'.pc = "loop" => /\ Used(cb'.prod, cb'.cons) <= Used(in_prod', cb'.cons)
                           /\ Used(in_prod', cb'.cons) <= Used(in_prod', in_cons')
    BY <1>1, <1>4, <1>7 DEF InputRoom
  <2> QED BY <2>3, <2>4, <2>5, <2>6 DEF InputRoom
<1>9. Waiting' = Append(Waiting, c)
  <2>1. Waiting' = Segment(in', InSize, NextIn', Used(in_prod', NextIn'))
    BY DEF Waiting, Segment
  <2>2. u \in 0 .. InSize - 1 /\ u \in u .. InSize - 1 /\ in \in [0 .. InSize - 1 -> Chars]
    BY <1>3, <1>5, Sizes DEF Shapes
  <2>3. Segment(in', InSize, next, u + 1) = Append(Segment(in, InSize, next, u), c)
    <3>1. in' = [in EXCEPT ![Advance(next, u) % InSize] = c]
      BY <1>1, <1>3
    <3>2. DOMAIN in = 0 .. InSize - 1 /\ u < InSize
      BY <1>5, <2>2
    <3>3. Segment(Put(in, Advance(next, u) % InSize, c), InSize, next, u + 1)
            = Append(Segment(in, InSize, next, u), c)
      BY <1>2, <1>3, <3>2, SegmentMore, Sizes
    <3> QED BY <3>1, <3>3 DEF Put
  <2> QED BY <1>1, <1>3, <1>7, <2>1, <2>3
<1>10. ASSUME "erased" \notin broken'
       PROVE  temp' \o Waiting' = typed'
  <2>1. temp \o Waiting = typed
    BY <1>1, <1>10 DEF InputWhole
  <2>2. c \in Chars /\ temp \in Seq(Chars)
    BY DEF Chars, Shapes
  <2>3. temp \o Append(Waiting, c) = Append(temp \o Waiting, c)
    BY <1>3, <2>2, AppendRight
  <2> QED BY <1>1, <1>9, <2>1, <2>3
<1> QED BY <1>8, <1>10 DEF InputWhole

\* No step loses input.
LEMMA InputStep ==
  ASSUME Shapes, Shapes', InputRoom, InputWhole, [Next]_vars
  PROVE  InputRoom' /\ InputWhole'
<1>1. ASSUME NEW text \in Texts, Begin(text)
      PROVE  InputRoom' /\ InputWhole'
  BY <1>1, InputSame DEF Begin, input, past
<1>2. CASE InitBind
  <2>1. cb.pc # "loop" /\ cb'.pc # "loop"
    BY <1>2 DEF InitBind, At, Resting, Shapes
  <2> QED BY <1>2, <2>1, InputSame DEF InitBind, input, past
<1>3. CASE InitFlushed \/ DaemonWake \/ DaemonShow \/ UNCHANGED vars
  BY <1>3, InputSame DEF InitFlushed, DaemonWake, DaemonShow, vars, input, past
<1>4. ASSUME NEW w \in Senders, ReadCons(w) \/ ReadProd(w) \/ Copy(w)
      PROVE  InputRoom' /\ InputWhole'
  BY <1>4, InputSame DEF ReadCons, ReadProd, Copy, input, past
<1>5. ASSUME NEW w \in Senders, Publish(w)
      PROVE  InputRoom' /\ InputWhole'
  BY <1>5, InputSame DEF Publish, input
<1>6. CASE Deliver
  <2>1. /\ cb.pc = "off" /\ cb' = [pc |-> "loop", cons |-> in_cons, prod |-> in_prod]
        /\ UNCHANGED <<in, in_prod, in_cons, temp, typed, broken>>
    BY <1>6 DEF Deliver, input, past
  <2>2. NextIn' = NextIn /\ NextIn = in_cons
    BY <2>1 DEF NextIn
  <2>3. Waiting' = Waiting
    BY <2>1, <2>2 DEF Waiting
  <2>4. Used(in_prod, in_cons) \in Nat
    BY UsedNat DEF Shapes
  <2>5. InputRoom'
    BY <2>1, <2>2, <2>4 DEF InputRoom
  <2> QED BY <2>1, <2>3, <2>5 DEF InputWhole
<1>7. CASE TakeChar
  BY <1>7, InputTakes
<1>8. CASE EndInput
  <2>1. /\ cb.pc = "loop" /\ cb' = [cb EXCEPT !.pc = "clear"] /\ in_cons' = cb.cons
        /\ UNCHANGED <<in, in_prod, temp, typed, broken>>
    BY <1>8 DEF EndInput, past
  <2>2. cb'.pc = "clear"
    BY <2>1 DEF Shapes
  <2>3. NextIn' = NextIn /\ NextIn = cb.cons
    BY <2>1, <2>2 DEF NextIn
  <2>4. Waiting' = Waiting
    BY <2>1, <2>3 DEF Waiting
  <2>5. Used(in_prod, in_cons) \in Nat /\ Used(in_prod, cb.cons) \in Nat
    BY UsedNat DEF Shapes
  <2>6. InputRoom'
    BY <2>1, <2>2, <2>3, <2>5, Sizes DEF InputRoom
  <2> QED BY <2>1, <2>4, <2>6 DEF InputWhole
<1>9. CASE Clear
  <2>1. cb.pc # "loop" /\ cb'.pc # "loop"
    BY <1>9 DEF Clear, Shapes
  <2> QED BY <1>9, <2>1, InputSame DEF Clear, input, past
<1>10. ASSUME NEW c \in {"a", "cr"}, DaemonType(c)
       PROVE  InputRoom' /\ InputWhole'
  BY <1>10, InputTyped
<1> QED BY <1>1, <1>2, <1>3, <1>4, <1>5, <1>6, <1>7, <1>8, <1>9, <1>10, Steps, Zenon

----------------------------------------------------------------------------
\* What the steps of a call leave alone.
LEMMA Fields ==
  ASSUME NEW s, CallShape(s)
  PROVE  /\ Read(s).pc = "prod" /\ Read(s).cons = out_cons
         /\ Read(s).made = s.made /\ Read(s).todo = s.todo /\ Read(s).sent = s.sent
         /\ [s EXCEPT !.pc = "cons"].pc = "cons" /\ [s EXCEPT !.pc = "cons"].made = s.made
         /\ [s EXCEPT !.pc = "cons"].todo = s.todo /\ [s EXCEPT !.pc = "cons"].sent = s.sent
         /\ Begun(s).pc = "copy" /\ Begun(s).prod = out_prod
         /\ Begun(s).left = Smaller(Room(out_prod, s.cons), Head(s.todo) - s.sent)
         /\ Begun(s).made = s.made /\ Begun(s).todo = s.todo /\ Begun(s).sent = s.sent
         /\ Copied(s).pc \in {"copy", "publish"} /\ Copied(s).prod = Advance(s.prod, 1)
         /\ Copied(s).left = s.left - 1 /\ Copied(s).made = s.made + 1
         /\ Copied(s).todo = s.todo /\ Copied(s).sent = s.sent + 1
         /\ Stored(s).pc \in {"off", "cons"} /\ Stored(s).made = s.made
<1>1. s \in Calls
  BY DEF CallShape
<1>2. /\ Read(s).pc = "prod" /\ Read(s).cons = out_cons
      /\ Read(s).made = s.made /\ Read(s).todo = s.todo /\ Read(s).sent = s.sent
  BY <1>1 DEF Read, Calls
<1>3. /\ [s EXCEPT !.pc = "cons"].pc = "cons" /\ [s EXCEPT !.pc = "cons"].made = s.made
      /\ [s EXCEPT !.pc = "cons"].todo = s.todo /\ [s EXCEPT !.pc = "cons"].sent = s.sent
  BY <1>1 DEF Calls
<1>4. /\ Begun(s).pc = "copy" /\ Begun(s).prod = out_prod
      /\ Begun(s).left = Smaller(Room(out_prod, s.cons), Head(s.todo) - s.sent)
      /\ Begun(s).made = s.made /\ Begun(s).todo = s.todo /\ Begun(s).sent = s.sent
  BY <1>1 DEF Begun, Calls
<1>5. /\ Copied(s).pc \in {"copy", "publish"} /\ Copied(s).prod = Advance(s.prod, 1)
      /\ Copied(s).left = s.left - 1 /\ Copied(s).made = s.made + 1
      /\ Copied(s).todo = s.todo /\ Copied(s).sent = s.sent + 1
  BY <1>1 DEF Copied, Calls
<1>6. Stored(s).pc \in {"off", "cons"} /\ Stored(s).made = s.made
  BY <1>1, <1>3 DEF Stored, Call
<1> QED BY <1>2, <1>3, <1>4, <1>5, <1>6

\* What a step changes of the calls: those of the sender it is of.
LEMMA SendIs ==
  ASSUME Shapes, NEW w \in Senders
  PROVE  send[w] \in Calls /\ CallShape(send[w]) /\ published[w] \in Nat /\ send[w].made \in Nat
BY DEF Shapes, Calls

\* What a step makes of the call of its sender,
LEMMA CallIs ==
  ASSUME Shapes, NEW w \in Senders
  PROVE  /\ ReadCons(w) => send'[w] = Read(send[w])
         /\ ReadProd(w) => /\ Room(out_prod, send[w].cons) = 0 =>
                                send'[w] = [send[w] EXCEPT !.pc = "cons"]
                           /\ Room(out_prod, send[w].cons) # 0 => send'[w] = Begun(send[w])
         /\ Copy(w) => send'[w] = Copied(send[w])
         /\ Publish(w) => send'[w] = Stored(send[w])
<1>1. DOMAIN send = Senders
  BY DEF Shapes
<1>2. ASSUME NEW s, send' = [send EXCEPT ![w] = s]
      PROVE  send'[w] = s
  BY <1>1, <1>2
<1> QED BY <1>2, Sends

\* ... and of the call of the other: nothing.
LEMMA OtherCall ==
  ASSUME Shapes, NEW w \in Senders, NEW v \in Senders, v # w,
         ReadCons(w) \/ ReadProd(w) \/ Copy(w) \/ Publish(w)
  PROVE  send'[v] = send[v]
<1>1. \E s : send' = [send EXCEPT ![w] = s]
  <2>1. Room(out_prod, send[w].cons) = 0 \/ Room(out_prod, send[w].cons) # 0
    OBVIOUS
  <2> QED BY <2>1, Sends
<1> QED BY <1>1 DEF Shapes

\* The echo of what was taken.
LEMMA EchoInit == Init => EchoBound
<1> SUFFICES ASSUME Init
             PROVE  EchoBound
  OBVIOUS
<1>1. send["handler"] = Call(<<>>, 0) /\ temp = <<>>
  BY DEF Init, Senders
<1>2. send["handler"].todo = <<>> /\ send["handler"].pc = "off" /\ send["handler"].made = 0
  BY <1>1 DEF Call
<1>3. Total(<<>>) = 0 /\ <<>> \in Echoes /\ Len(temp) = 0
  BY <1>1 DEF Total, Echoes
<1> QED BY <1>2, <1>3 DEF EchoBound

\* Nothing is echoed and nothing taken.
LEMMA EchoSame ==
  ASSUME EchoBound, send'["handler"] = send["handler"], temp' = temp,
         cb'.pc = cb.pc \/ ~Sending("handler")
  PROVE  EchoBound'
BY DEF EchoBound, Sending

\* The characters of an echo, piece by piece.
LEMMA Totals ==
  ASSUME NEW p \in Echoes
  PROVE  /\ Total(p) \in Nat
         /\ p # <<>> => /\ Tail(p) \in Echoes /\ Head(p) \in Nat
                        /\ Total(p) = Head(p) + Total(Tail(p)) /\ Total(Tail(p)) \in Nat
<1>1. Total(<<>>) = 0 /\ Total(<<1>>) = 1 /\ Total(<<2>>) = 2 /\ Total(<<1, 2>>) = 3
  BY DEF Total
<1>2. Tail(<<1>>) = <<>> /\ Tail(<<2>>) = <<>> /\ Tail(<<1, 2>>) = <<2>>
  OBVIOUS
<1>3. Head(<<1>>) = 1 /\ Head(<<2>>) = 2 /\ Head(<<1, 2>>) = 1
  OBVIOUS
<1>4. p = <<>> \/ p = <<1>> \/ p = <<2>> \/ p = <<1, 2>>
  BY DEF Echoes
<1> HIDE DEF Total
<1>5. <<>> \in Echoes /\ <<2>> \in Echoes
  BY DEF Echoes
<1>6. p = <<1>> \/ p = <<2>> \/ p = <<1, 2>> =>
        /\ Tail(p) \in Echoes /\ Head(p) \in Nat
        /\ Total(p) = Head(p) + Total(Tail(p)) /\ Total(Tail(p)) \in Nat
  <2>1. CASE p = <<1>>
    BY <1>1, <1>2, <1>3, <1>5, <2>1
  <2>2. CASE p = <<2>>
    BY <1>1, <1>2, <1>3, <1>5, <2>2
  <2>3. CASE p = <<1, 2>>
    BY <1>1, <1>2, <1>3, <1>5, <2>3
  <2> QED BY <2>1, <2>2, <2>3
<1>7. Total(p) \in Nat
  BY <1>1, <1>4
<1> QED BY <1>4, <1>6, <1>7

\* The handler sends no more than three characters for each it takes.
LEMMA EchoStep ==
  ASSUME Shapes, Shapes', EchoBound, [Next]_vars
  PROVE  EchoBound'
<1> DEFINE s == send["handler"]
<1>1. "handler" \in Senders /\ "thread" \in Senders /\ CallShape(s) /\ s \in Calls
  BY SendIs DEF Senders
<1>2. ASSUME NEW text \in Texts, Begin(text)
      PROVE  EchoBound'
  <2>1. send'["handler"] = send["handler"]
    BY <1>1, <1>2 DEF Begin, Shapes
  <2> QED BY <1>2, <2>1, EchoSame DEF Begin
<1>3. CASE InitFlushed \/ DaemonWake \/ DaemonShow \/ UNCHANGED vars
  BY <1>3, EchoSame DEF InitFlushed, DaemonWake, DaemonShow, vars, input, past
<1>4. CASE InitBind \/ Deliver \/ Clear
  <2>1. /\ send' = send /\ temp' = temp /\ cb.pc # "loop"
    BY <1>4 DEF InitBind, Deliver, Clear, At, Resting
  <2>2. s.pc = "off"
    BY <2>1 DEF EchoBound
  <2> QED BY <2>1, <2>2, EchoSame DEF Sending
<1>5. CASE EndInput
  BY <1>5, EchoSame DEF EndInput
<1>6. ASSUME NEW c \in {"a", "cr"}, DaemonType(c)
      PROVE  EchoBound'
  BY <1>6, EchoSame DEF DaemonType
<1>7. ASSUME NEW w \in Senders, w = "thread", ReadCons(w) \/ ReadProd(w) \/ Copy(w) \/ Publish(w)
      PROVE  EchoBound'
  <2>1. send'["handler"] = send["handler"]
    BY <1>1, <1>7, OtherCall
  <2>2. temp' = temp /\ cb' = cb
    BY <1>7 DEF ReadCons, ReadProd, Copy, Publish
  <2> QED BY <2>1, <2>2, EchoSame
<1>8. s.todo \in Echoes /\ Total(s.todo) \in Nat /\ s.made \in Nat /\ s.sent \in Nat /\ Len(temp) \in Nat
  <2>1. s.todo \in Echoes
    BY DEF EchoBound
  <2>2. Len(temp) \in Nat
    BY DEF Shapes
  <2>3. s.made \in Nat /\ s.sent \in Nat
    BY <1>1 DEF Calls
  <2> QED BY <2>1, <2>2, <2>3, Totals
<1>9. ASSUME NEW t, t \in Calls, send'["handler"] = t, cb'.pc = "loop", temp' = temp, s.todo # <<>>,
             t.todo = s.todo, t.made - t.sent = s.made - s.sent
      PROVE  EchoBound'
  <2>1. t.made \in Nat /\ t.sent \in Nat
    BY <1>9 DEF Calls
  <2>2. s.made + Total(s.todo) <= 3 * Len(temp) + s.sent
    BY <1>9 DEF EchoBound
  <2>3. t.made + Total(t.todo) <= 3 * Len(temp) + t.sent
    BY <1>8, <1>9, <2>1, <2>2, SMTT(40)
  <2> QED BY <1>8, <1>9, <2>3 DEF EchoBound
<1>10. ASSUME ReadCons("handler") \/ ReadProd("handler") \/ Copy("handler") \/ Publish("handler")
       PROVE  cb'.pc = "loop" /\ temp' = temp /\ s.pc # "off" /\ s.todo # <<>>
  <2>1. Runs("handler") /\ cb' = cb /\ temp' = temp
    BY <1>10 DEF ReadCons, ReadProd, Copy, Publish
  <2>2. cb.pc = "loop"
    BY <2>1 DEF Runs
  <2>3. s.pc # "off"
    BY <1>1, <1>10, Sends
  <2> QED BY <1>1, <2>1, <2>2, <2>3 DEF CallShape
<1>11. CASE ReadCons("handler")
  <2> DEFINE t == Read(s)
  <2>1. t \in Calls /\ send'["handler"] = t
    BY <1>1, <1>11, Sends, CallSteps DEF Shapes, CallShape
  <2>2. t.todo = s.todo /\ t.made = s.made /\ t.sent = s.sent
    BY <1>1, Fields
  <2> HIDE DEF t
  <2>3. t.made - t.sent = s.made - s.sent
    BY <2>2
  <2> QED BY <1>9, <1>10, <1>11, <2>1, <2>2, <2>3
<1>12. CASE ReadProd("handler")
  <2> DEFINE t == send'["handler"]
  <2>1. t \in Calls
    BY <1>1 DEF Shapes
  <2>2. t = [s EXCEPT !.pc = "cons"] \/ t = Begun(s)
    BY <1>1, <1>12, Sends DEF Shapes
  <2>3. t.todo = s.todo /\ t.made = s.made /\ t.sent = s.sent
    <3> HIDE DEF t
    <3>1. CASE t = [s EXCEPT !.pc = "cons"]
      BY <1>1, <3>1, Fields
    <3>2. CASE t = Begun(s)
      BY <1>1, <3>2, Fields
    <3> QED BY <2>2, <3>1, <3>2
  <2> HIDE DEF t
  <2>4. t.made - t.sent = s.made - s.sent
    BY <2>3
  <2> QED BY <1>9, <1>10, <1>12, <2>1, <2>3, <2>4 DEF t
<1>13. CASE Copy("handler")
  <2> DEFINE t == send'["handler"]
  <2>1. t \in Calls
    BY <1>1 DEF Shapes
  <2>2. t = Copied(s)
    BY <1>1, <1>13, Sends DEF Shapes
  <2>3. t.todo = s.todo /\ t.made = s.made + 1 /\ t.sent = s.sent + 1
    BY <1>1, <2>2, Fields
  <2> HIDE DEF t
  <2>4. t.made - t.sent = s.made - s.sent
    BY <1>8, <2>3, SMTT(40)
  <2> QED BY <1>9, <1>10, <1>13, <2>1, <2>3, <2>4 DEF t
<1>14. CASE Publish("handler")
  <2> DEFINE t == send'["handler"]
  <2>1. t \in Calls /\ s.pc = "publish"
    BY <1>1, <1>14, Sends DEF Shapes
  <2>2. t = Stored(s)
    BY <1>1, <1>14, Sends DEF Shapes
  <2>3. CASE s.sent # Head(s.todo)
    <3>1. t = [s EXCEPT !.pc = "cons"]
      BY <2>2, <2>3 DEF Stored
    <3>2. t.todo = s.todo /\ t.made = s.made /\ t.sent = s.sent
      BY <1>1, <3>1, Fields
    <3> HIDE DEF t
    <3>3. t.made - t.sent = s.made - s.sent
      BY <3>2
    <3> QED BY <1>9, <1>10, <1>14, <2>1, <3>2, <3>3 DEF t
  <2>4. CASE s.sent = Head(s.todo)
    <3>1. t = Call(Tail(s.todo), s.made)
      BY <2>2, <2>4 DEF Stored
    <3>2. t.todo = Tail(s.todo) /\ t.made = s.made /\ t.sent = 0
      BY <3>1 DEF Call
    <3>3. /\ Tail(s.todo) \in Echoes /\ Total(Tail(s.todo)) \in Nat
          /\ Total(s.todo) = s.sent + Total(Tail(s.todo))
      BY <1>8, <1>10, <1>14, <2>4, Totals
    <3>4. s.made + Total(s.todo) <= 3 * Len(temp) + s.sent
      BY <1>10, <1>14 DEF EchoBound
    <3>5. s.made + Total(Tail(s.todo)) <= 3 * Len(temp)
      BY <1>8, <3>3, <3>4
    <3> HIDE DEF t
    <3>6. t.made + Total(t.todo) <= 3 * Len(temp') + (IF t.todo = <<>> THEN 0 ELSE t.sent)
      BY <1>8, <1>10, <1>14, <3>2, <3>5
    <3> QED BY <1>10, <1>14, <3>2, <3>3, <3>6 DEF EchoBound, t
  <2> QED BY <2>3, <2>4
<1>15. CASE TakeChar
  <2> DEFINE c == in[cb.cons % InSize]
             t == Call(consolePrint(Echo(c)), s.made)
  <2>1. /\ cb.pc = "loop" /\ s.pc = "off" /\ temp' = Append(temp, c)
        /\ send' = [send EXCEPT !["handler"] = t] /\ cb' = [cb EXCEPT !.cons = Advance(@, 1)]
    BY <1>15 DEF TakeChar, Sending
  <2>2. c \in Chars
    <3>1. cb.cons \in Int
      BY DEF Shapes, Index
    <3>2. cb.cons % InSize \in 0 .. InSize - 1
      BY <3>1, DivMod, Sizes
    <3> QED BY <3>2 DEF Shapes
  <2>3. send'["handler"] = t /\ cb'.pc = "loop"
    BY <1>1, <2>1 DEF Shapes
  <2>4. t.made = s.made /\ t.todo = consolePrint(Echo(c)) /\ t.sent = 0
    BY DEF Call
  <2>5. Len(temp') = Len(temp) + 1
    BY <2>1 DEF Shapes
  <2>6. s.todo = <<>>
    BY <1>1, <2>1 DEF CallShape
  <2>7. s.made <= 3 * Len(temp)
    <3>1. s.made + Total(s.todo) <= 3 * Len(temp) + 0
      BY <2>6 DEF EchoBound
    <3> QED BY <1>8, <3>1
  <2>8. t.todo \in Echoes /\ Total(t.todo) <= 3 /\ Total(t.todo) \in Nat
    BY <2>2, <2>4, EchoPieces
  <2> HIDE DEF t, c
  <2>9. t.made + Total(t.todo) <= 3 * Len(temp') + (IF t.todo = <<>> THEN 0 ELSE t.sent)
    BY <1>8, <2>4, <2>5, <2>7, <2>8
  <2> QED BY <2>3, <2>8, <2>9 DEF EchoBound
<1>16. ASSUME NEW w \in Senders, ReadCons(w) \/ ReadProd(w) \/ Copy(w) \/ Publish(w)
       PROVE  EchoBound'
  <2>1. w = "thread" \/ w = "handler"
    BY DEF Senders
  <2> QED BY <1>7, <1>11, <1>12, <1>13, <1>14, <1>16, <2>1
<1> QED BY <1>2, <1>3, <1>4, <1>5, <1>6, <1>15, <1>16, Steps, Zenon

----------------------------------------------------------------------------
\* What is made is given, but for the part that is under way.
LEMMA PartInit == Init => \A w \in Senders : PartCount(w)
<1> SUFFICES ASSUME Init, NEW w \in Senders
             PROVE  PartCount(w)
  OBVIOUS
<1>1. send[w] = Call(<<>>, 0) /\ published[w] = 0
  BY DEF Init
<1> QED BY <1>1 DEF PartCount, InPart, Call

\* A sender whose numbers stay.
LEMMA PartSame ==
  ASSUME NEW v \in Senders, PartCount(v), send'[v].made = send[v].made,
         published'[v] = published[v], InPart(v)' \/ ~InPart(v), Shapes
  PROVE  PartCount(v)'
<1>1. published[v] \in Nat /\ send[v].made \in Nat
  BY SendIs
<1> QED BY <1>1 DEF PartCount, InPart

\* ... after every step.
LEMMA PartStep ==
  ASSUME Shapes, Shapes', \A w \in Senders : PartCount(w), [Next]_vars
  PROVE  \A w \in Senders : PartCount(w)'
<1> SUFFICES ASSUME NEW v \in Senders
             PROVE  PartCount(v)'
  OBVIOUS
<1>1. /\ PartCount(v) /\ send[v] \in Calls /\ CallShape(send[v])
      /\ published[v] \in Nat /\ send[v].made \in Nat
  BY SendIs
<1>2. ASSUME send' = send, published' = published
      PROVE  PartCount(v)'
  BY <1>1, <1>2, PartSame DEF InPart
<1>3. ASSUME NEW w \in Senders, NEW pieces, send' = [send EXCEPT ![w] = Call(pieces, @.made)],
             ~Sending(w), published' = published
      PROVE  PartCount(v)'
  <2>1. CASE v = w
    <3>1. send'[v] = Call(pieces, send[v].made)
      BY <1>3, <2>1 DEF Shapes
    <3>2. send'[v].made = send[v].made
      BY <3>1 DEF Call
    <3>3. ~InPart(v)
      BY <1>3, <2>1 DEF InPart, Sending
    <3> QED BY <1>1, <1>3, <3>2, <3>3, PartSame
  <2>2. CASE v # w
    <3>1. send'[v] = send[v]
      BY <1>3, <2>2 DEF Shapes
    <3> QED BY <1>1, <1>3, <3>1, PartSame DEF InPart
  <2> QED BY <2>1, <2>2
<1>4. ASSUME NEW text \in Texts, Begin(text)
      PROVE  PartCount(v)'
  <2>1. "thread" \in Senders
    BY DEF Senders
  <2>2. ~Sending("thread") /\ published' = published
        /\ send' = [send EXCEPT !["thread"] = Call(consolePrint(text), @.made)]
    BY <1>4 DEF Begin, past
  <2> QED BY <1>3, <2>1, <2>2
<1>5. CASE TakeChar
  <2> DEFINE pieces == consolePrint(Echo(in[cb.cons % InSize]))
  <2>1. "handler" \in Senders
    BY DEF Senders
  <2>2. ~Sending("handler") /\ published' = published
        /\ send' = [send EXCEPT !["handler"] = Call(pieces, @.made)]
    BY <1>5 DEF TakeChar
  <2> HIDE DEF pieces
  <2> QED BY <1>3, <2>1, <2>2
<1>6. ASSUME NEW w \in Senders, v # w, ReadCons(w) \/ ReadProd(w) \/ Copy(w) \/ Publish(w)
      PROVE  PartCount(v)'
  <2>1. send'[v] = send[v]
    BY <1>6, OtherCall
  <2>2. published'[v] = published[v]
    BY <1>6 DEF ReadCons, ReadProd, Copy, Publish, past, Shapes
  <2> QED BY <1>1, <2>1, <2>2, PartSame DEF InPart
<1>7. CASE ReadCons(v)
  <2>1. send'[v] = Read(send[v]) /\ send[v].pc = "cons" /\ published' = published
    BY <1>7, Sends, CallIs DEF ReadCons, past
  <2>2. send'[v].made = send[v].made
    BY <1>1, <2>1, Fields
  <2> QED BY <1>1, <2>1, <2>2, PartSame DEF InPart
<1>8. CASE ReadProd(v)
  <2>1. /\ send'[v] = [send[v] EXCEPT !.pc = "cons"] \/ send'[v] = Begun(send[v])
        /\ send[v].pc = "prod" /\ published' = published
    <3>1. send[v].pc = "prod" /\ published' = published
      BY <1>8, Sends DEF ReadProd, past
    <3>2. send'[v] = [send[v] EXCEPT !.pc = "cons"] \/ send'[v] = Begun(send[v])
      BY <1>8, CallIs
    <3> QED BY <3>1, <3>2
  <2>2. send'[v].made = send[v].made
    <3>1. CASE send'[v] = [send[v] EXCEPT !.pc = "cons"]
      BY <1>1, <3>1, Fields
    <3>2. CASE send'[v] = Begun(send[v])
      BY <1>1, <3>2, Fields
    <3> QED BY <2>1, <3>1, <3>2
  <2> QED BY <1>1, <2>1, <2>2, PartSame DEF InPart
<1>9. CASE Copy(v)
  <2>1. send'[v] = Copied(send[v]) /\ send[v].pc = "copy" /\ published' = published
    BY <1>9, Sends, CallIs DEF Copy, past
  <2>2. send'[v].made = send[v].made + 1 /\ send'[v].pc \in {"copy", "publish"}
    BY <1>1, <2>1, Fields
  <2>3. published[v] <= send[v].made
    BY <1>1, <2>1 DEF PartCount, InPart
  <2> QED BY <1>1, <2>1, <2>2, <2>3 DEF PartCount, InPart
<1>10. CASE Publish(v)
  <2>1. send'[v] = Stored(send[v]) /\ published'[v] = send[v].made
    BY <1>10, CallIs DEF Publish, Shapes
  <2>2. send'[v].made = send[v].made /\ send'[v].pc \in {"off", "cons"}
    BY <1>1, <2>1, Fields
  <2> QED BY <1>1, <2>1, <2>2 DEF PartCount, InPart
<1>11. ASSUME NEW w \in Senders, ReadCons(w) \/ ReadProd(w) \/ Copy(w) \/ Publish(w)
       PROVE  PartCount(v)'
  BY <1>6, <1>7, <1>8, <1>9, <1>10, <1>11, Zenon
<1>12. CASE InitBind \/ InitFlushed \/ Deliver \/ EndInput \/ Clear \/ UNCHANGED vars
  BY <1>2, <1>12 DEF InitBind, InitFlushed, Deliver, EndInput, Clear, vars, past
<1>13. CASE DaemonWake \/ DaemonShow \/ \E c \in {"a", "cr"} : DaemonType(c)
  BY <1>2, <1>13 DEF DaemonWake, DaemonShow, DaemonType, past
<1> QED BY <1>4, <1>5, <1>11, <1>12, <1>13, Steps, Zenon

----------------------------------------------------------------------------
\* Output.  All that was given, shown or not.
AllOut == shown \o Between(out_cons, out_prod)

\* What is kept of a sender, as a row of its characters.
LEMMA KeptIs ==
  ASSUME Shapes, NEW w \in Senders
  PROVE  Kept(w) <=> From(w, AllOut) = Row(w, published[w])
BY DEF Kept, Given, AllOut, Row

\* All that was given is a sequence of cells.
LEMMA AllOutType ==
  ASSUME Shapes
  PROVE  AllOut \in Seq(Cells)
<1>1. Between(out_cons, out_prod) \in Seq(Cells) /\ shown \in Seq(Cells)
  BY BetweenIs DEF Shapes
<1> QED BY <1>1 DEF AllOut

OutputOf(w) == StaleCons(w) /\ PartLies(w) /\ Kept(w)

\* While the thread runs, the handler sends nothing.
LEMMA ThreadAlone ==
  ASSUME EchoBound, Runs("thread")
  PROVE  send["handler"].pc = "off"
BY DEF EchoBound, Runs, Resting

\* The part of the sender that runs is intact.
LEMMA RunsIntact ==
  ASSUME EchoBound, NEW w \in Senders, Runs(w), InPart(w)
  PROVE  Intact(w)
<1>1. w = "thread" => ~InPart("handler")
  BY ThreadAlone DEF InPart
<1> QED BY <1>1 DEF Intact

\* The numbers of a sender's part.
LEMMA PartNumbers ==
  ASSUME Shapes, NEW w \in Senders, PartCount(w)
  PROVE  /\ Made(w) \in Nat /\ published[w] \in Nat /\ send[w].made \in Nat
         /\ published[w] + Made(w) = send[w].made
         /\ ~InPart(w) => Made(w) = 0
<1>1. published[w] \in Nat /\ send[w].made \in Nat
  BY SendIs
<1> QED BY <1>1 DEF PartCount, Made

\* The handler has sent few characters.
Few == 2 * (OutSize + 3 * MaxTyped) < IdxMod

\* ... no more than three for each that was typed.
LEMMA FewSent ==
  ASSUME Shapes, InputRoom, EchoBound, PartCount("handler")
  PROVE  /\ send["handler"].made <= 3 * MaxTyped /\ send["handler"].made \in Nat
         /\ published["handler"] <= send["handler"].made /\ published["handler"] \in Nat
<1> DEFINE s == send["handler"]
<1>1. "handler" \in Senders
  BY DEF Senders
<1>2. s \in Calls /\ CallShape(s) /\ s.made \in Nat /\ published["handler"] \in Nat
  BY <1>1, SendIs
<1>3. Len(temp) \in Nat /\ Len(temp) <= MaxTyped
  <2>1. Used(in_prod, NextIn) \in Nat /\ Len(temp) \in Nat /\ Len(typed) \in Nat
    BY WaitingIs DEF Shapes
  <2> QED BY <2>1, Sizes DEF InputRoom
<1>4. s.sent \in Nat /\ s.todo \in Echoes /\ Total(s.todo) \in Nat
  BY <1>2, Totals DEF EchoBound, Calls
<1>5. s.made + Total(s.todo) <= 3 * Len(temp) + (IF s.todo = <<>> THEN 0 ELSE s.sent)
  BY DEF EchoBound
<1>6. s.todo # <<>> => s.sent <= Total(s.todo)
  <2>1. SUFFICES ASSUME s.todo # <<>>
                 PROVE  s.sent <= Total(s.todo)
    OBVIOUS
  <2>2. Head(s.todo) \in Nat /\ Total(Tail(s.todo)) \in Nat /\ Total(s.todo) = Head(s.todo) + Total(Tail(s.todo))
    BY <1>4, <2>1, Totals
  <2>3. s.pc # "off"
    BY <1>2, <2>1 DEF CallShape
  <2>4. s.sent <= Head(s.todo)
    BY <1>2, <2>3, HeadLeft
  <2> QED BY <1>4, <2>2, <2>4
<1>7. published["handler"] <= s.made
  BY <1>1, <1>2, PartNumbers DEF PartCount
<1> HIDE DEF s
<1>8. s.made <= 3 * MaxTyped
  BY <1>2, <1>3, <1>4, <1>5, <1>6, Sizes
<1> QED BY <1>2, <1>7, <1>8 DEF s

\* What has happened stays so.
LEMMA BrokenGrows ==
  ASSUME [Next]_vars
  PROVE  broken \subseteq broken'
<1>1. ASSUME NEW w \in Senders, ReadCons(w) \/ ReadProd(w) \/ Copy(w) \/ Publish(w)
      PROVE  broken \subseteq broken'
  <2>1. Publish(w) => broken \subseteq broken'
    BY DEF Publish
  <2> QED BY <1>1, <2>1 DEF ReadCons, ReadProd, Copy, past
<1>2. TakeChar => broken \subseteq broken'
  BY DEF TakeChar, Terminate
<1>3. \A text \in Texts : Begin(text) => broken' = broken
  BY DEF Begin, past
<1>4. \A c \in {"a", "cr"} : DaemonType(c) => broken \subseteq broken'
  BY DEF DaemonType
<1>5. InitBind \/ InitFlushed \/ Deliver \/ EndInput \/ Clear => broken' = broken
  BY DEF InitBind, InitFlushed, Deliver, EndInput, Clear, past
<1>6. DaemonWake \/ DaemonShow \/ UNCHANGED vars => broken' = broken
  BY DEF DaemonWake, DaemonShow, vars, past
<1>7. broken' = broken => broken \subseteq broken'
  OBVIOUS
<1> QED BY <1>1, <1>2, <1>3, <1>4, <1>5, <1>6, <1>7, Steps, Zenon

\* What is kept of a sender depends on the ring and on what was given and shown.
LEMMA KeptSame ==
  ASSUME NEW v, Kept(v), UNCHANGED <<out, out_prod, out_cons, shown, published>>
  PROVE  Kept(v)'
<1>1. AllOut' = AllOut
  BY DEF AllOut, Between
<1> QED BY <1>1 DEF Kept, Given, AllOut

\* A sender for whom nothing changes: its call, and what it relates to.
LEMMA OutputSame ==
  ASSUME NEW v \in Senders, OutputOf(v), UNCHANGED <<out, out_prod, out_cons, shown, published>>,
         send'[v] = send[v] \/ send'[v].pc \in {"off", "cons"}, Intact(v)' => Intact(v)
  PROVE  OutputOf(v)'
<1>2. Kept(v)'
  BY KeptSame DEF OutputOf
<1>3. StaleCons(v)'
  BY DEF OutputOf, StaleCons
<1>4. PartLies(v)'
  <2>1. SUFFICES ASSUME Intact(v)'
                 PROVE  PartLies(v)'
    BY DEF PartLies
  <2>2. send'[v] = send[v]
    BY <2>1 DEF Intact, InPart
  <2>3. Made(v)' = Made(v)
    BY <2>2 DEF Made
  <2> QED BY <2>1, <2>2, <2>3 DEF OutputOf, PartLies
<1> QED BY <1>2, <1>3, <1>4 DEF OutputOf

\* The ring as the senders see it.
LEMMA RingNow ==
  ASSUME Shapes
  PROVE  /\ out_prod \in Index /\ out_cons \in Index /\ daemon.upto \in Index
         /\ Used(out_prod, out_cons) \in Nat
         /\ out_prod = Advance(out_cons, Used(out_prod, out_cons))
         /\ DOMAIN out = 0 .. OutSize - 1
<1>1. out_prod \in Index /\ out_cons \in Index /\ daemon.upto \in Index /\ DOMAIN out = 0 .. OutSize - 1
  BY DEF Shapes
<1> QED BY <1>1, UsedNat, AdvanceUsed

\* The daemon's index is read,
LEMMA OutputReads ==
  ASSUME Shapes, EchoBound, OutputRoom, NEW v \in Senders, OutputOf(v), NEW w \in Senders,
         PartCount("handler"), ReadCons(w)
  PROVE  OutputOf(v)'
<1>1. /\ UNCHANGED <<out, out_prod, out_cons, shown, published>> /\ send[w].pc = "cons"
      /\ send'[w] = Read(send[w])
  BY Sends, CallIs DEF ReadCons, output, past
<1>2. send'[w].pc = "prod" /\ send'[w].cons = out_cons
  BY <1>1, SendIs, Fields
<1>3. Intact(v)' => Intact(v)
  <2>1. v # w => send'[v] = send[v]
    BY OtherCall
  <2>2. "handler" # w => send'["handler"] = send["handler"]
    BY OtherCall DEF Senders
  <2> QED BY <1>1, <1>2, <2>1, <2>2 DEF Intact, InPart
<1>4. CASE v # w
  <2>1. send'[v] = send[v]
    BY <1>4, OtherCall
  <2> QED BY <1>1, <1>3, <2>1, OutputSame
<1>5. CASE v = w
  <2>1. StaleCons(v)'
    <3>1. Used(out_prod, out_cons) <= OutSize + published["handler"]
      <4>1. published["handler"] \in Nat
        BY SendIs DEF Senders
      <4> QED BY <4>1, RingNow, Sizes DEF OutputRoom
    <3> QED BY <1>1, <1>2, <1>5, <3>1, RingNow DEF StaleCons
  <2>2. PartLies(v)'
    BY <1>2, <1>5 DEF PartLies, Intact, InPart
  <2>3. Kept(v)'
    BY <1>1, KeptSame DEF OutputOf
  <2> QED BY <2>1, <2>2, <2>3 DEF OutputOf
<1> QED BY <1>4, <1>5

\* ... the kernel's, with the room that is left,
LEMMA OutputFinds ==
  ASSUME Few, Shapes, InputRoom, EchoBound, OutputRoom, NEW v \in Senders, OutputOf(v),
         NEW w \in Senders, \A u \in Senders : PartCount(u), OutputOf(w), ReadProd(w)
  PROVE  OutputOf(v)'
<1> DEFINE s == send[w]
           used == Used(out_prod, s.cons)
           room == Room(out_prod, s.cons)
           rest == Head(s.todo) - s.sent
<1>1. /\ UNCHANGED <<out, out_prod, out_cons, shown, published>> /\ s.pc = "prod"
      /\ room = 0 => send'[w] = [s EXCEPT !.pc = "cons"]
      /\ room # 0 => send'[w] = Begun(s)
  BY Sends, CallIs DEF ReadProd, output, past
<1>2. CallShape(s) /\ s \in Calls /\ s.pc # "off" /\ s.cons \in Index /\ rest \in Int
  <2>1. CallShape(s) /\ s \in Calls /\ s.pc # "off"
    BY <1>1, SendIs
  <2> QED BY <2>1, HeadLeft, Sizes
<1>3. v # w => send'[v] = send[v]
  BY OtherCall
<1>4. w = "handler" \/ send'["handler"] = send["handler"]
  BY OtherCall DEF Senders
<1>5. CASE room = 0
  <2>1. send'[w].pc = "cons"
    <3>1. send'[w] = [s EXCEPT !.pc = "cons"] /\ CallShape(s)
      BY <1>1, <1>2, <1>5
    <3> HIDE DEF s
    <3> QED BY <3>1, Fields
  <2>2. Intact(v)' => Intact(v)
    BY <1>1, <1>3, <1>4, <2>1 DEF Intact, InPart
  <2>3. send'[v] = send[v] \/ send'[v].pc \in {"off", "cons"}
    BY <1>3, <2>1
  <2> QED BY <1>1, <2>2, <2>3, OutputSame
<1>6. CASE room # 0 /\ v # w
  <2>1. send'[w].pc = "copy"
    BY <1>1, <1>2, <1>6, Fields
  <2>2. Intact(v)' => Intact(v)
    BY <1>1, <1>3, <1>4, <1>6, <2>1 DEF Intact, InPart
  <2> QED BY <1>1, <1>3, <1>6, <2>2, OutputSame
<1>7. CASE room # 0 /\ v = w
  <2> DEFINE t == send'[v]
  <2>1. /\ t.pc = "copy" /\ t.prod = out_prod /\ t.made = s.made /\ t.left = Smaller(room, rest)
    BY <1>1, <1>2, <1>7, Fields
  <2> HIDE DEF t
  <2>2. used \in Nat /\ used <= OutSize + 3 * MaxTyped /\ Used(out_prod, out_cons) <= used
    <3>1. used \in Nat
      BY <1>2, RingNow, UsedNat
    <3>2. used <= OutSize + published["handler"] /\ Used(out_prod, out_cons) <= used
      BY <1>1 DEF OutputOf, StaleCons
    <3>3. PartCount("handler")
      BY DEF Senders
    <3>4. published["handler"] <= 3 * MaxTyped /\ published["handler"] \in Nat
      BY <3>3, FewSent, Sizes
    <3> QED BY <3>1, <3>2, <3>4, Sizes
  <2>3. room \in Nat /\ used <= OutSize /\ room = OutSize - used
    <3>1. 2 * used < IdxMod
      BY <2>2, Sizes DEF Few
    <3>2. /\ room \in Nat /\ (used <= OutSize => room = OutSize - used)
          /\ (used > OutSize /\ 2 * used < IdxMod => room = 0)
      BY <1>2, RingNow, RoomLeft
    <3> HIDE DEF room, used
    <3> QED BY <1>7, <2>2, <3>1, <3>2, Sizes
  <2>4. t.left <= room
    <3> HIDE DEF room, rest
    <3> QED BY <1>2, <2>1, <2>3 DEF Smaller
  <2>5. Made(v)' = 0
    <3>1. published[w] = s.made
      BY <1>1 DEF PartCount, InPart
    <3> QED BY <1>1, <1>2, <1>7, <2>1, <3>1, SendIs DEF Made, t
  <2>6. PartLies(v)'
    <3>1. t.prod = Advance(out_prod, 0)
      <4>1. out_prod + 0 = out_prod /\ out_prod \in 0 .. (2 * IdxMod) - 1 /\ out_prod < IdxMod
        BY RingNow, Sizes DEF Index
      <4>2. out_prod % IdxMod = out_prod
        BY <4>1, SmallMod, Sizes
      <4> QED BY <2>1, <4>1, <4>2 DEF Advance
    <3>2. Used(out_prod, out_cons) + 0 + t.left <= OutSize
      <4>1. t.left \in Int
        <5> HIDE DEF room, rest
        <5> QED BY <1>2, <2>1, <2>3 DEF Smaller
      <4> HIDE DEF room, used
      <4> QED BY <2>2, <2>3, <2>4, <4>1, RingNow, Sizes
    <3>3. Segment(out, OutSize, out_prod, 0) = Block(v, published[v], 0)
      BY DEF Segment, Block
    <3> HIDE DEF room, used, s
    <3> QED BY <1>1, <2>5, <3>1, <3>2, <3>3 DEF PartLies, t
  <2>7. StaleCons(v)'
    BY <2>1 DEF StaleCons, t
  <2>8. Kept(v)'
    BY <1>1, KeptSame DEF OutputOf
  <2> QED BY <2>6, <2>7, <2>8 DEF OutputOf
<1> QED BY <1>5, <1>6, <1>7

\* ... a character is copied behind what lies in the ring, the handler's perhaps
\* over the thread's,
LEMMA OutputCopies ==
  ASSUME Shapes, EchoBound, OutputRoom, NEW v \in Senders, OutputOf(v),
         NEW w \in Senders, \A u \in Senders : PartCount(u), OutputOf(w), Copy(w)
  PROVE  OutputOf(v)'
<1> DEFINE s == send[w]
           m == Made(w)
           p == published[w]
           used == Used(out_prod, out_cons)
           c == <<w, s.made + 1>>
           t == send'[w]
<1>1. /\ UNCHANGED <<out_prod, out_cons, shown, published>> /\ s.pc = "copy"
      /\ t = Copied(s) /\ Runs(w) /\ out' = Put(out, s.prod % OutSize, c)
  BY Sends, CallIs DEF Copy, input, past, Put
<1>2. CallShape(s) /\ s.left \in Nat /\ 1 <= s.left /\ s.made \in Nat /\ s.prod \in Index
  <2>1. CallShape(s) /\ s \in Calls
    BY SendIs
  <2> QED BY <1>1, <2>1, Sizes DEF CallShape, Calls
<1>3. /\ t.pc \in {"copy", "publish"} /\ t.prod = Advance(s.prod, 1) /\ t.left = s.left - 1
      /\ t.made = s.made + 1
  BY <1>1, <1>2, Fields
<1> HIDE DEF t
<1>4. m \in Nat /\ p \in Nat /\ p + m = s.made
  BY PartNumbers
<1>5. Intact(w)
  BY <1>1, RunsIntact DEF InPart
<1>6. /\ s.prod = Advance(out_prod, m) /\ used + m + s.left <= OutSize
      /\ Segment(out, OutSize, out_prod, m) = Block(w, p, m)
  BY <1>5 DEF OutputOf, PartLies
<1>7. used \in Nat /\ out_prod \in Index /\ out_cons \in Index /\ DOMAIN out = 0 .. OutSize - 1
  BY RingNow
<1> HIDE DEF s, m, p, used, c
<1>8. m < OutSize /\ used + m < OutSize /\ used + m \in Nat /\ used <= used + m
  BY <1>2, <1>4, <1>6, <1>7, Sizes
<1>9. Segment(out', OutSize, out_prod, m + 1) = Block(w, p, m + 1)
  <2>1. Segment(Put(out, Advance(out_prod, m) % OutSize, c), OutSize, out_prod, m + 1)
          = Append(Segment(out, OutSize, out_prod, m), c)
    <3>1. m <= m
      BY <1>4
    <3> QED BY <1>4, <1>7, <1>8, <3>1, SegmentMore, Sizes
  <2>2. Block(w, p, m + 1) = Append(Block(w, p, m), <<w, p + m + 1>>)
    BY <1>4, RowType
  <2>3. c = <<w, p + m + 1>>
    BY <1>4 DEF c
  <2> QED BY <1>1, <1>6, <2>1, <2>2, <2>3
<1>10. Segment(out', OutSize, out_cons, used) = Segment(out, OutSize, out_cons, used)
  <2>1. s.prod = Advance(out_cons, used + m)
    <3>1. out_prod = Advance(out_cons, used)
      BY RingNow DEF used
    <3> QED BY <1>4, <1>6, <1>7, <3>1, AdvanceTwice
  <2>2. Segment(Put(out, Advance(out_cons, used + m) % OutSize, c), OutSize, out_cons, used)
          = Segment(out, OutSize, out_cons, used)
    BY <1>7, <1>8, SegmentMore, Sizes
  <2> QED BY <1>1, <2>1, <2>2
<1>11. AllOut' = AllOut
  <2>1. AllOut = shown \o Segment(out, OutSize, out_cons, used)
    BY DEF AllOut, Between, Segment, used
  <2>2. AllOut' = shown' \o Segment(out', OutSize, out_cons', Used(out_prod', out_cons'))
    BY DEF AllOut, Between, Segment
  <2>3. AllOut' = shown \o Segment(out', OutSize, out_cons, used)
    BY <1>1, <2>2 DEF used
  <2> QED BY <1>10, <2>1, <2>3
<1>12. Kept(v)'
  BY <1>1, <1>11 DEF OutputOf, Kept, Given, AllOut
<1>13. CASE v # w
  <2>1. send'[v] = send[v]
    BY <1>13, OtherCall
  <2>2. StaleCons(v)'
    BY <1>1, <2>1 DEF OutputOf, StaleCons
  <2>3. ~Intact(v)'
    <3>1. CASE w = "handler"
      <4>1. v = "thread" /\ send'["handler"].pc \in {"copy", "publish"}
        BY <1>3, <1>13, <3>1 DEF Senders, t
      <4> QED BY <4>1 DEF Intact, InPart
    <3>2. CASE w = "thread"
      <4>1. v = "handler" /\ send["handler"].pc = "off"
        BY <1>1, <1>13, <3>2, ThreadAlone DEF Senders
      <4> QED BY <2>1, <4>1 DEF Intact, InPart
    <3> QED BY <3>1, <3>2 DEF Senders
  <2>4. PartLies(v)'
    BY <2>3 DEF PartLies
  <2> QED BY <1>12, <2>2, <2>4 DEF OutputOf
<1>14. CASE v = w
  <2>1. StaleCons(v)'
    BY <1>3, <1>14 DEF StaleCons, t
  <2>2. Made(v)' = m + 1
    <3>1. Made(v)' = t.made - published'[v]
      BY <1>14 DEF Made, t
    <3> QED BY <1>1, <1>3, <1>4, <1>14, <1>2, <3>1 DEF p
  <2>3. t.prod = Advance(out_prod, m + 1)
    <3> DEFINE one == 1
    <3>1. one \in Nat
      OBVIOUS
    <3> HIDE DEF one
    <3>2. Advance(Advance(out_prod, m), one) = Advance(out_prod, m + one)
      BY <1>4, <1>7, <3>1, AdvanceTwice
    <3> QED BY <1>3, <1>6, <3>2 DEF one
  <2>4. used + (m + 1) + t.left <= OutSize
    BY <1>2, <1>3, <1>4, <1>6, <1>7, Sizes
  <2>5. PartLies(v)'
    BY <1>1, <1>9, <1>14, <2>2, <2>3, <2>4 DEF PartLies, t, p, used
  <2> QED BY <1>12, <2>1, <2>5 DEF OutputOf
<1> QED BY <1>13, <1>14

\* The ring's cells in use are split in two.
LEMMA OutSplit ==
  ASSUME Shapes, NEW idx \in Index, NEW a \in Nat, NEW b \in Nat, NEW all, all = a + b
  PROVE  /\ Parts(out, OutSize, idx, a, b, all)
         /\ Segment(out, OutSize, idx, a) \in Seq(Cells)
         /\ Segment(out, OutSize, Advance(idx, a), b) \in Seq(Cells)
<1>1. out \in [0 .. OutSize - 1 -> Cells]
  BY DEF Shapes
<1>2. Advance(idx, a) \in Index
  <2>1. idx \in Int
    BY DEF Index
  <2> QED BY <2>1, AdvanceType
<1>3. Segment(out, OutSize, idx, a) \in Seq(Cells)
  BY <1>1, SegmentType, Sizes
<1>4. Segment(out, OutSize, Advance(idx, a), b) \in Seq(Cells)
  BY <1>1, <1>2, SegmentType, Sizes
<1>5. Parts(out, OutSize, idx, a, b, all)
  <2>1. OutSize \in Int /\ OutSize > 0 /\ IdxMod % OutSize = 0
    BY Sizes
  <2> QED BY <2>1, SegmentParts, Zenon
<1> QED BY <1>3, <1>4, <1>5

\* ... and the index stored: the part is given.
LEMMA PartGiven ==
  ASSUME Shapes, EchoBound, OutputRoom, NEW w \in Senders,
         PartCount(w), OutputOf(w), Publish(w)
  PROVE  /\ out_prod' = Advance(out_prod, Made(w))
         /\ Used(out_prod, out_cons) + Made(w) <= OutSize
         /\ Used(out_prod', out_cons) = Used(out_prod, out_cons) + Made(w)
         /\ AllOut' = AllOut \o Block(w, published[w], Made(w))
<1> DEFINE s == send[w]
           m == Made(w)
           used == Used(out_prod, out_cons)
<1>1. /\ UNCHANGED <<out, out_cons, shown>> /\ s.pc = "publish" /\ out_prod' = s.prod /\ Runs(w)
  BY DEF Publish
<1>2. m \in Nat /\ used \in Nat /\ out_prod \in Index /\ out_cons \in Index
      /\ out_prod = Advance(out_cons, used)
  BY PartNumbers, RingNow
<1>3. Intact(w)
  BY <1>1, RunsIntact DEF InPart
<1>4. s.left = 0
  BY <1>1, SendIs DEF CallShape
<1>5. /\ s.prod = Advance(out_prod, m) /\ used + m + s.left <= OutSize
      /\ Segment(out, OutSize, out_prod, m) = Block(w, published[w], m)
  BY <1>3 DEF OutputOf, PartLies
<1> HIDE DEF m
<1>6. used + m <= OutSize /\ used + m < IdxMod
  BY <1>2, <1>4, <1>5, Sizes
<1>7. Used(Advance(out_prod, m), out_cons) = used + m
  BY <1>2, <1>6, UsedGrows
<1>8. AllOut' = AllOut \o Block(w, published[w], m)
  <2> DEFINE S == Segment(out, OutSize, out_cons, used)
             T == Segment(out, OutSize, out_prod, m)
  <2>1. AllOut = shown \o S
    BY DEF AllOut, Between, Segment
  <2>2. AllOut' = shown' \o Segment(out', OutSize, out_cons', Used(out_prod', out_cons'))
    BY DEF AllOut, Between, Segment
  <2>3. AllOut' = shown \o Segment(out, OutSize, out_cons, used + m)
    BY <1>1, <1>5, <1>7, <2>2
  <2>4. Segment(out, OutSize, out_cons, used + m) = S \o T /\ S \in Seq(Cells) /\ T \in Seq(Cells)
    <3> DEFINE more == Advance(out_cons, used)
    <3>1. /\ Parts(out, OutSize, out_cons, used, m, used + m)
          /\ S \in Seq(Cells) /\ Segment(out, OutSize, more, m) \in Seq(Cells)
      BY <1>2, OutSplit
    <3> HIDE DEF more
    <3>2. more = out_prod
      BY <1>2 DEF more
    <3> QED BY <3>1, <3>2 DEF Parts, more
  <2>5. shown \in Seq(Cells)
    BY DEF Shapes
  <2> HIDE DEF S, T
  <2>6. shown \o (S \o T) = (shown \o S) \o T
    BY <2>4, <2>5, SMTT(40)
  <2> QED BY <1>5, <2>1, <2>3, <2>4, <2>6 DEF T
<1> QED BY <1>1, <1>5, <1>6, <1>7, <1>8 DEF m

\* The index is stored: the part joins what was given.
LEMMA OutputGives ==
  ASSUME Few, Shapes, InputRoom, EchoBound, OutputRoom, NEW v \in Senders, OutputOf(v),
         NEW w \in Senders, \A u \in Senders : PartCount(u), OutputOf(w), Publish(w), Unbroken'
  PROVE  OutputOf(v)'
<1> DEFINE m == Made(w)
           p == published[w]
           used == Used(out_prod, out_cons)
<1>1. /\ out_cons' = out_cons /\ out_prod' = Advance(out_prod, m) /\ used + m <= OutSize
      /\ Used(out_prod', out_cons) = used + m
      /\ AllOut' = AllOut \o Block(w, p, m)
  BY PartGiven DEF Publish
<1>2. m \in Nat /\ p \in Nat /\ p + m = send[w].made /\ used \in Nat /\ out_prod \in Index
  BY PartNumbers, RingNow
<1>3. published' = [published EXCEPT ![w] = send[w].made] /\ Runs(w)
  BY DEF Publish
<1>4. send'[w] = Stored(send[w]) /\ send'[w].pc \in {"off", "cons"}
  BY CallIs, SendIs, Fields
<1>5. Kept(v)'
  <2>1. From(v, AllOut) = Row(v, published[v])
    BY KeptIs DEF OutputOf
  <2>2. AllOut \in Seq(Cells)
    BY AllOutType
  <2>3. From(v, AllOut') = Row(v, published'[v])
    <3>1. CASE v = w
      <4>1. published'[v] = p + m
        BY <1>2, <1>3, <3>1 DEF Shapes
      <4> HIDE DEF m
      <4> QED BY <1>1, <1>2, <2>1, <2>2, <3>1, <4>1, BlockGiven
    <3>2. CASE v # w
      <4>1. published'[v] = published[v]
        BY <1>3, <3>2 DEF Shapes
      <4> HIDE DEF m, p
      <4> QED BY <1>1, <1>2, <2>1, <2>2, <3>2, <4>1, BlockGiven
    <3> QED BY <3>1, <3>2
  <2> QED BY <2>3 DEF Kept, Given, AllOut, Row
<1>6. CASE v = w
  <2>1. StaleCons(v)' /\ PartLies(v)'
    BY <1>4, <1>6 DEF StaleCons, PartLies, Intact, InPart
  <2> QED BY <1>5, <2>1 DEF OutputOf
<1>7. CASE v # w /\ w = "thread"
  <2>1. v = "handler" /\ send["handler"].pc = "off"
    BY <1>3, <1>7, ThreadAlone DEF Senders
  <2>2. send'[v].pc = "off"
    BY <1>7, <2>1, OtherCall
  <2>3. StaleCons(v)' /\ PartLies(v)'
    BY <2>2 DEF StaleCons, PartLies, Intact, InPart
  <2> QED BY <1>5, <2>3 DEF OutputOf
<1>8. CASE v # w /\ w = "handler"
  <2>1. v = "thread"
    BY <1>8 DEF Senders
  <2>2. send'[v] = send[v]
    BY <1>8, OtherCall
  <2>3. ~InPart(v)
    BY <1>8, <2>1 DEF Publish, Overtakes, InPart, Unbroken
  <2>4. PartLies(v)'
    BY <2>2, <2>3 DEF PartLies, Intact, InPart
  <2>5. ASSUME send[v].pc = "prod"
        PROVE  /\ Used(out_prod', out_cons') <= Used(out_prod', send[v].cons)
               /\ Used(out_prod', send[v].cons) <= OutSize + published'["handler"]
    <3> DEFINE old == Used(out_prod, send[v].cons)
    <3>1. used <= old /\ old <= OutSize + published["handler"]
      BY <2>5 DEF OutputOf, StaleCons
    <3>2. send[v].cons \in Index /\ old \in Nat
      BY <1>2, SendIs, UsedNat DEF Calls
    <3>3. published'["handler"] = p + m /\ p + m <= 3 * MaxTyped
      <4>1. published'["handler"] = p + m
        BY <1>2, <1>3, <1>8 DEF Shapes
      <4>2. send["handler"].made <= 3 * MaxTyped
        BY FewSent DEF Senders
      <4> QED BY <1>2, <1>8, <4>1, <4>2
    <3> HIDE DEF used, m, p
    <3>4. old <= OutSize + p
      BY <1>8, <3>1 DEF p
    <3>5. old + m < IdxMod /\ old + m <= OutSize + (p + m) /\ used + m <= old + m
      <4> HIDE DEF old
      <4> QED BY <1>2, <3>1, <3>2, <3>3, <3>4, Sizes DEF Few
    <3>6. Used(Advance(out_prod, m), send[v].cons) = old + m
      BY <1>2, <3>2, <3>5, UsedGrows
    <3> HIDE DEF old
    <3> QED BY <1>1, <3>3, <3>5, <3>6
  <2>6. StaleCons(v)'
    BY <2>2, <2>5 DEF StaleCons
  <2> QED BY <1>5, <2>4, <2>6 DEF OutputOf
<1> QED BY <1>6, <1>7, <1>8 DEF Senders

\* The daemon shows what it found and moves its index.
LEMMA OutputShows ==
  ASSUME Shapes, OutputRoom, DaemonShow
  PROVE  OutputRoom' /\ \A v \in Senders : OutputOf(v) => OutputOf(v)'
<1> DEFINE d == Used(daemon.upto, out_cons)
           used == Used(out_prod, out_cons)
<1>1. /\ UNCHANGED <<out, out_prod, send, published>> /\ out_cons' = daemon.upto
      /\ shown' = shown \o Between(out_cons, daemon.upto) /\ daemon.awake
      /\ daemon' = [daemon EXCEPT !.awake = FALSE]
  BY DEF DaemonShow
<1>2. /\ out_prod \in Index /\ out_cons \in Index /\ daemon.upto \in Index
      /\ used \in Nat /\ d \in Nat /\ d <= used /\ used <= OutSize
      /\ Advance(out_cons, d) = daemon.upto
  BY <1>1, RingNow, UsedNat, AdvanceUsed DEF OutputRoom
<1> HIDE DEF d, used
<1>3. Used(out_prod, daemon.upto) = used - d /\ used - d \in Nat
  <2>1. Used(out_prod, Advance(out_cons, d)) = used - d
    BY <1>2, UsedShrinks DEF used
  <2> QED BY <1>2, <2>1
<1>4. AllOut' = AllOut
  <2> DEFINE S == Segment(out, OutSize, out_cons, d)
             T == Segment(out, OutSize, daemon.upto, used - d)
  <2>1. AllOut = shown \o Segment(out, OutSize, out_cons, used)
    BY DEF AllOut, Between, Segment, used
  <2>2. shown' = shown \o S
    BY <1>1 DEF Between, Segment, d
  <2>3. AllOut' = shown' \o Segment(out', OutSize, out_cons', Used(out_prod', out_cons'))
    BY DEF AllOut, Between, Segment
  <2>4. AllOut' = (shown \o S) \o T
    BY <1>1, <1>3, <2>2, <2>3
  <2>5. Segment(out, OutSize, out_cons, used) = S \o T /\ S \in Seq(Cells) /\ T \in Seq(Cells)
    <3> DEFINE more == Advance(out_cons, d)
               rest == used - d
    <3>1. rest \in Nat /\ used = d + rest
      BY <1>2, <1>3
    <3>3. /\ Parts(out, OutSize, out_cons, d, rest, used)
          /\ S \in Seq(Cells) /\ Segment(out, OutSize, more, rest) \in Seq(Cells)
      <4> HIDE DEF rest
      <4> QED BY <1>2, <3>1, OutSplit
    <3> HIDE DEF more
    <3>2. more = daemon.upto
      BY <1>2 DEF more
    <3> QED BY <3>2, <3>3 DEF Parts, more
  <2>6. shown \in Seq(Cells)
    BY DEF Shapes
  <2> HIDE DEF S, T
  <2>7. shown \o (S \o T) = (shown \o S) \o T
    BY <2>5, <2>6
  <2> QED BY <2>1, <2>4, <2>5, <2>7
<1>5. ASSUME NEW v \in Senders, OutputOf(v)
      PROVE  OutputOf(v)'
  <2>1. Kept(v)'
    BY <1>1, <1>4, <1>5 DEF OutputOf, Kept, Given, AllOut
  <2>2. StaleCons(v)'
    <3>1. ASSUME send[v].pc = "prod"
          PROVE  Used(out_prod, daemon.upto) <= Used(out_prod, send[v].cons)
      <4>1. used <= Used(out_prod, send[v].cons)
        BY <1>5, <3>1 DEF OutputOf, StaleCons, used
      <4>2. Used(out_prod, send[v].cons) \in Nat
        BY <1>2, SendIs, UsedNat DEF Calls
      <4> QED BY <1>2, <1>3, <4>1, <4>2
    <3> QED BY <1>1, <1>5, <3>1 DEF OutputOf, StaleCons
  <2>3. PartLies(v)'
    <3>1. SUFFICES ASSUME Intact(v)'
                   PROVE  PartLies(v)'
      BY DEF PartLies
    <3>2. Intact(v) /\ Made(v)' = Made(v)
      BY <1>1, <3>1 DEF Intact, InPart, Made
    <3>3. /\ send[v].prod = Advance(out_prod, Made(v)) /\ used + Made(v) + send[v].left <= OutSize
          /\ Segment(out, OutSize, out_prod, Made(v)) = Block(v, published[v], Made(v))
      BY <1>5, <3>2 DEF OutputOf, PartLies, used
    <3>4. Made(v) \in Int /\ send[v].left \in Int
      BY SendIs, Sizes DEF Made, Calls
    <3>5. (used - d) + Made(v) + send[v].left <= OutSize
      BY <1>2, <3>3, <3>4, Sizes
    <3> QED BY <1>1, <1>3, <3>2, <3>3, <3>5 DEF PartLies
  <2> QED BY <2>1, <2>2, <2>3 DEF OutputOf
<1>6. OutputRoom'
  <2>1. daemon'.awake = FALSE
    BY <1>1 DEF Shapes
  <2>2. Used(out_prod', out_cons') <= OutSize
    BY <1>1, <1>2, <1>3, Sizes
  <2> QED BY <2>1, <2>2 DEF OutputRoom
<1> QED BY <1>5, <1>6

----------------------------------------------------------------------------
\* The ring of output never holds more than it can, and the daemon reads no more
\* than it holds.
LEMMA RoomSame ==
  ASSUME OutputRoom, UNCHANGED <<out_prod, out_cons, daemon>>
  PROVE  OutputRoom'
BY DEF OutputRoom

\* A part that is given fits.
LEMMA RoomGives ==
  ASSUME Shapes, EchoBound, OutputRoom, NEW w \in Senders, PartCount(w), OutputOf(w), Publish(w)
  PROVE  OutputRoom'
<1> DEFINE used == Used(out_prod, out_cons)
           more == Used(out_prod', out_cons)
           d    == Used(daemon.upto, out_cons)
<1>1. Made(w) \in Nat /\ used \in Nat /\ d \in Nat
  BY PartNumbers, RingNow, UsedNat
<1>2. more = used + Made(w) /\ used + Made(w) <= OutSize
  BY PartGiven
<1>3. out_cons' = out_cons /\ daemon' = daemon
  BY DEF Publish
<1>4. daemon.awake => d <= used
  BY DEF OutputRoom
<1> HIDE DEF used, more, d
<1>5. more <= OutSize /\ (daemon.awake => d <= more)
  BY <1>1, <1>2, <1>4, Sizes
<1> QED BY <1>3, <1>5 DEF OutputRoom, more, d

\* Steps that leave output and the calls alone.
LEMMA OutputIdle ==
  ASSUME NEW v \in Senders, OutputOf(v),
         UNCHANGED <<out, out_prod, out_cons, shown, published, send>>
  PROVE  OutputOf(v)'
<1>1. Intact(v)' => Intact(v)
  BY DEF Intact, InPart
<1> QED BY <1>1, OutputSame

\* A sender that is not sending begins a call.
LEMMA OutputBegins ==
  ASSUME Shapes, NEW v \in Senders, OutputOf(v), NEW w \in Senders, ~Sending(w),
         UNCHANGED <<out, out_prod, out_cons, shown, published>>,
         NEW pieces, send' = [send EXCEPT ![w] = Call(pieces, @.made)]
  PROVE  OutputOf(v)'
<1>1. v # w => send'[v] = send[v]
  BY DEF Shapes
<1>2. send'[w].pc \in {"off", "cons"}
  <2>1. send'[w] = Call(pieces, send[w].made)
    BY DEF Shapes
  <2> QED BY <2>1 DEF Call
<1>3. ~InPart(w)
  BY DEF InPart, Sending
<1>4. "handler" # w => send'["handler"] = send["handler"]
  BY DEF Shapes, Senders
<1>5. Intact(v)' => Intact(v)
  BY <1>1, <1>2, <1>3, <1>4 DEF Intact, InPart
<1> QED BY <1>1, <1>2, <1>5, OutputSame

\* Nothing is sent before the first print,
LEMMA OutputInit == Init => OutputRoom /\ \A v \in Senders : OutputOf(v)
<1> SUFFICES ASSUME Init
             PROVE  OutputRoom /\ \A v \in Senders : OutputOf(v)
  OBVIOUS
<1>1. Shapes
  BY ShapesInit
<1>2. Used(out_prod, out_cons) = 0
  BY <1>1, RingNow, UsedNone DEF Init
<1>3. OutputRoom
  BY <1>2, Sizes DEF OutputRoom, Init
<1>4. ASSUME NEW v \in Senders
      PROVE  OutputOf(v)
  <2>1. send[v] = Call(<<>>, 0) /\ published[v] = 0 /\ shown = <<>>
    BY DEF Init
  <2>2. send[v].pc = "off"
    BY <2>1 DEF Call
  <2>3. StaleCons(v) /\ PartLies(v)
    BY <2>2 DEF StaleCons, PartLies, Intact, InPart
  <2>4. AllOut = <<>>
    BY <1>2, <2>1 DEF AllOut, Between
  <2>5. Row(v, 0) = <<>>
    BY DEF Row
  <2>6. Kept(v)
    BY <1>1, <2>1, <2>4, <2>5, KeptIs, FromNone
  <2> QED BY <2>3, <2>6 DEF OutputOf
<1> QED BY <1>3, <1>4

\* ... and no step loses output, but for the accidents of Unbroken.
LEMMA OutputStep ==
  ASSUME Few, Shapes, InputRoom, EchoBound, \A u \in Senders : PartCount(u),
         OutputRoom, \A u \in Senders : OutputOf(u), [Next]_vars, Unbroken'
  PROVE  OutputRoom' /\ \A u \in Senders : OutputOf(u)'
<1> SUFFICES ASSUME NEW v \in Senders
             PROVE  OutputRoom' /\ OutputOf(v)'
  <2>1. "thread" \in Senders
    BY DEF Senders
  <2> QED BY <2>1
<1>1. OutputOf(v) /\ PartCount("handler") /\ "thread" \in Senders /\ "handler" \in Senders
  BY DEF Senders
<1>2. ASSUME NEW text \in Texts, Begin(text)
      PROVE  OutputRoom' /\ OutputOf(v)'
  <2>1. /\ UNCHANGED <<out, out_prod, out_cons, shown, published, daemon>> /\ ~Sending("thread")
        /\ send' = [send EXCEPT !["thread"] = Call(consolePrint(text), @.made)]
    BY <1>2 DEF Begin, output, past
  <2> QED BY <1>1, <2>1, RoomSame, OutputBegins
<1>3. CASE InitBind \/ InitFlushed \/ Deliver \/ EndInput \/ Clear
  <2>1. UNCHANGED <<out, out_prod, out_cons, shown, published, send, daemon>>
    BY <1>3 DEF InitBind, InitFlushed, Deliver, EndInput, Clear, output, past
  <2> QED BY <1>1, <2>1, RoomSame, OutputIdle
<1>4. CASE UNCHANGED vars
  <2>1. UNCHANGED <<out, out_prod, out_cons, shown, published, send, daemon>>
    BY <1>4 DEF vars, output, past
  <2> QED BY <1>1, <2>1, RoomSame, OutputIdle
<1>5. ASSUME NEW c \in {"a", "cr"}, DaemonType(c)
      PROVE  OutputRoom' /\ OutputOf(v)'
  <2>1. UNCHANGED <<out, out_prod, out_cons, shown, published, send, daemon>>
    BY <1>5 DEF DaemonType, output
  <2> QED BY <1>1, <2>1, RoomSame, OutputIdle
<1>6. CASE DaemonWake
  <2>1. UNCHANGED <<out, out_prod, out_cons, shown, published, send>> /\ daemon'.upto = out_prod
    BY <1>6 DEF DaemonWake, output, past
  <2>2. Used(out_prod, out_cons) <= Used(out_prod, out_cons)
    BY RingNow
  <2>3. OutputRoom'
    BY <2>1, <2>2 DEF OutputRoom
  <2> QED BY <1>1, <2>1, <2>3, OutputIdle
<1>7. CASE DaemonShow
  BY <1>1, <1>7, OutputShows
<1>8. CASE TakeChar
  <2> DEFINE pieces == consolePrint(Echo(in[cb.cons % InSize]))
  <2>1. /\ UNCHANGED <<out_prod, out_cons, shown, published, daemon>> /\ ~Sending("handler")
        /\ send' = [send EXCEPT !["handler"] = Call(pieces, @.made)]
        /\ Terminate(cb.cons % InSize)
    BY <1>8 DEF TakeChar
  <2>2. out' = out
    BY <2>1 DEF Terminate, Unbroken
  <2> HIDE DEF pieces
  <2> QED BY <1>1, <2>1, <2>2, RoomSame, OutputBegins
<1>9. ASSUME NEW w \in Senders, ReadCons(w) \/ ReadProd(w) \/ Copy(w)
      PROVE  OutputRoom' /\ OutputOf(v)'
  <2>1. UNCHANGED <<out_prod, out_cons, daemon>>
    BY <1>9 DEF ReadCons, ReadProd, Copy, output
  <2>2. OutputRoom'
    BY <2>1, RoomSame
  <2>3. ReadCons(w) => OutputOf(v)'
    BY <1>1, OutputReads
  <2>4. ReadProd(w) => OutputOf(v)'
    BY <1>1, OutputFinds
  <2>5. Copy(w) => OutputOf(v)'
    BY <1>1, OutputCopies
  <2> QED BY <1>9, <2>2, <2>3, <2>4, <2>5
<1>10. ASSUME NEW w \in Senders, Publish(w)
       PROVE  OutputRoom' /\ OutputOf(v)'
  <2>1. OutputRoom'
    BY <1>10, RoomGives
  <2>2. OutputOf(v)'
    BY <1>1, <1>10, OutputGives
  <2> QED BY <2>1, <2>2
<1>11. ASSUME NEW w \in Senders, ReadCons(w) \/ ReadProd(w) \/ Copy(w) \/ Publish(w)
       PROVE  OutputRoom' /\ OutputOf(v)'
  BY <1>9, <1>10, <1>11, Zenon
<1> QED BY <1>2, <1>3, <1>4, <1>5, <1>6, <1>7, <1>8, <1>11, Steps, Zenon

----------------------------------------------------------------------------
\* The invariant.
LEMMA OutputInvIs == OutputInv <=> (Unbroken => OutputRoom /\ \A w \in Senders : OutputOf(w))
BY Zenon DEF OutputInv, OutputOf

\* The invariant holds before consoleInit,
LEMMA InvInit == Init => Inv
<1> SUFFICES ASSUME Init
             PROVE  Inv
  OBVIOUS
<1>1. OutputInv
  BY OutputInit, OutputInvIs
<1> QED BY <1>1, ShapesInit, InputInit, EchoInit, PartInit DEF Inv

\* ... and after every step.
LEMMA InvStep ==
  ASSUME Few, Inv, [Next]_vars
  PROVE  Inv'
<1>1. /\ Shapes /\ InputRoom /\ InputWhole /\ EchoBound /\ \A w \in Senders : PartCount(w)
      /\ OutputInv
  BY DEF Inv
<1>2. Shapes'
  BY <1>1, ShapesStep
<1>3. InputRoom' /\ InputWhole'
  BY <1>1, <1>2, InputStep
<1>4. EchoBound'
  BY <1>1, <1>2, EchoStep
<1>5. \A w \in Senders : PartCount(w)'
  BY <1>1, <1>2, PartStep
<1>6. OutputInv'
  <2>1. ASSUME Unbroken'
        PROVE  OutputRoom' /\ \A w \in Senders : OutputOf(w)'
    <3>1. Unbroken
      BY <2>1, BrokenGrows DEF Unbroken
    <3>2. OutputRoom /\ \A w \in Senders : OutputOf(w)
      BY <1>1, <3>1, OutputInvIs
    <3> QED BY <1>1, <2>1, <3>2, OutputStep
  <2> QED BY <2>1 DEF OutputInv, OutputOf
<1> QED BY <1>2, <1>3, <1>4, <1>5, <1>6 DEF Inv

\* The types of the invariant are those of TypeOK.
LEMMA Typed ==
  ASSUME Shapes
  PROVE  TypeOK
<1>1. \A w \in Senders : /\ send[w].pc \in {"off", "cons", "prod", "copy", "publish"}
                         /\ send[w].prod \in 0 .. IdxMod - 1 /\ send[w].left \in 0 .. OutSize
  BY SendIs DEF Calls, Index
<1>2. {out_prod, out_cons, in_prod, in_cons} \subseteq 0 .. IdxMod - 1
  BY DEF Shapes, Index
<1> QED BY <1>1, <1>2 DEF Shapes, TypeOK, Chars

\* Types of rings, indices and positions: indices stay in their range and no
\* sender is about to copy more than a ring, whatever the handler did to the
\* thread's call.
THEOREM TypesHold == Spec => []TypeOK
<1>1. Init => Shapes
  BY ShapesInit
<1>2. Shapes /\ [Next]_vars => Shapes'
  BY ShapesStep
<1>3. Shapes => TypeOK
  BY Typed
<1> QED BY <1>1, <1>2, <1>3, PTL DEF Spec

\* What was typed is in the input line or still in the ring, each character
\* once and in order, unless the '\0' that xencons_rx writes behind a character
\* erased the next: for rings of every size and every start of the indices.
THEOREM InputStaysWhole == Spec => []InputWhole
<1> DEFINE InputInv == Shapes /\ InputRoom /\ InputWhole
<1>1. Init => InputInv
  BY ShapesInit, InputInit
<1>2. InputInv /\ [Next]_vars => InputInv'
  BY ShapesStep, InputStep
<1>3. InputInv => InputWhole
  OBVIOUS
<1> QED BY <1>1, <1>2, <1>3, PTL DEF Spec

\* What either sender gave the output ring is shown or still in the ring, each
\* character once and in order, until the handler sends in the middle of a copy
\* of the thread or writes beyond the input ring: for rings of every size, every
\* text whose lines fit, and as long as Few characters are typed.
THEOREM OutputStaysWhole ==
  ASSUME Few
  PROVE  Spec => []OutputWhole
<1>1. Init => Inv
  BY InvInit
<1>2. Inv /\ [Next]_vars => Inv'
  BY InvStep
<1>3. Inv => OutputWhole
  <2>1. Inv => TypeOK
    BY Typed DEF Inv
  <2> QED BY <2>1 DEF Inv, OutputInv, OutputWhole, Unbroken
<1> QED BY <1>1, <1>2, <1>3, PTL DEF Spec

================================================================================
