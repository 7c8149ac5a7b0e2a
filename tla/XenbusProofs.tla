----------------------------- MODULE XenbusProofs -----------------------------
(****************************************************************************)
(* Proofs about Xenbus, for rings of every size, requests and responses of   *)
(* every length, indices that begin anywhere, and any number of requests,    *)
(* changes and watch events.  The responses that were queued and not taken   *)
(* are a sequence of messages: the first of them lie in the response ring,   *)
(* one behind the other, the last in the daemon's queue, and one of them may *)
(* be in both.  The invariant says so of every state.                        *)
(****************************************************************************)
EXTENDS Xenbus, Integers, TLAPS

\* Remainders, and the indices of RingIndex: what the two indices of a ring say of
\* the cells between them although they come round.

\* Division with remainder, as the code's % computes it.
LEMMA DivMod ==
  ASSUME NEW a \in Int, NEW n \in Int, n > 0
  PROVE  a \div n \in Int /\ a % n \in 0 .. n - 1 /\ a = n * (a \div n) + (a % n)
<1>1. a = n * (a \div n) + (a % n)
  BY SMT
<1>2. a \div n \in Int /\ a % n \in 0 .. n - 1
  BY SMT
<1> QED BY <1>1, <1>2

\* The remainder is determined by being one.
LEMMA Remainder ==
  ASSUME NEW n \in Int, n > 0, NEW q \in Int, NEW r \in 0 .. n - 1
  PROVE  (n * q + r) % n = r
<1> DEFINE a == n * q + r
           d == q - (a \div n)
<1>1. a \in Int /\ a \div n \in Int /\ a % n \in 0 .. n - 1 /\ a = n * (a \div n) + (a % n)
  BY DivMod
<1>2. d \in Int /\ n * d = (a % n) - r
  BY <1>1
<1> HIDE DEF d
<1>3. d >= 1 => n * d >= n
  BY <1>2
<1>4. d <= -1 => n * d <= -n
  BY <1>2
<1>5. d = 0
  BY <1>1, <1>2, <1>3, <1>4
<1>6. n * d = 0
  BY <1>5
<1> QED BY <1>1, <1>2, <1>6

\* A number below twice the divisor.
LEMMA SmallMod ==
  ASSUME NEW n \in Int, n > 0, NEW a \in 0 .. (2 * n) - 1
  PROVE  (a < n => a % n = a) /\ (a >= n => a % n = a - n)
<1>1. CASE a < n
  <2>1. (n * 0 + a) % n = a
    BY <1>1, Remainder
  <2> QED BY <1>1, <2>1
<1>2. CASE a >= n
  <2>1. a - n \in 0 .. n - 1
    BY <1>2
  <2>2. (n * 1 + (a - n)) % n = a - n
    BY <2>1, Remainder
  <2> QED BY <1>2, <2>2
<1> QED BY <1>1, <1>2

\* A remainder may be taken of either summand first.
LEMMA ModPlus ==
  ASSUME NEW n \in Int, n > 0, NEW a \in Int, NEW b \in Int
  PROVE  ((a % n) + b) % n = (a + b) % n
<1> DEFINE q == a \div n
           r == a % n
           d == (r + b) \div n
           s == (r + b) % n
<1>1. q \in Int /\ r \in Int /\ a = n * q + r
  BY DivMod
<1>2. d \in Int /\ s \in 0 .. n - 1 /\ r + b = n * d + s
  BY <1>1, DivMod
<1> HIDE DEF q, d, s
<1>3. a + b = n * (q + d) + s /\ q + d \in Int
  BY <1>1, <1>2
<1>4. (a + b) % n = s
  BY <1>2, <1>3, Remainder, ZenonT(40)
<1> QED BY <1>4 DEF s

\* An index reduced by a multiple of the ring's size keeps its cell.
LEMMA ModOfMod ==
  ASSUME NEW n \in Int, n > 0, NEW m \in Int, m > 0, m % n = 0, NEW a \in Int
  PROVE  (a % m) % n = a % n
<1> DEFINE k == m \div n
           q == a \div m
           r == a % m
           d == r \div n
           s == r % n
<1>1. k \in Int /\ m = n * k
  BY DivMod
<1>2. q \in Int /\ r \in Int /\ a = m * q + r
  BY DivMod
<1>3. d \in Int /\ s \in 0 .. n - 1 /\ r = n * d + s
  BY <1>2, DivMod
<1> HIDE DEF k, q, d, s
<1>4. a = n * (k * q + d) + s /\ k * q + d \in Int
  <2>1. m * q = n * (k * q)
    BY <1>1, <1>2
  <2>2. k * q \in Int
    BY <1>1, <1>2
  <2> QED BY <1>2, <1>3, <2>1, <2>2
<1>5. a % n = s
  BY <1>3, <1>4, Remainder
<1> QED BY <1>5 DEF s

\* Products grow with their factors.
LEMMA Times ==
  ASSUME NEW r \in Nat, NEW p \in Int, NEW q \in Int, p < q
  PROVE  p * r + r <= q * r
<1>1. (p + 1) * r = p * r + r
  OBVIOUS
<1>2. (q - (p + 1)) * r >= 0
  OBVIOUS
<1>3. (q - (p + 1)) * r = q * r - (p + 1) * r
  OBVIOUS
<1>4. q * r \in Int /\ (p + 1) * r \in Int /\ p * r \in Int
  OBVIOUS
<1> QED BY <1>1, <1>2, <1>3, <1>4

----------------------------------------------------------------------------
Index == 0 .. IdxMod - 1

\* An index stays one.
LEMMA AdvanceType ==
  ASSUME NEW idx \in Int, NEW n \in Int
  PROVE  Advance(idx, n) \in Index
BY IdxModAssumption, DivMod DEF Advance, Index

\* Two moves in one.
LEMMA AdvanceTwice ==
  ASSUME NEW idx \in Index, NEW m \in Nat, NEW n \in Nat
  PROVE  Advance(Advance(idx, m), n) = Advance(idx, m + n)
<1>1. IdxMod \in Int /\ IdxMod > 0 /\ idx + m \in Int /\ n \in Int
  BY IdxModAssumption DEF Index
<1>2. \A a, b \in Int : ((a % IdxMod) + b) % IdxMod = (a + b) % IdxMod
  BY <1>1, ModPlus
<1>3. (((idx + m) % IdxMod) + n) % IdxMod = ((idx + m) + n) % IdxMod
  BY <1>1, <1>2, Zenon
<1> QED BY <1>1, <1>3 DEF Advance, Index

\* After a move of n the indices are n apart,
LEMMA UsedAdvance ==
  ASSUME NEW idx \in Index, NEW n \in Index
  PROVE  Used(Advance(idx, n), idx) = n
<1>1. IdxMod \in Int /\ IdxMod > 0 /\ idx + n \in 0 .. (2 * IdxMod) - 1
  BY IdxModAssumption DEF Index
<1>2. /\ idx + n < IdxMod => Advance(idx, n) = idx + n
      /\ idx + n >= IdxMod => Advance(idx, n) = idx + n - IdxMod
  BY <1>1, SmallMod DEF Advance, Index
<1>3. CASE idx + n < IdxMod
  <2>1. Advance(idx, n) + IdxMod - idx = n + IdxMod
    BY <1>1, <1>2, <1>3 DEF Index
  <2>2. n + IdxMod \in 0 .. (2 * IdxMod) - 1 /\ n + IdxMod >= IdxMod
    BY <1>1 DEF Index
  <2> QED BY <1>1, <2>1, <2>2, SmallMod DEF Used, Index
<1>4. CASE idx + n >= IdxMod
  <2>1. Advance(idx, n) + IdxMod - idx = n
    BY <1>1, <1>2, <1>4 DEF Index
  <2>2. n \in 0 .. (2 * IdxMod) - 1 /\ n < IdxMod
    BY <1>1 DEF Index
  <2> QED BY <1>1, <2>1, <2>2, SmallMod DEF Used, Index
<1> QED BY <1>1, <1>3, <1>4

\* ... and the distance between two indices is the move from one to the other.
LEMMA AdvanceUsed ==
  ASSUME NEW prod \in Index, NEW cons \in Index
  PROVE  Used(prod, cons) \in Index /\ Advance(cons, Used(prod, cons)) = prod
<1>1. /\ IdxMod \in Int /\ IdxMod > 0 /\ prod \in Int /\ cons \in Int
      /\ prod + IdxMod - cons \in 0 .. (2 * IdxMod) - 1
  BY IdxModAssumption DEF Index
<1>2. /\ prod < cons => Used(prod, cons) = prod + IdxMod - cons
      /\ prod >= cons => Used(prod, cons) = prod - cons
  BY <1>1, SmallMod DEF Used, Index
<1>3. Used(prod, cons) \in Index
  BY <1>1, <1>2 DEF Index
<1>4. cons + Used(prod, cons) \in 0 .. (2 * IdxMod) - 1
  BY <1>1, <1>3 DEF Index
<1>5. Advance(cons, Used(prod, cons)) = prod
  BY <1>1, <1>2, <1>4, SmallMod DEF Advance, Index
<1> QED BY <1>3, <1>5

\* Cells are added at the one index,
LEMMA UsedGrows ==
  ASSUME NEW prod \in Index, NEW cons \in Index, NEW n \in Nat, Used(prod, cons) + n < IdxMod
  PROVE  Used(Advance(prod, n), cons) = Used(prod, cons) + n
<1>1. Used(prod, cons) \in Index /\ Advance(cons, Used(prod, cons)) = prod
  BY AdvanceUsed
<1>2. Used(prod, cons) \in Nat /\ Used(prod, cons) + n \in Index
  BY <1>1, IdxModAssumption DEF Index
<1>3. Advance(prod, n) = Advance(cons, Used(prod, cons) + n)
  BY <1>1, <1>2, AdvanceTwice
<1> QED BY <1>2, <1>3, UsedAdvance

\* ... and taken at the other.
LEMMA UsedShrinks ==
  ASSUME NEW prod \in Index, NEW cons \in Index, NEW n \in Nat, n <= Used(prod, cons)
  PROVE  Used(prod, Advance(cons, n)) = Used(prod, cons) - n
<1>1. Used(prod, cons) \in Index /\ Advance(cons, Used(prod, cons)) = prod
  BY AdvanceUsed
<1>2. /\ Used(prod, cons) - n \in Index /\ Used(prod, cons) - n \in Nat
      /\ n + (Used(prod, cons) - n) = Used(prod, cons)
  BY <1>1, IdxModAssumption DEF Index
<1>3. prod = Advance(Advance(cons, n), Used(prod, cons) - n)
  BY <1>1, <1>2, AdvanceTwice
<1>4. Advance(cons, n) \in Index
  BY AdvanceType DEF Index
<1> QED BY <1>2, <1>3, <1>4, UsedAdvance

\* A ring is empty when its indices are equal.
LEMMA UsedNone ==
  ASSUME NEW prod \in Index, NEW cons \in Index
  PROVE  Used(prod, cons) = 0 <=> prod = cons
<1>1. Used(prod, cons) = 0 => Advance(cons, 0) = prod
  BY AdvanceUsed
<1>2. Advance(cons, 0) = cons /\ 0 \in Index
  BY IdxModAssumption, SmallMod DEF Advance, Index
<1>3. Used(cons, cons) = 0
  BY <1>2, UsedAdvance
<1> QED BY <1>1, <1>2, <1>3

\* The cell of an index, in a ring of n cells, does not depend on whether the
\* index came round.
LEMMA CellOf ==
  ASSUME NEW n \in Int, n > 0, IdxMod % n = 0, NEW idx \in Index, NEW m \in Nat, NEW j \in Nat
  PROVE  (Advance(idx, m) + j) % n = (idx + m + j) % n
<1> DEFINE x == (idx + m) % IdxMod
<1>1. IdxMod \in Int /\ IdxMod > 0 /\ idx + m \in Int /\ j \in Int
  BY IdxModAssumption DEF Index
<1>2. x \in Int
  BY <1>1, DivMod
<1>3. x % n = (idx + m) % n
  BY <1>1, ModOfMod
<1>4. (x + j) % n = ((x % n) + j) % n
  BY <1>1, <1>2, ModPlus
<1>5. (((idx + m) % n) + j) % n = (idx + m + j) % n
  BY <1>1, ModPlus
<1> QED BY <1>3, <1>4, <1>5 DEF Advance

----------------------------------------------------------------------------

\* The cell j places behind an index.
Cell(ring, idx, j) == ring[(idx + j) % Ring]

\* What is copied to the ring lies in the next cells; the others keep theirs.
LEMMA Copied ==
  ASSUME NEW ring, NEW idx \in Index, NEW cells, NEW j \in 0 .. Ring - 1,
         Len(cells) \in Nat
  PROVE  /\ j < Len(cells) => Cell(ToRing(ring, idx, cells), idx, j) = cells[j + 1]
         /\ j >= Len(cells) => Cell(ToRing(ring, idx, cells), idx, j) = Cell(ring, idx, j)
<1> DEFINE i == idx % Ring
           c == (idx + j) % Ring
<1>1. Ring \in Int /\ Ring > 0 /\ idx \in Int /\ j \in Int
  BY RingAssumption DEF Index
<1>2. i \in 0 .. Ring - 1 /\ c = (i + j) % Ring /\ c \in 0 .. Ring - 1
  <2>1. c = (i + j) % Ring
    BY <1>1, ModPlus
  <2>2. idx + j \in Int
    BY <1>1
  <2>3. i \in 0 .. Ring - 1 /\ c \in 0 .. Ring - 1
    BY <1>1, <2>2, DivMod
  <2> QED BY <2>1, <2>3
<1> HIDE DEF i
<1>3. i + j \in 0 .. (2 * Ring) - 1
  BY <1>1, <1>2
<1>4. (i + j < Ring => c = i + j) /\ (i + j >= Ring => c = i + j - Ring)
  BY <1>1, <1>2, <1>3, SmallMod
<1> HIDE DEF c
<1>5. c + Ring - i \in 0 .. (2 * Ring) - 1
  BY <1>1, <1>2
<1>6. LET a == c + Ring - i
      IN  (a < Ring => a % Ring = a) /\ (a >= Ring => a % Ring = a - Ring)
  BY <1>1, <1>5, SmallMod
<1>7. (c + Ring - i) % Ring = j
  BY <1>1, <1>2, <1>4, <1>6
<1>8. ToRing(ring, idx, cells)[c] = IF j + 1 <= Len(cells) THEN cells[j + 1] ELSE ring[c]
  BY <1>2, <1>7 DEF ToRing, i
<1>9. /\ j + 1 <= Len(cells) <=> j < Len(cells)
      /\ j >= Len(cells) => ~(j + 1 <= Len(cells))
  BY <1>1
<1> QED BY <1>8, <1>9 DEF c, Cell

\* Copied behind u cells in use, the new cells follow them: a ring is a queue.
LEMMA Appended ==
  ASSUME NEW ring, NEW cons \in Index, NEW u \in Nat, NEW cells, NEW p \in Nat,
         Len(cells) \in Nat, u + Len(cells) <= Ring, p < u + Len(cells)
  PROVE  /\ p < u => Cell(ToRing(ring, Advance(cons, u), cells), cons, p) = Cell(ring, cons, p)
         /\ p >= u => Cell(ToRing(ring, Advance(cons, u), cells), cons, p) = cells[p - u + 1]
<1> DEFINE prod == Advance(cons, u)
<1>1. Ring \in Int /\ Ring > 0 /\ cons \in Int /\ prod \in Index /\ Len(cells) \in Nat
  <2>1. Ring \in Int /\ Ring > 0 /\ cons \in Int /\ Len(cells) \in Nat
    BY RingAssumption DEF Index
  <2>2. prod \in Index
    BY <2>1, AdvanceType
  <2> QED BY <2>1, <2>2
<1>2. \A j \in Nat : (prod + j) % Ring = (cons + u + j) % Ring
  BY <1>1, RingAssumption, CellOf
<1> HIDE DEF prod
<1>3. CASE p >= u
  <2>1. /\ p - u \in 0 .. Ring - 1 /\ p - u \in Nat /\ p - u < Len(cells)
        /\ cons + u + (p - u) = cons + p
    BY <1>1, <1>3
  <2>2. (prod + (p - u)) % Ring = (cons + p) % Ring
    BY <1>2, <2>1
  <2>3. Cell(ToRing(ring, prod, cells), prod, p - u) = cells[p - u + 1]
    BY <1>1, <2>1, Copied
  <2> QED BY <1>3, <2>2, <2>3 DEF prod, Cell
<1>4. CASE p < u
  <2> DEFINE j == Ring + p - u
  <2>1. j \in 0 .. Ring - 1 /\ j \in Nat /\ j >= Len(cells) /\ cons + u + j = Ring + (cons + p)
    BY <1>1, <1>4
  <2>2. (prod + j) % Ring = (Ring + (cons + p)) % Ring
    BY <1>2, <2>1
  <2>3. (Ring + (cons + p)) % Ring = (cons + p) % Ring
    <3>1. ((Ring % Ring) + (cons + p)) % Ring = (Ring + (cons + p)) % Ring
      <4>1. cons + p \in Int
        BY <1>1
      <4> QED BY <1>1, <4>1, ModPlus
    <3>2. Ring % Ring = 0
      BY <1>1, SmallMod
    <3> QED BY <1>1, <3>1, <3>2
  <2> HIDE DEF j
  <2>4. Cell(ToRing(ring, prod, cells), prod, j) = Cell(ring, prod, j)
    BY <1>1, <2>1, Copied
  <2> QED BY <1>4, <2>2, <2>3, <2>4 DEF prod, Cell
<1> QED BY <1>1, <1>3, <1>4

----------------------------------------------------------------------------
\* The inductive invariant.  Types:
Vals      == {"absent", "other", "wanted"}
Responses == [type : {"ok", "error", "event"}, id : Nat, len : {RepLen}, val : Vals]
Positions == {"idle", "alloc", "write", "publish", "check", "armed", "blocked", "got",
              "answer", "watching", "armed on watch", "blocked on watch", "panic"}
Requested == {"none", "request", "watch", "read", "unwatch"}

Places    == [pc : Positions, op : {"none", "request", "watch", "watch_value"},
              req : Requested, h : Nat]

Shapes == /\ req_prod \in Index /\ req_cons \in Index
          /\ rsp_prod \in Index /\ rsp_cons \in Index
          /\ reqIds \in [last : Nat, table : SUBSET Nat]
          /\ kern \in Places
          /\ cb = [pc |-> cb.pc, msg |-> cb.msg] /\ cb.pc \in {"off", "look", "take", "clear"}
          /\ daemon \in [out : Seq(Responses), done : Nat, owes : BOOLEAN, watching : BOOLEAN]
          /\ store \in [val : Vals, changes : Nat]
          /\ watch_state \in BOOLEAN /\ pend \in BOOLEAN
          /\ timer \in {"off", "set", "missed"}
          /\ heap \in Nat /\ leaked \in Nat

\* The table holds the id of the request under way and no other; the id whose
\* short form is 0 is never found in it.
Issued    == kern.pc \in {"write", "publish", "check", "armed", "blocked", "got"}
Expecting == kern.pc \in {"check", "armed", "blocked"} /\ reply = <<>>
Ids == /\ reqIds.table \subseteq 1 .. reqIds.last
       /\ kern.pc # "panic" =>
            /\ reqIds.table = IF Issued THEN {kern.h} ELSE {}
            /\ reqIds.last <= ShortMod
            /\ Issued => kern.h = reqIds.last
            /\ reqIds.last = ShortMod => kern.pc \in {"write", "publish"} \/ Expecting

\* The request ring is empty or holds the request under way, whole.
Mine           == Message(kern.req, Short, ReqLen, "absent")
RequestAt(idx) == /\ ReqLen <= Ring
                  /\ \A k \in 1 .. ReqLen : req[(idx + k - 1) % Ring] = [msg |-> Mine, k |-> k]
Requests == /\ kern.pc = "publish" => RequestAt(req_prod)
            /\ req_cons # req_prod => /\ req_prod = Advance(req_cons, ReqLen)
                                      /\ kern.pc \in {"check", "armed", "blocked", "panic"}
                                      /\ RequestAt(req_cons)

\* What is in reply, while the thread waits for it or has it.
IsReply(m) == m.type # "event"
Replies ==
  /\ kern.pc \in {"write", "publish"} => reply = <<>>
  /\ kern.pc \in {"got", "answer"} => reply # <<>>
  /\ kern.pc \in {"check", "armed", "blocked", "got", "answer"} /\ reply # <<>> =>
       \E m \in Responses : reply = Cells(m) /\ IsReply(m) /\ m.id = Short

\* The buffers that are allocated: those of functions that returned, the reply
\* to XS_WATCH, and the reply the thread is about to look at.
Keeps   == \/ kern.req \in {"read", "unwatch"}
           \/ kern.req = "watch" /\ kern.pc \in {"watching", "armed on watch", "blocked on watch"}
Holds   == kern.pc \in {"check", "armed", "blocked", "got", "answer"} /\ reply # <<>>
Kept    == IF Keeps THEN 1 ELSE 0
Held    == IF Holds THEN 1 ELSE 0
Buffers == /\ kern.pc = "idle" => kern = Idle
           /\ kern.pc # "idle" => /\ kern.op = "request" => kern.req = "request"
                                  /\ kern.op # "request" =>
                                       kern.req \in {"watch", "read", "unwatch"}
           /\ kern.pc \in {"watching", "armed on watch", "blocked on watch"} => kern.op # "request"
           /\ kern.pc # "panic" => heap = leaked + Kept + Held

PanicCause == kern.pc = "panic" =>
  \/ reqIds.last >= ShortMod \/ ReqLen > Ring
  \/ req_cons = req_prod /\ Advance(req_cons, Ring) < req_cons

\* The responses the handler has not taken, ms: the first of them lie in the
\* response ring, cell behind cell, the last are the daemon's queue, and the
\* head of the queue may be in part in the ring.
InUse      == Used(rsp_prod, rsp_cons)
Gone(ms)   == Len(ms) - Len(daemon.out)
InRing(ms) ==
  /\ Gone(ms) \in Nat
  /\ daemon.done < RepLen /\ (daemon.done > 0 => daemon.out # <<>>)
  /\ InUse <= Ring
  /\ InUse = Gone(ms) * RepLen + daemon.done
  /\ \A i \in 1 .. Len(daemon.out) : daemon.out[i] = ms[Gone(ms) + i]
  /\ \A i \in 1 .. Len(ms), k \in 1 .. RepLen : (i - 1) * RepLen + k <= InUse =>
       rsp[(rsp_cons + ((i - 1) * RepLen + k - 1)) % Ring] = [msg |-> ms[i], k |-> k]

\* One of them at most is a reply, and only while the thread waits for it.
OneReply(ms) == kern.pc # "panic" =>
  /\ req_cons # req_prod => Expecting
  /\ \A i \in 1 .. Len(ms) :
       IsReply(ms[i]) => Expecting /\ req_cons = req_prod /\ ms[i].id = Short
  /\ \A i, j \in 1 .. Len(ms) : IsReply(ms[i]) /\ IsReply(ms[j]) => i = j

\* The handler has copied the first of them.
Taken(ms) == cb.pc = "take" => InUse >= RepLen /\ cb.msg = Cells(ms[1])

Stream(ms) == InRing(ms) /\ OneReply(ms) /\ Taken(ms)
Streaming  == \E ms \in Seq(Responses) : Stream(ms)

Inv == /\ Shapes /\ Ids /\ Requests /\ Replies /\ Buffers /\ PanicCause
       /\ Streaming

\* The constants are numbers.
LEMMA Sizes == /\ Ring \in Nat /\ Ring > 0 /\ ShortMod \in Nat /\ ShortMod > 0
               /\ IdxMod \in Nat /\ IdxMod > Ring
               /\ ReqLen \in Nat /\ ReqLen > 0 /\ RepLen \in Nat /\ RepLen > 0
               /\ Header \in Nat /\ Header > 0 /\ Header <= RepLen
BY IdxModAssumption, RingAssumption, LengthAssumption

\* The short form of an id is the id, as long as ids are few.
LEMMA ShortOf ==
  ASSUME Shapes
  PROVE  /\ Short \in Nat
         /\ kern.h < ShortMod => Short = kern.h
         /\ kern.h = ShortMod => Short = 0
<1>1. ShortMod \in Int /\ ShortMod > 0 /\ kern.h \in Int /\ kern.h >= 0
  BY Sizes DEF Shapes, Places
<1>2. Short \in Nat
  BY <1>1, DivMod DEF Short
<1>3. kern.h <= ShortMod => kern.h \in 0 .. (2 * ShortMod) - 1
  BY <1>1
<1> QED BY <1>1, <1>2, <1>3, SmallMod DEF Short

\* A message cut into cells.
LEMMA CellsOf ==
  ASSUME NEW m, m.len \in Nat
  PROVE  /\ Cells(m) \in Seq([msg : {m}, k : Nat]) /\ Len(Cells(m)) = m.len
         /\ \A k \in 1 .. m.len : Cells(m)[k] = [msg |-> m, k |-> k]
         /\ m.len > 0 => Cells(m) # <<>> /\ Cells(m)[1].msg = m
<1>1. \A k \in 1 .. m.len : Cells(m)[k] = [msg |-> m, k |-> k]
  BY DEF Cells
<1>2. Cells(m) \in Seq([msg : {m}, k : Nat])
  <2> DEFINE T == [msg : {m}, k : Nat]
  <2>1. \A k \in 1 .. m.len : [msg |-> m, k |-> k] \in T
    OBVIOUS
  <2> HIDE DEF T
  <2>2. Cells(m) \in Seq(T)
    BY <2>1 DEF Cells
  <2> QED BY <2>2 DEF T
<1>3. Len(Cells(m)) = m.len
  BY DEF Cells
<1>4. m.len > 0 => 1 \in 1 .. m.len
  OBVIOUS
<1>5. m.len > 0 => Cells(m) # <<>>
  BY <1>2, <1>3
<1>6. m.len > 0 => Cells(m)[1] = [msg |-> m, k |-> 1]
  BY <1>1, <1>4
<1> QED BY <1>1, <1>2, <1>3, <1>5, <1>6

\* The first cell of the request ring.
LEMMA FirstCell ==
  ASSUME Shapes, RequestAt(req_cons)
  PROVE  req[req_cons % Ring] = [msg |-> Mine, k |-> 1]
<1>1. 1 \in 1 .. ReqLen /\ req_cons + 1 - 1 = req_cons
  BY Sizes, SMTT(40) DEF Shapes, Index
<1> QED BY <1>1 DEF RequestAt

----------------------------------------------------------------------------
\* The invariant holds after xenbus_init.
LEMMA InitInv == Init => Inv
<1> SUFFICES ASSUME Init PROVE Inv
  OBVIOUS
<1>1. Shapes /\ Ids /\ Replies /\ Buffers /\ PanicCause
  <2> USE DEF Init, Idle
  <2>1. Shapes
    <3>1. <<>> \in Seq(Responses) /\ 0 < RepLen
      BY Sizes
    <3>2. /\ req_prod \in Index /\ req_cons \in Index
          /\ rsp_prod \in Index /\ rsp_cons \in Index
      BY StartAssumption DEF Index
    <3> QED BY <3>1, <3>2 DEF Shapes, Places, Positions, Requested, Vals
  <2>2. Ids
    BY Sizes DEF Ids, Issued
  <2>3. Replies /\ Buffers /\ PanicCause
    BY DEF Replies, Buffers, Keeps, Holds, Kept, Held, PanicCause
  <2> QED BY <2>1, <2>2, <2>3
<1>2. Requests
  BY DEF Init, Idle, Requests
<1>3. Stream(<<>>)
  <2>1. InUse = 0
    BY <1>1, UsedNone DEF Init, Shapes, InUse
  <2>2. Len(<<>>) = 0 /\ Gone(<<>>) = 0 /\ daemon.done = 0 /\ daemon.out = <<>> /\ 0 * RepLen = 0
    BY Sizes DEF Init, Gone
  <2>3. InRing(<<>>)
    BY <2>1, <2>2, Sizes DEF InRing
  <2>4. OneReply(<<>>) /\ Taken(<<>>)
    BY <2>2 DEF Init, OneReply, Taken
  <2> QED BY <2>3, <2>4 DEF Stream
<1>4. <<>> \in Seq(Responses)
  OBVIOUS
<1>5. Streaming
  BY <1>3, <1>4 DEF Streaming
<1> QED BY <1>1, <1>2, <1>5 DEF Inv

\* Steps of the thread do not touch the responses.
LEMMA StreamStays ==
  ASSUME NEW ms, Stream(ms), UNCHANGED <<rsps, daemon, cb>>, OneReply(ms)'
  PROVE  Stream(ms)'
BY DEF Stream, InRing, Taken, InUse, Gone, rsps

\* A client calls a function: nothing is under way.
LEMMA StartKeeps ==
  ASSUME Inv, NEW op \in Ops, Start(op)
  PROVE  Inv'
<1> USE DEF Inv, Start, At, Idle, reqs, rsps, names, outer
<1> PICK ms \in Seq(Responses) : Stream(ms)
  BY DEF Streaming
<1>1. Shapes'
  BY OpsAssumption DEF Shapes, Places, Positions, Requested
<1>2. Ids' /\ Replies' /\ PanicCause'
  BY DEF Ids, Issued, Expecting, Replies, PanicCause
<1>3. Requests'
  BY DEF Requests
<1>4. Buffers'
  BY OpsAssumption DEF Buffers, Keeps, Holds, Kept, Held, Idle, Shapes
<1>5. OneReply(ms)'
  BY DEF Stream, OneReply, Expecting
<1> QED BY <1>1, <1>2, <1>3, <1>4, <1>5, StreamStays DEF Streaming

\* Goto changes the place of the thread and nothing else of its frame.
Stays == /\ kern' \in Places /\ kern'.op = kern.op /\ kern'.req = kern.req
         /\ kern'.h = kern.h /\ Short' = Short

\* ... the function, the request and its id stay.
LEMMA GotoStays ==
  ASSUME Shapes, NEW pc \in Positions, Goto(pc)
  PROVE  kern'.pc = pc /\ Stays
BY DEF Shapes, Goto, Stays, Places, Short

\* Send starts another request of the same function.
Sends(r) == kern' \in Places /\ kern'.pc = "alloc" /\ kern'.op = kern.op /\ kern'.req = r

\* ... in a place of the thread.
LEMMA SendSends ==
  ASSUME Shapes, NEW r \in Requested, Send(r)
  PROVE  Sends(r)
BY DEF Shapes, Send, Sends, Places, Positions

\* So is the place where no function runs.
LEMMA IdleIsPlace == Idle \in Places
BY DEF Idle, Places, Positions, Requested

\* xenbus_msg_reply takes an id, and nothing answers it yet.
LEMMA AllocateKeeps ==
  ASSUME Inv, Allocate
  PROVE  Inv'
<1> USE DEF Inv
<1> PICK ms \in Seq(Responses) : Stream(ms)
  BY DEF Streaming
<1>0. /\ kern.pc = "alloc" /\ kern'.pc = "write" /\ kern' \in Places
      /\ kern'.op = kern.op /\ kern'.req = kern.req /\ kern'.h = reqIds.last + 1
      /\ reqIds' = [last |-> reqIds.last + 1, table |-> reqIds.table \cup {reqIds.last + 1}]
      /\ reply' = <<>>
      /\ UNCHANGED <<req, req_prod, req_cons, rsps, heap, leaked, watch_state, cb, pend,
                     daemon, store, timer>>
  <2>1. /\ kern.pc = "alloc" /\ kern' = [kern EXCEPT !.pc = "write", !.h = reqIds.last + 1]
        /\ reqIds.last + 1 \in Nat
    BY DEF Allocate, Shapes, At, reqs, rsps, names, outer
  <2>2. kern' \in Places /\ kern'.pc = "write" /\ kern'.op = kern.op /\ kern'.req = kern.req
    BY <2>1 DEF Shapes, Places, Positions
  <2>3. kern'.h = reqIds.last + 1
    BY <2>1 DEF Shapes, Places
  <2> QED BY <2>1, <2>2, <2>3 DEF Allocate, At, reqs, rsps, names, outer
<1>1. Shapes'
  <2>1. reqIds' \in [last : Nat, table : SUBSET Nat]
    BY <1>0 DEF Shapes
  <2> QED BY <1>0, <2>1 DEF Shapes, rsps
<1>2. Ids' /\ Replies' /\ PanicCause'
  <2>1. Ids'
    BY <1>0, Sizes DEF Ids, Issued, Expecting, Shapes
  <2>2. Replies'
    BY <1>0, Sizes DEF Ids, Issued, Expecting, Replies, Shapes
  <2>3. PanicCause'
    BY <1>0 DEF PanicCause
  <2> QED BY <2>1, <2>2, <2>3
<1>3. Requests'
  BY <1>0 DEF Requests
<1>4. Buffers'
  BY <1>0 DEF Stays, Shapes, Replies, Buffers, Keeps, Holds, Kept, Held
<1>5. OneReply(ms)'
  BY <1>0 DEF Stays, Stream, Replies, OneReply, Expecting
<1> QED BY <1>0, <1>1, <1>2, <1>3, <1>4, <1>5, StreamStays DEF Streaming, rsps, outer

\* The request is copied to an empty ring.
LEMMA WriteRingKeeps ==
  ASSUME Inv, WriteRing
  PROVE  Inv'
<1> USE DEF Inv
<1> PICK ms \in Seq(Responses) : Stream(ms)
  BY DEF Streaming
<1>0. /\ kern.pc = "write" /\ ~WriteBug /\ kern'.pc = "publish" /\ Stays
      /\ req' = ToRing(req, req_prod, Cells(Mine))
      /\ UNCHANGED <<req_prod, req_cons, rsps, reqIds, heap, leaked, reply, watch_state, cb,
                     pend, daemon, store, timer>>
  BY GotoStays DEF WriteRing, Positions, Mine, At, reqs, rsps, names, outer
<1>1. Shapes'
  BY <1>0 DEF Shapes, Stays, rsps
<1>2. Ids' /\ Replies' /\ PanicCause'
  BY <1>0 DEF Stays, Ids, Issued, Expecting, Replies, PanicCause
<1>3. Requests'
  <2>1. ReqLen <= Ring /\ req_cons = req_prod /\ kern'.pc = "publish"
    BY <1>0, Sizes DEF WriteBug, Requests
  <2>2. RequestAt(req_prod)'
    <3> DEFINE cells == Cells(Mine)
    <3>1. Mine.len = ReqLen /\ Mine' = Mine
      BY <1>0 DEF Mine, Message, Stays
    <3>2. /\ cells \in Seq([msg : {Mine}, k : Nat]) /\ Len(cells) = ReqLen
          /\ \A k \in 1 .. ReqLen : cells[k] = [msg |-> Mine, k |-> k]
      BY <3>1, Sizes, CellsOf
    <3>3. req' = ToRing(req, req_prod, cells)
      BY <1>0
    <3> HIDE DEF cells
    <3>4. ASSUME NEW k \in 1 .. ReqLen
          PROVE  req'[(req_prod + k - 1) % Ring] = [msg |-> Mine, k |-> k]
      <4>1. k - 1 \in 0 .. Ring - 1 /\ k - 1 < Len(cells) /\ k - 1 + 1 = k
        BY <2>1, <3>2, Sizes
      <4>2. req_prod + (k - 1) = req_prod + k - 1 /\ req_prod \in Index
        BY <4>1 DEF Shapes, Index
      <4>3. Cell(ToRing(req, req_prod, cells), req_prod, k - 1) = cells[k - 1 + 1]
        BY <3>2, <4>1, <4>2, Copied
      <4> QED BY <3>2, <3>3, <4>1, <4>2, <4>3 DEF Cell
    <3> QED BY <1>0, <2>1, <3>1, <3>4 DEF RequestAt
  <2> QED BY <1>0, <2>1, <2>2 DEF Requests
<1>4. Buffers'
  BY <1>0 DEF Stays, Shapes, Replies, Buffers, Keeps, Holds, Kept, Held
<1>5. OneReply(ms)'
  BY <1>0 DEF Stays, Stream, Replies, OneReply, Expecting
<1> QED BY <1>0, <1>1, <1>2, <1>3, <1>4, <1>5, StreamStays DEF Streaming, rsps, outer

\* The assertions of xenbus_write_ring.
LEMMA WritePanicKeeps ==
  ASSUME Inv, WritePanic
  PROVE  Inv'
<1> USE DEF Inv
<1> PICK ms \in Seq(Responses) : Stream(ms)
  BY DEF Streaming
<1>0. /\ kern.pc = "write" /\ WriteBug /\ kern'.pc = "panic" /\ Stays
      /\ UNCHANGED <<req, req_prod, req_cons, rsps, reqIds, heap, leaked, reply, watch_state,
                     cb, pend, daemon, store, timer>>
  BY GotoStays DEF WritePanic, Positions, At, reqs, rsps, names, outer
<1>1. Shapes'
  BY <1>0 DEF Shapes, Stays, rsps
<1>2. Ids' /\ Replies' /\ PanicCause'
  <2>1. Ids' /\ Replies'
    BY <1>0 DEF Ids, Issued, Expecting, Replies
  <2>2. req_cons = req_prod
    BY <1>0 DEF Requests
  <2>3. ASSUME Advance(req_prod, ReqLen) > Advance(req_cons, Ring), ReqLen <= Ring
        PROVE  Advance(req_cons, Ring) < req_cons
    <3> DEFINE c == req_cons
    <3>1. IdxMod \in Int /\ IdxMod > 0 /\ c \in 0 .. IdxMod - 1 /\ Ring \in Nat /\ ReqLen \in Nat
      BY Sizes, SMTT(40) DEF Shapes, Index
    <3>2. c + Ring \in 0 .. (2 * IdxMod) - 1 /\ c + ReqLen \in 0 .. (2 * IdxMod) - 1
      BY <2>3, <3>1, Sizes
    <3>3. /\ c + Ring < IdxMod => (c + Ring) % IdxMod = c + Ring
          /\ c + Ring >= IdxMod => (c + Ring) % IdxMod = c + Ring - IdxMod
      BY <3>1, <3>2, SmallMod
    <3>4. c + ReqLen < IdxMod => (c + ReqLen) % IdxMod = c + ReqLen
      BY <3>1, <3>2, SmallMod
    <3> QED BY <2>2, <2>3, <3>1, <3>2, <3>3, <3>4, Sizes DEF Advance
  <2> QED BY <1>0, <2>1, <2>2, <2>3, Sizes DEF PanicCause, WriteBug
<1>3. Requests'
  BY <1>0 DEF Stays, Requests, RequestAt, Mine
<1>4. Buffers'
  BY <1>0 DEF Stays, Shapes, Replies, Buffers, Keeps, Holds, Kept, Held
<1>5. OneReply(ms)'
  BY <1>0 DEF Stays, Stream, Replies, OneReply, Expecting
<1> QED BY <1>0, <1>1, <1>2, <1>3, <1>4, <1>5, StreamStays DEF Streaming, rsps, outer

\* From here on the daemon may read the request, and the reply may come.
LEMMA PublishKeeps ==
  ASSUME Inv, Publish
  PROVE  Inv'
<1> USE DEF Inv
<1> PICK ms \in Seq(Responses) : Stream(ms)
  BY DEF Streaming
<1>0. /\ kern.pc = "publish" /\ kern'.pc = "check" /\ Stays
      /\ req_prod' = Advance(req_prod, ReqLen)
      /\ UNCHANGED <<req, req_cons, rsps, reqIds, heap, leaked, reply, watch_state, cb, pend,
                     daemon, store, timer>>
  BY GotoStays DEF Publish, Positions, At, reqs, rsps, names, outer
<1>1. Shapes'
  <2>1. req_prod' \in Index
    BY <1>0, Sizes, AdvanceType, SMTT(40) DEF Shapes, Index
  <2> QED BY <1>0, <2>1 DEF Shapes, Stays, rsps
<1>2. Ids' /\ Replies' /\ PanicCause'
  BY <1>0 DEF Stays, Ids, Issued, Expecting, Replies, PanicCause
<1>3. Requests'
  <2>1. req_cons = req_prod /\ RequestAt(req_cons)'
    BY <1>0 DEF Requests, RequestAt, Mine, Stays
  <2> QED BY <1>0, <2>1 DEF Requests
<1>4. Buffers'
  BY <1>0 DEF Stays, Shapes, Replies, Buffers, Keeps, Holds, Kept, Held
<1>5. OneReply(ms)'
  BY <1>0 DEF Stays, Stream, Replies, OneReply, Expecting
<1> QED BY <1>0, <1>1, <1>2, <1>3, <1>4, <1>5, StreamStays DEF Streaming, rsps, outer

\* The thread looks for its reply,
LEMMA CheckReplyKeeps ==
  ASSUME Inv, CheckReply
  PROVE  Inv'
<1> USE DEF Inv
<1> PICK ms \in Seq(Responses) : Stream(ms)
  BY DEF Streaming
<1>0. /\ kern.pc = "check" /\ kern'.pc = (IF reply = <<>> THEN "armed" ELSE "got") /\ Stays
      /\ timer' \in {"set", timer}
      /\ UNCHANGED <<req, req_prod, req_cons, rsps, reqIds, heap, leaked, reply, watch_state,
                     cb, pend, daemon, store>>
  BY GotoStays DEF CheckReply, Positions, At, reqs, rsps, names, outer
<1>1. Shapes'
  BY <1>0 DEF Shapes, Stays, rsps
<1>2. Ids' /\ Replies' /\ PanicCause'
  BY <1>0 DEF Stays, Ids, Issued, Expecting, Replies, PanicCause
<1>3. Requests'
  BY <1>0 DEF Stays, Requests, RequestAt, Mine, Stream, OneReply, Expecting
<1>4. Buffers'
  BY <1>0 DEF Stays, Shapes, Replies, Buffers, Keeps, Holds, Kept, Held
<1>5. OneReply(ms)'
  BY <1>0 DEF Stays, Stream, Replies, OneReply, Expecting
<1> QED BY <1>0, <1>1, <1>2, <1>3, <1>4, <1>5, StreamStays DEF Streaming, rsps, outer

\* ... and if it is not there, the thread blocks,
LEMMA BlockKeeps ==
  ASSUME Inv, Block
  PROVE  Inv'
<1> USE DEF Inv
<1> PICK ms \in Seq(Responses) : Stream(ms)
  BY DEF Streaming
<1>0. /\ \/ kern.pc = "armed" /\ kern'.pc = "blocked"
         \/ kern.pc = "armed on watch" /\ kern'.pc = "blocked on watch"
      /\ Stays
      /\ UNCHANGED <<req, req_prod, req_cons, rsps, reqIds, heap, leaked, reply, watch_state,
                     cb, pend, daemon, store, timer>>
  BY GotoStays DEF Block, Positions, At, reqs, rsps, names, outer
<1>1. Shapes'
  BY <1>0 DEF Shapes, Stays, rsps
<1>2. Ids' /\ Replies' /\ PanicCause'
  BY <1>0 DEF Stays, Ids, Issued, Expecting, Replies, PanicCause
<1>3. Requests'
  BY <1>0 DEF Stays, Requests, RequestAt, Mine
<1>4. Buffers'
  BY <1>0 DEF Stays, Shapes, Replies, Buffers, Keeps, Holds, Kept, Held
<1>5. OneReply(ms)'
  BY <1>0 DEF Stays, Stream, Replies, OneReply, Expecting
<1> QED BY <1>0, <1>1, <1>2, <1>3, <1>4, <1>5, StreamStays DEF Streaming, rsps, outer

\* ... until an event ends the block, and it looks again.
Wakes == /\ Stays
         /\ \/ kern' = kern
            \/ kern.pc = "blocked" /\ kern'.pc = "check"
            \/ kern.pc = "blocked on watch" /\ kern'.pc = "watching"

LEMMA UnblockWakes ==
  ASSUME Shapes, Unblock
  PROVE  Wakes
<1>1. CASE kern.pc = "blocked"
  BY <1>1, GotoStays DEF Unblock, Wakes, Positions
<1>2. CASE kern.pc = "blocked on watch"
  BY <1>2, GotoStays DEF Unblock, Wakes, Positions
<1>3. CASE kern.pc \notin {"blocked", "blocked on watch"}
  <2>1. Goto(kern.pc) /\ kern.pc \in Positions
    BY <1>3 DEF Unblock, Shapes, Places
  <2>2. kern' = kern
    BY <2>1 DEF Goto, Shapes, Places
  <2> QED BY <2>1, <2>2, GotoStays DEF Wakes
<1> QED BY <1>1, <1>2, <1>3

LEMMA ExpireKeeps ==
  ASSUME Inv, Expire \/ OtherEvent
  PROVE  Inv'
<1> USE DEF Inv
<1> PICK ms \in Seq(Responses) : Stream(ms)
  BY DEF Streaming
<1>0. /\ Wakes /\ timer' \in {"off", "missed", timer}
      /\ UNCHANGED <<req, req_prod, req_cons, rsps, reqIds, heap, leaked, reply, watch_state,
                     cb, pend, daemon, store>>
  BY UnblockWakes DEF Expire, OtherEvent, reqs, rsps, names, outer
<1>1. Shapes'
  BY <1>0 DEF Shapes, Wakes, Stays, rsps
<1>2. Ids' /\ Replies' /\ PanicCause'
  BY <1>0 DEF Wakes, Stays, Ids, Issued, Expecting, Replies, PanicCause
<1>3. Requests'
  BY <1>0 DEF Wakes, Stays, Requests, RequestAt, Mine
<1>4. Buffers'
  BY <1>0 DEF Wakes, Stays, Shapes, Replies, Buffers, Keeps, Holds, Kept, Held
<1>5. OneReply(ms)'
  BY <1>0 DEF Wakes, Stays, Stream, Replies, OneReply, Expecting
<1> QED BY <1>0, <1>1, <1>2, <1>3, <1>4, <1>5, StreamStays DEF Streaming, rsps, outer

\* The reply is there and has the id of the request.
LEMMA GotReplyKeeps ==
  ASSUME Inv, GotReply
  PROVE  Inv'
<1> USE DEF Inv
<1> PICK ms \in Seq(Responses) : Stream(ms)
  BY DEF Streaming
<1>0. /\ kern.pc = "got" /\ kern'.pc = "answer" /\ Stays
      /\ reqIds' = [reqIds EXCEPT !.table = {}]
      /\ UNCHANGED <<req, req_prod, req_cons, rsps, heap, leaked, reply, watch_state, cb, pend,
                     daemon, store, timer>>
  <2>1. kern.pc = "got"
    BY DEF GotReply, At
  <2>2. PICK m \in Responses : reply = Cells(m) /\ IsReply(m) /\ m.id = Short
    BY <2>1 DEF Replies
  <2>3. reply # <<>> /\ reply[1].msg.id = Short
    <3>1. m.len = RepLen /\ m.len > 0 /\ m.len \in Nat
      BY Sizes DEF Responses
    <3> QED BY <2>2, <3>1, CellsOf
  <2>4. kern.h < ShortMod /\ reqIds.table = {kern.h}
    BY <2>1, Sizes DEF Ids, Issued, Expecting, Shapes
  <2>5. reqIds.table \ {Short} = {}
    BY <2>4, ShortOf
  <2> QED BY <2>1, <2>3, <2>5, GotoStays DEF GotReply, Positions, At, reqs, rsps, names, outer
<1>1. Shapes'
  <2>1. reqIds' \in [last : Nat, table : SUBSET Nat]
    BY <1>0 DEF Shapes
  <2> QED BY <1>0, <2>1 DEF Shapes, Stays, rsps
<1>2. Ids' /\ Replies' /\ PanicCause'
  BY <1>0, Sizes DEF Shapes, Stays, Ids, Issued, Expecting, Replies, PanicCause
<1>3. Requests'
  BY <1>0 DEF Requests
<1>4. Buffers'
  BY <1>0 DEF Stays, Shapes, Replies, Buffers, Keeps, Holds, Kept, Held
<1>5. OneReply(ms)'
  BY <1>0 DEF Stays, Stream, Replies, OneReply, Expecting
<1> QED BY <1>0, <1>1, <1>2, <1>3, <1>4, <1>5, StreamStays DEF Streaming, rsps, outer

\* The function returns and frees the reply.
LEMMA RequestDoneKeeps ==
  ASSUME Inv, RequestDone
  PROVE  Inv'
<1> USE DEF Inv
<1> PICK ms \in Seq(Responses) : Stream(ms)
  BY DEF Streaming
<1>0. /\ kern.pc = "answer" /\ kern.req = "request" /\ reply # <<>>
      /\ kern' = Idle /\ heap' = heap - 1
      /\ UNCHANGED <<req, req_prod, req_cons, rsps, reqIds, leaked, reply, watch_state, cb,
                     pend, daemon, store, timer>>
  BY DEF RequestDone, Return, Replies, At, reqs, rsps, names, outer
<1>1. Shapes'
  <2>1. kern' \in Places
    BY <1>0, IdleIsPlace DEF Stays, Sends
  <2>2. heap' \in Nat /\ leaked' \in Nat
    BY <1>0 DEF Shapes, Buffers, Keeps, Holds, Kept, Held
  <2> QED BY <1>0, <2>1, <2>2 DEF Shapes, rsps
<1>2. Ids' /\ Replies' /\ PanicCause'
  BY <1>0 DEF Stays, Sends, Ids, Issued, Expecting, Replies, PanicCause, Idle, Shapes
<1>3. Requests'
  BY <1>0 DEF Stays, Sends, Requests, Idle
<1>4. Buffers'
  <2>1. heap = leaked + Kept + Held
    BY <1>0 DEF Buffers
  <2> QED BY <1>0, <2>1 DEF Shapes, Buffers, Keeps, Holds, Kept, Held, Idle
<1>5. OneReply(ms)'
  BY <1>0 DEF Stays, Sends, Stream, OneReply, Expecting, Idle
<1> QED BY <1>0, <1>1, <1>2, <1>3, <1>4, <1>5, StreamStays DEF Streaming, rsps, outer

\* The reply to XS_WATCH is kept while the watch is on.
LEMMA WatchSetKeeps ==
  ASSUME Inv, WatchSet
  PROVE  Inv'
<1> USE DEF Inv
<1> PICK ms \in Seq(Responses) : Stream(ms)
  BY DEF Streaming
<1>0. /\ kern.pc = "answer" /\ kern.req = "watch" /\ reply # <<>>
      /\ \/ kern' = Idle /\ heap' = heap - 1
         \/ kern'.pc = "watching" /\ Stays /\ heap' = heap
      /\ UNCHANGED <<req, req_prod, req_cons, rsps, reqIds, leaked, reply, watch_state, cb,
                     pend, daemon, store, timer>>
  BY GotoStays DEF WatchSet, Return, Replies, Positions, At, reqs, rsps, names, outer
<1>1. Shapes'
  <2>1. kern' \in Places
    BY <1>0, IdleIsPlace DEF Stays, Sends
  <2>2. heap' \in Nat /\ leaked' \in Nat
    BY <1>0 DEF Shapes, Buffers, Keeps, Holds, Kept, Held
  <2> QED BY <1>0, <2>1, <2>2 DEF Shapes, rsps
<1>2. Ids' /\ Replies' /\ PanicCause'
  BY <1>0 DEF Stays, Sends, Ids, Issued, Expecting, Replies, PanicCause, Idle, Shapes
<1>3. Requests'
  BY <1>0 DEF Stays, Sends, Requests, Idle
<1>4. Buffers'
  <2>1. heap = leaked + Kept + Held
    BY <1>0 DEF Buffers
  <2>2. CASE kern' = Idle
    BY <1>0, <2>1, <2>2 DEF Shapes, Buffers, Keeps, Holds, Kept, Held, Idle, Stays, Sends
  <2>3. CASE kern' # Idle
    <3>1. /\ kern'.pc # "idle" /\ kern'.op = kern.op
          /\ kern'.op = "request" => kern'.req = "request"
          /\ kern'.op # "request" => kern'.req \in {"watch", "read", "unwatch"}
          /\ kern'.pc \in {"watching", "armed on watch", "blocked on watch"} => kern'.op # "request"
      BY <1>0, <2>3 DEF Buffers, Stays, Sends
    <3>2. Kept' = 1 /\ Held' = 0
      BY <1>0, <2>3 DEF Buffers, Keeps, Holds, Kept, Held, Stays, Sends
    <3>3. Kept = 0 /\ Held = 1
      BY <1>0 DEF Buffers, Keeps, Holds, Kept, Held
    <3>4. leaked' \in Nat /\ heap' = leaked' + 1
      <4>1. leaked \in Nat /\ heap = leaked + 1
        BY <2>1, <3>3 DEF Shapes
      <4> QED BY <1>0, <2>3, <4>1
    <3>5. heap' = leaked' + Kept' + Held'
      BY <3>2, <3>4
    <3> QED BY <3>1, <3>5 DEF Buffers
  <2> QED BY <2>2, <2>3
<1>5. OneReply(ms)'
  BY <1>0 DEF Stays, Sends, Stream, OneReply, Expecting, Idle
<1> QED BY <1>0, <1>1, <1>2, <1>3, <1>4, <1>5, StreamStays DEF Streaming, rsps, outer

\* The signal is taken, or waited for.
LEMMA WatchTestKeeps ==
  ASSUME Inv, WatchTest
  PROVE  Inv'
<1> USE DEF Inv
<1> PICK ms \in Seq(Responses) : Stream(ms)
  BY DEF Streaming
<1>0. /\ kern.pc = "watching"
      /\ \/ Sends("read")
         \/ kern'.pc = "armed on watch" /\ Stays
      /\ watch_state' = FALSE /\ timer' \in {"set", timer}
      /\ UNCHANGED <<req, req_prod, req_cons, rsps, reqIds, heap, leaked, reply, cb, pend,
                     daemon, store>>
  <2>1. CASE watch_state
    BY <2>1, SendSends DEF WatchTest, Requested, At, reqs, rsps, names, outer
  <2>2. CASE ~watch_state
    BY <2>2, GotoStays DEF WatchTest, Positions, At, reqs, rsps, names, outer
  <2> QED BY <2>1, <2>2
<1>1. Shapes'
  <2>1. kern' \in Places
    BY <1>0, IdleIsPlace DEF Stays, Sends
  <2>2. heap' \in Nat /\ leaked' \in Nat
    BY <1>0 DEF Shapes, Buffers, Keeps, Holds, Kept, Held
  <2> QED BY <1>0, <2>1, <2>2 DEF Shapes, rsps
<1>2. Ids' /\ Replies' /\ PanicCause'
  BY <1>0 DEF Stays, Sends, Ids, Issued, Expecting, Replies, PanicCause, Idle, Shapes
<1>3. Requests'
  BY <1>0 DEF Stays, Sends, Requests, Idle
<1>4. Buffers'
  <2>1. heap = leaked + Kept + Held
    BY <1>0 DEF Buffers
  <2>2. CASE kern' = Idle
    BY <1>0, <2>1, <2>2 DEF Shapes, Buffers, Keeps, Holds, Kept, Held, Idle, Stays, Sends
  <2>3. CASE kern' # Idle
    <3>1. /\ kern'.pc # "idle" /\ kern'.op = kern.op
          /\ kern'.op = "request" => kern'.req = "request"
          /\ kern'.op # "request" => kern'.req \in {"watch", "read", "unwatch"}
          /\ kern'.pc \in {"watching", "armed on watch", "blocked on watch"} => kern'.op # "request"
      BY <1>0, <2>3 DEF Buffers, Stays, Sends
    <3>2. Kept' = 1 /\ Held' = 0
      BY <1>0, <2>3 DEF Buffers, Keeps, Holds, Kept, Held, Stays, Sends
    <3>3. Kept = 1 /\ Held = 0
      BY <1>0 DEF Buffers, Keeps, Holds, Kept, Held
    <3>4. leaked' \in Nat /\ heap' = leaked' + 1
      <4>1. leaked \in Nat /\ heap = leaked + 1
        BY <2>1, <3>3 DEF Shapes
      <4> QED BY <1>0, <2>3, <4>1
    <3>5. heap' = leaked' + Kept' + Held'
      BY <3>2, <3>4
    <3> QED BY <3>1, <3>5 DEF Buffers
  <2> QED BY <2>2, <2>3
<1>5. OneReply(ms)'
  BY <1>0 DEF Stays, Sends, Stream, OneReply, Expecting, Idle
<1> QED BY <1>0, <1>1, <1>2, <1>3, <1>4, <1>5, StreamStays DEF Streaming, rsps, outer

\* The reply to XS_READ is freed, with the one to XS_WATCH when the function ends.
LEMMA ReadDoneKeeps ==
  ASSUME Inv, ReadDone
  PROVE  Inv'
<1> USE DEF Inv
<1> PICK ms \in Seq(Responses) : Stream(ms)
  BY DEF Streaming
<1>0. /\ kern.pc = "answer" /\ kern.req = "read" /\ reply # <<>>
      /\ \/ kern' = Idle /\ heap' = heap - 2
         \/ Sends("unwatch") /\ kern.op # "request" /\ heap' = heap - 1
         \/ kern'.pc = "watching" /\ Stays /\ heap' = heap - 1
      /\ UNCHANGED <<req, req_prod, req_cons, rsps, reqIds, leaked, reply, watch_state, cb,
                     pend, daemon, store, timer>>
  <2>1. /\ kern.pc = "answer" /\ kern.req = "read" /\ reply # <<>>
        /\ \/ Return(2)
           \/ Send("unwatch") /\ kern.op # "request" /\ heap' = heap - 1
           \/ Goto("watching") /\ heap' = heap - 1
        /\ UNCHANGED <<req, req_prod, req_cons, rsps, reqIds, leaked, reply, watch_state, cb,
                       pend, daemon, store, timer>>
    BY DEF ReadDone, Replies, Buffers, At, reqs, rsps, names, outer
  <2>2. CASE Return(2)
    BY <2>1, <2>2 DEF Return
  <2>3. CASE Send("unwatch") /\ kern.op # "request" /\ heap' = heap - 1
    BY <2>1, <2>3, SendSends DEF Requested
  <2>4. CASE Goto("watching") /\ heap' = heap - 1
    BY <2>1, <2>4, GotoStays DEF Positions
  <2> QED BY <2>1, <2>2, <2>3, <2>4
<1>1. Shapes'
  <2>1. kern' \in Places
    BY <1>0, IdleIsPlace DEF Stays, Sends
  <2>2. heap' \in Nat /\ leaked' \in Nat
    BY <1>0 DEF Shapes, Buffers, Keeps, Holds, Kept, Held
  <2> QED BY <1>0, <2>1, <2>2 DEF Shapes, rsps
<1>2. Ids' /\ Replies' /\ PanicCause'
  BY <1>0 DEF Stays, Sends, Ids, Issued, Expecting, Replies, PanicCause, Idle, Shapes
<1>3. Requests'
  BY <1>0 DEF Stays, Sends, Requests, Idle
<1>4. Buffers'
  <2>1. heap = leaked + Kept + Held
    BY <1>0 DEF Buffers
  <2>2. CASE kern' = Idle
    BY <1>0, <2>1, <2>2 DEF Shapes, Buffers, Keeps, Holds, Kept, Held, Idle, Stays, Sends
  <2>3. CASE kern' # Idle
    <3>1. /\ kern'.pc # "idle" /\ kern'.op = kern.op
          /\ kern'.op = "request" => kern'.req = "request"
          /\ kern'.op # "request" => kern'.req \in {"watch", "read", "unwatch"}
          /\ kern'.pc \in {"watching", "armed on watch", "blocked on watch"} => kern'.op # "request"
      BY <1>0, <2>3 DEF Buffers, Stays, Sends
    <3>2. Kept' = 1 /\ Held' = 0
      BY <1>0, <2>3 DEF Buffers, Keeps, Holds, Kept, Held, Stays, Sends
    <3>3. Kept = 1 /\ Held = 1
      BY <1>0 DEF Buffers, Keeps, Holds, Kept, Held
    <3>4. leaked' \in Nat /\ heap' = leaked' + 1
      <4>1. leaked \in Nat /\ heap = leaked + 2
        BY <2>1, <3>3 DEF Shapes
      <4> QED BY <1>0, <2>3, <4>1
    <3>5. heap' = leaked' + Kept' + Held'
      BY <3>2, <3>4
    <3> QED BY <3>1, <3>5 DEF Buffers
  <2> QED BY <2>2, <2>3
<1>5. OneReply(ms)'
  BY <1>0 DEF Stays, Sends, Stream, OneReply, Expecting, Idle
<1> QED BY <1>0, <1>1, <1>2, <1>3, <1>4, <1>5, StreamStays DEF Streaming, rsps, outer

\* The reply to XS_WATCH stays allocated.
LEMMA UnwatchDoneKeeps ==
  ASSUME Inv, UnwatchDone
  PROVE  Inv'
<1> USE DEF Inv
<1> PICK ms \in Seq(Responses) : Stream(ms)
  BY DEF Streaming
<1>0. /\ kern.pc = "answer" /\ kern.req = "unwatch" /\ reply # <<>>
      /\ kern' = Idle /\ heap' = heap - 1 /\ leaked' = leaked + 1
      /\ UNCHANGED <<req, req_prod, req_cons, rsps, reqIds, reply, watch_state, cb, pend,
                     daemon, store, timer>>
  BY DEF UnwatchDone, Return, Replies, At, reqs, rsps, names, outer
<1>1. Shapes'
  <2>1. kern' \in Places
    BY <1>0, IdleIsPlace DEF Stays, Sends
  <2>2. heap' \in Nat /\ leaked' \in Nat
    BY <1>0 DEF Shapes, Buffers, Keeps, Holds, Kept, Held
  <2> QED BY <1>0, <2>1, <2>2 DEF Shapes, rsps
<1>2. Ids' /\ Replies' /\ PanicCause'
  BY <1>0 DEF Stays, Sends, Ids, Issued, Expecting, Replies, PanicCause, Idle, Shapes
<1>3. Requests'
  BY <1>0 DEF Stays, Sends, Requests, Idle
<1>4. Buffers'
  <2>1. heap = leaked + Kept + Held
    BY <1>0 DEF Buffers
  <2> QED BY <1>0, <2>1 DEF Shapes, Buffers, Keeps, Holds, Kept, Held, Idle
<1>5. OneReply(ms)'
  BY <1>0 DEF Stays, Sends, Stream, OneReply, Expecting, Idle
<1> QED BY <1>0, <1>1, <1>2, <1>3, <1>4, <1>5, StreamStays DEF Streaming, rsps, outer

----------------------------------------------------------------------------
\* How much the ring holds of the messages on their way.
LEMMA InRingFacts ==
  ASSUME Shapes, NEW ms \in Seq(Responses), InRing(ms)
  PROVE  /\ InUse \in Nat /\ InUse <= Ring /\ InUse < IdxMod
         /\ Gone(ms) \in Nat /\ daemon.done \in Nat /\ Len(daemon.out) \in Nat
         /\ Len(ms) = Gone(ms) + Len(daemon.out)
         /\ InUse > 0 => Len(ms) > 0
         /\ InUse >= RepLen => Gone(ms) > 0 /\ Len(ms) > 0
<1>1. InUse \in Nat /\ InUse <= Ring /\ InUse < IdxMod
  <2>1. InUse \in Index /\ InUse <= Ring
    BY AdvanceUsed DEF Shapes, InRing, InUse
  <2> QED BY <2>1, Sizes DEF Index
<1>2. Gone(ms) \in Nat /\ daemon.done \in Nat /\ daemon.done < RepLen
  BY DEF Shapes, InRing
<1>3. Len(daemon.out) \in Nat /\ Len(ms) = Gone(ms) + Len(daemon.out)
  BY DEF Shapes, Gone
<1>4. daemon.done > 0 => Len(daemon.out) > 0
  BY <1>3 DEF Shapes, InRing
<1>5. InUse = Gone(ms) * RepLen + daemon.done
  BY DEF InRing
<1>6. Gone(ms) = 0 => InUse = daemon.done
  BY <1>2, <1>5, Sizes
<1> QED BY <1>1, <1>2, <1>3, <1>4, <1>6, Sizes

\* The head of the ring is the first of the messages, and whole with RepLen cells.
LEMMA HeadOfRing ==
  ASSUME Shapes, NEW ms \in Seq(Responses), InRing(ms)
  PROVE  /\ InUse > 0 => rsp[rsp_cons % Ring].msg = ms[1] /\ ms[1].len = RepLen
         /\ InUse >= RepLen => FromRing(rsp, rsp_cons, RepLen) = Cells(ms[1])
<1>1. ASSUME InUse > 0, NEW k \in 1 .. RepLen, k <= InUse
      PROVE  rsp[(rsp_cons + k - 1) % Ring] = [msg |-> ms[1], k |-> k]
  <2>1. 1 \in 1 .. Len(ms) /\ (1 - 1) * RepLen + k = k /\ (1 - 1) * RepLen + k - 1 = k - 1
    BY <1>1, InRingFacts, Sizes
  <2>2. rsp[(rsp_cons + ((1 - 1) * RepLen + k - 1)) % Ring] = [msg |-> ms[1], k |-> k]
    BY <1>1, <2>1 DEF InRing
  <2>3. rsp_cons + (k - 1) = rsp_cons + k - 1
    BY DEF Shapes, Index
  <2> QED BY <2>1, <2>2, <2>3
<1>2. ASSUME InUse > 0 PROVE ms[1].len = RepLen
  <2>1. 1 \in 1 .. Len(ms)
    BY <1>2, InRingFacts
  <2>2. ms[1] \in Responses
    BY <2>1
  <2> QED BY <2>2 DEF Responses
<1>3. ASSUME InUse > 0 PROVE rsp[rsp_cons % Ring].msg = ms[1]
  <2>1. 1 \in 1 .. RepLen /\ 1 <= InUse
    BY <1>3, InRingFacts, Sizes
  <2>3. rsp_cons + 1 - 1 = rsp_cons
    BY DEF Shapes, Index
  <2>2. rsp[(rsp_cons + 1 - 1) % Ring] = [msg |-> ms[1], k |-> 1]
    BY <1>1, <1>3, <2>1
  <2> QED BY <2>2, <2>3
<1>4. ASSUME InUse >= RepLen PROVE FromRing(rsp, rsp_cons, RepLen) = Cells(ms[1])
  <2>1. InUse > 0 /\ InUse \in Nat /\ ms[1].len = RepLen
    BY <1>2, <1>4, InRingFacts, Sizes
  <2>2. \A k \in 1 .. RepLen : rsp[(rsp_cons + k - 1) % Ring] = [msg |-> ms[1], k |-> k]
    BY <1>1, <1>4, <2>1, Sizes
  <2> QED BY <2>1, <2>2 DEF FromRing, Cells
<1> QED BY <1>2, <1>3, <1>4

\* The upcall.
LEMMA DeliverKeeps ==
  ASSUME Inv, Deliver
  PROVE  Inv'
<1> USE DEF Inv
<1> PICK ms \in Seq(Responses) : Stream(ms)
  BY DEF Streaming
<1>0. /\ cb' = [pc |-> "look", msg |-> cb.msg] /\ Wakes
      /\ UNCHANGED <<req, req_prod, req_cons, rsp, rsp_prod, rsp_cons, reqIds, heap, leaked,
                     reply, watch_state, pend, daemon, store, timer>>
  BY UnblockWakes DEF Deliver, Shapes, reqs, rsps, names, outer
<1>1. Shapes'
  BY <1>0 DEF Shapes, Wakes, Stays, rsps
<1>2. Ids' /\ Replies' /\ PanicCause'
  BY <1>0 DEF Wakes, Stays, Ids, Issued, Expecting, Replies, PanicCause, Short
<1>3. Requests'
  BY <1>0 DEF Wakes, Stays, Requests, RequestAt, Mine, Short
<1>4. Buffers'
  BY <1>0 DEF Wakes, Stays, Shapes, Buffers, Keeps, Holds, Kept, Held
<1>5. Streaming'
  <2>1. InRing(ms)' /\ OneReply(ms)' /\ Taken(ms)'
    BY <1>0 DEF Wakes, Stays, Stream, InRing, Gone, InUse, OneReply, Expecting, Taken, Short
  <2> QED BY <2>1 DEF Streaming, Stream
<1> QED BY <1>1, <1>2, <1>3, <1>4, <1>5

\* The handler finds a message only when one is whole.
LEMMA LookKeeps ==
  ASSUME Inv, Look
  PROVE  Inv'
<1> USE DEF Inv
<1> PICK ms \in Seq(Responses) : Stream(ms)
  BY DEF Streaming
<1>0. /\ \/ /\ cb' = [pc |-> "take", msg |-> Cells(ms[1])]
            /\ InUse >= RepLen
         \/ cb' = [pc |-> "clear", msg |-> cb.msg]
      /\ UNCHANGED <<req, req_prod, req_cons, rsp, rsp_prod, rsp_cons, reqIds, heap, leaked,
                     reply, kern, watch_state, pend, daemon, store, timer>>
  <2>1. InRing(ms)
    BY DEF Stream
  <2>2. Complete => InUse >= RepLen /\ rsp[rsp_cons % Ring].msg.len = RepLen
    <3>1. Complete => InUse > 0 /\ InUse >= rsp[rsp_cons % Ring].msg.len
      BY <2>1, InRingFacts, Sizes DEF Complete, InUse
    <3> QED BY <2>1, <3>1, HeadOfRing
  <2> QED BY <2>1, <2>2, HeadOfRing DEF Look, Shapes, reqs, rsps, names, outer
<1>1. Shapes'
  BY <1>0 DEF Shapes, rsps
<1>2. Ids' /\ Replies' /\ PanicCause'
  BY <1>0 DEF Ids, Issued, Expecting, Replies, PanicCause, Short
<1>3. Requests'
  BY <1>0 DEF Requests, RequestAt, Mine, Short
<1>4. Buffers'
  BY <1>0 DEF Buffers, Keeps, Holds, Kept, Held
<1>5. Streaming'
  <2>1. InRing(ms)' /\ OneReply(ms)'
    BY <1>0 DEF Stream, InRing, Gone, InUse, OneReply, Expecting, Short
  <2>2. Taken(ms)'
    BY <1>0 DEF InUse, Taken
  <2> QED BY <2>1, <2>2 DEF Streaming, Stream
<1> QED BY <1>1, <1>2, <1>3, <1>4, <1>5

\* The pending bit is cleared.
LEMMA ClearKeeps ==
  ASSUME Inv, Clear
  PROVE  Inv'
<1> USE DEF Inv
<1> PICK ms \in Seq(Responses) : Stream(ms)
  BY DEF Streaming
<1>0. /\ cb' = [pc |-> "off", msg |-> cb.msg] /\ pend' = FALSE
      /\ UNCHANGED <<req, req_prod, req_cons, rsp, rsp_prod, rsp_cons, reqIds, heap, leaked,
                     reply, kern, watch_state, daemon, store, timer>>
  BY DEF Clear, Shapes, reqs, rsps, names, outer
<1>1. Shapes'
  BY <1>0 DEF Shapes, rsps
<1>2. Ids' /\ Replies' /\ PanicCause'
  BY <1>0 DEF Ids, Issued, Expecting, Replies, PanicCause, Short
<1>3. Requests'
  BY <1>0 DEF Requests, RequestAt, Mine, Short
<1>4. Buffers'
  BY <1>0 DEF Buffers, Keeps, Holds, Kept, Held
<1>5. Streaming'
  <2>1. InRing(ms)' /\ OneReply(ms)' /\ Taken(ms)'
    BY <1>0 DEF Stream, InRing, Gone, InUse, OneReply, Expecting, Taken, Short
  <2> QED BY <2>1 DEF Streaming, Stream
<1> QED BY <1>1, <1>2, <1>3, <1>4, <1>5

\* The daemon raises the event.
LEMMA DaemonRaiseKeeps ==
  ASSUME Inv, DaemonRaise
  PROVE  Inv'
<1> USE DEF Inv
<1> PICK ms \in Seq(Responses) : Stream(ms)
  BY DEF Streaming
<1>0. /\ daemon' \in [out : Seq(Responses), done : Nat, owes : BOOLEAN, watching : BOOLEAN]
      /\ daemon'.out = daemon.out /\ daemon'.done = daemon.done /\ pend' = TRUE
      /\ UNCHANGED <<req, req_prod, req_cons, rsp, rsp_prod, rsp_cons, reqIds, heap, leaked,
                     reply, kern, watch_state, cb, store, timer>>
  BY DEF DaemonRaise, Shapes, reqs, rsps, names, outer
<1>1. Shapes'
  BY <1>0 DEF Shapes, rsps
<1>2. Ids' /\ Replies' /\ PanicCause'
  BY <1>0 DEF Ids, Issued, Expecting, Replies, PanicCause, Short
<1>3. Requests'
  BY <1>0 DEF Requests, RequestAt, Mine, Short
<1>4. Buffers'
  BY <1>0 DEF Buffers, Keeps, Holds, Kept, Held
<1>5. Streaming'
  <2>1. InRing(ms)' /\ OneReply(ms)' /\ Taken(ms)'
    BY <1>0 DEF Stream, InRing, Gone, InUse, OneReply, Expecting, Taken, Short
  <2> QED BY <2>1 DEF Streaming, Stream
<1> QED BY <1>1, <1>2, <1>3, <1>4, <1>5

\* A reply whose id is not known: the id of the request has come round.
LEMMA TakePanicKeeps ==
  ASSUME Inv, TakePanic
  PROVE  Inv'
<1> USE DEF Inv
<1> PICK ms \in Seq(Responses) : Stream(ms)
  BY DEF Streaming
<1>0. /\ kern'.pc = "panic" /\ Stays /\ cb' = [pc |-> "off", msg |-> <<>>]
      /\ kern.pc # "panic" => reqIds.last >= ShortMod /\ Expecting
      /\ UNCHANGED <<req, req_prod, req_cons, rsp, rsp_prod, rsp_cons, reqIds, heap, leaked,
                     reply, watch_state, pend, daemon, store, timer>>
  <2>1. InUse >= RepLen /\ cb.msg = Cells(ms[1]) /\ InRing(ms)
    BY DEF TakePanic, Stream, Taken
  <2>2. 1 \in 1 .. Len(ms) /\ ms[1] \in Responses /\ cb.msg[1].msg = ms[1]
    <3>1. 1 \in 1 .. Len(ms) /\ ms[1] \in Responses
      BY <2>1, InRingFacts
    <3>2. ms[1].len \in Nat /\ ms[1].len > 0
      BY <3>1, Sizes DEF Responses
    <3> QED BY <2>1, <3>1, <3>2, CellsOf
  <2>3. IsReply(ms[1]) /\ ~Known(ms[1].id)
    BY <2>2 DEF TakePanic, IsReply
  <2>4. ASSUME kern.pc # "panic" PROVE reqIds.last >= ShortMod /\ Expecting
    <3>1. Expecting /\ ms[1].id = Short
      BY <2>2, <2>3, <2>4 DEF Stream, OneReply
    <3>2. kern.h = reqIds.last /\ kern.h \in reqIds.table /\ reqIds.last <= ShortMod /\ kern.h > 0
      BY <2>4, <3>1 DEF Ids, Issued, Expecting, Shapes
    <3>3. kern.h < ShortMod => Known(Short)
      BY <3>2, ShortOf DEF Known, Shapes, Places
    <3> QED BY <2>3, <3>1, <3>2, <3>3, Sizes DEF Shapes
  <2>5. kern'.pc = "panic" /\ Stays
    BY GotoStays DEF TakePanic, Positions
  <2> QED BY <2>4, <2>5 DEF TakePanic, reqs, rsps, names, outer
<1>1. Shapes'
  BY <1>0 DEF Shapes, Stays, rsps
<1>2. Ids' /\ Replies' /\ PanicCause'
  <2>1. Ids' /\ Replies'
    BY <1>0 DEF Stays, Ids, Issued, Expecting, Replies
  <2>2. PanicCause'
    BY <1>0 DEF PanicCause
  <2> QED BY <2>1, <2>2
<1>3. Requests'
  BY <1>0 DEF Stays, Stream, OneReply, Expecting, Requests, RequestAt, Mine
<1>4. Buffers'
  BY <1>0 DEF Stays, Expecting, Buffers, Keeps, Holds, Kept, Held
<1>5. Streaming'
  <2>1. InRing(ms)' /\ OneReply(ms)' /\ Taken(ms)'
    BY <1>0 DEF Stream, InRing, Gone, InUse, OneReply, Taken
  <2> QED BY <2>1 DEF Streaming, Stream
<1> QED BY <1>1, <1>2, <1>3, <1>4, <1>5

----------------------------------------------------------------------------
\* The handler takes the first message: the others move up.
LEMMA RingTakes ==
  ASSUME Shapes, NEW ms \in Seq(Responses), InRing(ms), InUse >= RepLen,
         rsp_cons' = Advance(rsp_cons, RepLen), UNCHANGED <<rsp, rsp_prod, daemon>>
  PROVE  InRing(Tail(ms))'
<1>1. /\ Len(ms) > 0 /\ Gone(ms) > 0 /\ Gone(ms) \in Nat /\ InUse \in Nat /\ InUse <= Ring
      /\ RepLen \in Nat /\ RepLen > 0 /\ daemon.done \in Nat /\ Len(ms) \in Nat
  BY InRingFacts, Sizes
<1>2. InUse' = InUse - RepLen /\ InUse' \in Nat
  <2>1. Used(rsp_prod, Advance(rsp_cons, RepLen)) = Used(rsp_prod, rsp_cons) - RepLen
    BY <1>1, UsedShrinks DEF Shapes, InUse
  <2> QED BY <1>1, <2>1 DEF InUse
<1>3. /\ Len(Tail(ms)) = Len(ms) - 1
      /\ \A i \in 1 .. Len(ms) - 1 : Tail(ms)[i] = ms[i + 1]
  BY <1>1
<1>4. Gone(Tail(ms))' = Gone(ms) - 1
  BY <1>1, <1>3 DEF Gone, Shapes
<1>5. InUse' = (Gone(ms) - 1) * RepLen + daemon.done
  <2>1. (Gone(ms) - 1) * RepLen = Gone(ms) * RepLen - RepLen
    BY <1>1
  <2>2. InUse = Gone(ms) * RepLen + daemon.done /\ Gone(ms) * RepLen \in Nat
    BY <1>1 DEF InRing
  <2> QED BY <1>1, <1>2, <2>1, <2>2
<1>6. ASSUME NEW i \in 1 .. Len(daemon.out)
      PROVE  daemon.out[i] = Tail(ms)[Gone(ms) - 1 + i]
  <2>1. daemon.out[i] = ms[Gone(ms) + i]
    BY DEF InRing
  <2>2. Len(daemon.out) \in Nat /\ Len(ms) = Gone(ms) + Len(daemon.out)
    BY InRingFacts
  <2>3. Gone(ms) - 1 + i \in 1 .. Len(ms) - 1 /\ Gone(ms) - 1 + i + 1 = Gone(ms) + i
    BY <1>1, <2>2
  <2> QED BY <1>3, <2>1, <2>3
<1>7. ASSUME NEW i \in 1 .. Len(ms) - 1, NEW k \in 1 .. RepLen, (i - 1) * RepLen + k <= InUse'
      PROVE  rsp[(rsp_cons' + ((i - 1) * RepLen + k - 1)) % Ring] = [msg |-> Tail(ms)[i], k |-> k]
  <2> DEFINE p == (i - 1) * RepLen
  <2>1. p \in Nat /\ ((i + 1) - 1) * RepLen = p + RepLen
    BY <1>1
  <2> HIDE DEF p
  <2>2. i + 1 \in 1 .. Len(ms) /\ (p + RepLen) + k <= InUse
    BY <1>1, <1>2, <1>7, <2>1 DEF p
  <2>3. rsp[(rsp_cons + ((p + RepLen) + k - 1)) % Ring] = [msg |-> ms[i + 1], k |-> k]
    <3>1. \A j \in 1 .. Len(ms) : (j - 1) * RepLen + k <= InUse =>
            rsp[(rsp_cons + ((j - 1) * RepLen + k - 1)) % Ring] = [msg |-> ms[j], k |-> k]
      BY DEF InRing
    <3>2. ((i + 1) - 1) * RepLen + k <= InUse
      BY <2>1, <2>2
    <3>3. rsp[(rsp_cons + (((i + 1) - 1) * RepLen + k - 1)) % Ring] = [msg |-> ms[i + 1], k |-> k]
      BY <2>2, <3>1, <3>2
    <3> QED BY <2>1, <3>3
  <2>4. (rsp_cons' + (p + k - 1)) % Ring = (rsp_cons + RepLen + (p + k - 1)) % Ring
    <3>1. p + k - 1 \in Nat
      BY <2>1
    <3>2. Ring \in Int /\ Ring > 0 /\ IdxMod % Ring = 0 /\ rsp_cons \in Index /\ RepLen \in Nat
      BY Sizes, RingAssumption DEF Shapes
    <3>3. (Advance(rsp_cons, RepLen) + (p + k - 1)) % Ring =
            (rsp_cons + RepLen + (p + k - 1)) % Ring
      BY <3>1, <3>2, CellOf
    <3> QED BY <3>3
  <2>5. rsp_cons + RepLen + (p + k - 1) = rsp_cons + ((p + RepLen) + k - 1)
    <3>1. rsp_cons \in Int /\ p \in Int /\ k \in Int /\ RepLen \in Int
      BY <1>1, <2>1 DEF Shapes, Index
    <3> QED BY <3>1
  <2>6. Tail(ms)[i] = ms[i + 1]
    BY <1>3
  <2> QED BY <2>3, <2>4, <2>5, <2>6 DEF p
<1>8. InUse' <= Ring
  BY <1>1, <1>2, Sizes
<1>9. Gone(ms) - 1 \in Nat
  BY <1>1
<1> QED BY <1>3, <1>4, <1>5, <1>6, <1>7, <1>8, <1>9 DEF InRing

\* The daemon queues more messages: the ring is as it was.
LEMMA RingQueues ==
  ASSUME Shapes, NEW ms \in Seq(Responses), InRing(ms), NEW x \in Seq(Responses),
         daemon'.out = daemon.out \o x, daemon'.done = daemon.done, UNCHANGED rsps
  PROVE  InRing(ms \o x)'
<1>1. /\ Gone(ms) \in Nat /\ InUse \in Nat /\ RepLen \in Nat /\ RepLen > 0 /\ daemon.done \in Nat
      /\ Len(daemon.out) \in Nat /\ Len(x) \in Nat /\ Len(ms) = Gone(ms) + Len(daemon.out)
      /\ Len(ms) \in Nat
  BY InRingFacts, Sizes
<1>2. InUse' = InUse /\ rsp' = rsp /\ rsp_cons' = rsp_cons
  BY DEF InUse, rsps
<1>3. /\ Len(ms \o x) = Len(ms) + Len(x)
      /\ \A i \in 1 .. Len(ms) : (ms \o x)[i] = ms[i]
      /\ \A i \in 1 .. Len(x) : (ms \o x)[Len(ms) + i] = x[i]
  OBVIOUS
<1>4. daemon.out \in Seq(Responses)
  BY DEF Shapes
<1>5. /\ Len(daemon'.out) = Len(daemon.out) + Len(x)
      /\ \A i \in 1 .. Len(daemon.out) : daemon'.out[i] = daemon.out[i]
      /\ \A i \in 1 .. Len(x) : daemon'.out[Len(daemon.out) + i] = x[i]
  BY <1>4
<1>6. Gone(ms \o x)' = Gone(ms)
  BY <1>1, <1>3, <1>5 DEF Gone
<1>7. ASSUME NEW i \in 1 .. Len(daemon.out) + Len(x)
      PROVE  daemon'.out[i] = (ms \o x)[Gone(ms) + i]
  <2>1. CASE i <= Len(daemon.out)
    <3>1. i \in 1 .. Len(daemon.out) /\ Gone(ms) + i \in 1 .. Len(ms)
      BY <1>1, <2>1
    <3>2. daemon.out[i] = ms[Gone(ms) + i]
      BY <3>1 DEF InRing
    <3> QED BY <1>3, <1>5, <3>1, <3>2
  <2>2. CASE i > Len(daemon.out)
    <3> DEFINE j == i - Len(daemon.out)
    <3>1. j \in 1 .. Len(x) /\ i = Len(daemon.out) + j /\ Gone(ms) + i = Len(ms) + j
      BY <1>1, <2>2
    <3> HIDE DEF j
    <3> QED BY <1>3, <1>5, <3>1
  <2>3. i <= Len(daemon.out) \/ i > Len(daemon.out)
    BY <1>1
  <2> QED BY <2>1, <2>2, <2>3, Zenon
<1>8. ASSUME NEW i \in 1 .. Len(ms) + Len(x), NEW k \in 1 .. RepLen, (i - 1) * RepLen + k <= InUse
      PROVE  rsp[(rsp_cons + ((i - 1) * RepLen + k - 1)) % Ring] = [msg |-> (ms \o x)[i], k |-> k]
  <2>1. ~(Gone(ms) + 1 < i)
    <3> SUFFICES ASSUME Gone(ms) < i - 1 PROVE FALSE
      BY <1>1
    <3>4. Gone(ms) \in Int /\ i - 1 \in Int /\ RepLen \in Nat
      BY <1>1
    <3>1. Gone(ms) * RepLen + RepLen <= (i - 1) * RepLen
      BY <3>4, Times
    <3>2. InUse = Gone(ms) * RepLen + daemon.done /\ daemon.done < RepLen
      BY DEF InRing
    <3>3. Gone(ms) * RepLen \in Nat /\ (i - 1) * RepLen \in Nat
      BY <1>1
    <3>5. k \in Nat /\ k > 0 /\ (i - 1) * RepLen + k <= InUse
      BY <1>8
    <3> QED BY <1>1, <3>1, <3>2, <3>3, <3>5
  <2>2. i = Gone(ms) + 1 => Len(daemon.out) > 0
    <3> SUFFICES ASSUME i = Gone(ms) + 1, Len(daemon.out) = 0 PROVE FALSE
      BY <1>1
    <3>1. daemon.done = 0
      BY <1>1, <1>4 DEF InRing
    <3>2. InUse = Gone(ms) * RepLen + 0 /\ i - 1 = Gone(ms)
      BY <1>1, <3>1 DEF InRing
    <3>3. Gone(ms) * RepLen \in Nat
      BY <1>1
    <3> QED BY <1>1, <1>8, <3>2, <3>3, SMTT(40)
  <2>3. i \in 1 .. Len(ms)
    BY <1>1, <2>1, <2>2, SMTT(40)
  <2>4. rsp[(rsp_cons + ((i - 1) * RepLen + k - 1)) % Ring] = [msg |-> ms[i], k |-> k]
    BY <1>8, <2>3 DEF InRing
  <2> QED BY <1>3, <2>3, <2>4
<1>9. daemon'.done > 0 => daemon'.out # <<>>
  <2>1. daemon.done > 0 => Len(daemon.out) > 0
    BY <1>1, <1>4 DEF InRing
  <2>2. Len(daemon'.out) > 0 => daemon'.out # <<>>
    BY <1>4
  <2> QED BY <1>1, <1>5, <2>1, <2>2
<1>10. /\ InUse' <= Ring /\ InUse' = Gone(ms) * RepLen + daemon'.done /\ daemon'.done < RepLen
  BY <1>2 DEF InRing
<1> DEFINE all == ms \o x
<1>11. Gone(all)' \in Nat /\ InUse' = Gone(all)' * RepLen + daemon'.done
  BY <1>1, <1>6, <1>10
<1>12. \A i \in 1 .. Len(daemon'.out) : daemon'.out[i] = all[Gone(all)' + i]
  BY <1>5, <1>6, <1>7, Zenon
<1>13. \A i \in 1 .. Len(all), k \in 1 .. RepLen : (i - 1) * RepLen + k <= InUse' =>
         rsp'[(rsp_cons' + ((i - 1) * RepLen + k - 1)) % Ring] = [msg |-> all[i], k |-> k]
  BY <1>2, <1>3, <1>8, Zenon
<1> HIDE DEF all
<1>14. InRing(all)'
  BY <1>9, <1>10, <1>11, <1>12, <1>13, Zenon DEF InRing
<1> QED BY <1>14 DEF all

\* A part of a message: the n cells behind the first d.
LEMMA Piece ==
  ASSUME NEW S, NEW c \in Seq(S), NEW d \in Nat, NEW n \in Nat, n > 0, d + n <= Len(c)
  PROVE  /\ SubSeq(c, d + 1, d + n) \in Seq(S) /\ Len(SubSeq(c, d + 1, d + n)) = n
         /\ \A q \in 1 .. n : SubSeq(c, d + 1, d + n)[q] = c[d + q]
<1>1. d + 1 \in 1 .. Len(c) /\ d + n \in 1 .. Len(c) /\ (d + n) - (d + 1) + 1 = n
  OBVIOUS
<1>2. SubSeq(c, d + 1, d + n) \in Seq(S)
  BY <1>1
<1>3. Len(SubSeq(c, d + 1, d + n)) = n
  BY <1>1
<1>4. ASSUME NEW q \in 1 .. n PROVE SubSeq(c, d + 1, d + n)[q] = c[d + q]
  <2>1. d + 1 + q - 1 = d + q
    OBVIOUS
  <2>2. SubSeq(c, d + 1, d + n)[q] = c[d + 1 + q - 1]
    BY <1>1
  <2> QED BY <2>1, <2>2
<1> QED BY <1>2, <1>3, <1>4

\* Cell k of message i, if among the n cells that follow the first g * r + d.
LEMMA Place ==
  ASSUME NEW r \in Nat, NEW g \in Nat, NEW d \in Nat, NEW n \in Nat, d + n <= r, d < r,
         NEW i \in Nat, i > 0, NEW k \in 1 .. r,
         (i - 1) * r + k <= g * r + d + n, (i - 1) * r + k > g * r + d
  PROVE  i = g + 1 /\ k - d \in 1 .. n /\ (i - 1) * r + k - 1 - (g * r + d) + 1 = k - d
<1> DEFINE a == (i - 1) * r
           b == g * r
<1>1. a \in Nat /\ b \in Nat /\ i - 1 \in Int /\ g \in Int
  OBVIOUS
<1>2. i - 1 < g => a + r <= b
  BY <1>1, Times
<1>3. g < i - 1 => b + r <= a
  BY <1>1, Times
<1>4. i - 1 = g => a = b
  OBVIOUS
<1>5. a + k <= b + d + n /\ a + k > b + d
  OBVIOUS
<1> HIDE DEF a, b
<1>6. i - 1 = g
  BY <1>1, <1>2, <1>3, <1>5
<1>7. k - d \in 1 .. n /\ a + k - 1 - (b + d) + 1 = k - d
  BY <1>1, <1>4, <1>5, <1>6
<1> QED BY <1>6, <1>7 DEF a, b

\* The daemon copies n more cells of the head of its queue.
LEMMA RingWrites ==
  ASSUME Shapes, NEW ms \in Seq(Responses), InRing(ms), daemon.out # <<>>,
         NEW n \in Nat, n > 0, daemon.done + n <= RepLen, InUse + n <= Ring,
         rsp' = ToRing(rsp, rsp_prod,
                       SubSeq(Cells(Head(daemon.out)), daemon.done + 1, daemon.done + n)),
         rsp_prod' = Advance(rsp_prod, n), rsp_cons' = rsp_cons,
         \/ daemon.done + n = RepLen /\ daemon'.done = 0 /\ daemon'.out = Tail(daemon.out)
         \/ daemon.done + n # RepLen /\ daemon'.done = daemon.done + n /\ daemon'.out = daemon.out
  PROVE  InRing(ms)' /\ InUse' >= InUse
<1> DEFINE m == Head(daemon.out)
           g == Gone(ms)
           d == daemon.done
           u == InUse
           cells == SubSeq(Cells(m), d + 1, d + n)
<1>1. /\ g \in Nat /\ u \in Nat /\ d \in Nat /\ d < RepLen /\ d + n <= RepLen /\ u + n <= Ring
      /\ Len(ms) \in Nat /\ Len(daemon.out) \in Nat /\ Len(ms) = g + Len(daemon.out)
      /\ RepLen \in Nat /\ RepLen > 0 /\ Ring \in Nat /\ IdxMod \in Nat /\ Ring < IdxMod
  <2>1. /\ g \in Nat /\ u \in Nat /\ d \in Nat /\ Len(daemon.out) \in Nat
        /\ Len(ms) = g + Len(daemon.out)
    BY InRingFacts
  <2>2. d < RepLen
    BY DEF InRing
  <2> QED BY <2>1, <2>2, Sizes
<1>2. /\ u = g * RepLen + d
      /\ \A i \in 1 .. Len(daemon.out) : daemon.out[i] = ms[g + i]
      /\ \A i \in 1 .. Len(ms), k \in 1 .. RepLen : (i - 1) * RepLen + k <= u =>
           rsp[(rsp_cons + ((i - 1) * RepLen + k - 1)) % Ring] = [msg |-> ms[i], k |-> k]
  BY DEF InRing
<1>3. /\ daemon.out \in Seq(Responses) /\ Len(daemon.out) > 0 /\ m = daemon.out[1]
      /\ m \in Responses
  BY DEF Shapes
<1>4. m = ms[g + 1] /\ m.len = RepLen
  <2>1. 1 \in 1 .. Len(daemon.out)
    BY <1>1, <1>3
  <2> QED BY <1>2, <1>3, <2>1 DEF Responses
<1>5. rsp_cons \in Index /\ rsp_prod \in Index
  BY DEF Shapes
<1>6. u' = u + n /\ Advance(rsp_cons, u) = rsp_prod
  <2>1. u + n < IdxMod /\ u = Used(rsp_prod, rsp_cons)
    BY <1>1 DEF InUse
  <2>2. Used(Advance(rsp_prod, n), rsp_cons) = u + n
    BY <1>5, <2>1, UsedGrows
  <2> QED BY <1>5, <2>1, <2>2, AdvanceUsed DEF InUse
<1>7. rsp' = ToRing(rsp, Advance(rsp_cons, u), cells)
  BY <1>6
<1>8. /\ d + n = RepLen => daemon'.done = 0 /\ daemon'.out = Tail(daemon.out)
      /\ d + n # RepLen => daemon'.done = d + n /\ daemon'.out = daemon.out
  OBVIOUS
<1>9. g = Gone(ms) /\ d = daemon.done /\ u' = InUse'
  OBVIOUS
<1> DEFINE T == [msg : {m}, k : Nat]
<1>10. /\ Cells(m) \in Seq(T) /\ Len(Cells(m)) = RepLen
       /\ \A k \in 1 .. RepLen : Cells(m)[k] = [msg |-> m, k |-> k]
  BY <1>1, <1>4, CellsOf
<1> HIDE DEF m, g, d, u, T
<1>11. /\ cells \in Seq(T) /\ Len(cells) = n
       /\ \A q \in 1 .. n : cells[q] = [msg |-> m, k |-> d + q]
  <2> DEFINE c == Cells(m)
  <2>1. /\ c \in Seq(T) /\ Len(c) = RepLen
        /\ \A k \in 1 .. RepLen : c[k] = [msg |-> m, k |-> k]
    BY <1>10
  <2> HIDE DEF c
  <2>2. /\ SubSeq(c, d + 1, d + n) \in Seq(T) /\ Len(SubSeq(c, d + 1, d + n)) = n
        /\ \A q \in 1 .. n : SubSeq(c, d + 1, d + n)[q] = c[d + q]
    BY <1>1, <2>1, Piece
  <2>3. \A q \in 1 .. n : d + q \in 1 .. RepLen
    BY <1>1
  <2> QED BY <2>1, <2>2, <2>3 DEF c
<1> HIDE DEF cells
<1>12. ASSUME NEW p \in 0 .. u + n - 1
       PROVE  /\ p < u => rsp'[(rsp_cons + p) % Ring] = rsp[(rsp_cons + p) % Ring]
              /\ p >= u => rsp'[(rsp_cons + p) % Ring] = cells[p - u + 1]
  <2>1. u + Len(cells) <= Ring /\ p \in 0 .. u + Len(cells) - 1
    BY <1>1, <1>11
  <2>2. /\ u \in Nat /\ rsp_cons \in Index /\ Len(cells) \in Nat /\ u + Len(cells) <= Ring
        /\ p \in Nat /\ p < u + Len(cells)
    BY <1>1, <1>5, <1>11, <2>1
  <2>3. ASSUME p < u PROVE rsp'[(rsp_cons + p) % Ring] = rsp[(rsp_cons + p) % Ring]
    <3>1. Cell(rsp', rsp_cons, p) = Cell(rsp, rsp_cons, p)
      BY <1>7, <2>2, <2>3, Appended
    <3> QED BY <3>1 DEF Cell
  <2>4. ASSUME p >= u PROVE rsp'[(rsp_cons + p) % Ring] = cells[p - u + 1]
    <3>1. Cell(rsp', rsp_cons, p) = cells[p - u + 1]
      BY <1>7, <2>2, <2>4, Appended
    <3> QED BY <3>1 DEF Cell
  <2> QED BY <2>3, <2>4
<1>13. ASSUME NEW i \in 1 .. Len(ms), NEW k \in 1 .. RepLen, (i - 1) * RepLen + k <= u + n
       PROVE  rsp'[(rsp_cons + ((i - 1) * RepLen + k - 1)) % Ring] = [msg |-> ms[i], k |-> k]
  <2> DEFINE p == (i - 1) * RepLen + k - 1
  <2>1. p \in 0 .. u + n - 1
    <3> DEFINE a == (i - 1) * RepLen
    <3>1. a \in Nat
      BY <1>1
    <3>2. a + k <= u + n
      BY <1>13
    <3> HIDE DEF a
    <3>3. a + k - 1 \in 0 .. u + n - 1
      BY <1>1, <3>1, <3>2
    <3> QED BY <3>3 DEF a
  <2>2. /\ p < u => rsp'[(rsp_cons + p) % Ring] = rsp[(rsp_cons + p) % Ring]
        /\ p >= u => rsp'[(rsp_cons + p) % Ring] = cells[p - u + 1]
    BY <1>12, <2>1
  <2>3. CASE p < u
    <3>1. (i - 1) * RepLen + k <= u
      <4> DEFINE a == (i - 1) * RepLen
      <4>1. a \in Nat
        BY <1>1
      <4>3. a + k - 1 < u
        BY <2>3
      <4> HIDE DEF a
      <4>2. a + k <= u
        BY <1>1, <4>1, <4>3
      <4> QED BY <4>2 DEF a
    <3>2. rsp[(rsp_cons + p) % Ring] = [msg |-> ms[i], k |-> k]
      BY <1>2, <3>1
    <3> QED BY <2>2, <2>3, <3>2
  <2>4. CASE p >= u
    <3>1. /\ (i - 1) * RepLen + k <= g * RepLen + d + n
          /\ (i - 1) * RepLen + k > g * RepLen + d
      <4> DEFINE a == (i - 1) * RepLen
      <4>1. a \in Nat /\ a + k - 1 >= u /\ a + k <= u + n
        BY <1>1, <1>13, <2>4
      <4> HIDE DEF a
      <4>2. a + k <= u + n /\ a + k > u
        BY <1>1, <4>1
      <4> QED BY <1>2, <4>2 DEF a
    <3>2. i \in Nat /\ i > 0
      BY <1>1
    <3>3. /\ i = g + 1 /\ k - d \in 1 .. n
          /\ p - (g * RepLen + d) + 1 = k - d
      BY <1>1, <3>1, <3>2, Place, SMTT(40)
    <3>4. p - u + 1 = k - d /\ d + (k - d) = k
      <4>1. p - (g * RepLen + d) + 1 = k - d
        BY <3>3
      <4>2. u = g * RepLen + d
        BY <1>2
      <4> HIDE DEF p
      <4>3. p - u + 1 = k - d
        BY <4>1, <4>2
      <4>4. d + (k - d) = k
        BY <1>1
      <4> QED BY <4>3, <4>4
    <3>5. cells[k - d] = [msg |-> m, k |-> k]
      BY <1>11, <3>3, <3>4
    <3> QED BY <1>4, <2>2, <2>4, <3>3, <3>4, <3>5
  <2>5. p < u \/ p >= u
    BY <1>1, <2>1
  <2> QED BY <2>3, <2>4, <2>5, Zenon
<1>14. u' <= Ring
  BY <1>1, <1>6
<1>15. ASSUME d + n = RepLen PROVE InRing(ms)'
  <2>1. daemon'.done = 0 /\ daemon'.out = Tail(daemon.out)
    BY <1>8, <1>15
  <2>2. /\ Len(Tail(daemon.out)) = Len(daemon.out) - 1
        /\ \A i \in 1 .. Len(daemon.out) - 1 : Tail(daemon.out)[i] = daemon.out[i + 1]
    BY <1>3
  <2>3. Gone(ms)' = g + 1
    <3>1. Gone(ms)' = Len(ms) - (Len(daemon.out) - 1)
      BY <2>1, <2>2 DEF Gone
    <3>2. \A x, y \in Nat : (x + y) - (y - 1) = x + 1
      OBVIOUS
    <3>3. (g + Len(daemon.out)) - (Len(daemon.out) - 1) = g + 1
      BY <1>1, <3>2
    <3> QED BY <1>1, <3>1, <3>3
  <2>4. u' = (g + 1) * RepLen + 0
    <3> DEFINE b == g * RepLen
    <3>1. (g + 1) * RepLen = b + RepLen /\ b \in Nat
      BY <1>1
    <3>2. u = b + d
      BY <1>2
    <3> HIDE DEF b
    <3> QED BY <1>1, <1>6, <1>15, <3>1, <3>2
  <2>5. ASSUME NEW i \in 1 .. Len(daemon.out) - 1 PROVE Tail(daemon.out)[i] = ms[g + 1 + i]
    <3>1. i + 1 \in 1 .. Len(daemon.out) /\ g + (i + 1) = g + 1 + i
      BY <1>1
    <3>2. daemon.out[i + 1] = ms[g + (i + 1)]
      BY <1>2, <3>1
    <3> QED BY <2>2, <3>1, <3>2
  <2>6. 0 < RepLen /\ g + 1 \in Nat /\ ~(0 > 0)
    BY <1>1
  <2> QED BY <1>6, <1>9, <1>13, <1>14, <2>1, <2>2, <2>3, <2>4, <2>5, <2>6 DEF InRing
<1>16. ASSUME d + n # RepLen PROVE InRing(ms)'
  <2>1. daemon'.done = d + n /\ daemon'.out = daemon.out
    BY <1>8, <1>16
  <2>2. Gone(ms)' = g
    BY <1>9, <2>1 DEF Gone
  <2>3. u' = g * RepLen + (d + n) /\ d + n < RepLen
    <3> DEFINE b == g * RepLen
    <3>1. b \in Nat
      BY <1>1
    <3>2. u = b + d
      BY <1>2
    <3> HIDE DEF b
    <3>3. u' = b + (d + n) /\ d + n < RepLen
      BY <1>1, <1>6, <1>16, <3>1, <3>2
    <3> QED BY <3>3 DEF b
  <2>4. InUse' <= Ring /\ InUse' = u + n
    BY <1>6, <1>9, <1>14
  <2>5. \A i \in 1 .. Len(daemon'.out) : daemon'.out[i] = ms[Gone(ms)' + i]
    BY <1>2, <2>1, <2>2
  <2>6. Gone(ms)' \in Nat /\ daemon'.done < RepLen /\ InUse' = Gone(ms)' * RepLen + daemon'.done
    BY <1>1, <1>6, <1>9, <2>1, <2>2, <2>3
  <2>7. daemon'.out # <<>>
    BY <2>1
  <2>8. \A i \in 1 .. Len(ms), k \in 1 .. RepLen : (i - 1) * RepLen + k <= InUse' =>
          rsp'[(rsp_cons' + ((i - 1) * RepLen + k - 1)) % Ring] = [msg |-> ms[i], k |-> k]
    BY <1>13, <2>4
  <2> QED BY <2>4, <2>5, <2>6, <2>7, <2>8 DEF InRing
<1>17. u' >= u
  BY <1>1, <1>6
<1>18. u = InUse
  BY DEF u
<1> QED BY <1>9, <1>15, <1>16, <1>17, <1>18

----------------------------------------------------------------------------
\* What the handler is about to take is the first of the messages.
LEMMA TakenFacts ==
  ASSUME Shapes, NEW ms \in Seq(Responses), Stream(ms), cb.pc = "take"
  PROVE  /\ InUse >= RepLen /\ InRing(ms) /\ Len(ms) \in Nat /\ Len(ms) > 0 /\ ms[1] \in Responses
         /\ cb.msg = Cells(ms[1]) /\ Len(cb.msg) = RepLen /\ cb.msg # <<>>
         /\ cb.msg[1].msg = ms[1]
<1>1. InUse >= RepLen /\ cb.msg = Cells(ms[1]) /\ InRing(ms)
  BY DEF Stream, Taken
<1>2. Len(ms) \in Nat /\ Len(ms) > 0 /\ 1 \in 1 .. Len(ms)
  BY <1>1, InRingFacts
<1>3. ms[1] \in Responses
  BY <1>2
<1>4. ms[1].len = RepLen /\ ms[1].len \in Nat /\ ms[1].len > 0
  BY <1>3, Sizes DEF Responses
<1>5. Len(Cells(ms[1])) = RepLen /\ Cells(ms[1]) # <<>> /\ Cells(ms[1])[1].msg = ms[1]
  BY <1>4, CellsOf
<1> QED BY <1>1, <1>2, <1>3, <1>5

\* Without the first of them, each moves up by one.
LEMMA TailOf ==
  ASSUME NEW S, NEW ms \in Seq(S), Len(ms) > 0
  PROVE  /\ Tail(ms) \in Seq(S) /\ Len(Tail(ms)) \in Nat
         /\ \A i \in 1 .. Len(Tail(ms)) : i + 1 \in 1 .. Len(ms) /\ Tail(ms)[i] = ms[i + 1]
OBVIOUS

\* With others behind them, each stays.
LEMMA Followed ==
  ASSUME NEW S, NEW ms \in Seq(S), NEW x \in Seq(S)
  PROVE  /\ ms \o x \in Seq(S)
         /\ Len(ms) \in Nat /\ Len(x) \in Nat /\ Len(ms \o x) = Len(ms) + Len(x)
         /\ \A i \in 1 .. Len(ms) : (ms \o x)[i] = ms[i]
         /\ \A i \in 1 .. Len(ms \o x) :
              i \notin 1 .. Len(ms) => i - Len(ms) \in 1 .. Len(x) /\ (ms \o x)[i] = x[i - Len(ms)]
OBVIOUS

\* Queued behind them, messages do not disturb what the handler has copied.
LEMMA TakenStays ==
  ASSUME Shapes, NEW ms \in Seq(Responses), InRing(ms), Taken(ms), NEW x \in Seq(Responses),
         UNCHANGED <<rsp_prod, rsp_cons, cb>>
  PROVE  Taken(ms \o x)'
<1>1. CASE cb.pc = "take"
  <2>1. InUse >= RepLen /\ cb.msg = Cells(ms[1])
    BY <1>1 DEF Taken
  <2>2. 1 \in 1 .. Len(ms)
    BY <2>1, InRingFacts
  <2>3. (ms \o x)[1] = ms[1]
    BY <2>2, Followed
  <2> QED BY <2>1, <2>3 DEF Taken, InUse
<1>2. CASE cb.pc # "take"
  BY <1>2 DEF Taken
<1> QED BY <1>1, <1>2

\* The handler takes a watch event.
LEMMA TakeEventKeeps ==
  ASSUME Inv, TakeEvent
  PROVE  Inv'
<1> USE DEF Inv
<1> PICK ms \in Seq(Responses) : Stream(ms)
  BY DEF Streaming
<1>0. /\ rsp_cons' = Advance(rsp_cons, RepLen) /\ watch_state' = TRUE
      /\ cb' = [pc |-> "look", msg |-> <<>>]
      /\ InRing(ms) /\ InUse >= RepLen /\ Len(ms) > 0
      /\ UNCHANGED <<req, req_prod, req_cons, rsp, rsp_prod, reqIds, heap, leaked, reply, kern,
                     pend, daemon, store, timer>>
  BY TakenFacts DEF TakeEvent, reqs, rsps, names, outer
<1>1. Shapes'
  <2>1. rsp_cons' \in Index
    <3>1. rsp_cons \in Int /\ RepLen \in Int /\ rsp_cons' = Advance(rsp_cons, RepLen)
      BY <1>0, Sizes DEF Shapes, Index
    <3> QED BY <3>1, AdvanceType
  <2> QED BY <1>0, <2>1 DEF Shapes
<1>2. Ids' /\ Replies' /\ PanicCause'
  BY <1>0 DEF Ids, Issued, Expecting, Replies, PanicCause, Short
<1>3. Requests'
  BY <1>0 DEF Requests, RequestAt, Mine, Short
<1>4. Buffers'
  BY <1>0 DEF Buffers, Keeps, Holds, Kept, Held
<1>5. Streaming'
  <2>1. InRing(Tail(ms))'
    BY <1>0, RingTakes
  <2>2. OneReply(Tail(ms))'
    BY <1>0, TailOf DEF Stream, OneReply, Expecting, IsReply, Short
  <2>3. Taken(Tail(ms))' /\ Tail(ms) \in Seq(Responses)
    BY <1>0, TailOf DEF Taken
  <2> QED BY <2>1, <2>2, <2>3 DEF Streaming, Stream
<1> QED BY <1>1, <1>2, <1>3, <1>4, <1>5

\* The handler takes the one reply, and hands it to the request that waits for it.
LEMMA TakeReplyKeeps ==
  ASSUME Inv, TakeReply
  PROVE  Inv'
<1> USE DEF Inv
<1> PICK ms \in Seq(Responses) : Stream(ms)
  BY DEF Streaming
<1>0. /\ rsp_cons' = Advance(rsp_cons, RepLen) /\ cb' = [pc |-> "look", msg |-> <<>>]
      /\ reply' = Cells(ms[1]) /\ reply' # <<>> /\ heap' = heap + 1
      /\ ms[1] \in Responses /\ IsReply(ms[1])
      /\ kern.pc # "panic" => /\ Expecting /\ req_cons = req_prod /\ ms[1].id = Short
                              /\ reqIds.last # ShortMod
      /\ InRing(ms) /\ InUse >= RepLen /\ Len(ms) > 0
      /\ UNCHANGED <<req, req_prod, req_cons, rsp, rsp_prod, reqIds, leaked, kern, watch_state,
                     pend, daemon, store, timer>>
  <2>1. cb.pc = "take" /\ IsReply(cb.msg[1].msg) /\ Known(cb.msg[1].msg.id)
    BY DEF TakeReply, IsReply
  <2>2. IsReply(ms[1]) /\ Known(ms[1].id) /\ 1 \in 1 .. Len(ms)
    BY <2>1, TakenFacts
  <2>3. ASSUME kern.pc # "panic"
        PROVE  Expecting /\ req_cons = req_prod /\ ms[1].id = Short /\ reqIds.last # ShortMod
    <3>1. Expecting /\ req_cons = req_prod /\ ms[1].id = Short
      BY <2>2, <2>3 DEF Stream, OneReply
    <3>2. kern.h = reqIds.last
      BY <2>3, <3>1 DEF Ids, Issued, Expecting
    <3> QED BY <2>2, <3>1, <3>2, ShortOf DEF Known
  <2>4. reply' = cb.msg /\ heap' = heap + 1 /\ rsp_cons' = Advance(rsp_cons, Len(cb.msg))
    BY DEF TakeReply
  <2> QED BY <2>1, <2>2, <2>3, <2>4, TakenFacts DEF TakeReply, reqs, rsps, names, outer
<1>1. Shapes'
  <2>1. rsp_cons' \in Index
    <3>1. rsp_cons \in Int /\ RepLen \in Int /\ rsp_cons' = Advance(rsp_cons, RepLen)
      BY <1>0, Sizes DEF Shapes, Index
    <3> QED BY <3>1, AdvanceType
  <2>2. heap' \in Nat
    BY <1>0 DEF Shapes
  <2> QED BY <1>0, <2>1, <2>2 DEF Shapes
<1>2. Ids' /\ Replies' /\ PanicCause'
  <2>1. Ids'
    BY <1>0 DEF Ids, Issued, Expecting
  <2>2. Replies'
    BY <1>0 DEF Replies, Expecting, Short
  <2>3. PanicCause'
    BY <1>0 DEF PanicCause
  <2> QED BY <2>1, <2>2, <2>3
<1>3. Requests'
  BY <1>0 DEF Requests, RequestAt, Mine, Short
<1>4. Buffers'
  <2>1. kern.pc # "panic" => heap = leaked + Kept + 0
    BY <1>0 DEF Buffers, Holds, Held, Expecting
  <2>2. kern.pc # "panic" => Holds' /\ Held' = 1 /\ Kept' = Kept /\ leaked' = leaked
    BY <1>0 DEF Holds, Held, Keeps, Kept, Expecting
  <2>3. Kept \in Nat /\ leaked \in Nat
    BY DEF Kept, Shapes
  <2>4. kern.pc # "panic" => heap' = leaked' + Kept' + Held'
    BY <1>0, <2>1, <2>2, <2>3
  <2> QED BY <1>0, <2>4 DEF Buffers
<1>5. Streaming'
  <2>1. InRing(Tail(ms))'
    BY <1>0, RingTakes
  <2>2. OneReply(Tail(ms))'
    <3>1. ASSUME kern.pc # "panic", NEW i \in 1 .. Len(Tail(ms)) PROVE ~IsReply(Tail(ms)[i])
      <4>1. i + 1 \in 1 .. Len(ms) /\ Tail(ms)[i] = ms[i + 1] /\ 1 \in 1 .. Len(ms) /\ i + 1 # 1
        BY <1>0, TailOf
      <4> QED BY <1>0, <3>1, <4>1 DEF Stream, OneReply
    <3> QED BY <1>0, <3>1 DEF OneReply
  <2>3. Taken(Tail(ms))' /\ Tail(ms) \in Seq(Responses)
    BY <1>0, TailOf DEF Taken
  <2> QED BY <2>1, <2>2, <2>3 DEF Streaming, Stream
<1> QED BY <1>1, <1>2, <1>3, <1>4, <1>5

\* What the daemon makes of a request.
LEMMA ResponseOf ==
  ASSUME Shapes, NEW t \in {"ok", "error"}
  PROVE  /\ Response(Mine, t) \in Responses /\ Event \in Responses
         /\ IsReply(Response(Mine, t)) /\ Response(Mine, t).id = Short /\ ~IsReply(Event)
<1>1. Short \in Nat /\ Mine.id = Short
  BY ShortOf DEF Mine, Message
<1> QED BY <1>1 DEF Response, Event, Message, Responses, IsReply, Vals, Shapes

\* The daemon takes the request and queues the response, which is the only one.
LEMMA DaemonTakeKeeps ==
  ASSUME Inv, DaemonTake
  PROVE  Inv'
<1> USE DEF Inv
<1> PICK ms \in Seq(Responses) : Stream(ms)
  BY DEF Streaming
<1>0. req_cons # req_prod /\ req_prod = Advance(req_cons, ReqLen) /\ RequestAt(req_cons)
  BY DEF DaemonTake, Requests
<1>1. req[req_cons % Ring].msg = Mine /\ Mine.len = ReqLen
  BY <1>0, FirstCell DEF Mine, Message
<1> PICK t \in {"ok", "error"}, ws \in BOOLEAN :
       daemon' = [daemon EXCEPT
                   !.out = @ \o <<Response(Mine, t)>> \o
                             IF Mine.type = "watch" /\ t = "ok" THEN <<Event>> ELSE <<>>,
                   !.watching = ws]
  <2>1. PICK t \in Answers(Mine) :
          LET sets == Mine.type = "watch" /\ t = "ok" IN
          daemon' = [daemon EXCEPT
            !.out = @ \o <<Response(Mine, t)>> \o IF sets THEN <<Event>> ELSE <<>>,
            !.watching = (@ \/ sets) /\ Mine.type # "unwatch"]
    BY <1>1 DEF DaemonTake
  <2>2. t \in {"ok", "error"}
    BY DEF Answers
  <2>3. ((daemon.watching \/ (Mine.type = "watch" /\ t = "ok")) /\ Mine.type # "unwatch")
          \in BOOLEAN
    OBVIOUS
  <2> QED BY <2>1, <2>2, <2>3
<1> DEFINE r == Response(Mine, t)
<1>2. /\ r \in Responses /\ Event \in Responses
      /\ IsReply(r) /\ r.id = Short /\ ~IsReply(Event)
  BY ResponseOf
<1>3. daemon.out \in Seq(Responses)
  BY DEF Shapes
<1>4. /\ daemon'.done = daemon.done /\ daemon'.owes = daemon.owes /\ daemon'.watching = ws
      /\ daemon' = [daemon EXCEPT !.out = daemon'.out, !.watching = ws]
      /\ \/ daemon'.out = (daemon.out \o <<r>>) \o <<Event>>
         \/ daemon'.out = (daemon.out \o <<r>>) \o <<>>
  BY DEF Shapes
<1> HIDE DEF r
<1>5. \A y \in Seq(Responses) : /\ (y \o <<r>>) \o <<Event>> = y \o <<r, Event>>
                               /\ (y \o <<r>>) \o <<>> = y \o <<r>>
  <2> TAKE y \in Seq(Responses)
  <2>1. (y \o <<r>>) \o <<Event>> = y \o <<r, Event>>
    BY <1>2, SMTT(40)
  <2>2. y \o <<r>> \in Seq(Responses)
    BY <1>2
  <2>3. (y \o <<r>>) \o <<>> = y \o <<r>>
    BY <2>2
  <2> QED BY <2>1, <2>3
<1>6. PICK x \in {<<r>>, <<r, Event>>} : daemon'.out = daemon.out \o x
  BY <1>3, <1>4, <1>5
<1>7. /\ x \in Seq(Responses) /\ x[1] = r
      /\ \A i \in 1 .. Len(x) : i # 1 => x[i] = Event
  <2>1. CASE x = <<r>>
    BY <1>2, <2>1
  <2>2. CASE x = <<r, Event>>
    <3>1. x \in Seq(Responses) /\ x[1] = r /\ Len(x) = 2 /\ x[2] = Event
      BY <1>2, <2>2
    <3> HIDE <2>2
    <3> QED BY <3>1
  <2> QED BY <2>1, <2>2
<1>8. /\ req_cons' = req_prod
      /\ daemon' \in [out : Seq(Responses), done : Nat, owes : BOOLEAN, watching : BOOLEAN]
      /\ UNCHANGED <<req, req_prod, rsp, rsp_prod, rsp_cons, reqIds, heap, leaked, reply, kern,
                     watch_state, cb, pend, store, timer>>
  <2>1. req_cons' = req_prod
    BY <1>0, <1>1 DEF DaemonTake
  <2>2. daemon.out \o x \in Seq(Responses)
    BY <1>3, <1>7
  <2>3. daemon' \in [out : Seq(Responses), done : Nat, owes : BOOLEAN, watching : BOOLEAN]
    BY <1>4, <1>6, <2>2 DEF Shapes
  <2> QED BY <2>1, <2>3 DEF DaemonTake, reqs, rsps, names, outer
<1>9. Shapes'
  BY <1>8 DEF Shapes, rsps
<1>10. Ids' /\ Replies' /\ PanicCause'
  <2>1. Ids' /\ Replies'
    BY <1>8 DEF Ids, Issued, Expecting, Replies, Short
  <2>2. PanicCause'
    BY <1>0, <1>8 DEF PanicCause
  <2> QED BY <2>1, <2>2
<1>11. Requests'
  BY <1>8 DEF Requests, RequestAt, Mine, Short
<1>12. Buffers'
  BY <1>8 DEF Buffers, Keeps, Holds, Kept, Held
<1>13. InRing(ms) /\ Taken(ms)
  BY DEF Stream
<1>14. InRing(ms \o x)'
  BY <1>4, <1>6, <1>7, <1>8, <1>13, RingQueues DEF rsps
<1>15. Taken(ms \o x)'
  BY <1>7, <1>8, <1>13, TakenStays
<1>16. OneReply(ms \o x)'
  <2>1. ASSUME kern.pc # "panic" PROVE Expecting /\ \A i \in 1 .. Len(ms) : ~IsReply(ms[i])
    BY <1>0, <2>1 DEF Stream, OneReply
  <2> DEFINE l == Len(ms)
             z == ms \o x
  <2>2. /\ l \in Nat /\ Len(z) \in Nat /\ \A i \in 1 .. l : z[i] = ms[i]
        /\ \A i \in 1 .. Len(z) :
              i \notin 1 .. l => i - l \in 1 .. Len(x) /\ z[i] = x[i - l]
    BY <1>7, Followed
  <2> HIDE DEF l, z
  <2>3. ASSUME kern.pc # "panic", NEW i \in 1 .. Len(z), IsReply(z[i])
        PROVE  i = l + 1 /\ z[i].id = Short
    <3>1. i \notin 1 .. l
      BY <2>1, <2>2, <2>3 DEF l
    <3>2. i - l \in 1 .. Len(x) /\ z[i] = x[i - l]
      BY <2>2, <3>1
    <3>3. i - l = 1
      BY <1>2, <1>7, <2>3, <3>2
    <3>4. z[i] = r
      BY <1>7, <3>2, <3>3
    <3>5. i = l + 1
      BY <2>2, <3>3
    <3> QED BY <1>2, <3>4, <3>5
  <2>4. ASSUME kern.pc # "panic" PROVE Expecting' /\ req_cons' = req_prod'
    BY <1>8, <2>1, <2>4 DEF Expecting
  <2>5. Short' = Short /\ kern' = kern
    BY <1>8 DEF Short
  <2>6. OneReply(z)'
    BY <2>3, <2>4, <2>5 DEF OneReply
  <2> QED BY <2>6 DEF z
<1>17. ms \o x \in Seq(Responses)
  BY <1>7, Followed
<1> QED BY <1>9, <1>10, <1>11, <1>12, <1>14, <1>15, <1>16, <1>17 DEF Streaming, Stream

\* The daemon writes a part of the head of its queue.
LEMMA DaemonWriteKeeps ==
  ASSUME Inv, DaemonWrite
  PROVE  Inv'
<1> USE DEF Inv
<1> PICK ms \in Seq(Responses) : Stream(ms)
  BY DEF Streaming
<1>0. /\ daemon' \in [out : Seq(Responses), done : Nat, owes : BOOLEAN, watching : BOOLEAN]
      /\ InRing(ms)' /\ InUse' >= InUse /\ InUse \in Nat /\ rsp_prod' \in Index
      /\ UNCHANGED <<req, req_prod, req_cons, rsp_cons, reqIds, heap, leaked, reply, kern,
                     watch_state, cb, pend, store, timer>>
  <2>1. InRing(ms)
    BY DEF Stream
  <2>2. /\ daemon.out \in Seq(Responses) /\ Len(daemon.out) > 0 /\ daemon.out # <<>>
        /\ Head(daemon.out) \in Responses /\ Head(daemon.out).len = RepLen
        /\ Tail(daemon.out) \in Seq(Responses) /\ daemon.done \in Nat
    <3>1. daemon.out \in Seq(Responses) /\ daemon.out # <<>> /\ daemon.done \in Nat
      BY DEF DaemonWrite, Shapes
    <3>2. /\ Len(daemon.out) > 0 /\ Head(daemon.out) \in Responses
          /\ Tail(daemon.out) \in Seq(Responses)
      BY <3>1
    <3> QED BY <3>1, <3>2 DEF Responses
  <2>3. PICK n \in 1 .. RepLen - daemon.done :
          /\ n <= Ring - InUse
          /\ rsp' = ToRing(rsp, rsp_prod,
                      SubSeq(Cells(Head(daemon.out)), daemon.done + 1, daemon.done + n))
          /\ rsp_prod' = Advance(rsp_prod, n)
          /\ daemon' = IF daemon.done + n = RepLen
                         THEN [daemon EXCEPT !.owes = TRUE, !.done = 0, !.out = Tail(@)]
                         ELSE [daemon EXCEPT !.owes = TRUE, !.done = @ + n]
    BY <2>2 DEF DaemonWrite, InUse
  <2>4. n \in Nat /\ n > 0 /\ daemon.done + n <= RepLen /\ InUse + n <= Ring /\ InUse \in Nat
    <3>1. InUse \in Nat /\ daemon.done \in Nat
      BY <2>1, InRingFacts
    <3>2. n \in 1 .. RepLen - daemon.done /\ n <= Ring - InUse
      BY <2>3
    <3> HIDE <2>3
    <3> QED BY <3>1, <3>2, Sizes
  <2>5. daemon.done + n \in Nat
    BY <2>2, <2>4
  <2>6. daemon' \in [out : Seq(Responses), done : Nat, owes : BOOLEAN, watching : BOOLEAN]
    BY <2>2, <2>3, <2>5 DEF Shapes
  <2>7. \/ daemon.done + n = RepLen /\ daemon'.done = 0 /\ daemon'.out = Tail(daemon.out)
        \/ daemon.done + n # RepLen /\ daemon'.done = daemon.done + n /\ daemon'.out = daemon.out
    BY <2>3 DEF Shapes
  <2>8. rsp_cons' = rsp_cons
    BY DEF DaemonWrite
  <2>9. InRing(ms)' /\ InUse' >= InUse
    BY <2>1, <2>2, <2>3, <2>4, <2>7, <2>8, RingWrites
  <2>10. rsp_prod' \in Index
    BY <2>3, <2>4, AdvanceType, SMTT(40) DEF Shapes, Index
  <2> QED BY <2>4, <2>6, <2>9, <2>10 DEF DaemonWrite, reqs, rsps, names, outer
<1>1. Shapes'
  BY <1>0 DEF Shapes
<1>2. Ids' /\ Replies' /\ PanicCause'
  BY <1>0 DEF Ids, Issued, Expecting, Replies, PanicCause, Short
<1>3. Requests'
  BY <1>0 DEF Requests, RequestAt, Mine, Short
<1>4. Buffers'
  BY <1>0 DEF Buffers, Keeps, Holds, Kept, Held
<1>5. Streaming'
  <2>1. OneReply(ms)'
    BY <1>0 DEF Stream, OneReply, Expecting, Short
  <2>2. Taken(ms)'
    <3>1. InUse >= RepLen => InUse' >= RepLen
      BY <1>0, Sizes DEF InRing
    <3> QED BY <1>0, <3>1 DEF Stream, Taken
  <2> QED BY <1>0, <2>1, <2>2 DEF Streaming, Stream
<1> QED BY <1>1, <1>2, <1>3, <1>4, <1>5

\* The watched node changes.
LEMMA ChangeKeeps ==
  ASSUME Inv, Change
  PROVE  Inv'
<1> USE DEF Inv
<1> PICK ms \in Seq(Responses) : Stream(ms)
  BY DEF Streaming
<1>0. /\ daemon' \in [out : Seq(Responses), done : Nat, owes : BOOLEAN, watching : BOOLEAN]
      /\ store' \in [val : Vals, changes : Nat]
      /\ daemon'.done = daemon.done
      /\ daemon'.out = daemon.out \/ daemon'.out = daemon.out \o <<Event>>
      /\ Event \in Responses /\ ~IsReply(Event) /\ <<Event>> \in Seq(Responses)
      /\ UNCHANGED <<req, req_prod, req_cons, rsp, rsp_prod, rsp_cons, reqIds, heap, leaked,
                     reply, kern, watch_state, cb, pend, timer>>
  <2>1. Event \in Responses /\ ~IsReply(Event)
    BY ResponseOf
  <2>2. daemon.out \in Seq(Responses)
    BY DEF Shapes
  <2>3. /\ Append(daemon.out, Event) = daemon.out \o <<Event>>
        /\ Append(daemon.out, Event) \in Seq(Responses)
    BY <2>1, <2>2, SMTT(40)
  <2>4. /\ daemon'.done = daemon.done
        /\ daemon'.out = daemon.out \/ daemon'.out = Append(daemon.out, Event)
        /\ daemon' \in [out : Seq(Responses), done : Nat, owes : BOOLEAN, watching : BOOLEAN]
    BY <2>2, <2>3 DEF Change, Shapes
  <2>5. store' \in [val : Vals, changes : Nat]
    BY DEF Change, Shapes, Vals
  <2> QED BY <2>1, <2>3, <2>4, <2>5 DEF Change, reqs, rsps, names, outer
<1>1. Shapes'
  BY <1>0 DEF Shapes, rsps
<1>2. Ids' /\ Replies' /\ PanicCause'
  BY <1>0 DEF Ids, Issued, Expecting, Replies, PanicCause, Short
<1>3. Requests'
  BY <1>0 DEF Requests, RequestAt, Mine, Short
<1>4. Buffers'
  BY <1>0 DEF Buffers, Keeps, Holds, Kept, Held
<1>5. Streaming'
  <2>1. InRing(ms) /\ OneReply(ms) /\ Taken(ms)
    BY DEF Stream
  <2>2. CASE daemon'.out = daemon.out
    <3>1. InRing(ms)' /\ OneReply(ms)' /\ Taken(ms)'
      BY <1>0, <2>1, <2>2 DEF InRing, Gone, InUse, OneReply, Expecting, Taken, Short
    <3> QED BY <3>1 DEF Streaming, Stream
  <2>3. CASE daemon'.out = daemon.out \o <<Event>>
    <3> DEFINE x == <<Event>>
               z == ms \o x
    <3>0. x \in Seq(Responses) /\ Len(x) = 1 /\ x[1] = Event
      BY <1>0
    <3>1. InRing(z)' /\ Taken(z)'
      <4>1. UNCHANGED rsps
        BY <1>0 DEF rsps
      <4> QED BY <1>0, <2>1, <2>3, <3>0, <4>1, RingQueues, TakenStays
    <3>2. /\ z \in Seq(Responses) /\ Len(ms) \in Nat /\ Len(z) = Len(ms) + 1
          /\ \A i \in 1 .. Len(ms) : z[i] = ms[i]
          /\ \A i \in 1 .. Len(z) : i \notin 1 .. Len(ms) => z[i] = Event
      <4> HIDE DEF x
      <4> QED BY <3>0, Followed
    <3> HIDE DEF z
    <3>3. \A i \in 1 .. Len(z) : IsReply(z[i]) => i \in 1 .. Len(ms) /\ z[i] = ms[i]
      BY <1>0, <3>2
    <3>4. OneReply(z)'
      BY <1>0, <2>1, <3>3 DEF OneReply, Expecting, Short
    <3> QED BY <3>1, <3>2, <3>4 DEF Streaming, Stream
  <2> QED BY <1>0, <2>2, <2>3
<1> QED BY <1>1, <1>2, <1>3, <1>4, <1>5

----------------------------------------------------------------------------
\* Steps that change nothing.
LEMMA StutterKeeps ==
  ASSUME Inv, UNCHANGED vars
  PROVE  Inv'
<1> USE DEF Inv, vars, reqs, rsps, names, outer
<1> PICK ms \in Seq(Responses) : Stream(ms)
  BY DEF Streaming
<1>1. Shapes'
  BY DEF Shapes
<1>2. Ids' /\ Replies' /\ PanicCause'
  BY DEF Ids, Issued, Expecting, Replies, PanicCause, Short
<1>3. Requests'
  BY DEF Requests, RequestAt, Mine, Short
<1>4. Buffers'
  BY DEF Buffers, Keeps, Holds, Kept, Held
<1>5. OneReply(ms)'
  BY DEF Stream, OneReply, Expecting, Short
<1> QED BY <1>1, <1>2, <1>3, <1>4, <1>5, StreamStays DEF Streaming

\* Every step keeps the invariant.
LEMMA NextKeeps ==
  ASSUME Inv, [Next]_vars
  PROVE  Inv'
<1>1. ASSUME NEW op \in Ops, Start(op) PROVE Inv'
  BY <1>1, StartKeeps
<1>2. CASE Thread
  BY <1>2, AllocateKeeps, WriteRingKeeps, WritePanicKeeps, PublishKeeps, CheckReplyKeeps, BlockKeeps,
     GotReplyKeeps, RequestDoneKeeps, WatchSetKeeps, WatchTestKeeps, ReadDoneKeeps, UnwatchDoneKeeps
     DEF Thread
<1>3. CASE Upcall
  BY <1>3, DeliverKeeps, LookKeeps, TakeEventKeeps, TakeReplyKeeps, TakePanicKeeps, ClearKeeps
     DEF Upcall
<1>4. CASE Daemon
  BY <1>4, DaemonTakeKeeps, DaemonWriteKeeps, DaemonRaiseKeeps DEF Daemon
<1>5. CASE Change
  BY <1>5, ChangeKeeps
<1>6. CASE Expire \/ OtherEvent
  BY <1>6, ExpireKeeps
<1>7. CASE UNCHANGED vars
  BY <1>7, StutterKeeps
<1> QED BY <1>1, <1>2, <1>3, <1>4, <1>5, <1>6, <1>7 DEF Next

\* The invariant holds of every state of the client, its handler and the daemon.
THEOREM InvHolds == Spec => []Inv
<1>1. Init => Inv
  BY InitInv
<1>2. Inv /\ [Next]_vars => Inv'
  BY NextKeeps
<1> QED BY <1>1, <1>2, PTL DEF Spec

----------------------------------------------------------------------------
\* What lies in the request ring is one whole request, the one under way: the
\* daemon never reads one that is half written or overwritten, wherever the
\* indices of the ring were; and xenbus_write_ring never waits for room.
THEOREM RequestsStayWhole == Spec => []RequestsWhole
<1> SUFFICES Inv => RequestsWhole
  BY InvHolds, PTL
<1> SUFFICES ASSUME Inv PROVE RequestsWhole
  OBVIOUS
<1> USE DEF Inv
<1>1. TypeOK
  BY DEF Shapes, Places, Positions, Ids, Index, TypeOK
<1>2. ASSUME req_cons # req_prod
      PROVE  /\ Whole(FromRing(req, req_cons, Used(req_prod, req_cons)))
             /\ req[req_cons % Ring].msg.id = Short
  <2>1. /\ req_prod = Advance(req_cons, ReqLen) /\ RequestAt(req_cons) /\ ReqLen \in Index
        /\ req_cons \in Index /\ ReqLen > 0 /\ ReqLen \in Nat
    BY <1>2, Sizes, SMTT(40) DEF Requests, RequestAt, Shapes, Index
  <2>2. Used(req_prod, req_cons) = ReqLen
    BY <2>1, UsedAdvance
  <2>3. Mine.len = ReqLen /\ Mine.id = Short
    BY DEF Mine, Message
  <2>4. FromRing(req, req_cons, ReqLen) = Cells(Mine)
    BY <2>1, <2>3 DEF FromRing, Cells, RequestAt
  <2>5. Whole(Cells(Mine))
    <3>1. Len(Cells(Mine)) = ReqLen /\ Cells(Mine)[1].msg = Mine
      BY <2>1, <2>3, CellsOf
    <3> QED BY <2>1, <3>1 DEF Whole
  <2>6. req[req_cons % Ring].msg = Mine
    BY <2>1, FirstCell
  <2> QED BY <2>2, <2>3, <2>4, <2>5, <2>6
<1>3. NeverSpins
  <2> SUFFICES ASSUME kern.pc = "write", ReqLen <= Ring PROVE Fits
    BY Sizes DEF NeverSpins, WriteBug
  <2>1. req_cons = req_prod /\ req_cons \in Index /\ ReqLen \in Index
    BY Sizes, SMTT(40) DEF Requests, Shapes, Index
  <2>2. Used(Advance(req_prod, ReqLen), req_cons) = ReqLen
    BY <2>1, UsedAdvance
  <2> QED BY <2>2 DEF Fits
<1> QED BY <1>1, <1>2, <1>3 DEF RequestsWhole

\* The reply a function looks at is the whole reply to its own request, in
\* however many pieces, around whatever end of the ring and behind however
\* many events it came; the assertions about ids and indices fail only when a
\* 32-bit counter has come round, or when a request is longer than the ring.
THEOREM ReplyStaysMine == Spec => []ReplyIsMine
<1> SUFFICES Inv => ReplyIsMine
  BY InvHolds, PTL
<1> SUFFICES ASSUME Inv PROVE ReplyIsMine
  OBVIOUS
<1> USE DEF Inv
<1>1. ASSUME kern.pc = "answer"
      PROVE  Whole(reply) /\ Answer.type \in {"ok", "error"} /\ Answer.id = Short
  <2>1. PICK m \in Responses : reply = Cells(m) /\ IsReply(m) /\ m.id = Short
    BY <1>1 DEF Replies
  <2>2. m.len \in Nat /\ m.len > 0 /\ m.type \in {"ok", "error"}
    BY <2>1, Sizes DEF Responses, IsReply
  <2>3. Len(reply) > 0 /\ reply[1].msg = m
    BY <2>1, <2>2, CellsOf
  <2> QED BY <2>1, <2>2, <2>3 DEF Whole, Answer
<1>2. PanicsOnlyWrapped
  BY DEF PanicCause, PanicsOnlyWrapped
<1> QED BY <1>1, <1>2 DEF ReplyIsMine

\* Every reply buffer is freed when its function returns, whatever the daemon
\* answered, but for one in every completed xenbus_watch_value.
THEOREM BuffersAreFreed == Spec => []BuffersFreed
<1> SUFFICES Inv => BuffersFreed
  BY InvHolds, PTL
<1> SUFFICES ASSUME Inv, kern.pc = "idle" PROVE heap = leaked
  BY DEF BuffersFreed
<1>1. kern = Idle /\ heap = leaked + Kept + Held /\ leaked \in Nat
  BY DEF Inv, Buffers, Shapes
<1>2. Kept = 0 /\ Held = 0
  BY <1>1 DEF Keeps, Kept, Holds, Held, Idle
<1> QED BY <1>1, <1>2
===============================================================================
