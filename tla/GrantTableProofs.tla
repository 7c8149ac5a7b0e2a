--------------------------- MODULE GrantTableProofs ---------------------------
(****************************************************************************)
(* Proofs about GrantTable, for every number of entries and every pattern of *)
(* grants, releases and accesses by the hypervisor.                          *)
(****************************************************************************)
EXTENDS GrantTable, FiniteSetTheorems, TLAPS

USE SizesAssumption

\* A list without repetition through some of the usable entries is no longer
\* than the table.
LEMMA ListLength ==
  ASSUME NEW A \in SUBSET Usable, NEW n \in Nat, NEW s \in [1 .. n -> A],
         \A i, j \in 1 .. n : s[i] = s[j] => i = j
  PROVE  n \in 0 .. Entries
<1>1. s \in Injection(1 .. n, A)
  BY DEF Injection, IsInjective
<1>2. Reserved \in Int /\ Entries - 1 \in Int /\ 1 \in Int /\ n \in Int
  OBVIOUS
<1>3. IsFiniteSet(Usable) /\ Cardinality(Usable) <= Entries
  <2>1. Cardinality(Reserved .. Entries - 1) =
          IF Reserved > Entries - 1 THEN 0 ELSE (Entries - 1) - Reserved + 1
    BY <1>2, FS_Interval
  <2>2. IsFiniteSet(Reserved .. Entries - 1)
    BY <1>2, FS_Interval
  <2>3. (IF Reserved > Entries - 1 THEN 0 ELSE (Entries - 1) - Reserved + 1) <= Entries
    OBVIOUS
  <2> QED BY <2>1, <2>2, <2>3 DEF Usable
<1>4. IsFiniteSet(A) /\ Cardinality(A) <= Cardinality(Usable)
  BY <1>3, FS_Subset
<1>5. Cardinality(1 .. n) <= Cardinality(A)
  BY <1>1, <1>4, FS_Injection
<1>6. Cardinality(1 .. n) = IF 1 > n THEN 0 ELSE n - 1 + 1
  BY <1>2, FS_Interval
<1>7. Cardinality(A) \in Nat /\ Cardinality(Usable) \in Nat
  BY <1>3, <1>4, FS_CardinalityType
<1> QED BY <1>3, <1>4, <1>5, <1>6, <1>7

\* _putFreeEntry adds the entry to the list.
LEMMA PutFreeAdds ==
  ASSUME NEW l \in [Refs -> Refs], NEW A \in SUBSET Usable, Lists(l, A),
         NEW r \in Usable, r \notin A
  PROVE  /\ PutFree(l, r) \in [Refs -> Refs]
         /\ Lists(PutFree(l, r), A \cup {r})
<1>0. r \in Refs /\ 0 \in Refs /\ r # 0 /\ A \subseteq Refs /\ 0 \notin A
  BY DEF Usable, Refs
<1>n. PICK n \in 0 .. Entries : \E s \in [1 .. n -> A] :
        /\ \A i, j \in 1 .. n : s[i] = s[j] => i = j
        /\ \A x \in A : \E i \in 1 .. n : s[i] = x
        /\ Threads(l, n, s)
  BY DEF Lists
<1>1. PICK s \in [1 .. n -> A] :
        /\ \A i, j \in 1 .. n : s[i] = s[j] => i = j
        /\ \A x \in A : \E i \in 1 .. n : s[i] = x
        /\ Threads(l, n, s)
  BY <1>n
<1> DEFINE m == n + 1
           t == [i \in 1 .. m |-> IF i = 1 THEN r ELSE s[i - 1]]
           k == PutFree(l, r)
<1>2. n \in Nat /\ m \in Nat /\ \A i \in 1 .. m : i # 1 => i - 1 \in 1 .. n
  OBVIOUS
<1>3. t \in [1 .. m -> A \cup {r}]
  BY <1>2
<1>4. \A i, j \in 1 .. m : t[i] = t[j] => i = j
  BY <1>1, <1>2
<1>5. \A x \in A \cup {r} : \E i \in 1 .. m : t[i] = x
  <2>1. t[1] = r /\ 1 \in 1 .. m
    BY <1>2
  <2>2. ASSUME NEW x \in A PROVE \E i \in 1 .. m : t[i] = x
    <3>1. PICK i \in 1 .. n : s[i] = x
      BY <1>1
    <3>2. i + 1 \in 1 .. m /\ t[i + 1] = x
      BY <3>1
    <3> QED BY <3>2
  <2> QED BY <2>1, <2>2
<1>6. k \in [Refs -> Refs] /\ k[0] = r /\ k[r] = l[0] /\ \A x \in A : k[x] = l[x]
  BY <1>0 DEF PutFree
<1>7. Threads(k, m, t)
  <2>1. k[0] = t[1] /\ m # 0
    BY <1>2, <1>6
  <2>2. ASSUME NEW i \in 1 .. m PROVE k[t[i]] = IF i = m THEN 0 ELSE t[i + 1]
    <3>1. CASE i = 1
      <4>1. k[t[i]] = l[0]
        BY <1>2, <1>6, <3>1
      <4>2. l[0] = IF n = 0 THEN 0 ELSE s[1]
        BY <1>1 DEF Threads
      <4>3. n # 0 => t[2] = s[1]
        BY <1>2
      <4> QED BY <1>2, <3>1, <4>1, <4>2, <4>3
    <3>2. CASE i # 1
      <4>1. i - 1 \in 1 .. n /\ t[i] = s[i - 1] /\ s[i - 1] \in A
        BY <1>2, <3>2
      <4>2. k[t[i]] = l[s[i - 1]]
        BY <1>6, <4>1
      <4>3. l[s[i - 1]] = IF i - 1 = n THEN 0 ELSE s[(i - 1) + 1]
        BY <1>1, <4>1 DEF Threads
      <4>4. i # m => t[i + 1] = s[i]
        BY <1>2, <3>2
      <4> QED BY <1>2, <4>1, <4>2, <4>3, <4>4
    <3> QED BY <3>1, <3>2
  <2> HIDE DEF t, m, k
  <2> QED BY <2>1, <2>2 DEF Threads
<1>8. m \in 0 .. Entries
  <2> HIDE DEF t, m
  <2> A \cup {r} \in SUBSET Usable
    OBVIOUS
  <2> QED BY <1>2, <1>3, <1>4, ListLength
<1> HIDE DEF t, m, k
<1>9. Lists(k, A \cup {r})
  BY <1>3, <1>4, <1>5, <1>7, <1>8 DEF Lists
<1> QED BY <1>6, <1>9 DEF k

\* _getFreeEntry takes the head off a list that is not empty.
LEMMA GetFreeTakes ==
  ASSUME NEW l \in [Refs -> Refs], NEW A \in SUBSET Usable, Lists(l, A), A # {}
  PROVE  /\ l[0] \in A
         /\ GetFree(l) \in [Refs -> Refs]
         /\ Lists(GetFree(l), A \ {l[0]})
<1>0. 0 \in Refs /\ A \subseteq Refs /\ 0 \notin A
  BY DEF Usable, Refs
<1>n. PICK n \in 0 .. Entries : \E s \in [1 .. n -> A] :
        /\ \A i, j \in 1 .. n : s[i] = s[j] => i = j
        /\ \A x \in A : \E i \in 1 .. n : s[i] = x
        /\ Threads(l, n, s)
  BY DEF Lists
<1>1. PICK s \in [1 .. n -> A] :
        /\ \A i, j \in 1 .. n : s[i] = s[j] => i = j
        /\ \A x \in A : \E i \in 1 .. n : s[i] = x
        /\ Threads(l, n, s)
  BY <1>n
<1>2. n \in Nat /\ n # 0 /\ 1 \in 1 .. n /\ s[1] \in A
  BY <1>1
<1>3. l[0] = s[1]
  BY <1>1, <1>2 DEF Threads
<1> DEFINE m == n - 1
           t == [i \in 1 .. m |-> s[i + 1]]
           k == GetFree(l)
<1>4. m \in 0 .. Entries /\ \A i \in 1 .. m : i + 1 \in 1 .. n /\ i + 1 # 1
  BY <1>2
<1>5. t \in [1 .. m -> A \ {l[0]}]
  <2> SUFFICES ASSUME NEW i \in 1 .. m PROVE s[i + 1] \in A \ {l[0]}
    OBVIOUS
  <2>1. i + 1 \in 1 .. n /\ i + 1 # 1 /\ s[i + 1] \in A
    BY <1>4
  <2>2. s[i + 1] # s[1]
    BY <1>1, <1>2, <2>1
  <2> QED BY <1>3, <2>1, <2>2
<1>6. \A i, j \in 1 .. m : t[i] = t[j] => i = j
  BY <1>1, <1>4
<1>7. \A x \in A \ {l[0]} : \E i \in 1 .. m : t[i] = x
  <2> SUFFICES ASSUME NEW x \in A \ {l[0]} PROVE \E i \in 1 .. m : t[i] = x
    OBVIOUS
  <2>1. PICK i \in 1 .. n : s[i] = x
    BY <1>1
  <2>2. i - 1 \in 1 .. m /\ t[i - 1] = x
    BY <1>2, <1>3, <2>1
  <2> QED BY <2>2
<1>8. k \in [Refs -> Refs] /\ k[0] = l[s[1]] /\ \A x \in A : k[x] = l[x]
  BY <1>0, <1>2, <1>3 DEF GetFree
<1>9. Threads(k, m, t)
  <2>1. k[0] = IF m = 0 THEN 0 ELSE t[1]
    <3>1. l[s[1]] = IF 1 = n THEN 0 ELSE s[1 + 1]
      BY <1>1, <1>2 DEF Threads
    <3> QED BY <1>2, <1>8, <3>1
  <2>2. ASSUME NEW i \in 1 .. m PROVE k[t[i]] = IF i = m THEN 0 ELSE t[i + 1]
    <3>1. i + 1 \in 1 .. n /\ s[i + 1] \in A /\ t[i] = s[i + 1]
      BY <1>4
    <3>2. l[s[i + 1]] = IF i + 1 = n THEN 0 ELSE s[(i + 1) + 1]
      BY <1>1, <3>1 DEF Threads
    <3>3. i # m => t[i + 1] = s[(i + 1) + 1]
      BY <1>2
    <3> QED BY <1>2, <1>8, <3>1, <3>2, <3>3
  <2> HIDE DEF t, m, k
  <2> QED BY <2>1, <2>2 DEF Threads
<1> HIDE DEF t, m, k
<1>10. Lists(k, A \ {l[0]})
  BY <1>4, <1>5, <1>6, <1>7, <1>9 DEF Lists
<1> QED BY <1>2, <1>3, <1>8, <1>10 DEF k

----------------------------------------------------------------------------
\* The inductive invariant.  An entry in use by nobody is mapped by nobody
\* and offers nothing to the hypervisor, and so is one being filled in; an
\* entry with its flags set carries the frame and domain of its grant until
\* the hypervisor stores a transferred frame.
Quiet(ref) == /\ mapped[ref] = Unmapped
              /\ "permit" \notin flags[ref]
              /\ ~Moving(ref)
              /\ "accept" \in flags[ref] => "committed" \in flags[ref]

Filling(ref) == guest.ref = ref /\ guest.pc \in {"domid", "flags"}

Permits(ref) == /\ flags[ref] \in {{"permit"}, {"permit", "reading"}}
                /\ frame[ref] = grants[ref].frame
                /\ domid[ref] = grants[ref].domain
                /\ mapped[ref] = IF "reading" \in flags[ref] THEN <<domid[ref], frame[ref]>>
                                                             ELSE Unmapped

Accepts(ref) == /\ flags[ref] \in {{"accept"}, {"accept", "committed"},
                                   {"accept", "committed", "completed"}}
                /\ mapped[ref] = Unmapped
                /\ "completed" \in flags[ref] => frame[ref] = NewFrame

EntryOK(ref) == IF ref \notin DOMAIN grants \/ Filling(ref) THEN Quiet(ref)
                ELSE IF grants[ref].kind = "permit" THEN Permits(ref)
                ELSE Accepts(ref)

PCs == {"idle", "domid", "flags", "clear", "read", "release", "wait"}

GuestOK == LET ref == guest.ref
               g   == grants[ref] IN
           /\ guest \in [pc : PCs, ref : Refs, seen : SUBSET Flags]
           /\ guest.pc # "idle" => ref \in DOMAIN grants
           /\ guest.pc \in {"domid", "flags"} => guest.seen = {g.kind} /\ frame[ref] = g.frame
           /\ guest.pc = "flags" => domid[ref] = g.domain
           /\ guest.pc = "clear" => g.kind = "permit" /\ guest.seen = {"permit"}
           /\ guest.pc \in {"read", "release", "wait"} => g.kind = "accept"
           /\ guest.pc = "release" => guest.seen = {"accept"}
           /\ guest.pc = "wait" => "committed" \in flags[ref] /\ guest.seen \subseteq flags[ref]

Shape == /\ list \in [Refs -> Refs]
         /\ flags \in [Refs -> SUBSET Flags]
         /\ frame \in [Refs -> Frames \cup {NewFrame, NoFrame}]
         /\ domid \in [Refs -> Domains \cup {NoDomain}]
         /\ DOMAIN mapped = Refs /\ mapped = [r \in Refs |-> mapped[r]]
         /\ DOMAIN grants \in SUBSET Usable
         /\ \A r \in DOMAIN grants :
              grants[r] \in [kind : {"permit", "accept"}, domain : Domains, frame : Frames]

IndInv == Shape /\ AvailableListed /\ GuestOK /\ \A ref \in Refs : EntryOK(ref)

\* The clients never hold more grants than there are usable entries.
Enough == MaxGrants <= Entries - Reserved

\* xenGrantInit puts every usable entry on the list.
LEMMA InitInv == Init => IndInv
<1> SUFFICES ASSUME Init PROVE IndInv
  OBVIOUS
<1> USE DEF Init
<1>1. DOMAIN grants = {}
  OBVIOUS
<1>2. Shape
  BY <1>1 DEF Shape, Refs
<1>3. AvailableListed
  <2> DEFINE n == Entries - Reserved
             s == [i \in 1 .. n |-> Entries - i]
  <2>1. n \in 0 .. Entries /\ n \in Nat
    OBVIOUS
  <2>2. Available = Usable
    BY <1>1 DEF Available
  <2>3. s \in [1 .. n -> Usable]
    BY DEF Usable
  <2>4. \A i, j \in 1 .. n : s[i] = s[j] => i = j
    OBVIOUS
  <2>5. \A r \in Usable : \E i \in 1 .. n : s[i] = r
    <3> SUFFICES ASSUME NEW r \in Usable PROVE \E i \in 1 .. n : s[i] = r
      OBVIOUS
    <3>1. Entries - r \in 1 .. n /\ s[Entries - r] = r
      BY DEF Usable
    <3> QED BY <3>1
  <2>6. Threads(list, n, s)
    BY DEF Threads, Refs
  <2> HIDE DEF n, s
  <2> QED BY <2>1, <2>2, <2>3, <2>4, <2>5, <2>6 DEF AvailableListed, Lists
<1>4. GuestOK
  BY DEF GuestOK, Idle, PCs, Refs, Flags
<1>5. \A ref \in Refs : EntryOK(ref)
  BY <1>1 DEF EntryOK, Quiet, Moving, Refs
<1> QED BY <1>2, <1>3, <1>4, <1>5 DEF IndInv

\* While clients hold fewer grants than there are entries, some entry is free.
LEMMA SomeAvailable ==
  ASSUME Enough, Shape, Cardinality(DOMAIN grants) < MaxGrants
  PROVE  Available # {}
<1> SUFFICES ASSUME Available = {} PROVE FALSE
  OBVIOUS
<1>1. DOMAIN grants = Usable
  BY DEF Available, Shape
<1>2. Reserved \in Int /\ Entries - 1 \in Int
  OBVIOUS
<1>3. Cardinality(Usable) = IF Reserved > Entries - 1 THEN 0 ELSE (Entries - 1) - Reserved + 1
  BY <1>2, FS_Interval DEF Usable
<1> QED BY <1>1, <1>3 DEF Enough

\* Taking an entry for a new grant keeps the invariant.
LEMMA BeginInv ==
  ASSUME Enough, IndInv, NEW k \in {"permit", "accept"}, NEW d \in Domains, NEW f \in Frames,
         Begin(k, d, f)
  PROVE  /\ IndInv'
         /\ guest'.ref \in Available
<1> DEFINE r == list[0]
<1>1. /\ At("idle") /\ Cardinality(DOMAIN grants) < MaxGrants
      /\ list' = GetFree(list)
      /\ frame' = [frame EXCEPT ![r] = f]
      /\ guest' = [pc |-> "domid", ref |-> r, seen |-> {k}]
      /\ grants' = Grant(r, k, d, f)
      /\ flags' = flags /\ domid' = domid /\ mapped' = mapped
  BY DEF Begin
<1>2. Available # {} /\ Available \in SUBSET Usable
  BY <1>1, SomeAvailable DEF IndInv, Available
<1>3. r \in Available /\ GetFree(list) \in [Refs -> Refs] /\ Lists(GetFree(list), Available \ {r})
  BY <1>2, GetFreeTakes DEF IndInv, Shape, AvailableListed
<1> HIDE DEF r
<1>4. r \in Refs /\ r \in Usable /\ r \notin DOMAIN grants
  <2>1. r \in Usable /\ r \notin DOMAIN grants
    BY <1>3 DEF Available
  <2> QED BY <2>1 DEF Usable, Refs
<1>5. /\ DOMAIN grants' = DOMAIN grants \cup {r}
      /\ grants'[r] = [kind |-> k, domain |-> d, frame |-> f]
      /\ \A g \in DOMAIN grants : grants'[g] = grants[g]
  BY <1>1, <1>4 DEF Grant
<1>6. Shape'
  <2>1. DOMAIN grants' \in SUBSET Usable
    BY <1>4, <1>5 DEF IndInv, Shape
  <2>2. \A g \in DOMAIN grants' :
          grants'[g] \in [kind : {"permit", "accept"}, domain : Domains, frame : Frames]
    BY <1>5 DEF IndInv, Shape
  <2>3. frame' \in [Refs -> Frames \cup {NewFrame, NoFrame}]
    BY <1>1 DEF IndInv, Shape
  <2> QED BY <1>1, <1>3, <2>1, <2>2, <2>3 DEF IndInv, Shape
<1>7. AvailableListed'
  <2>1. Available' = Available \ {r}
    BY <1>5 DEF Available, Usable
  <2> QED BY <1>1, <1>3, <2>1 DEF AvailableListed, Lists, Threads
<1>8. GuestOK'
  BY <1>1, <1>4, <1>5 DEF GuestOK, PCs, Flags, IndInv, Shape
<1>9. ASSUME NEW ref \in Refs PROVE EntryOK(ref)'
  <2>1. EntryOK(ref) /\ guest.pc = "idle"
    BY <1>1 DEF IndInv, At
  <2>2. CASE ref = r
    BY <1>1, <1>4, <2>1, <2>2 DEF EntryOK, Filling, Quiet, Moving
  <2>3. CASE ref # r
    <3>1. frame'[ref] = frame[ref]
      BY <1>1, <2>3 DEF IndInv, Shape
    <3> QED BY <1>1, <1>5, <2>1, <2>3, <3>1
            DEF EntryOK, Filling, Quiet, Moving, Permits, Accepts
  <2> QED BY <2>2, <2>3
<1> QED BY <1>1, <1>3, <1>6, <1>7, <1>8, <1>9 DEF IndInv

\* The grant that the kernel is working on.
LEMMA Working ==
  ASSUME IndInv, guest.pc # "idle"
  PROVE  /\ guest.ref \in Refs /\ guest.ref \in Usable /\ guest.ref \in DOMAIN grants
         /\ EntryOK(guest.ref)
         /\ guest \in [pc : PCs, ref : Refs, seen : SUBSET Flags]
         /\ grants[guest.ref] \in [kind : {"permit", "accept"}, domain : Domains, frame : Frames]
BY DEF IndInv, GuestOK, Shape

\* Giving back an entry that offers nothing any more keeps the invariant.
LEMMA FreeInv ==
  ASSUME IndInv, guest.pc # "idle", NEW r \in Refs, r = guest.ref,
         list' = PutFree(list, r), grants' = Drop(r), guest' = Idle,
         UNCHANGED <<frame, domid, mapped>>,
         flags' \in [Refs -> SUBSET Flags],
         \A q \in Refs : q # r => flags'[q] = flags[q],
         Quiet(r)'
  PROVE  IndInv'
<1>1. r \in Refs /\ r \in Usable /\ r \in DOMAIN grants
  BY Working
<1>2. Available \in SUBSET Usable /\ r \notin Available
  BY <1>1 DEF Available
<1>3. PutFree(list, r) \in [Refs -> Refs] /\ Lists(PutFree(list, r), Available \cup {r})
  BY <1>1, <1>2, PutFreeAdds DEF IndInv, Shape, AvailableListed
<1>4. /\ DOMAIN grants' = DOMAIN grants \ {r}
      /\ \A g \in DOMAIN grants' : grants'[g] = grants[g]
  BY DEF Drop
<1>5. Shape'
  BY <1>3, <1>4 DEF IndInv, Shape
<1>6. AvailableListed'
  <2>1. Available' = Available \cup {r}
    BY <1>1, <1>4 DEF Available, Usable
  <2>2. Lists(list', Available')
    BY <1>3, <2>1
  <2> QED BY <2>2 DEF AvailableListed, Lists, Threads
<1>7. GuestOK'
  BY DEF GuestOK, Idle, PCs, Refs, Flags
<1>8. ASSUME NEW ref \in Refs PROVE EntryOK(ref)'
  <2>1. CASE ref = r
    BY <1>4, <2>1 DEF EntryOK
  <2>2. CASE ref # r
    <3>1. EntryOK(ref) /\ ~Filling(ref) /\ ~Filling(ref)' /\ flags'[ref] = flags[ref]
      BY <2>2 DEF IndInv, Filling, Idle
    <3>2. ref \in DOMAIN grants' <=> ref \in DOMAIN grants
      BY <1>4, <2>2
    <3> QED BY <1>4, <3>1, <3>2 DEF EntryOK, Quiet, Moving, Permits, Accepts
  <2> QED BY <2>1, <2>2
<1> QED BY <1>5, <1>6, <1>7, <1>8 DEF IndInv

\* A step of the kernel that moves only its own position keeps the invariant
\* when the new position is right.
LEMMA GuestMoveInv ==
  ASSUME IndInv, UNCHANGED <<list, table, mapped, grants>>, GuestOK',
         \A ref \in Refs : Filling(ref)' <=> Filling(ref)
  PROVE  IndInv'
BY DEF IndInv, table, Shape, AvailableListed, Available, EntryOK, Quiet, Moving, Permits, Accepts

LEMMA StoreDomidInv == ASSUME IndInv, StoreDomid PROVE IndInv'
<1> DEFINE r == guest.ref
<1>1. guest.pc = "domid" /\ guest.pc # "idle"
  BY DEF StoreDomid, At
<1>2. /\ r \in Refs /\ r \in DOMAIN grants /\ EntryOK(r)
      /\ guest \in [pc : PCs, ref : Refs, seen : SUBSET Flags]
      /\ grants[r] \in [kind : {"permit", "accept"}, domain : Domains, frame : Frames]
  BY <1>1, Working
<1>3. /\ domid' = [domid EXCEPT ![r] = grants[r].domain]
      /\ guest' = [guest EXCEPT !.pc = "flags"]
      /\ UNCHANGED <<list, flags, frame, mapped, grants>>
  BY DEF StoreDomid
<1>4. guest'.ref = r /\ guest'.pc = "flags" /\ guest'.seen = guest.seen
  BY <1>2, <1>3
<1> HIDE DEF r
<1>5. domid'[r] = grants[r].domain
  BY <1>2, <1>3 DEF IndInv, Shape
<1>6. Shape' /\ AvailableListed'
  BY <1>2, <1>3 DEF IndInv, Shape, AvailableListed, Available
<1>7. GuestOK'
  BY <1>1, <1>2, <1>3, <1>4, <1>5 DEF IndInv, GuestOK, PCs, r
<1>8. ASSUME NEW ref \in Refs PROVE EntryOK(ref)'
  <2>1. Filling(ref)' <=> Filling(ref)
    BY <1>1, <1>4 DEF Filling, r
  <2>2. ref # r => domid'[ref] = domid[ref]
    BY <1>2, <1>3 DEF IndInv, Shape
  <2>3. Filling(r) /\ EntryOK(ref)
    BY <1>1 DEF Filling, r, IndInv
  <2> QED BY <1>3, <2>1, <2>2, <2>3 DEF EntryOK, Quiet, Moving, Permits, Accepts
<1> QED BY <1>6, <1>7, <1>8 DEF IndInv

LEMMA StoreFlagsInv == ASSUME IndInv, StoreFlags PROVE IndInv'
<1> DEFINE r == guest.ref
<1>1. guest.pc = "flags" /\ guest.pc # "idle"
  BY DEF StoreFlags, At
<1>2. /\ r \in Refs /\ r \in DOMAIN grants /\ EntryOK(r)
      /\ guest \in [pc : PCs, ref : Refs, seen : SUBSET Flags]
      /\ grants[r] \in [kind : {"permit", "accept"}, domain : Domains, frame : Frames]
  BY <1>1, Working
<1>3. /\ flags' = [flags EXCEPT ![r] = guest.seen]
      /\ guest' = Idle
      /\ UNCHANGED <<list, frame, domid, mapped, grants>>
  BY DEF StoreFlags
<1>4. /\ guest.seen = {grants[r].kind} /\ frame[r] = grants[r].frame
      /\ domid[r] = grants[r].domain
  BY <1>1 DEF IndInv, GuestOK
<1>5. Quiet(r)
  BY <1>1, <1>2 DEF EntryOK, Filling
<1> HIDE DEF r
<1>6. flags'[r] = {grants[r].kind}
  BY <1>2, <1>3, <1>4 DEF IndInv, Shape
<1>7. Shape' /\ AvailableListed'
  BY <1>2, <1>3 DEF IndInv, Shape, AvailableListed, Available
<1>8. GuestOK'
  BY <1>3 DEF GuestOK, Idle, PCs, Refs, Flags
<1>9. ASSUME NEW ref \in Refs PROVE EntryOK(ref)'
  <2>1. CASE ref = r
    <3>1. ref \in DOMAIN grants' /\ ~Filling(ref)'
      BY <1>2, <1>3, <2>1 DEF Filling, Idle
    <3>2. CASE grants[r].kind = "permit"
      BY <1>3, <1>4, <1>5, <1>6, <2>1, <3>1, <3>2 DEF EntryOK, Permits, Quiet
    <3>3. CASE grants[r].kind = "accept"
      BY <1>3, <1>4, <1>5, <1>6, <2>1, <3>1, <3>3 DEF EntryOK, Accepts, Quiet
    <3> QED BY <1>2, <3>2, <3>3
  <2>2. CASE ref # r
    <3>1. flags'[ref] = flags[ref] /\ ~Filling(ref) /\ ~Filling(ref)' /\ EntryOK(ref)
      BY <1>3, <2>2 DEF Filling, Idle, r, IndInv, Shape
    <3> QED BY <1>3, <3>1 DEF EntryOK, Quiet, Moving, Permits, Accepts
  <2> QED BY <2>1, <2>2
<1> QED BY <1>7, <1>8, <1>9 DEF IndInv

LEMMA ClearAccessInv == ASSUME IndInv, ClearAccess PROVE IndInv'
<1>1. guest.pc = "clear" /\ guest.pc # "idle"
  BY DEF ClearAccess, At
<1>2. PICK r \in Refs : r = guest.ref
  BY <1>1, Working
<1>3. /\ r \in DOMAIN grants /\ EntryOK(r)
      /\ guest \in [pc : PCs, ref : Refs, seen : SUBSET Flags]
  BY <1>1, <1>2, Working
<1>4. grants[r].kind = "permit" /\ guest.seen = {"permit"} /\ Permits(r)
  BY <1>1, <1>2, <1>3 DEF IndInv, GuestOK, EntryOK, Filling
<1>5. CASE flags[r] = guest.seen
  <2>1. /\ flags' = [flags EXCEPT ![r] = {}]
        /\ list' = PutFree(list, r) /\ grants' = Drop(r) /\ guest' = Idle
        /\ UNCHANGED <<frame, domid, mapped>>
    BY <1>2, <1>5 DEF ClearAccess
  <2>2. mapped[r] = Unmapped
    BY <1>4, <1>5 DEF Permits
  <2>3. flags' \in [Refs -> SUBSET Flags] /\ flags'[r] = {}
    BY <2>1 DEF IndInv, Shape
  <2>4. \A q \in Refs : q # r => flags'[q] = flags[q]
    BY <2>1 DEF IndInv, Shape
  <2>5. Quiet(r)'
    BY <2>1, <2>2, <2>3 DEF Quiet, Moving
  <2> QED BY <1>1, <1>2, <2>1, <2>3, <2>4, <2>5, FreeInv
<1>6. CASE flags[r] # guest.seen
  <2>1. flags[r] = {"permit", "reading"}
    BY <1>4, <1>6 DEF Permits
  <2>2. guest' = Idle /\ UNCHANGED <<list, table, mapped, grants>>
    BY <1>2, <1>6, <2>1 DEF ClearAccess, InUse, table
  <2>3. GuestOK'
    BY <2>2 DEF GuestOK, Idle, PCs, Refs, Flags
  <2>4. \A ref \in Refs : Filling(ref)' <=> Filling(ref)
    BY <1>1, <2>2 DEF Filling, Idle
  <2> QED BY <2>2, <2>3, <2>4, GuestMoveInv
<1> QED BY <1>5, <1>6

LEMMA ReleaseTransferInv == ASSUME IndInv, ReleaseTransfer PROVE IndInv'
<1>1. guest.pc = "release" /\ guest.pc # "idle"
  BY DEF ReleaseTransfer, At
<1>2. PICK r \in Refs : r = guest.ref
  BY <1>1, Working
<1>3. /\ r \in DOMAIN grants /\ EntryOK(r)
      /\ guest \in [pc : PCs, ref : Refs, seen : SUBSET Flags]
  BY <1>1, <1>2, Working
<1>4. grants[r].kind = "accept" /\ guest.seen = {"accept"} /\ Accepts(r)
  BY <1>1, <1>2, <1>3 DEF IndInv, GuestOK, EntryOK, Filling
<1>5. CASE flags[r] = guest.seen
  <2>1. /\ flags' = [flags EXCEPT ![r] = {}]
        /\ list' = PutFree(list, r) /\ grants' = Drop(r) /\ guest' = Idle
        /\ UNCHANGED <<frame, domid, mapped>>
    BY <1>2, <1>5 DEF ReleaseTransfer
  <2>3. flags' \in [Refs -> SUBSET Flags] /\ flags'[r] = {}
    BY <2>1 DEF IndInv, Shape
  <2>4. \A q \in Refs : q # r => flags'[q] = flags[q]
    BY <2>1 DEF IndInv, Shape
  <2>5. Quiet(r)'
    BY <1>4, <2>1, <2>3 DEF Quiet, Moving, Accepts
  <2> QED BY <1>1, <1>2, <2>1, <2>3, <2>4, <2>5, FreeInv
<1>6. CASE flags[r] # guest.seen
  <2>1. guest' = [guest EXCEPT !.pc = "read"] /\ UNCHANGED <<list, table, mapped, grants>>
    BY <1>2, <1>6 DEF ReleaseTransfer, table
  <2>2. guest' \in [pc : PCs, ref : Refs, seen : SUBSET Flags] /\ guest'.pc = "read"
        /\ guest'.ref = r
    BY <1>2, <1>3, <2>1 DEF PCs
  <2>3. GuestOK'
    BY <1>3, <1>4, <2>1, <2>2 DEF GuestOK
  <2>4. \A ref \in Refs : Filling(ref)' <=> Filling(ref)
    BY <1>1, <2>2 DEF Filling
  <2> QED BY <2>1, <2>3, <2>4, GuestMoveInv
<1> QED BY <1>5, <1>6

\* When the wait ends the entry holds the frame that was transferred.
LEMMA WaitOver ==
  ASSUME IndInv, guest.pc = "wait", "completed" \in guest.seen
  PROVE  /\ flags[guest.ref] = {"accept", "committed", "completed"}
         /\ frame[guest.ref] = NewFrame
         /\ mapped[guest.ref] = Unmapped
<1>1. Accepts(guest.ref) /\ guest.seen \subseteq flags[guest.ref]
  BY Working DEF IndInv, GuestOK, EntryOK, Filling
<1> QED BY <1>1 DEF Accepts

LEMMA WaitTransferInv == ASSUME IndInv, WaitTransfer PROVE IndInv'
<1>1. guest.pc = "wait" /\ guest.pc # "idle"
  BY DEF WaitTransfer, At
<1>2. PICK r \in Refs : r = guest.ref
  BY <1>1, Working
<1>3. /\ r \in DOMAIN grants
      /\ guest \in [pc : PCs, ref : Refs, seen : SUBSET Flags]
      /\ grants[r].kind = "accept" /\ "committed" \in flags[r]
  BY <1>1, <1>2, Working DEF IndInv, GuestOK
<1>4. CASE "completed" \in guest.seen
  <2>1. /\ list' = PutFree(list, r) /\ grants' = Drop(r) /\ guest' = Idle
        /\ UNCHANGED <<flags, frame, domid, mapped>>
    BY <1>2, <1>4 DEF WaitTransfer, table
  <2>2. Quiet(r)'
    BY <1>1, <1>2, <1>4, <2>1, WaitOver DEF Quiet, Moving
  <2>3. flags' \in [Refs -> SUBSET Flags] /\ \A q \in Refs : q # r => flags'[q] = flags[q]
    BY <2>1 DEF IndInv, Shape
  <2> QED BY <1>1, <1>2, <2>1, <2>2, <2>3, FreeInv
<1>5. CASE "completed" \notin guest.seen
  <2>1. /\ guest' = [guest EXCEPT !.seen = flags[r]]
        /\ UNCHANGED <<list, table, mapped, grants>>
    BY <1>2, <1>5 DEF WaitTransfer
  <2>2. flags[r] \in SUBSET Flags /\ flags' = flags /\ grants' = grants
    BY <2>1 DEF IndInv, Shape, table
  <2>3. guest' \in [pc : PCs, ref : Refs, seen : SUBSET Flags] /\ guest'.pc = "wait"
        /\ guest'.ref = r /\ guest'.seen = flags[r]
    BY <1>1, <1>2, <1>3, <2>1, <2>2
  <2>4. GuestOK'
    BY <1>3, <2>2, <2>3 DEF GuestOK
  <2>5. \A ref \in Refs : Filling(ref)' <=> Filling(ref)
    BY <1>1, <2>3 DEF Filling
  <2> QED BY <2>1, <2>4, <2>5, GuestMoveInv
<1> QED BY <1>4, <1>5

LEMMA ReadTransferInv == ASSUME IndInv, ReadTransfer PROVE IndInv'
<1>1. guest.pc = "read" /\ guest.pc # "idle"
  BY DEF ReadTransfer, At
<1>2. PICK r \in Refs : r = guest.ref
  BY <1>1, Working
<1>3. /\ r \in DOMAIN grants /\ EntryOK(r)
      /\ guest \in [pc : PCs, ref : Refs, seen : SUBSET Flags]
      /\ grants[r].kind = "accept" /\ flags[r] \in SUBSET Flags
  BY <1>1, <1>2, Working DEF IndInv, GuestOK, Shape
<1>4. Accepts(r)
  BY <1>1, <1>2, <1>3 DEF EntryOK, Filling
<1>5. /\ guest' = [guest EXCEPT !.seen = flags[r],
                    !.pc = IF "committed" \in flags[r] THEN "wait" ELSE "release"]
      /\ UNCHANGED <<list, flags, frame, domid, mapped, grants>>
  BY <1>2 DEF ReadTransfer, table
<1>6. /\ guest' \in [pc : PCs, ref : Refs, seen : SUBSET Flags]
      /\ guest'.ref = r /\ guest'.seen = flags[r]
      /\ guest'.pc = IF "committed" \in flags[r] THEN "wait" ELSE "release"
  BY <1>2, <1>3, <1>5 DEF PCs
<1>7. "committed" \notin flags[r] => flags[r] = {"accept"}
  BY <1>4 DEF Accepts
<1>8. GuestOK'
  BY <1>3, <1>5, <1>6, <1>7 DEF GuestOK
<1>9. \A ref \in Refs : Filling(ref)' <=> Filling(ref)
  BY <1>1, <1>6 DEF Filling
<1> QED BY <1>5, <1>8, <1>9, GuestMoveInv DEF table

\* Beginning to end a grant keeps the invariant.
LEMMA BeginEndInv ==
  ASSUME IndInv, NEW ref \in Refs, EndAccess(ref) \/ EndTransfer(ref)
  PROVE  IndInv'
<1>1. /\ guest.pc = "idle" /\ ref \in DOMAIN grants
      /\ UNCHANGED <<list, table, mapped, grants>>
  BY DEF EndAccess, EndTransfer, At
<1>2. EntryOK(ref) /\ ~Filling(ref)
  BY <1>1 DEF IndInv, Filling
<1>3. GuestOK' /\ guest'.pc \in {"idle", "clear", "read"}
  <2>1. CASE EndAccess(ref) /\ InUse(flags[ref])
    BY <1>1, <2>1 DEF EndAccess, IndInv, GuestOK
  <2>2. CASE EndAccess(ref) /\ ~InUse(flags[ref])
    <3>1. flags[ref] = {"permit"} /\ grants[ref].kind = "permit"
      BY <1>1, <1>2, <2>2 DEF EndAccess, EntryOK, Permits, InUse
    <3>2. guest' = [pc |-> "clear", ref |-> ref, seen |-> flags[ref]]
      BY <2>2 DEF EndAccess
    <3> QED BY <1>1, <3>1, <3>2 DEF GuestOK, PCs, Flags
  <2>3. CASE EndTransfer(ref)
    <3>1. guest' = [pc |-> "read", ref |-> ref, seen |-> {}] /\ grants[ref].kind = "accept"
      BY <2>3 DEF EndTransfer
    <3> QED BY <1>1, <3>1 DEF GuestOK, PCs, Flags
  <2> QED BY <2>1, <2>2, <2>3
<1>4. \A r \in Refs : Filling(r)' <=> Filling(r)
  BY <1>1, <1>3 DEF Filling
<1> QED BY <1>1, <1>3, <1>4, GuestMoveInv
----------------------------------------------------------------------------
\* The hypervisor touches only an entry that offers it something: one in use
\* whose flags the kernel has stored.
LEMMA Offered ==
  ASSUME IndInv, NEW ref \in Refs, ~Quiet(ref)
  PROVE  /\ ref \in DOMAIN grants /\ ~Filling(ref)
         /\ \/ grants[ref].kind = "permit" /\ Permits(ref)
            \/ grants[ref].kind = "accept" /\ Accepts(ref)
<1>1. EntryOK(ref)
  BY DEF IndInv
<1>2. ref \in DOMAIN grants /\ ~Filling(ref)
  BY <1>1 DEF EntryOK
<1>3. grants[ref].kind \in {"permit", "accept"}
  BY <1>2 DEF IndInv, Shape
<1> QED BY <1>1, <1>2, <1>3 DEF EntryOK

\* A step of the hypervisor on such an entry that leaves it in order, and
\* takes no flag of a transfer back, keeps the invariant.
LEMMA OfferedStepInv ==
  ASSUME IndInv, NEW ref \in Refs, ~Quiet(ref),
         UNCHANGED <<list, domid, guest, grants>>,
         flags' \in [Refs -> SUBSET Flags],
         frame' \in [Refs -> Frames \cup {NewFrame, NoFrame}],
         DOMAIN mapped' = Refs, mapped' = [r \in Refs |-> mapped'[r]],
         \A q \in Refs : q # ref => /\ flags'[q] = flags[q] /\ frame'[q] = frame[q]
                                    /\ mapped'[q] = mapped[q],
         grants[ref].kind = "accept" => flags[ref] \subseteq flags'[ref],
         IF grants[ref].kind = "permit" THEN Permits(ref)' ELSE Accepts(ref)'
  PROVE  IndInv'
<1>1. ref \in DOMAIN grants /\ ~Filling(ref)
  BY Offered
<1>2. Shape'
  BY DEF IndInv, Shape
<1>3. AvailableListed'
  BY DEF IndInv, AvailableListed, Available
<1>4. GuestOK'
  <2>1. GuestOK /\ guest' = guest /\ grants' = grants /\ domid' = domid
    BY DEF IndInv
  <2>2. PICK r \in Refs : r = guest.ref
    BY <2>1 DEF GuestOK
  <2>3. guest.pc \in {"domid", "flags"} => frame'[r] = frame[r]
    BY <1>1, <2>2 DEF Filling
  <2>4. guest.pc = "wait" => "committed" \in flags'[r] /\ guest.seen \subseteq flags'[r]
    <3>1. CASE r = ref
      BY <2>1, <2>2, <3>1 DEF GuestOK
    <3>2. CASE r # ref
      BY <2>1, <2>2, <3>2 DEF GuestOK
    <3> QED BY <3>1, <3>2
  <2> QED BY <2>1, <2>2, <2>3, <2>4 DEF GuestOK
<1>5. ASSUME NEW q \in Refs PROVE EntryOK(q)'
  <2>1. Filling(q)' <=> Filling(q)
    BY DEF Filling
  <2>2. CASE q = ref
    BY <1>1, <2>1, <2>2 DEF EntryOK
  <2>3. CASE q # ref
    <3>1. /\ flags'[q] = flags[q] /\ frame'[q] = frame[q] /\ mapped'[q] = mapped[q]
          /\ domid'[q] = domid[q] /\ grants' = grants
      BY <2>3
    <3>2. /\ Quiet(q)' <=> Quiet(q)
          /\ Accepts(q)' <=> Accepts(q)
      BY <3>1 DEF Quiet, Moving, Accepts
    <3>3. Permits(q)' <=> Permits(q)
      BY <3>1 DEF Permits
    <3>4. EntryOK(q)
      BY DEF IndInv
    <3> QED BY <2>1, <3>1, <3>2, <3>3, <3>4, Zenon DEF EntryOK
  <2> QED BY <2>2, <2>3
<1> QED BY <1>2, <1>3, <1>4, <1>5 DEF IndInv

LEMMA MapInv == ASSUME IndInv, NEW ref \in Refs, Map(ref) PROVE IndInv'
<1>1. ~Quiet(ref) /\ "permit" \in flags[ref] /\ "reading" \notin flags[ref]
  BY DEF Map, Quiet, InUse
<1>2. grants[ref].kind = "permit" /\ Permits(ref) /\ flags[ref] = {"permit"}
  <2>1. ~Accepts(ref)
    BY <1>1 DEF Accepts
  <2>2. grants[ref].kind = "permit" /\ Permits(ref)
    BY <1>1, <2>1, Offered
  <2> QED BY <1>1, <2>2 DEF Permits
<1>3. /\ flags' = [flags EXCEPT ![ref] = {"permit", "reading"}]
      /\ mapped' = [mapped EXCEPT ![ref] = <<domid[ref], frame[ref]>>]
      /\ UNCHANGED <<list, frame, domid, guest, grants>>
  BY <1>2 DEF Map
<1>4. flags' \in [Refs -> SUBSET Flags] /\ flags'[ref] = {"permit", "reading"}
  BY <1>3 DEF IndInv, Shape, Flags
<1>5. mapped'[ref] = <<domid[ref], frame[ref]>> /\ DOMAIN mapped' = Refs
      /\ mapped' = [r \in Refs |-> mapped'[r]]
  BY <1>3 DEF IndInv, Shape
<1>6. \A q \in Refs : q # ref => flags'[q] = flags[q] /\ mapped'[q] = mapped[q]
  BY <1>3 DEF IndInv, Shape
<1>7. Permits(ref)'
  BY <1>2, <1>3, <1>4, <1>5 DEF Permits
<1>8. frame' \in [Refs -> Frames \cup {NewFrame, NoFrame}]
  BY <1>3 DEF IndInv, Shape
<1> QED BY <1>1, <1>2, <1>3, <1>4, <1>5, <1>6, <1>7, <1>8, OfferedStepInv

LEMMA UnmapInv == ASSUME IndInv, NEW ref \in Refs, Unmap(ref) PROVE IndInv'
<1>1. ~Quiet(ref) /\ mapped[ref] # Unmapped
  BY DEF Unmap, Quiet
<1>2. grants[ref].kind = "permit" /\ Permits(ref)
  BY <1>1, Offered DEF Accepts
<1>3. /\ flags' = [flags EXCEPT ![ref] = flags[ref] \ {"reading"}]
      /\ mapped' = [mapped EXCEPT ![ref] = Unmapped]
      /\ UNCHANGED <<list, frame, domid, guest, grants>>
  BY DEF Unmap
<1>4. flags' \in [Refs -> SUBSET Flags] /\ flags'[ref] = {"permit"}
  <2>1. flags[ref] \ {"reading"} = {"permit"}
    BY <1>2 DEF Permits
  <2> QED BY <1>3, <2>1 DEF IndInv, Shape, Flags
<1>5. mapped'[ref] = Unmapped /\ DOMAIN mapped' = Refs
      /\ mapped' = [r \in Refs |-> mapped'[r]]
  BY <1>3 DEF IndInv, Shape
<1>6. \A q \in Refs : q # ref => flags'[q] = flags[q] /\ mapped'[q] = mapped[q]
  BY <1>3 DEF IndInv, Shape
<1>7. Permits(ref)'
  BY <1>2, <1>3, <1>4, <1>5 DEF Permits
<1>8. frame' \in [Refs -> Frames \cup {NewFrame, NoFrame}]
  BY <1>3 DEF IndInv, Shape
<1> QED BY <1>1, <1>2, <1>3, <1>4, <1>5, <1>6, <1>7, <1>8, OfferedStepInv

\* The three steps of a transfer.
LEMMA TransferStepInv ==
  ASSUME IndInv, NEW ref \in Refs, Commit(ref) \/ Fill(ref) \/ Complete(ref)
  PROVE  IndInv'
<1>1. ~Quiet(ref) /\ UNCHANGED <<list, domid, guest, mapped, grants>>
  BY DEF Commit, Fill, Complete, Quiet
<1>2. grants[ref].kind = "accept" /\ Accepts(ref)
  <2>1. "accept" \in flags[ref] \/ "committed" \in flags[ref]
    BY DEF Commit, Fill, Complete, Moving
  <2>2. ~Permits(ref)
    BY <2>1 DEF Permits
  <2> QED BY <1>1, <2>2, Offered
<1>3. /\ flags' \in [Refs -> SUBSET Flags]
      /\ \A q \in Refs : q # ref => flags'[q] = flags[q]
  BY DEF Commit, Fill, Complete, IndInv, Shape, Flags
<1>4. /\ frame' \in [Refs -> Frames \cup {NewFrame, NoFrame}]
      /\ \A q \in Refs : q # ref => frame'[q] = frame[q]
  BY DEF Commit, Fill, Complete, IndInv, Shape
<1>5. Accepts(ref)' /\ flags[ref] \subseteq flags'[ref]
  <2>1. CASE Commit(ref)
    <3>1. flags'[ref] = flags[ref] \cup {"committed"} /\ frame' = frame
      BY <2>1 DEF Commit, IndInv, Shape
    <3>2. flags[ref] = {"accept"}
      BY <1>2, <2>1 DEF Commit, Accepts
    <3> QED BY <1>1, <1>2, <3>1, <3>2 DEF Accepts
  <2>2. CASE Fill(ref)
    <3>1. flags' = flags /\ frame'[ref] = NewFrame
      BY <2>2 DEF Fill, IndInv, Shape
    <3> QED BY <1>1, <1>2, <3>1 DEF Accepts
  <2>3. CASE Complete(ref)
    <3>1. flags'[ref] = flags[ref] \cup {"completed"} /\ frame' = frame /\ frame[ref] = NewFrame
      BY <2>3 DEF Complete, IndInv, Shape
    <3>2. flags[ref] = {"accept", "committed"}
      BY <1>2, <2>3 DEF Complete, Moving, Accepts
    <3> QED BY <1>1, <1>2, <3>1, <3>2 DEF Accepts
  <2> QED BY <2>1, <2>2, <2>3
<1>6. DOMAIN mapped' = Refs /\ mapped' = [r \in Refs |-> mapped'[r]]
  BY <1>1 DEF IndInv, Shape
<1> QED BY <1>1, <1>2, <1>3, <1>4, <1>5, <1>6, OfferedStepInv

----------------------------------------------------------------------------
LEMMA NextInv == ASSUME Enough, IndInv, [Next]_vars PROVE IndInv'
<1>1. ASSUME NEW d \in Domains, NEW f \in Frames, NEW k \in {"permit", "accept"}, Begin(k, d, f)
      PROVE  IndInv'
  BY <1>1, BeginInv
<1>2. CASE Guest
  BY <1>2, StoreDomidInv, StoreFlagsInv, ClearAccessInv, ReadTransferInv, ReleaseTransferInv,
     WaitTransferInv DEF Guest
<1>3. ASSUME NEW ref \in Refs, EndAccess(ref) \/ EndTransfer(ref) \/ Hypervisor(ref)
      PROVE  IndInv'
  BY <1>3, BeginEndInv, MapInv, UnmapInv, TransferStepInv DEF Hypervisor
<1>4. CASE UNCHANGED vars
  BY <1>4 DEF vars, table, IndInv, Shape, AvailableListed, Available, GuestOK, EntryOK, Filling,
              Quiet, Moving, Permits, Accepts
<1> QED BY <1>1, <1>2, <1>3, <1>4 DEF Next

LEMMA Inductive == ASSUME Enough PROVE Spec => []IndInv
<1>1. Init => IndInv
  BY InitInv
<1>2. IndInv /\ [Next]_vars => IndInv'
  BY NextInv
<1> QED BY <1>1, <1>2, PTL DEF Spec

\* What the code of xenGrant.c stores in the table and in its locals stays in
\* range: in particular every link of the list is the index of an entry.
THEOREM TypesHold == ASSUME Enough PROVE Spec => []TypeOK
<1>1. IndInv => TypeOK
  <2> SUFFICES ASSUME IndInv PROVE TypeOK
    OBVIOUS
  <2>1. guest.ref \in Refs /\ guest.seen \subseteq Flags
    BY DEF IndInv, GuestOK
  <2>2. DOMAIN grants \subseteq Refs
    BY DEF IndInv, Shape, Usable, Refs
  <2> QED BY <2>1, <2>2 DEF TypeOK, IndInv, Shape
<1> QED BY <1>1, Inductive, PTL

\* The free list holds exactly the entries no client holds (_getFreeEntry and
\* _putFreeEntry, called from every public function), as long as clients hold
\* no more grants than there are entries.
THEOREM ListHoldsUnused == ASSUME Enough PROVE Spec => []ListIsUnused
<1>1. IndInv => AvailableListed
  BY DEF IndInv
<1> QED BY <1>1, TypesHold, Inductive, PTL DEF ListIsUnused

\* The hypervisor only ever maps the frame and the domain of one grant that is
\* held, although xenGrantAccess stores them one by one and xenGrantEndAccess
\* reads and clears the flags in two steps.
THEOREM OnlyGrantedMapped == ASSUME Enough PROVE Spec => []MapsOnlyGranted
<1>1. IndInv => MapsOnlyGranted
  <2> SUFFICES ASSUME IndInv, NEW ref \in Refs, mapped[ref] # Unmapped
               PROVE  /\ ref \in DOMAIN grants /\ grants[ref].kind = "permit"
                      /\ mapped[ref] = <<grants[ref].domain, grants[ref].frame>>
    BY DEF MapsOnlyGranted
  <2>1. ~Quiet(ref)
    BY DEF Quiet
  <2>2. ref \in DOMAIN grants /\ grants[ref].kind = "permit" /\ Permits(ref)
    BY <2>1, Offered DEF Accepts
  <2> QED BY <2>2 DEF Permits
<1> QED BY <1>1, Inductive, PTL

\* No transfer is under way on an entry that xenGrantEndTransfer gave back,
\* although it leaves the flags of a completed transfer in the entry.
THEOREM NothingMovesIntoFree == ASSUME Enough PROVE Spec => []NoTransferIntoFree
<1>1. IndInv => NoTransferIntoFree
  <2> SUFFICES ASSUME IndInv, NEW ref \in Refs, Moving(ref) PROVE ref \in DOMAIN grants
    BY DEF NoTransferIntoFree
  <2> QED BY Offered DEF Quiet
<1> QED BY <1>1, Inductive, PTL

\* xenGrantEndTransfer returns the frame that was transferred.
THEOREM TransferYields == ASSUME Enough PROVE Spec => TransferYieldsNewFrame
<1>1. IndInv /\ [Next]_vars => [At("wait") /\ guest'.pc = "idle" => result' = NewFrame]_vars
  <2> SUFFICES ASSUME IndInv, Next, At("wait"), guest'.pc = "idle"
               PROVE  result' = NewFrame
    OBVIOUS
  <2>1. guest.pc = "wait"
    BY DEF At
  <2>2. guest' # guest
    BY <2>1
  <2>3. WaitTransfer
    BY <2>1, <2>2 DEF Next, Begin, Guest, StoreDomid, StoreFlags, ClearAccess, ReadTransfer,
       ReleaseTransfer, EndAccess, EndTransfer, Hypervisor, Map, Unmap, Commit, Fill, Complete, At
  <2>4. "completed" \in guest.seen
    <3> SUFFICES ASSUME "completed" \notin guest.seen PROVE FALSE
      OBVIOUS
    <3>1. guest' = [guest EXCEPT !.seen = flags[guest.ref]]
      BY <2>3 DEF WaitTransfer
    <3>2. guest \in [pc : PCs, ref : Refs, seen : SUBSET Flags]
      BY DEF IndInv, GuestOK
    <3> QED BY <2>1, <3>1, <3>2
  <2>5. result' = frame[guest.ref]
    BY <2>3, <2>4 DEF WaitTransfer
  <2> QED BY <2>1, <2>4, <2>5, WaitOver
<1> QED BY <1>1, Inductive, PTL DEF Spec, TransferYieldsNewFrame

\* The entry that _getFreeEntry hands out is unused.
THEOREM FreshEntry == ASSUME Enough PROVE Spec => FoundEntryUnused
<1>1. IndInv /\ [Next]_vars =>
        [At("idle") /\ guest'.pc = "domid" => guest'.ref \in Usable \ DOMAIN grants]_vars
  <2> SUFFICES ASSUME IndInv, Next, At("idle"), guest'.pc = "domid"
               PROVE  guest'.ref \in Usable \ DOMAIN grants
    OBVIOUS
  <2>1. guest.pc = "idle"
    BY DEF At
  <2>2. guest' # guest
    BY <2>1
  <2>3. ~Guest
    BY <2>1 DEF Guest, StoreDomid, StoreFlags, ClearAccess, ReadTransfer, ReleaseTransfer,
                WaitTransfer, At
  <2>4. ASSUME NEW ref \in Refs PROVE ~(EndAccess(ref) \/ EndTransfer(ref) \/ Hypervisor(ref))
    <3>1. ~EndAccess(ref) /\ ~EndTransfer(ref)
      <4>1. EndAccess(ref) => guest' = [pc |-> "clear", ref |-> ref, seen |-> flags[ref]]
        BY <2>2 DEF EndAccess
      <4>2. EndTransfer(ref) => guest' = [pc |-> "read", ref |-> ref, seen |-> {}]
        BY DEF EndTransfer
      <4> QED BY <4>1, <4>2
    <3>2. ~Hypervisor(ref)
      BY <2>2 DEF Hypervisor, Map, Unmap, Commit, Fill, Complete
    <3> QED BY <3>1, <3>2
  <2>5. PICK d \in Domains, f \in Frames, k \in {"permit", "accept"} : Begin(k, d, f)
    BY <2>3, <2>4 DEF Next
  <2> QED BY <2>5, BeginInv DEF Available
<1> QED BY <1>1, Inductive, PTL DEF Spec, FoundEntryUnused
==============================================================================
