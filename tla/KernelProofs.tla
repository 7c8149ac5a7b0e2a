---------------------------- MODULE KernelProofs ----------------------------
(****************************************************************************)
(* Proofs about two parts of the kernel that need neither the hypervisor    *)
(* nor another domain: CrashReport and HandleTable.                         *)
(*                                                                          *)
(* CrashReport, for a kernel of any size, a stack of any size, calls to any *)
(* depth and every initial store.  The invariant says where the frames and  *)
(* the saved registers of the active calls lie on the stack, and at which   *)
(* of them the unwinder is.                                                 *)
(*                                                                          *)
(* HandleTable, for every table size, set of references and number of       *)
(* handles: its invariants, and that it implements HandleMap.  To its       *)
(* clients the array of slots, searched and doubled, is a map from          *)
(* identifiers to references, but for the handles HandleMap says it may     *)
(* forget.                                                                  *)
(****************************************************************************)
EXTENDS CrashReport, HandleTable, FiniteSetTheorems, WellFoundedInduction, TLAPS

----------------------------------------------------------------------------
(* The end of the kernel                                                    *)

\* The i-th of the active calls has no frame, but registers: it was interrupted.
RegsAt(cs, i) == i > 1 /\ cs[i - 1] \in RegSites

\* Registers and frames, as the i-th of the active calls finds them at fs[i].
\* Above the registers there may be the return address of a call without a frame.
RegsLie(fs, m, cs, i) ==
  /\ \/ fs[i + 1] = fs[i] + RegsWords
     \/ fs[i + 1] = fs[i] + RegsWords + 1 /\ m[fs[i] + RegsWords] \in CallSites
  /\ m[fs[i]] \in R15Values /\ m[fs[i] + 1] = fs[i + 1]
  /\ m[fs[i] + 2] = cs[i] /\ m[fs[i] + 3] = KernelCs
  /\ cs[i] \in CallSites \cup WildTargets

FrameLies(fs, m, cs, i) ==
  /\ fs[i + 1] = fs[i] + FrameWords
  /\ m[fs[i] + 1] = cs[i]
  /\ cs[i] \in CallSites \cup RegSites
  /\ cs[i] \in CallSites => m[fs[i]] = fs[i + 1]
  /\ cs[i] \in RegSites => i + 2 <= Len(cs) /\ m[fs[i]] = fs[i + 2]

\* The frames of the active calls, one behind the other up to that of startKernel.
Links(fs, m, cs) ==
  LET n == Len(cs) IN
  /\ fs[n] = StackEnd - FrameWords /\ cs[n] = StartSite /\ ~RegsAt(cs, n)
  /\ m[fs[n]] = 0 /\ m[fs[n] + 1] = StartSite
  /\ \A i \in 1..n : fs[1] <= fs[i] /\ fs[i] <= StackEnd - FrameWords
  /\ \A i \in 1..(n - 1) : IF RegsAt(cs, i) THEN RegsLie(fs, m, cs, i) ELSE FrameLies(fs, m, cs, i)

\* How far the report has come.  The first line is of the first of the active
\* calls, or of the second when it began with registers.
Skipped == Len(callers) - Len(truth)
Position == Len(printed) + 1 + Skipped

\* The lines are those of the calls, one after the other, ...
OnTrack(fs) ==
  /\ Skipped \in {0, 1}
  /\ \A i \in DOMAIN truth : truth[i] = callers[i + Skipped]
  /\ Position <= Len(callers)
  /\ frame = fs[Position] /\ (isRegs <=> RegsAt(callers, Position))

\* ... or the line was among them after which no line can be relied upon.
Beyond == \E i \in DOMAIN truth : i <= Len(printed) /\ Ends(truth[i])

\* What the report has said so far.
LinesTrue ==
  /\ \A i \in DOMAIN printed : printed[i].name = LookupAddress(symtab, printed[i].at)
  /\ \A i \in DOMAIN printed : Reliable(i) => i \in DOMAIN truth /\ printed[i].at = truth[i]

Backed(fs, m, p, cs) == fs \in [1..Len(cs) -> Int] /\ fs[1] = p /\ Links(fs, m, cs)

ChainIs(fs) ==
  /\ Backed(fs, mem, fp, callers)
  /\ pc = "exit" /\ regs # 0 => /\ Len(callers) >= 2 /\ RegsAt(callers, 2) /\ regs = fs[2]
  /\ pc = "unwind" => Beyond \/ OnTrack(fs)

SymbolsTrue ==
  \/ symtab = NoSymbols
  \/ \E j \in DOMAIN archive :
       /\ archive[j].name = "ethos.elf" /\ Vouched(archive[j].elf)
       /\ symtab = archive[j].elf.symbols
       /\ symtab \in Seq({symtab[k] : k \in DOMAIN symtab})

Shapes ==
  /\ mem \in [Stack -> Int]
  /\ callers \in Seq(Addresses) /\ callers # <<>>
  /\ printed \in Seq({printed[i] : i \in DOMAIN printed}) /\ truth \in Seq(Addresses)
  /\ sp \in Int /\ sp >= StackBase /\ fp \in Int
  /\ sp = fp \/ (sp = fp - 1 /\ pc = "running" /\ mem[sp] \in CallSites)
  /\ pc \in {"running", "exit", "bug", "overflow", "unwind", "flush", "off"}
  /\ pc = "running" => sp - Reserve >= StackBase /\ printed = <<>> /\ truth = <<>>
  /\ archive \in Archives

\* The report goes on until it has come to the last of the calls, or beyond.
Told == pc \in {"flush", "off"} => \A i \in DOMAIN truth : Reliable(i) => i <= Len(printed)

Chain == \E fs : ChainIs(fs)

\* The inductive invariant
IInv == SymbolsTrue /\ Shapes /\ Chain /\ LinesTrue /\ Told

(****************************************************************************)
(* The layout.                                                              *)
(****************************************************************************)
LEMMA Layout ==
  /\ StackBase \in Nat /\ StackSize \in Nat /\ StackEnd \in Nat /\ StackEnd = StackBase + StackSize
  /\ \A a \in CodeAddresses : a \in Nat /\ VirtStart < a /\ a < StackBase
  /\ \A a \in Addresses : a \in Nat
  /\ CallSites \subseteq CodeAddresses /\ RegSites \subseteq CodeAddresses
  /\ CodeAddresses \subseteq Addresses /\ WildTargets \subseteq Addresses
  /\ WildTargets \cap CodeAddresses = {}
  /\ StartSite \in CodeAddresses
  /\ CallSites \cap RegSites = {} /\ StartSite \notin CallSites \cup RegSites
  /\ StackBase > 0 /\ VirtStart \in Nat
  /\ \A a \in R15Values : a \in Nat
<1>1. /\ StackBase \in Nat /\ StackSize \in Nat /\ StackEnd \in Nat /\ StackEnd = StackBase + StackSize
      /\ \A a \in CodeAddresses : a \in Nat /\ VirtStart < a /\ a < StackBase
      /\ VirtStart \in Nat
      /\ \A a \in R15Values : a \in Nat
  BY LayoutAssumption DEF StackEnd
<1>2. /\ CallSites \subseteq CodeAddresses /\ RegSites \subseteq CodeAddresses
      /\ CodeAddresses \subseteq Addresses /\ WildTargets \subseteq Addresses
      /\ StartSite \in CodeAddresses
  BY DEF CodeAddresses, Addresses, RegSites
<1>3. WildTargets \cap CodeAddresses = {} /\ WildTargets \subseteq Nat
  BY LayoutAssumption
<1>4. \A a \in Addresses : a \in Nat
  BY <1>1, <1>3 DEF Addresses
<1>5. CallSites \cap RegSites = {} /\ StartSite \notin CallSites \cup RegSites
  <2>1. /\ EntrySite \notin CallSites /\ CallbackSite \notin CallSites
        /\ StartSite \notin CallSites \cup {EntrySite, CallbackSite}
    BY LayoutAssumption
  <2> QED BY <2>1 DEF RegSites
<1>6. StackBase > 0
  <2>1. StartSite \in Nat /\ StartSite < StackBase
    BY <1>1, <1>2
  <2> QED BY <1>1, <2>1
<1> QED BY <1>1, <1>2, <1>3, <1>4, <1>5, <1>6

\* What is said of one call does not change when calls are put before it or
\* taken from before it, and the words it lies in stay.
LEMMA LieMoves ==
  ASSUME NEW fs, NEW gs, NEW m, NEW w, NEW cs, NEW ds, NEW i \in Int, NEW k \in Int,
         Len(cs) \in Int, Len(ds) = Len(cs) + k,
         gs[i + k] = fs[i], gs[(i + k) + 1] = fs[i + 1], i + 2 <= Len(cs) => gs[(i + k) + 2] = fs[i + 2],
         ds[i + k] = cs[i],
         w[fs[i]] = m[fs[i]], w[fs[i] + 1] = m[fs[i] + 1], 
         RegsLie(fs, m, cs, i) => /\ w[fs[i] + 2] = m[fs[i] + 2] /\ w[fs[i] + 3] = m[fs[i] + 3]
                                  /\ w[fs[i] + RegsWords] = m[fs[i] + RegsWords]
  PROVE  /\ RegsLie(fs, m, cs, i) => RegsLie(gs, w, ds, i + k)
         /\ FrameLies(fs, m, cs, i) => FrameLies(gs, w, ds, i + k)
BY DEF RegsLie, FrameLies

\* A frame lies on the stack, and so do registers.
LEMMA LinksBounds ==
  ASSUME NEW fs, NEW m, NEW cs, Len(cs) \in Nat, Len(cs) >= 1, fs \in [1..Len(cs) -> Int],
         Links(fs, m, cs)
  PROVE  \A i \in 1..Len(cs) : /\ fs[1] <= fs[i] /\ fs[i] + 1 < StackEnd
                               /\ i < Len(cs) /\ RegsLie(fs, m, cs, i) => fs[i] + 5 < StackEnd
<1>1. \A i \in 1..Len(cs) : fs[1] <= fs[i] /\ fs[i] <= StackEnd - 2 /\ fs[i] \in Int
  BY DEF Links, FrameWords
<1>2. ASSUME NEW i \in 1..Len(cs), i < Len(cs), RegsLie(fs, m, cs, i)
      PROVE  fs[i] + 5 < StackEnd
  <2>1. fs[i + 1] \in {fs[i] + 4, fs[i] + 5} /\ i + 1 \in 1..Len(cs)
    BY <1>1, <1>2 DEF RegsLie, RegsWords
  <2>2. fs[i + 1] <= StackEnd - 2
    BY <1>1, <2>1
  <2> QED BY <1>1, <2>1, <2>2, Layout
<1> QED BY <1>1, <1>2, Layout

\* The words from an address on are left as they are.
Above(m, w, p) == \A a \in p..(StackEnd - 1) : w[a] = m[a]

\* What is said of a call whose words are left as they are.
SameWords(fs, m, w, cs, i) ==
  /\ w[fs[i]] = m[fs[i]] /\ w[fs[i] + 1] = m[fs[i] + 1]
  /\ i < Len(cs) /\ RegsLie(fs, m, cs, i) => /\ w[fs[i] + 2] = m[fs[i] + 2] /\ w[fs[i] + 3] = m[fs[i] + 3]
                                            /\ w[fs[i] + RegsWords] = m[fs[i] + RegsWords]

LEMMA LieKept ==
  ASSUME NEW fs, NEW m, NEW w, NEW cs, Len(cs) \in Nat, Len(cs) >= 1, fs \in [1..Len(cs) -> Int],
         Links(fs, m, cs), Above(m, w, fs[1]), NEW i \in 1..Len(cs)
  PROVE  SameWords(fs, m, w, cs, i)
<1>1. fs[i] \in Int /\ fs[1] \in Int /\ StackEnd \in Int
  BY Layout
<1>2. fs[1] <= fs[i] /\ fs[i] + 1 < StackEnd
  BY LinksBounds
<1>3. i < Len(cs) /\ RegsLie(fs, m, cs, i) => fs[i] + 5 < StackEnd
  BY LinksBounds
<1>4. fs[i] \in fs[1]..(StackEnd - 1) /\ fs[i] + 1 \in fs[1]..(StackEnd - 1)
  BY <1>1, <1>2
<1>5. i < Len(cs) /\ RegsLie(fs, m, cs, i) =>
        /\ fs[i] + 2 \in fs[1]..(StackEnd - 1) /\ fs[i] + 3 \in fs[1]..(StackEnd - 1)
        /\ fs[i] + 4 \in fs[1]..(StackEnd - 1)
  BY <1>1, <1>2, <1>3
<1> QED BY <1>4, <1>5 DEF Above, SameWords, RegsWords

(****************************************************************************)
(* What the calls leave.                                                    *)
(****************************************************************************)
\* A sequence behind a few more elements.
LEMMA Prepend ==
  ASSUME NEW S, NEW cs \in Seq(S), NEW a \in S
  PROVE  /\ <<a>> \o cs \in Seq(S) /\ <<a>> \o cs # <<>>
         /\ Len(<<a>> \o cs) = Len(cs) + 1 /\ (<<a>> \o cs)[1] = a
         /\ \A i \in 1..Len(cs) : (<<a>> \o cs)[i + 1] = cs[i]
OBVIOUS

LEMMA PrependTwo ==
  ASSUME NEW S, NEW cs \in Seq(S), NEW a \in S, NEW b \in S
  PROVE  /\ <<a, b>> \o cs \in Seq(S) /\ <<a, b>> \o cs # <<>>
         /\ Len(<<a, b>> \o cs) = Len(cs) + 2
         /\ (<<a, b>> \o cs)[1] = a /\ (<<a, b>> \o cs)[2] = b
         /\ \A i \in 1..Len(cs) : (<<a, b>> \o cs)[i + 2] = cs[i]
OBVIOUS

LEMMA DropOne ==
  ASSUME NEW S, NEW cs \in Seq(S), Len(cs) >= 2
  PROVE  /\ Tail(cs) \in Seq(S) /\ Tail(cs) # <<>> /\ Len(Tail(cs)) = Len(cs) - 1
         /\ \A i \in 1..(Len(cs) - 1) : Tail(cs)[i] = cs[i + 1]
<1>1. Tail(cs) \in Seq(S) /\ Len(Tail(cs)) = Len(cs) - 1 /\ Tail(cs) # <<>>
  <2>1. cs # <<>>
    OBVIOUS
  <2>2. Tail(cs) \in Seq(S)
    BY <2>1
  <2>3. Len(Tail(cs)) = Len(cs) - 1
    BY <2>1
  <2>4. Len(Tail(cs)) # 0
    <3>1. Len(cs) \in Nat /\ Len(cs) >= 2
      OBVIOUS
    <3> QED BY <2>3, <3>1
  <2>5. Len(<<>>) = 0
    OBVIOUS
  <2>6. Tail(cs) # <<>>
    BY <2>4, <2>5, Zenon
  <2> QED BY <2>2, <2>3, <2>6
<1>2. ASSUME NEW i \in 1..(Len(cs) - 1) PROVE Tail(cs)[i] = cs[i + 1]
  OBVIOUS
<1> QED BY <1>1, <1>2

\* The calls from the lo-th of cs on are those of ds, k places further.
Moved(fs, gs, cs, ds, lo, k) ==
  /\ Len(ds) = Len(cs) + k
  /\ \A i \in lo..Len(cs) : /\ gs[i + k] = fs[i] /\ ds[i + k] = cs[i]
                            /\ RegsAt(ds, i + k) <=> RegsAt(cs, i)

\* Their frames and registers lie where they lay.
LEMMA LinksMove ==
  ASSUME NEW fs, NEW gs, NEW m, NEW w, NEW cs, NEW ds, NEW k \in Int,
         Len(cs) \in Nat, Len(cs) >= 1, fs \in [1..Len(cs) -> Int], NEW lo \in 1..Len(cs),
         Links(fs, m, cs), Above(m, w, fs[1]), Moved(fs, gs, cs, ds, lo, k)
  PROVE  /\ gs[Len(ds)] = StackEnd - FrameWords /\ ds[Len(ds)] = StartSite
         /\ ~RegsAt(ds, Len(ds)) /\ w[gs[Len(ds)]] = 0 /\ w[gs[Len(ds)] + 1] = StartSite
         /\ \A j \in (lo + k)..(Len(ds) - 1) :
              IF RegsAt(ds, j) THEN RegsLie(gs, w, ds, j) ELSE FrameLies(gs, w, ds, j)
<1> DEFINE n == Len(cs)
<1>1. n \in Nat /\ n >= 1 /\ Len(ds) = n + k
  BY DEF Moved
<1>2. \A i \in lo..n : gs[i + k] = fs[i] /\ ds[i + k] = cs[i] /\ (RegsAt(ds, i + k) <=> RegsAt(cs, i))
  BY DEF Moved
<1>3. /\ fs[n] = StackEnd - FrameWords /\ cs[n] = StartSite /\ ~RegsAt(cs, n)
      /\ m[fs[n]] = 0 /\ m[fs[n] + 1] = StartSite
  BY DEF Links
<1>4. \A i \in 1..(n - 1) : IF RegsAt(cs, i) THEN RegsLie(fs, m, cs, i) ELSE FrameLies(fs, m, cs, i)
  BY DEF Links
<1>5. ASSUME NEW j \in (lo + k)..(Len(ds) - 1)
      PROVE  IF RegsAt(ds, j) THEN RegsLie(gs, w, ds, j) ELSE FrameLies(gs, w, ds, j)
  <2> DEFINE i == j - k
  <2>1. /\ i \in Int /\ i + k = j /\ i \in lo..n /\ i + 1 \in lo..n /\ i \in 1..(n - 1) /\ i \in 1..n
        /\ i + 2 <= n => i + 2 \in lo..n
        /\ (i + 1) + k = (i + k) + 1 /\ (i + 2) + k = (i + k) + 2
    BY <1>1
  <2> HIDE DEF i
  <2>2. /\ gs[i + k] = fs[i] /\ gs[(i + k) + 1] = fs[i + 1] /\ ds[i + k] = cs[i]
        /\ i + 2 <= Len(cs) => gs[(i + k) + 2] = fs[i + 2]
    BY <1>2, <2>1
  <2>3. i < Len(cs)
    BY <1>1, <2>1
  <2>4. /\ w[fs[i]] = m[fs[i]] /\ w[fs[i] + 1] = m[fs[i] + 1]
        /\ RegsLie(fs, m, cs, i) => /\ w[fs[i] + 2] = m[fs[i] + 2] /\ w[fs[i] + 3] = m[fs[i] + 3]
                                    /\ w[fs[i] + RegsWords] = m[fs[i] + RegsWords]
    <3>1. i \in 1..Len(cs)
      BY <2>1
    <3> HIDE DEF n
    <3>2. Len(cs) \in Nat /\ Len(cs) >= 1
      OBVIOUS
    <3>3. SameWords(fs, m, w, cs, i)
      BY <3>1, <3>2, LieKept
    <3> QED BY <2>3, <3>3 DEF SameWords
  <2>5. Len(cs) \in Int /\ Len(ds) = Len(cs) + k
    BY <1>1
  <2>6. /\ RegsLie(fs, m, cs, i) => RegsLie(gs, w, ds, i + k)
        /\ FrameLies(fs, m, cs, i) => FrameLies(gs, w, ds, i + k)
    BY <2>1, <2>2, <2>4, <2>5, LieMoves
  <2>7. RegsAt(ds, i + k) <=> RegsAt(cs, i)
    BY <1>2, <2>1
  <2> QED BY <1>4, <2>1, <2>6, <2>7
<1>6. n \in lo..n /\ n \in 1..n
  BY <1>1
<1>7. w[fs[n]] = m[fs[n]] /\ w[fs[n] + 1] = m[fs[n] + 1]
  <2>1. SameWords(fs, m, w, cs, n)
    BY <1>6, LieKept
  <2> QED BY <2>1 DEF SameWords
<1>8. gs[n + k] = fs[n] /\ ds[n + k] = cs[n] /\ (RegsAt(ds, n + k) <=> RegsAt(cs, n))
  BY <1>2, <1>6
<1> QED BY <1>1, <1>3, <1>5, <1>7, <1>8

\* Which of the calls were interrupted, k places further.
LEMMA RegsMove ==
  ASSUME NEW cs, NEW ds, Len(cs) \in Nat, NEW k \in Int, NEW lo \in 1..Len(cs), lo + k >= 1,
         \A i \in lo..Len(cs) : ds[i + k] = cs[i], RegsAt(ds, lo + k) <=> RegsAt(cs, lo)
  PROVE  \A i \in lo..Len(cs) : RegsAt(ds, i + k) <=> RegsAt(cs, i)
<1>1. ASSUME NEW i \in lo..Len(cs), i # lo PROVE RegsAt(ds, i + k) <=> RegsAt(cs, i)
  <2>1. i - 1 \in lo..Len(cs) /\ i > 1 /\ i + k > 1 /\ (i + k) - 1 = (i - 1) + k
    BY <1>1
  <2>2. ds[(i - 1) + k] = cs[i - 1]
    BY <2>1
  <2> QED BY <2>1, <2>2 DEF RegsAt
<1> QED BY <1>1

\* The frames after a call, and after an exception or an event.
Called(fs, n)      == [i \in 1..n |-> IF i = 1 THEN fs[1] - 2 ELSE fs[i - 1]]
Interrupted(fs, n, p) == [i \in 1..n |-> IF i = 1 THEN p - 6 ELSE IF i = 2 THEN p - 4 ELSE fs[i - 2]]

\* A call: one more frame.
LEMMA PushLinks ==
  ASSUME NEW fs, NEW w, NEW cs \in Seq(Addresses), cs # <<>>,
         fs \in [1..Len(cs) -> Int], Links(fs, mem, cs),
         NEW site \in CallSites, w[fs[1] - 2] = fs[1], w[fs[1] - 1] = site, Above(mem, w, fs[1])
  PROVE  LET ds == <<site>> \o cs IN Backed(Called(fs, Len(ds)), w, fs[1] - 2, ds)
<1> DEFINE ds == <<site>> \o cs
           gs == Called(fs, Len(ds))
           n == Len(cs)
           p == fs[1]
<1>1. n \in Nat /\ n >= 1 /\ Len(ds) = n + 1 /\ ds[1] = site /\ \A i \in 1..n : ds[i + 1] = cs[i]
  <2>1. site \in Addresses
    BY Layout
  <2> QED BY <2>1, Prepend
<1> HIDE DEF ds, gs
<1>2. p \in Int /\ \A i \in 1..n : fs[i] \in Int
  <2>1. 1 \in 1..n
    BY <1>1
  <2> QED BY <2>1
<1> USE DEF gs
<1>3. gs \in [1..Len(ds) -> Int] /\ gs[1] = p - 2 /\ \A i \in 1..n : gs[i + 1] = fs[i]
  <2>1. \A i \in 1..Len(ds) : i # 1 => i - 1 \in 1..n
    BY <1>1
  <2>2. \A i \in 1..n : i + 1 \in 1..Len(ds) /\ i + 1 # 1 /\ (i + 1) - 1 = i
    BY <1>1
  <2>3. 1 \in 1..Len(ds)
    BY <1>1
  <2> HIDE DEF n
  <2> QED BY <1>2, <2>1, <2>2, <2>3 DEF Called
<1> HIDE DEF gs
<1>4. site \notin RegSites
  BY Layout
<1>5. Moved(fs, gs, cs, ds, 1, 1)
  <2> DEFINE one == 1
  <2>1. ~RegsAt(ds, 1 + 1) /\ ~RegsAt(cs, 1)
    BY <1>1, <1>4 DEF RegsAt
  <2>2. one \in 1..Len(cs) /\ one \in Int /\ one + one >= 1 /\ Len(cs) \in Nat
    BY <1>1
  <2>3. \A i \in one..Len(cs) : ds[i + one] = cs[i]
    BY <1>1
  <2>4. RegsAt(ds, one + one) <=> RegsAt(cs, one)
    BY <2>1
  <2>5. \A i \in one..Len(cs) : gs[i + one] = fs[i]
    BY <1>3
  <2>6. Len(ds) = Len(cs) + one
    BY <1>1
  <2> HIDE DEF one, n, p
  <2>7. \A i \in one..Len(cs) : RegsAt(ds, i + one) <=> RegsAt(cs, i)
    BY <2>2, <2>3, <2>4, RegsMove
  <2>8. Moved(fs, gs, cs, ds, one, one)
    BY <2>3, <2>5, <2>6, <2>7 DEF Moved
  <2> QED BY <2>8 DEF one
<1>6. /\ gs[Len(ds)] = StackEnd - FrameWords /\ ds[Len(ds)] = StartSite
      /\ ~RegsAt(ds, Len(ds)) /\ w[gs[Len(ds)]] = 0 /\ w[gs[Len(ds)] + 1] = StartSite
      /\ \A j \in 2..(Len(ds) - 1) :
           IF RegsAt(ds, j) THEN RegsLie(gs, w, ds, j) ELSE FrameLies(gs, w, ds, j)
  <2> DEFINE one == 1
  <2>1. one \in 1..Len(cs) /\ one \in Int /\ Len(cs) \in Nat /\ Len(cs) >= 1
    BY <1>1
  <2>2. Moved(fs, gs, cs, ds, one, one)
    BY <1>5
  <2>3. 2 = one + one
    OBVIOUS
  <2> HIDE DEF one, n, p
  <2>4. /\ gs[Len(ds)] = StackEnd - FrameWords /\ ds[Len(ds)] = StartSite
        /\ ~RegsAt(ds, Len(ds)) /\ w[gs[Len(ds)]] = 0 /\ w[gs[Len(ds)] + 1] = StartSite
        /\ \A j \in (one + one)..(Len(ds) - 1) :
             IF RegsAt(ds, j) THEN RegsLie(gs, w, ds, j) ELSE FrameLies(gs, w, ds, j)
    BY <2>1, <2>2, LinksMove
  <2> QED BY <2>3, <2>4
<1>7. FrameLies(gs, w, ds, 1) /\ ~RegsAt(ds, 1)
  <2>1. gs[2] = p
    <3>1. 1 \in 1..n /\ 1 + 1 = 2
      BY <1>1
    <3> QED BY <1>3, <3>1
  <2>2. gs[1] + 2 = p /\ gs[1] + 1 = p - 1
    BY <1>2, <1>3
  <2> QED BY <1>1, <1>3, <1>4, <2>1, <2>2 DEF FrameLies, FrameWords, RegsAt
<1>8. \A i \in 1..(Len(ds) - 1) : IF RegsAt(ds, i) THEN RegsLie(gs, w, ds, i) ELSE FrameLies(gs, w, ds, i)
  <2>1. \A i \in 1..(Len(ds) - 1) : i = 1 \/ i \in 2..(Len(ds) - 1)
    BY <1>1
  <2> QED BY <1>6, <1>7, <2>1
<1>9. \A i \in 1..Len(ds) : gs[1] <= gs[i] /\ gs[i] <= StackEnd - FrameWords
  <2>1. \A i \in 1..n : p <= fs[i] /\ fs[i] <= StackEnd - FrameWords
    BY DEF Links
  <2>2. p <= StackEnd - FrameWords
    BY <1>1, <2>1
  <2>3. ASSUME NEW i \in 1..Len(ds) PROVE gs[1] <= gs[i] /\ gs[i] <= StackEnd - FrameWords
    <3>1. CASE i = 1
      BY <1>2, <1>3, <2>2, <3>1, Layout DEF FrameWords
    <3>2. CASE i # 1
      <4> DEFINE j == i - 1
      <4>1. j \in 1..n /\ j + 1 = i
        BY <1>1, <3>2
      <4> HIDE DEF j
      <4>2. gs[i] = fs[j] /\ p <= fs[j] /\ fs[j] <= StackEnd - FrameWords /\ fs[j] \in Int
        BY <1>2, <1>3, <2>1, <4>1
      <4> QED BY <1>2, <1>3, <4>2
    <3> QED BY <3>1, <3>2
  <2> QED BY <2>3
<1>10. Links(gs, w, ds)
  BY <1>6, <1>8, <1>9 DEF Links
<1> QED BY <1>3, <1>10 DEF ds, gs, Backed

\* The registers and the frame of a handler, from the end of the stack on, which
\* may be the return address of a call without a frame.
HandlerLies(fs, w, p, site, ip) ==
  /\ p = fs[1] \/ (p = fs[1] - 1 /\ w[p] \in CallSites)
  /\ w[p - 6] = fs[1] /\ w[p - 5] = site /\ w[p - 4] \in R15Values
  /\ w[p - 3] = fs[1] /\ w[p - 2] = ip /\ w[p - 1] = KernelCs

\* An exception or an event.
LEMMA PushRegsLinks ==
  ASSUME NEW fs, NEW w, NEW cs \in Seq(Addresses), cs # <<>>,
         fs \in [1..Len(cs) -> Int], Links(fs, mem, cs), NEW p,
         NEW site \in RegSites, NEW ip \in CallSites \cup WildTargets, Above(mem, w, fs[1]),
         HandlerLies(fs, w, p, site, ip)
  PROVE  LET ds == <<site, ip>> \o cs
             gs == Interrupted(fs, Len(ds), p)
         IN Backed(gs, w, p - 6, ds) /\ gs[2] = p - 4
<1>0. /\ p = fs[1] \/ (p = fs[1] - 1 /\ w[p] \in CallSites)
      /\ w[p - 6] = fs[1] /\ w[p - 5] = site /\ w[p - 4] \in R15Values
      /\ w[p - 3] = fs[1] /\ w[p - 2] = ip /\ w[p - 1] = KernelCs
  BY DEF HandlerLies
<1> DEFINE ds == <<site, ip>> \o cs
           gs == Interrupted(fs, Len(ds), p)
           n == Len(cs)
<1>1. /\ n \in Nat /\ n >= 1 /\ Len(ds) = n + 2 /\ ds[1] = site /\ ds[2] = ip
      /\ \A i \in 1..n : ds[i + 2] = cs[i]
  <2>1. site \in Addresses /\ ip \in Addresses
    BY Layout
  <2> QED BY <2>1, PrependTwo
<1> HIDE DEF ds, gs
<1>2. fs[1] \in Int /\ p \in Int /\ p <= fs[1] /\ \A i \in 1..n : fs[i] \in Int
  <2>1. 1 \in 1..n
    BY <1>1
  <2>2. fs[1] \in Int /\ \A i \in 1..n : fs[i] \in Int
    BY <2>1
  <2>3. p = fs[1] \/ p = fs[1] - 1
    BY <1>0
  <2>4. p \in Int /\ p <= fs[1]
    BY <2>2, <2>3
  <2> QED BY <2>2, <2>4
<1> USE DEF gs
<1>3. /\ gs \in [1..Len(ds) -> Int] /\ gs[1] = p - 6 /\ gs[2] = p - 4
      /\ \A i \in 1..n : gs[i + 2] = fs[i]
  <2>1. \A i \in 1..Len(ds) : i # 1 /\ i # 2 => i - 2 \in 1..n
    BY <1>1
  <2>2. \A i \in 1..n : i + 2 \in 1..Len(ds) /\ i + 2 # 1 /\ i + 2 # 2 /\ (i + 2) - 2 = i
    BY <1>1
  <2>3. 1 \in 1..Len(ds) /\ 2 \in 1..Len(ds)
    BY <1>1
  <2>4. \A i \in 1..n : gs[i + 2] = fs[i]
    BY <2>2 DEF Interrupted
  <2> HIDE DEF n
  <2>5. gs[1] = p - 6 /\ gs[2] = p - 4
    BY <2>3 DEF Interrupted
  <2>6. \A i \in 1..Len(ds) : (IF i = 1 THEN p - 6 ELSE IF i = 2 THEN p - 4 ELSE fs[i - 2]) \in Int
    <3>1. p - 6 \in Int /\ p - 4 \in Int
      BY <1>2
    <3>2. \A i \in 1..Len(ds) : i # 1 /\ i # 2 => fs[i - 2] \in Int
      BY <1>2, <2>1
    <3> QED BY <3>1, <3>2
  <2>7. gs \in [1..Len(ds) -> Int]
    BY <2>6 DEF Interrupted
  <2> QED BY <2>4, <2>5, <2>7
<1> HIDE DEF gs
<1>4. ip \notin RegSites /\ site \notin CallSites
  BY Layout
<1>5. Moved(fs, gs, cs, ds, 1, 2)
  <2> DEFINE one == 1
             two == 2
  <2>1. ~RegsAt(ds, 1 + 2) /\ ~RegsAt(cs, 1)
    BY <1>1, <1>4 DEF RegsAt
  <2>2. one \in 1..Len(cs) /\ two \in Int /\ one + two >= 1 /\ Len(cs) \in Nat
    BY <1>1
  <2>3. \A i \in one..Len(cs) : ds[i + two] = cs[i]
    BY <1>1
  <2>4. RegsAt(ds, one + two) <=> RegsAt(cs, one)
    BY <2>1
  <2>5. \A i \in one..Len(cs) : gs[i + two] = fs[i]
    BY <1>3
  <2>6. Len(ds) = Len(cs) + two
    BY <1>1
  <2> HIDE DEF one, two, n
  <2>7. \A i \in one..Len(cs) : RegsAt(ds, i + two) <=> RegsAt(cs, i)
    BY <2>2, <2>3, <2>4, RegsMove
  <2>8. Moved(fs, gs, cs, ds, one, two)
    BY <2>3, <2>5, <2>6, <2>7 DEF Moved
  <2> QED BY <2>8 DEF one, two
<1>6. /\ gs[Len(ds)] = StackEnd - FrameWords /\ ds[Len(ds)] = StartSite
      /\ ~RegsAt(ds, Len(ds)) /\ w[gs[Len(ds)]] = 0 /\ w[gs[Len(ds)] + 1] = StartSite
      /\ \A j \in 3..(Len(ds) - 1) :
           IF RegsAt(ds, j) THEN RegsLie(gs, w, ds, j) ELSE FrameLies(gs, w, ds, j)
  <2> DEFINE one == 1
             two == 2
  <2>1. one \in 1..Len(cs) /\ two \in Int /\ Len(cs) \in Nat /\ Len(cs) >= 1
    BY <1>1
  <2>2. Moved(fs, gs, cs, ds, one, two)
    BY <1>5
  <2>3. 3 = one + two
    OBVIOUS
  <2> HIDE DEF one, two, n
  <2>4. /\ gs[Len(ds)] = StackEnd - FrameWords /\ ds[Len(ds)] = StartSite
        /\ ~RegsAt(ds, Len(ds)) /\ w[gs[Len(ds)]] = 0 /\ w[gs[Len(ds)] + 1] = StartSite
        /\ \A j \in (one + two)..(Len(ds) - 1) :
             IF RegsAt(ds, j) THEN RegsLie(gs, w, ds, j) ELSE FrameLies(gs, w, ds, j)
    BY <2>1, <2>2, LinksMove
  <2> QED BY <2>3, <2>4
<1>7. FrameLies(gs, w, ds, 1) /\ ~RegsAt(ds, 1)
  <2>1. gs[1 + 2] = fs[1]
    BY <1>1, <1>3
  <2>2. gs[1] + 2 = gs[1 + 1] /\ gs[1] + 1 = p - 5
    BY <1>2, <1>3
  <2>3. w[gs[1]] = gs[1 + 2] /\ w[gs[1] + 1] = ds[1] /\ 1 + 2 <= Len(ds)
    BY <1>0, <1>1, <1>3, <2>1, <2>2
  <2> QED BY <1>1, <1>4, <2>2, <2>3 DEF FrameLies, FrameWords, RegsAt
<1>8. RegsLie(gs, w, ds, 2) /\ RegsAt(ds, 2)
  <2>1. gs[2 + 1] = fs[1]
    <3>1. 1 \in 1..n /\ 1 + 2 = 2 + 1
      BY <1>1
    <3> QED BY <1>3, <3>1
  <2>2. /\ gs[2] = p - 4 /\ gs[2] + 4 = p /\ gs[2] + 1 = p - 3
        /\ gs[2] + 2 = p - 2 /\ gs[2] + 3 = p - 1
    <3>1. p \in Int
      BY <1>2
    <3>2. gs[2] = p - 4
      BY <1>3
    <3>3. (p - 4) + 4 = p /\ (p - 4) + 1 = p - 3 /\ (p - 4) + 2 = p - 2 /\ (p - 4) + 3 = p - 1
      BY <3>1
    <3> QED BY <3>2, <3>3
  <2>3. gs[2 + 1] = gs[2] + 4 \/ (gs[2 + 1] = (gs[2] + 4) + 1 /\ w[gs[2] + 4] \in CallSites)
    BY <1>0, <1>2, <2>1, <2>2
  <2> QED BY <1>0, <1>1, <2>1, <2>2, <2>3 DEF RegsLie, RegsWords, RegsAt
<1>9. \A i \in 1..(Len(ds) - 1) : IF RegsAt(ds, i) THEN RegsLie(gs, w, ds, i) ELSE FrameLies(gs, w, ds, i)
  <2>1. \A i \in 1..(Len(ds) - 1) : i = 1 \/ i = 2 \/ i \in 3..(Len(ds) - 1)
    BY <1>1
  <2> QED BY <1>6, <1>7, <1>8, <2>1
<1>10. \A i \in 1..Len(ds) : gs[1] <= gs[i] /\ gs[i] <= StackEnd - FrameWords
  <2>1. \A i \in 1..n : fs[1] <= fs[i] /\ fs[i] <= StackEnd - FrameWords
    BY DEF Links
  <2>2. p <= StackEnd - FrameWords
    <3>1. fs[1] <= StackEnd - FrameWords /\ StackEnd - FrameWords \in Int
      BY <1>1, <2>1, Layout DEF FrameWords
    <3> QED BY <1>2, <3>1
  <2>3. ASSUME NEW i \in 1..Len(ds) PROVE gs[1] <= gs[i] /\ gs[i] <= StackEnd - FrameWords
    <3>1. CASE i = 1
      <4>1. p - 6 <= p /\ StackEnd \in Int
        BY <1>2, Layout
      <4> QED BY <1>2, <1>3, <2>2, <3>1, <4>1 DEF FrameWords
    <3>3. CASE i = 2
      <4>1. StackEnd \in Int
        BY Layout
      <4> QED BY <1>2, <1>3, <2>2, <3>3, <4>1 DEF FrameWords
    <3>2. CASE i # 1 /\ i # 2
      <4> DEFINE j == i - 2
      <4>1. j \in 1..n /\ j + 2 = i
        BY <1>1, <3>2
      <4> HIDE DEF j
      <4>2. gs[i] = fs[j] /\ fs[1] <= fs[j] /\ fs[j] <= StackEnd - FrameWords /\ fs[j] \in Int
        BY <1>2, <1>3, <2>1, <4>1
      <4> QED BY <1>2, <1>3, <4>2
    <3> QED BY <3>1, <3>2, <3>3
  <2> QED BY <2>3
<1>11. Links(gs, w, ds)
  BY <1>6, <1>9, <1>10 DEF Links
<1> QED BY <1>3, <1>11 DEF ds, gs, Backed

\* The frames after the first k of the calls have returned.
Left(fs, k, n) == [i \in 1..n |-> fs[i + k]]

\* What lies above the first lo - 1 of the calls is what lies on the stack after
\* they have returned.
LEMMA DropLinks ==
  ASSUME NEW fs, NEW m, NEW cs \in Seq(Addresses), NEW k \in Nat, k < Len(cs),
         fs \in [1..Len(cs) -> Int], Links(fs, m, cs), NEW ds, Len(ds) = Len(cs) - k,
         \A i \in 1..(Len(cs) - k) : ds[i] = cs[i + k], ~RegsAt(cs, k + 1),
         \A i \in (k + 1)..Len(cs) : fs[k + 1] <= fs[i]
  PROVE  Backed(Left(fs, k, Len(ds)), m, fs[k + 1], ds)
<1> DEFINE gs == Left(fs, k, Len(ds))
           n == Len(cs)
           lo == k + 1
           j == -k
<1>1. n \in Nat /\ n >= 1 /\ Len(ds) \in Nat /\ Len(ds) = n + j /\ j \in Int /\ lo \in 1..n /\ lo + j = 1
  <2>1. n \in Nat /\ n >= 1 /\ k \in Nat /\ k < n /\ Len(ds) = n - k
    OBVIOUS
  <2> HIDE DEF n
  <2>2. n - k \in Nat /\ n - k = n + j /\ j \in Int
    BY <2>1
  <2>3. lo \in 1..n /\ lo + j = 1
    BY <2>1
  <2> QED BY <2>1, <2>2, <2>3
<1>2. \A i \in 1..Len(ds) : i + k \in 1..n /\ i + k \in lo..n
  OBVIOUS
<1>3. \A i \in lo..n : i + j \in 1..Len(ds) /\ (i + j) + k = i
  OBVIOUS
<1>4. 1 \in 1..Len(ds) /\ 1 + k = lo
  OBVIOUS
<1>5. \A i \in 1..Len(ds) : ds[i] = cs[i + k]
  OBVIOUS
<1>6. ~RegsAt(cs, lo) /\ \A i \in lo..n : fs[lo] <= fs[i]
  OBVIOUS
<1> HIDE DEF n, lo, j
<1>7. gs \in [1..Len(ds) -> Int] /\ gs[1] = fs[lo] /\ \A i \in lo..n : gs[i + j] = fs[i]
  BY <1>2, <1>3, <1>4 DEF n, Left
<1> HIDE DEF gs
<1>8. \A i \in lo..n : ds[i + j] = cs[i]
  BY <1>3, <1>5
<1>9. ~RegsAt(ds, lo + j)
  BY <1>1 DEF RegsAt
<1>10. \A i \in lo..n : RegsAt(ds, i + j) <=> RegsAt(cs, i)
  <2>1. RegsAt(ds, lo + j) <=> RegsAt(cs, lo)
    BY <1>6, <1>9
  <2>2. lo + j >= 1
    BY <1>1
  <2> QED BY <1>1, <1>8, <2>1, <2>2, RegsMove DEF n
<1>11. Moved(fs, gs, cs, ds, lo, j)
  BY <1>1, <1>7, <1>8, <1>10 DEF Moved, n
<1>12. Above(m, m, fs[1])
  BY DEF Above
<1>13. /\ gs[Len(ds)] = StackEnd - FrameWords /\ ds[Len(ds)] = StartSite
       /\ ~RegsAt(ds, Len(ds)) /\ m[gs[Len(ds)]] = 0 /\ m[gs[Len(ds)] + 1] = StartSite
       /\ \A i \in (lo + j)..(Len(ds) - 1) :
            IF RegsAt(ds, i) THEN RegsLie(gs, m, ds, i) ELSE FrameLies(gs, m, ds, i)
  BY <1>1, <1>11, <1>12, LinksMove DEF n
<1>14. \A i \in 1..Len(ds) : gs[1] <= gs[i] /\ gs[i] <= StackEnd - FrameWords
  <2>1. \A i \in 1..n : fs[i] <= StackEnd - FrameWords
    BY DEF Links, n
  <2>2. \A i \in 1..Len(ds) : gs[i] = fs[i + k]
    BY DEF gs, Left
  <2> QED BY <1>2, <1>6, <1>7, <2>1, <2>2
<1>15. Links(gs, m, ds)
  BY <1>1, <1>13, <1>14 DEF Links
<1> QED BY <1>7, <1>15 DEF gs, lo, Backed

(****************************************************************************)
(* What the searches find.                                                  *)
(****************************************************************************)
\* Natural numbers: a set of them has a least one, so that what holds of 0, and
\* of each successor, holds of all.
LEMMA Least ==
  ASSUME NEW T, T \subseteq Nat, T # {}
  PROVE  \E n \in T : \A m \in T : n <= m
<1> DEFINE R == OpToRel(<, Nat)
<1>1. IsWellFoundedOn(R, Nat)
  BY NatLessThanWellFounded
<1> HIDE DEF R
<1>2. PICK n \in T : \A m \in T : ~(<<m, n>> \in R)
  BY <1>1, WFMin, Zenon
<1>3. \A a, b \in Nat : a < b => <<a, b>> \in R
  BY DEF OpToRel, R
<1>4. \A m \in T : ~(m < n)
  BY <1>2, <1>3, Zenon
<1>5. \A m \in T : n <= m
  BY <1>4
<1> QED BY <1>5

\* What holds of 0 and of each successor holds of every number.
LEMMA Induction ==
  ASSUME NEW T, 0 \in T, \A n \in Nat : n \in T => n + 1 \in T
  PROVE  Nat \subseteq T
<1> DEFINE B == {n \in Nat : n \notin T}
<1>1. CASE B # {}
  <2>1. PICK n \in B : \A m \in B : n <= m
    BY <1>1, Least
  <2>2. n \in Nat /\ n # 0 /\ n - 1 \in Nat
    BY <2>1
  <2>3. n - 1 \notin T
    BY <2>2
  <2> QED BY <2>1, <2>2, <2>3
<1> QED BY <1>1

\* Find is the first value of a function from the end of the store backwards.
FindStep(store, name, f, seek) ==
  IF seek > Len(store) THEN 0
  ELSE IF store[seek].name = name THEN seek
  ELSE IF seek + 1 + store[seek].blocks > Len(store) THEN 0
  ELSE f[seek + 1 + store[seek].blocks]
FindFrom(store, name, f, lo) ==
  f = [seek \in lo..(Len(store) + 1) |-> FindStep(store, name, f, seek)]

\* The blocks of a store are headers with a length.
Blocks(store) == Len(store) \in Nat /\ \A i \in 1..Len(store) : store[i].blocks \in Nat

\* Such a function is extended by the values before it.
LEMMA FindFurther ==
  ASSUME NEW store, NEW name, Blocks(store), NEW f, NEW lo \in Int,
         1 < lo, lo <= Len(store) + 1, FindFrom(store, name, f, lo)
  PROVE  \E h : FindFrom(store, name, h, lo - 1)
<1> DEFINE N == Len(store)
           h == [seek \in (lo - 1)..(N + 1) |->
                   IF seek >= lo THEN f[seek] ELSE FindStep(store, name, f, seek)]
<1>1. N \in Nat /\ \A i \in 1..N : store[i].blocks \in Nat
  BY DEF Blocks
<1> HIDE DEF N
<1>2. \A seek \in lo..(N + 1) : h[seek] = f[seek] /\ f[seek] = FindStep(store, name, f, seek)
  <2>1. \A seek \in lo..(N + 1) : seek \in (lo - 1)..(N + 1) /\ seek >= lo
    BY <1>1
  <2>2. f = [seek \in lo..(N + 1) |-> FindStep(store, name, f, seek)]
    BY DEF FindFrom, N
  <2>3. \A seek \in lo..(N + 1) : f[seek] = FindStep(store, name, f, seek)
    BY <2>2, Zenon
  <2> QED BY <2>1, <2>3
<1>3. h[lo - 1] = FindStep(store, name, f, lo - 1)
  <2>1. lo - 1 \in (lo - 1)..(N + 1) /\ ~(lo - 1 >= lo)
    BY <1>1 DEF N
  <2> QED BY <2>1
<1>4. \A seek \in (lo - 1)..(N + 1) : FindStep(store, name, h, seek) = FindStep(store, name, f, seek)
  <2>1. SUFFICES ASSUME NEW seek \in (lo - 1)..(N + 1), ~(seek > N),
                        ~(seek + 1 + store[seek].blocks > N)
                 PROVE  h[seek + 1 + store[seek].blocks] = f[seek + 1 + store[seek].blocks]
    BY DEF FindStep, N
  <2>2. seek \in 1..N
    BY <1>1, <2>1
  <2>3. store[seek].blocks \in Nat
    BY <1>1, <2>2
  <2>4. seek + 1 + store[seek].blocks \in lo..(N + 1)
    BY <1>1, <2>1, <2>3
  <2> QED BY <1>2, <2>4
<1>5. \A seek \in (lo - 1)..(N + 1) : h[seek] = FindStep(store, name, h, seek)
  <2>1. \A seek \in (lo - 1)..(N + 1) : seek = lo - 1 \/ seek \in lo..(N + 1)
    BY <1>1
  <2>2. \A seek \in (lo - 1)..(N + 1) : h[seek] = FindStep(store, name, f, seek)
    BY <1>2, <1>3, <2>1
  <2> HIDE DEF h
  <2> QED BY <1>4, <2>2, Zenon
<1>6. h = [seek \in (lo - 1)..(N + 1) |-> h[seek]]
  OBVIOUS
<1> HIDE DEF h
<1>7. FindFrom(store, name, h, lo - 1)
  BY <1>5, <1>6 DEF FindFrom, N
<1> QED BY <1>7

\* The function by which Find is defined exists,
LEMMA FindExists ==
  ASSUME NEW store, NEW name, Blocks(store)
  PROVE  \E f : FindFrom(store, name, f, 1)
<1> DEFINE N == Len(store)
           T == {d \in Nat : d <= N => \E f : FindFrom(store, name, f, (N + 1) - d)}
<1>1. N \in Nat
  BY DEF Blocks
<1> HIDE DEF N
<1>2. 0 \in T
  <2> DEFINE f == [seek \in (N + 1)..(N + 1) |-> 0]
  <2>1. \A seek \in (N + 1)..(N + 1) : FindStep(store, name, f, seek) = 0
    BY <1>1 DEF FindStep, N
  <2>2. f = [seek \in (N + 1)..(N + 1) |-> FindStep(store, name, f, seek)]
    BY <2>1
  <2> HIDE DEF f
  <2>3. FindFrom(store, name, f, N + 1) /\ (N + 1) - 0 = N + 1
    BY <1>1, <2>2 DEF FindFrom, N
  <2> QED BY <2>3
<1>3. ASSUME NEW d \in Nat, d \in T
      PROVE  d + 1 \in T
  <2>1. SUFFICES ASSUME d + 1 <= N
                 PROVE  \E f : FindFrom(store, name, f, (N + 1) - (d + 1))
    OBVIOUS
  <2> DEFINE lo == (N + 1) - d
  <2>2. PICK f : FindFrom(store, name, f, lo)
    BY <1>1, <1>3, <2>1
  <2>3. lo \in Int /\ 1 < lo /\ lo <= N + 1 /\ lo - 1 = (N + 1) - (d + 1)
    BY <1>1, <2>1
  <2> HIDE DEF lo
  <2>4. \E h : FindFrom(store, name, h, lo - 1)
    BY <2>2, <2>3, FindFurther DEF N
  <2> QED BY <2>3, <2>4
<1> HIDE DEF T
<1>4. N \in T
  BY <1>1, <1>2, <1>3, Induction
<1>5. PICK f : FindFrom(store, name, f, (N + 1) - N)
  BY <1>1, <1>4 DEF T
<1>6. (N + 1) - N = 1
  BY <1>1
<1> QED BY <1>5, <1>6

\* ... and its values are 0 and headers of the name.
LEMMA FindsName ==
  ASSUME NEW store, NEW name, Blocks(store)
  PROVE  LET i == Find(store, name) IN i # 0 => i \in 1..Len(store) /\ store[i].name = name
<1> DEFINE N == Len(store)
           from == CHOOSE f : f = [seek \in 1..(Len(store) + 1) |-> FindStep(store, name, f, seek)]
           Right(i) == i # 0 => i \in 1..N /\ store[i].name = name
           T == {d \in Nat : d <= N => \A seek \in ((N + 1) - d)..(N + 1) : Right(from[seek])}
<1>1. N \in Nat /\ \A i \in 1..N : store[i].blocks \in Nat
  BY DEF Blocks
<1>2. FindFrom(store, name, from, 1)
  BY FindExists DEF FindFrom
<1>3. Find(store, name) = from[1]
  BY DEF Find, FindStep
<1> HIDE DEF from, N
<1>4. \A seek \in 1..(N + 1) : from[seek] = FindStep(store, name, from, seek)
  <2>1. from = [seek \in 1..(N + 1) |-> FindStep(store, name, from, seek)]
    BY <1>2 DEF FindFrom, N
  <2> QED BY <2>1, Zenon
<1>5. 0 \in T
  <2>1. N + 1 \in 1..(N + 1) /\ \A seek \in ((N + 1) - 0)..(N + 1) : seek = N + 1
    BY <1>1
  <2>2. FindStep(store, name, from, N + 1) = 0
    BY <1>1 DEF FindStep, N
  <2> QED BY <1>4, <2>1, <2>2
<1>6. ASSUME NEW d \in Nat, d \in T
      PROVE  d + 1 \in T
  <2>1. SUFFICES ASSUME d + 1 <= N, NEW seek \in ((N + 1) - (d + 1))..(N + 1)
                 PROVE  Right(from[seek])
    OBVIOUS
  <2>2. \A later \in ((N + 1) - d)..(N + 1) : Right(from[later])
    BY <1>1, <1>6, <2>1
  <2>3. CASE seek \in ((N + 1) - d)..(N + 1)
    BY <2>2, <2>3
  <2>4. CASE seek = N - d
    <3>1. seek \in 1..N /\ seek \in 1..(N + 1) /\ ~(seek > N)
      BY <1>1, <2>1, <2>4
    <3>2. from[seek] = FindStep(store, name, from, seek)
      BY <1>4, <3>1
    <3> DEFINE next == seek + 1 + store[seek].blocks
    <3>3. store[seek].blocks \in Nat
      BY <1>1, <3>1
    <3>4. ~(next > N) => next \in ((N + 1) - d)..(N + 1)
      BY <1>1, <2>4, <3>1, <3>3
    <3> HIDE DEF T, Right
    <3>5. ~(next > N) => Right(from[next])
      BY <2>2, <3>4
    <3>6. FindStep(store, name, from, seek) =
            IF store[seek].name = name THEN seek ELSE IF next > N THEN 0 ELSE from[next]
      BY <3>1 DEF FindStep, N
    <3> HIDE DEF next
    <3> QED BY <3>1, <3>2, <3>5, <3>6 DEF Right
  <2>5. seek = N - d \/ seek \in ((N + 1) - d)..(N + 1)
    BY <1>1, <2>1
  <2> QED BY <2>3, <2>4, <2>5
<1> HIDE DEF T, Right
<1>7. N \in T
  BY <1>1, <1>5, <1>6, Induction
<1>8. 1 \in ((N + 1) - N)..(N + 1)
  BY <1>1
<1>9. Right(from[1])
  BY <1>1, <1>7, <1>8 DEF T
<1> QED BY <1>3, <1>9 DEF Right, N

\* The symbol found for an address is one that contains it.
LEMMA LooksUp ==
  ASSUME NEW S, NEW table \in Seq(S), NEW address, LookupAddress(table, address) # "unknown"
  PROVE  \E k \in DOMAIN table : /\ table[k].name = LookupAddress(table, address)
                                 /\ Contains(table[k], address)
<1> DEFINE of == {i \in DOMAIN table : Contains(table[i], address)}
           first == CHOOSE i \in of : \A j \in of : i <= j
<1>1. of # {} /\ LookupAddress(table, address) = table[first].name
  BY DEF LookupAddress
<1>2. of \subseteq Nat
  <2>1. DOMAIN table = 1..Len(table) /\ Len(table) \in Nat
    OBVIOUS
  <2> QED BY <2>1
<1>3. \E i \in of : \A j \in of : i <= j
  <2> HIDE DEF of
  <2> QED BY <1>1, <1>2, Least
<1>4. first \in of
  <2> HIDE DEF of
  <2> QED BY <1>3
<1> QED BY <1>1, <1>4

(****************************************************************************)
(* The steps of the running kernel.                                         *)
(****************************************************************************)
\* The frames lie in the order of the calls.
LEMMA Rising ==
  ASSUME NEW fs, NEW m, NEW cs, Len(cs) \in Nat, fs \in [1..Len(cs) -> Int], Links(fs, m, cs),
         NEW k \in 1..Len(cs)
  PROVE  \A i \in k..Len(cs) : fs[k] <= fs[i]
<1> DEFINE n == Len(cs)
           T == {d \in Nat : k + d <= n => fs[k] <= fs[k + d]}
<1>1. n \in Nat /\ k \in Int /\ 1 <= k
  OBVIOUS
<1>2. \A i \in 1..n : fs[i] \in Int
  OBVIOUS
<1>3. \A i \in 1..(n - 1) : fs[i] <= fs[i + 1]
  <2>1. \A i \in 1..(n - 1) : fs[i + 1] = fs[i] + 4 \/ fs[i + 1] = (fs[i] + 4) + 1 \/ fs[i + 1] = fs[i] + 2
    BY DEF Links, RegsLie, FrameLies, RegsWords, FrameWords
  <2>2. \A i \in 1..(n - 1) : i \in 1..n
    BY <1>1
  <2>3. ASSUME NEW i \in 1..(n - 1) PROVE fs[i] <= fs[i + 1]
    <3>1. fs[i] \in Int
      BY <1>2, <2>2
    <3> QED BY <2>1, <3>1
  <2> QED BY <2>3
<1> HIDE DEF n
<1>4. 0 \in T
  <2>1. k + 0 = k /\ k \in 1..n
    BY <1>1 DEF n
  <2> QED BY <1>2, <2>1
<1>5. ASSUME NEW d \in Nat, d \in T
      PROVE  d + 1 \in T
  <2>1. SUFFICES ASSUME k + (d + 1) <= n
                 PROVE  fs[k] <= fs[k + (d + 1)]
    OBVIOUS
  <2>2. k + d \in 1..(n - 1) /\ k + d <= n /\ (k + d) + 1 = k + (d + 1)
        /\ k \in 1..n /\ k + d \in 1..n /\ k + (d + 1) \in 1..n
    BY <1>1, <2>1
  <2>3. fs[k] <= fs[k + d]
    BY <1>5, <2>2
  <2>4. fs[k + d] <= fs[k + (d + 1)]
    BY <1>3, <2>2
  <2>5. fs[k] \in Int /\ fs[k + d] \in Int /\ fs[k + (d + 1)] \in Int
    BY <1>2, <2>2
  <2> QED BY <2>3, <2>4, <2>5
<1> HIDE DEF T
<1>6. Nat \subseteq T
  BY <1>4, <1>5, Induction
<1>7. ASSUME NEW i \in k..n PROVE fs[k] <= fs[i]
  <2>1. i - k \in Nat /\ k + (i - k) <= n /\ k + (i - k) = i
    BY <1>1, <1>7
  <2>2. i - k \in T
    BY <1>6, <2>1
  <2> QED BY <2>1, <2>2 DEF T
<1> QED BY <1>7 DEF n

\* What a push writes, and what it leaves.
LEMMA Pushes ==
  ASSUME mem \in [Stack -> Int], NEW at \in Int, NEW words, Len(words) \in Nat,
         \A i \in 1..Len(words) : words[i] \in Int, at >= StackBase, at + Len(words) <= StackEnd
  PROVE  /\ Pushed(at, words) \in [Stack -> Int]
         /\ \A i \in 1..Len(words) : Pushed(at, words)[at + (i - 1)] = words[i]
         /\ Above(mem, Pushed(at, words), at + Len(words))
<1> DEFINE n == Len(words)
<1>1. n \in Nat /\ at \in Int /\ StackEnd \in Int /\ StackBase \in Int
  BY Layout
<1> HIDE DEF n
<1>2. ASSUME NEW a \in Stack, a \in at..(at + n - 1)
      PROVE  a - at + 1 \in 1..n
  BY <1>1, <1>2
<1>3. Pushed(at, words) \in [Stack -> Int]
  BY <1>2 DEF Pushed, n
<1>4. ASSUME NEW i \in 1..n PROVE Pushed(at, words)[at + (i - 1)] = words[i]
  <2> DEFINE a == at + (i - 1)
  <2>1. a \in StackBase..(StackEnd - 1) /\ a \in at..(at + n - 1) /\ a - at + 1 = i
    BY <1>1, <1>4 DEF n
  <2> HIDE DEF a
  <2>2. Pushed(at, words)[a] = words[i]
    BY <2>1 DEF Pushed, Stack, n
  <2> QED BY <2>2 DEF a
<1>5. ASSUME NEW a \in (at + n)..(StackEnd - 1) PROVE Pushed(at, words)[a] = mem[a]
  <2>1. a \in StackBase..(StackEnd - 1) /\ a \notin at..(at + n - 1)
    BY <1>1, <1>5
  <2> QED BY <2>1 DEF Pushed, Stack, n
<1> QED BY <1>3, <1>4, <1>5 DEF Above, n

\* A call leaves the frames of the others and one more.
LEMMA PushKeeps ==
  ASSUME Shapes, NEW fs, Backed(fs, mem, fp, callers), NEW site \in CallSites, Push(site),
         sp = fp, sp - FrameWords >= StackBase
  PROVE  /\ mem' \in [Stack -> Int] /\ callers' \in Seq(Addresses) /\ callers' # <<>>
         /\ fp' = sp' /\ sp' = sp - FrameWords
         /\ \E gs : Backed(gs, mem', fp', callers')
<1>1. /\ callers \in Seq(Addresses) /\ callers # <<>> /\ mem \in [Stack -> Int]
      /\ fp = sp /\ sp \in Int
  BY DEF Shapes
<1>2. fs \in [1..Len(callers) -> Int] /\ fs[1] = fp /\ Links(fs, mem, callers)
  BY DEF Backed
<1>3. Len(callers) \in Nat /\ Len(callers) >= 1 /\ 1 \in 1..Len(callers)
  BY <1>1
<1>4. sp <= StackEnd - 2
  BY <1>1, <1>2, <1>3 DEF Links, FrameWords
<1>5. site \in Int /\ site \in Addresses /\ StackEnd \in Int /\ StackBase \in Int
  BY Layout
<1> DEFINE words == <<fp, site>>
           at == sp - 2
           w == Pushed(at, words)
<1>6. Len(words) = 2 /\ words[1] = fp /\ words[2] = site
  OBVIOUS
<1> HIDE DEF words
<1>7. \A i \in 1..Len(words) : words[i] \in Int
  <2>1. \A i \in 1..2 : i = 1 \/ i = 2
    OBVIOUS
  <2> QED BY <1>1, <1>5, <1>6, <2>1
<1>8. at \in Int /\ at >= StackBase /\ at + 2 = sp /\ at + (1 - 1) = sp - 2 /\ at + (2 - 1) = sp - 1
  BY <1>1 DEF FrameWords
<1> HIDE DEF at
<1>9. /\ w \in [Stack -> Int] /\ Above(mem, w, at + Len(words))
      /\ \A i \in 1..Len(words) : w[at + (i - 1)] = words[i]
  <2>1. Len(words) \in Nat /\ at + Len(words) <= StackEnd
    BY <1>1, <1>4, <1>5, <1>6, <1>8
  <2> QED BY <1>1, <1>7, <1>8, <2>1, Pushes
<1>10. w[sp - 2] = sp /\ w[sp - 1] = site /\ Above(mem, w, sp)
  <2>1. 1 \in 1..2 /\ 2 \in 1..2
    OBVIOUS
  <2> HIDE DEF w
  <2> QED BY <1>1, <1>6, <1>8, <1>9, <2>1
<1>11. mem' = w /\ sp' = sp - 2 /\ fp' = sp - 2 /\ callers' = <<site>> \o callers
  BY DEF Push, FrameWords, words, at
<1> HIDE DEF w
<1> DEFINE ds == <<site>> \o callers
<1>12. Backed(Called(fs, Len(ds)), w, fs[1] - 2, ds)
  <2>1. w[fs[1] - 2] = fs[1] /\ w[fs[1] - 1] = site /\ Above(mem, w, fs[1])
    BY <1>1, <1>2, <1>10
  <2> QED BY <1>1, <1>2, <2>1, PushLinks
<1>13. ds \in Seq(Addresses) /\ ds # <<>>
  BY <1>1, <1>5, Prepend
<1> HIDE DEF ds
<1>14. Backed(Called(fs, Len(ds)), w, sp - 2, ds)
  BY <1>1, <1>2, <1>12
<1> QED BY <1>9, <1>11, <1>13, <1>14 DEF ds, FrameWords

\* A word below the frames leaves them.
LEMMA WordKeeps ==
  ASSUME NEW fs, NEW cs \in Seq(Addresses), cs # <<>>, NEW m, NEW w, NEW p,
         Backed(fs, m, p, cs), Above(m, w, p)
  PROVE  Backed(fs, w, p, cs)
<1> DEFINE n == Len(cs)
           one == 1
           none == 0
<1>1. /\ n \in Nat /\ n >= 1 /\ one \in 1..n /\ none \in Int /\ one + none = 1 /\ n = n + none
      /\ \A i \in one..n : i + none = i
  OBVIOUS
<1>2. fs \in [1..n -> Int] /\ fs[1] = p /\ Links(fs, m, cs)
  BY DEF Backed
<1> HIDE DEF n, one, none
<1>3. Moved(fs, fs, cs, cs, one, none)
  BY <1>1 DEF Moved, n
<1>4. /\ w[fs[n]] = 0 /\ w[fs[n] + 1] = StartSite
      /\ \A i \in (one + none)..(n - 1) :
           IF RegsAt(cs, i) THEN RegsLie(fs, w, cs, i) ELSE FrameLies(fs, w, cs, i)
  <2>1. /\ Len(cs) \in Nat /\ Len(cs) >= 1 /\ one \in 1..Len(cs) /\ none \in Int
        /\ fs \in [1..Len(cs) -> Int] /\ Links(fs, m, cs) /\ Above(m, w, fs[1])
        /\ Moved(fs, fs, cs, cs, one, none)
    BY <1>1, <1>2, <1>3 DEF n
  <2>2. /\ fs[Len(cs)] = StackEnd - FrameWords /\ cs[Len(cs)] = StartSite
        /\ ~RegsAt(cs, Len(cs)) /\ w[fs[Len(cs)]] = 0 /\ w[fs[Len(cs)] + 1] = StartSite
        /\ \A j \in (one + none)..(Len(cs) - 1) :
             IF RegsAt(cs, j) THEN RegsLie(fs, w, cs, j) ELSE FrameLies(fs, w, cs, j)
    BY <2>1, LinksMove, Zenon
  <2> QED BY <2>2 DEF n
<1>5. Links(fs, w, cs)
  BY <1>1, <1>2, <1>4 DEF Links, n
<1> QED BY <1>2, <1>5 DEF Backed, n

\* A call leaves its return address below the frames, ...
LEMMA CallPushes ==
  ASSUME Shapes, NEW fs, Backed(fs, mem, fp, callers), NEW site \in CallSites, sp = fp,
         sp - 1 >= StackBase, mem' = Pushed(sp - 1, <<site>>), callers' = callers, fp' = fp, sp' = sp - 1
  PROVE  mem' \in [Stack -> Int] /\ mem'[sp'] \in CallSites /\ Backed(fs, mem', fp', callers')
<1>1. /\ callers \in Seq(Addresses) /\ callers # <<>> /\ mem \in [Stack -> Int] /\ sp \in Int
      /\ site \in Int /\ StackEnd \in Int /\ StackBase \in Int
  BY Layout DEF Shapes
<1>2. sp <= StackEnd - 2
  <2>1. fs[1] = fp /\ Links(fs, mem, callers) /\ 1 \in 1..Len(callers)
    BY <1>1 DEF Backed
  <2> QED BY <2>1 DEF Links, FrameWords
<1> DEFINE words == <<site>>
           at == sp - 1
           w == Pushed(at, words)
<1>3. Len(words) = 1 /\ words[1] = site
  OBVIOUS
<1> HIDE DEF words
<1>4. \A i \in 1..Len(words) : words[i] \in Int
  BY <1>1, <1>3
<1>5. at \in Int /\ at >= StackBase /\ at + 1 = sp /\ at + (1 - 1) = at
  BY <1>1
<1> HIDE DEF at
<1>6. /\ w \in [Stack -> Int] /\ Above(mem, w, at + Len(words))
      /\ \A i \in 1..Len(words) : w[at + (i - 1)] = words[i]
  <2>1. Len(words) \in Nat /\ at + Len(words) <= StackEnd
    BY <1>1, <1>2, <1>3, <1>5
  <2> QED BY <1>1, <1>4, <1>5, <2>1, Pushes
<1>7. w[at] = site /\ Above(mem, w, sp)
  <2>1. 1 \in 1..1
    OBVIOUS
  <2> HIDE DEF w
  <2> QED BY <1>3, <1>5, <1>6, <2>1
<1>8. mem' = w /\ sp' = at
  BY DEF words, at
<1> HIDE DEF w
<1>9. Backed(fs, w, fp, callers)
  BY <1>1, <1>7, WordKeeps
<1> QED BY <1>6, <1>7, <1>8, <1>9

\* ... to which its frame is added.
LEMMA EnterPushes ==
  ASSUME Shapes, NEW fs, Backed(fs, mem, fp, callers), sp # fp, sp - 1 >= StackBase,
         mem' = Pushed(sp - 1, <<fp>>), callers' = <<mem[sp]>> \o callers, fp' = sp - 1, sp' = sp - 1
  PROVE  /\ mem' \in [Stack -> Int] /\ callers' \in Seq(Addresses) /\ callers' # <<>>
         /\ \E gs : Backed(gs, mem', fp', callers')
<1>1. /\ callers \in Seq(Addresses) /\ callers # <<>> /\ mem \in [Stack -> Int]
      /\ sp = fp - 1 /\ sp \in Int /\ fp \in Int /\ mem[sp] \in CallSites
      /\ StackEnd \in Int /\ StackBase \in Int
  BY Layout DEF Shapes
<1>2. fs \in [1..Len(callers) -> Int] /\ fs[1] = fp /\ Links(fs, mem, callers)
  BY DEF Backed
<1>3. fp <= StackEnd - 2
  <2>1. 1 \in 1..Len(callers)
    BY <1>1
  <2> QED BY <1>2, <2>1 DEF Links, FrameWords
<1> DEFINE site == mem[sp]
           words == <<fp>>
           at == sp - 1
           w == Pushed(at, words)
<1>4. Len(words) = 1 /\ words[1] = fp
  OBVIOUS
<1>5. site \in CallSites /\ site \in Addresses
  BY <1>1, Layout
<1> HIDE DEF words, site
<1>6. \A i \in 1..Len(words) : words[i] \in Int
  BY <1>1, <1>4
<1>7. at \in Int /\ at >= StackBase /\ at + 1 = sp /\ at + (1 - 1) = at /\ at = fp - 2 /\ sp = fp - 1
  BY <1>1
<1> HIDE DEF at
<1>8. /\ w \in [Stack -> Int] /\ Above(mem, w, at + Len(words))
      /\ \A i \in 1..Len(words) : w[at + (i - 1)] = words[i]
  <2>1. Len(words) \in Nat /\ at + Len(words) <= StackEnd
    BY <1>1, <1>3, <1>4, <1>7
  <2> QED BY <1>1, <1>6, <1>7, <2>1, Pushes
<1>9. w[fp - 2] = fp /\ w[fp - 1] = site /\ Above(mem, w, fp)
  <2>1. 1 \in 1..1
    OBVIOUS
  <2> HIDE DEF w
  <2>2. w[at] = fp /\ Above(mem, w, sp)
    BY <1>4, <1>7, <1>8, <2>1
  <2>3. sp \in sp..(StackEnd - 1) /\ \A a \in fp..(StackEnd - 1) : a \in sp..(StackEnd - 1)
    BY <1>1, <1>3
  <2>4. w[sp] = mem[sp] /\ Above(mem, w, fp)
    BY <2>2, <2>3 DEF Above
  <2> QED BY <1>7, <2>2, <2>4 DEF site
<1>10. mem' = w /\ sp' = fp - 2 /\ fp' = fp - 2 /\ callers' = <<site>> \o callers
  BY <1>1 DEF words, at, site
<1> HIDE DEF w
<1> DEFINE ds == <<site>> \o callers
<1>11. Backed(Called(fs, Len(ds)), w, fs[1] - 2, ds)
  BY <1>1, <1>2, <1>5, <1>9, PushLinks
<1>12. ds \in Seq(Addresses) /\ ds # <<>>
  BY <1>1, <1>5, Prepend
<1> HIDE DEF ds
<1>13. Backed(Called(fs, Len(ds)), w, fp - 2, ds)
  BY <1>2, <1>11
<1> QED BY <1>8, <1>10, <1>12, <1>13 DEF ds

\* An exception or event leaves those of the others, its registers and the frame
\* of its handler.
LEMMA PushRegsKeeps ==
  ASSUME Shapes, NEW fs, Backed(fs, mem, fp, callers), NEW site \in RegSites,
         NEW ip \in CallSites \cup WildTargets,
         NEW r15 \in R15Values, PushRegs(ip, r15, site), sp - (RegsWords + FrameWords) >= StackBase
  PROVE  /\ mem' \in [Stack -> Int] /\ callers' \in Seq(Addresses) /\ callers' # <<>>
         /\ fp' = sp' /\ sp' = sp - (RegsWords + FrameWords)
         /\ Len(callers') >= 2 /\ RegsAt(callers', 2)
         /\ \E gs : Backed(gs, mem', fp', callers') /\ gs[2] = sp - RegsWords
<1>1. /\ callers \in Seq(Addresses) /\ callers # <<>> /\ mem \in [Stack -> Int]
      /\ sp \in Int /\ fp \in Int /\ (sp = fp \/ (sp = fp - 1 /\ mem[sp] \in CallSites))
  BY DEF Shapes
<1>2. fs \in [1..Len(callers) -> Int] /\ fs[1] = fp /\ Links(fs, mem, callers)
  BY DEF Backed
<1>3. Len(callers) \in Nat /\ Len(callers) >= 1 /\ 1 \in 1..Len(callers)
  BY <1>1
<1>4. fp <= StackEnd - 2 /\ sp <= StackEnd - 2 /\ sp <= fp
  <2>1. fp <= StackEnd - 2
    BY <1>2, <1>3 DEF Links, FrameWords
  <2> QED BY <1>1, <2>1, Layout
<1>5. /\ site \in Int /\ site \in Addresses /\ ip \in Int /\ ip \in Addresses /\ r15 \in Int
      /\ StackEnd \in Int /\ StackBase \in Int
  BY Layout
<1> DEFINE words == <<fp, site, r15, fp, ip, KernelCs>>
           at == sp - 6
           w == Pushed(at, words)
<1>6. /\ Len(words) = 6 /\ words[1] = fp /\ words[2] = site /\ words[3] = r15
      /\ words[4] = fp /\ words[5] = ip /\ words[6] = KernelCs
  OBVIOUS
<1> HIDE DEF words
<1>7. \A i \in 1..Len(words) : words[i] \in Int
  <2>1. \A i \in 1..6 : i = 1 \/ i = 2 \/ i = 3 \/ i = 4 \/ i = 5 \/ i = 6
    OBVIOUS
  <2> QED BY <1>1, <1>5, <1>6, <2>1 DEF KernelCs
<1>8. /\ at \in Int /\ at >= StackBase /\ at + 6 = sp /\ at + (1 - 1) = sp - 6 /\ at + (2 - 1) = sp - 5
      /\ at + (3 - 1) = sp - 4 /\ at + (4 - 1) = sp - 3 /\ at + (5 - 1) = sp - 2 /\ at + (6 - 1) = sp - 1
  BY <1>1 DEF FrameWords, RegsWords
<1> HIDE DEF at
<1>9. /\ w \in [Stack -> Int] /\ Above(mem, w, at + Len(words))
      /\ \A i \in 1..Len(words) : w[at + (i - 1)] = words[i]
  <2>1. Len(words) \in Nat /\ at + Len(words) <= StackEnd
    BY <1>1, <1>4, <1>5, <1>6, <1>8
  <2> QED BY <1>1, <1>7, <1>8, <2>1, Pushes
<1>10. /\ w[sp - 6] = fp /\ w[sp - 5] = site /\ w[sp - 4] = r15
       /\ w[sp - 3] = fp /\ w[sp - 2] = ip /\ w[sp - 1] = KernelCs /\ Above(mem, w, sp)
  <2>1. {1, 2, 3, 4, 5, 6} \subseteq 1..6
    OBVIOUS
  <2> HIDE DEF w
  <2>2. /\ w[at + (1 - 1)] = words[1] /\ w[at + (2 - 1)] = words[2] /\ w[at + (3 - 1)] = words[3]
        /\ w[at + (4 - 1)] = words[4] /\ w[at + (5 - 1)] = words[5] /\ w[at + (6 - 1)] = words[6]
    BY <1>6, <1>9, <2>1
  <2> QED BY <1>1, <1>6, <1>8, <1>9, <2>2
<1>11. mem' = w /\ sp' = sp - 6 /\ fp' = sp - 6 /\ callers' = <<site, ip>> \o callers
  <2>1. (sp - RegsWords) - FrameWords = sp - 6
    BY <1>1 DEF RegsWords, FrameWords
  <2> QED BY <2>1 DEF PushRegs, words, at
<1> HIDE DEF w
<1> DEFINE ds == <<site, ip>> \o callers
<1>12. Backed(Interrupted(fs, Len(ds), sp), w, sp - 6, ds) /\ Interrupted(fs, Len(ds), sp)[2] = sp - 4
  <2>1. /\ w[sp - 6] = fs[1] /\ w[sp - 5] = site /\ w[sp - 4] \in R15Values
        /\ w[sp - 3] = fs[1] /\ w[sp - 2] = ip /\ w[sp - 1] = KernelCs
    BY <1>2, <1>10
  <2>2. /\ sp \in sp..(StackEnd - 1) /\ \A a \in fp..(StackEnd - 1) : a \in sp..(StackEnd - 1)
    BY <1>1, <1>4, <1>5
  <2>3. Above(mem, w, fs[1]) /\ w[sp] = mem[sp]
    BY <1>2, <1>10, <2>2 DEF Above
  <2>4. sp = fs[1] \/ (sp = fs[1] - 1 /\ w[sp] \in CallSites)
    BY <1>1, <1>2, <2>3
  <2>5. /\ callers \in Seq(Addresses) /\ callers # <<>> /\ fs \in [1..Len(callers) -> Int]
        /\ Links(fs, mem, callers) /\ Above(mem, w, fs[1])
    BY <1>1, <1>2, <2>3
  <2> HIDE DEF ds
  <2>6. LET es == <<site, ip>> \o callers
            gs == Interrupted(fs, Len(es), sp)
        IN Backed(gs, w, sp - 6, es) /\ gs[2] = sp - 4
    <3>1. HandlerLies(fs, w, sp, site, ip)
      BY <2>1, <2>4 DEF HandlerLies
    <3> QED BY <2>5, <3>1, PushRegsLinks
  <2> QED BY <2>6 DEF ds
<1>13. ds \in Seq(Addresses) /\ ds # <<>> /\ Len(ds) = Len(callers) + 2 /\ ds[1] = site
  BY <1>1, <1>5, PrependTwo
<1> HIDE DEF ds
<1>14. Backed(Interrupted(fs, Len(ds), sp), w, sp - 6, ds) /\ Interrupted(fs, Len(ds), sp)[2] = sp - 4
  BY <1>12
<1>15. Len(ds) >= 2 /\ RegsAt(ds, 2)
  BY <1>3, <1>13 DEF RegsAt
<1>16. callers' = ds
  BY <1>11 DEF ds
<1>17. sp' = sp - (RegsWords + FrameWords) /\ fp' = sp' /\ sp - 4 = sp - RegsWords
  BY <1>1, <1>11 DEF RegsWords, FrameWords
<1>18. \E gs : Backed(gs, mem', fp', callers') /\ gs[2] = sp - RegsWords
  BY <1>11, <1>14, <1>16, <1>17
<1> QED BY <1>9, <1>11, <1>13, <1>15, <1>16, <1>17, <1>18

\* The innermost call is not one that was interrupted, and its frame lies where
\* the stack ends.
LEMMA Innermost ==
  ASSUME Shapes, NEW fs, Backed(fs, mem, fp, callers), mem[fp + 1] \in CallSites \cup RegSites
  PROVE  Len(callers) >= 2 /\ FrameLies(fs, mem, callers, 1) /\ callers[1] = mem[fp + 1] /\ fs[1] = fp
<1>1. callers \in Seq(Addresses) /\ callers # <<>>
  BY DEF Shapes
<1>2. fs[1] = fp /\ Links(fs, mem, callers)
  BY DEF Backed
<1>3. Len(callers) \in Nat /\ Len(callers) >= 1
  BY <1>1
<1>4. Len(callers) # 1
  <2>1. mem[fs[Len(callers)] + 1] = StartSite
    BY <1>2 DEF Links
  <2> QED BY <1>2, <2>1, Layout
<1>5. 1 \in 1..(Len(callers) - 1) /\ Len(callers) >= 2
  <2> DEFINE n == Len(callers)
  <2>1. n \in Nat /\ n >= 1 /\ n # 1
    BY <1>3, <1>4
  <2> HIDE DEF n
  <2>2. n >= 2
    BY <2>1
  <2>3. 1 \in 1..(n - 1)
    BY <2>1
  <2> QED BY <2>2, <2>3 DEF n
<1>6. ~RegsAt(callers, 1)
  BY DEF RegsAt
<1>7. FrameLies(fs, mem, callers, 1)
  BY <1>2, <1>5, <1>6 DEF Links
<1> QED BY <1>2, <1>5, <1>7 DEF FrameLies

\* Returns leave the frames of the calls that go on.
LEMMA LeaveKeeps ==
  ASSUME Shapes, NEW fs, Backed(fs, mem, fp, callers), Leave
  PROVE  /\ callers' \in Seq(Addresses) /\ callers' # <<>>
         /\ sp' = fp' - 1 /\ sp' = fp + 1 /\ fp' \in Int /\ mem[sp'] \in CallSites
         /\ \E gs : Backed(gs, mem', fp', callers')
<1>1. callers \in Seq(Addresses) /\ callers # <<>> /\ fp \in Int
  BY DEF Shapes
<1>2. fs \in [1..Len(callers) -> Int] /\ Links(fs, mem, callers)
  BY DEF Backed
<1>3. /\ mem[fp + 1] \in CallSites /\ sp' = fp + 1 /\ fp' = mem[fp] /\ mem' = mem
      /\ callers' = Tail(callers)
  BY DEF Leave
<1>4. Len(callers) >= 2 /\ FrameLies(fs, mem, callers, 1) /\ callers[1] \in CallSites /\ fs[1] = fp
  BY <1>3, Innermost
<1>5. fs[1 + 1] = fp + FrameWords /\ mem[fp] = fs[1 + 1]
  BY <1>4 DEF FrameLies
<1>6. /\ Tail(callers) \in Seq(Addresses) /\ Tail(callers) # <<>>
      /\ Len(Tail(callers)) = Len(callers) - 1
      /\ \A i \in 1..(Len(callers) - 1) : Tail(callers)[i] = callers[i + 1]
  BY <1>1, <1>4, DropOne
<1> DEFINE ds == Tail(callers)
           one == 1
<1> HIDE DEF ds
<1>7. one \in Nat /\ one < Len(callers) /\ one + 1 \in 1..Len(callers) /\ Len(callers) \in Nat
  BY <1>1, <1>4
<1>8. Len(ds) = Len(callers) - one /\ \A i \in 1..(Len(callers) - one) : ds[i] = callers[i + one]
  BY <1>6 DEF ds
<1>9. ~RegsAt(callers, one + 1)
  <2>1. callers[(one + 1) - 1] \notin RegSites
    BY <1>4, Layout
  <2> QED BY <2>1 DEF RegsAt
<1>10. fs[one + 1] = fs[1 + 1]
  OBVIOUS
<1> HIDE DEF one
<1>11. \A i \in (one + 1)..Len(callers) : fs[one + 1] <= fs[i]
  BY <1>2, <1>7, Rising
<1>12. Backed(Left(fs, one, Len(ds)), mem, fs[one + 1], ds)
  BY <1>1, <1>2, <1>7, <1>8, <1>9, <1>11, DropLinks
<1>13. fp' = fs[one + 1]
  BY <1>3, <1>5, <1>10
<1>14. callers' = ds
  BY <1>3 DEF ds
<1>15. Backed(Left(fs, one, Len(ds)), mem', fp', callers')
  BY <1>3, <1>12, <1>13, <1>14
<1>16. sp' = fp' - 1 /\ fp' \in Int
  BY <1>1, <1>3, <1>5 DEF FrameWords
<1> QED BY <1>3, <1>6, <1>14, <1>15, <1>16 DEF ds

LEMMA EventReturnKeeps ==
  ASSUME Shapes, NEW fs, Backed(fs, mem, fp, callers), EventReturn
  PROVE  /\ callers' \in Seq(Addresses) /\ callers' # <<>>
         /\ sp' = fp' \/ (sp' = fp' - 1 /\ mem[sp'] \in CallSites)
         /\ sp' = fp + FrameWords + RegsWords /\ fp' \in Int
         /\ \E gs : Backed(gs, mem', fp', callers')
<1>1. callers \in Seq(Addresses) /\ callers # <<>> /\ fp \in Int
  BY DEF Shapes
<1>2. fs \in [1..Len(callers) -> Int] /\ Links(fs, mem, callers)
  BY DEF Backed
<1>3. /\ mem[fp + 1] \in RegSites /\ sp' = fp + FrameWords + RegsWords /\ fp' = mem[fp] /\ mem' = mem
      /\ callers' = Tail(Tail(callers))
  BY DEF EventReturn, RegSites
<1>4. Len(callers) >= 2 /\ FrameLies(fs, mem, callers, 1) /\ callers[1] \in RegSites /\ fs[1] = fp
  BY <1>3, Innermost
<1>5. fs[1 + 1] = fp + FrameWords /\ mem[fp] = fs[1 + 2] /\ 1 + 2 <= Len(callers)
  BY <1>4 DEF FrameLies
<1>6. 2 \in 1..(Len(callers) - 1) /\ Len(callers) \in Nat
  BY <1>1, <1>5
<1>7. RegsAt(callers, 2)
  BY <1>4 DEF RegsAt
<1>8. RegsLie(fs, mem, callers, 2)
  BY <1>2, <1>6, <1>7 DEF Links
<1>9. /\ \/ fs[3] = fs[2] + RegsWords
         \/ fs[3] = fs[2] + RegsWords + 1 /\ mem[fs[2] + RegsWords] \in CallSites
      /\ callers[2] \in CallSites \cup WildTargets
  BY <1>8 DEF RegsLie
<1>10. /\ Tail(callers) \in Seq(Addresses) /\ Len(Tail(callers)) = Len(callers) - 1
       /\ \A i \in 1..(Len(callers) - 1) : Tail(callers)[i] = callers[i + 1]
  BY <1>1, <1>4, DropOne
<1> DEFINE es == Tail(callers)
           ds == Tail(es)
           two == 2
<1> HIDE DEF es
<1>11. es \in Seq(Addresses) /\ Len(es) = Len(callers) - 1 /\ Len(es) >= 2
       /\ \A i \in 1..(Len(callers) - 1) : es[i] = callers[i + 1]
  BY <1>6, <1>10 DEF es
<1>12. /\ ds \in Seq(Addresses) /\ ds # <<>> /\ Len(ds) = Len(es) - 1
       /\ \A i \in 1..(Len(es) - 1) : ds[i] = es[i + 1]
  BY <1>11, DropOne
<1> HIDE DEF ds
<1>13. two \in Nat /\ two < Len(callers) /\ two + 1 \in 1..Len(callers)
  BY <1>6
<1>14. Len(ds) = Len(callers) - two
  BY <1>6, <1>11, <1>12
<1>15. ASSUME NEW i \in 1..(Len(callers) - two) PROVE ds[i] = callers[i + two]
  <2>1. i \in 1..(Len(es) - 1) /\ i + 1 \in 1..(Len(callers) - 1) /\ (i + 1) + 1 = i + two
    BY <1>6, <1>11
  <2> QED BY <1>11, <1>12, <2>1
<1>16. ~RegsAt(callers, two + 1)
  <2>1. callers[(two + 1) - 1] \notin RegSites
    BY <1>9, Layout
  <2> QED BY <2>1 DEF RegsAt
<1>17. fs[two + 1] = fs[1 + 2] /\ fs[1 + 2] = fs[3] /\ fs[1 + 1] = fs[2]
  OBVIOUS
<1> HIDE DEF two
<1>18. \A i \in (two + 1)..Len(callers) : fs[two + 1] <= fs[i]
  BY <1>2, <1>6, <1>13, Rising
<1>19. Backed(Left(fs, two, Len(ds)), mem, fs[two + 1], ds)
  BY <1>1, <1>2, <1>13, <1>14, <1>15, <1>16, <1>18, DropLinks
<1>20. fp' = fs[two + 1]
  BY <1>3, <1>5, <1>17
<1>23. fp' = fs[3] /\ sp' = fs[2] + RegsWords /\ fs[2] \in Int
  BY <1>1, <1>3, <1>5, <1>17, <1>20 DEF FrameWords, RegsWords
<1>24. /\ sp' = fp' \/ (sp' = fp' - 1 /\ mem[sp'] \in CallSites)
       /\ fp' \in Int
  BY <1>9, <1>23 DEF RegsWords
<1>21. callers' = ds
  BY <1>3 DEF ds, es
<1>22. Backed(Left(fs, two, Len(ds)), mem', fp', callers')
  BY <1>3, <1>19, <1>20, <1>21
<1> QED BY <1>3, <1>12, <1>21, <1>22, <1>24

(****************************************************************************)
(* The invariant, until the report begins.                                  *)
(****************************************************************************)
Positions == {"running", "exit", "bug", "overflow", "unwind", "flush", "off"}
Reporting == {"unwind", "flush", "off"}

\* Steps outside the report that leave the calls on the stack.
LEMMA Carried ==
  ASSUME IInv, pc' \in Positions, pc' \notin Reporting, UNCHANGED <<printed, truth, archive, withAsserts>>,
         symtab' = symtab \/ pc = "running",
         mem' \in [Stack -> Int], callers' \in Seq(Addresses), callers' # <<>>,
         sp' \in Int, sp' >= StackBase, fp' \in Int,
         sp' = fp' \/ (sp' = fp' - 1 /\ pc' = "running" /\ mem'[sp'] \in CallSites),
         pc' = "running" => pc = "running" /\ sp' - Reserve >= StackBase,
         \E gs : /\ Backed(gs, mem', fp', callers')
                 /\ pc' = "exit" /\ regs' # 0 =>
                      Len(callers') >= 2 /\ RegsAt(callers', 2) /\ regs' = gs[2]
  PROVE  Shapes' /\ Chain' /\ LinesTrue' /\ Told'
<1>1. Shapes'
  BY DEF IInv, Shapes, Positions
<1>2. PICK gs : /\ Backed(gs, mem', fp', callers')
                /\ pc' = "exit" /\ regs' # 0 =>
                     Len(callers') >= 2 /\ RegsAt(callers', 2) /\ regs' = gs[2]
  OBVIOUS
<1>3. ChainIs(gs)'
  BY <1>2 DEF ChainIs, Reporting
<1>4. LinesTrue'
  <2>1. CASE symtab' = symtab
    BY <2>1 DEF IInv, LinesTrue, Reliable
  <2>2. CASE pc = "running"
    <3>1. printed' = <<>>
      BY <2>2 DEF IInv, Shapes
    <3>2. DOMAIN printed' = {}
      BY <3>1
    <3> QED BY <3>2 DEF LinesTrue
  <2> QED BY <2>1, <2>2
<1>5. Told'
  BY DEF Told, Reporting
<1> QED BY <1>1, <1>3, <1>4, <1>5 DEF Chain

\* The symbols stay those of a file of the store.
LEMMA SymbolsKept ==
  ASSUME SymbolsTrue, UNCHANGED <<archive, withAsserts, symtab>>
  PROVE  SymbolsTrue'
BY DEF SymbolsTrue, Vouched

\* The frames on the stack.
LEMMA SomeFrames ==
  ASSUME IInv
  PROVE  /\ Shapes /\ SymbolsTrue
         /\ \E fs : Backed(fs, mem, fp, callers) /\ ChainIs(fs)
BY DEF IInv, Chain, ChainIs

LEMMA Words == RegsWords = 4 /\ FrameWords = 2 /\ Reserve = 10
BY DEF RegsWords, FrameWords, Reserve

LEMMA CallKeeps ==
  ASSUME IInv, Call
  PROVE  IInv'
<1>1. PICK fs : Backed(fs, mem, fp, callers)
  BY SomeFrames
<1>2. PICK site \in CallSites : mem' = Pushed(sp - 1, <<site>>)
  BY DEF Call
<1>3. /\ pc = "running" /\ pc' = "running" /\ sp = fp /\ sp - (FrameWords + Reserve) >= StackBase
      /\ sp' = sp - 1 /\ UNCHANGED <<fp, callers, printed, truth, archive, withAsserts, symtab>>
  BY DEF Call, Framed, Room, Fits, unwinding
<1>4. /\ Shapes /\ SymbolsTrue /\ sp \in Int /\ StackBase \in Int
      /\ callers \in Seq(Addresses) /\ callers # <<>>
  BY SomeFrames, Layout DEF Shapes
<1>5. sp - 1 >= StackBase
  BY <1>3, <1>4, Words
<1>6. mem' \in [Stack -> Int] /\ mem'[sp'] \in CallSites /\ Backed(fs, mem', fp', callers')
  BY <1>1, <1>2, <1>3, <1>4, <1>5, CallPushes
<1>7. sp' \in Int /\ sp' >= StackBase /\ sp' - Reserve >= StackBase /\ fp' \in Int /\ sp' = fp' - 1
  BY <1>3, <1>4, Words
<1>8. pc' \in Positions /\ pc' \notin Reporting /\ pc' # "exit"
  BY <1>3 DEF Reporting, Positions
<1>9. Shapes' /\ Chain' /\ LinesTrue' /\ Told'
  BY <1>3, <1>4, <1>6, <1>7, <1>8, Carried
<1> QED BY <1>3, <1>4, <1>9, SymbolsKept DEF IInv

LEMMA EnterKeeps ==
  ASSUME IInv, Enter
  PROVE  IInv'
<1>1. PICK fs : Backed(fs, mem, fp, callers)
  BY SomeFrames
<1>2. /\ pc = "running" /\ pc' = "running" /\ sp # fp /\ sp - (1 + Reserve) >= StackBase
      /\ mem' = Pushed(sp - 1, <<fp>>) /\ callers' = <<mem[sp]>> \o callers
      /\ sp' = sp - 1 /\ fp' = sp - 1 /\ UNCHANGED <<printed, truth, archive, withAsserts, symtab>>
  BY DEF Enter, Framed, Room, Fits, unwinding
<1>3. Shapes /\ SymbolsTrue /\ sp \in Int /\ StackBase \in Int
  BY SomeFrames, Layout DEF Shapes
<1>4. sp - 1 >= StackBase
  BY <1>2, <1>3, Words
<1>5. /\ mem' \in [Stack -> Int] /\ callers' \in Seq(Addresses) /\ callers' # <<>>
      /\ \E gs : Backed(gs, mem', fp', callers')
  BY <1>1, <1>2, <1>3, <1>4, EnterPushes
<1>6. sp' \in Int /\ sp' >= StackBase /\ sp' - Reserve >= StackBase /\ fp' \in Int /\ sp' = fp'
  BY <1>2, <1>3, Words
<1>7. pc' \in Positions /\ pc' \notin Reporting /\ pc' # "exit"
  BY <1>2 DEF Reporting, Positions
<1>8. Shapes' /\ Chain' /\ LinesTrue' /\ Told'
  BY <1>2, <1>5, <1>6, <1>7, Carried
<1> QED BY <1>2, <1>3, <1>8, SymbolsKept DEF IInv

LEMMA LeaveInv ==
  ASSUME IInv, Leave
  PROVE  IInv'
<1>1. PICK fs : Backed(fs, mem, fp, callers)
  BY SomeFrames
<1>2. /\ pc = "running" /\ pc' = "running" /\ sp = fp /\ mem' = mem
      /\ UNCHANGED <<printed, truth, archive, withAsserts, symtab>>
  BY DEF Leave, Framed, unwinding
<1>3. /\ Shapes /\ SymbolsTrue /\ sp \in Int /\ StackBase \in Int /\ mem \in [Stack -> Int]
      /\ sp >= StackBase /\ sp - Reserve >= StackBase
  BY <1>2, SomeFrames, Layout DEF Shapes
<1>4. /\ callers' \in Seq(Addresses) /\ callers' # <<>> /\ fp' \in Int
      /\ sp' = fp' - 1 /\ sp' = fp + 1 /\ mem[sp'] \in CallSites
      /\ \E gs : Backed(gs, mem', fp', callers')
  BY <1>1, <1>3, LeaveKeeps
<1>5. sp' \in Int /\ sp' >= StackBase /\ sp' - Reserve >= StackBase
  <2>1. sp' = sp + 1
    BY <1>2, <1>4
  <2> QED BY <1>3, <2>1, Words
<1>6. pc' \in Positions /\ pc' \notin Reporting /\ pc' # "exit"
  BY <1>2 DEF Reporting, Positions
<1>7. Shapes' /\ Chain' /\ LinesTrue' /\ Told'
  BY <1>2, <1>3, <1>4, <1>5, <1>6, Carried
<1> QED BY <1>2, <1>3, <1>7, SymbolsKept DEF IInv

LEMMA ReturnInv ==
  ASSUME IInv, Return
  PROVE  IInv'
<1>1. PICK fs : Backed(fs, mem, fp, callers)
  BY SomeFrames
<1>2. /\ pc = "running" /\ pc' = "running" /\ sp # fp /\ sp' = sp + 1
      /\ UNCHANGED <<mem, fp, callers, printed, truth, archive, withAsserts, symtab>>
  BY DEF Return, Framed, unwinding
<1>3. /\ Shapes /\ SymbolsTrue /\ sp \in Int /\ fp \in Int /\ sp = fp - 1 /\ StackBase \in Int
      /\ mem \in [Stack -> Int] /\ callers \in Seq(Addresses) /\ callers # <<>>
      /\ sp >= StackBase /\ sp - Reserve >= StackBase
  BY <1>2, SomeFrames, Layout DEF Shapes
<1>4. sp' = fp' /\ sp' \in Int /\ sp' >= StackBase /\ sp' - Reserve >= StackBase /\ fp' \in Int
  BY <1>2, <1>3, Words
<1>5. \E gs : Backed(gs, mem', fp', callers')
  BY <1>1, <1>2
<1>6. pc' \in Positions /\ pc' \notin Reporting /\ pc' # "exit"
  BY <1>2 DEF Reporting, Positions
<1>7. Shapes' /\ Chain' /\ LinesTrue' /\ Told'
  BY <1>2, <1>3, <1>4, <1>5, <1>6, Carried
<1> QED BY <1>2, <1>3, <1>7, SymbolsKept DEF IInv

LEMMA EventReturnInv ==
  ASSUME IInv, EventReturn
  PROVE  IInv'
<1>1. PICK fs : Backed(fs, mem, fp, callers)
  BY SomeFrames
<1>2. /\ pc = "running" /\ pc' = "running" /\ sp = fp /\ mem' = mem
      /\ UNCHANGED <<printed, truth, archive, withAsserts, symtab>>
  BY DEF EventReturn, Framed, unwinding
<1>3. /\ Shapes /\ SymbolsTrue /\ sp \in Int /\ StackBase \in Int /\ mem \in [Stack -> Int]
      /\ sp >= StackBase /\ sp - Reserve >= StackBase
  BY <1>2, SomeFrames, Layout DEF Shapes
<1>4. /\ callers' \in Seq(Addresses) /\ callers' # <<>> /\ fp' \in Int
      /\ sp' = fp' \/ (sp' = fp' - 1 /\ mem[sp'] \in CallSites)
      /\ sp' = fp + FrameWords + RegsWords /\ \E gs : Backed(gs, mem', fp', callers')
  BY <1>1, <1>3, EventReturnKeeps
<1>5. sp' \in Int /\ sp' >= StackBase /\ sp' - Reserve >= StackBase
  BY <1>2, <1>3, <1>4, Words
<1>6. pc' \in Positions /\ pc' \notin Reporting /\ pc' # "exit"
  BY <1>2 DEF Reporting, Positions
<1>7. Shapes' /\ Chain' /\ LinesTrue' /\ Told'
  BY <1>2, <1>3, <1>4, <1>5, <1>6, Carried
<1> QED BY <1>2, <1>3, <1>7, SymbolsKept DEF IInv

LEMMA EventKeeps ==
  ASSUME IInv, Event
  PROVE  IInv'
<1>1. PICK fs : Backed(fs, mem, fp, callers)
  BY SomeFrames
<1>2. PICK ip \in CallSites, r15 \in R15Values : PushRegs(ip, r15, CallbackSite)
  BY DEF Event
<1>3. /\ pc = "running" /\ pc' = "running" /\ sp - ((RegsWords + FrameWords) + Reserve) >= StackBase
      /\ UNCHANGED <<printed, truth, archive, withAsserts, symtab>>
  BY DEF Event, Room, Fits, unwinding
<1>4. Shapes /\ SymbolsTrue /\ sp \in Int /\ StackBase \in Int /\ CallbackSite \in RegSites
  BY SomeFrames, Layout DEF Shapes, RegSites
<1>5. sp - (RegsWords + FrameWords) >= StackBase
  BY <1>3, <1>4, Words
<1>6. /\ mem' \in [Stack -> Int] /\ callers' \in Seq(Addresses) /\ callers' # <<>>
      /\ fp' = sp' /\ sp' = sp - (RegsWords + FrameWords) /\ \E gs : Backed(gs, mem', fp', callers')
  BY <1>1, <1>2, <1>4, <1>5, PushRegsKeeps
<1>7. sp' \in Int /\ sp' >= StackBase /\ sp' - Reserve >= StackBase
  BY <1>3, <1>4, <1>6, Words
<1>8. pc' \in Positions /\ pc' \notin Reporting /\ pc' # "exit"
  BY <1>3 DEF Reporting, Positions
<1>9. Shapes' /\ Chain' /\ LinesTrue' /\ Told'
  BY <1>3, <1>6, <1>7, <1>8, Carried
<1> QED BY <1>3, <1>4, <1>9, SymbolsKept DEF IInv

\* A failed assertion is a call that ends in debugExit(NULL), ...
LEMMA FailKeeps ==
  ASSUME IInv, sp = fp, Assertion, sp - FrameWords >= StackBase, UNCHANGED <<printed, truth, archive, withAsserts, symtab>>
  PROVE  IInv'
<1>1. PICK fs : Backed(fs, mem, fp, callers)
  BY SomeFrames
<1>2. /\ Shapes /\ SymbolsTrue /\ sp \in Int /\ StackBase \in Int
      /\ pc' = "exit" /\ regs' = 0
  BY SomeFrames, Layout DEF Shapes, Assertion
<1>3. PICK site \in CallSites : Push(site)
  BY DEF Assertion
<1>4. /\ mem' \in [Stack -> Int] /\ callers' \in Seq(Addresses) /\ callers' # <<>>
      /\ fp' = sp' /\ sp' = sp - FrameWords /\ \E gs : Backed(gs, mem', fp', callers')
  BY <1>1, <1>2, <1>3, PushKeeps
<1>5. sp' \in Int /\ sp' >= StackBase
  BY <1>2, <1>4, Words
<1>6. pc' \in Positions /\ pc' \notin Reporting /\ pc' # "running"
  BY <1>2 DEF Reporting, Positions
<1>7. Shapes' /\ Chain' /\ LinesTrue' /\ Told'
  BY <1>2, <1>4, <1>5, <1>6, Carried
<1> QED BY <1>2, <1>7, SymbolsKept DEF IInv

\* ... and a trap an exception, after which debugExit has the registers.
LEMMA TrapKeeps ==
  ASSUME IInv, pc = "running", NEW ip \in CallSites \cup WildTargets, NEW r15 \in R15Values,
         PushRegs(ip, r15, EntrySite), (pc' = "exit" /\ regs' = sp - RegsWords) \/ pc' = "bug",
         UNCHANGED <<printed, truth, archive, withAsserts>>, SymbolsTrue'
  PROVE  IInv'
<1>1. PICK fs : Backed(fs, mem, fp, callers)
  BY SomeFrames
<1>2. /\ Shapes /\ SymbolsTrue /\ sp \in Int /\ StackBase \in Int /\ EntrySite \in RegSites
      /\ sp - Reserve >= StackBase
  BY SomeFrames, Layout DEF Shapes, RegSites
<1>3. sp - (RegsWords + FrameWords) >= StackBase
  BY <1>2, Words
<1>4. /\ mem' \in [Stack -> Int] /\ callers' \in Seq(Addresses) /\ callers' # <<>>
      /\ fp' = sp' /\ sp' = sp - (RegsWords + FrameWords) /\ Len(callers') >= 2 /\ RegsAt(callers', 2)
      /\ \E gs : Backed(gs, mem', fp', callers') /\ gs[2] = sp - RegsWords
  BY <1>1, <1>2, <1>3, PushRegsKeeps
<1>5. sp' \in Int /\ sp' >= StackBase
  BY <1>2, <1>4, Words
<1>6. pc' \in Positions /\ pc' \notin Reporting /\ pc' # "running"
  BY DEF Reporting, Positions
<1>7. \E gs : /\ Backed(gs, mem', fp', callers')
              /\ pc' = "exit" /\ regs' # 0 =>
                   Len(callers') >= 2 /\ RegsAt(callers', 2) /\ regs' = gs[2]
  BY <1>4
<1>8. Shapes' /\ Chain' /\ LinesTrue' /\ Told'
  BY <1>4, <1>5, <1>6, <1>7, Carried
<1> QED BY <1>8 DEF IInv

LEMMA FatalKeeps ==
  ASSUME IInv, Bug \/ Trap \/ TrapDeviceNotAvailable \/ BugAgain
  PROVE  IInv'
<1>1. Shapes /\ SymbolsTrue /\ sp \in Int /\ StackBase \in Int
  BY SomeFrames, Layout DEF Shapes
<1>2. CASE Bug
  <2>1. /\ Assertion /\ pc = "running" /\ sp = fp /\ UNCHANGED <<printed, truth, archive, withAsserts, symtab>>
    BY <1>2 DEF Bug, Framed
  <2>2. sp - Reserve >= StackBase
    BY <1>1, <2>1 DEF Shapes
  <2>3. sp - FrameWords >= StackBase
    BY <1>1, <2>2, Words
  <2> QED BY <2>1, <2>3, FailKeeps
<1>3. CASE Trap
  <2>1. PICK ip \in CallSites \cup WildTargets : Exception(ip)
    BY <1>3 DEF Trap
  <2>2. PICK r15 \in R15Values : PushRegs(ip, r15, EntrySite)
    BY <2>1 DEF Exception
  <2>3. /\ pc = "running" /\ pc' = "exit" /\ regs' = sp - RegsWords
        /\ UNCHANGED <<printed, truth, archive, withAsserts, symtab>>
    BY <1>3, <2>1 DEF Trap, Exception
  <2> QED BY <1>1, <2>2, <2>3, SymbolsKept, TrapKeeps
<1>4. CASE TrapDeviceNotAvailable
  <2>1. PICK ip \in CallSites, r15 \in R15Values : PushRegs(ip, r15, EntrySite)
    BY <1>4 DEF TrapDeviceNotAvailable
  <2>2. pc = "running" /\ pc' = "bug" /\ UNCHANGED <<printed, truth, archive, withAsserts, symtab>>
    BY <1>4 DEF TrapDeviceNotAvailable, unwinding
  <2> QED BY <1>1, <2>1, <2>2, SymbolsKept, TrapKeeps
<1>5. CASE BugAgain
  <2>1. pc = "bug" /\ UNCHANGED <<printed, truth, archive, withAsserts, symtab>> /\ sp = fp
    BY <1>1, <1>5 DEF BugAgain, Shapes
  <2>2. CASE Fits(FrameWords)
    <3>1. Assertion /\ sp - FrameWords >= StackBase
      BY <1>5, <2>2 DEF BugAgain, Fits
    <3> QED BY <2>1, <3>1, FailKeeps
  <2>3. CASE ~Fits(FrameWords)
    <3>1. pc' = "overflow" /\ UNCHANGED <<mem, sp, fp, callers, regs>>
      BY <1>5, <2>3 DEF BugAgain
    <3>2. PICK fs : Backed(fs, mem, fp, callers)
      BY SomeFrames
    <3>3. pc' \in Positions /\ pc' \notin Reporting /\ pc' # "running" /\ pc' # "exit"
      BY <3>1 DEF Positions, Reporting
    <3>4. \E gs : Backed(gs, mem', fp', callers')
      BY <3>1, <3>2
    <3>5. /\ mem' \in [Stack -> Int] /\ callers' \in Seq(Addresses) /\ callers' # <<>>
          /\ fp' = sp' /\ sp' \in Int /\ sp' >= StackBase
      BY <1>1, <2>1, <3>1 DEF Shapes
    <3>6. Shapes' /\ Chain' /\ LinesTrue' /\ Told'
      BY <2>1, <3>3, <3>4, <3>5, Carried
    <3> QED BY <1>1, <2>1, <3>6, SymbolsKept DEF IInv
  <2> QED BY <2>2, <2>3
<1> QED BY <1>2, <1>3, <1>4, <1>5

\* debugInit takes the symbols of the file it found, after its checks or, in a
\* build without assertions, from a section table out of bounds.
LEMMA SymbolsFound ==
  ASSUME archive \in Archives, NEW i, i = Find(archive, "ethos.elf"), i # 0,
         ReadsSections(archive[i].elf), Vouched(archive[i].elf),
         archive' = archive, withAsserts' = withAsserts, symtab' = archive[i].elf.symbols
  PROVE  SymbolsTrue'
<1>1. /\ archive \in Seq({archive[j] : j \in DOMAIN archive})
      /\ \A j \in DOMAIN archive :
           /\ archive[j].blocks \in Nat
           /\ archive[j].elf.header = "kernel" =>
                archive[j].elf.symbols \in
                  Seq({archive[j].elf.symbols[k] : k \in DOMAIN archive[j].elf.symbols})
  BY ArchivesAssumption
<1>2. Len(archive) \in Nat /\ DOMAIN archive = 1..Len(archive)
  BY <1>1
<1>3. Blocks(archive)
  BY <1>1, <1>2 DEF Blocks
<1>4. i \in 1..Len(archive) /\ archive[i].name = "ethos.elf"
  <2> DEFINE name == "ethos.elf"
  <2> HIDE DEF name
  <2>1. LET j == Find(archive, name) IN j # 0 => j \in 1..Len(archive) /\ archive[j].name = name
    BY <1>3, FindsName
  <2> QED BY <2>1 DEF name
<1>5. i \in DOMAIN archive /\ archive[i].elf.header = "kernel"
  BY <1>2, <1>4 DEF ReadsSections
<1>6. archive[i].elf.symbols \in Seq({archive[i].elf.symbols[k] : k \in DOMAIN archive[i].elf.symbols})
  BY <1>1, <1>5
<1> QED BY <1>4, <1>5, <1>6 DEF SymbolsTrue, Vouched

LEMMA DebugInitKeeps ==
  ASSUME IInv, DebugInit
  PROVE  IInv'
<1>1. /\ Shapes /\ SymbolsTrue /\ sp \in Int /\ StackBase \in Int /\ pc = "running" /\ sp = fp
      /\ sp - Reserve >= StackBase /\ sp >= StackBase /\ archive \in Archives
      /\ UNCHANGED <<printed, truth, archive, withAsserts>>
  BY SomeFrames, Layout DEF Shapes, DebugInit, Framed
<1>2. PICK i : i = Find(archive, "ethos.elf")
  OBVIOUS
<1> DEFINE elf == archive[i].elf
           Kept == \/ UNCHANGED symtab
                   \/ /\ i # 0 /\ ReadsSections(elf) /\ ~elf.inBounds
                      /\ symtab' = elf.symbols
           Look == /\ i # 0
                   /\ symtab' = IF ReadsSections(elf) THEN FoundSymbols(elf) ELSE NoSymbols
                   /\ UNCHANGED <<mem, sp, fp, callers, pc, regs>>
<1>3. \/ (\E ip \in CallSites : Exception(ip)) /\ Kept
      \/ Assertion /\ UNCHANGED symtab
      \/ Look
  BY <1>2 DEF DebugInit
<1> HIDE DEF Look, Kept
<1>4. CASE (\E ip \in CallSites : Exception(ip)) /\ Kept
  <2>1. PICK ip \in CallSites : Exception(ip)
    BY <1>4
  <2>2. PICK r15 \in R15Values : PushRegs(ip, r15, EntrySite)
    BY <2>1 DEF Exception
  <2>3. pc' = "exit" /\ regs' = sp - RegsWords
    BY <2>1 DEF Exception
  <2>4. SymbolsTrue'
    <3>1. CASE UNCHANGED symtab
      BY <1>1, <3>1, SymbolsKept
    <3>2. CASE i # 0 /\ ReadsSections(elf) /\ ~elf.inBounds /\ symtab' = elf.symbols
      <4>1. Vouched(elf)
        BY <3>2 DEF Vouched, ReadsSections
      <4> QED BY <1>1, <1>2, <3>2, <4>1, SymbolsFound
    <3> QED BY <1>4, <3>1, <3>2 DEF Kept
  <2> QED BY <1>1, <2>2, <2>3, <2>4, TrapKeeps
<1>5. CASE Assertion /\ UNCHANGED symtab
  <2>1. sp - FrameWords >= StackBase
    BY <1>1, Words
  <2> QED BY <1>1, <1>5, <2>1, FailKeeps
<1>6. CASE Look
  <2>1. /\ i # 0 /\ UNCHANGED <<mem, sp, fp, callers, pc, regs>>
        /\ symtab' = IF ReadsSections(elf) THEN FoundSymbols(elf) ELSE NoSymbols
    BY <1>6 DEF Look
  <2>2. SymbolsTrue'
    <3>1. CASE ReadsSections(elf) /\ FoundSymbols(elf) # NoSymbols
      <4>1. FoundSymbols(elf) = elf.symbols /\ Vouched(elf)
        BY <3>1 DEF FoundSymbols, SameVersion, Vouched
      <4> QED BY <1>1, <1>2, <2>1, <3>1, <4>1, SymbolsFound
    <3>2. CASE ~(ReadsSections(elf) /\ FoundSymbols(elf) # NoSymbols)
      BY <2>1, <3>2 DEF SymbolsTrue
    <3> QED BY <3>1, <3>2
  <2>3. PICK fs : Backed(fs, mem, fp, callers)
    BY SomeFrames
  <2>4. pc' \in Positions /\ pc' \notin Reporting /\ pc' # "exit"
    BY <1>1, <2>1 DEF Reporting, Positions
  <2>5. \E gs : Backed(gs, mem', fp', callers')
    BY <2>1, <2>3
  <2>6. /\ mem' \in [Stack -> Int] /\ callers' \in Seq(Addresses) /\ callers' # <<>>
        /\ fp' = sp' /\ sp' \in Int /\ sp' >= StackBase /\ sp' - Reserve >= StackBase
    BY <1>1, <2>1 DEF Shapes
  <2>7. Shapes' /\ Chain' /\ LinesTrue' /\ Told'
    BY <1>1, <2>4, <2>5, <2>6, Carried
  <2> QED BY <2>2, <2>7 DEF IInv
<1> QED BY <1>3, <1>4, <1>5, <1>6

(****************************************************************************)
(* The report.                                                              *)
(****************************************************************************)
\* debugExit begins at the first of the calls, or at the registers.
LEMMA DebugExitKeeps ==
  ASSUME IInv, DebugExit
  PROVE  IInv'
<1>1. PICK fs : Backed(fs, mem, fp, callers) /\ ChainIs(fs)
  BY SomeFrames
<1>2. /\ Shapes /\ SymbolsTrue /\ callers \in Seq(Addresses) /\ callers # <<>>
      /\ pc = "exit" /\ UNCHANGED <<mem, sp, fp, callers, archive, withAsserts, symtab>> /\ printed' = <<>>
  BY SomeFrames DEF Shapes, DebugExit
<1>3. /\ Len(callers) \in Nat /\ Len(callers) >= 1 /\ 1 \in 1..Len(callers)
      /\ fs \in [1..Len(callers) -> Int] /\ fs[1] = fp /\ Links(fs, mem, callers)
  BY <1>1, <1>2 DEF Backed
<1> DEFINE useRegs == regs # 0 /\ \A a \in regs..(regs + RegsWords - 1) : Mapped(a)
<1>4. /\ isRegs' = useRegs /\ frame' = IF useRegs THEN regs ELSE fp
      /\ truth' = IF useRegs THEN Tail(callers) ELSE callers
      /\ pc' = IF useRegs /\ Privilege(At(CsWord(regs))) = "bug" THEN "bug" ELSE "unwind"
  BY DEF DebugExit
<1>7. DOMAIN printed' = {}
  BY <1>2
<1>5. CASE useRegs
  <2>1. Len(callers) >= 2 /\ RegsAt(callers, 2) /\ regs = fs[2]
    BY <1>1, <1>2, <1>5 DEF ChainIs
  <2>2. 2 \in 1..Len(callers) /\ 2 \in 1..(Len(callers) - 1)
    <3>1. Len(callers) # 2
      BY <1>3, <2>1 DEF Links
    <3> DEFINE n == Len(callers)
    <3>2. n \in Nat /\ n >= 2 /\ n # 2
      BY <1>3, <2>1, <3>1
    <3> HIDE DEF n
    <3>3. 2 \in 1..n
      BY <3>2
    <3>4. 2 \in 1..(n - 1)
      BY <3>2
    <3> QED BY <3>3, <3>4 DEF n
  <2>3. RegsLie(fs, mem, callers, 2)
    BY <1>3, <2>1, <2>2 DEF Links
  <2>4. regs \in Int /\ regs + 3 \in regs..(regs + RegsWords - 1)
    BY <1>3, <2>1, <2>2, Words
  <2>5. At(CsWord(regs)) = KernelCs
    BY <1>5, <2>1, <2>3, <2>4 DEF At, CsWord, Mapped, RegsLie
  <2>6. pc' = "unwind" /\ frame' = fs[2] /\ isRegs' = TRUE
    BY <1>4, <1>5, <2>1, <2>5 DEF Privilege
  <2> DEFINE t == Tail(callers)
  <2>7. /\ t \in Seq(Addresses) /\ Len(t) = Len(callers) - 1
        /\ \A i \in 1..(Len(callers) - 1) : t[i] = callers[i + 1]
    BY <1>2, <2>1, DropOne
  <2> HIDE DEF t
  <2>8. truth' = t
    BY <1>4, <1>5 DEF t
  <2>9. Shapes'
    <3>1. printed' \in Seq({printed'[i] : i \in DOMAIN printed'})
      BY <1>2
    <3> QED BY <1>2, <2>6, <2>7, <2>8, <3>1 DEF Shapes
  <2>10. Skipped' = 1 /\ Position' = 2
    BY <1>2, <1>3, <2>7, <2>8 DEF Skipped, Position
  <2>11. DOMAIN truth' = 1..(Len(callers) - 1)
    BY <1>3, <2>7, <2>8
  <2>12. OnTrack(fs)'
    BY <1>2, <1>3, <2>1, <2>6, <2>7, <2>8, <2>10, <2>11 DEF OnTrack
  <2>13. ChainIs(fs)'
    BY <1>1, <1>2, <2>6, <2>12 DEF ChainIs
  <2>14. LinesTrue' /\ Told'
    BY <1>7, <2>6 DEF LinesTrue, Told
  <2> QED BY <1>2, <2>9, <2>13, <2>14, SymbolsKept DEF IInv, Chain
<1>6. CASE ~useRegs
  <2>1. pc' = "unwind" /\ frame' = fs[1] /\ isRegs' = FALSE /\ truth' = callers
    BY <1>3, <1>4, <1>6
  <2>2. Shapes'
    <3>1. printed' \in Seq({printed'[i] : i \in DOMAIN printed'})
      BY <1>2
    <3> QED BY <1>2, <2>1, <3>1 DEF Shapes
  <2>3. Skipped' = 0 /\ Position' = 1
    BY <1>2, <1>3, <2>1 DEF Skipped, Position
  <2>4. DOMAIN truth' = 1..Len(callers)
    BY <1>2, <1>3, <2>1
  <2>5. ~RegsAt(callers, 1)
    BY DEF RegsAt
  <2>6. OnTrack(fs)'
    BY <1>2, <1>3, <2>1, <2>3, <2>4, <2>5 DEF OnTrack
  <2>7. ChainIs(fs)'
    BY <1>1, <1>2, <2>1, <2>6 DEF ChainIs
  <2>8. LinesTrue' /\ Told'
    BY <1>7, <2>1 DEF LinesTrue, Told
  <2> QED BY <1>2, <2>2, <2>7, <2>8, SymbolsKept DEF IInv, Chain
<1> QED BY <1>5, <1>6

\* A sequence is one of its own elements, and so is a longer one.
LEMMA OfItsOwn ==
  ASSUME NEW S, NEW s \in Seq(S), NEW e
  PROVE  LET t == Append(s, e)
         IN /\ t \in Seq({t[i] : i \in DOMAIN t}) /\ Len(t) = Len(s) + 1 /\ t[Len(s) + 1] = e
            /\ DOMAIN t = 1..(Len(s) + 1) /\ \A i \in 1..Len(s) : t[i] = s[i]
<1> DEFINE t == Append(s, e)
           U == S \cup {e}
           R == {t[i] : i \in DOMAIN t}
<1>1. s \in Seq(U) /\ e \in U /\ Len(s) \in Nat
  OBVIOUS
<1> HIDE DEF U
<1>2. /\ t \in Seq(U) /\ Len(t) = Len(s) + 1 /\ t[Len(s) + 1] = e
      /\ \A i \in 1..Len(s) : t[i] = s[i]
  BY <1>1
<1> HIDE DEF t
<1>3. DOMAIN t = 1..(Len(s) + 1) /\ Len(t) \in Nat /\ DOMAIN t = 1..Len(t)
  BY <1>1, <1>2
<1>4. t \in [1..Len(t) -> R]
  <2>1. t = [i \in 1..Len(t) |-> t[i]]
    BY <1>2, <1>3
  <2>2. \A i \in 1..Len(t) : t[i] \in R
    BY <1>3
  <2> HIDE DEF R
  <2> QED BY <2>1, <2>2
<1> HIDE DEF R
<1>5. t \in Seq(R)
  BY <1>3, <1>4
<1> QED BY <1>2, <1>3, <1>5 DEF t, R

\* The report is at one of the calls; how many lines it has.
LEMMA AtPosition ==
  ASSUME IInv, NEW fs, OnTrack(fs)
  PROVE  /\ Position \in 1..Len(callers) /\ Len(printed) \in Nat /\ Skipped \in {0, 1}
         /\ Len(callers) \in Nat /\ Len(truth) \in Nat
         /\ DOMAIN truth = 1..Len(truth) /\ DOMAIN printed = 1..Len(printed)
         /\ Position = Len(printed) + 1 + Skipped /\ Len(truth) = Len(callers) - Skipped
         /\ Len(printed) + 1 \in 1..Len(truth) /\ truth[Len(printed) + 1] = callers[Position]
<1>2. /\ callers \in Seq(Addresses) /\ truth \in Seq(Addresses)
      /\ printed \in Seq({printed[i] : i \in DOMAIN printed})
  BY DEF IInv, Shapes
<1>3. /\ Len(callers) \in Nat /\ Len(truth) \in Nat /\ Len(printed) \in Nat
      /\ DOMAIN truth = 1..Len(truth) /\ DOMAIN printed = 1..Len(printed)
  BY <1>2
<1>4. /\ Skipped \in {0, 1} /\ Position <= Len(callers)
      /\ \A i \in DOMAIN truth : truth[i] = callers[i + Skipped]
  BY DEF OnTrack
<1>5. Skipped = Len(callers) - Len(truth) /\ Position = Len(printed) + 1 + Skipped
  BY DEF Skipped, Position
<1> DEFINE s == Skipped
           q == Position
           n == Len(callers)
           t == Len(truth)
           l == Len(printed)
<1>6. n \in Nat /\ t \in Nat /\ l \in Nat /\ s \in {0, 1} /\ q <= n /\ s = n - t /\ q = l + 1 + s
  BY <1>3, <1>4, <1>5
<1> HIDE DEF s, q, n, t, l
<1>7. q \in 1..n /\ t = n - s /\ l + 1 \in 1..t /\ (l + 1) + s = q
  BY <1>6
<1>8. truth[l + 1] = callers[(l + 1) + s]
  BY <1>3, <1>4, <1>7 DEF s, t
<1> QED BY <1>3, <1>6, <1>7, <1>8 DEF s, q, n, t, l

\* A turn that only adds a line, or none.
LEMMA Lines ==
  ASSUME IInv, pc = "unwind", NEW ra,
         printed' \in {printed, Append(printed, [at |-> ra, name |-> LookupAddress(symtab, ra)])}
  PROVE  /\ printed' \in Seq({printed'[i] : i \in DOMAIN printed'})
         /\ Len(printed) \in Nat /\ DOMAIN printed = 1..Len(printed)
         /\ DOMAIN printed' = 1..Len(printed') /\ Len(printed') \in {Len(printed), Len(printed) + 1}
         /\ \A i \in DOMAIN printed : i \in DOMAIN printed' /\ printed'[i] = printed[i]
         /\ \A i \in DOMAIN printed' : i \in DOMAIN printed \/
               /\ i = Len(printed) + 1
               /\ printed'[i].at = ra /\ printed'[i].name = LookupAddress(symtab, ra)
<1> DEFINE line == [at |-> ra, name |-> LookupAddress(symtab, ra)]
           l == Len(printed)
<1>1. printed \in Seq({printed[i] : i \in DOMAIN printed})
  BY DEF IInv, Shapes
<1>2. l \in Nat /\ DOMAIN printed = 1..l
  BY <1>1
<1>3. line.at = ra /\ line.name = LookupAddress(symtab, ra)
  OBVIOUS
<1> HIDE DEF line
<1>4. CASE printed' = printed
  BY <1>1, <1>2, <1>4
<1>5. CASE printed' = Append(printed, line)
  <2> DEFINE t == Append(printed, line)
             S == {printed[i] : i \in DOMAIN printed}
  <2>1. printed \in Seq(S)
    BY <1>1
  <2> HIDE DEF S
  <2>2. /\ t \in Seq({t[i] : i \in DOMAIN t}) /\ Len(t) = Len(printed) + 1 /\ t[Len(printed) + 1] = line
        /\ DOMAIN t = 1..(Len(printed) + 1) /\ \A i \in 1..Len(printed) : t[i] = printed[i]
    BY <2>1, OfItsOwn
  <2>3. printed' = t
    BY <1>5
  <2> HIDE DEF t
  <2>4. /\ printed' \in Seq({printed'[i] : i \in DOMAIN printed'}) /\ Len(printed') = l + 1
        /\ printed'[l + 1] = line /\ DOMAIN printed' = 1..(l + 1)
        /\ \A i \in 1..l : printed'[i] = printed[i]
    BY <2>2, <2>3
  <2>5. \A i \in 1..(l + 1) : i \in 1..l \/ i = l + 1
    BY <1>2
  <2>6. \A i \in 1..l : i \in 1..(l + 1)
    BY <1>2
  <2> QED BY <1>2, <1>3, <2>4, <2>5, <2>6
<1> QED BY <1>4, <1>5 DEF line

\* Each turn adds the line of that call, and goes on to the next, or the line was
\* the last one of the calls or the last one to be relied upon.
LEMMA LineKeeps ==
  ASSUME IInv, pc = "unwind", NEW fs, ChainIs(fs), OnTrack(fs), NEW q, q = Position,
         UNCHANGED <<mem, sp, fp, callers, archive, withAsserts, symtab, truth>>,
         printed' = Append(printed, [at |-> callers[q], name |-> LookupAddress(symtab, callers[q])]),
         \/ /\ pc' = "unwind" /\ q < Len(callers) /\ frame' = fs[q + 1]
            /\ isRegs' <=> RegsAt(callers, q + 1)
         \/ pc' \in {"unwind", "flush"} /\ Ends(callers[q])
         \/ pc' = "flush" /\ q = Len(callers)
  PROVE  IInv'
<1> DEFINE l == Len(printed)
<1>1. /\ q \in 1..Len(callers) /\ l \in Nat /\ Skipped \in {0, 1}
      /\ Len(callers) \in Nat /\ Len(truth) \in Nat
      /\ DOMAIN truth = 1..Len(truth) /\ DOMAIN printed = 1..l
      /\ q = l + 1 + Skipped /\ Len(truth) = Len(callers) - Skipped
      /\ l + 1 \in 1..Len(truth) /\ truth[l + 1] = callers[q]
  BY AtPosition
<1>2. Backed(fs, mem, fp, callers)
  BY DEF ChainIs
<1>3. Shapes /\ SymbolsTrue /\ LinesTrue
  BY DEF IInv
<1>4. /\ printed' \in Seq({printed'[i] : i \in DOMAIN printed'})
      /\ \A i \in DOMAIN printed : printed'[i] = printed[i]
      /\ \A i \in DOMAIN printed' : i \in DOMAIN printed \/
            /\ i = l + 1
            /\ printed'[i].at = callers[q] /\ printed'[i].name = LookupAddress(symtab, callers[q])
  <2> DEFINE ra == callers[q]
  <2>1. printed' \in {printed, Append(printed, [at |-> ra, name |-> LookupAddress(symtab, ra)])}
    OBVIOUS
  <2> HIDE DEF ra
  <2> QED BY <2>1, Lines DEF ra
<1>5. Len(printed') = l + 1
  <2> DEFINE S == {printed[i] : i \in DOMAIN printed}
  <2>1. printed \in Seq(S)
    BY <1>3 DEF Shapes
  <2> HIDE DEF S
  <2> QED BY <2>1
<1>6. Shapes'
  <2>1. pc' \in {"unwind", "flush"} /\ sp = fp
    BY <1>3 DEF Shapes
  <2> QED BY <1>3, <1>4, <2>1 DEF Shapes
<1>7. Skipped' = Skipped /\ Position' = q + 1
  BY <1>1, <1>5 DEF Skipped, Position
<1>8. LinesTrue'
  <2>1. \A i \in DOMAIN printed' : printed'[i].name = LookupAddress(symtab, printed'[i].at)
    BY <1>3, <1>4 DEF LinesTrue
  <2>2. ASSUME NEW i \in DOMAIN printed', Reliable(i)
        PROVE  i \in DOMAIN truth /\ printed'[i].at = truth[i]
    <3>1. CASE i \in DOMAIN printed
      BY <1>3, <1>4, <2>2, <3>1 DEF LinesTrue
    <3>2. CASE i = l + 1 /\ printed'[i].at = callers[q]
      BY <1>1, <3>2
    <3> QED BY <1>4, <3>1, <3>2
  <2>3. \A i : Reliable(i)' <=> Reliable(i)
    BY DEF Reliable
  <2> QED BY <2>1, <2>2, <2>3 DEF LinesTrue
<1>9. Told'
  <2>1. CASE q = Len(callers)
    <3>1. l + 1 = Len(truth)
      BY <1>1, <2>1
    <3> QED BY <1>1, <1>5, <3>1 DEF Told
  <2>2. CASE Ends(callers[q])
    <3>1. l + 1 \in DOMAIN truth /\ Ends(truth[l + 1])
      BY <1>1, <2>2
    <3> QED BY <1>5, <3>1 DEF Told, Reliable
  <2>3. CASE pc' = "unwind"
    BY <2>3 DEF Told
  <2> QED BY <2>1, <2>2, <2>3
<1>10. pc' = "unwind" => Beyond' \/ OnTrack(fs)'
  <2>1. CASE Ends(callers[q])
    <3>1. l + 1 \in DOMAIN truth /\ Ends(truth[l + 1]) /\ l + 1 <= Len(printed')
      BY <1>1, <1>5, <2>1
    <3> QED BY <3>1 DEF Beyond
  <2>2. CASE q < Len(callers) /\ frame' = fs[q + 1] /\ (isRegs' <=> RegsAt(callers, q + 1))
    <3>1. q + 1 <= Len(callers)
      BY <1>1, <2>2
    <3>2. Skipped \in {0, 1} /\ \A i \in DOMAIN truth : truth[i] = callers[i + Skipped]
      BY DEF OnTrack
    <3>3. Skipped' \in {0, 1} /\ \A i \in DOMAIN truth' : truth'[i] = callers'[i + Skipped']
      BY <1>7, <3>2
    <3>4. Position' <= Len(callers')
      BY <1>7, <3>1
    <3>5. frame' = fs[Position'] /\ (isRegs' <=> RegsAt(callers, Position'))
      BY <1>7, <2>2
    <3>6. RegsAt(callers, Position)' <=> RegsAt(callers, Position')
      BY DEF RegsAt
    <3> QED BY <3>3, <3>4, <3>5, <3>6 DEF OnTrack
  <2>3. CASE pc' = "flush"
    BY <2>3
  <2> QED BY <2>1, <2>2, <2>3
<1>11. ChainIs(fs)'
  BY <1>2, <1>10 DEF ChainIs
<1> QED BY <1>3, <1>6, <1>8, <1>9, <1>11, SymbolsKept DEF IInv, Chain

\* Once the line is there after which no line can be relied upon, the unwinder
\* may go anywhere.
LEMMA BeyondKeeps ==
  ASSUME IInv, UnwindStep, Beyond
  PROVE  IInv'
<1>1. PICK fs : Backed(fs, mem, fp, callers)
  BY SomeFrames
<1>2. Shapes /\ SymbolsTrue /\ LinesTrue
  BY DEF IInv
<1>3. /\ pc = "unwind" /\ UNCHANGED <<mem, sp, fp, callers, archive, withAsserts, symtab, truth>>
      /\ pc' \in {"unwind", "flush", "bug"}
  BY DEF UnwindStep
<1> DEFINE ra == At(IpWord(frame, isRegs))
           l == Len(printed)
<1>4. printed' \in {printed, Append(printed, [at |-> ra, name |-> LookupAddress(symtab, ra)])}
  BY DEF UnwindStep, Report
<1> HIDE DEF ra
<1>5. /\ printed' \in Seq({printed'[i] : i \in DOMAIN printed'})
      /\ l \in Nat /\ DOMAIN printed = 1..l /\ Len(printed') \in {l, l + 1}
      /\ \A i \in DOMAIN printed : printed'[i] = printed[i]
      /\ \A i \in DOMAIN printed' : i \in DOMAIN printed \/
            /\ i = l + 1
            /\ printed'[i].at = ra /\ printed'[i].name = LookupAddress(symtab, ra)
  BY <1>3, <1>4, Lines
<1>6. PICK k \in DOMAIN truth : k <= l /\ Ends(truth[k])
  BY DEF Beyond
<1>7. k \in Int
  <2>1. truth \in Seq(Addresses)
    BY <1>2 DEF Shapes
  <2> QED BY <2>1
<1> HIDE DEF l
<1>8. Shapes'
  <2>1. sp = fp
    BY <1>2, <1>3 DEF Shapes
  <2> QED BY <1>2, <1>3, <1>5, <2>1 DEF Shapes
<1>9. \A i : Reliable(i)' <=> Reliable(i)
  BY <1>3 DEF Reliable
<1>10. ~Reliable(l + 1)
  BY <1>5, <1>6, <1>7 DEF Reliable
<1>11. LinesTrue'
  <2>1. \A i \in DOMAIN printed' : printed'[i].name = LookupAddress(symtab, printed'[i].at)
    BY <1>2, <1>5 DEF LinesTrue
  <2>2. ASSUME NEW i \in DOMAIN printed', Reliable(i)
        PROVE  i \in DOMAIN truth /\ printed'[i].at = truth[i]
    BY <1>2, <1>5, <1>10, <2>2 DEF LinesTrue
  <2> QED BY <1>3, <1>9, <2>1, <2>2 DEF LinesTrue
<1>12. k <= Len(printed')
  BY <1>5, <1>6, <1>7
<1>13. Told'
  <2>1. ASSUME NEW i \in DOMAIN truth, Reliable(i) PROVE i <= Len(printed')
    <3>1. i <= k /\ i \in Int
      <4>1. truth \in Seq(Addresses)
        BY <1>2 DEF Shapes
      <4> QED BY <1>6, <2>1, <4>1 DEF Reliable
    <3>2. Len(printed') \in Int
      BY <1>5
    <3> QED BY <1>7, <1>12, <3>1, <3>2
  <2> QED BY <1>3, <1>9, <2>1 DEF Told
<1>14. Beyond'
  BY <1>3, <1>6, <1>12 DEF Beyond
<1>15. ChainIs(fs)'
  BY <1>1, <1>3, <1>14 DEF ChainIs
<1> QED BY <1>2, <1>3, <1>8, <1>11, <1>13, <1>15, SymbolsKept DEF IInv, Chain

\* Where the frames and registers of the call lie that the report is at.
LEMMA FrameThere ==
  ASSUME IInv, NEW fs, ChainIs(fs), OnTrack(fs), NEW q, q = Position
  PROVE  /\ q \in 1..Len(callers) /\ Len(callers) \in Nat
         /\ frame = fs[q] /\ fs[q] \in Stack /\ fs[q] + 1 \in Stack
         /\ isRegs <=> RegsAt(callers, q)
         /\ isRegs => q < Len(callers) /\ RegsLie(fs, mem, callers, q) /\ fs[q] + 2 \in Stack /\ fs[q] + 3 \in Stack
         /\ q < Len(callers) /\ ~isRegs => FrameLies(fs, mem, callers, q)
         /\ q < Len(callers) => fs[q + 1] \in Stack
<1>1. q \in 1..Len(callers) /\ Len(callers) \in Nat /\ Len(callers) >= 1 /\ 1 \in 1..Len(callers)
  BY AtPosition
<1>2. fs \in [1..Len(callers) -> Int] /\ fs[1] = fp /\ Links(fs, mem, callers)
  BY DEF ChainIs, Backed
<1>3. frame = fs[q] /\ (isRegs <=> RegsAt(callers, q))
  BY DEF OnTrack
<1>4. fp >= StackBase /\ fp \in Int /\ StackBase \in Int /\ StackEnd \in Int
  BY Layout DEF IInv, Shapes
<1>5. /\ \A i \in 1..Len(callers) : fs[1] <= fs[i] /\ fs[i] + 1 < StackEnd
      /\ \A i \in 1..Len(callers) : i < Len(callers) /\ RegsLie(fs, mem, callers, i) => fs[i] + 5 < StackEnd
  BY <1>1, <1>2, LinksBounds
<1>6. \A i \in 1..Len(callers) : fs[i] \in Stack
  <2>1. \A i \in 1..Len(callers) : fs[i] \in Int
    BY <1>2
  <2> QED BY <1>2, <1>4, <1>5, <2>1 DEF Stack
<1>7. fs[q] \in Int /\ fp <= fs[q] /\ fs[q] + 1 < StackEnd
  BY <1>1, <1>2, <1>5
<1>8. fs[q] + 1 \in Stack
  BY <1>4, <1>7 DEF Stack
<1>9. q < Len(callers) => q \in 1..(Len(callers) - 1) /\ q + 1 \in 1..Len(callers)
  BY <1>1
<1>10. isRegs => q < Len(callers)
  <2>1. ~RegsAt(callers, Len(callers))
    BY <1>2 DEF Links
  <2>2. isRegs => q # Len(callers)
    BY <1>3, <2>1
  <2> QED BY <1>1, <2>2
<1>11. q < Len(callers) => IF isRegs THEN RegsLie(fs, mem, callers, q) ELSE FrameLies(fs, mem, callers, q)
  BY <1>2, <1>3, <1>9 DEF Links
<1>12. isRegs => fs[q] + 2 \in Stack /\ fs[q] + 3 \in Stack
  <2>1. isRegs => fs[q] + 5 < StackEnd
    BY <1>1, <1>5, <1>10, <1>11
  <2> QED BY <1>4, <1>7, <2>1 DEF Stack
<1> QED BY <1>1, <1>3, <1>6, <1>8, <1>9, <1>10, <1>11, <1>12

\* What one turn does, when the words it looks at are on the stack.
LEMMA Turn ==
  ASSUME UnwindStep, ~(Len(printed) > Len(truth)), NEW ra, NEW next, NEW at,
         Mapped(IpWord(frame, isRegs)), ra = At(IpWord(frame, isRegs)),
         isRegs => At(CsWord(frame)) = KernelCs,
         at = IF isRegs THEN FpWord(frame)
              ELSE IF NextFrameIsRegs(ra) THEN LastArgumentWord(frame) ELSE OldFrameWord(frame),
         Mapped(at), next = At(at)
  PROVE  /\ isRegs' = (~isRegs /\ NextFrameIsRegs(ra)) /\ frame' = next
         /\ printed' = Append(printed, [at |-> ra, name |-> LookupAddress(symtab, ra)])
         /\ pc' = IF Valid(ra, next) THEN "unwind" ELSE "flush"
         /\ UNCHANGED <<mem, sp, fp, callers, archive, withAsserts, symtab, truth>>
<1>1. (IF isRegs THEN Privilege(At(CsWord(frame))) ELSE "kernel") = "kernel"
  BY DEF Privilege
<1> QED BY <1>1 DEF UnwindStep, Report

LEMMA OnTrackKeeps ==
  ASSUME IInv, UnwindStep, NEW fs, ChainIs(fs), OnTrack(fs)
  PROVE  IInv'
<1>2. pc = "unwind" /\ UNCHANGED <<mem, sp, fp, callers, archive, withAsserts, symtab, truth>>
  BY DEF UnwindStep
<1> DEFINE q == Position
           n == Len(callers)
<1>3. /\ q \in 1..n /\ n \in Nat /\ frame = fs[q] /\ fs[q] \in Stack /\ fs[q] + 1 \in Stack
      /\ isRegs <=> RegsAt(callers, q)
      /\ isRegs => q < n /\ RegsLie(fs, mem, callers, q) /\ fs[q] + 2 \in Stack /\ fs[q] + 3 \in Stack
      /\ q < n /\ ~isRegs => FrameLies(fs, mem, callers, q)
      /\ q < n => fs[q + 1] \in Stack
  BY FrameThere
<1>4. /\ fs \in [1..n -> Int] /\ Links(fs, mem, callers) /\ callers \in Seq(Addresses)
      /\ SymbolsTrue
  BY SomeFrames DEF ChainIs, Backed, Shapes
<1> HIDE DEF q, n
<1>5. ~(Len(printed) > Len(truth))
  <2>1. Len(printed) \in Nat /\ Len(truth) \in Nat /\ Len(printed) + 1 \in 1..Len(truth)
    BY AtPosition
  <2> QED BY <2>1
<1>6. q + 1 > 1 /\ (q + 1) - 1 = q
  BY <1>3
<1>7. \A a \in Stack : a >= StackBase /\ a < StackEnd
  BY Layout DEF Stack
<1>8. CASE isRegs
  <2> DEFINE next == fs[q + 1]
             ra == callers[q]
             at == FpWord(frame)
  <2>1. /\ q < n /\ next \in Stack /\ mem[fs[q] + 1] = next /\ mem[fs[q] + 2] = callers[q]
        /\ mem[fs[q] + 3] = KernelCs /\ callers[q] \in CallSites \cup WildTargets
    BY <1>3, <1>8 DEF RegsLie
  <2>2. callers[q] \notin RegSites
    BY <2>1, Layout
  <2> HIDE DEF next
  <2>3. /\ Mapped(IpWord(frame, isRegs)) /\ callers[q] = At(IpWord(frame, isRegs))
        /\ At(CsWord(frame)) = KernelCs /\ Mapped(FpWord(frame)) /\ next = At(FpWord(frame))
    BY <1>3, <1>8, <2>1 DEF Mapped, IpWord, At, CsWord, FpWord
  <2>4. at = IF isRegs THEN FpWord(frame)
             ELSE IF NextFrameIsRegs(ra) THEN LastArgumentWord(frame) ELSE OldFrameWord(frame)
    BY <1>8
  <2>5. Mapped(at) /\ next = At(at) /\ ra = At(IpWord(frame, isRegs))
    BY <2>3
  <2> HIDE DEF ra, at
  <2>6. /\ isRegs' = (~isRegs /\ NextFrameIsRegs(ra)) /\ frame' = next
        /\ printed' = Append(printed, [at |-> ra, name |-> LookupAddress(symtab, ra)])
        /\ pc' = IF Valid(ra, next) THEN "unwind" ELSE "flush"
    BY <1>5, <2>3, <2>4, <2>5, Turn
  <2>7. ~RegsAt(callers, q + 1)
    BY <1>6, <2>2 DEF RegsAt
  <2>8. Valid(ra, next) \/ Ends(ra)
    <3>1. ra \in Nat /\ VirtStart \in Nat
      BY <2>1, Layout DEF ra
    <3> QED BY <1>7, <2>1, <3>1 DEF Valid, Ends
  <2>9. CASE Valid(ra, next)
    BY <1>2, <1>8, <2>1, <2>6, <2>7, <2>9, LineKeeps DEF q, n, next, ra
  <2>10. CASE ~Valid(ra, next)
    BY <1>2, <2>6, <2>8, <2>10, LineKeeps DEF q, ra
  <2> QED BY <2>9, <2>10
<1>9. CASE ~isRegs /\ q < n /\ callers[q] \in CallSites
  <2> DEFINE next == fs[q + 1]
  <2>1. next \in Stack /\ mem[fs[q]] = next /\ mem[fs[q] + 1] = callers[q]
    BY <1>3, <1>9 DEF FrameLies
  <2>2. callers[q] \notin RegSites
    BY <1>9, Layout
  <2> HIDE DEF next
  <2>3. /\ Mapped(IpWord(frame, isRegs)) /\ callers[q] = At(IpWord(frame, isRegs))
        /\ Mapped(OldFrameWord(frame)) /\ next = At(OldFrameWord(frame))
        /\ ~NextFrameIsRegs(callers[q])
    BY <1>3, <1>9, <2>1, <2>2 DEF Mapped, IpWord, At, OldFrameWord, NextFrameIsRegs, RegSites
  <2>4. Valid(callers[q], next)
    <3>1. callers[q] > VirtStart
      BY <1>9, Layout
    <3> QED BY <1>7, <2>1, <3>1 DEF Valid
  <2>5. /\ isRegs' = FALSE /\ frame' = next /\ pc' = "unwind"
        /\ printed' = Append(printed, [at |-> callers[q], name |-> LookupAddress(symtab, callers[q])])
    <3> DEFINE ra == callers[q]
               at == OldFrameWord(frame)
    <3>1. at = IF isRegs THEN FpWord(frame)
               ELSE IF NextFrameIsRegs(ra) THEN LastArgumentWord(frame) ELSE OldFrameWord(frame)
      BY <1>9, <2>3
    <3>2. Mapped(at) /\ next = At(at) /\ ra = At(IpWord(frame, isRegs)) /\ Valid(ra, next) /\ ~NextFrameIsRegs(ra)
      BY <2>3, <2>4
    <3> HIDE DEF ra, at
    <3>3. /\ isRegs' = (~isRegs /\ NextFrameIsRegs(ra)) /\ frame' = next
          /\ printed' = Append(printed, [at |-> ra, name |-> LookupAddress(symtab, ra)])
          /\ pc' = IF Valid(ra, next) THEN "unwind" ELSE "flush"
      BY <1>5, <1>9, <2>3, <3>1, <3>2, Turn
    <3> QED BY <3>2, <3>3 DEF ra
  <2>6. ~RegsAt(callers, q + 1)
    BY <1>6, <2>2 DEF RegsAt
  <2> QED BY <1>2, <1>9, <2>5, <2>6, LineKeeps DEF q, n, next
<1>10. CASE ~isRegs /\ q < n /\ callers[q] \in RegSites
  <2> DEFINE next == mem[fs[q] + 2]
  <2>1. fs[q + 1] = fs[q] + 2 /\ mem[fs[q] + 1] = callers[q] /\ q + 2 <= n
    BY <1>3, <1>10, Words DEF FrameLies, n
  <2>2. q + 1 \in 1..(n - 1)
    BY <1>3, <2>1
  <2>3. RegsAt(callers, q + 1)
    BY <1>6, <1>10 DEF RegsAt
  <2>4. RegsLie(fs, mem, callers, q + 1)
    BY <1>4, <2>2, <2>3 DEF Links, n
  <2>5. next \in R15Values /\ fs[q] + 2 \in Stack
    BY <1>3, <1>10, <2>1, <2>4 DEF RegsLie
  <2> HIDE DEF next
  <2>7. /\ Mapped(IpWord(frame, isRegs)) /\ callers[q] = At(IpWord(frame, isRegs))
        /\ Mapped(LastArgumentWord(frame)) /\ next = At(LastArgumentWord(frame))
        /\ NextFrameIsRegs(callers[q])
    BY <1>3, <1>10, <2>1, <2>5 DEF Mapped, IpWord, At, LastArgumentWord, NextFrameIsRegs, RegSites, next
  <2>8. /\ pc' \in {"unwind", "flush"}
        /\ printed' = Append(printed, [at |-> callers[q], name |-> LookupAddress(symtab, callers[q])])
    <3> DEFINE ra == callers[q]
               at == LastArgumentWord(frame)
    <3>1. at = IF isRegs THEN FpWord(frame)
               ELSE IF NextFrameIsRegs(ra) THEN LastArgumentWord(frame) ELSE OldFrameWord(frame)
      BY <1>10, <2>7
    <3>2. Mapped(at) /\ next = At(at) /\ ra = At(IpWord(frame, isRegs))
      BY <2>7
    <3> HIDE DEF ra, at
    <3>3. /\ isRegs' = (~isRegs /\ NextFrameIsRegs(ra)) /\ frame' = next
          /\ printed' = Append(printed, [at |-> ra, name |-> LookupAddress(symtab, ra)])
          /\ pc' = IF Valid(ra, next) THEN "unwind" ELSE "flush"
      BY <1>5, <1>10, <2>7, <3>1, <3>2, Turn
    <3> QED BY <3>3 DEF ra
  <2>9. Ends(callers[q])
    BY <1>10 DEF Ends
  <2> QED BY <1>2, <2>8, <2>9, LineKeeps DEF q
<1>11. CASE ~isRegs /\ q = n
  <2>1. callers[q] = StartSite /\ mem[fs[q]] = 0 /\ mem[fs[q] + 1] = StartSite
    BY <1>4, <1>11 DEF Links, n
  <2>2. ~NextFrameIsRegs(callers[q])
    BY <2>1, Layout DEF NextFrameIsRegs, RegSites
  <2>3. /\ Mapped(IpWord(frame, isRegs)) /\ callers[q] = At(IpWord(frame, isRegs))
        /\ Mapped(OldFrameWord(frame)) /\ 0 = At(OldFrameWord(frame))
    BY <1>3, <1>11, <2>1 DEF Mapped, IpWord, At, OldFrameWord
  <2>4. ~Valid(callers[q], 0)
    BY Layout DEF Valid
  <2>5. /\ pc' = "flush"
        /\ printed' = Append(printed, [at |-> callers[q], name |-> LookupAddress(symtab, callers[q])])
    <3> DEFINE ra == callers[q]
               at == OldFrameWord(frame)
               next == 0
    <3>1. at = IF isRegs THEN FpWord(frame)
               ELSE IF NextFrameIsRegs(ra) THEN LastArgumentWord(frame) ELSE OldFrameWord(frame)
      BY <1>11, <2>2
    <3>2. Mapped(at) /\ next = At(at) /\ ra = At(IpWord(frame, isRegs)) /\ ~Valid(ra, next)
      BY <2>3, <2>4
    <3> HIDE DEF ra, at, next
    <3>3. /\ isRegs' = (~isRegs /\ NextFrameIsRegs(ra)) /\ frame' = next
          /\ printed' = Append(printed, [at |-> ra, name |-> LookupAddress(symtab, ra)])
          /\ pc' = IF Valid(ra, next) THEN "unwind" ELSE "flush"
      BY <1>5, <1>11, <2>3, <3>1, <3>2, Turn
    <3> QED BY <3>2, <3>3 DEF ra
  <2> QED BY <1>2, <1>11, <2>5, LineKeeps DEF q, n
<1>12. q < n /\ ~isRegs => callers[q] \in CallSites \cup RegSites
  BY <1>3 DEF FrameLies
<1>13. q < n \/ q = n
  BY <1>3
<1> QED BY <1>3, <1>8, <1>9, <1>10, <1>11, <1>12, <1>13

LEMMA UnwindKeeps ==
  ASSUME IInv, UnwindStep
  PROVE  IInv'
<1>1. PICK fs : ChainIs(fs)
  BY SomeFrames
<1>2. pc = "unwind"
  BY DEF UnwindStep
<1>3. Beyond \/ OnTrack(fs)
  BY <1>1, <1>2 DEF ChainIs
<1> QED BY <1>1, <1>3, BeyondKeeps, OnTrackKeeps

LEMMA ShutdownKeeps ==
  ASSUME IInv, Shutdown
  PROVE  IInv'
<1>1. PICK fs : ChainIs(fs)
  BY SomeFrames
<1>2. /\ pc = "flush" /\ pc' = "off"
      /\ UNCHANGED <<mem, sp, fp, callers, archive, withAsserts, symtab, frame, isRegs, regs, printed, truth>>
  BY DEF Shutdown, unwinding
<1>3. Shapes'
  <2>1. Shapes /\ sp = fp
    BY <1>2 DEF IInv, Shapes
  <2> QED BY <1>2, <2>1 DEF Shapes
<1>4. LinesTrue' /\ Told'
  <2>1. LinesTrue /\ Told
    BY DEF IInv
  <2>2. \A i : Reliable(i)' <=> Reliable(i)
    BY <1>2 DEF Reliable
  <2> QED BY <1>2, <2>1, <2>2 DEF LinesTrue, Told
<1>5. ChainIs(fs)'
  BY <1>1, <1>2 DEF ChainIs
<1> QED BY <1>2, <1>3, <1>4, <1>5, SymbolsKept DEF IInv, Chain

(****************************************************************************)
(* The backtrace is true.                                                   *)
(****************************************************************************)
\* The stack has room for one exception and its report.
RoomForReport == StackSize >= FrameWords + Reserve

LEMMA InitKeeps ==
  ASSUME RoomForReport, Init
  PROVE  IInv
<1> DEFINE fs == [i \in 1..1 |-> StackEnd - FrameWords]
<1>1. /\ StackEnd \in Int /\ StackBase \in Int /\ StackEnd - FrameWords - Reserve >= StackBase
      /\ StartSite \in Int /\ StartSite \in CodeAddresses
  BY Layout, Words DEF RoomForReport
<1>2. StackEnd - FrameWords \in Stack /\ StackEnd - 1 \in Stack /\ StackEnd - FrameWords # StackEnd - 1
      /\ (StackEnd - FrameWords) + 1 = StackEnd - 1
  BY <1>1, Words DEF Stack
<1>3. mem \in [Stack -> Int] /\ mem[StackEnd - FrameWords] = 0 /\ mem[(StackEnd - FrameWords) + 1] = StartSite
  <2>1. mem = [a \in Stack |-> IF a = StackEnd - 1 THEN StartSite ELSE 0]
    BY DEF Init
  <2>2. mem \in [Stack -> Int]
    BY <1>1, <2>1
  <2> QED BY <1>2, <2>1, <2>2
<1>4. callers \in Seq(Addresses) /\ callers # <<>> /\ Len(callers) = 1 /\ callers[1] = StartSite
  <2>1. callers = <<StartSite>> /\ StartSite \in Addresses
    BY Layout DEF Init
  <2> QED BY <2>1
<1>5. /\ fp = StackEnd - FrameWords /\ sp = fp /\ pc = "running" /\ printed = <<>> /\ truth = <<>>
      /\ archive \in Archives /\ symtab = NoSymbols
  BY DEF Init
<1>6. Shapes
  <2>1. fp \in Int /\ sp \in Int /\ sp >= StackBase /\ sp - Reserve >= StackBase
    BY <1>1, <1>5, Words
  <2>2. printed \in Seq({printed[i] : i \in DOMAIN printed}) /\ truth \in Seq(Addresses)
    BY <1>5
  <2> QED BY <1>3, <1>4, <1>5, <2>1, <2>2 DEF Shapes
<1>7. fs \in [1..1 -> Int] /\ fs[1] = StackEnd - FrameWords
  BY <1>1, Words
<1> HIDE DEF fs
<1>8. Links(fs, mem, callers)
  <2>1. \A i \in 1..1 : i = 1
    OBVIOUS
  <2>2. ~RegsAt(callers, 1)
    BY DEF RegsAt
  <2>3. 1..(1 - 1) = {}
    OBVIOUS
  <2>4. \A i \in 1..1 : fs[1] <= fs[i] /\ fs[i] <= StackEnd - FrameWords
    BY <1>1, <1>7, <2>1, Words
  <2> QED BY <1>3, <1>4, <1>7, <2>2, <2>3, <2>4 DEF Links
<1>9. Backed(fs, mem, fp, callers)
  BY <1>4, <1>5, <1>7, <1>8 DEF Backed
<1>10. ChainIs(fs)
  BY <1>5, <1>9 DEF ChainIs
<1>11. DOMAIN printed = {}
  BY <1>5
<1>12. LinesTrue /\ Told
  BY <1>5, <1>11 DEF LinesTrue, Told
<1> QED BY <1>5, <1>6, <1>10, <1>12 DEF IInv, SymbolsTrue, Chain

LEMMA NextKeeps ==
  ASSUME IInv, [Next]_vars
  PROVE  IInv'
<1>1. CASE Running
  BY <1>1, CallKeeps, EnterKeeps, LeaveInv, ReturnInv, EventKeeps, EventReturnInv DEF Running
<1>2. CASE Fatal
  BY <1>2, DebugInitKeeps, FatalKeeps DEF Fatal
<1>3. CASE Dying
  BY <1>3, FatalKeeps, DebugExitKeeps, UnwindKeeps, ShutdownKeeps DEF Dying
<1>4. CASE UNCHANGED vars
  <2>1. UNCHANGED <<mem, sp, fp, callers, archive, withAsserts, symtab, pc, regs, frame, isRegs, printed, truth>>
    BY <1>4 DEF vars
  <2>2. SymbolsTrue' /\ Shapes'
    BY <2>1, SymbolsKept DEF IInv, Shapes
  <2>3. PICK fs : ChainIs(fs)
    BY SomeFrames
  <2>4. Skipped' = Skipped /\ Position' = Position
    BY <2>1 DEF Skipped, Position
  <2>5. (OnTrack(fs)' <=> OnTrack(fs)) /\ (Beyond' <=> Beyond)
    BY <2>1, <2>4 DEF OnTrack, Beyond
  <2>6. ChainIs(fs)'
    BY <2>1, <2>3, <2>5 DEF ChainIs
  <2>7. \A i : Reliable(i)' <=> Reliable(i)
    BY <2>1 DEF Reliable
  <2>8. LinesTrue' /\ Told'
    BY <2>1, <2>7 DEF IInv, LinesTrue, Told
  <2> QED BY <2>2, <2>6, <2>8 DEF IInv, Chain
<1> QED BY <1>1, <1>2, <1>3, <1>4 DEF Next

\* The name of a line is that of a symbol of the file.
LEMMA NamesTrue ==
  ASSUME SymbolsTrue, NEW address, LookupAddress(symtab, address) # "unknown"
  PROVE  \E j \in DOMAIN archive :
           /\ archive[j].name = "ethos.elf" /\ Vouched(archive[j].elf)
           /\ \E k \in DOMAIN archive[j].elf.symbols :
                LET symbol == archive[j].elf.symbols[k] IN
                symbol.name = LookupAddress(symtab, address) /\ Contains(symbol, address)
<1>1. symtab # NoSymbols
  <2>1. SUFFICES ASSUME symtab = <<>> PROVE FALSE
    BY DEF NoSymbols
  <2>2. {i \in DOMAIN symtab : Contains(symtab[i], address)} = {}
    BY <2>1
  <2> QED BY <2>2 DEF LookupAddress
<1>2. PICK j \in DOMAIN archive :
        /\ archive[j].name = "ethos.elf" /\ Vouched(archive[j].elf)
        /\ symtab = archive[j].elf.symbols
        /\ symtab \in Seq({symtab[k] : k \in DOMAIN symtab})
  BY <1>1 DEF SymbolsTrue
<1> DEFINE S == {symtab[k] : k \in DOMAIN symtab}
<1>3. symtab \in Seq(S)
  BY <1>2
<1> HIDE DEF S
<1>4. \E k \in DOMAIN symtab : symtab[k].name = LookupAddress(symtab, address) /\ Contains(symtab[k], address)
  BY <1>3, LooksUp
<1> QED BY <1>2, <1>4

LEMMA InvTrue ==
  ASSUME IInv
  PROVE  BacktraceTrue
<1>1. SymbolsTrue /\ Shapes /\ LinesTrue /\ Told
  BY DEF IInv
<1>2. \A i \in DOMAIN printed : Reliable(i) => i \in DOMAIN truth /\ printed[i].at = truth[i]
  BY <1>1 DEF LinesTrue
<1>3. pc = "off" => \A i \in DOMAIN truth : Reliable(i) => i \in DOMAIN printed
  <2>1. DOMAIN printed = 1..Len(printed) /\ DOMAIN truth = 1..Len(truth)
        /\ Len(truth) \in Nat /\ Len(printed) \in Nat
    BY <1>1 DEF Shapes
  <2>2. \A i \in 1..Len(truth) : i <= Len(printed) => i \in 1..Len(printed)
    BY <2>1
  <2> QED BY <1>1, <2>1, <2>2 DEF Told
<1>4. ASSUME NEW i \in DOMAIN printed, printed[i].name # "unknown"
      PROVE  \E j \in DOMAIN archive :
               /\ archive[j].name = "ethos.elf" /\ Vouched(archive[j].elf)
               /\ \E k \in DOMAIN archive[j].elf.symbols :
                    LET symbol == archive[j].elf.symbols[k] IN
                    symbol.name = printed[i].name /\ Contains(symbol, printed[i].at)
  <2> DEFINE a == printed[i].at
  <2>1. printed[i].name = LookupAddress(symtab, a)
    BY <1>1 DEF LinesTrue
  <2>2. LookupAddress(symtab, a) # "unknown"
    BY <1>4, <2>1
  <2> HIDE DEF a
  <2>3. \E j \in DOMAIN archive :
          /\ archive[j].name = "ethos.elf" /\ Vouched(archive[j].elf)
          /\ \E k \in DOMAIN archive[j].elf.symbols :
               LET symbol == archive[j].elf.symbols[k] IN
               symbol.name = LookupAddress(symtab, a) /\ Contains(symbol, a)
    BY <1>1, <2>2, NamesTrue
  <2> QED BY <2>1, <2>3 DEF a
<1> QED BY <1>2, <1>3, <1>4 DEF BacktraceTrue

\* Whatever the kernel did before it died - however deep its calls, in an event
\* or not, between a call and its frame, through a bad pointer, by a trap or an
\* assertion - whatever was in its registers and whatever store it was started
\* with: up to the line of an event or exception, the one that has the unwinder
\* take r15 for an address, each line of the report is of the next active call,
\* none left out, and the report is made at least that far before the domain is
\* shut down; the name of every line is that of a symbol that contains its
\* address, of a file whose version begins with this one - in a build without
\* assertions, but for a file whose section table lies out of its bounds
\* (debugUnwind, debugLookupAddress, _debugFindSymbols).
THEOREM BacktraceIsTrue ==
  ASSUME RoomForReport
  PROVE  Spec => []BacktraceTrue
<1>1. Init => IInv
  BY InitKeeps
<1>2. IInv /\ [Next]_vars => IInv'
  BY NextKeeps
<1>3. IInv => BacktraceTrue
  BY InvTrue
<1> QED BY <1>1, <1>2, <1>3, PTL DEF Spec

----------------------------------------------------------------------------
(* The handle table                                                         *)

\* The counter never exceeds the number of slots, and the search of
\* handleAllocate runs only in a table at most half full.
UsedFits == /\ used <= size
            /\ ~Idle => 2 * used <= size

\* The inductive invariant: SlotsMatchHeld ties each slot to the handle that is
\* in it, UsedCountsHeld ties the counter to the handles, and UsedFits is what
\* the test at the entry of handleAllocate leaves behind.
IndInv == TypeOK /\ SlotsMatchHeld /\ UsedCountsHeld /\ UsedFits

USE MinSizeAssumption, NoRefAssumption, ShortModAssumption, MaxHandleAssumption

\* A handle selects one of the slots of the table.
LEMMA SlotOfHandle ==
  ASSUME NEW h \in Nat, NEW n \in Nat \ {0}
  PROVE  h % n \in Slots(n)
BY DEF Slots

\* Finitely many handles are in use.
LEMMA HeldFinite ==
  ASSUME TypeOK
  PROVE  IsFiniteSet(DOMAIN held)
<1>1. 1 \in Int /\ lastAllocated \in Int
  BY DEF TypeOK
<1>2. IsFiniteSet(1 .. lastAllocated)
  BY <1>1, FS_Interval
<1>3. DOMAIN held \in SUBSET (1 .. lastAllocated)
  BY DEF TypeOK
<1> QED BY <1>2, <1>3, FS_Subset

\* The slot copied last into slot j of the new array is a slot of the old one
\* and holds a handle that belongs in slot j.
LEMMA RegrownSlots ==
  ASSUME TypeOK
  PROVE  /\ Regrown \in [Slots(2 * size) -> Slot]
         /\ \A j \in Slots(2 * size) :
              \/ Regrown[j] = Empty
              \/ \E i \in Slots(size) :
                   /\ Regrown[j] = entry[i]
                   /\ entry[i].handleId % (2 * size) = j
<1>1. Empty \in Slot
  BY DEF Empty, Slot
<1>2. ASSUME NEW j \in Slots(2 * size)
      PROVE  /\ Regrown[j] \in Slot
             /\ \/ Regrown[j] = Empty
                \/ \E i \in Slots(size) :
                     /\ Regrown[j] = entry[i]
                     /\ entry[i].handleId % (2 * size) = j
  <2>1. CASE LastInto(j) = {}
    BY <1>1, <2>1 DEF Regrown
  <2>2. CASE LastInto(j) # {}
    <3>1. PICK i \in LastInto(j) : i = CHOOSE k \in LastInto(j) : TRUE
      BY <2>2
    <3>2. Regrown[j] = entry[i]
      BY <2>2, <3>1 DEF Regrown
    <3>3. i \in Slots(size) /\ entry[i].handleId % (2 * size) = j
      BY DEF LastInto
    <3> QED BY <3>2, <3>3 DEF TypeOK
  <2> QED BY <2>1, <2>2
<1>3. Regrown = [j \in Slots(2 * size) |-> Regrown[j]]
  BY DEF Regrown
<1> QED BY <1>2, <1>3

\* handleTableInit establishes the invariant.
LEMMA InitInv == TableInit => IndInv
<1> SUFFICES ASSUME TableInit PROVE IndInv
  OBVIOUS
<1> USE DEF TableInit
<1>1. DOMAIN held = {}
  OBVIOUS
<1>2. TypeOK
  BY <1>1 DEF TypeOK, Slot, Empty, Status, RetType, Slots
<1>3. SlotsMatchHeld
  BY DEF SlotsMatchHeld, Empty
<1>4. UsedCountsHeld
  BY <1>1, FS_EmptySet DEF UsedCountsHeld
<1> QED BY <1>2, <1>3, <1>4 DEF IndInv, UsedFits, Idle

\* Doubling the table keeps every slot sound.
LEMMA GrowInv ==
  ASSUME IndInv, NEW r \in Refs, AllocateGrow(r)
  PROVE  IndInv'
<1> USE DEF IndInv, AllocateGrow
<1>1. 2 * size \in Nat \ {0}
  BY DEF TypeOK
<1>2. Regrown \in [Slots(2 * size) -> Slot]
  BY RegrownSlots
<1>3. TypeOK'
  BY <1>1, <1>2 DEF TypeOK
<1>4. SlotsMatchHeld'
  <2> SUFFICES ASSUME NEW j \in Slots(2 * size)
               PROVE  IF Regrown[j].handleId = 0
                        THEN Regrown[j].reference = NoRef
                        ELSE /\ Regrown[j].handleId % (2 * size) = j
                             /\ Regrown[j].handleId \in DOMAIN held
                             /\ Regrown[j].reference = held[Regrown[j].handleId]
    BY DEF SlotsMatchHeld
  <2>1. CASE Regrown[j] = Empty
    BY <2>1 DEF Empty
  <2>2. CASE \E i \in Slots(size) : /\ Regrown[j] = entry[i]
                                    /\ entry[i].handleId % (2 * size) = j
    BY <2>2 DEF SlotsMatchHeld
  <2> QED BY <2>1, <2>2, RegrownSlots
<1>5. UsedCountsHeld'
  BY DEF UsedCountsHeld
<1>6. UsedFits'
  BY DEF UsedFits, TypeOK, MustGrow
<1> QED BY <1>3, <1>4, <1>5, <1>6

\* Recording the new handle in the free slot keeps the invariant.
LEMMA SearchEndInv ==
  ASSUME IndInv, SearchEnd
  PROVE  IndInv'
<1> DEFINE h == lastAllocated + 1
           s == h % size
<1> USE DEF IndInv
<1>1. h \in Nat /\ h # 0 /\ wanted \in Refs
  BY DEF SearchEnd, TypeOK, Idle
<1>a. s \in Slots(size)
  BY <1>1, SlotOfHandle DEF TypeOK
<1>2. /\ entry' = [entry EXCEPT ![s] = [handleId |-> h, reference |-> wanted]]
      /\ held' = [k \in DOMAIN held \cup {h} |-> IF k = h THEN wanted ELSE held[k]]
      /\ ret' = [status |-> "Ok", handle |-> h]
      /\ lastAllocated' = h
      /\ used' = used + 1
      /\ wanted' = NoRef
      /\ size' = size
      /\ ~Idle
  BY DEF SearchEnd
<1>3. DOMAIN held \in SUBSET Nat /\ \A k \in DOMAIN held : k < h
  BY DEF TypeOK
<1>4. h \notin DOMAIN held
  BY <1>1, <1>3
<1> HIDE DEF s, h
<1>5. TypeOK'
  <2>1. entry' \in [Slots(size) -> Slot]
    <3>1. [handleId |-> h, reference |-> wanted] \in Slot
      BY <1>1 DEF Slot
    <3> QED BY <1>a, <1>2, <3>1 DEF TypeOK
  <2>2. DOMAIN held' \in SUBSET (1 .. h)
    BY <1>1, <1>2, <1>3 DEF TypeOK
  <2>3. \A k \in DOMAIN held' : held'[k] \in Refs
    BY <1>1, <1>2 DEF TypeOK
  <2>4. held' = [k \in DOMAIN held' |-> held'[k]]
    BY <1>2
  <2>5. ret' \in RetType
    BY <1>1, <1>2 DEF RetType
  <2> QED BY <1>1, <1>2, <2>1, <2>2, <2>3, <2>4, <2>5 DEF TypeOK
<1>6. SlotsMatchHeld'
  <2> SUFFICES ASSUME NEW i \in Slots(size)
               PROVE  IF entry'[i].handleId = 0
                        THEN entry'[i].reference = NoRef
                        ELSE /\ entry'[i].handleId % size = i
                             /\ entry'[i].handleId \in DOMAIN held'
                             /\ entry'[i].reference = held'[entry'[i].handleId]
    BY <1>2 DEF SlotsMatchHeld
  <2>1. CASE i = s
    BY <1>1, <1>a, <1>2, <2>1 DEF TypeOK, s
  <2>2. CASE i # s
    <3>1. entry'[i] = entry[i]
      BY <1>a, <1>2, <2>2 DEF TypeOK
    <3>2. entry[i].handleId # 0 => /\ entry[i].handleId \in DOMAIN held
                                  /\ entry[i].handleId # h
      BY <1>4 DEF SlotsMatchHeld
    <3> QED BY <1>2, <3>1, <3>2 DEF SlotsMatchHeld
  <2> QED BY <2>1, <2>2
<1>7. UsedCountsHeld'
  <2>1. IsFiniteSet(DOMAIN held)
    BY HeldFinite
  <2>2. Cardinality(DOMAIN held \cup {h}) = Cardinality(DOMAIN held) + 1
    BY <1>4, <2>1, FS_AddElement
  <2>3. DOMAIN held' = DOMAIN held \cup {h}
    BY <1>2
  <2> QED BY <1>2, <2>2, <2>3 DEF UsedCountsHeld
<1>8. UsedFits'
  BY <1>2 DEF UsedFits, TypeOK, Idle
<1> QED BY <1>5, <1>6, <1>7, <1>8

\* Freeing a handle that is in the table keeps the invariant: it is held, so
\* the counter is not zero.
LEMMA FreeInv ==
  ASSUME IndInv, NEW h \in 1 .. lastAllocated, handleFree(h)
  PROVE  IndInv'
<1> USE DEF IndInv, handleFree
<1>1. h \in Nat /\ h # 0 /\ h % size \in Slots(size)
  BY SlotOfHandle DEF TypeOK
<1>2. CASE ~Recorded(h)
  BY <1>2 DEF TypeOK, SlotsMatchHeld, UsedCountsHeld, UsedFits, Idle, RetType, Status
<1>3. CASE Recorded(h)
  <2>1. h \in DOMAIN held
    BY <1>1, <1>3 DEF Recorded, SlotsMatchHeld
  <2>2. entry' = [entry EXCEPT ![h % size] = Empty]
    BY <1>3
  <2>3. held' = [k \in DOMAIN held \ {h} |-> held[k]]
    BY <1>3
  <2>4. IsFiniteSet(DOMAIN held)
    BY HeldFinite
  <2>5. Cardinality(DOMAIN held \ {h}) = Cardinality(DOMAIN held) - 1
    BY <2>1, <2>4, FS_RemoveElement
  <2>6. Cardinality(DOMAIN held \ {h}) \in Nat
    BY <2>4, FS_RemoveElement, FS_CardinalityType
  <2>7. used' = used - 1 /\ used' = Cardinality(DOMAIN held') /\ used' \in Nat
    BY <1>3, <2>3, <2>5, <2>6 DEF UsedCountsHeld
  <2>8. TypeOK'
    <3>1. entry' \in [Slots(size) -> Slot]
      BY <1>1, <2>2 DEF TypeOK, Slot, Empty
    <3>2. ret' \in RetType
      BY <1>3 DEF RetType, Status
    <3> QED BY <2>3, <2>7, <3>1, <3>2 DEF TypeOK
  <2>9. SlotsMatchHeld'
    <3> SUFFICES ASSUME NEW i \in Slots(size)
                 PROVE  IF entry'[i].handleId = 0
                          THEN entry'[i].reference = NoRef
                          ELSE /\ entry'[i].handleId % size = i
                               /\ entry'[i].handleId \in DOMAIN held'
                               /\ entry'[i].reference = held'[entry'[i].handleId]
      BY DEF SlotsMatchHeld
    <3>1. CASE i = h % size
      BY <1>1, <2>2, <3>1 DEF TypeOK, Empty
    <3>2. CASE i # h % size
      <4>1. entry'[i] = entry[i]
        BY <1>1, <2>2, <3>2 DEF TypeOK
      <4>2. entry[i].handleId # 0 => /\ entry[i].handleId \in DOMAIN held
                                    /\ entry[i].handleId # h
        BY <3>2 DEF SlotsMatchHeld
      <4> QED BY <2>3, <4>1, <4>2 DEF SlotsMatchHeld
    <3> QED BY <3>1, <3>2
  <2>10. UsedFits'
    BY <2>7 DEF UsedFits, TypeOK, Idle
  <2> QED BY <2>7, <2>8, <2>9, <2>10 DEF UsedCountsHeld
<1> QED BY <1>2, <1>3

\* Every step keeps the invariant.
LEMMA NextInv == IndInv /\ [TableNext]_tableVars => IndInv'
<1> SUFFICES ASSUME IndInv, [TableNext]_tableVars PROVE IndInv'
  OBVIOUS
<1> USE DEF IndInv
<1>1. ASSUME NEW r \in Refs, AllocateBegin(r) PROVE IndInv'
  BY <1>1 DEF AllocateBegin, MustGrow, TypeOK, SlotsMatchHeld, UsedCountsHeld, UsedFits
<1>2. ASSUME NEW r \in Refs, AllocateGrow(r) PROVE IndInv'
  BY <1>2, GrowInv
<1>3. CASE AllocateNoMemory
  BY <1>3 DEF AllocateNoMemory, TypeOK, SlotsMatchHeld, UsedCountsHeld, UsedFits, Idle,
              RetType, Status
<1>4. CASE SearchNext
  <2>1. TypeOK'
    BY <1>4 DEF SearchNext, TypeOK
  <2> QED BY <1>4, <2>1 DEF SearchNext, SlotsMatchHeld, UsedCountsHeld, UsedFits, Idle
<1>5. CASE SearchEnd
  BY <1>5, SearchEndInv
<1>6. ASSUME NEW h \in 1 .. lastAllocated, handleFree(h) PROVE IndInv'
  BY <1>6, FreeInv
<1>7. ASSUME NEW h \in 0 .. lastAllocated + 1, handleGetReference(h) PROVE IndInv'
  <2>1. h \in Nat /\ h % size \in Slots(size)
    BY SlotOfHandle DEF TypeOK
  <2>2. GetReference(h) \in RetType
    BY <2>1 DEF GetReference, RetType, Status, TypeOK, Slot
  <2> QED BY <1>7, <2>2 DEF handleGetReference, TypeOK, SlotsMatchHeld, UsedCountsHeld,
                            UsedFits, Idle
<1>8. CASE UNCHANGED tableVars
  BY <1>8 DEF tableVars, TypeOK, SlotsMatchHeld, UsedCountsHeld, UsedFits, Idle
<1> QED BY <1>1, <1>2, <1>3, <1>4, <1>5, <1>6, <1>7, <1>8 DEF TableNext, Search

\* The invariant holds in every reachable state.
LEMMA Invariance == TableSpec => []IndInv
BY InitInv, NextInv, PTL DEF TableSpec

----------------------------------------------------------------------------
\* The table of src/src/handle.c always has the shape its functions rely on,
\* whatever the size of the first array and however often it is doubled.
THEOREM TypeCorrect == TableSpec => []TypeOK
BY Invariance, PTL DEF IndInv

\* handleGetReference never returns an object other than the one registered
\* under the handle, and never finds a handle that was freed.
THEOREM LookupsAreSound == TableSpec => []LookupSound
<1>1. IndInv => LookupSound
  BY DEF IndInv, LookupSound
<1> QED BY <1>1, Invariance, PTL

\* The counter of the table is the number of handles issued and not freed.
THEOREM CounterIsExact == TableSpec => []UsedCountsHeld
BY Invariance, PTL DEF IndInv

\* If every slot were taken, the slots would be as many handles in use, more
\* than the counter allows while a search runs (pigeonhole).
LEMMA RoomWhileSearching == IndInv => SearchHasRoom
<1> SUFFICES ASSUME IndInv, ~Idle, \A i \in Slots(size) : entry[i].reference # NoRef
             PROVE  FALSE
  BY DEF SearchHasRoom
<1> USE DEF IndInv
<1> DEFINE f == [i \in Slots(size) |-> entry[i].handleId]
<1>1. \A i \in Slots(size) : entry[i].handleId \in DOMAIN held /\ entry[i].handleId % size = i
  BY DEF SlotsMatchHeld
<1>2. f \in Injection(Slots(size), DOMAIN held)
  BY <1>1 DEF Injection, IsInjective
<1>3. IsFiniteSet(DOMAIN held)
  BY HeldFinite
<1>4. Cardinality(Slots(size)) <= Cardinality(DOMAIN held)
  BY <1>2, <1>3, FS_Injection
<1>5. Cardinality(Slots(size)) = size
  <2>1. 0 \in Int /\ size - 1 \in Int /\ ~(0 > size - 1) /\ (size - 1) - 0 + 1 = size
    BY DEF TypeOK
  <2>2. Cardinality(0 .. size - 1) = (size - 1) - 0 + 1
    BY <2>1, FS_Interval
  <2> QED BY <2>1, <2>2 DEF Slots
<1> QED BY <1>4, <1>5 DEF UsedCountsHeld, UsedFits, TypeOK

\* The search of handleAllocate always has a free slot to end on.
THEOREM SearchAlwaysHasRoom == TableSpec => []SearchHasRoom
BY Invariance, RoomWhileSearching, PTL

------------------------------------------------------------------------------
\* Division with remainder, as the code's % computes it.
LEMMA DivMod ==
  ASSUME NEW a \in Int, NEW n \in Int, n > 0
  PROVE  a \div n \in Int /\ a % n \in 0 .. n - 1 /\ a = n * (a \div n) + (a % n)
<1>1. a = n * (a \div n) + (a % n)
  BY SMT
<1>2. a \div n \in Int /\ a % n \in 0 .. n - 1
  BY SMT
<1> QED BY <1>1, <1>2

\* The remainder is determined by being one.
LEMMA Remainder ==
  ASSUME NEW n \in Int, n > 0, NEW q \in Int, NEW r \in 0 .. n - 1
  PROVE  (n * q + r) % n = r
<1> DEFINE a == n * q + r
           d == q - (a \div n)
<1>1. a \in Int /\ a \div n \in Int /\ a % n \in 0 .. n - 1 /\ a = n * (a \div n) + (a % n)
  BY DivMod
<1>2. d \in Int /\ n * d = (a % n) - r
  BY <1>1
<1> HIDE DEF d
<1>3. d >= 1 => n * d >= n
  BY <1>2
<1>4. d <= -1 => n * d <= -n
  BY <1>2
<1>5. d = 0
  BY <1>1, <1>2, <1>3, <1>4
<1>6. n * d = 0
  BY <1>5
<1> QED BY <1>1, <1>2, <1>6

\* A remainder may be taken by a multiple first.
LEMMA ModOfMultiple ==
  ASSUME NEW n \in Int, n > 0, NEW m \in Int, m > 0, m % n = 0, NEW a \in Int
  PROVE  a % n = (a % m) % n
<1> DEFINE k == m \div n
           q == a \div m
           r == a % m
           d == r \div n
           s == r % n
<1>1. k \in Int /\ m = n * k
  BY DivMod
<1>2. q \in Int /\ r \in Int /\ a = m * q + r
  BY DivMod
<1>3. d \in Int /\ s \in 0 .. n - 1 /\ r = n * d + s
  BY <1>2, DivMod
<1> HIDE DEF k, q, d, s
<1>4. a = n * (k * q + d) + s /\ k * q + d \in Int
  <2>1. m * q = n * (k * q)
    BY <1>1, <1>2
  <2>2. k * q \in Int
    BY <1>1, <1>2
  <2> DEFINE e == k * q
  <2>3. a = n * e + (n * d + s)
    BY <1>2, <1>3, <2>1
  <2> HIDE DEF e
  <2>4. n * e + (n * d + s) = n * (e + d) + s
    BY <1>3, <2>2 DEF e
  <2> QED BY <2>2, <2>3, <2>4, <1>3 DEF e
<1>5. a % n = s
  BY <1>3, <1>4, Remainder
<1> QED BY <1>5 DEF s

\* The slot in the old array is determined by the slot in the doubled one.
LEMMA ModOfDouble ==
  ASSUME NEW a \in Int, NEW n \in Int, n > 0
  PROVE  a % n = (a % (2 * n)) % n
<1> DEFINE m == 2 * n
<1>1. m \in Int /\ m > 0 /\ 0 \in 0 .. n - 1 /\ n * 2 + 0 = m
  OBVIOUS
<1>2. (n * 2 + 0) % n = 0
  BY <1>1, Remainder
<1> HIDE DEF m
<1>3. a % n = (a % m) % n
  BY <1>1, <1>2, ModOfMultiple
<1> QED BY <1>3 DEF m

\* A multiple of a product is a multiple of its factor.
LEMMA MultipleOfPart ==
  ASSUME NEW h \in Int, NEW n \in Int, n > 0, NEW m \in Int, m > 0, h % (m * n) = 0
  PROVE  h % n = 0
<1> DEFINE q == h \div (m * n)
<1>1. m * n \in Int /\ m * n > 0
  OBVIOUS
<1>2. q \in Int /\ h = m * n * q + 0
  BY <1>1, DivMod
<1> HIDE DEF q
<1>3. h = n * (m * q) + 0 /\ m * q \in Int
  BY <1>2
<1>4. 0 \in 0 .. n - 1
  OBVIOUS
<1>5. (n * (m * q) + 0) % n = 0
  BY <1>3, <1>4, Remainder
<1> QED BY <1>3, <1>5

----------------------------------------------------------------------------
\* The array only ever doubles.
SizeMultiple == \E m \in Nat \ {0} : size = m * MinSize

LEMMA SizeInv == TableSpec => [](IndInv /\ SizeMultiple)
<1>1. TableInit => SizeMultiple
  <2> SUFFICES ASSUME TableInit PROVE size = 1 * MinSize
    BY DEF SizeMultiple
  <2> QED BY MinSizeAssumption DEF TableInit
<1>2. IndInv /\ SizeMultiple /\ [TableNext]_tableVars => SizeMultiple'
  <2> SUFFICES ASSUME IndInv, SizeMultiple, [TableNext]_tableVars PROVE SizeMultiple'
    OBVIOUS
  <2>1. size' = size \/ size' = 2 * size
    BY DEF TableNext, AllocateBegin, AllocateGrow, AllocateNoMemory, Search, SearchNext, SearchEnd,
           handleFree, handleGetReference, tableVars
  <2>2. PICK m \in Nat \ {0} : size = m * MinSize
    BY DEF SizeMultiple
  <2>3. 2 * m \in Nat \ {0} /\ 2 * size = (2 * m) * MinSize
    BY <2>2, MinSizeAssumption
  <2> QED BY <2>1, <2>2, <2>3 DEF SizeMultiple
<1> QED BY <1>1, <1>2, Invariance, PTL DEF TableSpec

\* The map of the table, and when a handle is in it.
Held == [h \in InUse |-> entry[h % size].reference]

LEMMA InUseIsRecorded ==
  ASSUME IndInv
  PROVE  /\ InUse \subseteq 1 .. lastAllocated
         /\ \A h \in Nat : h \in InUse <=> h # 0 /\ Recorded(h)
         /\ \A h \in InUse : entry[h % size].reference \in Refs
<1> USE DEF IndInv
<1>1. ASSUME NEW h \in InUse
      PROVE  /\ h \in 1 .. lastAllocated /\ Recorded(h)
             /\ entry[h % size].reference \in Refs
  <2>1. PICK i \in Slots(size) : entry[i].handleId = h /\ h # 0
    BY DEF InUse
  <2>2. h % size = i /\ h \in DOMAIN held /\ entry[i].reference = held[h]
    BY <2>1 DEF SlotsMatchHeld
  <2> QED BY <2>1, <2>2 DEF Recorded, TypeOK
<1>2. ASSUME NEW h \in Nat, h # 0, Recorded(h)
      PROVE  h \in InUse
  <2>1. h % size \in Slots(size)
    BY SlotOfHandle DEF TypeOK
  <2> QED BY <1>2, <2>1 DEF Recorded, InUse
<1> QED BY <1>1, <1>2

\* A handle that no doubling may drop is alone in its slot of the new array.
LEMMA KeptByGrow ==
  ASSUME IndInv, SizeMultiple, NEW h \in InUse, h % (2 * MinSize) # 0
  PROVE  Regrown[h % (2 * size)] = entry[h % size] /\ h % (2 * size) \in Slots(2 * size)
<1> USE DEF IndInv
<1> DEFINE i == h % size
           j == h % (2 * size)
<1>1. h \in Nat /\ h # 0 /\ i \in Slots(size) /\ entry[i].handleId = h /\ size \in Nat \ {0}
  BY InUseIsRecorded, SlotOfHandle DEF TypeOK, Recorded
<1>2. j \in Slots(2 * size)
  BY <1>1, SlotOfHandle
<1>3. j # 0
  <2>1. PICK m \in Nat \ {0} : size = m * MinSize
    BY DEF SizeMultiple
  <2>2. 2 * size = m * (2 * MinSize) /\ 2 * MinSize \in Int /\ 2 * MinSize > 0
    BY <2>1, MinSizeAssumption
  <2> DEFINE n == 2 * MinSize
  <2>3. h \in Int /\ n \in Int /\ n > 0 /\ m \in Int /\ m > 0 /\ h % n # 0
    BY <1>1, <2>2
  <2>4. 2 * size = m * n
    BY <2>2
  <2> HIDE DEF n
  <2>5. h % (m * n) # 0
    BY <2>3, MultipleOfPart
  <2> QED BY <2>4, <2>5
<1>4. ASSUME NEW k \in Slots(size), entry[k].handleId % (2 * size) = j
      PROVE  k = i
  <2>1. entry[k].handleId \in Nat
    BY DEF TypeOK, Slot
  <2>2. entry[k].handleId # 0
    BY <1>1, <1>3, <1>4
  <2>3. entry[k].handleId % size = k
    BY <2>2 DEF SlotsMatchHeld
  <2>4. entry[k].handleId % size = h % size
    <3>1. \A a \in Nat : a % size = (a % (2 * size)) % size
      BY <1>1, ModOfDouble
    <3>2. (entry[k].handleId % (2 * size)) % size = (h % (2 * size)) % size
      BY <1>4
    <3> QED BY <1>1, <2>1, <3>1, <3>2
  <2> QED BY <2>3, <2>4
<1>5. LastInto(j) = {i}
  BY <1>1, <1>4 DEF LastInto, Slots
<1> QED BY <1>2, <1>5 DEF Regrown

\* Doubling forgets some handles and leaves the others their references.
LEMMA GrowForgets ==
  ASSUME IndInv, SizeMultiple, NEW r \in Refs, AllocateGrow(r)
  PROVE  Map!Forget
<1> USE DEF IndInv, AllocateGrow
<1>1. size' = 2 * size /\ entry' = Regrown /\ size \in Nat \ {0}
  BY DEF TypeOK
<1>2. IndInv'
  BY GrowInv
<1>3. ASSUME NEW h \in InUse'
      PROVE  h \in InUse /\ entry'[h % size'] = entry[h % size]
  <2>1. PICK j \in Slots(2 * size) : Regrown[j].handleId = h /\ h # 0
    BY <1>1 DEF InUse
  <2>2. PICK i \in Slots(size) : Regrown[j] = entry[i] /\ h % (2 * size) = j
    BY <2>1, RegrownSlots DEF Empty
  <2>3. h % size = i
    BY <2>1, <2>2 DEF SlotsMatchHeld
  <2> QED BY <1>1, <2>1, <2>2, <2>3 DEF InUse
<1>4. ASSUME NEW h \in InUse, h \notin InUse'
      PROVE  h % (2 * MinSize) = 0
  <2> SUFFICES ASSUME h % (2 * MinSize) # 0 PROVE FALSE
    OBVIOUS
  <2>1. Regrown[h % (2 * size)].handleId = h /\ h # 0 /\ h % (2 * size) \in Slots(2 * size)
    BY KeptByGrow, InUseIsRecorded DEF Recorded
  <2> QED BY <1>1, <1>4, <2>1 DEF InUse
<1>5. Held' = [h \in InUse' |-> Held[h]]
  BY <1>3 DEF Held
<1>6. InUse' \in SUBSET DOMAIN Held /\ DOMAIN Held = InUse
  BY <1>3 DEF Held
<1> QED BY <1>4, <1>5, <1>6 DEF Map!Forget, Held

\* The slot taken was free, so the new handle displaces no other.
LEMMA SearchEndAllocates ==
  ASSUME IndInv, SearchEnd
  PROVE  \E r \in Refs : Map!Allocate(r)
<1> USE DEF IndInv
<1> DEFINE h == lastAllocated + 1
           s == h % size
<1>1. h \in Nat /\ h # 0 /\ wanted \in Refs /\ s \in Slots(size) /\ size' = size
  <2>1. h \in Nat /\ h # 0 /\ size \in Nat \ {0} /\ size' = size
    BY DEF SearchEnd, TypeOK
  <2>2. s \in Slots(size)
    BY <2>1, SlotOfHandle
  <2>3. wanted \in Refs
    BY DEF SearchEnd, TypeOK, Idle
  <2> QED BY <2>1, <2>2, <2>3
<1>2. entry[s].handleId = 0
  <2>1. entry[s].reference = NoRef
    BY DEF SearchEnd, handleIsFree
  <2>2. entry[s].handleId # 0 => entry[s].reference \in Refs
    BY <1>1 DEF SlotsMatchHeld, TypeOK
  <2> QED BY <2>1, <2>2, NoRefAssumption
<1>3. /\ entry' = [entry EXCEPT ![s] = [handleId |-> h, reference |-> wanted]]
      /\ lastAllocated' = h /\ ret' = [status |-> "Ok", handle |-> h]
  BY DEF SearchEnd
<1>4. entry'[s] = [handleId |-> h, reference |-> wanted]
  BY <1>1, <1>3 DEF TypeOK
<1>5. \A i \in Slots(size) \ {s} : entry'[i] = entry[i]
  BY <1>1, <1>3 DEF TypeOK
<1>6. InUse' = InUse \cup {h}
  BY <1>1, <1>2, <1>4, <1>5 DEF InUse
<1>7. ASSUME NEW k \in InUse PROVE k # h /\ entry'[k % size'].reference = entry[k % size].reference
  <2>1. k \in Nat /\ k # 0 /\ k < h /\ entry[k % size].handleId = k /\ k % size \in Slots(size)
    BY InUseIsRecorded, SlotOfHandle DEF Recorded, TypeOK
  <2>2. k % size # s
    BY <1>2, <2>1
  <2> QED BY <1>1, <1>5, <2>1, <2>2
<1>8. Held' = [k \in DOMAIN Held \cup {h} |-> IF k = h THEN wanted ELSE Held[k]]
  <2> HIDE DEF h
  <2> QED BY <1>1, <1>4, <1>6, <1>7 DEF Held
<1> QED BY <1>1, <1>3, <1>8 DEF Map!Allocate, Held

\* handleFree takes the handle out of the map, if it is there.
LEMMA FreeFrees ==
  ASSUME IndInv, NEW h \in 1 .. lastAllocated, handleFree(h)
  PROVE  Map!FreeHandle(h)
<1> USE DEF IndInv
<1>1. h \in Nat /\ h # 0 /\ h % size \in Slots(size)
  BY SlotOfHandle DEF TypeOK
<1>2. h \in InUse <=> Recorded(h)
  BY <1>1, InUseIsRecorded
<1>3. CASE ~Recorded(h)
  <2>1. Held' = Held /\ DOMAIN Held = InUse /\ Held = [k \in InUse \ {h} |-> Held[k]]
    BY <1>2, <1>3 DEF handleFree, Held, InUse
  <2> QED BY <1>2, <1>3, <2>1 DEF handleFree, Map!FreeHandle, Held, Status, Map!Status
<1>4. CASE Recorded(h)
  <2>1. /\ size' = size /\ lastAllocated' = lastAllocated /\ ret' = Status("Ok")
        /\ entry' = [entry EXCEPT ![h % size] = Empty]
    BY <1>4 DEF handleFree
  <2>2. entry'[h % size].handleId = 0 /\ entry[h % size].handleId = h
    BY <1>1, <1>4, <2>1 DEF TypeOK, Empty, Recorded
  <2>3. \A i \in Slots(size) \ {h % size} : entry'[i] = entry[i]
    BY <1>1, <2>1 DEF TypeOK
  <2>4. \A i \in Slots(size) \ {h % size} : entry[i].handleId # h
    BY <1>1 DEF SlotsMatchHeld
  <2>5. InUse' = InUse \ {h}
    BY <2>1, <2>2, <2>3, <2>4 DEF InUse
  <2>6. ASSUME NEW k \in InUse \ {h} PROVE entry'[k % size'] = entry[k % size]
    <3>1. entry[k % size].handleId = k /\ k % size \in Slots(size)
      BY InUseIsRecorded, SlotOfHandle DEF Recorded, TypeOK
    <3> QED BY <2>1, <2>2, <2>3, <3>1
  <2>7. Held' = [k \in DOMAIN Held \ {h} |-> Held[k]]
    BY <2>5, <2>6 DEF Held
  <2> QED BY <1>2, <1>4, <2>1, <2>7 DEF Map!FreeHandle, Held, Status, Map!Status
<1> QED BY <1>3, <1>4

\* handleGetReference answers from the map.
LEMMA GetReferenceLooksUp ==
  ASSUME IndInv, NEW h \in 0 .. lastAllocated + 1, handleGetReference(h)
  PROVE  Map!Lookup(h)
<1>1. h \in Nat /\ (h \in InUse <=> h # 0 /\ Recorded(h)) /\ (h \in InUse => h <= lastAllocated)
  BY InUseIsRecorded DEF IndInv, TypeOK
<1>2. Held' = Held /\ DOMAIN Held = InUse /\ lastAllocated' = lastAllocated
  BY DEF handleGetReference, Held, InUse
<1>3. h \in InUse => Held[h] = entry[h % size].reference
  BY DEF Held
<1>4. ret' = IF h \in InUse
               THEN [status |-> "Ok", reference |-> Held[h]]
               ELSE Status(IF h = 0 \/ h > lastAllocated THEN "InvalidHandle" ELSE "NotFound")
  <2>1. CASE h = 0 \/ h > lastAllocated
    BY <1>1, <2>1 DEF handleGetReference, GetReference, IndInv, TypeOK
  <2>2. CASE h # 0 /\ ~(h > lastAllocated)
    BY <1>1, <1>3, <2>2 DEF handleGetReference, GetReference
  <2> QED BY <2>1, <2>2
<1> QED BY <1>2, <1>4 DEF Map!Lookup, Map!Status, Held, Status

\* The handle table is a map in which no identifier is used twice and whose
\* handles, other than multiples of twice the first size, stay until freed:
\* for every size of the first array, every history and any number of doublings.
THEOREM TableIsMap == TableSpec => ImplementsMap
<1>1. TableInit => Map!Init
  <2> SUFFICES ASSUME TableInit PROVE InUse = {} /\ Map!Init
    OBVIOUS
  <2>1. InUse = {}
    BY DEF TableInit, InUse, Empty
  <2> QED BY <2>1 DEF TableInit, Map!Init, Map!Status, Status
<1>2. IndInv /\ SizeMultiple /\ [TableNext]_tableVars => [Map!Next]_(Map!vars)
  <2> SUFFICES ASSUME IndInv, SizeMultiple, [TableNext]_tableVars
               PROVE  Map!Next \/ UNCHANGED Map!vars
    OBVIOUS
  <2>0. IndInv => lastAllocated \in Nat
    BY DEF IndInv, TypeOK
  <2>1. ASSUME NEW r \in Refs, AllocateBegin(r) PROVE UNCHANGED Map!vars
    BY <2>1 DEF AllocateBegin, Map!vars, InUse
  <2>2. ASSUME NEW r \in Refs, AllocateGrow(r) PROVE Map!Next
    BY <2>2, GrowForgets DEF Map!Next
  <2>3. CASE AllocateNoMemory
    BY <2>3 DEF AllocateNoMemory, Map!Next, Map!AllocateFails, InUse, Status, Map!Status
  <2>4. CASE SearchNext
    BY <2>4 DEF SearchNext, Map!Next, Map!Skip, InUse
  <2>5. CASE SearchEnd
    BY <2>5, SearchEndAllocates DEF Map!Next
  <2>6. ASSUME NEW h \in 1 .. lastAllocated, handleFree(h) PROVE Map!Next
    BY <2>6, FreeFrees DEF Map!Next
  <2>7. ASSUME NEW h \in 0 .. lastAllocated + 1, handleGetReference(h) PROVE Map!Next
    BY <2>7, GetReferenceLooksUp DEF Map!Next
  <2>8. CASE UNCHANGED tableVars
    BY <2>8 DEF tableVars, Map!vars, InUse
  <2> QED BY <2>1, <2>2, <2>3, <2>4, <2>5, <2>6, <2>7, <2>8 DEF TableNext, Search
<1> QED BY <1>1, <1>2, SizeInv, PTL DEF TableSpec, ImplementsMap, Map!Spec

----------------------------------------------------------------------------
\* A number is a power of two when each of its divisors can be doubled.
PowerOfTwo(n) == \A d \in 1 .. n - 1 : n % d = 0 => n % (2 * d) = 0

\* The slot of a handle depends on its short form only.
ShortSelects == ShortMod % size = 0

LEMMA ShortFinds ==
  ASSUME IndInv, ShortSelects
  PROVE  ShortHandleFinds
<1> SUFFICES ASSUME NEW h \in DOMAIN held, Recorded(h)
             PROVE  shortHandleToHandleId(h % ShortMod) = [status |-> "Ok", handle |-> h]
  BY DEF ShortHandleFinds
<1>1. h \in Nat /\ h # 0 /\ held[h] \in Refs /\ size \in Nat \ {0}
  BY DEF IndInv, TypeOK
<1>2. h % size \in Slots(size) /\ entry[h % size].handleId = h
  BY <1>1, SlotOfHandle DEF Recorded
<1>3. entry[h % size].reference = held[h]
  BY <1>1, <1>2 DEF IndInv, SlotsMatchHeld
<1>4. (h % ShortMod) % size = h % size
  <2>1. h \in Int /\ size \in Int /\ size > 0 /\ ShortMod \in Int /\ ShortMod > 0
    BY <1>1
  <2> QED BY <2>1, ModOfMultiple DEF ShortSelects
<1> QED BY <1>1, <1>2, <1>3, <1>4 DEF shortHandleToHandleId, handleIsFree

\* The short form of a handle, which is all of it that fits a xenbus message,
\* finds the handle again for as long as it is in the table: for every table
\* size, ShortMod a power of two, and at most ShortMod \div 2 handles in use
\* (2^31 in the code), however many were issued.
THEOREM ShortHandlesFind ==
  ASSUME PowerOfTwo(ShortMod), ShortMod % MinSize = 0
  PROVE  TableSpec /\ [](2 * used <= ShortMod) => []ShortHandleFinds
<1> DEFINE Few == 2 * used <= ShortMod
<1>1. TableInit => ShortSelects
  BY DEF TableInit, ShortSelects
<1>2. IndInv /\ Few /\ ShortSelects /\ [TableNext]_tableVars => ShortSelects'
  <2> SUFFICES ASSUME IndInv, Few, ShortSelects, [TableNext]_tableVars PROVE ShortSelects'
    OBVIOUS
  <2>1. size' = size \/ (MustGrow /\ size' = 2 * size)
    BY DEF TableNext, AllocateBegin, AllocateGrow, AllocateNoMemory, Search, SearchNext, SearchEnd,
           handleFree, handleGetReference, tableVars
  <2>2. MustGrow => size \in 1 .. ShortMod - 1
    BY DEF MustGrow, IndInv, TypeOK
  <2> QED BY <2>1, <2>2 DEF ShortSelects, PowerOfTwo
<1>3. IndInv /\ ShortSelects => ShortHandleFinds
  BY ShortFinds
<1> HIDE DEF Few
<1>4. TableSpec /\ []Few => []ShortHandleFinds
  BY <1>1, <1>2, <1>3, Invariance, PTL DEF TableSpec
<1> QED BY <1>4 DEF Few
=============================================================================
