---------------------------- MODULE KernelProgram -----------------------------
(****************************************************************************)
(* A program on the library of hw2: it takes buffers from the heap, writes  *)
(* them with the string and memory routines, prints them, and gives them    *)
(* back.  The memory holds the headers of the blocks too, so that a routine *)
(* that writes outside its buffer damages the heap.                         *)
(****************************************************************************)
EXTENDS Heap, TextLibrary

CONSTANTS
  Chars,       \* the characters a program puts into its buffers
  IntBits,     \* the width of an int
  Formats      \* what is printed: sequences of pieces, see Text

\* The characters of the build: char is signed, eight bits wide.
Char == -128..127

ASSUME CharsAssumption == Chars \subseteq Char

VARIABLES
  mem,         \* heapMemory
  off          \* my_printf has shut the kernel down

vars == <<heapVars, mem, off>>

HeaderMark == 1

\* A buffer is the part of a held block that was asked for.
Buffer(p) == (p + Header)..(p + Header + held[p] - 1)
Start(p) == p + Header
IsText(p) == \E a \in Buffer(p) : mem[a] = NUL
LengthOf(p) == StrLen(mem, Start(p))
Room(p) == held[p]

\* The headers of the blocks, after an operation of the heap
WithHeaders(m) ==
  [a \in DOMAIN m |-> IF \E b \in DOMAIN size' : a \in b..(b + Header - 1) THEN HeaderMark ELSE m[a]]

HeapStep ==
  /\ HeapNext
  /\ mem' = WithHeaders(mem)
  /\ UNCHANGED off

(****************************************************************************)
(* The calls of a program that keeps to its buffers.  The uncounted copies  *)
(* take a string, and write it and its NUL.  The counted ones do not look   *)
(* for a NUL in the source: they read n bytes of it, text or not, and write *)
(* n + 1, so that a program that gives them only what the C library needs   *)
(* does not keep to its buffers.                                            *)
(****************************************************************************)
RoomFor(p, q, op, n) ==
  CASE op = "strcpy"  -> IsText(q) /\ LengthOf(q) < Room(p)
    [] op = "strcat"  -> IsText(q) /\ IsText(p) /\ LengthOf(p) + LengthOf(q) < Room(p)
    [] op = "strncpy" -> n <= Room(q) /\ n < Room(p)
    [] op = "strncat" -> n <= Room(q) /\ IsText(p) /\ LengthOf(p) + n < Room(p)

Write(m) == mem' = m /\ UNCHANGED <<heapVars, off>>

CallMemset(p, c, n) ==
  /\ n <= Room(p)
  /\ Write(Memset(mem, Start(p), c, n))

CallMemcpy(p, q, n) ==
  /\ p # q /\ n <= Room(p) /\ n <= Room(q)
  /\ Write(Memcpy(mem, Start(p), Start(q), n))

CallStrcpy(p, q) ==
  /\ p # q /\ RoomFor(p, q, "strcpy", 0)
  /\ Write(Strcpy(mem, Start(p), Start(q)))

CallStrcat(p, q) ==
  /\ p # q /\ RoomFor(p, q, "strcat", 0)
  /\ Write(Strcat(mem, Start(p), Start(q)))

CallStrncpy(p, q, n) ==
  /\ p # q /\ RoomFor(p, q, "strncpy", n)
  /\ Write(Strncpy(mem, Start(p), Start(q), n))

CallStrncat(p, q, n) ==
  /\ p # q /\ RoomFor(p, q, "strncat", n)
  /\ Write(Strncat(mem, Start(p), Start(q), n))

(****************************************************************************)
(* Printing.  A piece of text is a character, or an argument with the       *)
(* conversion it is printed with.                                           *)
(****************************************************************************)
FormatOf(piece) ==
  CASE piece.kind = "char" -> <<piece.value>>
    [] piece.kind = "percent" -> <<Percent, Percent>>
    [] piece.kind = "string" -> <<Percent, CharS>>
    [] piece.kind = "int" -> <<Percent, CharD>>
    [] piece.kind = "other" -> <<Percent>> \o piece.value

Takes(piece) == piece.kind \in {"string", "int", "other"}

\* The string printed is the buffer p.
ArgumentOf(piece, p) == IF piece.kind = "string" THEN Start(p)
                        ELSE IF piece.kind = "int" THEN piece.value ELSE NUL

Joined(f, pieces) ==
  LET upto[i \in 0..Len(pieces)] == IF i = 0 THEN <<>> ELSE upto[i - 1] \o f[i]
  IN upto[Len(pieces)]

\* my_printf of the pieces
Printed(pieces, p) ==
  Printf(mem,
         Joined([i \in DOMAIN pieces |-> FormatOf(pieces[i])], pieces),
         Joined([i \in DOMAIN pieces |->
                   IF Takes(pieces[i]) THEN <<ArgumentOf(pieces[i], p)>> ELSE <<>>], pieces),
         IntBits)

\* It shuts the kernel down on what it cannot print.
CallPrintf(pieces, p) ==
  /\ IsText(p)
  /\ off' = Printed(pieces, p).stop
  /\ UNCHANGED <<heapVars, mem>>

(****************************************************************************)
(* The specification.                                                       *)
(****************************************************************************)
Init ==
  /\ HeapInit
  /\ mem = [a \in 0..(HeapSize - 1) |-> IF a < Header THEN HeaderMark ELSE NUL]
  /\ off = FALSE

Counts(p) == 0..Room(p)

\* The comparisons change nothing: CompareRight is about them.
TextStep ==
  \E p \in DOMAIN held :
    \/ \E c \in Chars, n \in Counts(p) : CallMemset(p, c, n)
    \/ \E pieces \in Formats : CallPrintf(pieces, p)
    \/ \E q \in DOMAIN held :
         \/ CallStrcpy(p, q) \/ CallStrcat(p, q)
         \/ \E n \in Counts(p) : CallMemcpy(p, q, n) \/ CallStrncpy(p, q, n) \/ CallStrncat(p, q, n)

Next == ~off /\ (HeapStep \/ TextStep)

Spec == Init /\ [][Next]_vars

(****************************************************************************)
(* Properties.                                                              *)
(****************************************************************************)
Bytes(m, p, n) == [i \in 1..n |-> m[Start(p) + i - 1]]
TextOf(m, p) == StringAt(m, Start(p))
Nth(s, i) == IF i \in DOMAIN s THEN s[i] ELSE NUL

(****************************************************************************)
(* What the C library leaves in the bytes b of a destination.  Of the       *)
(* counted source s it takes what is before its first NUL: strncpy fills up *)
(* with NULs, strncat ends the text with one.                               *)
(****************************************************************************)
InText(s, i) == i \in DOMAIN s /\ \A j \in 1..i : s[j] # NUL
EndsText(s, i) == ~InText(s, i) /\ \A j \in 1..(i - 1) : InText(s, j)

LibraryStrcat(b, l, s) ==
  [i \in DOMAIN b |-> IF i \in (l + 1)..(l + Len(s)) THEN s[i - l]
                      ELSE IF i = l + Len(s) + 1 THEN NUL ELSE b[i]]
LibraryStrcpy(b, s) == LibraryStrcat(b, 0, s)
LibraryStrncpy(b, s) ==
  [i \in DOMAIN b |-> IF i \notin DOMAIN s THEN b[i] ELSE IF InText(s, i) THEN s[i] ELSE NUL]
LibraryStrncat(b, l, s) ==
  [i \in DOMAIN b |-> IF i <= l THEN b[i]
                      ELSE IF InText(s, i - l) THEN s[i - l]
                      ELSE IF EndsText(s, i - l) THEN NUL ELSE b[i]]

\* Where a counted copy to behind the first l bytes departs from the C library:
\* it goes on behind the NUL of the source s, and writes a NUL behind all.
Departs(i, l, s) == i \in (l + 1)..(l + Len(s)) /\ \E j \in 1..(i - l - 1) : s[j] = NUL
Last(i, l, s) == i = l + Len(s) + 1

\* The bytes of a destination after a counted copy, library being what the C
\* library leaves there
Counted(out, library, l, s) ==
  \A i \in DOMAIN out :
    out[i] = IF Departs(i, l, s) THEN s[i - l]
             ELSE IF Last(i, l, s) THEN NUL ELSE library[i]

\* Each routine leaves every byte of the destination as its namesake of the C
\* library does, whatever is in the buffers, but for what my_strncpy and
\* my_strncat leave in the bytes named by Departs and Last: the source's bytes
\* from behind its NUL, where strncpy has NULs and strncat the bytes of
\* before, and one NUL more.
WriteRight == \A p \in DOMAIN held : \A q \in DOMAIN held \ {p} :
  LET d == Start(p)
      s == Start(q)
      b == Bytes(mem, p, Room(p))
      Left(m) == Bytes(m, p, Room(p))
  IN /\ RoomFor(p, q, "strcpy", 0) =>
          Left(Strcpy(mem, d, s)) = LibraryStrcpy(b, TextOf(mem, q))
     /\ RoomFor(p, q, "strcat", 0) =>
          Left(Strcat(mem, d, s)) = LibraryStrcat(b, LengthOf(p), TextOf(mem, q))
     /\ \A n \in Counts(p) :
          LET src == Bytes(mem, q, n) IN
          /\ RoomFor(p, q, "strncpy", n) =>
               Counted(Left(Strncpy(mem, d, s, n)), LibraryStrncpy(b, src), 0, src)
          /\ RoomFor(p, q, "strncat", n) =>
               Counted(Left(Strncat(mem, d, s, n)), LibraryStrncat(b, LengthOf(p), src), LengthOf(p), src)
          /\ n <= Room(q) => Bytes(Memcpy(mem, d, s, n), p, n) = src

(****************************************************************************)
(* The C library orders by the first difference, the characters as unsigned *)
(* ones.  hw2 subtracts signed ones, so that a difference of a character    *)
(* over 127 with one that is not has the opposite sign.                     *)
(****************************************************************************)
Sign(i) == IF i < 0 THEN -1 ELSE IF i > 0 THEN 1 ELSE 0
Unsigned(c) == IF c < 0 THEN c + 256 ELSE c
LibraryOrder(a, b) == Sign(Unsigned(a) - Unsigned(b))
Turned(a, b) == (a < 0) # (b < 0)
FirstDifference(u, v, i) == Nth(u, i) # Nth(v, i) /\ \A j \in 1..(i - 1) : Nth(u, j) = Nth(v, j)

Compares(r, u, v) ==
  /\ u = v => r = 0
  /\ \A i \in 1..(Len(u) + 1) : FirstDifference(u, v, i) =>
       LET order == LibraryOrder(Nth(u, i), Nth(v, i))
       IN Sign(r) = IF Turned(Nth(u, i), Nth(v, i)) THEN -order ELSE order

Prefix(s, n) == SubSeq(s, 1, IF Len(s) < n THEN Len(s) ELSE n)

\* my_strcmp and my_memcmp order the buffers as the C library does, but where
\* the order is turned; my_strncmp with n orders them as strncmp does with
\* n + 1: it takes a difference in the character behind the n too.
CompareRight == \A p, q \in DOMAIN held :
  LET s == Start(p)
      t == Start(q)
      u == TextOf(mem, p)
      v == TextOf(mem, q)
  IN /\ IsText(p) /\ IsText(q) =>
          /\ Compares(Strcmp(mem, s, t), u, v)
          /\ \A n \in Counts(p) :
               Compares(Strncmp(mem, s, t, n), Prefix(u, n + 1), Prefix(v, n + 1))
     /\ \A n \in Counts(p) : n <= Room(q) =>
          Compares(Memcmp(mem, s, t, n), Bytes(mem, p, n), Bytes(mem, q, n))

TextRight == WriteRight /\ CompareRight

\* A call of a routine changes no byte outside one buffer that is held: the
\* headers of the heap and the other buffers stay as they are.
WritesInside == [][
  UNCHANGED heapVars =>
    \A a, b \in DOMAIN mem : mem'[a] # mem[a] /\ mem'[b] # mem[b] =>
      \E p \in DOMAIN held : {a, b} \subseteq Buffer(p)
  ]_vars

\* What a conversion stands for in the C library
Rendered(piece, p) ==
  CASE piece.kind = "char" -> <<piece.value>>
    [] piece.kind = "percent" -> <<Percent>>
    [] piece.kind = "string" -> TextOf(mem, p)
    [] piece.kind = "int" ->
         CHOOSE s \in UNION {[1..k -> {Minus} \cup {Digit(d) : d \in 0..9}] : k \in 1..2} :
           /\ \A i \in DOMAIN s : s[i] = Minus => i = 1 /\ Len(s) = 2
           /\ Len(s) = 2 => s[1] # Digit(0)
           /\ piece.value = IF s[1] = Minus THEN -(s[2] - 48)
                            ELSE IF Len(s) = 1 THEN s[1] - 48
                            ELSE 10 * (s[1] - 48) + s[2] - 48

\* Text of characters, strings, ints and percent signs is printed whole and in
\* order, each conversion taking its own argument, and does not stop the kernel.
PrintRight ==
  \A p \in DOMAIN held, pieces \in Formats :
    IsText(p) /\ (\A i \in DOMAIN pieces : pieces[i].kind # "other") =>
      LET printed == Printed(pieces, p) IN
      /\ ~printed.stop
      /\ printed.out = Joined([i \in DOMAIN pieces |-> Rendered(pieces[i], p)], pieces)
=============================================================================
