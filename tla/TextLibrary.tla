----------------------------- MODULE TextLibrary -----------------------------
(****************************************************************************)
(* The string, memory and formatting routines of hw2 (my_str.c, my_mem.c,   *)
(* my_printf.c) as operators on a memory, a function from addresses to      *)
(* characters.                                                              *)
(****************************************************************************)
EXTENDS Integers, Sequences, FiniteSetsExt

NUL == 0
Minus == 45
Percent == 37
Digit(d) == 48 + d

(****************************************************************************)
(* Strings.                                                                 *)
(****************************************************************************)
StrLen(m, s) == CHOOSE k \in 0..Cardinality(DOMAIN m) :
  m[s + k] = NUL /\ \A j \in 0..(k - 1) : m[s + j] # NUL

StringAt(m, s) == [i \in 1..StrLen(m, s) |-> m[s + i - 1]]

\* n characters from s are written at p, and a NUL after them
CopyEnded(m, p, s, n) ==
  [a \in DOMAIN m |-> IF a \in p..(p + n - 1) THEN m[s + a - p]
                      ELSE IF a = p + n THEN NUL ELSE m[a]]

\* Mutant: the terminating NUL is forgotten.
Strcpy_Open(m, d, s) ==
  [a \in DOMAIN m |-> IF a \in d..(d + StrLen(m, s) - 1) THEN m[s + a - d] ELSE m[a]]

Strcpy(m, d, s) == CopyEnded(m, d, s, StrLen(m, s))
\* Mutant: the second string goes behind the NUL of the first.
Strcat_BehindNul(m, d, s) == CopyEnded(m, d + StrLen(m, d) + 1, s, StrLen(m, s))
Strcat(m, d, s) == CopyEnded(m, d + StrLen(m, d), s, StrLen(m, s))

\* The counted versions copy n characters, a NUL among them too, and write
\* n + 1.
Strncpy(m, d, s, n) == CopyEnded(m, d, s, n)
Strncat(m, d, s, n) == CopyEnded(m, d + StrLen(m, d), s, n)

\* The comparisons stop at the first difference or end of a string; the
\* counted one also after n characters, and compares the next.
StopsAt(m, s, t, k) == m[s + k] = NUL \/ m[t + k] = NUL \/ m[s + k] # m[t + k]
Strcmp(m, s, t) ==
  LET k == CHOOSE k \in 0..Cardinality(DOMAIN m) :
             StopsAt(m, s, t, k) /\ \A j \in 0..(k - 1) : ~StopsAt(m, s, t, j)
  IN m[s + k] - m[t + k]

Strncmp(m, s, t, n) ==
  LET Stops(k) == k = n \/ StopsAt(m, s, t, k)
      k == CHOOSE k \in 0..n : Stops(k) /\ \A j \in 0..(k - 1) : ~Stops(j)
  IN m[s + k] - m[t + k]

(****************************************************************************)
(* Memory.                                                                  *)
(****************************************************************************)
Memcpy(m, d, s, n) == [a \in DOMAIN m |-> IF a \in d..(d + n - 1) THEN m[s + a - d] ELSE m[a]]
Memset(m, s, c, n) == [a \in DOMAIN m |-> IF a \in s..(s + n - 1) THEN c ELSE m[a]]

Memcmp(m, s, t, n) ==
  LET differ == {k \in 0..(n - 1) : m[s + k] # m[t + k]}
  IN IF differ = {} THEN 0 ELSE m[s + Min(differ)] - m[t + Min(differ)]

(****************************************************************************)
(* my_printf, with format_string and itoa as it uses them.                  *)
(****************************************************************************)
\* itoa in base 10, of an int of w bits.  The least int has no negative:
\* num = -num leaves it as it is, its one remainder is written and the loop
\* ends.
Itoa(num, w) ==
  LET digits[k \in 0..(2^(w - 1))] ==
        IF k < 10 THEN <<Digit(k)>> ELSE Append(digits[k \div 10], Digit(k % 10))
      least == -(2^(w - 1))
  IN IF num = least THEN <<Minus, Digit(-((-num) % 10))>>
     ELSE IF num < 0 THEN <<Minus>> \o digits[-num]
     ELSE digits[num]

\* What my_printf does with one conversion: how much of the format it takes,
\* whether an argument, what it writes and whether it shuts the kernel down.
\* The conversions that end in x and u, and the long ones, reach the last
\* branch of format_string, which writes the letters.
Conversion(takes, arg, out, stop) == [takes |-> takes, arg |-> arg, out |-> out, stop |-> stop]

CharS == 115
CharD == 100
CharX == 120
CharU == 117
CharL == 108

\* The text of the error message
Complaint == <<33>>

\* Mutant: a number does not use up its argument.
Convert_Peeks(m, first, second, arg, w) ==
  IF first = Percent THEN Conversion(2, 0, <<Percent>>, FALSE)
  ELSE IF first = CharS THEN Conversion(2, 1, StringAt(m, arg), FALSE)
  ELSE IF first = CharD THEN Conversion(2, 0, Itoa(arg, w), FALSE)
  ELSE Conversion(2, 0, Complaint, TRUE)

Convert(m, first, second, arg, w) ==
  IF first = Percent THEN Conversion(2, 0, <<Percent>>, FALSE)
  ELSE IF first = CharS /\ arg = NUL THEN Conversion(2, 1, Complaint, TRUE)
  ELSE IF first = CharS THEN Conversion(2, 1, StringAt(m, arg), FALSE)
  ELSE IF first = CharD THEN Conversion(2, 1, Itoa(arg, w), FALSE)
  ELSE IF first \in {CharX, CharU} THEN Conversion(2, 1, <<first>>, FALSE)
  ELSE IF first = CharL /\ second \in {CharD, CharX, CharU}
    THEN Conversion(3, 1, <<CharL, second>>, FALSE)
  ELSE Conversion(2, 0, Complaint, TRUE)

\* Position i of the format, a arguments taken.  A format that ends in '%'
\* meets its NUL there.
CharAt(fmt, i) == IF i \in DOMAIN fmt THEN fmt[i] ELSE NUL
ArgAt(args, a) == IF a \in DOMAIN args THEN args[a] ELSE NUL

\* From one position of the format and of the arguments to the next.
Printf(m, fmt, args, w) ==
  LET From[i, a \in Nat] ==
        IF CharAt(fmt, i) = NUL THEN [out |-> <<>>, stop |-> FALSE]
        ELSE LET c == IF fmt[i] # Percent THEN Conversion(1, 0, <<fmt[i]>>, FALSE)
                      ELSE Convert(m, CharAt(fmt, i + 1), CharAt(fmt, i + 2), ArgAt(args, a), w)
             IN IF c.stop THEN [out |-> c.out, stop |-> TRUE]
                ELSE LET rest == From[i + c.takes, a + c.arg]
                     IN [out |-> c.out \o rest.out, stop |-> rest.stop]
  IN From[1, 1]
=============================================================================
