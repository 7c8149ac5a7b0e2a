------------------------------ MODULE ConsoleRing ------------------------------
(****************************************************************************)
(* The console of src/src/xencons_ring.c and src/src/console.c: an output and *)
(* an input ring shared with the console daemon.  The kernel thread prints;   *)
(* the handler consoleHandler, which interrupts it, takes what was typed and  *)
(* echoes it through the same output ring.                                    *)
(*                                                                            *)
(* The buffer of console.c is never set up (consoleBufferInit has no caller), *)
(* so consolePrintDestination sends to the ring and consoleDoAll does nothing.*)
(* A cell of the output ring holds <<sender, n>>, the n-th character of one    *)
(* of the two senders, so that lost and repeated characters show.             *)
(****************************************************************************)
EXTENDS RingIndex, Sequences

CONSTANTS
  OutSize, InSize,        \* sizes of the rings (2048 and 1024 bytes)
  OutStarts, InStarts,    \* where earlier output and input left the indices
  Texts,                  \* what the thread prints: sequences of "x" and "nl"
  MaxPrints, MaxTyped     \* bounds

ASSUME SizesAssumption == /\ OutSize \in Nat \ {0, 1} /\ InSize \in Nat \ {0}
                          /\ 4 * OutSize <= IdxMod /\ 4 * InSize <= IdxMod
                          /\ IdxMod % OutSize = 0 /\ IdxMod % InSize = 0
ASSUME StartAssumption == (OutStarts \cup InStarts) \subseteq 0 .. IdxMod - 1
ASSUME BoundsAssumption == MaxPrints \in Nat /\ MaxTyped \in Nat

\* xencons_ring_send stops the kernel when a message does not fit in the ring:
\* no line is longer.
LineEnds(text, i)     == \E j \in i .. i + OutSize : text[j] = "nl"
ASSUME TextAssumption == \A text \in Texts : /\ text \in Seq({"x", "nl"})
                                            /\ \A i \in 1 .. Len(text) - OutSize : LineEnds(text, i)

VARIABLES
  out, out_prod, out_cons,  \* xencons_interface: the output ring
  in, in_prod, in_cons,     \* ... and the input ring
  send,                     \* per sender, its call of xencons_ring_send
  kern,                     \* the thread: where it is, and how often it printed
  initialized,              \* consoleInitialized
  cb,                       \* the handler: where it is, its cons and prod
  temp,                     \* the line of input
  pend, note,               \* events pending: for the kernel, for the daemon
  daemon,                   \* whether it is awake, and how far it will read
  typed, shown,             \* history: input, and output the daemon showed
  published,                \* history: characters of each sender it was given
  broken                    \* history: known accidents that have happened

output == <<out, out_prod, out_cons>>
input  == <<in, in_prod, in_cons>>
past   == <<typed, shown, published, broken>>
vars   == <<output, input, send, kern, initialized, cb, temp, pend, note, daemon, past>>

Senders == {"thread", "handler"}

\* consolePrint cuts a text at its newlines, each of which becomes "\r\n", and
\* sends the pieces one by one: here their lengths.
Flushed(cut) == IF cut.run = 0 THEN cut.lengths ELSE Append(cut.lengths, cut.run)
CutAt(cut, c) == IF c = "nl" THEN [lengths |-> Append(Flushed(cut), 2), run |-> 0]
                             ELSE [cut EXCEPT !.run = @ + 1]
consolePrint(text) ==
  LET cut[k \in 0 .. Len(text)] == IF k = 0 THEN [lengths |-> <<>>, run |-> 0]
                                   ELSE CutAt(cut[k - 1], text[k])
  IN Flushed(cut[Len(text)])

\* A call that still has the pieces todo to send.
Call(pieces, made) == [pc |-> IF pieces = <<>> THEN "off" ELSE "cons", todo |-> pieces,
                       sent |-> 0, cons |-> 0, prod |-> 0, left |-> 0, made |-> made]
Sending(w) == send[w].pc # "off"

\* The handler interrupts the thread: only one of them runs.
Resting == cb.pc \in {"unbound", "off"}
At(pc)  == kern.pc = pc /\ Resting
Runs(w) == IF w = "thread" THEN Resting ELSE cb.pc = "loop"

\* The kernel before consoleInit; the handler is not bound yet.
Init == /\ out = [i \in 0 .. OutSize - 1 |-> <<"none", 0>>]
        /\ out_prod \in OutStarts /\ out_cons = out_prod
        /\ in = [i \in 0 .. InSize - 1 |-> "nul"]
        /\ in_prod \in InStarts /\ in_cons = in_prod
        /\ send = [w \in Senders |-> Call(<<>>, 0)]
        /\ kern = [pc |-> "idle", prints |-> 0]
        /\ initialized = FALSE
        /\ cb = [pc |-> "unbound", cons |-> 0, prod |-> 0]
        /\ temp = <<>>
        /\ pend = FALSE /\ note = FALSE
        /\ daemon = [awake |-> FALSE, upto |-> 0]
        /\ typed = <<>> /\ shown = <<>>
        /\ published = [w \in Senders |-> 0]
        /\ broken = {}

----------------------------------------------------------------------------
\* xencons_ring_send.  Both indices are read each time round the loop,
ReadCons(w) == /\ Runs(w) /\ send[w].pc = "cons"
               /\ send' = [send EXCEPT ![w].cons = out_cons, ![w].pc = "prod"]
               /\ UNCHANGED <<output, input, kern, initialized, cb, temp, pend, note, daemon, past>>

\* Names with an underscore are deliberately wrong variants of the definition
\* that follows them; each is used only to see a property fail.

\* ... room is counted one too many
Room_OffByOne(prod, cons) == OutSize - Used(prod, cons) + 1

\* (room is an int: out_prod beyond the ring's end makes it 0 or less, out_prod
\* behind out_cons more than the ring)
Room(prod, cons) == LET used == Used(prod, cons) IN
                    IF used <= OutSize THEN OutSize - used
                    ELSE IF 2 * used < IdxMod THEN 0 ELSE OutSize + IdxMod - used

Smaller(a, b) == IF a < b THEN a ELSE b

\* ... the daemon's index is not read again
ReadProd_StaleCons(w) ==
  /\ Runs(w) /\ send[w].pc = "prod"
  /\ LET room == Room(out_prod, send[w].cons) IN
     /\ room # 0
     /\ send' = [send EXCEPT ![w].pc = "copy", ![w].prod = out_prod,
                             ![w].left = Smaller(room, Head(send[w].todo) - send[w].sent)]
  /\ UNCHANGED <<output, input, kern, initialized, cb, temp, pend, note, daemon, past>>

\* and either there is room for a part of the piece, or the kernel yields.
ReadProd(w) ==
  /\ Runs(w) /\ send[w].pc = "prod"
  /\ LET room == Room(out_prod, send[w].cons) IN
     send' = IF room = 0 THEN [send EXCEPT ![w].pc = "cons"]
             ELSE [send EXCEPT ![w].pc = "copy", ![w].prod = out_prod,
                               ![w].left = Smaller(room, Head(send[w].todo) - send[w].sent)]
  /\ UNCHANGED <<output, input, kern, initialized, cb, temp, pend, note, daemon, past>>

\* The part is copied character by character,
Copy(w) ==
  /\ Runs(w) /\ send[w].pc = "copy"
  /\ LET s == send[w] IN
     /\ out' = [out EXCEPT ![s.prod % OutSize] = <<w, s.made + 1>>]
     /\ send' = [send EXCEPT ![w] = [s EXCEPT !.prod = Advance(s.prod, 1), !.sent = s.sent + 1,
                                             !.made = s.made + 1, !.left = s.left - 1,
                                             !.pc = IF s.left = 1 THEN "publish" ELSE "copy"]]
  /\ UNCHANGED <<out_prod, out_cons, input, kern, initialized, cb, temp, pend, note, daemon, past>>

\* and the index is stored; after the last part the daemon is notified, once
\* the console is initialized.
Overtakes(w) == w = "handler" /\ send["thread"].pc \in {"copy", "publish"}

Publish(w) ==
  /\ Runs(w) /\ send[w].pc = "publish"
  /\ out_prod' = send[w].prod
  /\ published' = [published EXCEPT ![w] = send[w].made]
  /\ broken' = IF Overtakes(w) THEN broken \cup {"overtaken"} ELSE broken
  /\ IF send[w].sent = Head(send[w].todo)
       THEN /\ send' = [send EXCEPT ![w] = Call(Tail(@.todo), @.made)]
            /\ note' = (note \/ initialized)
       ELSE send' = [send EXCEPT ![w].pc = "cons"] /\ UNCHANGED note
  /\ UNCHANGED <<out, out_cons, input, kern, initialized, cb, temp, pend, daemon, typed, shown>>

Send(w) == ReadCons(w) \/ ReadProd(w) \/ Copy(w) \/ Publish(w)

----------------------------------------------------------------------------
\* The thread: print,
Begin(text) ==
  /\ At("idle") /\ ~Sending("thread") /\ kern.prints < MaxPrints
  /\ kern' = [kern EXCEPT !.prints = @ + 1]
  /\ send' = [send EXCEPT !["thread"] = Call(consolePrint(text), @.made)]
  /\ UNCHANGED <<output, input, initialized, cb, temp, pend, note, daemon, past>>

\* and consoleInit: xencons_ring_init binds the handler and notifies the
\* daemon, and xencons_flush waits until the ring is empty.
InitBind == /\ At("idle") /\ ~Sending("thread") /\ ~initialized
            /\ cb' = [cb EXCEPT !.pc = "off"]
            /\ note' = TRUE
            /\ kern' = [kern EXCEPT !.pc = "flush"]
            /\ UNCHANGED <<output, input, send, initialized, temp, pend, daemon, past>>

InitFlushed == /\ At("flush") /\ out_cons = out_prod
               /\ initialized' = TRUE
               /\ kern' = [kern EXCEPT !.pc = "idle"]
               /\ UNCHANGED <<output, input, send, cb, temp, pend, note, daemon, past>>

Thread == Send("thread") \/ InitFlushed

----------------------------------------------------------------------------
\* The upcall calls consoleHandler, which reads both indices once,
Deliver == /\ cb.pc = "off" /\ pend
           /\ cb' = [pc |-> "loop", cons |-> in_cons, prod |-> in_prod]
           /\ UNCHANGED <<output, input, send, kern, initialized, temp, pend, note, daemon, past>>

\* and gives each character to xencons_rx, which first ends it with a '\0':
\* in the next cell of the ring, or in the first of the output ring, which
\* follows the last of the input ring in memory.
Echo(c) == CASE c = "a"   -> <<"x">>
             [] c = "cr"  -> <<"x", "nl">>
             [] c = "nul" -> <<>>

Terminate(i) ==
  IF i + 1 < InSize
    THEN /\ in' = [in EXCEPT ![i + 1] = "nul"]
         /\ broken' = IF Used(in_prod, cb.cons) > 1 THEN broken \cup {"erased"} ELSE broken
         /\ UNCHANGED out
    ELSE /\ out' = [out EXCEPT ![0] = <<"none", 0>>]
         /\ broken' = broken \cup {"spilt"}
         /\ UNCHANGED in

TakeChar ==
  /\ cb.pc = "loop" /\ ~Sending("handler") /\ cb.cons # cb.prod
  /\ LET i == cb.cons % InSize IN
     /\ Terminate(i)
     /\ temp' = Append(temp, in[i])
     /\ send' = [send EXCEPT !["handler"] = Call(consolePrint(Echo(in[i])), @.made)]
  /\ cb' = [cb EXCEPT !.cons = Advance(@, 1)]
  /\ UNCHANGED <<out_prod, out_cons, in_prod, in_cons, kern, initialized, pend, note, daemon,
                 typed, shown, published>>

\* ... the index is taken from the ring, not from the copy
EndInput_Reread == /\ cb.pc = "loop" /\ ~Sending("handler") /\ cb.cons = cb.prod
                   /\ in_cons' = in_prod
                   /\ note' = TRUE
                   /\ cb' = [cb EXCEPT !.pc = "clear"]
                   /\ UNCHANGED <<output, in, in_prod, send, kern, initialized, temp, pend,
                                  daemon, past>>

\* At the end the index is stored and the daemon notified;
EndInput == /\ cb.pc = "loop" /\ ~Sending("handler") /\ cb.cons = cb.prod
            /\ in_cons' = cb.cons
            /\ note' = TRUE
            /\ cb' = [cb EXCEPT !.pc = "clear"]
            /\ UNCHANGED <<output, in, in_prod, send, kern, initialized, temp, pend, daemon, past>>

\* xenEventHandle then clears the pending bit.
Clear == /\ cb.pc = "clear"
         /\ pend' = FALSE
         /\ cb' = [cb EXCEPT !.pc = "off"]
         /\ UNCHANGED <<output, input, send, kern, initialized, temp, note, daemon, past>>

Upcall == Deliver \/ TakeChar \/ Send("handler") \/ EndInput \/ Clear

----------------------------------------------------------------------------
\* The daemon wakes when it is notified and looks at the output ring, which it
\* leaves alone when the indices make no sense;
DaemonWake == /\ note /\ ~daemon.awake
              /\ note' = FALSE
              /\ daemon' = [awake |-> Used(out_prod, out_cons) \in 1 .. OutSize, upto |-> out_prod]
              /\ UNCHANGED <<output, input, send, kern, initialized, cb, temp, pend, past>>

\* it shows what it found, moves its index and notifies the kernel.
Between(cons, prod) == [k \in 1 .. Used(prod, cons) |-> out[(cons + k - 1) % OutSize]]

DaemonShow == /\ daemon.awake
              /\ shown' = shown \o Between(out_cons, daemon.upto)
              /\ out_cons' = daemon.upto
              /\ daemon' = [daemon EXCEPT !.awake = FALSE]
              /\ pend' = TRUE
              /\ UNCHANGED <<out, out_prod, input, send, kern, initialized, cb, temp, note, typed,
                             published, broken>>

\* Somebody types a character; while the handler runs, it is too late for the
\* handler, and the event will be erased.
DaemonType(c) == /\ Len(typed) < MaxTyped /\ Used(in_prod, in_cons) < InSize
                 /\ in' = [in EXCEPT ![in_prod % InSize] = c]
                 /\ in_prod' = Advance(in_prod, 1)
                 /\ typed' = Append(typed, c)
                 /\ pend' = TRUE
                 /\ broken' = IF cb.pc \in {"loop", "clear"} THEN broken \cup {"late"} ELSE broken
                 /\ UNCHANGED <<output, in_cons, send, kern, initialized, cb, temp, note, daemon,
                                shown, published>>

Next == \/ \E text \in Texts : Begin(text)
        \/ InitBind \/ Thread \/ Upcall
        \/ DaemonWake \/ DaemonShow \/ \E c \in {"a", "cr"} : DaemonType(c)

\* The thread runs when the handler does not; the daemon answers notifications.
Spec == /\ Init /\ [][Next]_vars
        /\ WF_vars(Thread) /\ WF_vars(Upcall) /\ WF_vars(DaemonWake \/ DaemonShow)

----------------------------------------------------------------------------
Cells == {<<"none", 0>>} \cup (Senders \X Nat)

\* Types of rings, indices and positions.
TypeOK == /\ out \in [0 .. OutSize - 1 -> Cells] /\ in \in [0 .. InSize - 1 -> {"nul", "a", "cr"}]
          /\ {out_prod, out_cons, in_prod, in_cons} \subseteq 0 .. IdxMod - 1
          /\ \A w \in Senders : /\ send[w].pc \in {"off", "cons", "prod", "copy", "publish"}
                                /\ send[w].prod \in 0 .. IdxMod - 1
                                /\ send[w].left \in 0 .. OutSize
          /\ kern.pc \in {"idle", "flush"}
          /\ cb.pc \in {"unbound", "off", "loop", "clear"}
          /\ initialized \in BOOLEAN /\ pend \in BOOLEAN /\ note \in BOOLEAN
          /\ broken \subseteq {"overtaken", "erased", "spilt", "late"}

\* What either sender gave the ring is shown or still in the ring, each
\* character once and in order, however the two are interleaved and whether
\* the ring is full, empty or wraps: except after the handler has sent in the
\* middle of a copy of the thread, or written beyond the input ring.
From(w, chars) ==
  LET from[k \in 0 .. Len(chars)] == IF k = 0 THEN <<>>
                                     ELSE IF chars[k][1] # w THEN from[k - 1]
                                     ELSE Append(from[k - 1], chars[k])
  IN from[Len(chars)]
Given(w)    == From(w, shown \o Between(out_cons, out_prod))
Kept(w)     == Given(w) = [k \in 1 .. published[w] |-> <<w, k>>]
OutputWhole ==
  /\ TypeOK
  /\ broken \cap {"overtaken", "spilt"} = {} => \A w \in Senders : Kept(w)

\* The input line is what was typed, each character once and in order, but for
\* characters erased by the terminator of the one before.
NextIn     == IF cb.pc = "loop" THEN cb.cons ELSE in_cons
Waiting    == [k \in 1 .. Used(in_prod, NextIn) |-> in[(NextIn + k - 1) % InSize]]
InputWhole == "erased" \notin broken => temp \o Waiting = typed

\* What is typed once the console is initialized is taken, even while the ring
\* for its echo is full, unless it was typed while the handler ran.
Untaken    == in_cons # in_prod
InputTaken == (Untaken /\ initialized) ~> (~Untaken \/ "late" \in broken)

\* Printing returns although the daemon is notified only after a whole piece:
\* the ring is never full with the daemon asleep, once it can be notified.
Printing     == \E w \in Senders : Sending(w)
PrintReturns == (Printing /\ initialized) ~> ~Printing

\* xencons_ring.c:66 "copies over len bytes from data to the console": what was
\* sent is shown or still in the ring.  Violated: the handler may send between
\* the thread's reading of out_prod and its storing of it.
AllSent == \A w \in Senders : Kept(w)

============================================================================
