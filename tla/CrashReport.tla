----------------------------- MODULE CrashReport -----------------------------
(****************************************************************************)
(* How the kernel dies: traps and assertions end in debugExit, which writes *)
(* a backtrace and shuts the domain down (src/debug.c, arch/x86_64/traps.c, *)
(* archDebug.c, trapsSpecific.c and the exception entries of entry.S).      *)
(*                                                                          *)
(* The stack is modelled word by word, as the calls, exceptions and events  *)
(* of the running kernel leave it, in a build that keeps frame pointers;    *)
(* the unwinder reads it back.  `callers' is the truth it is compared with. *)
(****************************************************************************)
EXTENDS Integers, Sequences

CONSTANTS
  VirtStart,           \* the first address of the kernel's text
  StartSite,           \* the return address of startKernel, in _start
  CallSites,           \* the other addresses of the kernel's own code
  WildTargets,         \* where a call through a bad pointer may go: no code is there
  EntrySite,           \* the return address of a trap handler, in entryException
  CallbackSite,        \* ... of the event handler, in hypervisor_callback
  StackBase,           \* the first word of `stack'
  StackSize,           \* its size in words
  R15Values,           \* what may be in register r15 when the kernel is interrupted
  Builds,              \* the values of the build flag WITH_ASSERTS
  Archives,            \* the initial stores the domain may be started with
  KernelVersion,       \* this kernel's version string
  VersionAddress       \* the address of kernel_version

CodeAddresses == CallSites \cup {StartSite, EntrySite, CallbackSite}
Addresses == CodeAddresses \cup WildTargets

ASSUME LayoutAssumption ==
  /\ VirtStart \in Nat /\ StackBase \in Nat /\ StackSize \in Nat
  /\ \A a \in CodeAddresses : a \in Nat /\ VirtStart < a /\ a < StackBase
  /\ EntrySite \notin CallSites /\ CallbackSite \notin CallSites
  /\ StartSite \notin CallSites \cup {EntrySite, CallbackSite}
  /\ WildTargets \subseteq Nat /\ WildTargets \cap CodeAddresses = {}
  /\ R15Values \subseteq Nat
  /\ Builds \subseteq BOOLEAN

VARIABLES
  mem,        \* the words of the stack
  sp, fp,     \* rsp and rbp; they differ where a call has no frame yet, or no more
  inEvent,    \* events are masked: the event handler runs
  callers,    \* history: the return addresses of the calls that have a frame and
              \* the addresses at which code was interrupted, innermost first
  archive,    \* the initial store
  withAsserts,\* the build flag WITH_ASSERTS
  symtab,     \* _debugSymtab and _debugStrtab, or NoSymbols
  pc,         \* what the kernel does
  regs,       \* the argument of debugExit, 0 for NULL
  frame,      \* debugUnwind: the current frame
  isRegs,     \* debugUnwind: it is a register structure
  printed,    \* the backtrace so far: addresses and names (see Report)
  truth       \* history: the callers when the backtrace was begun

vars == <<mem, sp, fp, inEvent, callers, archive, withAsserts, symtab, pc, regs, frame,
          isRegs, printed, truth>>
unwinding == <<regs, frame, isRegs, printed, truth>>

StackEnd == StackBase + StackSize
Stack == StackBase..(StackEnd - 1)
NoSymbols == <<>>
KernelCs == 1
UserCs == 2

(****************************************************************************)
(* The initial store: a TAR archive in blocks.  A member is a header block  *)
(* with a name and a length, and the blocks of its content.                 *)
(****************************************************************************)
\* The index of the header initialStoreFind stops at, searching from `seek';
\* 0 when the archive ends first.
Find(store, name) ==
  LET from[seek \in 1..(Len(store) + 1)] ==
        IF seek > Len(store) THEN 0
        ELSE IF store[seek].name = name THEN seek
        ELSE IF seek + 1 + store[seek].blocks > Len(store) THEN 0
        ELSE from[seek + 1 + store[seek].blocks]
  IN from[1]

\* debugLookupName: the first symbol of the name
LookupName(table, name) ==
  LET of == {i \in DOMAIN table : table[i].name = name}
  IN IF of = {} THEN 0 ELSE CHOOSE i \in of : \A j \in of : i <= j

Contains(symbol, address) ==
  \/ address > symbol.value /\ address < symbol.value + symbol.size
  \/ address = symbol.value

\* debugLookupAddress: the first symbol that contains the address
LookupAddress(table, address) ==
  LET of == {i \in DOMAIN table : Contains(table[i], address)}
  IN IF of = {} THEN "unknown" ELSE table[CHOOSE i \in of : \A j \in of : i <= j].name

\* _debugFindSymbols, after the file is found.  Out of bounds of the file, the
\* section table is read all the same by a build without assertions.
ReadsSections(elf) == elf.header = "kernel" /\ (elf.inBounds \/ ~withAsserts)

\* The names are looked up through the tables that were found, or through NULL.
LookupFaults(elf) == ~elf.symtab \/ (~elf.strtab /\ elf.symbols # <<>>)

\* The version has this one as a prefix: strncmp stops at the end of VERSION_SYMBOL.
BeginsWith(text, prefix) ==
  Len(prefix) <= Len(text) /\ \A i \in DOMAIN prefix : text[i] = prefix[i]

SameVersion(elf, i) ==
  /\ i # 0
  /\ elf.symbols[i].value = VersionAddress
  /\ elf.symbols[i].section < elf.sections
  /\ BeginsWith(elf.version, KernelVersion)

\* Mutant: the symbols of another build are used.
FoundSymbols_AnyBuild(elf) ==
  IF LookupName(elf.symbols, "kernel_version") # 0 THEN elf.symbols ELSE NoSymbols

FoundSymbols(elf) ==
  IF SameVersion(elf, LookupName(elf.symbols, "kernel_version")) THEN elf.symbols ELSE NoSymbols

\* An initial store is a sequence of blocks, and so are the symbols of a file
\* of the right kind.
ASSUME ArchivesAssumption ==
  \A store \in Archives :
    /\ store \in Seq({store[i] : i \in DOMAIN store})
    /\ \A i \in DOMAIN store :
         /\ store[i].blocks \in Nat
         /\ store[i].elf.header = "kernel" =>
              LET symbols == store[i].elf.symbols
              IN symbols \in Seq({symbols[k] : k \in DOMAIN symbols})

(****************************************************************************)
(* The stack.  A call leaves the return address, and the function it enters *)
(* the caller's frame pointer; an exception or event leaves the registers,  *)
(* of which r15 is the lowest word, and calls its handler with their        *)
(* address in a register.                                                   *)
(****************************************************************************)
Pushed(at, words) ==
  [a \in Stack |-> IF a \in at..(at + Len(words) - 1) THEN words[a - at + 1] ELSE mem[a]]

FrameWords == 2
RegsWords == 4
Fits(words) == sp - words >= StackBase

\* The innermost call has its frame.
Framed == sp = fp

\* A whole call, with its frame
Push(site) ==
  /\ mem' = Pushed(sp - FrameWords, <<fp, site>>)
  /\ sp' = sp - FrameWords
  /\ fp' = sp - FrameWords
  /\ callers' = <<site>> \o callers

\* zeroentry, errorentry, entryException: r15, rbp, rip and cs stand for the
\* registers
PushRegs(ip, r15, site) ==
  LET base == sp - RegsWords IN
  /\ mem' = Pushed(base - FrameWords, <<fp, site, r15, fp, ip, KernelCs>>)
  /\ sp' = base - FrameWords
  /\ fp' = base - FrameWords
  /\ callers' = <<site, ip>> \o callers

\* The kernel's own calls leave room for one exception and the report.
Reserve == RegsWords + 3 * FrameWords
Room(words) == Fits(words + Reserve)

\* call, and the push %rbp; mov %rsp,%rbp of the function; an exception or
\* event may come in between
Call ==
  /\ pc = "running" /\ Framed /\ Room(FrameWords)
  /\ \E site \in CallSites : mem' = Pushed(sp - 1, <<site>>)
  /\ sp' = sp - 1
  /\ UNCHANGED <<fp, callers, inEvent, archive, withAsserts, symtab, pc, unwinding>>

Enter ==
  /\ pc = "running" /\ ~Framed /\ Room(1)
  /\ mem' = Pushed(sp - 1, <<fp>>)
  /\ sp' = sp - 1 /\ fp' = sp - 1
  /\ callers' = <<mem[sp]>> \o callers
  /\ UNCHANGED <<inEvent, archive, withAsserts, symtab, pc, unwinding>>

\* leave, and ret
Leave ==
  /\ pc = "running" /\ Framed
  /\ mem[fp + 1] \in CallSites
  /\ sp' = fp + 1
  /\ fp' = mem[fp]
  /\ callers' = Tail(callers)
  /\ UNCHANGED <<mem, inEvent, archive, withAsserts, symtab, pc, unwinding>>

Return ==
  /\ pc = "running" /\ ~Framed
  /\ sp' = sp + 1
  /\ UNCHANGED <<mem, fp, callers, inEvent, archive, withAsserts, symtab, pc, unwinding>>

\* hypervisor_callback: an event interrupts the kernel once
Event ==
  /\ pc = "running" /\ ~inEvent /\ Room(RegsWords + FrameWords)
  /\ \E ip \in CallSites, r15 \in R15Values : PushRegs(ip, r15, CallbackSite)
  /\ inEvent' = TRUE
  /\ UNCHANGED <<archive, withAsserts, symtab, pc, unwinding>>

\* retint_kernel, restore_all_enable_events
EventReturn ==
  /\ pc = "running" /\ Framed
  /\ mem[fp + 1] = CallbackSite
  /\ sp' = fp + FrameWords + RegsWords
  /\ fp' = mem[fp]
  /\ callers' = Tail(Tail(callers))
  /\ inEvent' = FALSE
  /\ UNCHANGED <<mem, archive, withAsserts, symtab, pc, unwinding>>

\* An exception that ends in debugExit(regs), and a failed assertion, which
\* ends in debugExit(NULL) (mixinExit)
Exception(ip) ==
  /\ \E r15 \in R15Values : PushRegs(ip, r15, EntrySite)
  /\ regs' = sp - RegsWords
  /\ pc' = "exit"

Assertion ==
  /\ \E site \in CallSites : Push(site)
  /\ regs' = 0
  /\ pc' = "exit"

\* debugInit: symbols when the store has them, read through NULL when it has no
\* such file (the result is used before its status is tested) or the file no
\* symbol table; a file that is not this kind of ELF fails an assertion.  What
\* lies where a section table out of bounds should be is not known: it may look
\* like the table of `elf', to its end or up to a page that is not mapped, and
\* the tables found by then stay.
DebugInit ==
  /\ pc = "running" /\ Framed /\ symtab = NoSymbols /\ callers = <<StartSite>>
  /\ LET i == Find(archive, "ethos.elf")
         elf == archive[i].elf
     IN \/ /\ i # 0 => ReadsSections(elf) /\ (LookupFaults(elf) \/ ~elf.inBounds)
           /\ \E ip \in CallSites : Exception(ip)
           /\ \/ UNCHANGED symtab
              \/ i # 0 /\ ~elf.inBounds /\ elf.symtab /\ elf.strtab /\ symtab' = elf.symbols
        \/ /\ i # 0 /\ ~ReadsSections(elf) /\ withAsserts
           /\ Assertion
           /\ UNCHANGED symtab
        \/ /\ i # 0 /\ (IF ReadsSections(elf) THEN ~LookupFaults(elf) ELSE ~withAsserts)
           /\ symtab' = IF ReadsSections(elf) THEN FoundSymbols(elf) ELSE NoSymbols
           /\ UNCHANGED <<mem, sp, fp, callers, pc, regs>>
  /\ UNCHANGED <<inEvent, archive, withAsserts, frame, isRegs, printed, truth>>

\* BUG, BUG_ON, ASSERT
Bug ==
  /\ pc = "running" /\ Framed
  /\ Assertion
  /\ UNCHANGED <<inEvent, archive, withAsserts, symtab, frame, isRegs, printed, truth>>

(****************************************************************************)
(* Traps.                                                                   *)
(****************************************************************************)
\* archPrivilegeState: anything that is neither kernel nor user is a BUG
Privilege(cs) == IF cs = KernelCs THEN "kernel" ELSE IF cs = UserCs THEN "user" ELSE "bug"

\* trapDefault and trapInt3: debugExit(regs).  The kernel runs no process, so
\* it is the kernel that traps: in its code, or where a call through a bad
\* pointer took it.
Trap ==
  /\ pc = "running"
  /\ \E ip \in CallSites \cup (IF Framed THEN {} ELSE WildTargets) : Exception(ip)
  /\ UNCHANGED <<inEvent, archive, withAsserts, symtab, frame, isRegs, printed, truth>>

\* trapDeviceNotAvailable: dumps the registers, then BUG
TrapDeviceNotAvailable ==
  /\ pc = "running"
  /\ \E ip \in CallSites, r15 \in R15Values : PushRegs(ip, r15, EntrySite)
  /\ pc' = "bug"
  /\ UNCHANGED <<inEvent, archive, withAsserts, symtab, unwinding>>

\* BUG inside a handler, or inside the report: one more frame, and again
\* debugExit(NULL); a stack that is used up ends it all.
BugAgain ==
  /\ pc = "bug"
  /\ IF Fits(FrameWords)
       THEN Assertion
       ELSE /\ pc' = "overflow"
            /\ UNCHANGED <<mem, sp, fp, callers, regs>>
  /\ UNCHANGED <<inEvent, archive, withAsserts, symtab, frame, isRegs, printed, truth>>

(****************************************************************************)
(* debugExit and debugUnwind.                                               *)
(****************************************************************************)
Mapped(a) == a \in Stack
Garbage == 0
At(a) == IF a \in Stack THEN mem[a] ELSE Garbage

\* Mutant: the field of another register is read.
FpWord_R15(f) == f

\* Where the words the unwinder wants are: of the registers rip and rbp, of a
\* frame the return address, the old frame and the first stack argument.
IpWord(f, r) == IF r THEN f + 2 ELSE f + 1
CsWord(f) == f + 3
FpWord(f) == f + 1
OldFrameWord(f) == f
LastArgumentWord(f) == f + 2

\* Mutant: the registers are taken to be there.
DebugExit_Trusting ==
  /\ pc = "exit"
  /\ inEvent' = TRUE
  /\ isRegs' = TRUE /\ frame' = regs /\ truth' = Tail(callers) /\ printed' = <<>>
  /\ pc' = IF Privilege(At(CsWord(regs))) = "bug" THEN "bug" ELSE "unwind"
  /\ UNCHANGED <<mem, sp, fp, callers, archive, withAsserts, symtab, regs>>

\* debugExit: events are off; the registers are unwound when there are any
\* and they can be read, the current frame otherwise.
DebugExit ==
  /\ pc = "exit"
  /\ inEvent' = TRUE
  /\ LET useRegs == regs # 0 /\ \A a \in regs..(regs + RegsWords - 1) : Mapped(a) IN
     /\ isRegs' = useRegs
     /\ frame' = IF useRegs THEN regs ELSE fp
     /\ truth' = IF useRegs THEN Tail(callers) ELSE callers
     /\ pc' = IF useRegs /\ Privilege(At(CsWord(regs))) = "bug" THEN "bug" ELSE "unwind"
  /\ printed' = <<>>
  /\ UNCHANGED <<mem, sp, fp, callers, archive, withAsserts, symtab, regs>>

\* archDebugUnwindNextFrameIsRegs
NextFrameIsRegs(ra) == ra \in {EntrySite, CallbackSite}

\* _debugUnwindValid, after its assertion
Valid(ra, f) == ra > VirtStart /\ f >= StackBase /\ f < StackEnd

\* A line of the report.  The history keeps one line more than there were calls
\* to report, so that an unwinder that goes in circles is one in the model.
Report(ra) ==
  printed' = IF Len(printed) > Len(truth) THEN printed
             ELSE Append(printed, [at |-> ra, name |-> LookupAddress(symtab, ra)])

\* One turn of the loop: the return address, the address of the next frame,
\* the line of the report, and whether to go on.
UnwindStep ==
  /\ pc = "unwind"
  /\ LET ra == At(IpWord(frame, isRegs))
         privilege == IF isRegs THEN Privilege(At(CsWord(frame))) ELSE "kernel"
         at == IF isRegs THEN FpWord(frame)
               ELSE IF NextFrameIsRegs(ra) THEN LastArgumentWord(frame)
               ELSE OldFrameWord(frame)
     IN IF ~Mapped(IpWord(frame, isRegs))
          THEN pc' = "flush" /\ UNCHANGED <<frame, isRegs, printed>>
        ELSE IF privilege = "bug"
          THEN pc' = "bug" /\ isRegs' = FALSE /\ UNCHANGED <<frame, printed>>
        ELSE /\ isRegs' = (~isRegs /\ NextFrameIsRegs(ra))
             /\ IF ~Mapped(at)
                  THEN pc' = "flush" /\ UNCHANGED <<frame, printed>>
                  ELSE /\ frame' = At(at)
                       /\ Report(ra)
                       /\ pc' = IF withAsserts /\ privilege = "user" THEN "bug"
                                ELSE IF Valid(ra, At(at)) THEN "unwind" ELSE "flush"
  /\ UNCHANGED <<mem, sp, fp, inEvent, callers, archive, withAsserts, symtab, regs, truth>>

\* consoleFlush, and xenScheduleShutdown, which does not return
Shutdown ==
  /\ pc = "flush"
  /\ pc' = "off"
  /\ UNCHANGED <<mem, sp, fp, inEvent, callers, archive, withAsserts, symtab, unwinding>>

(****************************************************************************)
(* The specification.                                                       *)
(****************************************************************************)
\* _start calls startKernel on the empty stack; the frame pointer Xen left is
\* not one of the kernel's.
Init ==
  /\ mem = [a \in Stack |-> IF a = StackEnd - 1 THEN StartSite ELSE 0]
  /\ sp = StackEnd - FrameWords /\ fp = StackEnd - FrameWords
  /\ inEvent = FALSE
  /\ callers = <<StartSite>>
  /\ archive \in Archives /\ withAsserts \in Builds
  /\ symtab = NoSymbols
  /\ pc = "running"
  /\ regs = 0 /\ frame = 0 /\ isRegs = FALSE /\ printed = <<>> /\ truth = <<>>

Running == Call \/ Enter \/ Leave \/ Return \/ Event \/ EventReturn
Fatal == DebugInit \/ Bug \/ Trap \/ TrapDeviceNotAvailable
Dying == BugAgain \/ DebugExit \/ UnwindStep \/ Shutdown

Next == Running \/ Fatal \/ Dying

\* A kernel that dies goes on executing debugExit.
Spec == Init /\ [][Next]_vars /\ WF_vars(Dying)

(****************************************************************************)
(* Properties.                                                              *)
(****************************************************************************)
InReport == {"exit", "bug", "unwind", "flush"}

\* The traps and the upcall, which leave registers on the stack
RegSites == {EntrySite, CallbackSite}

\* The unwinder has gone on from the line of an event or exception: it follows
\* the r15 of the interrupted code as if it were the address of the registers
\* (debug.c:362-368).
Misled ==
  /\ pc \in {"exit", "bug", "unwind"}
  /\ \E i \in DOMAIN printed : printed[i].at \in RegSites

\* Once the kernel has begun to die it shuts the domain down: the report does
\* not fault, loop, or die of an assertion of its own, however the kernel died
\* (debug.c:396-397) - unless an r15 that points into the stack misleads the
\* unwinder.
PanicShutsDown == pc \in InReport ~> (pc = "off" \/ Misled)

\* "Catastrophic failure.  Log error, registers, and shutdown ethos.", "We don't
\* want to cause any more exceptions, so treat everything as if it could."
\* (debug.c:387, 396-397): also when it is misled.  It is not so: the unwinder
\* may fail an assertion of its own in each report, until the stack is gone, and
\* TLC refutes it as soon as an r15 points into the stack.
PanicAlwaysShutsDown == pc \in InReport ~> pc = "off"

\* A line can be relied upon up to that of an event or exception, and up to the
\* address a call through a bad pointer went to, below the kernel.
Ends(a) == a \in RegSites \/ a <= VirtStart
Reliable(i) == \A j \in DOMAIN truth : Ends(truth[j]) => i <= j

\* A build without assertions may have died before it looked at the version.
Vouched(elf) == BeginsWith(elf.version, KernelVersion) \/ (~withAsserts /\ ~elf.inBounds)

\* So far, each line is a call that was active, in order from the innermost, none
\* left out that had a frame, down to _start; and the name of any line is the name
\* of a symbol that contains the address, of a file whose version begins with
\* this kernel's - but for a build without assertions that dies in reading a
\* section table out of the bounds of its file.
BacktraceTrue ==
  /\ \A i \in DOMAIN printed : Reliable(i) => i \in DOMAIN truth /\ printed[i].at = truth[i]
  /\ pc = "off" => \A i \in DOMAIN truth : Reliable(i) => i \in DOMAIN printed
  /\ \A i \in DOMAIN printed : printed[i].name # "unknown" =>
       \E j \in DOMAIN archive :
         /\ archive[j].name = "ethos.elf" /\ Vouched(archive[j].elf)
         /\ \E k \in DOMAIN archive[j].elf.symbols :
              LET symbol == archive[j].elf.symbols[k] IN
              symbol.name = printed[i].name /\ Contains(symbol, printed[i].at)
=============================================================================
