# Verification of the nano kernel

TLA+ models of the kernel under `src/`: a small single-processor Xen
paravirtual guest in C (derived from Ethos and Mini-OS).  Paths below are
relative to `src/`, so `xen/xenbus.c` is `src/xen/xenbus.c` of the repository.

The kernel has one thread (`startKernel`), one virtual CPU
and no preemption.  Its concurrency is of two kinds: the *upcall*, which
interrupts the thread between any two instructions while event delivery is on,
and *other parties that share memory with it* - the hypervisor, the xenstore
daemon, the console daemon, other domains.  No locks exist; what protects the
shared words is the order of the accesses, and that is what the models keep.

## 1. Inventory

| component | state | operations | properties that make it correct | status |
|---|---|---|---|---|
| handle table: `src/handle.c` | array of slots `handleId, reference`, `size`, `used`, `lastAllocated` | init, allocate (doubling when more than half full), get, free, short-to-long handle | a lookup never returns another client's object; no live handle is lost; the search loop ends; `used` is exact | modelled, proved |
| event channels: `xen/xenEvent.c`, `xen/xenEventHandler.c`, the upcall of `arch/x86_64/entry.S` | pending, mask and selector bits and the `vcpu_info` flags, shared with Xen; `ev_actions`, `bound_ports` | init, bind (4 ways), unbind, unmask, unbind all, upcall, `xenEventHandle` | no pending port is forgotten; handlers run for pending ports, with their own data; closed ports are quiet | modelled, proved |
| grant table: `xen/xenGrant.c` | shared `grantTable`, free list `xenGrantList` | grant and end access, grant and end transfer | the free list is exactly the unused entries; the hypervisor maps only what is granted; a transfer yields the frame transferred | modelled (without mapping of foreign grants), proved |
| xenbus client: `xen/xenbus.c` | two rings shared with xenstore, request ids (a handle table), reply on the stack, watch flag | ls, read, write, print, rm, begin, end, get and set perms, watch, watch_value; handler `xenbus_event` | whole requests, whole replies to the right request, no buffer leaked, calls return, watches notice | modelled, proved |
| console: `src/console.c`, `src/xencons_ring.c` | output and input ring shared with the console daemon, `consoleBuffer`, line buffer `temp` | send, flush, input handler with echo | output is what was printed, in order, though the handler echoes in the middle of a send; rings never overrun | modelled (the line buffer of `console.c`, never set up, is left out), proved |
| time: `arch/x86_64/time.c`, `archKernelBlock.c` | shadow copies of the versioned time record and of the wall clock; the static timer operation and the pointer to it | timeMonotonic, timeOfDay, set the one-shot timer, block, timer handler | a time read is of one published record; no torn copy survives; reading ends | modelled, proved |
| page tables: `arch/x86_64/archPageTable.c`, `archPageTableSpecific.c`, `xen/xenPageTable.c` | four levels of tables in frames, queue of updates, `ptNoWrite`, the loaded root | insert, remove, replace, protect, copy, build offline, complete, switch, free, walk, populate | the hypervisor accepts every update; tables implement the map asked for; no cached translation is stale; tables in use are protected and frames have one use; frames are counted right | modelled, proved in part |
| heap: `hw2/my_malloc.c`, `nano/list.h` | block headers and the free list in a fixed arena | initHeap, malloc, free | blocks tile the arena, those in use are disjoint | modelled, proved |
| formatting, strings: `hw2/my_printf.c`, `my_str.c`, `my_mem.c` | the memory they are given | copy, concatenate, compare, print | the bytes and orders of the C library, but for departures that are named; nothing outside the destination is written | modelled (without `%f` and field widths), proved but for printing |
| crash report: `src/debug.c`, `archDebug.c`, `traps.c`, exception entries of `entry.S`, `mixinExit` | the stack, the symbol table | trap, BUG, look up, unwind, shut down | the backtrace is true as far as it can be relied upon; a dying kernel shuts the domain down, unless a saved r15 misleads the unwinder | modelled, proved |
| initial store: `src/initialStore.c` | a TAR image | find a file | finds the file named or nothing | `Find` of CrashReport |
| boot: `src/startKernel.c`, `arch/x86_64/archInit.c` | - | straight-line initialisation | order of initialisation | its effect is the Init of the modules |
| system call stub, latches, process headers, prebuilt libraries | - | declarations | - | not modelled: no state, no caller or no source |

How the parts interact.  Everything asynchronous comes in through the upcall:
`hypervisor_callback` -> `xenEventHandlerCallback` -> `xenEventHandle` -> the
handler bound to the port (`xenbus_event`, `consoleHandler`, `timeHandler`).
The thread calls xenbus, which numbers its requests with a handle table,
notifies the daemon through an event channel and waits in `archKernelBlock`,
which arms a one-millisecond timer and then blocks, by two hypercalls.  The console is called from the
thread and, for the echo, from its own handler.  Grants and page tables are
called from the thread only, against a hypervisor that acts at any time (grants) or
checks what it is asked to do (page tables).  Every part ends in `debugExit` when
an assertion fails.  The heap and the text routines are called by everyone and
call nobody.

What is hard: steps of thread, upcall and hypervisor between any two shared
accesses (event channels, grants, xenbus, console, time); an index or flag read
before an interruption and used after it; free-running counters and ids that
come round; growing a table with a history; deferred updates; wake-ups that may
be lost.  The list with lines is under `hazards` in `PROJECT.json`.

## 2. Modules and their correspondence to the code

### HandleTable (implements HandleMap)
Variables are the fields of `struct HandleTable` (the specification is `TableSpec`), and three auxiliary ones:
`wanted` (the argument of a `handleAllocate` under way), `ret` (the last answer)
and `held` (history: what every issued, unfreed handle should refer to).
`handleAllocate` is `AllocateBegin`/`AllocateGrow`/`AllocateNoMemory`, then one
`SearchNext` per iteration of its loop and `SearchEnd`; each other function is
one step, because one thread uses the table and no handler changes it.
`Regrown` copies free slots as well, as the loop of `handleTableGrow` does.
`HandleMap` is what callers rely on: a partial map whose keys are never reused.
Its action `Forget` is the departure the code makes (finding `handle_lost`).

### EventChannel
One step is one access to the words shared with Xen.  `kern` is the position of
the thread (`__sti`, the bind functions, `xenEventHandlerUnmask`, unbinding),
`cb` that of the upcall, `xen[p]` how far the hypervisor is in raising port p
(`Raise`, `Select`, `Mark`: pending bit, selector bit, upcall flag).  The upcall
excludes the thread (`At`), never the hypervisor.  The critical region of
`entry.S` is `Unblock` and `TestPending`; an upcall that lands there is merged
with the one returning, which is `Deliver` at "unblocked".  `WordBits` (64) and
`IntBits` (32: the shifts by 5, the `int` of `xenEventHandlerActive`) are
separate constants, since the code confuses the two.

### GrantTable
`list` is `xenGrantList`, `flags`, `frame`, `domid` the shared entries, `guest`
the kernel's position, `mapped` and `grants` are histories: what the hypervisor
has mapped, what the clients were granted.  `synch_cmpxchg` is one step; the
plain stores before it are steps of their own, in the order of the `wmb`.

### Xenbus
Both rings with their four indices (`% IdxMod` for 2^32), cells instead of
bytes, the first `Header` cells of a message being `xs_message_t`.  The thread
goes through `xenbus_msg_reply` (Allocate, WriteRing, Publish, CheckReply, Block,
GotReply) for each request; `Upcall` is `xenbus_event` followed by the clear of
the pending bit, from `EventChannel`.  The functions that send one request and
return its status (write, rm, begin, end, get_perms, set_perms, read, ls) differ
in data only and are the operation "request"; watch and watch_value are
modelled step by step.  A failed BUG_ON is the state "panic".  The daemon (outside
the repository) answers in order, writes a response in as many pieces as the
ring makes it, and sends one event when a watch is set and one per change.
`archKernelBlock` is two steps, as in the code: CheckReply and the watch loop set the timer and go to
"armed", `Block` blocks.  Only an event delivered to a thread that has blocked
wakes it (`Unblock`): its own response (`Deliver`), the timer (`Expire`) or that of another port
(`OtherEvent`, which nothing says will come).  A timer that expires at "armed" is `timer` =
"missed", and the thread that then blocks for what came before it blocked is `Overslept`.

### ConsoleRing
Both rings with their indices; each sender (the thread, the handler) has a
`Call` of `xencons_ring_send`: the pieces `consolePrint` cut the text into, and
its local `cons`, `prod` and count.  One step reads one index, copies one
character or stores the index, so the handler can interrupt between any two.
`TakeChar` is `xencons_rx`: the terminating `'\0'` goes into the next cell of the
input ring or, from its last cell, into the first of the output ring, the next
member of the (Xen) interface structure; the echo is a `Call` of the handler.
`broken` records the accidents the code allows: "overtaken" (an echo in the
middle of a copy), "erased" and "spilt" (the two effects of the terminator) and
"late" (typed while the handler runs, so that the clear erases the event).
The daemon sleeps until it is notified, takes what it finds and notifies back.

### PageTable (implements AddressSpaces)
`mem` holds the frames that are tables, `queue` is `mmu_updates`, `noWrite` is
`ptNoWrite`; `unused` and `count` stand for the frame allocator and
`PhysicalInfo.count` of the larger kernel, which this file calls.  A frame is a
page frame number, and an address a page whose offsets select one entry per
level (`Span`, `Offset`).  Each function of the file is an operator from a record
of the variables to the next one, written as the code orders its stores, queued
updates and flushes; the actions are its callers (allocate, copy on write, complete,
switch, fault, protect, remove, free).  One call is one step: no handler touches
the tables.  The hypervisor (`Accepts`, `Apply`, `Pin`) refuses an update after which
a table in use would be writable or of two levels; a refusal, a failed assertion or
a store through a read-only mapping is `bug`, as `BUG()` in `_doUpdate`.  `tlb` is
one translation the processor may have cached.  The loops of the code are `For`: a number of
rounds, each from the state the one before left.  Nothing is stored, queued or allocated by a kernel
that has stopped.  `TablesProtected` and `FramesApart` say, of the whole graph of tables, that
those in use have one level and no write access, and that a frame has one use.  `AddressSpaces` is what the callers
rely on: a space is a map of pages, and what a call does is settled by its arguments.
Each action records them in `asked` (`Call`): the operation, the space, the pages it
is for (`PagesIn` of the range), the permission, the other space and the shift.  A step of
AddressSpaces changes just these pages of this space: a page too far, another
page or another space is none of its steps, and a call that changes no page leaves the maps alone.

### TimeKeeping
`src` and `wsrc` are the records in the shared page, which the hypervisor rewrites
field by field between two versions; `shadow` and `shadowTs` the kernel's copies;
`th` the position and locals of the thread and of the timer handler.  One step is one
access to a shared field.  The handler may come between any two steps of the thread
and uses the same copies.  `cals`, `walls` and `from` are histories: what was ever
published, and what was in force when a read began.  `_scaleDelta` keeps its
truncation (`Word`, `Shift`).  "faulted" is the read through NULL of line 272.

### CrashReport
The stack word by word, as calls, one event and one exception leave it; `callers` is
the history the backtrace is compared with.  A call is two steps, the return address
(`Call`) and the frame (`Enter`), and so is its end (`Leave`, `Return`): an event or trap may come in
between, and a call through a bad pointer trap at an address that is not code (`WildTargets`).  A call
interrupted before it has its frame has no line in the report, and `callers` does not list it.
A trap, a failed assertion or `debugInit` ends the running kernel: `DebugExit`, one
`UnwindStep` per turn of `debugUnwind`, `Shutdown`.  `BugAgain` is an assertion that fails
inside a handler or the report.  Of the saved registers four words are kept (r15, rbp, rip, cs); r15 is
any of `R15Values`.  The initial store is a sequence of blocks; of the ELF file the checks and the symbols
are kept: the version has this kernel's as a prefix (`BeginsWith`, for `strncmp`), a missing symbol
table is read through NULL (`LookupFaults`), and a section table out of bounds is read all the same
by a build without assertions (`ReadsSections`), which may die of it with the tables found so far in place.
Taken for granted: frames are kept (`bottom.mk:72` compiles with -O3, which drops them unless the
compiler is told otherwise, and then there is nothing for the unwinder to follow); the page fault handler, which is not in the
sources, ends in `debugExit(regs)` like the other traps; the words of the symbol table can be read.

### Heap (implements Allocator), TextLibrary, KernelProgram
`Heap` knows a block by the address of its header; the list primitives act on a
sequence.  `TextLibrary` has the routines of `hw2` as operators on a memory, with their
departures from the C library (the counted copies pass over a NUL and write n + 1 characters, `my_strncmp`
looks at one more, characters are compared as signed ones, `itoa` has no text for the least int).  `KernelProgram` composes them:
a program takes buffers, writes and prints them and gives them back, and the memory
has the block headers in it, so that a routine that leaves its buffer is seen.  `LibraryStrcpy`,
`LibraryStrncpy`, `LibraryStrcat`, `LibraryStrncat` and `LibraryOrder` define what the C library does, byte by byte;
`Departs`, `Last` and `Turned` name where hw2 does something else, and `TextRight` says what.

### Composition
RingIndex has the two operations on free-running indices that Xenbus and ConsoleRing
share.  ConsoleRing, like Xenbus, has the clear of the pending bit after the handler from
EventChannel.  Xenbus composes the client with the parts of EventChannel (clear after the
handler), HandleTable (ids) and archKernelBlock (the timer) that it depends on.
Each is reduced to what the other module shows of it.  KernelProgram is the
composition of Heap and TextLibrary; TimeKeeping has the upcall of EventChannel as one step
(`Interrupt`), since no other handler uses its variables.

### Conventions
A definition with an underscore in its name (`Copy_Wrong`) is a plausible bug of the
definition behind it, with which TLC finds a property violated; no specification uses it.

## 3. Runs

| run | question | bounds and why they are enough |
|---|---|---|
| `handle_table` | is the table a map; does its search end; is the counter exact; does it implement HandleMap | size 2, two references, handles to 16, so two doublings, wrapped searches and dropped slots occur; short handles of 3 bits come round once |
| `handle_lost` | violation: a live handle is lost | size 4, one reference, handles to 20 |
| `event_channel` | no port forgotten, right handler, right data, quiet after closing, served in the end | two ports of one word with two handlers: one boot port, one opened later; every interleaving of the three parties. Two ports are what "another port in the same word" needs |
| `grant_table` | free list, mapping, transfers, termination | 3 usable entries of 5 (2 reserved), all 3 in use at a time, two frames, one domain |
| `xenbus` | whole requests and replies, assertions, buffers, calls return, watches notice | rings of 4 cells and messages of 3, so a second message never fits beside a first, every message wraps; response index about to wrap; request index at 0 or about to wrap; 5 requests, short ids of 5 values so that the last comes round; one change of the node; the timer may expire at any moment between its setting and the next wait |
| `xenbus_lost` | violation: a request never returns, though the thread did not oversleep | one request |
| `console` | output whole and in order, input whole, input taken, printing returns | rings of 4; one text of two pieces, before or after consoleInit; two characters typed, ordinary ones or returns (echo of 1 or 3 cells), so the ring fills, pieces are sent in parts and both copies wrap; input starts in the first or the last cell of its ring; IdxMod 32 is above twice all that is sent, as 2^32 is in practice |
| `console_echo` | violation: output lost | one text, one character typed |
| `page_table` | does the hypervisor accept everything; are translations, the protection of tables, the use of frames, their counts, the second root and the readers right; does each call change just the pages, of the space, that it was called for (AddressSpaces) | tables of 8, 2, 2, 2 entries, so that two pages of user space lie in two level 1 tables and ranges end inside and between tables; 32 frames, two processes, 8 calls after populating: enough to build a space, copy it into another, complete, switch, fault, and free one; a queue of 4, which every larger operation fills; MaxPts 7, which one space with all its tables nearly fills; states that differ only in the history `asked` are one (`VIEW`): no guard reads it, and every step, also to a state seen before, is compared with AddressSpaces |
| `time` | times and copies of one record, reading ends | one call of the thread, one recalibration, one setting of the wall clock, one tick of the periodic timer and one expiry, counter to 1: a torn read needs one update during one read, and the handler in between; a counter to 2 has been run as well |
| `crash` | true backtrace, shutdown | a stack of 20 words: up to four calls, or an event with one before or behind it, then a trap or assertion with room for its report, at any moment of a call; r15 0 or 24, a word of the stack that the history fills with frames and registers; twelve stores: without the file, with it first or behind another one, of a longer version with this prefix, of another version (with the symbol here and elsewhere), of another kind, without sections, symbol table or string table, with its section table out of bounds (of this version and of another); with and without assertions, which the domain is built with from the start (`withAsserts`) |
| `library` | heap sound and an allocator, bytes and orders of the C library but for the named departures, nothing else written | 10 words with headers of 1: up to three blocks, split and unsplit, adjacent; requests of 2 and 4; characters 0, 97 and -1 (255 as the C library sees it), so that every text of up to 2 characters meets every other, counts pass over a NUL and both orders of signs meet; ints of 5 bits |

Deadlock is checked where the component never stops (handle table: a lookup is
always possible; grant table: the hypervisor or a client can always act).  It is
off where it may: the state "all ports closed", a halted kernel, the bounds on
requests, texts, typed characters and calls.

Type invariants are conjuncts of the first invariant of their module (`LookupSound`,
`ListIsUnused`, `NoneForgotten`, `RequestsWhole`, `OutputWhole`, `FramesCounted`, `HeapSound`).

What the violation runs show is in `findings`.  Further departures met while
modelling, visible in the models and their comments, without a run of their own:

- An event raised while the handler of its port runs, after the handler's last look
  at its data, is erased by the clear of the pending bit that follows the handler
  (`xen/xenEvent.c:76`); `owed` in EventChannel excludes the time of the handler, and `xenbus_lost`
  shows what it does to a caller.
- `xenEventHandlerCallback` numbers ports with `<< 5` although words have 64 bits
  (`xen/xenEventHandler.c:68`): a port of the second word dispatches another one's
  handler.  `PortOf` has the shift; the run uses ports of the first word.
- `_getFreeEntry` does not test for an empty list (`xen/xenGrant.c:58`) and would hand
  out reserved entry 0; the clients of GrantTable hold at most as many grants as there
  are entries (`Enough` in the proofs).
- `xenbus_watch_value` loses the reply to XS_WATCH when it assigns the one to XS_UNWATCH
  (`xen/xenbus.c:757`); `leaked` counts it and `BuffersFreed` allows only this one.
- A timer handler that interrupts `_updateTimeFromXen` just after the version was
  copied finds `shadow.version` current and the fields old: its `timeMonotonic` returns a
  time of no record (`arch/x86_64/time.c:191-211`, "required to return accurate time").
  `HandlerTimeAccurate` states the contrary; TLC refutes it on the instance of `time`.
- `timeOneShotSet` reads through `pointer` (`arch/x86_64/time.c:272`), which the handler may
  have cleared; a periodic tick before the expiry also makes the handler forget the
  timer (`:308`).
- `archKernelBlock` sets the timer and blocks by two hypercalls with events on
  (`archKernelBlock.c:22-27`): an expiry in between wakes nobody, nor does a response handled in
  between.  The thread then sleeps until some other event comes.  `Overslept` names this state in
  `RequestReturns`, `WatchNotices` and `RequestAnswered`.
- `timeOfDay` reads the two parts of the wall clock in two accesses (`:226-227`), so
  the handler may change them in between: no property is stated of its result.
- The unwinder takes the address of the registers of an exception from the last word of the frame
  above (`src/debug.c:362-368`, "passed ... on the stack"); the entries pass it in a
  register, and the word is the saved r15.  With an r15 that cannot be read the backtrace ends
  with the line of the exception; one that points into the stack gives bogus lines or, with assertions, a failure inside the
  report, again and again until the stack is gone, so that a kernel that dies is not always
  shut down (`PanicAlwaysShutsDown`, which TLC refutes on the instance of `crash`; "Log error, registers, and shutdown ethos", "We don't
  want to cause any more exceptions", `:387`, `:396`).  `BacktraceTrue` therefore relies on no line behind that
  of an event or exception (`Reliable`), and `PanicShutsDown` names the state of the unwinder that has gone on
  from one (`Misled`).
- A jump through a bad pointer to an address below the kernel ends the backtrace at its first line
  (`_debugUnwindValid`, `:273`): the callers are left out.
- `debugInit` reads the file through the pointer before it tests the status of the
  search; without `ethos.elf` the kernel traps, and so it does for a file without a symbol table (`DebugInit`).
- `_debugFindSymbols` compares as many characters of the version as this kernel's has
  (`:199-205`), though the comment before asks for "the same" (`:173`): a longer version with this prefix
  is accepted, and `BacktraceTrue` asks for no more than the prefix.
- A section table out of the bounds of the file is only asserted against (`:146-151`): a build without
  assertions reads it, may take symbols from there (checked for their version) or trap while `_debugSymtab` and
  `_debugStrtab` are set already, so that the report names its lines by them, unchecked.  `Vouched` excepts this case.
- `archPageTableOfflineCompleteExisting` adds both roots to `ptNoWrite` without a test
  (`archPageTable.c:637-640`), while `_offlinePtpAlloc` may have filled all but one cell;
  if an offline table is given up, `ptNoWrite` is not reset.  The model stops there
  (`NeverRefused`), and the instance does not get so far.
- `archPageTableOfflineAllocTree` allocates tables below the first root and copies nothing to the
  second (`archPageTable.c:499-545`); the copy is made when a page is inserted (`:721`).  If
  no page below a top-level entry is inserted offline, the entry stays missing in the second root, also after
  later insertions (`FreeLevel` is then below 4).  No caller is in the sources:
  `pageTableUserspaceAlloc` is only declared (`include/nano/pageTable.h:29`).  `UserspaceAlloc` takes it to fill
  each page of the range it is given, and `SecondRoot` is proved for such a caller.
- `archPteGet` reads the entry before it tests that there is one (`:172-180`); no caller
  modelled has such an address.
- `my_malloc` does not test for a size that wraps with its header (`hw2/my_malloc.c:29`);
  `Requests` are below.  A block freed twice is refused only by the SAFE build, and only
  until it is handed out again; the program of the model frees what it holds.
- `my_printf` writes the letters of `%x`, `%u` and the long conversions instead of
  the number, and shuts the kernel down on an unknown one; `PrintRight` speaks of the rest.
- `my_strncpy` and `my_strncat` do not stop at the NUL of the source: where `strncpy` fills up with NULs they
  go on with the bytes behind it, and they write a NUL behind the n bytes, which `strncpy` does not
  (`hw2/my_str.c:15-25, 58-65`).  A program that gives them only the room the C library needs
  does not keep to its buffers; `RoomFor` asks for the one byte more.  `my_strncmp` compares n + 1 characters (`:38-47`),
  and `my_strcmp`, `my_strncmp` and `my_memcmp` subtract signed characters, so that one over 127 comes before the
  others instead of behind them.  `TextRight` states all of this: equality with the C library in every
  byte but those of `Departs` and `Last`, and its order but where it is `Turned`.
- `xenEventBind` on a port that has a handler stores the new data before the new
  handler (`xen/xenEvent.c:94`); `HandlerGetsItsData` excludes this window by name.
- Ports in the upper half of a word are never served
  (`xen/xenEventHandler.c:33`, result truncated to `int`); `Active` has the truncation
  and the run `event_channel` uses ports of the lower half.
- `xenEventUnbindAllPorts` visits `bound_ports` only, which `xenEventBind` and
  `xenEventAllocUnbound` do not fill: such ports stay open.
- A response longer than the ring is never complete (`xen/xenbus.c:147`); responses
  of the instance fit.
- Request ids are cut to 32 bits (`xen/xenbus.c:276`) and indices compared as plain
  numbers (`:249`): after 2^32 requests, or 4 GB of them, an assertion fails.
  `PanicsOnlyWrapped` says that nothing else makes one fail.
- `xenbus_ls` takes the error text from 16 bytes beyond it (`xen/xenbus.c:382`).
- The terminator `xencons_rx` writes (`src/xencons_ring.c:46`) erases a second
  character typed before the first was taken, and from the last cell of the input
  ring writes into the output ring; "erased" and "spilt" in ConsoleRing.
- `temp[100]` (`src/xencons_ring.c:38`) is filled without a bound.
- Before `consoleInitialized` nothing notifies the daemon of output: a handler
  that echoes more than the output ring holds while `consoleInit` flushes, or a
  thread that prints more than it holds before, waits for ever.  `PrintReturns` and
  `InputTaken` speak of the initialized console.
- `handleFree(0)` would decrement `used` on a free slot; no caller does it.

## 4. Fairness

- HandleTable: the thread in the loop of `handleAllocate` keeps running it.
- EventChannel: an upcall or a binding that has begun goes on; Xen delivers when
  the flag is up and delivery on, and finishes raising what it began.  Nothing is
  assumed of clients, nor that events arrive.
- GrantTable: a loop that was entered goes on; a transfer that was committed is
  carried out (the hypervisor does it within one hypercall).  Other domains need
  never map, unmap or begin a transfer.
- Xenbus: the thread runs when it has not blocked and no upcall runs; the upcall is delivered; a timer that is set
  expires, before or after the thread blocks; the daemon serves its rings.
  Neither that an erased event is raised again nor that an event of another port comes (`OtherEvent`) is
  assumed: `RequestReturns` and `WatchNotices` name the states `Stranded`, in which one was erased,
  and `Overslept`, in which the timer expired too early.
- TimeKeeping: the processor executes the thread and, when the timer event is
  pending, the handler; the hypervisor finishes a record it has begun to write (it
  does so without waiting for the guest).  Nobody has to call, tick or recalibrate.
- CrashReport: a kernel that has begun to die goes on executing `debugExit`, with
  events off.
- ConsoleRing: the thread runs when the handler does not (a waiting sender yields
  and tries again), the upcall is delivered, the console daemon answers a
  notification.  Nobody has to type, and the daemon does not poll.

## 5. Proofs

Every proof is in a module that EXTENDS its component (KernelProofs: two of them, which share
no variable) and holds for all values of the
constants that satisfy the assumptions of the component (which TLC evaluates on each run),
from an inductive invariant it names.

`KernelProofs`, of HandleTable, for every table size, set of references and history:
`TypeCorrect`, `LookupsAreSound`, `CounterIsExact`, `SearchAlwaysHasRoom` (the loop of
`handleAllocate` always has a free slot ahead).
The inductive invariant is `LookupSound /\ UsedCountsHeld /\ UsedFits`.
`UsedFits` (never more handles than slots; at most half while searching) is what
makes room a consequence: the test at the entry of `handleAllocate` bounds the
counter, `UsedCountsHeld` ties the counter to the handles and `LookupSound` the
slots to the handles; then not every slot can be taken (an injection from slots
into handles would make the table too full).
`TableIsMap`: the table implements HandleMap (`ImplementsMap`).  The
step that matters is the doubling: a handle that is not a multiple of twice the first size
is alone in its slot of the new array (`KeptByGrow`), because the slot in the old array is
determined by the one in the new (`ModOfDouble`) and only free slots, whose number is 0,
compete for slot 0.  That the size stays a multiple of the first (`SizeMultiple`) makes the
exception independent of how often the table was doubled.
`ShortHandlesFind`: a short handle finds the handle it was cut from.  The size in use
divides `ShortMod` (`ShortSelects`) because both are doublings of the first size, so that the
cut keeps the slot.  Its hypotheses are those of the code: `ShortMod` (2^32) is a
power of two and a multiple of the first size, and no more than half as many handles are in use.

`GrantTableProofs`, for every number of entries, domains and frames, under
`Enough` (clients hold no more grants than there are usable entries): `TypesHold`, `ListHoldsUnused`,
`OnlyGrantedMapped`, `NothingMovesIntoFree`, `TransferYields`, `FreshEntry`.  The inductive invariant
`IndInv` adds to the second part of `ListIsUnused` (`AvailableListed`), per entry, what the flags may be given the
grant and the kernel's position (`EntryOK`), and what the kernel has read and may
still rely on (`GuestOK`): the stale copy `guest.seen` is the crux, since the
hypervisor moves between the read and the compare-and-exchange.  The list lemmas
`GetFreeTakes` and `PutFreeAdds` say what the two operations do to a list through
a set of entries.

`EventChannelProofs`, for every set of ports, boot ports and handlers, under `LowPorts` (ports
below IntBits, 32 in the build, where the two ways of dividing a port agree; the kernel's few
channels are there): `PendingNeverForgotten`, `DispatchesOnlyPending`, `HandlersGetTheirData`.
The inductive invariant `Inv` has `PendingIsVisited` at its heart; it is not inductive alone,
since clearing the upcall flag needs that a selected word has an upcall coming
(`SelectorOnItsWay`) and taking the selector that the upcall carries no word from before
(`SelectorTaken`).  `OpenOrMasked` (a closed channel is masked) is what makes
`DispatchesPending` follow, `OwnData` ties data to handlers through the windows of
binding and unbinding.  `Lowest` finds an element because < is well-founded on Nat (`Least`).

The two ring protocols rest on the same facts about RingIndex, which stand at the head of
each of their proof modules: free-running indices modulo a number that the ring size divides,
how the count in use changes when one of them advances, which cell an index selects.

`XenbusProofs`, for rings of every size, requests and responses of every length, indices
that start anywhere and come round, and any number of requests and changes:
`RequestsStayWhole`, `ReplyStaysMine`, `BuffersAreFreed`.  The heart of the inductive invariant `Inv`
is `Streaming`: there is a sequence of messages, the responses not yet taken, of which the
first lie in the response ring one behind the other and the last are the daemon's queue, with
one possibly in both (`InRing`); at most one of them is a reply, only while the thread waits for
one, and it carries the id of the request under way (`OneReply`); what the handler has copied is the
first (`Taken`).  `ReplyIsMine` follows: what is put into `reply` is a whole message
with that id.  `Ids` and `PanicCause` account for the ways an assertion of the code can still fail: the
32-bit id or an index has come round, or a request is longer than the ring.

`ConsoleRingProofs`, for rings of every size, indices that start anywhere, every text: `TypesHold`,
`InputStaysWhole`, `OutputStaysWhole`.  What a sender has given is the subsequence of its numbered
characters (`From`) among those shown and those in the ring; the invariant says that it is
just what was published, where a part that is being copied lies (`PartLies`), how
old a sender's copy of the daemon's index may be (`StaleCons`), and that the handler sends at most
three characters for each it took (`EchoBound`).  The last two are needed because the
thread, interrupted between reading the index and comparing it, works with an old one; the count
stays meaningful as long as `Few` holds: what was typed cannot carry an index round half
its range (2^31).  `TextAssumption` is what the code asserts: no line exceeds the ring
(`src/xencons_ring.c:73`).

`TimeKeepingProofs`, for any number of updates, ticks and calls: `CopiesStayWhole`
(`SnapshotWhole`).  The inductive invariants `TimeInv` and `WallInv` say that the version counts the records
twice and is odd while one is written (`TimeVersion`), which fields the hypervisor has already
written (`TimeWritten`), and that a thread which still has the current version has copied
current fields (`TimeCopied`).  When the handler interrupts a copy of the main thread only its
own fields count; it leaves with all of them current, which is why the main thread, going on
in the middle of its copy, still ends with a whole record.
`MainTimeIsAccurate`: the time returned to the main thread was computed from one published record no older
than the call.  `MainInv` adds that the kernel's version only grows and that every copy makes it grow;
hence, while it still is the one the call read first, nobody has touched the copy since and all
that was computed came from that copy (`Untouched`).

`KernelProgramProofs`, for every heap size, header size and set of requests, in both builds.
Of the heap alone: `HeapStaysSound` (`HeapSound`: shapes, the free list exact, the blocks tile the arena)
and `HeapIsAllocator` (Heap implements Allocator).  `HeapSound` is inductive as it stands: a
split replaces a block by two with the same bytes (`SplitSound`), a list operation
adds or takes one address of a list without repetitions, and `BlocksTile` needs
`FreeListExact` to know that the block split is nobody's.  The refinement follows from
disjointness of blocks and the room each held one has.  `HeapAssumption` is what the
code takes for granted: the arena is larger than two headers and sizes do not wrap.
Of programs that use heap and text routines together: `ProgramKeepsHeapSound`,
`RoutinesWriteInside` (`WritesInside`), `ProgramSeesAllocator`, `RoutinesAreRight` (`TextRight`).
`ProgramInv` adds to `HeapSound` that the headers in the memory are marked (`HeadersMarked`) and that
the memory holds signed characters of 8 bits.
That a routine stays in its buffer needs the loops of `hw2` to end at the terminator their
source has, or after the count; `RoomFor` is what a caller must give for that, one byte more than the C library for the counted
copies.  `RoutinesAreRight` is shown per routine and byte by byte: a byte of the destination is in the copied part, behind it or outside, and each
case is one of the library's or a named departure; the comparisons find the first difference (from the
least terminator of a string), and the sign of a difference of signed characters is that of the unsigned
ones or, where `Turned`, its opposite.

`KernelProofs`, of CrashReport, for every kernel, stack size, depth of calls, initial store and value of r15, in both
builds: `BacktraceIsTrue` (`BacktraceTrue`).  The inductive invariant `IInv` says of every state:
there is a sequence of addresses, one per active call, at which its frame or, if it
was interrupted, its saved registers lie, each holding the address of the next and the return address
that the history has (`Links`, `Chain`); while the report is written, the unwinder stands at the one
that follows the lines printed (`OnTrack`), or has printed a line after which none is relied upon (`Beyond`); what was
printed so far is true (`LinesTrue`), the report ends no sooner (`Told`); and the symbols, if any, are those of an `ethos.elf` that is
`Vouched` for (`SymbolsTrue`).  The kernel writes only below its innermost frame (`Above`), and a
frame pushed or dropped moves the others by one place in the sequence (`Moved`), so that what
`Links` says survives calls, returns, events and traps, also those that come between a call and its
frame, where the stack pointer is one word below the frame; the unwinder only reads.  The one assumption beyond the layout is `RoomForReport`: the
stack has room for one report at all.  Nothing is assumed of r15: that the line of an event or exception ends what can be
relied upon is part of the property, since from there the unwinder follows whatever r15 was.

`PageTableProofs`, for tables with any number of entries at each level, any memory, queue
(`mmu_update_size`) and list of new tables, any number of address spaces and any history of
calls: `TypeCorrect`, `CachedTranslation` (`TlbAgrees`), `InUseProtected` (`TablesProtected`),
`OneUse` (`FramesApart`), `SecondRoot` (`UserRootMirrors`).  None of the five is inductive: whether a store
reaches a table in use depends on every link of the graph.  The inductive invariant `IInv` says that the kernel has stopped, or that there
is a context: for each frame the level it is a table of and the space that owns it, and the
tables of the kernel's half.  With it every entry agrees, locally: an entry of a table leads one level
down within the same space (`Trees`), the kernel's half maps each frame at one place
(`Shape`, `Kernel`), the allocator hands out no frame that has a level (`Allocator`), every table in use
is known (`InUseKnown`) and accepted, and the cached translation is the one in the tables
(`TlbOK`).  Because it is local, one store, one queued update or one frame taken disturbs few of its
conjuncts.  A call runs in steps between which updates wait in the queue, so inside a
call the invariant is `Good`: each waiting update, whenever it is applied, keeps what the context
says (`GoodQueue`); the cached translation may differ meanwhile, since every flush drops it.
A step that only changes what the tables hold keeps the context (`Kept`, `Idle`
once the queue is empty); one that makes new tables extends it (`Ext`, with `Safe` and `Done`); the
end of a space is a context in which the space is `dying`, whose frames may be free and in the
tables at once.  The two roots of a space differ while updates wait, so `Mirror` compares what their entries
are once the queue is flushed (`Final`): a link below both is queued twice, and a flush in between
changes no final value (`LinkOK`).  `archPageTableOfflineAllocTree` does leave the roots apart; the context
names the entries not yet copied (`stale`), and the insertion of a page strikes out the one above it
(`DuplicateOK`), so that none is left after the whole range (`UserspaceAllocOK`) and `Paired` holds
between calls.  A loop is a function of the round, of which the proof says that it exists and that
each round keeps the states in one of these sets (`RoundsExist`, `RoundsStay`).
The proofs rest on `SizesAssumption` and `BoundsAssumption`: the sizes are positive, level 4 has an even number of
entries, the tables of the domain builder map themselves and fit one level 2 table, the pages of
user space lie below the kernel's half.  `~bug` stands in the safety properties, since a
store that faults or an update that is refused ends the kernel where it stands; that it does not come
to that is `NeverRefused`.

Some values are defined by recursive functions over a sequence (`From`, `Printf`'s loop,
`consolePrint`'s, `Find`'s over the blocks of the initial store).  The library's induction theorems cannot be used, but the principle
behind them can: a non-empty set of numbers has a least element (`WFMin` with
`NatLessThanWellFounded`), so the lemmas `Least` and `Induction` state induction for a set rather than for
an operator, and the existence of the recursive function is proved from them (`Recursion`,
`FromExists`, `FindExists`).

Model-checked only:

- all liveness (AllocateReturns, EventuallyServed, EndReturns, RequestReturns, WatchNotices,
  InputTaken, PrintReturns, ReadReturns, PanicShutsDown), which is out of the prover's reach;
- NeverRefused: it needs enough frames for each call and room in `ptNoWrite`, which hold of the
  instance and not for all constants (section 3 names the assertion that can fail);
- FramesCounted: a count equals the number of pages that map the frame, and a call changes the mapping of
  many pages while their updates wait in the queue: it would need an induction over
  cardinalities for every loop;
- ReadersAgree: `archPageTableNext` is a search whose result is determined by an induction over the pages skipped,
  `archPageTableStatistics` a cardinality over all tables;
- ImplementsSpaces of PageTable: it needs of every call what each page of each space holds before and after.
  The invariant proved says which frames are tables and of whom, not what a leaf holds;
- PrintRight: what is printed is determined by an induction over the format against the text of each int,
  and the reference text of an int is defined for the widths of the instance only.

## 6. What was done in which order, and what is left

1. HandleMap, HandleTable, EventChannel, GrantTable, Xenbus, ConsoleRing; proofs of HandleTable
   and GrantTable.
2. PageTable with AddressSpaces, TimeKeeping, CrashReport, Heap with Allocator, TextLibrary,
   KernelProgram; proofs of Heap and EventChannel.
3. HandleTable implements HandleMap, and the copies of TimeKeeping, proved.
4. Xenbus, ConsoleRing, KernelProgram, the time read by the main thread, and short handles, proved.
5. BacktraceTrue, proved.
6. PageTable: types, cached translations, protection of tables, use of frames and the second root, proved.
7. Revised: the two hypercalls of archKernelBlock in Xenbus; AddressSpaces, whose steps are settled by the arguments of the call;
   CrashReport with any r15, calls that have no frame yet and stores with odd files; TextRight byte by byte against the C library.
   The proofs were redone for them.
8. Left: of PageTable, the counts of frames, the readers and the refinement of AddressSpaces
   are checked only.

## 7. Not modelled

- Mapping of foreign grants (`xen/xenGrant.c:190-245`): one hypercall each, no state.
- The line buffer of `console.c`, never set up by the program.
- `%f`, field widths and `ftoa` of `my_printf.c`: not reached.
- The system call path of `entry.S` and user mode: no process runs in this tree.
- Boot: straight-line code whose effect is the Init of the modules.
- The headers of the larger kernel (ELF layout, hypercall wrappers, process and latch
  declarations) and the prebuilt libraries: declarations, or no source.
