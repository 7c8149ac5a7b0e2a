------------------------- MODULE EventChannelProofs -------------------------
(****************************************************************************)
(* Proofs about EventChannel: its safety properties hold for any number of   *)
(* ports, handlers and boot ports, provided the ports lie in the lower half  *)
(* of the first word, which is where the kernel's few channels are and where *)
(* a port and the bits the upcall looks at agree.                            *)
(****************************************************************************)
EXTENDS EventChannel, TLAPS, WellFoundedInduction

\* Port numbers below 32 in the build, where a word has 64 bits.
LowPorts == IntBits <= WordBits /\ \A p \in Ports : p < IntBits

----------------------------------------------------------------------------
\* The inductive invariant.  PendingIsVisited is the heart; the others say what
\* the three parties rely on between two of their steps.

\* The records of the thread and of the upcall, and the port of a binding.
Positions == {"off", "entry", "xchg", "words", "ports", "handle", "clear", "return", "unblocked"}
Shapes ==
  /\ cb \in [pc : Positions, l1 : SUBSET Words, word : Words \cup {0}, port : Ports \cup {0}]
  /\ kern.pc \in {"clear", "bind", "handler", "unmask", "test", "select", "force", "unbind",
                "close"} => kern.port \in Ports

\* A selected word has an upcall coming, and outside its walk over the words
\* the upcall holds none: without the second, returning would lose a word.
SelectorOnItsWay == sel # {} => OnItsWay
SelectorTaken == cb.pc \in {"off", "entry", "xchg", "return", "unblocked"} => cb.l1 = {}

\* What is owed is pending at a bound port.  Clearing the bit after the handler
\* takes back nothing owed: an event raised while the handler runs is not owed.
OwedIsBound ==
  /\ \A p \in owed : p \in pending /\ handler[p] # Default
  /\ cb.pc = "clear" => cb.port \notin owed
  /\ kern.pc = "clear" => handler[kern.port] = Default

\* A channel that is not open is masked, and until xenEventUnbindAllPorts it
\* has the default handler.
Running == kern.pc \notin {"nextPort", "close", "allClosed"}
OpenOrMasked ==
  /\ Ports \ open \subseteq mask
  /\ kern.pc \in {"clear", "bind", "handler", "unmask"} => kern.port \in open
  /\ kern.pc = "close" => kern.port \in mask
  /\ Running => \A p \in Ports \ open : handler[p] = Default

\* A handler that is not the default one has its data beside it.
OwnData ==
  /\ \A p \in Ports : handler[p] \in {Default, data[p]} \/ Replacing(p)
  /\ kern.pc = "handler" => data[kern.port] \in Handlers
  /\ kern.pc = "unbind" => handler[kern.port] = Default

\* Between xenEventHandlerActive and the call, nobody masks or clears the port:
\* the kernel is interrupted.
Dispatching == cb.pc = "handle" => cb.port \in pending \ mask

Inv == /\ TypeOK /\ Shapes /\ SelectorOnItsWay /\ SelectorTaken /\ PendingIsVisited
       /\ OwedIsBound /\ OpenOrMasked /\ OwnData /\ Dispatching

----------------------------------------------------------------------------
\* Lowest finds an element of every nonempty set of numbers, finite or not:
\* < is well-founded on Nat.
LEMMA Least ==
  ASSUME NEW S \in SUBSET Nat, S # {}
  PROVE  Lowest(S) \in S
<1>1. IsWellFoundedOn(OpToRel(<, Nat), Nat)
  BY NatLessThanWellFounded, Zenon
<1>2. PICK x \in S : \A y \in S : ~ (<<y, x>> \in OpToRel(<, Nat))
  BY <1>1, WFMin
<1>3. \A y \in S : ~(y < x)
  BY <1>2 DEF OpToRel
<1>4. \A y \in S : x <= y
  BY <1>3
<1> QED BY <1>4 DEF Lowest

\* Low ports lie in word 0, for the hypervisor's division and for the kernel's,
\* and the port the upcall computes from a bit of that word is the bit.
LEMMA OneWord ==
  ASSUME LowPorts
  PROVE  /\ Words \subseteq {0}
         /\ \A p \in Ports : p \in Nat /\ XenWord(p) = 0 /\ p \div IntBits = 0
         /\ \A b : PortOf(0, b) = 0 * IntBits + b
         /\ IntBits \in Nat /\ WordBits \in Nat
<1>1. \A p \in Ports : p \in Nat /\ p < IntBits /\ p < WordBits
  BY PortsAssumption, BitsAssumption DEF LowPorts
<1>2. \A p \in Ports : p \div IntBits = 0 /\ p \div WordBits = 0
  BY <1>1, BitsAssumption
<1> QED BY <1>1, <1>2, BitsAssumption DEF Words, XenWord, PortOf

----------------------------------------------------------------------------
\* Every action keeps the invariant: first the kernel's thread.
LEMMA StiKeeps ==
  ASSUME LowPorts, Inv, Sti
  PROVE  Inv'
<1> USE DEF Inv, TypeOK, Shapes, Sti, At, Idle, table
<1>1. TypeOK' /\ Shapes'
  BY DEF Positions
<1>2. SelectorOnItsWay' /\ SelectorTaken' /\ PendingIsVisited'
  BY OneWord DEF SelectorOnItsWay, SelectorTaken, PendingIsVisited, OnItsWay, WillVisit
<1>3. OwedIsBound' /\ OpenOrMasked' /\ OwnData' /\ Dispatching'
  BY DEF OwedIsBound, OpenOrMasked, OwnData, Dispatching, Running, Replacing
<1> QED BY <1>1, <1>2, <1>3

LEMMA BindClearKeeps ==
  ASSUME LowPorts, Inv, BindClear
  PROVE  Inv'
<1> USE DEF Inv, TypeOK, Shapes, BindClear, At, Goto, table
<1>1. TypeOK' /\ Shapes'
  BY DEF Positions
<1>2. SelectorOnItsWay' /\ SelectorTaken' /\ PendingIsVisited'
  BY OneWord DEF SelectorOnItsWay, SelectorTaken, PendingIsVisited, OnItsWay, WillVisit
<1>3. OwedIsBound' /\ OpenOrMasked' /\ OwnData' /\ Dispatching'
  BY DEF OwedIsBound, OpenOrMasked, OwnData, Dispatching, Running, Replacing
<1> QED BY <1>1, <1>2, <1>3

LEMMA BindDataKeeps ==
  ASSUME LowPorts, Inv, NEW h \in Handlers, BindData(h)
  PROVE  Inv'
<1> USE DEF Inv, TypeOK, Shapes, BindData, At, shared
<1>1. TypeOK' /\ Shapes'
  BY DEF Positions
<1>2. SelectorOnItsWay' /\ SelectorTaken' /\ PendingIsVisited'
  BY OneWord DEF SelectorOnItsWay, SelectorTaken, PendingIsVisited, OnItsWay, WillVisit
<1>3. OwedIsBound' /\ OpenOrMasked' /\ OwnData' /\ Dispatching'
  BY DEF OwedIsBound, OpenOrMasked, OwnData, Dispatching, Running, Replacing
<1> QED BY <1>1, <1>2, <1>3

LEMMA BindHandlerKeeps ==
  ASSUME LowPorts, Inv, BindHandler
  PROVE  Inv'
<1> USE DEF Inv, TypeOK, Shapes, BindHandler, At, Goto, shared
<1>1. TypeOK' /\ Shapes'
  BY DEF Positions, OwnData
<1>2. SelectorOnItsWay' /\ SelectorTaken' /\ PendingIsVisited'
  BY OneWord DEF SelectorOnItsWay, SelectorTaken, PendingIsVisited, OnItsWay, WillVisit
<1>3. OwedIsBound' /\ OpenOrMasked' /\ OwnData' /\ Dispatching'
  BY DefaultAssumption DEF OwedIsBound, OpenOrMasked, OwnData, Dispatching, Running, Replacing
<1> QED BY <1>1, <1>2, <1>3

LEMMA UnmaskKeeps ==
  ASSUME LowPorts, Inv, Unmask
  PROVE  Inv'
<1> USE DEF Inv, TypeOK, Shapes, Unmask, At, Goto, table
<1>1. TypeOK' /\ Shapes'
  BY DEF Positions
<1>2. SelectorOnItsWay' /\ SelectorTaken' /\ PendingIsVisited'
  BY OneWord DEF SelectorOnItsWay, SelectorTaken, PendingIsVisited, OnItsWay, WillVisit
<1>3. OwedIsBound' /\ OpenOrMasked' /\ OwnData' /\ Dispatching'
  BY DEF OwedIsBound, OpenOrMasked, OwnData, Dispatching, Running, Replacing
<1> QED BY <1>1, <1>2, <1>3

LEMMA TestMissedKeeps ==
  ASSUME LowPorts, Inv, TestMissed
  PROVE  Inv'
<1> USE DEF Inv, TypeOK, Shapes, TestMissed, At, Goto, Idle, shared, table
<1>1. TypeOK' /\ Shapes'
  BY DEF Positions
<1>2. SelectorOnItsWay' /\ SelectorTaken' /\ PendingIsVisited'
  BY OneWord DEF SelectorOnItsWay, SelectorTaken, PendingIsVisited, OnItsWay, WillVisit
<1>3. OwedIsBound' /\ OpenOrMasked' /\ OwnData' /\ Dispatching'
  BY DEF OwedIsBound, OpenOrMasked, OwnData, Dispatching, Running, Replacing
<1> QED BY <1>1, <1>2, <1>3

LEMMA SelectMissedKeeps ==
  ASSUME LowPorts, Inv, SelectMissed
  PROVE  Inv'
<1> USE DEF Inv, TypeOK, Shapes, SelectMissed, At, Goto, Idle, table
<1>0. kern.port \in Ports /\ kern.port \div IntBits \in Words
  BY DEF Words
<1>1. TypeOK' /\ Shapes'
  <2>1. sel' = sel \cup {kern.port \div IntBits} /\ sel' \subseteq Words
    BY <1>0
  <2>2. kern' \in {Idle, [pc |-> "force", port |-> kern.port]}
    OBVIOUS
  <2> QED BY <1>0, <2>1, <2>2
<1>2. SelectorOnItsWay' /\ SelectorTaken' /\ PendingIsVisited'
  BY OneWord DEF SelectorOnItsWay, SelectorTaken, PendingIsVisited, OnItsWay, WillVisit
<1>3. OwedIsBound' /\ OpenOrMasked' /\ OwnData' /\ Dispatching'
  BY DEF OwedIsBound, OpenOrMasked, OwnData, Dispatching, Running, Replacing
<1> QED BY <1>1, <1>2, <1>3

LEMMA ForceUpcallKeeps ==
  ASSUME LowPorts, Inv, ForceUpcall
  PROVE  Inv'
<1> USE DEF Inv, TypeOK, Shapes, ForceUpcall, At, Idle, table
<1>1. TypeOK' /\ Shapes'
  BY DEF Positions
<1>2. SelectorOnItsWay' /\ SelectorTaken' /\ PendingIsVisited'
  BY OneWord DEF SelectorOnItsWay, SelectorTaken, PendingIsVisited, OnItsWay, WillVisit
<1>3. OwedIsBound' /\ OpenOrMasked' /\ OwnData' /\ Dispatching'
  BY DEF OwedIsBound, OpenOrMasked, OwnData, Dispatching, Running, Replacing
<1> QED BY <1>1, <1>2, <1>3

LEMMA UnbindDataKeeps ==
  ASSUME LowPorts, Inv, UnbindData
  PROVE  Inv'
<1> USE DEF Inv, TypeOK, Shapes, UnbindData, At, Idle, shared
<1>1. TypeOK' /\ Shapes'
  BY DEF Positions
<1>2. SelectorOnItsWay' /\ SelectorTaken' /\ PendingIsVisited'
  BY OneWord DEF SelectorOnItsWay, SelectorTaken, PendingIsVisited, OnItsWay, WillVisit
<1>3. OwedIsBound' /\ OpenOrMasked' /\ OwnData' /\ Dispatching'
  BY DEF OwedIsBound, OpenOrMasked, OwnData, Dispatching, Running, Replacing
<1> QED BY <1>1, <1>2, <1>3

LEMMA UnbindMaskKeeps ==
  ASSUME LowPorts, Inv, UnbindMask
  PROVE  Inv'
<1> USE DEF Inv, TypeOK, Shapes, UnbindMask, At, Goto
<1>0. Lowest(bound) \in Ports
  <2>1. bound \in SUBSET Nat /\ bound # {}
    BY PortsAssumption
  <2>2. Lowest(bound) \in bound
    BY <2>1, Least
  <2> QED BY <2>2
<1>1. TypeOK' /\ Shapes'
  BY <1>0 DEF Positions
<1>2. SelectorOnItsWay' /\ SelectorTaken' /\ PendingIsVisited'
  BY <1>0, OneWord DEF SelectorOnItsWay, SelectorTaken, PendingIsVisited, OnItsWay, WillVisit
<1>3. OwedIsBound' /\ OpenOrMasked' /\ OwnData' /\ Dispatching'
  BY <1>0, DefaultAssumption DEF OwedIsBound, OpenOrMasked, OwnData, Dispatching, Running, Replacing
<1> QED BY <1>1, <1>2, <1>3

LEMMA UnbindCloseKeeps ==
  ASSUME LowPorts, Inv, UnbindClose
  PROVE  Inv'
<1> USE DEF Inv, TypeOK, Shapes, UnbindClose, At, Goto, shared, table
<1>1. TypeOK' /\ Shapes'
  BY DEF Positions
<1>2. SelectorOnItsWay' /\ SelectorTaken' /\ PendingIsVisited'
  BY OneWord DEF SelectorOnItsWay, SelectorTaken, PendingIsVisited, OnItsWay, WillVisit
<1>3. OwedIsBound' /\ OpenOrMasked' /\ OwnData' /\ Dispatching'
  BY DEF OwedIsBound, OpenOrMasked, OwnData, Dispatching, Running, Replacing
<1> QED BY <1>1, <1>2, <1>3

LEMMA UnbindDoneKeeps ==
  ASSUME LowPorts, Inv, UnbindDone
  PROVE  Inv'
<1> USE DEF Inv, TypeOK, Shapes, UnbindDone, At, Goto, shared, table
<1>1. TypeOK' /\ Shapes'
  BY DEF Positions
<1>2. SelectorOnItsWay' /\ SelectorTaken' /\ PendingIsVisited'
  BY OneWord DEF SelectorOnItsWay, SelectorTaken, PendingIsVisited, OnItsWay, WillVisit
<1>3. OwedIsBound' /\ OpenOrMasked' /\ OwnData' /\ Dispatching'
  BY DEF OwedIsBound, OpenOrMasked, OwnData, Dispatching, Running, Replacing
<1> QED BY <1>1, <1>2, <1>3

LEMMA UnbindAllKeeps ==
  ASSUME LowPorts, Inv, UnbindAll
  PROVE  Inv'
<1> USE DEF Inv, TypeOK, Shapes, UnbindAll, At, Goto, shared, table
<1>1. TypeOK' /\ Shapes'
  BY DEF Positions
<1>2. SelectorOnItsWay' /\ SelectorTaken' /\ PendingIsVisited'
  BY OneWord DEF SelectorOnItsWay, SelectorTaken, PendingIsVisited, OnItsWay, WillVisit
<1>3. OwedIsBound' /\ OpenOrMasked' /\ OwnData' /\ Dispatching'
  BY DEF OwedIsBound, OpenOrMasked, OwnData, Dispatching, Running, Replacing
<1> QED BY <1>1, <1>2, <1>3

LEMMA BindVirqKeeps ==
  ASSUME LowPorts, Inv, NEW p \in Ports, BindVirq(p)
  PROVE  Inv'
<1> USE DEF Inv, TypeOK, Shapes, BindVirq, At, Goto, Openable, shared
<1>1. TypeOK' /\ Shapes'
  BY DEF Positions
<1>2. SelectorOnItsWay' /\ SelectorTaken' /\ PendingIsVisited'
  BY OneWord DEF SelectorOnItsWay, SelectorTaken, PendingIsVisited, OnItsWay, WillVisit
<1>3. OwedIsBound' /\ OpenOrMasked' /\ OwnData' /\ Dispatching'
  BY DEF OwedIsBound, OpenOrMasked, OwnData, Dispatching, Running, Replacing
<1> QED BY <1>1, <1>2, <1>3

LEMMA BindInterdomainKeeps ==
  ASSUME LowPorts, Inv, NEW p \in Ports, BindInterdomain(p)
  PROVE  Inv'
<1> USE DEF Inv, TypeOK, Shapes, BindInterdomain, At, Goto, Openable, shared
<1>1. TypeOK' /\ Shapes'
  BY DEF Positions
<1>2. SelectorOnItsWay' /\ SelectorTaken' /\ PendingIsVisited'
  BY OneWord DEF SelectorOnItsWay, SelectorTaken, PendingIsVisited, OnItsWay, WillVisit
<1>3. OwedIsBound' /\ OpenOrMasked' /\ OwnData' /\ Dispatching'
  BY DEF OwedIsBound, OpenOrMasked, OwnData, Dispatching, Running, Replacing
<1> QED BY <1>1, <1>2, <1>3

LEMMA AllocUnboundKeeps ==
  ASSUME LowPorts, Inv, NEW p \in Ports, AllocUnbound(p)
  PROVE  Inv'
<1> USE DEF Inv, TypeOK, Shapes, AllocUnbound, At, Goto, Openable, shared, table
<1>1. TypeOK' /\ Shapes'
  BY DEF Positions
<1>2. SelectorOnItsWay' /\ SelectorTaken' /\ PendingIsVisited'
  BY OneWord DEF SelectorOnItsWay, SelectorTaken, PendingIsVisited, OnItsWay, WillVisit
<1>3. OwedIsBound' /\ OpenOrMasked' /\ OwnData' /\ Dispatching'
  BY DEF OwedIsBound, OpenOrMasked, OwnData, Dispatching, Running, Replacing
<1> QED BY <1>1, <1>2, <1>3

LEMMA BindBootPortKeeps ==
  ASSUME LowPorts, Inv, NEW p \in Ports, BindBootPort(p)
  PROVE  Inv'
<1> USE DEF Inv, TypeOK, Shapes, BindBootPort, At, Goto, shared, table
<1>1. TypeOK' /\ Shapes'
  BY DEF Positions
<1>2. SelectorOnItsWay' /\ SelectorTaken' /\ PendingIsVisited'
  BY OneWord DEF SelectorOnItsWay, SelectorTaken, PendingIsVisited, OnItsWay, WillVisit
<1>3. OwedIsBound' /\ OpenOrMasked' /\ OwnData' /\ Dispatching'
  BY DEF OwedIsBound, OpenOrMasked, OwnData, Dispatching, Running, Replacing
<1> QED BY <1>1, <1>2, <1>3

LEMMA UnbindKeeps ==
  ASSUME LowPorts, Inv, NEW p \in Ports, Unbind(p)
  PROVE  Inv'
<1> USE DEF Inv, TypeOK, Shapes, Unbind, At, Goto, shared
<1>1. TypeOK' /\ Shapes'
  BY DEF Positions
<1>2. SelectorOnItsWay' /\ SelectorTaken' /\ PendingIsVisited'
  BY OneWord DEF SelectorOnItsWay, SelectorTaken, PendingIsVisited, OnItsWay, WillVisit
<1>3. OwedIsBound' /\ OpenOrMasked' /\ OwnData' /\ Dispatching'
  BY DEF OwedIsBound, OpenOrMasked, OwnData, Dispatching, Running, Replacing
<1> QED BY <1>1, <1>2, <1>3

\* Then the upcall.
LEMMA DeliverKeeps ==
  ASSUME LowPorts, Inv, Deliver
  PROVE  Inv'
<1> USE DEF Inv, TypeOK, Shapes, Deliver, table
<1>1. TypeOK' /\ Shapes'
  BY DEF Positions
<1>2. SelectorOnItsWay' /\ SelectorTaken' /\ PendingIsVisited'
  BY OneWord DEF SelectorOnItsWay, SelectorTaken, PendingIsVisited, OnItsWay, WillVisit
<1>3. OwedIsBound' /\ OpenOrMasked' /\ OwnData' /\ Dispatching'
  BY DEF OwedIsBound, OpenOrMasked, OwnData, Dispatching, Running, Replacing
<1> QED BY <1>1, <1>2, <1>3

LEMMA ClearUpcallKeeps ==
  ASSUME LowPorts, Inv, ClearUpcall
  PROVE  Inv'
<1> USE DEF Inv, TypeOK, Shapes, ClearUpcall, table
<1>1. TypeOK' /\ Shapes'
  BY DEF Positions
<1>2. SelectorOnItsWay' /\ SelectorTaken' /\ PendingIsVisited'
  BY OneWord DEF SelectorOnItsWay, SelectorTaken, PendingIsVisited, OnItsWay, WillVisit
<1>3. OwedIsBound' /\ OpenOrMasked' /\ OwnData' /\ Dispatching'
  BY DEF OwedIsBound, OpenOrMasked, OwnData, Dispatching, Running, Replacing
<1> QED BY <1>1, <1>2, <1>3

LEMMA TakeSelectorKeeps ==
  ASSUME LowPorts, Inv, TakeSelector
  PROVE  Inv'
<1> USE DEF Inv, TypeOK, Shapes, TakeSelector, table
<1>1. TypeOK' /\ Shapes'
  BY DEF Positions
<1>2. SelectorOnItsWay' /\ SelectorTaken' /\ PendingIsVisited'
  BY OneWord DEF SelectorOnItsWay, SelectorTaken, PendingIsVisited, OnItsWay, WillVisit
<1>3. OwedIsBound' /\ OpenOrMasked' /\ OwnData' /\ Dispatching'
  BY DEF OwedIsBound, OpenOrMasked, OwnData, Dispatching, Running, Replacing
<1> QED BY <1>1, <1>2, <1>3

LEMMA NextWordKeeps ==
  ASSUME LowPorts, Inv, NextWord
  PROVE  Inv'
<1> USE DEF Inv, TypeOK, Shapes, NextWord, shared, table
<1>0. cb.l1 # {} => Lowest(cb.l1) \in cb.l1
  <2>1. cb.l1 \in SUBSET Nat
    BY OneWord
  <2> QED BY <2>1, Least
<1>1. TypeOK' /\ Shapes'
  <2>1. CASE cb.l1 = {}
    BY <2>1 DEF Positions
  <2>2. CASE cb.l1 # {}
    <3>1. Lowest(cb.l1) \in cb.l1
      BY <1>0, <2>2
    <3> QED BY <2>2, <3>1 DEF Positions
  <2> QED BY <2>1, <2>2
<1>2. SelectorOnItsWay' /\ SelectorTaken' /\ PendingIsVisited'
  BY OneWord DEF SelectorOnItsWay, SelectorTaken, PendingIsVisited, OnItsWay, WillVisit
<1>3. OwedIsBound' /\ OpenOrMasked' /\ OwnData' /\ Dispatching'
  BY DEF OwedIsBound, OpenOrMasked, OwnData, Dispatching, Running, Replacing
<1> QED BY <1>1, <1>2, <1>3

\* The lowest active bit is a pending, unmasked port; when there is none, no
\* port is left to visit and the word is done.
LEMMA NextPortKeeps ==
  ASSUME LowPorts, Inv, NextPort
  PROVE  Inv'
<1> USE OneWord, PortsAssumption DEF Inv, TypeOK, Shapes, Positions, NextPort, shared, table
<1>1. cb.word = 0 /\ cb.pc = "ports"
  OBVIOUS
<1>2. pending \ mask \subseteq Active(0)
  <2> SUFFICES ASSUME NEW p \in pending \ mask PROVE p \in Active(0)
    OBVIOUS
  <2>1. p \in Ports /\ p \in Nat /\ p < IntBits /\ IntBits \in Nat /\ WordBits \in Nat
    BY BitsAssumption DEF LowPorts
  <2>2. p \in 0 .. IntBits - 1 /\ 0 * WordBits + p = p
    BY <2>1, SMT
  <2> QED BY <2>2 DEF Active
<1>3. \A b \in Active(0) : b \in Nat /\ PortOf(0, b) = b /\ b \in pending \ mask
  BY BitsAssumption DEF Active, PortOf
<1>4. CASE Active(0) = {}
  <2>1. cb' = [cb EXCEPT !.pc = "words"] /\ pending \ mask = {}
    BY <1>1, <1>2, <1>4
  <2>2. TypeOK' /\ Shapes'
    BY <2>1
  <2>3. SelectorOnItsWay' /\ SelectorTaken' /\ PendingIsVisited'
    <3>1. SelectorOnItsWay'
      BY <2>1, <1>1 DEF SelectorOnItsWay, OnItsWay
    <3>2. SelectorTaken'
      BY <2>1, <1>1 DEF SelectorTaken
    <3>3. PendingIsVisited'
      BY <2>1, <1>1 DEF PendingIsVisited, OnItsWay, WillVisit
    <3> QED BY <3>1, <3>2, <3>3
  <2>4. OwedIsBound' /\ OpenOrMasked' /\ OwnData' /\ Dispatching'
    BY <2>1 DEF OwedIsBound, OpenOrMasked, OwnData, Dispatching, Replacing, Running
  <2> QED BY <2>2, <2>3, <2>4
<1>5. CASE Active(0) # {}
  <2>1. Active(0) \in SUBSET Nat
    BY <1>3
  <2>2. Lowest(Active(0)) \in Active(0)
    BY <2>1, <1>5, Least
  <2>3. PICK p \in pending \ mask : cb' = [cb EXCEPT !.pc = "handle", !.port = p]
    BY <2>2, <1>1, <1>3, <1>5
  <2>4. TypeOK' /\ Shapes'
    BY <2>3
  <2>5. SelectorOnItsWay' /\ SelectorTaken' /\ PendingIsVisited'
    <3>1. SelectorOnItsWay'
      BY <2>3, <1>1 DEF SelectorOnItsWay, OnItsWay
    <3>2. SelectorTaken'
      BY <2>3, <1>1 DEF SelectorTaken
    <3>3. PendingIsVisited'
      BY <2>3, <1>1 DEF PendingIsVisited, OnItsWay, WillVisit
    <3> QED BY <3>1, <3>2, <3>3
  <2>6. OwedIsBound' /\ OpenOrMasked' /\ OwnData' /\ Dispatching'
    BY <2>3 DEF OwedIsBound, OpenOrMasked, OwnData, Dispatching, Replacing, Running
  <2> QED BY <2>4, <2>5, <2>6
<1> QED BY <1>4, <1>5

LEMMA CallHandlerKeeps ==
  ASSUME LowPorts, Inv, CallHandler
  PROVE  Inv'
<1> USE DEF Inv, TypeOK, Shapes, CallHandler, shared, table
<1>1. TypeOK' /\ Shapes'
  BY DEF Positions
<1>2. SelectorOnItsWay' /\ SelectorTaken' /\ PendingIsVisited'
  BY OneWord DEF SelectorOnItsWay, SelectorTaken, PendingIsVisited, OnItsWay, WillVisit
<1>3. OwedIsBound' /\ OpenOrMasked' /\ OwnData' /\ Dispatching'
  BY DEF OwedIsBound, OpenOrMasked, OwnData, Dispatching, Running, Replacing
<1> QED BY <1>1, <1>2, <1>3

LEMMA ClearPortKeeps ==
  ASSUME LowPorts, Inv, ClearPort
  PROVE  Inv'
<1> USE DEF Inv, TypeOK, Shapes, ClearPort, table
<1>1. TypeOK' /\ Shapes'
  BY DEF Positions
<1>2. SelectorOnItsWay' /\ SelectorTaken' /\ PendingIsVisited'
  BY OneWord DEF SelectorOnItsWay, SelectorTaken, PendingIsVisited, OnItsWay, WillVisit
<1>3. OwedIsBound' /\ OpenOrMasked' /\ OwnData' /\ Dispatching'
  BY DEF OwedIsBound, OpenOrMasked, OwnData, Dispatching, Running, Replacing
<1> QED BY <1>1, <1>2, <1>3

LEMMA UnblockKeeps ==
  ASSUME LowPorts, Inv, Unblock
  PROVE  Inv'
<1> USE DEF Inv, TypeOK, Shapes, Unblock, table
<1>1. TypeOK' /\ Shapes'
  BY DEF Positions
<1>2. SelectorOnItsWay' /\ SelectorTaken' /\ PendingIsVisited'
  BY OneWord DEF SelectorOnItsWay, SelectorTaken, PendingIsVisited, OnItsWay, WillVisit
<1>3. OwedIsBound' /\ OpenOrMasked' /\ OwnData' /\ Dispatching'
  BY DEF OwedIsBound, OpenOrMasked, OwnData, Dispatching, Running, Replacing
<1> QED BY <1>1, <1>2, <1>3

LEMMA TestPendingKeeps ==
  ASSUME LowPorts, Inv, TestPending
  PROVE  Inv'
<1> USE DEF Inv, TypeOK, Shapes, TestPending, NoUpcall, table
<1>1. TypeOK' /\ Shapes'
  <2>1. CASE upcallPending
    BY <2>1 DEF Positions, shared
  <2>2. CASE ~upcallPending
    BY <2>2 DEF Positions
  <2> QED BY <2>1, <2>2
<1>2. SelectorOnItsWay' /\ SelectorTaken' /\ PendingIsVisited'
  BY OneWord DEF SelectorOnItsWay, SelectorTaken, PendingIsVisited, OnItsWay, WillVisit
<1>3. OwedIsBound' /\ OpenOrMasked' /\ OwnData' /\ Dispatching'
  BY DEF OwedIsBound, OpenOrMasked, OwnData, Dispatching, Running, Replacing
<1> QED BY <1>1, <1>2, <1>3

\* And the hypervisor, on another CPU.
LEMMA RaiseKeeps ==
  ASSUME LowPorts, Inv, NEW p \in Ports, Raise(p)
  PROVE  Inv'
<1> USE DEF Inv, TypeOK, Shapes, Raise, InHandler, table
<1>1. TypeOK' /\ Shapes'
  BY DEF Positions
<1>2. SelectorOnItsWay' /\ SelectorTaken' /\ PendingIsVisited'
  BY OneWord DEF SelectorOnItsWay, SelectorTaken, PendingIsVisited, OnItsWay, WillVisit
<1>3. OwedIsBound' /\ OpenOrMasked' /\ OwnData' /\ Dispatching'
  BY DEF OwedIsBound, OpenOrMasked, OwnData, Dispatching, Running, Replacing
<1> QED BY <1>1, <1>2, <1>3

LEMMA SelectKeeps ==
  ASSUME LowPorts, Inv, NEW p \in Ports, Select(p)
  PROVE  Inv'
<1> USE DEF Inv, TypeOK, Shapes, Select, table
<1>1. TypeOK' /\ Shapes'
  BY DEF Positions, Words
<1>2. SelectorOnItsWay' /\ SelectorTaken' /\ PendingIsVisited'
  BY OneWord DEF SelectorOnItsWay, SelectorTaken, PendingIsVisited, OnItsWay, WillVisit
<1>3. OwedIsBound' /\ OpenOrMasked' /\ OwnData' /\ Dispatching'
  BY DEF OwedIsBound, OpenOrMasked, OwnData, Dispatching, Running, Replacing
<1> QED BY <1>1, <1>2, <1>3

LEMMA MarkKeeps ==
  ASSUME LowPorts, Inv, NEW p \in Ports, Mark(p)
  PROVE  Inv'
<1> USE DEF Inv, TypeOK, Shapes, Mark, table
<1>1. TypeOK' /\ Shapes'
  BY DEF Positions
<1>2. SelectorOnItsWay' /\ SelectorTaken' /\ PendingIsVisited'
  BY OneWord DEF SelectorOnItsWay, SelectorTaken, PendingIsVisited, OnItsWay, WillVisit
<1>3. OwedIsBound' /\ OpenOrMasked' /\ OwnData' /\ Dispatching'
  BY DEF OwedIsBound, OpenOrMasked, OwnData, Dispatching, Running, Replacing
<1> QED BY <1>1, <1>2, <1>3

----------------------------------------------------------------------------
\* The invariant holds at the start, in every step, and so always.
LEMMA InitInv ==
  ASSUME LowPorts, Init
  PROVE  Inv
<1> USE OneWord, PortsAssumption, DefaultAssumption DEF Init, NoUpcall
<1>1. TypeOK /\ Shapes
  BY DEF TypeOK, Shapes, Positions, Words
<1>2. SelectorOnItsWay /\ SelectorTaken /\ PendingIsVisited
  BY DEF SelectorOnItsWay, SelectorTaken, PendingIsVisited, OnItsWay
<1>3. OwedIsBound /\ OpenOrMasked /\ OwnData /\ Dispatching
  BY DEF OwedIsBound, OpenOrMasked, OwnData, Dispatching
<1> QED BY <1>1, <1>2, <1>3 DEF Inv

LEMMA StutterKeeps ==
  ASSUME Inv, UNCHANGED vars
  PROVE  Inv'
<1> USE DEF vars, shared, table
<1>1. TypeOK' /\ Shapes'
  BY DEF Inv, TypeOK, Shapes
<1>2. SelectorOnItsWay' /\ SelectorTaken' /\ PendingIsVisited'
  BY DEF Inv, SelectorOnItsWay, SelectorTaken, PendingIsVisited, OnItsWay, WillVisit
<1>3. OwedIsBound' /\ OpenOrMasked' /\ OwnData' /\ Dispatching'
  BY DEF Inv, OwedIsBound, OpenOrMasked, OwnData, Dispatching, Running, Replacing
<1> QED BY <1>1, <1>2, <1>3 DEF Inv

LEMMA NextKeeps ==
  ASSUME LowPorts, Inv, [Next]_vars
  PROVE  Inv'
<1>1. CASE UNCHANGED vars
  BY <1>1, StutterKeeps
<1>2. CASE Kernel
  <2>1. CASE Sti \/ UnbindAll
    BY <2>1, StiKeeps, UnbindAllKeeps
  <2>2. CASE Bind
    BY <2>2, BindClearKeeps, BindDataKeeps, BindHandlerKeeps, UnmaskKeeps, TestMissedKeeps,
       SelectMissedKeeps, ForceUpcallKeeps DEF Bind
  <2>3. CASE Closing
    BY <2>3, UnbindDataKeeps, UnbindMaskKeeps, UnbindCloseKeeps, UnbindDoneKeeps DEF Closing
  <2>4. ASSUME NEW p \in Ports,
               \/ BindVirq(p) \/ BindInterdomain(p) \/ AllocUnbound(p)
               \/ BindBootPort(p) \/ Unbind(p)
        PROVE  Inv'
    BY <2>4, BindVirqKeeps, BindInterdomainKeeps, AllocUnboundKeeps, BindBootPortKeeps, UnbindKeeps
  <2> QED BY <1>2, <2>1, <2>2, <2>3, <2>4 DEF Kernel
<1>3. CASE Deliver \/ Callback
  BY <1>3, DeliverKeeps, ClearUpcallKeeps, TakeSelectorKeeps, NextWordKeeps, NextPortKeeps,
     CallHandlerKeeps, ClearPortKeeps, UnblockKeeps, TestPendingKeeps DEF Callback
<1>4. ASSUME NEW p \in Ports, Raise(p) \/ Select(p) \/ Mark(p) PROVE Inv'
  BY <1>4, RaiseKeeps, SelectKeeps, MarkKeeps
<1> QED BY <1>1, <1>2, <1>3, <1>4 DEF Next

LEMMA AlwaysInv ==
  ASSUME LowPorts
  PROVE  Spec => []Inv
<1>1. Init => Inv
  BY InitInv
<1>2. Inv /\ [Next]_vars => Inv'
  BY NextKeeps
<1> QED BY <1>1, <1>2, PTL DEF Spec
-----------------------------------------------------------------------------
\* No event is lost on ports the code can number, however many there are and
\* however kernel, upcall and hypervisor interleave: a pending port that is not
\* masked is on its way to the upcall, and what is owed to a handler is pending.
THEOREM PendingNeverForgotten ==
  ASSUME LowPorts
  PROVE  Spec => []NoneForgotten
<1>1. Inv => NoneForgotten
  BY DEF Inv, OwedIsBound, TypeOK, NoneForgotten, OwedIsPending
<1> QED BY <1>1, AlwaysInv, PTL

\* The upcall calls a handler only for a pending port that is not masked, and
\* for none that xenEventUnbindAllPorts has closed.
THEOREM DispatchesOnlyPending ==
  ASSUME LowPorts
  PROVE  Spec => []DispatchesPending
<1>1. Inv => DispatchesPending
  BY DEF Inv, Dispatching, OpenOrMasked, TypeOK, DispatchesPending, ClosedIsQuiet
<1> QED BY <1>1, AlwaysInv, PTL

\* xenEventBind and xenEventUnbind write data and handler in an order in which
\* an upcall between the two writes runs no handler with the data of another,
\* but for the handler xenEventBind is just replacing.
THEOREM HandlersGetTheirData ==
  ASSUME LowPorts
  PROVE  Spec => []HandlerGetsItsData
<1>1. Inv => HandlerGetsItsData
  BY DEF Inv, Dispatching, OwnData, TypeOK, HandlerGetsItsData
<1> QED BY <1>1, AlwaysInv, PTL
=============================================================================
