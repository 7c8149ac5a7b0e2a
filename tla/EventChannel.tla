----------------------------- MODULE EventChannel -----------------------------
(****************************************************************************)
(* Event channels: src/xen/xenEvent.c, src/xen/xenEventHandler.c, the upcall *)
(* path of src/arch/x86_64/entry.S and the flag macros of                    *)
(* src/include/nano/xenEvent.h.                                              *)
(*                                                                           *)
(* Three parties share the pending, mask and selector bits: the main thread  *)
(* of the kernel, the upcall that interrupts it on the same virtual CPU, and *)
(* the hypervisor raising events from other CPUs.  A step is one access to   *)
(* the shared bits; nothing but the code's own flags keeps the steps apart.  *)
(*                                                                           *)
(* A word of pending bits has WordBits bits, but the code numbers ports by   *)
(* IntBits (>> 5, << 5) and tests a word through an int: 64 and 32 in the    *)
(* build, smaller here in the same proportion.                               *)
(****************************************************************************)
EXTENDS Naturals, FiniteSets

CONSTANTS Ports,        \* the event channels of the instance, of 0 .. NR_EVS - 1
          BootPorts,    \* the ones Xen opened before the kernel started
          Handlers,     \* procedures bound to ports; each has its own data
          Default,      \* xenEventDefaultHandler, and its NULL data
          WordBits, IntBits

ASSUME PortsAssumption   == Ports \subseteq Nat /\ BootPorts \subseteq Ports
ASSUME DefaultAssumption == Default \notin Handlers
ASSUME BitsAssumption    == WordBits \in Nat \ {0} /\ IntBits \in Nat \ {0}

VARIABLES
  pending, mask, sel,            \* evtchn_pending, evtchn_mask, evtchn_pending_sel
  upcallPending, upcallMask,     \* the flags of vcpu_info
  open,                          \* channels open at the hypervisor
  handler, data, bound,          \* ev_actions and bound_ports
  kern,                          \* main thread: where it is, and its port
  cb,                            \* upcall: where it is, selector copy, word, port
  xen,                           \* per port: how far the hypervisor got raising it
  owed                           \* history: raised on a bound port, no handler call since

shared == <<pending, mask, sel, upcallPending, upcallMask>>
table  == <<handler, data, bound>>
vars   == <<shared, open, table, kern, cb, xen, owed>>

Lowest(S)   == CHOOSE x \in S : \A y \in S : x <= y
XenWord(p)  == p \div WordBits
Words       == {XenWord(p) : p \in Ports} \cup {p \div IntBits : p \in Ports}

At(pc)      == kern.pc = pc /\ cb.pc = "off"       \* the main thread is running
Goto(pc, p) == kern' = [pc |-> pc, port |-> p]
Idle        == [pc |-> "idle", port |-> 0]
NoUpcall    == [pc |-> "off", l1 |-> {}, word |-> 0, port |-> 0]

\* xenEventInit masked every port and set the default handlers; events of
\* before are pending, and delivery is off until the kernel's first __sti.
Init == /\ pending \in SUBSET BootPorts
        /\ mask = Ports
        /\ sel = {XenWord(p) : p \in pending}
        /\ upcallPending = (pending # {})
        /\ upcallMask = TRUE
        /\ open = BootPorts
        /\ handler = [p \in Ports |-> Default]
        /\ data = [p \in Ports |-> Default]
        /\ bound = {}
        /\ kern = [pc |-> "sti", port |-> 0]
        /\ cb = NoUpcall
        /\ xen = [p \in Ports |-> "idle"]
        /\ owed = {}

----------------------------------------------------------------------------
\* The hypervisor raises port p: it sets the pending bit, and when that was
\* clear and the port is not masked, the selector bit and the upcall flag.
InHandler(p) == cb.pc = "clear" /\ cb.port = p

Raise(p) == /\ p \in open /\ xen[p] = "idle"
            /\ pending' = pending \cup {p}
            /\ xen' = [xen EXCEPT ![p] = IF p \in pending THEN "idle" ELSE "raised"]
            /\ owed' = IF handler[p] # Default /\ ~InHandler(p) THEN owed \cup {p} ELSE owed
            /\ UNCHANGED <<mask, sel, upcallPending, upcallMask, open, table, kern, cb>>

Select(p) == /\ xen[p] = "raised"
             /\ IF p \in mask \/ XenWord(p) \in sel
                  THEN xen' = [xen EXCEPT ![p] = "idle"] /\ UNCHANGED sel
                  ELSE /\ xen' = [xen EXCEPT ![p] = "selected"]
                       /\ sel' = sel \cup {XenWord(p)}
             /\ UNCHANGED <<pending, mask, upcallPending, upcallMask, open, table, kern, cb, owed>>

Mark(p) == /\ xen[p] = "selected"
           /\ xen' = [xen EXCEPT ![p] = "idle"]
           /\ upcallPending' = TRUE
           /\ UNCHANGED <<pending, mask, sel, upcallMask, open, table, kern, cb, owed>>

\* Returning to the guest with the flag up and delivery on, Xen turns delivery
\* off and enters hypervisor_callback; an upcall in the critical region of the
\* return path of another is merged with it (critical_region_fixup).
Deliver == /\ cb.pc \in {"off", "unblocked"}
           /\ upcallPending /\ ~upcallMask
           /\ upcallMask' = TRUE
           /\ cb' = [cb EXCEPT !.pc = "entry"]
           /\ UNCHANGED <<pending, mask, sel, upcallPending, open, table, kern, xen, owed>>

----------------------------------------------------------------------------
\* xenEventHandlerCallback.
ClearUpcall == /\ cb.pc = "entry"
               /\ upcallPending' = FALSE
               /\ cb' = [cb EXCEPT !.pc = "xchg"]
               /\ UNCHANGED <<pending, mask, sel, upcallMask, open, table, kern, xen, owed>>

TakeSelector == /\ cb.pc = "xchg"
                /\ cb' = [cb EXCEPT !.pc = "words", !.l1 = sel]
                /\ sel' = {}
                /\ UNCHANGED <<pending, mask, upcallPending, upcallMask, open, table, kern, xen, owed>>

NextWord == /\ cb.pc = "words"
            /\ cb' = IF cb.l1 = {} THEN [cb EXCEPT !.pc = "return"]
                     ELSE [cb EXCEPT !.pc = "ports", !.word = Lowest(cb.l1),
                                     !.l1 = @ \ {Lowest(@)}]
            /\ UNCHANGED <<shared, open, table, kern, xen, owed>>

\* Names with an underscore are deliberately wrong variants of the definition
\* that follows them; each is used only to see a property fail.

\* ... the mask is not consulted
Active_IgnoresMask(w) == {b \in 0 .. IntBits - 1 : w * WordBits + b \in pending}

\* The bits of word w that xenEventHandlerActive returns: an int has only the
\* lower IntBits of them.
Active(w) == {b \in 0 .. IntBits - 1 : w * WordBits + b \in pending \ mask}

\* The port the callback computes for bit b of word w.
PortOf(w, b) == w * IntBits + b

NextPort == /\ cb.pc = "ports"
            /\ cb' = IF Active(cb.word) = {} THEN [cb EXCEPT !.pc = "words"]
                     ELSE [cb EXCEPT !.pc = "handle",
                                     !.port = PortOf(cb.word, Lowest(Active(cb.word)))]
            /\ UNCHANGED <<shared, open, table, kern, xen, owed>>

\* xenEventHandle: the handler runs, and only then is the pending bit cleared.
CallHandler == /\ cb.pc = "handle"
               /\ cb' = [cb EXCEPT !.pc = "clear"]
               /\ owed' = owed \ {cb.port}
               /\ UNCHANGED <<shared, open, table, kern, xen>>

ClearPort == /\ cb.pc = "clear"
             /\ pending' = pending \ {cb.port}
             /\ cb' = [cb EXCEPT !.pc = "ports"]
             /\ UNCHANGED <<mask, sel, upcallPending, upcallMask, open, table, kern, xen, owed>>

\* retint_kernel: delivery was on in the interrupted context and is off now,
\* so it is turned on again; then the flag is tested once more.
Unblock == /\ cb.pc = "return"
           /\ upcallMask' = FALSE
           /\ cb' = [cb EXCEPT !.pc = "unblocked"]
           /\ UNCHANGED <<pending, mask, sel, upcallPending, open, table, kern, xen, owed>>

TestPending == /\ cb.pc = "unblocked"
               /\ IF upcallPending
                    THEN upcallMask' = TRUE /\ cb' = [cb EXCEPT !.pc = "entry"]
                    ELSE cb' = NoUpcall /\ UNCHANGED upcallMask
               /\ UNCHANGED <<pending, mask, sel, upcallPending, open, table, kern, xen, owed>>

Callback == \/ ClearUpcall \/ TakeSelector \/ NextWord \/ NextPort
            \/ CallHandler \/ ClearPort \/ Unblock \/ TestPending

----------------------------------------------------------------------------
\* __sti of startKernel, after xenEventInit.
Sti == /\ At("sti")
       /\ upcallMask' = FALSE
       /\ kern' = Idle
       /\ UNCHANGED <<pending, mask, sel, upcallPending, open, table, cb, xen, owed>>

\* The hypercall of xenEventBindVirq, xenEventBindInterdomain or
\* xenEventAllocUnbound opens a channel; the last does not note it in
\* bound_ports, and only xenEventBindInterdomain clears what is pending.
Openable(p) == At("idle") /\ p \notin open

BindVirq(p) == /\ Openable(p)
               /\ open' = open \cup {p}
               /\ bound' = bound \cup {p}
               /\ Goto("bind", p)
               /\ UNCHANGED <<shared, handler, data, cb, xen, owed>>

BindInterdomain(p) == /\ Openable(p)
                      /\ open' = open \cup {p}
                      /\ bound' = bound \cup {p}
                      /\ Goto("clear", p)
                      /\ UNCHANGED <<shared, handler, data, cb, xen, owed>>

AllocUnbound(p) == /\ Openable(p)
                   /\ open' = open \cup {p}
                   /\ Goto("bind", p)
                   /\ UNCHANGED <<shared, table, cb, xen, owed>>

\* Console and xenstore call xenEventBind for the channel Xen gave them; it
\* only warns when the port has a handler.
BindBootPort(p) == /\ At("idle") /\ p \in BootPorts \cap open
                   /\ Goto("bind", p)
                   /\ UNCHANGED <<shared, open, table, cb, xen, owed>>

BindClear == /\ At("clear")
             /\ pending' = pending \ {kern.port}
             /\ Goto("bind", kern.port)
             /\ UNCHANGED <<mask, sel, upcallPending, upcallMask, open, table, cb, xen, owed>>

\* xenEventBind stores the data, then the handler, then unmasks the port.
BindData(h) == /\ At("bind")
               /\ data' = [data EXCEPT ![kern.port] = h]
               /\ kern' = [pc |-> "handler", port |-> kern.port]
               /\ UNCHANGED <<shared, open, handler, bound, cb, xen, owed>>

BindHandler == /\ At("handler")
               /\ handler' = [handler EXCEPT ![kern.port] = data[kern.port]]
               /\ Goto("unmask", kern.port)
               /\ UNCHANGED <<shared, open, data, bound, cb, xen, owed>>

\* xenEventHandlerUnmask clears the mask bit, then looks whether an event came
\* while it was set; the selector bit it sets is numbered by port >> 5.
Unmask == /\ At("unmask")
          /\ mask' = mask \ {kern.port}
          /\ Goto("test", kern.port)
          /\ UNCHANGED <<pending, sel, upcallPending, upcallMask, open, table, cb, xen, owed>>

\* ... what came while the port was masked is not looked for
TestMissed_Never == /\ At("test")
                    /\ kern' = Idle
                    /\ UNCHANGED <<shared, open, table, cb, xen, owed>>

TestMissed == /\ At("test")
              /\ IF kern.port \in pending THEN Goto("select", kern.port) ELSE kern' = Idle
              /\ UNCHANGED <<shared, open, table, cb, xen, owed>>

SelectMissed == LET w == kern.port \div IntBits IN
                /\ At("select")
                /\ IF w \in sel THEN kern' = Idle ELSE Goto("force", kern.port)
                /\ sel' = sel \cup {w}
                /\ UNCHANGED <<pending, mask, upcallPending, upcallMask, open, table, cb, xen, owed>>

\* ... the upcall flag is not raised
ForceUpcall_NoFlag == /\ At("force")
                      /\ kern' = Idle
                      /\ UNCHANGED <<shared, open, table, cb, xen, owed>>

ForceUpcall == /\ At("force")
               /\ upcallPending' = TRUE
               /\ kern' = Idle
               /\ UNCHANGED <<pending, mask, sel, upcallMask, open, table, cb, xen, owed>>

\* ... the data goes first and the handler stays
Unbind_DataFirst(p) == /\ At("idle") /\ handler[p] # Default
                       /\ data' = [data EXCEPT ![p] = Default]
                       /\ Goto("unbind", p)
                       /\ UNCHANGED <<shared, open, handler, bound, cb, xen, owed>>

\* xenEventUnbind puts the default handler back, then drops the data.
Unbind(p) == /\ At("idle") /\ handler[p] # Default
             /\ handler' = [handler EXCEPT ![p] = Default]
             /\ owed' = owed \ {p}
             /\ Goto("unbind", p)
             /\ UNCHANGED <<shared, open, data, bound, cb, xen>>

UnbindData == /\ At("unbind")
              /\ data' = [data EXCEPT ![kern.port] = Default]
              /\ kern' = Idle
              /\ UNCHANGED <<shared, open, handler, bound, cb, xen, owed>>

\* xenEventUnbindAllPorts visits bound_ports: each port is masked, then closed.
UnbindAll == /\ At("idle")
             /\ Goto("nextPort", 0)
             /\ UNCHANGED <<shared, open, table, cb, xen, owed>>

UnbindMask == /\ At("nextPort") /\ bound # {}
              /\ bound' = bound \ {Lowest(bound)}
              /\ mask' = mask \cup {Lowest(bound)}
              /\ Goto("close", Lowest(bound))
              /\ UNCHANGED <<pending, sel, upcallPending, upcallMask, open, handler, data, cb,
                             xen, owed>>

UnbindClose == /\ At("close")
               /\ open' = open \ {kern.port}
               /\ Goto("nextPort", 0)
               /\ UNCHANGED <<shared, table, cb, xen, owed>>

UnbindDone == /\ At("nextPort") /\ bound = {}
              /\ Goto("allClosed", 0)
              /\ UNCHANGED <<shared, open, table, cb, xen, owed>>

Bind    == \/ BindClear \/ \E h \in Handlers : BindData(h)
           \/ BindHandler \/ Unmask \/ TestMissed \/ SelectMissed \/ ForceUpcall
Closing == UnbindData \/ UnbindMask \/ UnbindClose \/ UnbindDone

Kernel == \/ Sti \/ Bind \/ Closing \/ UnbindAll
          \/ \E p \in Ports : \/ BindVirq(p) \/ BindInterdomain(p) \/ AllocUnbound(p)
                              \/ BindBootPort(p) \/ Unbind(p)

Next == \/ Kernel \/ Deliver \/ Callback
        \/ \E p \in Ports : Raise(p) \/ Select(p) \/ Mark(p)

\* The hypervisor finishes raising an event and tests the flag whenever it
\* returns to the guest; an upcall and a binding that were begun go on.
Spec == /\ Init /\ [][Next]_vars
        /\ WF_vars(Deliver) /\ WF_vars(Callback) /\ WF_vars(Sti \/ Bind \/ Closing)
        /\ \A p \in Ports : WF_vars(Select(p) \/ Mark(p))

----------------------------------------------------------------------------
\* Types of the shared bits and of the three parties' positions.
TypeOK ==
  /\ pending \subseteq Ports /\ mask \subseteq Ports /\ open \subseteq Ports
  /\ sel \subseteq Words
  /\ upcallPending \in BOOLEAN /\ upcallMask \in BOOLEAN
  /\ handler \in [Ports -> Handlers \cup {Default}]
  /\ data \in [Ports -> Handlers \cup {Default}]
  /\ bound \subseteq Ports
  /\ kern.pc \in {"sti", "idle", "clear", "bind", "handler", "unmask", "test", "select",
                  "force", "unbind", "nextPort", "close", "allClosed"}
  /\ cb.pc \in {"off", "entry", "xchg", "words", "ports", "handle", "clear", "return",
                "unblocked"}
  /\ cb.l1 \subseteq Words /\ cb.word \in Words \cup {0}
  /\ kern.port \in Ports \cup {0} /\ cb.port \in Ports \cup {0}
  /\ xen \in [Ports -> {"idle", "raised", "selected"}]
  /\ owed \subseteq Ports

\* A pending port that is not masked is never forgotten: its word is selected
\* with an upcall on its way, or the running upcall will still look at the
\* word, or the hypervisor or xenEventHandlerUnmask is between two of its
\* steps.  Clearing the selector and testing the bits, masking and raising may
\* interleave in any order.  And what is owed to a port (an event raised while
\* the port is bound and its handler not running) stays pending until the
\* handler is called.
WillVisit(w)  == \/ w \in cb.l1
                 \/ cb.pc \in {"ports", "handle", "clear"} /\ cb.word = w
OnItsWay      == \/ upcallPending
                 \/ cb.pc \in {"entry", "xchg"}
                 \/ \E q \in Ports : xen[q] = "selected"
                 \/ kern.pc = "force"
PendingIsVisited == \A p \in pending \ mask :
                      \/ XenWord(p) \in sel /\ OnItsWay
                      \/ WillVisit(XenWord(p))
                      \/ xen[p] = "raised"
                      \/ kern.port = p /\ kern.pc \in {"test", "select"}
OwedIsPending == owed \subseteq pending
NoneForgotten == TypeOK /\ PendingIsVisited /\ OwedIsPending

\* The upcall calls handlers only for ports that are pending and not masked,
\* and for none that xenEventUnbindAllPorts has closed, even when an event was
\* pending on it at that moment.
ClosedIsQuiet     == (cb.pc = "handle" /\ kern.pc = "allClosed") => cb.port \in open
DispatchesPending == /\ cb.pc = "handle" => cb.port \in pending \ mask
                     /\ ClosedIsQuiet

\* A handler runs with the data it was bound with, whenever the upcall comes,
\* but for one window: while xenEventBind replaces the handler of a port, the
\* old handler may run with the new data.
Replacing(p)       == kern.pc = "handler" /\ kern.port = p
HandlerGetsItsData == cb.pc = "handle" /\ ~Replacing(cb.port) =>
                         handler[cb.port] \in {Default, data[cb.port]}

\* An event on a bound, unmasked port gets its handler called, unless lower
\* ports, which __ffs finds first, keep being raised.
Served(p) == (p \in owed /\ p \notin mask) ~> (p \notin owed \/ p \in mask)
EventuallyServed == \A p \in Ports : Served(p) \/ \E q \in Ports : q < p /\ []<>(q \in pending)

==============================================================================
