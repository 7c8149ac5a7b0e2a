-------------------------------- MODULE Xenbus --------------------------------
(****************************************************************************)
(* The xenstore client of src/xen/xenbus.c: a request ring and a response    *)
(* ring shared with the xenstore daemon, the handler xenbus_event that       *)
(* interrupts the kernel thread, and the thread, which sends one request at  *)
(* a time and blocks until the handler has stored the reply.                 *)
(*                                                                           *)
(* Around it: the event channel, whose pending bit is cleared after the      *)
(* handler has returned (EventChannel); the handle table, which numbers the  *)
(* requests (HandleTable); archKernelBlock, whose timer may be too early; and *)
(* the daemon, which watches the request ring and writes responses piece by  *)
(* piece as the response ring has room.  Lengths count cells of a ring; the  *)
(* first Header cells of a message hold its type, id and length.             *)
(****************************************************************************)
EXTENDS RingIndex, Sequences

CONSTANTS
  Ring,                \* XENSTORE_RING_SIZE (1024 bytes)
  ShortMod,            \* 2^32, the values of a ShortHandleId
  Header,              \* sizeof(xs_message_t)
  ReqLen, RepLen,      \* length of requests, and of responses and watch events
  Ops,                 \* functions the clients call
  ReqStarts, RspStarts, \* where earlier messages may have left the indices
  MaxRequests,         \* bound: requests sent
  MaxChanges           \* bound: changes of the watched node

ASSUME RingAssumption   == /\ {Ring, ShortMod} \subseteq Nat \ {0}
                           /\ Ring < IdxMod /\ IdxMod % Ring = 0
ASSUME LengthAssumption == /\ Header \in Nat \ {0} /\ ReqLen \in Nat /\ RepLen \in Nat
                           /\ Header <= ReqLen /\ Header <= RepLen
ASSUME StartAssumption  == (ReqStarts \cup RspStarts) \subseteq 0 .. IdxMod - 1
ASSUME OpsAssumption    == Ops \subseteq {"request", "watch", "watch_value"}

VARIABLES
  req, req_prod, req_cons,   \* xs_iface: the requests
  rsp, rsp_prod, rsp_cons,   \* ... and the responses
  reqIds,                    \* last id issued, and the ids in the table
  reply,                     \* the reply of the request under way, <<>> when PENDING
  kern,                      \* kernel thread: where it is, function, request, its id
  watch_state,               \* whether xenbus_watch_state is SIGNALLED
  cb,                        \* the handler: where it is, and the message it copied
  pend,                      \* pending bit of the event channel
  daemon,                    \* output queue, cells written of its head, event owed, watch set
  store,                     \* value of the watched node, and how often it changed
  timer,                     \* the one-shot timer; "missed" once it expired with the
                             \* thread between setting it and blocking
  heap,                      \* history: reply buffers allocated and not freed
  leaked                     \* history: calls of xenbus_watch_value that returned

reqs  == <<req, req_prod, req_cons>>
rsps  == <<rsp, rsp_prod, rsp_cons>>
names == <<reqIds, heap, leaked>>
outer == <<daemon, store, timer>>
vars  == <<reqs, rsps, names, reply, kern, watch_state, cb, pend, outer>>

Cells(m)     == [k \in 1 .. m.len |-> [msg |-> m, k |-> k]]
Whole(cells) == Len(cells) > 0 /\ cells = Cells(cells[1].msg)

\* memcpy_from_ring, and the two memcpy of xenbus_write_ring.
FromRing(ring, idx, n)    == [k \in 1 .. n |-> ring[(idx + k - 1) % Ring]]
ToRing(ring, idx, cells)  == [c \in 0 .. Ring - 1 |->
  LET k == ((c + Ring - (idx % Ring)) % Ring) + 1 IN IF k <= Len(cells) THEN cells[k] ELSE ring[c]]

Message(t, i, n, v) == [type |-> t, id |-> i, len |-> n, val |-> v]
Blank   == [msg |-> Message("none", 0, Header, "absent"), k |-> 0]
Idle    == [pc |-> "idle", op |-> "none", req |-> "none", h |-> 0]
At(pc)  == kern.pc = pc /\ cb.pc = "off"
Goto(pc) == kern' = [kern EXCEPT !.pc = pc]
Send(r)  == kern' = [kern EXCEPT !.pc = "alloc", !.req = r]
Short    == kern.h % ShortMod

\* Names with an underscore are deliberately wrong variants of the definition
\* that follows them; each is used only to see a property fail.

\* After xenbus_init; the event channel may be pending since boot.
Init == /\ req = [c \in 0 .. Ring - 1 |-> Blank] /\ req_prod \in ReqStarts /\ req_cons = req_prod
        /\ rsp = [c \in 0 .. Ring - 1 |-> Blank] /\ rsp_prod \in RspStarts /\ rsp_cons = rsp_prod
        /\ reqIds = [last |-> 0, table |-> {}]
        /\ reply = <<>>
        /\ kern = Idle
        /\ watch_state = FALSE
        /\ cb = [pc |-> "off", msg |-> <<>>]
        /\ pend \in BOOLEAN
        /\ daemon = [out |-> <<>>, done |-> 0, owes |-> FALSE, watching |-> FALSE]
        /\ store = [val |-> "absent", changes |-> 0]
        /\ timer = "off"
        /\ heap = 0 /\ leaked = 0

----------------------------------------------------------------------------
\* A client calls one of the functions; "request" stands for those that send
\* one request and return its status.
Start(op) == /\ At("idle") /\ reqIds.last < MaxRequests
             /\ kern' = [Idle EXCEPT !.pc = "alloc", !.op = op,
                                     !.req = IF op = "watch_value" THEN "watch" ELSE op]
             /\ UNCHANGED <<reqs, rsps, names, reply, watch_state, cb, pend, outer>>

\* xenbus_msg_reply: an id for the request,
Allocate == /\ At("alloc") /\ reqIds.last < MaxRequests
            /\ reqIds' = [last |-> reqIds.last + 1, table |-> reqIds.table \cup {reqIds.last + 1}]
            /\ reply' = <<>>
            /\ kern' = [kern EXCEPT !.pc = "write", !.h = reqIds.last + 1]
            /\ UNCHANGED <<reqs, rsps, heap, leaked, watch_state, cb, pend, outer>>

\* xenbus_write_ring: the message is copied once it fits; the indices wrap,
\* but the assertion that follows compares them as numbers,
Fits     == Used(Advance(req_prod, ReqLen), req_cons) <= Ring
WriteBug == \/ ReqLen > Ring
            \/ Fits /\ Advance(req_prod, ReqLen) > Advance(req_cons, Ring)

\* ... the index moves before the message is there
WriteRing_IndexFirst == /\ At("write") /\ ~WriteBug /\ Fits
                        /\ req_prod' = Advance(req_prod, ReqLen)
                        /\ Goto("publish")
                        /\ UNCHANGED <<req, req_cons, rsps, names, reply, watch_state, cb, pend,
                                       outer>>

WriteRing == /\ At("write") /\ ~WriteBug /\ Fits
             /\ req' = ToRing(req, req_prod, Cells(Message(kern.req, Short, ReqLen, "absent")))
             /\ Goto("publish")
             /\ UNCHANGED <<req_prod, req_cons, rsps, names, reply, watch_state, cb, pend, outer>>

WritePanic == /\ At("write") /\ WriteBug
              /\ Goto("panic")
              /\ UNCHANGED <<reqs, rsps, names, reply, watch_state, cb, pend, outer>>

Publish == /\ At("publish")
           /\ req_prod' = Advance(req_prod, ReqLen)
           /\ Goto("check")
           /\ UNCHANGED <<req, req_cons, rsps, names, reply, watch_state, cb, pend, outer>>

\* ... the thread is to block without a timer
CheckReply_NoTimer ==
  /\ At("check")
  /\ Goto(IF reply = <<>> THEN "armed" ELSE "got")
  /\ UNCHANGED <<reqs, rsps, names, reply, watch_state, cb, pend, outer>>

\* the reply is waited for, in archKernelBlock: the timer is set,
CheckReply == /\ At("check")
              /\ IF reply = <<>> THEN Goto("armed") /\ timer' = "set"
                                 ELSE Goto("got") /\ UNCHANGED timer
              /\ UNCHANGED <<reqs, rsps, names, reply, watch_state, cb, pend, daemon, store>>

\* ... and then, by another hypercall, the thread blocks until an event is
\* delivered.
Block == /\ At("armed") \/ At("armed on watch")
         /\ Goto(IF kern.pc = "armed" THEN "blocked" ELSE "blocked on watch")
         /\ UNCHANGED <<reqs, rsps, names, reply, watch_state, cb, pend, outer>>

\* and its id is freed, by the short form.
GotReply == /\ At("got")
            /\ IF reply = <<>> \/ reply[1].msg.id # Short
                 THEN Goto("panic") /\ UNCHANGED reqIds
                 ELSE /\ reqIds' = [reqIds EXCEPT !.table = @ \ {Short}]
                      /\ Goto("answer")
            /\ UNCHANGED <<reqs, rsps, heap, leaked, reply, watch_state, cb, pend, outer>>

----------------------------------------------------------------------------
\* What the functions make of the reply: the status they return is left out.
Answer == reply[1].msg
Failed == Answer.type = "error"
Return(freed) == kern' = Idle /\ heap' = heap - freed

RequestDone == /\ At("answer") /\ kern.req = "request"
               /\ Return(1)
               /\ UNCHANGED <<reqs, rsps, reqIds, leaked, reply, watch_state, cb, pend, outer>>

\* xenbus_watch and xenbus_watch_value keep the reply to XS_WATCH until the end.
WatchSet == /\ At("answer") /\ kern.req = "watch"
            /\ IF Failed THEN Return(1) ELSE Goto("watching") /\ UNCHANGED heap
            /\ UNCHANGED <<reqs, rsps, reqIds, leaked, reply, watch_state, cb, pend, outer>>

\* ... the signal is dropped before it is looked at
WatchTest_ClearFirst == /\ At("watching")
                        /\ watch_state' = FALSE
                        /\ Goto("armed on watch") /\ timer' = "set"
                        /\ UNCHANGED <<reqs, rsps, names, reply, cb, pend, daemon, store>>

\* A signal is taken, and then the node is read.
WatchTest == /\ At("watching")
             /\ IF watch_state THEN Send("read") /\ UNCHANGED timer
                               ELSE Goto("armed on watch") /\ timer' = "set"
             /\ watch_state' = FALSE
             /\ UNCHANGED <<reqs, rsps, names, reply, cb, pend, daemon, store>>

\* ... xenbus_read keeps the reply when it fails
ReadDone_ErrorKept ==
  /\ At("answer") /\ kern.req = "read"
  /\ IF kern.op = "watch" /\ ~Failed THEN Return(2)
     ELSE /\ heap' = IF Failed THEN heap ELSE heap - 1
          /\ IF ~Failed /\ Answer.val = "wanted" THEN Send("unwatch") ELSE Goto("watching")
  /\ UNCHANGED <<reqs, rsps, reqIds, leaked, reply, watch_state, cb, pend, outer>>

ReadDone == /\ At("answer") /\ kern.req = "read"
            /\ IF kern.op = "watch" /\ ~Failed THEN Return(2)
               ELSE /\ heap' = heap - 1
                    /\ IF ~Failed /\ Answer.val = "wanted" THEN Send("unwatch") ELSE Goto("watching")
            /\ UNCHANGED <<reqs, rsps, reqIds, leaked, reply, watch_state, cb, pend, outer>>

\* The reply to XS_UNWATCH takes the place of the one to XS_WATCH, and is freed.
UnwatchDone == /\ At("answer") /\ kern.req = "unwatch"
               /\ Return(1)
               /\ leaked' = leaked + 1
               /\ UNCHANGED <<reqs, rsps, reqIds, reply, watch_state, cb, pend, outer>>

Thread == \/ Allocate \/ WriteRing \/ WritePanic \/ Publish \/ CheckReply \/ Block \/ GotReply
          \/ RequestDone \/ WatchSet \/ WatchTest \/ ReadDone \/ UnwatchDone

----------------------------------------------------------------------------
\* An event delivered to a blocked domain ends its block; to one that is not
\* blocked it is only an interrupt.
Blocked == kern.pc \in {"blocked", "blocked on watch"}
Unblock == Goto(CASE kern.pc = "blocked"          -> "check"
                  [] kern.pc = "blocked on watch" -> "watching"
                  [] OTHER                        -> kern.pc)

\* The timer's event, served between two runs of xenbus_event.  It wakes nobody
\* when the thread has set the timer and is yet to block.
Expire == /\ timer = "set" /\ cb.pc = "off" /\ kern.pc # "panic"
          /\ timer' = IF kern.pc \in {"armed", "armed on watch"} THEN "missed" ELSE "off"
          /\ Unblock
          /\ UNCHANGED <<reqs, rsps, names, reply, watch_state, cb, pend, daemon, store>>

\* An event of some other port, of which nothing says that it comes.
OtherEvent == /\ Blocked /\ cb.pc = "off"
              /\ Unblock
              /\ UNCHANGED <<reqs, rsps, names, reply, watch_state, cb, pend, outer>>

\* The upcall: xenbus_event, then the pending bit is cleared.
Deliver == /\ cb.pc = "off" /\ pend /\ kern.pc # "panic"
           /\ cb' = [cb EXCEPT !.pc = "look"]
           /\ Unblock
           /\ UNCHANGED <<reqs, rsps, names, reply, watch_state, pend, outer>>

\* ... the body need not be there
Complete_HeaderOnly == Used(rsp_prod, rsp_cons) >= Header

\* A whole message is in the response ring.
Complete == LET n == Used(rsp_prod, rsp_cons) IN
            n >= Header /\ n >= rsp[rsp_cons % Ring].msg.len

Look == /\ cb.pc = "look"
        /\ cb' = IF Complete
                   THEN [pc |-> "take",
                         msg |-> FromRing(rsp, rsp_cons, rsp[rsp_cons % Ring].msg.len)]
                   ELSE [cb EXCEPT !.pc = "clear"]
        /\ UNCHANGED <<reqs, rsps, names, reply, kern, watch_state, pend, outer>>

\* The message is taken: a watch event sets the flag, a reply is handed to
\* the request of its id; an unknown id is a bug.
Known(id) == id # 0 /\ id <= reqIds.last /\ id \in reqIds.table

TakeEvent == /\ cb.pc = "take" /\ cb.msg[1].msg.type = "event"
             /\ rsp_cons' = Advance(rsp_cons, Len(cb.msg))
             /\ watch_state' = TRUE
             /\ cb' = [pc |-> "look", msg |-> <<>>]
             /\ UNCHANGED <<reqs, rsp, rsp_prod, names, reply, kern, pend, outer>>

TakeReply == /\ cb.pc = "take" /\ cb.msg[1].msg.type # "event"
             /\ Known(cb.msg[1].msg.id)
             /\ rsp_cons' = Advance(rsp_cons, Len(cb.msg))
             /\ reply' = cb.msg
             /\ heap' = heap + 1
             /\ cb' = [pc |-> "look", msg |-> <<>>]
             /\ UNCHANGED <<reqs, rsp, rsp_prod, reqIds, leaked, kern, watch_state, pend, outer>>

TakePanic == /\ cb.pc = "take" /\ cb.msg[1].msg.type # "event"
             /\ ~Known(cb.msg[1].msg.id)
             /\ Goto("panic")
             /\ cb' = [pc |-> "off", msg |-> <<>>]
             /\ UNCHANGED <<reqs, rsps, names, reply, watch_state, pend, outer>>

Clear == /\ cb.pc = "clear"
         /\ pend' = FALSE
         /\ cb' = [cb EXCEPT !.pc = "off"]
         /\ UNCHANGED <<reqs, rsps, names, reply, kern, watch_state, outer>>

Upcall == Deliver \/ Look \/ TakeEvent \/ TakeReply \/ TakePanic \/ Clear

----------------------------------------------------------------------------
\* The daemon: takes a request and queues the response; setting a watch is
\* followed by one event at once.
Response(m, t) == Message(t, m.id, RepLen, IF m.type = "read" THEN store.val ELSE "absent")
Event          == Message("event", 0, RepLen, "absent")
Answers(m) == CASE m.type = "read"    -> {IF store.val = "absent" THEN "error" ELSE "ok"}
                [] m.type = "unwatch" -> {"ok"}
                [] OTHER              -> {"ok", "error"}

DaemonTake ==
  /\ req_cons # req_prod
  /\ LET m == req[req_cons % Ring].msg IN
     /\ req_cons' = Advance(req_cons, m.len)
     /\ \E t \in Answers(m) :
          LET sets == m.type = "watch" /\ t = "ok" IN
          daemon' = [daemon EXCEPT
            !.out = @ \o <<Response(m, t)>> \o IF sets THEN <<Event>> ELSE <<>>,
            !.watching = (@ \/ sets) /\ m.type # "unwatch"]
  /\ UNCHANGED <<req, req_prod, rsps, names, reply, kern, watch_state, cb, pend, store, timer>>

\* It writes as much of the next message as fits, and then raises the event.
DaemonWrite ==
  /\ daemon.out # <<>> /\ ~daemon.owes
  /\ LET m    == Head(daemon.out)
         room == Ring - Used(rsp_prod, rsp_cons)
     IN \E n \in 1 .. m.len - daemon.done :
          /\ n <= room
          /\ rsp' = ToRing(rsp, rsp_prod, SubSeq(Cells(m), daemon.done + 1, daemon.done + n))
          /\ rsp_prod' = Advance(rsp_prod, n)
          /\ daemon' = IF daemon.done + n = m.len
                         THEN [daemon EXCEPT !.owes = TRUE, !.done = 0, !.out = Tail(@)]
                         ELSE [daemon EXCEPT !.owes = TRUE, !.done = @ + n]
  /\ UNCHANGED <<reqs, rsp_cons, names, reply, kern, watch_state, cb, pend, store, timer>>

DaemonRaise == /\ daemon.owes
               /\ pend' = TRUE
               /\ daemon' = [daemon EXCEPT !.owes = FALSE]
               /\ UNCHANGED <<reqs, rsps, names, reply, kern, watch_state, cb, store, timer>>

\* Another domain writes the watched node.
Change == /\ store.changes < MaxChanges
          /\ \E v \in {"other", "wanted"} \ {store.val} :
               store' = [val |-> v, changes |-> store.changes + 1]
          /\ daemon' = IF daemon.watching THEN [daemon EXCEPT !.out = Append(@, Event)] ELSE daemon
          /\ UNCHANGED <<reqs, rsps, names, reply, kern, watch_state, cb, pend, timer>>

Daemon == DaemonTake \/ DaemonWrite \/ DaemonRaise

Next == \/ (\E op \in Ops : Start(op)) \/ Thread \/ Upcall \/ Expire
        \/ OtherEvent \/ Daemon \/ Change

\* The thread runs when it is not blocked and no upcall runs; a timer that is
\* set expires; the daemon serves its rings.
Spec == /\ Init /\ [][Next]_vars
        /\ WF_vars(Thread) /\ WF_vars(Upcall) /\ WF_vars(Expire) /\ WF_vars(Daemon)

----------------------------------------------------------------------------
\* Types of the indices and of the parties' positions.
TypeOK == /\ req_prod \in 0 .. IdxMod - 1 /\ req_cons \in 0 .. IdxMod - 1
          /\ rsp_prod \in 0 .. IdxMod - 1 /\ rsp_cons \in 0 .. IdxMod - 1
          /\ reqIds.table \subseteq 1 .. reqIds.last
          /\ kern.pc \in {"idle", "alloc", "write", "publish", "check", "armed", "blocked",
                          "got", "answer", "watching", "armed on watch", "blocked on watch",
                          "panic"}
          /\ timer \in {"off", "set", "missed"}
          /\ cb.pc \in {"off", "look", "take", "clear"}
          /\ watch_state \in BOOLEAN /\ pend \in BOOLEAN
          /\ heap \in Nat /\ leaked \in Nat

\* What lies in the request ring is one whole request, the one under way: the
\* daemon never reads a message that is half written or overwritten.  The wait
\* for room in the ring, a loop that never blocks, is never entered: by the
\* time a request is written the one before it was taken (and one longer than
\* the ring is a bug).
NeverSpins    == kern.pc = "write" => Fits \/ WriteBug
RequestsWhole ==
  /\ TypeOK
  /\ req_cons # req_prod =>
       /\ Whole(FromRing(req, req_cons, Used(req_prod, req_cons)))
       /\ req[req_cons % Ring].msg.id = Short
  /\ NeverSpins

\* The reply a function looks at is the whole reply to its own request, though
\* it may have come in pieces, around the end of the ring or behind events.
\* The assertions about ids and indices fail only when a 32-bit counter has
\* come round, the id of a request or the request index plus the ring's size,
\* or when a request is longer than the ring.
PanicsOnlyWrapped == kern.pc = "panic" =>
  reqIds.last >= ShortMod \/ ReqLen > Ring \/ Advance(req_cons, Ring) < req_cons
ReplyIsMine ==
  /\ kern.pc = "answer" => /\ Whole(reply)
                           /\ Answer.type \in {"ok", "error"}
                           /\ Answer.id = Short
  /\ PanicsOnlyWrapped

\* Every reply buffer is freed when its function returns, whatever the daemon
\* answered, but for one in every completed xenbus_watch_value.
BuffersFreed == kern.pc = "idle" => heap = leaked

\* A whole message is in the ring, and nothing will make the handler look: the
\* event that announced it was erased by the clear of the pending bit.
Stranded == cb.pc = "off" /\ ~pend /\ ~daemon.owes /\ Complete

\* The thread blocked when its timer had already expired, and what it waits for
\* came before it blocked: only an event of another port ends the wait.
Overslept == /\ timer = "missed" /\ cb.pc = "off"
             /\ \/ kern.pc = "blocked" /\ reply # <<>>
                \/ kern.pc = "blocked on watch" /\ watch_state

\* A request gets its answer, unless the event for a response was erased or the
\* thread overslept (or the kernel stopped: "panic" is not waiting).
Waiting        == kern.pc \in {"write", "publish", "check", "armed", "blocked"}
RequestReturns == Waiting ~> (~Waiting \/ Stranded \/ Overslept)

\* xenbus_watch_value notices the value it waits for, whatever the order of the
\* change, the event and the reading of the node, unless the event was erased or
\* the thread overslept (or the kernel stopped, or the bound on requests was
\* reached).
WatchNotices ==
  (/\ kern.op = "watch_value" /\ store.val = "wanted"
   /\ kern.pc \in {"watching", "armed on watch", "blocked on watch"})
    ~> (\/ kern.req = "unwatch" \/ Stranded \/ Overslept
        \/ kern.pc = "panic" \/ reqIds.last = MaxRequests)

\* xenbus.c:261 "Send a message to xenbus. Reply is malloced": a reply comes,
\* to a thread that did not oversleep.  Violated: its event may be raised
\* between the handler's last look at the ring and the clear of the pending
\* bit, and the thread, if anything wakes it, only polls a flag.
RequestAnswered == Waiting ~> (~Waiting \/ Overslept)
==============================================================================
