------------------------------ MODULE GrantTable ------------------------------
(****************************************************************************)
(* The grant table of src/xen/xenGrant.c.  Unused entries form a list        *)
(* threaded through xenGrantList, whose element 0 is the head; an entry in   *)
(* use is shared with the hypervisor, which maps the granted frame into      *)
(* another domain, or stores a frame transferred to this one, at any moment  *)
(* between two accesses of the kernel.                                       *)
(*                                                                           *)
(* GTF_readonly is left out, and GTF_reading stands for GTF_writing too: the *)
(* code treats the two alike.                                                *)
(****************************************************************************)
EXTENDS Naturals, Sequences, FiniteSets

CONSTANTS Entries,      \* NR_GRANT_ENTRIES
          Reserved,     \* NR_RESERVED_ENTRIES (8): never on the free list
          Frames, Domains,
          NewFrame,     \* a frame another domain transfers to this one
          MaxGrants     \* bound: entries the clients hold at a time

ASSUME SizesAssumption == /\ Entries \in Nat /\ Reserved \in Nat
                          /\ 0 < Reserved /\ Reserved <= Entries
                          /\ MaxGrants \in Nat

VARIABLES list,                  \* xenGrantList
          flags, frame, domid,   \* xenGrantTable
          guest,                 \* the kernel thread: where it is, entry, flags read
          mapped,                \* what the hypervisor has mapped for each entry
          grants,                \* history: what the clients hold
          result                 \* what xenGrantEndAccess / EndTransfer returned

table == <<flags, frame, domid>>
vars  == <<list, table, guest, mapped, grants, result>>

Refs     == 0 .. Entries - 1
Usable   == Reserved .. Entries - 1
NoFrame  == "no frame"
NoDomain == "no domain"
Unmapped == <<NoDomain, NoFrame>>

Idle     == [pc |-> "idle", ref |-> 0, seen |-> {}]
At(pc)   == guest.pc = pc

\* Names with an underscore are deliberately wrong variants of the definition
\* that follows them; each is used only to see a property fail.

\* The list after xenGrantInit put Reserved .. Entries - 1 on it in this order.
Init == /\ list = [i \in Refs |-> IF i = 0
                                    THEN IF Reserved < Entries THEN Entries - 1 ELSE 0
                                    ELSE IF i > Reserved THEN i - 1 ELSE 0]
        /\ flags = [i \in Refs |-> {}]
        /\ frame = [i \in Refs |-> NoFrame]
        /\ domid = [i \in Refs |-> NoDomain]
        /\ guest = Idle
        /\ mapped = [i \in Refs |-> Unmapped]
        /\ grants = <<>>
        /\ result = "none"

----------------------------------------------------------------------------
\* ... the link of the entry is not set
PutFree_Unlinked(l, ref) == [l EXCEPT ![0] = ref]

PutFree(l, ref) == [l EXCEPT ![ref] = l[0], ![0] = ref]

\* The entry _getFreeEntry returns is the head of the list, and this the list
\* it leaves.  Nothing tests for an empty list, whose head is entry 0.
GetFree(l) == [l EXCEPT ![0] = l[l[0]]]

Grant(ref, k, d, f) == [g \in DOMAIN grants \cup {ref} |->
                          IF g = ref THEN [kind |-> k, domain |-> d, frame |-> f] ELSE grants[g]]
Drop(ref)           == [g \in DOMAIN grants \ {ref} |-> grants[g]]

\* xenGrantAccess and xenGrantTransfer take an entry and store the frame, then
\* the domain, and then the flags that make the entry valid.  seen holds the
\* flags to store.
Begin(kind, d, f) == LET ref == list[0] IN
  /\ At("idle")
  /\ Cardinality(DOMAIN grants) < MaxGrants
  /\ list' = GetFree(list)
  /\ frame' = [frame EXCEPT ![ref] = f]
  /\ guest' = [pc |-> "domid", ref |-> ref, seen |-> {kind}]
  /\ grants' = Grant(ref, kind, d, f)
  /\ result' = "none"
  /\ UNCHANGED <<flags, domid, mapped>>

StoreDomid == /\ At("domid")
              /\ domid' = [domid EXCEPT ![guest.ref] = grants[guest.ref].domain]
              /\ guest' = [guest EXCEPT !.pc = "flags"]
              /\ UNCHANGED <<list, flags, frame, mapped, grants, result>>

StoreFlags == /\ At("flags")
              /\ flags' = [flags EXCEPT ![guest.ref] = guest.seen]
              /\ guest' = Idle
              /\ UNCHANGED <<list, frame, domid, mapped, grants, result>>

----------------------------------------------------------------------------
\* xenGrantEndAccess reads the flags and gives up when the entry is in use;
\* otherwise it tries to replace what it read by 0 ...
InUse(fl) == "reading" \in fl

EndAccess(ref) ==
  /\ At("idle") /\ ref \in DOMAIN grants /\ grants[ref].kind = "permit"
  /\ IF InUse(flags[ref])
       THEN result' = "in use" /\ UNCHANGED guest
       ELSE /\ guest' = [pc |-> "clear", ref |-> ref, seen |-> flags[ref]]
            /\ result' = "none"
  /\ UNCHANGED <<list, table, mapped, grants>>

\* ... the flags are cleared whatever they are now
ClearAccess_NoCompare ==
  /\ At("clear")
  /\ flags' = [flags EXCEPT ![guest.ref] = {}]
  /\ list' = PutFree(list, guest.ref)
  /\ grants' = Drop(guest.ref)
  /\ result' = "ended"
  /\ guest' = Idle
  /\ UNCHANGED <<frame, domid, mapped>>

\* ... and frees the entry when nobody changed them in between.
ClearAccess ==
  /\ At("clear")
  /\ LET ref == guest.ref IN
     IF flags[ref] = guest.seen
       THEN /\ flags' = [flags EXCEPT ![ref] = {}]
            /\ list' = PutFree(list, ref)
            /\ grants' = Drop(ref)
            /\ result' = "ended"
            /\ guest' = Idle
       ELSE /\ IF InUse(flags[ref])
                 THEN guest' = Idle /\ result' = "in use"
                 ELSE guest' = [guest EXCEPT !.seen = flags[ref]] /\ UNCHANGED result
            /\ UNCHANGED <<flags, list, grants>>
  /\ UNCHANGED <<frame, domid, mapped>>

----------------------------------------------------------------------------
\* xenGrantEndTransfer takes the entry back unless a transfer has begun ...
EndTransfer(ref) ==
  /\ At("idle") /\ ref \in DOMAIN grants /\ grants[ref].kind = "accept"
  /\ guest' = [pc |-> "read", ref |-> ref, seen |-> {}]
  /\ result' = "none"
  /\ UNCHANGED <<list, table, mapped, grants>>

ReadTransfer ==
  /\ At("read")
  /\ guest' = [guest EXCEPT !.seen = flags[guest.ref],
                            !.pc = IF "committed" \in flags[guest.ref] THEN "wait" ELSE "release"]
  /\ UNCHANGED <<list, table, mapped, grants, result>>

ReleaseTransfer ==
  /\ At("release")
  /\ LET ref == guest.ref IN
     IF flags[ref] = guest.seen
       THEN /\ flags' = [flags EXCEPT ![ref] = {}]
            /\ list' = PutFree(list, ref)
            /\ grants' = Drop(ref)
            /\ result' = "not transferred"
            /\ guest' = Idle
       ELSE /\ guest' = [guest EXCEPT !.pc = "read"]
            /\ UNCHANGED <<flags, list, grants, result>>
  /\ UNCHANGED <<frame, domid, mapped>>

\* ... the frame is taken as soon as the transfer is committed
WaitTransfer_NoWait ==
  /\ At("wait")
  /\ result' = frame[guest.ref]
  /\ list' = PutFree(list, guest.ref)
  /\ grants' = Drop(guest.ref)
  /\ guest' = Idle
  /\ UNCHANGED <<table, mapped>>

\* ... the flags are not read again while waiting
WaitTransfer_Stale ==
  /\ At("wait") /\ "completed" \in guest.seen
  /\ result' = frame[guest.ref]
  /\ list' = PutFree(list, guest.ref)
  /\ grants' = Drop(guest.ref)
  /\ guest' = Idle
  /\ UNCHANGED <<table, mapped>>

\* ... and otherwise waits for its end and returns the frame.  The flags of
\* the freed entry stay as they are.
WaitTransfer ==
  /\ At("wait")
  /\ IF "completed" \in guest.seen
       THEN /\ result' = frame[guest.ref]
            /\ list' = PutFree(list, guest.ref)
            /\ grants' = Drop(guest.ref)
            /\ guest' = Idle
       ELSE /\ guest' = [guest EXCEPT !.seen = flags[guest.ref]]
            /\ UNCHANGED <<list, grants, result>>
  /\ UNCHANGED <<table, mapped>>

Guest == \/ StoreDomid \/ StoreFlags \/ ClearAccess
         \/ ReadTransfer \/ ReleaseTransfer \/ WaitTransfer

----------------------------------------------------------------------------
\* The hypervisor, for another domain: maps and unmaps a granted frame, and
\* commits, performs and completes the transfer of a frame.
Map(ref) == /\ "permit" \in flags[ref] /\ ~InUse(flags[ref])
            /\ flags' = [flags EXCEPT ![ref] = @ \cup {"reading"}]
            /\ mapped' = [mapped EXCEPT ![ref] = <<domid[ref], frame[ref]>>]
            /\ UNCHANGED <<list, frame, domid, guest, grants, result>>

Unmap(ref) == /\ mapped[ref] # Unmapped
              /\ flags' = [flags EXCEPT ![ref] = @ \ {"reading"}]
              /\ mapped' = [mapped EXCEPT ![ref] = Unmapped]
              /\ UNCHANGED <<list, frame, domid, guest, grants, result>>

Commit(ref) == /\ "accept" \in flags[ref] /\ "committed" \notin flags[ref]
               /\ flags' = [flags EXCEPT ![ref] = @ \cup {"committed"}]
               /\ UNCHANGED <<list, frame, domid, guest, mapped, grants, result>>

Moving(ref) == "committed" \in flags[ref] /\ "completed" \notin flags[ref]

Fill(ref) == /\ Moving(ref) /\ frame[ref] # NewFrame
             /\ frame' = [frame EXCEPT ![ref] = NewFrame]
             /\ UNCHANGED <<list, flags, domid, guest, mapped, grants, result>>

Complete(ref) == /\ Moving(ref) /\ frame[ref] = NewFrame
                 /\ flags' = [flags EXCEPT ![ref] = @ \cup {"completed"}]
                 /\ UNCHANGED <<list, frame, domid, guest, mapped, grants, result>>

Hypervisor(ref) == Map(ref) \/ Unmap(ref) \/ Commit(ref) \/ Fill(ref) \/ Complete(ref)

Next == \/ \E d \in Domains, f \in Frames, k \in {"permit", "accept"} : Begin(k, d, f)
        \/ Guest
        \/ \E ref \in Refs : EndAccess(ref) \/ EndTransfer(ref) \/ Hypervisor(ref)

Spec == /\ Init /\ [][Next]_vars
        /\ WF_vars(Guest)
        /\ \A ref \in Refs : WF_vars(Fill(ref) \/ Complete(ref))

----------------------------------------------------------------------------
Flags == {"permit", "accept", "reading", "committed", "completed"}

\* Types of the table and of the kernel's position.
TypeOK == /\ list \in [Refs -> Refs]
          /\ flags \in [Refs -> SUBSET Flags]
          /\ frame \in [Refs -> Frames \cup {NewFrame, NoFrame}]
          /\ domid \in [Refs -> Domains \cup {NoDomain}]
          /\ guest.ref \in Refs /\ guest.seen \subseteq Flags
          /\ DOMAIN grants \subseteq Refs

\* The list starts at l[0], goes through s[1], ..., s[n] and ends with 0.
Threads(l, n, s) == /\ l[0] = IF n = 0 THEN 0 ELSE s[1]
                    /\ \A i \in 1 .. n : l[s[i]] = IF i = n THEN 0 ELSE s[i + 1]

\* The list goes once through every entry of A, and through nothing else.
Lists(l, A) == \E n \in 0 .. Entries : \E s \in [1 .. n -> A] :
                 /\ \A i, j \in 1 .. n : s[i] = s[j] => i = j
                 /\ \A r \in A : \E i \in 1 .. n : s[i] = r
                 /\ Threads(l, n, s)

\* The variables keep their shapes, and the free list holds exactly the usable
\* entries that no client holds: it neither leaks an entry nor offers one that is in use, whatever the order in
\* which entries are taken and given back.
Available == Usable \ DOMAIN grants
AvailableListed == Lists(list, Available)
ListIsUnused == TypeOK /\ AvailableListed

\* What the hypervisor maps for another domain is the frame and the domain of
\* one grant that is still held, never a mix of two uses of the entry.
MapsOnlyGranted == \A ref \in Refs : mapped[ref] # Unmapped =>
  /\ ref \in DOMAIN grants
  /\ grants[ref].kind = "permit"
  /\ mapped[ref] = <<grants[ref].domain, grants[ref].frame>>

\* A transfer grant that is given back yields the frame the other domain gave,
\* or nothing when no transfer had begun: never the frame number stored before.
TransferYieldsNewFrame == [][At("wait") /\ guest'.pc = "idle" => result' = NewFrame]_vars

\* No transfer is under way on an entry that was given back.
NoTransferIntoFree == \A ref \in Refs : Moving(ref) => ref \in DOMAIN grants

\* Ending a grant returns: the loops of xenGrantEndAccess and
\* xenGrantEndTransfer terminate when a transfer that was begun is completed.
EndReturns == ~At("idle") ~> At("idle")

\* xenGrant.c:52 "Find unused grant entry": the entry handed out belongs to no
\* earlier grant and is not one of the reserved ones.  Holds while clients hold
\* no more grants than there are entries; with one more grant the list is
\* empty, and entry 0 is handed out, again and again.
FoundEntryUnused == [][At("idle") /\ guest'.pc = "domid" =>
                          guest'.ref \in Usable \ DOMAIN grants]_vars
==============================================================================
