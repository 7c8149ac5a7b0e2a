----------------------------- MODULE HandleTable -----------------------------
(****************************************************************************)
(* The handle table of src/src/handle.c: an array of slots indexed by        *)
(* handleId % size, doubled when it is more than half full.  The kernel runs *)
(* on one virtual CPU and calls the table from one thread, so an operation   *)
(* is one step, except handleAllocate, whose unbounded search for a free     *)
(* slot is one step per iteration: that the search ends is a property.       *)
(****************************************************************************)
EXTENDS Naturals, FiniteSets

CONSTANTS MinSize,      \* HandleTableMinimumSize, a power of two (1024)
          Refs,         \* the references clients store
          NoRef,        \* NULL
          ShortMod,     \* 2^(bits of a ShortHandleId), 2^32 in the code
          MaxHandle     \* bound of the model: no handle above it is issued

ASSUME MinSizeAssumption   == MinSize \in Nat \ {0}
ASSUME NoRefAssumption     == NoRef \notin Refs
ASSUME ShortModAssumption  == ShortMod \in Nat \ {0}
ASSUME MaxHandleAssumption == MaxHandle \in Nat

VARIABLES size, entry, used, lastAllocated,     \* struct HandleTable
          wanted,  \* reference handleAllocate is searching a slot for, or NoRef
          ret,     \* what the last operation returned
          held     \* history: reference of every handle issued and not yet freed

tableVars == <<size, entry, used, lastAllocated, wanted, ret, held>>

Slots(n) == 0 .. n - 1
Slot     == [handleId : Nat, reference : Refs \cup {NoRef}]
Empty    == [handleId |-> 0, reference |-> NoRef]

Status(s) == [status |-> s]
Idle      == wanted = NoRef

handleIsFree(h) == entry[h % size].reference = NoRef
Recorded(h)     == entry[h % size].handleId = h

TableInit ==
    /\ size = MinSize
    /\ entry = [i \in Slots(MinSize) |-> Empty]
    /\ used = 0
    /\ lastAllocated = 0
    /\ wanted = NoRef
    /\ ret = Status("Ok")
    /\ held = [h \in {} |-> NoRef]

----------------------------------------------------------------------------
\* Names with an underscore are deliberately wrong variants of the definition
\* that follows them; each is used only to see a property fail.

\* Slots, free ones included, that the loop of handleTableGrow copies to slot
\* j of the new array and that no later slot overwrites.
LastInto(j) == {i \in Slots(size) :
                  /\ entry[i].handleId % (2 * size) = j
                  /\ \A k \in Slots(size) : entry[k].handleId % (2 * size) = j => k <= i}

\* ... the array is copied slot for slot
Regrown_SameSlot == [j \in Slots(2 * size) |-> IF j < size THEN entry[j] ELSE Empty]

Regrown == [j \in Slots(2 * size) |->
              IF LastInto(j) = {} THEN Empty ELSE entry[CHOOSE i \in LastInto(j) : TRUE]]

\* The entry of handleAllocate: when the table is more than half full it is
\* doubled first, or StatusNoMemory returned when xalloc fails.
MustGrow == size < 2 * used

AllocateBegin(r) == /\ Idle
                    /\ lastAllocated + 2 * size <= MaxHandle
                    /\ ~MustGrow
                    /\ wanted' = r
                    /\ UNCHANGED <<size, entry, used, lastAllocated, ret, held>>

AllocateGrow(r) == /\ Idle
                   /\ lastAllocated + 2 * size <= MaxHandle
                   /\ MustGrow
                   /\ entry' = Regrown
                   /\ size' = 2 * size
                   /\ wanted' = r
                   /\ UNCHANGED <<used, lastAllocated, ret, held>>

AllocateNoMemory == /\ Idle
                    /\ MustGrow
                    /\ ret' = Status("NoMemory")
                    /\ UNCHANGED <<size, entry, used, lastAllocated, wanted, held>>

\* One iteration of the search, on a slot that is taken ...
SearchNext_Stuck == /\ ~Idle    \* ... the increment is forgotten
                    /\ ~handleIsFree(lastAllocated + 1)
                    /\ UNCHANGED tableVars

SearchNext == /\ ~Idle
              /\ ~handleIsFree(lastAllocated + 1)
              /\ lastAllocated' = lastAllocated + 1
              /\ UNCHANGED <<size, entry, used, wanted, ret, held>>

\* ... and on a free one, which is recorded and returned.
SearchEnd == LET h == lastAllocated + 1 IN
             /\ ~Idle
             /\ handleIsFree(h)
             /\ lastAllocated' = h
             /\ entry' = [entry EXCEPT ![h % size] = [handleId |-> h, reference |-> wanted]]
             /\ used' = used + 1
             /\ ret' = [status |-> "Ok", handle |-> h]
             /\ held' = [k \in DOMAIN held \cup {h} |-> IF k = h THEN wanted ELSE held[k]]
             /\ wanted' = NoRef
             /\ UNCHANGED size

----------------------------------------------------------------------------
\* ... the counter is not decremented
handleFree_NotCounted(h) == /\ Idle
                            /\ Recorded(h)
                            /\ entry' = [entry EXCEPT ![h % size] = Empty]
                            /\ ret' = Status("Ok")
                            /\ held' = [k \in DOMAIN held \ {h} |-> held[k]]
                            /\ UNCHANGED <<size, used, lastAllocated, wanted>>

\* Clients free handles they were given, and may do so twice.
handleFree(h) == /\ Idle
                 /\ IF Recorded(h)
                      THEN /\ entry' = [entry EXCEPT ![h % size] = Empty]
                           /\ used' = used - 1
                           /\ ret' = Status("Ok")
                           /\ held' = [k \in DOMAIN held \ {h} |-> held[k]]
                      ELSE /\ ret' = Status("InvalidHandle")
                           /\ UNCHANGED <<entry, used, held>>
                 /\ UNCHANGED <<size, lastAllocated, wanted>>

\* ... NullHandleId is not refused
GetReference_NullAllowed(h) ==
  IF Recorded(h) THEN [status |-> "Ok", reference |-> entry[h % size].reference]
                 ELSE Status(IF h > lastAllocated THEN "InvalidHandle" ELSE "NotFound")

GetReference(h) ==
  IF h = 0 \/ h > lastAllocated THEN Status("InvalidHandle")
  ELSE IF Recorded(h) THEN [status |-> "Ok", reference |-> entry[h % size].reference]
  ELSE Status("NotFound")

handleGetReference(h) == /\ Idle
                         /\ ret' = GetReference(h)
                         /\ UNCHANGED <<size, entry, used, lastAllocated, wanted, held>>

\* ... the short form is taken for the handle itself
shortHandleToHandleId_Identity(s) ==
  IF handleIsFree(s) THEN Status("NotFound") ELSE [status |-> "Ok", handle |-> s]

shortHandleToHandleId(s) ==
  IF handleIsFree(s) THEN Status("NotFound")
                     ELSE [status |-> "Ok", handle |-> entry[s % size].handleId]

Search == SearchNext \/ SearchEnd

TableNext ==
    \/ \E r \in Refs : AllocateBegin(r) \/ AllocateGrow(r)
    \/ AllocateNoMemory
    \/ Search
    \/ \E h \in 1 .. lastAllocated : handleFree(h)
    \/ \E h \in 0 .. lastAllocated + 1 : handleGetReference(h)

\* The thread that entered handleAllocate keeps running its loop.
TableSpec == TableInit /\ [][TableNext]_tableVars /\ WF_tableVars(Search)

----------------------------------------------------------------------------
RetType == [status : {"Ok", "NoMemory", "InvalidHandle", "NotFound"}]
             \cup [status : {"Ok"}, handle : Nat]
             \cup [status : {"Ok"}, reference : Refs \cup {NoRef}]

\* Shape of the table: the array has exactly size slots and the counters are
\* natural numbers; `held` is a function into the references.
TypeOK == /\ size \in Nat \ {0}
          /\ entry \in [Slots(size) -> Slot]
          /\ used \in Nat
          /\ lastAllocated \in Nat
          /\ wanted \in Refs \cup {NoRef}
          /\ ret \in RetType
          /\ DOMAIN held \in SUBSET (1 .. lastAllocated)
          /\ held = [h \in DOMAIN held |-> held[h]]
          /\ \A h \in DOMAIN held : held[h] \in Refs

\* The table keeps its shape, a handle sits only in the slot its number
\* selects, a slot has a reference exactly when it has a handle, and what
\* handleGetReference finds there is the reference given to handleAllocate, for
\* a handle nobody has freed: neither a search past occupied slots nor growing
\* the table can make a lookup return another client's object.
SlotsMatchHeld == \A i \in Slots(size) :
                    IF entry[i].handleId = 0
                      THEN entry[i].reference = NoRef
                      ELSE /\ entry[i].handleId % size = i
                           /\ entry[i].handleId \in DOMAIN held
                           /\ entry[i].reference = held[entry[i].handleId]
LookupSound == TypeOK /\ SlotsMatchHeld

\* The counter that decides when to grow counts the handles that are issued
\* and not freed; the handle of a dropped slot is counted for ever, because
\* handleFree refuses it.
UsedCountsHeld == used = Cardinality(DOMAIN held)

\* handle.c:170-171 "above conditional ensures that the table always has many
\* free handles so that the below loop terminates": while handleAllocate
\* searches, some slot is free.
SearchHasRoom == ~Idle => \E i \in Slots(size) : entry[i].reference = NoRef

\* The low bits of a handle, the only part of it that fits a xenbus message,
\* find the handle again as long as it is in the table, however many handles
\* were issued since the short form last wrapped around.
ShortHandleFinds == \A h \in DOMAIN held :
   Recorded(h) => shortHandleToHandleId(h % ShortMod) = [status |-> "Ok", handle |-> h]

\* handleAllocate returns: its loop cannot run for ever.
AllocateReturns == ~Idle ~> Idle

\* handle.h:50 "Returns the context associated with an allocated handle.":
\* every handle issued and not freed is found.  The code violates it: the copy
\* of a free slot overwrites slot 0 of the doubled array.
AllHandlesFound == \A h \in DOMAIN held : GetReference(h).status = "Ok"

\* Every operation answers as the map of HandleMap does, whose handles are the
\* ones in the slots of the table.
InUse == {entry[i].handleId : i \in Slots(size)} \ {0}

Map == INSTANCE HandleMap WITH
         Droppable <- 2 * MinSize,
         map <- [h \in InUse |-> entry[h % size].reference],
         top <- lastAllocated

ImplementsMap == Map!Spec
==============================================================================
