------------------------------ MODULE HandleMap ------------------------------
(****************************************************************************)
(* What src/src/handle.c promises its callers: a partial map from handle     *)
(* identifiers to references in which no identifier is ever used twice.      *)
(* Every operation leaves its answer in ret.                                 *)
(*                                                                           *)
(* Forget is the one departure from an ordinary map, and the code makes it:  *)
(* doubling the table may drop handles that are multiples of Droppable.      *)
(****************************************************************************)
EXTENDS Naturals

CONSTANTS Refs,         \* the references a client may attach to a handle
          Droppable     \* only multiples of it can be forgotten

VARIABLES map,          \* the references of the handles in use
          top,          \* no handle above top was ever issued
          ret           \* answer of the last operation

vars == <<map, top, ret>>

Status(s) == [status |-> s]

Init == /\ map = [h \in {} |-> CHOOSE r \in Refs : TRUE]
        /\ top = 0
        /\ ret = Status("Ok")

\* A fresh handle is above every handle issued before it.
Allocate(r) == LET h == top + 1 IN
               /\ map' = [k \in DOMAIN map \cup {h} |-> IF k = h THEN r ELSE map[k]]
               /\ top' = h
               /\ ret' = [status |-> "Ok", handle |-> h]

\* The search for a slot passes over an identifier: it will never be issued.
Skip == /\ top' = top + 1
        /\ UNCHANGED <<map, ret>>

AllocateFails == /\ ret' = Status("NoMemory")
                 /\ UNCHANGED <<map, top>>

Forget == \E kept \in SUBSET DOMAIN map :
            /\ \A h \in DOMAIN map \ kept : h % Droppable = 0
            /\ map' = [h \in kept |-> map[h]]
            /\ UNCHANGED <<top, ret>>

FreeHandle(h) == /\ map' = [k \in DOMAIN map \ {h} |-> map[k]]
                 /\ ret' = Status(IF h \in DOMAIN map THEN "Ok" ELSE "InvalidHandle")
                 /\ UNCHANGED top

Lookup(h) == /\ ret' = IF h \in DOMAIN map
                         THEN [status |-> "Ok", reference |-> map[h]]
                         ELSE Status(IF h = 0 \/ h > top THEN "InvalidHandle" ELSE "NotFound")
             /\ UNCHANGED <<map, top>>

Next == \/ \E r \in Refs : Allocate(r)
        \/ Skip \/ AllocateFails \/ Forget
        \/ \E h \in 1 .. top : FreeHandle(h)
        \/ \E h \in 0 .. top + 1 : Lookup(h)

Spec == Init /\ [][Next]_vars
==============================================================================
