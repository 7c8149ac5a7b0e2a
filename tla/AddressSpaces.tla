---------------------------- MODULE AddressSpaces ----------------------------
(***************************************************************************)
(* What the page tables promise: every address space is a partial map from *)
(* user pages to a frame and a permission, and a call changes the pages it *)
(* names in the space it names, and no others.                             *)
(***************************************************************************)
EXTENDS Integers

CONSTANTS
    Pages,      \* pages of user space
    Frames      \* frames that may be mapped, and names of spaces

VARIABLES
    space,      \* the spaces there are, and what each maps
    asked       \* the last call, with its arguments

vars == <<space, asked>>

Page == [frame : Frames, perm : {"none", "ro", "rw"}]
Empty == [p \in {} |-> p]

\* A call for the pages of one space; those that change no page are alike.
Asked(op, s, pages) == [op |-> op, space |-> s, pages |-> pages]
AskedAs(op, s, pages, perm) == [op |-> op, space |-> s, pages |-> pages, perm |-> perm]
AskedTo(op, s, pages, t, shift) ==
    [op |-> op, space |-> s, pages |-> pages, to |-> t, shift |-> shift]
Nothing == [op |-> "nothing"]

\* The map f without its pages in S, and with another permission for them.
Without(f, S) == [p \in DOMAIN f \ S |-> f[p]]
Protected(f, S, perm) == [p \in DOMAIN f |-> IF p \in S THEN [f[p] EXCEPT !.perm = perm] ELSE f[p]]
Shared(f, S, shift) ==
    [q \in {p + shift : p \in DOMAIN f \cap S} |-> [frame |-> f[q - shift].frame, perm |-> "ro"]]
Joined(f, g) == [p \in DOMAIN f \cup DOMAIN g |-> IF p \in DOMAIN g THEN g[p] ELSE f[p]]

\* Frames that no space maps.
Unmapped(old) == Frames \ UNION {{old[s][p].frame : p \in DOMAIN old[s]} : s \in DOMAIN old}

-----------------------------------------------------------------------------
(* The calls, as relations of the maps before and after                    *)

New(old, new, s)  == s \notin DOMAIN old /\ new = Joined(old, [t \in {s} |-> Empty])
Drop(old, new, s) == s \in DOMAIN old /\ new = Without(old, {s})

Protect(old, new, s, pages, perm) == new = [old EXCEPT ![s] = Protected(@, pages, perm)]

\* Free pages get frames of their own, which may be written.
Map(old, new, s, pages) ==
    /\ pages \cap DOMAIN old[s] = {}
    /\ \E frames \in [pages -> Unmapped(old)] :
          /\ \A p, q \in pages : frames[p] = frames[q] => p = q
          /\ new = [old EXCEPT ![s] = Joined(@, [p \in pages |-> [frame |-> frames[p], perm |-> "rw"]])]

Unmap(old, new, s, page) ==
    page \in DOMAIN old[s] /\ new = [old EXCEPT ![s] = Without(@, {page})]

\* A page that is written stays where it is or moves to a frame of its own.
Write(old, new, s, page) ==
    /\ old[s][page].perm = "ro"
    /\ \E f \in Unmapped(old) \cup {old[s][page].frame} :
          new = [old EXCEPT ![s][page] = [frame |-> f, perm |-> "rw"]]

\* Pages appear in another space, where they were free; neither may write them.
Copy(old, new, s, pages, t, shift) ==
    /\ s # t /\ DOMAIN Shared(old[s], pages, shift) \cap DOMAIN old[t] = {}
    /\ new = [old EXCEPT ![s] = Protected(@, pages, "ro"),
                         ![t] = Joined(@, Shared(old[s], pages, shift))]

Init == space = Empty /\ asked = Nothing

\* What a call does is settled by its arguments.
Call(old, new) ==
    \/ asked' = Nothing /\ new = old
    \/ \E s \in Frames : asked' = Asked("new", s, {}) /\ New(old, new, s)
    \/ \E s \in DOMAIN old :
          \/ asked' = Asked("drop", s, {}) /\ Drop(old, new, s)
          \/ \E pages \in SUBSET Pages :
                \/ asked' = Asked("map", s, pages) /\ Map(old, new, s, pages)
                \/ \E perm \in {"none", "ro"} :
                      /\ asked' = AskedAs("protect", s, pages, perm)
                      /\ Protect(old, new, s, pages, perm)
                \/ \E t \in DOMAIN old, shift \in {0, 1} :
                      /\ asked' = AskedTo("copy", s, pages, t, shift)
                      /\ Copy(old, new, s, pages, t, shift)
          \/ \E page \in DOMAIN old[s] :
                \/ asked' = Asked("unmap", s, {page}) /\ Unmap(old, new, s, page)
                \/ asked' = Asked("write", s, {page}) /\ Write(old, new, s, page)

Next == \E old \in {space}, new \in {space'} : Call(old, new)

Spec == Init /\ [][Next]_vars
=============================================================================
