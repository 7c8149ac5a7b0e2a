----------------------------- MODULE MCPageTable -----------------------------
EXTENDS PageTable
SmallEntries == <<8, 2, 2, 2>>

\* No action reads the history `asked', and the properties look only at its next
\* value: states that differ in it alone are one.
WithoutAsked == <<mem, unused, count, noWrite, queue, roots, pinned, loaded, tlb, bug, calls>>
=============================================================================
