---------------------------- MODULE PageAllocator ----------------------------
(***************************************************************************)
(* What the system promises about pages, whatever the shell, the control   *)
(* blocks and the counters do: a line of free pages and one address space  *)
(* per process.  A process gets pages from the head of the line, behind    *)
(* the pages it has; it gives them back all at once, in logical order, to  *)
(* the end of the line; nothing else ever moves a page.                    *)
(***************************************************************************)
EXTENDS Integers, Sequences

CONSTANTS Page, Process

VARIABLES
  free,    \* the free pages, the next one to be granted first
  space    \* the pages of each process, in logical order

vars == <<free, space>>

Init ==
  /\ free \in Seq(Page)
  /\ \A j, k \in DOMAIN free : free[j] = free[k] => j = k
  /\ \A page \in Page : \E k \in DOMAIN free : free[k] = page
  /\ space = [p \in Process |-> <<>>]

Grant(p) ==
  \E n \in 1 .. Len(free) :
    /\ space' = [space EXCEPT ![p] = @ \o SubSeq(free, 1, n)]
    /\ free' = SubSeq(free, n + 1, Len(free))

Release(p) ==
  /\ space[p] # <<>>
  /\ free' = free \o space[p]
  /\ space' = [space EXCEPT ![p] = <<>>]

\* The memory goes away, with everything in it.
Shutdown ==
  /\ free' = <<>>
  /\ space' = [p \in Process |-> <<>>]

Next ==
  \/ \E p \in Process : Grant(p) \/ Release(p)
  \/ Shutdown

Spec == Init /\ [][Next]_vars

=============================================================================
