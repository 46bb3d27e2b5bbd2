-------------------------------- MODULE Fifo --------------------------------
(***************************************************************************)
(* A pool of resources lent in first-in, first-out order: what the free    *)
(* lists of pids, pages and page table entries are for.                    *)
(***************************************************************************)
EXTENDS Sequences

CONSTANT Resource

VARIABLES
  line,   \* the free resources, in the order they will be lent
  taken   \* the resources that are lent

vars == <<line, taken>>

Init ==
  /\ line \in Seq(Resource)
  /\ taken \subseteq Resource

Put(r) ==
  /\ r \in taken
  /\ line' = Append(line, r)
  /\ taken' = taken \ {r}

Take ==
  /\ line # <<>>
  /\ line' = Tail(line)
  /\ taken' = taken \cup {Head(line)}

Next == Take \/ \E r \in Resource : Put(r)

Spec == Init /\ [][Next]_vars

=============================================================================
