------------------------------ MODULE QueuePool ------------------------------
(***************************************************************************)
(* A QueueLite as all free lists of the kernel use one: a resource is      *)
(* popped to be lent and pushed when it comes back, and a list is never    *)
(* given what it did not lend.  The lists of pids and pages are created    *)
(* empty and filled by pushes; the list of a page table is filled from an  *)
(* array (FROM_ARRAY).                                                     *)
(***************************************************************************)
EXTENDS QueueLite, FiniteSets

CONSTANTS
  Resource,     \* what the queue lends: pids, page numbers, or entries
  CAPACITY,     \* as many as there are resources
  FROM_ARRAY    \* TRUE: the queue starts full, from an array

ASSUME QueueAssumption ==
  /\ CAPACITY \in Nat \ {0}
  /\ IsFiniteSet(Resource)
  /\ Cardinality(Resource) = CAPACITY
  /\ UNSET \notin Resource
  /\ FROM_ARRAY \in BOOLEAN
  /\ FROM_ARRAY => Resource = 0 .. CAPACITY - 1

VARIABLES
  q,       \* struct QueueLite
  taken    \* the resources its users hold

vars == <<q, taken>>

\* creatPageTbale fills the queue with the numbers of all entries.
Init ==
  IF FROM_ARRAY
  THEN /\ q = initQueueByArray(creatQueue(CAPACITY), [i \in 1 .. CAPACITY |-> i - 1])
       /\ taken = {}
  ELSE q = creatQueue(CAPACITY) /\ taken = Resource

\* The free lists are filled at boot and refilled by what comes back.
Put(r) ==
  /\ r \in taken
  /\ q' = queue_push(q, r)
  /\ taken' = taken \ {r}

Take ==
  /\ ~queue_empty(q)
  /\ q' = queue_pop(q)
  /\ taken' = taken \cup {queue_front(q)}

Next == Take \/ \E r \in Resource : Put(r)

Spec == Init /\ [][Next]_vars

-----------------------------------------------------------------------------
(* Properties. *)

\* The ring is well formed, and its tail is where its entries end.
TypeOK ==
  /\ q \in [ptr : [0 .. CAPACITY -> Resource \cup {UNSET}], capacity : {CAPACITY},
            size : 0 .. CAPACITY, head : 0 .. CAPACITY - 1, tail : 0 .. CAPACITY - 1]
  /\ q.tail = (q.head + q.size) % CAPACITY
  /\ taken \subseteq Resource

\* Every resource is lent or waits in the queue once, and the queue holds
\* nothing else.  This is what keeps a pid from being given to two processes
\* and a page from being mapped twice.
PoolConserved ==
  /\ \A k \in 1 .. q.size : Entry(q, k) \in Resource \ taken
  /\ \A j, k \in 1 .. q.size : Entry(q, j) = Entry(q, k) => j = k
  /\ \A r \in Resource \ taken : \E k \in 1 .. q.size : Entry(q, k) = r

\* Resources are lent in the order they came back.
Pool == INSTANCE Fifo WITH line <- Elements(q)

ImplementsFifo == Pool!Spec

\* queueLite.h: "push the free resources, pop one when it is needed, push it
\* again when it comes back".  A queue never holds a resource that is lent.
LentIsNotFree == \A k \in 1 .. q.size : Entry(q, k) \notin taken

=============================================================================
