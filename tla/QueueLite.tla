------------------------------ MODULE QueueLite ------------------------------
(***************************************************************************)
(* struct QueueLite, a ring buffer, and the functions on it.  The buffer   *)
(* is shown with the word behind it: initQueueByArray leaves the tail at   *)
(* the array's length, one past the end of a full buffer, and queue_push   *)
(* writes wherever the tail is.  That word lies in what malloc hands out   *)
(* beyond what it was asked for: a write to it is lost to the queue and    *)
(* does no harm.                                                           *)
(***************************************************************************)
EXTENDS Integers, Sequences

CONSTANT UNSET   \* the contents of memory nobody has written

creatQueue(size) ==
  [ptr |-> [i \in 0 .. size |-> UNSET], capacity |-> size, size |-> 0, head |-> 0, tail |-> 0]

\* On a new queue; arr is a sequence, arr[i] of the code is arr[i + 1].
initQueueByArray(q, arr) ==
  [q EXCEPT !.ptr  = [i \in DOMAIN @ |-> IF i < Len(arr) THEN arr[i + 1] ELSE @[i]],
            !.size = Len(arr),
            !.head = 0,
            !.tail = Len(arr)]

queue_empty(q) == q.size = 0

\* Mutant: the element pushed last.
queue_back(q) == q.ptr[(q.tail + q.capacity - 1) % q.capacity]

queue_front(q) == q.ptr[q.head]

\* Mutant: the tail wraps one word early.
push_short(q, value) ==
  [q EXCEPT !.ptr[q.tail] = value,
            !.tail = (@ + 1) % (q.capacity - 1),
            !.size = @ + 1]

\* A full queue is not refused: the condition the code returns on is true of a
\* queue of capacity 0 only.
queue_push(q, value) ==
  [q EXCEPT !.ptr[q.tail] = value,
            !.tail = (@ + 1) % q.capacity,
            !.size = @ + 1]

\* Mutant: the element is passed over but still counted.
pop_uncounted(q) == [q EXCEPT !.head = (@ + 1) % q.capacity]

queue_pop(q) == [q EXCEPT !.head = (@ + 1) % q.capacity, !.size = @ - 1]

-----------------------------------------------------------------------------
(* What a queue holds, the head first. *)

Entry(q, k)  == q.ptr[(q.head + k - 1) % q.capacity]
Elements(q)  == [k \in 1 .. q.size |-> Entry(q, k)]

=============================================================================
