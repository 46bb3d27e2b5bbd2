---------------------------- MODULE QueueProofs ----------------------------
(***************************************************************************)
(* The ring buffer as the lists of pids and pages use it, created empty    *)
(* and filled by pushes, for every capacity: it is well formed, it loses   *)
(* and doubles no resource, it is never pushed onto when it is full, and   *)
(* it lends in first-in, first-out order.                                  *)
(***************************************************************************)
EXTENDS QueuePool, RingLemmas

QInv == TypeOK /\ PoolConserved

\* The ring is one of as many words as there are resources.
LEMMA TypedIsRing ==
  /\ TypeOK => IsRing(q, CAPACITY, Resource \cup {UNSET}) /\ taken \subseteq Resource
  /\ IsRing(q, CAPACITY, Resource \cup {UNSET}) /\ taken \subseteq Resource => TypeOK
  /\ CAPACITY \in Nat \ {0}
BY QueueAssumption DEF TypeOK, IsRing

\* While a resource is lent the ring has room for it.
LEMMA Room ==
  ASSUME QInv, NEW r \in taken
  PROVE  q.size < CAPACITY
<1>1. IsRing(q, CAPACITY, Resource \cup {UNSET}) /\ r \in Resource
  BY TypedIsRing DEF QInv
<1>2. Holds(q, Resource) /\ \A k \in 1 .. q.size : Entry(q, k) # r
  BY DEF QInv, PoolConserved, Holds
<1>3. IsFiniteSet(Resource) /\ Cardinality(Resource) = CAPACITY
  BY QueueAssumption
<1> QED BY <1>1, <1>2, <1>3, RingRoom

-----------------------------------------------------------------------------
\* The queue is created empty, with everything lent.
LEMMA InitQueue ==
  ASSUME ~FROM_ARRAY, Init
  PROVE  QInv /\ q.size = 0
<1>1. q = [ptr |-> [i \in 0 .. CAPACITY |-> UNSET], capacity |-> CAPACITY,
           size |-> 0, head |-> 0, tail |-> 0] /\ taken = Resource
  BY DEF Init, creatQueue
<1>2. CAPACITY \in Nat \ {0}
  BY QueueAssumption
<1>3. 0 \in 0 .. 2 * CAPACITY - 1 /\ 0 < CAPACITY /\ 0 + 0 = 0
  BY <1>2
<1>4. (0 + 0) % CAPACITY = 0
  BY <1>2, <1>3, Wrap
<1>5. TypeOK
  BY <1>1, <1>2, <1>4 DEF TypeOK
<1>6. PoolConserved
  BY <1>1 DEF PoolConserved
<1> QED BY <1>1, <1>5, <1>6 DEF QInv

\* What comes back goes where there is room, and is then in the ring, once.
LEMMA PutKeeps ==
  ASSUME QInv, NEW r \in Resource, Put(r)
  PROVE  QInv'
<1>1. /\ IsRing(q, CAPACITY, Resource \cup {UNSET}) /\ r \in Resource \cup {UNSET}
      /\ q.size < CAPACITY /\ r \in taken /\ taken' = taken \ {r} /\ taken \subseteq Resource
      /\ q.size \in 0 .. CAPACITY
  BY Room, TypedIsRing DEF QInv, Put, IsRing
<1>2. q' = queue_push(q, r)
  BY DEF Put
<1>3. /\ q'.size = q.size + 1
      /\ \A k \in 1 .. q.size : Entry(q', k) = Entry(q, k)
      /\ Entry(q', q.size + 1) = r
  BY <1>1, <1>2, PushEntries
<1>4. TypeOK'
  <2>1. IsRing(q', CAPACITY, Resource \cup {UNSET}) /\ taken' \subseteq Resource
    BY <1>1, <1>2, PushKeeps
  <2> QED BY <2>1, QueueAssumption DEF TypeOK, IsRing
<1>5. PoolConserved'
  <2>1. \A k \in 1 .. q.size : Entry(q, k) \in Resource \ taken
    BY DEF QInv, PoolConserved
  <2>2. \A j, k \in 1 .. q.size : Entry(q, j) = Entry(q, k) => j = k
    BY DEF QInv, PoolConserved
  <2>3. \A s \in Resource \ taken : \E k \in 1 .. q.size : Entry(q, k) = s
    BY DEF QInv, PoolConserved
  <2>4. q.size \in Nat /\ q'.size = q.size + 1
    BY <1>1, <1>3, QueueAssumption
  <2>5. \A k \in 1 .. q.size + 1 : k \in 1 .. q.size \/ k = q.size + 1
    BY <2>4
  <2>6. \A k \in 1 .. q.size : k \in 1 .. q.size + 1
    BY <2>4
  <2>7. \A k \in 1 .. q.size + 1 : Entry(q', k) \in Resource \ taken'
    BY <1>1, <1>3, <2>1, <2>5
  <2>8. \A j, k \in 1 .. q.size + 1 : Entry(q', j) = Entry(q', k) => j = k
    BY <1>1, <1>3, <2>1, <2>2, <2>5
  <2>9. \A s \in Resource \ taken' : \E k \in 1 .. q.size + 1 : Entry(q', k) = s
    <3> SUFFICES ASSUME NEW s \in Resource \ taken'
                 PROVE  \E k \in 1 .. q.size + 1 : Entry(q', k) = s
      OBVIOUS
    <3>1. CASE s = r
      BY <1>3, <2>4, <3>1
    <3>2. CASE s # r
      BY <1>1, <1>3, <2>3, <2>6, <3>2
    <3> QED BY <3>1, <3>2
  <2> QED BY <2>4, <2>7, <2>8, <2>9 DEF PoolConserved
<1> QED BY <1>4, <1>5 DEF QInv

\* What is lent leaves the ring.
LEMMA TakeKeeps ==
  ASSUME QInv, Take
  PROVE  QInv'
<1>1. /\ IsRing(q, CAPACITY, Resource \cup {UNSET}) /\ ~queue_empty(q)
      /\ taken' = taken \cup {queue_front(q)} /\ taken \subseteq Resource
  BY TypedIsRing DEF QInv, Take
<1>2. q' = queue_pop(q)
  BY DEF Take
<1>3. /\ q'.size = q.size - 1
      /\ q.size \in 1 .. CAPACITY
      /\ queue_front(q) = Entry(q, 1)
      /\ \A k \in 1 .. q.size - 1 : Entry(q', k) = Entry(q, k + 1)
  BY <1>1, <1>2, PopEntries
<1>4. \A k \in 1 .. q.size : Entry(q, k) \in Resource \ taken
  BY DEF QInv, PoolConserved
<1>5. 1 \in 1 .. q.size
  BY <1>3, QueueAssumption
<1>6. queue_front(q) \in Resource
  BY <1>3, <1>4, <1>5
<1>7. TypeOK'
  <2>1. IsRing(q', CAPACITY, Resource \cup {UNSET}) /\ taken' \subseteq Resource
    BY <1>1, <1>2, <1>6, PopKeeps
  <2> QED BY <2>1, QueueAssumption DEF TypeOK, IsRing
<1>8. PoolConserved'
  <2>1. \A j, k \in 1 .. q.size : Entry(q, j) = Entry(q, k) => j = k
    BY DEF QInv, PoolConserved
  <2>2. \A s \in Resource \ taken : \E k \in 1 .. q.size : Entry(q, k) = s
    BY DEF QInv, PoolConserved
  <2>3. q.size \in Nat /\ q'.size = q.size - 1
    BY <1>3, QueueAssumption
  <2>4. \A k \in 1 .. q.size - 1 : k + 1 \in 1 .. q.size /\ k + 1 # 1
    BY <2>3
  <2>5. \A k \in 1 .. q.size : k = 1 \/ (k - 1 \in 1 .. q.size - 1 /\ (k - 1) + 1 = k)
    BY <2>3
  <2>6. \A k \in 1 .. q.size - 1 : Entry(q', k) \in Resource \ taken'
    BY <1>1, <1>3, <1>4, <1>5, <2>1, <2>4
  <2>7. \A j, k \in 1 .. q.size - 1 : Entry(q', j) = Entry(q', k) => j = k
    BY <1>3, <2>1, <2>3, <2>4
  <2>8. \A s \in Resource \ taken' : \E k \in 1 .. q.size - 1 : Entry(q', k) = s
    BY <1>1, <1>3, <2>2, <2>5
  <2> QED BY <2>3, <2>6, <2>7, <2>8 DEF PoolConserved
<1> QED BY <1>7, <1>8 DEF QInv

\* The invariant of a queue that is created empty.
LEMMA QueueInvariant ==
  ASSUME ~FROM_ARRAY
  PROVE  Spec => []QInv
<1>1. Init => QInv
  BY InitQueue
<1>2. QInv /\ [Next]_vars => QInv'
  <2> SUFFICES ASSUME QInv, [Next]_vars
               PROVE  QInv'
    OBVIOUS
  <2>1. CASE Take
    BY <2>1, TakeKeeps
  <2>2. CASE \E r \in Resource : Put(r)
    BY <2>2, PutKeeps
  <2>3. CASE UNCHANGED vars
    BY <2>3 DEF vars, QInv, TypeOK, PoolConserved, Entry
  <2> QED BY <2>1, <2>2, <2>3 DEF Next
<1> QED BY <1>1, <1>2, PTL DEF Spec

\* The ring of the pid list and of the page list is well formed for ever, of
\* whatever capacity; in particular it never holds more than that, although
\* queue_push does not refuse a full ring.
THEOREM RingTyped ==
  ASSUME ~FROM_ARRAY
  PROVE  Spec => []TypeOK
<1>1. QInv => TypeOK
  BY DEF QInv
<1> QED BY <1>1, QueueInvariant, PTL

\* No pid and no page is lost or handed out twice by the ring.
THEOREM RingConserves ==
  ASSUME ~FROM_ARRAY
  PROVE  Spec => []PoolConserved
<1>1. QInv => PoolConserved
  BY DEF QInv
<1> QED BY <1>1, QueueInvariant, PTL

-----------------------------------------------------------------------------
\* The ring lends its resources in the order they came back: for every
\* capacity it implements the abstract first-in, first-out pool.
THEOREM RingIsFifo ==
  ASSUME ~FROM_ARRAY
  PROVE  Spec => ImplementsFifo
<1>1. Init => Pool!Init
  <2> SUFFICES ASSUME Init
               PROVE  Elements(q) \in Seq(Resource) /\ taken \subseteq Resource
    BY DEF Pool!Init
  <2>1. q.size = 0 /\ taken \subseteq Resource
    BY InitQueue, TypedIsRing DEF QInv
  <2> QED BY <2>1 DEF Elements
<1>2. QInv /\ [Next]_vars => [Pool!Next]_(Pool!vars)
  <2> SUFFICES ASSUME QInv, [Next]_vars
               PROVE  [Pool!Next]_(Pool!vars)
    OBVIOUS
  <2>0. /\ IsRing(q, CAPACITY, Resource \cup {UNSET})
        /\ \A k \in 1 .. q.size : Entry(q, k) \in Resource
    BY TypedIsRing DEF QInv, PoolConserved
  <2>1. CASE Take
    <3>1. ~queue_empty(q) /\ q' = queue_pop(q)
      BY <2>1 DEF Take
    <3>2. /\ Elements(q) # <<>>
          /\ queue_front(q) = Head(Elements(q))
          /\ Elements(q') = Tail(Elements(q))
      BY <2>0, <3>1, PopTakesHead
    <3>3. Pool!Take
      BY <2>1, <3>2 DEF Take, Pool!Take
    <3> QED BY <3>3 DEF Pool!Next
  <2>2. ASSUME NEW r \in Resource, Put(r)
        PROVE  Pool!Next
    <3>1. q.size < CAPACITY /\ q' = queue_push(q, r)
      BY <2>2, Room DEF Put
    <3>2. Elements(q') = Append(Elements(q), r)
      BY <2>0, <3>1, PushAppends
    <3>3. Pool!Put(r)
      BY <2>2, <3>2 DEF Put, Pool!Put
    <3> QED BY <3>3 DEF Pool!Next
  <2>3. CASE UNCHANGED vars
    BY <2>3 DEF vars, Pool!vars, Elements, Entry
  <2> QED BY <2>1, <2>2, <2>3 DEF Next
<1> QED BY <1>1, <1>2, QueueInvariant, PTL DEF Spec, ImplementsFifo, Pool!Spec

=============================================================================
