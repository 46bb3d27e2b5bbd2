----------------------------- MODULE RingLemmas -----------------------------
(***************************************************************************)
(* What queue_push and queue_pop do to a QueueLite, for every capacity: a  *)
(* ring that is well formed stays so, the entries stay in order, and the   *)
(* word behind the buffer is never written.                                *)
(***************************************************************************)
EXTENDS QueueLite, FiniteSetTheorems, SequenceTheorems, TLAPS

\* A ring of C words with values in S, whose tail is where its entries end.
IsRing(ring, C, S) ==
  /\ C \in Nat \ {0}
  /\ ring \in [ptr : [0 .. C -> S], capacity : {C},
               size : 0 .. C, head : 0 .. C - 1, tail : 0 .. C - 1]
  /\ ring.tail = (ring.head + ring.size) % C

\* What it holds are members of R, each once.
Holds(ring, R) ==
  /\ \A k \in 1 .. ring.size : Entry(ring, k) \in R
  /\ \A j, k \in 1 .. ring.size : Entry(ring, j) = Entry(ring, k) => j = k

-----------------------------------------------------------------------------
(* Places in the ring. *)

\* Below twice the capacity the remainder takes the capacity off once or not.
LEMMA Wrap ==
  ASSUME NEW C \in Nat \ {0}, NEW a \in 0 .. 2 * C - 1
  PROVE  a % C = IF a < C THEN a ELSE a - C
OBVIOUS

\* Where the k-th word behind the head is, as one comparison.
LEMMA Place ==
  ASSUME NEW C \in Nat \ {0}, NEW head \in 0 .. C - 1, NEW k \in 0 .. C
  PROVE  /\ (head + k) % C = IF head + k < C THEN head + k ELSE head + k - C
         /\ (head + k) % C \in 0 .. C - 1
<1> DEFINE a == head + k
<1>1. a \in 0 .. 2 * C - 1
  OBVIOUS
<1> HIDE DEF a
<1>2. a % C = IF a < C THEN a ELSE a - C
  BY <1>1, Wrap
<1>3. a % C \in 0 .. C - 1
  BY <1>1, <1>2
<1> QED BY <1>1, <1>2, <1>3 DEF a

\* The places of different elements differ.
LEMMA PlacesDiffer ==
  ASSUME NEW C \in Nat \ {0}, NEW head \in 0 .. C - 1,
         NEW j \in 0 .. C - 1, NEW k \in 0 .. C - 1,
         (head + j) % C = (head + k) % C
  PROVE  j = k
<1>1. j \in 0 .. C /\ k \in 0 .. C
  OBVIOUS
<1>2. (head + j) % C = IF head + j < C THEN head + j ELSE head + j - C
  BY <1>1, Place
<1>3. (head + k) % C = IF head + k < C THEN head + k ELSE head + k - C
  BY <1>1, Place
<1>4. (IF head + j < C THEN head + j ELSE head + j - C)
        = IF head + k < C THEN head + k ELSE head + k - C
  BY <1>2, <1>3
<1> QED BY <1>1, <1>4

\* Moving on by one word and then by k is moving on by k + 1.
LEMMA OneFurther ==
  ASSUME NEW C \in Nat \ {0}, NEW head \in 0 .. C - 1, NEW k \in 0 .. C - 1
  PROVE  /\ (((head + 1) % C) + k) % C = (head + (k + 1)) % C
         /\ (((head + k) % C) + 1) % C = (head + (k + 1)) % C
<1> DEFINE a == (head + 1) % C
           b == (head + k) % C
<1>1. 1 \in 0 .. C /\ k \in 0 .. C /\ k + 1 \in 0 .. C
  OBVIOUS
<1>2. a = (IF head + 1 < C THEN head + 1 ELSE head + 1 - C) /\ a \in 0 .. C - 1
  BY <1>1, Place
<1>3. b = (IF head + k < C THEN head + k ELSE head + k - C) /\ b \in 0 .. C - 1
  BY <1>1, Place
<1>4. (head + (k + 1)) % C = IF head + (k + 1) < C THEN head + (k + 1) ELSE head + (k + 1) - C
  BY <1>1, Place
<1> HIDE DEF a, b
<1>5. (a + k) % C = IF a + k < C THEN a + k ELSE a + k - C
  BY <1>1, <1>2, Place
<1>6. (b + 1) % C = IF b + 1 < C THEN b + 1 ELSE b + 1 - C
  BY <1>1, <1>3, Place
<1>7. (IF a + k < C THEN a + k ELSE a + k - C)
        = IF head + (k + 1) < C THEN head + (k + 1) ELSE head + (k + 1) - C
  BY <1>2
<1>8. (IF b + 1 < C THEN b + 1 ELSE b + 1 - C)
        = IF head + (k + 1) < C THEN head + (k + 1) ELSE head + (k + 1) - C
  BY <1>3
<1>9. (a + k) % C = (head + (k + 1)) % C
  BY <1>4, <1>5, <1>7
<1>10. (b + 1) % C = (head + (k + 1)) % C
  BY <1>4, <1>6, <1>8
<1> QED BY <1>9, <1>10 DEF a, b

\* The fields of a ring.
LEMMA RingFields ==
  ASSUME NEW C, NEW S, NEW ring, IsRing(ring, C, S)
  PROVE  /\ C \in Nat \ {0}
         /\ ring.ptr \in [0 .. C -> S]
         /\ ring.capacity = C
         /\ ring.size \in 0 .. C
         /\ ring.head \in 0 .. C - 1
         /\ ring.tail \in 0 .. C - 1
         /\ ring.tail = (ring.head + ring.size) % C
         /\ ring = [ptr |-> ring.ptr, capacity |-> ring.capacity, size |-> ring.size,
                    head |-> ring.head, tail |-> ring.tail]
BY DEF IsRing

-----------------------------------------------------------------------------
(* The two operations. *)

\* The fields after a push.
LEMMA PushFields ==
  ASSUME NEW C, NEW S, NEW ring, IsRing(ring, C, S), NEW r,
         NEW next, next = queue_push(ring, r)
  PROVE  /\ next.ptr = [ring.ptr EXCEPT ![ring.tail] = r]
         /\ next.capacity = C /\ next.head = ring.head /\ next.size = ring.size + 1
         /\ next.tail = (ring.tail + 1) % C
         /\ next = [ptr |-> next.ptr, capacity |-> next.capacity, size |-> next.size,
                    head |-> next.head, tail |-> next.tail]
<1>1. /\ ring.capacity = C
      /\ ring = [ptr |-> ring.ptr, capacity |-> ring.capacity, size |-> ring.size,
                 head |-> ring.head, tail |-> ring.tail]
  BY RingFields
<1>2. next = [ring EXCEPT !.ptr[ring.tail] = r, !.tail = (@ + 1) % ring.capacity, !.size = @ + 1]
  BY DEF queue_push
<1> QED BY <1>1, <1>2

\* A push onto a ring that is not full leaves a ring.
LEMMA PushKeeps ==
  ASSUME NEW C, NEW S, NEW ring, IsRing(ring, C, S), ring.size < C, NEW r \in S,
         NEW next, next = queue_push(ring, r)
  PROVE  IsRing(next, C, S)
<1>1. /\ C \in Nat \ {0} /\ ring.ptr \in [0 .. C -> S]
      /\ ring.size \in 0 .. C - 1 /\ ring.size + 1 \in 0 .. C /\ 1 \in 0 .. C
      /\ ring.head \in 0 .. C - 1 /\ ring.tail \in 0 .. C - 1
      /\ ring.tail = (ring.head + ring.size) % C
  BY RingFields
<1>2. (ring.tail + 1) % C \in 0 .. C - 1
  BY <1>1, Place
<1>3. (((ring.head + ring.size) % C) + 1) % C = (ring.head + (ring.size + 1)) % C
  BY <1>1, OneFurther
<1>4. /\ next.ptr = [ring.ptr EXCEPT ![ring.tail] = r]
      /\ next.capacity = C /\ next.head = ring.head /\ next.size = ring.size + 1
      /\ next.tail = (ring.tail + 1) % C
      /\ next = [ptr |-> next.ptr, capacity |-> next.capacity, size |-> next.size,
                 head |-> next.head, tail |-> next.tail]
  BY PushFields
<1>5. next.tail = (next.head + next.size) % C /\ next.tail \in 0 .. C - 1
  BY <1>1, <1>2, <1>3, <1>4
<1>6. next.ptr \in [0 .. C -> S]
  BY <1>1, <1>4
<1> QED BY <1>1, <1>4, <1>5, <1>6 DEF IsRing

\* The new element comes after the others, which stay where they are, and so
\* does the word behind the buffer.
LEMMA PushEntries ==
  ASSUME NEW C, NEW S, NEW ring, IsRing(ring, C, S), ring.size < C, NEW r \in S,
         NEW next, next = queue_push(ring, r)
  PROVE  /\ next.size = ring.size + 1
         /\ next.ptr[C] = ring.ptr[C]
         /\ \A k \in 1 .. ring.size : Entry(next, k) = Entry(ring, k)
         /\ Entry(next, ring.size + 1) = r
<1>1. /\ C \in Nat \ {0} /\ ring.ptr \in [0 .. C -> S] /\ ring.capacity = C
      /\ ring.size \in 0 .. C - 1
      /\ ring.head \in 0 .. C - 1 /\ ring.tail \in 0 .. C - 1
      /\ ring.tail = (ring.head + ring.size) % C
  BY RingFields
<1>2. /\ next.ptr = [ring.ptr EXCEPT ![ring.tail] = r]
      /\ next.capacity = C /\ next.head = ring.head /\ next.size = ring.size + 1
  BY PushFields
<1>3. ASSUME NEW k \in 1 .. ring.size
      PROVE  Entry(next, k) = Entry(ring, k)
  <2> DEFINE i == (ring.head + (k - 1)) % C
  <2>1. /\ k - 1 \in 0 .. C - 1 /\ k - 1 # ring.size /\ k - 1 \in 0 .. C
        /\ ring.head + k - 1 = ring.head + (k - 1)
    BY <1>1
  <2>2. i # (ring.head + ring.size) % C
    BY <1>1, <2>1, PlacesDiffer
  <2>3. i \in 0 .. C - 1
    BY <1>1, <2>1, Place
  <2>4. Entry(ring, k) = ring.ptr[i] /\ Entry(next, k) = next.ptr[i]
    BY <1>1, <1>2, <2>1 DEF Entry
  <2> HIDE DEF i
  <2>5. i # ring.tail /\ i \in 0 .. C
    BY <1>1, <2>2, <2>3
  <2>6. next.ptr[i] = ring.ptr[i]
    BY <1>1, <1>2, <2>5
  <2> QED BY <2>4, <2>6
<1>4. Entry(next, ring.size + 1) = r
  <2>1. ring.head + (ring.size + 1) - 1 = ring.head + ring.size /\ ring.tail \in 0 .. C
    BY <1>1
  <2>2. Entry(next, ring.size + 1) = next.ptr[ring.tail]
    BY <1>1, <1>2, <2>1 DEF Entry
  <2> QED BY <1>1, <1>2, <2>1, <2>2
<1>5. next.ptr[C] = ring.ptr[C]
  BY <1>1, <1>2
<1> QED BY <1>2, <1>3, <1>4, <1>5

\* The fields after a pop.
LEMMA PopFields ==
  ASSUME NEW C, NEW S, NEW ring, IsRing(ring, C, S), ~queue_empty(ring),
         NEW next, next = queue_pop(ring)
  PROVE  /\ next.ptr = ring.ptr /\ next.capacity = C /\ next.tail = ring.tail
         /\ next.head = (ring.head + 1) % C /\ next.size = ring.size - 1
         /\ next = [ptr |-> next.ptr, capacity |-> next.capacity, size |-> next.size,
                    head |-> next.head, tail |-> next.tail]
         /\ ring.size \in 1 .. C
<1>1. /\ C \in Nat \ {0} /\ ring.capacity = C /\ ring.size \in 0 .. C
      /\ ring = [ptr |-> ring.ptr, capacity |-> ring.capacity, size |-> ring.size,
                 head |-> ring.head, tail |-> ring.tail]
  BY RingFields
<1>2. next = [ring EXCEPT !.head = (@ + 1) % ring.capacity, !.size = @ - 1]
  BY DEF queue_pop
<1>3. ring.size \in 1 .. C
  BY <1>1 DEF queue_empty
<1> QED BY <1>1, <1>2, <1>3

\* A pop leaves a ring.
LEMMA PopKeeps ==
  ASSUME NEW C, NEW S, NEW ring, IsRing(ring, C, S), ~queue_empty(ring),
         NEW next, next = queue_pop(ring)
  PROVE  IsRing(next, C, S)
<1>1. /\ next.ptr = ring.ptr /\ next.capacity = C /\ next.tail = ring.tail
      /\ next.head = (ring.head + 1) % C /\ next.size = ring.size - 1
      /\ next = [ptr |-> next.ptr, capacity |-> next.capacity, size |-> next.size,
                 head |-> next.head, tail |-> next.tail]
      /\ ring.size \in 1 .. C
  BY PopFields
<1>2. /\ C \in Nat \ {0} /\ ring.ptr \in [0 .. C -> S]
      /\ ring.head \in 0 .. C - 1 /\ ring.tail \in 0 .. C - 1
      /\ ring.tail = (ring.head + ring.size) % C
  BY RingFields
<1>3. /\ 1 \in 0 .. C /\ ring.size - 1 \in 0 .. C - 1 /\ (ring.size - 1) + 1 = ring.size
      /\ ring.size - 1 \in 0 .. C
  BY <1>1, <1>2
<1>4. (((ring.head + 1) % C) + (ring.size - 1)) % C = (ring.head + ((ring.size - 1) + 1)) % C
  BY <1>2, <1>3, OneFurther
<1>5. (ring.head + 1) % C \in 0 .. C - 1
  BY <1>2, <1>3, Place
<1>6. next.tail = (next.head + next.size) % C
  BY <1>1, <1>2, <1>3, <1>4
<1> QED BY <1>1, <1>2, <1>3, <1>5, <1>6 DEF IsRing

\* The head is the first entry.
LEMMA Front ==
  ASSUME NEW C, NEW S, NEW ring, IsRing(ring, C, S)
  PROVE  queue_front(ring) = Entry(ring, 1)
<1>1. C \in Nat \ {0} /\ ring.capacity = C /\ ring.head \in 0 .. C - 1
  BY RingFields
<1>2. /\ ring.head + 1 - 1 = ring.head + 0 /\ 0 \in 0 .. C
      /\ ring.head + 0 < C /\ ring.head + 0 = ring.head
  BY <1>1
<1>3. (ring.head + 0) % C = ring.head + 0
  BY <1>1, <1>2, Place
<1> QED BY <1>1, <1>2, <1>3 DEF Entry, queue_front

\* Every element moves up by one, and no word is written.
LEMMA PopEntries ==
  ASSUME NEW C, NEW S, NEW ring, IsRing(ring, C, S), ~queue_empty(ring),
         NEW next, next = queue_pop(ring)
  PROVE  /\ next.size = ring.size - 1
         /\ next.ptr = ring.ptr
         /\ ring.size \in 1 .. C
         /\ queue_front(ring) = Entry(ring, 1)
         /\ \A k \in 1 .. ring.size - 1 : Entry(next, k) = Entry(ring, k + 1)
<1>1. /\ next.ptr = ring.ptr /\ next.capacity = C
      /\ next.head = (ring.head + 1) % C /\ next.size = ring.size - 1
      /\ ring.size \in 1 .. C
  BY PopFields
<1>2. C \in Nat \ {0} /\ ring.capacity = C /\ ring.head \in 0 .. C - 1
  BY RingFields
<1>3. queue_front(ring) = Entry(ring, 1)
  BY Front
<1>4. ASSUME NEW k \in 1 .. ring.size - 1
      PROVE  Entry(next, k) = Entry(ring, k + 1)
  <2> DEFINE h == (ring.head + 1) % C
  <2>1. 1 \in 0 .. C /\ k - 1 \in 0 .. C - 1 /\ (k - 1) + 1 = k
    BY <1>1, <1>2
  <2>2. h \in 0 .. C - 1
    BY <1>2, <2>1, Place
  <2>3. (h + (k - 1)) % C = (ring.head + ((k - 1) + 1)) % C
    BY <1>2, <2>1, OneFurther
  <2> HIDE DEF h
  <2>4. h + k - 1 = h + (k - 1) /\ ring.head + (k + 1) - 1 = ring.head + k
    BY <1>1, <1>2, <2>2
  <2>5. (h + k - 1) % C = (ring.head + (k + 1) - 1) % C
    BY <2>1, <2>3, <2>4
  <2>6. Entry(next, k) = ring.ptr[(h + k - 1) % C]
    BY <1>1 DEF Entry, h
  <2>7. Entry(ring, k + 1) = ring.ptr[(ring.head + (k + 1) - 1) % C]
    BY <1>2 DEF Entry
  <2> QED BY <2>5, <2>6, <2>7
<1> QED BY <1>1, <1>3, <1>4

\* A ring that does not hold one of as many things as it has words has room.
LEMMA RingRoom ==
  ASSUME NEW C, NEW S, NEW ring, IsRing(ring, C, S),
         NEW R, IsFiniteSet(R), Cardinality(R) = C, Holds(ring, R),
         NEW r \in R, \A k \in 1 .. ring.size : Entry(ring, k) # r
  PROVE  ring.size < C
<1> DEFINE f == [k \in 1 .. ring.size |-> Entry(ring, k)]
           rest == R \ {r}
<1>1. ring.size \in 0 .. C /\ C \in Nat \ {0}
  BY RingFields
<1>2. f \in [1 .. ring.size -> rest] /\ \A j, k \in 1 .. ring.size : f[j] = f[k] => j = k
  BY DEF Holds
<1>3. f \in Injection(1 .. ring.size, rest)
  BY <1>2 DEF Injection, IsInjective
<1>4. IsFiniteSet(rest) /\ Cardinality(rest) = C - 1
  BY FS_RemoveElement
<1>5. IsFiniteSet(1 .. ring.size) /\ Cardinality(1 .. ring.size) = ring.size
  <2>1. /\ 1 \in Int /\ ring.size \in Int /\ ring.size >= 0
    BY <1>1
  <2>2. IsFiniteSet(1 .. ring.size)
        /\ Cardinality(1 .. ring.size) = IF 1 > ring.size THEN 0 ELSE ring.size - 1 + 1
    BY <2>1, FS_Interval
  <2> QED BY <2>1, <2>2
<1>6. ring.size <= Cardinality(rest)
  <2> HIDE DEF f, rest
  <2> QED BY <1>3, <1>4, <1>5, FS_Injection
<1> QED BY <1>1, <1>4, <1>6

-----------------------------------------------------------------------------
(* The ring as a sequence, the head first. *)

\* Its elements are a sequence of its entries.
LEMMA Listing ==
  ASSUME NEW C, NEW S, NEW ring, IsRing(ring, C, S),
         NEW R, \A k \in 1 .. ring.size : Entry(ring, k) \in R
  PROVE  /\ Elements(ring) \in Seq(R)
         /\ Len(Elements(ring)) = ring.size
         /\ \A k \in 1 .. ring.size : Elements(ring)[k] = Entry(ring, k)
<1>1. ring.size \in Nat
  BY RingFields
<1> QED BY <1>1 DEF Elements

\* Read from the head, a push appends.
LEMMA PushAppends ==
  ASSUME NEW C, NEW S, NEW ring, IsRing(ring, C, S), ring.size < C, NEW r \in S,
         NEW R, \A k \in 1 .. ring.size : Entry(ring, k) \in R, r \in R,
         NEW next, next = queue_push(ring, r)
  PROVE  Elements(next) = Append(Elements(ring), r)
<1>1. /\ next.size = ring.size + 1
      /\ \A k \in 1 .. ring.size : Entry(next, k) = Entry(ring, k)
      /\ Entry(next, ring.size + 1) = r
  BY PushEntries
<1>2. ring.size \in Nat
  BY RingFields
<1>3. Elements(ring) \in Seq(R) /\ Len(Elements(ring)) = ring.size
  BY Listing
<1>4. \A k \in 1 .. ring.size + 1 : Entry(next, k) = IF k <= ring.size THEN Elements(ring)[k] ELSE r
  BY <1>1, <1>2 DEF Elements
<1> QED BY <1>1, <1>2, <1>3, <1>4 DEF Elements

\* Read from the head, a pop takes the first.
LEMMA PopTakesHead ==
  ASSUME NEW C, NEW S, NEW ring, IsRing(ring, C, S), ~queue_empty(ring),
         NEW R, \A k \in 1 .. ring.size : Entry(ring, k) \in R,
         NEW next, next = queue_pop(ring)
  PROVE  /\ Elements(ring) # <<>>
         /\ queue_front(ring) = Head(Elements(ring))
         /\ Elements(next) = Tail(Elements(ring))
<1>1. /\ next.size = ring.size - 1 /\ ring.size \in 1 .. C
      /\ queue_front(ring) = Entry(ring, 1)
      /\ \A k \in 1 .. ring.size - 1 : Entry(next, k) = Entry(ring, k + 1)
  BY PopEntries
<1>2. /\ Elements(ring) \in Seq(R) /\ Len(Elements(ring)) = ring.size
      /\ \A k \in 1 .. ring.size : Elements(ring)[k] = Entry(ring, k)
  BY Listing
<1>3. ring.size \in Nat \ {0}
  BY <1>1, RingFields
<1>4. Elements(ring) # <<>> /\ Head(Elements(ring)) = Entry(ring, 1)
  BY <1>2, <1>3
<1>5. Tail(Elements(ring)) = [k \in 1 .. ring.size - 1 |-> Entry(ring, k + 1)]
  <2> DEFINE s == Elements(ring)
             t == Tail(s)
  <2>1. /\ t \in Seq(R) /\ Len(t) = ring.size - 1
        /\ \A k \in 1 .. ring.size - 1 : t[k] = s[k + 1]
    <3> HIDE DEF s
    <3> QED BY <1>2, <1>4, HeadTailProperties DEF s
  <2>2. t = [k \in 1 .. ring.size - 1 |-> t[k]]
    <3> HIDE DEF t
    <3>1. t \in [1 .. Len(t) -> R]
      BY <2>1, LenProperties
    <3> QED BY <2>1, <3>1
  <2>3. \A k \in 1 .. ring.size - 1 : k + 1 \in 1 .. ring.size
    BY <1>3
  <2> HIDE DEF t
  <2>4. \A k \in 1 .. ring.size - 1 : t[k] = Entry(ring, k + 1)
    BY <1>2, <2>1, <2>3
  <2>5. t = [k \in 1 .. ring.size - 1 |-> Entry(ring, k + 1)]
    BY <2>2, <2>4
  <2> QED BY <2>5 DEF t
<1>6. Elements(next) = [k \in 1 .. ring.size - 1 |-> Entry(next, k)]
  BY <1>1 DEF Elements
<1> QED BY <1>1, <1>4, <1>5, <1>6

=============================================================================
