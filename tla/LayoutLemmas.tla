---------------------------- MODULE LayoutLemmas ----------------------------
(***************************************************************************)
(* What the operators of Layout.tla compute, for every value of the        *)
(* constants, and the facts about numbers and sequences all proofs need.   *)
(***************************************************************************)
EXTENDS Layout, TLAPS, FiniteSetTheorems, SequenceTheorems

-----------------------------------------------------------------------------
(* Arithmetic. *)

\* The remainder of an integer is below the modulus.
LEMMA ModRange ==
  ASSUME NEW a \in Int, NEW b \in Nat \ {0}
  PROVE  a % b \in 0 .. b - 1
  OBVIOUS

\* Integer division of a natural number yields one, and rounds down.
LEMMA DivRange ==
  ASSUME NEW a \in Nat, NEW b \in Nat \ {0}
  PROVE  /\ a \div b \in Nat
         /\ (a \div b) * b <= a
         /\ a < (a \div b) * b + b
  OBVIOUS

\* Division undoes multiplication.
LEMMA DivProduct ==
  ASSUME NEW a \in Nat, NEW b \in Nat \ {0}
  PROVE  (a * b) \div b = a
  OBVIOUS

\* Multiplication is monotonic.
LEMMA ProductLeq ==
  ASSUME NEW a \in Int, NEW b \in Int, NEW c \in Nat, a <= b
  PROVE  a * c <= b * c
  OBVIOUS

\* A set of natural numbers that is not empty has a least member.
LEMMA LeastExists ==
  ASSUME NEW S \in SUBSET Nat, S # {}
  PROVE  \E x \in S : \A y \in S : x <= y
<1>1. IsWellFoundedOn(OpToRel(<, Nat), Nat)
  BY NatLessThanWellFounded
<1>2. PICK x \in S : \A y \in S : <<y, x>> \notin OpToRel(<, Nat)
  BY <1>1, WFMin
<1>3. \A y \in S : ~(y < x)
  BY <1>2 DEF OpToRel
<1> QED BY <1>3

-----------------------------------------------------------------------------
(* Sequences. *)

\* A queue after n pops.
LEMMA DropFirst ==
  ASSUME NEW S, NEW s \in Seq(S), NEW n \in 0 .. Len(s)
  PROVE  /\ SubSeq(s, n + 1, Len(s)) \in Seq(S)
         /\ Len(SubSeq(s, n + 1, Len(s))) = Len(s) - n
         /\ \A k \in 1 .. Len(s) - n : SubSeq(s, n + 1, Len(s))[k] = s[n + k]
<1>1. Len(s) \in Nat /\ \A k \in 1 .. Len(s) : s[k] \in S
  BY LenProperties, ElementOfSeq
<1>2. \A k \in n + 1 .. Len(s) : s[k] \in S
  BY <1>1
<1>3. n + 1 \in Int /\ Len(s) \in Int
  BY <1>1
<1> DEFINE t == SubSeq(s, n + 1, Len(s))
<1>4. /\ t \in Seq(S)
      /\ Len(t) = IF n + 1 <= Len(s) THEN Len(s) - (n + 1) + 1 ELSE 0
      /\ \A k \in 1 .. Len(s) - (n + 1) + 1 : t[k] = s[n + 1 + k - 1]
  BY <1>2, <1>3, SubSeqProperties
<1> HIDE DEF t
<1> QED BY <1>1, <1>4

\* A queue that is not empty: its head, and what is behind it.
LEMMA PopFirst ==
  ASSUME NEW S, NEW s \in Seq(S), s # <<>>
  PROVE  /\ Len(s) \in Nat \ {0}
         /\ Head(s) = s[1] /\ Head(s) \in S
         /\ Tail(s) \in Seq(S)
         /\ DOMAIN s = 1 .. Len(s)
         /\ DOMAIN Tail(s) = 1 .. Len(s) - 1
         /\ \A k \in 1 .. Len(s) - 1 : Tail(s)[k] = s[k + 1]
<1>1. Len(s) \in Nat /\ DOMAIN s = 1 .. Len(s) /\ \A k \in 1 .. Len(s) : s[k] \in S
  BY LenProperties, ElementOfSeq
<1>2. Len(s) # 0
  BY <1>1, EmptySeq
<1>3. /\ Head(s) \in S
      /\ Tail(s) \in Seq(S)
      /\ Len(Tail(s)) = Len(s) - 1
      /\ \A k \in 1 .. Len(Tail(s)) : Tail(s)[k] = s[k + 1]
  BY HeadTailProperties
<1>4. Head(s) = s[1]
  OBVIOUS
<1> QED BY <1>1, <1>2, <1>3, <1>4, LenProperties

-----------------------------------------------------------------------------
(* Sorting. *)

\* SortedBy lists every element of a finite set once, when no two of them have
\* the same key.
LEMMA SortedByLists ==
  ASSUME NEW S, IsFiniteSet(S), NEW key,
         \A x \in S : key[x] \in Int,
         \A x, y \in S : key[x] = key[y] => x = y
  PROVE  /\ Cardinality(S) \in Nat
         /\ SortedBy(S, key) \in [1 .. Cardinality(S) -> S]
         /\ \A j, k \in 1 .. Cardinality(S) :
              SortedBy(S, key)[j] = SortedBy(S, key)[k] => j = k
         /\ \A x \in S : \E k \in 1 .. Cardinality(S) : SortedBy(S, key)[k] = x
<1> DEFINE n == Cardinality(S)
           B(x) == Below(S, key, x)
           rank == [x \in S |-> Cardinality(B(x)) + 1]
           s == SortedBy(S, key)
<1>1. n \in Nat
  BY FS_CardinalityType
<1>2. ASSUME NEW x \in S
      PROVE  /\ IsFiniteSet(B(x))
             /\ Cardinality(B(x)) \in 0 .. n - 1
  <2>1. B(x) \in SUBSET (S \ {x})
    BY DEF Below
  <2>2. IsFiniteSet(S \ {x}) /\ Cardinality(S \ {x}) = n - 1
    BY FS_RemoveElement
  <2>3. IsFiniteSet(B(x)) /\ Cardinality(B(x)) <= n - 1
    <3> HIDE DEF B, n
    <3> QED BY <2>1, <2>2, FS_Subset
  <2>4. Cardinality(B(x)) \in Nat
    BY <2>3, FS_CardinalityType
  <2> QED BY <1>1, <2>3, <2>4
<1>3. ASSUME NEW x \in S, NEW y \in S, key[x] < key[y]
      PROVE  Cardinality(B(x)) < Cardinality(B(y))
  <2>1. B(x) \in SUBSET B(y) /\ x \in B(y) /\ x \notin B(x)
    BY <1>3 DEF Below
  <2>2. /\ Cardinality(B(x)) <= Cardinality(B(y))
        /\ Cardinality(B(x)) # Cardinality(B(y))
    <3> HIDE DEF B
    <3> QED BY <1>2, <2>1, FS_Subset
  <2>3. Cardinality(B(x)) \in Int /\ Cardinality(B(y)) \in Int
    BY <1>2
  <2> QED BY <2>2, <2>3
<1>4. ASSUME NEW x \in S, NEW y \in S, Cardinality(B(x)) = Cardinality(B(y))
      PROVE  x = y
  <2>1. ~(key[x] < key[y]) /\ ~(key[y] < key[x])
    <3> HIDE DEF B
    <3> QED BY <1>2, <1>3, <1>4
  <2> QED BY <2>1
<1>5. rank \in Injection(S, 1 .. n)
  <2>1. rank \in [S -> 1 .. n]
    <3> HIDE DEF B, n
    <3> QED BY <1>1, <1>2
  <2>2. ASSUME NEW x \in S, NEW y \in S, rank[x] = rank[y]
        PROVE  x = y
    <3>1. Cardinality(B(x)) \in Int /\ Cardinality(B(y)) \in Int
      BY <1>2
    <3>2. Cardinality(B(x)) + 1 = Cardinality(B(y)) + 1
      BY <2>2
    <3>3. Cardinality(B(x)) = Cardinality(B(y))
      BY <3>1, <3>2
    <3> QED BY <3>3, <1>4
  <2> QED BY <2>1, <2>2 DEF Injection, IsInjective
<1>6. ASSUME NEW k \in 1 .. n
      PROVE  \E x \in S : Cardinality(B(x)) = k - 1
  <2>1. IsFiniteSet(1 .. n) /\ Cardinality(1 .. n) = n
    BY <1>1, FS_Interval
  <2>2. rank \in Surjection(S, 1 .. n)
    <3> HIDE DEF rank
    <3> QED BY <1>5, <2>1, FS_Injection
  <2>3. PICK x \in S : rank[x] = k
    BY <2>2 DEF Surjection
  <2>4. Cardinality(B(x)) \in Int
    BY <1>2
  <2> QED BY <2>3, <2>4, <1>1
<1>7. ASSUME NEW k \in 1 .. n
      PROVE  s[k] \in S /\ Cardinality(B(s[k])) = k - 1
  <2>1. s[k] = CHOOSE x \in S : Cardinality(B(x)) = k - 1
    BY DEF SortedBy
  <2> HIDE DEF s, B, n
  <2> QED BY <1>6, <2>1
<1>8. s \in [1 .. n -> S]
  <2>1. s = [k \in 1 .. n |-> s[k]]
    BY DEF SortedBy
  <2> QED BY <1>7, <2>1
<1>9. ASSUME NEW j \in 1 .. n, NEW k \in 1 .. n, s[j] = s[k]
      PROVE  j = k
  <2> HIDE DEF s, B, n
  <2>1. j - 1 = k - 1
    BY <1>7, <1>9
  <2> QED BY <2>1, <1>1
<1>10. ASSUME NEW x \in S
       PROVE  \E k \in 1 .. n : s[k] = x
  <2> DEFINE k == Cardinality(B(x)) + 1
  <2>1. k \in 1 .. n /\ Cardinality(B(x)) = k - 1
    <3> HIDE DEF B, n
    <3> QED BY <1>1, <1>2
  <2>2. s[k] \in S /\ Cardinality(B(s[k])) = Cardinality(B(x))
    <3> HIDE DEF s, B, n, k
    <3> QED BY <1>7, <2>1
  <2>3. s[k] = x
    <3> HIDE DEF s, B, n, k
    <3> QED BY <1>4, <2>2
  <2> QED BY <2>1, <2>3
<1> QED BY <1>1, <1>8, <1>9, <1>10

\* Of the entries below n, sorted by number, the k-th is k - 1.
LEMMA SortedPrefix ==
  ASSUME NEW n \in 0 .. PAGE_CAPACITY
  PROVE  SortedBy(0 .. n - 1, [i \in Entries |-> i]) = [k \in 1 .. n |-> k - 1]
<1> DEFINE S == 0 .. n - 1
           key == [i \in Entries |-> i]
<1>1. PAGE_CAPACITY \in Nat /\ n \in Nat
  BY KernelAssumption
<1>2. IsFiniteSet(S) /\ Cardinality(S) = n
  BY <1>1, FS_Interval
<1>3. ASSUME NEW x \in S
      PROVE  Cardinality(Below(S, key, x)) = x
  <2>1. Below(S, key, x) = 0 .. x - 1
    BY <1>1 DEF Below, Entries
  <2>2. Cardinality(0 .. x - 1) = x
    BY <1>1, FS_Interval
  <2> QED BY <2>1, <2>2
<1>4. ASSUME NEW k \in 1 .. n
      PROVE  (CHOOSE x \in S : Cardinality(Below(S, key, x)) = k - 1) = k - 1
  <2>1. k - 1 \in S
    BY <1>1
  <2> HIDE DEF S, key
  <2>2. \A x \in S : Cardinality(Below(S, key, x)) = k - 1 <=> x = k - 1
    BY <1>3
  <2> QED BY <2>1, <2>2
<1> QED BY <1>2, <1>4 DEF SortedBy

\* The pages enter the free list in an order that puts no two at one place.
LEMMA BootKeyDistinct ==
  /\ \A x \in UserPages : BootKey[x] \in Int
  /\ \A x, y \in UserPages : BootKey[x] = BootKey[y] => x = y
<1> DEFINE N == NUM_OF_PAGE_FOR_USER
           i(x) == x - START_PAGE_OF_USER
           key(x) == (i(x) % 4) * N + i(x)
<1>1. N \in Nat /\ START_PAGE_OF_USER \in Nat
  BY KernelAssumption
<1>2. ASSUME NEW x \in UserPages
      PROVE  /\ i(x) \in 0 .. N - 1
             /\ i(x) % 4 \in 0 .. 3
             /\ x = i(x) + START_PAGE_OF_USER
             /\ BootKey[x] = IF ORDER_MODE THEN i(x) ELSE key(x)
  BY <1>1 DEF UserPages, BootKey
<1>3. ASSUME NEW x \in UserPages, NEW y \in UserPages, key(x) = key(y)
      PROVE  i(x) = i(y)
  <2>1. ASSUME NEW a \in 0 .. 3, NEW b \in 0 .. 3,
               NEW c \in 0 .. N - 1, NEW d \in 0 .. N - 1, a * N + c = b * N + d
        PROVE  c = d
    BY <1>1, <2>1
  <2> QED BY <1>2, <1>3, <2>1
<1> QED BY <1>1, <1>2, <1>3

-----------------------------------------------------------------------------
(* Pages. *)

\* A size rounded up to pages, for the sizes loadProgram accepts: never 0, at
\* most what a page table maps, and enough.
LEMMA byte2PageRange ==
  ASSUME NEW bytes \in 1 .. MAX_SIZE_OF_PROGRAM
  PROVE  /\ byte2Page(bytes) \in 1 .. PAGE_CAPACITY
         /\ bytes <= byte2Page(bytes) * SIZE_OF_PAGE
         /\ byte2Page(bytes) * SIZE_OF_PAGE < bytes + SIZE_OF_PAGE
<1> DEFINE P == SIZE_OF_PAGE
           n == (bytes + P - 1) \div P
<1>1. /\ P \in Nat \ {0}
      /\ PAGE_CAPACITY \in Nat
      /\ BASE_MOD \in Nat \ {0}
      /\ ADDR_MOD \in Nat \ {0}
      /\ PAGE_CAPACITY < BASE_MOD
      /\ MAX_SIZE_OF_PROGRAM = PAGE_CAPACITY * P
      /\ MAX_SIZE_OF_PROGRAM \in Nat
      /\ MAX_SIZE_OF_PROGRAM + P <= ADDR_MOD
  BY KernelAssumption DEF MAX_SIZE_OF_PROGRAM
<1>2. bytes + P - 1 \in Nat /\ bytes + P - 1 < ADDR_MOD
  BY <1>1
<1>3. (bytes + P - 1) % ADDR_MOD = bytes + P - 1
  BY <1>1, <1>2
<1>4. n \in Nat /\ n * P <= bytes + P - 1 /\ bytes + P - 1 < n * P + P
  BY <1>1, <1>2, DivRange
<1>5. n \in 1 .. PAGE_CAPACITY
  <2>1. n # 0
    BY <1>1, <1>4
  <2>2. ~(n >= PAGE_CAPACITY + 1)
    <3>1. ASSUME n >= PAGE_CAPACITY + 1
          PROVE  n * P >= PAGE_CAPACITY * P + P
      <4>1. (PAGE_CAPACITY + 1) * P <= n * P
        BY <1>1, <1>4, <3>1, ProductLeq
      <4> QED BY <1>1, <4>1
    <3> HIDE DEF n
    <3> QED BY <1>1, <1>4, <3>1
  <2> HIDE DEF n
  <2> QED BY <1>1, <1>4, <2>1, <2>2
<1>6. byte2Page(bytes) = n
  <2>1. n % BASE_MOD = n
    <3> HIDE DEF n
    <3> QED BY <1>1, <1>5
  <2> QED BY <1>3, <2>1 DEF byte2Page
<1> HIDE DEF n
<1> QED BY <1>1, <1>4, <1>5, <1>6

\* Whatever its argument, byte2Page yields a base_type.
LEMMA byte2PageType ==
  ASSUME NEW bytes \in Int
  PROVE  byte2Page(bytes) \in 0 .. BASE_MOD - 1
<1>1. SIZE_OF_PAGE \in Nat \ {0} /\ BASE_MOD \in Nat \ {0} /\ ADDR_MOD \in Nat \ {0}
  BY KernelAssumption
<1>2. (bytes + SIZE_OF_PAGE - 1) % ADDR_MOD \in Nat
  BY <1>1, ModRange
<1>3. ((bytes + SIZE_OF_PAGE - 1) % ADDR_MOD) \div SIZE_OF_PAGE \in Nat
  BY <1>1, <1>2, DivRange
<1> QED BY <1>1, <1>3, ModRange DEF byte2Page

\* PAGE_NOT_USED is no page's number.
LEMMA PageNotUsed ==
  /\ PAGE_CAPACITY \in Nat \ {0}
  /\ UserPages \subseteq Nat
  /\ PAGE_NOT_USED \notin UserPages
BY KernelAssumption DEF UserPages, PAGE_NOT_USED

\* There are NUM_OF_PAGE_FOR_USER pages.
LEMMA UserPagesCount ==
  IsFiniteSet(UserPages) /\ Cardinality(UserPages) = NUM_OF_PAGE_FOR_USER
<1> DEFINE last == START_PAGE_OF_USER + NUM_OF_PAGE_FOR_USER - 1
<1>1. /\ START_PAGE_OF_USER \in Int /\ last \in Int
      /\ NUM_OF_PAGE_FOR_USER \in Nat \ {0}
  BY KernelAssumption
<1>2. /\ IsFiniteSet(UserPages)
      /\ Cardinality(UserPages) = IF START_PAGE_OF_USER > last THEN 0
           ELSE last - START_PAGE_OF_USER + 1
  BY <1>1, FS_Interval DEF UserPages
<1> QED BY <1>1, <1>2

=============================================================================
