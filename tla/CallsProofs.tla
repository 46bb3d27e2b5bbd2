----------------------------- MODULE CallsProofs -----------------------------
(***************************************************************************)
(* The calls statement by statement, for every size of the machine: no     *)
(* free list is ever pushed onto when it is full, and a page is in two     *)
(* places only while it moves from one to the other.                       *)
(*                                                                         *)
(* Both come from one invariant, which says where a call stands: a process *)
(* that is being destroyed gives its entries back from the first on, every *)
(* other one uses the first entries of its table without a gap; a page is  *)
(* free or mapped, and both only between the two statements that move it;  *)
(* a pid is free, or its process exists, and both only while the process   *)
(* is taken apart.                                                         *)
(***************************************************************************)
EXTENDS KernelCalls, LayoutLemmas, RingLemmas

-----------------------------------------------------------------------------
(* The invariant. *)

\* The call takes the process p apart.
Destroying(p) ==
  call.proc = p /\ call.at \in {"scan", "recycle", "discount", "rebuild"}

\* The entries before it have been given back.
FirstUsed(p) ==
  IF Destroying(p) THEN IF call.at = "discount" THEN call.i + 1 ELSE call.i ELSE 0

PageOf(p, e) == PCBs[p].page_table.table[e]
Used(p)      == PCBs[p].page_table.size
Listed(p)    == PCBs[p].page_table.queue

CallTyped ==
  /\ call = [at |-> call.at, proc |-> call.proc, bytes |-> call.bytes, n |-> call.n, i |-> call.i]
  /\ call.proc \in Pids
  /\ call.i \in Nat
  /\ Destroying(call.proc) => call.i <= PAGE_CAPACITY
  /\ call.at \in {"recycle", "discount"} => call.i < PAGE_CAPACITY
  /\ call.at = "rebuild" => call.i = PAGE_CAPACITY

\* The list of a page table, whose tail may lie behind the buffer.
EntryRing ==
  [ptr : [0 .. PAGE_CAPACITY -> Entries \cup {UNSET}], capacity : {PAGE_CAPACITY},
   size : 0 .. PAGE_CAPACITY, head : 0 .. PAGE_CAPACITY - 1, tail : 0 .. PAGE_CAPACITY]

PageTable ==
  [table : [Entries -> UserPages \cup {PAGE_NOT_USED}], size : 0 .. PAGE_CAPACITY,
   queue : EntryRing]

PCBsTyped ==
  PCBs \in [Pids -> [pid : Pids \cup {MAX_PID}, status : {"Undefined", "Ready"},
                     page_table : PageTable]]

\* The list of a page table is as long as there are free entries, and, until
\* entries come back, names them in order.
EntriesListed ==
  \A p \in Pids :
    /\ Listed(p).size = PAGE_CAPACITY - Used(p)
    /\ ~Destroying(p) => /\ \A i \in Entries : Listed(p).ptr[i] = i
                         /\ Listed(p).head = Used(p) % PAGE_CAPACITY

\* The entries in use follow each other.
EntriesUsed ==
  \A p \in Pids :
    /\ FirstUsed(p) + Used(p) <= PAGE_CAPACITY
    /\ \A e \in Entries :
         PageOf(p, e) # PAGE_NOT_USED <=> FirstUsed(p) <= e /\ e < FirstUsed(p) + Used(p)

\* The free pages: a ring whose word behind the buffer was never written.
FreeRing ==
  /\ IsRing(mem_queue, NUM_OF_PAGE_FOR_USER, UserPages \cup {UNSET})
  /\ mem_queue.ptr[NUM_OF_PAGE_FOR_USER] = UNSET
  /\ Holds(mem_queue, UserPages)

\* No page is mapped twice.
MappedOnce ==
  \A p, r \in Pids, e, f \in Entries :
    PageOf(p, e) = PageOf(r, f) /\ PageOf(p, e) # PAGE_NOT_USED => p = r /\ e = f

\* The k-th free page is being moved into, or has just come from, the entry e.
Moving(k, p, e) ==
  /\ p = call.proc
  /\ \/ call.at = "pop" /\ k = 1 /\ e = Used(p) - 1
     \/ call.at = "recycle" /\ k = mem_queue.size /\ e = call.i

MoveTyped ==
  /\ call.at = "pop" => mem_queue.size >= 1 /\ Used(call.proc) >= 1
  /\ call.at = "recycle" => mem_queue.size >= 1

FreeAndMapped ==
  \A k \in 1 .. mem_queue.size, p \in Pids, e \in Entries :
    Entry(mem_queue, k) = PageOf(p, e) <=> Moving(k, p, e)

FreeOrMapped ==
  \A page \in UserPages :
    \/ \E k \in 1 .. mem_queue.size : Entry(mem_queue, k) = page
    \/ \E p \in Pids, e \in Entries : PageOf(p, e) = page

\* The free pids, likewise.
PidRing ==
  /\ IsRing(pidQueue, MAX_PID, Pids \cup {UNSET})
  /\ pidQueue.ptr[MAX_PID] = UNSET
  /\ Holds(pidQueue, Pids)

FreePids ==
  /\ \A p \in Pids : PCBs[p].pid \in {p, MAX_PID}
  /\ Destroying(call.proc) => PCBs[call.proc].pid # MAX_PID
  /\ \A k \in 1 .. pidQueue.size :
       PCBs[Entry(pidQueue, k)].pid = MAX_PID \/ Destroying(Entry(pidQueue, k))

CallsInv ==
  /\ CallTyped /\ PCBsTyped /\ EntriesListed /\ EntriesUsed
  /\ FreeRing /\ MappedOnce /\ MoveTyped /\ FreeAndMapped /\ FreeOrMapped
  /\ PidRing /\ FreePids

-----------------------------------------------------------------------------
(* Sizes and types. *)

LEMMA Sizes ==
  /\ MAX_PID \in Nat \ {0} /\ PAGE_CAPACITY \in Nat \ {0}
  /\ NUM_OF_PAGE_FOR_USER \in Nat \ {0}
  /\ BASE_MOD \in Nat \ {0} /\ PAGE_CAPACITY < BASE_MOD
  /\ Pids = 0 .. MAX_PID - 1 /\ MAX_PID \notin Pids /\ 0 \in Pids
  /\ Entries = 0 .. PAGE_CAPACITY - 1
  /\ PAGE_NOT_USED \notin UserPages
BY KernelAssumption, PageNotUsed DEF Pids, Entries

LEMMA PidsCount ==
  IsFiniteSet(Pids) /\ Cardinality(Pids) = MAX_PID
<1>1. 0 \in Int /\ MAX_PID - 1 \in Int /\ MAX_PID \in Nat \ {0} /\ Pids = 0 .. MAX_PID - 1
  BY Sizes
<1>2. /\ IsFiniteSet(0 .. MAX_PID - 1)
      /\ Cardinality(0 .. MAX_PID - 1) = IF 0 > MAX_PID - 1 THEN 0 ELSE MAX_PID - 1 - 0 + 1
  BY <1>1, FS_Interval
<1> QED BY <1>1, <1>2

\* The fields of a control block.
LEMMA Fields ==
  ASSUME PCBsTyped, NEW p \in Pids
  PROVE  /\ PCBs[p].pid \in Pids \cup {MAX_PID}
         /\ PCBs[p].status \in {"Undefined", "Ready"}
         /\ PCBs[p].page_table \in PageTable
         /\ PCBs[p] = [pid |-> PCBs[p].pid, status |-> PCBs[p].status,
                       page_table |-> PCBs[p].page_table]
         /\ PCBs[p].page_table = [table |-> PCBs[p].page_table.table, size |-> Used(p),
                                  queue |-> Listed(p)]
         /\ PCBs[p].page_table.table \in [Entries -> UserPages \cup {PAGE_NOT_USED}]
         /\ Used(p) \in 0 .. PAGE_CAPACITY
         /\ Listed(p) \in EntryRing
         /\ \A e \in Entries : PageOf(p, e) \in UserPages \cup {PAGE_NOT_USED}
<1>1. PCBs[p] \in [pid : Pids \cup {MAX_PID}, status : {"Undefined", "Ready"},
                   page_table : PageTable]
  BY DEF PCBsTyped
<1>2. PCBs[p].page_table \in PageTable
  BY <1>1
<1>3. /\ PCBs[p].page_table.table \in [Entries -> UserPages \cup {PAGE_NOT_USED}]
      /\ Used(p) \in 0 .. PAGE_CAPACITY /\ Listed(p) \in EntryRing
      /\ PCBs[p].page_table = [table |-> PCBs[p].page_table.table, size |-> Used(p),
                               queue |-> Listed(p)]
  BY <1>2 DEF PageTable, Used, Listed
<1>4. \A e \in Entries : PageOf(p, e) \in UserPages \cup {PAGE_NOT_USED}
  BY <1>3 DEF PageOf
<1> QED BY <1>1, <1>2, <1>3, <1>4

\* The ring a queue is after its elements have been pushed one by one.
LEMMA PushedRing ==
  ASSUME NEW C \in Nat \ {0}, NEW R, NEW arr \in Seq(R), Len(arr) = C,
         NEW ring, ring = Pushed(C, arr)
  PROVE  /\ IsRing(ring, C, R \cup {UNSET})
         /\ ring.ptr[C] = UNSET
         /\ ring.size = C
         /\ \A k \in 1 .. C : Entry(ring, k) = arr[k]
<1>1. \A k \in 1 .. C : arr[k] \in R
  BY ElementOfSeq
<1>2. ring = [ptr |-> [i \in 0 .. C |-> IF i < C THEN arr[i + 1] ELSE UNSET],
              capacity |-> C, size |-> C, head |-> 0, tail |-> C % C]
  BY DEF Pushed, initQueueByArray, creatQueue
<1>3. C \in 0 .. 2 * C - 1 /\ 0 + C = C
  OBVIOUS
<1>4. C % C = 0
  BY <1>3, Wrap
<1>5. [i \in 0 .. C |-> IF i < C THEN arr[i + 1] ELSE UNSET] \in [0 .. C -> R \cup {UNSET}]
  BY <1>1
<1>6. IsRing(ring, C, R \cup {UNSET})
  BY <1>2, <1>3, <1>4, <1>5 DEF IsRing
<1>7. ASSUME NEW k \in 1 .. C
      PROVE  Entry(ring, k) = arr[k]
  <2>1. k - 1 \in 0 .. 2 * C - 1 /\ k - 1 < C /\ 0 + k - 1 = k - 1 /\ (k - 1) + 1 = k
        /\ k - 1 \in 0 .. C
    OBVIOUS
  <2>2. (k - 1) % C = k - 1
    BY <2>1, Wrap
  <2>3. Entry(ring, k) = ring.ptr[(0 + k - 1) % C]
    BY <1>2 DEF Entry
  <2>4. Entry(ring, k) = ring.ptr[k - 1]
    BY <2>1, <2>2, <2>3
  <2> QED BY <1>2, <2>1, <2>4
<1> QED BY <1>2, <1>6, <1>7

\* A new page table: nothing in use, all entries listed in order.
LEMMA NewTable ==
  /\ creatPageTbale \in PageTable
  /\ creatPageTbale.size = 0
  /\ \A e \in Entries : creatPageTbale.table[e] = PAGE_NOT_USED
  /\ creatPageTbale.queue.size = PAGE_CAPACITY
  /\ creatPageTbale.queue.head = 0
  /\ \A i \in Entries : creatPageTbale.queue.ptr[i] = i
<1> DEFINE C == PAGE_CAPACITY
           arr == [k \in 1 .. C |-> k - 1]
           ring == initQueueByArray(creatQueue(C), arr)
<1>1. C \in Nat \ {0} /\ Entries = 0 .. C - 1
  BY Sizes
<1>2. arr \in Seq(Entries) /\ Len(arr) = C
  BY <1>1
<1>3. ring = [ptr |-> [i \in 0 .. C |-> IF i < C THEN arr[i + 1] ELSE UNSET],
              capacity |-> C, size |-> C, head |-> 0, tail |-> C]
  <2> HIDE DEF arr, C
  <2> QED BY <1>2 DEF initQueueByArray, creatQueue
<1>4. creatPageTbale = [table |-> [i \in Entries |-> PAGE_NOT_USED], size |-> 0, queue |-> ring]
  BY DEF creatPageTbale
<1> HIDE DEF ring
<1>5. \A i \in Entries : i + 1 \in 1 .. C /\ i \in 0 .. C /\ i < C /\ (i + 1) - 1 = i
  BY <1>1
<1>6. \A i \in Entries : ring.ptr[i] = i
  BY <1>3, <1>5
<1>7. ring \in EntryRing
  <2>1. [i \in 0 .. C |-> IF i < C THEN arr[i + 1] ELSE UNSET] \in [0 .. C -> Entries \cup {UNSET}]
    BY <1>1
  <2> HIDE DEF arr
  <2> QED BY <1>1, <1>3, <2>1 DEF EntryRing
<1>8. creatPageTbale \in PageTable
  BY <1>1, <1>4, <1>7 DEF PageTable
<1>9. ring.size = C /\ ring.head = 0
  BY <1>3
<1> QED BY <1>4, <1>6, <1>8, <1>9

-----------------------------------------------------------------------------
\* The free lists start full, the page tables empty.
LEMMA InitCalls ==
  Init => CallsInv
<1> SUFFICES ASSUME Init
             PROVE  CallsInv
  OBVIOUS
<1> DEFINE N == NUM_OF_PAGE_FOR_USER
           pages == SortedBy(UserPages, BootKey)
           pids == [k \in 1 .. MAX_PID |-> k - 1]
<1>1. call = NoCall /\ call.at = "idle" /\ call.proc = 0 /\ call.i = 0
  BY DEF Init, NoCall
<1>2. CallTyped /\ MoveTyped /\ \A p \in Pids : ~Destroying(p) /\ FirstUsed(p) = 0
  BY <1>1, Sizes DEF NoCall, CallTyped, MoveTyped, Destroying, FirstUsed
<1>3. /\ N \in Nat \ {0} /\ pages \in [1 .. N -> UserPages]
      /\ \A j, k \in 1 .. N : pages[j] = pages[k] => j = k
      /\ \A x \in UserPages : \E k \in 1 .. N : pages[k] = x
  BY Sizes, UserPagesCount, BootKeyDistinct, SortedByLists
<1>4. mem_queue = Pushed(N, pages) /\ pidQueue = Pushed(MAX_PID, pids)
  BY DEF Init
<1>5. pids \in [1 .. MAX_PID -> Pids] /\ \A j, k \in 1 .. MAX_PID : pids[j] = pids[k] => j = k
  BY Sizes
<1> HIDE DEF pages, pids
<1>b. MAX_PID \in Nat \ {0}
  BY Sizes
<1>a. pages \in Seq(UserPages) /\ Len(pages) = N /\ pids \in Seq(Pids) /\ Len(pids) = MAX_PID
  BY <1>3, <1>5, Sizes
<1>6. /\ IsRing(mem_queue, N, UserPages \cup {UNSET}) /\ mem_queue.ptr[N] = UNSET
      /\ mem_queue.size = N /\ \A k \in 1 .. N : Entry(mem_queue, k) = pages[k]
  BY <1>a, <1>3, <1>4, PushedRing
<1>7. FreeRing
  BY <1>3, <1>6 DEF FreeRing, Holds
<1>8. /\ IsRing(pidQueue, MAX_PID, Pids \cup {UNSET}) /\ pidQueue.ptr[MAX_PID] = UNSET
      /\ pidQueue.size = MAX_PID /\ \A k \in 1 .. MAX_PID : Entry(pidQueue, k) = pids[k]
  BY <1>a, <1>b, <1>4, PushedRing
<1>9. PidRing
  BY <1>5, <1>8 DEF PidRing, Holds
<1>10. PCBs = [p \in Pids |->
                 [pid |-> MAX_PID, status |-> "Undefined", page_table |-> creatPageTbale]]
  BY DEF Init
<1>11. PCBsTyped
  BY <1>10, NewTable DEF PCBsTyped
<1>12. \A p \in Pids : PCBs[p].pid = MAX_PID /\ PCBs[p].page_table = creatPageTbale
  BY <1>10
<1>13. \A p \in Pids : Used(p) = 0 /\ \A e \in Entries : PageOf(p, e) = PAGE_NOT_USED
  BY <1>12, NewTable DEF Used, PageOf
<1>14. EntriesListed
  <2>1. 0 % PAGE_CAPACITY = 0 /\ PAGE_CAPACITY - 0 = PAGE_CAPACITY
    BY Sizes
  <2>2. \A p \in Pids : /\ Listed(p).size = PAGE_CAPACITY /\ Listed(p).head = 0
                        /\ \A i \in Entries : Listed(p).ptr[i] = i
    BY <1>12, NewTable DEF Listed
  <2> QED BY <1>13, <2>1, <2>2 DEF EntriesListed
<1>15. EntriesUsed
  BY <1>2, <1>13, Sizes DEF EntriesUsed
<1>16. MappedOnce
  BY <1>13 DEF MappedOnce
<1>17. FreeAndMapped
  <2>1. \A k \in 1 .. mem_queue.size : Entry(mem_queue, k) # PAGE_NOT_USED
    BY <1>7, Sizes DEF FreeRing, Holds
  <2>2. \A k, p, e : ~Moving(k, p, e)
    BY <1>1 DEF Moving
  <2> QED BY <1>13, <2>1, <2>2 DEF FreeAndMapped
<1>18. FreeOrMapped
  BY <1>3, <1>6 DEF FreeOrMapped
<1>19. FreePids
  BY <1>2, <1>5, <1>8, <1>12, Sizes, <1>1 DEF FreePids
<1> QED BY <1>2, <1>7, <1>9, <1>11, <1>14, <1>15, <1>16, <1>17, <1>18, <1>19 DEF CallsInv

-----------------------------------------------------------------------------
(* Steps that leave the lists and the tables alone. *)

LEMMA Stay ==
  ASSUME CallsInv, UNCHANGED <<mem_queue, pidQueue, PCBs, call>>
  PROVE  CallsInv'
BY DEF CallsInv, CallTyped, PCBsTyped, EntriesListed, EntriesUsed, FreeRing, MappedOnce,
       MoveTyped, FreeAndMapped, FreeOrMapped, PidRing, FreePids, Moving, Destroying,
       FirstUsed, PageOf, Used, Listed, IsRing, Holds, Entry

\* The call goes on, but no process is further or less far destroyed by it.
LEMMA Quiet ==
  ASSUME CallsInv, CallTyped', UNCHANGED <<mem_queue, pidQueue, PCBs>>,
         call.at \notin {"pop", "recycle"}, call'.at \notin {"pop", "recycle"},
         \A p \in Pids : /\ Destroying(p)' <=> Destroying(p)
                         /\ Used(p) # 0 \/ ~Destroying(p) => FirstUsed(p)' = FirstUsed(p)
                         /\ FirstUsed(p)' + Used(p) <= PAGE_CAPACITY
  PROVE  CallsInv'
<1>1. \A p \in Pids : /\ Used(p)' = Used(p) /\ Listed(p)' = Listed(p)
                      /\ \A e \in Entries : PageOf(p, e)' = PageOf(p, e)
  BY DEF Used, Listed, PageOf
<1>2. PCBsTyped'
  BY DEF CallsInv, PCBsTyped
<1>3. EntriesListed'
  BY <1>1 DEF CallsInv, EntriesListed
<1>4. EntriesUsed'
  <2> SUFFICES ASSUME NEW p \in Pids
               PROVE  /\ FirstUsed(p)' + Used(p)' <= PAGE_CAPACITY
                      /\ \A e \in Entries : PageOf(p, e)' # PAGE_NOT_USED
                           <=> FirstUsed(p)' <= e /\ e < FirstUsed(p)' + Used(p)'
    BY DEF EntriesUsed
  <2>1. \A e \in Entries : PageOf(p, e) # PAGE_NOT_USED
          <=> FirstUsed(p) <= e /\ e < FirstUsed(p) + Used(p)
    BY DEF CallsInv, EntriesUsed
  <2>2. CASE Used(p) # 0 \/ ~Destroying(p)
    BY <1>1, <2>1, <2>2
  <2>3. CASE Used(p) = 0
    <3>1. FirstUsed(p) \in Nat /\ FirstUsed(p)' \in Nat
      BY DEF FirstUsed, CallsInv, CallTyped
    <3>2. \A e \in Entries : PageOf(p, e) = PAGE_NOT_USED
      BY <2>1, <2>3, <3>1, Sizes
    <3> QED BY <1>1, <2>3, <3>1, <3>2, Sizes
  <2> QED BY <2>2, <2>3
<1>5. FreeRing' /\ PidRing'
  BY DEF CallsInv, FreeRing, PidRing, IsRing, Holds, Entry
<1>6. MappedOnce'
  BY <1>1 DEF CallsInv, MappedOnce
<1>7. \A k : Entry(mem_queue, k)' = Entry(mem_queue, k)
  BY DEF Entry
<1>8. \A k, p, e : ~Moving(k, p, e) /\ ~Moving(k, p, e)'
  BY DEF Moving
<1>9. FreeAndMapped'
  BY <1>1, <1>7, <1>8 DEF CallsInv, FreeAndMapped
<1>10. FreeOrMapped'
  BY <1>1, <1>7 DEF CallsInv, FreeOrMapped
<1>11. MoveTyped'
  BY DEF MoveTyped
<1>12. FreePids'
  <2>1. \A k \in 1 .. pidQueue.size : Entry(pidQueue, k) \in Pids
    BY DEF CallsInv, PidRing, Holds
  <2>2. \A k : Entry(pidQueue, k)' = Entry(pidQueue, k)
    BY DEF Entry
  <2>3. call'.proc \in Pids
    BY DEF CallTyped
  <2>4. Destroying(call.proc)' => call'.proc = call.proc /\ Destroying(call.proc)
    BY <2>3 DEF Destroying
  <2>5. Destroying(call.proc)' => PCBs'[call'.proc].pid # MAX_PID
    BY <2>4 DEF CallsInv, FreePids
  <2> QED BY <2>1, <2>2, <2>5 DEF CallsInv, FreePids
<1> QED BY <1>2, <1>3, <1>4, <1>5, <1>6, <1>9, <1>10, <1>11, <1>12 DEF CallsInv

-----------------------------------------------------------------------------
(* What the steps do to the tables and lists. *)

\* One control block gets another page table.
LEMMA TableReplaced ==
  ASSUME PCBsTyped, NEW p \in Pids, NEW pt \in PageTable,
         PCBs' = [PCBs EXCEPT ![p].page_table = pt]
  PROVE  /\ PCBsTyped'
         /\ PCBs'[p].page_table = pt
         /\ \A r \in Pids : r # p => PCBs'[r] = PCBs[r]
         /\ \A r \in Pids : PCBs'[r].pid = PCBs[r].pid /\ PCBs'[r].status = PCBs[r].status
<1>1. PCBs[p] = [pid |-> PCBs[p].pid, status |-> PCBs[p].status, page_table |-> PCBs[p].page_table]
      /\ PCBs[p].pid \in Pids \cup {MAX_PID} /\ PCBs[p].status \in {"Undefined", "Ready"}
  BY Fields
<1>2. \A r \in Pids : PCBs'[r] = IF r = p THEN [PCBs[p] EXCEPT !.page_table = pt] ELSE PCBs[r]
  BY DEF PCBsTyped
<1>3. [PCBs[p] EXCEPT !.page_table = pt]
        = [pid |-> PCBs[p].pid, status |-> PCBs[p].status, page_table |-> pt]
  BY <1>1
<1>4. PCBsTyped'
  <2>1. [PCBs[p] EXCEPT !.page_table = pt]
          \in [pid : Pids \cup {MAX_PID}, status : {"Undefined", "Ready"}, page_table : PageTable]
    BY <1>1, <1>3
  <2> QED BY <2>1 DEF PCBsTyped
<1> QED BY <1>1, <1>2, <1>3, <1>4

\* The free list of pages before a step.
LEMMA FreeFacts ==
  ASSUME CallsInv
  PROVE  /\ IsRing(mem_queue, NUM_OF_PAGE_FOR_USER, UserPages \cup {UNSET})
         /\ mem_queue.size \in Nat
         /\ \A k \in 1 .. mem_queue.size :
              Entry(mem_queue, k) \in UserPages /\ Entry(mem_queue, k) # PAGE_NOT_USED
         /\ \A j, k \in 1 .. mem_queue.size : Entry(mem_queue, j) = Entry(mem_queue, k) => j = k
<1>1. IsRing(mem_queue, NUM_OF_PAGE_FOR_USER, UserPages \cup {UNSET})
  BY DEF CallsInv, FreeRing
<1>2. mem_queue.size \in 0 .. NUM_OF_PAGE_FOR_USER /\ NUM_OF_PAGE_FOR_USER \in Nat
  BY <1>1, RingFields
<1> QED BY <1>1, <1>2, Sizes DEF CallsInv, FreeRing, Holds

-----------------------------------------------------------------------------
(* Loading and growing. *)

\* The first free page is written into the first free entry.
LEMMA WriteEffect ==
  ASSUME CallsInv, At("write"), ~queue_empty(mem_queue), ~queue_empty(Table.queue),
         PCBs' = [PCBs EXCEPT ![call.proc].page_table = writePageTable(@, queue_front(mem_queue))],
         NEW p, p = call.proc, NEW s, s = Used(p), NEW page, page = queue_front(mem_queue)
  PROVE  /\ p \in Pids /\ s \in Entries /\ s + 1 \in 0 .. PAGE_CAPACITY
         /\ 1 \in 1 .. mem_queue.size /\ page = Entry(mem_queue, 1) /\ page \in UserPages
         /\ PCBsTyped'
         /\ \A r \in Pids : r # p => PCBs'[r] = PCBs[r]
         /\ \A r \in Pids : PCBs'[r].pid = PCBs[r].pid /\ PCBs'[r].status = PCBs[r].status
         /\ \A r \in Pids, e \in Entries :
              PageOf(r, e)' = IF r = p /\ e = s THEN page ELSE PageOf(r, e)
         /\ \A r \in Pids : r # p => Used(r)' = Used(r) /\ Listed(r)' = Listed(r)
         /\ Used(p)' = s + 1
         /\ Listed(p)'.size = PAGE_CAPACITY - (s + 1)
         /\ Listed(p)'.head = (s + 1) % PAGE_CAPACITY
         /\ \A i \in Entries : Listed(p)'.ptr[i] = i
<1>l. PICK list : list = Listed(p)
  OBVIOUS
<1>t. PICK pt : pt = writePageTable(PCBs[p].page_table, page)
  OBVIOUS
<1> DEFINE C == PAGE_CAPACITY
<1>1. /\ p \in Pids /\ C \in Nat \ {0} /\ s \in 0 .. C /\ list \in EntryRing
      /\ PCBs[p].page_table = [table |-> PCBs[p].page_table.table, size |-> s, queue |-> list]
      /\ PCBs[p].page_table.table \in [Entries -> UserPages \cup {PAGE_NOT_USED}]
  BY <1>l, Fields, Sizes DEF CallsInv, CallTyped
<1>3. ~Destroying(p)
  BY DEF At, Destroying
<1>4. list.size = C - s /\ list.size # 0 /\ (\A i \in Entries : list.ptr[i] = i) /\ list.head = s % C
  BY <1>l, <1>1, <1>3 DEF CallsInv, EntriesListed, queue_empty, Table, Listed
<1>5. s \in 0 .. C - 1 /\ s \in Entries /\ s + 1 \in 0 .. C
  BY <1>1, <1>4, Sizes
<1>6. queue_front(list) = s
  <2>1. s \in 0 .. 2 * C - 1
    BY <1>1, <1>5
  <2>2. s % C = s
    BY <1>1, <1>5, <2>1, Wrap
  <2> QED BY <1>4, <1>5, <2>2 DEF queue_front
<1>7. /\ page = Entry(mem_queue, 1) /\ 1 \in 1 .. mem_queue.size /\ page \in UserPages
      /\ mem_queue.size \in Nat
  <2>1. mem_queue.size \in Nat /\ mem_queue.size # 0
    BY FreeFacts DEF queue_empty
  <2>2. page = Entry(mem_queue, 1)
    BY FreeFacts, Front
  <2> QED BY <2>1, <2>2, FreeFacts
<1>8. queue_pop(list) = [ptr |-> list.ptr, capacity |-> C, size |-> C - (s + 1),
                         head |-> (s + 1) % C, tail |-> list.tail]
      /\ queue_pop(list) \in EntryRing
  <2>1. /\ list = [ptr |-> list.ptr, capacity |-> list.capacity, size |-> list.size,
                   head |-> list.head, tail |-> list.tail]
        /\ list.capacity = C
        /\ list.ptr \in [0 .. C -> Entries \cup {UNSET}] /\ list.tail \in 0 .. C
    BY <1>1 DEF EntryRing
  <2>2. list.head = s
    BY <1>1, <1>4, <1>5, Wrap
  <2>3. queue_pop(list) = [ptr |-> list.ptr, capacity |-> C, size |-> list.size - 1,
                           head |-> (list.head + 1) % C, tail |-> list.tail]
    <3>1. queue_pop(list) = [list EXCEPT !.head = (@ + 1) % list.capacity, !.size = @ - 1]
      BY DEF queue_pop
    <3> QED BY <2>1, <3>1
  <2>4. (C - s) - 1 = C - (s + 1) /\ C - (s + 1) \in 0 .. C
    BY <1>1, <1>5
  <2>5. (s + 1) % C \in 0 .. C - 1
    BY <1>1, <1>5, ModRange
  <2>6. queue_pop(list) = [ptr |-> list.ptr, capacity |-> C, size |-> C - (s + 1),
                           head |-> (s + 1) % C, tail |-> list.tail]
    BY <1>4, <2>2, <2>3, <2>4
  <2> QED BY <2>1, <2>4, <2>5, <2>6 DEF EntryRing
<1>9. pt = [table |-> [PCBs[p].page_table.table EXCEPT ![s] = page], size |-> s + 1,
            queue |-> queue_pop(list)]
      /\ pt \in PageTable
  <2>1. pt = [table |-> [PCBs[p].page_table.table EXCEPT ![s] = page], size |-> s + 1,
              queue |-> queue_pop(list)]
    BY <1>l, <1>t, <1>6 DEF writePageTable, Used, Listed
  <2>2. [PCBs[p].page_table.table EXCEPT ![s] = page] \in [Entries -> UserPages \cup {PAGE_NOT_USED}]
    BY <1>1, <1>5, <1>7
  <2> QED BY <1>5, <1>8, <2>1, <2>2 DEF PageTable
<1>10. /\ PCBsTyped' /\ PCBs'[p].page_table = pt
       /\ \A r \in Pids : r # p => PCBs'[r] = PCBs[r]
       /\ \A r \in Pids : PCBs'[r].pid = PCBs[r].pid /\ PCBs'[r].status = PCBs[r].status
  <2>1. PCBs' = [PCBs EXCEPT ![p].page_table = pt]
    BY <1>t
  <2>2. PCBsTyped
    BY DEF CallsInv
  <2>3. p \in Pids /\ pt \in PageTable
    BY <1>1, <1>9
  <2> QED BY <2>1, <2>2, <2>3, TableReplaced
<1>11. \A r \in Pids, e \in Entries :
         PageOf(r, e)' = IF r = p /\ e = s THEN page ELSE PageOf(r, e)
  BY <1>1, <1>5, <1>9, <1>10 DEF PageOf
<1>12. \A r \in Pids : r # p => Used(r)' = Used(r) /\ Listed(r)' = Listed(r)
  BY <1>10 DEF Used, Listed
<1>13. /\ Used(p)' = s + 1 /\ Listed(p)'.size = C - (s + 1) /\ Listed(p)'.head = (s + 1) % C
       /\ \A i \in Entries : Listed(p)'.ptr[i] = i
  BY <1>4, <1>8, <1>9, <1>10 DEF Used, Listed
<1> QED BY <1>1, <1>5, <1>7, <1>10, <1>11, <1>12, <1>13

\* A page that is free becomes mapped as well.
LEMMA WriteStep ==
  ASSUME CallsInv, At("write"), ~queue_empty(mem_queue), ~queue_empty(Table.queue),
         PCBs' = [PCBs EXCEPT ![call.proc].page_table = writePageTable(@, queue_front(mem_queue))],
         call' = [call EXCEPT !.at = "pop"], UNCHANGED <<mem_queue, pidQueue>>
  PROVE  CallsInv'
<1>p. PICK p : p = call.proc
  OBVIOUS
<1>s. PICK s : s = Used(p)
  OBVIOUS
<1>g. PICK page : page = queue_front(mem_queue)
  OBVIOUS
<1> DEFINE C == PAGE_CAPACITY
<1>1. p \in Pids /\ C \in Nat \ {0} /\ s \in 0 .. C
  BY <1>p, <1>s, Fields, Sizes DEF CallsInv, CallTyped
<1>2. /\ call.at = "write" /\ call'.at = "pop" /\ call'.proc = call.proc /\ call'.i = call.i
      /\ CallTyped'
  BY DEF At, CallsInv, CallTyped, Destroying
<1>3. \A r \in Pids : /\ ~Destroying(r) /\ ~Destroying(r)'
                      /\ FirstUsed(r) = 0 /\ FirstUsed(r)' = 0
  BY <1>2 DEF Destroying, FirstUsed
<1>5. s \in 0 .. C - 1 /\ s \in Entries /\ s + 1 \in 0 .. C
  BY <1>p, <1>s, <1>g, WriteEffect, Sizes
<1>7. /\ page = Entry(mem_queue, 1) /\ 1 \in 1 .. mem_queue.size /\ page \in UserPages
      /\ mem_queue.size \in Nat
  BY <1>p, <1>s, <1>g, WriteEffect, FreeFacts
<1>10. /\ PCBsTyped'
       /\ \A r \in Pids : r # p => PCBs'[r] = PCBs[r]
       /\ \A r \in Pids : PCBs'[r].pid = PCBs[r].pid
  BY <1>p, <1>s, <1>g, WriteEffect
<1>11. \A r \in Pids, e \in Entries :
         PageOf(r, e)' = IF r = p /\ e = s THEN page ELSE PageOf(r, e)
  BY <1>p, <1>s, <1>g, WriteEffect
<1>12. \A r \in Pids : r # p => Used(r)' = Used(r) /\ Listed(r)' = Listed(r)
  BY <1>p, <1>s, <1>g, WriteEffect
<1>13. /\ Used(p)' = s + 1 /\ Listed(p)'.size = C - (s + 1) /\ Listed(p)'.head = (s + 1) % C
       /\ \A i \in Entries : Listed(p)'.ptr[i] = i
  BY <1>p, <1>s, <1>g, WriteEffect
<1>14. EntriesListed'
  BY <1>3, <1>12, <1>13 DEF CallsInv, EntriesListed
<1>15. EntriesUsed'
  <2>1. \A r \in Pids, e \in Entries : PageOf(r, e) # PAGE_NOT_USED <=> 0 <= e /\ e < 0 + Used(r)
    BY <1>3 DEF CallsInv, EntriesUsed
  <2>2. page # PAGE_NOT_USED
    BY <1>7, Sizes
  <2>3. \A e \in Entries : PageOf(p, e)' # PAGE_NOT_USED <=> 0 <= e /\ e < 0 + (s + 1)
    BY <1>1, <1>5, <1>11, <2>1, <2>2, <1>s, Sizes
  <2>4. \A r \in Pids : 0 + Used(r) <= PAGE_CAPACITY
    BY <1>3 DEF CallsInv, EntriesUsed
  <2>5. 0 + (s + 1) <= PAGE_CAPACITY
    BY <1>5, Sizes
  <2> QED BY <1>3, <1>11, <1>12, <1>13, <2>1, <2>3, <2>4, <2>5 DEF EntriesUsed
<1>16. \A k : Entry(mem_queue, k)' = Entry(mem_queue, k)
  BY DEF Entry
<1>17. \A k \in 1 .. mem_queue.size, r \in Pids, e \in Entries : Entry(mem_queue, k) # PageOf(r, e)
  BY <1>2 DEF CallsInv, FreeAndMapped, Moving
<1>18. MappedOnce'
  <2>1. \A r \in Pids, e \in Entries : PageOf(r, e) # page
    BY <1>7, <1>17
  <2> QED BY <1>11, <2>1 DEF CallsInv, MappedOnce
<1>19. \A k, r, e : Moving(k, r, e)' <=> r = p /\ k = 1 /\ e = s
  <2>1. (s + 1) - 1 = s
    BY <1>1
  <2>2. \A r : r = p => Used(r)' = s + 1
    BY <1>13
  <2> QED BY <1>p, <1>2, <2>1, <2>2 DEF Moving
<1>20. FreeAndMapped'
  <2>1. \A k \in 1 .. mem_queue.size : Entry(mem_queue, k) = page <=> k = 1
    BY <1>7, FreeFacts
  <2> QED BY <1>11, <1>16, <1>17, <1>19, <2>1 DEF FreeAndMapped
<1>21. FreeOrMapped'
  <2>1. ASSUME NEW x \in UserPages, NEW r \in Pids, NEW e \in Entries, PageOf(r, e) = x
        PROVE  \E q \in Pids, f \in Entries : PageOf(q, f)' = x
    <3>1. r # p \/ e # s
      <4>1. PageOf(p, s) = PAGE_NOT_USED
        BY <1>s, <1>1, <1>3, <1>5, Sizes DEF CallsInv, EntriesUsed
      <4> QED BY <2>1, <4>1, Sizes
    <3> QED BY <1>11, <2>1, <3>1
  <2> QED BY <1>16, <2>1 DEF CallsInv, FreeOrMapped
<1>22. MoveTyped'
  BY <1>p, <1>1, <1>2, <1>7, <1>13 DEF MoveTyped
<1>23. FreeRing' /\ PidRing'
  BY DEF CallsInv, FreeRing, PidRing, IsRing, Holds, Entry
<1>24. FreePids'
  <2>1. \A k \in 1 .. pidQueue.size : Entry(pidQueue, k) \in Pids
    BY DEF CallsInv, PidRing, Holds
  <2>2. \A k : Entry(pidQueue, k)' = Entry(pidQueue, k)
    BY DEF Entry
  <2> QED BY <1>p, <1>1, <1>2, <1>3, <1>10, <2>1, <2>2 DEF CallsInv, FreePids
<1> QED BY <1>2, <1>10, <1>14, <1>15, <1>18, <1>20, <1>21, <1>22, <1>23, <1>24 DEF CallsInv

\* The page that is mapped is no longer free.
LEMMA PopStep ==
  ASSUME CallsInv, Pop
  PROVE  CallsInv'
<1>p. PICK p : p = call.proc
  OBVIOUS
<1> DEFINE N == NUM_OF_PAGE_FOR_USER
           S == UserPages \cup {UNSET}
<1>1. /\ call.at = "pop" /\ mem_queue' = queue_pop(mem_queue)
      /\ call' = [call EXCEPT !.i = @ + 1, !.at = IF call.i + 1 < call.n THEN "write" ELSE "count"]
      /\ UNCHANGED <<pidQueue, PCBs>>
  BY DEF Pop, At
<1>2. /\ call'.at \in {"write", "count"} /\ call'.proc = call.proc /\ call'.i = call.i + 1
      /\ CallTyped'
  <2>1. PICK place \in {"write", "count"} : call' = [call EXCEPT !.i = @ + 1, !.at = place]
    BY <1>1
  <2>2. /\ call = [at |-> call.at, proc |-> call.proc, bytes |-> call.bytes, n |-> call.n,
                   i |-> call.i]
        /\ call.i \in Nat /\ call.proc \in Pids
    BY DEF CallsInv, CallTyped
  <2>3. call' = [at |-> place, proc |-> call.proc, bytes |-> call.bytes, n |-> call.n,
                 i |-> call.i + 1]
    BY <2>1, <2>2
  <2> QED BY <2>2, <2>3 DEF CallTyped, Destroying
<1>3. \A r \in Pids : /\ ~Destroying(r) /\ ~Destroying(r)'
                      /\ FirstUsed(r) = 0 /\ FirstUsed(r)' = 0
  BY <1>1, <1>2 DEF Destroying, FirstUsed
<1>4. mem_queue.size \in Nat /\ mem_queue.size >= 1 /\ ~queue_empty(mem_queue)
  BY <1>1, FreeFacts DEF CallsInv, MoveTyped, queue_empty
<1>5. IsRing(mem_queue, N, S)
  BY FreeFacts
<1>6. /\ mem_queue'.size = mem_queue.size - 1 /\ mem_queue'.ptr = mem_queue.ptr
      /\ \A k \in 1 .. mem_queue.size - 1 : Entry(mem_queue', k) = Entry(mem_queue, k + 1)
  BY <1>1, <1>4, <1>5, PopEntries
<1>7. IsRing(mem_queue', N, S)
  BY <1>1, <1>4, <1>5, PopKeeps
<1>8. \A k \in 1 .. mem_queue.size - 1 : k + 1 \in 1 .. mem_queue.size /\ k + 1 # 1
  BY <1>4
<1>9. FreeRing'
  <2>1. \A k \in 1 .. mem_queue'.size : Entry(mem_queue', k) \in UserPages
    BY <1>6, <1>8, FreeFacts
  <2>2. \A j, k \in 1 .. mem_queue'.size : Entry(mem_queue', j) = Entry(mem_queue', k) => j = k
    <3>1. \A j, k \in 1 .. mem_queue.size - 1 : j + 1 = k + 1 => j = k
      BY <1>4
    <3> QED BY <1>6, <1>8, <3>1, FreeFacts
  <2>3. mem_queue'.ptr[N] = UNSET
    BY <1>6 DEF CallsInv, FreeRing
  <2> QED BY <1>7, <2>1, <2>2, <2>3 DEF FreeRing, Holds
<1>10. \A r \in Pids : /\ Used(r)' = Used(r) /\ Listed(r)' = Listed(r)
                       /\ \A e \in Entries : PageOf(r, e)' = PageOf(r, e)
  BY <1>1 DEF Used, Listed, PageOf
<1>11. PCBsTyped' /\ MappedOnce' /\ MoveTyped'
  BY <1>1, <1>2, <1>10 DEF CallsInv, PCBsTyped, MappedOnce, MoveTyped
<1>12. EntriesListed' /\ EntriesUsed'
  BY <1>3, <1>10 DEF CallsInv, EntriesListed, EntriesUsed
<1>13. FreeAndMapped'
  <2>1. \A k \in 1 .. mem_queue.size - 1, r \in Pids, e \in Entries :
          Entry(mem_queue, k + 1) # PageOf(r, e)
    BY <1>1, <1>8 DEF CallsInv, FreeAndMapped, Moving
  <2>2. \A k, r, e : ~Moving(k, r, e)'
    BY <1>2 DEF Moving
  <2> QED BY <1>6, <1>10, <2>1, <2>2 DEF FreeAndMapped
<1>14. FreeOrMapped'
  <2>1. \E e \in Entries : PageOf(p, e) = Entry(mem_queue, 1)
    <3>1. p \in Pids /\ Used(p) >= 1 /\ 1 \in 1 .. mem_queue.size
      BY <1>p, <1>1, <1>4 DEF CallsInv, CallTyped, MoveTyped
    <3>2. Used(p) \in 0 .. PAGE_CAPACITY
      BY <3>1, Fields DEF CallsInv
    <3>3. Used(p) - 1 \in Entries
      BY <3>1, <3>2, Sizes
    <3> QED BY <1>p, <1>1, <3>1, <3>3 DEF CallsInv, FreeAndMapped, Moving
  <2>2. ASSUME NEW x \in UserPages, NEW k \in 1 .. mem_queue.size, Entry(mem_queue, k) = x, k # 1
        PROVE  \E j \in 1 .. mem_queue'.size : Entry(mem_queue', j) = x
    <3>1. k - 1 \in 1 .. mem_queue.size - 1 /\ (k - 1) + 1 = k
      BY <1>4, <2>2
    <3> QED BY <1>6, <2>2, <3>1
  <2>3. p \in Pids
    BY <1>p DEF CallsInv, CallTyped
  <2> QED BY <1>10, <2>1, <2>2, <2>3 DEF CallsInv, FreeOrMapped
<1>15. PidRing'
  BY <1>1 DEF CallsInv, PidRing, IsRing, Holds, Entry
<1>16. FreePids'
  <2>1. \A k \in 1 .. pidQueue.size : Entry(pidQueue, k) \in Pids
    BY DEF CallsInv, PidRing, Holds
  <2>2. \A k : Entry(pidQueue, k)' = Entry(pidQueue, k)
    BY <1>1 DEF Entry
  <2>3. ~Destroying(call.proc)'
    BY <1>2 DEF Destroying
  <2> QED BY <1>1, <1>3, <2>1, <2>2, <2>3 DEF CallsInv, FreePids
<1> QED BY <1>2, <1>9, <1>11, <1>12, <1>13, <1>14, <1>15, <1>16 DEF CallsInv

\* A pid is taken, and its control block marked.
LEMMA BeginLoadStep ==
  ASSUME CallsInv, NEW bytes \in CallSizes, BeginLoad(bytes)
  PROVE  CallsInv'
<1>p. PICK p : p = queue_front(pidQueue)
  OBVIOUS
<1> DEFINE S == Pids \cup {UNSET}
<1>1. /\ call.at = "idle" /\ ~queue_empty(pidQueue) /\ pidQueue' = queue_pop(pidQueue)
      /\ call' = [at |-> "loadProgram", proc |-> p, bytes |-> bytes, n |-> byte2Page(bytes), i |-> 0]
      /\ PCBs' = [PCBs EXCEPT ![p].status = "Ready", ![p].pid = p]
      /\ UNCHANGED mem_queue
  BY <1>p DEF BeginLoad, Begin, At, memVars
<1>2. IsRing(pidQueue, MAX_PID, S) /\ pidQueue.size \in 1 .. MAX_PID /\ MAX_PID \in Nat
  <2>1. IsRing(pidQueue, MAX_PID, S)
    BY DEF CallsInv, PidRing
  <2>2. pidQueue.size \in 0 .. MAX_PID /\ MAX_PID \in Nat
    BY <2>1, RingFields
  <2> QED BY <1>1, <2>1, <2>2 DEF queue_empty
<1>3. p = Entry(pidQueue, 1) /\ 1 \in 1 .. pidQueue.size /\ p \in Pids
  <2>1. p = Entry(pidQueue, 1)
    BY <1>p, <1>2, Front
  <2> QED BY <1>2, <2>1 DEF CallsInv, PidRing, Holds
<1>4. /\ pidQueue'.size = pidQueue.size - 1 /\ pidQueue'.ptr = pidQueue.ptr
      /\ \A k \in 1 .. pidQueue.size - 1 : Entry(pidQueue', k) = Entry(pidQueue, k + 1)
  BY <1>1, <1>2, PopEntries
<1>5. IsRing(pidQueue', MAX_PID, S)
  BY <1>1, <1>2, PopKeeps
<1>6. \A k \in 1 .. pidQueue.size - 1 : k + 1 \in 1 .. pidQueue.size /\ k + 1 # 1
  BY <1>2
<1>7. /\ \A k \in 1 .. pidQueue.size : Entry(pidQueue, k) \in Pids
      /\ \A j, k \in 1 .. pidQueue.size : Entry(pidQueue, j) = Entry(pidQueue, k) => j = k
  BY DEF CallsInv, PidRing, Holds
<1>8. PidRing'
  <2>1. \A j, k \in 1 .. pidQueue.size - 1 : j + 1 = k + 1 => j = k
    BY <1>2
  <2>2. Holds(pidQueue', Pids)
    BY <1>4, <1>6, <1>7, <2>1 DEF Holds
  <2>3. pidQueue'.ptr[MAX_PID] = UNSET
    BY <1>4 DEF CallsInv, PidRing
  <2> QED BY <1>5, <2>2, <2>3 DEF PidRing
<1>9. /\ CallTyped' /\ \A r \in Pids : /\ ~Destroying(r) /\ ~Destroying(r)'
                                       /\ FirstUsed(r) = 0 /\ FirstUsed(r)' = 0
      /\ ~Destroying(call.proc)'
  BY <1>1, <1>3 DEF CallTyped, Destroying, FirstUsed
<1>10. /\ \A r \in Pids : PCBs'[r] =
            IF r = p THEN [pid |-> p, status |-> "Ready", page_table |-> PCBs[p].page_table]
            ELSE PCBs[r]
       /\ PCBsTyped'
  <2>1. PCBs[p] = [pid |-> PCBs[p].pid, status |-> PCBs[p].status, page_table |-> PCBs[p].page_table]
        /\ PCBs[p].page_table \in PageTable
    BY <1>3, Fields DEF CallsInv
  <2>2. \A r \in Pids : PCBs'[r] =
          IF r = p THEN [[PCBs[p] EXCEPT !.status = "Ready"] EXCEPT !.pid = p] ELSE PCBs[r]
    BY <1>1, <1>3 DEF CallsInv, PCBsTyped
  <2>3. [[PCBs[p] EXCEPT !.status = "Ready"] EXCEPT !.pid = p]
          = [pid |-> p, status |-> "Ready", page_table |-> PCBs[p].page_table]
    <3>1. PICK m : m = [PCBs[p] EXCEPT !.status = "Ready"]
      OBVIOUS
    <3>2. m = [pid |-> PCBs[p].pid, status |-> "Ready", page_table |-> PCBs[p].page_table]
      BY <2>1, <3>1
    <3>3. [m EXCEPT !.pid = p] = [pid |-> p, status |-> "Ready", page_table |-> PCBs[p].page_table]
      BY <3>2
    <3> QED BY <3>1, <3>3
  <2>4. PCBsTyped'
    <3>1. [pid |-> p, status |-> "Ready", page_table |-> PCBs[p].page_table]
            \in [pid : Pids \cup {MAX_PID}, status : {"Undefined", "Ready"}, page_table : PageTable]
      BY <1>3, <2>1
    <3>2. DOMAIN PCBs' = Pids /\ PCBs' = [r \in Pids |-> PCBs'[r]]
      BY <1>1 DEF CallsInv, PCBsTyped
    <3> QED BY <2>2, <2>3, <3>1, <3>2 DEF CallsInv, PCBsTyped
  <2> QED BY <2>2, <2>3, <2>4
<1>11. \A r \in Pids : /\ PCBs'[r].page_table = PCBs[r].page_table
                       /\ r # p => PCBs'[r].pid = PCBs[r].pid
  BY <1>10
<1>12. PCBs'[p].pid = p
  BY <1>3, <1>10
<1>13. \A r \in Pids : /\ Used(r)' = Used(r) /\ Listed(r)' = Listed(r)
                       /\ \A e \in Entries : PageOf(r, e)' = PageOf(r, e)
  BY <1>11 DEF Used, Listed, PageOf
<1>14. \A k, r, e : ~Moving(k, r, e) /\ ~Moving(k, r, e)'
  BY <1>1 DEF Moving
<1>15. \A k : Entry(mem_queue, k)' = Entry(mem_queue, k)
  BY <1>1 DEF Entry
<1>16. EntriesListed' /\ EntriesUsed'
  BY <1>9, <1>13 DEF CallsInv, EntriesListed, EntriesUsed
<1>17. MappedOnce' /\ MoveTyped'
  BY <1>1, <1>13 DEF CallsInv, MappedOnce, MoveTyped
<1>18. FreeAndMapped' /\ FreeOrMapped'
  BY <1>1, <1>13, <1>14, <1>15 DEF CallsInv, FreeAndMapped, FreeOrMapped
<1>19. FreeRing'
  BY <1>1 DEF CallsInv, FreeRing, IsRing, Holds, Entry
<1>20. FreePids'
  <2>1. \A k \in 1 .. pidQueue.size - 1 : Entry(pidQueue, k + 1) # p
    BY <1>3, <1>6, <1>7
  <2>2. \A k \in 1 .. pidQueue'.size : PCBs'[Entry(pidQueue', k)].pid = MAX_PID
    BY <1>4, <1>6, <1>7, <1>9, <1>11, <2>1 DEF CallsInv, FreePids
  <2> QED BY <1>9, <1>11, <1>12, <2>2 DEF CallsInv, FreePids
<1> QED BY <1>8, <1>9, <1>10, <1>16, <1>17, <1>18, <1>19, <1>20 DEF CallsInv

\* The statements of loading and growing that move no page and no pid.
LEMMA QuietLoad ==
  ASSUME CallsInv, CallTyped', UNCHANGED <<mem_queue, pidQueue, PCBs>>,
         call.at \in {"idle", "loadProgram", "allocate", "write", "count", "resize"},
         call'.at \in {"idle", "loadProgram", "allocate", "write", "count", "resize"}
  PROVE  CallsInv'
<1>1. \A p \in Pids : /\ ~Destroying(p) /\ ~Destroying(p)'
                      /\ FirstUsed(p) = 0 /\ FirstUsed(p)' = 0
  BY DEF Destroying, FirstUsed
<1>2. \A p \in Pids : 0 + Used(p) <= PAGE_CAPACITY
  BY <1>1 DEF CallsInv, EntriesUsed
<1> QED BY <1>1, <1>2, Quiet

LEMMA BeginGrowStep ==
  ASSUME CallsInv, NEW p \in Pids, NEW bytes \in CallSizes, BeginGrow(p, bytes)
  PROVE  CallsInv'
<1>1. PICK place, n : /\ place \in {"allocate", "resize"}
                      /\ Begin(place, p, bytes, n)
                      /\ UNCHANGED <<memVars, pidQueue, PCBs, procSize>>
  <2> DEFINE free == PCBs[p].page_table.size * SIZE_OF_PAGE - procSize[p]
             need == (bytes - free) % ADDR_MOD
  <2>1. /\ Begin(IF need > 0 THEN "allocate" ELSE "resize", p, bytes, byte2Page(need))
        /\ UNCHANGED <<memVars, pidQueue, PCBs, procSize>>
    BY DEF BeginGrow
  <2>2. (IF need > 0 THEN "allocate" ELSE "resize") \in {"allocate", "resize"}
    OBVIOUS
  <2> HIDE DEF need
  <2> QED BY <2>1, <2>2
<1>2. /\ place \in {"allocate", "resize"}
      /\ call' = [at |-> place, proc |-> p, bytes |-> bytes, n |-> n, i |-> 0]
      /\ call.at = "idle" /\ UNCHANGED <<mem_queue, pidQueue, PCBs>>
  BY <1>1 DEF Begin, At, memVars
<1>3. CallTyped'
  BY <1>2 DEF CallTyped, Destroying
<1> QED BY <1>2, <1>3, QuietLoad

LEMMA LoadStep ==
  ASSUME CallsInv, loadProgram \/ Allocate \/ Count \/ Resize
  PROVE  CallsInv'
<1>1. \/ UNCHANGED <<mem_queue, pidQueue, PCBs, call>>
      \/ /\ UNCHANGED <<mem_queue, pidQueue, PCBs>>
         /\ \/ At("loadProgram") /\ GoTo("allocate")
            \/ At("allocate") /\ GoTo("write")
            \/ At("count") /\ GoTo("resize")
            \/ At("resize") /\ Return
  BY DEF loadProgram, Allocate, Count, Resize, Stop, memVars
<1>2. CASE UNCHANGED <<mem_queue, pidQueue, PCBs, call>>
  BY <1>2, Stay
<1>3. CASE /\ UNCHANGED <<mem_queue, pidQueue, PCBs>>
           /\ At("resize") /\ Return
  <2>1. call'.at = "idle" /\ call.at = "resize" /\ CallTyped'
    BY <1>3, Sizes DEF At, Return, NoCall, CallTyped, Destroying
  <2> QED BY <1>3, <2>1, QuietLoad
<1>4. ASSUME UNCHANGED <<mem_queue, pidQueue, PCBs>>,
             NEW place \in {"loadProgram", "allocate", "count"},
             NEW next \in {"allocate", "write", "resize"}, At(place), GoTo(next)
      PROVE  CallsInv'
  <2>1. call'.at = next /\ call.at = place /\ CallTyped'
    BY <1>4 DEF At, GoTo, CallsInv, CallTyped, Destroying
  <2> QED BY <1>4, <2>1, QuietLoad
<1> QED BY <1>1, <1>2, <1>3, <1>4

-----------------------------------------------------------------------------
(* Destroying. *)

\* The pid comes back first, while its process is still there.
LEMMA BeginDestroyStep ==
  ASSUME CallsInv, NEW p \in Pids, BeginDestroy(p)
  PROVE  CallsInv'
<1> DEFINE S == Pids \cup {UNSET}
<1>1. /\ call.at = "idle" /\ PCBs[p].pid = p /\ p # MAX_PID /\ pidQueue' = queue_push(pidQueue, p)
      /\ call' = [at |-> "scan", proc |-> p, bytes |-> 0, n |-> 0, i |-> 0]
      /\ UNCHANGED <<mem_queue, PCBs>>
  BY DEF BeginDestroy, Begin, At, memVars, CallsInv, FreePids
<1>2. /\ CallTyped' /\ \A r \in Pids : /\ ~Destroying(r) /\ (Destroying(r)' <=> r = p)
                                       /\ FirstUsed(r) = 0 /\ FirstUsed(r)' = 0
  BY <1>1, Sizes DEF CallTyped, Destroying, FirstUsed
<1>3. /\ IsRing(pidQueue, MAX_PID, S) /\ Holds(pidQueue, Pids)
      /\ \A k \in 1 .. pidQueue.size : Entry(pidQueue, k) \in Pids
      /\ \A j, k \in 1 .. pidQueue.size : Entry(pidQueue, j) = Entry(pidQueue, k) => j = k
  BY DEF CallsInv, PidRing, Holds
<1>4. \A k \in 1 .. pidQueue.size :
        Entry(pidQueue, k) # p /\ PCBs[Entry(pidQueue, k)].pid = MAX_PID
  BY <1>1, <1>2, <1>3 DEF CallsInv, FreePids
<1>5. pidQueue.size < MAX_PID /\ p \in S
  BY <1>3, <1>4, PidsCount, RingRoom
<1>6. /\ pidQueue'.size = pidQueue.size + 1
      /\ pidQueue'.ptr[MAX_PID] = pidQueue.ptr[MAX_PID]
      /\ \A k \in 1 .. pidQueue.size : Entry(pidQueue', k) = Entry(pidQueue, k)
      /\ Entry(pidQueue', pidQueue.size + 1) = p
  BY <1>1, <1>3, <1>5, PushEntries
<1>7. IsRing(pidQueue', MAX_PID, S)
  BY <1>1, <1>3, <1>5, PushKeeps
<1>8. \A k \in 1 .. pidQueue'.size : k \in 1 .. pidQueue.size \/ k = pidQueue.size + 1
  <2>1. pidQueue.size \in 0 .. MAX_PID /\ MAX_PID \in Nat
    BY <1>3, RingFields
  <2> QED BY <1>6, <2>1
<1>9. PidRing'
  <2>1. Holds(pidQueue', Pids)
    BY <1>3, <1>4, <1>6, <1>8 DEF Holds
  <2>2. pidQueue'.ptr[MAX_PID] = UNSET
    BY <1>6 DEF CallsInv, PidRing
  <2> QED BY <1>7, <2>1, <2>2 DEF PidRing
<1>10. \A r \in Pids : /\ Used(r)' = Used(r) /\ Listed(r)' = Listed(r)
                       /\ \A e \in Entries : PageOf(r, e)' = PageOf(r, e)
  BY <1>1 DEF Used, Listed, PageOf
<1>11. PCBsTyped' /\ MappedOnce' /\ MoveTyped'
  BY <1>1, <1>10 DEF CallsInv, PCBsTyped, MappedOnce, MoveTyped
<1>12. EntriesListed' /\ EntriesUsed'
  BY <1>2, <1>10 DEF CallsInv, EntriesListed, EntriesUsed
<1>13. \A k, r, e : ~Moving(k, r, e) /\ ~Moving(k, r, e)'
  BY <1>1 DEF Moving
<1>14. \A k : Entry(mem_queue, k)' = Entry(mem_queue, k)
  BY <1>1 DEF Entry
<1>15. FreeAndMapped' /\ FreeOrMapped'
  BY <1>1, <1>10, <1>13, <1>14 DEF CallsInv, FreeAndMapped, FreeOrMapped
<1>16. FreeRing'
  BY <1>1 DEF CallsInv, FreeRing, IsRing, Holds, Entry
<1>17. FreePids'
  <2>1. \A k \in 1 .. pidQueue'.size :
          PCBs'[Entry(pidQueue', k)].pid = MAX_PID \/ Entry(pidQueue', k) = p
    BY <1>1, <1>4, <1>6, <1>8
  <2>2. call'.proc = p /\ call'.at \in {"scan", "recycle", "discount", "rebuild"}
    BY <1>1
  <2>3. PCBs'[call'.proc].pid # MAX_PID /\ \A r \in Pids : PCBs'[r].pid \in {r, MAX_PID}
    BY <1>1, <2>2 DEF CallsInv, FreePids
  <2> QED BY <2>1, <2>2, <2>3 DEF FreePids, Destroying
<1> QED BY <1>2, <1>9, <1>11, <1>12, <1>15, <1>16, <1>17 DEF CallsInv

\* The loop looks at the entry call.i: the table's end, an entry that is not
\* in use, or one whose page comes back.
LEMMA ScanStep ==
  ASSUME CallsInv, Scan
  PROVE  CallsInv'
<1>p. PICK p : p = call.proc
  OBVIOUS
<1>i. PICK i : i = call.i
  OBVIOUS
<1>1. /\ call.at = "scan" /\ p \in Pids /\ i \in Nat /\ i <= PAGE_CAPACITY
      /\ call = [at |-> call.at, proc |-> p, bytes |-> call.bytes, n |-> call.n, i |-> i]
      /\ UNCHANGED <<pidQueue, PCBs>>
  BY <1>p, <1>i DEF Scan, At, CallsInv, CallTyped, Destroying
<1>2. \A r \in Pids : /\ Destroying(r) <=> r = p
                      /\ FirstUsed(r) = IF r = p THEN i ELSE 0
  BY <1>p, <1>i, <1>1 DEF Destroying, FirstUsed
<1>3. \A r \in Pids : /\ FirstUsed(r) + Used(r) <= PAGE_CAPACITY
                      /\ Used(r) \in 0 .. PAGE_CAPACITY
  BY Fields DEF CallsInv, EntriesUsed
<1>4. \A e \in Entries : PageOf(p, e) # PAGE_NOT_USED <=> i <= e /\ e < i + Used(p)
  BY <1>1, <1>2 DEF CallsInv, EntriesUsed
<1>5. CASE i = PAGE_CAPACITY /\ GoTo("rebuild") /\ UNCHANGED mem_queue
  <2>1. call' = [at |-> "rebuild", proc |-> p, bytes |-> call.bytes, n |-> call.n, i |-> i]
    BY <1>1, <1>5 DEF GoTo
  <2>2. CallTyped'
    BY <1>1, <1>5, <2>1 DEF CallTyped, Destroying
  <2>3. \A r \in Pids : (Destroying(r)' <=> Destroying(r)) /\ FirstUsed(r)' = FirstUsed(r)
    BY <1>2, <2>1 DEF Destroying, FirstUsed
  <2> QED BY <1>1, <1>3, <1>5, <2>1, <2>2, <2>3, Quiet
<1>6. CASE /\ i < PAGE_CAPACITY /\ PageOf(p, i) = PAGE_NOT_USED
           /\ call' = [call EXCEPT !.i = i + 1] /\ UNCHANGED mem_queue
  <2>1. call' = [at |-> "scan", proc |-> p, bytes |-> call.bytes, n |-> call.n, i |-> i + 1]
    BY <1>1, <1>6
  <2>2. CallTyped'
    BY <1>1, <1>6, <2>1, Sizes DEF CallTyped, Destroying
  <2>3. Used(p) = 0
    <3>1. i \in Entries
      BY <1>1, <1>6, Sizes
    <3>2. Used(p) \in Nat
      BY <1>1, <1>3, Sizes
    <3> QED BY <1>1, <1>4, <1>6, <3>1, <3>2
  <2>4. \A r \in Pids : /\ Destroying(r)' <=> Destroying(r)
                        /\ FirstUsed(r)' = IF r = p THEN i + 1 ELSE 0
    BY <1>2, <2>1 DEF Destroying, FirstUsed
  <2>5. \A r \in Pids : FirstUsed(r)' + Used(r) <= PAGE_CAPACITY
    <3>1. (i + 1) + Used(p) <= PAGE_CAPACITY
      BY <1>1, <1>6, <2>3, Sizes
    <3> QED BY <1>2, <1>3, <2>4, <3>1
  <2>6. \A r \in Pids : Used(r) # 0 \/ ~Destroying(r) => FirstUsed(r)' = FirstUsed(r)
    BY <1>2, <2>3, <2>4
  <2> QED BY <1>1, <1>6, <2>1, <2>2, <2>4, <2>5, <2>6, Quiet
<1>7. CASE /\ i < PAGE_CAPACITY /\ PageOf(p, i) # PAGE_NOT_USED
           /\ mem_queue' = queue_push(mem_queue, PageOf(p, i)) /\ GoTo("recycle")
  <2> DEFINE N == NUM_OF_PAGE_FOR_USER
             S == UserPages \cup {UNSET}
  <2>p. PICK page : page = PageOf(p, i)
    OBVIOUS
  <2>1. call' = [at |-> "recycle", proc |-> p, bytes |-> call.bytes, n |-> call.n, i |-> i]
    BY <1>1, <1>7 DEF GoTo
  <2>2. CallTyped' /\ i \in Entries
    BY <1>1, <1>7, <2>1, Sizes DEF CallTyped, Destroying
  <2>3. \A r \in Pids : (Destroying(r)' <=> Destroying(r)) /\ FirstUsed(r)' = FirstUsed(r)
    BY <1>2, <2>1 DEF Destroying, FirstUsed
  <2>4. page \in UserPages /\ page # PAGE_NOT_USED /\ page \in S
    BY <1>1, <1>7, <2>p, <2>2, Fields DEF CallsInv
  <2>5. \A k \in 1 .. mem_queue.size, r \in Pids, e \in Entries : Entry(mem_queue, k) # PageOf(r, e)
    BY <1>1 DEF CallsInv, FreeAndMapped, Moving
  <2>6. IsRing(mem_queue, N, S) /\ Holds(mem_queue, UserPages)
    BY DEF CallsInv, FreeRing
  <2>7. mem_queue.size < N
    <3>1. \A k \in 1 .. mem_queue.size : Entry(mem_queue, k) # page
      BY <1>1, <2>p, <2>2, <2>5
    <3> QED BY <2>4, <2>6, <3>1, UserPagesCount, RingRoom
  <2>8. mem_queue' = queue_push(mem_queue, page)
    BY <1>7, <2>p
  <2>9. /\ mem_queue'.size = mem_queue.size + 1
        /\ mem_queue'.ptr[N] = mem_queue.ptr[N]
        /\ \A k \in 1 .. mem_queue.size : Entry(mem_queue', k) = Entry(mem_queue, k)
        /\ Entry(mem_queue', mem_queue.size + 1) = page
    BY <2>4, <2>6, <2>7, <2>8, PushEntries
  <2>10. IsRing(mem_queue', N, S)
    BY <2>4, <2>6, <2>7, <2>8, PushKeeps
  <2>11. /\ mem_queue.size \in Nat
         /\ \A k \in 1 .. mem_queue'.size : k \in 1 .. mem_queue.size \/ k = mem_queue.size + 1
         /\ \A k \in 1 .. mem_queue.size : k \in 1 .. mem_queue'.size
         /\ mem_queue.size + 1 \in 1 .. mem_queue'.size
    BY <2>9, FreeFacts
  <2>12. FreeRing'
    <3>1. \A k \in 1 .. mem_queue.size : Entry(mem_queue, k) # page
      BY <1>1, <2>p, <2>2, <2>5
    <3>2. Holds(mem_queue', UserPages)
      BY <2>4, <2>6, <2>9, <2>11, <3>1 DEF Holds
    <3>3. mem_queue'.ptr[N] = UNSET
      BY <2>9 DEF CallsInv, FreeRing
    <3> QED BY <2>10, <3>2, <3>3 DEF FreeRing
  <2>13. \A r \in Pids : /\ Used(r)' = Used(r) /\ Listed(r)' = Listed(r)
                         /\ \A e \in Entries : PageOf(r, e)' = PageOf(r, e)
    BY <1>1 DEF Used, Listed, PageOf
  <2>14. PCBsTyped' /\ MappedOnce'
    BY <1>1, <2>13 DEF CallsInv, PCBsTyped, MappedOnce
  <2>15. MoveTyped'
    BY <2>1, <2>9, <2>11 DEF MoveTyped
  <2>16. EntriesListed' /\ EntriesUsed'
    BY <2>3, <2>13 DEF CallsInv, EntriesListed, EntriesUsed
  <2>17. \A k, r, e : Moving(k, r, e)' <=> k = mem_queue.size + 1 /\ r = p /\ e = i
    BY <2>1, <2>9 DEF Moving
  <2>18. FreeAndMapped'
    <3>1. \A r \in Pids, e \in Entries : page = PageOf(r, e) <=> r = p /\ e = i
      BY <1>1, <2>p, <2>2, <2>4 DEF CallsInv, MappedOnce
    <3>2. \A k \in 1 .. mem_queue.size : k # mem_queue.size + 1
      BY <2>11
    <3> QED BY <2>5, <2>9, <2>11, <2>13, <2>17, <3>1, <3>2 DEF FreeAndMapped
  <2>19. FreeOrMapped'
    BY <2>9, <2>11, <2>13 DEF CallsInv, FreeOrMapped
  <2>20. PidRing'
    BY <1>1 DEF CallsInv, PidRing, IsRing, Holds, Entry
  <2>21. FreePids'
    BY <1>p, <1>1, <2>1 DEF CallsInv, FreePids, Destroying, Entry
  <2> QED BY <2>2, <2>12, <2>14, <2>15, <2>16, <2>18, <2>19, <2>20, <2>21 DEF CallsInv
<1> QED BY <1>p, <1>i, <1>5, <1>6, <1>7
      DEF Scan, InUse, getValueInPageTable, Table, PageOf, NextEntry

\* The entry is cleared, and listed behind the others.
LEMMA RecycleEffect ==
  ASSUME CallsInv, Recycle,
         NEW p, p = call.proc, NEW i, i = call.i, NEW s, s = Used(p)
  PROVE  /\ p \in Pids /\ i \in Entries /\ s \in 1 .. PAGE_CAPACITY
         /\ PageOf(p, i) # PAGE_NOT_USED
         /\ \A e \in Entries : PageOf(p, e) # PAGE_NOT_USED <=> i <= e /\ e < i + s
         /\ i + s <= PAGE_CAPACITY
         /\ PCBsTyped'
         /\ \A r \in Pids : r # p => PCBs'[r] = PCBs[r]
         /\ \A r \in Pids : PCBs'[r].pid = PCBs[r].pid /\ PCBs'[r].status = PCBs[r].status
         /\ \A r \in Pids, e \in Entries :
              PageOf(r, e)' = IF r = p /\ e = i THEN PAGE_NOT_USED ELSE PageOf(r, e)
         /\ \A r \in Pids : r # p => Used(r)' = Used(r) /\ Listed(r)' = Listed(r)
         /\ Used(p)' = s - 1 /\ Listed(p)'.size = PAGE_CAPACITY - (s - 1)
<1>l. PICK list : list = Listed(p)
  OBVIOUS
<1>t. PICK pt : pt = recyclePageElem(PCBs[p].page_table, i)
  OBVIOUS
<1> DEFINE C == PAGE_CAPACITY
           N == mem_queue.size
<1>1. /\ call.at = "recycle" /\ p \in Pids /\ i \in Entries /\ i \in Nat /\ C \in Nat \ {0}
      /\ PCBs' = [PCBs EXCEPT ![p].page_table = pt]
      /\ UNCHANGED <<pidQueue, mem_queue>>
  BY <1>t, Sizes DEF Recycle, At, CallsInv, CallTyped, memVars
<1>4. FirstUsed(p) = i
  BY <1>1 DEF Destroying, FirstUsed
<1>5. /\ N \in 1 .. N /\ Entry(mem_queue, N) = PageOf(p, i) /\ PageOf(p, i) # PAGE_NOT_USED
      /\ N \in Nat
  <2>1. N \in Nat /\ N >= 1
    BY <1>1, FreeFacts DEF CallsInv, MoveTyped
  <2>2. Moving(N, p, i)
    BY <1>1 DEF Moving
  <2>3. Entry(mem_queue, N) = PageOf(p, i)
    BY <1>1, <2>1, <2>2 DEF CallsInv, FreeAndMapped
  <2> QED BY <2>1, <2>3, FreeFacts
<1>6. /\ s \in 0 .. C /\ list \in EntryRing
      /\ PCBs[p].page_table = [table |-> PCBs[p].page_table.table, size |-> s, queue |-> list]
      /\ PCBs[p].page_table.table \in [Entries -> UserPages \cup {PAGE_NOT_USED}]
  BY <1>l, <1>1, Fields DEF CallsInv
<1>7. /\ list.size = C - s
      /\ \A e \in Entries : PageOf(p, e) # PAGE_NOT_USED <=> i <= e /\ e < i + s
      /\ i + s <= C
  BY <1>1, <1>l, <1>4 DEF CallsInv, EntriesListed, EntriesUsed
<1>8. s \in 1 .. C /\ s - 1 \in 0 .. C /\ (i + 1) + (s - 1) = i + s /\ list.size \in 0 .. C - 1
  BY <1>1, <1>5, <1>6, <1>7
<1>9. queue_push(list, i) \in EntryRing /\ queue_push(list, i).size = C - (s - 1)
  <2>1. /\ list = [ptr |-> list.ptr, capacity |-> list.capacity, size |-> list.size,
                   head |-> list.head, tail |-> list.tail]
        /\ list.capacity = C
        /\ list.ptr \in [0 .. C -> Entries \cup {UNSET}] /\ list.tail \in 0 .. C
        /\ list.head \in 0 .. C - 1
    BY <1>6 DEF EntryRing
  <2>2. queue_push(list, i) = [list EXCEPT !.ptr[list.tail] = i, !.tail = (@ + 1) % list.capacity,
                                           !.size = @ + 1]
    BY DEF queue_push
  <2>3. queue_push(list, i) = [ptr |-> [list.ptr EXCEPT ![list.tail] = i], capacity |-> C,
                               size |-> list.size + 1, head |-> list.head,
                               tail |-> (list.tail + 1) % C]
    BY <2>1, <2>2
  <2>4. (list.tail + 1) % C \in 0 .. C
    <3>1. PICK a \in Int : a = list.tail + 1
      BY <1>1, <2>1
    <3>2. a % C \in 0 .. C - 1
      BY <1>1, ModRange
    <3> QED BY <1>1, <3>1, <3>2
  <2>5. [list.ptr EXCEPT ![list.tail] = i] \in [0 .. C -> Entries \cup {UNSET}]
    BY <1>1, <2>1
  <2>6. list.size + 1 \in 0 .. C /\ list.size + 1 = C - (s - 1)
    BY <1>1, <1>7, <1>8
  <2> QED BY <2>1, <2>3, <2>4, <2>5, <2>6 DEF EntryRing
<1>10. (s - 1) % BASE_MOD = s - 1
  BY <1>8, Sizes
<1>11. pt = [table |-> [PCBs[p].page_table.table EXCEPT ![i] = PAGE_NOT_USED],
             size |-> s - 1, queue |-> queue_push(list, i)]
  <2>1. InUse(PCBs[p].page_table, i)
    BY <1>5 DEF InUse, getValueInPageTable, PageOf
  <2> QED BY <1>l, <1>t, <1>10, <2>1 DEF recyclePageElem, Used, Listed
<1>12. pt \in PageTable
  <2>1. [PCBs[p].page_table.table EXCEPT ![i] = PAGE_NOT_USED] \in [Entries -> UserPages \cup {PAGE_NOT_USED}]
    BY <1>1, <1>6
  <2> QED BY <1>8, <1>9, <1>11, <2>1 DEF PageTable
<1>13. /\ PCBsTyped' /\ PCBs'[p].page_table = pt
       /\ \A r \in Pids : r # p => PCBs'[r] = PCBs[r]
       /\ \A r \in Pids : PCBs'[r].pid = PCBs[r].pid /\ PCBs'[r].status = PCBs[r].status
  <2>1. PCBsTyped
    BY DEF CallsInv
  <2>2. p \in Pids /\ PCBs' = [PCBs EXCEPT ![p].page_table = pt]
    BY <1>1
  <2> QED BY <1>12, <2>1, <2>2, TableReplaced
<1>14. \A r \in Pids, e \in Entries :
         PageOf(r, e)' = IF r = p /\ e = i THEN PAGE_NOT_USED ELSE PageOf(r, e)
  BY <1>1, <1>6, <1>11, <1>13 DEF PageOf
<1>15. \A r \in Pids : r # p => Used(r)' = Used(r) /\ Listed(r)' = Listed(r)
  BY <1>13 DEF Used, Listed
<1>16. Used(p)' = s - 1 /\ Listed(p)'.size = C - (s - 1)
  BY <1>9, <1>11, <1>13 DEF Used, Listed
<1> QED BY <1>1, <1>5, <1>7, <1>8, <1>13, <1>14, <1>15, <1>16

\* The entry is cleared: its page, free by now, is no longer mapped.
LEMMA RecycleStep ==
  ASSUME CallsInv, Recycle
  PROVE  CallsInv'
<1>p. PICK p : p = call.proc
  OBVIOUS
<1>i. PICK i : i = call.i
  OBVIOUS
<1>s. PICK s : s = Used(p)
  OBVIOUS
<1> DEFINE C == PAGE_CAPACITY
           N == mem_queue.size
<1>1. /\ call.at = "recycle" /\ p \in Pids /\ i \in Entries /\ i \in Nat /\ C \in Nat \ {0}
      /\ call = [at |-> call.at, proc |-> p, bytes |-> call.bytes, n |-> call.n, i |-> i]
      /\ UNCHANGED <<pidQueue, mem_queue>>
  BY <1>p, <1>i, Sizes DEF Recycle, At, CallsInv, CallTyped, memVars
<1>2. call' = [at |-> "discount", proc |-> p, bytes |-> call.bytes, n |-> call.n, i |-> i]
  BY <1>1 DEF Recycle, GoTo
<1>3. CallTyped'
  BY <1>1, <1>2, Sizes DEF CallTyped, Destroying
<1>4. \A r \in Pids : /\ Destroying(r) <=> r = p
                      /\ Destroying(r)' <=> r = p
                      /\ FirstUsed(r) = IF r = p THEN i ELSE 0
                      /\ FirstUsed(r)' = IF r = p THEN i + 1 ELSE 0
  BY <1>p, <1>i, <1>1, <1>2 DEF Destroying, FirstUsed
<1>5. /\ N \in 1 .. N /\ Entry(mem_queue, N) = PageOf(p, i) /\ PageOf(p, i) # PAGE_NOT_USED
      /\ N \in Nat
  <2>1. N \in Nat /\ N >= 1
    BY <1>1, FreeFacts DEF CallsInv, MoveTyped
  <2>2. Moving(N, p, i)
    BY <1>p, <1>i, <1>1 DEF Moving
  <2>3. Entry(mem_queue, N) = PageOf(p, i)
    BY <1>1, <2>1, <2>2 DEF CallsInv, FreeAndMapped
  <2> QED BY <2>1, <2>3, FreeFacts
<1>6. s \in 1 .. C
  BY <1>p, <1>i, <1>s, RecycleEffect
<1>7. /\ \A e \in Entries : PageOf(p, e) # PAGE_NOT_USED <=> i <= e /\ e < i + s
      /\ i + s <= C
  BY <1>p, <1>i, <1>s, RecycleEffect
<1>8. s - 1 \in 0 .. C /\ (i + 1) + (s - 1) = i + s
  BY <1>1, <1>6
<1>13. /\ PCBsTyped'
       /\ \A r \in Pids : r # p => PCBs'[r] = PCBs[r]
       /\ \A r \in Pids : PCBs'[r].pid = PCBs[r].pid
  BY <1>p, <1>i, <1>s, RecycleEffect
<1>14. \A r \in Pids, e \in Entries :
         PageOf(r, e)' = IF r = p /\ e = i THEN PAGE_NOT_USED ELSE PageOf(r, e)
  BY <1>p, <1>i, <1>s, RecycleEffect
<1>15. \A r \in Pids : r # p => Used(r)' = Used(r) /\ Listed(r)' = Listed(r)
  BY <1>p, <1>i, <1>s, RecycleEffect
<1>16. Used(p)' = s - 1 /\ Listed(p)'.size = C - (s - 1)
  BY <1>p, <1>i, <1>s, RecycleEffect
<1>17. EntriesListed'
  BY <1>4, <1>15, <1>16 DEF CallsInv, EntriesListed
<1>18. EntriesUsed'
  <2>1. ASSUME NEW e \in Entries
        PROVE  PageOf(p, e)' # PAGE_NOT_USED <=> i + 1 <= e /\ e < (i + 1) + (s - 1)
    <3>1. e \in Nat /\ i \in Nat /\ s \in Nat
      BY <1>1, <1>6, Sizes
    <3>2. PageOf(p, e) # PAGE_NOT_USED <=> i <= e /\ e < i + s
      BY <1>7
    <3>3. PageOf(p, e)' = IF e = i THEN PAGE_NOT_USED ELSE PageOf(p, e)
      BY <1>1, <1>14
    <3>4. i + 1 <= e /\ e < (i + 1) + (s - 1) <=> e # i /\ i <= e /\ e < i + s
      BY <3>1
    <3> QED BY <3>2, <3>3, <3>4
  <2>2. (i + 1) + (s - 1) <= C
    BY <1>7, <1>8
  <2> QED BY <1>1, <1>4, <1>14, <1>15, <1>16, <2>1, <2>2 DEF CallsInv, EntriesUsed
<1>19. \A k : Entry(mem_queue, k)' = Entry(mem_queue, k)
  BY <1>1 DEF Entry
<1>20. \A k, r, e : ~Moving(k, r, e)'
  BY <1>2 DEF Moving
<1>21. \A k, r, e : Moving(k, r, e) <=> k = N /\ r = p /\ e = i
  BY <1>p, <1>i, <1>1 DEF Moving
<1>22. FreeAndMapped'
  BY <1>1, <1>14, <1>19, <1>20, <1>21, FreeFacts DEF CallsInv, FreeAndMapped
<1>23. FreeOrMapped'
  BY <1>1, <1>5, <1>14, <1>19 DEF CallsInv, FreeOrMapped
<1>24. MappedOnce'
  BY <1>14 DEF CallsInv, MappedOnce
<1>25. MoveTyped'
  BY <1>2 DEF MoveTyped
<1>26. FreeRing' /\ PidRing'
  BY <1>1 DEF CallsInv, FreeRing, PidRing, IsRing, Holds, Entry
<1>27. FreePids'
  <2>1. \A k \in 1 .. pidQueue.size : Entry(pidQueue, k) \in Pids
    BY DEF CallsInv, PidRing, Holds
  <2>2. \A k \in 1 .. pidQueue.size : PCBs[Entry(pidQueue, k)].pid = MAX_PID \/ Entry(pidQueue, k) = p
    BY <1>p DEF CallsInv, FreePids, Destroying
  <2>3. \A k \in 1 .. pidQueue'.size : PCBs'[Entry(pidQueue', k)].pid = MAX_PID \/ Entry(pidQueue', k) = p
    BY <1>1, <1>13, <2>1, <2>2
  <2>4. PCBs'[p].pid # MAX_PID /\ \A r \in Pids : PCBs'[r].pid \in {r, MAX_PID}
    BY <1>p, <1>1, <1>4, <1>13 DEF CallsInv, FreePids
  <2>5. call'.proc = p /\ call'.at \in {"scan", "recycle", "discount", "rebuild"}
    BY <1>2
  <2> QED BY <2>3, <2>4, <2>5 DEF FreePids, Destroying
<1> QED BY <1>3, <1>13, <1>17, <1>18, <1>22, <1>23, <1>24, <1>25, <1>26, <1>27 DEF CallsInv

LEMMA DiscountStep ==
  ASSUME CallsInv, Discount
  PROVE  CallsInv'
<1>1. /\ call.at = "discount" /\ call.i \in Nat /\ call.i < PAGE_CAPACITY /\ call.proc \in Pids
      /\ UNCHANGED <<mem_queue, pidQueue, PCBs>>
  BY DEF Discount, At, CallsInv, CallTyped
<1>2. call'.at = "scan" /\ call'.proc = call.proc /\ call'.i = call.i + 1
      /\ call' = [at |-> call'.at, proc |-> call'.proc, bytes |-> call'.bytes, n |-> call'.n, i |-> call'.i]
  <2>1. call = [at |-> call.at, proc |-> call.proc, bytes |-> call.bytes, n |-> call.n, i |-> call.i]
    BY DEF CallsInv, CallTyped
  <2>2. call' = [at |-> "scan", proc |-> call.proc, bytes |-> call.bytes, n |-> call.n, i |-> call.i + 1]
    BY <2>1 DEF Discount
  <2> QED BY <2>2
<1>3. CallTyped'
  BY <1>1, <1>2, Sizes DEF CallTyped, Destroying
<1>4. \A p \in Pids : (Destroying(p)' <=> Destroying(p)) /\ FirstUsed(p)' = FirstUsed(p)
  BY <1>1, <1>2 DEF Destroying, FirstUsed
<1>5. \A p \in Pids : FirstUsed(p) + Used(p) <= PAGE_CAPACITY
  BY DEF CallsInv, EntriesUsed
<1> QED BY <1>1, <1>2, <1>3, <1>4, <1>5, Quiet

\* The control block is built anew, when its table has been emptied.
LEMMA RebuildStep ==
  ASSUME CallsInv, Rebuild
  PROVE  CallsInv'
<1>p. PICK p : p = call.proc
  OBVIOUS
<1>1. /\ call.at = "rebuild" /\ p \in Pids /\ call.i = PAGE_CAPACITY
      /\ call' = NoCall /\ UNCHANGED <<mem_queue, pidQueue>>
      /\ PCBs' = [PCBs EXCEPT ![p] = [pid |-> MAX_PID, status |-> "Undefined",
                                      page_table |-> creatPageTbale]]
  BY <1>p DEF Rebuild, At, Return, CallsInv, CallTyped, memVars, initPCB
<1>2. /\ CallTyped' /\ MoveTyped' /\ ~Destroying(call.proc)'
      /\ \A r \in Pids : /\ Destroying(r) <=> r = p
                         /\ ~Destroying(r)' /\ FirstUsed(r)' = 0
                         /\ FirstUsed(r) = IF r = p THEN PAGE_CAPACITY ELSE 0
  BY <1>p, <1>1, Sizes DEF NoCall, CallTyped, MoveTyped, Destroying, FirstUsed
<1>3. \A e \in Entries : PageOf(p, e) = PAGE_NOT_USED
  <2>1. \A e \in Entries : ~(PAGE_CAPACITY <= e)
    BY Sizes
  <2> QED BY <1>1, <1>2, <2>1 DEF CallsInv, EntriesUsed
<1>4. \A r \in Pids : PCBs'[r] =
        IF r = p THEN [pid |-> MAX_PID, status |-> "Undefined", page_table |-> creatPageTbale]
        ELSE PCBs[r]
  BY <1>1 DEF CallsInv, PCBsTyped
<1>5. PCBsTyped'
  <2>1. [pid |-> MAX_PID, status |-> "Undefined", page_table |-> creatPageTbale]
          \in [pid : Pids \cup {MAX_PID}, status : {"Undefined", "Ready"}, page_table : PageTable]
    BY NewTable
  <2> QED BY <1>1, <2>1 DEF CallsInv, PCBsTyped
<1>6. /\ PCBs'[p].page_table = creatPageTbale /\ PCBs'[p].pid = MAX_PID
      /\ \A r \in Pids : r # p => PCBs'[r] = PCBs[r]
  BY <1>1, <1>4
<1>7. \A r \in Pids, e \in Entries : PageOf(r, e)' = PageOf(r, e)
  BY <1>3, <1>6, NewTable DEF PageOf
<1>8. Used(p)' = 0 /\ Listed(p)' = creatPageTbale.queue
  BY <1>6, NewTable DEF Used, Listed
<1>9. \A r \in Pids : r # p => Used(r)' = Used(r) /\ Listed(r)' = Listed(r)
  BY <1>6 DEF Used, Listed
<1>10. EntriesListed'
  <2>1. 0 % PAGE_CAPACITY = 0 /\ PAGE_CAPACITY - 0 = PAGE_CAPACITY
    BY Sizes
  <2>2. /\ Listed(p)'.size = PAGE_CAPACITY - Used(p)' /\ Listed(p)'.head = Used(p)' % PAGE_CAPACITY
        /\ \A j \in Entries : Listed(p)'.ptr[j] = j
    BY <1>8, <2>1, NewTable
  <2> QED BY <1>2, <1>9, <2>2 DEF CallsInv, EntriesListed
<1>11. EntriesUsed'
  <2>1. \A e \in Entries : ~(e < 0 + 0) /\ 0 + 0 <= PAGE_CAPACITY
    BY Sizes
  <2>2. 0 + 0 <= PAGE_CAPACITY
    BY Sizes
  <2>3. \A e \in Entries : PageOf(p, e)' = PAGE_NOT_USED
    BY <1>1, <1>3, <1>7
  <2>4. ASSUME NEW r \in Pids
        PROVE  /\ 0 + Used(r)' <= PAGE_CAPACITY
               /\ \A e \in Entries : PageOf(r, e)' # PAGE_NOT_USED <=> 0 <= e /\ e < 0 + Used(r)'
    <3>1. CASE r = p
      BY <1>8, <2>1, <2>2, <2>3, <3>1
    <3>2. CASE r # p
      BY <1>2, <1>7, <1>9, <3>2 DEF CallsInv, EntriesUsed
    <3> QED BY <3>1, <3>2
  <2> QED BY <1>2, <2>4 DEF EntriesUsed
<1>12. MappedOnce'
  BY <1>7 DEF CallsInv, MappedOnce
<1>13. \A k, r, e : ~Moving(k, r, e) /\ ~Moving(k, r, e)'
  BY <1>1 DEF Moving, NoCall
<1>14. \A k : Entry(mem_queue, k)' = Entry(mem_queue, k)
  BY <1>1 DEF Entry
<1>15. FreeAndMapped' /\ FreeOrMapped'
  BY <1>1, <1>7, <1>13, <1>14 DEF CallsInv, FreeAndMapped, FreeOrMapped
<1>16. FreeRing' /\ PidRing'
  BY <1>1 DEF CallsInv, FreeRing, PidRing, IsRing, Holds, Entry
<1>17. FreePids'
  <2>1. \A k \in 1 .. pidQueue.size : Entry(pidQueue, k) \in Pids
    BY DEF CallsInv, PidRing, Holds
  <2>2. \A k \in 1 .. pidQueue.size : PCBs[Entry(pidQueue, k)].pid = MAX_PID \/ Entry(pidQueue, k) = p
    BY <1>p DEF CallsInv, FreePids, Destroying
  <2>3. \A k \in 1 .. pidQueue'.size : PCBs'[Entry(pidQueue', k)].pid = MAX_PID
    BY <1>1, <1>6, <2>1, <2>2
  <2>4. \A r \in Pids : PCBs'[r].pid \in {r, MAX_PID}
    BY <1>6 DEF CallsInv, FreePids
  <2> QED BY <1>2, <2>3, <2>4 DEF FreePids
<1> QED BY <1>2, <1>5, <1>10, <1>11, <1>12, <1>15, <1>16, <1>17 DEF CallsInv

-----------------------------------------------------------------------------
(* The theorems. *)

LEMMA StepKeeps ==
  ASSUME CallsInv, [Next]_vars
  PROVE  CallsInv'
<1>1. CASE UNCHANGED vars
  BY <1>1, Stay DEF vars, memVars
<1>2. CASE Write
  <2>1. CASE UNCHANGED <<mem_queue, pidQueue, PCBs, call>>
    BY <2>1, Stay
  <2>2. CASE /\ ~queue_empty(mem_queue) /\ ~queue_empty(Table.queue)
             /\ PCBs' = [PCBs EXCEPT ![call.proc].page_table =
                           writePageTable(@, queue_front(mem_queue))]
             /\ GoTo("pop") /\ UNCHANGED <<mem_queue, pidQueue>>
    BY <1>2, <2>2, WriteStep DEF Write, GoTo
  <2> QED BY <1>2, <2>1, <2>2 DEF Write, Stop, memVars
<1>3. CASE \E bytes \in CallSizes : BeginLoad(bytes)
  BY <1>3, BeginLoadStep
<1>4. CASE \E p \in Pids, bytes \in CallSizes : BeginGrow(p, bytes)
  BY <1>4, BeginGrowStep
<1>5. CASE \E p \in Pids : BeginDestroy(p)
  BY <1>5, BeginDestroyStep
<1>12. CASE \E p \in Pids, bytes \in CallSizes : GrowTooFar(p, bytes)
  <2>1. UNCHANGED <<mem_queue, pidQueue, PCBs, call>>
    BY <1>12 DEF GrowTooFar, Stop, memVars
  <2> QED BY <2>1, Stay
<1>6. CASE loadProgram \/ Allocate \/ Count \/ Resize
  BY <1>6, LoadStep
<1>7. CASE Pop
  BY <1>7, PopStep
<1>8. CASE Scan
  BY <1>8, ScanStep
<1>9. CASE Recycle
  BY <1>9, RecycleStep
<1>10. CASE Discount
  BY <1>10, DiscountStep
<1>11. CASE Rebuild
  BY <1>11, RebuildStep
<1> QED BY <1>1, <1>2, <1>3, <1>4, <1>5, <1>6, <1>7, <1>8, <1>9, <1>10, <1>11, <1>12
        DEF Next, Step

LEMMA CallsInvariant ==
  Spec => []CallsInv
BY InitCalls, StepKeeps, PTL DEF Spec

\* No push of any call finds a list full: at no statement does a free list hold
\* more than its words, or has it written behind its buffer.
THEOREM RingsAlwaysFit ==
  Spec => []RingsFit
<1>1. CallsInv => RingsFit
  <2> SUFFICES ASSUME CallsInv
               PROVE  RingsFit
    OBVIOUS
  <2>1. mem_queue.capacity = NUM_OF_PAGE_FOR_USER /\ mem_queue.size <= mem_queue.capacity
    <3>1. IsRing(mem_queue, NUM_OF_PAGE_FOR_USER, UserPages \cup {UNSET})
      BY DEF CallsInv, FreeRing
    <3> QED BY <3>1, RingFields
  <2>2. pidQueue.capacity = MAX_PID /\ pidQueue.size <= pidQueue.capacity
    <3>1. IsRing(pidQueue, MAX_PID, Pids \cup {UNSET})
      BY DEF CallsInv, PidRing
    <3> QED BY <3>1, RingFields
  <2>3. \A p \in Pids : PCBs[p].page_table.queue.size <= PAGE_CAPACITY
    <3>1. \A p \in Pids : Used(p) \in 0 .. PAGE_CAPACITY
                          /\ Listed(p).size = PAGE_CAPACITY - Used(p)
      BY Fields DEF CallsInv, EntriesListed
    <3> QED BY <3>1, Sizes DEF Listed
  <2> QED BY <2>1, <2>2, <2>3 DEF RingsFit, CallsInv, FreeRing, PidRing
<1> QED BY <1>1, CallsInvariant, PTL

\* A page is in one place, and in two only between the statement that puts it
\* into the new one and the statement that takes it from the old one.
THEOREM OnePageAlwaysMoves ==
  Spec => []OnePageMoves
<1>1. CallsInv => OnePageMoves
  <2> SUFFICES ASSUME CallsInv, NEW page \in UserPages
               PROVE  Homes(page) = IF InTransit(page) THEN 2 ELSE 1
    BY DEF OnePageMoves
  <2> DEFINE K == {k \in 1 .. mem_queue.size : Entry(mem_queue, k) = page}
             H == {h \in Pids \X Entries : PageOf(h[1], h[2]) = page}
  <2>1. Homes(page) = Cardinality(K) + Cardinality(H)
    BY DEF Homes, PageOf
  <2>2. page # PAGE_NOT_USED
    BY Sizes
  <2>3. K = {} \/ \E k \in K : K = {k}
    BY FreeFacts
  <2>4. \A g, h \in H : g = h
    <3> SUFFICES ASSUME NEW g \in H, NEW h \in H
                 PROVE  g = h
      OBVIOUS
    <3>1. g = <<g[1], g[2]>> /\ h = <<h[1], h[2]>>
      OBVIOUS
    <3>2. g[1] = h[1] /\ g[2] = h[2]
      BY <2>2 DEF CallsInv, MappedOnce
    <3> QED BY <3>1, <3>2
  <2>5. H = {} \/ \E h \in H : H = {h}
    <3> HIDE DEF H
    <3> QED BY <2>4
  <2>6. Cardinality({}) = 0 /\ \A x : Cardinality({x}) = 1
    BY FS_EmptySet, FS_Singleton
  <2>7. K # {} \/ H # {}
    <3>1. CASE \E k \in 1 .. mem_queue.size : Entry(mem_queue, k) = page
      BY <3>1
    <3>2. ASSUME NEW p \in Pids, NEW e \in Entries, PageOf(p, e) = page
          PROVE  H # {}
      <4>1. <<p, e>> \in H
        BY <3>2
      <4> QED BY <4>1
    <3> QED BY <3>1, <3>2 DEF CallsInv, FreeOrMapped
  <2>8. K # {} /\ H # {} => InTransit(page)
    <3> SUFFICES ASSUME NEW k \in K, NEW h \in H
                 PROVE  InTransit(page)
      OBVIOUS
    <3>1. h[1] \in Pids /\ h[2] \in Entries /\ PageOf(h[1], h[2]) = page
          /\ k \in 1 .. mem_queue.size /\ Entry(mem_queue, k) = page
      OBVIOUS
    <3>2. Moving(k, h[1], h[2])
      BY <3>1 DEF CallsInv, FreeAndMapped
    <3>3. queue_front(mem_queue) = Entry(mem_queue, 1)
      BY FreeFacts, Front
    <3> QED BY <3>1, <3>2, <3>3 DEF InTransit, Moving, PageOf, Table, getValueInPageTable
  <2>9. InTransit(page) => K # {} /\ H # {}
    <3>1. ASSUME call.at = "pop", page = queue_front(mem_queue)
          PROVE  K # {} /\ H # {}
      <4>1. call.proc \in Pids /\ Used(call.proc) >= 1 /\ mem_queue.size >= 1
        BY <3>1 DEF CallsInv, CallTyped, MoveTyped
      <4>2. Used(call.proc) \in 0 .. PAGE_CAPACITY
        BY <4>1, Fields DEF CallsInv
      <4>3. Used(call.proc) - 1 \in Entries
        BY <4>1, <4>2, Sizes
      <4>4. 1 \in 1 .. mem_queue.size /\ Entry(mem_queue, 1) = page
        BY <3>1, <4>1, FreeFacts, Front
      <4>5. PageOf(call.proc, Used(call.proc) - 1) = page
        BY <3>1, <4>1, <4>3, <4>4 DEF CallsInv, FreeAndMapped, Moving
      <4>6. <<call.proc, Used(call.proc) - 1>> \in H
        BY <4>1, <4>3, <4>5
      <4> QED BY <4>4, <4>6
    <3>2. ASSUME call.at = "recycle", page = getValueInPageTable(Table, call.i)
          PROVE  K # {} /\ H # {}
      <4>1. call.proc \in Pids /\ call.i \in Entries /\ mem_queue.size >= 1
        BY <3>2, Sizes DEF CallsInv, CallTyped, MoveTyped
      <4>2. PageOf(call.proc, call.i) = page
        BY <3>2 DEF getValueInPageTable, Table, PageOf
      <4>3. mem_queue.size \in 1 .. mem_queue.size
        BY <4>1, FreeFacts
      <4>4. Entry(mem_queue, mem_queue.size) = page
        BY <3>2, <4>1, <4>2, <4>3 DEF CallsInv, FreeAndMapped, Moving
      <4>5. <<call.proc, call.i>> \in H
        BY <4>1, <4>2
      <4> QED BY <4>3, <4>4, <4>5
    <3> QED BY <3>1, <3>2 DEF InTransit
  <2> HIDE DEF K, H
  <2>10. /\ Cardinality(K) = IF K = {} THEN 0 ELSE 1
         /\ Cardinality(H) = IF H = {} THEN 0 ELSE 1
    BY <2>3, <2>5, <2>6
  <2> QED BY <2>1, <2>7, <2>8, <2>9, <2>10
<1> QED BY <1>1, CallsInvariant, PTL

=============================================================================
