---------------------------- MODULE ImagesProofs ----------------------------
(***************************************************************************)
(* Proofs about the contents of pages and files, for every size of pages,  *)
(* memory and alphabet.  They rest on the invariant of the shell, which    *)
(* module Images inherits because each of its steps is one of the shell's. *)
(***************************************************************************)
EXTENDS Images, MemoryProofs

\* Every step of Images is a step of the shell, or leaves its variables alone.
LEMMA StepOfClient ==
  ASSUME [ImagesNext]_imagesVars
  PROVE  [Next]_vars
<1>1. CASE UNCHANGED imagesVars
  BY <1>1 DEF imagesVars
<1>2. CASE NoByteTouched
  BY <1>2 DEF NoByteTouched, Next
<1>3. CASE \E pid \in TypedPids, file \in FileNames : StoreImage(pid, file)
  BY <1>3 DEF StoreImage, Next
<1>4. CASE \E file \in FileNames : LoadImage(file)
  BY <1>4 DEF LoadImage, Next
<1>5. CASE ExitAll
  BY <1>5 DEF ExitAll, Next
<1> QED BY <1>1, <1>2, <1>3, <1>4, <1>5 DEF ImagesNext

\* The shell with contents is the shell: what is proved of Spec holds of it.
THEOREM ImagesRefineClient == ImagesSpec => Spec
<1>1. ImagesInit => Init
  BY DEF ImagesInit
<1>2. [ImagesNext]_imagesVars => [Next]_vars
  BY StepOfClient
<1> QED BY <1>1, <1>2, PTL DEF ImagesSpec, Spec

\* The invariants of the shell that the addresses of a process rest on.
LEMMA AddressesKnown == ImagesSpec => [](IInv /\ Backed)
BY ImagesRefineClient, Invariant, AlwaysBacked, PTL

-----------------------------------------------------------------------------
(* Addresses. *)

\* A physical address tells its page and its offset.
LEMMA AddressParts ==
  ASSUME NEW pt, NEW addr \in Nat, pt.table[addr \div SIZE_OF_PAGE] \in UserPages
  PROVE  /\ RealAddr(pt, addr) \in UserBytes
         /\ RealAddr(pt, addr) \div SIZE_OF_PAGE = pt.table[addr \div SIZE_OF_PAGE]
         /\ RealAddr(pt, addr) % SIZE_OF_PAGE = addr % SIZE_OF_PAGE
<1> DEFINE P == SIZE_OF_PAGE
           S == START_PAGE_OF_USER
           N == NUM_OF_PAGE_FOR_USER
           page == pt.table[addr \div P]
           r == addr % P
<1>1. P \in Nat \ {0} /\ S \in Nat \ {0} /\ N \in Nat \ {0}
  BY KernelAssumption
<1>2. page \in S .. S + N - 1 /\ page \in Nat
  BY <1>1 DEF UserPages
<1>3. r \in 0 .. P - 1
  <2>1. addr \in Int
    OBVIOUS
  <2> HIDE DEF P
  <2> QED BY <1>1, <2>1, ModRange
<1>4. RealAddr(pt, addr) = page * P + r
  BY DEF RealAddr
<1> HIDE DEF page, r
<1>5. S * P <= page * P
  BY <1>1, <1>2, ProductLeq
<1>6. (page + 1) * P <= (S + N) * P
  BY <1>1, <1>2, ProductLeq
<1>7. (page + 1) * P = page * P + P /\ (S + N) * P = S * P + N * P
  BY <1>1, <1>2
<1>8. page * P \in Nat /\ S * P \in Nat /\ N * P \in Nat
  BY <1>1, <1>2
<1>9. UserBytes = S * P .. S * P + N * P - 1
  BY <1>1, <1>8 DEF UserBytes, USER_ADDR_OFFSET, MEMORY_CAPACITY, USER_CAPACITY
<1>10. page * P + r \in UserBytes
  BY <1>1, <1>3, <1>5, <1>6, <1>7, <1>8, <1>9
<1>11. (page * P + r) \div P = page /\ (page * P + r) % P = r
  BY <1>1, <1>2, <1>3, DivMod
<1> QED BY <1>4, <1>10, <1>11 DEF page, r

\* An address is its quotient and its remainder.
LEMMA AddressWhole ==
  ASSUME NEW a \in Nat, NEW b \in Nat,
         a \div SIZE_OF_PAGE = b \div SIZE_OF_PAGE, a % SIZE_OF_PAGE = b % SIZE_OF_PAGE
  PROVE  a = b
<1>1. SIZE_OF_PAGE \in Nat \ {0}
  BY KernelAssumption
<1>2. \A c \in Nat : c = (c \div SIZE_OF_PAGE) * SIZE_OF_PAGE + (c % SIZE_OF_PAGE)
  BY <1>1
<1> QED BY <1>2

\* A number of pages times their size is a number of bytes.
LEMMA ProductNat ==
  ASSUME NEW a \in Nat, NEW b \in Nat
  PROVE  a * b \in Nat
OBVIOUS

\* The addresses below a size that is backed lie in mapped pages.
LEMMA AddressMapped ==
  ASSUME NEW pt \in PageTables, Dense(pt), NEW bytes \in Nat,
         bytes <= pt.size * SIZE_OF_PAGE, NEW k \in 1 .. bytes
  PROVE  /\ k - 1 \in Nat
         /\ (k - 1) \div SIZE_OF_PAGE \in Entries
         /\ (k - 1) \div SIZE_OF_PAGE < pt.size
         /\ pt.table[(k - 1) \div SIZE_OF_PAGE] \in UserPages
<1> DEFINE i == (k - 1) \div SIZE_OF_PAGE
<1>1. k - 1 \in 0 .. bytes - 1 /\ k - 1 \in Nat
  OBVIOUS
<1>2. SIZE_OF_PAGE \in Nat \ {0} /\ pt.size \in 0 .. PAGE_CAPACITY /\ PAGE_CAPACITY \in Nat
  BY Constants DEF PageTables
<1>3. i < pt.size /\ pt.table[i] # PAGE_NOT_USED
  BY <1>1, DenseTranslates DEF Translates
<1>4. i \in Nat
  BY <1>1, <1>2, DivRange
<1>5. i \in Entries
  BY <1>2, <1>3, <1>4 DEF Entries
<1>6. pt.table[i] \in UserPages
  BY <1>3, <1>5 DEF PageTables
<1> QED BY <1>1, <1>3, <1>5, <1>6

-----------------------------------------------------------------------------
(* What the steps do. *)

\* The pages a process has stay where they are as long as it lives.
LEMMA EntriesStay ==
  ASSUME IInv, [Next]_vars, NEW p \in Pids, Running(p), PCBs'[p].pid = p,
         NEW i \in Entries, i < PCBs[p].page_table.size
  PROVE  PCBs'[p].page_table.table[i] = PCBs[p].page_table.table[i]
<1> DEFINE pt == PCBs[p].page_table
<1>1. p # MAX_PID
  BY Constants
<1>2. CASE MovesNoPage
  BY <1>2 DEF MovesNoPage
<1>3. ASSUME NEW q \in Pids, NEW n \in 0 .. BASE_MOD - 1, GrantsPages(q, n)
      PROVE  PCBs'[p].page_table.table[i] = pt.table[i]
  <2>1. CASE q # p
    BY <1>3, <2>1 DEF GrantsPages
  <2>2. CASE q = p
    <3>1. AllocateFault(p, n) = "none" /\ PCBs'[p].page_table = GrownTable(p, n)
      BY <1>3, <2>2 DEF GrantsPages
    <3>2. PagesTaken(n) \in 1 .. Len(pt.queue) /\ PagesTaken(n) <= Len(mem_queue)
      BY <3>1, AllocateGoesThrough
    <3>3. pt \in PageTables /\ Dense(pt) /\ mem_queue \in Seq(UserPages)
      BY TableShape DEF IInv, KernelTypeOK
    <3>4. WritePageTable(pt, PagesTaken(n)).table[i] = pt.table[i]
      <4> HIDE DEF pt
      <4>1. i < pt.size
        BY DEF pt
      <4>2. ~(pt.size <= i)
        BY <3>3, <4>1, PageNotUsed DEF PageTables, Entries
      <4> QED BY <3>2, <3>3, <4>2, WriteDense
    <3> QED BY <3>1, <3>4 DEF GrownTable
  <2> QED BY <2>1, <2>2
<1>4. ASSUME NEW q \in Pids, Destroy(q)
      PROVE  PCBs'[p].page_table.table[i] = pt.table[i]
  <2>1. PCBs' = [PCBs EXCEPT ![q] = IdlePCB] /\ PCBs \in [Pids -> ControlBlocks]
    BY <1>4 DEF Destroy, IInv, KernelTypeOK
  <2>2. IdlePCB.pid = MAX_PID
    BY DEF IdlePCB
  <2>3. q # p
    BY <1>1, <2>1, <2>2
  <2> QED BY <2>1, <2>3
<1>5. ~Exit
  <2>1. IdlePCB.pid = MAX_PID
    BY DEF IdlePCB
  <2> QED BY <1>1, <2>1 DEF Exit
<1> QED BY <1>2, <1>3, <1>4, <1>5, PageSteps

\* sd leaves the kernel alone, and fills only through a live process.
LEMMA SdOutcome ==
  ASSUME IInv, NEW typed \in TypedPids, NEW file \in FileNames, Sd(typed, file)
  PROVE  LET p == procList[PidArg(typed)]
         IN  /\ UNCHANGED kernelVars
             /\ reply' \in {"success", "store failed"} => p \in Pids
             /\ reply' = "success" => disk' = [disk EXCEPT ![file] = procSize[p]]
             /\ reply' # "success" => UNCHANGED disk
<1> DEFINE slot == PidArg(typed)
           p == procList[slot]
<1>1. slot < MAX_PID /\ p # NULL => p \in Pids
  BY TypedArguments, ListedProcess
<1>2. CASE Refuse("pid is unvalid") \/ Refuse("process not exist")
  BY <1>2 DEF Refuse
<1>3. CASE \E fault : Die(fault)
  BY <1>3 DEF Die
<1>4. CASE slot < MAX_PID /\ p # NULL /\ Refuse("store failed")
  BY <1>1, <1>4 DEF Refuse
<1>5. CASE /\ slot < MAX_PID /\ p # NULL
           /\ disk' = [disk EXCEPT ![file] = procSize[p]]
           /\ reply' = "success"
           /\ UNCHANGED kernelVars
  BY <1>1, <1>5
<1> HIDE DEF slot
<1> QED BY <1>2, <1>3, <1>4, <1>5 DEF Sd, slot

\* ld leaves the kernel alone or loads a process of the file's size.
LEMMA LdOutcome ==
  ASSUME IInv, NEW file \in FileNames, Ld(file)
  PROVE  /\ UNCHANGED disk
         /\ reply' = "success" =>
              /\ status' = status
              /\ pidQueue # <<>>
              /\ disk[file] \in 0 .. MAX_SIZE_OF_PROGRAM
              /\ disk[file] # NULL
              /\ LoadFault(Head(pidQueue), disk[file]) = "none"
              /\ Load(Head(pidQueue), disk[file])
<1> DEFINE bytes == disk[file]
           fault == ReadFault(Head(pidQueue), bytes)
<1>1. CASE Refuse("load failed")
  BY <1>1 DEF Refuse
<1>2. CASE reply' = "load failed" /\ UNCHANGED disk
  BY <1>2
<1>3. CASE /\ bytes # NULL /\ ~TooLarge(bytes)
           /\ CanStart
           /\ Start(bytes, fault)
  <2>1. bytes \in Nat
    BY <1>3 DEF IInv, ShellTypeOK
  <2>2. bytes \in 0 .. MAX_SIZE_OF_PROGRAM
    BY <1>3, <2>1, Constants DEF TooLarge
  <2>3. fault = "none" => LoadFault(Head(pidQueue), bytes) = "none"
    BY FaultLabels
  <2>4. CASE Die(fault)
    BY <2>4 DEF Die
  <2>5. CASE /\ fault = "none" /\ Load(Head(pidQueue), bytes)
             /\ UNCHANGED <<disk, streams, status>>
    BY <1>3, <2>2, <2>3, <2>5 DEF CanStart
  <2> HIDE DEF bytes, fault
  <2> QED BY <1>3, <2>4, <2>5 DEF Start
<1> QED BY <1>1, <1>2, <1>3 DEF Ld

\* The process ld creates: an idle pid gets a table that backs the image.
LEMMA NewProcess ==
  ASSUME IInv, Backed, NEW file \in FileNames, Ld(file), reply' = "success"
  PROVE  LET h == Head(pidQueue)
             pt == PCBs'[h].page_table
         IN  /\ h \in Pids /\ ~Running(h)
             /\ pt \in PageTables /\ Dense(pt)
             /\ disk[file] \in Nat /\ disk[file] # NULL
             /\ procSize'[h] = disk[file]
             /\ disk[file] <= pt.size * SIZE_OF_PAGE
<1> DEFINE h == Head(pidQueue)
           bytes == disk[file]
<1>1. /\ status' = status /\ pidQueue # <<>>
      /\ bytes \in 0 .. MAX_SIZE_OF_PROGRAM /\ bytes # NULL
      /\ LoadFault(h, bytes) = "none" /\ Load(h, bytes)
  BY LdOutcome
<1> HIDE DEF bytes
<1>2. KernelTypeOK' /\ TablesDense' /\ h \in Pids /\ ~Running(h)
  BY <1>1, LoadKeepsPages
<1>3. PCBs'[h].page_table \in PageTables /\ Dense(PCBs'[h].page_table)
  BY <1>2 DEF KernelTypeOK, ControlBlocks, TablesDense
<1>4. procSize'[h] = bytes
  BY <1>1, <1>2 DEF Load, IInv, KernelTypeOK
<1>5. Backed'
  <2>1. [Next]_vars
    BY DEF Next
  <2> QED BY <2>1, StepBacked
<1>6. bytes <= PCBs'[h].page_table.size * SIZE_OF_PAGE
  BY <1>2, <1>4, <1>5 DEF Backed
<1> QED BY <1>1, <1>2, <1>3, <1>4, <1>6, Constants DEF bytes

-----------------------------------------------------------------------------
(* What the contents are. *)

Byte == (0 .. ALPHABET - 1) \cup {Blank}

\* The memory and the files hold bytes, a file as many as it is long.
ContentsTyped ==
  /\ memory \in [UserBytes -> Byte]
  /\ image \in [FileNames -> Seq(Byte)]
  /\ \A file \in FileNames :
       Len(image[file]) = IF disk[file] = NULL THEN 0 ELSE disk[file]

\* A letter of the pattern is a byte.
LEMMA LetterByte ==
  ASSUME NEW i \in Int
  PROVE  Letter(i) \in Byte
BY ImagesAssumption, ModRange DEF Letter, Byte

\* The fill of sd leaves bytes in the memory.
LEMMA FilledTyped ==
  ASSUME IInv, ContentsTyped, NEW p \in Pids
  PROVE  Filled(p) \in [UserBytes -> Byte]
<1> DEFINE pt == PCBs[p].page_table
           start == RealAddr(pt, 0)
           end == start + procSize[p] - 1
<1>1. UserBytes \subseteq Int
  BY DEF UserBytes
<1>2. ASSUME NEW a \in UserBytes, a \in start .. end
      PROVE  Letter(a - start) \in Byte
  <2>1. SIZE_OF_PAGE \in Nat \ {0} /\ 0 \div SIZE_OF_PAGE = 0 /\ 0 % SIZE_OF_PAGE = 0
    BY Constants
  <2>2. pt.table[0] \in Int
    <3>1. 0 \in Entries
      BY Constants DEF Entries
    <3>2. pt.table[0] \in UserPages \cup {PAGE_NOT_USED}
      BY <3>1, TableShape DEF PageTables
    <3>3. PAGE_NOT_USED \in Int
      BY Constants DEF PAGE_NOT_USED
    <3>4. UserPages \subseteq Int
      BY PageNotUsed
    <3> HIDE DEF pt
    <3> QED BY <3>2, <3>3, <3>4
  <2>3. start = pt.table[0] * SIZE_OF_PAGE + 0
    BY <2>1 DEF RealAddr
  <2>4. start \in Int /\ a \in Int
    <3> HIDE DEF pt, start
    <3> QED BY <1>1, <2>1, <2>2, <2>3
  <2>5. a - start \in Int
    <3> HIDE DEF pt, start
    <3> QED BY <2>4
  <2> HIDE DEF pt, start
  <2> QED BY <2>5, LetterByte
<1>3. Filled(p) = [a \in UserBytes |-> IF a \in start .. end THEN Letter(a - start) ELSE memory[a]]
  BY DEF Filled
<1>4. \A a \in UserBytes : memory[a] \in Byte
  BY DEF ContentsTyped
<1> HIDE DEF start, end
<1> QED BY <1>2, <1>3, <1>4

\* What sd writes to a file: as many bytes as the process is long.
LEMMA StoredTyped ==
  ASSUME NEW mem \in [UserBytes -> Byte], NEW pt \in PageTables, Dense(pt),
         NEW bytes \in Nat, bytes <= pt.size * SIZE_OF_PAGE
  PROVE  /\ Stored(mem, pt, bytes) \in Seq(Byte)
         /\ Len(Stored(mem, pt, bytes)) = bytes
<1>1. ASSUME NEW k \in 1 .. bytes
      PROVE  mem[RealAddr(pt, k - 1)] \in Byte
  BY AddressMapped, AddressParts
<1>2. Stored(mem, pt, bytes) = [k \in 1 .. bytes |-> mem[RealAddr(pt, k - 1)]]
  BY DEF Stored
<1> QED BY <1>1, <1>2, IsASeq

\* Copying an image into memory leaves bytes there.
LEMMA RestoredTyped ==
  ASSUME ContentsTyped, NEW pt, NEW bytes \in Seq(Byte)
  PROVE  Restored(pt, bytes) \in [UserBytes -> Byte]
<1> DEFINE at(a) == CHOOSE k \in DOMAIN bytes : RealAddr(pt, k - 1) = a
<1>1. ASSUME NEW a \in UserBytes, \E k \in DOMAIN bytes : RealAddr(pt, k - 1) = a
      PROVE  bytes[at(a)] \in Byte
  <2>1. at(a) \in DOMAIN bytes
    BY <1>1
  <2> HIDE DEF at
  <2> QED BY <2>1, LenProperties, ElementOfSeq
<1>2. Restored(pt, bytes) =
        [a \in UserBytes |->
           IF \E k \in DOMAIN bytes : RealAddr(pt, k - 1) = a THEN bytes[at(a)] ELSE memory[a]]
  BY DEF Restored
<1>3. \A a \in UserBytes : memory[a] \in Byte
  BY DEF ContentsTyped
<1> HIDE DEF at
<1> QED BY <1>1, <1>2, <1>3

\* Files and memory keep their types.
LEMMA StepTyped ==
  ASSUME IInv, Backed, ContentsTyped, [ImagesNext]_imagesVars
  PROVE  ContentsTyped'
<1>1. CASE UNCHANGED <<disk, memory, image>>
  BY <1>1 DEF ContentsTyped
<1>2. CASE UNCHANGED imagesVars
  BY <1>1, <1>2 DEF imagesVars, vars, shellVars
<1>3. CASE NoByteTouched /\ UNCHANGED <<memory, image, written>>
  <2>1. UNCHANGED disk
    BY <1>3 DEF NoByteTouched, Cp, Dp, Pa, Refuse, Start, Die
  <2> QED BY <1>1, <1>3, <2>1
<1>4. ASSUME NEW typed \in TypedPids, NEW file \in FileNames, StoreImage(typed, file)
      PROVE  ContentsTyped'
  <2> DEFINE p == procList[PidArg(typed)]
             pt == PCBs[p].page_table
             bytes == Stored(memory', pt, procSize[p])
  <2>1. /\ reply' \in {"success", "store failed"} => p \in Pids
        /\ reply' = "success" => disk' = [disk EXCEPT ![file] = procSize[p]]
        /\ reply' # "success" => UNCHANGED disk
    BY <1>4, SdOutcome DEF StoreImage
  <2>2. memory' \in [UserBytes -> Byte]
    BY <1>4, <2>1, FilledTyped DEF StoreImage, ContentsTyped
  <2>3. CASE reply' # "success"
    BY <1>4, <2>1, <2>2, <2>3 DEF StoreImage, ContentsTyped
  <2>4. CASE reply' = "success"
    <3>1. /\ p \in Pids
          /\ disk' = [disk EXCEPT ![file] = procSize[p]]
          /\ image' = [image EXCEPT ![file] = bytes]
      BY <1>4, <2>1, <2>4 DEF StoreImage
    <3>2. procSize[p] \in Nat /\ procSize[p] <= pt.size * SIZE_OF_PAGE
      <4>1. \A q \in Pids :
              procSize[q] \in Nat /\ procSize[q] <= PCBs[q].page_table.size * SIZE_OF_PAGE
        BY Constants DEF IInv, KernelTypeOK, Backed
      <4> HIDE DEF p
      <4> QED BY <3>1, <4>1
    <3>3. bytes \in Seq(Byte) /\ Len(bytes) = procSize[p]
      BY <2>2, <3>1, <3>2, TableShape, StoredTyped
    <3>4. procSize[p] # NULL
      BY <3>2, ClientAssumption
    <3>5. disk \in [FileNames -> Nat \cup {NULL}]
      BY DEF IInv, ShellTypeOK
    <3> HIDE DEF bytes, p
    <3> QED BY <2>2, <3>1, <3>3, <3>4, <3>5 DEF ContentsTyped
  <2> QED BY <2>3, <2>4
<1>5. ASSUME NEW file \in FileNames, LoadImage(file)
      PROVE  ContentsTyped'
  <2>1. UNCHANGED disk /\ UNCHANGED image
    BY <1>5, LdOutcome DEF LoadImage
  <2>2. memory' \in [UserBytes -> Byte]
    <3>1. image[file] \in Seq(Byte)
      BY DEF ContentsTyped
    <3> QED BY <1>5, <3>1, RestoredTyped DEF LoadImage, ContentsTyped
  <2> QED BY <2>1, <2>2 DEF ContentsTyped
<1>6. CASE ExitAll
  <2>1. Blank \in Byte
    BY DEF Byte
  <2> QED BY <1>6, <2>1 DEF ExitAll, Exit, ContentsTyped
<1> QED BY <1>2, <1>3, <1>4, <1>5, <1>6 DEF ImagesNext

\* Files and memory have their types from the start.
LEMMA AlwaysTyped == ImagesSpec => []ContentsTyped
<1>1. ImagesInit => ContentsTyped
  <2> SUFFICES ASSUME ImagesInit
               PROVE  ContentsTyped
    OBVIOUS
  <2>1. Blank \in Byte
    BY DEF Byte
  <2>2. ASSUME NEW file \in FileNames
        PROVE  /\ image[file] \in Seq(Byte)
               /\ Len(image[file]) = IF disk[file] = NULL THEN 0 ELSE disk[file]
    <3>1. CASE disk[file] = NULL
      BY <3>1, EmptySeq DEF ImagesInit
    <3>2. CASE disk[file] # NULL
      <4>1. disk[file] \in Nat
        BY <3>2, Constants DEF ImagesInit, Init
      <4>2. image[file] = [k \in 1 .. disk[file] |-> Blank]
        BY <3>2 DEF ImagesInit, Blanks
      <4> QED BY <2>1, <3>2, <4>1, <4>2, IsASeq
    <3> QED BY <3>1, <3>2
  <2> QED BY <2>1, <2>2 DEF ImagesInit, ContentsTyped
<1>2. IInv /\ Backed /\ ContentsTyped /\ [ImagesNext]_imagesVars => ContentsTyped'
  BY StepTyped
<1> QED BY <1>1, <1>2, AddressesKnown, PTL DEF ImagesSpec

-----------------------------------------------------------------------------
(* Isolation. *)

\* The addresses of the process ld creates are no other process's.
LEMMA NewAddresses ==
  ASSUME IInv, Backed, IInv', NEW file \in FileNames, Ld(file), reply' = "success",
         NEW p \in Pids, Running(p), PCBs'[p].pid = p,
         NEW k \in 1 .. procSize[p], NEW m \in 1 .. disk[file]
  PROVE  RealAddr(PCBs'[Head(pidQueue)].page_table, m - 1)
           # RealAddr(PCBs[p].page_table, k - 1)
<1> DEFINE h == Head(pidQueue)
           pt == PCBs[p].page_table
           new == PCBs'[h].page_table
           i == (k - 1) \div SIZE_OF_PAGE
           j == (m - 1) \div SIZE_OF_PAGE
<1>1. /\ h \in Pids /\ ~Running(h)
      /\ new \in PageTables /\ Dense(new)
      /\ disk[file] \in Nat /\ disk[file] <= new.size * SIZE_OF_PAGE
  BY NewProcess
<1>2. /\ pt \in PageTables /\ Dense(pt)
      /\ procSize[p] \in Nat /\ procSize[p] <= pt.size * SIZE_OF_PAGE
  BY TableShape, Constants DEF IInv, KernelTypeOK, Backed
<1>3. k - 1 \in Nat /\ i \in Entries /\ i < pt.size /\ pt.table[i] \in UserPages
  <2> HIDE DEF pt
  <2> QED BY <1>2, AddressMapped
<1>4. m - 1 \in Nat /\ j \in Entries /\ new.table[j] \in UserPages
  <2> HIDE DEF new
  <2> QED BY <1>1, AddressMapped
<1>5. SUFFICES ASSUME RealAddr(new, m - 1) = RealAddr(pt, k - 1)
               PROVE  FALSE
  OBVIOUS
<1>6. new.table[j] = pt.table[i]
  BY <1>3, <1>4, <1>5, AddressParts
<1>7. PCBs'[p].page_table.table[i] = pt.table[i]
  <2>1. [Next]_vars
    BY DEF Next
  <2> QED BY <1>3, <2>1, EntriesStay
<1>8. MappedPagesDistinct'
  BY DEF IInv, Consistent, PageConservation
<1>9. PCBs'[h].page_table.table[j] # PAGE_NOT_USED
  BY <1>4, PageNotUsed
<1>10. PCBs'[h].page_table.table[j] = PCBs'[p].page_table.table[i]
  BY <1>6, <1>7
<1>11. h = p
  <2> HIDE DEF h, i, j
  <2> QED BY <1>1, <1>3, <1>4, <1>8, <1>9, <1>10 DEF MappedPagesDistinct
<1> QED BY <1>1, <1>11

\* ld writes where no process that already lives has its bytes.
LEMMA LoadSpares ==
  ASSUME IInv, Backed, IInv', ContentsTyped, NEW file \in FileNames, LoadImage(file),
         NEW p \in Pids, Running(p), PCBs'[p].pid = p, NEW k \in 1 .. procSize[p]
  PROVE  memory'[RealAddr(PCBs[p].page_table, k - 1)] = memory[RealAddr(PCBs[p].page_table, k - 1)]
<1> DEFINE pt == PCBs[p].page_table
           new == PCBs'[Head(pidQueue)].page_table
           a == RealAddr(pt, k - 1)
<1>1. CASE reply' # "success"
  BY <1>1 DEF LoadImage
<1>2. CASE reply' = "success"
  <2>1. Ld(file) /\ memory' = Restored(new, image[file])
    BY <1>2 DEF LoadImage
  <2>2. DOMAIN image[file] = 1 .. disk[file]
    <3>1. disk[file] # NULL
      BY <1>2, <2>1, NewProcess
    <3>2. image[file] \in Seq(Byte) /\ Len(image[file]) = disk[file]
      BY <3>1 DEF ContentsTyped
    <3> QED BY <3>2, LenProperties
  <2>3. ~ \E m \in DOMAIN image[file] : RealAddr(new, m - 1) = a
    BY <1>2, <2>1, <2>2, NewAddresses
  <2>4. a \in UserBytes
    <3>1. /\ pt \in PageTables /\ Dense(pt)
          /\ procSize[p] \in Nat /\ procSize[p] <= pt.size * SIZE_OF_PAGE
      BY TableShape, Constants DEF IInv, KernelTypeOK, Backed
    <3> HIDE DEF pt
    <3> QED BY <3>1, AddressMapped, AddressParts
  <2> HIDE DEF a, new
  <2> QED BY <2>1, <2>3, <2>4 DEF Restored, a
<1> QED BY <1>1, <1>2

\* No step but sd changes what a process finds at an address it has.
LEMMA StepKeepsContents ==
  ASSUME IInv, Backed, IInv', ContentsTyped, [ImagesNext]_imagesVars,
         ~ \E pid \in TypedPids, file \in FileNames : StoreImage(pid, file),
         NEW p \in Pids, Running(p), PCBs'[p].pid = p
  PROVE  KeepsContents(p)
<1> SUFFICES ASSUME NEW k \in 1 .. procSize[p]
             PROVE  memory'[RealAddr(PCBs'[p].page_table, k - 1)]
                      = memory[RealAddr(PCBs[p].page_table, k - 1)]
  BY DEF KeepsContents
<1> DEFINE pt == PCBs[p].page_table
           i == (k - 1) \div SIZE_OF_PAGE
<1>1. [Next]_vars
  BY StepOfClient
<1>2. i \in Entries /\ i < pt.size
  <2>1. /\ pt \in PageTables /\ Dense(pt)
        /\ procSize[p] \in Nat /\ procSize[p] <= pt.size * SIZE_OF_PAGE
    BY TableShape, Constants DEF IInv, KernelTypeOK, Backed
  <2> HIDE DEF pt
  <2> QED BY <2>1, AddressMapped
<1>3. RealAddr(PCBs'[p].page_table, k - 1) = RealAddr(pt, k - 1)
  BY <1>1, <1>2, EntriesStay DEF RealAddr
<1>4. memory'[RealAddr(pt, k - 1)] = memory[RealAddr(pt, k - 1)]
  <2>1. CASE UNCHANGED memory
    BY <2>1
  <2>2. ASSUME NEW file \in FileNames, LoadImage(file)
        PROVE  memory'[RealAddr(pt, k - 1)] = memory[RealAddr(pt, k - 1)]
    BY <2>2, LoadSpares
  <2>3. ~ExitAll
    <3>1. IdlePCB.pid = MAX_PID /\ p # MAX_PID
      BY Constants DEF IdlePCB
    <3> QED BY <3>1 DEF ExitAll, Exit
  <2> QED BY <2>1, <2>2, <2>3 DEF ImagesNext, imagesVars
<1> QED BY <1>3, <1>4

\* For every memory and every page size, only sd changes what a living process
\* finds in its address space.
THEOREM ContentsAreKept == ImagesSpec => ContentsSurvive
<1>1. IInv /\ Backed /\ IInv' /\ ContentsTyped /\ [ImagesNext]_imagesVars =>
        [\/ \E pid \in TypedPids, file \in FileNames : StoreImage(pid, file)
         \/ \A p \in Pids : Running(p) /\ PCBs'[p].pid = p => KeepsContents(p)]_imagesVars
  BY StepKeepsContents
<1> QED BY <1>1, AddressesKnown, AlwaysTyped, PTL DEF ImagesSpec, ContentsSurvive

-----------------------------------------------------------------------------
(* What is stored and loaded. *)

\* Two addresses of one process differ.
LEMMA OneAddress ==
  ASSUME NEW pt \in PageTables, Dense(pt), NEW bytes \in Nat,
         bytes <= pt.size * SIZE_OF_PAGE,
         \A i, j \in Entries :
           pt.table[i] = pt.table[j] /\ pt.table[i] # PAGE_NOT_USED => i = j,
         NEW k \in 1 .. bytes, NEW m \in 1 .. bytes,
         RealAddr(pt, k - 1) = RealAddr(pt, m - 1)
  PROVE  k = m
<1> DEFINE i == (k - 1) \div SIZE_OF_PAGE
           j == (m - 1) \div SIZE_OF_PAGE
<1>1. k - 1 \in Nat /\ i \in Entries /\ pt.table[i] \in UserPages
  BY AddressMapped
<1>2. m - 1 \in Nat /\ j \in Entries /\ pt.table[j] \in UserPages
  BY AddressMapped
<1>3. pt.table[i] = pt.table[j] /\ (k - 1) % SIZE_OF_PAGE = (m - 1) % SIZE_OF_PAGE
  BY <1>1, <1>2, AddressParts
<1>4. i = j
  BY <1>1, <1>2, <1>3, PageNotUsed
<1>5. k - 1 = m - 1
  BY <1>1, <1>2, <1>3, <1>4, AddressWhole
<1> QED BY <1>5

\* The copy of ld, read back through the page table, is the image.
LEMMA LoadedIsImage ==
  ASSUME IInv, Backed, IInv', ContentsTyped, NEW file \in FileNames,
         LoadImage(file), reply' = "success"
  PROVE  LET p == Head(pidQueue)
         IN  /\ procSize'[p] = Len(image[file])
             /\ Stored(memory', PCBs'[p].page_table, procSize'[p]) = image[file]
<1> DEFINE h == Head(pidQueue)
           new == PCBs'[h].page_table
           bytes == image[file]
           n == disk[file]
<1>1. Ld(file) /\ memory' = Restored(new, bytes)
  BY DEF LoadImage
<1>2. /\ h \in Pids
      /\ new \in PageTables /\ Dense(new)
      /\ n \in Nat /\ n # NULL /\ procSize'[h] = n
      /\ n <= new.size * SIZE_OF_PAGE
  BY <1>1, NewProcess
<1>3. bytes \in Seq(Byte) /\ Len(bytes) = n
  BY <1>2 DEF ContentsTyped
<1>4. DOMAIN bytes = 1 .. n /\ bytes \in [1 .. n -> Byte]
  BY <1>3, LenProperties
<1>5. \A i, j \in Entries :
        new.table[i] = new.table[j] /\ new.table[i] # PAGE_NOT_USED => i = j
  BY <1>2 DEF IInv, Consistent, PageConservation, MappedPagesDistinct
<1> HIDE DEF new, bytes, n
<1>6. ASSUME NEW k \in 1 .. n
      PROVE  memory'[RealAddr(new, k - 1)] = bytes[k]
  <2> DEFINE a == RealAddr(new, k - 1)
             m == CHOOSE m \in DOMAIN bytes : RealAddr(new, m - 1) = a
  <2>1. a \in UserBytes
    BY <1>2, AddressMapped, AddressParts
  <2>2. k \in DOMAIN bytes /\ RealAddr(new, k - 1) = a
    BY <1>4
  <2>3. m \in 1 .. n /\ RealAddr(new, m - 1) = a
    BY <1>4, <2>2
  <2>4. m = k
    <3> HIDE DEF m
    <3> QED BY <1>2, <1>5, <2>3, OneAddress
  <2>5. Restored(new, bytes)[a] = bytes[m]
    <3> HIDE DEF a
    <3> QED BY <2>1, <2>2 DEF Restored
  <2> QED BY <1>1, <2>4, <2>5
<1>7. Stored(memory', new, n) = [k \in 1 .. n |-> bytes[k]]
  BY <1>6 DEF Stored
<1>8. [k \in 1 .. n |-> bytes[k]] = bytes
  BY <1>4
<1>9. procSize'[h] = n /\ Len(bytes) = n /\ Stored(memory', new, n) = bytes
  BY <1>2, <1>3, <1>7, <1>8
<1> QED BY <1>9 DEF new, bytes

\* ld restores every image byte for byte, for every size and every choice of
\* pages.
THEOREM LoadsRestore == ImagesSpec => LoadRestores
<1> DEFINE Restores ==
             \A file \in FileNames :
               LoadImage(file) /\ reply' = "success" =>
                 LET p == Head(pidQueue)
                 IN  /\ procSize'[p] = Len(image[file])
                     /\ Stored(memory', PCBs'[p].page_table, procSize'[p]) = image[file]
<1>1. IInv /\ Backed /\ IInv' /\ ContentsTyped /\ [ImagesNext]_imagesVars =>
        [Restores]_imagesVars
  BY LoadedIsImage
<1> QED BY <1>1, AddressesKnown, AlwaysTyped, PTL DEF ImagesSpec, LoadRestores

\* What sd fills is what it writes, in the first page at least.
LEMMA FilledFirst ==
  ASSUME IInv, Backed, NEW p \in Pids, NEW k \in 1 .. procSize[p],
         k <= SIZE_OF_PAGE
  PROVE  Filled(p)[RealAddr(PCBs[p].page_table, k - 1)] = Letter(k - 1)
<1> DEFINE pt == PCBs[p].page_table
           a == RealAddr(pt, k - 1)
           start == RealAddr(pt, 0)
<1>1. /\ pt \in PageTables /\ Dense(pt)
      /\ procSize[p] \in Nat /\ procSize[p] <= pt.size * SIZE_OF_PAGE
      /\ SIZE_OF_PAGE \in Nat \ {0}
  BY TableShape, Constants DEF IInv, KernelTypeOK, Backed
<1> HIDE DEF pt
<1>2. k - 1 \in 0 .. SIZE_OF_PAGE - 1
  BY <1>1
<1>3. /\ (k - 1) \div SIZE_OF_PAGE = 0 /\ (k - 1) % SIZE_OF_PAGE = k - 1
      /\ 0 \div SIZE_OF_PAGE = 0 /\ 0 % SIZE_OF_PAGE = 0
  BY <1>1, <1>2
<1>4. pt.table[0] \in UserPages /\ a \in UserBytes
  BY <1>1, <1>3, AddressMapped, AddressParts
<1>5. pt.table[0] * SIZE_OF_PAGE \in Nat
  <2>1. pt.table[0] \in Nat
    BY <1>4, PageNotUsed
  <2> QED BY <1>1, <2>1, ProductNat
<1>6. a = pt.table[0] * SIZE_OF_PAGE + (k - 1) /\ start = pt.table[0] * SIZE_OF_PAGE + 0
  BY <1>3 DEF RealAddr
<1>7. a \in start .. start + procSize[p] - 1 /\ a - start = k - 1
  <2> HIDE DEF a, start
  <2> QED BY <1>1, <1>2, <1>5, <1>6
<1>8. Filled(p) = [b \in UserBytes |->
        IF b \in start .. start + procSize[p] - 1 THEN Letter(b - start) ELSE memory[b]]
  BY DEF Filled, pt
<1> HIDE DEF a, start
<1>9. Filled(p)[a] = Letter(k - 1)
  BY <1>4, <1>7, <1>8
<1> QED BY <1>9 DEF a, pt

\* Pages that follow one another are counted from the first: an entry that is
\* not would have a least one, and the entry before that one is.
LEMMA RowCounts ==
  ASSUME NEW pt \in PageTables, Dense(pt), InARow(pt),
         NEW i \in Nat, i < pt.size
  PROVE  pt.table[i] = pt.table[0] + i
<1> DEFINE Out == {j \in Nat : j < pt.size /\ pt.table[j] # pt.table[0] + j}
<1>1. pt.size \in 0 .. PAGE_CAPACITY /\ PAGE_CAPACITY \in Nat
  BY Constants DEF PageTables
<1>2. pt.table[0] \in Nat
  <2>1. 0 \in Entries /\ 0 < pt.size
    BY <1>1 DEF Entries
  <2>2. 0 \in Mapped(pt)
    BY <2>1 DEF Dense
  <2> QED BY <2>1, <2>2, PageNotUsed DEF Mapped, PageTables
<1> SUFFICES ASSUME Out # {}
             PROVE  FALSE
  OBVIOUS
<1>3. PICK j \in Out : \A m \in Out : j <= m
  <2>1. Out \in SUBSET Nat
    OBVIOUS
  <2> HIDE DEF Out
  <2> QED BY <2>1, LeastExists
<1>4. j \in Nat /\ j < pt.size /\ pt.table[j] # pt.table[0] + j
  BY <1>3
<1>5. j # 0
  BY <1>2, <1>4
<1>6. j - 1 \in Nat /\ j - 1 < pt.size /\ j - 1 \notin Out
  BY <1>1, <1>3, <1>4, <1>5
<1>7. pt.table[j - 1] = pt.table[0] + (j - 1)
  BY <1>6
<1>8. pt.table[j] = pt.table[j - 1] + 1
  BY <1>1, <1>4, <1>5 DEF InARow
<1> QED BY <1>2, <1>4, <1>7, <1>8

\* In such pages the address of a byte is the address of the first plus its
\* number.
LEMMA RowAddress ==
  ASSUME NEW pt \in PageTables, Dense(pt), InARow(pt), NEW bytes \in Nat,
         bytes <= pt.size * SIZE_OF_PAGE, NEW k \in 1 .. bytes
  PROVE  /\ RealAddr(pt, 0) \in Nat
         /\ RealAddr(pt, k - 1) = RealAddr(pt, 0) + (k - 1)
<1> DEFINE P == SIZE_OF_PAGE
           i == (k - 1) \div P
           r == (k - 1) % P
           first == pt.table[0]
<1>1. P \in Nat \ {0} /\ k - 1 \in Nat /\ i \in Nat /\ i < pt.size
  BY Constants, AddressMapped, DivRange
<1>2. 0 \div P = 0 /\ 0 % P = 0
  BY <1>1
<1>3. first \in Nat
  <2>1. 1 \in 1 .. bytes
    OBVIOUS
  <2>2. pt.table[(1 - 1) \div SIZE_OF_PAGE] \in UserPages
    BY <2>1, AddressMapped
  <2>3. first \in UserPages
    BY <1>2, <2>2
  <2> QED BY <2>3, PageNotUsed
<1>4. pt.table[i] = first + i
  BY <1>1, RowCounts
<1>5. RealAddr(pt, k - 1) = (first + i) * P + r
  BY <1>4 DEF RealAddr
<1>6. RealAddr(pt, 0) = first * P + 0
  BY <1>2 DEF RealAddr
<1>7. k - 1 = i * P + r /\ r \in Nat
  BY <1>1
<1> HIDE DEF first, i, r
<1>8. (first + i) * P = first * P + i * P
  BY <1>1, <1>3
<1>9. first * P \in Nat /\ i * P \in Nat
  BY <1>1, <1>3, ProductNat
<1> QED BY <1>5, <1>6, <1>7, <1>8, <1>9

\* What sd fills is what it writes, from end to end, when the pages follow one
\* another.
LEMMA FilledInARow ==
  ASSUME IInv, Backed, NEW p \in Pids, InARow(PCBs[p].page_table),
         NEW k \in 1 .. procSize[p]
  PROVE  Filled(p)[RealAddr(PCBs[p].page_table, k - 1)] = Letter(k - 1)
<1> DEFINE pt == PCBs[p].page_table
           a == RealAddr(pt, k - 1)
           start == RealAddr(pt, 0)
<1>1. /\ pt \in PageTables /\ Dense(pt)
      /\ procSize[p] \in Nat /\ procSize[p] <= pt.size * SIZE_OF_PAGE
  BY TableShape, Constants DEF IInv, KernelTypeOK, Backed
<1>2. InARow(pt)
  OBVIOUS
<1> HIDE DEF pt
<1>3. a \in UserBytes
  BY <1>1, AddressMapped, AddressParts
<1>4. start \in Nat /\ a = start + (k - 1)
  BY <1>1, <1>2, RowAddress
<1> HIDE DEF a, start
<1>5. a \in start .. start + procSize[p] - 1 /\ a - start = k - 1
  BY <1>1, <1>4
<1>6. Filled(p) = [b \in UserBytes |->
        IF b \in start .. start + procSize[p] - 1 THEN Letter(b - start) ELSE memory[b]]
  BY DEF Filled, pt, start
<1>7. Filled(p)[a] = Letter(k - 1)
  BY <1>3, <1>5, <1>6
<1> QED BY <1>7 DEF a, pt

\* What sd writes from pages in a row is the pattern.
LEMMA StoredIsInARow ==
  ASSUME IInv, Backed, ContentsTyped, NEW pid \in TypedPids, NEW file \in FileNames,
         StoreImage(pid, file), reply' = "success"
  PROVE  LET p == procList[PidArg(pid)]
         IN  InARow(PCBs[p].page_table) => image'[file] = Pattern(procSize[p])
<1> DEFINE p == procList[PidArg(pid)]
<1>1. /\ p \in Pids /\ memory' = Filled(p)
      /\ image' = [image EXCEPT ![file] = Stored(memory', PCBs[p].page_table, procSize[p])]
  BY SdOutcome DEF StoreImage
<1>2. image'[file] = Stored(memory', PCBs[p].page_table, procSize[p])
  BY <1>1 DEF ContentsTyped
<1> HIDE DEF p
<1>3. ASSUME InARow(PCBs[p].page_table)
      PROVE  image'[file] = Pattern(procSize[p])
  <2>1. \A k \in 1 .. procSize[p] :
          memory'[RealAddr(PCBs[p].page_table, k - 1)] = Letter(k - 1)
    BY <1>1, <1>3, FilledInARow
  <2> QED BY <1>2, <2>1 DEF Stored, Pattern
<1> QED BY <1>3 DEF p

\* sd writes the pattern its comment promises whenever the pages of the process
\* follow one another, for every size of pages, memory and alphabet.
THEOREM RowsStoreThePattern == ImagesSpec => StoredInARow
<1> DEFINE Patterned ==
             \A pid \in TypedPids, file \in FileNames :
               StoreImage(pid, file) /\ reply' = "success" =>
                 LET p == procList[PidArg(pid)]
                 IN  InARow(PCBs[p].page_table) => image'[file] = Pattern(procSize[p])
<1>1. IInv /\ Backed /\ ContentsTyped /\ [ImagesNext]_imagesVars => [Patterned]_imagesVars
  BY StoredIsInARow
<1> QED BY <1>1, AddressesKnown, AlwaysTyped, PTL DEF ImagesSpec, StoredInARow

\* What sd has stored begins with the pattern, in the first page at least.
Begun ==
  \A file \in FileNames : file \in written =>
    \A k \in DOMAIN image[file] : k <= SIZE_OF_PAGE => image[file][k] = Letter(k - 1)

\* What sd stores begins with the pattern, and no other command writes a file.
LEMMA StepBegun ==
  ASSUME IInv, Backed, ContentsTyped, Begun, [ImagesNext]_imagesVars
  PROVE  Begun'
<1>1. CASE UNCHANGED <<image, written>>
  BY <1>1 DEF Begun
<1>2. ASSUME NEW typed \in TypedPids, NEW name \in FileNames, StoreImage(typed, name),
             reply' = "success"
      PROVE  Begun'
  <2> DEFINE p == procList[PidArg(typed)]
             pt == PCBs[p].page_table
             n == procSize[p]
             bytes == Stored(memory', pt, n)
  <2>1. /\ p \in Pids /\ memory' = Filled(p)
        /\ image' = [image EXCEPT ![name] = bytes]
        /\ written' = written \cup {name}
    BY <1>2, SdOutcome DEF StoreImage
  <2>2. ASSUME NEW k \in DOMAIN bytes, k <= SIZE_OF_PAGE
        PROVE  bytes[k] = Letter(k - 1)
    <3>1. k \in 1 .. n /\ bytes[k] = memory'[RealAddr(pt, k - 1)]
      <4> HIDE DEF n, pt
      <4> QED BY DEF Stored
    <3>2. Filled(p)[RealAddr(pt, k - 1)] = Letter(k - 1)
      <4> HIDE DEF p
      <4> QED BY <2>1, <2>2, <3>1, FilledFirst
    <3> QED BY <2>1, <3>1, <3>2
  <2>3. image \in [FileNames -> Seq(Byte)]
    BY DEF ContentsTyped
  <2> SUFFICES ASSUME NEW file \in FileNames, file \in written',
                      NEW k \in DOMAIN image'[file], k <= SIZE_OF_PAGE
               PROVE  image'[file][k] = Letter(k - 1)
    BY DEF Begun
  <2> HIDE DEF bytes
  <2>4. CASE file = name
    <3>1. image'[file] = bytes
      BY <2>1, <2>3, <2>4
    <3> QED BY <2>2, <3>1
  <2>5. CASE file # name
    <3>1. image'[file] = image[file] /\ file \in written
      BY <2>1, <2>3, <2>5
    <3> QED BY <3>1 DEF Begun
  <2> QED BY <2>4, <2>5
<1>3. ASSUME NEW typed \in TypedPids, NEW name \in FileNames, StoreImage(typed, name),
             reply' # "success"
      PROVE  Begun'
  BY <1>1, <1>3 DEF StoreImage
<1> QED BY <1>1, <1>2, <1>3 DEF ImagesNext, imagesVars, LoadImage, ExitAll

\* It holds at boot, when sd has stored nothing, and for ever.
LEMMA AlwaysBegun == ImagesSpec => []Begun
<1>1. ImagesInit => Begun
  BY DEF ImagesInit, Begun
<1>2. IInv /\ Backed /\ ContentsTyped /\ Begun /\ [ImagesNext]_imagesVars => Begun'
  BY StepBegun
<1> QED BY <1>1, <1>2, AddressesKnown, AlwaysTyped, PTL DEF ImagesSpec

\* Files are as long as the disk says, and an image that sd stored, of whatever
\* length and from whatever pages, is the pattern as far as a page reaches.
THEOREM ImagesAlwaysVerify == ImagesSpec => []ImagesVerify
<1>1. ContentsTyped /\ Begun => ImagesVerify
  BY DEF ContentsTyped, Begun, ImagesVerify
<1> QED BY <1>1, AlwaysBegun, AlwaysTyped, PTL

\* The first page of a process is in one piece.
LEMMA FirstPage ==
  ASSUME NEW pt, NEW k \in 0 .. SIZE_OF_PAGE - 1, pt.table[0] \in UserPages
  PROVE  RealAddr(pt, 0) + k = RealAddr(pt, k)
<1>1. SIZE_OF_PAGE \in Nat \ {0} /\ pt.table[0] \in Nat
  BY Constants, PageNotUsed
<1>2. /\ k \div SIZE_OF_PAGE = 0 /\ k % SIZE_OF_PAGE = k
      /\ 0 \div SIZE_OF_PAGE = 0 /\ 0 % SIZE_OF_PAGE = 0
  BY <1>1
<1>3. pt.table[0] * SIZE_OF_PAGE \in Nat
  BY <1>1, ProductNat
<1>4. /\ RealAddr(pt, 0) = (pt.table[0] * SIZE_OF_PAGE) + 0
      /\ RealAddr(pt, k) = (pt.table[0] * SIZE_OF_PAGE) + k
  BY <1>2 DEF RealAddr
<1> QED BY <1>3, <1>4

\* What ld compares of an image that fills the window is what sd has stored.
LEMMA LoadedIsAccepted ==
  ASSUME IInv, Backed, IInv', ContentsTyped, Begun, NEW file \in FileNames,
         LoadImage(file), reply' = "success",
         file \in written, Len(image[file]) >= WINDOW
  PROVE  ~Complains(memory', PCBs'[Head(pidQueue)].page_table)
<1> DEFINE h == Head(pidQueue)
           new == PCBs'[h].page_table
           bytes == image[file]
           n == Len(bytes)
<1>1. /\ new \in PageTables /\ Dense(new)
      /\ n \in Nat /\ n <= new.size * SIZE_OF_PAGE
      /\ DOMAIN bytes = 1 .. n
  <2>1. /\ new \in PageTables /\ Dense(new)
        /\ disk[file] \in Nat /\ disk[file] # NULL
        /\ disk[file] <= new.size * SIZE_OF_PAGE
    BY NewProcess DEF LoadImage
  <2>2. bytes \in Seq(Byte) /\ n = disk[file]
    BY <2>1 DEF ContentsTyped
  <2> HIDE DEF new, bytes
  <2> QED BY <2>1, <2>2, LenProperties
<1>2. Stored(memory', new, n) = bytes
  BY LoadedIsImage
<1>3. WINDOW \in Nat /\ SIZE_OF_PAGE \in Nat /\ WINDOW <= SIZE_OF_PAGE
  BY ImagesAssumption, Constants
<1> SUFFICES ASSUME NEW i \in 0 .. WINDOW - 1
             PROVE  memory'[RealAddr(new, 0) + i] = Letter(i)
  BY DEF Complains
<1>4. /\ i + 1 \in 1 .. n /\ i + 1 <= SIZE_OF_PAGE
      /\ i \in 0 .. SIZE_OF_PAGE - 1 /\ (i + 1) - 1 = i /\ 1 \in 1 .. n
  <2> HIDE DEF n
  <2> QED BY <1>1, <1>3
<1>5. bytes[i + 1] = Letter(i)
  BY <1>1, <1>4 DEF Begun
<1> HIDE DEF new, n
<1>6. Stored(memory', new, n)[i + 1] = memory'[RealAddr(new, i)]
  BY <1>4 DEF Stored
<1>7. new.table[0] \in UserPages
  <2>1. new.table[(1 - 1) \div SIZE_OF_PAGE] \in UserPages
    BY <1>1, <1>4, AddressMapped
  <2>2. (1 - 1) \div SIZE_OF_PAGE = 0
    BY Constants
  <2> QED BY <2>1, <2>2
<1>8. RealAddr(new, 0) + i = RealAddr(new, i)
  BY <1>4, <1>7, FirstPage
<1> QED BY <1>2, <1>5, <1>6, <1>8

\* ld never says "load program error!" of an image that sd stored, whatever has
\* been loaded, filled and recycled in between, for every page size and every
\* window within a page, unless the image is shorter than the window.
THEOREM LoadsAccept == ImagesSpec => LoadAccepts
<1> DEFINE Accepts ==
             \A file \in FileNames :
               /\ LoadImage(file) /\ reply' = "success"
               /\ file \in written /\ Len(image[file]) >= WINDOW
               => ~Complains(memory', PCBs'[Head(pidQueue)].page_table)
<1>1. IInv /\ Backed /\ IInv' /\ ContentsTyped /\ Begun /\ [ImagesNext]_imagesVars =>
        [Accepts]_imagesVars
  BY LoadedIsAccepted
<1> QED BY <1>1, AddressesKnown, AlwaysTyped, AlwaysBegun, PTL DEF ImagesSpec, LoadAccepts

=============================================================================
