------------------------------- MODULE Images -------------------------------
(***************************************************************************)
(* What is in the pages and in the files.  Every action is a command of    *)
(* the shell (module Client) together with what it does to the bytes: sd   *)
(* fills the process's area with a test pattern and writes its pages to a  *)
(* file, ld copies a file into the pages of a new process, exit gives the  *)
(* memory back, and no other command touches a byte.                       *)
(*                                                                         *)
(* A byte is a letter of the pattern or Blank, which stands for what the   *)
(* memory block holds when malloc returns it and for what a file holds     *)
(* that was there before the program started.                              *)
(***************************************************************************)
EXTENDS Client

CONSTANTS
  ALPHABET,   \* letters of the pattern (26)
  WINDOW,     \* bytes ld compares with the pattern (2 * 26)
  Blank

ASSUME ImagesAssumption ==
  /\ ALPHABET \in Nat \ {0}
  /\ WINDOW \in 1 .. SIZE_OF_PAGE
  /\ Blank \notin Int

VARIABLES
  memory,   \* struct Memory: the bytes of the user area, by physical address
  image,    \* the bytes of each file, <<>> when it is absent
  written   \* the files that sd has stored; no action depends on it

imagesVars == <<vars, memory, image, written>>

UserBytes == USER_ADDR_OFFSET .. MEMORY_CAPACITY - 1

Letter(i)      == i % ALPHABET
Pattern(bytes) == [k \in 1 .. bytes |-> Letter(k - 1)]
Blanks(bytes)  == [k \in 1 .. bytes |-> Blank]

RealAddr(pt, addr) ==
  pt.table[addr \div SIZE_OF_PAGE] * SIZE_OF_PAGE + (addr % SIZE_OF_PAGE)

\* Mutant: each page is read from the start of the first.
FirstPageOver(mem, pt, bytes) ==
  [k \in 1 .. bytes |-> mem[RealAddr(pt, (k - 1) % SIZE_OF_PAGE)]]

\* The bytes writeProc2Disk collects through the page table.
Stored(mem, pt, bytes) == [k \in 1 .. bytes |-> mem[RealAddr(pt, k - 1)]]

\* Mutant: the letters are counted from 1.
FilledFromB(p) ==
  LET start == RealAddr(PCBs[p].page_table, 0)
  IN  [a \in UserBytes |->
         IF a \in start .. start + procSize[p] - 1 THEN Letter(a - start + 1) ELSE memory[a]]

\* The fill of sd: from the first page on, whatever pages follow it.
Filled(p) ==
  LET start == RealAddr(PCBs[p].page_table, 0)
  IN  [a \in UserBytes |->
         IF a \in start .. start + procSize[p] - 1 THEN Letter(a - start) ELSE memory[a]]

\* Mutant: the source pointer is not moved on.
SourceStuck(pt, bytes) ==
  [a \in UserBytes |->
     IF \E k \in DOMAIN bytes : RealAddr(pt, k - 1) = a
     THEN bytes[(((CHOOSE k \in DOMAIN bytes : RealAddr(pt, k - 1) = a) - 1) % SIZE_OF_PAGE) + 1]
     ELSE memory[a]]

\* Mutant: whole pages are filled one after the other from the first.
CopiedFlat(pt, bytes) ==
  [a \in UserBytes |->
     LET k == a - RealAddr(pt, 0) + 1
     IN  IF k \in DOMAIN bytes THEN bytes[k] ELSE memory[a]]

\* The memory after readProcFromDisk has copied bytes into the pages of pt.
Restored(pt, bytes) ==
  [a \in UserBytes |->
     IF \E k \in DOMAIN bytes : RealAddr(pt, k - 1) = a
     THEN bytes[CHOOSE k \in DOMAIN bytes : RealAddr(pt, k - 1) = a]
     ELSE memory[a]]

ImagesInit ==
  /\ Init
  /\ memory = [a \in UserBytes |-> Blank]
  /\ image = [file \in FileNames |-> IF disk[file] = NULL THEN <<>> ELSE Blanks(disk[file])]
  /\ written = {}

-----------------------------------------------------------------------------

\* sd fills before it tries to open the file.
StoreImage(typed, file) ==
  LET p == procList[PidArg(typed)]
  IN  /\ Sd(typed, file)
      /\ \/ /\ reply' \in {"success", "store failed"}
            /\ memory' = Filled(p)
         \/ /\ reply' \notin {"success", "store failed"}
            /\ UNCHANGED memory
      /\ \/ /\ reply' = "success"
            /\ image' = [image EXCEPT ![file] =
                           Stored(memory', PCBs[p].page_table, procSize[p])]
            /\ written' = written \cup {file}
         \/ /\ reply' # "success"
            /\ UNCHANGED <<image, written>>

\* Mutant: one byte more is compared.
ComplainsOneMore(mem, pt) ==
  \E k \in 0 .. WINDOW : mem[RealAddr(pt, 0) + k] # Letter(k)

\* What ld says of the new process, when it prints "load program error!": that
\* the memory behind its first address does not begin with the pattern.
Complains(mem, pt) ==
  \E k \in 0 .. WINDOW - 1 : mem[RealAddr(pt, 0) + k] # Letter(k)

LoadImage(file) ==
  /\ Ld(file)
  /\ UNCHANGED <<image, written>>
  /\ \/ /\ reply' = "success"
        /\ memory' = Restored(PCBs'[Head(pidQueue)].page_table, image[file])
     \/ /\ reply' # "success"
        /\ UNCHANGED memory

ExitAll ==
  /\ Exit
  /\ memory' = [a \in UserBytes |-> Blank]
  /\ UNCHANGED <<image, written>>

NoByteTouched ==
  \/ \E size \in TypedSizes : Cp(size)
  \/ \E pid \in TypedPids : Dp(pid)
  \/ \E pid \in TypedPids, size \in TypedSizes : Pa(pid, size)

ImagesNext ==
  \/ NoByteTouched /\ UNCHANGED <<memory, image, written>>
  \/ \E pid \in TypedPids, file \in FileNames : StoreImage(pid, file)
  \/ \E file \in FileNames : LoadImage(file)
  \/ ExitAll

ImagesSpec == ImagesInit /\ [][ImagesNext]_imagesVars

-----------------------------------------------------------------------------
(* Properties. *)

\* Only sd changes what a living process finds in its address space: no other
\* command, ld into pages another process has just given back included, writes
\* where a process's bytes are, and growing keeps the bytes where they were.
KeepsContents(p) ==
  \A k \in 1 .. procSize[p] :
    memory'[RealAddr(PCBs'[p].page_table, k - 1)] = memory[RealAddr(PCBs[p].page_table, k - 1)]

ContentsSurvive ==
  [][\/ \E pid \in TypedPids, file \in FileNames : StoreImage(pid, file)
     \/ \A p \in Pids : Running(p) /\ PCBs'[p].pid = p => KeepsContents(p)]_imagesVars

\* ld restores an image byte for byte, whatever pages the new process gets and
\* whatever the pages of the process were that stored it.
LoadRestores ==
  [][\A file \in FileNames :
       LoadImage(file) /\ reply' = "success" =>
         LET p == Head(pidQueue)
         IN  /\ procSize'[p] = Len(image[file])
             /\ Stored(memory', PCBs'[p].page_table, procSize'[p]) = image[file]]_imagesVars

\* An image that sd wrote from pages that follow one another is the pattern
\* from end to end.
InARow(pt) == \A i \in 1 .. pt.size - 1 : pt.table[i] = pt.table[i - 1] + 1

StoredInARow ==
  [][\A pid \in TypedPids, file \in FileNames :
       StoreImage(pid, file) /\ reply' = "success" =>
         LET p == procList[PidArg(pid)]
         IN  InARow(PCBs[p].page_table) => image'[file] = Pattern(procSize[p])]_imagesVars

\* An image holds as many bytes as the file is long, and what sd has stored
\* begins with the pattern, at least as far as the first page reaches, whatever
\* pages the process had and whatever has been filled or loaded since.
ImagesVerify ==
  \A file \in FileNames :
    /\ Len(image[file]) = IF disk[file] = NULL THEN 0 ELSE disk[file]
    /\ file \in written =>
         \A k \in DOMAIN image[file] :
           k <= SIZE_OF_PAGE => image[file][k] = Letter(k - 1)

\* ld finds nothing wrong with an image that sd has stored, if it is as long as
\* the bytes that are compared.  (Of a shorter one, restored byte for byte, it
\* may say "load program error!", for what lies behind the image.)
LoadAccepts ==
  [][\A file \in FileNames :
       /\ LoadImage(file) /\ reply' = "success"
       /\ file \in written /\ Len(image[file]) >= WINDOW
       => ~Complains(memory', PCBs'[Head(pidQueue)].page_table)]_imagesVars

-----------------------------------------------------------------------------
(* What the documentation says and the code does not do. *)

\* client_sd: "we set the process's space to a->z->a over and over; after the
\* file is written it can be looked at in an editor".  The fill runs on from
\* the first page into pages that belong to others.
StoredIsPattern ==
  \A file \in written : image[file] = Pattern(Len(image[file]))

=============================================================================
