---------------------------- MODULE AtomicKernel ----------------------------
(***************************************************************************)
(* The calls of the kernel as the shell sees them: each takes effect at    *)
(* once and as a whole, or stops the program with all it had before.       *)
(***************************************************************************)
EXTENDS Kernel

CONSTANT CallSizes   \* the sizes in bytes a caller asks for

VARIABLE status      \* "running", or the assert that stopped the program

atomicVars == <<kernelVars, status>>

AtomicInit == KernelInit /\ status = "running"

Stop(fault) ==
  /\ fault # "none"
  /\ status' = fault
  /\ UNCHANGED kernelVars

\* creatProcess and loadProgram.
LoadCall(bytes) ==
  LET p == Head(pidQueue)
  IN  /\ status = "running"
      /\ pidQueue # <<>>
      /\ \/ Stop(LoadFault(p, bytes))
         \/ /\ LoadFault(p, bytes) = "none"
            /\ Load(p, bytes)
            /\ UNCHANGED status

\* procAllocate: more than a page table can map is stopped by its assert.
GrowCall(p, bytes) ==
  /\ status = "running"
  /\ Running(p)
  /\ \/ bytes > MAX_SIZE_OF_PROGRAM - procSize[p] /\ Stop("program_size")
     \/ bytes <= MAX_SIZE_OF_PROGRAM - procSize[p] /\ Stop(GrowFault(p, bytes))
     \/ /\ bytes <= MAX_SIZE_OF_PROGRAM - procSize[p]
        /\ GrowFault(p, bytes) = "none"
        /\ Grow(p, bytes)
        /\ UNCHANGED status

\* destroyProcess
DestroyCall(p) ==
  /\ status = "running"
  /\ Running(p)
  /\ Destroy(p)
  /\ UNCHANGED status

AtomicNext ==
  \/ \E bytes \in CallSizes : LoadCall(bytes)
  \/ \E p \in Pids, bytes \in CallSizes : GrowCall(p, bytes)
  \/ \E p \in Pids : DestroyCall(p)

AtomicSpec == AtomicInit /\ [][AtomicNext]_atomicVars

=============================================================================
