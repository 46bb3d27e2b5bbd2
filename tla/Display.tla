------------------------------ MODULE Display ------------------------------
(***************************************************************************)
(* sp: how showProcPageTable prints the page table of a process.  Runs of  *)
(* consecutive real pages are joined into one line "from--to ----> start-- *)
(* end"; the logical numbers are worked out from the length of the run     *)
(* when it ends, not kept along the way.  sp changes nothing, so the       *)
(* module adds no action to the shell's.                                   *)
(***************************************************************************)
EXTENDS Client

\* Mutant: the run is taken to end at i, not before it.
LineEndingAt(i, start, end) ==
  [from |-> i - (end - start), to |-> i, start |-> start, end |-> end]

\* The line printed on reaching entry i, or the end of the table, with a run of
\* real pages start .. end behind it.
LineBefore(i, start, end) ==
  [from |-> i - (end - start) - 1, to |-> i - 1, start |-> start, end |-> end]

\* One turn of the loop: entry i goes on with the run or begins a new one.
Turn(pt, shown, i) ==
  IF pt.table[i] = shown.end + 1
  THEN [shown EXCEPT !.end = @ + 1]
  ELSE [lines |-> Append(shown.lines, LineBefore(i, shown.start, shown.end)),
        start |-> pt.table[i],
        end   |-> pt.table[i]]

\* The loop, by the last entry it has looked at.
Loop(pt) ==
  LET shown[i \in Entries] ==
        IF i = 0 THEN [lines |-> <<>>, start |-> pt.table[0], end |-> pt.table[0]]
        ELSE Turn(pt, shown[i - 1], i)
  IN  shown

\* Every process has an entry in use: loadProgram asserts that it is not empty.
showProcPageTable(pt) ==
  LET last == Loop(pt)[pt.size - 1]
  IN  Append(last.lines, LineBefore(pt.size, last.start, last.end))

-----------------------------------------------------------------------------
\* The lines sp prints of a live process are its page table: they cover the
\* logical pages from 0 to the last in order, each once, and show each against
\* the page it is mapped to, however the pages are scattered.
PageTableShown ==
  \A p \in Pids : Running(p) =>
    LET pt    == PCBs[p].page_table
        lines == showProcPageTable(pt)
    IN  /\ lines[1].from = 0
        /\ lines[Len(lines)].to = pt.size - 1
        /\ \A k \in 1 .. Len(lines) - 1 : lines[k + 1].from = lines[k].to + 1
        /\ \A k \in DOMAIN lines :
             /\ lines[k].to - lines[k].from = lines[k].end - lines[k].start
             /\ \A i \in lines[k].from .. lines[k].to :
                  pt.table[i] = lines[k].start + (i - lines[k].from)

=============================================================================
