-------------------------------- MODULE MCMm --------------------------------
(***************************************************************************)
(* Mm with tables of two entries: eight virtual pages of two cells.        *)
(***************************************************************************)
EXTENDS Mm

\* A segment that starts and ends inside pages, with a file part and a cleared
\* part, over three page tables, which takes more memory than a process gives back
\* that executes it; two segments under different tables of one directory; a
\* segment that runs into an earlier one.
MCProgram ==
    {<<[va |-> 1, filesz |-> 8, memsz |-> 11]>>,
     <<[va |-> 0, filesz |-> 2, memsz |-> 2], [va |-> 4, filesz |-> 0, memsz |-> 2]>>,
     <<[va |-> 2, filesz |-> 1, memsz |-> 2], [va |-> 0, filesz |-> 1, memsz |-> 4]>>}

Processes == Permutations(Proc)
=============================================================================
