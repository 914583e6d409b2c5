------------------------------ MODULE MCMemory ------------------------------
(* Memory on a machine of a few frames, with program headers that exec must
   accept, skip or refuse. *)
EXTENDS Memory

Ph(vaddr, memsz, filesz) ==
    [load |-> TRUE, vaddr |-> vaddr, memsz |-> memsz, filesz |-> filesz]

Images == {
    <<Ph(0, 1, 1)>>,                                   \* one page
    <<[Ph(0, 9, 9) EXCEPT !.load = FALSE],             \* a note, then two
      Ph(PGSIZE, 1, 1), Ph(0, 1, 0)>>,                 \* segments, descending
    <<Ph(1, 1, 1)>>,                                   \* not page aligned
    <<Ph(0, 1, 2)>>,                                   \* filesz > memsz
    <<Ph(0, 0, 0)>>,                                   \* empty
    <<Ph(0, 1, 1), Ph(WORD - 1, 2, 1)>>,               \* wraps
    <<Ph(0, KERNBASE - 1, 1)>>}                        \* no room for a stack
=============================================================================
