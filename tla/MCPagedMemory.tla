---------------------------- MODULE MCPagedMemory ----------------------------
(* DiscreteAllocMemory over page tables: every way to map VSize \div PageSize *)
(* pages to three frames, absent and doubly mapped pages included.  One      *)
(* frame is whole, one cut off by the end of the file, one behind it.  And   *)
(* over pairs of runs, with and without a hole, the first of which may begin *)
(* behind 0 and the second be empty, reach the end of the file or pass it.   *)
EXTENDS DiscreteAllocMemory

CONSTANT Frames     \* physical frames a page table entry may hold

Pages == 0 .. (VSize \div PageSize) - 1

MCTranslations ==
    { [v \in 0 .. VSize - 1 |->
          LET f == table[v \div PageSize]
          IN  IF f = None THEN None ELSE f * PageSize + (v % PageSize)] :
      table \in [Pages -> Frames \cup {None}] }

MCRunLists ==
    { << [addr |-> a, offset |-> 1, len |-> n], [addr |-> b, offset |-> 1 + n, len |-> m] >> :
      a \in {0, 1}, n \in {2, 3}, b \in {4, 6}, m \in {0, 2, 3, 4} }

==============================================================================
