--------------------------- MODULE MCKernelWalks ---------------------------
(* Lists of three entries and a head, trees of three VADs, and handle      *)
(* tables of two addresses or two entries a page.                          *)
EXTENDS ProcessTree, TLC

Entries == 1..3
ListHead == 0
Nowhere == 4

(* Any entry may point to any other, to the head or nowhere.               *)
WildLists ==
  { [kind |-> "list", head |-> ListHead, link |-> l, torn |-> {},
     pid |-> [n \in Entries |-> n], ppid |-> [n \in Entries |-> n - 1]] :
      l \in [{ListHead} \cup Entries -> {ListHead, Nowhere} \cup Entries] }

(* A ring that is whole, any numbers for the parents, and perhaps a torn   *)
(* entry or two processes of one number.                                   *)
Rings ==
  { [kind |-> "list", head |-> ListHead, link |-> [n \in {ListHead} \cup Entries |-> (n + 1) % 4],
     torn |-> t, pid |-> p, ppid |-> q] :
      t \in {{}, {2}, {3}},
      p \in {<<1, 2, 3>>, <<1, 2, 1>>},
      q \in [Entries -> 0..3] }

Vads ==
  { [kind |-> "vad", root |-> 1, left |-> l, right |-> r] :
      l \in [Entries -> {0} \cup Entries], r \in [Entries -> {0} \cup Entries] }

(* Pages of objects are 11 and 12, the pages above them 21 and 22.         *)
Leaves == 11 :> <<1, 2>> @@ 12 :> <<0, 4>>
HandleTables ==
  { [kind |-> "handles", levels |-> v, top |-> v * 10 + 11,
     table |-> Leaves @@ 21 :> a @@ 22 :> b @@ 31 :> c] :
      v \in 0..2,
      a \in {11, 12, 0} \X {11, 12, 0},
      b \in {<<12, 0>>, <<0, 0>>, <<11, 12>>},
      c \in {21, 22, 0} \X {21, 22, 0} }

MCMemories == WildLists \cup Rings \cup Vads \cup HandleTables
=============================================================================
