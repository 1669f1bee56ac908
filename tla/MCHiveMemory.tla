--------------------------- MODULE MCHiveMemory ---------------------------
(* Hives of four stable blocks and a volatile one in pages of three bytes. *)
(* The first bin has three blocks, in two tables of the map; the second    *)
(* may not be loaded.                                                      *)
EXTENDS HiveMemory, TLC

Bins == 0 :> "a" @@ 3 :> "a" @@ 6 :> "a" @@ 9 :> "b" @@ 12 :> "v"
Mapped(known, second) ==
  [flat |-> FALSE, base |-> 2, known |-> known, bin |-> Bins, length |-> <<4, 1>>,
   at |-> 0 :> 4 @@ 3 :> 5 @@ 6 :> 6 @@ 9 :> second @@ 12 :> 8]
Flat ==
  [flat |-> TRUE, base |-> 2, known |-> {}, length |-> <<4, 0>>,
   bin |-> [i \in {0, 3, 6, 9} |-> Bins[i]], at |-> 0 :> 3 @@ 3 :> 4 @@ 6 :> 5 @@ 9 :> 6]

MCHives ==
  {Flat, Mapped({0, 3, 6, 9, 12}, 0)}
  \cup {Mapped({0, 3, 6, 9, 12} \ lost, 3) : lost \in {{}, {3}, {0, 6}, {12}}}

States == {"present", "unmapped", "absent"}
MCBases ==
  { [p \in 2..8 |-> IF p \in DOMAIN f THEN f[p] ELSE "present"] :
      f \in {<<>>} \cup {p :> s : p \in 2..8, s \in {"unmapped", "absent"}}
           \cup {p :> "absent" @@ (p + 1) :> "unmapped" : p \in 3..5} }
=============================================================================
