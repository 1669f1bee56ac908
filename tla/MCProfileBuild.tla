--------------------------- MODULE MCProfileBuild ---------------------------
(* Three modifications and a name nobody defines (4): chains, diamonds,      *)
(* cycles, self dependencies, dependencies on a name that does not exist,    *)
(* modifications whose check fails, a name defined twice.                    *)
EXTENDS ProfileBuild

MCNames == 1 .. 4

MCGraphs ==
    { [mods |-> 1 .. 3, before |-> <<a, b, c>>, after |-> <<x, {}, {}>>,
       applies |-> s, duplicate |-> d] :
      a \in SUBSET {1, 2, 3, 4}, b \in SUBSET {1, 3}, c \in SUBSET {1, 2, 4},
      x \in {{}, {2, 3}, {4}}, s \in {{1, 2, 3}, {1, 3}}, d \in BOOLEAN }
==============================================================================
