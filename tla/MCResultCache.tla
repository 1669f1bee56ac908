--------------------------- MODULE MCResultCache ---------------------------
(* Two runs, two values of the options, and functions of the four kinds:   *)
(* psscan-like generators, a search like imageinfo, a plain list and an    *)
(* answer that holds a generator.  The search has an answer for both       *)
(* options, so that runs write different ones over each other.             *)
EXTENDS ResultCache, TLC

CONSTANTS r1, r2, profA, profB, scan, info, list, maps

MCKind == [f \in Paths |->
  CASE f = scan -> "gen" [] f = info -> "search" [] f = list -> "list"
    [] f = maps -> "nested"]
MCSize == [f \in Paths |-> [s \in Settings |->
  CASE f = scan -> IF s = profA THEN 2 ELSE 0
    [] f = list -> IF s = profA THEN 0 ELSE 1
    [] OTHER -> 1]]
MCSymmetry == Permutations({r1, r2})
=============================================================================
