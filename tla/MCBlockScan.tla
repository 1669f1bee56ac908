---------------------------- MODULE MCBlockScan ----------------------------
(* Blocks of four bytes with three of overlap: three full blocks and a rest, *)
(* ranges that end inside a block, inside an overlap and on a boundary,    *)
(* an offset before, in and behind a range, every placement of two tags.   *)
EXTENDS BlockScan, FiniteSets

MCAddresses == 0..14
MCLayouts == {<<<<0, 15>>>>, <<<<0, 5>>, <<7, 7>>>>}
MCTagSets == {t \in SUBSET MCAddresses : Cardinality(t) <= 2}
MCPrefixSets == {{}, {3}, {4, 7}}
MCSkipSets == {{}, {"tag"}, {"tag", "prefix"}}
MCStarts == {0, 3, 6}
MCMaxLens == {0, 5}
=============================================================================
