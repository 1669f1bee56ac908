--------------------------- MODULE AvailableRanges ---------------------------
(***************************************************************************)
(* What every address space promises to those who go through its memory:   *)
(* get_available_addresses gives (start, length) for each valid block, one *)
(* after the other.  Blocks are as long as they can be, so that nothing is *)
(* cut in two, and in ascending order, so that nothing comes twice.        *)
(***************************************************************************)
EXTENDS Integers, Sequences, FiniteSets

VARIABLES
  mapped,  \* the valid addresses
  ranges,  \* the blocks given so far
  over     \* has the generator stopped?

Block(r) == r.start..(r.start + r.len - 1)

Covered(rs) == UNION {Block(rs[i]) : i \in DOMAIN rs}

(* The blocks of a set with nothing of it right before or right behind.    *)
Blocks(S) ==
  {r \in [start : S, len : 1..Cardinality(S)] :
     Block(r) \subseteq S /\ r.start - 1 \notin S /\ r.start + r.len \notin S}

Init ==
  /\ mapped \in SUBSET Nat
  /\ ranges = <<>>
  /\ over = FALSE

(* The next block: all that is valid below it has been given.              *)
Give(r) ==
  /\ ~over
  /\ {p \in mapped : p < r.start} = Covered(ranges)
  /\ ranges' = Append(ranges, r)
  /\ UNCHANGED <<mapped, over>>

Stop ==
  /\ ~over
  /\ Covered(ranges) = mapped
  /\ over' = TRUE
  /\ UNCHANGED <<mapped, ranges>>

Next ==
  \/ \E r \in Blocks(mapped) : Give(r)
  \/ Stop

Spec == Init /\ [][Next]_<<mapped, ranges, over>>
=============================================================================
