----------------------------- MODULE BlockScan -----------------------------
(***************************************************************************)
(* BaseScanner.scan (scan.py): the available ranges of an address space    *)
(* are read in blocks of SCAN_BLOCKSIZE bytes, each with a few bytes of    *)
(* the next, and every constraint is tried at the addresses the skippers   *)
(* leave.                                                                  *)
(*                                                                         *)
(* Of the memory only this is kept: at which addresses the searched tag    *)
(* stands (tags), where the other constraints hold too (hits), and where   *)
(* the string stands that must precede a tag (prefixes; only the scanner   *)
(* for KDBG has one, Back bytes long, and skips to it as to a tag).  To    *)
(* tell, a constraint looks at the bytes from Back before the address to   *)
(* Ahead after it, of which the first TagLen are the tag.  It sees only    *)
(* the buffer: what lies behind its end is missing and fails the           *)
(* constraint, what lies before its start is taken from the buffer's end   *)
(* (a negative index of BufferAddressSpace.read), so its outcome is open.  *)
(***************************************************************************)
EXTENDS Integers, Sequences

CONSTANTS
  Block,     \* SCAN_BLOCKSIZE
  Overlap,   \* BaseScanner.overlap
  Back,      \* bytes before the tag that the constraints look at
  Ahead,     \* bytes from the tag on that they look at
  TagLen,    \* length of the tag
  Addresses, \* bound: the addresses of the memory
  Layouts,   \* lists of ranges <<start, size>> get_available_addresses gives
  TagSets,   \* sets of addresses at which the tag may stand
  PrefixSets, \* sets of addresses at which the prefix may stand
  SkipSets,  \* what the skippers of a scanner look for: "tag", "prefix"
  Starts,    \* values of the argument offset
  MaxLens    \* values of the argument maxlen, 0 for None

Start(r) == r[1]
End(r)   == r[1] + r[2]

ASSUME SizesAssumption ==
  /\ Block \in Nat \ {0} /\ Overlap \in Nat
  /\ Back \in Nat /\ Ahead \in Nat
  /\ TagLen \in 1..Ahead
  /\ Addresses \subseteq Nat
  /\ Starts \subseteq Nat /\ MaxLens \subseteq Nat
  /\ TagSets \subseteq SUBSET Addresses
  /\ PrefixSets \subseteq SUBSET Addresses
  /\ SkipSets \subseteq SUBSET {"tag", "prefix"}

(* What get_available_addresses promises (addrspace.py:128-138): ranges    *)
(* that do not overlap; scan sorts them.                                   *)
ASSUME LayoutsAssumption ==
  \A layout \in Layouts :
    /\ layout \in Seq(Nat \X Nat)
    /\ \A m, n \in DOMAIN layout : m < n => End(layout[m]) <= Start(layout[n])
    /\ \A n \in DOMAIN layout : Start(layout[n])..(End(layout[n]) - 1) \subseteq Addresses

(* What one candidate needs fits into the overlap: so it is for a scanner  *)
(* that looks at the pool header alone (scan.py:80).                       *)
ContextFits == Back + Ahead <= Overlap + 1

VARIABLES
  ranges,   \* the sorted ranges
  offset, maxlen,  \* arguments of scan
  tags, hits, prefixes, \* what the memory holds
  skips,    \* the skippers of this scanner
  ri,       \* index of the current range
  cur,      \* current_offset
  l,        \* length of the buffer
  pos,      \* position in the buffer
  phase,    \* "range", "block", "check" or "done"
  found     \* found[a]: how often address a was yielded

input == <<ranges, offset, maxlen, tags, hits, prefixes, skips>>
scanVars == <<input, ri, cur, l, pos, phase, found>>

(* All skippers look for the tag, as PoolTagCheck.skip does.               *)
SkipToTags == skips \subseteq {"tag"}

Least(a, b) == IF a <= b THEN a ELSE b
Greatest(a, b) == IF a >= b THEN a ELSE b

(* range_end, cut short by maxlen. *)
RangeEnd(r) == IF maxlen = 0 THEN End(r) ELSE Least(End(r), offset + maxlen)
TheEnd == RangeEnd(ranges[ri])

ScanInit ==
  /\ ranges \in Layouts
  /\ offset \in Starts /\ maxlen \in MaxLens
  /\ tags \in TagSets /\ prefixes \in PrefixSets /\ skips \in SkipSets
  /\ hits \in SUBSET {a \in tags : "prefix" \in skips => a - Back \in prefixes}
  /\ ri = 1 /\ cur = offset /\ l = 0 /\ pos = 0
  /\ phase = "range"
  /\ found = [a \in Addresses |-> 0]

(* Jump to the next available point to scan from. *)
FindRange ==
  /\ phase = "range"
  /\ IF ri <= Len(ranges)
     THEN /\ cur' = Greatest(Start(ranges[ri]), cur)
          /\ phase' = "block"
     ELSE phase' = "done" /\ cur' = cur
  /\ UNCHANGED <<input, ri, l, pos, found>>

\* Slip: a block is read without the bytes that follow it.
BufferLengthBare(left) == Least(Block, left)
BufferLength(left) == Least(Block + Overlap, left)

ReadBlock ==
  /\ phase = "block" /\ cur < TheEnd
  /\ l' = BufferLength(TheEnd - cur)
  /\ pos' = 0
  /\ phase' = "check"
  /\ UNCHANGED <<input, ri, cur, found>>

\* Slip: a range that lies before offset is waited for.
RangeDoneWaits ==
  /\ phase = "block" /\ cur >= TheEnd
  /\ ri' = IF cur > TheEnd THEN ri ELSE ri + 1
  /\ phase' = "range"
  /\ UNCHANGED <<input, cur, l, pos, found>>
RangeDone ==
  /\ phase = "block" /\ cur >= TheEnd
  /\ ri' = ri + 1
  /\ phase' = "range"
  /\ UNCHANGED <<input, cur, l, pos, found>>

(* The tag at position j of the buffer, all of it. *)
TagInside(j) == cur + j \in tags /\ j + TagLen <= l
(* Everything the constraints need is in the buffer. *)
Inside(j) == j >= Back /\ j + Ahead <= l

(* check_addr: what the constraints may say about position j. *)
Verdicts(j) ==
  IF ~TagInside(j) \/ j + Ahead > l THEN {FALSE}
  ELSE IF j < Back THEN BOOLEAN ELSE {cur + j \in hits}

(* Where the string that a skipper looks for stands in the buffer.         *)
Marks(s) ==
  IF s = "tag" THEN {j \in 0..l : TagInside(j)}
  ELSE {j \in 0..l : cur + j \in prefixes /\ j + Back <= l}

(* PoolTagCheck.skip, MultiStringFinderCheck.skip: to the next of these    *)
(* after position j, or to the end of the buffer.                          *)
\* Slip: without one the scan goes on behind the end.
SkipToFar(s, j) ==
  {g \in (j + 1)..(l + 1) : (g \in Marks(s) \/ g = l + 1)
                           /\ \A m \in Marks(s) : ~(j < m /\ m < g)}
SkipTo(s, j) ==
  {g \in (j + 1)..l : (g \in Marks(s) \/ g = l)
                     /\ \A m \in Marks(s) : ~(j < m /\ m < g)}

(* One byte ahead, or as far as the farthest skipper goes.                 *)
GoesOn(j) ==
  LET goals == {j + 1} \cup UNION {SkipTo(s, j) : s \in skips}
  IN {g \in goals : \A m \in goals : m <= g}

Check ==
  /\ phase = "check" /\ pos < l
  /\ \E verdict \in Verdicts(pos) :
       found' = IF verdict THEN [found EXCEPT ![cur + pos] = @ + 1] ELSE found
  /\ \E g \in GoesOn(pos) : pos' = g
  /\ UNCHANGED <<input, ri, cur, l, phase>>

(* current_offset += min(SCAN_BLOCKSIZE, l) *)
Advance(len) == Least(Block, len)

BlockDone ==
  /\ phase = "check" /\ pos >= l
  /\ cur' = cur + Advance(l)
  /\ phase' = "block"
  /\ UNCHANGED <<input, ri, l, pos, found>>

ScanNext == FindRange \/ ReadBlock \/ RangeDone \/ Check \/ BlockDone

ScanSpec == ScanInit /\ [][ScanNext]_scanVars /\ WF_scanVars(ScanNext)
-----------------------------------------------------------------------------
(* Every variable keeps its type. *)
ScanTypeOK ==
  /\ ranges \in Layouts
  /\ offset \in Starts /\ maxlen \in MaxLens
  /\ tags \in TagSets /\ hits \subseteq tags
  /\ prefixes \in PrefixSets /\ skips \in SkipSets
  /\ ri \in 1..(Len(ranges) + 1)
  /\ cur \in Nat /\ l \in Nat /\ pos \in 0..l
  /\ phase \in {"range", "block", "check", "done"}
  /\ found \in [Addresses -> Nat]
  /\ phase \in {"block", "check"} => ri <= Len(ranges)

(* The bytes that a hit is told from lie in one range, and in the window   *)
(* that offset and maxlen leave of it.                                     *)
Reachable(r, a) ==
  a - Back >= Greatest(Start(r), offset) /\ a + Ahead <= RangeEnd(r)
Promised == {a \in hits : \E n \in DOMAIN ranges : Reachable(ranges[n], a)}

(* No hit is lost, wherever the blocks are cut ("a more thorough scanner   *)
(* which checks every byte", scan.py:46), if all skippers look for the     *)
(* tag: from the start of a prefix, a skip to the next prefix passes over  *)
(* the tag behind it.                                                      *)
NoHitLost == phase = "done" /\ SkipToTags => \A a \in Promised : found[a] > 0

(* The scan ends. *)
ScanEnds == <>(phase = "done")
=============================================================================
