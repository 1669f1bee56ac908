--------------------------- MODULE ScanCopyProofs ---------------------------
(***************************************************************************)
(* What goes through all the ranges an address space reports: the scanner, *)
(* for every size of block and overlap, every list of ranges and every     *)
(* memory; and the copies and dumps of images, for every image, size of    *)
(* block and page.                                                         *)
(*                                                                         *)
(* Of the scanner, Behind says that all reachable hits that begin before   *)
(* the current block are found, and in a buffer those before the position. *)
(* Of a copy, Contents says that the new file holds the image's bytes as   *)
(* far as the copy has come.                                               *)
(***************************************************************************)
EXTENDS BlockScan, ImageCopy, TLAPS

(* Ranges are pairs of numbers, and a window ends no later than its range. *)
LEMMA RangeFacts ==
  ASSUME ScanTypeOK, NEW n \in DOMAIN ranges
  PROVE  /\ Start(ranges[n]) \in Nat /\ End(ranges[n]) \in Nat
         /\ Start(ranges[n]) <= End(ranges[n])
         /\ RangeEnd(ranges[n]) \in Nat
         /\ RangeEnd(ranges[n]) <= End(ranges[n])
         /\ \A m \in DOMAIN ranges : n < m => End(ranges[n]) <= Start(ranges[m])
<1>1. ranges \in Seq(Nat \X Nat)
  BY LayoutsAssumption DEF ScanTypeOK
<1>2. ranges[n] \in Nat \X Nat
  BY <1>1
<1>3. /\ Start(ranges[n]) \in Nat /\ End(ranges[n]) \in Nat
      /\ Start(ranges[n]) <= End(ranges[n])
  BY <1>2 DEF Start, End
<1>4. offset \in Nat /\ maxlen \in Nat
  BY SizesAssumption DEF ScanTypeOK
<1>5. RangeEnd(ranges[n]) \in Nat /\ RangeEnd(ranges[n]) <= End(ranges[n])
  BY <1>3, <1>4 DEF RangeEnd, Least
<1>6. \A m \in DOMAIN ranges : n < m => End(ranges[n]) <= Start(ranges[m])
  BY LayoutsAssumption DEF ScanTypeOK
<1> QED BY <1>3, <1>5, <1>6

(* Addresses of hits are numbers, and tags stand at them. *)
LEMMA HitFacts ==
  ASSUME ScanTypeOK
  PROVE  hits \subseteq tags /\ tags \subseteq Addresses /\ hits \subseteq Nat
BY SizesAssumption DEF ScanTypeOK

(* The index of a range is a number, and the current one is in the list    *)
(* as long as a block of it is looked at.                                  *)
LEMMA IndexFacts ==
  ASSUME ScanTypeOK
  PROVE  /\ Len(ranges) \in Nat /\ DOMAIN ranges = 1..Len(ranges)
         /\ ri \in Nat
         /\ phase \in {"block", "check"} => ri \in DOMAIN ranges
<1>1. ranges \in Seq(Nat \X Nat)
  BY LayoutsAssumption DEF ScanTypeOK
<1>2. Len(ranges) \in Nat /\ DOMAIN ranges = 1..Len(ranges)
  BY <1>1
<1> QED BY <1>2 DEF ScanTypeOK

LEMMA TypeInit == ScanInit => ScanTypeOK
<1> SUFFICES ASSUME ScanInit PROVE ScanTypeOK
  OBVIOUS
<1>1. ranges \in Layouts /\ ranges \in Seq(Nat \X Nat)
  BY LayoutsAssumption DEF ScanInit
<1>2. Len(ranges) \in Nat
  BY <1>1
<1>3. ri \in 1..(Len(ranges) + 1)
  BY <1>2 DEF ScanInit
<1> QED BY <1>1, <1>3, SizesAssumption DEF ScanInit, ScanTypeOK

(* The scan goes on within the buffer, whatever its skippers find.         *)
LEMMA GoesAhead ==
  ASSUME ScanTypeOK, NEW j \in Nat, j < l, NEW g \in GoesOn(j)
  PROVE  g \in (j + 1)..l
<1>1. l \in Nat
  BY DEF ScanTypeOK
<1>2. g = j + 1 \/ \E s \in skips : g \in SkipTo(s, j)
  BY DEF GoesOn
<1> QED BY <1>1, <1>2 DEF SkipTo

LEMMA TypeStep == ScanTypeOK /\ [ScanNext]_scanVars => ScanTypeOK'
<1> SUFFICES ASSUME ScanTypeOK, [ScanNext]_scanVars PROVE ScanTypeOK'
  OBVIOUS
<1>i. /\ Len(ranges) \in Nat /\ ri \in Nat
      /\ DOMAIN ranges = 1..Len(ranges)
      /\ phase \in {"block", "check"} => ri \in DOMAIN ranges
  BY IndexFacts
<1>1. CASE FindRange
  <2>1. /\ phase = "range"
        /\ UNCHANGED <<ranges, offset, maxlen, tags, hits, prefixes, skips, ri, l, pos, found>>
    BY <1>1 DEF FindRange, input
  <2>2. CASE ri <= Len(ranges)
    <3>1. ri \in DOMAIN ranges
      BY <2>2, <1>i DEF ScanTypeOK
    <3>2. Start(ranges[ri]) \in Nat
      BY <3>1, RangeFacts
    <3>3. cur' \in Nat /\ phase' = "block"
      BY <1>1, <2>2, <3>2 DEF FindRange, Greatest, ScanTypeOK
    <3> QED BY <2>1, <2>2, <3>3 DEF ScanTypeOK
  <2>3. CASE ~(ri <= Len(ranges))
    BY <1>1, <2>1, <2>3 DEF FindRange, ScanTypeOK
  <2> QED BY <2>2, <2>3
<1>2. CASE ReadBlock
  <2>1. /\ phase = "block" /\ cur < TheEnd /\ l' = BufferLength(TheEnd - cur)
        /\ pos' = 0 /\ phase' = "check"
        /\ UNCHANGED <<ranges, offset, maxlen, tags, hits, prefixes, skips, ri, cur, found>>
    BY <1>2 DEF ReadBlock, input
  <2>2. TheEnd \in Nat
    BY <2>1, <1>i, RangeFacts DEF TheEnd
  <2>3. l' \in Nat
    BY <2>1, <2>2, SizesAssumption DEF BufferLength, Least, ScanTypeOK
  <2>4. pos' \in 0..l'
    BY <2>1, <2>3
  <2> QED BY <2>1, <2>3, <2>4 DEF ScanTypeOK
<1>3. CASE RangeDone
  <2>1. /\ phase = "block" /\ ri' = ri + 1 /\ phase' = "range"
        /\ UNCHANGED <<ranges, offset, maxlen, tags, hits, prefixes, skips, cur, l, pos, found>>
    BY <1>3 DEF RangeDone, input
  <2>2. ri' \in 1..(Len(ranges') + 1)
    BY <2>1, <1>i
  <2> QED BY <2>1, <2>2 DEF ScanTypeOK
<1>4. CASE Check
  <2>1. /\ phase = "check" /\ pos < l /\ \E g \in GoesOn(pos) : pos' = g
        /\ \E verdict \in Verdicts(pos) :
             found' = IF verdict THEN [found EXCEPT ![cur + pos] = @ + 1] ELSE found
        /\ UNCHANGED <<ranges, offset, maxlen, tags, hits, prefixes, skips, ri, cur, l, phase>>
    BY <1>4 DEF Check, input
  <2>2. pos' \in 0..l'
    BY <2>1, GoesAhead DEF ScanTypeOK
  <2>3. found' \in [Addresses -> Nat]
    <3>1. found \in [Addresses -> Nat]
      BY DEF ScanTypeOK
    <3>2. PICK verdict \in Verdicts(pos) :
            found' = IF verdict THEN [found EXCEPT ![cur + pos] = @ + 1] ELSE found
      BY <2>1
    <3>3. CASE verdict
      <4>1. found' = [a \in Addresses |-> IF a = cur + pos THEN found[a] + 1 ELSE found[a]]
        BY <3>1, <3>2, <3>3
      <4>2. \A a \in Addresses : found[a] \in Nat /\ found[a] + 1 \in Nat
        BY <3>1
      <4> QED BY <4>1, <4>2
    <3> QED BY <3>1, <3>2, <3>3
  <2> QED BY <2>1, <2>2, <2>3 DEF ScanTypeOK
<1>5. CASE BlockDone
  <2>1. /\ phase = "check" /\ cur' = cur + Advance(l) /\ phase' = "block"
        /\ UNCHANGED <<ranges, offset, maxlen, tags, hits, prefixes, skips, ri, l, pos, found>>
    BY <1>5 DEF BlockDone, input
  <2>2. cur' \in Nat
    BY <2>1, SizesAssumption DEF Advance, Least, ScanTypeOK
  <2> QED BY <2>1, <2>2 DEF ScanTypeOK
<1>6. CASE UNCHANGED scanVars
  BY <1>6 DEF scanVars, input, ScanTypeOK
<1> QED BY <1>1, <1>2, <1>3, <1>4, <1>5, <1>6 DEF ScanNext

(* Types hold for every block size and every memory: the loop index stays  *)
(* in the buffer and the range index in the list.                          *)
THEOREM ScanTypeCorrect == ScanSpec => []ScanTypeOK
<1>1. ScanTypeOK /\ [ScanNext]_scanVars => ScanTypeOK'
  BY TypeStep
<1> QED BY TypeInit, <1>1, PTL DEF ScanSpec
-----------------------------------------------------------------------------
(* Why no hit is lost: what is behind the scanner is found.                *)
FoundIn(n, bound) ==
  \A a \in hits : Reachable(ranges[n], a) /\ a - Back < bound => found[a] > 0

(* The ranges before the current one, and of it all that begins before the *)
(* current block; in a buffer, what lies in it and before the position.    *)
Behind ==
  /\ offset <= cur
  /\ phase = "done" => ri > Len(ranges)
  /\ \A n \in 1..(ri - 1) : \A a \in hits :
       Reachable(ranges[n], a) => found[a] > 0
  /\ phase = "range" /\ ri <= Len(ranges) =>
       cur <= Greatest(Start(ranges[ri]), offset)
  /\ phase \in {"block", "check"} =>
       /\ Start(ranges[ri]) <= cur
       /\ cur <= Greatest(End(ranges[ri]), offset)
       /\ FoundIn(ri, cur)
  /\ phase = "check" =>
       /\ cur < TheEnd /\ l = BufferLength(TheEnd - cur)
       /\ \A a \in hits :
            /\ Reachable(ranges[ri], a)
            /\ a - Back >= cur /\ a + Ahead <= cur + l /\ a < cur + pos
            => found[a] > 0

LEMMA BehindInit == ScanInit => Behind
<1> SUFFICES ASSUME ScanInit PROVE Behind
  OBVIOUS
<1>1. ScanTypeOK
  BY TypeInit
<1>2. ri = 1 /\ cur = offset /\ phase = "range" /\ offset \in Nat
  BY SizesAssumption DEF ScanInit
<1>3. ri <= Len(ranges) => Start(ranges[ri]) \in Nat
  BY <1>1, <1>2, IndexFacts, RangeFacts
<1> QED BY <1>2, <1>3 DEF Behind, Greatest

(* A position of the buffer at which everything is seen.                   *)
LEMMA SeenForSure ==
  ASSUME ScanTypeOK, phase = "check", NEW a \in hits, NEW j \in Nat,
         cur + j = a, a - Back >= cur, a + Ahead <= cur + l
  PROVE  TagInside(j) /\ Verdicts(j) = {TRUE}
<1>1. a \in tags /\ a \in Nat
  BY HitFacts
<1>2. j + Ahead <= l /\ j >= Back /\ j + TagLen <= l
  BY <1>1, SizesAssumption DEF ScanTypeOK
<1>3. TagInside(j)
  BY <1>1, <1>2 DEF TagInside
<1>4. ~(j + Ahead > l) /\ ~(j < Back)
  BY <1>1, <1>2, SizesAssumption DEF ScanTypeOK
<1>5. Verdicts(j) = {cur + j \in hits}
  BY <1>3, <1>4 DEF Verdicts
<1> QED BY <1>3, <1>5

(* A scanner whose skippers look for the tag passes over none.             *)
LEMMA SkipsNoTag ==
  ASSUME SkipToTags, ScanTypeOK, NEW j \in Nat, j < l, NEW g \in GoesOn(j),
         NEW t \in Nat, j < t, t < g
  PROVE  ~TagInside(t)
<1>1. l \in Nat /\ g \in (j + 1)..l /\ t \in 0..l
  BY GoesAhead DEF ScanTypeOK
<1>2. PICK s \in skips : g \in SkipTo(s, j)
  BY <1>1 DEF GoesOn
<1>3. s = "tag"
  BY DEF SkipToTags
<1>4. t \notin Marks(s)
  BY <1>2 DEF SkipTo
<1> QED BY <1>1, <1>3, <1>4 DEF Marks

(* What one look at the buffer adds.                                       *)
LEMMA CheckFinds ==
  ASSUME SkipToTags, ScanTypeOK, Check, NEW a \in hits,
         a - Back >= cur, a + Ahead <= cur + l, a < cur + pos',
         a < cur + pos => found[a] > 0
  PROVE  found'[a] > 0
<1>1. /\ phase = "check" /\ pos < l /\ pos \in Nat /\ cur \in Nat /\ l \in Nat
      /\ found \in [Addresses -> Nat]
  BY DEF Check, ScanTypeOK
<1>2. a \in Addresses /\ a \in Nat
  BY HitFacts
<1>3. PICK verdict \in Verdicts(pos) :
        found' = IF verdict THEN [found EXCEPT ![cur + pos] = @ + 1] ELSE found
  BY DEF Check
<1>4. CASE a < cur + pos
  BY <1>1, <1>2, <1>3, <1>4
<1>5. CASE a = cur + pos
  <2>1. Verdicts(pos) = {TRUE}
    BY <1>1, <1>5, SeenForSure
  <2>2. found' = [found EXCEPT ![cur + pos] = @ + 1]
    BY <1>3, <2>1
  <2> QED BY <2>2, <1>1, <1>2, <1>5
<1>6. CASE a > cur + pos
  <2> DEFINE j == a - cur
  <2>1. j \in Nat /\ cur + j = a /\ j > pos
    BY <1>1, <1>2, <1>6
  <2>2. TagInside(j)
    BY <1>1, <2>1, SeenForSure
  <2>3. PICK g \in GoesOn(pos) : pos' = g
    BY DEF Check
  <2>4. ~TagInside(j)
    <3>1. j \in Nat /\ pos < j /\ j < pos'
      BY <1>1, <1>2, <2>1, <2>3, GoesAhead
    <3> HIDE DEF j
    <3> QED BY <3>1, <2>3, <1>1, SkipsNoTag
  <2> QED BY <2>2, <2>4
<1> QED BY <1>1, <1>2, <1>4, <1>5, <1>6

(* A look never takes back what was found.                                 *)
LEMMA FoundStays ==
  ASSUME ScanTypeOK, Check, NEW a \in hits, found[a] > 0
  PROVE  found'[a] > 0
<1>1. a \in Addresses /\ found \in [Addresses -> Nat]
  BY HitFacts DEF ScanTypeOK
<1>2. PICK verdict \in Verdicts(pos) :
        found' = IF verdict THEN [found EXCEPT ![cur + pos] = @ + 1] ELSE found
  BY DEF Check
<1> QED BY <1>1, <1>2

LEMMA BehindStep ==
  ContextFits /\ SkipToTags /\ ScanTypeOK /\ ScanTypeOK' /\ Behind /\ [ScanNext]_scanVars
  => Behind'
<1> SUFFICES ASSUME ContextFits, SkipToTags, ScanTypeOK, ScanTypeOK', Behind, [ScanNext]_scanVars
             PROVE  Behind'
  OBVIOUS
<1>i. /\ Len(ranges) \in Nat /\ ri \in Nat /\ DOMAIN ranges = 1..Len(ranges)
      /\ phase \in {"block", "check"} => ri \in DOMAIN ranges
      /\ cur \in Nat /\ l \in Nat /\ pos \in Nat /\ offset \in Nat
  BY IndexFacts, SizesAssumption DEF ScanTypeOK
<1>h. hits \subseteq Nat
  BY HitFacts
<1>1. CASE FindRange
  <2>1. /\ phase = "range"
        /\ UNCHANGED <<ranges, offset, maxlen, tags, hits, prefixes, skips, ri, l, pos, found>>
    BY <1>1 DEF FindRange, input
  <2>2. CASE ri <= Len(ranges)
    <3>1. ri \in DOMAIN ranges
      BY <2>2, <1>i DEF ScanTypeOK
    <3>2. /\ Start(ranges[ri]) \in Nat /\ End(ranges[ri]) \in Nat
          /\ Start(ranges[ri]) <= End(ranges[ri])
      BY <3>1, RangeFacts
    <3>3. cur' = Greatest(Start(ranges[ri]), cur) /\ phase' = "block"
      BY <1>1, <2>2 DEF FindRange
    <3>4. /\ offset <= cur /\ cur <= Greatest(Start(ranges[ri]), offset)
          /\ \A n \in 1..(ri - 1) : \A a \in hits :
               Reachable(ranges[n], a) => found[a] > 0
      BY <2>1, <2>2 DEF Behind
    <3>5. /\ offset <= cur' /\ Start(ranges[ri]) <= cur'
          /\ cur' <= Greatest(Start(ranges[ri]), offset)
          /\ cur' <= Greatest(End(ranges[ri]), offset)
      BY <1>i, <3>2, <3>3, <3>4 DEF Greatest
    <3>6. \A a \in hits : ~(Reachable(ranges[ri], a) /\ a - Back < cur')
      BY <1>i, <1>h, <3>2, <3>5, SizesAssumption DEF Reachable, Greatest, ScanTypeOK
    <3> QED BY <2>1, <3>3, <3>4, <3>5, <3>6 DEF Behind, FoundIn, Reachable, RangeEnd
  <2>3. CASE ~(ri <= Len(ranges))
    <3>1. cur' = cur /\ phase' = "done"
      BY <1>1, <2>3 DEF FindRange
    <3> QED BY <2>1, <2>3, <3>1, <1>i DEF Behind, Reachable, RangeEnd
  <2> QED BY <2>2, <2>3
<1>2. CASE ReadBlock
  <2>1. /\ phase = "block" /\ cur < TheEnd /\ l' = BufferLength(TheEnd - cur)
        /\ pos' = 0 /\ phase' = "check"
        /\ UNCHANGED <<ranges, offset, maxlen, tags, hits, prefixes, skips, ri, cur, found>>
    BY <1>2 DEF ReadBlock, input
  <2>2. TheEnd' = TheEnd
    BY <2>1 DEF TheEnd, RangeEnd
  <2>3. \A a \in hits : ~(a - Back >= cur /\ a < cur + 0)
    BY <1>i, <1>h, SizesAssumption
  <2> QED BY <2>1, <2>2, <2>3 DEF Behind, FoundIn, Reachable, RangeEnd
<1>3. CASE RangeDone
  <2>1. /\ phase = "block" /\ cur >= TheEnd /\ ri' = ri + 1 /\ phase' = "range"
        /\ UNCHANGED <<ranges, offset, maxlen, tags, hits, prefixes, skips, cur, l, pos, found>>
    BY <1>3 DEF RangeDone, input
  <2>2. /\ offset <= cur /\ cur <= Greatest(End(ranges[ri]), offset)
        /\ FoundIn(ri, cur)
        /\ \A n \in 1..(ri - 1) : \A a \in hits :
             Reachable(ranges[n], a) => found[a] > 0
    BY <2>1 DEF Behind
  <2>3. TheEnd \in Nat /\ End(ranges[ri]) \in Nat
    BY <2>1, <1>i, RangeFacts DEF TheEnd
  <2>4. \A a \in hits : Reachable(ranges[ri], a) => found[a] > 0
    <3> SUFFICES ASSUME NEW a \in hits, Reachable(ranges[ri], a)
                 PROVE  found[a] > 0
      OBVIOUS
    <3>1. a + Ahead <= TheEnd
      BY DEF Reachable, TheEnd
    <3>2. a - Back < cur
      BY <3>1, <2>1, <2>3, <1>i, <1>h, SizesAssumption
    <3> QED BY <3>2, <2>2 DEF FoundIn
  <2>5. \A n \in 1..(ri' - 1) : \A a \in hits :
          Reachable(ranges[n], a) => found[a] > 0
    <3> SUFFICES ASSUME NEW n \in 1..(ri' - 1)
                 PROVE  \A a \in hits : Reachable(ranges[n], a) => found[a] > 0
      OBVIOUS
    <3>1. n \in 1..(ri - 1) \/ n = ri
      BY <2>1, <1>i
    <3> QED BY <3>1, <2>2, <2>4
  <2>6. ri' <= Len(ranges) => cur <= Greatest(Start(ranges[ri']), offset)
    <3> SUFFICES ASSUME ri' <= Len(ranges)
                 PROVE  cur <= Greatest(Start(ranges[ri']), offset)
      OBVIOUS
    <3>1. ri \in DOMAIN ranges /\ ri' \in DOMAIN ranges /\ ri < ri'
      BY <2>1, <1>i
    <3>2. End(ranges[ri]) <= Start(ranges[ri']) /\ Start(ranges[ri']) \in Nat
      BY <3>1, RangeFacts
    <3> QED BY <3>2, <2>2, <2>3, <1>i DEF Greatest
  <2> QED BY <2>1, <2>2, <2>5, <2>6 DEF Behind, Reachable, RangeEnd
<1>4. CASE Check
  <2>1. /\ phase = "check"
        /\ UNCHANGED <<ranges, offset, maxlen, tags, hits, prefixes, skips, ri, cur, l, phase>>
    BY <1>4 DEF Check, input
  <2>2. \A a \in hits : found[a] > 0 => found'[a] > 0
    BY <1>4, FoundStays
  <2>3. \A a \in hits :
          /\ Reachable(ranges[ri], a)
          /\ a - Back >= cur /\ a + Ahead <= cur + l /\ a < cur + pos'
          => found'[a] > 0
    BY <1>4, <2>1, CheckFinds DEF Behind
  <2>4. cur < TheEnd /\ TheEnd' = TheEnd /\ l = BufferLength(TheEnd - cur)
    BY <2>1 DEF Behind, TheEnd, RangeEnd
  <2>5. /\ offset <= cur /\ Start(ranges[ri]) <= cur
        /\ cur <= Greatest(End(ranges[ri]), offset)
        /\ FoundIn(ri, cur)
        /\ \A n \in 1..(ri - 1) : \A a \in hits :
             Reachable(ranges[n], a) => found[a] > 0
    BY <2>1 DEF Behind
  <2> QED BY <2>1, <2>2, <2>3, <2>4, <2>5 DEF Behind, FoundIn, Reachable, RangeEnd
<1>5. CASE BlockDone
  <2>1. /\ phase = "check" /\ pos >= l /\ cur' = cur + Advance(l) /\ phase' = "block"
        /\ UNCHANGED <<ranges, offset, maxlen, tags, hits, prefixes, skips, ri, l, pos, found>>
    BY <1>5 DEF BlockDone, input
  <2>2. /\ offset <= cur /\ Start(ranges[ri]) <= cur
        /\ FoundIn(ri, cur) /\ cur < TheEnd /\ l = BufferLength(TheEnd - cur)
        /\ \A n \in 1..(ri - 1) : \A a \in hits :
             Reachable(ranges[n], a) => found[a] > 0
        /\ \A a \in hits :
             /\ Reachable(ranges[ri], a)
             /\ a - Back >= cur /\ a + Ahead <= cur + l /\ a < cur + pos
             => found[a] > 0
    BY <2>1 DEF Behind
  <2>3. /\ TheEnd \in Nat /\ End(ranges[ri]) \in Nat /\ TheEnd <= End(ranges[ri])
        /\ Start(ranges[ri]) \in Nat
    BY <2>1, <1>i, RangeFacts DEF TheEnd
  <2>4. cur' \in Nat /\ cur <= cur' /\ cur' <= cur + l /\ cur' <= cur + Block
    BY <2>1, <1>i, SizesAssumption DEF Advance, Least
  <2>5. l <= TheEnd - cur /\ (l = TheEnd - cur \/ l = Block + Overlap)
    BY <2>2, <2>3, <1>i, SizesAssumption DEF BufferLength, Least
  <2>6. cur' <= Greatest(End(ranges[ri]), offset)
    BY <2>3, <2>4, <2>5, <1>i DEF Greatest
  <2>7. FoundIn(ri, cur')
    <3> SUFFICES ASSUME NEW a \in hits, Reachable(ranges[ri], a), a - Back < cur'
                 PROVE  found[a] > 0
      BY DEF FoundIn
    <3>1. CASE a - Back < cur
      BY <3>1, <2>2 DEF FoundIn
    <3>2. CASE a - Back >= cur
      <4>1. a + Ahead <= TheEnd
        BY DEF Reachable, TheEnd
      <4>2. a + Ahead <= cur + l
        BY <3>2, <4>1, <2>3, <2>4, <2>5, <1>i, <1>h, SizesAssumption
           DEF ContextFits
      <4>3. a < cur + pos
        BY <4>2, <2>1, <1>i, <1>h, SizesAssumption
      <4> QED BY <3>2, <4>2, <4>3, <2>2
    <3> QED BY <3>1, <3>2, <2>4, <1>i, <1>h, SizesAssumption
  <2>8. offset <= cur' /\ Start(ranges[ri]) <= cur'
    BY <2>2, <2>3, <2>4, <1>i
  <2> QED BY <2>1, <2>2, <2>6, <2>7, <2>8 DEF Behind, FoundIn, Reachable, RangeEnd
<1>6. CASE UNCHANGED scanVars
  BY <1>6 DEF scanVars, input, Behind, FoundIn, Reachable, RangeEnd, TheEnd
<1> QED BY <1>1, <1>2, <1>3, <1>4, <1>5, <1>6 DEF ScanNext

(* If what one candidate needs fits into the overlap, and the skippers     *)
(* look for the tag, then no hit is lost, whatever the sizes of blocks and *)
(* ranges and wherever a hit lies.                                         *)
THEOREM NoHitIsLost ==
  ASSUME ContextFits
  PROVE  ScanSpec => []NoHitLost
<1>1. (SkipToTags => Behind) /\ ScanTypeOK => NoHitLost
  <2> SUFFICES ASSUME SkipToTags, Behind, ScanTypeOK, phase = "done", NEW a \in Promised
               PROVE  found[a] > 0
    BY DEF NoHitLost
  <2>1. PICK n \in DOMAIN ranges : Reachable(ranges[n], a)
    BY DEF Promised
  <2>2. ri > Len(ranges) /\ a \in hits
    BY DEF Behind, Promised
  <2>3. n \in 1..(ri - 1)
    BY <2>1, <2>2, IndexFacts
  <2> QED BY <2>1, <2>2, <2>3 DEF Behind
<1>2. ScanTypeOK /\ ScanTypeOK' /\ (SkipToTags => Behind) /\ [ScanNext]_scanVars
        => (SkipToTags => Behind)'
  <2>1. [ScanNext]_scanVars => UNCHANGED skips
    BY DEF ScanNext, FindRange, ReadBlock, RangeDone, Check, BlockDone, scanVars, input
  <2> QED BY <2>1, BehindStep DEF SkipToTags
<1> QED BY BehindInit, ScanTypeCorrect, <1>1, <1>2, PTL DEF ScanSpec
-----------------------------------------------------------------------------
(* Copies and dumps.                                                       *)

(* In an ordered list the early return of translate loses nothing.         *)
LEMMA TranslateOrdered ==
  ASSUME NEW rs \in Seq(Run),
         \A i, j \in DOMAIN rs : i < j => rs[i].start + rs[i].len <= rs[j].start,
         NEW i \in DOMAIN rs, NEW a \in Nat, Within(rs[i], a)
  PROVE  Translate(rs, a) = rs[i].off + (a - rs[i].start)
<1> DEFINE stops == {j \in DOMAIN rs : Within(rs[j], a) \/ a < rs[j].start}
           holders == {h \in stops : Within(rs[h], a) /\ \A j \in stops : h <= j}
<1>1. \A j \in DOMAIN rs : rs[j].start \in Nat /\ rs[j].len \in Nat /\ j \in Int
  <2>1. \A j \in DOMAIN rs : rs[j] \in Run /\ j \in Int
    OBVIOUS
  <2> QED BY <2>1 DEF Run
<1>2. i \in stops
  OBVIOUS
<1>3. ASSUME NEW j \in stops PROVE i <= j
  <2>1. CASE j < i
    <3>1. rs[j].start + rs[j].len <= rs[i].start
      BY <2>1
    <3>2. rs[i].start <= a
      BY DEF Within
    <3> QED BY <1>1, <3>1, <3>2 DEF Within
  <2> QED BY <1>1, <2>1
<1>4. holders = {i}
  <2>1. i \in holders
    BY <1>2, <1>3
  <2>2. ASSUME NEW h \in holders PROVE h = i
    BY <1>1, <1>2, <1>3
  <2> HIDE DEF holders
  <2> QED BY <2>1, <2>2
<1>5. Translate(rs, a) =
        IF holders = {} THEN None
        ELSE rs[CHOOSE h \in holders : TRUE].off + (a - rs[CHOOSE h \in holders : TRUE].start)
  BY DEF Translate
<1> HIDE DEF holders
<1>6. (CHOOSE h \in holders : TRUE) = i
  BY <1>4
<1> QED BY <1>4, <1>5, <1>6

(* What the assumptions say of the image at hand.                          *)
LEMMA RunTypes ==
  ASSUME src \in Sources
  PROVE  /\ runs \in Seq(Run) /\ Len(runs) \in Nat /\ Len(runs) >= 1
         /\ src.fsize \in Nat
         /\ \A i \in DOMAIN runs :
              /\ runs[i].start \in Nat /\ runs[i].off \in Nat /\ runs[i].len \in Nat
              /\ RunEnd(runs[i]) \in Nat /\ RunEnd(runs[i]) <= OutSize - HeaderLen
         /\ HeaderLen \in Nat /\ Base \in Nat /\ Base <= HeaderLen
<1>1. runs \in Seq(Run) /\ runs # <<>> /\ src.fsize \in Nat
  BY SourceAssumption DEF runs
<1>2. Len(runs) \in Nat /\ Len(runs) >= 1 /\ DOMAIN runs = 1..Len(runs)
  BY <1>1
<1>3. ASSUME NEW i \in DOMAIN runs
      PROVE  /\ runs[i].start \in Nat /\ runs[i].off \in Nat /\ runs[i].len \in Nat
             /\ RunEnd(runs[i]) \in Nat /\ RunEnd(runs[i]) <= OutSize - HeaderLen
  <2>1. runs[i] \in Run
    BY <1>1
  <2>2. runs[i].start \in Nat /\ runs[i].off \in Nat /\ runs[i].len \in Nat
    BY <2>1 DEF Run
  <2>3. runs[i].start + runs[i].len <= OutSize - HeaderLen
    BY SourceAssumption DEF runs
  <2> QED BY <2>2, <2>3 DEF RunEnd
<1>4. HeaderLen \in Nat /\ Base \in Nat /\ Base <= HeaderLen
  <2>1. HeaderLen \in Nat
    BY PlaceAssumption DEF HeaderLen
  <2> QED BY <2>1 DEF Base
<1> QED BY <1>1, <1>2, <1>3, <1>4

(* What can be read of an ordered image is what its runs hold.             *)
LEMMA AvailableIsHeld ==
  ASSUME src \in Sources, Ordered, NEW i \in DOMAIN runs, NEW a \in Nat,
         Within(runs[i], a)
  PROVE  Available(src, a) = Held(runs[i], a)
<1>1. Translate(runs, a) = runs[i].off + (a - runs[i].start)
  BY RunTypes, TranslateOrdered DEF Ordered, RunEnd
<1>2. runs[i].off + (a - runs[i].start) \in Int
  BY RunTypes DEF Within
<1>3. runs[1].start <= a
  <2>1. 1 \in DOMAIN runs /\ i \in Nat /\ i >= 1 /\ runs[1].start \in Nat
        /\ runs[1].len \in Nat /\ runs[i].start \in Nat
    BY RunTypes
  <2>2. 1 < i => runs[1].start + runs[1].len <= runs[i].start
    BY <2>1 DEF Ordered, RunEnd
  <2> QED BY <2>1, <2>2 DEF Within
<1>4. Offset(src, a) = Translate(runs, a)
  <2>1. ~(a < runs[1].start)
    BY <1>3, RunTypes
  <2> QED BY <2>1 DEF Offset, runs
<1> QED BY <1>1, <1>2, <1>4, PlaceAssumption DEF Available, Held, runs

LEMMA TranslateType ==
  ASSUME src \in Sources, NEW a \in Int
  PROVE  Translate(runs, a) \in Nat \cup {None}
<1> DEFINE stops == {i \in DOMAIN runs : Within(runs[i], a) \/ a < runs[i].start}
           holders == {i \in stops : Within(runs[i], a) /\ \A j \in stops : i <= j}
           h == CHOOSE g \in holders : TRUE
<1>1. CASE holders = {}
  BY <1>1 DEF Translate
<1>2. CASE holders # {}
  <2>1. h \in holders
    BY <1>2
  <2>2. h \in DOMAIN runs /\ Within(runs[h], a)
    BY <2>1
  <2>3. Translate(runs, a) = runs[h].off + (a - runs[h].start)
    BY <1>2 DEF Translate
  <2> HIDE DEF h
  <2>4. runs[h].off + (a - runs[h].start) \in Nat
    BY <2>2, RunTypes DEF Within
  <2> QED BY <2>3, <2>4
<1> QED BY <1>1, <1>2

LEMMA AvailableType ==
  ASSUME src \in Sources, NEW a \in Int
  PROVE  Available(src, a) \in Nat \cup {None}
<1>1. runs[1].start \in Nat
  BY RunTypes
<1>2. Offset(src, a) \in Nat \cup {None}
  BY <1>1, TranslateType DEF Offset, runs
<1> QED BY <1>2 DEF Available
-----------------------------------------------------------------------------
(* The new file stays within its bound, and the copy within the ranges.    *)
LEMMA WrittenType ==
  ASSUME TypeOK, NEW n \in Nat
  PROVE  Written(n) \in [Place -> Byte]
<1> SUFFICES ASSUME NEW q \in Place PROVE Written(n)[q] \in Byte
  BY DEF Written
<1>1. q - Base \in Int
  BY RunTypes, PlaceAssumption DEF TypeOK, Place
<1>2. Available(src, q - Base) \in Nat \cup {None}
  BY <1>1, AvailableType DEF TypeOK
<1>3. out[q] \in Byte
  BY DEF TypeOK
<1> QED BY <1>2, <1>3 DEF Written, Byte, ZERO

(* What the copy writes and records are bytes, runs and places of the image *)
(* from the first step on.                                                 *)
THEOREM TypeCorrect == Spec => []TypeOK
<1>1. Init => TypeOK
  <2> SUFFICES ASSUME Init PROVE TypeOK
    OBVIOUS
  <2>1. src \in Sources
    BY DEF Init
  <2>2. 1 \in DOMAIN runs /\ runs[1].start \in Nat
    BY <2>1, RunTypes
  <2> QED BY <2>1, <2>2, RunTypes DEF Init, TypeOK, Byte, ZERO
<1>2. TypeOK /\ [Next]_vars => TypeOK'
  <2> SUFFICES ASSUME TypeOK, [Next]_vars PROVE TypeOK'
    OBVIOUS
  <2>0. src \in Sources
    BY DEF TypeOK
  <2>1. CASE Refuse
    BY <2>1 DEF Refuse, TypeOK, runs
  <2>2. CASE BeginCopy
    BY <2>2 DEF BeginCopy, TypeOK, runs
  <2>3. CASE BeginDump
    <3>1. DumpPages \in Nat
      <4>1. RunEnd(runs[Len(runs)]) \in Nat
        BY <2>0, RunTypes
      <4> QED BY <4>1, PlaceAssumption DEF DumpPages
    <3>2. out' \in [Place -> Byte]
      BY <2>3 DEF BeginDump, TypeOK, Byte, HEADER
    <3>3. /\ UNCHANGED <<src, job, bsize, old, k, at>> /\ pages' = DumpPages
          /\ pc' = "body"
      BY <2>3 DEF BeginDump
    <3> QED BY <3>1, <3>2, <3>3 DEF TypeOK, runs
  <2>4. CASE Extract
    BY <2>4 DEF Extract, TypeOK, runs
  <2>5. CASE CopyBlock
    <3>1. /\ UNCHANGED <<src, job, bsize, old, pc, k, pages>>
          /\ k <= Len(runs) /\ at < RunEnd(runs[k])
          /\ out' = Written(BlockLength) /\ at' = at + bsize
      BY <2>5 DEF CopyBlock
    <3>2. bsize \in Nat /\ k \in DOMAIN runs /\ at \in Nat
      BY <2>0, <3>1, RunTypes, PlaceAssumption DEF TypeOK
    <3>3. BlockLength \in Nat
      BY <2>0, <3>1, <3>2, RunTypes DEF BlockLength
    <3>4. out' \in [Place -> Byte]
      BY <3>1, <3>3, WrittenType
    <3>5. at' \in Nat /\ runs[k].start <= at'
      BY <2>0, <3>1, <3>2, RunTypes DEF TypeOK
    <3> QED BY <3>1, <3>4, <3>5 DEF TypeOK, runs
  <2>6. CASE BlockFails
    BY <2>6 DEF BlockFails, TypeOK, runs
  <2>7. CASE NextRange
    <3>1. /\ UNCHANGED <<src, job, bsize, old, pc, pages, out>>
          /\ k <= Len(runs) /\ k' = k + 1
          /\ at' = IF k + 1 <= Len(runs) THEN runs[k + 1].start ELSE at
      BY <2>7 DEF NextRange
    <3>2. k' \in 1..(Len(runs) + 1)
      BY <2>0, <3>1, RunTypes DEF TypeOK
    <3>3. k + 1 <= Len(runs) => k + 1 \in DOMAIN runs
      BY <2>0, RunTypes DEF TypeOK
    <3>4. at' \in Nat /\ (k + 1 <= Len(runs) => runs[k + 1].start <= at')
      BY <2>0, <3>1, <3>3, RunTypes DEF TypeOK
    <3> QED BY <3>1, <3>2, <3>4 DEF TypeOK, runs
  <2>8. CASE BodyDone
    BY <2>8 DEF BodyDone, TypeOK, runs
  <2>9. ASSUME NEW a \in Place, PatchContext(a) PROVE TypeOK'
    BY <2>9 DEF PatchContext, TypeOK, runs, Byte, CONTEXT
  <2>10. CASE PatchFails
    BY <2>10 DEF PatchFails, TypeOK, runs
  <2>11. CASE UNCHANGED vars
    BY <2>11 DEF vars, TypeOK, runs
  <2> QED BY <2>1, <2>2, <2>3, <2>4, <2>5, <2>6, <2>7, <2>8, <2>9, <2>10, <2>11 DEF Next
<1> QED BY <1>1, <1>2, PTL DEF Spec
-----------------------------------------------------------------------------
(***************************************************************************)
(* What the new file holds while it is written.  PassedBy(i, a): the copy  *)
(* has come by address a in run i.  Behind the header, the file holds what *)
(* the image holds wherever the copy has come by, and nothing elsewhere.   *)
(* Nothing that was written is disturbed, because the runs ascend.         *)
(***************************************************************************)
PassedBy(i, a) == Within(runs[i], a) /\ (i < k \/ (i = k /\ a < at))
Patched == pc = "done" /\ job = "dump"

Positions ==
  /\ pc = "start" => k = 1 /\ at = runs[1].start /\ out = [q \in Place |-> ZERO]
  /\ pc \in {"patch", "done"} /\ job # "extract" => k = Len(runs) + 1
  /\ pc = "patch" => job = "dump"
  /\ job = "dump" /\ pc \in {"body", "patch", "done"} => pages = DumpPages

Holds(a) ==
  /\ \A i \in DOMAIN runs : PassedBy(i, a) =>
       out[Base + a] = Kept(runs[i], a) \/ (Patched /\ out[Base + a] = CONTEXT)
  /\ a >= 0 /\ (\A i \in DOMAIN runs : ~PassedBy(i, a)) =>
       out[Base + a] = ZERO \/ (Patched /\ out[Base + a] = CONTEXT)

Contents ==
  Ordered /\ job # "extract" /\ pc # "error" =>
    \A a \in Int : Base + a \in Place => Holds(a)

NothingMissed ==
  Ordered /\ job = "dump" /\ src.format # "hpak" /\ pc # "error" =>
    \A i \in DOMAIN runs, a \in Int : PassedBy(i, a) => Held(runs[i], a) # None

LEMMA InitContents == Init => Positions /\ Contents /\ NothingMissed
<1> SUFFICES ASSUME Init PROVE Positions /\ Contents /\ NothingMissed
  OBVIOUS
<1>1. src \in Sources /\ k = 1 /\ at = runs[1].start /\ pc = "start"
      /\ out = [q \in Place |-> ZERO]
  BY DEF Init
<1>2. 1 \in DOMAIN runs /\ \A i \in DOMAIN runs : i \in Nat /\ i >= 1
  BY <1>1, RunTypes
<1>3. \A i \in DOMAIN runs, a \in Int : ~PassedBy(i, a)
  BY <1>1, <1>2, RunTypes DEF PassedBy, Within
<1>4. pc # "done" /\ (job = "dump" => pc \notin {"body", "patch", "done"})
  BY <1>1
<1> QED BY <1>1, <1>3, <1>4 DEF Positions, Contents, NothingMissed, Holds

(* The step that writes.                                                   *)
LEMMA BlockContents ==
  ASSUME TypeOK, Positions, Contents, NothingMissed, CopyBlock
  PROVE  Contents' /\ NothingMissed'
<1> DEFINE n == BlockLength
<1>1. /\ UNCHANGED <<src, job, bsize, old, pc, k, pages>>
      /\ pc = "body" /\ k <= Len(runs) /\ at < RunEnd(runs[k])
      /\ job = "dump" => Readable(src, at, n)
      /\ out' = Written(n) /\ at' = at + bsize
  BY DEF CopyBlock
<1>2. /\ src \in Sources /\ bsize \in Nat /\ k \in DOMAIN runs /\ at \in Nat
      /\ runs[k].start <= at
  BY <1>1, RunTypes, PlaceAssumption DEF TypeOK
<1>3. n \in Nat /\ at + n <= RunEnd(runs[k]) /\ n <= bsize
      /\ (n = bsize \/ at + n = RunEnd(runs[k]))
  <2>1. RunEnd(runs[k]) \in Nat
    BY <1>2, RunTypes
  <2> QED BY <1>1, <1>2, <2>1 DEF BlockLength
<1>4. runs' = runs /\ Ordered' = Ordered /\ Base' = Base
      /\ (\A r, a : Held(r, a)' = Held(r, a) /\ Kept(r, a)' = Kept(r, a))
  BY <1>1 DEF runs, Ordered, Base, Held, Kept
<1>5. \A i \in DOMAIN runs, a \in Int :
        PassedBy(i, a)' <=> Within(runs[i], a) /\ (i < k \/ (i = k /\ a < at + bsize))
  BY <1>1, <1>4 DEF PassedBy
<1> HIDE DEF n
(* Where the block goes, the copy has not been, and vice versa.            *)
<1>6. ASSUME Ordered, NEW i \in DOMAIN runs, NEW a \in Int, PassedBy(i, a)'
      PROVE  \/ PassedBy(i, a) /\ a < at
             \/ /\ i = k /\ at <= a /\ a < at + n
                /\ \A j \in DOMAIN runs : ~PassedBy(j, a)
  <2>1. \A j \in DOMAIN runs : j < k => RunEnd(runs[j]) <= runs[k].start
    BY <1>2, <1>6 DEF Ordered
  <2>2. \A j \in DOMAIN runs : runs[j].start \in Nat /\ runs[j].len \in Nat /\ j \in Int
    BY <1>2, RunTypes
  <2>3. CASE i < k
    <3>1. a < at
      BY <1>2, <1>5, <1>6, <2>1, <2>2, <2>3 DEF Within, RunEnd
    <3> QED BY <1>5, <1>6, <2>3, <3>1 DEF PassedBy
  <2>4. CASE i = k /\ a < at
    BY <1>5, <1>6, <2>4 DEF PassedBy
  <2>5. CASE i = k /\ at <= a
    <3>1. a < at + n
      BY <1>2, <1>3, <1>5, <1>6, <2>2, <2>5 DEF Within, RunEnd
    <3>2. \A j \in DOMAIN runs : ~PassedBy(j, a)
      BY <1>2, <2>1, <2>2, <2>5 DEF PassedBy, Within, RunEnd
    <3> QED BY <2>5, <3>1, <3>2
  <2> QED BY <1>2, <1>5, <1>6, <2>2, <2>3, <2>4, <2>5
<1>7. ASSUME NEW a \in Int, \A i \in DOMAIN runs : ~PassedBy(i, a)'
      PROVE  (a < at \/ at + n <= a) /\ \A i \in DOMAIN runs : ~PassedBy(i, a)
  <2>1. runs[k].start \in Nat /\ runs[k].len \in Nat
    BY <1>2, RunTypes
  <2>2. ASSUME at <= a, a < at + n PROVE FALSE
    <3>1. Within(runs[k], a) /\ a < at + bsize
      BY <1>2, <1>3, <2>1, <2>2 DEF Within, RunEnd
    <3> QED BY <1>2, <1>5, <1>7, <3>1
  <2>3. \A i \in DOMAIN runs : PassedBy(i, a) => PassedBy(i, a)'
    BY <1>2, <1>5 DEF PassedBy
  <2> QED BY <1>2, <1>3, <1>7, <2>2, <2>3
<1>8. ASSUME Ordered, job # "extract", NEW a \in Int, Base + a \in Place
      PROVE  Holds(a)'
  <2> DEFINE q == Base + a
  <2>1. q - Base = a
    BY <1>2, RunTypes
  <2>2. out'[q] = IF a < at \/ at + n <= a THEN out[q]
                  ELSE IF Available(src, a) # None THEN Available(src, a)
                  ELSE IF job = "copy" THEN ZERO ELSE out[q]
    BY <1>1, <1>8, <2>1 DEF Written
  <2>3. /\ \A i \in DOMAIN runs : PassedBy(i, a) => out[q] = Kept(runs[i], a)
        /\ a >= 0 /\ (\A i \in DOMAIN runs : ~PassedBy(i, a)) => out[q] = ZERO
    <3>1. Holds(a) /\ ~Patched
      BY <1>1, <1>8 DEF Contents, Patched
    <3> QED BY <3>1 DEF Holds
  <2>4. ASSUME NEW i \in DOMAIN runs, PassedBy(i, a)' PROVE out'[q] = Kept(runs[i], a)
    <3>1. CASE PassedBy(i, a) /\ a < at
      BY <2>2, <2>3, <3>1
    <3>2. CASE i = k /\ at <= a /\ a < at + n /\ \A j \in DOMAIN runs : ~PassedBy(j, a)
      <4>1. a \in Nat
        BY <1>2, <3>2
      <4>2. Within(runs[i], a)
        BY <1>5, <2>4
      <4>3. Available(src, a) = Held(runs[i], a)
        BY <1>2, <1>8, <4>1, <4>2, AvailableIsHeld
      <4>4. out[q] = ZERO
        BY <2>3, <3>2, <4>1
      <4>5. out'[q] = IF Available(src, a) # None THEN Available(src, a) ELSE ZERO
        BY <1>2, <1>3, <2>2, <3>2, <4>4
      <4> QED BY <4>3, <4>5 DEF Kept
    <3> QED BY <1>6, <1>8, <2>4, <3>1, <3>2
  <2>5. ASSUME a >= 0, \A i \in DOMAIN runs : ~PassedBy(i, a)' PROVE out'[q] = ZERO
    <3>1. (a < at \/ at + n <= a) /\ \A i \in DOMAIN runs : ~PassedBy(i, a)
      BY <1>7, <2>5
    <3> QED BY <2>2, <2>3, <2>5, <3>1
  <2>6. \A i \in DOMAIN runs : Kept(runs[i], a)' = Kept(runs[i], a)
    BY <1>4
  <2> QED BY <1>4, <2>4, <2>5, <2>6 DEF Holds
<1>9. ASSUME Ordered, job = "dump", src.format # "hpak",
             NEW i \in DOMAIN runs, NEW a \in Int, PassedBy(i, a)'
      PROVE  Held(runs[i], a) # None
  <2>1. CASE PassedBy(i, a)
    BY <1>1, <1>9, <2>1 DEF NothingMissed
  <2>2. CASE at <= a /\ a < at + n
    <3>1. a - at \in 0..(n - 1) /\ at + (a - at) = a
      BY <1>2, <1>3, <2>2
    <3>2. Available(src, a) # None
      BY <1>1, <1>9, <3>1 DEF Readable
    <3>3. a \in Nat
      BY <1>2, <2>2
    <3> QED BY <1>2, <1>5, <1>9, <3>2, <3>3, AvailableIsHeld
  <2> QED BY <1>6, <1>9, <2>1, <2>2
<1> QED BY <1>1, <1>4, <1>8, <1>9 DEF Contents, NothingMissed

(* Going on to the next range passes nothing by that was not passed.       *)
LEMMA NextRangeContents ==
  ASSUME TypeOK, Contents, NothingMissed, NextRange
  PROVE  Contents' /\ NothingMissed'
<1>1. /\ UNCHANGED <<src, job, bsize, old, pc, pages, out>>
      /\ at >= RunEnd(runs[k]) /\ k <= Len(runs) /\ k' = k + 1
      /\ at' = IF k + 1 <= Len(runs) THEN runs[k + 1].start ELSE at
  BY DEF NextRange
<1>2. src \in Sources /\ k \in DOMAIN runs /\ k \in Nat /\ at \in Nat
  BY <1>1, RunTypes DEF TypeOK
<1>3. runs' = runs /\ Ordered' = Ordered /\ Base' = Base /\ Patched' = Patched
      /\ (\A r, a : Held(r, a)' = Held(r, a) /\ Kept(r, a)' = Kept(r, a))
  BY <1>1 DEF runs, Ordered, Base, Held, Kept, Patched
<1>4. ASSUME NEW i \in DOMAIN runs, NEW a \in Int
      PROVE  PassedBy(i, a)' <=> PassedBy(i, a)
  <2>1. runs[i].start \in Nat /\ runs[i].len \in Nat /\ i \in 1..Len(runs)
        /\ Len(runs) \in Nat
    BY <1>2, RunTypes
  <2>2. PassedBy(i, a)' <=> Within(runs[i], a) /\ (i < k' \/ (i = k' /\ a < at'))
    BY <1>3 DEF PassedBy
  <2>3. i = k + 1 => ~(Within(runs[i], a) /\ a < at')
    BY <1>1, <2>1 DEF Within
  <2>4. i = k /\ Within(runs[i], a) => a < at
    BY <1>1, <1>2, <2>1 DEF Within, RunEnd
  <2> QED BY <1>1, <1>2, <2>1, <2>2, <2>3, <2>4 DEF PassedBy
<1> QED BY <1>1, <1>3, <1>4 DEF Contents, NothingMissed, Holds

(* A step that leaves the file and the position alone.                     *)
LEMMA FrameContents ==
  ASSUME Contents, NothingMissed, UNCHANGED <<src, job, bsize, old, k, at, out>>,
         pc # "error", pc # "done"
  PROVE  Contents' /\ NothingMissed'
<1>1. runs' = runs /\ Ordered' = Ordered /\ Base' = Base
      /\ (\A r, a : Held(r, a)' = Held(r, a) /\ Kept(r, a)' = Kept(r, a))
  BY DEF runs, Ordered, Base, Held, Kept
<1>2. \A i \in DOMAIN runs, a \in Int : PassedBy(i, a)' <=> PassedBy(i, a)
  BY <1>1 DEF PassedBy
<1>3. ~Patched
  BY DEF Patched
<1> QED BY <1>1, <1>2, <1>3 DEF Contents, NothingMissed, Holds

(* The header lies before everything that is copied.                       *)
LEMMA HeaderContents ==
  ASSUME TypeOK, Positions, Contents, NothingMissed, BeginDump
  PROVE  Contents' /\ NothingMissed'
<1>1. /\ UNCHANGED <<src, job, bsize, old, k, at>> /\ pc' = "body"
      /\ out' = [q \in Place |-> IF q < HeaderLen THEN HEADER ELSE out[q]]
      /\ k = 1 /\ at = runs[1].start /\ out = [q \in Place |-> ZERO]
      /\ job = "dump"
  BY DEF BeginDump, Positions
<1>2. src \in Sources
  BY DEF TypeOK
<1>3. runs' = runs /\ Base' = Base /\ Base = HeaderLen /\ HeaderLen \in Nat
  BY <1>1, <1>2, RunTypes DEF runs, Base
<1>4. \A i \in DOMAIN runs : i \in Nat /\ i >= 1 /\ runs[i].start \in Nat
  BY <1>2, RunTypes
<1>5. ASSUME NEW i \in DOMAIN runs, NEW a \in Int PROVE ~PassedBy(i, a)'
  BY <1>1, <1>3, <1>4 DEF PassedBy, Within
<1>6. ASSUME NEW a \in Int, Base + a \in Place, a >= 0
      PROVE  out'[Base + a] = ZERO
  <2>1. ~(Base + a < HeaderLen)
    BY <1>3, <1>6
  <2> QED BY <1>1, <1>6, <2>1
<1> QED BY <1>3, <1>5, <1>6 DEF Contents, NothingMissed, Holds

(* The context goes to one place, which is then allowed to hold it.        *)
LEMMA PatchKeepsContents ==
  ASSUME TypeOK, Positions, Contents, NothingMissed,
         NEW x \in Place, PatchContext(x)
  PROVE  Contents' /\ NothingMissed'
<1> DEFINE y == Translate(DumpRuns, x)
<1>1. /\ UNCHANGED <<src, job, bsize, old, k, at, pages>>
      /\ pc = "patch" /\ pc' = "done" /\ job = "dump"
      /\ out' = [out EXCEPT ![y] = CONTEXT]
  BY DEF PatchContext, Positions
<1> HIDE DEF y
<1>2. runs' = runs /\ Ordered' = Ordered /\ Base' = Base
      /\ (\A r, a : Held(r, a)' = Held(r, a) /\ Kept(r, a)' = Kept(r, a))
  BY <1>1 DEF runs, Ordered, Base, Held, Kept
<1>3. \A i \in DOMAIN runs, a \in Int : PassedBy(i, a)' <=> PassedBy(i, a)
  BY <1>1, <1>2 DEF PassedBy
<1>4. Patched' /\ ~Patched
  BY <1>1 DEF Patched
<1>5. \A q \in Place : out'[q] = out[q] \/ out'[q] = CONTEXT
  BY <1>1 DEF TypeOK
<1> QED BY <1>1, <1>2, <1>3, <1>4, <1>5 DEF Contents, NothingMissed, Holds

(* Where the copy is, and what the header says.                            *)
LEMMA PositionsStep ==
  ASSUME TypeOK, Positions, [Next]_vars
  PROVE  Positions'
<1>0. Len(runs) \in Nat /\ k \in 1..(Len(runs) + 1)
  BY RunTypes DEF TypeOK
<1>1. src' = src /\ runs' = runs
  BY DEF Next, Refuse, BeginCopy, BeginDump, Extract, CopyBlock, BlockFails,
         NextRange, BodyDone, PatchContext, PatchFails, vars, runs
<1>2. DumpPages' = DumpPages
  BY <1>1 DEF DumpPages
<1>3. CASE Refuse \/ BeginCopy \/ BeginDump \/ Extract
  BY <1>1, <1>2, <1>3 DEF Refuse, BeginCopy, BeginDump, Extract, Positions
<1>4. CASE CopyBlock \/ BlockFails \/ NextRange
  BY <1>1, <1>2, <1>4 DEF CopyBlock, BlockFails, NextRange, Positions
<1>5. CASE BodyDone
  BY <1>0, <1>1, <1>2, <1>5 DEF BodyDone, Positions
<1>6. CASE PatchFails \/ \E a \in Place : PatchContext(a)
  BY <1>1, <1>2, <1>6 DEF PatchFails, PatchContext, Positions
<1>7. CASE UNCHANGED vars
  BY <1>1, <1>2, <1>7 DEF vars, Positions
<1> QED BY <1>3, <1>4, <1>5, <1>6, <1>7 DEF Next

LEMMA ContentsStep ==
  ASSUME TypeOK, Positions, Contents, NothingMissed, [Next]_vars
  PROVE  Contents' /\ NothingMissed'
<1>1. CASE BlockFails \/ PatchFails
  BY <1>1 DEF BlockFails, PatchFails, Contents, NothingMissed
<1>2. CASE Refuse \/ BeginCopy \/ Extract \/ BodyDone
  BY <1>2, FrameContents DEF Refuse, BeginCopy, Extract, BodyDone
<1>3. CASE BeginDump
  BY <1>3, HeaderContents
<1>4. CASE CopyBlock
  BY <1>4, BlockContents
<1>5. CASE NextRange
  BY <1>5, NextRangeContents
<1>6. CASE \E a \in Place : PatchContext(a)
  BY <1>6, PatchKeepsContents
<1>7. CASE UNCHANGED vars
  <2>1. runs' = runs /\ Ordered' = Ordered /\ Base' = Base /\ Patched' = Patched
        /\ (\A r, a : Held(r, a)' = Held(r, a) /\ Kept(r, a)' = Kept(r, a))
    BY <1>7 DEF vars, runs, Ordered, Base, Held, Kept, Patched
  <2>2. \A i \in DOMAIN runs, a \in Int : PassedBy(i, a)' <=> PassedBy(i, a)
    BY <1>7, <2>1 DEF vars, PassedBy
  <2> QED BY <1>7, <2>1, <2>2 DEF vars, Contents, NothingMissed, Holds
<1> QED BY <1>1, <1>2, <1>3, <1>4, <1>5, <1>6, <1>7 DEF Next

LEMMA InvariantHolds == Spec => [](TypeOK /\ Positions /\ Contents /\ NothingMissed)
<1>1. TypeOK /\ Positions /\ Contents /\ NothingMissed /\ [Next]_vars
        => (Positions /\ Contents /\ NothingMissed)'
  BY PositionsStep, ContentsStep
<1> QED BY <1>1, InitContents, TypeCorrect, PTL DEF Spec

(* A finished copy holds at every address of every run what the file holds *)
(* for it, zero where the file is too short, and nothing else.             *)
THEOREM CopyIsFaithful == Spec => []CopyFaithful
<1>1. TypeOK /\ Positions /\ Contents => CopyFaithful
  <2> SUFFICES ASSUME TypeOK, Positions, Contents,
                      pc = "done", job = "copy", Ordered, NEW q \in Place
               PROVE  /\ \A i \in DOMAIN runs :
                           Within(runs[i], q) => out[q] = Kept(runs[i], q)
                      /\ (\A i \in DOMAIN runs : ~Within(runs[i], q)) => out[q] = ZERO
    BY DEF CopyFaithful
  <2>1. src \in Sources /\ k = Len(runs) + 1 /\ Base = 0 /\ ~Patched
    BY DEF TypeOK, Positions, Base, Patched
  <2>2. q \in Nat /\ Base + q = q
    BY <2>1, PlaceAssumption DEF Place
  <2>3. Holds(q)
    BY <2>2 DEF Contents
  <2>4. \A i \in DOMAIN runs : i < k
    BY <2>1, RunTypes
  <2> QED BY <2>1, <2>2, <2>3, <2>4 DEF Holds, PassedBy
<1> QED BY <1>1, InvariantHolds, PTL

(* A finished dump, opened again, gives for every address of the source's  *)
(* whole pages the byte of the source, also behind holes, or the patched   *)
(* context; there was no byte that the file did not have, except behind    *)
(* the end of an HPAK file, whose size is given as that of its section.    *)
THEOREM DumpIsFaithful == Spec => []DumpFaithful
<1>1. TypeOK /\ Positions /\ Contents /\ NothingMissed => DumpFaithful
  <2> SUFFICES ASSUME TypeOK, Positions, Contents, NothingMissed,
                      pc = "done", job = "dump", Ordered,
                      NEW i \in DOMAIN runs,
                      NEW a \in runs[i].start..(RunEnd(runs[i]) - 1)
               PROVE  IF Held(runs[i], a) = None THEN src.format = "hpak"
                      ELSE a \div Page < RunEnd(runs[Len(runs)]) \div Page =>
                             LET q == Translate(DumpRuns, a)
                             IN q # None /\ out[q] \in {CONTEXT, Held(runs[i], a)}
    BY DEF DumpFaithful
  <2>1. /\ src \in Sources /\ k = Len(runs) + 1 /\ Base = HeaderLen
        /\ pages = DumpPages /\ pages \in Nat
    BY DEF TypeOK, Positions, Base
  <2>2. /\ a \in Nat /\ Within(runs[i], a) /\ i < k /\ HeaderLen \in Nat
        /\ a < OutSize - HeaderLen
    BY <2>1, RunTypes, PlaceAssumption DEF Within, RunEnd
  <2>3. PassedBy(i, a)
    BY <2>2 DEF PassedBy
  <2>4. Held(runs[i], a) = None => src.format = "hpak"
    BY <2>2, <2>3 DEF NothingMissed
  <2>5. ASSUME Held(runs[i], a) # None, a \div Page < RunEnd(runs[Len(runs)]) \div Page
        PROVE  Translate(DumpRuns, a) # None
               /\ out[Translate(DumpRuns, a)] \in {CONTEXT, Held(runs[i], a)}
    <3>1. a < pages * Page
      <4>1. a \div Page < pages
        BY <2>1, <2>5 DEF DumpPages
      <4> QED BY <2>1, <2>2, <4>1, PlaceAssumption
    <3>2. DumpRuns \in Seq(Run) /\ DOMAIN DumpRuns = {1}
          /\ DumpRuns[1].start = 0 /\ DumpRuns[1].off = HeaderLen
          /\ DumpRuns[1].len = pages * Page
      BY <2>1, <2>2, PlaceAssumption DEF DumpRuns, Run
    <3>3. Within(DumpRuns[1], a)
      <4> DEFINE r == DumpRuns[1]
      <4>1. r.start = 0 /\ a < r.len /\ r.len \in Int
        BY <2>1, <3>1, <3>2, PlaceAssumption
      <4> HIDE DEF r
      <4>2. Within(r, a)
        BY <2>2, <4>1 DEF Within
      <4> QED BY <4>2 DEF r
    <3>4. Translate(DumpRuns, a) = HeaderLen + a
      BY <2>2, <3>2, <3>3, TranslateOrdered
    <3>5. Base + a \in Place /\ HeaderLen + a # None
      BY <2>1, <2>2, PlaceAssumption DEF Place
    <3>6. Holds(a)
      BY <2>2, <3>5 DEF Contents
    <3>7. Kept(runs[i], a) = Held(runs[i], a)
      BY <2>5 DEF Kept
    <3> QED BY <2>1, <2>3, <3>4, <3>5, <3>6, <3>7 DEF Holds
  <2> QED BY <2>4, <2>5
<1> QED BY <1>1, InvariantHolds, PTL
=============================================================================
