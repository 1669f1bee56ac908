-------------------------- MODULE HibernateProofs --------------------------
(***************************************************************************)
(* Proofs about Hibernate, for every hibernation file, every geometry of   *)
(* pages, blocks and tables, and every limit of the Store.                 *)
(*                                                                         *)
(* BuildInv holds of every file: what is listed is looked up or is still   *)
(* to take.  StoreInv is what put keeps; the sum of the lengths is a       *)
(* function of the queue that exists whenever one does for a queue that is *)
(* shorter by one at either end (SumsAppend, SumsTail).                    *)
(*                                                                         *)
(* LookupRight compares where the walk ends with where each page was put,  *)
(* for files that are laid as Windows lays them.  LaidInv follows the walk *)
(* there: the tables behind it are all that come before the one at hand    *)
(* (Chained); the number of pages taken of that is the index (Counted), so *)
(* that a page's rank is known when its turn comes; and the block at hand  *)
(* is the one with the rank of the last page (AtBlock), for the search     *)
(* behind a block stops at the next of the same table (NextOwn), and after *)
(* skipping, the first block behind a table is its first (FirstOwn).       *)
(*                                                                         *)
(* ReadInv: what a read has got is the memory from where it began to where *)
(* it is.  A step adds what the block at hand has of the page, and the     *)
(* Store, which keeps only true lengths, gives it as the file does         *)
(* (PartFacts).                                                            *)
(*                                                                         *)
(* PlacesApart holds of every file: no page is looked up further on than   *)
(* the walk is (AsOrdered), whose block and slot only go up.               *)
(***************************************************************************)
EXTENDS Hibernate, FiniteSetTheorems, SequenceTheorems, WellFoundedInduction, TLAPS

(* The constructor.  What is listed is in the lookup, but for the pages of *)
(* a range that are still to take.                                         *)
Entry == [head : DOMAIN file.blocks, size : Nat, slot : 0..(BlockPages - 1)]
ToTake ==
  IF range = 1 THEN {} ELSE (Ranges[range - 1].start + taken)..(Ranges[range - 1].end - 1)
Listed == UNION {r.start..(r.start + r.count - 1) : r \in listed}

BuildInv ==
  /\ file \in Images
  /\ pc \in {"first", "table", "skip", "idle", "reading", "refused"}
  /\ table \in DOMAIN file.tables \cup {0}
  /\ {range, taken, index, size} \subseteq Nat
  /\ head \in DOMAIN file.blocks \cup {0}
  /\ \A p \in DOMAIN lookup : lookup[p] \in Entry /\ lookup[p].size = BlockSize(file, lookup[p].head)
  /\ \A r \in listed : r \in [start : Nat, count : Nat \ {0}]
  /\ pc = "first" => table = 0 /\ range = 1 /\ taken = 0 /\ index = 0 /\ lookup = <<>> /\ listed = {}
  /\ pc \notin {"first", "refused"} => head \in DOMAIN file.blocks /\ size = BlockSize(file, head)
  /\ pc # "refused" =>
       /\ range \in 1..(Len(Ranges) + 1)
       /\ range = 1 => taken = 0
       /\ range > 1 => taken <= Count(Ranges[range - 1])
       /\ Listed = DOMAIN lookup \cup ToTake
  /\ pc = "skip" => range = 1 /\ taken = 0 /\ index = 0
  /\ pc \in {"idle", "reading"} => RangeOver /\ range > Len(Ranges) /\ ~HasNext

(* The Store and the reads.                                                *)
Sums(total, seq) ==
  /\ total \in [0..Len(seq) -> Int]
  /\ total[0] = 0
  /\ \A i \in 1..Len(seq) : total[i] = total[i - 1] + DataLen(file, seq[i])
(* What StoreInv says of a store.                                          *)
Fine(s) ==
  /\ s.seq \in Seq(DOMAIN file.blocks)
  /\ ToSet(s.seq) = DOMAIN s.cache /\ IsInjective(s.seq)
  /\ Len(s.seq) < Limit
  /\ \A b \in DOMAIN s.cache : s.cache[b] = DataLen(file, b)
  /\ \E total : Sums(total, s.seq) /\ total[Len(s.seq)] = s.size
StoreInv == Fine(store)
JobInv ==
  /\ DOMAIN job = {"at", "len", "addr", "left", "got", "zero"}
  /\ {job.at, job.len, job.addr, job.left} \subseteq Nat
  /\ job.addr + job.left = job.at + job.len
  /\ job.zero \in BOOLEAN

(* The walk over a file that is laid as Windows lays it.  TF are its       *)
(* tables; place p of table t is taken when the walk is in table tb, range *)
(* rg and has taken tk pages of it.                                        *)
TF(f) == TablesFrom(f, FirstTable(f))
Before(p, rg, tk) == p[1] < rg - 1 \/ (p[1] = rg - 1 /\ p[2] < tk)
Taken(t, p, tb, rg, tk) == t < tb \/ (t = tb /\ Before(p, rg, tk))
Done(f, tb, rg, tk) == {p \in Places(f, tb) : Before(p, rg, tk)}
Located(f, t, p, lk) ==
  /\ PageAt(f, t, p) \in DOMAIN lk
  /\ lk[PageAt(f, t, p)].head \in Own(f, t)
  /\ BlockRank(f, t, lk[PageAt(f, t, p)].head) = Rank(f, t, p) \div BlockPages
  /\ lk[PageAt(f, t, p)].slot = Rank(f, t, p) % BlockPages

(* The tables behind, the block at hand, the pages counted, and those that *)
(* have been taken, in the lookup and nothing else there.                  *)
Chained(f, tb) ==
  /\ IF FirstTable(f) = 0 THEN tb = 0 ELSE tb \in TF(f)
  /\ \A s \in TF(f) : s < tb => Follows(f, s) /\ f.tables[s].next <= tb
Ahead(f, tb, hd) == \A c \in DOMAIN f.blocks : c >= tb * Page => c >= hd
AtBlock(f, tb, ix, hd) ==
  tb \in TF(f) /\ Own(f, tb) # {} =>
    /\ hd \in Own(f, tb)
    /\ BlockRank(f, tb, hd) = IF ix = 0 THEN 0 ELSE (ix - 1) \div BlockPages
Counted(f, tb, rg, tk, ix) ==
  tb \in TF(f) => /\ IsFiniteSet(Done(f, tb, rg, tk))
                  /\ Cardinality(Done(f, tb, rg, tk)) = ix
AllLocated(f, tb, rg, tk, lk) ==
  \A t \in TF(f) : \A p \in Places(f, t) : Taken(t, p, tb, rg, tk) => Located(f, t, p, lk)
NothingElse(f, tb, rg, tk, lk) ==
  \A page \in DOMAIN lk :
    \E t \in TF(f) : \E p \in Places(f, t) : Taken(t, p, tb, rg, tk) /\ page = PageAt(f, t, p)

LaidInv ==
  WellLaid(file) /\ pc \notin {"first", "refused"} =>
    /\ Chained(file, table)
    /\ pc = "skip" => Ahead(file, table, head)
    /\ pc # "skip" => AtBlock(file, table, index, head)
    /\ Counted(file, table, range, taken, index)
    /\ AllLocated(file, table, range, taken, lookup)
    /\ NothingElse(file, table, range, taken, lookup)

ReadInv ==
  /\ pc \in {"first", "table", "skip"} => job = NoJob
  /\ WellLaid(file) /\ pc = "reading" =>
       /\ job.addr >= job.at
       /\ job.got = [j \in 1..(job.addr - job.at) |-> MemoryByte(file, job.at + j - 1)]
       /\ \A j \in 1..(job.addr - job.at) : MemoryByte(file, job.at + j - 1) # None
  /\ ReadRight
-----------------------------------------------------------------------------
LEMMA Sizes ==
  /\ Page \in Nat \ {0} /\ BlockPages \in Nat \ {0} /\ HeaderSize \in Nat \ {0}
  /\ Align \in Nat \ {0} /\ Chunk \in Nat \ {0} /\ FullTable \in Nat \ {0}
  /\ Limit \in Nat \ {0} /\ SearchLimit \in Nat /\ FirstPages \in Nat
  /\ Addresses \subseteq Nat /\ Lengths \subseteq Nat /\ None \notin Nat
BY SizeAssumption

LEMMA Image ==
  ASSUME NEW f \in Images
  PROVE  /\ f.fsize \in Nat
         /\ DOMAIN f.tables \subseteq Nat
         /\ DOMAIN f.blocks \subseteq Nat /\ IsFiniteSet(DOMAIN f.blocks)
         /\ \A t \in DOMAIN f.tables :
              /\ f.tables[t].next \in DOMAIN f.tables \cup {0}
              /\ f.tables[t].next \in Nat
              /\ f.tables[t].ranges \in Seq([start : Nat, end : Nat])
         /\ \A b \in DOMAIN f.blocks : f.blocks[b].packed \in Nat /\ f.blocks[b].data \in Nat
BY ImageAssumption

LEMMA DivMod ==
  ASSUME NEW a \in Nat, NEW s \in Nat \ {0}
  PROVE  /\ a = s * (a \div s) + (a % s)
         /\ a \div s \in Nat
         /\ a % s \in 0..(s - 1)
BY SMT

LEMMA DivUnique ==
  ASSUME NEW s \in Nat \ {0}, NEW q \in Nat, NEW r \in 0..(s - 1)
  PROVE  (s * q + r) \div s = q /\ (s * q + r) % s = r
<1> DEFINE a == s * q + r
           d == a \div s
           m == a % s
<1>1. a \in Nat
  BY SMT
<1>2. a = s * d + m /\ d \in Nat /\ m \in 0..(s - 1)
  BY <1>1, DivMod
<1>3. a = s * q + r
  OBVIOUS
<1> HIDE DEF a, d, m
<1>4. ASSUME d < q PROVE FALSE
  <2>1. d + 1 <= q
    BY <1>2, <1>4
  <2>2. s * (d + 1) <= s * q
    BY <1>2, <2>1, SMT
  <2>3. s * (d + 1) = s * d + s /\ s * d \in Nat /\ s * q \in Nat
    BY <1>2, SMT
  <2> QED BY <1>2, <1>3, <2>2, <2>3
<1>5. ASSUME q < d PROVE FALSE
  <2>1. q + 1 <= d
    BY <1>2, <1>5
  <2>2. s * (q + 1) <= s * d
    BY <1>2, <2>1, SMT
  <2>3. s * (q + 1) = s * q + s /\ s * d \in Nat /\ s * q \in Nat
    BY <1>2, SMT
  <2> QED BY <1>2, <1>3, <2>2, <2>3
<1>6. d = q
  BY <1>2, <1>4, <1>5
<1>7. s * d = s * q /\ s * q \in Nat
  BY <1>6, SMT
<1>8. m = r
  BY <1>2, <1>3, <1>7
<1> QED BY <1>6, <1>8 DEF a, d, m

(* The block of the next page is the one after, when the last is full.     *)
LEMMA BlockOfNext ==
  ASSUME NEW n \in Nat \ {0}, NEW s \in Nat \ {0}
  PROVE  /\ n % s # 0 => n \div s = (n - 1) \div s
         /\ n % s = 0 => n \div s = (n - 1) \div s + 1
<1> DEFINE q == n \div s
           r == n % s
<1>1. n = s * q + r /\ q \in Nat /\ r \in 0..(s - 1)
  BY DivMod
<1> HIDE DEF q, r
<1>2. CASE r # 0
  <2>1. n - 1 = s * q + (r - 1) /\ r - 1 \in 0..(s - 1)
    BY <1>1, <1>2, SMT
  <2>2. (n - 1) \div s = q
    BY <1>1, <2>1, DivUnique
  <2> QED BY <1>2, <2>2 DEF q, r
<1>3. CASE r = 0
  <2>1. q # 0
    BY <1>1, <1>3, SMT
  <2>2. q - 1 \in Nat /\ s - 1 \in 0..(s - 1)
    BY <1>1, <2>1
  <2>3. n - 1 = s * (q - 1) + (s - 1)
    BY <1>1, <1>3, SMT
  <2>4. (n - 1) \div s = q - 1
    BY <2>2, <2>3, DivUnique
  <2> QED BY <1>1, <1>3, <2>4 DEF q, r
<1> QED BY <1>2, <1>3

LEMMA LeastNatural ==
  ASSUME NEW S \in SUBSET Nat, S # {}
  PROVE  \E x \in S : \A y \in S : x <= y
<1> DEFINE less == OpToRel(<, Nat)
<1>1. \A x, y \in Nat : x < y => <<x, y>> \in less
  BY DEF OpToRel
<1>2. IsWellFoundedOn(less, Nat)
  BY NatLessThanWellFounded
<1> HIDE DEF less
<1>3. PICK x \in S : \A y \in S : <<y, x>> \notin less
  BY <1>2, WFMin
<1>4. ASSUME NEW y \in S PROVE x <= y
  <2>1. x \in Nat /\ y \in Nat
    OBVIOUS
  <2>2. ~(y < x)
    BY <1>1, <1>3, <2>1
  <2> QED BY <2>1, <2>2
<1> QED BY <1>4
-----------------------------------------------------------------------------
(* Blocks, and the search for the next.                                    *)
LEMMA BlockSizes ==
  ASSUME NEW f \in Images, NEW b \in DOMAIN f.blocks
  PROVE  BlockSize(f, b) \in Nat
<1> DEFINE n == f.blocks[b].packed + 1
           r == n % Align
<1>1. n \in Nat /\ Align \in Nat \ {0}
  BY Image, Sizes
<1>2. r \in 0..(Align - 1)
  BY <1>1, DivMod
<1>3. BlockSize(f, b) = IF r = 0 THEN n ELSE n - r + Align
  BY DEF BlockSize
<1> HIDE DEF n, r
<1> QED BY <1>1, <1>2, <1>3

LEMMA DataLengths ==
  ASSUME NEW f \in Images, NEW b \in DOMAIN f.blocks
  PROVE  DataLen(f, b) \in Int
<1>1. b \in Nat /\ f.fsize \in Nat /\ f.blocks[b].data \in Nat /\ HeaderSize \in Nat
  BY Image, Sizes
<1>2. RawSize \in Nat
  BY Sizes, SMT DEF RawSize
<1> QED BY <1>1, <1>2 DEF DataLen

(* The search stops at the first block behind where it begins.             *)
LEMMA Search ==
  ASSUME file \in Images, NEW h \in Nat, NEW s \in Nat, NextXpress(h, s) # None
  PROVE  /\ NextXpress(h, s) \in DOMAIN file.blocks
         /\ h + HeaderSize + s <= NextXpress(h, s)
         /\ \A c \in DOMAIN file.blocks : h + HeaderSize + s <= c => NextXpress(h, s) <= c
<1> DEFINE from == h + HeaderSize + s
           span == ((SearchLimit \div Chunk) + 1) * Chunk
           found == {b \in DOMAIN file.blocks : from <= b /\ b < from + span}
<1>1. NextXpress(h, s) = IF found = {} THEN None ELSE CHOOSE b \in found : \A c \in found : b <= c
  BY DEF NextXpress
<1>2. from \in Nat /\ DOMAIN file.blocks \subseteq Nat
  BY Sizes, Image
<1>3. span \in Int
  BY Sizes, DivMod, SMT
<1>4. found # {} /\ found \in SUBSET Nat
  BY <1>1, <1>2
<1>5. \E b \in found : \A c \in found : b <= c
  BY <1>4, LeastNatural
<1>6. NextXpress(h, s) \in found /\ \A c \in found : NextXpress(h, s) <= c
  BY <1>1, <1>4, <1>5
<1>7. ASSUME NEW c \in DOMAIN file.blocks, from <= c PROVE NextXpress(h, s) <= c
  <2> DEFINE x == NextXpress(h, s)
  <2>1. x \in Nat /\ x < from + span /\ c \in Nat
    BY <1>2, <1>6
  <2>2. c \in found => x <= c
    BY <1>6
  <2>3. c \in found <=> c < from + span
    BY <1>7
  <2> HIDE DEF x, found, span, from
  <2>4. x <= c
    BY <1>2, <1>3, <2>1, <2>2, <2>3
  <2> QED BY <2>4 DEF x
<1> QED BY <1>6, <1>7

LEMMA First ==
  ASSUME NEW f \in Images, FirstTable(f) # None
  PROVE  /\ FirstTable(f) \in DOMAIN f.tables \cup {0} /\ FirstTable(f) \in Nat
         /\ (FirstTable(f) + 1) * Page \in DOMAIN f.blocks
<1>1. CASE f.first # None
  <2>1. FirstTable(f) = f.first
    BY <1>1 DEF FirstTable
  <2> QED BY <1>1, <2>1, ImageAssumption
<1>2. CASE f.first = None
  <2> DEFINE starts == {i \in 0..(FirstPages - 1) : i * Page \in DOMAIN f.blocks}
             least == CHOOSE i \in starts : \A j \in starts : i <= j
  <2>1. FirstTable(f) = IF starts = {} THEN None ELSE least - 1
    BY <1>2 DEF FirstTable
  <2>2. starts # {} /\ starts \in SUBSET Nat
    BY <2>1, Sizes
  <2>3. least \in starts /\ \A j \in starts : least <= j
    BY <2>2, LeastNatural
  <2>4. 0 * Page = 0
    BY Sizes
  <2>5. least # 0
    BY <1>2, <2>3, <2>4, ImageAssumption
  <2> DEFINE i == least
  <2>6. i \in 1..(FirstPages - 1) /\ i * Page \in DOMAIN f.blocks
    BY <2>3, <2>5, Sizes
  <2>7. \A j \in 1..(i - 1) : j * Page \notin DOMAIN f.blocks
    <3>1. ASSUME NEW j \in 1..(i - 1), j * Page \in DOMAIN f.blocks PROVE FALSE
      <4>1. j \in 0..(FirstPages - 1)
        BY <2>6, Sizes
      <4>2. j \in starts
        BY <3>1, <4>1
      <4>3. i <= j
        BY <2>3, <4>2
      <4> HIDE DEF i
      <4> QED BY <2>6, <4>3, Sizes
    <3> QED BY <3>1
  <2>8. FirstTable(f) = i - 1 /\ FirstTable(f) + 1 = i
    BY <2>1, <2>2, <2>6, Sizes
  <2> HIDE DEF i
  <2>9. i - 1 \in DOMAIN f.tables \cup {0}
    BY <1>2, <2>6, <2>7, ImageAssumption
  <2> QED BY <2>6, <2>8, <2>9, Sizes
<1> QED BY <1>1, <1>2
-----------------------------------------------------------------------------
(* The constructor keeps BuildInv.                                         *)
LEMMA RangesTyped ==
  ASSUME file \in Images, table \in DOMAIN file.tables \cup {0}
  PROVE  /\ Len(Ranges) \in Nat /\ DOMAIN Ranges = 1..Len(Ranges)
         /\ \A i \in 1..Len(Ranges) :
              /\ Ranges[i].start \in Nat /\ Ranges[i].end \in Nat
              /\ Count(Ranges[i]) = Ranges[i].end - Ranges[i].start
<1>1. Ranges \in Seq([start : Nat, end : Nat])
  <2>1. CASE table = 0
    BY <2>1 DEF Ranges
  <2>2. CASE table # 0
    BY <2>2, Image DEF Ranges
  <2> QED BY <2>1, <2>2
<1>2. Len(Ranges) \in Nat /\ DOMAIN Ranges = 1..Len(Ranges)
  BY <1>1
<1>3. ASSUME NEW i \in 1..Len(Ranges)
      PROVE  /\ Ranges[i].start \in Nat /\ Ranges[i].end \in Nat
             /\ Count(Ranges[i]) = Ranges[i].end - Ranges[i].start
  <2> DEFINE R == Ranges
             T == [start : Nat, end : Nat]
  <2>1. R \in Seq(T) /\ i \in 1..Len(R)
    BY <1>1
  <2> HIDE DEF R, T
  <2>2. R[i] \in T
    BY <2>1
  <2> QED BY <2>2 DEF Count, R, T
<1> QED BY <1>2, <1>3

LEMMA BuildStart == Init => BuildInv
<1> SUFFICES ASSUME Init PROVE BuildInv
  OBVIOUS
<1>1. Ranges = <<>> /\ Len(Ranges) = 0
  BY DEF Init, Ranges
<1>2. Listed = {} /\ DOMAIN lookup = {} /\ ToTake = {}
  BY DEF Init, Listed, ToTake
<1> QED BY <1>1, <1>2 DEF Init, BuildInv

(* What follows from BuildInv while the constructor is at work.            *)
LEMMA AtWork ==
  ASSUME BuildInv, pc # "refused"
  PROVE  /\ file \in Images /\ table \in DOMAIN file.tables \cup {0}
         /\ range \in Nat \ {0} /\ range <= Len(Ranges) + 1 /\ Len(Ranges) \in Nat
         /\ taken \in Nat /\ index \in Nat /\ size \in Nat
         /\ head \in DOMAIN file.blocks \cup {0} /\ head \in Nat
         /\ DOMAIN file.blocks \subseteq Nat
         /\ range = 1 => taken = 0
         /\ range > 1 =>
              /\ Ranges[range - 1].start \in Nat /\ Ranges[range - 1].end \in Nat
              /\ Count(Ranges[range - 1]) = Ranges[range - 1].end - Ranges[range - 1].start
              /\ taken <= Count(Ranges[range - 1])
         /\ Listed = DOMAIN lookup \cup ToTake
         /\ RangeOver => ToTake = {}
         /\ ~RangeOver =>
              /\ range > 1 /\ taken < Count(Ranges[range - 1])
              /\ ToTake = (Ranges[range - 1].start + taken)..(Ranges[range - 1].end - 1)
<1>1. file \in Images /\ table \in DOMAIN file.tables \cup {0}
  BY DEF BuildInv
<1>2. /\ range \in 1..(Len(Ranges) + 1) /\ taken \in Nat /\ index \in Nat /\ size \in Nat
      /\ head \in DOMAIN file.blocks \cup {0}
      /\ range = 1 => taken = 0
      /\ range > 1 => taken <= Count(Ranges[range - 1])
      /\ Listed = DOMAIN lookup \cup ToTake
  BY DEF BuildInv
<1>3. DOMAIN file.blocks \subseteq Nat
  BY <1>1, Image
<1>4. Len(Ranges) \in Nat /\ range \in Nat \ {0} /\ range <= Len(Ranges) + 1
  BY <1>1, <1>2, RangesTyped
<1>5. range > 1 =>
              /\ Ranges[range - 1].start \in Nat /\ Ranges[range - 1].end \in Nat
              /\ Count(Ranges[range - 1]) = Ranges[range - 1].end - Ranges[range - 1].start
  <2>1. range > 1 => range - 1 \in 1..Len(Ranges)
    BY <1>4
  <2> QED BY <1>1, <2>1, RangesTyped
<1>6. RangeOver => ToTake = {}
  BY <1>2, <1>4, <1>5 DEF RangeOver, ToTake
<1>7. ~RangeOver =>
              /\ range > 1 /\ taken < Count(Ranges[range - 1])
              /\ ToTake = (Ranges[range - 1].start + taken)..(Ranges[range - 1].end - 1)
  BY <1>2, <1>4, <1>5 DEF RangeOver, ToTake
<1> QED BY <1>1, <1>2, <1>3, <1>4, <1>5, <1>6, <1>7

LEMMA RefuseBuild ==
  ASSUME BuildInv, Refuse PROVE BuildInv'
BY DEF BuildInv, Refuse, build, Entry, BlockSize

LEMMA BeginBuild ==
  ASSUME BuildInv, Begin PROVE BuildInv'
<1>1. /\ file \in Images /\ FirstTable(file) # None
      /\ range = 1 /\ taken = 0 /\ index = 0 /\ lookup = <<>> /\ listed = {}
  BY DEF BuildInv, Begin
<1>2. /\ table' \in DOMAIN file.tables \cup {0} /\ head' \in DOMAIN file.blocks
  BY <1>1, First DEF Begin
<1>3. size' = BlockSize(file, head') /\ size' \in Nat
  BY <1>1, <1>2, BlockSizes DEF Begin
<1>4. /\ file' = file /\ range' = 1 /\ taken' = 0 /\ index' = 0 /\ lookup' = <<>> /\ listed' = {}
      /\ pc' = "table"
  BY <1>1 DEF Begin
<1>5. Len(Ranges)' \in Nat
  BY <1>1, <1>2, <1>4, Image DEF Ranges
<1>6. Listed' = {} /\ DOMAIN lookup' = {} /\ ToTake' = {}
  BY <1>4 DEF Listed, ToTake
<1>7. size' = BlockSize(file, head)'
  BY <1>3, <1>4 DEF BlockSize
<1> QED BY <1>1, <1>2, <1>3, <1>4, <1>5, <1>6, <1>7 DEF BuildInv

LEMMA BeginRangeBuild ==
  ASSUME BuildInv, BeginRange PROVE BuildInv'
<1>1. /\ pc = "table" /\ RangeOver /\ range <= Len(Ranges) /\ ~Negative(Ranges[range])
      /\ listed' = listed \cup {[start |-> Ranges[range].start, count |-> Count(Ranges[range])]}
      /\ range' = range + 1 /\ taken' = 0
      /\ UNCHANGED <<file, pc, table, index, head, size, lookup, store, job>>
  BY DEF BeginRange
<1>2. /\ file \in Images /\ table \in DOMAIN file.tables \cup {0}
      /\ range \in Nat \ {0} /\ Len(Ranges) \in Nat /\ index \in Nat /\ size \in Nat
      /\ Listed = DOMAIN lookup \cup ToTake /\ ToTake = {}
  BY <1>1, AtWork
<1>3. range \in 1..Len(Ranges)
  BY <1>1, <1>2
<1> DEFINE r == Ranges[range]
           new == [start |-> r.start, count |-> Count(r)]
<1>4. r.start \in Nat /\ r.end \in Nat /\ Count(r) = r.end - r.start
  BY <1>2, <1>3, RangesTyped
<1>5. Count(r) \in Nat \ {0}
  BY <1>1, <1>4 DEF Negative
<1>6. Ranges' = Ranges
  BY <1>1 DEF Ranges
<1>7. new.start..(new.start + new.count - 1) = r.start..(r.end - 1)
  BY <1>4
<1>8. Ranges'[range' - 1] = r /\ range' # 1 /\ range' > 1
  BY <1>1, <1>2, <1>6
<1>9. ToTake' = r.start..(r.end - 1)
  <2>1. r.start + 0 = r.start
    BY <1>4
  <2> QED BY <1>1, <1>8, <2>1 DEF ToTake
<1>10. Listed' = Listed \cup (new.start..(new.start + new.count - 1))
  <2>1. listed' = listed \cup {new}
    BY <1>1
  <2> HIDE DEF new
  <2> QED BY <2>1 DEF Listed
<1>11. Listed' = DOMAIN lookup' \cup ToTake'
  BY <1>1, <1>2, <1>7, <1>9, <1>10
<1>12. range' \in 1..(Len(Ranges') + 1) /\ 0 <= Count(Ranges'[range' - 1])
  BY <1>1, <1>2, <1>5, <1>6, <1>8
<1>13. Count(Ranges[range - 1])' = Count(r)
  BY <1>8 DEF Count
<1>14. \A p \in DOMAIN lookup' : lookup'[p] \in Entry' /\ (lookup[p].size = BlockSize(file, lookup[p].head))'
  BY <1>1 DEF BuildInv, Entry, BlockSize
<1>15. (size = BlockSize(file, head))' /\ head \in DOMAIN file.blocks
  BY <1>1 DEF BuildInv, BlockSize
<1>16. \A q \in listed' : q \in [start : Nat, count : Nat \ {0}]
  <2>1. new \in [start : Nat, count : Nat \ {0}]
    BY <1>4, <1>5
  <2>2. \A q \in listed : q \in [start : Nat, count : Nat \ {0}]
    BY DEF BuildInv
  <2>3. listed' = listed \cup {new}
    BY <1>1
  <2> HIDE DEF new
  <2> QED BY <2>1, <2>2, <2>3
<1> HIDE DEF r, new
<1>17. range' \in Nat /\ taken' \in Nat /\ taken' = 0
  BY <1>1, <1>2
<1> QED BY <1>1, <1>2, <1>5, <1>8, <1>11, <1>12, <1>13, <1>14, <1>15, <1>16, <1>17 DEF BuildInv

LEMMA TakePageBuild ==
  ASSUME BuildInv, TakePage PROVE BuildInv'
<1> DEFINE page == Ranges[range - 1].start + taken
           last == Ranges[range - 1].end - 1
<1>1. /\ pc = "table" /\ ~RangeOver /\ PageHead # None /\ head' = PageHead
      /\ taken' = taken + 1 /\ index' = index + 1
      /\ UNCHANGED <<file, pc, table, range, listed, store, job>>
  BY DEF TakePage
<1>2. /\ size' = BlockSize(file, head')
      /\ lookup' = [p \in DOMAIN lookup \cup {page} |->
                      IF p = page
                      THEN [head |-> head', size |-> size', slot |-> index % BlockPages]
                      ELSE lookup[p]]
  BY DEF TakePage
<1>3. /\ file \in Images /\ range \in Nat \ {0} /\ range <= Len(Ranges) + 1 /\ Len(Ranges) \in Nat
      /\ taken \in Nat /\ index \in Nat /\ size \in Nat /\ head \in Nat
      /\ range > 1 /\ taken < Count(Ranges[range - 1])
      /\ Ranges[range - 1].start \in Nat /\ Ranges[range - 1].end \in Nat
      /\ Count(Ranges[range - 1]) = Ranges[range - 1].end - Ranges[range - 1].start
      /\ Listed = DOMAIN lookup \cup ToTake /\ ToTake = page..last
  BY <1>1, AtWork
<1>4. head' \in DOMAIN file.blocks
  <2>1. CASE BlockOver
    BY <1>1, <1>3, <2>1, Search DEF PageHead
  <2>2. CASE ~BlockOver
    BY <1>1, <2>2 DEF PageHead, BuildInv
  <2> QED BY <2>1, <2>2
<1>5. size' \in Nat
  BY <1>2, <1>3, <1>4, BlockSizes
<1>6. Ranges' = Ranges /\ RangeOver' \in BOOLEAN
  BY <1>1 DEF Ranges, RangeOver
<1>7. page \in Int /\ last \in Int /\ page <= last
  BY <1>3
<1>8. Ranges[range - 1].start + taken' = page + 1
  BY <1>1, <1>3
<1>9. ToTake' = (page + 1)..last
  BY <1>1, <1>3, <1>6, <1>8 DEF ToTake
<1>10. Listed' = Listed
  BY <1>1 DEF Listed
<1>11. DOMAIN lookup' = DOMAIN lookup \cup {page}
  BY <1>2
<1>12. page..last = {page} \cup (page + 1)..last
  <2> HIDE DEF page, last
  <2> QED BY <1>7
<1>13. Listed' = DOMAIN lookup' \cup ToTake'
  BY <1>3, <1>9, <1>10, <1>11, <1>12
<1>14. \A p \in DOMAIN lookup' : lookup'[p] \in Entry' /\ (lookup[p].size = BlockSize(file, lookup[p].head))'
  <2>1. ASSUME NEW p \in DOMAIN lookup'
        PROVE  lookup'[p] \in Entry' /\ lookup'[p].size = BlockSize(file, lookup'[p].head)
    <3>1. CASE p = page
      <4>1. lookup'[p] = [head |-> head', size |-> size', slot |-> index % BlockPages]
        BY <1>2, <3>1
      <4>2. index % BlockPages \in 0..(BlockPages - 1)
        BY <1>3, Sizes, DivMod
      <4> QED BY <1>1, <1>2, <1>4, <1>5, <4>1, <4>2 DEF Entry
    <3>2. CASE p # page
      <4>1. p \in DOMAIN lookup /\ lookup'[p] = lookup[p]
        BY <1>2, <2>1, <3>2
      <4> QED BY <1>1, <4>1 DEF BuildInv, Entry
    <3> QED BY <3>1, <3>2
  <2> QED BY <1>1, <2>1 DEF BlockSize
<1>15. (size = BlockSize(file, head))'
  BY <1>1, <1>2 DEF BlockSize
<1>16. range' \in 1..(Len(Ranges') + 1) /\ (taken <= Count(Ranges[range - 1]))'
  <2>1. taken + 1 <= Count(Ranges[range - 1])
    BY <1>3
  <2> QED BY <1>1, <1>3, <1>6, <2>1 DEF Count
<1>17. /\ {range, taken, index, size}' \subseteq Nat
       /\ table' \in DOMAIN file'.tables \cup {0} /\ range' # 1
       /\ \A q \in listed' : q \in [start : Nat, count : Nat \ {0}]
  BY <1>1, <1>3, <1>5 DEF BuildInv
<1> HIDE DEF page, last
<1> QED BY <1>1, <1>3, <1>4, <1>13, <1>14, <1>15, <1>16, <1>17 DEF BuildInv

LEMMA NextTableBuild ==
  ASSUME BuildInv, NextTable PROVE BuildInv'
<1>1. /\ pc = "table" /\ RangeOver /\ range > Len(Ranges) /\ HasNext /\ AfterTable # None
      /\ table' = file.tables[table].next /\ head' = AfterTable /\ size' = BlockSize(file, head')
      /\ range' = 1 /\ taken' = 0 /\ index' = 0 /\ pc' = "skip"
      /\ UNCHANGED <<file, lookup, listed, store, job>>
  BY DEF NextTable, TableOver
<1>2. /\ file \in Images /\ table \in DOMAIN file.tables \cup {0} /\ size \in Nat /\ head \in Nat
      /\ Listed = DOMAIN lookup \cup ToTake /\ ToTake = {}
  BY <1>1, AtWork
<1>3. table' \in DOMAIN file.tables \cup {0}
  BY <1>1, <1>2, Image DEF HasNext
<1>4. head' \in DOMAIN file.blocks
  BY <1>1, <1>2, Search DEF AfterTable
<1>5. size' \in Nat
  BY <1>1, <1>2, <1>4, BlockSizes
<1>6. Listed' = DOMAIN lookup' \cup ToTake'
  BY <1>1, <1>2 DEF Listed, ToTake
<1>7. 1 \in 1..(Len(Ranges)' + 1)
  <2>1. Len(Ranges)' \in Nat
    BY <1>1, <1>2, <1>3, Image DEF Ranges
  <2> QED BY <2>1
<1>8. (size = BlockSize(file, head))'
  BY <1>1 DEF BlockSize
<1>9. \A p \in DOMAIN lookup' : lookup'[p] \in Entry' /\ (lookup[p].size = BlockSize(file, lookup[p].head))'
  BY <1>1 DEF BuildInv, Entry, BlockSize
<1>10. \A q \in listed' : q \in [start : Nat, count : Nat \ {0}]
  BY <1>1 DEF BuildInv
<1> QED BY <1>1, <1>2, <1>3, <1>4, <1>5, <1>6, <1>7, <1>8, <1>9, <1>10 DEF BuildInv

(* Steps that leave what is built as it is.                                *)
LEMMA SameBuild ==
  ASSUME BuildInv, UNCHANGED <<file, table, range, taken, index, lookup, listed>>
  PROVE  /\ file' \in Images /\ table' \in DOMAIN file'.tables \cup {0}
         /\ {range', taken', index'} \subseteq Nat
         /\ \A p \in DOMAIN lookup' : lookup'[p] \in Entry' /\ (lookup[p].size = BlockSize(file, lookup[p].head))'
         /\ \A q \in listed' : q \in [start : Nat, count : Nat \ {0}]
         /\ pc # "refused" =>
              /\ range' \in 1..(Len(Ranges') + 1)
              /\ range' = 1 => taken' = 0
              /\ range' > 1 => (taken <= Count(Ranges[range - 1]))'
              /\ Listed' = DOMAIN lookup' \cup ToTake'
         /\ RangeOver' = RangeOver /\ Len(Ranges)' = Len(Ranges) /\ HasNext' = HasNext
<1>1. Ranges' = Ranges
  BY DEF Ranges
<1>2. RangeOver' = RangeOver /\ HasNext' = HasNext /\ ToTake' = ToTake /\ Listed' = Listed
  BY <1>1 DEF RangeOver, HasNext, ToTake, Listed, Count
<1>3. \A p \in DOMAIN lookup' : lookup'[p] \in Entry' /\ (lookup[p].size = BlockSize(file, lookup[p].head))'
  BY DEF BuildInv, Entry, BlockSize
<1>4. pc # "refused" =>
              /\ range' \in 1..(Len(Ranges') + 1)
              /\ range' = 1 => taken' = 0
              /\ range' > 1 => (taken <= Count(Ranges[range - 1]))'
              /\ Listed' = DOMAIN lookup' \cup ToTake'
  BY <1>1, <1>2 DEF BuildInv, Count
<1> QED BY <1>1, <1>2, <1>3, <1>4 DEF BuildInv

LEMMA SkipBlockBuild ==
  ASSUME BuildInv, SkipBlock PROVE BuildInv'
<1>1. /\ pc = "skip" /\ NextXpress(head, 0) # None
      /\ head' = NextXpress(head, 0) /\ size' = BlockSize(file, head')
      /\ UNCHANGED <<file, pc, table, range, taken, index, lookup, listed, store, job>>
  BY DEF SkipBlock
<1>2. file \in Images /\ head \in Nat /\ range = 1 /\ taken = 0 /\ index = 0
  BY <1>1, AtWork DEF BuildInv
<1>3. head' \in DOMAIN file.blocks
  BY <1>1, <1>2, Search
<1>4. size' \in Nat
  BY <1>1, <1>2, <1>3, BlockSizes
<1>5. (size = BlockSize(file, head))'
  BY <1>1 DEF BlockSize
<1> QED BY <1>1, <1>2, <1>3, <1>4, <1>5, SameBuild DEF BuildInv

LEMMA QuietBuild ==
  ASSUME BuildInv, UNCHANGED <<file, build>>, pc # "refused",
         pc' = pc \/ (pc = "skip" /\ pc' = "table") \/ (pc \in {"idle", "reading"} /\ pc' \in {"idle", "reading"})
           \/ (TableOver /\ ~HasNext /\ pc' = "idle")
  PROVE  BuildInv'
<1>1. UNCHANGED <<file, table, range, taken, index, lookup, listed>> /\ UNCHANGED <<head, size>>
  BY DEF build
<1>2. (size = BlockSize(file, head))' <=> size = BlockSize(file, head)
  BY <1>1 DEF BlockSize
<1>3. pc' # "first" \/ pc = "first"
  OBVIOUS
<1>4. /\ head' \in DOMAIN file'.blocks \cup {0} /\ size' \in Nat
      /\ pc' \notin {"first", "refused"} => head' \in DOMAIN file'.blocks /\ (size = BlockSize(file, head))'
  BY <1>1, <1>2 DEF BuildInv, TableOver
<1>5. pc' \in {"idle", "reading"} => RangeOver' /\ range' > Len(Ranges)' /\ ~HasNext'
  BY <1>1, SameBuild DEF BuildInv, TableOver
<1>6. pc' = "first" => table' = 0 /\ range' = 1 /\ taken' = 0 /\ index' = 0 /\ lookup' = <<>> /\ listed' = {}
  BY <1>1, <1>3 DEF BuildInv, TableOver
<1>7. pc' = "skip" => range' = 1 /\ taken' = 0 /\ index' = 0
  BY <1>1 DEF BuildInv, TableOver
<1>8. pc' \in {"first", "table", "skip", "idle", "reading", "refused"}
  BY DEF BuildInv
<1> QED BY <1>1, <1>4, <1>5, <1>6, <1>7, <1>8, SameBuild DEF BuildInv

LEMMA BuildStep ==
  ASSUME BuildInv, [Next]_vars PROVE BuildInv'
<1>1. CASE Build
  <2>1. CASE NoSignature \/ NegativeRange \/ NoMoreBlocks \/ NoBlockForTable \/ NothingToSkip
    BY <2>1, RefuseBuild DEF NoSignature, NegativeRange, NoMoreBlocks, NoBlockForTable, NothingToSkip
  <2>2. CASE Skipped
    BY <2>2, QuietBuild DEF Skipped
  <2>3. CASE Built
    BY <2>3, QuietBuild DEF Built, TableOver
  <2> QED BY <1>1, <2>1, <2>2, <2>3, BeginBuild, BeginRangeBuild, TakePageBuild, NextTableBuild,
             SkipBlockBuild DEF Build
<1>2. CASE \E a \in Addresses, n \in Lengths, z \in BOOLEAN : StartRead(a, n, z)
  BY <1>2, QuietBuild DEF StartRead
<1>3. CASE ReadPage \/ EndRead
  BY <1>3, QuietBuild DEF ReadPage, EndRead
<1>4. CASE UNCHANGED vars
  <2>1. CASE pc = "refused"
    BY <1>4, <2>1 DEF BuildInv, vars, build, Entry, BlockSize
  <2>2. CASE pc # "refused"
    BY <1>4, <2>2, QuietBuild DEF vars
  <2> QED BY <2>1, <2>2
<1> QED BY <1>1, <1>2, <1>3, <1>4 DEF Next
-----------------------------------------------------------------------------
(* The Store keeps StoreInv.                                               *)
LEMMA Appended ==
  ASSUME NEW S, NEW s \in Seq(S), NEW e \in S
  PROVE  /\ Append(s, e) \in Seq(S)
         /\ Len(Append(s, e)) = Len(s) + 1
         /\ Append(s, e)[Len(s) + 1] = e
         /\ \A i \in 1..Len(s) : Append(s, e)[i] = s[i]
         /\ ToSet(Append(s, e)) = ToSet(s) \cup {e}
<1>1. /\ Append(s, e) \in Seq(S)
      /\ Len(Append(s, e)) = Len(s) + 1
      /\ Append(s, e)[Len(s) + 1] = e
      /\ \A i \in 1..Len(s) : Append(s, e)[i] = s[i]
  OBVIOUS
<1>2. DOMAIN s = 1..Len(s) /\ DOMAIN Append(s, e) = 1..(Len(s) + 1)
  OBVIOUS
<1>3. ToSet(Append(s, e)) = ToSet(s) \cup {e}
  <2>1. ASSUME NEW x \in ToSet(Append(s, e)) PROVE x \in ToSet(s) \cup {e}
    BY <1>1, <1>2, <2>1 DEF ToSet
  <2>2. ASSUME NEW x \in ToSet(s) PROVE x \in ToSet(Append(s, e))
    BY <1>1, <1>2, <2>2 DEF ToSet
  <2>3. e \in ToSet(Append(s, e))
    BY <1>1, <1>2 DEF ToSet
  <2> QED BY <2>1, <2>2, <2>3
<1> QED BY <1>1, <1>3

LEMMA StillInjective ==
  ASSUME NEW S, NEW s \in Seq(S), NEW e \in S, IsInjective(s), e \notin ToSet(s)
  PROVE  IsInjective(Append(s, e))
<1>1. DOMAIN s = 1..Len(s) /\ DOMAIN Append(s, e) = 1..(Len(s) + 1) /\ Len(s) \in Nat
  OBVIOUS
<1>2. \A i \in 1..Len(s) : Append(s, e)[i] = s[i] /\ s[i] # e
  BY <1>1 DEF ToSet
<1>3. Append(s, e)[Len(s) + 1] = e
  OBVIOUS
<1>4. \A i, j \in 1..Len(s) : s[i] = s[j] => i = j
  BY <1>1 DEF IsInjective
<1>5. \A i, j \in 1..(Len(s) + 1) : Append(s, e)[i] = Append(s, e)[j] => i = j
  BY <1>1, <1>2, <1>3, <1>4
<1> QED BY <1>1, <1>5 DEF IsInjective

(* The rest of a sequence whose elements differ.                           *)
LEMMA Rest ==
  ASSUME NEW S, NEW s \in Seq(S), s # <<>>, IsInjective(s)
  PROVE  /\ Tail(s) \in Seq(S) /\ Len(Tail(s)) = Len(s) - 1
         /\ \A i \in 1..(Len(s) - 1) : Tail(s)[i] = s[i + 1]
         /\ ToSet(Tail(s)) = ToSet(s) \ {s[1]} /\ s[1] \in ToSet(s) /\ s[1] \in S
         /\ IsInjective(Tail(s))
<1>1. /\ Tail(s) \in Seq(S) /\ Len(Tail(s)) = Len(s) - 1 /\ Len(s) \in Nat \ {0}
      /\ \A i \in 1..(Len(s) - 1) : Tail(s)[i] = s[i + 1]
      /\ s[1] \in S
  OBVIOUS
<1>2. DOMAIN s = 1..Len(s) /\ DOMAIN Tail(s) = 1..(Len(s) - 1)
  BY <1>1
<1>3. \A i, j \in 1..Len(s) : s[i] = s[j] => i = j
  BY <1>2 DEF IsInjective
<1> DEFINE t == Tail(s)
<1>4. /\ DOMAIN t = 1..(Len(s) - 1)
      /\ \A i \in 1..(Len(s) - 1) : t[i] = s[i + 1]
  BY <1>1, <1>2
<1> HIDE DEF t
<1>5. ToSet(t) = ToSet(s) \ {s[1]}
  <2>1. ASSUME NEW x \in ToSet(t) PROVE x \in ToSet(s) \ {s[1]}
    <3>1. PICK i \in 1..(Len(s) - 1) : x = s[i + 1]
      BY <1>4 DEF ToSet
    <3>2. i + 1 \in 1..Len(s) /\ 1 \in 1..Len(s) /\ i + 1 # 1
      BY <1>1
    <3> QED BY <1>2, <1>3, <3>1, <3>2 DEF ToSet
  <2>2. ASSUME NEW x \in ToSet(s), x # s[1] PROVE x \in ToSet(t)
    <3>1. PICK i \in 1..Len(s) : x = s[i]
      BY <1>2 DEF ToSet
    <3>2. i - 1 \in 1..(Len(s) - 1) /\ (i - 1) + 1 = i
      BY <1>1, <2>2, <3>1
    <3>3. t[i - 1] = x
      BY <1>4, <3>1, <3>2
    <3> QED BY <1>4, <3>2, <3>3 DEF ToSet
  <2> QED BY <2>1, <2>2
<1>6. IsInjective(t)
  <2>1. ASSUME NEW i \in 1..(Len(s) - 1), NEW j \in 1..(Len(s) - 1), t[i] = t[j] PROVE i = j
    <3>1. i + 1 \in 1..Len(s) /\ j + 1 \in 1..Len(s)
      BY <1>1
    <3>2. i + 1 = j + 1
      BY <1>3, <1>4, <2>1, <3>1
    <3> QED BY <3>2
  <2> QED BY <1>4, <2>1 DEF IsInjective
<1>7. s[1] \in ToSet(s)
  BY <1>1, <1>2 DEF ToSet
<1> QED BY <1>1, <1>5, <1>6, <1>7 DEF t

LEMMA SumsAppend ==
  ASSUME file \in Images, NEW s \in Seq(DOMAIN file.blocks), NEW total, Sums(total, s),
         NEW b \in DOMAIN file.blocks
  PROVE  \E more : Sums(more, Append(s, b)) /\ more[Len(Append(s, b))] = total[Len(s)] + DataLen(file, b)
<1> DEFINE n == Len(s)
           t == Append(s, b)
           more == [i \in 0..(n + 1) |-> IF i = n + 1 THEN total[n] + DataLen(file, b) ELSE total[i]]
<1>1. /\ n \in Nat /\ Len(t) = n + 1 /\ t[n + 1] = b
      /\ \A i \in 1..n : t[i] = s[i]
  BY Appended
<1>2. /\ total \in [0..n -> Int] /\ total[0] = 0
      /\ \A i \in 1..n : total[i] = total[i - 1] + DataLen(file, s[i])
  BY DEF Sums
<1>3. DataLen(file, b) \in Int
  BY DataLengths
<1> HIDE DEF n, t
<1>4. more \in [0..(n + 1) -> Int] /\ more[0] = 0 /\ more[n + 1] = total[n] + DataLen(file, b)
  BY <1>1, <1>2, <1>3
<1>5. ASSUME NEW i \in 1..(n + 1) PROVE more[i] = more[i - 1] + DataLen(file, t[i])
  <2>1. CASE i = n + 1
    BY <1>1, <1>2, <2>1
  <2>2. CASE i # n + 1
    BY <1>1, <1>2, <2>2
  <2> QED BY <2>1, <2>2
<1> HIDE DEF more
<1>6. Sums(more, t) /\ more[Len(t)] = total[n] + DataLen(file, b)
  BY <1>1, <1>4, <1>5 DEF Sums
<1> QED BY <1>6 DEF n, t

LEMMA SumsTail ==
  ASSUME file \in Images, NEW s \in Seq(DOMAIN file.blocks), s # <<>>, NEW total, Sums(total, s)
  PROVE  \E less : Sums(less, Tail(s)) /\ less[Len(Tail(s))] = total[Len(s)] - DataLen(file, s[1])
<1> DEFINE n == Len(s)
           t == Tail(s)
           less == [i \in 0..(n - 1) |-> total[i + 1] - total[1]]
<1>1. /\ n \in Nat \ {0} /\ Len(t) = n - 1
      /\ \A i \in 1..(n - 1) : t[i] = s[i + 1]
      /\ s[1] \in DOMAIN file.blocks
  OBVIOUS
<1>2. /\ total \in [0..n -> Int] /\ total[0] = 0
      /\ \A i \in 1..n : total[i] = total[i - 1] + DataLen(file, s[i])
  BY DEF Sums
<1>3. DataLen(file, s[1]) \in Int
  BY <1>1, DataLengths
<1> HIDE DEF n, t
<1>4. total[1] = DataLen(file, s[1])
  BY <1>1, <1>2, <1>3
<1>5. less \in [0..(n - 1) -> Int] /\ less[0] = 0 /\ less[n - 1] = total[n] - DataLen(file, s[1])
  <2>1. \A i \in 0..(n - 1) : total[i + 1] \in Int
    BY <1>1, <1>2
  <2> QED BY <1>1, <1>2, <1>3, <1>4, <2>1
<1>6. ASSUME NEW i \in 1..(n - 1) PROVE less[i] = less[i - 1] + DataLen(file, t[i])
  <2>1. i + 1 \in 1..n /\ (i + 1) - 1 = i /\ i - 1 \in 0..(n - 1) /\ (i - 1) + 1 = i /\ i \in 0..(n - 1)
    BY <1>1
  <2>2. total[i + 1] = total[i] + DataLen(file, s[i + 1])
    BY <1>2, <2>1
  <2>3. /\ total[i + 1] \in Int /\ total[i] \in Int /\ total[1] \in Int /\ DataLen(file, s[i + 1]) \in Int
    <3>1. i + 1 \in 0..n /\ i \in 0..n /\ 1 \in 0..n
      BY <1>1
    <3>2. s[i + 1] \in DOMAIN file.blocks
      BY <2>1 DEF n
    <3> QED BY <1>2, <3>1, <3>2, DataLengths
  <2>4. less[i] = total[i + 1] - total[1] /\ less[i - 1] = total[i] - total[1]
    BY <2>1
  <2>5. t[i] = s[i + 1]
    BY <1>1
  <2> QED BY <2>2, <2>3, <2>4, <2>5
<1> HIDE DEF less
<1>7. Sums(less, t) /\ less[Len(t)] = total[n] - DataLen(file, s[1])
  BY <1>1, <1>5, <1>6 DEF Sums
<1> QED BY <1>7 DEF n, t

LEMMA PutFine ==
  ASSUME file \in Images, StoreInv, NEW b \in DOMAIN file.blocks, ~Hit(b)
  PROVE  Fine(Put(b))
<1> DEFINE D == DOMAIN file.blocks
           seq == Append(store.seq, b)
           cache == [c \in DOMAIN store.cache \cup {b} |->
                       IF c = b THEN DataLen(file, b) ELSE store.cache[c]]
<1>1. /\ store.seq \in Seq(D) /\ ToSet(store.seq) = DOMAIN store.cache /\ IsInjective(store.seq)
      /\ Len(store.seq) < Limit /\ Len(store.seq) \in Nat
      /\ \A c \in DOMAIN store.cache : store.cache[c] = DataLen(file, c)
      /\ b \notin DOMAIN store.cache
  BY DEF StoreInv, Fine, Hit
<1>2. PICK total : Sums(total, store.seq) /\ total[Len(store.seq)] = store.size
  BY DEF StoreInv, Fine
<1>3. /\ seq \in Seq(D) /\ Len(seq) = Len(store.seq) + 1 /\ ToSet(seq) = DOMAIN cache
      /\ IsInjective(seq)
  <2> DEFINE q == store.seq
  <2>0. q \in Seq(D) /\ ToSet(q) = DOMAIN store.cache /\ IsInjective(q) /\ b \in D
    BY <1>1
  <2> HIDE DEF q, D
  <2>1. /\ Append(q, b) \in Seq(D) /\ Len(Append(q, b)) = Len(q) + 1
        /\ ToSet(Append(q, b)) = ToSet(q) \cup {b}
    BY <2>0, Appended
  <2>2. IsInjective(Append(q, b))
    BY <1>1, <2>0, StillInjective
  <2> QED BY <1>1, <2>1, <2>2 DEF q
<1>4. \A c \in DOMAIN cache : cache[c] = DataLen(file, c)
  BY <1>1
<1>5. PICK more : Sums(more, seq) /\ more[Len(seq)] = store.size + DataLen(file, b)
  BY <1>1, <1>2, SumsAppend
<1>6. Put(b) = IF Len(seq) < Limit
               THEN [cache |-> cache, seq |-> seq, size |-> store.size + DataLen(file, b)]
               ELSE [cache |-> [c \in DOMAIN cache \ {seq[1]} |-> cache[c]],
                     seq |-> Tail(seq),
                     size |-> store.size + DataLen(file, b) - cache[seq[1]]]
  BY DEF Put
<1>7. Limit \in Nat /\ seq # <<>>
  BY Sizes, <1>1
<1>8. more[Len(seq)] \in Int
  BY <1>1, <1>3, <1>5 DEF Sums
<1> HIDE DEF seq, cache
<1>9. CASE Len(seq) < Limit
  <2>1. /\ Put(b).seq = seq /\ Put(b).cache = cache /\ Put(b).size = more[Len(seq)]
    BY <1>5, <1>6, <1>9
  <2> QED BY <1>3, <1>4, <1>5, <1>9, <2>1 DEF Fine
<1>10. CASE ~(Len(seq) < Limit)
  <2> DEFINE t == Tail(seq)
             rest == [c \in DOMAIN cache \ {seq[1]} |-> cache[c]]
  <2>1. /\ t \in Seq(D) /\ Len(t) = Len(seq) - 1 /\ ToSet(t) = ToSet(seq) \ {seq[1]} /\ IsInjective(t)
        /\ seq[1] \in ToSet(seq)
    BY <1>3, <1>7, Rest
  <2>2. PICK less : Sums(less, t) /\ less[Len(t)] = more[Len(seq)] - DataLen(file, seq[1])
    BY <1>3, <1>5, <1>7, SumsTail
  <2>3. cache[seq[1]] = DataLen(file, seq[1])
    BY <1>3, <1>4, <2>1
  <2>4. DOMAIN rest = DOMAIN cache \ {seq[1]} /\ \A c \in DOMAIN rest : rest[c] = DataLen(file, c)
    BY <1>4
  <2>5. Put(b).seq = t /\ Put(b).cache = rest /\ Put(b).size = store.size + DataLen(file, b) - cache[seq[1]]
    BY <1>6, <1>10
  <2>6. Len(t) < Limit
    BY <1>1, <1>3, <1>7, <2>1
  <2> HIDE DEF t, rest
  <2>7. Put(b).size = less[Len(t)]
    <3>1. more[Len(seq)] - DataLen(file, seq[1]) = store.size + DataLen(file, b) - cache[seq[1]]
      <4>1. store.size \in Int /\ DataLen(file, b) \in Int
        BY <1>1, <1>2, DataLengths DEF Sums
      <4>2. cache[seq[1]] \in Int
        BY <1>3, <2>1, <2>3, DataLengths
      <4> QED BY <1>5, <2>3, <4>1, <4>2
    <3> QED BY <2>2, <2>5, <3>1, Zenon
  <2>8. ToSet(t) = DOMAIN rest
    BY <1>3, <2>1, <2>4
  <2> QED BY <2>1, <2>2, <2>4, <2>5, <2>6, <2>7, <2>8 DEF Fine
<1> QED BY <1>9, <1>10

LEMMA StoreStart == Init => StoreInv
<1> SUFFICES ASSUME Init PROVE StoreInv
  OBVIOUS
<1>1. store.seq = <<>> /\ store.cache = <<>> /\ store.size = 0
  BY DEF Init
<1> DEFINE none == [i \in 0..0 |-> 0]
<1>2. Sums(none, <<>>) /\ none[0] = 0
  BY DEF Sums
<1>3. ToSet(<<>>) = DOMAIN <<>> /\ IsInjective(<<>>)
  BY DEF ToSet, IsInjective
<1>4. 0 < Limit /\ DOMAIN store.cache = {}
  BY <1>1, Sizes
<1> HIDE DEF none
<1>5. Fine(store)
  BY <1>1, <1>2, <1>3, <1>4 DEF Fine
<1> QED BY <1>5 DEF StoreInv

LEMMA StoreStep ==
  ASSUME BuildInv, StoreInv, [Next]_vars PROVE StoreInv'
<1>1. CASE store' = store /\ file' = file
  BY <1>1 DEF StoreInv, Fine, Sums, DataLen, BlockSize
<1>2. CASE ReadPage \/ EndRead
  <2>1. store' = Fetch /\ file' = file /\ file \in Images
    BY <1>2 DEF ReadPage, EndRead, BuildInv
  <2>2. CASE Fetch = store
    BY <1>1, <2>1, <2>2
  <2>3. CASE Fetch # store
    <3>1. Known /\ ~Hit(Place.head) /\ Fetch = Put(Place.head)
      BY <2>3 DEF Fetch
    <3>2. Place.head \in DOMAIN file.blocks
      BY <3>1 DEF Known, Place, BuildInv, Entry
    <3>3. Fine(Fetch)
      BY <2>1, <3>1, <3>2, PutFine
    <3> QED BY <2>1, <3>3 DEF StoreInv, Fine, Sums, DataLen, BlockSize
  <2> QED BY <2>2, <2>3
<1>3. CASE Build
  <2>1. store' = store /\ file' = file
    BY <1>3 DEF Build, Begin, NoSignature, BeginRange, NegativeRange, TakePage, NoMoreBlocks, NextTable,
       NoBlockForTable, SkipBlock, NothingToSkip, Skipped, Built, Refuse
  <2> QED BY <1>1, <2>1
<1>4. CASE \E a \in Addresses, n \in Lengths, z \in BOOLEAN : StartRead(a, n, z)
  BY <1>1, <1>4 DEF StartRead
<1>5. CASE UNCHANGED vars
  BY <1>1, <1>5 DEF vars
<1> QED BY <1>2, <1>3, <1>4, <1>5 DEF Next

LEMMA SizeIsSum ==
  ASSUME StoreInv PROVE store.size = StoreSize
<1> DEFINE n == Len(store.seq)
           Rec(total) == total = [i \in 0..n |-> IF i = 0 THEN 0
                                                 ELSE total[i - 1] + store.cache[store.seq[i]]]
<1>1. StoreSize = (CHOOSE total : Rec(total))[n]
  BY DEF StoreSize
<1>2. /\ n \in Nat
      /\ \A i \in 1..n : store.cache[store.seq[i]] = DataLen(file, store.seq[i])
  <2>1. /\ n \in Nat /\ DOMAIN store.seq = 1..n
        /\ ToSet(store.seq) = DOMAIN store.cache
        /\ \A b \in DOMAIN store.cache : store.cache[b] = DataLen(file, b)
    BY DEF StoreInv, Fine
  <2>2. \A i \in 1..n : store.seq[i] \in DOMAIN store.cache
    BY <2>1 DEF ToSet
  <2> QED BY <2>1, <2>2
<1>3. PICK total : Sums(total, store.seq) /\ total[n] = store.size
  BY DEF StoreInv, Fine
<1> HIDE DEF n
<1>4. Rec(total)
  <2>1. /\ total \in [0..n -> Int] /\ total[0] = 0
        /\ \A i \in 1..n : total[i] = total[i - 1] + store.cache[store.seq[i]]
    BY <1>2, <1>3 DEF Sums, n
  <2> DEFINE new == [i \in 0..n |-> IF i = 0 THEN 0 ELSE total[i - 1] + store.cache[store.seq[i]]]
  <2>2. \A i \in 0..n : total[i] = new[i]
    BY <1>2, <2>1
  <2>3. total = [i \in 0..n |-> total[i]]
    BY <2>1
  <2>4. total = new
    BY <2>2, <2>3
  <2> QED BY <2>4
<1> DEFINE f == CHOOSE t : Rec(t)
<1>5. Rec(f)
  BY <1>4
<1>6. ASSUME NEW i \in 0..n, f[i] # total[i], \A j \in 0..n : f[j] # total[j] => i <= j
      PROVE  FALSE
  <2>1. /\ total[0] = 0
        /\ \A k \in 1..n : total[k] = total[k - 1] + store.cache[store.seq[k]]
    BY <1>2, <1>3 DEF Sums, n
  <2>2. /\ f[0] = 0
        /\ \A k \in 1..n : f[k] = f[k - 1] + store.cache[store.seq[k]]
    <3>1. f = [k \in 0..n |-> IF k = 0 THEN 0 ELSE f[k - 1] + store.cache[store.seq[k]]]
      BY <1>5
    <3> HIDE DEF f
    <3> QED BY <1>2, <3>1
  <2>3. i \in 1..n /\ i - 1 \in 0..n
    BY <1>2, <1>6, <2>1, <2>2
  <2>4. f[i - 1] = total[i - 1]
    BY <1>6, <2>3
  <2> QED BY <1>6, <2>1, <2>2, <2>3, <2>4
<1>7. f[n] = total[n]
  <2> DEFINE differ == {i \in 0..n : f[i] # total[i]}
  <2> HIDE DEF f
  <2>1. CASE differ = {}
    BY <1>2, <2>1
  <2>2. CASE differ # {}
    <3>1. differ \in SUBSET Nat
      BY <1>2
    <3>2. PICK i \in differ : \A j \in differ : i <= j
      BY <2>2, <3>1, LeastNatural
    <3> QED BY <1>6, <3>2
  <2> QED BY <2>1, <2>2
<1>8. StoreSize = f[n]
  BY <1>1 DEF n
<1> QED BY <1>3, <1>7, <1>8 DEF n

LEMMA Coherent ==
  ASSUME StoreInv PROVE StoreCoherent
BY SizeIsSum DEF StoreInv, Fine, StoreCoherent
-----------------------------------------------------------------------------
(* The reads keep JobInv.                                                  *)
(* What a step of a read gives: as much of the page as the block has.      *)
Offset == Place.slot * Page + (job.addr % Page)
Given == LET has == DataLen(file, Place.head) - Offset IN IF has < Wanted THEN has ELSE Wanted

LEMMA PartFacts ==
  ASSUME BuildInv, StoreInv, JobInv
  PROVE  /\ job.addr \in Nat /\ job.left \in Nat /\ job.addr % Page \in 0..(Page - 1)
         /\ Wanted \in Nat /\ Wanted <= job.left /\ Wanted <= Page - (job.addr % Page)
         /\ Wanted = 0 => job.left = 0
         /\ ~Known => Part = <<>>
         /\ Known =>
              /\ Place.head \in DOMAIN file.blocks /\ Place.slot \in Nat
              /\ Offset \in Nat /\ DataLen(file, Place.head) \in Int
              /\ Given \in Int /\ Given <= Wanted
              /\ Given = Wanted \/ Given = DataLen(file, Place.head) - Offset
              /\ Given <= DataLen(file, Place.head) - Offset
              /\ Part = [j \in 1..Given |-> <<Place.head, Offset + j - 1>>]
              /\ Part = <<>> <=> Given <= 0
              /\ Given > 0 => Len(Part) = Given
<1>1. job.addr \in Nat /\ job.left \in Nat /\ Page \in Nat \ {0}
  BY Sizes DEF JobInv
<1>2. job.addr % Page \in 0..(Page - 1)
  BY <1>1, DivMod
<1>3. /\ Wanted \in Nat /\ Wanted <= job.left /\ Wanted <= Page - (job.addr % Page)
      /\ Wanted = 0 => job.left = 0
  BY <1>1, <1>2 DEF Wanted
<1>4. ASSUME Known
      PROVE  /\ Place.head \in DOMAIN file.blocks /\ Place.slot \in Nat
             /\ Offset \in Nat /\ DataLen(file, Place.head) \in Int
             /\ Given \in Int /\ Given <= Wanted
             /\ Given = Wanted \/ Given = DataLen(file, Place.head) - Offset
             /\ Given <= DataLen(file, Place.head) - Offset
             /\ Part = [j \in 1..Given |-> <<Place.head, Offset + j - 1>>]
             /\ Part = <<>> <=> Given <= 0
             /\ Given > 0 => Len(Part) = Given
  <2>1. Place \in Entry /\ file \in Images
    BY <1>4 DEF Known, Place, BuildInv
  <2>2. Place.head \in DOMAIN file.blocks /\ Place.slot \in Nat
    BY <2>1, Sizes DEF Entry
  <2>3. DataLen(file, Place.head) \in Int
    BY <2>1, <2>2, DataLengths
  <2>4. Offset \in Nat
    BY <1>1, <1>2, <2>2, SMT DEF Offset
  <2>5. /\ Given \in Int /\ Given <= Wanted
        /\ Given = Wanted \/ Given = DataLen(file, Place.head) - Offset
        /\ Given <= DataLen(file, Place.head) - Offset
    BY <1>3, <2>3, <2>4 DEF Given
  <2>6. (IF Hit(Place.head) THEN store.cache[Place.head] ELSE DataLen(file, Place.head)) = DataLen(file, Place.head)
    BY DEF Hit, StoreInv, Fine
  <2>7. Part = [j \in 1..Given |-> <<Place.head, Offset + j - 1>>]
    BY <1>4, <2>6 DEF Part, Given, Offset
  <2> DEFINE g == Given
             e(j) == <<Place.head, Offset + j - 1>>
             s == [j \in 1..g |-> e(j)]
  <2>8. g \in Int
    BY <2>5
  <2>9. (s = <<>> <=> g <= 0) /\ (g >= 0 => Len(s) = g)
    <3> HIDE DEF g, e
    <3> QED BY <2>8
  <2>10. Part = s
    BY <2>7
  <2> HIDE DEF s
  <2>11. (Part = <<>> <=> g <= 0) /\ (g > 0 => Len(Part) = g)
    BY <2>8, <2>9, <2>10
  <2> QED BY <2>2, <2>3, <2>4, <2>5, <2>7, <2>11
<1>5. ~Known => Part = <<>>
  BY DEF Part
<1> QED BY <1>1, <1>2, <1>3, <1>4, <1>5

LEMMA JobStart == Init => JobInv
BY DEF Init, NoJob, JobInv

LEMMA JobStep ==
  ASSUME BuildInv, StoreInv, JobInv, [Next]_vars PROVE JobInv'
<1>1. CASE job' = job
  BY <1>1 DEF JobInv
<1>2. CASE Build
  <2>1. job' = job
    BY <1>2 DEF Build, Begin, NoSignature, BeginRange, NegativeRange, TakePage, NoMoreBlocks, NextTable,
       NoBlockForTable, SkipBlock, NothingToSkip, Skipped, Built, Refuse
  <2> QED BY <1>1, <2>1
<1>3. CASE \E a \in Addresses, n \in Lengths, z \in BOOLEAN : StartRead(a, n, z)
  <2>1. PICK a \in Addresses, n \in Lengths, z \in BOOLEAN : StartRead(a, n, z)
    BY <1>3
  <2>2. a \in Nat /\ n \in Nat
    BY Sizes
  <2> QED BY <2>1, <2>2 DEF StartRead, JobInv
<1>4. CASE ReadPage
  <2>1. /\ Part # <<>>
        /\ job' = [job EXCEPT !.addr = @ + Len(Part), !.left = @ - Len(Part), !.got = @ \o Part]
    BY <1>4 DEF ReadPage
  <2> DEFINE g == Len(Part)
  <2>2. g \in Nat /\ g <= job.left
    BY <2>1, PartFacts
  <2>3. /\ job'.at = job.at /\ job'.len = job.len /\ job'.zero = job.zero
        /\ job'.addr = job.addr + g /\ job'.left = job.left - g
        /\ DOMAIN job' = DOMAIN job
    BY <2>1 DEF JobInv
  <2> HIDE DEF g
  <2> QED BY <2>2, <2>3 DEF JobInv
<1>5. CASE EndRead
  BY <1>5 DEF EndRead, JobInv
<1>6. CASE UNCHANGED vars
  BY <1>1, <1>6 DEF vars
<1> QED BY <1>2, <1>3, <1>4, <1>5, <1>6 DEF Next
-----------------------------------------------------------------------------
BaseInv == BuildInv /\ StoreInv /\ JobInv

LEMMA BaseHolds == Spec => []BaseInv
<1>1. Init => BaseInv
  BY BuildStart, StoreStart, JobStart DEF BaseInv
<1>2. BaseInv /\ [Next]_vars => BaseInv'
  BY BuildStep, StoreStep, JobStep DEF BaseInv
<1> QED BY <1>1, <1>2, PTL DEF Spec

(* The lookup leads to blocks and slots that there are, the Store counts   *)
(* what it keeps, below its limit and once each, and a read ends where it  *)
(* is asked to.                                                            *)
THEOREM LookupTypeCorrect == Spec => []TypeOK
<1>1. BaseInv => TypeOK
  <2> SUFFICES ASSUME BaseInv PROVE TypeOK
    OBVIOUS
  <2>1. StoreCoherent
    BY Coherent DEF BaseInv
  <2>2. job.addr + job.left = job.at + job.len
    BY DEF BaseInv, JobInv
  <2>3. /\ \A p \in DOMAIN lookup :
             /\ lookup[p] \in [head : DOMAIN file.blocks, size : Nat, slot : 0..(BlockPages - 1)]
             /\ lookup[p].size = BlockSize(file, lookup[p].head)
        /\ \A r \in listed : r \in [start : Nat, count : Nat \ {0}]
    BY DEF BaseInv, BuildInv, Entry
  <2>4. /\ file \in Images
        /\ pc \in {"first", "table", "skip", "idle", "reading", "refused"}
        /\ table \in DOMAIN file.tables \cup {0}
        /\ {range, taken, index, size} \subseteq Nat
        /\ head \in DOMAIN file.blocks \cup {0}
    BY DEF BaseInv, BuildInv
  <2> QED BY <2>1, <2>2, <2>3, <2>4 DEF TypeOK
<1> QED BY <1>1, BaseHolds, PTL

(* What the address space lists as available is what it can look up, when  *)
(* it has been built.                                                      *)
LEMMA ListedIsKnown ==
  ASSUME BaseInv, pc = "idle"
  PROVE  UNION {r.start..(r.start + r.count - 1) : r \in listed} = DOMAIN lookup
<1>1. BuildInv
  BY DEF BaseInv
<1>2. RangeOver
  BY <1>1 DEF BuildInv
<1>3. Listed = DOMAIN lookup
  BY <1>1, <1>2, AtWork
<1> QED BY <1>3 DEF Listed
-----------------------------------------------------------------------------
(* The tables of a file, and the order they come in.                       *)
LEMMA Tables ==
  ASSUME NEW f \in Images, FirstTable(f) # None
  PROVE  /\ TF(f) \subseteq DOMAIN f.tables /\ TF(f) \subseteq Nat
         /\ FirstTable(f) = 0 => TF(f) = {}
         /\ FirstTable(f) # 0 => FirstTable(f) \in TF(f)
         /\ \A s \in TF(f) : Follows(f, s) => f.tables[s].next \in TF(f)
<1>1. FirstTable(f) \in DOMAIN f.tables \cup {0} /\ DOMAIN f.tables \subseteq Nat
  BY First, Image
<1>2. TF(f) \subseteq DOMAIN f.tables /\ (FirstTable(f) = 0 => TF(f) = {})
  BY DEF TF, TablesFrom
<1>3. FirstTable(f) # 0 => FirstTable(f) \in TF(f)
  BY <1>1 DEF TF, TablesFrom
<1>4. ASSUME NEW s \in TF(f), Follows(f, s) PROVE f.tables[s].next \in TF(f)
  <2>1. f.tables[s].next \in DOMAIN f.tables
    BY <1>2, <1>4, Image DEF Follows
  <2> QED BY <1>4, <2>1 DEF TF, TablesFrom
<1> QED BY <1>1, <1>2, <1>3, <1>4

LEMMA TablesLeast ==
  ASSUME NEW f \in Images, NEW S \in SUBSET DOMAIN f.tables, FirstTable(f) \in S,
         \A s \in S : Follows(f, s) => f.tables[s].next \in S
  PROVE  TF(f) \subseteq S
BY DEF TF, TablesFrom

LEMMA LaterTables ==
  ASSUME NEW f \in Images, WellLaid(f), NEW t \in TF(f), Follows(f, t)
  PROVE  /\ f.tables[t].next \in TF(f) /\ f.tables[t].next \in Nat /\ t \in Nat
         /\ t < f.tables[t].next
<1>1. FirstTable(f) # None /\ Ordered(f)
  BY DEF WellLaid
<1>2. t \in DOMAIN f.tables /\ t \in Nat /\ f.tables[t].next \in TF(f) /\ f.tables[t].next \in Nat
  BY <1>1, Tables
<1>3. f.tables[t].next > t
  BY <1>1, <1>2 DEF Ordered, Follows
<1> QED BY <1>2, <1>3

LEMMA FirstIsLeast ==
  ASSUME NEW f \in Images, WellLaid(f), NEW t \in TF(f)
  PROVE  FirstTable(f) <= t
<1> DEFINE S == {s \in TF(f) : FirstTable(f) <= s}
<1>1. /\ FirstTable(f) # None /\ FirstTable(f) \in Nat /\ TF(f) \subseteq DOMAIN f.tables
      /\ TF(f) \subseteq Nat
      /\ FirstTable(f) # 0 => FirstTable(f) \in TF(f)
  BY First, Tables DEF WellLaid
<1>2. CASE FirstTable(f) = 0
  BY <1>1, <1>2
<1>3. CASE FirstTable(f) # 0
  <2>1. S \in SUBSET DOMAIN f.tables /\ FirstTable(f) \in S
    BY <1>1, <1>3
  <2>2. ASSUME NEW s \in S, Follows(f, s) PROVE f.tables[s].next \in S
    BY <1>1, <2>2, LaterTables
  <2> HIDE DEF S
  <2>3. TF(f) \subseteq S
    BY <2>1, <2>2, TablesLeast
  <2> QED BY <2>3 DEF S
<1> QED BY <1>2, <1>3

(* No table is between one and the next, and none behind the last.         *)
LEMMA ChainNext ==
  ASSUME NEW f \in Images, WellLaid(f), NEW t \in TF(f), Chained(f, t), Follows(f, t)
  PROVE  /\ Chained(f, f.tables[t].next)
         /\ \A s \in TF(f) : s <= t \/ s >= f.tables[t].next
<1> DEFINE n == f.tables[t].next
           S == {s \in TF(f) : s <= t \/ s >= n}
<1>1. n \in TF(f) /\ n \in Nat /\ t \in Nat /\ t < n
  BY LaterTables
<1>2. /\ FirstTable(f) # None /\ FirstTable(f) \in Nat /\ FirstTable(f) # 0
      /\ TF(f) \subseteq DOMAIN f.tables /\ TF(f) \subseteq Nat
  BY First, Tables DEF WellLaid
<1>3. FirstTable(f) \in S
  BY <1>1, <1>2, FirstIsLeast, Tables
<1>4. ASSUME NEW s \in TF(f), Follows(f, s), s <= t \/ s >= n
      PROVE  f.tables[s].next \in S
  <2>1. f.tables[s].next \in TF(f) /\ f.tables[s].next \in Nat /\ s \in Nat /\ s < f.tables[s].next
    BY <1>4, LaterTables
  <2>2. CASE s < t
    BY <2>1, <2>2 DEF Chained
  <2>3. CASE s = t
    BY <1>1, <2>3
  <2>4. CASE s >= n
    BY <1>1, <2>1, <2>4
  <2> QED BY <1>1, <1>4, <2>1, <2>2, <2>3, <2>4
<1>5. S \in SUBSET DOMAIN f.tables /\ \A s \in S : Follows(f, s) => f.tables[s].next \in S
  BY <1>2, <1>4
<1>6. TF(f) \subseteq S
  <2> HIDE DEF S
  <2> QED BY <1>3, <1>5, TablesLeast
<1>7. \A s \in TF(f) : s <= t \/ s >= n
  BY <1>6
<1>8. ASSUME NEW s \in TF(f), s < n PROVE Follows(f, s) /\ f.tables[s].next <= n
  <2>1. s <= t
    BY <1>1, <1>2, <1>7, <1>8
  <2>2. CASE s = t
    BY <1>1, <2>2
  <2>3. CASE s < t
    <3>1. Follows(f, s) /\ f.tables[s].next <= t
      BY <2>3 DEF Chained
    <3>2. f.tables[s].next \in Nat
      BY <3>1, LaterTables
    <3> QED BY <1>1, <3>1, <3>2
  <2> QED BY <1>1, <1>2, <2>1, <2>2, <2>3
<1> HIDE DEF n, S
<1>9. Chained(f, n)
  BY <1>1, <1>2, <1>8 DEF Chained
<1> QED BY <1>7, <1>9 DEF n

LEMMA ChainEnd ==
  ASSUME NEW f \in Images, WellLaid(f), NEW t \in TF(f), Chained(f, t), ~Follows(f, t)
  PROVE  \A s \in TF(f) : s <= t
<1> DEFINE S == {s \in TF(f) : s <= t}
<1>1. /\ FirstTable(f) # None /\ FirstTable(f) \in Nat /\ FirstTable(f) # 0
      /\ TF(f) \subseteq DOMAIN f.tables /\ TF(f) \subseteq Nat
  BY First, Tables DEF WellLaid
<1>2. FirstTable(f) \in S
  BY <1>1, FirstIsLeast, Tables
<1>3. ASSUME NEW s \in S, Follows(f, s) PROVE f.tables[s].next \in S
  <2>1. s \in TF(f) /\ s < t
    BY <1>1, <1>3
  <2>2. Follows(f, s) /\ f.tables[s].next <= t
    BY <2>1 DEF Chained
  <2> QED BY <2>1, <2>2, LaterTables
<1>4. S \in SUBSET DOMAIN f.tables
  BY <1>1
<1>5. TF(f) \subseteq S
  <2> HIDE DEF S
  <2> QED BY <1>2, <1>3, <1>4, TablesLeast
<1> QED BY <1>5

LEMMA ChainStart ==
  ASSUME NEW f \in Images, WellLaid(f)
  PROVE  Chained(f, FirstTable(f))
<1>1. /\ FirstTable(f) # None /\ FirstTable(f) \in Nat /\ TF(f) \subseteq Nat
      /\ FirstTable(f) # 0 => FirstTable(f) \in TF(f)
  BY First, Tables DEF WellLaid
<1>2. \A s \in TF(f) : ~(s < FirstTable(f))
  BY <1>1, FirstIsLeast
<1> QED BY <1>1, <1>2 DEF Chained
-----------------------------------------------------------------------------
(* The blocks of a table.                                                  *)
LEMMA OwnFinite ==
  ASSUME NEW f \in Images, NEW t
  PROVE  /\ Own(f, t) \subseteq DOMAIN f.blocks /\ Own(f, t) \subseteq Nat
         /\ IsFiniteSet(Own(f, t)) /\ Cardinality(Own(f, t)) \in Nat
<1>1. Own(f, t) \in SUBSET DOMAIN f.blocks /\ IsFiniteSet(DOMAIN f.blocks)
      /\ DOMAIN f.blocks \subseteq Nat
  BY Image DEF Own
<1> QED BY <1>1, FS_Subset, FS_CardinalityType

(* The first block behind a table is the first of its own.                 *)
LEMMA FirstOwn ==
  ASSUME NEW f \in Images, WellLaid(f), NEW t \in TF(f), NEW h \in DOMAIN f.blocks,
         h >= t * Page, Ahead(f, t, h)
  PROVE  AtBlock(f, t, 0, h)
<1>1. t \in Nat /\ h \in Nat /\ Page \in Nat \ {0} /\ Own(f, t) \subseteq Nat /\ t * Page \in Nat
  <2>1. t \in Nat /\ h \in Nat /\ Page \in Nat \ {0} /\ Own(f, t) \subseteq Nat
    BY Tables, Image, Sizes, OwnFinite DEF WellLaid
  <2> QED BY <2>1, SMT
<1>2. ASSUME NEW b \in Own(f, t) PROVE h <= b /\ h \in Own(f, t) /\ ~(b < h)
  <2>1. b \in DOMAIN f.blocks /\ b \in Nat /\ t * Page < b
    BY <1>1 DEF Own
  <2>2. h <= b
    BY <1>1, <2>1 DEF Ahead
  <2>3. h # t * Page
    <3>1. ASSUME h = t * Page PROVE FALSE
      <4>1. (Page * t + 0) \div Page = t
        BY <1>1, DivUnique
      <4>2. Page * t + 0 = t * Page
        BY <1>1, SMT
      <4>3. h \div Page # t
        BY DEF WellLaid, TF
      <4> QED BY <3>1, <4>1, <4>2, <4>3
    <3> QED BY <3>1
  <2>4. Follows(f, t) => h < f.tables[t].next * Page
    <3> SUFFICES ASSUME Follows(f, t) PROVE h < f.tables[t].next * Page
      OBVIOUS
    <3> DEFINE e == f.tables[t].next * Page
    <3>1. e \in Nat
      <4>1. f.tables[t].next \in Nat
        BY LaterTables
      <4> QED BY <1>1, <4>1, SMT
    <3>2. b < e
      BY DEF Own
    <3> HIDE DEF e
    <3>3. h < e
      BY <1>1, <2>1, <2>2, <3>1, <3>2
    <3> QED BY <3>3 DEF e
  <2>5. t * Page < h
    BY <1>1, <2>3
  <2>6. h \in Own(f, t)
    BY <2>4, <2>5 DEF Own
  <2> QED BY <1>1, <2>1, <2>2, <2>6
<1>3. Own(f, t) # {} => h \in Own(f, t)
  BY <1>2
<1>4. {c \in Own(f, t) : c < h} = {}
  BY <1>2
<1>5. BlockRank(f, t, h) = 0
  BY <1>4, FS_EmptySet DEF BlockRank
<1> QED BY <1>3, <1>5 DEF AtBlock

(* No block begins in the page of a table.                                 *)
LEMMA BehindTable ==
  ASSUME NEW f \in Images, WellLaid(f), NEW t \in TF(f)
  PROVE  Ahead(f, t, (t + 1) * Page)
<1>1. t \in Nat /\ Page \in Nat \ {0} /\ DOMAIN f.blocks \subseteq Nat
  BY Tables, Sizes, Image DEF WellLaid
<1>2. ASSUME NEW c \in DOMAIN f.blocks, c >= t * Page PROVE c >= (t + 1) * Page
  <2> DEFINE q == c \div Page
             r == c % Page
  <2>1. c = Page * q + r /\ q \in Nat /\ r \in 0..(Page - 1)
    BY <1>1, DivMod
  <2>2. q # t
    BY DEF WellLaid, TF
  <2> HIDE DEF q, r
  <2>3. ~(q < t)
    <3>1. ASSUME q < t PROVE FALSE
      <4>1. q + 1 <= t
        BY <1>1, <2>1, <3>1
      <4>2. Page * (q + 1) <= Page * t
        BY <1>1, <2>1, <4>1, SMT
      <4>3. Page * (q + 1) = Page * q + Page /\ Page * t = t * Page /\ Page * q \in Nat /\ t * Page \in Nat
        BY <1>1, <2>1, SMT
      <4> QED BY <1>1, <1>2, <2>1, <4>2, <4>3
    <3> QED BY <3>1
  <2>4. t + 1 <= q
    BY <1>1, <2>1, <2>2, <2>3
  <2>5. Page * (t + 1) <= Page * q
    BY <1>1, <2>1, <2>4, SMT
  <2>6. Page * (t + 1) = (t + 1) * Page /\ Page * q \in Nat /\ (t + 1) * Page \in Nat
    BY <1>1, <2>1, SMT
  <2> QED BY <2>1, <2>5, <2>6
<1> QED BY <1>2 DEF Ahead

(* The first block that begins behind one.                                 *)
Behind(f, h, b) ==
  /\ b \in DOMAIN f.blocks /\ h + HeaderSize + BlockSize(f, h) <= b
  /\ \A c \in DOMAIN f.blocks : h + HeaderSize + BlockSize(f, h) <= c => b <= c

LEMMA OneBehind ==
  ASSUME NEW f \in Images, WellLaid(f), NEW h \in DOMAIN f.blocks, NEW b, Behind(f, h, b)
  PROVE  h \in Nat /\ b \in Nat /\ h < b /\ \A c \in DOMAIN f.blocks : h < c => b <= c
<1>1. h \in Nat /\ b \in Nat /\ HeaderSize \in Nat \ {0} /\ BlockSize(f, h) \in Nat
  BY Sizes, Image, BlockSizes DEF Behind
<1>2. h < b
  BY <1>1 DEF Behind
<1>3. \A c \in DOMAIN f.blocks : h < c => h + HeaderSize + BlockSize(f, h) <= c
  BY DEF WellLaid
<1> QED BY <1>1, <1>2, <1>3 DEF Behind

LEMMA NextOwn ==
  ASSUME NEW f \in Images, WellLaid(f), NEW t \in TF(f), NEW h \in Own(f, t),
         BlockRank(f, t, h) + 1 < Cardinality(Own(f, t)), NEW b, Behind(f, h, b)
  PROVE  b \in Own(f, t) /\ BlockRank(f, t, b) = BlockRank(f, t, h) + 1
<1> DEFINE O == Own(f, t)
           under == {c \in O : c < h}
<1>1. O \subseteq DOMAIN f.blocks /\ O \subseteq Nat /\ IsFiniteSet(O) /\ Cardinality(O) \in Nat
  BY OwnFinite
<1>2. h \in Nat /\ b \in Nat /\ h < b /\ b \in DOMAIN f.blocks /\ \A c \in DOMAIN f.blocks : h < c => b <= c
  BY <1>1, OneBehind DEF Behind
<1>3. IsFiniteSet(under) /\ Cardinality(under) \in Nat
  BY <1>1, FS_Subset, FS_CardinalityType
<1>4. h \notin under
  BY <1>2
<1>5. IsFiniteSet(under \cup {h}) /\ Cardinality(under \cup {h}) = Cardinality(under) + 1
  BY <1>3, <1>4, FS_AddElement
<1>6. Cardinality(under) = BlockRank(f, t, h)
  BY DEF BlockRank
<1>7. PICK c \in O : h < c
  <2>1. under \cup {h} # O
    <3>1. Cardinality(under \cup {h}) < Cardinality(O)
      BY <1>5, <1>6
    <3>2. Cardinality(O) \in Nat
      BY <1>1
    <3> DEFINE U == under \cup {h}
    <3>3. Cardinality(U) < Cardinality(O)
      BY <3>1
    <3> HIDE DEF O, U
    <3>4. U # O
      BY <3>2, <3>3
    <3> QED BY <3>4 DEF U
  <2>2. \E c \in O : c \notin under \cup {h}
    BY <2>1
  <2> QED BY <1>1, <1>2, <2>2
<1>8. b <= c
  BY <1>1, <1>2, <1>7
<1>9. b \in O
  <2>1. t * Page < h /\ t \in Nat /\ Page \in Nat
    BY Tables, Sizes DEF Own, WellLaid
  <2>2. t * Page < b
    <3>1. t * Page \in Nat
      BY <2>1, SMT
    <3> QED BY <1>2, <2>1, <3>1
  <2>3. Follows(f, t) => b < f.tables[t].next * Page
    <3> SUFFICES ASSUME Follows(f, t) PROVE b < f.tables[t].next * Page
      OBVIOUS
    <3> DEFINE e == f.tables[t].next * Page
    <3>1. e \in Nat
      <4>1. f.tables[t].next \in Nat
        BY LaterTables
      <4> QED BY <2>1, <4>1, SMT
    <3>2. c < e
      BY <1>7 DEF Own
    <3> HIDE DEF e
    <3>3. b < e
      BY <1>1, <1>2, <1>8, <3>1, <3>2
    <3> QED BY <3>3 DEF e
  <2> QED BY <1>2, <2>2, <2>3 DEF Own
<1>10. {d \in O : d < b} = under \cup {h}
  <2>1. ASSUME NEW d \in O, d < b PROVE d \in under \cup {h}
    BY <1>1, <1>2, <2>1
  <2>2. ASSUME NEW d \in under \cup {h} PROVE d \in O /\ d < b
    BY <1>1, <1>2
  <2> QED BY <2>1, <2>2
<1>11. BlockRank(f, t, b) = Cardinality(under \cup {h})
  BY <1>10 DEF BlockRank
<1> QED BY <1>5, <1>6, <1>9, <1>11
-----------------------------------------------------------------------------
(* The places of a table, counted as they are taken.                       *)
LEMMA PlaceFacts ==
  ASSUME NEW f \in Images, NEW t \in DOMAIN f.tables
  PROVE  LET ranges == f.tables[t].ranges
         IN /\ Len(ranges) \in Nat
            /\ \A p \in Places(f, t) :
                 /\ p = <<p[1], p[2]>> /\ p[1] \in 1..Len(ranges)
                 /\ p[2] \in 0..(Count(ranges[p[1]]) - 1) /\ Count(ranges[p[1]]) \in Int
            /\ \A i \in 1..Len(ranges) : \A k \in 0..(Count(ranges[i]) - 1) : <<i, k>> \in Places(f, t)
<1> DEFINE R == f.tables[t].ranges
           T == [start : Nat, end : Nat]
<1>1. R \in Seq(T)
  BY Image
<1>2. Places(f, t) = UNION {{i} \X (0..(Count(R[i]) - 1)) : i \in DOMAIN R}
  BY DEF Places
<1> HIDE DEF R
<1>3. Len(R) \in Nat /\ DOMAIN R = 1..Len(R)
  <2> HIDE DEF T
  <2> QED BY <1>1
<1>4. \A i \in 1..Len(R) : Count(R[i]) \in Int
  <2> SUFFICES ASSUME NEW i \in 1..Len(R) PROVE Count(R[i]) \in Int
    OBVIOUS
  <2>1. R[i] \in T
    <3> HIDE DEF T
    <3> QED BY <1>1
  <2> QED BY <2>1 DEF Count
<1>5. ASSUME NEW p \in Places(f, t)
      PROVE  /\ p = <<p[1], p[2]>> /\ p[1] \in 1..Len(R)
             /\ p[2] \in 0..(Count(R[p[1]]) - 1)
  <2>1. PICK i \in DOMAIN R : p \in {i} \X (0..(Count(R[i]) - 1))
    BY <1>2
  <2> QED BY <1>3, <2>1
<1>6. ASSUME NEW i \in 1..Len(R), NEW k \in 0..(Count(R[i]) - 1) PROVE <<i, k>> \in Places(f, t)
  <2>1. <<i, k>> \in {i} \X (0..(Count(R[i]) - 1))
    OBVIOUS
  <2> QED BY <1>2, <1>3, <2>1
<1> QED BY <1>3, <1>4, <1>5, <1>6 DEF R

LEMMA TakeCount ==
  ASSUME NEW f \in Images, WellLaid(f), NEW t \in TF(f), NEW rg \in Nat, NEW tk \in Nat, NEW ix,
         <<rg - 1, tk>> \in Places(f, t), Counted(f, t, rg, tk, ix)
  PROVE  Rank(f, t, <<rg - 1, tk>>) = ix /\ Counted(f, t, rg, tk + 1, ix + 1)
<1> DEFINE p == <<rg - 1, tk>>
           old == Done(f, t, rg, tk)
<1>1. t \in DOMAIN f.tables
  BY Tables DEF WellLaid
<1>2. \A q \in Places(f, t) : q = <<q[1], q[2]>> /\ q[1] \in Nat /\ q[2] \in Nat
  <2> SUFFICES ASSUME NEW q \in Places(f, t) PROVE q = <<q[1], q[2]>> /\ q[1] \in Nat /\ q[2] \in Nat
    OBVIOUS
  <2>1. /\ q = <<q[1], q[2]>> /\ q[1] \in 1..Len(f.tables[t].ranges) /\ Len(f.tables[t].ranges) \in Nat
        /\ q[2] \in 0..(Count(f.tables[t].ranges[q[1]]) - 1)
        /\ Count(f.tables[t].ranges[q[1]]) \in Int
    BY <1>1, PlaceFacts
  <2> QED BY <2>1
<1>3. IsFiniteSet(old) /\ Cardinality(old) = ix
  BY DEF Counted
<1>4. {q \in Places(f, t) : q[1] < p[1] \/ (q[1] = p[1] /\ q[2] < p[2])} = old
  BY DEF Done, Before
<1>5. Rank(f, t, p) = ix
  BY <1>3, <1>4 DEF Rank
<1>6. p \notin old
  BY DEF Done, Before
<1>7. Done(f, t, rg, tk + 1) = old \cup {p}
  <2>1. ASSUME NEW q \in Places(f, t), Before(q, rg, tk + 1), ~Before(q, rg, tk) PROVE q = p
    BY <1>2, <2>1 DEF Before
  <2>2. ASSUME NEW q \in Places(f, t), Before(q, rg, tk) PROVE Before(q, rg, tk + 1)
    BY <1>2, <2>2 DEF Before
  <2>3. Before(p, rg, tk + 1)
    BY DEF Before
  <2> QED BY <2>1, <2>2, <2>3 DEF Done
<1> HIDE DEF p, old
<1>8. IsFiniteSet(old \cup {p}) /\ Cardinality(old \cup {p}) = ix + 1
  BY <1>3, <1>6, FS_AddElement
<1> QED BY <1>5, <1>7, <1>8 DEF Counted, p

(* At the end of a range, what was taken is what is before the next.       *)
LEMMA RangeEnd ==
  ASSUME NEW f \in Images, NEW t \in DOMAIN f.tables, NEW rg \in Nat \ {0}, NEW tk,
         tk = IF rg = 1 THEN 0 ELSE Count(f.tables[t].ranges[rg - 1]),
         NEW q \in Places(f, t)
  PROVE  /\ Before(q, rg, tk) <=> Before(q, rg + 1, 0)
         /\ rg > Len(f.tables[t].ranges) => Before(q, rg, tk)
         /\ ~Before(q, 1, 0)
<1>1. /\ q[1] \in 1..Len(f.tables[t].ranges) /\ Len(f.tables[t].ranges) \in Nat
      /\ q[2] \in 0..(Count(f.tables[t].ranges[q[1]]) - 1)
      /\ Count(f.tables[t].ranges[q[1]]) \in Int
  BY PlaceFacts
<1>2. q[1] \in Nat /\ q[2] \in Nat /\ q[2] < Count(f.tables[t].ranges[q[1]])
  BY <1>1
<1> QED BY <1>1, <1>2 DEF Before
-----------------------------------------------------------------------------
(* The constructor keeps LaidInv.                                          *)
LEMMA InTable ==
  ASSUME BuildInv, LaidInv, WellLaid(file), pc \notin {"first", "refused"}, table # 0
  PROVE  table \in TF(file) /\ table \in DOMAIN file.tables /\ Ranges = file.tables[table].ranges
BY DEF BuildInv, LaidInv, Chained, Ranges

LEMMA BeginLaid ==
  ASSUME BuildInv, Begin PROVE LaidInv'
<1>1. /\ file \in Images /\ file' = file /\ pc' = "table" /\ lookup' = <<>> /\ range' = 1 /\ taken' = 0
      /\ index' = 0 /\ table' = FirstTable(file) /\ head' = (FirstTable(file) + 1) * Page
      /\ FirstTable(file) # None
  BY DEF Begin, BuildInv
<1>2. SUFFICES ASSUME WellLaid(file) PROVE LaidInv'
  BY <1>1 DEF LaidInv
<1> DEFINE t == FirstTable(file)
           h == (t + 1) * Page
<1>3. Chained(file, t)
  BY <1>1, <1>2, ChainStart
<1>4. h \in DOMAIN file.blocks /\ t \in Nat
  BY <1>1, First
<1>5. ASSUME t \in TF(file) PROVE AtBlock(file, t, 0, h)
  <2>1. Ahead(file, t, h)
    BY <1>1, <1>2, <1>5, BehindTable
  <2>2. h >= t * Page
    <3>1. h = t * Page + Page /\ t * Page \in Nat /\ Page \in Nat
      BY <1>4, Sizes, SMT
    <3> HIDE DEF h, t
    <3> QED BY <3>1
  <2> HIDE DEF h, t
  <2> QED BY <1>1, <1>2, <1>4, <1>5, <2>1, <2>2, FirstOwn
<1>6. ASSUME NEW q \in Places(file, t), t \in TF(file) PROVE ~Before(q, 1, 0)
  BY <1>1, <1>2, <1>6, Tables, PlaceFacts DEF Before
<1>7. Counted(file, t, 1, 0, 0)
  <2>1. t \in TF(file) => Done(file, t, 1, 0) = {}
    BY <1>6 DEF Done
  <2> QED BY <2>1, FS_EmptySet DEF Counted
<1>8. AllLocated(file, t, 1, 0, <<>>)
  <2>1. ASSUME NEW s \in TF(file), NEW q \in Places(file, s), Taken(s, q, t, 1, 0) PROVE FALSE
    <3>1. t <= s /\ s \in Nat
      BY <1>1, <1>2, FirstIsLeast, Tables
    <3>2. s = t /\ Before(q, 1, 0)
      BY <1>4, <2>1, <3>1 DEF Taken
    <3> QED BY <1>6, <3>2
  <2> QED BY <2>1 DEF AllLocated
<1>9. NothingElse(file, t, 1, 0, <<>>)
  BY DEF NothingElse
<1>10. t \notin TF(file) => AtBlock(file, t, 0, h)
  BY DEF AtBlock
<1> HIDE DEF t, h
<1>11. table' = t /\ head' = h
  BY <1>1 DEF t, h
<1> QED BY <1>1, <1>3, <1>5, <1>7, <1>8, <1>9, <1>10, <1>11 DEF LaidInv

LEMMA BeginRangeLaid ==
  ASSUME BuildInv, LaidInv, BeginRange PROVE LaidInv'
<1>1. /\ pc = "table" /\ RangeOver /\ range <= Len(Ranges) /\ range' = range + 1 /\ taken' = 0
      /\ UNCHANGED <<file, pc, table, index, head, size, lookup, store, job>>
  BY DEF BeginRange
<1>2. SUFFICES ASSUME WellLaid(file) PROVE LaidInv'
  BY <1>1 DEF LaidInv
<1>3. range \in Nat \ {0} /\ file \in Images
  BY <1>1, AtWork
<1>4. table # 0
  <2>1. table = 0 => Len(Ranges) = 0
    BY DEF Ranges
  <2> QED BY <1>1, <1>3, <2>1
<1>5. table \in TF(file) /\ table \in DOMAIN file.tables /\ Ranges = file.tables[table].ranges
  BY <1>1, <1>2, <1>4, InTable
<1>6. taken = IF range = 1 THEN 0 ELSE Count(file.tables[table].ranges[range - 1])
  BY <1>1, <1>5 DEF RangeOver
<1>7. \A q \in Places(file, table) : Before(q, range, taken) <=> Before(q, range + 1, 0)
  BY <1>3, <1>5, <1>6, RangeEnd
<1>8. Done(file, table, range + 1, 0) = Done(file, table, range, taken)
  BY <1>7 DEF Done
<1>9. ASSUME NEW t \in TF(file), NEW q \in Places(file, t)
      PROVE  Taken(t, q, table, range + 1, 0) <=> Taken(t, q, table, range, taken)
  BY <1>7 DEF Taken
<1>10. /\ Chained(file, table) /\ AtBlock(file, table, index, head)
       /\ Counted(file, table, range, taken, index)
       /\ AllLocated(file, table, range, taken, lookup)
       /\ NothingElse(file, table, range, taken, lookup)
  BY <1>1, <1>2 DEF LaidInv
<1>11. Counted(file, table, range + 1, 0, index)
  BY <1>8, <1>10 DEF Counted
<1>12. AllLocated(file, table, range + 1, 0, lookup)
  BY <1>9, <1>10 DEF AllLocated
<1>13. NothingElse(file, table, range + 1, 0, lookup)
  BY <1>9, <1>10 DEF NothingElse
<1> QED BY <1>1, <1>10, <1>11, <1>12, <1>13 DEF LaidInv

LEMMA SkipBlockLaid ==
  ASSUME BuildInv, LaidInv, SkipBlock PROVE LaidInv'
<1>1. /\ pc = "skip" /\ head < table * Page /\ NextXpress(head, 0) # None
      /\ head' = NextXpress(head, 0)
      /\ UNCHANGED <<file, pc, table, range, taken, index, lookup, listed, store, job>>
  BY DEF SkipBlock, BeforeTable
<1>2. SUFFICES ASSUME WellLaid(file) PROVE LaidInv'
  BY <1>1 DEF LaidInv
<1>3. file \in Images /\ head \in DOMAIN file.blocks /\ head \in Nat /\ table \in Nat /\ Page \in Nat
  BY <1>1, Image, Sizes DEF BuildInv
<1>4. table * Page \in Nat
  BY <1>3, SMT
<1> DEFINE n == NextXpress(head, 0)
           e == table * Page
<1>5. n \in DOMAIN file.blocks /\ \A c \in DOMAIN file.blocks : head + HeaderSize + 0 <= c => n <= c
  BY <1>1, <1>3, Search
<1>6. ASSUME NEW c \in DOMAIN file.blocks, c >= e PROVE c >= n
  <2>1. c \in Nat /\ n \in Nat /\ DOMAIN file.blocks \subseteq Nat
    BY <1>3, <1>5, Image
  <2>2. head < e /\ e \in Nat
    BY <1>1, <1>4
  <2> HIDE DEF e, n
  <2>3. head < c
    BY <1>3, <1>6, <2>1, <2>2
  <2>4. head + HeaderSize + BlockSize(file, head) <= c
    BY <1>2, <1>3, <2>3 DEF WellLaid
  <2>5. head + HeaderSize + 0 <= c
    BY <1>3, <2>1, <2>4, BlockSizes, Sizes
  <2> QED BY <1>5, <2>1, <2>5
<1>7. Ahead(file, table, n)
  BY <1>6 DEF Ahead
<1> HIDE DEF n
<1>8. head' = n
  BY <1>1 DEF n
<1> QED BY <1>1, <1>2, <1>7, <1>8 DEF LaidInv

LEMMA SkippedLaid ==
  ASSUME BuildInv, LaidInv, Skipped PROVE LaidInv'
<1>1. /\ pc = "skip" /\ ~(head < table * Page) /\ pc' = "table" /\ index = 0
      /\ UNCHANGED <<file, table, range, taken, index, head, lookup>>
  BY DEF Skipped, BeforeTable, build, BuildInv
<1>2. SUFFICES ASSUME WellLaid(file) PROVE LaidInv'
  BY <1>1 DEF LaidInv
<1>3. file \in Images /\ head \in DOMAIN file.blocks /\ head \in Nat /\ table \in Nat /\ Page \in Nat
  BY <1>1, Image, Sizes DEF BuildInv
<1>4. table * Page \in Nat
  BY <1>3, SMT
<1>5. Ahead(file, table, head)
  BY <1>1, <1>2 DEF LaidInv
<1>6. head >= table * Page
  BY <1>1, <1>3, <1>4
<1>7. AtBlock(file, table, 0, head)
  <2>1. CASE table \in TF(file)
    BY <1>2, <1>3, <1>5, <1>6, <2>1, FirstOwn
  <2>2. CASE table \notin TF(file)
    BY <2>2 DEF AtBlock
  <2> QED BY <2>1, <2>2
<1> QED BY <1>1, <1>2, <1>7 DEF LaidInv

(* A page goes to the block it was put in.                                 *)
LEMMA TakePageBlock ==
  ASSUME BuildInv, LaidInv, TakePage, WellLaid(file)
  PROVE  LET p == <<range - 1, taken>>
         IN /\ table \in TF(file) /\ table \in DOMAIN file.tables
            /\ p \in Places(file, table) /\ Rank(file, table, p) = index
            /\ PageAt(file, table, p) = Ranges[range - 1].start + taken
            /\ Counted(file, table, range, taken + 1, index + 1)
            /\ PageHead \in Own(file, table)
            /\ BlockRank(file, table, PageHead) = index \div BlockPages
<1> DEFINE p == <<range - 1, taken>>
<1>1. pc = "table" /\ ~RangeOver /\ PageHead # None
  BY DEF TakePage
<1>2. /\ file \in Images /\ range \in Nat \ {0} /\ range <= Len(Ranges) + 1 /\ Len(Ranges) \in Nat
      /\ taken \in Nat /\ index \in Nat /\ size \in Nat
      /\ range > 1 /\ taken < Count(Ranges[range - 1]) /\ Count(Ranges[range - 1]) \in Int
  <2>1. /\ file \in Images /\ range \in Nat \ {0} /\ range <= Len(Ranges) + 1 /\ Len(Ranges) \in Nat
        /\ taken \in Nat /\ index \in Nat /\ size \in Nat
        /\ range > 1 /\ taken < Count(Ranges[range - 1])
        /\ Count(Ranges[range - 1]) = Ranges[range - 1].end - Ranges[range - 1].start
        /\ Ranges[range - 1].start \in Nat /\ Ranges[range - 1].end \in Nat
    BY <1>1, AtWork
  <2> QED BY <2>1
<1>3. table # 0
  <2>1. table = 0 => Len(Ranges) = 0
    BY DEF Ranges
  <2> QED BY <1>2, <2>1
<1>4. table \in TF(file) /\ table \in DOMAIN file.tables /\ Ranges = file.tables[table].ranges
  BY <1>1, <1>3, InTable
<1>5. p \in Places(file, table)
  <2>1. range - 1 \in 1..Len(file.tables[table].ranges)
    BY <1>2, <1>4
  <2>2. taken \in 0..(Count(file.tables[table].ranges[range - 1]) - 1)
    BY <1>2, <1>4
  <2> QED BY <1>2, <1>4, <2>1, <2>2, PlaceFacts
<1>6. PageAt(file, table, p) = Ranges[range - 1].start + taken
  BY <1>4 DEF PageAt
<1>7. Counted(file, table, range, taken, index) /\ AtBlock(file, table, index, head)
  BY <1>1 DEF LaidInv
<1>8. Rank(file, table, p) = index /\ Counted(file, table, range, taken + 1, index + 1)
  BY <1>2, <1>4, <1>5, <1>7, TakeCount
<1>9. index \div BlockPages < Cardinality(Own(file, table))
  <2>1. Rank(file, table, p) \div BlockPages < Cardinality(Own(file, table))
    BY <1>4, <1>5 DEF WellLaid, TF
  <2> QED BY <1>8, <2>1
<1>10. index \div BlockPages \in Nat /\ BlockPages \in Nat \ {0}
  BY <1>2, Sizes, DivMod
<1>11. Own(file, table) # {}
  <2>1. Cardinality({}) = 0
    BY FS_EmptySet
  <2> QED BY <1>9, <1>10, <2>1
<1>12. /\ head \in Own(file, table)
       /\ BlockRank(file, table, head) = IF index = 0 THEN 0 ELSE (index - 1) \div BlockPages
  BY <1>4, <1>7, <1>11 DEF AtBlock
<1> DEFINE h == PageHead
<1>13. h \in Own(file, table) /\ BlockRank(file, table, h) = index \div BlockPages
  <2>1. CASE BlockOver
    <3>1. index \in Nat \ {0} /\ index % BlockPages = 0
      BY <1>2, <2>1 DEF BlockOver
    <3>2. index \div BlockPages = BlockRank(file, table, head) + 1
      BY <1>10, <1>12, <3>1, BlockOfNext
    <3>3. h = NextXpress(head, size) /\ size = BlockSize(file, head)
      BY <1>1, <2>1 DEF PageHead, BuildInv
    <3>4. head \in Nat /\ head \in DOMAIN file.blocks
      BY <1>2, <1>12, OwnFinite
    <3>5. Behind(file, head, h)
      BY <1>1, <1>2, <3>3, <3>4, Search DEF Behind
    <3> HIDE DEF h
    <3> QED BY <1>2, <1>4, <1>9, <1>12, <3>2, <3>5, NextOwn
  <2>2. CASE ~BlockOver
    <3>1. h = head
      BY <2>2 DEF PageHead
    <3>2. CASE index = 0
      <4>1. 0 \div BlockPages = 0
        BY <1>10, SMT
      <4> QED BY <1>12, <3>1, <3>2, <4>1
    <3>3. CASE index # 0
      <4>1. index \in Nat \ {0} /\ index % BlockPages # 0
        BY <1>2, <2>2, <3>3 DEF BlockOver
      <4>2. index \div BlockPages = (index - 1) \div BlockPages
        BY <1>10, <4>1, BlockOfNext
      <4> QED BY <1>12, <3>1, <3>3, <4>2
    <3> QED BY <3>2, <3>3
  <2> QED BY <2>1, <2>2
<1> QED BY <1>4, <1>5, <1>6, <1>8, <1>13

LEMMA TakePageLaid ==
  ASSUME BuildInv, LaidInv, TakePage PROVE LaidInv'
<1> DEFINE p == <<range - 1, taken>>
           page == Ranges[range - 1].start + taken
<1>1. /\ pc = "table" /\ head' = PageHead /\ taken' = taken + 1 /\ index' = index + 1
      /\ UNCHANGED <<file, pc, table, range>>
  BY DEF TakePage
<1>2. lookup' = [x \in DOMAIN lookup \cup {page} |->
                   IF x = page
                   THEN [head |-> head', size |-> size', slot |-> index % BlockPages]
                   ELSE lookup[x]]
  BY DEF TakePage
<1>3. SUFFICES ASSUME WellLaid(file) PROVE LaidInv'
  BY <1>1 DEF LaidInv
<1>4. /\ table \in TF(file) /\ table \in DOMAIN file.tables
      /\ p \in Places(file, table) /\ Rank(file, table, p) = index
      /\ PageAt(file, table, p) = page
      /\ Counted(file, table, range, taken + 1, index + 1)
      /\ PageHead \in Own(file, table)
      /\ BlockRank(file, table, PageHead) = index \div BlockPages
  BY <1>3, TakePageBlock
<1>5. file \in Images /\ range \in Nat \ {0} /\ taken \in Nat /\ index \in Nat
  BY <1>1, AtWork
<1>6. /\ Chained(file, table)
      /\ AllLocated(file, table, range, taken, lookup)
      /\ NothingElse(file, table, range, taken, lookup)
  BY <1>1, <1>3 DEF LaidInv
<1>7. AtBlock(file, table, index + 1, head')
  <2>1. index + 1 # 0 /\ (index + 1) - 1 = index
    BY <1>5
  <2> QED BY <1>1, <1>4, <2>1 DEF AtBlock
<1>8. ASSUME NEW t \in TF(file), NEW q \in Places(file, t)
      PROVE  Taken(t, q, table, range, taken + 1) <=>
               Taken(t, q, table, range, taken) \/ (t = table /\ q = p)
  <2>1. t \in DOMAIN file.tables /\ t \in Nat /\ table \in Nat
    BY <1>3, <1>4, <1>5, Tables DEF WellLaid
  <2>2. /\ q = <<q[1], q[2]>> /\ q[1] \in 1..Len(file.tables[t].ranges) /\ Len(file.tables[t].ranges) \in Nat
        /\ q[2] \in 0..(Count(file.tables[t].ranges[q[1]]) - 1)
        /\ Count(file.tables[t].ranges[q[1]]) \in Int
    BY <1>5, <2>1, PlaceFacts
  <2>3. q[1] \in Nat /\ q[2] \in Nat
    BY <2>2
  <2>4. Before(q, range, taken + 1) <=> Before(q, range, taken) \/ (q[1] = range - 1 /\ q[2] = taken)
    BY <1>5, <2>3 DEF Before
  <2>5. q = p <=> q[1] = range - 1 /\ q[2] = taken
    BY <2>2
  <2> HIDE DEF p
  <2> QED BY <2>4, <2>5 DEF Taken
<1> HIDE DEF p, page
<1>10. ASSUME NEW t \in TF(file), NEW q \in Places(file, t), Taken(t, q, table, range, taken + 1)
       PROVE  Located(file, t, q, lookup')
  <2>1. CASE t = table /\ q = p
    <3>1. lookup'[page] = [head |-> head', size |-> size', slot |-> index % BlockPages]
          /\ page \in DOMAIN lookup'
      BY <1>2
    <3>2. lookup'[page].head = PageHead /\ lookup'[page].slot = index % BlockPages
      BY <1>1, <3>1
    <3> QED BY <1>4, <2>1, <3>1, <3>2 DEF Located
  <2>2. CASE ~(t = table /\ q = p)
    <3>1. Located(file, t, q, lookup)
      BY <1>6, <1>8, <1>10, <2>2 DEF AllLocated
    <3>2. PageAt(file, t, q) # page
      <4>1. PageAt(file, t, q) = PageAt(file, table, p) => t = table /\ q = p
        BY <1>3, <1>4 DEF WellLaid, TF
      <4> QED BY <1>4, <2>2, <4>1
    <3> DEFINE x == PageAt(file, t, q)
    <3>3. x \in DOMAIN lookup /\ x # page
      BY <3>1, <3>2 DEF Located
    <3> HIDE DEF x
    <3>4. lookup'[x] = lookup[x] /\ x \in DOMAIN lookup'
      BY <1>2, <3>3
    <3> QED BY <3>1, <3>4 DEF Located, x
  <2> QED BY <2>1, <2>2
<1>11. AllLocated(file, table, range, taken + 1, lookup')
  BY <1>10 DEF AllLocated
<1>12. NothingElse(file, table, range, taken + 1, lookup')
  <2>1. ASSUME NEW x \in DOMAIN lookup'
        PROVE  \E t \in TF(file) : \E q \in Places(file, t) :
                 Taken(t, q, table, range, taken + 1) /\ x = PageAt(file, t, q)
    <3>1. CASE x = page
      BY <1>4, <1>8, <3>1
    <3>2. CASE x # page
      <4>1. x \in DOMAIN lookup
        BY <1>2, <3>2
      <4>2. PICK t \in TF(file) : \E q \in Places(file, t) :
              Taken(t, q, table, range, taken) /\ x = PageAt(file, t, q)
        BY <1>6, <4>1 DEF NothingElse
      <4>3. PICK q \in Places(file, t) : Taken(t, q, table, range, taken) /\ x = PageAt(file, t, q)
        BY <4>2
      <4> QED BY <1>8, <4>3
    <3> QED BY <3>1, <3>2
  <2> QED BY <2>1 DEF NothingElse
<1> QED BY <1>1, <1>3, <1>4, <1>6, <1>7, <1>11, <1>12 DEF LaidInv

LEMMA NextTableLaid ==
  ASSUME BuildInv, LaidInv, NextTable PROVE LaidInv'
<1> DEFINE n == file.tables[table].next
<1>1. /\ pc = "table" /\ RangeOver /\ range > Len(Ranges) /\ HasNext /\ AfterTable # None
      /\ table' = n /\ head' = AfterTable
      /\ range' = 1 /\ taken' = 0 /\ index' = 0 /\ pc' = "skip"
      /\ UNCHANGED <<file, lookup>>
  BY DEF NextTable, TableOver
<1>2. SUFFICES ASSUME WellLaid(file) PROVE LaidInv'
  BY <1>1 DEF LaidInv
<1>3. /\ file \in Images /\ range \in Nat \ {0} /\ size \in Nat /\ head \in Nat
      /\ table # 0 /\ n # 0 /\ Len(Ranges) = FullTable
  BY <1>1, AtWork DEF HasNext
<1>4. table \in TF(file) /\ table \in DOMAIN file.tables /\ Ranges = file.tables[table].ranges
  BY <1>1, <1>2, <1>3, InTable
<1>5. Follows(file, table)
  BY <1>3, <1>4 DEF Follows
<1>6. /\ Chained(file, table) /\ AtBlock(file, table, index, head)
      /\ AllLocated(file, table, range, taken, lookup)
      /\ NothingElse(file, table, range, taken, lookup)
  BY <1>1, <1>2 DEF LaidInv
<1>7. /\ Chained(file, n) /\ \A s \in TF(file) : s <= table \/ s >= n
      /\ n \in TF(file) /\ n \in Nat /\ table \in Nat /\ table < n /\ TF(file) \subseteq Nat
      /\ n \in DOMAIN file.tables
  BY <1>2, <1>3, <1>4, <1>5, <1>6, ChainNext, LaterTables, Tables DEF WellLaid
<1> DEFINE h == AfterTable
<1>8. Ahead(file, n, h)
  <2>1. Own(file, table) # {}
    <3>1. 1 \in 1..Len(file.tables[table].ranges) /\ FullTable \in Nat \ {0}
      BY <1>3, <1>4, Sizes
    <3>2. Count(file.tables[table].ranges[1]) > 0
      <4>1. DOMAIN file.tables[table].ranges = 1..Len(file.tables[table].ranges)
        BY <1>3, <1>4, RangesTyped
      <4> QED BY <1>2, <1>4, <3>1, <4>1 DEF WellLaid, TF
    <3>3. Count(file.tables[table].ranges[1]) \in Int
      <4>1. /\ Ranges[1].start \in Nat /\ Ranges[1].end \in Nat
            /\ Count(Ranges[1]) = Ranges[1].end - Ranges[1].start
        BY <1>3, <1>4, <3>1, RangesTyped
      <4> QED BY <1>4, <4>1
    <3>4. <<1, 0>> \in Places(file, table)
      <4>1. 0 \in 0..(Count(file.tables[table].ranges[1]) - 1)
        BY <3>2, <3>3
      <4> QED BY <1>3, <1>4, <3>1, <4>1, PlaceFacts
    <3>5. Rank(file, table, <<1, 0>>) \div BlockPages < Cardinality(Own(file, table))
      BY <1>2, <1>4, <3>4 DEF WellLaid, TF
    <3>6. Rank(file, table, <<1, 0>>) = 0
      <4>1. {q \in Places(file, table) : q[1] < 1 \/ (q[1] = 1 /\ q[2] < 0)} = {}
        <5>1. ASSUME NEW q \in Places(file, table), q[1] < 1 \/ (q[1] = 1 /\ q[2] < 0) PROVE FALSE
          <6>1. /\ q[1] \in 1..Len(file.tables[table].ranges) /\ Len(file.tables[table].ranges) \in Nat
                /\ q[2] \in 0..(Count(file.tables[table].ranges[q[1]]) - 1)
                /\ Count(file.tables[table].ranges[q[1]]) \in Int
            BY <1>3, <1>4, PlaceFacts
          <6> QED BY <5>1, <6>1
        <5> QED BY <5>1
      <4> QED BY <4>1, FS_EmptySet DEF Rank
    <3>7. 0 \div BlockPages = 0
      BY Sizes, SMT
    <3>8. Cardinality({}) = 0
      BY FS_EmptySet
    <3> QED BY <3>5, <3>6, <3>7, <3>8
  <2>2. head \in Own(file, table) /\ head \in DOMAIN file.blocks /\ DOMAIN file.blocks \subseteq Nat
    BY <1>3, <1>4, <1>6, <2>1, OwnFinite, Image DEF AtBlock
  <2>3. size = BlockSize(file, head)
    BY <1>1 DEF BuildInv
  <2>4. Behind(file, head, h)
    BY <1>1, <1>3, <2>2, <2>3, Search DEF Behind, AfterTable
  <2>5. \A c \in DOMAIN file.blocks : head < c => h <= c
    <3> HIDE DEF h
    <3> QED BY <1>2, <1>3, <2>2, <2>4, OneBehind
  <2>6. h \in Nat
    BY <2>2, <2>4 DEF Behind
  <2> DEFINE e == n * Page
  <2>7. head < e /\ e \in Nat
    <3>1. head < e
      BY <1>5, <2>2 DEF Own
    <3>2. e \in Nat
      BY <1>7, Sizes, SMT
    <3> QED BY <3>1, <3>2
  <2>8. ASSUME NEW c \in DOMAIN file.blocks, c >= e PROVE c >= h
    <3> HIDE DEF e, h
    <3>1. c \in Nat /\ head < c
      BY <1>3, <2>2, <2>7, <2>8
    <3> QED BY <2>5, <2>6, <3>1
  <2> HIDE DEF h
  <2> QED BY <2>8 DEF Ahead
<1>9. taken = IF range = 1 THEN 0 ELSE Count(file.tables[table].ranges[range - 1])
  BY <1>1, <1>4 DEF RangeOver
<1>10. ASSUME NEW t \in TF(file), NEW q \in Places(file, t)
       PROVE  Taken(t, q, n, 1, 0) <=> Taken(t, q, table, range, taken)
  <2>1. t = table => Before(q, range, taken)
    BY <1>1, <1>3, <1>4, <1>9, RangeEnd
  <2>2. t = n => ~Before(q, 1, 0)
    BY <1>3, <1>7, <1>9, PlaceFacts DEF Before
  <2>3. Taken(t, q, n, 1, 0) <=> t < n
    BY <2>2 DEF Taken
  <2>4. Taken(t, q, table, range, taken) <=> t <= table
    <3>1. t \in Nat
      BY <1>7
    <3> QED BY <1>7, <2>1, <3>1 DEF Taken
  <2>5. t < n <=> t <= table
    <3>1. t \in Nat /\ (t <= table \/ t >= n)
      BY <1>7
    <3> HIDE DEF n
    <3> QED BY <1>7, <3>1
  <2> QED BY <2>3, <2>4, <2>5
<1>11. Counted(file, n, 1, 0, 0)
  <2>1. ASSUME NEW q \in Places(file, n) PROVE ~Before(q, 1, 0)
    BY <1>3, <1>7, PlaceFacts DEF Before
  <2>2. Done(file, n, 1, 0) = {}
    BY <2>1 DEF Done
  <2> QED BY <2>2, FS_EmptySet DEF Counted
<1>12. AllLocated(file, n, 1, 0, lookup)
  BY <1>6, <1>10 DEF AllLocated
<1>13. NothingElse(file, n, 1, 0, lookup)
  BY <1>6, <1>10 DEF NothingElse
<1> HIDE DEF n, h
<1>14. table' = n /\ head' = h
  BY <1>1 DEF n, h
<1> QED BY <1>1, <1>2, <1>7, <1>8, <1>11, <1>12, <1>13, <1>14 DEF LaidInv

LEMMA LaidStart == Init => LaidInv
BY DEF Init, LaidInv

LEMMA LaidStep ==
  ASSUME BuildInv, LaidInv, [Next]_vars PROVE LaidInv'
<1>1. CASE UNCHANGED <<file, build>> /\ (pc' = pc \/ pc' = "refused" \/ {pc, pc'} \subseteq {"table", "idle", "reading"})
  <2>1. CASE pc' \in {"first", "refused"}
    BY <2>1 DEF LaidInv
  <2>2. CASE pc' \notin {"first", "refused"}
    <3>1. /\ (pc' = "skip") = (pc = "skip") /\ pc \notin {"first", "refused"}
      BY <1>1, <2>2
    <3> QED BY <1>1, <2>2, <3>1 DEF LaidInv, build
  <2> QED BY <2>1, <2>2
<1>2. CASE Build
  <2>1. CASE NoSignature \/ NegativeRange \/ NoMoreBlocks \/ NoBlockForTable \/ NothingToSkip \/ Built
    BY <1>1, <2>1 DEF NoSignature, NegativeRange, NoMoreBlocks, NoBlockForTable, NothingToSkip, Built,
       TableOver, Refuse
  <2> QED BY <1>2, <2>1, BeginLaid, BeginRangeLaid, TakePageLaid, NextTableLaid, SkipBlockLaid,
             SkippedLaid DEF Build
<1>3. CASE \E a \in Addresses, n \in Lengths, z \in BOOLEAN : StartRead(a, n, z)
  BY <1>1, <1>3 DEF StartRead
<1>4. CASE ReadPage \/ EndRead
  BY <1>1, <1>4 DEF ReadPage, EndRead
<1>5. CASE UNCHANGED vars
  BY <1>1, <1>5 DEF vars
<1> QED BY <1>2, <1>3, <1>4, <1>5 DEF Next

(* When the constructor is through, all pages have been taken.             *)
LEMMA AllTaken ==
  ASSUME BuildInv, LaidInv, WellLaid(file), pc \in {"idle", "reading"}
  PROVE  /\ \A t \in TF(file) : \A q \in Places(file, t) : Located(file, t, q, lookup)
         /\ \A x \in DOMAIN lookup : \E t \in TF(file) : \E q \in Places(file, t) : x = PageAt(file, t, q)
<1>1. /\ file \in Images /\ range \in Nat \ {0} /\ RangeOver /\ range > Len(Ranges) /\ ~HasNext
  BY AtWork DEF BuildInv
<1>2. /\ Chained(file, table)
      /\ AllLocated(file, table, range, taken, lookup)
      /\ NothingElse(file, table, range, taken, lookup)
  BY DEF LaidInv
<1>3. ASSUME NEW t \in TF(file), NEW q \in Places(file, t) PROVE Taken(t, q, table, range, taken)
  <2>1. FirstTable(file) # None /\ FirstTable(file) # 0 /\ FirstTable(file) \in Nat /\ TF(file) \subseteq Nat
    BY <1>1, Tables, First DEF WellLaid
  <2>2. table \in TF(file) /\ FirstTable(file) <= table /\ table \in Nat
    BY <1>1, <1>2, <2>1, FirstIsLeast DEF Chained
  <2>3. table # 0
    BY <2>1, <2>2
  <2>4. table \in DOMAIN file.tables /\ Ranges = file.tables[table].ranges
    BY <2>3, InTable
  <2>5. ~Follows(file, table)
    BY <1>1, <2>3, <2>4 DEF HasNext, Follows
  <2>6. t <= table /\ t \in Nat
    BY <1>1, <1>2, <2>1, <2>2, <2>5, ChainEnd
  <2>7. taken = IF range = 1 THEN 0 ELSE Count(file.tables[table].ranges[range - 1])
    BY <1>1, <2>4 DEF RangeOver
  <2>8. t = table => Before(q, range, taken)
    BY <1>1, <2>4, <2>7, RangeEnd
  <2> QED BY <2>2, <2>6, <2>8 DEF Taken
<1>4. \A t \in TF(file) : \A q \in Places(file, t) : Located(file, t, q, lookup)
  BY <1>2, <1>3 DEF AllLocated
<1>5. \A x \in DOMAIN lookup : \E t \in TF(file) : \E q \in Places(file, t) : x = PageAt(file, t, q)
  BY <1>2 DEF NothingElse
<1> QED BY <1>4, <1>5

LEMMA RanksDiffer ==
  ASSUME NEW f \in Images, NEW t, NEW b \in Own(f, t), NEW c \in Own(f, t),
         BlockRank(f, t, b) = BlockRank(f, t, c)
  PROVE  b = c
<1> DEFINE O == Own(f, t)
           Under(x) == {d \in O : d < x}
<1>1. O \subseteq Nat /\ IsFiniteSet(O)
  BY OwnFinite
<1>2. ASSUME NEW x \in O, NEW y \in O, x < y PROVE Cardinality(Under(x)) # Cardinality(Under(y))
  <2>1. Under(x) \in SUBSET O /\ Under(y) \in SUBSET O
    OBVIOUS
  <2>2. /\ IsFiniteSet(Under(x)) /\ Cardinality(Under(x)) \in Nat
        /\ IsFiniteSet(Under(y)) /\ Cardinality(Under(y)) \in Nat
    BY <1>1, <2>1, FS_Subset, FS_CardinalityType
  <2>3. x \notin Under(x)
    BY <1>1
  <2>4. Cardinality(Under(x) \cup {x}) = Cardinality(Under(x)) + 1
    BY <2>2, <2>3, FS_AddElement
  <2>5. Under(x) \cup {x} \in SUBSET Under(y)
    BY <1>1, <1>2
  <2> HIDE DEF Under
  <2>6. Cardinality(Under(x) \cup {x}) <= Cardinality(Under(y))
    BY <2>2, <2>5, FS_Subset
  <2> QED BY <2>2, <2>4, <2>6
<1>3. Cardinality(Under(b)) = Cardinality(Under(c))
  BY DEF BlockRank
<1>4. b \in Nat /\ c \in Nat
  BY <1>1
<1> HIDE DEF Under
<1> QED BY <1>2, <1>3, <1>4

LEMMA LookupIsLayout ==
  ASSUME BuildInv, LaidInv, WellLaid(file), pc \in {"idle", "reading"}
  PROVE  {[page |-> p, head |-> lookup[p].head, slot |-> lookup[p].slot] : p \in DOMAIN lookup}
           = Layout(file)
<1> DEFINE row(p) == [page |-> p, head |-> lookup[p].head, slot |-> lookup[p].slot]
<1>1. /\ \A t \in TF(file) : \A q \in Places(file, t) : Located(file, t, q, lookup)
      /\ \A x \in DOMAIN lookup : \E t \in TF(file) : \E q \in Places(file, t) : x = PageAt(file, t, q)
  BY AllTaken
<1>2. file \in Images
  BY DEF BuildInv
<1>3. ASSUME NEW x \in DOMAIN lookup PROVE row(x) \in Layout(file)
  <2>1. PICK t \in TF(file) : \E q \in Places(file, t) : x = PageAt(file, t, q)
    BY <1>1
  <2>2. PICK q \in Places(file, t) : x = PageAt(file, t, q)
    BY <2>1
  <2>3. /\ lookup[x].head \in Own(file, t)
        /\ BlockRank(file, t, lookup[x].head) = Rank(file, t, q) \div BlockPages
        /\ lookup[x].slot = Rank(file, t, q) % BlockPages
    BY <1>1, <2>2 DEF Located
  <2> DEFINE m == <<q, lookup[x].head>>
  <2>4. m \in Places(file, t) \X Own(file, t) /\ m[1] = q /\ m[2] = lookup[x].head
    BY <2>3
  <2>5. row(x) = [page |-> PageAt(file, t, m[1]), head |-> m[2], slot |-> Rank(file, t, m[1]) % BlockPages]
    BY <2>2, <2>3, <2>4
  <2> HIDE DEF m, row
  <2>6. row(x) \in Laid(file, t)
    BY <2>3, <2>4, <2>5 DEF Laid
  <2> QED BY <2>6 DEF Layout, TF
<1>4. ASSUME NEW e \in Layout(file) PROVE \E x \in DOMAIN lookup : e = row(x)
  <2>1. PICK t \in TF(file) : e \in Laid(file, t)
    BY DEF Layout, TF
  <2>2. PICK m \in Places(file, t) \X Own(file, t) :
          /\ BlockRank(file, t, m[2]) = Rank(file, t, m[1]) \div BlockPages
          /\ e = [page |-> PageAt(file, t, m[1]), head |-> m[2], slot |-> Rank(file, t, m[1]) % BlockPages]
    BY <2>1 DEF Laid
  <2> DEFINE x == PageAt(file, t, m[1])
  <2>3. m[1] \in Places(file, t) /\ m[2] \in Own(file, t)
    OBVIOUS
  <2>4. /\ x \in DOMAIN lookup /\ lookup[x].head \in Own(file, t)
        /\ BlockRank(file, t, lookup[x].head) = Rank(file, t, m[1]) \div BlockPages
        /\ lookup[x].slot = Rank(file, t, m[1]) % BlockPages
    BY <1>1, <2>3 DEF Located
  <2>5. lookup[x].head = m[2]
    BY <1>2, <2>2, <2>3, <2>4, RanksDiffer
  <2>6. e = row(x)
    BY <2>2, <2>4, <2>5
  <2> QED BY <2>4, <2>6
<1> HIDE DEF row
<1>5. {row(p) : p \in DOMAIN lookup} = Layout(file)
  BY <1>3, <1>4
<1> QED BY <1>5 DEF row

(* The constructor finds every page where it was put, and lists what it    *)
(* has found.                                                              *)
THEOREM EveryPageFound == Spec => []LookupRight
<1>1. Init => BuildInv /\ LaidInv
  BY BuildStart, LaidStart
<1>2. BuildInv /\ LaidInv /\ [Next]_vars => (BuildInv /\ LaidInv)'
  BY BuildStep, LaidStep
<1>3. BaseInv /\ BuildInv /\ LaidInv => LookupRight
  BY LookupIsLayout, ListedIsKnown DEF LookupRight
<1> QED BY <1>1, <1>2, <1>3, BaseHolds, PTL DEF Spec
-----------------------------------------------------------------------------
(* The reads keep ReadInv.                                                 *)
LEMMA ByteAt ==
  ASSUME BuildInv, LaidInv, WellLaid(file), pc \in {"idle", "reading"}, NEW a \in Nat
  PROVE  LET p == a \div Page
         IN /\ p \notin DOMAIN lookup => MemoryByte(file, a) = None
            /\ p \in DOMAIN lookup =>
                 LET place == lookup[p].slot * Page + (a % Page)
                 IN MemoryByte(file, a) =
                      IF place < DataLen(file, lookup[p].head) THEN <<lookup[p].head, place>> ELSE None
<1> DEFINE p == a \div Page
           row(x) == [page |-> x, head |-> lookup[x].head, slot |-> lookup[x].slot]
           at == {m \in Layout(file) : m.page = p}
           m0 == CHOOSE m \in at : TRUE
           place0 == m0.slot * Page + (a % Page)
<1>1. Layout(file) = {row(x) : x \in DOMAIN lookup}
  BY LookupIsLayout
<1>2. MemoryByte(file, a) =
        IF at = {} THEN None
        ELSE IF place0 < DataLen(file, m0.head) THEN <<m0.head, place0>> ELSE None
  BY DEF MemoryByte
<1>3. \A x : row(x).page = x /\ row(x).head = lookup[x].head /\ row(x).slot = lookup[x].slot
  OBVIOUS
<1> HIDE DEF row, p
<1>4. CASE p \notin DOMAIN lookup
  <2>1. at = {}
    BY <1>1, <1>3, <1>4
  <2> QED BY <1>2, <1>4, <2>1 DEF p
<1>5. CASE p \in DOMAIN lookup
  <2>1. at = {row(p)}
    <3>1. row(p) \in at
      BY <1>1, <1>3, <1>5
    <3>2. \A m \in at : m = row(p)
      BY <1>1, <1>3
    <3> QED BY <3>1, <3>2
  <2>2. m0 = row(p)
    <3> HIDE DEF at
    <3>1. m0 \in at
      BY <2>1
    <3> QED BY <2>1, <3>1
  <2>3. m0.head = lookup[p].head /\ m0.slot = lookup[p].slot
    BY <1>3, <2>2
  <2>4. at # {}
    BY <2>1
  <2> HIDE DEF at, m0
  <2> QED BY <1>2, <1>5, <2>3, <2>4 DEF p
<1> QED BY <1>4, <1>5

(* The bytes a step of a read gives are those of the memory, and where it  *)
(* gives none there is none, or none was left to read.                     *)
LEMMA PartIsMemory ==
  ASSUME BuildInv, StoreInv, JobInv, LaidInv, WellLaid(file), pc = "reading"
  PROVE  /\ Part = <<>> => job.left = 0 \/ MemoryByte(file, job.addr) = None
         /\ Part # <<>> =>
              /\ Len(Part) \in Nat \ {0} /\ Len(Part) <= job.left
              /\ Part = [j \in 1..Len(Part) |-> MemoryByte(file, job.addr + j - 1)]
              /\ \A j \in 1..Len(Part) : MemoryByte(file, job.addr + j - 1) # None
<1> DEFINE p == job.addr \div Page
           r == job.addr % Page
<1>1. /\ job.addr \in Nat /\ job.left \in Nat /\ r \in 0..(Page - 1)
      /\ Wanted \in Nat /\ Wanted <= job.left /\ Wanted <= Page - r
      /\ Wanted = 0 => job.left = 0
  BY PartFacts
<1>2. Page \in Nat \ {0} /\ p \in Nat /\ job.addr = Page * p + r
  BY <1>1, Sizes, DivMod
<1>3. CASE ~Known
  <2>1. MemoryByte(file, job.addr) = None
    BY <1>1, <1>3, ByteAt DEF Known
  <2> QED BY <1>3, <2>1, PartFacts
<1>4. CASE Known
  <2>1. /\ Place.head \in DOMAIN file.blocks /\ Place.slot \in Nat
        /\ Offset \in Nat /\ DataLen(file, Place.head) \in Int
        /\ Given \in Int /\ Given <= Wanted
        /\ Given = Wanted \/ Given = DataLen(file, Place.head) - Offset
        /\ Given <= DataLen(file, Place.head) - Offset
        /\ Part = [j \in 1..Given |-> <<Place.head, Offset + j - 1>>]
        /\ Part = <<>> <=> Given <= 0
        /\ Given > 0 => Len(Part) = Given
    BY <1>4, PartFacts
  <2>2. Offset = Place.slot * Page + r /\ Place = lookup[p] /\ p \in DOMAIN lookup
    BY <1>4 DEF Offset, Place, Known
  <2>3. Place.slot * Page \in Nat
    BY <1>2, <2>1, SMT
  <2>4. ASSUME Part = <<>> PROVE job.left = 0 \/ MemoryByte(file, job.addr) = None
    <3>1. CASE Given = Wanted
      BY <1>1, <2>1, <2>4, <3>1
    <3>2. CASE Given = DataLen(file, Place.head) - Offset
      <4>1. ~(Offset < DataLen(file, Place.head))
        BY <2>1, <2>4, <3>2
      <4> QED BY <1>1, <2>2, <4>1, ByteAt
    <3> QED BY <2>1, <3>1, <3>2
  <2>5. ASSUME NEW j \in 1..Given
        PROVE  /\ MemoryByte(file, job.addr + j - 1) = <<Place.head, Offset + j - 1>>
               /\ MemoryByte(file, job.addr + j - 1) # None
    <3> DEFINE b == job.addr + j - 1
    <3>1. r + j - 1 \in 0..(Page - 1) /\ j \in Nat
      <4> HIDE DEF r
      <4>1. j \in Nat /\ j >= 1 /\ j <= Page - r
        BY <1>1, <1>2, <2>1
      <4> QED BY <1>1, <1>2, <4>1
    <3>2. b = Page * p + (r + j - 1) /\ b \in Nat
      <4>1. Page * p \in Nat
        BY <1>2, SMT
      <4> HIDE DEF r, p
      <4> QED BY <1>1, <1>2, <3>1, <4>1
    <3>3. b \div Page = p /\ b % Page = r + j - 1
      <4> DEFINE k == r + j - 1
      <4> HIDE DEF b, p, k
      <4>1. b = Page * p + k /\ k \in 0..(Page - 1)
        BY <3>1, <3>2 DEF k
      <4>2. b \div Page = p /\ b % Page = k
        BY <1>2, <4>1, DivUnique
      <4> QED BY <4>2 DEF k
    <3>4. Place.slot * Page + (b % Page) = Offset + j - 1
      BY <1>1, <2>2, <2>3, <3>1, <3>3
    <3>5. Offset + j - 1 < DataLen(file, Place.head) /\ Offset + j - 1 \in Nat
      BY <2>1, <3>1
    <3> HIDE DEF b
    <3>6. MemoryByte(file, b) = <<Place.head, Offset + j - 1>>
      BY <2>2, <3>2, <3>3, <3>4, <3>5, ByteAt
    <3>7. Place.head \in Nat
      BY <2>1, Image DEF BuildInv
    <3>8. <<Place.head, Offset + j - 1>> \in Nat \X Nat
      BY <3>5, <3>7
    <3>9. None \notin Nat \X Nat
      BY SizeAssumption
    <3> QED BY <3>6, <3>8, <3>9 DEF b
  <2>6. ASSUME Part # <<>>
        PROVE  /\ Len(Part) \in Nat \ {0} /\ Len(Part) <= job.left
               /\ Part = [j \in 1..Len(Part) |-> MemoryByte(file, job.addr + j - 1)]
               /\ \A j \in 1..Len(Part) : MemoryByte(file, job.addr + j - 1) # None
    <3>1. Given > 0 /\ Len(Part) = Given
      BY <2>1, <2>6
    <3> DEFINE g == Given
               old == [j \in 1..g |-> <<Place.head, Offset + j - 1>>]
               new == [j \in 1..g |-> MemoryByte(file, job.addr + j - 1)]
    <3>2. Part = old
      BY <2>1
    <3> HIDE DEF g
    <3>3. old = new
      BY <2>5 DEF g
    <3> QED BY <1>1, <2>1, <2>5, <3>1, <3>2, <3>3 DEF g
  <2> QED BY <2>4, <2>6
<1> QED BY <1>3, <1>4

LEMMA ReadStart == Init => ReadInv
BY DEF Init, ReadInv, ReadRight

(* What is read before the first byte that is missing is all there is.     *)
UpTo(f, a, k) == [j \in 1..k |-> MemoryByte(f, a + j - 1)]
ThereAre(f, a, n, k) ==
  /\ a \in Nat /\ n \in Nat /\ k \in 0..n
  /\ \A j \in 1..k : MemoryByte(f, a + j - 1) # None
  /\ k < n => MemoryByte(f, a + k) = None

LEMMA LongestIs ==
  ASSUME NEW f, NEW a, NEW n, NEW k, ThereAre(f, a, n, k)
  PROVE  Longest(f, a, n) = UpTo(f, a, k)
<1>0. /\ a \in Nat /\ n \in Nat /\ k \in 0..n
      /\ \A j \in 1..k : MemoryByte(f, a + j - 1) # None
      /\ k < n => MemoryByte(f, a + k) = None
  BY DEF ThereAre
<1> DEFINE lost == {j \in 0..(n - 1) : MemoryByte(f, a + j) = None}
           m == IF lost = {} THEN n ELSE CHOOSE j \in lost : \A i \in lost : j <= i
<1>1. \A i \in lost : i >= k /\ i \in Nat
  <2> SUFFICES ASSUME NEW i \in lost, i < k PROVE FALSE
    BY <1>0
  <2>1. i + 1 \in 1..k /\ a + (i + 1) - 1 = a + i
    BY <1>0
  <2>2. MemoryByte(f, a + i) # None
    BY <1>0, <2>1
  <2> QED BY <2>2
<1>2. m = k
  <2>1. CASE k = n
    <3>1. lost = {}
      BY <1>0, <1>1, <2>1
    <3> QED BY <2>1, <3>1
  <2>2. CASE k < n
    <3>1. k \in lost
      BY <1>0, <2>2
    <3> HIDE DEF lost
    <3>2. /\ (CHOOSE j \in lost : \A i \in lost : j <= i) \in lost
          /\ (CHOOSE j \in lost : \A i \in lost : j <= i) <= k
      <4>1. \E j \in lost : \A i \in lost : j <= i
        BY <1>1, <3>1
      <4> QED BY <3>1, <4>1
    <3>3. lost # {}
      BY <3>1
    <3>4. m \in lost /\ m <= k
      BY <3>2, <3>3
    <3> HIDE DEF m
    <3> QED BY <1>0, <1>1, <3>4
  <2> QED BY <1>0, <2>1, <2>2
<1>3. Longest(f, a, n) = [j \in 1..m |-> MemoryByte(f, a + j - 1)]
  BY DEF Longest
<1> HIDE DEF m
<1> QED BY <1>2, <1>3 DEF UpTo

LEMMA ReadPageRead ==
  ASSUME BuildInv, StoreInv, JobInv, LaidInv, ReadInv, ReadPage, WellLaid(file)
  PROVE  /\ job'.addr >= job'.at
         /\ job'.got = [j \in 1..(job'.addr - job'.at) |-> MemoryByte(file, job'.at + j - 1)]
         /\ \A j \in 1..(job'.addr - job'.at) : MemoryByte(file, job'.at + j - 1) # None
<1> DEFINE k == job.addr - job.at
           g == Len(Part)
           M(i) == MemoryByte(file, job.at + i - 1)
<1>1. /\ pc = "reading" /\ Part # <<>>
      /\ job' = [job EXCEPT !.addr = @ + Len(Part), !.left = @ - Len(Part), !.got = @ \o Part]
  BY DEF ReadPage
<1>2. /\ g \in Nat \ {0}
      /\ Part = [j \in 1..g |-> MemoryByte(file, job.addr + j - 1)]
      /\ \A j \in 1..g : MemoryByte(file, job.addr + j - 1) # None
  BY <1>1, PartIsMemory
<1>3. /\ job.addr >= job.at /\ job.addr \in Nat /\ job.at \in Nat
      /\ job.got = [j \in 1..k |-> M(j)]
      /\ \A j \in 1..k : M(j) # None
  BY <1>1 DEF ReadInv, JobInv
<1>4. /\ job'.at = job.at /\ job'.addr = job.addr + g /\ job'.got = job.got \o Part
  BY <1>1 DEF JobInv
<1> HIDE DEF g
<1>5. k \in Nat /\ job.addr = job.at + k /\ job'.addr - job'.at = k + g /\ job'.addr >= job'.at
  BY <1>2, <1>3, <1>4
<1> HIDE DEF k
<1>6. ASSUME NEW j \in 1..g
      PROVE  Part[j] = M(k + j) /\ M(k + j) # None
  <2>1. job.addr + j - 1 = job.at + (k + j) - 1
    BY <1>3, <1>5
  <2> QED BY <1>2, <2>1
<1> HIDE DEF M
<1>7. job.got \o Part = [j \in 1..(k + g) |-> M(j)]
  <2> DEFINE S == {M(j) : j \in 1..k} \cup {Part[j] : j \in 1..g}
             s == [j \in 1..k |-> M(j)]
             t == [j \in 1..g |-> Part[j]]
             u == [j \in 1..(k + g) |-> M(j)]
  <2>1. job.got = s /\ Part = t
    BY <1>2, <1>3
  <2>2. s \in Seq(S) /\ Len(s) = k /\ t \in Seq(S) /\ Len(t) = g
    <3>1. \A j \in 1..k : M(j) \in S
      OBVIOUS
    <3>2. \A j \in 1..g : Part[j] \in S
      OBVIOUS
    <3> HIDE DEF S
    <3> QED BY <1>2, <1>5, <3>1, <3>2
  <2>3. (\A j \in 1..k : s[j] = M(j)) /\ (\A j \in 1..g : t[j] = M(k + j))
    BY <1>6
  <2> HIDE DEF s, t, S
  <2>4. /\ s \o t \in Seq(S) /\ Len(s \o t) = k + g
        /\ \A j \in 1..(k + g) : (s \o t)[j] = IF j <= k THEN s[j] ELSE t[j - k]
    BY <1>2, <1>5, <2>2, ConcatProperties
  <2>5. ASSUME NEW j \in 1..(k + g) PROVE (s \o t)[j] = M(j)
    <3>1. CASE j <= k
      BY <1>5, <2>3, <2>4, <3>1
    <3>2. CASE ~(j <= k)
      <4>1. j - k \in 1..g /\ k + (j - k) = j
        BY <1>2, <1>5, <3>2
      <4> QED BY <2>3, <2>4, <3>2, <4>1
    <3> QED BY <3>1, <3>2
  <2>6. s \o t = [j \in 1..(k + g) |-> (s \o t)[j]]
    <3> DEFINE w == s \o t
    <3>1. w \in Seq(S) /\ Len(w) = k + g
      BY <2>4
    <3> HIDE DEF w
    <3>2. w = [j \in 1..(k + g) |-> w[j]]
      BY <3>1
    <3> QED BY <3>2 DEF w
  <2>7. [j \in 1..(k + g) |-> (s \o t)[j]] = u
    BY <2>5
  <2> QED BY <2>1, <2>6, <2>7
<1>8. ASSUME NEW j \in 1..(k + g) PROVE M(j) # None
  <2>1. CASE j \in 1..k
    BY <1>3, <2>1
  <2>2. CASE j \notin 1..k
    <3>1. j - k \in 1..g /\ k + (j - k) = j
      BY <1>2, <1>5, <2>2
    <3> QED BY <1>6, <3>1
  <2> QED BY <2>1, <2>2
<1> QED BY <1>4, <1>5, <1>7, <1>8 DEF M

LEMMA EndReadRight ==
  ASSUME BuildInv, StoreInv, JobInv, LaidInv, ReadInv, EndRead, WellLaid(file)
  PROVE  job'.got = IF Longest(file, job'.at, job'.len) = <<>> /\ job'.zero
                    THEN [j \in 1..job'.len |-> Zero]
                    ELSE Longest(file, job'.at, job'.len)
<1> DEFINE k == job.addr - job.at
           L == Longest(file, job.at, job.len)
           M(i) == MemoryByte(file, job.at + i - 1)
<1>1. /\ pc = "reading" /\ Part = <<>>
      /\ job' = IF job.got = <<>> /\ job.zero
                THEN [job EXCEPT !.got = [j \in 1..job.left |-> Zero]]
                ELSE job
  BY DEF EndRead
<1>2. job.left = 0 \/ MemoryByte(file, job.addr) = None
  BY <1>1, PartIsMemory
<1>3. /\ job.addr >= job.at
      /\ job.got = [j \in 1..k |-> M(j)]
      /\ \A j \in 1..k : M(j) # None
  BY <1>1 DEF ReadInv
<1>4. /\ job.addr \in Nat /\ job.at \in Nat /\ job.len \in Nat /\ job.left \in Nat
      /\ job.addr + job.left = job.at + job.len
  BY DEF JobInv
<1>5. /\ k \in 0..job.len /\ job.at + k = job.addr
      /\ k < job.len => job.left # 0
      /\ k = 0 => job.left = job.len
  <2> DEFINE a == job.at
             b == job.addr
             l == job.left
             n == job.len
  <2>1. a \in Nat /\ b \in Nat /\ l \in Nat /\ n \in Nat /\ b >= a /\ b + l = a + n /\ k = b - a
    BY <1>3, <1>4
  <2> HIDE DEF a, b, l, n, k
  <2>2. /\ k \in 0..n /\ a + k = b
        /\ k < n => l # 0
        /\ k = 0 => l = n
    BY <2>1
  <2> QED BY <2>2 DEF a, b, l, n
<1>6. k < job.len => MemoryByte(file, job.at + k) = None
  BY <1>2, <1>5
<1> HIDE DEF k
<1>7. L = [j \in 1..k |-> M(j)]
  <2> DEFINE a == job.at
             n == job.len
  <2>1. a \in Nat /\ n \in Nat /\ k \in 0..n
    BY <1>4, <1>5
  <2>2. \A j \in 1..k : MemoryByte(file, a + j - 1) # None
    BY <1>3
  <2>3. k < n => MemoryByte(file, a + k) = None
    BY <1>6
  <2>4. L = Longest(file, a, n)
    OBVIOUS
  <2>5. [j \in 1..k |-> M(j)] = UpTo(file, a, k)
    BY DEF UpTo
  <2> HIDE DEF a, n, L, M
  <2>6. Longest(file, a, n) = UpTo(file, a, k)
    BY <2>1, <2>2, <2>3, LongestIs DEF ThereAre
  <2> QED BY <2>4, <2>5, <2>6
<1>8. job.got = L
  BY <1>3, <1>7
<1>9. L = <<>> => k = 0
  <2>1. ASSUME k # 0 PROVE L # <<>>
    <3>1. 1 \in 1..k
      BY <1>5, <1>4, <2>1
    <3>2. DOMAIN L = 1..k
      BY <1>7
    <3>3. DOMAIN <<>> = {}
      OBVIOUS
    <3> HIDE DEF L
    <3> QED BY <3>1, <3>2, <3>3
  <2> QED BY <2>1
<1> HIDE DEF L
<1>10. job'.at = job.at /\ job'.len = job.len /\ job'.zero = job.zero
  BY <1>1 DEF JobInv
<1>11. job'.got = IF L = <<>> /\ job.zero THEN [j \in 1..job.len |-> Zero] ELSE L
  <2>1. CASE L = <<>> /\ job.zero
    <3>1. job' = [job EXCEPT !.got = [j \in 1..job.left |-> Zero]]
      BY <1>1, <1>8, <2>1
    <3>2. job.left = job.len
      BY <1>5, <1>9, <2>1
    <3>3. job'.got = [j \in 1..job.left |-> Zero]
      BY <3>1 DEF JobInv
    <3> QED BY <2>1, <3>2, <3>3
  <2>2. CASE ~(L = <<>> /\ job.zero)
    BY <1>1, <1>8, <2>2
  <2> QED BY <2>1, <2>2
<1> QED BY <1>10, <1>11 DEF L

LEMMA ReadStep ==
  ASSUME BuildInv, StoreInv, JobInv, LaidInv, ReadInv, [Next]_vars PROVE ReadInv'
<1>1. CASE job' = job /\ file' = file /\ pc' = pc
  BY <1>1 DEF ReadInv, ReadRight
<1>2. CASE Build
  <2>1. job' = job /\ file' = file /\ pc' # "reading" /\ pc \in {"first", "table", "skip"}
    BY <1>2 DEF Build, Begin, NoSignature, BeginRange, NegativeRange, TakePage, NoMoreBlocks, NextTable,
       NoBlockForTable, SkipBlock, NothingToSkip, Skipped, Built, Refuse, TableOver
  <2>2. job = NoJob
    BY <2>1 DEF ReadInv
  <2>3. /\ job.at = 0 /\ job.len = 0 /\ job.zero = FALSE /\ job.got = <<>>
    BY <2>2 DEF NoJob
  <2>4. Longest(file, 0, 0) = <<>>
    <3>1. {j \in 0..(0 - 1) : MemoryByte(file, 0 + j) = None} = {}
      OBVIOUS
    <3>2. Longest(file, 0, 0) = [j \in 1..0 |-> MemoryByte(file, 0 + j - 1)]
      BY <3>1 DEF Longest
    <3> QED BY <3>2
  <2>5. ReadRight'
    BY <2>1, <2>3, <2>4 DEF ReadRight
  <2> QED BY <2>1, <2>2, <2>5 DEF ReadInv, NoJob
<1>3. CASE \E a \in Addresses, n \in Lengths, z \in BOOLEAN : StartRead(a, n, z)
  <2>1. PICK a \in Addresses, n \in Lengths, z \in BOOLEAN : StartRead(a, n, z)
    BY <1>3
  <2>2. /\ pc' = "reading" /\ job'.addr = a /\ job'.at = a /\ job'.got = <<>> /\ a \in Nat
    BY <2>1, Sizes DEF StartRead
  <2>3. a - a = 0
    BY <2>2
  <2>4. job'.got = [j \in 1..(job'.addr - job'.at) |-> MemoryByte(file', job'.at + j - 1)]
    <3>1. [j \in 1..0 |-> MemoryByte(file', a + j - 1)] = <<>>
      OBVIOUS
    <3> QED BY <2>2, <2>3, <3>1
  <2> QED BY <2>2, <2>3, <2>4 DEF ReadInv, ReadRight
<1>4. CASE ReadPage
  <2>1. pc = "reading" /\ pc' = pc /\ file' = file
    BY <1>4 DEF ReadPage
  <2> QED BY <1>4, <2>1, ReadPageRead DEF ReadInv, ReadRight
<1>5. CASE EndRead
  <2>1. pc' = "idle" /\ file' = file
    BY <1>5 DEF EndRead
  <2> QED BY <1>5, <2>1, EndReadRight DEF ReadInv, ReadRight
<1>6. CASE UNCHANGED vars
  BY <1>1, <1>6 DEF vars
<1> QED BY <1>2, <1>3, <1>4, <1>5, <1>6 DEF Next

(* A read gives the bytes of the memory up to the first that is missing,   *)
(* whatever blocks the Store has kept or dropped before it.                *)
THEOREM EveryReadRight == Spec => []ReadRight
<1> DEFINE Inv == BuildInv /\ StoreInv /\ JobInv /\ LaidInv /\ ReadInv
<1>1. Init => Inv
  BY BuildStart, StoreStart, JobStart, LaidStart, ReadStart
<1>2. Inv /\ [Next]_vars => Inv'
  BY BuildStep, StoreStep, JobStep, LaidStep, ReadStep
<1>3. Inv => ReadRight
  BY DEF ReadInv
<1> QED BY <1>1, <1>2, <1>3, PTL DEF Spec
-----------------------------------------------------------------------------
(* Blocks are taken in ascending order, and the pages of one in that of    *)
(* their slots: what comes next is behind all that is in the lookup.       *)
AsOrdered(lk, hd, ix) ==
  \A p \in DOMAIN lk :
    /\ lk[p].head <= hd
    /\ lk[p].head = hd => ix > 0 /\ lk[p].slot <= (ix - 1) % BlockPages
ApartInv ==
  /\ PlacesApart
  /\ pc \in {"table", "skip"} => AsOrdered(lookup, head, index)

(* The slot of the next page is the one after, unless the block is full.   *)
LEMMA SlotOfNext ==
  ASSUME NEW n \in Nat \ {0}, NEW s \in Nat \ {0}, n % s # 0
  PROVE  n % s = ((n - 1) % s) + 1
<1> DEFINE q == n \div s
           r == n % s
<1>1. n = s * q + r /\ q \in Nat /\ r \in 0..(s - 1) /\ r # 0
  BY DivMod
<1> HIDE DEF q, r
<1>2. n - 1 = s * q + (r - 1) /\ r - 1 \in 0..(s - 1)
  BY <1>1, SMT
<1>3. (n - 1) % s = r - 1
  BY <1>1, <1>2, DivUnique
<1>4. r = ((n - 1) % s) + 1
  BY <1>1, <1>3
<1> QED BY <1>4 DEF r

(* A block further on is behind all of them.                               *)
LEMMA AheadOrdered ==
  ASSUME BuildInv, pc # "refused", AsOrdered(lookup, head, index),
         NEW h \in Nat, head < h, NEW ix
  PROVE  AsOrdered(lookup, h, ix)
<1>1. head \in Nat
  BY AtWork
<1>2. ASSUME NEW p \in DOMAIN lookup PROVE lookup[p].head <= h /\ lookup[p].head # h
  <2>1. lookup[p].head \in Nat
    BY AtWork DEF BuildInv, Entry
  <2>2. lookup[p].head <= head
    BY DEF AsOrdered
  <2> QED BY <1>1, <2>1, <2>2
<1> QED BY <1>2 DEF AsOrdered

LEMMA TakePageApart ==
  ASSUME BuildInv, ApartInv, TakePage PROVE ApartInv'
<1> DEFINE page == Ranges[range - 1].start + taken
           slot == index % BlockPages
<1>1. /\ pc = "table" /\ PageHead # None /\ head' = PageHead /\ index' = index + 1 /\ pc' = pc
      /\ lookup' = [p \in DOMAIN lookup \cup {page} |->
                      IF p = page
                      THEN [head |-> head', size |-> size', slot |-> index % BlockPages]
                      ELSE lookup[p]]
  BY DEF TakePage
<1>2. file \in Images /\ head \in Nat /\ size \in Nat /\ index \in Nat /\ BlockPages \in Nat \ {0}
  BY <1>1, AtWork, Sizes
<1>3. \A p \in DOMAIN lookup : lookup[p].head \in Nat /\ lookup[p].slot \in Nat
  <2>1. DOMAIN file.blocks \subseteq Nat /\ \A i \in 0..(BlockPages - 1) : i \in Nat
    BY <1>2, Image
  <2> QED BY <2>1 DEF BuildInv, Entry
<1>4. slot \in Nat /\ index' - 1 = index
  BY <1>1, <1>2, DivMod
<1>5. /\ head' \in Nat
      /\ \A p \in DOMAIN lookup : /\ lookup[p].head <= head'
                                  /\ lookup[p].head = head' => lookup[p].slot < slot
  <2>1. CASE BlockOver
    <3>1. head' = NextXpress(head, size) /\ NextXpress(head, size) # None
      BY <1>1, <2>1 DEF PageHead
    <3>2. head' \in DOMAIN file.blocks /\ head + HeaderSize + size <= head'
      BY <1>2, <3>1, Search
    <3>3. head' \in Nat /\ head < head'
      BY <1>2, <3>2, Image, Sizes
    <3>4. \A p \in DOMAIN lookup : lookup[p].head <= head
      BY <1>1 DEF ApartInv, AsOrdered
    <3> QED BY <1>2, <1>3, <3>3, <3>4
  <2>2. CASE ~BlockOver
    <3>1. head' = head
      BY <1>1, <2>2 DEF PageHead
    <3>2. ASSUME NEW p \in DOMAIN lookup, lookup[p].head = head PROVE lookup[p].slot < slot
      <4>1. index > 0 /\ lookup[p].slot <= (index - 1) % BlockPages
        BY <1>1, <3>2 DEF ApartInv, AsOrdered
      <4>2. slot # 0
        BY <2>2, <4>1 DEF BlockOver
      <4>3. slot = ((index - 1) % BlockPages) + 1
        <5>1. index \in Nat \ {0} /\ BlockPages \in Nat \ {0} /\ index % BlockPages # 0
          BY <1>2, <4>1, <4>2
        <5>2. index % BlockPages = ((index - 1) % BlockPages) + 1
          BY <5>1, SlotOfNext, Zenon
        <5> QED BY <5>2
      <4>4. (index - 1) % BlockPages \in Nat
        BY <1>2, <4>1, DivMod
      <4> HIDE DEF slot
      <4> QED BY <1>3, <4>1, <4>3, <4>4
    <3> QED BY <1>1, <1>2, <3>1, <3>2 DEF ApartInv, AsOrdered
  <2> QED BY <2>1, <2>2
<1> HIDE DEF page, slot
<1>6. \A p \in DOMAIN lookup' :
        \/ p = page /\ lookup'[p].head = head' /\ lookup'[p].slot = slot
        \/ p # page /\ p \in DOMAIN lookup /\ lookup'[p] = lookup[p]
  BY <1>1 DEF slot
<1>7. AsOrdered(lookup', head', index')
  <2>1. index' > 0
    BY <1>1, <1>2
  <2>2. (index' - 1) % BlockPages = slot
    BY <1>4 DEF slot
  <2> SUFFICES ASSUME NEW p \in DOMAIN lookup'
               PROVE  /\ lookup'[p].head <= head'
                      /\ lookup'[p].head = head' => lookup'[p].slot <= slot
    BY <2>1, <2>2 DEF AsOrdered
  <2> QED BY <1>3, <1>4, <1>5, <1>6
<1>8. PlacesApart'
  <2> SUFFICES ASSUME NEW p \in DOMAIN lookup', NEW q \in DOMAIN lookup', p # q
               PROVE  lookup'[p].head # lookup'[q].head \/ lookup'[p].slot # lookup'[q].slot
    BY DEF PlacesApart
  <2>1. CASE p = page
    BY <1>3, <1>4, <1>5, <1>6, <2>1
  <2>2. CASE q = page
    BY <1>3, <1>4, <1>5, <1>6, <2>2
  <2>3. CASE p # page /\ q # page
    BY <1>6, <2>3 DEF ApartInv, PlacesApart
  <2> QED BY <2>1, <2>2, <2>3
<1> QED BY <1>7, <1>8 DEF ApartInv

LEMMA ApartStep ==
  ASSUME BuildInv, ApartInv, [Next]_vars PROVE ApartInv'
<1>same. ASSUME lookup' = lookup PROVE PlacesApart'
  BY <1>same DEF ApartInv, PlacesApart
<1>still. ASSUME UNCHANGED <<lookup, head, index>>,
                 pc' \in {"table", "skip"} => pc \in {"table", "skip"}
          PROVE  ApartInv'
  BY <1>still, <1>same DEF ApartInv
<1>1. CASE Begin
  <2>1. lookup = <<>> /\ lookup' = lookup
    BY <1>1 DEF Begin, BuildInv
  <2>2. AsOrdered(lookup', head', index')
    BY <2>1 DEF AsOrdered
  <2> QED BY <1>same, <2>1, <2>2 DEF ApartInv
<1>2. CASE BeginRange
  BY <1>2, <1>still DEF BeginRange
<1>3. CASE TakePage
  BY <1>3, TakePageApart
<1>4. CASE NextTable
  <2>1. /\ pc = "table" /\ lookup' = lookup /\ head' = NextXpress(head, size)
        /\ NextXpress(head, size) # None
    BY <1>4 DEF NextTable, TableOver, AfterTable
  <2>2. file \in Images /\ head \in Nat /\ size \in Nat
    BY <2>1, AtWork
  <2>3. head' \in DOMAIN file.blocks /\ head + HeaderSize + size <= head'
    BY <2>1, <2>2, Search
  <2>4. head' \in Nat /\ head < head'
    BY <2>2, <2>3, Image, Sizes
  <2>5. AsOrdered(lookup, head', index')
    BY <2>1, <2>4, AheadOrdered DEF ApartInv
  <2> QED BY <1>same, <2>1, <2>5 DEF ApartInv
<1>5. CASE SkipBlock
  <2>1. /\ pc = "skip" /\ lookup' = lookup /\ head' = NextXpress(head, 0)
        /\ NextXpress(head, 0) # None
    BY <1>5 DEF SkipBlock
  <2>2. file \in Images /\ head \in Nat
    BY <2>1, AtWork
  <2>3. head' \in DOMAIN file.blocks /\ head + HeaderSize + 0 <= head'
    BY <2>1, <2>2, Search
  <2>4. head' \in Nat /\ head < head'
    BY <2>2, <2>3, Image, Sizes
  <2>5. AsOrdered(lookup, head', index')
    BY <2>1, <2>4, AheadOrdered DEF ApartInv
  <2> QED BY <1>same, <2>1, <2>5 DEF ApartInv
<1>6. CASE Skipped \/ Built
  BY <1>6, <1>still DEF Skipped, Built, TableOver, build
<1>7. CASE NoSignature \/ NegativeRange \/ NoMoreBlocks \/ NoBlockForTable \/ NothingToSkip
  BY <1>7, <1>still DEF NoSignature, NegativeRange, NoMoreBlocks, NoBlockForTable, NothingToSkip,
                        Refuse, build
<1>8. CASE \E a \in Addresses, n \in Lengths, z \in BOOLEAN : StartRead(a, n, z)
  BY <1>8, <1>still DEF StartRead, build
<1>9. CASE ReadPage \/ EndRead
  BY <1>9, <1>still DEF ReadPage, EndRead, build
<1>10. CASE UNCHANGED vars
  BY <1>10, <1>still DEF vars, build
<1> QED BY <1>1, <1>2, <1>3, <1>4, <1>5, <1>6, <1>7, <1>8, <1>9, <1>10 DEF Next, Build

(* Whatever the tables and blocks of a file are, and also where its tables *)
(* are chained in a ring, no two pages are looked up in one place.         *)
THEOREM NoPageAliased == Spec => []PlacesApart
<1>1. Init => ApartInv
  BY DEF Init, ApartInv, PlacesApart
<1>2. BaseInv /\ ApartInv /\ [Next]_vars => ApartInv'
  BY ApartStep DEF BaseInv
<1>3. ApartInv => PlacesApart
  BY DEF ApartInv
<1> QED BY <1>1, <1>2, <1>3, BaseHolds, PTL DEF Spec
=============================================================================
