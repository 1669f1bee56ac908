----------------------------- MODULE Hibernate -----------------------------
(***************************************************************************)
(* The hibernation file of Windows as physical memory (hibernate.py).  The *)
(* file is a chain of tables; a table lists ranges of pages, and behind it *)
(* come Xpress blocks that hold these pages, compressed, in their order.   *)
(* The constructor walks tables and blocks side by side to learn where     *)
(* every page is (LookupCache).  A read then goes page by page, unpacks    *)
(* the block a page is in and keeps the last unpacked blocks in a Store.   *)
(*                                                                         *)
(* An image is                                                             *)
(*   first   FirstTablePage of the header, None when the header is zeroed  *)
(*   tables  page of the file -> [ranges, next]                            *)
(*   blocks  offset of an Xpress header -> [packed, data]: its size field  *)
(*           and how many bytes the block unpacks to                       *)
(*   fsize   the size of the file                                          *)
(* A byte of memory is named by the block it comes from and its place in   *)
(* what the block unpacks to.                                              *)
(***************************************************************************)
EXTENDS Integers, Sequences, FiniteSets, SequencesExt

CONSTANTS
  Images,      \* hibernation files
  Page,        \* PAGE_SIZE
  BlockPages,  \* pages in a block, 0x10
  HeaderSize,  \* size of _IMAGE_XPRESS_HEADER, 0x20
  Align,       \* 8, what the size of a block is rounded to
  Chunk,       \* BLOCKSIZE of next_xpress
  SearchLimit, \* 10240
  FirstPages,  \* 10, the pages _get_first_table_page looks at
  FullTable,   \* entry_count, the entries of a table that has a next
  Limit,       \* limit of the Store
  Addresses, Lengths,  \* bound: the reads
  None

ASSUME SizeAssumption ==
  /\ {Page, BlockPages, HeaderSize, Align, Chunk, FullTable, Limit} \subseteq Nat \ {0}
  /\ {SearchLimit, FirstPages} \subseteq Nat
  /\ Addresses \subseteq Nat /\ Lengths \subseteq Nat
  /\ None \notin Nat /\ None \notin Nat \X Nat

(* Page 0 is the header, so no block is at its beginning; and there is     *)
(* something to read as a table wherever one is looked for.                *)
ASSUME ImageAssumption ==
  \A f \in Images :
    /\ f.first \in Nat \cup {None} /\ f.fsize \in Nat
    /\ DOMAIN f.tables \subseteq Nat
    /\ DOMAIN f.blocks \subseteq Nat /\ IsFiniteSet(DOMAIN f.blocks)
    /\ \A t \in DOMAIN f.tables :
         /\ f.tables[t].next \in DOMAIN f.tables \cup {0}
         /\ f.tables[t].ranges \in Seq([start : Nat, end : Nat])
    /\ f.first # None => f.first \in DOMAIN f.tables /\ (f.first + 1) * Page \in DOMAIN f.blocks
    /\ f.first = None =>
         /\ 0 \notin DOMAIN f.blocks
         /\ \A i \in 1..(FirstPages - 1) :
              /\ i * Page \in DOMAIN f.blocks
              /\ \A j \in 1..(i - 1) : j * Page \notin DOMAIN f.blocks
              => i - 1 \in DOMAIN f.tables \cup {0}
    /\ \A b \in DOMAIN f.blocks : f.blocks[b] \in [packed : Nat, data : Nat]

(* An uncompressed block: 0x10000 bytes.                                   *)
RawSize == BlockPages * Page

VARIABLES
  file,    \* the image
  pc,      \* "first", "table", "skip", "idle", "reading" or "refused"
  table,   \* MemoryArrayOffset, in pages
  range,   \* the range of the table that is next
  taken,   \* the pages taken of the range before
  index,   \* XpressIndex
  head,    \* XpressHeader.obj_offset
  size,    \* XpressBlockSize
  lookup,  \* LookupCache
  listed,  \* AddressList, in pages, as a set
  store,   \* PageCache: cache, seq and size
  job      \* the read: its range, what is left of it, what it has, zread

build == <<table, range, taken, index, head, size, lookup, listed>>
vars == <<file, pc, build, store, job>>

NoJob == [at |-> 0, len |-> 0, addr |-> 0, left |-> 0, got |-> <<>>, zero |-> FALSE]

Init ==
  /\ file \in Images
  /\ pc = "first"
  /\ table = 0 /\ range = 1 /\ taken = 0 /\ index = 0 /\ head = 0 /\ size = 0
  /\ lookup = <<>> /\ listed = {}
  /\ store = [cache |-> <<>>, seq |-> <<>>, size |-> 0]
  /\ job = NoJob
-----------------------------------------------------------------------------
(* get_xpress_block_size: one more than the field, rounded up.             *)
BlockSize(f, b) ==
  LET n == f.blocks[b].packed + 1
  IN IF n % Align = 0 THEN n ELSE n - (n % Align) + Align

(* _get_first_table_page: the page before the first one that begins with a *)
(* block, when the header does not tell.                                   *)
FirstTable(f) ==
  IF f.first # None THEN f.first
  ELSE LET starts == {i \in 0..(FirstPages - 1) : i * Page \in DOMAIN f.blocks}
       IN IF starts = {} THEN None
          ELSE (CHOOSE i \in starts : \A j \in starts : i <= j) - 1

\* Slip: the search begins at the header, not behind it.
NextXpressFromHeader(h, s) ==
  LET from == h + s
      span == ((SearchLimit \div Chunk) + 1) * Chunk
      found == {b \in DOMAIN file.blocks : from <= b /\ b < from + span}
  IN IF found = {} THEN None ELSE CHOOSE b \in found : \A c \in found : b <= c

(* next_xpress: the first header behind the block, None when the search    *)
(* has come too far or to the end of the file.  The file is read in pieces *)
(* of Chunk, each searched by itself; the signature of a header lies in    *)
(* one of them, as headers and pieces are aligned alike.                   *)
NextXpress(h, s) ==
  LET from == h + HeaderSize + s
      span == ((SearchLimit \div Chunk) + 1) * Chunk
      found == {b \in DOMAIN file.blocks : from <= b /\ b < from + span}
  IN IF found = {} THEN None ELSE CHOOSE b \in found : \A c \in found : b <= c

Refuse ==
  /\ pc' = "refused"
  /\ UNCHANGED <<file, build, store, job>>

Begin ==
  /\ pc = "first"
  /\ FirstTable(file) # None
  /\ table' = FirstTable(file)
  /\ head' = (FirstTable(file) + 1) * Page
  /\ size' = BlockSize(file, head')
  /\ pc' = "table"
  /\ UNCHANGED <<file, range, taken, index, lookup, listed, store, job>>

NoSignature == pc = "first" /\ FirstTable(file) = None /\ Refuse

(* A table at page 0 is none at all.                                       *)
Ranges == IF table = 0 THEN <<>> ELSE file.tables[table].ranges
Count(r) == r.end - r.start
RangeOver == taken = IF range = 1 THEN 0 ELSE Count(Ranges[range - 1])

Negative(r) == Count(r) <= 0

BeginRange ==
  /\ pc = "table" /\ RangeOver /\ range <= Len(Ranges)
  /\ ~Negative(Ranges[range])
  /\ listed' = listed \cup {[start |-> Ranges[range].start, count |-> Count(Ranges[range])]}
  /\ range' = range + 1
  /\ taken' = 0
  /\ UNCHANGED <<file, pc, table, index, head, size, lookup, store, job>>

NegativeRange ==
  /\ pc = "table" /\ RangeOver /\ range <= Len(Ranges)
  /\ Negative(Ranges[range])
  /\ Refuse

BlockOver == index > 0 /\ index % BlockPages = 0
PageHead == IF BlockOver THEN NextXpress(head, size) ELSE head

(* The next page of the range is in the block, or first in the next block. *)
TakePage ==
  /\ pc = "table" /\ ~RangeOver
  /\ PageHead # None
  /\ head' = PageHead
  /\ size' = BlockSize(file, head')
  /\ lookup' = LET page == Ranges[range - 1].start + taken
               IN [p \in DOMAIN lookup \cup {page} |->
                     IF p = page
                     THEN [head |-> head', size |-> size', slot |-> index % BlockPages]
                     ELSE lookup[p]]
  /\ taken' = taken + 1
  /\ index' = index + 1
  /\ UNCHANGED <<file, pc, table, range, listed, store, job>>

NoMoreBlocks == pc = "table" /\ ~RangeOver /\ PageHead = None /\ Refuse

TableOver == pc = "table" /\ RangeOver /\ range > Len(Ranges)
HasNext == table # 0 /\ file.tables[table].next # 0 /\ Len(Ranges) = FullTable

\* Slip: the next table goes on with the block of the last.
AfterTableStays == head
(* The rest of the last block belongs to no page.                          *)
AfterTable == NextXpress(head, size)

NextTable ==
  /\ TableOver /\ HasNext
  /\ AfterTable # None
  /\ table' = file.tables[table].next
  /\ head' = AfterTable
  /\ size' = BlockSize(file, head')
  /\ range' = 1 /\ taken' = 0 /\ index' = 0
  /\ pc' = "skip"
  /\ UNCHANGED <<file, lookup, listed, store, job>>

NoBlockForTable == TableOver /\ HasNext /\ AfterTable = None /\ Refuse

\* Slip: blocks before the table are taken for its own.
BeforeTableNever == FALSE
BeforeTable == head < table * Page

(* Blocks before the table are not its own.  Their content is searched for *)
(* headers, too.                                                           *)
SkipBlock ==
  /\ pc = "skip" /\ BeforeTable
  /\ NextXpress(head, 0) # None
  /\ head' = NextXpress(head, 0)
  /\ size' = BlockSize(file, head')
  /\ UNCHANGED <<file, pc, table, range, taken, index, lookup, listed, store, job>>

NothingToSkip == pc = "skip" /\ BeforeTable /\ NextXpress(head, 0) = None /\ Refuse

Skipped ==
  /\ pc = "skip" /\ ~BeforeTable
  /\ pc' = "table"
  /\ UNCHANGED <<file, build, store, job>>

Built ==
  /\ TableOver /\ ~HasNext
  /\ pc' = "idle"
  /\ UNCHANGED <<file, build, store, job>>

Build == \/ Begin \/ NoSignature \/ BeginRange \/ NegativeRange \/ TakePage \/ NoMoreBlocks
         \/ NextTable \/ NoBlockForTable \/ SkipBlock \/ NothingToSkip \/ Skipped \/ Built
-----------------------------------------------------------------------------
(* What block b unpacks to; an uncompressed one is cut by the file's end.  *)
DataLen(f, b) ==
  LET left == f.fsize - (b + HeaderSize)
  IN IF BlockSize(f, b) = RawSize
     THEN IF left < RawSize THEN left ELSE RawSize
     ELSE f.blocks[b].data

(* Store.put: the oldest block goes when there are Limit.                  *)
\* Slip: the key of the new block is forgotten, not the oldest.
PutNewest(b) ==
  LET full == Len(store.seq) + 1 >= Limit
  IN [cache |-> [c \in DOMAIN store.cache \cup {b} |->
                   IF c = b THEN DataLen(file, b) ELSE store.cache[c]],
      seq |-> IF full THEN store.seq ELSE Append(store.seq, b),
      size |-> store.size + IF full THEN 0 ELSE DataLen(file, b)]
Put(b) ==
  LET seq == Append(store.seq, b)
      cache == [c \in DOMAIN store.cache \cup {b} |->
                  IF c = b THEN DataLen(file, b) ELSE store.cache[c]]
  IN IF Len(seq) < Limit
     THEN [cache |-> cache, seq |-> seq, size |-> store.size + DataLen(file, b)]
     ELSE [cache |-> [c \in DOMAIN cache \ {seq[1]} |-> cache[c]],
           seq |-> Tail(seq),
           size |-> store.size + DataLen(file, b) - cache[seq[1]]]

StartRead(a, n, z) ==
  /\ pc = "idle"
  /\ job' = [at |-> a, len |-> n, addr |-> a, left |-> n, got |-> <<>>, zero |-> z]
  /\ pc' = "reading"
  /\ UNCHANGED <<file, build, store>>

Hit(b) == b \in DOMAIN store.cache
Known == job.addr \div Page \in DOMAIN lookup
Place == lookup[job.addr \div Page]

(* read_xpress: an uncompressed block is not kept.                         *)
Fetch ==
  IF job.left > 0 /\ Known /\ ~Hit(Place.head) /\ Place.size # RawSize
  THEN Put(Place.head) ELSE store

\* Slip: the rest of the page is not looked at.
WantedAll == job.left
Wanted == LET rest == Page - (job.addr % Page) IN IF job.left < rest THEN job.left ELSE rest

(* _partial_read: up to the end of the page, or what the block has of it.  *)
Part ==
  IF ~Known THEN <<>>
  ELSE LET offset == Place.slot * Page + (job.addr % Page)
           has == (IF Hit(Place.head) THEN store.cache[Place.head] ELSE DataLen(file, Place.head))
                  - offset
       IN [j \in 1..(IF has < Wanted THEN has ELSE Wanted) |-> <<Place.head, offset + j - 1>>]

ReadPage ==
  /\ pc = "reading"
  /\ Part # <<>>
  /\ store' = Fetch
  /\ job' = [job EXCEPT !.addr = @ + Len(Part), !.left = @ - Len(Part), !.got = @ \o Part]
  /\ UNCHANGED <<file, pc, build>>

Zero == <<0, 0>>

(* read breaks off at what is missing, and zread pads only an answer that  *)
(* is empty.                                                               *)
EndRead ==
  /\ pc = "reading"
  /\ Part = <<>>
  /\ store' = Fetch
  /\ job' = IF job.got = <<>> /\ job.zero
            THEN [job EXCEPT !.got = [j \in 1..job.left |-> Zero]]
            ELSE job
  /\ pc' = "idle"
  /\ UNCHANGED <<file, build>>

Next == \/ Build
        \/ \E a \in Addresses, n \in Lengths, z \in BOOLEAN : StartRead(a, n, z)
        \/ ReadPage
        \/ EndRead

(* The constructor and a read run on; nobody has to read.                  *)
Spec == Init /\ [][Next]_vars /\ WF_vars(Build) /\ WF_vars(ReadPage \/ EndRead)
-----------------------------------------------------------------------------
StoreSize ==
  LET total[i \in 0..Len(store.seq)] ==
        IF i = 0 THEN 0 ELSE total[i - 1] + store.cache[store.seq[i]]
  IN total[Len(store.seq)]

(* The Store keeps what it counts: the keys in its queue are those it has  *)
(* blocks for, each once, fewer than the limit, and its size is theirs.    *)
StoreCoherent ==
  /\ ToSet(store.seq) = DOMAIN store.cache
  /\ IsInjective(store.seq)
  /\ Len(store.seq) < Limit
  /\ store.size = StoreSize
  /\ \A b \in DOMAIN store.cache : store.cache[b] = DataLen(file, b)

TypeOK ==
  /\ file \in Images
  /\ pc \in {"first", "table", "skip", "idle", "reading", "refused"}
  /\ table \in DOMAIN file.tables \cup {0}
  /\ {range, taken, index, size} \subseteq Nat
  /\ head \in DOMAIN file.blocks \cup {0}
  /\ \A p \in DOMAIN lookup :
       /\ lookup[p] \in [head : DOMAIN file.blocks, size : Nat, slot : 0..(BlockPages - 1)]
       /\ lookup[p].size = BlockSize(file, lookup[p].head)
  /\ \A r \in listed : r \in [start : Nat, count : Nat \ {0}]
  /\ job.addr + job.left = job.at + job.len
  /\ StoreCoherent

(* What the file means, from its layout alone.  A table owns the blocks    *)
(* between itself and the next table; its pages are in them, in order.     *)
Follows(f, t) == f.tables[t].next # 0 /\ Len(f.tables[t].ranges) = FullTable
TablesFrom(f, t0) ==
  {t \in DOMAIN f.tables :
     /\ t0 # 0
     /\ \A S \in SUBSET DOMAIN f.tables :
          t0 \in S /\ (\A s \in S : Follows(f, s) => f.tables[s].next \in S) => t \in S}
Own(f, t) ==
  {b \in DOMAIN f.blocks :
     t * Page < b /\ (Follows(f, t) => b < f.tables[t].next * Page)}

(* The places of the pages in a table: a range, and how far into it.       *)
Places(f, t) ==
  LET ranges == f.tables[t].ranges
  IN UNION {{i} \X (0..(Count(ranges[i]) - 1)) : i \in DOMAIN ranges}
PageAt(f, t, p) == f.tables[t].ranges[p[1]].start + p[2]
Rank(f, t, p) ==
  Cardinality({q \in Places(f, t) : q[1] < p[1] \/ (q[1] = p[1] /\ q[2] < p[2])})
BlockRank(f, t, b) == Cardinality({c \in Own(f, t) : c < b})

(* A file as Windows writes it: tables follow each other, each on a page   *)
(* of its own and with blocks enough for its pages, and no page is listed  *)
(* twice.                                                                  *)
Ordered(f) == \A t \in DOMAIN f.tables : f.tables[t].next # 0 => f.tables[t].next > t
WellLaid(f) ==
  /\ FirstTable(f) # None
  /\ Ordered(f)
  /\ \A t \in TablesFrom(f, FirstTable(f)) :
       /\ \A i \in DOMAIN f.tables[t].ranges : Count(f.tables[t].ranges[i]) > 0
       /\ \A p \in Places(f, t) : Rank(f, t, p) \div BlockPages < Cardinality(Own(f, t))
       /\ \A b \in DOMAIN f.blocks : b \div Page # t
  /\ \A s, t \in TablesFrom(f, FirstTable(f)) :
       \A p \in Places(f, s), q \in Places(f, t) :
         PageAt(f, s, p) = PageAt(f, t, q) => s = t /\ p = q
  /\ \A b, c \in DOMAIN f.blocks : b < c => b + HeaderSize + BlockSize(f, b) <= c

(* The block and slot of every page of table t.                            *)
Laid(f, t) ==
  {[page |-> PageAt(f, t, m[1]), head |-> m[2], slot |-> Rank(f, t, m[1]) % BlockPages] :
     m \in {n \in Places(f, t) \X Own(f, t) :
              BlockRank(f, t, n[2]) = Rank(f, t, n[1]) \div BlockPages}}
Layout(f) == UNION {Laid(f, t) : t \in TablesFrom(f, FirstTable(f))}

(* The constructor finds every page of a file that is laid as Windows lays *)
(* it, in the block and at the place where it was put: over tables whose   *)
(* pages end in the middle of a block or exactly with one, blocks that no  *)
(* page is in, and a header that is zeroed.  What is reported as available *)
(* is what can be looked up.                                               *)
LookupRight ==
  pc = "idle" =>
    /\ WellLaid(file) =>
         {[page |-> p, head |-> lookup[p].head, slot |-> lookup[p].slot] :
            p \in DOMAIN lookup} = Layout(file)
    /\ UNION {r.start..(r.start + r.count - 1) : r \in listed} = DOMAIN lookup

(* No two pages are looked up in one place, in any file: torn ones, tables *)
(* that list a page again, and a chain that leads back to a table the walk *)
(* has had as well.  Each turn must go on to blocks of its own.            *)
PlacesApart ==
  \A p, q \in DOMAIN lookup :
    p # q => lookup[p].head # lookup[q].head \/ lookup[p].slot # lookup[q].slot

(* A read gives the bytes of the file from its first on, as far as they    *)
(* are there, whatever has been read, kept and dropped before; zread gives *)
(* zeros where nothing is.                                                 *)
MemoryByte(f, a) ==
  LET at == {m \in Layout(f) : m.page = a \div Page}
  IN IF at = {} THEN None
     ELSE LET m == CHOOSE m \in at : TRUE
              place == m.slot * Page + (a % Page)
          IN IF place < DataLen(f, m.head) THEN <<m.head, place>> ELSE None
Longest(f, a, n) ==
  LET lost == {j \in 0..(n - 1) : MemoryByte(f, a + j) = None}
      m == IF lost = {} THEN n ELSE CHOOSE j \in lost : \A i \in lost : j <= i
  IN [j \in 1..m |-> MemoryByte(f, a + j - 1)]
ReadRight ==
  pc = "idle" /\ WellLaid(file) =>
    job.got = IF Longest(file, job.at, job.len) = <<>> /\ job.zero
              THEN [j \in 1..job.len |-> Zero]
              ELSE Longest(file, job.at, job.len)

(* The constructor ends for every file, also when its tables are chained   *)
(* in a ring: each turn needs another block.  So does every read.          *)
BuildEnds == <>(pc \notin {"first", "table", "skip"})
ReadsEnd == (pc = "reading") ~> (pc = "idle")
Ends == BuildEnds /\ ReadsEnd
=============================================================================
