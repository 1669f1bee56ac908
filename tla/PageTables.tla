----------------------------- MODULE PageTables -----------------------------
(***************************************************************************)
(* Address translation on x86: the paging address spaces of intel.py and   *)
(* amd64.py.  The same tables are walked by two pieces of code: vtop finds *)
(* the physical address of one virtual address, get_available_pages lists  *)
(* all pages, which get_available_addresses (paged.py) joins to ranges.    *)
(* Scanners and copies rely on the ranges, everything else on vtop.        *)
(*                                                                         *)
(* Addresses are counted in pages, since every mask keeps the offset in a  *)
(* page.  An entry is what the code looks at: whether it is valid, in      *)
(* transition or neither; the page size flag; the top bit, above the       *)
(* address (NX); the frame.  A frame that is not in the image holds        *)
(* nothing.                                                                *)
(***************************************************************************)
EXTENDS Integers, Sequences, FiniteSets

CONSTANTS
  Kinds,   \* the address spaces: "ia32", "pae", "amd64"
  Fan,     \* entries of a table
  Frames,  \* numbers of frames
  Images,  \* what the frames of an image hold, as tables
  None

Depth(k) == CASE k = "ia32" -> 2 [] k = "pae" -> 3 [] k = "amd64" -> 4

(* The levels at which page_size_flag is asked for.                        *)
BigLevels(k) == CASE k = "ia32" -> {1} [] k = "pae" -> {2} [] k = "amd64" -> {2, 3}

Entry == [state : {"valid", "transition", "absent"},
          big : BOOLEAN, nx : BOOLEAN, frame : Frames]
Index == 0..(Fan - 1)

ASSUME TablesAssumption ==
  /\ Kinds \subseteq {"ia32", "pae", "amd64"}
  /\ Fan \in Nat \ {0, 1}
  /\ Frames \subseteq Nat /\ 0 \in Frames
  /\ None \notin Nat /\ None \notin [start : Nat, len : Nat]
  /\ Images \subseteq [Frames -> [Index -> Entry]]

VARIABLES
  image,   \* the physical memory
  kind,    \* the class of the address space
  flat,    \* is the base a FileAddressSpace?
  tables,  \* the tables whose loops get_available_pages is in, from the top
  page,    \* the first page of the entry that is next
  run,     \* currentOffset and runLength
  ranges,  \* the ranges given so far
  pc       \* "walk", "done" or "raised"

vars == <<image, kind, flat, tables, page, run, ranges, pc>>
-----------------------------------------------------------------------------
(* Pages that an entry of level l stands for, and pages of all entries.    *)
Powers == <<1, Fan, Fan * Fan, Fan * Fan * Fan, Fan * Fan * Fan * Fan>>
Span(l) == Powers[Depth(kind) - l + 1]
Total == Span(0)

IndexAt(l, p) == (p \div Span(l)) % Fan

(* Also a page in transition is there, if it is not a prototype.           *)
EntryPresent(e) == e.state \in {"valid", "transition"}

Zero == [state |-> "absent", big |-> FALSE, nx |-> FALSE, frame |-> 0]

(* Is a present entry of level l a page, and not the next table?           *)
IsPage(l, e) == l = Depth(kind) \/ (l \in BigLevels(kind) /\ e.big)

Leaf(l, e) == EntryPresent(e) /\ IsPage(l, e)
Inner(l, e) == EntryPresent(e) /\ ~IsPage(l, e)

(* The entry of page p in the table below entry e of level l - 1.          *)
Below(l, e, p) ==
  IF Inner(l - 1, e) THEN image[e.frame][IndexAt(l, p)] ELSE Zero

(* The entries that vtop reads on its way to page p, Zero where it is over. *)
Way(p) ==
  LET e1 == image[0][IndexAt(1, p)]
      e2 == Below(2, e1, p)
      e3 == Below(3, e2, p)
      e4 == Below(4, e3, p)
  IN <<e1, e2, e3, e4>>

(* vtop: the frame of page p, in a large page counted from its first.      *)
Vtop(p) ==
  LET way == Way(p)
      leaves == {l \in 1..4 : Leaf(l, way[l])}
  IN IF leaves = {} THEN None
     ELSE LET l == CHOOSE m \in leaves : TRUE
              f == way[l].frame
          IN (f - (f % Span(l))) + (p % Span(l))
-----------------------------------------------------------------------------
Init ==
  /\ image \in Images /\ kind \in Kinds /\ flat \in BOOLEAN
  /\ tables = <<0>>
  /\ page = 0
  /\ run = None /\ ranges = <<>>
  /\ pc = "walk"

Level == Len(tables)
Current ==
  IF tables[Level] = None THEN Zero ELSE image[tables[Level]][IndexAt(Level, page)]

\* Slip: the loops inside are not left.
LoopsAtAll(p) == tables
(* The loops that are not over at page p.                                  *)
LoopsAt(p) ==
  [l \in {m \in 1..Level : m = 1 \/ p % Span(m - 1) # 0} |-> tables[l]]

\* Slip: no class clears the top bit.
TableOfAny(e) == IF e.nx THEN None ELSE e.frame
(* The table of a directory entry.  The lister of the PAE class clears     *)
(* only the low bits of the entry: with NX set, the address lies behind    *)
(* every image.                                                            *)
TableOf(e) == IF kind = "pae" /\ Level = 2 /\ e.nx THEN None ELSE e.frame

(* The base of a file refuses to seek so far, and not with an IOError.     *)
Seekable == ~flat \/ tables[Level] # None

Walking == pc = "walk" /\ page < Total /\ Seekable

Advance ==
  /\ page' = page + Span(Level)
  /\ tables' = LoopsAt(page')

Skip ==
  /\ Walking
  /\ ~EntryPresent(Current)
  /\ Advance
  /\ UNCHANGED <<image, kind, flat, run, ranges, pc>>

Enter ==
  /\ Walking
  /\ Inner(Level, Current)
  /\ tables' = Append(tables, TableOf(Current))
  /\ UNCHANGED <<image, kind, flat, page, run, ranges, pc>>

(* get_available_addresses joins a page to the run it touches.             *)
Touches(offset) == offset <= run.start + run.len

\* Slip: a large page counts as one page.
YieldSizeOne == 1
YieldSize == Span(Level)

Yield ==
  /\ Walking
  /\ Leaf(Level, Current)
  /\ IF run # None /\ Touches(page)
     THEN /\ run' = [run EXCEPT !.len = @ + (run.start + @ - page) + YieldSize]
          /\ UNCHANGED ranges
     ELSE /\ run' = [start |-> page, len |-> YieldSize]
          /\ ranges' = IF run = None THEN ranges ELSE Append(ranges, run)
  /\ Advance
  /\ UNCHANGED <<image, kind, flat, pc>>

Raise ==
  /\ pc = "walk" /\ ~Seekable
  /\ pc' = "raised"
  /\ UNCHANGED <<image, kind, flat, tables, page, run, ranges>>

Flush ==
  /\ pc = "walk" /\ page = Total
  /\ run # None
  /\ ranges' = Append(ranges, run)
  /\ run' = None
  /\ UNCHANGED <<image, kind, flat, tables, page, pc>>

Finish ==
  /\ pc = "walk" /\ page = Total
  /\ run = None
  /\ pc' = "done"
  /\ UNCHANGED <<image, kind, flat, tables, page, run, ranges>>

Next == Skip \/ Enter \/ Yield \/ Raise \/ Flush \/ Finish

Spec == Init /\ [][Next]_vars
-----------------------------------------------------------------------------
(* The walk and its position stay within the address space, and no table   *)
(* is open when it is over.                                                *)
TypeOK ==
  /\ image \in [Frames -> [Index -> Entry]]
  /\ kind \in Kinds /\ flat \in BOOLEAN
  /\ tables \in Seq(Frames \union {None}) /\ Level \in 1..Depth(kind)
  /\ page \in 0..Total
  /\ page = Total => Level = 1
  /\ run \in [start : Nat, len : Nat \ {0}] \union {None}
  /\ ranges \in Seq([start : Nat, len : Nat \ {0}])
  /\ pc \in {"walk", "done", "raised"}

(* Is page p behind a PAE directory entry with NX set?                     *)
BehindNx(p) ==
  LET e == Way(p)[2] IN kind = "pae" /\ e.nx /\ Inner(2, e)

(* The lister reads, at each page, the tables that vtop reads for it, from *)
(* the directory base down to the loop it is in, but for those behind NX.  *)
SameWay ==
  page < Total =>
    /\ tables[1] = 0
    /\ \A l \in 2..Level :
         LET e == Way(page)[l - 1]
         IN /\ Inner(l - 1, e)
            /\ tables[l] # e.frame => tables[l] = None /\ l = 3 /\ BehindNx(page)

(* What get_available_addresses of a paging address space gives is what    *)
(* AvailableRanges promises of the pages that vtop translates: each        *)
(* maximal block of them once, in order, with large pages, tables that are *)
(* missing or reached twice, and a directory that maps itself.  The one    *)
(* exception are the pages behind NX.                                      *)
Listable == {p \in 0..(Total - 1) : Vtop(p) # None /\ ~BehindNx(p)}

Abstract == INSTANCE AvailableRanges WITH mapped <- Listable, over <- pc = "done"

ListsMapped == Abstract!Spec
=============================================================================
