----------------------------- MODULE HiveMemory -----------------------------
(***************************************************************************)
(* A registry hive in memory (win32/hive.py).  The hive has an address     *)
(* space of its own: HiveAddressSpace maps it block by block to the kernel *)
(* memory, through the hive's map of two levels or, for a flat hive, by    *)
(* adding its base.  An address is that of a cell; what is read there      *)
(* begins behind the size field that every cell starts with.  save writes  *)
(* the hive to a file, and HiveFileAddressSpace reads such a file.         *)
(*                                                                         *)
(* The base is kernel memory as in DiscreteAllocMemory.  A page of it is   *)
(* "present", "unmapped" (no translation: a read gives None) or "absent"   *)
(* (translated to where the image has nothing: a read gives a NoneObject). *)
(* A byte is named by its address in kernel memory plus one, 0 is padding. *)
(***************************************************************************)
EXTENDS Integers, Sequences, FiniteSets

CONSTANTS
  Block,     \* BLOCK_SIZE, also the page size of the base
  SizeField, \* 4
  Table,     \* entries of a table of the map, CI_BLOCK_MASK
  Volatile,  \* 0x80000000, the bit of the storage that is not on disk
  Hives,     \* the hives
  Bases,     \* pages of kernel memory -> their state
  Lengths,   \* bound: the lengths of reads
  None

(* A hive is                                                               *)
(*   flat    HHIVE.Flat                                                    *)
(*   base    the page of its base block                                    *)
(*   length  Length of both storages in blocks                             *)
(*   at      block (by its address) -> the page of the base that it is, 0  *)
(*           if it is not loaded                                           *)
(*   known   the blocks that the map tells                                 *)
(*   bin     block -> its bin; a bin is of one storage, loaded as a whole  *)
(*           or not at all, and contiguous in kernel memory                *)
BlocksOf(h) ==
  {i * Block : i \in 0..(h.length[1] - 1)} \cup
  {Volatile + i * Block : i \in 0..(h.length[2] - 1)}

IsHive(h) ==
  /\ h.flat \in BOOLEAN /\ h.base \in Nat
  /\ h.length \in Nat \X Nat /\ h.length[1] * Block <= Volatile
  /\ h.at \in [BlocksOf(h) -> Nat]
  /\ h.known \subseteq DOMAIN h.at /\ DOMAIN h.bin = DOMAIN h.at
  /\ \A i, j \in DOMAIN h.at :
       h.bin[i] = h.bin[j] =>
         /\ h.at[i] = 0 <=> h.at[j] = 0
         /\ h.at[i] # 0 => h.at[j] - h.at[i] = (j - i) \div Block
         /\ i < Volatile <=> j < Volatile
  /\ h.flat => \A i \in DOMAIN h.at : h.at[i] = h.base + 1 + (i \div Block)

(* Nothing is in the first pages of memory, where a block that is not      *)
(* loaded is looked for.                                                   *)
ASSUME HiveAssumption ==
  /\ Lengths \subseteq Nat \ {0}
  /\ {Block, SizeField, Table, Volatile} \subseteq Nat \ {0}
  /\ SizeField < Block /\ Volatile % (Block * Table) = 0
  /\ None \notin Nat
  /\ \A h \in Hives : IsHive(h)
  /\ \A b \in Bases : DOMAIN b \cap {0, 1} = {}

VARIABLES
  hive,  \* the hive
  base,  \* the kernel memory
  pc,    \* "idle", "read", "save" or "stats"
  job,   \* the read: its range, zread, the next block, what it has
  block, \* the next block of save or stats
  file,  \* what save has written
  bad    \* what stats has counted, of which storage: bad_blocks_reg and _mem

vars == <<hive, base, pc, job, block, file, bad>>

Zeros(n) == [j \in 1..n |-> 0]

NoJob == [at |-> 0, len |-> 0, zero |-> FALSE, saved |-> FALSE, next |-> 0, got |-> [kind |-> "data", bytes |-> <<>>]]
NoCount == [stor |-> 0, reg |-> 0, mem |-> 0]

Init ==
  /\ hive \in Hives /\ base \in Bases
  /\ pc = "idle" /\ job = NoJob
  /\ block = 0 /\ file = <<>> /\ bad = NoCount
-----------------------------------------------------------------------------
(* A result is data, a None or a NoneObject, or the read raises.  A        *)
(* NoneObject swallows what it is added to or what is added to it, be it   *)
(* None (__add__ and __radd__ of obj.py); else Python adds no None.        *)
Data(s) == [kind |-> "data", bytes |-> s]
No(k) == [kind |-> k, bytes |-> <<>>]
IsData(r) == r.kind = "data"
Add(r, t) ==
  IF "NoneObject" \in {r.kind, t.kind} THEN No("NoneObject")
  ELSE IF IsData(r) /\ IsData(t) THEN Data(r.bytes \o t.bytes) ELSE No("TypeError")

(* Reading the base: the first page that is not there decides.             *)
BaseRead(p, n) ==
  LET lost == {a \in p..(p + n - 1) :
                 a \div Block \notin DOMAIN base \/ base[a \div Block] # "present"}
  IN IF lost = {} THEN Data([j \in 1..n |-> p + j])
     ELSE LET a == CHOOSE a \in lost : \A b \in lost : a <= b
          IN No(IF a \div Block \in DOMAIN base /\ base[a \div Block] = "absent"
                THEN "NoneObject" ELSE "None")

(* A saved hive is a plain file, that gives what it has.                   *)
FileRead(p, n) ==
  LET got == SubSeq(file, p + 1, IF p + n < Len(file) THEN p + n ELSE Len(file))
  IN IF got = <<>> THEN No("None") ELSE Data(got)

Read(p, n) == IF job.saved THEN FileRead(p, n) ELSE BaseRead(p, n)

(* The block of an address, by storage, directory and table.               *)
MapBlock(v) ==
  LET directory == (v % Volatile) \div (Block * Table)
      entry == (v \div Block) % Table
  IN ((v \div Volatile) * Volatile) + ((directory * Table + entry) * Block)

(* HiveAddressSpace.vtop.                                                  *)
HiveVtop(v) ==
  IF hive.flat THEN hive.base * Block + v + Block + SizeField
  ELSE IF MapBlock(v) \notin hive.known THEN None
  ELSE hive.at[MapBlock(v)] * Block + (v % Block) + SizeField

(* HiveFileAddressSpace.vtop.                                              *)
FileVtop(v) == v + Block + SizeField

Vtop(v) == IF job.saved THEN FileVtop(v) ELSE HiveVtop(v)
-----------------------------------------------------------------------------
(* The result of a read or of stats is kept until something else begins.   *)

(* read: the rest of the first block, full blocks, what is left over.      *)
FirstBlock == Block - (job.at % Block)
FullBlocks == ((job.len + (job.at % Block)) \div Block) - 1

\* Slip: what is left over is reckoned from the block's begin.
LeftOverAligned == job.len % Block
LeftOver == (job.at + job.len) % Block

StartRead(v, n, z, s) ==
  /\ pc = "idle"
  /\ s => file # <<>>
  /\ job' = [at |-> v, len |-> n, zero |-> z, saved |-> s, next |-> v, got |-> Data(<<>>)]
  /\ pc' = "read"
  /\ bad' = NoCount
  /\ UNCHANGED <<hive, base, block, file>>

Return(r) ==
  /\ job' = [job EXCEPT !.got = r]
  /\ pc' = "idle"
  /\ UNCHANGED <<hive, base, block, file, bad>>

Go(v, r) ==
  /\ job' = [job EXCEPT !.next = v, !.got = r]
  /\ UNCHANGED <<hive, base, pc, block, file, bad>>

(* n bytes at v, where zread pads what is missing.                         *)
Get(v, n) == IF Vtop(v) = None THEN No("None") ELSE Read(Vtop(v), n)
Piece(v, n) == IF ~IsData(Get(v, n)) /\ job.zero THEN Data(Zeros(n)) ELSE Get(v, n)

AtStart == pc = "read" /\ job.next = job.at

ReadWithin == AtStart /\ job.len < FirstBlock /\ Return(Piece(job.at, job.len))

ReadFirst ==
  /\ AtStart /\ job.len >= FirstBlock
  /\ IF Vtop(job.at) = None /\ ~job.zero THEN Return(No("None"))
     ELSE Go(job.at + FirstBlock, Piece(job.at, FirstBlock))

FullsEnd == job.at + FirstBlock + Block * FullBlocks

(* A full block that is not there ends a read.  zread makes zeros of it    *)
(* and adds them only if the map does not tell the block; if its memory    *)
(* cannot be read, the zeros are lost.                                     *)
ReadFull ==
  /\ pc = "read" /\ job.next # job.at /\ job.next < FullsEnd
  /\ LET there == Get(job.next, Block)
         sum == Add(job.got, IF Vtop(job.next) = None THEN Data(Zeros(Block)) ELSE there)
     IN IF IsData(there) \/ (job.zero /\ Vtop(job.next) = None)
        THEN IF sum.kind = "TypeError" THEN Return(sum) ELSE Go(job.next + Block, sum)
        ELSE IF job.zero THEN Go(job.next + Block, job.got) ELSE Return(No("None"))

(* What is left over is added as it comes, zread or not.                   *)
ReadRest ==
  /\ pc = "read" /\ job.next # job.at /\ job.next = FullsEnd
  /\ Return(IF LeftOver = 0 THEN job.got
            ELSE IF Vtop(job.next) # None THEN Add(job.got, Get(job.next, LeftOver))
            ELSE IF job.zero THEN Add(job.got, Data(Zeros(LeftOver)))
            ELSE No("None"))
-----------------------------------------------------------------------------
(* save: the base block, then every block, zeros where there is none.      *)
\* Slip: a block is saved from the address of its first cell's data.
BlockReadBehind(v) == IF HiveVtop(v) = None THEN No("None") ELSE BaseRead(HiveVtop(v), Block)
BlockRead(v) ==
  IF HiveVtop(v) = None THEN No("None") ELSE BaseRead(HiveVtop(v) - SizeField, Block)

\* Slip: nothing is written for a block that cannot be read.
OrNothing(r) == r.bytes
Or0(r) == IF IsData(r) THEN r.bytes ELSE Zeros(Block)

StartSave ==
  /\ pc = "idle"
  /\ file' = Or0(BaseRead(hive.base * Block, Block))
  /\ block' = 0
  /\ pc' = "save"
  /\ job' = NoJob /\ bad' = NoCount
  /\ UNCHANGED <<hive, base>>

SaveBlock ==
  /\ pc = "save" /\ block < hive.length[1] * Block
  /\ file' = file \o Or0(BlockRead(block))
  /\ block' = block + Block
  /\ UNCHANGED <<hive, base, pc, job, bad>>

EndSave ==
  /\ pc = "save" /\ block = hive.length[1] * Block
  /\ pc' = "idle" /\ block' = 0
  /\ UNCHANGED <<hive, base, job, file, bad>>

(* stats of one storage.                                                   *)
StartStats(stor) ==
  /\ pc = "idle"
  /\ bad' = [stor |-> stor, reg |-> 0, mem |-> 0]
  /\ block' = (stor - 1) * Volatile
  /\ pc' = "stats"
  /\ job' = NoJob
  /\ UNCHANGED <<hive, base, file>>

\* Slip: the last block is not looked at.
StatsEndShort == (bad.stor - 1) * Volatile + (hive.length[bad.stor] - 1) * Block
StatsEnd == (bad.stor - 1) * Volatile + hive.length[bad.stor] * Block

StatsBlock ==
  /\ pc = "stats" /\ block < StatsEnd
  /\ bad' = IF HiveVtop(block) \in {None, SizeField} THEN [bad EXCEPT !.reg = @ + 1]
            ELSE IF IsData(BlockRead(block)) THEN bad
            ELSE [bad EXCEPT !.mem = @ + 1]
  /\ block' = block + Block
  /\ UNCHANGED <<hive, base, pc, job, file>>

EndStats ==
  /\ pc = "stats" /\ block >= StatsEnd
  /\ pc' = "idle" /\ block' = 0
  /\ UNCHANGED <<hive, base, job, file, bad>>
-----------------------------------------------------------------------------
(* Reads stay within a bin, since cells do.                                *)
Within(v, n) ==
  \E b \in {hive.bin[i] : i \in DOMAIN hive.bin} :
    \A a \in {v} \cup (v + SizeField)..(v + SizeField + n - 1) :
      LET i == a - (a % Block) IN i \in DOMAIN hive.bin /\ hive.bin[i] = b

Reads == {r \in (UNION {i..(i + Block - 1) : i \in DOMAIN hive.at}) \X Lengths : Within(r[1], r[2])}

Next ==
  \/ \E r \in Reads, z, s \in BOOLEAN : StartRead(r[1], r[2], z, s)
  \/ ReadWithin \/ ReadFirst \/ ReadFull \/ ReadRest
  \/ StartSave \/ SaveBlock \/ EndSave
  \/ \E stor \in 1..2 : StartStats(stor)
  \/ StatsBlock \/ EndStats

Spec == Init /\ [][Next]_vars
-----------------------------------------------------------------------------
TypeOK ==
  /\ hive \in Hives /\ base \in Bases
  /\ pc \in {"idle", "read", "save", "stats"}
  /\ job.got.kind \in {"data", "None", "NoneObject", "TypeError"}
  /\ pc = "read" => job.next \in {job.at} \cup (job.at + FirstBlock)..FullsEnd
  /\ block \in Nat
  /\ file \in Seq(Nat)
  /\ pc = "save" => Len(file) = Block + block
  /\ bad \in [stor : 0..2, reg : Nat, mem : Nat]

(* What the hive has at an address, as its bins lie in memory.             *)
ByteAt(a) == hive.at[a - (a % Block)] * Block + (a % Block) + 1
CellData(v, n) == [j \in 1..n |-> ByteAt(v + SizeField + j - 1)]

(* Has a full block of the read no memory?                                 *)
FullLost ==
  \E i \in 0..(FullBlocks - 1) :
    LET v == job.at + FirstBlock + i * Block IN Vtop(v) # None /\ ~IsData(Get(v, Block))

(* Does the map tell what is left over behind the full blocks, but has it  *)
(* no memory?                                                              *)
RestLost ==
  /\ job.len >= FirstBlock /\ LeftOver > 0
  /\ Vtop(FullsEnd) # None /\ ~IsData(Get(FullsEnd, LeftOver))

(* A read of cell data within a bin gives exactly this data or fails.  It  *)
(* does not fail where the map tells every block and the memory is there.  *)
(* zread fails only, and always, where what is left over is told by the    *)
(* map but cannot be read (hive.py:145).  Else it gives as many bytes, in  *)
(* their places, with zeros for those that are missing, except that it     *)
(* skips a full block whose memory cannot be read (hive.py:130).  So do a  *)
(* hive of several tables, a flat one, and both storages.                  *)
ReadExact ==
  pc = "idle" /\ ~job.saved =>
    LET right == CellData(job.at, job.len)
        got == job.got.bytes
    IN /\ IsData(job.got) /\ ~job.zero => got = right
       /\ job.zero => (IsData(job.got) <=> ~RestLost)
       /\ job.zero /\ ~RestLost /\ ~FullLost =>
            Len(got) = job.len /\ \A j \in DOMAIN got : got[j] \in {right[j], 0}
       /\ (/\ \A a \in {job.at} \cup job.at..(job.at + job.len - 1) : HiveVtop(a) # None
           /\ IsData(BaseRead(HiveVtop(job.at), job.len))) => job.got = Data(right)

(* A saved hive, read as a file, gives at every address of the stable      *)
(* storage what the hive in memory has there, zeros for the blocks that    *)
(* were not there, and never breaks off.                                   *)
SavedReadsSame ==
  pc = "idle" /\ job.saved /\ job.at < Volatile =>
    job.got = Data([j \in 1..job.len |->
                      LET a == job.at + SizeField + j - 1
                      IN IF IsData(BlockRead(a - (a % Block))) THEN ByteAt(a) ELSE 0])

(* stats counts as bad the blocks that save fills with zeros.              *)
StatsMatchSave ==
  pc = "idle" /\ bad.stor = 1 /\ file # <<>> =>
    bad.reg + bad.mem =
      Cardinality({i \in 1..hive.length[1] : SubSeq(file, i * Block + 1, (i + 1) * Block) = Zeros(Block)})
=============================================================================
