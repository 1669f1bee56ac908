------------------------- MODULE DiscreteAllocMemory -------------------------
(***************************************************************************)
(* Chunked access to a discontiguous address space.                        *)
(*                                                                         *)
(* AbstractDiscreteAllocMemory._read (addrspace.py) serves read and zread; *)
(* AbstractWritablePagedMemory.write (paged.py) serves write.  Each cuts a *)
(* request into chunks, translates the first address of every chunk and    *)
(* asks the base address space for the whole chunk at once.  The base is   *)
(* the FileAddressSpace of standard.py, at the bottom of every stack.      *)
(*                                                                         *)
(* A byte is represented by a number that tells where it comes from:       *)
(* ImageByte(p) is what the image holds at physical address p,             *)
(* NewByte(v) what a caller writes at virtual address v, ZERO a pad byte.  *)
(* Two kinds of space are served: paging spaces, whose vtop is a function  *)
(* from Translations, and spaces over the runs of a file format            *)
(* (AbstractRunBasedMemory), which compute their own alignment.  The space *)
(* is chosen in Init, the callers' requests in Call; one action is one     *)
(* iteration of the loop.                                                  *)
(***************************************************************************)
EXTENDS Integers, Sequences, FiniteSetsExt

CONSTANTS
    PageSize,       \* alignment_gcd of the paging classes
    VSize,          \* callers ask for virtual addresses 0 .. VSize - 1
    FSize,          \* self.fsize, the file's size in bytes when it was opened
    Translations,   \* the functions that vtop may compute
    RunLists,       \* the lists of runs a header may give
    Lengths,        \* the lengths callers ask for
    MaxCalls,       \* bound: calls made in one behaviour
    WriteEnabled,   \* config.WRITE
    None            \* Python's None and NoneObject

VAddr == 0 .. VSize - 1

ASSUME PageSizeAssumption == PageSize \in Nat \ {0}

\* The virtual addresses are those of whole pages.
ASSUME SizeAssumption == VSize \in Nat /\ FSize \in Nat /\ VSize % PageSize = 0

ASSUME LengthAssumption == Lengths \subseteq Nat /\ MaxCalls \in Nat

ASSUME WriteAssumption == WriteEnabled \in BOOLEAN

ASSUME NoneAssumption ==
    /\ None \notin Nat /\ None \notin Seq(Nat)

\* A paging space keeps the offset in a page: inside one page the translation
\* is linear, or the whole page is absent.
ASSUME TranslationAssumption ==
    \A t \in Translations :
        /\ t \in [VAddr -> Nat \cup {None}]
        /\ \A v \in VAddr, k \in 0 .. PageSize - 1 :
               (v % PageSize) + k < PageSize /\ v + k \in VAddr =>
                   t[v + k] = IF t[v] = None THEN None ELSE t[v] + k

\* Of runs nothing is assumed, not even that they are sorted or apart.  (LiME
\* moves low addresses before it translates: see ImageCopy.)
Run == [addr : Nat, offset : Nat, len : Nat]

ASSUME RunsAssumption == \A runs \in RunLists : runs \in Seq(Run) /\ runs # <<>>

PagedSpaces == [paged : {TRUE}, vtop : Translations]
RunSpaces   == [paged : {FALSE}, runs : RunLists]

ZERO         == 0
ImageByte(p) == 1 + p
NewByte(v)   == 1 + FSize + v
Byte         == Nat

Ops == {"read", "zread", "write"}

VARIABLES
    space,      \* the address space
    mem,        \* contents of the image file, byte p at index p + 1
    pc,         \* "idle", "loop" or "done"
    call,       \* the arguments: op, addr, length
    position,   \* next virtual address to serve
    remaining,  \* bytes still to serve
    buff,       \* bytes read so far
    result,     \* what the last call returned ("buff" for buff) or raised
    calls       \* calls started

vars == <<space, mem, pc, call, position, remaining, buff, result, calls>>

------------------------------------------------------------------------------
(* The base: FileAddressSpace.                                             *)

Minimum(a, b) == IF a <= b THEN a ELSE b
Maximum(a, b) == IF a <= b THEN b ELSE a

Zeros(n) == [i \in 1 .. n |-> ZERO]

\* is_valid_address: only the first byte of a chunk is ever tested, against
\* the size the file had when it was opened.
BaseValid(p) == p < FSize

\* read: a read that reaches the end of the file comes back short.
FileRead(p, n) == [i \in 1 .. Minimum(n, Len(mem) - p) |-> mem[p + i]]

\* zread: the missing tail is filled with zeros.
FileZread(p, n) ==
    [i \in 1 .. n |-> IF p + i <= Len(mem) THEN mem[p + i] ELSE ZERO]

\* write: seek and write; past its end the file grows, with a hole of zeros.
FileWrite(p, data) ==
    [q \in 1 .. Maximum(Len(mem), p + Len(data)) |->
        IF p < q /\ q <= p + Len(data) THEN data[q - p]
        ELSE IF q <= Len(mem) THEN mem[q] ELSE ZERO]

------------------------------------------------------------------------------
(* The chunk the loop is about to serve.                                   *)

\* translate: the first run that ends behind the address is the one it is in,
\* or the one that makes the loop return early.
Ending(runs, v) == {n \in DOMAIN runs : v < runs[n].addr + runs[n].len}

RunTranslate(runs, v) ==
    IF Ending(runs, v) = {} THEN None
    ELSE LET run == runs[Min(Ending(runs, v))]
         IN  IF v >= run.addr THEN run.offset + (v - run.addr) ELSE None

Translate(v) ==
    IF space.paged THEN IF v \in VAddr THEN space.vtop[v] ELSE None
    ELSE RunTranslate(space.runs, v)

\* calculate_alloc_stats: the greatest number that divides the length of the
\* shortest run and the addresses of all; their other lengths do not count.
MinimumSize(runs) == Min({runs[n].len : n \in DOMAIN runs})

\* Slip: the addresses do not count either.
DivisorsOfLength(runs) ==
    {d \in 1 .. MinimumSize(runs) : MinimumSize(runs) % d = 0}
CommonDivisors(runs) ==
    {d \in 1 .. MinimumSize(runs) :
        /\ MinimumSize(runs) % d = 0
        /\ \A n \in DOMAIN runs : runs[n].addr % d = 0}

AlignmentGcd(runs) ==
    IF MinimumSize(runs) = 0 THEN 0 ELSE Max(CommonDivisors(runs))

Gcd == IF space.paged THEN PageSize ELSE AlignmentGcd(space.runs)

\* Slip: the offset inside the block is forgotten.
AllocRemainingWhole == Gcd

\* alloc_remaining is computed from addr, the start of the request.
AllocRemaining == Gcd - (call.addr % Gcd)

DataLen == Minimum(remaining, AllocRemaining)

NewData(v, n) == [i \in 1 .. n |-> NewByte(v + i - 1)]

\* The bytes a read or zread gets for the current chunk, None if absent.
ChunkData ==
    LET paddr == Translate(position)
    IN  IF paddr # None /\ BaseValid(paddr)
        THEN IF call.op = "zread" THEN FileZread(paddr, DataLen)
                                  ELSE FileRead(paddr, DataLen)
        ELSE IF call.op = "zread" THEN Zeros(DataLen) ELSE None

------------------------------------------------------------------------------
Init ==
    /\ space \in PagedSpaces \cup RunSpaces
    /\ mem = [q \in 1 .. FSize |-> ImageByte(q - 1)]
    /\ pc = "idle"
    /\ call = [op |-> "read", addr |-> 0, length |-> 0]
    /\ position = 0
    /\ remaining = 0
    /\ buff = <<>>
    /\ result = "pending"
    /\ calls = 0

\* A write is refused without the option, and spaces over runs have none (but
\* for crash dumps, see PatchContext of ImageCopy).
Refused(op) == op = "write" /\ (~WriteEnabled \/ ~space.paged)

\* A plugin calls read(addr, length), zread(addr, length) or
\* write(addr, buf) with a buffer of that length.
Call(op, addr, length) ==
    /\ pc \in {"idle", "done"}
    /\ calls < MaxCalls
    /\ calls' = calls + 1
    /\ call' = [op |-> op, addr |-> addr, length |-> length]
    /\ position' = addr
    /\ remaining' = length
    /\ buff' = <<>>
    /\ IF Refused(op)
       THEN pc' = "done" /\ result' = IF WriteEnabled THEN "NotImplementedError" ELSE "False"
       ELSE pc' = "loop" /\ result' = "pending"
    /\ UNCHANGED <<space, mem>>

\* Slip: the remainder shrinks by a block, not by the chunk.
AdvanceByBlock(n) ==
    /\ position' = position + n
    /\ remaining' = remaining - Gcd

Advance(n) ==
    /\ position' = position + n
    /\ remaining' = remaining - n

Finish(r) ==
    /\ pc' = "done"
    /\ result' = r

\* One iteration of the loop of _read.  Python raises AssertionError when
\* the buffer and the position disagree after a short read of the base.
ReadChunk ==
    /\ pc = "loop" /\ call.op # "write" /\ remaining > 0 /\ Gcd # 0
    /\ IF ChunkData = None
       THEN /\ Finish("None")
            /\ UNCHANGED <<position, remaining, buff>>
       ELSE /\ buff' = buff \o ChunkData
            /\ Advance(DataLen)
            /\ IF Len(buff') = position' - call.addr
               THEN UNCHANGED <<pc, result>>
               ELSE Finish("AssertionError")
    /\ UNCHANGED <<space, mem, call, calls>>

\* A run of length 0 leaves an alignment of 0, and addr % 0 raises.
DivisionByZero ==
    /\ pc = "loop" /\ remaining > 0 /\ Gcd = 0
    /\ Finish("ZeroDivisionError")
    /\ UNCHANGED <<space, mem, call, position, remaining, buff, calls>>

\* One iteration of the loop of write.
WriteChunk ==
    /\ pc = "loop" /\ call.op = "write" /\ remaining > 0
    /\ LET paddr == Translate(position)
       IN  IF paddr = None
           THEN /\ Finish("False")
                /\ UNCHANGED <<mem, position, remaining>>
           ELSE /\ mem' = FileWrite(paddr, NewData(position, DataLen))
                /\ Advance(DataLen)
                /\ UNCHANGED <<pc, result>>
    /\ UNCHANGED <<space, call, buff, calls>>

\* The base raises IOError while writing a chunk, which its write turns into
\* False: a part of this chunk is stored, and what was stored before stays.
WriteFails ==
    /\ pc = "loop" /\ call.op = "write" /\ remaining > 0
    /\ Translate(position) # None
    /\ \E n \in 0 .. DataLen :
           mem' = IF n = 0 THEN mem
                  ELSE FileWrite(Translate(position), NewData(position, n))
    /\ Finish("False")
    /\ UNCHANGED <<space, call, position, remaining, buff, calls>>

\* The loop ends: return buff, or True.
Return ==
    /\ pc = "loop" /\ remaining = 0
    /\ Finish(IF call.op = "write" THEN "True" ELSE "buff")
    /\ UNCHANGED <<space, mem, call, position, remaining, buff, calls>>

Next ==
    \/ \E op \in Ops, a \in VAddr, n \in Lengths : Call(op, a, n)
    \/ ReadChunk
    \/ DivisionByZero
    \/ WriteChunk
    \/ WriteFails
    \/ Return

Spec == Init /\ [][Next]_vars

------------------------------------------------------------------------------
(* What a caller may rely on.                                              *)

Outcome == {"pending", "None", "True", "False", "buff",
            "AssertionError", "NotImplementedError", "ZeroDivisionError"}

TypeOK ==
    /\ space \in PagedSpaces \cup RunSpaces
    /\ mem \in Seq(Byte) /\ Len(mem) >= FSize
    /\ pc \in {"idle", "loop", "done"}
    /\ call \in [op : Ops, addr : Nat, length : Nat]
    /\ position \in Nat /\ remaining \in Nat
    /\ buff \in Seq(Byte)
    /\ result \in Outcome
    /\ pc = "loop" => result = "pending" /\ ~Refused(call.op)
    /\ calls \in 0 .. MaxCalls

\* The virtual addresses the current call is about.
Requested == call.addr .. call.addr + call.length - 1

\* The blocks of Gcd bytes are whole: each is in a run, or outside all.  So it
\* is if every length, and not the shortest alone, is a multiple.
BlocksWhole ==
    ~space.paged => Gcd # 0 /\ \A n \in DOMAIN space.runs : space.runs[n].len % Gcd = 0

\* Where the chunk of v begins, for a call that stays inside blocks.
ChunkStart(v) == Maximum(call.addr, v - (v % Gcd))

\* v is mapped, into a chunk whose first byte the file had when it was opened.
Mapped(v) == Translate(v) # None /\ BaseValid(Translate(ChunkStart(v)))

\* And the file has the byte now.
Backed(v) == Mapped(v) /\ Translate(v) < Len(mem)

\* Every chunk after the first starts on a boundary and has the length of the
\* first, so a chunk is certain to stay inside one block only when the call
\* starts on a boundary or is served in two chunks.
StaysInside ==
    call.addr % Gcd = 0 \/ call.length <= 2 * AllocRemaining

\* What the image holds for the current call's range, zeros where nothing is.
Stored ==
    [i \in 1 .. call.length |->
        LET v == call.addr + i - 1
        IN  IF Backed(v) THEN mem[Translate(v) + 1] ELSE ZERO]

Done(op) == pc = "done" /\ call.op = op

\* The assert statements at the end of each iteration of _read and of write:
\* addr + length == position + remaining, and position - addr == len(buff).
LoopAssertions ==
    pc # "idle" /\ ~Refused(call.op) =>
        /\ call.addr + call.length = position + remaining
        /\ call.op # "write" /\ result # "AssertionError" =>
               Len(buff) = position - call.addr

\* read returns the bytes of its range, each through its own translation, for
\* requests that stay inside whole blocks, whether pages or what is left of runs
\* by calculate_alloc_stats.  If one is unavailable it gives no bytes:
\* None when the first such byte begins a chunk or is not mapped (the docstring
\* of read), an AssertionError when the file ends inside the chunk.  zread always
\* gives as many bytes as asked, zeros where a byte is unavailable (its docstring).
ReadExact ==
    /\ Done("read") /\ BlocksWhole /\ StaysInside =>
        IF \A v \in Requested : Backed(v)
        THEN result = "buff" /\ buff = Stored
        ELSE \E v \in Requested :
                 /\ ~Backed(v) /\ \A w \in Requested : w < v => Backed(w)
                 /\ result = IF Mapped(v) THEN "AssertionError" ELSE "None"
    /\ Done("zread") /\ BlocksWhole /\ StaysInside => result = "buff" /\ buff = Stored

\* A write that stays inside blocks touches no byte of the image but those its
\* own range maps to, and puts there what the caller passed for them; where the
\* file grows over a gap, the gap is zero.
WriteConfined ==
    [][BlocksWhole /\ StaysInside =>
          \A q \in DOMAIN mem' :
              mem'[q] # (IF q \in DOMAIN mem THEN mem[q] ELSE ZERO) =>
              \E v \in Requested : Translate(v) = q - 1 /\ mem'[q] = NewByte(v)]_mem

\* The code reads and writes whatever the length: what ReadExact
\* says, said of every request.
ReadReturnsRange ==
    Done("read") /\ result # "AssertionError" =>
        IF \A v \in Requested : Backed(v)
        THEN result = "buff" /\ buff = Stored
        ELSE result = "None"
==============================================================================
