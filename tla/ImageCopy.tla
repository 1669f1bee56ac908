----------------------------- MODULE ImageCopy -----------------------------
(***************************************************************************)
(* Conversion of memory images.  An image of any format is opened as a     *)
(* list of runs (crash.py, lime.py, vboxelf.py, macho.py, vmware.py), as a *)
(* plain file (standard.py) or as the section of an HPAK file (hpak.py).   *)
(* imagecopy walks the ranges the address space reports, block by block,   *)
(* and writes each block at its physical address; raw2dmp puts a crash     *)
(* dump header before the same and then patches a processor context in the *)
(* new dump.  hpakextract is the third way to a raw image.                 *)
(*                                                                         *)
(* A byte is named by where it comes from: p + 1 is the byte of the source *)
(* file at p, ZERO a pad byte or a hole of the new file.                   *)
(***************************************************************************)
EXTENDS Integers, Sequences

CONSTANTS
  Sources,     \* images: [format, segs, fsize]
  BlockSizes,  \* values of BLOCKSIZE
  Page,        \* 0x1000
  HeaderPages, \* headerpages of the crash dump
  LimeHeader,  \* size of a lime_header
  OutSize,     \* bound: places in the new file that are looked at
  None

HeaderLen == HeaderPages * Page
Place == 0..(OutSize - 1)

ZERO == 0
HEADER == -1
CONTEXT == -2
Byte == Nat \cup {HEADER, CONTEXT}

Jobs == {"copy", "dump", "extract"}
Run == [start : Nat, off : Nat, len : Nat]
-----------------------------------------------------------------------------
(***************************************************************************)
(* Opening an image: the runs each format gives, as (physical address,     *)
(* offset in the file, length).                                            *)
(***************************************************************************)
RawRuns(s) == << [start |-> 0, off |-> 0, len |-> s.fsize] >>

(* HPAK reports the size of the whole file. *)
HpakRuns(s) == << [start |-> 0, off |-> s.segs[1], len |-> s.fsize] >>

(* The pages of a crash dump's runs follow each other behind the header. *)
CrashRuns(s) ==
  LET first[i \in DOMAIN s.segs] ==
        IF i = 1 THEN HeaderPages ELSE first[i - 1] + s.segs[i - 1].count
  IN [i \in DOMAIN s.segs |->
        [start |-> s.segs[i].base * Page, off |-> first[i] * Page,
         len |-> s.segs[i].count * Page]]

\* Slip: end is taken for the address behind the segment.
LimeRunsHalfOpen(s) ==
  LET from[o \in 0..s.fsize] ==
        IF o \notin DOMAIN s.segs THEN <<>>
        ELSE LET run == [start |-> s.segs[o].start, off |-> o + LimeHeader,
                         len |-> s.segs[o].end - s.segs[o].start]
                 next == run.off + run.len
             IN <<run>> \o (IF next <= s.fsize THEN from[next] ELSE <<>>)
  IN from[0]
(* LiME: a header before every segment, until there is none.  segs maps    *)
(* offsets in the file to the headers there.                               *)
LimeRuns(s) ==
  LET from[o \in 0..s.fsize] ==
        IF o \notin DOMAIN s.segs THEN <<>>
        ELSE LET run == [start |-> s.segs[o].start, off |-> o + LimeHeader,
                         len |-> s.segs[o].end - s.segs[o].start + 1]
                 next == run.off + run.len
             IN <<run>> \o (IF next <= s.fsize THEN from[next] ELSE <<>>)
  IN from[0]

(* ELF, Mach-O and VMware files list their segments. *)
Runs(s) ==
  CASE s.format = "raw"   -> RawRuns(s)
    [] s.format = "hpak"  -> HpakRuns(s)
    [] s.format = "crash" -> CrashRuns(s)
    [] s.format = "lime"  -> LimeRuns(s)
    [] s.format = "list"  -> s.segs

Within(r, a) == r.start <= a /\ a < r.start + r.len

(* AbstractRunBasedMemory.translate: the first run that holds a, unless a  *)
(* run that begins behind a comes before it.                               *)
Translate(rs, a) ==
  LET stops == {i \in DOMAIN rs : Within(rs[i], a) \/ a < rs[i].start}
      holders == {i \in stops : Within(rs[i], a) /\ \A j \in stops : i <= j}
  IN IF holders = {} THEN None
     ELSE LET i == CHOOSE h \in holders : TRUE
          IN rs[i].off + (a - rs[i].start)

(* LiME takes an address below its first segment as an offset from there.  *)
Offset(s, a) ==
  LET first == Runs(s)[1].start
  IN Translate(Runs(s), IF s.format = "lime" /\ a < first THEN first + a ELSE a)

\* Slip: the end of the file is not looked at.
AvailableBlind(s, a) ==
  LET p == Offset(s, a) IN IF p # None THEN p + 1 ELSE None
(* What can be read at a; None where the file ends before. *)
Available(s, a) ==
  LET p == Offset(s, a)
  IN IF p # None /\ p < s.fsize THEN p + 1 ELSE None

(* _read gives up at the first byte it cannot get; only HPAK hands a short *)
(* answer of the file through.                                             *)
Readable(s, a, n) ==
  IF s.format = "hpak" THEN Available(s, a) # None
  ELSE \A j \in 0..(n - 1) : Available(s, a + j) # None

ASSUME PlaceAssumption ==
  /\ Page \in Nat \ {0} /\ HeaderPages \in Nat /\ OutSize \in Nat
  /\ BlockSizes \subseteq Nat \ {0}
  /\ None \notin Int

(* An empty run would leave calculate_alloc_stats with an alignment of 0   *)
(* and no run readable.                                                    *)
ASSUME SourceAssumption ==
  \A s \in Sources :
    /\ s.fsize \in Nat
    /\ Runs(s) \in Seq(Run) /\ Runs(s) # <<>>
    /\ \A i \in DOMAIN Runs(s) :
         /\ Runs(s)[i].len > 0
         /\ Runs(s)[i].start + Runs(s)[i].len <= OutSize - HeaderLen
-----------------------------------------------------------------------------
VARIABLES
  src,    \* the image
  job,    \* imagecopy, raw2dmp or hpakextract
  bsize,  \* BLOCKSIZE
  old,    \* was there a file of the new one's name, of more than a byte?
  pc,     \* "start", "refused", "body", "patch", "done" or "error"
  k,      \* the range being copied
  at,     \* the address of the next block
  pages,  \* NumberOfPages in the header of the new dump
  out     \* the new file, ZERO where nothing has been written

vars == <<src, job, bsize, old, pc, k, at, pages, out>>

runs == Runs(src)
RunEnd(r) == r.start + r.len
Base == IF job = "dump" THEN HeaderLen ELSE 0

Init ==
  /\ src \in Sources /\ job \in Jobs /\ bsize \in BlockSizes /\ old \in BOOLEAN
  /\ job = "extract" => src.format = "hpak"
  /\ pc = "start"
  /\ k = 1 /\ at = runs[1].start
  /\ pages = 0
  /\ out = [q \in Place |-> ZERO]

(* "Refusing to overwrite an existing file", or raw2dmp finds no kernel in *)
(* the source.                                                             *)
Refuse ==
  /\ pc = "start" /\ job # "extract"
  /\ old \/ job = "dump"
  /\ pc' = "refused"
  /\ UNCHANGED <<src, job, bsize, old, k, at, pages, out>>

BeginCopy ==
  /\ pc = "start" /\ job = "copy" /\ ~old
  /\ pc' = "body"
  /\ UNCHANGED <<src, job, bsize, old, k, at, pages, out>>

(* One run that reaches from 0 to the end of the last one of the source. *)
\* Slip: the sum of all runs, as it was once.
DumpPagesSum ==
  LET sum[i \in 0..Len(runs)] == IF i = 0 THEN 0 ELSE sum[i - 1] + runs[i].len
  IN sum[Len(runs)] \div Page
DumpPages == RunEnd(runs[Len(runs)]) \div Page

BeginDump ==
  /\ pc = "start" /\ job = "dump" /\ ~old
  /\ pages' = DumpPages
  /\ out' = [q \in Place |-> IF q < HeaderLen THEN HEADER ELSE out[q]]
  /\ pc' = "body"
  /\ UNCHANGED <<src, job, bsize, old, k, at>>

(* The call of convert_to_raw makes a generator, which nobody asks for     *)
(* anything; "Done." is printed.                                           *)
Extract ==
  /\ pc = "start" /\ job = "extract"
  /\ pc' = "done"
  /\ UNCHANGED <<src, job, bsize, old, k, at, pages, out>>

BlockLength ==
  LET left == RunEnd(runs[k]) - at
  IN IF bsize < left THEN bsize ELSE left

(* What a block puts at each place: zread pads, read does not. *)
Written(n) ==
  [q \in Place |->
     LET a == q - Base
     IN IF a < at \/ at + n <= a THEN out[q]
        ELSE IF Available(src, a) # None THEN Available(src, a)
        ELSE IF job = "copy" THEN ZERO ELSE out[q]]

\* Slip: imagecopy uses read.
CopyBlockRead ==
  /\ pc = "body" /\ k <= Len(runs) /\ at < RunEnd(runs[k])
  /\ Readable(src, at, BlockLength)
  /\ out' = Written(BlockLength)
  /\ at' = at + bsize
  /\ UNCHANGED <<src, job, bsize, old, pc, k, pages>>
CopyBlock ==
  /\ pc = "body" /\ k <= Len(runs) /\ at < RunEnd(runs[k])
  /\ job = "dump" => Readable(src, at, BlockLength)
  /\ out' = Written(BlockLength)
  /\ at' = at + bsize
  /\ UNCHANGED <<src, job, bsize, old, pc, k, pages>>

(* "Error when reading from address space". *)
BlockFails ==
  /\ pc = "body" /\ k <= Len(runs) /\ at < RunEnd(runs[k])
  /\ job = "dump" /\ ~Readable(src, at, BlockLength)
  /\ pc' = "error"
  /\ UNCHANGED <<src, job, bsize, old, k, at, pages, out>>

\* Slip: the address goes on from the range before.
NextRangeOn ==
  /\ pc = "body" /\ k <= Len(runs) /\ at >= RunEnd(runs[k])
  /\ k' = k + 1
  /\ at' = at
  /\ UNCHANGED <<src, job, bsize, old, pc, pages, out>>
NextRange ==
  /\ pc = "body" /\ k <= Len(runs) /\ at >= RunEnd(runs[k])
  /\ k' = k + 1
  /\ at' = IF k' <= Len(runs) THEN runs[k'].start ELSE at
  /\ UNCHANGED <<src, job, bsize, old, pc, pages, out>>

BodyDone ==
  /\ pc = "body" /\ k > Len(runs)
  /\ pc' = IF job = "dump" THEN "patch" ELSE "done"
  /\ UNCHANGED <<src, job, bsize, old, k, at, pages, out>>

(* The new dump, opened. *)
DumpRuns == << [start |-> 0, off |-> HeaderLen, len |-> pages * Page] >>

(* The context of the first processor lies somewhere in the dump. *)
PatchContext(a) ==
  /\ pc = "patch" /\ Translate(DumpRuns, a) # None
  /\ out' = [out EXCEPT ![Translate(DumpRuns, a)] = CONTEXT]
  /\ pc' = "done"
  /\ UNCHANGED <<src, job, bsize, old, k, at, pages>>

(* No kernel is found in the new dump. *)
PatchFails ==
  /\ pc = "patch"
  /\ pc' = "error"
  /\ UNCHANGED <<src, job, bsize, old, k, at, pages, out>>

Next ==
  \/ Refuse \/ BeginCopy \/ BeginDump \/ Extract
  \/ CopyBlock \/ BlockFails \/ NextRange \/ BodyDone
  \/ \E a \in Place : PatchContext(a)
  \/ PatchFails

Spec == Init /\ [][Next]_vars /\ WF_vars(Next)
-----------------------------------------------------------------------------
(* The new file stays within its bound, and the copy within the ranges.    *)
TypeOK ==
  /\ src \in Sources /\ job \in Jobs /\ bsize \in BlockSizes /\ old \in BOOLEAN
  /\ pc \in {"start", "refused", "body", "patch", "done", "error"}
  /\ k \in 1..(Len(runs) + 1)
  /\ at \in Nat /\ (k <= Len(runs) => runs[k].start <= at)
  /\ pages \in Nat
  /\ out \in [Place -> Byte]

(* The runs ascend and do not overlap ("Stores an ordered list of the      *)
(* segments or runs", addrspace.py:271).                                   *)
Ordered == \A i, j \in DOMAIN runs : i < j => RunEnd(runs[i]) <= runs[j].start

(* The byte that run r of the file holds for a. *)
Held(r, a) ==
  LET p == r.off + (a - r.start) IN IF p < src.fsize THEN p + 1 ELSE None

Kept(r, a) == IF Held(r, a) = None THEN ZERO ELSE Held(r, a)

(* A finished copy holds at every address of every run what the file holds *)
(* for it, zero where the file is too short, and nothing else.             *)
CopyFaithful ==
  pc = "done" /\ job = "copy" /\ Ordered =>
    \A q \in Place :
      /\ \A i \in DOMAIN runs : Within(runs[i], q) => out[q] = Kept(runs[i], q)
      /\ (\A i \in DOMAIN runs : ~Within(runs[i], q)) => out[q] = ZERO

(* A LiME file as it is written: headers and segments follow each other,   *)
(* from 0 on, and the segments ascend.                                     *)
LimeSize(o) == src.segs[o].end - src.segs[o].start + 1
LimeLaid ==
  /\ src.format = "lime"
  /\ \A o \in DOMAIN src.segs \ {0} :
       \E h \in DOMAIN src.segs : o = h + LimeHeader + LimeSize(h)
  /\ \A h, o \in DOMAIN src.segs : h < o => src.segs[h].end < src.segs[o].start

(* A finished copy of a LiME file holds every segment that has a header,   *)
(* from its start to its end, both included, with what the file holds      *)
(* right behind the header, and nothing elsewhere: parse_lime has followed *)
(* the headers to the last, and taken none of them for memory.             *)
SegmentsCopied ==
  pc = "done" /\ job = "copy" /\ LimeLaid =>
    \A q \in Place :
      LET telling == {o \in DOMAIN src.segs : q \in src.segs[o].start..src.segs[o].end}
          bytes == {o + LimeHeader + (q - src.segs[o].start) + 1 : o \in telling}
      IN {out[q]} = IF bytes # {} /\ (\A b \in bytes : b <= src.fsize) THEN bytes ELSE {ZERO}

(* A finished dump, opened again, gives for every address of the source's  *)
(* whole pages the byte of the source, also behind holes, or the patched   *)
(* context; there was no byte that the file did not have, except behind    *)
(* the end of an HPAK file, whose size is given as that of its section.    *)
DumpFaithful ==
  pc = "done" /\ job = "dump" /\ Ordered =>
    \A i \in DOMAIN runs : \A a \in runs[i].start..(RunEnd(runs[i]) - 1) :
      IF Held(runs[i], a) = None THEN src.format = "hpak"
      ELSE a \div Page < RunEnd(runs[Len(runs)]) \div Page =>
             LET q == Translate(DumpRuns, a)
             IN q # None /\ out[q] \in {CONTEXT, Held(runs[i], a)}

(* An imagecopy that is not refused ends with the copy made, and every     *)
(* raw2dmp ends.                                                           *)
CopyEnds ==
  /\ (job = "copy" /\ ~old) ~> pc = "done"
  /\ <>(pc \in {"done", "refused", "error"})
=============================================================================
