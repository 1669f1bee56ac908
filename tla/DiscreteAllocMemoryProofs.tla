---------------------- MODULE DiscreteAllocMemoryProofs ----------------------
(***************************************************************************)
(* Proofs about DiscreteAllocMemory, for every page size, address space    *)
(* size, image size, translation and list of runs.                         *)
(*                                                                         *)
(* The asserts at the end of each iteration hold between calls too, so the *)
(* invariant is TypeOK and LoopAssertions together: TypeOK needs           *)
(* remaining >= 0, which DataLen <= remaining gives, and LoopAssertions    *)
(* needs the lengths of the chunks, which TypeOK makes sequences.          *)
(*                                                                         *)
(* ReadExact and WriteConfined need more. Progress says that the buffer of *)
(* a read holds the bytes of the image so far. Cut says where a chunk      *)
(* starts: at the beginning of the call or on a boundary of the alignment, *)
(* and then, if the call is not aligned, it is the last; so no chunk       *)
(* crosses a boundary and one translation is that of all its bytes.        *)
(***************************************************************************)
EXTENDS DiscreteAllocMemory, WellFoundedInduction, SequenceTheorems, TLAPS

\* A nonempty set of natural numbers has a least element, and if it is bounded,
\* a greatest one.
LEMMA LeastNatural ==
    ASSUME NEW S \in SUBSET Nat, S # {}
    PROVE  Min(S) \in S /\ \A y \in S : Min(S) <= y
<1>. DEFINE less == OpToRel(<, Nat)
<1>1. \A x, y \in Nat : x < y => <<x, y>> \in less
  BY DEF OpToRel
<1>2. IsWellFoundedOn(less, Nat)
  BY NatLessThanWellFounded
<1>. HIDE DEF less
<1>3. PICK x \in S : \A y \in S : <<y, x>> \notin less
  BY <1>2, WFMin
<1>4. ASSUME NEW y \in S PROVE x <= y
  <2>1. x \in Nat /\ y \in Nat
    OBVIOUS
  <2>2. ~(y < x)
    BY <1>1, <1>3, <2>1
  <2>. QED
    BY <2>1, <2>2
<1>. QED
  BY <1>3, <1>4 DEF Min

LEMMA GreatestNatural ==
    ASSUME NEW top \in Nat, NEW S \in SUBSET (0 .. top), S # {}
    PROVE  Max(S) \in S /\ \A y \in S : Max(S) >= y
<1>. DEFINE below == {top - x : x \in S}
<1>1. below \in SUBSET Nat /\ below # {}
  <2>1. \A x \in S : top - x \in Nat
    OBVIOUS
  <2>. QED
    BY <2>1
<1>2. Min(below) \in below /\ \A c \in below : Min(below) <= c
  BY <1>1, LeastNatural
<1>3. PICK x \in S : Min(below) = top - x
  BY <1>2
<1>4. ASSUME NEW y \in S PROVE x >= y
  <2>1. top - x <= top - y
    BY <1>2, <1>3
  <2>. QED
    BY <2>1
<1>. QED
  BY <1>3, <1>4 DEF Max

\* What calculate_alloc_stats gives divides the addresses of all runs; it is 0
\* if the shortest has no length.
LEMMA AlignmentDivides ==
    ASSUME NEW runs \in RunLists
    PROVE  /\ AlignmentGcd(runs) \in Nat
           /\ AlignmentGcd(runs) # 0 =>
                  \A n \in DOMAIN runs : runs[n].addr % AlignmentGcd(runs) = 0
<1>1. runs \in Seq(Run) /\ runs # <<>>
  BY RunsAssumption
<1>2. \A n \in DOMAIN runs : runs[n].len \in Nat /\ runs[n].addr \in Nat
  <2>1. \A n \in DOMAIN runs : runs[n] \in Run
    BY <1>1
  <2>. QED
    BY <2>1 DEF Run
<1>. DEFINE lens == {runs[n].len : n \in DOMAIN runs}
<1>3. lens \in SUBSET Nat /\ lens # {}
  <2>1. 1 \in DOMAIN runs
    BY <1>1
  <2>. QED
    BY <1>2, <2>1
<1>4. MinimumSize(runs) \in Nat
  BY <1>3, LeastNatural DEF MinimumSize
<1>5. CASE MinimumSize(runs) = 0
  BY <1>5 DEF AlignmentGcd
<1>6. CASE MinimumSize(runs) # 0
  <2>1. 1 \in CommonDivisors(runs)
    <3>1. \A k \in Nat : k % 1 = 0
      OBVIOUS
    <3>. QED
      BY <1>2, <1>4, <1>6, <3>1 DEF CommonDivisors
  <2>2. CommonDivisors(runs) \in SUBSET (0 .. MinimumSize(runs))
    BY <1>4 DEF CommonDivisors
  <2>3. Max(CommonDivisors(runs)) \in CommonDivisors(runs)
    BY <1>4, <2>1, <2>2, GreatestNatural
  <2>. QED
    BY <1>4, <1>6, <2>3 DEF AlignmentGcd, CommonDivisors
<1>. QED
  BY <1>5, <1>6

LEMMA GcdType ==
    ASSUME TypeOK PROVE Gcd \in Nat
BY AlignmentDivides, PageSizeAssumption DEF TypeOK, Gcd, PagedSpaces, RunSpaces

\* Only paging spaces are written to, and no page is empty.
LEMMA WritesArePaged ==
    ASSUME TypeOK, pc = "loop", call.op = "write"
    PROVE  space.paged /\ Gcd # 0
BY PageSizeAssumption DEF TypeOK, Refused, Gcd, PagedSpaces, RunSpaces

\* The length of a chunk is between 1 and what is left to serve.
LEMMA DataLenBounds ==
    ASSUME TypeOK, remaining > 0, Gcd # 0
    PROVE  DataLen \in Nat /\ 0 < DataLen /\ DataLen <= remaining
<1>1. Gcd \in Nat /\ Gcd > 0
  BY GcdType
<1>2. call.addr \in Nat /\ remaining \in Nat
  BY DEF TypeOK
<1>3. call.addr % Gcd \in 0 .. Gcd - 1
  BY <1>1, <1>2
<1>4. AllocRemaining \in Nat /\ AllocRemaining > 0
  BY <1>1, <1>3 DEF AllocRemaining
<1>. QED
  BY <1>2, <1>4 DEF DataLen, Minimum

\* translate() yields a physical address or None.
LEMMA TranslateType ==
    ASSUME TypeOK, NEW v \in Nat
    PROVE  Translate(v) \in Nat \cup {None}
<1>1. CASE space.paged
  BY <1>1, TranslationAssumption DEF Translate, TypeOK, PagedSpaces, RunSpaces
<1>2. CASE ~space.paged
  <2>1. space.runs \in Seq(Run)
    BY <1>2, RunsAssumption DEF TypeOK, PagedSpaces, RunSpaces
  <2>2. CASE Ending(space.runs, v) = {}
    BY <1>2, <2>2 DEF Translate, RunTranslate
  <2>3. CASE Ending(space.runs, v) # {}
    <3>. DEFINE run == space.runs[Min(Ending(space.runs, v))]
    <3>1. Ending(space.runs, v) \in SUBSET Nat
      BY <2>1 DEF Ending
    <3>2. run \in Run
      <4>1. Min(Ending(space.runs, v)) \in Ending(space.runs, v)
        BY <2>3, <3>1, LeastNatural
      <4>2. Min(Ending(space.runs, v)) \in DOMAIN space.runs
        BY <4>1 DEF Ending
      <4>. QED
        BY <2>1, <4>2
    <3>3. v >= run.addr => run.offset + (v - run.addr) \in Nat
      BY <3>2 DEF Run
    <3>. QED
      BY <1>2, <2>3, <3>3 DEF Translate, RunTranslate
  <2>. QED
    BY <2>2, <2>3
<1>. QED
  BY <1>1, <1>2

\* A chunk read is None or a sequence of bytes; without an error it has the
\* length asked, and it is only None or short for read.
LEMMA ChunkDataType ==
    ASSUME TypeOK, remaining > 0, Gcd # 0, ChunkData # None
    PROVE  ChunkData \in Seq(Byte)
<1>1. DataLen \in Nat
  BY DataLenBounds
<1>2. Translate(position) \in Nat \cup {None}
  BY TranslateType DEF TypeOK
<1>. DEFINE paddr == Translate(position)
<1>3. ASSUME paddr # None, BaseValid(paddr)
      PROVE  FileRead(paddr, DataLen) \in Seq(Byte)
  <2>1. paddr \in Nat /\ paddr < Len(mem)
    BY <1>2, <1>3, SizeAssumption DEF BaseValid, TypeOK
  <2>2. Minimum(DataLen, Len(mem) - paddr) \in Nat
    BY <1>1, <2>1 DEF Minimum, TypeOK
  <2>3. \A i \in 1 .. Minimum(DataLen, Len(mem) - paddr) : mem[paddr + i] \in Byte
    BY <1>1, <2>1 DEF Minimum, TypeOK
  <2>. QED
    BY <2>2, <2>3 DEF FileRead
<1>4. ASSUME paddr # None, BaseValid(paddr)
      PROVE  FileZread(paddr, DataLen) \in Seq(Byte)
  <2>1. paddr \in Nat
    BY <1>2, <1>4
  <2>2. \A i \in 1 .. DataLen :
            (IF paddr + i <= Len(mem) THEN mem[paddr + i] ELSE ZERO) \in Byte
    BY <1>1, <2>1 DEF TypeOK, Byte, ZERO
  <2>. QED
    BY <1>1, <2>2 DEF FileZread
<1>5. Zeros(DataLen) \in Seq(Byte)
  BY <1>1 DEF Zeros, ZERO, Byte
<1>. QED
  BY <1>3, <1>4, <1>5 DEF ChunkData

\* What write stores is a sequence of bytes at least as long as the file.
LEMMA FileWriteType ==
    ASSUME TypeOK, NEW p \in Nat, NEW data \in Seq(Byte)
    PROVE  FileWrite(p, data) \in Seq(Byte) /\ Len(FileWrite(p, data)) >= FSize
<1>1. Len(mem) \in Nat /\ Len(data) \in Nat /\ Len(mem) >= FSize
  BY DEF TypeOK
<1>. DEFINE top == Maximum(Len(mem), p + Len(data))
<1>2. top \in Nat /\ top >= FSize
  BY <1>1, SizeAssumption DEF Maximum
<1>3. \A q \in 1 .. top :
          (IF p < q /\ q <= p + Len(data) THEN data[q - p]
           ELSE IF q <= Len(mem) THEN mem[q] ELSE ZERO) \in Byte
  BY <1>1 DEF TypeOK, Byte, ZERO
<1>. HIDE DEF top
<1>4. FileWrite(p, data) =
          [q \in 1 .. top |->
              IF p < q /\ q <= p + Len(data) THEN data[q - p]
              ELSE IF q <= Len(mem) THEN mem[q] ELSE ZERO]
  BY DEF FileWrite, top
<1>. QED
  BY <1>2, <1>3, <1>4

LEMMA NewDataType ==
    ASSUME NEW v \in Nat, NEW n \in Nat
    PROVE  NewData(v, n) \in Seq(Byte)
<1>1. \A i \in 1 .. n : NewByte(v + i - 1) \in Byte
  BY SizeAssumption DEF NewByte, Byte
<1>. QED
  BY <1>1 DEF NewData

\* Every state has the declared types: no call ever serves more than it was
\* asked for, and the image never shrinks below the size it was opened with.
THEOREM TypeCorrect == Spec => []TypeOK
<1>1. Init => TypeOK
  BY SizeAssumption, LengthAssumption
  DEF Init, TypeOK, Ops, Outcome, Byte, ImageByte
<1>2. TypeOK /\ [Next]_vars => TypeOK'
  <2>. SUFFICES ASSUME TypeOK, [Next]_vars PROVE TypeOK'
    OBVIOUS
  <2>1. ASSUME NEW op \in Ops, NEW a \in VAddr, NEW n \in Lengths, Call(op, a, n)
        PROVE  TypeOK'
    BY <2>1, LengthAssumption, SizeAssumption DEF Call, TypeOK, VAddr, Outcome, Refused
  <2>2. CASE ReadChunk
    <3>1. CASE ChunkData = None
      BY <2>2, <3>1 DEF ReadChunk, Finish, TypeOK, Outcome
    <3>2. CASE ChunkData # None
      <4>1. DataLen \in Nat /\ DataLen <= remaining /\ remaining > 0 /\ Gcd # 0
        BY <2>2, DataLenBounds DEF ReadChunk, TypeOK
      <4>2. buff' \in Seq(Byte)
        <5>1. ChunkData \in Seq(Byte)
          BY <3>2, <4>1, ChunkDataType
        <5>2. buff \in Seq(Byte) /\ buff' = buff \o ChunkData
          BY <2>2, <3>2 DEF ReadChunk, TypeOK
        <5>. QED
          BY <5>1, <5>2
      <4>3. position' \in Nat /\ remaining' \in Nat
        BY <2>2, <3>2, <4>1 DEF ReadChunk, Advance, TypeOK
      <4>4. /\ pc' \in {"idle", "loop", "done"} /\ result' \in Outcome
            /\ pc' = "loop" => result' = "pending"
        BY <2>2, <3>2 DEF ReadChunk, Finish, TypeOK, Outcome
      <4>. QED
        BY <2>2, <4>2, <4>3, <4>4 DEF ReadChunk, TypeOK, Refused
    <3>. QED
      BY <3>1, <3>2
  <2>3. CASE WriteChunk
    <3>1. CASE Translate(position) = None
      BY <2>3, <3>1 DEF WriteChunk, Finish, TypeOK, Outcome
    <3>2. CASE Translate(position) # None
      <4>1. DataLen \in Nat /\ DataLen <= remaining /\ remaining > 0
        BY <2>3, DataLenBounds, WritesArePaged DEF WriteChunk, TypeOK
      <4>2. Translate(position) \in Nat
        BY <3>2, TranslateType DEF TypeOK
      <4>3. mem' \in Seq(Byte) /\ Len(mem') >= FSize
        <5>1. NewData(position, DataLen) \in Seq(Byte)
          BY <4>1, NewDataType DEF TypeOK
        <5>. QED
          BY <2>3, <3>2, <4>2, <5>1, FileWriteType DEF WriteChunk
      <4>4. position' \in Nat /\ remaining' \in Nat
        BY <2>3, <3>2, <4>1 DEF WriteChunk, Advance, TypeOK
      <4>. QED
        BY <2>3, <3>2, <4>3, <4>4 DEF WriteChunk, TypeOK, Refused
    <3>. QED
      BY <3>1, <3>2
  <2>4. CASE WriteFails
    <3>1. DataLen \in Nat /\ Translate(position) \in Nat /\ position \in Nat
      BY <2>4, DataLenBounds, WritesArePaged, TranslateType DEF WriteFails, TypeOK
    <3>2. mem' \in Seq(Byte) /\ Len(mem') >= FSize
      <4>1. PICK n \in 0 .. DataLen :
                mem' = IF n = 0 THEN mem
                       ELSE FileWrite(Translate(position), NewData(position, n))
        BY <2>4 DEF WriteFails
      <4>2. NewData(position, n) \in Seq(Byte)
        BY <3>1, NewDataType
      <4>. QED
        BY <3>1, <4>1, <4>2, FileWriteType DEF TypeOK
    <3>. QED
      BY <2>4, <3>2 DEF WriteFails, Finish, TypeOK, Outcome
  <2>5. CASE Return
    BY <2>5 DEF Return, Finish, TypeOK, Outcome
  <2>6. CASE DivisionByZero
    BY <2>6 DEF DivisionByZero, Finish, TypeOK, Outcome, Refused
  <2>7. CASE UNCHANGED vars
    BY <2>7 DEF vars, TypeOK, Refused
  <2>. QED
    BY <2>1, <2>2, <2>3, <2>4, <2>5, <2>6, <2>7 DEF Next
<1>. QED
  BY <1>1, <1>2, PTL DEF Spec

\* The two asserts that end each iteration of _read and write hold in every
\* state of a call that has not just failed one of them.
THEOREM LoopAssertionsHold == Spec => []LoopAssertions
<1>1. Init => LoopAssertions
  BY DEF Init, LoopAssertions
<1>2. TypeOK /\ LoopAssertions /\ [Next]_vars => LoopAssertions'
  <2>. SUFFICES ASSUME TypeOK, LoopAssertions, [Next]_vars PROVE LoopAssertions'
    OBVIOUS
  <2>1. ASSUME NEW op \in Ops, NEW a \in VAddr, NEW n \in Lengths, Call(op, a, n)
        PROVE  LoopAssertions'
    BY <2>1, LengthAssumption, SizeAssumption DEF Call, LoopAssertions, VAddr, Refused
  <2>2. CASE ReadChunk
    <3>1. CASE ChunkData = None
      BY <2>2, <3>1 DEF ReadChunk, Finish, LoopAssertions, TypeOK
    <3>2. CASE ChunkData # None
      <4>1. DataLen \in Nat /\ remaining > 0
        BY <2>2, DataLenBounds DEF ReadChunk, TypeOK
      <4>2. call' = call /\ call.addr \in Nat /\ call.length \in Nat
        BY <2>2 DEF ReadChunk, TypeOK
      <4>3. call.addr + call.length = position' + remaining'
        BY <2>2, <3>2, <4>1, <4>2 DEF ReadChunk, Advance, LoopAssertions, TypeOK
      <4>4. result' # "AssertionError" => Len(buff') = position' - call.addr
        BY <2>2, <3>2 DEF ReadChunk, Finish
      <4>. QED
        BY <4>2, <4>3, <4>4 DEF LoopAssertions
    <3>. QED
      BY <3>1, <3>2
  <2>3. CASE WriteChunk
    <3>1. CASE Translate(position) = None
      BY <2>3, <3>1 DEF WriteChunk, Finish, LoopAssertions, TypeOK
    <3>2. CASE Translate(position) # None
      <4>1. DataLen \in Nat
        BY <2>3, DataLenBounds, WritesArePaged DEF WriteChunk, TypeOK
      <4>. QED
        BY <2>3, <3>2, <4>1 DEF WriteChunk, Advance, LoopAssertions, TypeOK
    <3>. QED
      BY <3>1, <3>2
  <2>4. CASE WriteFails
    BY <2>4 DEF WriteFails, Finish, LoopAssertions, TypeOK
  <2>5. CASE Return
    BY <2>5 DEF Return, Finish, LoopAssertions, TypeOK
  <2>6. CASE DivisionByZero
    BY <2>6 DEF DivisionByZero, Finish, LoopAssertions, TypeOK, Refused
  <2>7. CASE UNCHANGED vars
    BY <2>7 DEF vars, LoopAssertions, Refused
  <2>. QED
    BY <2>1, <2>2, <2>3, <2>4, <2>5, <2>6, <2>7 DEF Next
<1>. QED
  BY <1>1, <1>2, TypeCorrect, PTL DEF Spec

\* A multiple of g lies on the same side of all numbers of one block.
LEMMA SameSide ==
    ASSUME NEW g \in Nat \ {0}, NEW v \in Nat, NEW w \in Nat,
           v <= w, (v % g) + (w - v) < g,
           NEW e \in Nat, e % g = 0
    PROVE  v < e <=> w < e
<1>. DEFINE b == v \div g
            r == v % g
            q == e \div g
<1>1. v = g * b + r /\ b \in Nat /\ r \in 0 .. g - 1
  OBVIOUS
<1>2. e = g * q /\ q \in Nat
  OBVIOUS
<1>3. r + (w - v) < g
  OBVIOUS
<1>. HIDE DEF b, r, q
<1>4. CASE b < q
  <2>1. g * (b + 1) <= g * q
    BY <1>1, <1>2, <1>4
  <2>2. g * (b + 1) = g * b + g
    BY <1>1
  <2>. QED
    BY <1>1, <1>2, <1>3, <2>1, <2>2
<1>5. CASE b >= q
  <2>1. g * q <= g * b
    BY <1>1, <1>2, <1>5
  <2>. QED
    BY <1>1, <1>2, <2>1
<1>. QED
  BY <1>1, <1>2, <1>4, <1>5

LEMMA SumOfMultiples ==
    ASSUME NEW g \in Nat \ {0}, NEW a \in Nat, NEW b \in Nat, a % g = 0, b % g = 0
    PROVE  (a + b) % g = 0
<1>. DEFINE i == a \div g
            j == b \div g
<1>1. a = g * i /\ i \in Nat /\ b = g * j /\ j \in Nat
  OBVIOUS
<1>. HIDE DEF i, j
<1>2. a + b = g * (i + j) /\ i + j \in Nat
  BY <1>1
<1>. DEFINE n == i + j
<1>3. \A m \in Nat : (g * m) % g = 0
  OBVIOUS
<1>. QED
  BY <1>2, <1>3

\* What TranslationAssumption says of pages, calculate_alloc_stats brings about
\* for runs: inside a block of its alignment the translation is linear, or the
\* whole block is absent, if the lengths of all runs are multiples of it,
\* whether the runs are sorted, touch or overlap.
THEOREM RunBlocksLinear ==
    ASSUME TypeOK, BlocksWhole, ~space.paged,
           NEW v \in Nat, NEW w \in Nat, v <= w, (v % Gcd) + (w - v) < Gcd
    PROVE  Translate(w) = IF Translate(v) = None THEN None ELSE Translate(v) + (w - v)
<1>. DEFINE runs == space.runs
<1>1. runs \in RunLists /\ Gcd = AlignmentGcd(runs)
  BY DEF TypeOK, PagedSpaces, RunSpaces, Gcd
<1>2. Gcd \in Nat \ {0}
  BY GcdType DEF BlocksWhole
<1>3. \A n \in DOMAIN runs : runs[n] \in Run
  BY <1>1, RunsAssumption
<1>4. \A n \in DOMAIN runs : runs[n].addr % Gcd = 0 /\ runs[n].len % Gcd = 0
  BY <1>1, <1>2, AlignmentDivides DEF BlocksWhole
<1>. HIDE DEF runs
<1>5. ASSUME NEW n \in DOMAIN runs
      PROVE  /\ v < runs[n].addr <=> w < runs[n].addr
             /\ v < runs[n].addr + runs[n].len <=> w < runs[n].addr + runs[n].len
  <2>1. runs[n].addr \in Nat /\ runs[n].len \in Nat
    BY <1>3 DEF Run
  <2>2. (runs[n].addr + runs[n].len) % Gcd = 0
    BY <1>2, <1>4, <2>1, SumOfMultiples
  <2>3. v < runs[n].addr <=> w < runs[n].addr
    BY <1>2, <1>4, <2>1, SameSide
  <2>. DEFINE e == runs[n].addr + runs[n].len
  <2>4. e \in Nat /\ e % Gcd = 0
    BY <2>1, <2>2
  <2>. HIDE DEF e
  <2>5. v < e <=> w < e
    BY <1>2, <2>4, SameSide
  <2>. QED
    BY <2>3, <2>5 DEF e
<1>6. Ending(runs, w) = Ending(runs, v)
  BY <1>5 DEF Ending
<1>7. CASE Ending(runs, v) = {}
  BY <1>6, <1>7 DEF Translate, RunTranslate, runs
<1>8. CASE Ending(runs, v) # {}
  <2>. DEFINE at == Min(Ending(runs, v))
              addr == runs[at].addr
              offset == runs[at].offset
  <2>1. Ending(runs, v) \in SUBSET Nat
    BY <1>1, RunsAssumption DEF Ending
  <2>2. at \in DOMAIN runs
    BY <1>8, <2>1, LeastNatural DEF Ending
  <2>3. addr \in Nat /\ offset \in Nat
    BY <1>3, <2>2 DEF Run
  <2>4. v >= addr <=> w >= addr
    BY <1>5, <2>2, <2>3
  <2>5. Translate(v) = IF v >= addr THEN offset + (v - addr) ELSE None
    BY <1>8 DEF Translate, RunTranslate, runs
  <2>6. Translate(w) = IF w >= addr THEN offset + (w - addr) ELSE None
    BY <1>6, <1>8 DEF Translate, RunTranslate, runs
  <2>. HIDE DEF addr, offset
  <2>7. CASE v >= addr
    <3>1. /\ offset + (v - addr) \in Nat
          /\ offset + (w - addr) = (offset + (v - addr)) + (w - v)
      BY <2>3, <2>7
    <3>2. Translate(v) = offset + (v - addr) /\ Translate(v) # None
      BY <2>5, <2>7, <3>1, NoneAssumption
    <3>. QED
      BY <2>4, <2>6, <2>7, <3>1, <3>2
  <2>8. CASE ~(v >= addr)
    BY <2>4, <2>5, <2>6, <2>8
  <2>. QED
    BY <2>7, <2>8
<1>. QED
  BY <1>7, <1>8
-----------------------------------------------------------------------------
(***************************************************************************)
(* What a read gives and a write stores.  While a call goes on, a chunk    *)
(* starts where the call does or on a boundary of a block, so it stays in  *)
(* one block (Cut), in which the translation is linear; what has been read *)
(* so far is what the image holds for it (Progress).                       *)
(***************************************************************************)

\* The byte that the image holds for v.
ByteAt(v) == IF Backed(v) THEN mem[Translate(v) + 1] ELSE ZERO

Cut ==
    pc = "loop" /\ BlocksWhole /\ StaysInside =>
        \/ position = call.addr
        \/ remaining = 0
        \/ /\ position % Gcd = 0
           /\ call.addr % Gcd = 0 \/ remaining <= AllocRemaining

Progress ==
    pc = "loop" =>
        /\ position >= call.addr
        /\ call.op # "write" => Len(buff) = position - call.addr
        /\ call.op # "write" /\ BlocksWhole /\ StaysInside =>
               /\ \A i \in 1 .. Len(buff) : buff[i] = ByteAt(call.addr + i - 1)
               /\ call.op = "read" => \A v \in call.addr .. position - 1 : Backed(v)

\* Whole blocks are not empty.
LEMMA WholeBlocksType ==
    ASSUME TypeOK, BlocksWhole
    PROVE  Gcd \in Nat \ {0}
BY GcdType, PageSizeAssumption DEF BlocksWhole, Gcd

LEMMA RemainderOf ==
    ASSUME NEW g \in Nat \ {0}, NEW b \in Nat, NEW x \in 0 .. g - 1
    PROVE  (g * b + x) % g = x
<1>. DEFINE a == g * b + x
            d == a \div g
            m == a % g
<1>1. a \in Nat
  BY SMT
<1>2. a = g * d + m /\ d \in Nat /\ m \in 0 .. g - 1
  BY <1>1
<1>3. a = g * b + x
  OBVIOUS
<1>. HIDE DEF a, d, m
<1>4. ASSUME NEW i \in Nat, NEW j \in Nat, i < j
      PROVE  g * i + g <= g * j
  <2>1. g * (i + 1) <= g * j
    BY <1>4, SMT
  <2>2. g * (i + 1) = g * i + g
    BY SMT
  <2>. QED
    BY <2>1, <2>2
<1>5. g * d \in Nat /\ g * b \in Nat
  BY <1>2, SMT
<1>6. ~(d < b) /\ ~(b < d)
  BY <1>2, <1>3, <1>4, <1>5
<1>7. d = b
  BY <1>2, <1>6
<1>8. m = x
  BY <1>2, <1>3, <1>5, <1>7
<1>. QED
  BY <1>8 DEF m, a

\* In whole blocks, whether pages or parts of runs, the translation is linear.
LEMMA BlocksLinear ==
    ASSUME TypeOK, BlocksWhole,
           NEW v \in Nat, NEW w \in Nat, v <= w, (v % Gcd) + (w - v) < Gcd
    PROVE  Translate(w) = IF Translate(v) = None THEN None ELSE Translate(v) + (w - v)
<1>1. CASE ~space.paged
  BY <1>1, RunBlocksLinear
<1>2. CASE space.paged
  <2>1. Gcd = PageSize /\ PageSize \in Nat \ {0} /\ VSize \in Nat /\ VSize % PageSize = 0
    BY <1>2, PageSizeAssumption, SizeAssumption DEF Gcd
  <2>2. space.vtop \in Translations
    BY <1>2 DEF TypeOK, PagedSpaces, RunSpaces
  <2>3. v < VSize <=> w < VSize
    BY <2>1, SameSide
  <2>4. CASE v < VSize
    <3>1. v \in VAddr /\ w \in VAddr /\ w - v \in 0 .. PageSize - 1 /\ w = v + (w - v)
      <4>1. v % PageSize \in 0 .. PageSize - 1
        BY <2>1
      <4>. QED
        BY <2>1, <2>3, <2>4, <4>1 DEF VAddr
    <3>. DEFINE k == w - v
    <3>2. k \in 0 .. PageSize - 1 /\ (v % PageSize) + k < PageSize /\ v + k \in VAddr /\ w = v + k
      BY <2>1, <3>1
    <3>. HIDE DEF k
    <3>3. space.vtop[v + k] = IF space.vtop[v] = None THEN None ELSE space.vtop[v] + k
      BY <2>2, <3>1, <3>2, TranslationAssumption
    <3>. QED
      BY <1>2, <3>1, <3>2, <3>3 DEF Translate, k
  <2>5. CASE ~(v < VSize)
    BY <1>2, <2>1, <2>3, <2>5 DEF Translate, VAddr
  <2>. QED
    BY <2>4, <2>5
<1>. QED
  BY <1>1, <1>2

\* A chunk stays in the block it starts in.
LEMMA ChunkInBlock ==
    ASSUME TypeOK, BlocksWhole, StaysInside, Cut, pc = "loop", remaining > 0,
           NEW v \in position .. position + DataLen - 1
    PROVE  /\ v \in Nat /\ v >= position
           /\ (position % Gcd) + (v - position) < Gcd
           /\ Translate(v) = IF Translate(position) = None THEN None
                             ELSE Translate(position) + (v - position)
<1>1. Gcd \in Nat \ {0} /\ position \in Nat /\ call.addr \in Nat /\ remaining \in Nat
  BY WholeBlocksType DEF TypeOK
<1>2. DataLen \in Nat /\ DataLen <= AllocRemaining
      /\ AllocRemaining = Gcd - (call.addr % Gcd) /\ call.addr % Gcd \in 0 .. Gcd - 1
  BY <1>1, DataLenBounds DEF DataLen, Minimum, AllocRemaining
<1>3. v \in Nat /\ v >= position /\ v - position < DataLen
  BY <1>1, <1>2
<1>4. position = call.addr \/ position % Gcd = 0
  BY <1>1 DEF Cut
<1>5. (position % Gcd) + (v - position) < Gcd
  BY <1>1, <1>2, <1>3, <1>4
<1>. QED
  BY <1>1, <1>3, <1>5, BlocksLinear

\* ChunkStart tells where it starts.
LEMMA ChunkStartsThere ==
    ASSUME TypeOK, BlocksWhole, StaysInside, Cut, Progress, pc = "loop", remaining > 0,
           NEW v \in position .. position + DataLen - 1
    PROVE  ChunkStart(v) = position
<1>1. Gcd \in Nat \ {0} /\ position \in Nat /\ call.addr \in Nat /\ position >= call.addr
  BY WholeBlocksType DEF TypeOK, Progress
<1>. DEFINE r == position % Gcd
            b == position \div Gcd
            k == v - position
<1>2. v \in Nat /\ k \in Nat /\ r + k < Gcd /\ v = position + k
  BY <1>1, ChunkInBlock
<1>3. r \in 0 .. Gcd - 1 /\ b \in Nat /\ position = Gcd * b + r
  BY <1>1
<1>. HIDE DEF r, b, k
<1>4. v = Gcd * b + (r + k) /\ r + k \in 0 .. Gcd - 1
  BY <1>1, <1>2, <1>3
<1>5. v % Gcd = r + k
  BY <1>1, <1>3, <1>4, RemainderOf
<1>6. v - (v % Gcd) = position - r
  BY <1>1, <1>2, <1>3, <1>5
<1>7. r = 0 \/ position = call.addr
  BY <1>1 DEF Cut, r
<1>. QED
  BY <1>1, <1>3, <1>6, <1>7 DEF ChunkStart, Maximum

\* In one chunk, all bytes are there or none, up to the end of the file.
LEMMA ChunkMapped ==
    ASSUME TypeOK, BlocksWhole, StaysInside, Cut, Progress, pc = "loop", remaining > 0,
           NEW v \in position .. position + DataLen - 1
    PROVE  /\ Mapped(v) <=> Mapped(position)
           /\ Backed(v) <=> Mapped(position) /\ Translate(position) + (v - position) < Len(mem)
           /\ Mapped(position) => Translate(v) = Translate(position) + (v - position)
           /\ Mapped(position) <=> Translate(position) # None /\ BaseValid(Translate(position))
<1>1. position \in Nat /\ DataLen \in Nat /\ DataLen > 0
  BY WholeBlocksType, DataLenBounds DEF TypeOK
<1>2. position \in position .. position + DataLen - 1
  BY <1>1
<1>3. ChunkStart(v) = position /\ ChunkStart(position) = position
  BY <1>2, ChunkStartsThere
<1>4. /\ v \in Nat /\ v >= position
      /\ Translate(v) = IF Translate(position) = None THEN None
                        ELSE Translate(position) + (v - position)
  BY ChunkInBlock
<1>5. Translate(position) \in Nat \cup {None}
  BY <1>1, TranslateType
<1>6. Translate(position) # None => Translate(position) + (v - position) # None
  BY <1>1, <1>4, <1>5, NoneAssumption
<1>. QED
  BY <1>3, <1>4, <1>6 DEF Mapped, Backed

\* What the base answers for a chunk is what the image holds for it.
LEMMA ChunkRight ==
    ASSUME TypeOK, BlocksWhole, StaysInside, Cut, Progress, pc = "loop", remaining > 0,
           call.op # "write"
    PROVE  /\ ChunkData = None <=> call.op = "read" /\ ~Mapped(position)
           /\ ChunkData # None =>
                /\ Len(ChunkData) \in 0 .. DataLen
                /\ \A i \in 1 .. Len(ChunkData) :
                       /\ ChunkData[i] = ByteAt(position + i - 1)
                       /\ call.op = "read" => Backed(position + i - 1)
                /\ call.op = "zread" => Len(ChunkData) = DataLen
                /\ Len(ChunkData) < DataLen =>
                       /\ Mapped(position + Len(ChunkData))
                       /\ ~Backed(position + Len(ChunkData))
<1>. DEFINE paddr == Translate(position)
<1>1. /\ position \in Nat /\ DataLen \in Nat /\ DataLen > 0 /\ mem \in Seq(Byte)
      /\ Len(mem) \in Nat /\ Len(mem) >= FSize /\ FSize \in Nat
  BY WholeBlocksType, DataLenBounds, SizeAssumption DEF TypeOK
<1>2. call.op \in {"read", "zread"}
  BY DEF TypeOK, Ops
<1>3. paddr \in Nat \cup {None}
  BY <1>1, TranslateType
<1>4. position \in position .. position + DataLen - 1
  BY <1>1
<1>5. ASSUME NEW i \in 1 .. DataLen
      PROVE  /\ position + i - 1 \in position .. position + DataLen - 1
             /\ Backed(position + i - 1) <=> Mapped(position) /\ paddr + i <= Len(mem)
             /\ Mapped(position) => Translate(position + i - 1) + 1 = paddr + i
             /\ Mapped(position + i - 1) <=> Mapped(position)
  <2>1. position + i - 1 \in position .. position + DataLen - 1
        /\ (position + i - 1) - position = i - 1
    BY <1>1
  <2>. DEFINE v == position + i - 1
  <2>2. v \in position .. position + DataLen - 1 /\ v - position = i - 1
    BY <2>1
  <2>. HIDE DEF v
  <2>3. /\ Mapped(v) <=> Mapped(position)
        /\ Backed(v) <=> Mapped(position) /\ paddr + (i - 1) < Len(mem)
        /\ Mapped(position) => Translate(v) = paddr + (i - 1)
        /\ Mapped(position) => paddr # None
    BY <2>2, ChunkMapped
  <2>4. Mapped(position) => paddr \in Nat
    BY <1>3, <2>3
  <2>. HIDE DEF paddr
  <2>5. Backed(v) <=> Mapped(position) /\ paddr + i <= Len(mem)
    BY <1>1, <2>3, <2>4
  <2>6. Mapped(position) => Translate(v) + 1 = paddr + i
    BY <2>3, <2>4
  <2>. QED
    BY <2>1, <2>3, <2>5, <2>6 DEF v
<1>6. Mapped(position) <=> paddr # None /\ BaseValid(paddr)
  BY <1>4, ChunkMapped
<1>7. CASE ~Mapped(position) /\ call.op = "read"
  BY <1>6, <1>7 DEF ChunkData
<1>8. CASE ~Mapped(position) /\ call.op = "zread"
  <2>1. ChunkData = Zeros(DataLen)
    BY <1>6, <1>8 DEF ChunkData
  <2>2. Zeros(DataLen) \in Seq(Byte) /\ Len(Zeros(DataLen)) = DataLen
        /\ \A i \in 1 .. DataLen : Zeros(DataLen)[i] = ZERO
    BY <1>1 DEF Zeros, ZERO, Byte
  <2>3. ChunkData # None
    BY <2>1, <2>2, NoneAssumption DEF Byte
  <2>4. \A i \in 1 .. DataLen : ByteAt(position + i - 1) = ZERO
    BY <1>5, <1>8 DEF ByteAt
  <2>5. Len(ChunkData) = DataLen /\ \A i \in 1 .. DataLen : ChunkData[i] = ZERO
    BY <2>1, <2>2
  <2>6. ~(Len(ChunkData) < DataLen) /\ Len(ChunkData) \in 0 .. DataLen
    BY <1>1, <2>5
  <2>7. \A i \in 1 .. Len(ChunkData) : ChunkData[i] = ByteAt(position + i - 1)
    BY <2>4, <2>5
  <2>. QED
    BY <1>8, <2>3, <2>5, <2>6, <2>7
<1>9. CASE Mapped(position) /\ call.op = "zread"
  <2>1. ChunkData = FileZread(paddr, DataLen) /\ paddr \in Nat
    BY <1>3, <1>6, <1>9 DEF ChunkData
  <2>. DEFINE byte(i) == IF paddr + i <= Len(mem) THEN mem[paddr + i] ELSE ZERO
  <2>2. \A i \in 1 .. DataLen : byte(i) \in Byte
    BY <1>1, <2>1 DEF Byte, ZERO
  <2>3. ChunkData = [i \in 1 .. DataLen |-> byte(i)]
    BY <2>1 DEF FileZread
  <2>4. \A i \in 1 .. DataLen : ByteAt(position + i - 1) = byte(i)
    BY <1>5, <1>9 DEF ByteAt
  <2>. HIDE DEF byte
  <2>5. ChunkData \in Seq(Byte) /\ Len(ChunkData) = DataLen
        /\ \A i \in 1 .. DataLen : ChunkData[i] = byte(i)
    BY <1>1, <2>2, <2>3
  <2>6. ChunkData # None
    BY <2>5, NoneAssumption DEF Byte
  <2>. QED
    BY <1>1, <1>9, <2>4, <2>5, <2>6
<1>10. CASE Mapped(position) /\ call.op = "read"
  <2>1. ChunkData = FileRead(paddr, DataLen) /\ paddr \in Nat /\ paddr < Len(mem)
    BY <1>1, <1>3, <1>6, <1>10 DEF ChunkData, BaseValid
  <2>. DEFINE n == Minimum(DataLen, Len(mem) - paddr)
  <2>2. n \in 0 .. DataLen /\ paddr + n <= Len(mem) /\ (n < DataLen => paddr + n = Len(mem))
    BY <1>1, <2>1 DEF Minimum
  <2>3. ChunkData = [i \in 1 .. n |-> mem[paddr + i]]
    BY <2>1 DEF FileRead
  <2>. HIDE DEF n, paddr
  <2>4. \A i \in 1 .. n : mem[paddr + i] \in Byte /\ i \in 1 .. DataLen /\ paddr + i <= Len(mem)
    BY <1>1, <2>1, <2>2
  <2>5. ChunkData \in Seq(Byte) /\ Len(ChunkData) = n
        /\ \A i \in 1 .. n : ChunkData[i] = mem[paddr + i]
    BY <2>2, <2>3, <2>4
  <2>6. ChunkData # None
    BY <2>5, NoneAssumption DEF Byte
  <2>7. ASSUME NEW i \in 1 .. n
        PROVE  Backed(position + i - 1) /\ ByteAt(position + i - 1) = mem[paddr + i]
    BY <1>5, <1>10, <2>4 DEF ByteAt
  <2>8. ASSUME n < DataLen
        PROVE  Mapped(position + n) /\ ~Backed(position + n)
    <3>1. n + 1 \in 1 .. DataLen /\ position + (n + 1) - 1 = position + n
          /\ ~(paddr + (n + 1) <= Len(mem))
      BY <1>1, <2>1, <2>2, <2>8
    <3>. QED
      BY <1>5, <1>10, <3>1
  <2>9. /\ Len(ChunkData) \in 0 .. DataLen
        /\ \A i \in 1 .. Len(ChunkData) :
               ChunkData[i] = ByteAt(position + i - 1) /\ Backed(position + i - 1)
    BY <2>2, <2>5, <2>7
  <2>10. Len(ChunkData) < DataLen =>
            Mapped(position + Len(ChunkData)) /\ ~Backed(position + Len(ChunkData))
    BY <2>5, <2>8
  <2>. QED
    BY <1>10, <2>6, <2>9, <2>10
<1>. QED
  BY <1>2, <1>7, <1>8, <1>9, <1>10

\* What a read tells of memory depends on the memory and on the call alone.
LEMMA SameView ==
    ASSUME UNCHANGED <<space, mem, call>>
    PROVE  /\ BlocksWhole' = BlocksWhole /\ StaysInside' = StaysInside
           /\ Requested' = Requested /\ Stored' = Stored /\ Gcd' = Gcd
           /\ AllocRemaining' = AllocRemaining
           /\ \A v : Backed(v)' = Backed(v) /\ Mapped(v)' = Mapped(v)
                     /\ ByteAt(v)' = ByteAt(v)
BY DEF BlocksWhole, StaysInside, Requested, Stored, Backed, Mapped, ByteAt, Translate,
       ChunkStart, Gcd, AllocRemaining, BaseValid, RunTranslate, Ending

IInv == TypeOK /\ LoopAssertions /\ Cut /\ Progress /\ ReadExact

\* The next chunk starts on a boundary, unless nothing is left.
LEMMA CutAdvances ==
    ASSUME IInv, pc = "loop", remaining > 0, BlocksWhole, StaysInside
    PROVE  \/ remaining - DataLen = 0
           \/ /\ (position + DataLen) % Gcd = 0
              /\ call.addr % Gcd = 0 \/ remaining - DataLen <= AllocRemaining
<1>. DEFINE g == Gcd
            a == call.addr
<1>1. /\ g \in Nat \ {0} /\ a \in Nat /\ position \in Nat /\ remaining \in Nat
      /\ call.length \in Nat /\ a + call.length = position + remaining
  BY WholeBlocksType DEF IInv, TypeOK, LoopAssertions
<1>2. AllocRemaining = g - (a % g) /\ a % g \in 0 .. g - 1
  BY <1>1 DEF AllocRemaining
<1>3. DataLen = remaining \/ DataLen = AllocRemaining
  BY DEF DataLen, Minimum
<1>4. a % g = 0 \/ call.length <= 2 * AllocRemaining
  BY DEF StaysInside
<1>5. \/ position = a
      \/ position % g = 0 /\ (a % g = 0 \/ remaining <= AllocRemaining)
  BY DEF IInv, Cut
<1>. HIDE DEF g, a
<1>6. CASE DataLen = remaining
  BY <1>1, <1>6
<1>7. CASE DataLen # remaining /\ position = a
  <2>1. DataLen = g - (a % g)
    BY <1>2, <1>3, <1>7
  <2>2. (a + (g - (a % g))) % g = 0
    <3>. DEFINE b == a \div g
                r == a % g
    <3>1. a = g * b + r /\ b \in Nat /\ r \in 0 .. g - 1
      BY <1>1
    <3>. HIDE DEF b, r
    <3>2. a + (g - r) = g * (b + 1) + 0 /\ 0 \in 0 .. g - 1
      BY <1>1, <3>1, SMT
    <3>3. (g * (b + 1) + 0) % g = 0
      BY <1>1, <3>1, <3>2, RemainderOf
    <3>. QED
      BY <3>2, <3>3 DEF r
  <2>3. a % g # 0 => remaining - DataLen <= AllocRemaining
    BY <1>1, <1>2, <1>4, <1>7, <2>1
  <2>. QED
    BY <1>7, <2>1, <2>2, <2>3 DEF a, g
<1>8. CASE DataLen # remaining /\ position # a
  <2>1. position % g = 0 /\ a % g = 0
    <3>1. ASSUME remaining <= AllocRemaining PROVE FALSE
      BY <1>1, <1>2, <1>8, <3>1 DEF DataLen, Minimum
    <3>. QED
      BY <1>5, <1>8, <3>1
  <2>2. DataLen = g /\ g % g = 0
    <3>1. g = g * 1 + 0 /\ 0 \in 0 .. g - 1
      BY <1>1
    <3>2. (g * 1 + 0) % g = 0
      BY <1>1, <3>1, RemainderOf
    <3>. QED
      BY <1>1, <1>2, <1>3, <1>8, <2>1, <3>1, <3>2
  <2>3. (position + g) % g = 0
    BY <1>1, <2>1, <2>2, SumOfMultiples
  <2>. QED
    BY <2>1, <2>2, <2>3 DEF a, g
<1>. QED
  BY <1>6, <1>7, <1>8

\* The i-th byte of a buffer that goes on with a chunk, counted in the chunk.
LEMMA TailIndex ==
    ASSUME NEW a \in Nat, NEW p \in Nat, NEW b \in Nat, b = p - a,
           NEW n \in Nat, NEW i \in 1 .. b + n, ~(i <= b)
    PROVE  i - b \in 1 .. n /\ p + (i - b) - 1 = a + i - 1
<1>1. i \in Nat /\ i > b /\ i <= b + n
  OBVIOUS
<1>2. i - b \in 1 .. n
  BY <1>1
<1>. QED
  BY <1>1, <1>2

\* One turn of the loop of _read: the buffer goes on as the image does, or the
\* turn stops at the first byte that is not there.
LEMMA ReadChunkKeeps ==
    ASSUME IInv, ReadChunk
    PROVE  Cut' /\ Progress' /\ ReadExact'
<1>1. /\ pc = "loop" /\ call.op # "write" /\ remaining > 0
      /\ UNCHANGED <<space, mem, call, calls>>
  BY DEF ReadChunk
<1>2. TypeOK /\ LoopAssertions /\ Cut /\ Progress
  BY DEF IInv
<1>3. /\ call.addr \in Nat /\ call.length \in Nat /\ position \in Nat /\ remaining \in Nat
      /\ buff \in Seq(Byte) /\ call.addr + call.length = position + remaining
      /\ position >= call.addr /\ Len(buff) = position - call.addr
      /\ call.op \in {"read", "zread"} /\ DataLen \in Nat /\ DataLen > 0 /\ DataLen <= remaining
  <2>1. Gcd # 0
    BY DEF ReadChunk
  <2>. QED
    BY <1>1, <1>2, <2>1, DataLenBounds DEF TypeOK, LoopAssertions, Progress, Ops, Refused
<1>4. /\ BlocksWhole' = BlocksWhole /\ StaysInside' = StaysInside
      /\ Requested' = Requested /\ Stored' = Stored /\ Gcd' = Gcd
      /\ AllocRemaining' = AllocRemaining
      /\ \A v : Backed(v)' = Backed(v) /\ Mapped(v)' = Mapped(v) /\ ByteAt(v)' = ByteAt(v)
  BY <1>1, SameView
<1>5. CASE ~(BlocksWhole /\ StaysInside)
  <2>1. position' >= call.addr /\ (pc' = "loop" => Len(buff') = position' - call.addr)
    <3>1. CASE ChunkData = None
      BY <1>3, <3>1 DEF ReadChunk, Finish
    <3>2. CASE ChunkData # None
      BY <1>1, <1>3, <3>2 DEF ReadChunk, Finish, Advance
    <3>. QED
      BY <3>1, <3>2
  <2>. QED
    BY <1>1, <1>4, <1>5, <2>1 DEF Cut, Progress, ReadExact
<1>6. CASE BlocksWhole /\ StaysInside
  <2>1. /\ ChunkData = None <=> call.op = "read" /\ ~Mapped(position)
        /\ ChunkData # None =>
             /\ Len(ChunkData) \in 0 .. DataLen
             /\ \A i \in 1 .. Len(ChunkData) :
                    /\ ChunkData[i] = ByteAt(position + i - 1)
                    /\ call.op = "read" => Backed(position + i - 1)
             /\ call.op = "zread" => Len(ChunkData) = DataLen
             /\ Len(ChunkData) < DataLen =>
                    /\ Mapped(position + Len(ChunkData))
                    /\ ~Backed(position + Len(ChunkData))
    BY <1>1, <1>2, <1>6, ChunkRight
  <2>2. call.op = "read" => \A v \in call.addr .. position - 1 : Backed(v)
    BY <1>1, <1>2, <1>6 DEF Progress
  <2>3. CASE ChunkData = None
    <3>1. pc' = "done" /\ result' = "None" /\ call' = call
      BY <1>1, <2>3 DEF ReadChunk, Finish
    <3>2. call.op = "read" /\ ~Mapped(position) /\ ~Backed(position)
      BY <2>1, <2>3 DEF Backed
    <3>3. position \in Requested /\ \A w \in Requested : w < position => Backed(w)
      BY <1>1, <1>3, <2>2, <3>2 DEF Requested
    <3>4. ReadExact'
      BY <1>4, <3>1, <3>2, <3>3 DEF ReadExact, Done
    <3>. QED
      BY <3>1, <3>4 DEF Cut, Progress
  <2>4. CASE ChunkData # None
    <3>1. /\ buff' = buff \o ChunkData /\ position' = position + DataLen
          /\ remaining' = remaining - DataLen
          /\ IF Len(buff') = position' - call.addr
             THEN pc' = "loop" /\ result' = result
             ELSE pc' = "done" /\ result' = "AssertionError"
      BY <1>1, <2>4 DEF ReadChunk, Finish, Advance
    <3>. DEFINE n == Len(ChunkData)
    <3>2. ChunkData \in Seq(Byte) /\ n \in 0 .. DataLen
      BY <1>1, <1>2, <2>1, <2>4, ChunkDataType DEF ReadChunk
    <3>3. Len(buff') = Len(buff) + n /\ buff' \in Seq(Byte)
          /\ \A i \in 1 .. Len(buff') :
                 buff'[i] = IF i <= Len(buff) THEN buff[i] ELSE ChunkData[i - Len(buff)]
      <4>1. /\ buff \o ChunkData \in Seq(Byte)
            /\ Len(buff \o ChunkData) = Len(buff) + Len(ChunkData)
            /\ \A i \in 1 .. Len(buff) + Len(ChunkData) :
                   (buff \o ChunkData)[i] =
                      IF i <= Len(buff) THEN buff[i] ELSE ChunkData[i - Len(buff)]
        BY <1>3, <3>2, ConcatProperties
      <4>. QED
        BY <3>1, <4>1
    <3>4. Len(buff') = position' - call.addr <=> n = DataLen
      BY <1>3, <3>1, <3>2, <3>3
    <3>5. CASE n = DataLen
      <4>1. pc' = "loop"
        BY <3>1, <3>4, <3>5
      <4>2. Cut'
        BY <1>1, <1>4, <1>6, <3>1, CutAdvances DEF Cut
      <4>3. ASSUME NEW i \in 1 .. Len(buff')
            PROVE  buff'[i] = ByteAt(call.addr + i - 1)
        <5>1. CASE i <= Len(buff)
          <6>1. i \in 1 .. Len(buff)
            BY <1>3, <5>1
          <6>. QED
            BY <1>1, <1>2, <1>6, <3>3, <5>1, <6>1 DEF Progress
        <5>2. CASE ~(i <= Len(buff))
          <6>1. i - Len(buff) \in 1 .. n /\ position + (i - Len(buff)) - 1 = call.addr + i - 1
            <7>. DEFINE b == Len(buff)
            <7>1. b \in Nat /\ n \in Nat /\ i \in 1 .. b + n /\ ~(i <= b)
              BY <1>3, <3>2, <3>3, <5>2
            <7>2. b = position - call.addr /\ position \in Nat /\ call.addr \in Nat
              BY <1>3
            <7>. HIDE DEF n, b
            <7>. QED
              <8>1. i - b \in 1 .. n /\ position + (i - b) - 1 = call.addr + i - 1
                BY <7>1, <7>2, TailIndex
              <8>. QED
                BY <8>1 DEF b
          <6>. QED
            BY <2>1, <2>4, <3>3, <5>2, <6>1
        <5>. QED
          BY <5>1, <5>2
      <4>4. ASSUME call.op = "read", NEW v \in call.addr .. position' - 1
            PROVE  Backed(v)
        <5>1. CASE v < position
          <6>1. v \in call.addr .. position - 1
            BY <1>3, <5>1
          <6>. QED
            BY <2>2, <4>4, <6>1
        <5>2. CASE ~(v < position)
          <6>1. (v - position) + 1 \in 1 .. n /\ position + ((v - position) + 1) - 1 = v
            BY <1>3, <3>1, <3>5, <5>2
          <6>. QED
            BY <2>1, <2>4, <4>4, <6>1
        <5>. QED
          BY <5>1, <5>2
      <4>5. position' >= call.addr /\ Len(buff') = position' - call.addr
        BY <1>3, <3>1, <3>4, <3>5
      <4>6. Progress'
        BY <1>1, <1>4, <4>3, <4>4, <4>5 DEF Progress
      <4>. QED
        BY <4>1, <4>2, <4>6 DEF ReadExact, Done
    <3>6. CASE n # DataLen
      <4>1. pc' = "done" /\ result' = "AssertionError" /\ n < DataLen /\ call.op = "read"
        BY <1>3, <2>1, <2>4, <3>1, <3>2, <3>4, <3>6
      <4>. DEFINE v == position + n
      <4>2. Mapped(v) /\ ~Backed(v)
        BY <2>1, <2>4, <4>1
      <4>3. v \in Requested
        BY <1>3, <3>2, <4>1 DEF Requested
      <4>4. ASSUME NEW w \in Requested, w < v PROVE Backed(w)
        <5>1. w \in Nat /\ w >= call.addr /\ w < position + n
          BY <1>3, <4>4 DEF Requested
        <5>2. CASE w < position
          BY <1>3, <2>2, <4>1, <5>1, <5>2
        <5>3. CASE ~(w < position)
          <6>1. (w - position) + 1 \in 1 .. n /\ position + ((w - position) + 1) - 1 = w
            BY <1>3, <3>2, <5>1, <5>3
          <6>. QED
            BY <2>1, <2>4, <4>1, <6>1
        <5>. QED
          BY <5>2, <5>3
      <4>. HIDE DEF v
      <4>5. ReadExact'
        BY <1>1, <1>4, <4>1, <4>2, <4>3, <4>4 DEF ReadExact, Done
      <4>. QED
        BY <4>1, <4>5 DEF Cut, Progress
    <3>. QED
      BY <3>5, <3>6
  <2>. QED
    BY <2>3, <2>4
<1>. QED
  BY <1>5, <1>6

\* The loop ends: all the bytes asked for are in the buffer, each as the image
\* has it.
LEMMA ReturnKeeps ==
    ASSUME IInv, Return
    PROVE  Cut' /\ Progress' /\ ReadExact'
<1>1. /\ pc = "loop" /\ remaining = 0 /\ pc' = "done"
      /\ result' = IF call.op = "write" THEN "True" ELSE "buff"
      /\ UNCHANGED <<space, mem, call, position, remaining, buff, calls>>
  BY DEF Return, Finish
<1>2. TypeOK /\ LoopAssertions /\ Cut /\ Progress
  BY DEF IInv
<1>3. /\ BlocksWhole' = BlocksWhole /\ StaysInside' = StaysInside
      /\ Requested' = Requested /\ Stored' = Stored
      /\ \A v : Backed(v)' = Backed(v) /\ Mapped(v)' = Mapped(v)
  BY <1>1, SameView
<1>4. ASSUME BlocksWhole, StaysInside, call.op # "write"
      PROVE  /\ buff = Stored
             /\ call.op = "read" => \A v \in Requested : Backed(v)
  <2>1. /\ call.addr \in Nat /\ call.length \in Nat /\ position \in Nat
        /\ position = call.addr + call.length /\ buff \in Seq(Byte)
        /\ Len(buff) = position - call.addr
        /\ \A i \in 1 .. Len(buff) : buff[i] = ByteAt(call.addr + i - 1)
        /\ call.op = "read" => \A v \in call.addr .. position - 1 : Backed(v)
    BY <1>1, <1>2, <1>4 DEF TypeOK, LoopAssertions, Progress, Refused
  <2>2. Len(buff) = call.length
    BY <2>1
  <2>3. buff = [i \in 1 .. call.length |-> buff[i]]
    BY <2>1, <2>2
  <2>4. \A i \in 1 .. call.length : buff[i] = ByteAt(call.addr + i - 1)
    BY <2>1, <2>2
  <2>5. Stored = [i \in 1 .. call.length |-> ByteAt(call.addr + i - 1)]
    BY DEF Stored, ByteAt
  <2>6. buff = Stored
    BY <2>3, <2>4, <2>5
  <2>7. Requested = call.addr .. position - 1
    BY <2>1 DEF Requested
  <2>. QED
    BY <2>1, <2>6, <2>7
<1>5. ReadExact'
  BY <1>1, <1>3, <1>4 DEF ReadExact, Done
<1>. QED
  BY <1>1, <1>5 DEF Cut, Progress

\* One turn of the loop of write leaves the cut where it belongs.
LEMMA WriteKeeps ==
    ASSUME IInv, WriteChunk \/ WriteFails
    PROVE  Cut' /\ Progress' /\ ReadExact'
<1>1. TypeOK /\ LoopAssertions /\ Cut /\ Progress
  BY DEF IInv
<1>2. /\ pc = "loop" /\ remaining > 0 /\ call.op = "write"
      /\ space' = space /\ call' = call
  BY DEF WriteChunk, WriteFails
<1>3. ReadExact'
  BY <1>2 DEF ReadExact, Done
<1>4. /\ BlocksWhole' = BlocksWhole /\ StaysInside' = StaysInside /\ Gcd' = Gcd
      /\ AllocRemaining' = AllocRemaining
  BY <1>2 DEF BlocksWhole, StaysInside, Gcd, AllocRemaining
<1>5. CASE pc' = "done"
  BY <1>3, <1>5 DEF Cut, Progress
<1>6. CASE pc' # "done"
  <2>1. /\ position' = position + DataLen /\ remaining' = remaining - DataLen
        /\ pc' = "loop"
    BY <1>2, <1>6 DEF WriteChunk, WriteFails, Finish, Advance
  <2>2. position \in Nat /\ call.addr \in Nat /\ DataLen \in Nat /\ position >= call.addr
    BY <1>1, <1>2, WritesArePaged, DataLenBounds DEF TypeOK, Progress
  <2>3. Progress'
    BY <1>2, <2>1, <2>2 DEF Progress
  <2>4. Cut'
    BY <1>2, <1>4, <2>1, CutAdvances DEF Cut
  <2>. QED
    BY <1>3, <2>3, <2>4
<1>. QED
  BY <1>5, <1>6

\* A new call has served nothing, and its loop starts where the request does.
LEMMA CallKeeps ==
    ASSUME IInv, NEW op \in Ops, NEW a \in VAddr, NEW n \in Lengths, Call(op, a, n)
    PROVE  Cut' /\ Progress' /\ ReadExact'
<1>1. /\ call' = [op |-> op, addr |-> a, length |-> n] /\ position' = a /\ buff' = <<>>
      /\ pc' \in {"loop", "done"} /\ (pc' = "done" => op = "write")
  BY DEF Call, Refused
<1>2. a \in Nat
  BY SizeAssumption DEF VAddr
<1>3. Cut'
  BY <1>1 DEF Cut
<1>4. ReadExact'
  BY <1>1 DEF ReadExact, Done
<1>5. Len(buff') = 0 /\ position' - call.addr' = 0 /\ position' >= call.addr'
  BY <1>1, <1>2
<1>6. Progress'
  <2>1. \A v \in call.addr' .. position' - 1 : FALSE
    BY <1>1, <1>2
  <2>2. \A i \in 1 .. Len(buff') : FALSE
    BY <1>5
  <2>. QED
    BY <1>5, <2>1, <2>2 DEF Progress
<1>. QED
  BY <1>3, <1>4, <1>6

\* The loops of _read and write keep their cut of the request and what they have
\* served of it: the invariant the properties of reads and writes follow from.
THEOREM InvariantHolds == Spec => []IInv
<1>1. Init => Cut /\ Progress /\ ReadExact
  BY DEF Init, Cut, Progress, ReadExact, Done
<1>2. IInv /\ [Next]_vars => Cut' /\ Progress' /\ ReadExact'
  <2>. SUFFICES ASSUME IInv, [Next]_vars PROVE Cut' /\ Progress' /\ ReadExact'
    OBVIOUS
  <2>1. ASSUME NEW op \in Ops, NEW a \in VAddr, NEW n \in Lengths, Call(op, a, n)
        PROVE  Cut' /\ Progress' /\ ReadExact'
    BY <2>1, CallKeeps
  <2>2. CASE ReadChunk
    BY <2>2, ReadChunkKeeps
  <2>3. CASE DivisionByZero
    <3>1. /\ pc' = "done" /\ UNCHANGED <<space, mem, call>> /\ ~BlocksWhole
      <4>1. Gcd = 0 /\ pc' = "done" /\ UNCHANGED <<space, mem, call>>
        BY <2>3 DEF DivisionByZero, Finish
      <4>. QED
        BY <4>1, WholeBlocksType DEF IInv
    <3>2. ~BlocksWhole'
      BY <3>1, SameView
    <3>. QED
      BY <3>1, <3>2 DEF Cut, Progress, ReadExact
  <2>4. CASE WriteChunk \/ WriteFails
    BY <2>4, WriteKeeps
  <2>5. CASE Return
    BY <2>5, ReturnKeeps
  <2>6. CASE UNCHANGED vars
    <3>1. UNCHANGED <<space, mem, call>> /\ UNCHANGED <<pc, position, remaining, buff, result>>
      BY <2>6 DEF vars
    <3>2. /\ BlocksWhole' = BlocksWhole /\ StaysInside' = StaysInside
          /\ Requested' = Requested /\ Stored' = Stored /\ Gcd' = Gcd
          /\ AllocRemaining' = AllocRemaining
          /\ \A v : Backed(v)' = Backed(v) /\ Mapped(v)' = Mapped(v)
                    /\ ByteAt(v)' = ByteAt(v)
      BY <3>1, SameView
    <3>3. Cut'
      BY <3>1, <3>2 DEF Cut, IInv
    <3>4. Progress'
      BY <3>1, <3>2 DEF Progress, IInv
    <3>5. ReadExact'
      BY <3>1, <3>2 DEF ReadExact, Done, IInv
    <3>. QED
      BY <3>3, <3>4, <3>5
  <2>. QED
    BY <2>1, <2>2, <2>3, <2>4, <2>5, <2>6 DEF Next
<1>. QED
  BY <1>1, <1>2, TypeCorrect, LoopAssertionsHold, PTL DEF Spec, IInv

\* A read gives its caller what the image holds for the range, zeros or None
\* where it holds nothing, whenever the request stays inside whole blocks.
THEOREM ReadIsExact == Spec => []ReadExact
<1>1. IInv => ReadExact
  BY DEF IInv
<1>. QED
  BY <1>1, InvariantHolds, PTL

\* What one chunk of a write changes of the image: bytes of the request, each
\* where its own address is translated to, whether the chunk is stored whole or
\* in part.
LEMMA ChunkConfined ==
    ASSUME IInv, BlocksWhole, StaysInside,
           pc = "loop", call.op = "write", remaining > 0, Translate(position) # None,
           NEW n \in 1 .. DataLen,
           NEW q \in DOMAIN FileWrite(Translate(position), NewData(position, n)),
           FileWrite(Translate(position), NewData(position, n))[q]
               # (IF q \in DOMAIN mem THEN mem[q] ELSE ZERO)
    PROVE  \E v \in Requested :
               /\ Translate(v) = q - 1
               /\ FileWrite(Translate(position), NewData(position, n))[q] = NewByte(v)
<1>. DEFINE p == Translate(position)
            data == NewData(position, n)
<1>1. /\ position \in Nat /\ p \in Nat /\ mem \in Seq(Byte) /\ Len(mem) \in Nat
      /\ call.addr \in Nat /\ call.length \in Nat /\ remaining \in Nat
      /\ call.addr + call.length = position + remaining /\ position >= call.addr
      /\ DataLen \in Nat /\ DataLen <= remaining /\ n \in Nat /\ n <= DataLen
  BY WritesArePaged, DataLenBounds, TranslateType
     DEF IInv, TypeOK, LoopAssertions, Progress
<1>2. Len(data) = n /\ \A i \in 1 .. n : data[i] = NewByte(position + i - 1)
  BY <1>1 DEF NewData
<1>3. /\ q \in 1 .. Maximum(Len(mem), p + n)
      /\ FileWrite(p, data)[q] = IF p < q /\ q <= p + n THEN data[q - p]
                                 ELSE IF q <= Len(mem) THEN mem[q] ELSE ZERO
  <2>. HIDE DEF p, data
  <2>. QED
    BY <1>2 DEF FileWrite, p, data
<1>4. q \in Nat /\ q >= 1 /\ (q \in DOMAIN mem <=> q <= Len(mem))
  BY <1>1, <1>3 DEF Maximum
<1>5. p < q /\ q <= p + n
  BY <1>3, <1>4
<1>. DEFINE v == position + (q - p) - 1
<1>6. q - p \in 1 .. n /\ v \in position .. position + DataLen - 1 /\ v - position = q - p - 1
  <2>. HIDE DEF p
  <2>. QED
    BY <1>1, <1>4, <1>5
<1>7. FileWrite(p, data)[q] = NewByte(v)
  BY <1>2, <1>3, <1>5, <1>6
<1>8. Translate(v) = q - 1
  <2>1. Translate(v) = p + (v - position)
    BY <1>6, ChunkInBlock DEF IInv
  <2>. HIDE DEF p
  <2>. QED
    BY <1>1, <1>4, <1>6, <2>1
<1>9. v \in Requested
  <2>. HIDE DEF p, v
  <2>. QED
    BY <1>1, <1>6 DEF Requested
<1>. QED
  BY <1>7, <1>8, <1>9

\* A write touches no byte of the image but those its own range maps to, also
\* when the file system fails in the middle of it.
THEOREM WritesAreConfined == Spec => WriteConfined
<1>. DEFINE Confined ==
        BlocksWhole /\ StaysInside =>
            \A q \in DOMAIN mem' :
                mem'[q] # (IF q \in DOMAIN mem THEN mem[q] ELSE ZERO) =>
                \E v \in Requested : Translate(v) = q - 1 /\ mem'[q] = NewByte(v)
<1>1. IInv /\ [Next]_vars => [Confined]_mem
  <2>. SUFFICES ASSUME IInv, [Next]_vars, mem' # mem, BlocksWhole, StaysInside,
                       NEW q \in DOMAIN mem',
                       mem'[q] # (IF q \in DOMAIN mem THEN mem[q] ELSE ZERO)
                PROVE  \E v \in Requested : Translate(v) = q - 1 /\ mem'[q] = NewByte(v)
    OBVIOUS
  <2>1. WriteChunk \/ WriteFails
    BY DEF Next, vars, Call, ReadChunk, DivisionByZero, Return
  <2>2. /\ pc = "loop" /\ call.op = "write" /\ remaining > 0 /\ Translate(position) # None
    BY <2>1 DEF WriteChunk, WriteFails
  <2>3. DataLen \in Nat /\ DataLen > 0
    BY <2>2, WritesArePaged, DataLenBounds DEF IInv
  <2>4. PICK n \in 1 .. DataLen :
            mem' = FileWrite(Translate(position), NewData(position, n))
    <3>1. CASE WriteChunk
      BY <2>2, <2>3, <3>1 DEF WriteChunk
    <3>2. CASE WriteFails
      <4>1. PICK n \in 0 .. DataLen :
                mem' = IF n = 0 THEN mem
                       ELSE FileWrite(Translate(position), NewData(position, n))
        BY <3>2 DEF WriteFails
      <4>2. n # 0
        BY <4>1
      <4>. QED
        BY <2>3, <4>1, <4>2
    <3>. QED
      BY <2>1, <3>1, <3>2
  <2>. QED
    BY <2>2, <2>4, ChunkConfined
<1>. QED
  BY <1>1, InvariantHolds, PTL DEF Spec, WriteConfined

==============================================================================
