-------------------------- MODULE HiveMemoryProofs --------------------------
(***************************************************************************)
(* Proofs about HiveMemory, for every size of blocks and tables, every     *)
(* hive and every state of the kernel memory.                              *)
(*                                                                         *)
(* Ranged says which range a read has, and where in it each block begins;  *)
(* RightSoFar what the bytes read so far are, be it from the hive or from  *)
(* the saved file; FileRight what save has written so far; and StatsRight  *)
(* that stats has counted the blocks of the stable storage that save fills *)
(* (Lost). Each part of a read begins where the one before ended, because  *)
(* addresses are split at multiples of Block and a bin is contiguous.      *)
(* Padded says of a zread that it has data up to its last part.            *)
(***************************************************************************)
EXTENDS HiveMemory, FiniteSetTheorems, SequenceTheorems, TLAPS

LEMMA Sizes ==
  /\ Block \in Nat \ {0} /\ SizeField \in Nat \ {0} /\ SizeField < Block
  /\ Table \in Nat \ {0} /\ Volatile \in Nat \ {0}
BY HiveAssumption

LEMMA DivMod ==
  ASSUME NEW a \in Nat, NEW s \in Nat \ {0}
  PROVE  /\ a = s * (a \div s) + (a % s)
         /\ a \div s \in Nat
         /\ a % s \in 0..(s - 1)
  BY SMT

LEMMA DivUnique ==
  ASSUME NEW s \in Nat \ {0}, NEW q \in Int, NEW r \in 0..(s - 1)
  PROVE  (s * q + r) \div s = q /\ (s * q + r) % s = r
<1>. DEFINE a == s * q + r
            d == a \div s
            m == a % s
<1>1. a \in Int
  BY SMT
<1>2. a = s * d + m /\ d \in Int /\ m \in 0..(s - 1)
  <2>. HIDE DEF a
  <2>. QED
    BY <1>1, SMT
<1>3. a = s * q + r
  OBVIOUS
<1>. HIDE DEF a, d, m
<1>4. ASSUME d < q PROVE FALSE
  <2>1. d + 1 <= q
    BY <1>2, <1>4
  <2>2. s * (d + 1) <= s * q
    BY <1>2, <2>1, SMT
  <2>3. s * (d + 1) = s * d + s
    BY <1>2, SMT
  <2>4. s * d \in Int /\ s * q \in Int
    BY <1>2, SMT
  <2>. QED
    BY <1>2, <1>3, <2>2, <2>3, <2>4
<1>5. ASSUME q < d PROVE FALSE
  <2>1. q + 1 <= d
    BY <1>2, <1>5
  <2>2. s * (q + 1) <= s * d
    BY <1>2, <2>1, SMT
  <2>3. s * (q + 1) = s * q + s
    BY SMT
  <2>4. s * d \in Int /\ s * q \in Int
    BY <1>2, SMT
  <2>. QED
    BY <1>2, <1>3, <2>2, <2>3, <2>4
<1>6. d = q
  BY <1>2, <1>4, <1>5
<1>7. m = r
  BY <1>2, <1>3, <1>6
<1>. QED
  BY <1>6, <1>7 DEF d, m, a

\* The address of the block that address v is in.
Base(v) == v - (v % Block)

LEMMA BaseFacts ==
  ASSUME NEW v \in Nat
  PROVE  /\ Base(v) = Block * (v \div Block) /\ v \div Block \in Nat
         /\ Base(v) \in Nat
         /\ v % Block \in 0..(Block - 1)
         /\ v = Base(v) + (v % Block)
<1>1. v = Block * (v \div Block) + (v % Block) /\ v \div Block \in Nat /\ v % Block \in 0..(Block - 1)
  BY Sizes, DivMod
<1>. DEFINE q == v \div Block
            r == v % Block
            m == Block * q
<1>2. m \in Nat
  BY <1>1, Sizes, SMT
<1>. HIDE DEF q, r, m
<1>3. v = m + r /\ q \in Nat /\ r \in 0..(Block - 1)
  BY <1>1 DEF q, r, m
<1>4. Base(v) = m
  BY <1>2, <1>3, Sizes DEF Base, r
<1>. QED
  BY <1>2, <1>3, <1>4 DEF q, r, m

LEMMA BaseUnique ==
  ASSUME NEW q \in Nat, NEW r \in 0..(Block - 1)
  PROVE  /\ Base(Block * q + r) = Block * q
         /\ (Block * q + r) % Block = r
         /\ (Block * q + r) \div Block = q
<1>1. (Block * q + r) % Block = r /\ (Block * q + r) \div Block = q
  BY Sizes, DivUnique
<1>2. Block * q \in Nat
  BY Sizes, SMT
<1>. DEFINE m == Block * q
<1>3. Base(m + r) = m
  <2>1. (m + r) % Block = r /\ m \in Nat /\ r \in Nat
    BY <1>1, <1>2, Sizes
  <2>. HIDE DEF m
  <2>2. (m + r) - r = m
    BY <2>1
  <2>. QED
    BY <2>1, <2>2 DEF Base
<1>. QED
  BY <1>1, <1>3

LEMMA MultipleIsBase ==
  ASSUME NEW q \in Nat
  PROVE  Base(Block * q) = Block * q /\ (Block * q) % Block = 0 /\ (Block * q) \div Block = q
<1>1. 0 \in 0..(Block - 1) /\ Block * q \in Nat
  BY Sizes, SMT
<1>2. Block * q + 0 = Block * q
  BY <1>1
<1>. QED
  BY <1>1, <1>2, BaseUnique

\* Directory, table and entry of the map name the block of an address.
LEMMA MapBlockIs ==
  ASSUME NEW v \in Nat
  PROVE  MapBlock(v) = Base(v)
<1>. DEFINE BT == Block * Table
            u == v % Volatile
            w == v \div Volatile
            c == Volatile \div BT
            y == u \div Block
<1>1. BT \in Nat \ {0}
  BY Sizes, SMT
<1>2. v = Volatile * w + u /\ w \in Nat /\ u \in Nat
  BY Sizes, DivMod
<1>3. Volatile = BT * c /\ c \in Nat
  <2>1. Volatile % BT = 0
    BY HiveAssumption
  <2>2. Volatile \in Nat
    BY Sizes
  <2>. HIDE DEF BT
  <2>3. Volatile = BT * (Volatile \div BT) + (Volatile % BT) /\ Volatile \div BT \in Nat
    BY <1>1, <2>2, DivMod
  <2>. DEFINE e == BT * c
  <2>4. e \in Nat
    BY <1>1, <2>3, SMT
  <2>. HIDE DEF e
  <2>5. Volatile = e + 0
    BY <2>1, <2>3 DEF e
  <2>. QED
    BY <2>3, <2>4, <2>5 DEF e
<1>. HIDE DEF u, w, c
<1>4. u = Block * y + (u % Block) /\ y \in Nat /\ u % Block \in 0..(Block - 1)
  BY <1>2, Sizes, DivMod
<1>. DEFINE r == u % Block
<1>5. y = Table * (y \div Table) + (y % Table) /\ y \div Table \in Nat /\ y % Table \in 0..(Table - 1)
  BY <1>4, Sizes, DivMod
<1>. DEFINE d == y \div Table
            t == y % Table
<1>. HIDE DEF y, r, d, t
<1>6. u = Block * y + r /\ y \in Nat /\ r \in 0..(Block - 1)
  BY <1>4 DEF r
<1>7. y = Table * d + t /\ d \in Nat /\ t \in 0..(Table - 1)
  BY <1>5 DEF d, t
<1>8. u \div BT = d
  <2>1. u = BT * d + (Block * t + r)
    BY <1>6, <1>7, Sizes, SMT
  <2>2. Block * t + r \in 0..(BT - 1)
    <3>1. Block * (t + 1) <= Block * Table
      BY <1>7, Sizes, SMT
    <3>2. Block * (t + 1) = Block * t + Block /\ Block * t \in Nat
      BY <1>7, Sizes, SMT
    <3>. QED
      BY <1>1, <1>6, <3>1, <3>2, Sizes
  <2>. HIDE DEF BT
  <2>3. (BT * d + (Block * t + r)) \div BT = d
    BY <1>1, <1>7, <2>2, DivUnique
  <2>. QED
    BY <2>1, <2>3
<1>9. v = Block * (Table * (c * w) + y) + r
  BY <1>2, <1>3, <1>6, Sizes, SMT
<1>10. v \div Block = Table * (c * w) + y /\ Base(v) = Block * (Table * (c * w) + y)
  <2>1. Table * (c * w) + y \in Nat
    BY <1>2, <1>3, <1>6, Sizes, SMT
  <2>. QED
    BY <1>6, <1>9, <2>1, BaseUnique
<1>11. (v \div Block) % Table = t
  <2>1. Table * (c * w) + y = Table * (c * w + d) + t
    BY <1>2, <1>3, <1>6, <1>7, Sizes, SMT
  <2>2. c * w + d \in Nat
    BY <1>2, <1>3, <1>7, SMT
  <2>. DEFINE q == c * w + d
  <2>3. (Table * q + t) % Table = t
    <3>1. q \in Int
      BY <2>2
    <3>. HIDE DEF q
    <3>. QED
      BY <1>7, <3>1, Sizes, DivUnique
  <2>. QED
    BY <1>10, <2>1, <2>3
<1>12. MapBlock(v) = w * Volatile + (d * Table + t) * Block
  BY <1>8, <1>11 DEF MapBlock, u, w
<1>13. w * Volatile + (d * Table + t) * Block = Block * (Table * (c * w) + y)
  BY <1>2, <1>3, <1>7, Sizes, SMT
<1>. QED
  BY <1>10, <1>12, <1>13
-----------------------------------------------------------------------------
(* Where a hive is.                                                        *)

LEMMA BlockFacts ==
  ASSUME hive \in Hives, NEW b \in DOMAIN hive.at
  PROVE  /\ b \in Nat /\ hive.at[b] \in Nat
         /\ \E q \in Nat : b = Block * q
         /\ Base(b) = b /\ b % Block = 0
<1>1. IsHive(hive)
  BY HiveAssumption
<1>2. hive.at \in [BlocksOf(hive) -> Nat]
  BY <1>1 DEF IsHive
<1>3. hive.at[b] \in Nat /\ b \in BlocksOf(hive)
  BY <1>2
<1>4. PICK c \in Nat : Volatile = Block * c
  <2>. DEFINE BT == Block * Table
              k == Volatile \div BT
  <2>1. BT \in Nat \ {0} /\ BT = Block * Table
    BY Sizes, SMT
  <2>2. Volatile % BT = 0
    BY HiveAssumption
  <2>. HIDE DEF BT
  <2>3. Volatile = BT * k + (Volatile % BT) /\ k \in Nat
    BY <2>1, Sizes, DivMod
  <2>. HIDE DEF k
  <2>4. BT * k \in Nat
    BY <2>1, <2>3, SMT
  <2>5. Volatile = BT * k
    BY <2>2, <2>3, <2>4
  <2>6. Volatile = Block * (Table * k) /\ Table * k \in Nat
    BY <2>1, <2>3, <2>5, Sizes, SMT
  <2>. QED
    BY <2>6
<1>5. hive.length[1] \in Nat /\ hive.length[2] \in Nat
  BY <1>1 DEF IsHive
<1>6. \E q \in Nat : b = Block * q
  <2>1. CASE \E i \in 0..(hive.length[1] - 1) : b = i * Block
    <3>1. PICK i \in 0..(hive.length[1] - 1) : b = i * Block
      BY <2>1
    <3>2. i \in Nat /\ b = Block * i
      BY <1>5, <3>1, Sizes, SMT
    <3>. QED
      BY <3>2
  <2>2. CASE \E i \in 0..(hive.length[2] - 1) : b = Volatile + i * Block
    <3>1. PICK i \in 0..(hive.length[2] - 1) : b = Volatile + i * Block
      BY <2>2
    <3>2. i \in Nat
      BY <1>5, <3>1
    <3>3. b = Block * (c + i) /\ c + i \in Nat
      BY <1>4, <3>1, <3>2, Sizes, SMT
    <3>. QED
      BY <3>3
  <2>. QED
    BY <1>3, <2>1, <2>2 DEF BlocksOf
<1>7. b \in Nat
  <2>1. PICK q \in Nat : b = Block * q
    BY <1>6
  <2>. QED
    BY <2>1, Sizes, SMT
<1>. QED
  BY <1>3, <1>6, <1>7, MultipleIsBase

LEMMA WithinFacts ==
  ASSUME hive \in Hives, NEW v \in Nat, NEW n \in Nat, Within(v, n)
  PROVE  \A a \in {v} \cup (v + SizeField)..(v + SizeField + n - 1) :
           Base(a) \in DOMAIN hive.at /\ hive.bin[Base(a)] = hive.bin[Base(v)]
<1>1. DOMAIN hive.bin = DOMAIN hive.at
  BY HiveAssumption DEF IsHive
<1>2. PICK b : \A a \in {v} \cup (v + SizeField)..(v + SizeField + n - 1) :
                 Base(a) \in DOMAIN hive.bin /\ hive.bin[Base(a)] = b
  BY DEF Within, Base
<1>. QED
  BY <1>1, <1>2

\* A bin is contiguous: its bytes are counted from any of its blocks.
LEMMA ByteInBin ==
  ASSUME hive \in Hives, NEW u \in DOMAIN hive.at, hive.at[u] # 0, NEW a \in Nat, u <= a,
         Base(a) \in DOMAIN hive.at, hive.bin[Base(a)] = hive.bin[u]
  PROVE  ByteAt(a) = hive.at[u] * Block + (a - u) + 1
<1>. DEFINE w == Base(a)
            r == a % Block
            x == hive.at[u]
            y == hive.at[w]
<1>1. y - x = (w - u) \div Block
  BY HiveAssumption DEF IsHive
<1>2. PICK q \in Nat : w = Block * q
  BY BlockFacts
<1>3. PICK p \in Nat : u = Block * p
  BY BlockFacts
<1>4. x \in Nat /\ y \in Nat
  BY BlockFacts
<1>5. a = w + r /\ r \in 0..(Block - 1)
  BY BaseFacts
<1>6. ByteAt(a) = y * Block + r + 1
  BY DEF ByteAt, Base
<1>. HIDE DEF w, r, x, y
<1>7. y - x = q - p
  <2>1. w - u = Block * (q - p) + 0
    BY <1>2, <1>3, Sizes, SMT
  <2>2. q - p \in Int /\ 0 \in 0..(Block - 1)
    BY Sizes
  <2>3. (Block * (q - p) + 0) \div Block = q - p
    <3>. DEFINE d == q - p
    <3>1. d \in Int
      BY <2>2
    <3>. HIDE DEF d
    <3>2. (Block * d + 0) \div Block = d
      BY <2>2, <3>1, Sizes, DivUnique
    <3>. QED
      BY <3>2 DEF d
  <2>. QED
    BY <1>1, <2>1, <2>3
<1>8. y * Block + r + 1 = x * Block + (a - u) + 1
  BY <1>2, <1>3, <1>4, <1>5, <1>7, Sizes, SMT
<1>. QED
  BY <1>6, <1>8 DEF x

LEMMA VtopIs ==
  ASSUME hive \in Hives, NEW v \in Nat, Base(v) \in DOMAIN hive.at, HiveVtop(v) # None
  PROVE  /\ HiveVtop(v) = hive.at[Base(v)] * Block + (v % Block) + SizeField
         /\ HiveVtop(v) \in Nat
<1>1. MapBlock(v) = Base(v)
  BY MapBlockIs
<1>. DEFINE x == hive.at[Base(v)]
            r == v % Block
<1>2. x \in Nat /\ r \in 0..(Block - 1)
  BY BlockFacts, BaseFacts
<1>3. CASE hive.flat
  <2>. DEFINE q == v \div Block
  <2>1. HiveVtop(v) = hive.base * Block + v + Block + SizeField
    BY <1>3 DEF HiveVtop
  <2>2. x = hive.base + 1 + (Base(v) \div Block) /\ hive.base \in Nat
    BY <1>3, HiveAssumption DEF IsHive
  <2>3. Base(v) \div Block = q /\ v = Block * q + r /\ q \in Nat
    BY BaseFacts, MultipleIsBase
  <2>. HIDE DEF x, r, q
  <2>4. hive.base * Block + v + Block + SizeField = x * Block + r + SizeField
    BY <1>2, <2>2, <2>3, Sizes, SMT
  <2>5. x * Block + r + SizeField \in Nat
    BY <1>2, Sizes, SMT
  <2>. QED
    BY <2>1, <2>4, <2>5 DEF x, r
<1>4. CASE ~hive.flat
  <2>1. HiveVtop(v) = x * Block + r + SizeField
    BY <1>1, <1>4 DEF HiveVtop
  <2>. HIDE DEF x, r
  <2>2. x * Block + r + SizeField \in Nat
    BY <1>2, Sizes, SMT
  <2>. QED
    BY <2>1, <2>2 DEF x, r
<1>. QED
  BY <1>3, <1>4

\* A read of the base gives data if all pages are there.
There(p, n) ==
  \A a \in p..(p + n - 1) : a \div Block \in DOMAIN base /\ base[a \div Block] = "present"

LEMMA BaseReadIs ==
  ASSUME NEW p, NEW n
  PROVE  /\ IsData(BaseRead(p, n)) <=> There(p, n)
         /\ There(p, n) => BaseRead(p, n) = Data([j \in 1..n |-> p + j])
         /\ ~There(p, n) => BaseRead(p, n) \in {No("None"), No("NoneObject")}
<1>. DEFINE lost == {a \in p..(p + n - 1) :
                 a \div Block \notin DOMAIN base \/ base[a \div Block] # "present"}
<1>1. There(p, n) <=> lost = {}
  BY DEF There
<1>2. CASE lost = {}
  BY <1>1, <1>2 DEF BaseRead, Data, IsData
<1>3. CASE lost # {}
  <2>1. BaseRead(p, n) \in {No("None"), No("NoneObject")}
    BY <1>3 DEF BaseRead
  <2>2. ~IsData(BaseRead(p, n))
    BY <2>1 DEF No, IsData
  <2>. QED
    BY <1>1, <1>3, <2>1, <2>2
<1>. QED
  BY <1>2, <1>3

\* What is in memory has been loaded.
LEMMA IsLoaded ==
  ASSUME hive \in Hives, base \in Bases, NEW v \in Nat, NEW n \in Nat \ {0},
         Base(v) \in DOMAIN hive.at, HiveVtop(v) # None, There(HiveVtop(v), n)
  PROVE  hive.at[Base(v)] # 0
<1>. SUFFICES ASSUME hive.at[Base(v)] = 0 PROVE FALSE
  OBVIOUS
<1>. DEFINE p == HiveVtop(v)
            r == v % Block
            x == hive.at[Base(v)] * Block
<1>1. p = x + r + SizeField /\ p \in Nat
  BY VtopIs
<1>2. x = 0 /\ r \in 0..(Block - 1)
  <2>1. x = 0
    BY Sizes, SMT
  <2>. QED
    BY <2>1, BaseFacts
<1>. HIDE DEF p, r, x
<1>3. p \in 0..(2 * Block - 1)
  BY <1>1, <1>2, Sizes
<1>4. p \div Block \in {0, 1}
  <2>1. CASE p < Block
    <3>1. p \in 0..(Block - 1) /\ Block * 0 + p = p
      BY <1>3, <2>1, Sizes, SMT
    <3>2. (Block * 0 + p) \div Block = 0
      BY <3>1, BaseUnique
    <3>. QED
      BY <3>1, <3>2
  <2>2. CASE ~(p < Block)
    <3>. DEFINE d == p - Block
    <3>1. d \in 0..(Block - 1) /\ Block * 1 + d = p
      BY <1>3, <2>2, Sizes, SMT
    <3>. HIDE DEF d
    <3>2. (Block * 1 + d) \div Block = 1
      BY <3>1, BaseUnique
    <3>. QED
      BY <3>1, <3>2
  <2>. QED
    BY <2>1, <2>2
<1>5. p \div Block \in DOMAIN base
  <2>1. p \in p..(p + n - 1)
    BY <1>1
  <2>2. There(p, n)
    BY DEF p
  <2>. QED
    BY <2>1, <2>2 DEF There
<1>6. DOMAIN base \cap {0, 1} = {}
  BY HiveAssumption
<1>. QED
  BY <1>4, <1>5, <1>6
-----------------------------------------------------------------------------
(* The pieces of a read.                                                   *)

\* A piece begins where the read does or at the begin of a block.
LEMMA PieceWithin ==
  ASSUME hive \in Hives, NEW at \in Nat, NEW len \in Nat \ {0}, Within(at, len),
         NEW v \in Nat, NEW n \in Nat \ {0}, v + n <= at + len,
         v = at \/ (at < v /\ v % Block = 0)
  PROVE  Within(v, n) /\ Base(v) \in DOMAIN hive.at /\ hive.bin[Base(v)] = hive.bin[Base(at)]
<1>. DEFINE b == hive.bin[Base(at)]
            R == {at} \cup (at + SizeField)..(at + SizeField + len - 1)
            Right(w) == Base(w) \in DOMAIN hive.at /\ hive.bin[Base(w)] = b
<1>1. \A w \in R : Right(w)
  BY WithinFacts
<1>2. Right(v)
  <2>1. CASE v \in R
    BY <1>1, <2>1
  <2>2. CASE v \notin R
    <3>1. at < v /\ v < at + SizeField /\ v % Block = 0
      BY <2>2, Sizes
    <3>. DEFINE w == at + SizeField
                q == v \div Block
                m == Block * q
                r == w - v
    <3>2. v = m /\ m \in Nat /\ q \in Nat
      <4>1. v = Base(v) + 0 /\ Base(v) = m /\ Base(v) \in Nat /\ q \in Nat
        BY <3>1, BaseFacts
      <4>. QED
        BY <4>1
    <3>3. w \in R /\ r \in 0..(Block - 1) /\ w = v + r
      BY <3>1, Sizes
    <3>. HIDE DEF w, q, r
    <3>4. Base(w) = m /\ Base(v) = m
      <4>1. w = Block * q + r
        BY <3>2, <3>3
      <4>2. Base(Block * q + r) = Block * q /\ Base(Block * q) = Block * q
        BY <3>2, <3>3, BaseUnique, MultipleIsBase
      <4>. QED
        BY <3>2, <4>1, <4>2
    <3>. QED
      BY <1>1, <3>3, <3>4
  <2>. QED
    BY <2>1, <2>2
<1>3. \A w \in (v + SizeField)..(v + SizeField + n - 1) : w \in R
  BY Sizes
<1>4. Within(v, n)
  <2>1. DOMAIN hive.bin = DOMAIN hive.at
    BY HiveAssumption DEF IsHive
  <2>2. \A w \in {v} \cup (v + SizeField)..(v + SizeField + n - 1) : Right(w)
    BY <1>1, <1>2, <1>3
  <2>3. b \in {hive.bin[i] : i \in DOMAIN hive.bin}
    BY <1>2, <2>1
  <2>. HIDE DEF b
  <2>4. \A w \in {v} \cup (v + SizeField)..(v + SizeField + n - 1) :
          w - (w % Block) \in DOMAIN hive.bin /\ hive.bin[w - (w % Block)] = b
    BY <2>1, <2>2 DEF Base
  <2>. QED
    BY <2>3, <2>4 DEF Within
<1>. QED
  BY <1>2, <1>4

LEMMA CellType ==
  ASSUME hive \in Hives, NEW v \in Nat, NEW n \in Nat, Within(v, n)
  PROVE  /\ CellData(v, n) \in Seq(Nat) /\ Len(CellData(v, n)) = n
         /\ DOMAIN CellData(v, n) = 1..n
<1>. SUFFICES ASSUME NEW j \in 1..n
              PROVE  ByteAt(v + SizeField + j - 1) \in Nat
  <2>1. CellData(v, n) \in [1..n -> Nat]
    BY DEF CellData
  <2>. QED
    BY <2>1
<1>. DEFINE a == v + SizeField + j - 1
            x == hive.at[Base(a)]
            r == a % Block
<1>1. a \in Nat /\ a \in (v + SizeField)..(v + SizeField + n - 1)
  BY Sizes
<1>2. Base(a) \in DOMAIN hive.at
  BY <1>1, WithinFacts
<1>3. x \in Nat /\ r \in Nat
  <2>1. hive.at[Base(a)] \in Nat
    BY <1>2, BlockFacts
  <2>2. a % Block \in 0..(Block - 1)
    BY <1>1, BaseFacts
  <2>. QED
    BY <2>1, <2>2, Sizes
<1>4. ByteAt(a) = x * Block + r + 1
  BY DEF ByteAt, Base
<1>. HIDE DEF x, r
<1>5. x * Block + r + 1 \in Nat
  BY <1>3, Sizes, SMT
<1>. QED
  BY <1>4, <1>5

LEMMA CellsJoin ==
  ASSUME NEW v \in Nat, NEW m \in Nat, NEW n \in Nat
  PROVE  CellData(v, m) \o CellData(v + m, n) = CellData(v, m + n)
<1>. DEFINE s == CellData(v, m)
            t == CellData(v + m, n)
            f(j) == ByteAt(v + SizeField + j - 1)
<1>1. s = [j \in 1..m |-> f(j)] /\ Len(s) = m
  BY DEF CellData
<1>2. t = [j \in 1..n |-> f(m + j)] /\ Len(t) = n
  <2>1. \A j \in 1..n : (v + m) + SizeField + j - 1 = v + SizeField + (m + j) - 1
    BY Sizes
  <2>2. \A j \in 1..n : ByteAt((v + m) + SizeField + j - 1) = f(m + j)
    BY <2>1
  <2>3. t = [j \in 1..n |-> ByteAt((v + m) + SizeField + j - 1)]
    BY DEF CellData
  <2>. QED
    BY <2>2, <2>3
<1>3. CellData(v, m + n) = [j \in 1..(m + n) |-> f(j)]
  BY DEF CellData
<1>. HIDE DEF s, t, f
<1>4. s \o t = [j \in 1..(m + n) |-> IF j <= m THEN s[j] ELSE t[j - m]]
  BY <1>1, <1>2
<1>5. \A j \in 1..(m + n) : (IF j <= m THEN s[j] ELSE t[j - m]) = f(j)
  <2>. TAKE j \in 1..(m + n)
  <2>1. CASE j <= m
    BY <1>1, <2>1
  <2>2. CASE ~(j <= m)
    <3>1. j - m \in 1..n /\ m + (j - m) = j
      BY <2>2
    <3>2. t[j - m] = f(m + (j - m))
      BY <1>2, <3>1
    <3>. QED
      BY <2>2, <3>1, <3>2
  <2>. QED
    BY <2>1, <2>2
<1>. QED
  BY <1>3, <1>4, <1>5 DEF s, t

\* Where the hive is mapped, memory goes on as the bin does.
LEMMA VtopInBin ==
  ASSUME hive \in Hives, NEW u \in Nat, NEW v \in Nat, u <= v,
         Base(u) \in DOMAIN hive.at, Base(v) \in DOMAIN hive.at,
         hive.bin[Base(v)] = hive.bin[Base(u)],
         HiveVtop(u) # None, HiveVtop(v) # None, hive.at[Base(u)] # 0
  PROVE  HiveVtop(v) = HiveVtop(u) + (v - u)
<1>. DEFINE w == Base(u)
            x == hive.at[w] * Block
            r == u % Block
<1>1. w \in Nat /\ u = w + r /\ r \in 0..(Block - 1) /\ w <= v
  BY BaseFacts, Sizes
<1>2. ByteAt(v) = x + (v - w) + 1
  BY <1>1, ByteInBin, BlockFacts
<1>3. HiveVtop(v) = ByteAt(v) - 1 + SizeField
  <2>. DEFINE y == hive.at[Base(v)] * Block
              s == v % Block
  <2>1. y \in Nat /\ s \in Nat
    <3>1. hive.at[Base(v)] \in Nat
      BY BlockFacts
    <3>2. v % Block \in 0..(Block - 1)
      BY BaseFacts
    <3>3. hive.at[Base(v)] * Block \in Nat
      BY <3>1, Sizes, SMT
    <3>. QED
      BY <3>2, <3>3, Sizes
  <2>2. ByteAt(v) = y + s + 1
    BY DEF ByteAt, Base
  <2>3. HiveVtop(v) = y + s + SizeField
    BY VtopIs
  <2>. HIDE DEF y, s
  <2>. QED
    BY <2>1, <2>2, <2>3, Sizes
<1>4. HiveVtop(u) = x + r + SizeField
  BY VtopIs
<1>5. x \in Nat
  BY BlockFacts, Sizes, SMT
<1>. HIDE DEF w, x, r
<1>. QED
  BY <1>1, <1>2, <1>3, <1>4, <1>5, Sizes

\* What the hive's memory gives is the data of the cell.
LEMMA GetCells ==
  ASSUME hive \in Hives, base \in Bases, ~job.saved, NEW v \in Nat, NEW n \in Nat \ {0}, Within(v, n)
  PROVE  /\ Get(v, n).kind \in {"data", "None", "NoneObject"}
         /\ IsData(Get(v, n)) => Vtop(v) # None /\ Get(v, n) = Data(CellData(v, n))
         /\ ~IsData(Get(v, n)) => Get(v, n) \in {No("None"), No("NoneObject")}
<1>1. Vtop(v) = HiveVtop(v)
  BY DEF Vtop
<1>. DEFINE p == HiveVtop(v)
<1>2. CASE p = None
  <2>1. Get(v, n) = No("None")
    BY <1>1, <1>2 DEF Get
  <2>. QED
    BY <2>1 DEF No, IsData
<1>3. CASE p # None
  <2>1. Get(v, n) = BaseRead(p, n)
    BY <1>1, <1>3 DEF Get, Read
  <2>2. ~IsData(Get(v, n)) => Get(v, n) \in {No("None"), No("NoneObject")}
    BY <2>1, BaseReadIs
  <2>3. ASSUME IsData(Get(v, n)) PROVE Get(v, n) = Data(CellData(v, n))
    <3>1. BaseRead(p, n) = Data([j \in 1..n |-> p + j])
      BY <2>1, <2>3, BaseReadIs
    <3>. DEFINE u == Base(v)
                x == hive.at[u] * Block
                r == v % Block
    <3>2. u \in DOMAIN hive.at /\ u \in Nat /\ v = u + r /\ r \in 0..(Block - 1)
      BY WithinFacts, BaseFacts
    <3>3. p = x + r + SizeField
      BY <1>3, <3>2, VtopIs
    <3>4. x \in Nat
      BY <3>2, BlockFacts, Sizes, SMT
    <3>l. hive.at[u] # 0
      BY <1>3, <2>1, <2>3, <3>2, BaseReadIs, IsLoaded
    <3>5. ASSUME NEW j \in 1..n PROVE ByteAt(v + SizeField + j - 1) = p + j
      <4>. DEFINE a == v + SizeField + j - 1
      <4>1. a \in Nat /\ a \in (v + SizeField)..(v + SizeField + n - 1) /\ u <= a
        BY <3>2, Sizes
      <4>2. Base(a) \in DOMAIN hive.at /\ hive.bin[Base(a)] = hive.bin[u]
        BY <4>1, WithinFacts
      <4>3. Base(u) = u
        BY <3>2, BlockFacts
      <4>4. ByteAt(a) = x + (a - u) + 1
        BY <3>2, <3>l, <4>1, <4>2, ByteInBin
      <4>. HIDE DEF u, x, r, p
      <4>. QED
        BY <3>2, <3>3, <3>4, <4>1, <4>4, Sizes
    <3>6. CellData(v, n) = [j \in 1..n |-> p + j]
      BY <3>5 DEF CellData
    <3>. QED
      BY <2>1, <3>1, <3>6
  <2>4. Get(v, n).kind \in {"data", "None", "NoneObject"}
    BY <2>2 DEF No, IsData
  <2>. QED
    BY <1>1, <1>3, <2>2, <2>3, <2>4
<1>. QED
  BY <1>2, <1>3
-----------------------------------------------------------------------------
(* The parts of a read: the rest of a block, full blocks, what is left.    *)

LEMMA Parts ==
  ASSUME job.at \in Nat, job.len \in Nat \ {0}
  PROVE  /\ FirstBlock \in 1..Block
         /\ \E k \in Nat : job.at + FirstBlock = Block * k
         /\ job.len >= FirstBlock =>
              /\ FullBlocks \in Nat /\ FullsEnd \in Nat
              /\ FullsEnd = job.at + FirstBlock + Block * FullBlocks
              /\ LeftOver \in 0..(Block - 1) /\ FullsEnd + LeftOver = job.at + job.len
<1>. DEFINE at == job.at
            len == job.len
            q == at \div Block
            r == at % Block
            d == (len + r) \div Block
            s == (len + r) % Block
            x == Block * q
            y == Block * d
<1>1. at = x + r /\ x \in Nat /\ q \in Nat /\ r \in 0..(Block - 1)
  BY BaseFacts
<1>2. len + r \in Nat /\ len \in Nat
  <2>. HIDE DEF r
  <2>. QED
    BY <1>1, Sizes
<1>3. len + r = y + s /\ d \in Nat /\ s \in 0..(Block - 1)
  <2>. DEFINE u == len + r
  <2>. HIDE DEF u
  <2>1. u = Block * (u \div Block) + (u % Block) /\ u \div Block \in Nat /\ u % Block \in 0..(Block - 1)
    BY <1>2, Sizes, DivMod DEF u
  <2>. QED
    BY <2>1 DEF u
<1>4. FirstBlock = Block - r /\ FullBlocks = d - 1 /\ LeftOver = (at + len) % Block
      /\ FullsEnd = at + FirstBlock + Block * FullBlocks
  BY DEF FirstBlock, FullBlocks, LeftOver, FullsEnd
<1>5. y \in Nat /\ Block * (q + 1) = x + Block /\ Block * (q + d) = x + y /\ Block * (d - 1) = y - Block
  <2>. HIDE DEF q, d, r, s
  <2>. QED
    BY <1>1, <1>3, Sizes, SMT
<1>6. LeftOver = s
  <2>1. (Block * (q + d) + s) % Block = s
    <3>. DEFINE e == q + d
    <3>1. e \in Int
      BY <1>1, <1>3
    <3>. HIDE DEF e
    <3>2. (Block * e + s) % Block = s
      BY <1>3, <3>1, Sizes, DivUnique
    <3>. QED
      BY <3>2 DEF e
  <2>2. at + len = Block * (q + d) + s
    <3>. HIDE DEF at, len, q, r, d, s, x, y
    <3>. QED
      BY <1>1, <1>2, <1>3, <1>5, Sizes
  <2>. QED
    BY <1>4, <2>1, <2>2
<1>. HIDE DEF q, r, d, s, x, y
<1>7. FirstBlock \in 1..Block
  BY <1>1, <1>4, Sizes
<1>8. job.at + FirstBlock = Block * (q + 1) /\ q + 1 \in Nat
  BY <1>1, <1>4, <1>5, Sizes
<1>9. ASSUME job.len >= FirstBlock
      PROVE  d \in Nat \ {0}
  <2>1. y + s >= Block
    BY <1>1, <1>2, <1>3, <1>4, <1>9, Sizes
  <2>2. CASE d = 0
    <3>1. y = 0
      BY <2>2, Sizes, SMT DEF y
    <3>. QED
      BY <1>3, <2>1, <3>1, Sizes
  <2>. QED
    BY <1>3, <2>2
<1>10. ASSUME job.len >= FirstBlock
       PROVE  /\ FullBlocks \in Nat /\ FullsEnd \in Nat
              /\ LeftOver \in 0..(Block - 1) /\ FullsEnd + LeftOver = job.at + job.len
  <2>1. FullBlocks \in Nat
    BY <1>4, <1>9, <1>10
  <2>2. Block * FullBlocks = y - Block
    BY <1>4, <1>5
  <2>3. FullsEnd = x + y
    BY <1>1, <1>4, <1>5, <2>2, Sizes
  <2>. QED
    BY <1>1, <1>2, <1>3, <1>5, <1>6, <2>1, <2>3, Sizes
<1>. QED
  BY <1>4, <1>7, <1>8, <1>10

\* The next full block ends by the end of the full blocks.
LEMMA FullStep ==
  ASSUME job.at \in Nat, job.len \in Nat \ {0}, job.len >= FirstBlock,
         NEW v \in Nat, v % Block = 0, job.at + FirstBlock <= v, v < FullsEnd
  PROVE  /\ v + Block <= FullsEnd /\ (v + Block) % Block = 0
         /\ \E i \in 0..(FullBlocks - 1) : v = job.at + FirstBlock + i * Block
<1>1. PICK k \in Nat : job.at + FirstBlock = Block * k
  BY Parts
<1>2. FullBlocks \in Nat /\ FullsEnd = job.at + FirstBlock + Block * FullBlocks
  BY Parts
<1>. DEFINE p == v \div Block
            m == FullBlocks
            i == p - k
<1>3. v = Block * p /\ p \in Nat
  <2>1. v = Base(v) + 0 /\ Base(v) = Block * p /\ Base(v) \in Nat /\ p \in Nat
    BY BaseFacts
  <2>. QED
    BY <2>1
<1>. HIDE DEF p, m
<1>4. FullsEnd = Block * (k + m)
  BY <1>1, <1>2, Sizes, SMT DEF m
<1>5. p < k + m
  <2>1. ASSUME p >= k + m PROVE FALSE
    <3>1. Block * p >= Block * (k + m)
      BY <1>2, <1>3, <2>1, Sizes, SMT DEF m
    <3>2. Block * (k + m) \in Nat /\ Block * p \in Nat
      BY <1>2, <1>3, Sizes, SMT DEF m
    <3>. QED
      BY <1>3, <1>4, <3>1, <3>2
  <2>. QED
    BY <1>2, <1>3, <2>1 DEF m
<1>6. k <= p
  <2>1. ASSUME p < k PROVE FALSE
    <3>1. Block * p + Block <= Block * k
      BY <1>3, <2>1, Sizes, SMT
    <3>2. Block * k \in Nat /\ Block * p \in Nat
      BY <1>3, Sizes, SMT
    <3>. QED
      BY <1>1, <1>3, <3>1, <3>2, Sizes
  <2>. QED
    BY <1>3, <2>1
<1>7. v + Block = Block * (p + 1) /\ p + 1 \in Nat
  BY <1>3, Sizes, SMT
<1>8. (v + Block) % Block = 0
  BY <1>7, MultipleIsBase
<1>9. v + Block <= FullsEnd
  <2>1. Block * (p + 1) <= Block * (k + m)
    BY <1>2, <1>3, <1>5, Sizes, SMT DEF m
  <2>. QED
    BY <1>4, <1>7, <2>1
<1>10. i \in 0..(FullBlocks - 1) /\ v = job.at + FirstBlock + i * Block
  <2>1. i \in 0..(FullBlocks - 1)
    BY <1>2, <1>3, <1>5, <1>6 DEF m
  <2>2. i * Block = Block * p - Block * k
    BY <1>3, Sizes, SMT
  <2>3. Block * k \in Nat /\ Block * p \in Nat
    BY <1>3, Sizes, SMT
  <2>. QED
    BY <1>1, <1>3, <2>1, <2>2, <2>3
<1>. QED
  BY <1>8, <1>9, <1>10
-----------------------------------------------------------------------------
(* The inductive invariant.                                                *)

Result == [kind : {"data", "None", "NoneObject", "TypeError"}, bytes : Seq(Nat)]

Typed ==
  /\ hive \in Hives /\ base \in Bases
  /\ pc \in {"idle", "read", "save", "stats"}
  /\ job \in [at : Nat, len : Nat, zero : BOOLEAN, saved : BOOLEAN, next : Nat, got : Result]
  /\ block \in Nat /\ file \in Seq(Nat)
  /\ bad \in [stor : 0..2, reg : Nat, mem : Nat]

\* A read has a range, and a piece of it begins at its begin or a block's.
Ranged ==
  /\ IF job.len = 0 THEN job = NoJob ELSE Within(job.at, job.len)
  /\ job.saved => file # <<>>
  /\ pc = "read" =>
       /\ job.len # 0 /\ bad = NoCount
       /\ job.next # job.at =>
            /\ job.len >= FirstBlock /\ job.next % Block = 0
            /\ job.at + FirstBlock <= job.next /\ job.next <= FullsEnd
  /\ pc \in {"save", "stats"} => job = NoJob

\* How many bytes have been asked for.
Amount == IF pc = "read" THEN job.next - job.at ELSE job.len

\* Is all that is read mapped and in memory?
Whole ==
  /\ \A a \in {job.at} \cup job.at..(job.at + job.len - 1) : HiveVtop(a) # None
  /\ IsData(BaseRead(HiveVtop(job.at), job.len))

\* What save makes of the byte at an address.
SavedByte(a) == IF IsData(BlockRead(Base(a))) THEN ByteAt(a) ELSE 0
SavedData(v, n) == [j \in 1..n |-> SavedByte(v + SizeField + j - 1)]

\* Is a result right, once m bytes have been asked for?
RightSoFar(r, m) ==
  IF job.saved THEN job.at < Volatile => r = Data(SavedData(job.at, m))
  ELSE /\ IsData(r) /\ ~job.zero => r.bytes = CellData(job.at, m)
       /\ IsData(r) /\ job.zero /\ ~FullLost =>
            /\ Len(r.bytes) = m
            /\ \A j \in 1..m : r.bytes[j] \in {CellData(job.at, m)[j], 0}
       /\ Whole => r = Data(CellData(job.at, m))

FileRight ==
  /\ pc = "save" =>
       /\ file # <<>> /\ bad = NoCount
       /\ \E q \in 0..hive.length[1] : block = Block * q
  /\ file # <<>> =>
       LET n == IF pc = "save" THEN block ELSE Block * hive.length[1]
       IN Len(file) = Block + n /\ \A a \in 0..(n - 1) : file[Block + a + 1] = SavedByte(a)

\* The first n blocks of the stable storage that cannot be read.
Lost(n) == {i \in 1..n : ~IsData(BlockRead(Block * (i - 1)))}

StatsRight ==
  /\ pc = "stats" => bad.stor # 0
  /\ pc = "stats" /\ bad.stor = 1 =>
       \E q \in 0..hive.length[1] : block = Block * q /\ bad.reg + bad.mem = Cardinality(Lost(q))
  /\ pc = "idle" /\ bad.stor = 1 => bad.reg + bad.mem = Cardinality(Lost(hive.length[1]))

Inv == Typed /\ Ranged /\ RightSoFar(job.got, Amount) /\ FileRight /\ StatsRight

LEMMA SameHive ==
  ASSUME hive' = hive, base' = base
  PROVE  /\ \A v : HiveVtop(v)' = HiveVtop(v)
         /\ \A p, n : BaseRead(p, n)' = BaseRead(p, n)
         /\ \A v : BlockRead(v)' = BlockRead(v)
         /\ \A v, n : CellData(v, n)' = CellData(v, n)
         /\ \A v, n : Within(v, n)' <=> Within(v, n)
         /\ \A a : SavedByte(a)' = SavedByte(a)
         /\ \A v, n : SavedData(v, n)' = SavedData(v, n)
         /\ \A n : Lost(n)' = Lost(n)
<1>1. \A v : HiveVtop(v)' = HiveVtop(v)
  BY DEF HiveVtop, MapBlock
<1>2. \A p, n : BaseRead(p, n)' = BaseRead(p, n)
  BY DEF BaseRead, Data, No
<1>3. \A v : BlockRead(v)' = BlockRead(v)
  BY DEF BlockRead, HiveVtop, MapBlock, BaseRead, Data, No
<1>4. \A v : ByteAt(v)' = ByteAt(v)
  BY DEF ByteAt
<1>5. \A v, n : CellData(v, n)' = CellData(v, n)
  BY DEF CellData, ByteAt
<1>6. \A v, n : Within(v, n)' <=> Within(v, n)
  BY DEF Within
<1>7. \A a : SavedByte(a)' = SavedByte(a)
  BY DEF SavedByte, Base, ByteAt, BlockRead, HiveVtop, MapBlock, BaseRead, Data, No, IsData
<1>8. \A v, n : SavedData(v, n)' = SavedData(v, n)
  BY DEF SavedData, SavedByte, Base, ByteAt, BlockRead, HiveVtop, MapBlock, BaseRead, Data, No, IsData
<1>9. \A n : Lost(n)' = Lost(n)
  BY DEF Lost, BlockRead, HiveVtop, MapBlock, BaseRead, Data, No, IsData
<1>. QED
  BY <1>1, <1>2, <1>3, <1>5, <1>6, <1>7, <1>8, <1>9

LEMMA SameRange ==
  ASSUME UNCHANGED <<hive, base, file>>,
         job'.at = job.at, job'.len = job.len, job'.zero = job.zero, job'.saved = job.saved
  PROVE  /\ FirstBlock' = FirstBlock /\ FullsEnd' = FullsEnd
         /\ \A r, m : RightSoFar(r, m)' <=> RightSoFar(r, m)
<1>1. FirstBlock' = FirstBlock /\ FullBlocks' = FullBlocks /\ FullsEnd' = FullsEnd
  BY DEF FirstBlock, FullBlocks, FullsEnd
<1>2. FullLost' <=> FullLost
  BY DEF FullLost, FullBlocks, FirstBlock, Vtop, FileVtop, HiveVtop, MapBlock, Get, Read, FileRead, BaseRead, IsData, Data, No
<1>3. Whole' <=> Whole
  BY DEF Whole, HiveVtop, MapBlock, BaseRead, IsData, Data, No
<1>4. \A v, n : CellData(v, n)' = CellData(v, n) /\ SavedData(v, n)' = SavedData(v, n)
  BY SameHive
<1>5. ASSUME NEW r, NEW m
      PROVE  RightSoFar(r, m)' <=>
        IF job'.saved THEN job'.at < Volatile => r = Data(SavedData(job.at, m)')
        ELSE /\ IsData(r) /\ ~job'.zero => r.bytes = CellData(job.at, m)'
             /\ IsData(r) /\ job'.zero /\ ~FullLost' =>
                  /\ Len(r.bytes) = m
                  /\ \A j \in 1..m : r.bytes[j] \in {CellData(job.at, m)'[j], 0}
             /\ Whole' => r = Data(CellData(job.at, m)')
  BY DEF RightSoFar
<1>. QED
  BY <1>1, <1>2, <1>3, <1>4, <1>5 DEF RightSoFar

LEMMA InitInv == Init => Inv
<1>. SUFFICES ASSUME Init PROVE Inv
  OBVIOUS
<1>1. job = NoJob /\ pc = "idle" /\ file = <<>> /\ bad = NoCount /\ block = 0
  BY DEF Init
<1>2. Typed
  <2>1. job.got = [kind |-> "data", bytes |-> <<>>] /\ job.got \in Result
    BY <1>1 DEF NoJob, Result
  <2>2. job \in [at : Nat, len : Nat, zero : BOOLEAN, saved : BOOLEAN, next : Nat, got : Result]
    BY <1>1, <2>1 DEF NoJob
  <2>. QED
    BY <1>1, <2>2 DEF Init, Typed, NoCount
<1>3. Ranged
  BY <1>1 DEF Ranged, NoJob
<1>4. RightSoFar(job.got, Amount)
  <2>1. Amount = 0 /\ job.got = Data(<<>>) /\ ~job.saved /\ ~job.zero /\ job.at = 0
    BY <1>1 DEF Amount, NoJob, Data
  <2>2. CellData(0, 0) = <<>>
    BY DEF CellData
  <2>. QED
    BY <2>1, <2>2 DEF RightSoFar, Data
<1>5. FileRight
  BY <1>1 DEF FileRight
<1>6. StatsRight
  BY <1>1 DEF StatsRight, NoCount
<1>. QED
  BY <1>2, <1>3, <1>4, <1>5, <1>6 DEF Inv

\* May a read ask for n bytes at v?
Asked(v, n) ==
  /\ v + n <= job.at + job.len
  /\ v = job.at \/ (job.at < v /\ v % Block = 0)

\* A bin is of one storage: of a cell on disk all bytes are.
LEMMA StableStays ==
  ASSUME hive \in Hives, NEW v \in Nat, NEW n \in Nat, Within(v, n), v < Volatile,
         NEW a \in (v + SizeField)..(v + SizeField + n - 1)
  PROVE  a \in 0..(Block * hive.length[1] - 1)
<1>. DEFINE u == Base(a)
            w == Base(v)
            L == hive.length[1]
<1>1. a \in Nat
  BY Sizes
<1>2. u \in DOMAIN hive.at /\ w \in DOMAIN hive.at /\ hive.bin[u] = hive.bin[w]
  BY WithinFacts
<1>3. w < Volatile /\ u \in Nat /\ a = u + (a % Block) /\ a % Block \in 0..(Block - 1)
  <2>1. v = Base(v) + (v % Block) /\ Base(v) \in Nat /\ v % Block \in 0..(Block - 1)
    BY BaseFacts
  <2>2. u \in Nat /\ a = u + (a % Block) /\ a % Block \in 0..(Block - 1)
    BY <1>1, BaseFacts
  <2>3. w < Volatile
    <3>. HIDE DEF w
    <3>1. v = w + (v % Block) /\ w \in Nat /\ v % Block \in Nat
      BY <2>1, Sizes DEF w
    <3>. QED
      BY <3>1, Sizes
  <2>. QED
    BY <2>2, <2>3
<1>4. IsHive(hive) /\ L \in Nat /\ hive.length[2] \in Nat
  BY HiveAssumption DEF IsHive
<1>5. u < Volatile
  <2>1. \A i, j \in DOMAIN hive.at : hive.bin[i] = hive.bin[j] => (i < Volatile <=> j < Volatile)
    BY <1>4 DEF IsHive
  <2>. QED
    BY <1>2, <1>3, <2>1
<1>6. u \in BlocksOf(hive)
  BY <1>2, <1>4 DEF IsHive
<1>7. ASSUME NEW i \in 0..(hive.length[2] - 1), u = Volatile + i * Block
      PROVE  FALSE
  <2>1. i * Block \in Nat
    BY <1>4, <1>7, Sizes, SMT
  <2>. QED
    BY <1>5, <1>7, <2>1, Sizes
<1>8. PICK i \in 0..(L - 1) : u = i * Block
  BY <1>6, <1>7 DEF BlocksOf
<1>9. i * Block + Block <= Block * L /\ Block * L \in Nat
  <2>1. i \in Nat /\ i + 1 <= L
    BY <1>4
  <2>. HIDE DEF L
  <2>2. L \in Nat
    BY <1>4
  <2>3. Block * (i + 1) <= Block * L
    BY <2>1, <2>2, Sizes, SMT
  <2>4. Block * (i + 1) = i * Block + Block /\ Block * L \in Nat
    BY <2>1, <2>2, Sizes, SMT
  <2>. QED
    BY <2>3, <2>4
<1>. HIDE DEF u, w
<1>. QED
  BY <1>1, <1>3, <1>8, <1>9, Sizes

\* What a part of the saved file is.
LEMMA SavedPart ==
  ASSUME Inv, job.saved, pc = "read", job.at < Volatile, NEW v \in Nat, NEW n \in Nat \ {0}, Asked(v, n)
  PROVE  Get(v, n) = Data(SavedData(v, n))
<1>. DEFINE p == v + Block + SizeField
            L == Block * hive.length[1]
<1>1. Typed /\ Ranged /\ FileRight
  BY DEF Inv
<1>2. Get(v, n) = FileRead(p, n)
  <2>1. Vtop(v) = p /\ p \in Nat
    BY Sizes DEF Vtop, FileVtop
  <2>2. p # None
    BY <2>1, HiveAssumption
  <2>. QED
    BY <2>1, <2>2 DEF Get, Read
<1>3. Len(file) = Block + L /\ \A a \in 0..(L - 1) : file[Block + a + 1] = SavedByte(a)
  BY <1>1 DEF FileRight, Ranged
<1>4. L \in Nat /\ file \in Seq(Nat)
  <2>1. hive.length[1] \in Nat
    BY <1>1, HiveAssumption DEF Typed, IsHive
  <2>. QED
    BY <1>1, <2>1, Sizes, SMT DEF Typed
<1>5. ASSUME NEW a \in (v + SizeField)..(v + SizeField + n - 1)
      PROVE  a \in 0..(L - 1)
  <2>1. hive \in Hives /\ job.at \in Nat /\ job.len \in Nat \ {0} /\ Within(job.at, job.len)
    BY <1>1 DEF Typed, Ranged
  <2>2. a \in (job.at + SizeField)..(job.at + SizeField + job.len - 1)
    <3>1. job.at <= v /\ v + n <= job.at + job.len
      BY <2>1 DEF Asked
    <3>. QED
      BY <2>1, <3>1, Sizes
  <2>. QED
    BY <2>1, <2>2, StableStays
<1>. HIDE DEF L
<1>6. p + n <= Len(file)
  <2>1. v + SizeField + n - 1 \in 0..(L - 1)
    BY <1>5, Sizes
  <2>. QED
    BY <1>3, <1>4, <2>1, Sizes
<1>. DEFINE s == SubSeq(file, p + 1, p + n)
<1>7. Len(s) = n /\ s = [j \in 1..n |-> file[p + j]]
  <2>. DEFINE k == p + 1
              m == p + n
  <2>1. p \in Nat /\ k \in Nat \ {0} /\ m \in Nat /\ m - k + 1 = n /\ m <= Len(file)
    BY <1>6, Sizes
  <2>. HIDE DEF p, k, m
  <2>2. \A i \in k..m : file[i] \in Nat
    <3>1. \A i \in 1..Len(file) : file[i] \in Nat
      BY <1>4
    <3>2. Len(file) \in Nat
      BY <1>4
    <3>. QED
      BY <2>1, <3>1, <3>2
  <2>3. /\ SubSeq(file, k, m) \in Seq(Nat)
        /\ Len(SubSeq(file, k, m)) = n
        /\ \A j \in 1..n : SubSeq(file, k, m)[j] = file[k + j - 1]
    <3>1. k \in Int /\ m \in Int
      BY <2>1
    <3>2. /\ SubSeq(file, k, m) \in Seq(Nat)
          /\ Len(SubSeq(file, k, m)) = IF k <= m THEN m - k + 1 ELSE 0
          /\ \A i \in 1..(m - k + 1) : SubSeq(file, k, m)[i] = file[k + i - 1]
      BY <2>2, <3>1, SubSeqProperties
    <3>3. k <= m
      BY <2>1
    <3>. QED
      BY <2>1, <3>2, <3>3
  <2>4. SubSeq(file, k, m) = [j \in 1..n |-> file[p + j]]
    <3>1. \A j \in 1..n : k + j - 1 = p + j
      BY <2>1 DEF k
    <3>. DEFINE t == SubSeq(file, k, m)
    <3>2. t \in Seq(Nat) /\ Len(t) = n /\ \A j \in 1..n : t[j] = file[k + j - 1]
      BY <2>3
    <3>. HIDE DEF t
    <3>3. t \in [1..n -> Nat] /\ \A j \in 1..n : t[j] = file[p + j]
      <4>1. t \in [1..n -> Nat]
        BY <3>2
      <4>2. \A j \in 1..n : t[j] = file[p + j]
        <5>. TAKE j \in 1..n
        <5>1. k + j - 1 = p + j /\ t[j] = file[k + j - 1]
          BY <3>1, <3>2
        <5>. QED
          BY <5>1
      <4>. QED
        BY <4>1, <4>2
    <3>4. t = [j \in 1..n |-> file[p + j]]
      BY <3>3
    <3>. QED
      BY <3>4 DEF t
  <2>5. s = SubSeq(file, k, m)
    BY DEF k, m
  <2>. QED
    BY <2>3, <2>4, <2>5
<1>8. \A j \in 1..n : file[p + j] = SavedByte(v + SizeField + j - 1)
  <2>. TAKE j \in 1..n
  <2>1. v + SizeField + j - 1 \in (v + SizeField)..(v + SizeField + n - 1)
    BY Sizes
  <2>2. v + SizeField + j - 1 \in 0..(L - 1)
    BY <1>5, <2>1
  <2>3. Block + (v + SizeField + j - 1) + 1 = p + j
    BY Sizes
  <2>. QED
    BY <1>3, <2>2, <2>3
<1>9. s = SavedData(v, n) /\ s # <<>>
  BY <1>7, <1>8 DEF SavedData
<1>10. FileRead(p, n) = Data(s)
  <2>1. (IF p + n < Len(file) THEN p + n ELSE Len(file)) = p + n
    <3>1. p + n \in Nat /\ Len(file) \in Nat
      BY <1>3, <1>4, Sizes
    <3>. QED
      BY <1>6, <3>1
  <2>. QED
    BY <1>9, <2>1 DEF FileRead
<1>. QED
  BY <1>2, <1>9, <1>10

LEMMA AskedWithin ==
  ASSUME Inv, pc = "read", NEW v \in Nat, NEW n \in Nat \ {0}, Asked(v, n)
  PROVE  /\ hive \in Hives /\ job.at \in Nat /\ job.len \in Nat \ {0} /\ Within(job.at, job.len)
         /\ Within(v, n) /\ job.at <= v
         /\ Base(v) \in DOMAIN hive.at /\ hive.bin[Base(v)] = hive.bin[Base(job.at)]
<1>1. hive \in Hives /\ job.at \in Nat /\ job.len \in Nat \ {0} /\ Within(job.at, job.len)
  BY DEF Inv, Typed, Ranged
<1>. DEFINE at == job.at
            len == job.len
<1>2. v + n <= at + len /\ (v = at \/ (at < v /\ v % Block = 0))
  BY DEF Asked
<1>3. at \in Nat /\ len \in Nat \ {0} /\ Within(at, len) /\ hive \in Hives
  BY <1>1
<1>. HIDE DEF at, len
<1>4. Within(v, n) /\ Base(v) \in DOMAIN hive.at /\ hive.bin[Base(v)] = hive.bin[Base(at)]
  BY <1>2, <1>3, PieceWithin
<1>5. at <= v
  BY <1>2, <1>3
<1>. QED
  BY <1>1, <1>4, <1>5 DEF at, len

LEMMA AskedGives ==
  ASSUME Inv, pc = "read", NEW v \in Nat, NEW n \in Nat \ {0}, Asked(v, n)
  PROVE  /\ Get(v, n) \in Result /\ Get(v, n).kind # "TypeError"
         /\ Vtop(v) = None => ~IsData(Get(v, n)) /\ ~job.saved
         /\ ~job.saved /\ IsData(Get(v, n)) => Get(v, n) = Data(CellData(v, n))
         /\ ~job.saved /\ Whole => IsData(Get(v, n))
         /\ job.saved /\ job.at < Volatile => Get(v, n) = Data(SavedData(v, n))
<1>1. /\ hive \in Hives /\ job.at \in Nat /\ job.len \in Nat \ {0} /\ Within(job.at, job.len)
      /\ Within(v, n) /\ job.at <= v
      /\ Base(v) \in DOMAIN hive.at /\ hive.bin[Base(v)] = hive.bin[Base(job.at)]
  BY AskedWithin
<1>b. base \in Bases
  BY DEF Inv, Typed
<1>2. ASSUME Vtop(v) = None PROVE ~IsData(Get(v, n)) /\ ~job.saved
  <2>1. Get(v, n) = No("None")
    BY <1>2 DEF Get
  <2>2. ASSUME job.saved PROVE FALSE
    <3>1. Vtop(v) = v + Block + SizeField
      BY <2>2 DEF Vtop, FileVtop
    <3>2. v + Block + SizeField \in Nat
      BY Sizes
    <3>. QED
      BY <1>2, <3>1, <3>2, HiveAssumption
  <2>. QED
    BY <2>1, <2>2 DEF No, IsData
<1>3. ASSUME ~job.saved
      PROVE  /\ Get(v, n).kind \in {"data", "None", "NoneObject"}
             /\ IsData(Get(v, n)) => Get(v, n) = Data(CellData(v, n))
             /\ ~IsData(Get(v, n)) => Get(v, n) \in {No("None"), No("NoneObject")}
  BY <1>1, <1>b, <1>3, GetCells
<1>4. ASSUME ~job.saved, Whole PROVE IsData(Get(v, n))
  <2>. DEFINE at == job.at
              len == job.len
              p == HiveVtop(at)
              d == v - at
  <2>1. at \in Nat /\ len \in Nat \ {0} /\ at <= v /\ v + n <= at + len
    BY <1>1 DEF Asked
  <2>2. p # None /\ HiveVtop(v) # None /\ There(p, len)
    <3>1. \A a \in {at} \cup at..(at + len - 1) : HiveVtop(a) # None
      BY <1>4 DEF Whole
    <3>2. v \in at..(at + len - 1)
      BY <2>1
    <3>3. There(p, len)
      BY <1>4, BaseReadIs DEF Whole
    <3>. QED
      BY <3>1, <3>2, <3>3
  <2>3. Base(at) \in DOMAIN hive.at
    BY <1>1, WithinFacts
  <2>4. HiveVtop(v) = p + d /\ p \in Nat /\ d \in Nat
    <3>1. HiveVtop(v) = p + d
      <4>1. hive.at[Base(at)] # 0
        BY <1>1, <2>1, <2>2, <2>3, IsLoaded DEF Inv, Typed
      <4>. QED
        BY <1>1, <2>1, <2>2, <2>3, <4>1, VtopInBin
    <3>2. p \in Nat
      BY <1>1, <2>2, <2>3, VtopIs
    <3>3. d \in Nat
      BY <2>1
    <3>. QED
      BY <3>1, <3>2, <3>3
  <2>5. d + n <= len
    BY <2>1
  <2>6. There(HiveVtop(v), n)
    <3>. HIDE DEF p, d, len
    <3>1. \A a \in (p + d)..(p + d + n - 1) : a \in p..(p + len - 1)
      BY <2>1, <2>4, <2>5
    <3>. QED
      BY <2>2, <2>4, <3>1 DEF There
  <2>7. Get(v, n) = BaseRead(HiveVtop(v), n)
    BY <1>4, <2>2 DEF Get, Vtop, Read
  <2>. QED
    BY <2>6, <2>7, BaseReadIs
<1>5. job.saved /\ job.at < Volatile => Get(v, n) = Data(SavedData(v, n))
  BY SavedPart
<1>6. Get(v, n) \in Result /\ Get(v, n).kind # "TypeError"
  <2>1. CASE job.saved
    <3>1. Get(v, n) = FileRead(Vtop(v), n)
      BY <1>2, <2>1 DEF Get, Read
    <3>. DEFINE p == Vtop(v)
                k == p + 1
                m == IF p + n < Len(file) THEN p + n ELSE Len(file)
    <3>2. p \in Nat /\ file \in Seq(Nat)
      <4>1. p = v + Block + SizeField
        BY <2>1 DEF Vtop, FileVtop
      <4>2. file \in Seq(Nat)
        BY DEF Inv, Typed
      <4>. QED
        BY <4>1, <4>2, Sizes
    <3>3. k \in Int /\ m \in Int /\ \A i \in k..m : file[i] \in Nat
      <4>. HIDE DEF p
      <4>1. Len(file) \in Nat /\ \A i \in 1..Len(file) : file[i] \in Nat
        BY <3>2
      <4>2. m <= Len(file) /\ k >= 1 /\ k \in Int /\ m \in Int
        BY <3>2, <4>1
      <4>3. \A i \in k..m : i \in 1..Len(file)
        BY <4>1, <4>2
      <4>. QED
        BY <4>1, <4>2, <4>3
    <3>. DEFINE s == SubSeq(file, k, m)
    <3>4. FileRead(p, n) = IF s = <<>> THEN No("None") ELSE Data(s)
      BY DEF FileRead
    <3>. HIDE DEF p, k, m
    <3>5. s \in Seq(Nat)
      BY <3>3, SubSeqProperties
    <3>. HIDE DEF s
    <3>6. FileRead(p, n) \in Result /\ FileRead(p, n).kind # "TypeError"
      BY <3>4, <3>5 DEF Result, No, Data
    <3>. QED
      BY <3>1, <3>6 DEF p
  <2>2. CASE ~job.saved
    <3>1. CASE IsData(Get(v, n))
      <4>1. CellData(v, n) \in Seq(Nat)
        BY <1>1, CellType
      <4>. QED
        BY <1>3, <2>2, <3>1, <4>1 DEF Result, Data
    <3>2. CASE ~IsData(Get(v, n))
      <4>1. No("None") \in Result /\ No("None").kind # "TypeError"
        BY DEF Result, No
      <4>2. No("NoneObject") \in Result /\ No("NoneObject").kind # "TypeError"
        BY DEF Result, No
      <4>. QED
        BY <1>3, <2>2, <3>2, <4>1, <4>2
    <3>. QED
      BY <3>1, <3>2
  <2>. QED
    BY <2>1, <2>2
<1>7. ~job.saved /\ IsData(Get(v, n)) => Get(v, n) = Data(CellData(v, n))
  BY <1>3
<1>. QED
  BY <1>2, <1>4, <1>5, <1>6, <1>7

\* A result that is no data is right if some piece that was asked for is not there.
LEMMA BrokenRight ==
  ASSUME Inv, pc = "read", NEW v \in Nat, NEW n \in Nat \ {0}, Asked(v, n), ~IsData(Get(v, n)),
         NEW r, ~IsData(r), NEW m
  PROVE  RightSoFar(r, m)
<1>1. ~job.saved => ~Whole
  BY AskedGives
<1>2. job.saved => ~(job.at < Volatile)
  <2>1. job.saved /\ job.at < Volatile => Get(v, n) = Data(SavedData(v, n))
    BY AskedGives
  <2>. QED
    BY <2>1 DEF Data, IsData
<1>. QED
  BY <1>1, <1>2 DEF RightSoFar

\* A result that is no data is as right whatever has been asked for.
LEMMA FailedRight ==
  ASSUME NEW r, ~IsData(r), NEW m, RightSoFar(r, m), NEW n
  PROVE  RightSoFar(r, n)
  BY DEF RightSoFar, IsData, Data

LEMMA ZerosType ==
  ASSUME NEW n \in Nat
  PROVE  /\ Zeros(n) \in Seq(Nat) /\ Len(Zeros(n)) = n
         /\ \A j \in 1..n : Zeros(n)[j] = 0
         /\ Data(Zeros(n)) \in Result
<1>1. Zeros(n) \in Seq(Nat) /\ Len(Zeros(n)) = n /\ \A j \in 1..n : Zeros(n)[j] = 0
  BY DEF Zeros
<1>. QED
  BY <1>1 DEF Data, Result

\* The first piece of a read.
LEMMA PieceRight ==
  ASSUME Inv, pc = "read", NEW n \in Nat \ {0}, n <= job.len
  PROVE  Piece(job.at, n) \in Result /\ RightSoFar(Piece(job.at, n), n)
<1>. DEFINE v == job.at
            g == Get(v, n)
<1>1. v \in Nat /\ Asked(v, n)
  <2>1. job.at \in Nat /\ job.len \in Nat
    BY DEF Inv, Typed
  <2>. QED
    BY <2>1 DEF Asked
<1>2. /\ g \in Result
      /\ ~job.saved /\ IsData(g) => g = Data(CellData(v, n))
      /\ ~job.saved /\ Whole => IsData(g)
      /\ job.saved /\ v < Volatile => g = Data(SavedData(v, n))
  BY <1>1, AskedGives
<1>3. CellData(v, n) \in Seq(Nat) /\ Len(CellData(v, n)) = n
  BY <1>1, AskedWithin, CellType
<1>4. Piece(v, n) = IF ~IsData(g) /\ job.zero THEN Data(Zeros(n)) ELSE g
  BY DEF Piece
<1>5. CASE ~IsData(g) /\ job.zero
  <2>1. Piece(v, n) = Data(Zeros(n)) /\ Data(Zeros(n)) \in Result
    BY <1>4, <1>5, ZerosType
  <2>2. ~job.saved => ~Whole
    BY <1>2, <1>5
  <2>3. job.saved => ~(v < Volatile)
    BY <1>2, <1>5 DEF IsData, Data
  <2>4. Data(Zeros(n)).bytes = Zeros(n)
    BY DEF Data
  <2>5. Len(Data(Zeros(n)).bytes) = n /\ \A j \in 1..n : Data(Zeros(n)).bytes[j] \in {CellData(v, n)[j], 0}
    BY <2>4, ZerosType
  <2>6. RightSoFar(Data(Zeros(n)), n)
    BY <1>5, <2>2, <2>3, <2>5 DEF RightSoFar
  <2>. QED
    BY <2>1, <2>6
<1>6. CASE ~(~IsData(g) /\ job.zero)
  <2>1. Piece(v, n) = g
    BY <1>4, <1>6
  <2>2. ~job.saved /\ IsData(g) => g.bytes = CellData(v, n)
    BY <1>2 DEF Data
  <2>3. ~job.saved /\ Whole => g = Data(CellData(v, n))
    BY <1>2
  <2>. HIDE DEF g, v
  <2>4. ~job.saved /\ IsData(g) => Len(g.bytes) = n /\ \A j \in 1..n : g.bytes[j] \in {CellData(v, n)[j], 0}
    BY <1>3, <2>2
  <2>5. RightSoFar(g, n)
    BY <1>2, <2>2, <2>3, <2>4 DEF RightSoFar, v
  <2>. QED
    BY <1>2, <2>1, <2>5 DEF v
<1>. QED
  BY <1>5, <1>6

LEMMA SavedJoin ==
  ASSUME NEW v \in Nat, NEW m \in Nat, NEW n \in Nat
  PROVE  SavedData(v, m) \o SavedData(v + m, n) = SavedData(v, m + n)
<1>. DEFINE s == SavedData(v, m)
            t == SavedData(v + m, n)
            f(j) == SavedByte(v + SizeField + j - 1)
<1>1. s = [j \in 1..m |-> f(j)] /\ Len(s) = m
  BY DEF SavedData
<1>2. t = [j \in 1..n |-> f(m + j)] /\ Len(t) = n
  <2>1. \A j \in 1..n : (v + m) + SizeField + j - 1 = v + SizeField + (m + j) - 1
    BY Sizes
  <2>2. \A j \in 1..n : SavedByte((v + m) + SizeField + j - 1) = f(m + j)
    BY <2>1
  <2>3. t = [j \in 1..n |-> SavedByte((v + m) + SizeField + j - 1)]
    BY DEF SavedData
  <2>. QED
    BY <2>2, <2>3
<1>3. SavedData(v, m + n) = [j \in 1..(m + n) |-> f(j)]
  BY DEF SavedData
<1>. HIDE DEF s, t, f
<1>4. s \o t = [j \in 1..(m + n) |-> IF j <= m THEN s[j] ELSE t[j - m]]
  BY <1>1, <1>2
<1>5. \A j \in 1..(m + n) : (IF j <= m THEN s[j] ELSE t[j - m]) = f(j)
  <2>. TAKE j \in 1..(m + n)
  <2>1. CASE j <= m
    BY <1>1, <2>1
  <2>2. CASE ~(j <= m)
    <3>1. j - m \in 1..n /\ m + (j - m) = j
      BY <2>2
    <3>2. t[j - m] = f(m + (j - m))
      BY <1>2, <3>1
    <3>. QED
      BY <2>2, <3>1, <3>2
  <2>. QED
    BY <2>1, <2>2
<1>. QED
  BY <1>3, <1>4, <1>5 DEF s, t

LEMMA AddType ==
  ASSUME NEW r \in Result, NEW t \in Result
  PROVE  /\ Add(r, t) \in Result
         /\ IsData(r) /\ IsData(t) => Add(r, t) = Data(r.bytes \o t.bytes)
         /\ ~IsData(r) \/ ~IsData(t) => ~IsData(Add(r, t))
<1>1. r.bytes \in Seq(Nat) /\ t.bytes \in Seq(Nat)
  BY DEF Result
<1>2. r.bytes \o t.bytes \in Seq(Nat)
  BY <1>1
<1>3. \A k \in {"None", "NoneObject", "TypeError"} : No(k) \in Result /\ ~IsData(No(k))
  BY DEF Result, No, IsData
<1>4. Data(r.bytes \o t.bytes) \in Result
  BY <1>2 DEF Data, Result
<1>5. CASE IsData(r) /\ IsData(t)
  <2>1. Add(r, t) = Data(r.bytes \o t.bytes)
    BY <1>5 DEF Add, IsData
  <2>. QED
    BY <1>4, <1>5, <2>1
<1>6. CASE ~IsData(r) \/ ~IsData(t)
  <2>1. Add(r, t) \in {No("TypeError"), No("NoneObject")}
    BY <1>6 DEF Add
  <2>. QED
    BY <1>3, <1>6, <2>1
<1>. QED
  BY <1>5, <1>6

\* Bytes that are right or zero, and more of them behind.
LEMMA PaddedJoin ==
  ASSUME NEW m \in Nat, NEW n \in Nat,
         NEW s \in Seq(Nat), NEW t \in Seq(Nat), NEW f \in Seq(Nat), NEW g \in Seq(Nat),
         Len(s) = m, Len(f) = m, Len(t) = n, Len(g) = n,
         \A j \in 1..m : s[j] \in {f[j], 0},
         \A j \in 1..n : t[j] \in {g[j], 0}
  PROVE  Len(s \o t) = m + n /\ \A j \in 1..(m + n) : (s \o t)[j] \in {(f \o g)[j], 0}
<1>1. Len(s \o t) = m + n
  <2>1. Len(s \o t) = Len(s) + Len(t)
    BY ConcatProperties
  <2>. QED
    BY <2>1, Zenon
<1>2. ASSUME NEW j \in 1..(m + n) PROVE (s \o t)[j] \in {(f \o g)[j], 0}
  <2>1. CASE j <= m
    <3>1. (s \o t)[j] = s[j] /\ (f \o g)[j] = f[j] /\ j \in 1..m
      BY <2>1
    <3>. QED
      BY <3>1
  <2>2. CASE ~(j <= m)
    <3>1. (s \o t)[j] = t[j - m] /\ (f \o g)[j] = g[j - m] /\ j - m \in 1..n
      BY <2>2
    <3>. QED
      BY <3>1
  <2>. QED
    BY <2>1, <2>2
<1>. QED
  BY <1>1, <1>2

\* The next piece of a read: its data, or zeros where there is no map.
LEMMA NextRight ==
  ASSUME Inv, pc = "read", NEW v \in Nat, NEW n \in Nat \ {0}, Asked(v, n), job.next = v, job.at < v,
         NEW t \in Result,
         \/ IsData(Get(v, n)) /\ t = Get(v, n)
         \/ Vtop(v) = None /\ job.zero /\ t = Data(Zeros(n))
  PROVE  Add(job.got, t) \in Result /\ RightSoFar(Add(job.got, t), v + n - job.at)
<1>. DEFINE at == job.at
            m == v - at
            r == job.got
            f == CellData(at, m)
            g == CellData(v, n)
            sum == Add(r, t)
<1>1. at \in Nat /\ m \in Nat \ {0} /\ v = at + m /\ v + n - at = m + n /\ r \in Result /\ v + n <= at + job.len /\ job.len \in Nat
  BY DEF Inv, Typed, Asked
<1>2. Amount = m /\ RightSoFar(r, m)
  BY DEF Amount, Inv
<1>3. hive \in Hives /\ Within(v, n) /\ Within(at, m)
  <2>1. Asked(at, m)
    BY <1>1 DEF Asked
  <2>. QED
    BY <1>1, <2>1, AskedWithin
<1>4. /\ Vtop(v) = None => ~IsData(Get(v, n)) /\ ~job.saved
      /\ ~job.saved /\ IsData(Get(v, n)) => Get(v, n) = Data(g)
      /\ ~job.saved /\ Whole => IsData(Get(v, n))
      /\ job.saved /\ at < Volatile => Get(v, n) = Data(SavedData(v, n))
  BY AskedGives
<1>5. f \in Seq(Nat) /\ Len(f) = m /\ g \in Seq(Nat) /\ Len(g) = n
  BY <1>1, <1>3, CellType
<1>6. f \o g = CellData(at, m + n)
  <2>1. m \in Nat /\ at + m = v
    BY <1>1
  <2>. HIDE DEF m
  <2>2. CellData(at, m) \o CellData(at + m, n) = CellData(at, m + n)
    BY <1>1, <2>1, CellsJoin
  <2>. QED
    BY <2>1, <2>2
<1>7. SavedData(at, m) \o SavedData(v, n) = SavedData(at, m + n)
  <2>1. m \in Nat /\ at + m = v
    BY <1>1
  <2>. HIDE DEF m
  <2>2. SavedData(at, m) \o SavedData(at + m, n) = SavedData(at, m + n)
    BY <1>1, <2>1, SavedJoin
  <2>. QED
    BY <2>1, <2>2
<1>8. IsData(t)
  BY DEF IsData, Data
<1>9. Add(r, t) \in Result /\ (IsData(r) => sum = Data(r.bytes \o t.bytes)) /\ (~IsData(r) => ~IsData(sum))
  BY <1>1, <1>8, AddType
<1>10. CASE ~IsData(r)
  <2>1. ~job.saved => ~Whole
    BY <1>2, <1>10 DEF RightSoFar, Data, IsData
  <2>2. job.saved => ~(at < Volatile)
    BY <1>2, <1>10 DEF RightSoFar, Data, IsData
  <2>3. RightSoFar(sum, m + n)
    BY <1>9, <1>10, <2>1, <2>2 DEF RightSoFar
  <2>. QED
    BY <1>1, <1>9, <2>3
<1>11. CASE IsData(r)
  <2>1. sum = Data(r.bytes \o t.bytes) /\ sum.bytes = r.bytes \o t.bytes
    <3>1. sum = Data(r.bytes \o t.bytes)
      BY <1>9, <1>11
    <3>. HIDE DEF sum, r
    <3>. QED
      BY <3>1 DEF Data
  <2>2. job.saved /\ at < Volatile => sum = Data(SavedData(at, m + n))
    <3>. SUFFICES ASSUME job.saved, at < Volatile PROVE sum = Data(SavedData(at, m + n))
      OBVIOUS
    <3>1. r = Data(SavedData(at, m))
      BY <1>2 DEF RightSoFar
    <3>2. t = Data(SavedData(v, n))
      BY <1>4
    <3>. QED
      BY <1>7, <2>1, <3>1, <3>2 DEF Data
  <2>3. ASSUME ~job.saved, ~job.zero PROVE sum.bytes = CellData(at, m + n)
    <3>1. r.bytes = f
      BY <1>2, <1>11, <2>3 DEF RightSoFar
    <3>2. t.bytes = g
      BY <1>4, <2>3 DEF Data
    <3>. QED
      BY <1>6, <2>1, <3>1, <3>2
  <2>4. ASSUME ~job.saved, job.zero, ~FullLost
        PROVE  /\ Len(sum.bytes) = m + n
               /\ \A j \in 1..(m + n) : sum.bytes[j] \in {CellData(at, m + n)[j], 0}
    <3>1. Len(r.bytes) = m /\ \A j \in 1..m : r.bytes[j] \in {f[j], 0}
      BY <1>2, <1>11, <2>4 DEF RightSoFar
    <3>2. Len(t.bytes) = n /\ \A j \in 1..n : t.bytes[j] \in {g[j], 0}
      <4>1. CASE IsData(Get(v, n)) /\ t = Get(v, n)
        <5>1. t.bytes = g
          BY <1>4, <2>4, <4>1 DEF Data
        <5>. QED
          BY <1>5, <5>1
      <4>2. CASE t = Data(Zeros(n))
        <5>1. t.bytes = Zeros(n)
          BY <4>2 DEF Data
        <5>. QED
          BY <5>1, ZerosType
      <4>. QED
        BY <4>1, <4>2
    <3>3. r.bytes \in Seq(Nat) /\ t.bytes \in Seq(Nat)
      BY <1>1 DEF Result
    <3>. HIDE DEF r, f, g, m, sum, at
    <3>4. Len(r.bytes \o t.bytes) = m + n /\ \A j \in 1..(m + n) : (r.bytes \o t.bytes)[j] \in {(f \o g)[j], 0}
      BY <1>1, <1>5, <3>1, <3>2, <3>3, PaddedJoin
    <3>. QED
      BY <1>6, <2>1, <3>4
  <2>5. ASSUME ~job.saved, Whole PROVE sum = Data(CellData(at, m + n))
    <3>1. r = Data(f)
      BY <1>2, <2>5 DEF RightSoFar
    <3>2. t = Data(g)
      BY <1>4, <2>5
    <3>3. r.bytes = f /\ t.bytes = g
      BY <3>1, <3>2 DEF Data
    <3>. HIDE DEF r, f, g, m, sum, at
    <3>. QED
      BY <1>6, <2>1, <3>3
  <2>. HIDE DEF sum, m
  <2>6. RightSoFar(sum, m + n)
    BY <2>2, <2>3, <2>4, <2>5 DEF RightSoFar
  <2>. QED
    BY <1>1, <1>9, <2>6 DEF sum
<1>. QED
  BY <1>10, <1>11
-----------------------------------------------------------------------------
(* The steps of a read.                                                    *)

LEMMA FileStays ==
  ASSUME FileRight, pc # "save", UNCHANGED <<hive, base, file>>, pc' # "save"
  PROVE  FileRight'
<1>1. \A a : SavedByte(a)' = SavedByte(a)
  BY SameHive
<1>2. FileRight' <=> (file' # <<>> =>
        LET n == Block * hive'.length[1]
        IN Len(file') = Block + n /\ \A a \in 0..(n - 1) : file'[Block + a + 1] = SavedByte(a)')
  BY DEF FileRight
<1>3. file # <<>> =>
        LET n == Block * hive.length[1]
        IN Len(file) = Block + n /\ \A a \in 0..(n - 1) : file[Block + a + 1] = SavedByte(a)
  BY DEF FileRight
<1>. QED
  BY <1>1, <1>2, <1>3

LEMMA Returned ==
  ASSUME Inv, pc = "read", NEW r \in Result, Return(r), RightSoFar(r, job.len)
  PROVE  Inv'
<1>1. /\ Typed /\ Ranged /\ FileRight
      /\ job' = [job EXCEPT !.got = r] /\ pc' = "idle"
      /\ UNCHANGED <<hive, base, block, file, bad>>
  BY DEF Inv, Return
<1>2. /\ job'.at = job.at /\ job'.len = job.len /\ job'.zero = job.zero /\ job'.saved = job.saved
      /\ job'.got = r
  BY <1>1 DEF Typed
<1>3. Typed'
  BY <1>1 DEF Typed
<1>4. Ranged'
  <2>1. job.len # 0 /\ Within(job.at, job.len) /\ bad = NoCount /\ (job.saved => file # <<>>)
    BY <1>1 DEF Ranged
  <2>2. \A v, n : Within(v, n)' <=> Within(v, n)
    BY <1>1, SameHive
  <2>3. Within(job.at, job.len)' <=> Within(job.at, job.len)
    BY <1>1, <1>2 DEF Within
  <2>. QED
    BY <1>1, <1>2, <2>1, <2>3 DEF Ranged
<1>5. RightSoFar(job.got, Amount)'
  <2>1. Amount' = job.len
    BY <1>1, <1>2 DEF Amount
  <2>2. \A q, m : RightSoFar(q, m)' <=> RightSoFar(q, m)
    BY <1>1, <1>2, SameRange
  <2>3. RightSoFar(r, job.len)
    OBVIOUS
  <2>. QED
    BY <1>2, <2>1, <2>2, <2>3
<1>6. FileRight'
  BY <1>1, FileStays
<1>7. StatsRight'
  BY <1>1 DEF StatsRight, Ranged, NoCount
<1>. QED
  BY <1>3, <1>4, <1>5, <1>6, <1>7 DEF Inv

LEMMA Gone ==
  ASSUME Inv, pc = "read", NEW r \in Result, NEW v \in Nat, Go(v, r), v # job.at,
         job.len >= FirstBlock, v % Block = 0, job.at + FirstBlock <= v, v <= FullsEnd,
         RightSoFar(r, v - job.at)
  PROVE  Inv'
<1>1. /\ Typed /\ Ranged /\ FileRight
      /\ job' = [job EXCEPT !.next = v, !.got = r] /\ pc' = "read"
      /\ UNCHANGED <<hive, base, pc, block, file, bad>>
  BY DEF Inv, Go
<1>2. /\ job'.at = job.at /\ job'.len = job.len /\ job'.zero = job.zero /\ job'.saved = job.saved
      /\ job'.got = r /\ job'.next = v
  BY <1>1 DEF Typed
<1>3. Typed'
  BY <1>1 DEF Typed
<1>4. Ranged'
  <2>1. job.len # 0 /\ Within(job.at, job.len) /\ bad = NoCount /\ (job.saved => file # <<>>)
    BY <1>1 DEF Ranged
  <2>2. Within(job.at, job.len)' <=> Within(job.at, job.len)
    BY <1>1, <1>2 DEF Within
  <2>3. FirstBlock' = FirstBlock /\ FullsEnd' = FullsEnd
    BY <1>1, <1>2, SameRange
  <2>. QED
    BY <1>1, <1>2, <2>1, <2>2, <2>3 DEF Ranged
<1>5. RightSoFar(job.got, Amount)'
  <2>1. Amount' = v - job.at
    BY <1>1, <1>2 DEF Amount
  <2>2. \A q, m : RightSoFar(q, m)' <=> RightSoFar(q, m)
    BY <1>1, <1>2, SameRange
  <2>. QED
    BY <1>2, <2>1, <2>2
<1>6. FileRight'
  BY <1>1, FileStays
<1>7. StatsRight'
  BY <1>1 DEF StatsRight, Ranged, NoCount
<1>. QED
  BY <1>3, <1>4, <1>5, <1>6, <1>7 DEF Inv

LEMMA StartReadInv ==
  ASSUME Inv, NEW x \in Reads, NEW z \in BOOLEAN, NEW s \in BOOLEAN, StartRead(x[1], x[2], z, s)
  PROVE  Inv'
<1>. DEFINE v == x[1]
            n == x[2]
            d == [at |-> v, len |-> n, zero |-> z, saved |-> s, next |-> v, got |-> Data(<<>>)]
<1>1. /\ Typed /\ FileRight /\ pc = "idle" /\ pc' = "read" /\ job' = d /\ (s => file # <<>>)
      /\ bad' = NoCount /\ UNCHANGED <<hive, base, block, file>>
  BY DEF Inv, StartRead
<1>2. v \in Nat /\ n \in Nat \ {0} /\ Within(v, n)
  <2>1. n \in Lengths /\ Within(v, n) /\ \E i \in DOMAIN hive.at : v \in i..(i + Block - 1)
    BY DEF Reads
  <2>2. hive \in Hives
    BY <1>1 DEF Typed
  <2>3. n \in Nat \ {0}
    BY <2>1, HiveAssumption
  <2>4. \A i \in DOMAIN hive.at : i \in Nat
    BY <2>2, BlockFacts
  <2>. HIDE DEF v
  <2>5. v \in Nat
    BY <2>1, <2>4
  <2>. QED
    BY <2>1, <2>3, <2>5 DEF v
<1>. HIDE DEF v, n
<1>3. d.got \in Result /\ d.got = Data(<<>>)
  BY DEF Result, Data
<1>4. Typed'
  <2>1. d \in [at : Nat, len : Nat, zero : BOOLEAN, saved : BOOLEAN, next : Nat, got : Result]
    BY <1>2, <1>3
  <2>2. bad' \in [stor : 0..2, reg : Nat, mem : Nat]
    BY <1>1 DEF NoCount
  <2>. QED
    BY <1>1, <2>1, <2>2 DEF Typed
<1>5. Ranged'
  <2>1. Within(job.at, job.len)' <=> Within(v, n)
    BY <1>1 DEF Within
  <2>. QED
    BY <1>1, <1>2, <2>1 DEF Ranged
<1>6. RightSoFar(job.got, Amount)'
  <2>1. Amount' = 0 /\ job'.got = Data(<<>>) /\ job'.got.bytes = <<>>
    BY <1>1, <1>2 DEF Amount, Data
  <2>2. CellData(job.at, 0)' = <<>> /\ SavedData(job.at, 0)' = <<>>
    BY DEF CellData, SavedData
  <2>3. CellData(job.at, Amount)' = <<>> /\ SavedData(job.at, Amount)' = <<>>
    BY <2>1, <2>2
  <2>4. Len(<<>>) = 0 /\ 1..0 = {}
    OBVIOUS
  <2>. QED
    BY <2>1, <2>3, <2>4 DEF RightSoFar
<1>7. FileRight'
  BY <1>1, FileStays
<1>8. StatsRight'
  BY <1>1 DEF StatsRight
<1>. QED
  BY <1>4, <1>5, <1>6, <1>7, <1>8 DEF Inv

LEMMA ReadWithinInv ==
  ASSUME Inv, ReadWithin
  PROVE  Inv'
<1>1. pc = "read" /\ Return(Piece(job.at, job.len))
  BY DEF ReadWithin, AtStart
<1>2. job.len \in Nat \ {0}
  BY <1>1 DEF Inv, Typed, Ranged
<1>3. Piece(job.at, job.len) \in Result /\ RightSoFar(Piece(job.at, job.len), job.len)
  BY <1>1, <1>2, PieceRight
<1>. QED
  BY <1>1, <1>3, Returned

LEMMA NoType == No("None") \in Result /\ ~IsData(No("None"))
  BY DEF No, Result, IsData

LEMMA ReadFirstInv ==
  ASSUME Inv, ReadFirst
  PROVE  Inv'
<1>1. /\ pc = "read" /\ job.len >= FirstBlock
      /\ IF Vtop(job.at) = None /\ ~job.zero THEN Return(No("None"))
         ELSE Go(job.at + FirstBlock, Piece(job.at, FirstBlock))
  BY DEF ReadFirst, AtStart
<1>2. job.at \in Nat /\ job.len \in Nat \ {0}
  BY <1>1 DEF Inv, Typed, Ranged
<1>. DEFINE n == FirstBlock
            v == job.at + n
<1>3. n \in 1..Block /\ n \in Nat \ {0}
  BY <1>2, Sizes, Parts
<1>4. Asked(job.at, n)
  BY <1>1, <1>2, <1>3 DEF Asked
<1>5. CASE Vtop(job.at) = None /\ ~job.zero
  <2>1. ~IsData(Get(job.at, n))
    BY <1>1, <1>2, <1>3, <1>4, <1>5, AskedGives
  <2>2. RightSoFar(No("None"), job.len)
    BY <1>1, <1>2, <1>3, <1>4, <2>1, NoType, BrokenRight
  <2>. QED
    BY <1>1, <1>5, <2>2, NoType, Returned
<1>6. CASE ~(Vtop(job.at) = None /\ ~job.zero)
  <2>1. Go(v, Piece(job.at, n))
    BY <1>1, <1>6
  <2>2. Piece(job.at, n) \in Result /\ RightSoFar(Piece(job.at, n), n)
    BY <1>1, <1>3, PieceRight
  <2>3. v \in Nat /\ v # job.at /\ v - job.at = n
    <3>. HIDE DEF n
    <3>. QED
      BY <1>2, <1>3
  <2>4. v % Block = 0
    <3>1. PICK k \in Nat : v = Block * k
      BY <1>2, Parts
    <3>. QED
      BY <3>1, MultipleIsBase
  <2>5. v <= FullsEnd
    <3>1. FullBlocks \in Nat /\ FullsEnd = v + Block * FullBlocks
      BY <1>1, <1>2, Parts
    <3>2. Block * FullBlocks \in Nat
      BY <3>1, Sizes, SMT
    <3>. HIDE DEF v
    <3>. QED
      BY <2>3, <3>1, <3>2
  <2>6. RightSoFar(Piece(job.at, n), v - job.at)
    BY <2>2, <2>3
  <2>7. v >= job.at + FirstBlock /\ job.at + FirstBlock <= v
    BY <2>3
  <2>. HIDE DEF v, n
  <2>. QED
    BY <1>1, <2>1, <2>2, <2>3, <2>4, <2>5, <2>6, <2>7, Gone
<1>. QED
  BY <1>5, <1>6

LEMMA ReadFullInv ==
  ASSUME Inv, ReadFull
  PROVE  Inv'
<1>. DEFINE v == job.next
            n == Block
            there == Get(v, n)
            t == IF Vtop(v) = None THEN Data(Zeros(n)) ELSE there
            sum == Add(job.got, t)
<1>1. /\ pc = "read" /\ v # job.at /\ v < FullsEnd
      /\ IF IsData(there) \/ (job.zero /\ Vtop(v) = None)
         THEN IF sum.kind = "TypeError" THEN Return(sum) ELSE Go(v + n, sum)
         ELSE IF job.zero THEN Go(v + n, job.got) ELSE Return(No("None"))
  BY DEF ReadFull
<1>2. /\ job.at \in Nat /\ job.len \in Nat \ {0} /\ v \in Nat /\ job.got \in Result
      /\ job.len >= FirstBlock /\ v % Block = 0 /\ job.at + FirstBlock <= v
  BY <1>1 DEF Inv, Typed, Ranged
<1>3. /\ v + n <= FullsEnd /\ (v + n) % Block = 0
      /\ \E i \in 0..(FullBlocks - 1) : v = job.at + FirstBlock + i * Block
  BY <1>1, <1>2, FullStep
<1>4. FirstBlock \in 1..Block /\ FullsEnd \in Nat /\ LeftOver \in Nat /\ FullsEnd + LeftOver = job.at + job.len
  BY <1>2, Parts, Sizes
<1>5. n \in Nat \ {0} /\ job.at < v /\ Asked(v, n)
  <2>1. n \in Nat \ {0}
    BY Sizes
  <2>2. job.at < v
    BY <1>2, <1>4
  <2>3. v + n <= job.at + job.len
    BY <1>2, <1>3, <1>4, <2>1
  <2>. QED
    BY <1>2, <2>1, <2>2, <2>3 DEF Asked
<1>6. v + n \in Nat /\ v + n # job.at /\ job.at + FirstBlock <= v + n
  <2>. HIDE DEF v
  <2>. QED
    BY <1>2, <1>4, <1>5, Sizes
<1>7. there \in Result
  BY <1>1, <1>2, <1>5, AskedGives
<1>8. CASE IsData(there) \/ (job.zero /\ Vtop(v) = None)
  <2>1. \/ IsData(there) /\ t = there
        \/ Vtop(v) = None /\ job.zero /\ t = Data(Zeros(n))
    <3>1. Vtop(v) = None => ~IsData(there)
      BY <1>1, <1>2, <1>5, AskedGives
    <3>. QED
      BY <1>8, <3>1
  <2>2. t \in Result
    BY <1>5, <1>7, ZerosType
  <2>. HIDE DEF t
  <2>3. sum \in Result /\ RightSoFar(sum, v + n - job.at)
    BY <1>1, <1>2, <1>5, <2>1, <2>2, NextRight
  <2>. HIDE DEF sum
  <2>4. CASE sum.kind = "TypeError"
    <3>1. ~IsData(sum) /\ Return(sum)
      BY <1>1, <1>8, <2>4 DEF IsData
    <3>2. RightSoFar(sum, job.len)
      BY <2>3, <3>1, FailedRight
    <3>. QED
      BY <1>1, <2>3, <3>1, <3>2, Returned
  <2>5. CASE sum.kind # "TypeError"
    <3>1. Go(v + n, sum)
      BY <1>1, <1>8, <2>5
    <3>. DEFINE w == v + n
    <3>2. w \in Nat /\ w # job.at /\ job.at + FirstBlock <= w /\ w <= FullsEnd /\ w % Block = 0
          /\ Go(w, sum) /\ RightSoFar(sum, w - job.at)
      <4>. HIDE DEF v, n
      <4>1. w \in Nat /\ w # job.at /\ job.at + FirstBlock <= w /\ w <= FullsEnd /\ w % Block = 0
        BY <1>3, <1>6
      <4>2. Go(w, sum)
        BY <3>1
      <4>3. RightSoFar(sum, w - job.at)
        <5>1. v + n - job.at = w - job.at
          BY <1>2, <1>5
        <5>. QED
          BY <2>3, <5>1
      <4>. QED
        BY <4>1, <4>2, <4>3
    <3>. HIDE DEF w
    <3>. QED
      BY <1>1, <1>2, <2>3, <3>2, Gone
  <2>. QED
    BY <2>4, <2>5
<1>9. CASE ~(IsData(there) \/ (job.zero /\ Vtop(v) = None))
  <2>1. CASE job.zero
    <3>1. Go(v + n, job.got) /\ Vtop(v) # None /\ ~IsData(there)
      BY <1>1, <1>9, <2>1
    <3>2. FullLost
      <4>1. PICK i \in 0..(FullBlocks - 1) : v = job.at + FirstBlock + i * Block
        BY <1>3
      <4>2. Vtop(job.at + FirstBlock + i * Block) # None /\ ~IsData(Get(job.at + FirstBlock + i * Block, Block))
        BY <3>1, <4>1
      <4>. QED
        BY <4>2 DEF FullLost
    <3>3. ~job.saved => ~Whole
      BY <1>1, <1>2, <1>5, <3>1, AskedGives
    <3>4. job.saved => ~(job.at < Volatile)
      <4>1. job.saved /\ job.at < Volatile => there = Data(SavedData(v, n))
        BY <1>1, <1>2, <1>5, AskedGives
      <4>. QED
        BY <3>1, <4>1 DEF Data, IsData
    <3>. DEFINE w == v + n
    <3>5. RightSoFar(job.got, w - job.at)
      BY <2>1, <3>2, <3>3, <3>4 DEF RightSoFar
    <3>6. w \in Nat /\ w # job.at /\ job.at + FirstBlock <= w /\ w <= FullsEnd /\ w % Block = 0
          /\ Go(w, job.got)
      BY <1>3, <1>6, <3>1
    <3>. HIDE DEF w
    <3>. QED
      BY <1>1, <1>2, <3>5, <3>6, Gone
  <2>2. CASE ~job.zero
    <3>1. Return(No("None")) /\ ~IsData(there)
      BY <1>1, <1>9, <2>2
    <3>2. RightSoFar(No("None"), job.len)
      BY <1>1, <1>2, <1>5, <3>1, NoType, BrokenRight
    <3>. QED
      BY <1>1, <3>1, <3>2, NoType, Returned
  <2>. QED
    BY <2>1, <2>2
<1>. QED
  BY <1>8, <1>9

LEMMA ReadRestInv ==
  ASSUME Inv, ReadRest
  PROVE  Inv'
<1>. DEFINE v == job.next
            n == LeftOver
            there == Get(v, n)
            end == job.at + job.len
<1>1. /\ pc = "read" /\ v # job.at /\ v = FullsEnd
      /\ Return(IF n = 0 THEN job.got
                ELSE IF Vtop(v) # None THEN Add(job.got, there)
                ELSE IF job.zero THEN Add(job.got, Data(Zeros(n)))
                ELSE No("None"))
  BY DEF ReadRest
<1>2. /\ job.at \in Nat /\ job.len \in Nat \ {0} /\ v \in Nat /\ job.got \in Result
      /\ job.len >= FirstBlock /\ v % Block = 0 /\ job.at + FirstBlock <= v
      /\ RightSoFar(job.got, v - job.at)
  BY <1>1 DEF Inv, Typed, Ranged, Amount
<1>3. FirstBlock \in 1..Block /\ n \in Nat /\ v + n = end
  BY <1>1, <1>2, Parts, Sizes
<1>4. job.at < v /\ v + n - job.at = job.len
  <2>. HIDE DEF v, n
  <2>. QED
    BY <1>2, <1>3
<1>5. CASE n = 0
  <2>1. v - job.at = job.len
    <3>. HIDE DEF v, n
    <3>. QED
      BY <1>2, <1>4, <1>5
  <2>2. RightSoFar(job.got, job.len) /\ Return(job.got)
    BY <1>1, <1>2, <1>5, <2>1
  <2>. QED
    BY <1>1, <1>2, <2>2, Returned
<1>6. CASE n # 0
  <2>1. n \in Nat \ {0} /\ Asked(v, n)
    BY <1>2, <1>3, <1>4, <1>6 DEF Asked
  <2>2. there \in Result /\ (Vtop(v) = None => ~IsData(there))
    BY <1>1, <1>2, <2>1, AskedGives
  <2>3. CASE IsData(there)
    <3>1. Vtop(v) # None /\ Return(Add(job.got, there))
      BY <1>1, <1>6, <2>2, <2>3
    <3>2. Add(job.got, there) \in Result /\ RightSoFar(Add(job.got, there), v + n - job.at)
      BY <1>1, <1>2, <1>4, <2>1, <2>2, <2>3, NextRight
    <3>. QED
      BY <1>1, <1>4, <3>1, <3>2, Returned
  <2>4. CASE ~IsData(there) /\ Vtop(v) # None
    <3>1. Return(Add(job.got, there)) /\ Add(job.got, there) \in Result /\ ~IsData(Add(job.got, there))
      BY <1>1, <1>2, <1>6, <2>2, <2>4, AddType
    <3>2. RightSoFar(Add(job.got, there), job.len)
      BY <1>1, <1>2, <2>1, <2>4, <3>1, BrokenRight
    <3>. QED
      BY <1>1, <3>1, <3>2, Returned
  <2>5. CASE Vtop(v) = None /\ job.zero
    <3>. DEFINE t == Data(Zeros(n))
    <3>1. Return(Add(job.got, t)) /\ t \in Result
      BY <1>1, <1>3, <1>6, <2>5, ZerosType
    <3>2. Add(job.got, t) \in Result /\ RightSoFar(Add(job.got, t), v + n - job.at)
      BY <1>1, <1>2, <1>4, <2>1, <2>5, <3>1, NextRight
    <3>. QED
      BY <1>1, <1>4, <3>1, <3>2, Returned
  <2>6. CASE Vtop(v) = None /\ ~job.zero
    <3>1. Return(No("None"))
      BY <1>1, <1>6, <2>6
    <3>2. RightSoFar(No("None"), job.len)
      BY <1>1, <1>2, <2>1, <2>2, <2>6, NoType, BrokenRight
    <3>. QED
      BY <1>1, <3>1, <3>2, NoType, Returned
  <2>. QED
    BY <2>3, <2>4, <2>5, <2>6
<1>. QED
  BY <1>5, <1>6
-----------------------------------------------------------------------------
(* The steps of save and stats.                                            *)

LEMMA NoJobRight ==
  ASSUME job' = NoJob, pc' # "read"
  PROVE  RightSoFar(job.got, Amount)' /\ job' \in [at : Nat, len : Nat, zero : BOOLEAN, saved : BOOLEAN, next : Nat, got : Result]
<1>1. Amount' = 0 /\ job'.got = Data(<<>>) /\ job'.got.bytes = <<>> /\ ~job'.saved
  BY DEF Amount, NoJob, Data
<1>2. CellData(job.at, 0)' = <<>>
  BY DEF CellData
<1>3. CellData(job.at, Amount)' = <<>>
  BY <1>1, <1>2
<1>4. Len(<<>>) = 0 /\ 1..0 = {}
  OBVIOUS
<1>5. RightSoFar(job.got, Amount)'
  BY <1>1, <1>3, <1>4 DEF RightSoFar
<1>6. NoJob.got \in Result
  BY DEF NoJob, Result
<1>7. NoJob \in [at : Nat, len : Nat, zero : BOOLEAN, saved : BOOLEAN, next : Nat, got : Result]
  BY <1>6 DEF NoJob
<1>. QED
  BY <1>5, <1>7

LEMMA StableBlock ==
  ASSUME hive \in Hives, NEW q \in 0..(hive.length[1] - 1)
  PROVE  Block * q \in DOMAIN hive.at /\ Block * q \in Nat /\ q \in Nat
<1>1. IsHive(hive)
  BY HiveAssumption
<1>2. DOMAIN hive.at = BlocksOf(hive) /\ hive.length[1] \in Nat
  BY <1>1 DEF IsHive
<1>3. q \in Nat /\ q * Block = Block * q /\ Block * q \in Nat
  BY <1>2, Sizes, SMT
<1>4. q * Block \in BlocksOf(hive)
  BY DEF BlocksOf
<1>. QED
  BY <1>2, <1>3, <1>4

\* What save adds for a block.
LEMMA SavedBlock ==
  ASSUME hive \in Hives, NEW q \in 0..(hive.length[1] - 1)
  PROVE  /\ Or0(BlockRead(Block * q)) \in Seq(Nat) /\ Len(Or0(BlockRead(Block * q))) = Block
         /\ \A j \in 1..Block : Or0(BlockRead(Block * q))[j] = SavedByte(Block * q + j - 1)
<1>. DEFINE b == Block * q
            x == hive.at[b] * Block
            r == BlockRead(b)
<1>1. b \in DOMAIN hive.at /\ b \in Nat /\ q \in Nat
  BY StableBlock
<1>2. hive.at[b] \in Nat /\ Base(b) = b /\ b % Block = 0
  BY <1>1, BlockFacts
<1>3. x \in Nat
  BY <1>2, Sizes, SMT
<1>4. \A j \in 1..Block : Base(b + j - 1) = b /\ (b + j - 1) % Block = j - 1
  <2>. TAKE j \in 1..Block
  <2>. DEFINE k == j - 1
  <2>1. k \in 0..(Block - 1)
    BY Sizes
  <2>. HIDE DEF k
  <2>2. Base(Block * q + k) = Block * q /\ (Block * q + k) % Block = k
    BY <1>1, <2>1, BaseUnique
  <2>. QED
    BY <2>2 DEF k
<1>5. CASE IsData(r)
  <2>1. HiveVtop(b) # None /\ r = BaseRead(HiveVtop(b) - SizeField, Block)
    BY <1>5 DEF BlockRead, No, IsData
  <2>2. HiveVtop(b) - SizeField = x
    <3>1. HiveVtop(b) = x + (b % Block) + SizeField
      BY <1>1, <1>2, <2>1, VtopIs
    <3>. HIDE DEF x, b
    <3>2. HiveVtop(b) = x + 0 + SizeField
      BY <1>2, <3>1
    <3>. QED
      BY <1>3, <3>2, Sizes
  <2>3. r = Data([j \in 1..Block |-> x + j])
    BY <1>5, <2>1, <2>2, BaseReadIs
  <2>4. Or0(r) = [j \in 1..Block |-> x + j]
    <3>. HIDE DEF r, x
    <3>1. r.bytes = [j \in 1..Block |-> x + j]
      BY <2>3 DEF Data
    <3>2. Or0(r) = r.bytes
      BY <1>5 DEF Or0
    <3>. QED
      BY <3>1, <3>2
  <2>5. ASSUME NEW j \in 1..Block PROVE SavedByte(b + j - 1) = x + j
    <3>1. SavedByte(b + j - 1) = ByteAt(b + j - 1)
      BY <1>4, <1>5 DEF SavedByte
    <3>2. ByteAt(b + j - 1) = x + (j - 1) + 1
      BY <1>4 DEF ByteAt, Base
    <3>. HIDE DEF x
    <3>3. x + (j - 1) + 1 = x + j
      BY <1>3
    <3>. QED
      BY <3>1, <3>2, <3>3
  <2>. HIDE DEF x, r, b
  <2>6. \A j \in 1..Block : x + j \in Nat
    BY <1>3
  <2>7. Or0(r) \in Seq(Nat) /\ Len(Or0(r)) = Block /\ \A j \in 1..Block : Or0(r)[j] = x + j
    BY <2>4, <2>6, Sizes
  <2>. QED
    BY <2>5, <2>7 DEF r, b
<1>6. CASE ~IsData(r)
  <2>1. Or0(r) = Zeros(Block)
    BY <1>6 DEF Or0
  <2>2. \A j \in 1..Block : SavedByte(b + j - 1) = 0
    BY <1>4, <1>6 DEF SavedByte
  <2>3. Zeros(Block) \in Seq(Nat) /\ Len(Zeros(Block)) = Block /\ \A j \in 1..Block : Zeros(Block)[j] = 0
    BY Sizes, ZerosType
  <2>. QED
    BY <2>1, <2>2, <2>3
<1>. QED
  BY <1>5, <1>6

LEMMA StartSaveInv ==
  ASSUME Inv, StartSave
  PROVE  Inv'
<1>1. /\ Typed /\ pc' = "save" /\ job' = NoJob /\ bad' = NoCount /\ block' = 0
      /\ hive' = hive /\ base' = base
      /\ file' = Or0(BaseRead(hive.base * Block, Block))
  BY DEF Inv, StartSave
<1>2. hive.base \in Nat /\ hive.length[1] \in Nat
  BY <1>1, HiveAssumption DEF Typed, IsHive
<1>3. file' \in Seq(Nat) /\ Len(file') = Block
  <2>. DEFINE p == hive.base * Block
  <2>1. p \in Nat
    BY <1>2, Sizes, SMT
  <2>. HIDE DEF p
  <2>2. CASE IsData(BaseRead(p, Block))
    <3>1. Or0(BaseRead(p, Block)) = [j \in 1..Block |-> p + j]
      <4>. DEFINE r == BaseRead(p, Block)
      <4>1. r = Data([j \in 1..Block |-> p + j])
        BY <2>2, BaseReadIs
      <4>2. r.bytes = [j \in 1..Block |-> p + j]
        BY <4>1 DEF Data
      <4>3. Or0(r) = r.bytes
        BY <2>2 DEF Or0
      <4>. QED
        BY <4>2, <4>3
    <3>2. file' = [j \in 1..Block |-> p + j]
      BY <1>1, <3>1 DEF p
    <3>. QED
      BY <2>1, <3>2, Sizes
  <2>3. CASE ~IsData(BaseRead(p, Block))
    <3>1. file' = Zeros(Block)
      BY <1>1, <2>3 DEF p, Or0
    <3>. QED
      BY <3>1, Sizes, ZerosType
  <2>. QED
    BY <2>2, <2>3
<1>4. Typed'
  <2>1. bad' \in [stor : 0..2, reg : Nat, mem : Nat]
    BY <1>1 DEF NoCount
  <2>. QED
    BY <1>1, <1>3, <2>1, NoJobRight DEF Typed
<1>5. Ranged'
  BY <1>1 DEF Ranged, NoJob
<1>6. RightSoFar(job.got, Amount)'
  BY <1>1, NoJobRight
<1>7. FileRight'
  <2>1. Len(file') # 0 /\ file' # <<>>
    BY <1>3, Sizes
  <2>2. 0 \in 0..hive.length[1] /\ 0 = Block * 0 /\ Len(file') = Block + 0 /\ 0..(0 - 1) = {}
    BY <1>2, <1>3, Sizes
  <2>. QED
    BY <1>1, <2>1, <2>2 DEF FileRight
<1>8. StatsRight'
  BY <1>1 DEF StatsRight
<1>. QED
  BY <1>4, <1>5, <1>6, <1>7, <1>8 DEF Inv

LEMMA SaveBlockInv ==
  ASSUME Inv, SaveBlock
  PROVE  Inv'
<1>. DEFINE L == hive.length[1]
            s == Or0(BlockRead(block))
            n == block
<1>1. /\ Typed /\ Ranged /\ FileRight /\ pc = "save" /\ n < L * Block
      /\ file' = file \o s /\ block' = n + Block
      /\ UNCHANGED <<hive, base, pc, job, bad>>
  BY DEF Inv, SaveBlock
<1>2. /\ file # <<>> /\ bad = NoCount /\ job = NoJob
      /\ Len(file) = Block + n /\ \A a \in 0..(n - 1) : file[Block + a + 1] = SavedByte(a)
  BY <1>1 DEF FileRight, Ranged
<1>3. PICK q \in 0..L : n = Block * q
  BY <1>1 DEF FileRight
<1>4. L \in Nat /\ n \in Nat /\ file \in Seq(Nat) /\ hive \in Hives
  BY <1>1, HiveAssumption DEF Typed, IsHive
<1>. HIDE DEF L, n
<1>5. q \in 0..(L - 1)
  <2>1. L * Block = Block * L
    BY <1>4, Sizes, SMT
  <2>2. q # L
    BY <1>1, <1>3, <1>4, <2>1
  <2>. QED
    BY <1>3, <1>4, <2>2
<1>6. s \in Seq(Nat) /\ Len(s) = Block /\ \A j \in 1..Block : s[j] = SavedByte(n + j - 1)
  <2>1. Block * q = block
    BY <1>3 DEF n
  <2>2. Or0(BlockRead(Block * q)) \in Seq(Nat) /\ Len(Or0(BlockRead(Block * q))) = Block
        /\ \A j \in 1..Block : Or0(BlockRead(Block * q))[j] = SavedByte(Block * q + j - 1)
    BY <1>4, <1>5, SavedBlock DEF L
  <2>. QED
    BY <2>1, <2>2 DEF n
<1>. HIDE DEF s
<1>7. file' \in Seq(Nat) /\ Len(file') = Block + (n + Block)
  <2>1. file' \in Seq(Nat) /\ Len(file') = Len(file) + Len(s)
    BY <1>1, <1>4, <1>6, ConcatProperties
  <2>. QED
    BY <1>2, <1>4, <1>6, <2>1, Sizes
<1>8. ASSUME NEW a \in 0..(n + Block - 1) PROVE file'[Block + a + 1] = SavedByte(a)
  <2>. DEFINE i == Block + a + 1
  <2>1. i \in 1..(Len(file) + Len(s)) /\ a \in Nat
    BY <1>2, <1>4, <1>6, Sizes
  <2>2. file'[i] = IF i <= Len(file) THEN file[i] ELSE s[i - Len(file)]
    <3>. HIDE DEF i
    <3>. QED
      BY <1>1, <1>4, <1>6, <2>1, ConcatProperties
  <2>3. CASE a < n
    <3>1. i <= Len(file) /\ a \in 0..(n - 1)
      BY <1>2, <1>4, <2>1, <2>3, Sizes
    <3>. QED
      BY <1>2, <2>2, <3>1
  <2>4. CASE ~(a < n)
    <3>. DEFINE j == a - n + 1
    <3>1. ~(i <= Len(file)) /\ i - Len(file) = j /\ j \in 1..Block /\ n + j - 1 = a
      BY <1>2, <1>4, <2>1, <2>4, Sizes
    <3>. HIDE DEF i, j
    <3>2. file'[i] = SavedByte(a)
      BY <1>6, <2>2, <3>1
    <3>. QED
      BY <3>2 DEF i
  <2>. QED
    BY <2>3, <2>4
<1>9. \E k \in 0..L : n + Block = Block * k
  <2>1. q + 1 \in 0..L
    BY <1>4, <1>5
  <2>2. n + Block = Block * (q + 1)
    BY <1>3, <1>4, <1>5, Sizes, SMT
  <2>. QED
    BY <2>1, <2>2
<1>10. \A a : SavedByte(a)' = SavedByte(a)
  BY <1>1, SameHive
<1>11. FileRight'
  <2>1. file' # <<>>
    <3>1. Len(file') # 0
      BY <1>4, <1>7, Sizes
    <3>. QED
      BY <3>1
  <2>2. \A a \in 0..(block' - 1) : file'[Block + a + 1] = SavedByte(a)'
    <3>1. block' - 1 = n + Block - 1
      BY <1>1, <1>4, Sizes
    <3>2. \A a \in 0..(n + Block - 1) : file'[Block + a + 1] = SavedByte(a)'
      BY <1>8, <1>10
    <3>. QED
      BY <3>1, <3>2
  <2>3. Len(file') = Block + block' /\ \E k \in 0..hive'.length[1] : block' = Block * k
    BY <1>1, <1>7, <1>9 DEF L
  <2>4. FileRight' <=>
          /\ \E k \in 0..hive'.length[1] : block' = Block * k
          /\ Len(file') = Block + block' /\ \A a \in 0..(block' - 1) : file'[Block + a + 1] = SavedByte(a)'
    BY <1>1, <1>2, <2>1 DEF FileRight
  <2>. QED
    BY <2>2, <2>3, <2>4
<1>12. Typed'
  <2>1. block' \in Nat
    BY <1>1, <1>4, Sizes
  <2>. QED
    BY <1>1, <1>7, <2>1 DEF Typed
<1>13. Ranged'
  BY <1>1, <1>2 DEF Ranged, NoJob
<1>14. RightSoFar(job.got, Amount)'
  BY <1>1, <1>2, NoJobRight
<1>15. StatsRight'
  BY <1>1 DEF StatsRight
<1>. QED
  BY <1>11, <1>12, <1>13, <1>14, <1>15 DEF Inv

LEMMA EndSaveInv ==
  ASSUME Inv, EndSave
  PROVE  Inv'
<1>1. /\ Typed /\ Ranged /\ FileRight /\ pc = "save" /\ block = hive.length[1] * Block
      /\ pc' = "idle" /\ block' = 0
      /\ UNCHANGED <<hive, base, job, file, bad>>
  BY DEF Inv, EndSave
<1>2. /\ bad = NoCount /\ job = NoJob
      /\ Len(file) = Block + block /\ \A a \in 0..(block - 1) : file[Block + a + 1] = SavedByte(a)
  BY <1>1 DEF FileRight, Ranged
<1>3. block = Block * hive.length[1]
  <2>1. hive.length[1] \in Nat
    BY <1>1, HiveAssumption DEF Typed, IsHive
  <2>. QED
    BY <1>1, <2>1, Sizes, SMT
<1>4. FileRight'
  <2>1. \A a : SavedByte(a)' = SavedByte(a)
    BY <1>1, SameHive
  <2>2. FileRight' <=> (file' # <<>> =>
          LET n == Block * hive'.length[1]
          IN Len(file') = Block + n /\ \A a \in 0..(n - 1) : file'[Block + a + 1] = SavedByte(a)')
    BY <1>1 DEF FileRight
  <2>. QED
    BY <1>1, <1>2, <1>3, <2>1, <2>2
<1>5. Typed' /\ Ranged'
  BY <1>1, <1>2 DEF Typed, Ranged, NoJob
<1>6. RightSoFar(job.got, Amount)'
  BY <1>1, <1>2, NoJobRight
<1>7. StatsRight'
  BY <1>1, <1>2 DEF StatsRight, NoCount
<1>. QED
  BY <1>4, <1>5, <1>6, <1>7 DEF Inv

LEMMA LostFacts ==
  ASSUME NEW q \in Nat
  PROVE  /\ IsFiniteSet(Lost(q)) /\ Cardinality(Lost(q)) \in Nat
         /\ Lost(0) = {} /\ Cardinality(Lost(0)) = 0
         /\ Lost(q + 1) = IF IsData(BlockRead(Block * q)) THEN Lost(q) ELSE Lost(q) \cup {q + 1}
         /\ Cardinality(Lost(q + 1)) = Cardinality(Lost(q)) + (IF IsData(BlockRead(Block * q)) THEN 0 ELSE 1)
<1>1. IsFiniteSet(Lost(q)) /\ Cardinality(Lost(q)) \in Nat
  <2>1. IsFiniteSet(1..q)
    BY FS_Interval
  <2>2. Lost(q) \subseteq 1..q
    BY DEF Lost
  <2>. QED
    BY <2>1, <2>2, FS_Subset, FS_CardinalityType
<1>2. Lost(0) = {} /\ Cardinality(Lost(0)) = 0
  <2>1. Lost(0) = {}
    BY DEF Lost
  <2>. QED
    BY <2>1, FS_EmptySet
<1>. DEFINE there == IsData(BlockRead(Block * q))
<1>3. Lost(q + 1) = IF there THEN Lost(q) ELSE Lost(q) \cup {q + 1}
  <2>1. \A i : i \in 1..(q + 1) <=> i \in 1..q \/ i = q + 1
    OBVIOUS
  <2>2. (q + 1) - 1 = q
    OBVIOUS
  <2>3. q + 1 \in Lost(q + 1) <=> ~there
    BY <2>1, <2>2 DEF Lost
  <2>4. \A i : i # q + 1 => (i \in Lost(q + 1) <=> i \in Lost(q))
    BY <2>1 DEF Lost
  <2>5. q + 1 \notin Lost(q)
    BY DEF Lost
  <2>. HIDE DEF there
  <2>. QED
    BY <2>3, <2>4, <2>5
<1>4. Cardinality(Lost(q + 1)) = Cardinality(Lost(q)) + (IF there THEN 0 ELSE 1)
  <2>1. q + 1 \notin Lost(q)
    BY DEF Lost
  <2>2. Cardinality(Lost(q) \cup {q + 1}) = Cardinality(Lost(q)) + 1
    BY <1>1, <2>1, FS_AddElement
  <2>. HIDE DEF there
  <2>3. CASE there
    BY <1>1, <1>3, <2>3
  <2>4. CASE ~there
    BY <1>3, <2>2, <2>4
  <2>. QED
    BY <2>3, <2>4
<1>. QED
  BY <1>1, <1>2, <1>3, <1>4

LEMMA StartStatsInv ==
  ASSUME Inv, NEW stor \in 1..2, StartStats(stor)
  PROVE  Inv'
<1>1. /\ Typed /\ FileRight /\ pc = "idle" /\ pc' = "stats" /\ job' = NoJob
      /\ bad' = [stor |-> stor, reg |-> 0, mem |-> 0] /\ block' = (stor - 1) * Volatile
      /\ UNCHANGED <<hive, base, file>>
  BY DEF Inv, StartStats
<1>2. hive.length[1] \in Nat
  BY <1>1, HiveAssumption DEF Typed, IsHive
<1>3. block' \in Nat /\ (stor = 1 => block' = 0)
  <2>1. CASE stor = 1
    <3>1. (stor - 1) * Volatile = 0
      BY <2>1, Sizes, SMT
    <3>. QED
      BY <1>1, <3>1
  <2>2. CASE stor = 2
    <3>1. (stor - 1) * Volatile = Volatile
      BY <2>2, Sizes, SMT
    <3>. QED
      BY <1>1, <2>2, <3>1, Sizes
  <2>. QED
    BY <2>1, <2>2
<1>4. Typed'
  BY <1>1, <1>3, NoJobRight DEF Typed
<1>5. Ranged'
  BY <1>1 DEF Ranged, NoJob
<1>6. RightSoFar(job.got, Amount)'
  BY <1>1, NoJobRight
<1>7. FileRight'
  BY <1>1, FileStays
<1>8. StatsRight'
  <2>1. \A n : Lost(n)' = Lost(n)
    BY <1>1, SameHive
  <2>2. Cardinality(Lost(0)) = 0
    BY LostFacts
  <2>3. stor = 1 => 0 \in 0..hive'.length[1] /\ block' = Block * 0 /\ bad'.reg + bad'.mem = Cardinality(Lost(0)')
    BY <1>1, <1>2, <1>3, <2>1, <2>2, Sizes
  <2>4. StatsRight' <=>
          /\ bad'.stor # 0
          /\ bad'.stor = 1 =>
               \E q \in 0..hive'.length[1] : block' = Block * q /\ bad'.reg + bad'.mem = Cardinality(Lost(q)')
    BY <1>1 DEF StatsRight
  <2>. QED
    BY <1>1, <2>3, <2>4
<1>. QED
  BY <1>4, <1>5, <1>6, <1>7, <1>8 DEF Inv

LEMMA StatsBlockInv ==
  ASSUME Inv, StatsBlock
  PROVE  Inv'
<1>. DEFINE L == hive.length[1]
            n == block
<1>1. /\ Typed /\ Ranged /\ FileRight /\ StatsRight /\ pc = "stats" /\ n < StatsEnd
      /\ bad' = IF HiveVtop(n) \in {None, SizeField} THEN [bad EXCEPT !.reg = @ + 1]
                ELSE IF IsData(BlockRead(n)) THEN bad
                ELSE [bad EXCEPT !.mem = @ + 1]
      /\ block' = n + Block
      /\ UNCHANGED <<hive, base, pc, job, file>>
  BY DEF Inv, StatsBlock
<1>2. L \in Nat /\ n \in Nat /\ hive \in Hives /\ job = NoJob /\ bad \in [stor : 0..2, reg : Nat, mem : Nat]
  BY <1>1, HiveAssumption DEF Typed, IsHive, Ranged
<1>3. bad' \in [stor : 0..2, reg : Nat, mem : Nat] /\ bad'.stor = bad.stor
  BY <1>1, <1>2
<1>4. Typed'
  <2>1. block' \in Nat
    BY <1>1, <1>2, Sizes
  <2>. QED
    BY <1>1, <1>3, <2>1 DEF Typed
<1>5. Ranged'
  BY <1>1, <1>2 DEF Ranged, NoJob
<1>6. RightSoFar(job.got, Amount)'
  BY <1>1, <1>2, NoJobRight
<1>7. FileRight'
  BY <1>1, FileStays
<1>8. ASSUME bad.stor = 1
      PROVE  \E q \in 0..L : block' = Block * q /\ bad'.reg + bad'.mem = Cardinality(Lost(q))
  <2>1. PICK q \in 0..L : n = Block * q /\ bad.reg + bad.mem = Cardinality(Lost(q))
    BY <1>1, <1>8 DEF StatsRight
  <2>2. q \in 0..(L - 1) /\ q \in Nat
    <3>1. StatsEnd = 0 * Volatile + L * Block
      BY <1>8 DEF StatsEnd
    <3>. HIDE DEF L, n
    <3>2. 0 * Volatile + L * Block = Block * L
      BY <1>2, Sizes, SMT
    <3>3. q # L
      <4>1. Block * L \in Nat
        BY <1>2, Sizes, SMT
      <4>. QED
        BY <1>1, <1>2, <2>1, <3>1, <3>2, <4>1
    <3>. QED
      BY <1>2, <2>1, <3>3
  <2>. DEFINE there == IsData(BlockRead(n))
  <2>3. bad'.reg + bad'.mem = bad.reg + bad.mem + (IF there THEN 0 ELSE 1)
    <3>1. HiveVtop(n) \in {None, SizeField} => ~there
      <4>1. CASE HiveVtop(n) = None
        BY <4>1 DEF BlockRead, No, IsData
      <4>2. CASE HiveVtop(n) # None /\ HiveVtop(n) = SizeField
        <5>1. n \in DOMAIN hive.at /\ n \in Nat /\ base \in Bases
          BY <1>1, <1>2, <2>1, <2>2, StableBlock DEF Typed
        <5>2. hive.at[n] \in Nat /\ Base(n) = n /\ n % Block = 0
          BY <1>2, <5>1, BlockFacts
        <5>3. HiveVtop(n) = hive.at[n] * Block + (n % Block) + SizeField
          BY <1>2, <4>2, <5>1, <5>2, VtopIs
        <5>. DEFINE x == hive.at[n] * Block
        <5>4. x \in Nat
          BY <5>2, Sizes, SMT
        <5>5. BlockRead(n) = BaseRead(HiveVtop(n) - SizeField, Block)
          BY <4>2 DEF BlockRead
        <5>. HIDE DEF x, n
        <5>6. HiveVtop(n) = x + 0 + SizeField
          BY <5>2, <5>3 DEF x
        <5>7. HiveVtop(n) - SizeField = 0
          BY <4>2, <5>4, <5>6, Sizes
        <5>8. ~There(0, Block)
          <6>1. 0 \in 0..(0 + Block - 1) /\ 0 \in 0..(Block - 1)
            BY Sizes
          <6>2. 0 \div Block = 0
            <7>1. Block * 0 + 0 = 0
              BY Sizes, SMT
            <7>2. (Block * 0 + 0) \div Block = 0
              BY <6>1, BaseUnique
            <7>. QED
              BY <7>1, <7>2
          <6>3. DOMAIN base \cap {0, 1} = {}
            BY <5>1, HiveAssumption
          <6>. QED
            BY <6>1, <6>2, <6>3 DEF There
        <5>. QED
          BY <5>5, <5>7, <5>8, BaseReadIs
      <4>. QED
        BY <4>1, <4>2
    <3>. HIDE DEF there
    <3>2. CASE HiveVtop(n) \in {None, SizeField}
      <4>1. bad' = [bad EXCEPT !.reg = @ + 1] /\ ~there
        BY <1>1, <3>1, <3>2
      <4>. QED
        BY <1>2, <4>1
    <3>3. CASE HiveVtop(n) \notin {None, SizeField} /\ there
      <4>1. bad' = bad
        BY <1>1, <3>3 DEF there
      <4>. QED
        BY <1>2, <3>3, <4>1
    <3>4. CASE HiveVtop(n) \notin {None, SizeField} /\ ~there
      <4>1. bad' = [bad EXCEPT !.mem = @ + 1]
        BY <1>1, <3>4 DEF there
      <4>. QED
        BY <1>2, <3>4, <4>1
    <3>. QED
      BY <3>2, <3>3, <3>4
  <2>4. Cardinality(Lost(q + 1)) = Cardinality(Lost(q)) + (IF there THEN 0 ELSE 1)
    BY <2>1, <2>2, LostFacts
  <2>5. q + 1 \in 0..L /\ block' = Block * (q + 1)
    <3>. HIDE DEF L, n
    <3>1. Block * (q + 1) = Block * q + Block
      BY <2>2, Sizes, SMT
    <3>. QED
      BY <1>1, <1>2, <2>1, <2>2, <3>1
  <2>. QED
    BY <2>1, <2>3, <2>4, <2>5
<1>9. StatsRight'
  <2>1. \A q : Lost(q)' = Lost(q)
    BY <1>1, SameHive
  <2>2. bad.stor # 0
    BY <1>1 DEF StatsRight
  <2>3. StatsRight' <=>
          /\ bad'.stor # 0
          /\ bad'.stor = 1 =>
               \E q \in 0..hive'.length[1] : block' = Block * q /\ bad'.reg + bad'.mem = Cardinality(Lost(q)')
    BY <1>1 DEF StatsRight
  <2>. QED
    BY <1>1, <1>3, <1>8, <2>1, <2>2, <2>3
<1>. QED
  BY <1>4, <1>5, <1>6, <1>7, <1>9 DEF Inv

LEMMA EndStatsInv ==
  ASSUME Inv, EndStats
  PROVE  Inv'
<1>. DEFINE L == hive.length[1]
<1>1. /\ Typed /\ Ranged /\ FileRight /\ StatsRight /\ pc = "stats" /\ block >= StatsEnd
      /\ pc' = "idle" /\ block' = 0
      /\ UNCHANGED <<hive, base, job, file, bad>>
  BY DEF Inv, EndStats
<1>2. L \in Nat /\ block \in Nat /\ job = NoJob
  BY <1>1, HiveAssumption DEF Typed, IsHive, Ranged
<1>3. Typed' /\ Ranged'
  BY <1>1, <1>2 DEF Typed, Ranged, NoJob
<1>4. RightSoFar(job.got, Amount)'
  BY <1>1, <1>2, NoJobRight
<1>5. FileRight'
  BY <1>1, FileStays
<1>6. ASSUME bad.stor = 1
      PROVE  bad.reg + bad.mem = Cardinality(Lost(L))
  <2>1. PICK q \in 0..L : block = Block * q /\ bad.reg + bad.mem = Cardinality(Lost(q))
    BY <1>1, <1>6 DEF StatsRight
  <2>2. StatsEnd = 0 * Volatile + L * Block
    BY <1>6 DEF StatsEnd
  <2>. HIDE DEF L
  <2>3. q = L
    <3>1. 0 * Volatile + L * Block = Block * L
      BY <1>2, Sizes, SMT
    <3>2. Block * q >= Block * L
      BY <1>1, <2>1, <2>2, <3>1
    <3>3. ASSUME q < L PROVE FALSE
      <4>1. q \in Nat /\ q + 1 <= L
        BY <1>2, <2>1, <3>3
      <4>2. Block * (q + 1) <= Block * L
        BY <1>2, <4>1, Sizes, SMT
      <4>3. Block * (q + 1) = Block * q + Block /\ Block * q \in Nat /\ Block * L \in Nat
        BY <1>2, <4>1, Sizes, SMT
      <4>. QED
        BY <3>2, <4>2, <4>3, Sizes
    <3>. QED
      BY <1>2, <2>1, <3>3
  <2>. QED
    BY <2>1, <2>3
<1>7. StatsRight'
  <2>1. \A q : Lost(q)' = Lost(q)
    BY <1>1, SameHive
  <2>2. StatsRight' <=> (bad'.stor = 1 => bad'.reg + bad'.mem = Cardinality(Lost(hive.length[1])'))
    BY <1>1 DEF StatsRight
  <2>. QED
    BY <1>1, <1>6, <2>1, <2>2
<1>. QED
  BY <1>3, <1>4, <1>5, <1>7 DEF Inv

LEMMA NextInv ==
  ASSUME Inv, [Next]_vars
  PROVE  Inv'
<1>1. CASE \E x \in Reads, z, s \in BOOLEAN : StartRead(x[1], x[2], z, s)
  BY <1>1, StartReadInv
<1>2. CASE ReadWithin
  BY <1>2, ReadWithinInv
<1>3. CASE ReadFirst
  BY <1>3, ReadFirstInv
<1>4. CASE ReadFull
  BY <1>4, ReadFullInv
<1>5. CASE ReadRest
  BY <1>5, ReadRestInv
<1>6. CASE StartSave
  BY <1>6, StartSaveInv
<1>7. CASE SaveBlock
  BY <1>7, SaveBlockInv
<1>8. CASE EndSave
  BY <1>8, EndSaveInv
<1>9. CASE \E stor \in 1..2 : StartStats(stor)
  BY <1>9, StartStatsInv
<1>10. CASE StatsBlock
  BY <1>10, StatsBlockInv
<1>11. CASE EndStats
  BY <1>11, EndStatsInv
<1>12. CASE UNCHANGED vars
  <2>1. UNCHANGED <<hive, base, pc, job, block, file, bad>>
    BY <1>12 DEF vars
  <2>2. Typed' /\ Ranged'
    <3>1. FirstBlock' = FirstBlock /\ FullsEnd' = FullsEnd
      BY <2>1, SameRange
    <3>2. Within(job.at, job.len)' <=> Within(job.at, job.len)
      BY <2>1 DEF Within
    <3>. QED
      BY <2>1, <3>1, <3>2 DEF Inv, Typed, Ranged, NoJob
  <2>3. RightSoFar(job.got, Amount)'
    <3>1. \A r, m : RightSoFar(r, m)' <=> RightSoFar(r, m)
      BY <2>1, SameRange
    <3>2. Amount' = Amount
      BY <2>1 DEF Amount
    <3>. QED
      BY <2>1, <3>1, <3>2 DEF Inv
  <2>4. FileRight'
    <3>1. \A a : SavedByte(a)' = SavedByte(a)
      BY <2>1, SameHive
    <3>. QED
      BY <2>1, <3>1 DEF Inv, FileRight
  <2>5. StatsRight'
    <3>1. \A n : Lost(n)' = Lost(n)
      BY <2>1, SameHive
    <3>. QED
      BY <2>1, <3>1 DEF Inv, StatsRight
  <2>. QED
    BY <2>2, <2>3, <2>4, <2>5 DEF Inv
<1>. QED
  BY <1>1, <1>2, <1>3, <1>4, <1>5, <1>6, <1>7, <1>8, <1>9, <1>10, <1>11, <1>12 DEF Next

(* The invariant, for every hive and every state of the kernel memory:     *)
(* what is read so far is right, what is saved so far is right, and what   *)
(* stats has counted so far is right.                                      *)
THEOREM InvariantHolds == Spec => []Inv
<1>1. Inv /\ [Next]_vars => Inv'
  BY NextInv
<1>. QED
  BY InitInv, <1>1, PTL DEF Spec

-----------------------------------------------------------------------------
(***************************************************************************)
(* When zread fails.  As long as it reads it has data, since each part but *)
(* the last is padded; the last decides.                                   *)
(***************************************************************************)
Padded ==
  job.zero => IF pc = "read" THEN IsData(job.got) ELSE IsData(job.got) <=> ~RestLost

LEMMA SameRest ==
  ASSUME UNCHANGED <<hive, base, file>>,
         job'.at = job.at, job'.len = job.len, job'.zero = job.zero, job'.saved = job.saved
  PROVE  RestLost' <=> RestLost
  BY DEF RestLost, LeftOver, FullsEnd, FullBlocks, FirstBlock, Vtop, FileVtop, HiveVtop,
         MapBlock, Get, Read, FileRead, BaseRead, IsData, Data, No

LEMMA PaddedReturn ==
  ASSUME Typed, NEW r, Return(r), job.zero => (IsData(r) <=> ~RestLost)
  PROVE  Padded'
<1>1. /\ job'.at = job.at /\ job'.len = job.len /\ job'.zero = job.zero /\ job'.saved = job.saved
      /\ job'.got = r /\ pc' = "idle" /\ UNCHANGED <<hive, base, file>>
  BY DEF Return, Typed
<1>2. RestLost' <=> RestLost
  BY <1>1, SameRest
<1>. QED
  BY <1>1, <1>2 DEF Padded, IsData

LEMMA PaddedGo ==
  ASSUME Typed, pc = "read", NEW v, NEW r, Go(v, r), job.zero => IsData(r)
  PROVE  Padded'
<1>1. job'.zero = job.zero /\ job'.got = r /\ pc' = "read"
  BY DEF Go, Typed
<1>. QED
  BY <1>1 DEF Padded, IsData

\* The first piece of a zread is data, and so is a sum of data.
LEMMA PieceData == ASSUME NEW v, NEW n, job.zero PROVE IsData(Piece(v, n))
  BY DEF Piece, IsData, Data

LEMMA SumData ==
  ASSUME NEW r, NEW t, IsData(r)
  PROVE  /\ IsData(Add(r, t)) <=> IsData(t)
         /\ IsData(t) => Add(r, t).kind # "TypeError"
  BY DEF Add, IsData, Data, No

LEMMA PaddedRead ==
  ASSUME Inv, Padded, ReadWithin \/ ReadFirst \/ ReadFull \/ ReadRest
  PROVE  Padded'
<1>1. Typed /\ pc = "read" /\ (job.zero => IsData(job.got))
      /\ job.at \in Nat /\ job.len \in Nat \ {0}
  BY DEF Inv, Typed, Ranged, Padded, ReadWithin, ReadFirst, ReadFull, ReadRest, AtStart
<1>2. FirstBlock \in Int
  BY <1>1, Parts, Sizes
<1>3. CASE ReadWithin
  <2>1. Return(Piece(job.at, job.len)) /\ ~(job.len >= FirstBlock)
    BY <1>1, <1>2, <1>3 DEF ReadWithin
  <2>2. ~RestLost
    BY <2>1 DEF RestLost
  <2>. QED
    BY <1>1, <2>1, <2>2, PieceData, PaddedReturn
<1>4. CASE ReadFirst
  <2>1. CASE job.zero
    <3>1. Go(job.at + FirstBlock, Piece(job.at, FirstBlock))
      BY <1>4, <2>1 DEF ReadFirst
    <3>. QED
      BY <1>1, <3>1, PieceData, PaddedGo
  <2>2. CASE ~job.zero
    <3>1. job'.zero = job.zero
      BY <1>1, <1>4 DEF ReadFirst, Return, Go, Typed
    <3>. QED
      BY <2>2, <3>1 DEF Padded
  <2>. QED
    BY <2>1, <2>2
<1>5. CASE ReadFull
  <2>. DEFINE there == Get(job.next, Block)
              t == IF Vtop(job.next) = None THEN Data(Zeros(Block)) ELSE there
              sum == Add(job.got, t)
  <2>1. IF IsData(there) \/ (job.zero /\ Vtop(job.next) = None)
        THEN IF sum.kind = "TypeError" THEN Return(sum) ELSE Go(job.next + Block, sum)
        ELSE IF job.zero THEN Go(job.next + Block, job.got) ELSE Return(No("None"))
    BY <1>5 DEF ReadFull
  <2>2. IsData(there) \/ Vtop(job.next) = None => IsData(t)
    BY DEF IsData, Data
  <2>. HIDE DEF t
  <2>3. job.zero /\ IsData(t) => IsData(sum) /\ sum.kind # "TypeError"
    BY <1>1, SumData
  <2>. HIDE DEF sum, there
  <2>4. CASE ~job.zero
    <3>1. job'.zero = job.zero
      BY <1>1, <2>1 DEF Return, Go, Typed
    <3>. QED
      BY <2>4, <3>1 DEF Padded
  <2>5. CASE job.zero /\ (IsData(there) \/ Vtop(job.next) = None)
    <3>1. Go(job.next + Block, sum) /\ IsData(sum)
      BY <2>1, <2>2, <2>3, <2>5
    <3>. QED
      BY <1>1, <3>1, PaddedGo
  <2>6. CASE job.zero /\ ~(IsData(there) \/ Vtop(job.next) = None)
    <3>1. Go(job.next + Block, job.got)
      BY <2>1, <2>6
    <3>. QED
      BY <1>1, <3>1, PaddedGo
  <2>. QED
    BY <2>4, <2>5, <2>6
<1>6. CASE ReadRest
  <2>. DEFINE there == Get(FullsEnd, LeftOver)
              z == Data(Zeros(LeftOver))
  <2>1. /\ job.next # job.at /\ job.next = FullsEnd
        /\ Return(IF LeftOver = 0 THEN job.got
                  ELSE IF Vtop(FullsEnd) # None THEN Add(job.got, there)
                  ELSE IF job.zero THEN Add(job.got, z)
                  ELSE No("None"))
    BY <1>6 DEF ReadRest
  <2>2. job.len >= FirstBlock /\ LeftOver \in Nat
    BY <1>1, <2>1, Parts, Sizes DEF Inv, Ranged
  <2>3. RestLost <=> LeftOver > 0 /\ Vtop(FullsEnd) # None /\ ~IsData(there)
    BY <2>2 DEF RestLost
  <2>4. job.zero => (IsData(Add(job.got, there)) <=> IsData(there)) /\ IsData(Add(job.got, z))
    <3>1. IsData(z)
      BY DEF IsData, Data
    <3>. QED
      BY <1>1, <3>1, SumData
  <2>. HIDE DEF there, z
  <2>5. CASE LeftOver = 0
    <3>1. Return(job.got) /\ ~RestLost
      BY <2>1, <2>3, <2>5
    <3>. QED
      BY <1>1, <3>1, PaddedReturn
  <2>6. CASE LeftOver # 0 /\ Vtop(FullsEnd) # None
    <3>1. Return(Add(job.got, there)) /\ (RestLost <=> ~IsData(there))
      BY <2>1, <2>2, <2>3, <2>6
    <3>. QED
      BY <1>1, <2>4, <3>1, PaddedReturn
  <2>7. CASE LeftOver # 0 /\ Vtop(FullsEnd) = None /\ job.zero
    <3>1. Return(Add(job.got, z)) /\ ~RestLost
      BY <2>1, <2>3, <2>7
    <3>. QED
      BY <1>1, <2>4, <3>1, PaddedReturn
  <2>8. CASE LeftOver # 0 /\ Vtop(FullsEnd) = None /\ ~job.zero
    <3>1. Return(No("None"))
      BY <2>1, <2>8
    <3>. QED
      BY <1>1, <2>8, <3>1, PaddedReturn
  <2>. QED
    BY <2>5, <2>6, <2>7, <2>8
<1>. QED
  BY <1>3, <1>4, <1>5, <1>6

LEMMA PaddedStep == Inv /\ Padded /\ [Next]_vars => Padded'
<1>. SUFFICES ASSUME Inv, Padded, [Next]_vars PROVE Padded'
  OBVIOUS
<1>1. CASE \E x \in Reads, z, s \in BOOLEAN : StartRead(x[1], x[2], z, s)
  <2>1. pc' = "read" /\ job'.got = Data(<<>>)
    BY <1>1 DEF StartRead
  <2>. QED
    BY <2>1 DEF Padded, IsData, Data
<1>2. CASE ReadWithin \/ ReadFirst \/ ReadFull \/ ReadRest
  BY <1>2, PaddedRead
<1>3. CASE StartSave \/ \E stor \in 1..2 : StartStats(stor)
  BY <1>3 DEF StartSave, StartStats, Padded, NoJob
<1>4. CASE SaveBlock \/ EndSave \/ StatsBlock \/ EndStats
  <2>1. job = NoJob /\ job' = job
    BY <1>4 DEF SaveBlock, EndSave, StatsBlock, EndStats, Inv, Ranged
  <2>. QED
    BY <2>1 DEF Padded, NoJob
<1>5. CASE UNCHANGED vars
  <2>1. pc' = pc /\ job' = job /\ UNCHANGED <<hive, base, file>>
    BY <1>5 DEF vars
  <2>2. RestLost' <=> RestLost
    BY <2>1, SameRest
  <2>. QED
    BY <2>1, <2>2 DEF Padded, IsData
<1>. QED
  BY <1>1, <1>2, <1>3, <1>4, <1>5 DEF Next

LEMMA PaddedHolds == Spec => []Padded
<1>1. Init => Padded
  BY DEF Init, Padded, NoJob
<1>. QED
  BY <1>1, InvariantHolds, PaddedStep, PTL DEF Spec
-----------------------------------------------------------------------------
LEMMA InvTypeOK == Inv => TypeOK
<1>. SUFFICES ASSUME Inv PROVE TypeOK
  OBVIOUS
<1>1. /\ hive \in Hives /\ base \in Bases /\ pc \in {"idle", "read", "save", "stats"}
      /\ job.got.kind \in {"data", "None", "NoneObject", "TypeError"}
      /\ block \in Nat /\ file \in Seq(Nat) /\ bad \in [stor : 0..2, reg : Nat, mem : Nat]
  BY DEF Inv, Typed, Result
<1>2. ASSUME pc = "read" PROVE job.next \in {job.at} \cup (job.at + FirstBlock)..FullsEnd
  <2>1. CASE job.next = job.at
    BY <2>1
  <2>2. CASE job.next # job.at
    <3>1. /\ job.at \in Nat /\ job.len \in Nat \ {0} /\ job.next \in Nat /\ job.len >= FirstBlock
          /\ job.at + FirstBlock <= job.next /\ job.next <= FullsEnd
      BY <1>2, <2>2 DEF Inv, Typed, Ranged
    <3>2. FirstBlock \in Int /\ FullsEnd \in Int
      BY <3>1, Parts, Sizes
    <3>. QED
      BY <3>1, <3>2
  <2>. QED
    BY <2>1, <2>2
<1>3. pc = "save" => Len(file) = Block + block
  BY DEF Inv, FileRight
<1>. QED
  BY <1>1, <1>2, <1>3 DEF TypeOK

(* The type invariant: reads stay within their parts, and the file has a   *)
(* block for every block that save has done.                               *)
THEOREM TypeCorrect == Spec => []TypeOK
  BY InvariantHolds, InvTypeOK, PTL

LEMMA InvReadExact == Inv /\ Padded => ReadExact
<1>. SUFFICES ASSUME Inv, Padded, pc = "idle", ~job.saved
     PROVE  LET right == CellData(job.at, job.len)
                got == job.got.bytes
            IN /\ IsData(job.got) /\ ~job.zero => got = right
               /\ job.zero => (IsData(job.got) <=> ~RestLost)
               /\ job.zero /\ ~RestLost /\ ~FullLost =>
                    Len(got) = job.len /\ \A j \in DOMAIN got : got[j] \in {right[j], 0}
               /\ (/\ \A a \in {job.at} \cup job.at..(job.at + job.len - 1) : HiveVtop(a) # None
                   /\ IsData(BaseRead(HiveVtop(job.at), job.len))) => job.got = Data(right)
  BY DEF ReadExact
<1>1. RightSoFar(job.got, job.len)
  BY DEF Inv, Amount
<1>2. job.got.bytes \in Seq(Nat)
  BY DEF Inv, Typed, Result
<1>3. Len(job.got.bytes) = job.len => DOMAIN job.got.bytes = 1..job.len
  BY <1>2
<1>4. job.zero => (IsData(job.got) <=> ~RestLost)
  BY DEF Padded
<1>. QED
  BY <1>1, <1>3, <1>4 DEF RightSoFar, Whole

(* A read of a cell's data gives what the cell has or fails, and fails     *)
(* only where a block is not mapped or not in memory.  A zread fails just  *)
(* where the memory of what is left over is lost, and gives as many bytes, *)
(* each right or zero, unless that of a full block is: HiveAddressSpace's  *)
(* read and zread.                                                         *)
THEOREM ReadIsExact == Spec => []ReadExact
  BY InvariantHolds, PaddedHolds, InvReadExact, PTL

LEMMA InvSavedReads == Inv => SavedReadsSame
<1>. SUFFICES ASSUME Inv, pc = "idle", job.saved, job.at < Volatile
     PROVE  job.got = Data(SavedData(job.at, job.len))
  BY DEF SavedReadsSame, SavedData, SavedByte, Base
<1>. QED
  BY DEF Inv, Amount, RightSoFar

(* What save writes, HiveFileAddressSpace reads as the hive in memory has  *)
(* it, with zeros for what could not be read.                              *)
THEOREM SavedReadsAreSame == Spec => []SavedReadsSame
  BY InvariantHolds, InvSavedReads, PTL

LEMMA InvStatsMatch == Inv => StatsMatchSave
<1>. DEFINE L == hive.length[1]
            Empty == {i \in 1..L : SubSeq(file, i * Block + 1, (i + 1) * Block) = Zeros(Block)}
<1>. SUFFICES ASSUME Inv, pc = "idle", bad.stor = 1, file # <<>>
     PROVE  bad.reg + bad.mem = Cardinality(Empty)
  BY DEF StatsMatchSave
<1>1. bad.reg + bad.mem = Cardinality(Lost(L))
  BY DEF Inv, StatsRight
<1>2. Len(file) = Block + Block * L /\ \A a \in 0..(Block * L - 1) : file[Block + a + 1] = SavedByte(a)
  BY DEF Inv, FileRight
<1>3. hive \in Hives /\ L \in Nat /\ file \in Seq(Nat)
  BY HiveAssumption DEF Inv, Typed, IsHive
<1>4. ASSUME NEW i \in 1..L
      PROVE  SubSeq(file, i * Block + 1, (i + 1) * Block) = Zeros(Block) <=> ~IsData(BlockRead(Block * (i - 1)))
  <2>. DEFINE q == i - 1
              b == Block * q
              k == i * Block + 1
              m == (i + 1) * Block
              s == SubSeq(file, k, m)
  <2>1. q \in 0..(L - 1) /\ q \in Nat
    BY <1>3
  <2>2. b \in DOMAIN hive.at /\ b \in Nat
    BY <1>3, <2>1, StableBlock
  <2>3. k = b + Block + 1 /\ m = b + Block + Block /\ b + Block <= Block * L
    <3>1. i * Block = b + Block /\ m = b + Block + Block
      BY <1>3, Sizes, SMT
    <3>. HIDE DEF L, b
    <3>2. i \in Nat /\ i <= L
      BY <1>3
    <3>3. Block * i <= Block * L /\ Block * i = i * Block
      BY <1>3, <3>2, Sizes, SMT
    <3>. QED
      BY <3>1, <3>3
  <2>. HIDE DEF L, k, m, b
  <2>4. k \in Int /\ m \in Int /\ k <= m /\ m - k + 1 = Block
    <3>1. k = b + Block + 1 /\ m = b + Block + Block
      BY <2>3
    <3>2. b \in Nat /\ Block \in Nat \ {0}
      BY <2>2, Sizes
    <3>3. k \in Int /\ m \in Int
      BY <3>1, <3>2
    <3>4. k <= m
      BY <3>1, <3>2
    <3>5. m - k + 1 = Block
      BY <3>1, <3>2
    <3>. QED
      BY <3>3, <3>4, <3>5
  <2>5. \A j \in k..m : file[j] \in Nat
    <3>1. Block * L \in Nat
      BY <1>3, Sizes, SMT
    <3>2. k >= 1 /\ m <= Len(file) /\ Len(file) \in Nat
      BY <1>2, <2>2, <2>3, <3>1, Sizes
    <3>3. \A j \in 1..Len(file) : file[j] \in Nat
      BY <1>3
    <3>. QED
      BY <2>4, <3>2, <3>3
  <2>6. s \in Seq(Nat) /\ Len(s) = Block /\ \A j \in 1..Block : s[j] = file[k + j - 1]
    <3>1. /\ s \in Seq(Nat)
          /\ Len(s) = IF k <= m THEN m - k + 1 ELSE 0
          /\ \A j \in 1..(m - k + 1) : s[j] = file[k + j - 1]
      BY <2>4, <2>5, SubSeqProperties
    <3>. HIDE DEF s
    <3>. QED
      BY <2>4, <3>1
  <2>. HIDE DEF s
  <2>7. \A j \in 1..Block : s[j] = SavedByte(b + j - 1)
    <3>. TAKE j \in 1..Block
    <3>. DEFINE a == b + j - 1
    <3>1. Block * L \in Nat
      BY <1>3, Sizes, SMT
    <3>2. a \in 0..(Block * L - 1) /\ k + j - 1 = Block + a + 1
      BY <2>2, <2>3, <3>1, Sizes
    <3>. HIDE DEF a
    <3>3. s[j] = file[Block + a + 1] /\ file[Block + a + 1] = SavedByte(a)
      BY <1>2, <2>6, <3>2
    <3>. QED
      BY <3>3 DEF a
  <2>8. \A j \in 1..Block : Base(b + j - 1) = b
    <3>. TAKE j \in 1..Block
    <3>. DEFINE r == j - 1
    <3>1. r \in 0..(Block - 1)
      BY Sizes
    <3>. HIDE DEF r, q
    <3>2. Base(Block * q + r) = Block * q
      BY <2>1, <3>1, BaseUnique
    <3>. QED
      BY <3>2 DEF r, b
  <2>9. CASE IsData(BlockRead(b))
    <3>. DEFINE a == b + 1 - 1
    <3>1. 1 \in 1..Block /\ a = b
      BY <2>2, Sizes
    <3>2. s[1] = SavedByte(a)
      BY <2>7, <3>1
    <3>3. SavedByte(a) = ByteAt(b)
      <4>1. Base(a) = b
        BY <2>8, <3>1
      <4>. HIDE DEF a
      <4>. QED
        BY <2>9, <3>1, <4>1 DEF SavedByte
    <3>4. ByteAt(b) # 0
      <4>1. hive.at[b] \in Nat /\ Base(b) = b /\ b % Block = 0
        BY <1>3, <2>2, BlockFacts
      <4>2. ByteAt(b) = hive.at[b] * Block + (b % Block) + 1
        BY <4>1 DEF ByteAt, Base
      <4>. DEFINE x == hive.at[b] * Block
      <4>3. x \in Nat
        BY <4>1, Sizes, SMT
      <4>. HIDE DEF x
      <4>4. ByteAt(b) = x + 0 + 1
        BY <4>1, <4>2 DEF x
      <4>. QED
        BY <4>3, <4>4
    <3>5. Zeros(Block)[1] = 0
      BY <3>1 DEF Zeros
    <3>6. s # Zeros(Block)
      BY <3>2, <3>3, <3>4, <3>5
    <3>. QED
      BY <2>9, <3>6 DEF s, b, k, m
  <2>10. CASE ~IsData(BlockRead(b))
    <3>1. \A j \in 1..Block : SavedByte(b + j - 1) = 0
      BY <2>8, <2>10 DEF SavedByte
    <3>2. \A j \in 1..Block : s[j] = 0
      BY <2>7, <3>1
    <3>3. s = Zeros(Block)
      BY <2>6, <3>2 DEF Zeros
    <3>. QED
      BY <2>10, <3>3 DEF s, b, k, m
  <2>. QED
    BY <2>9, <2>10
<1>5. Empty = Lost(L)
  BY <1>4 DEF Lost
<1>. QED
  BY <1>1, <1>5

(* stats counts as bad the blocks for which save has written zeros.        *)
THEOREM StatsMatch == Spec => []StatsMatchSave
  BY InvariantHolds, InvStatsMatch, PTL
=============================================================================
