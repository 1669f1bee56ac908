-------------------------- MODULE PageTablesProofs --------------------------
(***************************************************************************)
(* Proofs about PageTables, for every number of entries in a table, every  *)
(* image and the three classes.                                            *)
(*                                                                         *)
(* The walk keeps its place in Aligned: the next page starts an entry of   *)
(* the innermost open table.  When the walk moves on by the span of that   *)
(* entry, it leaves the loops whose span it has come to a multiple of; in  *)
(* the others the index has not changed, because less than their span is   *)
(* between two multiples.  So the tables stay those on vtop's way.         *)
(*                                                                         *)
(* That the lister implements AvailableRanges follows from Listed: the     *)
(* ranges given and the open run are together the pages before the next    *)
(* that vtop translates, and none is right before the open run. NxKnown    *)
(* says when the lister knows that a page is behind NX.                    *)
(***************************************************************************)
EXTENDS PageTables, FiniteSetTheorems, TLAPS

Aligned == page % Span(Level) = 0

IInv == TypeOK /\ Aligned /\ SameWay

LEMMA DivMod ==
  ASSUME NEW a \in Nat, NEW s \in Nat \ {0}
  PROVE  /\ a = s * (a \div s) + (a % s)
         /\ a \div s \in Nat
         /\ a % s \in 0..(s - 1)
  BY SMT

LEMMA DivUnique ==
  ASSUME NEW s \in Nat \ {0}, NEW q \in Nat, NEW r \in 0..(s - 1)
  PROVE  (s * q + r) \div s = q /\ (s * q + r) % s = r
<1>. DEFINE a == s * q + r
<1>1. a \in Nat
  BY SMT
<1>. DEFINE d == a \div s
            m == a % s
<1>2. a = s * d + m /\ d \in Nat /\ m \in 0..(s - 1)
  BY <1>1, DivMod
<1>3. a = s * q + r
  OBVIOUS
<1>. HIDE DEF a, d, m
<1>4. ASSUME d < q PROVE FALSE
  <2>1. d + 1 <= q
    BY <1>2, <1>4
  <2>2. s * (d + 1) <= s * q
    BY <1>2, <2>1, SMT
  <2>3. s * (d + 1) = s * d + s
    BY <1>2, SMT
  <2>4. s * d \in Nat /\ s * q \in Nat
    BY <1>2, SMT
  <2>. QED
    BY <1>2, <1>3, <2>2, <2>3, <2>4
<1>5. ASSUME q < d PROVE FALSE
  <2>1. q + 1 <= d
    BY <1>2, <1>5
  <2>2. s * (q + 1) <= s * d
    BY <1>2, <2>1, SMT
  <2>3. s * (q + 1) = s * q + s
    BY SMT
  <2>4. s * d \in Nat /\ s * q \in Nat
    BY <1>2, SMT
  <2>. QED
    BY <1>2, <1>3, <2>2, <2>3, <2>4
<1>6. d = q
  BY <1>2, <1>4, <1>5
<1>7. m = r
  BY <1>2, <1>3, <1>6
<1>. QED
  BY <1>6, <1>7 DEF d, m, a

\* A multiple of s and the next one.
LEMMA NextMultiple ==
  ASSUME NEW s \in Nat \ {0}, NEW a \in Nat, a % s = 0
  PROVE  (a + s) % s = 0
<1>. DEFINE q == a \div s
<1>1. q \in Nat /\ a = s * q
  BY DivMod
<1>. HIDE DEF q
<1>2. a + s = s * (q + 1) + 0
  BY <1>1, SMT
<1>. QED
  BY <1>1, <1>2, DivUnique

LEMMA NextFits ==
  ASSUME NEW s \in Nat \ {0}, NEW a \in Nat, NEW b \in Nat,
         a % s = 0, b % s = 0, a < b
  PROVE  a + s <= b
<1>. DEFINE i == a \div s
            j == b \div s
<1>1. i \in Nat /\ a = s * i
  BY DivMod
<1>2. j \in Nat /\ b = s * j
  BY DivMod
<1>. HIDE DEF i, j
<1>3. i < j
  <2>1. ASSUME j <= i PROVE FALSE
    <3>1. s * j <= s * i
      BY <1>1, <1>2, <2>1, SMT
    <3>. QED
      BY <1>1, <1>2, <3>1
  <2>. QED
    BY <1>1, <1>2, <2>1
<1>4. s * (i + 1) <= s * j
  BY <1>1, <1>2, <1>3, SMT
<1>5. s * (i + 1) = a + s
  BY <1>1, SMT
<1>. QED
  BY <1>2, <1>4, <1>5

LEMMA MultipleOfMultiple ==
  ASSUME NEW s \in Nat \ {0}, NEW k \in Nat \ {0}, NEW a \in Nat,
         a % (k * s) = 0
  PROVE  a % s = 0
<1>. DEFINE S == k * s
            q == a \div S
<1>1. S \in Nat \ {0} /\ S = k * s
  BY SMT
<1>2. a % S = 0
  OBVIOUS
<1>. HIDE DEF S
<1>3. q \in Nat /\ a = S * q
  <2>1. a = S * q + (a % S) /\ q \in Nat
    BY <1>1, DivMod
  <2>2. S * q \in Nat
    BY <1>1, <2>1, SMT
  <2>. QED
    BY <1>2, <2>1, <2>2
<1>. HIDE DEF q
<1>4. k * q \in Nat /\ a = s * (k * q) + 0
  BY <1>1, <1>3, SMT
<1>. QED
  BY <1>4, DivUnique

\* Between two multiples of s that are not over a multiple of k * s, the
\* quotient by k * s is the same.
LEMMA SameQuotient ==
  ASSUME NEW s \in Nat \ {0}, NEW k \in Nat \ {0}, NEW a \in Nat,
         a % s = 0, (a + s) % (k * s) # 0
  PROVE  (a + s) \div (k * s) = a \div (k * s)
<1>. DEFINE S == k * s
            i == a \div s
            q == a \div S
            r == a % S
<1>1. S \in Nat \ {0} /\ S = k * s
  BY SMT
<1>2. i \in Nat /\ a = s * i
  BY DivMod
<1>3. q \in Nat /\ r \in 0..(S - 1) /\ a = S * q + r
  BY <1>1, DivMod
<1>4. (a + s) % S # 0
  OBVIOUS
<1>. HIDE DEF S, i, q, r
<1>. DEFINE m == i - k * q
<1>5. m \in Int /\ r = s * m
  BY <1>1, <1>2, <1>3, SMT
<1>. HIDE DEF m
<1>6. m < k
  <2>1. ASSUME k <= m PROVE FALSE
    <3>1. s * k <= s * m
      BY <1>5, <2>1, SMT
    <3>2. s * k = S
      BY <1>1, SMT
    <3>. QED
      BY <1>1, <1>3, <1>5, <3>1, <3>2
  <2>. QED
    BY <1>5, <2>1
<1>7. s * (m + 1) <= s * k
  BY <1>5, <1>6, SMT
<1>8. s * (m + 1) = r + s /\ s * k = S
  BY <1>1, <1>5, SMT
<1>9. r + s <= S
  BY <1>7, <1>8
<1>10. r + s # S
  <2>1. ASSUME r + s = S PROVE FALSE
    <3>1. a + s = S * (q + 1) + 0
      BY <1>1, <1>3, <2>1, SMT
    <3>2. (a + s) % S = 0
      BY <1>1, <1>3, <3>1, DivUnique
    <3>. QED
      BY <1>4, <3>2
  <2>. QED
    BY <2>1
<1>11. r + s \in 0..(S - 1) /\ a + s = S * q + (r + s)
  BY <1>1, <1>3, <1>9, <1>10, SMT
<1>12. (a + s) \div S = q
  BY <1>1, <1>3, <1>11, DivUnique
<1>. QED
  BY <1>12 DEF q, S
-----------------------------------------------------------------------------
\* The span of a level is a multiple of the spans below it.
LEMMA SpanFacts ==
  ASSUME kind \in Kinds
  PROVE  /\ Depth(kind) \in {2, 3, 4}
         /\ \A l \in 0..Depth(kind) : Span(l) \in Nat \ {0}
         /\ Span(Depth(kind)) = 1
         /\ \A l, m \in 0..Depth(kind) :
              l <= m => \E k \in Nat \ {0} : Span(l) = k * Span(m)
<1>1. Depth(kind) \in {2, 3, 4}
  BY TablesAssumption DEF Depth
<1>2. Fan \in Nat \ {0}
  BY TablesAssumption
<1>3. /\ Fan * Fan \in Nat \ {0}
      /\ Fan * Fan * Fan \in Nat \ {0}
      /\ Fan * Fan * Fan * Fan \in Nat \ {0}
  BY <1>2, SMT
<1>4. \A i \in 1..5 : Powers[i] \in Nat \ {0}
  BY <1>2, <1>3 DEF Powers
<1>5. \A i, j \in 1..5 : i <= j => Powers[j] = Powers[j - i + 1] * Powers[i]
  <2>1. \A a \in Nat : 1 * a = a /\ a * 1 = a
    BY SMT
  <2>2. /\ (Fan * Fan) * Fan = Fan * (Fan * Fan)
        /\ (Fan * Fan * Fan) * Fan = Fan * (Fan * Fan * Fan)
        /\ (Fan * Fan) * (Fan * Fan) = Fan * Fan * Fan * Fan
    BY <1>2, SMT
  <2>3. /\ Powers[1] = 1 /\ Powers[2] = Fan /\ Powers[3] = Fan * Fan
        /\ Powers[4] = Fan * Fan * Fan /\ Powers[5] = Fan * Fan * Fan * Fan
    BY DEF Powers
  <2>4. SUFFICES ASSUME NEW i \in 1..5, NEW j \in 1..5, i <= j
                 PROVE  Powers[j] = Powers[j - i + 1] * Powers[i]
    OBVIOUS
  <2>5. CASE i = 1
    BY <1>4, <2>1, <2>3, <2>5
  <2>6. CASE j = i
    BY <1>4, <2>1, <2>3, <2>6
  <2>7. CASE i = 2 /\ j = 3
    BY <2>3, <2>7
  <2>8. CASE i = 2 /\ j = 4
    BY <2>3, <2>8
  <2>9. CASE i = 2 /\ j = 5
    BY <2>3, <2>9
  <2>10. CASE i = 3 /\ j = 4
    BY <2>2, <2>3, <2>10
  <2>11. CASE i = 3 /\ j = 5
    BY <2>2, <2>3, <2>11
  <2>12. CASE i = 4 /\ j = 5
    BY <2>2, <2>3, <2>12
  <2>. QED
    BY <2>4, <2>5, <2>6, <2>7, <2>8, <2>9, <2>10, <2>11, <2>12
<1>6. \A l \in 0..Depth(kind) : Depth(kind) - l + 1 \in 1..5
  BY <1>1
<1>7. \A l \in 0..Depth(kind) : Span(l) \in Nat \ {0}
  BY <1>1, <1>4, <1>6 DEF Span
<1>8. Span(Depth(kind)) = 1
  BY <1>1 DEF Span, Powers
<1>9. ASSUME NEW l \in 0..Depth(kind), NEW m \in 0..Depth(kind), l <= m
      PROVE  \E k \in Nat \ {0} : Span(l) = k * Span(m)
  <2>. DEFINE i == Depth(kind) - m + 1
              j == Depth(kind) - l + 1
  <2>1. i \in 1..5 /\ j \in 1..5 /\ i <= j /\ j - i + 1 \in 1..5
    BY <1>1, <1>9
  <2>2. Powers[j] = Powers[j - i + 1] * Powers[i]
    BY <1>5, <2>1
  <2>. QED
    BY <1>4, <2>1, <2>2 DEF Span
<1>. QED
  BY <1>1, <1>7, <1>8, <1>9

\* Every span divides the whole address space.
LEMMA TotalMultiple ==
  ASSUME kind \in Kinds, NEW l \in 0..Depth(kind)
  PROVE  Total \in Nat \ {0} /\ Total % Span(l) = 0
<1>1. Span(l) \in Nat \ {0} /\ Total \in Nat \ {0}
  BY SpanFacts DEF Total
<1>2. PICK k \in Nat \ {0} : Total = k * Span(l)
  <2>1. Depth(kind) \in {2, 3, 4}
    BY SpanFacts
  <2>2. 0 \in 0..Depth(kind) /\ 0 <= l
    BY <2>1
  <2>. QED
    BY <2>2, SpanFacts DEF Total
<1>3. Total = Span(l) * k + 0
  BY <1>1, <1>2, SMT
<1>. QED
  BY <1>1, <1>2, <1>3, DivUnique

\* The loops left open when the walk moves on, and where it is in them.
LEMMA LoopsFacts ==
  ASSUME TypeOK, Aligned, page < Total,
         NEW n, n = page + Span(Level), NEW t, t = LoopsAt(n)
  PROVE  /\ n \in 0..Total
         /\ t \in Seq(Frames \union {None}) /\ Len(t) \in 1..Level
         /\ \A l \in 1..Len(t) : t[l] = tables[l]
         /\ n % Span(Len(t)) = 0
         /\ n = Total => Len(t) = 1
         /\ \A l \in 1..(Len(t) - 1) : n \div Span(l) = page \div Span(l)
<1>1. /\ kind \in Kinds /\ page \in Nat /\ Level \in 1..Depth(kind)
      /\ Depth(kind) \in {2, 3, 4}
      /\ tables \in Seq(Frames \union {None})
  BY SpanFacts DEF TypeOK
<1>2. \A l \in 0..Depth(kind) : Span(l) \in Nat \ {0}
  BY <1>1, SpanFacts
<1>3. Level \in 1..4 /\ Level \in 0..Depth(kind)
      /\ \A l \in 1..Level : l \in 0..Depth(kind) /\ l - 1 \in 0..Depth(kind)
  BY <1>1
<1>4. page % Span(Level) = 0
  BY DEF Aligned
<1>5. n \in Nat /\ n % Span(Level) = 0
  <2>1. Span(Level) \in Nat \ {0} /\ page \in Nat
    BY <1>1, <1>2, <1>3
  <2>2. (page + Span(Level)) % Span(Level) = 0
    BY <1>4, <2>1, NextMultiple
  <2>. QED
    BY <2>1, <2>2
<1>6. n \in 0..Total
  <2>1. Total \in Nat \ {0} /\ Total % Span(Level) = 0
    BY <1>1, <1>3, TotalMultiple
  <2>2. page + Span(Level) <= Total
    BY <1>1, <1>2, <1>3, <1>4, <2>1, NextFits
  <2>. QED
    BY <1>5, <2>1, <2>2
<1>. DEFINE D == {m \in 1..Level : m = 1 \/ n % Span(m - 1) # 0}
<1>7. \A m \in D, k \in 1..4 : k <= m => k \in D
  <2>1. SUFFICES ASSUME NEW m \in D, NEW k \in 1..4, k <= m, k # 1
                 PROVE  n % Span(k - 1) # 0
    BY <1>3
  <2>2. n % Span(m - 1) # 0 /\ k - 1 <= m - 1
        /\ m - 1 \in 0..Depth(kind) /\ k - 1 \in 0..Depth(kind)
    BY <1>1, <1>3, <2>1
  <2>3. PICK c \in Nat \ {0} : Span(k - 1) = c * Span(m - 1)
    BY <1>1, <2>2, SpanFacts
  <2>4. Span(m - 1) \in Nat \ {0}
    BY <1>2, <2>2
  <2>5. ASSUME n % Span(k - 1) = 0 PROVE FALSE
    <3>1. n % (c * Span(m - 1)) = 0
      BY <2>3, <2>5
    <3>2. n % Span(m - 1) = 0
      BY <1>5, <2>4, <3>1, MultipleOfMultiple
    <3>. QED
      BY <2>2, <3>2
  <2>. QED
    BY <2>5
<1>. DEFINE w == IF 4 \in D THEN 4 ELSE IF 3 \in D THEN 3 ELSE IF 2 \in D THEN 2 ELSE 1
<1>8. 1 \in D /\ D \subseteq 1..Level
  BY <1>3
<1>9. w \in D
  BY <1>8
<1>10. D = 1..w
  <2>1. \A m \in D : m \in 1..4 /\ m <= w
    BY <1>3, <1>8
  <2>2. \A m \in 1..w : m \in D
    BY <1>3, <1>7, <1>8, <1>9
  <2>. QED
    BY <1>3, <1>8, <2>1, <2>2
<1>11. w \in 1..Level
  BY <1>8, <1>9
<1>12. t = [l \in D |-> tables[l]]
  BY DEF LoopsAt
<1>13. \A m \in 1..Level : m \in D <=> (m = 1 \/ n % Span(m - 1) # 0)
  OBVIOUS
<1>. HIDE DEF D, w
<1>14. t = [l \in 1..w |-> tables[l]]
  BY <1>10, <1>12
<1>15. t \in Seq(Frames \union {None}) /\ Len(t) = w
  <2>1. w \in Nat /\ \A l \in 1..w : l \in 1..Len(tables)
    BY <1>3, <1>11 DEF Level
  <2>2. \A l \in 1..w : tables[l] \in Frames \union {None}
    BY <1>1, <2>1
  <2>. QED
    BY <1>14, <2>1, <2>2
<1>16. \A l \in 1..w : t[l] = tables[l]
  BY <1>14
<1>17. n % Span(w) = 0
  <2>1. CASE w = Level
    BY <1>5, <2>1
  <2>2. CASE w # Level
    <3>1. w + 1 \in 1..Level /\ w + 1 \notin D
      BY <1>3, <1>10, <1>11, <2>2
    <3>2. n % Span((w + 1) - 1) = 0
      BY <1>13, <3>1
    <3>3. (w + 1) - 1 = w
      BY <1>11
    <3>. QED
      BY <3>2, <3>3
  <2>. QED
    BY <2>1, <2>2
<1>18. ASSUME n = Total PROVE w = 1
  <2>1. ASSUME w # 1 PROVE FALSE
    <3>1. w \in 1..Level /\ w - 1 \in 0..Depth(kind) /\ w \in D
      BY <1>3, <1>9, <1>11
    <3>2. n % Span(w - 1) # 0
      BY <1>13, <2>1, <3>1
    <3>. QED
      BY <1>1, <1>18, <3>1, <3>2, TotalMultiple
  <2>. QED
    BY <2>1
<1>19. ASSUME NEW l \in 1..(w - 1) PROVE n \div Span(l) = page \div Span(l)
  <2>1. l + 1 \in 1..w /\ l + 1 # 1 /\ (l + 1) - 1 = l
        /\ l \in 0..Depth(kind) /\ l <= Level
    BY <1>1, <1>11
  <2>2. n % Span(l) # 0
    <3>1. l + 1 \in D
      BY <1>10, <2>1
    <3>2. l + 1 \in 1..Level
      BY <1>3, <1>11, <2>1
    <3>3. n % Span((l + 1) - 1) # 0
      BY <1>13, <2>1, <3>1, <3>2
    <3>. QED
      BY <2>1, <3>3
  <2>3. PICK c \in Nat \ {0} : Span(l) = c * Span(Level)
    BY <1>1, <1>3, <2>1, SpanFacts
  <2>4. (page + Span(Level)) % (c * Span(Level)) # 0
    BY <2>2, <2>3
  <2>5. Span(Level) \in Nat \ {0}
    BY <1>2, <1>3
  <2>6. (page + Span(Level)) \div (c * Span(Level)) = page \div (c * Span(Level))
    BY <1>1, <1>4, <2>4, <2>5, SameQuotient
  <2>. QED
    BY <2>3, <2>6
<1>. QED
  BY <1>6, <1>11, <1>15, <1>16, <1>17, <1>18, <1>19
-----------------------------------------------------------------------------
LEMMA WaySteps ==
  ASSUME NEW p
  PROVE  /\ Way(p)[1] = image[0][IndexAt(1, p)]
         /\ Way(p)[2] = Below(2, Way(p)[1], p)
         /\ Way(p)[3] = Below(3, Way(p)[2], p)
         /\ Way(p)[4] = Below(4, Way(p)[3], p)
BY DEF Way

\* The way to a page depends on its index in each table on the way.
LEMMA WayPrefix ==
  ASSUME NEW p \in Nat, NEW q \in Nat, NEW m \in 1..4,
         \A j \in 1..m : p \div Span(j) = q \div Span(j)
  PROVE  \A j \in 1..m : Way(p)[j] = Way(q)[j]
<1>1. \A j \in 1..m : IndexAt(j, p) = IndexAt(j, q)
  BY DEF IndexAt
<1>2. ASSUME NEW j \in 1..m, NEW e PROVE Below(j, e, p) = Below(j, e, q)
  BY <1>1 DEF Below
<1>3. Way(p)[1] = Way(q)[1]
  BY <1>1, WaySteps
<1>4. ASSUME m > 1 PROVE Way(p)[2] = Way(q)[2]
  BY <1>2, <1>3, <1>4, WaySteps
<1>5. ASSUME m > 2 PROVE Way(p)[3] = Way(q)[3]
  BY <1>2, <1>4, <1>5, WaySteps
<1>6. ASSUME m > 3 PROVE Way(p)[4] = Way(q)[4]
  BY <1>2, <1>5, <1>6, WaySteps
<1>. QED
  BY <1>3, <1>4, <1>5, <1>6

\* Every entry of an image is an entry.
LEMMA CurrentIsEntry ==
  ASSUME TypeOK
  PROVE  Current \in Entry
<1>1. Level \in 1..Len(tables) /\ tables[Level] \in Frames \union {None}
  BY DEF TypeOK, Level
<1>2. IndexAt(Level, page) \in Index
  <2>1. Span(Level) \in Nat \ {0} /\ page \in Nat
    <3>1. kind \in Kinds /\ Level \in 1..Depth(kind) /\ page \in Nat
      BY SpanFacts DEF TypeOK, Total
    <3>2. Level \in 0..Depth(kind)
      BY <3>1, SpanFacts
    <3>. QED
      BY <3>1, <3>2, SpanFacts
  <2>2. page \div Span(Level) \in Nat
    BY <2>1, DivMod
  <2>3. Fan \in Nat \ {0}
    BY TablesAssumption
  <2>. QED
    BY <2>2, <2>3, DivMod DEF IndexAt, Index
<1>3. image \in [Frames -> [Index -> Entry]]
  BY DEF TypeOK
<1>4. Zero \in Entry
  BY TablesAssumption DEF Zero, Entry
<1>. QED
  BY <1>1, <1>2, <1>3, <1>4 DEF Current

\* The entry that the lister looks at is the one that vtop finds there.
LEMMA CurrentOnWay ==
  ASSUME TypeOK, SameWay, page < Total, tables[Level] # None
  PROVE  Current = Way(page)[Level]
<1>1. Level \in 1..4 /\ Level \in Nat
  BY SpanFacts DEF TypeOK
<1>2. Current = image[tables[Level]][IndexAt(Level, page)]
  BY DEF Current
<1>3. CASE Level = 1
  BY <1>2, <1>3 DEF SameWay, Way
<1>4. ASSUME Level # 1
      PROVE  /\ Inner(Level - 1, Way(page)[Level - 1])
             /\ tables[Level] = Way(page)[Level - 1].frame
  BY <1>1, <1>4 DEF SameWay
<1>5. ASSUME Level # 1
      PROVE  Current = Below(Level, Way(page)[Level - 1], page)
  BY <1>2, <1>4, <1>5 DEF Below
<1>6. CASE Level = 2
  BY <1>5, <1>6, WaySteps
<1>7. CASE Level = 3
  BY <1>5, <1>7, WaySteps
<1>8. CASE Level = 4
  BY <1>5, <1>8, WaySteps
<1>. QED
  BY <1>1, <1>3, <1>6, <1>7, <1>8

\* A step of the walk that leaves the memory alone can be seen from the
\* memory before it.
LEMMA SameMemory ==
  ASSUME image' = image, kind' = kind, flat' = flat
  PROVE  /\ Total' = Total
         /\ \A l : Span(l)' = Span(l)
         /\ Way(page)' = Way(page')
         /\ \A l, e : Inner(l, e)' = Inner(l, e)
         /\ BehindNx(page)' = BehindNx(page')
         /\ Depth(kind)' = Depth(kind)
BY DEF Total, Span, Depth, Way, Below, Inner, EntryPresent, IsPage, BigLevels,
       BehindNx, IndexAt

\* The tables that stay open are on the way to the next page.
LEMMA LoopsOnWay ==
  ASSUME IInv, page < Total,
         NEW n, n = page + Span(Level), NEW t, t = LoopsAt(n)
  PROVE  /\ t[1] = 0
         /\ \A l \in 2..Len(t) :
              LET e == Way(n)[l - 1]
              IN /\ Inner(l - 1, e)
                 /\ t[l] # e.frame => t[l] = None /\ l = 3 /\ BehindNx(n)
<1>1. TypeOK /\ Aligned /\ SameWay
  BY DEF IInv
<1>2. /\ page \in Nat /\ Level \in 1..Depth(kind) /\ Depth(kind) \in {2, 3, 4}
      /\ Total \in Nat
  BY <1>1, SpanFacts, TotalMultiple DEF TypeOK
<1>. DEFINE w == Len(t)
<1>3. /\ n \in 0..Total
      /\ w \in 1..Level
      /\ \A l \in 1..w : t[l] = tables[l]
      /\ \A l \in 1..(w - 1) : n \div Span(l) = page \div Span(l)
  BY <1>1, LoopsFacts
<1>. HIDE DEF w
<1>4. w \in 1..4 /\ n \in Nat
  BY <1>2, <1>3
<1>5. ASSUME NEW l \in 1..(w - 1) PROVE Way(n)[l] = Way(page)[l]
  <2>1. w - 1 \in 1..4
    BY <1>4, <1>5
  <2>. QED
    BY <1>2, <1>3, <1>4, <1>5, <2>1, WayPrefix
<1>6. ASSUME NEW l \in 2..w
      PROVE  LET e == Way(n)[l - 1]
             IN /\ Inner(l - 1, e)
                /\ t[l] # e.frame => t[l] = None /\ l = 3 /\ BehindNx(n)
  <2>. DEFINE e == Way(page)[l - 1]
  <2>1. l \in 2..Level /\ l - 1 \in 1..(w - 1) /\ t[l] = tables[l]
    BY <1>2, <1>3, <1>4, <1>6
  <2>2. Inner(l - 1, e) /\ (t[l] # e.frame => t[l] = None /\ l = 3 /\ BehindNx(page))
    BY <1>1, <2>1 DEF SameWay
  <2>3. Way(n)[l - 1] = e
    BY <1>5, <2>1
  <2>4. l = 3 => BehindNx(n) = BehindNx(page)
    BY <2>3 DEF BehindNx
  <2>. QED
    BY <2>2, <2>3, <2>4
<1>7. t[1] = 0
  BY <1>1, <1>2, <1>3, <1>4 DEF SameWay
<1>. QED
  BY <1>6, <1>7 DEF w

\* Moving on keeps the place and the way.
LEMMA AdvanceKeeps ==
  ASSUME IInv, page < Total, Advance, image' = image, kind' = kind, flat' = flat
  PROVE  /\ page' \in 0..Total
         /\ tables' \in Seq(Frames \union {None}) /\ Level' \in 1..Depth(kind)
         /\ page' = Total => Level' = 1
         /\ Aligned' /\ SameWay'
<1>1. page' = page + Span(Level) /\ tables' = LoopsAt(page')
  BY DEF Advance
<1>2. TypeOK /\ Aligned
  BY DEF IInv
<1>3. Level \in 1..Depth(kind) /\ Depth(kind) \in {2, 3, 4} /\ Level' = Len(tables')
  BY <1>2, SpanFacts DEF TypeOK, Level
<1>4. /\ page' \in 0..Total
      /\ tables' \in Seq(Frames \union {None}) /\ Len(tables') \in 1..Level
      /\ page' % Span(Len(tables')) = 0
      /\ page' = Total => Len(tables') = 1
  BY <1>1, <1>2, LoopsFacts
<1>5. Aligned'
  BY <1>3, <1>4, SameMemory DEF Aligned
<1>6. SameWay'
  BY <1>1, <1>3, LoopsOnWay, SameMemory DEF SameWay
<1>. QED
  BY <1>3, <1>4, <1>5, <1>6

\* One table more is open, and it is the one that vtop would read.
LEMMA EnterKeeps ==
  ASSUME IInv, Enter
  PROVE  /\ tables' \in Seq(Frames \union {None}) /\ Level' \in 1..Depth(kind)
         /\ page' = page /\ page # Total
         /\ Aligned' /\ SameWay'
<1>1. /\ page < Total /\ Inner(Level, Current)
      /\ tables' = Append(tables, TableOf(Current)) /\ page' = page
      /\ image' = image /\ kind' = kind /\ flat' = flat
  BY DEF Enter, Walking
<1>2. TypeOK /\ Aligned /\ SameWay
  BY DEF IInv
<1>3. /\ page \in Nat /\ Level \in 1..Depth(kind) /\ Depth(kind) \in {2, 3, 4}
      /\ tables \in Seq(Frames \union {None}) /\ kind \in Kinds
  BY <1>2, SpanFacts DEF TypeOK
<1>4. Total \in Nat
  BY <1>3, TotalMultiple
<1>5. EntryPresent(Current) /\ Level # Depth(kind)
  BY <1>1 DEF Inner, IsPage
<1>6. tables[Level] # None
  BY <1>5 DEF Current, EntryPresent, Zero
<1>7. Current = Way(page)[Level]
  BY <1>1, <1>2, <1>6, CurrentOnWay
<1>8. Current.frame \in Frames
  BY <1>2, CurrentIsEntry DEF Entry
<1>. DEFINE t == tables'
            f == TableOf(Current)
<1>9. f \in Frames \union {None}
  BY <1>8 DEF TableOf
<1>10. /\ t \in Seq(Frames \union {None}) /\ Len(t) = Level + 1 /\ Level' = Level + 1
       /\ t[Level + 1] = f /\ \A l \in 1..Level : t[l] = tables[l]
  BY <1>1, <1>3, <1>9 DEF Level
<1>11. Level + 1 \in 1..Depth(kind)
  BY <1>3, <1>5
<1>12. Aligned'
  <2>1. Level \in 0..Depth(kind) /\ Level + 1 \in 0..Depth(kind) /\ Level <= Level + 1
    BY <1>3, <1>11
  <2>2. PICK k \in Nat \ {0} : Span(Level) = k * Span(Level + 1)
    BY <1>3, <2>1, SpanFacts
  <2>3. Span(Level + 1) \in Nat \ {0}
    BY <1>3, <2>1, SpanFacts
  <2>4. page % (k * Span(Level + 1)) = 0
    BY <1>2, <2>2 DEF Aligned
  <2>5. page % Span(Level + 1) = 0
    BY <1>3, <2>3, <2>4, MultipleOfMultiple
  <2>. QED
    BY <1>1, <1>10, <2>5, SameMemory DEF Aligned
<1>13. f # Current.frame => f = None /\ Level + 1 = 3 /\ BehindNx(page)
  BY <1>1, <1>3, <1>7 DEF TableOf, BehindNx
<1>. HIDE DEF t, f
<1>14. ASSUME NEW l \in 2..Len(t)
       PROVE  LET e == Way(page)[l - 1]
              IN /\ Inner(l - 1, e)
                 /\ t[l] # e.frame => t[l] = None /\ l = 3 /\ BehindNx(page)
  <2>1. CASE l \in 2..Level
    BY <1>2, <1>3, <1>10, <2>1, <1>1 DEF SameWay
  <2>2. CASE l = Level + 1
    <3>1. l - 1 = Level
      BY <1>3, <2>2
    <3>. QED
      BY <1>1, <1>7, <1>10, <1>13, <2>2, <3>1
  <2>. QED
    BY <1>3, <1>10, <2>1, <2>2
<1>15. t[1] = 0
  BY <1>1, <1>2, <1>3, <1>10 DEF SameWay
<1>16. SameWay'
  <2>1. Level' = Len(t) /\ tables' = t
    BY <1>10 DEF t
  <2>. QED
    BY <1>1, <1>14, <1>15, <2>1, SameMemory DEF SameWay
<1>. QED
  BY <1>1, <1>3, <1>4, <1>10, <1>11, <1>12, <1>16 DEF t
-----------------------------------------------------------------------------
LEMMA InitInv == Init => IInv
<1>. SUFFICES ASSUME Init PROVE IInv
  OBVIOUS
<1>1. /\ image \in [Frames -> [Index -> Entry]] /\ kind \in Kinds /\ flat \in BOOLEAN
      /\ tables = <<0>> /\ page = 0 /\ run = None /\ ranges = <<>> /\ pc = "walk"
      /\ Level = 1 /\ 0 \in Frames
  BY TablesAssumption DEF Init, Level
<1>2. Depth(kind) \in {2, 3, 4} /\ Total \in Nat \ {0}
  <2>1. Depth(kind) \in {2, 3, 4}
    BY <1>1, SpanFacts
  <2>. QED
    BY <1>1, <2>1, TotalMultiple
<1>3. TypeOK
  BY <1>1, <1>2 DEF TypeOK
<1>4. Aligned
  <2>1. Span(1) \in Nat \ {0}
    BY <1>1, <1>2, SpanFacts
  <2>2. 0 = Span(1) * 0 + 0
    BY <2>1, SMT
  <2>3. 0 % Span(1) = 0
    BY <2>1, <2>2, DivUnique
  <2>. QED
    BY <1>1, <2>3 DEF Aligned
<1>5. SameWay
  BY <1>1 DEF SameWay
<1>. QED
  BY <1>3, <1>4, <1>5 DEF IInv

LEMMA StepInv == IInv /\ [Next]_vars => IInv'
<1>. SUFFICES ASSUME IInv, [Next]_vars PROVE IInv'
  OBVIOUS
<1>1. TypeOK /\ Aligned /\ SameWay
  BY DEF IInv
<1>2. /\ kind \in Kinds /\ Level \in 1..Depth(kind) /\ Depth(kind) \in {2, 3, 4}
      /\ page \in 0..Total /\ Total \in Nat /\ YieldSize \in Nat \ {0}
  <2>1. kind \in Kinds /\ Level \in 1..Depth(kind) /\ page \in 0..Total
    BY <1>1 DEF TypeOK
  <2>2. Depth(kind) \in {2, 3, 4}
    BY <2>1, SpanFacts
  <2>3. Level \in 0..Depth(kind)
    BY <2>1, <2>2
  <2>. QED
    BY <2>1, <2>2, <2>3, SpanFacts, TotalMultiple DEF YieldSize
<1>3. CASE Skip
  <2>1. /\ Advance /\ page < Total
        /\ UNCHANGED <<image, kind, flat, run, ranges, pc>>
    BY <1>3 DEF Skip, Walking
  <2>2. TypeOK'
    BY <1>1, <2>1, AdvanceKeeps, SameMemory DEF TypeOK
  <2>. QED
    BY <2>1, <2>2, AdvanceKeeps DEF IInv
<1>4. CASE Enter
  <2>1. UNCHANGED <<image, kind, flat, run, ranges, pc>>
    BY <1>4 DEF Enter
  <2>2. TypeOK'
    BY <1>1, <1>2, <1>4, <2>1, EnterKeeps, SameMemory DEF TypeOK
  <2>. QED
    BY <1>4, <2>2, EnterKeeps DEF IInv
<1>5. CASE Yield
  <2>1. /\ Advance /\ page < Total
        /\ UNCHANGED <<image, kind, flat, pc>>
    BY <1>5 DEF Yield, Walking
  <2>. DEFINE Runs == [start : Nat, len : Nat \ {0}]
  <2>2. run \in Runs \union {None} /\ ranges \in Seq(Runs)
    BY <1>1 DEF TypeOK
  <2>3. run' \in Runs
    <3>1. CASE run # None /\ Touches(page)
      <4>1. run \in Runs /\ page <= run.start + run.len
        BY <2>2, <3>1 DEF Touches
      <4>2. run.len + (run.start + run.len - page) + YieldSize \in Nat \ {0}
        BY <1>2, <4>1
      <4>3. run' = [run EXCEPT !.len = run.len + (run.start + run.len - page) + YieldSize]
        BY <1>5, <3>1 DEF Yield
      <4>. QED
        BY <4>1, <4>2, <4>3
    <3>2. CASE ~(run # None /\ Touches(page))
      <4>1. run' = [start |-> page, len |-> YieldSize]
        BY <1>5, <3>2 DEF Yield
      <4>. QED
        BY <1>2, <4>1
    <3>. QED
      BY <3>1, <3>2
  <2>4. ranges' \in Seq(Runs)
    <3>1. ranges' = ranges \/ (run # None /\ ranges' = Append(ranges, run))
      BY <1>5 DEF Yield
    <3>2. ASSUME run # None PROVE run \in Runs
      BY <2>2, <3>2
    <3>. HIDE DEF Runs
    <3>. QED
      BY <2>2, <3>1, <3>2
  <2>5. TypeOK'
    BY <1>1, <2>1, <2>3, <2>4, AdvanceKeeps, SameMemory DEF TypeOK
  <2>. QED
    BY <2>1, <2>5, AdvanceKeeps DEF IInv
<1>6. ASSUME Raise \/ Flush \/ Finish \/ UNCHANGED vars
      PROVE  IInv'
  <2>1. UNCHANGED <<image, kind, flat, tables, page>>
    BY <1>6 DEF Raise, Flush, Finish, vars
  <2>. DEFINE Runs == [start : Nat, len : Nat \ {0}]
  <2>2. run' \in Runs \union {None} /\ ranges' \in Seq(Runs)
        /\ pc' \in {"walk", "done", "raised"}
    <3>1. run \in Runs \union {None} /\ ranges \in Seq(Runs)
          /\ pc \in {"walk", "done", "raised"}
      BY <1>1 DEF TypeOK
    <3>2. /\ run' = run \/ run' = None
          /\ ranges' = ranges \/ (run # None /\ ranges' = Append(ranges, run))
          /\ pc' = pc \/ pc' \in {"done", "raised"}
      BY <1>6 DEF Raise, Flush, Finish, vars
    <3>3. ASSUME run # None PROVE run \in Runs
      BY <3>1, <3>3
    <3>. HIDE DEF Runs
    <3>. QED
      BY <3>1, <3>2, <3>3
  <2>3. Level' = Level
    BY <2>1 DEF Level
  <2>4. TypeOK'
    BY <1>1, <2>1, <2>2, <2>3, SameMemory DEF TypeOK
  <2>5. Aligned' /\ SameWay'
    BY <1>1, <2>1, <2>3, SameMemory DEF Aligned, SameWay
  <2>. QED
    BY <2>4, <2>5 DEF IInv
<1>. QED
  BY <1>3, <1>4, <1>5, <1>6 DEF Next

LEMMA InvHolds == Spec => []IInv
BY InitInv, StepInv, PTL DEF Spec

\* The walk stays within the address space and its tables, for every fan-out
\* and image.
THEOREM TypeCorrect == Spec => []TypeOK
<1>1. IInv => TypeOK
  BY DEF IInv
<1>. QED
  BY <1>1, InvHolds, PTL

\* The lister reads the tables that vtop reads, whatever is in them: tables
\* that are shared, missing, or lead back to the directory.
THEOREM ListerOnWay == Spec => []SameWay
<1>1. IInv => SameWay
  BY DEF IInv
<1>. QED
  BY <1>1, InvHolds, PTL
-----------------------------------------------------------------------------
(* The refinement.  The tables on the walk's way say of all pages of the   *)
(* current entry at once whether vtop translates them, because their ways  *)
(* agree up to the entry's level; so the runs grow by exactly the pages    *)
(* that vtop knows.                                                        *)

\* The numbers of one block have the quotient of its first.
LEMMA InBlock ==
  ASSUME NEW s \in Nat \ {0}, NEW c \in Nat \ {0}, NEW a \in Nat,
         a % s = 0, NEW x \in 0..(s - 1)
  PROVE  (a + x) \div (c * s) = a \div (c * s)
<1>. DEFINE S == c * s
            i == a \div s
            q == i \div c
            r == i % c
<1>1. S \in Nat \ {0} /\ S = c * s
  BY SMT
<1>2. i \in Nat /\ a = s * i
  BY DivMod
<1>. HIDE DEF i
<1>3. i = c * q + r /\ q \in Nat /\ r \in 0..(c - 1)
  BY <1>2, DivMod
<1>. HIDE DEF S, q, r
<1>4. a = S * q + s * r
  BY <1>1, <1>2, <1>3, SMT
<1>5. s * (r + 1) <= s * c
  BY <1>3, SMT
<1>6. s * (r + 1) = s * r + s /\ s * c = S /\ s * r \in Nat
  BY <1>1, <1>3, SMT
<1>7. s * r + x \in 0..(S - 1) /\ s * r \in 0..(S - 1)
  BY <1>1, <1>5, <1>6
<1>8. a + x = S * q + (s * r + x)
  BY <1>1, <1>3, <1>4, <1>6, SMT
<1>9. (a + x) \div S = q
  BY <1>1, <1>3, <1>7, <1>8, DivUnique
<1>10. a \div S = q
  BY <1>1, <1>3, <1>4, <1>7, DivUnique
<1>. QED
  BY <1>9, <1>10 DEF S

\* All pages of the current entry have its way.
LEMMA PagesOfEntry ==
  ASSUME IInv, page < Total, NEW p \in page..(page + Span(Level) - 1)
  PROVE  /\ p \in 0..(Total - 1)
         /\ \A j \in 1..Level : Way(p)[j] = Way(page)[j]
<1>1. TypeOK /\ Aligned
  BY DEF IInv
<1>2. /\ kind \in Kinds /\ page \in Nat /\ Level \in 1..Depth(kind)
      /\ Depth(kind) \in {2, 3, 4} /\ Total \in Nat
  BY <1>1, SpanFacts, TotalMultiple DEF TypeOK
<1>3. Span(Level) \in Nat \ {0} /\ page % Span(Level) = 0
  BY <1>1, <1>2, SpanFacts DEF Aligned
<1>4. page + Span(Level) <= Total
  <2>1. page + Span(Level) \in 0..Total
    BY <1>1, LoopsFacts
  <2>. QED
    BY <2>1
<1>5. p \in 0..(Total - 1) /\ p \in Nat
  BY <1>2, <1>3, <1>4
<1>6. ASSUME NEW j \in 1..Level PROVE p \div Span(j) = page \div Span(j)
  <2>1. PICK c \in Nat \ {0} : Span(j) = c * Span(Level)
    BY <1>2, SpanFacts
  <2>2. p - page \in 0..(Span(Level) - 1) /\ p = page + (p - page)
    BY <1>2, <1>3
  <2>3. (page + (p - page)) \div (c * Span(Level)) = page \div (c * Span(Level))
    BY <1>2, <1>3, <2>2, InBlock
  <2>. QED
    BY <2>1, <2>2, <2>3
<1>. QED
  BY <1>2, <1>5, <1>6, WayPrefix

\* The way to a page is over at the depth of the class.
LEMMA WayEntries ==
  ASSUME TypeOK, NEW p \in Nat
  PROVE  \A l \in 1..4 : Way(p)[l] \in Entry /\ (l > Depth(kind) => Way(p)[l] = Zero)
<1>1. /\ kind \in Kinds /\ Depth(kind) \in {2, 3, 4}
      /\ image \in [Frames -> [Index -> Entry]] /\ 0 \in Frames
  BY SpanFacts, TablesAssumption DEF TypeOK
<1>2. ASSUME NEW l \in 1..Depth(kind) PROVE IndexAt(l, p) \in Index
  <2>1. Span(l) \in Nat \ {0} /\ Fan \in Nat \ {0}
    BY <1>1, SpanFacts, TablesAssumption
  <2>2. p \div Span(l) \in Nat
    BY <2>1, DivMod
  <2>. QED
    BY <2>1, <2>2, DivMod DEF IndexAt, Index
<1>3. Zero \in Entry /\ ~EntryPresent(Zero)
  BY TablesAssumption DEF Zero, Entry, EntryPresent
<1>4. ASSUME NEW l \in 2..Depth(kind), NEW e \in Entry
      PROVE  Below(l, e, p) \in Entry
  <2>1. e.frame \in Frames
    BY DEF Entry
  <2>. QED
    BY <1>1, <1>2, <1>3, <2>1 DEF Below
<1>5. ASSUME NEW e PROVE Below(Depth(kind) + 1, e, p) = Zero
  BY <1>1 DEF Below, Inner, IsPage
<1>6. \A l : Below(l, Zero, p) = Zero
  BY <1>3 DEF Below, Inner
<1>7. Way(p)[1] \in Entry
  BY <1>1, <1>2, WaySteps
<1>8. Way(p)[2] \in Entry
  BY <1>1, <1>4, <1>7, WaySteps
<1>9. Way(p)[3] \in Entry /\ (Depth(kind) < 3 => Way(p)[3] = Zero)
  <2>1. CASE Depth(kind) = 2
    BY <1>3, <1>5, <2>1, WaySteps
  <2>2. CASE Depth(kind) # 2
    BY <1>1, <1>4, <1>8, <2>2, WaySteps
  <2>. QED
    BY <2>1, <2>2
<1>10. Way(p)[4] \in Entry /\ (Depth(kind) < 4 => Way(p)[4] = Zero)
  <2>1. CASE Depth(kind) = 2
    BY <1>3, <1>6, <1>9, <2>1, WaySteps
  <2>2. CASE Depth(kind) = 3
    BY <1>3, <1>5, <2>2, WaySteps
  <2>3. CASE Depth(kind) = 4
    BY <1>4, <1>9, <2>3, WaySteps
  <2>. QED
    BY <1>1, <2>1, <2>2, <2>3
<1>. QED
  BY <1>1, <1>7, <1>8, <1>9, <1>10

\* vtop translates a page whose way has a leaf, and no other.
LEMMA VtopFound ==
  ASSUME TypeOK, NEW p \in Nat
  PROVE  Vtop(p) # None <=> \E l \in 1..4 : Leaf(l, Way(p)[l])
<1>. DEFINE leaves == {l \in 1..4 : Leaf(l, Way(p)[l])}
            l == CHOOSE m \in leaves : TRUE
            f == Way(p)[l].frame
<1>1. CASE leaves = {}
  BY <1>1 DEF Vtop
<1>2. CASE leaves # {}
  <2>1. l \in 1..4 /\ Leaf(l, Way(p)[l])
    <3>1. l \in leaves
      BY <1>2
    <3>. QED
      BY <3>1
  <2>2. Vtop(p) = (f - (f % Span(l))) + (p % Span(l))
    BY <1>2 DEF Vtop
  <2>. HIDE DEF l
  <2>3. Way(p)[l] \in Entry /\ l <= Depth(kind)
    <3>1. Way(p)[l] # Zero
      BY <2>1 DEF Leaf, EntryPresent, Zero
    <3>2. Depth(kind) \in {2, 3, 4}
      BY SpanFacts DEF TypeOK
    <3>. QED
      BY <2>1, <3>1, <3>2, WayEntries
  <2>4. f \in Nat
    BY <2>3, TablesAssumption DEF Entry
  <2>5. Span(l) \in Nat \ {0}
    <3>1. kind \in Kinds /\ Depth(kind) \in {2, 3, 4}
      BY SpanFacts DEF TypeOK
    <3>2. l \in 0..Depth(kind)
      BY <2>1, <2>3, <3>1
    <3>. QED
      BY <3>1, <3>2, SpanFacts
  <2>. HIDE DEF f
  <2>. DEFINE s == Span(l)
  <2>6. s \in Nat \ {0}
    BY <2>5
  <2>7. (f - (f % s)) + (p % s) \in Nat
    <3>. HIDE DEF s
    <3>1. f = s * (f \div s) + (f % s) /\ f \div s \in Nat /\ f % s \in Nat /\ p % s \in Nat
      BY <2>4, <2>6, DivMod
    <3>2. s * (f \div s) \in Nat
      BY <2>6, <3>1, SMT
    <3>. QED
      BY <2>4, <3>1, <3>2
  <2>8. Vtop(p) # None
    BY <2>2, <2>7, TablesAssumption
  <2>. QED
    BY <2>1, <2>8
<1>. QED
  BY <1>1, <1>2

\* The PAE lister has no table below a directory entry with NX.
NxKnown == page < Total /\ Level = 3 /\ BehindNx(page) => tables[3] = None

(* Between two steps all that vtop knows before page is given, or in run.  *)
(* What is before page and behind run is not known to it, and neither is   *)
(* what is right before run.                                               *)
Listed ==
  IF run = None
  THEN /\ Abstract!Covered(ranges) = {p \in Listable : p < page}
       /\ page < Total => ranges = <<>>
  ELSE /\ run.start + run.len <= page
       /\ run.start - 1 \notin Listable
       /\ Abstract!Block(run) \subseteq Listable
       /\ Abstract!Covered(ranges) = {p \in Listable : p < run.start}
       /\ \A p \in Listable : p < page => p < run.start + run.len

LEMMA NxAfterAdvance ==
  ASSUME IInv, NxKnown, page < Total, Advance,
         image' = image, kind' = kind, flat' = flat
  PROVE  NxKnown'
<1>1. page' = page + Span(Level) /\ tables' = LoopsAt(page')
  BY DEF Advance
<1>2. TypeOK /\ Aligned
  BY DEF IInv
<1>3. /\ page \in Nat /\ Level \in 1..Depth(kind) /\ Depth(kind) \in {2, 3, 4}
      /\ Level' = Len(tables')
  BY <1>2, SpanFacts, TotalMultiple DEF TypeOK, Level
<1>4. /\ page' \in Nat /\ Len(tables') \in 1..Level
      /\ \A l \in 1..Len(tables') : tables'[l] = tables[l]
      /\ \A l \in 1..(Len(tables') - 1) : page' \div Span(l) = page \div Span(l)
  BY <1>1, <1>2, LoopsFacts
<1>5. ASSUME Len(tables') = 3, BehindNx(page') PROVE tables'[3] = None
  <2>1. Way(page')[2] = Way(page)[2]
    <3>1. \A j \in 1..2 : page' \div Span(j) = page \div Span(j)
      BY <1>4, <1>5
    <3>. QED
      BY <1>3, <1>4, <3>1, WayPrefix
  <2>2. BehindNx(page)
    BY <1>5, <2>1 DEF BehindNx
  <2>3. kind = "pae" /\ Level = 3
    BY <1>3, <1>4, <1>5, <2>2 DEF BehindNx, Depth
  <2>4. tables[3] = None
    BY <2>2, <2>3 DEF NxKnown
  <2>. QED
    BY <1>4, <1>5, <2>4
<1>. QED
  BY <1>3, <1>5, SameMemory DEF NxKnown

LEMMA NxAfterEnter ==
  ASSUME IInv, Enter
  PROVE  NxKnown'
<1>1. /\ page < Total /\ Inner(Level, Current)
      /\ tables' = Append(tables, TableOf(Current)) /\ page' = page
      /\ image' = image /\ kind' = kind /\ flat' = flat
  BY DEF Enter, Walking
<1>2. TypeOK /\ SameWay
  BY DEF IInv
<1>3. tables \in Seq(Frames \union {None}) /\ Level \in Nat
  BY <1>2 DEF TypeOK
<1>4. tables[Level] # None
  BY <1>1 DEF Current, Inner, EntryPresent, Zero
<1>5. Current = Way(page)[Level]
  BY <1>1, <1>2, <1>4, CurrentOnWay
<1>6. Level' = Level + 1 /\ tables'[Level + 1] = TableOf(Current)
  BY <1>1, <1>3 DEF Level
<1>7. ASSUME Level + 1 = 3, BehindNx(page) PROVE tables'[3] = None
  <2>1. Level = 2
    BY <1>3, <1>7
  <2>. QED
    BY <1>5, <1>6, <1>7, <2>1 DEF BehindNx, TableOf
<1>. QED
  BY <1>1, <1>6, <1>7, SameMemory DEF NxKnown

LEMMA StepNx == IInv /\ NxKnown /\ [Next]_vars => NxKnown'
<1>. SUFFICES ASSUME IInv, NxKnown, [Next]_vars PROVE NxKnown'
  OBVIOUS
<1>1. CASE Skip
  BY <1>1, NxAfterAdvance DEF Skip, Walking
<1>2. CASE Enter
  BY <1>2, NxAfterEnter
<1>3. CASE Yield
  BY <1>3, NxAfterAdvance DEF Yield, Walking
<1>4. ASSUME Raise \/ Flush \/ Finish \/ UNCHANGED vars PROVE NxKnown'
  <2>1. UNCHANGED <<image, kind, flat, tables, page>>
    BY <1>4 DEF Raise, Flush, Finish, vars
  <2>2. Level' = Level
    BY <2>1 DEF Level
  <2>. QED
    BY <2>1, <2>2, SameMemory DEF NxKnown
<1>. QED
  BY <1>1, <1>2, <1>3, <1>4 DEF Next

\* vtop translates no page of an entry that the lister skips, but for those
\* behind NX.
LEMMA SkippedNotListable ==
  ASSUME IInv, page < Total, ~EntryPresent(Current),
         NEW p \in page..(page + Span(Level) - 1)
  PROVE  p \notin Listable
<1>1. TypeOK /\ SameWay
  BY DEF IInv
<1>2. Level \in 1..Depth(kind) /\ Depth(kind) \in {2, 3, 4}
  BY <1>1, SpanFacts DEF TypeOK
<1>3. p \in Nat /\ \A j \in 1..Level : Way(p)[j] = Way(page)[j]
  BY PagesOfEntry
<1>4. CASE tables[Level] = None
  <2>1. Level \in 2..Level
    BY <1>1, <1>2, <1>4, TablesAssumption DEF SameWay
  <2>. DEFINE e == Way(page)[Level - 1]
  <2>2. e.frame \in Nat
    <3>1. Level - 1 \in 1..4
      BY <1>2, <2>1
    <3>2. page \in Nat
      <4>1. kind \in Kinds /\ 0 \in 0..Depth(kind)
        BY <1>1, <1>2 DEF TypeOK
      <4>2. Total \in Nat
        BY <4>1, TotalMultiple
      <4>. QED
        BY <1>1, <4>2 DEF TypeOK
    <3>3. e \in Entry
      BY <1>1, <3>1, <3>2, WayEntries
    <3>. QED
      BY <3>3, TablesAssumption DEF Entry
  <2>3. tables[Level] # e.frame => tables[Level] = None /\ Level = 3 /\ BehindNx(page)
    BY <1>1, <2>1 DEF SameWay
  <2>4. Level = 3 /\ BehindNx(page)
    BY <1>4, <2>2, <2>3, TablesAssumption
  <2>5. Way(p)[2] = Way(page)[2]
    BY <1>3, <2>4
  <2>6. BehindNx(p)
    BY <2>4, <2>5 DEF BehindNx
  <2>. QED
    BY <2>6 DEF Listable
<1>5. CASE tables[Level] # None
  <2>1. Way(p)[Level] = Current
    BY <1>1, <1>2, <1>3, <1>5, CurrentOnWay
  <2>2. ASSUME NEW l \in 1..4, l < Level PROVE ~Leaf(l, Way(p)[l])
    <3>1. l + 1 \in 2..Level /\ (l + 1) - 1 = l /\ l \in 1..Level
      BY <1>2, <2>2
    <3>2. Inner((l + 1) - 1, Way(page)[(l + 1) - 1])
      BY <1>1, <3>1 DEF SameWay
    <3>. QED
      BY <1>3, <3>1, <3>2 DEF Inner, Leaf
  <2>3. ~EntryPresent(Zero)
    BY DEF EntryPresent, Zero
  <2>4. \A l : Below(l, Zero, p) = Zero
    BY <2>3 DEF Below, Inner
  <2>5. Below(Level + 1, Current, p) = Zero
    BY <1>2 DEF Below, Inner
  <2>6. \A l \in 1..4 : l > Level => Way(p)[l] = Zero
    <3>1. CASE Level = 1
      BY <2>1, <2>4, <2>5, <3>1, WaySteps
    <3>2. CASE Level = 2
      BY <2>1, <2>4, <2>5, <3>2, WaySteps
    <3>3. CASE Level = 3
      BY <2>1, <2>4, <2>5, <3>3, WaySteps
    <3>4. CASE Level = 4
      BY <3>4
    <3>. QED
      BY <1>2, <3>1, <3>2, <3>3, <3>4
  <2>7. \A l \in 1..4 : ~Leaf(l, Way(p)[l])
    BY <1>2, <2>1, <2>2, <2>3, <2>6 DEF Leaf
  <2>. QED
    BY <1>1, <1>3, <2>7, VtopFound DEF Listable
<1>. QED
  BY <1>4, <1>5

\* vtop translates every page of an entry that the lister gives.
LEMMA YieldedListable ==
  ASSUME IInv, NxKnown, page < Total, Leaf(Level, Current),
         NEW p \in page..(page + Span(Level) - 1)
  PROVE  p \in Listable
<1>1. TypeOK /\ SameWay
  BY DEF IInv
<1>2. Level \in 1..Depth(kind) /\ Level \in 1..4
  <2>1. Level \in 1..Depth(kind) /\ Depth(kind) \in {2, 3, 4}
    BY <1>1, SpanFacts DEF TypeOK
  <2>. QED
    BY <2>1
<1>3. /\ p \in 0..(Total - 1) /\ p \in Nat
      /\ \A j \in 1..Level : Way(p)[j] = Way(page)[j]
  BY PagesOfEntry
<1>4. tables[Level] # None
  BY DEF Leaf, Current, EntryPresent, Zero
<1>5. Way(p)[Level] = Current
  BY <1>1, <1>2, <1>3, <1>4, CurrentOnWay
<1>6. Vtop(p) # None
  BY <1>1, <1>2, <1>3, <1>5, VtopFound
<1>7. ~BehindNx(p)
  <2>1. SUFFICES ASSUME BehindNx(p) PROVE FALSE
    OBVIOUS
  <2>2. kind = "pae" /\ Depth(kind) = 3 /\ BigLevels(kind) = {2} /\ Inner(2, Way(p)[2])
    BY <2>1 DEF BehindNx, Depth, BigLevels
  <2>3. Level \in {2, 3}
    BY <1>2, <2>2 DEF Leaf, IsPage
  <2>4. Level # 2
    BY <1>5, <2>2 DEF Leaf, Inner
  <2>5. Level = 3 /\ BehindNx(page)
    BY <1>3, <2>1, <2>3, <2>4 DEF BehindNx
  <2>. QED
    BY <1>4, <2>5 DEF NxKnown
<1>. QED
  BY <1>3, <1>6, <1>7 DEF Listable

\* What vtop knows is the image's.
LEMMA SameListable ==
  ASSUME image' = image, kind' = kind
  PROVE  Listable' = Listable
<1>1. Total' = Total
  BY DEF Total, Span, Depth
<1>2. ASSUME NEW p PROVE Way(p)' = Way(p)
  BY DEF Span, Depth, Way, Below, Inner, EntryPresent, IsPage, BigLevels, IndexAt
<1>3. \A l : Span(l)' = Span(l)
  BY DEF Span, Depth
<1>4. \A l, e : Leaf(l, e)' = Leaf(l, e) /\ Inner(l, e)' = Inner(l, e)
  BY DEF Leaf, Inner, EntryPresent, IsPage, BigLevels, Depth
<1>5. ASSUME NEW p PROVE Vtop(p)' = Vtop(p)
  <2>. DEFINE leaves == {l \in 1..4 : Leaf(l, Way(p)[l])}
              v == CHOOSE m \in leaves : TRUE
              f == Way(p)[v].frame
  <2>1. Vtop(p) = IF leaves = {} THEN None ELSE (f - (f % Span(v))) + (p % Span(v))
    BY DEF Vtop
  <2>2. Vtop(p)' = (IF leaves = {} THEN None ELSE (f - (f % Span(v))) + (p % Span(v)))'
    BY DEF Vtop
  <2>3. leaves' = leaves
    BY <1>2, <1>4
  <2>4. v' = v
    BY <2>3
  <2>5. f' = f
    BY <1>2, <2>4
  <2>6. Span(v)' = Span(v)
    BY <1>3, <2>4
  <2>. HIDE DEF leaves, v, f
  <2>. QED
    BY <2>1, <2>2, <2>3, <2>5, <2>6
<1>6. ASSUME NEW p PROVE BehindNx(p)' = BehindNx(p)
  BY <1>2, <1>4 DEF BehindNx
<1>. QED
  BY <1>1, <1>5, <1>6 DEF Listable

LEMMA CoveredEmpty == Abstract!Covered(<<>>) = {}
BY DEF Abstract!Covered

LEMMA CoveredAppend ==
  ASSUME NEW S, NEW rs \in Seq(S), NEW r \in S
  PROVE  Abstract!Covered(Append(rs, r)) = Abstract!Covered(rs) \union Abstract!Block(r)
<1>. DEFINE a == Append(rs, r)
            n == Len(rs) + 1
<1>1. DOMAIN a = DOMAIN rs \union {n} /\ a[n] = r /\ n \notin DOMAIN rs
  OBVIOUS
<1>2. \A i \in DOMAIN rs : a[i] = rs[i]
  OBVIOUS
<1>. HIDE DEF a, n
<1>3. Abstract!Covered(a) = Abstract!Covered(rs) \union Abstract!Block(r)
  BY <1>1, <1>2 DEF Abstract!Covered
<1>. QED
  BY <1>3 DEF a

LEMMA SameCardinality == \A S : Abstract!Cardinality(S) = Cardinality(S)
BY DEF Abstract!Cardinality, Cardinality

\* A run with nothing that vtop knows right behind it is a block.
LEMMA RunIsBlock ==
  ASSUME TypeOK, Listed, run # None, run.start + run.len \notin Listable
  PROVE  run \in Abstract!Blocks(Listable)
<1>1. run \in [start : Nat, len : Nat \ {0}]
  BY DEF TypeOK
<1>. DEFINE a == run.start
            n == run.len
<1>2. run = [start |-> a, len |-> n] /\ a \in Nat /\ n \in Nat \ {0}
  BY <1>1
<1>3. /\ a - 1 \notin Listable /\ a..(a + n - 1) \subseteq Listable
      /\ a + n \notin Listable
  BY DEF Listed, Abstract!Block
<1>. HIDE DEF a, n
<1>4. a \in Listable
  BY <1>2, <1>3
<1>5. Total \in Nat
  <2>1. kind \in Kinds /\ Depth(kind) \in {2, 3, 4}
    BY SpanFacts DEF TypeOK
  <2>2. 0 \in 0..Depth(kind)
    BY <2>1
  <2>. QED
    BY <2>1, <2>2, TotalMultiple
<1>6. IsFiniteSet(Listable)
  <2>1. Total - 1 \in Int
    BY <1>5
  <2>2. Listable \in SUBSET (0..(Total - 1))
    BY DEF Listable
  <2>. QED
    <3>1. IsFiniteSet(0..(Total - 1))
      BY <2>1, FS_Interval
    <3>. QED
      BY <2>2, <3>1, FS_Subset
<1>7. n = Cardinality(a..(a + n - 1))
  <2>1. a \in Int /\ a + n - 1 \in Int /\ ~(a > a + n - 1)
    BY <1>2
  <2>2. Cardinality(a..(a + n - 1)) = (a + n - 1) - a + 1
    BY <2>1, FS_Interval
  <2>. QED
    BY <1>2, <2>2
<1>8. n <= Cardinality(Listable)
  BY <1>3, <1>6, <1>7, FS_Subset
<1>9. n \in 1..Cardinality(Listable)
  BY <1>2, <1>6, <1>8, FS_CardinalityType
<1>10. run \in [start : Listable, len : 1..Cardinality(Listable)]
  BY <1>2, <1>4, <1>9
<1>. QED
  BY <1>3, <1>10, SameCardinality DEF Abstract!Blocks, Abstract!Block, a, n

LEMMA PlaceFacts ==
  ASSUME IInv
  PROVE  page \in Nat /\ Total \in Nat /\ page <= Total /\ YieldSize \in Nat \ {0}
<1>1. kind \in Kinds /\ Level \in 1..Depth(kind) /\ Depth(kind) \in {2, 3, 4}
  BY SpanFacts DEF IInv, TypeOK
<1>2. Level \in 0..Depth(kind)
  BY <1>1
<1>3. Total \in Nat /\ Span(Level) \in Nat \ {0}
  BY <1>1, <1>2, SpanFacts, TotalMultiple
<1>4. page \in 0..Total
  BY DEF IInv, TypeOK
<1>. QED
  BY <1>3, <1>4 DEF YieldSize

LEMMA RunFacts ==
  ASSUME TypeOK
  PROVE  /\ Listable \subseteq 0..(Total - 1)
         /\ run # None => run.start \in Nat /\ run.len \in Nat \ {0}
         /\ ranges \in Seq([start : Nat, len : Nat \ {0}])
<1>1. run # None => run \in [start : Nat, len : Nat \ {0}]
  BY DEF TypeOK
<1>. QED
  BY <1>1 DEF TypeOK, Listable

\* Passing an entry that vtop does not know keeps what is given.
LEMMA SkipListed ==
  ASSUME IInv, NxKnown, Listed, Skip
  PROVE  Listed'
<1>1. /\ page < Total /\ ~EntryPresent(Current) /\ page' = page + Span(Level)
      /\ run' = run /\ ranges' = ranges /\ image' = image /\ kind' = kind
  BY DEF Skip, Walking, Advance
<1>2. page \in Nat /\ Span(Level) \in Nat \ {0} /\ Total \in Nat
  BY PlaceFacts DEF YieldSize
<1>3. TypeOK
  BY DEF IInv
<1>4. \A p \in Listable : p < page' => p < page
  <2>1. SUFFICES ASSUME NEW p \in Listable, p < page', ~(p < page) PROVE FALSE
    OBVIOUS
  <2>2. p \in Nat
    BY <1>2, <1>3, RunFacts
  <2>3. p \in page..(page + Span(Level) - 1)
    BY <1>1, <1>2, <2>1, <2>2
  <2>. QED
    BY <1>1, <2>1, <2>3, SkippedNotListable
<1>5. \A p \in Listable : p < page => p < page'
  BY <1>1, <1>2, <1>3, RunFacts
<1>6. Listable' = Listable /\ Total' = Total
  BY <1>1, SameListable DEF Total, Span, Depth
<1>7. CASE run = None
  <2>1. Abstract!Covered(ranges) = {p \in Listable : p < page'}
    BY <1>4, <1>5, <1>7 DEF Listed
  <2>2. page' < Total => ranges = <<>>
    BY <1>1, <1>7 DEF Listed
  <2>. QED
    BY <1>1, <1>6, <1>7, <2>1, <2>2 DEF Listed, Abstract!Covered, Abstract!Block
<1>8. CASE run # None
  <2>1. run.start + run.len <= page'
    BY <1>1, <1>2, <1>3, <1>8, RunFacts DEF Listed
  <2>2. \A p \in Listable : p < page' => p < run.start + run.len
    BY <1>4, <1>8 DEF Listed
  <2>. QED
    BY <1>1, <1>6, <1>8, <2>1, <2>2 DEF Listed, Abstract!Covered, Abstract!Block
<1>. QED
  BY <1>7, <1>8

\* The pages of an entry that is given lengthen the run they touch, or begin
\* one when the run before them is a block.
LEMMA YieldListed ==
  ASSUME IInv, NxKnown, Listed, Yield
  PROVE  /\ Listed'
         /\ ranges' # ranges => run \in Abstract!Blocks(Listable) /\ ranges' = Append(ranges, run)
                                /\ {p \in Listable : p < run.start} = Abstract!Covered(ranges)
<1>1. /\ page < Total /\ Leaf(Level, Current) /\ page' = page + YieldSize
      /\ image' = image /\ kind' = kind
  BY DEF Yield, Walking, Advance, YieldSize
<1>2. page \in Nat /\ YieldSize \in Nat \ {0} /\ Total \in Nat
  BY PlaceFacts
<1>3. TypeOK
  BY DEF IInv
<1>4. \A p \in page..(page + YieldSize - 1) : p \in Listable
  BY <1>1, YieldedListable DEF YieldSize
<1>5. \A p \in Listable : p \in Nat
  BY <1>2, <1>3, RunFacts
<1>6. Listable' = Listable
  BY <1>1, SameListable
<1>. DEFINE a == run.start
            n == run.len
<1>7. CASE run # None /\ Touches(page)
  <2>1. /\ run = [start |-> a, len |-> n] /\ a \in Nat /\ n \in Nat \ {0}
        /\ run \in [start : Nat, len : Nat \ {0}]
    BY <1>3, <1>7 DEF TypeOK
  <2>2. page = a + n
    BY <1>2, <1>7, <2>1 DEF Touches, Listed
  <2>3. ranges' = ranges /\ run' = [run EXCEPT !.len = @ + (a + @ - page) + YieldSize]
    BY <1>7 DEF Yield
  <2>4. n + (a + n - page) + YieldSize = n + YieldSize
    BY <1>2, <2>1, <2>2
  <2>5. run' = [start |-> a, len |-> n + YieldSize]
    BY <2>1, <2>3, <2>4
  <2>6. /\ a - 1 \notin Listable
        /\ \A p \in a..(a + n - 1) : p \in Listable
        /\ Abstract!Covered(ranges) = {p \in Listable : p < a}
    BY <1>7 DEF Listed, Abstract!Block
  <2>. HIDE DEF a, n
  <2>7. a..(a + (n + YieldSize) - 1) \subseteq Listable
    <3>1. SUFFICES ASSUME NEW p \in a..(a + (n + YieldSize) - 1) PROVE p \in Listable
      OBVIOUS
    <3>2. p \in a..(a + n - 1) \/ p \in page..(page + YieldSize - 1)
      BY <1>2, <2>1, <2>2
    <3>. QED
      BY <1>4, <2>6, <3>2
  <2>8. /\ a + (n + YieldSize) <= page'
        /\ \A p \in Listable : p < page' => p < a + (n + YieldSize)
    BY <1>1, <1>2, <2>1, <2>2
  <2>9. run' # None
    BY <1>2, <2>1, <2>5, TablesAssumption
  <2>10. Listed'
    BY <1>6, <2>3, <2>5, <2>6, <2>7, <2>8, <2>9 DEF Listed, Abstract!Block, Abstract!Covered
  <2>. QED
    BY <2>3, <2>10
<1>8. CASE ~(run # None /\ Touches(page))
  <2>1. /\ run' = [start |-> page, len |-> YieldSize]
        /\ ranges' = IF run = None THEN ranges ELSE Append(ranges, run)
    BY <1>8 DEF Yield
  <2>2. run' # None
    BY <1>2, <2>1, TablesAssumption
  <2>3. page..(page + YieldSize - 1) \subseteq Listable
    BY <1>4
  <2>4. page + YieldSize <= page' /\ \A p \in Listable : p < page' => p < page + YieldSize
    BY <1>1, <1>2
  <2>5. CASE run = None
    <3>1. ranges' = ranges /\ ranges = <<>> /\ Abstract!Covered(ranges) = {p \in Listable : p < page}
      BY <1>1, <2>1, <2>5 DEF Listed
    <3>2. page - 1 \notin Listable
      <4>1. page - 1 < page
        BY <1>2
      <4>. QED
        BY <3>1, <4>1, CoveredEmpty
    <3>3. Listed'
      BY <1>6, <2>1, <2>2, <2>3, <2>4, <3>1, <3>2 DEF Listed, Abstract!Block, Abstract!Covered
    <3>. QED
      BY <3>1, <3>3
  <2>6. CASE run # None
    <3>1. a \in Nat /\ n \in Nat \ {0} /\ run \in [start : Nat, len : Nat \ {0}]
      BY <1>3, <2>6 DEF TypeOK
    <3>2. /\ Abstract!Covered(ranges) = {p \in Listable : p < a}
          /\ \A p \in a..(a + n - 1) : p \in Listable
          /\ Abstract!Block(run) = a..(a + n - 1)
          /\ \A p \in Listable : p < page => p < a + n
      BY <2>6 DEF Listed, Abstract!Block
    <3>3. a + n < page
      BY <1>2, <1>8, <2>6, <3>1 DEF Touches
    <3>4. ranges' = Append(ranges, run)
      BY <2>1, <2>6
    <3>5. run \in Abstract!Blocks(Listable)
      <4>1. a + n \notin Listable
        BY <3>1, <3>2, <3>3
      <4>. QED
        BY <1>3, <2>6, <4>1, RunIsBlock
    <3>6. Abstract!Covered(ranges') = Abstract!Covered(ranges) \union Abstract!Block(run)
      <4>. DEFINE Runs == [start : Nat, len : Nat \ {0}]
      <4>1. ranges \in Seq(Runs) /\ run \in Runs
        BY <1>3, <3>1, RunFacts
      <4>. HIDE DEF Runs
      <4>. QED
        BY <3>4, <4>1, CoveredAppend
    <3>. HIDE DEF a, n
    <3>7. Abstract!Covered(ranges') = {p \in Listable : p < page}
      <4>1. ASSUME NEW p \in Listable
            PROVE  p < page <=> (p < a \/ p \in a..(a + n - 1))
        BY <1>2, <1>5, <3>1, <3>2, <3>3
      <4>. QED
        BY <3>2, <3>6, <4>1
    <3>8. page - 1 \notin Listable
      <4>1. ASSUME page - 1 \in Listable PROVE FALSE
        <5>1. page - 1 < page
          BY <1>2
        <5>2. page - 1 < a + n
          BY <3>2, <4>1, <5>1
        <5>. QED
          BY <1>2, <3>1, <3>3, <5>2
      <4>. QED
        BY <4>1
    <3>9. Listed'
      BY <1>6, <2>1, <2>2, <2>3, <2>4, <3>7, <3>8 DEF Listed, Abstract!Block, Abstract!Covered
    <3>10. {p \in Listable : p < run.start} = Abstract!Covered(ranges)
      BY <3>2 DEF a
    <3>. QED
      BY <3>4, <3>5, <3>9, <3>10
  <2>. QED
    BY <2>5, <2>6
<1>. QED
  BY <1>7, <1>8

\* What a step gives is the next block, and between the steps Listed holds.
LEMMA StepListed ==
  ASSUME IInv, NxKnown, Listed, [Next]_vars
  PROVE  Listed' /\ [Abstract!Next]_<<Listable, ranges, pc = "done">>
<1>1. TypeOK
  BY DEF IInv
<1>2. page \in Nat /\ Total \in Nat /\ page <= Total
  BY PlaceFacts
<1>3. Listable' = Listable
  BY SameListable DEF Next, Skip, Enter, Yield, Raise, Flush, Finish, vars
<1>4. CASE Skip
  BY <1>3, <1>4, SkipListed DEF Skip
<1>5. ASSUME UNCHANGED <<page, run, ranges>>, UNCHANGED <<image, kind>>
      PROVE  Listed'
  <2>1. Total' = Total
    BY <1>5 DEF Total, Span, Depth
  <2>. QED
    BY <1>3, <1>5, <2>1 DEF Listed, Abstract!Covered, Abstract!Block
<1>6. CASE Enter
  BY <1>3, <1>5, <1>6 DEF Enter
<1>7. CASE Yield
  <2>1. Listed' /\ pc = "walk" /\ pc' = pc
    BY <1>7, YieldListed DEF Yield, Walking
  <2>2. CASE ranges' = ranges
    BY <1>3, <2>1, <2>2
  <2>3. CASE ranges' # ranges
    <3>1. run \in Abstract!Blocks(Listable) /\ Abstract!Give(run)
      BY <1>3, <1>7, <2>1, <2>3, YieldListed DEF Abstract!Give
    <3>. QED
      BY <2>1, <3>1 DEF Abstract!Next
  <2>. QED
    BY <2>2, <2>3
<1>8. CASE Raise
  BY <1>3, <1>5, <1>8 DEF Raise
<1>9. CASE Flush
  <2>1. /\ pc = "walk" /\ pc' = pc /\ page = Total /\ run # None /\ run' = None
        /\ ranges' = Append(ranges, run) /\ page' = page /\ kind' = kind
    BY <1>9 DEF Flush
  <2>. DEFINE a == run.start
              n == run.len
              Runs == [start : Nat, len : Nat \ {0}]
  <2>2. a \in Nat /\ n \in Nat \ {0} /\ run \in Runs /\ ranges \in Seq(Runs)
    BY <1>1, <2>1, RunFacts DEF TypeOK
  <2>3. \A p \in Listable : p \in Nat /\ p < page
    BY <1>1, <1>2, <2>1, RunFacts
  <2>4. /\ a + n <= page
        /\ Abstract!Block(run) = a..(a + n - 1)
        /\ a..(a + n - 1) \subseteq Listable
        /\ Abstract!Covered(ranges) = {p \in Listable : p < a}
        /\ \A p \in Listable : p < a + n
    BY <2>1, <2>3 DEF Listed, Abstract!Block
  <2>5. run \in Abstract!Blocks(Listable)
    <3>1. a + n \notin Listable
      BY <2>2, <2>4
    <3>. QED
      BY <1>1, <2>1, <3>1, RunIsBlock
  <2>6. Abstract!Give(run)
    BY <1>3, <2>1, <2>4 DEF Abstract!Give
  <2>. HIDE DEF a, n, Runs
  <2>7. Abstract!Covered(ranges') = Abstract!Covered(ranges) \union Abstract!Block(run)
    BY <2>1, <2>2, CoveredAppend
  <2>8. Abstract!Covered(ranges') = {p \in Listable : p < page}
    <3>1. ASSUME NEW p \in Listable PROVE p < page /\ (p < a \/ p \in a..(a + n - 1))
      BY <2>2, <2>3, <2>4
    <3>. QED
      BY <2>4, <2>7, <3>1
  <2>9. Listed'
    <3>1. Total' = Total
      BY <2>1 DEF Total, Span, Depth
    <3>2. ~(page' < Total)
      BY <1>2, <2>1
    <3>. QED
      BY <1>3, <2>1, <2>8, <3>1, <3>2 DEF Listed, Abstract!Covered, Abstract!Block
  <2>. QED
    BY <2>5, <2>6, <2>9 DEF Abstract!Next
<1>10. CASE Finish
  <2>1. /\ pc = "walk" /\ pc' = "done" /\ page = Total /\ run = None
        /\ UNCHANGED <<image, kind, page, run, ranges>>
    BY <1>10 DEF Finish
  <2>2. \A p \in Listable : p < page
    BY <1>1, <1>2, <2>1, RunFacts
  <2>3. Abstract!Covered(ranges) = Listable
    BY <2>1, <2>2 DEF Listed
  <2>4. Abstract!Stop
    BY <1>3, <2>1, <2>3 DEF Abstract!Stop
  <2>. QED
    BY <1>5, <2>1, <2>4 DEF Abstract!Next
<1>11. CASE UNCHANGED vars
  BY <1>3, <1>5, <1>11 DEF vars
<1>. QED
  BY <1>4, <1>6, <1>7, <1>8, <1>9, <1>10, <1>11 DEF Next

LEMMA InitListed == Init => NxKnown /\ Listed /\ Abstract!Init
<1>. SUFFICES ASSUME Init PROVE NxKnown /\ Listed /\ Abstract!Init
  OBVIOUS
<1>1. TypeOK /\ page = 0 /\ run = None /\ ranges = <<>> /\ pc = "walk" /\ Level = 1
  BY InitInv DEF IInv, Init, Level
<1>2. Listable \subseteq 0..(Total - 1)
  BY <1>1, RunFacts
<1>3. Total \in Nat
  BY InitInv, PlaceFacts
<1>4. \A p \in Listable : p \in Nat /\ ~(p < page)
  BY <1>1, <1>2, <1>3
<1>5. Listed
  BY <1>1, <1>4, CoveredEmpty DEF Listed
<1>6. Abstract!Init
  BY <1>1, <1>4 DEF Abstract!Init
<1>. QED
  BY <1>1, <1>5, <1>6 DEF NxKnown

\* get_available_addresses of a paging address space gives each maximal block
\* of the pages that vtop translates once, in order, and stops when all are
\* given: for every fan-out, every image and the three classes, but for the
\* pages behind NX.
THEOREM GivesAvailableRanges == Spec => ListsMapped
<1>. DEFINE Inv == IInv /\ NxKnown /\ Listed
<1>1. Init => Inv /\ Abstract!Init
  BY InitInv, InitListed
<1>2. Inv /\ [Next]_vars => Inv' /\ [Abstract!Next]_<<Listable, ranges, pc = "done">>
  BY StepInv, StepNx, StepListed
<1>. HIDE DEF Inv
<1>. QED
  BY <1>1, <1>2, PTL DEF Spec, ListsMapped, Abstract!Spec
=============================================================================
