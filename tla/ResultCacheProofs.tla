------------------------- MODULE ResultCacheProofs -------------------------
(***************************************************************************)
(* What the result cache promises, for every set of runs, options and      *)
(* cached functions.  Three invariants build on each other: types; storing *)
(* whole answers, which holds of every file but one into which runs have    *)
(* written different things at once (Mixing); and answering with the run's *)
(* own options, which needs that no option is added late and that runs     *)
(* that overlap share their options.                                       *)
(*                                                                         *)
(* That what is stored is used is a property of single steps, and rests on *)
(* the first two: only Miss begins to compute, and it does not accept what *)
(* loads; but what is stored for the run's options is whole, has items and *)
(* is accepted.                                                            *)
(***************************************************************************)
EXTENDS ResultCache, TLAPS

LEMMA Defaults == AnySettings \in Settings /\ AnyPath \in Paths
  BY NotEmpty DEF AnySettings, AnyPath

LEMMA SizeType == ASSUME NEW f \in Paths, NEW s \in Settings
                  PROVE  Size[f][s] \in Nat /\ Whole(f, s) \in Answer
  BY ConstantsAssumption DEF Whole, Answer

(* What a shared file may hold: nothing that loads, what one of its writers *)
(* had, or, if they mix, an answer of one of them or a mixture.            *)
LEMMA ContentsAre ==
  ASSUME NEW f, NEW c \in Contents(f)
  PROVE  \/ c = Torn
         \/ \E b \in blobs[f] : c = Entry(b.sig, b.answer)
         \/ /\ Mixing(f)
            /\ \E s \in Signatures :
                 \/ \E b \in blobs[f] : c = Entry(s, b.answer)
                 \/ c = Entry(s, [by |-> Mixed, items |-> 1])
  BY DEF Contents

LEMMA ContentsType ==
  ASSUME blobs \in [Paths -> SUBSET Blob], NEW f \in Paths
  PROVE  /\ Contents(f) \subseteq Files
         /\ {Entry(b.sig, b.answer) : b \in blobs[f]} \subseteq Files
<1>1. \A b \in blobs[f] : b.sig \in Signatures /\ b.answer \in Answer
  BY DEF Blob, Answer
<1>2. [by |-> Mixed, items |-> 1] \in Answer
  BY DEF Answer
<1>3. \A s \in Signatures, a \in Answer : Entry(s, a) \in Files
  BY DEF Entry, Files
<1>4. Torn \in Files
  BY DEF Files
<1>5. ASSUME NEW c \in Contents(f) PROVE c \in Files
  BY <1>1, <1>2, <1>3, <1>4, ContentsAre
<1>. QED
  BY <1>1, <1>3, <1>5

(* The steps of a run, without the quantifiers of Next. *)
Step(p) ==
  \/ \E s \in Settings, c \in BOOLEAN : Start(p, s, c)
  \/ LateOption(p) \/ Stop(p)
  \/ \E f \in Paths : CallPlain(p, f) \/ Hit(p, f) \/ Miss(p, f)
  \/ Yield(p) \/ Abandon(p) \/ Returns(p)
  \/ CheckDirectory(p) \/ MakeDirectory(p) \/ Open(p) \/ Flush(p) \/ Close(p)

(* Every variable keeps its type: the types of files, answers and the      *)
(* states of a run in cache.py's CacheDecorator and CacheStorage.          *)
THEOREM TypeCorrect == Spec => []TypeOK
<1>1. Init => TypeOK
  BY Defaults, ConstantsAssumption
  DEF Init, TypeOK, Files, Absent, Answer, PCs
<1>2. TypeOK /\ [Next]_vars => TypeOK'
  <2> SUFFICES ASSUME TypeOK, [Next]_vars PROVE TypeOK'
    OBVIOUS
  <2>0. CASE UNCHANGED vars
    BY <2>0 DEF vars, TypeOK
  <2> SUFFICES ASSUME NEW p \in Runs, Step(p) PROVE TypeOK'
    BY <2>0 DEF Next, Step
  <2>1. CASE \E s \in Settings, c \in BOOLEAN : Start(p, s, c)
    BY <2>1, ConstantsAssumption DEF Start, TypeOK, PCs, store
  <2>2. CASE LateOption(p)
    BY <2>2 DEF LateOption, TypeOK, store
  <2>3. CASE Stop(p)
    BY <2>3, Defaults DEF Stop, TypeOK, PCs, Answer, store
  <2>4. CASE \E f \in Paths : CallPlain(p, f)
    BY <2>4, SizeType DEF CallPlain, TypeOK, PCs, Idle, store, options
  <2>5. CASE \E f \in Paths : Hit(p, f)
    <3> PICK f \in Paths : Hit(p, f)
      BY <2>5
    <3>1. disk[f].answer \in Answer
      BY DEF Hit, Accepts, TypeOK, Files, Absent, Torn
    <3> QED
      BY <3>1 DEF Hit, TypeOK, PCs, Idle, store, options
  <2>6. CASE \E f \in Paths : Miss(p, f)
    BY <2>6 DEF Miss, TypeOK, PCs, Idle, store, options
  <2>7. CASE Yield(p)
    BY <2>7 DEF Yield, TypeOK, PCs, store, options
  <2>8. CASE Abandon(p)
    BY <2>8 DEF Abandon, TypeOK, PCs, store, options
  <2>9. CASE Returns(p)
    <3> DEFINE n == Size[path[p]][given[p]]
               a == [by |-> given[p], items |-> n]
    <3>1. n \in Nat /\ a \in Answer
      BY SizeType DEF TypeOK, Answer
    <3>2. /\ pc' = [pc EXCEPT ![p] = "dump"] \/ pc' = [pc EXCEPT ![p] = "served"]
          /\ served' = served \/ served' = [served EXCEPT ![p] = a]
          /\ items' = [items EXCEPT ![p] = n]
          /\ now' = [now EXCEPT ![p] = given[p]]
          /\ UNCHANGED <<disk, blobs, over, made, caching, given, watched, starts, orderly, path>>
      BY <2>9 DEF Returns, store, options
    <3> HIDE DEF n, a
    <3> QED
      BY <3>1, <3>2 DEF TypeOK, PCs
  <2>10. CASE CheckDirectory(p)
    BY <2>10 DEF CheckDirectory, Goto, TypeOK, PCs, store, options
  <2>11. CASE MakeDirectory(p)
    BY <2>11 DEF MakeDirectory, Goto, TypeOK, PCs, options
  <2>12. CASE Open(p)
    <3>1. [sig |-> Signature(p), answer |-> [by |-> given[p], items |-> items[p]]]
            \in Blob
      BY DEF TypeOK, Blob, Answer, Signature, Signatures
    <3>2. blobs' \in [Paths -> SUBSET Blob] /\ over' \in [Paths -> {"no", "same", "different"}]
      BY <2>12, <3>1 DEF Open, TypeOK
    <3>3. disk' \in [Paths -> Files]
      BY <2>12 DEF Open, TypeOK, Files
    <3>4. /\ pc[p] = "open" /\ pc' = [pc EXCEPT ![p] = "write"]
          /\ UNCHANGED <<made, options, now, path, items, served>>
      BY <2>12 DEF Open, Goto
    <3>5. \A q \in Runs : now'[q] # given'[q] =>
            pc'[q] = "compute" /\ Kind[path'[q]] = "search"
      BY <3>4 DEF TypeOK, options
    <3>6. /\ pc' \in [Runs -> PCs] /\ caching' \in [Runs -> BOOLEAN]
          /\ given' \in [Runs -> Settings] /\ now' \in [Runs -> Settings]
          /\ watched' \in [Runs -> BOOLEAN] /\ path' \in [Runs -> Paths]
          /\ items' \in [Runs -> Nat] /\ starts' \in 0..MaxStarts
          /\ made' \in BOOLEAN /\ orderly' \in BOOLEAN
      BY <3>4 DEF TypeOK, PCs, options
    <3> QED
      BY <3>2, <3>3, <3>4, <3>5, <3>6 DEF TypeOK
  <2>13. CASE Flush(p)
    <3>1. disk' \in [Paths -> Files]
      BY <2>13, ContentsType DEF Flush, TypeOK
    <3> QED
      BY <2>13, <3>1 DEF Flush, TypeOK, options
  <2>14. CASE Close(p)
    <3>1. disk' \in [Paths -> Files]
      <4>1. PICK c : /\ c \in Contents(path[p]) \/ c \in {Entry(b.sig, b.answer) : b \in blobs[path[p]]}
                     /\ disk' = [disk EXCEPT ![path[p]] = c]
        BY <2>14 DEF Close
      <4>2. c \in Files
        BY <4>1, ContentsType DEF TypeOK
      <4> QED
        BY <4>1, <4>2 DEF TypeOK
    <3>2. served' \in [Runs -> Answer]
      BY <2>14 DEF Close, TypeOK, Answer
    <3>3. blobs' \in [Paths -> SUBSET Blob] /\ over' \in [Paths -> {"no", "same", "different"}]
      BY <2>14 DEF Close, TypeOK
    <3>4. /\ pc[p] = "write" /\ pc' = [pc EXCEPT ![p] = "served"]
          /\ UNCHANGED <<made, options, now, path, items>>
      BY <2>14 DEF Close, Goto
    <3>5. \A q \in Runs : now'[q] # given'[q] =>
            pc'[q] = "compute" /\ Kind[path'[q]] = "search"
      BY <3>4 DEF TypeOK, options
    <3>6. /\ pc' \in [Runs -> PCs] /\ caching' \in [Runs -> BOOLEAN]
          /\ given' \in [Runs -> Settings] /\ now' \in [Runs -> Settings]
          /\ watched' \in [Runs -> BOOLEAN] /\ path' \in [Runs -> Paths]
          /\ items' \in [Runs -> Nat] /\ starts' \in 0..MaxStarts
          /\ made' \in BOOLEAN /\ orderly' \in BOOLEAN
      BY <3>4 DEF TypeOK, PCs, options
    <3> QED
      BY <3>1, <3>2, <3>3, <3>4, <3>5, <3>6 DEF TypeOK
  <2> QED
    BY <2>1, <2>2, <2>3, <2>4, <2>5, <2>6, <2>7, <2>8, <2>9, <2>10, <2>11,
       <2>12, <2>13, <2>14 DEF Step
<1> QED
  BY <1>1, <1>2, PTL DEF Spec
-----------------------------------------------------------------------------
(***************************************************************************)
(* Whole answers.  EntriesWhole alone is not inductive: what is in the     *)
(* file was in a writer's hands before, and that in a computation.         *)
(***************************************************************************)
Storing(p) == pc[p] \in {"dump", "mkdir", "open", "write"}
Storable(f, a) == IsWhole(f, a) /\ a.items > 0 /\ Kind[f] # "nested"

StoringWhole == \A p \in Runs : Storing(p) =>
  Storable(path[p], [by |-> given[p], items |-> items[p]])
BlobsWhole == \A f \in Paths : \A b \in blobs[f] : Storable(f, b.answer)
FilesWhole == \A f \in Paths : disk[f].state = "entry" =>
  Storable(f, disk[f].answer) \/ (Mixing(f) /\ disk[f].answer.by = Mixed)
WholeInv == StoringWhole /\ BlobsWhole /\ FilesWhole

(* Steps that leave files alone keep what is in them. *)
LEMMA StoreStays ==
  ASSUME UNCHANGED <<disk, blobs, over>>, BlobsWhole, FilesWhole
  PROVE  BlobsWhole' /\ FilesWhole'
  BY DEF BlobsWhole, FilesWhole, Storable, IsWhole, Whole, Mixing

LEMMA WholeStep == TypeOK /\ WholeInv /\ [Next]_vars => WholeInv'
<1> SUFFICES ASSUME TypeOK, WholeInv, [Next]_vars PROVE WholeInv'
  OBVIOUS
<1>0. CASE UNCHANGED vars
  BY <1>0, StoreStays DEF vars, WholeInv, StoringWhole, Storing, Storable, IsWhole, Whole
<1> SUFFICES ASSUME NEW p \in Runs, Step(p) PROVE WholeInv'
  BY <1>0 DEF Next, Step
<1> USE DEF WholeInv, TypeOK
<1>1. CASE \E s \in Settings, c \in BOOLEAN : Start(p, s, c)
  BY <1>1, StoreStays DEF Start, store, StoringWhole, Storing, Storable, IsWhole, Whole
<1>2. CASE LateOption(p)
  BY <1>2, StoreStays DEF LateOption, store, StoringWhole, Storing, Storable, IsWhole, Whole
<1>3. CASE Stop(p)
  BY <1>3, StoreStays DEF Stop, store, StoringWhole, Storing, Storable, IsWhole, Whole
<1>4. CASE \E f \in Paths : CallPlain(p, f)
  BY <1>4, StoreStays DEF CallPlain, store, options, StoringWhole, Storing, Storable, IsWhole, Whole
<1>5. CASE \E f \in Paths : Hit(p, f)
  BY <1>5, StoreStays DEF Hit, store, options, StoringWhole, Storing, Storable, IsWhole, Whole
<1>6. CASE \E f \in Paths : Miss(p, f)
  BY <1>6, StoreStays DEF Miss, store, options, StoringWhole, Storing, Storable, IsWhole, Whole
<1>7. CASE Yield(p)
  BY <1>7, StoreStays DEF Yield, store, options, StoringWhole, Storing, Storable, IsWhole, Whole
<1>8. CASE Abandon(p)
  BY <1>8, StoreStays DEF Abandon, store, options, StoringWhole, Storing, Storable, IsWhole, Whole
<1>9. CASE Returns(p)
  <2> DEFINE n == Size[path[p]][given[p]]
             a == [by |-> given[p], items |-> n]
  <2>1. IsWhole(path[p], a) /\ a.items = n
    BY DEF IsWhole, Whole
  <2>2. /\ \/ n > 0 /\ Kind[path[p]] # "nested" /\ pc' = [pc EXCEPT ![p] = "dump"]
           \/ pc' = [pc EXCEPT ![p] = "served"]
        /\ items' = [items EXCEPT ![p] = n]
        /\ UNCHANGED <<disk, blobs, over, given, path>>
    BY <1>9 DEF Returns, store, options
  <2>3. StoringWhole'
    BY <2>1, <2>2 DEF StoringWhole, Storing, Storable, IsWhole, Whole
  <2> QED
    BY <2>2, <2>3, StoreStays
<1>10. CASE CheckDirectory(p)
  BY <1>10, StoreStays
  DEF CheckDirectory, Goto, store, options, StoringWhole, Storing, Storable, IsWhole, Whole
<1>11. CASE MakeDirectory(p)
  BY <1>11, StoreStays
  DEF MakeDirectory, Goto, options, StoringWhole, Storing, Storable, IsWhole, Whole
<1>12. CASE Open(p)
  <2> DEFINE f == path[p]
             a == [by |-> given[p], items |-> items[p]]
             mine == [sig |-> Signature(p), answer |-> a]
  <2>1. Storable(f, mine.answer)
    BY <1>12 DEF Open, Goto, StoringWhole, Storing
  <2>2. /\ pc[p] = "open" /\ pc' = [pc EXCEPT ![p] = "write"]
        /\ disk' = [disk EXCEPT ![f] = Torn]
        /\ \/ blobs' = [blobs EXCEPT ![f] = {mine}]
           \/ blobs' = [blobs EXCEPT ![f] = @ \union {mine}]
        /\ \A g \in Paths : g # f => over'[g] = over[g]
        /\ UNCHANGED <<given, path, items, served>>
    BY <1>12 DEF Open, Goto, options
  <2>3. f \in Paths
    OBVIOUS
  <2> HIDE DEF f, mine
  <2>4. BlobsWhole'
    <3> SUFFICES ASSUME NEW g \in Paths, NEW b \in blobs'[g]
                 PROVE  Storable(g, b.answer)
      BY DEF BlobsWhole, Storable, IsWhole, Whole
    <3>1. b \in blobs[g] \/ (g = f /\ b = mine)
      BY <2>2, <2>3
    <3> QED
      BY <2>1, <3>1 DEF BlobsWhole
  <2>5. FilesWhole'
    BY <2>2, <2>3 DEF FilesWhole, Storable, IsWhole, Whole, Torn, Mixing
  <2>6. StoringWhole'
    BY <2>2 DEF StoringWhole, Storing, Storable, IsWhole, Whole
  <2> QED
    BY <2>4, <2>5, <2>6
<1>13. ASSUME NEW f \in Paths, NEW c,
              c \in Contents(f) \/ c \in {Entry(b.sig, b.answer) : b \in blobs[f]},
              c.state = "entry"
       PROVE  Storable(f, c.answer) \/ (Mixing(f) /\ c.answer.by = Mixed)
  <2>1. \A s, a : Entry(s, a).answer = a
    BY DEF Entry
  <2>2. \A b \in blobs[f] : Storable(f, b.answer)
    BY DEF BlobsWhole
  <2>3. c # Torn
    BY <1>13 DEF Torn
  <2>4. CASE c \in {Entry(b.sig, b.answer) : b \in blobs[f]}
    BY <2>1, <2>2, <2>4
  <2>5. CASE c \in Contents(f)
    BY <2>1, <2>2, <2>3, <2>5, ContentsAre
  <2> QED
    BY <1>13, <2>4, <2>5
<1>14. ASSUME NEW f \in Paths, NEW c,
              c \in Contents(f) \/ c \in {Entry(b.sig, b.answer) : b \in blobs[f]},
              disk' = [disk EXCEPT ![f] = c],
              \A g \in Paths : Mixing(g)' <=> Mixing(g)
       PROVE  FilesWhole'
  <2> SUFFICES ASSUME NEW g \in Paths, disk'[g].state = "entry"
               PROVE  Storable(g, disk'[g].answer) \/ (Mixing(g) /\ disk'[g].answer.by = Mixed)
    BY <1>14 DEF FilesWhole, Storable, IsWhole, Whole
  <2>1. CASE g = f
    BY <1>13, <1>14, <2>1
  <2>2. CASE g # f
    BY <1>14, <2>2 DEF FilesWhole
  <2> QED
    BY <2>1, <2>2
<1>15. CASE Flush(p)
  <2>1. UNCHANGED <<blobs, over, pc, given, path, items>>
    BY <1>15 DEF Flush, options
  <2>2. PICK c \in Contents(path[p]) : disk' = [disk EXCEPT ![path[p]] = c]
    BY <1>15 DEF Flush
  <2>3. FilesWhole'
    BY <1>14, <2>1, <2>2 DEF Mixing
  <2>4. BlobsWhole' /\ StoringWhole'
    BY <2>1 DEF BlobsWhole, StoringWhole, Storing, Storable, IsWhole, Whole
  <2> QED
    BY <2>3, <2>4
<1>16. CASE Close(p)
  <2> DEFINE f == path[p]
  <2>1. PICK c : /\ c \in Contents(f) \/ c \in {Entry(b.sig, b.answer) : b \in blobs[f]}
                 /\ disk' = [disk EXCEPT ![f] = c]
    BY <1>16 DEF Close
  <2>2. /\ pc' = [pc EXCEPT ![p] = "served"]
        /\ \/ blobs' = [blobs EXCEPT ![f] = {}]
           \/ blobs' = blobs
        /\ \/ over' = over
           \/ over[f] = "same" /\ over' = [over EXCEPT ![f] = "no"]
        /\ UNCHANGED <<given, path, items>>
    BY <1>16 DEF Close, Goto, options
  <2>3. f \in Paths
    OBVIOUS
  <2>4. \A g \in Paths : Mixing(g)' <=> Mixing(g)
    BY <2>2, <2>3 DEF Mixing
  <2>5. FilesWhole'
    BY <1>14, <2>1, <2>3, <2>4
  <2>6. BlobsWhole'
    BY <2>2, <2>3 DEF BlobsWhole, Storable, IsWhole, Whole
  <2>7. StoringWhole'
    BY <2>2 DEF StoringWhole, Storing, Storable, IsWhole, Whole
  <2> QED
    BY <2>5, <2>6, <2>7
<1> QED
  BY <1>1, <1>2, <1>3, <1>4, <1>5, <1>6, <1>7, <1>8, <1>9, <1>10, <1>11,
     <1>12, <1>15, <1>16 DEF Step

LEMMA WholeAlways == Spec => []WholeInv
<1>1. Init => WholeInv
  BY DEF Init, WholeInv, StoringWhole, BlobsWhole, FilesWhole, Storing, Absent
<1> QED
  BY <1>1, TypeCorrect, WholeStep, PTL DEF Spec

(* Whatever runs overlap, end or are killed, a file of the cache that      *)
(* loads holds a whole answer of its own path, unless runs have written    *)
(* different things into it over each other (CacheDecorator.generate,      *)
(* CacheNode.dump, CacheStorage.dump and load).                            *)
THEOREM EntriesAlwaysWhole == Spec => []EntriesWhole
<1>1. WholeInv => EntriesWhole
  BY DEF WholeInv, FilesWhole, Storable, EntriesWhole
<1> QED
  BY <1>1, WholeAlways, PTL

(* And a call delivers a whole answer if it computes it, and if it finds   *)
(* it, unless in a file into which runs have written different things over *)
(* each other: CacheDecorator's generate and _cachewrapper.                *)
THEOREM AnswersAlwaysWhole == Spec => AnswerWhole
<1>1. ASSUME TypeOK, WholeInv, [Next]_vars, NEW p \in Runs, Delivered(p)
      PROVE  \/ IsWhole(path'[p], served'[p])
             \/ Idle(p) /\ caching[p] /\ Mixing(path'[p])
  <2>1. /\ pc'[p] = "served" /\ ~UNCHANGED <<pc[p], path[p], served[p]>>
        /\ pc \in [Runs -> PCs] /\ path \in [Runs -> Paths] /\ served \in [Runs -> Answer]
    BY <1>1 DEF Delivered, TypeOK
  <2>2. PICK q \in Runs : Step(q)
    BY <1>1, <2>1 DEF Next, Step, vars
  <2>3. q = p
    <3>1. /\ pc' = pc \/ \E c \in PCs : pc' = [pc EXCEPT ![q] = c]
          /\ path' = path \/ \E f \in Paths : path' = [path EXCEPT ![q] = f]
          /\ served' = served \/ \E a : served' = [served EXCEPT ![q] = a]
      BY <2>2, Defaults DEF Step, Start, LateOption, Stop, CallPlain, Hit, Miss, Yield, Abandon,
                  Returns, CheckDirectory, MakeDirectory, Open, Flush, Close, Goto, PCs
    <3> QED
      BY <2>1, <3>1
  <2>4. given[p] \in Settings /\ now[p] \in Settings /\ path[p] \in Paths
    BY <1>1 DEF TypeOK
  <2>5. \A f, s : s \in Settings => IsWhole(f, Whole(f, s))
    BY DEF IsWhole, Whole
  <2>6. CASE \E f \in Paths : CallPlain(p, f)
    <3> PICK f \in Paths : CallPlain(p, f)
      BY <2>6
    <3>1. path'[p] = f /\ served'[p] = Whole(f, now[p])
      BY <2>1 DEF CallPlain
    <3> QED
      BY <2>4, <2>5, <3>1
  <2>7. CASE \E f \in Paths : Hit(p, f)
    <3> PICK f \in Paths : Hit(p, f)
      BY <2>7
    <3>1. /\ path'[p] = f /\ served'[p] = disk[f].answer /\ disk[f].state = "entry"
          /\ Idle(p) /\ caching[p]
      BY <2>1 DEF Hit, Accepts
    <3>2. Storable(f, disk[f].answer) \/ Mixing(f)
      BY <1>1, <3>1 DEF WholeInv, FilesWhole
    <3> QED
      BY <3>1, <3>2 DEF Storable
  <2>8. CASE Returns(p)
    <3>1. /\ path'[p] = path[p]
          /\ served'[p] = [by |-> given[p], items |-> Size[path[p]][given[p]]]
      BY <2>1, <2>8 DEF Returns
    <3>2. served'[p] = Whole(path[p], given[p])
      BY <3>1 DEF Whole
    <3> QED
      BY <2>4, <2>5, <3>1, <3>2
  <2>9. CASE Close(p)
    <3> DEFINE a == [by |-> given[p], items |-> items[p]]
    <3>1. path'[p] = path[p] /\ served'[p] = a /\ pc[p] = "write"
      BY <2>1, <2>9 DEF Close, Goto
    <3>2. Storable(path[p], a)
      BY <1>1, <3>1 DEF WholeInv, StoringWhole, Storing
    <3> QED
      BY <3>1, <3>2 DEF Storable
  <2>10. CASE \/ \E s \in Settings, c \in BOOLEAN : Start(p, s, c)
              \/ Stop(p)
              \/ \E f \in Paths : Miss(p, f)
              \/ Yield(p) \/ Abandon(p)
              \/ CheckDirectory(p) \/ MakeDirectory(p) \/ Open(p)
    <3>1. pc'[p] # "served"
      BY <2>1, <2>10
      DEF Start, Stop, Miss, Yield, Abandon, CheckDirectory, MakeDirectory, Open, Goto
    <3> QED
      BY <2>1, <3>1
  <2>11. CASE LateOption(p) \/ Flush(p)
    <3>1. UNCHANGED <<pc, path, served>>
      BY <2>11 DEF LateOption, Flush
    <3> QED
      BY <2>1, <3>1
  <2> QED
    BY <2>2, <2>3, <2>6, <2>7, <2>8, <2>9, <2>10, <2>11 DEF Step
<1>2. TypeOK /\ WholeInv /\ [Next]_vars =>
        [\A p \in Runs : Delivered(p) =>
           \/ IsWhole(path'[p], served'[p])
           \/ Idle(p) /\ caching[p] /\ Mixing(path'[p])]_vars
  BY <1>1
<1> QED
  BY <1>2, TypeCorrect, WholeAlways, PTL DEF Spec, AnswerWhole
-----------------------------------------------------------------------------
(***************************************************************************)
(* The right answers.  A run only ever takes an entry signed with its own  *)
(* options, because every run has its conditions registered; the signature *)
(* tells the truth, because the runs that wrote into one file at the same  *)
(* time were signing with the same options.                                *)
(***************************************************************************)
SameSettings == \A p, q \in Runs : Live(p) /\ Live(q) => given[p] = given[q]
AllWatched == \A p \in Runs : watched[p]
BlobsSigned == \A f \in Paths : \A b \in blobs[f] : b.sig = b.answer.by
WritersAgree == \A p \in Runs : pc[p] = "write" =>
  \A b \in blobs[path[p]] : b.answer.by = given[p]
NoMixing == \A f \in Paths : ~Mixing(f)
SignedInv ==
  /\ SameSettings /\ AllWatched /\ BlobsSigned /\ WritersAgree /\ NoMixing
  /\ SignedAsGiven /\ RightAnswer

LEMMA SignedStep ==
  ASSUME orderly, orderly', TypeOK, WholeInv, SignedInv, [Next]_vars
  PROVE  SignedInv'
<1>0. CASE UNCHANGED vars
  BY <1>0 DEF vars, SignedInv, SameSettings, AllWatched, BlobsSigned,
     WritersAgree, SignedAsGiven, RightAnswer, Right, NoMixing, Mixing, Live, Whole
<1> SUFFICES ASSUME NEW p \in Runs, Step(p) PROVE SignedInv'
  BY <1>0 DEF Next, Step
<1> USE DEF SignedInv, TypeOK
<1>1. CASE \E s \in Settings, c \in BOOLEAN : Start(p, s, c)
  <2> PICK s \in Settings, c \in BOOLEAN : Start(p, s, c)
    BY <1>1
  <2>1. UNCHANGED <<disk, blobs, over>>
    BY DEF Start, store
  <2>2. SameSettings' /\ AllWatched'
    BY DEF Start, SameSettings, AllWatched, Live
  <2>3. WritersAgree' /\ RightAnswer'
    BY <2>1 DEF Start, WritersAgree, RightAnswer, Right, Whole
  <2> QED
    BY <2>1, <2>2, <2>3 DEF BlobsSigned, SignedAsGiven, NoMixing, Mixing
<1>2. CASE LateOption(p)
  BY <1>2 DEF LateOption
<1>3. CASE Stop(p)
  <2>1. UNCHANGED <<disk, blobs, over>>
    BY <1>3 DEF Stop, store
  <2>2. SameSettings' /\ AllWatched'
    BY <1>3 DEF Stop, SameSettings, AllWatched, Live
  <2>3. WritersAgree' /\ RightAnswer'
    BY <1>3, <2>1 DEF Stop, WritersAgree, RightAnswer, Right, Whole
  <2> QED
    BY <2>1, <2>2, <2>3 DEF BlobsSigned, SignedAsGiven, NoMixing, Mixing
<1>4. CASE \E f \in Paths : CallPlain(p, f)
  <2> PICK f \in Paths : CallPlain(p, f)
    BY <1>4
  <2>1. UNCHANGED <<disk, blobs, over, given, watched>>
    BY DEF CallPlain, store, options
  <2>2. SameSettings'
    BY <2>1 DEF CallPlain, SameSettings, Live, Idle
  <2>3. WritersAgree'
    BY <2>1 DEF CallPlain, WritersAgree
  <2>4. RightAnswer'
    BY <2>1 DEF CallPlain, RightAnswer, Right, Whole, Idle
  <2> QED
    BY <2>1, <2>2, <2>3, <2>4 DEF BlobsSigned, SignedAsGiven, AllWatched, NoMixing, Mixing
<1>5. CASE \E f \in Paths : Hit(p, f)
  <2> PICK f \in Paths : Hit(p, f)
    BY <1>5
  <2>1. UNCHANGED <<disk, blobs, over, given, watched>>
    BY DEF Hit, store, options
  <2>2. SameSettings'
    BY <2>1 DEF Hit, SameSettings, Live, Idle
  <2>3. WritersAgree'
    BY <2>1 DEF Hit, WritersAgree
  <2>4. disk[f].answer = Whole(f, given[p])
    <3>1. disk[f].state = "entry" /\ disk[f].answer \in Answer
      BY DEF Hit, Accepts, Files, Absent, Torn
    <3>2. disk[f].sig = disk[f].answer.by /\ disk[f].answer.by \in Settings
      BY <3>1 DEF SignedAsGiven, WholeInv, FilesWhole, NoMixing, Storable, IsWhole
    <3>3. disk[f].sig = now[p] /\ now[p] = given[p]
      BY <3>2, ConstantsAssumption DEF Hit, Accepts, AllWatched, Idle
    <3>4. Storable(f, disk[f].answer)
      BY <3>1 DEF WholeInv, FilesWhole, NoMixing
    <3> QED
      BY <3>2, <3>3, <3>4 DEF Storable, IsWhole
  <2>5. RightAnswer'
    BY <2>1, <2>4 DEF Hit, RightAnswer, Right, Whole
  <2> QED
    BY <2>1, <2>2, <2>3, <2>5 DEF BlobsSigned, SignedAsGiven, AllWatched, NoMixing, Mixing
<1>6. CASE \E f \in Paths : Miss(p, f)
  BY <1>6 DEF Miss, store, options, SameSettings, AllWatched, BlobsSigned,
     WritersAgree, SignedAsGiven, RightAnswer, Right, NoMixing, Mixing, Live, Idle, Whole
<1>7. CASE Yield(p)
  BY <1>7 DEF Yield, store, options, SameSettings, AllWatched, BlobsSigned,
     WritersAgree, SignedAsGiven, RightAnswer, Right, NoMixing, Mixing, Live, Whole
<1>8. CASE Abandon(p)
  BY <1>8 DEF Abandon, store, options, SameSettings, AllWatched, BlobsSigned,
     WritersAgree, SignedAsGiven, RightAnswer, Right, NoMixing, Mixing, Live, Whole
<1>9. CASE Returns(p)
  <2> DEFINE a == Whole(path[p], given[p])
  <2>1. /\ pc[p] = "compute"
        /\ \/ pc' = [pc EXCEPT ![p] = "dump"] /\ served' = served
           \/ /\ pc' = [pc EXCEPT ![p] = "served"]
              /\ served' = [served EXCEPT ![p] = a]
        /\ UNCHANGED <<disk, blobs, over, given, watched, path>>
    BY <1>9 DEF Returns, store, options, Whole
  <2>2. RightAnswer'
    BY <2>1 DEF RightAnswer, Right, Whole
  <2>3. WritersAgree'
    BY <2>1 DEF WritersAgree
  <2>4. SameSettings'
    BY <2>1 DEF SameSettings, Live
  <2> QED
    BY <2>1, <2>2, <2>3, <2>4 DEF BlobsSigned, SignedAsGiven, AllWatched, NoMixing, Mixing
<1>10. CASE CheckDirectory(p)
  BY <1>10 DEF CheckDirectory, Goto, store, options, SameSettings, AllWatched,
     BlobsSigned, WritersAgree, SignedAsGiven, RightAnswer, Right, NoMixing, Mixing, Live, Whole
<1>11. CASE MakeDirectory(p)
  BY <1>11 DEF MakeDirectory, Goto, options, SameSettings, AllWatched,
     BlobsSigned, WritersAgree, SignedAsGiven, RightAnswer, Right, NoMixing, Mixing, Live, Whole
<1>12. CASE Open(p)
  <2> DEFINE f == path[p]
             a == [by |-> given[p], items |-> items[p]]
             mine == [sig |-> Signature(p), answer |-> a]
  <2>1. mine.sig = mine.answer.by /\ mine.answer.by = given[p]
    BY <1>12 DEF Open, Goto, Signature, AllWatched
  <2>2. /\ pc[p] = "open" /\ pc' = [pc EXCEPT ![p] = "write"]
        /\ disk' = [disk EXCEPT ![f] = Torn]
        /\ blobs' = [blobs EXCEPT ![f] =
             IF OtherWriters(p, f) = {} THEN {mine} ELSE @ \union {mine}]
        /\ over' = [over EXCEPT ![f] =
             IF OtherWriters(p, f) = {} THEN "no"
             ELSE IF @ # "different" /\ blobs[f] \subseteq {mine} THEN "same" ELSE "different"]
        /\ UNCHANGED <<given, watched, path, items, served>>
    BY <1>12 DEF Open, Goto, options
  <2>8. Storable(f, a)
    BY <1>12 DEF Open, Goto, WholeInv, StoringWhole, Storing
  <2>9. ASSUME OtherWriters(p, f) # {}, NEW b \in blobs[f]
        PROVE  b = mine
    <3>1. PICK w \in Runs : pc[w] = "write" /\ path[w] = f
      BY <2>9 DEF OtherWriters
    <3>2. given[w] = given[p]
      BY <2>2, <3>1 DEF SameSettings, Live
    <3>3. b.answer.by = given[p] /\ b.sig = given[p]
      BY <2>9, <3>1, <3>2 DEF WritersAgree, BlobsSigned
    <3>4. b.answer = Whole(f, given[p]) /\ a = Whole(f, given[p])
      BY <2>8, <3>3 DEF WholeInv, BlobsWhole, Storable, IsWhole
    <3>5. b = [sig |-> b.sig, answer |-> b.answer]
      BY DEF Blob
    <3> QED
      BY <2>1, <3>3, <3>4, <3>5
  <2>3. f \in Paths
    OBVIOUS
  <2> HIDE DEF f, mine
  <2>4. BlobsSigned'
    <3> SUFFICES ASSUME NEW g \in Paths, NEW b \in blobs'[g]
                 PROVE  b.sig = b.answer.by
      BY DEF BlobsSigned
    <3>1. b \in blobs[g] \/ (g = f /\ b = mine)
      BY <2>2, <2>3
    <3> QED
      BY <2>1, <3>1 DEF BlobsSigned
  <2>5. WritersAgree'
    <3> SUFFICES ASSUME NEW q \in Runs, pc'[q] = "write",
                        NEW b \in blobs'[path[q]]
                 PROVE  b.answer.by = given[q]
      BY <2>2 DEF WritersAgree
    <3>1. q = p \/ pc[q] = "write"
      BY <2>2
    <3>2. given[q] = given[p]
      BY <2>2, <3>1 DEF SameSettings, Live
    <3>3. CASE b = mine
      BY <2>1, <3>2, <3>3
    <3>4. CASE b # mine /\ path[q] = f
      <4>1. b \in blobs[f] /\ OtherWriters(p, f) # {}
        BY <2>2, <2>3, <3>4
      <4>2. PICK w \in Runs : pc[w] = "write" /\ path[w] = f
        BY <4>1 DEF OtherWriters
      <4>3. given[w] = given[p]
        BY <2>2, <4>2 DEF SameSettings, Live
      <4> QED
        BY <3>2, <4>1, <4>2, <4>3 DEF WritersAgree
    <3>5. CASE b # mine /\ path[q] # f
      <4>1. q # p /\ b \in blobs[path[q]]
        BY <2>2, <2>3, <3>5 DEF f
      <4> QED
        BY <3>1, <4>1 DEF WritersAgree
    <3> QED
      BY <3>3, <3>4, <3>5
  <2>6. SignedAsGiven'
    BY <2>2, <2>3 DEF SignedAsGiven, Torn
  <2>7. RightAnswer' /\ SameSettings' /\ AllWatched'
    BY <2>2 DEF RightAnswer, Right, SameSettings, AllWatched, Live, Whole
  <2>10. NoMixing'
    BY <2>2, <2>3, <2>9 DEF NoMixing, Mixing
  <2> QED
    BY <2>4, <2>5, <2>6, <2>7, <2>10
<1>13. ASSUME pc[p] = "write",
              NEW c \in Contents(path[p]) \union {Entry(b.sig, b.answer) : b \in blobs[path[p]]},
              disk' = [disk EXCEPT ![path[p]] = c]
       PROVE  SignedAsGiven'
  <2> DEFINE f == path[p]
  <2> SUFFICES ASSUME NEW g \in Paths, disk'[g].state = "entry"
               PROVE  disk'[g].sig = disk'[g].answer.by
    BY DEF SignedAsGiven
  <2>1. f \in Paths /\ ~Mixing(f)
    BY DEF NoMixing
  <2>2. c = Torn \/ \E b \in blobs[f] : c = Entry(b.sig, b.answer)
    BY <2>1, ContentsAre
  <2>3. \A b \in blobs[f] : b.sig = b.answer.by
    BY DEF BlobsSigned
  <2> HIDE DEF f
  <2>4. CASE g = f
    <3>1. disk'[g] = c /\ c # Torn
      BY <1>13, <2>1, <2>4 DEF f, Torn
    <3> QED
      BY <2>2, <2>3, <3>1 DEF Entry
  <2>5. CASE g # f
    BY <1>13, <2>5 DEF f, SignedAsGiven
  <2> QED
    BY <2>4, <2>5
<1>14. CASE Flush(p)
  <2>1. /\ pc[p] = "write"
        /\ UNCHANGED <<blobs, over, pc, given, watched, path, served>>
    BY <1>14 DEF Flush, options
  <2>2. SignedAsGiven'
    BY <1>13, <1>14, <2>1 DEF Flush
  <2>3. SameSettings' /\ AllWatched' /\ BlobsSigned' /\ WritersAgree' /\ NoMixing'
    BY <2>1 DEF SameSettings, AllWatched, BlobsSigned, WritersAgree, NoMixing, Mixing, Live
  <2>4. RightAnswer'
    BY <2>1 DEF RightAnswer, Right, Whole
  <2> QED
    BY <2>2, <2>3, <2>4
<1>15. CASE Close(p)
  <2> DEFINE f == path[p]
             a == [by |-> given[p], items |-> items[p]]
  <2>1. pc[p] = "write" /\ a = Whole(f, given[p])
    BY <1>15 DEF Close, Goto, WholeInv, StoringWhole, Storing, Storable, IsWhole
  <2>2. /\ pc' = [pc EXCEPT ![p] = "served"]
        /\ \/ blobs' = [blobs EXCEPT ![f] = {}]
           \/ blobs' = blobs
        /\ over' = over \/ over' = [over EXCEPT ![f] = "no"]
        /\ served' = [served EXCEPT ![p] = a]
        /\ UNCHANGED <<given, watched, path, items>>
    BY <1>15 DEF Close, Goto, options
  <2>3. f \in Paths
    OBVIOUS
  <2>4. BlobsSigned'
    BY <2>2, <2>3 DEF BlobsSigned
  <2>5. RightAnswer'
    BY <2>1, <2>2 DEF RightAnswer, Right, Whole
  <2>6. WritersAgree'
    BY <2>2, <2>3 DEF WritersAgree
  <2>7. SignedAsGiven'
    <3>1. \E c \in Contents(f) \union {Entry(b.sig, b.answer) : b \in blobs[f]} :
            disk' = [disk EXCEPT ![f] = c]
      BY <1>15 DEF Close
    <3> QED
      BY <1>13, <2>1, <3>1
  <2>8. SameSettings' /\ AllWatched' /\ NoMixing'
    BY <2>1, <2>2, <2>3 DEF SameSettings, AllWatched, Live, NoMixing, Mixing
  <2> QED
    BY <2>4, <2>5, <2>6, <2>7, <2>8
<1> QED
  BY <1>1, <1>2, <1>3, <1>4, <1>5, <1>6, <1>7, <1>8, <1>9, <1>10, <1>11,
     <1>12, <1>14, <1>15 DEF Step

LEMMA OrderlyStays == [Next]_vars => orderly' = orderly
BY DEF Next, vars, Start, LateOption, Stop, CallPlain, Hit, Miss, Yield, Abandon,
       Returns, CheckDirectory, MakeDirectory, Open, Flush, Close, options

LEMMA SignedAlways == Spec => [](orderly => SignedInv)
<1>1. Init => (orderly => SignedInv)
  BY DEF Init, SignedInv, SameSettings, AllWatched, BlobsSigned, WritersAgree,
         SignedAsGiven, RightAnswer, Right, NoMixing, Mixing, Live, Absent
<1>2. TypeOK /\ WholeInv /\ (orderly => SignedInv) /\ [Next]_vars
        => (orderly => SignedInv)'
  BY SignedStep, OrderlyStays
<1> QED
  BY <1>1, <1>2, TypeCorrect, WholeAlways, PTL DEF Spec

(* When no plugin adds an option late and runs that overlap share their    *)
(* options, a cached call gives every run the answer for its own options:  *)
(* the promise of cache.py's Invalidator, whatever runs are killed and     *)
(* whenever.                                                               *)
THEOREM CacheGivesRightAnswers == Spec => []RightAnswer
<1>1. (orderly => SignedInv) => RightAnswer
  BY DEF SignedInv, RightAnswer
<1> QED
  BY <1>1, SignedAlways, PTL

(* And every stored answer is signed with the options it is the answer     *)
(* for, although imageinfo changes the profile while it works.             *)
THEOREM CacheSignsAsGiven == Spec => []SignedAsGiven
<1>1. (orderly => SignedInv) => SignedAsGiven
  BY DEF SignedInv, SignedAsGiven
<1> QED
  BY <1>1, SignedAlways, PTL

(* A file that loads and answers for the run's options is what the call    *)
(* gives: CacheDecorator.__call__ computes nothing again, since no empty   *)
(* answer is ever stored and a search has put its options back by then.    *)
THEOREM StoredIsUsed == Spec => CacheUsed
<1>1. ASSUME TypeOK, WholeInv, [Next]_vars,
             NEW p \in Runs, NEW f \in Paths,
             caching[p], Idle(p), disk[f] = Entry(given[p], Whole(f, given[p])),
             pc'[p] = "compute", path'[p] = f
      PROVE  FALSE
  <2>1. pc[p] \in {"ready", "served"} /\ pc \in [Runs -> PCs] /\ path \in [Runs -> Paths]
    BY <1>1 DEF Idle, TypeOK
  <2>2. pc'[p] # pc[p]
    BY <1>1, <2>1
  <2>3. PICK q \in Runs : Step(q)
    BY <1>1, <2>2 DEF Next, Step, vars
  <2>4. q = p
    <3>1. pc' = pc \/ \E c \in PCs : pc' = [pc EXCEPT ![q] = c]
      BY <2>3 DEF Step, Start, LateOption, Stop, CallPlain, Hit, Miss, Yield, Abandon,
                  Returns, CheckDirectory, MakeDirectory, Open, Flush, Close, Goto, PCs
    <3>. QED
      BY <2>1, <2>2, <3>1
  <2>5. PICK g \in Paths : Miss(p, g)
    BY <1>1, <2>1, <2>3, <2>4
    DEF Step, Start, LateOption, Stop, CallPlain, Hit, Yield, Abandon, Returns,
        CheckDirectory, MakeDirectory, Open, Flush, Close, Goto
  <2>6. g = f
    BY <1>1, <2>1, <2>5 DEF Miss
  <2>7. disk[f].state = "entry" /\ disk[f].sig = given[p] /\ disk[f].answer.items > 0
    <3>1. disk[f].state = "entry" /\ disk[f].sig = given[p] /\ disk[f].answer.by = given[p]
      BY <1>1 DEF Entry, Whole
    <3>2. given[p] # Mixed
      BY <1>1, ConstantsAssumption DEF TypeOK
    <3>3. Storable(f, disk[f].answer)
      BY <1>1, <3>1, <3>2 DEF WholeInv, FilesWhole
    <3>. QED
      BY <3>1, <3>3 DEF Storable
  <2>8. now[p] = given[p]
    BY <1>1, <2>1 DEF TypeOK
  <2>9. Accepts(p, disk[f])
    BY <2>7, <2>8 DEF Accepts
  <2>. QED
    BY <2>5, <2>6, <2>7, <2>9 DEF Miss
<1>2. TypeOK /\ WholeInv /\ [Next]_vars =>
        [\A p \in Runs, f \in Paths :
           /\ caching[p] /\ Idle(p)
           /\ disk[f] = Entry(given[p], Whole(f, given[p]))
           => ~(pc'[p] = "compute" /\ path'[p] = f)]_vars
  BY <1>1
<1>. QED
  BY <1>2, TypeCorrect, WholeAlways, PTL DEF Spec, CacheUsed
=============================================================================
