---------------------------- MODULE ResultCache ----------------------------
(***************************************************************************)
(* The result cache of cache.py, as successive and overlapping runs of     *)
(* vol.py --cache share it through the cache directory.                    *)
(*                                                                         *)
(* A run calls functions decorated with CacheDecorator.  A call looks its  *)
(* path up; on a miss the function is computed, and what it returned is    *)
(* pickled into one file per path, together with a signature of the        *)
(* options the run is working under (Invalidator.__getstate__).  A later   *)
(* call of any run takes the file for an answer when its signature agrees  *)
(* with that run's options (Invalidator.__setstate__).                     *)
(*                                                                         *)
(* Options are one value per run; the signature is that value, or NoSig    *)
(* when the running CACHE has no conditions registered.  An answer is      *)
(* named by the options it was computed under and by how many of its items *)
(* it holds.  A file is absent, torn (opened for writing, not loadable) or *)
(* an entry, which loads.  What loads may be a mixture of what several     *)
(* runs wrote into one file: a file is written in place, through a buffer  *)
(* and without a lock.                                                     *)
(***************************************************************************)
EXTENDS Naturals, FiniteSets

CONSTANTS
  Runs,          \* processes of vol.py; each may be started again
  Settings,      \* values of the options that invalidate the cache
  Paths,         \* cached functions, by the path they are stored under
  Kind,          \* Kind[f]: "list", "gen", "search" or "nested"
  Size,          \* Size[f][s]: items of the whole answer of f under s
  NoSig,         \* the signature of a run without conditions
  Mixed,         \* whose answer a mixture is
  MaxStarts      \* bound: runs started altogether

Kinds == {"list", "gen", "search", "nested"}

ASSUME ConstantsAssumption ==
  /\ \A f \in Paths : Kind[f] \in Kinds
  /\ Size \in [Paths -> [Settings -> Nat]]
  /\ {NoSig, Mixed} \cap Settings = {}
  /\ MaxStarts \in Nat

(* There is something to run and something to call. *)
ASSUME NotEmpty == Settings # {} /\ Paths # {}

VARIABLES
  disk,     \* disk[f]: the file of path f
  blobs,    \* blobs[f]: what the runs now writing f, and those killed
            \* meanwhile, have to write
  over,     \* over[f]: since f was last opened by a run alone, have others
            \* written over it, the "same" or something "different"?
  made,     \* does the cache directory exist?
  pc,       \* where a run is
  caching,  \* was the run given --cache?
  given,    \* the options the run was started with
  now,      \* the options as the run's configuration has them now
  watched,  \* are the run's options conditions of its CACHE?
  path,     \* the function being called
  items,    \* items computed so far
  served,   \* the answer the caller got
  starts,   \* runs started so far
  orderly   \* no plugin adds an option after the final parse, and runs that
            \* overlap have the same options; either, for a whole behaviour

vars == <<disk, blobs, over, made, pc, caching, given, now, watched, path, items,
          served, starts, orderly>>
store == <<disk, blobs, over, made>>
options == <<caching, given, watched, starts, orderly>>

Absent == [state |-> "absent"]
Torn   == [state |-> "torn"]
Signatures == Settings \union {NoSig}
Answer == [by : Settings \union {Mixed}, items : Nat]
Blob   == [sig : Signatures, answer : [by : Settings, items : Nat]]
Entry(sig, answer) == [state |-> "entry", sig |-> sig, answer |-> answer]

(* What f gives under the settings s, all of it. *)
Whole(f, s) == [by |-> s, items |-> Size[f][s]]

Live(p) == pc[p] # "off"
Idle(p) == pc[p] \in {"ready", "served"}

(* Other runs in the middle of writing f. *)
OtherWriters(p, f) == {q \in Runs \ {p} : pc[q] = "write" /\ path[q] = f}

(* Has f been written by runs that wrote different things over each other? *)
Mixing(f) == over[f] = "different"

AnySettings == CHOOSE s \in Settings : TRUE
AnyPath == CHOOSE f \in Paths : TRUE

Init ==
  /\ disk = [f \in Paths |-> Absent]
  /\ blobs = [f \in Paths |-> {}]
  /\ over = [f \in Paths |-> "no"]
  /\ made \in BOOLEAN
  /\ pc = [p \in Runs |-> "off"]
  /\ caching = [p \in Runs |-> FALSE]
  /\ given = [p \in Runs |-> AnySettings]
  /\ now = [p \in Runs |-> AnySettings]
  /\ watched = [p \in Runs |-> TRUE]
  /\ path = [p \in Runs |-> AnyPath]
  /\ items = [p \in Runs |-> 0]
  /\ served = [p \in Runs |-> [by |-> AnySettings, items |-> 0]]
  /\ starts = 0
  /\ orderly \in BOOLEAN
-----------------------------------------------------------------------------
(***************************************************************************)
(* The options of a run.                                                   *)
(***************************************************************************)

(* main: the final parse_options gives the tree that enable_caching made   *)
(* its conditions.                                                         *)
Start(p, s, c) ==
  /\ pc[p] = "off" /\ starts < MaxStarts
  /\ orderly => \A q \in Runs : Live(q) => given[q] = s
  /\ pc' = [pc EXCEPT ![p] = "ready"]
  /\ caching' = [caching EXCEPT ![p] = c]
  /\ given' = [given EXCEPT ![p] = s]
  /\ now' = [now EXCEPT ![p] = s]
  /\ watched' = [watched EXCEPT ![p] = TRUE]
  /\ starts' = starts + 1
  /\ UNCHANGED <<store, path, items, served, orderly>>

(* A plugin made by another plugin adds or removes an option in __init__:  *)
(* the command line is parsed again, enable_caching runs again, and its    *)
(* new CacheTree has an Invalidator without conditions.                    *)
LateOption(p) ==
  /\ ~orderly /\ Idle(p) /\ caching[p] /\ watched[p]
  /\ watched' = [watched EXCEPT ![p] = FALSE]
  /\ UNCHANGED <<store, pc, caching, given, now, path, items, served, starts,
                 orderly>>

(* A run ends, fails or is killed, wherever it is. *)
Stop(p) ==
  /\ Live(p)
  /\ pc' = [pc EXCEPT ![p] = "off"]
  /\ caching' = [caching EXCEPT ![p] = FALSE]
  /\ given' = [given EXCEPT ![p] = AnySettings]
  /\ now' = [now EXCEPT ![p] = AnySettings]
  /\ watched' = [watched EXCEPT ![p] = TRUE]
  /\ path' = [path EXCEPT ![p] = AnyPath]
  /\ items' = [items EXCEPT ![p] = 0]
  /\ served' = [served EXCEPT ![p] = [by |-> AnySettings, items |-> 0]]
  /\ UNCHANGED <<store, starts, orderly>>
-----------------------------------------------------------------------------
(***************************************************************************)
(* A call of a decorated function.                                         *)
(***************************************************************************)

(* Invalidator.__getstate__ : the signature that goes into a pickle. *)
Signature(p) == IF watched[p] THEN now[p] ELSE NoSig

(* CacheNode.__getitem__ with Invalidator.__setstate__ : a file that cannot *)
(* be read, or whose signature disagrees in a key both sides have, is a    *)
(* miss.                                                                   *)
\* Slip: a key that one side lacks counts as a disagreement.
AcceptsAllKeys(p, e) == e.state = "entry" /\ e.sig = Signature(p)
\* Slip: a disagreeing signature is only logged.
AcceptsLogged(p, e) == e.state = "entry"
Accepts(p, e) ==
  /\ e.state = "entry"
  /\ watched[p] /\ e.sig # NoSig => e.sig = now[p]

(* CacheDecorator.__call__ without --cache. *)
CallPlain(p, f) ==
  /\ Idle(p) /\ ~caching[p]
  /\ pc' = [pc EXCEPT ![p] = "served"]
  /\ path' = [path EXCEPT ![p] = f]
  /\ served' = [served EXCEPT ![p] = Whole(f, now[p])]
  /\ UNCHANGED <<store, options, now, items>>

Hit(p, f) ==
  /\ Idle(p) /\ caching[p]
  /\ Accepts(p, disk[f])
  /\ disk[f].answer.items > 0
  /\ pc' = [pc EXCEPT ![p] = "served"]
  /\ path' = [path EXCEPT ![p] = f]
  /\ served' = [served EXCEPT ![p] = disk[f].answer]
  /\ UNCHANGED <<store, options, now, items>>

Miss(p, f) ==
  /\ Idle(p) /\ caching[p]
  /\ Accepts(p, disk[f]) => disk[f].answer.items = 0
  /\ pc' = [pc EXCEPT ![p] = "compute"]
  /\ path' = [path EXCEPT ![p] = f]
  /\ items' = [items EXCEPT ![p] = 0]
  /\ UNCHANGED <<store, options, now, served>>

(* An item of a generator goes to the caller at once.  A search changes    *)
(* the run's own options while it works (imageinfo tries profiles).        *)
Yield(p) ==
  /\ pc[p] = "compute" /\ Kind[path[p]] \in {"gen", "search"}
  /\ items[p] < Size[path[p]][given[p]]
  /\ items' = [items EXCEPT ![p] = @ + 1]
  /\ IF Kind[path[p]] = "search"
     THEN \E s \in Settings : now' = [now EXCEPT ![p] = s]
     ELSE now' = now
  /\ UNCHANGED <<store, options, pc, path, served>>

(* The caller drops the generator: nothing is stored.  Only the command    *)
(* itself reads a search, so the run ends with it.                         *)
Abandon(p) ==
  /\ pc[p] = "compute" /\ Kind[path[p]] = "gen"
  /\ pc' = [pc EXCEPT ![p] = "ready"]
  /\ items' = [items EXCEPT ![p] = 0]
  /\ UNCHANGED <<store, options, now, path, served>>

(* The function returns, or the generator is exhausted.  set_payload and   *)
(* CacheNode.dump: an empty answer, or one that holds a generator or will  *)
(* not pickle, is not stored.                                              *)
\* Slip: the search does not put the option back.
ReturnsDirty(p) ==
  /\ pc[p] = "compute"
  /\ Kind[path[p]] \in {"gen", "search"} => items[p] = Size[path[p]][given[p]]
  /\ LET n == Size[path[p]][given[p]]
     IN /\ items' = [items EXCEPT ![p] = n]
        /\ IF n > 0 /\ Kind[path[p]] # "nested"
           THEN pc' = [pc EXCEPT ![p] = "dump"] /\ served' = served
           ELSE /\ pc' = [pc EXCEPT ![p] = "served"]
                /\ served' = [served EXCEPT ![p] = [by |-> given[p], items |-> n]]
  /\ UNCHANGED <<store, options, now, path>>
\* Slip: a generator is stored when it is dropped as well.
ReturnsPart(p) ==
  /\ pc[p] = "compute"
  /\ LET n == IF Kind[path[p]] \in {"gen", "search"} THEN items[p]
              ELSE Size[path[p]][given[p]]
     IN /\ items' = [items EXCEPT ![p] = n]
        /\ IF n > 0 /\ Kind[path[p]] # "nested"
           THEN pc' = [pc EXCEPT ![p] = "dump"] /\ served' = served
           ELSE /\ pc' = [pc EXCEPT ![p] = "served"]
                /\ served' = [served EXCEPT ![p] = [by |-> given[p], items |-> n]]
  /\ now' = [now EXCEPT ![p] = given[p]]
  /\ UNCHANGED <<store, options, path>>
Returns(p) ==
  /\ pc[p] = "compute"
  /\ Kind[path[p]] \in {"gen", "search"} => items[p] = Size[path[p]][given[p]]
  /\ LET n == Size[path[p]][given[p]]
     IN /\ items' = [items EXCEPT ![p] = n]
        /\ IF n > 0 /\ Kind[path[p]] # "nested"
           THEN pc' = [pc EXCEPT ![p] = "dump"] /\ served' = served
           ELSE /\ pc' = [pc EXCEPT ![p] = "served"]
                /\ served' = [served EXCEPT ![p] = [by |-> given[p], items |-> n]]
  /\ now' = [now EXCEPT ![p] = given[p]]
  /\ UNCHANGED <<store, options, path>>
-----------------------------------------------------------------------------
(***************************************************************************)
(* CacheStorage.dump.                                                      *)
(***************************************************************************)
Goto(p, from, to) == pc[p] = from /\ pc' = [pc EXCEPT ![p] = to]

CheckDirectory(p) ==
  /\ Goto(p, "dump", IF made THEN "open" ELSE "mkdir")
  /\ UNCHANGED <<store, options, now, path, items, served>>

(* os.makedirs fails when another run has made the directory meanwhile;    *)
(* nothing catches it and the run ends (Stop).                             *)
MakeDirectory(p) ==
  /\ ~made
  /\ Goto(p, "mkdir", "open")
  /\ made' = TRUE
  /\ UNCHANGED <<disk, blobs, over, options, now, path, items, served>>

(* open(filename, 'w') empties the file, also when another run is in the   *)
(* middle of writing it; that run goes on where it was.                    *)
Open(p) ==
  LET f == path[p]
      mine == [sig |-> Signature(p), answer |-> [by |-> given[p], items |-> items[p]]]
  IN /\ Goto(p, "open", "write")
     /\ disk' = [disk EXCEPT ![f] = Torn]
     /\ IF OtherWriters(p, f) = {}
        THEN blobs' = [blobs EXCEPT ![f] = {mine}] /\ over' = [over EXCEPT ![f] = "no"]
        ELSE /\ blobs' = [blobs EXCEPT ![f] = @ \union {mine}]
             /\ over' = [over EXCEPT ![f] =
                  IF @ # "different" /\ blobs[f] \subseteq {mine} THEN "same" ELSE "different"]
     /\ UNCHANGED <<made, options, now, path, items, served>>

(* What a file holds that several runs have written: at each place what    *)
(* the one or the other wrote there, or a hole.  It does not load, or as   *)
(* what one of them wrote; or, when they wrote different things, as        *)
(* anything: any signature, an answer of theirs or a mixture (one without  *)
(* items is as good as torn).  A hole does not load, since no answer has a *)
(* string of a whole block.                                                *)
Contents(f) ==
  LET theirs == {b.answer : b \in blobs[f]}
      mixture == [by |-> Mixed, items |-> 1]
  IN {Torn} \union {Entry(b.sig, b.answer) : b \in blobs[f]}
     \union IF Mixing(f)
            THEN {Entry(s, a) : s \in Signatures, a \in theirs \union {mixture}}
            ELSE {}

(* Some of what p writes reaches a file that it shares.  The others may    *)
(* have closed it: then an entry is written over.                          *)
Flush(p) ==
  LET f == path[p]
  IN /\ pc[p] = "write" /\ over[f] # "no"
     /\ \E c \in Contents(f) : disk' = [disk EXCEPT ![f] = c]
     /\ UNCHANGED <<blobs, over, made, pc, options, now, path, items, served>>

(* The last byte is out.                                                   *)
Close(p) ==
  LET f == path[p]
      mine == [by |-> given[p], items |-> items[p]]
      last == OtherWriters(p, f) = {}
  IN /\ Goto(p, "write", "served")
     /\ \E c \in IF over[f] = "no" THEN {Entry(b.sig, b.answer) : b \in blobs[f]}
                 ELSE Contents(f) :
          disk' = [disk EXCEPT ![f] = c]
     /\ blobs' = [blobs EXCEPT ![f] = IF last THEN {} ELSE @]
     /\ over' = [over EXCEPT ![f] = IF last /\ @ = "same" THEN "no" ELSE @]
     /\ served' = [served EXCEPT ![p] = mine]
     /\ UNCHANGED <<made, options, now, path, items>>

Next == \E p \in Runs :
  \/ \E s \in Settings, c \in BOOLEAN : Start(p, s, c)
  \/ LateOption(p) \/ Stop(p)
  \/ \E f \in Paths : CallPlain(p, f) \/ Hit(p, f) \/ Miss(p, f)
  \/ Yield(p) \/ Abandon(p) \/ Returns(p)
  \/ CheckDirectory(p) \/ MakeDirectory(p) \/ Open(p) \/ Flush(p) \/ Close(p)

Spec == Init /\ [][Next]_vars
-----------------------------------------------------------------------------
PCs == {"off", "ready", "compute", "dump", "mkdir", "open", "write", "served"}
Files == {Absent, Torn} \union
  [state : {"entry"}, sig : Signatures, answer : Answer]

(* Every variable keeps its type, and every live run works under the       *)
(* options it was started with except while a search is trying others.     *)
TypeOK ==
  /\ disk \in [Paths -> Files]
  /\ blobs \in [Paths -> SUBSET Blob]
  /\ over \in [Paths -> {"no", "same", "different"}] /\ made \in BOOLEAN
  /\ pc \in [Runs -> PCs]
  /\ caching \in [Runs -> BOOLEAN]
  /\ given \in [Runs -> Settings]
  /\ now \in [Runs -> Settings]
  /\ watched \in [Runs -> BOOLEAN]
  /\ path \in [Runs -> Paths]
  /\ items \in [Runs -> Nat]
  /\ served \in [Runs -> Answer]
  /\ starts \in 0..MaxStarts /\ orderly \in BOOLEAN
  /\ \A p \in Runs : now[p] # given[p] =>
       pc[p] = "compute" /\ Kind[path[p]] = "search"

(* A call gives the run that made it the answer for its own options.       *)
Right(p) == pc[p] = "served" => served[p] = Whole(path[p], given[p])

(* While things are orderly, whatever the cache did, a call gives the run  *)
(* that made it the answer for its own options, and all of it: no answer   *)
(* of other options, none that an abandoned generator or a killed run left *)
(* in part ("If the signature changes, the cache is invalidated",          *)
(* cache.py:347-348).                                                      *)
RightAnswer == orderly => \A p \in Runs : Right(p)

(* A whole answer of f.                                                    *)
IsWhole(f, a) == a.by \in Settings /\ a = Whole(f, a.by)

(* A file that loads holds a whole, non-empty answer of its own path (the  *)
(* truth test in CacheNode.dump and the exhaustion rule of generate), and  *)
(* never one that cannot be pickled; unless runs have written different    *)
(* things into it over each other, and nobody has opened it alone since.   *)
EntriesWhole ==
  \A f \in Paths : disk[f].state = "entry" /\ ~Mixing(f) =>
    IsWhole(f, disk[f].answer) /\ disk[f].answer.items > 0 /\ Kind[f] # "nested"

Delivered(p) == pc'[p] = "served" /\ ~UNCHANGED <<pc[p], path[p], served[p]>>

(* What a call delivers is some whole answer of the function called, also  *)
(* where it may be that of other options: computed always, and found,      *)
(* except in a file into which runs have written different things over     *)
(* each other (CacheStorage.dump has no lock), until somebody opens it     *)
(* alone.                                                                  *)
AnswerWhole ==
  [][\A p \in Runs : Delivered(p) =>
       \/ IsWhole(path'[p], served'[p])
       \/ Idle(p) /\ caching[p] /\ Mixing(path'[p])]_vars

(* An answer is signed with the options of the command line, even when the *)
(* function changed the configuration on its way (imageinfo.py:112).       *)
SignedAsGiven == orderly =>
  \A f \in Paths : disk[f].state = "entry" => disk[f].sig = disk[f].answer.by

(* No function is computed again while its answer for these options is     *)
(* stored and loadable.                                                    *)
CacheUsed ==
  [][\A p \in Runs, f \in Paths :
       /\ caching[p] /\ Idle(p)
       /\ disk[f] = Entry(given[p], Whole(f, given[p]))
       => ~(pc'[p] = "compute" /\ path'[p] = f)]_vars
=============================================================================
