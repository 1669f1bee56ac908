---------------------------- MODULE KernelWalks ----------------------------
(***************************************************************************)
(* The generators that follow pointers through kernel memory: linked lists *)
(* (list_of_type, for Windows and Linux alike), the tree of memory regions *)
(* of a process (_MMVAD_SHORT.traverse) and its handle table (handles).    *)
(* Memory may be torn or forged, so that any pointer may lead anywhere.    *)
(* Recursive generators are a stack of frames, the topmost of which is at  *)
(* work.                                                                   *)
(*                                                                         *)
(* A memory is one of                                                      *)
(*   list     head, link: the Flinks (or Blinks) that can be read, torn:   *)
(*            entries whose structure begins on a page that is not there   *)
(*            (the head is no entry)                                       *)
(*   vad      root, left and right: the children of nodes that are VADs    *)
(*   handles  levels, top and table: pages of pointers to pages, or of     *)
(*            objects, whole if they are there                             *)
(***************************************************************************)
EXTENDS Integers, Sequences, FiniteSets, SequencesExt

CONSTANTS
  Memories,   \* the memories
  Inner,      \* addresses in a page of a handle table
  Leaf        \* entries in a page of a handle table

ASSUME WalkAssumption ==
  /\ {Inner, Leaf} \subseteq Nat \ {0}
  /\ \A m \in Memories :
       \/ /\ m.kind = "list"
          /\ m.head \in DOMAIN m.link /\ m.torn \subseteq DOMAIN m.link \ {m.head}
       \/ /\ m.kind = "vad"
          /\ m.root \in DOMAIN m.left /\ DOMAIN m.left = DOMAIN m.right
       \/ /\ m.kind = "handles"
          /\ m.levels \in 0..7
          /\ \A t \in DOMAIN m.table : 1..Inner \cup 1..Leaf \subseteq DOMAIN m.table[t]

VARIABLES
  memory,  \* the memory
  at,      \* nxt, the next entry of the list
  seen,    \* seen, visited: what the walk has met
  stack,   \* the generators at work
  out,     \* what has been yielded
  over     \* has the walk ended?

walk == <<memory, at, seen, stack, out, over>>

Kind(k) == memory.kind = k /\ ~over
Top == Last(stack)

BeginList(m) ==
  /\ at = m.link[m.head]
  /\ seen = {m.head}
  /\ stack = <<>> /\ out = <<>>

(* The root is yielded before anything, and nobody adds it to visited.     *)
BeginVad(m) ==
  /\ at = m.root
  /\ seen = {}
  /\ stack = <<[node |-> m.root, side |-> "left"]>>
  /\ out = <<m.root>>

BeginHandles(m) ==
  /\ at = m.top
  /\ seen = {}
  /\ stack = <<[table |-> m.top, level |-> m.levels, index |-> 0, depth |-> 0]>>
  /\ out = <<>>

WalkInit ==
  /\ memory \in Memories
  /\ over = FALSE
  /\ CASE memory.kind = "list" -> BeginList(memory)
       [] memory.kind = "vad" -> BeginVad(memory)
       [] memory.kind = "handles" -> BeginHandles(memory)
-----------------------------------------------------------------------------
(* Lists.  The entry can be read; the structure around it may begin on a   *)
(* page that is not there, and then a NoneObject is yielded.               *)
Met == at \in seen

ListItem ==
  /\ Kind("list")
  /\ at \in DOMAIN memory.link /\ ~Met
  /\ seen' = seen \cup {at}
  /\ out' = Append(out, at)
  /\ IF at \in memory.torn
     THEN over' = TRUE /\ UNCHANGED at
     ELSE at' = memory.link[at] /\ UNCHANGED over
  /\ UNCHANGED <<memory, stack>>

ListEnd ==
  /\ Kind("list")
  /\ at \notin DOMAIN memory.link \/ Met
  /\ over' = TRUE
  /\ UNCHANGED <<memory, at, seen, stack, out>>

(* VADs.  A child that is yielded is added to visited by all the loops it  *)
(* passes on its way out, before the child's own loops begin.              *)
Child == IF Top.side = "left" THEN memory.left[Top.node] ELSE memory.right[Top.node]
Turned == [Top EXCEPT !.side = IF Top.side = "left" THEN "right" ELSE "over"]

\* Slip: no node is known to have been visited.
FreshAll(c) == c \in DOMAIN memory.left
Fresh(c) == c \notin seen

VadChild ==
  /\ Kind("vad") /\ stack # <<>> /\ Top.side # "over"
  /\ IF Child \in DOMAIN memory.left /\ Fresh(Child)
     THEN /\ stack' = Append(Front(stack), Turned) \o <<[node |-> Child, side |-> "left"]>>
          /\ seen' = seen \cup {Child}
          /\ out' = Append(out, Child)
     ELSE /\ stack' = Append(Front(stack), Turned)
          /\ UNCHANGED <<seen, out>>
  /\ UNCHANGED <<memory, at, over>>

(* Handles.  A page of pointers hands its depth to the pages below and     *)
(* counts it up; a page that is not there has no entries.                  *)
Count == IF Top.level > 0 THEN Inner ELSE Leaf
Entry == memory.table[Top.table][Top.index + 1]
Readable == Top.table \in DOMAIN memory.table

NextDepth == Top.depth + 1

(* The value of a handle, in units of 4.                                   *)
HandleValue == Top.index + Top.depth * Leaf

HandlePage ==
  /\ Kind("handles") /\ stack # <<>> /\ Readable
  /\ Top.level > 0 /\ Top.index < Count
  /\ stack' = Append(Front(stack), [Top EXCEPT !.index = @ + 1, !.depth = NextDepth])
              \o <<[table |-> Entry, level |-> Top.level - 1, index |-> 0, depth |-> Top.depth]>>
  /\ UNCHANGED <<memory, at, seen, out, over>>

HandleEntry ==
  /\ Kind("handles") /\ stack # <<>> /\ Readable
  /\ Top.level = 0 /\ Top.index < Count
  /\ stack' = Append(Front(stack), [Top EXCEPT !.index = @ + 1])
  /\ out' = IF Entry = 0 THEN out
            ELSE Append(out, [object |-> Entry, handle |-> HandleValue])
  /\ UNCHANGED <<memory, at, seen, over>>

(* A generator that has nothing left.                                      *)
Exhausted ==
  CASE memory.kind = "vad" -> Top.side = "over"
    [] memory.kind = "handles" -> ~Readable \/ Top.index = Count
    [] OTHER -> FALSE

Back ==
  /\ ~over /\ stack # <<>> /\ Exhausted
  /\ stack' = Front(stack)
  /\ over' = (Len(stack) = 1)
  /\ UNCHANGED <<memory, at, seen, out>>

WalkNext == ListItem \/ ListEnd \/ VadChild \/ HandlePage \/ HandleEntry \/ Back
-----------------------------------------------------------------------------
(* What the walk is meant to find.  From an entry one gets to those that   *)
(* its pointers lead to.                                                   *)
Steps(n) ==
  (IF memory.kind = "list"
   THEN IF n \in memory.torn THEN {} ELSE {memory.link[n]} \cap DOMAIN memory.link
   ELSE {memory.left[n], memory.right[n]} \cap DOMAIN memory.left)
Start == IF memory.kind = "list" THEN memory.head ELSE memory.root
Nodes == IF memory.kind = "list" THEN DOMAIN memory.link ELSE DOMAIN memory.left

Reached ==
  {n \in Nodes :
     \A S \in SUBSET Nodes :
       Steps(Start) \subseteq S /\ (\A m \in S : Steps(m) \subseteq S) => n \in S}

(* A way down a handle table: a page of each level, the top one first, and *)
(* the entry of each that leads to the next.                               *)
Ways ==
  {w \in [page : [0..memory.levels -> DOMAIN memory.table],
           entry : [1..memory.levels -> 0..(Inner - 1)]] :
     /\ w.page[0] = memory.top
     /\ \A k \in 1..memory.levels :
          w.page[k] = memory.table[w.page[k - 1]][w.entry[k] + 1]}

(* The handle at place i of the page where a way ends.  Its value is right *)
(* for tables of one or two levels.                                        *)
HandleAt(w, i) ==
  [object |-> memory.table[w.page[memory.levels]][i + 1],
   handle |-> i + IF memory.levels = 0 THEN 0 ELSE w.entry[memory.levels] * Leaf]
Handles == {h \in {HandleAt(w, i) : w \in Ways, i \in 0..(Leaf - 1)} : h.object # 0}

(* But the root of the VADs comes again, once, when a node below leads     *)
(* back to it.                                                             *)
ListedOnce ==
  IF memory.kind = "vad"
  THEN IsInjective(Tail(out)) /\ (memory.root \in ToSet(Tail(out)) => memory.root \in Reached)
  ELSE memory.kind = "list" => IsInjective(out)

(* A walk lists nothing twice, but for that root, and when it has ended it *)
(* has listed all that can be got to and nothing else, whichever pointers  *)
(* lead back.  The handles come with their values in ascending order, if   *)
(* the table has no more than two levels; beyond that, only the objects    *)
(* are right.                                                              *)
AllListed ==
  /\ ListedOnce
  /\ over =>
       CASE memory.kind = "list" -> ToSet(out) = Reached \ {memory.head}
         [] memory.kind = "vad" -> ToSet(out) = Reached \cup {memory.root}
         [] memory.kind = "handles" ->
              IF memory.levels <= 1
              THEN /\ ToSet(out) = Handles
                   /\ \A i, j \in DOMAIN out : i < j => out[i].handle < out[j].handle
              ELSE {h.object : h \in ToSet(out)} = {h.object : h \in Handles}
=============================================================================
