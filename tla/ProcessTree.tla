---------------------------- MODULE ProcessTree ----------------------------
(***************************************************************************)
(* The pstree plugin over the list of processes: calculate makes a         *)
(* dictionary of what the walk yields, and render_text takes tasks out of  *)
(* it while it draws them, from one root after the other.  A call of       *)
(* draw_branch goes through the values the dictionary had when the call    *)
(* began, in an order that depends on their hashes; the calls it makes     *)
(* take tasks out meanwhile.                                               *)
(*                                                                         *)
(* memory.pid and memory.ppid give each entry of a list its numbers.  The  *)
(* NoneObject of a torn entry is -1 as a number, and no number's equal.    *)
(***************************************************************************)
EXTENDS KernelWalks, Functions

VARIABLES
  stage,    \* "walk", "next", "climb", "draw", and at the end "done" or "raised"
  data,     \* pid -> task
  pid,      \* find_root: how far it has got
  climbed,  \* find_root: seen
  frames,   \* the calls of draw_branch: the parent, and its tasks still to come
  drawn     \* the rows of the table

tree == <<stage, data, pid, climbed, frames, drawn>>
vars == <<walk, tree>>

NoneNumber == -1
PidOf(task) == IF task \in memory.torn THEN NoneNumber ELSE memory.pid[task]
ParentOf(task) == IF task \in memory.torn THEN NoneNumber ELSE memory.ppid[task]
ChildrenIn(d, p) == {t \in Range(d) : t \notin memory.torn /\ ParentOf(t) = p}

TreeInit ==
  /\ stage = "walk"
  /\ data = <<>> /\ pid = 0 /\ climbed = {}
  /\ frames = <<>> /\ drawn = <<>>

(* A number that comes again keeps the task that came last.                *)
\* Slip: the number of the parent is taken for the task's.
TasksByParent(s) ==
  [p \in {ParentOf(s[i]) : i \in DOMAIN s} |->
     s[CHOOSE i \in DOMAIN s :
         ParentOf(s[i]) = p /\ \A j \in DOMAIN s : ParentOf(s[j]) = p => j <= i]]
Tasks(s) ==
  [p \in {PidOf(s[i]) : i \in DOMAIN s} |->
     s[CHOOSE i \in DOMAIN s : PidOf(s[i]) = p /\ \A j \in DOMAIN s : PidOf(s[j]) = p => j <= i]]

Calculate ==
  /\ stage = "walk" /\ memory.kind = "list" /\ over
  /\ data' = Tasks(out)
  /\ stage' = "next"
  /\ UNCHANGED <<walk, pid, climbed, frames, drawn>>

(* The first key, whichever that is.                                       *)
NextRoot ==
  /\ stage = "next"
  /\ \E first \in DOMAIN data :
       stage' = "climb" /\ pid' = first /\ climbed' = {}
  /\ UNCHANGED <<walk, data, frames, drawn>>

Done ==
  /\ stage = "next" /\ data = <<>>
  /\ stage' = "done"
  /\ UNCHANGED <<walk, data, pid, climbed, frames, drawn>>

\* Slip: find_root does not look whether it has been there.
HigherAlways == pid \in DOMAIN data
\* Slip: the root is the last that was found, not the number above it.
HigherStopsAtRoot ==
  pid \in DOMAIN data /\ pid \notin climbed /\ ParentOf(data[pid]) \in DOMAIN data
Higher == pid \in DOMAIN data /\ pid \notin climbed

Climb ==
  /\ stage = "climb" /\ Higher
  /\ climbed' = climbed \cup {pid}
  /\ pid' = ParentOf(data[pid])
  /\ UNCHANGED <<walk, stage, data, frames, drawn>>

\* Slip: what a call has still to draw is only what its caller had.
BranchOfCaller(d, p) ==
  [parent |-> p, rest |-> IF frames = <<>> THEN ChildrenIn(d, p)
                          ELSE ChildrenIn(d, p) \cap Last(frames).rest]
Branch(d, p) == [parent |-> p, rest |-> ChildrenIn(d, p)]

Root ==
  /\ stage = "climb" /\ ~Higher
  /\ stage' = "draw"
  /\ frames' = <<Branch(data, pid)>>
  /\ UNCHANGED <<walk, data, pid, climbed, drawn>>

(* The row is written before the task is looked up to be deleted.          *)
DrawTask ==
  /\ stage = "draw"
  /\ LET top == Last(frames)
     IN \E t \in top.rest :
          /\ drawn' = Append(drawn, [task |-> t, pad |-> Len(frames) - 1])
          /\ IF PidOf(t) \in DOMAIN data
             THEN LET left == [p \in DOMAIN data \ {PidOf(t)} |-> data[p]]
                  IN /\ data' = left
                     /\ frames' = Append(Front(frames), [top EXCEPT !.rest = @ \ {t}])
                                  \o <<Branch(left, PidOf(t))>>
                     /\ UNCHANGED stage
             ELSE stage' = "raised" /\ UNCHANGED <<data, frames>>
  /\ UNCHANGED <<walk, pid, climbed>>

Return ==
  /\ stage = "draw" /\ Last(frames).rest = {}
  /\ frames' = Front(frames)
  /\ stage' = IF Len(frames) = 1 THEN "next" ELSE "draw"
  /\ UNCHANGED <<walk, data, pid, climbed, drawn>>

Init == WalkInit /\ TreeInit
Next ==
  \/ WalkNext /\ UNCHANGED tree
  \/ Calculate \/ NextRoot \/ Done \/ Climb \/ Root \/ DrawTask \/ Return
Spec == Init /\ [][Next]_vars /\ WF_vars(Next)
-----------------------------------------------------------------------------
TypeOK ==
  /\ stage \in {"walk", "next", "climb", "draw", "done", "raised"}
  /\ memory.kind = "list" =>
       /\ ToSet(out) \subseteq DOMAIN memory.link
       /\ Range(data) \subseteq ToSet(out)
       /\ \A p \in DOMAIN data : PidOf(data[p]) = p
  /\ \A i \in DOMAIN frames : frames[i].rest \subseteq ToSet(out)
  /\ stage = "raised" \/ (stage = "draw" <=> frames # <<>>)

(* The numbers of the tasks that were found, and whether they are a forest *)
Found == Tasks(out)
RingFree ==
  \A S \in SUBSET DOMAIN Found : S # {} => \E p \in S : ParentOf(Found[p]) \notin S
Whole == NoneNumber \notin DOMAIN Found

(* Where no process is its own ancestor and none is torn, pstree draws     *)
(* every process of the list once (of those with one number, the last),    *)
(* right below its parent if that was found, at the margin otherwise,      *)
(* although draw_branch deletes from the dictionary whose values its       *)
(* callers are still going through; and it does not raise.                 *)
TreeDrawnOnce ==
  memory.kind = "list" /\ stage # "walk" /\ RingFree /\ Whole =>
    /\ stage # "raised"
    /\ \A i, j \in DOMAIN drawn : drawn[i].task = drawn[j].task => i = j
    /\ \A i \in DOMAIN drawn :
         LET parent == ParentOf(drawn[i].task)
             above == {j \in 1..(i - 1) : drawn[j].pad < drawn[i].pad}
         IN IF parent \in DOMAIN Found
            THEN /\ above # {}
                 /\ drawn[Max(above)] = [task |-> Found[parent], pad |-> drawn[i].pad - 1]
            ELSE drawn[i].pad = 0
    /\ stage = "done" => {drawn[i].task : i \in DOMAIN drawn} = Range(Found)

(* Unless an entry is torn, find_root comes to rest at the parent of       *)
(* something that is still to be drawn, in rings of ancestors as well and  *)
(* above a number that is gone by then: each turn of the loop takes a task *)
(* out.                                                                    *)
RootHasChildren ==
  stage = "climb" /\ ~Higher /\ Whole => ChildrenIn(data, pid) # {}

(* The walk ends, whatever the pointers; and so does pstree, whatever the  *)
(* numbers, if perhaps with a KeyError, unless an entry is torn: that one  *)
(* is never drawn, and never taken out.                                    *)
Ends ==
  /\ <>over
  /\ [](memory.kind = "list" /\ over /\ Whole => <>(stage \in {"done", "raised"}))
=============================================================================
