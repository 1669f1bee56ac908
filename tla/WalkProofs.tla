----------------------------- MODULE WalkProofs -----------------------------
(***************************************************************************)
(* Proofs about KernelWalks and ProcessTree, for every memory: lists,      *)
(* trees and tables of any size, whose pointers lead anywhere.             *)
(*                                                                         *)
(* AllListed speaks of the end of a walk.  ListInv and VadInv say on the   *)
(* way that what has been listed can be got to, and that what can be got   *)
(* to from there has been listed or is still ahead: the next entry of the  *)
(* list, or a child whose parent's frame has not come to it.  At the end   *)
(* nothing is ahead, so that what is listed is closed under Steps, and     *)
(* Reached is the least such set.  HandlesInv has a frame for each page on *)
(* the way to the next entry (Descending), whose depth gives the handle    *)
(* its value in tables of one or two levels (Deep, Ascending); all that is *)
(* listed is at the end of a way (Sound), and the end of each way is       *)
(* listed or behind the way that the frames are on (Complete).             *)
(*                                                                         *)
(* TreeInv keeps data to what was found.  DrawnInv, where no process is    *)
(* its own ancestor, adds what makes deleting under the iteration safe:    *)
(* what a call has still to draw is what it would find if it began now,    *)
(* because whoever else could take a child out of data would have drawn    *)
(* its parent, and no two calls draw the children of one (Branching).      *)
(* OpenRow is the row that the next one will stand below.  RootInv is of   *)
(* any numbers: a climb is above a task that is still in data.             *)
(***************************************************************************)
EXTENDS ProcessTree, SequenceTheorems, WellFoundedInduction, TLAPS

LEMMA Sizes == Inner \in Nat \ {0} /\ Leaf \in Nat \ {0}
BY WalkAssumption

LEMMA Memory ==
  ASSUME memory \in Memories
  PROVE  \/ /\ memory.kind = "list"
            /\ memory.head \in DOMAIN memory.link
            /\ memory.torn \subseteq DOMAIN memory.link \ {memory.head}
         \/ /\ memory.kind = "vad"
            /\ memory.root \in DOMAIN memory.left /\ DOMAIN memory.left = DOMAIN memory.right
         \/ /\ memory.kind = "handles"
            /\ memory.levels \in 0..7
            /\ \A t \in DOMAIN memory.table :
                 1..Inner \cup 1..Leaf \subseteq DOMAIN memory.table[t]
BY WalkAssumption
-----------------------------------------------------------------------------
(* Sequences, as the walks use them.                                       *)
LEMMA Appended ==
  ASSUME NEW S, NEW s \in Seq(S), NEW e \in S
  PROVE  /\ Append(s, e) \in Seq(S)
         /\ Len(Append(s, e)) = Len(s) + 1
         /\ Append(s, e)[Len(s) + 1] = e
         /\ \A i \in 1..Len(s) : Append(s, e)[i] = s[i]
         /\ ToSet(Append(s, e)) = ToSet(s) \cup {e}
<1>1. /\ Append(s, e) \in Seq(S)
      /\ Len(Append(s, e)) = Len(s) + 1
      /\ Append(s, e)[Len(s) + 1] = e
      /\ \A i \in 1..Len(s) : Append(s, e)[i] = s[i]
  OBVIOUS
<1>2. DOMAIN s = 1..Len(s) /\ DOMAIN Append(s, e) = 1..(Len(s) + 1)
  OBVIOUS
<1>3. ToSet(Append(s, e)) = ToSet(s) \cup {e}
  <2>1. ASSUME NEW x \in ToSet(Append(s, e)) PROVE x \in ToSet(s) \cup {e}
    BY <1>1, <1>2, <2>1 DEF ToSet
  <2>2. ASSUME NEW x \in ToSet(s) PROVE x \in ToSet(Append(s, e))
    BY <1>1, <1>2, <2>2 DEF ToSet
  <2>3. e \in ToSet(Append(s, e))
    BY <1>1, <1>2 DEF ToSet
  <2> QED BY <2>1, <2>2, <2>3
<1> QED BY <1>1, <1>3

(* The first element of a sequence is that of what is appended to it, too. *)
LEMMA AppendedBehind ==
  ASSUME NEW S, NEW s \in Seq(S), NEW e \in S, s # <<>>
  PROVE  /\ Append(s, e)[1] = s[1]
         /\ Tail(Append(s, e)) = Append(Tail(s), e)
         /\ Tail(s) \in Seq(S)
<1>1. Len(s) \in Nat /\ Len(s) >= 1
  OBVIOUS
<1>2. Append(s, e)[1] = s[1] /\ Tail(s) \in Seq(S) /\ Len(Tail(s)) = Len(s) - 1
  BY <1>1
<1>3. Tail(Append(s, e)) \in Seq(S) /\ Append(Tail(s), e) \in Seq(S)
  BY <1>2
<1>4. Len(Tail(Append(s, e))) = Len(s) /\ Len(Append(Tail(s), e)) = Len(s)
  BY <1>1, <1>2
<1>5. ASSUME NEW i \in 1..Len(s)
      PROVE  Tail(Append(s, e))[i] = Append(Tail(s), e)[i]
  <2>1. Tail(Append(s, e))[i] = Append(s, e)[i + 1]
    BY <1>1
  <2>2. CASE i = Len(s)
    BY <1>1, <1>2, <2>1, <2>2
  <2>3. CASE i < Len(s)
    <3>1. Append(s, e)[i + 1] = s[i + 1] /\ Tail(s)[i] = s[i + 1]
      BY <1>1, <2>3
    <3>2. Append(Tail(s), e)[i] = Tail(s)[i]
      <4> DEFINE t == Tail(s)
      <4>1. t \in Seq(S) /\ i \in 1..Len(t)
        BY <1>1, <1>2, <2>3
      <4> HIDE DEF t
      <4>2. Append(t, e)[i] = t[i]
        BY <4>1
      <4> QED BY <4>2 DEF t
    <3> QED BY <2>1, <3>1, <3>2
  <2> QED BY <1>1, <2>2, <2>3
<1>6. Tail(Append(s, e)) = Append(Tail(s), e)
  BY <1>3, <1>4, <1>5, SeqEqual
<1> QED BY <1>2, <1>6

LEMMA StillInjective ==
  ASSUME NEW S, NEW s \in Seq(S), NEW e \in S, IsInjective(s), e \notin ToSet(s)
  PROVE  IsInjective(Append(s, e))
<1>1. DOMAIN s = 1..Len(s) /\ DOMAIN Append(s, e) = 1..(Len(s) + 1) /\ Len(s) \in Nat
  OBVIOUS
<1>2. \A i \in 1..Len(s) : Append(s, e)[i] = s[i] /\ s[i] # e
  BY <1>1 DEF ToSet
<1>3. Append(s, e)[Len(s) + 1] = e
  OBVIOUS
<1>4. \A i, j \in 1..Len(s) : s[i] = s[j] => i = j
  BY <1>1 DEF IsInjective
<1>5. \A i, j \in 1..(Len(s) + 1) : Append(s, e)[i] = Append(s, e)[j] => i = j
  BY <1>1, <1>2, <1>3, <1>4
<1> QED BY <1>1, <1>5 DEF IsInjective

(* The topmost frame, and the others.                                      *)
LEMMA Frames ==
  ASSUME NEW S, NEW s \in Seq(S), s # <<>>
  PROVE  /\ Len(s) \in Nat \ {0} /\ Last(s) = s[Len(s)] /\ Last(s) \in S
         /\ Front(s) \in Seq(S) /\ Len(Front(s)) = Len(s) - 1
         /\ \A k \in 1..(Len(s) - 1) : Front(s)[k] = s[k]
<1>1. Len(s) \in Nat \ {0} /\ DOMAIN s = 1..Len(s)
  OBVIOUS
<1>2. Last(s) = s[Len(s)] /\ Last(s) \in S
  BY <1>1 DEF Last
<1>3. /\ Front(s) \in Seq(S) /\ Len(Front(s)) = Len(s) - 1
      /\ \A k \in 1..(Len(s) - 1) : Front(s)[k] = s[k]
  BY <1>1 DEF Front
<1> QED BY <1>1, <1>2, <1>3

(* The frames after the topmost has moved on, ...                          *)
AfterTurn(t, S, s, e) ==
  /\ t \in Seq(S) /\ Len(t) = Len(s) /\ Len(s) \in Nat \ {0}
  /\ \A k \in 1..(Len(s) - 1) : t[k] = s[k]
  /\ t[Len(s)] = e

LEMMA Turns ==
  ASSUME NEW S, NEW s \in Seq(S), s # <<>>, NEW e \in S
  PROVE  AfterTurn(Append(Front(s), e), S, s, e)
<1> DEFINE g == Front(s)
<1>1. g \in Seq(S) /\ Len(g) = Len(s) - 1 /\ \A k \in 1..(Len(s) - 1) : g[k] = s[k]
  BY Frames
<1> HIDE DEF g
<1>2. /\ Append(g, e) \in Seq(S)
      /\ Len(Append(g, e)) = Len(s)
      /\ \A k \in 1..(Len(s) - 1) : Append(g, e)[k] = s[k]
      /\ Append(g, e)[Len(s)] = e
  <2>1. /\ Append(g, e) \in Seq(S)
        /\ Len(Append(g, e)) = Len(g) + 1
        /\ Append(g, e)[Len(g) + 1] = e
        /\ \A k \in 1..Len(g) : Append(g, e)[k] = g[k]
    BY <1>1, Appended
  <2> QED BY Frames, <1>1, <2>1
<1> QED BY Frames, <1>2 DEF g, AfterTurn

(* ... after it has called another, ...                                    *)
AfterCall(t, S, s, e, f) ==
  /\ t \in Seq(S) /\ Len(t) = Len(s) + 1 /\ Len(s) \in Nat \ {0}
  /\ \A k \in 1..(Len(s) - 1) : t[k] = s[k]
  /\ t[Len(s)] = e /\ t[Len(s) + 1] = f

LEMMA Calls ==
  ASSUME NEW S, NEW s \in Seq(S), s # <<>>, NEW e \in S, NEW f \in S
  PROVE  AfterCall(Append(Front(s), e) \o <<f>>, S, s, e, f)
<1> DEFINE a == Append(Front(s), e)
<1>1. /\ a \in Seq(S) /\ Len(a) = Len(s) /\ a[Len(s)] = e
      /\ \A k \in 1..(Len(s) - 1) : a[k] = s[k]
  BY Turns DEF AfterTurn
<1> HIDE DEF a
<1>2. <<f>> \in Seq(S) /\ Len(<<f>>) = 1 /\ <<f>>[1] = f
  OBVIOUS
<1>3. /\ a \o <<f>> \in Seq(S) /\ Len(a \o <<f>>) = Len(s) + 1
      /\ \A k \in 1..Len(s) : (a \o <<f>>)[k] = a[k]
      /\ (a \o <<f>>)[Len(s) + 1] = f
  BY Frames, <1>1, <1>2
<1>4. /\ a \o <<f>> \in Seq(S) /\ Len(a \o <<f>>) = Len(s) + 1
      /\ \A k \in 1..(Len(s) - 1) : (a \o <<f>>)[k] = s[k]
      /\ (a \o <<f>>)[Len(s)] = e
      /\ (a \o <<f>>)[Len(s) + 1] = f
  BY Frames, <1>1, <1>3
<1> QED BY Frames, <1>4 DEF a, AfterCall

(* ... and after it has ended.                                             *)
LEMMA Ended ==
  ASSUME NEW S, NEW s \in Seq(S), s # <<>>, NEW t, t = Front(s)
  PROVE  /\ t \in Seq(S) /\ Len(t) = Len(s) - 1 /\ Len(s) \in Nat \ {0}
         /\ \A k \in 1..(Len(s) - 1) : t[k] = s[k]
         /\ t = <<>> <=> Len(s) = 1
<1>1. /\ t \in Seq(S) /\ Len(t) = Len(s) - 1 /\ Len(s) \in Nat \ {0}
      /\ \A k \in 1..(Len(s) - 1) : t[k] = s[k]
  BY Frames
<1>2. t = <<>> <=> Len(t) = 0
  BY <1>1
<1> QED BY <1>1, <1>2
-----------------------------------------------------------------------------
(* The invariants of the three walks.                                      *)

(* A list: what has been seen is what has been listed, and all that can be *)
(* got to from there has been seen, but perhaps for the next entry.        *)
ListInv ==
  memory.kind = "list" =>
    /\ stack = <<>>
    /\ out \in Seq(Nodes) /\ IsInjective(out)
    /\ memory.head \notin ToSet(out) /\ seen = {memory.head} \cup ToSet(out)
    /\ ToSet(out) \subseteq Reached
    /\ at \in Nodes => at \in Reached
    /\ \A n \in seen : Steps(n) \subseteq IF over THEN seen ELSE seen \cup {at}

(* A tree: a child that has not been seen yet will be, since the frame of  *)
(* its parent has not come to it.                                          *)
VadFrames == [node : {memory.root} \cup seen, side : {"left", "right", "over"}]
VadInv ==
  memory.kind = "vad" =>
    /\ out \in Seq(Nodes) /\ out # <<>>
    /\ out[1] = memory.root /\ seen = ToSet(Tail(out)) /\ IsInjective(Tail(out))
    /\ seen \subseteq Reached
    /\ stack \in Seq(VadFrames)
    /\ over <=> stack = <<>>
    /\ \A n \in {memory.root} \cup seen :
         /\ memory.left[n] \in Nodes \ seen =>
              \E k \in 1..Len(stack) : stack[k] = [node |-> n, side |-> "left"]
         /\ memory.right[n] \in Nodes \ seen =>
              \E k \in 1..Len(stack) : stack[k].node = n /\ stack[k].side # "over"

LEMMA SameMemory ==
  ASSUME memory' = memory
  PROVE  /\ Nodes' = Nodes /\ Start' = Start /\ Reached' = Reached
         /\ Ways' = Ways /\ Handles' = Handles
         /\ \A n : Steps(n)' = Steps(n)
         /\ \A w, i : HandleAt(w, i)' = HandleAt(w, i)
BY DEF Nodes, Start, Reached, Steps, Ways, Handles, HandleAt

LEMMA ListNodes ==
  ASSUME memory \in Memories, memory.kind = "list"
  PROVE  /\ Nodes = DOMAIN memory.link /\ Start = memory.head
         /\ memory.head \in Nodes /\ memory.head \notin memory.torn
         /\ \A n : Steps(n) \subseteq Nodes
         /\ \A n : Steps(n) = IF n \in memory.torn THEN {} ELSE {memory.link[n]} \cap Nodes
BY Memory DEF Nodes, Start, Steps

LEMMA VadNodes ==
  ASSUME memory \in Memories, memory.kind = "vad"
  PROVE  /\ Nodes = DOMAIN memory.left /\ Start = memory.root /\ memory.root \in Nodes
         /\ \A n : Steps(n) \subseteq Nodes
         /\ \A n : Steps(n) = {memory.left[n], memory.right[n]} \cap Nodes
BY Memory DEF Nodes, Start, Steps

LEMMA ReachedSteps ==
  /\ Reached \subseteq Nodes
  /\ Steps(Start) \cap Nodes \subseteq Reached
  /\ \A n \in Reached : Steps(n) \cap Nodes \subseteq Reached
<1>1. Reached \subseteq Nodes
  BY DEF Reached
<1>2. ASSUME NEW m \in Steps(Start) \cap Nodes PROVE m \in Reached
  BY DEF Reached
<1>3. ASSUME NEW n \in Reached, NEW m \in Steps(n) \cap Nodes PROVE m \in Reached
  BY DEF Reached
<1> QED BY <1>1, <1>2, <1>3

LEMMA ReachedLeast ==
  ASSUME NEW S \in SUBSET Nodes, Steps(Start) \subseteq S, \A n \in S : Steps(n) \subseteq S
  PROVE  Reached \subseteq S
BY DEF Reached

LEMMA ListStart ==
  ASSUME WalkInit, memory.kind = "list"
  PROVE  ListInv
<1>1. memory \in Memories /\ BeginList(memory) /\ over = FALSE
  BY DEF WalkInit
<1>2. at = memory.link[memory.head] /\ seen = {memory.head} /\ stack = <<>> /\ out = <<>>
  BY <1>1 DEF BeginList
<1>3. out \in Seq(Nodes) /\ IsInjective(out) /\ ToSet(out) = {}
  BY <1>2 DEF IsInjective, ToSet
<1>4. Steps(Start) = {at} \cap Nodes
  BY <1>1, <1>2, ListNodes
<1>5. at \in Nodes => at \in Reached
  BY <1>4, ReachedSteps
<1>6. Steps(memory.head) \subseteq seen \cup {at}
  BY <1>1, <1>2, ListNodes
<1> QED BY <1>1, <1>2, <1>3, <1>5, <1>6 DEF ListInv

LEMMA ListStep ==
  ASSUME memory \in Memories, memory.kind = "list", ListInv, ListItem \/ ListEnd
  PROVE  ListInv'
<1>0. memory' = memory
  BY DEF ListItem, ListEnd
<1>1. /\ Nodes' = Nodes /\ Reached' = Reached /\ \A n : Steps(n)' = Steps(n)
  BY <1>0, SameMemory
<1>2. /\ stack = <<>> /\ ~over
      /\ out \in Seq(Nodes) /\ IsInjective(out)
      /\ memory.head \notin ToSet(out) /\ seen = {memory.head} \cup ToSet(out)
      /\ ToSet(out) \subseteq Reached
      /\ at \in Nodes => at \in Reached
      /\ \A n \in seen : Steps(n) \subseteq seen \cup {at}
  BY DEF ListInv, ListItem, ListEnd, Kind
<1>3. CASE ListItem
  <2>1. /\ at \in Nodes /\ at \notin seen
        /\ seen' = seen \cup {at} /\ out' = Append(out, at) /\ stack' = stack
    BY <1>3, ListNodes DEF ListItem, Met
  <2>2. /\ out' \in Seq(Nodes) /\ IsInjective(out') /\ ToSet(out') = ToSet(out) \cup {at}
    BY <1>2, <2>1, Appended, StillInjective
  <2>3. /\ memory.head \notin ToSet(out') /\ seen' = {memory.head} \cup ToSet(out')
        /\ ToSet(out') \subseteq Reached
    BY <1>2, <2>1, <2>2
  <2>4. CASE at \in memory.torn
    <3>1. over' /\ at' = at /\ Steps(at) = {}
      BY <1>3, <2>4, ListNodes DEF ListItem
    <3>2. \A n \in seen' : Steps(n) \subseteq seen'
      BY <1>2, <2>1, <3>1
    <3>3. /\ stack' = <<>> /\ (at' \in Nodes => at' \in Reached)
      BY <1>2, <2>1, <3>1
    <3> QED BY <1>0, <1>1, <2>2, <2>3, <3>1, <3>2, <3>3 DEF ListInv, ToSet, IsInjective
  <2>5. CASE at \notin memory.torn
    <3>1. over' = over /\ at' = memory.link[at] /\ Steps(at) = {at'} \cap Nodes
      BY <1>3, <2>5, ListNodes DEF ListItem
    <3>2. \A n \in seen' : Steps(n) \subseteq seen' \cup {at'}
      BY <1>2, <2>1, <3>1
    <3>3. stack' = <<>> /\ ~over'
      BY <1>2, <2>1, <3>1
    <3>4. at' \in Nodes => at' \in Reached
      BY <1>2, <2>1, <3>1, ReachedSteps
    <3> QED BY <1>0, <1>1, <2>2, <2>3, <3>2, <3>3, <3>4 DEF ListInv, ToSet, IsInjective
  <2> QED BY <2>4, <2>5
<1>4. CASE ListEnd
  <2>1. /\ at \notin Nodes \/ at \in seen
        /\ over' /\ seen' = seen /\ out' = out /\ stack' = stack /\ at' = at
    BY <1>4, ListNodes DEF ListEnd, Met
  <2>2. \A n \in seen : Steps(n) \subseteq seen
    BY <1>2, <2>1, ListNodes
  <2> QED BY <1>0, <1>1, <1>2, <2>1, <2>2 DEF ListInv, ToSet, IsInjective
<1> QED BY <1>3, <1>4

(* What is listed of a list at the end is what can be got to.              *)
LEMMA ListAtEnd ==
  ASSUME memory \in Memories, memory.kind = "list", ListInv, over
  PROVE  ToSet(out) = Reached \ {memory.head}
<1>1. /\ memory.head \notin ToSet(out) /\ seen = {memory.head} \cup ToSet(out)
      /\ ToSet(out) \subseteq Reached
      /\ \A n \in seen : Steps(n) \subseteq seen
  BY DEF ListInv
<1>2. seen \subseteq Nodes /\ Steps(Start) \subseteq seen
  BY <1>1, ListNodes, ReachedSteps
<1>3. Reached \subseteq seen
  BY <1>1, <1>2, ReachedLeast
<1> QED BY <1>1, <1>3
-----------------------------------------------------------------------------
LEMMA VadStart ==
  ASSUME WalkInit, memory.kind = "vad"
  PROVE  VadInv
<1>1. memory \in Memories /\ BeginVad(memory) /\ over = FALSE
  BY DEF WalkInit
<1>2. seen = {} /\ stack = <<[node |-> memory.root, side |-> "left"]>> /\ out = <<memory.root>>
  BY <1>1 DEF BeginVad
<1>3. memory.root \in Nodes
  BY <1>1, VadNodes
<1>4. out \in Seq(Nodes) /\ out # <<>> /\ out[1] = memory.root /\ Tail(out) = <<>>
  BY <1>2, <1>3
<1>5. IsInjective(Tail(out)) /\ ToSet(Tail(out)) = {}
  BY <1>4 DEF IsInjective, ToSet
<1>6. /\ stack \in Seq(VadFrames) /\ stack # <<>> /\ Len(stack) = 1
      /\ stack[1] = [node |-> memory.root, side |-> "left"]
  BY <1>2 DEF VadFrames
<1>7. \A n \in {memory.root} \cup seen :
        \E k \in 1..Len(stack) : stack[k] = [node |-> n, side |-> "left"]
  BY <1>2, <1>6
<1> QED BY <1>1, <1>2, <1>4, <1>5, <1>6, <1>7 DEF VadInv

LEMMA VadChildStep ==
  ASSUME memory \in Memories, memory.kind = "vad", VadInv, VadChild
  PROVE  VadInv'
<1>0. memory' = memory /\ over' = over /\ ~over /\ stack # <<>> /\ Top.side # "over"
  BY DEF VadChild, Kind
<1>1. /\ Nodes' = Nodes /\ Reached' = Reached
  BY <1>0, SameMemory
<1>2. /\ out \in Seq(Nodes) /\ out # <<>>
      /\ out[1] = memory.root /\ seen = ToSet(Tail(out)) /\ IsInjective(Tail(out))
      /\ seen \subseteq Reached
      /\ stack \in Seq(VadFrames)
      /\ \A n \in {memory.root} \cup seen :
           /\ memory.left[n] \in Nodes \ seen =>
                \E k \in 1..Len(stack) : stack[k] = [node |-> n, side |-> "left"]
           /\ memory.right[n] \in Nodes \ seen =>
                \E k \in 1..Len(stack) : stack[k].node = n /\ stack[k].side # "over"
  BY DEF VadInv
<1> DEFINE n0 == Top.node
           N == Len(stack)
<1>3. /\ N \in Nat \ {0} /\ Top = stack[N] /\ Top \in VadFrames
      /\ n0 \in {memory.root} \cup seen /\ Top.side \in {"left", "right"}
      /\ Top = [node |-> n0, side |-> Top.side]
  <2>1. N \in Nat \ {0} /\ Top = stack[N] /\ Top \in VadFrames
    <3> HIDE DEF VadFrames
    <3> QED BY <1>0, <1>2, Frames DEF Top
  <2> QED BY <1>0, <2>1 DEF VadFrames
<1>4. n0 \in Nodes /\ Child \in {memory.left[n0], memory.right[n0]}
  BY <1>2, <1>3, VadNodes, ReachedSteps DEF Child
<1>5. Child \in Nodes => Child \in Reached
  <2>1. Child \in Nodes => Child \in Steps(n0)
    BY <1>4, VadNodes
  <2> QED BY <1>2, <1>3, <2>1, ReachedSteps, VadNodes
<1>6. /\ Turned = [node |-> n0, side |-> IF Top.side = "left" THEN "right" ELSE "over"]
      /\ Turned \in VadFrames
  <2>1. Turned = [node |-> n0, side |-> IF Top.side = "left" THEN "right" ELSE "over"]
    BY <1>3 DEF Turned
  <2> QED BY <1>3, <2>1 DEF VadFrames
<1>7. CASE Child \in DOMAIN memory.left /\ Fresh(Child)
  <2>1. /\ stack' = Append(Front(stack), Turned) \o <<[node |-> Child, side |-> "left"]>>
        /\ seen' = seen \cup {Child} /\ out' = Append(out, Child)
        /\ Child \in Nodes /\ Child \notin seen
    BY <1>7, VadNodes DEF VadChild, Fresh
  <2>2. /\ out' \in Seq(Nodes) /\ out' # <<>> /\ out'[1] = memory.root
        /\ Tail(out') = Append(Tail(out), Child) /\ Tail(out) \in Seq(Nodes)
    <3>1. Len(out') = Len(out) + 1 /\ out' \in Seq(Nodes)
      BY <1>2, <2>1, Appended
    <3> QED BY <1>2, <2>1, <3>1, AppendedBehind
  <2>3. ToSet(Tail(out')) = seen' /\ IsInjective(Tail(out'))
    <3> DEFINE below == Tail(out)
    <3>1. below \in Seq(Nodes) /\ Tail(out') = Append(below, Child) /\ Child \in Nodes
          /\ ToSet(below) = seen /\ IsInjective(below)
      BY <1>2, <2>1, <2>2
    <3> HIDE DEF below
    <3>2. ToSet(Append(below, Child)) = seen \cup {Child}
      BY <3>1, Appended
    <3>3. IsInjective(Append(below, Child))
      BY <2>1, <3>1, StillInjective
    <3> QED BY <2>1, <3>1, <3>2, <3>3
  <2>4. seen' \subseteq Reached
    BY <1>2, <1>5, <2>1
  <2>5. VadFrames \subseteq VadFrames' /\ [node |-> Child, side |-> "left"] \in VadFrames'
    BY <1>0, <2>1 DEF VadFrames
  <2>6. stack \in Seq(VadFrames')
    BY <1>2, <2>5
  <2>7. /\ stack' \in Seq(VadFrames') /\ Len(stack') = N + 1
        /\ \A k \in 1..(N - 1) : stack'[k] = stack[k]
        /\ stack'[N] = Turned
        /\ stack'[N + 1] = [node |-> Child, side |-> "left"]
    <3>1. Turned \in VadFrames'
      BY <1>6, <2>5
    <3> DEFINE S == VadFrames'
               e == Turned
               f == [node |-> Child, side |-> "left"]
    <3>2. stack \in Seq(S) /\ stack # <<>> /\ e \in S /\ f \in S
          /\ stack' = Append(Front(stack), e) \o <<f>>
      BY <1>0, <2>1, <2>5, <2>6, <3>1
    <3> HIDE DEF S, e, f
    <3>3. AfterCall(stack', S, stack, e, f)
      BY <3>2, Calls, Zenon
    <3> QED BY <3>3 DEF AfterCall, S, e, f
  <2>8. stack' # <<>>
    BY <1>3, <2>7
  <2>9. ASSUME NEW n \in {memory.root} \cup seen'
        PROVE  /\ memory.left[n] \in Nodes \ seen' =>
                    \E k \in 1..Len(stack') : stack'[k] = [node |-> n, side |-> "left"]
               /\ memory.right[n] \in Nodes \ seen' =>
                    \E k \in 1..Len(stack') : stack'[k].node = n /\ stack'[k].side # "over"
    <3>1. CASE n = Child
      <4>1. N + 1 \in 1..Len(stack') /\ stack'[N + 1] = [node |-> n, side |-> "left"]
        BY <1>3, <2>7, <3>1
      <4> QED BY <4>1
    <3>2. CASE n # Child
      <4>1. n \in {memory.root} \cup seen
        BY <2>1, <3>2
      <4>2. ASSUME memory.left[n] \in Nodes \ seen'
            PROVE  \E k \in 1..Len(stack') : stack'[k] = [node |-> n, side |-> "left"]
        <5>1. PICK k \in 1..N : stack[k] = [node |-> n, side |-> "left"]
          BY <1>2, <2>1, <4>1, <4>2
        <5>2. k # N
          <6>1. ASSUME k = N PROVE FALSE
            <7>1. Top.side = "left" /\ n0 = n
              BY <1>3, <5>1, <6>1
            <7>2. Child = memory.left[n]
              BY <7>1 DEF Child
            <7> QED BY <2>1, <4>2, <7>2
          <6> QED BY <6>1
        <5>3. k \in 1..(N - 1) /\ k \in 1..Len(stack')
          BY <1>3, <2>7, <5>2
        <5> QED BY <2>7, <5>1, <5>3
      <4>3. ASSUME memory.right[n] \in Nodes \ seen'
            PROVE  \E k \in 1..Len(stack') : stack'[k].node = n /\ stack'[k].side # "over"
        <5>1. PICK k \in 1..N : stack[k].node = n /\ stack[k].side # "over"
          BY <1>2, <2>1, <4>1, <4>3
        <5>2. CASE k = N
          <6>1. n0 = n /\ Top.side # "right"
            <7>1. n0 = n
              BY <1>3, <5>1, <5>2
            <7>2. ASSUME Top.side = "right" PROVE FALSE
              BY <2>1, <4>3, <7>1, <7>2 DEF Child
            <7> QED BY <7>1, <7>2
          <6>2. Turned.node = n /\ Turned.side # "over"
            BY <1>3, <1>6, <6>1
          <6>3. N \in 1..Len(stack')
            BY <1>3, <2>7
          <6> QED BY <2>7, <6>2, <6>3
        <5>3. CASE k # N
          <6>1. k \in 1..(N - 1) /\ k \in 1..Len(stack')
            BY <1>3, <2>7, <5>3
          <6> QED BY <2>7, <5>1, <6>1
        <5> QED BY <5>2, <5>3
      <4> QED BY <4>2, <4>3
    <3> QED BY <3>1, <3>2
  <2> QED BY <1>0, <1>1, <2>2, <2>3, <2>4, <2>7, <2>8, <2>9 DEF VadInv, ToSet, IsInjective
<1>8. CASE ~(Child \in DOMAIN memory.left /\ Fresh(Child))
  <2>1. /\ stack' = Append(Front(stack), Turned) /\ seen' = seen /\ out' = out
        /\ Child \notin Nodes \/ Child \in seen
    BY <1>8, VadNodes DEF VadChild, Fresh
  <2>2. VadFrames' = VadFrames
    BY <1>0, <2>1 DEF VadFrames
  <2>3. /\ stack' \in Seq(VadFrames) /\ Len(stack') = N
        /\ \A k \in 1..(N - 1) : stack'[k] = stack[k]
        /\ stack'[N] = Turned
    <3> DEFINE S == VadFrames
               e == Turned
    <3>2. stack \in Seq(S) /\ stack # <<>> /\ e \in S /\ stack' = Append(Front(stack), e)
      BY <1>0, <1>2, <1>6, <2>1
    <3> HIDE DEF S, e
    <3>3. AfterTurn(stack', S, stack, e)
      BY <3>2, Turns, Zenon
    <3> QED BY <3>3 DEF AfterTurn, S, e
  <2>4. stack' # <<>>
    BY <1>3, <2>3
  <2>5. ASSUME NEW n \in {memory.root} \cup seen
        PROVE  /\ memory.left[n] \in Nodes \ seen =>
                    \E k \in 1..Len(stack') : stack'[k] = [node |-> n, side |-> "left"]
               /\ memory.right[n] \in Nodes \ seen =>
                    \E k \in 1..Len(stack') : stack'[k].node = n /\ stack'[k].side # "over"
    <3>2. ASSUME memory.left[n] \in Nodes \ seen
          PROVE  \E k \in 1..Len(stack') : stack'[k] = [node |-> n, side |-> "left"]
      <4>1. PICK k \in 1..N : stack[k] = [node |-> n, side |-> "left"]
        BY <1>2, <3>2
      <4>2. k # N
        <5>1. ASSUME k = N PROVE FALSE
          <6>1. Top.side = "left" /\ n0 = n
            BY <1>3, <4>1, <5>1
          <6>2. Child = memory.left[n]
            BY <6>1 DEF Child
          <6> QED BY <2>1, <3>2, <6>2
        <5> QED BY <5>1
      <4>3. k \in 1..(N - 1) /\ k \in 1..Len(stack')
        BY <1>3, <2>3, <4>2
      <4> QED BY <2>3, <4>1, <4>3
    <3>3. ASSUME memory.right[n] \in Nodes \ seen
          PROVE  \E k \in 1..Len(stack') : stack'[k].node = n /\ stack'[k].side # "over"
      <4>1. PICK k \in 1..N : stack[k].node = n /\ stack[k].side # "over"
        BY <1>2, <3>3
      <4>2. CASE k = N
        <5>1. n0 = n
          BY <1>3, <4>1, <4>2
        <5>2. ASSUME Top.side = "right" PROVE FALSE
          BY <2>1, <3>3, <5>1, <5>2 DEF Child
        <5>3. Turned.node = n /\ Turned.side # "over"
          BY <1>3, <1>6, <5>1, <5>2
        <5>4. N \in 1..Len(stack')
          BY <1>3, <2>3
        <5> QED BY <2>3, <5>3, <5>4
      <4>3. CASE k # N
        <5>1. k \in 1..(N - 1) /\ k \in 1..Len(stack')
          BY <1>3, <2>3, <4>3
        <5> QED BY <2>3, <4>1, <5>1
      <4> QED BY <4>2, <4>3
    <3> QED BY <3>2, <3>3
  <2>6. stack' \in Seq(VadFrames')
    BY <2>2, <2>3
  <2>7. /\ out' \in Seq(Nodes') /\ out' # <<>> /\ out'[1] = memory'.root
        /\ seen' \subseteq Reached' /\ ~over'
    BY <1>0, <1>1, <1>2, <2>1
  <2>8. seen' = ToSet(Tail(out')) /\ IsInjective(Tail(out'))
    BY <1>2, <2>1
  <2>9. \A n \in {memory'.root} \cup seen' :
           /\ memory'.left[n] \in Nodes' \ seen' =>
                \E k \in 1..Len(stack') : stack'[k] = [node |-> n, side |-> "left"]
           /\ memory'.right[n] \in Nodes' \ seen' =>
                \E k \in 1..Len(stack') : stack'[k].node = n /\ stack'[k].side # "over"
    BY <1>0, <1>1, <2>1, <2>5
  <2> QED BY <2>4, <2>6, <2>7, <2>8, <2>9 DEF VadInv, ToSet, IsInjective
<1> QED BY <1>7, <1>8

LEMMA VadBack ==
  ASSUME memory \in Memories, memory.kind = "vad", VadInv, Back
  PROVE  VadInv'
<1>0. /\ memory' = memory /\ at' = at /\ seen' = seen /\ out' = out
      /\ ~over /\ stack # <<>> /\ Top.side = "over"
      /\ stack' = Front(stack) /\ over' = (Len(stack) = 1)
  BY DEF Back, Exhausted
<1>1. /\ Nodes' = Nodes /\ Reached' = Reached /\ VadFrames' = VadFrames
  BY <1>0, SameMemory DEF VadFrames
<1>2. /\ stack \in Seq(VadFrames)
      /\ \A n \in {memory.root} \cup seen :
           /\ memory.left[n] \in Nodes \ seen =>
                \E k \in 1..Len(stack) : stack[k] = [node |-> n, side |-> "left"]
           /\ memory.right[n] \in Nodes \ seen =>
                \E k \in 1..Len(stack) : stack[k].node = n /\ stack[k].side # "over"
  BY DEF VadInv
<1>3. /\ Len(stack) \in Nat \ {0} /\ stack' \in Seq(VadFrames) /\ Len(stack') = Len(stack) - 1
      /\ \A k \in 1..(Len(stack) - 1) : stack'[k] = stack[k]
      /\ stack[Len(stack)].side = "over"
  BY <1>0, <1>2, Frames DEF Top
<1>4. over' <=> stack' = <<>>
  BY <1>0, <1>2, Ended
<1>5. ASSUME NEW k \in 1..Len(stack), stack[k].side # "over"
      PROVE  k \in 1..Len(stack') /\ stack'[k] = stack[k]
  BY <1>3, <1>5
<1>6. \A n : [node |-> n, side |-> "left"].side # "over"
  OBVIOUS
<1>7. \A n \in {memory.root} \cup seen :
        /\ memory.left[n] \in Nodes \ seen =>
             \E k \in 1..Len(stack') : stack'[k] = [node |-> n, side |-> "left"]
        /\ memory.right[n] \in Nodes \ seen =>
             \E k \in 1..Len(stack') : stack'[k].node = n /\ stack'[k].side # "over"
  BY <1>2, <1>5, <1>6
<1> QED BY <1>0, <1>1, <1>3, <1>4, <1>7 DEF VadInv, ToSet, IsInjective

LEMMA VadAtEnd ==
  ASSUME memory \in Memories, memory.kind = "vad", VadInv, over
  PROVE  ToSet(out) = Reached \cup {memory.root}
<1>1. /\ out \in Seq(Nodes) /\ out # <<>>
      /\ out[1] = memory.root /\ seen = ToSet(Tail(out))
      /\ seen \subseteq Reached /\ Len(stack) = 0
  BY DEF VadInv
<1>2. \A n \in {memory.root} \cup seen :
        memory.left[n] \notin Nodes \ seen /\ memory.right[n] \notin Nodes \ seen
  BY <1>1 DEF VadInv
<1>3. \A n \in {memory.root} \cup seen : Steps(n) \subseteq seen
  BY <1>2, VadNodes
<1>4. seen \subseteq Nodes /\ Start = memory.root
  BY <1>1, ReachedSteps, VadNodes
<1>5. Reached \subseteq seen
  BY <1>3, <1>4, ReachedLeast
<1>6. ToSet(out) = {memory.root} \cup ToSet(Tail(out))
  <2>1. /\ Len(out) \in Nat \ {0} /\ Len(Tail(out)) = Len(out) - 1
        /\ DOMAIN out = 1..Len(out) /\ DOMAIN Tail(out) = 1..(Len(out) - 1)
        /\ \A i \in 1..(Len(out) - 1) : Tail(out)[i] = out[i + 1]
    BY <1>1
  <2>2. ASSUME NEW i \in 1..Len(out) PROVE out[i] \in {memory.root} \cup ToSet(Tail(out))
    <3>1. CASE i = 1
      BY <1>1, <3>1
    <3>2. CASE i # 1
      <4>1. i - 1 \in 1..(Len(out) - 1) /\ Tail(out)[i - 1] = out[i]
        BY <2>1, <3>2
      <4> QED BY <2>1, <4>1 DEF ToSet
    <3> QED BY <3>1, <3>2
  <2>3. ASSUME NEW x \in ToSet(Tail(out)) PROVE x \in ToSet(out)
    <3>1. PICK i \in 1..(Len(out) - 1) : x = Tail(out)[i]
      BY <2>1 DEF ToSet
    <3>2. x = out[i + 1] /\ i + 1 \in 1..Len(out)
      BY <2>1, <3>1
    <3> QED BY <2>1, <3>2 DEF ToSet
  <2>4. memory.root \in ToSet(out)
    BY <1>1, <2>1 DEF ToSet
  <2> QED BY <2>1, <2>2, <2>3, <2>4 DEF ToSet
<1> QED BY <1>1, <1>5, <1>6
-----------------------------------------------------------------------------
(* A handle table.  The frames are a way down as far as they go; all that  *)
(* is listed is at the end of a way, and each end of a way is listed or    *)
(* Pending: at the first frame that has not gone past it yet.              *)
Tables == {memory.top} \cup {memory.table[t][j] : t \in DOMAIN memory.table, j \in 1..Inner}
Objects == {memory.table[t][j] : t \in DOMAIN memory.table, j \in 1..Leaf}
HandleFrames == [table : Tables, level : 0..memory.levels, index : Nat, depth : Nat]
Listable == [object : Objects, handle : Nat]

Descending ==
  /\ stack \in Seq(HandleFrames)
  /\ over <=> stack = <<>>
  /\ \A k \in 1..Len(stack) :
       /\ stack[k].level = memory.levels - k + 1
       /\ k = 1 => stack[k].table = memory.top
       /\ stack[k].index <= IF k <= memory.levels THEN Inner ELSE Leaf
  /\ \A k \in 1..(Len(stack) - 1) :
       /\ stack[k].table \in DOMAIN memory.table /\ stack[k].index >= 1
       /\ stack[k + 1].table = memory.table[stack[k].table][stack[k].index]

(* The depth is what it should be in tables of one or two levels only.     *)
Deep ==
  /\ memory.levels = 0 => \A k \in 1..Len(stack) : stack[k].depth = 0
  /\ memory.levels = 1 =>
       \A k \in 1..Len(stack) :
         /\ k = 1 => stack[k].depth = stack[k].index
         /\ k = 2 => stack[k].depth = stack[1].index - 1

Same(h, g) == h.object = g.object /\ (memory.levels <= 1 => h = g)
Sound ==
  \A h \in ToSet(out) :
    h.object # 0 /\ \E w \in Ways, i \in 0..(Leaf - 1) : Same(h, HandleAt(w, i))

Pending(w, i) ==
  \E k \in 1..Len(stack) :
    /\ \A j \in 1..k : w.page[j - 1] = stack[j].table
    /\ \A j \in 1..(k - 1) : w.entry[j] = stack[j].index - 1
    /\ k <= memory.levels => w.entry[k] >= stack[k].index
    /\ k > memory.levels => i >= stack[k].index
Complete ==
  \A w \in Ways, i \in 0..(Leaf - 1) :
    HandleAt(w, i).object # 0 =>
      Pending(w, i) \/ \E h \in ToSet(out) : Same(h, HandleAt(w, i))

NextValue(frame) == frame.depth * Leaf + IF frame.level = 0 THEN frame.index ELSE 0
Ascending ==
  memory.levels <= 1 =>
    /\ \A i, j \in 1..Len(out) : i < j => out[i].handle < out[j].handle
    /\ \A i \in 1..Len(out), k \in 1..Len(stack) :
         k = Len(stack) => out[i].handle < NextValue(stack[k])

HandlesInv ==
  memory.kind = "handles" =>
    out \in Seq(Listable) /\ Descending /\ Deep /\ Sound /\ Complete /\ Ascending

LEMMA HandleMemory ==
  ASSUME memory \in Memories, memory.kind = "handles"
  PROVE  /\ memory.levels \in Nat /\ memory.levels \in 0..7
         /\ \A t \in DOMAIN memory.table :
              1..Inner \cup 1..Leaf \subseteq DOMAIN memory.table[t]
         /\ Inner \in Nat \ {0} /\ Leaf \in Nat \ {0}
BY Memory, Sizes

LEMMA SameTable ==
  ASSUME memory' = memory
  PROVE  /\ Tables' = Tables /\ Objects' = Objects /\ HandleFrames' = HandleFrames
         /\ Listable' = Listable /\ Ways' = Ways
         /\ \A w, i : HandleAt(w, i)' = HandleAt(w, i)
         /\ \A h, g : Same(h, g)' = Same(h, g)
BY DEF Tables, Objects, HandleFrames, Listable, Ways, HandleAt, Same

LEMMA WayFacts ==
  ASSUME NEW w \in Ways
  PROVE  /\ \A k \in 0..memory.levels : w.page[k] \in DOMAIN memory.table
         /\ w.page[0] = memory.top
         /\ \A k \in 1..memory.levels :
              /\ w.entry[k] \in 0..(Inner - 1)
              /\ w.page[k] = memory.table[w.page[k - 1]][w.entry[k] + 1]
BY DEF Ways

LEMMA HandlesStart ==
  ASSUME WalkInit, memory.kind = "handles"
  PROVE  HandlesInv
<1>1. memory \in Memories /\ BeginHandles(memory) /\ over = FALSE
  BY DEF WalkInit
<1> DEFINE first == [table |-> memory.top, level |-> memory.levels, index |-> 0, depth |-> 0]
<1>2. stack = <<first>> /\ out = <<>>
  BY <1>1 DEF BeginHandles
<1>3. first \in HandleFrames
  BY <1>1, HandleMemory DEF HandleFrames, Tables
<1>4. stack \in Seq(HandleFrames) /\ Len(stack) = 1 /\ stack[1] = first /\ stack # <<>>
  <2> HIDE DEF first
  <2> QED BY <1>2, <1>3
<1>5. out \in Seq(Listable) /\ ToSet(out) = {} /\ Len(out) = 0
  BY <1>2 DEF ToSet
<1>6. Descending
  BY <1>1, <1>4, HandleMemory DEF Descending
<1>7. Deep
  BY <1>4 DEF Deep
<1>8. Sound /\ Ascending
  BY <1>5 DEF Sound, Ascending
<1>9. Complete
  <2>1. ASSUME NEW w \in Ways, NEW i \in 0..(Leaf - 1) PROVE Pending(w, i)
    <3>1. w.page[0] = memory.top /\ (1 <= memory.levels => w.entry[1] >= 0)
      BY <1>1, HandleMemory, WayFacts
    <3>2. 1 \in 1..Len(stack) /\ stack[1].table = memory.top /\ stack[1].index = 0
      BY <1>4
    <3> QED BY <3>1, <3>2 DEF Pending
  <2> QED BY <2>1 DEF Complete
<1> QED BY <1>5, <1>6, <1>7, <1>8, <1>9 DEF HandlesInv

(* A page of pointers hands the walk to the page that its next entry leads *)
(* to.                                                                     *)
LEMMA HandlePageStep ==
  ASSUME memory \in Memories, memory.kind = "handles", HandlesInv, HandlePage
  PROVE  HandlesInv'
<1> DEFINE N == Len(stack)
           L == memory.levels
           top == Top
           turned == [top EXCEPT !.index = @ + 1, !.depth = @ + 1]
           called == [table |-> memory.table[top.table][top.index + 1], level |-> top.level - 1,
                      index |-> 0, depth |-> top.depth]
<1>0. /\ memory' = memory /\ over' = over /\ out' = out /\ ~over /\ stack # <<>>
      /\ Readable /\ Top.level > 0 /\ Top.index < Count
      /\ stack' = Append(Front(stack), [Top EXCEPT !.index = @ + 1, !.depth = NextDepth])
              \o <<[table |-> Entry, level |-> Top.level - 1, index |-> 0, depth |-> Top.depth]>>
  BY DEF HandlePage, Kind
<1>1. /\ out \in Seq(Listable) /\ Descending /\ Deep /\ Sound /\ Complete /\ Ascending
      /\ stack \in Seq(HandleFrames)
  BY DEF HandlesInv, Descending
<1>2. /\ Tables' = Tables /\ HandleFrames' = HandleFrames /\ Listable' = Listable
      /\ Ways' = Ways /\ (\A w, i : HandleAt(w, i)' = HandleAt(w, i))
      /\ \A h, g : Same(h, g)' = Same(h, g)
  BY <1>0, SameTable
<1>3. /\ N \in Nat \ {0} /\ stack[N] = top /\ top \in HandleFrames /\ L \in Nat /\ L \in 0..7
      /\ Inner \in Nat \ {0} /\ Leaf \in Nat \ {0}
  BY <1>0, <1>1, Frames, HandleMemory DEF Top
<1>4. /\ top.table \in Tables /\ top.level \in 0..L /\ top.index \in Nat /\ top.depth \in Nat
      /\ top = [table |-> top.table, level |-> top.level, index |-> top.index, depth |-> top.depth]
  BY <1>3 DEF HandleFrames
<1>10. /\ \A k \in 1..N :
            /\ stack[k].level = L - k + 1
            /\ k = 1 => stack[k].table = memory.top
            /\ stack[k].index <= IF k <= L THEN Inner ELSE Leaf
       /\ \A k \in 1..(N - 1) :
            /\ stack[k].table \in DOMAIN memory.table /\ stack[k].index >= 1
            /\ stack[k + 1].table = memory.table[stack[k].table][stack[k].index]
  BY <1>1 DEF Descending
<1>16. \A k \in 1..N : stack[k].index \in Nat /\ stack[k].depth \in Nat
  <2>1. \A k \in 1..N : stack[k] \in HandleFrames
    BY <1>1
  <2> QED BY <2>1 DEF HandleFrames
<1>17. top.table \in DOMAIN memory.table /\ top.level > 0 /\ top.index < Inner
  BY <1>0 DEF Readable, Count
<1>18. /\ turned = [top EXCEPT !.index = @ + 1, !.depth = @ + 1]
       /\ called = [table |-> memory.table[top.table][top.index + 1], level |-> top.level - 1,
                      index |-> 0, depth |-> top.depth]
  OBVIOUS
<1>20. stack' = Append(Front(stack), turned) \o <<called>>
  BY <1>0 DEF NextDepth, Entry
<1>19. Len(stack) = N /\ memory.levels = L
  OBVIOUS
<1> HIDE DEF N, L, top, turned, called
<1>5. /\ top.table \in DOMAIN memory.table /\ top.level > 0 /\ top.index < Inner
      /\ top.level = L - N + 1 /\ N <= L
  BY <1>3, <1>4, <1>10, <1>17
<1>6. /\ turned = [table |-> top.table, level |-> top.level,
                   index |-> top.index + 1, depth |-> top.depth + 1]
      /\ turned \in HandleFrames
  <2>1. turned = [table |-> top.table, level |-> top.level,
                   index |-> top.index + 1, depth |-> top.depth + 1]
    BY <1>4, <1>18
  <2> QED BY <1>4, <1>19, <2>1 DEF HandleFrames
<1>7. called \in HandleFrames
  <2>1. memory.table[top.table][top.index + 1] \in Tables
    <3>1. top.index + 1 \in 1..Inner
      BY <1>3, <1>4, <1>5
    <3> QED BY <1>5, <3>1 DEF Tables
  <2>2. top.level - 1 \in 0..L
    BY <1>3, <1>4, <1>5
  <2> QED BY <1>4, <1>18, <1>19, <2>1, <2>2 DEF HandleFrames
<1>8. AfterCall(stack', HandleFrames, stack, turned, called)
  <2>1. stack # <<>> /\ turned \in HandleFrames
    BY <1>0, <1>6
  <2> QED BY <1>1, <1>7, <1>20, <2>1, Calls, Zenon
<1>9. /\ stack' \in Seq(HandleFrames) /\ Len(stack') = N + 1
      /\ \A k \in 1..(N - 1) : stack'[k] = stack[k]
      /\ stack'[N].table = top.table /\ stack'[N].level = top.level
      /\ stack'[N].index = top.index + 1 /\ stack'[N].depth = top.depth + 1
      /\ stack'[N + 1].table = memory.table[top.table][top.index + 1]
      /\ stack'[N + 1].level = top.level - 1
      /\ stack'[N + 1].index = 0 /\ stack'[N + 1].depth = top.depth
  BY <1>6, <1>8, <1>18, <1>19 DEF AfterCall
<1>11. Descending'
  <2>1. \A k \in 1..Len(stack') :
          /\ stack'[k].level = L - k + 1
          /\ k = 1 => stack'[k].table = memory.top
          /\ stack'[k].index <= IF k <= L THEN Inner ELSE Leaf
    <3> SUFFICES ASSUME NEW k \in 1..(N + 1)
                 PROVE  /\ stack'[k].level = L - k + 1
                        /\ k = 1 => stack'[k].table = memory.top
                        /\ stack'[k].index <= IF k <= L THEN Inner ELSE Leaf
      BY <1>9
    <3>1. CASE k <= N - 1
      <4>1. k \in 1..(N - 1) /\ k \in 1..N
        BY <1>3, <3>1
      <4> QED BY <1>9, <1>10, <4>1
    <3>2. CASE k = N
      BY <1>3, <1>4, <1>5, <1>9, <1>10, <3>2
    <3>3. CASE k = N + 1
      BY <1>3, <1>5, <1>9, <3>3
    <3> QED BY <1>3, <3>1, <3>2, <3>3
  <2>2. \A k \in 1..(Len(stack') - 1) :
          /\ stack'[k].table \in DOMAIN memory.table /\ stack'[k].index >= 1
          /\ stack'[k + 1].table = memory.table[stack'[k].table][stack'[k].index]
    <3> SUFFICES ASSUME NEW k \in 1..N
                 PROVE  /\ stack'[k].table \in DOMAIN memory.table /\ stack'[k].index >= 1
                        /\ stack'[k + 1].table = memory.table[stack'[k].table][stack'[k].index]
      BY <1>3, <1>9
    <3>1. CASE k < N
      <4>1. k \in 1..(N - 1) /\ k + 1 \in 1..N
        BY <1>3, <3>1
      <4>2. stack'[k] = stack[k] /\ stack'[k + 1].table = stack[k + 1].table
        <5>1. CASE k + 1 = N
          BY <1>3, <1>9, <4>1, <5>1
        <5>2. CASE k + 1 # N
          <6>1. k + 1 \in 1..(N - 1)
            BY <1>3, <4>1, <5>2
          <6> QED BY <1>9, <4>1, <6>1
        <5> QED BY <5>1, <5>2
      <4> QED BY <1>10, <4>1, <4>2
    <3>3. CASE k = N
      <4>1. /\ stack'[k].table = top.table /\ stack'[k].index = top.index + 1
            /\ stack'[k + 1].table = memory.table[top.table][top.index + 1]
        BY <1>9, <3>3
      <4>2. top.index + 1 >= 1
        BY <1>4
      <4> QED BY <1>5, <4>1, <4>2
    <3> QED BY <1>3, <3>1, <3>3
  <2>3. stack' # <<>> /\ ~over'
    BY <1>0, <1>3, <1>9
  <2> QED BY <1>0, <1>2, <1>9, <1>19, <2>1, <2>2, <2>3 DEF Descending
<1>12. Deep'
  <2>1. CASE L = 1
    <3>1. N = 1
      BY <1>3, <1>5, <2>1
    <3>2. top.depth = top.index
      BY <1>1, <1>3, <1>19, <2>1, <3>1 DEF Deep
    <3>3. /\ stack'[1].depth = stack'[1].index
          /\ stack'[2].depth = stack'[1].index - 1
      BY <1>4, <1>9, <3>1, <3>2
    <3> QED BY <1>0, <1>9, <1>19, <2>1, <3>1, <3>3 DEF Deep
  <2>2. CASE L # 1
    <3>1. L # 0
      BY <1>3, <1>5
    <3> QED BY <1>0, <1>19, <2>2, <3>1 DEF Deep
  <2> QED BY <2>1, <2>2
<1>13. Sound'
  BY <1>0, <1>1, <1>2 DEF Sound, ToSet
<1>14. Complete'
  <2> SUFFICES ASSUME NEW w \in Ways, NEW i \in 0..(Leaf - 1), Pending(w, i)
               PROVE  Pending(w, i)'
    BY <1>0, <1>1, <1>2 DEF Complete, ToSet
  <2>1. PICK k \in 1..N :
          /\ \A j \in 1..k : w.page[j - 1] = stack[j].table
          /\ \A j \in 1..(k - 1) : w.entry[j] = stack[j].index - 1
          /\ k <= L => w.entry[k] >= stack[k].index
          /\ k > L => i >= stack[k].index
    BY <1>19 DEF Pending
  <2>2. \A j \in 1..N : stack'[j].table = stack[j].table
    BY <1>3, <1>9
  <2>3. w.page[0] = memory.top
        /\ \A m \in 1..L : /\ w.entry[m] \in 0..(Inner - 1)
                           /\ w.page[m] = memory.table[w.page[m - 1]][w.entry[m] + 1]
    BY <1>19, WayFacts
  <2>4. CASE k < N
    <3>1. /\ k \in 1..Len(stack')
          /\ \A j \in 1..k : w.page[j - 1] = stack'[j].table
          /\ \A j \in 1..(k - 1) : w.entry[j] = stack'[j].index - 1
          /\ k <= L => w.entry[k] >= stack'[k].index
          /\ k > L => i >= stack'[k].index
      <4>1. k \in 1..(N - 1) /\ k \in 1..(N + 1) /\ stack'[k] = stack[k]
        BY <1>3, <1>9, <2>4
      <4>2. \A j \in 1..k : j \in 1..N
        BY <1>3
      <4>3. \A j \in 1..(k - 1) : stack'[j] = stack[j]
        BY <1>3, <1>9
      <4> QED BY <1>9, <2>1, <2>2, <4>1, <4>2, <4>3
    <3> QED BY <1>0, <1>19, <3>1 DEF Pending
  <2>5. CASE k = N /\ w.entry[N] >= top.index + 1
    <3>1. /\ N \in 1..Len(stack')
          /\ \A j \in 1..N : w.page[j - 1] = stack'[j].table
          /\ \A j \in 1..(N - 1) : w.entry[j] = stack'[j].index - 1
          /\ w.entry[N] >= stack'[N].index
      BY <1>3, <1>9, <2>1, <2>2, <2>5
    <3>2. ~(N > L)
      BY <1>3, <1>5
    <3> QED BY <1>0, <1>19, <3>1, <3>2 DEF Pending
  <2>6. CASE k = N /\ ~(w.entry[N] >= top.index + 1)
    <3>1. w.entry[N] = top.index
      BY <1>3, <1>4, <1>5, <2>1, <2>3, <2>6
    <3>2. w.page[N] = stack'[N + 1].table
      <4>1. N \in 1..L /\ N \in 1..N
        BY <1>3, <1>5
      <4>2. w.page[N - 1] = top.table
        BY <1>3, <2>1, <2>6, <4>1
      <4> QED BY <1>9, <2>3, <3>1, <4>1, <4>2
    <3>3. /\ N + 1 \in 1..Len(stack')
          /\ \A j \in 1..(N + 1) : w.page[j - 1] = stack'[j].table
      BY <1>3, <1>9, <2>1, <2>2, <2>6, <3>2
    <3>4. \A j \in 1..N : w.entry[j] = stack'[j].index - 1
      <4> SUFFICES ASSUME NEW j \in 1..N PROVE w.entry[j] = stack'[j].index - 1
        OBVIOUS
      <4>1. CASE j = N
        BY <1>4, <1>9, <3>1, <4>1
      <4>2. CASE j # N
        <5>1. j \in 1..(N - 1)
          BY <1>3, <4>2
        <5> QED BY <1>9, <2>1, <2>6, <5>1
      <4> QED BY <4>1, <4>2
    <3>5. /\ N + 1 <= L => w.entry[N + 1] >= stack'[N + 1].index
          /\ i >= stack'[N + 1].index
      BY <1>3, <1>5, <1>9, <2>3
    <3>6. \A j \in 1..((N + 1) - 1) : w.entry[j] = stack'[j].index - 1
      BY <1>3, <3>4
    <3> QED BY <1>0, <1>19, <3>3, <3>5, <3>6 DEF Pending
  <2> QED BY <1>3, <2>1, <2>4, <2>5, <2>6
<1>15. Ascending'
  <2>1. CASE L <= 1
    <3>1. L = 1 /\ N = 1
      BY <1>3, <1>5, <2>1
    <3>2. NextValue(stack'[N + 1]) = NextValue(top)
      BY <1>4, <1>5, <1>9, <3>1 DEF NextValue
    <3>3. /\ \A i, j \in 1..Len(out) : i < j => out[i].handle < out[j].handle
          /\ \A i \in 1..Len(out) : out[i].handle < NextValue(top)
      BY <1>1, <1>3, <1>19, <2>1 DEF Ascending
    <3>4. \A i \in 1..Len(out'), k \in 1..Len(stack') :
            k = Len(stack') => out'[i].handle < NextValue(stack'[k])
      BY <1>0, <1>9, <3>2, <3>3
    <3> QED BY <1>0, <3>3, <3>4 DEF Ascending, NextValue
  <2>2. CASE ~(L <= 1)
    BY <1>0, <1>19, <2>2 DEF Ascending
  <2> QED BY <2>1, <2>2
<1> QED BY <1>0, <1>1, <1>2, <1>11, <1>12, <1>13, <1>14, <1>15 DEF HandlesInv

(* A page of objects lists its next entry, if there is one.                *)
LEMMA HandleEntryStep ==
  ASSUME memory \in Memories, memory.kind = "handles", HandlesInv, HandleEntry
  PROVE  HandlesInv'
<1> DEFINE N == Len(stack)
           L == memory.levels
           top == Top
           turned == [top EXCEPT !.index = @ + 1]
           new == [object |-> Entry, handle |-> HandleValue]
<1>0. /\ memory' = memory /\ over' = over /\ ~over /\ stack # <<>>
      /\ stack' = Append(Front(stack), turned)
      /\ out' = IF Entry = 0 THEN out ELSE Append(out, new)
  BY DEF HandleEntry, Kind
<1>1. /\ out \in Seq(Listable) /\ Descending /\ Deep /\ Sound /\ Complete /\ Ascending
      /\ stack \in Seq(HandleFrames)
  BY DEF HandlesInv, Descending
<1>2. /\ Tables' = Tables /\ HandleFrames' = HandleFrames /\ Listable' = Listable
      /\ Ways' = Ways /\ (\A w, i : HandleAt(w, i)' = HandleAt(w, i))
      /\ \A h, g : Same(h, g)' = Same(h, g)
  BY <1>0, SameTable
<1>3. /\ N \in Nat \ {0} /\ stack[N] = top /\ top \in HandleFrames /\ L \in Nat /\ L \in 0..7
      /\ Inner \in Nat \ {0} /\ Leaf \in Nat \ {0}
  BY <1>0, <1>1, Frames, HandleMemory DEF Top
<1>4. /\ top.table \in Tables /\ top.level \in 0..L /\ top.index \in Nat /\ top.depth \in Nat
      /\ top = [table |-> top.table, level |-> top.level, index |-> top.index, depth |-> top.depth]
  BY <1>3 DEF HandleFrames
<1>5. /\ \A k \in 1..N :
           /\ stack[k].level = L - k + 1
           /\ k = 1 => stack[k].table = memory.top
           /\ stack[k].index <= IF k <= L THEN Inner ELSE Leaf
      /\ \A k \in 1..(N - 1) :
           /\ stack[k].table \in DOMAIN memory.table /\ stack[k].index >= 1
           /\ stack[k + 1].table = memory.table[stack[k].table][stack[k].index]
  BY <1>1 DEF Descending
<1>6. \A k \in 1..N : stack[k].index \in Nat /\ stack[k].depth \in Nat
  <2>1. \A k \in 1..N : stack[k] \in HandleFrames
    BY <1>1
  <2> QED BY <2>1 DEF HandleFrames
<1>7. top.table \in DOMAIN memory.table /\ top.level = 0 /\ top.index < Leaf
  BY DEF HandleEntry, Readable, Count
<1>8. Len(stack) = N /\ memory.levels = L
  OBVIOUS
<1>9. /\ turned = [top EXCEPT !.index = @ + 1]
      /\ new = [object |-> memory.table[top.table][top.index + 1],
                handle |-> top.index + top.depth * Leaf]
      /\ Entry = memory.table[top.table][top.index + 1]
  BY DEF Entry, HandleValue
<1> HIDE DEF N, L, top, turned, new
<1>10. N = L + 1
  BY <1>3, <1>5, <1>7
<1>11. /\ turned = [table |-> top.table, level |-> top.level,
                    index |-> top.index + 1, depth |-> top.depth]
       /\ turned \in HandleFrames
  <2>1. turned = [table |-> top.table, level |-> top.level,
                   index |-> top.index + 1, depth |-> top.depth]
    BY <1>4, <1>9
  <2> QED BY <1>4, <1>8, <2>1 DEF HandleFrames
<1>12. AfterTurn(stack', HandleFrames, stack, turned)
  BY <1>0, <1>1, <1>11, Turns, Zenon
<1>13. /\ stack' \in Seq(HandleFrames) /\ Len(stack') = N
       /\ \A k \in 1..(N - 1) : stack'[k] = stack[k]
       /\ stack'[N].table = top.table /\ stack'[N].level = top.level
       /\ stack'[N].index = top.index + 1 /\ stack'[N].depth = top.depth
  BY <1>8, <1>11, <1>12 DEF AfterTurn
<1>14. /\ new \in Listable
       /\ new.object = memory.table[top.table][top.index + 1]
       /\ new.handle = top.index + top.depth * Leaf
  <2>1. top.index + 1 \in 1..Leaf
    BY <1>3, <1>4, <1>7
  <2>2. top.index + top.depth * Leaf \in Nat
    BY <1>3, <1>4
  <2>3. memory.table[top.table][top.index + 1] \in Objects
    BY <1>7, <2>1 DEF Objects
  <2> QED BY <1>9, <2>2, <2>3 DEF Listable
<1>15. /\ out' \in Seq(Listable)
       /\ Entry = 0 => out' = out
       /\ Entry # 0 => /\ ToSet(out') = ToSet(out) \cup {new}
                       /\ Len(out') = Len(out) + 1 /\ out'[Len(out) + 1] = new
                       /\ \A i \in 1..Len(out) : out'[i] = out[i]
  BY <1>0, <1>1, <1>14, Appended
<1>16. Descending'
  <2>1. \A k \in 1..Len(stack') :
          /\ stack'[k].level = L - k + 1
          /\ k = 1 => stack'[k].table = memory.top
          /\ stack'[k].index <= IF k <= L THEN Inner ELSE Leaf
    <3> SUFFICES ASSUME NEW k \in 1..N
                 PROVE  /\ stack'[k].level = L - k + 1
                        /\ k = 1 => stack'[k].table = memory.top
                        /\ stack'[k].index <= IF k <= L THEN Inner ELSE Leaf
      BY <1>13
    <3>1. CASE k < N
      <4>1. k \in 1..(N - 1)
        BY <1>3, <3>1
      <4> QED BY <1>5, <1>13, <4>1
    <3>2. CASE k = N
      <4>1. /\ stack[N].level = L - N + 1
            /\ N = 1 => stack[N].table = memory.top
        BY <1>3, <1>5
      <4>2. ~(N <= L) /\ top.index + 1 <= Leaf
        BY <1>3, <1>4, <1>7, <1>10
      <4> QED BY <1>3, <1>13, <3>2, <4>1, <4>2
    <3> QED BY <1>3, <3>1, <3>2
  <2>2. \A k \in 1..(Len(stack') - 1) :
          /\ stack'[k].table \in DOMAIN memory.table /\ stack'[k].index >= 1
          /\ stack'[k + 1].table = memory.table[stack'[k].table][stack'[k].index]
    <3> SUFFICES ASSUME NEW k \in 1..(N - 1)
                 PROVE  /\ stack'[k].table \in DOMAIN memory.table /\ stack'[k].index >= 1
                        /\ stack'[k + 1].table = memory.table[stack'[k].table][stack'[k].index]
      BY <1>13
    <3>1. stack'[k] = stack[k] /\ stack'[k + 1].table = stack[k + 1].table
      <4>1. CASE k + 1 = N
        BY <1>3, <1>13, <4>1
      <4>2. CASE k + 1 # N
        <5>1. k + 1 \in 1..(N - 1)
          BY <1>3, <4>2
        <5> QED BY <1>13, <5>1
      <4> QED BY <4>1, <4>2
    <3> QED BY <1>5, <3>1
  <2>3. stack' # <<>> /\ ~over'
    BY <1>0, <1>3, <1>13
  <2> QED BY <1>0, <1>2, <1>8, <1>13, <2>1, <2>2, <2>3 DEF Descending
<1>17. Deep'
  <2>1. CASE L = 0
    <3>1. N = 1 /\ top.depth = 0
      BY <1>1, <1>3, <1>8, <1>10, <2>1 DEF Deep
    <3> QED BY <1>0, <1>8, <1>13, <2>1, <3>1 DEF Deep
  <2>2. CASE L = 1
    <3>1. N = 2 /\ 1 \in 1..(N - 1) /\ 1 \in 1..N /\ 2 \in 1..N
      BY <1>10, <2>2
    <3>2. stack[1].depth = stack[1].index /\ top.depth = stack[1].index - 1
      BY <1>1, <1>3, <1>8, <2>2, <3>1 DEF Deep
    <3>3. /\ stack'[1].depth = stack'[1].index
          /\ stack'[2].depth = stack'[1].index - 1
      BY <1>13, <3>1, <3>2
    <3> QED BY <1>0, <1>8, <1>13, <2>2, <3>1, <3>3 DEF Deep
  <2>3. CASE L \notin {0, 1}
    BY <1>0, <1>8, <2>3 DEF Deep
  <2> QED BY <2>1, <2>2, <2>3
<1>18. ASSUME NEW w \in Ways, L <= 1,
              w.page[L] = top.table, L = 1 => w.entry[L] = stack[L].index - 1
       PROVE  HandleAt(w, top.index) = new
  <2>1. CASE L = 0
    <3>1. N = 1 /\ top.depth = 0
      BY <1>1, <1>3, <1>8, <1>10, <2>1 DEF Deep
    <3>2. top.depth * Leaf = 0
      BY <1>3, <3>1
    <3> QED BY <1>4, <1>8, <1>9, <1>18, <2>1, <3>2 DEF HandleAt
  <2>2. CASE L = 1
    <3>1. N = 2 /\ 2 \in 1..N
      BY <1>10, <2>2
    <3>2. top.depth = stack[1].index - 1
      BY <1>1, <1>3, <1>8, <2>2, <3>1 DEF Deep
    <3>3. w.entry[L] = top.depth
      BY <1>18, <2>2, <3>2
    <3> QED BY <1>8, <1>9, <1>18, <2>2, <3>3 DEF HandleAt
  <2> QED BY <1>3, <1>18, <2>1, <2>2
<1>19. ASSUME Entry # 0
       PROVE  \E w \in Ways, i \in 0..(Leaf - 1) : Same(new, HandleAt(w, i))
  <2> DEFINE pages == [k \in 0..L |-> stack[k + 1].table]
             places == [k \in 1..L |-> stack[k].index - 1]
             way == [page |-> pages, entry |-> places]
  <2>1. \A k \in 0..L : stack[k + 1].table \in DOMAIN memory.table
    <3> SUFFICES ASSUME NEW k \in 0..L PROVE stack[k + 1].table \in DOMAIN memory.table
      OBVIOUS
    <3>1. CASE k = L
      BY <1>3, <1>7, <1>10, <3>1
    <3>2. CASE k # L
      <4>1. k + 1 \in 1..(N - 1)
        BY <1>3, <1>10, <3>2
      <4> QED BY <1>5, <4>1
    <3> QED BY <3>1, <3>2
  <2>2. \A k \in 1..L : /\ stack[k].index - 1 \in 0..(Inner - 1)
                        /\ stack[k + 1].table = memory.table[stack[k].table][(stack[k].index - 1) + 1]
    <3> SUFFICES ASSUME NEW k \in 1..L
                 PROVE  /\ stack[k].index - 1 \in 0..(Inner - 1)
                        /\ stack[k + 1].table = memory.table[stack[k].table][(stack[k].index - 1) + 1]
      OBVIOUS
    <3>1. k \in 1..(N - 1) /\ k \in 1..N /\ k <= L
      BY <1>3, <1>10
    <3>2. stack[k].index \in Nat /\ stack[k].index >= 1 /\ stack[k].index <= Inner
      BY <1>5, <1>6, <3>1
    <3>3. (stack[k].index - 1) + 1 = stack[k].index /\ stack[k].index - 1 \in 0..(Inner - 1)
      BY <1>3, <3>2
    <3> QED BY <1>5, <3>1, <3>3
  <2>3. /\ \A k \in 0..L : pages[k] = stack[k + 1].table
        /\ \A k \in 1..L : places[k] = stack[k].index - 1
        /\ pages \in [0..L -> DOMAIN memory.table] /\ places \in [1..L -> 0..(Inner - 1)]
    BY <2>1, <2>2
  <2>4. way.page = pages /\ way.entry = places
    OBVIOUS
  <2>5. \A k \in 1..L : pages[k - 1] = stack[k].table
    <3> SUFFICES ASSUME NEW k \in 1..L PROVE pages[k - 1] = stack[k].table
      OBVIOUS
    <3>1. k - 1 \in 0..L /\ (k - 1) + 1 = k
      BY <1>3
    <3> QED BY <2>3, <3>1
  <2>6. pages[0] = memory.top
    <3>1. 0 \in 0..L /\ 0 + 1 = 1 /\ 1 \in 1..N
      BY <1>3
    <3> QED BY <1>5, <2>3, <3>1
  <2>7. \A k \in 1..L : pages[k] = memory.table[pages[k - 1]][places[k] + 1]
    BY <2>2, <2>3, <2>5
  <2>8. pages[L] = top.table /\ (L = 1 => places[L] = stack[L].index - 1)
    BY <1>3, <1>10, <2>3
  <2>9. way \in [page : [0..L -> DOMAIN memory.table], entry : [1..L -> 0..(Inner - 1)]]
    BY <2>3
  <2> HIDE DEF pages, places, way
  <2>10. way \in Ways
    BY <1>8, <2>4, <2>6, <2>7, <2>9 DEF Ways
  <2>11. top.index \in 0..(Leaf - 1)
    BY <1>3, <1>4, <1>7
  <2>12. HandleAt(way, top.index).object = new.object
    BY <1>8, <1>14, <2>4, <2>8 DEF HandleAt
  <2>13. L <= 1 => HandleAt(way, top.index) = new
    BY <1>18, <2>4, <2>8, <2>10
  <2>14. Same(new, HandleAt(way, top.index))
    BY <1>8, <2>12, <2>13 DEF Same
  <2> QED BY <2>10, <2>11, <2>14
<1>20. Sound'
  <2>1. CASE Entry = 0
    BY <1>1, <1>2, <1>15, <2>1 DEF Sound, ToSet
  <2>2. CASE Entry # 0
    <3>1. \A h \in ToSet(out') :
            h.object # 0 /\ \E w \in Ways, i \in 0..(Leaf - 1) : Same(h, HandleAt(w, i))
      BY <1>1, <1>9, <1>14, <1>15, <1>19, <2>2 DEF Sound
    <3> QED BY <1>2, <3>1 DEF Sound, ToSet
  <2> QED BY <2>1, <2>2
<1>21. Complete'
  <2> SUFFICES ASSUME NEW w \in Ways, NEW i \in 0..(Leaf - 1), HandleAt(w, i).object # 0,
                      Pending(w, i)
               PROVE  Pending(w, i)' \/ \E h \in ToSet(out') : Same(h, HandleAt(w, i))
    <3>1. ToSet(out) \subseteq ToSet(out')
      BY <1>15
    <3> QED BY <1>0, <1>1, <1>2, <3>1 DEF Complete, ToSet
  <2>1. PICK k \in 1..N :
          /\ \A j \in 1..k : w.page[j - 1] = stack[j].table
          /\ \A j \in 1..(k - 1) : w.entry[j] = stack[j].index - 1
          /\ k <= L => w.entry[k] >= stack[k].index
          /\ k > L => i >= stack[k].index
    BY <1>8 DEF Pending
  <2>2. /\ \A j \in 1..N : stack'[j].table = stack[j].table
        /\ \A j \in 1..(k - 1) : stack'[j] = stack[j]
        /\ \A j \in 1..k : j \in 1..N
    BY <1>3, <1>13
  <2>3. CASE k < N
    <3>1. k \in 1..(N - 1) /\ stack'[k] = stack[k]
      BY <1>3, <1>13, <2>3
    <3>2. /\ k \in 1..Len(stack')
          /\ \A j \in 1..k : w.page[j - 1] = stack'[j].table
          /\ \A j \in 1..(k - 1) : w.entry[j] = stack'[j].index - 1
          /\ k <= L => w.entry[k] >= stack'[k].index
          /\ k > L => i >= stack'[k].index
      BY <1>13, <2>1, <2>2, <3>1
    <3> QED BY <1>0, <1>8, <3>2 DEF Pending
  <2>4. CASE k = N /\ i >= top.index + 1
    <3>1. /\ N \in 1..Len(stack')
          /\ \A j \in 1..N : w.page[j - 1] = stack'[j].table
          /\ \A j \in 1..(N - 1) : w.entry[j] = stack'[j].index - 1
          /\ i >= stack'[N].index
      BY <1>3, <1>13, <2>1, <2>2, <2>4
    <3>2. ~(N <= L)
      BY <1>3, <1>10
    <3> QED BY <1>0, <1>8, <3>1, <3>2 DEF Pending
  <2>5. CASE k = N /\ ~(i >= top.index + 1)
    <3>1. i = top.index
      BY <1>3, <1>4, <1>10, <2>1, <2>5
    <3>2. w.page[L] = top.table
      <4>1. N \in 1..N /\ N - 1 = L
        BY <1>3, <1>10
      <4> QED BY <1>3, <2>1, <2>5, <4>1
    <3>3. L = 1 => w.entry[L] = stack[L].index - 1
      BY <1>10, <2>1, <2>5
    <3>4. HandleAt(w, i).object = Entry
      BY <1>8, <1>9, <3>1, <3>2 DEF HandleAt
    <3>5. Same(new, HandleAt(w, i))
      BY <1>8, <1>9, <1>14, <1>18, <3>1, <3>2, <3>3, <3>4 DEF Same
    <3>6. new \in ToSet(out')
      BY <1>15, <3>4
    <3> QED BY <3>5, <3>6
  <2> QED BY <1>3, <2>1, <2>3, <2>4, <2>5
<1>22. Ascending'
  <2>1. CASE L <= 1
    <3>1. /\ \A i, j \in 1..Len(out) : i < j => out[i].handle < out[j].handle
          /\ \A i \in 1..Len(out) : out[i].handle < NextValue(top)
      BY <1>1, <1>3, <1>8, <2>1 DEF Ascending
    <3>2. NextValue(top) = new.handle /\ NextValue(stack'[N]) = new.handle + 1
          /\ new.handle \in Nat
      <4>1. top.depth * Leaf \in Nat
        BY <1>3, <1>4
      <4> QED BY <1>4, <1>7, <1>13, <1>14, <4>1 DEF NextValue
    <3>3. \A i \in 1..Len(out) : out[i].handle \in Nat
      <4>1. \A i \in 1..Len(out) : out[i] \in Listable
        BY <1>1
      <4> QED BY <4>1 DEF Listable
    <3>4. Len(out) \in Nat
      BY <1>1
    <3>5. /\ \A i, j \in 1..Len(out') : i < j => out'[i].handle < out'[j].handle
          /\ \A i \in 1..Len(out') : out'[i].handle < new.handle + 1
      <4>1. CASE Entry = 0
        BY <1>15, <3>1, <3>2, <3>3, <4>1
      <4>2. CASE Entry # 0
        <5>1. \A i \in 1..(Len(out) + 1) : i = Len(out) + 1 \/ i \in 1..Len(out)
          BY <3>4
        <5>2. \A i \in 1..(Len(out) + 1) :
                 out'[i] = IF i = Len(out) + 1 THEN new ELSE out[i]
          BY <1>15, <4>2, <5>1
        <5>3. \A i, j \in 1..(Len(out) + 1) : i < j => i \in 1..Len(out) /\ i # Len(out) + 1
          BY <3>4
        <5>4. \A i \in 1..Len(out) : out[i].handle \in Nat /\ out[i].handle < new.handle
          BY <3>1, <3>2, <3>3
        <5>5. ASSUME NEW i \in 1..(Len(out) + 1) PROVE out'[i].handle < new.handle + 1
          BY <3>2, <5>1, <5>2, <5>4
        <5>6. ASSUME NEW i \in 1..(Len(out) + 1), NEW j \in 1..(Len(out) + 1), i < j
              PROVE  out'[i].handle < out'[j].handle
          <6>1. i \in 1..Len(out) /\ out'[i] = out[i]
            BY <5>2, <5>3, <5>6
          <6>2. CASE j = Len(out) + 1
            BY <5>2, <5>4, <6>1, <6>2
          <6>3. CASE j # Len(out) + 1
            <7>1. j \in 1..Len(out) /\ out'[j] = out[j]
              BY <5>1, <5>2, <6>3
            <7> QED BY <3>1, <5>6, <6>1, <7>1
          <6> QED BY <6>2, <6>3
        <5>7. Len(out') = Len(out) + 1
          BY <1>15, <4>2
        <5> QED BY <5>5, <5>6, <5>7
      <4> QED BY <4>1, <4>2
    <3>6. \A i \in 1..Len(out'), k \in 1..Len(stack') :
            k = Len(stack') => out'[i].handle < NextValue(stack'[k])
      BY <1>13, <3>2, <3>5
    <3> QED BY <1>0, <3>5, <3>6 DEF Ascending, NextValue
  <2>2. CASE ~(L <= 1)
    BY <1>0, <1>8, <2>2 DEF Ascending
  <2> QED BY <2>1, <2>2
<1> QED BY <1>0, <1>2, <1>15, <1>16, <1>17, <1>20, <1>21, <1>22 DEF HandlesInv

(* A page that is at its end, or is not there, hands nothing more on: no   *)
(* way leads on from it.                                                   *)
LEMMA HandlesBack ==
  ASSUME memory \in Memories, memory.kind = "handles", HandlesInv, Back
  PROVE  HandlesInv'
<1> DEFINE N == Len(stack)
           L == memory.levels
           top == Top
<1>0. /\ memory' = memory /\ out' = out /\ ~over /\ stack # <<>>
      /\ stack' = Front(stack) /\ over' = (N = 1)
      /\ top.table \in DOMAIN memory.table => top.index = Count
  BY DEF Back, Exhausted, Readable
<1>1. /\ out \in Seq(Listable) /\ Descending /\ Deep /\ Sound /\ Complete /\ Ascending
      /\ stack \in Seq(HandleFrames)
  BY DEF HandlesInv, Descending
<1>2. /\ Tables' = Tables /\ HandleFrames' = HandleFrames /\ Listable' = Listable
      /\ Ways' = Ways /\ (\A w, i : HandleAt(w, i)' = HandleAt(w, i))
      /\ \A h, g : Same(h, g)' = Same(h, g)
  BY <1>0, SameTable
<1>3. /\ N \in Nat \ {0} /\ stack[N] = top /\ top \in HandleFrames /\ L \in Nat /\ L \in 0..7
      /\ Inner \in Nat \ {0} /\ Leaf \in Nat \ {0}
  BY <1>0, <1>1, Frames, HandleMemory DEF Top
<1>4. top.table \in Tables /\ top.level \in 0..L /\ top.index \in Nat /\ top.depth \in Nat
  BY <1>3 DEF HandleFrames
<1>5. /\ \A k \in 1..N :
           /\ stack[k].level = L - k + 1
           /\ k = 1 => stack[k].table = memory.top
           /\ stack[k].index <= IF k <= L THEN Inner ELSE Leaf
      /\ \A k \in 1..(N - 1) :
           /\ stack[k].table \in DOMAIN memory.table /\ stack[k].index >= 1
           /\ stack[k + 1].table = memory.table[stack[k].table][stack[k].index]
  BY <1>1 DEF Descending
<1>6. \A k \in 1..N : stack[k].index \in Nat /\ stack[k].depth \in Nat
  <2>1. \A k \in 1..N : stack[k] \in HandleFrames
    BY <1>1
  <2> QED BY <2>1 DEF HandleFrames
<1>7. top.table \in DOMAIN memory.table =>
        top.index = IF top.level > 0 THEN Inner ELSE Leaf
  BY <1>0 DEF Count
<1>8. Len(stack) = N /\ memory.levels = L
  OBVIOUS
<1>9. /\ stack' \in Seq(HandleFrames) /\ Len(stack') = N - 1
      /\ \A k \in 1..(N - 1) : stack'[k] = stack[k]
      /\ stack' = <<>> <=> N = 1
  BY <1>0, <1>1, Ended
<1> HIDE DEF N, L, top
<1>10. top.level = L - N + 1
  BY <1>3, <1>5
<1>11. Descending'
  <2>1. \A k \in 1..Len(stack') :
          /\ stack'[k].level = L - k + 1
          /\ k = 1 => stack'[k].table = memory.top
          /\ stack'[k].index <= IF k <= L THEN Inner ELSE Leaf
    <3> SUFFICES ASSUME NEW k \in 1..(N - 1)
                 PROVE  /\ stack'[k].level = L - k + 1
                        /\ k = 1 => stack'[k].table = memory.top
                        /\ stack'[k].index <= IF k <= L THEN Inner ELSE Leaf
      BY <1>9
    <3>1. k \in 1..N
      BY <1>3
    <3> QED BY <1>5, <1>9, <3>1
  <2>2. \A k \in 1..(Len(stack') - 1) :
          /\ stack'[k].table \in DOMAIN memory.table /\ stack'[k].index >= 1
          /\ stack'[k + 1].table = memory.table[stack'[k].table][stack'[k].index]
    <3> SUFFICES ASSUME NEW k \in 1..(N - 2)
                 PROVE  /\ stack'[k].table \in DOMAIN memory.table /\ stack'[k].index >= 1
                        /\ stack'[k + 1].table = memory.table[stack'[k].table][stack'[k].index]
      BY <1>3, <1>9
    <3>1. k \in 1..(N - 1) /\ k + 1 \in 1..(N - 1)
      BY <1>3
    <3> QED BY <1>5, <1>9, <3>1
  <2> QED BY <1>0, <1>2, <1>8, <1>9, <2>1, <2>2 DEF Descending
<1>12. Deep'
  <2>1. ASSUME L = 0 PROVE \A k \in 1..Len(stack') : stack'[k].depth = 0
    <3>1. \A k \in 1..(N - 1) : k \in 1..N
      BY <1>3
    <3> QED BY <1>1, <1>8, <1>9, <2>1, <3>1 DEF Deep
  <2>2. ASSUME L = 1
        PROVE  \A k \in 1..Len(stack') :
                 /\ k = 1 => stack'[k].depth = stack'[k].index
                 /\ k = 2 => stack'[k].depth = stack'[1].index - 1
    <3>1. \A k \in 1..(N - 1) : k \in 1..N /\ (k = 2 => 1 \in 1..(N - 1))
      BY <1>3
    <3> QED BY <1>1, <1>8, <1>9, <2>2, <3>1 DEF Deep
  <2> QED BY <1>0, <1>8, <2>1, <2>2 DEF Deep
<1>13. Sound'
  BY <1>0, <1>1, <1>2 DEF Sound, ToSet
<1>14. Complete'
  <2> SUFFICES ASSUME NEW w \in Ways, NEW i \in 0..(Leaf - 1), Pending(w, i)
               PROVE  Pending(w, i)'
    BY <1>0, <1>1, <1>2 DEF Complete, ToSet
  <2>1. PICK k \in 1..N :
          /\ \A j \in 1..k : w.page[j - 1] = stack[j].table
          /\ \A j \in 1..(k - 1) : w.entry[j] = stack[j].index - 1
          /\ k <= L => w.entry[k] >= stack[k].index
          /\ k > L => i >= stack[k].index
    BY <1>8 DEF Pending
  <2>2. /\ \A m \in 0..L : w.page[m] \in DOMAIN memory.table
        /\ \A m \in 1..L : w.entry[m] \in 0..(Inner - 1)
    BY <1>8, WayFacts
  <2>3. k # N
    <3> SUFFICES ASSUME k = N PROVE FALSE
      OBVIOUS
    <3>1. N - 1 \in 0..L /\ N \in 1..N
      BY <1>3, <1>4, <1>10
    <3>2. top.table \in DOMAIN memory.table
      BY <1>3, <2>1, <2>2, <3>1
    <3>3. CASE N <= L
      <4>1. N \in 1..L /\ top.index = Inner
        BY <1>3, <1>7, <1>10, <3>2, <3>3
      <4>2. w.entry[N] \in 0..(Inner - 1) /\ w.entry[N] >= Inner
        BY <1>3, <2>1, <2>2, <3>3, <4>1
      <4> QED BY <1>3, <4>2
    <3>4. CASE ~(N <= L)
      <4>1. top.index = Leaf
        BY <1>3, <1>7, <1>10, <3>2, <3>4
      <4>2. i >= Leaf
        BY <1>3, <2>1, <3>4, <4>1
      <4> QED BY <1>3, <4>2
    <3> QED BY <3>3, <3>4
  <2>4. k \in 1..(N - 1) /\ \A j \in 1..k : stack'[j] = stack[j]
    BY <1>3, <1>9, <2>3
  <2>5. /\ k \in 1..Len(stack') /\ k \in 1..k
        /\ \A j \in 1..(k - 1) : j \in 1..k
    BY <1>9, <2>4
  <2>6. /\ \A j \in 1..k : w.page[j - 1] = stack'[j].table
        /\ \A j \in 1..(k - 1) : w.entry[j] = stack'[j].index - 1
        /\ k <= L => w.entry[k] >= stack'[k].index
        /\ k > L => i >= stack'[k].index
    BY <2>1, <2>4, <2>5
  <2> QED BY <1>0, <1>8, <2>5, <2>6 DEF Pending
<1>15. Ascending'
  <2>1. CASE L <= 1
    <3>1. /\ \A i, j \in 1..Len(out) : i < j => out[i].handle < out[j].handle
          /\ \A i \in 1..Len(out) : out[i].handle < NextValue(top)
      BY <1>1, <1>3, <1>8, <2>1 DEF Ascending
    <3>2. \A i \in 1..Len(out'), k \in 1..Len(stack') :
            k = Len(stack') => out'[i].handle < NextValue(stack'[k])
      <4>1. CASE N = 1
        BY <1>9, <4>1
      <4>2. CASE N # 1
        <5>1. N = 2 /\ L = 1 /\ top.level = 0 /\ 1 \in 1..N /\ 2 \in 1..N /\ 1 \in 1..(N - 1)
          BY <1>3, <1>4, <1>10, <2>1, <4>2
        <5>2. stack[1].depth = stack[1].index /\ top.depth = stack[1].index - 1
          BY <1>1, <1>3, <1>8, <5>1 DEF Deep
        <5>3. stack[1].depth = top.depth + 1 /\ stack[1].level = 1 /\ top.index <= Leaf
          BY <1>3, <1>5, <1>6, <5>1, <5>2
        <5>4. NextValue(stack[1]) = (top.depth + 1) * Leaf
              /\ NextValue(top) = top.depth * Leaf + top.index
          BY <1>3, <1>4, <5>1, <5>3 DEF NextValue
        <5>5. (top.depth + 1) * Leaf = top.depth * Leaf + Leaf
          BY <1>3, <1>4
        <5>6. \A i \in 1..Len(out) : out[i].handle \in Nat
          <6>1. \A i \in 1..Len(out) : out[i] \in Listable
            BY <1>1
          <6> QED BY <6>1 DEF Listable
        <5>7. top.depth * Leaf \in Nat
          BY <1>3, <1>4
        <5>8. \A i \in 1..Len(out) : out[i].handle < NextValue(stack[1])
          BY <1>3, <1>4, <3>1, <5>3, <5>4, <5>5, <5>6, <5>7
        <5>9. Len(stack') = 1 /\ stack'[1] = stack[1]
          BY <1>9, <5>1
        <5> QED BY <1>0, <5>8, <5>9
      <4> QED BY <4>1, <4>2
    <3> QED BY <1>0, <3>1, <3>2 DEF Ascending, NextValue
  <2>2. CASE ~(L <= 1)
    BY <1>0, <1>8, <2>2 DEF Ascending
  <2> QED BY <2>1, <2>2
<1> QED BY <1>0, <1>1, <1>2, <1>11, <1>12, <1>13, <1>14, <1>15 DEF HandlesInv

(* What is listed of a handle table at the end.                            *)
LEMMA HandlesAtEnd ==
  ASSUME memory \in Memories, memory.kind = "handles", HandlesInv, over
  PROVE  IF memory.levels <= 1
         THEN /\ ToSet(out) = Handles
              /\ \A i, j \in DOMAIN out : i < j => out[i].handle < out[j].handle
         ELSE {h.object : h \in ToSet(out)} = {h.object : h \in Handles}
<1>1. out \in Seq(Listable) /\ Sound /\ Complete /\ Ascending /\ stack = <<>>
  BY DEF HandlesInv, Descending
<1>2. \A w, i : ~Pending(w, i)
  BY <1>1 DEF Pending
<1>3. \A w \in Ways, i \in 0..(Leaf - 1) :
        HandleAt(w, i).object # 0 => \E h \in ToSet(out) : Same(h, HandleAt(w, i))
  BY <1>1, <1>2 DEF Complete
<1>4. \A h \in ToSet(out) : \E g \in Handles : Same(h, g)
  BY <1>1 DEF Sound, Handles, Same
<1>5. \A g \in Handles : \E h \in ToSet(out) : Same(h, g)
  BY <1>3 DEF Handles
<1>6. CASE memory.levels <= 1
  <2>1. ToSet(out) = Handles
    BY <1>4, <1>5, <1>6 DEF Same
  <2>2. DOMAIN out = 1..Len(out)
    BY <1>1
  <2> QED BY <1>1, <1>6, <2>1, <2>2 DEF Ascending
<1>7. CASE ~(memory.levels <= 1)
  <2>1. {h.object : h \in ToSet(out)} = {h.object : h \in Handles}
    BY <1>4, <1>5 DEF Same
  <2> QED BY <1>7, <2>1
<1> QED BY <1>6, <1>7
-----------------------------------------------------------------------------
WalkInv == memory \in Memories /\ ListInv /\ VadInv /\ HandlesInv

LEMMA WalkStart ==
  ASSUME WalkInit
  PROVE  WalkInv
<1>1. memory \in Memories
  BY DEF WalkInit
<1>2. ListInv
  <2>1. CASE memory.kind = "list"
    BY <2>1, ListStart
  <2>2. CASE memory.kind # "list"
    BY <2>2 DEF ListInv
  <2> QED BY <2>1, <2>2
<1>3. VadInv
  <2>1. CASE memory.kind = "vad"
    BY <2>1, VadStart
  <2>2. CASE memory.kind # "vad"
    BY <2>2 DEF VadInv
  <2> QED BY <2>1, <2>2
<1>4. HandlesInv
  <2>1. CASE memory.kind = "handles"
    BY <2>1, HandlesStart
  <2>2. CASE memory.kind # "handles"
    BY <2>2 DEF HandlesInv
  <2> QED BY <2>1, <2>2
<1> QED BY <1>1, <1>2, <1>3, <1>4 DEF WalkInv

(* A step of a walk of one kind says nothing of the others.                *)
LEMMA OneKind ==
  ASSUME WalkInv, memory' = memory,
         \/ memory.kind = "list" /\ ListInv'
         \/ memory.kind = "vad" /\ VadInv'
         \/ memory.kind = "handles" /\ HandlesInv'
  PROVE  WalkInv'
<1>1. memory' \in Memories
  BY DEF WalkInv
<1>2. CASE memory.kind = "list" /\ ListInv'
  <2>1. memory'.kind # "vad" /\ memory'.kind # "handles"
    BY <1>2
  <2>2. VadInv' /\ HandlesInv'
    BY <2>1 DEF VadInv, HandlesInv
  <2> QED BY <1>1, <1>2, <2>2 DEF WalkInv
<1>3. CASE memory.kind = "vad" /\ VadInv'
  <2>1. memory'.kind # "list" /\ memory'.kind # "handles"
    BY <1>3
  <2>2. ListInv' /\ HandlesInv'
    BY <2>1 DEF ListInv, HandlesInv
  <2> QED BY <1>1, <1>3, <2>2 DEF WalkInv
<1>4. CASE memory.kind = "handles" /\ HandlesInv'
  <2>1. memory'.kind # "list" /\ memory'.kind # "vad"
    BY <1>4
  <2>2. ListInv' /\ VadInv'
    BY <2>1 DEF ListInv, VadInv
  <2> QED BY <1>1, <1>4, <2>2 DEF WalkInv
<1> QED BY <1>2, <1>3, <1>4

LEMMA WalkStill ==
  ASSUME WalkInv, UNCHANGED walk
  PROVE  WalkInv'
<1>1. /\ memory' = memory /\ at' = at /\ seen' = seen
      /\ stack' = stack /\ out' = out /\ over' = over
  BY DEF walk
<1>2. ListInv'
  BY <1>1 DEF WalkInv, ListInv, Nodes, Reached, Start, Steps, IsInjective, ToSet
<1>3. VadInv'
  BY <1>1 DEF WalkInv, VadInv, VadFrames, Nodes, Reached, Start, Steps, IsInjective, ToSet
<1>4. HandlesInv'
  <2>0. HandlesInv
    BY DEF WalkInv
  <2>1. Descending' = Descending
    BY <1>1, SameTable DEF Descending
  <2>2. Deep' = Deep
    BY <1>1 DEF Deep
  <2>3. Sound' = Sound
    BY <1>1, SameTable DEF Sound, ToSet
  <2>4. \A w, i : Pending(w, i)' = Pending(w, i)
    BY <1>1 DEF Pending
  <2>5. Complete' = Complete
    BY <1>1, <2>4, SameTable DEF Complete, ToSet
  <2>6. Ascending' = Ascending
    BY <1>1 DEF Ascending, NextValue
  <2> QED BY <1>1, <2>0, <2>1, <2>2, <2>3, <2>5, <2>6, SameTable DEF HandlesInv
<1> QED BY <1>1, <1>2, <1>3, <1>4 DEF WalkInv

LEMMA WalkStep ==
  ASSUME WalkInv, WalkNext
  PROVE  WalkInv'
<1>1. memory \in Memories /\ ListInv /\ VadInv /\ HandlesInv
  BY DEF WalkInv
<1>2. CASE ListItem \/ ListEnd
  <2>1. memory' = memory /\ memory.kind = "list"
    BY <1>2 DEF ListItem, ListEnd, Kind
  <2>2. ListInv'
    BY <1>1, <1>2, <2>1, ListStep
  <2> QED BY <2>1, <2>2, OneKind
<1>3. CASE VadChild
  <2>1. memory' = memory /\ memory.kind = "vad"
    BY <1>3 DEF VadChild, Kind
  <2>2. VadInv'
    BY <1>1, <1>3, <2>1, VadChildStep
  <2> QED BY <2>1, <2>2, OneKind
<1>4. CASE HandlePage \/ HandleEntry
  <2>1. memory' = memory /\ memory.kind = "handles"
    BY <1>4 DEF HandlePage, HandleEntry, Kind
  <2>2. HandlesInv'
    BY <1>1, <1>4, <2>1, HandlePageStep, HandleEntryStep
  <2> QED BY <2>1, <2>2, OneKind
<1>5. CASE Back
  <2>1. memory' = memory /\ (memory.kind = "vad" \/ memory.kind = "handles")
    BY <1>5 DEF Back, Exhausted
  <2>2. CASE memory.kind = "vad"
    BY <1>1, <1>5, <2>1, <2>2, VadBack, OneKind
  <2>3. CASE memory.kind = "handles"
    BY <1>1, <1>5, <2>1, <2>3, HandlesBack, OneKind
  <2> QED BY <2>1, <2>2, <2>3
<1> QED BY <1>2, <1>3, <1>4, <1>5 DEF WalkNext

(* What an ended walk has listed.                                          *)
LEMMA WalkLists ==
  ASSUME WalkInv
  PROVE  AllListed
<1>1. memory \in Memories /\ ListInv /\ VadInv /\ HandlesInv
  BY DEF WalkInv
<1>2. memory.kind \in {"list", "vad", "handles"}
  BY <1>1, Memory
<1>3. ListedOnce
  BY <1>1, <1>2 DEF ListedOnce, ListInv, VadInv
<1>4. ASSUME over, memory.kind = "list" PROVE ToSet(out) = Reached \ {memory.head}
  BY <1>1, <1>4, ListAtEnd
<1>5. ASSUME over, memory.kind = "vad" PROVE ToSet(out) = Reached \cup {memory.root}
  BY <1>1, <1>5, VadAtEnd
<1>6. ASSUME over, memory.kind = "handles"
      PROVE  IF memory.levels <= 1
             THEN /\ ToSet(out) = Handles
                  /\ \A i, j \in DOMAIN out : i < j => out[i].handle < out[j].handle
             ELSE {h.object : h \in ToSet(out)} = {h.object : h \in Handles}
  BY <1>1, <1>6, HandlesAtEnd
<1> QED BY <1>2, <1>3, <1>4, <1>5, <1>6 DEF AllListed

LEMMA TreeLeavesWalk ==
  ASSUME Calculate \/ NextRoot \/ Done \/ Climb \/ Root \/ DrawTask \/ Return
  PROVE  UNCHANGED walk
BY DEF Calculate, NextRoot, Done, Climb, Root, DrawTask, Return

LEMMA WalkInvHolds == Spec => []WalkInv
<1>1. Init => WalkInv
  BY WalkStart DEF Init
<1>2. WalkInv /\ [Next]_vars => WalkInv'
  <2> SUFFICES ASSUME WalkInv, [Next]_vars PROVE WalkInv'
    OBVIOUS
  <2>1. CASE UNCHANGED vars
    BY <2>1, WalkStill DEF vars
  <2>2. CASE WalkNext
    BY <2>2, WalkStep
  <2>3. CASE Calculate \/ NextRoot \/ Done \/ Climb \/ Root \/ DrawTask \/ Return
    BY <2>3, TreeLeavesWalk, WalkStill
  <2> QED BY <2>1, <2>2, <2>3 DEF Next
<1> QED BY <1>1, <1>2, PTL DEF Spec

(* Wherever the pointers of a memory lead, a walk lists nothing twice, but *)
(* the root of the VADs where a node below leads back to it, and when it   *)
(* ends it has listed all that can be got to, and nothing else; handles    *)
(* come in order from tables of one or two levels, beyond that at least    *)
(* their objects are right.                                                *)
THEOREM EveryWalkListsAll == Spec => []AllListed
<1>1. WalkInv => AllListed
  BY WalkLists
<1> QED BY <1>1, WalkInvHolds, PTL
-----------------------------------------------------------------------------
(* The process tree.  Once the walk has ended, data holds what was found   *)
(* but for what has gone into the table.                                   *)
Numbers == DOMAIN Found \cup {ParentOf(Found[p]) : p \in DOMAIN Found}
Branches == [parent : Numbers, rest : SUBSET ToSet(out)]
TableRows == [task : ToSet(out), pad : Nat]
TreeInv ==
  /\ stage \in {"walk", "next", "climb", "draw", "done", "raised"}
  /\ stage = "walk" => frames = <<>> /\ data = <<>> /\ drawn = <<>>
  /\ stage # "walk" =>
       /\ memory.kind = "list" /\ over
       /\ DOMAIN data \subseteq DOMAIN Found /\ \A p \in DOMAIN data : data[p] = Found[p]
       /\ frames \in Seq(Branches) /\ drawn \in Seq(TableRows)
       /\ stage = "climb" => pid \in Numbers
       /\ stage = "raised" \/ (stage = "draw" <=> frames # <<>>)

Gone == DOMAIN Found \ DOMAIN data

(* The calls of draw_branch draw the children of each other's tasks, from  *)
(* a root down.  What a call still has to draw is what it would find if it *)
(* began now; and whoever is left of a drawn task's children belongs to    *)
(* one of the calls.                                                       *)
Branching ==
  /\ \A k \in 1..Len(frames) :
       /\ frames[k].rest = ChildrenIn(data, frames[k].parent)
       /\ k = 1 => frames[k].parent \notin DOMAIN Found
       /\ k > 1 => /\ frames[k].parent \in Gone
                   /\ ParentOf(Found[frames[k].parent]) = frames[k - 1].parent
  /\ \A p \in DOMAIN data :
       ParentOf(Found[p]) \in Gone =>
         \E k \in 1..Len(frames) : frames[k].parent = ParentOf(Found[p])

(* What has been climbed would be a ring if it met itself.                 *)
Climbing ==
  stage = "climb" =>
    /\ climbed \subseteq DOMAIN data
    /\ pid \in DOMAIN Found => pid \in DOMAIN data
    /\ \A c \in climbed : ParentOf(Found[c]) \in climbed \cup {pid}

Rows ==
  /\ \A i, j \in 1..Len(drawn) : drawn[i].task = drawn[j].task => i = j
  /\ \A i \in 1..Len(drawn) : \E p \in Gone : drawn[i].task = Found[p]
  /\ \A p \in Gone : \E i \in 1..Len(drawn) : drawn[i].task = Found[p]

Above(i) == {j \in 1..(i - 1) : drawn[j].pad < drawn[i].pad}
RightBelow(i) ==
  IF ParentOf(drawn[i].task) \in DOMAIN Found
  THEN /\ Above(i) # {}
       /\ drawn[Max(Above(i))] = [task |-> Found[ParentOf(drawn[i].task)], pad |-> drawn[i].pad - 1]
  ELSE drawn[i].pad = 0

(* The row of the task whose children a call draws has been written, and   *)
(* since then only rows further to the right.                              *)
OpenRow(k, j) ==
  /\ drawn[j] = [task |-> Found[frames[k].parent], pad |-> k - 2]
  /\ \A m \in (j + 1)..Len(drawn) : drawn[m].pad >= k - 1

DrawnInv ==
  stage # "walk" /\ RingFree /\ Whole =>
    /\ stage # "raised" /\ (stage = "done" => DOMAIN data = {})
    /\ Branching /\ Climbing /\ Rows
    /\ \A i \in 1..Len(drawn) : RightBelow(i)
    /\ \A k \in 2..Len(frames) : \E j \in 1..Len(drawn) : OpenRow(k, j)

LEMMA GreatestIndex ==
  ASSUME NEW n \in Nat, NEW S \in SUBSET (1..n), S # {}
  PROVE  \E x \in S : \A y \in S : y <= x
<1> DEFINE less == OpToRel(<, Nat)
           below == {n - x : x \in S}
<1>1. \A x, y \in Nat : x < y => <<x, y>> \in less
  BY DEF OpToRel
<1>2. IsWellFoundedOn(less, Nat)
  BY NatLessThanWellFounded
<1>3. below \in SUBSET Nat /\ below # {}
  <2>1. \A x \in S : n - x \in Nat
    OBVIOUS
  <2> QED BY <2>1
<1> HIDE DEF less
<1>4. PICK b \in below : \A c \in below : <<c, b>> \notin less
  BY <1>2, <1>3, WFMin
<1>5. PICK x \in S : b = n - x
  BY <1>4
<1>6. ASSUME NEW y \in S PROVE y <= x
  <2>1. n - y \in Nat /\ n - x \in Nat /\ n - y \in below
    OBVIOUS
  <2>2. ~(n - y < n - x)
    BY <1>1, <1>4, <1>5, <2>1
  <2> QED BY <2>1, <2>2
<1> QED BY <1>6

(* Each number that was found is that of its task.                         *)
LEMMA FoundFacts ==
  ASSUME NEW S, out \in Seq(S)
  PROVE  /\ \A p \in DOMAIN Found : Found[p] \in ToSet(out) /\ PidOf(Found[p]) = p
         /\ \A t \in ToSet(out) : PidOf(t) \in DOMAIN Found
<1>1. DOMAIN out = 1..Len(out) /\ Len(out) \in Nat
  OBVIOUS
<1>2. DOMAIN Found = {PidOf(out[i]) : i \in 1..Len(out)}
  BY <1>1 DEF Found, Tasks
<1>3. ASSUME NEW p \in DOMAIN Found
      PROVE  Found[p] \in ToSet(out) /\ PidOf(Found[p]) = p
  <2> DEFINE Last_(i) == PidOf(out[i]) = p /\ \A j \in 1..Len(out) : PidOf(out[j]) = p => j <= i
             S_ == {i \in 1..Len(out) : PidOf(out[i]) = p}
  <2>1. S_ \in SUBSET (1..Len(out)) /\ S_ # {}
    BY <1>2
  <2>2. PICK x \in S_ : \A y \in S_ : y <= x
    <3> HIDE DEF S_
    <3> QED BY <1>1, <2>1, GreatestIndex
  <2>3. \E i \in 1..Len(out) : Last_(i)
    BY <2>2
  <2>4. LET i == CHOOSE i \in 1..Len(out) : Last_(i)
        IN i \in 1..Len(out) /\ Last_(i)
    BY <2>3
  <2>5. Found[p] = out[CHOOSE i \in 1..Len(out) : Last_(i)]
    BY <1>1 DEF Found, Tasks
  <2> QED BY <1>1, <2>4, <2>5 DEF ToSet
<1>4. \A t \in ToSet(out) : PidOf(t) \in DOMAIN Found
  BY <1>1, <1>2 DEF ToSet
<1> QED BY <1>3, <1>4

LEMMA SameTasks ==
  ASSUME memory' = memory, out' = out
  PROVE  /\ Found' = Found /\ Numbers' = Numbers
         /\ Branches' = Branches /\ TableRows' = TableRows
         /\ RingFree' = RingFree /\ Whole' = Whole
         /\ \A t : PidOf(t)' = PidOf(t) /\ ParentOf(t)' = ParentOf(t)
         /\ \A d, p : ChildrenIn(d, p)' = ChildrenIn(d, p)
BY DEF Found, Numbers, Branches, TableRows, RingFree, Whole, Tasks, PidOf, ParentOf, ChildrenIn,
       ToSet, Range

LEMMA ChildrenListed ==
  ASSUME NEW S, out \in Seq(S), NEW d, NEW p, DOMAIN d \subseteq DOMAIN Found,
         \A q \in DOMAIN d : d[q] = Found[q]
  PROVE  ChildrenIn(d, p) \subseteq ToSet(out)
BY FoundFacts DEF ChildrenIn, Range

LEMMA TreeStart ==
  ASSUME TreeInit
  PROVE  TreeInv
BY DEF TreeInit, TreeInv

LEMMA TreeStep ==
  ASSUME WalkInv, TreeInv, [Next]_vars
  PROVE  TreeInv'
<1>1. CASE stage = "walk" /\ UNCHANGED tree
  BY <1>1 DEF TreeInv, tree
<1>2. CASE Calculate
  <2>1. /\ memory' = memory /\ out' = out /\ over' = over /\ frames' = frames /\ drawn' = drawn
        /\ memory.kind = "list" /\ over /\ frames = <<>> /\ drawn = <<>>
        /\ data' = Found /\ stage' = "next"
    BY <1>2 DEF Calculate, walk, Found, TreeInv
  <2>2. frames' \in Seq(Branches) /\ drawn' \in Seq(TableRows)
    BY <2>1
  <2> QED BY <2>1, <2>2, SameTasks DEF TreeInv
<1> DEFINE Walked == /\ memory.kind = "list" /\ over
                     /\ DOMAIN data \subseteq DOMAIN Found
                     /\ \A p \in DOMAIN data : data[p] = Found[p]
                     /\ frames \in Seq(Branches) /\ drawn \in Seq(TableRows)
<1>3. ASSUME stage # "walk" PROVE Walked /\ out \in Seq(Nodes)
  BY <1>3 DEF TreeInv, WalkInv, ListInv
<1>4. CASE stage # "walk" /\ UNCHANGED <<walk, tree>>
  <2>1. memory' = memory /\ out' = out /\ over' = over
    BY <1>4 DEF walk
  <2> QED BY <1>4, <2>1, SameTasks DEF TreeInv, tree
<1>5. CASE NextRoot \/ Done
  <2>1. /\ memory' = memory /\ out' = out /\ over' = over /\ data' = data
        /\ frames' = frames /\ drawn' = drawn /\ stage = "next" /\ stage' \in {"climb", "done"}
        /\ stage' = "climb" => pid' \in DOMAIN data
    BY <1>5 DEF NextRoot, Done, walk
  <2>2. Walked /\ frames = <<>>
    BY <1>3, <2>1 DEF TreeInv
  <2>3. stage' = "climb" => pid' \in Numbers
    BY <2>1, <2>2 DEF Numbers
  <2> QED BY <2>1, <2>2, <2>3, SameTasks DEF TreeInv
<1>6. CASE Climb
  <2>1. /\ memory' = memory /\ out' = out /\ over' = over /\ data' = data
        /\ frames' = frames /\ drawn' = drawn /\ stage = "climb" /\ stage' = stage
        /\ pid \in DOMAIN data /\ pid' = ParentOf(data[pid])
    BY <1>6 DEF Climb, Higher, walk
  <2>2. Walked /\ frames = <<>>
    BY <1>3, <2>1 DEF TreeInv
  <2>3. pid' \in Numbers
    BY <2>1, <2>2 DEF Numbers
  <2> QED BY <2>1, <2>2, <2>3, SameTasks DEF TreeInv
<1>7. CASE Root
  <2>1. /\ memory' = memory /\ out' = out /\ over' = over /\ data' = data
        /\ drawn' = drawn /\ stage = "climb" /\ stage' = "draw"
        /\ frames' = <<[parent |-> pid, rest |-> ChildrenIn(data, pid)]>>
    BY <1>7 DEF Root, walk, Branch
  <2>2. Walked /\ pid \in Numbers
    BY <1>3, <2>1 DEF TreeInv
  <2>3. ChildrenIn(data, pid) \subseteq ToSet(out)
    BY <1>3, <2>1, <2>2, ChildrenListed
  <2>4. [parent |-> pid, rest |-> ChildrenIn(data, pid)] \in Branches
    BY <2>2, <2>3 DEF Branches
  <2>5. frames' \in Seq(Branches) /\ frames' # <<>>
    BY <2>1, <2>4
  <2> QED BY <2>1, <2>2, <2>5, SameTasks DEF TreeInv
<1>8. CASE DrawTask
  <2>1. /\ memory' = memory /\ out' = out /\ over' = over /\ stage = "draw"
    BY <1>8 DEF DrawTask, walk
  <2>2. Walked /\ frames # <<>> /\ out \in Seq(Nodes)
    BY <1>3, <2>1 DEF TreeInv
  <2> DEFINE top == Last(frames)
             N == Len(frames)
  <2>3. top \in Branches /\ N \in Nat \ {0}
    BY <2>2, Frames
  <2> HIDE DEF N, top
  <2>4. PICK t \in top.rest :
          /\ drawn' = Append(drawn, [task |-> t, pad |-> N - 1])
          /\ \/ /\ PidOf(t) \in DOMAIN data
                /\ data' = [p \in DOMAIN data \ {PidOf(t)} |-> data[p]]
                /\ frames' = Append(Front(frames), [top EXCEPT !.rest = @ \ {t}])
                              \o <<Branch(data', PidOf(t))>>
                /\ stage' = stage
             \/ stage' = "raised" /\ data' = data /\ frames' = frames
    BY <1>8 DEF DrawTask, N, top
  <2>5. t \in ToSet(out) /\ PidOf(t) \in Numbers
    BY <2>2, <2>3, FoundFacts DEF Branches, Numbers
  <2>6. drawn' \in Seq(TableRows)
    <3>1. [task |-> t, pad |-> N - 1] \in TableRows
      BY <2>3, <2>5 DEF TableRows
    <3> QED BY <2>2, <2>4, <3>1
  <2>7. CASE stage' = "raised" /\ data' = data /\ frames' = frames
    BY <2>1, <2>2, <2>6, <2>7, SameTasks DEF TreeInv
  <2>8. CASE /\ data' = [p \in DOMAIN data \ {PidOf(t)} |-> data[p]]
             /\ frames' = Append(Front(frames), [top EXCEPT !.rest = @ \ {t}])
                              \o <<Branch(data', PidOf(t))>>
             /\ stage' = stage
    <3> DEFINE turned == [top EXCEPT !.rest = @ \ {t}]
               called == Branch(data', PidOf(t))
    <3>1. DOMAIN data' \subseteq DOMAIN Found /\ \A p \in DOMAIN data' : data'[p] = Found[p]
      BY <2>2, <2>8
    <3>2. ChildrenIn(data', PidOf(t)) \subseteq ToSet(out)
      BY <2>2, <3>1, ChildrenListed
    <3>3. called \in Branches
      BY <2>5, <3>2 DEF Branch, Branches
    <3>4. turned \in Branches
      BY <2>3 DEF Branches
    <3>5. frames' = Append(Front(frames), turned) \o <<called>>
      BY <2>8
    <3> HIDE DEF turned, called
    <3>6. AfterCall(frames', Branches, frames, turned, called)
      BY <2>2, <3>3, <3>4, <3>5, Calls, Zenon
    <3>7. frames' \in Seq(Branches) /\ frames' # <<>>
      BY <3>6 DEF AfterCall
    <3> QED BY <2>1, <2>2, <2>6, <2>8, <3>1, <3>7, SameTasks DEF TreeInv
  <2> QED BY <2>4, <2>7, <2>8
<1>9. CASE Return
  <2>1. /\ memory' = memory /\ out' = out /\ over' = over /\ stage = "draw" /\ data' = data
        /\ drawn' = drawn /\ frames' = Front(frames)
        /\ stage' = IF Len(frames) = 1 THEN "next" ELSE "draw"
    BY <1>9 DEF Return, walk
  <2>2. Walked /\ frames # <<>>
    BY <1>3, <2>1 DEF TreeInv
  <2>3. frames' \in Seq(Branches) /\ (frames' = <<>> <=> Len(frames) = 1)
    BY <2>1, <2>2, Ended
  <2> QED BY <2>1, <2>2, <2>3, SameTasks DEF TreeInv
<1>10. CASE WalkNext /\ UNCHANGED tree
  <2>1. ~over
    BY <1>10 DEF WalkNext, ListItem, ListEnd, VadChild, HandlePage, HandleEntry, Back, Kind
  <2>2. stage = "walk"
    BY <2>1 DEF TreeInv
  <2> QED BY <1>1, <1>10, <2>2
<1>11. CASE UNCHANGED vars
  BY <1>1, <1>4, <1>11 DEF vars
<1> QED BY <1>2, <1>5, <1>6, <1>7, <1>8, <1>9, <1>10, <1>11 DEF Next

LEMMA TreeInvHolds == Spec => [](WalkInv /\ TreeInv)
<1>1. Init => TreeInv
  BY TreeStart DEF Init
<1>2. WalkInv /\ TreeInv /\ [Next]_vars => TreeInv'
  BY TreeStep
<1> QED BY <1>1, <1>2, WalkInvHolds, PTL DEF Spec

(* The table is made of tasks of the list, each of which is in data under  *)
(* its own number, and drawing takes place within calls of draw_branch.    *)
THEOREM TreeTypeCorrect == Spec => []TypeOK
<1>1. WalkInv /\ TreeInv => TypeOK
  <2> SUFFICES ASSUME WalkInv, TreeInv PROVE TypeOK
    OBVIOUS
  <2>1. memory.kind = "list" => out \in Seq(Nodes) /\ ToSet(out) \subseteq DOMAIN memory.link
    <3> SUFFICES ASSUME memory.kind = "list"
                 PROVE  out \in Seq(Nodes) /\ ToSet(out) \subseteq DOMAIN memory.link
      OBVIOUS
    <3>1. out \in Seq(Nodes) /\ ToSet(out) \subseteq Reached
      BY DEF WalkInv, ListInv
    <3>2. Nodes = DOMAIN memory.link
      BY ListNodes DEF WalkInv
    <3> QED BY <3>1, <3>2, ReachedSteps
  <2>2. CASE stage = "walk"
    <3>1. DOMAIN frames = {} /\ DOMAIN data = {}
      BY <2>2 DEF TreeInv
    <3>2. Range(data) = {}
      BY <3>1 DEF Range
    <3> QED BY <2>1, <2>2, <3>1, <3>2 DEF TypeOK, TreeInv
  <2>3. CASE stage # "walk"
    <3>1. /\ memory.kind = "list"
          /\ DOMAIN data \subseteq DOMAIN Found /\ \A p \in DOMAIN data : data[p] = Found[p]
          /\ frames \in Seq(Branches)
      BY <2>3 DEF TreeInv
    <3>2. \A p \in DOMAIN data : data[p] \in ToSet(out) /\ PidOf(data[p]) = p
      BY <2>1, <3>1, FoundFacts
    <3>3. Range(data) \subseteq ToSet(out)
      BY <3>2 DEF Range
    <3>4. \A i \in DOMAIN frames : frames[i].rest \subseteq ToSet(out)
      <4>1. \A i \in DOMAIN frames : frames[i] \in Branches
        BY <3>1
      <4> QED BY <4>1 DEF Branches
    <3> QED BY <2>1, <2>3, <3>2, <3>3, <3>4 DEF TypeOK, TreeInv
  <2> QED BY <2>2, <2>3
<1> QED BY <1>1, TreeInvHolds, PTL
-----------------------------------------------------------------------------
(* Where no entry is torn and no process is its own ancestor.              *)
Sane == WalkInv /\ TreeInv /\ stage # "walk" /\ RingFree /\ Whole

LEMMA SaneFacts ==
  ASSUME Sane
  PROVE  /\ out \in Seq(Nodes)
         /\ \A p \in DOMAIN Found : Found[p] \in ToSet(out) /\ PidOf(Found[p]) = p
         /\ \A t \in ToSet(out) : t \notin memory.torn /\ PidOf(t) \in DOMAIN Found
         /\ DOMAIN data \subseteq DOMAIN Found /\ \A p \in DOMAIN data : data[p] = Found[p]
         /\ frames \in Seq(Branches) /\ drawn \in Seq(TableRows)
<1>1. /\ out \in Seq(Nodes)
      /\ DOMAIN data \subseteq DOMAIN Found /\ \A p \in DOMAIN data : data[p] = Found[p]
      /\ frames \in Seq(Branches) /\ drawn \in Seq(TableRows)
  BY DEF Sane, WalkInv, ListInv, TreeInv
<1>2. /\ \A p \in DOMAIN Found : Found[p] \in ToSet(out) /\ PidOf(Found[p]) = p
      /\ \A t \in ToSet(out) : PidOf(t) \in DOMAIN Found
  BY <1>1, FoundFacts
<1>3. ASSUME NEW t \in ToSet(out), t \in memory.torn PROVE FALSE
  BY <1>2, <1>3 DEF PidOf, Sane, Whole
<1> QED BY <1>1, <1>2, <1>3

(* The children that data holds of a parent.                               *)
LEMMA ChildrenFound ==
  ASSUME Sane, NEW d, NEW p, DOMAIN d \subseteq DOMAIN Found, \A q \in DOMAIN d : d[q] = Found[q]
  PROVE  ChildrenIn(d, p) = {Found[q] : q \in {r \in DOMAIN d : ParentOf(Found[r]) = p}}
<1>1. ASSUME NEW q \in DOMAIN d PROVE d[q] = Found[q] /\ Found[q] \notin memory.torn
  BY SaneFacts
<1> QED BY <1>1 DEF ChildrenIn, Range

(* The calls draw the children of different tasks.                         *)
LEMMA BranchesDiffer ==
  ASSUME Sane, Branching,
         NEW k \in 1..Len(frames), NEW j \in 1..Len(frames), j < k
  PROVE  frames[j].parent # frames[k].parent
<1> SUFFICES ASSUME frames[j].parent = frames[k].parent PROVE FALSE
  OBVIOUS
<1> DEFINE S == {frames[m].parent : m \in (j + 1)..k}
<1>0. Len(frames) \in Nat
  BY SaneFacts
<1>1. \A m \in (j + 1)..k :
        /\ frames[m].parent \in DOMAIN Found
        /\ ParentOf(Found[frames[m].parent]) = frames[m - 1].parent
  <2> SUFFICES ASSUME NEW m \in (j + 1)..k
               PROVE  /\ frames[m].parent \in DOMAIN Found
                      /\ ParentOf(Found[frames[m].parent]) = frames[m - 1].parent
    OBVIOUS
  <2>1. m \in 1..Len(frames) /\ m > 1
    BY <1>0
  <2> QED BY <2>1 DEF Branching, Gone
<1>2. S \in SUBSET DOMAIN Found /\ S # {}
  <2>1. k \in (j + 1)..k
    BY <1>0
  <2> QED BY <1>1, <2>1
<1>3. PICK p \in S : ParentOf(Found[p]) \notin S
  BY <1>2 DEF Sane, RingFree
<1>4. PICK m \in (j + 1)..k : p = frames[m].parent
  BY <1>3
<1>5. ParentOf(Found[p]) = frames[m - 1].parent
  BY <1>1, <1>4
<1>6. CASE m = j + 1
  <2>1. frames[m - 1].parent = frames[k].parent /\ k \in (j + 1)..k
    BY <1>0, <1>6
  <2> QED BY <1>3, <1>5, <2>1
<1>7. CASE m # j + 1
  <2>1. m - 1 \in (j + 1)..k
    BY <1>0, <1>7
  <2> QED BY <1>3, <1>5, <2>1
<1> QED BY <1>6, <1>7

(* Rows, and what was found, that stay as they are.                        *)
LEMMA SameRows ==
  ASSUME memory' = memory, out' = out, drawn' = drawn
  PROVE  \A i : RightBelow(i)' = RightBelow(i)
<1>1. Found' = Found /\ \A t : ParentOf(t)' = ParentOf(t)
  BY SameTasks
<1> QED BY <1>1 DEF RightBelow, Above, ParentOf

LEMMA CalculateDrawn ==
  ASSUME WalkInv, TreeInv, Calculate
  PROVE  DrawnInv'
<1>1. /\ memory' = memory /\ out' = out /\ frames' = frames /\ drawn' = drawn
      /\ frames = <<>> /\ drawn = <<>> /\ data' = Found /\ stage' = "next"
  BY DEF Calculate, walk, Found, TreeInv
<1>2. Found' = Found /\ Gone' = {} /\ Len(frames') = 0 /\ Len(drawn') = 0
  BY <1>1, SameTasks DEF Gone
<1>3. Branching' /\ Climbing' /\ Rows'
  BY <1>1, <1>2 DEF Branching, Climbing, Rows
<1>4. \A i \in 1..Len(drawn') : RightBelow(i)'
  BY <1>2
<1>5. \A k \in 2..Len(frames') : \E j \in 1..Len(drawn') : OpenRow(k, j)'
  BY <1>2
<1> QED BY <1>1, <1>3, <1>4, <1>5 DEF DrawnInv

(* Choosing a root, and climbing to one.                                   *)
LEMMA ClimbDrawn ==
  ASSUME Sane, DrawnInv, NextRoot \/ Done \/ Climb
  PROVE  DrawnInv'
<1>1. /\ memory' = memory /\ out' = out /\ data' = data /\ frames' = frames /\ drawn' = drawn
      /\ stage' \in {"climb", "done"}
  BY DEF NextRoot, Done, Climb, walk
<1>2. /\ Branching /\ Climbing /\ Rows
      /\ \A i \in 1..Len(drawn) : RightBelow(i)
      /\ \A k \in 2..Len(frames) : \E j \in 1..Len(drawn) : OpenRow(k, j)
  BY DEF DrawnInv, Sane
<1>3. Found' = Found /\ Gone' = Gone
  BY <1>1, SameTasks DEF Gone
<1>4. \A d, p : ChildrenIn(d, p)' = ChildrenIn(d, p)
  BY <1>1, SameTasks
<1>5. Rows' /\ \A k, j : OpenRow(k, j)' = OpenRow(k, j)
  BY <1>1, <1>2, <1>3 DEF Rows, OpenRow
<1>6. Branching'
  BY <1>1, <1>2, <1>3 DEF Branching, ParentOf, ChildrenIn, Range
<1>7. stage' = "done" => DOMAIN data' = {}
  BY <1>1 DEF NextRoot, Done, Climb
<1>8. Climbing'
  <2>1. CASE NextRoot
    <3>1. climbed' = {} /\ pid' \in DOMAIN data
      BY <2>1 DEF NextRoot
    <3> QED BY <1>1, <3>1 DEF Climbing
  <2>2. CASE Done
    BY <2>2 DEF Done, Climbing
  <2>3. CASE Climb
    <3>1. /\ stage = "climb" /\ pid \in DOMAIN data /\ climbed' = climbed \cup {pid}
          /\ pid' = ParentOf(data[pid]) /\ frames = <<>>
      BY <2>3 DEF Climb, Higher, Sane, TreeInv
    <3>2. pid' = ParentOf(Found[pid]) /\ pid \in DOMAIN Found
      BY <3>1, SaneFacts
    <3>3. climbed' \subseteq DOMAIN data'
      BY <1>1, <1>2, <3>1 DEF Climbing
    <3>4. \A c \in climbed' : ParentOf(Found[c]) \in climbed' \cup {pid'}
      BY <1>2, <3>1, <3>2 DEF Climbing
    <3>5. pid' \in DOMAIN Found => pid' \in DOMAIN data
      <4>1. Len(frames) = 0
        BY <3>1
      <4>2. pid' \notin Gone
        BY <1>2, <3>1, <3>2, <4>1 DEF Branching
      <4> QED BY <4>2 DEF Gone
    <3>6. \A c \in climbed' : ParentOf(Found[c])' = ParentOf(Found[c])
      BY <1>1, <1>3 DEF ParentOf
    <3> QED BY <1>1, <1>3, <3>3, <3>4, <3>5, <3>6 DEF Climbing
  <2> QED BY <2>1, <2>2, <2>3
<1>9. \A i : RightBelow(i)' = RightBelow(i)
  BY <1>1, SameRows
<1> QED BY <1>1, <1>2, <1>5, <1>6, <1>7, <1>8, <1>9 DEF DrawnInv

(* Nobody has been found whose number is that of a root's parent: the      *)
(* climb stopped at a number that is not in data, for it could not stop at *)
(* one that it had been at.                                                *)
LEMMA RootDrawn ==
  ASSUME Sane, DrawnInv, Root
  PROVE  DrawnInv'
<1>1. /\ memory' = memory /\ out' = out /\ data' = data /\ drawn' = drawn
      /\ stage = "climb" /\ stage' = "draw" /\ ~Higher
      /\ frames' = <<[parent |-> pid, rest |-> ChildrenIn(data, pid)]>>
  BY DEF Root, walk, Branch
<1>2. /\ Branching /\ Climbing /\ Rows
      /\ \A i \in 1..Len(drawn) : RightBelow(i)
  BY DEF DrawnInv, Sane
<1>3. Found' = Found /\ Gone' = Gone /\ \A d, p : ChildrenIn(d, p)' = ChildrenIn(d, p)
  BY <1>1, SameTasks DEF Gone
<1>4. pid \notin DOMAIN Found
  <2> SUFFICES ASSUME pid \in DOMAIN Found PROVE FALSE
    OBVIOUS
  <2>1. pid \in DOMAIN data /\ pid \in climbed
    BY <1>1, <1>2 DEF Climbing, Higher
  <2>2. climbed \in SUBSET DOMAIN Found
    BY <1>1, <1>2, SaneFacts DEF Climbing
  <2>3. PICK c \in climbed : ParentOf(Found[c]) \notin climbed
    BY <2>1, <2>2 DEF Sane, RingFree
  <2> QED BY <1>1, <1>2, <2>1, <2>3 DEF Climbing
<1>5. /\ Len(frames') = 1 /\ frames'[1].parent = pid
      /\ frames'[1].rest = ChildrenIn(data, pid)
  BY <1>1
<1>6. Branching'
  <2>1. frames = <<>> /\ Len(frames) = 0
    BY <1>1 DEF Sane, TreeInv
  <2>2. \A p \in DOMAIN data : ParentOf(Found[p]) \notin Gone
    BY <1>2, <2>1 DEF Branching
  <2>3. \A p \in DOMAIN data : ParentOf(Found[p])' \notin Gone'
    BY <1>1, <1>3, <2>2 DEF ParentOf
  <2>4. \A k \in 1..Len(frames') :
          /\ k = 1 /\ frames'[k].parent \notin DOMAIN Found'
          /\ frames'[k].rest = ChildrenIn(data, frames[k].parent)'
    BY <1>1, <1>3, <1>4, <1>5 DEF ChildrenIn, Range, ParentOf
  <2> QED BY <1>1, <2>3, <2>4 DEF Branching
<1>7. Climbing' /\ Rows'
  BY <1>1, <1>2, <1>3 DEF Climbing, Rows
<1>8. \A i : RightBelow(i)' = RightBelow(i)
  BY <1>1, SameRows
<1>9. 2..Len(frames') = {}
  BY <1>5
<1> QED BY <1>1, <1>2, <1>6, <1>7, <1>8, <1>9 DEF DrawnInv

(* A call that has nothing left to draw leaves no child of its task in     *)
(* data.                                                                   *)
LEMMA ReturnDrawn ==
  ASSUME Sane, DrawnInv, Return
  PROVE  DrawnInv'
<1> DEFINE N == Len(frames)
<1>1. /\ memory' = memory /\ out' = out /\ data' = data /\ drawn' = drawn
      /\ stage = "draw" /\ stage' \in {"next", "draw"}
      /\ frames' = Front(frames) /\ Last(frames).rest = {} /\ frames # <<>>
  BY DEF Return, walk, Sane, TreeInv
<1>2. /\ Branching /\ Climbing /\ Rows
      /\ \A i \in 1..Len(drawn) : RightBelow(i)
      /\ \A k \in 2..N : \E j \in 1..Len(drawn) : OpenRow(k, j)
  BY DEF DrawnInv, Sane
<1>3. Found' = Found /\ Gone' = Gone
  BY <1>1, SameTasks DEF Gone
<1>4. frames \in Seq(Branches)
  BY SaneFacts
<1>5. /\ N \in Nat \ {0} /\ frames[N].rest = {}
      /\ frames' \in Seq(Branches) /\ Len(frames') = N - 1
      /\ \A k \in 1..(N - 1) : frames'[k] = frames[k]
  BY <1>1, <1>4, Frames, Ended
<1> HIDE DEF N
<1>6. \A p \in DOMAIN data : ParentOf(Found[p]) # frames[N].parent
  <2> SUFFICES ASSUME NEW p \in DOMAIN data, ParentOf(Found[p]) = frames[N].parent PROVE FALSE
    OBVIOUS
  <2>1. frames[N].rest = ChildrenIn(data, frames[N].parent)
    BY <1>2, <1>5 DEF Branching, N
  <2>2. Found[p] \in ChildrenIn(data, frames[N].parent)
    BY ChildrenFound, SaneFacts
  <2> QED BY <1>5, <2>1, <2>2
<1>7. \A k \in 1..(N - 1) : k \in 1..N /\ (k > 1 => k - 1 \in 1..(N - 1))
  BY <1>5
<1>8. Branching'
  <2>1. ASSUME NEW k \in 1..Len(frames')
        PROVE  /\ frames'[k].rest = ChildrenIn(data, frames'[k].parent)
               /\ k = 1 => frames'[k].parent \notin DOMAIN Found
               /\ k > 1 => /\ frames'[k].parent \in Gone
                           /\ ParentOf(Found[frames'[k].parent]) = frames'[k - 1].parent
    <3>1. k \in 1..(N - 1)
      BY <1>5
    <3>2. frames'[k] = frames[k] /\ (k > 1 => frames'[k - 1] = frames[k - 1]) /\ k \in 1..N
      BY <1>5, <1>7, <3>1
    <3> QED BY <1>2, <3>2 DEF Branching, N
  <2>2. ASSUME NEW p \in DOMAIN data, ParentOf(Found[p]) \in Gone
        PROVE  \E k \in 1..Len(frames') : frames'[k].parent = ParentOf(Found[p])
    <3>1. PICK k \in 1..N : frames[k].parent = ParentOf(Found[p])
      BY <1>2, <2>2 DEF Branching, N
    <3>2. k \in 1..(N - 1)
      BY <1>5, <1>6, <3>1
    <3> QED BY <1>5, <3>1, <3>2
  <2> QED BY <1>1, <1>3, <2>1, <2>2 DEF Branching, ChildrenIn, ParentOf, Range
<1>9. Climbing' /\ Rows'
  BY <1>1, <1>2, <1>3 DEF Climbing, Rows
<1>10. \A i : RightBelow(i)' = RightBelow(i)
  BY <1>1, SameRows
<1>11. ASSUME NEW k \in 2..Len(frames') PROVE \E j \in 1..Len(drawn') : OpenRow(k, j)'
  <2>1. k \in 2..N /\ k \in 1..(N - 1)
    BY <1>5
  <2>2. PICK j \in 1..Len(drawn) : OpenRow(k, j)
    BY <1>2, <2>1
  <2>3. OpenRow(k, j)'
    BY <1>1, <1>3, <1>5, <2>1, <2>2 DEF OpenRow
  <2> QED BY <1>1, <2>3
<1> QED BY <1>1, <1>2, <1>8, <1>9, <1>10, <1>11 DEF DrawnInv

(* A task that is drawn goes below the row of the task whose children are  *)
(* being drawn, out of data, and is the next whose children are.           *)
LEMMA TaskDrawn ==
  ASSUME Sane, DrawnInv, DrawTask
  PROVE  DrawnInv'
<1> DEFINE N == Len(frames)
           R == Len(drawn)
           top == Last(frames)
           parent == top.parent
<1>1. /\ memory' = memory /\ out' = out /\ stage = "draw" /\ frames # <<>> /\ out \in Seq(Nodes)
      /\ frames \in Seq(Branches) /\ drawn \in Seq(TableRows)
  BY SaneFacts DEF DrawTask, walk, Sane, TreeInv
<1>2. /\ Branching /\ Rows
      /\ \A i \in 1..R : RightBelow(i)
      /\ \A k \in 2..N : \E j \in 1..R : OpenRow(k, j)
  BY DEF DrawnInv, Sane
<1>3. /\ N \in Nat \ {0} /\ frames[N] = top /\ top \in Branches /\ R \in Nat
  BY <1>1, Frames
<1>4. /\ \A k \in 1..N :
           /\ frames[k].rest = ChildrenIn(data, frames[k].parent)
           /\ k = 1 => frames[k].parent \notin DOMAIN Found
           /\ k > 1 => /\ frames[k].parent \in Gone
                       /\ ParentOf(Found[frames[k].parent]) = frames[k - 1].parent
      /\ \A p \in DOMAIN data :
           ParentOf(Found[p]) \in Gone =>
             \E k \in 1..N : frames[k].parent = ParentOf(Found[p])
  BY <1>2 DEF Branching
<1>5. PICK t \in top.rest :
        /\ drawn' = Append(drawn, [task |-> t, pad |-> N - 1])
        /\ \/ /\ PidOf(t) \in DOMAIN data
              /\ data' = [p \in DOMAIN data \ {PidOf(t)} |-> data[p]]
              /\ frames' = Append(Front(frames), [top EXCEPT !.rest = @ \ {t}])
                            \o <<Branch(data', PidOf(t))>>
              /\ stage' = stage
           \/ PidOf(t) \notin DOMAIN data
  BY DEF DrawTask
<1> HIDE DEF N, R, top
<1> DEFINE q == PidOf(t)
<1>6. q \in DOMAIN data /\ q \in DOMAIN Found /\ t = Found[q] /\ t \in ToSet(out)
      /\ ParentOf(Found[q]) = parent
  <2>1. top.rest = ChildrenIn(data, parent)
    BY <1>3, <1>4
  <2>2. PICK r \in DOMAIN data : t = Found[r] /\ ParentOf(Found[r]) = parent
    BY <2>1, ChildrenFound, SaneFacts
  <2> QED BY <2>2, SaneFacts
<1> DEFINE row == [task |-> t, pad |-> N - 1]
           turned == [top EXCEPT !.rest = @ \ {t}]
           called == [parent |-> q, rest |-> ChildrenIn(data', q)]
<1>7. /\ drawn' = Append(drawn, row)
      /\ data' = [p \in DOMAIN data \ {q} |-> data[p]]
      /\ frames' = Append(Front(frames), turned) \o <<called>>
      /\ stage' = "draw"
  BY <1>1, <1>5, <1>6 DEF Branch
<1>8. /\ DOMAIN data' = DOMAIN data \ {q} /\ \A p \in DOMAIN data' : data'[p] = Found[p]
      /\ DOMAIN data \subseteq DOMAIN Found
  BY <1>7, SaneFacts
<1>9. row \in TableRows /\ row.task = t /\ row.pad = N - 1
  BY <1>3, <1>6 DEF TableRows
<1>10. /\ turned \in Branches /\ turned.parent = parent /\ turned.rest = top.rest \ {t}
  BY <1>3 DEF Branches
<1>11. called \in Branches /\ called.parent = q /\ called.rest = ChildrenIn(data', q)
  <2>1. ChildrenIn(data', q) \subseteq ToSet(out)
    BY <1>1, <1>8, ChildrenListed
  <2> QED BY <1>6, <2>1 DEF Branches, Numbers
<1>12. AfterCall(frames', Branches, frames, turned, called)
  <2> HIDE DEF turned, called
  <2>1. frames' = Append(Front(frames), turned) \o <<called>> /\ frames # <<>>
    BY <1>1, <1>7
  <2> QED BY <1>1, <1>10, <1>11, <2>1, Calls, Zenon
<1>13. /\ Len(frames') = N + 1
       /\ \A k \in 1..(N - 1) : frames'[k] = frames[k]
       /\ frames'[N].parent = parent /\ frames'[N].rest = top.rest \ {t}
       /\ frames'[N + 1].parent = q /\ frames'[N + 1].rest = ChildrenIn(data', q)
  <2> HIDE DEF turned, called
  <2> QED BY <1>10, <1>11, <1>12 DEF AfterCall, N
<1>14. /\ Len(drawn') = R + 1 /\ drawn'[R + 1] = row
       /\ \A i \in 1..R : drawn'[i] = drawn[i]
  <2> HIDE DEF row
  <2> QED BY <1>1, <1>7, <1>9, Appended DEF R
<1>15. \A i \in 1..R : drawn[i].pad \in Nat
  <2>1. \A i \in 1..R : drawn[i] \in TableRows
    BY <1>1 DEF R
  <2> QED BY <2>1 DEF TableRows
<1>16. Found' = Found /\ Gone' = Gone \cup {q} /\ q \notin Gone
  BY <1>1, <1>6, <1>8, SameTasks DEF Gone
<1> HIDE DEF row, turned, called, q
<1>17. \A p : ChildrenIn(data', p) = ChildrenIn(data, p) \ {t}
  <2> TAKE p
  <2>1. ChildrenIn(data', p) = {Found[r] : r \in {s \in DOMAIN data' : ParentOf(Found[s]) = p}}
    BY <1>8, ChildrenFound
  <2>2. ChildrenIn(data, p) = {Found[r] : r \in {s \in DOMAIN data : ParentOf(Found[s]) = p}}
    BY ChildrenFound, SaneFacts
  <2>3. \A r \in DOMAIN data : Found[r] = t <=> r = q
    BY <1>6, <1>8, SaneFacts
  <2> QED BY <1>8, <2>1, <2>2, <2>3
<1>18. Branching'
  <2>1. ASSUME NEW k \in 1..(N + 1)
        PROVE  /\ frames'[k].rest = ChildrenIn(data', frames'[k].parent)
               /\ k = 1 => frames'[k].parent \notin DOMAIN Found
               /\ k > 1 => /\ frames'[k].parent \in Gone \cup {q}
                           /\ ParentOf(Found[frames'[k].parent]) = frames'[k - 1].parent
    <3>1. CASE k < N
      <4>1. k \in 1..(N - 1) /\ k \in 1..N /\ N \in 1..N /\ (k > 1 => k - 1 \in 1..(N - 1))
        BY <1>3, <3>1
      <4>2. frames[k].parent # parent
        BY <1>2, <1>3, <3>1, <4>1, BranchesDiffer DEF N
      <4>3. t \notin ChildrenIn(data, frames[k].parent)
        BY <1>6, <4>2 DEF ChildrenIn
      <4>4. frames'[k] = frames[k] /\ (k > 1 => frames'[k - 1] = frames[k - 1])
        BY <1>13, <4>1
      <4>5. /\ frames[k].rest = ChildrenIn(data', frames[k].parent)
            /\ k = 1 => frames[k].parent \notin DOMAIN Found
            /\ k > 1 => /\ frames[k].parent \in Gone \cup {q}
                        /\ ParentOf(Found[frames[k].parent]) = frames[k - 1].parent
        <5>1. ChildrenIn(data', frames[k].parent) = ChildrenIn(data, frames[k].parent)
          <6> DEFINE c == frames[k].parent
          <6>1. ChildrenIn(data', c) = ChildrenIn(data, c) \ {t} /\ t \notin ChildrenIn(data, c)
            BY <1>17, <4>3
          <6> HIDE DEF c
          <6>2. ChildrenIn(data', c) = ChildrenIn(data, c)
            BY <6>1
          <6> QED BY <6>2 DEF c
        <5> QED BY <1>4, <4>1, <5>1
      <4> QED BY <4>4, <4>5
    <3>2. CASE k = N
      <4>1. N \in 1..N /\ (N > 1 => N - 1 \in 1..(N - 1))
        BY <1>3
      <4> QED BY <1>3, <1>4, <1>13, <1>17, <3>2, <4>1
    <3>3. CASE k = N + 1
      <4>1. k # 1 /\ k - 1 = N
        BY <1>3, <3>3
      <4> QED BY <1>6, <1>13, <3>3, <4>1
    <3> QED BY <1>3, <3>1, <3>2, <3>3
  <2>2. ASSUME NEW p \in DOMAIN data', ParentOf(Found[p]) \in Gone \cup {q}
        PROVE  \E k \in 1..(N + 1) : frames'[k].parent = ParentOf(Found[p])
    <3>1. CASE ParentOf(Found[p]) = q
      <4>1. N + 1 \in 1..(N + 1)
        BY <1>3
      <4> QED BY <1>13, <3>1, <4>1
    <3>2. CASE ParentOf(Found[p]) \in Gone
      <4>1. PICK k \in 1..N : frames[k].parent = ParentOf(Found[p])
        BY <1>4, <1>8, <3>2
      <4>2. frames'[k].parent = frames[k].parent /\ k \in 1..(N + 1)
        BY <1>3, <1>13
      <4> QED BY <4>1, <4>2
    <3> QED BY <2>2, <3>1, <3>2
  <2> QED BY <1>1, <1>13, <1>16, <2>1, <2>2 DEF Branching, ChildrenIn, ParentOf, Range
<1>19. Climbing'
  BY <1>7 DEF Climbing
<1>20. Rows'
  <2>1. /\ \A i, j \in 1..R : drawn[i].task = drawn[j].task => i = j
        /\ \A i \in 1..R : \E p \in Gone : drawn[i].task = Found[p]
        /\ \A p \in Gone : \E i \in 1..R : drawn[i].task = Found[p]
    BY <1>2 DEF Rows, R
  <2>2. \A i \in 1..R : drawn[i].task # t
    BY <1>6, <1>16, <2>1, SaneFacts DEF Gone
  <2>3. \A i \in 1..(R + 1) : i \in 1..R \/ i = R + 1
    BY <1>3
  <2>4. \A i, j \in 1..(R + 1) : drawn'[i].task = drawn'[j].task => i = j
    BY <1>9, <1>14, <2>1, <2>2, <2>3
  <2>5. \A i \in 1..(R + 1) : \E p \in Gone \cup {q} : drawn'[i].task = Found[p]
    BY <1>6, <1>9, <1>14, <2>1, <2>3
  <2>6. \A p \in Gone \cup {q} : \E i \in 1..(R + 1) : drawn'[i].task = Found[p]
    <3>1. R + 1 \in 1..(R + 1) /\ \A i \in 1..R : i \in 1..(R + 1)
      BY <1>3
    <3> QED BY <1>6, <1>9, <1>14, <2>1, <3>1
  <2> QED BY <1>14, <1>16, <2>4, <2>5, <2>6 DEF Rows
<1>21. ASSUME NEW i \in 1..(R + 1) PROVE RightBelow(i)'
  <2>1. CASE i \in 1..R
    <3>1. RightBelow(i)
      BY <1>2, <2>1
    <3>2. drawn'[i] = drawn[i] /\ \A j \in 1..(i - 1) : j \in 1..R /\ drawn'[j] = drawn[j]
      BY <1>3, <1>14, <2>1
    <3>3. Above(i)' = Above(i)
      BY <3>2 DEF Above
    <3>4. Above(i) # {} => Max(Above(i)) \in 1..(i - 1)
      <4>1. Above(i) \in SUBSET (1..R)
        BY <1>3, <2>1 DEF Above
      <4>2. Above(i) # {} => Max(Above(i)) \in Above(i)
        BY <1>3, <4>1, GreatestIndex DEF Max
      <4> QED BY <4>2 DEF Above
    <3> QED BY <1>1, <1>16, <3>1, <3>2, <3>3, <3>4 DEF RightBelow, ParentOf
  <2>2. CASE i = R + 1
    <3>1. drawn'[i].task = t /\ drawn'[i].pad = N - 1 /\ ParentOf(t) = parent
      BY <1>6, <1>9, <1>14, <2>2
    <3>2. ParentOf(drawn[i].task)' = parent
      BY <1>1, <3>1 DEF ParentOf
    <3>3. CASE parent \in DOMAIN Found
      <4>1. N \in 2..N /\ N \in 1..N
        BY <1>3, <1>4, <3>3
      <4>2. PICK j \in 1..R : OpenRow(N, j)
        BY <1>2, <4>1
      <4>3. /\ drawn[j] = [task |-> Found[parent], pad |-> N - 2]
            /\ \A m \in (j + 1)..R : drawn[m].pad >= N - 1
        BY <1>3, <4>2 DEF OpenRow, R
      <4>4. Above(i)' = {m \in 1..R : drawn[m].pad < N - 1}
        <5>1. i - 1 = R
          BY <1>3, <2>2
        <5> QED BY <1>14, <3>1, <5>1 DEF Above
      <4>5. j \in Above(i)' /\ \A m \in Above(i)' : j >= m /\ m \in Nat /\ j \in Nat
        <5>1. drawn[j].pad = N - 2 /\ N - 2 < N - 1
          BY <1>3, <4>3
        <5>2. ASSUME NEW m \in 1..R, m > j PROVE ~(drawn[m].pad < N - 1)
          <6>1. m \in (j + 1)..R
            BY <1>3, <5>2
          <6> QED BY <1>3, <1>15, <4>3, <6>1
        <5> QED BY <1>3, <4>4, <5>1, <5>2
      <4>6. Max(Above(i)') = j
        <5> DEFINE A == Above(i)'
        <5>1. j \in A /\ \A m \in A : j >= m /\ m \in Nat /\ j \in Nat
          BY <4>5
        <5> HIDE DEF A
        <5>2. Max(A) \in A /\ \A m \in A : Max(A) >= m
          BY <5>1 DEF Max
        <5>3. Max(A) \in Nat /\ j \in Nat /\ j >= Max(A) /\ Max(A) >= j
          BY <5>1, <5>2
        <5>4. Max(A) = j
          BY <5>3
        <5> QED BY <5>4 DEF A
      <4>7. drawn'[j] = [task |-> Found[parent], pad |-> drawn'[i].pad - 1]
        BY <1>3, <1>14, <3>1, <4>3
      <4> QED BY <1>16, <3>2, <3>3, <4>5, <4>6, <4>7 DEF RightBelow, Max
    <3>4. CASE parent \notin DOMAIN Found
      <4>1. N = 1
        BY <1>3, <1>4, <3>4 DEF Gone
      <4> QED BY <1>16, <3>1, <3>2, <3>4, <4>1 DEF RightBelow
    <3> QED BY <3>3, <3>4
  <2> QED BY <1>3, <2>1, <2>2
<1>22. ASSUME NEW k \in 2..(N + 1) PROVE \E j \in 1..(R + 1) : OpenRow(k, j)'
  <2>1. CASE k = N + 1
    <3>1. drawn'[R + 1] = [task |-> Found[q], pad |-> k - 2]
      <4>1. row = [task |-> t, pad |-> N - 1] /\ k - 2 = N - 1
        BY <1>3, <2>1 DEF row
      <4> QED BY <1>6, <1>14, <4>1
    <3>2. R + 1 \in 1..(R + 1) /\ ((R + 1) + 1)..(R + 1) = {}
      BY <1>3
    <3>3. ASSUME NEW j, j = R + 1 PROVE OpenRow(k, j)'
      BY <1>13, <1>14, <1>16, <2>1, <3>1, <3>2, <3>3 DEF OpenRow
    <3> QED BY <3>2, <3>3
  <2>2. CASE k # N + 1
    <3>1. k \in 2..N
      BY <1>3, <2>2
    <3>2. PICK j \in 1..R : OpenRow(k, j)
      BY <1>2, <3>1
    <3>3. frames'[k].parent = frames[k].parent /\ drawn'[j] = drawn[j] /\ j \in 1..(R + 1)
      BY <1>3, <1>13, <1>14, <3>1
    <3>4. drawn'[j] = [task |-> Found[frames'[k].parent], pad |-> k - 2]
      BY <3>2, <3>3 DEF OpenRow
    <3>5. \A m \in (j + 1)..(R + 1) : drawn'[m].pad >= k - 1
      <4> SUFFICES ASSUME NEW m \in (j + 1)..(R + 1) PROVE drawn'[m].pad >= k - 1
        OBVIOUS
      <4>1. CASE m = R + 1
        <5>1. N - 1 >= k - 1
          BY <1>3, <3>1
        <5> QED BY <1>9, <1>14, <4>1, <5>1
      <4>2. CASE m # R + 1
        <5>1. m \in (j + 1)..R /\ m \in 1..R
          BY <1>3, <4>2
        <5> QED BY <1>14, <3>2, <5>1 DEF OpenRow, R
      <4> QED BY <4>1, <4>2
    <3>6. OpenRow(k, j)'
      BY <1>14, <1>16, <3>4, <3>5 DEF OpenRow
    <3> QED BY <3>3, <3>6
  <2> QED BY <2>1, <2>2
<1> QED BY <1>7, <1>13, <1>14, <1>18, <1>19, <1>20, <1>21, <1>22 DEF DrawnInv

LEMMA DrawnStep ==
  ASSUME WalkInv, TreeInv, DrawnInv, [Next]_vars
  PROVE  DrawnInv'
<1>1. CASE Calculate
  BY <1>1, CalculateDrawn
<1>2. CASE UNCHANGED vars
  <2>1. /\ memory' = memory /\ out' = out /\ stage' = stage /\ data' = data /\ pid' = pid
        /\ climbed' = climbed /\ frames' = frames /\ drawn' = drawn
    BY <1>2 DEF vars, walk, tree
  <2>2. Found' = Found /\ Gone' = Gone /\ RingFree' = RingFree /\ Whole' = Whole
    BY <2>1, SameTasks DEF Gone
  <2>3. /\ \A i : RightBelow(i)' = RightBelow(i)
        /\ \A k, j : OpenRow(k, j)' = OpenRow(k, j)
    BY <2>1, <2>2, SameRows DEF OpenRow
  <2>4. Branching' = Branching
    BY <2>1, <2>2 DEF Branching, ChildrenIn, ParentOf, Range
  <2>5. Climbing' = Climbing /\ Rows' = Rows
    BY <2>1, <2>2 DEF Climbing, Rows, ParentOf
  <2> QED BY <2>1, <2>2, <2>3, <2>4, <2>5 DEF DrawnInv
<1>3. CASE WalkNext /\ UNCHANGED tree
  <2>1. ~over
    BY <1>3 DEF WalkNext, ListItem, ListEnd, VadChild, HandlePage, HandleEntry, Back, Kind
  <2>2. stage' = "walk"
    BY <1>3, <2>1 DEF TreeInv, tree
  <2> QED BY <2>2 DEF DrawnInv
<1>4. CASE NextRoot \/ Done \/ Climb \/ Root \/ DrawTask \/ Return
  <2>1. stage # "walk" /\ memory' = memory /\ out' = out
    BY <1>4 DEF NextRoot, Done, Climb, Root, DrawTask, Return, walk
  <2>2. RingFree' = RingFree /\ Whole' = Whole
    BY <2>1, SameTasks
  <2>3. CASE RingFree /\ Whole
    <3>1. Sane
      BY <2>1, <2>3 DEF Sane
    <3> QED BY <1>4, <3>1, ClimbDrawn, RootDrawn, TaskDrawn, ReturnDrawn
  <2>4. CASE ~(RingFree /\ Whole)
    BY <2>2, <2>4 DEF DrawnInv
  <2> QED BY <2>3, <2>4
<1> QED BY <1>1, <1>2, <1>3, <1>4 DEF Next

(* Where no process is its own ancestor and none is torn, pstree draws     *)
(* each process that was found once, right below its parent if that was    *)
(* found and at the margin otherwise, and does not raise, although the     *)
(* dictionary shrinks under the calls that go through it.                  *)
THEOREM EveryProcessDrawnOnce == Spec => []TreeDrawnOnce
<1>1. Init => DrawnInv
  BY DEF Init, TreeInit, DrawnInv
<1>2. WalkInv /\ TreeInv /\ DrawnInv /\ [Next]_vars => DrawnInv'
  BY DrawnStep
<1>3. WalkInv /\ TreeInv /\ DrawnInv => TreeDrawnOnce
  <2> SUFFICES ASSUME WalkInv, TreeInv, DrawnInv, stage # "walk", RingFree, Whole
               PROVE  /\ stage # "raised"
                      /\ \A i, j \in DOMAIN drawn : drawn[i].task = drawn[j].task => i = j
                      /\ \A i \in DOMAIN drawn :
                           LET parent == ParentOf(drawn[i].task)
                               above == {j \in 1..(i - 1) : drawn[j].pad < drawn[i].pad}
                           IN IF parent \in DOMAIN Found
                              THEN /\ above # {}
                                   /\ drawn[Max(above)] =
                                        [task |-> Found[parent], pad |-> drawn[i].pad - 1]
                              ELSE drawn[i].pad = 0
                      /\ stage = "done" => {drawn[i].task : i \in DOMAIN drawn} = Range(Found)
    BY DEF TreeDrawnOnce
  <2>1. Sane
    BY DEF Sane
  <2>2. DOMAIN drawn = 1..Len(drawn)
    BY <2>1, SaneFacts
  <2>3. /\ stage # "raised" /\ (stage = "done" => DOMAIN data = {})
        /\ Rows /\ \A i \in 1..Len(drawn) : RightBelow(i)
    BY DEF DrawnInv
  <2>4. stage = "done" => {drawn[i].task : i \in DOMAIN drawn} = Range(Found)
    BY <2>2, <2>3 DEF Rows, Gone, Range
  <2> QED BY <2>2, <2>3, <2>4 DEF Rows, RightBelow, Above
<1> QED BY <1>1, <1>2, <1>3, TreeInvHolds, PTL DEF Spec
-----------------------------------------------------------------------------
(* What find_root has got to is the parent of a task it has left, which is *)
(* still in data: nothing is deleted while it climbs.                      *)
RootInv ==
  stage = "climb" =>
    IF climbed = {} THEN pid \in DOMAIN data
    ELSE \E c \in climbed : c \in DOMAIN data /\ ParentOf(data[c]) = pid

LEMMA RootStep ==
  ASSUME WalkInv, TreeInv, RootInv, [Next]_vars
  PROVE  RootInv'
<1>1. CASE NextRoot
  BY <1>1 DEF NextRoot, RootInv
<1>2. CASE Climb
  <2>1. /\ memory' = memory /\ data' = data /\ pid \in DOMAIN data
        /\ climbed' = climbed \cup {pid} /\ pid' = ParentOf(data[pid])
    BY <1>2 DEF Climb, Higher, walk
  <2>2. pid \in climbed' /\ pid \in DOMAIN data'
    BY <2>1
  <2>3. \A c : (ParentOf(data[c]) = pid)' <=> ParentOf(data[c]) = ParentOf(data[pid])
    BY <2>1 DEF ParentOf
  <2> QED BY <2>2, <2>3 DEF RootInv
<1>3. CASE Calculate \/ Done \/ Root \/ DrawTask \/ Return
  BY <1>3 DEF Calculate, Done, Root, DrawTask, Return, RootInv
<1>4. CASE (WalkNext /\ UNCHANGED tree) \/ UNCHANGED vars
  <2>1. CASE stage = "climb"
    <3>1. over
      BY <2>1 DEF TreeInv
    <3>2. UNCHANGED vars
      BY <1>4, <3>1
      DEF WalkNext, ListItem, ListEnd, VadChild, HandlePage, HandleEntry, Back, Kind
    <3>3. memory' = memory /\ UNCHANGED <<stage, data, pid, climbed>>
      BY <3>2 DEF vars, walk, tree
    <3> QED BY <3>3 DEF RootInv, ParentOf
  <2>2. CASE stage # "climb"
    BY <1>4, <2>2 DEF vars, tree, RootInv
  <2> QED BY <2>1, <2>2
<1> QED BY <1>1, <1>2, <1>3, <1>4 DEF Next

(* Where none is torn, find_root comes to rest where something hangs: the  *)
(* call of draw_branch that follows has a task to take out, and the loop   *)
(* over the dictionary loses one with each turn.                           *)
THEOREM EveryRootHasChildren == Spec => []RootHasChildren
<1>1. Init => RootInv
  BY DEF Init, TreeInit, RootInv
<1>2. WalkInv /\ TreeInv /\ RootInv /\ [Next]_vars => RootInv'
  BY RootStep
<1>3. WalkInv /\ TreeInv /\ RootInv => RootHasChildren
  <2> SUFFICES ASSUME WalkInv, TreeInv, RootInv, stage = "climb", ~Higher, Whole
               PROVE  ChildrenIn(data, pid) # {}
    BY DEF RootHasChildren
  <2>1. climbed # {}
    BY DEF RootInv, Higher
  <2>2. PICK c \in climbed : c \in DOMAIN data /\ ParentOf(data[c]) = pid
    BY <2>1 DEF RootInv
  <2>3. out \in Seq(Nodes) /\ c \in DOMAIN Found /\ data[c] = Found[c]
    BY <2>2 DEF WalkInv, ListInv, TreeInv
  <2>4. PidOf(data[c]) = c
    BY <2>3, FoundFacts
  <2>5. data[c] \notin memory.torn
    BY <2>3, <2>4 DEF PidOf, Whole
  <2>6. data[c] \in Range(data)
    BY <2>2 DEF Range
  <2>7. data[c] \in ChildrenIn(data, pid)
    BY <2>2, <2>5, <2>6 DEF ChildrenIn
  <2> QED BY <2>7
<1> QED BY <1>1, <1>2, <1>3, TreeInvHolds, PTL DEF Spec
=============================================================================
