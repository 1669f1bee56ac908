---------------------------- MODULE ProfileBuild ----------------------------
(***************************************************************************)
(* How a profile is put together: BaseAddressSpace._set_profile            *)
(* (addrspace.py) takes it from PROFILES or instantiates it; Profile.reset *)
(* (obj.py) clears it, loads its vtypes, applies every ProfileModification *)
(* in an order that respects their before and after lists, and compiles    *)
(* the types.                                                              *)
(*                                                                         *)
(* _resolve_mod_dependencies repeatedly pulls the modifications without    *)
(* unmet dependencies out of the graph; it is a generator, so that what it *)
(* raises, it raises in the loop of load_modifications.  A modification is *)
(* a number: they are applied alphabetically inside a layer.               *)
(***************************************************************************)
EXTENDS Integers, Sequences, FiniteSets

CONSTANTS
    Names,          \* names of modifications, in alphabetical order
    Graphs,         \* the sets of modifications that plugins may define
    MaxAttempts     \* bound: constructors that ask for the profile

ASSUME NamesAssumption == Names \subseteq Nat /\ MaxAttempts \in Nat

ASSUME GraphAssumption ==
    \A g \in Graphs :
        /\ g.mods \subseteq Names               \* concrete modifications
        /\ g.before \in [g.mods -> SUBSET Names]
        /\ g.after \in [g.mods -> SUBSET Names]
        /\ g.applies \subseteq g.mods           \* those whose check holds
        /\ g.duplicate \in BOOLEAN              \* two classes of one name

VARIABLES
    graph,      \* the modifications that were imported
    stage,      \* "idle", "resolve", "apply" or "compile"
    data,       \* dependencies left, for the names not yet in a layer
    layers,     \* the list result of _resolve_mod_dependencies
    mods,       \* applied_modifications, self._mods
    profiles,   \* whether PROFILES holds the profile
    outcome,    \* how the last attempt ended
    attempts    \* attempts made

profileVars == <<graph, stage, data, layers, mods, profiles, outcome, attempts>>

------------------------------------------------------------------------------
\* Slip: the after lists are not turned into edges.
DependsBeforeOnly(n) ==
    (IF n \in graph.mods THEN graph.before[n] ELSE {}) \ {n}

\* What has to come before n: its own before list, and the modifications that
\* name n in their after list.  Self dependencies are ignored.
Depends(n) ==
    ((IF n \in graph.mods THEN graph.before[n] ELSE {})
        \cup {m \in graph.mods : n \in graph.after[m]}) \ {n}

\* Every name in the graph, those that only occur as a dependency included.
Mentioned ==
    graph.mods \cup UNION {graph.before[m] \cup graph.after[m] : m \in graph.mods}

\* The items with no dependencies left.
NoDeps == {n \in DOMAIN data : data[n] = {}}

Pulled == UNION {layers[i] : i \in 1 .. Len(layers)}

\* The first name of the first layer that has not been consumed: layers keeps
\* what load_modifications has still to go through.
IsNext(n) ==
    /\ layers # <<>>
    /\ n \in Head(layers)
    /\ \A m \in Head(layers) : n <= m

Consumed(n) ==
    IF Head(layers) = {n} THEN Tail(layers)
    ELSE [layers EXCEPT ![1] = @ \ {n}]

------------------------------------------------------------------------------
ProfileInit ==
    /\ graph \in Graphs
    /\ stage = "idle"
    /\ data = <<>>
    /\ layers = <<>>
    /\ mods = <<>>
    /\ profiles = FALSE
    /\ outcome = "none"
    /\ attempts = 0

\* The constructor of an address space asks for a profile that PROFILES has.
CachedProfile ==
    /\ stage = "idle" /\ profiles
    /\ attempts < MaxAttempts
    /\ attempts' = attempts + 1
    /\ outcome' = "cached"
    /\ UNCHANGED <<graph, stage, data, layers, mods, profiles>>

\* It has not: the profile is instantiated, reset, and the graph is built.
\* Two modifications of one name raise RuntimeError before that.
NewProfile ==
    /\ stage = "idle" /\ ~profiles
    /\ attempts < MaxAttempts
    /\ attempts' = attempts + 1
    /\ mods' = <<>>
    /\ layers' = <<>>
    /\ IF graph.duplicate
       THEN outcome' = "RuntimeError" /\ UNCHANGED <<stage, data>>
       ELSE /\ outcome' = "none"
            /\ stage' = "resolve"
            /\ data' = [n \in Mentioned |-> Depends(n)]
    /\ UNCHANGED <<graph, profiles>>

\* One turn of the loop of _resolve_mod_dependencies.
PullLayer ==
    /\ stage = "resolve" /\ NoDeps # {}
    /\ layers' = Append(layers, NoDeps)
    /\ data' = [n \in DOMAIN data \ NoDeps |-> data[n] \ NoDeps]
    /\ UNCHANGED <<graph, stage, mods, profiles, outcome, attempts>>

\* The loop ends with items left: a warning, and the generator stops before it
\* has yielded anything, so that no modification at all is applied.
CyclicGraph ==
    /\ stage = "resolve" /\ NoDeps = {} /\ DOMAIN data # {}
    /\ layers' = <<>>
    /\ stage' = "compile"
    /\ outcome' = "cyclic"
    /\ UNCHANGED <<graph, data, mods, profiles, attempts>>

\* The loop ends with every item in a layer.
Resolved ==
    /\ stage = "resolve" /\ NoDeps = {} /\ DOMAIN data = {}
    /\ stage' = "apply"
    /\ UNCHANGED <<graph, data, layers, mods, profiles, outcome, attempts>>

\* Slip: check() is not asked.
ApplyUnchecked(n) ==
    /\ stage = "apply" /\ IsNext(n)
    /\ n \in graph.mods
    /\ mods' = Append(mods, n)
    /\ layers' = Consumed(n)
    /\ UNCHANGED <<graph, stage, data, profiles, outcome, attempts>>

\* One turn of the loop of load_modifications.
Apply(n) ==
    /\ stage = "apply" /\ IsNext(n)
    /\ n \in graph.mods
    /\ mods' = IF n \in graph.applies THEN Append(mods, n) ELSE mods
    /\ layers' = Consumed(n)
    /\ UNCHANGED <<graph, stage, data, profiles, outcome, attempts>>

\* "No concrete ProfileModification found": what was applied stays applied, but
\* the exception leaves the constructor and the profile is dropped.
NotConcrete(n) ==
    /\ stage = "apply" /\ IsNext(n)
    /\ n \notin graph.mods
    /\ stage' = "idle"
    /\ outcome' = "RuntimeError"
    /\ UNCHANGED <<graph, data, layers, mods, profiles, attempts>>

\* The loop of load_modifications is over.
AllApplied ==
    /\ stage = "apply" /\ layers = <<>>
    /\ stage' = "compile"
    /\ outcome' = "complete"
    /\ UNCHANGED <<graph, data, layers, mods, profiles, attempts>>

\* The types are compiled and the profile is saved.
Compile ==
    /\ stage = "compile"
    /\ stage' = "idle"
    /\ profiles' = TRUE
    /\ UNCHANGED <<graph, data, layers, mods, outcome, attempts>>

ProfileNext ==
    \/ CachedProfile
    \/ NewProfile
    \/ PullLayer
    \/ CyclicGraph
    \/ Resolved
    \/ \E n \in Names : Apply(n) \/ NotConcrete(n)
    \/ AllApplied
    \/ Compile

\* One thread builds the profile; nothing interrupts it.
ProfileSpec == ProfileInit /\ [][ProfileNext]_profileVars /\ WF_profileVars(ProfileNext)

------------------------------------------------------------------------------
ProfileTypeOK ==
    /\ graph \in Graphs
    /\ stage \in {"idle", "resolve", "apply", "compile"}
    /\ DOMAIN data \subseteq Mentioned
    /\ \A n \in DOMAIN data : data[n] \subseteq Names
    /\ layers \in Seq((SUBSET Names) \ {{}})
    /\ mods \in Seq(Names)
    /\ profiles \in BOOLEAN
    /\ outcome \in {"none", "RuntimeError", "cyclic", "complete", "cached"}
    /\ attempts \in 0 .. MaxAttempts

\* n has to be applied before m.
Precedes(n, m) ==
    /\ n # m
    /\ \/ n \in graph.before[m]
       \/ m \in graph.after[n]

\* An overlay only fills in what an earlier one has defined: at every moment a
\* modification has been applied after all those that its before list, or
\* their after lists, put before it.
DependenciesFirst ==
    \A i, j \in 1 .. Len(mods) : Precedes(mods[i], mods[j]) => i < j

\* Some modifications wait for each other.
Cyclic ==
    \E S \in SUBSET Mentioned :
        /\ S # {}
        /\ \A n \in S : Depends(n) \cap S # {}

\* No modification is lost or applied twice: what PROFILES serves either has
\* every modification whose check holds, once, or the graph has a cycle, and
\* then it has none.
NothingLost ==
    profiles => ~graph.duplicate /\
        IF Cyclic THEN mods = <<>>
        ELSE /\ Mentioned = graph.mods
             /\ {mods[i] : i \in 1 .. Len(mods)} = graph.applies
             /\ \A i, j \in 1 .. Len(mods) : mods[i] = mods[j] => i = j

\* The warning about a cyclic dependency is never a false alarm.
NoFalseAlarm == outcome = "cyclic" => Cyclic

==============================================================================
