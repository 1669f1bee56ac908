---------------------------- MODULE StartUpProofs ----------------------------
(***************************************************************************)
(* What holds of the three things that vol.py does before a plugin reads   *)
(* memory: it settles the configuration, builds the profile and stacks     *)
(* the address spaces on the image.                                        *)
(***************************************************************************)
EXTENDS ConfResolve, ProfileBuild, VotingStack,
        SequenceTheorems, WellFoundedInduction, TLAPS

------------------------------------------------------------------------------
(***************************************************************************)
(* ConfResolve, for all options, plugins and command lines.                *)
(*                                                                         *)
(* A parse that stops early is harmless because the values read depend on  *)
(* nothing but the line and the options registered.  Booting says what is  *)
(* known before the user's file is read, Parses that what was read from    *)
(* the line is what the registered options get from it, FilesRead which    *)
(* files have been read and in which order.  When a plugin runs, the last  *)
(* parse has not exited, so that the line holds nothing wrong, and a value *)
(* is found where Get looks first.                                         *)
(***************************************************************************)

(* A set of numbers has a smallest one.                                    *)
LEMMA NatMin ==
  ASSUME NEW T \in SUBSET Nat, T # {}
  PROVE  \E x \in T : \A y \in T : x <= y
<1>1. IsWellFoundedOn(OpToRel(<, Nat), Nat)
  BY NatLessThanWellFounded
<1>2. PICK x \in T : \A y \in T : ~ (<<y, x>> \in OpToRel(<, Nat))
  BY <1>1, WFMin
<1>3. \A y \in T : ~(y < x)
  BY <1>2 DEF OpToRel
<1>4. x \in Nat /\ \A y \in T : y \in Nat
  BY <1>2
<1>5. \A y \in T : x <= y
  BY <1>3, <1>4
<1> QED BY <1>2, <1>5

(* A set of positions has a last one.                                      *)
LEMMA NatMax ==
  ASSUME NEW n \in Nat, NEW S \in SUBSET (1..n), S # {}
  PROVE  \E x \in S : \A y \in S : y <= x
<1> DEFINE T == {n - s : s \in S}
<1>1. \A s \in S : s \in Int /\ n - s \in Nat
  OBVIOUS
<1>2. T \in SUBSET Nat
  BY <1>1
<1>3. T # {}
  <2>1. PICK s \in S : TRUE
    OBVIOUS
  <2>2. n - s \in T
    BY <2>1
  <2> QED BY <2>2
<1>4. PICK t \in T : \A u \in T : t <= u
  <2> HIDE DEF T
  <2> QED BY <1>2, <1>3, NatMin
<1>5. PICK x \in S : t = n - x
  BY <1>4
<1>6. \A y \in S : n - x <= n - y
  BY <1>4, <1>5
<1> QED BY <1>1, <1>6

(* The last occurrence of an option is one of its occurrences.             *)
LEMMA LastIsIn ==
  ASSUME NEW n \in Nat, NEW S \in SUBSET (1..n), S # {}
  PROVE  Last(S) \in S
BY NatMax DEF Last

(* What is appended to a sequence of values makes one that is not empty.    *)
LEMMA AppendIsSeq ==
  ASSUME NEW S, NEW s \in Seq(S), NEW e \in S
  PROVE  Append(s, e) \in Seq(S) /\ Append(s, e) # <<>>
<1>1. Append(s, e) \in Seq(S) /\ Len(Append(s, e)) = Len(s) + 1 /\ Len(s) \in Nat
  OBVIOUS
<1>2. Len(<<>>) = 0
  OBVIOUS
<1> QED BY <1>1, <1>2

(* What is parsed is a value.                                              *)
LEMMA ParsedType ==
  ASSUME line \in Lines, NEW K \in SUBSET Opts
  PROVE  /\ Parsed(K) \in [Opts -> MaybeValue]
         /\ \A o \in Opts : Parsed(K)[o] # None <=> Given(o, K) # {}
<1> USE OptionsAssumption, InputAssumption
<1>1. line \in Seq(Token)
  OBVIOUS
<1>2. ASSUME NEW o \in Opts, Given(o, K) # {}
      PROVE  line[Last(Given(o, K))].val \in Values
  <2>1. Given(o, K) \in SUBSET (1..Len(line)) /\ Len(line) \in Nat
    BY <1>1 DEF Given
  <2>2. Last(Given(o, K)) \in Given(o, K)
    BY <2>1, <1>2, LastIsIn
  <2> DEFINE i == Last(Given(o, K))
  <2>3. i \in DOMAIN line /\ line[i].opt = o /\ o \in K /\ ~Stops(i, K) /\ ~Fails(i, K)
    BY <2>2 DEF Given
  <2>4. line[i].val \notin {Bad, Missing} /\ line[i] \in Token
    BY <1>1, <2>3 DEF Stops, Fails
  <2> QED BY <2>4 DEF Token
<1> QED BY <1>2 DEF Parsed, MaybeValue

(* What the files say is a value.                                          *)
LEMMA FromFilesType ==
  ASSUME NEW files \in Seq(Values)
  PROVE  FromFiles(files) \in [Opts -> MaybeValue]
<1> USE OptionsAssumption, InputAssumption
<1> SUFFICES ASSUME NEW o \in Opts,
                    NEW said, said = {i \in DOMAIN files : Contents[files[i]][o] # None},
                    said # {}
             PROVE  Contents[files[Last(said)]][o] \in MaybeValue
  BY DEF FromFiles, MaybeValue
<1>1. said \in SUBSET (1..Len(files)) /\ Len(files) \in Nat
  OBVIOUS
<1>2. Last(said) \in said
  BY <1>1, LastIsIn
<1>3. files[Last(said)] \in Values
  BY <1>2
<1> QED BY <1>3

(* A parse keeps the types of what it fills.                               *)
LEMMA ParseType ==
  ASSUME TypeOK, NEW K \in SUBSET Opts, Parse(K)
  PROVE  /\ opts' \in [Opts -> MaybeValue]
         /\ values' \in [Opts -> MaybeValue]
BY ParsedType DEF Parse, TypeOK

(* As long as conf.py is being imported, CONF-FILE gets its default.       *)
Booting ==
  phase = "boot" =>
    \/ todo = << <<"add", ConfOpt>> >> /\ options = {}
    \/ todo = <<>> /\ defaults[ConfOpt] # None

(* Every variable keeps its type: whatever the line holds, only values are *)
(* stored, and the file that is read has a name.                           *)
LEMMA InitTypeOK == Init => TypeOK /\ Booting
<1> USE OptionsAssumption, InputAssumption
<1> SUFFICES ASSUME Init PROVE TypeOK /\ Booting
  OBVIOUS
<1>1. Contents[SysFile] \in [Opts -> MaybeValue]
  OBVIOUS
<1>2. <<SysFile>> \in Seq(Values) /\ <<SysFile>> # <<>>
  OBVIOUS
<1>3. << <<"add", ConfOpt>> >> \in Seq({"add", "remove"} \X Opts)
  OBVIOUS
<1> QED BY <1>1, <1>2, <1>3 DEF Init, TypeOK, Booting, Phases, MaybeValue

(* Every step keeps the types, and what is known while conf.py is imported. *)
LEMMA NextTypeOK == TypeOK /\ Booting /\ [Next]_vars => TypeOK' /\ Booting'
<1> USE OptionsAssumption, InputAssumption
<1> SUFFICES ASSUME TypeOK, Booting, [Next]_vars PROVE TypeOK' /\ Booting'
  OBVIOUS
<1>todo. \A q \in Seq({"add", "remove"} \X Opts) :
           q # <<>> => Head(q)[2] \in Opts /\ Tail(q) \in Seq({"add", "remove"} \X Opts)
  OBVIOUS
<1>1. ASSUME NEW o \in Opts, Add(o)
      PROVE  /\ options' \subseteq Opts
             /\ defaults' \in [Opts -> MaybeValue]
             /\ opts' \in [Opts -> MaybeValue] /\ values' \in [Opts -> MaybeValue]
  <2>1. CASE o \in options
    BY <1>1, <2>1 DEF Add, TypeOK
  <2>2. CASE o \notin options
    <3>1. options' = options \cup {o} /\ Parse(options')
          /\ defaults' = [defaults EXCEPT ![o] = Defaults[o]]
      BY <1>1, <2>2 DEF Add
    <3>2. options' \in SUBSET Opts
      BY <3>1 DEF TypeOK
    <3>3. opts' \in [Opts -> MaybeValue] /\ values' \in [Opts -> MaybeValue]
      BY <3>1, <3>2, ParseType
    <3> QED BY <3>1, <3>2, <3>3 DEF TypeOK
  <2> QED BY <2>1, <2>2
<1>2. CASE AddOption
  <2> DEFINE o == Head(todo)[2]
  <2>1. o \in Opts /\ todo' \in Seq({"add", "remove"} \X Opts)
    BY <1>2, <1>todo DEF AddOption, TypeOK
  <2>2. Add(o)
    BY <1>2 DEF AddOption
  <2>3. TypeOK'
    <3> HIDE DEF o
    <3> QED BY <1>1, <1>2, <2>1, <2>2 DEF AddOption, TypeOK
  <2>4. ASSUME phase = "boot" PROVE Booting'
    <3>1. todo = << <<"add", ConfOpt>> >> /\ options = {}
      BY <1>2, <2>4 DEF AddOption, Booting
    <3>2. o = ConfOpt /\ todo' = <<>>
      BY <3>1, <1>2 DEF AddOption
    <3>3. defaults' = [defaults EXCEPT ![ConfOpt] = Defaults[ConfOpt]]
      BY <2>2, <3>1, <3>2 DEF Add
    <3> QED BY <3>2, <3>3 DEF Booting, TypeOK
  <2> QED BY <1>2, <2>3, <2>4 DEF AddOption, Booting
<1>3. CASE RemoveOption
  <2>1. phase # "boot"
    BY <1>3 DEF RemoveOption, Booting
  <2> DEFINE o == Head(todo)[2]
  <2>2. o \in Opts /\ todo' \in Seq({"add", "remove"} \X Opts)
    BY <1>3, <1>todo DEF RemoveOption, TypeOK
  <2>3. CASE o \notin options
    BY <1>3, <2>1, <2>2, <2>3 DEF RemoveOption, TypeOK, Booting
  <2>4. CASE o \in options
    <3>1. /\ options' = options \ {o} /\ Parse(options')
          /\ readonly' = [readonly EXCEPT ![o] = None]
          /\ defaults' = [defaults EXCEPT ![o] = None]
      BY <1>3, <2>4 DEF RemoveOption
    <3>2. options' \in SUBSET Opts
      BY <3>1 DEF TypeOK
    <3>3. opts' \in [Opts -> MaybeValue] /\ values' \in [Opts -> MaybeValue]
      BY <3>1, <3>2, ParseType
    <3>4. readonly' \in [Opts -> MaybeValue] /\ defaults' \in [Opts -> MaybeValue]
      BY <3>1, <2>2 DEF TypeOK, MaybeValue
    <3>5. UNCHANGED <<line, env, phase, cnf, filenames, module, updates>>
      BY <1>3 DEF RemoveOption
    <3> QED BY <2>1, <2>2, <3>2, <3>3, <3>4, <3>5 DEF TypeOK, Booting
  <2> QED BY <2>3, <2>4
<1>4. CASE ReadUserFile
  <2>1. Get(ConfOpt) \in Values
    <3>1. defaults[ConfOpt] \in Values
      BY <1>4 DEF ReadUserFile, Booting, TypeOK, MaybeValue
    <3> QED BY <3>1 DEF Get, TypeOK, MaybeValue
  <2>2. filenames' \in Seq(Values) /\ filenames' # <<>>
    BY <1>4, <2>1 DEF ReadUserFile, AddFile, TypeOK
  <2>3. cnf' \in [Opts -> MaybeValue]
    BY <1>4, <2>2, FromFilesType DEF ReadUserFile, AddFile
  <2> QED BY <1>4, <2>2, <2>3 DEF ReadUserFile, TypeOK, Booting, Phases
<1>5. ASSUME NEW o \in Opts, RegisterGlobal(o) PROVE TypeOK' /\ Booting'
  <2>1. Add(o)
    BY <1>5 DEF RegisterGlobal
  <2> QED BY <1>1, <1>5, <2>1 DEF RegisterGlobal, TypeOK, Booting
<1>6. CASE PickModule
  <2>1. opts' \in [Opts -> MaybeValue] /\ values' \in [Opts -> MaybeValue]
    BY <1>6, ParseType DEF PickModule, TypeOK
  <2>2. module' \in Commands \cup {None}
    <3> DEFINE found == {i \in Words(options) : line[i].val \in Commands}
    <3>1. CASE found = {}
      BY <1>6, <3>1 DEF PickModule, Module
    <3>2. CASE found # {}
      <4>1. \E i \in found : \A j \in found : i <= j
        <5>1. found \in SUBSET Nat
          BY DEF Words, TypeOK
        <5> HIDE DEF found
        <5> QED BY <3>2, <5>1, NatMin
      <4>2. First(found) \in found
        <5> HIDE DEF found
        <5> QED BY <4>1 DEF First
      <4> QED BY <1>6, <3>2, <4>2 DEF PickModule, Module
    <3> QED BY <3>1, <3>2
  <2>3. CASE module' = None
    BY <1>6, <2>1, <2>2, <2>3 DEF PickModule, TypeOK, Booting, Phases
  <2>4. CASE module' # None
    BY <1>6, <2>1, <2>2, <2>4 DEF PickModule, TypeOK, Booting, Phases
  <2> QED BY <2>3, <2>4
<1>7. CASE FinalParse
  <2>1. CASE Wrong
    BY <1>7, <2>1 DEF FinalParse, TypeOK, Booting, Phases
  <2>2. CASE ~Wrong
    <3>1. opts' \in [Opts -> MaybeValue] /\ values' \in [Opts -> MaybeValue]
      BY <1>7, <2>2, ParseType DEF FinalParse, TypeOK
    <3>2. filenames' \in Seq(Values) /\ filenames' # <<>>
      <4>1. filenames[Len(filenames)] \in Values
        BY DEF TypeOK
      <4>2. filenames' = Append(filenames, filenames[Len(filenames)])
        BY <1>7, <2>2 DEF FinalParse, AddFile
      <4>3. filenames \in Seq(Values)
        BY DEF TypeOK
      <4> QED BY <4>1, <4>2, <4>3, AppendIsSeq
    <3>3. cnf' \in [Opts -> MaybeValue]
      BY <1>7, <2>2, <3>2, FromFilesType DEF FinalParse, AddFile
    <3> QED BY <1>7, <2>2, <3>1, <3>2, <3>3 DEF FinalParse, TypeOK, Booting, Phases
  <2> QED BY <2>1, <2>2
<1>8. ASSUME NEW o \in Updates, NEW v \in Values, Update(o, v) PROVE TypeOK' /\ Booting'
  BY <1>8 DEF Update, TypeOK, Booting, MaybeValue
<1>9. ASSUME NEW c \in Nested, MakePlugin(c) PROVE TypeOK' /\ Booting'
  BY <1>9 DEF MakePlugin, TypeOK, Booting, Phases
<1>10. CASE PluginMade
  BY <1>10 DEF PluginMade, TypeOK, Booting, Phases
<1>11. CASE UNCHANGED vars
  BY <1>11 DEF vars, TypeOK, Booting
<1> QED BY <1>2, <1>3, <1>4, <1>5, <1>6, <1>7, <1>8, <1>9, <1>10, <1>11 DEF Next

(* Whatever stands on the line and in the files, every table of the        *)
(* configuration maps options to values or to none, and _filenames always  *)
(* names a file to read.                                                   *)
THEOREM TypeCorrect == Spec => []TypeOK
<1>1. Spec => [](TypeOK /\ Booting)
  BY InitTypeOK, NextTypeOK, PTL DEF Spec
<1> QED BY <1>1, PTL
-----------------------------------------------------------------------------
(***************************************************************************)
(* What the parses leave behind.  Parsing with more options never reaches  *)
(* less of the line: an option that stands where a parse came by is found  *)
(* again.                                                                  *)
(***************************************************************************)

(* Who knows more options reads what was read before.                      *)
LEMMA GivenGrows ==
  ASSUME line \in Lines, NEW K, NEW L,
         \A i \in DOMAIN line : line[i].opt \in K => line[i].opt \in L,
         NEW o
  PROVE  Given(o, K) \subseteq Given(o, L)
<1> USE InputAssumption
<1>1. line \in Seq(Token)
  OBVIOUS
<1> SUFFICES ASSUME NEW i \in Given(o, K) PROVE i \in Given(o, L)
  OBVIOUS
<1>2. /\ i \in DOMAIN line /\ line[i].opt = o /\ o \in K
      /\ Reached(i, K) /\ ~Stops(i, K) /\ ~Fails(i, K)
  BY DEF Given
<1>3. o \in L /\ ~Stops(i, L) /\ ~Fails(i, L)
  BY <1>2 DEF Stops, Fails
<1>4. Reached(i, L)
  <2> SUFFICES ASSUME NEW j \in 1..(i - 1) PROVE ~Stops(j, L) /\ ~Fails(j, L)
    BY DEF Reached
  <2>1. j \in DOMAIN line /\ j # Len(line)
    BY <1>1, <1>2
  <2>2. ~Stops(j, K)
    BY <1>2 DEF Reached
  <2>3. line[j].val # Missing
    BY <2>1
  <2> QED BY <2>1, <2>2, <2>3 DEF Stops, Fails
<1> QED BY <1>2, <1>3, <1>4 DEF Given

(* When nothing on the line is wrong, a parse finds all of it.             *)
LEMMA AllGiven ==
  ASSUME line \in Lines, NEW K,
         \A i \in DOMAIN line : ~Stops(i, K) /\ ~Fails(i, K),
         NEW o \in K
  PROVE  Given(o, K) = OnLine(o)
<1>1. line \in Seq(Token)
  BY InputAssumption
<1>2. \A i \in DOMAIN line : \A j \in 1..(i - 1) : j \in DOMAIN line
  BY <1>1
<1>3. \A i \in DOMAIN line : Reached(i, K)
  BY <1>2 DEF Reached
<1> QED BY <1>3 DEF Given, OnLine

(* The parser's values are those of a parse with the options registered;   *)
(* so is opts, unless that parse met an option without its argument, and   *)
(* then opts holds at least nothing that such a parse has not seen.  A     *)
(* plugin runs only after nothing on the line was found wrong.             *)
Whole == \A i \in DOMAIN line : line[i].val # Missing
Parses ==
  /\ values = Parsed(options)
  /\ Whole => opts = Parsed(options)
  /\ \A o \in Opts : opts[o] # None => Given(o, options) # {}
  /\ phase \in {"run", "nested"} =>
       \A i \in DOMAIN line : line[i].val \notin {Bad, Missing}

(* A parse that fails at the missing argument has known the whole line.    *)
LEMMA RaisesKnowsLine ==
  ASSUME line \in Lines, NEW K \in SUBSET Opts, Raises(K)
  PROVE  ~Whole /\ \A i \in DOMAIN line : line[i].opt \in K \cup {None}
<1> USE OptionsAssumption, InputAssumption
<1>1. line \in Seq(Token)
  OBVIOUS
<1>2. PICK i \in DOMAIN line : Reached(i, K) /\ Fails(i, K)
  BY DEF Raises
<1>3. i = Len(line) /\ line[i].val = Missing /\ line[i].opt \in K
  BY <1>2 DEF Fails
<1>4. \A j \in 1..(i - 1) : line[j].opt \in K \cup {None}
  BY <1>2 DEF Reached, Stops
<1>5. \A j \in DOMAIN line : j = i \/ j \in 1..(i - 1)
  BY <1>1, <1>3
<1> QED BY <1>2, <1>3, <1>4, <1>5 DEF Whole

(* Nothing is registered and nothing is read at first.                     *)
LEMMA InitParses == Init => Parses
<1> USE OptionsAssumption, InputAssumption
<1> SUFFICES ASSUME Init PROVE Parses
  OBVIOUS
<1>1. \A o \in Opts : Given(o, {}) = {}
  BY DEF Given
<1>2. Parsed({}) = [o \in Opts |-> None]
  BY <1>1 DEF Parsed
<1> QED BY <1>2 DEF Init, Parses

(* Every parse with the options registered afterwards keeps the first      *)
(* three parts.                                                            *)
LEMMA ParseKeepsParses ==
  ASSUME TypeOK, Parses, NEW K \in SUBSET Opts, options' = K, Parse(K), line' = line
  PROVE  /\ values' = Parsed(K)
         /\ Whole => opts' = Parsed(K)
         /\ \A o \in Opts : opts'[o] # None => Given(o, K) # {}
         /\ \A o \in Opts : opts[o] # None /\ opts'[o] = None =>
              \E i \in DOMAIN line : line[i].opt \in options \ K
<1> USE OptionsAssumption, InputAssumption
<1>0. line \in Lines
  BY DEF TypeOK
<1>1. values' = Parsed(K)
  BY DEF Parse
<1>2. CASE Raises(K)
  <2>1. opts' = opts
    BY <1>2 DEF Parse
  <2>2. ~Whole /\ \A i \in DOMAIN line : line[i].opt \in K \cup {None}
    BY <1>0, <1>2, RaisesKnowsLine
  <2>3. \A i \in DOMAIN line : line[i].opt \in options => line[i].opt \in K
    BY <2>2 DEF TypeOK
  <2>4. \A o \in Opts : Given(o, options) \subseteq Given(o, K)
    BY <1>0, <2>3, GivenGrows
  <2> QED BY <1>1, <2>1, <2>2, <2>4 DEF Parses
<1>3. CASE ~Raises(K)
  <2>1. opts' = Parsed(K)
    BY <1>3 DEF Parse
  <2>2. \A o \in Opts : Parsed(K)[o] # None <=> Given(o, K) # {}
    BY <1>0, ParsedType
  <2>3. ASSUME NEW o \in Opts, opts[o] # None, opts'[o] = None
        PROVE  \E i \in DOMAIN line : line[i].opt \in options \ K
    <3>1. Given(o, options) # {} /\ Given(o, K) = {}
      BY <2>1, <2>2, <2>3 DEF Parses
    <3>2. CASE \A i \in DOMAIN line : line[i].opt \in options => line[i].opt \in K
      BY <1>0, <3>1, <3>2, GivenGrows
    <3> QED BY <3>2
  <2> QED BY <1>1, <2>1, <2>2, <2>3
<1> QED BY <1>2, <1>3

(* What one step does to the parses: nothing, or it parses the line with   *)
(* the options then registered.                                            *)
LEMMA StepParses ==
  ASSUME TypeOK, Booting, [Next]_vars
  PROVE  /\ line' = line
         /\ options' \in SUBSET Opts
         /\ \/ Parse(options')
            \/ UNCHANGED <<options, opts, values>>
         /\ phase' \in {"run", "nested"} => phase \in {"run", "nested"} \/ ~Wrong
<1>0. TypeOK'
  BY NextTypeOK
<1>1. options' \in SUBSET Opts
  BY <1>0 DEF TypeOK
<1>2. CASE AddOption
  BY <1>1, <1>2 DEF AddOption, Add
<1>3. CASE RemoveOption
  BY <1>1, <1>3 DEF RemoveOption
<1>4. CASE ReadUserFile
  BY <1>1, <1>4 DEF ReadUserFile
<1>5. ASSUME NEW o \in Opts, RegisterGlobal(o)
      PROVE  /\ line' = line /\ phase' = phase
             /\ Parse(options') \/ UNCHANGED <<options, opts, values>>
  BY <1>5 DEF RegisterGlobal, Add
<1>6. CASE PickModule
  BY <1>1, <1>6 DEF PickModule
<1>7. CASE FinalParse
  <2>1. CASE Wrong
    BY <1>1, <1>7, <2>1 DEF FinalParse
  <2>2. CASE ~Wrong
    BY <1>1, <1>7, <2>2 DEF FinalParse
  <2> QED BY <2>1, <2>2
<1>8. ASSUME NEW o \in Updates, NEW v \in Values, Update(o, v)
      PROVE  UNCHANGED <<line, options, opts, values, phase>>
  BY <1>8 DEF Update
<1>9. ASSUME NEW c \in Nested, MakePlugin(c)
      PROVE  UNCHANGED <<line, options, opts, values>> /\ phase = "run"
  BY <1>9 DEF MakePlugin
<1>10. CASE PluginMade
  BY <1>1, <1>10 DEF PluginMade
<1>11. CASE UNCHANGED vars
  BY <1>1, <1>11 DEF vars
<1> QED BY <1>1, <1>2, <1>3, <1>4, <1>5, <1>6, <1>7, <1>8, <1>9, <1>10, <1>11 DEF Next

(* After every step, what was read is what the registered options get.     *)
LEMMA NextParses == TypeOK /\ Booting /\ Parses /\ [Next]_vars => Parses'
<1> USE OptionsAssumption, InputAssumption
<1> SUFFICES ASSUME TypeOK, Booting, Parses, [Next]_vars PROVE Parses'
  OBVIOUS
<1>1. line' = line /\ options' \in SUBSET Opts
      /\ (Parse(options') \/ UNCHANGED <<options, opts, values>>)
      /\ (phase' \in {"run", "nested"} => phase \in {"run", "nested"} \/ ~Wrong)
  BY StepParses
<1> DEFINE K == options'
<1>2. /\ values' = Parsed(K)
      /\ Whole => opts' = Parsed(K)
      /\ \A o \in Opts : opts'[o] # None => Given(o, K) # {}
  <2>1. CASE Parse(K)
    BY <1>1, <2>1, ParseKeepsParses
  <2>2. CASE UNCHANGED <<options, opts, values>>
    BY <2>2 DEF Parses
  <2> QED BY <1>1, <2>1, <2>2
<1>3. /\ \A o : Given(o, options)' = Given(o, K)
      /\ Parsed(options)' = Parsed(K) /\ Whole' = Whole
  BY <1>1 DEF Parsed, Given, Reached, Stops, Fails, Whole
<1>4. ASSUME phase' \in {"run", "nested"}
      PROVE  \A i \in DOMAIN line : line[i].val \notin {Bad, Missing}
  <2>1. CASE phase \in {"run", "nested"}
    BY <2>1 DEF Parses
  <2>2. CASE ~Wrong
    <3> SUFFICES ASSUME NEW i \in DOMAIN line PROVE line[i].val \notin {Bad, Missing}
      OBVIOUS
    <3>1. line[i].opt = None => line[i].val \in Values
      BY DEF TypeOK
    <3>2. ~Stops(i, options) /\ ~Fails(i, options)
      BY <2>2 DEF Wrong
    <3> QED BY <3>1, <3>2 DEF Stops, Fails
  <2> QED BY <1>1, <1>4, <2>1, <2>2
<1> QED BY <1>1, <1>2, <1>3, <1>4 DEF Parses

(* Both hold throughout.                                                   *)
LEMMA Invariance == Spec => [](TypeOK /\ Booting /\ Parses)
BY InitTypeOK, NextTypeOK, InitParses, NextParses, PTL DEF Spec

(***************************************************************************)
(* The files.  The user's is named by a parse that knows --conf-file and   *)
(* no more; when nothing on the line is bad it is UserFile, and afterwards *)
(* it is read again under the same name.                                   *)
(***************************************************************************)
Sane == \A i \in DOMAIN line : line[i].val \notin {Bad, Missing}

FilesRead ==
  /\ phase = "boot" =>
       /\ filenames = <<SysFile>> /\ cnf = Contents[SysFile]
       /\ \A o \in Opts : readonly[o] = None
       /\ todo = <<>> => options = {ConfOpt} /\ defaults[ConfOpt] = Defaults[ConfOpt]
  /\ Sane /\ phase \in {"globals", "plugin"} => filenames = <<SysFile, UserFile>>
  /\ Sane /\ phase \in {"run", "nested"} => \A o \in Opts : cnf[o] = InFiles(o)

(* A parse that knows only --conf-file finds it where nothing else stands  *)
(* before it.                                                              *)
LEMMA ConfOptGiven ==
  ASSUME line \in Lines, Sane
  PROVE  Given(ConfOpt, {ConfOpt}) = NamedFirst
<1> USE OptionsAssumption, InputAssumption
<1>1. line \in Seq(Token)
  OBVIOUS
<1>2. \A i \in DOMAIN line : \A j \in 1..(i - 1) : j \in DOMAIN line
  BY <1>1
<1>3. \A i \in DOMAIN line :
        ~Fails(i, {ConfOpt}) /\ (Stops(i, {ConfOpt}) <=> line[i].opt \notin {ConfOpt, None})
  BY DEF Sane, Fails, Stops
<1>4. ASSUME NEW i \in DOMAIN line
      PROVE  Reached(i, {ConfOpt}) <=> \A j \in 1..(i - 1) : line[j].opt \in {ConfOpt, None}
  <2>1. \A j \in 1..(i - 1) :
          ~Stops(j, {ConfOpt}) /\ ~Fails(j, {ConfOpt}) <=> line[j].opt \in {ConfOpt, None}
    BY <1>2, <1>3
  <2> QED BY <2>1 DEF Reached
<1>5. ASSUME NEW i \in DOMAIN line
      PROVE  i \in Given(ConfOpt, {ConfOpt}) <=> i \in NamedFirst
  <2>1. i \in Given(ConfOpt, {ConfOpt}) <=>
          line[i].opt = ConfOpt /\ Reached(i, {ConfOpt}) /\ ~Stops(i, {ConfOpt}) /\ ~Fails(i, {ConfOpt})
    BY DEF Given
  <2>2. i \in NamedFirst <=>
          line[i].opt = ConfOpt /\ \A j \in 1..(i - 1) : line[j].opt \in {ConfOpt, None}
    BY DEF NamedFirst, OnLine
  <2> QED BY <1>3, <1>4, <2>1, <2>2
<1> QED BY <1>5 DEF Given, NamedFirst, OnLine

(* The file named at the end of the import of conf.py.                     *)
LEMMA BootNamesUserFile ==
  ASSUME TypeOK, Parses, FilesRead, Sane, phase = "boot", todo = <<>>
  PROVE  Get(ConfOpt) = UserFile /\ UserFile \in Values
<1> USE OptionsAssumption, InputAssumption
<1>1. /\ options = {ConfOpt} /\ defaults[ConfOpt] = Defaults[ConfOpt]
      /\ cnf = Contents[SysFile] /\ readonly[ConfOpt] = None
      /\ line \in Lines /\ env \in [Opts -> MaybeValue]
  BY DEF FilesRead, TypeOK
<1>2. opts = Parsed({ConfOpt}) /\ values = Parsed({ConfOpt})
  BY <1>1 DEF Parses, Whole, Sane
<1>3. Given(ConfOpt, {ConfOpt}) = NamedFirst
  BY <1>1, ConfOptGiven
<1>4. opts[ConfOpt] # None <=> NamedFirst # {}
  BY <1>1, <1>2, <1>3, ParsedType
<1>5. NamedFirst # {} => opts[ConfOpt] = line[Last(NamedFirst)].val
  BY <1>2, <1>3 DEF Parsed
<1>6. opts[ConfOpt] \in MaybeValue /\ values[ConfOpt] = opts[ConfOpt]
  BY <1>2 DEF TypeOK
<1>7. Get(ConfOpt) = UserFile
  BY <1>1, <1>4, <1>5, <1>6 DEF Get, UserFile
<1>8. UserFile \in Values
  <2>1. NamedFirst # {} => UserFile \in Values
    BY <1>4, <1>5, <1>6 DEF UserFile, MaybeValue
  <2>2. Contents[SysFile][ConfOpt] \in MaybeValue /\ Defaults[ConfOpt] \in MaybeValue
    OBVIOUS
  <2> QED BY <1>1, <2>1, <2>2 DEF UserFile, MaybeValue
<1> QED BY <1>7, <1>8

(* What append makes of a list of one file and of two.                     *)
LEMMA AppendToOne ==
  ASSUME NEW a, NEW b PROVE Append(<<a>>, b) = <<a, b>>
<1> DEFINE s == Append(<<a>>, b)
<1>1. <<a>> \in Seq({a, b}) /\ Len(<<a>>) = 1 /\ b \in {a, b}
  OBVIOUS
<1>2. s \in Seq({a, b}) /\ Len(s) = 2 /\ s[2] = b /\ s[1] = a
  BY <1>1, AppendProperties
<1>3. <<a, b>> \in Seq({a, b}) /\ Len(<<a, b>>) = 2
  OBVIOUS
<1> HIDE DEF s
<1>4. \A i \in 1..Len(s) : s[i] = <<a, b>>[i]
  BY <1>2
<1> DEFINE t == <<a, b>>
<1>5. t \in Seq({a, b}) /\ Len(s) = Len(t) /\ \A i \in 1..Len(s) : s[i] = t[i]
  BY <1>2, <1>3, <1>4
<1>6. s = t
  <2> HIDE DEF t
  <2> QED BY <1>2, <1>5, SeqEqual
<1> QED BY <1>6 DEF s

(* The same for two files.                                                 *)
LEMMA AppendToTwo ==
  ASSUME NEW a, NEW b, NEW c PROVE Append(<<a, b>>, c) = <<a, b, c>>
<1> DEFINE s == Append(<<a, b>>, c)
<1>1. <<a, b>> \in Seq({a, b, c}) /\ Len(<<a, b>>) = 2 /\ c \in {a, b, c}
  OBVIOUS
<1>2. s \in Seq({a, b, c}) /\ Len(s) = 3 /\ s[3] = c /\ s[1] = a /\ s[2] = b
  BY <1>1, AppendProperties
<1>3. <<a, b, c>> \in Seq({a, b, c}) /\ Len(<<a, b, c>>) = 3
  OBVIOUS
<1> HIDE DEF s
<1>4. \A i \in 1..Len(s) : s[i] = <<a, b, c>>[i]
  BY <1>2
<1> DEFINE t == <<a, b, c>>
<1>5. t \in Seq({a, b, c}) /\ Len(s) = Len(t) /\ \A i \in 1..Len(s) : s[i] = t[i]
  BY <1>2, <1>3, <1>4
<1>6. s = t
  <2> HIDE DEF t
  <2> QED BY <1>2, <1>5, SeqEqual
<1> QED BY <1>6 DEF s

(* Reading the system's file and then the user's, once or twice.           *)
LEMMA ReadInOrder ==
  ASSUME NEW u, NEW o \in Opts, NEW files,
         files \in {<<SysFile, u>>, <<SysFile, u, u>>}
  PROVE  FromFiles(files)[o] = IF Contents[u][o] # None THEN Contents[u][o]
                               ELSE Contents[SysFile][o]
<1> DEFINE said == {i \in DOMAIN files : Contents[files[i]][o] # None}
<1>1. FromFiles(files)[o] = IF said = {} THEN None ELSE Contents[files[Last(said)]][o]
  BY DEF FromFiles
<1>2. \/ DOMAIN files = 1..2 /\ files[1] = SysFile /\ files[2] = u
      \/ DOMAIN files = 1..3 /\ files[1] = SysFile /\ files[2] = u /\ files[3] = u
  OBVIOUS
<1>3. said \in SUBSET (1..3) /\ \A i \in said : i = 1 => files[i] = SysFile
  BY <1>2
<1>4. said # {} => Last(said) \in said /\ \A j \in said : j <= Last(said)
  <2> HIDE DEF said
  <2>1. said # {} => \E x \in said : \A y \in said : y <= x
    BY <1>3, NatMax
  <2> QED BY <2>1 DEF Last
<1>5. CASE Contents[u][o] # None
  <2>1. 2 \in said
    BY <1>2, <1>5
  <2>2. Last(said) \in {2, 3}
    BY <1>3, <1>4, <2>1
  <2>3. files[Last(said)] = u
    BY <1>2, <1>4, <2>1, <2>2
  <2> QED BY <1>1, <1>5, <2>1, <2>3
<1>6. CASE Contents[u][o] = None
  <2>1. said \subseteq {1}
    BY <1>2, <1>6
  <2>2. said = {} <=> Contents[SysFile][o] = None
    BY <1>2, <2>1
  <2>3. said # {} => files[Last(said)] = SysFile
    BY <1>2, <1>4, <2>1
  <2> QED BY <1>1, <1>6, <2>2, <2>3
<1> QED BY <1>5, <1>6

(* The system file is read first.                                          *)
LEMMA InitFilesRead == Init => FilesRead
BY DEF Init, FilesRead

(* Every step reads the files in the order in which they are named.        *)
LEMMA NextFilesRead ==
  TypeOK /\ Booting /\ Parses /\ FilesRead /\ [Next]_vars => FilesRead'
<1> USE OptionsAssumption, InputAssumption
<1> SUFFICES ASSUME TypeOK, Booting, Parses, FilesRead, [Next]_vars PROVE FilesRead'
  OBVIOUS
<1>0. TypeOK'
  BY NextTypeOK
<1>same. ASSUME UNCHANGED <<line, env>>
         PROVE  Sane' = Sane /\ UserFile' = UserFile /\ \A o : InFiles(o)' = InFiles(o)
  BY <1>same DEF Sane, UserFile, InFiles, NamedFirst, OnLine
(* Steps that read no file. *)
<1>keep. ASSUME UNCHANGED <<line, env, cnf, filenames>>, phase # "boot",
                \/ phase' = phase
                \/ phase = "globals" /\ phase' = "plugin"
                \/ phase' = "exit"
                \/ phase \in {"run", "nested"} /\ phase' \in {"run", "nested"}
         PROVE  FilesRead'
  BY <1>keep, <1>same DEF FilesRead
<1>1. CASE AddOption
  <2>1. CASE phase = "boot"
    <3>1. todo = << <<"add", ConfOpt>> >> /\ options = {}
      BY <1>1, <2>1 DEF AddOption, Booting
    <3>2. todo' = <<>> /\ Add(ConfOpt)
      BY <1>1, <3>1 DEF AddOption
    <3>3. options' = {ConfOpt} /\ defaults' = [defaults EXCEPT ![ConfOpt] = Defaults[ConfOpt]]
      BY <3>1, <3>2 DEF Add
    <3>4. defaults'[ConfOpt] = Defaults[ConfOpt]
      BY <3>3 DEF TypeOK
    <3> QED BY <1>1, <2>1, <3>3, <3>4 DEF AddOption, FilesRead
  <2>2. CASE phase # "boot"
    BY <1>1, <2>2, <1>keep DEF AddOption
  <2> QED BY <2>1, <2>2
<1>2. CASE RemoveOption
  <2>1. phase # "boot"
    BY <1>2 DEF RemoveOption, Booting
  <2> QED BY <1>2, <2>1, <1>keep DEF RemoveOption
<1>3. CASE ReadUserFile
  <2>1. ASSUME Sane PROVE filenames' = <<SysFile, UserFile>>
    <3>1. Get(ConfOpt) = UserFile
      BY <1>3, <2>1, BootNamesUserFile DEF ReadUserFile
    <3>2. filenames = <<SysFile>> /\ filenames' = Append(filenames, Get(ConfOpt))
      BY <1>3 DEF ReadUserFile, AddFile, FilesRead
    <3> QED BY <3>1, <3>2, AppendToOne
  <2>2. phase' = "globals" /\ UNCHANGED <<line, env>>
    BY <1>3 DEF ReadUserFile
  <2> QED BY <2>1, <2>2, <1>same DEF FilesRead
<1>4. ASSUME NEW o \in Opts, RegisterGlobal(o) PROVE FilesRead'
  BY <1>4, <1>keep DEF RegisterGlobal
<1>5. CASE PickModule
  BY <1>5, <1>keep DEF PickModule
<1>6. CASE FinalParse
  <2>1. CASE Wrong
    <3>1. phase' = "exit" /\ UNCHANGED <<line, env, cnf, filenames>> /\ phase # "boot"
      BY <1>6, <2>1 DEF FinalParse
    <3> QED BY <3>1, <1>keep
  <2>2. CASE ~Wrong
    <3>1. /\ phase = "plugin" /\ phase' = "run" /\ UNCHANGED <<line, env>>
          /\ filenames' = Append(filenames, filenames[Len(filenames)])
          /\ cnf' = FromFiles(filenames')
      BY <1>6, <2>2 DEF FinalParse, AddFile
    <3>2. ASSUME Sane PROVE filenames' = <<SysFile, UserFile, UserFile>>
      <4>1. filenames = <<SysFile, UserFile>>
        BY <3>1, <3>2 DEF FilesRead
      <4>2. filenames[Len(filenames)] = UserFile
        BY <4>1
      <4> QED BY <3>1, <4>1, <4>2, AppendToTwo
    <3>3. ASSUME Sane, NEW o \in Opts PROVE cnf'[o] = InFiles(o)
      <4>1. filenames' \in {<<SysFile, UserFile>>, <<SysFile, UserFile, UserFile>>}
        BY <3>2, <3>3
      <4>2. FromFiles(filenames')[o] = IF Contents[UserFile][o] # None THEN Contents[UserFile][o]
                                       ELSE Contents[SysFile][o]
        BY <4>1, ReadInOrder
      <4> QED BY <3>1, <4>2 DEF InFiles
    <3> QED BY <3>1, <3>3, <1>same DEF FilesRead
  <2> QED BY <2>1, <2>2
<1>7. ASSUME NEW o \in Updates, NEW v \in Values, Update(o, v) PROVE FilesRead'
  BY <1>7, <1>keep DEF Update
<1>8. ASSUME NEW c \in Nested, MakePlugin(c) PROVE FilesRead'
  BY <1>8, <1>keep DEF MakePlugin
<1>9. CASE PluginMade
  BY <1>9, <1>keep DEF PluginMade
<1>10. CASE UNCHANGED vars
  BY <1>10, <1>same DEF vars, FilesRead
<1> QED BY <1>1, <1>2, <1>3, <1>4, <1>5, <1>6, <1>7, <1>8, <1>9, <1>10 DEF Next

(* The three invariants of the configuration hold throughout.              *)
LEMMA FilesInvariance == Spec => [](TypeOK /\ Booting /\ Parses /\ FilesRead)
BY InitTypeOK, NextTypeOK, InitParses, NextParses, InitFilesRead, NextFilesRead,
   PTL DEF Spec

(* When a plugin runs and every option on the line is registered, each     *)
(* registered option has the value that the user meant, with the files     *)
(* that the user could name.                                               *)
THEOREM ValuesAreAsMeant == Spec => []ValuesAsMeant
<1>1. TypeOK /\ Parses /\ FilesRead => ValuesAsMeant
  <2> USE OptionsAssumption, InputAssumption
  <2> SUFFICES ASSUME TypeOK, Parses, FilesRead, phase = "run", AllRegistered, NEW o \in options
               PROVE  Get(o) = IF readonly[o] # None THEN readonly[o] ELSE Meant(o)
    BY DEF ValuesAsMeant
  <2>1. o \in Opts /\ line \in Lines /\ options \in SUBSET Opts
    BY DEF TypeOK
  <2>2. \A i \in DOMAIN line : line[i].val \notin {Bad, Missing}
    BY DEF Parses
  <2>3. opts = Parsed(options) /\ values = Parsed(options)
    BY <2>2 DEF Parses, Whole
  <2>4. \A i \in DOMAIN line : ~Stops(i, options) /\ ~Fails(i, options)
    BY <2>2 DEF AllRegistered, Stops, Fails
  <2>5. Given(o, options) = OnLine(o)
    BY <2>1, <2>4, AllGiven
  <2>6. opts[o] # None <=> OnLine(o) # {}
    BY <2>1, <2>3, <2>5, ParsedType
  <2>7. OnLine(o) # {} => opts[o] = line[Last(OnLine(o))].val
    BY <2>1, <2>3, <2>5 DEF Parsed
  <2>8. values[o] = opts[o]
    BY <2>3
  <2>9. cnf[o] = InFiles(o)
    BY <2>1, <2>2 DEF FilesRead, Sane
  <2> QED BY <2>6, <2>7, <2>8, <2>9 DEF Get, Meant
<1> QED BY <1>1, FilesInvariance, PTL

(* A value read from the command line is lost only when an option that     *)
(* stands on the line is removed.                                          *)
THEOREM ReadStays == Spec => ReadStaysRead
<1>1. TypeOK /\ Booting /\ Parses /\ [Next]_vars =>
        [\A o \in Opts : opts[o] # None /\ opts'[o] = None =>
           \E i \in DOMAIN line : line[i].opt \in options \ options']_vars
  <2> SUFFICES ASSUME TypeOK, Booting, Parses, [Next]_vars,
                      NEW o \in Opts, opts[o] # None, opts'[o] = None
               PROVE  \E i \in DOMAIN line : line[i].opt \in options \ options'
    OBVIOUS
  <2>1. line' = line /\ options' \in SUBSET Opts
        /\ (Parse(options') \/ UNCHANGED <<options, opts, values>>)
    BY StepParses
  <2> QED BY <2>1, ParseKeepsParses
<1> QED BY <1>1, Invariance, PTL DEF Spec, ReadStaysRead

------------------------------------------------------------------------------
(***************************************************************************)
(* VotingStack, for every set of images.                                   *)
(*                                                                         *)
(* WellStacked is inductive next to VoteTypeOK: a new layer goes on top of *)
(* a stack whose top is not a paging layer (the formats because nothing is *)
(* a header there, the paging classes because they refuse it), and a       *)
(* failing paging class changes only the dtb attribute of the top.         *)
(*                                                                         *)
(* BestStack and RightDtb speak of the end of a round in which nobody      *)
(* accepts.  Tried says that the classes out of the way do not accept,     *)
(* Opened and Unwraps how each layer came onto the stack, Attributes which *)
(* values the failing classes leave in dtb, and Mapping that the paging    *)
(* class is the first of those that work: that is a case analysis over the *)
(* order of the classes.                                                   *)
(***************************************************************************)
\* The last element of a sequence is an element of its set.
LEMMA LastElement ==
    ASSUME NEW S, NEW s \in Seq(S), s # <<>>
    PROVE  Len(s) \in 1 .. Len(s) /\ s[Len(s)] \in S
OBVIOUS

\* A constructor that accepts has a place for its layer on this stack.
LEMMA AcceptedOnTop ==
    ASSUME VoteTypeOK, NEW c \in Classes, Accepts(c)
    PROVE  /\ c \in Direct <=> stack = <<>>
           /\ c \in Formats => /\ Len(stack) <= Len(image.layers)
                               /\ c = image.layers[Len(stack)]
           /\ stack # <<>> => Top.cls \notin Paging
<1>1. c \notin Direct \/ c \notin Formats
  BY DEF Direct, Formats
<1>2. c \notin Direct \/ c \notin Paging
  BY DEF Direct, Paging
<1>3. c \notin Formats \/ c \notin Paging
  BY DEF Formats, Paging
<1>4. CASE c \in Direct
  BY <1>1, <1>2, <1>4 DEF Accepts, DirectAccepts, HasBase
<1>5. CASE c \in Formats
  <2>1. FormatAccepts(c) /\ c \notin Direct
    BY <1>1, <1>3, <1>5 DEF Accepts
  <2>2. c # PyNone
    <3>1. HasBase /\ Shown = c
      BY <2>1 DEF FormatAccepts
    <3>2. image.layers \in Seq(Formats) /\ Len(stack) \in Nat
      BY ImageAssumption DEF VoteTypeOK
    <3>. QED
      BY <1>5, NoneAssumption
  <2>3. HasBase /\ Top.cls \notin Paging /\ Len(stack) <= Len(image.layers)
    BY <2>1, <2>2 DEF FormatAccepts, Shown
  <2>. QED
    BY <1>1, <1>3, <1>5, <2>1, <2>3 DEF FormatAccepts, Shown, HasBase
<1>6. CASE c \in Paging
  BY <1>2, <1>3, <1>6 DEF Accepts, PagingAccepts, ReachesLoadDtb, HasBase
<1>. QED
  BY <1>4, <1>5, <1>6 DEF Classes

\* Saving a DTB on the base leaves the classes of the stack alone.
LEMMA SavedDtbKeepsClasses ==
    ASSUME VoteTypeOK, NEW c \in Classes
    PROVE  /\ SavedDtb(c) \in Seq([cls : Classes, dtb : Dtbs \cup {PyNone}])
           /\ Len(SavedDtb(c)) = Len(stack)
           /\ \A i \in 1 .. Len(stack) : SavedDtb(c)[i].cls = stack[i].cls
<1>1. CASE c \in Paging /\ ReachesLoadDtb(c) /\ MustFindDtb /\ FoundDtb # PyNone
  <2>1. SavedDtb(c) = [stack EXCEPT ![Len(stack)].dtb = FoundDtb]
    BY <1>1 DEF SavedDtb
  <2>2. FoundDtb \in Dtbs
    BY <1>1, ImageAssumption DEF FoundDtb, VoteTypeOK
  <2>3. Len(stack) \in Nat /\ stack # <<>>
    BY <1>1 DEF VoteTypeOK, ReachesLoadDtb, HasBase
  <2>. DEFINE Layer == [cls : Classes, dtb : Dtbs \cup {PyNone}]
              n     == Len(stack)
  <2>4. stack \in Seq(Layer) /\ n \in 1 .. n
    BY <2>3 DEF VoteTypeOK
  <2>5. stack[n] \in Layer
    <3>. HIDE DEF Layer
    <3>. QED
      BY <2>3, <2>4, LastElement
  <2>6. [stack[n] EXCEPT !.dtb = FoundDtb] \in Layer
    BY <2>2, <2>5
  <2>7. SavedDtb(c) = [stack EXCEPT ![n] = [stack[n] EXCEPT !.dtb = FoundDtb]]
    BY <2>1
  <2>8. SavedDtb(c) \in Seq(Layer) /\ Len(SavedDtb(c)) = n
    <3>. HIDE DEF Layer, n
    <3>. QED
      BY <2>4, <2>6, <2>7 DEF n
  <2>9. \A i \in 1 .. n : SavedDtb(c)[i].cls = stack[i].cls
    BY <2>4, <2>5, <2>7
  <2>. QED
    BY <2>8, <2>9
<1>2. CASE ~(c \in Paging /\ ReachesLoadDtb(c) /\ MustFindDtb /\ FoundDtb # PyNone)
  <2>1. SavedDtb(c) = stack
    BY <1>2 DEF SavedDtb
  <2>. QED
    BY <2>1 DEF VoteTypeOK
<1>. QED
  BY <1>1, <1>2

\* The DTB of a new layer is a DTB or missing.
LEMMA LayerDtbType ==
    ASSUME VoteTypeOK, NEW c \in Classes, Accepts(c)
    PROVE  LayerDtb(c) \in Dtbs \cup {PyNone}
<1>1. image \in Images
  BY DEF VoteTypeOK
<1>2. CASE c \in Paging
  <2>1. stack # <<>>
    BY <1>2 DEF Accepts, PagingAccepts, ReachesLoadDtb, HasBase,
                Direct, Formats, Paging
  <2>2. Top.dtb \in Dtbs \cup {PyNone}
    <3>1. stack \in Seq([cls : Classes, dtb : Dtbs \cup {PyNone}])
      BY DEF VoteTypeOK
    <3>2. Top \in [cls : Classes, dtb : Dtbs \cup {PyNone}]
      BY <2>1, <3>1, LastElement DEF Top
    <3>. QED
      BY <3>2
  <2>. QED
    BY <1>1, <1>2, <2>2, ImageAssumption DEF LayerDtb, LoadDtb, FoundDtb
<1>3. CASE c \notin Paging
  BY <1>1, <1>3, ImageAssumption DEF LayerDtb
<1>. QED
  BY <1>2, <1>3

\* Every state has the declared types.
THEOREM VoteTypeCorrect == VoteSpec => []VoteTypeOK
<1>1. VoteInit => VoteTypeOK
  BY DEF VoteInit, VoteTypeOK
<1>2. VoteTypeOK /\ [VoteNext]_voteVars => VoteTypeOK'
  <2>. SUFFICES ASSUME VoteTypeOK, [VoteNext]_voteVars PROVE VoteTypeOK'
    OBVIOUS
  <2>1. ASSUME NEW c \in Classes, Stack(c) PROVE VoteTypeOK'
    <3>1. Accepts(c)
      BY <2>1 DEF Stack
    <3>2. [cls |-> c, dtb |-> LayerDtb(c)] \in [cls : Classes, dtb : Dtbs \cup {PyNone}]
      BY <3>1, LayerDtbType
    <3>3. stack' \in Seq([cls : Classes, dtb : Dtbs \cup {PyNone}])
      <4>1. SavedDtb(c) \in Seq([cls : Classes, dtb : Dtbs \cup {PyNone}])
        BY SavedDtbKeepsClasses
      <4>2. stack' = Append(SavedDtb(c), [cls |-> c, dtb |-> LayerDtb(c)])
        BY <2>1 DEF Stack
      <4>. QED
        BY <3>2, <4>1, <4>2
    <3>. QED
      BY <2>1, <3>3 DEF Stack, VoteTypeOK
  <2>2. ASSUME NEW c \in Classes, Refuse(c) PROVE VoteTypeOK'
    <3>1. stack' \in Seq([cls : Classes, dtb : Dtbs \cup {PyNone}])
      BY <2>2, SavedDtbKeepsClasses DEF Refuse
    <3>. QED
      BY <2>2, <3>1 DEF Refuse, VoteTypeOK
  <2>3. CASE Finish
    BY <2>3 DEF Finish, VoteTypeOK
  <2>4. CASE UNCHANGED voteVars
    BY <2>4 DEF voteVars, VoteTypeOK
  <2>. QED
    BY <2>1, <2>2, <2>3, <2>4 DEF VoteNext
<1>. QED
  BY <1>1, <1>2, PTL DEF VoteSpec

\* Whatever is opened, a stack is one direct address space, then the file
\* formats in the order of their headers, then at most one paging layer.
THEOREM AlwaysWellStacked == VoteSpec => []WellStacked
<1>1. VoteInit => WellStacked
  BY DEF VoteInit, WellStacked
<1>2. VoteTypeOK /\ WellStacked /\ [VoteNext]_voteVars => WellStacked'
  <2>. SUFFICES ASSUME VoteTypeOK, WellStacked, [VoteNext]_voteVars PROVE WellStacked'
    OBVIOUS
  <2>. DEFINE n == Len(stack)
  <2>0. n \in Nat /\ (n = 0 <=> stack = <<>>)
    BY DEF VoteTypeOK
  <2>1. ASSUME NEW c \in Classes, Stack(c) PROVE WellStacked'
    <3>. DEFINE layer == [cls |-> c, dtb |-> LayerDtb(c)]
    <3>1. /\ Accepts(c) /\ image' = image
          /\ stack' = Append(SavedDtb(c), layer)
      BY <2>1 DEF Stack
    <3>2. /\ SavedDtb(c) \in Seq([cls : Classes, dtb : Dtbs \cup {PyNone}])
          /\ Len(SavedDtb(c)) = n
          /\ \A i \in 1 .. n : SavedDtb(c)[i].cls = stack[i].cls
      BY SavedDtbKeepsClasses
    <3>3. /\ Len(stack') = n + 1
          /\ stack'[n + 1].cls = c
          /\ \A i \in 1 .. n : stack'[i].cls = stack[i].cls
      BY <3>1, <3>2, <2>0
    <3>4. /\ c \in Direct <=> n = 0
          /\ c \in Formats => n <= Len(image.layers) /\ c = image.layers[n]
          /\ n # 0 => Top.cls \notin Paging
      BY <3>1, <2>0, AcceptedOnTop
    <3>. SUFFICES ASSUME NEW i \in 1 .. n + 1
                  PROVE  /\ i = 1 <=> stack'[i].cls \in Direct
                         /\ stack'[i].cls \in Formats =>
                                /\ i - 1 <= Len(image.layers)
                                /\ stack'[i].cls = image.layers[i - 1]
                         /\ stack'[i].cls \in Paging => i = n + 1
      BY <3>1, <3>3 DEF WellStacked
    <3>5. CASE i = n + 1
      BY <3>3, <3>4, <3>5, <2>0
    <3>6. CASE i # n + 1
      <4>1. i \in 1 .. n
        BY <3>6, <2>0
      <4>2. stack[i].cls \notin Paging
        <5>1. CASE i = n
          BY <5>1, <4>1, <3>4 DEF Top
        <5>2. CASE i # n
          BY <5>2, <4>1 DEF WellStacked
        <5>. QED
          BY <5>1, <5>2
      <4>. QED
        BY <3>3, <4>1, <4>2 DEF WellStacked
    <3>. QED
      BY <3>5, <3>6
  <2>2. ASSUME NEW c \in Classes, Refuse(c) PROVE WellStacked'
    <3>1. stack' = SavedDtb(c) /\ image' = image
      BY <2>2 DEF Refuse
    <3>2. /\ Len(stack') = Len(stack)
          /\ \A i \in 1 .. Len(stack) : stack'[i].cls = stack[i].cls
      BY <3>1, SavedDtbKeepsClasses
    <3>. QED
      BY <3>1, <3>2 DEF WellStacked
  <2>3. CASE Finish
    BY <2>3 DEF Finish, WellStacked
  <2>4. CASE UNCHANGED voteVars
    BY <2>4 DEF voteVars, WellStacked
  <2>. QED
    BY <2>1, <2>2, <2>3, <2>4 DEF VoteNext
<1>. QED
  BY <1>1, <1>2, VoteTypeCorrect, PTL DEF VoteSpec

------------------------------------------------------------------------------
(* Which stack it is: the rounds are greedy, so what they end with follows  *)
(* from what every round has already tried and from what its layers carry.  *)

\* A header that its class can unwrap.
Usable(f) ==
    f \in image.supports /\ (f = "HPAKAddressSpace" => image.location = "file")

\* A class that has been tried in this round does not take the stack as it is.
Tried == \A c \in Classes \ untried : ~Accepts(c)

Opened ==
    HasBase =>
        \E c \in Direct :
            /\ stack[1].cls = c /\ c \in image.supports
            /\ image.location = IF c = "FileAddressSpace" THEN "file" ELSE "firewire"

Unwraps == \A i \in 1 .. Len(stack) : stack[i].cls \in Formats => Usable(stack[i].cls)

\* The values of the dtb attribute of a layer below the paging one, when the
\* user gives none: failing classes leave what the scan found, and only where
\* the header gave nothing.
GivenDtbs(cls) == IF cls \in HeaderHasDtb THEN {image.header} ELSE {PyNone, image.scan}

Attributes ==
    image.user = PyNone =>
        \A i \in 1 .. Len(stack) :
            stack[i].cls \notin Paging => stack[i].dtb \in GivenDtbs(stack[i].cls)

\* A paging layer is on top of all the headers that can be unwrapped, and of the
\* lowest order among those that work.
Mapping ==
    HasBase /\ Top.cls \in Paging =>
        /\ Len(stack) = 1 + Unwrapped + 1
        /\ Top.dtb = ExpectedDtb
        /\ Top.cls \in Candidates
        /\ \A c \in Candidates : Order(Top.cls) <= Order(c)

VoteInv ==
    /\ VoteTypeOK /\ WellStacked
    /\ Tried /\ Opened /\ Unwraps /\ Attributes /\ Mapping
    /\ BestStack

\* What stands in a sequence over S is in S.
LEMMA ElementOf ==
    ASSUME NEW S, NEW s \in Seq(S), NEW i \in 1 .. Len(s)
    PROVE  s[i] \in S
OBVIOUS

\* A class is of one kind.
LEMMA OneKind ==
    ASSUME NEW c
    PROVE  /\ c \in Direct => c \notin Formats /\ c \notin Paging
           /\ c \in Formats => c \notin Paging
           /\ c \in HeaderHasDtb => c \in Formats
BY DEF Direct, Formats, Paging, HeaderHasDtb

\* Every format is tried before any paging class.
LEMMA FormatsFirst ==
    ASSUME NEW f \in Formats, NEW c \in Paging
    PROVE  Order(f) \in Nat /\ Order(c) \in Nat /\ Order(f) < Order(c)
<1>1. Order(f) \in 1 .. 30
  BY DEF Order, Formats, Direct
<1>2. Order(c) \in 60 .. 800
  BY DEF Order, Paging, Direct
<1>. QED
  BY <1>1, <1>2

\* The longest prefix of headers that can be unwrapped.
LEMMA UnwrappedIs ==
    ASSUME VoteTypeOK, NEW n \in 0 .. Len(image.layers),
           \A i \in 1 .. n : Usable(image.layers[i]),
           n = Len(image.layers) \/ ~Usable(image.layers[n + 1])
    PROVE  Unwrapped = n
<1>. DEFINE prefixes ==
        {k \in 0 .. Len(image.layers) : \A i \in 1 .. k : Usable(image.layers[i])}
<1>1. Unwrapped = CHOOSE k \in prefixes : \A m \in prefixes : m <= k
  BY DEF Unwrapped, Usable
<1>2. Len(image.layers) \in Nat
  BY ImageAssumption DEF VoteTypeOK
<1>3. n \in prefixes
  OBVIOUS
<1>4. ASSUME NEW m \in prefixes PROVE m <= n
  <2>1. SUFFICES ASSUME m > n PROVE FALSE
    BY <1>2
  <2>2. n + 1 \in 1 .. m /\ n # Len(image.layers)
    BY <1>2, <2>1
  <2>. QED
    BY <2>2
<1>5. prefixes \subseteq Nat
  BY <1>2
<1>. HIDE DEF prefixes
<1>6. \A k \in prefixes : (\A m \in prefixes : m <= k) => k = n
  <2>. SUFFICES ASSUME NEW k \in prefixes, \A m \in prefixes : m <= k PROVE k = n
    OBVIOUS
  <2>1. n <= k /\ k <= n /\ k \in Nat /\ n \in Nat
    BY <1>3, <1>4, <1>5
  <2>. QED
    BY <2>1
<1>. QED
  BY <1>1, <1>3, <1>4, <1>6

\* When all formats have been tried, every header that can be is unwrapped.
LEMMA FormatsUnwrapped ==
    ASSUME VoteTypeOK, WellStacked, Tried, Unwraps,
           HasBase, Top.cls \notin Paging, untried \cap Formats = {}
    PROVE  /\ Unwrapped \in Nat /\ Len(stack) = 1 + Unwrapped
           /\ Unwrapped > 0 => Top.cls = image.layers[Unwrapped]
           /\ Unwrapped = 0 => Top.cls \in Direct
<1>. DEFINE n == Len(stack) - 1
<1>1. /\ Len(stack) \in Nat /\ n \in Nat /\ Len(stack) = n + 1
      /\ image.layers \in Seq(Formats) /\ Len(image.layers) \in Nat
      /\ stack \in Seq([cls : Classes, dtb : Dtbs \cup {PyNone}])
  BY ImageAssumption DEF VoteTypeOK, HasBase
<1>2. ASSUME NEW i \in 1 .. Len(stack)
      PROVE  stack[i].cls \in Classes /\ stack[i].cls \notin Paging
  <2>1. stack[i] \in [cls : Classes, dtb : Dtbs \cup {PyNone}]
    BY <1>1, ElementOf
  <2>2. stack[i].cls \in Paging => i = Len(stack)
    BY DEF WellStacked
  <2>. QED
    BY <2>1, <2>2 DEF Top
<1>3. ASSUME NEW i \in 1 .. n
      PROVE  /\ i <= Len(image.layers) /\ stack[i + 1].cls = image.layers[i]
             /\ Usable(image.layers[i])
  <2>1. i + 1 \in 1 .. Len(stack) /\ i + 1 # 1 /\ (i + 1) - 1 = i
    BY <1>1
  <2>2. stack[i + 1].cls \in Formats
    BY <1>2, <2>1 DEF WellStacked, Classes
  <2>. QED
    BY <2>1, <2>2 DEF WellStacked, Unwraps
<1>4. n <= Len(image.layers)
  BY <1>1, <1>3
<1>5. n = Len(image.layers) \/ ~Usable(image.layers[n + 1])
  <2>1. SUFFICES ASSUME n # Len(image.layers), Usable(image.layers[n + 1]) PROVE FALSE
    OBVIOUS
  <2>. DEFINE f == image.layers[n + 1]
  <2>2. n + 1 \in 1 .. Len(image.layers) /\ f \in Formats
    <3>1. n + 1 \in 1 .. Len(image.layers)
      <4>. HIDE DEF n
      <4>. QED
        BY <1>1, <1>4, <2>1
    <3>. QED
      BY <1>1, <3>1, ElementOf
  <2>3. Shown = f
    BY <1>1, <2>2 DEF Shown
  <2>4. Accepts(f)
    BY <2>1, <2>2, <2>3 DEF Accepts, FormatAccepts, Usable
  <2>. QED
    BY <2>2, <2>4 DEF Tried, Classes
<1>6. Unwrapped = n
  <2>1. n \in 0 .. Len(image.layers)
    BY <1>1, <1>4
  <2>. HIDE DEF n
  <2>. QED
    BY <1>3, <1>5, <2>1, UnwrappedIs
<1>7. n > 0 => Top.cls = image.layers[n]
  <2>1. n > 0 => n \in 1 .. n
    BY <1>1
  <2>. QED
    BY <1>1, <1>3, <2>1 DEF Top
<1>8. n = 0 => Top.cls \in Direct
  <2>1. n = 0 => Len(stack) = 1 /\ 1 \in 1 .. Len(stack)
    <3>. HIDE DEF n
    <3>. QED
      BY <1>1
  <2>. QED
    BY <2>1 DEF Top, WellStacked
<1>. QED
  BY <1>1, <1>6, <1>7, <1>8

\* A paging class on such a stack loads the DTB it should.
LEMMA LoadsExpected ==
    ASSUME VoteTypeOK, WellStacked, Tried, Unwraps, Attributes,
           HasBase, Top.cls \notin Paging, untried \cap Formats = {}
    PROVE  LoadDtb = ExpectedDtb
<1>1. CASE image.user # PyNone
  BY <1>1 DEF LoadDtb, MustFindDtb, FoundDtb, ExpectedDtb
<1>2. CASE image.user = PyNone
  <2>1. Top.dtb \in GivenDtbs(Top.cls)
    <3>1. Len(stack) \in 1 .. Len(stack)
      BY DEF VoteTypeOK, HasBase
    <3>. QED
      BY <1>2, <3>1 DEF Attributes, Top
  <2>2. /\ Unwrapped > 0 => Top.cls = image.layers[Unwrapped]
        /\ Unwrapped = 0 => Top.cls \in Direct
        /\ Unwrapped = 0 \/ Unwrapped > 0
    <3>1. Unwrapped \in Nat
      BY FormatsUnwrapped
    <3>. QED
      BY <3>1, FormatsUnwrapped
  <2>. QED
    BY <1>2, <2>1, <2>2, NoneAssumption, ImageAssumption, OneKind
    DEF LoadDtb, MustFindDtb, FoundDtb, ExpectedDtb, GivenDtbs, VoteTypeOK
<1>. QED
  BY <1>1, <1>2

\* What a paging class that failed leaves on the base changes the mind of no
\* constructor.
LEMMA RefuseKeepsMinds ==
    ASSUME VoteTypeOK, NEW c \in Classes, Refuse(c), NEW d \in Classes
    PROVE  Accepts(d)' <=> Accepts(d)
<1>1. image' = image /\ astype' = astype /\ stack' = SavedDtb(c)
  BY DEF Refuse
<1>2. /\ Len(stack') = Len(stack) /\ Len(stack) \in Nat
      /\ \A i \in 1 .. Len(stack) : stack'[i].cls = stack[i].cls
  BY <1>1, SavedDtbKeepsClasses DEF VoteTypeOK
<1>3. HasBase' <=> HasBase
  <2>1. stack' \in Seq([cls : Classes, dtb : Dtbs \cup {PyNone}])
    BY <1>1, SavedDtbKeepsClasses
  <2>. QED
    BY <1>2, <2>1 DEF HasBase, VoteTypeOK
<1>4. HasBase => Top.cls' = Top.cls
  <2>1. HasBase => Len(stack) \in 1 .. Len(stack)
    BY DEF HasBase, VoteTypeOK
  <2>. QED
    BY <1>2, <2>1 DEF Top
<1>5. CASE ~HasBase
  BY <1>1, <1>3, <1>5 DEF Accepts, DirectAccepts, FormatAccepts, PagingAccepts,
                          ReachesLoadDtb
<1>6. CASE HasBase
  <2>1. Shown' = Shown
    BY <1>1, <1>2, <1>3, <1>4 DEF Shown
  <2>2. \A e : ReachesLoadDtb(e)' <=> ReachesLoadDtb(e)
    BY <1>1, <1>3, <1>4, <1>6 DEF ReachesLoadDtb
  <2>3. LoadDtb' = LoadDtb
    <3>1. CASE SavedDtb(c) = stack
      BY <1>1, <3>1 DEF LoadDtb, MustFindDtb, FoundDtb, Top
    <3>2. CASE SavedDtb(c) # stack
      <4>1. /\ MustFindDtb /\ FoundDtb # PyNone
            /\ stack' = [stack EXCEPT ![Len(stack)].dtb = FoundDtb]
        BY <1>1, <3>2 DEF SavedDtb
      <4>2. stack \in Seq([cls : Classes, dtb : Dtbs \cup {PyNone}])
            /\ Len(stack) \in 1 .. Len(stack)
        BY <1>6 DEF VoteTypeOK, HasBase
      <4>3. stack[Len(stack)] \in [cls : Classes, dtb : Dtbs \cup {PyNone}]
        BY <4>2, ElementOf
      <4>4. stack'[Len(stack)].dtb = FoundDtb
        BY <4>1, <4>2, <4>3
      <4>5. FoundDtb' = FoundDtb
        BY <1>1 DEF FoundDtb
      <4>6. Top.dtb' = FoundDtb
        BY <1>2, <4>4 DEF Top
      <4>. QED
        BY <1>1, <4>1, <4>5, <4>6 DEF LoadDtb, MustFindDtb
    <3>. QED
      BY <3>1, <3>2
  <2>. QED
    BY <1>1, <1>3, <2>1, <2>2, <2>3 DEF Accepts, DirectAccepts, FormatAccepts, PagingAccepts
<1>. QED
  BY <1>5, <1>6

\* Saving a DTB on the base only fills in what its header does not give.
LEMMA SavedDtbGiven ==
    ASSUME VoteTypeOK, Attributes, image.user = PyNone, NEW c \in Classes,
           NEW i \in 1 .. Len(stack), stack[i].cls \notin Paging
    PROVE  SavedDtb(c)[i].dtb \in GivenDtbs(stack[i].cls)
<1>1. stack[i].dtb \in GivenDtbs(stack[i].cls)
  BY DEF Attributes
<1>2. CASE SavedDtb(c)[i].dtb = stack[i].dtb
  BY <1>1, <1>2
<1>3. CASE SavedDtb(c)[i].dtb # stack[i].dtb
  <2>1. /\ MustFindDtb /\ FoundDtb # PyNone
        /\ SavedDtb(c) = [stack EXCEPT ![Len(stack)].dtb = FoundDtb]
    BY <1>3 DEF SavedDtb
  <2>2. stack \in Seq([cls : Classes, dtb : Dtbs \cup {PyNone}])
    BY DEF VoteTypeOK
  <2>3. stack[i] \in [cls : Classes, dtb : Dtbs \cup {PyNone}]
    BY <2>2, ElementOf
  <2>4. i = Len(stack) /\ SavedDtb(c)[i].dtb = FoundDtb
    BY <1>3, <2>1, <2>2, <2>3
  <2>5. FoundDtb = image.scan /\ stack[i].dtb = PyNone
    BY <2>1, <2>4 DEF FoundDtb, MustFindDtb, Top
  <2>6. stack[i].cls \notin HeaderHasDtb
    <3>1. image.header \in Dtbs
      BY ImageAssumption DEF VoteTypeOK
    <3>. QED
      BY <1>1, <2>5, <3>1, NoneAssumption DEF GivenDtbs
  <2>. QED
    BY <2>4, <2>5, <2>6 DEF GivenDtbs
<1>. QED
  BY <1>2, <1>3

\* What says nothing of the stack stays.
LEMMA SameImage ==
    ASSUME image' = image, astype' = astype
    PROVE  /\ Unwrapped' = Unwrapped /\ ExpectedDtb' = ExpectedDtb
           /\ Candidates' = Candidates
           /\ \A f : (Usable(f)' <=> Usable(f)) /\ GivenDtbs(f)' = GivenDtbs(f)
<1>1. Unwrapped' = Unwrapped
  BY DEF Unwrapped
<1>2. ExpectedDtb' = ExpectedDtb
  BY <1>1 DEF ExpectedDtb
<1>. QED
  BY <1>1, <1>2 DEF Candidates, Usable, GivenDtbs

\* A paging class that could be on top accepts, when the formats are done.
LEMMA CandidatesAccept ==
    ASSUME VoteTypeOK, LoadDtb = ExpectedDtb, HasBase, Top.cls \notin Paging,
           NEW c \in Candidates
    PROVE  c \in Paging /\ c \in Classes /\ Accepts(c)
<1>1. /\ astype # "physical" /\ ExpectedDtb = image.right
      /\ c \in image.passes /\ c \in image.supports
  BY DEF Candidates
<1>2. image.right \in Dtbs /\ image.passes \subseteq Paging /\ astype \in {"virtual", "any"}
  BY <1>1, ImageAssumption DEF VoteTypeOK, AsTypes
<1>. QED
  BY <1>1, <1>2, NoneAssumption DEF Accepts, PagingAccepts, ReachesLoadDtb, Classes

\* A new layer is where the round should have put it.
LEMMA StackKeeps ==
    ASSUME VoteInv, NEW c \in Classes, Stack(c)
    PROVE  Tried' /\ Opened' /\ Unwraps' /\ Attributes' /\ Mapping'
<1>. DEFINE n == Len(stack)
            layer == [cls |-> c, dtb |-> LayerDtb(c)]
<1>1. /\ Accepts(c) /\ NextInOrder(c) /\ image' = image /\ astype' = astype
      /\ stack' = Append(SavedDtb(c), layer) /\ untried' = Classes
  BY DEF Stack
<1>2. VoteTypeOK /\ WellStacked /\ Tried /\ Opened /\ Unwraps /\ Attributes /\ Mapping
  BY DEF VoteInv
<1>3. n \in Nat /\ (n = 0 <=> ~HasBase)
  BY <1>2 DEF VoteTypeOK, HasBase
<1>4. /\ SavedDtb(c) \in Seq([cls : Classes, dtb : Dtbs \cup {PyNone}])
      /\ Len(SavedDtb(c)) = n
      /\ \A i \in 1 .. n : SavedDtb(c)[i].cls = stack[i].cls
  BY <1>2, SavedDtbKeepsClasses
<1>5. /\ Len(stack') = n + 1 /\ stack' # <<>>
      /\ stack'[n + 1].cls = c /\ stack'[n + 1].dtb = LayerDtb(c)
      /\ \A i \in 1 .. n : stack'[i] = SavedDtb(c)[i]
  BY <1>1, <1>3, <1>4
<1>6. Tried'
  BY <1>1 DEF Tried
<1>7. Opened'
  <2>1. CASE n = 0
    <3>1. c \in Direct /\ DirectAccepts(c)
      BY <1>1, <1>2, <1>3, <2>1, AcceptedOnTop, OneKind DEF HasBase, Accepts
    <3>. QED
      BY <1>1, <1>5, <2>1, <3>1 DEF Opened, DirectAccepts
  <2>2. CASE n # 0
    <3>1. stack'[1].cls = stack[1].cls /\ HasBase
      BY <1>3, <1>4, <1>5, <2>2
    <3>. QED
      BY <1>1, <1>2, <3>1 DEF Opened
  <2>. QED
    BY <2>1, <2>2
<1>8. Unwraps'
  <2>. SUFFICES ASSUME NEW i \in 1 .. Len(stack'), stack'[i].cls \in Formats
                PROVE  Usable(stack'[i].cls)
    BY <1>1, SameImage DEF Unwraps
  <2>1. CASE i \in 1 .. n
    BY <1>2, <1>4, <1>5, <2>1 DEF Unwraps
  <2>2. CASE i = n + 1
    <3>1. FormatAccepts(c) /\ stack'[i].cls = c
      BY <1>1, <1>5, <2>2, OneKind DEF Accepts
    <3>. QED
      BY <3>1 DEF FormatAccepts, Usable
  <2>. QED
    BY <1>3, <1>5, <2>1, <2>2
<1>9. Attributes'
  <2>. SUFFICES ASSUME image.user = PyNone, NEW i \in 1 .. Len(stack'),
                       stack'[i].cls \notin Paging
                PROVE  stack'[i].dtb \in GivenDtbs(stack'[i].cls)
    BY <1>1, SameImage DEF Attributes
  <2>1. CASE i \in 1 .. n
    <3>1. stack'[i].cls = stack[i].cls /\ stack'[i].dtb = SavedDtb(c)[i].dtb
      BY <1>4, <1>5, <2>1
    <3>. QED
      BY <1>2, <2>1, <3>1, SavedDtbGiven
  <2>2. CASE i = n + 1
    BY <1>5, <2>2 DEF GivenDtbs, LayerDtb
  <2>. QED
    BY <1>3, <1>5, <2>1, <2>2
<1>10. Mapping'
  <2>1. HasBase' /\ Top.cls' = c /\ Top.dtb' = LayerDtb(c)
    BY <1>5 DEF HasBase, Top
  <2>2. CASE c \notin Paging
    BY <2>1, <2>2 DEF Mapping
  <2>3. CASE c \in Paging
    <3>1. PagingAccepts(c)
      BY <1>1, <2>3, OneKind DEF Accepts
    <3>2. HasBase /\ Top.cls \notin Paging
      BY <3>1 DEF PagingAccepts, ReachesLoadDtb
    <3>3. untried \cap Formats = {}
      <4>. SUFFICES ASSUME NEW f \in untried \cap Formats PROVE FALSE
        OBVIOUS
      <4>1. Order(c) <= Order(f)
        BY <1>1 DEF NextInOrder
      <4>2. Order(f) \in Nat /\ Order(c) \in Nat /\ Order(f) < Order(c)
        BY <2>3, FormatsFirst
      <4>. QED
        BY <4>1, <4>2
    <3>4. Len(stack) = 1 + Unwrapped /\ Unwrapped \in Nat /\ LoadDtb = ExpectedDtb
      BY <1>2, <3>2, <3>3, FormatsUnwrapped, LoadsExpected
    <3>5. c \in Candidates
      BY <3>1, <3>4 DEF PagingAccepts, ReachesLoadDtb, Candidates
    <3>6. ASSUME NEW d \in Candidates PROVE Order(c) <= Order(d)
      <4>1. d \in Classes /\ Accepts(d)
        BY <1>2, <3>2, <3>4, CandidatesAccept
      <4>2. d \in untried
        BY <1>2, <4>1 DEF Tried
      <4>. QED
        BY <1>1, <4>2 DEF NextInOrder
    <3>7. LayerDtb(c) = ExpectedDtb
      BY <2>3, <3>4 DEF LayerDtb
    <3>8. Len(stack') = 1 + Unwrapped + 1
      BY <1>5, <3>4
    <3>. QED
      BY <1>1, <2>1, <3>5, <3>6, <3>7, <3>8, SameImage DEF Mapping
  <2>. QED
    BY <2>2, <2>3
<1>. QED
  BY <1>6, <1>7, <1>8, <1>9, <1>10

\* A class that raises leaves the stack and what the others think of it.
LEMMA RefuseKeeps ==
    ASSUME VoteInv, NEW c \in Classes, Refuse(c)
    PROVE  Tried' /\ Opened' /\ Unwraps' /\ Attributes' /\ Mapping'
<1>1. /\ ~Accepts(c) /\ image' = image /\ astype' = astype
      /\ stack' = SavedDtb(c) /\ untried' = untried \ {c}
  BY DEF Refuse
<1>2. VoteTypeOK /\ WellStacked /\ Tried /\ Opened /\ Unwraps /\ Attributes /\ Mapping
  BY DEF VoteInv
<1>3. /\ Len(stack') = Len(stack) /\ Len(stack) \in Nat
      /\ stack' \in Seq([cls : Classes, dtb : Dtbs \cup {PyNone}])
      /\ \A i \in 1 .. Len(stack) : stack'[i].cls = stack[i].cls
  BY <1>1, <1>2, SavedDtbKeepsClasses DEF VoteTypeOK
<1>4. HasBase' <=> HasBase
  BY <1>2, <1>3 DEF HasBase, VoteTypeOK
<1>5. HasBase => Len(stack) \in 1 .. Len(stack) /\ 1 \in 1 .. Len(stack)
  BY <1>2 DEF HasBase, VoteTypeOK
<1>6. Tried'
  <2>1. \A d \in Classes : Accepts(d)' <=> Accepts(d)
    BY <1>2, RefuseKeepsMinds
  <2>. QED
    BY <1>1, <1>2, <2>1 DEF Tried
<1>7. Opened'
  BY <1>1, <1>2, <1>3, <1>4, <1>5 DEF Opened
<1>8. Unwraps'
  BY <1>1, <1>2, <1>3, SameImage DEF Unwraps
<1>9. Attributes'
  <2>. SUFFICES ASSUME image.user = PyNone, NEW i \in 1 .. Len(stack),
                       stack[i].cls \notin Paging
                PROVE  stack'[i].dtb \in GivenDtbs(stack[i].cls)
    BY <1>1, <1>3, SameImage DEF Attributes
  <2>. QED
    BY <1>1, <1>2, SavedDtbGiven
<1>10. Mapping'
  <2>1. CASE HasBase /\ Top.cls \in Paging
    <3>1. stack' = stack
      BY <1>1, <2>1 DEF SavedDtb, ReachesLoadDtb
    <3>. QED
      BY <1>1, <1>2, <3>1, SameImage DEF Mapping, HasBase, Top
  <2>2. CASE ~(HasBase /\ Top.cls \in Paging)
    BY <1>3, <1>4, <1>5, <2>2 DEF Mapping, Top
  <2>. QED
    BY <2>1, <2>2
<1>. QED
  BY <1>6, <1>7, <1>8, <1>9, <1>10

\* A full round without a taker leaves what BestStack says.
LEMMA FinishBest ==
    ASSUME VoteInv, Finish
    PROVE  BestStack'
<1>1. /\ untried = {} /\ image' = image /\ astype' = astype /\ stack' = stack
      /\ result' = IF /\ HasBase
                      /\ astype = "virtual" => Top.cls \in Paging
                   THEN "base_as" ELSE "AddrSpaceError"
  BY DEF Finish
<1>2. VoteTypeOK /\ WellStacked /\ Tried /\ Opened /\ Unwraps /\ Attributes /\ Mapping
  BY DEF VoteInv
<1>3. \A c \in Classes : ~Accepts(c)
  BY <1>1, <1>2 DEF Tried
<1>. DEFINE Closed ==
        \/ image.location \notin {"file", "firewire"}
        \/ image.location = "file" /\ "FileAddressSpace" \notin image.supports
        \/ image.location = "firewire" /\ "FirewireAddressSpace" \notin image.supports
<1>4. CASE ~HasBase
  <2>1. Closed
    <3>1. \A c \in Direct : ~DirectAccepts(c)
      BY <1>3 DEF Accepts, Classes
    <3>. QED
      BY <1>4, <3>1 DEF DirectAccepts, Direct
  <2>2. result' = "AddrSpaceError" /\ stack' = <<>>
    BY <1>1, <1>4 DEF HasBase
  <2>. QED
    BY <1>1, <2>1, <2>2 DEF BestStack
<1>5. CASE HasBase
  <2>1. ~Closed
    BY <1>2, <1>5 DEF Opened, Direct
  <2>2. Top' = Top
    BY <1>1 DEF Top
  <2>3. CASE Top.cls \in Paging
    <3>1. /\ Len(stack) = 1 + Unwrapped + 1 /\ Top.cls \in Candidates
          /\ \A c \in Candidates : Order(Top.cls) <= Order(c)
      BY <1>2, <1>5, <2>3 DEF Mapping
    <3>3. result' = "base_as"
      BY <1>1, <1>5, <2>3
    <3>. QED
      BY <1>1, <2>1, <2>2, <3>1, <3>3, SameImage DEF BestStack
  <2>4. CASE Top.cls \notin Paging
    <3>1. /\ Len(stack) = 1 + Unwrapped /\ Unwrapped \in Nat /\ LoadDtb = ExpectedDtb
      BY <1>1, <1>2, <1>5, <2>4, FormatsUnwrapped, LoadsExpected
    <3>2. Candidates = {}
      BY <1>2, <1>3, <1>5, <2>4, <3>1, CandidatesAccept
    <3>3. Len(stack) = 1 + Unwrapped + 0
      BY <3>1
    <3>4. result' = "AddrSpaceError" <=> astype = "virtual"
      BY <1>1, <1>5, <2>4
    <3>. QED
      BY <1>1, <2>1, <2>2, <3>2, <3>3, <3>4, SameImage DEF BestStack
  <2>. QED
    BY <2>3, <2>4
<1>. QED
  BY <1>4, <1>5

\* The rounds keep what the stack they end with is made of.
THEOREM VoteInvHolds == VoteSpec => []VoteInv
<1>1. VoteInit => Tried /\ Opened /\ Unwraps /\ Attributes /\ Mapping /\ BestStack
  <2>. SUFFICES ASSUME VoteInit PROVE Tried /\ Opened /\ Unwraps /\ Attributes /\ Mapping /\ BestStack
    OBVIOUS
  <2>1. untried = Classes /\ ~HasBase /\ pc # "done" /\ Len(stack) = 0
    BY DEF VoteInit, HasBase
  <2>2. \A i \in 1 .. Len(stack) : FALSE
    BY <2>1
  <2>. QED
    BY <2>1, <2>2 DEF Tried, Opened, Unwraps, Attributes, Mapping, BestStack
<1>2. VoteInv /\ [VoteNext]_voteVars
          => Tried' /\ Opened' /\ Unwraps' /\ Attributes' /\ Mapping' /\ BestStack'
  <2>. SUFFICES ASSUME VoteInv, [VoteNext]_voteVars
                PROVE  Tried' /\ Opened' /\ Unwraps' /\ Attributes' /\ Mapping' /\ BestStack'
    OBVIOUS
  <2>1. ASSUME NEW c \in Classes, Stack(c)
        PROVE  Tried' /\ Opened' /\ Unwraps' /\ Attributes' /\ Mapping' /\ BestStack'
    <3>1. pc' # "done"
      BY <2>1 DEF Stack, NextInOrder
    <3>. QED
      BY <2>1, <3>1, StackKeeps DEF BestStack
  <2>2. ASSUME NEW c \in Classes, Refuse(c)
        PROVE  Tried' /\ Opened' /\ Unwraps' /\ Attributes' /\ Mapping' /\ BestStack'
    <3>1. pc' # "done"
      BY <2>2 DEF Refuse, NextInOrder
    <3>. QED
      BY <2>2, <3>1, RefuseKeeps DEF BestStack
  <2>3. ASSUME Finish \/ UNCHANGED voteVars
        PROVE  Tried' /\ Opened' /\ Unwraps' /\ Attributes' /\ Mapping'
    <3>1. image' = image /\ astype' = astype /\ stack' = stack /\ untried' = untried
      BY <2>3 DEF Finish, voteVars
    <3>2. Top' = Top /\ (HasBase' <=> HasBase) /\ \A c : Accepts(c)' <=> Accepts(c)
      BY <3>1 DEF Top, HasBase, Accepts, DirectAccepts, FormatAccepts, PagingAccepts, Shown,
                  ReachesLoadDtb, LoadDtb, MustFindDtb, FoundDtb
    <3>3. Tried' /\ Opened'
      BY <3>1, <3>2 DEF VoteInv, Tried, Opened
    <3>4. Unwraps' /\ Attributes' /\ Mapping'
      BY <3>1, <3>2, SameImage DEF VoteInv, Unwraps, Attributes, Mapping
    <3>. QED
      BY <3>3, <3>4
  <2>4. CASE Finish
    BY <2>3, <2>4, FinishBest
  <2>5. CASE UNCHANGED voteVars
    <3>1. BestStack'
      <4>1. image' = image /\ astype' = astype /\ stack' = stack /\ pc' = pc /\ result' = result
        BY <2>5 DEF voteVars
      <4>2. Top' = Top
        BY <4>1 DEF Top
      <4>. QED
        BY <4>1, <4>2, SameImage DEF VoteInv, BestStack
    <3>. QED
      BY <2>3, <2>5, <3>1
  <2>. QED
    BY <2>1, <2>2, <2>4, <2>5 DEF VoteNext
<1>. QED
  BY <1>1, <1>2, VoteTypeCorrect, AlwaysWellStacked, PTL DEF VoteSpec, VoteInv

\* The voting ends with every header unwrapped that can be and the preferred
\* one of the paging classes that work on top, whatever the order of ties.
THEOREM StackIsBest == VoteSpec => []BestStack
<1>1. VoteInv => BestStack
  BY DEF VoteInv
<1>. QED
  BY <1>1, VoteInvHolds, PTL

\* The kernel address space runs on the user's DTB, the header's or the
\* scanned one, whatever the classes that failed before have left on its base.
THEOREM DtbIsRight == VoteSpec => []RightDtb
<1>1. VoteInv => RightDtb
  BY DEF VoteInv, Mapping, RightDtb
<1>. QED
  BY <1>1, VoteInvHolds, PTL

------------------------------------------------------------------------------
(***************************************************************************)
(* ProfileBuild, for every set of modifications and every before and after *)
(* list: the layered topological sort gives an order that respects the     *)
(* dependencies, and warns of nothing but cycles.                          *)
(*                                                                         *)
(* DependenciesFirst alone is not inductive: that a modification may be    *)
(* applied now depends on the layers it was sorted into.  Layered says     *)
(* what the loop of _resolve_mod_dependencies maintains: the graph data    *)
(* still holds is the original one cut down to the names it still has, and *)
(* nothing in a layer depends on its own layer, a later one or a name not  *)
(* yet in a layer.  NothingWaits carries that over to load_modifications.  *)
(*                                                                         *)
(* NothingLost needs to know where each name is.  Sorted says that it is   *)
(* in the graph or in one layer, and that names which wait for one another *)
(* stay in the graph; Kept, that a name which has left its layer is that   *)
(* of a modification and has been applied once; Served carries both over   *)
(* to the profile that is registered.                                      *)
(***************************************************************************)
Layered ==
    stage \in {"resolve", "apply"} =>
        /\ \A n \in DOMAIN data : data[n] = Depends(n) \cap DOMAIN data
        /\ \A i \in 1 .. Len(layers) :
               \A m \in layers[i] : Depends(m) \cap DOMAIN data = {}
        /\ \A i, j \in 1 .. Len(layers) :
               i <= j => \A m \in layers[i] : Depends(m) \cap layers[j] = {}

\* Nothing that precedes an applied modification is still in a layer.
NothingWaits ==
    /\ stage = "resolve" => mods = <<>>
    /\ stage = "apply" =>
           /\ DOMAIN data = {}
           /\ \A k \in 1 .. Len(mods), i \in 1 .. Len(layers) :
                  Depends(mods[k]) \cap layers[i] = {}

OnlyConcrete == \A k \in 1 .. Len(mods) : mods[k] \in graph.mods

ProfileInv ==
    /\ ProfileTypeOK
    /\ Layered
    /\ NothingWaits
    /\ OnlyConcrete
    /\ DependenciesFirst
    /\ NoFalseAlarm

\* What is named is a name.
LEMMA MentionedNames ==
    ASSUME graph \in Graphs
    PROVE  Mentioned \subseteq Names /\ \A n : Depends(n) \subseteq Names
BY GraphAssumption DEF Mentioned, Depends

\* Consuming a name makes no layer larger and changes the order of none.
LEMMA ConsumedShrinks ==
    ASSUME ProfileTypeOK, NEW n, IsNext(n)
    PROVE  /\ Consumed(n) \in Seq((SUBSET Names) \ {{}})
           /\ \A i \in 1 .. Len(Consumed(n)) :
                  \E d \in {0, 1} : /\ i + d \in 1 .. Len(layers)
                                    /\ Consumed(n)[i] \subseteq layers[i + d]
                                    /\ \A j \in i .. Len(Consumed(n)) :
                                           /\ j + d \in 1 .. Len(layers)
                                           /\ Consumed(n)[j] \subseteq layers[j + d]
<1>. DEFINE Layer == (SUBSET Names) \ {{}}
<1>1. layers \in Seq(Layer) /\ layers # <<>> /\ n \in Head(layers)
  BY DEF ProfileTypeOK, IsNext
<1>2. CASE Head(layers) = {n}
  <2>1. Consumed(n) = Tail(layers)
    BY <1>2 DEF Consumed
  <2>2. /\ Tail(layers) \in Seq(Layer)
        /\ Len(Tail(layers)) = Len(layers) - 1
        /\ \A i \in 1 .. Len(layers) - 1 : Tail(layers)[i] = layers[i + 1]
    <3>. HIDE DEF Layer
    <3>. QED
      BY <1>1
  <2>3. Len(layers) \in Nat
    BY <1>1
  <2>. QED
    BY <2>1, <2>2, <2>3
<1>3. CASE Head(layers) # {n}
  <2>1. Consumed(n) = [layers EXCEPT ![1] = layers[1] \ {n}]
    BY <1>3 DEF Consumed
  <2>2. Head(layers) = layers[1] /\ 1 \in 1 .. Len(layers) /\ Len(layers) \in Nat
    BY <1>1
  <2>3. layers[1] \ {n} \in Layer
    <3>1. layers[1] \in Layer
      <4>. HIDE DEF Layer
      <4>. QED
        BY <1>1, <2>2
    <3>. QED
      BY <1>1, <1>3, <2>2, <3>1
  <2>4. Consumed(n) \in Seq(Layer) /\ Len(Consumed(n)) = Len(layers)
    <3>. HIDE DEF Layer
    <3>. QED
      BY <1>1, <2>1, <2>2, <2>3
  <2>5. \A i \in 1 .. Len(layers) : Consumed(n)[i] \subseteq layers[i]
    BY <1>1, <2>1, <2>2
  <2>. QED
    BY <2>2, <2>4, <2>5
<1>. QED
  BY <1>2, <1>3

\* Nothing that is said of the graph alone changes: no action touches it.
LEMMA GraphFixed ==
    ASSUME graph' = graph
    PROVE  /\ Mentioned' = Mentioned
           /\ \A n : Depends(n)' = Depends(n)
           /\ \A n, m : Precedes(n, m)' <=> Precedes(n, m)
           /\ Cyclic' <=> Cyclic
<1>1. Mentioned' = Mentioned
  BY DEF Mentioned
<1>2. \A n : Depends(n)' = Depends(n)
  BY DEF Depends
<1>3. \A n, m : Precedes(n, m)' <=> Precedes(n, m)
  BY DEF Precedes
<1>4. Cyclic' <=> Cyclic
  BY <1>1, <1>2 DEF Cyclic
<1>. QED
  BY <1>1, <1>2, <1>3, <1>4

\* A dependency between concrete modifications is an edge of the graph.
LEMMA PrecedesIsDepends ==
    ASSUME NEW n \in graph.mods, NEW m \in graph.mods, Precedes(n, m)
    PROVE  n \in Depends(m)
BY DEF Precedes, Depends

\* The lists of names that are resolved in a turn of the loop keep Layered.
LEMMA PullKeepsLayered ==
    ASSUME ProfileInv, PullLayer
    PROVE  Layered'
<1>. DEFINE D == DOMAIN data
            n1 == Len(layers) + 1
<1>1. /\ stage = "resolve" /\ graph' = graph /\ stage' = stage
      /\ layers' = Append(layers, NoDeps)
      /\ data' = [n \in D \ NoDeps |-> data[n] \ NoDeps]
  BY DEF PullLayer
<1>2. layers \in Seq((SUBSET Names) \ {{}}) /\ Len(layers) \in Nat
  BY DEF ProfileInv, ProfileTypeOK
<1>3. /\ \A n \in D : data[n] = Depends(n) \cap D
      /\ \A i \in 1 .. Len(layers) : \A m \in layers[i] : Depends(m) \cap D = {}
      /\ \A i, j \in 1 .. Len(layers) :
             i <= j => \A m \in layers[i] : Depends(m) \cap layers[j] = {}
  BY <1>1 DEF ProfileInv, Layered
<1>4. NoDeps \subseteq D /\ \A m \in NoDeps : Depends(m) \cap D = {}
  BY <1>3 DEF NoDeps
<1>5. /\ Len(layers') = n1 /\ layers'[n1] = NoDeps
      /\ \A i \in 1 .. Len(layers) : layers'[i] = layers[i]
  BY <1>1, <1>2
<1>6. DOMAIN data' = D \ NoDeps
  BY <1>1
<1>7. \A n : Depends(n)' = Depends(n)
  BY <1>1 DEF Depends
<1>8. \A n \in DOMAIN data' : data'[n] = Depends(n) \cap DOMAIN data'
  BY <1>1, <1>3, <1>6
<1>9. \A i \in 1 .. n1 : \A m \in layers'[i] : Depends(m) \cap DOMAIN data' = {}
  BY <1>2, <1>3, <1>4, <1>5, <1>6
<1>10. ASSUME NEW i \in 1 .. n1, NEW j \in 1 .. n1, i <= j, NEW m \in layers'[i]
       PROVE  Depends(m) \cap layers'[j] = {}
  <2>1. CASE j = n1
    BY <1>2, <1>3, <1>4, <1>5, <1>10, <2>1
  <2>2. CASE j # n1
    <3>1. i \in 1 .. Len(layers) /\ j \in 1 .. Len(layers)
      BY <1>2, <1>10, <2>2
    <3>. QED
      BY <1>3, <1>5, <1>10, <3>1
  <2>. QED
    BY <2>1, <2>2
<1>. QED
  BY <1>5, <1>7, <1>8, <1>9, <1>10 DEF Layered

\* Applying the first name of the first layer keeps what is still to be
\* applied behind what it depends on.
LEMMA ApplyKeepsOrder ==
    ASSUME ProfileInv, NEW n \in Names, Apply(n)
    PROVE  Layered' /\ NothingWaits' /\ OnlyConcrete' /\ DependenciesFirst'
<1>1. /\ stage = "apply" /\ stage' = stage /\ graph' = graph /\ data' = data
      /\ IsNext(n) /\ n \in graph.mods
      /\ mods' = IF n \in graph.applies THEN Append(mods, n) ELSE mods
      /\ layers' = Consumed(n)
  BY DEF Apply
<1>2. /\ layers \in Seq((SUBSET Names) \ {{}}) /\ Len(layers) \in Nat
      /\ mods \in Seq(Names) /\ Len(mods) \in Nat
  BY DEF ProfileInv, ProfileTypeOK
<1>3. 1 \in 1 .. Len(layers) /\ n \in layers[1]
  BY <1>1, <1>2 DEF IsNext
<1>4. /\ DOMAIN data = {}
      /\ \A i, j \in 1 .. Len(layers) :
             i <= j => \A m \in layers[i] : Depends(m) \cap layers[j] = {}
      /\ \A k \in 1 .. Len(mods), i \in 1 .. Len(layers) :
             Depends(mods[k]) \cap layers[i] = {}
  BY <1>1 DEF ProfileInv, Layered, NothingWaits
<1>5. /\ Len(layers') \in Nat
      /\ \A i \in 1 .. Len(layers') :
             \E d \in {0, 1} : /\ i + d \in 1 .. Len(layers)
                               /\ layers'[i] \subseteq layers[i + d]
                               /\ \A j \in i .. Len(layers') :
                                      /\ j + d \in 1 .. Len(layers)
                                      /\ layers'[j] \subseteq layers[j + d]
  BY <1>1, ConsumedShrinks DEF ProfileInv
<1>6. \A m : Depends(m)' = Depends(m)
  BY <1>1 DEF Depends
<1>7. Layered'
  <2>. SUFFICES ASSUME NEW i \in 1 .. Len(layers'), NEW j \in 1 .. Len(layers'),
                       i <= j, NEW m \in layers'[i]
                PROVE  Depends(m) \cap layers'[j] = {}
    BY <1>1, <1>4, <1>6 DEF Layered
  <2>1. PICK d \in {0, 1} : /\ i + d \in 1 .. Len(layers)
                            /\ layers'[i] \subseteq layers[i + d]
                            /\ \A k \in i .. Len(layers') :
                                   /\ k + d \in 1 .. Len(layers)
                                   /\ layers'[k] \subseteq layers[k + d]
    BY <1>5
  <2>2. j + d \in 1 .. Len(layers) /\ layers'[j] \subseteq layers[j + d]
    BY <1>5, <2>1
  <2>3. i + d <= j + d /\ m \in layers[i + d]
    BY <1>5, <2>1
  <2>. QED
    BY <1>4, <2>1, <2>2, <2>3
<1>8. /\ Len(mods') \in Nat
      /\ \A k \in 1 .. Len(mods') :
             \/ k \in 1 .. Len(mods) /\ mods'[k] = mods[k]
             \/ k > Len(mods) /\ mods'[k] = n
  <2>1. CASE n \in graph.applies
    BY <1>1, <1>2, <2>1
  <2>2. CASE n \notin graph.applies
    BY <1>1, <1>2, <2>2
  <2>. QED
    BY <2>1, <2>2
<1>9. OnlyConcrete'
  BY <1>1, <1>8 DEF ProfileInv, OnlyConcrete
<1>10. NothingWaits'
  <2>. SUFFICES ASSUME NEW k \in 1 .. Len(mods'), NEW i \in 1 .. Len(layers')
                PROVE  Depends(mods'[k]) \cap layers'[i] = {}
    BY <1>1, <1>4, <1>6 DEF NothingWaits
  <2>1. PICK d \in {0, 1} : i + d \in 1 .. Len(layers) /\ layers'[i] \subseteq layers[i + d]
    BY <1>5
  <2>2. Depends(mods'[k]) \cap layers[i + d] = {}
    BY <1>3, <1>4, <1>8, <2>1
  <2>. QED
    BY <2>1, <2>2
<1>11. DependenciesFirst'
  <2>. SUFFICES ASSUME NEW i \in 1 .. Len(mods'), NEW j \in 1 .. Len(mods'),
                       Precedes(mods'[i], mods'[j])
                PROVE  i < j
    BY <1>1 DEF DependenciesFirst, Precedes
  <2>1. mods'[i] \in Depends(mods'[j])
    BY <1>1, <1>9, PrecedesIsDepends DEF OnlyConcrete
  <2>2. CASE mods'[i] = n
    BY <1>3, <1>4, <1>8, <2>1, <2>2
  <2>3. CASE mods'[i] # n /\ j \in 1 .. Len(mods) /\ mods'[j] = mods[j]
    BY <1>8, <2>3 DEF ProfileInv, DependenciesFirst
  <2>4. CASE mods'[i] # n /\ j > Len(mods)
    BY <1>2, <1>8, <2>4
  <2>. QED
    BY <1>8, <2>2, <2>3, <2>4
<1>. QED
  BY <1>7, <1>9, <1>10, <1>11

\* Every step keeps the types of the profile.
LEMMA TypeInductive ==
    ASSUME ProfileTypeOK, [ProfileNext]_profileVars
    PROVE  ProfileTypeOK'
<1>1. graph \in Graphs /\ graph' = graph /\ Mentioned' = Mentioned
  BY DEF ProfileTypeOK, ProfileNext, profileVars, CachedProfile, NewProfile, PullLayer, CyclicGraph,
         Resolved, Apply, NotConcrete, AllApplied, Compile, Mentioned
<1>2. CASE CachedProfile
  BY <1>1, <1>2, NamesAssumption DEF CachedProfile, ProfileTypeOK
<1>3. CASE NewProfile
  BY <1>1, <1>3, NamesAssumption, MentionedNames DEF NewProfile, ProfileTypeOK
<1>4. CASE PullLayer
  <2>1. NoDeps \in (SUBSET Names) \ {{}}
    BY <1>1, <1>4, MentionedNames DEF PullLayer, NoDeps, ProfileTypeOK
  <2>2. layers' \in Seq((SUBSET Names) \ {{}})
    <3>. DEFINE Layer == (SUBSET Names) \ {{}}
    <3>1. layers \in Seq(Layer) /\ NoDeps \in Layer /\ layers' = Append(layers, NoDeps)
      BY <1>4, <2>1 DEF PullLayer, ProfileTypeOK
    <3>. HIDE DEF Layer
    <3>2. layers' \in Seq(Layer)
      BY <3>1
    <3>. QED
      BY <3>2 DEF Layer
  <2>. QED
    BY <1>1, <1>4, <2>2 DEF PullLayer, ProfileTypeOK
<1>5. CASE CyclicGraph
  BY <1>1, <1>5 DEF CyclicGraph, ProfileTypeOK
<1>6. CASE Resolved
  BY <1>1, <1>6 DEF Resolved, ProfileTypeOK
<1>7. ASSUME NEW n \in Names, Apply(n) PROVE ProfileTypeOK'
  <2>1. layers' \in Seq((SUBSET Names) \ {{}})
    BY <1>7, ConsumedShrinks DEF Apply
  <2>. QED
    BY <1>1, <1>7, <2>1 DEF Apply, ProfileTypeOK
<1>8. ASSUME NEW n \in Names, NotConcrete(n) PROVE ProfileTypeOK'
  BY <1>1, <1>8 DEF NotConcrete, ProfileTypeOK
<1>9. CASE AllApplied
  BY <1>1, <1>9 DEF AllApplied, ProfileTypeOK
<1>10. CASE Compile
  BY <1>1, <1>10 DEF Compile, ProfileTypeOK
<1>11. CASE UNCHANGED profileVars
  BY <1>11 DEF profileVars, ProfileTypeOK, Mentioned
<1>. QED
  BY <1>2, <1>3, <1>4, <1>5, <1>6, <1>7, <1>8, <1>9, <1>10, <1>11 DEF ProfileNext

\* Every step keeps the graph, the layers and the modifications in agreement.
LEMMA Inductive ==
    ASSUME ProfileInv, [ProfileNext]_profileVars
    PROVE  ProfileInv'
<1>1. ProfileTypeOK'
  BY TypeInductive DEF ProfileInv
<1>2. CASE CachedProfile
  BY <1>1, <1>2 DEF CachedProfile, ProfileInv, Layered, NothingWaits, OnlyConcrete,
                    DependenciesFirst, Precedes, NoFalseAlarm
<1>3. CASE NewProfile
  <2>1. graph' = graph /\ mods' = <<>> /\ layers' = <<>> /\ outcome' # "cyclic"
    BY <1>3 DEF NewProfile
  <2>2. stage = "idle" /\ stage' \in {"idle", "resolve"}
    BY <1>3 DEF NewProfile
  <2>3. Layered'
    <3>1. CASE graph.duplicate
      BY <1>3, <2>2, <3>1 DEF NewProfile, Layered
    <3>2. CASE ~graph.duplicate
      <4>1. data' = [n \in Mentioned |-> Depends(n)]
        BY <1>3, <3>2 DEF NewProfile
      <4>2. \A n : Depends(n) \subseteq Mentioned
        BY <1>1, <2>1, GraphAssumption DEF ProfileTypeOK, Depends, Mentioned
      <4>3. \A n : Depends(n)' = Depends(n)
        BY <2>1 DEF Depends
      <4>. QED
        BY <2>1, <4>1, <4>2, <4>3 DEF Layered
    <3>. QED
      BY <3>1, <3>2
  <2>. QED
    BY <1>1, <2>1, <2>2, <2>3 DEF ProfileInv, NothingWaits, OnlyConcrete,
                                  DependenciesFirst, NoFalseAlarm
<1>4. CASE PullLayer
  <2>1. /\ stage = "resolve" /\ stage' = stage /\ graph' = graph /\ mods' = mods
        /\ outcome' = outcome
    BY <1>4 DEF PullLayer
  <2>. QED
    BY <1>1, <1>4, <2>1, PullKeepsLayered, GraphFixed
    DEF ProfileInv, NothingWaits, OnlyConcrete, DependenciesFirst, NoFalseAlarm
<1>5. CASE CyclicGraph
  <2>1. /\ graph' = graph /\ mods' = mods /\ stage' = "compile" /\ stage = "resolve"
        /\ DOMAIN data # {} /\ NoDeps = {}
    BY <1>5 DEF CyclicGraph
  <2>2. DOMAIN data \subseteq Mentioned
    BY DEF ProfileInv, ProfileTypeOK
  <2>3. \A n \in DOMAIN data : Depends(n) \cap DOMAIN data # {}
    BY <2>1 DEF ProfileInv, Layered, NoDeps
  <2>4. Cyclic
    BY <2>1, <2>2, <2>3 DEF Cyclic
  <2>5. Cyclic'
    BY <2>1, <2>4, GraphFixed
  <2>. QED
    BY <1>1, <2>1, <2>5 DEF ProfileInv, Layered, NothingWaits, OnlyConcrete,
                            DependenciesFirst, Precedes, NoFalseAlarm
<1>6. CASE Resolved
  <2>1. /\ stage = "resolve" /\ stage' = "apply" /\ DOMAIN data = {}
        /\ graph' = graph /\ data' = data /\ layers' = layers
        /\ mods' = mods /\ outcome' = outcome
    BY <1>6 DEF Resolved
  <2>2. Layered'
    BY <2>1, GraphFixed DEF ProfileInv, Layered
  <2>3. NothingWaits'
    BY <2>1 DEF ProfileInv, NothingWaits
  <2>4. OnlyConcrete' /\ DependenciesFirst' /\ NoFalseAlarm'
    BY <2>1, GraphFixed DEF ProfileInv, OnlyConcrete, DependenciesFirst, NoFalseAlarm
  <2>. QED
    BY <1>1, <2>2, <2>3, <2>4 DEF ProfileInv
<1>7. ASSUME NEW n \in Names, Apply(n) PROVE ProfileInv'
  <2>1. NoFalseAlarm'
    <3>1. graph' = graph /\ outcome' = outcome
      BY <1>7 DEF Apply
    <3>. QED
      BY <3>1, GraphFixed DEF ProfileInv, NoFalseAlarm
  <2>. QED
    BY <1>1, <1>7, <2>1, ApplyKeepsOrder DEF ProfileInv
<1>8. ASSUME NEW n \in Names, NotConcrete(n) PROVE ProfileInv'
  BY <1>1, <1>8 DEF NotConcrete, ProfileInv, Layered, NothingWaits, OnlyConcrete,
     DependenciesFirst, Precedes, NoFalseAlarm
<1>9. CASE AllApplied
  BY <1>1, <1>9 DEF AllApplied, ProfileInv, Layered, NothingWaits, OnlyConcrete,
     DependenciesFirst, Precedes, NoFalseAlarm
<1>10. CASE Compile
  <2>1. /\ stage' = "idle" /\ graph' = graph /\ mods' = mods /\ outcome' = outcome
    BY <1>10 DEF Compile
  <2>. QED
    BY <1>1, <2>1, GraphFixed DEF ProfileInv, Layered, NothingWaits, OnlyConcrete,
       DependenciesFirst, NoFalseAlarm
<1>11. CASE UNCHANGED profileVars
  <2>1. /\ stage' = stage /\ graph' = graph /\ data' = data /\ layers' = layers
        /\ mods' = mods /\ outcome' = outcome
    BY <1>11 DEF profileVars
  <2>. QED
    BY <1>1, <2>1, GraphFixed DEF ProfileInv, Layered, NothingWaits, OnlyConcrete,
       DependenciesFirst, NoFalseAlarm
<1>. QED
  BY <1>2, <1>3, <1>4, <1>5, <1>6, <1>7, <1>8, <1>9, <1>10, <1>11 DEF ProfileNext

\* The graph that is left, the layers and the applied modifications always fit
\* together: what the order and the warning are proved from.
THEOREM ProfileInvHolds == ProfileSpec => []ProfileInv
<1>1. ProfileInit => ProfileInv
  <2>1. ASSUME ProfileInit PROVE ProfileTypeOK
    <3>1. DOMAIN data = {}
      BY <2>1 DEF ProfileInit
    <3>2. layers \in Seq((SUBSET Names) \ {{}}) /\ mods \in Seq(Names)
      BY <2>1 DEF ProfileInit
    <3>3. attempts \in 0 .. MaxAttempts
      BY <2>1, NamesAssumption DEF ProfileInit
    <3>4. /\ graph \in Graphs /\ stage = "idle"
          /\ profiles \in BOOLEAN /\ outcome = "none"
      BY <2>1 DEF ProfileInit
    <3>. QED
      BY <3>1, <3>2, <3>3, <3>4 DEF ProfileTypeOK
  <2>2. ASSUME ProfileInit
        PROVE  Layered /\ NothingWaits /\ OnlyConcrete /\ DependenciesFirst /\ NoFalseAlarm
    BY <2>2 DEF ProfileInit, Layered, NothingWaits, OnlyConcrete, DependenciesFirst, NoFalseAlarm
  <2>. QED
    BY <2>1, <2>2 DEF ProfileInv
<1>2. ProfileInv /\ [ProfileNext]_profileVars => ProfileInv'
  BY Inductive
<1>. QED
  BY <1>1, <1>2, PTL DEF ProfileSpec

\* Whatever modifications plugins define, each is applied after everything its
\* before list, or the after list of another, puts before it.
THEOREM OrderRespected == ProfileSpec => []DependenciesFirst
BY ProfileInvHolds, PTL DEF ProfileInv

\* The cyclic dependency warning is only given for a graph that has a cycle.
THEOREM WarningsAreReal == ProfileSpec => []NoFalseAlarm
BY ProfileInvHolds, PTL DEF ProfileInv

------------------------------------------------------------------------------
(* That no modification is lost takes the other half: ProfileInv says that what   *)
(* is applied is in order, Sorted, Kept and Served that it is everything.   *)

\* The layers are disjoint, a name is in one of them or still in data, and a
\* cycle is still in data as a whole, so that a graph without items left has none.
Sorted ==
    /\ stage \in {"resolve", "apply"} =>
        /\ \A i, j \in 1 .. Len(layers) : i < j => layers[i] \cap layers[j] = {}
        /\ \A i \in 1 .. Len(layers) : layers[i] \cap DOMAIN data = {}
        /\ \A S \in SUBSET Mentioned :
               (\A n \in S : Depends(n) \cap S # {}) => S \subseteq DOMAIN data
    /\ stage = "resolve" => Mentioned \subseteq DOMAIN data \cup Pulled

\* A name that has left its layer is that of a modification, which has been
\* applied if its check holds, and nothing else has been applied.
Kept ==
    stage = "apply" =>
        /\ Mentioned \ Pulled \subseteq graph.mods
        /\ \A m \in graph.applies \ Pulled : \E k \in 1 .. Len(mods) : mods[k] = m
        /\ \A k \in 1 .. Len(mods) : mods[k] \in graph.applies \ Pulled
        /\ \A j, k \in 1 .. Len(mods) : mods[j] = mods[k] => j = k

\* What NothingLost says of a profile that is served.
WholeProfile ==
    IF Cyclic THEN mods = <<>>
    ELSE /\ Mentioned = graph.mods
         /\ {mods[i] : i \in 1 .. Len(mods)} = graph.applies
         /\ \A i, j \in 1 .. Len(mods) : mods[i] = mods[j] => i = j

\* It holds before the types are compiled, and nothing is applied afterwards.
Served ==
    /\ stage # "idle" => ~graph.duplicate /\ ~profiles
    /\ profiles => ~graph.duplicate
    /\ stage = "compile" \/ profiles => WholeProfile

\* Consuming a name takes it, and no other, from the layers.
LEMMA ConsumedTakesOne ==
    ASSUME ProfileTypeOK, NEW n, IsNext(n),
           \A i, j \in 1 .. Len(layers) : i < j => layers[i] \cap layers[j] = {},
           NEW m
    PROVE  (\E i \in 1 .. Len(Consumed(n)) : m \in Consumed(n)[i])
               <=> m # n /\ \E i \in 1 .. Len(layers) : m \in layers[i]
<1>. DEFINE Layer == (SUBSET Names) \ {{}}
<1>1. layers \in Seq(Layer) /\ layers # <<>> /\ n \in Head(layers)
  BY DEF ProfileTypeOK, IsNext
<1>. HIDE DEF Layer
<1>2. Head(layers) = layers[1] /\ 1 \in 1 .. Len(layers) /\ Len(layers) \in Nat
  BY <1>1
<1>3. \A i \in 1 .. Len(layers) : n \in layers[i] => i = 1
  BY <1>1, <1>2
<1>4. CASE Head(layers) = {n}
  <2>1. /\ Consumed(n) = Tail(layers)
        /\ Len(Tail(layers)) = Len(layers) - 1
        /\ \A i \in 1 .. Len(layers) - 1 : Tail(layers)[i] = layers[i + 1]
    BY <1>1, <1>4 DEF Consumed
  <2>2. ASSUME NEW i \in 1 .. Len(Consumed(n)), m \in Consumed(n)[i]
        PROVE  m # n /\ \E j \in 1 .. Len(layers) : m \in layers[j]
    <3>1. i + 1 \in 1 .. Len(layers) /\ m \in layers[i + 1] /\ i + 1 # 1
      BY <1>2, <2>1, <2>2
    <3>. QED
      BY <1>3, <3>1
  <2>3. ASSUME NEW i \in 1 .. Len(layers), m \in layers[i], m # n
        PROVE  \E j \in 1 .. Len(Consumed(n)) : m \in Consumed(n)[j]
    <3>1. i # 1
      BY <1>2, <1>4, <2>3
    <3>2. i - 1 \in 1 .. Len(layers) - 1 /\ (i - 1) + 1 = i
      BY <1>2, <3>1
    <3>3. i - 1 \in 1 .. Len(Consumed(n)) /\ m \in Consumed(n)[i - 1]
      BY <2>1, <2>3, <3>2
    <3>. QED
      BY <3>3
  <2>. QED
    BY <2>2, <2>3
<1>5. CASE Head(layers) # {n}
  <2>1. Consumed(n) = [layers EXCEPT ![1] = layers[1] \ {n}]
    BY <1>5 DEF Consumed
  <2>2. /\ Len(Consumed(n)) = Len(layers)
        /\ \A i \in 1 .. Len(layers) :
               Consumed(n)[i] = IF i = 1 THEN layers[1] \ {n} ELSE layers[i]
    BY <1>1, <1>2, <2>1
  <2>. QED
    BY <1>3, <2>2
<1>. QED
  BY <1>4, <1>5

\* Nothing that waits in a cycle is pulled.
LEMMA PullKeepsSorted ==
    ASSUME ProfileInv, Sorted, PullLayer
    PROVE  Sorted'
<1>. DEFINE D == DOMAIN data
            n1 == Len(layers) + 1
<1>1. /\ stage = "resolve" /\ graph' = graph /\ stage' = stage
      /\ layers' = Append(layers, NoDeps)
      /\ data' = [n \in D \ NoDeps |-> data[n] \ NoDeps]
  BY DEF PullLayer
<1>2. layers \in Seq((SUBSET Names) \ {{}}) /\ Len(layers) \in Nat
  BY DEF ProfileInv, ProfileTypeOK
<1>3. /\ Len(layers') = n1 /\ layers'[n1] = NoDeps
      /\ \A i \in 1 .. Len(layers) : layers'[i] = layers[i]
  BY <1>1, <1>2
<1>4. DOMAIN data' = D \ NoDeps /\ NoDeps \subseteq D
  BY <1>1 DEF NoDeps
<1>5. /\ \A i, j \in 1 .. Len(layers) : i < j => layers[i] \cap layers[j] = {}
      /\ \A i \in 1 .. Len(layers) : layers[i] \cap D = {}
      /\ \A S \in SUBSET Mentioned :
             (\A n \in S : Depends(n) \cap S # {}) => S \subseteq D
      /\ Mentioned \subseteq D \cup Pulled
  BY <1>1 DEF Sorted
<1>6. \A m \in NoDeps : Depends(m) \cap D = {}
  BY <1>1 DEF NoDeps, ProfileInv, Layered
<1>7. \A i, j \in 1 .. n1 : i < j => layers'[i] \cap layers'[j] = {}
  <2>. SUFFICES ASSUME NEW i \in 1 .. n1, NEW j \in 1 .. n1, i < j
                PROVE  layers'[i] \cap layers'[j] = {}
    OBVIOUS
  <2>1. i \in 1 .. Len(layers) /\ (j = n1 \/ j \in 1 .. Len(layers))
    BY <1>2
  <2>. QED
    BY <1>3, <1>4, <1>5, <2>1
<1>8. \A i \in 1 .. n1 : layers'[i] \cap DOMAIN data' = {}
  <2>. SUFFICES ASSUME NEW i \in 1 .. n1 PROVE layers'[i] \cap DOMAIN data' = {}
    OBVIOUS
  <2>1. i = n1 \/ i \in 1 .. Len(layers)
    BY <1>2
  <2>. QED
    BY <1>3, <1>4, <1>5, <2>1
<1>9. ASSUME NEW S \in SUBSET Mentioned, \A n \in S : Depends(n) \cap S # {}
      PROVE  S \subseteq DOMAIN data'
  BY <1>4, <1>5, <1>6, <1>9
<1>10. Mentioned \subseteq DOMAIN data' \cup Pulled'
  <2>1. n1 \in 1 .. Len(layers') /\ \A i \in 1 .. Len(layers) : i \in 1 .. Len(layers')
    BY <1>2, <1>3
  <2>2. Pulled \subseteq Pulled' /\ NoDeps \subseteq Pulled'
    BY <1>3, <2>1 DEF Pulled
  <2>. QED
    BY <1>4, <1>5, <2>2
<1>. QED
  BY <1>1, <1>3, <1>7, <1>8, <1>9, <1>10, GraphFixed DEF Sorted

\* Applying a modification, or skipping it when its check fails, moves it from
\* what waits to what is done.
LEMMA ApplyKeepsAll ==
    ASSUME ProfileInv, Sorted, Kept, NEW n \in Names, Apply(n)
    PROVE  Sorted' /\ Kept'
<1>1. /\ stage = "apply" /\ stage' = stage /\ graph' = graph /\ data' = data
      /\ IsNext(n) /\ n \in graph.mods
      /\ mods' = IF n \in graph.applies THEN Append(mods, n) ELSE mods
      /\ layers' = Consumed(n)
  BY DEF Apply
<1>2. /\ layers \in Seq((SUBSET Names) \ {{}}) /\ Len(layers) \in Nat
      /\ mods \in Seq(Names) /\ Len(mods) \in Nat /\ graph \in Graphs
  BY DEF ProfileInv, ProfileTypeOK
<1>3. /\ \A i, j \in 1 .. Len(layers) : i < j => layers[i] \cap layers[j] = {}
      /\ \A i \in 1 .. Len(layers) : layers[i] \cap DOMAIN data = {}
      /\ \A S \in SUBSET Mentioned :
             (\A x \in S : Depends(x) \cap S # {}) => S \subseteq DOMAIN data
  BY <1>1 DEF Sorted
<1>4. /\ Mentioned \ Pulled \subseteq graph.mods
      /\ \A m \in graph.applies \ Pulled : \E k \in 1 .. Len(mods) : mods[k] = m
      /\ \A k \in 1 .. Len(mods) : mods[k] \in graph.applies \ Pulled
      /\ \A j, k \in 1 .. Len(mods) : mods[j] = mods[k] => j = k
  BY <1>1 DEF Kept
<1>5. n \in Pulled
  BY <1>1, <1>2 DEF Pulled, IsNext
<1>6. Pulled' = Pulled \ {n}
  <2>1. ASSUME NEW m
        PROVE  (\E i \in 1 .. Len(layers') : m \in layers'[i])
                   <=> m # n /\ \E i \in 1 .. Len(layers) : m \in layers[i]
    BY <1>1, <1>3, ConsumedTakesOne DEF ProfileInv
  <2>. QED
    BY <2>1 DEF Pulled
<1>7. /\ Len(layers') \in Nat
      /\ \A i \in 1 .. Len(layers') :
             \E d \in {0, 1} : /\ i + d \in 1 .. Len(layers)
                               /\ layers'[i] \subseteq layers[i + d]
                               /\ \A j \in i .. Len(layers') :
                                      /\ j + d \in 1 .. Len(layers)
                                      /\ layers'[j] \subseteq layers[j + d]
  BY <1>1, ConsumedShrinks DEF ProfileInv
<1>8. Sorted'
  <2>1. ASSUME NEW i \in 1 .. Len(layers'), NEW j \in 1 .. Len(layers'), i < j
        PROVE  layers'[i] \cap layers'[j] = {}
    <3>1. PICK d \in {0, 1} : /\ i + d \in 1 .. Len(layers)
                              /\ layers'[i] \subseteq layers[i + d]
                              /\ \A k \in i .. Len(layers') :
                                     /\ k + d \in 1 .. Len(layers)
                                     /\ layers'[k] \subseteq layers[k + d]
      BY <1>7
    <3>2. /\ j + d \in 1 .. Len(layers) /\ layers'[j] \subseteq layers[j + d]
          /\ i + d < j + d
      BY <1>7, <2>1, <3>1
    <3>. QED
      BY <1>3, <3>1, <3>2
  <2>2. ASSUME NEW i \in 1 .. Len(layers')
        PROVE  layers'[i] \cap DOMAIN data' = {}
    <3>1. PICK d \in {0, 1} : i + d \in 1 .. Len(layers) /\ layers'[i] \subseteq layers[i + d]
      BY <1>7
    <3>. QED
      BY <1>1, <1>3, <3>1
  <2>. QED
    BY <1>1, <1>3, <2>1, <2>2, GraphFixed DEF Sorted
<1>9. Mentioned \ Pulled' \subseteq graph.mods
  BY <1>1, <1>4, <1>6
<1>10. CASE n \in graph.applies
  <2>1. /\ Len(mods') = Len(mods) + 1 /\ mods'[Len(mods) + 1] = n
        /\ \A k \in 1 .. Len(mods) : mods'[k] = mods[k]
    BY <1>1, <1>2, <1>10
  <2>2. \A k \in 1 .. Len(mods') : k \in 1 .. Len(mods) \/ k = Len(mods) + 1
    BY <1>2, <2>1
  <2>3. /\ Len(mods) + 1 \in 1 .. Len(mods')
        /\ \A k \in 1 .. Len(mods) : k \in 1 .. Len(mods')
    BY <1>2, <2>1
  <2>4. \A m \in graph.applies \ Pulled' : \E k \in 1 .. Len(mods') : mods'[k] = m
    <3>. SUFFICES ASSUME NEW m \in graph.applies \ Pulled'
                  PROVE  \E k \in 1 .. Len(mods') : mods'[k] = m
      OBVIOUS
    <3>1. CASE m = n
      BY <2>1, <2>3, <3>1
    <3>2. CASE m # n
      <4>1. PICK k \in 1 .. Len(mods) : mods[k] = m
        BY <1>4, <1>6, <3>2
      <4>. QED
        BY <2>1, <2>3, <4>1
    <3>. QED
      BY <3>1, <3>2
  <2>5. \A k \in 1 .. Len(mods') : mods'[k] \in graph.applies \ Pulled'
    BY <1>4, <1>6, <1>10, <2>1, <2>2
  <2>6. \A k \in 1 .. Len(mods) : mods[k] # n
    BY <1>4, <1>5
  <2>7. \A j, k \in 1 .. Len(mods') : mods'[j] = mods'[k] => j = k
    BY <1>4, <2>1, <2>2, <2>6
  <2>. QED
    BY <1>1, <1>8, <1>9, <2>4, <2>5, <2>7, GraphFixed DEF Kept
<1>11. CASE n \notin graph.applies
  <2>1. mods' = mods
    BY <1>1, <1>11
  <2>. QED
    BY <1>1, <1>4, <1>6, <1>8, <1>9, <1>11, <2>1, GraphFixed DEF Kept
<1>. QED
  BY <1>10, <1>11

\* Every step keeps the account of where each name is.
LEMMA AllIsKept ==
    ASSUME ProfileInv, Sorted, Kept, Served, [ProfileNext]_profileVars
    PROVE  Sorted' /\ Kept' /\ Served'
<1>. USE DEF Sorted, Kept, Served
<1>0. graph' = graph
  BY DEF ProfileNext, profileVars, CachedProfile, NewProfile, PullLayer, CyclicGraph,
         Resolved, Apply, NotConcrete, AllApplied, Compile
<1>1. /\ Mentioned' = Mentioned /\ (Cyclic' <=> Cyclic)
      /\ \A n : Depends(n)' = Depends(n)
  BY <1>0, GraphFixed
<1>2. CASE CachedProfile
  BY <1>0, <1>1, <1>2 DEF CachedProfile, WholeProfile
<1>3. CASE NewProfile
  <2>1. CASE graph.duplicate
    BY <1>0, <1>3, <2>1 DEF NewProfile
  <2>2. CASE ~graph.duplicate
    <3>1. /\ layers' = <<>> /\ data' = [n \in Mentioned |-> Depends(n)]
          /\ stage' = "resolve" /\ ~profiles' /\ Len(layers') = 0
      BY <1>3, <2>2 DEF NewProfile
    <3>2. \A i \in 1 .. Len(layers') : FALSE
      BY <3>1
    <3>. QED
      BY <1>0, <1>1, <2>2, <3>1, <3>2
  <2>. QED
    BY <2>1, <2>2
<1>4. CASE PullLayer
  <2>1. Sorted'
    BY <1>4, PullKeepsSorted
  <2>. QED
    BY <1>0, <1>4, <2>1 DEF PullLayer
<1>5. CASE CyclicGraph
  <2>1. Cyclic
    <3>1. DOMAIN data # {} /\ DOMAIN data \subseteq Mentioned
          /\ \A n \in DOMAIN data : Depends(n) \cap DOMAIN data # {}
      BY <1>5 DEF CyclicGraph, ProfileInv, ProfileTypeOK, Layered, NoDeps
    <3>. QED
      BY <3>1 DEF Cyclic
  <2>2. mods' = <<>>
    BY <1>5 DEF CyclicGraph, ProfileInv, NothingWaits
  <2>. QED
    BY <1>0, <1>1, <1>5, <2>1, <2>2 DEF CyclicGraph, WholeProfile
<1>6. CASE Resolved
  <2>1. /\ stage = "resolve" /\ stage' = "apply" /\ DOMAIN data = {} /\ data' = data
        /\ layers' = layers /\ mods' = mods /\ profiles' = profiles
    BY <1>6 DEF Resolved
  <2>2. mods = <<>> /\ Pulled' = Pulled /\ Mentioned \subseteq Pulled
    BY <2>1 DEF ProfileInv, NothingWaits, Pulled
  <2>3. graph.applies \subseteq Mentioned
    BY GraphAssumption DEF ProfileInv, ProfileTypeOK, Mentioned
  <2>4. Sorted'
    BY <1>0, <1>1, <2>1
  <2>5. \A k \in 1 .. Len(mods') : FALSE
    BY <2>1, <2>2
  <2>6. Kept'
    BY <1>0, <1>1, <2>2, <2>3, <2>5
  <2>. QED
    BY <1>0, <2>1, <2>4, <2>6
<1>7. ASSUME NEW n \in Names, Apply(n) PROVE Sorted' /\ Kept' /\ Served'
  <2>1. Sorted' /\ Kept'
    BY <1>7, ApplyKeepsAll
  <2>. QED
    BY <1>0, <1>7, <2>1 DEF Apply
<1>8. ASSUME NEW n \in Names, NotConcrete(n) PROVE Sorted' /\ Kept' /\ Served'
  BY <1>0, <1>8 DEF NotConcrete
<1>9. CASE AllApplied
  <2>1. /\ stage = "apply" /\ layers = <<>> /\ stage' = "compile" /\ mods' = mods
        /\ profiles' = profiles /\ Pulled = {} /\ DOMAIN data = {}
    BY <1>9 DEF AllApplied, Pulled, ProfileInv, NothingWaits
  <2>2. ~Cyclic
    BY <2>1 DEF Cyclic
  <2>3. Mentioned = graph.mods
    BY <2>1 DEF Mentioned
  <2>4. {mods[i] : i \in 1 .. Len(mods)} = graph.applies
    BY <2>1
  <2>5. WholeProfile'
    BY <1>0, <1>1, <2>1, <2>2, <2>3, <2>4 DEF WholeProfile
  <2>. QED
    BY <1>0, <2>1, <2>5
<1>10. CASE Compile
  BY <1>0, <1>1, <1>10 DEF Compile, WholeProfile
<1>11. CASE UNCHANGED profileVars
  BY <1>0, <1>1, <1>11 DEF profileVars, Pulled, WholeProfile
<1>. QED
  BY <1>2, <1>3, <1>4, <1>5, <1>6, <1>7, <1>8, <1>9, <1>10, <1>11 DEF ProfileNext

\* Whatever modifications plugins define, a profile that PROFILES serves has all
\* of those whose check holds, once each, or none when some depend on each other.
THEOREM NothingIsLost == ProfileSpec => []NothingLost
<1>1. ProfileInit => Sorted /\ Kept /\ Served
  BY DEF ProfileInit, Sorted, Kept, Served
<1>2. ProfileInv /\ Sorted /\ Kept /\ Served /\ [ProfileNext]_profileVars => Sorted' /\ Kept' /\ Served'
  BY AllIsKept
<1>3. Served => NothingLost
  BY DEF Served, WholeProfile, NothingLost
<1>. QED
  BY <1>1, <1>2, <1>3, ProfileInvHolds, PTL DEF ProfileSpec

\* The types of the state hold throughout.
THEOREM ProfileTypeCorrect == ProfileSpec => []ProfileTypeOK
BY ProfileInvHolds, PTL DEF ProfileInv
==============================================================================
