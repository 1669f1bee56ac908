---------------------------- MODULE ConfResolve ----------------------------
(***************************************************************************)
(* The configuration (conf.py) while vol.py starts up and while a plugin   *)
(* runs.  Options are registered one at a time, by the framework, by every *)
(* class that has register_options and by the constructor of the chosen    *)
(* plugin; each registration parses the whole command line again with the  *)
(* options known so far.  Such a parse stops at the first option that it   *)
(* does not know or whose value is bad, without an error; what stands      *)
(* behind it becomes positional.  Only the last parse, with final set,     *)
(* insists.  A value is looked up in readonly, the parsed options, the     *)
(* environment, the configuration files and the defaults, in that order.   *)
(*                                                                         *)
(* A token of the command line is an option with its value or, with None   *)
(* for the option, a word.  None as a value means that there is none.      *)
(***************************************************************************)
EXTENDS Integers, Sequences

CONSTANTS
  Opts,       \* names of options
  ConfOpt,    \* CONF-FILE
  Globals,    \* those that register_options of some class registers
  Commands,   \* names of plugins
  Ops,        \* Ops[c]: what the constructor of c adds and removes, in order
  Nested,     \* plugins that a running plugin may make
  Values,     \* values of options, words, names of files
  Falsy,      \* those that Python takes for false
  SysFile,    \* the system's configuration file
  Defaults,   \* Defaults[o]: the default given to add_option
  Contents,   \* Contents[f][o]: what file f says about o
  Lines,      \* command lines
  Envs,       \* what VOLATILITY_* variables may say
  Updates,    \* options that plugins force with update
  MaxUpdates, \* bound: updates and plugins made in a run
  None, Bad, Missing \* no value; one that does not convert; no argument left

MaybeValue == Values \cup {None}
Token == [opt : Opts \cup {None}, val : Values \cup {Bad, Missing}]

ASSUME OptionsAssumption ==
  /\ ConfOpt \in Opts /\ Globals \subseteq Opts /\ Updates \subseteq Opts
  /\ Commands \subseteq Values /\ Nested \subseteq Commands
  /\ Falsy \subseteq Values /\ SysFile \in Values
  /\ None \notin Opts /\ None \notin Values
  /\ Bad \notin Values /\ Missing \notin Values /\ Bad # Missing
  /\ None \notin {Bad, Missing}
  /\ MaxUpdates \in Nat

ASSUME InputAssumption ==
  /\ Ops \in [Commands -> Seq({"add", "remove"} \X Opts)]
  /\ Defaults \in [Opts -> MaybeValue] /\ Defaults[ConfOpt] # None
  /\ Contents \in [Values -> [Opts -> MaybeValue]]
  /\ Envs \subseteq [Opts -> MaybeValue]
  /\ Lines \subseteq Seq(Token)
  /\ \A c \in Lines : \A i \in DOMAIN c :
       /\ c[i].opt = None => c[i].val \in Values
       /\ c[i].val = Missing => i = Len(c)

VARIABLES
  line, env,    \* the surroundings of the program
  phase,        \* "boot", "globals", "plugin", "run", "nested" or "exit"
  options,      \* options: the registered ones
  readonly,     \* readonly: what update forced
  opts,         \* opts: what the command line gave
  values,       \* optparser.values: what the last parse has seen
  cnf,          \* cnf_opts: what the files gave
  filenames,    \* _filenames
  defaults,     \* default_opts
  todo,         \* what the constructor of a plugin has still to do
  module,       \* the chosen plugin
  updates       \* updates made

vars == <<line, env, phase, options, readonly, opts, values, cnf, filenames,
          defaults, todo, module, updates>>
-----------------------------------------------------------------------------
(***************************************************************************)
(* Parsing with the options known.                                         *)
(***************************************************************************)

(* BadOptionError, OptionValueError: swallowed by _process_args. *)
Stops(i, known) ==
  /\ line[i].opt # None
  /\ line[i].opt \notin known \/ line[i].val = Bad

(* An option without its argument: error raises RuntimeError. *)
Fails(i, known) == line[i].opt \in known /\ line[i].val = Missing

Reached(i, known) ==
  \A j \in 1..(i - 1) : ~Stops(j, known) /\ ~Fails(j, known)

Raises(known) ==
  \E i \in DOMAIN line : Reached(i, known) /\ Fails(i, known)

Given(o, known) ==
  {i \in DOMAIN line : /\ line[i].opt = o /\ o \in known
                       /\ Reached(i, known)
                       /\ ~Stops(i, known) /\ ~Fails(i, known)}

(* The last occurrence counts. *)
Last(S) == CHOOSE i \in S : \A j \in S : j <= i

\* Slip: an option without argument is taken for one with a value.
ParsedMissing(known) ==
  [o \in Opts |->
    LET given == {i \in DOMAIN line : /\ line[i].opt = o /\ o \in known
                                      /\ Reached(i, known) /\ ~Stops(i, known)}
    IN IF given = {} THEN None ELSE line[Last(given)].val]
Parsed(known) ==
  [o \in Opts |-> IF Given(o, known) = {} THEN None
                  ELSE line[Last(Given(o, known))].val]

(* parse_options(False): opts is refilled unless error() was called. *)
\* Slip: what has been parsed before is not replaced.
ParseKeeps(known) ==
  /\ values' = Parsed(known)
  /\ opts' = IF Raises(known) THEN opts
             ELSE [o \in Opts |-> IF opts[o] # None THEN opts[o]
                                  ELSE Parsed(known)[o]]
Parse(known) ==
  /\ values' = Parsed(known)
  /\ opts' = IF Raises(known) THEN opts ELSE Parsed(known)

(* The raw strings that are left over are positional: all behind a stop,   *)
(* with the value of the option that caused it.                            *)
Words(known) ==
  {i \in DOMAIN line :
     \/ Reached(i, known) /\ line[i].opt = None
     \/ /\ ~Raises(known) /\ line[i].val \in Values
        /\ ~Reached(i, known) \/ (line[i].opt # None /\ line[i].opt \notin known)}

First(S) == CHOOSE i \in S : \A j \in S : i <= j

(* "Try to find the first thing that looks like a module name." *)
Module(known) ==
  LET found == {i \in Words(known) : line[i].val \in Commands}
  IN IF found = {} THEN None ELSE line[First(found)].val

(* add_file: all files are read again, later ones prevail. *)
FromFiles(files) ==
  [o \in Opts |->
     LET said == {i \in DOMAIN files : Contents[files[i]][o] # None}
     IN IF said = {} THEN None ELSE Contents[files[Last(said)]][o]]

AddFile(f) ==
  /\ filenames' = Append(filenames, f)
  /\ cnf' = FromFiles(filenames')

(* ConfObject.__getattr__ *)
Get(o) ==
  IF readonly[o] # None THEN readonly[o]
  ELSE IF opts[o] # None THEN opts[o]
  ELSE IF values[o] \notin Falsy \cup {None} THEN values[o]
  ELSE IF env[o] # None THEN env[o]
  ELSE IF cnf[o] # None THEN cnf[o]
  ELSE defaults[o]
-----------------------------------------------------------------------------
Init ==
  /\ line \in Lines /\ env \in Envs
  /\ phase = "boot"
  /\ options = {}
  /\ readonly = [o \in Opts |-> None]
  /\ opts = [o \in Opts |-> None]
  /\ values = [o \in Opts |-> None]
  /\ cnf = Contents[SysFile]
  /\ filenames = <<SysFile>>
  /\ defaults = [o \in Opts |-> None]
  /\ todo = << <<"add", ConfOpt>> >>
  /\ module = None
  /\ updates = 0

Add(o) ==
  IF o \in options THEN UNCHANGED <<options, defaults, opts, values>>
  ELSE /\ options' = options \cup {o}
       /\ defaults' = [defaults EXCEPT ![o] = Defaults[o]]
       /\ Parse(options')

(* The import of conf.py, the constructor of the chosen plugin, and that   *)
(* of a plugin made by a running one.                                      *)
AddOption ==
  /\ todo # <<>> /\ Head(todo)[1] = "add"
  /\ Add(Head(todo)[2])
  /\ todo' = Tail(todo)
  /\ UNCHANGED <<line, env, phase, readonly, cnf, filenames, module, updates>>

RemoveOption ==
  /\ todo # <<>> /\ Head(todo)[1] = "remove"
  /\ LET o == Head(todo)[2]
     IN IF o \notin options
        THEN UNCHANGED <<options, readonly, defaults, opts, values>>
        ELSE /\ options' = options \ {o}
             /\ readonly' = [readonly EXCEPT ![o] = None]
             /\ defaults' = [defaults EXCEPT ![o] = None]
             /\ Parse(options')
  /\ todo' = Tail(todo)
  /\ UNCHANGED <<line, env, phase, cnf, filenames, module, updates>>

(* config.add_file(config.CONF_FILE), the end of the import of conf.py. *)
ReadUserFile ==
  /\ phase = "boot" /\ todo = <<>>
  /\ AddFile(Get(ConfOpt))
  /\ phase' = "globals"
  /\ UNCHANGED <<line, env, options, readonly, opts, values, defaults, todo,
                 module, updates>>

(* Modules are imported, and classes registered, in dictionary order. *)
RegisterGlobal(o) ==
  /\ phase = "globals" /\ o \in Globals \ options
  /\ Add(o)
  /\ UNCHANGED <<line, env, phase, readonly, cnf, filenames, todo, module,
                 updates>>

(* main: parse, find the plugin and make it.  Without one there is a last  *)
(* parse and an error message.                                             *)
PickModule ==
  /\ phase = "globals" /\ Globals \subseteq options
  /\ Parse(options)
  /\ module' = Module(options)
  /\ IF module' = None
     THEN phase' = "exit" /\ todo' = <<>>
     ELSE phase' = "plugin" /\ todo' = Ops[module']
  /\ UNCHANGED <<line, env, options, readonly, cnf, filenames, defaults,
                 updates>>

Wrong == \E i \in DOMAIN line : Stops(i, options) \/ Fails(i, options)

(* parse_options(): what was swallowed before now ends the program.  The   *)
(* configuration file is read again.                                       *)
FinalParse ==
  /\ phase = "plugin" /\ todo = <<>>
  /\ IF Wrong
     THEN /\ phase' = "exit"
          /\ UNCHANGED <<opts, values, cnf, filenames>>
     ELSE /\ phase' = "run"
          /\ Parse(options)
          /\ AddFile(filenames[Len(filenames)])
  /\ UNCHANGED <<line, env, options, readonly, defaults, todo, module, updates>>

(* A plugin tries other values (imageinfo, kdbgscan, timeliner). *)
Update(o, v) ==
  /\ phase = "run" /\ updates < MaxUpdates
  /\ readonly' = [readonly EXCEPT ![o] = v]
  /\ updates' = updates + 1
  /\ UNCHANGED <<line, env, phase, options, opts, values, cnf, filenames,
                 defaults, todo, module>>

(* A plugin makes another one. *)
MakePlugin(c) ==
  /\ phase = "run" /\ updates < MaxUpdates
  /\ phase' = "nested"
  /\ todo' = Ops[c]
  /\ updates' = updates + 1
  /\ UNCHANGED <<line, env, options, readonly, opts, values, cnf, filenames,
                 defaults, module>>

PluginMade ==
  /\ phase = "nested" /\ todo = <<>>
  /\ phase' = "run"
  /\ UNCHANGED <<line, env, options, readonly, opts, values, cnf, filenames,
                 defaults, todo, module, updates>>

Next ==
  \/ AddOption \/ RemoveOption \/ ReadUserFile
  \/ \E o \in Opts : RegisterGlobal(o)
  \/ PickModule \/ FinalParse
  \/ \E o \in Updates, v \in Values : Update(o, v)
  \/ \E c \in Nested : MakePlugin(c)
  \/ PluginMade

Spec == Init /\ [][Next]_vars
-----------------------------------------------------------------------------
Phases == {"boot", "globals", "plugin", "run", "nested", "exit"}

(* Every variable keeps its type. *)
TypeOK ==
  /\ line \in Lines /\ env \in Envs
  /\ phase \in Phases
  /\ options \subseteq Opts
  /\ readonly \in [Opts -> MaybeValue]
  /\ opts \in [Opts -> MaybeValue] /\ values \in [Opts -> MaybeValue]
  /\ cnf \in [Opts -> MaybeValue] /\ defaults \in [Opts -> MaybeValue]
  /\ filenames \in Seq(Values) /\ filenames # <<>>
  /\ todo \in Seq({"add", "remove"} \X Opts)
  /\ module \in Commands \cup {None}
  /\ updates \in 0..MaxUpdates

OnLine(o) == {i \in DOMAIN line : line[i].opt = o}

(* The configuration file that is read: --conf-file is looked for while no *)
(* other option is known, and so does not count behind one (conf.py:462).  *)
NamedFirst ==
  {i \in OnLine(ConfOpt) : \A j \in 1..(i - 1) : line[j].opt \in {ConfOpt, None}}

UserFile ==
  IF NamedFirst # {} THEN line[Last(NamedFirst)].val
  ELSE IF env[ConfOpt] # None THEN env[ConfOpt]
  ELSE IF Contents[SysFile][ConfOpt] # None THEN Contents[SysFile][ConfOpt]
  ELSE Defaults[ConfOpt]

InFiles(o) ==
  IF Contents[UserFile][o] # None THEN Contents[UserFile][o]
  ELSE Contents[SysFile][o]

(* What the user has asked for. *)
Meant(o) ==
  IF OnLine(o) # {} THEN line[Last(OnLine(o))].val
  ELSE IF env[o] # None THEN env[o]
  ELSE IF InFiles(o) # None THEN InFiles(o)
  ELSE defaults[o]

AllRegistered == \A i \in DOMAIN line : line[i].opt \in options \cup {None}

(* When a plugin runs, every registered option has the value the user      *)
(* meant, or what a plugin has forced, in whatever order the options were  *)
(* registered and removed, and however often the line and the files were   *)
(* read on the way; the user's file goes before the system's.  Only if a   *)
(* plugin has removed an option that was given and has not put it back are *)
(* the others not to be trusted (conf.py:276-277).                         *)
ValuesAsMeant ==
  phase = "run" /\ AllRegistered =>
    \A o \in options :
      Get(o) = IF readonly[o] # None THEN readonly[o] ELSE Meant(o)

(* What was read from the command line is not lost again by the parses     *)
(* that follow, unless an option on the line is removed.                   *)
ReadStaysRead ==
  [][\A o \in Opts : opts[o] # None /\ opts'[o] = None =>
       \E i \in DOMAIN line : line[i].opt \in options \ options']_vars
=============================================================================
