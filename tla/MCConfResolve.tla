--------------------------- MODULE MCConfResolve ---------------------------
(* Command lines of two to four tokens, right and wrong ones, for two      *)
(* plugins, and two more that a running plugin may make: one takes an      *)
(* option away (as moddump does), the other puts it back.                  *)
EXTENDS ConfResolve

CONSTANTS conf, loc, out, dir, pid, list, dump, mods, tidy,
          zero, one, two, sys, usr, alt

MCOps == [c \in {list, dump, mods, tidy} |->
  CASE c = list -> << <<"add", pid>> >>
    [] c = dump -> << <<"add", pid>>, <<"add", dir>>, <<"remove", out>>, <<"add", out>> >>
    [] c = mods -> << <<"add", dir>>, <<"remove", pid>> >>
    [] c = tidy -> << <<"remove", pid>>, <<"add", pid>> >>]
MCDefaults == [o \in Opts |-> CASE o = conf -> usr [] o = out -> one [] OTHER -> None]
MCContents == [f \in Values |-> [o \in Opts |->
  CASE f = sys /\ o \in {loc, out} -> two
    [] f = usr /\ o \in {loc, pid} -> zero
    [] f = alt /\ o = pid -> two
    [] OTHER -> None]]
MCEnvs == {[o \in Opts |-> None], [o \in Opts |-> IF o = pid THEN one ELSE None]}

Tok(o, v) == [opt |-> o, val |-> v]
Good == {Tok(None, list), Tok(None, dump), Tok(conf, alt), Tok(loc, one),
         Tok(loc, zero), Tok(pid, two), Tok(dir, one)}
MCTokens == Good \cup {Tok(None, one), Tok(pid, Bad), Tok(dir, list)}
MCLines ==
  {<<a, b>> : a \in MCTokens, b \in MCTokens \cup {Tok(loc, Missing)}}
  \cup {<<a, b, c>> : a \in MCTokens, b \in Good, c \in Good \cup {Tok(dir, Missing)}}
  \cup {<<Tok(loc, v), Tok(o, one), Tok(loc, w), Tok(None, c)>> :
          o \in {pid, dir}, v \in {zero, one}, w \in {zero, one}, c \in {list, dump}}
=============================================================================
