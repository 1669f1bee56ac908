\* The program ends.
SPECIFICATION Spec
CONSTANTS
  conf = conf
  loc = loc
  out = out
  dir = dir
  pid = pid
  list = list
  dump = dump
  mods = mods
  tidy = tidy
  zero = zero
  one = one
  two = two
  sys = sys
  usr = usr
  alt = alt
  Opts = {conf, loc, out, dir, pid}
  ConfOpt = conf
  Globals = {loc, out}
  Commands = {list, dump, mods, tidy}
  Nested = {mods, tidy}
  Values = {zero, one, two, sys, usr, alt, list, dump, mods, tidy}
  Falsy = {zero}
  SysFile = sys
  Updates = {pid}
  MaxUpdates = 2
  None = None
  Bad = Bad
  Missing = Missing
  Ops <- MCOps
  Defaults <- MCDefaults
  Contents <- MCContents
  Lines <- MCLines
  Envs <- MCEnvs
INVARIANTS TypeOK ValuesAsMeant
CHECK_DEADLOCK FALSE
