SPECIFICATION FairSpec
CONSTANTS
  p1 = p1
  p2 = p2
  conf = conf
  sys = sys
  vm = vm
  rel = rel
  etc = etc
  Launchers = {p1, p2}
  ModuleConf = conf
  StateFiles = {sys, vm}
  ReleaseFiles = {rel}
  Elsewhere = {etc}
  Configs <- MCConfigs
  MaxBoots = 2
  Absent = Absent
  Partial = Partial
INVARIANTS
  TypeOK
  LaunchInv
  SettledComplete
  GeneratedSourceNeverBoots
PROPERTIES
  CompleteAtExec
  OnlyRootWritten
  LaunchSettles
CHECK_DEADLOCK FALSE
