SPECIFICATION Spec
CONSTANTS
  lib = lib
  bin = bin
  include = include
  Paths = {lib, bin, include}
  Configs <- MCConfigs
  MaxRuns = 3
  Absent = Absent
INVARIANTS
  TypeOK
  WorkLeftEmpty
PROPERTIES
  FinishedIsFinal
  ImplementsDelivery
CHECK_DEADLOCK FALSE
