SPECIFICATION Spec
CONSTANTS
  None = None
  Malformed = Malformed
  Tools <- MCTools
  Sidecar <- MCSidecar
  Real = {"frontend"}
  Rooted = {"musl"}
  StartEnvs <- MCConsumerEnv
  MaxDepth = 2
INVARIANTS
  HiddenNameNeverExposed
CHECK_DEADLOCK FALSE
