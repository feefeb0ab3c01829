SPECIFICATION Spec
CONSTANTS
  None = None
  Malformed = Malformed
  Tools <- MCTools
  Sidecar <- MCSidecar
  Real = {"frontend"}
  Rooted = {"musl"}
  StartEnvs <- MCStartEnvs
  MaxDepth = 3
INVARIANTS
  TypeOK
  SidecarOverridesRuntime
  RuntimeNeverMixed
  ControlsConsumedOnce
  InheritedRuntimeSurvivesChdir
CHECK_DEADLOCK FALSE
