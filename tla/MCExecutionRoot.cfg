SPECIFICATION Spec
CONSTANTS
  Root <- MCRoot
  Origin <- MCOrigin
  Dirs <- MCDirs
  Launchers <- MCLaunchers
  Arguments <- MCArguments
  Executables <- MCExecutables
  Pins = {p1}
  MaxSteps = 4
  None = None
INVARIANTS
  TypeOK
  ToolsStayReachable
  ArgumentsStayDeclared
CHECK_DEADLOCK FALSE
