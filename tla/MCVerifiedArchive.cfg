SPECIFICATION Spec
CONSTANTS
  Nodes <- MCNodes
  Root <- MCRoot
  Trees <- MCTrees
  Retains <- MCRetains
  Removes <- MCRemoves
  MaxLevels = 4
  Outside = Outside
  Missing = Missing
  None = None
INVARIANTS
  TypeOK
  AcceptedIsContained
  RetainedIsWhole
  NothingElseSurvives
  RefusedForCause
CHECK_DEADLOCK FALSE
