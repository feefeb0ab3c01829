SPECIFICATION Spec
CONSTANTS
  Nodes <- MCNodes
  Root <- MCRoot
  Trees <- MCTrees
  Retains <- MCRetains
  Removes <- MCRemoves
  MaxLevels = 2
  Outside = Outside
  Missing = Missing
  None = None
INVARIANTS
  RejectedNestingExceeds
CHECK_DEADLOCK FALSE
