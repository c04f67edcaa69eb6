SPECIFICATION Spec
CONSTANTS
  Keys <- MCKeys
  Groups <- MCGroups
  Levels <- MCLevels
  MaxAttrs = 2
  MaxHandlers = 4
INVARIANTS HandlersAreIndependent LinesAreFaithful
