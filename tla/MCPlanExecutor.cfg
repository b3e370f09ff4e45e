SPECIFICATION FairSpec
CONSTANTS
  Step <- MCStep
  Root <- MCRoot
  Deps <- MCDeps
  Name <- MCName
  NoName <- MCNoName
  Node <- MCNode
INVARIANTS
  NamesFound
  QueuedCanRun
  HeldExactlyWhileNeeded
  ResultNeverLost
  InputsIntact
  JoinInputsDistinct
PROPERTIES
  ImplementsEvaluation
  Terminates
