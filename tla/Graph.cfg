SPECIFICATION Spec
CONSTANTS
  Thread = {th1, th2}
  Mention <- MCMention
  Type <- MCType
  Entity <- MCEntity
  Predicate <- MCPredicate
  DomainTypes <- MCDomain
  RangeTypes <- MCRange
  SingleValued <- MCSingleValued
  Given <- MCGiven
  Strict = FALSE
  Canon <- MCCanon
  Near <- MCNear
  Calls <- MCCalls
  Modes = {TRUE, FALSE}
  Limit = 1
  MaxRows = 3
  MaxOverlapped = 2
  MaxTime = 2
SYMMETRY Interchangeable
INVARIANTS
  GraphInv
  OneLiveObject
  HistoryIsFunctional
  ReopensWhenSerial
  ResolutionSurvivesRestart
PROPERTIES
  ImplementsCurrentFacts
CHECK_DEADLOCK FALSE
