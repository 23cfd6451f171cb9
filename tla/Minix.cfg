SPECIFICATION Spec
CONSTANTS
  Cell = {"global", "stack"}
  StackCell = {"stack"}
  Val = {0, 1}
  Zero = 0
  WRITELOG_MAXLEN = 3
  Site = {"local", "query", "reply"}
  Policy <- MCPolicy
  AnswerSite = "reply"
  Messages <- MCMessages
  Builds <- MCBuilds
  SuicideSites = {"query"}
  MaxCrashes = 1
INVARIANTS
  MinixTypeOK
  RecoveredConsistent
  AnsweredOnce
  InjectedRecoverable
  AbortJustified
PROPERTY
  RequestSettled
CHECK_DEADLOCK FALSE
