SPECIFICATION Spec
CONSTANTS
  MaxEvents = 3
  MaxAsked = 2
CHECK_DEADLOCK FALSE
INVARIANTS
  ManagerInv
  AnswerIsForItsQuestion
  AdapterFollowsSettings
  PairingsAreCopied
