CONSTANTS
  StreamLimit = 1
SPECIFICATION Spec
INVARIANTS OutcomeEarned
 
CHECK_DEADLOCK FALSE
