CONSTANTS
  Cases <- AllCases
  ExecKeys = {1, 3}
  FileKeys = {2}
  RootKey = 1
  Outcomes = {1, 2}
  Success = 1
  EvidenceSampleLimit = 2
SPECIFICATION ComparisonSpec
INVARIANTS
  TrustIsEarned
  ReferencesComplete
  DifferencesExact
  
CHECK_DEADLOCK FALSE
