CONSTANTS
  MaxDamage = 1
SPECIFICATION Spec
INVARIANTS MarkerBindsFinal VerifiedIsFinal  OutcomeTruthful
