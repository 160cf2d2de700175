SPECIFICATION ReviewSpec
CONSTANTS
  Stages = {"plain", "sensitive", "held"}
  Revisions = {"none", "broken", "unscored", "riskier", "reduced"}
  Proofs = {"none", "bound", "unbound", "missing"}
  Gaps = {0, 8, 12, 13, 14}
  MaxChanges = 1
INVARIANTS
  GatesStand
PROPERTIES
  OverrideFinishes
  ConvertsWhatWasShown
CHECK_DEADLOCK FALSE
