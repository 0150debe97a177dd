SPECIFICATION Spec
CONSTANTS
  AccountId = {a1, a2}
  TotpId = {b1}
  Thread = {t1}
  Refresher = refresher
  Ops = {"tab", "select", "trash", "restore"}
  Patience = {TRUE}
  MaxStarts = 4
  HastyStarts = 0
  Faults = FALSE
  None = None
SYMMETRY Symmetry
PROPERTIES MoveOnlyTrashes
