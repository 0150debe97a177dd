SPECIFICATION FairSpec
CONSTANTS
  AccountId = {a1}
  TotpId = {b1, b2}
  Thread = {t1, t2}
  Refresher = refresher
  Ops = {"tab", "select", "trash", "restore", "remove", "account", "totp", "smart", "link", "unlink", "import", "page"}
  Patience = {TRUE, FALSE}
  MaxStarts = 6
  HastyStarts = 2
  Faults = TRUE
  None = None
INVARIANTS LinkTargetsExist PickerShowsTotps PanelTruthful
PROPERTIES ListSettles
