SPECIFICATION Spec
CONSTANTS
  a1 = a1
  a2 = a2
  t1 = t1
  t2 = t2
  AccountId = {a1, a2, a3}
  TotpId = {t1, t2}
  OldAccount <- MCOldAccount
  OldTotp <- MCOldTotp
  Code <- MCCode
  Typed = {"-"}
  Patience = {TRUE, FALSE}
  MaxStarts = 3
  HastyStarts = 2
  Blank = ""
  Nul = "nul"
  Clean <- MCClean
  None = None
INVARIANT TypeOK
PROPERTIES FirstScanFills AccountAsAsked LinkedAsAsked
CHECK_DEADLOCK FALSE
