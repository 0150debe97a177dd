SPECIFICATION Spec
CONSTANTS
  Vault = {va, vb}
  File = {fa, fb, fc}
  Thread = {t1, t2}
  Name = {n1, n2, n3, n4}
  Value = {s1, s2, empty, nul}
  MaxStarts = 3
  Calmness = {TRUE, FALSE}
  Start <- MCStart
  Given <- MCGiven
  Empty = empty
  Nul = nul
  None = none
  va = va
  vb = vb
  fa = fa
  fb = fb
  fc = fc
  n1 = n1
  n2 = n2
  n3 = n3
  n4 = n4
  s1 = s1
  s2 = s2
INVARIANT BadFileAddsNothing
PROPERTIES ImportMakesNoTwins RoundTrip ReportedIsOnDisk Answered
CHECK_DEADLOCK FALSE
