SPECIFICATION Spec
CHECK_DEADLOCK FALSE
CONSTANTS
  Id = {k1, k2, k3}
  Notes = {0, 2}
  Quotas <- MCQuotas
  Thread = {t1, t2}
  MaxStarts = 6
  NoVault = NoVault
  Damaged = Damaged
  NoId = NoId
SYMMETRY Symmetry
INVARIANTS TypeOK SavedReopens NothingLost
