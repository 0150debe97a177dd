SPECIFICATION CrashingSpec
CONSTANTS
  Path = {p1, p2}
  Id = {k1, k2}
  Password = {w1, w2}
  Thread = {t1}
  Saver = saver
  Ops = {"unlock", "create", "managed", "passwd", "mirror", "unmirror", "sync", "edit", "totp", "icon", "generator", "lock", "select", "delete", "close", "crash"}
  MaxStarts = 4
  Faults = FALSE
  NoPath = NoPath
  NoId = NoId
  NoPassword = NoPassword
  NoVault = NoVault
  Absent = Absent
  Damaged = Damaged
SYMMETRY Symmetry
INVARIANTS SessionCoherent
PROPERTIES StoreRefined UpdatesSurvive
