SPECIFICATION Spec
CONSTANTS
  Path = {p1, p2}
  Id = {k1, k2}
  Password = {w1, w2}
  Thread = {t1, t2}
  Saver = saver
  Ops = {"unlock", "create", "managed", "passwd", "mirror", "unmirror", "sync", "edit", "totp", "icon", "generator", "lock", "select", "delete", "close", "crash"}
  MaxStarts = 3
  Faults = TRUE
  NoPath = NoPath
  NoId = NoId
  NoPassword = NoPassword
  NoVault = NoVault
  Absent = Absent
  Damaged = Damaged
SYMMETRY Symmetry
INVARIANTS TypeOK HandleExclusive HeldFileExists SessionKeyed
PROPERTY HandleProtectsFile
