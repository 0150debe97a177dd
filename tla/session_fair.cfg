SPECIFICATION FairSpec
CONSTANTS
  Path = {p1}
  Id = {k1}
  Password = {w1, w2}
  Thread = {t1, t2}
  Saver = saver
  Ops = {"unlock", "create", "passwd", "mirror", "unmirror", "sync", "edit", "totp", "icon", "generator", "lock", "select", "close"}
  MaxStarts = 3
  Faults = FALSE
  NoPath = NoPath
  NoId = NoId
  NoPassword = NoPassword
  NoVault = NoVault
  Absent = Absent
  Damaged = Damaged
PROPERTIES JobsFinish LockReleasesFile
