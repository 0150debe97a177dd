SPECIFICATION Spec
CONSTANTS
  Writer = {c1, c2}
  kd = kd
  kp = kp
  Key <- MCKey
  ModeOf <- MCModeOf
  Password = {w1, w2}
  Device = {d1, d2}
  Here = d1
  MaxSeq = 1
  MaxText = 2
  NoPassword = NoPassword
  NoSave = NoSave
  NoWriter = NoWriter
SYMMETRY Symmetry
INVARIANTS TypeOK LoadedWasSaved SavedLoads
PROPERTY EndsInItsImage
CHECK_DEADLOCK FALSE
