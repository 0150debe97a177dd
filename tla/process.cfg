SPECIFICATION Spec
CONSTANTS
  Process = {p1, p2, p3}
  Launcher = {other, service}
  Trusted = {service}
  Service = service
  other = other
  s1 = s1
  s2 = s2
  Session = {s1, s2}
  SessionOf <- MCSessionOf
  Machine = {"sound", "unprotected", "nameless"}
  MaxStarts <- MCStarts
  MaxSaves <- MCSaves
  None = none
SYMMETRY Symmetry
INVARIANTS OneWindow EndsForCause 
PROPERTIES PrefsKept OtherInstance
CHECK_DEADLOCK FALSE
