SPECIFICATION Spec
CONSTANTS
  Device = {d1, d2}
  Conn = {c1, c2}
  Req = {r1, r2}
  MaxVersion = 3
SYMMETRY Symmetry
INVARIANTS
  TypeOK
  OneLiveSession
  StaleAreClosing
  DisabledStaysOut
CHECK_DEADLOCK FALSE
