SPECIFICATION Spec
CONSTANTS
  Users = {u1, u2}
  Observers = {o1, o2}
  Main = Main
  MaxTries = 3
  MaxLives = 4
SYMMETRY ThreadSymmetry
CHECK_DEADLOCK FALSE
INVARIANTS
  StaleInterfaceIsNoticed
  OneConnection
