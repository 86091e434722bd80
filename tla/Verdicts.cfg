SPECIFICATION Spec
CONSTANTS
  Apps = {"app"}
INVARIANTS
  OneOfTwoWins
PROPERTY
  SilencingNeverAdmits
CHECK_DEADLOCK FALSE
