SPECIFICATION Spec
CONSTANTS
  MaxRelease = 2
INVARIANTS
  AutomaticUpdateConverges
