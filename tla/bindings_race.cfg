SPECIFICATION Spec
CONSTANTS
  w1 = w1
  w2 = w2
  Workers <- MCWorkers
  Principals = {p}
  Identities = {alice, bob}
  Nonces = {1}
  NoCommand = NoCommand
  Nobody = Nobody
  MayCrash = TRUE
  MaxActs = 4
SYMMETRY WorkerSymmetry
INVARIANTS
  TypeOK
  OneLiveBinding
  RowsHaveEvidence
  UsedByLinked
PROPERTIES
  RevokedRowsStay
