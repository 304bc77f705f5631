SPECIFICATION Spec
CONSTANTS
  w1 = w1
  w2 = w2
  Workers <- OneWorker
  Principals = {p}
  Identities = {alice}
  Nonces = {1, 2}
  NoCommand = NoCommand
  Nobody = Nobody
  MayCrash = FALSE
  MaxActs = 4
INVARIANTS
  ProjectionOfActs
