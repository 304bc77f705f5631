SPECIFICATION Spec
CONSTANTS
  w1 = w1
  w2 = w2
  Workers <- MCWorkers
  Principals = {p}
  Identities = {alice}
  Nonces = {1}
  NoCommand = NoCommand
  Nobody = Nobody
  MayCrash = FALSE
  MaxActs = 4
INVARIANTS
  RevokedResolvesToNothing
