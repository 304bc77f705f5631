SPECIFICATION Spec
CONSTANTS
  MaxRelease = 2
INVARIANTS
  TypeOK
  AlwaysRunnable
  StagedVerified
  MigrationsInOrder
  ReceiptEarned
  UninstallComplete
PROPERTIES
  LockGivenBack
  WorkerComesBack
