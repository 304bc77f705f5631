SPECIFICATION Spec
CONSTANTS
  Deliveries <- MCDeliveries
  SignedBy <- MCSignedBy
  Sound <- MCSound
  MaxCopies = 2
  MaxRuns = 2
INVARIANTS
  TypeOK
  CredentialsCoherent
  InboxAuthentic
  AcceptedIsOnDisk
PROPERTIES
  InboxIsLog
