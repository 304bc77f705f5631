SPECIFICATION MemorySpec
CONSTANTS
  w1 = w1
  w2 = w2
  genesis = genesis
  thing = thing
  review = review
  foreign = foreign
  forged = forged
  stranger = stranger
  key = key
  oldKey = oldKey
  ctx = ctx
  strong = strong
  rule = rule
  now = now
  later = later
  NoTarget = NoTarget
  NoKey = NoKey
  Keys <- MCKeys
  SigningKey <- MCSigningKey
  NoAct = NoAct
  NoCut = NoCut
  Commands <- MCCommands
  CommandType <- MCCommandType
  Parents <- MCParents
  ReviewTarget <- MCReviewTarget
  Contexts <- MCContexts
  ContextKeys <- MCContextKeys
  Rules = {rule}
  ActTypes <- MCActTypes
  Claims = {now, later}
  Names <- MCNames
  Born <- MCBorn
  EntryHashes <- MCEntryHashes
  Identified <- MCIdentified
  GenesisAct <- MCGenesisAct
  Workers <- MCWorkers
  Requests <- MemoryRequests
  DeclaredCuts <- MemoryCuts
  MaxHistory = 4
SYMMETRY WorkerSymmetry
PROPERTIES
  GateStandsAlone
