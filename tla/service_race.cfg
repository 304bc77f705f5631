SPECIFICATION ServiceSpec
CONSTANTS
  w1 = w1
  w2 = w2
  genesis = genesis
  thing = thing
  review = review
  foreign = foreign
  forged = forged
  stranger = stranger
  key = key
  oldKey = oldKey
  ctx = ctx
  strong = strong
  rule = rule
  now = now
  later = later
  NoTarget = NoTarget
  NoKey = NoKey
  Keys <- MCKeys
  SigningKey <- MCSigningKey
  NoAct = NoAct
  NoCut = NoCut
  Commands <- MCCommands
  CommandType <- MCCommandType
  Parents <- MCParents
  ReviewTarget <- MCReviewTarget
  Contexts <- MCContexts
  ContextKeys <- MCContextKeys
  Rules <- ServiceRules
  ActTypes <- MCActTypes
  Claims = {now, later}
  Names <- ServiceNames
  Born <- ServiceBorn
  EntryHashes <- MCEntryHashes
  Identified <- MCIdentified
  GenesisAct <- MCGenesisAct
  Workers <- MCWorkers
  Requests <- RacingRequests
  Calls <- RacingCalls
  NoCall = NoCall
  KeysOf <- MCKeysOf
  KeyFrom <- MCKeyFrom
  KeyUntil <- MCKeyUntil
  root1 = root1
  root2 = root2
  Configured <- BothRules
  RootAuthority = "genesis.root_authority"
  RuleName <- MCRuleName
  RuleVersion <- MCRuleVersion
  Implementation <- MCImplementation
  NoRule = NoRule
  ByRoot <- MCByRoot
  DeclaredCuts <- ServiceCuts
  MaxHistory = 3
SYMMETRY WorkerSymmetry
INVARIANTS
  ServiceTypeOK
  AnswerFitsCall
  OneAnswerPerChange
  ConflictsAreReal
  ErrorsExplained
  SignedWithLiveKey
  EveryRuleAsked
PROPERTIES
  Spec
