---------------------------- MODULE MCCommitGate ----------------------------
(* Instances of CommitGate for TLC.                                         *)
EXTENDS CommitGate, TLC

CONSTANTS w1, w2,
          genesis,     \* the Command of the Genesis Act
          thing,       \* an intent
          review,      \* a ReviewAuthorization Command about thing
          foreign,     \* a ReviewAuthorization Command about another Command
          forged,      \* a Command whose signature no key verifies
          stranger,    \* an intent of an Identity the store has no row of
          key,
          oldKey,      \* a key revoked by the second Act
          ctx,
          strong,      \* a Context with a key registered by the second Act only
          rule, now, later

MCWorkers == {w1, w2}
OneWorker == {w1}
\* The Gate treats its workers alike.
WorkerSymmetry == Permutations(MCWorkers)

MCCommands == {genesis, thing, review, foreign, forged, stranger}
MCIdentified == MCCommands \ {stranger}
MCCommandType ==
  [c \in MCCommands |->
     IF c \in {review, foreign} THEN "ReviewAuthorization" ELSE "CreateThing"]
MCParents ==
  [c \in MCCommands |-> IF c = genesis THEN {} ELSE {1}]
MCReviewTarget ==
  [c \in MCCommands |->
     CASE c = review -> thing [] c = foreign -> genesis [] OTHER -> NoTarget]
MCKeys == {key, oldKey}
MCSigningKey ==
  [c \in MCCommands |->
     CASE c = foreign -> oldKey [] c = forged -> NoKey [] OTHER -> key]
MCContexts == {ctx, strong}
MCContextKeys ==
  [x \in MCContexts |->
     IF x = strong THEN {"request.origin", "request.mfa"} ELSE {"request.origin"}]
\* The type ThingCreated, given by the hash of its registry entry.
MCEntryHashes == {"hash of ThingCreated"}
MCActTypes ==
  LifecycleActTypes \cup {"GenesisClosed", "ThingCreated", "ThingRenamed"} \cup MCEntryHashes
MCNames ==
  MCActTypes \cup {"CreateThing", "ReviewAuthorization", "request.origin", "request.mfa", rule}
\* Two names enter the Registry with the second Act; the rest at Genesis.
MCBorn == [n \in MCNames |-> IF n \in {"ThingRenamed", "request.mfa"} THEN 2 ELSE 1]

MCGenesisAct ==
  [type |-> "GenesisClosed", command |-> genesis, context |-> ctx, chain |-> {},
   claimed |-> now, cut |-> {}, registry |-> {}, rules |-> {}]

Ask(type, command, chain, claimed, registry) ==
  [type |-> type, command |-> command, context |-> ctx, chain |-> chain,
   claimed |-> claimed, registry |-> registry, rules |-> {rule}]

\* One intent asked for twice, a third time as another change, by the hash of its
\* type, sent to review, denied and expired, by two workers; a link that names nothing
\* yet; no Rules; an Identity without a row and a signature that no key verifies.
RaceRequests ==
  {Ask("ThingCreated", thing, {}, now, NoCut),
   Ask("ThingCreated", thing, {}, later, {1}),
   Ask("ThingRenamed", thing, {}, now, NoCut),
   Ask("CommandExpired", thing, {}, now, NoCut),
   [Ask("ReviewRequested", thing, {}, now, NoCut) EXCEPT !.context = strong],
   Ask("CommandDenied", thing, {3}, now, NoCut),
   Ask("hash of ThingCreated", thing, {}, now, NoCut),
   Ask("ThingCreated", stranger, {}, now, NoCut),
   [Ask("ThingCreated", thing, {}, now, NoCut) EXCEPT !.rules = {}],
   Ask("ThingCreated", forged, {}, now, NoCut)}

\* Every stage of a review, with chains that fit and chains that do not.
ReviewRequests ==
  {Ask("ReviewRequested", thing, {}, now, NoCut),
   Ask("AuthorizationReviewed", review, {}, now, NoCut),
   Ask("AuthorizationReviewed", foreign, {}, now, NoCut),
   Ask("AuthorizationReviewed", thing, {}, now, NoCut),
   Ask("AuthorizationResolved", thing, {2, 3}, now, NoCut),
   Ask("AuthorizationResolved", thing, {3}, now, NoCut),
   Ask("ThingCreated", thing, {}, now, NoCut),
   Ask("ThingCreated", thing, {4}, now, NoCut),
   Ask("ThingCreated", thing, {5}, now, NoCut),
   Ask("ThingCreated", thing, {4, 5}, now, NoCut)}

PrefixCuts == {1 .. n : n \in 1 .. MaxHistory}
=============================================================================
