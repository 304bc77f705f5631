--------------------------- MODULE MCMemoryLedger ---------------------------
(* Instances of MemoryLedger for TLC.                                       *)
EXTENDS MemoryLedger, MCCommitGate

\* A review in full and cut short; an Act with a link and one with a Registry cut
\* that name nothing, one by the hash of its type and one of no known Identity.
MemoryRequests ==
  {Ask("ReviewRequested", thing, {}, now, NoCut),
   Ask("AuthorizationReviewed", review, {}, now, NoCut),
   Ask("AuthorizationResolved", thing, {2, 3}, now, NoCut),
   Ask("ThingCreated", thing, {}, now, NoCut),
   Ask("ThingRenamed", thing, {9}, now, NoCut),
   Ask("CommandDenied", thing, {}, now, {1, 9}),
   Ask("hash of ThingCreated", thing, {}, now, NoCut),
   Ask("ThingCreated", stranger, {}, now, NoCut)}

\* Cuts that were, and one that foretells an Act.
MemoryCuts == PrefixCuts \cup {{1, 3}}
=============================================================================
