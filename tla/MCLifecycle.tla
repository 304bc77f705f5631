---------------------------- MODULE MCLifecycle -----------------------------
(* Lifecycle over the histories one worker of CommitGate makes.             *)
EXTENDS Lifecycle, MCCommitGate

\* A Command that is reviewed, expires or has its consequence, in
\* every order the Gate allows; reviews of it and of another Command, and
\* chains that fit and chains that do not.
LifecycleRequests ==
  {Ask("ReviewRequested", thing, {}, now, NoCut),
   Ask("AuthorizationReviewed", review, {}, now, NoCut),
   Ask("AuthorizationReviewed", foreign, {}, now, NoCut),
   Ask("AuthorizationResolved", thing, {2, 3}, now, NoCut),
   Ask("CommandExpired", thing, {}, now, NoCut),
   Ask("ThingCreated", thing, {4}, now, NoCut)}
=============================================================================
