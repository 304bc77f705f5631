------------------------- MODULE MCAuthorityService -------------------------
(* Instances of AuthorityService for TLC, on the constants of MCCommitGate. *)
EXTENDS AuthorityService, MCCommitGate

CONSTANTS root1, root2   \* two versions of the root authority Rule

ServiceNames == MCNames \cup {root1, root2, "policy", "genesis.root_authority"}
\* The second version is registered with the second Act.
ServiceBorn ==
  [n \in ServiceNames |-> IF n \in MCNames THEN MCBorn[n] ELSE IF n = root2 THEN 2 ELSE 1]
ServiceRules == {rule, root1, root2}
MCRuleName == [r \in ServiceRules |-> IF r = rule THEN "policy" ELSE "genesis.root_authority"]
MCRuleVersion == [r \in ServiceRules |-> IF r = root2 THEN 2 ELSE 1]
BothRules == {"policy", "genesis.root_authority"}
MCImplementation == [n \in BothRules |-> IF n = "policy" THEN rule ELSE NoRule]
MCByRoot == MCCommands \ {review}

Submit(ask, declared, supplied) ==
  [via |-> "commit", ask |-> ask, declared |-> declared, supplied |-> supplied]

MCKeysOf ==
  [c \in MCCommands |->
     CASE c = foreign -> {oldKey} [] c = stranger -> {} [] OTHER -> {key}]
MCKeyFrom == [k \in MCKeys |-> 1]
MCKeyUntil == [k \in MCKeys |-> IF k = oldKey THEN 2 ELSE 0]

Create == Ask("ThingCreated", thing, {}, now, NoCut)
Decline == Ask("CommandDenied", thing, {}, now, NoCut)

\* A review by its own tool, signed with a key the second Act revokes.
Review ==
  [Submit(Ask("AuthorizationReviewed", foreign, {}, now, NoCut), NoCut, TRUE) EXCEPT !.via = "review"]

\* One change asked for in three ways, one of them as something else, and once
\* more by the hash of its type and at an empty cut; a resolution without the
\* review it needs; a review; and the tool for observations called with none.
RacingCalls ==
  {Submit(Create, NoCut, TRUE),
   Submit([Create EXCEPT !.claimed = later], {1}, FALSE),
   Submit([Create EXCEPT !.context = strong], NoCut, TRUE),
   Submit([Create EXCEPT !.type = "hash of ThingCreated"], {1}, TRUE),
   Submit(Create, {}, FALSE),
   Submit(Ask("AuthorizationResolved", thing, {2}, now, NoCut), NoCut, TRUE),
   Review,
   Submit(Ask("AuthorizationReviewed", review, {}, now, {1}), NoCut, TRUE),
   [Submit(Create, NoCut, TRUE) EXCEPT !.via = "observe"]}

\* The same stage of a lifecycle at the present cut and at a declared one, and a
\* chain that names no Act.
RepeatedCalls ==
  {Submit(Create, {1}, TRUE), Submit(Decline, NoCut, TRUE), Submit(Decline, {1}, TRUE),
   Submit(Ask("ThingCreated", foreign, {3}, now, NoCut), NoCut, TRUE)}

ServiceCuts == PrefixCuts \cup {{}}

\* As the Gate gets them, with the Rules of one cut or another.
WithRules(calls) == {Asks(c, cut) : c \in calls, cut \in ServiceCuts}
RacingRequests == WithRules(RacingCalls)
RepeatedRequests == WithRules(RepeatedCalls)
=============================================================================
