-------------------------------- MODULE Acts --------------------------------
(***************************************************************************)
(* The vocabulary of a Powerfarm history: Commands, Acts, the outcomes     *)
(* that may produce them, and the proof an Act's authorization chain owes  *)
(* (kernel/types.py, kernel/commit.py).                                    *)
(*                                                                         *)
(* A content hash is modelled by what it names.  An Act is named by its    *)
(* place in the commit order, a natural number: history only grows, so a   *)
(* place names one Act for ever, and a number beyond the present history   *)
(* names an Act that is not there (an unknown hash, or one computed before *)
(* the Act was committed).  A Command, a Context and a payload are model   *)
(* values; everything the Command's preimage fixes is a constant function  *)
(* of the Command.                                                         *)
(***************************************************************************)
EXTENDS Integers, Sequences

CONSTANTS
  Commands,        \* signed intents, by command hash
  CommandType,     \* the registered type each Command declares
  Parents,         \* the Acts each Command declares as causal parents
  ReviewTarget,    \* reviewed_command_hash of the Command's payload, or NoTarget
  NoTarget,
  Keys,
  SigningKey,      \* the key each Command's signature verifies with, or NoKey
  NoKey,
  Contexts,        \* Context objects, by hash
  ContextKeys,     \* the registered keys each Context uses
  Rules,           \* rule hashes
  ActTypes,
  Claims,          \* values of claimed_when
  Names,           \* every word a registry entry answers to: its name or its hash
  EntryHashes,     \* the words among them that are the hash of an entry only
  Born,            \* the Act at which the entry of each word was born
  Identified       \* the Commands whose Identity has a row in public.identities

ReviewCommandType == "ReviewAuthorization"

LifecycleActTypes ==
  {"CommandSubmitted", "CommandValidated", "CommandRejected",
   "AuthorizationRequested", "CommandDenied", "ReviewRequested",
   "AuthorizationReviewed", "AuthorizationResolved",
   "CommandSuperseded", "CommandExpired"}

Outcomes == {"allow", "deny", "require_review"}

\* The outcomes that are evidence for an Act type; allow for all but three.
PermittedOutcomes(type) ==
  CASE type = "ReviewRequested"       -> {"require_review"}
    [] type = "CommandDenied"         -> {"deny"}
    [] type = "AuthorizationResolved" -> {"allow", "deny"}
    [] OTHER                          -> {"allow"}

\* What an Act's hash commits to.  Identity, payload and parents are those of
\* its Command; the outcome of the Decision is not part of an Act.
Act == [type     : ActTypes,
        command  : Commands,
        context  : Contexts,
        chain    : SUBSET Nat,
        claimed  : Claims,
        cut      : SUBSET Nat,
        registry : SUBSET Nat,
        rules    : SUBSET Rules]

ASSUME ActsAssumption ==
  /\ CommandType \in [Commands -> Names]
  /\ Parents \in [Commands -> SUBSET Nat]
  /\ ReviewTarget \in [Commands -> Commands \cup {NoTarget}]
  /\ NoTarget \notin Commands
  /\ SigningKey \in [Commands -> Keys \cup {NoKey}]
  /\ NoKey \notin Keys
  /\ ContextKeys \in [Contexts -> SUBSET Names]
  /\ EntryHashes \subseteq Names
  /\ Born \in [Names -> Nat]
  /\ Identified \subseteq Commands
  /\ Rules \cup ActTypes \subseteq Names

\* The Acts present in history h: history_cut().
Places(h) == 1 .. Len(h)

IsConsequence(a) == a.type \notin LifecycleActTypes

\* get_acts_for_command, as places.
ActsFor(h, c) == {i \in Places(h) : h[i].command = c}

HasConsequence(h, c) == \E i \in ActsFor(h, c) : IsConsequence(h[i])

UnderReview(h, c) == \E i \in ActsFor(h, c) : h[i].type = "ReviewRequested"

\* registered: the word is the name or the hash of an entry born within the cut.
Registered(word, cut) == Born[word] \in cut

\* What every Act has to name.
ActVocabulary(a) == {CommandType[a.command], a.type} \cup a.rules

\* The RPC finds Rules by their hash, but types by their name only.
TypesNamed(a) == {CommandType[a.command], a.type} \cap EntryHashes = {}

\* The RPC looks no further than what every Act has to name.  An entry is a row
\* only once the Act it is born at is there, so unknown Acts of a cut add none.
ActVocabularyRegistered(h, a) ==
  \A word \in ActVocabulary(a) : Registered(word, a.registry \cap Places(h))

\* Everything the Act is made of was born within its declared Registry cut.
VocabularyRegistered(h, a) ==
  \A word \in ActVocabulary(a) \cup ContextKeys[a.context] :
    Registered(word, a.registry \cap Places(h))

\* A cut the service accepts: known Acts, closed under declared parents.
ClosedCut(h, cut) ==
  /\ cut \subseteq Places(h)
  /\ \A i \in cut : Parents[h[i].command] \subseteq cut

-----------------------------------------------------------------------------
(* _require_structural_proof over the links of the chain that resolve.      *)

ReviewFits(a) ==
  /\ CommandType[a.command] = ReviewCommandType
  /\ ReviewTarget[a.command] # NoTarget

\* Mutant: any review will do, whatever Command it reviews.
ResolutionFitsAnyReview(h, linked, a) ==
  /\ \E i \in linked : h[i].type = "ReviewRequested" /\ h[i].command = a.command
  /\ \E i \in linked : h[i].type = "AuthorizationReviewed"

ResolutionFits(h, linked, a) ==
  LET reviews == {i \in linked : h[i].type = "AuthorizationReviewed"}
  IN  /\ \E i \in linked : h[i].type = "ReviewRequested" /\ h[i].command = a.command
      /\ reviews # {}
      /\ \A i \in reviews : ReviewTarget[h[i].command] = a.command

ResolutionLinked(h, linked, c) ==
  \E i \in linked : h[i].type = "AuthorizationResolved" /\ h[i].command = c

ProofFits(h, linked, a) ==
  CASE a.type = "AuthorizationReviewed" -> ReviewFits(a)
    [] a.type = "AuthorizationResolved" -> ResolutionFits(h, linked, a)
    [] IsConsequence(a) ->
         UnderReview(h, a.command) => ResolutionLinked(h, linked, a.command)
    [] OTHER -> TRUE
=============================================================================
