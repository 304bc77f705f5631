-------------------------- MODULE AuthorityService --------------------------
(***************************************************************************)
(* AuthorityService.evaluate and commit (service/authority.py): what the   *)
(* service reads and decides before it enters the Commit Gate, and what it *)
(* tells its caller afterwards.  Once inside, a worker takes the steps of  *)
(* CommitGate; the whole refines CommitGate!Spec with the environment's    *)
(* Propose played by the service.                                          *)
(*                                                                         *)
(* What a decision depends on and nothing changes (signatures, Identities, *)
(* Rules at a cut) is one step.  Which Rules judge a call is configured by *)
(* name; the result of a Rule is a free choice, but for root authority.    *)
(***************************************************************************)
EXTENDS CommitGate

CONSTANTS
  Calls,     \* what clients submit, and may submit again
  NoCall,
  KeysOf,    \* the keys of each Command's Identity
  KeyFrom,   \* the Act from which a key is valid
  KeyUntil,  \* the Act from which it is so no more; 0 if there is none
  Configured,      \* the names of the Rules that judge every call (POWERFARM_RULES)
  RootAuthority,   \* the name of the one built-in Rule
  RuleName,        \* the name each Rule is registered under, perhaps with others
  RuleVersion,
  Implementation,  \* the Rule whose code is at hand for each name, or NoRule
  NoRule,
  ByRoot           \* the Commands of the root Identity

\* via is the tool that is called; ask the request; declared the history_cut of
\* the call, or NoCut; supplied tells whether it brings its payload.
\* The Rules of the request are not the caller's: see Asks.
Call == [via : {"commit", "review", "observe"}, ask : Request,
         declared : {NoCut} \cup SUBSET Nat, supplied : BOOLEAN]

-----------------------------------------------------------------------------
(* The Rules of a call: ConfiguredRuleResolver.                             *)

\* The entry of a name at a Registry cut: its latest version there.
Entry(name, cut) ==
  {r \in Rules :
     /\ RuleName[r] = name /\ Registered(r, cut)
     /\ \A q \in Rules :
          RuleName[q] = name /\ Registered(q, cut) => RuleVersion[q] <= RuleVersion[r]}

\* There is code for exactly the version that is registered at the cut.
Executable(name, cut) ==
  IF Implementation[name] = NoRule
    THEN name = RootAuthority /\ Entry(name, cut) # {}
    ELSE Entry(name, cut) = {Implementation[name]}

Resolved(cut) == UNION {Entry(name, cut) : name \in Configured}

\* registry_cut, by default the cut of the Decision.
RegistryOf(c, cut) == IF c.ask.registry = NoCut THEN cut ELSE c.ask.registry

\* The request of call c as the Gate gets it: judged by the Rules of its cut.
Asks(c, cut) == [c.ask EXCEPT !.rules = Resolved(RegistryOf(c, cut))]

ASSUME ServiceAssumption ==
  /\ Calls \subseteq Call
  /\ NoCall \notin Call
  /\ \A c \in Calls : c.declared \in {NoCut} \cup DeclaredCuts
  /\ \A c \in Calls, cut \in DeclaredCuts : Asks(c, cut) \in Requests
  /\ MaxHistory # 0 /\ \A n \in 1 .. MaxHistory : 1 .. n \in DeclaredCuts
  /\ KeysOf \in [Commands -> SUBSET Keys]
  /\ \A c \in Commands : KeysOf[c] # {} => c \in Identified
  /\ KeyFrom \in [Keys -> Nat] /\ KeyUntil \in [Keys -> Nat]

ASSUME RulesAssumption ==
  /\ RuleName \in [Rules -> Names] /\ RuleVersion \in [Rules -> Nat]
  /\ NoRule \notin Rules
  /\ Implementation \in [Configured -> Rules \cup {NoRule}]
  /\ ByRoot \subseteq Commands

\* What Rule r may say of Command c.
Opinions(r, c) ==
  IF Implementation[RuleName[r]] # NoRule THEN Outcomes
  ELSE IF c \in ByRoot THEN {"allow"} ELSE {"deny"}

\* Mutant: one Rule that allows is enough.
AuthorizeAny(results) ==
  IF "allow" \in results THEN "allow"
  ELSE IF "require_review" \in results THEN "require_review" ELSE "deny"

\* authorize: a denial prevails, then a demand for review.
Authorize(results) ==
  IF "deny" \in results THEN "deny"
  ELSE IF "require_review" \in results THEN "require_review" ELSE "allow"
-----------------------------------------------------------------------------

VARIABLES
  phase,     \* where each worker is in AuthorityService.commit
  call,      \* the call it serves
  base,      \* the cut of the Decision it holds
  verdict,   \* the outcome of that Decision
  reply      \* what it answers: [kind, place], place 0 unless an Act is returned

serviceVars == <<phase, call, base, verdict, reply>>
allVars == <<vars, serviceVars>>

Phases == {"ready", "called", "reading", "evaluated", "unsettled", "compared",
           "stored", "gate", "replied"}
Replies == {"none", "act", "replay", "settled", "invalid", "denied", "conflict", "error"}
Reply(kind, place) == [kind |-> kind, place |-> place]
NoReply == Reply("none", 0)

In(w, p) == phase[w] = p
GoOn(w, p) == phase' = [phase EXCEPT ![w] = p]
Answer(w, kind, place) ==
  /\ GoOn(w, "replied")
  /\ reply' = [reply EXCEPT ![w] = Reply(kind, place)]

ServiceInit ==
  /\ Init
  /\ phase = [w \in Workers |-> "ready"]
  /\ call = [w \in Workers |-> NoCall]
  /\ base = [w \in Workers |-> {}]
  /\ verdict = [w \in Workers |-> "deny"]
  /\ reply = [w \in Workers |-> NoReply]
-----------------------------------------------------------------------------
(* evaluate                                                                 *)

\* ReviewService.submit: a review comes with the Command it reviews.
IsReview(c) ==
  /\ CommandType[c.ask.command] = ReviewCommandType
  /\ c.ask.type = "AuthorizationReviewed"
  /\ c.supplied /\ ReviewTarget[c.ask.command] # NoTarget

\* ObservationService.admit: an observation comes with its evidence.
IsObservation(c) ==
  /\ CommandType[c.ask.command] = "AdmitObservation"
  /\ c.ask.type = "ObservationAdmitted"
  /\ c.supplied

Accept(w) ==
  \E c \in Calls :
    /\ In(w, "ready")
    /\ call' = [call EXCEPT ![w] = c]
    /\ IF (c.via = "review" => IsReview(c)) /\ (c.via = "observe" => IsObservation(c))
         THEN GoOn(w, "called") /\ UNCHANGED reply
         ELSE Answer(w, "invalid", 0)
    /\ UNCHANGED <<vars, base, verdict>>

\* history_cut: read whether or not the call declares one.
ReadHistory(w) ==
  /\ In(w, "called")
  /\ base' = [base EXCEPT ![w] =
       IF call[w].declared = NoCut THEN Places(history) ELSE call[w].declared]
  /\ GoOn(w, "reading")
  /\ UNCHANGED <<vars, call, verdict, reply>>

RegistryCut(w) == RegistryOf(call[w], base[w])
Asked(w) == Asks(call[w], base[w])

\* Mutant: a key once valid stays so.
KeysEver(c, cut) == {k \in KeysOf[c] : KeyFrom[k] \in cut}

\* identity_keys_at_cut.
KeysAtCut(c, cut) == {k \in KeysOf[c] : KeyFrom[k] \in cut /\ KeyUntil[k] \notin cut}

\* get_identity wants exactly one valid key, and the signature verifies with it.
Signed(c, cut) == \E k \in Keys : KeysAtCut(c, cut) = {k} /\ SigningKey[c] = k

\* Mutant: the vocabulary is left for the Gate to check.
WellFoundedButVocabulary(w) ==
  /\ ClosedCut(history, base[w])
  /\ ClosedCut(history, RegistryCut(w)) /\ RegistryCut(w) \subseteq base[w]
  /\ Signed(call[w].ask.command, base[w])
  /\ call[w].supplied \/ Object("payload", call[w].ask.command) \in cas
  /\ \A name \in Configured : Executable(name, RegistryCut(w))

\* Both cuts closed, the signer known and its signature good, the payload at
\* hand, the vocabulary registered and every configured Rule executable.
WellFounded(w) ==
  LET r == call[w].ask
  IN  /\ ClosedCut(history, base[w])
      /\ ClosedCut(history, RegistryCut(w)) /\ RegistryCut(w) \subseteq base[w]
      /\ Signed(r.command, base[w])
      /\ call[w].supplied \/ Object("payload", r.command) \in cas
      /\ \A name \in {CommandType[r.command], r.type} \cup ContextKeys[r.context] :
           Registered(name, RegistryCut(w))
      /\ Configured # {}
      /\ \A name \in Configured : Executable(name, RegistryCut(w))

\* Every resolved Rule is asked.
Evaluate(w) ==
  /\ In(w, "reading")
  /\ WellFounded(w)
  /\ \E result \in [Resolved(RegistryCut(w)) -> Outcomes] :
       LET decided == Authorize({result[r] : r \in DOMAIN result})
       IN  /\ \A r \in DOMAIN result : result[r] \in Opinions(r, call[w].ask.command)
           /\ verdict' = [verdict EXCEPT ![w] = decided]
           /\ IF decided \in PermittedOutcomes(call[w].ask.type)
                THEN GoOn(w, "evaluated") /\ UNCHANGED reply
                ELSE Answer(w, "denied", 0)
  /\ UNCHANGED <<vars, call, base>>

RefuseCall(w) ==
  /\ In(w, "reading")
  /\ ~WellFounded(w)
  /\ Answer(w, "invalid", 0)
  /\ UNCHANGED <<vars, call, base, verdict>>
-----------------------------------------------------------------------------
(* commit                                                                   *)

\* The consequential Acts _settled_consequence finds.
Settled(w) ==
  IF call[w].ask.type \in LifecycleActTypes THEN {}
  ELSE {i \in ActsFor(history, call[w].ask.command) : IsConsequence(history[i])}

\* The Command fixes Identity, parents and payload.
SameInputs(i, r) == history[i].type = r.type /\ history[i].context = r.context

\* Mutant: what the Command bought is returned whatever this call asks for.
ReplayAnySettled(w) ==
  /\ In(w, "evaluated")
  /\ \E i \in Settled(w) : Answer(w, "settled", i)
  /\ UNCHANGED <<vars, call, base, verdict>>

\* A Command that has bought its change is answered with the Act it bought.
ReplaySettled(w) ==
  /\ In(w, "evaluated")
  /\ \E i \in Settled(w) :
       IF SameInputs(i, call[w].ask) THEN Answer(w, "settled", i)
                                     ELSE Answer(w, "conflict", i)
  /\ UNCHANGED <<vars, call, base, verdict>>

FindUnsettled(w) ==
  /\ In(w, "evaluated")
  /\ Settled(w) = {}
  /\ GoOn(w, "unsettled")
  /\ UNCHANGED <<vars, call, base, verdict, reply>>

\* Mutant: the cut the call declares is compared, not the one it was decided at.
CompareDeclared(w) ==
  /\ In(w, "unsettled")
  /\ IF call[w].declared = Places(history) THEN GoOn(w, "compared") /\ UNCHANGED reply
                                           ELSE Answer(w, "conflict", 0)
  /\ UNCHANGED <<vars, call, base, verdict>>

CompareCut(w) ==
  /\ In(w, "unsettled")
  /\ IF base[w] = Places(history) THEN GoOn(w, "compared") /\ UNCHANGED reply
                                  ELSE Answer(w, "conflict", 0)
  /\ UNCHANGED <<vars, call, base, verdict>>

PutPayload(w) ==
  /\ In(w, "compared")
  /\ cas' = IF call[w].supplied THEN cas \cup {Object("payload", call[w].ask.command)} ELSE cas
  /\ GoOn(w, "stored")
  /\ UNCHANGED <<history, stage, proposal, outcome, linked, answer, call, base, verdict, reply>>

\* Mutant: the Gate is entered past the checks the service has restated.
EnterGateLate(w) ==
  /\ In(w, "stored")
  /\ proposal' = [proposal EXCEPT ![w] = ActOf(Asked(w), base[w])]
  /\ outcome' = [outcome EXCEPT ![w] = verdict[w]]
  /\ Goto(w, "consequence")
  /\ GoOn(w, "gate")
  /\ UNCHANGED <<history, cas, linked, answer, call, base, verdict, reply>>

EnterGate(w) ==
  /\ In(w, "stored")
  /\ proposal' = [proposal EXCEPT ![w] = ActOf(Asked(w), base[w])]
  /\ outcome' = [outcome EXCEPT ![w] = verdict[w]]
  /\ Goto(w, "lookup")
  /\ GoOn(w, "gate")
  /\ UNCHANGED <<history, cas, linked, answer, call, base, verdict, reply>>

\* A worker inside the Gate.
GateStep(w) ==
  /\ In(w, "gate")
  /\ \/ FindOccurrence(w) \/ CheckOutcome(w) \/ CheckConsequence(w) \/ ReadChain(w)
     \/ CheckProof(w) \/ CheckCut(w) \/ CheckReferences(w)
     \/ PutCommand(w) \/ PutContext(w) \/ CommitAct(w)
  /\ UNCHANGED serviceVars

\* An Act of the cut the call compared is a replay.
ReturnAct(w) ==
  /\ In(w, "gate")
  /\ Answer(w, IF answer[w] \in base[w] THEN "replay" ELSE "act", answer[w])
  /\ Return(w)
  /\ UNCHANGED <<call, base, verdict>>

RaiseError(w) ==
  /\ In(w, "gate")
  /\ Refuse(w)
  /\ Answer(w, "error", 0)
  /\ UNCHANGED <<call, base, verdict>>

Forget(w) ==
  /\ GoOn(w, "ready")
  /\ call' = [call EXCEPT ![w] = NoCall]
  /\ base' = [base EXCEPT ![w] = {}]
  /\ verdict' = [verdict EXCEPT ![w] = "deny"]
  /\ reply' = [reply EXCEPT ![w] = NoReply]

Deliver(w) == In(w, "replied") /\ Forget(w) /\ UNCHANGED vars

\* Mutant: the service forgets the call, the Gate does not.
DieOutside(w) ==
  /\ phase[w] \notin {"ready", "replied"}
  /\ UNCHANGED vars
  /\ Forget(w)

\* The process dies: the caller is left without an answer.
Die(w) ==
  /\ phase[w] \notin {"ready", "replied"}
  /\ IF In(w, "gate") THEN Leave(w) ELSE UNCHANGED vars
  /\ Forget(w)

ServiceNext ==
  \E w \in Workers :
    \/ Accept(w) \/ ReadHistory(w) \/ Evaluate(w) \/ RefuseCall(w)
    \/ ReplaySettled(w) \/ FindUnsettled(w) \/ CompareCut(w) \/ PutPayload(w)
    \/ EnterGate(w) \/ GateStep(w) \/ ReturnAct(w) \/ RaiseError(w)
    \/ Deliver(w) \/ Die(w)

ServiceSpec == ServiceInit /\ [][ServiceNext]_allVars
-----------------------------------------------------------------------------
(* Properties.  That the Gate below is driven as CommitGate allows is the   *)
(* property Spec of that module.                                            *)

ServiceTypeOK ==
  /\ phase \in [Workers -> Phases]
  /\ call \in [Workers -> Calls \cup {NoCall}]
  /\ base \in [Workers -> SUBSET Nat]
  /\ verdict \in [Workers -> Outcomes]
  /\ reply \in [Workers -> [kind : Replies, place : Nat]]
  /\ \A w \in Workers : In(w, "gate") <=> ~At(w, "idle")

Answered(w) == reply[w].kind \in {"act", "replay", "settled"}

\* An Act returned as the answer to a call is an Act of that Command, of the
\* type and in the Context it asked for; if it is not the settled one, it is
\* exactly the Act that was authorized.
AnswerFitsCall ==
  \A w \in Workers : Answered(w) =>
    LET a == history[reply[w].place]
    IN  /\ reply[w].place \in Places(history)
        /\ a.command = call[w].ask.command
        /\ SameInputs(reply[w].place, call[w].ask)
        /\ reply[w].kind # "settled" => a = ActOf(Asked(w), base[w])

\* However often one change is asked for, by callers that raced or that retried
\* what they had no answer to, all are answered with the same Act.
OneAnswerPerChange ==
  \A v, w \in Workers :
    /\ Answered(v) /\ Answered(w)
    /\ call[v].ask.command = call[w].ask.command
    /\ {call[v].ask.type, call[w].ask.type} \cap LifecycleActTypes = {}
    => reply[v].place = reply[w].place

\* A caller told of a conflict has one: history is no longer the one its call
\* was decided on, or its Command bought something else.
ConflictsAreReal ==
  \A w \in Workers : reply[w].kind = "conflict" =>
    \/ reply[w].place = 0 /\ base[w] # Places(history)
    \/ /\ reply[w].place \in Settled(w)
       /\ ~SameInputs(reply[w].place, call[w].ask)

\* The service restates the Gate's law: what it lets through is refused further
\* down only if history moved, for the references and the authorization chain,
\* which the service does not look at, or for a type given by the hash of its
\* entry, which the service and the Gate find in the Registry and the RPC does
\* not.
ErrorsExplained ==
  \A w \in Workers : reply[w].kind = "error" =>
    LET r == call[w].ask
    IN  \/ base[w] # Places(history)
        \/ ~(Parents[r.command] \cup r.chain \subseteq Places(history))
        \/ ~ProofFits(history, r.chain, ActOf(r, base[w]))
        \/ {CommandType[r.command], r.type} \cap EntryHashes # {}

\* An Act that got into history through the service bears the signature of the
\* one key its Identity had at that point: born before it, not revoked yet,
\* whatever cut the call declared and however history moved meanwhile.
SignedWithLiveKey ==
  \A i \in 2 .. Len(history) :
    LET k == SigningKey[history[i].command]
    IN  /\ k \in KeysOf[history[i].command]
        /\ KeyFrom[k] < i
        /\ KeyUntil[k] \notin 1 .. (i - 1)

\* No Act gets into history past a configured Rule, whichever Registry cut its
\* call declared: every Rule was resolved and asked, and where root authority is
\* one of them nothing that takes an allow is done by anybody else.
EveryRuleAsked ==
  \A i \in 2 .. Len(history) :
    LET a == history[i]
    IN  /\ \A name \in Configured : \E r \in a.rules : RuleName[r] = name
        /\ RootAuthority \in Configured /\ Implementation[RootAuthority] = NoRule
             /\ PermittedOutcomes(a.type) = {"allow"}
           => a.command \in ByRoot

\* "Re-submitting identical content is idempotent": a call whose very Act is in
\* history is not turned away.
ResubmissionIdempotent ==
  \A w \in Workers : reply[w].kind \in {"conflict", "error"} =>
    \A i \in Places(history) : history[i] # ActOf(Asked(w), base[w])
=============================================================================
