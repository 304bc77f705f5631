----------------------------- MODULE CommitGate -----------------------------
(***************************************************************************)
(* CommitGate.commit (kernel/commit.py) over the Postgres ledger, and the  *)
(* RPC powerfarm_internal.commit_act that ends it.                         *)
(*                                                                         *)
(* Every Ledger call is a transaction of its own, so other workers commit  *)
(* between any two of them; each read of the Gate is a step, and what was  *)
(* read is kept by the worker.  The RPC holds one advisory lock from its   *)
(* first statement to its end, so it is a single step.  A worker may die   *)
(* between any two steps; what the store holds stays.                      *)
(***************************************************************************)
EXTENDS History

CONSTANTS
  Workers,       \* processes that run the Gate at the same time
  Requests,      \* what clients ask for, see Request
  DeclaredCuts,  \* the cuts clients declare
  NoCut,         \* the registry_cut of a request that has none
  NoAct,
  MaxHistory     \* bound: commits stop at this many Acts

\* A caller's input: an Act still without the cut it will be decided at.
\* registry = NoCut leaves registry_cut to its default, the decision cut.
Request == [type : ActTypes, command : Commands, context : Contexts,
            chain : SUBSET Nat, claimed : Claims, registry : {NoCut} \cup SUBSET Nat,
            rules : SUBSET Rules]

ASSUME GateAssumption ==
  /\ Requests \subseteq Request
  /\ DeclaredCuts \subseteq SUBSET Nat
  /\ NoAct \notin Act
  /\ MaxHistory \in Nat

VARIABLES
  cas,           \* objects of the content-addressed store
  stage,         \* where each worker is in commit()
  proposal,      \* the Act each worker is trying to place
  outcome,       \* the outcome of the Decision it holds
  linked,        \* the links of its chain that resolved when it read them
  answer         \* the place it was given: of its Act, or of the one already there

gateVars == <<cas, stage, proposal, outcome, linked, answer>>
vars == <<history, gateVars>>

Stages == {"idle", "lookup", "consequence", "chain", "proof", "cut",
           "references", "putCommand", "putContext", "rpc", "answered"}

Object(kind, of) == <<kind, of>>
Objects == ({"command", "payload"} \X Commands) \cup ({"context"} \X Contexts)

\* What it takes to read an Act back.
ObjectsOf(a) ==
  {Object("payload", a.command), Object("command", a.command), Object("context", a.context)}

At(w, s) == stage[w] = s
Goto(w, s) == stage' = [stage EXCEPT ![w] = s]

\* Mutant: the Act of the last call stays behind.
LeaveProposal(w) ==
  /\ Goto(w, "idle")
  /\ linked' = [linked EXCEPT ![w] = {}]
  /\ outcome' = [outcome EXCEPT ![w] = "deny"]
  /\ answer' = [answer EXCEPT ![w] = 0]
  /\ UNCHANGED <<history, cas, proposal>>

\* commit() returns, raises or its process dies: nothing of the call is kept.
Leave(w) ==
  /\ Goto(w, "idle")
  /\ proposal' = [proposal EXCEPT ![w] = NoAct]
  /\ linked' = [linked EXCEPT ![w] = {}]
  /\ outcome' = [outcome EXCEPT ![w] = "deny"]
  /\ answer' = [answer EXCEPT ![w] = 0]
  /\ UNCHANGED <<history, cas>>

Init ==
  /\ HistoryInit
  /\ cas = {}
  /\ stage = [w \in Workers |-> "idle"]
  /\ proposal = [w \in Workers |-> NoAct]
  /\ outcome = [w \in Workers |-> "deny"]
  /\ linked = [w \in Workers |-> {}]
  /\ answer = [w \in Workers |-> 0]
-----------------------------------------------------------------------------
(* Callers.                                                                 *)

ActOf(r, cut) ==
  [type |-> r.type, command |-> r.command, context |-> r.context,
   chain |-> r.chain, claimed |-> r.claimed, cut |-> cut,
   registry |-> IF r.registry = NoCut THEN cut ELSE r.registry,
   rules |-> r.rules]

\* A caller stores the payload of its Command before it asks for a commit.
StorePayload(r) ==
  /\ Object("payload", r.command) \notin cas
  /\ cas' = cas \cup {Object("payload", r.command)}
  /\ UNCHANGED <<history, stage, proposal, outcome, linked, answer>>

\* commit() is called with a Decision made at a cut.  A bad signature raises
\* before anything is read; nothing else of the Decision is looked at yet.
CallGate(w, cut) ==
  /\ At(w, "idle")
  /\ Goto(w, "lookup")
  /\ \E r \in Requests, o \in Outcomes :
       /\ SigningKey[r.command] # NoKey
       /\ proposal' = [proposal EXCEPT ![w] = ActOf(r, cut)]
       /\ outcome' = [outcome EXCEPT ![w] = o]
  /\ UNCHANGED <<history, cas, linked, answer>>

\* Mutant: a Decision may name Acts that are yet to come.
AnyCut(cut) == TRUE

\* What commit() presumes of its callers and does not check: a Decision's cut
\* is made of Acts that are there.  evaluate sees to it (and to more).
KnownCut(cut) == cut \subseteq Places(history)

Propose(w) == \E cut \in DeclaredCuts : KnownCut(cut) /\ CallGate(w, cut)
-----------------------------------------------------------------------------
(* The Gate's checks, each against the store as it is when it is made.      *)

\* Mutant: an occurrence is recognised by its Command.
PresentByCommand(w) == ActsFor(history, proposal[w].command)

Present(w) == {i \in Places(history) : history[i] = proposal[w]}

OutcomePermitted(w) == outcome[w] \in PermittedOutcomes(proposal[w].type)

NotYetBought(w) ==
  IsConsequence(proposal[w]) => ~HasConsequence(history, proposal[w].command)

\* The reviews whose payloads the proof has to read.
ReviewsRead(w) ==
  CASE proposal[w].type = "AuthorizationReviewed" -> {proposal[w].command}
    [] proposal[w].type = "AuthorizationResolved" ->
         {history[i].command :
            i \in {j \in linked[w] : history[j].type = "AuthorizationReviewed"}}
    [] OTHER -> {}

ProofHolds(w) ==
  /\ ProofFits(history, linked[w], proposal[w])
  /\ \A c \in ReviewsRead(w) : Object("payload", c) \in cas

CutCurrent(w) == Places(history) = proposal[w].cut

ReferencesKnown(w) ==
  /\ proposal[w].rules # {}
  /\ VocabularyRegistered(history, proposal[w])
  /\ Object("payload", proposal[w].command) \in cas
  /\ Parents[proposal[w].command] \subseteq Places(history)

\* Mutant: links that name no Act are let pass, as the Gate lets them.
ReferencesButLinks(a) == Parents[a.command] \cup a.cut \cup a.registry \subseteq Places(history)

\* The trigger on insert, and the RPC before it: no reference is to an unknown Act.
ReferencesExist(a) ==
  Parents[a.command] \cup a.cut \cup a.registry \cup a.chain \subseteq Places(history)

\* The RPC's judgement short of the cut, ending in the partial unique index.
\* Context keys, the Command object and the proof are left to the Gate.
Insertable(a) ==
  /\ a.rules # {}
  /\ a.command \in Identified
  /\ {Object("context", a.context), Object("payload", a.command)} \subseteq cas
  /\ ReferencesExist(a)
  /\ TypesNamed(a) /\ ActVocabularyRegistered(history, a)
  /\ IsConsequence(a) => ~HasConsequence(history, a.command)

\* Mutant: the store takes the Gate's word for everything, as MemoryStore does.
StoreTrusts(a) == a.rules # {}

StoreAccepts(a) == a.cut = Places(history) /\ Insertable(a)
-----------------------------------------------------------------------------
(* The steps of commit().                                                   *)

\* This exact content already holds its place: nothing else is compared.
FindOccurrence(w) ==
  /\ At(w, "lookup")
  /\ \E i \in Present(w) : answer' = [answer EXCEPT ![w] = i]
  /\ Goto(w, "answered")
  /\ UNCHANGED <<history, cas, proposal, outcome, linked>>

\* One check passed, on to the next.
Check(w, from, holds, to) ==
  /\ At(w, from)
  /\ holds
  /\ Goto(w, to)
  /\ UNCHANGED <<history, cas, proposal, outcome, linked, answer>>

CheckOutcome(w) ==
  Check(w, "lookup", Present(w) = {} /\ OutcomePermitted(w), "consequence")

CheckConsequence(w) == Check(w, "consequence", NotYetBought(w), "chain")

\* get_act of every link; the unknown ones are dropped.  (The proof of an
\* AuthorizationReviewed is of its own payload and has no use for them.)
ReadChain(w) ==
  /\ At(w, "chain")
  /\ linked' = [linked EXCEPT ![w] = proposal[w].chain \cap Places(history)]
  /\ Goto(w, "proof")
  /\ UNCHANGED <<history, cas, proposal, outcome, answer>>

\* Mutant: the authorization chain is taken on trust.
SkipProof(w) == Check(w, "proof", TRUE, "cut")

CheckProof(w) == Check(w, "proof", ProofHolds(w), "cut")

CheckCut(w) == Check(w, "cut", CutCurrent(w), "references")

\* Many reads in one step: rows of the Registry, of the CAS and of the Acts are
\* never removed, so what one of them finds the later ones still find.
CheckReferences(w) == Check(w, "references", ReferencesKnown(w), "putCommand")

PutObject(w, from, object, to) ==
  /\ At(w, from)
  /\ cas' = cas \cup {object}
  /\ Goto(w, to)
  /\ UNCHANGED <<history, proposal, outcome, linked, answer>>

\* Mutant: the Command object is not written.
SkipCommand(w) == Check(w, "putCommand", TRUE, "putContext")

PutCommand(w) ==
  PutObject(w, "putCommand", Object("command", proposal[w].command), "putContext")

PutContext(w) ==
  PutObject(w, "putContext", Object("context", proposal[w].context), "rpc")

\* commit_act: the occurrence already there, or a new one.
CommitAct(w) ==
  /\ At(w, "rpc")
  /\ \/ /\ \E i \in Present(w) : answer' = [answer EXCEPT ![w] = i]
        /\ UNCHANGED history
     \/ /\ Present(w) = {}
        /\ StoreAccepts(proposal[w])
        /\ Len(history) < MaxHistory
        /\ history' = Append(history, proposal[w])
        /\ answer' = [answer EXCEPT ![w] = Len(history) + 1]
  /\ Goto(w, "answered")
  /\ UNCHANGED <<cas, proposal, outcome, linked>>

\* CommitError: a check does not hold, or the store rejects the Act.
Refuse(w) ==
  /\ \/ At(w, "lookup") /\ Present(w) = {} /\ ~OutcomePermitted(w)
     \/ At(w, "consequence") /\ ~NotYetBought(w)
     \/ At(w, "proof") /\ ~ProofHolds(w)
     \/ At(w, "cut") /\ ~CutCurrent(w)
     \/ At(w, "references") /\ ~ReferencesKnown(w)
     \/ At(w, "rpc") /\ Present(w) = {} /\ ~StoreAccepts(proposal[w])
  /\ Leave(w)

Return(w) == At(w, "answered") /\ Leave(w)

Crash(w) == stage[w] \notin {"idle", "answered"} /\ Leave(w)

Next ==
  \/ \E r \in Requests : StorePayload(r)
  \/ \E w \in Workers :
       \/ Propose(w) \/ FindOccurrence(w)
       \/ CheckOutcome(w) \/ CheckConsequence(w) \/ ReadChain(w)
       \/ CheckProof(w) \/ CheckCut(w) \/ CheckReferences(w)
       \/ PutCommand(w) \/ PutContext(w) \/ CommitAct(w)
       \/ Refuse(w) \/ Return(w) \/ Crash(w)

Spec == Init /\ [][Next]_vars
-----------------------------------------------------------------------------
(* Properties.                                                              *)

TypeOK ==
  /\ history \in Seq(Act)
  /\ cas \subseteq Objects
  /\ stage \in [Workers -> Stages]
  /\ proposal \in [Workers -> Act \cup {NoAct}]
  /\ \A w \in Workers : proposal[w] = NoAct <=> stage[w] = "idle"
  /\ outcome \in [Workers -> Outcomes]
  /\ linked \in [Workers -> SUBSET Nat]
  /\ answer \in [Workers -> Nat]

\* Every object a placed Act refers to can be read back; only the Gate's own
\* order of writes keeps the Command object there, the store does not ask for it.
ContentHeld == \A i \in 2 .. Len(history) : ObjectsOf(history[i]) \subseteq cas

\* What the Gate answers is the place that holds exactly what was proposed,
\* whichever worker put it there.
AnswerHoldsProposal(w) ==
  At(w, "answered") => answer[w] \in Places(history) /\ history[answer[w]] = proposal[w]

\* A Decision's cut is made of Acts that are there.
CutKnown(w) == ~At(w, "idle") => proposal[w].cut \subseteq Places(history)

\* The stages between the outcome check, or the proof, and the placement.
Proved == {"cut", "references", "putCommand", "putContext", "rpc"}
Judged == {"consequence", "chain", "proof"} \cup Proved

EvidenceKept(w) == stage[w] \in Judged => OutcomePermitted(w)

\* The links read some transactions ago are all the links there are, and the
\* proof checked then still fits, unless history has outgrown the Decision's cut.
ReadsCurrent(w) ==
  stage[w] \in {"proof"} \cup Proved /\ CutCurrent(w) =>
    /\ linked[w] = proposal[w].chain \cap Places(history)
    /\ stage[w] \in Proved =>
         ProofFits(history, proposal[w].chain \cap Places(history), proposal[w])

CommandKept(w) ==
  stage[w] \in {"putContext", "rpc"} => Object("command", proposal[w].command) \in cas

VocabularyKept(w) ==
  stage[w] \in {"putCommand", "putContext", "rpc"} =>
    VocabularyRegistered(history, proposal[w])

\* What a worker's stale reads still say of the store: the reason the RPC need
\* compare only the cut.  It takes a Decision whose cut was known: the Gate
\* compares the cut after the proof, and of one that foretold an Act the proof
\* would be of a history that never had it.
StaleReadsHarmless ==
  \A w \in Workers : /\ EvidenceKept(w) /\ ReadsCurrent(w)
                     /\ CommandKept(w) /\ VocabularyKept(w)

\* Every answer given is true.
AnswersTrue == \A w \in Workers : AnswerHoldsProposal(w)

\* An Act enters history only for a worker whose Decision is evidence for its
\* type: a deny or a require_review is never transformed into consequence
\* (section 8.2), and review and denial are recorded only of their own outcome.
Evidence(type, o) ==
  /\ type \notin LifecycleActTypes => o = "allow"
  /\ type = "ReviewRequested" => o = "require_review"
  /\ type = "CommandDenied" => o = "deny"

OutcomeIsEvidence ==
  [][\E w \in Workers :
       /\ history' = Append(history, proposal[w])
       /\ Evidence(proposal[w].type, outcome[w])]_history
=============================================================================
