----------------------- MODULE AuthorityServiceProofs -----------------------
(***************************************************************************)
(* The authority service drives the Gate within the Gate's specification,  *)
(* so that all that is proved of the Gate holds below the service; and     *)
(* what it tells its callers is true, for any number of them.              *)
(***************************************************************************)
EXTENDS AuthorityService, CommitGateProofs

-----------------------------------------------------------------------------
(* What a worker knows of its call.                                         *)

\* The phases after the evaluation.
EvaluatedPhases == {"evaluated", "unsettled", "compared", "stored", "gate"}

\* With root authority among the Rules, what takes an allow is the root's.
RootJudged(w) ==
  /\ RootAuthority \in Configured /\ Implementation[RootAuthority] = NoRule
  /\ PermittedOutcomes(call[w].ask.type) = {"allow"}
  => call[w].ask.command \in ByRoot

\* The evaluation is of a cut, which does not change: it stays true.
Vetted(w) ==
  /\ ClosedCut(history, base[w])
  /\ RegistryCut(w) \subseteq base[w]
  /\ Signed(call[w].ask.command, base[w])
  /\ \A name \in Configured : Executable(name, RegistryCut(w))
  /\ RootJudged(w)

Asking(w) ==
  /\ phase[w] # "ready" => call[w] \in Calls
  /\ phase[w] \in {"reading"} \cup EvaluatedPhases => base[w] \in DeclaredCuts
  /\ phase[w] \in EvaluatedPhases => Vetted(w)
  /\ phase[w] = "gate" => proposal[w] = ActOf(Asked(w), base[w])
  /\ phase[w] # "replied" => reply[w] = NoReply

CallsInv ==
  /\ TypeOK /\ ServiceTypeOK
  /\ Len(history) \in 1 .. MaxHistory
  /\ \A w \in Workers : Asking(w)

\* Of the others, nothing changes in a step of worker w.
OthersKeep(w) ==
  \A v \in Workers \ {w} :
    /\ phase'[v] = phase[v] /\ call'[v] = call[v] /\ base'[v] = base[v]
    /\ verdict'[v] = verdict[v] /\ reply'[v] = reply[v]
    /\ stage'[v] = stage[v] /\ proposal'[v] = proposal[v] /\ outcome'[v] = outcome[v]

\* What worker w may do.
ServiceStep(w) ==
  \/ Accept(w) \/ ReadHistory(w) \/ Evaluate(w) \/ RefuseCall(w)
  \/ ReplaySettled(w) \/ FindUnsettled(w) \/ CompareCut(w) \/ PutPayload(w)
  \/ EnterGate(w) \/ GateStep(w) \/ ReturnAct(w) \/ RaiseError(w)
  \/ Deliver(w) \/ Die(w)

\* History stays or gets one more Act.
Grew ==
  \/ history' = history
  \/ \E a \in Act : history' = Append(history, a) /\ Len(history) < MaxHistory

-----------------------------------------------------------------------------
(* The service drives the Gate.                                             *)

\* What the Gate is asked is one of its requests.
LEMMA AskedIsRequest ==
  ASSUME NEW c \in Calls, NEW cut \in DeclaredCuts
  PROVE  /\ Asks(c, cut) \in Requests
         /\ Asks(c, cut).command = c.ask.command /\ Asks(c, cut).type = c.ask.type
         /\ Asks(c, cut).context = c.ask.context /\ Asks(c, cut).chain = c.ask.chain
         /\ Asks(c, cut).registry = c.ask.registry
         /\ Asks(c, cut).rules = Resolved(RegistryOf(c, cut))
         /\ c.ask.command \in Commands
<1>1. c.ask \in Request
  BY ServiceAssumption DEF Call
<1>2. Asks(c, cut) \in Requests
  BY ServiceAssumption
<1> QED BY <1>1, <1>2 DEF Asks, Request

\* An Act that is asked for has the parts of its call.
LEMMA ActAsked ==
  ASSUME NEW c \in Calls, NEW cut \in DeclaredCuts
  PROVE  /\ ActOf(Asks(c, cut), cut).command = c.ask.command
         /\ ActOf(Asks(c, cut), cut).type = c.ask.type
         /\ ActOf(Asks(c, cut), cut).context = c.ask.context
         /\ ActOf(Asks(c, cut), cut).cut = cut
         /\ ActOf(Asks(c, cut), cut).rules = Resolved(RegistryOf(c, cut))
BY AskedIsRequest DEF ActOf

\* Each step of the service is a step of the Gate, or none.
LEMMA Drives ==
  ASSUME CallsInv, NEW w \in Workers, ServiceStep(w)
  PROVE  [Next]_vars
<1>1. CASE \/ Accept(w) \/ ReadHistory(w) \/ Evaluate(w) \/ RefuseCall(w)
           \/ ReplaySettled(w) \/ FindUnsettled(w) \/ CompareCut(w) \/ Deliver(w)
  BY <1>1 DEF Accept, ReadHistory, Evaluate, RefuseCall, ReplaySettled, FindUnsettled,
              CompareCut, Deliver
<1>2. CASE PutPayload(w)
  <2>1. /\ call[w] \in Calls /\ base[w] \in DeclaredCuts
        /\ UNCHANGED <<history, stage, proposal, outcome, linked, answer>>
        /\ cas' = IF call[w].supplied THEN cas \cup {Object("payload", call[w].ask.command)}
                  ELSE cas
    BY <1>2 DEF PutPayload, CallsInv, Asking, EvaluatedPhases, In
  <2>2. CASE call[w].supplied /\ Object("payload", call[w].ask.command) \notin cas
    <3>1. /\ Asks(call[w], base[w]) \in Requests
          /\ Asks(call[w], base[w]).command = call[w].ask.command
      BY <2>1, AskedIsRequest
    <3>2. StorePayload(Asks(call[w], base[w]))
      BY <2>1, <2>2, <3>1 DEF StorePayload
    <3> QED BY <3>1, <3>2 DEF Next
  <2>3. CASE ~(call[w].supplied /\ Object("payload", call[w].ask.command) \notin cas)
    BY <2>1, <2>3 DEF vars, gateVars
  <2> QED BY <2>2, <2>3
<1>3. CASE EnterGate(w)
  <2> DEFINE r == Asks(call[w], base[w])
  <2>1. /\ call[w] \in Calls /\ base[w] \in DeclaredCuts /\ Vetted(w)
        /\ At(w, "idle") /\ verdict[w] \in Outcomes
    BY <1>3 DEF EnterGate, CallsInv, ServiceTypeOK, Asking, EvaluatedPhases, In
  <2>2. r \in Requests /\ r.command = call[w].ask.command /\ call[w].ask.command \in Commands
    BY <2>1, AskedIsRequest
  <2>3. SigningKey[r.command] # NoKey
    BY <2>1, <2>2, ActsAssumption DEF Vetted, Signed
  <2>4. KnownCut(base[w])
    BY <2>1 DEF Vetted, ClosedCut, KnownCut
  <2>5. /\ proposal' = [proposal EXCEPT ![w] = ActOf(r, base[w])]
        /\ outcome' = [outcome EXCEPT ![w] = verdict[w]]
        /\ Goto(w, "lookup") /\ UNCHANGED <<history, cas, linked, answer>>
    BY <1>3 DEF EnterGate, Asked
  <2> HIDE DEF r
  <2>6. Propose(w)
    BY <2>1, <2>2, <2>3, <2>4, <2>5 DEF Propose, CallGate
  <2> QED BY <2>6 DEF Next
<1>4. CASE GateStep(w)
  BY <1>4 DEF GateStep, Next
<1>5. CASE ReturnAct(w) \/ RaiseError(w)
  BY <1>5 DEF ReturnAct, RaiseError, Next
<1>6. CASE Die(w)
  <2>1. CASE In(w, "gate")
    <3>1. Leave(w) /\ stage[w] # "idle"
      BY <1>6, <2>1 DEF Die, CallsInv, ServiceTypeOK, At
    <3>2. Return(w) \/ Crash(w)
      BY <3>1 DEF Return, Crash, At
    <3> QED BY <3>2 DEF Next
  <2>2. CASE ~In(w, "gate")
    BY <1>6, <2>2 DEF Die
  <2> QED BY <2>1, <2>2
<1> QED BY <1>1, <1>2, <1>3, <1>4, <1>5, <1>6 DEF ServiceStep
-----------------------------------------------------------------------------
(* What a worker knows stays true.                                          *)

\* The types of what a worker holds.
Holds(w) ==
  /\ phase[w] \in Phases /\ call[w] \in Calls \cup {NoCall} /\ base[w] \in SUBSET Nat
  /\ verdict[w] \in Outcomes /\ reply[w] \in [kind : Replies, place : Nat]
  /\ In(w, "gate") <=> ~At(w, "idle")

Functions ==
  /\ phase = [w \in Workers |-> phase[w]] /\ call = [w \in Workers |-> call[w]]
  /\ base = [w \in Workers |-> base[w]] /\ verdict = [w \in Workers |-> verdict[w]]
  /\ reply = [w \in Workers |-> reply[w]]

\* The type invariant, worker by worker.
LEMMA TypesByWorker == ServiceTypeOK <=> Functions /\ \A w \in Workers : Holds(w)
BY DEF ServiceTypeOK, Functions, Holds

\* The Gate adds at most one Act.
LEMMA HistoryGrows == TypeOK /\ Len(history) \in 1 .. MaxHistory /\ [Next]_vars => Grew
<1> SUFFICES ASSUME TypeOK, [Next]_vars, history' # history PROVE Grew
  BY DEF Grew
<1>1. PICK w \in Workers : CommitAct(w)
  BY DEF Next, vars, StorePayload, Propose, CallGate, FindOccurrence, CheckOutcome, CheckConsequence,
         ReadChain, CheckProof, CheckCut, CheckReferences, Check, PutCommand, PutContext,
         PutObject, Refuse, Return, Crash, Leave
<1>2. /\ At(w, "rpc") /\ history' = Append(history, proposal[w]) /\ Len(history) < MaxHistory
  BY <1>1 DEF CommitAct
<1>3. proposal[w] \in Act
  BY <1>2 DEF TypeOK, At
<1> QED BY <1>2, <1>3 DEF Grew

\* A history that grew has the same Acts where it had some.
LEMMA GrownHistory ==
  ASSUME TypeOK, Grew
  PROVE  /\ Places(history) \subseteq Places(history')
         /\ \A i \in Places(history) : history'[i] = history[i]
         /\ Len(history) \in 1 .. MaxHistory => Len(history') \in 1 .. MaxHistory
<1>1. CASE history' = history
  BY <1>1
<1>2. CASE \E a \in Act : history' = Append(history, a) /\ Len(history) < MaxHistory
  <2>1. PICK a \in Act : history' = Append(history, a) /\ Len(history) < MaxHistory
    BY <1>2
  <2>2. /\ history \in Seq(Act) /\ Len(history) \in Nat /\ Len(history') = Len(history) + 1
        /\ \A i \in 1 .. Len(history) : history'[i] = history[i]
    BY <2>1 DEF TypeOK
  <2> QED BY <2>1, <2>2, GateAssumption DEF Places
<1> QED BY <1>1, <1>2 DEF Grew

\* A closed cut stays closed.
LEMMA ClosedStays ==
  ASSUME TypeOK, Grew, NEW cut, ClosedCut(history, cut)
  PROVE  ClosedCut(history', cut)
BY GrownHistory DEF ClosedCut

\* What a worker knows survives a step it takes no part in.
LEMMA AskingFrame ==
  ASSUME TypeOK, Grew, NEW v \in Workers, Asking(v),
         phase'[v] = phase[v], call'[v] = call[v], base'[v] = base[v],
         reply'[v] = reply[v], proposal'[v] = proposal[v]
  PROVE  Asking(v)'
<1>1. Vetted(v) => Vetted(v)'
  BY ClosedStays DEF Vetted, RegistryCut, RootJudged
<1>2. Asked(v)' = Asked(v)
  BY DEF Asked
<1> QED BY <1>1, <1>2 DEF Asking

\* Inside the Gate a worker stays inside, and keeps its proposal.
LEMMA InsideGate ==
  ASSUME TypeOK, NEW w \in Workers, GateStep(w)
  PROVE  /\ proposal' = proposal /\ outcome' = outcome /\ stage'[w] # "idle"
         /\ \A v \in Workers \ {w} : stage'[v] = stage[v]
<1>1. \E s \in Stages \ {"idle"} : Goto(w, s)
  BY DEF GateStep, FindOccurrence, CheckOutcome, CheckConsequence, ReadChain, CheckProof,
         CheckCut, CheckReferences, Check, PutCommand, PutContext, PutObject, CommitAct, Stages
<1>2. proposal' = proposal /\ outcome' = outcome
  BY DEF GateStep, FindOccurrence, CheckOutcome, CheckConsequence, ReadChain, CheckProof,
         CheckCut, CheckReferences, Check, PutCommand, PutContext, PutObject, CommitAct
<1> QED BY <1>1, <1>2 DEF Goto, TypeOK

\* The answer of a call is one of its kind.
LEMMA AnswerTypes ==
  ASSUME ServiceTypeOK, NEW w \in Workers, NEW kind \in Replies, NEW place \in Nat,
         Answer(w, kind, place)
  PROVE  /\ phase'[w] = "replied" /\ reply'[w] = Reply(kind, place)
         /\ reply'[w] \in [kind : Replies, place : Nat]
         /\ phase' = [phase EXCEPT ![w] = "replied"]
         /\ reply' = [reply EXCEPT ![w] = Reply(kind, place)]
BY DEF Answer, GoOn, ServiceTypeOK, Reply

\* Root authority has the last word on what takes an allow.
LEMMA RootAlone ==
  ASSUME NEW c, NEW cut, NEW result \in [Resolved(cut) -> Outcomes],
         \A r \in DOMAIN result : result[r] \in Opinions(r, c),
         RootAuthority \in Configured, Implementation[RootAuthority] = NoRule,
         Executable(RootAuthority, cut),
         Authorize({result[r] : r \in DOMAIN result}) = "allow"
  PROVE  c \in ByRoot
<1>1. PICK r : r \in Entry(RootAuthority, cut)
  BY DEF Executable
<1>2. r \in Resolved(cut) /\ RuleName[r] = RootAuthority
  BY <1>1 DEF Resolved, Entry
<1>3. result[r] # "deny"
  BY <1>2 DEF Authorize
<1> QED BY <1>2, <1>3 DEF Opinions

\* A step of worker w changes nothing of the others.
LEMMA OneWorkerMoves ==
  ASSUME CallsInv, NEW w \in Workers, ServiceStep(w)
  PROVE  OthersKeep(w)
<1> USE DEF OthersKeep
<1>1. /\ ServiceTypeOK /\ TypeOK /\ DOMAIN phase = Workers /\ DOMAIN call = Workers
      /\ DOMAIN base = Workers /\ DOMAIN verdict = Workers /\ DOMAIN reply = Workers
      /\ DOMAIN stage = Workers /\ DOMAIN proposal = Workers /\ DOMAIN outcome = Workers
  BY DEF CallsInv, ServiceTypeOK, TypeOK
<1>2. CASE \/ Accept(w) \/ ReadHistory(w) \/ Evaluate(w) \/ RefuseCall(w)
           \/ ReplaySettled(w) \/ FindUnsettled(w) \/ CompareCut(w)
  BY <1>1, <1>2 DEF Accept, ReadHistory, Evaluate, RefuseCall, ReplaySettled, FindUnsettled,
                    CompareCut, Answer, GoOn, vars, gateVars
<1>3. CASE PutPayload(w) \/ EnterGate(w)
  BY <1>1, <1>3 DEF PutPayload, EnterGate, GoOn, Goto
<1>4. CASE GateStep(w)
  BY <1>1, <1>4, InsideGate DEF GateStep, serviceVars
<1>5. CASE ReturnAct(w) \/ RaiseError(w)
  BY <1>1, <1>5 DEF ReturnAct, RaiseError, Return, Refuse, Leave, Goto, Answer, GoOn
<1>6. CASE Deliver(w) \/ Die(w)
  BY <1>1, <1>6 DEF Deliver, Die, Forget, Leave, Goto, GoOn, vars, gateVars
<1> QED BY <1>2, <1>3, <1>4, <1>5, <1>6 DEF ServiceStep

\* The variables stay functions of the workers.
LEMMA FunctionsStay ==
  ASSUME CallsInv, NEW w \in Workers, ServiceStep(w)
  PROVE  Functions'
<1>1. Functions
  BY TypesByWorker DEF CallsInv
<1>2. /\ phase' = phase \/ \E x : phase' = [phase EXCEPT ![w] = x]
      /\ call' = call \/ \E x : call' = [call EXCEPT ![w] = x]
      /\ base' = base \/ \E x : base' = [base EXCEPT ![w] = x]
      /\ verdict' = verdict \/ \E x : verdict' = [verdict EXCEPT ![w] = x]
      /\ reply' = reply \/ \E x : reply' = [reply EXCEPT ![w] = x]
  <2>1. CASE Accept(w) \/ ReadHistory(w) \/ Evaluate(w) \/ RefuseCall(w)
    BY <2>1 DEF Accept, ReadHistory, Evaluate, RefuseCall, Answer, GoOn
  <2>2. CASE \/ ReplaySettled(w) \/ FindUnsettled(w) \/ CompareCut(w) \/ PutPayload(w)
             \/ EnterGate(w)
    BY <2>2 DEF ReplaySettled, FindUnsettled, CompareCut, PutPayload, EnterGate, Answer, GoOn
  <2>3. CASE GateStep(w) \/ ReturnAct(w) \/ RaiseError(w)
    BY <2>3 DEF GateStep, ReturnAct, RaiseError, Answer, GoOn, serviceVars
  <2>4. CASE Deliver(w) \/ Die(w)
    BY <2>4 DEF Deliver, Die, Forget, GoOn
  <2> QED BY <2>1, <2>2, <2>3, <2>4 DEF ServiceStep
<1> QED BY <1>1, <1>2 DEF Functions

\* A worker that forgets its call knows nothing.
LEMMA ForgetKnows ==
  ASSUME CallsInv, NEW w \in Workers, Forget(w), stage'[w] = "idle"
  PROVE  Holds(w)' /\ Asking(w)'
<1>1. /\ phase'[w] = "ready" /\ call'[w] = NoCall /\ base'[w] = {} /\ verdict'[w] = "deny"
      /\ reply'[w] = NoReply
  BY DEF CallsInv, ServiceTypeOK, Forget, GoOn
<1>2. NoReply \in [kind : Replies, place : Nat]
  BY DEF NoReply, Reply, Replies
<1> QED BY <1>1, <1>2 DEF Holds, Asking, EvaluatedPhases, Phases, Outcomes, In, At

\* A worker that answers has only its call left to remember.
LEMMA AnswerKnows ==
  ASSUME CallsInv, NEW w \in Workers, NEW kind \in Replies, NEW place \in Nat,
         Answer(w, kind, place), stage'[w] = "idle",
         call'[w] \in Calls, base'[w] \in SUBSET Nat, verdict'[w] \in Outcomes
  PROVE  Holds(w)' /\ Asking(w)'
<1>1. phase'[w] = "replied" /\ reply'[w] \in [kind : Replies, place : Nat]
  BY AnswerTypes DEF CallsInv
<1> QED BY <1>1 DEF Holds, Asking, EvaluatedPhases, Phases, In, At

\* Each step leaves its worker knowing what its phase says.
LEMMA WorkerKnows ==
  ASSUME CallsInv, Grew, NEW w \in Workers, ServiceStep(w)
  PROVE  Holds(w)' /\ Asking(w)'
<1>1. /\ TypeOK /\ ServiceTypeOK /\ Holds(w) /\ Asking(w)
      /\ phase = [v \in Workers |-> phase[v]] /\ call = [v \in Workers |-> call[v]]
      /\ base = [v \in Workers |-> base[v]] /\ verdict = [v \in Workers |-> verdict[v]]
      /\ reply = [v \in Workers |-> reply[v]]
  BY TypesByWorker DEF CallsInv, Functions
<1>2. CASE Accept(w)
  <2>1. PICK c \in Calls :
          /\ In(w, "ready") /\ call' = [call EXCEPT ![w] = c]
          /\ \/ GoOn(w, "called") /\ UNCHANGED reply
             \/ Answer(w, "invalid", 0)
          /\ UNCHANGED <<vars, base, verdict>>
    BY <1>2 DEF Accept
  <2>2. call'[w] = c /\ stage'[w] = "idle"
    BY <1>1, <2>1 DEF vars, gateVars, Holds, In, At
  <2>3. CASE GoOn(w, "called") /\ UNCHANGED reply
    BY <1>1, <2>1, <2>2, <2>3 DEF GoOn, Holds, Asking, EvaluatedPhases, Phases, In, At
  <2>4. CASE Answer(w, "invalid", 0)
    BY <1>1, <2>1, <2>2, <2>4, AnswerKnows DEF Holds, Replies
  <2> QED BY <2>1, <2>3, <2>4
<1>3. CASE ReadHistory(w)
  <2>1. call[w] \in Calls /\ base'[w] \in DeclaredCuts
    <3>1. call[w] \in Calls
      BY <1>1, <1>3 DEF ReadHistory, Asking, In
    <3>2. Places(history) \in DeclaredCuts
      BY ServiceAssumption DEF CallsInv, Places
    <3>3. base'[w] = IF call[w].declared = NoCut THEN Places(history) ELSE call[w].declared
      BY <1>1, <1>3 DEF ReadHistory
    <3> QED BY <3>1, <3>2, <3>3, ServiceAssumption
  <2>2. base'[w] \in SUBSET Nat
    BY <2>1, GateAssumption
  <2>3. /\ phase'[w] = "reading" /\ UNCHANGED <<vars, call, verdict, reply>>
        /\ phase[w] = "called"
    BY <1>1, <1>3 DEF ReadHistory, GoOn, In
  <2> QED BY <1>1, <2>1, <2>2, <2>3 DEF vars, gateVars, Holds, Asking, EvaluatedPhases,
                                        Phases, In, At
<1>4. CASE Evaluate(w)
  <2>1. PICK result \in [Resolved(RegistryCut(w)) -> Outcomes] :
          LET decided == Authorize({result[r] : r \in DOMAIN result})
          IN  /\ \A r \in DOMAIN result : result[r] \in Opinions(r, call[w].ask.command)
              /\ verdict' = [verdict EXCEPT ![w] = decided]
              /\ IF decided \in PermittedOutcomes(call[w].ask.type)
                   THEN GoOn(w, "evaluated") /\ UNCHANGED reply
                   ELSE Answer(w, "denied", 0)
    BY <1>4 DEF Evaluate
  <2> DEFINE decided == Authorize({result[r] : r \in DOMAIN result})
  <2>2. /\ In(w, "reading") /\ WellFounded(w) /\ UNCHANGED <<vars, call, base>>
        /\ call[w] \in Calls /\ base[w] \in DeclaredCuts /\ stage'[w] = "idle"
    BY <1>1, <1>4 DEF Evaluate, Asking, In, Holds, At, vars, gateVars
  <2>3. decided \in Outcomes /\ verdict'[w] = decided
    BY <1>1, <2>1 DEF Authorize, Outcomes
  <2>4. CASE decided \in PermittedOutcomes(call[w].ask.type)
    <3>1. phase'[w] = "evaluated" /\ reply' = reply
      BY <1>1, <2>1, <2>4 DEF GoOn
    <3>2. RootJudged(w)
      <4>1. ASSUME RootAuthority \in Configured, Implementation[RootAuthority] = NoRule,
                   PermittedOutcomes(call[w].ask.type) = {"allow"}
            PROVE  call[w].ask.command \in ByRoot
        <5>1. Executable(RootAuthority, RegistryCut(w))
          BY <2>2, <4>1 DEF WellFounded
        <5>2. Authorize({result[r] : r \in DOMAIN result}) = "allow"
          BY <2>4, <4>1
        <5> QED BY <2>1, <4>1, <5>1, <5>2, RootAlone
      <4> QED BY <4>1 DEF RootJudged
    <3>3. Vetted(w)
      BY <2>2, <3>2 DEF Vetted, WellFounded
    <3>4. Vetted(w)'
      BY <1>1, <2>2, <3>3, ClosedStays DEF Vetted, RegistryCut, RootJudged
    <3> HIDE DEF decided
    <3> QED BY <1>1, <2>2, <2>3, <3>1, <3>4 DEF Holds, Asking, EvaluatedPhases, Phases, In, At
  <2>5. CASE decided \notin PermittedOutcomes(call[w].ask.type)
    <3>1. Answer(w, "denied", 0)
      BY <2>1, <2>5
    <3> HIDE DEF decided
    <3> QED BY <1>1, <2>2, <2>3, <3>1, AnswerKnows DEF Holds, Replies
  <2> QED BY <2>4, <2>5
<1>5. CASE RefuseCall(w)
  <2>1. /\ Answer(w, "invalid", 0) /\ UNCHANGED <<vars, call, base, verdict>>
        /\ call[w] \in Calls /\ stage'[w] = "idle"
    BY <1>1, <1>5 DEF RefuseCall, Asking, In, Holds, At, vars, gateVars
  <2> QED BY <1>1, <2>1, AnswerKnows DEF Holds, Replies
<1>6. CASE ReplaySettled(w)
  <2>1. PICK i \in Settled(w) : Answer(w, "settled", i) \/ Answer(w, "conflict", i)
    BY <1>6 DEF ReplaySettled
  <2>2. i \in Nat
    BY <2>1 DEF Settled, ActsFor, Places
  <2>3. /\ UNCHANGED <<vars, call, base, verdict>>
        /\ call[w] \in Calls /\ stage'[w] = "idle"
    BY <1>1, <1>6 DEF ReplaySettled, Asking, EvaluatedPhases, In, Holds, At, vars, gateVars
  <2> QED BY <1>1, <2>1, <2>2, <2>3, AnswerKnows DEF Holds, Replies
<1>7. CASE FindUnsettled(w)
  <2>1. /\ phase[w] = "evaluated" /\ phase'[w] = "unsettled"
        /\ UNCHANGED <<vars, call, base, verdict, reply>>
    BY <1>1, <1>7 DEF FindUnsettled, GoOn, In
  <2>2. Vetted(w)'
    BY <1>1, <2>1, ClosedStays DEF Asking, EvaluatedPhases, Vetted, RegistryCut, RootJudged
  <2> QED BY <1>1, <2>1, <2>2 DEF vars, gateVars, Holds, Asking, EvaluatedPhases, Phases, In, At
<1>8. CASE CompareCut(w)
  <2>1. /\ phase[w] = "unsettled" /\ UNCHANGED <<vars, call, base, verdict>>
        /\ \/ GoOn(w, "compared") /\ UNCHANGED reply
           \/ Answer(w, "conflict", 0)
    BY <1>8 DEF CompareCut, In
  <2>2. Vetted(w)' /\ call[w] \in Calls /\ stage'[w] = "idle"
    BY <1>1, <2>1, ClosedStays DEF Asking, EvaluatedPhases, Vetted, RegistryCut, RootJudged,
                                   vars, gateVars, Holds, In, At
  <2>3. CASE GoOn(w, "compared") /\ UNCHANGED reply
    BY <1>1, <2>1, <2>2, <2>3 DEF GoOn, Holds, Asking, EvaluatedPhases, Phases, In, At
  <2>4. CASE Answer(w, "conflict", 0)
    BY <1>1, <2>1, <2>2, <2>4, AnswerKnows DEF Holds, Replies
  <2> QED BY <2>1, <2>3, <2>4
<1>9. CASE PutPayload(w)
  <2>1. /\ phase[w] = "compared" /\ phase'[w] = "stored"
        /\ UNCHANGED <<stage, call, base, verdict, reply>>
    BY <1>1, <1>9 DEF PutPayload, GoOn, In
  <2>2. Vetted(w)'
    BY <1>1, <2>1, ClosedStays DEF Asking, EvaluatedPhases, Vetted, RegistryCut, RootJudged
  <2> QED BY <1>1, <2>1, <2>2 DEF Holds, Asking, EvaluatedPhases, Phases, In, At
<1>10. CASE EnterGate(w)
  <2>1. /\ phase[w] = "stored" /\ phase'[w] = "gate" /\ stage'[w] = "lookup"
        /\ proposal'[w] = ActOf(Asked(w), base[w])
        /\ UNCHANGED <<call, base, verdict, reply>>
    BY <1>1, <1>10 DEF EnterGate, GoOn, Goto, In, TypeOK
  <2>2. Vetted(w)' /\ Asked(w)' = Asked(w)
    BY <1>1, <2>1, ClosedStays DEF Asking, EvaluatedPhases, Vetted, RegistryCut, RootJudged, Asked
  <2> QED BY <1>1, <2>1, <2>2 DEF Holds, Asking, EvaluatedPhases, Phases, In, At
<1>11. CASE GateStep(w)
  <2>1. /\ phase[w] = "gate" /\ UNCHANGED serviceVars /\ stage'[w] # "idle"
        /\ proposal' = proposal
    BY <1>1, <1>11, InsideGate DEF GateStep, In
  <2>2. Asking(w)'
    BY <1>1, <2>1, AskingFrame DEF serviceVars
  <2> QED BY <1>1, <2>1, <2>2 DEF serviceVars, Holds, In, At
<1>12. CASE ReturnAct(w)
  <2>1. /\ \E kind \in Replies : Answer(w, kind, answer[w])
        /\ answer[w] \in Nat /\ stage'[w] = "idle" /\ call[w] \in Calls
        /\ UNCHANGED <<call, base, verdict>>
    BY <1>1, <1>12 DEF ReturnAct, Return, Leave, Goto, Replies, TypeOK, Asking, EvaluatedPhases, In
  <2> QED BY <1>1, <2>1, AnswerKnows DEF Holds
<1>13. CASE RaiseError(w)
  <2>1. /\ Answer(w, "error", 0) /\ stage'[w] = "idle" /\ call[w] \in Calls
        /\ UNCHANGED <<call, base, verdict>>
    BY <1>1, <1>13 DEF RaiseError, Refuse, Leave, Goto, TypeOK, Asking, EvaluatedPhases, In
  <2> QED BY <1>1, <2>1, AnswerKnows DEF Holds, Replies
<1>14. CASE Deliver(w) \/ Die(w)
  <2>1. Forget(w)
    BY <1>14 DEF Deliver, Die
  <2>2. stage'[w] = "idle"
    BY <1>1, <1>14 DEF Deliver, Die, Leave, Goto, TypeOK, vars, gateVars, Holds, In, At
  <2> QED BY <2>1, <2>2, ForgetKnows
<1> QED BY <1>2, <1>3, <1>4, <1>5, <1>6, <1>7, <1>8, <1>9, <1>10, <1>11, <1>12, <1>13, <1>14
        DEF ServiceStep

\* Every step of the service is a step of one worker.
LEMMA StepOfOne == ServiceNext <=> \E w \in Workers : ServiceStep(w)
BY DEF ServiceNext, ServiceStep

\* The invariant of the calls, and the Gate driven as it may be.
LEMMA CallsStep ==
  ASSUME CallsInv, [ServiceNext]_allVars
  PROVE  CallsInv' /\ [Next]_vars
<1>1. CASE UNCHANGED allVars
  <2>1. Grew /\ UNCHANGED <<vars, serviceVars>> /\ [Next]_vars
    BY <1>1 DEF Grew, allVars, vars
  <2>2. TypeOK' /\ ServiceTypeOK' /\ (Len(history) \in 1 .. MaxHistory)'
    BY <2>1 DEF CallsInv, vars, gateVars, serviceVars, TypeOK, ServiceTypeOK, In, At
  <2>3. \A w \in Workers : Asking(w)'
    BY <2>1, AskingFrame DEF CallsInv, vars, gateVars, serviceVars
  <2> QED BY <2>1, <2>2, <2>3 DEF CallsInv
<1>2. ASSUME NEW w \in Workers, ServiceStep(w)
      PROVE  CallsInv' /\ [Next]_vars
  <2>1. [Next]_vars
    BY <1>2, Drives
  <2>2. Grew /\ TypeOK'
    BY <2>1, HistoryGrows, TypeStep DEF CallsInv
  <2>3. OthersKeep(w) /\ Functions' /\ Holds(w)' /\ Asking(w)'
    BY <1>2, <2>2, OneWorkerMoves, FunctionsStay, WorkerKnows
  <2>4. ASSUME NEW v \in Workers, v # w PROVE Holds(v)' /\ Asking(v)'
    <3>1. Holds(v) /\ Asking(v)
      BY TypesByWorker DEF CallsInv
    <3>2. /\ phase'[v] = phase[v] /\ call'[v] = call[v] /\ base'[v] = base[v]
          /\ verdict'[v] = verdict[v] /\ reply'[v] = reply[v]
          /\ stage'[v] = stage[v] /\ proposal'[v] = proposal[v]
      BY <2>3, <2>4 DEF OthersKeep
    <3>3. Holds(v)'
      BY <3>1, <3>2 DEF Holds, In, At
    <3> QED BY <2>2, <3>1, <3>2, <3>3, AskingFrame DEF CallsInv
  <2>5. \A v \in Workers : Holds(v)' /\ Asking(v)'
    BY <2>3, <2>4
  <2>6. ServiceTypeOK'
    BY <2>3, <2>5 DEF Functions, Holds, ServiceTypeOK
  <2>7. (Len(history) \in 1 .. MaxHistory)'
    BY <2>2, GrownHistory DEF CallsInv
  <2> QED BY <2>1, <2>2, <2>5, <2>6, <2>7 DEF CallsInv
<1> QED BY <1>1, <1>2, StepOfOne

\* At first no worker has a call.
LEMMA CallsInit == ServiceInit => CallsInv
<1> SUFFICES ASSUME ServiceInit PROVE CallsInv
  OBVIOUS
<1>1. TypeOK
  BY GateAssumption, GenesisAssumption
  DEF ServiceInit, Init, HistoryInit, TypeOK, Stages, Outcomes
<1>2. ServiceTypeOK
  BY DEF ServiceInit, Init, ServiceTypeOK, Phases, Replies, Outcomes, NoReply, Reply, In, At
<1>3. Len(history) \in 1 .. MaxHistory
  BY ServiceAssumption, GateAssumption DEF ServiceInit, Init, HistoryInit
<1>4. \A w \in Workers : Asking(w)
  BY DEF ServiceInit, Asking, EvaluatedPhases
<1> QED BY <1>1, <1>2, <1>3, <1>4 DEF CallsInv

\* The invariant of the calls, for any calls, Rules and workers.
THEOREM CallsInvariant == ServiceSpec => []CallsInv
<1>1. CallsInv /\ [ServiceNext]_allVars => CallsInv'
  BY CallsStep
<1> QED BY <1>1, CallsInit, PTL DEF ServiceSpec

\* Every variable of the service keeps its type.
THEOREM ServiceTyped == ServiceSpec => []ServiceTypeOK
<1>1. CallsInv => ServiceTypeOK
  BY DEF CallsInv
<1> QED BY <1>1, CallsInvariant, PTL

\* The service enters the Gate, stores payloads, leaves and dies only as the
\* specification of the Gate lets its environment: it restates the Gate's law
\* and never bypasses it.
THEOREM ServiceRefinesGate == ServiceSpec => Spec
<1>1. ServiceInit => Init
  BY DEF ServiceInit
<1>2. CallsInv /\ [ServiceNext]_allVars => [Next]_vars
  BY CallsStep
<1> QED BY <1>1, <1>2, CallsInvariant, PTL DEF ServiceSpec, Spec
-----------------------------------------------------------------------------
(* What gets into history through the service.                              *)

\* The Act placed next is the one a worker asked for at the present cut.
LEMMA PlacedIsAsked ==
  ASSUME CallsInv, [Next]_vars, history' # history
  PROVE  \E w \in Workers :
           /\ call[w] \in Calls /\ base[w] \in DeclaredCuts /\ Vetted(w)
           /\ base[w] = Places(history)
           /\ history' = Append(history, ActOf(Asked(w), base[w]))
           /\ ActOf(Asked(w), base[w]) \in Act
<1>1. PICK w \in Workers : /\ At(w, "rpc") /\ StoreAccepts(proposal[w])
                           /\ history' = Append(history, proposal[w])
  BY OnlyCommitPlaces
<1>2. phase[w] = "gate" /\ Asking(w) /\ proposal[w] \in Act
  BY <1>1 DEF CallsInv, ServiceTypeOK, TypeOK, At, In
<1>3. /\ call[w] \in Calls /\ base[w] \in DeclaredCuts /\ Vetted(w)
      /\ proposal[w] = ActOf(Asked(w), base[w])
  BY <1>2 DEF Asking, EvaluatedPhases
<1>4. proposal[w].cut = base[w]
  BY <1>3, ActAsked DEF Asked
<1> QED BY <1>1, <1>2, <1>3, <1>4 DEF StoreAccepts

\* What SignedWithLiveKey and EveryRuleAsked say of the Act at one place.
SignedAt(h, i) ==
  LET k == SigningKey[h[i].command]
  IN  /\ k \in KeysOf[h[i].command] /\ KeyFrom[k] < i /\ KeyUntil[k] \notin 1 .. (i - 1)

JudgedAt(h, i) ==
  /\ \A name \in Configured : \E r \in h[i].rules : RuleName[r] = name
  /\ RootAuthority \in Configured /\ Implementation[RootAuthority] = NoRule
       /\ PermittedOutcomes(h[i].type) = {"allow"}
     => h[i].command \in ByRoot

PlacedInv == \A i \in 2 .. Len(history) : SignedAt(history, i) /\ JudgedAt(history, i)

\* Every configured name has a Rule among those of the call.
LEMMA RuleOfEveryName ==
  ASSUME NEW w \in Workers, Vetted(w), NEW name \in Configured
  PROVE  \E r \in Resolved(RegistryCut(w)) : RuleName[r] = name
<1>1. Entry(name, RegistryCut(w)) # {}
  BY DEF Vetted, Executable
<1> QED BY <1>1 DEF Entry, Resolved

\* The Act a vetted call places is signed and judged.
LEMMA PlacedStep ==
  ASSUME CallsInv, [Next]_vars, PlacedInv
  PROVE  PlacedInv'
<1>1. CASE history' = history
  BY <1>1 DEF PlacedInv, SignedAt, JudgedAt
<1>2. CASE history' # history
  <2>1. PICK w \in Workers :
           /\ call[w] \in Calls /\ base[w] \in DeclaredCuts /\ Vetted(w)
           /\ base[w] = Places(history)
           /\ history' = Append(history, ActOf(Asked(w), base[w]))
           /\ ActOf(Asked(w), base[w]) \in Act
    BY <1>2, PlacedIsAsked
  <2> DEFINE n == Len(history) + 1
             a == ActOf(Asked(w), base[w])
  <2>2. /\ Len(history) \in Nat /\ Len(history') = n /\ history'[n] = a
        /\ \A i \in 1 .. Len(history) : history'[i] = history[i]
        /\ 1 .. (n - 1) = Places(history)
    BY <2>1 DEF CallsInv, TypeOK, Places
  <2>3. /\ a.command = call[w].ask.command /\ a.type = call[w].ask.type
        /\ a.rules = Resolved(RegistryCut(w)) /\ a.command \in Commands
    BY <2>1, ActAsked, AskedIsRequest DEF Asked, RegistryCut
  <2>4. SignedAt(history', n)
    <3>1. PICK k \in Keys : KeysAtCut(a.command, base[w]) = {k} /\ SigningKey[a.command] = k
      BY <2>1, <2>3 DEF Vetted, Signed
    <3>2. /\ k \in KeysOf[a.command] /\ KeyFrom[k] \in base[w] /\ KeyUntil[k] \notin base[w]
      BY <3>1 DEF KeysAtCut
    <3>3. KeyFrom[k] < n
      BY <2>1, <2>2, <3>2 DEF Places
    <3> QED BY <2>1, <2>2, <3>1, <3>2, <3>3 DEF SignedAt
  <2>5. JudgedAt(history', n)
    BY <2>1, <2>2, <2>3, RuleOfEveryName DEF JudgedAt, Vetted, RootJudged
  <2>6. ASSUME NEW i \in 2 .. Len(history)
        PROVE  SignedAt(history', i) /\ JudgedAt(history', i)
    <3>1. history'[i] = history[i]
      BY <2>2
    <3>2. SignedAt(history, i) /\ JudgedAt(history, i)
      BY DEF PlacedInv
    <3> QED BY <3>1, <3>2 DEF SignedAt, JudgedAt
  <2>7. \A i \in 2 .. Len(history') : i = n \/ i \in 2 .. Len(history)
    BY <2>2
  <2> QED BY <2>4, <2>5, <2>6, <2>7 DEF PlacedInv
<1> QED BY <1>1, <1>2

\* Whatever is placed was signed and judged as the cut it lands on demands.
THEOREM PlacedInvariant == ServiceSpec => []PlacedInv
<1>1. ServiceInit => PlacedInv
  BY DEF ServiceInit, Init, HistoryInit, PlacedInv
<1>2. CallsInv /\ PlacedInv /\ [ServiceNext]_allVars => PlacedInv'
  BY CallsStep, PlacedStep
<1> QED BY <1>1, <1>2, CallsInvariant, PTL DEF ServiceSpec

\* No Act is placed on a signature whose key was not born yet or was revoked,
\* however many commits passed between the check of the key and the RPC.
THEOREM LiveKeys == ServiceSpec => []SignedWithLiveKey
<1>1. PlacedInv => SignedWithLiveKey
  BY DEF PlacedInv, SignedAt, SignedWithLiveKey
<1> QED BY <1>1, PlacedInvariant, PTL

\* No Act is placed past a configured Rule, nor by another than the root where
\* root authority judges.
THEOREM EveryRuleHeard == ServiceSpec => []EveryRuleAsked
<1>1. PlacedInv => EveryRuleAsked
  BY DEF PlacedInv, JudgedAt, EveryRuleAsked
<1> QED BY <1>1, PlacedInvariant, PTL
-----------------------------------------------------------------------------
(* What callers are told.                                                   *)

\* An Act returned is the one asked for.
FitsCall(w) ==
  LET a == history[reply[w].place]
  IN  /\ reply[w].place \in Places(history)
      /\ a.command = call[w].ask.command
      /\ SameInputs(reply[w].place, call[w].ask)
      /\ reply[w].kind # "settled" => a = ActOf(Asked(w), base[w])

\* A conflict of cuts is one with a cut that history has outgrown.
Outgrown(w) == base[w] \subseteq Places(history) /\ base[w] # Places(history)

BoughtElse(w) ==
  /\ reply[w].place \in Settled(w) /\ ~SameInputs(reply[w].place, call[w].ask)

Told(w) ==
  /\ Answered(w) => FitsCall(w)
  /\ reply[w].kind = "conflict" => (reply[w].place = 0 /\ Outgrown(w)) \/ BoughtElse(w)

\* A caller without an answer is told nothing.
LEMMA SilentTold ==
  ASSUME NEW w \in Workers, reply[w].kind \notin {"act", "replay", "settled", "conflict"}
  PROVE  Told(w)
BY DEF Told, Answered

\* What was told stays true.
LEMMA ToldFrame ==
  ASSUME TypeOK, Grew, NEW v \in Workers, Told(v),
         call'[v] = call[v], base'[v] = base[v], reply'[v] = reply[v]
  PROVE  Told(v)'
<1>1. /\ Places(history) \subseteq Places(history')
      /\ \A i \in Places(history) : history'[i] = history[i]
  BY GrownHistory
<1>2. FitsCall(v) => FitsCall(v)'
  <2>1. Asked(v)' = Asked(v)
    BY DEF Asked
  <2> QED BY <1>1, <2>1 DEF FitsCall, SameInputs
<1>3. Outgrown(v) => Outgrown(v)'
  BY <1>1 DEF Outgrown
<1>4. BoughtElse(v) => BoughtElse(v)'
  <2>1. Settled(v) \subseteq Places(history)
    BY DEF Settled, ActsFor
  <2>2. Settled(v) \subseteq Settled(v)'
    BY <1>1, <2>1 DEF Settled, ActsFor, Places
  <2> QED BY <1>1, <2>1, <2>2 DEF BoughtElse, SameInputs
<1> QED BY <1>2, <1>3, <1>4 DEF Told, Answered

\* What a step tells its worker's caller is true.
LEMMA WorkerTold ==
  ASSUME CallsInv, AnswersTrue, Grew, NEW w \in Workers, ServiceStep(w), Told(w)
  PROVE  Told(w)'
<1>1. TypeOK /\ ServiceTypeOK /\ Asking(w)
  BY DEF CallsInv
<1>2. ASSUME NEW kind \in {"invalid", "denied", "error"}, Answer(w, kind, 0)
      PROVE  Told(w)'
  <2>1. reply'[w].kind = kind
    BY <1>1, <1>2 DEF Answer, ServiceTypeOK, Reply
  <2> QED BY <2>1 DEF Told, Answered
<1>3. ASSUME UNCHANGED <<call, base, reply>> PROVE Told(w)'
  BY <1>1, <1>3, ToldFrame
<1>4. ASSUME reply'[w] = NoReply PROVE Told(w)'
  BY <1>4 DEF Told, Answered, NoReply, Reply
<1>5. phase[w] # "replied" => reply[w] = NoReply
  BY <1>1 DEF Asking
<1>6. CASE Accept(w)
  <2>1. Answer(w, "invalid", 0) \/ (UNCHANGED reply /\ phase[w] = "ready")
    BY <1>6 DEF Accept, In
  <2> QED BY <2>1, <1>2, <1>4, <1>5
<1>7. CASE ReadHistory(w) \/ FindUnsettled(w) \/ PutPayload(w) \/ EnterGate(w) \/ GateStep(w)
  <2>1. UNCHANGED reply /\ phase[w] # "replied"
    BY <1>7 DEF ReadHistory, FindUnsettled, PutPayload, EnterGate, GateStep, serviceVars, In
  <2> QED BY <2>1, <1>4, <1>5
<1>8. CASE Evaluate(w)
  <2>1. Answer(w, "denied", 0) \/ (UNCHANGED reply /\ phase[w] = "reading")
    BY <1>8 DEF Evaluate, In
  <2> QED BY <2>1, <1>2, <1>4, <1>5
<1>9. CASE RefuseCall(w) \/ RaiseError(w)
  BY <1>9, <1>2 DEF RefuseCall, RaiseError
<1>10. CASE ReplaySettled(w)
  <2>1. PICK i \in Settled(w) :
          IF SameInputs(i, call[w].ask) THEN Answer(w, "settled", i) ELSE Answer(w, "conflict", i)
    BY <1>10 DEF ReplaySettled
  <2>2. i \in Places(history) /\ history[i].command = call[w].ask.command
    BY <2>1 DEF Settled, ActsFor
  <2>3. UNCHANGED <<history, call, base>>
    BY <1>10 DEF ReplaySettled, vars
  <2>4. CASE SameInputs(i, call[w].ask)
    <3>1. reply'[w].kind = "settled" /\ reply'[w].place = i
      BY <1>1, <2>1, <2>4 DEF Answer, ServiceTypeOK, Reply
    <3> QED BY <2>2, <2>3, <2>4, <3>1 DEF Told, Answered, FitsCall, SameInputs
  <2>5. CASE ~SameInputs(i, call[w].ask)
    <3>1. reply'[w].kind = "conflict" /\ reply'[w].place = i
      BY <1>1, <2>1, <2>5 DEF Answer, ServiceTypeOK, Reply
    <3>2. BoughtElse(w)'
      BY <2>1, <2>3, <2>5, <3>1 DEF BoughtElse, Settled, SameInputs
    <3> QED BY <3>1, <3>2 DEF Told, Answered
  <2> QED BY <2>4, <2>5
<1>11. CASE CompareCut(w)
  <2>1. /\ phase[w] = "unsettled" /\ UNCHANGED <<vars, call, base>>
        /\ \/ UNCHANGED reply
           \/ base[w] # Places(history) /\ Answer(w, "conflict", 0)
    BY <1>11 DEF CompareCut, In
  <2>2. base[w] \subseteq Places(history)
    BY <1>1, <2>1 DEF Asking, EvaluatedPhases, Vetted, ClosedCut
  <2>3. CASE base[w] # Places(history) /\ Answer(w, "conflict", 0)
    <3>1. reply'[w].kind = "conflict" /\ reply'[w].place = 0
      BY <1>1, <2>3 DEF Answer, ServiceTypeOK, Reply
    <3>2. Outgrown(w)'
      BY <2>1, <2>2, <2>3 DEF Outgrown, vars, Places
    <3> QED BY <3>1, <3>2 DEF Told, Answered
  <2> QED BY <2>1, <2>3, <1>4, <1>5
<1>12. CASE ReturnAct(w)
  <2>1. /\ phase[w] = "gate" /\ At(w, "answered")
        /\ UNCHANGED <<history, call, base>>
        /\ \E kind \in {"replay", "act"} : Answer(w, kind, answer[w])
    BY <1>12 DEF ReturnAct, Return, Leave, In
  <2>2. /\ answer[w] \in Places(history) /\ history[answer[w]] = ActOf(Asked(w), base[w])
    BY <1>1, <2>1 DEF AnswersTrue, AnswerHoldsProposal, Asking
  <2>3. /\ ActOf(Asked(w), base[w]).command = call[w].ask.command
        /\ ActOf(Asked(w), base[w]).type = call[w].ask.type
        /\ ActOf(Asked(w), base[w]).context = call[w].ask.context
    BY <1>1, <2>1, ActAsked DEF Asking, EvaluatedPhases, Asked
  <2>4. reply'[w].kind \in {"replay", "act"} /\ reply'[w].place = answer[w]
    BY <1>1, <2>1 DEF Answer, ServiceTypeOK, Reply
  <2>5. Asked(w)' = Asked(w)
    BY <2>1 DEF Asked
  <2>6. FitsCall(w)'
    BY <2>1, <2>2, <2>3, <2>4, <2>5 DEF FitsCall, SameInputs
  <2> QED BY <2>4, <2>6 DEF Told
<1>13. CASE Deliver(w) \/ Die(w)
  <2>1. reply'[w] = NoReply
    BY <1>1, <1>13 DEF Deliver, Die, Forget, ServiceTypeOK
  <2> QED BY <2>1, <1>4
<1> QED BY <1>6, <1>7, <1>8, <1>9, <1>10, <1>11, <1>12, <1>13 DEF ServiceStep

\* Every caller is told the truth, and nothing that comes later belies it.
THEOREM CallersTold == ServiceSpec => [](\A w \in Workers : Told(w))
<1> DEFINE AllTold == \A w \in Workers : Told(w)
<1>1. ServiceInit => AllTold
  BY SilentTold DEF ServiceInit, NoReply, Reply
<1>2. CallsInv /\ AnswersTrue /\ AllTold /\ [ServiceNext]_allVars => AllTold'
  <2> SUFFICES ASSUME CallsInv, AnswersTrue, AllTold, [ServiceNext]_allVars,
                      NEW v \in Workers
               PROVE  Told(v)'
    OBVIOUS
  <2>1. TypeOK /\ Grew /\ Told(v)
    BY CallsStep, HistoryGrows DEF CallsInv
  <2>2. CASE UNCHANGED allVars
    BY <2>1, <2>2, ToldFrame DEF allVars, serviceVars
  <2>3. ASSUME NEW w \in Workers, ServiceStep(w) PROVE Told(v)'
    <3>1. CASE v = w
      BY <2>1, <2>3, <3>1, WorkerTold
    <3>2. CASE v # w
      <4>1. call'[v] = call[v] /\ base'[v] = base[v] /\ reply'[v] = reply[v]
        BY <2>3, <3>2, OneWorkerMoves DEF OthersKeep
      <4> QED BY <2>1, <4>1, ToldFrame
    <3> QED BY <3>1, <3>2
  <2> QED BY <2>2, <2>3, StepOfOne
<1>3. ServiceSpec => []AnswersTrue
  BY ServiceRefinesGate, TrueAnswers, PTL
<1> HIDE DEF AllTold
<1>4. ServiceSpec => []AllTold
  BY <1>1, <1>2, <1>3, CallsInvariant, PTL DEF ServiceSpec
<1> QED BY <1>4 DEF AllTold

\* The Act a caller gets is of the Command it signed and of what it asked for.
THEOREM AnswersFit == ServiceSpec => []AnswerFitsCall
<1>1. (\A w \in Workers : Told(w)) => AnswerFitsCall
  BY DEF Told, FitsCall, AnswerFitsCall
<1> QED BY <1>1, CallersTold, PTL

\* No caller is told of a conflict that is not there.
THEOREM TrueConflicts == ServiceSpec => []ConflictsAreReal
<1>1. (\A w \in Workers : Told(w)) => ConflictsAreReal
  BY DEF Told, Outgrown, BoughtElse, ConflictsAreReal
<1> QED BY <1>1, CallersTold, PTL

\* All who asked for one change get the one Act that made it.
THEOREM SameAnswer == ServiceSpec => []OneAnswerPerChange
<1>1. AnswerFitsCall /\ OneConsequence => OneAnswerPerChange
  BY DEF AnswerFitsCall, OneConsequence, OneAnswerPerChange, SameInputs, IsConsequence
<1>2. ServiceSpec => []OneConsequence
  BY ServiceRefinesGate, BoughtOnce, PTL
<1> QED BY <1>1, <1>2, AnswersFit, PTL

-----------------------------------------------------------------------------
(* Why a call the service let through is refused: the service restates the  *)
(* Gate's law and never disagrees with it on what both look at.  The RPC    *)
(* disagrees with them on types given by the hash of their entry.           *)

\* What the service found of a call, as the Gate asks for it.
Worded(w) ==
  LET r == call[w].ask
  IN  /\ Configured # {}
      /\ \A name \in {CommandType[r.command], r.type} \cup ContextKeys[r.context] :
           Registered(name, RegistryCut(w))
      /\ call[w].supplied \/ Object("payload", r.command) \in cas
      /\ verdict[w] \in PermittedOutcomes(r.type)

\* The Command has bought nothing, unless history moved since that was read.
Fresh(w) == base[w] = Places(history) => Settled(w) = {}

\* The alternatives of ErrorsExplained.
Explained(w) ==
  LET r == call[w].ask
  IN  \/ base[w] # Places(history)
      \/ ~(Parents[r.command] \cup r.chain \subseteq Places(history))
      \/ ~ProofFits(history, r.chain, ActOf(r, base[w]))
      \/ {CommandType[r.command], r.type} \cap EntryHashes # {}

Agrees(w) ==
  /\ phase[w] \in EvaluatedPhases => Worded(w)
  /\ phase[w] \in EvaluatedPhases \ {"evaluated"} => Fresh(w)
  /\ phase[w] \in {"stored", "gate"} => Object("payload", call[w].ask.command) \in cas
  /\ phase[w] = "gate" => outcome[w] = verdict[w]
  /\ phase[w] = "gate" /\ stage[w] = "rpc" => Object("context", call[w].ask.context) \in cas
  /\ reply[w].kind = "error" => base[w] \subseteq Places(history) /\ Explained(w)

\* No object leaves the store.
LEMMA ObjectsStay == [Next]_vars => cas \subseteq cas'
BY DEF Next, vars, gateVars, StorePayload, Propose, CallGate, FindOccurrence, CheckOutcome,
       CheckConsequence, ReadChain, CheckProof, CheckCut, CheckReferences, Check, PutCommand,
       PutContext, PutObject, CommitAct, Refuse, Return, Crash, Leave

\* A cut that is all of a history that may have grown was all of it before.
LEMMA GrownPast ==
  ASSUME TypeOK, Grew, NEW cut, cut \subseteq Places(history), cut = Places(history')
  PROVE  history' = history
<1>1. ASSUME NEW a \in Act, history' = Append(history, a) PROVE FALSE
  <2>1. Len(history) + 1 \in Places(history') /\ Len(history) + 1 \notin Places(history)
    BY <1>1 DEF TypeOK, Places
  <2> QED BY <2>1
<1> QED BY <1>1 DEF Grew

\* That a Command bought nothing at the cut is not outdated, but made moot.
LEMMA FreshFrame ==
  ASSUME TypeOK, Grew, NEW v \in Workers, Fresh(v), base[v] \subseteq Places(history),
         call'[v] = call[v], base'[v] = base[v]
  PROVE  Fresh(v)'
BY GrownPast DEF Fresh, Settled

\* Nor is the reason of an error.
LEMMA ExplainedFrame ==
  ASSUME TypeOK, Grew, NEW v \in Workers, Explained(v), base[v] \subseteq Places(history),
         call'[v] = call[v], base'[v] = base[v]
  PROVE  (base[v] \subseteq Places(history) /\ Explained(v))'
<1>1. CASE history' = history
  BY <1>1 DEF Explained
<1>2. CASE history' # history
  BY <1>2, GrownPast, GrownHistory DEF Explained
<1> QED BY <1>1, <1>2

\* What the service found of a call, and of its refusal, stays found.
LEMMA AgreesFrame ==
  ASSUME TypeOK, Grew, cas \subseteq cas', NEW v \in Workers, Asking(v), Agrees(v),
         phase'[v] = phase[v], call'[v] = call[v], base'[v] = base[v],
         verdict'[v] = verdict[v], reply'[v] = reply[v],
         stage'[v] = stage[v], outcome'[v] = outcome[v]
  PROVE  Agrees(v)'
<1>1. phase[v] \in EvaluatedPhases => base[v] \subseteq Places(history)
  BY DEF Asking, Vetted, ClosedCut
<1>2. Worded(v) => Worded(v)'
  BY DEF Worded, RegistryCut
<1>3. phase[v] \in EvaluatedPhases /\ Fresh(v) => Fresh(v)'
  BY <1>1, FreshFrame
<1>4. base[v] \subseteq Places(history) /\ Explained(v) =>
        (base[v] \subseteq Places(history) /\ Explained(v))'
  BY ExplainedFrame
<1>5. /\ phase'[v] \in EvaluatedPhases => Worded(v)'
      /\ phase'[v] \in EvaluatedPhases \ {"evaluated"} => Fresh(v)'
      /\ reply'[v].kind = "error" => (base[v] \subseteq Places(history) /\ Explained(v))'
  BY <1>2, <1>3, <1>4 DEF Agrees
<1>6. /\ phase'[v] \in {"stored", "gate"} => Object("payload", call'[v].ask.command) \in cas'
      /\ phase'[v] = "gate" => outcome'[v] = verdict'[v]
      /\ phase'[v] = "gate" /\ stage'[v] = "rpc" =>
           Object("context", call'[v].ask.context) \in cas'
  BY DEF Agrees
<1> QED BY <1>5, <1>6 DEF Agrees

\* A refusal by the Gate or its store has one of the four reasons.
LEMMA RefusalExplained ==
  ASSUME CallsInv, GateInv, history[1] = GenesisAct, NEW w \in Workers, phase[w] = "gate",
         Agrees(w), Refuse(w)
  PROVE  Explained(w)
<1> DEFINE r == call[w].ask
           p == proposal[w]
<1>1. /\ r \in Request /\ base[w] \in DeclaredCuts /\ call[w] \in Calls /\ Vetted(w)
      /\ p = ActOf(Asked(w), base[w]) /\ WorkerInv(w)
  BY ServiceAssumption DEF CallsInv, Asking, EvaluatedPhases, GateInv, Call
<1>2. /\ p.command = r.command /\ p.type = r.type /\ p.context = r.context
      /\ p.chain = r.chain /\ p.cut = base[w] /\ p.rules = Resolved(RegistryCut(w))
      /\ p.registry = RegistryCut(w)
  <2>1. Asked(w).registry = r.registry /\ Asked(w).chain = r.chain
    BY <1>1, AskedIsRequest DEF Asked
  <2>2. p.registry = RegistryCut(w) /\ p.chain = r.chain
    BY <1>1, <2>1 DEF ActOf, RegistryCut, RegistryOf
  <2> QED BY <1>1, <2>2, ActAsked DEF Asked, RegistryCut
<1> HIDE DEF r, p
<1> SUFFICES ASSUME base[w] = Places(history),
                    Parents[r.command] \cup r.chain \subseteq Places(history),
                    ProofFits(history, r.chain, ActOf(r, base[w])),
                    {CommandType[r.command], r.type} \cap EntryHashes = {}
             PROVE  FALSE
  BY DEF Explained, r
<1>3. OutcomePermitted(w)
  BY <1>2 DEF Agrees, Worded, EvaluatedPhases, OutcomePermitted, p, r
<1>4. IsConsequence(p) => ~HasConsequence(history, p.command)
  BY <1>2 DEF Agrees, EvaluatedPhases, Fresh, Settled, IsConsequence, HasConsequence, p, r
<1>5. CutCurrent(w)
  BY <1>2 DEF CutCurrent, p
<1>6. ProofFits(history, r.chain, p)
  <2>1. ActOf(r, base[w]).type = p.type /\ ActOf(r, base[w]).command = p.command
    BY <1>2 DEF ActOf
  <2> QED BY <2>1, ProofOfType
<1>7. At(w, "proof") => ProofHolds(w)
  <2>1. ASSUME At(w, "proof") PROVE linked[w] = r.chain
    BY <1>1, <1>2, <1>5, <2>1 DEF WorkerInv, ReadsCurrent, At, p
  <2>2. Object("payload", p.command) \in cas
    BY <1>2 DEF Agrees, r
  <2>3. ASSUME NEW j \in r.chain, history[j].type = "AuthorizationReviewed"
        PROVE  Object("payload", history[j].command) \in cas
    <3>1. j \in Places(history) /\ j # 1
      BY <2>3, GenesisAssumption DEF IsConsequence, LifecycleActTypes
    <3>2. j \in 2 .. Len(history)
      BY <3>1 DEF Places, CallsInv
    <3> QED BY <3>2 DEF GateInv, ContentHeld, ObjectsOf
  <2>4. ASSUME At(w, "proof"), NEW c \in ReviewsRead(w) PROVE Object("payload", c) \in cas
    BY <2>1, <2>2, <2>3, <2>4 DEF ReviewsRead, p
  <2> QED BY <1>6, <2>1, <2>4 DEF ProofHolds, p
<1>8. /\ p.rules # {} /\ VocabularyRegistered(history, p)
      /\ Object("payload", p.command) \in cas /\ Parents[p.command] \subseteq Places(history)
  <2>1. Configured # {} /\ Worded(w)
    BY DEF Agrees, EvaluatedPhases, Worded
  <2>2. p.rules # {}
    BY <1>1, <1>2, <2>1, RuleOfEveryName
  <2>3. \A name \in p.rules : Registered(name, p.registry)
    BY <1>2 DEF Resolved, Entry
  <2>4. p.registry \cap Places(history) = p.registry
    BY <1>1, <1>2 DEF Vetted
  <2>5. VocabularyRegistered(history, p)
    BY <1>2, <2>1, <2>3, <2>4 DEF VocabularyRegistered, ActVocabulary, Worded, r
  <2> QED BY <1>2, <2>2, <2>5 DEF Agrees, r
<1>9. ReferencesKnown(w)
  BY <1>8 DEF ReferencesKnown, p
<1>10. At(w, "rpc") => StoreAccepts(p)
  <2>1. ASSUME At(w, "rpc") PROVE Object("context", p.context) \in cas
    BY <1>2, <2>1 DEF Agrees, At, r
  <2>2. ReferencesExist(p)
    BY <1>1, <1>2 DEF ReferencesExist, Vetted
  <2>3. TypesNamed(p) /\ ActVocabularyRegistered(history, p)
    BY <1>2, <1>8 DEF VocabularyRegistered, ActVocabularyRegistered, TypesNamed
  <2>4. p.command \in Identified
    <3>1. r.command \in Commands /\ KeysOf[r.command] # {}
      BY <1>1 DEF Vetted, Signed, KeysAtCut, Request, r
    <3> QED BY <1>2, <3>1, ServiceAssumption
  <2> QED BY <1>2, <1>4, <1>8, <2>1, <2>2, <2>3, <2>4 DEF StoreAccepts, Insertable
<1> QED BY <1>3, <1>4, <1>5, <1>7, <1>9, <1>10 DEF Refuse, NotYetBought, p

\* Each step leaves the service and the Gate in agreement on its worker's call.
LEMMA WorkerAgrees ==
  ASSUME CallsInv, GateInv, history[1] = GenesisAct, Grew, cas \subseteq cas',
         NEW w \in Workers, ServiceStep(w), Agrees(w)
  PROVE  Agrees(w)'
<1>1. /\ TypeOK /\ ServiceTypeOK /\ Asking(w) /\ Holds(w)
      /\ phase[w] # "replied" => reply[w].kind # "error"
  BY TypesByWorker DEF CallsInv, Asking, NoReply, Reply
<1>2. ASSUME NEW kind \in Replies \ {"error"}, NEW place \in Nat, Answer(w, kind, place)
      PROVE  Agrees(w)'
  <2>1. kind \in Replies
    OBVIOUS
  <2>2. phase'[w] = "replied" /\ reply'[w] = Reply(kind, place)
    BY <1>1, <1>2, <2>1, AnswerTypes
  <2> QED BY <2>2 DEF Agrees, EvaluatedPhases, Reply
<1>3. ASSUME phase'[w] \in {"ready", "called", "reading"}, reply'[w].kind # "error"
      PROVE  Agrees(w)'
  BY <1>3 DEF Agrees, EvaluatedPhases
<1>4. CASE Accept(w)
  <2>1. \/ Answer(w, "invalid", 0)
        \/ phase'[w] = "called" /\ UNCHANGED reply /\ phase[w] = "ready"
    BY <1>1, <1>4 DEF Accept, GoOn, ServiceTypeOK, In
  <2> QED BY <1>1, <1>2, <1>3, <2>1 DEF Replies
<1>5. CASE ReadHistory(w)
  <2>1. phase'[w] = "reading" /\ UNCHANGED reply /\ phase[w] = "called"
    BY <1>1, <1>5 DEF ReadHistory, GoOn, ServiceTypeOK, In
  <2> QED BY <1>1, <1>3, <2>1
<1>6. CASE Evaluate(w)
  <2>1. /\ WellFounded(w) /\ UNCHANGED <<vars, call, base>> /\ phase[w] = "reading"
        /\ \/ Answer(w, "denied", 0)
           \/ /\ phase'[w] = "evaluated" /\ UNCHANGED reply
              /\ verdict'[w] \in PermittedOutcomes(call[w].ask.type)
    <3>1. PICK result \in [Resolved(RegistryCut(w)) -> Outcomes] :
            LET decided == Authorize({result[r] : r \in DOMAIN result})
            IN  /\ verdict' = [verdict EXCEPT ![w] = decided]
                /\ IF decided \in PermittedOutcomes(call[w].ask.type)
                     THEN GoOn(w, "evaluated") /\ UNCHANGED reply
                     ELSE Answer(w, "denied", 0)
      BY <1>6 DEF Evaluate
    <3>2. \E decided : /\ verdict' = [verdict EXCEPT ![w] = decided]
                       /\ \/ Answer(w, "denied", 0)
                          \/ /\ decided \in PermittedOutcomes(call[w].ask.type)
                             /\ GoOn(w, "evaluated") /\ UNCHANGED reply
      BY <3>1
    <3> QED BY <1>1, <1>6, <3>2 DEF Evaluate, GoOn, ServiceTypeOK, In
  <2>2. CASE phase'[w] = "evaluated" /\ UNCHANGED reply
             /\ verdict'[w] \in PermittedOutcomes(call[w].ask.type)
    <3>1. Worded(w)'
      BY <2>1, <2>2 DEF Worded, WellFounded, RegistryCut, vars, gateVars
    <3> QED BY <1>1, <2>1, <2>2, <3>1 DEF Agrees, EvaluatedPhases
  <2> QED BY <1>2, <2>1, <2>2 DEF Replies
<1>7. CASE RefuseCall(w)
  BY <1>2, <1>7 DEF RefuseCall, Replies
<1>8. CASE ReplaySettled(w)
  <2>1. PICK i \in Settled(w) : Answer(w, "settled", i) \/ Answer(w, "conflict", i)
    BY <1>8 DEF ReplaySettled
  <2>2. i \in Nat
    BY <2>1 DEF Settled, ActsFor, Places
  <2> QED BY <1>2, <2>1, <2>2 DEF Replies
<1>9. ASSUME UNCHANGED <<call, base, verdict>>, phase[w] \in EvaluatedPhases
      PROVE  /\ Worded(w) /\ Worded(w)'
             /\ Fresh(w) => Fresh(w)'
  <2>1. base[w] \subseteq Places(history)
    BY <1>1, <1>9 DEF Asking, Vetted, ClosedCut
  <2> QED BY <1>1, <1>9, <2>1, FreshFrame DEF Agrees, Worded, RegistryCut
<1>10. CASE FindUnsettled(w)
  <2>1. /\ phase[w] = "evaluated" /\ phase'[w] = "unsettled" /\ Fresh(w)
        /\ UNCHANGED <<call, base, verdict, reply>>
    BY <1>1, <1>10 DEF FindUnsettled, GoOn, ServiceTypeOK, In, Fresh
  <2> QED BY <1>1, <1>9, <2>1 DEF Agrees, EvaluatedPhases
<1>11. CASE CompareCut(w)
  <2>1. /\ phase[w] = "unsettled" /\ UNCHANGED <<call, base, verdict>>
        /\ \/ phase'[w] = "compared" /\ UNCHANGED reply
           \/ Answer(w, "conflict", 0)
    BY <1>1, <1>11 DEF CompareCut, GoOn, ServiceTypeOK, In
  <2>2. CASE phase'[w] = "compared" /\ UNCHANGED reply
    BY <1>1, <1>9, <2>1, <2>2 DEF Agrees, EvaluatedPhases
  <2> QED BY <1>2, <2>1, <2>2 DEF Replies
<1>12. CASE PutPayload(w)
  <2>1. /\ phase[w] = "compared" /\ phase'[w] = "stored"
        /\ UNCHANGED <<call, base, verdict, reply>>
        /\ call[w].supplied => Object("payload", call[w].ask.command) \in cas'
    BY <1>1, <1>12 DEF PutPayload, GoOn, ServiceTypeOK, In
  <2>2. Object("payload", call[w].ask.command) \in cas'
    BY <1>9, <2>1 DEF Worded, EvaluatedPhases
  <2> QED BY <1>1, <1>9, <2>1, <2>2 DEF Agrees, EvaluatedPhases
<1>13. CASE EnterGate(w)
  <2>1. /\ phase[w] = "stored" /\ phase'[w] = "gate" /\ stage'[w] = "lookup"
        /\ outcome'[w] = verdict[w] /\ UNCHANGED <<call, base, verdict, reply>>
    BY <1>1, <1>13 DEF EnterGate, GoOn, Goto, ServiceTypeOK, TypeOK, In
  <2> QED BY <1>1, <1>9, <2>1 DEF Agrees, EvaluatedPhases
<1>14. CASE GateStep(w)
  <2>1. /\ phase[w] = "gate" /\ UNCHANGED <<phase, call, base, verdict, reply>>
        /\ outcome' = outcome
    BY <1>1, <1>14, InsideGate DEF GateStep, serviceVars, In
  <2>2. stage'[w] = "rpc" => Object("context", proposal[w].context) \in cas'
    BY <1>1, <1>14 DEF GateStep, FindOccurrence, CheckOutcome, CheckConsequence, ReadChain,
         CheckProof, CheckCut, CheckReferences, Check, PutCommand, PutContext, PutObject,
         CommitAct, Goto, TypeOK
  <2>3. proposal[w].context = call[w].ask.context
    BY <1>1, <2>1, ActAsked DEF Asking, EvaluatedPhases, Asked
  <2> QED BY <1>1, <1>9, <2>1, <2>2, <2>3 DEF Agrees, EvaluatedPhases
<1>15. CASE ReturnAct(w)
  <2>1. /\ \E kind \in {"replay", "act"} : Answer(w, kind, answer[w])
        /\ answer[w] \in Nat
    BY <1>1, <1>15 DEF ReturnAct, TypeOK
  <2> QED BY <1>2, <2>1 DEF Replies
<1>16. CASE RaiseError(w)
  <2>1. /\ Refuse(w) /\ phase[w] = "gate" /\ Answer(w, "error", 0)
        /\ UNCHANGED <<history, call, base>>
    BY <1>16 DEF RaiseError, Refuse, Leave, In
  <2>2. Explained(w) /\ base[w] \subseteq Places(history)
    BY <1>1, <2>1, RefusalExplained DEF Asking, EvaluatedPhases, Vetted, ClosedCut
  <2>3. phase'[w] = "replied"
    BY <1>1, <2>1 DEF Answer, GoOn, ServiceTypeOK
  <2> QED BY <2>1, <2>2, <2>3 DEF Agrees, EvaluatedPhases, Explained
<1>17. CASE Deliver(w) \/ Die(w)
  <2>1. phase'[w] = "ready" /\ reply'[w] = NoReply
    BY <1>1, <1>17 DEF Deliver, Die, Forget, GoOn, ServiceTypeOK
  <2> QED BY <1>3, <2>1 DEF NoReply, Reply
<1> QED BY <1>4, <1>5, <1>6, <1>7, <1>8, <1>10, <1>11, <1>12, <1>13, <1>14, <1>15, <1>16, <1>17
        DEF ServiceStep

AgreementInv == history[1] = GenesisAct /\ \A w \in Workers : Agrees(w)

\* The service and the Gate agree, whatever other workers commit meanwhile.
LEMMA AgreementStep ==
  ASSUME CallsInv, GateInv, AgreementInv, [ServiceNext]_allVars
  PROVE  AgreementInv'
<1>1. /\ TypeOK /\ Grew /\ cas \subseteq cas'
      /\ \A w \in Workers : Asking(w) /\ Agrees(w)
  BY CallsStep, HistoryGrows, ObjectsStay DEF CallsInv, AgreementInv
<1>2. history'[1] = GenesisAct
  <2>1. 1 \in Places(history)
    BY DEF CallsInv, Places
  <2> QED BY <1>1, <2>1, GrownHistory DEF AgreementInv
<1>3. CASE UNCHANGED allVars
  BY <1>1, <1>2, <1>3, AgreesFrame DEF AgreementInv, allVars, vars, gateVars, serviceVars
<1>4. ASSUME NEW w \in Workers, ServiceStep(w) PROVE AgreementInv'
  <2>1. Agrees(w)'
    BY <1>1, <1>4, WorkerAgrees DEF AgreementInv
  <2>2. ASSUME NEW v \in Workers, v # w PROVE Agrees(v)'
    <3>1. OthersKeep(w)
      BY <1>4, OneWorkerMoves
    <3> QED BY <1>1, <2>2, <3>1, AgreesFrame DEF OthersKeep
  <2> QED BY <1>2, <2>1, <2>2 DEF AgreementInv
<1> QED BY <1>3, <1>4, StepOfOne

\* What the service let through is refused further down only because history
\* moved, for the parents, the links and the proof, which the service does not
\* look at, or for a type given by its hash, which the RPC alone does not take.
THEOREM RefusalsExplained == ServiceSpec => []ErrorsExplained
<1>1. ServiceInit => AgreementInv
  BY DEF ServiceInit, Init, HistoryInit, AgreementInv, Agrees, EvaluatedPhases, NoReply, Reply
<1>2. CallsInv /\ GateInv /\ AgreementInv /\ [ServiceNext]_allVars => AgreementInv'
  BY AgreementStep
<1>3. ServiceSpec => []GateInv
  BY ServiceRefinesGate, GateInvariant, PTL
<1>4. AgreementInv => ErrorsExplained
  BY DEF AgreementInv, Agrees, Explained, ErrorsExplained
<1> QED BY <1>1, <1>2, <1>3, <1>4, CallsInvariant, PTL DEF ServiceSpec
=============================================================================
