-------------------------- MODULE CommitGateProofs --------------------------
(***************************************************************************)
(* CommitGate implements History, for every set of workers, requests and   *)
(* declared cuts: the Gate's checks, made in transactions of their own and *)
(* long before the RPC, hold of the history the Act lands on.              *)
(***************************************************************************)
EXTENDS CommitGate, HistoryProofs

WorkerInv(w) ==
  /\ CutKnown(w)
  /\ EvidenceKept(w)
  /\ ReadsCurrent(w)
  /\ CommandKept(w)
  /\ VocabularyKept(w)
  /\ AnswerHoldsProposal(w)

GateInv ==
  /\ TypeOK
  /\ ContentHeld
  /\ \A w \in Workers : WorkerInv(w)

-----------------------------------------------------------------------------
(* Type correctness.                                                        *)

\* What a request asks for, at any declared cut, is an Act.
LEMMA ActOfType ==
  ASSUME NEW r \in Requests, NEW cut \in DeclaredCuts
  PROVE  ActOf(r, cut) \in Act
<1>1. r \in Request /\ cut \in SUBSET Nat
  BY GateAssumption
<1> QED
  BY <1>1 DEF ActOf, Act, Request

\* A longer history is a history.
LEMMA AppendType ==
  ASSUME NEW S, NEW s \in Seq(S), NEW e \in S
  PROVE  Append(s, e) \in Seq(S)
OBVIOUS

\* A worker that leaves commit() is as it was at first.
LEMMA LeaveType ==
  ASSUME TypeOK, NEW w \in Workers, Leave(w)
  PROVE  TypeOK'
BY GateAssumption DEF TypeOK, Leave, Goto, Stages, Outcomes

\* Nor does a call, at whatever cut its Decision was made.
LEMMA CallType ==
  ASSUME TypeOK, NEW w \in Workers, NEW cut \in DeclaredCuts, CallGate(w, cut)
  PROVE  TypeOK'
<1>1. PICK r \in Requests, o \in Outcomes :
        /\ proposal' = [proposal EXCEPT ![w] = ActOf(r, cut)]
        /\ outcome' = [outcome EXCEPT ![w] = o]
        /\ Goto(w, "lookup")
        /\ UNCHANGED <<history, cas, linked, answer>>
  BY DEF CallGate
<1>2. ActOf(r, cut) \in Act /\ ActOf(r, cut) # NoAct
  BY ActOfType, GateAssumption
<1> QED
  BY <1>1, <1>2 DEF TypeOK, Goto, Stages

\* No step of any action leaves the types.
LEMMA TypeStep == TypeOK /\ [Next]_vars => TypeOK'
<1> SUFFICES ASSUME TypeOK, [Next]_vars PROVE TypeOK'
  OBVIOUS
<1> USE DEF TypeOK
<1>1. ASSUME NEW r \in Requests, StorePayload(r) PROVE TypeOK'
  <2>1. r.command \in Commands
    BY GateAssumption DEF Request
  <2> QED
    BY <1>1, <2>1 DEF StorePayload, Objects, Object
<1>2. ASSUME NEW w \in Workers, Propose(w) PROVE TypeOK'
  BY <1>2, CallType DEF Propose
<1>3. ASSUME NEW w \in Workers, FindOccurrence(w) PROVE TypeOK'
  <2>1. Present(w) \subseteq Nat
    BY DEF Present, Places
  <2> QED
    BY <1>3, <2>1 DEF FindOccurrence, Goto, At, Stages
<1>4. ASSUME NEW w \in Workers, NEW from, NEW to, from # "idle", to # "idle",
             to \in Stages, NEW holds, Check(w, from, holds, to)
      PROVE  TypeOK'
  BY <1>4 DEF Check, Goto, At
<1>5. ASSUME NEW w \in Workers,
             CheckOutcome(w) \/ CheckConsequence(w) \/ CheckProof(w)
               \/ CheckCut(w) \/ CheckReferences(w)
      PROVE  TypeOK'
  BY <1>4, <1>5 DEF CheckOutcome, CheckConsequence, CheckProof, CheckCut,
                    CheckReferences, Stages
<1>6. ASSUME NEW w \in Workers, ReadChain(w) PROVE TypeOK'
  <2>1. proposal[w].chain \cap Places(history) \subseteq Nat
    BY DEF Places
  <2> QED
    BY <1>6, <2>1 DEF ReadChain, Goto, At, Stages
<1>7. ASSUME NEW w \in Workers, PutCommand(w) \/ PutContext(w) PROVE TypeOK'
  <2>1. proposal[w] \in Act
    BY <1>7 DEF PutCommand, PutContext, PutObject, At
  <2>2. proposal[w].command \in Commands /\ proposal[w].context \in Contexts
    BY <2>1 DEF Act
  <2>3. {Object("command", proposal[w].command), Object("context", proposal[w].context)}
          \subseteq Objects
    BY <2>2 DEF Objects, Object
  <2>4. cas' \subseteq Objects
    BY <1>7, <2>3 DEF PutCommand, PutContext, PutObject
  <2> QED
    BY <1>7, <2>4 DEF PutCommand, PutContext, PutObject, Goto, At, Stages
<1>8. ASSUME NEW w \in Workers, CommitAct(w) PROVE TypeOK'
  <2>1. Present(w) \subseteq Nat
    BY DEF Present, Places
  <2>2. proposal[w] \in Act
    BY <1>8 DEF CommitAct, At
  <2>3. Len(history) + 1 \in Nat
    OBVIOUS
  <2>4. answer' \in [Workers -> Nat]
    <3>1. \/ \E i \in Present(w) : answer' = [answer EXCEPT ![w] = i]
          \/ answer' = [answer EXCEPT ![w] = Len(history) + 1]
      BY <1>8 DEF CommitAct
    <3> QED
      BY <3>1, <2>1, <2>3
  <2>5. history' \in Seq(Act)
    <3>1. history' = history \/ history' = Append(history, proposal[w])
      BY <1>8 DEF CommitAct
    <3>2. history \in Seq(Act)
      OBVIOUS
    <3>3. Append(history, proposal[w]) \in Seq(Act)
      BY <3>2, <2>2, AppendType
    <3> QED
      BY <3>1, <3>2, <3>3
  <2> QED
    BY <1>8, <2>4, <2>5 DEF CommitAct, Goto, At, Stages
<1>9. ASSUME NEW w \in Workers, Refuse(w) \/ Return(w) \/ Crash(w) PROVE TypeOK'
  BY <1>9, LeaveType DEF Refuse, Return, Crash
<1>10. CASE UNCHANGED vars
  BY <1>10 DEF vars, gateVars
<1> QED
  BY <1>1, <1>2, <1>3, <1>5, <1>6, <1>7, <1>8, <1>9, <1>10 DEF Next

\* Every variable keeps its type, for all constants.
THEOREM TypeCorrect == Spec => []TypeOK
<1>1. Init => TypeOK
  BY GateAssumption, GenesisAssumption DEF Init, HistoryInit, TypeOK, Stages, Outcomes
<1> QED
  BY <1>1, TypeStep, PTL DEF Spec
-----------------------------------------------------------------------------
(* What a worker read stays usable.                                         *)

\* A worker that takes no part in a step that leaves history alone.
LEMMA FrameQuiet ==
  ASSUME TypeOK, NEW v \in Workers, WorkerInv(v),
         history' = history, cas \subseteq cas',
         stage'[v] = stage[v], proposal'[v] = proposal[v],
         outcome'[v] = outcome[v], linked'[v] = linked[v], answer'[v] = answer[v]
  PROVE  WorkerInv(v)'
BY DEF WorkerInv, CutKnown, EvidenceKept, ReadsCurrent, CommandKept, VocabularyKept,
       AnswerHoldsProposal, CutCurrent, OutcomePermitted, At

\* A worker that takes no part in a commit: its cut is no longer the history.
LEMMA FrameCommit ==
  ASSUME TypeOK, NEW v \in Workers, WorkerInv(v),
         NEW a \in Act, history' = Append(history, a), cas' = cas,
         stage'[v] = stage[v], proposal'[v] = proposal[v],
         outcome'[v] = outcome[v], linked'[v] = linked[v], answer'[v] = answer[v]
  PROVE  WorkerInv(v)'
<1>1. /\ Places(history') = Places(history) \cup {Len(history) + 1}
      /\ Len(history) + 1 \notin Places(history)
      /\ \A i \in Places(history) : history'[i] = history[i]
  BY DEF TypeOK, Places
<1>2. CutKnown(v)'
  BY <1>1 DEF WorkerInv, CutKnown, At
<1>3. stage[v] # "idle" => ~CutCurrent(v)'
  BY <1>1 DEF WorkerInv, CutKnown, CutCurrent, At
<1>4. ReadsCurrent(v)'
  BY <1>3 DEF ReadsCurrent, Proved
<1>5. EvidenceKept(v)' /\ CommandKept(v)'
  BY DEF WorkerInv, EvidenceKept, CommandKept, OutcomePermitted
<1>6. VocabularyKept(v)'
  BY <1>1 DEF WorkerInv, VocabularyKept, VocabularyRegistered, Registered
<1>7. AnswerHoldsProposal(v)'
  BY <1>1 DEF WorkerInv, AnswerHoldsProposal, At
<1> QED
  BY <1>2, <1>4, <1>5, <1>6, <1>7 DEF WorkerInv

\* A worker that is back to idle owes nothing.
LEMMA IdleInv ==
  ASSUME NEW w \in Workers, stage'[w] = "idle"
  PROVE  WorkerInv(w)'
BY DEF WorkerInv, CutKnown, EvidenceKept, ReadsCurrent, CommandKept, VocabularyKept,
       AnswerHoldsProposal, At, Judged, Proved

\* Apart from its type and its Command, an Act has no part in the proof it owes.
LEMMA ProofOfType ==
  ASSUME NEW h, NEW linked0, NEW a, NEW b, a.type = b.type, a.command = b.command
  PROVE  ProofFits(h, linked0, a) <=> ProofFits(h, linked0, b)
BY DEF ProofFits, ReviewFits, ResolutionFits, IsConsequence

\* An Act the store accepts from a worker is admissible: the one place where
\* the proof checked earlier and the cut compared now come together.
LEMMA AcceptedIsAdmissible ==
  ASSUME TypeOK, NEW w \in Workers, WorkerInv(w), At(w, "rpc"), StoreAccepts(proposal[w])
  PROVE  Admissible(history, proposal[w])
<1>1. CutCurrent(w)
  BY DEF StoreAccepts, CutCurrent
<1>2. ProofFits(history, proposal[w].chain \cap Places(history), proposal[w])
  BY <1>1 DEF WorkerInv, ReadsCurrent, Proved, At
<1>3. VocabularyRegistered(history, proposal[w])
  BY DEF WorkerInv, VocabularyKept, At
<1>4. Lawful(history, proposal[w])
  BY <1>2, <1>3 DEF StoreAccepts, Insertable, ReferencesExist, Lawful
<1>5. Resolvable(history, proposal[w])
  BY DEF StoreAccepts, Insertable, ReferencesExist, Resolvable
<1> QED
  BY <1>4, <1>5 DEF Admissible

\* Placing an Act whose objects are held keeps every placed Act readable.
LEMMA ContentStep ==
  ASSUME TypeOK, ContentHeld, NEW a \in Act, history' = Append(history, a), cas' = cas,
         ObjectsOf(a) \subseteq cas
  PROVE  ContentHeld'
<1>1. /\ Len(history') = Len(history) + 1
      /\ history'[Len(history) + 1] = a
      /\ \A i \in 1 .. Len(history) : history'[i] = history[i]
  BY DEF TypeOK
<1>2. Len(history) \in Nat
  BY DEF TypeOK
<1>3. \A i \in 2 .. Len(history') : i = Len(history) + 1 \/ i \in 2 .. Len(history)
  BY <1>1, <1>2
<1>4. \A i \in 2 .. Len(history) : ObjectsOf(history'[i]) \subseteq cas
  BY <1>1, <1>2 DEF ContentHeld
<1> QED
  BY <1>1, <1>3, <1>4 DEF ContentHeld

\* Steps that leave history alone and drop no object.
LEMMA ContentQuiet ==
  ASSUME ContentHeld, history' = history, cas \subseteq cas'
  PROVE  ContentHeld'
BY DEF ContentHeld

\* The invariant survives a step of worker w, which disturbs w alone, if
\* history stays as it is.
LEMMA QuietStep ==
  ASSUME GateInv, TypeOK', NEW w \in Workers, history' = history, cas \subseteq cas',
         \A v \in Workers \ {w} :
           /\ stage'[v] = stage[v] /\ proposal'[v] = proposal[v]
           /\ outcome'[v] = outcome[v] /\ linked'[v] = linked[v]
           /\ answer'[v] = answer[v],
         WorkerInv(w)'
  PROVE  GateInv'
<1>1. ContentHeld'
  BY ContentQuiet DEF GateInv
<1>2. ASSUME NEW v \in Workers, v # w PROVE WorkerInv(v)'
  BY <1>2, FrameQuiet DEF GateInv
<1> QED
  BY <1>1, <1>2 DEF GateInv

\* A commit that adds an Act: the other workers' reads are outdated, not false.
LEMMA AppendStep ==
  ASSUME GateInv, TypeOK', NEW w \in Workers, At(w, "rpc"), StoreAccepts(proposal[w]),
         history' = Append(history, proposal[w]),
         answer' = [answer EXCEPT ![w] = Len(history) + 1],
         Goto(w, "answered"), UNCHANGED <<cas, proposal, outcome, linked>>
  PROVE  GateInv'
<1> USE DEF At
<1>1. proposal[w] \in Act /\ WorkerInv(w) /\ TypeOK /\ ContentHeld
  BY DEF GateInv, TypeOK
<1>2. ObjectsOf(proposal[w]) \subseteq cas
  BY <1>1 DEF WorkerInv, CommandKept, StoreAccepts, Insertable, ObjectsOf
<1>3. ContentHeld'
  BY <1>1, <1>2, ContentStep
<1>4. ASSUME NEW v \in Workers, v # w PROVE WorkerInv(v)'
  <2>1. stage'[v] = stage[v] /\ answer'[v] = answer[v]
    BY <1>1, <1>4 DEF TypeOK, Goto
  <2> QED
    BY <2>1, <1>1, FrameCommit DEF GateInv
<1>5. WorkerInv(w)'
  <2>1. stage'[w] = "answered" /\ answer'[w] = Len(history) + 1
    BY <1>1 DEF TypeOK, Goto
  <2>2. /\ Places(history) \subseteq Places(history')
        /\ Len(history) + 1 \in Places(history')
        /\ history'[Len(history) + 1] = proposal[w]
    BY <1>1 DEF TypeOK, Places
  <2>3. AnswerHoldsProposal(w)'
    BY <2>1, <2>2 DEF AnswerHoldsProposal
  <2>4. CutKnown(w)'
    BY <2>2, <1>1 DEF WorkerInv, CutKnown
  <2> QED
    BY <2>1, <2>3, <2>4 DEF WorkerInv, EvidenceKept, ReadsCurrent, CommandKept, VocabularyKept, Judged, Proved
<1> QED
  BY <1>3, <1>4, <1>5 DEF GateInv

\* Every step of every worker keeps the invariant.
LEMMA GateInvStep == GateInv /\ [Next]_vars => GateInv'
<1> SUFFICES ASSUME GateInv, [Next]_vars PROVE GateInv'
  OBVIOUS
<1>1. TypeOK /\ TypeOK'
  BY TypeStep DEF GateInv
<1>2. \A w \in Workers : WorkerInv(w)
  BY DEF GateInv
<1>3. ASSUME NEW r \in Requests, StorePayload(r) PROVE GateInv'
  <2>1. history' = history /\ cas \subseteq cas'
    BY <1>3 DEF StorePayload
  <2>2. ASSUME NEW v \in Workers PROVE WorkerInv(v)'
    BY <1>1, <1>2, <1>3, <2>1, FrameQuiet DEF StorePayload
  <2> QED
    BY <1>1, <2>1, <2>2, ContentQuiet DEF GateInv
<1>4. ASSUME NEW w \in Workers, Propose(w) PROVE GateInv'
  <2>1. PICK r \in Requests, cut \in DeclaredCuts, o \in Outcomes :
          /\ KnownCut(cut)
          /\ proposal' = [proposal EXCEPT ![w] = ActOf(r, cut)]
          /\ outcome' = [outcome EXCEPT ![w] = o]
          /\ Goto(w, "lookup")
          /\ UNCHANGED <<history, cas, linked, answer>>
    BY <1>4 DEF Propose, CallGate
  <2>2. stage'[w] = "lookup" /\ proposal'[w] = ActOf(r, cut)
    BY <1>1, <2>1 DEF TypeOK, Goto
  <2>3. ActOf(r, cut).cut = cut /\ cut \subseteq Places(history)
    BY <2>1 DEF ActOf, KnownCut
  <2>4. CutKnown(w)'
    BY <2>1, <2>2, <2>3 DEF CutKnown, Places
  <2>5. WorkerInv(w)'
    BY <2>2, <2>4 DEF WorkerInv, EvidenceKept, ReadsCurrent, CommandKept, VocabularyKept,
                      AnswerHoldsProposal, At, Judged, Proved
  <2> QED
    BY <1>1, <2>1, <2>5, QuietStep DEF TypeOK, Goto
<1>5. ASSUME NEW w \in Workers, NEW i \in Present(w), stage[w] # "idle",
             answer' = [answer EXCEPT ![w] = i], Goto(w, "answered"),
             UNCHANGED <<history, cas, proposal, outcome, linked>>
      PROVE  GateInv'
  <2>1. stage'[w] = "answered" /\ answer'[w] = i
    BY <1>1, <1>5 DEF TypeOK, Goto, Present, Places
  <2>2. AnswerHoldsProposal(w)'
    BY <1>5, <2>1 DEF AnswerHoldsProposal, Present
  <2>3. CutKnown(w)'
    BY <1>2, <1>5 DEF WorkerInv, CutKnown, At
  <2>4. WorkerInv(w)'
    BY <2>1, <2>2, <2>3 DEF WorkerInv, EvidenceKept, ReadsCurrent, CommandKept, VocabularyKept, Judged, Proved
  <2> QED
    BY <1>1, <1>5, <2>4, QuietStep DEF TypeOK, Goto
<1>6. ASSUME NEW w \in Workers, FindOccurrence(w) PROVE GateInv'
  BY <1>5, <1>6 DEF FindOccurrence, At
<1>7. ASSUME NEW w \in Workers,
             CheckOutcome(w) \/ CheckConsequence(w) \/ CheckProof(w)
               \/ CheckCut(w) \/ CheckReferences(w)
      PROVE  GateInv'
  <2>1. PICK from \in Stages, to \in Stages : Check(w, from, TRUE, to)
    BY <1>7 DEF CheckOutcome, CheckConsequence, CheckProof, CheckCut,
                CheckReferences, Check, Stages
  <2>2. /\ UNCHANGED <<history, cas, proposal, outcome, linked, answer>>
        /\ stage' = [stage EXCEPT ![w] = to] /\ stage'[w] = to
    BY <1>1, <2>1 DEF Check, Goto, TypeOK
  <2>3. stage[w] # "idle" /\ to \notin {"putContext", "rpc", "answered"}
    BY <1>1, <1>7, <2>2 DEF CheckOutcome, CheckConsequence, CheckProof, CheckCut,
                      CheckReferences, Check, Goto, At, TypeOK
  <2>4. CutKnown(w)'
    BY <1>2, <2>2, <2>3 DEF WorkerInv, CutKnown, At
  <2>5. EvidenceKept(w)'
    BY <1>1, <1>2, <1>7, <2>2 DEF WorkerInv, EvidenceKept, OutcomePermitted, CheckOutcome,
      CheckConsequence, CheckProof, CheckCut, CheckReferences, Check, At, Judged, Proved
  <2>6. ReadsCurrent(w)'
    <3>1. CASE CheckProof(w)
      BY <3>1, <1>2, <2>2 DEF CheckProof, Check, ProofHolds, WorkerInv, ReadsCurrent,
                                CutCurrent, At
    <3>2. CASE CheckOutcome(w) \/ CheckConsequence(w)
      BY <3>2, <1>1, <2>2 DEF CheckOutcome, CheckConsequence, Check, Goto, TypeOK,
                              ReadsCurrent, Proved
    <3>3. CASE CheckCut(w) \/ CheckReferences(w)
      BY <3>3, <1>2, <2>2 DEF CheckCut, CheckReferences, Check, WorkerInv, ReadsCurrent,
                              CutCurrent, At, Proved
    <3> QED
      BY <1>7, <3>1, <3>2, <3>3
  <2>7. VocabularyKept(w)'
    BY <1>1, <1>7, <2>2 DEF CheckOutcome, CheckConsequence, CheckProof, CheckCut,
      CheckReferences, Check, Goto, TypeOK, ReferencesKnown, VocabularyKept
  <2>8. WorkerInv(w)'
    BY <2>2, <2>3, <2>4, <2>5, <2>6, <2>7 DEF WorkerInv, CommandKept, AnswerHoldsProposal, At
  <2> QED
    BY <1>1, <2>2, <2>8, QuietStep DEF TypeOK
<1>8. ASSUME NEW w \in Workers, ReadChain(w) PROVE GateInv'
  <2>1. /\ stage[w] = "chain" /\ stage'[w] = "proof"
        /\ linked'[w] = proposal[w].chain \cap Places(history)
        /\ UNCHANGED <<history, cas, proposal, outcome, answer>>
    BY <1>1, <1>8 DEF ReadChain, Goto, At, TypeOK
  <2>2. CutKnown(w)' /\ EvidenceKept(w)'
    BY <1>2, <2>1 DEF WorkerInv, CutKnown, EvidenceKept, OutcomePermitted, At, Judged
  <2>3. ReadsCurrent(w)'
    BY <2>1 DEF ReadsCurrent, Proved
  <2>4. WorkerInv(w)'
    BY <2>1, <2>2, <2>3 DEF WorkerInv, CommandKept, VocabularyKept, AnswerHoldsProposal, At
  <2> QED
    BY <1>1, <1>8, <2>4, QuietStep DEF ReadChain, Goto, TypeOK
<1>9. ASSUME NEW w \in Workers, PutCommand(w) \/ PutContext(w) PROVE GateInv'
  <2>1. /\ \/ stage[w] = "putCommand" /\ stage'[w] = "putContext"
              /\ Object("command", proposal[w].command) \in cas'
           \/ stage[w] = "putContext" /\ stage'[w] = "rpc"
        /\ cas \subseteq cas'
        /\ UNCHANGED <<history, proposal, outcome, linked, answer>>
    BY <1>1, <1>9 DEF PutCommand, PutContext, PutObject, Goto, At, TypeOK
  <2>2. CutKnown(w)' /\ EvidenceKept(w)'
    BY <1>2, <2>1 DEF WorkerInv, CutKnown, EvidenceKept, OutcomePermitted, At, Judged, Proved
  <2>3. ReadsCurrent(w)'
    BY <1>2, <2>1 DEF WorkerInv, ReadsCurrent, CutCurrent, Proved
  <2>4. CommandKept(w)' /\ VocabularyKept(w)'
    BY <1>2, <2>1 DEF WorkerInv, CommandKept, VocabularyKept, Object
  <2>5. WorkerInv(w)'
    BY <2>1, <2>2, <2>3, <2>4 DEF WorkerInv, AnswerHoldsProposal, At
  <2> QED
    BY <1>1, <1>9, <2>1, <2>5, QuietStep DEF PutCommand, PutContext, PutObject, Goto, TypeOK
<1>10. ASSUME NEW w \in Workers, CommitAct(w) PROVE GateInv'
  <2>1. CASE \E i \in Present(w) : answer' = [answer EXCEPT ![w] = i] /\ UNCHANGED history
    BY <1>5, <1>10, <2>1 DEF CommitAct, At
  <2>2. CASE /\ StoreAccepts(proposal[w])
             /\ history' = Append(history, proposal[w])
             /\ answer' = [answer EXCEPT ![w] = Len(history) + 1]
    BY <1>1, <1>10, <2>2, AppendStep DEF CommitAct
  <2> QED
    BY <1>10, <2>1, <2>2 DEF CommitAct
<1>11. ASSUME NEW w \in Workers, Refuse(w) \/ Return(w) \/ Crash(w) PROVE GateInv'
  <2>1. Leave(w)
    BY <1>11 DEF Refuse, Return, Crash
  <2>2. WorkerInv(w)'
    BY <1>1, <2>1, IdleInv DEF Leave, Goto, TypeOK
  <2> QED
    BY <1>1, <2>1, <2>2, QuietStep DEF Leave, Goto, TypeOK
<1>12. CASE UNCHANGED vars
  <2>1. \A v \in Workers : WorkerInv(v)'
    BY <1>1, <1>2, <1>12, FrameQuiet DEF vars, gateVars
  <2> QED
    BY <1>1, <1>12, <2>1, ContentQuiet DEF GateInv, vars, gateVars
<1> QED
  BY <1>3, <1>4, <1>6, <1>7, <1>8, <1>9, <1>10, <1>11, <1>12 DEF Next

\* No worker has read anything yet.
LEMMA GateInit == Init => GateInv
<1> SUFFICES ASSUME Init PROVE GateInv
  OBVIOUS
<1>1. TypeOK
  BY GateAssumption, GenesisAssumption DEF Init, HistoryInit, TypeOK, Stages, Outcomes
<1>2. ContentHeld
  BY DEF Init, HistoryInit, ContentHeld
<1>3. ASSUME NEW w \in Workers PROVE WorkerInv(w)
  BY DEF Init, WorkerInv, CutKnown, EvidenceKept, ReadsCurrent, CommandKept, VocabularyKept,
         AnswerHoldsProposal, At, Judged, Proved
<1> QED
  BY <1>1, <1>2, <1>3 DEF GateInv

\* The invariant of the Gate.
THEOREM GateInvariant == Spec => []GateInv
BY GateInit, GateInvStep, PTL DEF Spec

\* Whatever a worker answers, the place it names holds what was proposed.
THEOREM TrueAnswers == Spec => []AnswersTrue
<1>1. GateInv => AnswersTrue
  BY DEF GateInv, WorkerInv, AnswersTrue
<1> QED
  BY <1>1, GateInvariant, PTL

\* What a worker read in earlier transactions holds unless its cut is outdated.
THEOREM HarmlessStaleReads == Spec => []StaleReadsHarmless
<1>1. GateInv => StaleReadsHarmless
  BY DEF GateInv, WorkerInv, StaleReadsHarmless
<1> QED
  BY <1>1, GateInvariant, PTL

\* Every placed Act can be read back.
THEOREM HeldContent == Spec => []ContentHeld
<1>1. GateInv => ContentHeld
  BY DEF GateInv
<1> QED
  BY <1>1, GateInvariant, PTL
-----------------------------------------------------------------------------
(* Refinement.                                                              *)

\* Only the RPC changes history, and it adds the proposal of one worker.
LEMMA OnlyCommitPlaces ==
  ASSUME [Next]_vars, history' # history
  PROVE  \E w \in Workers : /\ At(w, "rpc")
                            /\ StoreAccepts(proposal[w])
                            /\ history' = Append(history, proposal[w])
<1>1. PICK w \in Workers : CommitAct(w)
  BY DEF Next, vars, StorePayload, Propose, CallGate, FindOccurrence, CheckOutcome, CheckConsequence,
         ReadChain, CheckProof, CheckCut, CheckReferences, Check, PutCommand, PutContext,
         PutObject, Refuse, Return, Crash, Leave
<1> QED
  BY <1>1 DEF CommitAct

\* A commit is a step of the abstract history, every other step a stutter.
LEMMA GatePlaces ==
  ASSUME GateInv, [Next]_vars
  PROVE  [Place]_history
<1> SUFFICES ASSUME history' # history PROVE Place
  OBVIOUS
<1>1. PICK w \in Workers : /\ At(w, "rpc")
                           /\ StoreAccepts(proposal[w])
                           /\ history' = Append(history, proposal[w])
  BY OnlyCommitPlaces
<1>2. TypeOK /\ WorkerInv(w)
  BY DEF GateInv
<1>3. proposal[w] \in Act
  BY <1>1, <1>2 DEF TypeOK, At
<1>4. LastAct(history') = proposal[w]
  BY <1>1, <1>2, <1>3 DEF TypeOK, LastAct
<1>5. Admissible(history, proposal[w])
  BY <1>1, <1>2, AcceptedIsAdmissible
<1> QED
  BY <1>1, <1>3, <1>4, <1>5 DEF Place

\* The Gate, for any number of concurrent workers, implements the history that
\* takes one admissible Act at a time.
THEOREM GateRefinesHistory == Spec => HistorySpec
<1>1. Init => HistoryInit
  BY DEF Init
<1> QED
  BY <1>1, GateInvariant, GatePlaces, PTL DEF Spec, HistorySpec

\* PF-13: no Act is placed on a history other than the one it was decided on.
THEOREM DecidedOnExactCut == Spec => []ExactCut
<1>1. HistoryInv => ExactCut
  BY DEF HistoryInv
<1> QED
  BY <1>1, GateRefinesHistory, HistoryInvariant, PTL

\* PF-23: the same content has one place.
THEOREM PlacedOnce == Spec => []UniqueOccurrence
<1>1. ExactCut => UniqueOccurrence
  <2> SUFFICES ASSUME ExactCut, NEW i \in Places(history), NEW j \in Places(history),
                      history[i] = history[j], i < j
               PROVE  FALSE
    BY DEF UniqueOccurrence, Places
  <2>1. i \in history[j].cut /\ i \notin history[i].cut
    BY DEF ExactCut, Places
  <2> QED
    BY <2>1
<1> QED
  BY <1>1, DecidedOnExactCut, PTL

\* Section 6.1: a Command has at most one consequential Act.
THEOREM BoughtOnce == Spec => []OneConsequence
<1>1. HistoryInv => OneConsequence
  BY DEF HistoryInv
<1> QED
  BY <1>1, GateRefinesHistory, HistoryInvariant, PTL

\* PF-10: no Act refers to itself or to a later one.
THEOREM AncestryAcyclic == Spec => []Acyclic
<1>1. HistoryInv => Acyclic
  BY DEF HistoryInv
<1> QED
  BY <1>1, GateRefinesHistory, HistoryInvariant, PTL

\* Every Act is made of vocabulary that came before it.
THEOREM VocabularyFirst == Spec => []VocabularyBornFirst
<1>1. HistoryInv => VocabularyBornFirst
  BY DEF HistoryInv
<1> QED
  BY <1>1, GateRefinesHistory, HistoryInvariant, PTL

\* Section 8.1: what was sent to review has its consequence by a resolution
\* that stands on a review.
THEOREM ReviewBeforeConsequence == Spec => []ReviewedConsequence
<1>1. HistoryInv => ReviewedConsequence
  BY DEF HistoryInv
<1> QED
  BY <1>1, GateRefinesHistory, HistoryInvariant, PTL

\* Section 8.2: an Act is placed only on the outcome that is evidence for it.
THEOREM PlacedOnEvidence == Spec => OutcomeIsEvidence
<1>1. ASSUME GateInv, [Next]_vars, history' # history
      PROVE  \E w \in Workers : /\ history' = Append(history, proposal[w])
                                /\ Evidence(proposal[w].type, outcome[w])
  <2>1. PICK w \in Workers : /\ At(w, "rpc")
                             /\ history' = Append(history, proposal[w])
    BY <1>1, OnlyCommitPlaces
  <2>2. outcome[w] \in PermittedOutcomes(proposal[w].type)
    BY <1>1, <2>1 DEF GateInv, WorkerInv, EvidenceKept, OutcomePermitted, Judged, Proved, At
  <2>3. Evidence(proposal[w].type, outcome[w])
    BY <2>2 DEF Evidence, PermittedOutcomes, LifecycleActTypes
  <2> QED
    BY <2>1, <2>3
<1>2. GateInv /\ [Next]_vars =>
        [\E w \in Workers : /\ history' = Append(history, proposal[w])
                            /\ Evidence(proposal[w].type, outcome[w])]_history
  BY <1>1
<1> QED
  BY <1>2, GateInvariant, PTL DEF Spec, OutcomeIsEvidence
=============================================================================
