------------------------- MODULE MemoryLedgerProofs -------------------------
(***************************************************************************)
(* In one process the Gate needs no help from its store: while calls do    *)
(* not overlap, each of its checks still holds when the Act is appended.   *)
(***************************************************************************)
EXTENDS MemoryLedger, CommitGateProofs

OneAtATime == \A v, w \in Workers : v = w \/ stage[v] = "idle" \/ stage[w] = "idle"

\* The stages after the comparison of cuts.
Compared == {"references", "putCommand", "putContext", "rpc"}

\* What the checks made so far say, they say of the present history.
Current(w) ==
  /\ stage[w] \in {"chain", "proof"} \cup Proved => NotYetBought(w)
  /\ stage[w] \in {"proof"} \cup Proved => linked[w] = proposal[w].chain \cap Places(history)
  /\ stage[w] \in Proved => ProofFits(history, linked[w], proposal[w])
  /\ stage[w] \in Compared => CutCurrent(w)
  /\ stage[w] \in Compared \ {"references"} =>
       /\ proposal[w].rules # {} /\ VocabularyRegistered(history, proposal[w])
       /\ Parents[proposal[w].command] \subseteq Places(history)

MemoryInv == TypeOK /\ OneAtATime /\ \A w \in Workers : Current(w)

\* The steps of a call, but for its last two: they leave history alone.
Checking(w) ==
  \/ Enter(w) \/ FindOccurrence(w) \/ CheckOutcome(w) \/ CheckConsequence(w) \/ ReadChain(w)
  \/ CheckProof(w) \/ CheckCut(w) \/ CheckReferences(w) \/ PutCommand(w) \/ PutContext(w)

\* An idle worker has nothing to be current.
LEMMA IdleCurrent ==
  ASSUME NEW w \in Workers, stage'[w] = "idle"
  PROVE  Current(w)'
BY DEF Current, Proved, Compared

\* A step of the one worker that is at work, or begins, leaves the others idle.
LEMMA OthersIdle ==
  ASSUME MemoryInv, NEW w \in Workers, NEW s, Goto(w, s),
         stage[w] # "idle" \/ \A v \in Workers : stage[v] = "idle"
  PROVE  /\ \A v \in Workers \ {w} : stage'[v] = "idle"
         /\ stage'[w] = s
BY DEF MemoryInv, OneAtATime, TypeOK, Goto

\* So it is enough to look at the worker that moves.
LEMMA OneMoves ==
  ASSUME MemoryInv, TypeOK', NEW w \in Workers, NEW s, Goto(w, s),
         stage[w] # "idle" \/ \A v \in Workers : stage[v] = "idle",
         Current(w)'
  PROVE  MemoryInv'
<1>1. \A v \in Workers \ {w} : stage'[v] = "idle"
  BY OthersIdle
<1>2. \A v \in Workers : Current(v)'
  BY <1>1, IdleCurrent
<1> QED BY <1>1, <1>2 DEF MemoryInv, OneAtATime

\* A check that passes is current, and the earlier ones stay so.
LEMMA CheckingStep ==
  ASSUME MemoryInv, NEW w \in Workers, Checking(w)
  PROVE  MemoryInv' /\ history' = history
<1>1. TypeOK /\ Current(w)
  BY DEF MemoryInv
<1>2. TypeOK'
  <2>1. CASE Enter(w)
    BY <1>1, <2>1, CallType DEF Enter
  <2>2. CASE ~Enter(w)
    BY <1>1, <2>2, TypeStep DEF Checking, Next
  <2> QED BY <2>1, <2>2
<1>3. TypeOK' /\ history' = history
  BY <1>2 DEF Checking, Enter, CallGate, FindOccurrence, CheckOutcome,
     CheckConsequence, ReadChain, CheckProof, CheckCut, CheckReferences, Check, PutCommand,
     PutContext, PutObject
<1>4. CASE Enter(w)
  <2>1. Goto(w, "lookup") /\ \A v \in Workers : stage[v] = "idle"
    BY <1>4 DEF Enter, CallGate, At
  <2>2. stage'[w] = "lookup"
    BY <2>1, OthersIdle
  <2>3. Current(w)'
    BY <2>2 DEF Current, Proved, Compared
  <2> QED BY <1>3, <2>1, <2>3, OneMoves
<1>5. CASE FindOccurrence(w)
  <2>1. Goto(w, "answered") /\ stage[w] # "idle" /\ UNCHANGED proposal
    BY <1>5 DEF FindOccurrence, At
  <2>2. stage'[w] = "answered"
    BY <2>1, OthersIdle
  <2>3. Current(w)'
    BY <1>1, <2>1, <2>2 DEF Current, Proved, Compared
  <2> QED BY <1>3, <2>1, <2>3, OneMoves
<1>6. ASSUME NEW from, NEW to, Check(w, from, TRUE, to), from # "idle"
      PROVE  /\ stage[w] = from /\ stage'[w] = to /\ Goto(w, to) /\ stage[w] # "idle"
             /\ UNCHANGED <<history, cas, proposal, outcome, linked, answer>>
  BY <1>6, OthersIdle DEF Check, At
<1>7. CASE CheckOutcome(w)
  <2>1. Check(w, "lookup", TRUE, "consequence")
    BY <1>7 DEF CheckOutcome, Check
  <2>2. /\ stage[w] = "lookup" /\ stage'[w] = "consequence" /\ Goto(w, "consequence") /\ stage[w] # "idle"
        /\ UNCHANGED <<history, proposal, linked>>
    BY <1>6, <2>1
  <2>3. Current(w)'
    BY <1>1, <2>1, <2>2 DEF Current, Proved, Compared
  <2> QED BY <1>3, <2>2, <2>3, OneMoves
<1>8. CASE CheckConsequence(w)
  <2>1. Check(w, "consequence", TRUE, "chain") /\ NotYetBought(w)
    BY <1>8 DEF CheckConsequence, Check
  <2>2. /\ stage[w] = "consequence" /\ stage'[w] = "chain" /\ Goto(w, "chain") /\ stage[w] # "idle"
        /\ UNCHANGED <<history, proposal, linked>>
    BY <1>6, <2>1
  <2>3. Current(w)'
    BY <1>1, <2>1, <2>2 DEF Current, Proved, Compared, NotYetBought
  <2> QED BY <1>3, <2>2, <2>3, OneMoves
<1>9. CASE ReadChain(w)
  <2>1. /\ stage[w] = "chain" /\ Goto(w, "proof") /\ UNCHANGED <<history, proposal>>
        /\ linked' = [linked EXCEPT ![w] = proposal[w].chain \cap Places(history)]
    BY <1>9 DEF ReadChain, At
  <2>2. stage'[w] = "proof" /\ linked'[w] = proposal[w].chain \cap Places(history)
    BY <1>1, <2>1, OthersIdle DEF TypeOK
  <2>3. Current(w)'
    BY <1>1, <2>1, <2>2 DEF Current, Proved, Compared, NotYetBought
  <2> QED BY <1>3, <2>1, <2>3, OneMoves
<1>10. CASE CheckProof(w)
  <2>1. Check(w, "proof", TRUE, "cut") /\ ProofFits(history, linked[w], proposal[w])
    BY <1>10 DEF CheckProof, Check, ProofHolds
  <2>2. /\ stage[w] = "proof" /\ stage'[w] = "cut" /\ Goto(w, "cut") /\ stage[w] # "idle"
        /\ UNCHANGED <<history, proposal, linked>>
    BY <1>6, <2>1
  <2>3. Current(w)'
    BY <1>1, <2>1, <2>2 DEF Current, Proved, Compared, NotYetBought
  <2> QED BY <1>3, <2>2, <2>3, OneMoves
<1>11. CASE CheckCut(w)
  <2>1. Check(w, "cut", TRUE, "references") /\ CutCurrent(w)
    BY <1>11 DEF CheckCut, Check
  <2>2. /\ stage[w] = "cut" /\ stage'[w] = "references" /\ Goto(w, "references") /\ stage[w] # "idle"
        /\ UNCHANGED <<history, proposal, linked>>
    BY <1>6, <2>1
  <2>3. Current(w)'
    BY <1>1, <2>1, <2>2 DEF Current, Proved, Compared, NotYetBought, CutCurrent
  <2> QED BY <1>3, <2>2, <2>3, OneMoves
<1>12. CASE CheckReferences(w)
  <2>1. Check(w, "references", TRUE, "putCommand") /\ ReferencesKnown(w)
    BY <1>12 DEF CheckReferences, Check
  <2>2. /\ stage[w] = "references" /\ stage'[w] = "putCommand" /\ Goto(w, "putCommand") /\ stage[w] # "idle"
        /\ UNCHANGED <<history, proposal, linked>>
    BY <1>6, <2>1
  <2>3. Current(w)'
    BY <1>1, <2>1, <2>2 DEF Current, Proved, Compared, NotYetBought, CutCurrent, ReferencesKnown
  <2> QED BY <1>3, <2>2, <2>3, OneMoves
<1>13. CASE PutCommand(w) \/ PutContext(w)
  <2>1. /\ UNCHANGED <<history, proposal, linked>>
        /\ \/ stage[w] = "putCommand" /\ Goto(w, "putContext")
           \/ stage[w] = "putContext" /\ Goto(w, "rpc")
    BY <1>13 DEF PutCommand, PutContext, PutObject, At
  <2>2. stage[w] \in {"putCommand", "putContext"} /\ stage'[w] \in {"putContext", "rpc"}
    BY <2>1, OthersIdle
  <2>3. Current(w)'
    BY <1>1, <2>1, <2>2 DEF Current, Proved, Compared, NotYetBought, CutCurrent
  <2> QED BY <1>3, <2>1, <2>3, OneMoves
<1> QED BY <1>3, <1>4, <1>5, <1>7, <1>8, <1>9, <1>10, <1>11, <1>12, <1>13 DEF Checking

\* A call that ends leaves nobody at work.
LEMMA LeaveStep ==
  ASSUME MemoryInv, NEW w \in Workers, Leave(w), stage[w] # "idle"
  PROVE  MemoryInv' /\ history' = history
<1>1. TypeOK' /\ Goto(w, "idle") /\ history' = history
  BY LeaveType DEF MemoryInv, Leave
<1>2. Current(w)'
  BY <1>1, OthersIdle, IdleCurrent
<1> QED BY <1>1, <1>2, OneMoves

\* What is appended is lawful where it lands.
LEMMA AppendedIsLawful ==
  ASSUME MemoryInv, NEW w \in Workers, stage[w] = "rpc"
  PROVE  Lawful(history, proposal[w])
<1>1. Current(w)
  BY DEF MemoryInv
<1>2. /\ linked[w] = proposal[w].chain \cap Places(history)
      /\ ProofFits(history, linked[w], proposal[w])
  BY <1>1 DEF Current, Proved
<1>3. IsConsequence(proposal[w]) => ~HasConsequence(history, proposal[w].command)
  BY <1>1 DEF Current, Proved, NotYetBought
<1>4. /\ proposal[w].cut = Places(history) /\ proposal[w].rules # {}
      /\ VocabularyRegistered(history, proposal[w])
      /\ Parents[proposal[w].command] \subseteq Places(history)
  BY <1>1 DEF Current, Compared, CutCurrent
<1> QED BY <1>2, <1>3, <1>4 DEF Lawful

\* The append itself.
LEMMA AppendStage ==
  ASSUME MemoryInv, NEW w \in Workers, AppendAct(w)
  PROVE  /\ MemoryInv'
         /\ history' # history =>
              /\ history' = Append(history, proposal[w])
              /\ Lawful(history, proposal[w])
<1>1. /\ TypeOK /\ Current(w) /\ stage[w] = "rpc" /\ Goto(w, "answered")
      /\ UNCHANGED <<cas, proposal, outcome, linked>>
  BY DEF MemoryInv, AppendAct, At
<1>2. proposal[w] \in Act /\ history \in Seq(Act)
  BY <1>1 DEF TypeOK
<1>3. history' = history \/ history' = Append(history, proposal[w])
  BY DEF AppendAct
<1>4. history' \in Seq(Act)
  BY <1>2, <1>3, AppendType
<1>5. answer' \in [Workers -> Nat]
  <2>1. Present(w) \subseteq Nat /\ Len(history) + 1 \in Nat
    BY <1>2 DEF Present, Places
  <2>2. \E n \in Nat : answer' = [answer EXCEPT ![w] = n]
    BY <2>1 DEF AppendAct
  <2> QED BY <1>1, <2>2 DEF TypeOK
<1>6. stage'[w] = "answered"
  BY <1>1, OthersIdle
<1>7. TypeOK'
  BY <1>1, <1>4, <1>5, <1>6 DEF TypeOK, Goto, Stages
<1>8. Current(w)'
  BY <1>1, <1>6 DEF Current, Proved, Compared
<1>9. MemoryInv'
  BY <1>1, <1>7, <1>8, OneMoves
<1> QED BY <1>1, <1>3, <1>9, AppendedIsLawful

\* The steps of the store in one process.
LEMMA MemoryStep ==
  ASSUME MemoryInv, [MemoryNext]_vars
  PROVE  /\ MemoryInv'
         /\ history' # history =>
              \E w \in Workers : /\ history' = Append(history, proposal[w])
                                 /\ Lawful(history, proposal[w])
<1>1. CASE UNCHANGED vars
  BY <1>1 DEF MemoryInv, OneAtATime, vars, gateVars, TypeOK, Current, NotYetBought, CutCurrent
<1>2. ASSUME NEW r \in Requests, StorePayload(r)
      PROVE  MemoryInv' /\ history' = history
  <2>1. TypeOK'
    BY <1>2, TypeStep DEF MemoryInv, Next
  <2> QED BY <1>2, <2>1 DEF StorePayload, MemoryInv, OneAtATime, Current, NotYetBought, CutCurrent
<1>3. ASSUME NEW w \in Workers, \/ ~At(w, "rpc") /\ Refuse(w)
                                \/ Return(w) \/ GiveUp(w)
      PROVE  MemoryInv' /\ history' = history
  <2>1. Leave(w) /\ stage[w] # "idle"
    BY <1>3 DEF Refuse, Return, GiveUp, At
  <2> QED BY <2>1, LeaveStep
<1>4. ASSUME NEW w \in Workers, Checking(w)
      PROVE  MemoryInv' /\ history' = history
  BY <1>4, CheckingStep
<1> QED BY <1>1, <1>2, <1>3, <1>4, AppendStage DEF MemoryNext, Checking

\* One call at a time, and its checks current.
THEOREM MemoryInvariant == MemorySpec => []MemoryInv
<1>1. Init => MemoryInv
  BY GateAssumption, GenesisAssumption
  DEF Init, HistoryInit, MemoryInv, TypeOK, OneAtATime, Current, Stages, Outcomes, Proved, Compared
<1> QED BY <1>1, MemoryStep, PTL DEF MemorySpec

\* What the store in one process takes is lawful on the history it lands on, for
\* every Decision, although nothing but the Gate has looked at it.
THEOREM GateAlone == MemorySpec => GateStandsAlone
<1>1. MemoryInv /\ [MemoryNext]_vars =>
        [\E w \in Workers : /\ history' = Append(history, proposal[w])
                            /\ Lawful(history, proposal[w])]_history
  BY MemoryStep
<1> QED BY <1>1, MemoryInvariant, PTL DEF MemorySpec, GateStandsAlone
=============================================================================
