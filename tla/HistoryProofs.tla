--------------------------- MODULE HistoryProofs ----------------------------
(***************************************************************************)
(* What holds of every history that grows by admissible Acts only.         *)
(***************************************************************************)
EXTENDS History, TLAPS

\* Every resolution in history stands on a request and a review of its Command.
ResolutionsStand ==
  \A r \in Places(history) :
    history[r].type = "AuthorizationResolved" => Resolves(history, r, history[r].command)

\* Every review in history came from a Command made for reviewing.
ReviewsFit ==
  \A v \in Places(history) :
    history[v].type = "AuthorizationReviewed" =>
      CommandType[history[v].command] = ReviewCommandType

\* ReviewedConsequence is not inductive alone: the resolution a consequence
\* links must itself have been admitted with its request and its review.
HistoryInv ==
  /\ history \in Seq(Act)
  /\ ExactCut
  /\ OneConsequence
  /\ Acyclic
  /\ VocabularyBornFirst
  /\ ReviewsFit
  /\ ResolutionsStand
  /\ ReviewedConsequence

\* The initial history is the Genesis Act alone.
LEMMA InitialHistory == HistoryInit => HistoryInv
<1> SUFFICES ASSUME HistoryInit PROVE HistoryInv
  OBVIOUS
<1>1. /\ history = <<GenesisAct>> /\ Len(history) = 1 /\ history[1] = GenesisAct
  BY DEF HistoryInit
<1>2. Places(history) = {1}
  BY <1>1 DEF Places
<1>3. IsConsequence(GenesisAct)
  BY GenesisAssumption
<1>4. history \in Seq(Act)
  BY <1>1, GenesisAssumption
<1>5. ExactCut
  <2>1. history[1].cut = {} /\ 1 .. (1 - 1) = {}
    BY <1>1, GenesisAssumption
  <2> QED
    BY <1>2, <2>1 DEF ExactCut
<1>6. OneConsequence
  BY <1>2 DEF OneConsequence
<1>7. Acyclic
  <2>1. Parents[history[1].command] \cup history[1].chain \cup history[1].registry = {}
    BY <1>1, GenesisAssumption
  <2> QED
    BY <1>2, <2>1 DEF Acyclic
<1>8. VocabularyBornFirst
  BY <1>1 DEF VocabularyBornFirst
<1>9. ReviewsFit /\ ResolutionsStand
  BY <1>1, <1>2, <1>3 DEF ReviewsFit, ResolutionsStand, IsConsequence, LifecycleActTypes
<1>10. ReviewedConsequence
  BY <1>2 DEF ReviewedConsequence
<1> QED
  BY <1>4, <1>5, <1>6, <1>7, <1>8, <1>9, <1>10 DEF HistoryInv

\* A step keeps every place and adds one after the last.
LEMMA Growth ==
  ASSUME history \in Seq(Act), Place
  PROVE  /\ Len(history) \in Nat
         /\ history'[Len(history) + 1] = LastAct(history')
         /\ \A i \in Places(history) : history'[i] = history[i]
         /\ history' \in Seq(Act)
         /\ Places(history) = 1 .. Len(history)
         /\ Places(history') = Places(history) \cup {Len(history) + 1}
         /\ Len(history') = Len(history) + 1
BY DEF Place, LastAct, Places

\* Admissible Acts keep the invariant, part by part.
LEMMA HistoryStep ==
  ASSUME HistoryInv, Place
  PROVE  HistoryInv'
<1> DEFINE n == Len(history)
           a == LastAct(history')
<1>1. history \in Seq(Act)
  BY DEF HistoryInv
<1>2. n \in Nat /\ Places(history) = 1 .. n
  BY <1>1, Growth
<1>3. Places(history') = Places(history) \cup {n + 1}
  BY <1>1, Growth
<1>4. history'[n + 1] = a /\ \A i \in Places(history) : history'[i] = history[i]
  BY <1>1, Growth
<1>5. Len(history') = n + 1 /\ history' \in Seq(Act)
  BY <1>1, Growth
<1>6. Lawful(history, a) /\ Resolvable(history, a)
  BY DEF Place, Admissible
<1>7. Parents[a.command] \cup a.chain \cup a.registry \subseteq Places(history)
  BY <1>6 DEF Lawful, Resolvable
<1>8. ProofFits(history, a.chain, a)
  <2>1. a.chain \cap Places(history) = a.chain
    BY <1>7
  <2> QED
    BY <2>1, <1>6 DEF Lawful
<1>9. n + 1 \notin Places(history) /\ \A i \in Places(history) : i < n + 1
  BY <1>2
<1>10. 1 .. ((n + 1) - 1) = Places(history)
  BY <1>2
<1> HIDE DEF n, a
<1>11. ExactCut'
  <2>1. a.cut = Places(history)
    BY <1>6 DEF Lawful
  <2>2. \A i \in Places(history) : history[i].cut = 1 .. (i - 1)
    BY DEF HistoryInv, ExactCut
  <2> QED
    BY <2>1, <2>2, <1>3, <1>4, <1>10 DEF ExactCut
<1>12. OneConsequence'
  <2>1. \A i \in Places(history) : IsConsequence(a) /\ IsConsequence(history[i])
                                    => history[i].command # a.command
    BY <1>6 DEF Lawful, HasConsequence, ActsFor
  <2>2. OneConsequence
    BY DEF HistoryInv
  <2> QED
    BY <2>1, <2>2, <1>3, <1>4 DEF OneConsequence
<1>13. Acyclic
  BY DEF HistoryInv
<1>14. Acyclic'
  BY <1>3, <1>4, <1>7, <1>10, <1>13 DEF Acyclic
<1>15. VocabularyBornFirst'
  <2>1. \A name \in {CommandType[a.command], a.type} \cup a.rules \cup ContextKeys[a.context] :
          Born[name] \in a.registry /\ Born[name] < n + 1
    BY <1>6, <1>7, <1>9 DEF Lawful, VocabularyRegistered, ActVocabulary, Registered
  <2>2. \A i \in 2 .. Len(history') : i = n + 1 \/ (i \in 2 .. n /\ i \in Places(history))
    BY <1>5, <1>2
  <2>3. VocabularyBornFirst /\ n = Len(history)
    BY DEF HistoryInv, n
  <2>4. ASSUME NEW i \in 2 .. n, i \in Places(history)
        PROVE  \A name \in {CommandType[history'[i].command], history'[i].type}
                  \cup history'[i].rules \cup ContextKeys[history'[i].context] :
                 Born[name] \in history'[i].registry /\ Born[name] < i
    BY <2>3, <2>4, <1>4 DEF VocabularyBornFirst
  <2> QED
    BY <2>1, <2>2, <2>4, <1>4 DEF VocabularyBornFirst
<1>16. ReviewsFit /\ ResolutionsStand /\ ReviewedConsequence
  BY DEF HistoryInv
<1>17. ReviewsFit'
  <2>1. a.type = "AuthorizationReviewed" => CommandType[a.command] = ReviewCommandType
    BY <1>8 DEF ProofFits, ReviewFits, IsConsequence, LifecycleActTypes
  <2> QED
    BY <2>1, <1>3, <1>4, <1>16 DEF ReviewsFit
<1>18. ASSUME NEW r \in Places(history), NEW c, Resolves(history, r, c)
       PROVE  Resolves(history', r, c)
  <2>1. history[r].chain \subseteq 1 .. (r - 1)
    BY <1>13 DEF Acyclic
  <2>2. 1 .. (r - 1) \subseteq Places(history)
    BY <1>2
  <2> QED
    BY <2>1, <2>2, <1>4, <1>18 DEF Resolves
<1>19. ResolutionsStand'
  <2>1. ASSUME a.type = "AuthorizationResolved"
        PROVE  Resolves(history', n + 1, a.command)
    <3>1. ResolutionFits(history, a.chain, a)
      BY <2>1, <1>8 DEF ProofFits, IsConsequence, LifecycleActTypes
    <3>2. PICK q \in a.chain : history[q].type = "ReviewRequested"
                                 /\ history[q].command = a.command
      BY <3>1 DEF ResolutionFits
    <3>3. PICK v \in a.chain : history[v].type = "AuthorizationReviewed"
                                 /\ ReviewTarget[history[v].command] = a.command
      BY <3>1 DEF ResolutionFits
    <3>4. q \in Places(history) /\ v \in Places(history)
      BY <1>7
    <3>5. CommandType[history[v].command] = ReviewCommandType
      BY <3>3, <3>4, <1>16 DEF ReviewsFit
    <3> QED
      BY <3>2, <3>3, <3>4, <3>5, <2>1, <1>4, <1>9 DEF Resolves
  <2>2. ASSUME NEW r \in Places(history), history[r].type = "AuthorizationResolved"
        PROVE  Resolves(history', r, history[r].command)
    BY <2>2, <1>16, <1>18, <1>4 DEF ResolutionsStand
  <2> QED
    BY <2>1, <2>2, <1>3, <1>4 DEF ResolutionsStand
<1>20. ReviewedConsequence'
  <2>1. ASSUME NEW i \in Places(history), NEW k \in 1 .. (i - 1),
               IsConsequence(history[i]),
               history[k].type = "ReviewRequested",
               history[k].command = history[i].command
        PROVE  \E r \in history[i].chain : r < i /\ Resolves(history', r, history[i].command)
    <3>1. PICK r \in history[i].chain : r < i /\ Resolves(history, r, history[i].command)
      BY <2>1, <1>16 DEF ReviewedConsequence
    <3>2. r \in 1 .. (i - 1) /\ 1 .. (i - 1) \subseteq Places(history)
      BY <3>1, <1>2, <1>13 DEF Acyclic
    <3> QED
      BY <3>1, <3>2, <1>18
  <2>2. ASSUME NEW k \in Places(history), IsConsequence(a),
               history[k].type = "ReviewRequested", history[k].command = a.command
        PROVE  \E r \in a.chain : r < n + 1 /\ Resolves(history', r, a.command)
    <3>1. UnderReview(history, a.command)
      BY <2>2 DEF UnderReview, ActsFor
    <3>2. ResolutionLinked(history, a.chain, a.command)
      BY <3>1, <2>2, <1>8 DEF ProofFits, IsConsequence, LifecycleActTypes
    <3>3. PICK r \in a.chain : history[r].type = "AuthorizationResolved"
                                 /\ history[r].command = a.command
      BY <3>2 DEF ResolutionLinked
    <3>4. r \in Places(history)
      BY <1>7
    <3>5. Resolves(history, r, a.command)
      BY <3>3, <3>4, <1>16 DEF ResolutionsStand
    <3> QED
      BY <3>4, <3>5, <1>9, <1>18
  <2>3. \A i \in Places(history) : 1 .. (i - 1) \subseteq Places(history)
    BY <1>2
  <2> SUFFICES ASSUME NEW i \in Places(history'), NEW k \in 1 .. (i - 1),
                      IsConsequence(history'[i]),
                      history'[k].type = "ReviewRequested",
                      history'[k].command = history'[i].command
               PROVE  \E r \in history'[i].chain :
                        r < i /\ Resolves(history', r, history'[i].command)
    BY DEF ReviewedConsequence
  <2>4. CASE i \in Places(history)
    BY <2>1, <2>3, <2>4, <1>4
  <2>5. CASE i = n + 1
    BY <2>2, <2>5, <1>4, <1>10
  <2> QED
    BY <2>4, <2>5, <1>3
<1> QED
  BY <1>5, <1>11, <1>12, <1>14, <1>15, <1>17, <1>19, <1>20 DEF HistoryInv

\* The invariant of every history.
THEOREM HistoryInvariant == HistorySpec => []HistoryInv
<1>1. HistoryInv /\ [Place]_history => HistoryInv'
  <2>1. HistoryInv /\ UNCHANGED history => HistoryInv'
    BY DEF HistoryInv, ExactCut, OneConsequence, Acyclic, VocabularyBornFirst,
           ReviewsFit, ResolutionsStand, Resolves, ReviewedConsequence
  <2> QED
    BY <2>1, HistoryStep
<1> QED
  BY InitialHistory, <1>1, PTL DEF HistorySpec
=============================================================================
