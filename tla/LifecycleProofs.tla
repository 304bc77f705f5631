-------------------------- MODULE LifecycleProofs ---------------------------
(***************************************************************************)
(* What a reader of the history is told, put together from several queries *)
(* with commits between them, is true of the history there is when it is   *)
(* told, for any number of workers and Commands.                           *)
(***************************************************************************)
EXTENDS Lifecycle, CommitGateProofs

\* The reader takes no part in the Gate.
THEOREM ReaderStandsAside == LifecycleSpec => Spec
<1>1. LifecycleInit => Init
  BY DEF LifecycleInit
<1>2. [LifecycleNext]_<<vars, report>> => [Next]_vars
  BY DEF LifecycleNext, ReadOwned, ReadLinked, ReadStatus, HandOver
<1> QED BY <1>1, <1>2, PTL DEF LifecycleSpec, Spec

\* The history the reader reads is a history of admissible Acts.
THEOREM ReaderHistory == LifecycleSpec => [](HistoryInv /\ TypeOK)
BY ReaderStandsAside, GateRefinesHistory, HistoryInvariant, TypeCorrect, PTL

\* Nothing is taken from a history, and what is added comes after the rest.
Extended ==
  /\ Len(history) \in Nat /\ Len(history') \in Nat /\ Len(history) <= Len(history')
  /\ \A i \in Places(history) : history'[i] = history[i]

LEMMA HistoryExtended == TypeOK /\ [Next]_vars => Extended
<1> SUFFICES ASSUME TypeOK, [Next]_vars PROVE Extended
  OBVIOUS
<1>1. CASE history' = history
  BY <1>1 DEF TypeOK, Extended
<1>2. CASE history' # history
  <2>1. PICK w \in Workers : At(w, "rpc") /\ history' = Append(history, proposal[w])
    BY <1>2, OnlyCommitPlaces
  <2>2. proposal[w] \in Act
    BY <2>1 DEF TypeOK, At
  <2> QED BY <2>1, <2>2 DEF TypeOK, Extended, Places
<1> QED BY <1>1, <1>2
-----------------------------------------------------------------------------
(* status.                                                                  *)

\* The terminal stage that is reported is one of those recorded.
LEMMA FirstIsTerminal ==
  ASSUME NEW types, types \subseteq Terminal, types # {}
  PROVE  FirstTerminal(types) \in types
<1> DEFINE First(k) == /\ TerminalOrder[k] \in types
                       /\ \A j \in 1 .. (k - 1) : TerminalOrder[j] \notin types
<1>1. /\ TerminalOrder[1] = "CommandDenied" /\ TerminalOrder[2] = "CommandExpired"
      /\ TerminalOrder[3] = "CommandRejected" /\ TerminalOrder[4] = "CommandSuperseded"
  BY DEF TerminalOrder
<1>2. \E k \in 1 .. 4 : TerminalOrder[k] \in types
  <2>1. PICK t \in types : t \in Terminal
    OBVIOUS
  <2>2. \/ TerminalOrder[1] = t \/ TerminalOrder[2] = t \/ TerminalOrder[3] = t
        \/ TerminalOrder[4] = t
    BY <1>1, <2>1 DEF Terminal
  <2>3. 1 \in 1 .. 4 /\ 2 \in 1 .. 4 /\ 3 \in 1 .. 4 /\ 4 \in 1 .. 4
    OBVIOUS
  <2> QED BY <2>1, <2>2, <2>3
<1>3. \E k \in 1 .. 4 : First(k)
  <2>1. CASE TerminalOrder[1] \in types
    <3>1. First(1)
      BY <2>1
    <3> QED BY <3>1
  <2>2. CASE TerminalOrder[1] \notin types /\ TerminalOrder[2] \in types
    <3>1. First(2)
      BY <2>2
    <3> QED BY <3>1
  <2>3. CASE /\ TerminalOrder[1] \notin types /\ TerminalOrder[2] \notin types
             /\ TerminalOrder[3] \in types
    <3>1. \A j \in 1 .. (3 - 1) : j = 1 \/ j = 2
      OBVIOUS
    <3>2. First(3)
      BY <2>3, <3>1
    <3> QED BY <3>2
  <2>4. CASE /\ TerminalOrder[1] \notin types /\ TerminalOrder[2] \notin types
             /\ TerminalOrder[3] \notin types /\ TerminalOrder[4] \in types
    <3>1. \A j \in 1 .. (4 - 1) : j = 1 \/ j = 2 \/ j = 3
      OBVIOUS
    <3>2. First(4)
      BY <2>4, <3>1
    <3> QED BY <3>2
  <2>5. \A k \in 1 .. 4 : k = 1 \/ k = 2 \/ k = 3 \/ k = 4
    OBVIOUS
  <2> QED BY <1>2, <2>1, <2>2, <2>3, <2>4, <2>5
<1>4. First(CHOOSE k \in 1 .. 4 : First(k))
  BY <1>3
<1> QED BY <1>4 DEF FirstTerminal

\* What each status means.
LEMMA StatusMeans ==
  ASSUME NEW h, NEW c
  PROVE  /\ Status(h, c) \in Statuses
         /\ Status(h, c) = "committed" <=> HasConsequence(h, c)
         /\ Status(h, c) = "not_submitted" => ~HasConsequence(h, c) /\ Recorded(h, c) = {}
         /\ Status(h, c) = "pending_review" =>
              /\ ~HasConsequence(h, c) /\ "ReviewRequested" \in Recorded(h, c)
              /\ "AuthorizationResolved" \notin Recorded(h, c)
<1>1. CASE HasConsequence(h, c)
  BY <1>1 DEF Status, Statuses
<1>2. CASE ~HasConsequence(h, c) /\ Recorded(h, c) \cap Terminal # {}
  <2>1. Status(h, c) \in Terminal
    BY <1>2, FirstIsTerminal DEF Status
  <2> QED BY <1>2, <2>1 DEF Terminal, Statuses
<1>3. CASE ~HasConsequence(h, c) /\ Recorded(h, c) \cap Terminal = {}
  BY <1>3 DEF Status, Statuses
<1> QED BY <1>1, <1>2, <1>3

\* A Command that is waiting for its review does not get its consequence next.
LEMMA PendingStep ==
  ASSUME HistoryInv, TypeOK, HistoryInv', [Next]_vars, history' # history, NEW c \in Commands,
         Status(history, c) = "pending_review"
  PROVE  Status(history', c) # "committed"
<1> SUFFICES ASSUME HasConsequence(history', c) PROVE FALSE
  BY StatusMeans
<1>1. /\ ~HasConsequence(history, c) /\ "ReviewRequested" \in Recorded(history, c)
      /\ "AuthorizationResolved" \notin Recorded(history, c)
  BY StatusMeans
<1>2. Extended
  BY HistoryExtended
<1>3. PICK i \in Places(history') : history'[i].command = c /\ IsConsequence(history'[i])
  BY DEF HasConsequence, ActsFor
<1>4. i \notin Places(history)
  BY <1>1, <1>2, <1>3 DEF HasConsequence, ActsFor, Extended
<1>5. PICK k \in Places(history) :
        history[k].command = c /\ history[k].type = "ReviewRequested"
  BY <1>1 DEF Recorded, ActsFor
<1>6. k \in 1 .. (i - 1) /\ history'[k] = history[k]
  BY <1>2, <1>3, <1>4, <1>5 DEF Extended, Places
<1>7. PICK r \in history'[i].chain : r < i /\ Resolves(history', r, c)
  BY <1>3, <1>5, <1>6 DEF HistoryInv, ReviewedConsequence
<1>8. r \in 1 .. (i - 1)
  BY <1>3, <1>7 DEF HistoryInv, Acyclic
<1>9. 1 .. (i - 1) \subseteq Places(history)
  <2>1. PICK w \in Workers : At(w, "rpc") /\ history' = Append(history, proposal[w])
    BY OnlyCommitPlaces
  <2>2. proposal[w] \in Act
    BY <2>1 DEF TypeOK, At
  <2>3. Len(history') = Len(history) + 1 /\ Len(history) \in Nat
    BY <2>1, <2>2 DEF TypeOK
  <2> QED BY <1>3, <2>3 DEF Places
<1>10. history[r].type = "AuthorizationResolved" /\ history[r].command = c
  BY <1>2, <1>7, <1>8, <1>9 DEF Resolves, Extended
<1> QED BY <1>1, <1>8, <1>9, <1>10 DEF Recorded, ActsFor, LifecycleActTypes

\* A status of pending review is a promise about the next Act.
THEOREM PendingIsBlocked == LifecycleSpec => PendingReviewBlocks
<1>1. HistoryInv /\ TypeOK /\ (HistoryInv /\ TypeOK)' /\ [Next]_vars =>
        [\A c \in Commands :
           Status(history, c) = "pending_review" => Status(history', c) # "committed"]_history
  BY PendingStep
<1> QED BY <1>1, ReaderHistory, ReaderStandsAside, PTL DEF Spec, PendingReviewBlocks
-----------------------------------------------------------------------------
(* trajectory.                                                              *)

\* The review story that a consequence among the Acts of a report tells.
StoryTold ==
  \A i, k \in report.owned :
    /\ k < i /\ history[k].type = "ReviewRequested" /\ IsConsequence(history[i])
    => \E v \in report.taking :
         /\ history[v].type = "AuthorizationReviewed"
         /\ ReviewTarget[history[v].command] = report.of

StatusKept ==
  /\ (\E i \in report.owned : IsConsequence(history[i])) => report.status = "committed"
  /\ report.status = "not_submitted" => report.owned = {}
  /\ report.status = "pending_review" =>
       \A i \in report.owned : history[i].type # "AuthorizationResolved"

\* What each stage of a report says of the history there is by now.
ReportInv ==
  report # NoReport =>
    /\ report \in [stage : {"owned", "linked", "told"}, of : Watched, owned : SUBSET Nat,
                   taking : SUBSET Nat, status : Statuses]
    /\ report.taking \subseteq Places(history)
    /\ OwnedIsPrefix(report)
    /\ report.stage \in {"linked", "told"} => StoryTold
    /\ report.stage = "told" => StatusKept

\* The Acts of a report are in history.
LEMMA OwnedPlaced ==
  ASSUME OwnedIsPrefix(report)
  PROVE  report.owned \subseteq ActsFor(history, report.of)
BY DEF OwnedIsPrefix

\* A report is about the past, which commits do not touch.
LEMMA ReportFrame ==
  ASSUME TypeOK, Extended, ReportInv, UNCHANGED report
  PROVE  ReportInv'
<1> SUFFICES ASSUME report # NoReport PROVE ReportInv'
  BY DEF ReportInv
<1>1. /\ Places(history) \subseteq Places(history')
      /\ \A i \in Places(history) : history'[i] = history[i]
  BY DEF Extended, Places
<1>2. OwnedIsPrefix(report) /\ report.taking \subseteq Places(history)
  BY DEF ReportInv
<1>3. report.owned \subseteq Places(history)
  BY <1>2, OwnedPlaced DEF ActsFor
<1>4. OwnedIsPrefix(report)'
  <2>1. PICK n \in 0 .. Len(history) : report.owned = ActsFor(history, report.of) \cap (1 .. n)
    BY <1>2 DEF OwnedIsPrefix
  <2>2. n \in 0 .. Len(history') /\ 1 .. n \subseteq Places(history)
    BY <2>1 DEF Extended, Places
  <2>3. ActsFor(history', report.of) \cap (1 .. n) = ActsFor(history, report.of) \cap (1 .. n)
    BY <1>1, <2>2 DEF ActsFor
  <2> QED BY <2>1, <2>2, <2>3 DEF OwnedIsPrefix
<1>5. StoryTold => StoryTold'
  BY <1>1, <1>2, <1>3 DEF StoryTold
<1>6. StatusKept => StatusKept'
  BY <1>1, <1>3 DEF StatusKept
<1> QED BY <1>1, <1>2, <1>4, <1>5, <1>6 DEF ReportInv

\* The first query: all there is of the Command by then.
LEMMA OwnedStep ==
  ASSUME TypeOK, ReadOwned
  PROVE  ReportInv'
<1>1. PICK c \in Watched :
        /\ report' = [stage |-> "owned", of |-> c, owned |-> ActsFor(history, c),
                      taking |-> {}, status |-> "not_submitted"]
        /\ history' = history
  BY DEF ReadOwned, vars
<1>2. ActsFor(history, c) \in SUBSET Nat /\ "not_submitted" \in Statuses
  BY DEF ActsFor, Places, Statuses
<1>3. OwnedIsPrefix(report)'
  <2>1. ActsFor(history, c) = ActsFor(history, c) \cap (1 .. Len(history))
    BY DEF ActsFor, Places
  <2>2. Len(history) \in 0 .. Len(history)
    BY DEF TypeOK
  <2> QED BY <1>1, <2>1, <2>2 DEF OwnedIsPrefix
<1> QED BY <1>1, <1>2, <1>3 DEF ReportInv

\* What an Act of the Command links, and is not its own, takes part.
LEMMA LinkedMember ==
  ASSUME NEW owned, NEW j \in owned, NEW x \in history[j].chain, x \in Places(history),
         x \notin owned
  PROVE  x \in Linked(owned)
<1> DEFINE links(k) == history[k].chain \cap Places(history)
<1>1. x \in links(j)
  OBVIOUS
<1>2. links(j) \in {links(k) : k \in owned}
  OBVIOUS
<1>3. x \in UNION {links(k) : k \in owned}
  BY <1>1, <1>2, Zenon
<1> QED BY <1>3, Zenon DEF Linked

\* The links: a consequence that came after a request for review names its
\* resolution, which is the Command's own, and that names the review.
LEMMA LinkedStep ==
  ASSUME TypeOK, HistoryInv, ReportInv, ReadLinked
  PROVE  ReportInv'
<1>1. /\ report.stage = "owned" /\ history' = history
      /\ report' = [report EXCEPT !.stage = "linked", !.taking = Linked(report.owned)]
  BY DEF ReadLinked, vars
<1>2. /\ report \in [stage : {"owned", "linked", "told"}, of : Watched, owned : SUBSET Nat,
                     taking : SUBSET Nat, status : Statuses]
      /\ OwnedIsPrefix(report)
  BY <1>1 DEF ReportInv, NoReport
<1>3. /\ report'.stage = "linked" /\ report'.of = report.of /\ report'.owned = report.owned
      /\ report'.taking = Linked(report.owned) /\ report'.status = report.status
  BY <1>1, <1>2
<1>4. Linked(report.owned) \subseteq Places(history) /\ Places(history) \subseteq Nat
  BY DEF Linked, Places
<1>5. report' \in [stage : {"owned", "linked", "told"}, of : Watched, owned : SUBSET Nat,
                   taking : SUBSET Nat, status : Statuses]
  BY <1>1, <1>2, <1>4
<1>6. OwnedIsPrefix(report)'
  BY <1>1, <1>2, <1>3 DEF OwnedIsPrefix
<1>7. StoryTold'
  <2> SUFFICES ASSUME NEW i \in report.owned, NEW k \in report.owned,
                      k < i, history[k].type = "ReviewRequested", IsConsequence(history[i])
               PROVE  \E v \in Linked(report.owned) :
                        /\ history[v].type = "AuthorizationReviewed"
                        /\ ReviewTarget[history[v].command] = report.of
    BY <1>1, <1>3 DEF StoryTold
  <2>1. PICK n \in 0 .. Len(history) : report.owned = ActsFor(history, report.of) \cap (1 .. n)
    BY <1>2 DEF OwnedIsPrefix
  <2>2. /\ i \in Places(history) /\ k \in 1 .. (i - 1) /\ i <= n /\ n \in Nat
        /\ history[i].command = report.of /\ history[k].command = report.of
    BY <2>1 DEF ActsFor, Places
  <2>3. PICK r \in history[i].chain : r < i /\ Resolves(history, r, report.of)
    BY <2>2 DEF HistoryInv, ReviewedConsequence
  <2>4. r \in 1 .. (i - 1)
    BY <2>2, <2>3 DEF HistoryInv, Acyclic
  <2>5. r \in report.owned
    <3>1. r \in Places(history) /\ r \in 1 .. n
      BY <2>2, <2>4 DEF Places
    <3> QED BY <2>1, <2>3, <3>1 DEF ActsFor, Resolves
  <2>6. PICK v \in history[r].chain :
          /\ v < r /\ history[v].type = "AuthorizationReviewed"
          /\ ReviewTarget[history[v].command] = report.of
    BY <2>3 DEF Resolves
  <2>7. v \in 1 .. (r - 1) /\ r \in Places(history)
    BY <2>2, <2>4, <2>6 DEF HistoryInv, Acyclic, Places
  <2>8. v \in Places(history)
    BY <2>7 DEF Places
  <2>9. v \notin report.owned
    <3>1. report.of \in Commands
      BY <1>2, WatchedAssumption
    <3> QED BY <2>1, <2>6, <3>1, NoSelfReview DEF ActsFor
  <2>10. v \in Linked(report.owned)
    BY <2>5, <2>6, <2>8, <2>9, LinkedMember
  <2> QED BY <2>6, <2>10
<1> QED BY <1>1, <1>3, <1>4, <1>5, <1>6, <1>7 DEF ReportInv

\* The status, from a history that may have grown: newer, not older.
LEMMA StatusStep ==
  ASSUME TypeOK, ReportInv, ReadStatus
  PROVE  ReportInv'
<1>1. /\ report.stage = "linked" /\ history' = history
      /\ report' = [report EXCEPT !.stage = "told", !.status = Status(history, report.of)]
  BY DEF ReadStatus, vars
<1>2. /\ report \in [stage : {"owned", "linked", "told"}, of : Watched, owned : SUBSET Nat,
                     taking : SUBSET Nat, status : Statuses]
      /\ OwnedIsPrefix(report) /\ StoryTold /\ report.taking \subseteq Places(history)
  BY <1>1 DEF ReportInv, NoReport
<1>3. Status(history, report.of) \in Statuses
  BY StatusMeans
<1>4. /\ report'.stage = "told" /\ report'.of = report.of /\ report'.owned = report.owned
      /\ report'.taking = report.taking /\ report'.status = Status(history, report.of)
  BY <1>1, <1>2
<1>5. report' \in [stage : {"owned", "linked", "told"}, of : Watched, owned : SUBSET Nat,
                   taking : SUBSET Nat, status : Statuses]
  BY <1>1, <1>2, <1>3
<1>6. OwnedIsPrefix(report)' /\ StoryTold'
  BY <1>1, <1>2, <1>4 DEF OwnedIsPrefix, StoryTold
<1>7. report.owned \subseteq ActsFor(history, report.of)
  BY <1>2, OwnedPlaced
<1>8. StatusKept'
  <2>1. (\E i \in report.owned : IsConsequence(history[i])) => HasConsequence(history, report.of)
    BY <1>7 DEF HasConsequence
  <2>2. Status(history, report.of) = "not_submitted" => report.owned = {}
    <3>1. ASSUME Status(history, report.of) = "not_submitted", NEW i \in report.owned
          PROVE  FALSE
      <4>1. ~HasConsequence(history, report.of) /\ Recorded(history, report.of) = {}
        BY <3>1, StatusMeans
      <4>2. i \in ActsFor(history, report.of)
        BY <1>7
      <4>3. ~IsConsequence(history[i])
        BY <4>1, <4>2 DEF HasConsequence
      <4>4. history[i].type \in LifecycleActTypes
        BY <4>3 DEF IsConsequence
      <4>5. history[i].type \in Recorded(history, report.of)
        BY <4>2, <4>4 DEF Recorded
      <4> QED BY <4>1, <4>5
    <3> QED BY <3>1
  <2>3. Status(history, report.of) = "pending_review" =>
          \A i \in report.owned : history[i].type # "AuthorizationResolved"
    BY <1>7, StatusMeans DEF Recorded, LifecycleActTypes
  <2>4. Status(history, report.of) = "committed" <=> HasConsequence(history, report.of)
    BY StatusMeans
  <2> QED BY <1>1, <1>4, <2>1, <2>2, <2>3, <2>4 DEF StatusKept
<1> QED BY <1>1, <1>2, <1>4, <1>5, <1>6, <1>8 DEF ReportInv

\* A report, once begun, is true as far as it goes until it is handed over.
THEOREM ReportInvariant == LifecycleSpec => []ReportInv
<1>1. LifecycleInit => ReportInv
  BY DEF LifecycleInit, ReportInv
<1>2. TypeOK /\ HistoryInv /\ ReportInv /\ [LifecycleNext]_<<vars, report>> => ReportInv'
  <2> SUFFICES ASSUME TypeOK, HistoryInv, ReportInv, [LifecycleNext]_<<vars, report>>
               PROVE  ReportInv'
    OBVIOUS
  <2>1. CASE Next /\ UNCHANGED report
    BY <2>1, HistoryExtended, ReportFrame
  <2>2. CASE UNCHANGED <<vars, report>>
    BY <2>2, HistoryExtended, ReportFrame
  <2>3. CASE HandOver
    BY <2>3 DEF HandOver, ReportInv
  <2> QED BY <2>1, <2>2, <2>3, OwnedStep, LinkedStep, StatusStep DEF LifecycleNext
<1> QED BY <1>1, <1>2, ReaderHistory, PTL DEF LifecycleSpec

\* A trajectory with a consequence that came after a request for review shows
\* the review, and leaves out no earlier Act of the Command.
THEOREM StoryIsWhole == LifecycleSpec => []TrajectoryShowsReview
<1>1. ReportInv => TrajectoryShowsReview
  BY DEF ReportInv, NoReport, StoryTold, TrajectoryShowsReview
<1> QED BY <1>1, ReportInvariant, PTL

\* The status that is told last is not behind the Acts that were read first.
THEOREM StatusIsNewer == LifecycleSpec => []StatusNotBehind
<1>1. ReportInv => StatusNotBehind
  BY DEF ReportInv, NoReport, StatusKept, StatusNotBehind
<1> QED BY <1>1, ReportInvariant, PTL
=============================================================================
