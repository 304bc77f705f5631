------------------------------ MODULE Lifecycle -----------------------------
(***************************************************************************)
(* LifecycleService (service/lifecycle.py): what a reader of history is    *)
(* told of a Command, while the Gate goes on.  status() is one query and a *)
(* function of the history it meets.  trajectory() is several: the Acts of *)
(* the Command, then the Acts they link, then the status, each from the    *)
(* history of its own moment.  The properties say what these answers are   *)
(* worth.                                                                  *)
(***************************************************************************)
EXTENDS CommitGate

CONSTANT Watched   \* bound: the Commands whose trajectory is asked for

ASSUME WatchedAssumption == Watched \subseteq Commands

\* A Command commits to the hash of its payload, which cannot hold the hash of
\* the Command.
ASSUME NoSelfReview == \A c \in Commands : ReviewTarget[c] # c

VARIABLE report    \* what the reader has so far

Terminal == {"CommandRejected", "CommandDenied", "CommandSuperseded", "CommandExpired"}

Recorded(h, c) == {h[i].type : i \in ActsFor(h, c)} \cap LifecycleActTypes

\* min() picks by the alphabet.
TerminalOrder == <<"CommandDenied", "CommandExpired", "CommandRejected", "CommandSuperseded">>
FirstTerminal(types) ==
  TerminalOrder[CHOOSE k \in 1 .. 4 :
    TerminalOrder[k] \in types /\ \A j \in 1 .. (k - 1) : TerminalOrder[j] \notin types]

\* Mutant: a terminal stage is reported whatever came of the Command since.
StatusTerminalFirst(h, c) ==
  LET recorded == Recorded(h, c)
      reviewing == "ReviewRequested" \in recorded /\ "AuthorizationResolved" \notin recorded
  IN  IF recorded \cap Terminal # {} THEN FirstTerminal(recorded \cap Terminal)
      ELSE IF HasConsequence(h, c) THEN "committed"
      ELSE IF reviewing THEN "pending_review"
      ELSE IF recorded # {} THEN "pending"
      ELSE "not_submitted"

Status(h, c) ==
  LET recorded == Recorded(h, c)
      terminal == recorded \cap Terminal
      reviewing == "ReviewRequested" \in recorded /\ "AuthorizationResolved" \notin recorded
  IN  IF HasConsequence(h, c) THEN "committed"
      ELSE IF terminal # {} THEN FirstTerminal(terminal)
      ELSE IF reviewing THEN "pending_review"
      ELSE IF recorded # {} THEN "pending"
      ELSE "not_submitted"

-----------------------------------------------------------------------------
(* trajectory.                                                              *)

Statuses == {"committed", "pending_review", "pending", "not_submitted"} \cup Terminal

NoReport == [stage |-> "none"]

Report == {NoReport} \cup
  [stage : {"owned", "linked", "told"}, of : Watched, owned : SUBSET Nat,
   taking : SUBSET Nat, status : Statuses]

\* get_acts_for_command: the Acts that are the Command's own.
ReadOwned ==
  \E c \in Watched :
    /\ report = NoReport
    /\ report' = [stage |-> "owned", of |-> c, owned |-> ActsFor(history, c),
                  taking |-> {}, status |-> "not_submitted"]
    /\ UNCHANGED vars

\* Mutant: only what the consequence itself names takes part.
LinkedByConsequence(owned) ==
  (UNION {history[i].chain \cap Places(history) : i \in {j \in owned : IsConsequence(history[j])}})
    \ owned

\* The Acts of other Commands that took part: one link deep, unknown ones dropped.
Linked(owned) == (UNION {history[i].chain \cap Places(history) : i \in owned}) \ owned

\* get_act of every link: a link of a placed Act is there or never will be, so
\* that one step does for many.
ReadLinked ==
  /\ report.stage = "owned"
  /\ report' = [report EXCEPT !.stage = "linked", !.taking = Linked(report.owned)]
  /\ UNCHANGED vars

\* status, asked for last, of the history there is by then.
ReadStatus ==
  /\ report.stage = "linked"
  /\ report' = [report EXCEPT !.stage = "told", !.status = Status(history, report.of)]
  /\ UNCHANGED vars

HandOver ==
  /\ report.stage = "told"
  /\ report' = NoReport
  /\ UNCHANGED vars

LifecycleInit == Init /\ report = NoReport

LifecycleNext ==
  \/ Next /\ UNCHANGED report
  \/ ReadOwned \/ ReadLinked \/ ReadStatus \/ HandOver

LifecycleSpec == LifecycleInit /\ [][LifecycleNext]_<<vars, report>>
-----------------------------------------------------------------------------
(* Properties.                                                              *)

\* "ReviewRequested blocks the Command until AuthorizationResolved": a Command
\* reported as pending review is not the next to have its consequence.
PendingReviewBlocks ==
  [][\A c \in Commands :
       Status(history, c) = "pending_review" => Status(history', c) # "committed"]_history

\* What a report shows as the Command's own is the Command's own, up to one
\* moment of its history: nothing older is left out.
OwnedIsPrefix(r) ==
  \E n \in 0 .. Len(history) : r.owned = ActsFor(history, r.of) \cap (1 .. n)

\* A trajectory tells the review story in full, although its Acts and their
\* links are read at different moments: when it shows a consequence that came
\* after a request for review, it shows a review of it by another Command.
TrajectoryShowsReview ==
  report.stage \in {"linked", "told"} =>
    /\ OwnedIsPrefix(report)
    /\ \A i, k \in report.owned :
         /\ k < i /\ history[k].type = "ReviewRequested" /\ IsConsequence(history[i])
         => \E v \in report.taking :
              /\ history[v].type = "AuthorizationReviewed"
              /\ ReviewTarget[history[v].command] = report.of

\* The status that goes with a trajectory may be newer than its Acts, never
\* older: what the Acts show as bought is reported as committed, and a Command
\* with Acts is not reported as never submitted.
StatusNotBehind ==
  report.stage = "told" =>
    /\ (\E i \in report.owned : IsConsequence(history[i])) => report.status = "committed"
    /\ report.status = "not_submitted" => report.owned = {}
    /\ report.status = "pending_review" =>
         \A i \in report.owned : history[i].type # "AuthorizationResolved"
=============================================================================
