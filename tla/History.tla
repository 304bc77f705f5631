------------------------------ MODULE History -------------------------------
(***************************************************************************)
(* What the Commit Gate promises, without the Gate: one history, to which  *)
(* Acts are added one at a time, each judged against the whole history it  *)
(* lands on.  CommitGate refines this specification.                       *)
(***************************************************************************)
EXTENDS Acts

CONSTANT GenesisAct    \* the Act that closes Genesis

VARIABLE history

\* Genesis admits its Acts by ceremony, outside the Gate; here it is one Act,
\* with nothing before it to refer to.
ASSUME GenesisAssumption ==
  /\ GenesisAct \in Act
  /\ GenesisAct.cut = {} /\ GenesisAct.chain = {} /\ GenesisAct.registry = {}
  /\ Parents[GenesisAct.command] = {}
  /\ IsConsequence(GenesisAct)

\* What the Gate itself demands of an Act on history h, over whatever store.
Lawful(h, a) ==
  /\ a.cut = Places(h)
  /\ a.rules # {}
  /\ Parents[a.command] \subseteq Places(h)
  /\ VocabularyRegistered(h, a)
  /\ IsConsequence(a) => ~HasConsequence(h, a.command)
  /\ ProofFits(h, a.chain \cap Places(h), a)

\* What only the store demands: every reference is to something it has a row of.
Resolvable(h, a) ==
  /\ a.chain \cup a.registry \subseteq Places(h)
  /\ TypesNamed(a)
  /\ a.command \in Identified

\* An Act that history h may take next.
Admissible(h, a) == Lawful(h, a) /\ Resolvable(h, a)

HistoryInit == history = <<GenesisAct>>

LastAct(h) == h[Len(h)]

\* The only step: the next history ends in an Act that was admissible.
Place ==
  /\ history' = Append(history, LastAct(history'))
  /\ LastAct(history') \in Act
  /\ Admissible(history, LastAct(history'))

HistorySpec == HistoryInit /\ [][Place]_history
-----------------------------------------------------------------------------
(* Properties of every history.                                             *)

\* PF-13: every Act was decided against exactly the history it landed on.  The
\* Decision was made many transactions before the RPC, so this is what the
\* comparison of cuts buys.
ExactCut == \A i \in Places(history) : history[i].cut = 1 .. (i - 1)

\* PF-23: no two places hold the same content, however often and however
\* concurrently it is submitted.
UniqueOccurrence ==
  \A i, j \in Places(history) : history[i] = history[j] => i = j

\* A Command buys its change once (section 6.1), whatever two workers read
\* before either of them commits.
OneConsequence ==
  \A i, j \in Places(history) :
    /\ IsConsequence(history[i]) /\ IsConsequence(history[j])
    /\ history[i].command = history[j].command
    => i = j

\* PF-10: everything an Act refers to precedes it, so ancestry has no cycle.
Acyclic ==
  \A i \in Places(history) :
    Parents[history[i].command] \cup history[i].chain \cup history[i].registry
      \subseteq 1 .. (i - 1)

\* Place r of h resolves the review of Command c: it names, before itself, the
\* request it resolves and a review of this very Command.
Resolves(h, r, c) ==
  /\ h[r].type = "AuthorizationResolved" /\ h[r].command = c
  /\ \E q \in h[r].chain :
       q < r /\ h[q].type = "ReviewRequested" /\ h[q].command = c
  /\ \E v \in h[r].chain :
       /\ v < r /\ h[v].type = "AuthorizationReviewed"
       /\ ReviewTarget[h[v].command] = c
       /\ CommandType[h[v].command] = ReviewCommandType

\* A Command once sent to review reaches consequence only through a resolution
\* in the Act's own chain that stands on a review of that Command (section 8.1).
ReviewedConsequence ==
  \A i \in Places(history) :
    /\ IsConsequence(history[i])
    /\ \E k \in 1 .. (i - 1) :
         history[k].type = "ReviewRequested" /\ history[k].command = history[i].command
    => \E r \in history[i].chain : r < i /\ Resolves(history, r, history[i].command)

\* An Act uses only vocabulary born before it.
VocabularyBornFirst ==
  \A i \in 2 .. Len(history) :
    \A name \in {CommandType[history[i].command], history[i].type}
                  \cup history[i].rules \cup ContextKeys[history[i].context] :
      Born[name] \in history[i].registry /\ Born[name] < i

\* "ReviewRequested blocks the Command until AuthorizationResolved": a request
\* for review stands resolved, after it was made, before the consequence.
NoConsequenceWhilePending ==
  \A i \in Places(history) : \A k \in 1 .. (i - 1) :
    /\ IsConsequence(history[i])
    /\ history[k].type = "ReviewRequested" /\ history[k].command = history[i].command
    => \E r \in (k + 1) .. (i - 1) :
         history[r].type = "AuthorizationResolved" /\ history[r].command = history[i].command
=============================================================================
