---------------------------- MODULE MemoryLedger ----------------------------
(***************************************************************************)
(* The Gate over the store in one process (kernel/memory.py,               *)
(* ledger/memory.py), which the conformance tests and a development server *)
(* without DATABASE_URL use.  Its commit_act judges nothing: no cut, no    *)
(* reference, no vocabulary.  What keeps history lawful there is that one  *)
(* call ends before the next begins, as in those tests, so that the Gate's *)
(* checks still hold when the Act is appended.  Of the Decision nothing is *)
(* presumed.  Its Registry is what the tests register, at Acts that are    *)
(* there.  All of it is gone with the process.                             *)
(***************************************************************************)
EXTENDS CommitGate

\* Mutant: calls overlap, as they may over Postgres.
EnterAtOnce(w) == \E cut \in DeclaredCuts : CallGate(w, cut)

\* The tests call the Gate from one thread, each call after the last returned.
\* A Decision may come with any cut, known or not, and any Registry cut.
Enter(w) ==
  /\ \A v \in Workers : At(v, "idle")
  /\ \E cut \in DeclaredCuts : CallGate(w, cut)

\* append_act: unique by its own hash, and nothing else.
AppendAct(w) ==
  /\ At(w, "rpc")
  /\ \/ /\ \E i \in Present(w) : answer' = [answer EXCEPT ![w] = i]
        /\ UNCHANGED history
     \/ /\ Present(w) = {}
        /\ Len(history) < MaxHistory
        /\ history' = Append(history, proposal[w])
        /\ answer' = [answer EXCEPT ![w] = Len(history) + 1]
  /\ Goto(w, "answered")
  /\ UNCHANGED <<cas, proposal, outcome, linked>>

\* The bound: a call that would go beyond it is given up.
GiveUp(w) == At(w, "rpc") /\ Len(history) >= MaxHistory /\ Present(w) = {} /\ Leave(w)

MemoryNext ==
  \/ \E r \in Requests : StorePayload(r)
  \/ \E w \in Workers :
       \/ Enter(w) \/ FindOccurrence(w)
       \/ CheckOutcome(w) \/ CheckConsequence(w) \/ ReadChain(w)
       \/ CheckProof(w) \/ CheckCut(w) \/ CheckReferences(w)
       \/ PutCommand(w) \/ PutContext(w) \/ AppendAct(w)
       \/ ~At(w, "rpc") /\ Refuse(w)
       \/ Return(w) \/ GiveUp(w)

MemorySpec == Init /\ [][MemoryNext]_vars
-----------------------------------------------------------------------------
\* Although the store takes whatever it is given, an Act is lawful on the history
\* it lands on, whatever cuts its Decision declared.  It need not be admissible:
\* links and entries of its Registry cut that name nothing, types given by the
\* hash of their entry and Identities without a row get in.  The conformance
\* tests show the Gate's law and not the store's.
GateStandsAlone ==
  [][\E w \in Workers :
       /\ history' = Append(history, proposal[w])
       /\ Lawful(history, proposal[w])]_history
=============================================================================
