----------------------- MODULE PrincipalBindingsProofs ----------------------
(***************************************************************************)
(* What the table of principal bindings guarantees, for any number of      *)
(* workers, principals and Acts, whether or not processes die between an   *)
(* Act and its projection.                                                 *)
(***************************************************************************)
EXTENDS PrincipalBindings, TLAPS

\* What a worker holds between its transactions is still so when it uses it: the
\* Command it carries out, the Act that was returned for it, and the link behind
\* the Identity it acts for.  Acts are never removed, which is why it is.
Knows(w) ==
  /\ step[w] # "idle" => doing[w] \in Command
  /\ step[w] = "committed" =>
       act[w] \in DOMAIN acts /\ acts[act[w]].command = doing[w]
  /\ step[w] = "resolved" /\ doing[w].kind = "Used" =>
       \E k \in ActsOf("PrincipalLinked", doing[w].principal) :
         acts[k].command.identity = requester[w]

WorkerInv == \A w \in Workers : Knows(w)

BindingsInv ==
  TypeOK /\ RowsHaveEvidence /\ OneLiveBinding /\ UsedByLinked /\ WorkerInv

-----------------------------------------------------------------------------
(* Acts.                                                                    *)

\* What is placed keeps its place, and the new Act is at the end.
LEMMA Appended ==
  ASSUME NEW S, acts \in Seq(S), NEW e \in S, acts' = Append(acts, e)
  PROVE  /\ acts' \in Seq(S)
         /\ DOMAIN acts \subseteq DOMAIN acts'
         /\ DOMAIN acts' = DOMAIN acts \cup {Len(acts) + 1}
         /\ \A i \in DOMAIN acts : acts'[i] = acts[i]
         /\ acts'[Len(acts) + 1] = e
         /\ \A i \in DOMAIN acts : i < Len(acts) + 1
  OBVIOUS

\* A Command is of one of three kinds, and only a link names an Identity.
LEMMA Kinds ==
  ASSUME NEW c \in Command
  PROVE  /\ c.principal \in Principals
         /\ c.kind = "PrincipalLinked" => c.identity \in Identities
  BY DEF Command

\* What a call leaves behind.
LEMMA LeaveTypes ==
  ASSUME TypeOK, NEW w \in Workers, Leave(w)
  PROVE  /\ step' \in [Workers -> Steps]
         /\ doing' \in [Workers -> Command \cup {NoCommand}]
         /\ requester' \in [Workers -> Identities \cup {Nobody}]
         /\ cut' \in [Workers -> Nat]
         /\ act' \in [Workers -> DOMAIN acts \cup {0}]
  BY DEF TypeOK, Leave, Go, Steps

-----------------------------------------------------------------------------
(* Types.                                                                   *)

\* The two projections write rows of the right type.
LEMMA ProjectionTypes ==
  ASSUME BindingsInv, NEW w \in Workers, ProjectLink(w) \/ ProjectRevoke(w)
  PROVE  bindings' \subseteq [principal : Principals, identity : Identities,
                              linked : DOMAIN acts, unlinked : DOMAIN acts \cup {0}]
<1>1. step[w] = "committed" /\ doing[w] \in Command /\ act[w] \in DOMAIN acts
  BY DEF ProjectLink, ProjectRevoke, BindingsInv, WorkerInv, Knows
<1>2. CASE ProjectLink(w)
  BY <1>1, <1>2, Kinds DEF ProjectLink, BindingsInv, TypeOK, Row
<1>3. CASE ProjectRevoke(w)
  <2> SUFFICES ASSUME NEW r \in bindings'
               PROVE  r \in [principal : Principals, identity : Identities,
                             linked : DOMAIN acts, unlinked : DOMAIN acts \cup {0}]
    OBVIOUS
  <2>1. CASE r \in bindings
    BY <2>1 DEF BindingsInv, TypeOK
  <2>2. CASE \E b \in bindings : r = [b EXCEPT !.unlinked = act[w]]
    BY <1>1, <2>2 DEF BindingsInv, TypeOK
  <2> QED BY <1>3, <2>1, <2>2 DEF ProjectRevoke, Live
<1> QED BY <1>2, <1>3

\* The type invariant is kept by every step.
LEMMA TypeStep == BindingsInv /\ [Next]_vars => TypeOK'
<1> SUFFICES ASSUME BindingsInv, [Next]_vars PROVE TypeOK'
  OBVIOUS
<1>1. CASE UNCHANGED vars
  BY <1>1 DEF BindingsInv, TypeOK, vars
<1>2. CASE Next
  <2>1. PICK w \in Workers :
          \/ Begin(w) \/ Resolve(w) \/ Commit(w) \/ ProjectLink(w) \/ ProjectRevoke(w)
          \/ Return(w) \/ Refuse(w) \/ Crash(w)
    BY <1>2 DEF Next
  <2>2. CASE Begin(w)
    BY <2>2 DEF BindingsInv, TypeOK, Begin, Go, Steps
  <2>3. CASE Resolve(w)
    <3>1. \A b \in bindings : b.identity \in Identities
      BY DEF BindingsInv, TypeOK
    <3>2. requester' \in [Workers -> Identities \cup {Nobody}]
      BY <2>3, <3>1 DEF BindingsInv, TypeOK, Resolve, Live
    <3> QED BY <3>2, <2>3 DEF BindingsInv, TypeOK, Resolve, Go, Steps
  <2>4. CASE Commit(w)
    <3>1. CASE UNCHANGED acts /\ \E i \in Bought(doing[w]) : act' = [act EXCEPT ![w] = i]
      BY <2>4, <3>1 DEF BindingsInv, TypeOK, Commit, Go, Steps, Bought
    <3>2. CASE acts' = Append(acts, [command |-> doing[w], requester |-> requester[w]])
               /\ act' = [act EXCEPT ![w] = Len(acts) + 1]
      <4> DEFINE e == [command |-> doing[w], requester |-> requester[w]]
      <4>1. doing[w] \in Command
        BY <2>4 DEF BindingsInv, WorkerInv, Knows, Commit
      <4>2. e \in [command : Command, requester : Identities \cup {Nobody}]
        BY <4>1 DEF BindingsInv, TypeOK
      <4>3. acts \in Seq([command : Command, requester : Identities \cup {Nobody}])
        BY DEF BindingsInv, TypeOK
      <4>4. /\ acts' \in Seq([command : Command, requester : Identities \cup {Nobody}])
            /\ DOMAIN acts \subseteq DOMAIN acts'
            /\ Len(acts) + 1 \in DOMAIN acts'
        <5> HIDE DEF e
        <5> QED BY <3>2, <4>2, <4>3, Appended DEF e
      <4> QED BY <2>4, <3>2, <4>4 DEF BindingsInv, TypeOK, Commit, Go, Steps
    <3> QED BY <2>4, <3>1, <3>2 DEF Commit
  <2>5. CASE ProjectLink(w) \/ ProjectRevoke(w)
    BY <2>5, ProjectionTypes, LeaveTypes
    DEF BindingsInv, TypeOK, ProjectLink, ProjectRevoke
  <2>6. CASE Return(w) \/ Refuse(w) \/ Crash(w)
    BY <2>6, LeaveTypes DEF BindingsInv, TypeOK, Return, Refuse, Crash
  <2> QED BY <2>1, <2>2, <2>3, <2>4, <2>5, <2>6
<1> QED BY <1>1, <1>2
-----------------------------------------------------------------------------
(* Workers.                                                                 *)

\* A worker's knowledge of Acts survives whatever others place.
LEMMA WorkerFrame ==
  ASSUME BindingsInv, NEW v \in Workers,
         UNCHANGED <<step[v], doing[v], requester[v], act[v]>>,
         DOMAIN acts \subseteq DOMAIN acts',
         \A i \in DOMAIN acts : acts'[i] = acts[i]
  PROVE  Knows(v)'
<1>1. Knows(v)
  BY DEF BindingsInv, WorkerInv
<1>2. /\ step'[v] = step[v] /\ doing'[v] = doing[v]
      /\ requester'[v] = requester[v] /\ act'[v] = act[v]
  OBVIOUS
<1>3. step'[v] = "resolved" /\ doing'[v].kind = "Used" =>
        \E k \in ActsOf("PrincipalLinked", doing[v].principal)' :
          acts'[k].command.identity = requester'[v]
  <2> SUFFICES ASSUME step[v] = "resolved", doing[v].kind = "Used"
               PROVE  \E k \in ActsOf("PrincipalLinked", doing[v].principal)' :
                        acts'[k].command.identity = requester'[v]
    BY <1>2
  <2>1. PICK k \in ActsOf("PrincipalLinked", doing[v].principal) :
          acts[k].command.identity = requester[v]
    BY <1>1 DEF Knows
  <2> QED BY <2>1, <1>2 DEF ActsOf
<1> QED BY <1>1, <1>2, <1>3 DEF Knows

\* A step changes what it says of one worker only, and the Acts by at most one.
LEMMA Frame ==
  ASSUME BindingsInv, Next
  PROVE  /\ DOMAIN acts \subseteq DOMAIN acts'
         /\ \A i \in DOMAIN acts : acts'[i] = acts[i]
<1>1. CASE UNCHANGED acts
  BY <1>1
<1>2. CASE \E w \in Workers : Commit(w)
  <2>1. PICK w \in Workers : Commit(w)
    BY <1>2
  <2>2. CASE acts' = Append(acts, [command |-> doing[w], requester |-> requester[w]])
    <3> DEFINE e == [command |-> doing[w], requester |-> requester[w]]
               S == [command : Command, requester : Identities \cup {Nobody}]
    <3>1. e \in S /\ acts \in Seq(S) /\ acts' = Append(acts, e)
      BY <2>1, <2>2 DEF BindingsInv, TypeOK, WorkerInv, Knows, Commit
    <3> HIDE DEF e, S
    <3> QED BY <3>1, Appended
  <2> QED BY <2>1, <2>2 DEF Commit
<1> QED BY <1>1, <1>2 DEF Next, Begin, Resolve, ProjectLink, ProjectRevoke, Return, Refuse, Crash

\* The worker invariant is kept by every step.
LEMMA WorkerStep == BindingsInv /\ [Next]_vars => WorkerInv'
<1> SUFFICES ASSUME BindingsInv, [Next]_vars PROVE WorkerInv'
  OBVIOUS
<1>1. CASE UNCHANGED vars
  BY <1>1 DEF BindingsInv, WorkerInv, Knows, ActsOf, vars
<1>2. CASE Next
  <2> USE DEF BindingsInv
  <2>0. TypeOK
    OBVIOUS
  <2>1. PICK w \in Workers :
          \/ Begin(w) \/ Resolve(w) \/ Commit(w) \/ ProjectLink(w) \/ ProjectRevoke(w)
          \/ Return(w) \/ Refuse(w) \/ Crash(w)
    BY <1>2 DEF Next
  <2>2. ASSUME NEW v \in Workers, v # w
        PROVE  UNCHANGED <<step[v], doing[v], requester[v], act[v]>>
    BY <2>0, <2>1, <2>2
    DEF TypeOK, Begin, Resolve, Commit, ProjectLink, ProjectRevoke, Return, Refuse, Crash,
        Leave, Go
  <2>3. CASE Begin(w)
    <3>1. step'[w] = "read" /\ doing'[w] \in Command
      BY <2>0, <2>3 DEF TypeOK, Begin, Go
    <3> QED BY <3>1, <2>2, <1>2, Frame, WorkerFrame DEF WorkerInv, Knows
  <2>4. CASE Resolve(w)
    <3>1. step'[w] = "resolved" /\ doing' = doing /\ doing[w] \in Command /\ acts' = acts
      BY <2>0, <2>4 DEF TypeOK, Resolve, Go, WorkerInv, Knows
    <3>2. ASSUME doing[w].kind = "Used"
          PROVE  \E k \in ActsOf("PrincipalLinked", doing[w].principal) :
                   acts[k].command.identity = requester'[w]
      <4>1. PICK b \in Live(doing[w].principal) : requester'[w] = b.identity
        BY <2>0, <2>4, <3>2 DEF TypeOK, Resolve
      <4> QED BY <4>1 DEF Live, RowsHaveEvidence
    <3>3. doing'[w].kind = "Used" =>
            \E k \in ActsOf("PrincipalLinked", doing[w].principal)' :
              acts'[k].command.identity = requester'[w]
      BY <3>1, <3>2 DEF ActsOf
    <3> QED BY <3>1, <3>3, <2>2, <1>2, Frame, WorkerFrame DEF WorkerInv, Knows
  <2>5. CASE Commit(w)
    <3>1. step'[w] = "committed" /\ doing' = doing /\ doing[w] \in Command
      BY <2>0, <2>5 DEF TypeOK, Commit, Go, WorkerInv, Knows
    <3>2. act'[w] \in DOMAIN acts' /\ acts'[act'[w]].command = doing[w]
      <4>1. CASE UNCHANGED acts /\ \E i \in Bought(doing[w]) : act' = [act EXCEPT ![w] = i]
        BY <2>0, <4>1 DEF TypeOK, Bought
      <4>2. CASE /\ acts' = Append(acts, [command |-> doing[w], requester |-> requester[w]])
                 /\ act' = [act EXCEPT ![w] = Len(acts) + 1]
        <5> DEFINE e == [command |-> doing[w], requester |-> requester[w]]
                   S == [command : Command, requester : Identities \cup {Nobody}]
        <5>1. e \in S /\ acts \in Seq(S) /\ acts' = Append(acts, e) /\ e.command = doing[w]
          BY <2>0, <3>1, <4>2 DEF TypeOK
        <5>2. act'[w] = Len(acts) + 1
          BY <2>0, <4>2 DEF TypeOK
        <5> HIDE DEF e, S
        <5> QED BY <5>1, <5>2, Appended
      <4> QED BY <2>5, <4>1, <4>2 DEF Commit
    <3> QED BY <3>1, <3>2, <2>2, <1>2, Frame, WorkerFrame DEF WorkerInv, Knows
  <2>6. CASE ProjectLink(w) \/ ProjectRevoke(w) \/ Return(w) \/ Refuse(w) \/ Crash(w)
    <3>1. step'[w] = "idle"
      BY <2>0, <2>6
      DEF TypeOK, ProjectLink, ProjectRevoke, Return, Refuse, Crash, Leave, Go
    <3> QED BY <3>1, <2>2, <1>2, Frame, WorkerFrame DEF WorkerInv, Knows
  <2> QED BY <2>1, <2>3, <2>4, <2>5, <2>6
<1> QED BY <1>1, <1>2
-----------------------------------------------------------------------------
(* Rows.                                                                    *)

\* Acts that are placed stay evidence.
LEMMA EvidenceStays ==
  ASSUME BindingsInv, Next, UNCHANGED bindings
  PROVE  RowsHaveEvidence' /\ OneLiveBinding'
<1>1. /\ DOMAIN acts \subseteq DOMAIN acts'
      /\ \A i \in DOMAIN acts : acts'[i] = acts[i]
  BY Frame
<1>2. RowsHaveEvidence'
  BY <1>1 DEF BindingsInv, RowsHaveEvidence, ActsOf
<1> QED BY <1>2 DEF BindingsInv, OneLiveBinding

\* A new row is the projection of its Act, and the only one of it; a row of the
\* same principal is live no more.
LEMMA LinkStep ==
  ASSUME BindingsInv, NEW w \in Workers, ProjectLink(w)
  PROVE  RowsHaveEvidence' /\ OneLiveBinding'
<1> DEFINE p == doing[w].principal
           row == Row(p, doing[w].identity, act[w], 0)
<1>1. /\ act[w] \in ActsOf("PrincipalLinked", p)
      /\ acts[act[w]].command.identity = doing[w].identity
  BY DEF BindingsInv, WorkerInv, Knows, ProjectLink, ActsOf
<1>2. acts' = acts
  BY DEF ProjectLink
<1>3. CASE bindings' = bindings
  BY <1>2, <1>3 DEF BindingsInv, RowsHaveEvidence, OneLiveBinding, ActsOf
<1>4. CASE /\ bindings' = bindings \cup {row}
           /\ Live(p) = {}
           /\ ~\E b \in bindings : b.principal = p /\ b.linked = act[w]
  <2>1. row.principal = p /\ row.linked = act[w] /\ row.unlinked = 0
        /\ row.identity = doing[w].identity
    BY DEF Row
  <2>2. \A b \in bindings : b.linked # act[w]
    BY <1>1, <1>4 DEF BindingsInv, RowsHaveEvidence, ActsOf
  <2>3. RowsHaveEvidence'
    <3> SUFFICES ASSUME NEW b \in bindings'
                 PROVE  /\ b.linked \in ActsOf("PrincipalLinked", b.principal)
                        /\ acts[b.linked].command.identity = b.identity
                        /\ b.unlinked # 0 => b.unlinked \in ActsOf("PrincipalRevoked", b.principal)
                        /\ \A d \in bindings' : d.linked = b.linked => d = b
      BY <1>2 DEF RowsHaveEvidence, ActsOf
    <3> HIDE DEF row, p
    <3>1. CASE b = row
      BY <3>1, <1>1, <1>4, <2>1, <2>2
    <3>2. CASE b \in bindings
      BY <3>2, <1>4, <2>1, <2>2 DEF BindingsInv, RowsHaveEvidence
    <3> QED BY <1>4, <3>1, <3>2
  <2>4. OneLiveBinding'
    <3>1. \A b \in bindings : b.principal = p => b.unlinked # 0
      BY <1>4 DEF Live
    <3> HIDE DEF row, p
    <3> QED BY <1>4, <2>1, <3>1 DEF BindingsInv, OneLiveBinding
  <2> QED BY <2>3, <2>4
<1> QED BY <1>3, <1>4 DEF ProjectLink

\* A row that is closed names the revocation that closed it, and keeps the rest.
LEMMA RevokeStep ==
  ASSUME BindingsInv, NEW w \in Workers, ProjectRevoke(w)
  PROVE  RowsHaveEvidence' /\ OneLiveBinding'
<1> DEFINE p == doing[w].principal
           live == Live(p)
           Closed(b) == [b EXCEPT !.unlinked = act[w]]
<1>1. act[w] \in ActsOf("PrincipalRevoked", p) /\ act[w] # 0
  BY DEF BindingsInv, TypeOK, WorkerInv, Knows, ProjectRevoke, ActsOf
<1>2. acts' = acts
  BY DEF ProjectRevoke
<1>3. bindings' = (bindings \ live) \cup {Closed(b) : b \in live}
  BY DEF ProjectRevoke
<1>4. \A b \in live : /\ b \in bindings /\ b.principal = p
                      /\ Closed(b).principal = p /\ Closed(b).identity = b.identity
                      /\ Closed(b).linked = b.linked /\ Closed(b).unlinked = act[w]
  BY DEF Live, BindingsInv, TypeOK
<1>5. \A r \in bindings' :
        \/ r \in bindings \ live
        \/ \E b \in live : r = Closed(b)
  BY <1>3
<1>6. \A r \in bindings \ live : r.principal = p => r.unlinked # 0
  BY DEF Live
<1> HIDE DEF Closed, live, p
<1>7. \A r \in bindings' :
        \E b \in bindings : /\ r.linked = b.linked /\ r.identity = b.identity
                            /\ r.principal = b.principal
                            /\ r.unlinked # b.unlinked =>
                                 r.unlinked \in ActsOf("PrincipalRevoked", r.principal)
                            /\ r = IF b \in live THEN Closed(b) ELSE b
  BY <1>1, <1>4, <1>5
<1>8. RowsHaveEvidence'
  BY <1>2, <1>7 DEF BindingsInv, RowsHaveEvidence, ActsOf
<1>9. OneLiveBinding'
  <2> SUFFICES ASSUME NEW b \in bindings', NEW d \in bindings',
                      b.principal = d.principal, b.unlinked = 0, d.unlinked = 0
               PROVE  b = d
    BY DEF OneLiveBinding
  <2>1. b \in bindings /\ d \in bindings
    BY <1>1, <1>4, <1>5
  <2> QED BY <2>1 DEF BindingsInv, OneLiveBinding
<1> QED BY <1>8, <1>9

\* Who acts for an Identity has a link of it before the Act.
LEMMA UsedStep ==
  ASSUME BindingsInv, Next
  PROVE  UsedByLinked'
<1>1. /\ DOMAIN acts \subseteq DOMAIN acts'
      /\ \A i \in DOMAIN acts : acts'[i] = acts[i]
  BY Frame
<1>2. CASE UNCHANGED acts
  BY <1>2 DEF BindingsInv, UsedByLinked, ActsOf
<1>3. ASSUME NEW w \in Workers, Commit(w),
             acts' = Append(acts, [command |-> doing[w], requester |-> requester[w]])
      PROVE  UsedByLinked'
  <2> DEFINE e == [command |-> doing[w], requester |-> requester[w]]
             S == [command : Command, requester : Identities \cup {Nobody}]
  <2>1. e \in S /\ acts \in Seq(S) /\ acts' = Append(acts, e)
        /\ e.command = doing[w] /\ e.requester = requester[w]
    BY <1>3 DEF BindingsInv, TypeOK, WorkerInv, Knows, Commit
  <2>2. /\ DOMAIN acts' = DOMAIN acts \cup {Len(acts) + 1}
        /\ acts'[Len(acts) + 1] = e
        /\ \A i \in DOMAIN acts : i < Len(acts) + 1
    <3> HIDE DEF e, S
    <3> QED BY <2>1, Appended
  <2> HIDE DEF e, S
  <2> SUFFICES ASSUME NEW i \in DOMAIN acts', acts'[i].command.kind = "Used"
               PROVE  \E k \in DOMAIN acts :
                        /\ k < i
                        /\ acts[k].command.kind = "PrincipalLinked"
                        /\ acts[k].command.principal = acts'[i].command.principal
                        /\ acts[k].command.identity = acts'[i].requester
    BY <1>1 DEF UsedByLinked, ActsOf
  <2>3. CASE i \in DOMAIN acts
    BY <1>1, <2>3 DEF BindingsInv, UsedByLinked, ActsOf
  <2>4. CASE i = Len(acts) + 1
    <3>1. step[w] = "resolved" /\ doing[w].kind = "Used"
      BY <1>3, <2>1, <2>2, <2>4 DEF Commit
    <3>2. PICK k \in ActsOf("PrincipalLinked", doing[w].principal) :
            acts[k].command.identity = requester[w]
      BY <3>1 DEF BindingsInv, WorkerInv, Knows
    <3> QED BY <2>1, <2>2, <2>4, <3>2 DEF ActsOf
  <2> QED BY <2>2, <2>3, <2>4
<1> QED BY <1>2, <1>3
    DEF Next, Begin, Resolve, Commit, ProjectLink, ProjectRevoke, Return, Refuse, Crash

\* The invariant is inductive.
LEMMA BindingsStep == BindingsInv /\ [Next]_vars => BindingsInv'
<1> SUFFICES ASSUME BindingsInv, [Next]_vars PROVE BindingsInv'
  OBVIOUS
<1>1. TypeOK' /\ WorkerInv'
  BY TypeStep, WorkerStep
<1>2. CASE UNCHANGED vars
  BY <1>1, <1>2 DEF BindingsInv, RowsHaveEvidence, OneLiveBinding, UsedByLinked, ActsOf, vars
<1>3. CASE Next
  <2>1. CASE UNCHANGED bindings
    BY <1>1, <1>3, <2>1, EvidenceStays, UsedStep DEF BindingsInv
  <2>2. CASE \E w \in Workers : ProjectLink(w) \/ ProjectRevoke(w)
    BY <1>1, <1>3, <2>2, LinkStep, RevokeStep, UsedStep DEF BindingsInv
  <2> QED BY <1>3, <2>1, <2>2 DEF Next, Begin, Resolve, Commit, Return, Refuse, Crash
<1> QED BY <1>2, <1>3

-----------------------------------------------------------------------------
(* Theorems.                                                                *)

\* The inductive invariant holds of every behaviour.
THEOREM BindingsInvariant == Spec => []BindingsInv
<1>1. Init => BindingsInv
  BY BindingsAssumption
  DEF Init, BindingsInv, TypeOK, RowsHaveEvidence, OneLiveBinding, UsedByLinked,
      WorkerInv, Knows, ActsOf, Steps
<1> QED BY <1>1, BindingsStep, PTL DEF Spec

\* The variables keep their types.
THEOREM BindingsTyped == Spec => []TypeOK
BY BindingsInvariant, PTL DEF BindingsInv

\* A credential principal controls one Identity at most, whatever order the
\* projections of concurrent links and revocations arrive in.
THEOREM LiveBindingUnique == Spec => []OneLiveBinding
BY BindingsInvariant, PTL DEF BindingsInv

\* Every row is the projection of its Acts.
THEOREM RowsAreProjections == Spec => []RowsHaveEvidence
BY BindingsInvariant, PTL DEF BindingsInv

\* Nobody acts for an Identity that no earlier Act linked the principal to.
THEOREM ActingNeedsLink == Spec => []UsedByLinked
BY BindingsInvariant, PTL DEF BindingsInv

\* No step reopens, changes or removes a row that was closed.
THEOREM ClosedRowsStay == Spec => RevokedRowsStay
<1>1. [Next]_vars => [\A b \in bindings : b.unlinked # 0 => b \in bindings']_bindings
  BY DEF Next, Begin, Resolve, Commit, ProjectLink, ProjectRevoke, Return, Refuse, Crash,
         Live, vars
<1> QED BY <1>1, PTL DEF Spec, RevokedRowsStay
=============================================================================
