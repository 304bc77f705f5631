-------------------------- MODULE PrincipalBindings -------------------------
(***************************************************************************)
(* PrincipalService (service/principals.py), the projection it keeps in    *)
(* principal_bindings (ledger/postgres.py) and IdentityService, which      *)
(* reads it for every other call (service/identity.py).                    *)
(*                                                                         *)
(* The Act and the row are two transactions.  What AuthorityService        *)
(* promises is taken as given: a call gets the Act it already bought, or   *)
(* one placed on exactly the history it was decided on, or a conflict.     *)
(***************************************************************************)
EXTENDS Integers, Sequences

CONSTANTS
  Workers,
  Principals,   \* (issuer, subject) pairs
  Identities,
  Nonces,       \* tell Commands of the same content apart
  NoCommand, Nobody,
  MayCrash,     \* whether a process may die between its two transactions
  MaxActs       \* bound: commits stop at this many Acts

\* Links, revocations, and what a linked principal asks for on its own behalf.
Command ==
  [kind : {"PrincipalLinked"}, principal : Principals, identity : Identities, nonce : Nonces]
    \cup [kind : {"PrincipalRevoked", "Used"}, principal : Principals, nonce : Nonces]

ASSUME BindingsAssumption ==
  /\ NoCommand \notin Command
  /\ Nobody \notin Identities
  /\ MayCrash \in BOOLEAN
  /\ MaxActs \in Nat

VARIABLES
  acts,        \* the Acts of these Commands, in commit order: [command, requester]
  bindings,    \* rows of principal_bindings: unlinked = 0 while the row is live
  step,        \* where each worker is
  doing,       \* the Command it carries out
  requester,   \* who asked, as it was resolved
  cut,         \* how long history was when it was read
  act          \* the Act the commit returned

vars == <<acts, bindings, step, doing, requester, cut, act>>

Steps == {"idle", "read", "resolved", "committed"}
Go(w, s) == step' = [step EXCEPT ![w] = s]

Row(p, i, linked, unlinked) ==
  [principal |-> p, identity |-> i, linked |-> linked, unlinked |-> unlinked]

Live(p) == {b \in bindings : b.principal = p /\ b.unlinked = 0}

Init ==
  /\ acts = <<>>
  /\ bindings = {}
  /\ step = [w \in Workers |-> "idle"]
  /\ doing = [w \in Workers |-> NoCommand]
  /\ requester = [w \in Workers |-> Nobody]
  /\ cut = [w \in Workers |-> 0]
  /\ act = [w \in Workers |-> 0]

Bought(c) == {i \in DOMAIN acts : acts[i].command = c}

\* A call begins, or one that was made before is made again; history_cut is read.
Begin(w) ==
  \E c \in Command :
    /\ step[w] = "idle"
    /\ Bought(c) # {} \/ Len(acts) < MaxActs
    /\ doing' = [doing EXCEPT ![w] = c]
    /\ cut' = [cut EXCEPT ![w] = Len(acts)]
    /\ Go(w, "read")
    /\ UNCHANGED <<acts, bindings, requester, act>>

\* Mutant: the requester is asserted, not resolved.
AssertRequester(w) ==
  /\ step[w] = "read"
  /\ \E i \in Identities : requester' = [requester EXCEPT ![w] = i]
  /\ Go(w, "resolved")
  /\ UNCHANGED <<acts, bindings, doing, cut, act>>

\* Links and revocations are asked for by an administrator, whose own binding
\* is not among these.
Resolve(w) ==
  /\ step[w] = "read"
  /\ IF doing[w].kind = "Used"
       THEN \E b \in Live(doing[w].principal) : requester' = [requester EXCEPT ![w] = b.identity]
       ELSE UNCHANGED requester
  /\ Go(w, "resolved")
  /\ UNCHANGED <<acts, bindings, doing, cut, act>>

\* The settled Act of a Command made again, or a new one.
Commit(w) ==
  /\ step[w] = "resolved"
  /\ \/ /\ \E i \in Bought(doing[w]) :
             /\ acts[i].requester = requester[w]
             /\ act' = [act EXCEPT ![w] = i]
        /\ UNCHANGED acts
     \/ /\ Bought(doing[w]) = {}
        /\ cut[w] = Len(acts)
        /\ Len(acts) < MaxActs
        /\ acts' = Append(acts, [command |-> doing[w], requester |-> requester[w]])
        /\ act' = [act EXCEPT ![w] = Len(acts) + 1]
  /\ Go(w, "committed")
  /\ UNCHANGED <<bindings, doing, requester, cut>>

Leave(w) ==
  /\ Go(w, "idle")
  /\ doing' = [doing EXCEPT ![w] = NoCommand]
  /\ requester' = [requester EXCEPT ![w] = Nobody]
  /\ cut' = [cut EXCEPT ![w] = 0]
  /\ act' = [act EXCEPT ![w] = 0]

\* Mutant: whoever asks is bound, not the Identity of the payload.
LinkRequester(w) ==
  /\ step[w] = "committed" /\ doing[w].kind = "PrincipalLinked"
  /\ bindings' = IF Live(doing[w].principal) # {} THEN bindings
       ELSE bindings \cup {Row(doing[w].principal, requester[w], act[w], 0)}
  /\ Leave(w)
  /\ UNCHANGED acts

\* Mutant: the row of the principal is overwritten, as MemoryLedger's is.
OverwriteLink(w) ==
  /\ step[w] = "committed" /\ doing[w].kind = "PrincipalLinked"
  /\ bindings' = {b \in bindings : b.principal # doing[w].principal}
       \cup {Row(doing[w].principal, doing[w].identity, act[w], 0)}
  /\ Leave(w)
  /\ UNCHANGED acts

\* Mutant: no unique index on the live rows.
InsertLink(w) ==
  /\ step[w] = "committed" /\ doing[w].kind = "PrincipalLinked"
  /\ bindings' = IF \E b \in bindings : b.linked = act[w] THEN bindings
       ELSE bindings \cup {Row(doing[w].principal, doing[w].identity, act[w], 0)}
  /\ Leave(w)
  /\ UNCHANGED acts

\* insert ... on conflict do nothing, under the unique index on live rows: the
\* row of this Act is there, or another row is live and the insert fails, or not.
ProjectLink(w) ==
  /\ step[w] = "committed" /\ doing[w].kind = "PrincipalLinked"
  /\ LET p == doing[w].principal
         there == \E b \in bindings : b.principal = p /\ b.linked = act[w]
     IN  bindings' = IF there \/ Live(p) # {} THEN bindings
                     ELSE bindings \cup {Row(p, doing[w].identity, act[w], 0)}
  /\ Leave(w)
  /\ UNCHANGED acts

\* update ... where unlinked_act is null, whatever row that is by now.
ProjectRevoke(w) ==
  /\ step[w] = "committed" /\ doing[w].kind = "PrincipalRevoked"
  /\ LET live == Live(doing[w].principal)
     IN  bindings' = (bindings \ live) \cup {[b EXCEPT !.unlinked = act[w]] : b \in live}
  /\ Leave(w)
  /\ UNCHANGED acts

Return(w) ==
  /\ step[w] = "committed" /\ doing[w].kind = "Used"
  /\ Leave(w)
  /\ UNCHANGED <<acts, bindings>>

\* An unlinked principal, a Command settled otherwise, history advanced.
Refuse(w) ==
  /\ \/ step[w] = "read" /\ doing[w].kind = "Used" /\ Live(doing[w].principal) = {}
     \/ /\ step[w] = "resolved"
        /\ \/ \E i \in Bought(doing[w]) : acts[i].requester # requester[w]
           \/ Bought(doing[w]) = {} /\ cut[w] # Len(acts)
  /\ Leave(w)
  /\ UNCHANGED <<acts, bindings>>

Crash(w) ==
  /\ MayCrash /\ step[w] # "idle"
  /\ Leave(w)
  /\ UNCHANGED <<acts, bindings>>

Next ==
  \E w \in Workers :
    \/ Begin(w) \/ Resolve(w) \/ Commit(w) \/ ProjectLink(w) \/ ProjectRevoke(w)
    \/ Return(w) \/ Refuse(w) \/ Crash(w)

Spec == Init /\ [][Next]_vars
-----------------------------------------------------------------------------
(* Properties.                                                              *)

ActsOf(kind, p) ==
  {i \in DOMAIN acts : acts[i].command.kind = kind /\ acts[i].command.principal = p}

TypeOK ==
  /\ acts \in Seq([command : Command, requester : Identities \cup {Nobody}])
  /\ bindings \subseteq [principal : Principals, identity : Identities,
                         linked : DOMAIN acts, unlinked : DOMAIN acts \cup {0}]
  /\ step \in [Workers -> Steps]
  /\ doing \in [Workers -> Command \cup {NoCommand}]
  /\ requester \in [Workers -> Identities \cup {Nobody}]
  /\ cut \in [Workers -> Nat]
  /\ act \in [Workers -> DOMAIN acts \cup {0}]

\* A credential principal controls one Identity at most, in whatever order the
\* projections of concurrent links arrive.
OneLiveBinding ==
  \A b, d \in bindings :
    b.principal = d.principal /\ b.unlinked = 0 /\ d.unlinked = 0 => b = d

\* Every row is the projection of one PrincipalLinked Act, closed, if it is, by
\* a PrincipalRevoked Act of the same principal.
RowsHaveEvidence ==
  \A b \in bindings :
    /\ b.linked \in ActsOf("PrincipalLinked", b.principal)
    /\ acts[b.linked].command.identity = b.identity
    /\ b.unlinked # 0 => b.unlinked \in ActsOf("PrincipalRevoked", b.principal)
    /\ \A d \in bindings : d.linked = b.linked => d = b

\* Revoked rows stay as history: no step reopens, changes or removes one.
RevokedRowsStay == [][\A b \in bindings : b.unlinked # 0 => b \in bindings']_bindings

\* Nobody acts for an Identity that no Act before had linked the principal to.
UsedByLinked ==
  \A i \in DOMAIN acts : acts[i].command.kind = "Used" =>
    \E k \in ActsOf("PrincipalLinked", acts[i].command.principal) :
      k < i /\ acts[k].command.identity = acts[i].requester

Quiet == \A w \in Workers : step[w] = "idle"

\* The Identity the Acts up to place n bind p to: a link while one is in force
\* is refused, so it changes nothing.
Rebuilt(p) ==
  LET bound[n \in 0 .. Len(acts)] ==
        IF n = 0 THEN Nobody
        ELSE LET c == acts[n].command
             IN  IF c.principal # p THEN bound[n - 1]
                 ELSE IF c.kind = "PrincipalRevoked" THEN Nobody
                 ELSE IF c.kind = "PrincipalLinked" /\ bound[n - 1] = Nobody THEN c.identity
                 ELSE bound[n - 1]
  IN  bound[Len(acts)]

\* "The table becomes a projection of those Acts": with no call under way, the
\* live binding is the one the Acts rebuild.
ProjectionOfActs ==
  Quiet => \A p \in Principals :
    {b.identity : b \in Live(p)} = {Rebuilt(p)} \ {Nobody}

\* "A stale token that still parses resolves to nothing": a principal whose last
\* binding Act is a revocation has no Act of its own after it.
RevokedResolvesToNothing ==
  \A i \in DOMAIN acts : acts[i].command.kind = "Used" =>
    LET p == acts[i].command.principal
    IN  \A r \in ActsOf("PrincipalRevoked", p) : r < i =>
          \E k \in ActsOf("PrincipalLinked", p) : r < k /\ k < i
=============================================================================
