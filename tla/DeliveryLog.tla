---------------------------- MODULE DeliveryLog -----------------------------
(***************************************************************************)
(* What the webhook inbox promises, without its files: of every delivery   *)
(* the first copy that was recorded stays, and nobody is told that a       *)
(* delivery was accepted before it is on record, unless the recording of   *)
(* it was cut off.  GitHubIngress refines this specification.              *)
(***************************************************************************)
EXTENDS Naturals

CONSTANT Deliveries

VARIABLES
  log,      \* which copy of each delivery is on record, 0 for none
  cutOff,   \* deliveries whose recording was cut off at least once
  told      \* deliveries GitHub was told were accepted

logVars == <<log, cutOff, told>>

LogInit ==
  /\ log = [d \in Deliveries |-> 0]
  /\ cutOff = {}
  /\ told = {}

Record(d) ==
  /\ log[d] = 0
  /\ log' = [log EXCEPT ![d] = log'[d]]
  /\ log'[d] \in Nat \ {0}
  /\ UNCHANGED <<cutOff, told>>

CutOff(d) ==
  /\ cutOff' = cutOff \cup {d}
  /\ UNCHANGED <<log, told>>

Tell(d) ==
  /\ log[d] # 0 \/ d \in cutOff
  /\ told' = told \cup {d}
  /\ UNCHANGED <<log, cutOff>>

LogSpec == LogInit /\ [][\E d \in Deliveries : Record(d) \/ CutOff(d) \/ Tell(d)]_logVars
=============================================================================
