--------------------------- MODULE GitHubIngress ----------------------------
(***************************************************************************)
(* How GitHub reaches the host: register.py, which registers a GitHub App  *)
(* and stores its credentials, and the webhook route of the worker         *)
(* (protocol/mcp/server.py), which writes deliveries into an inbox of      *)
(* files (worker/github_webhook.py).                                       *)
(*                                                                         *)
(* The route never awaits between its checks and its answer, so a worker   *)
(* handles one delivery at a time; it may be killed, or the host lose      *)
(* power, between any two of its system calls.  What is not yet synced may *)
(* then be lost of the inbox; what register.py has written stays.  GitHub  *)
(* may send a delivery again at any time.                                  *)
(*                                                                         *)
(* The App that a run of register.py registers has the number of that run, *)
(* and so have its credentials.                                            *)
(***************************************************************************)
EXTENDS Naturals, Sequences

CONSTANTS
  Deliveries,   \* delivery ids
  SignedBy,     \* the App whose secret signs each; 0: made with an empty secret
  Sound,        \* those with a known event, a valid id and a JSON object of bounded size
  MaxCopies,    \* bound: a delivery is sent this often
  MaxRuns       \* bound: register.py is run this often

Apps == 1 .. MaxRuns

ASSUME IngressAssumption ==
  /\ MaxCopies \in Nat /\ MaxRuns \in Nat
  /\ SignedBy \in [Deliveries -> Nat]
  /\ Sound \subseteq Deliveries

VARIABLES
  run,       \* how often register.py was started
  stage,     \* where the last run is, see Stages
  captured,  \* the App whose code it has captured, or 0
  store,     \* the App each credential on the host is of, or 0
  worker,    \* the worker process: whether it is up and the secret it was started with
  handler,   \* what its route is doing
  inbox,     \* the file of each delivery
  sent,      \* how often each delivery was sent
  told,      \* deliveries answered with 202
  cutOff     \* deliveries whose file was cut off between its creation and its sync

registration == <<run, stage, captured, store>>
route == <<handler, inbox, sent, told, cutOff>>
vars == <<registration, worker, route>>

\* Mutant: the public state is written with the private key, before the Keychain.
WritesStateEarly ==
  <<"pem", "state", "app-id", "client-id", "client-secret", "webhook-secret">>

\* What register.py writes, in this order: a file, four items of the Keychain
\* and the public state.
Writes == <<"pem", "app-id", "client-id", "client-secret", "webhook-secret", "state">>

Credentials == {"pem", "app-id", "client-id", "client-secret", "webhook-secret", "state"}

\* Not running, waiting for the callback, converting the code, or about to make
\* the n-th write, as n.
Idle == 0
Waiting == 7
Converting == 8
Stages == {Idle, Waiting, Converting} \cup 1 .. 6

Down == [up |-> FALSE, secret |-> 0]

NoFile == [content |-> "absent", copy |-> 0, synced |-> FALSE]

Free == [at |-> "free"]
Busy(at, d) == [at |-> at, delivery |-> d]

Init ==
  /\ run = 0 /\ stage = Idle /\ captured = 0
  /\ store = [c \in Credentials |-> 0]
  /\ worker = Down
  /\ handler = Free
  /\ inbox = [d \in Deliveries |-> NoFile]
  /\ sent = [d \in Deliveries |-> 0]
  /\ told = {} /\ cutOff = {}
-----------------------------------------------------------------------------
(* register.py                                                              *)

Register ==
  /\ stage = Idle /\ run < MaxRuns
  /\ run' = run + 1
  /\ stage' = Waiting
  /\ captured' = 0
  /\ UNCHANGED <<store, worker, route>>

\* A browser comes back to the port, with the consent given to this run or, from
\* a window left open, to an earlier one.  Threads serve it beside the main loop.
Callback(of, approved) ==
  /\ stage = Waiting
  /\ captured' = IF of = run /\ approved THEN of ELSE captured
  /\ UNCHANGED <<run, stage, store, worker, route>>

\* The loop ends at the first callback, whatever it brought, or after ten minutes.
StopWaiting ==
  /\ stage = Waiting
  /\ stage' = IF captured = 0 THEN Idle ELSE Converting
  /\ UNCHANGED <<run, captured, store, worker, route>>

Convert ==
  /\ stage = Converting
  /\ stage' = 1
  /\ UNCHANGED <<run, captured, store, worker, route>>

StoreCredential ==
  /\ stage \in 1 .. 6
  /\ store' = [store EXCEPT ![Writes[stage]] = captured]
  /\ stage' = IF stage = 6 THEN Idle ELSE stage + 1
  /\ UNCHANGED <<run, captured, worker, route>>

\* The run is interrupted, or one of its commands fails.
Interrupt ==
  /\ stage # Idle
  /\ stage' = Idle
  /\ UNCHANGED <<run, captured, store, worker, route>>
-----------------------------------------------------------------------------
(* The worker                                                               *)

\* pf-worker reads the secret once, and starts the worker without one too.
StartWorker ==
  /\ ~worker.up
  /\ worker' = [up |-> TRUE, secret |-> store["webhook-secret"]]
  /\ UNCHANGED <<registration, route>>

\* Mutant: an empty secret is a secret like any other.
AdmittedUnconfigured(d) == SignedBy[d] = worker.secret /\ d \in Sound

\* The secret is configured, the signature made with it, the delivery sound.
Admitted(d) ==
  /\ worker.secret # 0
  /\ SignedBy[d] = worker.secret
  /\ d \in Sound

\* Mutant: the file is opened for writing whether or not it is there.
CreateAnew(d, copy) ==
  /\ inbox' = [inbox EXCEPT ![d] = [content |-> "torn", copy |-> copy, synced |-> FALSE]]
  /\ handler' = Busy("created", d)

\* open(O_CREAT | O_EXCL): the first copy makes the file, another is a duplicate.
Create(d, copy) ==
  IF inbox[d].content = "absent"
    THEN CreateAnew(d, copy)
    ELSE handler' = Busy("accepted", d) /\ UNCHANGED inbox

\* accept_delivery up to the creation of the file.
Receive(d) ==
  /\ worker.up /\ handler = Free
  /\ sent[d] < MaxCopies /\ SignedBy[d] <= run
  /\ sent' = [sent EXCEPT ![d] = @ + 1]
  /\ IF Admitted(d) THEN Create(d, sent[d] + 1)
                    ELSE handler' = Busy("refused", d) /\ UNCHANGED inbox
  /\ UNCHANGED <<registration, worker, told, cutOff>>

Write ==
  /\ handler.at = "created"
  /\ inbox' = [inbox EXCEPT ![handler.delivery].content = "whole"]
  /\ handler' = Busy("written", handler.delivery)
  /\ UNCHANGED <<registration, worker, sent, told, cutOff>>

\* Mutant: the file is left for the system to write back.
LeaveUnsynced ==
  /\ handler.at = "written"
  /\ handler' = Busy("accepted", handler.delivery)
  /\ UNCHANGED <<registration, worker, inbox, sent, told, cutOff>>

Sync ==
  /\ handler.at = "written"
  /\ inbox' = [inbox EXCEPT ![handler.delivery].synced = TRUE]
  /\ handler' = Busy("accepted", handler.delivery)
  /\ UNCHANGED <<registration, worker, sent, told, cutOff>>

\* The disk is full, or fails: an error that the route does not catch, a 500.
WriteFails ==
  /\ handler.at \in {"created", "written"}
  /\ handler' = Busy("refused", handler.delivery)
  /\ cutOff' = cutOff \cup {handler.delivery}
  /\ UNCHANGED <<registration, worker, inbox, sent, told>>

\* 202 for a new delivery and for a duplicate, another status for a refusal.
Respond ==
  /\ handler.at \in {"accepted", "refused"}
  /\ told' = IF handler.at = "accepted" THEN told \cup {handler.delivery} ELSE told
  /\ handler' = Free
  /\ UNCHANGED <<registration, worker, inbox, sent, cutOff>>

CutOffNow == IF handler.at \in {"created", "written"} THEN {handler.delivery} ELSE {}

\* Mutant: the process goes, what it did goes on.
DieServing ==
  /\ worker.up
  /\ worker' = Down
  /\ UNCHANGED <<registration, route>>

\* Killed, restarted by launchd or by an update: the answer is not sent.
Die ==
  /\ worker.up
  /\ worker' = Down
  /\ handler' = Free
  /\ cutOff' = cutOff \cup CutOffNow
  /\ UNCHANGED <<registration, inbox, sent, told>>

\* The system writes back what nobody waited for.
WriteBack(d) ==
  /\ inbox[d].content = "whole" /\ ~inbox[d].synced
  /\ inbox' = [inbox EXCEPT ![d].synced = TRUE]
  /\ UNCHANGED <<registration, worker, handler, sent, told, cutOff>>

Unsynced == {d \in Deliveries : inbox[d].content # "absent" /\ ~inbox[d].synced}

\* Of a file that was not synced all may be found, a part of it, or nothing.
PowerLoss ==
  /\ \E gone, torn \in SUBSET Unsynced :
       inbox' = [d \in Deliveries |->
                   IF d \in gone THEN NoFile
                   ELSE IF d \in torn THEN [inbox[d] EXCEPT !.content = "torn"]
                   ELSE inbox[d]]
  /\ worker' = Down
  /\ handler' = Free
  /\ stage' = Idle
  /\ cutOff' = cutOff \cup CutOffNow
  /\ UNCHANGED <<run, captured, store, sent, told>>

Next ==
  \/ Register \/ StopWaiting \/ Convert \/ StoreCredential \/ Interrupt
  \/ \E of \in 1 .. run, approved \in BOOLEAN : Callback(of, approved)
  \/ StartWorker \/ Write \/ Sync \/ WriteFails \/ Respond \/ Die \/ PowerLoss
  \/ \E d \in Deliveries : Receive(d) \/ WriteBack(d)

Spec == Init /\ [][Next]_vars
-----------------------------------------------------------------------------
(* Properties.                                                              *)

TypeOK ==
  /\ run \in 0 .. MaxRuns /\ stage \in Stages /\ captured \in {0} \cup Apps
  /\ store \in [Credentials -> {0} \cup Apps]
  /\ worker \in [up : BOOLEAN, secret : {0} \cup Apps]
  /\ handler \in {Free} \cup
       [at : {"created", "written", "accepted", "refused"}, delivery : Deliveries]
  /\ inbox \in [Deliveries -> [content : {"absent", "torn", "whole"}, copy : Nat, synced : BOOLEAN]]
  /\ sent \in [Deliveries -> Nat]
  /\ told \subseteq Deliveries /\ cutOff \subseteq Deliveries
  /\ handler # Free => worker.up

\* What a run stores is its own App, although windows of earlier runs come back
\* to the same port.  The credentials are written one by one and a run may end
\* between any two, but the first and the last written tell: if the private key
\* and github-app.json are of one App, so is everything between them.
CredentialsCoherent ==
  /\ captured \in {0, run}
  /\ store["pem"] = store["state"] => \A c \in Credentials : store[c] = store["pem"]

\* "Webhook HMAC, event allowlisting, ... are verified before an event enters the
\* operational inbox" (Implementation Plan 2): there is a file only for a sound
\* delivery, signed by an App whose secret was stored on this host; not for one
\* that came while there was no secret at all.
InboxAuthentic ==
  \A d \in Deliveries : inbox[d].content # "absent" =>
    /\ d \in Sound
    /\ SignedBy[d] # 0 /\ SignedBy[d] <= store["webhook-secret"]

\* A delivery GitHub was told was accepted is on disk, whole and synced, whatever
\* died since; the one exception is a delivery whose first copy was cut off
\* before its sync, which the next copy finds as a file and takes for a duplicate.
AcceptedIsOnDisk ==
  \A d \in told : d \in cutOff \/ (inbox[d].content = "whole" /\ inbox[d].synced)

\* The inbox is the log that the abstract specification describes: the copy that
\* is on record stays, however often the delivery is sent again.
Log == INSTANCE DeliveryLog WITH
  log <- [d \in Deliveries |-> IF inbox[d].synced THEN inbox[d].copy ELSE 0]

InboxIsLog == Log!LogSpec
=============================================================================
