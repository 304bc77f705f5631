------------------------- MODULE GitHubIngressProofs ------------------------
(***************************************************************************)
(* What holds of the credentials and of the inbox, for any number of       *)
(* deliveries, copies and registrations, and that the inbox implements the *)
(* log of deliveries.                                                      *)
(***************************************************************************)
EXTENDS GitHubIngress, TLAPS

-----------------------------------------------------------------------------
(* The inductive invariant.                                                 *)

\* Past its wait, a run has the code of its own consent; what it wrote so far is
\* of its own App, and what comes later in the order is never of a newer App
\* than what comes before it.
RegistrationInv ==
  /\ captured \in {0, run}
  /\ stage \in {Converting} \cup 1 .. 6 => captured = run
  /\ \A k \in 1 .. 6 : store[Writes[k]] <= run
  /\ \A k \in 1 .. 5 : store[Writes[k + 1]] <= store[Writes[k]]
  /\ \A k \in 1 .. 6 : stage \in 1 .. 6 /\ k < stage => store[Writes[k]] = run

\* The secret a worker was started with is not newer than the one on the host.
SecretInv == worker.secret <= store["webhook-secret"]

\* A delivery is being written, or was written whole, or was cut off.
Handling(d) == handler.at \in {"created", "written"} /\ handler.delivery = d

Settled(d) ==
  \/ d \in cutOff
  \/ inbox[d].content = "whole" /\ inbox[d].synced

FilesInv ==
  /\ \A d \in Deliveries :
       /\ inbox[d].content # "absent" =>
            inbox[d].copy # 0 /\ (Settled(d) \/ Handling(d))
       /\ inbox[d].synced => inbox[d].content = "whole"
  /\ handler.at \in {"created", "written"} => inbox[handler.delivery].content # "absent"
  /\ handler.at = "written" => inbox[handler.delivery].content = "whole"
  /\ handler.at = "accepted" => Settled(handler.delivery)

IngressInv ==
  TypeOK /\ RegistrationInv /\ SecretInv /\ FilesInv /\ InboxAuthentic /\ AcceptedIsOnDisk

\* The six writes are of six different credentials, and these are all.
LEMMA WritesAre ==
  /\ Writes[1] = "pem" /\ Writes[2] = "app-id" /\ Writes[3] = "client-id"
  /\ Writes[4] = "client-secret" /\ Writes[5] = "webhook-secret" /\ Writes[6] = "state"
BY DEF Writes

LEMMA WritesDiffer ==
  /\ \A k \in 1 .. 6 : Writes[k] \in Credentials
  /\ \A c \in Credentials : \E k \in 1 .. 6 : c = Writes[k]
  /\ \A j, k \in 1 .. 6 : Writes[j] = Writes[k] => j = k
<1>1. \A k \in 1 .. 6 : k = 1 \/ k = 2 \/ k = 3 \/ k = 4 \/ k = 5 \/ k = 6
  OBVIOUS
<1>2. \A k \in 1 .. 6 : Writes[k] \in Credentials
  BY <1>1, WritesAre DEF Credentials
<1>3. \A c \in Credentials : \E k \in 1 .. 6 : c = Writes[k]
  BY WritesAre DEF Credentials
<1>4. \A j, k \in 1 .. 6 : Writes[j] = Writes[k] => j = k
  BY <1>1, WritesAre
<1> QED BY <1>2, <1>3, <1>4

-----------------------------------------------------------------------------
(* register.py.                                                             *)

\* Its steps keep types and order; what the worker holds is not theirs.
LEMMA RegistrationStep ==
  ASSUME IngressInv, UNCHANGED <<worker, route>>,
         \/ Register \/ StopWaiting \/ Convert \/ StoreCredential \/ Interrupt
         \/ \E of \in 1 .. run, approved \in BOOLEAN : Callback(of, approved)
  PROVE  /\ run' \in 0 .. MaxRuns /\ stage' \in Stages /\ captured' \in {0} \cup Apps
         /\ store' \in [Credentials -> {0} \cup Apps]
         /\ RegistrationInv'
         /\ store["webhook-secret"] <= store'["webhook-secret"]
<1> USE IngressAssumption
<1>0. /\ run \in 0 .. MaxRuns /\ stage \in Stages /\ captured \in {0} \cup Apps
      /\ store \in [Credentials -> {0} \cup Apps]
      /\ RegistrationInv
      /\ \A k \in 1 .. 6 : store[Writes[k]] \in Nat
      /\ store["webhook-secret"] \in Nat
  BY WritesDiffer, WritesAre DEF IngressInv, TypeOK, Apps, Credentials
<1>1. CASE Register
  BY <1>0, <1>1 DEF Register, RegistrationInv, Stages, Idle, Waiting, Converting, Apps
<1>2. CASE StopWaiting
  BY <1>0, <1>2 DEF StopWaiting, RegistrationInv, Stages, Idle, Waiting, Converting
<1>3. CASE Convert
  BY <1>0, <1>3 DEF Convert, RegistrationInv, Stages, Idle, Waiting, Converting
<1>4. CASE Interrupt
  BY <1>0, <1>4 DEF Interrupt, RegistrationInv, Stages, Idle, Waiting, Converting
<1>5. CASE \E of \in 1 .. run, approved \in BOOLEAN : Callback(of, approved)
  BY <1>0, <1>5 DEF Callback, RegistrationInv, Stages, Idle, Waiting, Converting, Apps
<1>6. CASE StoreCredential
  <2>1. /\ stage \in 1 .. 6 /\ captured = run /\ run' = run /\ captured' = captured
        /\ store' = [store EXCEPT ![Writes[stage]] = run]
        /\ stage' = IF stage = 6 THEN Idle ELSE stage + 1
    BY <1>0, <1>6 DEF StoreCredential, RegistrationInv
  <2>2. \A k \in 1 .. 6 : store'[Writes[k]] = IF k = stage THEN run ELSE store[Writes[k]]
    BY <1>0, <2>1, WritesDiffer
  <2>3. stage' \in Stages /\ captured' \in {0} \cup Apps
    BY <1>0, <2>1 DEF Stages, Idle
  <2>4. store' \in [Credentials -> {0} \cup Apps]
    BY <1>0, <2>1, WritesDiffer
  <2>5. \A k \in 1 .. 6 : store'[Writes[k]] <= run'
    BY <1>0, <2>1, <2>2 DEF RegistrationInv
  <2>6. \A k \in 1 .. 5 : store'[Writes[k + 1]] <= store'[Writes[k]]
    BY <1>0, <2>1, <2>2 DEF RegistrationInv
  <2>7. \A k \in 1 .. 6 : stage' \in 1 .. 6 /\ k < stage' => store'[Writes[k]] = run'
    BY <1>0, <2>1, <2>2 DEF RegistrationInv, Idle
  <2>8. RegistrationInv'
    BY <1>0, <2>1, <2>5, <2>6, <2>7 DEF RegistrationInv, Idle, Converting
  <2>9. store["webhook-secret"] <= store'["webhook-secret"]
    <3>1. store[Writes[5]] <= run
      BY <1>0 DEF RegistrationInv
    <3> QED BY <1>0, <2>2, <3>1, WritesAre
  <2> QED BY <1>0, <2>1, <2>3, <2>4, <2>8, <2>9
<1> QED BY <1>1, <1>2, <1>3, <1>4, <1>5, <1>6
-----------------------------------------------------------------------------
(* The worker.                                                              *)

HandlerType ==
  {Free} \cup [at : {"created", "written", "accepted", "refused"}, delivery : Deliveries]

FileType == [content : {"absent", "torn", "whole"}, copy : Nat, synced : BOOLEAN]

\* A handler that is not free is busy with one delivery.
LEMMA HandlerCases ==
  /\ \A at \in {"created", "written", "accepted", "refused"}, d \in Deliveries :
       /\ Busy(at, d) \in HandlerType /\ Busy(at, d) # Free
       /\ Busy(at, d).at = at /\ Busy(at, d).delivery = d
  /\ Free \in HandlerType /\ Free.at = "free"
  /\ \A h \in HandlerType : h.at # "free" => h.delivery \in Deliveries
<1>1. \A at \in {"created", "written", "accepted", "refused"}, d \in Deliveries :
        /\ Busy(at, d) \in HandlerType
        /\ Busy(at, d).at = at /\ Busy(at, d).delivery = d
  BY DEF Busy, HandlerType
<1>2. Free \in HandlerType /\ Free.at = "free"
  BY DEF Free, HandlerType
<1>3. \A h \in HandlerType : h.at # "free" => h.delivery \in Deliveries
  BY DEF Free, HandlerType
<1> QED BY <1>1, <1>2, <1>3

\* What the route and the system keep of the inbox, whatever they do to it.
RouteInv ==
  /\ handler \in HandlerType
  /\ inbox \in [Deliveries -> FileType]
  /\ sent \in [Deliveries -> Nat]
  /\ told \subseteq Deliveries /\ cutOff \subseteq Deliveries
  /\ FilesInv /\ AcceptedIsOnDisk

\* A file that is there is one that was admitted.
Admissions ==
  \A d \in Deliveries : inbox[d].content # "absent" =>
    d \in Sound /\ SignedBy[d] # 0 /\ SignedBy[d] <= store["webhook-secret"]

\* A copy of a delivery comes: refused, a duplicate, or the first file of it.
LEMMA ReceiveStep ==
  ASSUME IngressInv, NEW d \in Deliveries, Receive(d)
  PROVE  RouteInv' /\ Admissions'
<1> USE IngressAssumption
<1>0. /\ handler = Free /\ handler.at = "free" /\ inbox \in [Deliveries -> FileType]
      /\ sent \in [Deliveries -> Nat] /\ sent' = [sent EXCEPT ![d] = @ + 1]
      /\ told \subseteq Deliveries /\ cutOff \subseteq Deliveries
      /\ FilesInv /\ AcceptedIsOnDisk /\ Admissions
      /\ told' = told /\ cutOff' = cutOff /\ store' = store
  BY HandlerCases
  DEF IngressInv, TypeOK, Receive, FileType, InboxAuthentic, Admissions, registration
<1>1. /\ sent' \in [Deliveries -> Nat]
      /\ \A e \in Deliveries : inbox[e].content # "absent" => Settled(e)
  BY <1>0 DEF FilesInv, Handling
<1>2. ASSUME inbox' = inbox,
             handler' = Busy("refused", d) \/ (handler' = Busy("accepted", d) /\ Settled(d))
      PROVE  RouteInv' /\ Admissions'
  <2>1. \A e \in Deliveries : Settled(e)' <=> Settled(e)
    BY <1>0, <1>2 DEF Settled
  <2>2. /\ handler' \in HandlerType /\ handler'.delivery = d
        /\ handler'.at = "refused" \/ (handler'.at = "accepted" /\ Settled(d))
    BY <1>2, HandlerCases
  <2>3. FilesInv'
    BY <1>0, <1>1, <1>2, <2>1, <2>2 DEF FilesInv, Handling
  <2> QED BY <1>0, <1>2, <2>2, <2>3 DEF RouteInv, AcceptedIsOnDisk, Admissions
<1>3. CASE Admitted(d) /\ inbox[d].content = "absent" /\ CreateAnew(d, sent[d] + 1)
  <2> DEFINE file == [content |-> "torn", copy |-> sent[d] + 1, synced |-> FALSE]
  <2>1. /\ inbox' = [inbox EXCEPT ![d] = file] /\ file \in FileType
        /\ file.content = "torn" /\ file.copy # 0 /\ file.synced = FALSE
    BY <1>0, <1>3 DEF CreateAnew, FileType
  <2> HIDE DEF file
  <2>2. /\ inbox' \in [Deliveries -> FileType] /\ inbox'[d] = file
        /\ \A e \in Deliveries \ {d} : inbox'[e] = inbox[e]
    BY <1>0, <2>1
  <2>3. handler' \in HandlerType /\ handler'.at = "created" /\ handler'.delivery = d
    BY <1>3, HandlerCases DEF CreateAnew
  <2>4. \A e \in Deliveries \ {d} : Settled(e)' <=> Settled(e)
    BY <1>0, <2>2 DEF Settled
  <2>5. FilesInv'
    BY <1>0, <1>1, <2>1, <2>2, <2>3, <2>4 DEF FilesInv, Handling
  <2>6. AcceptedIsOnDisk'
    BY <1>0, <1>3, <2>2 DEF AcceptedIsOnDisk
  <2>7. d \in Sound /\ SignedBy[d] # 0 /\ SignedBy[d] <= store["webhook-secret"]
    BY <1>3 DEF Admitted, IngressInv, SecretInv
  <2>8. Admissions'
    BY <1>0, <2>2, <2>7 DEF Admissions
  <2> QED BY <1>0, <1>1, <2>2, <2>3, <2>5, <2>6, <2>8 DEF RouteInv
<1>4. CASE ~Admitted(d)
  <2>1. inbox' = inbox /\ handler' = Busy("refused", d)
    BY <1>4 DEF Receive
  <2> QED BY <1>2, <2>1
<1>5. CASE Admitted(d)
  <2>1. Create(d, sent[d] + 1)
    BY <1>5 DEF Receive
  <2> QED BY <1>1, <1>2, <1>3, <1>5, <2>1 DEF Create
<1> QED BY <1>4, <1>5

\* From the file to the answer, and what the system writes back meanwhile.
LEMMA WriteStep ==
  ASSUME IngressInv, UNCHANGED store,
         \/ Write \/ Sync \/ WriteFails \/ Respond
         \/ \E d \in Deliveries : WriteBack(d)
  PROVE  RouteInv' /\ Admissions'
<1>0. /\ handler \in HandlerType /\ inbox \in [Deliveries -> FileType]
      /\ sent \in [Deliveries -> Nat]
      /\ told \subseteq Deliveries /\ cutOff \subseteq Deliveries
      /\ FilesInv /\ AcceptedIsOnDisk /\ Admissions
  BY DEF IngressInv, TypeOK, HandlerType, FileType, InboxAuthentic, Admissions
<1>1. ASSUME NEW d \in Deliveries, Handling(d), Write
      PROVE  RouteInv' /\ Admissions'
  <2>1. /\ inbox' = [inbox EXCEPT ![d].content = "whole"] /\ handler' = Busy("written", d)
        /\ UNCHANGED <<sent, told, cutOff>> /\ handler.at = "created"
    BY <1>1 DEF Write, Handling
  <2>2. /\ inbox' \in [Deliveries -> FileType] /\ inbox'[d].content = "whole"
        /\ inbox'[d].copy = inbox[d].copy /\ inbox'[d].synced = inbox[d].synced
        /\ \A e \in Deliveries \ {d} : inbox'[e] = inbox[e]
    BY <1>0, <2>1 DEF FileType
  <2>3. handler' \in HandlerType /\ handler'.at = "written" /\ handler'.delivery = d
    BY <2>1, HandlerCases
  <2>4. FilesInv'
    BY <1>0, <1>1, <2>1, <2>2, <2>3 DEF FilesInv, Handling, Settled
  <2> QED BY <1>0, <1>1, <2>1, <2>2, <2>3, <2>4
          DEF RouteInv, AcceptedIsOnDisk, Admissions, FilesInv, Handling
<1>2. ASSUME NEW d \in Deliveries, Handling(d), Sync
      PROVE  RouteInv' /\ Admissions'
  <2>1. /\ inbox' = [inbox EXCEPT ![d].synced = TRUE] /\ handler' = Busy("accepted", d)
        /\ UNCHANGED <<sent, told, cutOff>> /\ handler.at = "written"
        /\ inbox[d].content = "whole"
    BY <1>0, <1>2 DEF Sync, Handling, FilesInv
  <2>2. /\ inbox' \in [Deliveries -> FileType] /\ inbox'[d].content = "whole"
        /\ inbox'[d].copy = inbox[d].copy /\ inbox'[d].synced = TRUE
        /\ \A e \in Deliveries \ {d} : inbox'[e] = inbox[e]
    BY <1>0, <2>1 DEF FileType
  <2>3. handler' \in HandlerType /\ handler'.at = "accepted" /\ handler'.delivery = d
    BY <2>1, HandlerCases
  <2>4. FilesInv'
    BY <1>0, <1>2, <2>1, <2>2, <2>3 DEF FilesInv, Handling, Settled
  <2> QED BY <1>0, <1>2, <2>1, <2>2, <2>3, <2>4
          DEF RouteInv, AcceptedIsOnDisk, Admissions, FilesInv, Handling
<1>3. ASSUME NEW d \in Deliveries, Handling(d), WriteFails
      PROVE  RouteInv' /\ Admissions'
  <2>1. /\ inbox' = inbox /\ handler' = Busy("refused", d)
        /\ cutOff' = cutOff \cup {d} /\ UNCHANGED <<sent, told>>
    BY <1>3 DEF WriteFails, Handling
  <2>2. handler' \in HandlerType /\ handler'.at = "refused" /\ handler'.delivery = d
    BY <2>1, HandlerCases
  <2>3. FilesInv'
    BY <1>0, <1>3, <2>1, <2>2 DEF FilesInv, Handling, Settled
  <2> QED BY <1>0, <2>1, <2>2, <2>3 DEF RouteInv, AcceptedIsOnDisk, Admissions
<1>4. CASE Respond
  <2>1. /\ inbox' = inbox /\ cutOff' = cutOff /\ sent' = sent /\ handler' = Free
        /\ told' = IF handler.at = "accepted" THEN told \cup {handler.delivery} ELSE told
        /\ handler.at \in {"accepted", "refused"}
    BY <1>4 DEF Respond
  <2>2. handler.delivery \in Deliveries
    BY <1>0, <2>1, HandlerCases
  <2>3. handler' \in HandlerType /\ handler'.at = "free"
    BY <2>1, HandlerCases
  <2>4. FilesInv'
    BY <1>0, <2>1, <2>3 DEF FilesInv, Handling, Settled
  <2>5. AcceptedIsOnDisk'
    BY <1>0, <2>1, <2>2 DEF AcceptedIsOnDisk, FilesInv, Settled
  <2> QED BY <1>0, <2>1, <2>2, <2>3, <2>4, <2>5 DEF RouteInv, Admissions
<1>5. ASSUME NEW d \in Deliveries, WriteBack(d)
      PROVE  RouteInv' /\ Admissions'
  <2>1. /\ inbox' = [inbox EXCEPT ![d].synced = TRUE] /\ inbox[d].content = "whole"
        /\ UNCHANGED <<handler, sent, told, cutOff>>
    BY <1>5 DEF WriteBack
  <2>2. /\ inbox' \in [Deliveries -> FileType] /\ inbox'[d].content = "whole"
        /\ inbox'[d].copy = inbox[d].copy /\ inbox'[d].synced = TRUE
        /\ \A e \in Deliveries \ {d} : inbox'[e] = inbox[e]
    BY <1>0, <2>1 DEF FileType
  <2>3. FilesInv'
    BY <1>0, <2>1, <2>2, HandlerCases DEF FilesInv, Handling, Settled
  <2> QED BY <1>0, <2>1, <2>2, <2>3 DEF RouteInv, AcceptedIsOnDisk, Admissions
<1> QED BY <1>0, <1>1, <1>2, <1>3, <1>4, <1>5, HandlerCases
        DEF Write, Sync, WriteFails, Handling

\* A death, of the worker or of the host, loses no more than was not synced, and
\* whose file that was is known.
LEMMA DeathStep ==
  ASSUME IngressInv, UNCHANGED store, Die \/ PowerLoss
  PROVE  RouteInv' /\ Admissions'
<1>0. /\ handler \in HandlerType /\ inbox \in [Deliveries -> FileType]
      /\ sent \in [Deliveries -> Nat]
      /\ told \subseteq Deliveries /\ cutOff \subseteq Deliveries
      /\ FilesInv /\ AcceptedIsOnDisk /\ Admissions
  BY DEF IngressInv, TypeOK, HandlerType, FileType, InboxAuthentic, Admissions
<1>1. /\ handler' \in HandlerType /\ handler'.at = "free"
      /\ cutOff' = cutOff \cup CutOffNow /\ UNCHANGED <<sent, told>>
  BY HandlerCases DEF Die, PowerLoss
<1>2. CutOffNow \subseteq Deliveries /\ \A d \in Deliveries : Handling(d) => d \in CutOffNow
  BY <1>0, HandlerCases DEF CutOffNow, Handling
<1>3. /\ inbox' \in [Deliveries -> FileType]
      /\ \A d \in Deliveries :
           /\ inbox[d].synced => inbox'[d] = inbox[d]
           /\ inbox'[d].content # "absent" =>
                inbox[d].content # "absent" /\ inbox'[d].copy = inbox[d].copy
           /\ inbox'[d].synced => inbox[d].synced
  <2>1. CASE Die
    BY <1>0, <2>1 DEF Die
  <2>2. CASE PowerLoss
    <3>1. PICK gone \in SUBSET Unsynced, torn \in SUBSET Unsynced :
            inbox' = [d \in Deliveries |->
                        IF d \in gone THEN NoFile
                        ELSE IF d \in torn THEN [inbox[d] EXCEPT !.content = "torn"]
                        ELSE inbox[d]]
      BY <2>2 DEF PowerLoss
    <3>2. \A d \in gone \cup torn : inbox[d].content # "absent" /\ inbox[d].synced = FALSE
      BY <1>0 DEF Unsynced, FileType
    <3>3. \A d \in Deliveries : /\ NoFile \in FileType
                                /\ [inbox[d] EXCEPT !.content = "torn"] \in FileType
                                /\ [inbox[d] EXCEPT !.content = "torn"].copy = inbox[d].copy
                                /\ [inbox[d] EXCEPT !.content = "torn"].synced = inbox[d].synced
      BY <1>0 DEF NoFile, FileType
    <3>4. NoFile.content = "absent" /\ NoFile.synced = FALSE
      BY DEF NoFile
    <3> QED BY <1>0, <3>1, <3>2, <3>3, <3>4
  <2> QED BY <2>1, <2>2
<1>4. \A d \in Deliveries : inbox[d].content # "absent" => Settled(d)'
  BY <1>0, <1>1, <1>2, <1>3 DEF FilesInv, Settled
<1>5. FilesInv'
  BY <1>0, <1>1, <1>3, <1>4 DEF FilesInv, Handling
<1>6. AcceptedIsOnDisk'
  BY <1>0, <1>1, <1>3 DEF AcceptedIsOnDisk
<1>7. Admissions'
  BY <1>0, <1>3 DEF Admissions
<1> QED BY <1>0, <1>1, <1>2, <1>3, <1>5, <1>6, <1>7 DEF RouteInv
-----------------------------------------------------------------------------
(* The invariant.                                                           *)

\* The parts of the invariant, put together again.
LEMMA Together ==
  ASSUME run' \in 0 .. MaxRuns, stage' \in Stages, captured' \in {0} \cup Apps,
         store' \in [Credentials -> {0} \cup Apps],
         worker' \in [up : BOOLEAN, secret : {0} \cup Apps],
         (handler # Free)' => worker'.up,
         RegistrationInv', SecretInv', RouteInv', Admissions'
  PROVE  IngressInv'
BY DEF IngressInv, TypeOK, RouteInv, Admissions, InboxAuthentic, HandlerType, FileType

\* And taken apart.
LEMMA Apart ==
  ASSUME IngressInv
  PROVE  /\ run \in 0 .. MaxRuns /\ stage \in Stages /\ captured \in {0} \cup Apps
         /\ store \in [Credentials -> {0} \cup Apps]
         /\ worker \in [up : BOOLEAN, secret : {0} \cup Apps]
         /\ handler # Free => worker.up
         /\ RegistrationInv /\ SecretInv /\ RouteInv /\ Admissions
         /\ store["webhook-secret"] \in {0} \cup Apps /\ worker.secret \in {0} \cup Apps
BY DEF IngressInv, TypeOK, RouteInv, Admissions, InboxAuthentic, HandlerType, FileType, Credentials

\* The invariant is inductive.
LEMMA IngressStep == IngressInv /\ [Next]_vars => IngressInv'
<1> SUFFICES ASSUME IngressInv, [Next]_vars PROVE IngressInv'
  OBVIOUS
<1> USE IngressAssumption
<1>0. /\ run \in 0 .. MaxRuns /\ stage \in Stages /\ captured \in {0} \cup Apps
      /\ store \in [Credentials -> {0} \cup Apps]
      /\ worker \in [up : BOOLEAN, secret : {0} \cup Apps]
      /\ handler # Free => worker.up
      /\ RegistrationInv /\ SecretInv /\ RouteInv /\ Admissions
      /\ store["webhook-secret"] \in {0} \cup Apps /\ worker.secret \in {0} \cup Apps
  BY Apart
<1>1. CASE UNCHANGED vars
  BY <1>0, <1>1, Together
  DEF vars, registration, route, RegistrationInv, SecretInv, RouteInv, Admissions,
      FilesInv, AcceptedIsOnDisk, Handling, Settled
<1>2. CASE /\ UNCHANGED <<worker, route>>
           /\ \/ Register \/ StopWaiting \/ Convert \/ StoreCredential \/ Interrupt
              \/ \E of \in 1 .. run, approved \in BOOLEAN : Callback(of, approved)
  <2>1. /\ run' \in 0 .. MaxRuns /\ stage' \in Stages /\ captured' \in {0} \cup Apps
        /\ store' \in [Credentials -> {0} \cup Apps] /\ RegistrationInv'
        /\ store["webhook-secret"] <= store'["webhook-secret"]
    BY <1>2, RegistrationStep
  <2>2. store'["webhook-secret"] \in {0} \cup Apps
    BY <2>1 DEF Credentials
  <2>3. SecretInv'
    BY <1>0, <1>2, <2>1, <2>2 DEF SecretInv, Apps
  <2>4. Admissions'
    BY <1>0, <1>2, <2>1, <2>2 DEF Admissions, Apps, route
  <2>5. RouteInv' /\ (handler # Free)' = (handler # Free) /\ worker' = worker
    BY <1>0, <1>2 DEF RouteInv, route, FilesInv, AcceptedIsOnDisk, Handling, Settled
  <2> QED BY <1>0, <2>1, <2>3, <2>4, <2>5, Together
<1>3. CASE StartWorker
  <2>1. /\ worker' \in [up : BOOLEAN, secret : {0} \cup Apps] /\ worker'.up
        /\ worker'.secret = store'["webhook-secret"]
        /\ UNCHANGED <<registration, route>>
    BY <1>0, <1>3 DEF StartWorker, registration
  <2>2. SecretInv' /\ RegistrationInv'
    BY <1>0, <2>1 DEF SecretInv, RegistrationInv, registration, Apps
  <2>3. RouteInv' /\ Admissions'
    BY <1>0, <2>1
    DEF RouteInv, Admissions, route, registration, FilesInv, AcceptedIsOnDisk, Handling, Settled
  <2> QED BY <1>0, <2>1, <2>2, <2>3, Together DEF registration
<1>4. CASE /\ UNCHANGED <<registration, worker>> /\ worker.up
           /\ RouteInv' /\ Admissions'
  BY <1>0, <1>4, Together DEF registration, RegistrationInv, SecretInv
<1>5. CASE Die
  <2>1. /\ worker' \in [up : BOOLEAN, secret : {0} \cup Apps] /\ worker'.secret = 0
        /\ handler' = Free /\ UNCHANGED registration
    BY <1>5 DEF Die, Down
  <2>2. RouteInv' /\ Admissions'
    BY <1>5, <2>1, DeathStep DEF registration
  <2> QED BY <1>0, <2>1, <2>2, Together
          DEF registration, RegistrationInv, SecretInv, Free, Apps
<1>6. CASE PowerLoss
  <2>1. /\ worker' \in [up : BOOLEAN, secret : {0} \cup Apps] /\ worker'.secret = 0
        /\ handler' = Free /\ UNCHANGED <<run, captured, store>> /\ stage' = Idle
    BY <1>6 DEF PowerLoss, Down
  <2>2. RouteInv' /\ Admissions'
    BY <1>6, <2>1, DeathStep
  <2>3. RegistrationInv' /\ stage' \in Stages
    BY <1>0, <2>1 DEF RegistrationInv, Idle, Converting, Stages
  <2>4. SecretInv'
    BY <1>0, <2>1 DEF SecretInv, Apps
  <2> QED BY <1>0, <2>1, <2>2, <2>3, <2>4, Together DEF Free
<1>7. CASE \E d \in Deliveries : Receive(d)
  <2>1. UNCHANGED <<registration, worker>> /\ worker.up
    BY <1>7 DEF Receive
  <2> QED BY <1>4, <1>7, <2>1, ReceiveStep
<1>8. CASE Write \/ Sync \/ WriteFails \/ Respond
  <2>1. UNCHANGED <<registration, worker>> /\ handler # Free
    BY <1>8 DEF Write, Sync, WriteFails, Respond, Free
  <2> QED BY <1>0, <1>4, <1>8, <2>1, WriteStep DEF registration
<1>9. ASSUME NEW d \in Deliveries, WriteBack(d)
      PROVE  IngressInv'
  <2>1. UNCHANGED <<registration, worker, handler>>
    BY <1>9 DEF WriteBack
  <2>2. RouteInv' /\ Admissions'
    BY <1>9, <2>1, WriteStep DEF registration
  <2> QED BY <1>0, <2>1, <2>2, Together DEF registration, RegistrationInv, SecretInv
<1>10. CASE \/ Register \/ StopWaiting \/ Convert \/ StoreCredential \/ Interrupt
            \/ \E of \in 1 .. run, approved \in BOOLEAN : Callback(of, approved)
  <2>1. UNCHANGED <<worker, route>>
    BY <1>10 DEF Register, StopWaiting, Convert, StoreCredential, Interrupt, Callback
  <2> QED BY <1>2, <1>10, <2>1
<1> QED BY <1>1, <1>3, <1>5, <1>6, <1>7, <1>8, <1>9, <1>10 DEF Next

\* The invariant holds of every behaviour.
THEOREM IngressInvariant == Spec => []IngressInv
<1>1. Init => IngressInv
  <2> SUFFICES ASSUME Init PROVE IngressInv
    OBVIOUS
  <2>1. \A k \in 1 .. 6 : store[Writes[k]] = 0
    BY WritesDiffer DEF Init
  <2>2. RegistrationInv
    BY <2>1 DEF Init, RegistrationInv, Idle, Converting
  <2>3. TypeOK
    BY IngressAssumption
    DEF Init, TypeOK, Stages, Idle, Down, NoFile, Free
  <2>4. FilesInv /\ AcceptedIsOnDisk /\ InboxAuthentic
    BY DEF Init, FilesInv, AcceptedIsOnDisk, InboxAuthentic, NoFile, Free
  <2>5. SecretInv
    BY DEF Init, SecretInv, Down, Credentials
  <2> QED BY <2>2, <2>3, <2>4, <2>5 DEF IngressInv
<1> QED BY <1>1, IngressStep, PTL DEF Spec

\* The variables keep their types.
THEOREM IngressTyped == Spec => []TypeOK
BY IngressInvariant, PTL DEF IngressInv

\* A run stores its own App, and a private key and public state of one App have
\* between them nothing of another, wherever the runs were cut off.
THEOREM CredentialsOfOneApp == Spec => []CredentialsCoherent
<1>1. IngressInv => CredentialsCoherent
  <2> SUFFICES ASSUME IngressInv PROVE CredentialsCoherent
    OBVIOUS
  <2>1. /\ \A k \in 1 .. 5 : store[Writes[k + 1]] <= store[Writes[k]]
        /\ \A k \in 1 .. 6 : store[Writes[k]] \in Nat
        /\ captured \in {0, run}
    BY WritesDiffer, IngressAssumption DEF IngressInv, RegistrationInv, TypeOK, Apps
  <2>2. /\ store["app-id"] <= store["pem"] /\ store["client-id"] <= store["app-id"]
        /\ store["client-secret"] <= store["client-id"]
        /\ store["webhook-secret"] <= store["client-secret"]
        /\ store["state"] <= store["webhook-secret"]
        /\ \A c \in Credentials : store[c] \in Nat
    BY <2>1, WritesAre, WritesDiffer
  <2> QED BY <2>1, <2>2 DEF CredentialsCoherent, Credentials
<1> QED BY <1>1, IngressInvariant, PTL

\* What is in the inbox was signed by an App whose secret was on this host.
THEOREM InboxOfKnownApps == Spec => []InboxAuthentic
BY IngressInvariant, PTL DEF IngressInv

\* What GitHub was told was accepted is whole on disk, or was cut off once.
THEOREM AcceptedStays == Spec => []AcceptedIsOnDisk
BY IngressInvariant, PTL DEF IngressInv
-----------------------------------------------------------------------------
(* The log of deliveries.                                                   *)

\* The log as the inbox shows it.
OnRecord == [d \in Deliveries |-> IF inbox[d].synced THEN inbox[d].copy ELSE 0]

LogStep == \E d \in Deliveries : Log!Record(d) \/ Log!CutOff(d) \/ Log!Tell(d)

\* A file that becomes durable is a record; nothing that is on record changes.
LEMMA RecordStep ==
  ASSUME IngressInv, IngressInv', NEW d \in Deliveries,
         inbox' = [inbox EXCEPT ![d].synced = TRUE], inbox[d].content = "whole",
         UNCHANGED <<cutOff, told>>
  PROVE  LogStep \/ UNCHANGED Log!logVars
<1>1. /\ inbox \in [Deliveries -> FileType] /\ inbox[d].copy \in Nat \ {0}
      /\ inbox' \in [Deliveries -> FileType]
  BY DEF IngressInv, TypeOK, FilesInv, FileType
<1>2. /\ inbox'[d].synced = TRUE /\ inbox'[d].copy = inbox[d].copy
      /\ \A e \in Deliveries \ {d} : inbox'[e] = inbox[e]
  BY <1>1 DEF FileType
<1>3. /\ OnRecord' \in [Deliveries -> Nat] /\ OnRecord \in [Deliveries -> Nat]
      /\ OnRecord'[d] = inbox[d].copy
      /\ OnRecord[d] = IF inbox[d].synced THEN inbox[d].copy ELSE 0
      /\ \A e \in Deliveries \ {d} : OnRecord'[e] = OnRecord[e]
  BY <1>1, <1>2 DEF OnRecord, FileType
<1>4. CASE inbox[d].synced
  <2>1. OnRecord' = OnRecord
    BY <1>1, <1>3, <1>4
  <2> QED BY <2>1 DEF Log!logVars, OnRecord
<1>5. CASE ~inbox[d].synced
  <2>1. OnRecord[d] = 0 /\ OnRecord' = [OnRecord EXCEPT ![d] = OnRecord'[d]]
        /\ OnRecord'[d] \in Nat \ {0}
    BY <1>1, <1>3, <1>5
  <2>2. Log!Record(d)
    BY <2>1 DEF Log!Record, OnRecord
  <2> QED BY <2>2 DEF LogStep
<1> QED BY <1>4, <1>5

\* A step that leaves what is on record alone cuts off one delivery at most.
LEMMA CutOffStep ==
  ASSUME NEW d \in Deliveries, OnRecord' = OnRecord, told' = told,
         cutOff' = cutOff \/ cutOff' = cutOff \cup {d}
  PROVE  LogStep \/ UNCHANGED Log!logVars
BY DEF LogStep, Log!CutOff, Log!logVars, OnRecord

\* Every step is a step of the log or none.
LEMMA LogSimulation ==
  IngressInv /\ IngressInv' /\ [Next]_vars => LogStep \/ UNCHANGED Log!logVars
<1> SUFFICES ASSUME IngressInv, IngressInv', [Next]_vars
             PROVE  LogStep \/ UNCHANGED Log!logVars
  OBVIOUS
<1>0. /\ handler \in HandlerType /\ inbox \in [Deliveries -> FileType]
      /\ FilesInv
  BY DEF IngressInv, TypeOK, HandlerType, FileType
<1>1. CASE UNCHANGED <<inbox, told, cutOff>>
  BY <1>1 DEF Log!logVars
<1>2. ASSUME NEW d \in Deliveries, Receive(d)
      PROVE  LogStep \/ UNCHANGED Log!logVars
  <2>1. CASE inbox' = inbox
    BY <1>1, <1>2, <2>1 DEF Receive
  <2>2. CASE CreateAnew(d, sent[d] + 1) /\ inbox[d].content = "absent"
    <3>1. /\ inbox' \in [Deliveries -> FileType] /\ inbox'[d].synced = FALSE
          /\ inbox[d].synced = FALSE
          /\ \A e \in Deliveries \ {d} : inbox'[e] = inbox[e]
      BY <1>0, <2>2 DEF CreateAnew, FileType, FilesInv, IngressInv, TypeOK
    <3>2. OnRecord' = OnRecord
      BY <3>1 DEF OnRecord
    <3> QED BY <1>2, <3>2, CutOffStep DEF Receive
  <2> QED BY <1>2, <2>1, <2>2 DEF Receive, Create
<1>3. ASSUME NEW d \in Deliveries, Handling(d), Write \/ Sync \/ WriteFails
      PROVE  LogStep \/ UNCHANGED Log!logVars
  <2>1. CASE Write
    <3>1. /\ inbox' = [inbox EXCEPT ![d].content = "whole"] /\ UNCHANGED <<told, cutOff>>
      BY <1>3, <2>1 DEF Write, Handling
    <3>2. \A e \in Deliveries : inbox'[e].synced = inbox[e].synced /\ inbox'[e].copy = inbox[e].copy
      BY <1>0, <3>1 DEF FileType
    <3>3. OnRecord' = OnRecord
      BY <3>2 DEF OnRecord
    <3> QED BY <3>1, <3>3, CutOffStep
  <2>2. CASE Sync
    <3>1. inbox' = [inbox EXCEPT ![d].synced = TRUE] /\ UNCHANGED <<told, cutOff>>
          /\ inbox[d].content = "whole"
      BY <1>0, <1>3, <2>2 DEF Sync, Handling, FilesInv
    <3> QED BY <3>1, RecordStep
  <2>3. CASE WriteFails
    <3>1. inbox' = inbox /\ told' = told /\ cutOff' = cutOff \cup {d}
      BY <1>3, <2>3 DEF WriteFails, Handling
    <3>2. OnRecord' = OnRecord
      BY <3>1 DEF OnRecord
    <3> QED BY <3>1, <3>2, CutOffStep
  <2> QED BY <1>3, <2>1, <2>2, <2>3
<1>4. CASE Respond
  <2>1. /\ inbox' = inbox /\ cutOff' = cutOff
        /\ told' = IF handler.at = "accepted" THEN told \cup {handler.delivery} ELSE told
        /\ handler.at \in {"accepted", "refused"}
    BY <1>4 DEF Respond
  <2>2. handler.delivery \in Deliveries
    BY <1>0, <2>1, HandlerCases
  <2>3. CASE handler.at = "accepted"
    <3> DEFINE d == handler.delivery
    <3>1. Settled(d)
      BY <1>0, <2>3 DEF FilesInv
    <3>2. OnRecord[d] # 0 \/ d \in cutOff
      BY <1>0, <2>2, <3>1 DEF Settled, OnRecord, FilesInv
    <3>3. OnRecord' = OnRecord
      BY <2>1 DEF OnRecord
    <3>4. Log!Tell(d)
      BY <2>1, <2>3, <3>2, <3>3 DEF Log!Tell, OnRecord
    <3> QED BY <2>2, <3>4 DEF LogStep
  <2>4. CASE handler.at # "accepted"
    BY <1>1, <2>1, <2>4
  <2> QED BY <2>3, <2>4
<1>5. ASSUME NEW d \in Deliveries, WriteBack(d)
      PROVE  LogStep \/ UNCHANGED Log!logVars
  BY <1>5, RecordStep DEF WriteBack
<1>6. CASE Die \/ PowerLoss
  <2>1. OnRecord' = OnRecord
    <3>1. CASE Die
      BY <3>1 DEF Die, OnRecord
    <3>2. CASE PowerLoss
      <4>1. PICK gone \in SUBSET Unsynced, torn \in SUBSET Unsynced :
              inbox' = [d \in Deliveries |->
                          IF d \in gone THEN NoFile
                          ELSE IF d \in torn THEN [inbox[d] EXCEPT !.content = "torn"]
                          ELSE inbox[d]]
        BY <3>2 DEF PowerLoss
      <4>2. \A d \in Deliveries : ~inbox[d].synced => ~inbox'[d].synced
        BY <1>0, <4>1 DEF NoFile, FileType
      <4>3. \A d \in Deliveries : inbox[d].synced => inbox'[d] = inbox[d]
        BY <1>0, <4>1 DEF Unsynced
      <4> QED BY <4>2, <4>3 DEF OnRecord
    <3> QED BY <1>6, <3>1, <3>2
  <2>2. told' = told /\ cutOff' = cutOff \cup CutOffNow
    BY <1>6 DEF Die, PowerLoss
  <2>3. CASE CutOffNow = {}
    <3>1. UNCHANGED Log!logVars
      BY <2>1, <2>2, <2>3 DEF Log!logVars, OnRecord
    <3> QED BY <3>1
  <2>4. CASE CutOffNow # {}
    <3>1. CutOffNow = {handler.delivery} /\ handler.delivery \in Deliveries
      BY <1>0, <2>4, HandlerCases DEF CutOffNow
    <3> QED BY <2>1, <2>2, <3>1, CutOffStep
  <2> QED BY <2>3, <2>4
<1>7. CASE Write \/ Sync \/ WriteFails
  <2>1. Handling(handler.delivery) /\ handler.delivery \in Deliveries
    BY <1>0, <1>7, HandlerCases DEF Write, Sync, WriteFails, Handling
  <2> QED BY <1>3, <1>7, <2>1
<1>8. CASE UNCHANGED vars
  BY <1>1, <1>8 DEF vars, route
<1>9. CASE \/ Register \/ StopWaiting \/ Convert \/ StoreCredential \/ Interrupt
           \/ StartWorker
           \/ \E of \in 1 .. run, approved \in BOOLEAN : Callback(of, approved)
  BY <1>1, <1>9
  DEF Register, StopWaiting, Convert, StoreCredential, Interrupt, StartWorker, Callback, route
<1> QED BY <1>2, <1>4, <1>5, <1>6, <1>7, <1>8, <1>9 DEF Next

\* The inbox with its files, syncs and losses implements the log of deliveries.
THEOREM InboxImplementsLog == Spec => InboxIsLog
<1>1. Init => Log!LogInit
  BY DEF Init, Log!LogInit, NoFile
<1>2. IngressInv /\ IngressInv' /\ [Next]_vars =>
        [\E d \in Deliveries : Log!Record(d) \/ Log!CutOff(d) \/ Log!Tell(d)]_Log!logVars
  BY LogSimulation DEF LogStep
<1> QED BY <1>1, <1>2, IngressInvariant, PTL DEF Spec, InboxIsLog, Log!LogSpec
=============================================================================
