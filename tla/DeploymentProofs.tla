-------------------------- MODULE DeploymentProofs --------------------------
(***************************************************************************)
(* Deployment for any number of releases.  The properties speak of a host  *)
(* on which scripts are cut off at any place, so the invariant says, for   *)
(* every place of every script, what the run that got there has done; and, *)
(* for the host itself, what holds whoever was cut off.                    *)
(***************************************************************************)
EXTENDS Deployment, SequenceTheorems, TLAPS

\* What is left of a script at its k-th command.
Rest(script, k) == SubSeq(script, k, Len(script))

\* What the run of release v has done when it gets to the k-th command of
\* UpdateScript.
Reached(v, k) ==
  /\ k > 1 => env
  /\ k > 3 => venv[v] = "full"
  /\ k > 4 => 1 .. v \subseteq recorded
  /\ k > 5 => buckets
  /\ k > 6 => auth = v
  /\ k > 7 => clients = v
  /\ k > 8 => current = v
  /\ k > 9 => runner = v
  /\ k > 10 => "worker" \in plists
  /\ k > 11 => worker \in {Down, [code |-> v, venv |-> v]}
  /\ k > 12 => "worker" \in loaded
  /\ k > 13 => ingress
  /\ k > 14 => "tunnel" \in plists
  /\ k > 16 => "tunnel" \in loaded
  /\ k > 17 => "updater" \in plists
  /\ k > 19 => "updater" \in loaded

\* What an uninstall has undone when it gets to its k-th command.
Undone(k) ==
  /\ k > 1 => "updater" \notin loaded /\ run["updater"] = Idle
  /\ k > 2 => "tunnel" \notin loaded
  /\ k > 3 => "worker" \notin loaded /\ worker = Down
  /\ k > 4 => "worker" \notin plists
  /\ k > 5 => "tunnel" \notin plists
  /\ k > 6 => "updater" \notin plists
  /\ k > 7 => ~ingress
  /\ k > 8 => runner = 0

-----------------------------------------------------------------------------
(* What a run may be doing.                                                 *)

FailedRun(p) ==
  /\ run[p].todo = Failed
  /\ run[p].name = "uninstall" => p = "operator" /\ ~run[p].locked /\ Undone(9)

\* From the lock on, a check holds it, and what it has verified stays good.
CheckRun(p, k) ==
  /\ run[p].name = "check" /\ run[p].todo = Rest(CheckScript, k)
  /\ run[p].locked <=> k > 1
  /\ k > 2 => run[p].target \in Releases
  /\ k > 4 => cache[run[p].target] = "good"

\* The update a check starts is not going to get past its first command.
StartedUpdate(p) ==
  run[p].name = "update" /\ run[p].locked /\ run[p].todo = UpdateScript

OperatorRun(p, name) ==
  p = "operator" /\ run[p].name = name /\ ~run[p].locked /\ run[p].release \in Releases

UpdateRun(p, k) ==
  /\ OperatorRun(p, "update")
  /\ run[p].todo = Rest(UpdateScript, k)
  /\ Reached(run[p].release, k)

\* Between the two transactions of a migration.
RecordingRun(p) ==
  /\ OperatorRun(p, "update")
  /\ run[p].todo = <<<<"record", "migration">>>> \o Rest(UpdateScript, 4)
  /\ Reached(run[p].release, 4)
  /\ applied \in Releases /\ recorded = 1 .. (applied - 1)

UninstallRun(p, k) ==
  /\ OperatorRun(p, "uninstall")
  /\ run[p].todo = Rest(UninstallScript, k)
  /\ Undone(k)

PurgeRun(p, k) ==
  /\ OperatorRun(p, "purge")
  /\ run[p].todo = Rest(PurgeScript, k)
  /\ Undone(k)

RunSound(p) ==
  \/ run[p] = Idle
  \/ FailedRun(p)
  \/ \E k \in 1 .. 5 : CheckRun(p, k)
  \/ StartedUpdate(p)
  \/ \E k \in 1 .. 21 : UpdateRun(p, k)
  \/ RecordingRun(p)
  \/ \E k \in 1 .. 9 : UninstallRun(p, k)
  \/ \E k \in 1 .. 11 : PurgeRun(p, k)

-----------------------------------------------------------------------------
(* What holds of the host at any time.                                      *)

\* Whoever holds update.lock holds it alone.
LockExclusive ==
  /\ \A p \in Actors : run[p].locked => lock
  /\ ~(run["operator"].locked /\ run["updater"].locked)

HostSound ==
  /\ current # 0 => buckets
  /\ 1 .. current \subseteq recorded
  /\ runner # 0 => env /\ current # 0 /\ venv[runner] = "full"
  /\ "worker" \in plists \cup loaded => runner # 0
  /\ "tunnel" \in plists \cup loaded => ingress

DeploymentInv ==
  /\ TypeOK /\ LockExclusive /\ HostSound /\ MigrationsInOrder /\ StagedVerified
  /\ \A p \in Actors : RunSound(p)

-----------------------------------------------------------------------------
(* The scripts as sequences of commands, told apart by their two words.      *)

LEMMA UpdateWords ==
  /\ UpdateScript[1][1] = "write" /\ UpdateScript[1][2] = "env"
  /\ UpdateScript[2][1] = "make" /\ UpdateScript[2][2] = "venv"
  /\ UpdateScript[3][1] = "install" /\ UpdateScript[3][2] = "package"
  /\ UpdateScript[4][1] = "apply" /\ UpdateScript[4][2] = "migrations"
  /\ UpdateScript[5][1] = "ensure" /\ UpdateScript[5][2] = "storage"
  /\ UpdateScript[6][1] = "ensure" /\ UpdateScript[6][2] = "auth"
  /\ UpdateScript[7][1] = "ensure" /\ UpdateScript[7][2] = "clients"
  /\ UpdateScript[8][1] = "switch" /\ UpdateScript[8][2] = "current"
  /\ UpdateScript[9][1] = "write" /\ UpdateScript[9][2] = "runner"
  /\ UpdateScript[10][1] = "plist" /\ UpdateScript[10][2] = "worker"
  /\ UpdateScript[11][1] = "bootout" /\ UpdateScript[11][2] = "worker"
  /\ UpdateScript[12][1] = "bootstrap" /\ UpdateScript[12][2] = "worker"
  /\ UpdateScript[13][1] = "ensure" /\ UpdateScript[13][2] = "tunnel"
  /\ UpdateScript[14][1] = "plist" /\ UpdateScript[14][2] = "tunnel"
  /\ UpdateScript[15][1] = "bootout" /\ UpdateScript[15][2] = "tunnel"
  /\ UpdateScript[16][1] = "bootstrap" /\ UpdateScript[16][2] = "tunnel"
  /\ UpdateScript[17][1] = "plist" /\ UpdateScript[17][2] = "updater"
  /\ UpdateScript[18][1] = "bootout" /\ UpdateScript[18][2] = "updater"
  /\ UpdateScript[19][1] = "bootstrap" /\ UpdateScript[19][2] = "updater"
  /\ UpdateScript[20][1] = "write" /\ UpdateScript[20][2] = "receipt"
BY DEF UpdateScript, InstallScript

LEMMA UnloadWords ==
  /\ Unload[1][1] = "bootout" /\ Unload[1][2] = "updater"
  /\ Unload[2][1] = "bootout" /\ Unload[2][2] = "tunnel"
  /\ Unload[3][1] = "bootout" /\ Unload[3][2] = "worker"
  /\ Unload[4][1] = "rm" /\ Unload[4][2] = "worker"
  /\ Unload[5][1] = "rm" /\ Unload[5][2] = "tunnel"
  /\ Unload[6][1] = "rm" /\ Unload[6][2] = "updater"
  /\ Unload[7][1] = "rm" /\ Unload[7][2] = "ingress"
  /\ Unload[8][1] = "rm" /\ Unload[8][2] = "runner"
BY DEF Unload

LEMMA CheckWords ==
  /\ CheckScript[1][1] = "take" /\ CheckScript[1][2] = "lock"
  /\ CheckScript[2][1] = "ask" /\ CheckScript[2][2] = "latest"
  /\ CheckScript[3][1] = "download" /\ CheckScript[3][2] = "package"
  /\ CheckScript[4][1] = "verify" /\ CheckScript[4][2] = "package"
  /\ CheckScript[5][1] = "stage" /\ CheckScript[5][2] = "release"
BY DEF CheckScript

LEMMA AfterUnload ==
  ASSUME Unload \in Seq(CommandName), NEW last \in Seq(CommandName)
  PROVE  /\ Unload \o last \in Seq(CommandName) /\ Len(Unload \o last) = Len(Unload) + Len(last)
         /\ \A k \in 1 .. Len(Unload) : (Unload \o last)[k] = Unload[k]
         /\ \A k \in 1 .. Len(last) : (Unload \o last)[Len(Unload) + k] = last[k]
OBVIOUS

LEMMA UninstallEnds ==
  /\ UninstallScript \in Seq(CommandName) /\ Len(UninstallScript) = 9
  /\ \A k \in 1 .. 8 : UninstallScript[k] = Unload[k]
  /\ UninstallScript[9] = <<"write", "receipt">>
<1> DEFINE last == <<<<"write", "receipt">>>>
<1>1. last \in Seq(CommandName) /\ Len(last) = 1 /\ last[1] = <<"write", "receipt">>
  BY DEF CommandName, Verbs, Objects
<1>2. UninstallScript = Unload \o last
  BY DEF UninstallScript
<1>3. Unload \in Seq(CommandName) /\ Len(Unload) = 8
  BY DEF Unload, CommandName, Verbs, Objects, Jobs
<1> HIDE DEF last
<1>4. /\ Unload \o last \in Seq(CommandName) /\ Len(Unload \o last) = Len(Unload) + Len(last)
      /\ \A k \in 1 .. Len(Unload) : (Unload \o last)[k] = Unload[k]
      /\ \A k \in 1 .. Len(last) : (Unload \o last)[Len(Unload) + k] = last[k]
  BY <1>1, <1>3, AfterUnload
<1>5. /\ UninstallScript \in Seq(CommandName) /\ Len(UninstallScript) = Len(Unload) + Len(last)
      /\ \A k \in 1 .. Len(Unload) : UninstallScript[k] = Unload[k]
      /\ \A k \in 1 .. Len(last) : UninstallScript[Len(Unload) + k] = last[k]
  BY <1>2, <1>4, Zenon
<1> QED BY <1>1, <1>3, <1>5

LEMMA PurgeEnds ==
  /\ PurgeScript \in Seq(CommandName) /\ Len(PurgeScript) = 10
  /\ \A k \in 1 .. 8 : PurgeScript[k] = Unload[k]
  /\ PurgeScript[9] = <<"purge", "part">> /\ PurgeScript[10] = <<"purge", "rest">>
<1> DEFINE last == <<<<"purge", "part">>, <<"purge", "rest">>>>
<1>1. /\ last \in Seq(CommandName) /\ Len(last) = 2
      /\ last[1] = <<"purge", "part">> /\ last[2] = <<"purge", "rest">>
  BY DEF CommandName, Verbs, Objects
<1>2. PurgeScript = Unload \o last
  BY DEF PurgeScript
<1>3. Unload \in Seq(CommandName) /\ Len(Unload) = 8
  BY DEF Unload, CommandName, Verbs, Objects, Jobs
<1> HIDE DEF last
<1>4. /\ Unload \o last \in Seq(CommandName) /\ Len(Unload \o last) = Len(Unload) + Len(last)
      /\ \A k \in 1 .. Len(Unload) : (Unload \o last)[k] = Unload[k]
      /\ \A k \in 1 .. Len(last) : (Unload \o last)[Len(Unload) + k] = last[k]
  BY <1>1, <1>3, AfterUnload
<1>5. /\ PurgeScript \in Seq(CommandName) /\ Len(PurgeScript) = Len(Unload) + Len(last)
      /\ \A k \in 1 .. Len(Unload) : PurgeScript[k] = Unload[k]
      /\ \A k \in 1 .. Len(last) : PurgeScript[Len(Unload) + k] = last[k]
  BY <1>2, <1>4, Zenon
<1> QED BY <1>1, <1>3, <1>5

LEMMA ScriptLengths ==
  /\ UpdateScript \in Seq(CommandName) /\ Len(UpdateScript) = 20
  /\ CheckScript \in Seq(CommandName) /\ Len(CheckScript) = 5
  /\ UninstallScript \in Seq(CommandName) /\ Len(UninstallScript) = 9
  /\ PurgeScript \in Seq(CommandName) /\ Len(PurgeScript) = 10
<1>1. UpdateScript \in Seq(CommandName) /\ Len(UpdateScript) = 20
  BY DEF UpdateScript, InstallScript, CommandName, Verbs, Objects, Jobs
<1>2. CheckScript \in Seq(CommandName) /\ Len(CheckScript) = 5
  BY DEF CheckScript, CommandName, Verbs, Objects, Jobs
<1> QED BY <1>1, <1>2, UninstallEnds, PurgeEnds

LEMMA UpdatePlaces ==
  ASSUME NEW k \in 1 .. 20
  PROVE  \/ k = 1 \/ k = 2 \/ k = 3 \/ k = 4 \/ k = 5 \/ k = 6 \/ k = 7
         \/ k = 8 \/ k = 9 \/ k = 10 \/ k = 11 \/ k = 12 \/ k = 13 \/ k = 14
         \/ k = 15 \/ k = 16 \/ k = 17 \/ k = 18 \/ k = 19 \/ k = 20
OBVIOUS

LEMMA UnloadPlaces ==
  ASSUME NEW k \in 1 .. 8
  PROVE  \/ k = 1 \/ k = 2 \/ k = 3 \/ k = 4 \/ k = 5 \/ k = 6 \/ k = 7
         \/ k = 8
OBVIOUS

LEMMA CheckPlaces ==
  ASSUME NEW k \in 1 .. 5
  PROVE  \/ k = 1 \/ k = 2 \/ k = 3 \/ k = 4 \/ k = 5
OBVIOUS

\* A script is left command by command.
LEMMA RestOfScript ==
  ASSUME NEW script \in Seq(CommandName)
  PROVE  /\ Rest(script, 1) = script
         /\ Rest(script, Len(script) + 1) = <<>>
         /\ \A k \in 1 .. Len(script) :
              /\ Rest(script, k) \in Seq(CommandName) /\ Rest(script, k) # <<>>
              /\ Head(Rest(script, k)) = script[k]
              /\ Tail(Rest(script, k)) = Rest(script, k + 1)
<1>1. Rest(script, 1) = script
  BY SubSeqFull DEF Rest
<1>2. Rest(script, Len(script) + 1) = <<>>
  BY SubSeqEmpty, LenProperties DEF Rest
<1>3. ASSUME NEW k \in 1 .. Len(script)
      PROVE  /\ Rest(script, k) \in Seq(CommandName) /\ Rest(script, k) # <<>>
             /\ Head(Rest(script, k)) = script[k]
             /\ Tail(Rest(script, k)) = Rest(script, k + 1)
  <2>1. \A i \in k .. Len(script) : script[i] \in CommandName
    OBVIOUS
  <2>2. /\ Rest(script, k) \in Seq(CommandName)
        /\ Len(Rest(script, k)) = Len(script) - k + 1
    BY <2>1, SubSeqProperties DEF Rest
  <2>3. Rest(script, k) # <<>>
    BY <2>2
  <2>4. /\ Head(Rest(script, k)) = script[k]
        /\ Tail(Rest(script, k)) = Rest(script, k + 1)
    BY HeadTailOfSubSeq DEF Rest
  <2> QED BY <2>2, <2>3, <2>4
<1> QED BY <1>1, <1>2, <1>3

LEMMA UpdateRests ==
  /\ Rest(UpdateScript, 1) = UpdateScript /\ Rest(UpdateScript, 21) = <<>>
  /\ \A k \in 1 .. 20 :
       /\ Rest(UpdateScript, k) \in Seq(CommandName) /\ Rest(UpdateScript, k) # <<>>
       /\ Head(Rest(UpdateScript, k)) = UpdateScript[k]
       /\ Tail(Rest(UpdateScript, k)) = Rest(UpdateScript, k + 1)
<1>1. /\ Rest(UpdateScript, 1) = UpdateScript /\ Rest(UpdateScript, Len(UpdateScript) + 1) = <<>>
      /\ \A k \in 1 .. Len(UpdateScript) :
           /\ Rest(UpdateScript, k) \in Seq(CommandName) /\ Rest(UpdateScript, k) # <<>>
           /\ Head(Rest(UpdateScript, k)) = UpdateScript[k]
           /\ Tail(Rest(UpdateScript, k)) = Rest(UpdateScript, k + 1)
  BY ScriptLengths, RestOfScript, Zenon
<1>2. Len(UpdateScript) = 20 /\ 20 + 1 = 21
  BY ScriptLengths
<1> QED BY <1>1, <1>2, Zenon

LEMMA CheckRests ==
  /\ Rest(CheckScript, 1) = CheckScript /\ Rest(CheckScript, 6) = <<>>
  /\ \A k \in 1 .. 5 :
       /\ Rest(CheckScript, k) \in Seq(CommandName) /\ Rest(CheckScript, k) # <<>>
       /\ Head(Rest(CheckScript, k)) = CheckScript[k]
       /\ Tail(Rest(CheckScript, k)) = Rest(CheckScript, k + 1)
<1>1. /\ Rest(CheckScript, 1) = CheckScript /\ Rest(CheckScript, Len(CheckScript) + 1) = <<>>
      /\ \A k \in 1 .. Len(CheckScript) :
           /\ Rest(CheckScript, k) \in Seq(CommandName) /\ Rest(CheckScript, k) # <<>>
           /\ Head(Rest(CheckScript, k)) = CheckScript[k]
           /\ Tail(Rest(CheckScript, k)) = Rest(CheckScript, k + 1)
  BY ScriptLengths, RestOfScript, Zenon
<1>2. Len(CheckScript) = 5 /\ 5 + 1 = 6
  BY ScriptLengths
<1> QED BY <1>1, <1>2, Zenon

LEMMA UninstallRests ==
  /\ Rest(UninstallScript, 1) = UninstallScript /\ Rest(UninstallScript, 10) = <<>>
  /\ \A k \in 1 .. 9 :
       /\ Rest(UninstallScript, k) \in Seq(CommandName) /\ Rest(UninstallScript, k) # <<>>
       /\ Head(Rest(UninstallScript, k)) = UninstallScript[k]
       /\ Tail(Rest(UninstallScript, k)) = Rest(UninstallScript, k + 1)
<1>1. /\ Rest(UninstallScript, 1) = UninstallScript /\ Rest(UninstallScript, Len(UninstallScript) + 1) = <<>>
      /\ \A k \in 1 .. Len(UninstallScript) :
           /\ Rest(UninstallScript, k) \in Seq(CommandName) /\ Rest(UninstallScript, k) # <<>>
           /\ Head(Rest(UninstallScript, k)) = UninstallScript[k]
           /\ Tail(Rest(UninstallScript, k)) = Rest(UninstallScript, k + 1)
  BY ScriptLengths, RestOfScript, Zenon
<1>2. Len(UninstallScript) = 9 /\ 9 + 1 = 10
  BY ScriptLengths
<1> QED BY <1>1, <1>2, Zenon

LEMMA PurgeRests ==
  /\ Rest(PurgeScript, 1) = PurgeScript /\ Rest(PurgeScript, 11) = <<>>
  /\ \A k \in 1 .. 10 :
       /\ Rest(PurgeScript, k) \in Seq(CommandName) /\ Rest(PurgeScript, k) # <<>>
       /\ Head(Rest(PurgeScript, k)) = PurgeScript[k]
       /\ Tail(Rest(PurgeScript, k)) = Rest(PurgeScript, k + 1)
<1>1. /\ Rest(PurgeScript, 1) = PurgeScript /\ Rest(PurgeScript, Len(PurgeScript) + 1) = <<>>
      /\ \A k \in 1 .. Len(PurgeScript) :
           /\ Rest(PurgeScript, k) \in Seq(CommandName) /\ Rest(PurgeScript, k) # <<>>
           /\ Head(Rest(PurgeScript, k)) = PurgeScript[k]
           /\ Tail(Rest(PurgeScript, k)) = Rest(PurgeScript, k + 1)
  BY ScriptLengths, RestOfScript, Zenon
<1>2. Len(PurgeScript) = 10 /\ 10 + 1 = 11
  BY ScriptLengths
<1> QED BY <1>1, <1>2, Zenon

\* What a run is doing when it is about to run a command.
Facing(p, c) ==
  \/ FailedRun(p) /\ c = <<"exit", "1">>
  \/ \E k \in 1 .. 5 : CheckRun(p, k) /\ c = CheckScript[k]
  \/ StartedUpdate(p) /\ c = UpdateScript[1]
  \/ \E k \in 1 .. 20 : UpdateRun(p, k) /\ c = UpdateScript[k]
  \/ RecordingRun(p) /\ c = <<"record", "migration">>
  \/ \E k \in 1 .. 9 : UninstallRun(p, k) /\ c = UninstallScript[k]
  \/ \E k \in 1 .. 10 : PurgeRun(p, k) /\ c = PurgeScript[k]

LEMMA RecordThenRest ==
  LET todo == <<<<"record", "migration">>>> \o Rest(UpdateScript, 4)
  IN  /\ todo \in Seq(CommandName) /\ todo # <<>>
      /\ Head(todo) = <<"record", "migration">> /\ Tail(todo) = Rest(UpdateScript, 4)
<1>1. Rest(UpdateScript, 4) \in Seq(CommandName)
  BY UpdateRests
<1>2. <<"record", "migration">> \in CommandName
  BY DEF CommandName, Verbs, Objects
<1> QED BY <1>1, <1>2

LEMMA Turn ==
  ASSUME NEW p \in Actors, RunSound(p), run[p].todo # <<>>
  PROVE  Facing(p, Head(run[p].todo))
<1>1. run[p] # Idle
  BY DEF Idle, Running
<1>2. CASE FailedRun(p)
  BY <1>2 DEF FailedRun, Failed, Facing
<1>3. ASSUME NEW k \in 1 .. 5, CheckRun(p, k) PROVE Facing(p, Head(run[p].todo))
  BY <1>3, CheckRests DEF CheckRun, Facing
<1>4. CASE StartedUpdate(p)
  BY <1>4, UpdateRests DEF StartedUpdate, Facing
<1>5. ASSUME NEW k \in 1 .. 21, UpdateRun(p, k) PROVE Facing(p, Head(run[p].todo))
  <2>1. k \in 1 .. 20
    BY <1>5, UpdateRests DEF UpdateRun
  <2> QED BY <1>5, <2>1, UpdateRests DEF UpdateRun, Facing
<1>6. CASE RecordingRun(p)
  BY <1>6, RecordThenRest DEF RecordingRun, Facing
<1>7. ASSUME NEW k \in 1 .. 9, UninstallRun(p, k) PROVE Facing(p, Head(run[p].todo))
  BY <1>7, UninstallRests DEF UninstallRun, Facing
<1>8. ASSUME NEW k \in 1 .. 11, PurgeRun(p, k) PROVE Facing(p, Head(run[p].todo))
  <2>1. k \in 1 .. 10
    BY <1>8, PurgeRests DEF PurgeRun
  <2> QED BY <1>8, <2>1, PurgeRests DEF PurgeRun, Facing
<1> QED BY <1>1, <1>2, <1>3, <1>4, <1>5, <1>6, <1>7, <1>8 DEF RunSound

-----------------------------------------------------------------------------
(* Who is about to run a command, told by the command.                      *)

LEMMA UpdateDistinct ==
  ASSUME NEW j \in 1 .. 20, NEW k \in 1 .. 20,
         UpdateScript[j][1] = UpdateScript[k][1], UpdateScript[j][2] = UpdateScript[k][2]
  PROVE  j = k
BY UpdatePlaces, UpdateWords

LEMMA UnloadDistinct ==
  ASSUME NEW j \in 1 .. 8, NEW k \in 1 .. 8,
         Unload[j][1] = Unload[k][1], Unload[j][2] = Unload[k][2]
  PROVE  j = k
BY UnloadPlaces, UnloadWords

LEMMA CheckDistinct ==
  ASSUME NEW j \in 1 .. 5, NEW k \in 1 .. 5, CheckScript[j][1] = CheckScript[k][1]
  PROVE  j = k
BY CheckPlaces, CheckWords

LEMMA WordsAtCommand ==
  ASSUME NEW p \in Actors, NEW verb, NEW object, AtCommand(p, verb, object)
  PROVE  /\ run[p].todo # <<>>
         /\ Head(run[p].todo)[1] = verb /\ Head(run[p].todo)[2] = object
BY DEF AtCommand

\* The verbs of each script.
UpdateVerbs == {"make", "install", "apply", "ensure", "switch", "plist", "bootstrap"}
SharedVerbs == {"write", "bootout"}
CheckVerbs == {"take", "ask", "download", "verify", "stage"}

LEMMA UpdateVerbsAre ==
  ASSUME NEW k \in 1 .. 20
  PROVE  /\ UpdateScript[k][1] \in UpdateVerbs \cup SharedVerbs
         /\ UpdateScript[k][1] = "write" =>
              \/ k = 1 /\ UpdateScript[k][2] = "env"
              \/ k = 9 /\ UpdateScript[k][2] = "runner"
              \/ k = 20 /\ UpdateScript[k][2] = "receipt"
         /\ UpdateScript[k][1] = "bootout" => k \in {11, 15, 18}
BY UpdatePlaces, UpdateWords DEF UpdateVerbs, SharedVerbs

LEMMA CheckVerbsAre ==
  ASSUME NEW k \in 1 .. 5 PROVE CheckScript[k][1] \in CheckVerbs
BY CheckPlaces, CheckWords DEF CheckVerbs

LEMMA UnloadVerbsAre ==
  ASSUME NEW k \in 1 .. 8
  PROVE  Unload[k][1] = IF k <= 3 THEN "bootout" ELSE "rm"
BY UnloadPlaces, UnloadWords

LEMMA UninstallVerbsAre ==
  ASSUME NEW k \in 1 .. 9
  PROVE  /\ k <= 8 => UninstallScript[k] = Unload[k]
         /\ UninstallScript[k][1] \in {"bootout", "rm", "write"}
         /\ UninstallScript[k][1] = "write" => k = 9
         /\ UninstallScript[9][2] = "receipt"
<1>1. CASE k = 9
  BY <1>1, UninstallEnds
<1>2. CASE k # 9
  <2>1. k \in 1 .. 8
    BY <1>2
  <2> QED BY <2>1, UninstallEnds, UnloadVerbsAre
<1> QED BY <1>1, <1>2

LEMMA PurgeVerbsAre ==
  ASSUME NEW k \in 1 .. 10
  PROVE  /\ k <= 8 => PurgeScript[k] = Unload[k]
         /\ PurgeScript[k][1] \in {"bootout", "rm", "purge"}
         /\ PurgeScript[k][1] = "purge" => k \in {9, 10}
         /\ PurgeScript[9][2] = "part" /\ PurgeScript[10][2] = "rest"
         /\ PurgeScript[9][1] = "purge" /\ PurgeScript[10][1] = "purge"
<1>1. CASE k \in {9, 10}
  BY <1>1, PurgeEnds
<1>2. CASE k \notin {9, 10}
  <2>1. k \in 1 .. 8
    BY <1>2
  <2> QED BY <2>1, PurgeEnds, UnloadVerbsAre
<1> QED BY <1>1, <1>2

LEMMA CheckTurn ==
  ASSUME NEW p \in Actors, RunSound(p), NEW k \in 1 .. 5, NEW object,
         AtCommand(p, CheckScript[k][1], object)
  PROVE  CheckRun(p, k)
<1> DEFINE c == Head(run[p].todo)
<1>1. run[p].todo # <<>> /\ c[1] = CheckScript[k][1] /\ c[1] \in CheckVerbs
  BY WordsAtCommand, CheckVerbsAre
<1>2. Facing(p, c)
  BY <1>1, Turn
<1> HIDE DEF c
<1>3. c # <<"exit", "1">> /\ c # <<"record", "migration">>
  BY <1>1 DEF CheckVerbs
<1>4. \A j \in 1 .. 20 : c # UpdateScript[j]
  BY <1>1, UpdateVerbsAre DEF CheckVerbs, UpdateVerbs, SharedVerbs
<1>5. \A j \in 1 .. 9 : c # UninstallScript[j]
  BY <1>1, UninstallVerbsAre DEF CheckVerbs
<1>6. \A j \in 1 .. 10 : c # PurgeScript[j]
  BY <1>1, PurgeVerbsAre DEF CheckVerbs
<1>7. \E j \in 1 .. 5 : CheckRun(p, j) /\ c = CheckScript[j]
  BY <1>2, <1>3, <1>4, <1>5, <1>6 DEF Facing
<1> QED BY <1>1, <1>7, CheckDistinct

LEMMA UpdateTurn ==
  ASSUME NEW p \in Actors, RunSound(p), NEW k \in 2 .. 19 \ {11, 15, 18},
         AtCommand(p, UpdateScript[k][1], UpdateScript[k][2])
  PROVE  UpdateRun(p, k)
<1> DEFINE c == Head(run[p].todo)
<1>1. run[p].todo # <<>> /\ c[1] = UpdateScript[k][1] /\ c[2] = UpdateScript[k][2]
  BY WordsAtCommand
<1>2. Facing(p, c)
  BY <1>1, Turn
<1> HIDE DEF c
<1>3. c[1] \in UpdateVerbs \/ (c[1] = "write" /\ c[2] = "runner")
  <2>1. k \in 1 .. 20 /\ k \notin {1, 11, 15, 18, 20}
    OBVIOUS
  <2> QED BY <1>1, <2>1, UpdateVerbsAre DEF SharedVerbs
<1>4. c # <<"exit", "1">> /\ c # <<"record", "migration">> /\ c # UpdateScript[1]
  BY <1>3, UpdateWords DEF UpdateVerbs
<1>5. \A j \in 1 .. 5 : c # CheckScript[j]
  BY <1>3, CheckVerbsAre DEF CheckVerbs, UpdateVerbs
<1>6. \A j \in 1 .. 9 : c # UninstallScript[j]
  BY <1>3, UninstallVerbsAre DEF UpdateVerbs
<1>7. \A j \in 1 .. 10 : c # PurgeScript[j]
  BY <1>3, PurgeVerbsAre DEF UpdateVerbs
<1>8. \E j \in 1 .. 20 : UpdateRun(p, j) /\ c = UpdateScript[j]
  BY <1>2, <1>4, <1>5, <1>6, <1>7 DEF Facing
<1>9. PICK j \in 1 .. 20 : UpdateRun(p, j) /\ c = UpdateScript[j]
  BY <1>8
<1>10. k \in 1 .. 20 /\ UpdateScript[j][1] = UpdateScript[k][1] /\ UpdateScript[j][2] = UpdateScript[k][2]
  BY <1>1, <1>9
<1> QED BY <1>9, <1>10, UpdateDistinct

\* The first command of an update, which a check's update fails at.
LEMMA EnvTurn ==
  ASSUME NEW p \in Actors, RunSound(p), AtCommand(p, "write", "env")
  PROVE  UpdateRun(p, 1) \/ StartedUpdate(p)
<1> DEFINE c == Head(run[p].todo)
<1>1. run[p].todo # <<>> /\ c[1] = "write" /\ c[2] = "env"
  BY WordsAtCommand
<1>2. Facing(p, c)
  BY <1>1, Turn
<1> HIDE DEF c
<1>3. c # <<"exit", "1">> /\ c # <<"record", "migration">>
  BY <1>1
<1>4. \A j \in 1 .. 5 : c # CheckScript[j]
  BY <1>1, CheckVerbsAre DEF CheckVerbs
<1>5. \A j \in 1 .. 9 : c # UninstallScript[j]
  BY <1>1, UninstallVerbsAre
<1>6. \A j \in 1 .. 10 : c # PurgeScript[j]
  BY <1>1, PurgeVerbsAre
<1>7. \A j \in 1 .. 20 : c = UpdateScript[j] => j = 1
  BY <1>1, UpdateVerbsAre
<1> QED BY <1>2, <1>3, <1>4, <1>5, <1>6, <1>7 DEF Facing

LEMMA RecordTurn ==
  ASSUME NEW p \in Actors, RunSound(p), AtCommand(p, "record", "migration")
  PROVE  RecordingRun(p)
<1> DEFINE c == Head(run[p].todo)
<1>1. run[p].todo # <<>> /\ c[1] = "record"
  BY WordsAtCommand
<1>2. Facing(p, c)
  BY <1>1, Turn
<1> HIDE DEF c
<1>3. c # <<"exit", "1">>
  BY <1>1
<1>4. \A j \in 1 .. 5 : c # CheckScript[j]
  BY <1>1, CheckVerbsAre DEF CheckVerbs
<1>5. \A j \in 1 .. 9 : c # UninstallScript[j]
  BY <1>1, UninstallVerbsAre
<1>6. \A j \in 1 .. 10 : c # PurgeScript[j]
  BY <1>1, PurgeVerbsAre
<1>7. \A j \in 1 .. 20 : c # UpdateScript[j]
  BY <1>1, UpdateVerbsAre DEF UpdateVerbs, SharedVerbs
<1> QED BY <1>2, <1>3, <1>4, <1>5, <1>6, <1>7 DEF Facing

LEMMA ReceiptTurn ==
  ASSUME NEW p \in Actors, RunSound(p), AtCommand(p, "write", "receipt")
  PROVE  UpdateRun(p, 20) \/ UninstallRun(p, 9)
<1> DEFINE c == Head(run[p].todo)
<1>1. run[p].todo # <<>> /\ c[1] = "write" /\ c[2] = "receipt"
  BY WordsAtCommand
<1>2. Facing(p, c)
  BY <1>1, Turn
<1> HIDE DEF c
<1>3. c # <<"exit", "1">> /\ c # <<"record", "migration">>
  BY <1>1
<1>4. \A j \in 1 .. 5 : c # CheckScript[j]
  BY <1>1, CheckVerbsAre DEF CheckVerbs
<1>5. \A j \in 1 .. 9 : c = UninstallScript[j] => j = 9
  BY <1>1, UninstallVerbsAre
<1>6. \A j \in 1 .. 10 : c # PurgeScript[j]
  BY <1>1, PurgeVerbsAre
<1>7. \A j \in 1 .. 20 : c = UpdateScript[j] => j = 20
  BY <1>1, UpdateVerbsAre
<1> QED BY <1>2, <1>3, <1>4, <1>5, <1>6, <1>7 DEF Facing

\* An uninstall, with --purge or without, before they part.
UnloadRun(p, k) == UninstallRun(p, k) \/ PurgeRun(p, k)

LEMMA BootoutTurn ==
  ASSUME NEW p \in Actors, RunSound(p), NEW job \in Jobs, AtCommand(p, "bootout", job)
  PROVE  \/ \E k \in {11, 15, 18} : UpdateRun(p, k) /\ UpdateScript[k][2] = job
         \/ \E k \in 1 .. 3 : UnloadRun(p, k) /\ Unload[k][2] = job
<1> DEFINE c == Head(run[p].todo)
<1>1. run[p].todo # <<>> /\ c[1] = "bootout" /\ c[2] = job
  BY WordsAtCommand
<1>2. Facing(p, c)
  BY <1>1, Turn
<1> HIDE DEF c
<1>3. c # <<"exit", "1">> /\ c # <<"record", "migration">>
  BY <1>1
<1>4. \A j \in 1 .. 5 : c # CheckScript[j]
  BY <1>1, CheckVerbsAre DEF CheckVerbs
<1>5. c # UpdateScript[1]
  BY <1>1, UpdateWords
<1>6. \A j \in 1 .. 20 : c = UpdateScript[j] => j \in {11, 15, 18}
  BY <1>1, UpdateVerbsAre
<1>7. \A j \in 1 .. 9 : c = UninstallScript[j] => j \in 1 .. 3 /\ c = Unload[j]
  <2> TAKE j \in 1 .. 9
  <2> HAVE c = UninstallScript[j]
  <2>1. UninstallScript[j][1] = "bootout"
    BY <1>1
  <2>2. j <= 8 /\ c = Unload[j]
    BY <2>1, UninstallVerbsAre, UninstallEnds
  <2> QED BY <2>1, <2>2, UnloadVerbsAre
<1>8. \A j \in 1 .. 10 : c = PurgeScript[j] => j \in 1 .. 3 /\ c = Unload[j]
  <2> TAKE j \in 1 .. 10
  <2> HAVE c = PurgeScript[j]
  <2>1. PurgeScript[j][1] = "bootout"
    BY <1>1
  <2>2. j <= 8 /\ c = Unload[j]
    BY <2>1, PurgeVerbsAre, PurgeEnds
  <2> QED BY <2>1, <2>2, UnloadVerbsAre
<1> QED BY <1>1, <1>2, <1>3, <1>4, <1>5, <1>6, <1>7, <1>8 DEF Facing, UnloadRun

LEMMA RmTurn ==
  ASSUME NEW p \in Actors, RunSound(p), NEW k \in 4 .. 8,
         AtCommand(p, "rm", Unload[k][2])
  PROVE  UnloadRun(p, k)
<1> DEFINE c == Head(run[p].todo)
<1>1. run[p].todo # <<>> /\ c[1] = "rm" /\ c[2] = Unload[k][2]
  BY WordsAtCommand
<1>2. Facing(p, c)
  BY <1>1, Turn
<1> HIDE DEF c
<1>3. c # <<"exit", "1">> /\ c # <<"record", "migration">>
  BY <1>1
<1>4. \A j \in 1 .. 5 : c # CheckScript[j]
  BY <1>1, CheckVerbsAre DEF CheckVerbs
<1>5. \A j \in 1 .. 20 : c # UpdateScript[j]
  BY <1>1, UpdateVerbsAre DEF UpdateVerbs, SharedVerbs
<1>6. \A j \in 1 .. 8 : c = Unload[j] => j = k
  <2>1. k \in 1 .. 8 /\ Unload[k][1] = "rm"
    BY UnloadVerbsAre
  <2> QED BY <1>1, <2>1, UnloadDistinct
<1>7. \A j \in 1 .. 9 : c = UninstallScript[j] => j = k
  <2> TAKE j \in 1 .. 9
  <2> HAVE c = UninstallScript[j]
  <2>1. UninstallScript[j][1] = "rm"
    BY <1>1
  <2>2. j <= 8 /\ c = Unload[j]
    BY <2>1, UninstallVerbsAre, UninstallEnds
  <2> QED BY <2>2, <1>6
<1>8. \A j \in 1 .. 10 : c = PurgeScript[j] => j = k
  <2> TAKE j \in 1 .. 10
  <2> HAVE c = PurgeScript[j]
  <2>1. PurgeScript[j][1] = "rm"
    BY <1>1
  <2>2. j <= 8 /\ c = Unload[j]
    BY <2>1, PurgeVerbsAre, PurgeEnds
  <2> QED BY <2>2, <1>6
<1> QED BY <1>2, <1>3, <1>4, <1>5, <1>7, <1>8 DEF Facing, UnloadRun

LEMMA PurgeTurn ==
  ASSUME NEW p \in Actors, RunSound(p), NEW object, AtCommand(p, "purge", object)
  PROVE  \/ PurgeRun(p, 9) /\ object = "part"
         \/ PurgeRun(p, 10) /\ object = "rest"
<1> DEFINE c == Head(run[p].todo)
<1>1. run[p].todo # <<>> /\ c[1] = "purge" /\ c[2] = object
  BY WordsAtCommand
<1>2. Facing(p, c)
  BY <1>1, Turn
<1> HIDE DEF c
<1>3. c # <<"exit", "1">> /\ c # <<"record", "migration">>
  BY <1>1
<1>4. \A j \in 1 .. 5 : c # CheckScript[j]
  BY <1>1, CheckVerbsAre DEF CheckVerbs
<1>5. \A j \in 1 .. 20 : c # UpdateScript[j]
  BY <1>1, UpdateVerbsAre DEF UpdateVerbs, SharedVerbs
<1>6. \A j \in 1 .. 9 : c # UninstallScript[j]
  BY <1>1, UninstallVerbsAre
<1>7. c # UpdateScript[1]
  BY <1>5
<1>8. \A j \in 1 .. 10 : c = PurgeScript[j] => j \in {9, 10} /\ object = PurgeScript[j][2]
  BY <1>1, PurgeVerbsAre
<1> QED BY <1>2, <1>3, <1>4, <1>5, <1>6, <1>7, <1>8, PurgeVerbsAre DEF Facing

-----------------------------------------------------------------------------
(* What a step does to the runs.                                            *)

\* TypeOK, but for the runs and the lock.
HostTypes ==
  /\ env \in BOOLEAN /\ buckets \in BOOLEAN /\ ingress \in BOOLEAN
  /\ venv \in [Releases -> {"none", "made", "full"}]
  /\ staged \in [Releases -> {"none", "good", "bad"}]
  /\ cache \in [Releases -> {"none", "good", "bad"}]
  /\ {current, runner, applied, auth, clients, latest} \subseteq 0 .. MaxRelease
  /\ plists \subseteq Jobs /\ loaded \subseteq Jobs
  /\ worker \in [code : 0 .. MaxRelease, venv : 0 .. MaxRelease]
  /\ recorded \subseteq Releases

HostInv == HostTypes /\ HostSound /\ MigrationsInOrder /\ StagedVerified

LEMMA InvParts ==
  DeploymentInv <=> /\ run \in [Actors -> Run] /\ lock \in BOOLEAN /\ LockExclusive
                    /\ HostInv
                    /\ \A p \in Actors : RunSound(p)
BY DEF DeploymentInv, TypeOK, HostTypes, HostInv, LockExclusive

LEMMA InvNext ==
  ASSUME run' \in [Actors -> Run], lock' \in BOOLEAN, LockExclusive', HostInv',
         \A p \in Actors : RunSound(p)'
  PROVE  DeploymentInv'
BY DEF DeploymentInv, TypeOK, HostTypes, HostInv, LockExclusive

LEMMA GoesOn ==
  ASSUME run \in [Actors -> Run], NEW p \in Actors, run[p].todo # <<>>, GoOn(p)
  PROVE  /\ run' \in [Actors -> Run]
         /\ run'[p].name = run[p].name /\ run'[p].release = run[p].release
         /\ run'[p].target = run[p].target /\ run'[p].locked = run[p].locked
         /\ run'[p].todo = Tail(run[p].todo)
         /\ \A q \in Actors \ {p} : run'[q] = run[q]
<1>1. run[p] \in Run /\ Tail(run[p].todo) \in Seq(CommandName)
  BY DEF Run
<1>2. run' = [run EXCEPT ![p] = [run[p] EXCEPT !.todo = Tail(run[p].todo)]]
  BY DEF GoOn
<1>3. [run[p] EXCEPT !.todo = Tail(run[p].todo)] \in Run
  BY <1>1 DEF Run
<1> QED BY <1>1, <1>2, <1>3 DEF Run

LEMMA Fails ==
  ASSUME run \in [Actors -> Run], NEW p \in Actors, Fail(p)
  PROVE  /\ run' \in [Actors -> Run]
         /\ run'[p].name = run[p].name /\ run'[p].release = run[p].release
         /\ run'[p].target = run[p].target /\ run'[p].locked = run[p].locked
         /\ run'[p].todo = Failed
         /\ \A q \in Actors \ {p} : run'[q] = run[q]
<1>1. run[p] \in Run
  OBVIOUS
<1>2. Failed \in Seq(CommandName)
  BY DEF Failed, CommandName, Verbs, Objects
<1>3. run' = [run EXCEPT ![p] = [run[p] EXCEPT !.todo = Failed]]
  BY DEF Fail
<1>4. [run[p] EXCEPT !.todo = Failed] \in Run
  BY <1>1, <1>2 DEF Run
<1> QED BY <1>1, <1>3, <1>4 DEF Run

LEMMA IdleIsRun ==
  Idle \in Run /\ ~Idle.locked /\ Idle.todo = <<>> /\ Idle.name = "none"
BY DeploymentAssumption DEF Idle, Running, Run

LEMMA Exits ==
  ASSUME run \in [Actors -> Run], lock \in BOOLEAN, LockExclusive, NEW p \in Actors, Exit(p)
  PROVE  /\ run' \in [Actors -> Run] /\ lock' \in BOOLEAN /\ LockExclusive'
         /\ run'[p] = Idle
         /\ \A q \in Actors \ {p} : run'[q] = run[q]
<1>1. /\ run' \in [Actors -> Run] /\ run'[p] = Idle
      /\ \A q \in Actors \ {p} : run'[q] = run[q]
  BY IdleIsRun DEF Exit
<1>2. lock' \in BOOLEAN
  BY DEF Exit
<1>3. LockExclusive'
  BY <1>1, IdleIsRun DEF LockExclusive, Actors, Exit
<1> QED BY <1>1, <1>2, <1>3

\* A run that does not move is sound as long as what it has done holds.
LEMMA KeepsRun ==
  ASSUME NEW q \in Actors, RunSound(q), run'[q] = run[q],
         run[q].locked => cache' = cache,
         q = "operator" =>
           /\ \A v \in Releases, k \in 1 .. 21 : Reached(v, k) => Reached(v, k)'
           /\ \A k \in 1 .. 11 : Undone(k) => Undone(k)'
           /\ applied' = applied /\ recorded' = recorded
  PROVE  RunSound(q)'
<1>1. CASE run[q] = Idle
  BY <1>1 DEF RunSound
<1>2. CASE FailedRun(q)
  <2>1. FailedRun(q)'
    BY <1>2 DEF FailedRun
  <2> QED BY <2>1 DEF RunSound
<1>3. ASSUME NEW k \in 1 .. 5, CheckRun(q, k) PROVE RunSound(q)'
  <2>1. CheckRun(q, k)'
    BY <1>3 DEF CheckRun
  <2> QED BY <2>1 DEF RunSound
<1>4. CASE StartedUpdate(q)
  BY <1>4 DEF StartedUpdate, RunSound
<1>5. ASSUME NEW k \in 1 .. 21, UpdateRun(q, k) PROVE RunSound(q)'
  <2>1. UpdateRun(q, k)'
    BY <1>5 DEF UpdateRun, OperatorRun
  <2> QED BY <2>1 DEF RunSound
<1>6. CASE RecordingRun(q)
  <2>1. RecordingRun(q)'
    BY <1>6 DEF RecordingRun, OperatorRun
  <2> QED BY <2>1 DEF RunSound
<1>7. ASSUME NEW k \in 1 .. 9, UninstallRun(q, k) PROVE RunSound(q)'
  <2>1. UninstallRun(q, k)'
    BY <1>7 DEF UninstallRun, OperatorRun
  <2> QED BY <2>1 DEF RunSound
<1>8. ASSUME NEW k \in 1 .. 11, PurgeRun(q, k) PROVE RunSound(q)'
  <2>1. PurgeRun(q, k)'
    BY <1>8 DEF PurgeRun, OperatorRun
  <2> QED BY <2>1 DEF RunSound
<1> QED BY <1>1, <1>2, <1>3, <1>4, <1>5, <1>6, <1>7, <1>8 DEF RunSound

\* The operator's run depends on what the updater cannot change.
LEMMA HostUntouched ==
  ASSUME UNCHANGED <<env, venv, current, runner, ingress, plists, cloud, launchd>>,
         run["updater"] = Idle => run'["updater"] = Idle
  PROVE  /\ \A v \in Releases, k \in 1 .. 21 : Reached(v, k) => Reached(v, k)'
         /\ \A k \in 1 .. 11 : Undone(k) => Undone(k)'
         /\ applied' = applied /\ recorded' = recorded
<1>1. ASSUME NEW v \in Releases, NEW k \in 1 .. 21, Reached(v, k) PROVE Reached(v, k)'
  BY <1>1 DEF Reached, cloud, launchd, Down
<1>2. ASSUME NEW k \in 1 .. 11, Undone(k) PROVE Undone(k)'
  BY <1>2 DEF Undone, launchd, Down
<1> QED BY <1>1, <1>2 DEF cloud

LEMMA HostKept ==
  ASSUME HostInv, UNCHANGED <<home, cloud, launchd>>, latest' \in 0 .. MaxRelease
  PROVE  HostInv'
<1>1. HostTypes'
  BY DEF HostInv, HostTypes, home, cloud, launchd
<1>2. HostSound'
  BY DEF HostInv, HostSound, home, cloud, launchd
<1>3. MigrationsInOrder'
  BY DEF HostInv, MigrationsInOrder, cloud
<1>4. StagedVerified'
  BY DEF HostInv, StagedVerified, home
<1> QED BY <1>1, <1>2, <1>3, <1>4 DEF HostInv

\* One run moves, and nothing else.
LEMMA RunMoves ==
  ASSUME DeploymentInv, NEW p \in Actors,
         run' \in [Actors -> Run], lock' \in BOOLEAN, LockExclusive',
         UNCHANGED <<home, cloud, launchd, latest>>,
         RunSound(p)', \A q \in Actors \ {p} : run'[q] = run[q],
         p = "updater" => (run["updater"] = Idle => run'["updater"] = Idle)
  PROVE  DeploymentInv'
<1>1. HostInv'
  BY InvParts, HostKept DEF HostInv, HostTypes
<1>2. ASSUME NEW q \in Actors, q # p PROVE RunSound(q)'
  <2>1. run["updater"] = Idle => run'["updater"] = Idle
    BY <1>2 DEF Actors
  <2>2. /\ \A v \in Releases, k \in 1 .. 21 : Reached(v, k) => Reached(v, k)'
        /\ \A k \in 1 .. 11 : Undone(k) => Undone(k)'
        /\ applied' = applied /\ recorded' = recorded
    BY <2>1, HostUntouched DEF home
  <2>3. RunSound(q) /\ run'[q] = run[q] /\ cache' = cache
    BY <1>2, InvParts DEF home
  <2> QED BY <2>2, <2>3, KeepsRun
<1>3. \A q \in Actors : RunSound(q)'
  BY <1>2
<1> QED BY <1>1, <1>3, InvNext

LEMMA ExitKeeps ==
  ASSUME DeploymentInv, NEW p \in Actors, Exit(p), UNCHANGED <<home, cloud, launchd, latest>>
  PROVE  DeploymentInv'
<1>1. /\ run' \in [Actors -> Run] /\ lock' \in BOOLEAN /\ LockExclusive'
      /\ run'[p] = Idle
      /\ \A q \in Actors \ {p} : run'[q] = run[q]
  BY InvParts, Exits
<1>2. RunSound(p)'
  BY <1>1 DEF RunSound, Idle, Running
<1> QED BY <1>1, <1>2, RunMoves

\* A run goes on, and nothing else happens.
LEMMA GoOnKeeps ==
  ASSUME DeploymentInv, NEW p \in Actors, run[p].todo # <<>>, GoOn(p), RunSound(p)',
         UNCHANGED <<lock, home, cloud, launchd, latest>>
  PROVE  DeploymentInv'
<1>1. run \in [Actors -> Run] /\ lock \in BOOLEAN /\ LockExclusive
  BY InvParts
<1>2. /\ run' \in [Actors -> Run] /\ run'[p].locked = run[p].locked
      /\ \A q \in Actors \ {p} : run'[q] = run[q]
  BY <1>1, GoesOn
<1>3. LockExclusive' /\ lock' \in BOOLEAN
  BY <1>1, <1>2 DEF LockExclusive, Actors
<1>4. run["updater"] # Idle \/ p # "updater"
  BY IdleIsRun
<1> QED BY <1>2, <1>3, <1>4, RunMoves

LEMMA FailKeeps ==
  ASSUME DeploymentInv, NEW p \in Actors, run[p].todo # <<>>, Fail(p),
         run[p].name = "uninstall" => UninstallRun(p, 9),
         UNCHANGED <<lock, home, cloud, launchd, latest>>
  PROVE  DeploymentInv'
<1>1. run \in [Actors -> Run] /\ lock \in BOOLEAN /\ LockExclusive
  BY InvParts
<1>2. /\ run' \in [Actors -> Run]
      /\ run'[p].name = run[p].name /\ run'[p].release = run[p].release
      /\ run'[p].locked = run[p].locked
      /\ run'[p].todo = Failed
      /\ \A q \in Actors \ {p} : run'[q] = run[q]
  BY <1>1, Fails
<1>3. LockExclusive' /\ lock' \in BOOLEAN
  BY <1>1, <1>2 DEF LockExclusive, Actors
<1>4. run["updater"] # Idle \/ p # "updater"
  BY IdleIsRun
<1>5. RunSound(p)'
  <2>1. ASSUME run[p].name = "uninstall"
        PROVE  p = "operator" /\ ~run'[p].locked /\ Undone(9)'
    <3>1. UninstallRun(p, 9)
      BY <2>1
    <3>2. p = "operator" /\ run'["updater"] = run["updater"]
      BY <3>1, <1>2 DEF UninstallRun, OperatorRun, Actors
    <3>3. Undone(9) => Undone(9)'
      BY <3>2, HostUntouched DEF home
    <3> QED BY <3>1, <3>2, <3>3, <1>2 DEF UninstallRun, OperatorRun
  <2>2. FailedRun(p)'
    BY <1>2, <2>1 DEF FailedRun
  <2> QED BY <2>2 DEF RunSound
<1> QED BY <1>2, <1>3, <1>4, <1>5, RunMoves

-----------------------------------------------------------------------------
(* The operator's install or update, command by command.                     *)

LEMMA HostNext ==
  ASSUME HostInv, HostTypes', HostSound', UNCHANGED <<applied, recorded, staged>>
  PROVE  HostInv'
BY DEF HostInv, MigrationsInOrder, StagedVerified

\* The updater is left alone by what changes neither its run nor the packages.
LEMMA UpdaterKeeps ==
  ASSUME DeploymentInv, run'["updater"] = run["updater"],
         run["updater"].locked => cache' = cache
  PROVE  RunSound("updater")'
BY InvParts, KeepsRun DEF Actors

\* The operator's run goes on and the host changes; the updater stays where it is.
LEMMA OperatorStep ==
  ASSUME DeploymentInv, NEW p \in Actors, p = "operator",
         run[p].todo # <<>>, GoOn(p), UNCHANGED <<lock, cache>>,
         HostInv', RunSound(p)'
  PROVE  DeploymentInv'
<1>1. run \in [Actors -> Run] /\ lock \in BOOLEAN /\ LockExclusive
  BY InvParts
<1>2. /\ run' \in [Actors -> Run] /\ run'[p].locked = run[p].locked
      /\ \A q \in Actors \ {p} : run'[q] = run[q]
  BY <1>1, GoesOn
<1>3. LockExclusive' /\ lock' \in BOOLEAN
  BY <1>1, <1>2 DEF LockExclusive, Actors
<1>4. RunSound("updater")'
  BY <1>2, UpdaterKeeps DEF Actors
<1>5. \A q \in Actors : RunSound(q)'
  BY <1>4 DEF Actors
<1> QED BY <1>2, <1>3, <1>5, InvNext

LEMMA UpdateStep ==
  ASSUME DeploymentInv, NEW p \in Actors, NEW k \in 1 .. 20, UpdateRun(p, k),
         GoOn(p), UNCHANGED <<lock, cache>>, HostInv',
         NEW v, v = run[p].release, Reached(v, k + 1)'
  PROVE  DeploymentInv'
<1>1. run[p].todo # <<>> /\ Tail(run[p].todo) = Rest(UpdateScript, k + 1)
  BY UpdateRests DEF UpdateRun
<1>2. /\ run'[p].name = run[p].name /\ run'[p].release = v
      /\ run'[p].locked = run[p].locked
      /\ run'[p].todo = Rest(UpdateScript, k + 1)
  BY <1>1, InvParts, GoesOn
<1>3. UpdateRun(p, k + 1)'
  BY <1>2 DEF UpdateRun, OperatorRun
<1>4. RunSound(p)' /\ p = "operator"
  BY <1>3 DEF RunSound, UpdateRun, OperatorRun
<1> QED BY <1>1, <1>4, OperatorStep

\* Whoever is at a command only updates have is an update that got there.
LEMMA UpdateCommand ==
  ASSUME DeploymentInv, NEW p \in Actors, NEW k \in 2 .. 19 \ {11, 15, 18},
         AtCommand(p, UpdateScript[k][1], UpdateScript[k][2])
  PROVE  \E v \in Releases :
           /\ v = run[p].release /\ UpdateRun(p, k) /\ Reached(v, k)
           /\ HostInv /\ HostTypes /\ HostSound
<1>1. RunSound(p) /\ HostInv
  BY InvParts
<1>2. UpdateRun(p, k)
  BY <1>1, UpdateTurn
<1> QED BY <1>1, <1>2 DEF UpdateRun, OperatorRun, HostInv

LEMMA MakeVenvKeeps ==
  ASSUME DeploymentInv, NEW p \in Actors, MakeVenv(p) PROVE DeploymentInv'
<1>1. AtCommand(p, UpdateScript[2][1], UpdateScript[2][2])
  BY UpdateWords DEF MakeVenv
<1>2. PICK v \in Releases : /\ v = run[p].release /\ UpdateRun(p, 2) /\ Reached(v, 2)
                             /\ HostInv /\ HostTypes /\ HostSound
  BY <1>1, UpdateCommand
<1>3. /\ venv' = [venv EXCEPT ![v] = IF @ = "none" THEN "made" ELSE @]
      /\ UNCHANGED <<lock, env, staged, cache, current, runner, ingress, plists, cloud,
                     launchd, latest>>
      /\ GoOn(p)
  BY <1>2 DEF MakeVenv
<1>4. HostTypes'
  BY <1>2, <1>3 DEF HostTypes, cloud, launchd
<1>5. HostSound'
  BY <1>2, <1>3 DEF HostTypes, HostSound, cloud, launchd, Releases
<1>6. HostInv'
  BY <1>2, <1>3, <1>4, <1>5, HostNext DEF cloud
<1>7. Reached(v, 3)'
  BY <1>2, <1>3 DEF Reached
<1> QED BY <1>2, <1>3, <1>6, <1>7, UpdateStep

LEMMA InstallPackageKeeps ==
  ASSUME DeploymentInv, NEW p \in Actors, InstallPackage(p) PROVE DeploymentInv'
<1>1. AtCommand(p, UpdateScript[3][1], UpdateScript[3][2])
  BY UpdateWords DEF InstallPackage
<1>2. PICK v \in Releases : /\ v = run[p].release /\ UpdateRun(p, 3) /\ Reached(v, 3)
                             /\ HostInv /\ HostTypes /\ HostSound
  BY <1>1, UpdateCommand
<1>3. /\ venv' = [venv EXCEPT ![v] = "full"]
      /\ UNCHANGED <<lock, env, staged, cache, current, runner, ingress, plists, cloud,
                     launchd, latest>>
      /\ GoOn(p)
  BY <1>2 DEF InstallPackage
<1>4. HostTypes'
  BY <1>2, <1>3 DEF HostTypes, cloud, launchd
<1>5. HostSound'
  BY <1>2, <1>3 DEF HostTypes, HostSound, cloud, launchd, Releases
<1>6. HostInv'
  BY <1>2, <1>3, <1>4, <1>5, HostNext DEF cloud
<1>7. Reached(v, 4)'
  BY <1>2, <1>3 DEF Reached, HostTypes
<1> QED BY <1>2, <1>3, <1>6, <1>7, UpdateStep

LEMMA EnsureStorageKeeps ==
  ASSUME DeploymentInv, NEW p \in Actors, EnsureStorage(p) PROVE DeploymentInv'
<1>1. AtCommand(p, UpdateScript[5][1], UpdateScript[5][2])
  BY UpdateWords DEF EnsureStorage
<1>2. PICK v \in Releases : /\ v = run[p].release /\ UpdateRun(p, 5) /\ Reached(v, 5)
                             /\ HostInv /\ HostTypes /\ HostSound
  BY <1>1, UpdateCommand
<1>3. /\ buckets' = TRUE
      /\ UNCHANGED <<lock, home, applied, recorded, auth, clients, launchd, latest>>
      /\ GoOn(p)
  BY <1>2 DEF EnsureStorage
<1>4. HostTypes'
  BY <1>2, <1>3 DEF HostTypes, home, cloud, launchd, Releases
<1>5. HostSound'
  BY <1>2, <1>3 DEF HostTypes, HostSound, Reached, home, cloud, launchd, Releases
<1>6. HostInv' /\ UNCHANGED cache
  BY <1>2, <1>3, <1>4, <1>5, HostNext DEF home, cloud
<1>7. Reached(v, 6)'
  BY <1>2, <1>3 DEF Reached, home, cloud, launchd
<1> QED BY <1>2, <1>3, <1>6, <1>7, UpdateStep

LEMMA ConfigureAuthKeeps ==
  ASSUME DeploymentInv, NEW p \in Actors, ConfigureAuth(p) PROVE DeploymentInv'
<1>1. AtCommand(p, UpdateScript[6][1], UpdateScript[6][2])
  BY UpdateWords DEF ConfigureAuth
<1>2. PICK v \in Releases : /\ v = run[p].release /\ UpdateRun(p, 6) /\ Reached(v, 6)
                             /\ HostInv /\ HostTypes /\ HostSound
  BY <1>1, UpdateCommand
<1>3. /\ auth' = v
      /\ UNCHANGED <<lock, home, applied, recorded, buckets, clients, launchd, latest>>
      /\ GoOn(p)
  BY <1>2 DEF ConfigureAuth
<1>4. HostTypes'
  BY <1>2, <1>3 DEF HostTypes, home, cloud, launchd, Releases
<1>5. HostSound'
  BY <1>2, <1>3 DEF HostTypes, HostSound, Reached, home, cloud, launchd, Releases
<1>6. HostInv' /\ UNCHANGED cache
  BY <1>2, <1>3, <1>4, <1>5, HostNext DEF home, cloud
<1>7. Reached(v, 7)'
  BY <1>2, <1>3 DEF Reached, home, cloud, launchd
<1> QED BY <1>2, <1>3, <1>6, <1>7, UpdateStep

LEMMA EnsureClientsKeeps ==
  ASSUME DeploymentInv, NEW p \in Actors, EnsureClients(p) PROVE DeploymentInv'
<1>1. AtCommand(p, UpdateScript[7][1], UpdateScript[7][2])
  BY UpdateWords DEF EnsureClients
<1>2. PICK v \in Releases : /\ v = run[p].release /\ UpdateRun(p, 7) /\ Reached(v, 7)
                             /\ HostInv /\ HostTypes /\ HostSound
  BY <1>1, UpdateCommand
<1>3. /\ clients' = v
      /\ UNCHANGED <<lock, home, applied, recorded, buckets, auth, launchd, latest>>
      /\ GoOn(p)
  BY <1>2 DEF EnsureClients
<1>4. HostTypes'
  BY <1>2, <1>3 DEF HostTypes, home, cloud, launchd, Releases
<1>5. HostSound'
  BY <1>2, <1>3 DEF HostTypes, HostSound, Reached, home, cloud, launchd, Releases
<1>6. HostInv' /\ UNCHANGED cache
  BY <1>2, <1>3, <1>4, <1>5, HostNext DEF home, cloud
<1>7. Reached(v, 8)'
  BY <1>2, <1>3 DEF Reached, home, cloud, launchd
<1> QED BY <1>2, <1>3, <1>6, <1>7, UpdateStep

LEMMA ActivateKeeps ==
  ASSUME DeploymentInv, NEW p \in Actors, Activate(p) PROVE DeploymentInv'
<1>1. AtCommand(p, UpdateScript[8][1], UpdateScript[8][2])
  BY UpdateWords DEF Activate
<1>2. PICK v \in Releases : /\ v = run[p].release /\ UpdateRun(p, 8) /\ Reached(v, 8)
                             /\ HostInv /\ HostTypes /\ HostSound
  BY <1>1, UpdateCommand
<1>3. /\ current' = v
      /\ UNCHANGED <<lock, env, venv, staged, cache, runner, ingress, plists, cloud,
                     launchd, latest>>
      /\ GoOn(p)
  BY <1>2 DEF Activate
<1>4. HostTypes'
  BY <1>2, <1>3 DEF HostTypes, home, cloud, launchd, Releases
<1>5. HostSound'
  BY <1>2, <1>3 DEF HostTypes, HostSound, Reached, home, cloud, launchd, Releases
<1>6. HostInv' /\ UNCHANGED cache
  BY <1>2, <1>3, <1>4, <1>5, HostNext DEF home, cloud
<1>7. Reached(v, 9)'
  BY <1>2, <1>3 DEF Reached, home, cloud, launchd
<1> QED BY <1>2, <1>3, <1>6, <1>7, UpdateStep

LEMMA WriteRunnerKeeps ==
  ASSUME DeploymentInv, NEW p \in Actors, WriteRunner(p) PROVE DeploymentInv'
<1>1. AtCommand(p, UpdateScript[9][1], UpdateScript[9][2])
  BY UpdateWords DEF WriteRunner
<1>2. PICK v \in Releases : /\ v = run[p].release /\ UpdateRun(p, 9) /\ Reached(v, 9)
                             /\ HostInv /\ HostTypes /\ HostSound
  BY <1>1, UpdateCommand
<1>3. /\ runner' = v
      /\ UNCHANGED <<lock, env, venv, staged, cache, current, ingress, plists, cloud,
                     launchd, latest>>
      /\ GoOn(p)
  BY <1>2 DEF WriteRunner
<1>4. HostTypes'
  BY <1>2, <1>3 DEF HostTypes, home, cloud, launchd, Releases
<1>5. HostSound'
  BY <1>2, <1>3 DEF HostTypes, HostSound, Reached, home, cloud, launchd, Releases
<1>6. HostInv' /\ UNCHANGED cache
  BY <1>2, <1>3, <1>4, <1>5, HostNext DEF home, cloud
<1>7. Reached(v, 10)'
  BY <1>2, <1>3 DEF Reached, home, cloud, launchd
<1> QED BY <1>2, <1>3, <1>6, <1>7, UpdateStep

LEMMA EnsureTunnelKeeps ==
  ASSUME DeploymentInv, NEW p \in Actors, EnsureTunnel(p) PROVE DeploymentInv'
<1>1. AtCommand(p, UpdateScript[13][1], UpdateScript[13][2])
  BY UpdateWords DEF EnsureTunnel
<1>2. PICK v \in Releases : /\ v = run[p].release /\ UpdateRun(p, 13) /\ Reached(v, 13)
                             /\ HostInv /\ HostTypes /\ HostSound
  BY <1>1, UpdateCommand
<1>3. /\ ingress' = TRUE
      /\ UNCHANGED <<lock, env, venv, staged, cache, current, runner, plists, cloud,
                     launchd, latest>>
      /\ GoOn(p)
  BY <1>2 DEF EnsureTunnel
<1>4. HostTypes'
  BY <1>2, <1>3 DEF HostTypes, home, cloud, launchd, Releases
<1>5. HostSound'
  BY <1>2, <1>3 DEF HostTypes, HostSound, Reached, home, cloud, launchd, Releases
<1>6. HostInv' /\ UNCHANGED cache
  BY <1>2, <1>3, <1>4, <1>5, HostNext DEF home, cloud
<1>7. Reached(v, 14)'
  BY <1>2, <1>3 DEF Reached, home, cloud, launchd
<1> QED BY <1>2, <1>3, <1>6, <1>7, UpdateStep

LEMMA WritePlistKeeps ==
  ASSUME DeploymentInv, NEW p \in Actors, WritePlist(p) PROVE DeploymentInv'
<1>1. PICK job \in Jobs :
        /\ AtCommand(p, "plist", job)
        /\ plists' = plists \cup {job}
        /\ GoOn(p)
        /\ UNCHANGED <<lock, env, venv, staged, cache, current, runner, ingress, cloud,
                       launchd, latest>>
  BY DEF WritePlist
<1>2. PICK k \in {10, 14, 17} :
        /\ UpdateScript[k][1] = "plist" /\ UpdateScript[k][2] = job
        /\ job = "worker" => k = 10
        /\ job = "tunnel" => k = 14
        /\ k = 10 => job = "worker"
        /\ k = 14 => job = "tunnel"
        /\ k = 17 => job = "updater"
  BY UpdateWords DEF Jobs
<1>3. AtCommand(p, UpdateScript[k][1], UpdateScript[k][2])
  BY <1>1, <1>2
<1>4. PICK v \in Releases : /\ v = run[p].release /\ UpdateRun(p, k) /\ Reached(v, k)
                             /\ HostInv /\ HostTypes /\ HostSound
  BY <1>3, UpdateCommand
<1>5. HostTypes'
  BY <1>1, <1>4 DEF HostTypes, cloud, launchd
<1>6. HostSound'
  BY <1>1, <1>2, <1>4 DEF HostSound, Reached, cloud, launchd, Releases
<1>7. HostInv'
  BY <1>1, <1>4, <1>5, <1>6, HostNext DEF cloud
<1>8. Reached(v, k + 1)'
  BY <1>1, <1>2, <1>4 DEF Reached, cloud, launchd
<1> QED BY <1>1, <1>4, <1>7, <1>8, UpdateStep

LEMMA BootstrapKeeps ==
  ASSUME DeploymentInv, NEW p \in Actors, Bootstrap(p) PROVE DeploymentInv'
<1>1. PICK job \in Jobs :
        /\ AtCommand(p, "bootstrap", job)
        /\ loaded' = loaded \cup {job}
        /\ worker' = IF job = "worker" THEN Down ELSE worker
        /\ GoOn(p)
        /\ UNCHANGED <<lock, home, cloud, latest>>
  BY DEF Bootstrap
<1>2. PICK k \in {12, 16, 19} :
        /\ UpdateScript[k][1] = "bootstrap" /\ UpdateScript[k][2] = job
        /\ job = "worker" => k = 12
        /\ job = "tunnel" => k = 16
        /\ k = 12 => job = "worker"
        /\ k = 16 => job = "tunnel"
        /\ k = 19 => job = "updater"
  BY UpdateWords DEF Jobs
<1>3. AtCommand(p, UpdateScript[k][1], UpdateScript[k][2])
  BY <1>1, <1>2
<1>4. PICK v \in Releases : /\ v = run[p].release /\ UpdateRun(p, k) /\ Reached(v, k)
                             /\ HostInv /\ HostTypes /\ HostSound
  BY <1>3, UpdateCommand
<1>5. HostTypes'
  BY <1>1, <1>4, DeploymentAssumption DEF HostTypes, home, cloud, Down
<1>6. HostSound'
  BY <1>1, <1>2, <1>4 DEF HostSound, Reached, home, cloud, Releases
<1>7. HostInv' /\ UNCHANGED cache
  BY <1>1, <1>4, <1>5, <1>6, HostNext DEF home, cloud
<1>8. Reached(v, k + 1)'
  BY <1>1, <1>2, <1>4 DEF Reached, home, cloud, Down
<1> QED BY <1>1, <1>4, <1>7, <1>8, UpdateStep

LEMMA MigrationsDoneKeeps ==
  ASSUME DeploymentInv, NEW p \in Actors, MigrationsDone(p) PROVE DeploymentInv'
<1>1. AtCommand(p, UpdateScript[4][1], UpdateScript[4][2])
  BY UpdateWords DEF MigrationsDone
<1>2. PICK v \in Releases : /\ v = run[p].release /\ UpdateRun(p, 4) /\ Reached(v, 4)
                             /\ HostInv /\ HostTypes /\ HostSound
  BY <1>1, UpdateCommand
<1>3. /\ (1 .. v) \ recorded = {} /\ GoOn(p)
      /\ UNCHANGED <<lock, home, cloud, launchd, latest>>
  BY <1>2 DEF MigrationsDone, Due
<1>4. HostInv' /\ UNCHANGED cache
  BY <1>2, <1>3, HostKept DEF HostTypes, home
<1>5. Reached(v, 5)'
  BY <1>2, <1>3 DEF Reached, home, cloud, launchd
<1> QED BY <1>2, <1>3, <1>4, <1>5, UpdateStep

\* The migrations are recorded in a row, so the first one due is the next.
LEMMA NextDue ==
  ASSUME NEW v \in Nat, NEW n \in Nat, NEW due, due = (n + 1) .. v, due # {}
  PROVE  First(due) = n + 1
<1>1. n + 1 \in due /\ \A m \in due : n + 1 <= m
  OBVIOUS
<1>2. First(due) \in due /\ \A m \in due : First(due) <= m
  BY <1>1 DEF First
<1> QED BY <1>1, <1>2

LEMMA ApplyMigrationKeeps ==
  ASSUME DeploymentInv, NEW p \in Actors, ApplyMigration(p) PROVE DeploymentInv'
<1>1. AtCommand(p, UpdateScript[4][1], UpdateScript[4][2])
  BY UpdateWords DEF ApplyMigration
<1>2. PICK v \in Releases : /\ v = run[p].release /\ UpdateRun(p, 4) /\ Reached(v, 4)
                             /\ HostInv /\ HostTypes /\ HostSound
  BY <1>1, UpdateCommand
<1>3. /\ (1 .. v) \ recorded # {} /\ applied' = First((1 .. v) \ recorded)
      /\ run' = [run EXCEPT ![p].todo = <<<<"record", "migration">>>> \o @]
      /\ UNCHANGED <<lock, home, recorded, buckets, auth, clients, launchd, latest>>
  BY <1>2 DEF ApplyMigration, Due
<1>4. PICK n \in Nat : recorded = 1 .. n
  BY <1>2, DeploymentAssumption DEF HostInv, HostTypes, MigrationsInOrder
<1>5. applied' = n + 1 /\ n + 1 \in 1 .. v
  <2>1. (1 .. v) \ recorded = (n + 1) .. v /\ v \in Nat
    BY <1>4 DEF Releases
  <2>2. First((1 .. v) \ recorded) = n + 1
    BY <1>3, <2>1, NextDue
  <2> QED BY <1>3, <2>1, <2>2
<1>6. HostInv'
  <2>1. HostTypes'
    BY <1>2, <1>3, <1>5, DeploymentAssumption DEF HostTypes, home, launchd, Releases
  <2>2. HostSound' /\ StagedVerified'
    BY <1>2, <1>3 DEF HostInv, HostSound, StagedVerified, home, launchd
  <2>3. MigrationsInOrder'
    BY <1>3, <1>4, <1>5 DEF MigrationsInOrder
  <2> QED BY <2>1, <2>2, <2>3 DEF HostInv
<1>7. /\ run' \in [Actors -> Run]
      /\ run'[p].name = run[p].name /\ run'[p].release = v
      /\ run'[p].locked = run[p].locked
      /\ run'[p].todo = <<<<"record", "migration">>>> \o Rest(UpdateScript, 4)
      /\ \A q \in Actors \ {p} : run'[q] = run[q]
  <2> DEFINE todo == <<<<"record", "migration">>>> \o Rest(UpdateScript, 4)
  <2>1. todo \in Seq(CommandName)
    BY RecordThenRest
  <2>2. run \in [Actors -> Run] /\ run[p] \in Run
    BY InvParts
  <2>3. run' = [run EXCEPT ![p] = [run[p] EXCEPT !.todo = todo]]
    BY <1>2, <1>3 DEF UpdateRun
  <2> HIDE DEF todo
  <2>4. [run[p] EXCEPT !.todo = todo] \in Run
    BY <2>1, <2>2 DEF Run
  <2>5. /\ run' \in [Actors -> Run]
        /\ run'[p].name = run[p].name /\ run'[p].release = v
        /\ run'[p].locked = run[p].locked
        /\ run'[p].todo = todo
        /\ \A q \in Actors \ {p} : run'[q] = run[q]
    BY <1>2, <2>2, <2>3, <2>4 DEF Run
  <2> QED BY <2>5 DEF todo
<1>8. Reached(v, 4)'
  BY <1>2, <1>3 DEF Reached, home, launchd
<1>9. RecordingRun(p)'
  <2>1. applied' \in Releases /\ recorded' = 1 .. (applied' - 1)
    <3>1. recorded' = 1 .. n
      BY <1>3, <1>4
    <3>2. applied' - 1 = n /\ applied' \in Releases
      BY <1>5, DeploymentAssumption DEF Releases
    <3> QED BY <3>1, <3>2
  <2>2. OperatorRun(p, "update")'
    BY <1>2, <1>7 DEF UpdateRun, OperatorRun
  <2>3. Reached(run[p].release, 4)'
    BY <1>7, <1>8
  <2> QED BY <1>7, <2>1, <2>2, <2>3, Zenon DEF RecordingRun
<1>10. LockExclusive' /\ lock' \in BOOLEAN
  BY <1>3, <1>7, InvParts DEF LockExclusive, Actors
<1>11. \A q \in Actors : RunSound(q)'
  <2>1. RunSound(p)' /\ p = "operator"
    BY <1>9 DEF RunSound, RecordingRun, OperatorRun
  <2>2. RunSound("updater")'
    BY <1>3, <1>7, <2>1, UpdaterKeeps DEF Actors, home
  <2> QED BY <2>1, <2>2 DEF Actors
<1> QED BY <1>6, <1>7, <1>10, <1>11, InvNext

LEMMA RecordMigrationKeeps ==
  ASSUME DeploymentInv, NEW p \in Actors, RecordMigration(p) PROVE DeploymentInv'
<1>1. RunSound(p) /\ AtCommand(p, "record", "migration") /\ HostInv
  BY InvParts DEF RecordMigration
<1>2. RecordingRun(p) /\ run[p].todo # <<>>
  BY <1>1, RecordTurn DEF AtCommand
<1>3. PICK v \in Releases : v = run[p].release /\ Reached(v, 4)
  BY <1>2 DEF RecordingRun, OperatorRun
<1>4. /\ applied \in Releases /\ recorded = 1 .. (applied - 1)
      /\ recorded' = recorded \cup {applied}
      /\ UNCHANGED <<lock, home, applied, buckets, auth, clients, launchd, latest>>
      /\ GoOn(p)
  BY <1>2 DEF RecordMigration, RecordingRun
<1>5. recorded' = 1 .. applied
  BY <1>4 DEF Releases
<1>6. HostInv' /\ UNCHANGED cache
  <2>1. HostTypes'
    BY <1>1, <1>4 DEF HostInv, HostTypes, home, launchd
  <2>2. HostSound' /\ StagedVerified'
    BY <1>1, <1>4 DEF HostInv, HostSound, StagedVerified, home, launchd
  <2>3. MigrationsInOrder'
    BY <1>4, <1>5 DEF MigrationsInOrder
  <2> QED BY <1>4, <2>1, <2>2, <2>3 DEF HostInv, home
<1>7. Reached(v, 4)'
  BY <1>3, <1>4 DEF Reached, home, launchd
<1>8. /\ run'[p].name = run[p].name /\ run'[p].release = v
      /\ run'[p].locked = run[p].locked
      /\ run'[p].todo = Rest(UpdateScript, 4)
  BY <1>2, <1>3, <1>4, InvParts, GoesOn, RecordThenRest DEF RecordingRun
<1>9. UpdateRun(p, 4)'
  BY <1>2, <1>3, <1>7, <1>8 DEF UpdateRun, RecordingRun, OperatorRun
<1>10. RunSound(p)' /\ p = "operator"
  BY <1>9 DEF RunSound, UpdateRun, OperatorRun
<1> QED BY <1>2, <1>4, <1>6, <1>10, OperatorStep

LEMMA WriteReceiptKeeps ==
  ASSUME DeploymentInv, NEW p \in Actors, WriteReceipt(p) PROVE DeploymentInv'
<1>1. RunSound(p) /\ AtCommand(p, "write", "receipt") /\ HostInv /\ HostTypes
  BY InvParts DEF WriteReceipt, HostInv
<1>2. UNCHANGED <<lock, home, cloud, launchd, latest>> /\ run[p].todo # <<>>
  BY DEF WriteReceipt, AtCommand
<1>3. CASE UpdateRun(p, 20)
  <2>1. GoOn(p)
    BY <1>3 DEF WriteReceipt, UpdateRun, OperatorRun
  <2>2. PICK v \in Releases : v = run[p].release /\ Reached(v, 20)
    BY <1>3 DEF UpdateRun, OperatorRun
  <2>3. HostInv' /\ UNCHANGED cache
    BY <1>1, <1>2, HostKept DEF HostTypes, home
  <2>4. Reached(v, 21)'
    BY <1>2, <2>2 DEF Reached, home, cloud, launchd
  <2> QED BY <1>2, <1>3, <2>1, <2>2, <2>3, <2>4, UpdateStep
<1>4. CASE UninstallRun(p, 9)
  <2>1. Fail(p)
    BY <1>4 DEF WriteReceipt, UninstallRun, OperatorRun
  <2> QED BY <1>2, <1>4, <2>1, FailKeeps
<1> QED BY <1>1, <1>3, <1>4, ReceiptTurn

LEMMA WriteEnvKeeps ==
  ASSUME DeploymentInv, NEW p \in Actors, WriteEnv(p) PROVE DeploymentInv'
<1>1. RunSound(p) /\ AtCommand(p, "write", "env") /\ HostInv /\ HostTypes /\ HostSound
  BY InvParts DEF WriteEnv, HostInv
<1>2. /\ UNCHANGED <<lock, venv, staged, cache, current, runner, ingress, plists, cloud,
                     launchd, latest>>
      /\ run[p].todo # <<>>
  BY DEF WriteEnv, AtCommand
<1>3. CASE UpdateRun(p, 1)
  <2>1. GoOn(p) /\ env' = TRUE
    BY <1>3 DEF WriteEnv, UpdateRun, OperatorRun
  <2>2. PICK v \in Releases : v = run[p].release
    BY <1>3 DEF UpdateRun, OperatorRun
  <2>3. HostTypes'
    BY <1>1, <1>2, <2>1 DEF HostTypes, cloud, launchd
  <2>4. HostSound'
    BY <1>1, <1>2, <2>1 DEF HostSound, cloud, launchd
  <2>5. HostInv'
    BY <1>1, <1>2, <2>3, <2>4, HostNext DEF cloud
  <2>6. Reached(v, 2)'
    BY <2>1 DEF Reached
  <2> QED BY <1>2, <1>3, <2>1, <2>2, <2>5, <2>6, UpdateStep
<1>4. CASE StartedUpdate(p)
  <2>1. Fail(p) /\ UNCHANGED env
    BY <1>4 DEF WriteEnv, StartedUpdate
  <2>2. run[p].name # "uninstall"
    BY <1>4 DEF StartedUpdate
  <2> QED BY <1>2, <2>1, <2>2, FailKeeps DEF home
<1> QED BY <1>1, <1>3, <1>4, EnvTurn

-----------------------------------------------------------------------------
(* bootout, uninstall.sh.                                                   *)

LEMMA UnloadRests ==
  ASSUME NEW p \in Actors, NEW k \in 1 .. 8, UnloadRun(p, k),
         run'[p].name = run[p].name, run'[p].release = run[p].release,
         run'[p].locked = run[p].locked, run'[p].todo = Tail(run[p].todo),
         Undone(k + 1)'
  PROVE  RunSound(p)'
<1>1. CASE UninstallRun(p, k)
  <2>1. Tail(run[p].todo) = Rest(UninstallScript, k + 1)
    <3>1. k \in 1 .. 9 /\ run[p].todo = Rest(UninstallScript, k)
      BY <1>1 DEF UninstallRun
    <3> QED BY <3>1, UninstallRests, Zenon
  <2>2. UninstallRun(p, k + 1)'
    BY <1>1, <2>1 DEF UninstallRun, OperatorRun
  <2> QED BY <2>2 DEF RunSound
<1>2. CASE PurgeRun(p, k)
  <2>1. Tail(run[p].todo) = Rest(PurgeScript, k + 1)
    <3>1. k \in 1 .. 10 /\ run[p].todo = Rest(PurgeScript, k)
      BY <1>2 DEF PurgeRun
    <3> QED BY <3>1, PurgeRests, Zenon
  <2>2. PurgeRun(p, k + 1)'
    BY <1>2, <2>1 DEF PurgeRun, OperatorRun
  <2> QED BY <2>2 DEF RunSound
<1> QED BY <1>1, <1>2 DEF UnloadRun

LEMMA UnloadStep ==
  ASSUME DeploymentInv, NEW p \in Actors, NEW k \in 1 .. 8, UnloadRun(p, k),
         run[p].todo # <<>>, GoOn(p), UNCHANGED <<lock, cache>>, HostInv',
         Undone(k + 1)'
  PROVE  DeploymentInv'
<1>1. /\ run'[p].name = run[p].name /\ run'[p].release = run[p].release
      /\ run'[p].locked = run[p].locked /\ run'[p].todo = Tail(run[p].todo)
  BY InvParts, GoesOn
<1>2. RunSound(p)'
  BY <1>1, UnloadRests
<1>3. p = "operator"
  BY DEF UnloadRun, UninstallRun, PurgeRun, OperatorRun
<1> QED BY <1>2, <1>3, OperatorStep

LEMMA UnloadCommand ==
  ASSUME DeploymentInv, NEW p \in Actors, NEW k \in 4 .. 8, NEW object,
         object = Unload[k][2], AtCommand(p, "rm", object)
  PROVE  /\ UnloadRun(p, k) /\ Undone(k) /\ run[p].todo # <<>> /\ p = "operator"
         /\ HostInv /\ HostTypes /\ HostSound
<1>1. RunSound(p) /\ HostInv
  BY InvParts
<1>2. UnloadRun(p, k)
  BY <1>1, RmTurn
<1> QED
  BY <1>1, <1>2 DEF UnloadRun, UninstallRun, PurgeRun, OperatorRun, HostInv, AtCommand

\* An operator's command leaves the updater's run alone.
LEMMA UpdaterUntouched ==
  ASSUME DeploymentInv, NEW p \in Actors, p = "operator", run[p].todo # <<>>, GoOn(p)
  PROVE  run'["updater"] = run["updater"]
BY InvParts, GoesOn DEF Actors

LEMMA RemovePlistKeeps ==
  ASSUME DeploymentInv, NEW p \in Actors, RemovePlist(p) PROVE DeploymentInv'
<1>1. PICK job \in Jobs :
        /\ AtCommand(p, "rm", job)
        /\ plists' = plists \ {job}
        /\ GoOn(p)
        /\ UNCHANGED <<lock, env, venv, staged, cache, current, runner, ingress, cloud,
                       launchd, latest>>
  BY DEF RemovePlist
<1>2. PICK k \in 4 .. 6 :
        /\ job = Unload[k][2]
        /\ k = 4 => job = "worker"
        /\ k = 5 => job = "tunnel"
        /\ k = 6 => job = "updater"
  BY UnloadWords DEF Jobs
<1>3. /\ UnloadRun(p, k) /\ Undone(k) /\ run[p].todo # <<>> /\ p = "operator"
      /\ HostInv /\ HostTypes /\ HostSound
  BY <1>1, <1>2, UnloadCommand
<1>4. HostTypes'
  BY <1>1, <1>3 DEF HostTypes, cloud, launchd
<1>5. HostSound'
  BY <1>1, <1>3 DEF HostSound, cloud, launchd
<1>6. HostInv'
  BY <1>1, <1>3, <1>4, <1>5, HostNext DEF cloud
<1>7. Undone(k + 1)'
  BY <1>1, <1>2, <1>3, UpdaterUntouched DEF Undone, launchd, Down
<1> QED BY <1>1, <1>3, <1>6, <1>7, UnloadStep

LEMMA RemoveIngressKeeps ==
  ASSUME DeploymentInv, NEW p \in Actors, RemoveIngress(p) PROVE DeploymentInv'
<1>1. /\ AtCommand(p, "rm", Unload[7][2])
      /\ ingress' = FALSE
      /\ GoOn(p)
      /\ UNCHANGED <<lock, env, venv, staged, cache, current, runner, plists, cloud,
                     launchd, latest>>
  BY UnloadWords DEF RemoveIngress
<1>2. /\ UnloadRun(p, 7) /\ Undone(7) /\ run[p].todo # <<>> /\ p = "operator"
      /\ HostInv /\ HostTypes /\ HostSound
  BY <1>1, UnloadCommand
<1>3. HostTypes'
  BY <1>1, <1>2 DEF HostTypes, cloud, launchd
<1>4. HostSound'
  BY <1>1, <1>2 DEF HostSound, Undone, cloud, launchd
<1>5. HostInv'
  BY <1>1, <1>2, <1>3, <1>4, HostNext DEF cloud
<1>6. Undone(8)'
  BY <1>1, <1>2, UpdaterUntouched DEF Undone, launchd, Down
<1> QED BY <1>1, <1>2, <1>5, <1>6, UnloadStep

LEMMA RemoveRunnerKeeps ==
  ASSUME DeploymentInv, NEW p \in Actors, RemoveRunner(p) PROVE DeploymentInv'
<1>1. /\ AtCommand(p, "rm", Unload[8][2])
      /\ runner' = 0
      /\ GoOn(p)
      /\ UNCHANGED <<lock, env, venv, staged, cache, current, ingress, plists, cloud,
                     launchd, latest>>
  BY UnloadWords DEF RemoveRunner
<1>2. /\ UnloadRun(p, 8) /\ Undone(8) /\ run[p].todo # <<>> /\ p = "operator"
      /\ HostInv /\ HostTypes /\ HostSound
  BY <1>1, UnloadCommand
<1>3. HostTypes'
  BY <1>1, <1>2, DeploymentAssumption DEF HostTypes, cloud, launchd
<1>4. HostSound'
  BY <1>1, <1>2 DEF HostSound, Undone, cloud, launchd
<1>5. HostInv'
  BY <1>1, <1>2, <1>3, <1>4, HostNext DEF cloud
<1>6. Undone(9)'
  BY <1>1, <1>2, UpdaterUntouched DEF Undone, launchd, Down
<1> QED BY <1>1, <1>2, <1>5, <1>6, UnloadStep

LEMMA PurgeKeeps ==
  ASSUME DeploymentInv, NEW p \in Actors, Purge(p) PROVE DeploymentInv'
<1>1. PICK gone \in SUBSET {"env", "venvs", "releases", "current"} :
        /\ \/ AtCommand(p, "purge", "part") /\ UNCHANGED lock
           \/ AtCommand(p, "purge", "rest") /\ lock' = FALSE
        /\ env' = (env /\ "env" \notin gone)
        /\ venv' = IF "venvs" \in gone THEN [v \in Releases |-> "none"] ELSE venv
        /\ staged' = IF "releases" \in gone THEN [v \in Releases |-> "none"] ELSE staged
        /\ cache' = IF "releases" \in gone THEN [v \in Releases |-> "none"] ELSE cache
        /\ current' = IF "current" \in gone THEN 0 ELSE current
        /\ GoOn(p)
        /\ UNCHANGED <<runner, ingress, plists, cloud, launchd, latest>>
  BY DEF Purge
<1>2. PICK k \in {9, 10} : PurgeRun(p, k)
  BY <1>1, InvParts, PurgeTurn
<1>3. /\ p = "operator" /\ ~run[p].locked /\ run[p].todo # <<>>
      /\ runner = 0 /\ plists = {} /\ loaded = {} /\ run["updater"] = Idle
  <2>1. run[p].todo # <<>>
    BY <1>1 DEF AtCommand
  <2>2. Undone(9) /\ plists \subseteq Jobs /\ loaded \subseteq Jobs
    BY <1>2, InvParts DEF PurgeRun, Undone, HostInv, HostTypes
  <2> QED BY <1>2, <2>1, <2>2 DEF PurgeRun, OperatorRun, Undone, Jobs
<1>4. HostInv /\ HostTypes /\ HostSound /\ StagedVerified
  BY InvParts DEF HostInv
<1>5. HostInv'
  <2>1. HostTypes'
    BY <1>1, <1>4, DeploymentAssumption DEF HostTypes, cloud, launchd
  <2>2. HostSound'
    BY <1>1, <1>3, <1>4 DEF HostSound, cloud, launchd, Releases
  <2>3. StagedVerified'
    BY <1>1, <1>4 DEF StagedVerified
  <2>4. MigrationsInOrder'
    BY <1>1, <1>4 DEF HostInv, MigrationsInOrder, cloud
  <2> QED BY <2>1, <2>2, <2>3, <2>4 DEF HostInv
<1>6. /\ run' \in [Actors -> Run]
      /\ run'[p].name = run[p].name /\ run'[p].release = run[p].release
      /\ run'[p].locked = run[p].locked /\ run'[p].todo = Tail(run[p].todo)
      /\ run'["updater"] = Idle
  BY <1>1, <1>3, InvParts, GoesOn DEF Actors
<1>7. LockExclusive' /\ lock' \in BOOLEAN
  BY <1>1, <1>3, <1>6, IdleIsRun, InvParts DEF LockExclusive, Actors
<1>8. RunSound(p)'
  <2>1. Tail(run[p].todo) = Rest(PurgeScript, k + 1)
    <3>1. k \in 1 .. 10 /\ run[p].todo = Rest(PurgeScript, k)
      BY <1>2 DEF PurgeRun
    <3> QED BY <3>1, PurgeRests, Zenon
  <2>2. Undone(k + 1)'
    BY <1>1, <1>2, <1>6 DEF PurgeRun, Undone, launchd, Down
  <2>3. PurgeRun(p, k + 1)'
    BY <1>2, <1>6, <2>1, <2>2 DEF PurgeRun, OperatorRun
  <2> QED BY <2>3 DEF RunSound
<1>9. RunSound("updater")'
  BY <1>6 DEF RunSound, Idle, Running
<1>10. \A q \in Actors : RunSound(q)'
  BY <1>3, <1>8, <1>9 DEF Actors
<1> QED BY <1>5, <1>6, <1>7, <1>10, InvNext

LEMMA BootoutKeeps ==
  ASSUME DeploymentInv, NEW p \in Actors, Bootout(p) PROVE DeploymentInv'
<1>1. PICK job \in Jobs :
        /\ AtCommand(p, "bootout", job)
        /\ loaded' = loaded \ {job}
        /\ worker' = IF job = "worker" THEN Down ELSE worker
        /\ run' = [q \in Actors |-> IF job = "updater" /\ q = "updater" THEN Idle
                                    ELSE IF q = p THEN [run[q] EXCEPT !.todo = Tail(@)]
                                    ELSE run[q]]
        /\ IF job = "updater" /\ run["updater"].locked THEN lock' \in BOOLEAN
                                                       ELSE UNCHANGED lock
        /\ UNCHANGED <<home, cloud, latest>>
  BY DEF Bootout
<1>2. \/ \E k \in {11, 15, 18} : UpdateRun(p, k) /\ UpdateScript[k][2] = job
      \/ \E k \in 1 .. 3 : UnloadRun(p, k) /\ Unload[k][2] = job
  BY <1>1, InvParts, BootoutTurn
<1>3. p = "operator" /\ ~run[p].locked /\ run[p].todo # <<>>
  BY <1>1, <1>2 DEF UpdateRun, UnloadRun, UninstallRun, PurgeRun, OperatorRun, AtCommand
<1>4. HostInv /\ HostTypes /\ HostSound
  BY InvParts DEF HostInv
<1>5. HostInv' /\ UNCHANGED cache
  <2>1. HostTypes'
    BY <1>1, <1>4, DeploymentAssumption DEF HostTypes, home, cloud, Down
  <2>2. HostSound'
    BY <1>1, <1>4 DEF HostSound, home, cloud
  <2> QED BY <1>1, <1>4, <2>1, <2>2, HostNext DEF home, cloud
<1>6. /\ run' \in [Actors -> Run]
      /\ run'[p].name = run[p].name /\ run'[p].release = run[p].release
      /\ run'[p].locked = run[p].locked /\ run'[p].todo = Tail(run[p].todo)
      /\ run'["updater"] = IF job = "updater" THEN Idle ELSE run["updater"]
  <2>1. run \in [Actors -> Run] /\ run[p] \in Run /\ run["updater"] \in Run
    BY InvParts DEF Actors
  <2>2. Tail(run[p].todo) \in Seq(CommandName)
    BY <1>3, <2>1 DEF Run
  <2>3. [run[p] EXCEPT !.todo = Tail(run[p].todo)] \in Run
    BY <2>1, <2>2 DEF Run
  <2>4. /\ run'[p] = [run[p] EXCEPT !.todo = Tail(run[p].todo)]
        /\ run'["updater"] = IF job = "updater" THEN Idle ELSE run["updater"]
    BY <1>1, <1>3 DEF Actors
  <2>5. \A q \in Actors : run'[q] \in Run
    BY <1>3, <2>1, <2>3, <2>4, IdleIsRun DEF Actors
  <2>6. run' \in [Actors -> Run]
    BY <1>1, <2>5
  <2> QED BY <2>1, <2>4, <2>6 DEF Run
<1>7. LockExclusive' /\ lock' \in BOOLEAN
  BY <1>1, <1>3, <1>6, IdleIsRun, InvParts DEF LockExclusive, Actors
<1>8. RunSound("updater")'
  <2>1. CASE job = "updater"
    BY <1>6, <2>1 DEF RunSound, Idle, Running
  <2>2. CASE job # "updater"
    BY <1>5, <1>6, <2>2, UpdaterKeeps
  <2> QED BY <2>1, <2>2
<1>9. ASSUME NEW k \in {11, 15, 18}, UpdateRun(p, k), UpdateScript[k][2] = job
      PROVE  RunSound(p)'
  <2>1. PICK v \in Releases : v = run[p].release /\ Reached(v, k)
    BY <1>9 DEF UpdateRun, OperatorRun
  <2>2. /\ k = 11 => job = "worker"
        /\ k = 15 => job = "tunnel"
        /\ k = 18 => job = "updater"
    BY <1>9, UpdateWords
  <2>3. Reached(v, k + 1)'
    BY <1>1, <2>1, <2>2 DEF Reached, home, cloud, Down
  <2>4. Tail(run[p].todo) = Rest(UpdateScript, k + 1)
    <3>1. k \in 1 .. 20 /\ run[p].todo = Rest(UpdateScript, k)
      BY <1>9 DEF UpdateRun
    <3> QED BY <3>1, UpdateRests, Zenon
  <2>5. UpdateRun(p, k + 1)'
    BY <1>6, <1>9, <2>1, <2>3, <2>4 DEF UpdateRun, OperatorRun
  <2> QED BY <2>5 DEF RunSound
<1>10. ASSUME NEW k \in 1 .. 3, UnloadRun(p, k), Unload[k][2] = job
       PROVE  RunSound(p)'
  <2>1. Undone(k)
    BY <1>10 DEF UnloadRun, UninstallRun, PurgeRun
  <2>2. /\ k = 1 => job = "updater"
        /\ k = 2 => job = "tunnel"
        /\ k = 3 => job = "worker"
    BY <1>10, UnloadWords
  <2>3. Undone(k + 1)'
    BY <1>1, <1>6, <2>1, <2>2 DEF Undone, Down
  <2> QED BY <1>6, <1>10, <2>3, UnloadRests
<1>11. \A q \in Actors : RunSound(q)'
  BY <1>2, <1>3, <1>8, <1>9, <1>10 DEF Actors
<1> QED BY <1>5, <1>6, <1>7, <1>11, InvNext

-----------------------------------------------------------------------------
(* The check, whoever runs it.                                              *)

LEMMA TakeLockKeeps ==
  ASSUME DeploymentInv, NEW p \in Actors, TakeLock(p) PROVE DeploymentInv'
<1>1. /\ AtCommand(p, CheckScript[1][1], "lock")
      /\ UNCHANGED <<home, cloud, launchd, latest>>
  BY CheckWords DEF TakeLock
<1>2. CheckRun(p, 1) /\ run[p].todo # <<>> /\ run[p] # Idle
  BY <1>1, InvParts, CheckTurn, IdleIsRun DEF AtCommand
<1>3. /\ run \in [Actors -> Run] /\ lock \in BOOLEAN /\ LockExclusive
      /\ run[p] \in Run /\ ~run[p].locked
  BY <1>2, InvParts DEF CheckRun
<1>4. CASE lock
  <2>1. run' = [run EXCEPT ![p] = Idle] /\ UNCHANGED lock
    BY <1>4 DEF TakeLock
  <2>2. run' \in [Actors -> Run] /\ run'[p] = Idle /\ \A q \in Actors \ {p} : run'[q] = run[q]
    BY <1>3, <2>1, IdleIsRun
  <2>3. LockExclusive'
    BY <1>3, <1>4, <2>1, <2>2, IdleIsRun DEF LockExclusive, Actors
  <2>4. RunSound(p)'
    BY <2>2 DEF RunSound, Idle, Running
  <2> QED BY <1>1, <1>2, <1>3, <2>1, <2>2, <2>3, <2>4, RunMoves
<1>5. CASE ~lock
  <2> DEFINE todo == Tail(run[p].todo)
  <2>1. todo = Rest(CheckScript, 2) /\ todo \in Seq(CommandName)
    BY <1>2, CheckRests DEF CheckRun
  <2>2. run' = [run EXCEPT ![p] = [run[p] EXCEPT !.locked = TRUE, !.todo = todo]] /\ lock' = TRUE
    BY <1>3, <1>5 DEF TakeLock
  <2> HIDE DEF todo
  <2>3. [run[p] EXCEPT !.locked = TRUE, !.todo = todo] \in Run
    BY <1>3, <2>1 DEF Run
  <2>4. /\ run' \in [Actors -> Run] /\ \A q \in Actors \ {p} : run'[q] = run[q]
        /\ run'[p].name = run[p].name /\ run'[p].locked = TRUE /\ run'[p].todo = todo
    BY <1>3, <2>2, <2>3 DEF Run
  <2>5. LockExclusive' /\ lock' \in BOOLEAN
    BY <1>3, <1>5, <2>2, <2>4 DEF LockExclusive, Actors
  <2>6. CheckRun(p, 2)'
    BY <1>2, <2>1, <2>4 DEF CheckRun
  <2>7. RunSound(p)'
    BY <2>6 DEF RunSound
  <2> QED BY <1>1, <1>2, <2>4, <2>5, <2>7, RunMoves
<1> QED BY <1>3, <1>4, <1>5

LEMMA AskLatestKeeps ==
  ASSUME DeploymentInv, NEW p \in Actors, AskLatest(p) PROVE DeploymentInv'
<1>1. /\ AtCommand(p, CheckScript[2][1], "latest")
      /\ UNCHANGED <<home, cloud, launchd, latest>>
  BY CheckWords DEF AskLatest
<1>2. CheckRun(p, 2) /\ run[p].todo # <<>> /\ run[p] # Idle
  BY <1>1, InvParts, CheckTurn, IdleIsRun DEF AtCommand
<1>3. /\ run \in [Actors -> Run] /\ lock \in BOOLEAN /\ LockExclusive
      /\ run[p] \in Run /\ run[p].locked /\ latest \in 0 .. MaxRelease
  BY <1>2, InvParts DEF CheckRun, HostInv, HostTypes
<1>4. CASE latest <= run[p].release
  BY <1>1, <1>4, ExitKeeps DEF AskLatest
<1>5. CASE ~(latest <= run[p].release)
  <2> DEFINE todo == Tail(run[p].todo)
  <2>1. todo = Rest(CheckScript, 3) /\ todo \in Seq(CommandName)
    BY <1>2, CheckRests DEF CheckRun
  <2>2. run' = [run EXCEPT ![p] = [run[p] EXCEPT !.target = latest, !.todo = todo]]
        /\ lock' = lock
    BY <1>3, <1>5 DEF AskLatest
  <2> HIDE DEF todo
  <2>3. [run[p] EXCEPT !.target = latest, !.todo = todo] \in Run
    BY <1>3, <2>1 DEF Run
  <2>4. /\ run' \in [Actors -> Run] /\ \A q \in Actors \ {p} : run'[q] = run[q]
        /\ run'[p].name = run[p].name /\ run'[p].locked = run[p].locked
        /\ run'[p].target = latest /\ run'[p].todo = todo
    BY <1>3, <2>2, <2>3 DEF Run
  <2>5. LockExclusive' /\ lock' \in BOOLEAN
    BY <1>3, <2>2, <2>4 DEF LockExclusive, Actors
  <2>6. latest \in Releases
    BY <1>3, <1>5, DeploymentAssumption DEF Run, Releases
  <2>7. CheckRun(p, 3)'
    BY <1>2, <2>1, <2>4, <2>6 DEF CheckRun
  <2>8. RunSound(p)'
    BY <2>7 DEF RunSound
  <2> QED BY <1>1, <1>2, <2>4, <2>5, <2>8, RunMoves
<1> QED BY <1>4, <1>5

\* Where the lock is held, nobody else is past it: the packages are one's own.
LEMMA LockedStep ==
  ASSUME DeploymentInv, NEW p \in Actors, run[p].locked,
         run' \in [Actors -> Run], run'[p].locked,
         \A q \in Actors \ {p} : run'[q] = run[q],
         UNCHANGED <<lock, env, venv, current, runner, ingress, plists, cloud, launchd, latest>>,
         HostTypes', StagedVerified', RunSound(p)'
  PROVE  DeploymentInv'
<1>1. HostInv'
  <2>1. HostSound'
    BY InvParts DEF HostInv, HostSound, cloud, launchd
  <2>2. MigrationsInOrder'
    BY InvParts DEF HostInv, MigrationsInOrder, cloud
  <2> QED BY <2>1, <2>2 DEF HostInv
<1>2. LockExclusive' /\ lock' \in BOOLEAN
  BY InvParts DEF LockExclusive, Actors
<1>3. ASSUME NEW q \in Actors, q # p PROVE RunSound(q)'
  <2>1. RunSound(q) /\ run'[q] = run[q] /\ ~run[q].locked
    BY <1>3, InvParts DEF LockExclusive, Actors
  <2>2. run["updater"] = Idle => run'["updater"] = Idle
    BY IdleIsRun DEF Actors
  <2>3. /\ \A v \in Releases, k \in 1 .. 21 : Reached(v, k) => Reached(v, k)'
        /\ \A k \in 1 .. 11 : Undone(k) => Undone(k)'
        /\ applied' = applied /\ recorded' = recorded
    BY <2>2, HostUntouched
  <2> QED BY <2>1, <2>3, KeepsRun
<1>4. \A q \in Actors : RunSound(q)'
  BY <1>3
<1> QED BY <1>1, <1>2, <1>4, InvNext

LEMMA DownloadKeeps ==
  ASSUME DeploymentInv, NEW p \in Actors, Download(p) PROVE DeploymentInv'
<1>1. PICK content \in {"good", "bad"} :
        /\ AtCommand(p, CheckScript[3][1], "package")
        /\ cache' = [cache EXCEPT ![run[p].target] = content]
        /\ GoOn(p)
        /\ UNCHANGED <<lock, env, venv, staged, current, runner, ingress, plists, cloud,
                       launchd, latest>>
  BY CheckWords DEF Download
<1>2. CheckRun(p, 3) /\ run[p].todo # <<>>
  BY <1>1, InvParts, CheckTurn DEF AtCommand
<1>3. /\ run' \in [Actors -> Run] /\ \A q \in Actors \ {p} : run'[q] = run[q]
      /\ run'[p].name = run[p].name /\ run'[p].locked = run[p].locked
      /\ run'[p].target = run[p].target /\ run'[p].todo = Tail(run[p].todo)
  BY <1>1, <1>2, InvParts, GoesOn
<1>4. Tail(run[p].todo) = Rest(CheckScript, 4)
  BY <1>2, CheckRests DEF CheckRun
<1>5. CheckRun(p, 4)'
  BY <1>2, <1>3, <1>4 DEF CheckRun
<1>6. RunSound(p)' /\ run[p].locked
  BY <1>2, <1>5 DEF RunSound, CheckRun
<1>7. HostTypes'
  BY <1>1, InvParts DEF HostInv, HostTypes, cloud, launchd
<1>8. StagedVerified'
  BY <1>1, InvParts DEF HostInv, StagedVerified
<1> QED BY <1>1, <1>3, <1>6, <1>7, <1>8, LockedStep

LEMMA VerifyKeeps ==
  ASSUME DeploymentInv, NEW p \in Actors, Verify(p) PROVE DeploymentInv'
<1>1. /\ AtCommand(p, CheckScript[4][1], "package")
      /\ UNCHANGED <<lock, home, cloud, launchd, latest>>
  BY CheckWords DEF Verify
<1>2. CheckRun(p, 4) /\ run[p].todo # <<>>
  BY <1>1, InvParts, CheckTurn DEF AtCommand
<1>3. CASE cache[run[p].target] = "good"
  <2>1. GoOn(p)
    BY <1>3 DEF Verify
  <2>2. /\ run'[p].name = run[p].name /\ run'[p].locked = run[p].locked
        /\ run'[p].target = run[p].target /\ run'[p].todo = Tail(run[p].todo)
    BY <1>2, <2>1, InvParts, GoesOn
  <2>3. Tail(run[p].todo) = Rest(CheckScript, 5)
    BY <1>2, CheckRests DEF CheckRun
  <2>4. CheckRun(p, 5)'
    BY <1>1, <1>2, <1>3, <2>2, <2>3 DEF CheckRun, home
  <2>5. RunSound(p)'
    BY <2>4 DEF RunSound
  <2> QED BY <1>1, <1>2, <2>1, <2>5, GoOnKeeps
<1>4. CASE cache[run[p].target] # "good"
  <2>1. Fail(p)
    BY <1>4 DEF Verify
  <2>2. run[p].name # "uninstall"
    BY <1>2 DEF CheckRun
  <2> QED BY <1>1, <1>2, <2>1, <2>2, FailKeeps
<1> QED BY <1>3, <1>4

LEMMA StageKeeps ==
  ASSUME DeploymentInv, NEW p \in Actors, Stage(p) PROVE DeploymentInv'
<1>1. /\ AtCommand(p, CheckScript[5][1], "release")
      /\ staged' = [staged EXCEPT ![run[p].target] = IF @ = "none" THEN cache[run[p].target] ELSE @]
      /\ run' = [run EXCEPT ![p] = Running("update", run[p].target, 0, TRUE, UpdateScript)]
      /\ UNCHANGED <<lock, env, venv, cache, current, runner, ingress, plists, cloud,
                     launchd, latest>>
  BY CheckWords DEF Stage
<1>2. CheckRun(p, 5)
  BY <1>1, InvParts, CheckTurn
<1>3. /\ run[p].locked /\ run[p].target \in Releases /\ cache[run[p].target] = "good"
      /\ run \in [Actors -> Run]
  BY <1>2, InvParts DEF CheckRun
<1>4. Running("update", run[p].target, 0, TRUE, UpdateScript) \in Run
  BY <1>3, ScriptLengths, DeploymentAssumption DEF Running, Run, Releases
<1>5. /\ run' \in [Actors -> Run] /\ \A q \in Actors \ {p} : run'[q] = run[q]
      /\ run'[p] = Running("update", run[p].target, 0, TRUE, UpdateScript)
  BY <1>1, <1>3, <1>4
<1>6. StartedUpdate(p)'
  BY <1>5 DEF StartedUpdate, Running
<1>7. RunSound(p)' /\ run'[p].locked
  BY <1>6 DEF RunSound, StartedUpdate
<1>8. HostTypes'
  BY <1>1, <1>3, InvParts DEF HostInv, HostTypes, cloud, launchd
<1>9. StagedVerified'
  BY <1>1, <1>3, InvParts DEF HostInv, HostTypes, StagedVerified
<1> QED BY <1>1, <1>3, <1>5, <1>7, <1>8, <1>9, LockedStep

-----------------------------------------------------------------------------
(* What GitHub, the operator, launchd and a loss of power do.               *)

LEMMA PublishKeeps ==
  ASSUME DeploymentInv, Publish PROVE DeploymentInv'
<1>1. UNCHANGED <<run, lock, home, cloud, launchd>> /\ latest' \in 0 .. MaxRelease
  BY InvParts, DeploymentAssumption DEF Publish, HostInv, HostTypes
<1>2. HostInv'
  BY <1>1, InvParts, HostKept
<1>3. LockExclusive'
  BY <1>1, InvParts DEF LockExclusive
<1>4. ASSUME NEW q \in Actors PROVE RunSound(q)'
  <2>1. /\ \A v \in Releases, k \in 1 .. 21 : Reached(v, k) => Reached(v, k)'
        /\ \A k \in 1 .. 11 : Undone(k) => Undone(k)'
        /\ applied' = applied /\ recorded' = recorded
    BY <1>1, HostUntouched DEF home
  <2> QED BY <1>1, <2>1, InvParts, KeepsRun DEF home
<1> QED BY <1>1, <1>2, <1>3, <1>4, InvParts, InvNext

LEMMA RunScriptKeeps ==
  ASSUME DeploymentInv, RunScript PROVE DeploymentInv'
<1> DEFINE p == "operator"
<1>1. PICK name \in {"update", "uninstall", "purge", "check"}, v \in Releases :
        /\ run[p] = Idle
        /\ run' = [run EXCEPT ![p] = Running(name, v, 0, FALSE, ScriptOf(name))]
        /\ UNCHANGED <<lock, home, cloud, launchd, latest>>
  BY DEF RunScript
<1>2. /\ name = "update" => ScriptOf(name) = UpdateScript
      /\ name = "uninstall" => ScriptOf(name) = UninstallScript
      /\ name = "purge" => ScriptOf(name) = PurgeScript
      /\ name = "check" => ScriptOf(name) = CheckScript
  BY DEF ScriptOf
<1>3. ScriptOf(name) \in Seq(CommandName)
  BY <1>2, ScriptLengths
<1> DEFINE script == ScriptOf(name)
<1> HIDE DEF script
<1>4. Running(name, v, 0, FALSE, script) \in Run
  BY <1>3, DeploymentAssumption DEF Running, Run, Releases, script
<1>5. /\ run' \in [Actors -> Run] /\ \A q \in Actors \ {p} : run'[q] = run[q]
      /\ run'[p] = Running(name, v, 0, FALSE, script)
  BY <1>1, <1>4, InvParts DEF script, Actors
<1>6. /\ run'[p].name = name /\ run'[p].release = v /\ ~run'[p].locked
      /\ run'[p].todo = script
  BY <1>5 DEF Running
<1>7. LockExclusive' /\ lock' \in BOOLEAN
  BY <1>1, <1>5, <1>6, InvParts DEF LockExclusive, Actors
<1>8. ASSUME name = "update" PROVE RunSound(p)'
  <2>1. UpdateRun(p, 1)'
    BY <1>2, <1>6, <1>8, UpdateRests DEF UpdateRun, OperatorRun, Reached, script
  <2> QED BY <2>1 DEF RunSound
<1>9. ASSUME name = "uninstall" PROVE RunSound(p)'
  <2>1. UninstallRun(p, 1)'
    BY <1>2, <1>6, <1>9, UninstallRests DEF UninstallRun, OperatorRun, Undone, script
  <2> QED BY <2>1 DEF RunSound
<1>10. ASSUME name = "purge" PROVE RunSound(p)'
  <2>1. PurgeRun(p, 1)'
    BY <1>2, <1>6, <1>10, PurgeRests DEF PurgeRun, OperatorRun, Undone, script
  <2> QED BY <2>1 DEF RunSound
<1>11. ASSUME name = "check" PROVE RunSound(p)'
  <2>1. CheckRun(p, 1)'
    BY <1>2, <1>6, <1>11, CheckRests DEF CheckRun, script
  <2> QED BY <2>1 DEF RunSound
<1>12. RunSound(p)' /\ p \in Actors
  BY <1>8, <1>9, <1>10, <1>11 DEF Actors
<1> QED BY <1>1, <1>5, <1>7, <1>12, RunMoves

LEMMA StartCheckKeeps ==
  ASSUME DeploymentInv, StartCheck PROVE DeploymentInv'
<1> DEFINE p == "updater"
           r == Running("check", current, 0, FALSE, CheckScript)
<1>1. /\ "updater" \in loaded
      /\ run' = [run EXCEPT ![p] = r]
      /\ UNCHANGED <<lock, home, cloud, launchd, latest>>
  BY DEF StartCheck
<1>2. HostInv' /\ current \in 0 .. MaxRelease
  BY <1>1, InvParts, HostKept DEF HostInv, HostTypes
<1>3. r \in Run /\ r.name = "check" /\ ~r.locked /\ r.todo = CheckScript
  BY <1>2, ScriptLengths, DeploymentAssumption DEF Running, Run
<1> HIDE DEF r
<1>4. run' \in [Actors -> Run] /\ run'[p] = r /\ run'["operator"] = run["operator"]
  BY <1>1, <1>3, InvParts DEF Actors
<1>5. LockExclusive' /\ lock' \in BOOLEAN
  BY <1>1, <1>3, <1>4, InvParts DEF LockExclusive, Actors
<1>6. RunSound(p)'
  <2>1. CheckRun(p, 1)'
    BY <1>3, <1>4, CheckRests DEF CheckRun
  <2> QED BY <2>1 DEF RunSound
<1>7. RunSound("operator")'
  <2>1. \A v \in Releases, k \in 1 .. 21 : Reached(v, k) => Reached(v, k)'
    BY <1>1 DEF Reached, home, cloud, launchd, Down
  <2>2. \A k \in 1 .. 11 : Undone(k) => Undone(k)'
    BY <1>1 DEF Undone, home, launchd, Down
  <2> QED BY <1>1, <1>4, <2>1, <2>2, InvParts, KeepsRun DEF Actors, home, cloud
<1>8. \A q \in Actors : RunSound(q)'
  BY <1>6, <1>7 DEF Actors
<1> QED BY <1>2, <1>4, <1>5, <1>8, InvNext

\* Only the worker process comes and goes.
LEMMA WorkerMoves ==
  ASSUME DeploymentInv, UNCHANGED <<run, lock, home, cloud, loaded, latest>>,
         worker' \in [code : 0 .. MaxRelease, venv : 0 .. MaxRelease],
         \A v \in Releases, k \in 1 .. 21 : Reached(v, k) => Reached(v, k)',
         \A k \in 1 .. 11 : Undone(k) => Undone(k)'
  PROVE  DeploymentInv'
<1>1. HostTypes' /\ HostSound'
  BY InvParts DEF HostInv, HostTypes, HostSound, home, cloud
<1>2. HostInv'
  BY <1>1, InvParts, HostNext DEF home, cloud
<1>3. LockExclusive'
  BY InvParts DEF LockExclusive
<1>4. \A q \in Actors : RunSound(q)'
  BY InvParts, KeepsRun DEF home, cloud
<1> QED BY <1>2, <1>3, <1>4, InvParts, InvNext

LEMMA StartWorkerKeeps ==
  ASSUME DeploymentInv, StartWorker PROVE DeploymentInv'
<1>1. /\ "worker" \in loaded /\ worker = Down
      /\ worker' = [code |-> current, venv |-> runner]
      /\ UNCHANGED <<run, lock, home, cloud, loaded, latest>>
  BY DEF StartWorker
<1>2. worker' \in [code : 0 .. MaxRelease, venv : 0 .. MaxRelease]
  BY <1>1, InvParts DEF HostInv, HostTypes
<1>3. \A v \in Releases, k \in 1 .. 21 : Reached(v, k) => Reached(v, k)'
  BY <1>1 DEF Reached, home, cloud
<1>4. \A k \in 1 .. 11 : Undone(k) => Undone(k)'
  BY <1>1 DEF Undone, home
<1> QED BY <1>1, <1>2, <1>3, <1>4, WorkerMoves

LEMMA WorkerDiesKeeps ==
  ASSUME DeploymentInv, WorkerDies PROVE DeploymentInv'
<1>1. worker' = Down /\ UNCHANGED <<run, lock, home, cloud, loaded, latest>>
  BY DEF WorkerDies
<1>2. worker' \in [code : 0 .. MaxRelease, venv : 0 .. MaxRelease]
  BY <1>1, DeploymentAssumption DEF Down
<1>3. \A v \in Releases, k \in 1 .. 21 : Reached(v, k) => Reached(v, k)'
  BY <1>1 DEF Reached, home, cloud
<1>4. \A k \in 1 .. 11 : Undone(k) => Undone(k)'
  BY <1>1 DEF Undone, home
<1> QED BY <1>1, <1>2, <1>3, <1>4, WorkerMoves

LEMMA PowerLossKeeps ==
  ASSUME DeploymentInv, PowerLoss PROVE DeploymentInv'
<1>1. /\ run' = [p \in Actors |-> Idle] /\ loaded' = plists /\ worker' = Down
      /\ UNCHANGED <<lock, home, cloud, latest>>
  BY DEF PowerLoss
<1>2. HostTypes'
  BY <1>1, InvParts, DeploymentAssumption DEF HostInv, HostTypes, home, cloud, Down
<1>3. HostSound'
  BY <1>1, InvParts DEF HostInv, HostSound, home, cloud
<1>4. HostInv'
  BY <1>1, <1>2, <1>3, InvParts, HostNext DEF home, cloud
<1>5. run' \in [Actors -> Run] /\ \A p \in Actors : run'[p] = Idle
  BY <1>1, IdleIsRun
<1>6. LockExclusive' /\ lock' \in BOOLEAN
  BY <1>1, <1>5, IdleIsRun, InvParts DEF LockExclusive, Actors
<1>7. \A p \in Actors : RunSound(p)'
  BY <1>5 DEF RunSound, Idle, Running
<1> QED BY <1>4, <1>5, <1>6, <1>7, InvNext

-----------------------------------------------------------------------------
(* The invariant.                                                           *)

LEMMA InitSound == Init => DeploymentInv
<1> SUFFICES ASSUME Init PROVE DeploymentInv
  OBVIOUS
<1>1. run \in [Actors -> Run] /\ \A p \in Actors : run[p] = Idle
  BY IdleIsRun DEF Init
<1>2. lock \in BOOLEAN /\ LockExclusive
  BY <1>1, IdleIsRun DEF Init, LockExclusive, Actors
<1>3. HostTypes
  <2>1. /\ {current, runner, applied, auth, clients, latest} \subseteq 0 .. MaxRelease
        /\ worker \in [code : 0 .. MaxRelease, venv : 0 .. MaxRelease]
    BY DeploymentAssumption DEF Init, Down
  <2>2. /\ venv \in [Releases -> {"none", "made", "full"}]
        /\ staged \in [Releases -> {"none", "good", "bad"}]
        /\ cache \in [Releases -> {"none", "good", "bad"}]
    BY DEF Init
  <2> QED BY <2>1, <2>2 DEF Init, HostTypes
<1>4. HostSound /\ StagedVerified
  BY DEF Init, HostSound, StagedVerified
<1>5. MigrationsInOrder
  BY DEF Init, MigrationsInOrder
<1>6. \A p \in Actors : RunSound(p)
  BY <1>1 DEF RunSound
<1> QED BY <1>1, <1>2, <1>3, <1>4, <1>5, <1>6, InvParts DEF HostInv

LEMMA CommandKeeps ==
  ASSUME DeploymentInv, NEW p \in Actors, Command(p) PROVE DeploymentInv'
<1>1. CASE TakeLock(p) BY <1>1, TakeLockKeeps
<1>2. CASE AskLatest(p) BY <1>2, AskLatestKeeps
<1>3. CASE Download(p) BY <1>3, DownloadKeeps
<1>4. CASE Verify(p) BY <1>4, VerifyKeeps
<1>5. CASE Stage(p) BY <1>5, StageKeeps
<1>6. CASE WriteEnv(p) BY <1>6, WriteEnvKeeps
<1>7. CASE MakeVenv(p) BY <1>7, MakeVenvKeeps
<1>8. CASE InstallPackage(p) BY <1>8, InstallPackageKeeps
<1>9. CASE ApplyMigration(p) BY <1>9, ApplyMigrationKeeps
<1>10. CASE RecordMigration(p) BY <1>10, RecordMigrationKeeps
<1>11. CASE MigrationsDone(p) BY <1>11, MigrationsDoneKeeps
<1>12. CASE EnsureStorage(p) BY <1>12, EnsureStorageKeeps
<1>13. CASE ConfigureAuth(p) BY <1>13, ConfigureAuthKeeps
<1>14. CASE EnsureClients(p) BY <1>14, EnsureClientsKeeps
<1>15. CASE Activate(p) BY <1>15, ActivateKeeps
<1>16. CASE WriteRunner(p) BY <1>16, WriteRunnerKeeps
<1>17. CASE EnsureTunnel(p) BY <1>17, EnsureTunnelKeeps
<1>18. CASE WritePlist(p) BY <1>18, WritePlistKeeps
<1>19. CASE Bootout(p) BY <1>19, BootoutKeeps
<1>20. CASE Bootstrap(p) BY <1>20, BootstrapKeeps
<1>21. CASE WriteReceipt(p) BY <1>21, WriteReceiptKeeps
<1>22. CASE RemovePlist(p) BY <1>22, RemovePlistKeeps
<1>23. CASE RemoveIngress(p) BY <1>23, RemoveIngressKeeps
<1>24. CASE RemoveRunner(p) BY <1>24, RemoveRunnerKeeps
<1>25. CASE Purge(p) BY <1>25, PurgeKeeps
<1>26. CASE Finish(p) BY <1>26, ExitKeeps DEF Finish
<1> QED
  BY <1>1, <1>2, <1>3, <1>4, <1>5, <1>6, <1>7, <1>8, <1>9, <1>10, <1>11, <1>12, <1>13,
     <1>14, <1>15, <1>16, <1>17, <1>18, <1>19, <1>20, <1>21, <1>22, <1>23, <1>24, <1>25,
     <1>26 DEF Command

LEMMA StepSound == DeploymentInv /\ [Next]_vars => DeploymentInv'
<1> SUFFICES ASSUME DeploymentInv, [Next]_vars PROVE DeploymentInv'
  OBVIOUS
<1>1. CASE Publish BY <1>1, PublishKeeps
<1>2. CASE RunScript BY <1>2, RunScriptKeeps
<1>3. CASE StartCheck BY <1>3, StartCheckKeeps
<1>4. CASE StartWorker BY <1>4, StartWorkerKeeps
<1>5. CASE WorkerDies BY <1>5, WorkerDiesKeeps
<1>6. CASE PowerLoss BY <1>6, PowerLossKeeps
<1>7. ASSUME NEW p \in Actors, Command(p) PROVE DeploymentInv'
  BY <1>7, CommandKeeps
<1>8. ASSUME NEW p \in Actors, Abort(p) PROVE DeploymentInv'
  BY <1>8, ExitKeeps DEF Abort
<1>9. CASE UNCHANGED vars
  <2>1. /\ UNCHANGED <<run, lock, home, cloud, launchd, latest>>
    BY <1>9 DEF vars
  <2>2. HostInv' /\ LockExclusive'
    BY <2>1, InvParts, HostKept DEF HostInv, HostTypes, LockExclusive
  <2>3. /\ \A v \in Releases, k \in 1 .. 21 : Reached(v, k) => Reached(v, k)'
        /\ \A k \in 1 .. 11 : Undone(k) => Undone(k)'
        /\ applied' = applied /\ recorded' = recorded
    BY <2>1, HostUntouched DEF home
  <2>4. \A q \in Actors : RunSound(q)'
    BY <2>1, <2>3, InvParts, KeepsRun DEF home
  <2> QED BY <2>1, <2>2, <2>4, InvParts, InvNext
<1> QED BY <1>1, <1>2, <1>3, <1>4, <1>5, <1>6, <1>7, <1>8, <1>9 DEF Next

\* Wherever scripts are cut off and whatever is started next, a run has done
\* what its place in the script says, and the host is sound.
THEOREM DeploymentInvariant == Spec => []DeploymentInv
BY InitSound, StepSound, PTL DEF Spec

-----------------------------------------------------------------------------
(* What follows from it.                                                    *)

\* The state of the host, the lock, the cloud and the runs has its types: no
\* command is run on a release that was never built, and a run that holds
\* update.lock finds it there (install.sh, update.sh, uninstall.sh, check-update.sh).
THEOREM DeploymentTypes == Spec => []TypeOK
<1>1. DeploymentInv => TypeOK
  BY DEF DeploymentInv
<1> QED BY <1>1, DeploymentInvariant, PTL

\* Whatever cuts an install, an update or an uninstall off, a worker that launchd
\* may start finds its env file, its environment, and the schema and buckets of
\* the current release; and the tunnel finds its configuration (common.sh).
THEOREM WorkerRunnable == Spec => []AlwaysRunnable
<1>1. DeploymentInv => AlwaysRunnable
  BY DEF DeploymentInv, HostSound, AlwaysRunnable, CanStart
<1> QED BY <1>1, DeploymentInvariant, PTL

\* Only what passed the checksum and the attestation reaches a release directory
\* (update_from_github.py), however many checks the operator and launchd start.
THEOREM OnlyVerifiedStaged == Spec => []StagedVerified
<1>1. DeploymentInv => StagedVerified
  BY DEF DeploymentInv
<1> QED BY <1>1, DeploymentInvariant, PTL

\* powerfarm_schema_migrations tells which migrations the database went through,
\* but for the last, and none was applied out of order (common.sh).
THEOREM MigrationOrder == Spec => []MigrationsInOrder
<1>1. DeploymentInv => MigrationsInOrder
  BY DEF DeploymentInv
<1> QED BY <1>1, DeploymentInvariant, PTL

\* An install or update that gets to its receipt has made the host what the
\* release declares (install.sh, update.sh, section 19.3 of the specification).
THEOREM ReceiptsEarned == Spec => []ReceiptEarned
<1>1. DeploymentInv => ReceiptEarned
  <2> SUFFICES ASSUME DeploymentInv, NEW p \in Actors,
                      AtCommand(p, "write", "receipt"), run[p].name = "update",
                      NEW v, v = run[p].release
               PROVE  /\ env /\ buckets /\ ingress
                      /\ {current, runner, auth, clients} = {v}
                      /\ 1 .. v \subseteq recorded
                      /\ plists = Jobs /\ loaded = Jobs
                      /\ worker \in {Down, [code |-> v, venv |-> v]}
    BY DEF ReceiptEarned
  <2>1. UpdateRun(p, 20)
    BY InvParts, ReceiptTurn DEF UninstallRun, OperatorRun
  <2>2. Reached(v, 20) /\ plists \subseteq Jobs /\ loaded \subseteq Jobs
    BY <2>1, InvParts DEF UpdateRun, HostInv, HostTypes
  <2>3. /\ env /\ buckets /\ ingress /\ 1 .. v \subseteq recorded
        /\ current = v /\ runner = v /\ auth = v /\ clients = v
        /\ worker \in {Down, [code |-> v, venv |-> v]}
    BY <2>2 DEF Reached
  <2>4. plists = Jobs /\ loaded = Jobs
    <3>1. /\ "worker" \in plists /\ "tunnel" \in plists /\ "updater" \in plists
          /\ "worker" \in loaded /\ "tunnel" \in loaded /\ "updater" \in loaded
      BY <2>2 DEF Reached
    <3> QED BY <2>2, <3>1 DEF Jobs
  <2> QED BY <2>3, <2>4
<1> QED BY <1>1, DeploymentInvariant, PTL

LEMMA FailedTurn ==
  ASSUME NEW p \in Actors, RunSound(p), run[p].todo = Failed
  PROVE  FailedRun(p)
<1> DEFINE c == Head(run[p].todo)
<1>1. run[p].todo # <<>> /\ c[1] = "exit"
  BY DEF Failed
<1>2. Facing(p, c)
  BY <1>1, Turn
<1> HIDE DEF c
<1>3. c # <<"record", "migration">>
  BY <1>1
<1>4. \A j \in 1 .. 5 : c # CheckScript[j]
  BY <1>1, CheckVerbsAre DEF CheckVerbs
<1>5. \A j \in 1 .. 20 : c # UpdateScript[j]
  BY <1>1, UpdateVerbsAre DEF UpdateVerbs, SharedVerbs
<1>6. \A j \in 1 .. 9 : c # UninstallScript[j]
  BY <1>1, UninstallVerbsAre
<1>7. \A j \in 1 .. 10 : c # PurgeScript[j]
  BY <1>1, PurgeVerbsAre
<1>8. c # UpdateScript[1]
  BY <1>5
<1> QED BY <1>2, <1>3, <1>4, <1>5, <1>6, <1>7, <1>8 DEF Facing

\* An uninstall that gets to its receipt, where the unbound variable ends it,
\* has unloaded and removed every job, whatever the updater did (uninstall.sh).
THEOREM UninstallsComplete == Spec => []UninstallComplete
<1>1. DeploymentInv => UninstallComplete
  <2> SUFFICES ASSUME DeploymentInv, run["operator"].name = "uninstall",
                      \/ AtCommand("operator", "write", "receipt")
                      \/ run["operator"].todo = Failed
               PROVE  /\ plists = {} /\ loaded = {} /\ worker = Down
                      /\ ~ingress /\ runner = 0
                      /\ run["updater"] = Idle
    BY DEF UninstallComplete
  <2>1. "operator" \in Actors /\ RunSound("operator")
    BY InvParts DEF Actors
  <2>2. CASE AtCommand("operator", "write", "receipt")
    <3>1. UninstallRun("operator", 9)
      BY <2>1, <2>2, ReceiptTurn DEF UpdateRun, OperatorRun
    <3> QED BY <3>1, InvParts DEF UninstallRun, Undone, HostInv, HostTypes, Jobs
  <2>3. CASE run["operator"].todo = Failed
    <3>1. FailedRun("operator")
      BY <2>1, <2>3, FailedTurn
    <3> QED BY <3>1, InvParts DEF FailedRun, Undone, HostInv, HostTypes, Jobs
  <2> QED BY <2>2, <2>3
<1> QED BY <1>1, DeploymentInvariant, PTL

\* An update that a check has started: it has its first command still to run,
\* or has failed at it.
StartedUpdatesStop ==
  \A p \in Actors :
    run[p].name = "update" /\ run[p].locked => run[p].todo \in {UpdateScript, Failed}

\* For no release does an update that a check starts, with the installed env file
\* as its --env, get past the copy of that file onto itself (write_installed_env):
\* such updates change nothing on the host or in the cloud.
THEOREM NoAutomaticUpdate == Spec => []StartedUpdatesStop
<1>1. DeploymentInv => StartedUpdatesStop
  <2> SUFFICES ASSUME NEW p \in Actors, RunSound(p), run[p].name = "update", run[p].locked
               PROVE  run[p].todo \in {UpdateScript, Failed}
    BY InvParts DEF StartedUpdatesStop
  <2>1. FailedRun(p) \/ StartedUpdate(p)
    BY IdleIsRun DEF RunSound, CheckRun, UpdateRun, RecordingRun, UninstallRun, PurgeRun,
                     OperatorRun
  <2> QED BY <2>1 DEF FailedRun, StartedUpdate
<1> QED BY <1>1, DeploymentInvariant, PTL

-----------------------------------------------------------------------------
(* The lock.                                                                *)

\* Most commands let their run go on, fail or end.
LEMMA CommandsMoveOn ==
  ASSUME NEW p \in Actors, Command(p)
  PROVE  \/ GoOn(p) \/ Fail(p) \/ Exit(p)
         \/ TakeLock(p) \/ Stage(p) \/ ApplyMigration(p) \/ Bootout(p)
         \/ run' = [run EXCEPT ![p].target = latest, ![p].todo = Tail(@)]
BY DEF Command, TakeLock, AskLatest, Download, Verify, Stage, WriteEnv, MakeVenv,
       InstallPackage, ApplyMigration, RecordMigration, MigrationsDone, EnsureStorage,
       ConfigureAuth, EnsureClients, Activate, WriteRunner, EnsureTunnel, WritePlist,
       Bootout, Bootstrap, WriteReceipt, RemovePlist, RemoveIngress, RemoveRunner, Purge,
       Finish

\* A run is parted from the lock it took only as it gives it back.
LEMMA CommandKeepsLock ==
  ASSUME DeploymentInv, NEW q \in Actors, Command(q), ~Bootout(q),
         NEW p \in Actors, run[p].locked, lock'
  PROVE  run'[p].locked
<1>1. run \in [Actors -> Run] /\ LockExclusive /\ RunSound(q)
  BY InvParts
<1>2. CASE GoOn(q)
  BY <1>1, <1>2 DEF GoOn, Run
<1>3. CASE Fail(q)
  BY <1>1, <1>3 DEF Fail, Run
<1>4. CASE Exit(q)
  BY <1>1, <1>4 DEF Exit
<1>5. CASE TakeLock(q)
  <2>1. lock /\ run' = [run EXCEPT ![q] = Idle]
    BY <1>1, <1>5 DEF TakeLock, LockExclusive
  <2>2. CheckRun(q, 1)
    BY <1>1, <1>5, CheckTurn, CheckWords DEF TakeLock
  <2>3. q # p
    BY <2>2 DEF CheckRun
  <2> QED BY <1>1, <2>1, <2>3
<1>6. CASE Stage(q)
  BY <1>1, <1>6 DEF Stage, Running
<1>7. CASE ApplyMigration(q)
  BY <1>1, <1>7 DEF ApplyMigration, Run
<1>8. CASE run' = [run EXCEPT ![q].target = latest, ![q].todo = Tail(@)]
  BY <1>1, <1>8 DEF Run
<1> QED BY <1>2, <1>3, <1>4, <1>5, <1>6, <1>7, <1>8, CommandsMoveOn

LEMMA StepKeepsLock ==
  ASSUME DeploymentInv, [Next]_vars, ~PowerLoss, \A q \in Actors : ~Bootout(q),
         NEW p \in Actors, run[p].locked, lock'
  PROVE  run'[p].locked
<1>1. run \in [Actors -> Run]
  BY InvParts
<1>2. CASE RunScript
  BY <1>1, <1>2, IdleIsRun DEF RunScript
<1>3. CASE StartCheck
  BY <1>1, <1>3, IdleIsRun DEF StartCheck
<1>4. CASE Publish \/ StartWorker \/ WorkerDies \/ UNCHANGED vars
  BY <1>4 DEF Publish, StartWorker, WorkerDies, vars
<1>5. ASSUME NEW q \in Actors, Abort(q) PROVE run'[p].locked
  BY <1>1, <1>5 DEF Abort, Exit
<1>6. ASSUME NEW q \in Actors, Command(q) PROVE run'[p].locked
  BY <1>6, CommandKeepsLock
<1> QED BY <1>2, <1>3, <1>4, <1>5, <1>6 DEF Next

\* update.lock outlives the run that took it only when power is lost or launchd
\* kills the run: every other way a check, or the update it started, ends gives
\* the lock back (the EXIT trap of check-update.sh).
THEOREM LocksGivenBack == Spec => LockGivenBack
<1>1. DeploymentInv /\ [Next]_vars =>
        [\A p \in Actors : run[p].locked /\ ~run'[p].locked /\ lock' =>
           PowerLoss \/ \E q \in Actors : Bootout(q)]_<<run, lock>>
  BY StepKeepsLock
<1> QED BY <1>1, DeploymentInvariant, PTL DEF Spec, LockGivenBack
=============================================================================
