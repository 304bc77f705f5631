----------------------------- MODULE Deployment -----------------------------
(***************************************************************************)
(* The macOS pack (deploy/macos): install.sh, update.sh, uninstall.sh and  *)
(* check-update.sh, what they leave on disk and in Supabase, and the jobs  *)
(* launchd runs from it.  A script is the list of its commands; whoever    *)
(* runs it may be interrupted before any of them, and the host may lose    *)
(* power.  The operator runs one script at a time; the updater is a        *)
(* launchd job, beside the operator.  An install run counts as an update.  *)
(***************************************************************************)
EXTENDS Integers, Sequences, FiniteSets

CONSTANT MaxRelease   \* bound: releases 1 .. MaxRelease are ever built

Releases == 1 .. MaxRelease
Actors == {"operator", "updater"}
Jobs == {"worker", "tunnel", "updater"}

ASSUME DeploymentAssumption == MaxRelease \in Nat \ {0}

VARIABLES
  run,        \* what each actor runs, see Run
  env,        \* whether powerfarm.env is installed
  venv,       \* the Python environment of each release
  staged,     \* the release directories
  cache,      \* the packages downloaded
  lock,       \* whether update.lock exists
  current,    \* the release the current symlink leads to, or 0
  runner,     \* the release whose environment pf-worker starts, or 0
  ingress,    \* whether cloudflared has its configuration
  plists,     \* the jobs with a plist in LaunchAgents
  loaded,     \* the jobs launchd has loaded
  worker,     \* the worker process
  applied,    \* the last migration the database went through
  recorded,   \* the migrations with a row in powerfarm_schema_migrations
  buckets,    \* whether the Storage buckets are there and private
  auth,       \* the release whose Auth settings are in force, or 0
  clients,    \* the release whose OAuth clients are registered, or 0
  latest      \* the release GitHub shows as latest, or 0

home == <<env, venv, staged, cache, current, runner, ingress, plists>>
cloud == <<applied, recorded, buckets, auth, clients>>
launchd == <<loaded, worker>>
vars == <<run, lock, home, cloud, launchd, latest>>

-----------------------------------------------------------------------------
(* Scripts.  A command is <<verb, object>>.                                 *)

Verbs == {"take", "ask", "download", "verify", "stage", "write", "make", "install",
          "apply", "record", "ensure", "switch", "plist", "bootout", "bootstrap",
          "rm", "purge", "exit"}
Objects == Jobs \cup {"lock", "latest", "package", "release", "env", "venv",
                      "migrations", "migration", "storage", "auth", "clients", "current",
                      "runner", "receipt", "ingress", "part", "rest", "1"}
CommandName == Verbs \X Objects

\* Mutant: the new release is made current before its migrations run.
InstallScriptEarlySwitch ==
  <<<<"write", "env">>, <<"make", "venv">>, <<"install", "package">>,
    <<"switch", "current">>, <<"apply", "migrations">>,
    <<"ensure", "storage">>, <<"ensure", "auth">>, <<"ensure", "clients">>,
    <<"write", "runner">>, <<"plist", "worker">>,
    <<"bootout", "worker">>, <<"bootstrap", "worker">>,
    <<"ensure", "tunnel">>,
    <<"plist", "tunnel">>, <<"bootout", "tunnel">>, <<"bootstrap", "tunnel">>,
    <<"plist", "updater">>, <<"bootout", "updater">>, <<"bootstrap", "updater">>,
    <<"write", "receipt">>>>

InstallScript ==
  <<<<"write", "env">>, <<"make", "venv">>, <<"install", "package">>,
    <<"apply", "migrations">>,
    <<"ensure", "storage">>, <<"ensure", "auth">>, <<"ensure", "clients">>,
    <<"switch", "current">>, <<"write", "runner">>, <<"plist", "worker">>,
    <<"bootout", "worker">>, <<"bootstrap", "worker">>,
    <<"ensure", "tunnel">>,
    <<"plist", "tunnel">>, <<"bootout", "tunnel">>, <<"bootstrap", "tunnel">>,
    <<"plist", "updater">>, <<"bootout", "updater">>, <<"bootstrap", "updater">>,
    <<"write", "receipt">>>>

\* mirror_update_package is left out: only the updater has a package to mirror,
\* and it never gets that far.
UpdateScript == InstallScript

\* Mutant: of the updater only the plist is removed.
UnloadAllButUpdater ==
  <<<<"bootout", "tunnel">>, <<"bootout", "worker">>,
    <<"rm", "worker">>, <<"rm", "tunnel">>, <<"rm", "updater">>,
    <<"rm", "ingress">>, <<"rm", "runner">>>>

Unload ==
  <<<<"bootout", "updater">>, <<"bootout", "tunnel">>, <<"bootout", "worker">>,
    <<"rm", "worker">>, <<"rm", "tunnel">>, <<"rm", "updater">>,
    <<"rm", "ingress">>, <<"rm", "runner">>>>

\* Mutant: the data go, and the jobs stay.
PurgeDataOnly == <<<<"purge", "part">>, <<"purge", "rest">>>>

\* Without --purge, and with it.
UninstallScript == Unload \o <<<<"write", "receipt">>>>
PurgeScript == Unload \o <<<<"purge", "part">>, <<"purge", "rest">>>>

CheckScript ==
  <<<<"take", "lock">>, <<"ask", "latest">>, <<"download", "package">>,
    <<"verify", "package">>, <<"stage", "release">>>>

ScriptOf(name) ==
  CASE name = "update" -> UpdateScript
    [] name = "uninstall" -> UninstallScript
    [] name = "purge" -> PurgeScript
    [] name = "check" -> CheckScript

\* release is that of the pack the script belongs to; target the one a check is
\* after; locked says that the run holds update.lock, so that an update with it
\* is one a check has started, with the installed env file as its --env.
Running(name, release, target, locked, todo) ==
  [name |-> name, release |-> release, target |-> target, locked |-> locked, todo |-> todo]
Idle == Running("none", 0, 0, FALSE, <<>>)
Failed == <<<<"exit", "1">>>>

Run == [name : {"none", "update", "uninstall", "purge", "check"},
        release : 0 .. MaxRelease, target : 0 .. MaxRelease,
        locked : BOOLEAN, todo : Seq(CommandName)]

\* Actor p is about to run the command <<verb, object>>.
AtCommand(p, verb, object) == run[p].todo # <<>> /\ Head(run[p].todo) = <<verb, object>>

GoOn(p) == run' = [run EXCEPT ![p].todo = Tail(@)]
Fail(p) == run' = [run EXCEPT ![p].todo = Failed]

\* Mutant: the lock is given back at the end of the script, with no trap.
ExitNoTrap(p) ==
  /\ run' = [run EXCEPT ![p] = Idle]
  /\ lock' = (lock /\ ~(run[p].locked /\ run[p].todo = <<>>))

\* The script is over, of itself or not; its EXIT trap releases the lock.
Exit(p) ==
  /\ run' = [run EXCEPT ![p] = Idle]
  /\ lock' = (lock /\ ~run[p].locked)

Down == [code |-> 0, venv |-> 0]

Init ==
  /\ run = [p \in Actors |-> Idle]
  /\ env = FALSE /\ lock = FALSE /\ buckets = FALSE
  /\ venv = [v \in Releases |-> "none"]
  /\ staged = [v \in Releases |-> "none"]
  /\ cache = [v \in Releases |-> "none"]
  /\ ingress = FALSE
  /\ current = 0 /\ runner = 0 /\ applied = 0 /\ auth = 0 /\ clients = 0 /\ latest = 0
  /\ plists = {} /\ loaded = {} /\ recorded = {}
  /\ worker = Down
-----------------------------------------------------------------------------
(* GitHub, the operator and launchd start things.                           *)

Publish ==
  /\ latest < MaxRelease
  /\ latest' = latest + 1
  /\ UNCHANGED <<run, lock, home, cloud, launchd>>

\* The operator has a checkout or a package of any release.
RunScript ==
  \E name \in {"update", "uninstall", "purge", "check"}, v \in Releases :
    /\ run["operator"] = Idle
    /\ name \in {"uninstall", "purge"} => v = 1   \* whatever pack they are of
    /\ run' = [run EXCEPT !["operator"] = Running(name, v, 0, FALSE, ScriptOf(name))]
    /\ UNCHANGED <<lock, home, cloud, launchd, latest>>

\* launchd runs pf-updater every StartInterval seconds.
StartCheck ==
  /\ "updater" \in loaded /\ run["updater"] = Idle
  /\ current # 0
  /\ run' = [run EXCEPT !["updater"] = Running("check", current, 0, FALSE, CheckScript)]
  /\ UNCHANGED <<lock, home, cloud, launchd, latest>>

\* pf-worker: the env file, the current directory, the environment written in.
CanStart == env /\ current # 0 /\ runner # 0 /\ venv[runner] = "full"

\* KeepAlive, RunAtLoad or kickstart: the code is that of the current directory.
StartWorker ==
  /\ "worker" \in loaded /\ worker = Down
  /\ CanStart
  /\ worker' = [code |-> current, venv |-> runner]
  /\ UNCHANGED <<run, lock, home, cloud, loaded, latest>>

WorkerDies ==
  /\ worker # Down
  /\ worker' = Down
  /\ UNCHANGED <<run, lock, home, cloud, loaded, latest>>

\* A command fails under set -e, or a signal ends the script.
Abort(p) ==
  /\ run[p] # Idle
  /\ Exit(p)
  /\ UNCHANGED <<home, cloud, launchd, latest>>

Finish(p) ==
  /\ run[p] # Idle
  /\ run[p].todo \in {<<>>, Failed}
  /\ Exit(p)
  /\ UNCHANGED <<home, cloud, launchd, latest>>

\* No trap runs.  At the next login launchd loads what has a plist.
PowerLoss ==
  /\ run' = [p \in Actors |-> Idle]
  /\ loaded' = plists
  /\ worker' = Down
  /\ UNCHANGED <<lock, home, cloud, latest>>
-----------------------------------------------------------------------------
(* check-update.sh and update_from_github.py                                *)

\* Mutant: the trap is set before the lock is taken, so that whoever finds it
\* taken removes it.
TakeLockTrapFirst(p) ==
  /\ AtCommand(p, "take", "lock")
  /\ IF lock THEN run' = [run EXCEPT ![p] = Idle] /\ lock' = FALSE
             ELSE run' = [run EXCEPT ![p].locked = TRUE, ![p].todo = Tail(@)] /\ lock' = TRUE
  /\ UNCHANGED <<home, cloud, launchd, latest>>

\* Another check is running, or one left its lock behind: exit 0, no trap yet.
TakeLock(p) ==
  /\ AtCommand(p, "take", "lock")
  /\ IF lock THEN run' = [run EXCEPT ![p] = Idle] /\ UNCHANGED lock
             ELSE run' = [run EXCEPT ![p].locked = TRUE, ![p].todo = Tail(@)] /\ lock' = TRUE
  /\ UNCHANGED <<home, cloud, launchd, latest>>

AskLatest(p) ==
  /\ AtCommand(p, "ask", "latest")
  /\ IF latest <= run[p].release
       THEN Exit(p)
       ELSE run' = [run EXCEPT ![p].target = latest, ![p].todo = Tail(@)] /\ UNCHANGED lock
  /\ UNCHANGED <<home, cloud, launchd, latest>>

\* What arrives is the package, or something else under its name.
Download(p) ==
  /\ AtCommand(p, "download", "package")
  /\ \E content \in {"good", "bad"} : cache' = [cache EXCEPT ![run[p].target] = content]
  /\ GoOn(p)
  /\ UNCHANGED <<lock, env, venv, staged, current, runner, ingress, plists, cloud, launchd, latest>>

\* Checksum and attestation.
Verify(p) ==
  /\ AtCommand(p, "verify", "package")
  /\ IF cache[run[p].target] = "good" THEN GoOn(p) ELSE Fail(p)
  /\ UNCHANGED <<lock, home, cloud, launchd, latest>>

\* Extracted beside its place and renamed into it, unless the place is taken;
\* then update.sh of the staged release is run with the installed env file.
Stage(p) ==
  LET v == run[p].target
  IN  /\ AtCommand(p, "stage", "release")
      /\ staged' = [staged EXCEPT ![v] = IF @ = "none" THEN cache[v] ELSE @]
      /\ run' = [run EXCEPT ![p] = Running("update", v, 0, TRUE, UpdateScript)]
      /\ UNCHANGED <<lock, env, venv, cache, current, runner, ingress, plists, cloud, launchd, latest>>
-----------------------------------------------------------------------------
(* update.sh, install.sh                                                    *)

\* cp refuses to copy the installed env file to itself, and set -e ends the run.
WriteEnv(p) ==
  /\ AtCommand(p, "write", "env")
  /\ IF run[p].locked THEN Fail(p) /\ UNCHANGED env ELSE GoOn(p) /\ env' = TRUE
  /\ UNCHANGED <<lock, venv, staged, cache, current, runner, ingress, plists, cloud, launchd, latest>>

\* install_python_env, in two: the environment, and what is installed into it.
MakeVenv(p) ==
  /\ AtCommand(p, "make", "venv")
  /\ venv' = [venv EXCEPT ![run[p].release] = IF @ = "none" THEN "made" ELSE @]
  /\ GoOn(p)
  /\ UNCHANGED <<lock, env, staged, cache, current, runner, ingress, plists, cloud, launchd, latest>>

InstallPackage(p) ==
  /\ AtCommand(p, "install", "package")
  /\ venv' = [venv EXCEPT ![run[p].release] = "full"]
  /\ GoOn(p)
  /\ UNCHANGED <<lock, env, staged, cache, current, runner, ingress, plists, cloud, launchd, latest>>

\* Release v brings the migrations 1 .. v; those without a row are due.
Due(p) == (1 .. run[p].release) \ recorded

\* Mutant: the files are taken in no particular order.
Newest(migrations) == CHOOSE m \in migrations : \A n \in migrations : m >= n

First(migrations) == CHOOSE m \in migrations : \A n \in migrations : m <= n

\* One migration, a transaction of its own; it may be applied again.
ApplyMigration(p) ==
  /\ AtCommand(p, "apply", "migrations")
  /\ Due(p) # {}
  /\ applied' = First(Due(p))
  /\ run' = [run EXCEPT ![p].todo = <<<<"record", "migration">>>> \o @]
  /\ UNCHANGED <<lock, home, recorded, buckets, auth, clients, launchd, latest>>

RecordMigration(p) ==
  /\ AtCommand(p, "record", "migration")
  /\ recorded' = recorded \cup {applied}
  /\ GoOn(p)
  /\ UNCHANGED <<lock, home, applied, buckets, auth, clients, launchd, latest>>

MigrationsDone(p) ==
  /\ AtCommand(p, "apply", "migrations")
  /\ Due(p) = {}
  /\ GoOn(p)
  /\ UNCHANGED <<lock, home, cloud, launchd, latest>>

EnsureStorage(p) ==
  /\ AtCommand(p, "ensure", "storage")
  /\ buckets' = TRUE
  /\ GoOn(p)
  /\ UNCHANGED <<lock, home, applied, recorded, auth, clients, launchd, latest>>

\* The settings that differ are patched and read again.
ConfigureAuth(p) ==
  /\ AtCommand(p, "ensure", "auth")
  /\ auth' = run[p].release
  /\ GoOn(p)
  /\ UNCHANGED <<lock, home, applied, recorded, buckets, clients, launchd, latest>>

\* Clients are found by name, and created or corrected.
EnsureClients(p) ==
  /\ AtCommand(p, "ensure", "clients")
  /\ clients' = run[p].release
  /\ GoOn(p)
  /\ UNCHANGED <<lock, home, applied, recorded, buckets, auth, launchd, latest>>

\* activate_release: the symlink is renamed into place.
Activate(p) ==
  /\ AtCommand(p, "switch", "current")
  /\ current' = run[p].release
  /\ GoOn(p)
  /\ UNCHANGED <<lock, env, venv, staged, cache, runner, ingress, plists, cloud, launchd, latest>>

\* Mutant: a runner that is there is kept.
KeepRunner(p) ==
  /\ AtCommand(p, "write", "runner")
  /\ runner' = IF runner = 0 THEN run[p].release ELSE runner
  /\ GoOn(p)
  /\ UNCHANGED <<lock, env, venv, staged, cache, current, ingress, plists, cloud, launchd, latest>>

WriteRunner(p) ==
  /\ AtCommand(p, "write", "runner")
  /\ runner' = run[p].release
  /\ GoOn(p)
  /\ UNCHANGED <<lock, env, venv, staged, cache, current, ingress, plists, cloud, launchd, latest>>

\* The tunnel is found by name or created; its routes and configuration follow.
EnsureTunnel(p) ==
  /\ AtCommand(p, "ensure", "tunnel")
  /\ ingress' = TRUE
  /\ GoOn(p)
  /\ UNCHANGED <<lock, env, venv, staged, cache, current, runner, plists, cloud, launchd, latest>>

\* The updater's plist comes with its runner.
WritePlist(p) ==
  \E job \in Jobs :
    /\ AtCommand(p, "plist", job)
    /\ plists' = plists \cup {job}
    /\ GoOn(p)
    /\ UNCHANGED <<lock, env, venv, staged, cache, current, runner, ingress, cloud, launchd, latest>>

\* launchd ends what the job runs: a check too, and the script itself if it is
\* the updater's.  The check's trap gives its lock back unless it is killed.
Bootout(p) ==
  \E job \in Jobs :
    /\ AtCommand(p, "bootout", job)
    /\ loaded' = loaded \ {job}
    /\ worker' = IF job = "worker" THEN Down ELSE worker
    /\ run' = [q \in Actors |-> IF job = "updater" /\ q = "updater" THEN Idle
                               ELSE IF q = p THEN [run[q] EXCEPT !.todo = Tail(@)]
                               ELSE run[q]]
    /\ IF job = "updater" /\ run["updater"].locked THEN lock' \in BOOLEAN
                                                  ELSE UNCHANGED lock
    /\ UNCHANGED <<home, cloud, latest>>

\* launchctl bootstrap, and kickstart -k for the worker and the tunnel.
Bootstrap(p) ==
  \E job \in Jobs :
    /\ AtCommand(p, "bootstrap", job)
    /\ loaded' = loaded \cup {job}
    /\ worker' = IF job = "worker" THEN Down ELSE worker
    /\ GoOn(p)
    /\ UNCHANGED <<lock, home, cloud, latest>>

\* The receipt is written by the Python that resolve_python found, which
\* uninstall.sh has never called: the unbound variable ends it.
WriteReceipt(p) ==
  /\ AtCommand(p, "write", "receipt")
  /\ IF run[p].name = "uninstall" THEN Fail(p) ELSE GoOn(p)
  /\ UNCHANGED <<lock, home, cloud, launchd, latest>>
-----------------------------------------------------------------------------
(* uninstall.sh                                                             *)

RemovePlist(p) ==
  \E job \in Jobs :
    /\ AtCommand(p, "rm", job)
    /\ plists' = plists \ {job}
    /\ GoOn(p)
    /\ UNCHANGED <<lock, env, venv, staged, cache, current, runner, ingress, cloud, launchd, latest>>

RemoveIngress(p) ==
  /\ AtCommand(p, "rm", "ingress")
  /\ ingress' = FALSE
  /\ GoOn(p)
  /\ UNCHANGED <<lock, env, venv, staged, cache, current, runner, plists, cloud, launchd, latest>>

RemoveRunner(p) ==
  /\ AtCommand(p, "rm", "runner")
  /\ runner' = 0
  /\ GoOn(p)
  /\ UNCHANGED <<lock, env, venv, staged, cache, current, ingress, plists, cloud, launchd, latest>>

\* rm -rf of the whole tree, in whatever order; first a part of it, then all.
Purge(p) ==
  \E gone \in SUBSET {"env", "venvs", "releases", "current"} :
    /\ \/ AtCommand(p, "purge", "part") /\ UNCHANGED lock
       \/ AtCommand(p, "purge", "rest") /\ Cardinality(gone) = 4 /\ lock' = FALSE
    /\ env' = (env /\ "env" \notin gone)
    /\ venv' = IF "venvs" \in gone THEN [v \in Releases |-> "none"] ELSE venv
    /\ staged' = IF "releases" \in gone THEN [v \in Releases |-> "none"] ELSE staged
    /\ cache' = IF "releases" \in gone THEN [v \in Releases |-> "none"] ELSE cache
    /\ current' = IF "current" \in gone THEN 0 ELSE current
    /\ GoOn(p)
    /\ UNCHANGED <<runner, ingress, plists, cloud, launchd, latest>>

Command(p) ==
  \/ TakeLock(p) \/ AskLatest(p) \/ Download(p) \/ Verify(p) \/ Stage(p)
  \/ WriteEnv(p) \/ MakeVenv(p) \/ InstallPackage(p)
  \/ ApplyMigration(p) \/ RecordMigration(p) \/ MigrationsDone(p)
  \/ EnsureStorage(p) \/ ConfigureAuth(p) \/ EnsureClients(p)
  \/ Activate(p) \/ WriteRunner(p) \/ EnsureTunnel(p)
  \/ WritePlist(p) \/ Bootout(p) \/ Bootstrap(p) \/ WriteReceipt(p)
  \/ RemovePlist(p) \/ RemoveIngress(p) \/ RemoveRunner(p) \/ Purge(p) \/ Finish(p)

Next ==
  \/ Publish \/ RunScript \/ StartCheck \/ StartWorker \/ WorkerDies \/ PowerLoss
  \/ \E p \in Actors : Command(p) \/ Abort(p)

\* launchd keeps starting a worker that can start; nothing else is promised.
Spec == Init /\ [][Next]_vars /\ WF_vars(StartWorker)
-----------------------------------------------------------------------------
(* Properties.                                                              *)

TypeOK ==
  /\ run \in [Actors -> Run]
  /\ env \in BOOLEAN /\ lock \in BOOLEAN /\ buckets \in BOOLEAN /\ ingress \in BOOLEAN
  /\ venv \in [Releases -> {"none", "made", "full"}]
  /\ staged \in [Releases -> {"none", "good", "bad"}]
  /\ cache \in [Releases -> {"none", "good", "bad"}]
  /\ {current, runner, applied, auth, clients, latest} \subseteq 0 .. MaxRelease
  /\ plists \subseteq Jobs /\ loaded \subseteq Jobs
  /\ worker \in [code : 0 .. MaxRelease, venv : 0 .. MaxRelease]
  /\ recorded \subseteq Releases
  /\ \A p \in Actors : run[p].locked => lock

\* Wherever an install, an update or an uninstall was cut off, and whatever was
\* started after it: as long as launchd may start the worker it can, and finds
\* the schema, the buckets and the environment of the release that is current;
\* and the tunnel has its configuration.
AlwaysRunnable ==
  /\ "worker" \in plists \cup loaded =>
       CanStart /\ buckets /\ 1 .. current \subseteq recorded
  /\ "tunnel" \in plists \cup loaded => ingress

\* Nothing reaches the release directories that was not verified, although the
\* package is read again after its verification and others may download.
StagedVerified == \A v \in Releases : staged[v] # "bad"

\* The rows tell which migrations the database went through, but for the last
\* one; so none is applied over a later one, even by a run that repeats what
\* an interrupted one has done.
MigrationsInOrder == \E n \in {applied, applied - 1} : recorded = 1 .. n

\* "A failed or partial convergence MUST NOT write a success receipt" (section
\* 19.3): when a receipt is written the host is what the release declares,
\* whatever earlier runs were cut off and whatever the updater does meanwhile.
ReceiptEarned ==
  \A p \in Actors :
    AtCommand(p, "write", "receipt") /\ run[p].name = "update" =>
      LET v == run[p].release
      IN  /\ env /\ buckets /\ ingress
          /\ {current, runner, auth, clients} = {v}
          /\ 1 .. v \subseteq recorded
          /\ plists = Jobs /\ loaded = Jobs
          /\ worker \in {Down, [code |-> v, venv |-> v]}

\* An uninstall that ends at its receipt, as one without --purge does, has by then
\* undone all the rest: nothing is loaded, nothing comes back at the next login,
\* whatever the updater was doing when the uninstall began.
UninstallComplete ==
  run["operator"].name = "uninstall"
      /\ (AtCommand("operator", "write", "receipt") \/ run["operator"].todo = Failed) =>
    /\ plists = {} /\ loaded = {} /\ worker = Down
    /\ ~ingress /\ runner = 0
    /\ run["updater"] = Idle

\* update.lock outlives the run that took it only if that run was killed: by a
\* loss of power, or by launchd when the updater is unloaded.  Every other end of a
\* check, or of the update it started, gives it back, so that the next one runs.
LockGivenBack ==
  [][\A p \in Actors : run[p].locked /\ ~run'[p].locked /\ lock' =>
       PowerLoss \/ \E q \in Actors : Bootout(q)]_<<run, lock>>

\* A worker that launchd is to keep alive comes up again, unless it is unloaded.
WorkerComesBack == "worker" \in loaded ~> (worker # Down \/ "worker" \notin loaded)

\* "com.powerfarm.updater polls the latest stable release, ..., runs the
\* idempotent updater, switches the current symlink": the update that a check
\* runs on a verified release does not fail of itself.
AutomaticUpdateConverges ==
  run["updater"].name = "update" => run["updater"].todo # Failed
=============================================================================
