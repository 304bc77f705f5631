# Powerfarm: specification and verification

Powerfarm keeps one history of *Acts*. A signed *Command* states an intent;
Rules decide it over an exact cut of history; the *Commit Gate* places the Act
that follows, or refuses. Everything else (review, lifecycle, principal
bindings, projections) is read from that history. This directory models the
parts where several processes, transactions, files or retries meet, checks them
with TLC and proves them with TLAPS.

## 1. Inventory

| Part | Source | State it keeps | Operations | What is hard | What makes it correct |
|---|---|---|---|---|---|
| Act vocabulary | `kernel/types.py` | none | types, outcomes, lifecycle types | | an Act is produced only on the evidence its type asks for |
| Commit Gate | `kernel/commit.py` | none of its own; reads and writes the Ledger | `commit` | about ten Ledger calls, each a transaction; other workers commit between any two; death between any two | exact cut, one place per content, one consequence per Command, review before consequence, referenced content readable |
| Postgres ledger | `ledger/postgres.py`, `supabase/migrations/` | `acts`, `objects`, `registry`, `identities`, `principal_bindings` | `commit_act` RPC, `put_object`, reads at a cut | the RPC is the only serialised step; what it does not check, the Gate must have read in time | as above, under concurrency |
| Authority service | `service/authority.py` | none | `evaluate`, `commit` | the decision, the cut comparison and the Gate are separate; callers retry after lost answers | one answer per change, true conflicts, agreement with the Gate |
| Review, observation | `service/review.py`, `observation.py`, `effects.py` | none | `submit`, `admit` | payload shape only | guards before the authority service |
| Lifecycle service | `service/lifecycle.py` | none | `status`, `trajectory` | a trajectory is several queries, and history goes on between them | the review story it tells is whole, the status with it is not older than its Acts, pending means blocked |
| Principal bindings | `service/principals.py`, `identity.py`, `ledger/postgres.py` | rows of `principal_bindings` | `link`, `revoke`, `resolve_requester` | Act and row are two transactions; rows arrive out of order, are repeated, or never arrive | one live binding, rows have evidence, revoked stays revoked |
| Rules | `kernel/rules.py`, `service/authority.py` | none | resolve the configured names at a Registry cut, `authorize` | the decision is taken long before the Act is placed; the caller chooses the Registry cut; a Rule has several versions | every configured Rule is asked; a denial prevails, then a demand for review; root authority is the root Identity's |
| Identity and keys | `20260815123237_identity_key_lookup.sql`, `ledger/postgres.py` | `identity_keys` | key valid at a cut | a call names an old cut; rotation: two or no valid keys at a cut | an Act is signed with the one key that lives where it is placed |
| Canonical form, Genesis, projector | `kernel/canon.py`, `genesis/`, `kernel/project.py`, `worker/projector.py` | none | pure functions | | golden vectors in the repository |
| MCP server | `protocol/mcp/` | none (stateless) | tools and resources | answers get lost | a call is one service call |
| Webhook inbox | `worker/github_webhook.py`, the route of `protocol/mcp/server.py` | files of the inbox, the secret the process started with | verify, create, write, sync, answer | death, a failing disk or loss of power between two system calls; redelivery; a secret that changes under a running worker | the inbox is authentic; accepted is on disk; the first copy stays |
| GitHub App registration | `deploy/macos/github-app/register.py` | a private key file, four Keychain items, `github-app.json`: six writes | register, callback, convert, store | cut off between two writes; a browser window of an earlier run comes back to the same port | the credentials are those of one App, and of the App this run registered |
| In-memory ledger | `kernel/memory.py`, `ledger/memory.py` | lists and dictionaries of one process | the Ledger's operations | its `commit_act` judges nothing | the Gate alone keeps history lawful there while calls come one at a time |
| Updater | `deploy/macos/check-update.sh`, `lib/update_from_github.py` | lock, cache, release directories | check, download, verify, stage, update | the updater runs the script that reloads its own job; a lock outlives its holder; the operator checks too | only verified releases are staged |
| Installer and launchd jobs | `deploy/macos/install.sh`, `update.sh`, `uninstall.sh`, `lib/` | env file, Python environments, `current` link, runners, plists, loaded jobs, receipts | install, update, uninstall, purge | cut off anywhere; launchd restarts the worker at any time; reruns over what is left | the worker can always be started; a receipt is earned |
| Migration runner | `deploy/macos/lib/common.sh` | `powerfarm_schema_migrations` | apply, record | two transactions per migration; two hosts | migrations are applied in order, rows say which |
| Secrets, doctor, smoke, release build, CI | `deploy/macos/`, `scripts/` | external services | one-shot scripts | | not modelled |

How they interact: an MCP tool calls one service; every service that changes
anything ends in `AuthorityService.commit`, which reads the Ledger, evaluates
the Rules and calls `CommitGate.commit`, which reads the Ledger again and ends
in the RPC. `PrincipalService` then projects the returned Act into a table that
`IdentityService` reads for every other call. There are no locks besides the
advisory lock of the RPC, no queues and no shared memory: the parts meet in the
database. GitHub meets the host in two places only: the credentials that
`register.py` leaves for the worker to start with, and the deliveries the worker
puts into its inbox, which nothing in the repository reads yet. The macOS pack
around them puts a release on a host, brings the database to its schema, and
leaves it to launchd to keep the worker, the tunnel and the updater running; its
parts meet on disk.

## 2. Modules

| Module | Models | Built on |
|---|---|---|
| `Acts` | Commands, Acts, outcomes, Registry, closed cuts, the structural proof of an authorization chain | |
| `History` | abstract: one history, one admissible Act at a time | `Acts` |
| `CommitGate` | `CommitGate.commit` step by step over the Postgres ledger, and the RPC; refines `History` | `History` |
| `AuthorityService` | `evaluate`, `commit`, the Rules they resolve and their answers, driving the Gate; refines `CommitGate` | `CommitGate` |
| `Lifecycle` | `status`, and `trajectory` as a reader of several queries beside the Gate | `CommitGate` |
| `MemoryLedger` | the Gate over the store of one process | `CommitGate` |
| `PrincipalBindings` | link, revoke, resolve; the binding table | |
| `DeliveryLog` | abstract: of every delivery the first recorded copy | |
| `GitHubIngress` | registration of a GitHub App, the worker's webhook route and the inbox files; refines `DeliveryLog` | |
| `Deployment` | the scripts of the macOS pack, launchd, the migration rows | |
| `HistoryProofs`, `CommitGateProofs`, `AuthorityServiceProofs`, `LifecycleProofs`, `MemoryLedgerProofs`, `PrincipalBindingsProofs`, `GitHubIngressProofs`, `DeploymentProofs` | theorems | the module each is named after |
| `MC...` | instances for TLC | |

### How state and actions correspond to the code

*Names for hashes.* An Act's hash is modelled by its place in the commit order.
History only grows, so a place names one Act for ever; a number beyond the
present history is a hash that names no Act yet or never will. Two Acts are the
same content exactly when their records are equal, which is what the hash
preimage in `_canonical_value` makes of them. Commands, Contexts, payloads and
Rules are model values; what a Command's preimage fixes (its type, its parents,
the `reviewed_command_hash` of its payload) is a constant function of it. A
Registry entry answers to two words, its name and its hash: the service and the
Gate take either (`PostgresLedger.registered`), the RPC looks for types by name
only. `EntryHashes` are the words that are hashes and no names; `Registered` is
the first look, `TypesNamed` what the second asks in addition. `Identified` are
the Commands whose Identity has a row, which the RPC asks for and the Gate does
not.

*History.* An Act is `Admissible` if it is `Lawful`, which is what the Gate
demands whatever the store, and `Resolvable`, which is what the store demands:
that every reference is to something it has a row of.

*CommitGate.* `stage[w]` is where worker `w` is in `commit()`; the actions are
its Ledger calls in order: `FindOccurrence` / `CheckOutcome` (lines 58-67),
`CheckConsequence` (68-74), `ReadChain` and `CheckProof` (109-155), `CheckCut`
(76-78), `CheckReferences` (79-98), `PutCommand`, `PutContext` (99-100) and
`CommitAct` (the RPC). `Refuse` is every `raise`. `Crash` may come between any
two. `CallGate` is a call of `commit()`: any request that is signed, with a
Decision of any outcome and any cut, closed or not, and any Registry cut, within
the cut or not. `Propose` is the caller, and `KnownCut` the one thing presumed of
it that `commit()` does not look at: the cut of a Decision is made of Acts that
are there. `evaluate` sees to it (`authority.py:134-135`), and that the service
is such a caller is part of `ServiceRefinesGate`. It cannot be left out: the Gate
compares the cut after it has judged the proof, so that a Decision whose cut
foretells an Act would pass once that Act is placed, on a proof read before it
(the mutant of `StaleReadsHarmless`).
`linked` is the local variable of that name, read in one transaction and used in
later ones. `CommitAct` is one step because of the advisory lock the RPC holds;
its insert checks what the RPC checks and no more, types by name and the row of
the Identity among it. In particular it looks
neither at Context keys, nor at the Command object, nor at the chain beyond
existence: those rest on the Gate's earlier reads, and `StaleReadsHarmless` says
why that is enough.

*AuthorityService.* A call comes by one of three tools (`via`): commit, or the
review and observation services, whose guards are part of `Accept`. `phase[w]`
is where the worker is in `evaluate` and `commit`; inside the Gate
(`phase = "gate"`) it takes the Gate's own steps. What the evaluation reads and
nothing ever changes (Registry rows, Identities, signatures, Rules at a cut) is
one step, `Evaluate`. Which Rules judge a call is `Resolved`: for every name
configured, its latest version at the Registry cut (`Entry`), refused unless
there is code for exactly that version (`Executable`). A deployed Rule answers
freely, root authority by whose Command it is (`Opinions`), and `Authorize`
combines the answers as `authorize` does. Asking the Rules is part of what a
request is to the Gate (`Asks`). A key is born and revoked at a place of history
(`KeyFrom`, `KeyUntil`); they are constants because no code in the repository
writes them. `reply` is what the caller gets; `Die` leaves it without an answer,
and any call may be made again.

*Lifecycle.* `Status` is a function of the history it meets. `report` is what the
reader of a trajectory has so far: `ReadOwned` (the Acts of the Command),
`ReadLinked` (the Acts they link), `ReadStatus` and `HandOver`, with any number
of Gate steps between two of them.

*MemoryLedger.* The Gate's own actions up to the RPC, which `AppendAct` takes the
place of: it looks for the same Act and otherwise appends, whatever the cut and
the references are. `Enter` is `CallGate` with nothing presumed of the Decision,
known cut or not, let in when no other call is inside. This is how the
conformance tests call the Gate, from one thread, and no code of the repository
enforces it: whether calls overlap in a development server without
`DATABASE_URL` is up to the MCP library, and such overlap is not covered.

*PrincipalBindings.* `acts` holds the Acts of these Commands only. `Commit` takes
what `AuthorityService` promises as given: the settled Act of a Command made
again, or a new one on exactly the history the call was decided on.
`ProjectLink` and `ProjectRevoke` are the SQL statements of the ledger with
their unique index; `Crash` may come between the Act and its row.

*GitHubIngress.* `register.py` is `Register`, `Callback` (of this run's window or
of an earlier one), `StopWaiting`, `Convert` and one `StoreCredential` per write,
in the order of `Writes`; `Interrupt` ends it anywhere. An App has the number of
the run that registered it. `StartWorker` reads the secret, once. `Receive` is
everything `accept_delivery` does up to the creation of the file, then come
`Write`, `Sync` and `Respond`, each a system call; `WriteFails` is the error the
route does not catch, `Die` the end of the process, `PowerLoss` that of the host:
of a file not synced all, a part or nothing is left. `cutOff` remembers the
deliveries whose file was cut off before its sync. A reading of the inbox as a
log, the copy number of every synced file, makes it a `DeliveryLog`.

*Deployment.* A script is the list of its commands, `<<verb, object>>`, in the
order of the file; `run[p].todo` is what an actor (the operator, or the updater
that launchd runs) has still to do, and there is one action per command, with
the state it reads and writes. `Fail` is a command that ends the script by
itself, under `set -eu`; `Abort` ends it anywhere and runs its EXIT trap;
`PowerLoss` ends everything, runs no trap and reloads what has a plist, as a
login does; `Bootout` of the updater kills a check that is running, with or
without its trap. `locked` marks a run that holds `update.lock`: a check, or the
update it started. Release `v` brings migrations `1 .. v`. An install is an
update that is run first: the two scripts differ in `mirror_update_package`
only, which does nothing without a package from the updater. A file is written
in one step, and a Python environment in two.

## 3. Runs

Twelve runs. Five properties state what a document or a comment of the
repository says and the code does not keep; each has a run that shows its
violation, and section 5 says what it comes to. The rest hold.

| Run | Instance | Shows |
|---|---|---|
| `gate_race` | 2 workers, 3 Acts, 10 requests: for one Command in different Contexts, types and Registry cuts, one by the hash of its type, one of an Identity without a row, one without Rules and one forged; every cut history has had, not only the latest | the safety of the Gate and its refinement of `History` under every interleaving and crash |
| `review_lifecycle` | 1 worker, 5 Acts, 6 requests, a reader of one Command | every order of review stages; consequence, and what status and trajectory say of it when the reader's queries are spread over them |
| `gate_pending` (violation) | 1 worker, 6 Acts | a Command sent to review twice goes ahead on the first resolution |
| `service_race` | 2 workers, 3 Acts, 9 calls by all three tools, one by the hash of its type and one at an explicit empty cut, a key that is revoked, two versions of the root Rule | what callers are told, whose signature and whose Rules stand behind an Act, and that the service drives the Gate within `CommitGate!Spec` |
| `service_resubmit` (violation) | 1 worker, 3 Acts | identical content submitted again is a conflict |
| `bindings_race` | 2 workers, 2 Identities, 1 principal, 4 Acts, crashes | what the binding table guarantees |
| `bindings_window` (violation) | 2 workers, no crash | a principal acts after its revocation |
| `bindings_rebuild` (violation) | 1 worker, no crash | a repeated revocation makes the table differ from its Acts |
| `deploy` | 2 releases, operator and updater | interrupted and repeated installs, updates and uninstalls leave a host whose worker starts; receipts, migrations and staged releases are what they claim; a finished uninstall left nothing; a check that ends, ends without its lock |
| `deploy_autoupdate` (violation) | 2 releases | no update that the updater starts gets past its first command |
| `github_ingress` | 2 registrations; 4 deliveries, each sent twice: one of each App, one signed with an empty secret, one of an event that is not allowed | credentials of one App, an authentic inbox, accepted deliveries on disk; the inbox is a `DeliveryLog` |
| `memory_ledger` | 2 workers, 4 Acts, 8 requests, among them a link and a Registry cut that name nothing, a type by its hash and an unknown Identity; a cut that foretells an Act | the Gate keeps history lawful over a store that judges nothing |

Bounds. `MaxHistory` and `MaxActs` stop commits, nothing else. Three Acts for two
workers are enough for a race of two over one Command on top of a first Act that
moves the cut and brings new vocabulary; five for one worker hold a whole review
(requested, reviewed, resolved, consequence); six are needed before a second
review can be pending. One worker suffices for the review runs because a cut
pins the whole history: interleaving of workers is the subject of `gate_race`,
and what a reader can meet is any history at each of its queries, however many
wrote it. `Watched` names the one Command of that run that can have a full
story. Two workers are a symmetric set. `MaxRuns = 2` gives credentials to mix
up and a secret that changes under a running worker; `MaxCopies = 2` gives a
delivery and its redelivery, and a third meets what the second met. What depends
on more workers, longer histories, more deliveries or other requests is proved.
`MaxRelease = 2` is enough for an old and a new release and for going back from
one to the other (the operator may run any release's scripts at any time, in any
number); that a third release adds nothing to its safety is proved.

Deadlock is checked in every run: a worker can always be called, a delivery
leaves a process that can die and start again, and the operator can always run a
script.

Fairness. For the kernel none is assumed and no liveness is claimed: the Gate
promises nothing about progress (a caller whose history keeps moving is refused
for ever). `Deployment!Spec` assumes weak fairness of `StartWorker` alone: the
plist of the worker says `KeepAlive`, so launchd tries again as long as the job
is loaded. It does not assume that a script goes on, that an operator comes
back, or that launchd runs the updater. `WorkerComesBack` is then a statement
about the scripts: nowhere do they leave a loaded worker that cannot start.

## 4. What is proved

*History.* `HistoryProofs`: any history that starts with the Genesis Act and takes
only admissible Acts satisfies `HistoryInv`. It strengthens what one wants to know
(`OneConsequence`, `Acyclic`, `ReviewedConsequence`, ...) by two facts:
`ResolutionsStand` and `ReviewsFit`. A consequence names a resolution; that this
resolution stands on a request and a review is known only because it was
admissible when it was placed, so it has to be carried along.

*The Gate.* `CommitGateProofs`: `GateInv` is the inductive invariant. Its core is
`ReadsCurrent`: the links and the review state that a worker read some
transactions ago are what a reading now would give, *unless* history has outgrown
the cut of its Decision. A commit by someone else makes the condition false for
every other worker (`FrameCommit`), and the RPC admits a worker only while the
condition is true (`AcceptedIsAdmissible`). This is the argument that the
comparison of cuts inside the RPC is enough to make some ten separate
transactions behave as one. From it follow `GateRefinesHistory` and, with
`HistoryInvariant`, the invariants of every history; `PlacedOnce` and
`PlacedOnEvidence` are two of these that no run states by itself.

*The service.* `AuthorityServiceProofs`: `ServiceRefinesGate` says that every step
of the service is a step of the Gate's specification or none, the caller's
freedom to propose being used by `EnterGate` alone; so all that is proved of the
Gate holds under it. The invariant is `CallsInv`: what was found of a call when
it was evaluated (`Vetted`: closed cuts, the signing key, the vocabulary, the
Rules) stays true, because cuts do not change and history only grows; and a
worker inside the Gate has there exactly what its call was decided on
(`Drives`). `PlacedInv` carries this over to the Acts in history, which is where
`SignedWithLiveKey` and `EveryRuleAsked` come from. What a caller is told
(`Told`) stays true while it is being told. Last comes `ErrorsExplained`
(`AgreementInv`): that a Command has bought nothing yet (`Fresh`) is claimed
only while the cut is all of history, so another worker's commit makes the claim
moot instead of false, and moves history, which explains the refusal. What is
left are the references and the proof, which the service does not look at, and a
type given by the hash of its entry, which passes service and Gate and is unknown
to the RPC.

*The reader.* `LifecycleProofs`: the reader changes nothing for the Gate
(`ReaderStandsAside`), so `HistoryInv` holds under it, and `ReportInv` says what
it holds at each stage in terms of a history that may have grown since. The
proof rests on one assumption more, `NoSelfReview`: a Command's payload hash
cannot hold the Command's own hash, so the reviewing Command is another one.

*The memory ledger.* `MemoryLedgerProofs`: with one call inside at a time
(`OneAtATime`) what it read is current without any condition (`Current`), and
every Act appended is `Lawful` (`GateAlone`), for Decisions of any cut: the
comparison of cuts comes after the other reads, but nothing comes between them.
It need not be `Resolvable`: of that the Gate checks nothing.

*Bindings.* `PrincipalBindingsProofs`: `BindingsInv` adds to the properties what a
worker may rely on between its two transactions: the Act it holds is in history
and is of the kind its row will claim.

*GitHub.* `GitHubIngressProofs`: `IngressInv` rests on the order of the six
writes. A credential written later is never of a newer App than one written
before it, so that the first and the last pin all between. For the inbox it
says what a handler's stage means for its file (`Handling`), and that a file
nobody is handling is whole and synced, or was cut off (`Settled`). From it
follow the three invariants and `InboxImplementsLog`.

*The macOS pack.* `DeploymentProofs`. The properties speak of what scripts leave
when they are cut off, so `DeploymentInv` says two things. `RunSound`: whatever a
run still has to do is the rest of its script from some command on (or the
record of a migration before that, or its failure), and what the commands before
have done holds, `Reached(v, k)` for an install or update of release `v`,
`Undone(k)` for an uninstall, and for a check that it holds the lock and that
what it verified is good. `HostSound`: what holds whoever was cut off, which is
what a next run starts from: a current release has its schema and buckets, a
runner has its env file and environment, what launchd may start has what it
starts from. The order of the commands is what makes this inductive: a link is
switched, a runner written, a plist put in place only after what `HostSound`
then asks of it. Two parts rest on the other actor. An operator's script keeps
what it has reached because the updater changes nothing but the cache and the
release directories: the update it starts ends at its first command
(`StartedUpdate`, and `NoAutomaticUpdate` for every release). And a verified
package stays good until it is staged because whoever holds `update.lock` holds
it alone (`LockExclusive`). There is one lemma per command (`ActivateKeeps`, ...);
before them come lemmas that tell, from the command an actor is about to run,
which run it is in and where (`UpdateTurn`, `RmTurn`, ...), and what a step leaves
of the other actor's run (`KeepsRun`). The seven safety properties of `deploy`,
`LockGivenBack` among them, follow.

Assumptions: the named `ASSUME`s on the constants (types, a Genesis Act that
refers to nothing, calls whose requests are among the requests, a row for every
Identity that has a key). TLC evaluates
them in the runs. Nothing else is taken on trust. The theorems hold for every
set of workers, Commands, calls, Rules, keys, principals and deliveries, and for
every bound.

Only model-checked: `WorkerComesBack`, the one liveness property, which is beyond
the prover (its safety part, that a loaded worker can start, is
`WorkerRunnable`), and the five properties the code does not keep.

## 5. Where the code and its documents differ

- `gate_pending`: specification section 8.1 says a Command is blocked while
  review is pending; `kernel/commit.py:149-155` accepts any resolution of the
  Command, so a second review does not block.
- `service_resubmit`: section 10.1 says re-submitting identical content returns
  the existing Act; `service/authority.py:189` raises a conflict first, and the
  replay branch at line 204 cannot be reached.
- `bindings_window`: `ledger/postgres.py:256` says a stale token resolves to
  nothing; between the two transactions of `revoke` it resolves.
- `bindings_rebuild`: the migration says the table can be rebuilt from the Acts;
  `revoke_principal` closes whatever row is live when it runs, also when it is
  the answer to a repeated Command.
- `deploy_autoupdate`: the README says the updater verifies, stages and runs
  the idempotent updater; `check-update.sh` hands `update.sh` the installed env
  file, `write_installed_env` copies it to itself, and `cp` refuses.

Seen while modelling, and in the model, but without a run of their own:

- Section 6.1 says a consequential Act MUST reference the full authorization
  chain; `kernel/commit.py:151` asks for one only after a `ReviewRequested`.
- Section 19.3 says every successful uninstall writes a receipt; `write_receipt`
  (`common.sh:574`) needs `PF_PYTHON_BIN`, which `uninstall.sh` never sets, so
  that without `--purge` it ends with an error after all the rest.
- A delivery whose first copy was cut off between the creation of its file and
  the sync leaves that file behind; the redelivery finds it, is answered 202 as
  a duplicate, and the inbox keeps a file in part. `AcceptedIsOnDisk` and
  `DeliveryLog` name this exception (`cutOff`).

- A type given by the hash of its Registry entry passes `_validate_registry` and
  the Gate (`ledger/postgres.py:76` matches name or hash) and is refused by the
  RPC, which matches the name; Rules it finds by hash. The caller gets an error
  of the database instead of one the service foretold. `ErrorsExplained` names
  this reason.
- `commit()` relies on its caller for the cut of a Decision to be known
  (`KnownCut`); the RPC does not catch a cut that foretold the Act placed
  meanwhile.
- The store in one process takes links, Registry cuts, types and Identities that
  Postgres refuses, so the conformance tests say nothing of these.
- Nothing forbids consequence after a terminal stage: a Command denied, expired
  or superseded may still reach it, and no document says otherwise.

Two hazards in `PROJECT.json` have no property and say why: a delivery cut off
between the creation of its file and its sync, and two operators who migrate one
database at the same time.

## 6. Not modelled

In the kernel: canonicalisation (a hash is what it names; that distinct content
has distinct hashes is assumed); SQL roles and hash syntax; duplicates inside the
arrays of an Act; several versions of a Registry name other than a Rule's; the
several Acts of Genesis, which are one; the CAS object of the Act itself,
inserted in the same transaction as its row; reads for display and projections;
the Context keys the Kernel derives for a principal (who the requester is, is
`PrincipalBindings`) and those a Rule declares; what a deployed Rule computes;
OAuth tokens and their verification.

Of the memory ledger: its own dictionaries of keys, bindings and Registry
entries, which only tests read.

Of GitHub: that `fsync` of the file makes its directory entry durable too, and
that the key file, the Keychain and `github-app.json` are durable once written,
is assumed; the route is atomic between its system calls with respect to other
deliveries because it never awaits; one `register.py` runs at a time;
`secrets.sh`, by which an operator can set the same webhook secret by hand, is
left out.

Of the macOS pack: contents of receipts and configuration files; the mirror of
packages; files written in part, the env files among them; OAuth clients listed
and then created by two runs at once; two hosts on one database. The components
of the inventory without a module are listed in `PROJECT.json` with the reason.

## 7. What is left

1. A second operator in `Deployment`, or a module `Migrations` of its own: two
   runs that apply and record migrations on one database. This is the hazard
   that has no property; it becomes worth its states when the pack serves more
   than one host.
2. The reader of the inbox, when there is one: the file in part that a cut-off
   delivery leaves is harmless only to a reader that expects it.
