# Formal model of the Feint VPN node

TLA+ specifications of the node's state-changing core, checked with TLC. Every
safety property that a run shows to hold is also proved with TLAPS, for every
value of the constants.
Paths below are relative to the repository.

## The system

A node is one VPN container (sing-box, or Xray) and one API container beside
it, on one host, with three files: `config.json` (users, outbounds, routing),
`traffic.json` (totals) and `.env.local` (ports, names, secrets). There is no
database; whoever changes the VPN changes `config.json` and restarts the
container.

| Component | State | Operations |
| --- | --- | --- |
| Mutation protocol, `node/src/domain/mutation.py` | one `asyncio.Lock` | `serialized_mutation`, `commit_config`, `_rollback` |
| File store, `adapters/singbox_file_store.py` | `config.json`, backups named by the second | load, save, backup, restore, each in a worker thread |
| Container runtime, `adapters/docker_runtime.py`, `adapters/xray_config.py` | the container's status, the configuration it started with; `xray.json` | reload: restart and poll; under Xray render, test, then the same; is_running |
| User service, `domain/user_service.py` | the users of every inbound, the statistics list | create, bulk create, delete, reads |
| Outbound service, `domain/outbound_service.py` | managed outbounds and routing rules | set, delete, add and remove users |
| Traffic tracker, `adapters/traffic_tracker.py` | totals, last counters, dirty flag; `traffic.json` | poll, flush, reset a user, start, stop |
| Template merge, `scripts/sync-singbox.py` | `config.json` | render a template around the deployed users |
| Port administration, `scripts/ports.sh`, `scripts/lib/ports.sh` | `.env.local`, `config.json`, both containers | set, randomize, with rollout and restore |
| Updater, `update.sh` | checkout, images, `.env.local`, `config.json` | update with rollback |
| Subscriptions and settings, `api/routers/sub.py`, `utils/settings.py` | label template in memory and in `.env.local` | read, set |
| Authentication and endpoint hiding, `api/depends/authentication.py`, `main.py` | the access settings the process started with | a decision per request |
| Telemetry, URL builder, logging, installer, diagnostics | none that the others depend on | |

How they meet:

* every mutating request runs a service method under the one lock: load, back
  up, change in memory, save, restart the container, roll back on an error;
* the container reads `config.json` only when it starts, and loses its byte
  counters then; the tracker polls those counters;
* `DELETE /user` commits and then resets the tracker's record;
* the scripts write `config.json` and `.env.local` and recreate containers
  without the lock; the API writes its label into `.env.local` through a mount of
  that one file.

What is hard: cancellation of a request whose file write runs on in a thread;
failures with and without their effect; the death of the API between file and
container; sequences of calls on routing rules whose first match wins;
counters that start again from zero; two programs that rewrite one file; a
file written and only then tested, while Docker may restart its reader at any
moment. The
hazards, each at its line and with the properties that watch it, are listed in
`PROJECT.json`.

## Modules

| Module | Models |
| --- | --- |
| `AtomicNode` | What clients are promised: each request changes the whole configuration at one instant or leaves no trace (README.md, "Atomic mutations"). |
| `ConfigMutation` | The commit protocol, await by await, over an abstract configuration. What a request computes is a parameter (`Refuses`, `Skips`, `Apply`). Refines `AtomicNode`. |
| `NodeConfig` | The configuration as a value and what each domain operation and the template merge make of it: pure operators. |
| `ConfigService` | The services over one stored configuration: `NodeConfig`'s operators as atomic calls, and what sequences of calls lead to. |
| `TrafficTracker` | The accumulator with the runtime's counters, deletions and restarts of both processes. |
| `ApiRequest` | What the scripts see of a request: load, back up, save, reload, and restore and reload when one of the last two fails; no lock between them and it. |
| `PortRollout` | `ports.sh` command by command, next to a request of `ApiRequest`. |
| `NodeUpdate` | `update.sh` command by command, with its trap and rollback, next to the same. |
| `ContainerRuntime` | What `ConfigMutation` takes for one step: `DockerRuntime.reload` and `XrayDockerRuntime.reload`, call by call, in a commit and its rollback. Refines `AtomicNode` for either core. |
| `NodeSettings` | `.env.local` between the API, the scripts and the containers that read it; and the answers the access settings lead to. |
| `MC...` | Values of the constants for TLC. |
| `..._proofs` | Theorems and their proofs. |

`ConfigMutation` shows that a request is atomic, which is what lets
`ConfigService` take each call as one step. `PortRollout` and `NodeUpdate`
extend `ApiRequest`, a request of six steps, because the scripts do not
honour that atomicity.

### ConfigMutation

State: `file`, `backups` (one per second), `running` (what the container
started with), the lock and its queue, and per task the await it is suspended
in (`pc`), what that await's thread has done (`await`) and the locals of the
service method. Each await is two steps, the thread's work (`ThreadLoad`,
`ThreadRun`) and the task's resumption (`ResumeLoad`, ...), so that
cancellation can fall between. A cancelled await drops its thread or leaves it
running (`Abandon`); an abandoned thread acts at any later time (`LeakedRun`).
Reading may fail, whatever the file holds. Saving may fail with the new file in
place (`chmod` fails after `os.replace`),
a backup may be written in part, Docker may fail before or after the restart.
`EarlyBackup` are the operations that back up before they validate: the user
service does, the outbound service does not.

`exposed` is a history variable: it becomes true with the events after which
the code itself gives up (a rollback that fails, which answers
ConfigRollbackError; a crash or an abandoned write inside a commit; a
cancellation inside the rollback). The safety properties speak about
executions until then, and `RetryIsSafe` shows what lies beyond.

### NodeConfig and ConfigService

A configuration is `[users, outbounds, rules, stats]`: credentials per inbound
and user, ids of managed outbounds, the ordered rules, the statistics list.
`DOMAIN config.users` are the configured inbounds. Credentials are of two
kinds, UUID and password, as in `_adapt_user`. `KnownSecret` is both what a
repair reuses and what `GET /user` reports. `RouteOf` is sing-box's rule: the
first match wins and a managed rule with no users matches everybody (`Matches`,
`Target`). Filtering rules and installing a batch are recursive functions
(`Without`, `CreateUsers`), not operators, so that they can be proved about.
`call` and `result` record the last call for the action properties.

### TrafficTracker

`_poll_once` suspends only while it waits for the statistics service: the poll
is `PollStart`, `Answer`, `PollApplied` or `PollFails`, and the flush that
follows runs without a suspension, in the same step. `carried`, `epoch`,
`lastEpoch`, `lastCarried` and `recounted` are history: what users sent before
the runtime last started, how often it started, where the baseline was read,
and what was live each time the API lost its baseline.

### ApiRequest

A request that creates a user: `LoadConfig`, `BackupConfig`, `SaveConfig`,
`ReloadRuntime`, and `RestoreBackup` and `ReloadBackup` for `_rollback`. A save,
a reload or a restore that fails or is cancelled may have had its effect. What
matters beside the scripts is that a request writes `config.json` twice if its
reload fails, the second time with what it backed up. `KnowsFile` says when a
write of the request only changes its own work: the file is what it backed up,
or that and the new user. The thread that a cancelled call leaves at work is in
`ConfigMutation` and `ContainerRuntime` only.

### PortRollout

A port is a text, known by its leading zeros and its number, because three
readers disagree about it: `port_validate` evaluates it in bash arithmetic,
where a leading zero means octal and numbers wrap (`Arithmetic`, `Word`);
`port_require_unique_config` compares texts; `int()` and Docker read it as a
decimal (`Decimal`). `Empty` is a line that `env_get` does not find.

One action per command of `apply_ports` and `restore_ports`. `Then(next,
effect)` is a command of the `&&` chain: it succeeds, or fails with or without
its effect and the restore begins. `Attempt(effect)` is a command of the
restore, which sets `failed` and goes on. A copy may also fail half way:
`CutEnv` loses lines of `.env.local`, and `RestoreConfig` may leave a
`config.json` that nobody can read (`NoConfig`). `render_singbox_ports` is two
steps, read and replace. Recreating the API container kills its request. The
core's check refuses numbers beyond the range of ports (`Accepted`).
`overlapped` is history: a request wrote `config.json` while the script ran, or
wrote back a file that was not its own any more.

### NodeUpdate

Commits, templates and `.env.local` are known by the release that wrote them;
image tags move on their own. Before the trap a failing command ends the script
(`Aborts`); under it, `Then` is a command that succeeds or starts the rollback;
in the rollback, `Attempt` is a command whose failure nobody sees (`skipped`
is history), and `Cut` a copy that stops half way. `set -E` hands the trap to
command substitutions: `resume` says what follows a rollback that ran in a
subshell. An assignment fails and rolls back again; an argument does not, and
the script goes on from "up" with `.env.local` holding what the rollback printed
(`Garbled`, which also stands for a file cut short). `crossed` and `late` are
history: a request wrote `config.json` between the script's read and its
replacement or over a file it did not know, and a request wrote it while the
update held a backup. The `die` for an unknown template (`update.sh:115`) is
left out: the installer writes known names only.

### ContainerRuntime

State: `config.json` (`file`), the configuration `xray.json` was rendered from
(`xray`), what the core was last `started` with, the container's `status`, and
the request's position: one `pc` per awaited call of `commit_config`,
`_rollback` and `reload`, with `mode` telling the two passes apart. `runtime`
is `VPN_RUNTIME`, chosen once in `get_container_runtime`, so one module has
both cores. `Refused` are configurations the core exits on, `Unrenderable`
those `render_xray_config` raises an error on. A refused configuration under
sing-box starts and dies, again and again: `ProcessDies` and `DockerRestarts`
(`restart: unless-stopped`) alternate, and `Poll` may see it in between, as the
code does. The Xray test is an exec in the running container, so it fails
while the container is down, whatever it is to test.

Cancellation leaves the thread of a render, its write or a restart at work
(`leaked`). A write that lands after the rollback has changed the file sets
`exposed`, as do a crash inside a request, a failed rollback and a
cancellation inside the rollback: history after which the code promises
nothing. The lock and the queue are `ConfigMutation`'s; here one request runs
at a time.

### NodeSettings

The content of `.env.local` is its label and the rest, the rest known by the
access settings it holds. A file has an owner, since the API runs as uid 1000.
Docker mounts the file and not the path: after `env_set` has renamed a new file
over it (`WriterWrites` of a "rename"), the running container keeps the old one
(`mounted`, `attached = FALSE`) until it is recreated; `ports.sh` copies into
the file and leaves the mount alone. `PUT /sub/settings` never suspends, but
writes in two steps, since `write_text` truncates first: the process may die or
the disk be full in between. A restarted process reads the environment its
container was created with; a recreated one reads the file. `Answer` is the
middleware, the dependency and the route as a function of the settings.

`raced`, `torn` and `astray` are history: two writers overlapped, a truncated
file was left behind, a label went to the file nobody reads any more.

## What a run shows

| Run | Expected | Question |
| --- | --- | --- |
| `MutationFaults` | pass | Two requests of four kinds with one cancellation, one crash, two backup seconds and every fault: lock, backups, answers, and refinement of `AtomicNode`. |
| `MutationLiveness` | pass | Three requests and a cancellation: does every request end? |
| `MutationRetry` | violation | Is a success answer to a retry true after a crash? |
| `NodeRoutes` | pass | Three users, two outbounds, any sequence of calls: are the rules sound? |
| `NodeTemplates` | pass | Batches, repeated users and a template that brings an inbound: credentials and statistics. |
| `NodeAddRoutes` | violation | Does adding a user to an outbound route it there? |
| `TrackerTotals` | pass | Bounded overcount, counting and saving, with restarts and failures. |
| `PortRollout` | pass | Two rollouts of ports in any spelling, with any failing command, next to a request that may fail: are applied and restored true, and do sockets stay apart? |
| `NodeUpdate` | pass | One update with any failing command next to a request that may fail: are complete and restored true, and do users stay? |
| `ContainerRuntime` | pass | Four configurations, two failing calls, one cancellation, one crash, a dying core and an operator, under either core: do file, rendering and core agree between requests, and does every request end? |
| `NodeSettings` | pass | Two PUTs, two script writes, one death of the API: are settings kept, and is access what the settings say? |
| `SettingsPersist` | violation | Is a label that was answered for in `.env.local`? |

### Properties

* `LockDiscipline`, `BackupIsPrestate`, `QuiescentAgreement`: mutual
  exclusion, the rollback's target, and file = container between mutations.
* `FailureRestores`, `SuccessIsServed`: what 500 and 2xx mean.
* `ImplementsAtomicNode`: the refinement, with the configuration that clients
  may rely on mapped to what the committing request loaded until it answers.
* `ReadsAreGenuine`: a `GET`, which takes no lock, sees the committed
  configuration or the one a commit is about to make it.
* `EveryRequestAnswered`: liveness of the lock.
* `SettledAgreement`, `RollbackReinstalls`, `EveryReloadEnds`, and
  `ImplementsAtomicNode` again: what a reload leaves behind, for either core.
* `RulesAreSound`, `OneRulePerOutbound`, `SetRoutesExactly`,
  `RemovedNotRouted`: routing.
* `EveryUserCounted`, `SecretsAreStable`, `CreatedEverywhere`,
  `ReportedSecretsWork`: users and credentials across templates.
* `OvercountIsBounded`, `BaselineIsCounted`, `EventuallyCounted`,
  `EventuallyPersisted`: totals.
* `NoSharedSocket`, `AppliedIsServed`, `RestoredIsServed`,
  `AnsweredUsersStay`: rollouts. The first says that two services share a socket
  only as one number in two spellings, which the check cannot tell (below); the
  last that answered users are in the file and in the container at every
  moment, not only between rollouts.
* `UpdatedIsDeployed`, `RestoredIsDeployed`, `AnsweredUsersStay`: what the
  updater's three last words mean, and users across updates.
* `SettingsKept`, `StrangersLearnNothing`: `.env.local` and access.

### Bounds, and why they are enough

* Mutations: two tasks suffice for every pair of commits, a third waits in the
  queue and matters to liveness only. One user makes two configurations, which
  is what tells old from new. `MaxClock = 1`: backups of one second collide,
  those of two do not. One cancellation and one crash: each is followed by
  every later behaviour, and the theorems below are free of these bounds.
* Services: three users and two outbounds are needed for a rule that loses one
  of two users to another outbound's rule; inbounds do not influence routing,
  so that run has one. Credentials need two values, two kinds and a template
  that adds an inbound; batches of two hold the same user twice.
* Tracker: one user (users do not interact but for the shared dirty flag), one
  byte per direction and three runtime restarts: created, deleted, created
  again. The proofs have no bounds.
* Ports: one tcp key, one udp key and the one that is both. Four requests: a
  text that is no port, a port that conflicts, `0177777`, which passes the check
  and is no port of anything, and `01` for a service beside one that has `1`,
  together with a move of the API's port; tcp 8337 is in use, which is where
  compose goes when `.env.local` has lost the API's port. `Word` is 2^17
  instead of 2^64: all it has to be is larger than a port, which is what the
  proof assumes. Two rollouts so that the second starts from what the first
  left. Deadlock is not checked there: the model stops when rollouts and users
  are used up.
* Runtime: one configuration per kind (good, refused by the core, refused by the
  renderer) and the initial one. Two faults, so that a commit and its rollback
  can both fail; one cancellation and one crash, each followed by further
  requests, which are unbounded.
* Settings: a label of each kind (default, ordinary, changed by compose's
  reading of an env file, rejected), five access settings, two PUTs and two
  script writes so that each kind of writer can follow each other.
* Updates: two releases tell old from new; one user. One update, which starts
  from any checkout, `.env.local` and images that aborted updates may have left
  (`Init`): two updates beside requests that may fail are beyond the time TLC
  has, and the proof covers any number of them. The model stops likewise.

Symmetry is used for users, tasks, outbounds and secrets in runs without
temporal (liveness) properties.

### Fairness

`ConfigMutation!FairSpec`: weak fairness of each task's step. A worker thread
finishes (every call it makes has a timeout or is a local file operation) and
the event loop resumes ready tasks; `asyncio.Lock` wakes waiters in order, which
the model has as a queue, so no strong fairness is needed. Nobody owes a
request, a cancellation or a crash.

`TrafficTracker!FairSpec`: the poller's loop ends only with the process, time
passes, and a pending query is answered or times out (weak fairness). Strong
fairness of `Answer` and `PollApplied` says that a runtime asked again and
again answers in time again and again; with a runtime that never answers
nothing can be counted.

`ContainerRuntime!FairSpec`: weak fairness of the request's step (calls to
Docker and the disk end) and of the deadline (time passes). Docker owes no
restart and the core no life: `EveryReloadEnds` holds because of the deadline.

### What makes a property fail

Each module holds operators named `Bug...`, placed before the definition they
are variants of: a dropped lock, a forgotten rollback, a swallowed error, a
missing reset. No specification uses them. They document what each property
guards against: with the variant in place of the definition the property of
`PROJECT.json`'s "mutants" list is violated under the run's own bounds.

## What the model found

* **A retry after a crash answers success while the container runs the old
  configuration** (`MutationRetry`). The API dies between save and reload; the
  repeated `POST /users` finds nothing missing and returns without reloading
  (`user_service.py:164`).
* **Adding a user to an outbound need not route it** (`NodeAddRoutes`).
  `_add_users` leaves the user in the rule of another outbound, and the first
  rule wins (`outbound_service.py:107`).
* **A stored label need not be stored** (`SettingsPersist`). `env_set` renames a
  new file over `.env.local` (`scripts/lib/ports.sh:42`; every update calls it);
  the running API keeps the old one and answers success for labels nobody will
  read. The new file is root's with mode 600, so once its container has been
  recreated the API can neither read nor write it.

Met while modelling and not stated by a run of its own:

* An API restart counts traffic twice: totals are saved, the last counters are
  not (`traffic_tracker.py:302`), so the first poll adds the runtime's whole
  counters, against the docstring at `traffic_tracker.py:11-12`. By how much is
  `recounted` in `OvercountIsBounded`.
* A failed update loses users: the API serves while images are pulled, and the
  rollback copies the backup over what was saved since (`update.sh:93`), against
  `scripts/README.md:84-88` (`late` in `AnsweredUsersStay`).
* Two services can be given one port: `VLESS_PORT=010` and `TROJAN_PORT=10` pass
  `port_validate`, which reads 8 and 10, and `port_require_unique_config`, which
  compares texts (`scripts/lib/ports.sh:129`); `int()` makes both 10
  (`ports.sh:145`). And `0177777` passes as 65535 and is used as 177777.
  README.md:368-371 has it that `--apply` "validates conflicts and duplicates";
  the first case is the exception in `NoSharedSocket`, the second ends in the
  restore (`Accepted`).
* A port conflict is reported and ignored: `validate_requested` runs in a
  command substitution, where bash clears `-e` (`ports.sh:131`, `:238`),
  against README.md:370-371 (`Plan` has no guard on `Busy`).
* A configuration sing-box refuses is committed when the status poll meets the
  container between two crashes (`docker_runtime.py:49`): the request answers
  success and the core never serves (`Poll`; only Xray is tested first).
* Once the Xray container is stopped, every mutation and its rollback fail at
  the test (`docker_runtime.py:100`), though the rollback does reinstall the
  previous configuration (`RollbackReinstalls`).
* `docker compose restart vpn-node-api` (README.md:448) brings back the label
  the container was created with, not the one last stored (`origin`).
* `render_singbox_ports` demands five inbounds and so fails with the `vless`
  and `hysteria2` templates (`ports.sh:158`; the guard is in `ReadConfig`).
* A template that drops an inbound leaves the users who had no other one in
  the rules and in the statistics list (`sync-singbox.py:59`, `:65`); deleting
  them is refused, since they have no credentials any more. Hence the hypothesis
  `TemplatesOnlyGrow` of two theorems below.
* A rollout of ports and a request can cross: the request saves or restores the
  old ports, or the script drops the new user (`~overlapped` in the properties
  of `PortRollout`).
* An update and a request can cross: a request that saves before the updater's
  read and whose reload fails after the replacement restores its backup, with
  the old template, over the new `config.json`, and the updater still says
  "Update complete" (`~crossed` in the properties of `NodeUpdate`).
* A restart of the runtime is recognised only by a smaller counter
  (`traffic_tracker.py:303`): one that has caught up loses traffic.
* The updater says "Previous deployment restored" when the API answers,
  whatever failed in between (`~skipped`).
* A substitution in an argument that fails (`openssl rand`, `update.sh:224`, or
  the search for a port) leads to "Update complete" on the old commit
  (`resume # "up"`).
* What fails between the reset to the new commit and the trap leaves the new
  commit beside the old containers; the next rollback restores that mix.
* The updater checks the configuration after it has replaced the deployed one,
  against `scripts/README.md:86-87` (`Move`, `Check`).

## What is proved

`ConfigMutation_proofs`, for any tasks, operations, configurations and bounds
that meet the named assumptions (`OpsAssumption`: an operation refuses, skips
or yields a configuration; `ConstantsAssumption` and `NoneAssumption`: the
special values are distinct and the bounds natural numbers):

| Theorem | Says |
| --- | --- |
| `Invariance` | `Spec => []IInv` |
| `TypeCorrect`, `MutualExclusion`, `RollbackTarget`, `Agreement` | `TypeOK`, `LockDiscipline`, `BackupIsPrestate`, `QuiescentAgreement` always hold |
| `Reads` | `ReadsAreGenuine` always holds |
| `SuccessServed`, `FailuresRestore` | the action properties `SuccessIsServed`, `FailureRestores` |
| `Refinement` | `Spec => ImplementsAtomicNode` |

None of the invariants is inductive alone. `IInv` adds `QueueInv` (waiting
tasks wait, once each, and no task outside the lock has a thread at work) and
`HolderInv`: what the lock holder may rely on in each await, for instance that
in "save" the backup and the loaded configuration are equal and the file is
still that configuration until the thread has run. Restarts that were
abandoned are harmless, as they read the same file (`OnlyRestartsLeaked`);
every other abandoned thread sets `exposed`. The proof has a lemma per concern
(types, lock, commit protocol) and in each a step per action.

The refinement maps a request's answer to the one step of `AtomicNode` that
changes the configuration, a crash to the loss of all requests, and every step
after `exposed` to the lapse of the promise. Everything between load and answer
is a stutter, because `Committed` stays the configuration the holder loaded from
the save on; `HolderInv` says that what it loaded was the file until then, and
what the file is when the answer makes it count.

`ContainerRuntime_proofs`, for either core, any configurations and bounds, and
any sets of configurations that cannot be rendered or that Xray refuses
(`RuntimeAssumption`: the first configuration is in neither):

| Theorem | Says |
| --- | --- |
| `Invariance` | `Spec => []IInv` |
| `TypeCorrect`, `Settled` | `TypeOK`, `SettledAgreement` always hold |
| `RollbackInstalls` | the action property `RollbackReinstalls` |
| `Refinement` | `Spec => ImplementsAtomicNode` |

`PassInv` says what the request has written where it stands: the candidate on
its way out, the previous configuration once it reloads on its way back.
`ReloadInv` adds what each call leaves for the next until `exposed`: the
rendering is that of the file from the write on, the file has passed Xray's test
from the restart on, and the previous configuration, which was served, renders
and passes again. So a rollback that meets no fault of Docker or the disk has
put the previous configuration in place, whatever it reports in the end.

`TrafficTracker_proofs`, for any users and bounds:

| Theorem | Says |
| --- | --- |
| `AccountsKept` | `Spec => []IInv` |
| `TrackerTypes`, `Overcount`, `Baseline` | `TypeOK`, `OvercountIsBounded`, `BaselineIsCounted` always hold |

`Accounted` relates totals to the moment the baseline was read: counters of
the current epoch have only grown, those of an earlier one are contained in
`carried` (`Grounded`), and a pending reading is never older than the baseline
it replaces (`Ordered`). Totals are at most `lastCarried + last + recounted`,
which gives the bound, and reset and reload keep it because they lower the
left side only.

`ConfigService_proofs`, for any users, secrets, outbounds, inbounds, templates
and length of batches (`NodeAssumption`: no credential and no outbound id is one
of the two special values, and protocol tags are counted by numbers;
`ServiceAssumption`: templates have supported inbounds):

| Theorem | Says |
| --- | --- |
| `Invariance` | `Spec => []IInv` |
| `TypeCorrect`, `FirstRuleIsOnly` | `TypeOK`, `OneRulePerOutbound` always hold |
| `NobodyIsUncounted` | the statistics list misses no installed user, ever |
| `RulesStaySound`, `StatsAreCurrent` | `RulesAreSound`, `EveryUserCounted` always hold as long as no template drops an inbound |
| `SecretsStay`, `CreatedAreEverywhere`, `ReportedSecretsAreWorking` | `SecretsAreStable`, `CreatedEverywhere`, `ReportedSecretsWork` |
| `SetIsExact`, `RemovedAreNotRouted` | `SetRoutesExactly`, `RemovedNotRouted` |

`Sound` is the invariant: rules go to managed outbounds, none is empty, no
outbound has two, and whoever has a credential is counted. Each part is needed
for the next call: `_remove_users` and `_add_users` look at the first rule of an
outbound only, which is all of it because there is no second one, and a user
who is released from a rule is routed nowhere because no rule is left empty,
which would match everybody. `Current` is what `Sound` lacks of the two
properties: that rules and statistics name nobody else. It is no invariant of the code,
since a template that drops an inbound spoils it (see above), so the theorems
that need it say so (`TemplatesOnlyGrow`). A lemma per operation (`CreateKeeps`,
`SetKeeps`, ...) shows that it keeps `Sound`, keeps `Current`, and leaves the
credentials of all users but the deleted one as they were; the action properties
follow from what the operations do to routes.

The lemmas about the operators are in `NodeConfig_proofs`. Those on filtered
lists (`WithoutFilters`, `WithoutEmbeds`) say that what is left are the
elements that were not dropped, each at a place that increases with its old
one; `Routes` and `AppendedTarget` make statements about the first match of it. `Recursion`
says that a recursive function over `0 .. n` exists and satisfies its equation,
and `Induction` is stated over a set of numbers, where the library's theorem takes
an operator.

`PortRollout_proofs`, for any keys, inbounds, ports, busy sockets and users and
any number of rollouts and any requested texts (`EnvAssumption`: the installer
left valid ports, none shared and none in use, and bash has more numbers than
there are ports; `NoConfigAssumption`: an unreadable file is no configuration):

| Theorem | Says |
| --- | --- |
| `Invariance` | `Spec => []IInv` |
| `TypeCorrect`, `SocketsStayApart` | `TypeOK`, `NoSharedSocket` always hold |
| `AppliedPortsAreServed`, `RestoredPortsAreServed` | `AppliedIsServed`, `RestoredIsServed` always hold |
| `NoUserLost` | `AnsweredUsersStay` always holds |

`UniqueInv` carries the check of `port_require_unique_config` into plan, file
and backup, through copies that lose lines. `UniqueIsApart` shows that comparing
each key under one transport, with Shadowsocks once more, keeps equal texts from
sharing a socket, and `OneSpelling` that texts of one number without a
difference in leading zeros are equal.
`AppliedInv` and `RestoredInv` grow
by one conjunct per command: what has been put in place so far on the way out
and, while no command of the restore failed, on the way back. Both rest on
`WritersInv`: until one of the two writers of `config.json` writes over the
other's work, each writes back the users it has read. `RestoredInv` also says
that a request which survives the restore is not one the backup has caught half
way, since the API's container was recreated in between.

`NodeUpdate_proofs`, for any users and any number of releases and updates
(`UpdateAssumption`: there is a release; `NoConfigAssumption` as above):

| Theorem | Says |
| --- | --- |
| `Invariance` | `Spec => []IInv` |
| `TypeCorrect` | `TypeOK` always holds |
| `CompleteIsDeployed`, `RollbackRestores` | `UpdatedIsDeployed`, `RestoredIsDeployed` always hold |
| `NoUserLost` | `AnsweredUsersStay` always holds |

The same shape: `ForwardInv` and `RollbackInv` say command by command what is
deployed, `WritersInv` and `UsersInv` what the two writers hold. A request that
fails takes back its own user only, who was not among those answered for when
the update began; so what `KeepsDeployed` says of a file (the template and the
users of that moment) survives its rollback. `MemoryInv` ties
what the script notes on its way (commit, images, `.env.local`, the backup of
the configuration) to the deployment it found; since it holds throughout the
rollback as well, a rollback that starts over, as one in a trapped subshell
makes it do, still goes back to the same deployment.

`NodeSettings_proofs`, for any labels and access settings, whatever compose
makes of a label, and any number of calls, writes and deaths
(`SettingsAssumption`: compose reads the default label as it is):

| Theorem | Says |
| --- | --- |
| `Invariance` | `Spec => []IInv` |
| `TypeCorrect` | `TypeOK` always holds |
| `LinesAreKept` | `SettingsKept` always holds |
| `StrangersStayOutside` | `StrangersLearnNothing` always holds |

`KeptInv` adds to `SettingsKept` what the API has read while it rewrites the
file: the lines of the others, as they are. `ModeInv` says that a process which
serves has read whole settings; the rest of `StrangersStayOutside` is a case
analysis of `Answer` (`StrangersAreHidden` and the lemmas after it).

The proofs changed two definitions. `AnsweredUsersStay` of `PortRollout` was too
weak to be kept by a step and now speaks about every state; `RouteAnswer` of
`NodeSettings` had cases that overlapped, between which TLA+ leaves the choice
open; the program looks for the route first and answers 404 without one.

Only model-checked, since fairness and ENABLED are beyond TLAPS's backends: the
liveness properties `EveryRequestAnswered`, `EventuallyCounted`,
`EventuallyPersisted` and `EveryReloadEnds`. The three runs that expect a
violation have nothing to prove.

## What is not modelled

The list with reasons is `components` in `PROJECT.json`. In short: telemetry, URL
and log formatting, the installer and the diagnostics scripts. Reads (`GET`) are
modelled only where a property speaks of what they report. `Restarts` of
`ConfigMutation` takes Docker's word that a container runs the file it was
started with; `ContainerRuntime` shows what that word is worth.

## Plan

1. Done: `AtomicNode`, `ConfigMutation`, `NodeConfig`, `ConfigService`,
   `TrafficTracker`, `PortRollout`, `NodeUpdate`, `ContainerRuntime` and
   `NodeSettings`, each with the proofs of its safety properties.
2. Proofs across modules: `ConfigMutation` with `ConfigService`'s calls for its
   operations and the sound configurations for its configurations, so that file,
   backups and container hold sound ones under every interleaving.
3. `NodeSystem`: deletion, commit and tracker composed: the lifetime of a
   deleted user's record (`traffic_tracker.py:255`), and a lower bound on totals
   (`traffic_tracker.py:303`).
4. The rollout killed half way (`ports.sh:216`), with the next one as recovery.
