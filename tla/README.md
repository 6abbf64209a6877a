# A formal model of garm-provider-truenas

`garm-provider-truenas` is an external provider for GARM (the GitHub Actions
Runner Manager).  GARM starts it once per command; it talks to the TrueNAS
middleware and exits.  The hard part is therefore not in any one process but in
what happens between the middleware calls of several of them: nothing is locked,
nothing is remembered between commands, replies get lost, processes get killed,
the container runtime and operators act at any time, and a deletion is decided
on what an earlier call returned.

This directory holds TLA+ modules for that behaviour, TLC runs that check them
on small instances, and TLAPS proofs of the most important results for all
instances.

## The system

| Component | Source | State | Operations | Modelled |
| --- | --- | --- | --- | --- |
| Apps lifecycle manager | `internal/provider/provider.go` | none of its own | Create, Get, List, Delete, Start, Stop, RemoveAll | `Apps`, `OwnedName` |
| TrueNAS Apps store | `internal/truenasstore/store.go`, `host_gateway.go` | gateway policy of the configuration | CreateApp, GetApp, ListApps, DeleteApp over the middleware's `app.*` | `Apps`, `ComposePayload` |
| GARM front end | `cmd/garm-provider-truenas/garm_provider.go` | one command | the seven commands, error normalisation, bootstrap contract | `Apps` (control), `ProviderConfig`, `CreatePath` |
| vm-v1 backend | `internal/vmbackend/manager.go` | none of its own | Create, ReconcileBootstrap, Get, List, Stop, Start, Delete, RemoveAll over `Client` | `VMBackend` |
| container-v1 backend | `internal/containerbackend/manager.go`, `bootstrap.go` | none of its own | Create with cleanupFailedCreate, Get, List, Stop, Start, Delete, RemoveAll | `ContainerBackend` |
| Runner bootstrap script | `internal/truenasstore/bootstrap.go` | files, child process, traps | download, JIT fetch, run, report | `RunnerBootstrap` |
| Mock store | `internal/mockstore/mockstore.go` | a JSON file | the store operations under an in-process mutex | `MockStore` |
| Names | `provider.go`, both other managers | none | ownedName, sanitize, the listing's name filter | `OwnedName` |
| Compose payload | `store.go`, `host_gateway.go` | what is written on the app | composeConfig, applyCallbackHostGateway, decodeApp and its checks | `ComposePayload` |
| Configuration, pool validation | `garm_provider.go`, `runner_tool.go` | none | loadConfig, validateConfig, manager, ValidatePoolInfo, validateBootstrapContract | `ProviderConfig` |
| Runtime backend catalog | `internal/truenasstore/runtime_backend_catalog.go` | an embedded table | Resolve, Admitted | `ProviderConfig` (status column) |
| Command line, environment | `main.go`, `scaleset_lifecycle_env.go` | none | start one command | no, see below |
| Fixture exporters, CI | `*_export_test.go`, `.github/` | — | — | no: not the program |

How they interact.  GARM → front end → `provider.Manager` → `truenasstore.Store`
→ middleware, all in one process per command; processes share only the
middleware's tables.  The vm and container managers have the same shape over a
`Client` interface that has no implementation in the repository yet; they are
not reachable from the front end (`validateConfig` admits the Apps backend only),
and are modelled against the interface and what their code expects of it.

What makes each component correct:

* **Apps.** A process removes only apps of its own controller, and only finished
  ones; a successful retirement or listing tells the truth about what stood still
  meanwhile; what a refused creation has made does not read as its own; every
  command returns.
* **VM.** As above, and: a VM is started once, with its seed staged and attached,
  never after it has run; the seed stays while the VM runs and is gone when the
  VM is.
* **Container.** As above, and: the persisted bootstrap init is replaced after the
  start, the token file is gone when Create succeeds, a failed Create cleans up.
* **Bootstrap script.** It runs a runner only from a verified tree; however it ends
  it leaves no credentials and does not abandon its runner; what GARM is told is
  true; it ends.
* **Mock store.** The file is whole, and a saved change stays, as far as a mutex
  per process can see to it.
* **Names, payload, configuration.** Two identities do not get one name; what is
  written is recognized, and nothing else is; what one layer accepts the next
  does not refuse.

The hazards, at their lines, are listed in `PROJECT.json`.

## Modules

| Module | What it is |
| --- | --- |
| `Apps` | front end, manager and store of the Apps backend, the app table, the host |
| `AppsProofs`, `AppsAnswersProofs`, `AppsRefinementProofs` | TLAPS proofs about `Apps`: who removes what, what answers say, that it implements `AppsPromise`; each extends the one before |
| `MCApps` | names and policies of small instances of `Apps` |
| `AppsPromise` | what the Apps backend promises, without middleware calls; `Apps` implements it |
| `VMBackend`, `MCVM` | the vm-v1 backend, its instances |
| `ContainerBackend`, `MCContainer` | the container-v1 backend, its instances |
| `GuestPromise` | what both promise, without middleware calls; `VMBackend` and `ContainerBackend` implement it |
| `RunnerBootstrap` | the shell script, its runner, the documents it leaves, what GARM hears |
| `MockStore` | provider processes on one state file |
| `OwnedName` | names, as functions on sequences of characters |
| `ComposePayload` | extends `OwnedName`: an app's payload, written and read back |
| `ProviderConfig` | extends `ComposePayload`: configuration, pools, bootstrap parameters |
| `CreatePath` | extends `ProviderConfig`: all the checks of one Create, and edits of what it leaves |
| `VMProofs`, `ContainerProofs`, `RunnerBootstrapProofs`, `MockStoreProofs`, `CreatePathProofs` | TLAPS proofs about the module of that name |

### Granularity

One action of a process is **one middleware call with all the local code up to
the next call**.  Another process, the runtime or an operator can act between two
calls and nowhere else, and a crash in the middle of local code cannot be told
from one before the next call.  `pc[p]` names the next call, `req[p]` the command
the process serves.  A process returns to `"idle"` when it answers; `"idle"` slots
are taken by new processes, so `Proc` bounds how many run at the same time.

A call that changes something has three outcomes: it takes effect and is
answered; it takes effect and the answer is lost (the second disjunct of
`CreateApp`, `DeleteApp`, `RemoveApp`, and `Effect` in the other modules); it fails
without effect (`FailCall`, which also is the process being killed and a
connection that cannot be made).

### `Apps`

| Definition | Code |
| --- | --- |
| `Garm`, `Invoke`, `InvokeInvalidCreate` | the commands; a bootstrap that is refused before any call |
| `CreateLooksUp`, `CreateApp`, `CreateConfirms` | `Manager.Create` and `Store.CreateApp` with the read-back |
| `Get`, `Stop`, `Start` | the same methods; `Stop` only confirms, `Start` always refuses |
| `DeleteChecks`, `DeleteApp` | `Manager.Delete` |
| `ListApps`, `FetchApp`, `Listed` | `Store.ListApps`, then what List or RemoveAll does with it |
| `RemoveApp` | the loop of `Manager.RemoveAll` |
| `decodeApp`, `GetApp`, `verifyOwnership`, `mapState`, `isActive`, `normalizeProviderError` | the functions of those names |
| `StateChanges`, `OperatorEdits`, `OperatorDeletes`, `TenantCreates` | the host (external) |

An app is a record: who made it (`made`, a history field: the call's number),
the controller and pool it was labelled with, whether its payload is the fixed
profile, an altered one, unreadable, without the managed label, or relabelled to a
controller that is none of GARM's, whether it carries the gateway entry, and the
state the middleware reports.  Labels are written raw and trimmed when they are
read: `Owner` and `PoolOf` are what is read, and an identity in `Padded`, one with
blanks around it, is not brought back.  An operator edits a payload in any of these
ways and moves an app to another pool; that one hands an app to *another controller
of GARM* is left out, because then no process could tell that it is not its own.  `stable[q]` is a history
variable: the apps that were there when the command of `q` began and that nobody
created, edited or removed since; it lets the properties say what an answer may
be held to.

Names are numbers (the list is sorted).  `OwnedName` stands for
`provider.ownedName`; `NamesAssumption` says that no name is derived by two
controllers and that other users keep away from derived names.  The code does not
guarantee the first in general — it cuts the controller to 12 characters and a
long name's digest to 4 bytes — so it stays an assumption about the deployment, on
which `ForeignNeverDestroyed` rests.  `CreatePath` (`NamesApart`) says when it
holds: controllers whose sanitized identities have one length, as UUIDs do, and
differ in their first 12 characters.

`Overlap = FALSE` is the capacity-one deployment, the only one the repository's
README calls qualified: GARM runs at most one mutating command of a controller at
a time.  `HostEvents` says which things an operator does.

### `AppsPromise`

The abstract specification has a table of workloads (owner, finished or not), the
command of each process, and whether its last answer was "ok".  Making, retiring
and attesting a workload are single steps.  "ok" is said only if the command's aim
holds at that moment (`Achieved`); a workload is removed only by a command of its
owner; with `FinishedOnly`, only once it has finished.  An error promises nothing:
the code may answer "error" when all was done (a lost reply).

`Apps!KeepsPromise` is `AppsPromise!Spec` under this mapping: an app is a workload
of its controller label, finished if its state is `STOPPED` or `CRASHED`; a
process that is not idle has its request as its job; `answer` is whether the last
code is `ok`.  `FinishedOnly` is `CapacityOne`, so the promise is the strong one
exactly where the repository makes it; `Restartable` and `Removable` are what the
operator of the instance does.  The middleware calls between the first and the
last of a command map to stutters.

### `VMBackend` and `ContainerBackend`

The same shape over the `Client` interfaces.  A VM or container is a record with
the facts the checks look at (`fixed`, `seed`, `steady`, …) and history (`started`).
Ids are never reused, call `n` creates object `n + 1`.  Left out: pool identities
(they only narrow adoption and listing further), the read-only calls
SystemVersion, ResolveTemplate and ResolveImage (they refuse, which is `FailCall`
with an error or with managed drift, or change nothing), and the contents of seeds
and files.  The ownership description is two fields: the controller it names, by
which List goes, and whether it names the schema and the profile too, on which
whoever acts insists (`owner`).

In `VMBackend`, `vm.device.delete` refuses an active VM, as the comment in
`ReconcileBootstrap` says, and `vm.delete` powers a running VM off.  In
`ContainerBackend`, `container.update` may be answered and not be done: that is
what the read-back of Create defends against (and what
`TestCreateCleansUpWhenScrubCannotBeProven` simulates); the init wrapper removes
the token file at a time of its own.  Files are addressed by a path made of the
container's name and everything else by its id: `AtPath` is what bears the name now,
so that a Create whose container was removed writes into the next one.  Nobody but
Create starts a container or rewrites its description there.

### `GuestPromise`

`AppsPromise` for workloads that have an id, are made stopped and are started once.
A workload is `made`, `active` or `finished`.  Create makes one under a free name
(`Create`), starts it while it is still `made` (`Start`), and looks at it (`Attest`);
Stop and a Create that gives up end what is active (`Halt`); Delete, RemoveAll and
such a Create remove (`Retire`); each only for the controller that owns it, by the id
the command names or has made, and each in one step.  "ok" is said only if the aim
holds (`Achieved`) or, for a Create whose last check is of something else, if it held
when the workload was last looked at (`seen`).  A Create that removes its workload
ends in an error.

`KeepsPromise` in both backends is `GuestPromise!Spec` under a mapping of the same
form: `WorkloadOf` an object (`active` if its state is not `STOPPED`, else `finished` if
it has ever run), `JobOf` a process (its request, and the object it has in hand).  The
constants say in what the two differ.  `FinishedOnly` is `Alone` for VMs and `TRUE` for
containers, whose bootstrap init keeps other commands away; `Restartable` is what an
operator may do to a VM, and `FALSE` for containers, so that a container is started
by the Create that made it and by nobody else; `Removable` is whether the operator
deletes.  Staging, scrubbing, attaching, detaching and all read-backs are stutters,
except that the read-back of a container before the token check is an `Attest`, and
so is a Create that gives up after it.

### `RunnerBootstrap`

One action per foreground command of the script, because the shell takes a trapped
signal between two commands, after the one that was running.

| Definition | Code |
| --- | --- |
| `PrestagedRunnerMatches` | the choice between the image's own tree and a download |
| `PostJson` | `post_status`, `post_json` with its attempts; what follows a post that was answered or never was |
| `DownloadRunner`, `VerifyArchive`, `ExtractRunner`, `CheckRunner` | `download_runner` and the checks of the tree |
| `FetchMetadata`, `KeepDocument`, `LinkDocuments` | `fetch_metadata`, three times, and the links |
| `StartRunner`, `NotePid`, `Ready`, `Serve`, `Reap` | `./run.sh &`, `runner_pid=$!`, the ready delay, the waits |
| `CleanupCredentials` | the EXIT trap |
| `LocalCommandFails`, `Signal`, `SignalInTrap`, `Kill`, `RunnerEnds`, `LatePost`, `Restart` | `set -e`; INT, TERM, HUP, also while the EXIT trap runs; KILL; the rest is external |

`pidOne` tells an app, where the script is the init and all ends with it, from a
container or a VM, where it is a child and a runner can outlive it.  A post may
arrive although curl has given it up, at once or later (`late`); GARM takes the
token until the runner is idle (`docs/architecture.md:88`).  `why` is a history of
what befell the script: the properties name the exits that may be silent, and TLC
shows there are no others.  The run reaches, and no property hides, five facts
that the code's documentation does not speak about: a signal between the fork and
the assignment of `runner_pid` leaves a runner behind where the script is not the
init; a signal that strikes when the shell has disarmed the EXIT trap, and before
the trap's `rm`, ends the script without a clean-up; a `mv` that fails inside
`fetch_metadata` or `download_runner` goes unnoticed, because `set -e` is off in a
function whose result is tested, so a document stays under its `.tmp` name (`stuck`)
and the runner is started all the same; a local command that fails under `set -e`
elsewhere ends the script unreported; and when the answer to the idle post is lost,
GARM counts on a runner the script then kills.

### `MockStore`

Each step is one file-system call of `load` or `save`: open (create or truncate) the
temporary file, write it, rename it.  Inodes are modelled, because a file that is
open keeps its contents when its name goes to another.  `raced` is set when a
process loads while another is about to save, `torn` when two have had the
temporary file open at once; `ledger` is the table as it were if every saved
change had been made to it.  So `NoLostUpdate` and `FileWhole` say that these two
overlaps are the *only* ways to lose an update or the file — kills and failing
calls at any step are not.

### `OwnedName`, `ComposePayload`, `ProviderConfig`, `CreatePath`

Three modules of pure functions, one for each kind of check, and a state machine
that puts them in the order in which a command meets them: `Load` (a configuration
file and an API key), `ValidatePool`, `CreateInstance`, and then `EditPayload`,
somebody else's edits of the app's payload.

* *Names* are sequences over a small alphabet with scaled lengths (`garm-` is `g-`,
  12 is `ControllerMax`, 40 `NameMax`, 48 `PrefixMax`; `LengthsAssumption` keeps the
  proportions).  A digest is ideal: it is the digested text, beside the readable
  part, so collisions of SHA-256, whole or cut to 4 bytes, are left out.
* *A payload* is the parsed document: its top-level keys, and of the service each
  fixed key, label, variable and `extra_hosts`.  Whether middleware returned it as an object or as text, and in
  which YAML form, makes no difference once it is parsed; what does not parse is
  one unreadable payload.
* *Configurations, pools and bootstraps* have one value for each case the code
  tells apart (blank, absent, out of range, another one, the right one); among the
  URLs is one whose host part is a port only, which the front end lets through and
  the gateway policy refuses.  `Refusal` names the check that refuses a Create, up to
  the read-back of the new app (`verifyOwnership` in `ComposePayload`).
* *The catalog* is the embedded matrix's status column.

## Runs

Every run sets `CHECK_DEADLOCK FALSE`: the number of commands is bounded by
`MaxCalls`, and when they are used up and nothing runs, the model may stop; a
script ends; a Create is one command.

| Run | Instance | Checks |
| --- | --- | --- |
| `apps_overlap` | 2 processes, 2 controllers, 3 names, 2 commands, overlapping; an operator starts apps | `ForeignNeverDestroyed`, `RetirementComplete`, `ListComplete`, `KeepsPromise` |
| `apps_capacity_one` | 2 processes, 2 controllers, 2 commands, unknown states, tenants; an operator deletes; no overlap, no restart by hand | `ActiveNeverDestroyed`, `KeepsPromise` (here with `FinishedOnly`) |
| `apps_answers` | 1 process, 2 pools, 3 commands of every kind; edited and relabelled apps, a pool with blanks around it, changed policy; `FairSpec` | `TypeOK`, `RefusedCreateOwnsNothing`, `EveryCallReturns`, `KeepsPromise` |
| `apps_stale_sweep` | 1 process, RemoveAll, an operator who starts apps | violates `ActiveNeverDestroyed` |
| `vm_capacity_one` | 2 processes, 3 commands of every kind, VMs of others; no overlap; operator edits and deletes | `TypeOK`, `OnlyOwnVMsTargeted`, `SeedOutlivesRun`, `StartsFreshWithSeed`, `ActiveNeverDeleted`, `KeepsPromise` |
| `vm_adoption` | 1 process, 2 Creates | violates `CreatedWasStarted` |
| `vm_residue` | 1 process, Create and Delete | violates `DeletedLeavesNoSeed` |
| `container_overlap` | 2 processes, 2 controllers, every command, overlapping; operator edits and deletes | `TypeOK`, `OnlyOwnContainersTargeted`, `SteadyWasStarted`, `ActiveNeverDeleted`, `CompletedCreateScrubbed`, `KeepsPromise` |
| `container_adoption` | 1 process, 2 Creates | violates `CreatedHasNoToken` |
| `runner_bootstrap` | 2 attempts, 3 documents, as init and as a child, one restart; `FairSpec` | `TypeOK`, `StartedFromVerifiedTree`, `NothingLeftBehind`, `NoOrphan`, `FailureReported`, `IdleTruthful`, `NoSecondRunner`, `ScriptSettles` |
| `mock_store` | 2 processes, 2 names, 4 operations, kills and failures at every call | `TypeOK`, `FileWhole`, `NoLostUpdate` |
| `create_path` | identities of up to 3 and 4 characters, every configuration, every pool, two edits | `AcceptedConfigWorks`, `ContractIsEnough`, `ValidatedPoolIsServed`, `NamesApart`, `FindsItsOwn`, `ReadsItsOwn`, `AcceptedServiceIsFixed` |

Each passing run has between 210,000 and 440,000 distinct states.

**Bounds.**  *Apps, VMs, containers.*  Two processes are enough for a race on one
name; the app table starts with any mix of earlier apps, so two overlapping
commands meet what a third has left.  Two controllers give a foreigner, two names
of one controller and one of the other give the sweeps something to pass over;
unmanaged apps stand under a tenant's name that looks like a derived one, and at
the start also under derived names.  Both controllers have the same gateway
policy wherever ownership is at stake, because apps made under another policy are
refused before their owner is looked at; in `apps_answers` the host may hold apps
made before the policy changed.  The Apps results that matter most do not depend
on bounds: they are proved.  In `vm_capacity_one` the third command lets an
interrupted Create be retried and retired; the operator does not start VMs,
because one started by hand has no seed and would be no fault of the provider's.
In `container_overlap` processes and controllers are interchangeable (`MCSymmetry`),
and a container that is not an earlier runner has stopped, which is when one could be
removed by mistake.  In this run, `apps_overlap` and `apps_capacity_one` states that
differ in an earlier answer only are explored once (`MCView`): no step reads `reply`,
and the properties look at the answer a step gives (`TypeOK` of the containers at its
type, which is part of the view).

*Bootstrap.*  Two attempts tell the first from the last; more repeat them.  A second
restart meets what the first one met.

*Mock store.*  Two processes, of which each can be killed with its temporary file
and be followed by another; four operations let a change be made, lost, and
missed.

*Create path.*  The lengths are such that every cut happens: controllers longer
than `ControllerMax`, names longer than `NameMax`, guest names longer than
`PrefixMax`; the characters are two that are kept, one that becomes a dash, and the
blank.  Bootstraps have one thing wrong at a time (both URLs together), and are
tried with every pool; identities and edits are tried with one pool (`FixedPool`),
edits with one identity: the functions that read the one do not read the other.
Two edits of one payload can mend each other (a label and its `extra_hosts`).
`NamesApart` compares the name just made with those of all other identities.

**Fairness.**  `Apps!FairSpec` is used for `EveryCallReturns` only.  It assumes that a
process whose next call is possible takes it: the client waits for the answer of
each call and the middleware answers.  Nothing is assumed about GARM, the host or
failures.  The property then says that the loops over listings that others change
all the time end.

`RunnerBootstrap!FairSpec` is used for `ScriptSettles`: every command of the script
ends (curl has `--max-time`, the others are local), and a runner that was sent
TERM ends.  Signals, the arrival of a job and its end are not fair; the property
assumes that signals cease, since each sends the script back to a wait.

### What the violations show

* `apps_stale_sweep`: RemoveAll lists, then deletes by name; an app started again
  in between is deleted while it runs, although `docs/architecture.md` asks for
  revalidation "immediately before `app.delete`".  `restart` is `no`, so it takes an
  operator; with none, and without overlapping commands, `ActiveSafe` is a theorem.
* `vm_adoption`: Create adopts a VM that an interrupted Create cloned and never
  started, and answers ok.
* `vm_residue`: once the seed is not attached any more (or not yet), nothing
  remembers its dataset, and Delete answers ok without removing it.
* `container_adoption`: Create adopts a container whose init has been scrubbed
  without the token check the interrupted Create did not get to.

`container_overlap` needs no capacity-one assumption: a container that Create is
about to start still has its bootstrap init, which `findOwned` refuses, so no
Delete can overtake it (the mutant that drops this part of the check loses
`ActiveNeverDeleted`).  The VM backend has no such mark, and there the property is
only checked without overlap.  The price is that a container whose Create was
killed is refused by every command and fails List and RemoveAll until an operator
removes it; this is deliberate (fail closed), and in the model.

## Proofs

Each theorem holds for every value of the constants that the named assumptions of
its module allow.  Proof modules extend the module they are about; one component
has three.

| Module | Theorem | Statement |
| --- | --- | --- |
| `AppsProofs` | `TypeCorrect` | `Spec => []TypeOK` |
| | `ForeignSafe` | `Spec => ForeignNeverDestroyed` |
| | `ActiveSafe` | `CapacityOne => (Spec => ActiveNeverDestroyed)` |
| `AppsAnswersProofs` | `RefusalOwnsNothing` | `Spec => RefusedCreateOwnsNothing` |
| | `ListTellsAll` | `Spec => ListComplete` |
| | `RetiresAll` | `Spec => RetirementComplete` |
| `AppsRefinementProofs` | `Implements` | `Spec => KeepsPromise`: `Apps` implements `AppsPromise` |
| `VMProofs` | `TypeCorrect`, `TargetsOnlyOwn` | `Spec => []TypeOK`, `[]OnlyOwnVMsTargeted` |
| | `Implements` | `Spec => KeepsPromise`: `VMBackend` implements `GuestPromise` |
| | `KeepsSeed`, `StartsOnce`, `DeletesOnlyStopped` | `Alone => (Spec => []SeedOutlivesRun)`, `StartsFreshWithSeed`, `ActiveNeverDeleted` |
| `ContainerProofs` | `TypeCorrect`, `TargetsOnlyOwn`, `ScrubsAfterStart` | `Spec => []TypeOK`, `[]OnlyOwnContainersTargeted`, `[]SteadyWasStarted` |
| | `DeletesOnlyStopped`, `CompletesScrubbed` | `Spec => ActiveNeverDeleted`, `CompletedCreateScrubbed` |
| | `Implements` | `Spec => KeepsPromise`: `ContainerBackend` implements `GuestPromise` |
| `RunnerBootstrapProofs` | `TypeCorrect`, `RunsFromVerifiedTree`, `LeavesNothingBehind`, `LeavesNoOrphan`, `ReportsFailure`, `IdleIsTrue`, `StartsNoSecondRunner` | all seven invariants of the run |
| `MockStoreProofs` | `TypeCorrect`, `FileStaysWhole`, `LosesNoUpdate` | all three invariants of the run |
| `CreatePathProofs` | `ActsOnItsConfig`, `ContractSuffices`, `ServesItsPools`, `ReadsBackItsOwn`, `AcceptsOnlyFixed` | `Spec => []AcceptedConfigWorks`, `[]ContractIsEnough`, `[]ValidatedPoolIsServed`, `[]ReadsItsOwn`, `[]AcceptedServiceIsFixed` |
| | `TellsApart`, `NeverOutOfSight` | `Spec => []NamesApart`, `[]FindsItsOwn` |

**Assumptions.**  `NamesAssumption` (no name is derived by two controllers) is the one
about the deployment; see `Apps` above.  The others say that constants have their
types, that commands are those the code has, and that the value `None` is none of
the values it must be told from (`NoneAssumption`; objects, and the workloads and jobs
of the refinement mappings).  TLC evaluates all of them.  Two
hypotheses stand in the theorems themselves: `CapacityOne` and `Alone` both mean
that a controller's mutating commands do not overlap (`~Overlap`) and that nobody
starts what has stopped by hand.  They are needed: `apps_stale_sweep` is the
counterexample without them.

### `AppsProofs`

*`TypeCorrect`.*  `TypeOK` is inductive because it has two halves: the types, and
`Dispatched`, which ties each call to the command it is for.  Without the second
half a step could reach app.create with the (absent) name of a List.

*`ForeignSafe`.*  That an app is foreign at the moment it is removed is not
visible in the state; the invariant `Ownership` carries it over the gap between
check and deletion.  `Placed`: an app with a controller label bears a name that
controller derives.  `OwnTargets`: whatever a process is about to delete is gone,
or labelled with its controller.  The step that could break it is somebody
else's creation under the name just checked: by `Placed` and `NamesAssumption`
the name belongs to the process's own controller, so the new app does, too.

*`ActiveSafe`.*  `Activity` has two parts: `Exclusion`, at most one process of a
controller serves a mutating command; and `DoneTargets`, what a process is about
to delete is gone or finished.  A finished app stays finished because nothing but
a new creation under its name makes it active again, and that would be a second
mutating command of the same controller.

The lemmas under them say, for each action, what it can change: `AppChanges` lists
all the ways an app's record can change in a step and is used by every proof that
follows.

### `AppsAnswersProofs`

What an answer says is about the past, so its proof is about what a process has
gathered.  The invariant `History` has three parts.  `Numbered`: commands that are
served at the same time have different numbers and no app is ahead of them, so
that `made` identifies the command.  `Marked(p)`: an app that `p`'s own Create has
made exists only while that Create is about to confirm it.  A typed refusal
therefore comes before the app, or from its read-back; and of the errors the
read-back has, only "not found" and "foreign" are typed for GARM, so that the app is
gone or its labels name somebody else (`RefusalOwnsNothing`).
`Gathered(p)`: every app that stood untouched since `p` began and that belongs to it
is still to be fetched, or fetched, or (in a sweep) still to be removed, or known
to be active, and that makes the answer an error.  The last part
survives the loops because each iteration moves one name from one of these sets
to the next.

### `AppsRefinementProofs`

`Spec => KeepsPromise` is an implication between two state machines: initial states
map to initial states (`PromiseInit`), and each step to a step of `AppsPromise` or to
a stutter (`PromiseStep`).  The stutters are the middleware calls that change no
app and answer nothing (`EditUnseen` for an edited payload).  The steps that make,
retire and answer are lemmas of their own; `IsAnswer` is the hard one: "ok" is said
only if the command's aim holds *now*, which for Create and Delete is the
read-back, and for RemoveAll and List what they saw of apps that still stand.  They
use `TypeOK`, `Ownership` (a workload is removed only by its owner) and, where the
promise is the strong one, `Activity`.

### `VMProofs` and `ContainerProofs`

Ids are never reused, so all facts are about the object a process has in hand,
`cur[p]`.  Common to both: `Local(p)` (which command is at which call), `Unmade(p)`
(the object a Create is about to make does not exist, so nobody else has it in
hand) and `Mine(p)` (what a process acts on is its controller's, the generalisation
of `OnlyOwn…Targeted` to all calls).

*VM.*  `Steady(p)` says how far the VM in hand is: new until it is started, with its
seed once that is attached, stopped as long as it is taken apart.  Each of its
clauses could be undone by another command of the controller, which `OneMutator`
excludes under `Alone`; controllers cannot undo each other's by `Mine`.

*Container.*  `Progress(p)` is the same without a hypothesis: a container is not
scrubbed before it was started, and is scrubbed once that was read back; and no
other process can take it in hand meanwhile, because `findOwned` refuses it until
then.  So the deletion of stopped containers only, and the removal of the token,
hold under any overlap.

*`Implements`, in both.*  What a step of `GuestPromise` demands of the state before it
is more than the safety properties say, so the invariant grows: `Traced` adds `Ran`
(what is active has been started) and `Tracked(p)`.  The latter says that what is in
hand is the object the command names, or the one it has made, under the name it was
to have; that it has not run before its Create starts it; that `Stop` verifies an
object of its own; and, of a container, that a Create cleaning up has an error to end
with.  The view (`workload`, `job`, `answer`) then gets one lemma for each promise:
`IsBegin`, `IsRefuse`, `IsCreate`, `IsStart`, `IsHalt`, `IsRetire`, `IsAnswer`,
`IsHost`, and for containers `IsAttest`; `ProviderPromised` sorts the actions into
these and the stutters, and `PromiseStep` puts them together.  `Achieves` is what makes
"ok" honest: it is said of the state in which it is said, not of the one in which a
check ran.  No hypothesis is needed: under overlap the promise is still that a VM is
started once and removed for its owner only; it is `FinishedOnly` that
depends on `Alone`.

### `RunnerBootstrapProofs`

The invariants to be shown are about the end of the script, so the inductive ones
are about the way there: `Staged` (what the disk holds at each command of the
preparation; the documents it counts are those in place and those that `mv` has left
behind, `Kept`), `Leftover` (half-made files date from before the runner),
`Supervised` (where there is a runner and where the script knows of it),
`Explained` (a script on its way out has a reason that GARM or the history knows),
`FirstRun` (what GARM has heard, or may still hear from posts that arrive late) and
`Spent` (a restart after the idle post does not pass its first post).  A signal may
strike between any two commands; it is one action, and the reason why every part
has to hold at every command and not only at the ends.

### `MockStoreProofs`

`OneWriter`: as long as no two processes have had the temporary file open at once,
the one that has it open has the file that bears the name.  `OneSaver`: as long as
nobody loaded while another was about to save, the one that saves has loaded what
is in the file.  `Supply`, a counting argument with the cardinality theorems of the
library, says that there is always an inode left to create, which the bound on the
number of operations must not hide.

### `CreatePathProofs`

`AcceptsOnlyFixed` rests on two lemmas.  `ReadsBack`: any document that the checks of
`decodeApp` and of the gateway policy accept is, with its labels trimmed, the one
`composeConfig` and `applyCallbackHostGateway` write for the specification it is
decoded to, and for the token it holds; this is the completeness of the read-back of
the one service, label by label and key by key, for values of any kind.  The other
keys of the document are set aside in the statement, because the code sets them
aside.  `EditedDocument`: whatever is edited, a payload keeps
its fields.  So the number of edits does not matter.  The converse,
`ReadsBackItsOwn`, is `WritesReadably` and the invariant `Fresh`: an app nobody has
edited is what CreateApp wrote for a Create that passed the checks.
`ContractSuffices` follows from the two lists of checks (`InnerChecks`), from the
type of what is written, and from `ReadBackChecks`: the last check, of the app read
back, fails only for blanks around the controller or the pool.  The configurations
and pools are by cases.

*Names* (`TellsApart`, `NeverOutOfSight`).  What `sanitize` makes of a string of any
length is needed only so far: it consists of letters, digits and single dashes, and
neither begins nor ends with a dash (`DashedType`, `TrimKeeps`, `SanitizeType`).
`Dashed` is a recursive function, and the induction over its argument is made by hand:
if some prefix had another result, a shortest one would (`LeastNatural`), and the step
from the one before it shows it has not.  `Findable` then follows the cuts: whichever of
the two forms a name has, there is something before and something behind the dash
that the filter looks for.  For `NamesApart`, `SplitAlike` takes two equal names apart
at the same place if the parts in front have one length; a name that was cut is known
by its digest (`AppsApart`, `GuestsApart`).  So "at any length" has a proviso: the
model's digest is injective, the code's name keeps 32 bits of it.  The invariant `Named` ties the app on the
host to the identity that was checked, and says that both parts of its name are not
empty.

### What the proofs changed in the model

Overlapping guards of a `CASE` (in `decodeApp`, `Stop` and the VM's Create) left
open which branch is taken, where TLC takes the first: a proof cannot be had of
such a choice.  The guards are now exclusive, as the code's `if` chains are.

`Dashed` was a fold over the characters.  As a recursive function over the length of
the prefix it is the loop of the code, and can be proved about.  `FindsItsOwn` was
stated of unedited apps and of identities without blanks around them; the proof needed
neither, and both are gone.  It did need two facts that the `.cfg` had given TLC and no
assumption named: that `NameMax` is a number, and that the identity `CreatePath` tries
with every pool is one of those it tries.

### Only model-checked

* `EveryCallReturns` and `ScriptSettles`: liveness under fairness, which is out of the
  provers' reach.
* The four runs that end in a violation are counterexamples, found by TLC.

Every invariant and every action property of a passing run, and each refinement, is a
theorem.

## Limits

Every component that keeps state is modelled.  What the results do not say:

1. `ActiveNeverDeleted` of the VM backend, and `FinishedOnly` of both promises for apps
   and VMs, hold in the capacity-one deployment only; without it they are false, as
   `apps_stale_sweep` shows for apps.
2. An adopting Create answers ok for whatever steady object bears the name
   (`vm_adoption`, `container_adoption`): `GuestPromise` says of it no more than that
   the object exists, is the controller's and has that name.
3. `ForeignNeverDestroyed` and the promises hold as long as nobody rewrites an app's
   labels to those of another controller of GARM: the labels are all the ownership
   there is.
4. An identity or a pool with blanks around it passes every check, its app is made,
   and the read-back of the same Create refuses it; the app reads as nobody's from
   then on.  `ContractIsEnough` and `RefusedCreateOwnsNothing` except this by name.
5. `AcceptedServiceIsFixed` is about the service.  The store compares no other key of
   the document, and an app whose `networks` or `volumes` were edited is accepted.
6. Two controllers of different lengths may derive one name (`NamesApart` leaves them
   out); `NamesAssumption` rules them out for `Apps`.  Collisions of digests, of which
   names keep 32 bits, are left out everywhere.
7. `NothingLeftBehind` excepts KILL and a signal inside the EXIT trap, and
   `StartedFromVerifiedTree` counts a document that `mv` did not move as kept.
8. Nothing is proved of the middleware, which is modelled from how the code uses it.

## Not modelled, and why

* **Command line and environment** (`main.go`, `scaleset_lifecycle_env.go`): parsing and
  dispatch are `garm-provider-common`'s, whose source is not in the repository;
  what remains is a placeholder pool identity for four commands that ignore it.
* **Catalog drivers and control surfaces**, and the check of the embedded file at
  start: they are compared with constants of the same repository.
* **Encodings** (JSON or YAML text, objects, lists and maps of one document), the two
  JSON schemas the front end prints, status and field conversions of answers.
* **Contents** of seeds, wrapper scripts, URLs and runner documents; delays.
* **Pool and template identities** in the VM and container backends: they only
  narrow adoption and listing further.
* **Fixture exporters and CI**: not part of the running provider.
