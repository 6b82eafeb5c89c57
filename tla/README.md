# KubeLift in TLA+

KubeLift (`src/`) creates, extends and removes Kubernetes clusters from an offline
bundle. It is a command-line program without a daemon: all that survives a command is
what it left on the hosts, in the Kubernetes API and in its files. Its hard part is
therefore what happens when a command stops half way and another one follows. These
modules model that part, TLC checks them on small instances, and TLAPS proves every
safety property the passing runs check for every instance.

## Inventory

| Component (`src/internal/...`) | State it keeps | Operations | Interacts with | What makes it correct |
|---|---|---|---|---|
| create (`workflow/create_executor.go`, `create_state.go`) | one state file per cluster name: configuration hash, bundle hash, phase | `create`, `create --resume` | push, preparation, image import, `kubeadm init`, Cilium, Registry on Master0 | `kubeadm init` runs once; a recorded phase is true of the host; reports are true; a foreign cluster is left alone; a create can be finished |
| add (`add_node_executor.go`, `add_master_executor.go`, `add_state.go`) | one state file per cluster, role and address | `add node`, `add master`, with `--resume` | target over SSH, API of Master0, uploaded certificates, other adds | `kubeadm join` runs once; a machine recorded as ready is a member; adds get through |
| uninstall (`uninstall_executor.go`) | none | `uninstall --force` | nodes in the API, cleanup script on every machine, Master0 last | order; nothing forgotten; success means clean; repeatable |
| transport (`remote/ssh.go`, `distribute/local.go`) | SSH connection; partial files on the target | `Run`, `UploadFile`, `VerifySHA256` | remote shells, which are not told when a connection ends | what was verified is intact |
| distribution (`distribute/bundle.go`) | staging directory | `Push` | bundle reader, transport | success means staged |
| bundle reader (`bundle/inspect.go`, `manifest.go`) | none; destination of `Extract` | `Inspect`, `Extract` | archive | accepts exactly the usable archives |
| bundle creation (`bundle/create.go`) | output file | `Create` | source directory, its manifest, somebody editing both | a reported bundle is usable, and all of the source is in it; never overwrites one |
| bundle generation (`bundle/generate.go`) | `manifest.yaml` | `WriteManifest` | source directory | declares what is there; never overwrites; leaves nothing behind |
| profile (`bundle/profile.go`, `manifest.go`) | none | `Validate`, `ValidateClusterProfile`, roles by convention | manifest | what passes it can be installed |
| preparation, images (`install/`) | binaries, units, image store, `/etc/fstab` and its copy | `PrepareNode`, `ImportImages` | staged files, remote shells | may be repeated after stopping anywhere; success means whole |
| preflight (`preflight/`) | none; may turn swap off | `CheckLocal`, `CheckRemote`, `CheckRemoteBundle`, `CheckRemotePorts`, `PrepareSwap` | host facts, disk space, bundle file | nothing is staged on a host that fails a check; swap is touched for an installation only |
| configuration (`config/`), plan (`workflow/plan.go`) | none | `Validate`, `AddPlan` | configuration file, command line | machines and networks have no address in common |
| Cilium, Registry (`cilium/`, `registry/`) | manifests | render, apply, wait | API | success means ready |
| kubeadm files (`kubeadm/`) | none | render configurations, parse credentials | kubeadm | the join file names the right node and role |
| status, command line (`cmd/`) | none | commands and reports | all of the above | commands run their checks in an order that protects the target |

Hard behaviours: kills and failures between an effect and its record; programs (`kubeadm init`,
`kubeadm join`, a remote shell, a cleanup script) that outlive the command that started them;
evidence (`admin.conf`, `kubelet.conf`, the copy of `/etc/fstab`) that says less than it is taken
for; state read early and used late, the bundle file above all; several commands and no lock;
steps that are repeated on top of their own remains, which also fill the disk the next preflight
looks at. `PROJECT.json` lists each one under `hazards`, at its line.

## Modules

| Module | Models | State and actions |
|---|---|---|
| `OnceOnly` | abstract: what recovery promises | levels recorded one after the other, and a command between two of them that fires once |
| `CreateWorkflow`, `CreateProperties` | `ExecuteCreate` and the state file | `pc` is the statement the process is at, `run` its local variables, `states` the files, `host` what the steps left on Master0 and from which inputs, `kubeadm`/`admin` the init as a program of its own, `foreign` a control plane of somebody else, there or on its way, `space` the room under `/var/lib`. One action per step and per save; `LocalPreflight` is the check of the disk, `Gate` the block of checks at the beginning of `ExecuteCreate`; `Fail` and `Crash` end the process at any step, with what the step may have half done (`CutShort`); `Edit` changes configuration or bundle between two runs |
| `AddWorkflow`, `AddProperties` | both add executors | a process per job (role and machine), several at a time; `machines` is what is on each target, with its `kubeadm join`; `owner`, `health`, `certs` are the API; `space` is the room on each target, which `Preflight` looks at before both starts. Worker and master differ by the steps `JoinSteps` and by `IsReady` |
| `UninstallWorkflow`, `UninstallProperties` | `ExecuteUninstall` and `CleanupCommand` | `left` is what is left of the cluster on each machine, `script` where the cleanup script of each attempt is, `kubeadm reset` in two steps (what runs, then the files); scripts may run on after their kubelift has ended |
| `Lifecycle` | create and uninstall one after the other on Master0 | extends `CreateWorkflow` by the effects of the cleanup script on everything create works with, in the order of the script's `rm`. The script leaves host libraries, tools and other CNI plugins (`prepare.go:90-133`), so that `host.node` stays `Torn` |
| `Staging` | `Push` over SSH | payloads in chunks, inodes, the file names P (partial) and D (destination), one remote shell per attempt, which opens P in a step of its own, at any time after its session was started |
| `ClusterConfig` | `config.Validate`, `AddPlan`, `parseSSHAddress` | operators: prefixes over addresses of `Width` bits, ports, mirrors; no state |
| `BundleProfile` | `Manifest.Validate`, roles by convention and from the command line, `ValidateClusterProfile`, and what `PrepareNode` and `ImportImages` demand before their first command | operators over manifests; no state |
| `NodeCommands`, `NodeProperties` | `check ssh`, `bundle push`, `bundle prepare`, `bundle import-images`, and `add` up to the imported images | `pc` is the check or step a command is at; `shell` holds the remote shell of the command and one left behind by an earlier one, each at a line of its script; `swap` is swap, `/etc/fstab` and its copy; `staged`, `installed`, `service`, `images` are the target. The test for the copy of `fstab`, the opening and the end of `cp`, and the begin and the end of each part and each restart are steps of their own; in between a part is `Torn` and a unit `stopped`, and a shell that breaks off leaves them so. `Break` leaves a shell behind, `CommandFails` and `CopyFails` fail a line of a script, `Reboot` and `ReplaceBundle` are the world |
| `BundleFormat` | archives and manifests, and when an archive is usable | no state |
| `BundleManifest` | `bundle.WriteManifest` | processes that walk, stat, hash and write; `manifest` is `manifest.yaml`, which grows payload by payload and may be left torn |
| `BundleCreate` | `bundle.Create` | several processes, one output path, a source that is edited |
| `BundleReader` | `readArchive` as used by `Inspect` and `Extract` | one action per archive entry, and one for the end |
| `BundlePipeline` | the three together | who works on the directory, whose archive is read, and what was edited |
| `CreateProofs`, `CreateHostProofs`, `AddProofs`, `UninstallProofs`, `LifecycleProofs`, `StagingProofs`, `NodeProofs`, `BundleProofs` | theorems, each about the module of its name | |
| `MC...` | instances for TLC | constants, and the families of inputs a run begins with |

Composition. `BundlePipeline` instantiates `BundleManifest`, `BundleCreate` and `BundleReader`
on shared variables: Create reads the manifest that WriteManifest is still writing, and
the reader opens the output that Create is still writing. `NodeCommands` extends
`ClusterConfig` and `BundleProfile`, whose verdicts are its guards. `Lifecycle` runs
`CreateWorkflow` with uninstall. `CreateWorkflow`, `AddWorkflow` and `NodeCommands` use the
result of `Staging` (a push that succeeded has staged the bundle, one that did not may have
torn it), and the inspection at the end of `bundle.Create` is what `BundleReader` shows
`Inspect` to be. `OnceOnly` is the abstract specification of both workflows:
`ImplementsOnceOnly` in `CreateProperties` and `AddProperties` maps `level` to the recorded
phases and `fired` to the number of `kubeadm init` or `join` commands started, where a task
fires at most once.

Abstractions. A configuration or a bundle is a model value, equal exactly when its SHA-256 is; in
`NodeCommands` it is a record of what the checks look at, and fields that one pattern decides
alone are one Boolean. A host is the record of what each step left and from which inputs it was
done; `Torn` is a step left half done. A phase is its rank in the code's order; a state that was
never saved has rank 0. Rename makes a state file appear at once. What a payload contains stands
for its size and SHA-256. Room on a disk is counted in bundles: what is staged, what is imported
and the data of a control plane or kubelet take one each. Times are not modelled: a timeout is a
failing step, and may happen at any moment. Definitions named `..._Mut` are deliberate mistakes
that `Next` never uses; replacing the definition of the same name by one shows that a property
fails.

Code outside `src/` is modelled from its use: `kubeadm init` writes `admin.conf` some time
before it ends, and leaves no trace when killed before its first write; its preflight
requires a host without a control plane; the control plane of a joining master comes up before
its `kubeadm join` ends; `kubeadm join` is refused for the name of a Ready
node, and for a master whose certificate key no longer decrypts the uploaded
certificates; the kubelet registers its node at its own pace; Cilium's roll-out succeeds
only on a control plane whose init has ended; `cp -a` may be cut short, and `sed -i` makes a
new file.

## Runs

Counts are distinct states. Most runs take seconds; `MCBundle` and `MCNode` take one to two minutes.

| Run | States | Instance | Question |
|---|---|---|---|
| `MCCreate` | 236 716 | one name, two configurations (one with Registry), two bundles, room for one, two or all of what runs leave behind, a control plane of somebody else there, on its way or not, 3 faults, 2 edits, fair | do state file, host and report agree (`PhaseDescribesHost`, `CompleteMeansRunning`, `ReportIsTrue`), is a foreign cluster left alone, is init started once and only on a prepared host (`InitAtMostOnce`, `InitOnPreparedHost`, `ImplementsOnceOnly`), can a create be finished (`Converges`) |
| `MCAdd` | 488 164 | a worker and a master at the same time, two inputs, much or little room, 1 fault, 1 edit or renamed host | one join each, from a prepared machine and with its own join file; ready means member; once-only |
| `MCAddLive` | 115 956 | two masters at the same time, much or little room, 1 fault, fair | can adds be finished although their certificates replace each other |
| `MCUninstall` | 31 072 | two masters, two workers, one of which registers late, 2 faults, fair | order, nothing forgotten, success means clean, repetition gets through unless Master0 is left half cleaned |
| `MCLifecycle` | 30 080 | one name, much or little room, 3 faults, 1 edit | is nothing left after an uninstall that a create looks at or relies on, and does no later create skip what was removed |
| `MCStaging` | 201 407 | 1 payload of 2 chunks, 8 attempts, 2 breaks or damaged chunks, fair | is what was reported as staged intact; do remains of earlier attempts keep a push from succeeding |
| `MCBundle` | 566 934 | 3 paths, one below another; 3 contents, two of one size; 2 writers, 2 creators, a reader, up to 2 edits; archives of up to 4 entries, limit of 3 | is a reported bundle usable, complete and there to stay; does the reader accept exactly the usable archives; is a failure clean |
| `MCNode` | 270 657 | 36 bundles, about 650 configurations with up to 6 addresses of a target, about 100 machines, 4 mixtures of disturbances, 2 small disks, fair | does only a fitting bundle get to the target, does each command change its part only, is a prepared target whole, is the copy of `/etc/fstab` the original, what is refused too late, do addresses stay apart, does a preparation get through |

Bounds. Two of a kind (inputs, machines, paths) is what it takes to confuse one with
another, and one of them differs in the respect the code branches on (Registry, role,
size). Faults are bounded because each is one more interruption: an interrupted run, an
interrupted resume and an interrupted resume of it is the longest chain whose remains
differ, as every resume begins with the same checks. In `MCAdd` one fault is enough to
leave one job interrupted at any step while the other runs to its end. `MCStaging` has one
payload, as the file names of different payloads are different and a shell touches only its
own; it gives the operator as many repetitions as two breaks can fail, each its own push and
three more by the shell it leaves behind. A damaged chunk costs one.

`MCBundle` begins with one of a list of scenarios: generated manifests of every source, with
an edit, with a second writer or with a second creator; manifests written by hand for
every set of paths, right or wrong; and foreign archives, read with every entry the tar
reader could find next. Its limit on entries is below the length of the longest archives, so
that it is met, and equal to the number of paths, as the code's limit is above the number
of payloads a manifest may declare.

`MCNode` begins with one of several families, each with the rest plain: configurations with
all networks over three bits of address (unusable and link-local addresses among them), ports
and mirrors; bundles that lack one file, have one too many, or are at a limit (17 files,
size 3, total 20), or have a name with a backslash; machines by platform, failing facts, busy
ports and swap; a small disk; and four
mixtures of interruptions (a shell left behind, a failing line, a reboot, and bundles replaced
between and during commands). A conjunction of checks that pass one by one is not an
interaction, so the families are not multiplied with each other; the proofs have no such
bounds.

Deadlock is checked for create, its composition with uninstall and the commands for one
target, where the operator can always give another command. The other models really end:
all jobs complete, everything clean, the bundle staged or written, the archive read.

Fairness. A started process takes its next step (`WF` on `Advance`): commands run under a
timeout, and a step that hangs fails. `kubeadm`, kubelets, scripts and remote shells run on
(`WF`). Operators keep giving the command (`SF` on the starts, as a process in between disables
them; `WF` for `Discover`, which stays enabled). No fault and no edit is forced, and
bounded in number: the code promises nothing to somebody who interrupts it for ever.
What the code leaves to an operator is not a failure of liveness: `NeedsOperator` names
these situations, each one a refusal in the code.

### Where code and documentation disagree

Four runs check one statement each of the documentation, of a comment or of an assertion in
the code, and TLC finds a behaviour of the code that violates it.

| Run | Statement | What happens |
|---|---|---|
| `MCCreateAdopt` | a resumed run skips only what is known to be complete (`create_executor.go:94`, `README.md:304-306`) | `admin.conf` counts as a finished `kubeadm init`, which may be running or fail later |
| `MCAddAgent` | `add node` waits for the Cilium agent (`README.md:261-263`) | it waits for the node to be Ready only |
| `MCLifecycleAlready` | a state from `kubeadm-initialized` on without `admin.conf` is an error (`create_executor.go:159-160`) | a `complete` state returns before that check |
| `MCStagingCut` | the destination is replaced only after complete success (`ssh.go:154-155`) | after a broken connection the remote `cat` sees an end of input and `mv` goes on |

None of them breaks the properties of the passing runs: `CompleteMeansRunning`, for one, holds
although `kubeadm-initialized` may be wrong, as the roll-outs the next step waits for need a
control plane that is done; and a destination truncated by a broken connection is caught, as
every payload is verified after its upload.

Other behaviours of the code that the properties have to make room for:

- The preflights of `create` and `add` run with `--resume` too, and demand 10 GiB free under
  `/var/lib` (`create.go:56` with `preflight/local.go:115`; `add.go:87,100` with
  `preflight/remote.go:160`), where the interrupted run has staged its bundle and imported its
  images. Its own leftovers may refuse the resumed run for good, as no command removes them but
  uninstall. `NeedsOperator` names a full disk in all three models; `MCCreate`, `MCAddLive` and
  `MCNode` have disks of this kind.
- `prepare` and `add` turn swap off and edit `/etc/fstab` before they look at the bundle and the
  ports (`bundle_push.go:134` before 145, `add.go:109`): a target refused for these has lost its
  swap. `ChangesWithinPart` states what is left: nothing else is wrong with such a target, and
  nothing is staged there.
- A shell of an interrupted upload that opens its partial file only after the repeated push has
  verified the payload (`ssh.go:191-199`) finds its input at an end, makes an empty file and moves it
  over the verified one. `StagedMeansIntact` excepts the payloads that a shell reached after their
  upload was done (`touched`).
- Two shells may both find no `/etc/fstab.kubelift.bak` (`prepare.go:79`, `swap.go:13`); the later one
  then copies the `fstab` that the other has already edited over the original copy. `BackupIsOriginal`
  excepts that (`recopied`).
- A script of an interrupted preparation may run on after the success of its repetition, break
  off and leave a part of the software torn or a unit stopped; `PreparedIsWhole` excepts what
  such a shell is at, has left half done or has done for another bundle (`spoiled`), and nothing else.
- The cleanup script leaves host libraries, tools, other CNI plugins, and swap and `fstab` as
  they are; `UninstalledIsNew` lets parts of an installation stay, which no state file vouches for.
- After an uninstall interrupted on Master0 there is no API to discover the nodes from, and
  `uninstall` is refused for ever, although each command of the script can be repeated
  (`uninstall_executor.go:90-91`); `Finishes` excepts this.
- In the script of `PrepareNode` a failing `cp` of `/etc/fstab` does not end the script, as it
  stands in a list joined with `&&`; `fstab` is then changed without a whole copy. In `PrepareSwap`
  it does. `BackupIsOriginal` excepts it by the history variable `cut`.
- `Push` opens the bundle file after the checks have, and stages what is there by then
  without a further look; `OnlyFittingFiles` excepts bundles that appeared under a command.
- `PrepareNode` refuses what passed the checks at the beginning when two files have one base
  name, when there is an extra systemd unit, or when a registry name ends in a dot;
  `LateRefusals` lists these gaps.
- `Push` never removes files of an earlier bundle from the staging directory, mirrors that were
  removed from the configuration keep their files on the node, and a `conntrack` in `bin/` overwrites
  the one among the host tools whose libraries were checked. No property depends on these.
- The control-plane endpoint is not checked against the Pod and Service networks, the
  advertised address may be link-local although a target may not, and the commands that take
  an address only accept 255.255.255.255. `AddressesApart` speaks of additions.

## Proofs

All theorems hold for every value of the constants that satisfies the named assumptions, so
for any number of failures, edits, processes, machines and payloads. The assumptions say what
the constants are (types; that `None`, `Nothing` and `Torn` are no inputs; that Master0 is a
machine); those with content are named below. Each proof module states an inductive
invariant, proves it initially, action by action, and derives the theorems.

| Module | Theorems (property) | The inductive invariant, and why it takes more than the properties |
|---|---|---|
| `CreateProofs` | `TypeCorrect`, `InitOnce` (`InitAtMostOnce`), `PhasesGrow` (`PhasesOnlyGrow`) | `IInv`. The history of inits is read by no action. At each step between two saves the process holds the one phase that belongs to the step (`StepPhases`); what it holds is what its state file holds (`RunAgrees`); and an init in the history is on record (`StartsOnRecord`: saved before the command was started, never reset). A second init would need phase `images-imported` in memory and on disk while the history demands `kubeadm-starting` |
| `CreateHostProofs` | `PhasesTrue` (`PhaseDescribesHost`), `InitPrepared`, `CompleteRuns`, `ReportTrue`, `ExistingUntouched`, `CreatesOnce` (`ImplementsOnceOnly`), `RunsGetThrough`; for `OneCluster` | `HInv`: `IInv`, and what the process is about to put on record is on the host (`Provisioned`, `FilesWritten`); a control plane that kubelift did not start keeps every run before its first step, or, if it came up later, before `kubeadm init` (`Foreign`); a start on record left its mark (`Started`), Cilium runs on a finished control plane (`Running`), a report was true when it was made and stays so (`Answered`). For `RunsGetThrough`: a run is about the files as they are (`Tended`), and a gate that reads what an interrupted run has saved lets it pass (`GateOpens`) |
| `AddProofs` | `TypeCorrect`, `JoinOnce` (`JoinAtMostOnce`); for `OneJobPerMachine` also `JoinPrepared`, `ReadyMember` (`ReadyMeansMember`), `AddsOnce` (`ImplementsOnceOnly`), `StillAccepted`, `RunsGetThrough` | `IInv` is the analogue of create's, per job; `MInv` relates the state file of a job to its machine, the machine to the API, and the API to other jobs: other commands never touch the machine of a job (`OtherJobs`), recorded phases never go back (`FilesKept`), and whoever was joined stays so. `Tended` adds, per job, that what `kubeadm join` left on the machine fits how it ended |
| `UninstallProofs` | `TypeCorrect`, `Remembered` (`NeverForgotten`), `ReportTrue` (`SuccessMeansClean`), `Ordered` (`OrderKept`), `MasterLast`, `NothingElsewhere`, `NoAttemptStuck`, `AttemptsGoOn` | `IInv`: what a script has behind it is gone, whichever attempt it belongs to (`ScriptTrue`); a discovered node is still to be cleaned or is clean (`FoundTrue`); a machine that lost anything is a node of the API until it is clean (`NodesKept`). `Known`: a run has discovered the nodes that are not yet clean and gone, and what it waits for is at work; with it, Master0 and its API are only touched once all others are clean and gone (`MasterZeroLast`) |
| `LifecycleProofs` | `LifecycleTypeCorrect`, `UninstalledNew` (`UninstalledIsNew`), `InitPreparedAgain` (`InitOnPreparedHostAgain`); for `OneCluster` | `LInv`: a state file describes the host unless an interrupted uninstall has left it behind, in which case the gate lets no resumed run pass |
| `StagingProofs` | `TypeCorrect`, `StagedIntact` (`StagedMeansIntact`), `FailuresBounded` | `IInv`: an inode belongs to one payload; the shell of the attempt has moved or removed the partial file when it ended; a payload that was verified is intact and has no partial file that a shell left behind could still move over it, unless such a shell reached it after its upload. `Accounted`: the attempts that failed, and what the shells left behind can still spoil (`Pending`), are paid for by four for each lost connection and one for each damaged chunk. What a late shell has reached is `touched`, which the verification of a later push does not undo |
| `NodeProofs` | `TypeCorrect`, `BackupKept` (`BackupIsOriginal`), `OnlyFittingFilesArrive`, `OnlyItsPart` (`ChangesWithinPart`), `PreparedStaysWhole` (`PreparedIsWhole`), `NetworksApart` (`AddressesApart`), `RefusedLateForGaps` (`LateRefusals`), `RunsGetThrough`; of the bundle's operators, `TotalChecked`, `GeneratedIsValid` | `BInv` ties each shell to its script and each place of the process to a command; `Kept` follows the copy of `fstab` through two shells at once, from the test to the end of `cp`; `Checked` says what a command at some place has checked; `Scripted` which commands must have been given; `WInv` what the front shell has completed, when the files it installs from are all of one bundle; `Loaded` that no command goes past its first step on a configuration or an addition that was refused, `Extracted` that what is staged for `PrepareNode` is of a bundle that met the profile; `Served` that swap stays off once the command turned it off, and that a prepared target runs its services |
| `BundleProofs` | `PipelineTypes`, `OnlyUsableAccepted` (`AcceptsUsable`), `NothingLeftBehind` (`FailureLeavesNothing`), `BundlesHaveTheSource` (`NothingLeftOut`), `ReportedIsUsable` (`CreatedIsUsable`) | `PInv`: what was read is sound and the directory holds just that (`RInv`); a generated manifest has no path below another, as no file system has (`WInv`); payloads nobody touched are as declared once verified, and after the walk there is no other (`KInv`); the reader of the output is at a prefix of an archive that only grows (`OInv`). From these, `Extract` can refuse a reported bundle only for a clash, which only a manifest written by hand has |

Assumptions with content. `OneCluster` (there is one cluster name) is a hypothesis of the
theorems that relate phases to the host, as binaries, images and `admin.conf` are per host:
with two names they are false. `OneJobPerMachine` is the same for add: with both roles
on one machine, `kubelet.conf` of one is taken for the join of the other.
`PathsAssumption` of `BundlePipeline`, that the paths are no more than the limit on entries,
is what `maxPayloadFiles` is to `maxArchiveEntries`. `ScenariosAssumption` says that a
manifest which is there at the beginning was written by hand, and that a foreign archive
and one of a creator are not read in one behaviour.

`SettingsAssumption` says that the networks of a configuration are IPv4 prefixes and the
addresses are addresses, as `netip.ParsePrefix` and `ParseAddr` return nothing else, and
`ManifestAssumption` that the files of a manifest are a sequence.

Induction. `NetworksApart` is about every width of addresses, and so about powers of two, which
the solver knows nothing of. `ClusterConfig` defines them by a recursive function,
`BlockSize`, and `NodeProofs` proves by induction over sets of numbers (`LeastNatural`,
`Induction`) that the equation it is declared by holds (`BlockSizeEquation`), that a longer
prefix divides the block of a shorter one (`Multiples`, `BlockOfBlocks`), and from that what
the comparison of leading bits means: `ContainsMembers` (a prefix contains exactly the
addresses of its block) and `CommonOverlaps` (two prefixes with an address in common overlap).
`RefusedLateForGaps` needs the cardinalities of the profile: two units of known names
make exactly two files (`TwoUnits`), and the demands of the installers follow from the
profile one by one, but for the gaps (`ProfileSuffices`, `MirrorsSuffice`).

`TotalChecked` needs the recursion of the running total, which is a recursive function for that
reason (`RunningTotalEquation`): the total is compared before it grows, so no sum over the limit
is ever formed and nothing is refused but for its sum. `GeneratedIsValid` needs that the table of
conventions and the table of kinds agree (`ConventionsFit`): what `WriteManifest` writes for a
tree within the limits of its scan, with whatever fitting roles, `Inspect` accepts.

What the liveness properties rest on. `Converges` (twice), `Finishes`, `GetsStaged` and
`GetsPrepared` speak of fairness, which is beyond the prover, and stay with TLC. What they say
about the code is proved, step by step: a run that nothing stops only ever goes on, along a chain
of places, so that it ends after a bounded number of steps; and it is refused only for an
excuse that is named.

| Theorem | Why a run may still end without success |
|---|---|
| `CreateHostProofs!RunsGetThrough` | an operator has to look (a full disk included); a `kubeadm init` of an earlier run is still at work, or wrote `admin.conf` after this one had looked for it; the command came in the other form |
| `AddProofs!RunsGetThrough` | an operator has to look; a `kubeadm join` of an earlier run is still at work; the node is not Ready in time; nothing is left to do. For a command that has passed its preflights; `StillAccepted`: some form of it is then accepted, or an operator named |
| `UninstallProofs!AttemptsGoOn` | a node that registered after an earlier attempt had looked is to be deleted while the script of that attempt takes the API away. `NoAttemptStuck`: there is always a next node, or a script at work; `NothingElsewhere`: when Master0 is clean, every machine that was a node from the start is |
| `StagingProofs!FailuresBounded` | at any time no more than `4 * breaks + damages` pushes have failed, for the connections lost and chunks damaged so far: a lost connection fails its own push, and its shell one more each when it opens the partial file, with its `mv` and with its trap. `MaxAttempts` of `MCStaging` is this bound, and so never what stops a push |
| `NodeProofs!RunsGetThrough` | the inputs, the machines or the bundle do not pass the checks; the gaps of `LateRefusals`; a bundle was replaced; a full disk; a command of a script failed; containerd does not run, as the target was not prepared or a shell left behind restarts it. The second look after swap was turned off refuses nothing but a full disk, and the checks of swap in the scripts refuse nothing |

What TLC adds is that the next run is given and that a step is possible when it is due.
Apart from `NetworksApart`, `RefusedLateForGaps`, `TotalChecked` and `GeneratedIsValid`, the theorems
of `NodeProofs` leave the definitions the commands use (`ClusterProfile`, `ValidConfig` and the
like) unexpanded: they hold whatever exactly these accept.

## Assumptions and what is not modelled

- `CreateWorkflow` has one kubelift process at a time, and inputs are edited between runs only;
  nothing in the code enforces either. A bundle replaced under a running command is in `NodeCommands`.
  Nobody starts another `kubeadm init` on Master0 while kubelift is used there; one that is under way
  when kubelift is first called is modelled (`foreign = "coming"`).
- A shell that outlives its kubelift is followed line by line in `NodeCommands`, `Staging` and
  `UninstallWorkflow`. `CreateWorkflow` and `AddWorkflow` take it to its end at once: a step that is
  cut short is undone, torn or complete (`CutShort`). `kubeadm init` and `kubeadm join` run on step by step.
- What `Staging` excepts as `touched` does not happen in `CreateWorkflow`, `AddWorkflow` and
  `NodeCommands`, whose pushes stage what they report. `Staging` has one bundle: a shell of an
  interrupted push of another bundle, which would move a part of that one, is left out.
- Checks of several facts of a host (`CheckRemote`) read them in one step. A unit that does not
  come up after `systemctl restart` is one of the failing commands.
- With two cluster names on one host a later create replaces what an earlier one has
  recorded, and a resume of one name may adopt the `admin.conf` of the other: excluded by `OneCluster`.
  One machine added in two roles is excluded by `OneJobPerMachine`.
- In `NodeCommands` there is one shell left behind at a time.
- Kills are modelled, the loss of data that was not synced at a power failure is not.
- A success of uninstall speaks of the nodes it discovered. Machines that never registered,
  the state files of earlier adds, and a join file left on a target with its token are not visited.
- In `UninstallWorkflow` the API is up as long as Master0 runs: that the etcd of a cluster of several masters
  loses its quorum when the others are reset is left out. Masters are registered and labelled
  from the start, so that a role is a constant. Of the refusals of `DiscoverUninstallNodes`
  (`uninstall_executor.go:184-230`), those about malformed lists (no node, a name or address twice, no
  IPv4 address) are left out.
- In `Lifecycle`, `kubeadm reset` is one step, and one that is cut short leaves a failed control plane. No
  `kubeadm init` of somebody else is on its way: an uninstall interrupted with a state file at
  `images-imported`, followed by an init that is not kubelift's, would let a resume go on to it.
- `BundleManifest` lists all payloads at once, as if they were in one directory. An operator removes only
  what a killed process has left, never the file of a running one, which `os.Remove` by name
  would then repeat on somebody else's.
- `NodeCommands` takes `add` through the first run up to imported images, without its state file,
  which is in `AddWorkflow`. The installed files are three parts, each begun and ended, and the
  import is one step.
- `LocalTransport.UploadFile` copies by temporary file and rename in one process: left out.
- A name with a backslash, which `validateFile` refuses (`manifest.go:214`), is one base name, `"unsafe"`.
- Kernel modules, sysctls, mirror files of containerd, host keys and authentication, process groups,
  rendering of templates, decoding of YAML, the texts of plans and reports, and the read-only
  commands: text, or nothing that interacts.

What would come next: a second create process and a second cluster name in `CreateWorkflow`, the
add state files in `Lifecycle`, and machines added in both roles; each one is a hazard listed
without a property.
