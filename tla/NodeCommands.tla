---------------------------- MODULE NodeCommands ----------------------------
(***************************************************************************)
(* The commands that look at, fill or prepare one target over SSH: `check  *)
(* ssh`, `bundle push`, `bundle prepare`, `bundle import-images`, and the  *)
(* part of `add` up to the imported images (internal/preflight,            *)
(* internal/install, cmd/bundle_push.go, bundle_prepare.go,                *)
(* bundle_import_images.go, check_ssh.go, add.go).                         *)
(*                                                                         *)
(* The checks read the bundle file more than once and the target command   *)
(* by command; the work is done by long remote shells, which run on when   *)
(* kubelift is killed or its time is over.  Meanwhile the bundle file may  *)
(* be replaced and the target may reboot.                                  *)
(***************************************************************************)
EXTENDS ClusterConfig, BundleProfile

CONSTANTS
    Bundles,     \* bundle files, by what is in them
    Manifest,    \* the manifest of each
    Settings,    \* what a behaviour starts with, see Init
    Torn,        \* a part of the software that is half of one bundle, half of another
    None

(* Copies of /etc/fstab. *)
Copies == [of : {"original", "commented"}, whole : BOOLEAN]

ASSUME BundlesAssumption ==
    /\ None \notin Bundles \cup Copies
    /\ Torn \notin Bundles \cup {None}
    /\ DOMAIN Manifest = Bundles

(* The files of a manifest are a sequence. *)
ASSUME ManifestAssumption ==
    \A b \in Bundles : DOMAIN Manifest[b].files = 1..Len(Manifest[b].files)

(* The verdicts on each bundle, once for all. *)
Valid      == [b \in Bundles |-> ValidManifest(Manifest[b])]
Complete   == [b \in Bundles |-> [registry \in BOOLEAN |-> ClusterProfile(Manifest[b], registry)]]
Preparable == [b \in Bundles |-> PrepareAccepts(Manifest[b])]
Importable == [b \in Bundles |-> [registry \in BOOLEAN |-> ImagesAccept(Manifest[b], registry)]]

Limits == {"breaks", "failures", "reboots", "replaced"}

ASSUME SettingsAssumption ==
    \A s \in Settings :
        /\ s.bundle \in Bundles /\ s.machine.swapOn \in BOOLEAN /\ s.machine.space \in Nat
        /\ s.config.registry.enabled \in BOOLEAN /\ s.budget \in [Limits -> Nat]
        /\ IsPrefix(s.config.network.pod) /\ IsPrefix(s.config.network.service)
        /\ s.config.advertise \in Addresses /\ s.asked.address \in Addresses

Commands == {"check", "push", "prepare", "images", "add"}

VARIABLES
    config,     \* the configuration file
    master0,    \* facts about Master0: arch, ubuntu, and the local checks it fails
    machine,    \* facts about the target: the same, its busy ports, its swap devices, and
                \* for how many bundles there is room under /var/lib
    asked,      \* what the operators do: their commands, the target's address and role,
                \* bundles they may put in place
    bundleFile, \* the file at spec.offline.bundle
    swap,       \* swap on the target: on, /etc/fstab and its copy
    staged,     \* the target's staging directory: whose files are there, and whose all are
    installed,  \* which bundle each part of the target's software is from
    service,    \* its units: not enabled, stopped or running
    images,     \* bundles whose images are imported there
    pc, command,
    manifest,   \* the bundle Push has extracted
    outcome,    \* of the last command
    shell,      \* remote shells: of the present command, and one left behind
    given,      \* history: commands given
    raced,      \* history: bundles that appeared while a command was running
    spoiled,    \* history: parts and units that a shell left behind, or a reboot, has
                \* broken or changed for another bundle since a command did them
    cut,        \* history: a copy of /etc/fstab was cut short
    recopied,   \* history: a changed /etc/fstab was copied over a copy made since the
                \* shell had looked for one
    budget      \* bounds: breaks, failing steps, reboots, replaced bundles left

world   == <<config, master0, machine, asked>>
target  == <<swap, staged, installed, service, images>>
process == <<pc, command, manifest, outcome>>
history == <<given, raced, spoiled, cut, recopied>>
vars == <<world, bundleFile, target, process, shell, history, budget>>

Parts    == {"tools", "programs", "runtime"}
Services == {"containerd", "kubelet"}

SwapSteps == {"swapoff", "backup", "copy", "copying", "fstab", "verify"}
ShellSteps == SwapSteps \cup Parts \cup Services \cup {"images", "ok", "failed"}
NoShell == [script |-> "none", step |-> "ok", half |-> FALSE, of |-> None]
Shells == [script : {"none", "swap", "prepare", "images"}, step : ShellSteps,
           half : BOOLEAN,      \* it is within a part or a restart; or has found no copy
           of : Bundles \cup {None}]

Places == {"idle", "load", "local", "remote", "swap", "recheck", "bundle", "ports", "push",
           "pushing", "profile", "prepare", "preparing", "images", "importing"}

TypeOK ==
    /\ bundleFile \in Bundles
    /\ swap \in [on : BOOLEAN, fstab : {"original", "commented"},
                 copy : Copies \cup {None}]
    /\ staged \in [some : SUBSET Bundles, all : Bundles \cup {None}]
    /\ staged.all \in staged.some \cup {None}
    /\ installed \in [Parts -> Bundles \cup {None, Torn}]
    /\ service \in [Services -> {"absent", "stopped", "running"}] /\ images \subseteq Bundles
    /\ pc \in Places /\ command \in Commands \cup {None}
    /\ manifest \in Bundles \cup {None}
    /\ pc \in {"pushing", "profile", "prepare", "preparing", "images", "importing"} =>
          manifest \in Bundles
    /\ outcome \in {"none", "refused", "unfit", "failed", "done"}
    /\ shell \in [{"front", "left"} -> Shells]
    /\ given \subseteq Commands /\ raced \subseteq Bundles
    /\ spoiled \subseteq Parts \cup Services /\ cut \in BOOLEAN /\ recopied \in BOOLEAN
    /\ budget \in [Limits -> Nat]

Init ==
    \E s \in Settings :
        /\ config = s.config /\ master0 = s.master0 /\ machine = s.machine /\ asked = s.asked
        /\ budget = s.budget
        /\ bundleFile = s.bundle
        /\ swap = [on |-> s.machine.swapOn, fstab |-> "original", copy |-> None]
        /\ staged = [some |-> {}, all |-> None]
        /\ installed = [p \in Parts |-> None]
        /\ service = [x \in Services |-> "absent"] /\ images = {}
        /\ pc = "idle" /\ command = None /\ manifest = None /\ outcome = "none"
        /\ shell = [s2 \in {"front", "left"} |-> NoShell]
        /\ given = {} /\ raced = {} /\ spoiled = {} /\ cut = FALSE /\ recopied = FALSE

-----------------------------------------------------------------------------
Goto(place) == pc' = place /\ UNCHANGED <<command, manifest, outcome>>
End(how) == pc' = "idle" /\ outcome' = how /\ UNCHANGED <<command, manifest>>

(* A step of the process that passes its check, or ends the command. *)
Gate(place, check, next) ==
    /\ pc = place
    /\ IF check THEN Goto(next) ELSE End("refused")
    /\ UNCHANGED <<world, bundleFile, target, shell, history, budget>>

Start(c) ==
    /\ pc = "idle" /\ c \in asked.commands
    /\ pc' = "load" /\ command' = c /\ manifest' = None /\ outcome' = "none"
    /\ given' = given \cup {c}
    /\ UNCHANGED <<world, bundleFile, target, shell, raced, spoiled, cut, recopied, budget>>

(* config.Load, and the target given on the command line. *)
AddressAccepted ==
    IF command = "add" THEN AddPlanAccepts(config, asked.role, asked.address)
                       ELSE ParseSSHAddress(asked.address)

LoadConfig ==
    Gate("load", ValidConfig(config) /\ AddressAccepted,
         IF command = "check" THEN "remote" ELSE "local")

Mentions(b, facts) ==
    Manifest[b].arch = facts.arch /\ facts.ubuntu \in Manifest[b].ubuntus

(* checkOfflineBundle *)
BundleFitsMaster0(b) ==
    /\ Manifest[b].version = config.version
    /\ Complete[b][config.registry.enabled]
    /\ Mentions(b, master0)

(* CheckLocal: all the other checks of Master0 are facts about it. *)
LocalPreflight == Gate("local", master0.fails = {} /\ BundleFitsMaster0(bundleFile), "remote")

-----------------------------------------------------------------------------
(* requireRemotePreflightMode.                                               *)

Run(script, b) == shell' = [shell EXCEPT !.front = [script |-> script, of |-> b, half |-> FALSE,
                      step |-> IF script = "images" THEN "images" ELSE "swapoff"]]

InstallMode_Mut == command = "add"

InstallMode == command \in {"prepare", "add"}

(* The check of the disk finds what earlier commands have staged and imported; *)
(* the other checks are facts about the target.                               *)
DiskSuffices == Cardinality(staged.some) + Cardinality(images) <= machine.space

MachineFit == machine.fails = {} /\ DiskSuffices

OnlySwapFails_Mut == swap.on

OnlySwapFails == swap.on /\ MachineFit

(* CheckRemote; `check ssh` goes on to the bundle to report on it too. *)
CheckRemote ==
    /\ pc = "remote"
    /\ IF InstallMode /\ OnlySwapFails
       THEN Goto("swap") /\ Run("swap", None)
       ELSE /\ IF (MachineFit /\ ~swap.on) \/ command = "check"
               THEN Goto("bundle") ELSE End("refused")
            /\ UNCHANGED shell
    /\ UNCHANGED <<world, bundleFile, target, history, budget>>

ShellEnded == shell.front.step \in {"ok", "failed"}

(* The shell has ended; what it says decides. *)
Returns(place, next) ==
    /\ pc = place /\ ShellEnded
    /\ IF shell.front.step = "ok" THEN Goto(next) ELSE End("failed")
    /\ shell' = [shell EXCEPT !.front = NoShell]
    /\ UNCHANGED <<world, bundleFile, target, history, budget>>

SwapPrepared == Returns("swap", "recheck")

Recheck == Gate("recheck", MachineFit /\ ~swap.on, "bundle")

AcceptsMachine_Mut(b) == Manifest[b].arch = machine.arch

(* CheckRemoteBundle *)
AcceptsMachine(b) == Mentions(b, machine)

(* The bundle is inspected once more. *)
CheckBundle ==
    /\ command # "check"
    /\ Gate("bundle",
            Valid[bundleFile] /\ Manifest[bundleFile].version = config.version
                /\ AcceptsMachine(bundleFile),
            IF command = "add" THEN "ports" ELSE "push")

(* What `check ssh` has to say. *)
ReportCheck ==
    /\ pc = "bundle" /\ command = "check"
    /\ End(IF /\ MachineFit /\ ~swap.on
              /\ Valid[bundleFile] /\ AcceptsMachine(bundleFile)
           THEN "done" ELSE "refused")
    /\ UNCHANGED <<world, bundleFile, target, shell, history, budget>>

RequiredPorts == IF asked.role = "master" THEN ReservedRegistryPorts ELSE {10250}

CheckPorts_Mut == Gate("ports", machine.ports \cap RequiredPorts = {}, "profile")

CheckPorts == Gate("ports", machine.ports \cap RequiredPorts = {}, "push")

-----------------------------------------------------------------------------
(* Push, PrepareNode, ImportImages.                                          *)

(* Push opens the bundle file for a third time.  What it stages replaces the *)
(* payloads of the same paths; other files of the directory stay.            *)
ExtractAndUpload ==
    /\ pc = "push"
    /\ IF Valid[bundleFile]
       THEN /\ pc' = "pushing" /\ manifest' = bundleFile /\ UNCHANGED <<command, outcome>>
            /\ staged' = [some |-> staged.some \cup {bundleFile},
                          all |-> IF staged.all = bundleFile THEN bundleFile ELSE None]
       ELSE End("failed") /\ UNCHANGED staged
    /\ UNCHANGED <<world, bundleFile, swap, installed, service, images, shell, history, budget>>

AfterPush ==
    CASE command = "prepare" -> "prepare"
      [] command = "images"  -> "images"
      [] command = "add"     -> "profile"

PushReturns ==
    /\ pc = "pushing"
    /\ staged' = [staged EXCEPT !.all = manifest]
    /\ IF command = "push" THEN End("done") ELSE Goto(AfterPush)
    /\ UNCHANGED <<world, bundleFile, swap, installed, service, images, shell, history, budget>>

(* What is wrong with the bundle now, after it was staged, is found late. *)
Demand(place, accepted, next, script) ==
    /\ pc = place
    /\ IF accepted
       THEN Goto(next) /\ IF script = "none" THEN UNCHANGED shell ELSE Run(script, manifest)
       ELSE End("unfit") /\ UNCHANGED shell
    /\ UNCHANGED <<world, bundleFile, target, history, budget>>

(* The add executors look at the profile of what they have staged. *)
CheckProfile ==
    Demand("profile", Complete[manifest][FALSE], "prepare", "none")

PrepareNode ==
    Demand("prepare", Preparable[manifest] /\ PrepareAcceptsMirrors(config),
           "preparing", "prepare")

ImportImages ==
    Demand("images",
           Importable[manifest][command = "images" /\ config.registry.enabled],
           "importing", "images")

PrepareReturns_Mut ==
    /\ pc = "preparing" /\ ShellEnded
    /\ IF command = "prepare" THEN End("done") ELSE Goto("images")
    /\ shell' = [shell EXCEPT !.front = NoShell]
    /\ UNCHANGED <<world, bundleFile, target, history, budget>>

PrepareReturns ==
    IF command = "add" THEN Returns("preparing", "images") ELSE
    /\ pc = "preparing" /\ ShellEnded
    /\ End(IF shell.front.step = "ok" THEN "done" ELSE "failed")
    /\ shell' = [shell EXCEPT !.front = NoShell]
    /\ UNCHANGED <<world, bundleFile, target, history, budget>>

ImagesReturn ==
    /\ pc = "importing" /\ ShellEnded
    /\ End(IF shell.front.step = "ok" THEN "done" ELSE "failed")
    /\ shell' = [shell EXCEPT !.front = NoShell]
    /\ UNCHANGED <<world, bundleFile, target, history, budget>>

-----------------------------------------------------------------------------
(* The remote shells: PrepareSwap, the script of PrepareNode, which begins   *)
(* with the same lines, and that of ImportImages.                            *)

Active(s) == shell[s].step \notin {"ok", "failed"}
At(s, step) == shell[s].step = step /\ shell[s].script # "none"
Halfway(s, step) == At(s, step) /\ shell[s].half
Step(s, step) == shell' = [shell EXCEPT ![s].step = step, ![s].half = FALSE]
Other(s) == IF s = "front" THEN "left" ELSE "front"

OnlySwapMoves ==
    UNCHANGED <<staged, installed, service, images, given, raced, spoiled>>

SwapOff(s) ==
    /\ At(s, "swapoff")
    /\ swap' = [swap EXCEPT !.on = FALSE]
    /\ Step(s, "backup")
    /\ OnlySwapMoves /\ UNCHANGED <<cut, recopied>>

NeedsCopy_Mut == TRUE

NeedsCopy == swap.copy = None

(* cp -a /etc/fstab /etc/fstab.kubelift.bak, unless there is such a file when *)
(* the script looks;                                                         *)
BackUp(s) ==
    /\ At(s, "backup")
    /\ shell' = [shell EXCEPT ![s].step = IF NeedsCopy THEN "copy" ELSE "fstab",
                              ![s].half = swap.copy = None]
    /\ UNCHANGED <<target, history>>

(* cp opens fstab as it is by then, and empties a copy that is there by then. *)
(* sed -i below makes a new fstab: a copy under way goes on with the old one. *)
OpenCopy(s) ==
    /\ At(s, "copy")
    /\ swap' = [swap EXCEPT !.copy = [of |-> swap.fstab, whole |-> FALSE]]
    /\ recopied' = (recopied \/ (shell[s].half /\ swap.copy # None /\ swap.fstab = "commented"))
    /\ Step(s, "copying")
    /\ OnlySwapMoves /\ UNCHANGED cut

(* Of two that copy into one file, the last to end leaves it whole. *)
CopyEnds(s) ==
    /\ At(s, "copying")
    /\ swap' = [swap EXCEPT !.copy = IF @ = None THEN None
                                     ELSE [@ EXCEPT !.whole = ~At(Other(s), "copying")]]
    /\ Step(s, "fstab")
    /\ OnlySwapMoves /\ UNCHANGED <<cut, recopied>>

(* The swap lines are commented out, if there are any. *)
EditFstab(s) ==
    /\ At(s, "fstab")
    /\ swap' = [swap EXCEPT !.fstab = IF machine.swapInFstab THEN "commented" ELSE @]
    /\ Step(s, "verify")
    /\ OnlySwapMoves /\ UNCHANGED <<cut, recopied>>

VerifySwap(s) ==
    /\ At(s, "verify")
    /\ Step(s, IF swap.on THEN "failed" ELSE IF shell[s].script = "swap" THEN "ok" ELSE "tools")
    /\ UNCHANGED <<target, history>>

(* The payloads are where the staging directory has them now: once another   *)
(* bundle was staged, they may be of either.                                 *)
FoundFor(s) == IF staged.all = shell[s].of THEN {shell[s].of} ELSE staged.some

NextLine(step) ==
    CASE step = "tools"      -> "programs"
      [] step = "programs"   -> "runtime"
      [] step = "runtime"    -> "containerd"
      [] step = "containerd" -> "kubelet"
      [] step = "kubelet"    -> "ok"

(* A part of the script, which is a file after the other, or a restart, which *)
(* is a stop and a start, begins.                                            *)
Begin(s, step) ==
    /\ At(s, step) /\ ~shell[s].half
    /\ shell' = [shell EXCEPT ![s].half = TRUE]
    /\ spoiled' = IF s = "front" THEN spoiled \ {step} ELSE spoiled

(* Host libraries and tools; kubeadm, kubelet, kubectl and the rest; then    *)
(* containerd with its configuration and the systemd units.                  *)
BeginPart(s, part) ==
    /\ Begin(s, part)
    /\ installed' = [installed EXCEPT ![part] = Torn]
    /\ UNCHANGED <<swap, staged, service, images, given, raced, cut, recopied>>

EndPart(s, part) ==
    /\ Halfway(s, part)
    /\ \E b \in FoundFor(s) :
          /\ installed' = [installed EXCEPT ![part] =
                              IF Halfway(Other(s), part) THEN Torn ELSE b]
          /\ spoiled' = IF s = "left" /\ b # manifest THEN spoiled \cup {part} ELSE spoiled
    /\ Step(s, NextLine(part))
    /\ UNCHANGED <<swap, staged, service, images, given, raced, cut, recopied>>

Upstream(unit) == IF unit = "kubelet" THEN {"containerd"} ELSE {}

(* systemctl enable, systemctl restart; between the two units, is-active.    *)
BeginRestart(s, unit) ==
    /\ \A up \in Upstream(unit) : service[up] = "running"
    /\ Begin(s, unit)
    /\ service' = [service EXCEPT ![unit] = "stopped"]
    /\ UNCHANGED <<swap, staged, installed, images, given, raced, cut, recopied>>

NotActive(s, unit) ==
    /\ At(s, unit) /\ ~shell[s].half
    /\ \E up \in Upstream(unit) : service[up] # "running"
    /\ Step(s, "failed")
    /\ UNCHANGED <<target, history>>

EndRestart(s, unit) ==
    /\ Halfway(s, unit)
    /\ service' = [service EXCEPT ![unit] = "running"]
    /\ Step(s, NextLine(unit))
    /\ UNCHANGED <<swap, staged, installed, images, history>>

Import(s) ==
    /\ At(s, "images")
    /\ IF service["containerd"] = "running"
       THEN (\E b \in FoundFor(s) : images' = images \cup {b}) /\ Step(s, "ok")
       ELSE UNCHANGED images /\ Step(s, "failed")
    /\ UNCHANGED <<swap, staged, installed, service, history>>

Spend(what) == budget[what] > 0 /\ budget' = [budget EXCEPT ![what] = @ - 1]

(* A command of a script fails, or its connection is gone and the shell with *)
(* it: what was half done stays so.                                          *)
CommandFails(s) ==
    /\ Active(s) /\ ~At(s, "copy") /\ ~At(s, "copying") /\ Spend("failures")
    /\ Step(s, "failed")
    /\ spoiled' = IF s = "left" /\ shell[s].half THEN spoiled \cup {shell[s].step} ELSE spoiled
    /\ UNCHANGED <<world, bundleFile, target, process, given, raced, cut, recopied>>

(* When it is the cp in the script of PrepareNode, the script goes on: an `if` *)
(* in a list joined with && is exempt from `set -e`.  cp may leave a part of  *)
(* the copy, or none.                                                        *)
CopyFails(s) ==
    /\ At(s, "copy") \/ At(s, "copying")
    /\ Spend("failures")
    /\ Step(s, IF shell[s].script = "swap" THEN "failed" ELSE "fstab")
    /\ swap' \in {swap, [swap EXCEPT !.copy = None]}
    /\ cut' = TRUE
    /\ UNCHANGED <<world, bundleFile, staged, installed, service, images, process, given,
                   raced, spoiled, recopied>>

ShellStep(s) ==
    /\ \/ SwapOff(s) \/ BackUp(s) \/ OpenCopy(s) \/ CopyEnds(s) \/ EditFstab(s)
       \/ VerifySwap(s) \/ Import(s)
       \/ \E part \in Parts : BeginPart(s, part) \/ EndPart(s, part)
       \/ \E unit \in Services :
             BeginRestart(s, unit) \/ NotActive(s, unit) \/ EndRestart(s, unit)
    /\ UNCHANGED <<world, bundleFile, process, budget>>

-----------------------------------------------------------------------------
(* What else may happen.                                                     *)

Connected == pc \notin {"idle", "load", "local"}

(* kubelift is killed, or its time or the connection is at an end: the shell *)
(* is left behind.  One such shell at a time.                                *)
Break ==
    /\ Connected /\ ~Active("left") /\ Spend("breaks")
    /\ shell' = [front |-> NoShell, left |-> shell.front]
    /\ End("failed")
    /\ UNCHANGED <<world, bundleFile, target, history>>

(* The target goes down and comes back: swap is what fstab, or a unit that   *)
(* is not from fstab, says; and the enabled units are started, which may     *)
(* fail when a part of the software is torn.                                 *)
Reboot ==
    /\ Spend("reboots")
    /\ shell' = [front |-> NoShell, left |-> NoShell]
    /\ swap' = [swap EXCEPT !.on =
          machine.swapUnit \/ (machine.swapInFstab /\ swap.fstab = "original")]
    /\ cut' = (cut \/ At("front", "copying") \/ At("left", "copying"))
    /\ LET torn == \E p \in Parts : installed[p] = Torn IN
       /\ service' = [x \in Services |-> IF service[x] = "absent" THEN "absent"
                                         ELSE IF torn THEN "stopped" ELSE "running"]
       /\ spoiled' = spoiled \cup {p \in Parts : Halfway("left", p)}
                             \cup (IF torn THEN Services ELSE {})
    /\ IF Connected THEN End("failed") ELSE UNCHANGED process
    /\ UNCHANGED <<world, bundleFile, staged, installed, images, given, raced, recopied>>

(* Somebody puts another bundle in place of the configured one. *)
ReplaceBundle(b) ==
    /\ b \in asked.others \ {bundleFile} /\ Spend("replaced")
    /\ bundleFile' = b
    /\ raced' = IF pc = "idle" THEN raced ELSE raced \cup {b}
    /\ UNCHANGED <<world, target, process, shell, given, spoiled, cut, recopied>>

Advance ==
    \/ LoadConfig \/ LocalPreflight \/ CheckRemote \/ SwapPrepared \/ Recheck
    \/ CheckBundle \/ ReportCheck \/ CheckPorts \/ ExtractAndUpload \/ PushReturns
    \/ CheckProfile \/ PrepareNode \/ PrepareReturns \/ ImportImages \/ ImagesReturn

Next ==
    \/ \E c \in Commands : Start(c)
    \/ Advance
    \/ \E s \in {"front", "left"} : ShellStep(s) \/ CommandFails(s) \/ CopyFails(s)
    \/ Break \/ Reboot
    \/ \E b \in Bundles : ReplaceBundle(b)

Spec == Init /\ [][Next]_vars

(* Processes and shells run on; operators give each command again and again. *)
FairSpec ==
    /\ Spec
    /\ WF_vars(Advance)
    /\ \A s \in {"front", "left"} : WF_vars(ShellStep(s))
    /\ \A c \in Commands : SF_vars(Start(c))
=============================================================================
