---------------------------- MODULE NodeProperties --------------------------
(***************************************************************************)
(* What the commands for one target promise: properties of NodeCommands.   *)
(***************************************************************************)
EXTENDS NodeCommands

HasGaps == [b \in Bundles |-> KnownGaps(Manifest[b])]

(* What the checks are there to ensure of a bundle, stated in one piece:      *)
(* made for the configured Kubernetes version, for the platforms of Master0  *)
(* and the target, and complete.                                             *)
Fits(b) ==
    LET m == Manifest[b] IN
    /\ m.version = config.version
    /\ m.arch = master0.arch /\ m.arch = machine.arch
    /\ {master0.ubuntu, machine.ubuntu} \subseteq m.ubuntus
    /\ Complete[b][config.registry.enabled]

(* No file of a bundle that does not fit ever gets to the target, be it       *)
(* staged, installed or imported: except a bundle that was put in place      *)
(* while a command was under way, which Push opens without a further look.   *)
OnlyFittingFiles ==
    \A b \in Bundles :
        b \in staged.some \cup images \cup {installed[p] : p \in Parts} =>
            Fits(b) \/ b \in raced

(* Each command changes no more than its part of the target.  Swap is turned  *)
(* off and /etc/fstab copied and edited only for an installation, when       *)
(* nothing else is wrong with the target, though before the bundle and the   *)
(* ports are looked at (add.go:100-112): a target refused for these has lost *)
(* its swap, but nothing is staged, installed or imported there.             *)
ChangesWithinPart ==
    LET Sent(commands) == given \cap commands # {}
        SwapChanged == \/ swap.copy # None \/ swap.fstab = "commented"
                       \/ machine.swapOn /\ ~swap.on /\ (machine.swapUnit \/ machine.swapInFstab)
    IN
    /\ SwapChanged => machine.fails = {} /\ Sent({"prepare", "add"})
    /\ staged.some # {} =>
          /\ machine.fails = {} /\ master0.fails = {}
          /\ Sent({"push", "prepare", "images", "add"})
          /\ given \subseteq {"check", "add"} => machine.ports \cap RequiredPorts = {}
    /\ (\E p \in Parts : installed[p] # None) \/ (\E x \in Services : service[x] # "absent") =>
          Sent({"prepare", "add"})
    /\ images # {} => Sent({"images", "add"})

(* `bundle prepare`, and the preparation of `add`, report success only for a  *)
(* target whose software is all from the bundle that was pushed, with the    *)
(* services running and swap off, also after a reboot; although shells of    *)
(* interrupted commands may have been at work at the same time.  What such a *)
(* shell is in the middle of, has left half done or has done for another     *)
(* bundle is excepted, part by part and unit by unit, until a command does   *)
(* it again; so is swap that comes from elsewhere than /etc/fstab.           *)
PreparedIsWhole ==
    outcome = "done" /\ command \in {"prepare", "add"} =>
        /\ \A p \in Parts \ spoiled : installed[p] = manifest \/ Halfway("left", p)
        /\ \A x \in Services \ spoiled : service[x] = "running" \/ Halfway("left", x)
        /\ swap.on => machine.swapUnit
        /\ machine.swapInFstab => swap.fstab = "commented"
        /\ command = "add" => manifest \in images

(* Once fstab was changed, /etc/fstab.kubelift.bak holds the file as it was   *)
(* before, however often kubelift ran and was interrupted; unless a copy was *)
(* cut short, or one shell copied what another had changed since it looked.  *)
BackupIsOriginal ==
    swap.fstab = "commented" /\ ~cut /\ ~recopied =>
        /\ swap.copy # None /\ swap.copy.of = "original"
        /\ swap.copy.whole \/ \E s \in {"front", "left"} : At(s, "copying")

Gaps(b) == HasGaps[b] \/ MirroredRegistries(config) \cap Dotted # {}

(* A bundle and a configuration that pass the checks of the beginning are     *)
(* refused after staging only for the few things that PrepareNode is         *)
(* stricter about: a base name twice, a systemd unit too many, a registry    *)
(* name with a trailing dot; or the bundle was replaced.                     *)
LateRefusals ==
    outcome = "unfit" =>
        \/ Gaps(manifest)
        \/ manifest \in raced

(* A machine is only connected to for an addition if it, Master0 and the two  *)
(* networks of the cluster have no address in common.                        *)
AddressesApart ==
    command = "add" /\ pc \notin {"idle", "load"} => Apart(config, asked.address)

(* `bundle prepare` gets through: in the end it succeeds, or something that   *)
(* does not depend on how often it is given is in the way; or /var/lib is    *)
(* full of what earlier commands have staged and imported, which only an     *)
(* operator removes.                                                         *)
Prepared == outcome = "done" /\ command = "prepare"

NeedsOperator ==
    \/ ~ValidConfig(config) \/ ~ParseSSHAddress(asked.address)
    \/ master0.fails # {} \/ machine.fails # {} \/ "prepare" \notin asked.commands
    \/ ~Fits(bundleFile)
    \/ Gaps(bundleFile)
    \/ ~DiskSuffices

GetsPrepared == <>(Prepared \/ NeedsOperator)
=============================================================================
