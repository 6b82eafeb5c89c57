------------------------------- MODULE MCNode -------------------------------
(***************************************************************************)
(* Settings of NodeCommands for TLC: what varies is varied in families,    *)
(* each with the rest plain.                                               *)
(***************************************************************************)
EXTENDS NodeProperties

CONSTANTS hub, ghcr, dot, ill, v1, v2

(* Bundles: a complete one, from a tree that keeps to the conventions; and    *)
(* what can be wrong with one, in a manifest written by hand.                *)
File(dir, base, role) ==
    [dir |-> dir, base |-> base, role |-> role, kind |-> KindOf[dir], size |-> 1]

Path(dir, base) == [dir |-> dir, base |-> base, size |-> 1]

Tree == <<
    Path("bin", "kubeadm"), Path("bin", "kubelet"), Path("bin", "kubectl"),
    Path("cri", "containerd.tar.gz"), Path("etcContainerd", "config.toml"),
    Path("etcSystemd", "containerd.service"), Path("etcSystemd", "kubelet.service"),
    Path("manifests", "cilium.yaml.tmpl"), Path("manifests", "registry.yaml.tmpl"),
    Path("images", "kubernetes.tar"), Path("images", "cilium.tar"), Path("images", "registry.tar"),
    Path("systemBin", "iptables"), Path("systemBin", "ethtool"), Path("systemBin", "conntrack"),
    Path("systemLib", "libnetfilter.so")>>

ASSUME NeedsNoRoles == GenerateAccepts(Tree, {})

Files(tree, roles) == SubSeq(Generate(tree, roles), 1, Len(tree))

FullFiles == Files(Tree, {})

Full == [patterns |-> TRUE, version |-> v1, arch |-> "amd64", ubuntus |-> {"22.04", "24.04"},
         files |-> FullFiles]

(* Such a tree needs no role on the command line. *)
ASSUME ConventionalIsComplete == ClusterProfile(Full, TRUE) /\ PrepareAccepts(Full)

ExtraRole(dir, base, role) == [dir |-> dir, base |-> base, role |-> role]

(* A unit by another name has to be given its role, and no file another one   *)
(* than its conventional role.                                               *)
ASSUME RolesAreKept ==
    LET more == Append(Tree, Path("etc", "extra.service")) IN
    /\ GenerateAccepts(more, {ExtraRole("etc", "extra.service", "systemdUnit")})
    /\ ~GenerateAccepts(Tree, {ExtraRole("etc", "extra.service", "systemdUnit")})
    /\ ~GenerateAccepts(Tree, {ExtraRole("bin", "kubeadm", "criTool")})

With(files) == [Full EXCEPT !.files = files]
Without(i)  == With(SubSeq(FullFiles, 1, i - 1) \o SubSeq(FullFiles, i + 1, Len(FullFiles)))
Plus(file)  == With(Append(FullFiles, file))
Sized(n)    == With([i \in DOMAIN FullFiles |->
                        IF i <= n THEN [FullFiles[i] EXCEPT !.size = MaxSize] ELSE FullFiles[i]])

Others == <<
    Full,
    [Full EXCEPT !.ubuntus = {"22.04", "24.04", "26.04"}],
    [Full EXCEPT !.arch = "arm64"],
    [Full EXCEPT !.ubuntus = {"24.04"}],
    [Full EXCEPT !.version = v2],
    [Full EXCEPT !.patterns = FALSE],
    Plus(FullFiles[1]),
    Plus(File("bin", "kubeadm2", "kubeadm")),
    With(Files(Append(Tree, Path("bin", "conntrack")), {})),
    Plus(File("bin", "registry", "registryImage")),
    With(Files(Append(Tree, Path("etc", "extra.service")),
               {ExtraRole("etc", "extra.service", "systemdUnit")})),
    Plus(File("images", "kubelet.service", "systemdUnit")),
    Plus(File("systemBinSub", "iptables", "hostTool")),
    Plus(File("systemBinSub", "nft", "hostTool")),
    Plus(File("systemLibSub", "libnetfilter.so", "hostLibrary")),
    Plus(File("system", "lib.so", "hostLibrary")),
    Plus(File("images", "more.tar", "none")),
    Sized(2), Sized(3), Plus(File("bin", "unsafe", "none"))>>

Variants  == Others \o [i \in DOMAIN FullFiles |-> Without(i)]
BundleIds == DOMAIN Variants

-----------------------------------------------------------------------------
(* Configurations: Width = 3 bits of address; 0 and the broadcast address 7   *)
(* are unusable, 5 is link-local.                                            *)
PlainConfig ==
    [patterns |-> TRUE, version |-> v1, advertise |-> 1, endpoint |-> Named,
     network |-> [pod |-> [address |-> 4, bits |-> 2], service |-> [address |-> 6, bits |-> 3]],
     registry |-> [enabled |-> TRUE, port |-> 5000], sshPort |-> 22,
     legacyMirror |-> [enabled |-> FALSE, endpoint |-> "blank"], mirrors |-> {}]

(* All the canonical ones, and two that are not.                             *)
Prefixes ==
    {p \in [address : Addresses, bits : 0..Width] : Canonical(p)}
      \cup {[address |-> 5, bits |-> 1], [address |-> 3, bits |-> 2]}

Networks == {[PlainConfig EXCEPT !.network = [pod |-> p, service |-> s], !.endpoint = e] :
                p \in Prefixes, s \in Prefixes, e \in {Absent, 2}}

Ports == {[PlainConfig EXCEPT !.registry = [enabled |-> on, port |-> p], !.sshPort = q] :
                on \in BOOLEAN, p \in {0, 22, 5000, 6443, 65535, 65536}, q \in {0, 22, 5000}}

Mirror(registry, spelling, endpoint) ==
    [registry |-> registry, spelling |-> spelling, endpoint |-> endpoint]

Mirrors == {[PlainConfig EXCEPT !.mirrors = m, !.legacyMirror = l] :
                m \in {{}, {Mirror(hub, "plain", "good")}, {Mirror(ghcr, "plain", "blank")},
                       {Mirror(ghcr, "plain", "good"), Mirror(ghcr, "padded", "good")},
                       {Mirror(dot, "plain", "good")}, {Mirror(ill, "plain", "good")}},
                l \in {[enabled |-> on, endpoint |-> e] :
                           on \in BOOLEAN, e \in {"good", "blank", "bad"}}}

Odd == {[PlainConfig EXCEPT !.patterns = FALSE], [PlainConfig EXCEPT !.advertise = 0],
        [PlainConfig EXCEPT !.endpoint = 0], [PlainConfig EXCEPT !.version = v2]}

-----------------------------------------------------------------------------
PlainHost == [arch |-> "amd64", ubuntu |-> "24.04", fails |-> {}]

PlainMachine == [arch |-> "amd64", ubuntu |-> "24.04", fails |-> {}, ports |-> {},
                 swapOn |-> TRUE, swapInFstab |-> TRUE, swapUnit |-> FALSE, space |-> 9]

Calm == [breaks |-> 0, failures |-> 0, reboots |-> 0, replaced |-> 0]

PlainAsked == [commands |-> Commands, address |-> 3, role |-> "worker", others |-> {}]

Plain == [config |-> PlainConfig, master0 |-> PlainHost, machine |-> PlainMachine,
          asked |-> PlainAsked, bundle |-> 1, budget |-> Calm]

Storm(commands, others, breaks, failures, reboots, replaced) ==
    [Plain EXCEPT !.asked.commands = commands, !.asked.others = others,
        !.budget = [breaks |-> breaks, failures |-> failures, reboots |-> reboots,
                    replaced |-> replaced]]

(* Shells left behind, failures and reboots; bundles replaced between and     *)
(* during commands, also by some that do not fit.                            *)
StormA == {Storm({"prepare"}, {}, 1, 1, 1, 0)}
StormB == {Storm({"prepare"}, {2}, 1, 0, 0, 1)}
StormC == {Storm({"push", "prepare", "images", "add"}, {1, 3, 8}, 0, 0, 0, 2)}
StormD == {Storm({"images", "prepare"}, {}, 1, 0, 0, 0)}
Storms == StormA \cup StormB \cup StormC \cup StormD

(* Room for nothing, and for the files of one bundle but not for its images.  *)
Cramped ==
    {[Storm({"prepare", "add"}, {}, 1, 0, 0, 0) EXCEPT !.machine.space = n] :
        n \in 0..1}

ConfigFamily ==
    {[Plain EXCEPT !.config = c, !.asked.commands = {"add"}, !.asked.address = a] :
        c \in Networks, a \in {1, 2, 3, 4, 5, 7}}
      \cup {[Plain EXCEPT !.config.endpoint = e, !.asked.commands = {"add"},
                          !.asked.role = "master"] : e \in {Absent, Named, 2}}
      \cup {[Plain EXCEPT !.config = c, !.asked.commands = {"prepare"}] :
               c \in Ports \cup Mirrors \cup Odd}

BundleFamily ==
    {[Plain EXCEPT !.bundle = b, !.config.registry.enabled = on,
                   !.asked.commands = {"prepare", "images", "add"}] :
        b \in BundleIds, on \in BOOLEAN}

MachineFamily ==
    {[Plain EXCEPT !.machine.arch = a, !.machine.ubuntu = u, !.machine.fails = f,
                   !.machine.ports = p, !.machine.swapOn = on, !.asked.role = r] :
        a \in {"amd64", "arm64"}, u \in {"22.04", "26.04"}, f \in {{}, {"CPU"}},
        p \in {{}, {6443}, {10250}}, on \in BOOLEAN, r \in {"worker", "master"}}
      \cup {[Plain EXCEPT !.machine.swapOn = on, !.machine.swapInFstab = tab,
                          !.machine.swapUnit = unit] :
               on \in BOOLEAN, tab \in BOOLEAN, unit \in BOOLEAN}
      \cup {[Plain EXCEPT !.master0.fails = {"disk"}], [Plain EXCEPT !.master0.arch = "arm64"],
            [Plain EXCEPT !.master0.ubuntu = "26.04"]}

AllSettings == Storms \cup Cramped \cup ConfigFamily \cup BundleFamily \cup MachineFamily
=============================================================================
