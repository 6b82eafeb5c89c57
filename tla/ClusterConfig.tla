---------------------------- MODULE ClusterConfig ---------------------------
(***************************************************************************)
(* What the configuration file and the address of a target must be:        *)
(* config.Validate (internal/config/config.go), AddPlan                    *)
(* (internal/workflow/plan.go) and parseSSHAddress (cmd/check_ssh.go), as  *)
(* operators.  IPv4 addresses have Width bits.  The fields that one        *)
(* pattern decides alone (apiVersion, kind, metadata.name, the version's   *)
(* form, absolute paths, the SSH user) are one Boolean, patterns.          *)
(***************************************************************************)
EXTENDS Naturals

CONSTANTS
    Width,      \* bits of an address
    Unusable,   \* addresses that are unspecified, loopback, multicast or broadcast
    LinkLocal,  \* link-local addresses
    Broadcast,  \* 255.255.255.255, one of Unusable
    Named,      \* a control-plane endpoint given by host name
    DockerHub,  \* "docker.io"
    Dotted,     \* registry names that end in a dot
    Malformed,  \* registry names that are no host names at all
    Absent      \* no control-plane endpoint

(* The number of addresses that agree in all but n bits. *)
BlockSize[n \in Nat] == IF n = 0 THEN 1 ELSE 2 * BlockSize[n - 1]

Addresses == 0..(BlockSize[Width] - 1)

ASSUME WidthAssumption == Width \in Nat
ASSUME SpecialAssumption ==
    /\ Unusable \subseteq Addresses /\ LinkLocal \subseteq Addresses
    /\ Broadcast \in Unusable
    /\ {Absent, Named} \cap Addresses = {} /\ Absent # Named
    /\ DockerHub \notin Dotted \cup Malformed /\ Dotted \cap Malformed = {}

(* netip.Prefix: an address and a number of leading bits. *)
IsPrefix(p) == p \in [address : Addresses, bits : 0..Width]

Leading(a, bits) == a \div BlockSize[Width - bits]

Contains(prefix, a) == Leading(a, prefix.bits) = Leading(prefix.address, prefix.bits)

Shorter(m, n) == IF m <= n THEN m ELSE n

Overlaps_Mut(p, q) == p.bits <= q.bits /\ Contains(p, q.address)

Overlaps(p, q) ==
    LET bits == Shorter(p.bits, q.bits)
    IN  Leading(p.address, bits) = Leading(q.address, bits)

(* prefix = prefix.Masked() *)
Canonical(prefix) == prefix.address % BlockSize[Width - prefix.bits] = 0

-----------------------------------------------------------------------------
IsUsableUnicast(a) == a \notin Unusable

ValidPort(port) == port \in 1..65535

(* Of the ports of a kubeadm control plane. *)
ReservedRegistryPorts == {2379, 2380, 6443, 10250, 10257, 10259}

ValidEndpoint(endpoint) == endpoint \in Addresses => IsUsableUnicast(endpoint)

ValidNetwork(network, advertise) ==
    /\ Canonical(network.pod) /\ Canonical(network.service)
    /\ ~Overlaps(network.pod, network.service)
    /\ ~Contains(network.pod, advertise) /\ ~Contains(network.service, advertise)

ValidRegistryPort(registry, sshPort) ==
    /\ ValidPort(registry.port)
    /\ registry.enabled => registry.port \notin ReservedRegistryPorts \cup {sshPort}

(* The keys of registry.mirrors are trimmed and put into lower case: two of   *)
(* them, told apart by `spelling`, may be the same registry.  The legacy      *)
(* mirror is one for Docker Hub.  An endpoint is a good URL, blank or bad.    *)
ValidMirrors(legacy, mirrors) ==
    /\ legacy.endpoint # "bad"
    /\ legacy.enabled => legacy.endpoint # "blank"
    /\ \A m \in mirrors :
          /\ m.registry \notin Malformed
          /\ legacy.enabled => m.registry # DockerHub
          /\ \A n \in mirrors \ {m} : n.registry # m.registry
          /\ m.endpoint = "good"

ValidConfig(c) ==
    /\ c.patterns
    /\ IsUsableUnicast(c.advertise)
    /\ c.endpoint # Absent => ValidEndpoint(c.endpoint)
    /\ ValidNetwork(c.network, c.advertise)
    /\ ValidPort(c.sshPort)
    /\ ValidRegistryPort(c.registry, c.sshPort)
    /\ ValidMirrors(c.legacyMirror, c.mirrors)

(* MirrorEndpoints: which registries get a mirror. *)
MirroredRegistries(c) ==
    {m.registry : m \in c.mirrors} \cup (IF c.legacyMirror.enabled THEN {DockerHub} ELSE {})

(* normalizeRegistryMirrors of PrepareNode: its pattern for host names is     *)
(* narrower than that of the configuration.                                  *)
PrepareAcceptsMirrors(c) == MirroredRegistries(c) \cap (Malformed \cup Dotted) = {}

-----------------------------------------------------------------------------
(* The target of a command, on its command line. *)

ParseSSHAddress(a) == a \notin (Unusable \ {Broadcast}) \cup LinkLocal

ValidTargetAddress(c, a) ==
    /\ a \notin Unusable \cup LinkLocal
    /\ a # c.advertise /\ a # c.endpoint
    /\ ~Contains(c.network.pod, a) /\ ~Contains(c.network.service, a)

AddPlanAccepts(c, role, a) ==
    /\ ValidTargetAddress(c, a)
    /\ role = "master" => c.endpoint # Absent

-----------------------------------------------------------------------------
(* What the rules are for: the machines and the two networks of the cluster  *)
(* are pairwise apart, counted address by address.                           *)
Members(prefix) == prefix.address..(prefix.address + BlockSize[Width - prefix.bits] - 1)

Apart(c, target) ==
    /\ Members(c.network.pod) \cap Members(c.network.service) = {}
    /\ {c.advertise, target} \cap (Members(c.network.pod) \cup Members(c.network.service)) = {}
    /\ target \notin {c.advertise, c.endpoint}
=============================================================================
