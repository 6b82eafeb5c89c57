---------------------------- MODULE BundleProfile ---------------------------
(***************************************************************************)
(* What a bundle must hold: Manifest.Validate (internal/bundle/            *)
(* manifest.go) and ValidateClusterProfile (profile.go), and what the two  *)
(* installers ask of it later, before their first command: PrepareNode     *)
(* (internal/install/prepare.go) and ImportImages (images.go).  A manifest *)
(* has a platform and a sequence of files; a path is a directory and a     *)
(* base name.                                                              *)
(***************************************************************************)
EXTENDS Integers, Sequences, FiniteSets

CONSTANTS
    MaxFiles,  \* maxPayloadFiles
    MaxSize,   \* maxPayloadFileSize
    MaxTotal,  \* maxTotalPayloadSize
    CiliumTars, RegistryTars, OtherTars  \* names in images/, by prefix, that end in .tar

ASSUME LimitsAssumption == MaxFiles \in Nat /\ MaxSize \in Nat /\ MaxTotal \in Nat

KindOf ==
    [bin |-> "binary", etc |-> "config", etcContainerd |-> "config", etcSystemd |-> "config", images |-> "image", manifests |-> "manifest",
     cri |-> "runtime", scripts |-> "script", system |-> "system", systemBin |-> "system",
     systemBinSub |-> "system", systemLib |-> "system", systemLibSub |-> "system"]

(* artifactRoleKinds, and where the two roles for host files must be. *)
RoleKind ==
    [kubeadm |-> "binary", kubelet |-> "binary", kubectl |-> "binary",
     containerd |-> "runtime", runc |-> "binary", systemdUnit |-> "config",
     containerdConfig |-> "config", kubeletConfig |-> "config", initScript |-> "script",
     cniPlugin |-> "binary", criTool |-> "binary", kubernetesImage |-> "image",
     ciliumImage |-> "image", registryImage |-> "image", ciliumManifest |-> "manifest",
     registryManifest |-> "manifest", hostTool |-> "system", hostLibrary |-> "system"]

(* The base name "unsafe" stands for every one that holds a backslash. *)
ValidFile(file) ==
    /\ file.base # "unsafe"
    /\ file.kind = KindOf[file.dir]
    /\ file.role # "none" => file.role \in DOMAIN RoleKind /\ RoleKind[file.role] = file.kind
    /\ file.role = "hostTool" => file.dir \in {"systemBin", "systemBinSub"}
    /\ file.role = "hostLibrary" => file.dir \in {"systemLib", "systemLibSub"}
    /\ file.size \in 1..MaxSize

(* totalSize after n files. *)
RunningTotal(files) ==
    LET total[n \in 0..Len(files)] == IF n = 0 THEN 0 ELSE total[n - 1] + files[n].size
    IN  total

(* The total is compared before it grows: totalSize > max - size. *)
TotalAccepted(files) ==
    \A n \in 1..Len(files) : RunningTotal(files)[n - 1] <= MaxTotal - files[n].size

SamePath(f, g) == f.dir = g.dir /\ f.base = g.base

ValidManifest(m) ==
    /\ m.patterns                       \* the metadata, each by a pattern of its own
    /\ m.ubuntus # {}
    /\ Len(m.files) \in 1..MaxFiles
    /\ \A i \in DOMAIN m.files : ValidFile(m.files[i])
    /\ \A i, j \in DOMAIN m.files : SamePath(m.files[i], m.files[j]) => i = j
    /\ TotalAccepted(m.files)

(* conventionalArtifactRoles, as <<directory, base name, role>>. *)
Conventions == {
    <<"bin", "kubeadm", "kubeadm">>, <<"bin", "kubelet", "kubelet">>,
    <<"bin", "kubectl", "kubectl">>, <<"bin", "crictl", "criTool">>,
    <<"bin", "conntrack", "criTool">>, <<"bin", "runc", "runc">>,
    <<"cri", "containerd.tar.gz", "containerd">>,
    <<"etcContainerd", "config.toml", "containerdConfig">>,
    <<"etcSystemd", "containerd.service", "systemdUnit">>,
    <<"etcSystemd", "kubelet.service", "systemdUnit">>,
    <<"manifests", "cilium.yaml.tmpl", "ciliumManifest">>,
    <<"manifests", "registry.yaml.tmpl", "registryManifest">>,
    <<"scripts", "init.sh", "initScript">>}

(* The roles a path may have by convention: one, or "none". *)
ConventionalRole(dir, base) ==
    LET named == {c[3] : c \in {d \in Conventions : d[1] = dir /\ d[2] = base}}
    IN  CASE named # {} -> CHOOSE role \in named : TRUE
          [] dir \in {"systemBin", "systemBinSub"} -> "hostTool"
          [] dir \in {"systemLib", "systemLibSub"} -> "hostLibrary"
          [] dir = "images" /\ base \in CiliumTars -> "ciliumImage"
          [] dir = "images" /\ base \in RegistryTars -> "registryImage"
          [] dir = "images" /\ base \in OtherTars -> "kubernetesImage"
          [] OTHER -> "none"

(* What WriteManifest declares for the files of a tree, each with its kind by *)
(* its directory, and the roles of the command line.                         *)
RoleOf(path, roles) ==
    IF \E r \in roles : SamePath(r, path)
    THEN (CHOOSE r \in roles : SamePath(r, path)).role
    ELSE ConventionalRole(path.dir, path.base)

Generate(tree, roles) ==
    [i \in DOMAIN tree |-> [dir |-> tree[i].dir, base |-> tree[i].base, size |-> tree[i].size,
                            kind |-> KindOf[tree[i].dir], role |-> RoleOf(tree[i], roles)]]

(* No role is for a file that is not there, two roles for one file, or other  *)
(* than the convention.                                                      *)
GenerateAccepts(tree, roles) ==
    /\ \A r \in roles :
          /\ \E i \in DOMAIN tree : SamePath(tree[i], r)
          /\ ConventionalRole(r.dir, r.base) \in {"none", r.role}
    /\ \A r, s \in roles : SamePath(r, s) => r = s

FilesForRole(m, role) == {i \in DOMAIN m.files : m.files[i].role = role}

Exactly(n, m, role) == Cardinality(FilesForRole(m, role)) = n

Some(m, role) == FilesForRole(m, role) # {}

WithBase(m, role, base) == {i \in FilesForRole(m, role) : m.files[i].base = base}

ClusterProfile_Mut(m, registry) ==
    /\ ValidManifest(m)
    /\ \A role \in {"kubeadm", "kubelet", "kubectl", "containerd", "containerdConfig",
                    "ciliumManifest"} : Some(m, role)
    /\ \A role \in {"kubernetesImage", "ciliumImage", "hostLibrary"} : Some(m, role)

ClusterProfile(m, registry) ==
    /\ ValidManifest(m)
    /\ \A role \in {"kubeadm", "kubelet", "kubectl", "containerd", "containerdConfig",
                    "ciliumManifest"} : Exactly(1, m, role)
    /\ \A role \in {"kubernetesImage", "ciliumImage", "hostLibrary"} : Some(m, role)
    /\ \A tool \in {"iptables", "ethtool", "conntrack"} :
          Cardinality(WithBase(m, "hostTool", tool)) = 1
    /\ \A unit \in {"containerd.service", "kubelet.service"} :
          Cardinality(WithBase(m, "systemdUnit", unit)) = 1
    /\ registry => Some(m, "registryImage") /\ Exactly(1, m, "registryManifest")

-----------------------------------------------------------------------------
(* Files of one role are installed under their base names, in one directory. *)
DistinctBases(m, role) ==
    \A i, j \in FilesForRole(m, role) : m.files[i].base = m.files[j].base => i = j

(* PrepareNode, before it runs anything. *)
PrepareAccepts(m) ==
    /\ ValidManifest(m)
    /\ DistinctBases(m, "hostLibrary") /\ DistinctBases(m, "hostTool")
    /\ \A role \in {"kubeadm", "kubelet", "kubectl", "containerd", "containerdConfig"} :
          Exactly(1, m, role)
    /\ \A i \in FilesForRole(m, "systemdUnit") :
          m.files[i].base \in {"containerd.service", "kubelet.service"}
    /\ DistinctBases(m, "systemdUnit") /\ Exactly(2, m, "systemdUnit")

ImagesAccept(m, registry) ==
    /\ ValidManifest(m)
    /\ Some(m, "kubernetesImage") /\ Some(m, "ciliumImage")
    /\ registry => Some(m, "registryImage")

(* The only things the profile does not ask for and PrepareNode does. *)
KnownGaps(m) ==
    \/ ~DistinctBases(m, "hostLibrary") \/ ~DistinctBases(m, "hostTool")
    \/ \E i \in FilesForRole(m, "systemdUnit") :
          m.files[i].base \notin {"containerd.service", "kubelet.service"}
=============================================================================
