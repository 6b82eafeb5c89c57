----------------------------- MODULE BundleFormat ---------------------------
(***************************************************************************)
(* The offline bundle as a file format (internal/bundle/inspect.go,        *)
(* manifest.go): a compressed tar whose first entry is the manifest, which *)
(* declares size and SHA-256 of every payload; contents stand for both.    *)
(***************************************************************************)
EXTENDS Naturals, Sequences

CONSTANTS
    Paths,     \* safe payload paths
    Contents,  \* payloads, told apart by their SHA-256
    SizeOf,    \* and their sizes
    Under,     \* pairs of paths, the first below the second
    None       \* no such file

ASSUME ContentsAssumption == SizeOf \in [Contents -> Nat] /\ None \notin Contents
ASSUME UnderAssumption == Under \subseteq Paths \X Paths
ASSUME NamesAssumption == Paths \cap {"manifest.yaml", "unsafe"} = {}

(* One path would be a directory on the way to the other: no file system has  *)
(* both as files, although a manifest may declare both.                      *)
Exclude(p, q) == <<p, q>> \in Under \/ <<q, p>> \in Under

OnFileSystem(files) ==
    \A p, q \in Paths : Exclude(p, q) => files[p] = None \/ files[q] = None

(* Manifest.Validate: at least one payload, and no path declared twice. *)
Manifests == UNION {[S -> Contents] : S \in (SUBSET Paths) \ {{}}}

Names == Paths \cup {"manifest.yaml", "unsafe"}

(* Regular files, directories, and entries of any other type. *)
Entries ==
    [type : {"file"}, name : Names, content : Contents]
        \cup [type : {"dir", "other"}, name : Names]

Payloads(entries) == {i \in DOMAIN entries : entries[i].type = "file"}

(* What the entries after the manifest must be for the bundle to be usable:  *)
(* safe and pairwise distinct names, and files as declared, *)
Sound(manifest, entries) ==
    /\ \A i \in DOMAIN entries :
          entries[i].name \in Paths /\ entries[i].type \in {"file", "dir"}
    /\ \A i, j \in DOMAIN entries : entries[i].name = entries[j].name => i = j
    /\ \A i \in Payloads(entries) :
          /\ entries[i].name \in DOMAIN manifest
          /\ entries[i].content = manifest[entries[i].name]

(* all of them. *)
Complete(manifest, entries) ==
    \A p \in DOMAIN manifest : \E i \in Payloads(entries) : entries[i].name = p
=============================================================================
