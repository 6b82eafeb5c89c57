---------------------------- MODULE BundlePipeline --------------------------
(***************************************************************************)
(* A bundle on its way: WriteManifest describes the source, Create makes   *)
(* an archive of it, Inspect or Extract reads the archive, all of them at  *)
(* the same time.  Or somebody hands over an archive of his own.           *)
(***************************************************************************)
EXTENDS BundleFormat, FiniteSets

CONSTANTS
    Writers, Creators, Nothing, \* see BundleManifest, BundleCreate
    MaxEntries, MaxLength,      \* see BundleReader
    Scenarios                   \* what a behaviour starts with, see Init

ASSUME BoundsAssumption == MaxEntries \in Nat /\ MaxLength \in Nat

(* maxArchiveEntries is above maxPayloadFiles, what a manifest may declare.  *)
ASSUME PathsAssumption == IsFiniteSet(Paths) /\ Cardinality(Paths) <= MaxEntries

VARIABLES
    source, manifest, place, found, at, scanned,   \* BundleManifest
    declared, pc, todo, archive, output,           \* BundleCreate
    given, entries, ended, seen, payloads, sink, extracted, result, \* BundleReader
    origin,    \* whose archive is read: a creator's, or Nothing for a foreign one
    setting,   \* who is at work, and the manifests of foreign archives
    edits,     \* bound: changes to the source left
    touched    \* history: the payloads that were changed

M == INSTANCE BundleManifest
C == INSTANCE BundleCreate
R == INSTANCE BundleReader WITH manifest <- given

ofManifest == <<place, found, at, scanned>>
ofCreate   == <<declared, pc, todo, archive, output>>
ofReader   == <<given, entries, ended, seen, payloads, sink, extracted, result>>
rest       == <<setting, edits, touched>>
vars == <<source, manifest, ofManifest, ofCreate, ofReader, origin, rest>>

PipelineTypeOK ==
    /\ M!TypeOK /\ C!TypeOK /\ R!TypeOK
    /\ origin \in Creators \cup {Nothing}
    /\ touched \subseteq Paths /\ edits \in Nat

ASSUME NothingAssumption == Nothing \notin Writers \cup Creators \cup M!ManifestFiles

(* A manifest that is there at the beginning was written by hand.  Archives   *)
(* are either those of the creators or foreign ones.                         *)
ASSUME ScenariosAssumption ==
    \A s \in Scenarios :
        /\ s.source \in [Paths -> Contents \cup {None}] /\ OnFileSystem(s.source)
        /\ s.manifest \in M!ManifestFiles \cup {Nothing}
        /\ s.manifest # Nothing => s.manifest.by = Nothing
        /\ s.setting.writers \subseteq Writers /\ s.setting.creators \subseteq Creators
        /\ s.setting.foreign \subseteq Manifests
        /\ s.setting.foreign = {} \/ ~s.setting.reader
        /\ s.edits \in Nat

Init ==
    /\ M!Init /\ C!Init /\ R!Init
    /\ \E s \in Scenarios :
          /\ source = s.source /\ manifest = s.manifest
          /\ setting = s.setting /\ edits = s.edits
    /\ origin = Nothing /\ touched = {}

-----------------------------------------------------------------------------
Describe ==
    /\ (\E w \in setting.writers : M!Step(w)) \/ M!RemoveLeftover
    /\ UNCHANGED <<ofCreate, ofReader, origin, rest>>

EditSource ==
    /\ edits > 0 /\ edits' = edits - 1
    /\ \E p \in Paths, content \in Contents \cup {None} :
          M!Edit(p, content) /\ touched' = touched \cup {p}
    /\ UNCHANGED <<ofCreate, ofReader, origin, setting>>

CreateBundle ==
    /\ (\E c \in setting.creators : C!Step(c)) \/ C!RemoveLeftover
    /\ UNCHANGED <<ofManifest, ofReader, origin, rest>>

(* The archive of a creator is read from the output path while it grows.     *)
OpenOutput ==
    /\ setting.reader /\ output # Nothing
    /\ origin' = output
    /\ R!Open(declared[output]) \/ (~archive[output].ended /\ R!OpenNoManifest)
    /\ UNCHANGED <<source, manifest, ofManifest, ofCreate, rest>>

ReadOutput ==
    /\ origin # Nothing
    /\ LET file == archive[origin] IN
       \/ /\ Len(entries) < Len(file.entries)
          /\ R!ReadEntry(file.entries[Len(entries) + 1])
       \/ file.ended /\ Len(entries) = Len(file.entries) /\ R!ReadEnd("clean")
       \/ ~file.ended /\ R!ReadEnd("broken")
    /\ UNCHANGED <<source, manifest, ofManifest, ofCreate, origin, rest>>

ReadForeign ==
    /\ setting.foreign # {}
    /\ \/ \E m \in setting.foreign : R!Open(m)
       \/ R!OpenNoManifest
       \/ \E entry \in Entries : R!ReadEntry(entry)
       \/ \E how \in {"clean", "trailing", "broken"} : R!ReadEnd(how)
    /\ UNCHANGED <<source, manifest, ofManifest, ofCreate, origin, rest>>

Next ==
    \/ Describe \/ EditSource \/ CreateBundle
    \/ OpenOutput \/ ReadOutput \/ ReadForeign

Spec == Init /\ [][Next]_vars

-----------------------------------------------------------------------------
(* Properties.                                                               *)

(* readArchive accepts exactly the usable bundles, see BundleReader.         *)
AcceptsUsable == R!AcceptsUsable

Done == {c \in Creators : pc[c] = "done"}

(* Once a process has reported success, the output path holds a bundle that  *)
(* is usable, and it stays: no edit of the source, no other process and no   *)
(* crash takes it away ("avoid overwriting a bundle already distributed",    *)
(* create.go:45; "the final product must be verified again", create.go:63).  *)
(* Whoever opens it later gets it extracted, too; a manifest that declares a *)
(* path below another one can only be one that was not generated.            *)
CreatedIsUsable ==
    /\ Done # {} =>
          /\ output # Nothing /\ archive[output].ended
          /\ Sound(declared[output], archive[output].entries)
          /\ Complete(declared[output], archive[output].entries)
    /\ origin \in Done /\ result = "refused" /\ ended # "broken" =>
          sink /\ manifest # Nothing /\ manifest.by = Nothing

(* Neither command leaves a file of its own behind when it reports an error; *)
(* only a killed process does, and a manifest that is not whole is never     *)
(* that of a process that reported success.                                  *)
FailureLeavesNothing ==
    /\ output # Nothing => pc[output] \in {"writing", "written", "done", "killed"}
    /\ manifest # Nothing /\ manifest.by \in Writers =>
          /\ place[manifest.by] \in {"writing", "done", "killed"}
          /\ place[manifest.by] = "done" => manifest.whole

(* A payload that was in the source all the time is in every bundle Create    *)
(* reports, as it is, although the manifest may be the torn one of a killed  *)
(* WriteManifest, or one written in the meantime.                            *)
NothingLeftOut ==
    \A c \in Done : \A p \in Paths \ touched :
        source[p] # None =>
            p \in DOMAIN declared[c] /\ declared[c][p] = source[p]
=============================================================================
