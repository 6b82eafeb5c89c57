----------------------------- MODULE BundleCreate ---------------------------
(***************************************************************************)
(* bundle.Create (internal/bundle/create.go): verify the source directory  *)
(* against its manifest, write the archive to an output that must not      *)
(* exist, and inspect what was written.  Several processes write to one    *)
(* output path, and any of them may be killed.                             *)
(***************************************************************************)
EXTENDS BundleFormat

CONSTANTS
    Creators,  \* processes running bundle.Create with the same arguments
    Nothing    \* no such file; nobody

VARIABLES
    manifest,  \* manifest.yaml of the source directory, see BundleManifest
    source,    \* its payloads
    declared,  \* the manifest as each process has read it
    pc,        \* where each process is
    todo,      \* payloads it has still to verify or to write
    archive,   \* the file each process has created: its entries, and
               \* whether it was ended
    output     \* whose file is at the output path

vars == <<manifest, source, declared, pc, todo, archive, output>>

Working == {"verifying", "verified", "writing", "written"}

TypeOK ==
    /\ declared \in [Creators -> Manifests \cup {<<>>}]
    /\ pc \in [Creators -> Working \cup {"idle", "done", "failed", "killed"}]
    /\ \A c \in Creators :
          /\ todo[c] \subseteq DOMAIN declared[c]
          /\ archive[c].entries \in Seq(Entries) /\ archive[c].ended \in BOOLEAN
    /\ output \in Creators \cup {Nothing}

Init ==
    /\ declared = [c \in Creators |-> <<>>]
    /\ pc = [c \in Creators |-> "idle"]
    /\ todo = [c \in Creators |-> {}]
    /\ archive = [c \in Creators |-> [entries |-> <<>>, ended |-> FALSE]]
    /\ output = Nothing

-----------------------------------------------------------------------------
GoTo(c, place) == pc' = [pc EXCEPT ![c] = place]

(* An error before the output is open leaves nothing to clean up. *)
Fail(c) == GoTo(c, "failed") /\ UNCHANGED <<declared, todo, archive, output>>

(* A manifest that was cut short between two payloads parses as well.        *)
ReadManifest(c) ==
    /\ pc[c] = "idle"
    /\ \/ /\ manifest # Nothing /\ manifest.files # <<>>
          /\ declared' = [declared EXCEPT ![c] = manifest.files]
          /\ todo' = [todo EXCEPT ![c] = DOMAIN manifest.files]
          /\ GoTo(c, "verifying")
          /\ UNCHANGED <<archive, output>>
       \/ manifest = Nothing /\ Fail(c)
       \/ manifest # Nothing /\ ~manifest.whole /\ Fail(c)
    /\ UNCHANGED <<manifest, source>>

(* verifySourceFile: there, of the declared size and SHA-256. *)
VerifyFile(c, p) ==
    /\ pc[c] = "verifying" /\ p \in todo[c]
    /\ IF source[p] = declared[c][p]
       THEN /\ todo' = [todo EXCEPT ![c] = @ \ {p}]
            /\ UNCHANGED <<declared, pc, archive, output>>
       ELSE Fail(c)
    /\ UNCHANGED <<manifest, source>>

Undeclared_Mut(c) == {}

Undeclared(c) == {p \in Paths \ DOMAIN declared[c] : source[p] # None}

(* The walk that looks for payloads the manifest does not declare. *)
Walk(c) ==
    /\ pc[c] = "verifying" /\ todo[c] = {}
    /\ IF Undeclared(c) = {}
       THEN GoTo(c, "verified") /\ UNCHANGED <<declared, todo, archive, output>>
       ELSE Fail(c)
    /\ UNCHANGED <<manifest, source>>

(* O_EXCL; then the manifest is written as the first entry. *)
OpenOutput(c) ==
    /\ pc[c] = "verified"
    /\ IF output = Nothing
       THEN /\ output' = c
            /\ todo' = [todo EXCEPT ![c] = DOMAIN declared[c]]
            /\ GoTo(c, "writing")
            /\ UNCHANGED <<declared, archive>>
       ELSE Fail(c)
    /\ UNCHANGED <<manifest, source>>

(* An error with the output open removes the output. *)
FailAndRemove(c) ==
    /\ output' = Nothing
    /\ GoTo(c, "failed")
    /\ UNCHANGED <<declared, todo, archive>>

Fits(c, p) == source[p] # None /\ SizeOf[source[p]] = SizeOf[declared[c][p]]

(* writeTarPath: the entry has the declared size, and a file that is gone or *)
(* of another size by now ends the archive in an error.                      *)
WriteFile(c, p) ==
    /\ pc[c] = "writing" /\ p \in todo[c]
    /\ IF Fits(c, p)
       THEN /\ archive' = [archive EXCEPT ![c].entries =
                  Append(@, [type |-> "file", name |-> p, content |-> source[p]])]
            /\ todo' = [todo EXCEPT ![c] = @ \ {p}]
            /\ UNCHANGED <<declared, pc, output>>
       ELSE FailAndRemove(c)
    /\ UNCHANGED <<manifest, source>>

(* Closing the archive and the file, which may fail too. *)
CloseOutput(c) ==
    /\ pc[c] = "writing" /\ todo[c] = {}
    /\ \/ /\ archive' = [archive EXCEPT ![c].ended = TRUE]
          /\ GoTo(c, "written")
          /\ UNCHANGED <<declared, todo, output>>
       \/ FailAndRemove(c)
    /\ UNCHANGED <<manifest, source>>

Inspects_Mut(c) == archive[c].ended

(* Inspect, as BundleReader has it. *)
Inspects(c) ==
    /\ archive[c].ended
    /\ Sound(declared[c], archive[c].entries) /\ Complete(declared[c], archive[c].entries)

FinalInspect_Mut(c) ==
    /\ pc[c] = "written"
    /\ IF output # Nothing /\ Inspects(output)
       THEN GoTo(c, "done") /\ UNCHANGED <<declared, todo, archive, output>>
       ELSE Fail(c)
    /\ UNCHANGED <<manifest, source>>

(* What is at the output path is inspected once more. *)
FinalInspect(c) ==
    /\ pc[c] = "written"
    /\ IF output # Nothing /\ Inspects(output)
       THEN GoTo(c, "done") /\ UNCHANGED <<declared, todo, archive, output>>
       ELSE FailAndRemove(c)
    /\ UNCHANGED <<manifest, source>>

Kill(c) ==
    /\ pc[c] \in Working
    /\ GoTo(c, "killed")
    /\ UNCHANGED <<manifest, source, declared, todo, archive, output>>

(* An operator removes what a killed process has left. *)
RemoveLeftover ==
    /\ output # Nothing /\ pc[output] = "killed"
    /\ output' = Nothing
    /\ UNCHANGED <<manifest, source, declared, pc, todo, archive>>

Step(c) ==
    \/ ReadManifest(c) \/ Walk(c) \/ OpenOutput(c) \/ CloseOutput(c) \/ FinalInspect(c)
    \/ Kill(c)
    \/ \E p \in Paths : VerifyFile(c, p) \/ WriteFile(c, p)

Next == (\E c \in Creators : Step(c)) \/ RemoveLeftover
=============================================================================
