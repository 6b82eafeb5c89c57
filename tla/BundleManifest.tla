---------------------------- MODULE BundleManifest --------------------------
(***************************************************************************)
(* bundle.WriteManifest (internal/bundle/generate.go): scan the payloads   *)
(* of a source directory, hash each of them and write manifest.yaml, which *)
(* must not exist.  Several processes may do so while somebody still edits *)
(* the payloads, and any of them may be killed.  Payloads are non-empty    *)
(* regular files in payload directories.                                   *)
(***************************************************************************)
EXTENDS BundleFormat

CONSTANTS
    Writers,   \* processes running WriteManifest
    Nothing    \* no such file; nobody

VARIABLES
    source,    \* the payloads of the source directory
    manifest,  \* its manifest.yaml: whose, the payloads in it, and whether all are
    place,     \* where each process is
    found,     \* payloads of the walk it has still to look at
    at,        \* the payload it is at, with the size it has seen
    scanned    \* the payloads it has hashed

vars == <<source, manifest, place, found, at, scanned>>
process == <<place, found, at, scanned>>

Scans == UNION {[S -> Contents] : S \in SUBSET Paths}

ManifestFiles == [by : Writers \cup {Nothing}, files : Scans, whole : BOOLEAN]

TypeOK ==
    /\ source \in [Paths -> Contents \cup {None}] /\ OnFileSystem(source)
    /\ manifest \in ManifestFiles \cup {Nothing}
    /\ place \in [Writers -> {"idle", "listing", "scanning", "scanned", "writing",
                              "done", "failed", "killed"}]
    /\ found \in [Writers -> SUBSET Paths]
    /\ \A w \in Writers :
          /\ scanned[w] \in Scans /\ DOMAIN scanned[w] \cap found[w] = {}
          /\ at[w] # Nothing => at[w].path \in found[w] /\ at[w].size \in Nat

Init ==
    /\ place = [w \in Writers |-> "idle"]
    /\ found = [w \in Writers |-> {}]
    /\ at = [w \in Writers |-> Nothing]
    /\ scanned = [w \in Writers |-> <<>>]

-----------------------------------------------------------------------------
GoTo(w, next) == place' = [place EXCEPT ![w] = next]
Fail(w) == GoTo(w, "failed") /\ UNCHANGED <<source, manifest, found, at, scanned>>

(* The options and the metadata are good; is there a manifest already? *)
Lookup(w) ==
    /\ place[w] = "idle"
    /\ IF manifest = Nothing
       THEN GoTo(w, "listing") /\ UNCHANGED <<source, manifest, found, at, scanned>>
       ELSE Fail(w)

(* WalkDir lists a directory before it visits what is in it; a manifest that *)
(* is there by now is a file outside the payload directories.                *)
List(w) ==
    /\ place[w] = "listing"
    /\ IF manifest = Nothing
       THEN /\ found' = [found EXCEPT ![w] = {p \in Paths : source[p] # None}]
            /\ GoTo(w, "scanning")
            /\ UNCHANGED <<source, manifest, at, scanned>>
       ELSE Fail(w)

(* entry.Info *)
Stat(w, p) ==
    /\ place[w] = "scanning" /\ at[w] = Nothing /\ p \in found[w]
    /\ IF source[p] # None
       THEN /\ at' = [at EXCEPT ![w] = [path |-> p, size |-> SizeOf[source[p]]]]
            /\ UNCHANGED <<source, manifest, place, found, scanned>>
       ELSE Fail(w)

(* hashPayload, and whether the size is still the same. *)
Hash(w) ==
    /\ place[w] = "scanning" /\ at[w] # Nothing
    /\ LET p == at[w].path IN
       IF source[p] # None /\ SizeOf[source[p]] = at[w].size
       THEN /\ scanned' = [scanned EXCEPT ![w] =
                  [q \in DOMAIN @ \cup {p} |-> IF q = p THEN source[p] ELSE @[q]]]
            /\ found' = [found EXCEPT ![w] = @ \ {p}]
            /\ at' = [at EXCEPT ![w] = Nothing]
            /\ UNCHANGED <<source, manifest, place>>
       ELSE Fail(w)

(* The manifest must have a payload to validate. *)
EndScan(w) ==
    /\ place[w] = "scanning" /\ found[w] = {}
    /\ IF DOMAIN scanned[w] # {}
       THEN GoTo(w, "scanned") /\ UNCHANGED <<source, manifest, found, at, scanned>>
       ELSE Fail(w)

(* O_EXCL *)
OpenManifest(w) ==
    /\ place[w] = "scanned"
    /\ IF manifest = Nothing
       THEN /\ manifest' = [by |-> w, files |-> <<>>, whole |-> FALSE]
            /\ GoTo(w, "writing")
            /\ UNCHANGED <<source, found, at, scanned>>
       ELSE Fail(w)

(* The file grows; what there is of it may be read, or all there ever is.    *)
Grow(w) ==
    /\ place[w] = "writing"
    /\ \E p \in DOMAIN scanned[w] \ DOMAIN manifest.files :
          manifest' = [manifest EXCEPT !.files =
              [q \in DOMAIN @ \cup {p} |-> scanned[w][q]]]
    /\ UNCHANGED <<source, process>>

CloseManifest(w) ==
    /\ place[w] = "writing" /\ manifest.files = scanned[w]
    /\ manifest' = [manifest EXCEPT !.whole = TRUE]
    /\ GoTo(w, "done")
    /\ UNCHANGED <<source, found, at, scanned>>

(* Writing or closing fails: the file is removed. *)
WriteFails(w) ==
    /\ place[w] = "writing"
    /\ manifest' = Nothing
    /\ GoTo(w, "failed")
    /\ UNCHANGED <<source, found, at, scanned>>

Kill(w) ==
    /\ place[w] \in {"listing", "scanning", "scanned", "writing"}
    /\ GoTo(w, "killed")
    /\ UNCHANGED <<source, manifest, found, at, scanned>>

(* An operator removes the manifest a killed process has left. *)
RemoveLeftover ==
    /\ manifest # Nothing /\ manifest.by \in Writers /\ place[manifest.by] = "killed"
    /\ manifest' = Nothing
    /\ UNCHANGED <<source, process>>

(* Somebody replaces, adds or removes a payload. *)
Edit(p, content) ==
    /\ source[p] # content
    /\ source' = [source EXCEPT ![p] = content]
    /\ OnFileSystem(source')
    /\ UNCHANGED <<manifest, process>>

Step(w) ==
    \/ Lookup(w) \/ List(w) \/ Hash(w) \/ EndScan(w) \/ OpenManifest(w) \/ Grow(w)
    \/ CloseManifest(w) \/ WriteFails(w) \/ Kill(w)
    \/ \E p \in Paths : Stat(w, p)

Next ==
    \/ \E w \in Writers : Step(w)
    \/ RemoveLeftover
    \/ \E p \in Paths, content \in Contents \cup {None} : Edit(p, content)
=============================================================================
