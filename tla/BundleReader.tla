----------------------------- MODULE BundleReader ---------------------------
(***************************************************************************)
(* bundle.Inspect and bundle.Extract: readArchive takes the entries of an  *)
(* archive one by one, refuses it at the first thing wrong and, for        *)
(* Extract, writes each payload to an empty directory on the way.  The     *)
(* archive is chosen entry by entry, as the tar reader finds it.           *)
(***************************************************************************)
EXTENDS BundleFormat

CONSTANTS
    MaxEntries,  \* maxArchiveEntries, the manifest not counted
    MaxLength    \* bound: entries an archive has

VARIABLES
    manifest,   \* the manifest of the archive, once parsed
    entries,    \* the entries read so far
    ended,      \* how the archive ended: not yet, clean, trailing, broken
    seen,       \* seenEntries
    payloads,   \* seenPayloads
    sink,       \* Extract, not Inspect
    extracted,  \* files in the destination directory
    result      \* idle, reading, accepted, refused

vars == <<manifest, entries, ended, seen, payloads, sink, extracted, result>>

TypeOK ==
    /\ manifest \in Manifests \cup {<<>>}
    /\ entries \in Seq(Entries) /\ Len(entries) <= MaxLength
    /\ ended \in {"not", "clean", "trailing", "broken"}
    /\ seen \subseteq Names /\ payloads \subseteq seen
    /\ sink \in BOOLEAN
    /\ extracted \in [Paths -> Contents \cup {None}]
    /\ result \in {"idle", "reading", "accepted", "refused"}

Init ==
    /\ manifest = <<>>
    /\ entries = <<>> /\ ended = "not"
    /\ seen = {} /\ payloads = {}
    /\ sink = FALSE
    /\ extracted = [p \in Paths |-> None]
    /\ result = "idle"

-----------------------------------------------------------------------------
(* The first entry is a manifest that parses; to Inspect or to Extract. *)
Open(m) ==
    /\ result = "idle"
    /\ manifest' = m
    /\ seen' = {"manifest.yaml"}
    /\ sink' \in BOOLEAN
    /\ result' = "reading"
    /\ UNCHANGED <<entries, ended, payloads, extracted>>

(* Or there is no such entry. *)
OpenNoManifest ==
    /\ result = "idle"
    /\ ended' = "broken" /\ result' = "refused"
    /\ UNCHANGED <<manifest, entries, seen, payloads, sink, extracted>>

Refuse ==
    /\ result' = "refused"
    /\ UNCHANGED <<seen, payloads, extracted>>

SafeName(entry) == entry.name # "unsafe"

New(entry) == entry.name \notin seen

(* Declared, and of the declared size and SHA-256. *)
AsDeclared_Mut(entry) ==
    /\ entry.name \in DOMAIN manifest
    /\ SizeOf[entry.content] = SizeOf[manifest[entry.name]]

AsDeclared(entry) ==
    /\ entry.name \in DOMAIN manifest
    /\ SizeOf[entry.content] = SizeOf[manifest[entry.name]]
    /\ entry.content = manifest[entry.name]

Admissible(entry) ==
    /\ Len(entries) < MaxEntries
    /\ SafeName(entry) /\ New(entry)
    /\ entry.type \in {"file", "dir"}

(* The size in the entry's header is looked at before its contents, so that  *)
(* only a payload of the right size reaches the sink.                        *)
Written(entry) ==
    IF sink /\ SizeOf[entry.content] = SizeOf[manifest[entry.name]]
    THEN [extracted EXCEPT ![entry.name] = entry.content] ELSE extracted

Mark_Mut(entry) == seen' = IF entry.type = "dir" THEN seen \cup {entry.name} ELSE seen

Mark(entry) == seen' = seen \cup {entry.name}

(* The sink makes the directories of a payload, and the payload anew. *)
Blocked(entry) ==
    sink /\ \E p \in Paths : Exclude(p, entry.name) /\ extracted[p] # None

(* One round of the loop.  The sink has written a payload by the time its    *)
(* SHA-256 turns out to be wrong.                                            *)
ReadEntry(entry) ==
    /\ result = "reading" /\ ended = "not" /\ Len(entries) < MaxLength
    /\ entries' = Append(entries, entry)
    /\ \/ ~Admissible(entry) /\ Refuse
       \/ /\ Admissible(entry) /\ entry.type = "dir"
          /\ Mark(entry)
          /\ UNCHANGED <<payloads, extracted, result>>
       \/ /\ Admissible(entry) /\ entry.type = "file" /\ AsDeclared(entry) /\ ~Blocked(entry)
          /\ Mark(entry) /\ payloads' = payloads \cup {entry.name}
          /\ extracted' = Written(entry)
          /\ UNCHANGED result
       \/ /\ Admissible(entry) /\ entry.type = "file"
          /\ ~AsDeclared(entry) \/ Blocked(entry)
          /\ result' = "refused"
          /\ extracted' = IF entry.name \in DOMAIN manifest /\ ~Blocked(entry) THEN Written(entry) ELSE extracted
          /\ UNCHANGED <<seen, payloads>>
    /\ UNCHANGED <<manifest, ended, sink>>

AllSeen == DOMAIN manifest \subseteq payloads

(* tar reports its end, or the stream breaks off; after the end nothing may   *)
(* follow, and every declared payload must have been there.                  *)
ReadEnd(how) ==
    /\ result = "reading" /\ ended = "not"
    /\ ended' = how
    /\ result' = IF how = "clean" /\ AllSeen THEN "accepted" ELSE "refused"
    /\ UNCHANGED <<manifest, entries, seen, payloads, sink, extracted>>

Next ==
    \/ \E m \in Manifests : Open(m)
    \/ OpenNoManifest
    \/ \E entry \in Entries : ReadEntry(entry)
    \/ \E how \in {"clean", "trailing", "broken"} : ReadEnd(how)

-----------------------------------------------------------------------------
(* Properties.                                                               *)

Clash(ps) == \E p, q \in ps : Exclude(p, q)

(* readArchive accepts exactly the bundles that are usable: those whose      *)
(* payloads are all there once, all declared and all as declared.  It        *)
(* refuses nothing else, up to its limit on the number of entries, but that  *)
(* Extract cannot write a payload below another one, which Inspect does not  *)
(* mind.  What Extract leaves in its directory when it succeeds is the       *)
(* payloads of the manifest, whatever order they came in, and nothing else.  *)
AcceptsUsable ==
    /\ result = "accepted" =>
          Sound(manifest, entries) /\ Complete(manifest, entries) /\ ended = "clean"
    /\ result = "accepted" /\ sink =>
          extracted = [p \in Paths |-> IF p \in DOMAIN manifest THEN manifest[p] ELSE None]
    /\ result = "refused" =>
          \/ ~Sound(manifest, entries) \/ Len(entries) > MaxEntries
          \/ ended = "clean" /\ ~Complete(manifest, entries)
          \/ ended \in {"trailing", "broken"}
          \/ sink /\ Clash({entries[i].name : i \in Payloads(entries)})
=============================================================================
