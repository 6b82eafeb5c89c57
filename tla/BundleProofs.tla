---------------------------- MODULE BundleProofs ----------------------------
(***************************************************************************)
(* Theorems about bundles on their way, for every set of paths, contents   *)
(* and processes, every archive and every number of edits of the source.   *)
(***************************************************************************)
EXTENDS BundlePipeline, FiniteSetTheorems, TLAPS

-----------------------------------------------------------------------------
(* The reader.                                                               *)

ReadSoFar ==
    /\ ended = "not" /\ given \in Manifests
    /\ Sound(given, entries) /\ Len(entries) <= MaxEntries
    /\ seen = {"manifest.yaml"} \cup {entries[i].name : i \in DOMAIN entries}
    /\ payloads = {entries[i].name : i \in Payloads(entries)}
    /\ sink => extracted = [p \in Paths |-> IF p \in payloads THEN given[p] ELSE None]

RInv ==
    /\ given \in Manifests \cup {<<>>}
    /\ entries \in Seq(Entries) /\ Len(entries) <= MaxLength
    /\ ended \in {"not", "clean", "trailing", "broken"}
    /\ sink \in BOOLEAN
    /\ extracted \in [Paths -> Contents \cup {None}]
    /\ result \in {"idle", "reading", "accepted", "refused"}
    /\ seen \subseteq Names /\ payloads \subseteq seen
    /\ result = "idle" =>
          /\ entries = <<>> /\ ended = "not" /\ payloads = {}
          /\ extracted = [p \in Paths |-> None]
    /\ result = "reading" => ReadSoFar
    /\ AcceptsUsable

Reads ==
    \/ \E m \in Manifests : R!Open(m)
    \/ R!OpenNoManifest
    \/ \E entry \in Entries : R!ReadEntry(entry)
    \/ \E how \in {"clean", "trailing", "broken"} : R!ReadEnd(how)

LEMMA SameFormat ==
    /\ R!Names = Names /\ R!Entries = Entries /\ R!Manifests = Manifests
    /\ C!Names = Names /\ C!Entries = Entries /\ C!Manifests = Manifests
    /\ \A files : (R!Payloads(files) = Payloads(files)) /\ (C!Payloads(files) = Payloads(files))
    /\ \A m, files :
          /\ R!Sound(m, files) <=> Sound(m, files)
          /\ R!Complete(m, files) <=> Complete(m, files)
          /\ C!Sound(m, files) <=> Sound(m, files)
          /\ C!Complete(m, files) <=> Complete(m, files)
    /\ \A p, q : (R!Exclude(p, q) <=> Exclude(p, q)) /\ (M!Exclude(p, q) <=> Exclude(p, q))
BY DEF R!Names, Names, R!Entries, Entries, R!Manifests, Manifests, C!Names, C!Entries, C!Manifests,
   R!Payloads, Payloads, C!Payloads, R!Sound, Sound, R!Complete, Complete, C!Sound, C!Complete,
   R!Exclude, Exclude, M!Exclude

(* What AcceptsUsable says, of any values.                                   *)
Clashing(ps) == \E p, q \in ps : Exclude(p, q)

Verdict(m, files, end, sunk, out, res) ==
    /\ res = "accepted" => Sound(m, files) /\ Complete(m, files) /\ end = "clean"
    /\ res = "accepted" /\ sunk =>
          out = [p \in Paths |-> IF p \in DOMAIN m THEN m[p] ELSE None]
    /\ res = "refused" =>
          \/ ~Sound(m, files) \/ Len(files) > MaxEntries
          \/ end = "clean" /\ ~Complete(m, files)
          \/ end \in {"trailing", "broken"}
          \/ sunk /\ Clashing({files[i].name : i \in Payloads(files)})

LEMMA AcceptsUsableIs ==
    /\ AcceptsUsable <=> Verdict(given, entries, ended, sink, extracted, result)
    /\ AcceptsUsable' <=> Verdict(given', entries', ended', sink', extracted', result')
BY SameFormat DEF AcceptsUsable, R!AcceptsUsable, R!Clash, Clashing, Verdict

LEMMA ReaderOpens ==
    ASSUME RInv, NEW m \in Manifests, R!Open(m)
    PROVE  RInv'
<1>1. /\ result = "idle" /\ given' = m /\ seen' = {"manifest.yaml"} /\ sink' \in BOOLEAN
      /\ result' = "reading" /\ UNCHANGED <<entries, ended, payloads, extracted>>
      /\ entries = <<>> /\ ended = "not" /\ payloads = {} /\ extracted = [p \in Paths |-> None]
  BY DEF R!Open, RInv
<1>2. DOMAIN entries = {} /\ Len(entries) = 0 /\ Payloads(entries) = {}
  BY <1>1 DEF Payloads
<1>3. Sound(m, entries)
  BY <1>2 DEF Sound
<1>4. ReadSoFar'
  BY <1>1, <1>2, <1>3, BoundsAssumption DEF ReadSoFar
<1>5. AcceptsUsable'
  BY <1>1, AcceptsUsableIs DEF Verdict
<1> QED
  BY <1>1, <1>4, <1>5 DEF RInv, Names

LEMMA ReaderFindsNothing ==
    ASSUME RInv, R!OpenNoManifest
    PROVE  RInv'
<1>1. AcceptsUsable'
  BY AcceptsUsableIs DEF R!OpenNoManifest, Verdict
<1> QED
  BY <1>1 DEF R!OpenNoManifest, RInv

(* One more entry: it is refused for a reason, or what was read stays sound.  *)
LEMMA ReaderReads ==
    ASSUME RInv, NEW entry \in Entries, R!ReadEntry(entry)
    PROVE  RInv'
<1>1. /\ result = "reading" /\ ended = "not" /\ Len(entries) < MaxLength
      /\ entries' = Append(entries, entry) /\ UNCHANGED <<given, ended, sink>>
      /\ ReadSoFar /\ entries \in Seq(Entries)
  BY DEF R!ReadEntry, RInv
<1> DEFINE n == Len(entries) + 1
<1>2. /\ n \in Nat /\ Len(entries') = n /\ entries'[n] = entry
      /\ DOMAIN entries = 1 .. Len(entries) /\ DOMAIN entries' = 1 .. n
      /\ \A i \in DOMAIN entries : entries'[i] = entries[i] /\ entries[i] \in Entries
      /\ DOMAIN entries' = DOMAIN entries \cup {n} /\ n \notin DOMAIN entries
      /\ entries' \in Seq(Entries)
  BY <1>1
<1>3. /\ entry.name \in Names /\ entry.type \in {"file", "dir", "other"}
      /\ entry.type = "file" => entry.content \in Contents
  BY DEF Entries
<1>4. Payloads(entries') = Payloads(entries) \cup (IF entry.type = "file" THEN {n} ELSE {})
  BY <1>2 DEF Payloads
<1> HIDE DEF n
<1>5. Sound(given, entries') <=>
         /\ Sound(given, entries)
         /\ entry.name \in Paths /\ entry.type \in {"file", "dir"}
         /\ \A i \in DOMAIN entries : entries[i].name # entry.name
         /\ entry.type = "file" => entry.name \in DOMAIN given /\ entry.content = given[entry.name]
  <2> DEFINE Good(e, in) == e.name \in in /\ e.type \in {"file", "dir"}
             AsGiven(e) == e.type = "file" => e.name \in DOMAIN given /\ e.content = given[e.name]
  <2>1. \A files : Sound(given, files) <=>
           /\ \A i \in DOMAIN files : Good(files[i], Paths) /\ AsGiven(files[i])
           /\ \A i, j \in DOMAIN files : files[i].name = files[j].name => i = j
    BY DEF Sound, Payloads
  <2> HIDE DEF Good, AsGiven
  <2>2. (\A i \in DOMAIN entries' : Good(entries'[i], Paths) /\ AsGiven(entries'[i])) <=>
           /\ \A i \in DOMAIN entries : Good(entries[i], Paths) /\ AsGiven(entries[i])
           /\ Good(entry, Paths) /\ AsGiven(entry)
    BY <1>2
  <2>3. (\A i, j \in DOMAIN entries' : entries'[i].name = entries'[j].name => i = j) <=>
           /\ \A i, j \in DOMAIN entries : entries[i].name = entries[j].name => i = j
           /\ \A i \in DOMAIN entries : entries[i].name # entry.name
    BY <1>2
  <2> QED
    BY <2>1, <2>2, <2>3 DEF Good, AsGiven
<1>6. {entries'[i].name : i \in DOMAIN entries'} =
         {entries[i].name : i \in DOMAIN entries} \cup {entry.name}
  BY <1>2
<1>7. {entries'[i].name : i \in Payloads(entries')} =
         IF entry.type = "file" THEN payloads \cup {entry.name} ELSE payloads
  <2>1. Payloads(entries) \subseteq DOMAIN entries
    BY DEF Payloads
  <2> QED
    BY <1>1, <1>2, <1>4, <2>1 DEF ReadSoFar
<1>g. /\ given \in Manifests /\ DOMAIN given \subseteq Paths
      /\ \A p \in DOMAIN given : given[p] \in Contents
  BY <1>1 DEF ReadSoFar, Manifests
<1>w. ASSUME entry.type = "file"
      PROVE  /\ R!Written(entry) \in [Paths -> Contents \cup {None}]
             /\ sink /\ entry.name \in DOMAIN given /\ entry.content = given[entry.name] =>
                   R!Written(entry) = [extracted EXCEPT ![entry.name] = entry.content]
  <2>1. extracted \in [Paths -> Contents \cup {None}]
    BY DEF RInv
  <2>2. CASE sink /\ SizeOf[entry.content] = SizeOf[given[entry.name]]
    BY <1>3, <1>g, <1>w, <2>1, <2>2 DEF R!Written
  <2>3. CASE ~(sink /\ SizeOf[entry.content] = SizeOf[given[entry.name]])
    BY <2>1, <2>3 DEF R!Written
  <2> QED
    BY <2>2, <2>3
<1>8. R!Admissible(entry) <=>
         /\ Len(entries) < MaxEntries /\ entry.name # "unsafe"
         /\ entry.name \notin seen /\ entry.type \in {"file", "dir"}
  BY DEF R!Admissible, R!SafeName, R!New
<1>9. R!AsDeclared(entry) <=>
         /\ entry.name \in DOMAIN given
         /\ SizeOf[entry.content] = SizeOf[given[entry.name]] /\ entry.content = given[entry.name]
  BY DEF R!AsDeclared
<1>t. ASSUME result' \in {"reading", "refused"}, extracted' \in [Paths -> Contents \cup {None}],
             seen' \subseteq Names, payloads' \subseteq seen', result' = "reading" => ReadSoFar',
             AcceptsUsable'
      PROVE  RInv'
  <2>1. given' \in Manifests /\ entries' \in Seq(Entries) /\ Len(entries') <= MaxLength
    BY <1>1, <1>2, <1>g, BoundsAssumption DEF n
  <2> QED
    BY <1>1, <1>t, <2>1 DEF RInv
<1>10. CASE ~R!Admissible(entry) /\ R!Refuse
  <2>1. result' = "refused" /\ UNCHANGED <<seen, payloads, extracted>>
    BY <1>10 DEF R!Refuse
  <2>2. ~Sound(given, entries') \/ Len(entries') > MaxEntries
    <3>1. CASE Len(entries) >= MaxEntries
      BY <1>2, <3>1, BoundsAssumption DEF n
    <3>2. CASE entry.name \notin Paths \/ entry.type \notin {"file", "dir"}
      BY <1>5, <3>2
    <3>3. CASE entry.name \in Paths /\ entry.name \in seen
      BY <1>1, <1>5, <3>3, NamesAssumption DEF ReadSoFar
    <3> QED
      BY <1>1, <1>8, <1>10, <3>1, <3>2, <3>3, NamesAssumption, BoundsAssumption
  <2>3. AcceptsUsable'
    BY <1>1, <2>1, <2>2, AcceptsUsableIs DEF Verdict
  <2> QED
    BY <1>t, <2>1, <2>3 DEF RInv
<1>11. CASE R!Admissible(entry) /\ entry.type = "dir" /\ R!Mark(entry)
            /\ UNCHANGED <<payloads, extracted, result>>
  <2>1. seen' = seen \cup {entry.name}
    BY <1>11 DEF R!Mark
  <2>2. entry.name \in Paths /\ \A i \in DOMAIN entries : entries[i].name # entry.name
    BY <1>1, <1>3, <1>8, <1>11 DEF ReadSoFar, Names
  <2>3. Sound(given, entries')
    BY <1>1, <1>5, <1>11, <2>2 DEF ReadSoFar
  <2>4. Len(entries') <= MaxEntries
    BY <1>1, <1>2, <1>8, <1>11, BoundsAssumption DEF n
  <2>5. ReadSoFar'
    BY <1>1, <1>6, <1>7, <1>11, <2>1, <2>3, <2>4 DEF ReadSoFar
  <2>6. AcceptsUsable'
    BY <1>1, <1>11, AcceptsUsableIs DEF Verdict
  <2> QED
    BY <1>t, <1>1, <1>3, <1>11, <2>1, <2>5, <2>6 DEF RInv
<1>12. CASE /\ R!Admissible(entry) /\ entry.type = "file" /\ R!AsDeclared(entry) /\ ~R!Blocked(entry)
            /\ R!Mark(entry) /\ payloads' = payloads \cup {entry.name}
            /\ extracted' = R!Written(entry) /\ UNCHANGED result
  <2>1. seen' = seen \cup {entry.name}
    BY <1>12 DEF R!Mark
  <2>2. entry.name \in Paths /\ \A i \in DOMAIN entries : entries[i].name # entry.name
    BY <1>1, <1>3, <1>8, <1>12 DEF ReadSoFar, Names
  <2>3. Sound(given, entries')
    BY <1>1, <1>5, <1>9, <1>12, <2>2 DEF ReadSoFar
  <2>4. Len(entries') <= MaxEntries
    BY <1>1, <1>2, <1>8, <1>12, BoundsAssumption DEF n
  <2>5. sink => extracted' = [p \in Paths |-> IF p \in payloads' THEN given[p] ELSE None]
    BY <1>1, <1>9, <1>12, <1>w, <2>2 DEF ReadSoFar
  <2>6. ReadSoFar'
    BY <1>1, <1>6, <1>7, <1>12, <2>1, <2>3, <2>4, <2>5 DEF ReadSoFar
  <2>7. AcceptsUsable'
    BY <1>1, <1>12, AcceptsUsableIs DEF Verdict
  <2> QED
    BY <1>t, <1>w, <1>1, <1>3, <1>12, <2>1, <2>6, <2>7 DEF RInv
<1>13. CASE /\ R!Admissible(entry) /\ entry.type = "file"
            /\ ~R!AsDeclared(entry) \/ R!Blocked(entry)
            /\ result' = "refused" /\ UNCHANGED <<seen, payloads>>
            /\ extracted' \in {R!Written(entry), extracted}
  <2>1. \/ ~Sound(given, entries')
        \/ sink /\ Clashing({entries'[i].name : i \in Payloads(entries')})
    <3>1. CASE ~R!AsDeclared(entry)
      BY <1>5, <1>9, <1>13, <3>1
    <3>2. CASE R!Blocked(entry)
      <4>1. PICK p \in Paths : Exclude(p, entry.name) /\ extracted[p] # None /\ sink
        BY <3>2, SameFormat DEF R!Blocked
      <4>2. p \in payloads
        BY <1>1, <4>1 DEF ReadSoFar
      <4> QED
        BY <1>7, <1>13, <4>1, <4>2 DEF Clashing
    <3> QED
      BY <1>13, <3>1, <3>2
  <2>2. AcceptsUsable'
    BY <1>1, <1>13, <2>1, AcceptsUsableIs DEF Verdict
  <2> QED
    BY <1>t, <1>w, <1>13, <2>2 DEF RInv
<1> QED
  BY <1>10, <1>11, <1>12, <1>13 DEF R!ReadEntry

LEMMA ReaderEnds ==
    ASSUME RInv, NEW how \in {"clean", "trailing", "broken"}, R!ReadEnd(how)
    PROVE  RInv'
<1>1. /\ result = "reading" /\ ended' = how /\ ReadSoFar
      /\ UNCHANGED <<given, entries, seen, payloads, sink, extracted>>
      /\ result' = IF how = "clean" /\ DOMAIN given \subseteq payloads THEN "accepted" ELSE "refused"
  BY DEF R!ReadEnd, R!AllSeen, RInv
<1>2. /\ Complete(given, entries) <=> DOMAIN given \subseteq payloads
      /\ payloads \subseteq DOMAIN given
  BY <1>1 DEF ReadSoFar, Complete, Sound
<1>3. AcceptsUsable'
  <2>1. DOMAIN given \subseteq payloads => payloads = DOMAIN given
    BY <1>2
  <2> QED
    BY <1>1, <1>2, <2>1, AcceptsUsableIs DEF Verdict, ReadSoFar
<1> QED
  BY <1>1, <1>3 DEF RInv

LEMMA ReaderStep == ASSUME RInv, Reads \/ UNCHANGED ofReader PROVE RInv'
<1>1. CASE UNCHANGED ofReader
  <2>1. AcceptsUsable'
    BY <1>1, AcceptsUsableIs DEF ofReader, RInv
  <2> QED
    BY <1>1, <2>1 DEF ofReader, RInv, ReadSoFar
<1> QED
  BY <1>1, ReaderOpens, ReaderFindsNothing, ReaderReads, ReaderEnds DEF Reads

-----------------------------------------------------------------------------
(* The writers of manifests.                                                 *)

(* A manifest on disk is of its writer, has no path below another one, and is *)
(* whole when the writer says so.                                            *)
Places == {"idle", "listing", "scanning", "scanned", "writing", "done", "failed", "killed"}
Looks  == [path : Paths, size : Nat] \cup {Nothing}

WTypes ==
    /\ source \in [Paths -> Contents \cup {None}] /\ OnFileSystem(source)
    /\ manifest \in M!ManifestFiles \cup {Nothing}
    /\ place \in [Writers -> Places]
    /\ found \in [Writers -> SUBSET Paths]
    /\ at \in [Writers -> Looks]
    /\ scanned \in [Writers -> M!Scans]

(* What a scan still has to do and what it has done, of any values.           *)
ScanOK(todos, spot, done) ==
    /\ DOMAIN done \cap todos = {}
    /\ spot # Nothing => spot.path \in todos /\ spot.size \in Nat
    /\ ~Clashing(todos \cup DOMAIN done)

Started(w) ==
    place[w] \in {"idle", "listing"} => found[w] = {} /\ at[w] = Nothing /\ scanned[w] = <<>>

Owned(w) ==
    place[w] = "writing" =>
        /\ manifest # Nothing /\ manifest.by = w
        /\ DOMAIN manifest.files \subseteq DOMAIN scanned[w]

Generating ==
    manifest # Nothing /\ manifest.by \in Writers =>
        /\ place[manifest.by] \in {"writing", "done", "killed"}
        /\ place[manifest.by] = "done" => manifest.whole
        /\ ~Clashing(DOMAIN manifest.files)

WInv ==
    /\ WTypes
    /\ \A w \in Writers : ScanOK(found[w], at[w], scanned[w]) /\ Started(w) /\ Owned(w)
    /\ Generating

LEMMA ScanIs ==
    /\ \A S \in SUBSET Paths : [S -> Contents] \subseteq M!Scans
    /\ \A f \in M!Scans : /\ DOMAIN f \subseteq Paths /\ f \in [DOMAIN f -> Contents]
                          /\ f # <<>> => f \in Manifests
<1>1. \A S \in SUBSET Paths : [S -> Contents] \subseteq M!Scans
  BY DEF M!Scans
<1>2. ASSUME NEW f \in M!Scans
      PROVE  DOMAIN f \subseteq Paths /\ f \in [DOMAIN f -> Contents] /\ (f # <<>> => f \in Manifests)
  <2>1. PICK S \in SUBSET Paths : f \in [S -> Contents]
    BY DEF M!Scans
  <2>2. ASSUME S = {} PROVE f = <<>>
    <3>1. f \in [{} -> Contents] /\ <<>> \in [{} -> Contents]
      BY <2>1, <2>2
    <3>2. \A g, h \in [{} -> Contents] : g = h
      OBVIOUS
    <3> QED
      BY <3>1, <3>2
  <2> QED
    BY <2>1, <2>2 DEF Manifests
<1> QED
  BY <1>1, <1>2

LEMMA WriterTypes == WInv => M!TypeOK
BY SameFormat DEF WInv, WTypes, ScanOK, Places, Looks, M!TypeOK, M!OnFileSystem, OnFileSystem

(* A step of a writer to another place that touches nothing else.             *)
LEMMA WriterMoves ==
    ASSUME WInv, NEW w \in Writers,
           NEW next \in {"listing", "scanning", "scanned", "failed", "killed"},
           next = "listing" => place[w] = "idle",
           place' = [place EXCEPT ![w] = next],
           place[w] \notin {"done", "killed"}, place[w] = "writing" => next = "killed",
           UNCHANGED <<source, manifest, found, at, scanned>>
    PROVE  WInv'
<1>1. \A v \in Writers : place'[v] = (IF v = w THEN next ELSE place[v])
  BY DEF WInv, WTypes
<1>2. WTypes'
  BY DEF WInv, WTypes, Places
<1>3. \A v \in Writers : ScanOK(found'[v], at'[v], scanned'[v])
  BY DEF WInv
<1>4. \A v \in Writers : Started(v)' /\ Owned(v)'
  BY <1>1 DEF WInv, Started, Owned
<1>5. Generating'
  BY <1>1 DEF WInv, Generating
<1> QED
  BY <1>2, <1>3, <1>4, <1>5 DEF WInv

(* A step within a scan.                                                     *)
LEMMA WriterScans ==
    ASSUME WInv, NEW w \in Writers, UNCHANGED <<source, manifest>>,
           NEW next, place' = [place EXCEPT ![w] = next],
           \/ place[w] = "scanning" /\ next = "scanning"
           \/ place[w] = "listing" /\ next = "scanning",
           NEW here \in SUBSET Paths, NEW spot \in Looks, NEW so \in M!Scans,
           found' = [found EXCEPT ![w] = here], at' = [at EXCEPT ![w] = spot],
           scanned' = [scanned EXCEPT ![w] = so], ScanOK(here, spot, so)
    PROVE  WInv'
<1>1. \A v \in Writers : /\ place'[v] = (IF v = w THEN next ELSE place[v])
                         /\ found'[v] = (IF v = w THEN here ELSE found[v])
                         /\ at'[v] = (IF v = w THEN spot ELSE at[v])
                         /\ scanned'[v] = (IF v = w THEN so ELSE scanned[v])
  BY DEF WInv, WTypes
<1>2. WTypes'
  BY DEF WInv, WTypes, Places
<1>3. \A v \in Writers : ScanOK(found'[v], at'[v], scanned'[v])
  BY <1>1 DEF WInv
<1>4. \A v \in Writers : Started(v)' /\ Owned(v)'
  BY <1>1 DEF WInv, Started, Owned
<1>5. Generating'
  BY <1>1 DEF WInv, Generating
<1> QED
  BY <1>2, <1>3, <1>4, <1>5 DEF WInv

(* A step that makes, grows, ends or removes the manifest.                    *)
LEMMA WriterWrites ==
    ASSUME WInv, NEW w \in Writers, NEW next \in {"writing", "done", "failed"},
           place' = [place EXCEPT ![w] = next], UNCHANGED <<source, found, at, scanned>>,
           manifest = Nothing \/ manifest.by = w,
           NEW file \in M!ManifestFiles \cup {Nothing}, manifest' = file,
           next = "done" => file.whole,
           next = "failed" <=> file = Nothing,
           file # Nothing => file.by = w /\ DOMAIN file.files \subseteq DOMAIN scanned[w],
           place[w] \in {"scanned", "writing"}
    PROVE  WInv'
<1>1. \A v \in Writers : place'[v] = (IF v = w THEN next ELSE place[v])
  BY DEF WInv, WTypes
<1>2. WTypes'
  BY DEF WInv, WTypes, Places
<1>3. \A v \in Writers : ScanOK(found'[v], at'[v], scanned'[v])
  BY DEF WInv
<1>4. \A v \in Writers : Started(v)'
  BY <1>1 DEF WInv, Started
<1>5. \A v \in Writers : Owned(v)'
  BY <1>1 DEF WInv, Owned
<1>6. Generating'
  <2>1. ~Clashing(DOMAIN scanned[w])
    BY DEF WInv, ScanOK, Clashing
  <2> QED
    BY <1>1, <2>1 DEF Generating, Clashing
<1> QED
  BY <1>2, <1>3, <1>4, <1>5, <1>6 DEF WInv

LEMMA WriterStep == ASSUME WInv, NEW w \in Writers, M!Step(w) PROVE WInv'
<1>t. /\ source \in [Paths -> Contents \cup {None}] /\ OnFileSystem(source)
      /\ found[w] \in SUBSET Paths /\ at[w] \in Looks /\ scanned[w] \in M!Scans
      /\ found = [found EXCEPT ![w] = found[w]] /\ scanned = [scanned EXCEPT ![w] = scanned[w]]
      /\ at = [at EXCEPT ![w] = at[w]] /\ place = [place EXCEPT ![w] = place[w]]
      /\ ScanOK(found[w], at[w], scanned[w]) /\ Started(w) /\ Owned(w)
  BY DEF WInv, WTypes
<1>1. CASE M!Lookup(w)
  BY <1>1, WriterMoves DEF M!Lookup, M!GoTo, M!Fail
<1>2. CASE M!List(w)
  <2>1. CASE manifest # Nothing
    BY <1>2, <2>1, WriterMoves DEF M!List, M!GoTo, M!Fail
  <2>2. CASE manifest = Nothing
    <3> DEFINE listed == {p \in Paths : source[p] # None}
    <3>1. /\ place[w] = "listing" /\ place' = [place EXCEPT ![w] = "scanning"]
          /\ found' = [found EXCEPT ![w] = listed]
          /\ UNCHANGED <<source, manifest, at, scanned>>
      BY <1>2, <2>2 DEF M!List, M!GoTo
    <3>2. at[w] = Nothing /\ scanned[w] = <<>>
      BY <1>t, <3>1 DEF Started
    <3>3. ~Clashing(listed)
      BY <1>t DEF OnFileSystem, Clashing
    <3>4. DOMAIN scanned[w] = {}
      BY <3>2
    <3>5. ScanOK(listed, at[w], scanned[w])
      BY <3>2, <3>3, <3>4 DEF ScanOK
    <3>6. listed \in SUBSET Paths
      OBVIOUS
    <3> HIDE DEF listed
    <3> QED
      BY <1>t, <3>1, <3>5, <3>6, WriterScans
  <2> QED
    BY <2>1, <2>2
<1>3. ASSUME NEW p \in Paths, M!Stat(w, p) PROVE WInv'
  <2>1. CASE source[p] # None
    <3> DEFINE spot == [path |-> p, size |-> SizeOf[source[p]]]
    <3>1. source[p] \in Contents /\ SizeOf[source[p]] \in Nat
      BY <2>1, <1>t, ContentsAssumption
    <3>2. /\ place[w] = "scanning" /\ p \in found[w]
          /\ at' = [at EXCEPT ![w] = spot]
          /\ UNCHANGED <<source, manifest, place, found, scanned>>
      BY <1>3, <2>1 DEF M!Stat
    <3>3. spot \in Looks /\ spot.path = p /\ spot.size \in Nat
      BY <3>1 DEF Looks
    <3> HIDE DEF spot
    <3>4. ScanOK(found[w], spot, scanned[w])
      BY <1>t, <3>2, <3>3 DEF ScanOK
    <3>5. place' = [place EXCEPT ![w] = "scanning"]
      BY <1>t, <3>2
    <3> QED
      BY <1>t, <3>2, <3>3, <3>4, <3>5, WriterScans
  <2>2. CASE source[p] = None
    BY <1>3, <2>2, WriterMoves DEF M!Stat, M!GoTo, M!Fail
  <2> QED
    BY <2>1, <2>2
<1>4. CASE M!Hash(w)
  <2> DEFINE q == at[w].path
  <2>1. /\ place[w] = "scanning" /\ at[w] # Nothing /\ q \in Paths /\ q \in found[w]
    BY <1>4, <1>t DEF M!Hash, ScanOK
  <2>2. CASE source[q] # None /\ SizeOf[source[q]] = at[w].size
    <3> DEFINE so == [r \in DOMAIN scanned[w] \cup {q} |-> IF r = q THEN source[q] ELSE scanned[w][r]]
    <3>1. /\ scanned' = [scanned EXCEPT ![w] = so]
          /\ found' = [found EXCEPT ![w] = found[w] \ {q}]
          /\ at' = [at EXCEPT ![w] = Nothing]
          /\ UNCHANGED <<source, manifest, place>>
      BY <1>4, <1>t, <2>2 DEF M!Hash
    <3>2. so \in M!Scans /\ DOMAIN so = DOMAIN scanned[w] \cup {q}
      <4>1. source[q] \in Contents
        BY <2>1, <2>2, <1>t
      <4>2. DOMAIN scanned[w] \subseteq Paths /\ scanned[w] \in [DOMAIN scanned[w] -> Contents]
        BY <1>t, ScanIs
      <4>3. so \in [DOMAIN scanned[w] \cup {q} -> Contents]
        BY <4>1, <4>2
      <4>4. DOMAIN scanned[w] \cup {q} \in SUBSET Paths
        BY <2>1, <4>2
      <4> QED
        BY <4>3, <4>4, ScanIs
    <3> HIDE DEF so, q
    <3>4. ScanOK(found[w] \ {q}, Nothing, so)
      BY <1>t, <2>1, <3>2 DEF ScanOK, Clashing
    <3>5. /\ found[w] \ {q} \in SUBSET Paths /\ Nothing \in Looks
          /\ place' = [place EXCEPT ![w] = "scanning"]
      BY <1>t, <2>1, <3>1 DEF Looks
    <3> QED
      BY <2>1, <3>1, <3>2, <3>4, <3>5, WriterScans
  <2>3. CASE ~(source[q] # None /\ SizeOf[source[q]] = at[w].size)
    BY <1>4, <2>1, <2>3, WriterMoves DEF M!Hash, M!GoTo, M!Fail
  <2> QED
    BY <2>2, <2>3
<1>5. CASE M!EndScan(w)
  BY <1>5, WriterMoves DEF M!EndScan, M!GoTo, M!Fail
<1>6. CASE M!Kill(w)
  BY <1>6, WriterMoves DEF M!Kill, M!GoTo
<1>7. CASE M!OpenManifest(w)
  <2>1. CASE manifest # Nothing
    BY <1>7, <2>1, WriterMoves DEF M!OpenManifest, M!GoTo, M!Fail
  <2>2. CASE manifest = Nothing
    <3> DEFINE file == [by |-> w, files |-> <<>>, whole |-> FALSE]
    <3>1. <<>> \in M!Scans /\ DOMAIN <<>> = {}
      <4>1. <<>> \in [{} -> Contents]
        OBVIOUS
      <4> QED
        BY <4>1, ScanIs
    <3>2. file \in M!ManifestFiles /\ file.by = w /\ file.files = <<>>
      BY <3>1 DEF M!ManifestFiles
    <3>3. /\ place[w] = "scanned" /\ manifest' = file /\ place' = [place EXCEPT ![w] = "writing"]
          /\ UNCHANGED <<source, found, at, scanned>>
      BY <1>7, <2>2 DEF M!OpenManifest, M!GoTo
    <3>4. file # Nothing
      BY <3>2, NothingAssumption
    <3> HIDE DEF file
    <3> QED
      BY <2>2, <3>1, <3>2, <3>3, <3>4, WriterWrites
  <2> QED
    BY <2>1, <2>2
<1>m. place[w] = "writing" => /\ manifest \in M!ManifestFiles /\ manifest # Nothing /\ manifest.by = w
                              /\ DOMAIN manifest.files \subseteq DOMAIN scanned[w]
  BY <1>t DEF Owned, WInv, WTypes
<1>8. CASE M!Grow(w)
  <2>1. PICK p \in DOMAIN scanned[w] \ DOMAIN manifest.files :
           manifest' = [manifest EXCEPT !.files = [q \in DOMAIN @ \cup {p} |-> scanned[w][q]]]
    BY <1>8 DEF M!Grow
  <2> DEFINE more == [q \in DOMAIN manifest.files \cup {p} |-> scanned[w][q]]
             file == [manifest EXCEPT !.files = more]
  <2>2. place[w] = "writing" /\ manifest' = file /\ UNCHANGED <<source, place, found, at, scanned>>
    BY <1>8, <2>1 DEF M!Grow, M!process
  <2>3. DOMAIN scanned[w] \subseteq Paths /\ scanned[w] \in [DOMAIN scanned[w] -> Contents]
    BY <1>t, ScanIs
  <2>4. more \in [DOMAIN manifest.files \cup {p} -> Contents]
        /\ DOMAIN manifest.files \cup {p} \in SUBSET Paths
        /\ DOMAIN more \subseteq DOMAIN scanned[w]
    BY <1>m, <2>1, <2>2, <2>3
  <2>5. more \in M!Scans
    BY <2>4, ScanIs
  <2> HIDE DEF more
  <2>6. file \in M!ManifestFiles /\ file.by = w /\ file.files = more
    BY <1>m, <2>2, <2>5 DEF M!ManifestFiles
  <2>7. file # Nothing
    BY <2>6, NothingAssumption
  <2>8. place' = [place EXCEPT ![w] = "writing"]
    BY <1>t, <2>2
  <2> HIDE DEF file
  <2> QED
    BY <1>m, <2>2, <2>4, <2>6, <2>7, <2>8, WriterWrites
<1>9. CASE M!CloseManifest(w)
  <2> DEFINE file == [manifest EXCEPT !.whole = TRUE]
  <2>1. /\ place[w] = "writing" /\ manifest' = file /\ place' = [place EXCEPT ![w] = "done"]
        /\ UNCHANGED <<source, found, at, scanned>>
    BY <1>9 DEF M!CloseManifest, M!GoTo
  <2>2. /\ file \in M!ManifestFiles /\ file.by = w /\ file.files = manifest.files
        /\ file.whole
    BY <1>m, <2>1 DEF M!ManifestFiles
  <2>3. file # Nothing
    BY <2>2, NothingAssumption
  <2> HIDE DEF file
  <2> QED
    BY <1>m, <2>1, <2>2, <2>3, WriterWrites
<1>10. CASE M!WriteFails(w)
  BY <1>10, <1>m, WriterWrites DEF M!WriteFails, M!GoTo
<1> QED
  BY <1>1, <1>2, <1>3, <1>4, <1>5, <1>6, <1>7, <1>8, <1>9, <1>10 DEF M!Step

LEMMA WriterLeftover == ASSUME WInv, M!RemoveLeftover PROVE WInv'
<1>1. /\ manifest # Nothing /\ manifest.by \in Writers /\ place[manifest.by] = "killed"
      /\ manifest' = Nothing /\ UNCHANGED <<source, place, found, at, scanned>>
  BY DEF M!RemoveLeftover, M!process
<1>2. \A w \in Writers : place[w] # "writing"
  BY <1>1 DEF WInv, Owned
<1>3. WTypes' /\ Generating'
  BY <1>1 DEF WInv, WTypes, Generating
<1>4. \A w \in Writers : ScanOK(found'[w], at'[w], scanned'[w]) /\ Started(w)' /\ Owned(w)'
  BY <1>1, <1>2 DEF WInv, Started, Owned
<1> QED
  BY <1>3, <1>4 DEF WInv

LEMMA WriterEdited ==
    ASSUME WInv, NEW p \in Paths, NEW content \in Contents \cup {None}, M!Edit(p, content)
    PROVE  WInv'
<1>1. /\ source' = [source EXCEPT ![p] = content] /\ OnFileSystem(source')
      /\ UNCHANGED <<manifest, place, found, at, scanned>>
  BY DEF M!Edit, M!process, M!OnFileSystem, OnFileSystem, M!Exclude, Exclude
<1> QED
  BY <1>1 DEF WInv, WTypes, Started, Owned, Generating

LEMMA WriterRests == ASSUME WInv, UNCHANGED <<source, manifest, ofManifest>> PROVE WInv'
BY DEF ofManifest, WInv, WTypes, Started, Owned, Generating

(* Nobody takes away a manifest that was written by hand.                    *)
LEMMA HandMadeStays ==
    ASSUME WInv, manifest # Nothing, manifest.by = Nothing,
           \/ \E w \in Writers : M!Step(w)
           \/ M!RemoveLeftover
           \/ \E p \in Paths, content \in Contents \cup {None} : M!Edit(p, content)
           \/ UNCHANGED manifest
    PROVE  manifest' = manifest
<1>1. ASSUME NEW w \in Writers, M!Step(w) PROVE manifest' = manifest
  <2>1. place[w] # "writing"
    BY NothingAssumption DEF WInv, Owned
  <2> QED
    BY <1>1, <2>1 DEF M!Step, M!Lookup, M!List, M!Hash, M!EndScan, M!OpenManifest, M!Grow,
                      M!CloseManifest, M!WriteFails, M!Kill, M!Stat, M!Fail
<1> QED
  BY <1>1, NothingAssumption DEF M!RemoveLeftover, M!Edit

-----------------------------------------------------------------------------
(* The creators of archives.                                                 *)

Early == {"idle", "verifying", "verified"}
Stages == C!Working \cup {"idle", "done", "failed", "killed"}
Files == [entries : Seq(Entries), ended : BOOLEAN]

KTypes ==
    /\ declared \in [Creators -> Manifests \cup {<<>>}]
    /\ pc \in [Creators -> Stages]
    /\ todo \in [Creators -> SUBSET Paths]
    /\ archive \in [Creators -> Files]
    /\ output \in Creators \cup {Nothing}
    /\ touched \subseteq Paths

(* What a creator that has come to some stage has, of any values.             *)
StageOK(c, stage, m, left, file, out) ==
    /\ left \subseteq DOMAIN m
    /\ stage \notin {"idle", "failed"} => m \in Manifests
    /\ stage \in Early => file.entries = <<>>
    /\ stage \in Early \cup {"writing"} => ~file.ended
    /\ stage \in {"writing", "written", "done"} => out = c
    /\ stage = "done" => file.ended /\ Sound(m, file.entries) /\ Complete(m, file.entries)

(* Untouched payloads that were verified are still as declared, and after    *)
(* the walk there is no other one.                                           *)
FromSource(kept, stage, m, left) ==
    /\ stage = "verifying" => \A p \in (DOMAIN m \ left) \cap kept : source[p] = m[p]
    /\ stage \in {"verified", "writing", "written", "done"} =>
          \A p \in kept : source[p] = IF p \in DOMAIN m THEN m[p] ELSE None

AtOutput ==
    output # Nothing =>
        pc[output] \in {"writing", "written", "done", "killed"} /\ declared[output] \in Manifests

HandMade ==
    \A c \in Creators :
        Clashing(DOMAIN declared[c]) => manifest # Nothing /\ manifest.by = Nothing

KInv ==
    /\ KTypes
    /\ \A c \in Creators :
          /\ StageOK(c, pc[c], declared[c], todo[c], archive[c], output)
          /\ FromSource(Paths \ touched, pc[c], declared[c], todo[c])
    /\ AtOutput /\ HandMade

Prefix(f, g) == Len(f) <= Len(g) /\ \A i \in 1 .. Len(f) : f[i] = g[i]

(* An archive that was begun only grows, and not any more once it was ended.  *)
Onward(c) ==
    pc[c] \notin Early =>
        /\ pc'[c] \notin Early /\ declared'[c] = declared[c]
        /\ Prefix(archive[c].entries, archive'[c].entries)
        /\ archive[c].ended => archive'[c] = archive[c]

LEMMA CreatorTypes == KInv => C!TypeOK
BY SameFormat DEF KInv, KTypes, StageOK, Stages, Files, C!TypeOK

(* A step of one creator, and what makes it go on as it should.               *)
Moved(c, m, next, left, file, out) ==
    /\ declared' = [declared EXCEPT ![c] = m] /\ pc' = [pc EXCEPT ![c] = next]
    /\ todo' = [todo EXCEPT ![c] = left] /\ archive' = [archive EXCEPT ![c] = file]
    /\ output' = out /\ UNCHANGED <<manifest, source, touched>>

Allowed(c, m, next, left, file, out) ==
    /\ out # output => output \in {c, Nothing}
    /\ out = c => next \in {"writing", "written", "done", "killed"}
    /\ StageOK(c, next, m, left, file, out) /\ FromSource(Paths \ touched, next, m, left)
    /\ Clashing(DOMAIN m) => manifest # Nothing /\ manifest.by = Nothing
    /\ pc[c] \notin Early =>
          /\ next \notin Early /\ m = declared[c]
          /\ Prefix(archive[c].entries, file.entries)
          /\ archive[c].ended => file = archive[c]

LEMMA CreatorMoves ==
    ASSUME KInv, NEW c \in Creators,
           NEW m \in Manifests \cup {<<>>}, NEW next \in Stages, NEW left \in SUBSET Paths,
           NEW file \in Files, NEW out \in {output, c, Nothing},
           Moved(c, m, next, left, file, out), Allowed(c, m, next, left, file, out)
    PROVE  KInv' /\ \A e \in Creators : Onward(e)
<1> USE DEF Moved, Allowed
<1>1. \A e \in Creators : /\ declared'[e] = (IF e = c THEN m ELSE declared[e])
                          /\ pc'[e] = (IF e = c THEN next ELSE pc[e])
                          /\ todo'[e] = (IF e = c THEN left ELSE todo[e])
                          /\ archive'[e] = (IF e = c THEN file ELSE archive[e])
  BY DEF KInv, KTypes
<1>2. KTypes'
  BY DEF KInv, KTypes
<1>3. \A e \in Creators : StageOK(e, pc'[e], declared'[e], todo'[e], archive'[e], out)
  <2>1. ASSUME NEW e \in Creators, e # c, pc[e] \in {"writing", "written", "done"} PROVE out = e
    <3>1. output = e /\ e # Nothing
      BY <2>1, NothingAssumption DEF KInv, StageOK
    <3> QED
      BY <2>1, <3>1
  <2> QED
    BY <1>1, <2>1 DEF KInv, StageOK
<1>4. \A e \in Creators : FromSource(Paths \ touched, pc[e], declared[e], todo[e])'
  BY <1>1 DEF KInv, FromSource
<1>5. AtOutput'
  BY <1>1, <1>3 DEF KInv, KTypes, AtOutput, StageOK
<1>6. HandMade'
  BY <1>1 DEF KInv, HandMade
<1>7. \A e \in Creators : Prefix(archive[e].entries, archive[e].entries)
  BY DEF KInv, KTypes, Files, Prefix
<1>8. \A e \in Creators : Onward(e)
  BY <1>1, <1>7 DEF Onward
<1> QED
  BY <1>2, <1>3, <1>4, <1>5, <1>6, <1>8 DEF KInv

LEMMA CreatorStep ==
    ASSUME KInv, WInv, NEW c \in Creators, C!Step(c), UNCHANGED touched
    PROVE  KInv' /\ \A e \in Creators : Onward(e)
<1>t. /\ declared[c] \in Manifests \cup {<<>>} /\ todo[c] \in SUBSET Paths
      /\ pc[c] \in Stages /\ archive[c] \in Files /\ archive[c].entries \in Seq(Entries)
      /\ c # Nothing /\ Prefix(archive[c].entries, archive[c].entries)
  BY NothingAssumption DEF KInv, KTypes, Files, Prefix
<1>e. /\ declared = [declared EXCEPT ![c] = declared[c]] /\ pc = [pc EXCEPT ![c] = pc[c]]
      /\ todo = [todo EXCEPT ![c] = todo[c]] /\ archive = [archive EXCEPT ![c] = archive[c]]
  BY DEF KInv, KTypes
<1>s. /\ StageOK(c, pc[c], declared[c], todo[c], archive[c], output)
      /\ FromSource(Paths \ touched, pc[c], declared[c], todo[c])
      /\ Clashing(DOMAIN declared[c]) => manifest # Nothing /\ manifest.by = Nothing
      /\ output = c => pc[c] \in {"writing", "written", "done", "killed"}
  BY <1>t DEF KInv, HandMade, AtOutput
(* Going on to another stage. *)
<1>m. ASSUME NEW next \in Stages, NEW left \in SUBSET Paths, NEW out \in {output, c, Nothing},
             pc' = [pc EXCEPT ![c] = next], todo' = [todo EXCEPT ![c] = left],
             UNCHANGED <<manifest, source, declared, archive>>, output' = out,
             out # output => output \in {c, Nothing},
             out = c => next \in {"writing", "written", "done", "killed"},
             StageOK(c, next, declared[c], left, archive[c], out),
             FromSource(Paths \ touched, next, declared[c], left),
             pc[c] \notin Early => next \notin Early
      PROVE  KInv' /\ \A e \in Creators : Onward(e)
  <2>1. /\ declared' = [declared EXCEPT ![c] = declared[c]]
        /\ archive' = [archive EXCEPT ![c] = archive[c]]
    BY <1>m, <1>t, <1>e, <1>s
  <2>2. Moved(c, declared[c], next, left, archive[c], out)
    BY <1>m, <2>1 DEF Moved
  <2>3. Allowed(c, declared[c], next, left, archive[c], out)
    BY <1>m, <1>t, <1>s DEF Allowed
  <2> QED
    BY <1>t, <2>2, <2>3, CreatorMoves
<1>f. ASSUME C!Fail(c), UNCHANGED <<manifest, source>>, pc[c] \in Early
      PROVE  KInv' /\ \A e \in Creators : Onward(e)
  <2>1. /\ pc' = [pc EXCEPT ![c] = "failed"] /\ todo' = [todo EXCEPT ![c] = todo[c]]
        /\ UNCHANGED <<declared, archive, output>>
    BY <1>f, <1>t, <1>e, <1>s DEF C!Fail, C!GoTo
  <2>2. StageOK(c, "failed", declared[c], todo[c], archive[c], output)
    BY <1>t, <1>e, <1>s, <1>f DEF StageOK, Early
  <2>3. FromSource(Paths \ touched, "failed", declared[c], todo[c]) /\ "failed" \in Stages
    BY DEF FromSource, Stages
  <2>4. output # c
    BY <1>f, <1>t, <1>e, <1>s DEF Early
  <2> QED
    BY <1>f, <1>t, <1>e, <1>s, <1>m, <2>1, <2>2, <2>3, <2>4 DEF Early
<1>r. ASSUME C!FailAndRemove(c), UNCHANGED <<manifest, source>>, pc[c] \in {"writing", "written"}
      PROVE  KInv' /\ \A e \in Creators : Onward(e)
  <2>1. /\ pc' = [pc EXCEPT ![c] = "failed"] /\ todo' = [todo EXCEPT ![c] = todo[c]]
        /\ UNCHANGED <<declared, archive>> /\ output' = Nothing /\ output = c
    BY <1>r, <1>t, <1>e, <1>s DEF C!FailAndRemove, C!GoTo, StageOK
  <2>2. StageOK(c, "failed", declared[c], todo[c], archive[c], Nothing)
    BY <1>t, <1>e, <1>s, <1>r DEF StageOK, Early
  <2>3. FromSource(Paths \ touched, "failed", declared[c], todo[c]) /\ "failed" \in Stages
    BY DEF FromSource, Stages
  <2> QED
    BY <1>r, <1>t, <1>e, <1>s, <1>m, <2>1, <2>2, <2>3 DEF Early
<1>1. CASE C!ReadManifest(c)
  <2>1. CASE C!Fail(c)
    BY <1>1, <1>f, <2>1 DEF C!ReadManifest, Early
  <2>2. CASE /\ manifest # Nothing /\ manifest.files # <<>>
             /\ declared' = [declared EXCEPT ![c] = manifest.files]
             /\ todo' = [todo EXCEPT ![c] = DOMAIN manifest.files]
             /\ C!GoTo(c, "verifying") /\ UNCHANGED <<archive, output>>
    <3>1. /\ pc[c] = "idle" /\ UNCHANGED <<manifest, source>>
          /\ pc' = [pc EXCEPT ![c] = "verifying"] /\ archive' = [archive EXCEPT ![c] = archive[c]]
      BY <1>1, <1>t, <1>e, <1>s, <2>2 DEF C!ReadManifest, C!GoTo
    <3>2. manifest.files \in M!Scans /\ manifest.by \in Writers \cup {Nothing}
      BY <2>2 DEF WInv, WTypes, M!ManifestFiles
    <3>3. manifest.files \in Manifests /\ DOMAIN manifest.files \in SUBSET Paths
      BY <2>2, <3>2, ScanIs
    <3>4. Clashing(DOMAIN manifest.files) => manifest.by = Nothing
      BY <2>2, <3>2 DEF WInv, Generating
    <3>5. StageOK(c, "verifying", manifest.files, DOMAIN manifest.files, archive[c], output)
      BY <1>t, <1>e, <1>s, <3>1, <3>3 DEF StageOK, Early
    <3>6. /\ FromSource(Paths \ touched, "verifying", manifest.files, DOMAIN manifest.files)
          /\ "verifying" \in Stages
      BY DEF FromSource, Stages, C!Working
    <3>7. output # c
      BY <1>t, <1>e, <1>s, <3>1
    <3>8. Moved(c, manifest.files, "verifying", DOMAIN manifest.files, archive[c], output)
      BY <2>2, <3>1 DEF Moved
    <3>9. Allowed(c, manifest.files, "verifying", DOMAIN manifest.files, archive[c], output)
      BY <2>2, <3>1, <3>4, <3>5, <3>6, <3>7 DEF Allowed, Early
    <3> QED
      BY <1>t, <3>3, <3>6, <3>8, <3>9, CreatorMoves
  <2> QED
    BY <1>1, <2>1, <2>2 DEF C!ReadManifest
<1>2. ASSUME NEW p \in Paths, C!VerifyFile(c, p)
      PROVE  KInv' /\ \A e \in Creators : Onward(e)
  <2>1. CASE C!Fail(c)
    BY <1>2, <1>f, <2>1 DEF C!VerifyFile, Early
  <2>2. CASE source[p] = declared[c][p]
    <3>1. /\ pc[c] = "verifying" /\ todo' = [todo EXCEPT ![c] = todo[c] \ {p}]
          /\ UNCHANGED <<manifest, source, declared, pc, archive, output>>
      BY <1>2, <2>2 DEF C!VerifyFile
    <3>2. StageOK(c, "verifying", declared[c], todo[c] \ {p}, archive[c], output)
      BY <1>t, <1>e, <1>s, <3>1 DEF StageOK
    <3>3. FromSource(Paths \ touched, "verifying", declared[c], todo[c] \ {p})
      BY <1>t, <1>e, <1>s, <2>2, <3>1 DEF FromSource
    <3>4. pc' = [pc EXCEPT ![c] = "verifying"] /\ "verifying" \in Stages /\ output # c
      BY <1>t, <1>e, <1>s, <3>1
    <3>5. todo[c] \ {p} \in SUBSET Paths
      BY <1>t, <1>e, <1>s
    <3> QED
      BY <1>t, <1>e, <1>s, <1>m, <3>1, <3>2, <3>3, <3>4, <3>5 DEF Early
  <2> QED
    BY <1>2, <2>1, <2>2 DEF C!VerifyFile
<1>3. CASE C!Walk(c)
  <2>1. CASE C!Fail(c)
    BY <1>3, <1>f, <2>1 DEF C!Walk, Early
  <2>2. CASE C!Undeclared(c) = {}
    <3>1. /\ pc[c] = "verifying" /\ todo[c] = {} /\ pc' = [pc EXCEPT ![c] = "verified"]
          /\ UNCHANGED <<manifest, source, declared, todo, archive, output>>
      BY <1>3, <2>2 DEF C!Walk, C!GoTo
    <3>2. StageOK(c, "verified", declared[c], todo[c], archive[c], output)
      BY <1>t, <1>e, <1>s, <3>1 DEF StageOK, Early
    <3>3. FromSource(Paths \ touched, "verified", declared[c], todo[c])
      BY <1>t, <1>e, <1>s, <2>2, <3>1 DEF FromSource, C!Undeclared
    <3>4. "verified" \in Stages /\ output # c
      BY <1>t, <1>e, <1>s, <3>1 DEF Stages, C!Working
    <3> QED
      BY <1>t, <1>e, <1>s, <1>m, <3>1, <3>2, <3>3, <3>4 DEF Early
  <2> QED
    BY <1>3, <2>1, <2>2 DEF C!Walk
<1>4. CASE C!OpenOutput(c)
  <2>1. CASE C!Fail(c)
    BY <1>4, <1>f, <2>1 DEF C!OpenOutput, Early
  <2>2. CASE output = Nothing
    <3>1. /\ pc[c] = "verified" /\ output' = c /\ pc' = [pc EXCEPT ![c] = "writing"]
          /\ todo' = [todo EXCEPT ![c] = DOMAIN declared[c]]
          /\ UNCHANGED <<manifest, source, declared, archive>>
      BY <1>4, <2>2 DEF C!OpenOutput, C!GoTo
    <3>2. declared[c] \in Manifests /\ DOMAIN declared[c] \in SUBSET Paths
      BY <1>t, <1>e, <1>s, <3>1 DEF StageOK, Manifests
    <3>3. StageOK(c, "writing", declared[c], DOMAIN declared[c], archive[c], c)
      BY <1>t, <1>e, <1>s, <3>1, <3>2 DEF StageOK, Early
    <3>4. /\ FromSource(Paths \ touched, "writing", declared[c], DOMAIN declared[c])
          /\ "writing" \in Stages
      BY <1>t, <1>e, <1>s, <3>1 DEF FromSource, Stages, C!Working
    <3> QED
      BY <1>t, <1>e, <1>s, <1>m, <2>2, <3>1, <3>2, <3>3, <3>4 DEF Early
  <2> QED
    BY <1>4, <2>1, <2>2 DEF C!OpenOutput
<1>5. ASSUME NEW p \in Paths, C!WriteFile(c, p)
      PROVE  KInv' /\ \A e \in Creators : Onward(e)
  <2>1. CASE C!FailAndRemove(c)
    BY <1>5, <1>r, <2>1 DEF C!WriteFile
  <2>2. CASE C!Fits(c, p)
    <3> DEFINE entry == [type |-> "file", name |-> p, content |-> source[p]]
               more == Append(archive[c].entries, entry)
               file == [archive[c] EXCEPT !.entries = more]
    <3>1. /\ pc[c] = "writing" /\ todo' = [todo EXCEPT ![c] = todo[c] \ {p}]
          /\ archive' = [archive EXCEPT ![c].entries = more]
          /\ UNCHANGED <<manifest, source, declared, pc, output>>
      BY <1>5, <2>2 DEF C!WriteFile
    <3>2. entry \in Entries
      BY <2>2 DEF C!Fits, Entries, Names, WInv, WTypes
    <3>3. more \in Seq(Entries) /\ Prefix(archive[c].entries, more)
      <4> HIDE DEF entry
      <4> QED
        BY <1>t, <1>e, <1>s, <3>2 DEF Prefix
    <3> HIDE DEF entry, more
    <3>4. /\ file \in Files /\ file.entries = more /\ file.ended = archive[c].ended
          /\ archive' = [archive EXCEPT ![c] = file]
      BY <1>t, <1>e, <1>s, <3>1, <3>3 DEF Files, KInv, KTypes
    <3> HIDE DEF file
    <3>5. StageOK(c, "writing", declared[c], todo[c] \ {p}, file, output)
      BY <1>t, <1>e, <1>s, <3>1, <3>4 DEF StageOK, Early
    <3>6. FromSource(Paths \ touched, "writing", declared[c], todo[c] \ {p})
      BY <1>t, <1>e, <1>s, <3>1 DEF FromSource
    <3>7. /\ declared' = [declared EXCEPT ![c] = declared[c]] /\ pc' = [pc EXCEPT ![c] = "writing"]
          /\ "writing" \in Stages /\ todo[c] \ {p} \in SUBSET Paths /\ ~archive[c].ended
      BY <1>t, <1>e, <1>s, <3>1 DEF StageOK
    <3>8. Moved(c, declared[c], "writing", todo[c] \ {p}, file, output)
      BY <3>1, <3>4, <3>7 DEF Moved
    <3>9. Allowed(c, declared[c], "writing", todo[c] \ {p}, file, output)
      BY <1>s, <3>1, <3>3, <3>4, <3>5, <3>6, <3>7 DEF Allowed, Early
    <3> QED
      BY <1>t, <3>4, <3>7, <3>8, <3>9, CreatorMoves
  <2> QED
    BY <1>5, <2>1, <2>2 DEF C!WriteFile
<1>6. CASE C!CloseOutput(c)
  <2>1. CASE C!FailAndRemove(c)
    BY <1>6, <1>r, <2>1 DEF C!CloseOutput
  <2>2. CASE /\ archive' = [archive EXCEPT ![c].ended = TRUE] /\ C!GoTo(c, "written")
             /\ UNCHANGED <<declared, todo, output>>
    <3> DEFINE file == [archive[c] EXCEPT !.ended = TRUE]
    <3>1. /\ pc[c] = "writing" /\ pc' = [pc EXCEPT ![c] = "written"]
          /\ UNCHANGED <<manifest, source, declared, todo, output>>
      BY <1>6, <2>2 DEF C!CloseOutput, C!GoTo
    <3>2. /\ file \in Files /\ file.entries = archive[c].entries
          /\ archive' = [archive EXCEPT ![c] = file]
      BY <1>t, <1>e, <1>s, <2>2 DEF Files, KInv, KTypes
    <3> HIDE DEF file
    <3>3. StageOK(c, "written", declared[c], todo[c], file, output)
      BY <1>t, <1>e, <1>s, <3>1, <3>2 DEF StageOK, Early
    <3>4. FromSource(Paths \ touched, "written", declared[c], todo[c]) /\ "written" \in Stages
      BY <1>t, <1>e, <1>s, <3>1 DEF FromSource, Stages, C!Working
    <3>5. ~archive[c].ended
      BY <1>t, <1>e, <1>s, <3>1 DEF StageOK
    <3>6. /\ declared' = [declared EXCEPT ![c] = declared[c]]
          /\ todo' = [todo EXCEPT ![c] = todo[c]]
      BY <1>t, <1>e, <1>s, <3>1
    <3>7. Moved(c, declared[c], "written", todo[c], file, output)
      BY <3>1, <3>2, <3>6 DEF Moved
    <3>8. Allowed(c, declared[c], "written", todo[c], file, output)
      BY <1>t, <1>s, <3>1, <3>2, <3>3, <3>4, <3>5 DEF Allowed, Early
    <3> QED
      BY <1>t, <3>2, <3>4, <3>7, <3>8, CreatorMoves
  <2> QED
    BY <1>6, <2>1, <2>2 DEF C!CloseOutput
<1>7. CASE C!FinalInspect(c)
  <2>1. CASE C!FailAndRemove(c)
    BY <1>7, <1>r, <2>1 DEF C!FinalInspect
  <2>2. CASE output # Nothing /\ C!Inspects(output)
    <3>1. /\ pc[c] = "written" /\ pc' = [pc EXCEPT ![c] = "done"]
          /\ UNCHANGED <<manifest, source, declared, todo, archive, output>> /\ output = c
      BY <1>7, <1>t, <1>e, <1>s, <2>2 DEF C!FinalInspect, C!GoTo, StageOK
    <3>2. StageOK(c, "done", declared[c], todo[c], archive[c], output)
      BY <1>t, <1>e, <1>s, <2>2, <3>1, SameFormat DEF StageOK, Early, C!Inspects
    <3>3. FromSource(Paths \ touched, "done", declared[c], todo[c]) /\ "done" \in Stages
      BY <1>t, <1>e, <1>s, <3>1 DEF FromSource, Stages
    <3> QED
      BY <1>t, <1>e, <1>s, <1>m, <3>1, <3>2, <3>3 DEF Early
  <2> QED
    BY <1>7, <2>1, <2>2 DEF C!FinalInspect
<1>8. CASE C!Kill(c)
  <2>1. /\ pc[c] \in C!Working /\ pc' = [pc EXCEPT ![c] = "killed"]
        /\ UNCHANGED <<manifest, source, declared, todo, archive, output>>
    BY <1>8 DEF C!Kill, C!GoTo
  <2>2. StageOK(c, "killed", declared[c], todo[c], archive[c], output)
    BY <1>t, <1>e, <1>s, <2>1 DEF StageOK, Early, C!Working
  <2>3. FromSource(Paths \ touched, "killed", declared[c], todo[c]) /\ "killed" \in Stages
    BY DEF FromSource, Stages
  <2> QED
    BY <1>t, <1>e, <1>s, <1>m, <2>1, <2>2, <2>3 DEF Early
<1> QED
  BY <1>1, <1>2, <1>3, <1>4, <1>5, <1>6, <1>7, <1>8 DEF C!Step

(* The creators do nothing while the source or its manifest changes.          *)
LEMMA CreatorsWatch ==
    ASSUME KInv, UNCHANGED ofCreate, touched' \in SUBSET Paths, touched \subseteq touched',
           \A p \in Paths \ touched' : source'[p] = source[p],
           manifest # Nothing /\ manifest.by = Nothing => manifest' = manifest
    PROVE  KInv' /\ \A c \in Creators : Onward(c)
<1>1. KTypes' /\ AtOutput'
  BY DEF KInv, KTypes, AtOutput, ofCreate
<1>2. \A c \in Creators : FromSource(Paths \ touched, pc[c], declared[c], todo[c])'
  BY DEF KInv, FromSource, ofCreate
<1>3. \A c \in Creators : StageOK(c, pc[c], declared[c], todo[c], archive[c], output)'
  BY DEF KInv, StageOK, ofCreate
<1>4. HandMade'
  BY DEF KInv, HandMade, ofCreate
<1>5. \A c \in Creators : Onward(c)
  BY DEF KInv, KTypes, Files, Prefix, Onward, ofCreate
<1> QED
  BY <1>1, <1>2, <1>3, <1>4, <1>5 DEF KInv

LEMMA OutputCleared ==
    ASSUME KInv, C!RemoveLeftover, UNCHANGED touched
    PROVE  KInv' /\ \A c \in Creators : Onward(c)
<1>1. /\ output # Nothing /\ pc[output] = "killed" /\ output' = Nothing
      /\ UNCHANGED <<manifest, source, declared, pc, todo, archive>>
  BY DEF C!RemoveLeftover
<1>2. KTypes' /\ AtOutput' /\ HandMade'
  BY <1>1 DEF KInv, KTypes, AtOutput, HandMade
<1>3. \A c \in Creators : /\ FromSource(Paths \ touched, pc[c], declared[c], todo[c])'
                          /\ StageOK(c, pc[c], declared[c], todo[c], archive[c], output)'
  BY <1>1 DEF KInv, FromSource, StageOK
<1>4. \A c \in Creators : Onward(c)
  BY <1>1 DEF KInv, KTypes, Files, Prefix, Onward
<1> QED
  BY <1>2, <1>3, <1>4 DEF KInv

-----------------------------------------------------------------------------
(* The reader of the output reads what its creator has written so far.        *)

Settled ==
    /\ setting.writers \subseteq Writers /\ setting.creators \subseteq Creators
    /\ setting.foreign \subseteq Manifests
    /\ setting.foreign = {} \/ ~setting.reader

Follows(c) ==
    /\ setting.reader /\ pc[c] \notin Early /\ result # "idle"
    /\ ended \in {"not", "clean", "broken"}
    /\ ended # "broken" => given = declared[c] /\ Prefix(entries, archive[c].entries)
    /\ ended = "clean" => archive[c].ended /\ Len(entries) = Len(archive[c].entries)

OInv ==
    /\ Settled /\ edits \in Nat
    /\ origin \in Creators \cup {Nothing}
    /\ origin # Nothing => Follows(origin)

LEMMA ReaderFollows ==
    ASSUME OInv, KInv, RInv, \A c \in Creators : Onward(c), UNCHANGED <<origin, setting, ofReader>>,
           edits' \in Nat, KInv'
    PROVE  OInv'
<1>1. ASSUME origin # Nothing PROVE Follows(origin)'
  <2>1. /\ origin \in Creators /\ Follows(origin) /\ Onward(origin)
        /\ entries \in Seq(Entries)
        /\ archive[origin].entries \in Seq(Entries) /\ archive'[origin].entries \in Seq(Entries)
    BY <1>1 DEF OInv, KInv, KTypes, Files, RInv
  <2>2. \A f, g, h \in Seq(Entries) : Prefix(f, g) /\ Prefix(g, h) => Prefix(f, h)
    BY DEF Prefix
  <2>3. ended # "broken" => Prefix(entries, archive'[origin].entries)
    BY <2>1, <2>2 DEF Follows, Onward
  <2> QED
    BY <2>1, <2>3 DEF Follows, Onward, ofReader
<1> QED
  BY <1>1 DEF OInv, Settled

(* A sound archive has no more entries than there are paths.                  *)
LEMMA SoundIsShort ==
    ASSUME NEW m, NEW files \in Seq(Entries), Sound(m, files)
    PROVE  Len(files) <= MaxEntries
<1> DEFINE name == [i \in 1 .. Len(files) |-> files[i].name]
<1>1. name \in [1 .. Len(files) -> Paths] /\ \A i, j \in 1 .. Len(files) : name[i] = name[j] => i = j
  BY DEF Sound
<1>2. name \in Injection(1 .. Len(files), Paths)
  BY <1>1 DEF Injection, IsInjective
<1>3. Cardinality(1 .. Len(files)) <= Cardinality(Paths)
  BY <1>2, PathsAssumption, FS_Injection
<1>4. Len(files) \in Nat /\ 1 \in Int
  OBVIOUS
<1>5. Cardinality(1 .. Len(files)) = Len(files)
  <2>1. Cardinality(1 .. Len(files)) = IF 1 > Len(files) THEN 0 ELSE Len(files) - 1 + 1
    BY <1>4, FS_Interval
  <2> QED
    BY <1>4, <2>1
<1>6. Cardinality(Paths) \in Nat
  BY PathsAssumption, FS_CardinalityType
<1> QED
  BY <1>3, <1>4, <1>5, <1>6, PathsAssumption, BoundsAssumption

LEMMA PartIsSound ==
    ASSUME NEW m, NEW f \in Seq(Entries), NEW g \in Seq(Entries), Prefix(f, g), Sound(m, g)
    PROVE  /\ Sound(m, f)
           /\ Len(f) = Len(g) /\ Complete(m, g) => Complete(m, f)
<1>1. /\ DOMAIN f = 1 .. Len(f) /\ DOMAIN g = 1 .. Len(g) /\ DOMAIN f \subseteq DOMAIN g
      /\ \A i \in DOMAIN f : f[i] = g[i]
  BY DEF Prefix
<1>2. Payloads(f) = Payloads(g) \cap DOMAIN f
  BY <1>1 DEF Payloads
<1>3. Sound(m, f)
  BY <1>1, <1>2 DEF Sound
<1>4. Len(f) = Len(g) => Payloads(f) = Payloads(g)
  BY <1>1, <1>2 DEF Payloads
<1> QED
  BY <1>1, <1>2, <1>3, <1>4 DEF Complete

-----------------------------------------------------------------------------
PInv == RInv /\ WInv /\ KInv /\ OInv

LEMMA PipelineInit == Init => PInv
<1> SUFFICES ASSUME Init PROVE PInv
  OBVIOUS
<1>1. PICK s \in Scenarios : /\ source = s.source /\ manifest = s.manifest
                             /\ setting = s.setting /\ edits = s.edits
  BY DEF Init
<1>2. /\ source \in [Paths -> Contents \cup {None}] /\ OnFileSystem(source)
      /\ manifest \in M!ManifestFiles \cup {Nothing}
      /\ manifest # Nothing => manifest.by = Nothing
      /\ Settled /\ edits \in Nat
  BY <1>1, ScenariosAssumption DEF Settled
<1>3. RInv
  <2>1. AcceptsUsable
    BY AcceptsUsableIs DEF Init, R!Init, Verdict
  <2>2. /\ given = <<>> /\ entries = <<>> /\ ended = "not" /\ seen = {} /\ payloads = {}
        /\ sink = FALSE /\ extracted = [p \in Paths |-> None] /\ result = "idle"
    BY DEF Init, R!Init
  <2>3. entries \in Seq(Entries) /\ Len(entries) = 0
    BY <2>2
  <2>4. extracted \in [Paths -> Contents \cup {None}]
    BY <2>2
  <2>5. given \in Manifests \cup {<<>>} /\ Len(entries) <= MaxLength
    BY <2>2, <2>3, BoundsAssumption
  <2>6. /\ ended \in {"not", "clean", "trailing", "broken"} /\ sink \in BOOLEAN
        /\ result \in {"idle", "reading", "accepted", "refused"}
        /\ seen \subseteq Names /\ payloads \subseteq seen /\ result # "reading"
    BY <2>2
  <2> QED
    BY <2>1, <2>2, <2>3, <2>4, <2>5, <2>6 DEF RInv
<1>4. WInv
  <2>1. <<>> \in M!Scans /\ DOMAIN <<>> = {}
    <3>1. <<>> \in [{} -> Contents]
      OBVIOUS
    <3> QED
      BY <3>1, ScanIs
  <2>2. /\ place = [w \in Writers |-> "idle"] /\ found = [w \in Writers |-> {}]
        /\ at = [w \in Writers |-> Nothing] /\ scanned = [w \in Writers |-> <<>>]
    BY DEF Init, M!Init
  <2>3. WTypes
    BY <1>2, <2>1, <2>2 DEF WTypes, Places, Looks
  <2>4. \A w \in Writers : ScanOK(found[w], at[w], scanned[w]) /\ Started(w) /\ Owned(w)
    BY <2>1, <2>2 DEF ScanOK, Started, Owned, Clashing
  <2>5. Generating
    BY <1>2, NothingAssumption DEF Generating
  <2> QED
    BY <2>3, <2>4, <2>5 DEF WInv
<1>5. KInv
  <2>1. /\ declared = [c \in Creators |-> <<>>] /\ pc = [c \in Creators |-> "idle"]
        /\ todo = [c \in Creators |-> {}] /\ output = Nothing /\ touched = {}
        /\ archive = [c \in Creators |-> [entries |-> <<>>, ended |-> FALSE]]
    BY DEF Init, C!Init
  <2>2. [entries |-> <<>>, ended |-> FALSE] \in Files
    BY DEF Files
  <2>3. KTypes
    BY <2>1, <2>2 DEF KTypes, Stages
  <2>4. DOMAIN <<>> = {}
    OBVIOUS
  <2>5. \A c \in Creators : /\ StageOK(c, pc[c], declared[c], todo[c], archive[c], output)
                            /\ FromSource(Paths \ touched, pc[c], declared[c], todo[c])
    BY <2>1, <2>4 DEF StageOK, FromSource, Early
  <2>6. AtOutput /\ HandMade
    BY <2>1, <2>4 DEF AtOutput, HandMade, Clashing
  <2> QED
    BY <2>3, <2>5, <2>6 DEF KInv
<1>6. OInv
  BY <1>2 DEF OInv, Init
<1> QED
  BY <1>3, <1>4, <1>5, <1>6 DEF PInv

LEMMA PipelineStep == PInv /\ [Next]_vars => PInv'
<1> SUFFICES ASSUME PInv, [Next]_vars PROVE PInv'
  OBVIOUS
<1>i. RInv /\ WInv /\ KInv /\ OInv /\ touched \subseteq Paths /\ edits \in Nat
  BY DEF PInv, KInv, KTypes, OInv
<1>1. CASE Describe
  <2>1. /\ (\E w \in Writers : M!Step(w)) \/ M!RemoveLeftover
        /\ UNCHANGED <<ofCreate, ofReader, origin, rest>>
    BY <1>1, <1>i DEF Describe, OInv, Settled
  <2>2. UNCHANGED source
    BY <2>1 DEF M!Step, M!Lookup, M!List, M!Hash, M!EndScan, M!OpenManifest, M!Grow,
                M!CloseManifest, M!WriteFails, M!Kill, M!Stat, M!Fail, M!RemoveLeftover
  <2>3. WInv'
    BY <1>i, <2>1, WriterStep, WriterLeftover
  <2>4. manifest # Nothing /\ manifest.by = Nothing => manifest' = manifest
    BY <1>i, <2>1, HandMadeStays
  <2>5. KInv' /\ \A c \in Creators : Onward(c)
    BY <1>i, <2>1, <2>2, <2>4, CreatorsWatch DEF rest
  <2>6. RInv'
    BY <1>i, <2>1, ReaderStep
  <2>7. OInv'
    BY <1>i, <2>1, <2>5, ReaderFollows DEF rest
  <2> QED
    BY <2>3, <2>5, <2>6, <2>7 DEF PInv
<1>2. CASE EditSource
  <2>1. PICK p \in Paths, content \in Contents \cup {None} :
           M!Edit(p, content) /\ touched' = touched \cup {p}
    BY <1>2 DEF EditSource
  <2>2. edits' \in Nat /\ UNCHANGED <<ofCreate, ofReader, origin, setting>>
    BY <1>2, <1>i DEF EditSource
  <2>3. source' = [source EXCEPT ![p] = content] /\ UNCHANGED manifest
    BY <2>1 DEF M!Edit
  <2>4. WInv'
    BY <1>i, <2>1, WriterEdited
  <2>5. \A q \in Paths \ touched' : source'[q] = source[q]
    BY <1>i, <2>1, <2>3 DEF WInv, WTypes
  <2>6. KInv' /\ \A c \in Creators : Onward(c)
    BY <1>i, <2>1, <2>2, <2>3, <2>5, CreatorsWatch
  <2>7. RInv'
    BY <1>i, <2>2, ReaderStep
  <2>8. OInv'
    BY <1>i, <2>2, <2>6, ReaderFollows
  <2> QED
    BY <2>4, <2>6, <2>7, <2>8 DEF PInv
<1>3. CASE CreateBundle
  <2>1. /\ (\E c \in Creators : C!Step(c)) \/ C!RemoveLeftover
        /\ UNCHANGED <<ofManifest, ofReader, origin, rest>>
    BY <1>3, <1>i DEF CreateBundle, OInv, Settled
  <2>2. UNCHANGED <<source, manifest>>
    BY <2>1 DEF C!Step, C!ReadManifest, C!Walk, C!OpenOutput, C!CloseOutput, C!FinalInspect, C!Kill,
                C!VerifyFile, C!WriteFile, C!RemoveLeftover
  <2>3. WInv'
    BY <1>i, <2>1, <2>2, WriterRests
  <2>4. KInv' /\ \A c \in Creators : Onward(c)
    BY <1>i, <2>1, CreatorStep, OutputCleared DEF rest
  <2>5. RInv'
    BY <1>i, <2>1, ReaderStep
  <2>6. OInv'
    BY <1>i, <2>1, <2>4, ReaderFollows DEF rest
  <2> QED
    BY <2>3, <2>4, <2>5, <2>6 DEF PInv
(* The reader moves, and nothing else does. *)
<1>r. ASSUME Reads, UNCHANGED <<source, manifest, ofManifest, ofCreate, rest>>, OInv'
      PROVE  PInv'
  <2>1. RInv'
    BY <1>i, <1>r, ReaderStep
  <2>2. WInv'
    BY <1>i, <1>r, WriterRests
  <2>3. KInv'
    BY <1>i, <1>r, CreatorsWatch DEF rest
  <2> QED
    BY <1>r, <2>1, <2>2, <2>3 DEF PInv
<1>4. CASE OpenOutput
  <2>1. /\ setting.reader /\ output # Nothing /\ origin' = output /\ output \in Creators
        /\ R!Open(declared[output]) \/ (~archive[output].ended /\ R!OpenNoManifest)
        /\ UNCHANGED <<source, manifest, ofManifest, ofCreate, rest>>
    BY <1>4, <1>i DEF OpenOutput, KInv, KTypes
  <2>2. /\ pc[output] \in {"writing", "written", "done", "killed"} /\ declared[output] \in Manifests
        /\ archive[output].entries \in Seq(Entries)
    BY <1>i, <2>1 DEF KInv, KTypes, AtOutput, Files
  <2>3. Reads
    BY <2>1, <2>2 DEF Reads
  <2>4. entries = <<>> /\ ended = "not" /\ entries' = entries /\ result' # "idle"
        /\ \/ given' = declared[output] /\ ended' = "not"
           \/ ended' = "broken"
    BY <1>i, <2>1 DEF R!Open, R!OpenNoManifest, RInv
  <2>5. Prefix(entries', archive[output].entries)
    BY <2>2, <2>4 DEF Prefix
  <2>6. Follows(output)'
    BY <2>1, <2>2, <2>4, <2>5 DEF Follows, Early, rest, ofCreate
  <2>7. OInv'
    BY <1>i, <2>1, <2>6 DEF OInv, Settled, rest, ofCreate
  <2> QED
    BY <1>r, <2>1, <2>3, <2>7
<1>5. CASE ReadOutput
  <2> DEFINE file == archive[origin]
  <2>1. /\ origin # Nothing /\ origin \in Creators /\ Follows(origin)
        /\ UNCHANGED <<source, manifest, ofManifest, ofCreate, origin, rest>>
        /\ entries \in Seq(Entries) /\ file \in Files /\ file.entries \in Seq(Entries)
    BY <1>5, <1>i DEF ReadOutput, OInv, RInv, KInv, KTypes, Files
  <2>2. CASE Len(entries) < Len(file.entries) /\ R!ReadEntry(file.entries[Len(entries) + 1])
    <3> DEFINE entry == file.entries[Len(entries) + 1]
    <3>1. entry \in Entries
      BY <2>1, <2>2
    <3>2. /\ ended = "not" /\ entries' = Append(entries, entry) /\ result' # "idle"
          /\ UNCHANGED <<given, ended>>
      BY <2>2 DEF R!ReadEntry, R!Refuse
    <3>3. Prefix(entries', file.entries)
      BY <2>1, <2>2, <3>1, <3>2 DEF Follows, Prefix
    <3>4. Follows(origin)'
      BY <2>1, <3>2, <3>3 DEF Follows, rest, ofCreate
    <3>5. OInv'
      BY <1>i, <2>1, <3>4 DEF OInv, Settled, rest
    <3>6. Reads
      BY <2>2, <3>1 DEF Reads
    <3> QED
      BY <1>r, <2>1, <3>5, <3>6
  <2>3. CASE file.ended /\ Len(entries) = Len(file.entries) /\ R!ReadEnd("clean")
    <3>1. ended = "not" /\ ended' = "clean" /\ result' # "idle" /\ UNCHANGED <<given, entries>>
      BY <2>3 DEF R!ReadEnd
    <3>2. Follows(origin)'
      BY <2>1, <2>3, <3>1 DEF Follows, rest, ofCreate
    <3>3. OInv'
      BY <1>i, <2>1, <3>2 DEF OInv, Settled, rest
    <3>4. Reads
      BY <2>3 DEF Reads
    <3> QED
      BY <1>r, <2>1, <3>3, <3>4
  <2>4. CASE ~file.ended /\ R!ReadEnd("broken")
    <3>1. ended' = "broken" /\ result' # "idle"
      BY <2>4 DEF R!ReadEnd
    <3>2. Follows(origin)'
      BY <2>1, <3>1 DEF Follows, rest, ofCreate
    <3>3. OInv'
      BY <1>i, <2>1, <3>2 DEF OInv, Settled, rest
    <3>4. Reads
      BY <2>4 DEF Reads
    <3> QED
      BY <1>r, <2>1, <3>3, <3>4
  <2> QED
    BY <1>5, <2>2, <2>3, <2>4 DEF ReadOutput
<1>6. CASE ReadForeign
  <2>1. /\ setting.foreign # {} /\ UNCHANGED <<source, manifest, ofManifest, ofCreate, origin, rest>>
    BY <1>6 DEF ReadForeign
  <2>2. origin = Nothing
    BY <1>i, <2>1 DEF OInv, Settled, Follows
  <2>3. OInv'
    BY <1>i, <2>1, <2>2 DEF OInv, Settled, rest
  <2>4. Reads
    BY <1>6, <1>i DEF ReadForeign, Reads, OInv, Settled
  <2> QED
    BY <1>r, <2>1, <2>3, <2>4
<1>7. CASE UNCHANGED vars
  <2>1. /\ UNCHANGED <<source, manifest, ofManifest, ofCreate, ofReader, origin, rest>>
        /\ UNCHANGED <<touched, setting, edits>>
    BY <1>7 DEF vars, rest
  <2>2. RInv' /\ WInv'
    BY <1>i, <2>1, ReaderStep, WriterRests
  <2>3. KInv' /\ \A c \in Creators : Onward(c)
    BY <1>i, <2>1, CreatorsWatch
  <2>4. OInv'
    BY <1>i, <2>1, <2>3, ReaderFollows
  <2> QED
    BY <2>2, <2>3, <2>4 DEF PInv
<1> QED
  BY <1>1, <1>2, <1>3, <1>4, <1>5, <1>6, <1>7 DEF Next

THEOREM PipelineInvariant == Spec => []PInv
<1> QED
  BY PipelineInit, PipelineStep, PTL DEF Spec

(* Type correctness of the three components at work together.                *)
THEOREM PipelineTypes == Spec => []PipelineTypeOK
<1>1. PInv => PipelineTypeOK
  <2> SUFFICES ASSUME PInv PROVE PipelineTypeOK
    OBVIOUS
  <2>1. R!TypeOK
    BY SameFormat DEF PInv, RInv, R!TypeOK
  <2> QED
    BY <2>1, WriterTypes, CreatorTypes DEF PInv, KInv, KTypes, OInv, PipelineTypeOK
<1> QED
  BY <1>1, PipelineInvariant, PTL

(* readArchive accepts exactly the usable bundles.                            *)
THEOREM OnlyUsableAccepted == Spec => []AcceptsUsable
<1>1. PInv => AcceptsUsable
  BY DEF PInv, RInv
<1> QED
  BY <1>1, PipelineInvariant, PTL

(* Neither command leaves a file behind when it reports an error.             *)
THEOREM NothingLeftBehind == Spec => []FailureLeavesNothing
<1>1. PInv => FailureLeavesNothing
  BY DEF PInv, KInv, AtOutput, WInv, Generating, FailureLeavesNothing
<1> QED
  BY <1>1, PipelineInvariant, PTL

(* Untouched payloads of the source are in every bundle that was reported.    *)
THEOREM BundlesHaveTheSource == Spec => []NothingLeftOut
<1>1. PInv => NothingLeftOut
  BY DEF PInv, KInv, FromSource, NothingLeftOut, Done
<1> QED
  BY <1>1, PipelineInvariant, PTL

(* A reported bundle is usable, stays so, and is extracted unless its         *)
(* manifest was written by hand and declares a path below another one.        *)
THEOREM ReportedIsUsable == Spec => []CreatedIsUsable
<1>1. PInv => CreatedIsUsable
  <2> SUFFICES ASSUME PInv PROVE CreatedIsUsable
    OBVIOUS
  <2>1. \A c \in Done : /\ c \in Creators /\ output = c /\ archive[c].ended
                        /\ Sound(declared[c], archive[c].entries)
                        /\ Complete(declared[c], archive[c].entries)
    BY DEF PInv, KInv, StageOK, Done
  <2>2. Done # {} =>
          /\ output # Nothing /\ archive[output].ended
          /\ Sound(declared[output], archive[output].entries)
          /\ Complete(declared[output], archive[output].entries)
    BY <2>1, NothingAssumption
  <2>3. ASSUME origin \in Done, result = "refused", ended # "broken"
        PROVE  sink /\ manifest # Nothing /\ manifest.by = Nothing
    <3>1. /\ origin \in Creators /\ origin # Nothing
      BY <2>1, <2>3, NothingAssumption
    <3>2. /\ ended \in {"not", "clean"} /\ given = declared[origin]
          /\ Prefix(entries, archive[origin].entries)
          /\ ended = "clean" => Len(entries) = Len(archive[origin].entries)
          /\ entries \in Seq(Entries) /\ archive[origin].entries \in Seq(Entries)
      BY <2>3, <3>1 DEF PInv, OInv, Follows, RInv, KInv, KTypes, Files
    <3>3. /\ Sound(given, entries)
          /\ ended = "clean" => Complete(given, entries)
      BY <2>1, <2>3, <3>2, PartIsSound
    <3>4. Len(entries) <= MaxEntries
      BY <3>2, <3>3, SoundIsShort
    <3>5. sink /\ Clashing({entries[i].name : i \in Payloads(entries)})
      <4>1. Verdict(given, entries, ended, sink, extracted, result)
        BY AcceptsUsableIs DEF PInv, RInv
      <4>2. ~(Len(entries) > MaxEntries)
        BY <3>2, <3>4, BoundsAssumption
      <4> QED
        BY <2>3, <3>2, <3>3, <4>1, <4>2 DEF Verdict
    <3>6. Clashing(DOMAIN declared[origin])
      BY <3>2, <3>3, <3>5 DEF Sound, Clashing
    <3> QED
      BY <3>1, <3>5, <3>6 DEF PInv, KInv, HandMade
  <2> QED
    BY <2>2, <2>3 DEF CreatedIsUsable
<1> QED
  BY <1>1, PipelineInvariant, PTL
=============================================================================
