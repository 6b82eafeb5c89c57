---------------------------- MODULE StagingProofs ---------------------------
(***************************************************************************)
(* Theorems about staging a bundle over SSH, for every set of payloads, of *)
(* any size, and every number of attempts, broken connections and damaged  *)
(* chunks.                                                                 *)
(***************************************************************************)
EXTENDS Staging, FiniteSetTheorems, TLAPS

(* A shell on its way, from its session's start to its trap. *)
Active(a) == shell[a].step \in {"start", "cat", "chmod", "mv", "trap"}

(* An inode, under whatever name, holds the payload it was made for, and a   *)
(* shell has the inode of its own payload open.                              *)
OwnInodes ==
    /\ \A f \in Files : /\ partial[f] # None => partial[f][2] = f
                        /\ dest[f] # None => dest[f][2] = f
    /\ \A a \in Attempts : /\ Active(a) => shell[a].file \in Files
                           /\ shell[a].step = "start" => shell[a].sent = 0
                           /\ shell[a].step = "cat" => /\ shell[a].inode \in Inodes
                                                       /\ shell[a].inode[2] = shell[a].file

(* The shell of the present attempt works on the payload being uploaded, and *)
(* has ended by removing the partial file's name, which only comes back with *)
(* a shell that opens it too late.                                           *)
Uploading ==
    /\ pc = "upload" =>
          /\ shell[attempt].step # "none"
          /\ Active(attempt) => shell[attempt].file = at
          /\ shell[attempt].step = "ok" => partial[at] = None \/ at \in touched
    /\ pc = "verify" => partial[at] = None \/ at \in touched

(* A payload verified in this attempt stays as it is: it has no partial file *)
(* which a shell left behind could still move over it.                       *)
VerifiedStays ==
    /\ pc # "idle" => \A f \in Files \ (todo \cup touched) : Intact(f) /\ partial[f] = None
    /\ pc = "staged" => todo = {}

IInv == TypeOK /\ OwnInodes /\ Uploading /\ VerifiedStays

LEMMA EmptyIsContents == Empty \in Contents
  BY DEF Empty, Contents

(* A record of a shell with some fields changed is one again. *)
LEMMA ShellTypes ==
    /\ NoShell \in Shells
    /\ \A s \in Shells : /\ s.step \in ShellSteps /\ s.status \in {"ok", "failed"}
                         /\ s.file \in Files \cup {None}
                         /\ s.inode \in Inodes \cup {None} /\ s.sent \in 0..Size
    /\ \A f \in Files : [NoShell EXCEPT !.step = "start", !.file = f] \in Shells
<1>1. 0 \in 0..Size
  BY BoundsAssumption
<1>2. NoShell \in Shells
  BY <1>1 DEF NoShell, Shells, ShellSteps
<1>3. ASSUME NEW f \in Files
      PROVE  [NoShell EXCEPT !.step = "start", !.file = f] \in Shells
  BY <1>2 DEF Shells, ShellSteps
<1>4. \A s \in Shells : /\ s.step \in ShellSteps /\ s.status \in {"ok", "failed"}
                        /\ s.file \in Files \cup {None}
                        /\ s.inode \in Inodes \cup {None} /\ s.sent \in 0..Size
  BY DEF Shells
<1> QED
  BY <1>2, <1>3, <1>4

(* Every action keeps the variables in their types. *)
LEMMA TypeInductive == TypeOK /\ OwnInodes /\ [Next]_vars => TypeOK'
<1> SUFFICES ASSUME TypeOK, OwnInodes, [Next]_vars PROVE TypeOK'
  OBVIOUS
<1> USE BoundsAssumption DEF TypeOK, Attempts, Disk, Process
<1>1. CASE BeginPush
  <2>1. content' \in [Inodes -> Contents]
    BY <1>1, EmptyIsContents DEF BeginPush
  <2> QED
    BY <1>1, <2>1 DEF BeginPush
<1>2. ASSUME NEW f \in Files, StartUpload(f) PROVE TypeOK'
  <2>1. shell' \in [Attempts -> Shells]
    BY <1>2, ShellTypes DEF StartUpload
  <2> QED
    BY <1>2, <2>1 DEF StartUpload
<1>3. CASE UploadReturns
  <2>1. shell' \in [Attempts -> Shells]
    BY <1>3, ShellTypes DEF UploadReturns
  <2> QED
    BY <1>3, <2>1 DEF UploadReturns
<1>4. CASE UploadFails
  <2>1. shell' \in [Attempts -> Shells]
    BY <1>4, ShellTypes DEF UploadFails
  <2> QED
    BY <1>4, <2>1 DEF UploadFails, Quit
<1>5. CASE VerifySHA256
  BY <1>5 DEF VerifySHA256, Quit
<1>6. CASE Break
  <2>1. shell' \in [Attempts -> Shells]
    BY <1>6, ShellTypes DEF Break
  <2> QED
    BY <1>6, <2>1 DEF Break, Quit
<1>7. ASSUME NEW a \in Attempts, CatWrites(a) PROVE TypeOK'
  <2>1. shell[a] \in Shells /\ shell[a].inode \in Inodes /\ shell[a].sent \in 0..Size
    BY <1>7, ShellTypes DEF CatWrites, OwnInodes
  <2>2. shell' \in [Attempts -> Shells]
    <3>1. shell[a].sent + 1 \in 0..Size
      BY <1>7, <2>1 DEF CatWrites
    <3> QED
      BY <1>7, <2>1, <3>1 DEF CatWrites, Shells
  <2>3. content' \in [Inodes -> Contents]
    <3>1. shell[a].sent + 1 \in 1..Size
      BY <1>7, <2>1 DEF CatWrites
    <3>2. PICK chunk \in {"good", "damaged"} :
            content' = [content EXCEPT ![shell[a].inode][shell[a].sent + 1] = chunk]
      BY <1>7 DEF CatWrites
    <3>3. [content[shell[a].inode] EXCEPT ![shell[a].sent + 1] = chunk] \in Contents
      BY <2>1, <3>1 DEF Contents
    <3> QED
      BY <2>1, <3>2, <3>3
  <2>4. touched' \subseteq Files /\ damages' \in 0..MaxFaults
    BY <1>7 DEF CatWrites, InPlace
  <2> QED
    BY <1>7, <2>2, <2>3, <2>4 DEF CatWrites
<1>8. ASSUME NEW a \in Attempts, Shell(a) PROVE TypeOK'
  <2>1. shell[a] \in Shells /\ shell[a].file \in Files /\ shell[a].status \in {"ok", "failed"}
    BY <1>8, ShellTypes DEF Shell
  <2>2. CASE OpenPartial(a)
    <3>1. PICK inode \in Inodes : Opens(a, inode)
      BY <2>1, <2>2 DEF OpenPartial, Inodes
    <3>2. shell' \in [Attempts -> Shells]
      BY <2>1, <3>1 DEF Opens, Shells, ShellSteps
    <3>3. content' \in [Inodes -> Contents]
      BY <3>1, EmptyIsContents DEF Opens
    <3> QED
      BY <2>1, <3>1, <3>2, <3>3 DEF Opens
  <2>3. CASE CatEnds(a)
    <3>0. 0 \in 0..Size /\ "chmod" \in ShellSteps
      BY DEF ShellSteps
    <3>1. shell' \in [Attempts -> Shells]
      BY <2>1, <2>3, <3>0 DEF CatEnds, Shells
    <3> QED
      BY <2>3, <3>1 DEF CatEnds
  <2>4. CASE Chmod(a) \/ Mv(a)
    <3>0. \/ \E step \in {"mv", "trap"} : shell' = [shell EXCEPT ![a].step = step]
          \/ shell' = [shell EXCEPT ![a].step = "trap", ![a].status = "failed"]
      BY <2>4 DEF Chmod, Mv, Fails, ShellGoes
    <3>a. "mv" \in ShellSteps /\ "trap" \in ShellSteps /\ "failed" \in {"ok", "failed"}
      BY DEF ShellSteps
    <3>b. ASSUME NEW step \in ShellSteps, shell' = [shell EXCEPT ![a].step = step]
          PROVE  shell' \in [Attempts -> Shells]
      BY <2>1, <3>b DEF Shells
    <3>c. ASSUME shell' = [shell EXCEPT ![a].step = "trap", ![a].status = "failed"]
          PROVE  shell' \in [Attempts -> Shells]
      BY <2>1, <3>a, <3>c DEF Shells
    <3>1. shell' \in [Attempts -> Shells]
      BY <3>0, <3>a, <3>b, <3>c
    <3>2. partial' \in [Files -> Inodes \cup {None}] /\ dest' \in [Files -> Inodes \cup {None}]
      BY <2>1, <2>4 DEF Chmod, Mv, Fails, ShellGoes
    <3> QED
      BY <2>4, <3>1, <3>2 DEF Chmod, Mv, Fails, ShellGoes
  <2>5. CASE Trap(a)
    <3>1. [NoShell EXCEPT !.step = shell[a].status] \in Shells
      BY <2>1 DEF NoShell, Shells, ShellSteps
    <3>2. shell' \in [Attempts -> Shells]
      BY <2>5, <3>1, ShellTypes DEF Trap
    <3> QED
      BY <2>1, <2>5, <3>2 DEF Trap
  <2> QED
    BY <1>8, <2>2, <2>3, <2>4, <2>5 DEF Shell
<1>9. CASE UNCHANGED vars
  BY <1>9 DEF vars
<1> QED
  BY <1>1, <1>2, <1>3, <1>4, <1>5, <1>6, <1>7, <1>8, <1>9 DEF Next, Advance, Upload

(* Opening a partial file makes an inode for the payload of the shell, or     *)
(* takes the one that is there.                                              *)
LEMMA OpensOwn ==
    ASSUME TypeOK, OwnInodes, NEW a \in Attempts, shell[a].file \in Files, OpenPartial(a)
    PROVE  \E inode \in Inodes : inode[2] = shell[a].file /\ Opens(a, inode)
<1> DEFINE f == shell[a].file
<1>1. CASE partial[f] = None
  BY <1>1 DEF OpenPartial, Inodes
<1>2. CASE partial[f] # None
  <2>1. partial[f] \in Inodes /\ partial[f][2] = f
    BY <1>2 DEF TypeOK, OwnInodes
  <2> QED
    BY <1>2, <2>1 DEF OpenPartial
<1> QED
  BY <1>1, <1>2

(* What a remote shell does after its cat: it moves the partial file of its   *)
(* own payload over the destination, or removes its name, or neither.        *)
LEMMA ShellEffect ==
    ASSUME TypeOK, NEW a \in Attempts, Shell(a), ~OpenPartial(a)
    PROVE  LET f == shell[a].file IN
           /\ f \in Files /\ shell[a].step \in {"cat", "chmod", "mv", "trap"}
           /\ UNCHANGED <<Process, damages, content, touched>>
           /\ \A b \in Attempts : b # a => shell'[b] = shell[b]
           /\ \/ shell'[a].step \in {"chmod", "mv", "trap"} /\ shell'[a].file = f
              \/ /\ shell'[a].step = "none" /\ ~Connected(a)
                 /\ shell[a].step = "trap" /\ partial'[f] = None
              \/ /\ shell'[a].step \in {"ok", "failed"} /\ Connected(a)
                 /\ shell[a].step = "trap" /\ partial'[f] = None
           /\ \/ UNCHANGED <<partial, dest>>
              \/ partial' = [partial EXCEPT ![f] = None] /\ UNCHANGED dest
              \/ /\ partial[f] # None /\ partial' = [partial EXCEPT ![f] = None]
                 /\ dest' = [dest EXCEPT ![f] = partial[f]]
<1> USE DEF Disk, Process
<1>1. /\ shell[a] \in Shells /\ shell \in [Attempts -> Shells] /\ shell[a].file \in Files
      /\ partial \in [Files -> Inodes \cup {None}] /\ shell[a].status \in {"ok", "failed"}
  BY ShellTypes DEF TypeOK, Shell
<1>2. CASE CatEnds(a)
  BY <1>1, <1>2 DEF CatEnds, Shells
<1>3. CASE Chmod(a)
  BY <1>1, <1>3 DEF Chmod, Fails, ShellGoes, Shells
<1>4. CASE Mv(a)
  BY <1>1, <1>4 DEF Mv, Fails, ShellGoes, Shells
<1>5. CASE Trap(a)
  <2>1. CASE Connected(a)
    <3>1. shell'[a].step \in {"ok", "failed"}
      BY <1>1, <1>5, <2>1 DEF Trap, NoShell
    <3> QED
      BY <1>1, <1>5, <2>1, <3>1 DEF Trap
  <2>2. CASE ~Connected(a)
    <3>1. shell'[a].step = "none"
      BY <1>1, <1>5, <2>2 DEF Trap, NoShell
    <3> QED
      BY <1>1, <1>5, <2>2, <3>1 DEF Trap
  <2> QED
    BY <2>1, <2>2
<1> QED
  BY <1>2, <1>3, <1>4, <1>5 DEF Shell

LEMMA Inductive == IInv /\ [Next]_vars => IInv'
<1> SUFFICES ASSUME IInv, [Next]_vars PROVE IInv'
  OBVIOUS
<1>t. TypeOK /\ TypeOK' /\ OwnInodes /\ Uploading /\ VerifiedStays
  BY TypeInductive DEF IInv
<1>p. /\ partial \in [Files -> Inodes \cup {None}] /\ dest \in [Files -> Inodes \cup {None}]
      /\ content \in [Inodes -> Contents] /\ shell \in [Attempts -> Shells] /\ attempt \in Attempts
      /\ todo \subseteq Files /\ None \notin Inodes
      /\ pc \in {"upload", "verify"} => at \in todo
  BY <1>t, MarksAssumption DEF TypeOK, Inodes, Attempts
<1> USE DEF Disk, Process
(* The process gives up: only what is so at any time remains. *)
<1>q. ASSUME pc' = "idle", UNCHANGED Disk, \/ UNCHANGED shell
                                           \/ shell' = [a \in Attempts |-> NoShell]
                                           \/ shell' = [shell EXCEPT ![attempt] = NoShell]
      PROVE  IInv'
  <2>1. \A a \in Attempts : shell'[a] = shell[a] \/ shell'[a] = NoShell
    BY <1>q, <1>p
  <2>2. OwnInodes'
    BY <1>q, <1>t, <2>1 DEF OwnInodes, NoShell, Active
  <2> QED
    BY <1>q, <1>t, <2>2 DEF IInv, Uploading, VerifiedStays
<1>1. CASE BeginPush
  BY <1>1, <1>t DEF BeginPush, IInv, OwnInodes, Active, Uploading, VerifiedStays
<1>2. ASSUME NEW f \in Files, StartUpload(f) PROVE IInv'
  <2>1. /\ shell'[attempt].step = "start" /\ shell'[attempt].file = f
        /\ shell'[attempt].sent = 0 /\ \A a \in Attempts : a # attempt => shell'[a] = shell[a]
        /\ UNCHANGED <<Disk, attempt, todo, touched>> /\ pc = "next" /\ pc' = "upload" /\ at' = f
    BY <1>2, <1>p DEF StartUpload, NoShell
  <2>2. OwnInodes'
    BY <1>t, <2>1 DEF OwnInodes, Active
  <2>3. Uploading'
    BY <2>1 DEF Uploading
  <2> QED
    BY <1>t, <2>1, <2>2, <2>3 DEF IInv, VerifiedStays, Intact
<1>3. CASE UploadReturns
  <2>1. /\ shell'[attempt] = NoShell /\ \A a \in Attempts : a # attempt => shell'[a] = shell[a]
        /\ UNCHANGED <<Disk, attempt, todo, at, touched>> /\ pc = "upload" /\ pc' = "verify"
        /\ shell[attempt].step = "ok"
    BY <1>3, <1>p DEF UploadReturns
  <2>2. OwnInodes'
    BY <1>t, <2>1 DEF OwnInodes, Active, NoShell
  <2>3. Uploading'
    BY <1>t, <2>1 DEF Uploading
  <2> QED
    BY <1>t, <2>1, <2>2, <2>3 DEF IInv, VerifiedStays, Intact
<1>4. CASE UploadFails \/ Break
  BY <1>4, <1>q DEF UploadFails, Break, Quit
<1>5. CASE VerifySHA256
  <2>1. CASE Intact(at)
    <3>1. /\ pc = "verify" /\ UNCHANGED <<Disk, shell, attempt, touched>>
          /\ todo' = todo \ {at} /\ pc' = (IF todo = {at} THEN "staged" ELSE "next")
      BY <1>5, <2>1 DEF VerifySHA256, Verified
    <3>2. VerifiedStays'
      BY <1>p, <1>t, <2>1, <3>1 DEF VerifiedStays, Uploading, Intact
    <3> QED
      BY <1>t, <3>1, <3>2 DEF IInv, OwnInodes, Active, Uploading
  <2>2. CASE ~Intact(at)
    BY <1>5, <1>q, <2>2 DEF VerifySHA256, Verified, Quit
  <2> QED
    BY <2>1, <2>2
<1>6. ASSUME NEW a \in Attempts, CatWrites(a) PROVE IInv'
  <2> DEFINE f == shell[a].file
             k == shell[a].sent + 1
  <2>1. /\ shell[a].step = "cat" /\ UNCHANGED <<partial, dest, Process>>
        /\ shell' = [shell EXCEPT ![a].sent = k]
    BY <1>6 DEF CatWrites
  <2>2. /\ \A b \in Attempts : b # a => shell'[b] = shell[b]
        /\ shell'[a].step = "cat" /\ shell'[a].file = f /\ shell'[a].inode = shell[a].inode
    BY <1>p, <2>1 DEF Shells
  <2>3. f \in Files /\ shell[a].inode \in Inodes /\ shell[a].inode[2] = f
    BY <1>t, <2>1 DEF OwnInodes, Active
  <2>4. PICK chunk \in {"good", "damaged"} :
          /\ content' = [content EXCEPT ![shell[a].inode][k] = chunk]
          /\ chunk = "good" => touched' = touched
          /\ chunk = "damaged" => touched' = touched \cup ({f} \cap InPlace)
    BY <1>6 DEF CatWrites
  <2> HIDE DEF f, k
  <2>5. OwnInodes'
    BY <1>t, <2>1, <2>2, <2>3 DEF OwnInodes, Active
  <2>6. touched \subseteq touched'
    BY <2>4
  <2>7. Uploading'
    BY <1>p, <1>t, <2>1, <2>2, <2>6 DEF Uploading, Active
  <2>8. ASSUME NEW g \in Files \ (todo \cup touched'), pc # "idle"
        PROVE  Intact(g)' /\ partial'[g] = None
    <3>1. Intact(g) /\ partial[g] = None /\ dest[g] \in Inodes /\ dest[g][2] = g
      BY <1>p, <1>t, <2>6, <2>8 DEF VerifiedStays, Intact, OwnInodes
    <3>2. CASE chunk = "good"
      <4>1. \A j \in 1..Size : content'[dest[g]][j] = "good"
        BY <1>p, <2>4, <3>1, <3>2 DEF Intact, Contents
      <4> QED
        BY <2>1, <3>1, <4>1 DEF Intact
    <3>3. CASE chunk = "damaged"
      <4>1. g # f
        BY <2>4, <2>8, <3>3 DEF InPlace
      <4>2. content'[dest[g]] = content[dest[g]]
        BY <1>p, <2>3, <2>4, <3>1, <4>1
      <4> QED
        BY <2>1, <3>1, <4>2 DEF Intact
    <3> QED
      BY <3>2, <3>3
  <2> QED
    BY <1>t, <2>1, <2>5, <2>7, <2>8 DEF IInv, VerifiedStays
<1>7. ASSUME NEW a \in Attempts, shell[a].file \in Files, OpenPartial(a) PROVE IInv'
  <2> DEFINE f == shell[a].file
  <2>1. PICK inode \in Inodes : inode[2] = f /\ Opens(a, inode)
    BY <1>7, <1>t, OpensOwn
  <2>2. /\ shell[a].step = "start" /\ partial' = [partial EXCEPT ![f] = inode]
        /\ shell' = [shell EXCEPT ![a].step = "cat", ![a].inode = inode]
        /\ content' = [content EXCEPT ![inode] = Empty]
        /\ touched' = touched \cup ({f} \cap InPlace) /\ UNCHANGED <<dest, Process>>
    BY <2>1 DEF Opens
  <2>3. /\ \A b \in Attempts : b # a => shell'[b] = shell[b]
        /\ shell'[a].step = "cat" /\ shell'[a].file = f /\ shell'[a].inode = inode
    BY <1>p, <2>2 DEF Shells
  <2> HIDE DEF f
  <2>f. f = shell[a].file /\ f \in Files
    BY <1>7 DEF f
  <2>4. OwnInodes'
    BY <1>p, <1>t, <2>1, <2>2, <2>3, <2>f DEF OwnInodes, Active
  <2>5. Uploading'
    <3>1. CASE pc = "upload"
      <4>1. CASE attempt = a
        BY <1>t, <2>2, <2>3, <2>f, <3>1, <4>1 DEF Uploading, Active
      <4>2. CASE attempt # a
        <5>1. shell'[attempt] = shell[attempt]
          BY <1>p, <2>3, <4>2
        <5>2. shell[attempt].step = "ok" => partial'[at] = None \/ at \in touched'
          <6>1. CASE f = at
            BY <1>p, <2>2, <3>1, <6>1 DEF InPlace
          <6>2. CASE f # at
            BY <1>p, <1>t, <2>2, <3>1, <6>2 DEF Uploading
          <6> QED
            BY <6>1, <6>2
        <5> QED
          BY <1>t, <2>2, <3>1, <5>1, <5>2 DEF Uploading, Active
      <4> QED
        BY <4>1, <4>2
    <3>2. CASE pc = "verify"
      <4>1. CASE f = at
        BY <1>p, <2>2, <3>2, <4>1 DEF InPlace, Uploading
      <4>2. CASE f # at
        BY <1>p, <1>t, <2>2, <3>2, <4>2 DEF Uploading
      <4> QED
        BY <4>1, <4>2
    <3> QED
      BY <2>2, <3>1, <3>2 DEF Uploading
  <2>6. ASSUME NEW g \in Files \ (todo \cup touched'), pc # "idle"
        PROVE  Intact(g)' /\ partial'[g] = None
    <3>1. Intact(g) /\ partial[g] = None /\ dest[g] \in Inodes /\ dest[g][2] = g /\ g # f
      BY <1>p, <1>t, <2>2, <2>6 DEF VerifiedStays, Intact, OwnInodes, InPlace
    <3>2. content'[dest[g]] = content[dest[g]]
      BY <1>p, <2>1, <2>2, <3>1
    <3> QED
      BY <1>p, <2>2, <3>1, <3>2 DEF Intact
  <2> QED
    BY <1>t, <2>2, <2>4, <2>5, <2>6 DEF IInv, VerifiedStays
<1>8. ASSUME NEW a \in Attempts, Shell(a), ~OpenPartial(a) PROVE IInv'
  <2> DEFINE f == shell[a].file
  <2>1. /\ f \in Files /\ UNCHANGED <<Process, damages, content, touched>>
        /\ Active(a) /\ \A b \in Attempts : b # a => shell'[b] = shell[b]
        /\ \/ UNCHANGED <<partial, dest>>
           \/ partial' = [partial EXCEPT ![f] = None] /\ UNCHANGED dest
           \/ /\ partial[f] # None /\ partial' = [partial EXCEPT ![f] = None]
              /\ dest' = [dest EXCEPT ![f] = partial[f]]
    BY <1>8, <1>t, ShellEffect DEF Active
  <2>2. \/ shell'[a].step \in {"chmod", "mv", "trap"} /\ shell'[a].file = f
        \/ shell'[a].step = "none" /\ ~Connected(a)
        \/ shell'[a].step \in {"ok", "failed"} /\ partial'[f] = None
    BY <1>8, <1>t, ShellEffect
  <2> HIDE DEF f
  <2>f. f = shell[a].file
    BY DEF f
  <2>3. OwnInodes'
    <3>1. \A b \in Attempts : /\ Active(b)' => shell'[b].file \in Files
                              /\ shell'[b].step = "start" => shell'[b].sent = 0
                              /\ shell'[b].step = "cat" => /\ shell'[b].inode \in Inodes
                                                           /\ shell'[b].inode[2] = shell'[b].file
      <4> TAKE b \in Attempts
      <4>1. CASE b = a
        BY <2>1, <2>2, <4>1 DEF Active
      <4>2. CASE b # a
        BY <1>t, <2>1, <4>2 DEF OwnInodes, Active
      <4> QED
        BY <4>1, <4>2
    <3>2. \A g \in Files : /\ partial'[g] # None => partial'[g][2] = g
                           /\ dest'[g] # None => dest'[g][2] = g
      BY <1>p, <1>t, <2>1 DEF OwnInodes
    <3> QED
      BY <3>1, <3>2 DEF OwnInodes
  <2>4. \A g \in Files : partial[g] = None => partial'[g] = None
    BY <1>p, <2>1
  <2>5. Uploading'
    <3>1. CASE attempt = a
      BY <1>p, <1>t, <2>1, <2>2, <2>4, <2>f, <3>1 DEF Uploading, Active, Connected
    <3>2. CASE attempt # a
      <4>1. shell'[attempt] = shell[attempt]
        BY <1>p, <2>1, <3>2
      <4> QED
        BY <1>p, <1>t, <2>1, <2>4, <4>1 DEF Uploading, Active
    <3> QED
      BY <3>1, <3>2
  <2>6. VerifiedStays'
    <3>1. \A g \in Files \ (todo \cup touched) :
             Intact(g) /\ partial[g] = None => Intact(g)' /\ partial'[g] = None
      BY <1>p, <2>1 DEF Intact
    <3> QED
      BY <1>t, <2>1, <3>1 DEF VerifiedStays
  <2> QED
    BY <1>t, <2>3, <2>5, <2>6 DEF IInv
<1>9. CASE UNCHANGED vars
  BY <1>9, <1>t DEF vars, IInv, OwnInodes, Active, Uploading, VerifiedStays, Intact
<1> QED
  <2>1. ASSUME NEW a \in Attempts, Shell(a) PROVE IInv'
    <3>1. shell[a].file \in Files
      BY <2>1, <1>p, ShellTypes DEF Shell
    <3> QED
      BY <2>1, <1>7, <1>8, <3>1
  <2> QED
    BY <1>1, <1>2, <1>3, <1>4, <1>5, <1>6, <2>1, <1>9 DEF Next, Advance, Upload

LEMMA Invariance == Spec => []IInv
<1>1. ASSUME Init PROVE IInv
  <2>a. 0 \in Attempts /\ 0 \in 0..MaxFaults
    BY BoundsAssumption DEF Attempts
  <2>b. content \in [Inodes -> Contents]
    BY <1>1, EmptyIsContents DEF Init
  <2>c. shell \in [Attempts -> Shells]
    BY <1>1, ShellTypes DEF Init
  <2>1. TypeOK
    BY <1>1, <2>a, <2>b, <2>c DEF Init, TypeOK
  <2> QED
    BY <1>1, <2>1 DEF Init, IInv, OwnInodes, Active, Uploading, VerifiedStays, NoShell
<1> QED
  BY <1>1, Inductive, PTL DEF Spec

(* The variables of a push over SSH keep their types, whatever shells were   *)
(* left behind.                                                              *)
THEOREM TypeCorrect == Spec => []TypeOK
<1>1. IInv => TypeOK
  BY DEF IInv
<1> QED
  BY <1>1, Invariance, PTL

(* A push that reported success has staged every payload whole and           *)
(* undamaged, and no shell of an earlier attempt changes that, but for one   *)
(* that opens the partial file, or writes a damaged chunk, when the upload   *)
(* of that payload is over.                                                  *)
THEOREM StagedIntact == Spec => []StagedMeansIntact
<1>1. IInv => StagedMeansIntact
  BY DEF IInv, VerifiedStays, StagedMeansIntact
<1> QED
  BY <1>1, Invariance, PTL

-----------------------------------------------------------------------------
(* How often a push can fail.                                                *)

(* The upload goes as it should: what its shell has written so far is there, *)
(* under the name it goes by.                                                *)
Undisturbed ==
    /\ pc = "upload" =>
          LET s == shell[attempt] IN
          /\ s.status = "ok" /\ s.step # "failed"
          /\ s.step = "cat" => /\ partial[at] = s.inode
                               /\ \A k \in 1..s.sent : content[s.inode][k] = "good"
          /\ s.step \in {"chmod", "mv"} =>
                /\ partial[at] # None
                /\ \A k \in 1..Size : content[partial[at]][k] = "good"
          /\ s.step \in {"trap", "ok"} => Intact(at)
    /\ pc = "verify" => Intact(at)

Deeds == {"open", "mv", "trap"}

(* What the shells left behind can still do to an upload: empty its partial  *)
(* file, move it and remove it.                                              *)
Pending ==
    {p \in Attempts \X Deeds :
        /\ p[1] < attempt
        /\ \/ shell[p[1]].step = "start"
           \/ shell[p[1]].step \in {"cat", "chmod", "mv"} /\ p[2] # "open"
           \/ shell[p[1]].step = "trap" /\ p[2] = "trap"}

(* A shell left behind belongs to an attempt that lost its connection. *)
OwnShell ==
    /\ \A a \in Attempts : a > attempt => shell[a].step = "none"
    /\ pc # "upload" => shell[attempt].step = "none"

(* Each attempt that failed had its reason, which only fails one attempt:    *)
(* its connection was lost, a shell that an earlier loss had left behind     *)
(* opened the file, ran its mv or its trap, or a chunk was damaged.          *)
Accounted ==
    attempt + Cardinality(Pending) + (IF Undisturbed THEN 0 ELSE 1) <= 4 * breaks + damages

(* A push that is repeated fails at most four times for each lost connection *)
(* and once for each damaged chunk.                                          *)
FewFailures == attempt <= 4 * breaks + damages

LEMMA PendingCount ==
    ASSUME NEW S, NEW T, IsFiniteSet(T), S \subseteq T
    PROVE  /\ Cardinality(S) \in Nat /\ Cardinality(S) <= Cardinality(T)
           /\ \A p \in T \ S : Cardinality(S) < Cardinality(T)
<1>1. Cardinality(S) \in Nat /\ Cardinality(T) \in Nat /\ Cardinality(S) <= Cardinality(T)
  BY FS_Subset, FS_CardinalityType
<1>2. Cardinality(S) = Cardinality(T) => S = T
  BY FS_Subset
<1> QED
  BY <1>1, <1>2

LEMMA PendingFinite == IsFiniteSet(Pending) /\ Cardinality(Pending) \in Nat
<1>1. IsFiniteSet(Attempts)
  BY BoundsAssumption, FS_Interval DEF Attempts
<1>2. IsFiniteSet(Deeds)
  <2>1. IsFiniteSet({"mv"}) /\ Deeds = ({"mv"} \cup {"trap"}) \cup {"open"}
    BY FS_Singleton DEF Deeds
  <2>2. IsFiniteSet({"mv"} \cup {"trap"})
    BY <2>1, FS_AddElement
  <2> QED
    BY <2>1, <2>2, FS_AddElement
<1>3. IsFiniteSet(Attempts \X Deeds)
  BY <1>1, <1>2, FS_Product
<1>4. Pending \subseteq Attempts \X Deeds
  BY DEF Pending
<1> QED
  BY <1>3, <1>4, FS_Subset, FS_CardinalityType

LEMMA OwnShellStep == IInv /\ OwnShell /\ [Next]_vars => OwnShell'
<1> SUFFICES ASSUME IInv, OwnShell, [Next]_vars PROVE OwnShell'
  OBVIOUS
<1>p. /\ shell \in [Attempts -> Shells] /\ attempt \in Attempts /\ Attempts = 0..MaxAttempts
      /\ MaxAttempts \in Nat /\ TypeOK /\ OwnInodes
  BY BoundsAssumption DEF IInv, TypeOK, Attempts
<1> USE DEF OwnShell, Process
<1>1. CASE BeginPush \/ UNCHANGED vars
  BY <1>1 DEF BeginPush, vars
<1>2. ASSUME NEW f \in Files, StartUpload(f) PROVE OwnShell'
  BY <1>2, <1>p DEF StartUpload
<1>3. CASE UploadReturns
  BY <1>3, <1>p DEF UploadReturns, NoShell
<1>4. CASE UploadFails
  BY <1>4, <1>p DEF UploadFails, Quit, NoShell
<1>5. CASE VerifySHA256
  BY <1>5, <1>p DEF VerifySHA256, Quit
<1>6. CASE Break
  BY <1>6, <1>p DEF Break, Quit, NoShell
(* A shell that goes on is one that was there already. *)
<1>k. ASSUME NEW a \in Attempts, shell[a].step # "none", UNCHANGED <<attempt, pc>>,
             \A b \in Attempts : b # a => shell'[b] = shell[b],
             pc # "upload" => shell'[a].step = "none" \/ a # attempt
      PROVE  OwnShell'
  <2>1. a <= attempt
    BY <1>p, <1>k
  <2> QED
    BY <1>p, <1>k, <2>1
<1>7. ASSUME NEW a \in Attempts, CatWrites(a) \/ OpenPartial(a) PROVE OwnShell'
  <2>1. /\ shell[a].step \in {"cat", "start"} /\ UNCHANGED <<attempt, pc>>
        /\ \A b \in Attempts : b # a => shell'[b] = shell[b]
    BY <1>7, <1>p DEF CatWrites, OpenPartial, Opens
  <2> QED
    BY <1>k, <2>1
<1>8. ASSUME NEW a \in Attempts, Shell(a), ~OpenPartial(a) PROVE OwnShell'
  <2>1. /\ shell[a].step \notin {"none", "ok", "failed"} /\ UNCHANGED <<attempt, pc>>
        /\ \A b \in Attempts : b # a => shell'[b] = shell[b]
    BY <1>8, <1>p, ShellEffect
  <2> QED
    BY <1>k, <2>1
<1> QED
  BY <1>1, <1>2, <1>3, <1>4, <1>5, <1>6, <1>7, <1>8 DEF Next, Advance, Upload, Shell

(* What a step does to the account: it goes on, an attempt fails for what    *)
(* disturbed it, or an attempt loses its connection.                         *)
LEMMA Spending ==
    ASSUME IInv, TypeOK', Accounted, Pending' \subseteq Pending,
           attempt' = attempt, breaks' = breaks, damages <= damages',
           ~Undisturbed \/ Undisturbed' \/ damages < damages' \/ Pending' # Pending
    PROVE  Accounted'
<1> DEFINE n == Cardinality(Pending)
           m == Cardinality(Pending')
           b == 4 * breaks
           h == IF Undisturbed THEN 0 ELSE 1
           k == IF Undisturbed' THEN 0 ELSE 1
<1>1. attempt \in Nat /\ breaks \in Nat /\ damages \in Nat /\ damages' \in Nat
  BY BoundsAssumption DEF IInv, TypeOK, Attempts
<1>2. n \in Nat /\ m \in Nat /\ m <= n /\ (Pending' # Pending => m < n)
  <2>1. \A p \in Pending \ Pending' : m < n
    BY PendingFinite, PendingCount
  <2> QED
    BY <2>1, PendingFinite, PendingCount
<1>3. h \in {0, 1} /\ k \in {0, 1} /\ (k <= h \/ damages < damages' \/ Pending' # Pending)
  OBVIOUS
<1>4. attempt + n + h <= 4 * breaks + damages
  BY DEF Accounted
<1>5. Accounted' <=> attempt' + m + k <= 4 * breaks' + damages'
  BY DEF Accounted
<1>6. b \in Nat /\ (k <= h \/ m < n \/ damages < damages') /\ attempt + n + h <= b + damages
  BY <1>1, <1>2, <1>3, <1>4
<1> HIDE DEF n, m, h, k
<1>7. attempt + m + k <= b + damages'
  <2> HIDE DEF b
  <2>1. n \in Nat /\ m \in Nat /\ m <= n /\ h \in {0, 1} /\ k \in {0, 1}
    BY <1>2, <1>3
  <2>2. \A a, d, e \in Nat : a + n + h <= b + d /\ d <= e /\ (k <= h \/ m < n \/ d < e)
                               => a + m + k <= b + e
    BY <1>6, <2>1
  <2> QED
    BY <1>1, <1>6, <2>2
<1> QED
  BY <1>5, <1>7

LEMMA Failing ==
    ASSUME IInv, TypeOK', Accounted, Pending' \subseteq Pending, attempt' = attempt + 1,
           breaks' = breaks, damages' = damages, ~Undisturbed, Undisturbed'
    PROVE  Accounted'
<1> DEFINE n == Cardinality(Pending)
           m == Cardinality(Pending')
<1>1. attempt \in Nat /\ breaks \in Nat /\ damages \in Nat
  BY BoundsAssumption DEF IInv, TypeOK, Attempts
<1>2. n \in Nat /\ m \in Nat /\ m <= n
  BY PendingFinite, PendingCount
<1>3. attempt + n + 1 <= 4 * breaks + damages
  BY DEF Accounted
<1>4. Accounted' <=> attempt' + m + 0 <= 4 * breaks' + damages'
  BY DEF Accounted
<1> HIDE DEF n, m
<1> QED
  BY <1>1, <1>2, <1>3, <1>4

LEMMA Losing ==
    ASSUME IInv, TypeOK', Accounted, attempt' = attempt + 1, breaks' = breaks + 1,
           damages' = damages, Undisturbed',
           Pending' \subseteq Pending \cup {<<attempt, "open">>} \cup {<<attempt, "mv">>}
                             \cup {<<attempt, "trap">>}
    PROVE  Accounted'
<1> DEFINE n == Cardinality(Pending)
           m == Cardinality(Pending')
           T == Pending \cup {<<attempt, "open">>}
           U == T \cup {<<attempt, "mv">>}
           V == U \cup {<<attempt, "trap">>}
<1>1. attempt \in Nat /\ breaks \in Nat /\ damages \in Nat
  BY BoundsAssumption DEF IInv, TypeOK, Attempts
<1>a. ASSUME NEW S, IsFiniteSet(S), NEW x
      PROVE  /\ IsFiniteSet(S \cup {x}) /\ Cardinality(S \cup {x}) \in Nat
             /\ Cardinality(S) \in Nat /\ Cardinality(S \cup {x}) <= Cardinality(S) + 1
  <2>1. /\ IsFiniteSet(S \cup {x}) /\ Cardinality(S) \in Nat
        /\ (Cardinality(S \cup {x}) = Cardinality(S) \/ Cardinality(S \cup {x}) = Cardinality(S) + 1)
    BY <1>a, FS_AddElement, FS_CardinalityType
  <2> QED
    BY <2>1
<1>2. IsFiniteSet(T) /\ Cardinality(T) \in Nat /\ Cardinality(T) <= n + 1 /\ n \in Nat
  BY <1>a, PendingFinite
<1> HIDE DEF T
<1>3. IsFiniteSet(U) /\ Cardinality(U) \in Nat /\ Cardinality(U) <= Cardinality(T) + 1
  BY <1>a, <1>2
<1> HIDE DEF U
<1>4. IsFiniteSet(V) /\ Cardinality(V) \in Nat /\ Cardinality(V) <= Cardinality(U) + 1
  BY <1>a, <1>3
<1>5. m \in Nat /\ m <= Cardinality(V)
  <2>1. Pending' \subseteq V
    BY DEF T, U
  <2> HIDE DEF V
  <2> QED
    BY <1>4, <2>1, PendingCount
<1> HIDE DEF V
<1>6. attempt + n <= 4 * breaks + damages
  <2>1. \/ attempt + n + 0 <= 4 * breaks + damages
        \/ attempt + n + 1 <= 4 * breaks + damages
    BY DEF Accounted
  <2> HIDE DEF n
  <2> QED
    BY <1>1, <1>2, <2>1
<1>7. Accounted' <=> attempt' + m + 0 <= 4 * breaks' + damages'
  BY DEF Accounted
<1> HIDE DEF n, m
<1>8. m <= n + 3
  BY <1>2, <1>3, <1>4, <1>5
<1> QED
  BY <1>1, <1>2, <1>5, <1>6, <1>7, <1>8

LEMMA AccountedStep == IInv /\ OwnShell /\ Accounted /\ [Next]_vars => Accounted'
<1> SUFFICES ASSUME IInv, OwnShell, Accounted, [Next]_vars PROVE Accounted'
  OBVIOUS
<1>t. TypeOK /\ TypeOK' /\ OwnInodes /\ Uploading
  BY TypeInductive DEF IInv
<1>p. /\ partial \in [Files -> Inodes \cup {None}] /\ dest \in [Files -> Inodes \cup {None}]
      /\ content \in [Inodes -> Contents] /\ shell \in [Attempts -> Shells] /\ attempt \in Attempts
      /\ None \notin Inodes /\ Attempts = 0..MaxAttempts /\ MaxAttempts \in Nat
      /\ damages \in Nat /\ breaks \in Nat /\ Size \in Nat
      /\ pc \in {"upload", "verify"} => at \in Files
  BY <1>t, MarksAssumption, BoundsAssumption DEF TypeOK, Inodes, Attempts
<1> USE DEF Disk, Process
(* Steps that leave the other shells alone, and keep what is undisturbed so. *)
<1>k. ASSUME UNCHANGED <<attempt, breaks>>, damages' = damages,
             \A a \in Attempts : a # attempt => shell'[a] = shell[a],
             Undisturbed => Undisturbed'
      PROVE  Accounted'
  <2>1. Pending' \subseteq Pending
    BY <1>k, <1>p DEF Pending
  <2>2. attempt' = attempt /\ breaks' = breaks /\ damages <= damages'
    BY <1>k, <1>p
  <2>3. ~Undisturbed \/ Undisturbed'
    BY <1>k
  <2> QED
    BY <1>t, <2>1, <2>2, <2>3, Spending
<1>1. CASE BeginPush \/ UNCHANGED vars
  <2>1. Undisturbed => Undisturbed'
    BY <1>1 DEF BeginPush, vars, Undisturbed, Intact
  <2> QED
    BY <1>1, <1>k, <2>1 DEF BeginPush, vars
<1>2. ASSUME NEW f \in Files, StartUpload(f) PROVE Accounted'
  <2>1. shell'[attempt].status = "ok" /\ shell'[attempt].step = "start"
    BY <1>2, <1>p DEF StartUpload, NoShell
  <2>2. Undisturbed'
    BY <1>2, <2>1 DEF StartUpload, Undisturbed
  <2> QED
    BY <1>2, <1>k, <1>p, <2>2 DEF StartUpload
<1>3. CASE UploadReturns
  <2>2. Undisturbed => Undisturbed'
    BY <1>3 DEF UploadReturns, Undisturbed, Intact
  <2> QED
    BY <1>3, <1>k, <1>p, <2>2 DEF UploadReturns
<1>q. ASSUME Quit, UNCHANGED <<breaks, damages>>, ~Undisturbed, shell'[attempt].step = "none",
             \A a \in Attempts : a # attempt => shell'[a] = shell[a]
      PROVE  Accounted'
  <2>1. attempt' = attempt + 1 /\ Undisturbed'
    BY <1>q DEF Quit, Undisturbed
  <2>2. Pending' \subseteq Pending
    BY <1>q, <1>p, <2>1 DEF Pending
  <2> QED
    BY <1>q, <1>t, <2>1, <2>2, Failing
<1>4. CASE UploadFails
  <2>1. ~Undisturbed /\ shell'[attempt].step = "none"
    BY <1>4, <1>p DEF UploadFails, Undisturbed, NoShell
  <2> QED
    BY <1>4, <1>p, <1>q, <2>1 DEF UploadFails
<1>5. CASE VerifySHA256
  <2>1. CASE Intact(at)
    <3>1. UNCHANGED <<shell, attempt, breaks, damages>> /\ pc' \in {"staged", "next"}
      BY <1>5, <2>1 DEF VerifySHA256, Verified
    <3>2. Undisturbed'
      BY <3>1 DEF Undisturbed
    <3> QED
      BY <1>k, <3>1, <3>2
  <2>2. CASE ~Intact(at)
    <3>1. pc = "verify" /\ Quit /\ UNCHANGED <<shell, breaks, damages>>
      BY <1>5, <2>2 DEF VerifySHA256, Verified
    <3>2. ~Undisturbed
      BY <2>2, <3>1 DEF Undisturbed
    <3> QED
      BY <1>q, <3>1, <3>2 DEF OwnShell
  <2> QED
    BY <2>1, <2>2
<1>6. CASE Break
  <2>1. /\ attempt' = attempt + 1 /\ breaks' = breaks + 1 /\ damages' = damages /\ pc' = "idle"
        /\ UNCHANGED shell \/ shell' = [a \in Attempts |-> NoShell]
    BY <1>6 DEF Break, Quit
  <2>2. Undisturbed'
    BY <2>1 DEF Undisturbed
  <2>3. Pending' \subseteq Pending \cup {<<attempt, "open">>} \cup {<<attempt, "mv">>}
                           \cup {<<attempt, "trap">>}
    <3>1. SUFFICES ASSUME NEW p \in Pending', p \notin Pending
                   PROVE  p \in {<<attempt, "open">>, <<attempt, "mv">>, <<attempt, "trap">>}
      OBVIOUS
    <3>2. p \in Attempts \X Deeds /\ p[1] < attempt + 1 /\ shell'[p[1]].step # "none"
      BY <2>1, <3>1 DEF Pending
    <3>3. shell' = shell
      BY <2>1, <3>2 DEF NoShell
    <3>4. p[1] = attempt
      BY <1>p, <3>1, <3>2, <3>3 DEF Pending
    <3> QED
      BY <3>2, <3>4 DEF Deeds
  <2> QED
    BY <1>t, <2>1, <2>2, <2>3, Losing
(* What is good stays good under one more good chunk. *)
<1>7. ASSUME NEW a \in Attempts, CatWrites(a) PROVE Accounted'
  <2> DEFINE k == shell[a].sent + 1
             i == shell[a].inode
  <2>1. /\ shell[a].step = "cat" /\ k <= Size /\ UNCHANGED <<partial, dest, Process>>
        /\ shell' = [shell EXCEPT ![a].sent = k]
        /\ \/ content' = [content EXCEPT ![i][k] = "good"] /\ damages' = damages
           \/ damages' = damages + 1
    BY <1>7 DEF CatWrites
  <2>2. /\ \A b \in Attempts : b # a => shell'[b] = shell[b]
        /\ shell'[a].step = "cat" /\ shell'[a].status = shell[a].status
        /\ shell'[a].inode = i /\ shell'[a].sent = k
        /\ shell[a].sent \in 0..Size /\ i \in Inodes
    BY <1>p, <1>t, <2>1 DEF Shells, OwnInodes
  <2>3. Pending' = Pending
    <3>1. \A b \in Attempts : shell'[b].step = shell[b].step
      BY <2>1, <2>2
    <3> QED
      BY <2>1, <3>1 DEF Pending
  <2>0. attempt' = attempt /\ breaks' = breaks /\ Pending' \subseteq Pending
    BY <2>1, <2>3
  <2>4. CASE content' = [content EXCEPT ![i][k] = "good"] /\ damages' = damages
    <3>1. \A j \in Inodes, l \in 1..Size : content[j][l] = "good" => content'[j][l] = "good"
      BY <1>p, <2>2, <2>4 DEF Contents
    <3>2. content'[i][k] = "good"
      <4>1. k \in 1..Size /\ content[i] \in Contents
        BY <1>p, <2>1, <2>2
      <4> QED
        BY <1>p, <2>2, <2>4, <4>1 DEF Contents
    <3> HIDE DEF k, i
    <3>3. Intact(at) /\ pc \in {"upload", "verify"} => Intact(at)'
      BY <1>p, <2>1, <3>1 DEF Intact
    <3>4. Undisturbed => Undisturbed'
      <4> SUFFICES ASSUME Undisturbed PROVE Undisturbed'
        OBVIOUS
      <4>1. CASE pc # "upload"
        BY <2>1, <3>3, <4>1 DEF Undisturbed
      <4>2. CASE pc = "upload" /\ a = attempt
        <5>1. \A l \in 1..shell'[a].sent : content'[i][l] = "good"
          <6>1. \A l \in 1..shell[a].sent : content[i][l] = "good" /\ l \in 1..Size
            BY <1>p, <2>1, <2>2, <4>2 DEF Undisturbed, i
          <6>2. \A l \in 1..k : l = k \/ l \in 1..shell[a].sent
            BY <2>2 DEF k
          <6> QED
            BY <2>2, <3>1, <3>2, <6>1, <6>2
        <5> QED
          BY <2>1, <2>2, <4>2, <5>1 DEF Undisturbed, i
      <4>3. CASE pc = "upload" /\ a # attempt
        <5>1. shell'[attempt] = shell[attempt] /\ shell[attempt] \in Shells
          BY <1>p, <2>2, <4>3
        <5>2. shell[attempt].step = "cat" =>
                 /\ partial'[at] = shell[attempt].inode
                 /\ \A l \in 1..shell[attempt].sent : content'[shell[attempt].inode][l] = "good"
          <6>1. shell[attempt].sent \in 0..Size
            BY <5>1, ShellTypes
          <6>2. \A l \in 1..shell[attempt].sent : l \in 1..Size
            BY <1>p, <6>1
          <6> QED
            BY <1>p, <1>t, <2>1, <3>1, <4>3, <6>2 DEF Undisturbed, OwnInodes
        <5>3. shell[attempt].step \in {"chmod", "mv"} =>
                 /\ partial'[at] # None /\ \A l \in 1..Size : content'[partial'[at]][l] = "good"
          BY <1>p, <2>1, <3>1, <4>3 DEF Undisturbed
        <5> QED
          BY <2>1, <3>3, <4>3, <5>1, <5>2, <5>3 DEF Undisturbed
      <4> QED
        BY <4>1, <4>2, <4>3
    <3>5. damages <= damages' /\ (~Undisturbed \/ Undisturbed')
      BY <1>p, <2>4, <3>4
    <3> QED
      BY <1>t, <2>0, <3>5, Spending
  <2>5. CASE damages' = damages + 1
    <3>1. damages < damages' /\ damages <= damages'
      BY <1>p, <2>5
    <3> QED
      BY <1>t, <2>0, <3>1, Spending
  <2> QED
    BY <2>1, <2>4, <2>5
(* A shell left behind does one of the deeds it has left. *)
<1>d. ASSUME NEW a \in Attempts, NEW p \in Pending, p \notin Pending', Pending' \subseteq Pending,
             UNCHANGED <<attempt, breaks, damages>>
      PROVE  Accounted'
  <2>1. attempt' = attempt /\ breaks' = breaks /\ damages <= damages' /\ Pending' # Pending
    BY <1>d, <1>p
  <2> QED
    BY <1>d, <1>t, <2>1, Spending
<1>8. ASSUME NEW a \in Attempts, shell[a].file \in Files, OpenPartial(a) PROVE Accounted'
  <2>1. PICK inode \in Inodes : Opens(a, inode)
    BY <1>8, <1>t, OpensOwn
  <2>2. /\ shell[a].step = "start" /\ UNCHANGED <<dest, Process, damages>>
        /\ \A b \in Attempts : b # a => shell'[b] = shell[b]
        /\ shell'[a].step = "cat" /\ shell'[a].status = shell[a].status
        /\ shell'[a].inode = inode /\ shell'[a].sent = shell[a].sent
        /\ partial' = [partial EXCEPT ![shell[a].file] = inode]
    BY <1>p, <2>1 DEF Opens, Shells
  <2>3. CASE a = attempt
    <3>1. pc = "upload" /\ shell[a].file = at
      BY <1>t, <2>2, <2>3 DEF OwnShell, Uploading, Active
    <3>2. shell[a].sent = 0
      BY <1>t, <2>2 DEF OwnInodes
    <3>3. Undisturbed => Undisturbed'
      BY <1>8, <1>p, <2>2, <2>3, <3>1, <3>2 DEF Undisturbed
    <3> QED
      BY <1>k, <2>2, <2>3, <3>3
  <2>4. CASE a # attempt
    <3>1. a < attempt
      BY <1>p, <2>2, <2>4 DEF OwnShell
    <3>2. <<a, "open">> \in Pending /\ <<a, "open">> \notin Pending'
      BY <2>2, <3>1 DEF Pending, Deeds
    <3>3. Pending' \subseteq Pending
      BY <2>2 DEF Pending
    <3> QED
      BY <1>d, <2>2, <3>2, <3>3
  <2> QED
    BY <2>3, <2>4
<1>9. ASSUME NEW a \in Attempts, Shell(a), ~OpenPartial(a) PROVE Accounted'
  <2> DEFINE f == shell[a].file
  <2>1. /\ shell[a].step \in {"cat", "chmod", "mv", "trap"} /\ f \in Files
        /\ UNCHANGED <<Process, damages, content, touched>>
        /\ \A b \in Attempts : b # a => shell'[b] = shell[b]
    BY <1>9, <1>t, ShellEffect
  <2>s. shell[a] \in Shells /\ shell[a].status \in {"ok", "failed"} /\ shell[a].sent \in 0..Size
    BY <1>p, ShellTypes
  <2>3. CASE a = attempt
    <3>1. pc = "upload" /\ f = at
      BY <1>t, <2>1, <2>3 DEF OwnShell, Uploading, Active
    <3>3. Undisturbed => Undisturbed'
      <4> SUFFICES ASSUME Undisturbed PROVE Undisturbed'
        OBVIOUS
      <4>u. /\ shell[a].status = "ok"
            /\ shell[a].step = "cat" => /\ partial[at] = shell[a].inode
                                        /\ \A l \in 1..shell[a].sent : content[partial[at]][l] = "good"
            /\ shell[a].step \in {"chmod", "mv"} =>
                  partial[at] # None /\ \A l \in 1..Size : content[partial[at]][l] = "good"
            /\ shell[a].step \in {"trap", "ok"} => Intact(at)
        BY <2>3, <3>1 DEF Undisturbed
      <4>1. CASE CatEnds(a)
        <5>1. /\ shell[a].sent = Size /\ shell[a].step = "cat"
              /\ shell'[a].step = "chmod" /\ shell'[a].status = "ok" /\ UNCHANGED Disk
          BY <1>p, <2>3, <3>1, <4>1, <4>u DEF CatEnds, Connected, Shells
        <5>2. partial[at] \in Inodes
          BY <1>t, <4>u, <5>1 DEF OwnInodes
        <5> QED
          BY <1>p, <2>1, <2>3, <3>1, <4>u, <5>1, <5>2 DEF Undisturbed
      <4>2. CASE Chmod(a)
        <5>1. /\ shell[a].step = "chmod" /\ UNCHANGED Disk
              /\ shell'[a].step = "mv" /\ shell'[a].status = "ok"
          BY <1>p, <2>s, <3>1, <4>2, <4>u DEF Chmod, ShellGoes, Fails, Shells
        <5> QED
          BY <2>1, <2>3, <3>1, <4>u, <5>1 DEF Undisturbed
      <4>3. CASE Mv(a)
        <5>1. /\ shell[a].step = "mv" /\ dest' = [dest EXCEPT ![at] = partial[at]]
              /\ shell'[a].step = "trap" /\ shell'[a].status = "ok" /\ content' = content
          BY <1>p, <2>s, <3>1, <4>3, <4>u DEF Mv, ShellGoes, Fails, Shells
        <5>2. Intact(at)'
          BY <1>p, <2>1, <3>1, <4>u, <5>1 DEF Intact
        <5> QED
          BY <2>1, <2>3, <3>1, <5>1, <5>2 DEF Undisturbed
      <4>4. CASE Trap(a)
        <5>1. /\ shell[a].step = "trap" /\ UNCHANGED <<dest, content>>
              /\ shell' = [shell EXCEPT ![a] = [NoShell EXCEPT !.step = "ok"]]
          BY <2>3, <3>1, <4>4, <4>u DEF Trap, Connected
        <5>2. shell'[a].step = "ok" /\ shell'[a].status = "ok"
          BY <1>p, <5>1 DEF NoShell
        <5>3. Intact(at)'
          BY <2>1, <3>1, <4>u, <5>1 DEF Intact
        <5> QED
          BY <2>1, <2>3, <3>1, <5>2, <5>3 DEF Undisturbed
      <4> QED
        BY <1>9, <4>1, <4>2, <4>3, <4>4 DEF Shell
    <3> QED
      BY <1>k, <2>1, <2>3, <3>3
  <2>4. CASE a # attempt
    <3>1. a < attempt
      BY <1>p, <2>1, <2>4 DEF OwnShell
    <3>2. CASE CatEnds(a) \/ Chmod(a) \/ Fails(a, "mv")
      <4>0. UNCHANGED Disk
        BY <1>9, <3>2 DEF CatEnds, Chmod, ShellGoes, Fails
      <4>1. Undisturbed => Undisturbed'
        <5>1. shell'[attempt] = shell[attempt]
          BY <1>p, <2>1, <2>4
        <5> QED
          BY <2>1, <4>0, <5>1 DEF Undisturbed, Intact
      <4>2. \/ shell[a].step = "cat" /\ shell'[a].step = "chmod"
            \/ shell[a].step = "chmod" /\ shell'[a].step \in {"mv", "trap"}
            \/ shell[a].step = "mv" /\ shell'[a].step = "trap"
        BY <1>p, <2>s, <3>2 DEF CatEnds, Chmod, ShellGoes, Fails, Shells
      <4>3. Pending' \subseteq Pending
        BY <2>1, <4>2 DEF Pending
      <4>4. attempt' = attempt /\ breaks' = breaks /\ damages <= damages'
        BY <1>p, <2>1
      <4> QED
        BY <1>t, <4>1, <4>3, <4>4, Spending
    <3>3. CASE ShellGoes(a, "mv", "trap")
      <4>1. shell[a].step = "mv" /\ shell'[a].step = "trap"
        BY <1>p, <2>s, <3>3 DEF ShellGoes, Shells
      <4>2. <<a, "mv">> \in Pending /\ <<a, "mv">> \notin Pending' /\ Pending' \subseteq Pending
        BY <2>1, <3>1, <4>1 DEF Pending, Deeds
      <4> QED
        BY <1>d, <2>1, <4>2
    <3>4. CASE Trap(a)
      <4>1. shell[a].step = "trap" /\ shell'[a].step = "none"
        BY <1>p, <2>s, <2>4, <3>4 DEF Trap, Connected, NoShell
      <4>2. <<a, "trap">> \in Pending /\ <<a, "trap">> \notin Pending' /\ Pending' \subseteq Pending
        BY <2>1, <3>1, <4>1 DEF Pending, Deeds
      <4> QED
        BY <1>d, <2>1, <4>2
    <3> QED
      BY <1>9, <3>2, <3>3, <3>4 DEF Shell, Mv
  <2> QED
    BY <2>3, <2>4
<1> QED
  <2>1. ASSUME NEW a \in Attempts, Shell(a) PROVE Accounted'
    <3>1. shell[a].file \in Files
      BY <2>1, <1>p, ShellTypes DEF Shell
    <3> QED
      BY <2>1, <1>8, <1>9, <3>1
  <2> QED
    BY <1>1, <1>2, <1>3, <1>4, <1>5, <1>6, <1>7, <2>1 DEF Next, Advance, Upload

(* What interrupted pushes leave behind, partial files and shells that run   *)
(* on or have not even begun, costs the pushes after them a bounded number   *)
(* of failures: four for each connection that was lost, its own among them,  *)
(* and one for each chunk that was damaged on its way.                       *)
THEOREM FailuresBounded == Spec => []FewFailures
<1>1. ASSUME Init PROVE OwnShell /\ Accounted
  <2>1. OwnShell
    BY <1>1, BoundsAssumption DEF Init, OwnShell, NoShell, Attempts
  <2>2. Pending = {}
    BY <1>1 DEF Init, Pending, NoShell
  <2>3. Undisturbed
    BY <1>1 DEF Init, Undisturbed
  <2>4. Cardinality({}) = 0
    BY FS_EmptySet
  <2> QED
    BY <1>1, <2>1, <2>2, <2>3, <2>4 DEF Init, Accounted
<1>2. ASSUME IInv, Accounted PROVE FewFailures
  <2>1. attempt \in Nat /\ breaks \in Nat /\ damages \in Nat
    BY <1>2, BoundsAssumption DEF IInv, TypeOK, Attempts
  <2>2. Cardinality(Pending) \in Nat
    BY PendingFinite
  <2> QED
    BY <1>2, <2>1, <2>2 DEF Accounted, FewFailures
<1> QED
  BY <1>1, <1>2, OwnShellStep, AccountedStep, Invariance, PTL DEF Spec

=============================================================================
