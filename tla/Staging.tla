------------------------------- MODULE Staging ------------------------------
(***************************************************************************)
(* Staging a bundle on another machine: distribute.Push over an SSH        *)
(* connection (internal/distribute/bundle.go, internal/remote/ssh.go).     *)
(*                                                                         *)
(* Each payload is piped into a remote shell, which runs                   *)
(*    trap 'rm -f P' EXIT; cat > P && chmod 600 P && mv -f P D             *)
(* with P a fixed name next to the destination D, and is then verified.    *)
(* When the connection is lost, for a timeout or a kill of kubelift, the   *)
(* shell is not told: it runs on, at its own pace, with the input that has *)
(* arrived and then an end of input, while a repeated Push may already     *)
(* write to the same P, or be done with it.                                *)
(***************************************************************************)
EXTENDS Naturals

CONSTANTS
    Files,        \* payloads of the bundle
    Size,         \* chunks of a payload
    None,         \* no such file
    MaxAttempts,  \* bound: Push again after this many failed attempts at most
    MaxFaults     \* bound: attempts that lose their connection, chunks that arrive damaged

ASSUME BoundsAssumption ==
    Size \in Nat \ {0} /\ MaxAttempts \in Nat /\ MaxFaults \in Nat
ASSUME MarksAssumption == None \notin (0..MaxAttempts) \X Files

Attempts == 0..MaxAttempts
Inodes   == Attempts \X Files   \* the files made by `cat >`, by who made them first

VARIABLES
    partial, dest,  \* the files named P and D of each payload: inodes
    content,        \* what is at each place of an inode, one place for each chunk
    shell,          \* the latest remote shell of each attempt
    attempt, pc,    \* the kubelift process
    todo, at,       \* payloads to upload; the one being uploaded
    breaks, damages,
    touched         \* history: payloads that a shell left behind reached too late

vars == <<partial, dest, content, shell, attempt, pc, todo, at, breaks, damages, touched>>

Contents == [1..Size -> {"nothing", "good", "damaged"}]
Empty    == [k \in 1..Size |-> "nothing"]

ShellSteps == {"none", "start", "cat", "chmod", "mv", "trap", "ok", "failed"}
NoShell == [step |-> "none", status |-> "ok", file |-> None, inode |-> None, sent |-> 0]
Shells == [step : ShellSteps, status : {"ok", "failed"}, file : Files \cup {None},
           inode : Inodes \cup {None}, sent : 0..Size]

TypeOK ==
    /\ partial \in [Files -> Inodes \cup {None}]
    /\ dest \in [Files -> Inodes \cup {None}]
    /\ content \in [Inodes -> Contents] /\ touched \subseteq Files
    /\ shell \in [Attempts -> Shells]
    /\ attempt \in Attempts
    /\ pc \in {"idle", "next", "upload", "verify", "staged"}
    /\ todo \subseteq Files /\ at \in Files \cup {None}
    /\ pc \in {"upload", "verify"} => at \in todo
    /\ breaks \in 0..MaxFaults /\ damages \in 0..MaxFaults

Init ==
    /\ partial = [f \in Files |-> None] /\ dest = [f \in Files |-> None]
    /\ content = [i \in Inodes |-> Empty] /\ touched = {}
    /\ shell = [a \in Attempts |-> NoShell]
    /\ attempt = 0 /\ pc = "idle" /\ todo = {} /\ at = None
    /\ breaks = 0 /\ damages = 0

Disk    == <<partial, dest, content>>
Process == <<attempt, pc, todo, at, breaks>>

(* An inode that has a name, or that a shell has open. *)
InUse(i) == \/ \E f \in Files : i \in {partial[f], dest[f]}
            \/ \E a \in Attempts : i = shell[a].inode

Intact(f) == dest[f] # None /\ \A k \in 1..Size : content[dest[f]][k] = "good"

-----------------------------------------------------------------------------
(* Push, on Master0.                                                         *)

(* Push has extracted the bundle, whose manifest lists the payloads. (What    *)
(* the file system has freed by then is forgotten.)                          *)
BeginPush ==
    /\ pc = "idle"
    /\ pc' = "next" /\ todo' = Files /\ touched' = {}
    /\ content' = [i \in Inodes |-> IF InUse(i) THEN content[i] ELSE Empty]
    /\ UNCHANGED <<partial, dest, shell, attempt, at, breaks, damages>>

(* UploadFile starts a session; its shell opens nothing yet. *)
StartUpload(f) ==
    /\ pc = "next" /\ f \in todo
    /\ shell' = [shell EXCEPT ![attempt] = [NoShell EXCEPT !.step = "start", !.file = f]]
    /\ pc' = "upload" /\ at' = f
    /\ UNCHANGED <<Disk, attempt, todo, breaks, damages, touched>>

(* The command ends with an error; the operator may give another one. *)
Quit ==
    /\ attempt < MaxAttempts /\ attempt' = attempt + 1
    /\ pc' = "idle" /\ todo' = {} /\ at' = None

UploadReturns_Mut ==
    /\ pc = "upload" /\ shell[attempt].step = "ok"
    /\ pc' = "verify" /\ todo' = todo \ {at} /\ shell' = [shell EXCEPT ![attempt] = NoShell]
    /\ UNCHANGED <<Disk, attempt, at, breaks, damages, touched>>

UploadReturns ==
    /\ pc = "upload" /\ shell[attempt].step = "ok"
    /\ pc' = "verify" /\ shell' = [shell EXCEPT ![attempt] = NoShell]
    /\ UNCHANGED <<Disk, attempt, todo, at, breaks, damages, touched>>

UploadFails ==
    /\ pc = "upload" /\ shell[attempt].step = "failed"
    /\ Quit /\ shell' = [shell EXCEPT ![attempt] = NoShell]
    /\ UNCHANGED <<Disk, breaks, damages, touched>>

Verified_Mut(f) == dest[f] # None

Verified(f) == Intact(f)

(* VerifySHA256 on the machine, for the payload just uploaded. *)
VerifySHA256 ==
    /\ pc = "verify"
    /\ IF Verified(at)
       THEN /\ todo' = todo \ {at} /\ at' = None
            /\ pc' = IF todo = {at} THEN "staged" ELSE "next"
            /\ UNCHANGED attempt
       ELSE Quit
    /\ UNCHANGED <<Disk, shell, breaks, damages, touched>>

(* The connection is lost, by a timeout, the network or a kill of kubelift;   *)
(* or the machine goes down, which ends the shells without their traps.      *)
Break ==
    /\ pc \in {"next", "upload", "verify"}
    /\ breaks + damages < MaxFaults /\ breaks' = breaks + 1
    /\ Quit
    /\ \/ UNCHANGED shell
       \/ shell' = [a \in Attempts |-> NoShell]
    /\ UNCHANGED <<Disk, damages, touched>>

-----------------------------------------------------------------------------
(* The remote shells: that of the present attempt, which has its input, and  *)
(* those left behind.                                                        *)

Connected(a) == a = attempt /\ pc = "upload"

ShellGoes(a, from, to) ==
    /\ shell[a].step = from
    /\ shell' = [shell EXCEPT ![a].step = to]
    /\ UNCHANGED <<Process, damages, touched>>

Fails(a, from) ==
    /\ shell[a].step = from
    /\ shell' = [shell EXCEPT ![a].step = "trap", ![a].status = "failed"]
    /\ UNCHANGED <<Disk, Process, damages, touched>>

(* The payloads that this push has in place: verified, or with their shell at *)
(* its end, which has moved P and removed the name.                          *)
InPlace ==
    IF pc = "idle" THEN {}
    ELSE (Files \ todo) \cup
         {f \in Files : f = at /\ (pc = "verify" \/ shell[attempt].step = "ok")}

(* `cat > P` makes P or empties the one there is, which another shell may     *)
(* have open as well.                                                        *)
Opens(a, inode) ==
    LET f == shell[a].file IN
    /\ shell[a].step = "start"
    /\ shell' = [shell EXCEPT ![a].step = "cat", ![a].inode = inode]
    /\ partial' = [partial EXCEPT ![f] = inode]
    /\ content' = [content EXCEPT ![inode] = Empty]
    /\ touched' = touched \cup ({f} \cap InPlace)
    /\ UNCHANGED <<dest, Process, damages>>

(* The definitions named ..._Mut are deliberate mistakes, never used by Next. *)
OpenPartial_Mut(a) ==
    /\ partial[shell[a].file] = None
    /\ Opens(a, <<a, shell[a].file>>)

OpenPartial(a) ==
    LET f == shell[a].file IN
    Opens(a, IF partial[f] = None THEN <<a, f>> ELSE partial[f])

(* A chunk that has arrived goes to its place in the inode, for a shell left  *)
(* behind as well.                                                           *)
CatWrites(a) ==
    LET k == shell[a].sent + 1
        Write(chunk) == content' = [content EXCEPT ![shell[a].inode][k] = chunk]
    IN
    /\ shell[a].step = "cat" /\ k <= Size
    /\ shell' = [shell EXCEPT ![a].sent = k]
    /\ \/ Write("good") /\ UNCHANGED <<damages, touched>>
       \/ /\ breaks + damages < MaxFaults /\ damages' = damages + 1
          /\ Write("damaged") /\ touched' = touched \cup ({shell[a].file} \cap InPlace)
    /\ UNCHANGED <<partial, dest, Process>>

(* cat ends with its input: when all was sent, or when the connection is gone. *)
CatEnds(a) ==
    /\ Connected(a) => shell[a].sent = Size
    /\ shell[a].step = "cat"
    /\ shell' = [shell EXCEPT ![a].step = "chmod", ![a].inode = None, ![a].sent = 0]
    /\ UNCHANGED <<Disk, Process, damages, touched>>

Chmod(a) ==
    IF partial[shell[a].file] = None
    THEN Fails(a, "chmod")
    ELSE ShellGoes(a, "chmod", "mv") /\ UNCHANGED Disk

Mv(a) ==
    LET f == shell[a].file IN
    IF partial[f] = None
    THEN Fails(a, "mv")
    ELSE /\ ShellGoes(a, "mv", "trap")
         /\ dest' = [dest EXCEPT ![f] = partial[f]]
         /\ partial' = [partial EXCEPT ![f] = None]
         /\ UNCHANGED content

(* rm -f P: whoever's P it is by now. The status is for a kubelift that waits. *)
Trap(a) ==
    /\ shell[a].step = "trap"
    /\ partial' = [partial EXCEPT ![shell[a].file] = None]
    /\ shell' = [shell EXCEPT ![a] =
                    IF Connected(a) THEN [NoShell EXCEPT !.step = shell[a].status] ELSE NoShell]
    /\ UNCHANGED <<dest, content, Process, damages, touched>>

Shell(a) ==
    /\ shell[a].file # None
    /\ OpenPartial(a) \/ CatEnds(a) \/ Chmod(a) \/ Mv(a) \/ Trap(a)

Upload == \E f \in Files : StartUpload(f)

Advance == Upload \/ UploadReturns \/ UploadFails \/ VerifySHA256

Next ==
    \/ BeginPush \/ Advance \/ Break
    \/ \E a \in Attempts : CatWrites(a) \/ Shell(a)

Spec == Init /\ [][Next]_vars

(* kubelift and the shells run on, what kubelift sends arrives, and the       *)
(* operator repeats a failed command.                                        *)
FairSpec ==
    /\ Spec
    /\ WF_vars(BeginPush) /\ WF_vars(Advance)
    /\ \A a \in Attempts : WF_vars(Shell(a)) /\ WF_vars(Connected(a) /\ CatWrites(a))

-----------------------------------------------------------------------------
(* Properties.                                                               *)

(* Once Push has succeeded, and as long as its caller works with the staged  *)
(* files, every one of them is complete and undamaged, whatever shells of    *)
(* earlier attempts write, move and remove - but for a payload whose partial *)
(* file such a shell only opened when the upload of this push was done with  *)
(* it, or to whose inode it then still wrote a damaged chunk.                *)
StagedMeansIntact == pc = "staged" => \A f \in Files \ touched : Intact(f)

(* Push gets through in the end: what an earlier attempt has left behind, a   *)
(* partial file or a shell, does not fail the attempts after it for ever.    *)
(* Each shell left behind can fail three later attempts, each damaged        *)
(* payload one: MaxAttempts is large enough to see the last one succeed.     *)
GetsStaged == <>(pc = "staged")

(* ssh.go:154-155: "远端先写入临时文件 [...] 完整成功后才替换目标文件" (the      *)
(* remote side writes a temporary file first, and only replaces the target   *)
(* after complete success): no destination is ever a part of its payload.    *)
DestinationIsWhole ==
    \A f \in Files : dest[f] # None => \A k \in 1..Size : content[dest[f]][k] # "nothing"
=============================================================================
