----------------------------- MODULE NodeProofs -----------------------------
(***************************************************************************)
(* Theorems about the commands for one target, for every set of bundles,   *)
(* with any manifests, every configuration, machine and order of commands, *)
(* and every number of interruptions, failures, reboots and replaced       *)
(* bundles.                                                                *)
(***************************************************************************)
EXTENDS NodeProperties, WellFoundedInduction, FiniteSetTheorems, TLAPS

Sides == {"front", "left"}

(* A remote shell is at a step of its script, and knows its bundle.          *)
ScriptSteps ==
    \A s \in Sides :
        /\ shell[s].script = "none" => shell[s].step = "ok"
        /\ shell[s].script = "swap" => shell[s].step \in SwapSteps \cup {"ok", "failed"}
        /\ shell[s].script = "prepare" => shell[s].step # "images" /\ shell[s].of \in Bundles
        /\ shell[s].script = "images" =>
              shell[s].step \in {"images", "ok", "failed"} /\ shell[s].of \in Bundles
        /\ shell[s].step = "copy" => shell[s].half
        /\ shell[s].half => shell[s].step \in {"copy"} \cup Parts \cup Services

(* The shell of the present command is the one the process waits for.        *)
FrontShell ==
    /\ pc \notin {"swap", "preparing", "importing"} => shell["front"] = NoShell
    /\ pc = "swap" => shell["front"].script = "swap"
    /\ pc = "preparing" => shell["front"].script = "prepare" /\ shell["front"].of = manifest
    /\ pc = "importing" => shell["front"].script = "images" /\ shell["front"].of = manifest

(* Each place belongs to some of the commands. *)
Route ==
    /\ pc # "idle" => command \in Commands
    /\ pc \in {"swap", "recheck"} => InstallMode
    /\ pc \in {"ports", "profile"} => command = "add"
    /\ pc \in {"push", "pushing"} => command # "check"
    /\ pc \in {"prepare", "preparing"} => command \in {"prepare", "add"}
    /\ pc \in {"images", "importing"} => command \in {"images", "add"}

(* The files of the bundle that is being uploaded are among the staged ones. *)
Uploaded == pc \in {"pushing", "profile", "prepare", "preparing", "images", "importing"} =>
               manifest \in staged.some

BInv == TypeOK /\ ScriptSteps /\ FrontShell /\ Route /\ Uploaded

(* What the shells do to the target, with their scripts told apart. *)
LEMMA ScriptOf ==
    ASSUME BInv, NEW s \in Sides
    PROVE  /\ shell[s] \in Shells
           /\ \A step \in SwapSteps : At(s, step) => shell[s].script \in {"swap", "prepare"}
           /\ \A step \in Parts \cup Services : At(s, step) => shell[s].script = "prepare"
           /\ At(s, "images") => shell[s].script = "images"
BY DEF BInv, TypeOK, ScriptSteps, At, Sides, Shells, SwapSteps, Parts, Services

LEMMA Found ==
    ASSUME BInv, NEW s \in Sides, shell[s].script \in {"prepare", "images"}
    PROVE  FoundFor(s) \subseteq Bundles /\ FoundFor(s) \subseteq staged.some
BY BundlesAssumption DEF BInv, TypeOK, ScriptSteps, FoundFor, Sides

(* A shell moves within its script. *)
Moves(s, step, half) == shell' = [shell EXCEPT ![s].step = step, ![s].half = half]

LEMMA MoveMeans ==
    ASSUME shell \in [Sides -> Shells], NEW s \in Sides, NEW step, NEW half, Moves(s, step, half)
    PROVE  /\ shell'[s].step = step /\ shell'[s].half = half
           /\ shell'[s].script = shell[s].script /\ shell'[s].of = shell[s].of
           /\ \A r \in Sides \ {s} : shell'[r] = shell[r]
           /\ step \in ShellSteps /\ half \in BOOLEAN => shell' \in [Sides -> Shells]
<1>1. shell[s] \in Shells
  OBVIOUS
<1>2. shell' = [shell EXCEPT ![s] = [shell[s] EXCEPT !.step = step, !.half = half]]
  BY DEF Moves
<1>3. shell'[s] = [shell[s] EXCEPT !.step = step, !.half = half]
  BY <1>2
<1>4. step \in ShellSteps /\ half \in BOOLEAN =>
         [shell[s] EXCEPT !.step = step, !.half = half] \in Shells
  BY <1>1 DEF Shells
<1> QED
  BY <1>1, <1>2, <1>3, <1>4 DEF Shells

(* The present command has another shell, or none. *)
LEMMA NewFront ==
    ASSUME shell \in [Sides -> Shells], NEW to \in Shells, shell' = [shell EXCEPT !.front = to]
    PROVE  /\ shell' \in [Sides -> Shells]
           /\ shell'["front"] = to /\ shell'["left"] = shell["left"]
BY DEF Sides

LEMMA IdleShell == NoShell \in Shells /\ NoShell.script = "none" /\ NoShell.step = "ok"
                   /\ NoShell.half = FALSE
BY DEF NoShell, Shells, ShellSteps

LEMMA NewShells ==
    /\ [script |-> "swap", of |-> None, half |-> FALSE, step |-> "swapoff"] \in Shells
    /\ \A b \in Bundles :
          /\ [script |-> "prepare", of |-> b, half |-> FALSE, step |-> "swapoff"] \in Shells
          /\ [script |-> "images", of |-> b, half |-> FALSE, step |-> "images"] \in Shells
BY DEF Shells, ShellSteps, SwapSteps

(* A part or a restart goes on to one of the next. *)
LEMMA NextLines ==
    /\ NextLine("tools") = "programs" /\ NextLine("programs") = "runtime"
    /\ NextLine("runtime") = "containerd" /\ NextLine("containerd") = "kubelet"
    /\ NextLine("kubelet") = "ok"
BY DEF NextLine

(* Every step of a shell, as a move from one step of the script to another.   *)
LineMove(s, step, half) ==
    \/ shell[s].step = "swapoff" /\ step = "backup" /\ ~half
    \/ shell[s].step = "backup" /\ step = "copy" /\ half /\ swap.copy = None
    \/ shell[s].step \in {"backup", "copying"} /\ step = "fstab" /\ ~half
    \/ shell[s].step = "copy" /\ step = "copying" /\ ~half
    \/ shell[s].step = "fstab" /\ step = "verify" /\ ~half
    \/ shell[s].step = "verify" /\ step = (IF swap.on THEN "failed"
           ELSE IF shell[s].script = "swap" THEN "ok" ELSE "tools") /\ ~half
    \/ shell[s].step = "images" /\ step \in {"ok", "failed"} /\ ~half
    \/ /\ shell[s].step \in Parts \cup Services
       /\ \/ step = shell[s].step /\ half /\ ~shell[s].half
          \/ step = NextLine(shell[s].step) /\ ~half /\ shell[s].half
    \/ shell[s].step \in Services /\ step = "failed" /\ ~half

LEMMA StepsTo ==
    ASSUME shell \in [Sides -> Shells], NEW s \in Sides, ShellStep(s)
    PROVE  \E step \in ShellSteps, half \in BOOLEAN :
              Moves(s, step, half) /\ LineMove(s, step, half) /\ shell[s].script # "none"
<1> DEFINE Goes == \E step \in ShellSteps, half \in BOOLEAN :
                      Moves(s, step, half) /\ LineMove(s, step, half) /\ shell[s].script # "none"
<1>a. ASSUME NEW step \in ShellSteps, Step(s, step), LineMove(s, step, FALSE),
             shell[s].script # "none"
      PROVE  Goes
  BY <1>a DEF Step, Moves
<1>s. /\ SwapSteps \subseteq ShellSteps /\ Parts \cup Services \subseteq ShellSteps
      /\ {"ok", "failed", "images"} \subseteq ShellSteps
      /\ {"copy", "copying", "fstab", "backup", "verify"} \subseteq SwapSteps
  BY DEF ShellSteps, SwapSteps
<1>1. CASE SwapOff(s) \/ OpenCopy(s) \/ CopyEnds(s) \/ EditFstab(s)
  <2>1. CASE SwapOff(s)
    BY <2>1, <1>a, <1>s DEF SwapOff, At, LineMove
  <2>2. CASE OpenCopy(s)
    BY <2>2, <1>a, <1>s DEF OpenCopy, At, LineMove
  <2>3. CASE CopyEnds(s)
    BY <2>3, <1>a, <1>s DEF CopyEnds, At, LineMove
  <2>4. CASE EditFstab(s)
    BY <2>4, <1>a, <1>s DEF EditFstab, At, LineMove
  <2> QED
    BY <1>1, <2>1, <2>2, <2>3, <2>4
<1>2. CASE BackUp(s)
  <2>1. CASE swap.copy = None
    <3>1. Moves(s, "copy", TRUE) /\ LineMove(s, "copy", TRUE) /\ shell[s].script # "none"
      BY <1>2, <2>1 DEF BackUp, NeedsCopy, Moves, LineMove, At
    <3> QED
      BY <3>1, <1>s
  <2>2. CASE swap.copy # None
    <3>1. Moves(s, "fstab", FALSE) /\ LineMove(s, "fstab", FALSE) /\ shell[s].script # "none"
      BY <1>2, <2>2 DEF BackUp, NeedsCopy, Moves, LineMove, At
    <3> QED
      BY <3>1, <1>s
  <2> QED
    BY <2>1, <2>2
<1>3. CASE VerifySwap(s)
  <2> DEFINE to == IF swap.on THEN "failed"
                   ELSE IF shell[s].script = "swap" THEN "ok" ELSE "tools"
  <2>1. to \in ShellSteps
    BY DEF ShellSteps, Parts
  <2>2. Step(s, to) /\ LineMove(s, to, FALSE) /\ shell[s].script # "none"
    BY <1>3 DEF VerifySwap, At, LineMove
  <2> QED
    BY <2>1, <2>2, <1>a
<1>4. CASE Import(s)
  <2>1. PICK to \in {"ok", "failed"} : Step(s, to) /\ shell[s].step = "images"
                                       /\ shell[s].script # "none"
    BY <1>4 DEF Import, At
  <2> QED
    BY <2>1, <1>a, <1>s DEF LineMove
<1>5. ASSUME NEW x \in Parts \cup Services, Begin(s, x) PROVE Goes
  <2>1. Moves(s, x, TRUE)
    <3>1. shell[s].step = x /\ shell[s] \in Shells
      BY <1>5 DEF Begin, At
    <3>2. [shell[s] EXCEPT !.half = TRUE] = [shell[s] EXCEPT !.step = x, !.half = TRUE]
      BY <3>1 DEF Shells
    <3> QED
      BY <1>5, <3>2 DEF Begin, Moves
  <2>2. LineMove(s, x, TRUE) /\ shell[s].script # "none"
    BY <1>5 DEF Begin, At, LineMove
  <2> QED
    BY <2>1, <2>2, <1>s
<1>6. ASSUME NEW x \in Parts \cup Services, Halfway(s, x), Step(s, NextLine(x)) PROVE Goes
  <2>1. NextLine(x) \in ShellSteps
    BY NextLines DEF Parts, Services, ShellSteps
  <2>2. LineMove(s, NextLine(x), FALSE) /\ shell[s].script # "none"
    BY <1>6 DEF Halfway, At, LineMove
  <2> QED
    BY <1>a, <1>6, <2>1, <2>2
<1>7. ASSUME NEW unit \in Services, NotActive(s, unit) PROVE Goes
  BY <1>7, <1>a, <1>s DEF NotActive, At, LineMove
<1>8. ASSUME NEW part \in Parts, BeginPart(s, part) \/ EndPart(s, part) PROVE Goes
  BY <1>8, <1>5, <1>6 DEF BeginPart, EndPart
<1>9. ASSUME NEW unit \in Services, BeginRestart(s, unit) \/ EndRestart(s, unit) PROVE Goes
  BY <1>9, <1>5, <1>6 DEF BeginRestart, EndRestart
<1> QED
  BY <1>1, <1>2, <1>3, <1>4, <1>7, <1>8, <1>9 DEF ShellStep

(* Every action keeps the variables in their types, *)
LEMMA TypeInductive == ASSUME BInv, [Next]_vars PROVE TypeOK'
<1>t. TypeOK /\ shell \in [Sides -> Shells]
  BY DEF BInv, TypeOK, Sides
<1> USE <1>t, BundlesAssumption DEF TypeOK, Copies, world, target, process, history
<1>g. ASSUME NEW place, NEW check, NEW next \in Places, Gate(place, check, next)
      PROVE  pc' \in Places /\ outcome' \in {"none", "refused", "unfit", "failed", "done"}
             /\ UNCHANGED <<command, manifest>>
  BY <1>g DEF Gate, Goto, End, Places
<1>1. ASSUME NEW c \in Commands, Start(c) PROVE TypeOK'
  BY <1>1 DEF Start, Places
<1>2. CASE LoadConfig \/ LocalPreflight \/ Recheck \/ CheckBundle \/ CheckPorts
  <2>1. /\ UNCHANGED <<world, bundleFile, target, shell, history, budget, command, manifest>>
        /\ pc' \in {"remote", "local", "bundle", "ports", "push", "idle"}
        /\ outcome' \in {outcome, "refused"}
    BY <1>2 DEF LoadConfig, LocalPreflight, Recheck, CheckBundle, CheckPorts, Gate, Goto, End
  <2> QED
    BY <2>1 DEF Places
<1>3. CASE CheckRemote
  <2>1. /\ UNCHANGED <<world, bundleFile, target, history, budget, command, manifest>>
        /\ pc' \in {"swap", "bundle", "idle"}
        /\ outcome' \in {outcome, "refused"}
        /\ \/ UNCHANGED shell
           \/ shell' = [shell EXCEPT !.front =
                           [script |-> "swap", of |-> None, half |-> FALSE, step |-> "swapoff"]]
    BY <1>3 DEF CheckRemote, Run, Goto, End
  <2>2. [script |-> "swap", of |-> None, half |-> FALSE, step |-> "swapoff"] \in Shells
    BY DEF Shells, ShellSteps, SwapSteps
  <2>3. shell' \in [Sides -> Shells]
    BY <2>1, <2>2, NewFront
  <2> QED
    BY <2>1, <2>3 DEF Places, Sides
<1>4. CASE SwapPrepared \/ PrepareReturns \/ ImagesReturn
  <2>1. /\ shell' = [shell EXCEPT !.front = NoShell] /\ pc' \in {"recheck", "images", "idle"}
        /\ outcome' \in {outcome, "failed", "done"} /\ pc \in {"swap", "preparing", "importing"}
        /\ UNCHANGED <<world, bundleFile, target, history, budget, command, manifest>>
        /\ pc' = "images" => pc = "preparing"
    <3>1. CASE SwapPrepared
      BY <3>1 DEF SwapPrepared, Returns, Goto, End
    <3>2. CASE PrepareReturns
      BY <3>2 DEF PrepareReturns, Returns, Goto, End
    <3>3. CASE ImagesReturn
      BY <3>3 DEF ImagesReturn, End
    <3> QED
      BY <1>4, <3>1, <3>2, <3>3
  <2>2. shell' \in [Sides -> Shells]
    BY <2>1 DEF NoShell, Shells, ShellSteps
  <2> QED
    BY <2>1, <2>2 DEF Places, Sides
<1>5. CASE ReportCheck
  BY <1>5 DEF ReportCheck, End, Places
<1>6. CASE ExtractAndUpload
  <2>1. CASE Valid[bundleFile]
    <3>1. staged' = [some |-> staged.some \cup {bundleFile},
                     all |-> IF staged.all = bundleFile THEN bundleFile ELSE None]
      BY <1>6, <2>1 DEF ExtractAndUpload
    <3> QED
      BY <1>6, <2>1, <3>1 DEF ExtractAndUpload, Places
  <2>2. CASE ~Valid[bundleFile]
    BY <1>6, <2>2 DEF ExtractAndUpload, End, Places
  <2> QED
    BY <2>1, <2>2
<1>7. CASE PushReturns
  <2>1. command \in Commands \ {"check"}
    BY <1>7 DEF PushReturns, BInv, Route
  <2>2. command # "push" => AfterPush \in {"prepare", "images", "profile"}
    BY <2>1 DEF AfterPush, Commands
  <2>3. /\ UNCHANGED <<world, bundleFile, swap, installed, service, images, shell, history, budget,
                       command, manifest>>
        /\ staged' = [staged EXCEPT !.all = manifest]
        /\ pc' \in {"idle", "prepare", "images", "profile"} /\ outcome' \in {outcome, "done"}
    BY <1>7, <2>2 DEF PushReturns, End, Goto
  <2>4. manifest \in staged.some
    BY <1>7 DEF PushReturns, BInv, Uploaded
  <2>5. staged' \in [some : SUBSET Bundles, all : Bundles \cup {None}]
        /\ staged'.all \in staged'.some \cup {None}
    BY <2>3, <2>4
  <2> QED
    BY <1>7, <2>3, <2>5 DEF PushReturns, Places
<1>8. CASE CheckProfile \/ PrepareNode \/ ImportImages
  <2>1. /\ UNCHANGED <<world, bundleFile, target, history, budget, command, manifest>>
        /\ pc \in {"profile", "prepare", "images"}
        /\ pc' \in {"prepare", "preparing", "importing", "idle"}
        /\ outcome' \in {outcome, "unfit"}
        /\ \/ UNCHANGED shell
           \/ shell' = [shell EXCEPT !.front =
                  [script |-> "prepare", of |-> manifest, half |-> FALSE, step |-> "swapoff"]]
           \/ shell' = [shell EXCEPT !.front =
                  [script |-> "images", of |-> manifest, half |-> FALSE, step |-> "images"]]
    BY <1>8 DEF CheckProfile, PrepareNode, ImportImages, Demand, Run, Goto, End
  <2>2. shell' \in [Sides -> Shells]
    BY <2>1, NewShells, NewFront
  <2> QED
    BY <2>1, <2>2 DEF Places, Sides
<1>9. ASSUME NEW s \in Sides, ShellStep(s) PROVE TypeOK'
  <2>1. UNCHANGED <<world, bundleFile, process, budget>>
    BY <1>9 DEF ShellStep
  <2>3. shell' \in [Sides -> Shells]
    BY <1>9, StepsTo, MoveMeans
  <2>4. CASE BackUp(s) \/ VerifySwap(s) \/ \E unit \in Services : NotActive(s, unit)
    BY <2>1, <2>3, <2>4 DEF BackUp, VerifySwap, NotActive, Sides
  <2>5. CASE SwapOff(s) \/ OpenCopy(s) \/ CopyEnds(s) \/ EditFstab(s)
    <3>1. swap' \in [on : BOOLEAN, fstab : {"original", "commented"},
                     copy : Copies \cup {None}]
      <4>1. CASE SwapOff(s)
        BY <4>1 DEF SwapOff
      <4>2. CASE OpenCopy(s)
        <5>1. [of |-> swap.fstab, whole |-> FALSE] \in [of : {"original", "commented"},
                                                        whole : BOOLEAN]
          OBVIOUS
        <5> QED
          BY <4>2, <5>1 DEF OpenCopy
      <4>3. CASE EditFstab(s)
        BY <4>3 DEF EditFstab
      <4>4. CASE CopyEnds(s)
        <5>1. CASE swap.copy = None
          BY <4>4, <5>1 DEF CopyEnds
        <5>2. CASE swap.copy # None
          <6> DEFINE whole == ~At(Other(s), "copying")
          <6>1. [swap.copy EXCEPT !.whole = whole] \in
                   [of : {"original", "commented"}, whole : BOOLEAN]
            <7>1. swap.copy \in [of : {"original", "commented"}, whole : BOOLEAN]
              BY <5>2
            <7>2. whole \in BOOLEAN
              OBVIOUS
            <7> HIDE DEF whole
            <7> QED
              BY <7>1, <7>2
          <6>2. swap' = [swap EXCEPT !.copy = [swap.copy EXCEPT !.whole = whole]]
            BY <4>4, <5>2 DEF CopyEnds
          <6> HIDE DEF whole
          <6> QED
            BY <6>1, <6>2
        <5> QED
          BY <5>1, <5>2
      <4> QED
        BY <2>5, <4>1, <4>2, <4>3, <4>4
    <3>2. UNCHANGED <<staged, installed, service, images, given, raced, spoiled, cut>>
          /\ recopied' \in BOOLEAN
      BY <2>5 DEF SwapOff, OpenCopy, CopyEnds, EditFstab, OnlySwapMoves
    <3> QED
      BY <2>1, <2>3, <3>1, <3>2 DEF Sides
  <2>6. ASSUME NEW part \in Parts, BeginPart(s, part) PROVE TypeOK'
    <3>1. installed' \in [Parts -> Bundles \cup {None, Torn}] /\ spoiled' \subseteq spoiled
          /\ UNCHANGED <<swap, staged, service, images, given, raced, cut, recopied>>
      BY <2>6 DEF BeginPart, Begin
    <3> QED
      BY <2>1, <2>3, <3>1 DEF Sides
  <2>7. ASSUME NEW part \in Parts, EndPart(s, part) PROVE TypeOK'
    <3>1. FoundFor(s) \subseteq Bundles
      BY <2>7, Found, ScriptOf DEF EndPart, Halfway
    <3>2. PICK b \in Bundles :
             /\ installed' = [installed EXCEPT ![part] =
                                 IF Halfway(Other(s), part) THEN Torn ELSE b]
             /\ spoiled' \subseteq spoiled \cup {part}
      BY <2>7, <3>1 DEF EndPart
    <3>3. installed' \in [Parts -> Bundles \cup {None, Torn}]
      BY <3>2
    <3>4. UNCHANGED <<swap, staged, service, images, given, raced, cut, recopied>>
      BY <2>7 DEF EndPart
    <3> QED
      BY <2>1, <2>3, <3>2, <3>3, <3>4 DEF Sides
  <2>8. ASSUME NEW unit \in Services, BeginRestart(s, unit) \/ EndRestart(s, unit) PROVE TypeOK'
    <3>1. service' \in [Services -> {"absent", "stopped", "running"}] /\ spoiled' \subseteq spoiled
          /\ UNCHANGED <<swap, staged, installed, images, given, raced, cut, recopied>>
      BY <2>8 DEF BeginRestart, EndRestart, Begin
    <3> QED
      BY <2>1, <2>3, <3>1 DEF Sides
  <2>9. CASE Import(s)
    <3>1. FoundFor(s) \subseteq Bundles
      BY <2>9, Found, ScriptOf DEF Import
    <3> QED
      BY <2>1, <2>3, <2>9, <3>1 DEF Import, Sides
  <2> QED
    BY <1>9, <2>4, <2>5, <2>6, <2>7, <2>8, <2>9 DEF ShellStep
<1>10. ASSUME NEW s \in Sides, CommandFails(s) PROVE TypeOK'
  <2>1. shell' \in [Sides -> Shells]
    BY <1>10, MoveMeans DEF CommandFails, Step, Moves, ShellSteps
  <2>2. budget' \in [Limits -> Nat]
    BY <1>10 DEF CommandFails, Spend, Limits
  <2>3. spoiled' \subseteq Parts \cup Services
    BY <1>10 DEF CommandFails, BInv, ScriptSteps, At, Active
  <2> QED
    BY <1>10, <2>1, <2>2, <2>3 DEF CommandFails, Sides
<1>11. ASSUME NEW s \in Sides, CopyFails(s) PROVE TypeOK'
  <2>1. shell' \in [Sides -> Shells]
    <3>1. PICK step \in {"failed", "fstab"} : Moves(s, step, FALSE)
      BY <1>11 DEF CopyFails, Step, Moves
    <3>2. step \in ShellSteps
      BY DEF ShellSteps, SwapSteps
    <3> QED
      BY <3>1, <3>2, MoveMeans
  <2>2. budget' \in [Limits -> Nat]
    BY <1>11 DEF CopyFails, Spend, Limits
  <2> QED
    BY <1>11, <2>1, <2>2 DEF CopyFails, Sides
<1>12. CASE Break
  <2>1. shell' \in [Sides -> Shells] /\ budget' \in [Limits -> Nat]
    BY <1>12, IdleShell DEF Break, Spend, Limits, Sides
  <2> QED
    BY <1>12, <2>1 DEF Break, End, Places, Sides
<1>13. CASE Reboot
  <2>1. shell' \in [Sides -> Shells] /\ budget' \in [Limits -> Nat]
    BY <1>13, IdleShell DEF Reboot, Spend, Limits, Sides
  <2>2. cut' \in BOOLEAN /\ \E on \in BOOLEAN : swap' = [swap EXCEPT !.on = on]
    BY <1>13 DEF Reboot
  <2>3. swap' \in [on : BOOLEAN, fstab : {"original", "commented"},
                   copy : Copies \cup {None}]
    BY <2>2
  <2>4. /\ UNCHANGED <<world, bundleFile, staged, installed, images, given, raced, recopied,
                       command, manifest>>
        /\ pc' \in {pc, "idle"} /\ outcome' \in {outcome, "failed"}
    BY <1>13 DEF Reboot, End
  <2>5. service' \in [Services -> {"absent", "stopped", "running"}]
        /\ spoiled' \subseteq Parts \cup Services
    BY <1>13 DEF Reboot
  <2> QED
    BY <2>1, <2>2, <2>3, <2>4, <2>5 DEF Places, Sides
<1>14. ASSUME NEW b \in Bundles, ReplaceBundle(b) PROVE TypeOK'
  BY <1>14 DEF ReplaceBundle, Spend, Limits
<1>15. CASE UNCHANGED vars
  BY <1>15 DEF vars
<1> QED
  BY <1>1, <1>2, <1>3, <1>4, <1>5, <1>6, <1>7, <1>8, <1>9, <1>10, <1>11, <1>12, <1>13, <1>14,
     <1>15 DEF Next, Advance, Sides

(* the shells at steps of their scripts, and the process beside its shell,   *)
LEMMA ShellsInductive == ASSUME BInv, [Next]_vars PROVE ScriptSteps' /\ FrontShell'
<1>t. TypeOK /\ ScriptSteps /\ FrontShell /\ shell \in [Sides -> Shells]
  BY DEF BInv, TypeOK, Sides
<1> USE <1>t DEF ScriptSteps, FrontShell, Sides
<1>1. ASSUME NEW c \in Commands, Start(c) PROVE ScriptSteps' /\ FrontShell'
  BY <1>1 DEF Start
<1>2. CASE LoadConfig \/ LocalPreflight \/ Recheck \/ CheckBundle \/ CheckPorts \/ ReportCheck
           \/ ExtractAndUpload
  <2>1. UNCHANGED shell /\ pc \notin {"swap", "preparing", "importing"}
        /\ pc' \notin {"swap", "preparing", "importing"}
    BY <1>2 DEF LoadConfig, LocalPreflight, Recheck, CheckBundle, CheckPorts, ReportCheck,
       ExtractAndUpload, Gate, Goto, End
  <2> QED
    BY <2>1
<1>3. CASE PushReturns
  <2>1. UNCHANGED shell /\ pc = "pushing" /\ pc' \notin {"swap", "preparing", "importing"}
    BY <1>3 DEF PushReturns, Goto, End, AfterPush, BInv, Route, Commands
  <2> QED
    BY <2>1
<1>4. CASE CheckRemote
  <2>1. CASE InstallMode /\ OnlySwapFails
    <3>1. pc' = "swap" /\ shell' = [shell EXCEPT !.front =
                                      [script |-> "swap", of |-> None, half |-> FALSE, step |-> "swapoff"]]
      BY <1>4, <2>1 DEF CheckRemote, Goto, Run
    <3> QED
      BY <3>1 DEF SwapSteps
  <2>2. CASE ~(InstallMode /\ OnlySwapFails)
    BY <1>4, <2>2 DEF CheckRemote, Goto, End
  <2> QED
    BY <2>1, <2>2
<1>5. CASE SwapPrepared \/ PrepareReturns \/ ImagesReturn
  <2>1. /\ shell' = [shell EXCEPT !.front = NoShell]
        /\ pc' \notin {"swap", "preparing", "importing"}
    <3>1. CASE SwapPrepared
      BY <3>1 DEF SwapPrepared, Returns, Goto, End
    <3>2. CASE PrepareReturns
      BY <3>2 DEF PrepareReturns, Returns, Goto, End
    <3>3. CASE ImagesReturn
      BY <3>3 DEF ImagesReturn, End
    <3> QED
      BY <1>5, <3>1, <3>2, <3>3
  <2> QED
    BY <2>1 DEF NoShell
<1>6. CASE CheckProfile
  BY <1>6 DEF CheckProfile, Demand, Goto, End
<1>7. CASE PrepareNode
  <2>1. CASE Preparable[manifest] /\ PrepareAcceptsMirrors(config)
    <3>1. /\ pc' = "preparing" /\ manifest' = manifest /\ manifest \in Bundles
          /\ shell' = [shell EXCEPT !.front =
                         [script |-> "prepare", of |-> manifest, half |-> FALSE, step |-> "swapoff"]]
      BY <1>7, <2>1 DEF PrepareNode, Demand, Goto, Run, TypeOK
    <3> QED
      BY <3>1
  <2>2. CASE ~(Preparable[manifest] /\ PrepareAcceptsMirrors(config))
    BY <1>7, <2>2 DEF PrepareNode, Demand, End
  <2> QED
    BY <2>1, <2>2
<1>8. CASE ImportImages
  <2>1. CASE Importable[manifest][command = "images" /\ config.registry.enabled]
    <3>1. /\ pc' = "importing" /\ manifest' = manifest /\ manifest \in Bundles
          /\ shell' = [shell EXCEPT !.front =
                         [script |-> "images", of |-> manifest, half |-> FALSE, step |-> "images"]]
      BY <1>8, <2>1 DEF ImportImages, Demand, Goto, Run, TypeOK
    <3> QED
      BY <3>1
  <2>2. CASE ~Importable[manifest][command = "images" /\ config.registry.enabled]
    BY <1>8, <2>2 DEF ImportImages, Demand, End
  <2> QED
    BY <2>1, <2>2
<1>9. ASSUME NEW s \in Sides, ShellStep(s) PROVE ScriptSteps' /\ FrontShell'
  <2>1. UNCHANGED <<pc, manifest>>
    BY <1>9 DEF ShellStep, process
  <2>2. PICK step \in ShellSteps, half \in BOOLEAN :
           Moves(s, step, half) /\ LineMove(s, step, half) /\ shell[s].script # "none"
    BY <1>9, StepsTo
  <2>3. /\ shell'[s].step = step /\ shell'[s].half = half
        /\ shell'[s].script = shell[s].script /\ shell'[s].of = shell[s].of
        /\ \A r \in Sides \ {s} : shell'[r] = shell[r]
    BY <2>2, MoveMeans
  <2>4. /\ shell[s].script = "swap" => step \in SwapSteps \cup {"ok", "failed"}
        /\ shell[s].script = "prepare" => step # "images"
        /\ shell[s].script = "images" => step \in {"ok", "failed"}
        /\ step = "copy" => half
        /\ half => step \in {"copy"} \cup Parts \cup Services
    <3>1. shell[s] \in Shells /\ shell[s].script \in {"swap", "prepare", "images"}
      BY <2>2 DEF Shells
    <3>2. CASE shell[s].step \in Parts \cup Services
      <4>1. shell[s].script = "prepare"
        BY <3>1, <3>2 DEF Parts, Services, SwapSteps
      <4>2. /\ step \in Parts \cup Services \cup {"ok", "failed"}
            /\ half => step \in Parts \cup Services
        BY <2>2, <3>2, NextLines DEF LineMove, Parts, Services
      <4> QED
        BY <4>1, <4>2 DEF Parts, Services
    <3>3. CASE shell[s].step \notin Parts \cup Services
      BY <2>2, <3>1, <3>3 DEF LineMove, SwapSteps, Parts
    <3> QED
      BY <3>2, <3>3
  <2>5. pc \in {"swap", "preparing", "importing"} \/ s # "front"
    BY <2>2 DEF NoShell
  <2> QED
    BY <2>1, <2>2, <2>3, <2>4, <2>5
<1>10. ASSUME NEW s \in Sides, CommandFails(s) \/ CopyFails(s) PROVE ScriptSteps' /\ FrontShell'
  <2>1. /\ UNCHANGED <<pc, manifest>> /\ shell[s].script # "none"
        /\ \/ Moves(s, "failed", FALSE)
           \/ Moves(s, "fstab", FALSE) /\ shell[s].script = "prepare"
    BY <1>10, ScriptOf DEF CommandFails, CopyFails, Step, Moves, process, Active, At, SwapSteps
  <2>2. PICK step \in {"failed", "fstab"} : /\ Moves(s, step, FALSE)
                                            /\ step = "fstab" => shell[s].script = "prepare"
    BY <2>1
  <2>3. /\ shell'[s].step = step /\ shell'[s].half = FALSE
        /\ shell'[s].script = shell[s].script /\ shell'[s].of = shell[s].of
        /\ \A r \in Sides \ {s} : shell'[r] = shell[r]
    <3> HIDE DEF ScriptSteps, FrontShell, Sides
    <3>1. \A to, half : Moves(s, to, half) =>
             /\ shell'[s].step = to /\ shell'[s].half = half
             /\ shell'[s].script = shell[s].script /\ shell'[s].of = shell[s].of
             /\ \A r \in Sides \ {s} : shell'[r] = shell[r]
      BY <1>t, MoveMeans DEF Sides
    <3> QED
      BY <2>2, <3>1
  <2>4. pc \in {"swap", "preparing", "importing"} \/ s # "front"
    BY <2>1 DEF NoShell
  <2> QED
    BY <2>1, <2>2, <2>3, <2>4
<1>11. CASE Break
  BY <1>11 DEF Break, End, NoShell
<1>12. CASE Reboot
  <2>1. /\ shell' = [front |-> NoShell, left |-> NoShell]
        /\ pc' \notin {"swap", "preparing", "importing"}
    BY <1>12 DEF Reboot, End, Connected, process
  <2> QED
    BY <2>1 DEF NoShell
<1>13. ASSUME NEW b \in Bundles, ReplaceBundle(b) PROVE ScriptSteps' /\ FrontShell'
  BY <1>13 DEF ReplaceBundle, process
<1>14. CASE UNCHANGED vars
  BY <1>14 DEF vars, process
<1> QED
  BY <1>1, <1>2, <1>3, <1>4, <1>5, <1>6, <1>7, <1>8, <1>9, <1>10, <1>11, <1>12, <1>13, <1>14
     DEF Next, Advance

(* the places to their commands, and what is staged,                         *)
LEMMA RouteInductive == ASSUME BInv, [Next]_vars PROVE Route' /\ Uploaded'
<1>t. TypeOK /\ Route /\ Uploaded
  BY DEF BInv
<1> USE <1>t DEF Route, Uploaded, InstallMode
<1>1. ASSUME NEW c \in Commands, Start(c) PROVE Route' /\ Uploaded'
  BY <1>1 DEF Start
<1>2. CASE LoadConfig \/ LocalPreflight \/ Recheck \/ CheckBundle \/ CheckPorts
  BY <1>2 DEF LoadConfig, LocalPreflight, Recheck, CheckBundle, CheckPorts, Gate, Goto, End
<1>3. CASE CheckRemote \/ ReportCheck
  BY <1>3 DEF CheckRemote, ReportCheck, Goto, End
<1>4. CASE SwapPrepared
  BY <1>4 DEF SwapPrepared, Returns, Goto, End
<1>5. CASE PrepareReturns \/ ImagesReturn
  <2>1. /\ pc' = "idle" \/ (pc' = "images" /\ command' = "add" /\ pc = "preparing")
        /\ UNCHANGED <<staged, manifest>>
    BY <1>5 DEF PrepareReturns, ImagesReturn, Returns, Goto, End, target
  <2> QED
    BY <2>1 DEF Commands
<1>6. CASE ExtractAndUpload
  <2>1. CASE Valid[bundleFile]
    <3>1. staged' = [some |-> staged.some \cup {bundleFile},
                     all |-> IF staged.all = bundleFile THEN bundleFile ELSE None]
      BY <1>6, <2>1 DEF ExtractAndUpload
    <3> QED
      BY <1>6, <2>1, <3>1 DEF ExtractAndUpload
  <2>2. CASE ~Valid[bundleFile]
    BY <1>6, <2>2 DEF ExtractAndUpload, End
  <2> QED
    BY <2>1, <2>2
<1>7. CASE PushReturns
  <2>2. command \in Commands \ {"check"} /\ pc = "pushing"
    BY <1>7 DEF PushReturns
  <2>3. \/ pc' = "idle"
        \/ pc' = "prepare" /\ command = "prepare"
        \/ pc' = "images" /\ command = "images"
        \/ pc' = "profile" /\ command = "add"
    BY <1>7, <2>2 DEF PushReturns, Goto, End, AfterPush, Commands
  <2>4. command' = command /\ manifest' = manifest /\ staged'.some = staged.some
    BY <1>7 DEF PushReturns, Goto, End, TypeOK
  <2> QED
    BY <2>2, <2>3, <2>4
<1>8. CASE CheckProfile \/ PrepareNode \/ ImportImages
  BY <1>8 DEF CheckProfile, PrepareNode, ImportImages, Demand, Goto, End, target
<1>9. ASSUME NEW s \in Sides, ShellStep(s) \/ CommandFails(s) \/ CopyFails(s)
      PROVE  Route' /\ Uploaded'
  <2>1. UNCHANGED <<process, staged>>
    BY <1>9 DEF ShellStep, CommandFails, CopyFails, SwapOff, BackUp, OpenCopy, CopyEnds, EditFstab,
       VerifySwap, Import, BeginPart, EndPart, BeginRestart, NotActive, EndRestart, OnlySwapMoves,
       target
  <2> QED
    BY <2>1 DEF process
<1>10. CASE Break
  BY <1>10 DEF Break, End
<1>11. CASE Reboot
  BY <1>11 DEF Reboot, End, process
<1>12. ASSUME NEW b \in Bundles, ReplaceBundle(b) PROVE Route' /\ Uploaded'
  BY <1>12 DEF ReplaceBundle, process, target
<1>13. CASE UNCHANGED vars
  BY <1>13 DEF vars, process, target
<1> QED
  BY <1>1, <1>2, <1>3, <1>4, <1>5, <1>6, <1>7, <1>8, <1>9, <1>10, <1>11, <1>12, <1>13
     DEF Next, Advance, Sides

(* A step that has nothing to do with /etc/fstab and its copy.               *)
CopySteps == {"copy", "copying", "fstab"}

Quiet ==
    /\ swap'.fstab = swap.fstab /\ swap'.copy = swap.copy
    /\ cut' = cut /\ recopied' = recopied
    /\ \A s \in Sides : (At(s, "copying")' <=> At(s, "copying"))
                        /\ (At(s, "fstab")' => At(s, "fstab"))

LEMMA OtherStepsQuiet ==
    ASSUME BInv, [Next]_vars
    PROVE  \/ Quiet \/ Break \/ Reboot
           \/ \E s \in Sides :
                 BackUp(s) \/ OpenCopy(s) \/ CopyEnds(s) \/ EditFstab(s) \/ CopyFails(s)
<1>t. TypeOK /\ FrontShell /\ shell \in [Sides -> Shells]
  BY DEF BInv, TypeOK, Sides
<1>a. UNCHANGED <<swap, cut, recopied, shell>> => Quiet
  BY DEF Quiet, At
<1>b. ASSUME UNCHANGED <<swap, cut, recopied>>, NEW to \in Shells,
             shell' = [shell EXCEPT !.front = to],
             to.step \notin CopySteps, ~At("front", "copying")
      PROVE  Quiet
  BY <1>t, <1>b, NewFront DEF Quiet, At, Sides, CopySteps
<1>c. ASSUME swap'.fstab = swap.fstab, swap'.copy = swap.copy, cut' = cut, recopied' = recopied,
             NEW s \in Sides, NEW step, NEW half, Moves(s, step, half),
             step \notin CopySteps, ~At(s, "copying")
      PROVE  Quiet
  <2>1. shell'[s].script = shell[s].script /\ shell'[s].step = step
        /\ \A r \in Sides \ {s} : shell'[r] = shell[r]
    BY <1>t, <1>c, MoveMeans
  <2> QED
    BY <1>c, <2>1 DEF Quiet, At, CopySteps
<1>1. ASSUME NEW c \in Commands, Start(c) PROVE Quiet
  BY <1>1, <1>a DEF Start, target, history
<1>2. CASE LoadConfig \/ LocalPreflight \/ Recheck \/ CheckBundle \/ CheckPorts \/ ReportCheck
           \/ ExtractAndUpload \/ PushReturns \/ CheckProfile
  BY <1>2, <1>a DEF LoadConfig, LocalPreflight, Recheck, CheckBundle, CheckPorts, ReportCheck,
     ExtractAndUpload, PushReturns, CheckProfile, Demand, Gate, target, history
<1>3. CASE CheckRemote \/ PrepareNode \/ ImportImages
  <2>1. UNCHANGED <<swap, cut, recopied>> /\ shell["front"] = NoShell
    BY <1>3, <1>t DEF CheckRemote, PrepareNode, ImportImages, Demand, target, history, FrontShell
  <2>2. \/ UNCHANGED shell
        \/ \E to \in Shells : /\ shell' = [shell EXCEPT !.front = to]
                              /\ to.step \in {"images", "swapoff"}
    <3>1. CASE CheckRemote
      BY <3>1, NewShells DEF CheckRemote, Run
    <3>2. CASE PrepareNode
      <4>1. manifest \in Bundles
        BY <3>2, <1>t DEF PrepareNode, Demand, TypeOK
      <4>2. \/ UNCHANGED shell
            \/ shell' = [shell EXCEPT !.front =
                  [script |-> "prepare", of |-> manifest, half |-> FALSE, step |-> "swapoff"]]
        BY <3>2 DEF PrepareNode, Demand, Run
      <4> QED
        BY <4>1, <4>2, NewShells
    <3>3. CASE ImportImages
      <4>1. manifest \in Bundles
        BY <3>3, <1>t DEF ImportImages, Demand, TypeOK
      <4>2. \/ UNCHANGED shell
            \/ shell' = [shell EXCEPT !.front =
                  [script |-> "images", of |-> manifest, half |-> FALSE, step |-> "images"]]
        BY <3>3 DEF ImportImages, Demand, Run
      <4> QED
        BY <4>1, <4>2, NewShells
    <3> QED
      BY <1>3, <3>1, <3>2, <3>3
  <2>3. ~At("front", "copying")
    BY <2>1 DEF At, NoShell
  <2>4. {"images", "swapoff"} \cap CopySteps = {}
    BY DEF CopySteps
  <2> QED
    BY <1>a, <1>b, <2>1, <2>2, <2>3, <2>4
<1>4. CASE SwapPrepared \/ PrepareReturns \/ ImagesReturn
  <2>1. /\ UNCHANGED <<swap, cut, recopied>> /\ shell' = [shell EXCEPT !.front = NoShell]
        /\ ShellEnded
    BY <1>4 DEF SwapPrepared, PrepareReturns, ImagesReturn, Returns, target, history
  <2>2. ~At("front", "copying") /\ NoShell \in Shells /\ NoShell.step \notin CopySteps
    BY <2>1, IdleShell DEF ShellEnded, At, CopySteps
  <2> QED
    BY <1>b, <2>1, <2>2
<1>5. ASSUME NEW s \in Sides, ShellStep(s),
             ~(BackUp(s) \/ OpenCopy(s) \/ CopyEnds(s) \/ EditFstab(s))
      PROVE  Quiet
  <2>1. PICK step \in ShellSteps, half \in BOOLEAN :
           Moves(s, step, half) /\ LineMove(s, step, half)
    BY <1>5, <1>t, StepsTo
  <2>2. /\ swap'.fstab = swap.fstab /\ swap'.copy = swap.copy
        /\ cut' = cut /\ recopied' = recopied
        /\ shell[s].step \notin {"backup", "copy", "copying", "fstab"}
    <3>1. CASE SwapOff(s)
      BY <3>1, <1>t DEF SwapOff, TypeOK, OnlySwapMoves, At
    <3>2. CASE VerifySwap(s) \/ Import(s)
      BY <3>2 DEF VerifySwap, Import, At, target, history
    <3>3. ASSUME NEW x \in Parts,
                 BeginPart(s, x) \/ EndPart(s, x)
          PROVE  UNCHANGED <<swap, cut, recopied>> /\ shell[s].step \in Parts
      BY <3>3 DEF BeginPart, EndPart, Begin, Halfway, At
    <3>4. ASSUME NEW x \in Services,
                 BeginRestart(s, x) \/ NotActive(s, x) \/ EndRestart(s, x)
          PROVE  UNCHANGED <<swap, cut, recopied>> /\ shell[s].step \in Services
      BY <3>4 DEF BeginRestart, NotActive, EndRestart, Begin, Halfway, At, target, history
    <3> QED
      BY <1>5, <3>1, <3>2, <3>3, <3>4 DEF ShellStep, Parts, Services
  <2>3. step \notin CopySteps
    BY <2>1, <2>2, NextLines DEF LineMove, CopySteps, Parts, Services
  <2> QED
    BY <1>c, <2>1, <2>2, <2>3 DEF At
<1>6. ASSUME NEW s \in Sides, CommandFails(s) PROVE Quiet
  <2>1. /\ UNCHANGED <<swap, cut, recopied>> /\ ~At(s, "copying")
        /\ Moves(s, "failed", FALSE)
    BY <1>6 DEF CommandFails, Step, Moves, target, history
  <2> QED
    BY <1>c, <2>1 DEF CopySteps
<1>7. ASSUME NEW b \in Bundles, ReplaceBundle(b) PROVE Quiet
  BY <1>7, <1>a DEF ReplaceBundle, target
<1>8. CASE UNCHANGED vars
  BY <1>8, <1>a DEF vars, target, history
<1> QED
  BY <1>1, <1>2, <1>3, <1>4, <1>5, <1>6, <1>7, <1>8 DEF Next, Advance, Sides

(* Until a copy is cut short or overwritten, the copy that is there is of the *)
(* original, and whole but for the shells that are at it; and it is there     *)
(* before /etc/fstab is touched.                                             *)
CopyThere == /\ swap.copy.of = "original"
             /\ (swap.copy.whole \/ \E s \in Sides : At(s, "copying"))

Kept ==
    ~cut /\ ~recopied =>
        /\ swap.copy # None => CopyThere
        /\ swap.fstab = "commented" => swap.copy # None
        /\ \A s \in Sides : At(s, "fstab") \/ At(s, "copying") => swap.copy # None

LEMMA CopyInductive ==
    ASSUME BInv, [Next]_vars, Kept PROVE Kept'
<1>t. TypeOK /\ ScriptSteps /\ shell \in [Sides -> Shells]
  BY DEF BInv, TypeOK, Sides
<1>s. /\ swap \in [on : BOOLEAN, fstab : {"original", "commented"},
                   copy : Copies \cup {None}]
      /\ None \notin Copies
  BY <1>t, BundlesAssumption DEF TypeOK
<1>1. CASE Quiet
  BY <1>1 DEF Quiet, Kept, CopyThere
<1>2. CASE Break
  <2>1. /\ UNCHANGED <<swap, cut, recopied>> /\ \A step : ~At("front", step)'
        /\ \A step : At("left", step)' <=> At("front", step)
        /\ \A step \in CopySteps : ~At("left", step)
    BY <1>2 DEF Break, target, history, At, NoShell, Active, CopySteps
  <2> QED
    BY <2>1 DEF Kept, CopyThere, Sides, CopySteps
<1>3. CASE Reboot
  <2>1. /\ swap'.fstab = swap.fstab /\ swap'.copy = swap.copy /\ recopied' = recopied
        /\ cut' = (cut \/ At("front", "copying") \/ At("left", "copying"))
        /\ \A s \in Sides, step \in CopySteps : ~At(s, step)'
    BY <1>3, <1>s DEF Reboot, At, NoShell, Sides, CopySteps
  <2> QED
    BY <2>1 DEF Kept, CopyThere, Sides, CopySteps
<1>4. ASSUME NEW s \in Sides,
             BackUp(s) \/ OpenCopy(s) \/ CopyEnds(s) \/ EditFstab(s) \/ CopyFails(s)
      PROVE  Kept'
  <2>0. shell[s].script # "none"
    BY <1>4 DEF BackUp, OpenCopy, CopyEnds, EditFstab, CopyFails, At
  <2>1. ASSUME NEW to, NEW half, Moves(s, to, half)
        PROVE  /\ \A step : At(s, step)' <=> step = to
               /\ \A r \in Sides \ {s} : \A step : At(r, step)' <=> At(r, step)
    BY <2>0, <2>1, <1>t, MoveMeans DEF At
  <2>2. CASE BackUp(s)
    <3>1. UNCHANGED <<swap, cut, recopied>> /\ At(s, "backup")
      BY <2>2 DEF BackUp, target, history
    <3>2. \E half : Moves(s, IF swap.copy = None THEN "copy" ELSE "fstab", half)
      BY <2>2 DEF BackUp, NeedsCopy, Moves
    <3>3. /\ \A step : At(s, step)' <=> step = IF swap.copy = None THEN "copy" ELSE "fstab"
          /\ \A r \in Sides \ {s} : \A step : At(r, step)' <=> At(r, step)
      BY <3>2, <2>1
    <3>4. \A r \in Sides : At(r, "copying")' <=> At(r, "copying")
      BY <3>1, <3>3 DEF At
    <3> QED
      BY <3>1, <3>3, <3>4 DEF Kept, CopyThere
  <2>3. CASE OpenCopy(s)
    <3>1. /\ swap' = [swap EXCEPT !.copy = [of |-> swap.fstab, whole |-> FALSE]]
          /\ Moves(s, "copying", FALSE) /\ cut' = cut /\ shell[s].half
          /\ recopied' = (recopied \/ (swap.copy # None /\ swap.fstab = "commented"))
      BY <2>3, <1>t DEF OpenCopy, Step, Moves, ScriptSteps, At
    <3>2. /\ swap'.fstab = swap.fstab /\ swap'.copy = [of |-> swap.fstab, whole |-> FALSE]
          /\ swap'.copy # None
      <4>1. [of |-> swap.fstab, whole |-> FALSE] \in Copies
        BY <1>s DEF Copies
      <4> QED
        BY <3>1, <4>1, <1>s
    <3>3. At(s, "copying")'
      BY <3>1, <2>1
    <3>4. ~cut' /\ ~recopied' => swap.fstab = "original"
      BY <3>1, <1>s DEF Kept
    <3> QED
      BY <3>2, <3>3, <3>4 DEF Kept, CopyThere
  <2>4. CASE CopyEnds(s)
    <3>1. Moves(s, "fstab", FALSE) /\ cut' = cut /\ recopied' = recopied /\ At(s, "copying")
      BY <2>4 DEF CopyEnds, Step, Moves
    <3>2. /\ \A step : At(s, step)' <=> step = "fstab"
          /\ \A r \in Sides \ {s} : \A step : At(r, step)' <=> At(r, step)
      BY <3>1, <2>1
    <3>3. ~cut /\ ~recopied => swap.copy # None
      BY <3>1 DEF Kept
    <3>4. ASSUME swap.copy # None
          PROVE  /\ swap'.fstab = swap.fstab /\ swap'.copy # None
                 /\ swap'.copy.of = swap.copy.of
                 /\ swap'.copy.whole <=> ~At(Other(s), "copying")
      <4> DEFINE whole == ~At(Other(s), "copying")
      <4>1. swap.copy \in Copies /\ whole \in BOOLEAN
        BY <3>4, <1>s
      <4>2. swap' = [swap EXCEPT !.copy = [swap.copy EXCEPT !.whole = whole]]
        BY <2>4, <3>4 DEF CopyEnds
      <4> HIDE DEF whole
      <4>3. /\ [swap.copy EXCEPT !.whole = whole] \in Copies
            /\ [swap.copy EXCEPT !.whole = whole].of = swap.copy.of
            /\ [swap.copy EXCEPT !.whole = whole].whole = whole
        BY <4>1 DEF Copies
      <4>4. /\ swap'.fstab = swap.fstab
            /\ swap'.copy = [swap.copy EXCEPT !.whole = whole]
        BY <4>2, <1>s
      <4>5. whole <=> ~At(Other(s), "copying")
        BY DEF whole
      <4> QED
        BY <1>s, <4>3, <4>4, <4>5
    <3>5. At(Other(s), "copying") => \E r \in Sides : At(r, "copying")'
      <4>1. Other(s) \in Sides \ {s}
        BY DEF Other, Sides
      <4> QED
        BY <3>2, <4>1
    <3> QED
      BY <3>1, <3>3, <3>4, <3>5 DEF Kept, CopyThere
  <2>5. CASE EditFstab(s)
    <3>1. Moves(s, "verify", FALSE) /\ cut' = cut /\ recopied' = recopied
          /\ At(s, "fstab") /\ swap'.copy = swap.copy
      BY <2>5, <1>s DEF EditFstab, Step, Moves
    <3>2. /\ \A step : At(s, step)' <=> step = "verify"
          /\ \A r \in Sides \ {s} : \A step : At(r, step)' <=> At(r, step)
      BY <3>1, <2>1
    <3>3. \A r \in Sides : At(r, "copying")' <=> At(r, "copying")
      BY <3>1, <3>2 DEF At
    <3> QED
      BY <3>1, <3>2, <3>3 DEF Kept, CopyThere
  <2>6. CASE CopyFails(s)
    BY <2>6 DEF CopyFails, Kept
  <2> QED
    BY <1>4, <2>2, <2>3, <2>4, <2>5, <2>6
<1> QED
  BY OtherStepsQuiet, <1>1, <1>2, <1>3, <1>4

(* BInv holds from the beginning, *)
LEMMA BasicInit == Init => BInv /\ Kept
<1> SUFFICES ASSUME Init PROVE BInv /\ Kept
  OBVIOUS
<1>1. PICK s \in Settings :
        /\ budget = s.budget /\ bundleFile = s.bundle
        /\ swap = [on |-> s.machine.swapOn, fstab |-> "original", copy |-> None]
  BY DEF Init
<1>2. /\ staged = [some |-> {}, all |-> None] /\ installed = [p \in Parts |-> None]
      /\ service = [x \in Services |-> "absent"] /\ images = {}
      /\ pc = "idle" /\ command = None /\ manifest = None /\ outcome = "none"
      /\ shell = [s2 \in Sides |-> NoShell]
      /\ given = {} /\ raced = {} /\ spoiled = {} /\ cut = FALSE /\ recopied = FALSE
  BY DEF Init, Sides
<1>3. NoShell \in Shells /\ \A r \in Sides : shell[r] = NoShell
  BY <1>2 DEF NoShell, Shells, ShellSteps
<1>4. TypeOK
  BY <1>1, <1>2, <1>3, SettingsAssumption DEF TypeOK, Places, Sides
<1>5. ScriptSteps /\ FrontShell
  BY <1>2, <1>3 DEF ScriptSteps, FrontShell, NoShell, Sides
<1>6. Route /\ Uploaded
  BY <1>2 DEF Route, Uploaded
<1>7. \A r \in Sides : \A step : ~At(r, step)
  BY <1>3 DEF At, NoShell
<1> QED
  BY <1>1, <1>4, <1>5, <1>6, <1>7 DEF BInv, Kept, Sides

(* and every action keeps it. *)
LEMMA BasicStep == BInv /\ [Next]_vars => BInv'
BY TypeInductive, ShellsInductive, RouteInductive DEF BInv

LEMMA BasicAlways == Spec => []BInv
BY BasicInit, BasicStep, PTL DEF Spec

(* The variables stay in their types. *)
THEOREM TypeCorrect == Spec => []TypeOK
<1>1. BInv => TypeOK
  BY DEF BInv
<1> QED
  BY <1>1, BasicAlways, PTL

(* The copy of /etc/fstab an operator is told to look at is the file as it    *)
(* was before kubelift, however often the commands were given, interrupted   *)
(* and repeated, beside shells left behind and over reboots; until a copy is *)
(* cut short, or a shell opens the copy it found missing after another one   *)
(* has made it and changed /etc/fstab.                                       *)
THEOREM BackupKept == Spec => []BackupIsOriginal
<1>1. Init => Kept
  BY BasicInit
<1>2. BInv /\ Kept /\ [Next]_vars => Kept'
  BY CopyInductive
<1>3. Kept => BackupIsOriginal
  BY DEF Kept, CopyThere, BackupIsOriginal, Sides
<1> QED
  BY <1>1, <1>2, <1>3, BasicAlways, PTL DEF Spec

-----------------------------------------------------------------------------
(* The shells take no command back, and see no bundle file. *)
LEMMA ShellKeeps ==
    ASSUME NEW s, ShellStep(s)
    PROVE  UNCHANGED <<world, bundleFile, process, budget, given, raced>>
BY DEF ShellStep, SwapOff, BackUp, OpenCopy, CopyEnds, EditFstab, VerifySwap, Import, BeginPart,
   EndPart, BeginRestart, NotActive, EndRestart, OnlySwapMoves, history

(* What the checks of the present command have found. *)
Checked ==
    /\ pc # "idle" => command \in given
    /\ pc \notin {"idle", "load", "local"} /\ command # "check" =>
          /\ master0.fails = {}
          /\ BundleFitsMaster0(bundleFile) \/ bundleFile \in raced
    /\ pc \notin {"idle", "load", "local", "remote"} /\ command # "check" => machine.fails = {}
    /\ pc \in {"ports", "push"} => AcceptsMachine(bundleFile) \/ bundleFile \in raced
    /\ pc \in {"push"} /\ command = "add" => machine.ports \cap RequiredPorts = {}

LEMMA CheckedStep == BInv /\ Checked /\ [Next]_vars => Checked'
<1> SUFFICES ASSUME BInv, Checked, [Next]_vars PROVE Checked'
  OBVIOUS
<1>t. TypeOK /\ Route
  BY DEF BInv
<1>w. UNCHANGED world
  BY DEF Next, Advance, LoadConfig, LocalPreflight, CheckRemote, SwapPrepared, Recheck, CheckBundle,
     ReportCheck, CheckPorts, ExtractAndUpload, PushReturns, CheckProfile, PrepareNode,
     PrepareReturns, ImportImages, ImagesReturn, Start, ShellStep, CommandFails, CopyFails, Break,
     Reboot, ReplaceBundle, Gate, Returns, Demand, vars
<1>v. /\ RequiredPorts' = RequiredPorts
      /\ \A b : /\ AcceptsMachine(b)' <=> AcceptsMachine(b)
                /\ BundleFitsMaster0(b)' <=> BundleFitsMaster0(b)
  BY <1>w DEF world, RequiredPorts, AcceptsMachine, BundleFitsMaster0, Mentions
<1> USE <1>t, <1>v DEF Checked
<1>1. ASSUME NEW c \in Commands, Start(c) PROVE Checked'
  BY <1>1 DEF Start
<1>2. CASE LoadConfig
  BY <1>2, <1>w DEF LoadConfig, Gate, Goto, End, history, world
<1>3. CASE LocalPreflight
  BY <1>3, <1>w DEF LocalPreflight, Gate, Goto, End, history, world
<1>4. CASE CheckRemote
  BY <1>4, <1>w DEF CheckRemote, Goto, End, history, world, OnlySwapFails, MachineFit, Route,
     InstallMode
<1>5. CASE SwapPrepared
  BY <1>5, <1>w DEF SwapPrepared, Returns, Goto, End, history, world
<1>6. CASE Recheck
  BY <1>6, <1>w DEF Recheck, Gate, Goto, End, history, world
<1>7. CASE CheckBundle
  BY <1>7, <1>w DEF CheckBundle, Gate, Goto, End, history, world
<1>8. CASE ReportCheck
  BY <1>8, <1>w DEF ReportCheck, End
<1>9. CASE CheckPorts
  BY <1>9, <1>w DEF CheckPorts, Gate, Goto, End, history, world
<1>10. CASE ExtractAndUpload
  BY <1>10, <1>w DEF ExtractAndUpload, End, history, world
<1>11. CASE PushReturns
  <2>1. pc' \in {"idle", "prepare", "images", "profile"}
    BY <1>11 DEF PushReturns, Goto, End, AfterPush, Route, Commands
  <2>2. UNCHANGED <<command, given, raced, bundleFile>>
    BY <1>11 DEF PushReturns, Goto, End, history
  <2> QED
    BY <1>11, <2>1, <2>2, <1>w DEF PushReturns, world
<1>12. CASE CheckProfile \/ PrepareNode \/ ImportImages
  BY <1>12, <1>w DEF CheckProfile, PrepareNode, ImportImages, Demand, Goto, End, history, world
<1>13. CASE PrepareReturns \/ ImagesReturn
  <2>1. /\ pc' \in {"idle", "images"} /\ pc \in {"preparing", "importing"}
        /\ UNCHANGED <<command, given, raced, bundleFile>>
    BY <1>13 DEF PrepareReturns, ImagesReturn, Returns, Goto, End, history
  <2> QED
    BY <2>1, <1>w DEF world
<1>14. ASSUME NEW s \in Sides, ShellStep(s) \/ CommandFails(s) \/ CopyFails(s) PROVE Checked'
  <2>1. UNCHANGED <<process, given, raced, bundleFile>>
    BY <1>14, ShellKeeps DEF CommandFails, CopyFails
  <2> QED
    BY <2>1, <1>w DEF world, process
<1>15. CASE Break
  BY <1>15, <1>w DEF Break, End
<1>16. CASE Reboot
  BY <1>16, <1>w DEF Reboot, End, process, world, Connected
<1>17. ASSUME NEW b \in Bundles, ReplaceBundle(b) PROVE Checked'
  BY <1>17, <1>w DEF ReplaceBundle, process, world
<1>18. CASE UNCHANGED vars
  BY <1>18, <1>w DEF vars, process, history, world
<1> QED
  BY <1>1, <1>2, <1>3, <1>4, <1>5, <1>6, <1>7, <1>8, <1>9, <1>10, <1>11, <1>12, <1>13, <1>14,
     <1>15, <1>16, <1>17, <1>18 DEF Next, Advance, Sides

(* A script runs, be it in a shell left behind, only for a command that may   *)
(* run it, and one that turns swap off only on a target that passed.         *)
Scripted ==
    \A s \in Sides :
        /\ shell[s].script \in {"swap", "prepare"} =>
              machine.fails = {} /\ given \cap {"prepare", "add"} # {}
        /\ shell[s].script = "images" => given \cap {"images", "add"} # {}

(* No action takes a command back, or changes facts about the machines.      *)
LEMMA GivenStays == [Next]_vars => UNCHANGED world /\ given \subseteq given'
BY ShellKeeps DEF Next, Advance, LoadConfig, LocalPreflight, CheckRemote, SwapPrepared, Recheck,
   CheckBundle, ReportCheck, CheckPorts, ExtractAndUpload, PushReturns, CheckProfile, PrepareNode,
   PrepareReturns, ImportImages, ImagesReturn, Start, CommandFails, CopyFails, Break, Reboot,
   ReplaceBundle, Gate, Returns, Demand, vars, history

LEMMA ScriptedStep == BInv /\ Checked /\ Scripted /\ [Next]_vars => Scripted'
<1> SUFFICES ASSUME BInv, Checked, Scripted, [Next]_vars PROVE Scripted'
  OBVIOUS
<1>t. Route /\ shell \in [Sides -> Shells]
  BY DEF BInv, TypeOK, Sides
<1>w. machine' = machine /\ given \subseteq given'
  BY GivenStays DEF world
<1>a. ASSUME \A s \in Sides : \/ shell'[s].script = "none"
                              \/ \E r \in Sides : shell'[s].script = shell[r].script
      PROVE  Scripted'
  BY <1>a, <1>w DEF Scripted
<1>b. ASSUME NEW to \in Shells, shell' = [shell EXCEPT !.front = to],
             to.script \in {"swap", "prepare"} =>
                machine.fails = {} /\ given \cap {"prepare", "add"} # {},
             to.script = "images" => given \cap {"images", "add"} # {}
      PROVE  Scripted'
  <2>1. shell'["front"] = to /\ shell'["left"] = shell["left"]
    BY <1>b, <1>t DEF Sides
  <2> QED
    BY <1>b, <1>w, <2>1 DEF Scripted, Sides
<1>1. CASE UNCHANGED shell
  BY <1>1, <1>a
<1>2. CASE CheckRemote /\ ~UNCHANGED shell
  <2>1. shell' = [shell EXCEPT !.front = [script |-> "swap", of |-> None, half |-> FALSE, step |-> "swapoff"]]
    BY <1>2 DEF CheckRemote, Run
  <2>2. machine.fails = {} /\ command \in {"prepare", "add"} /\ command \in given
    BY <1>2 DEF CheckRemote, OnlySwapFails, MachineFit, InstallMode, Checked
  <2> QED
    BY <1>b, <2>1, <2>2, NewShells
<1>3. CASE PrepareNode /\ ~UNCHANGED shell
  <2>1. /\ shell' = [shell EXCEPT !.front =
                        [script |-> "prepare", of |-> manifest, half |-> FALSE, step |-> "swapoff"]]
        /\ pc = "prepare"
    BY <1>3 DEF PrepareNode, Demand, Run
  <2>2. machine.fails = {} /\ command \in {"prepare", "add"} /\ command \in given
    BY <2>1, <1>t DEF Route, Checked
  <2>3. [script |-> "prepare", of |-> manifest, half |-> FALSE, step |-> "swapoff"] \in Shells
    BY <2>1, NewShells DEF BInv, TypeOK
  <2> QED
    BY <1>b, <2>1, <2>2, <2>3
<1>4. CASE ImportImages /\ ~UNCHANGED shell
  <2>1. /\ shell' = [shell EXCEPT !.front =
                        [script |-> "images", of |-> manifest, half |-> FALSE, step |-> "images"]]
        /\ pc = "images"
    BY <1>4 DEF ImportImages, Demand, Run
  <2>2. command \in {"images", "add"} /\ command \in given
    BY <2>1, <1>t DEF Route, Checked
  <2>3. [script |-> "images", of |-> manifest, half |-> FALSE, step |-> "images"] \in Shells
    BY <2>1, NewShells DEF BInv, TypeOK
  <2> QED
    BY <1>b, <2>1, <2>2, <2>3
<1>5. CASE SwapPrepared \/ PrepareReturns \/ ImagesReturn
  <2>1. shell' = [shell EXCEPT !.front = NoShell]
    BY <1>5 DEF SwapPrepared, PrepareReturns, ImagesReturn, Returns
  <2>2. NoShell \in Shells /\ NoShell.script = "none"
    BY DEF NoShell, Shells, ShellSteps
  <2> QED
    BY <1>b, <2>1, <2>2
<1>6. ASSUME NEW s \in Sides, ShellStep(s) \/ CommandFails(s) \/ CopyFails(s) PROVE Scripted'
  <2>1. \E step, half : Moves(s, step, half)
    BY <1>6, <1>t, StepsTo DEF CommandFails, CopyFails, Step, Moves
  <2>2. \A r \in Sides : shell'[r].script = shell[r].script
    BY <2>1, <1>t, MoveMeans
  <2> QED
    BY <2>2, <1>a
<1>7. CASE Break
  <2>1. shell'["front"].script = "none" /\ shell'["left"] = shell["front"]
    BY <1>7 DEF Break, NoShell
  <2> QED
    BY <1>a, <2>1 DEF Sides
<1>8. CASE Reboot
  <2>1. \A s \in Sides : shell'[s].script = "none"
    BY <1>8 DEF Reboot, NoShell, Sides
  <2> QED
    BY <1>a, <2>1
<1>9. CASE ~UNCHANGED shell
  <2>1. ASSUME NEW c \in Commands, Start(c) PROVE FALSE
    BY <2>1, <1>9 DEF Start
  <2>2. ASSUME NEW b \in Bundles, ReplaceBundle(b) PROVE FALSE
    BY <2>2, <1>9 DEF ReplaceBundle
  <2>3. ~(\/ LoadConfig \/ LocalPreflight \/ Recheck \/ CheckBundle \/ CheckPorts \/ ReportCheck
          \/ ExtractAndUpload \/ PushReturns \/ CheckProfile \/ UNCHANGED vars)
    BY <1>9 DEF LoadConfig, LocalPreflight, Recheck, CheckBundle, CheckPorts, ReportCheck,
       ExtractAndUpload, PushReturns, CheckProfile, Demand, Gate, vars
  <2> QED
    BY <1>2, <1>3, <1>4, <1>5, <1>6, <1>7, <1>8, <1>9, <2>1, <2>2, <2>3 DEF Next, Advance, Sides
<1> QED
  BY <1>1, <1>9

(* What is new on the target: where it comes from. *)
LEMMA NewFiles ==
    ASSUME BInv, [Next]_vars
    PROVE  /\ staged'.some \subseteq staged.some \cup {bundleFile}
           /\ staged'.some = staged.some \/ pc = "push"
           /\ \A p \in Parts : installed'[p] \in {installed[p], Torn} \cup staged.some
           /\ images' \subseteq images \cup staged.some
           /\ raced \subseteq raced'
<1>t. TypeOK
  BY DEF BInv
<1>1. CASE ExtractAndUpload
  <2>1. staged' = staged \/ staged' = [some |-> staged.some \cup {bundleFile},
                     all |-> IF staged.all = bundleFile THEN bundleFile ELSE None]
    BY <1>1 DEF ExtractAndUpload
  <2> QED
    BY <1>1, <2>1 DEF ExtractAndUpload, history
<1>2. CASE PushReturns
  BY <1>2, <1>t DEF PushReturns, TypeOK, history
<1>3. ASSUME NEW s \in Sides, NEW part \in Parts, BeginPart(s, part) \/ EndPart(s, part)
      PROVE  /\ staged' = staged /\ images' = images /\ raced' = raced
             /\ \A p \in Parts : installed'[p] \in {installed[p], Torn} \cup staged.some
  <2>1. CASE BeginPart(s, part)
    BY <1>t, <2>1 DEF BeginPart, TypeOK
  <2>2. CASE EndPart(s, part)
    <3>1. FoundFor(s) \subseteq staged.some
      BY <2>2, Found, ScriptOf DEF EndPart, Halfway
    <3>2. \E b \in FoundFor(s) : installed' = [installed EXCEPT ![part] =
                                     IF Halfway(Other(s), part) THEN Torn ELSE b]
      BY <2>2 DEF EndPart
    <3>3. staged' = staged /\ images' = images /\ raced' = raced
      BY <2>2 DEF EndPart
    <3>4. PICK b \in staged.some \cup {Torn} : installed' = [installed EXCEPT ![part] = b]
      BY <3>1, <3>2
    <3> QED
      BY <1>t, <3>3, <3>4 DEF TypeOK
  <2> QED
    BY <1>3, <2>1, <2>2
<1>4. ASSUME NEW s \in Sides, Import(s)
      PROVE  UNCHANGED <<staged, installed, raced>> /\ images' \subseteq images \cup staged.some
  <2>1. FoundFor(s) \subseteq staged.some
    BY <1>4, Found, ScriptOf DEF Import
  <2> QED
    BY <1>4, <2>1 DEF Import, history
<1>5. ASSUME NEW s \in Sides, ShellStep(s), ~Import(s),
             \A part \in Parts : ~BeginPart(s, part) /\ ~EndPart(s, part)
      PROVE  UNCHANGED <<staged, installed, images, raced>>
  BY <1>5 DEF ShellStep, SwapOff, BackUp, OpenCopy, CopyEnds, EditFstab, VerifySwap, BeginRestart,
     NotActive, EndRestart, OnlySwapMoves, target, history
<1>6. ASSUME NEW s \in Sides, CommandFails(s) \/ CopyFails(s)
      PROVE  UNCHANGED <<staged, installed, images, raced>>
  BY <1>6 DEF CommandFails, CopyFails, target, history
<1>7. CASE (\E c \in Commands : Start(c)) \/ Break \/ Reboot \/ (\E b \in Bundles : ReplaceBundle(b))
           \/ UNCHANGED vars
  <2>1. UNCHANGED <<staged, installed, images>> /\ raced \subseteq raced'
    BY <1>7 DEF Start, Break, Reboot, ReplaceBundle, vars, target, history
  <2> QED
    BY <2>1
<1>8. CASE LoadConfig \/ LocalPreflight \/ CheckRemote \/ SwapPrepared \/ Recheck \/ CheckBundle
           \/ ReportCheck \/ CheckPorts \/ CheckProfile \/ PrepareNode \/ PrepareReturns
           \/ ImportImages \/ ImagesReturn
  <2>1. UNCHANGED <<staged, installed, images, raced>>
    BY <1>8 DEF LoadConfig, LocalPreflight, CheckRemote, SwapPrepared, Recheck, CheckBundle,
       ReportCheck, CheckPorts, CheckProfile, PrepareNode, PrepareReturns, ImportImages, ImagesReturn,
       Gate, Returns, Demand, target, history
  <2> QED
    BY <2>1
<1>9. ASSUME NEW s \in Sides, ShellStep(s)
      PROVE  /\ staged' = staged /\ raced' = raced
             /\ \A p \in Parts : installed'[p] \in {installed[p], Torn} \cup staged.some
             /\ images' \subseteq images \cup staged.some
  BY <1>3, <1>4, <1>5, <1>9
<1>10. ASSUME NEW s \in Sides, ShellStep(s) \/ CommandFails(s) \/ CopyFails(s)
       PROVE  /\ staged' = staged /\ raced' = raced
              /\ \A p \in Parts : installed'[p] \in {installed[p], Torn} \cup staged.some
              /\ images' \subseteq images \cup staged.some
  BY <1>6, <1>9, <1>10
<1> QED
  BY <1>1, <1>2, <1>7, <1>8, <1>10 DEF Next, Advance, Sides

LEMMA CheckedAlways == Spec => [](BInv /\ Checked)
<1>1. Init => Checked
  BY DEF Init, Checked
<1> QED
  BY <1>1, BasicAlways, CheckedStep, PTL DEF Spec

(* No file of a bundle that does not fit the configuration, Master0 and the   *)
(* target gets to the target, whatever is done to the bundle file between    *)
(* two commands; only a bundle that was put in place while a command was     *)
(* running may.                                                              *)
THEOREM OnlyFittingFilesArrive == Spec => []OnlyFittingFiles
<1>1. Init => OnlyFittingFiles
  <2> SUFFICES ASSUME Init, NEW b \in Bundles,
                      b \in staged.some \cup images \cup {installed[p] : p \in Parts}
               PROVE  FALSE
    BY DEF OnlyFittingFiles
  <2>1. staged.some = {} /\ images = {} /\ \A p \in Parts : installed[p] = None
    BY DEF Init
  <2> QED
    BY <2>1, BundlesAssumption
<1>2. BInv /\ Checked /\ OnlyFittingFiles /\ [Next]_vars => OnlyFittingFiles'
  <2> SUFFICES ASSUME BInv, Checked, OnlyFittingFiles, [Next]_vars, NEW b \in Bundles,
                      b \in staged'.some \cup images' \cup {installed'[p] : p \in Parts}
               PROVE  Fits(b)' \/ b \in raced'
    BY DEF OnlyFittingFiles
  <2>1. /\ Fits(b)' <=> Fits(b)
        /\ raced \subseteq raced'
    BY GivenStays, NewFiles DEF world, Fits
  <2>2. \/ b \in staged.some \cup images \cup {installed[p] : p \in Parts}
        \/ b = bundleFile /\ pc = "push"
    BY NewFiles, BundlesAssumption
  <2>3. CASE b = bundleFile /\ pc = "push"
    BY <2>1, <2>3 DEF BInv, Route, Checked, AcceptsMachine, BundleFitsMaster0, Mentions, Fits
  <2>4. CASE b \in staged.some \cup images \cup {installed[p] : p \in Parts}
    BY <2>1, <2>4 DEF OnlyFittingFiles
  <2> QED
    BY <2>2, <2>3, <2>4
<1> QED
  BY <1>1, <1>2, CheckedAlways, PTL DEF Spec

(* Only the scripts change the target, beside what is staged; and a reboot.   *)
RebootSwap ==
    /\ swap'.copy = swap.copy /\ swap'.fstab = swap.fstab
    /\ swap'.on <=> machine.swapUnit \/ (machine.swapInFstab /\ swap.fstab = "original")

LEMMA TargetChanges ==
    ASSUME BInv, [Next]_vars
    PROVE  /\ swap' = swap \/ RebootSwap \/ \E s \in Sides : shell[s].script \in {"swap", "prepare"}
           /\ \/ installed' = installed
              \/ \E s \in Sides : shell[s].script = "prepare"
           /\ \/ \A x \in Services : service'[x] # "absent" => service[x] # "absent"
              \/ \E s \in Sides : shell[s].script = "prepare"
           /\ images' = images \/ \E s \in Sides : shell[s].script = "images"
<1>t. /\ swap \in [on : BOOLEAN, fstab : {"original", "commented"}, copy : Copies \cup {None}]
      /\ FrontShell
  BY DEF BInv, TypeOK
<1>1. ASSUME NEW s \in Sides, ShellStep(s)
      PROVE  \/ shell[s].script = "prepare" /\ images' = images
             \/ shell[s].script = "swap" /\ UNCHANGED <<installed, service, images>>
             \/ shell[s].script = "images" /\ UNCHANGED <<swap, installed, service>>
  <2>1. CASE SwapOff(s) \/ BackUp(s) \/ OpenCopy(s) \/ CopyEnds(s) \/ EditFstab(s) \/ VerifySwap(s)
    <3>1. UNCHANGED <<installed, service, images>> /\ \E step \in SwapSteps : At(s, step)
      BY <2>1 DEF SwapOff, BackUp, OpenCopy, CopyEnds, EditFstab, VerifySwap, SwapSteps, target,
         OnlySwapMoves
    <3> QED
      BY <3>1, ScriptOf
  <2>2. ASSUME NEW x \in Parts, BeginPart(s, x) \/ EndPart(s, x)
        PROVE  images' = images /\ At(s, x)
    BY <2>2 DEF BeginPart, EndPart, Begin, Halfway
  <2>3. ASSUME NEW x \in Services, BeginRestart(s, x) \/ NotActive(s, x) \/ EndRestart(s, x)
        PROVE  images' = images /\ At(s, x)
    BY <2>3 DEF BeginRestart, NotActive, EndRestart, Begin, Halfway, target
  <2>4. CASE Import(s)
    BY <2>4, ScriptOf DEF Import
  <2> QED
    BY <1>1, <2>1, <2>2, <2>3, <2>4, ScriptOf DEF ShellStep
<1>2. ASSUME NEW s \in Sides, CommandFails(s)
      PROVE  UNCHANGED <<swap, installed, service, images>>
  BY <1>2 DEF CommandFails, target
<1>3. ASSUME NEW s \in Sides, CopyFails(s)
      PROVE  shell[s].script \in {"swap", "prepare"} /\ UNCHANGED <<installed, service, images>>
  <2>1. {"copy", "copying"} \subseteq SwapSteps /\ (At(s, "copy") \/ At(s, "copying"))
    BY <1>3 DEF CopyFails, SwapSteps
  <2> QED
    BY <1>3, <2>1, ScriptOf DEF CopyFails
<1>4. CASE Reboot
  <2>1. RebootSwap
    BY <1>4, <1>t DEF Reboot, RebootSwap
  <2>2. \A x \in Services : service'[x] # "absent" => service[x] # "absent"
    BY <1>4 DEF Reboot
  <2> QED
    BY <1>4, <2>1, <2>2 DEF Reboot
<1>5. CASE (\E c \in Commands : Start(c)) \/ Break \/ (\E b \in Bundles : ReplaceBundle(b))
           \/ UNCHANGED vars \/ Advance
  <2>1. UNCHANGED <<swap, installed, service, images>>
    BY <1>5 DEF Start, Break, ReplaceBundle, vars, target, Advance, LoadConfig, LocalPreflight,
       CheckRemote, SwapPrepared, Recheck, CheckBundle, ReportCheck, CheckPorts, ExtractAndUpload,
       PushReturns, CheckProfile, PrepareNode, PrepareReturns, ImportImages, ImagesReturn,
       Gate, Returns, Demand
  <2> QED
    BY <2>1
<1>6. ASSUME NEW s \in Sides, ShellStep(s) \/ CommandFails(s) \/ CopyFails(s)
      PROVE  \/ shell[s].script = "prepare" /\ images' = images
             \/ shell[s].script = "swap" /\ UNCHANGED <<installed, service, images>>
             \/ shell[s].script = "images" /\ UNCHANGED <<swap, installed, service>>
             \/ UNCHANGED <<swap, installed, service, images>>
  BY <1>1, <1>2, <1>3, <1>6
<1>7. CASE \E s \in Sides : ShellStep(s) \/ CommandFails(s) \/ CopyFails(s)
  BY <1>6, <1>7
<1> QED
  BY <1>4, <1>5, <1>7 DEF Next, Sides

(* Each command changes no more than its part of the target; swap is only     *)
(* touched for an installation and when nothing else is wrong with the        *)
(* target; and nothing is staged for a command that its checks refuse.        *)
THEOREM OnlyItsPart == Spec => []ChangesWithinPart
<1> DEFINE Sent(commands) == given \cap commands # {}
           Turned == machine.swapOn /\ ~swap.on /\ (machine.swapUnit \/ machine.swapInFstab)
<1>i. ChangesWithinPart <=>
        /\ swap.copy # None \/ swap.fstab = "commented" \/ Turned =>
              machine.fails = {} /\ Sent({"prepare", "add"})
        /\ staged.some # {} =>
              /\ machine.fails = {} /\ master0.fails = {}
              /\ Sent({"push", "prepare", "images", "add"})
              /\ given \subseteq {"check", "add"} => machine.ports \cap RequiredPorts = {}
        /\ (\E p \in Parts : installed[p] # None) \/ (\E x \in Services : service[x] # "absent") =>
              Sent({"prepare", "add"})
        /\ images # {} => Sent({"images", "add"})
  BY DEF ChangesWithinPart
<1>1. Init => Scripted /\ ChangesWithinPart
  <2> SUFFICES ASSUME Init PROVE Scripted /\ ChangesWithinPart
    OBVIOUS
  <2>1. /\ swap.copy = None /\ swap.fstab = "original" /\ swap.on = machine.swapOn
        /\ staged.some = {} /\ images = {} /\ \A x \in Services : service[x] = "absent"
        /\ \A p \in Parts : installed[p] = None
        /\ \A s \in Sides : shell[s].script = "none"
    BY DEF Init, Sides, NoShell
  <2> QED
    BY <2>1, <1>i DEF Scripted
<1>2. BInv /\ Checked /\ Scripted /\ ChangesWithinPart /\ [Next]_vars => ChangesWithinPart'
  <2> SUFFICES ASSUME BInv, Checked, Scripted, ChangesWithinPart, [Next]_vars
               PROVE  ChangesWithinPart'
    OBVIOUS
  <2>1. /\ machine' = machine /\ master0' = master0 /\ RequiredPorts' = RequiredPorts
        /\ \A commands : Sent(commands) => Sent(commands)'
    BY GivenStays DEF world, RequiredPorts
  <2>2. swap'.copy # None \/ swap'.fstab = "commented" \/ Turned' =>
           machine.fails = {} /\ Sent({"prepare", "add"})
    <3>1. CASE swap' = swap
      BY <2>1, <3>1, <1>i
    <3>2. CASE RebootSwap
      <4>1. swap'.copy = swap.copy /\ swap'.fstab = swap.fstab
        BY <3>2 DEF RebootSwap
      <4>2. swap.fstab \in {"original", "commented"}
        BY DEF BInv, TypeOK
      <4>3. Turned' => swap.fstab = "commented"
        BY <2>1, <3>2, <4>2 DEF RebootSwap
      <4> QED
        BY <4>1, <4>3, <1>i
    <3>3. CASE \E s \in Sides : shell[s].script \in {"swap", "prepare"}
      BY <3>3 DEF Scripted
    <3> QED
      BY TargetChanges, <3>1, <3>2, <3>3
  <2>3. (\E p \in Parts : installed'[p] # None) \/ (\E x \in Services : service'[x] # "absent") =>
           Sent({"prepare", "add"})
    BY TargetChanges, <1>i DEF Scripted
  <2>4. images' # {} => Sent({"images", "add"})
    BY TargetChanges, <1>i DEF Scripted
  <2>5. staged'.some # {} =>
          /\ machine.fails = {} /\ master0.fails = {}
          /\ Sent({"push", "prepare", "images", "add"})
          /\ given \subseteq {"check", "add"} => machine.ports \cap RequiredPorts = {}
    <3>1. CASE staged'.some = staged.some
      BY <3>1, <1>i
    <3>2. CASE pc = "push"
      <4>1. command \in {"push", "prepare", "images", "add"} /\ command \in given
        BY <3>2 DEF BInv, Route, Checked, Commands
      <4> QED
        BY <3>2, <4>1 DEF Checked
    <3> QED
      BY <3>1, <3>2, NewFiles
  <2>6. given \subseteq given'
    BY GivenStays
  <2> QED
    BY <2>1, <2>2, <2>3, <2>4, <2>5, <2>6 DEF ChangesWithinPart
<1> QED
  BY <1>1, <1>2, CheckedAlways, ScriptedStep, PTL DEF Spec

-----------------------------------------------------------------------------
(* A target as `bundle prepare` is to leave it.                              *)
Things == Parts \cup Services

(* A part is of the bundle, a unit is running; or the shell left behind has   *)
(* meddled with it, or is about to.                                          *)
Done(x) ==
    \/ x \in spoiled
    \/ Halfway("left", x)
    \/ x \in Parts /\ installed[x] = manifest
    \/ x \in Services /\ service[x] = "running"

SwapGone ==
    /\ swap.on => machine.swapUnit
    /\ machine.swapInFstab => swap.fstab = "commented"

Whole == (\A x \in Things : Done(x)) /\ SwapGone

(* How far the shell of PrepareNode has got.                                 *)
DoneBefore(step) ==
    CASE step = "programs"   -> {"tools"}
      [] step = "runtime"    -> {"tools", "programs"}
      [] step = "containerd" -> Parts
      [] step = "kubelet"    -> Parts \cup {"containerd"}
      [] step = "ok"         -> Things
      [] OTHER               -> {}

Progress ==
    LET step == shell["front"].step IN
    /\ step \notin {"swapoff", "failed"} => ~swap.on
    /\ step \notin {"swapoff", "backup", "copy", "copying", "fstab", "failed"} =>
          (machine.swapInFstab => swap.fstab = "commented")
    /\ \A x \in DoneBefore(step) : Done(x)

(* A unit that is restarted is enabled. *)
Enabled == \A s \in Sides, x \in Services : Halfway(s, x) => service[x] # "absent"

Succeeded == outcome = "done" /\ command \in {"prepare", "add"}
OwnFiles == pc \in {"profile", "prepare", "preparing", "images", "importing"} \/ Succeeded

WInv ==
    /\ Enabled
    /\ outcome # "none" => pc = "idle"
    /\ OwnFiles => staged.all = manifest
    /\ pc = "preparing" => Progress
    /\ pc \in {"images", "importing"} /\ command = "add" => Whole
    /\ pc = "importing" /\ shell["front"].step = "ok" => manifest \in images
    /\ Succeeded => Whole /\ (command = "add" => manifest \in images)

LEMMA Different == Parts \cap Services = {} /\ Things \cap {"ok", "failed", "images", "copy"} = {}
                   /\ Things \cap SwapSteps = {} /\ Things \subseteq ShellSteps
BY DEF Parts, Services, Things, SwapSteps, ShellSteps

(* What a shell does to a part or a unit, in one step.                       *)
LEMMA ShellDeeds ==
    ASSUME BInv, NEW s \in Sides, NEW x \in Things, ShellStep(s)
    PROVE  \/ /\ x \in Parts => installed'[x] = installed[x]
              /\ x \in Services => service'[x] = service[x]
              /\ ~Halfway(s, x) \/ UNCHANGED shell
              /\ IF s = "left" THEN spoiled \subseteq spoiled'
                 ELSE x \in spoiled => x \in spoiled' \/ shell[s].step = x
           \/ /\ At(s, x) /\ Halfway(s, x)'
              /\ x \in Services => service'[x] = "stopped"
              /\ IF s = "left" THEN spoiled' = spoiled ELSE spoiled' = spoiled \ {x}
           \/ /\ Halfway(s, x) /\ x \in Parts
              /\ \E b \in FoundFor(s) :
                    /\ installed'[x] = IF Halfway(Other(s), x) THEN Torn ELSE b
                    /\ spoiled' = IF s = "left" /\ b # manifest THEN spoiled \cup {x} ELSE spoiled
           \/ Halfway(s, x) /\ x \in Services /\ service'[x] = "running" /\ spoiled' = spoiled
<1>t. /\ installed \in [Parts -> Bundles \cup {None, Torn}] /\ shell \in [Sides -> Shells]
      /\ service \in [Services -> {"absent", "stopped", "running"}]
  BY DEF BInv, TypeOK, Sides
<1>h. Halfway(s, x) => shell[s].step = x
  BY DEF Halfway, At
<1>1. CASE SwapOff(s) \/ BackUp(s) \/ OpenCopy(s) \/ CopyEnds(s) \/ EditFstab(s) \/ VerifySwap(s)
           \/ Import(s)
  <2>1. UNCHANGED <<installed, service, spoiled>>
    BY <1>1 DEF SwapOff, BackUp, OpenCopy, CopyEnds, EditFstab, VerifySwap, Import, OnlySwapMoves,
       target, history
  <2>2. shell[s].step \in SwapSteps \cup {"images"}
    BY <1>1 DEF SwapOff, BackUp, OpenCopy, CopyEnds, EditFstab, VerifySwap, Import, At, SwapSteps
  <2> QED
    BY <2>1, <2>2, <1>h, Different
<1>2. ASSUME NEW y \in Things, Begin(s, y)
      PROVE  /\ At(s, y) /\ Halfway(s, y)' /\ ~shell[s].half /\ shell[s].step = y
             /\ spoiled' = IF s = "front" THEN spoiled \ {y} ELSE spoiled
  <2>1. /\ shell'[s].half /\ shell'[s].step = shell[s].step /\ shell'[s].script = shell[s].script
        /\ shell[s].step = y
    BY <1>2, <1>t DEF Begin, Shells, At
  <2> QED
    BY <1>2, <2>1 DEF Begin, Halfway, At
<1>3. ASSUME NEW y \in Parts, BeginPart(s, y)
      PROVE  /\ installed' = [installed EXCEPT ![y] = Torn] /\ service' = service
             /\ Begin(s, y)
  BY <1>3 DEF BeginPart
<1>4. ASSUME NEW y \in Services, BeginRestart(s, y)
      PROVE  /\ service' = [service EXCEPT ![y] = "stopped"] /\ installed' = installed
             /\ Begin(s, y)
  BY <1>4 DEF BeginRestart
<1>5. CASE \E y \in Parts : BeginPart(s, y)
  <2>1. PICK y \in Parts : BeginPart(s, y)
    BY <1>5
  <2>2. y \in Things
    BY DEF Things
  <2>3. CASE x = y
    BY <1>2, <1>3, <2>1, <2>2, <2>3, Different DEF Sides
  <2>4. CASE x # y
    BY <1>2, <1>3, <1>h, <1>t, <2>1, <2>2, <2>4 DEF Sides
  <2> QED
    BY <2>3, <2>4
<1>6. CASE \E y \in Services : BeginRestart(s, y)
  <2>1. PICK y \in Services : BeginRestart(s, y)
    BY <1>6
  <2>2. y \in Things
    BY DEF Things
  <2>3. CASE x = y
    BY <1>2, <1>4, <1>t, <2>1, <2>2, <2>3, Different DEF Sides
  <2>4. CASE x # y
    BY <1>2, <1>4, <1>h, <1>t, <2>1, <2>2, <2>4 DEF Sides
  <2> QED
    BY <2>3, <2>4
<1>7. CASE \E y \in Parts : EndPart(s, y)
  <2>1. PICK y \in Parts : EndPart(s, y)
    BY <1>7
  <2>2. PICK b \in FoundFor(s) :
           /\ installed' = [installed EXCEPT ![y] = IF Halfway(Other(s), y) THEN Torn ELSE b]
           /\ spoiled' = IF s = "left" /\ b # manifest THEN spoiled \cup {y} ELSE spoiled
    BY <2>1 DEF EndPart
  <2>3. service' = service /\ Halfway(s, y) /\ shell[s].step = y
    BY <2>1 DEF EndPart, Halfway, At
  <2>4. CASE x = y
    BY <2>2, <2>3, <2>4, <1>t
  <2>5. CASE x # y
    BY <2>2, <2>3, <2>5, <1>t, <1>h
  <2> QED
    BY <2>4, <2>5
<1>8. CASE \E y \in Services : EndRestart(s, y)
  <2>1. PICK y \in Services : EndRestart(s, y)
    BY <1>8
  <2>2. /\ service' = [service EXCEPT ![y] = "running"] /\ UNCHANGED <<installed, spoiled>>
        /\ Halfway(s, y) /\ shell[s].step = y
    BY <2>1 DEF EndRestart, Halfway, At, history
  <2>3. CASE x = y
    BY <2>2, <2>3, <1>t
  <2>4. CASE x # y
    BY <2>2, <2>4, <1>t, <1>h
  <2> QED
    BY <2>3, <2>4
<1>9. CASE \E y \in Services : NotActive(s, y)
  <2>1. UNCHANGED <<installed, service, spoiled>> /\ ~Halfway(s, x)
    BY <1>9 DEF NotActive, Halfway, target, history
  <2> QED
    BY <2>1
<1> QED
  BY <1>1, <1>5, <1>6, <1>7, <1>8, <1>9 DEF ShellStep

(* The shell of the one side does not move that of the other. *)
LEMMA OneMoves ==
    ASSUME BInv, NEW s \in Sides, ShellStep(s) \/ CommandFails(s) \/ CopyFails(s), NEW r \in Sides \ {s}
    PROVE  shell'[r] = shell[r]
<1>1. shell \in [Sides -> Shells]
  BY DEF BInv, TypeOK, Sides
<1>2. \E step, half : Moves(s, step, half)
  BY <1>1, StepsTo DEF CommandFails, CopyFails, Step, Moves
<1> QED
  BY <1>1, <1>2, MoveMeans

(* While the files of the bundle are all there, what is done stays so, though *)
(* the shell left behind goes on.                                            *)
LEMMA DoneStays ==
    ASSUME BInv, staged.all = manifest, manifest' = manifest, NEW x \in Things, Done(x),
           shell["front"].step # x,
           \E s \in Sides : ShellStep(s) \/ CommandFails(s) \/ CopyFails(s)
    PROVE  Done(x)'
<1>h. ~Halfway("front", x)
  BY DEF Halfway, At
<1>x. Parts' = Parts /\ Services' = Services
  BY DEF Parts, Services
<1>1. CASE ShellStep("front")
  <2>1. shell'["left"] = shell["left"]
    BY <1>1, OneMoves DEF Sides
  <2>2. Halfway("left", x) => Halfway("left", x)'
    BY <2>1 DEF Halfway, At
  <2>3. /\ x \in Parts => installed'[x] = installed[x]
        /\ x \in Services => service'[x] = service[x]
        /\ x \in spoiled => x \in spoiled'
    BY <1>1, <1>h, ShellDeeds DEF Sides, At
  <2> QED
    BY <2>2, <2>3 DEF Done
<1>2. CASE ShellStep("left")
  <2>1. \/ /\ x \in Parts => installed'[x] = installed[x]
           /\ x \in Services => service'[x] = service[x]
           /\ ~Halfway("left", x) \/ UNCHANGED shell
           /\ spoiled \subseteq spoiled'
        \/ Halfway("left", x)'
        \/ /\ Halfway("left", x) /\ x \in Parts
           /\ \E b \in FoundFor("left") :
                 /\ installed'[x] = IF Halfway(Other("left"), x) THEN Torn ELSE b
                 /\ spoiled' = IF b # manifest THEN spoiled \cup {x} ELSE spoiled
        \/ Halfway("left", x) /\ x \in Services /\ service'[x] = "running" /\ spoiled' = spoiled
    BY <1>2, ShellDeeds DEF Sides
  <2>2. CASE /\ x \in Parts => installed'[x] = installed[x]
             /\ x \in Services => service'[x] = service[x]
             /\ ~Halfway("left", x) \/ UNCHANGED shell
             /\ spoiled \subseteq spoiled'
    BY <2>2 DEF Done, Halfway, At
  <2>3. CASE Halfway("left", x)'
    BY <2>3 DEF Done
  <2>4. CASE /\ Halfway("left", x) /\ x \in Parts
             /\ \E b \in FoundFor("left") :
                   /\ installed'[x] = IF Halfway(Other("left"), x) THEN Torn ELSE b
                   /\ spoiled' = IF b # manifest THEN spoiled \cup {x} ELSE spoiled
    <3>1. Other("left") = "front"
      BY DEF Other
    <3>2. PICK b : /\ installed'[x] = b
                   /\ spoiled' = IF b # manifest THEN spoiled \cup {x} ELSE spoiled
      BY <2>4, <3>1, <1>h
    <3> QED
      BY <2>4, <3>2 DEF Done
  <2>5. CASE x \in Services /\ service'[x] = "running"
    BY <2>5 DEF Done
  <2> QED
    BY <2>1, <2>2, <2>3, <2>4, <2>5
<1>3. ASSUME NEW s \in Sides, CommandFails(s) PROVE Done(x)'
  <2>1. /\ UNCHANGED <<installed, service>> /\ spoiled \subseteq spoiled'
        /\ s = "left" /\ shell[s].half => shell[s].step \in spoiled'
    BY <1>3 DEF CommandFails, target
  <2>2. CASE Halfway("left", x)
    <3>1. shell["left"].half /\ shell["left"].step = x
      BY <2>2 DEF Halfway, At
    <3>2. s = "front" => shell'["left"] = shell["left"]
      BY <1>3, OneMoves DEF Sides
    <3> QED
      BY <2>1, <2>2, <3>1, <3>2 DEF Done, Halfway, At, Sides
  <2>3. CASE ~Halfway("left", x)
    BY <2>1, <2>3 DEF Done
  <2> QED
    BY <2>2, <2>3
<1>4. ASSUME NEW s \in Sides, CopyFails(s) PROVE Done(x)'
  <2>1. UNCHANGED <<installed, service, spoiled>>
    BY <1>4 DEF CopyFails
  <2>2. Halfway("left", x) => s = "front"
    BY <1>4, Different DEF CopyFails, Halfway, At, Sides, SwapSteps
  <2>3. s = "front" => shell'["left"] = shell["left"]
    BY <1>4, OneMoves DEF Sides
  <2> QED
    BY <2>1, <2>2, <2>3 DEF Done, Halfway, At
<1> QED
  BY <1>1, <1>2, <1>3, <1>4 DEF Sides

LEMMA EnabledStays == ASSUME BInv, Enabled, [Next]_vars PROVE Enabled'
<1>t. /\ shell \in [Sides -> Shells] /\ FrontShell
      /\ service \in [Services -> {"absent", "stopped", "running"}]
  BY DEF BInv, TypeOK, Sides
<1>a. ASSUME service' = service, \A s \in Sides : shell'[s].half => \E r \in Sides : shell'[s] = shell[r]
      PROVE  Enabled'
  BY <1>a DEF Enabled, Halfway, At, Services
<1>b. ASSUME NEW to \in Shells, shell' = [shell EXCEPT !.front = to], ~to.half, service' = service
      PROVE  Enabled'
  BY <1>a, <1>b, <1>t, NewFront DEF Sides
<1>1. CASE (\E c \in Commands : Start(c)) \/ (\E b \in Bundles : ReplaceBundle(b))
           \/ UNCHANGED vars \/ LoadConfig \/ LocalPreflight \/ Recheck \/ CheckBundle \/ ReportCheck
           \/ CheckPorts \/ ExtractAndUpload \/ PushReturns \/ CheckProfile
  <2>1. UNCHANGED <<shell, service>>
    BY <1>1 DEF Start, ReplaceBundle, vars, target, LoadConfig, LocalPreflight, Recheck, CheckBundle,
       ReportCheck, CheckPorts, ExtractAndUpload, PushReturns, CheckProfile, Demand, Gate
  <2> QED
    BY <2>1, <1>a
<1>2. CASE CheckRemote \/ PrepareNode \/ ImportImages
  <2>1. service' = service
    BY <1>2 DEF CheckRemote, PrepareNode, ImportImages, Demand, target
  <2>2. \/ UNCHANGED shell
        \/ \E to \in Shells : shell' = [shell EXCEPT !.front = to] /\ ~to.half
    <3>1. CASE CheckRemote
      BY <3>1, NewShells DEF CheckRemote, Run
    <3>2. CASE PrepareNode
      <4>1. manifest \in Bundles
        BY <3>2 DEF PrepareNode, Demand, BInv, TypeOK
      <4>2. \/ UNCHANGED shell
            \/ shell' = [shell EXCEPT !.front =
                  [script |-> "prepare", of |-> manifest, half |-> FALSE, step |-> "swapoff"]]
        BY <3>2 DEF PrepareNode, Demand, Run
      <4> QED
        BY <4>1, <4>2, NewShells
    <3>3. CASE ImportImages
      <4>1. manifest \in Bundles
        BY <3>3 DEF ImportImages, Demand, BInv, TypeOK
      <4>2. \/ UNCHANGED shell
            \/ shell' = [shell EXCEPT !.front =
                  [script |-> "images", of |-> manifest, half |-> FALSE, step |-> "images"]]
        BY <3>3 DEF ImportImages, Demand, Run
      <4> QED
        BY <4>1, <4>2, NewShells
    <3> QED
      BY <1>2, <3>1, <3>2, <3>3
  <2> QED
    BY <1>a, <1>b, <2>1, <2>2
<1>3. CASE SwapPrepared \/ PrepareReturns \/ ImagesReturn
  <2>1. shell' = [shell EXCEPT !.front = NoShell] /\ service' = service
    BY <1>3 DEF SwapPrepared, PrepareReturns, ImagesReturn, Returns, target
  <2> QED
    BY <1>b, <2>1, IdleShell
<1>4. CASE Break
  <2>1. shell'["front"] = NoShell /\ shell'["left"] = shell["front"] /\ service' = service
    BY <1>4 DEF Break, target
  <2> QED
    BY <2>1, <1>a, IdleShell DEF Sides
<1>5. CASE Reboot
  <2>1. \A s \in Sides : shell'[s] = NoShell
    BY <1>5 DEF Reboot, Sides
  <2> QED
    BY <2>1, IdleShell DEF Enabled, Halfway
<1>6. ASSUME NEW s \in Sides, CommandFails(s) \/ CopyFails(s) PROVE Enabled'
  <2>1. service' = service /\ \E step : Moves(s, step, FALSE)
    BY <1>6 DEF CommandFails, CopyFails, target, Step, Moves
  <2>2. ~shell'[s].half /\ \A r \in Sides \ {s} : shell'[r] = shell[r]
    BY <1>t, <2>1, MoveMeans
  <2> QED
    BY <1>a, <2>1, <2>2
<1>7. ASSUME NEW s \in Sides, ShellStep(s) PROVE Enabled'
  <2> SUFFICES ASSUME NEW r \in Sides, NEW x \in Services, Halfway(r, x)'
               PROVE  service'[x] # "absent"
    BY DEF Enabled, Services
  <2>0. x \in Things
    BY DEF Things
  <2>1. r # s => Halfway(r, x)
    BY <1>7, OneMoves DEF Halfway, At
  <2>2. service'[x] = service[x] \/ service'[x] \in {"stopped", "running"}
    BY <1>7, <2>0, ShellDeeds, Different
  <2>3. r = s => Halfway(s, x) \/ service'[x] = "stopped"
    <3>1. CASE \E unit \in Services : BeginRestart(s, unit)
      <4>1. PICK unit \in Services : BeginRestart(s, unit)
        BY <3>1
      <4>2. shell'[s].step = shell[s].step /\ shell[s].step = unit
        BY <4>1, <1>t DEF BeginRestart, Begin, At, Shells
      <4>3. r = s => x = unit
        BY <4>2 DEF Halfway, At
      <4> QED
        BY <4>1, <4>3, <1>t DEF BeginRestart
    <3>2. CASE ~\E unit \in Services : BeginRestart(s, unit)
      <4>1. CASE \E part \in Parts : BeginPart(s, part)
        <5>1. \E part \in Parts : shell'[s].step = part
          BY <4>1, <1>t DEF BeginPart, Begin, At, Shells
        <5> QED
          BY <5>1, Different DEF Halfway, At
      <4>2. CASE BackUp(s)
        <5>1. shell'[s].step \in {"copy", "fstab"}
          <6>1. PICK step \in {"copy", "fstab"} : Moves(s, step, swap.copy = None)
            BY <4>2 DEF BackUp, Moves
          <6> QED
            BY <6>1, <1>t, MoveMeans
        <5> QED
          BY <5>1 DEF Halfway, At, Services
      <4>3. CASE ~BackUp(s) /\ ~\E part \in Parts : BeginPart(s, part)
        <5>1. \E step : Step(s, step)
          BY <1>7, <3>2, <4>3 DEF ShellStep, SwapOff, OpenCopy, CopyEnds, EditFstab, VerifySwap,
             Import, EndPart, NotActive, EndRestart
        <5>2. ~shell'[s].half
          BY <5>1, <1>t, MoveMeans DEF Step, Moves
        <5> QED
          BY <5>2 DEF Halfway
      <4> QED
        BY <4>1, <4>2, <4>3
    <3> QED
      BY <3>1, <3>2
  <2> QED
    BY <2>1, <2>2, <2>3 DEF Enabled
<1> QED
  BY <1>1, <1>2, <1>3, <1>4, <1>5, <1>6, <1>7 DEF Next, Advance, Sides

(* The steps of shells turn swap off, or leave it. *)
LEMMA SwapSinks ==
    ASSUME BInv, NEW s \in Sides, ShellStep(s) \/ CommandFails(s) \/ CopyFails(s)
    PROVE  /\ swap'.on => swap.on
           /\ swap'.fstab = swap.fstab \/ swap'.fstab = "commented"
<1>t. swap \in [on : BOOLEAN, fstab : {"original", "commented"}, copy : Copies \cup {None}]
  BY DEF BInv, TypeOK
<1>1. CASE SwapOff(s)
  BY <1>1, <1>t DEF SwapOff
<1>2. CASE OpenCopy(s)
  BY <1>2, <1>t DEF OpenCopy
<1>3. CASE CopyEnds(s)
  BY <1>3, <1>t DEF CopyEnds
<1>4. CASE EditFstab(s)
  BY <1>4, <1>t DEF EditFstab
<1>5. CASE CopyFails(s)
  BY <1>5, <1>t DEF CopyFails
<1>6. CASE CommandFails(s)
  BY <1>6 DEF CommandFails, target
<1>7. CASE /\ ~SwapOff(s) /\ ~OpenCopy(s) /\ ~CopyEnds(s) /\ ~EditFstab(s) /\ ShellStep(s)
  BY <1>7 DEF ShellStep, BackUp, VerifySwap, Import, BeginPart, EndPart, BeginRestart, NotActive,
     EndRestart, target
<1> QED
  BY <1>1, <1>2, <1>3, <1>4, <1>5, <1>6, <1>7

LEMMA WholeStays ==
    ASSUME BInv, Enabled, staged.all = manifest, UNCHANGED <<machine, manifest>>,
           shell["front"].step \notin Things,
           \/ \E s \in Sides : ShellStep(s) \/ CommandFails(s) \/ CopyFails(s)
           \/ UNCHANGED <<swap, installed, service, spoiled>> /\ shell'["left"] = shell["left"]
           \/ Reboot,
           Whole
    PROVE  Whole'
<1>t. /\ swap \in [on : BOOLEAN, fstab : {"original", "commented"}, copy : Copies \cup {None}]
      /\ installed \in [Parts -> Bundles \cup {None, Torn}]
      /\ service \in [Services -> {"absent", "stopped", "running"}]
  BY DEF BInv, TypeOK
<1>x. Things' = Things /\ Parts' = Parts /\ Services' = Services
  BY DEF Things, Parts, Services
<1>1. CASE UNCHANGED <<swap, installed, service, spoiled>> /\ shell'["left"] = shell["left"]
  BY <1>1, <1>x DEF Whole, SwapGone, Done, Halfway, At
<1>2. CASE Reboot
  <2>1. swap'.fstab = swap.fstab /\ installed' = installed
    BY <1>2, <1>t DEF Reboot
  <2>2. swap'.on <=> machine.swapUnit \/ (machine.swapInFstab /\ swap.fstab = "original")
    BY <1>2, <1>t DEF Reboot
  <2>3. SwapGone'
    BY <2>1, <2>2 DEF Whole, SwapGone
  <2> DEFINE torn == \E p \in Parts : installed[p] = Torn
  <2>4. /\ service' = [x \in Services |-> IF service[x] = "absent" THEN "absent"
                                          ELSE IF torn THEN "stopped" ELSE "running"]
        /\ spoiled' = spoiled \cup {p \in Parts : Halfway("left", p)}
                              \cup (IF torn THEN Services ELSE {})
    BY <1>2 DEF Reboot
  <2> HIDE DEF torn
  <2>5. ASSUME NEW x \in Things PROVE Done(x)'
    <3>1. Done(x)
      BY DEF Whole
    <3>2. CASE x \in Parts
      BY <2>1, <2>4, <3>1, <3>2, <1>x, Different DEF Done
    <3>3. CASE x \in Services
      <4>1. x \in spoiled \/ service[x] # "absent"
        BY <3>1, <3>3, Different DEF Done, Enabled, Sides
      <4> QED
        BY <2>4, <3>3, <4>1, <1>x DEF Done
    <3> QED
      BY <3>2, <3>3 DEF Things
  <2> QED
    BY <2>3, <2>5, <1>x DEF Whole
<1>3. ASSUME NEW s \in Sides, ShellStep(s) \/ CommandFails(s) \/ CopyFails(s) PROVE Whole'
  <2>1. SwapGone'
    BY <1>3, SwapSinks DEF Whole, SwapGone
  <2>2. ASSUME NEW x \in Things PROVE Done(x)'
    BY <1>3, DoneStays DEF Whole
  <2> QED
    BY <2>1, <2>2, <1>x DEF Whole
<1> QED
  BY <1>1, <1>2, <1>3

(* A shell that ends a part or a restart of its own has done it.             *)
LEMMA LineDone ==
    ASSUME BInv, staged.all = manifest, manifest' = manifest, shell["front"].of = manifest,
           NEW x \in Things, ShellStep("front"), shell["front"].step = x,
           shell'["front"].step = NextLine(x)
    PROVE  Done(x)'
<1>1. NextLine(x) # x
  BY NextLines DEF Things, Parts, Services
<1>2. ~Halfway("front", x)'
  BY <1>1 DEF Halfway, At
<1>3. shell'["left"] = shell["left"]
  BY OneMoves DEF Sides
<1>4. FoundFor("front") = {manifest} /\ Other("front") = "left"
  BY DEF FoundFor, Other
<1>t. shell \in [Sides -> Shells] /\ "front" \in Sides
  BY DEF BInv, TypeOK, Sides
<1>5. Halfway("front", x) /\ shell' # shell
  <2>1. PICK to \in ShellSteps, half \in BOOLEAN :
           Moves("front", to, half) /\ LineMove("front", to, half) /\ shell["front"].script # "none"
    BY <1>t, StepsTo
  <2>2. to = NextLine(x)
    BY <2>1, <1>t, MoveMeans
  <2>3. NextLine(x) # "failed"
    BY NextLines DEF Things, Parts, Services
  <2>4. shell["front"].half
    BY <2>1, <2>2, <2>3, <1>1, Different DEF LineMove, SwapSteps
  <2> QED
    BY <2>1, <2>4, <1>1 DEF Halfway, At
<1>6. \/ x \in Parts /\ installed'[x] = IF Halfway("left", x) THEN Torn ELSE manifest
      \/ x \in Services /\ service'[x] = "running"
  BY <1>2, <1>4, <1>5, <1>t, ShellDeeds
<1> QED
  BY <1>3, <1>6 DEF Done, Halfway, At, Parts, Services

LEMMA ProgressStays ==
    ASSUME BInv, pc = "preparing", staged.all = manifest, Progress,
           UNCHANGED <<machine, manifest>>, NEW s \in Sides,
           ShellStep(s) \/ CommandFails(s) \/ CopyFails(s)
    PROVE  Progress'
<1> DEFINE step == shell["front"].step
<1>t. /\ swap \in [on : BOOLEAN, fstab : {"original", "commented"}, copy : Copies \cup {None}]
      /\ shell \in [Sides -> Shells]
      /\ shell["front"].script = "prepare" /\ shell["front"].of = manifest
      /\ "front" \in Sides
  BY DEF BInv, TypeOK, FrontShell, Sides
<1>d. /\ DoneBefore("programs") = {"tools"} /\ DoneBefore("runtime") = {"tools", "programs"}
      /\ DoneBefore("containerd") = Parts /\ DoneBefore("kubelet") = Parts \cup {"containerd"}
      /\ DoneBefore("ok") = Things
      /\ \A to \in SwapSteps \cup {"tools", "failed", "images"} : DoneBefore(to) = {}
  BY DEF DoneBefore, SwapSteps
<1>n. \A x \in ShellSteps : x \in SwapSteps \cup Things \cup {"images", "ok", "failed"}
  BY DEF ShellSteps, Things
<1>o. step \in ShellSteps
  BY <1>t DEF Shells
<1>b. DoneBefore(step) \subseteq Things /\ (step # "ok" => step \notin DoneBefore(step))
  BY <1>d, <1>n, <1>o DEF Things, Parts, Services, SwapSteps
<1>k. ASSUME NEW x \in DoneBefore(step), step # "ok" PROVE Done(x)'
  BY <1>b, <1>k, DoneStays DEF Progress
<1>s. /\ swap'.on => swap.on
      /\ swap'.fstab = swap.fstab \/ swap'.fstab = "commented"
  BY SwapSinks
<1>1. CASE s = "left"
  <2>1. shell'["front"] = shell["front"]
    BY <1>1, OneMoves DEF Sides
  <2>2. \A x \in DoneBefore(step) : Done(x)'
    BY <1>1, <1>b, DoneStays, Different DEF Progress, Things
  <2> QED
    BY <2>1, <2>2, <1>s DEF Progress
<1>2. CASE s = "front" /\ (CommandFails(s) \/ CopyFails(s))
  <2>1. Moves("front", "failed", FALSE) \/
           (Moves("front", "fstab", FALSE) /\ step \in {"copy", "copying"} /\ swap'.on = swap.on)
    BY <1>2, <1>t DEF CommandFails, CopyFails, Step, Moves, At
  <2>2. shell'["front"].step = "failed" \/
           (shell'["front"].step = "fstab" /\ step \in {"copy", "copying"} /\ swap'.on = swap.on)
    BY <2>1, <1>t, MoveMeans
  <2>3. DoneBefore(shell'["front"].step) = {}
    BY <2>2, <1>d DEF SwapSteps
  <2> QED
    BY <2>2, <2>3 DEF Progress
<1>3. CASE s = "front" /\ ShellStep(s)
  <2>1. PICK to \in ShellSteps, half \in BOOLEAN :
           Moves("front", to, half) /\ LineMove("front", to, half)
    BY <1>3, <1>t, StepsTo
  <2>2. shell'["front"].step = to
    BY <2>1, <1>t, MoveMeans
  <2>3. to \notin {"swapoff", "failed"} => ~swap'.on
    <3>1. CASE step = "swapoff"
      <4>1. SwapOff("front")
        BY <1>3, <3>1 DEF ShellStep, SwapOff, BackUp, OpenCopy, CopyEnds, EditFstab, VerifySwap,
           Import, BeginPart, EndPart, BeginRestart, NotActive, EndRestart, Begin, Halfway, At,
           Parts, Services
      <4> QED
        BY <4>1, <1>t DEF SwapOff
    <3>2. CASE step # "swapoff" /\ step # "failed"
      BY <3>2, <1>s DEF Progress
    <3>3. step # "failed"
      BY <2>1 DEF LineMove, Parts, Services
    <3> QED
      BY <3>1, <3>2, <3>3
  <2>4. to \notin {"swapoff", "backup", "copy", "copying", "fstab", "failed"} =>
           (machine.swapInFstab => swap'.fstab = "commented")
    <3>1. CASE step = "fstab"
      <4>1. EditFstab("front")
        BY <1>3, <3>1 DEF ShellStep, SwapOff, BackUp, OpenCopy, CopyEnds, EditFstab, VerifySwap,
           Import, BeginPart, EndPart, BeginRestart, NotActive, EndRestart, Begin, Halfway, At,
           Parts, Services
      <4> QED
        BY <4>1, <1>t DEF EditFstab
    <3>2. CASE step \in {"swapoff", "backup", "copy", "copying"}
      BY <2>1, <3>2 DEF LineMove, Parts, Services
    <3>3. CASE step \notin {"swapoff", "backup", "copy", "copying", "fstab", "failed"}
      BY <3>3, <1>s DEF Progress
    <3>4. step # "failed"
      BY <2>1 DEF LineMove, Parts, Services
    <3> QED
      BY <3>1, <3>2, <3>3, <3>4
  <2>5. ASSUME NEW x \in DoneBefore(to) PROVE Done(x)'
    <3>0. step # "ok"
      BY <2>1 DEF LineMove, Parts, Services
    <3>1. CASE x \in DoneBefore(step)
      BY <3>0, <3>1, <1>k
    <3>2. CASE x \notin DoneBefore(step)
      <4>1. step \in Things /\ to = NextLine(step) /\ x = step
        <5>1. CASE step \in Things /\ to = NextLine(step)
          BY <2>5, <3>2, <5>1, <1>d, NextLines DEF Things, Parts, Services
        <5>2. CASE to = step
          BY <2>5, <3>2, <5>2
        <5>3. CASE to \in SwapSteps \cup {"tools", "failed", "images"}
          BY <2>5, <5>3, <1>d
        <5>4. to = "ok" => step = "kubelet" /\ to = NextLine(step)
          <6>1. step \notin {"images"}
            BY <1>t DEF BInv, ScriptSteps
          <6> QED
            BY <6>1, <2>1, <1>t, NextLines DEF LineMove, Parts, Services
        <5> QED
          BY <2>1, <5>1, <5>2, <5>3, <5>4 DEF LineMove, SwapSteps, Things, Services
      <4> QED
        BY <4>1, <1>3, <1>t, <2>2, LineDone
    <3> QED
      BY <3>1, <3>2
  <2> QED
    BY <2>2, <2>3, <2>4, <2>5 DEF Progress
<1> QED
  BY <1>1, <1>2, <1>3 DEF Sides

LEMMA WholeStep == BInv /\ WInv /\ [Next]_vars => WInv'
<1> SUFFICES ASSUME BInv, WInv, [Next]_vars PROVE WInv'
  OBVIOUS
<1>t. TypeOK /\ FrontShell /\ Route
  BY DEF BInv
<1>w. machine' = machine
  BY GivenStays DEF world
<1>e. Enabled /\ Enabled'
  BY EnabledStays DEF WInv
<1>x. Parts' = Parts /\ Services' = Services /\ Things' = Things
  BY DEF Parts, Services, Things
<1>f. pc \notin {"swap", "preparing"} => shell["front"].step \notin Things
  <2>1. CASE pc = "importing"
    <3>1. shell["front"].step \in {"images", "ok", "failed"}
      BY <2>1 DEF BInv, FrontShell, ScriptSteps, Sides
    <3> QED
      BY <3>1, Different
  <2>2. CASE pc \notin {"swap", "preparing", "importing"}
    BY <2>2, IdleShell, Different DEF BInv, FrontShell
  <2> QED
    BY <2>1, <2>2
<1>v. ASSUME UNCHANGED <<swap, installed, service, spoiled, manifest>>, Whole,
             shell'["left"] = shell["left"]
      PROVE  Whole'
  BY <1>v, <1>w, <1>x DEF Whole, SwapGone, Done, Halfway, At
<1> USE DEF OwnFiles, Succeeded
<1>a. ASSUME pc' \notin {"profile", "prepare", "preparing", "images", "importing"},
             outcome' # "none" => pc' = "idle",
             ~(outcome' = "done" /\ command' \in {"prepare", "add"})
      PROVE  WInv'
  BY <1>a, <1>e DEF WInv
<1>1. ASSUME NEW c \in Commands, Start(c) PROVE WInv'
  BY <1>1, <1>a DEF Start
<1>2. CASE LoadConfig \/ LocalPreflight \/ CheckRemote \/ SwapPrepared \/ Recheck \/ CheckBundle
           \/ ReportCheck \/ CheckPorts \/ ExtractAndUpload
  <2>1. /\ pc # "idle" /\ pc' \notin {"profile", "prepare", "preparing", "images", "importing"}
        /\ outcome' = outcome \/ pc' = "idle"
        /\ outcome' = "done" => command' = "check" \/ outcome = "done"
    BY <1>2 DEF LoadConfig, LocalPreflight, CheckRemote, SwapPrepared, Recheck, CheckBundle,
       ReportCheck, CheckPorts, ExtractAndUpload, Gate, Returns, Goto, End
  <2> QED
    BY <1>a, <2>1 DEF WInv
<1>3. CASE PushReturns
  <2>1. pc = "pushing" /\ staged'.all = manifest /\ UNCHANGED <<manifest, command>>
    BY <1>3, <1>t DEF PushReturns, Goto, End, TypeOK
  <2>2. \/ pc' = "idle" /\ command = "push"
        \/ pc' \in {"prepare", "profile"} /\ outcome' = outcome
        \/ pc' = "images" /\ command = "images" /\ outcome' = outcome
    BY <1>3, <1>t DEF PushReturns, Goto, End, AfterPush, Route, Commands
  <2> QED
    BY <2>1, <2>2, <1>e DEF WInv
<1>4. CASE CheckProfile \/ PrepareNode
  <2>1. /\ pc \in {"profile", "prepare"} /\ staged' = staged /\ UNCHANGED <<manifest, command>>
        /\ \/ pc' \in {"prepare"} /\ outcome' = outcome
           \/ pc' = "idle" /\ outcome' = "unfit"
           \/ pc' = "preparing" /\ outcome' = outcome /\ shell'["front"].step = "swapoff"
    <3>1. CASE CheckProfile
      BY <3>1 DEF CheckProfile, Demand, Goto, End, target
    <3>2. CASE PrepareNode
      <4>1. shell \in [Sides -> Shells]
        BY <1>t DEF TypeOK, Sides
      <4> QED
        BY <3>2, <4>1 DEF PrepareNode, Demand, Run, Goto, End, target, Sides
    <3> QED
      BY <1>4, <3>1, <3>2
  <2>2. ASSUME pc' = "preparing" PROVE Progress'
    BY <2>1, <2>2 DEF Progress, DoneBefore
  <2> QED
    BY <2>1, <2>2, <1>e DEF WInv
<1>5. CASE ImportImages
  <2>1. /\ pc = "images" /\ UNCHANGED <<manifest, command>>
        /\ UNCHANGED <<swap, staged, installed, service, images, spoiled>>
        /\ shell'["left"] = shell["left"]
        /\ \/ pc' = "idle" /\ outcome' = "unfit"
           \/ pc' = "importing" /\ outcome' = outcome /\ shell'["front"].step = "images"
    <3>1. shell \in [Sides -> Shells]
      BY <1>t DEF TypeOK, Sides
    <3>2. /\ pc = "images" /\ UNCHANGED <<manifest, command>>
          /\ UNCHANGED <<swap, staged, installed, service, images, spoiled>>
      BY <1>5 DEF ImportImages, Demand, Goto, End, target, history
    <3>3. \/ pc' = "idle" /\ outcome' = "unfit"
          \/ pc' = "importing" /\ outcome' = outcome /\ Run("images", manifest)
      BY <1>5 DEF ImportImages, Demand, Goto, End
    <3>4. Run("images", manifest) => shell'["front"].step = "images"
      BY <3>1 DEF Run, Sides
    <3>5. shell'["left"] = shell["left"]
      BY <1>5, <3>1 DEF ImportImages, Demand, Run, Sides
    <3> QED
      BY <3>2, <3>3, <3>4, <3>5
  <2>2. Whole => Whole'
    BY <2>1, <1>v
  <2> QED
    BY <2>1, <2>2, <1>e DEF WInv
<1>6. CASE PrepareReturns
  <2>1. /\ pc = "preparing" /\ UNCHANGED <<manifest, command>>
        /\ UNCHANGED <<swap, staged, installed, service, images, spoiled>>
        /\ shell' = [shell EXCEPT !.front = NoShell]
        /\ \/ pc' = "idle" /\ outcome' = "failed"
           \/ /\ shell["front"].step = "ok"
              /\ \/ pc' = "images" /\ command = "add" /\ outcome' = outcome
                 \/ pc' = "idle" /\ command # "add" /\ outcome' = "done"
    BY <1>6 DEF PrepareReturns, Returns, ShellEnded, Goto, End, target, history
  <2>2. shell["front"].step = "ok" => Whole
    BY <2>1 DEF WInv, Progress, Whole, SwapGone, DoneBefore
  <2>3. shell'["left"] = shell["left"]
    BY <2>1, <1>t DEF TypeOK
  <2>4. Whole => Whole'
    BY <2>1, <2>3, <1>v
  <2> QED
    BY <2>1, <2>2, <2>4, <1>e DEF WInv
<1>7. CASE ImagesReturn
  <2>1. /\ pc = "importing" /\ pc' = "idle" /\ UNCHANGED <<manifest, command>>
        /\ UNCHANGED <<swap, staged, installed, service, images, spoiled>>
        /\ shell' = [shell EXCEPT !.front = NoShell]
        /\ outcome' = "failed" \/ (shell["front"].step = "ok" /\ outcome' = "done")
    BY <1>7 DEF ImagesReturn, ShellEnded, End, target, history
  <2>2. shell'["left"] = shell["left"]
    BY <2>1, <1>t DEF TypeOK
  <2>3. Whole => Whole'
    BY <2>1, <2>2, <1>v
  <2> QED
    BY <2>1, <2>3, <1>t, <1>e DEF WInv, Route
<1>8. ASSUME NEW s \in Sides, ShellStep(s) \/ CommandFails(s) \/ CopyFails(s) PROVE WInv'
  <2>1. UNCHANGED <<process, staged>> /\ images \subseteq images'
    <3>1. CASE ShellStep(s)
      BY <3>1 DEF ShellStep, SwapOff, BackUp, OpenCopy, CopyEnds, EditFstab, VerifySwap, Import,
         BeginPart, EndPart, BeginRestart, NotActive, EndRestart, OnlySwapMoves, target
    <3>2. CASE CommandFails(s) \/ CopyFails(s)
      BY <3>2 DEF CommandFails, CopyFails, target
    <3> QED
      BY <1>8, <3>1, <3>2
  <2>2. UNCHANGED <<pc, command, manifest, outcome>>
    BY <2>1 DEF process
  <2>3. staged.all = manifest /\ Whole /\ pc \notin {"swap", "preparing"} => Whole'
    BY <1>8, <1>w, <1>e, <1>f, <2>2, WholeStays
  <2>4. pc = "preparing" /\ staged.all = manifest /\ Progress => Progress'
    BY <1>8, <1>w, <2>2, ProgressStays
  <2>5. ASSUME pc = "importing", staged.all = manifest, shell'["front"].step = "ok",
               shell["front"].step # "ok"
        PROVE  manifest \in images'
    <3>1. /\ shell \in [Sides -> Shells] /\ shell["front"].script = "images"
          /\ shell["front"].of = manifest /\ "front" \in Sides
      BY <1>t, <2>5 DEF TypeOK, FrontShell, Sides
    <3>2. s = "front"
      BY <1>8, <2>5, OneMoves DEF Sides
    <3>3. \A to, half : Moves("front", to, half) => shell'["front"].step = to
      BY <3>1, MoveMeans
    <3>4. ~CommandFails("front") /\ ~CopyFails("front") /\ ~Step("front", "failed")
      BY <2>5, <3>3 DEF CommandFails, CopyFails, Step, Moves
    <3>5. Import("front")
      <4>1. ShellStep("front")
        BY <1>8, <3>2, <3>4
      <4>2. /\ ~(\E step \in SwapSteps : At("front", step))
            /\ ~(\E step \in Parts \cup Services : At("front", step))
        BY <3>1, ScriptOf
      <4> QED
        BY <4>1, <4>2 DEF ShellStep, SwapOff, BackUp, OpenCopy, CopyEnds, EditFstab, VerifySwap,
           BeginPart, EndPart, BeginRestart, NotActive, EndRestart, Begin, Halfway, SwapSteps
    <3>6. FoundFor("front") = {manifest}
      BY <2>5, <3>1 DEF FoundFor
    <3> QED
      BY <3>4, <3>5, <3>6 DEF Import
  <2>6. pc' = "importing" /\ shell'["front"].step = "ok" /\ staged.all = manifest => manifest \in images'
    BY <2>1, <2>2, <2>5 DEF WInv
  <2>7. Succeeded => pc = "idle"
    BY DEF WInv
  <2> QED
    BY <2>1, <2>2, <2>3, <2>4, <2>6, <2>7, <1>e DEF WInv
<1>9. CASE Break
  BY <1>9, <1>a DEF Break, End
<1>10. CASE Reboot
  <2>1. CASE Connected
    BY <1>10, <2>1, <1>a DEF Reboot, End
  <2>2. CASE ~Connected
    <3>1. UNCHANGED <<process, staged, images>> /\ pc \in {"idle", "load", "local"}
      BY <1>10, <2>2 DEF Reboot, Connected
    <3>2. staged.all = manifest /\ Whole => Whole'
      BY <1>10, <1>w, <1>e, <1>f, <3>1, WholeStays DEF process
    <3> QED
      BY <3>1, <3>2, <1>e DEF WInv, process
  <2> QED
    BY <2>1, <2>2
<1>11. CASE (\E b \in Bundles : ReplaceBundle(b)) \/ UNCHANGED vars
  <2>1. UNCHANGED <<process, shell, target, spoiled>>
    BY <1>11 DEF ReplaceBundle, vars, history
  <2>2. Whole => Whole'
    BY <2>1, <1>v DEF process, target
  <2>3. Progress => Progress'
    BY <2>1, <1>w, <1>x DEF Progress, DoneBefore, Done, Halfway, At, process, target
  <2> QED
    BY <2>1, <2>2, <2>3, <1>e DEF WInv, process, target
<1> QED
  BY <1>1, <1>2, <1>3, <1>4, <1>5, <1>6, <1>7, <1>8, <1>9, <1>10, <1>11 DEF Next, Advance, Sides

LEMMA WholeInit == Init => WInv
<1>1. Init => Enabled
  BY IdleShell DEF Init, Enabled, Halfway, Sides
<1> QED
  BY <1>1 DEF Init, WInv, OwnFiles, Succeeded

(* A preparation that reports success has left the target whole, part by part *)
(* and unit by unit, whatever shells of interrupted commands were at work     *)
(* beside it, and it stays so, over reboots too; except what such a shell is  *)
(* in the middle of, has left half done, or did for another bundle, until a   *)
(* command does it again.                                                     *)
THEOREM PreparedStaysWhole == Spec => []PreparedIsWhole
<1>1. WInv => PreparedIsWhole
  BY Different DEF WInv, PreparedIsWhole, Succeeded, Whole, SwapGone, Done, Things
<1> QED
  BY <1>1, WholeInit, BasicAlways, WholeStep, PTL DEF Spec

-----------------------------------------------------------------------------
(* Induction, in the form the provers can use: a set of numbers, not an      *)
(* operator, is what the induction is over.                                  *)
Less == {p \in Nat \X Nat : p[1] < p[2]}

LEMMA LeastNatural ==
    ASSUME NEW S \in SUBSET Nat, S # {}
    PROVE  \E m \in S : \A k \in S : m <= k
<1>1. Less = OpToRel(<, Nat)
  BY Zenon DEF Less, OpToRel
<1>2. IsWellFoundedOn(Less, Nat)
  BY <1>1, NatLessThanWellFounded
<1>3. PICK m \in S : \A k \in S : <<k, m>> \notin Less
  BY <1>2, WFMin
<1>4. ASSUME NEW k \in S PROVE m <= k
  <2>1. <<k, m>> \in Nat \X Nat /\ <<k, m>>[1] = k /\ <<k, m>>[2] = m
    OBVIOUS
  <2>2. ~(k < m)
    BY <1>3, <2>1, Zenon DEF Less
  <2> QED
    BY <2>2
<1> QED
  BY <1>4

LEMMA Induction ==
    ASSUME NEW S \in SUBSET Nat, 0 \in S, \A n \in S : n + 1 \in S
    PROVE  S = Nat
<1> SUFFICES ASSUME Nat \ S # {} PROVE FALSE
  OBVIOUS
<1>1. PICK m \in Nat \ S : \A k \in Nat \ S : m <= k
  BY LeastNatural
<1>2. m - 1 \in S
  BY <1>1
<1> QED
  BY <1>1, <1>2

(* BlockSize is what its definition says it is: there is such a function.    *)
Approximates(f, n) ==
    /\ f \in [0..n -> Nat]
    /\ \A i \in 0..n : f[i] = IF i = 0 THEN 1 ELSE 2 * f[i - 1]

LEMMA BlockSizeEquation ==
    BlockSize = [n \in Nat |-> IF n = 0 THEN 1 ELSE 2 * BlockSize[n - 1]]
<1> DEFINE Defined == {n \in Nat : \E f : Approximates(f, n)}
<1>1. 0 \in Defined
  <2>1. Approximates([i \in 0..0 |-> 1], 0)
    BY DEF Approximates
  <2> QED
    BY <2>1
<1>2. ASSUME NEW n \in Defined PROVE n + 1 \in Defined
  <2>1. PICK f : Approximates(f, n)
    OBVIOUS
  <2> DEFINE g == [i \in 0..(n + 1) |-> IF i = n + 1 THEN 2 * f[n] ELSE f[i]]
  <2>2. n \in Nat /\ f \in [0..n -> Nat] /\ n \in 0..n /\ f[n] \in Nat
    BY <2>1 DEF Approximates
  <2>3. g \in [0..(n + 1) -> Nat]
    BY <2>2
  <2>4. ASSUME NEW i \in 0..(n + 1) PROVE g[i] = IF i = 0 THEN 1 ELSE 2 * g[i - 1]
    <3>1. CASE i = n + 1
      BY <2>2, <3>1
    <3>2. CASE i \in 0..n
      <4>1. g[i] = f[i] /\ (i # 0 => i - 1 \in 0..n /\ g[i - 1] = f[i - 1])
        BY <2>2, <3>2
      <4> QED
        BY <2>1, <3>2, <4>1 DEF Approximates
    <3> QED
      BY <2>2, <3>1, <3>2
  <2>5. Approximates(g, n + 1)
    BY <2>3, <2>4 DEF Approximates
  <2> HIDE DEF g
  <2> QED
    BY <2>2, <2>5
<1>3. \A n \in Nat : \E f : Approximates(f, n)
  BY <1>1, <1>2, Induction
<1>4. ASSUME NEW f, NEW g, NEW n \in Nat, NEW k \in Nat, Approximates(f, n), Approximates(g, k)
      PROVE  \A i \in 0..n : i <= k => f[i] = g[i]
  <2> DEFINE Same == {i \in Nat : i <= n /\ i <= k => f[i] = g[i]}
  <2>1. 0 \in Same
    BY <1>4 DEF Approximates
  <2>2. ASSUME NEW i \in Same PROVE i + 1 \in Same
    <3>1. i \in Nat /\ (i <= n /\ i <= k => f[i] = g[i])
      OBVIOUS
    <3>2. CASE i + 1 <= n /\ i + 1 <= k
      <4>1. f[i + 1] = 2 * f[i] /\ g[i + 1] = 2 * g[i]
        <5>1. i + 1 \in 0..n /\ i + 1 \in 0..k /\ i + 1 # 0 /\ (i + 1) - 1 = i
          BY <3>1, <3>2
        <5> QED
          BY <1>4, <5>1 DEF Approximates
      <4> QED
        BY <3>1, <3>2, <4>1
    <3> QED
      BY <3>1, <3>2
  <2>3. Same = Nat
    <3> HIDE DEF Same
    <3>1. Same \in SUBSET Nat
      BY DEF Same
    <3> QED
      BY <2>1, <2>2, <3>1, Induction
  <2> QED
    BY <2>3
<1> DEFINE approx == [n \in Nat |-> CHOOSE f : Approximates(f, n)]
           h == [n \in Nat |-> approx[n][n]]
<1>5. \A n \in Nat : Approximates(approx[n], n)
  BY <1>3
<1>6. h = [n \in Nat |-> IF n = 0 THEN 1 ELSE 2 * h[n - 1]]
  <2>1. ASSUME NEW n \in Nat PROVE h[n] = IF n = 0 THEN 1 ELSE 2 * h[n - 1]
    <3> HIDE DEF approx
    <3>1. approx[n][n] = IF n = 0 THEN 1 ELSE 2 * approx[n][n - 1]
      <4>1. n \in 0..n /\ Approximates(approx[n], n)
        BY <1>5
      <4> QED
        BY <4>1 DEF Approximates
    <3>2. n # 0 => approx[n][n - 1] = approx[n - 1][n - 1]
      <4> SUFFICES ASSUME n # 0 PROVE approx[n][n - 1] = approx[n - 1][n - 1]
        OBVIOUS
      <4>1. n - 1 \in Nat /\ n - 1 \in 0..n /\ n - 1 <= n - 1
        OBVIOUS
      <4>2. Approximates(approx[n], n) /\ Approximates(approx[n - 1], n - 1)
        BY <4>1, <1>5
      <4>3. \A i \in 0..n : i <= n - 1 => approx[n][i] = approx[n - 1][i]
        BY <4>1, <4>2, <1>4
      <4> QED
        BY <4>1, <4>3
    <3> QED
      BY <3>1, <3>2
  <2> HIDE DEF h
  <2>2. h = [n \in Nat |-> h[n]]
    BY DEF h
  <2> QED
    BY <2>1, <2>2
<1> HIDE DEF h
<1>7. \E f : f = [n \in Nat |-> IF n = 0 THEN 1 ELSE 2 * f[n - 1]]
  BY <1>6
<1> QED
  BY <1>7 DEF BlockSize

LEMMA BlockSizeSteps ==
    /\ BlockSize[0] = 1
    /\ \A n \in Nat : BlockSize[n + 1] = 2 * BlockSize[n]
    /\ \A n \in Nat : BlockSize[n] \in Nat \ {0}
<1>1. BlockSize[0] = 1
  BY BlockSizeEquation
<1>2. \A n \in Nat : BlockSize[n + 1] = 2 * BlockSize[n]
  <2> TAKE n \in Nat
  <2>1. n + 1 \in Nat /\ n + 1 # 0 /\ (n + 1) - 1 = n
    OBVIOUS
  <2>2. BlockSize[n + 1] = IF n + 1 = 0 THEN 1 ELSE 2 * BlockSize[(n + 1) - 1]
    BY <2>1, BlockSizeEquation
  <2> QED
    BY <2>1, <2>2
<1>3. \A n \in Nat : BlockSize[n] \in Nat \ {0}
  <2> DEFINE S == {n \in Nat : BlockSize[n] \in Nat \ {0}}
  <2>1. 0 \in S
    BY <1>1
  <2>2. ASSUME NEW n \in S PROVE n + 1 \in S
    BY <1>2
  <2>3. S \in SUBSET Nat
    OBVIOUS
  <2> HIDE DEF S
  <2>4. S = Nat
    BY <2>1, <2>2, <2>3, Induction
  <2> QED
    BY <2>4 DEF S
<1> QED
  BY <1>1, <1>2, <1>3

(* A larger block is made of a number of smaller ones.                       *)
LEMMA Multiples ==
    ASSUME NEW m \in Nat, NEW n \in Nat, m <= n
    PROVE  \E c \in Nat \ {0} : BlockSize[n] = c * BlockSize[m]
<1> DEFINE S == {k \in Nat : \E c \in Nat \ {0} : BlockSize[m + k] = c * BlockSize[m]}
<1>1. 0 \in S
  <2>1. m + 0 = m /\ BlockSize[m] = 1 * BlockSize[m]
    BY BlockSizeSteps
  <2> QED
    BY <2>1
<1>2. ASSUME NEW k \in S PROVE k + 1 \in S
  <2>1. PICK c \in Nat \ {0} : BlockSize[m + k] = c * BlockSize[m]
    OBVIOUS
  <2>2. BlockSize[m + (k + 1)] = 2 * BlockSize[m + k]
    <3>1. m + (k + 1) = (m + k) + 1 /\ m + k \in Nat
      OBVIOUS
    <3> QED
      BY <3>1, BlockSizeSteps
  <2>3. BlockSize[m + (k + 1)] = (2 * c) * BlockSize[m]
    <3>1. BlockSize[m] \in Nat
      BY BlockSizeSteps
    <3> QED
      BY <2>1, <2>2, <3>1
  <2> QED
    BY <2>3
<1>3. S \in SUBSET Nat
  OBVIOUS
<1> HIDE DEF S
<1>4. n - m \in S
  BY <1>1, <1>2, <1>3, Induction
<1> QED
  BY <1>4 DEF S

(* Which block of d numbers a number is in, and which block of c * d.        *)
LEMMA SameBlock ==
    ASSUME NEW d \in Nat \ {0}, NEW b \in Nat, b % d = 0, NEW a \in Nat
    PROVE  a \in b..(b + d - 1) <=> a \div d = b \div d
OBVIOUS

LEMMA BlockOfBlocks ==
    ASSUME NEW c \in Nat \ {0}, NEW d \in Nat \ {0}, NEW a \in Nat
    PROVE  a \div (c * d) = (a \div d) \div c
OBVIOUS


(* The block of a canonical prefix is what it contains.                      *)
LEMMA ContainsMembers ==
    ASSUME NEW p, IsPrefix(p), Canonical(p), NEW a \in Nat
    PROVE  Contains(p, a) <=> a \in Members(p)
<1>1. Width - p.bits \in Nat /\ p.address \in Nat
  BY WidthAssumption, BlockSizeSteps DEF IsPrefix, Addresses
<1>2. BlockSize[Width - p.bits] \in Nat \ {0}
  BY <1>1, BlockSizeSteps
<1> QED
  BY <1>1, <1>2, SameBlock DEF Canonical, Contains, Members, Leading

(* Two networks with an address in common overlap.                           *)
LEMMA CommonOverlaps ==
    ASSUME NEW p, NEW q, IsPrefix(p), IsPrefix(q), Canonical(p), Canonical(q),
           NEW a \in Members(p) \cap Members(q)
    PROVE  Overlaps(p, q)
<1>1. a \in Nat /\ Contains(p, a) /\ Contains(q, a)
  <2>1. p.address \in Nat /\ q.address \in Nat
    BY WidthAssumption, BlockSizeSteps DEF IsPrefix, Addresses
  <2>2. a \in Nat
    <3>1. BlockSize[Width - p.bits] \in Nat
      BY WidthAssumption, BlockSizeSteps DEF IsPrefix
    <3> QED
      BY <2>1, <3>1 DEF Members
  <2> QED
    BY <2>2, ContainsMembers
<1>2. ASSUME NEW r, NEW bits \in 0..Width, IsPrefix(r), bits <= r.bits, Contains(r, a)
      PROVE  Leading(a, bits) = Leading(r.address, bits)
  <2>1. /\ Width - bits \in Nat /\ Width - r.bits \in Nat /\ Width - r.bits <= Width - bits
        /\ r.address \in Nat
    BY <1>2, WidthAssumption, BlockSizeSteps DEF IsPrefix, Addresses
  <2>2. PICK c \in Nat \ {0} : BlockSize[Width - bits] = c * BlockSize[Width - r.bits]
    BY <2>1, Multiples
  <2>3. BlockSize[Width - r.bits] \in Nat \ {0}
    BY <2>1, BlockSizeSteps
  <2>4. /\ a \div (c * BlockSize[Width - r.bits]) = (a \div BlockSize[Width - r.bits]) \div c
        /\ r.address \div (c * BlockSize[Width - r.bits])
              = (r.address \div BlockSize[Width - r.bits]) \div c
    BY <1>1, <2>1, <2>3, BlockOfBlocks
  <2> QED
    BY <2>2, <2>4, <1>2 DEF Contains, Leading
<1>3. Shorter(p.bits, q.bits) \in 0..Width /\ Shorter(p.bits, q.bits) <= p.bits
      /\ Shorter(p.bits, q.bits) <= q.bits
  BY WidthAssumption DEF Shorter, IsPrefix
<1> QED
  BY <1>1, <1>2, <1>3 DEF Overlaps

(* What the commands for a network ask for keeps the machines and the two     *)
(* networks apart, address by address.                                       *)
LEMMA AcceptedApart ==
    ASSUME NEW c, NEW role, NEW a \in Addresses,
           IsPrefix(c.network.pod), IsPrefix(c.network.service), c.advertise \in Addresses,
           ValidConfig(c), AddPlanAccepts(c, role, a)
    PROVE  Apart(c, a)
<1> DEFINE pod == c.network.pod
           inside == c.network.service
<1>1. /\ Canonical(pod) /\ Canonical(inside) /\ ~Overlaps(pod, inside)
      /\ \A x \in {c.advertise, a} : ~Contains(pod, x) /\ ~Contains(inside, x)
      /\ a # c.advertise /\ a # c.endpoint
  BY DEF ValidConfig, ValidNetwork, AddPlanAccepts, ValidTargetAddress
<1>2. c.advertise \in Nat /\ a \in Nat
  BY DEF Addresses
<1> HIDE DEF pod, inside
<1>3. IsPrefix(pod) /\ IsPrefix(inside)
  BY DEF pod, inside
<1>4. Members(pod) \cap Members(inside) = {}
  BY <1>1, <1>3, CommonOverlaps
<1>5. \A x \in {c.advertise, a} : x \notin Members(pod) /\ x \notin Members(inside)
  BY <1>1, <1>2, <1>3, ContainsMembers
<1> QED
  BY <1>1, <1>4, <1>5 DEF Apart, pod, inside

(* The configuration and the target are what they were in the beginning.     *)
SettingsTyped ==
    /\ IsPrefix(config.network.pod) /\ IsPrefix(config.network.service)
    /\ config.advertise \in Addresses /\ asked.address \in Addresses
    /\ config.registry.enabled \in BOOLEAN

(* Past its first step a command has found the configuration and the target   *)
(* in order, and none of the later steps can change either.                  *)
Loaded == pc \notin {"idle", "load"} => ValidConfig(config) /\ AddressAccepted

LEMMA LoadedStep == SettingsTyped /\ Loaded /\ [Next]_vars => SettingsTyped' /\ Loaded'
<1> SUFFICES ASSUME SettingsTyped, Loaded, [Next]_vars PROVE SettingsTyped' /\ Loaded'
  OBVIOUS
<1>1. config' = config /\ asked' = asked
  BY GivenStays DEF world
<1>2. SettingsTyped'
  BY <1>1 DEF SettingsTyped
<1>3. ValidConfig(config)' <=> ValidConfig(config)
  BY <1>1
<1>4. command' = command => (AddressAccepted' <=> AddressAccepted)
  BY <1>1 DEF AddressAccepted
<1>5. CASE LoadConfig
  BY <1>2, <1>3, <1>4, <1>5 DEF LoadConfig, Gate, Goto, End, Loaded
<1>6. CASE ~LoadConfig
  <2>1. \/ pc' \in {"idle", "load"}
        \/ command' = command /\ pc \notin {"idle", "load"}
        \/ UNCHANGED <<pc, command>>
    BY <1>6 DEF Next, Advance, LocalPreflight, CheckRemote, SwapPrepared, Recheck, CheckBundle,
       ReportCheck, CheckPorts, ExtractAndUpload, PushReturns, CheckProfile, PrepareNode,
       PrepareReturns, ImportImages, ImagesReturn, Start, ShellStep, CommandFails, CopyFails,
       Break, Reboot, ReplaceBundle, Gate, Returns, Demand, Goto, End, vars, process
  <2> QED
    BY <1>2, <1>3, <1>4, <2>1 DEF Loaded
<1> QED
  BY <1>5, <1>6

LEMMA LoadedInit == Init => SettingsTyped /\ Loaded
BY SettingsAssumption DEF Init, SettingsTyped, Loaded

LEMMA LoadedAlways == Spec => [](SettingsTyped /\ Loaded)
BY LoadedInit, LoadedStep, PTL DEF Spec

(* A machine is connected to for an addition only when it is not Master0, and *)
(* it, Master0 and the two networks have no address in common: whatever the   *)
(* length of the addresses and of the prefixes, and in either order.         *)
THEOREM NetworksApart == Spec => []AddressesApart
<1>1. SettingsTyped /\ Loaded => AddressesApart
  BY AcceptedApart DEF SettingsTyped, Loaded, AddressAccepted, AddressesApart
<1> QED
  BY <1>1, LoadedAlways, PTL

-----------------------------------------------------------------------------
(* The running total is what the loop says: there is such a function.       *)
LEMMA RunningTotalEquation ==
    ASSUME NEW files, Len(files) \in Nat
    PROVE  RunningTotal(files) = [n \in 0..Len(files) |->
              IF n = 0 THEN 0 ELSE RunningTotal(files)[n - 1] + files[n].size]
<1> DEFINE N == Len(files)
           Total(f, n) == f = [i \in 0..n |-> IF i = 0 THEN 0 ELSE f[i - 1] + files[i].size]
           S == {n \in Nat : \E f : Total(f, n)}
<1>1. 0 \in S
  <2>1. Total([i \in 0..0 |-> 0], 0)
    OBVIOUS
  <2> QED
    BY <2>1
<1>2. ASSUME NEW n \in S PROVE n + 1 \in S
  <2>1. PICK f : Total(f, n)
    OBVIOUS
  <2> DEFINE g == [i \in 0..(n + 1) |-> IF i = n + 1 THEN f[n] + files[n + 1].size ELSE f[i]]
  <2>2. n \in Nat /\ n \in 0..n
    OBVIOUS
  <2>3. ASSUME NEW i \in 0..(n + 1)
        PROVE  g[i] = IF i = 0 THEN 0 ELSE g[i - 1] + files[i].size
    <3>1. CASE i = n + 1
      BY <2>2, <3>1
    <3>2. CASE i \in 0..n
      <4>1. g[i] = f[i] /\ (i # 0 => i - 1 \in 0..n /\ g[i - 1] = f[i - 1])
        BY <2>2, <3>2
      <4>2. f[i] = IF i = 0 THEN 0 ELSE f[i - 1] + files[i].size
        BY <2>1, <3>2
      <4> QED
        BY <4>1, <4>2
    <3> QED
      BY <2>2, <3>1, <3>2
  <2>4. g = [i \in 0..(n + 1) |-> g[i]]
    OBVIOUS
  <2> HIDE DEF g
  <2>5. Total(g, n + 1)
    BY <2>3, <2>4
  <2>6. \E x : Total(x, n + 1)
    <3> HIDE DEF Total
    <3> QED
      BY <2>5
  <2> QED
    <3> HIDE DEF Total
    <3> QED
      BY <2>2, <2>6
<1>3. S \in SUBSET Nat
  OBVIOUS
<1>4. N \in S
  <2> HIDE DEF S
  <2> QED
    BY <1>1, <1>2, <1>3, Induction
<1>5. \E f : Total(f, N)
  BY <1>4
<1> QED
  BY <1>5 DEF RunningTotal

(* The total is compared before it grows, so that the sum is never more than  *)
(* the limit, and nothing is refused but for its sum.                        *)
THEOREM TotalChecked ==
    ASSUME NEW files, Len(files) \in Nat, \A n \in 1..Len(files) : files[n].size \in Nat
    PROVE  /\ \A n \in 0..Len(files) : RunningTotal(files)[n] \in Nat
           /\ TotalAccepted(files) <=> RunningTotal(files)[Len(files)] <= MaxTotal
           /\ TotalAccepted(files) => \A n \in 0..Len(files) : RunningTotal(files)[n] <= MaxTotal
<1> DEFINE N == Len(files)
           total == RunningTotal(files)
           S == {n \in Nat : n <= N => total[n] \in Nat}
<1>1. total[0] = 0 /\ \A n \in 1..N : total[n] = total[n - 1] + files[n].size
  BY RunningTotalEquation
<1> HIDE DEF total
<1>2. \A n \in 0..N : total[n] \in Nat
  <2>1. 0 \in S
    BY <1>1
  <2>2. ASSUME NEW n \in S PROVE n + 1 \in S
    <3>1. CASE n + 1 <= N
      <4>1. n + 1 \in 1..N /\ (n + 1) - 1 = n /\ total[n] \in Nat
        BY <3>1
      <4> QED
        BY SMTT(30), <1>1, <4>1
    <3> QED
      BY <3>1
  <2>3. S \in SUBSET Nat
    OBVIOUS
  <2>4. S = Nat
    <3> HIDE DEF S
    <3> QED
      BY <2>1, <2>2, <2>3, Induction
  <2> QED
    BY <2>4
<1>3. \A n \in 1..N : total[n - 1] <= MaxTotal - files[n].size <=> total[n] <= MaxTotal
  <2> TAKE n \in 1..N
  <2>1. n - 1 \in 0..N
    OBVIOUS
  <2>2. total[n - 1] \in Nat /\ total[n] = total[n - 1] + files[n].size
    BY <1>1, <1>2, <2>1
  <2>3. files[n].size \in Nat /\ MaxTotal \in Nat
    BY LimitsAssumption
  <2> HIDE DEF N, S
  <2> QED
    BY <2>2, <2>3
<1>4. TotalAccepted(files) <=> \A n \in 1..N : total[n] <= MaxTotal
  BY <1>3 DEF TotalAccepted, total
<1>5. ASSUME total[N] <= MaxTotal PROVE \A n \in 0..N : total[n] <= MaxTotal
  <2> DEFINE T == {k \in Nat : k <= N => total[N - k] <= MaxTotal}
  <2>1. 0 \in T
    BY <1>5
  <2>2. ASSUME NEW k \in T PROVE k + 1 \in T
    <3>1. CASE k + 1 <= N
      <4>1. /\ N - k \in 1..N /\ N - k \in 0..N /\ N - (k + 1) = (N - k) - 1
            /\ N - (k + 1) \in 0..N /\ total[N - k] <= MaxTotal
        BY <3>1
      <4>2. /\ total[N - k] = total[N - (k + 1)] + files[N - k].size
            /\ total[N - k] \in Nat /\ total[N - (k + 1)] \in Nat /\ files[N - k].size \in Nat
        BY <1>1, <1>2, <4>1
      <4>3. total[N - (k + 1)] <= MaxTotal
        BY <4>1, <4>2, LimitsAssumption
      <4> QED
        BY <4>3
    <3> QED
      BY <3>1
  <2>3. T \in SUBSET Nat
    OBVIOUS
  <2>4. T = Nat
    <3> HIDE DEF T
    <3> QED
      BY <2>1, <2>2, <2>3, Induction
  <2> TAKE n \in 0..N
  <2>5. N - n \in Nat /\ N - n <= N /\ N - (N - n) = n
    OBVIOUS
  <2>6. total[N - (N - n)] <= MaxTotal
    BY <2>4, <2>5
  <2> QED
    BY <2>5, <2>6
<1>6. TotalAccepted(files) => total[N] <= MaxTotal
  BY <1>1, <1>4, LimitsAssumption
<1> QED
  BY <1>2, <1>4, <1>5, <1>6 DEF total

(* A role of its own kind, where host files have theirs. *)
RoleFits(role, dir) ==
    /\ role \in DOMAIN RoleKind /\ RoleKind[role] = KindOf[dir]
    /\ role = "hostTool" => dir \in {"systemBin", "systemBinSub"}
    /\ role = "hostLibrary" => dir \in {"systemLib", "systemLibSub"}

(* The table of conventions agrees with the table of kinds. *)
LEMMA ConventionsFit ==
    ASSUME NEW dir \in DOMAIN KindOf, NEW base, ConventionalRole(dir, base) # "none"
    PROVE  RoleFits(ConventionalRole(dir, base), dir)
<1> DEFINE named == {c[3] : c \in {d \in Conventions : d[1] = dir /\ d[2] = base}}
           chosen == CHOOSE role \in named : TRUE
<1>1. ASSUME NEW c \in Conventions, c[1] = dir PROVE RoleFits(c[3], dir)
  <2>1. \/ c[1] = "bin" /\ c[3] \in {"kubeadm", "kubelet", "kubectl", "criTool", "runc"}
        \/ c[1] = "cri" /\ c[3] = "containerd"
        \/ c[1] = "etcContainerd" /\ c[3] = "containerdConfig"
        \/ c[1] = "etcSystemd" /\ c[3] = "systemdUnit"
        \/ c[1] = "manifests" /\ c[3] \in {"ciliumManifest", "registryManifest"}
        \/ c[1] = "scripts" /\ c[3] = "initScript"
    BY DEF Conventions
  <2>2. /\ c[3] \in DOMAIN RoleKind /\ c[3] \notin {"hostTool", "hostLibrary"}
        /\ RoleKind[c[3]] = KindOf[c[1]]
    <3>1. CASE c[1] = "bin" /\ c[3] \in {"kubeadm", "kubelet", "kubectl", "criTool", "runc"}
      BY <3>1 DEF RoleKind, KindOf
    <3>2. CASE c[1] = "cri" /\ c[3] = "containerd"
      BY <3>2 DEF RoleKind, KindOf
    <3>3. CASE c[1] = "etcContainerd" /\ c[3] = "containerdConfig"
      BY <3>3 DEF RoleKind, KindOf
    <3>4. CASE c[1] = "etcSystemd" /\ c[3] = "systemdUnit"
      BY <3>4 DEF RoleKind, KindOf
    <3>5. CASE c[1] = "manifests" /\ c[3] \in {"ciliumManifest", "registryManifest"}
      BY <3>5 DEF RoleKind, KindOf
    <3>6. CASE c[1] = "scripts" /\ c[3] = "initScript"
      BY <3>6 DEF RoleKind, KindOf
    <3> QED
      BY <2>1, <3>1, <3>2, <3>3, <3>4, <3>5, <3>6
  <2> QED
    BY <1>1, <2>2, Zenon DEF RoleFits
<1>2. CASE named # {}
  <2>0. dir \notin {"systemBin", "systemBinSub", "systemLib", "systemLibSub", "images"}
    <3>1. PICK c \in Conventions : c[1] = dir
      BY <1>2
    <3> QED
      BY <3>1 DEF Conventions
  <2>1. ConventionalRole(dir, base) = chosen
    <3>1. dir \notin {"systemBin", "systemBinSub"} /\ dir \notin {"systemLib", "systemLibSub"}
          /\ dir # "images"
      BY <2>0
    <3>2. ConventionalRole(dir, base) =
             CASE named # {} -> chosen
               [] FALSE -> "hostTool" [] FALSE -> "hostLibrary"
               [] FALSE -> "ciliumImage" [] FALSE -> "registryImage"
               [] FALSE -> "kubernetesImage" [] OTHER -> "none"
      BY <3>1, Zenon DEF ConventionalRole
    <3> HIDE DEF named, chosen
    <3> QED
      BY <1>2, <3>2
  <2>2. chosen \in named
    BY <1>2
  <2>3. PICK c \in Conventions : c[1] = dir /\ c[3] = chosen
    BY <2>2
  <2> QED
    BY <1>1, <2>1, <2>3
<1>3. CASE named = {}
  <2>1. \/ ConventionalRole(dir, base) = "hostTool" /\ dir \in {"systemBin", "systemBinSub"}
        \/ ConventionalRole(dir, base) = "hostLibrary" /\ dir \in {"systemLib", "systemLibSub"}
        \/ /\ ConventionalRole(dir, base) \in {"ciliumImage", "registryImage", "kubernetesImage"}
           /\ dir = "images"
    BY <1>3 DEF ConventionalRole
  <2> QED
    BY <2>1 DEF RoleFits, RoleKind, KindOf
<1> QED
  BY <1>2, <1>3

(* A tree within the limits of scanPayloadFiles, and without a backslash in   *)
(* its names, has a valid manifest, by its conventions and whatever fitting   *)
(* roles the command line adds: WriteManifest does not refuse it (generate.go *)
(* 90), and the tables of the two files agree.                               *)
THEOREM GeneratedIsValid ==
    ASSUME NEW Entries, NEW tree \in Seq(Entries), Len(tree) \in 1..MaxFiles,
           \A i \in DOMAIN tree : /\ tree[i].dir \in DOMAIN KindOf /\ tree[i].size \in 1..MaxSize
                                  /\ tree[i].base # "unsafe",
           \A i, j \in DOMAIN tree : SamePath(tree[i], tree[j]) => i = j,
           TotalAccepted(tree),
           NEW roles, \A r \in roles : RoleFits(r.role, r.dir),
           NEW m, m.patterns, m.ubuntus # {}, m.files = Generate(tree, roles)
    PROVE  ValidManifest(m)
<1>1. /\ DOMAIN m.files = DOMAIN tree
      /\ \A i \in DOMAIN tree :
            m.files[i] = [dir |-> tree[i].dir, base |-> tree[i].base, size |-> tree[i].size,
                          kind |-> KindOf[tree[i].dir], role |-> RoleOf(tree[i], roles)]
  BY DEF Generate
<1>2. Len(m.files) = Len(tree) /\ DOMAIN tree = 1..Len(tree)
  BY DEF Generate
<1>3. ASSUME NEW i \in DOMAIN tree PROVE ValidFile(m.files[i])
  <2>1. RoleOf(tree[i], roles) # "none" => RoleFits(RoleOf(tree[i], roles), tree[i].dir)
    <3>1. CASE \E r \in roles : SamePath(r, tree[i])
      <4> DEFINE asks == CHOOSE r \in roles : SamePath(r, tree[i])
      <4>1. asks \in roles /\ asks.dir = tree[i].dir
        BY <3>1 DEF SamePath
      <4> QED
        BY <3>1, <4>1 DEF RoleOf
    <3>2. CASE ~\E r \in roles : SamePath(r, tree[i])
      BY <3>2, ConventionsFit DEF RoleOf
    <3> QED
      BY <3>1, <3>2
  <2> QED
    BY <1>1, <2>1 DEF ValidFile, RoleFits
<1>4. \A i, j \in DOMAIN tree : SamePath(m.files[i], m.files[j]) => i = j
  BY <1>1 DEF SamePath
<1>5. TotalAccepted(m.files)
  <2> DEFINE S == {n \in Nat : n <= Len(tree) => RunningTotal(m.files)[n] = RunningTotal(tree)[n]}
  <2>1. 0 \in S
    BY <1>2, RunningTotalEquation
  <2>2. ASSUME NEW n \in S PROVE n + 1 \in S
    <3>1. CASE n + 1 <= Len(tree)
      <4>1. /\ n + 1 \in 0..Len(tree) /\ n + 1 # 0 /\ (n + 1) - 1 = n /\ n + 1 \in DOMAIN tree
            /\ RunningTotal(m.files)[n] = RunningTotal(tree)[n]
        BY <1>2, <3>1
      <4>2. m.files[n + 1].size = tree[n + 1].size
        BY <1>1, <4>1
      <4> QED
        BY <1>2, <4>1, <4>2, RunningTotalEquation
    <3> QED
      BY <3>1
  <2>3. S \in SUBSET Nat
    OBVIOUS
  <2>4. S = Nat
    <3> HIDE DEF S
    <3> QED
      BY <2>1, <2>2, <2>3, Induction
  <2>5. \A n \in 1..Len(tree) : /\ RunningTotal(m.files)[n - 1] = RunningTotal(tree)[n - 1]
                               /\ m.files[n].size = tree[n].size
    <3> TAKE n \in 1..Len(tree)
    <3>1. n - 1 \in Nat /\ n - 1 <= Len(tree)
      OBVIOUS
    <3> QED
      BY <1>1, <1>2, <2>4, <3>1
  <2> QED
    BY <1>2, <2>5 DEF TotalAccepted
<1> QED
  BY <1>1, <1>2, <1>3, <1>4, <1>5 DEF ValidManifest

-----------------------------------------------------------------------------
(* Two units, each there once and no other, are two files.                   *)
LEMMA TwoUnits ==
    ASSUME NEW m, IsFiniteSet(DOMAIN m.files), NEW role, NEW base, NEW other, base # other,
           Cardinality(WithBase(m, role, base)) = 1, Cardinality(WithBase(m, role, other)) = 1,
           \A i \in FilesForRole(m, role) : m.files[i].base \in {base, other}
    PROVE  DistinctBases(m, role) /\ Exactly(2, m, role)
<1>1. FilesForRole(m, role) \subseteq DOMAIN m.files
  BY DEF FilesForRole
<1>2. /\ IsFiniteSet(WithBase(m, role, base)) /\ IsFiniteSet(WithBase(m, role, other))
      /\ WithBase(m, role, base) \cup WithBase(m, role, other) = FilesForRole(m, role)
      /\ WithBase(m, role, base) \cap WithBase(m, role, other) = {}
  <2>1. /\ WithBase(m, role, base) \subseteq DOMAIN m.files
        /\ WithBase(m, role, other) \subseteq DOMAIN m.files
    BY <1>1 DEF WithBase
  <2>2. IsFiniteSet(WithBase(m, role, base)) /\ IsFiniteSet(WithBase(m, role, other))
    BY <2>1, FS_Subset
  <2> QED
    BY <2>2 DEF WithBase
<1>3. PICK i : WithBase(m, role, base) = {i}
  BY <1>2, FS_Singleton
<1>4. PICK j : WithBase(m, role, other) = {j}
  BY <1>2, FS_Singleton
<1>5. FilesForRole(m, role) = {i, j} /\ i # j
  BY <1>2, <1>3, <1>4
<1>6. Cardinality({i, j}) = 2
  <2>1. IsFiniteSet({i}) /\ Cardinality({i}) = 1
    BY FS_Singleton
  <2>2. {i, j} = {i} \cup {j} /\ j \notin {i}
    BY <1>5
  <2> QED
    BY SMTT(30), <2>1, <2>2, FS_AddElement
<1>7. m.files[i].base = base /\ m.files[j].base = other
  BY <1>3, <1>4 DEF WithBase
<1> QED
  BY <1>5, <1>6, <1>7 DEF Exactly, DistinctBases

(* The profile of a cluster is all that the installers ask of a bundle, but   *)
(* for the gaps: ValidateClusterProfile against PrepareNode and ImportImages. *)
LEMMA ProfileSuffices ==
    ASSUME NEW m, DOMAIN m.files = 1..Len(m.files), NEW registry, ClusterProfile(m, registry)
    PROVE  /\ ClusterProfile(m, FALSE)
           /\ ImagesAccept(m, registry) /\ ImagesAccept(m, FALSE)
           /\ ~KnownGaps(m) => PrepareAccepts(m)
<1>1. ClusterProfile(m, FALSE) /\ ImagesAccept(m, registry) /\ ImagesAccept(m, FALSE)
  BY DEF ClusterProfile, ImagesAccept
<1>2. ASSUME ~KnownGaps(m) PROVE PrepareAccepts(m)
  <2>1. IsFiniteSet(DOMAIN m.files)
    <3>1. Len(m.files) \in Int
      BY DEF ClusterProfile, ValidManifest
    <3> QED
      BY <3>1, FS_Interval
  <2>2. \A i \in FilesForRole(m, "systemdUnit") :
           m.files[i].base \in {"containerd.service", "kubelet.service"}
    BY <1>2 DEF KnownGaps
  <2>3. /\ Cardinality(WithBase(m, "systemdUnit", "containerd.service")) = 1
        /\ Cardinality(WithBase(m, "systemdUnit", "kubelet.service")) = 1
    BY DEF ClusterProfile
  <2>4. DistinctBases(m, "systemdUnit") /\ Exactly(2, m, "systemdUnit")
    BY <2>1, <2>2, <2>3, TwoUnits
  <2>5. DistinctBases(m, "hostLibrary") /\ DistinctBases(m, "hostTool")
    BY <1>2 DEF KnownGaps
  <2>6. ValidManifest(m) /\ \A role \in {"kubeadm", "kubelet", "kubectl", "containerd",
                                         "containerdConfig"} : Exactly(1, m, role)
    BY DEF ClusterProfile
  <2> QED
    BY <2>2, <2>4, <2>5, <2>6 DEF PrepareAccepts
<1> QED
  BY <1>1, <1>2

(* Of the mirrors, only a name that ends in a dot passes the configuration    *)
(* and not the installer.                                                    *)
LEMMA MirrorsSuffice ==
    ASSUME NEW c, ValidConfig(c), MirroredRegistries(c) \cap Dotted = {}
    PROVE  PrepareAcceptsMirrors(c)
<1>1. \A m \in c.mirrors : m.registry \notin Malformed
  BY DEF ValidConfig, ValidMirrors
<1> QED
  BY <1>1, SpecialAssumption DEF MirroredRegistries, PrepareAcceptsMirrors

(* The profile that checkOfflineBundle asks for. *)
Accepted(b) == Complete[b][config.registry.enabled]

(* What was extracted and is not installed yet has the profile of Master0's   *)
(* check, or it was put in place since.                                      *)
Extracted ==
    /\ pc \in {"pushing", "profile", "prepare", "preparing", "images"} =>
          Accepted(manifest) \/ manifest \in raced
    /\ pc # "idle" => outcome # "unfit"
    /\ LateRefusals

(* What the installers demand of such a bundle they find, but for the gaps.   *)
LEMMA DemandsMet ==
    ASSUME TypeOK, SettingsTyped, ValidConfig(config), manifest \in Bundles,
           Accepted(manifest)
    PROVE  /\ Complete[manifest][FALSE]
           /\ Importable[manifest][command = "images" /\ config.registry.enabled]
           /\ ~Gaps(manifest) => Preparable[manifest] /\ PrepareAcceptsMirrors(config)
<1> DEFINE m == Manifest[manifest]
           on == config.registry.enabled
           asks == command = "images" /\ on
<1>1. on \in BOOLEAN /\ asks \in BOOLEAN /\ asks \in {on, FALSE}
  BY DEF SettingsTyped
<1>2. DOMAIN m.files = 1..Len(m.files)
  BY ManifestAssumption
<1>3. Gaps(manifest) <=> (KnownGaps(m) \/ MirroredRegistries(config) \cap Dotted # {})
  BY DEF Gaps, HasGaps
<1>4. Preparable[manifest] <=> PrepareAccepts(m)
  BY DEF Preparable
<1> HIDE DEF on, asks, m
<1>5. ASSUME NEW r \in BOOLEAN
      PROVE  /\ Complete[manifest][r] <=> ClusterProfile(m, r)
             /\ Importable[manifest][r] <=> ImagesAccept(m, r)
  BY DEF Complete, Importable, m
<1>6. ClusterProfile(m, on)
  <2>1. Complete[manifest][on]
    BY Zenon DEF on, Accepted
  <2> QED
    BY <1>1, <1>5, <2>1
<1>7. /\ ClusterProfile(m, FALSE) /\ ImagesAccept(m, on) /\ ImagesAccept(m, FALSE)
      /\ ~KnownGaps(m) => PrepareAccepts(m)
  BY <1>2, <1>6, ProfileSuffices
<1>8. Complete[manifest][FALSE] /\ Importable[manifest][asks]
  BY <1>1, <1>5, <1>7
<1>9. Importable[manifest][command = "images" /\ config.registry.enabled]
  BY <1>8, Zenon DEF asks, on
<1>10. ~Gaps(manifest) => Preparable[manifest] /\ PrepareAcceptsMirrors(config)
  BY <1>3, <1>4, <1>7, MirrorsSuffice
<1> QED
  BY <1>8, <1>9, <1>10, Zenon

LEMMA ExtractedStep ==
    BInv /\ Checked /\ SettingsTyped /\ Loaded /\ Extracted /\ [Next]_vars => Extracted'
<1> SUFFICES ASSUME BInv, Checked, SettingsTyped, Loaded, Extracted, [Next]_vars
             PROVE  Extracted'
  OBVIOUS
<1>t. TypeOK /\ Route
  BY DEF BInv
<1>1. /\ config' = config /\ raced \subseteq raced'
      /\ \A b : Accepted(b)' <=> Accepted(b)
  BY GivenStays, NewFiles DEF world, Accepted
<1>2. Gaps(manifest') \/ manifest' \in raced' \/ outcome' # "unfit" => LateRefusals'
  BY <1>1 DEF LateRefusals, Gaps
<1>a. ASSUME manifest' = manifest, outcome' = outcome \/ outcome' # "unfit"
      PROVE  LateRefusals'
  BY <1>1, <1>2, <1>a DEF Extracted, LateRefusals
<1>b. ASSUME UNCHANGED <<pc, manifest, outcome>> PROVE Extracted'
  BY <1>1, <1>a, <1>b DEF Extracted
<1>3. ASSUME NEW c \in Commands, Start(c) PROVE Extracted'
  BY <1>2, <1>3 DEF Start, Extracted
<1>4. CASE LoadConfig \/ LocalPreflight \/ CheckRemote \/ SwapPrepared \/ Recheck \/ CheckBundle
           \/ ReportCheck \/ CheckPorts
  <2>1. /\ pc # "idle" /\ manifest' = manifest /\ (outcome' = outcome \/ outcome' # "unfit")
        /\ pc' \notin {"pushing", "profile", "prepare", "preparing", "images"}
    BY <1>4 DEF LoadConfig, LocalPreflight, CheckRemote, SwapPrepared, Recheck, CheckBundle,
       ReportCheck, CheckPorts, Gate, Returns, Goto, End
  <2> QED
    BY <1>a, <2>1 DEF Extracted
<1>5. CASE ExtractAndUpload
  <2>1. CASE Valid[bundleFile]
    <3>1. manifest' = bundleFile /\ outcome' = outcome /\ pc = "push" /\ raced' = raced
      BY <1>5, <2>1 DEF ExtractAndUpload, history
    <3>2. Accepted(bundleFile) \/ bundleFile \in raced
      BY <3>1, <1>t DEF Checked, Route, BundleFitsMaster0, Accepted
    <3>3. outcome # "unfit"
      BY <3>1, <1>t DEF Extracted
    <3> QED
      BY <1>1, <1>2, <3>1, <3>2, <3>3 DEF Extracted
  <2>2. CASE ~Valid[bundleFile]
    BY <1>5, <2>2, <1>a DEF ExtractAndUpload, End, Extracted
  <2> QED
    BY <2>1, <2>2
<1>6. CASE PushReturns \/ PrepareReturns \/ ImagesReturn
  <2>1. /\ pc # "idle" /\ manifest' = manifest /\ (outcome' = outcome \/ outcome' # "unfit")
        /\ (pc \in {"pushing", "preparing"} \/ pc' = "idle")
    BY <1>6 DEF PushReturns, PrepareReturns, ImagesReturn, Returns, Goto, End
  <2> QED
    BY <1>1, <1>a, <2>1 DEF Extracted
<1>7. CASE CheckProfile \/ PrepareNode \/ ImportImages
  <2>1. /\ manifest' = manifest /\ raced' = raced /\ manifest \in Bundles
        /\ pc \in {"profile", "prepare", "images"}
        /\ outcome' = outcome \/ (outcome' = "unfit" /\ pc' = "idle")
    BY <1>7, <1>t DEF CheckProfile, PrepareNode, ImportImages, Demand, Goto, End, history, TypeOK
  <2>2. ValidConfig(config)
    BY <2>1 DEF Loaded
  <2>3. ASSUME outcome' = "unfit", outcome # "unfit", manifest \notin raced
        PROVE  Gaps(manifest)
    <3>1. Accepted(manifest)
      BY <2>1, <2>3 DEF Extracted
    <3>2. /\ Complete[manifest][FALSE]
          /\ Importable[manifest][command = "images" /\ config.registry.enabled]
          /\ ~Gaps(manifest) => Preparable[manifest] /\ PrepareAcceptsMirrors(config)
      BY <1>t, <2>1, <2>2, <3>1, DemandsMet
    <3>3. ~CheckProfile
      BY <2>3, <3>2, Zenon DEF CheckProfile, Demand, Goto
    <3>4. ~ImportImages
      BY <2>3, <3>2, Zenon DEF ImportImages, Demand, Goto
    <3>5. PrepareNode => Gaps(manifest)
      BY <2>3, <3>2, Zenon DEF PrepareNode, Demand, Goto
    <3> QED
      BY <1>7, <3>3, <3>4, <3>5
  <2>4. LateRefusals'
    BY <1>2, <2>1, <2>3 DEF Extracted, LateRefusals
  <2> QED
    BY <1>1, <2>1, <2>4 DEF Extracted
<1>8. ASSUME NEW s \in Sides, ShellStep(s) \/ CommandFails(s) \/ CopyFails(s) PROVE Extracted'
  <2>1. UNCHANGED process
    BY <1>8, ShellKeeps DEF CommandFails, CopyFails
  <2> QED
    BY <1>b, <2>1 DEF process
<1>9. CASE Break \/ Reboot
  <2>1. manifest' = manifest /\ (UNCHANGED <<pc, outcome>> \/ (pc' = "idle" /\ outcome' = "failed"))
    BY <1>9 DEF Break, Reboot, End, process
  <2> QED
    BY <1>1, <1>a, <2>1 DEF Extracted
<1>10. CASE (\E b \in Bundles : ReplaceBundle(b)) \/ UNCHANGED vars
  <2>1. UNCHANGED process
    BY <1>10 DEF ReplaceBundle, vars
  <2> QED
    BY <1>b, <2>1 DEF process
<1> QED
  BY <1>3, <1>4, <1>5, <1>6, <1>7, <1>8, <1>9, <1>10 DEF Next, Advance, Sides

(* A bundle and a configuration that passed the checks of the beginning are   *)
(* refused after staging for nothing but the gaps between the profile and     *)
(* the installers, unless the bundle was replaced under the command.         *)
THEOREM RefusedLateForGaps == Spec => []LateRefusals
<1>1. Init => Extracted
  BY DEF Init, Extracted, LateRefusals
<1>2. Extracted => LateRefusals
  BY DEF Extracted
<1> QED
  BY <1>1, <1>2, ExtractedStep, CheckedAlways, LoadedAlways, PTL DEF Spec

-----------------------------------------------------------------------------
(* What GetsPrepared is about, step by step.                                 *)

(* The steps of a command, and those of a script, in their order. *)
Place == [load |-> 0, local |-> 1, remote |-> 2, swap |-> 3, recheck |-> 4, bundle |-> 5,
          ports |-> 6, push |-> 7, pushing |-> 8, profile |-> 9, prepare |-> 10,
          preparing |-> 11, images |-> 12, importing |-> 13]

Stage == [swapoff |-> 0, backup |-> 1, copy |-> 2, copying |-> 3, fstab |-> 4, verify |-> 5,
          tools |-> 6, programs |-> 7, runtime |-> 8, containerd |-> 9, kubelet |-> 10,
          images |-> 11, ok |-> 12]

(* Why a command that nothing stops may be refused: for what an operator has  *)
(* given it, for facts about the machines, or because what earlier commands  *)
(* have staged and imported fills the disk.                                  *)
NotAccepted ==
    \/ ~ValidConfig(config) \/ ~AddressAccepted \/ ~Fits(bundleFile)
    \/ master0.fails # {} \/ machine.fails # {} \/ ~DiskSuffices
    \/ swap.on /\ ~InstallMode
    \/ command = "add" /\ machine.ports \cap RequiredPorts # {}

(* Why it ends: it has done its work, or was refused; what it has staged has  *)
(* gaps; the bundle was replaced under it; or a command of its script failed. *)
EndsFor ==
    \/ outcome' = "done"
    \/ outcome' = "refused" /\ NotAccepted
    \/ outcome' = "unfit" /\ (Gaps(manifest) \/ manifest \in raced)
    \/ outcome' = "failed" /\ (shell.front.step = "failed" \/ bundleFile \in raced)

LeadsOn == IF pc' = "idle" THEN EndsFor ELSE Place[pc] < Place[pc']

(* Of the checks in the scripts, only those for containerd can fail: the one  *)
(* of import-images for a target that is not prepared, and any of them while *)
(* a shell left behind is restarting it, or once such a shell was cut short  *)
(* in that or the target rebooted with half-installed software.              *)
ShellLeadsOn ==
    IF shell'.front.step = "failed"
    THEN /\ service["containerd"] # "running"
         /\ \/ command = "images"
            \/ Halfway("left", "containerd") \/ "containerd" \in spoiled
    ELSE \/ Stage[shell.front.step] < Stage[shell'.front.step]
         \/ /\ shell'.front.step = shell.front.step
            /\ ~shell.front.half /\ shell'.front.half

(* A command goes on, from step to step and line to line, until it ends.      *)
RunsGoOn == [][(Advance => LeadsOn) /\ (ShellStep("front") => ShellLeadsOn)]_vars

(* Once its own script has turned swap off, a command finds it so. *)
Served ==
    /\ \A step \in {"backup", "copy", "copying", "fstab", "verify"} :
          At("front", step) => ~swap.on
    /\ shell["front"].script = "swap" /\ shell["front"].step = "ok" => ~swap.on
    /\ pc = "recheck" => ~swap.on

LEMMA ServedStep == BInv /\ Served /\ [Next]_vars => Served'
<1> SUFFICES ASSUME BInv, Served, [Next]_vars PROVE Served'
  OBVIOUS
<1>t. /\ TypeOK /\ ScriptSteps /\ FrontShell /\ shell \in [Sides -> Shells]
      /\ "front" \in Sides /\ "left" \in Sides
  BY DEF BInv, TypeOK, Sides
<1> DEFINE Line == {"backup", "copy", "copying", "fstab", "verify"}
<1>a. ASSUME shell'["front"] = shell["front"], swap'.on => swap.on, pc' = "recheck" => pc = "recheck"
      PROVE  Served'
  BY <1>a DEF Served, At
<1>b. ASSUME shell'["front"] = NoShell, pc' # "recheck" PROVE Served'
  BY <1>b DEF Served, At, NoShell
<1>1. CASE (\E c \in Commands : Start(c)) \/ (\E b \in Bundles : ReplaceBundle(b))
           \/ UNCHANGED vars \/ LoadConfig \/ LocalPreflight \/ Recheck \/ CheckBundle \/ ReportCheck
           \/ CheckPorts \/ ExtractAndUpload \/ PushReturns \/ CheckProfile
  <2>1. UNCHANGED <<shell, swap>>
    BY <1>1 DEF Start, ReplaceBundle, vars, target, LoadConfig, LocalPreflight, Recheck, CheckBundle,
       ReportCheck, CheckPorts, ExtractAndUpload, PushReturns, CheckProfile, Demand, Gate
  <2>2. pc' = "recheck" => pc = "recheck"
    <3>1. CASE (\E c \in Commands : Start(c)) \/ (\E b \in Bundles : ReplaceBundle(b))
               \/ UNCHANGED vars
      BY <3>1 DEF Start, ReplaceBundle, vars, process
    <3>2. CASE LoadConfig \/ LocalPreflight \/ Recheck \/ CheckBundle \/ ReportCheck \/ CheckPorts
      BY <3>2 DEF LoadConfig, LocalPreflight, Recheck, CheckBundle, ReportCheck, CheckPorts, Gate,
         Goto, End
    <3>3. CASE ExtractAndUpload \/ PushReturns \/ CheckProfile
      <4>1. AfterPush # "recheck" \/ command \notin {"prepare", "images", "add"}
        BY DEF AfterPush
      <4>2. PushReturns => command = "push" \/ command \in {"prepare", "images", "add"}
        BY <1>t DEF PushReturns, BInv, Route, Commands
      <4> QED
        BY <3>3, <4>1, <4>2 DEF ExtractAndUpload, PushReturns, CheckProfile, Demand, Goto, End
    <3> QED
      BY <1>1, <3>1, <3>2, <3>3
  <2> QED
    BY <2>1, <2>2, <1>a
<1>2. CASE CheckRemote \/ PrepareNode \/ ImportImages
  <2>1. swap' = swap /\ pc' # "recheck"
    BY <1>2 DEF CheckRemote, PrepareNode, ImportImages, Demand, target, Goto, End
  <2>2. \/ UNCHANGED shell
        \/ Run("swap", None) \/ Run("prepare", manifest) \/ Run("images", manifest)
    BY <1>2 DEF CheckRemote, PrepareNode, ImportImages, Demand
  <2>3. CASE Run("swap", None) \/ Run("prepare", manifest) \/ Run("images", manifest)
    <3>1. shell'["front"].step \in {"swapoff", "images"}
      BY <2>3, <1>t DEF Run
    <3> QED
      BY <2>1, <3>1 DEF Served, At
  <2> QED
    BY <2>1, <2>2, <2>3, <1>a
<1>3. CASE SwapPrepared
  <2>1. /\ swap' = swap /\ shell'["front"] = NoShell /\ pc = "swap"
        /\ shell["front"].step = "ok" \/ pc' = "idle"
    BY <1>3, <1>t DEF SwapPrepared, Returns, ShellEnded, Goto, End, target
  <2> QED
    BY <2>1, <1>t DEF Served, At, NoShell, FrontShell
<1>4. CASE PrepareReturns \/ ImagesReturn
  <2>1. shell'["front"] = NoShell /\ pc' # "recheck"
    BY <1>4, <1>t DEF PrepareReturns, ImagesReturn, Returns, Goto, End
  <2> QED
    BY <2>1, <1>b
<1>5. CASE Break
  BY <1>5, <1>b DEF Break, End
<1>6. CASE Reboot
  <2>1. shell'["front"] = NoShell
    BY <1>6 DEF Reboot
  <2>2. pc' # "recheck"
    BY <1>6 DEF Reboot, Connected, End, process
  <2> QED
    BY <2>1, <2>2, <1>b
<1>7. ASSUME NEW s \in Sides, ShellStep(s) \/ CommandFails(s) \/ CopyFails(s) PROVE Served'
  <2>1. pc' = pc
    BY <1>7 DEF ShellStep, CommandFails, CopyFails, process
  <2>2. swap'.on => swap.on
    BY <1>7, SwapSinks
  <2>3. CASE s = "left"
    <3>1. shell'["front"] = shell["front"]
      BY <1>7, <1>t, <2>3, OneMoves
    <3> QED
      BY <2>1, <2>2, <3>1, <1>a
  <2>4. CASE s = "front" /\ ShellStep("front")
    <3>1. PICK to \in ShellSteps, half \in BOOLEAN :
             Moves("front", to, half) /\ LineMove("front", to, half) /\ shell["front"].script # "none"
      BY <2>4, <1>t, StepsTo
    <3>2. shell'["front"].step = to /\ shell'["front"].script = shell["front"].script
      BY <3>1, <1>t, MoveMeans
    <3>3. At("front", "swapoff") => ~swap'.on
      <4>1. At("front", "swapoff") => SwapOff("front")
        BY <2>4 DEF ShellStep, SwapOff, BackUp, OpenCopy, CopyEnds, EditFstab, VerifySwap,
           Import, BeginPart, EndPart, BeginRestart, NotActive, EndRestart, Begin, Halfway, At,
           Parts, Services
      <4> QED
        BY <4>1, <1>t DEF SwapOff, TypeOK
    <3>4. to \in Line => ~swap'.on
      <4>1. to \in Line => shell["front"].step \in Line \cup {"swapoff"}
        BY <3>1 DEF LineMove, NextLine, Parts, Services
      <4> QED
        BY <2>2, <3>1, <3>3, <4>1 DEF Served, At
    <3>5. shell["front"].script = "swap" /\ to = "ok" => ~swap'.on
      <4>1. shell["front"].script = "swap" => shell["front"].step \in SwapSteps \cup {"ok", "failed"}
        BY <1>t DEF ScriptSteps
      <4>2. shell["front"].script = "swap" /\ to = "ok" => shell["front"].step = "verify"
        BY <3>1, <4>1 DEF LineMove, SwapSteps, Parts, Services
      <4> QED
        BY <2>2, <3>1, <4>2 DEF Served, At
    <3> QED
      BY <2>1, <2>2, <3>2, <3>4, <3>5 DEF Served, At
  <2>5. CASE s = "front" /\ (CommandFails(s) \/ CopyFails(s))
    <3>1. \/ Moves("front", "failed", FALSE)
          \/ Moves("front", "fstab", FALSE) /\ shell["front"].step \in {"copy", "copying"}
             /\ shell["front"].script # "none"
      BY <2>5 DEF CommandFails, CopyFails, Step, Moves, At
    <3>2. \/ shell'["front"].step = "failed"
          \/ shell'["front"].step = "fstab" /\ shell["front"].step \in {"copy", "copying"}
             /\ shell["front"].script # "none"
      BY <3>1, <1>t, MoveMeans
    <3> QED
      BY <2>1, <2>2, <3>2 DEF Served, At
  <2> QED
    BY <1>7, <2>3, <2>4, <2>5 DEF Sides
<1> QED
  BY <1>1, <1>2, <1>3, <1>4, <1>5, <1>6, <1>7 DEF Next, Advance, Sides

(* A bundle that fits passes each of the checks. *)
LEMMA FitPasses ==
    ASSUME TypeOK, SettingsTyped
    PROVE  /\ BundleFitsMaster0(bundleFile) => Valid[bundleFile]
           /\ Fits(bundleFile) =>
                 /\ BundleFitsMaster0(bundleFile)
                 /\ Manifest[bundleFile].version = config.version
                 /\ AcceptsMachine(bundleFile)
<1>1. bundleFile \in Bundles /\ config.registry.enabled \in BOOLEAN
  BY DEF TypeOK, SettingsTyped
<1>2. Complete[bundleFile][config.registry.enabled] => Valid[bundleFile]
  <2>1. Complete[bundleFile][config.registry.enabled] <=>
           ClusterProfile(Manifest[bundleFile], config.registry.enabled)
    BY <1>1 DEF Complete
  <2>2. Valid[bundleFile] <=> ValidManifest(Manifest[bundleFile])
    BY <1>1 DEF Valid
  <2> QED
    BY <2>1, <2>2 DEF ClusterProfile
<1> QED
  BY <1>2 DEF Fits, BundleFitsMaster0, Mentions, AcceptsMachine

LEMMA ProcessGoesOn ==
    BInv /\ SettingsTyped /\ Checked /\ Served /\ LateRefusals' /\ Advance => LeadsOn
<1> SUFFICES ASSUME BInv, SettingsTyped, Checked, Served, LateRefusals', Advance PROVE LeadsOn
  OBVIOUS
<1>t. TypeOK
  BY DEF BInv
<1> USE <1>t, FitPasses DEF LeadsOn, EndsFor, Place
<1>1. CASE LoadConfig
  BY <1>1 DEF LoadConfig, Gate, Goto, End, NotAccepted
<1>2. CASE LocalPreflight
  BY <1>2 DEF LocalPreflight, Gate, Goto, End, NotAccepted
<1>3. CASE CheckRemote
  <2>1. \/ pc = "remote" /\ pc' \in {"swap", "bundle"}
        \/ /\ pc' = "idle" /\ outcome' = "refused" /\ ~(MachineFit /\ ~swap.on)
           /\ ~(InstallMode /\ swap.on /\ MachineFit)
    BY <1>3 DEF CheckRemote, Goto, End, OnlySwapFails
  <2> QED
    BY <2>1 DEF NotAccepted, MachineFit
<1>4. CASE SwapPrepared
  BY <1>4 DEF SwapPrepared, Returns, Goto, End, ShellEnded
<1>5. CASE Recheck
  <2>1. machine.fails = {} /\ ~swap.on /\ pc = "recheck"
    BY <1>5 DEF Recheck, Gate, Served, Checked, BInv, Route, InstallMode
  <2> QED
    BY <1>5, <2>1 DEF Recheck, Gate, Goto, End, MachineFit, NotAccepted
<1>6. CASE CheckBundle
  <2>1. /\ pc = "bundle"
        /\ \/ pc' \in {"ports", "push"}
           \/ pc' = "idle" /\ outcome' = "refused" /\ ~Fits(bundleFile)
    BY <1>6 DEF CheckBundle, Gate, Goto, End
  <2> QED
    BY <2>1 DEF NotAccepted
<1>7. CASE ReportCheck
  <2>1. InstallMode <=> command \in {"prepare", "add"}
    BY DEF InstallMode
  <2> QED
    BY <1>7, <2>1 DEF ReportCheck, End, NotAccepted, MachineFit
<1>8. CASE CheckPorts
  BY <1>8 DEF CheckPorts, Gate, Goto, End, NotAccepted, BInv, Route
<1>9. CASE ExtractAndUpload
  BY <1>9 DEF ExtractAndUpload, End, Checked, BInv, Route
<1>10. CASE PushReturns
  <2>1. command \in {"push", "prepare", "images", "add"}
    BY <1>10 DEF PushReturns, BInv, Route, Commands
  <2> QED
    BY <1>10, <2>1 DEF PushReturns, End, Goto, AfterPush
<1>11. CASE CheckProfile \/ PrepareNode \/ ImportImages
  <2>1. \/ pc' # "idle" /\ Place[pc] < Place[pc']
        \/ /\ pc' = "idle" /\ outcome' = "unfit"
           /\ UNCHANGED <<manifest, config, raced>>
    <3>1. CASE CheckProfile
      <4> DEFINE profile == Complete[manifest][FALSE]
      <4>1. /\ IF profile THEN Goto("prepare") /\ UNCHANGED shell ELSE End("unfit")
            /\ pc = "profile" /\ UNCHANGED <<config, raced>>
        BY <3>1 DEF CheckProfile, Demand, world, history
      <4> HIDE DEF profile
      <4> QED
        BY <4>1 DEF Goto, End
    <3>2. CASE PrepareNode
      BY <3>2 DEF PrepareNode, Demand, Goto, End, world, history
    <3>3. CASE ImportImages
      BY <3>3 DEF ImportImages, Demand, Goto, End, world, history
    <3> QED
      BY <1>11, <3>1, <3>2, <3>3
  <2>2. UNCHANGED <<manifest, config, raced>> =>
           (LateRefusals' <=> (outcome' = "unfit" => Gaps(manifest) \/ manifest \in raced))
    BY DEF LateRefusals, Gaps, MirroredRegistries
  <2> QED
    BY <2>1, <2>2 DEF LateRefusals
<1>12. CASE PrepareReturns
  BY <1>12 DEF PrepareReturns, Returns, Goto, End, ShellEnded
<1>13. CASE ImagesReturn
  BY <1>13 DEF ImagesReturn, Goto, End, ShellEnded
<1> QED
  BY <1>1, <1>2, <1>3, <1>4, <1>5, <1>6, <1>7, <1>8, <1>9, <1>10, <1>11, <1>12, <1>13 DEF Advance

(* A shell whose check of containerd fails has found it not running. *)
LEMMA FailsFor ==
    ASSUME BInv, NEW s \in Sides, ShellStep(s), shell'[s].step = "failed", ~At(s, "verify")
    PROVE  shell[s].step \in {"kubelet", "images"} /\ service["containerd"] # "running"
<1>t. shell \in [Sides -> Shells]
  BY DEF BInv, TypeOK, Sides
<1>m. ASSUME NEW to, NEW half, Moves(s, to, half) PROVE to = "failed"
  BY <1>m, <1>t, MoveMeans
<1>n. ASSUME NEW to, Step(s, to) PROVE to = "failed"
  BY <1>m, <1>n DEF Step, Moves
<1>1. ~SwapOff(s) /\ ~OpenCopy(s) /\ ~CopyEnds(s) /\ ~EditFstab(s) /\ ~VerifySwap(s)
  <2>1. ~Step(s, "backup") /\ ~Step(s, "copying") /\ ~Step(s, "fstab") /\ ~Step(s, "verify")
    BY <1>n
  <2> QED
    BY <2>1 DEF SwapOff, OpenCopy, CopyEnds, EditFstab, VerifySwap
<1>2. ~BackUp(s)
  BY <1>m DEF BackUp, Moves
<1>3. ASSUME NEW x \in Things PROVE ~Begin(s, x)
  <2>1. Begin(s, x) => shell'[s].step = x
    BY <1>t DEF Begin, At, Shells
  <2> QED
    BY <2>1, Different
<1>4. ASSUME NEW x \in Things PROVE ~Step(s, NextLine(x))
  BY <1>n, NextLines DEF Things, Parts, Services
<1>5. CASE Import(s)
  BY <1>5, <1>n DEF Import, At
<1>6. CASE \E unit \in Services : NotActive(s, unit)
  BY <1>6 DEF NotActive, Upstream, At, Services
<1> QED
  BY <1>1, <1>2, <1>3, <1>4, <1>5, <1>6 DEF ShellStep, BeginPart, EndPart, BeginRestart, EndRestart,
     Things

LEMMA ShellGoesOn == BInv /\ WInv /\ Served /\ ShellStep("front") => ShellLeadsOn
<1> SUFFICES ASSUME BInv, WInv, Served, ShellStep("front") PROVE ShellLeadsOn
  OBVIOUS
<1>t. shell \in [Sides -> Shells] /\ "front" \in Sides
  BY DEF BInv, TypeOK, Sides
<1>1. PICK to \in ShellSteps, half \in BOOLEAN :
         Moves("front", to, half) /\ LineMove("front", to, half) /\ shell["front"].script # "none"
  BY <1>t, StepsTo
<1>2. shell'["front"].step = to /\ (shell'["front"].half <=> half)
  BY <1>1, <1>t, MoveMeans
<1>3. At("front", "verify") => to # "failed"
  BY <1>1 DEF Served, LineMove, At, Parts, Services
<1>4. ASSUME to = "failed"
      PROVE  /\ service["containerd"] # "running"
             /\ \/ command = "images"
                \/ Halfway("left", "containerd") \/ "containerd" \in spoiled
  <2>1. shell["front"].step \in {"kubelet", "images"} /\ service["containerd"] # "running"
    BY <1>2, <1>3, <1>4, <1>t, FailsFor
  <2>2. /\ shell["front"].step = "kubelet" => pc = "preparing"
        /\ shell["front"].step = "images" => pc = "importing"
    BY <1>1, <1>t DEF BInv, FrontShell, ScriptSteps, NoShell, SwapSteps
  <2>3. command = "images" \/ Done("containerd")
    <3>1. CASE pc = "preparing" /\ shell["front"].step = "kubelet"
      BY <3>1 DEF WInv, Progress, DoneBefore
    <3>2. CASE pc = "importing"
      BY <3>2 DEF BInv, Route, WInv, Whole, Things, Services
    <3> QED
      BY <2>1, <2>2, <3>1, <3>2
  <2> QED
    BY <2>1, <2>3 DEF Done, Parts
<1>5. ASSUME to # "failed"
      PROVE  \/ Stage[shell["front"].step] < Stage[to]
             \/ to = shell["front"].step /\ ~shell["front"].half /\ half
  <2>1. CASE shell["front"].step \in Parts \cup Services
    BY <1>1, <1>5, <2>1, NextLines DEF LineMove, Stage, Parts, Services
  <2>2. CASE shell["front"].step \notin Parts \cup Services
    BY <1>1, <1>5, <2>2 DEF LineMove, Stage, Services
  <2> QED
    BY <2>1, <2>2
<1> QED
  BY <1>2, <1>4, <1>5 DEF ShellLeadsOn

(* A command that nothing stops gets through, whatever state the shells of    *)
(* earlier ones are in: each step is one further, and it ends done, or for   *)
(* its inputs, its machines or its bundle, for want of room on the disk, or  *)
(* because a command of a script failed or containerd was not running, the   *)
(* target not being prepared or a shell left behind being at work on it.     *)
(* The second look at the target after swap was turned off refuses nothing   *)
(* but a full disk, and the checks of swap in the scripts refuse nothing.    *)
THEOREM RunsGetThrough == Spec => RunsGoOn
<1>1. Init => Served
  BY DEF Init, Served, NoShell, At
<1>2. BInv /\ SettingsTyped /\ Checked /\ WInv /\ Served /\ LateRefusals' =>
         (Advance => LeadsOn) /\ (ShellStep("front") => ShellLeadsOn)
  BY ProcessGoesOn, ShellGoesOn
<1>3. Spec => []WInv
  BY WholeInit, WholeStep, BasicAlways, PTL DEF Spec
<1> QED
  BY <1>1, <1>2, <1>3, ServedStep, CheckedAlways, LoadedAlways, RefusedLateForGaps, PTL
     DEF Spec, RunsGoOn
=============================================================================
