------------------------------ MODULE AddProofs -----------------------------
(***************************************************************************)
(* Theorems about `kubelift add`, for every set of machines, jobs, node    *)
(* names and inputs and every number of processes, failures and edits.     *)
(***************************************************************************)
EXTENDS AddProperties, TLAPS

(* A machine on which kubeadm join ran knows whose join file it ran with. *)
TicketsKnown ==
    \A t \in Targets :
        machines[t].join # "none" \/ machines[t].kubelet => machines[t].ticket # None

Typed == TypeOK /\ TicketsKnown

(* Jobs are records of a role and a target. *)
LEMMA JobType ==
    ASSUME NEW j \in Jobs
    PROVE  j.role \in {"worker", "master"} /\ j.target \in Targets
BY JobsAssumption

(* A machine keeps its type, whatever is put into its fields. *)
LEMMA MachineFields ==
    ASSUME NEW m \in Machines, NEW inp \in Inputs, NEW ticket \in Tickets
    PROVE  /\ [m EXCEPT !.staging = inp] \in Machines /\ [m EXCEPT !.staging = Torn] \in Machines
           /\ [m EXCEPT !.node = inp] \in Machines /\ [m EXCEPT !.node = Torn] \in Machines
           /\ [m EXCEPT !.images = @ \cup {inp}] \in Machines
           /\ [m EXCEPT !.joinFile = ticket] \in Machines
BY DEF Machines

(* What a step that is cut short leaves. *)
LEMMA CutShortKinds ==
    ASSUME NEW j \in Jobs, NEW c \in CutShort(j)
    PROVE  \/ c = machine(j)
           \/ pc[j] = "push" /\ machine(j).staging # run[j].inputs
              /\ c = [machine(j) EXCEPT !.staging = Torn]
           \/ pc[j] = "prepare"
              /\ \E left \in {Torn, run[j].inputs} : c = [machine(j) EXCEPT !.node = left]
           \/ pc[j] = "images"
              /\ c = [machine(j) EXCEPT !.images = machine(j).images \cup {run[j].inputs}]
           \/ c = [machine(j) EXCEPT !.joinFile = [job |-> j, node |-> run[j].node]]
BY DEF CutShort

(* Every action keeps the variables in their types. *)
LEMMA TypeInductive == Typed /\ [Next]_vars => TypeOK'
<1> SUFFICES ASSUME Typed, [Next]_vars PROVE TypeOK'
  OBVIOUS
<1> USE DEF Typed, TypeOK, New, Staged, Prepared, Images, Starting, Joined, Ready,
            Complete, Phases, Steps, Locals, world, OnMaster0, InApi, Counters, machine
<1>j. \A j \in Jobs : j.role \in {"worker", "master"} /\ j.target \in Targets
  BY JobType
<1>e. ASSUME NEW j \in Jobs, End(j)
      PROVE  /\ pc' \in [Jobs -> Steps] /\ run' \in [Jobs -> Locals]
             /\ \A k \in Jobs : pc'[k] # "idle" => run'[k].inputs \in Inputs /\ run'[k].node \in Nodes
  BY <1>e DEF End, NoRun
<1>g. ASSUME NEW j \in Jobs, NEW step \in Steps, pc[j] # "idle", Goto(j, step)
      PROVE  /\ pc' \in [Jobs -> Steps] /\ run' \in [Jobs -> Locals]
             /\ \A k \in Jobs : pc'[k] # "idle" => run'[k].inputs \in Inputs /\ run'[k].node \in Nodes
  BY <1>g DEF Goto
<1>s. ASSUME NEW j \in Jobs, NEW from \in Steps \ {"idle"}, NEW next \in Steps,
             NEW phase \in Phases, Save(j, from, phase, next)
      PROVE  TypeOK'
  BY <1>s DEF Save
<1>1. ASSUME NEW j \in Jobs, StartFresh(j) \/ StartResume(j) PROVE TypeOK'
  <2>1. PICK r \in Locals : /\ r.inputs \in Inputs /\ r.node \in Nodes
                            /\ run' = [run EXCEPT ![j] = r]
    <3>1. CASE StartFresh(j)
      <4> DEFINE r == [inputs |-> inputs, node |-> hostname[j.target], phase |-> New]
      <4>1. r \in Locals /\ r.inputs \in Inputs /\ r.node \in Nodes
        BY <1>j
      <4> QED
        BY <3>1, <4>1 DEF StartFresh
    <3>2. CASE StartResume(j)
      <4> DEFINE r == [inputs |-> inputs, node |-> hostname[j.target], phase |-> states[j].phase]
      <4>1. r \in Locals /\ r.inputs \in Inputs /\ r.node \in Nodes
        BY <1>j
      <4> QED
        BY <3>2, <4>1 DEF StartResume
    <3> QED
      BY <1>1, <3>1, <3>2
  <2>2. pc' = [pc EXCEPT ![j] = "probe"]
    BY <1>1 DEF StartFresh, StartResume
  <2> QED
    BY <1>1, <2>1, <2>2 DEF StartFresh, StartResume
<1>2. ASSUME NEW j \in Jobs, Probe(j) \/ Ensure(j) \/ JoinReturns(j) \/ WaitReady(j)
                                \/ WaitTimesOut(j)
      PROVE  TypeOK'
  <2>1. AfterProbe(j) \in Steps /\ AfterEnsure(j) \in Steps
    BY DEF AfterProbe, AfterEnsure, JoinSteps
  <2> QED
    BY <1>2, <1>e, <1>g, <2>1 DEF Probe, Ensure, JoinReturns, WaitReady, WaitTimesOut
<1>3. ASSUME NEW j \in Jobs, Push(j) \/ PrepareNode(j) \/ ImportImages(j) \/ UploadTicket(j)
      PROVE  TypeOK'
  <2>1. AfterPush(j) \in Steps
    BY DEF AfterPush
  <2>2. run[j].inputs \in Inputs /\ run[j].node \in Nodes /\ pc[j] # "idle"
    BY <1>3 DEF Push, PrepareNode, ImportImages, UploadTicket
  <2>3. machines[j.target] \in Machines /\ [job |-> j, node |-> run[j].node] \in Tickets
    BY <1>j, <2>2 DEF Tickets
  <2>4. machines' \in [Targets -> Machines]
    <3>1. CASE Push(j)
      BY <1>j, <2>2, <2>3, <3>1, MachineFields DEF Push
    <3>2. CASE PrepareNode(j)
      BY <1>j, <2>2, <2>3, <3>2, MachineFields DEF PrepareNode
    <3>3. CASE ImportImages(j)
      BY <1>j, <2>2, <2>3, <3>3, MachineFields DEF ImportImages
    <3>4. CASE UploadTicket(j)
      BY <1>j, <2>2, <2>3, <3>4, MachineFields DEF UploadTicket
    <3> QED
      BY <1>3, <3>1, <3>2, <3>3, <3>4
  <2> QED
    BY <1>3, <1>g, <2>1, <2>2, <2>4 DEF Push, PrepareNode, ImportImages, UploadTicket
<1>4. ASSUME NEW j \in Jobs, SaveStaged(j) \/ SavePrepared(j) \/ SaveImages(j)
                                \/ SaveStarting(j) \/ SaveJoined(j) \/ SaveReady(j)
      PROVE  TypeOK'
  <2>1. JoinSteps(j) \in Steps
    BY DEF JoinSteps
  <2>2. PICK from \in Steps \ {"idle"}, next \in Steps, phase \in Phases : Save(j, from, phase, next)
    BY <1>4, <2>1 DEF SaveStaged, SavePrepared, SaveImages, SaveStarting, SaveJoined, SaveReady
  <2> QED
    BY <2>2, <1>s
<1>5. ASSUME NEW j \in Jobs, UploadCerts(j) PROVE TypeOK'
  BY <1>5, <1>g DEF UploadCerts
<1>6. ASSUME NEW j \in Jobs, RunJoin(j) PROVE TypeOK'
  <2>1. machine(j) \in Machines
    BY <1>j
  <2>2. machines' \in [Targets -> Machines]
    <3>1. CASE machine(j).joinFile # None /\ machine(j).join # "running" /\ ~machine(j).kubelet
      <4> DEFINE m == [machine(j) EXCEPT !.join = "running", !.ticket = machine(j).joinFile]
      <4>1. m \in Machines
        BY <2>1 DEF Machines
      <4>2. machines' = [machines EXCEPT ![j.target] = m]
        BY <1>6, <1>j, <3>1 DEF RunJoin
      <4> QED
        BY <1>j, <4>1, <4>2
    <3>2. CASE ~(machine(j).joinFile # None /\ machine(j).join # "running" /\ ~machine(j).kubelet)
      <4> DEFINE m == [machine(j) EXCEPT !.joinFile = None]
      <4>1. m \in Machines
        BY <2>1 DEF Machines
      <4>2. machines' = [machines EXCEPT ![j.target] = m]
        BY <1>6, <1>j, <3>2 DEF RunJoin
      <4> QED
        BY <1>j, <4>1, <4>2
    <3> QED
      BY <3>1, <3>2
  <2>3. joins' \in [Jobs -> Nat]
    BY <1>6 DEF RunJoin
  <2> QED
    BY <1>6, <1>e, <1>g, <2>2, <2>3 DEF RunJoin
<1>7. ASSUME NEW j \in Jobs, SaveComplete(j) PROVE TypeOK'
  <2>1. [run[j] EXCEPT !.phase = Complete] \in Locals
    BY DEF Locals
  <2>2. states' \in [Jobs -> Locals]
    BY <1>7, <2>1 DEF SaveComplete
  <2> QED
    BY <1>7, <1>e, <2>2 DEF SaveComplete
<1>8. ASSUME NEW j \in Jobs, Stop(j) PROVE TypeOK'
  <2>1. run[j].inputs \in Inputs /\ run[j].node \in Nodes
    BY <1>8 DEF Stop
  <2>2. CutShort(j) \subseteq Machines
    <3>1. machine(j) \in Machines /\ [job |-> j, node |-> run[j].node] \in Tickets
      BY <1>j, <2>1 DEF Tickets
    <3>2. \A c \in CutShort(j) :
             \/ c = machine(j) \/ c = [machine(j) EXCEPT !.staging = Torn]
             \/ c = [machine(j) EXCEPT !.node = Torn]
             \/ c = [machine(j) EXCEPT !.node = run[j].inputs]
             \/ c = [machine(j) EXCEPT !.images = machine(j).images \cup {run[j].inputs}]
             \/ c = [machine(j) EXCEPT !.joinFile = [job |-> j, node |-> run[j].node]]
      BY CutShortKinds
    <3>3. /\ [machine(j) EXCEPT !.staging = Torn] \in Machines
          /\ [machine(j) EXCEPT !.node = Torn] \in Machines
          /\ [machine(j) EXCEPT !.node = run[j].inputs] \in Machines
          /\ [machine(j) EXCEPT !.images = machine(j).images \cup {run[j].inputs}] \in Machines
          /\ [machine(j) EXCEPT !.joinFile = [job |-> j, node |-> run[j].node]] \in Machines
      BY <2>1, <3>1, MachineFields
    <3> HIDE DEF machine
    <3> QED
      BY <3>1, <3>2, <3>3
  <2>3. machines' \in [Targets -> Machines]
    BY <1>8, <1>j, <2>2 DEF Stop
  <2> QED
    BY <1>8, <1>e, <2>3, BoundsAssumption DEF Stop
<1>9. ASSUME NEW t \in Targets, Kubeadm(t) PROVE TypeOK'
  <2>1. machines[t].ticket \in Tickets
    BY <1>9 DEF Kubeadm, JoinWritesKubelet, KubeletRegisters, ControlPlaneUp, JoinSucceeds, JoinFails,
       TicketsKnown, Machines
  <2>2. machines[t].ticket.job.role \in {"worker", "master"} /\ machines[t].ticket.node \in Nodes
    BY <1>j, <2>1 DEF Tickets
  <2>3. machines[t] \in Machines
    OBVIOUS
  <2>4. machines' \in [Targets -> Machines]
    <3>1. CASE JoinWritesKubelet(t)
      <4> DEFINE m == [machines[t] EXCEPT !.kubelet = TRUE, !.role = machines[t].ticket.job.role]
      <4>1. m \in Machines
        BY <2>2, <2>3 DEF Machines
      <4>2. machines' = [machines EXCEPT ![t] = m]
        BY <3>1, <2>3 DEF JoinWritesKubelet
      <4> QED
        BY <4>1, <4>2
    <3>2. CASE KubeletRegisters(t)
      <4> DEFINE m == [machines[t] EXCEPT !.member = TRUE]
      <4>1. m \in Machines
        BY <2>3 DEF Machines
      <4>2. machines' = [machines EXCEPT ![t] = m]
        BY <3>2 DEF KubeletRegisters
      <4> QED
        BY <4>1, <4>2
    <3>3. CASE JoinSucceeds(t)
      <4> DEFINE m == [machines[t] EXCEPT !.join = "done", !.joinFile = None]
      <4>1. m \in Machines
        BY <2>3 DEF Machines
      <4>2. machines' = [machines EXCEPT ![t] = m]
        BY <3>3, <2>3 DEF JoinSucceeds
      <4> QED
        BY <4>1, <4>2
    <3>4. CASE JoinFails(t)
      <4> DEFINE m == [machines[t] EXCEPT !.join = "failed", !.joinFile = None]
      <4>1. m \in Machines
        BY <2>3 DEF Machines
      <4>2. machines' = [machines EXCEPT ![t] = m]
        BY <3>4, <2>3 DEF JoinFails
      <4> QED
        BY <4>1, <4>2
    <3>5. CASE ControlPlaneUp(t)
      <4> DEFINE m == [machines[t] EXCEPT !.control = TRUE]
      <4>1. m \in Machines
        BY <2>3 DEF Machines
      <4>2. machines' = [machines EXCEPT ![t] = m]
        BY <3>5, <2>3 DEF ControlPlaneUp
      <4> QED
        BY <4>1, <4>2
    <3> QED
      BY <1>9, <3>1, <3>2, <3>3, <3>4, <3>5 DEF Kubeadm
  <2>5. owner' \in [Nodes -> Targets \cup {None}] /\ health' \in [Nodes -> {"no", "node", "agent"}]
    BY <1>9, <2>2 DEF Kubeadm, JoinWritesKubelet, KubeletRegisters, ControlPlaneUp, JoinSucceeds, JoinFails
  <2> QED
    BY <1>9, <2>4, <2>5 DEF Kubeadm, JoinWritesKubelet, KubeletRegisters, ControlPlaneUp, JoinSucceeds, JoinFails
<1>10. ASSUME NEW n \in Nodes, NodeGetsReady(n) \/ NodeGetsUnready(n) PROVE TypeOK'
  BY <1>10, BoundsAssumption DEF NodeGetsReady, NodeGetsUnready
<1>11. CASE Edit
  BY <1>11, BoundsAssumption DEF Edit
<1>12. CASE UNCHANGED vars
  BY <1>12 DEF vars
<1> QED
  BY <1>1, <1>2, <1>3, <1>4, <1>5, <1>6, <1>7, <1>8, <1>9, <1>10, <1>11, <1>12
     DEF Next, Advance

(* A machine gets its ticket as its kubeadm join starts, and keeps it. *)
LEMMA TicketsInductive == Typed /\ [Next]_vars => TicketsKnown'
<1> SUFFICES ASSUME Typed, [Next]_vars, NEW t \in Targets,
                    machines'[t].join # "none" \/ machines'[t].kubelet
             PROVE  machines'[t].ticket # None
  BY DEF TicketsKnown
<1>m. machines \in [Targets -> Machines] /\ machines[t] \in Machines
  BY DEF Typed, TypeOK
<1>k. ASSUME machines'[t] = machines[t] PROVE machines'[t].ticket # None
  BY <1>k DEF Typed, TicketsKnown
<1>i. ASSUME UNCHANGED <<machines[t].join, machines[t].kubelet, machines[t].ticket>>
      PROVE  machines'[t].ticket # None
  BY <1>i DEF Typed, TicketsKnown
<1>1. ASSUME NEW j \in Jobs, Push(j) \/ PrepareNode(j) \/ ImportImages(j) \/ UploadTicket(j)
      PROVE  machines'[t].ticket # None
  BY <1>1, <1>m, <1>i DEF Push, PrepareNode, ImportImages, UploadTicket, Machines
<1>2. ASSUME NEW j \in Jobs, RunJoin(j) PROVE machines'[t].ticket # None
  <2>1. CASE j.target = t /\ machine(j).joinFile # None /\ machine(j).join # "running"
             /\ ~machine(j).kubelet
    BY <1>2, <1>m, <2>1 DEF RunJoin, machine, Machines
  <2>2. CASE ~(j.target = t /\ machine(j).joinFile # None /\ machine(j).join # "running"
               /\ ~machine(j).kubelet)
    BY <1>2, <1>m, <1>i, <2>2 DEF RunJoin, machine, Machines
  <2> QED
    BY <2>1, <2>2
<1>3. ASSUME NEW j \in Jobs, Stop(j) PROVE machines'[t].ticket # None
  <2>1. PICK c \in CutShort(j) : machines' = [machines EXCEPT ![j.target] = c]
    BY <1>3 DEF Stop
  <2>2. \/ c = machine(j) \/ c = [machine(j) EXCEPT !.staging = Torn]
        \/ \E left \in {Torn, run[j].inputs} : c = [machine(j) EXCEPT !.node = left]
        \/ c = [machine(j) EXCEPT !.images = machine(j).images \cup {run[j].inputs}]
        \/ c = [machine(j) EXCEPT !.joinFile = [job |-> j, node |-> run[j].node]]
    BY <2>1, CutShortKinds
  <2>3. CASE j.target = t
    BY <1>m, <1>i, <2>1, <2>2, <2>3 DEF machine, Machines
  <2>4. CASE j.target # t
    BY <1>m, <1>k, <2>1, <2>4
  <2> QED
    BY <2>3, <2>4
<1>4. ASSUME NEW u \in Targets, Kubeadm(u) PROVE machines'[t].ticket # None
  <2>1. machines'[t].ticket = machines[t].ticket
    BY <1>4, <1>m DEF Kubeadm, JoinWritesKubelet, KubeletRegisters, ControlPlaneUp, JoinSucceeds, JoinFails, Machines
  <2>2. machines[t].join # "none" \/ machines[t].kubelet
    BY <1>4, <1>m DEF Kubeadm, JoinWritesKubelet, KubeletRegisters, ControlPlaneUp, JoinSucceeds, JoinFails, Machines
  <2> QED
    BY <2>1, <2>2 DEF Typed, TicketsKnown
<1>5. CASE UNCHANGED machines
  BY <1>5, <1>k
<1> QED
  BY <1>1, <1>2, <1>3, <1>4, <1>5 DEF Next, Advance, vars, StartFresh, StartResume, Probe, Ensure,
     SaveStaged, SavePrepared, SaveImages, UploadCerts, SaveStarting, JoinReturns, SaveJoined,
     WaitReady, WaitTimesOut, SaveReady, SaveComplete, Save, NodeGetsReady, NodeGetsUnready, Edit

(* The first state has its types. *)
LEMMA TypeInitially == Init => Typed
<1> SUFFICES ASSUME Init PROVE Typed
  OBVIOUS
<1> USE DEF New, Phases
<1>1. Untouched \in Machines
  BY DEF Untouched, Machines
<1>2. NoFile \in Locals /\ NoRun \in Locals
  BY DEF NoFile, NoRun, Locals
<1>3. TypeOK
  BY <1>1, <1>2, BoundsAssumption, HostNamesAssumption DEF Init, TypeOK, Steps
<1>4. TicketsKnown
  BY DEF Init, TicketsKnown, Untouched
<1> QED
  BY <1>3, <1>4 DEF Typed

LEMMA TypedAlways == Spec => []Typed
<1>1. Typed /\ [Next]_vars => Typed'
  BY TypeInductive, TicketsInductive DEF Typed
<1> QED
  BY <1>1, TypeInitially, PTL DEF Spec

(* The variables of `kubelift add` keep their types, whatever the constants  *)
(* are.                                                                      *)
THEOREM TypeCorrect == Spec => []TypeOK
<1>1. Typed => TypeOK
  BY DEF Typed
<1> QED
  BY <1>1, TypedAlways, PTL

-----------------------------------------------------------------------------
(* The phases of one job.                                                    *)

(* The step a process is at fixes the phase it holds: it reaches kubeadm     *)
(* join only from images-imported.                                           *)
StepPhase(j) ==
    /\ pc[j] = "ensure" => run[j].phase < Starting
    /\ pc[j] = "push" => run[j].phase < Images
    /\ pc[j] = "saveStaged" => run[j].phase = New
    /\ pc[j] \in {"prepare", "savePrepared"} => run[j].phase = Staged
    /\ pc[j] \in {"images", "saveImages"} => run[j].phase = Prepared
    /\ pc[j] \in {"certs", "token", "saveStarting"} => run[j].phase = Images
    /\ pc[j] \in {"join", "wait", "saveJoined"} => run[j].phase = Starting
    /\ pc[j] \in {"ready", "saveReady"} => run[j].phase = Joined
    /\ pc[j] = "saveComplete" => run[j].phase = Ready

(* Memory and disk agree while a process runs, and the one about to start    *)
(* kubeadm join is the first to do so for its state file.                    *)
RunAgrees(j) ==
    pc[j] # "idle" =>
        /\ run[j].phase = states[j].phase
        /\ run[j].phase # New =>
              run[j].inputs = states[j].inputs /\ run[j].node = states[j].node
        /\ pc[j] = "join" => joins[j] = 0
        /\ pc[j] = "wait" => joins[j] = 1

(* A join in the history is on record in the state file. *)
StartOnRecord(j) ==
    /\ joins[j] \in {0, 1}
    /\ joins[j] = 1 => states[j].phase >= Starting

Orderly(j) == StepPhase(j) /\ RunAgrees(j) /\ StartOnRecord(j)

IInv == Typed /\ \A j \in Jobs : Orderly(j)

(* A process changes nothing of another job, and of the other machines.      *)
LEMMA OtherJobs ==
    ASSUME TypeOK, NEW j \in Jobs, StartFresh(j) \/ StartResume(j) \/ Advance(j) \/ Stop(j)
    PROVE  /\ \A k \in Jobs \ {j} : UNCHANGED <<pc[k], run[k], states[k], joins[k]>>
           /\ \A t \in Targets \ {j.target} : machines'[t] = machines[t]
<1>j. j.target \in Targets
  BY JobType
<1> USE <1>j DEF TypeOK
<1>1. \A k \in Jobs \ {j} : UNCHANGED <<pc[k], run[k]>>
  BY DEF Advance, StartFresh, StartResume, Probe, Ensure, Push, SaveStaged, PrepareNode,
     SavePrepared, ImportImages, SaveImages, UploadCerts, UploadTicket, SaveStarting, RunJoin,
     JoinReturns, SaveJoined, WaitReady, WaitTimesOut, SaveReady, SaveComplete, Save, Stop,
     Goto, End
<1>2. \A k \in Jobs \ {j} : states'[k] = states[k]
  BY DEF Advance, StartFresh, StartResume, Probe, Ensure, Push, SaveStaged, PrepareNode,
     SavePrepared, ImportImages, SaveImages, UploadCerts, UploadTicket, SaveStarting, RunJoin,
     JoinReturns, SaveJoined, WaitReady, WaitTimesOut, SaveReady, SaveComplete, Save, Stop,
     OnMaster0
<1>3. \A k \in Jobs \ {j} : joins'[k] = joins[k]
  BY DEF Advance, StartFresh, StartResume, Probe, Ensure, Push, SaveStaged, PrepareNode,
     SavePrepared, ImportImages, SaveImages, UploadCerts, UploadTicket, SaveStarting, RunJoin,
     JoinReturns, SaveJoined, WaitReady, WaitTimesOut, SaveReady, SaveComplete, Save, Stop
<1>4. \A t \in Targets \ {j.target} : machines'[t] = machines[t]
  BY DEF Advance, StartFresh, StartResume, Probe, Ensure, Push, SaveStaged, PrepareNode,
     SavePrepared, ImportImages, SaveImages, UploadCerts, UploadTicket, SaveStarting, RunJoin,
     JoinReturns, SaveJoined, WaitReady, WaitTimesOut, SaveReady, SaveComplete, Save, Stop
<1> QED
  BY <1>1, <1>2, <1>3, <1>4

(* What is not a process of kubelift leaves the processes and the state      *)
(* files alone.                                                              *)
LEMMA Environment ==
    ASSUME \/ \E t \in Targets : Kubeadm(t)
           \/ \E n \in Nodes : NodeGetsReady(n) \/ NodeGetsUnready(n)
           \/ Edit \/ UNCHANGED vars
    PROVE  UNCHANGED <<pc, run, states, joins>>
BY DEF Kubeadm, JoinWritesKubelet, KubeletRegisters, ControlPlaneUp, JoinSucceeds, JoinFails, NodeGetsReady,
   NodeGetsUnready, Edit, vars, OnMaster0

(* A process keeps its own job in order. *)
LEMMA OrderlyStep ==
    ASSUME TypeOK, TypeOK', NEW j \in Jobs, Orderly(j),
           StartFresh(j) \/ StartResume(j) \/ Advance(j) \/ Stop(j)
    PROVE  Orderly(j)'
<1> USE DEF TypeOK, Orderly, New, Staged, Prepared, Images, Starting, Joined, Ready, Complete,
            Phases, Locals, OnMaster0
<1>e. ASSUME pc'[j] = "idle", UNCHANGED <<states[j], joins[j]>> PROVE Orderly(j)'
  BY <1>e DEF StepPhase, RunAgrees, StartOnRecord
<1>g. ASSUME NEW step, Goto(j, step) PROVE pc'[j] = step /\ run'[j] = run[j]
  BY <1>g DEF Goto
<1>x. ASSUME End(j) PROVE pc'[j] = "idle"
  BY <1>x DEF End
<1>p. run[j].phase \in 0..7 /\ states[j].phase \in 0..7
  OBVIOUS
<1>1. CASE StartFresh(j) \/ StartResume(j)
  BY <1>1 DEF StartFresh, StartResume, Matches, StepPhase, RunAgrees, StartOnRecord
<1>2. CASE Probe(j)
  <2>1. CASE MayGoOn(j)
    <3>1. pc[j] = "probe" /\ pc'[j] = AfterProbe(j) /\ run'[j] = run[j]
          /\ states' = states /\ joins' = joins
      BY <1>2, <1>g, <2>1 DEF Probe
    <3> QED
      BY SMTT(30), <2>1, <3>1 DEF MayGoOn, AfterProbe, StepPhase, RunAgrees, StartOnRecord
  <2>2. CASE ~MayGoOn(j)
    BY <1>2, <1>e, <1>x, <2>2 DEF Probe
  <2> QED
    BY <2>1, <2>2
<1>3. CASE Ensure(j)
  <2>1. CASE NotInCluster(j)
    <3>1. pc[j] = "ensure" /\ pc'[j] = AfterEnsure(j) /\ run'[j] = run[j]
          /\ states' = states /\ joins' = joins
      BY <1>3, <1>g, <2>1 DEF Ensure
    <3> QED
      BY SMTT(30), <3>1 DEF AfterEnsure, JoinSteps, StepPhase, RunAgrees, StartOnRecord
  <2>2. CASE ~NotInCluster(j)
    BY <1>3, <1>e, <1>x, <2>2 DEF Ensure
  <2> QED
    BY <2>1, <2>2
<1>4. CASE Push(j)
  <2>1. pc[j] = "push" /\ pc'[j] = AfterPush(j) /\ run'[j] = run[j]
        /\ states' = states /\ joins' = joins
    BY <1>4, <1>g DEF Push
  <2>2. run[j].phase \in {New, Staged, Prepared}
    BY <1>p, <2>1 DEF StepPhase
  <2>3. \/ run[j].phase = New /\ pc'[j] = "saveStaged"
        \/ run[j].phase = Staged /\ pc'[j] = "prepare"
        \/ run[j].phase = Prepared /\ pc'[j] = "images"
    BY <2>1, <2>2 DEF AfterPush
  <2> QED
    BY <2>1, <2>3 DEF StepPhase, RunAgrees, StartOnRecord
<1>5. CASE PrepareNode(j) \/ ImportImages(j) \/ UploadCerts(j) \/ UploadTicket(j)
  BY <1>5 DEF PrepareNode, ImportImages, UploadCerts, UploadTicket, Goto, StepPhase, RunAgrees,
     StartOnRecord
<1>6. CASE SaveStaged(j)
  <2>1. /\ pc[j] = "saveStaged" /\ pc'[j] = "prepare" /\ joins' = joins
        /\ run'[j].phase = Staged /\ states'[j] = run'[j]
    BY <1>6 DEF SaveStaged, Save
  <2> QED
    BY <2>1, <1>p DEF StepPhase, RunAgrees, StartOnRecord
<1>7. CASE SavePrepared(j)
  <2>1. /\ pc[j] = "savePrepared" /\ pc'[j] = "images" /\ joins' = joins
        /\ run'[j].phase = Prepared /\ states'[j] = run'[j]
    BY <1>7 DEF SavePrepared, Save
  <2> QED
    BY <2>1, <1>p DEF StepPhase, RunAgrees, StartOnRecord
<1>8. CASE SaveImages(j)
  <2>1. /\ pc[j] = "saveImages" /\ pc'[j] = JoinSteps(j) /\ joins' = joins
        /\ run'[j].phase = Images /\ states'[j] = run'[j]
    BY <1>8 DEF SaveImages, Save
  <2> QED
    BY <2>1, <1>p DEF StepPhase, RunAgrees, StartOnRecord, JoinSteps
<1>9. CASE SaveStarting(j)
  <2>1. /\ pc[j] = "saveStarting" /\ pc'[j] = "join" /\ joins' = joins
        /\ run'[j].phase = Starting /\ states'[j] = run'[j]
    BY <1>9 DEF SaveStarting, Save
  <2> QED
    BY <2>1, <1>p DEF StepPhase, RunAgrees, StartOnRecord
<1>10. CASE SaveJoined(j)
  <2>1. /\ pc[j] = "saveJoined" /\ pc'[j] = "ready" /\ joins' = joins
        /\ run'[j].phase = Joined /\ states'[j] = run'[j]
    BY <1>10 DEF SaveJoined, Save
  <2> QED
    BY <2>1, <1>p DEF StepPhase, RunAgrees, StartOnRecord
<1>11. CASE SaveReady(j)
  <2>1. /\ pc[j] = "saveReady" /\ pc'[j] = "saveComplete" /\ joins' = joins
        /\ run'[j].phase = Ready /\ states'[j] = run'[j]
    BY <1>11 DEF SaveReady, Save
  <2> QED
    BY <2>1, <1>p DEF StepPhase, RunAgrees, StartOnRecord
<1>12. CASE SaveComplete(j)
  BY <1>12, <1>x DEF SaveComplete, StepPhase, RunAgrees, StartOnRecord
<1>13. CASE RunJoin(j)
  <2>1. joins'[j] = 1 /\ states[j].phase = Starting /\ states' = states
    BY <1>13 DEF RunJoin, StepPhase, RunAgrees
  <2>2. pc'[j] = "idle" \/ (pc'[j] = "wait" /\ run'[j] = run[j] /\ run[j].phase = Starting)
    BY <1>13 DEF RunJoin, StepPhase, Goto, End
  <2> QED
    BY <1>13, <2>1, <2>2 DEF RunJoin, StepPhase, RunAgrees, StartOnRecord
<1>14. CASE JoinReturns(j) \/ WaitReady(j)
  BY <1>14, <1>e, <1>x DEF JoinReturns, WaitReady, Goto, StepPhase, RunAgrees, StartOnRecord
<1>15. CASE WaitTimesOut(j) \/ Stop(j)
  BY <1>15, <1>e, <1>x DEF WaitTimesOut, Stop
<1> QED
  BY <1>1, <1>2, <1>3, <1>4, <1>5, <1>6, <1>7, <1>8, <1>9, <1>10, <1>11, <1>12, <1>13,
     <1>14, <1>15 DEF Advance

LEMMA Inductive == IInv /\ [Next]_vars => IInv'
<1> SUFFICES ASSUME IInv, [Next]_vars PROVE IInv'
  OBVIOUS
<1>t. Typed /\ Typed' /\ TypeOK /\ TypeOK'
  BY TypeInductive, TicketsInductive DEF IInv, Typed
<1>k. ASSUME NEW k \in Jobs, UNCHANGED <<pc[k], run[k], states[k], joins[k]>>
      PROVE  Orderly(k)'
  <2>1. Orderly(k)
    BY DEF IInv
  <2> QED
    BY <1>k, <2>1 DEF Orderly, StepPhase, RunAgrees, StartOnRecord
<1>1. ASSUME NEW j \in Jobs, StartFresh(j) \/ StartResume(j) \/ Advance(j) \/ Stop(j),
             NEW k \in Jobs
      PROVE  Orderly(k)'
  <2>1. CASE k = j
    BY <1>1, <1>t, <2>1, OrderlyStep DEF IInv
  <2>2. CASE k # j
    BY <1>1, <1>t, <1>k, <2>2, OtherJobs
  <2> QED
    BY <2>1, <2>2
<1>2. ASSUME UNCHANGED <<pc, run, states, joins>>, NEW k \in Jobs PROVE Orderly(k)'
  BY <1>2, <1>k
<1> QED
  BY <1>1, <1>2, <1>t, Environment DEF Next, IInv

LEMMA Invariance == Spec => []IInv
<1>1. ASSUME Init PROVE IInv
  BY <1>1, TypeInitially DEF Init, IInv, Orderly, StepPhase, RunAgrees, StartOnRecord, NoFile, New
<1> QED
  BY <1>1, Inductive, PTL DEF Spec

(* kubeadm join is started at most once for a state file, however many times *)
(* its addition fails, is killed or is resumed, and whoever else works on    *)
(* the same machine.                                                         *)
THEOREM JoinOnce == Spec => []JoinAtMostOnce
<1>1. IInv => JoinAtMostOnce
  BY DEF IInv, Orderly, StartOnRecord, JoinAtMostOnce
<1> QED
  BY <1>1, Invariance, PTL

-----------------------------------------------------------------------------
(* The machine of one job, when no machine is added in two roles.            *)

OneJobPerMachine == \A j, k \in Jobs : j.target = k.target => j = k

(* What a state file says was staged, installed and imported is on the       *)
(* machine, and so is what the process is about to put on record; a join     *)
(* about to start finds the join file of its own job.                        *)
Provisioned(j) ==
    /\ Saved(j, Staged) => machine(j).staging = states[j].inputs
    /\ Saved(j, Prepared) => machine(j).node = states[j].inputs
    /\ Saved(j, Images) => states[j].inputs \in machine(j).images
    /\ pc[j] = "saveStaged" => machine(j).staging = run[j].inputs
    /\ pc[j] = "savePrepared" => machine(j).node = run[j].inputs
    /\ pc[j] = "saveImages" => run[j].inputs \in machine(j).images
    /\ pc[j] \in {"saveStarting", "join"} =>
          machine(j).joinFile = [job |-> j, node |-> run[j].node]

(* A machine on which kubeadm join ran was joined by its own job, under the  *)
(* name on record, and no join is on record that never started.              *)
JoinedByOwnJob(j) ==
    /\ machine(j).join # "none" \/ machine(j).kubelet =>
          joins[j] = 1 /\ machine(j).ticket = [job |-> j, node |-> states[j].node]
    /\ machine(j).kubelet => machine(j).role = j.role
    /\ machine(j).member => machine(j).kubelet
    /\ pc[j] = "saveJoined" \/ Saved(j, Joined) => machine(j).kubelet

(* A state file is there from the first save on. *)
FileOnRecord(j) ==
    /\ states[j].phase = New => states[j].node = None
    /\ states[j].phase # New => states[j].node \in Nodes

OwnMachine(j) == Provisioned(j) /\ JoinedByOwnJob(j) /\ FileOnRecord(j)

(* A machine nobody adds is never joined. *)
Idle(t) == (\A j \in Jobs : j.target # t) => machines[t].join = "none" /\ ~machines[t].kubelet

(* A node in the API belongs to a joined machine that was given its name. *)
ApiTrue ==
    \A n \in Nodes :
        /\ health[n] # "no" => owner[n] # None
        /\ owner[n] # None => machines[owner[n]].kubelet /\ machines[owner[n]].ticket.node = n

(* What `ready` rests on. *)
ReadyTrue(j) ==
    pc[j] = "saveReady" \/ Saved(j, Ready) =>
        /\ owner[states[j].node] # None
        /\ j.role = "master" /\ OwnNode(j) => machine(j).control

MInv ==
    /\ IInv
    /\ \A j \in Jobs : OwnMachine(j) /\ ReadyTrue(j)
    /\ \A t \in Targets : Idle(t)
    /\ ApiTrue

(* A step of a process keeps what is known of its own machine. *)
LEMMA OwnMachineStep ==
    ASSUME TypeOK, TypeOK', NEW j \in Jobs, Orderly(j), OwnMachine(j),
           StartFresh(j) \/ StartResume(j) \/ Advance(j) \/ Stop(j)
    PROVE  OwnMachine(j)'
<1>j. j.target \in Targets /\ machine(j) \in Machines
  BY JobType DEF TypeOK, machine
<1>p. /\ run[j].phase \in 0..7 /\ states[j].phase \in 0..7
      /\ run[j] \in Locals /\ states[j] \in Locals /\ joins[j] \in Nat
  BY DEF TypeOK, Phases, Locals
<1>n. pc[j] # "idle" => run[j].inputs \in Inputs /\ run[j].node \in Nodes
  BY DEF TypeOK
<1> USE DEF OwnMachine, New, Staged, Prepared, Images, Starting, Joined, Ready, Complete, OnMaster0
<1>k. ASSUME UNCHANGED <<states[j], joins[j], machines[j.target]>>,
             \/ pc'[j] \notin {"saveStaged", "savePrepared", "saveImages", "saveStarting",
                              "join", "saveJoined"}
             \/ pc'[j] = "saveJoined" /\ machine(j).kubelet
      PROVE  OwnMachine(j)'
  BY <1>k DEF Provisioned, JoinedByOwnJob, FileOnRecord, Saved, machine
<1>1. CASE StartFresh(j) \/ StartResume(j)
  <2>1. pc'[j] = "probe" /\ UNCHANGED <<states, joins, machines>>
    BY <1>1 DEF StartFresh, StartResume, TypeOK
  <2> QED
    BY <2>1, <1>k
<1>2. CASE Probe(j)
  <2>1. UNCHANGED <<states, joins, machines>>
    BY <1>2 DEF Probe
  <2>2. CASE MayGoOn(j)
    <3>1. pc'[j] = AfterProbe(j)
      BY <1>2, <2>2 DEF Probe, Goto, TypeOK
    <3>2. AfterProbe(j) \in {"ensure", "ready", "saveComplete"}
          \/ (AfterProbe(j) = "saveJoined" /\ machine(j).kubelet)
      BY <2>2, <1>p DEF AfterProbe, MayGoOn
    <3> QED
      BY <2>1, <3>1, <3>2, <1>k
  <2>3. CASE ~MayGoOn(j)
    <3>1. pc'[j] = "idle"
      BY <1>2, <2>3 DEF Probe, End, TypeOK
    <3> QED
      BY <2>1, <3>1, <1>k
  <2> QED
    BY <2>2, <2>3
<1>3. CASE Ensure(j)
  <2>1. pc'[j] \in {"push", "certs", "token", "idle"} /\ UNCHANGED <<states, joins, machines>>
    BY <1>3 DEF Ensure, Goto, End, AfterEnsure, JoinSteps, TypeOK
  <2> QED
    BY <2>1, <1>k
<1>4. CASE Push(j)
  <2>1. /\ pc[j] = "push" /\ pc'[j] \in {"saveStaged", "prepare", "images"}
        /\ UNCHANGED <<states[j], joins[j], run[j]>>
    BY <1>4 DEF Push, Goto, AfterPush, TypeOK
  <2>2. machine(j)' = [machine(j) EXCEPT !.staging = run[j].inputs]
    BY <1>4, <1>j DEF Push, machine, TypeOK
  <2>3. /\ machine(j).staging' = run[j].inputs
        /\ UNCHANGED <<machine(j).node, machine(j).images, machine(j).join, machine(j).kubelet,
                       machine(j).ticket, machine(j).role, machine(j).member>>
    BY <2>2, <1>j DEF Machines
  <2>4. states[j].phase # New => run[j].inputs = states[j].inputs
    BY <2>1 DEF Orderly, RunAgrees
  <2>5. Provisioned(j)'
    BY <2>1, <2>3, <2>4, <1>p DEF Provisioned, Saved
  <2> QED
    BY <2>1, <2>3, <2>5 DEF JoinedByOwnJob, FileOnRecord, Saved
<1>5. CASE PrepareNode(j)
  <2>1. /\ pc[j] = "prepare" /\ pc'[j] = "savePrepared"
        /\ UNCHANGED <<states[j], joins[j], run[j]>>
    BY <1>5 DEF PrepareNode, Goto, TypeOK
  <2>2. machine(j)' = [machine(j) EXCEPT !.node = run[j].inputs]
    BY <1>5, <1>j DEF PrepareNode, machine, TypeOK
  <2>3. /\ machine(j).node' = run[j].inputs
        /\ UNCHANGED <<machine(j).staging, machine(j).images, machine(j).join, machine(j).kubelet,
                       machine(j).ticket, machine(j).role, machine(j).member>>
    BY <2>2, <1>j DEF Machines
  <2>4. run[j].inputs = states[j].inputs
    BY <2>1 DEF Orderly, RunAgrees, StepPhase
  <2>5. Provisioned(j)'
    BY <2>1, <2>3, <2>4, <1>p DEF Provisioned, Saved
  <2> QED
    BY <2>1, <2>3, <2>5 DEF JoinedByOwnJob, FileOnRecord, Saved
<1>6. CASE ImportImages(j)
  <2>1. /\ pc[j] = "images" /\ pc'[j] = "saveImages"
        /\ UNCHANGED <<states[j], joins[j], run[j]>>
    BY <1>6 DEF ImportImages, Goto, TypeOK
  <2>2. machine(j)' = [machine(j) EXCEPT !.images = @ \cup {run[j].inputs}]
    BY <1>6, <1>j DEF ImportImages, machine, TypeOK
  <2>3. /\ machine(j).images' = machine(j).images \cup {run[j].inputs}
        /\ UNCHANGED <<machine(j).staging, machine(j).node, machine(j).join, machine(j).kubelet,
                       machine(j).ticket, machine(j).role, machine(j).member>>
    BY <2>2, <1>j DEF Machines
  <2>4. run[j].inputs = states[j].inputs
    BY <2>1 DEF Orderly, RunAgrees, StepPhase
  <2>5. Provisioned(j)'
    BY <2>1, <2>3, <2>4, <1>p DEF Provisioned, Saved
  <2> QED
    BY <2>1, <2>3, <2>5 DEF JoinedByOwnJob, FileOnRecord, Saved
<1>7. CASE UploadCerts(j)
  <2>1. pc'[j] = "token" /\ UNCHANGED <<states, joins, machines>>
    BY <1>7 DEF UploadCerts, Goto, TypeOK
  <2> QED
    BY <2>1, <1>k
<1>8. CASE UploadTicket(j)
  <2>1. /\ pc[j] = "token" /\ pc'[j] = "saveStarting"
        /\ UNCHANGED <<states[j], joins[j], run[j]>>
    BY <1>8 DEF UploadTicket, Goto, TypeOK
  <2>2. machine(j)' = [machine(j) EXCEPT !.joinFile = [job |-> j, node |-> run[j].node]]
    BY <1>8, <1>j DEF UploadTicket, machine, TypeOK
  <2>3. /\ machine(j).joinFile' = [job |-> j, node |-> run[j].node]
        /\ UNCHANGED <<machine(j).staging, machine(j).node, machine(j).images, machine(j).join,
                       machine(j).kubelet, machine(j).ticket, machine(j).role, machine(j).member>>
    BY <2>2, <1>j DEF Machines
  <2>4. Provisioned(j)'
    BY <2>1, <2>3 DEF Provisioned, Saved
  <2> QED
    BY <2>1, <2>3, <2>4 DEF JoinedByOwnJob, FileOnRecord, Saved
<1>s. ASSUME NEW phase \in Phases, run[j].phase + 1 = phase,
             UNCHANGED <<joins, machines>>, states'[j] = run'[j],
             run'[j] = [run[j] EXCEPT !.phase = phase],
             pc[j] \in {"saveStaged", "savePrepared", "saveImages", "saveStarting", "saveJoined",
                       "saveReady", "saveComplete"},
             pc'[j] \notin {"saveStaged", "savePrepared", "saveImages", "saveStarting", "saveJoined"},
             pc'[j] = "join" => pc[j] = "saveStarting",
             pc[j] = "saveStaged" <=> phase = Staged,
             pc[j] = "savePrepared" <=> phase = Prepared,
             pc[j] = "saveImages" <=> phase = Images,
             pc[j] = "saveJoined" <=> phase = Joined
      PROVE  OwnMachine(j)'
  <2>1. /\ states'[j].phase = phase /\ states'[j].inputs = run[j].inputs
        /\ states'[j].node = run[j].node /\ run'[j].node = run[j].node
    BY <1>s, <1>p DEF Locals
  <2>2. /\ run[j].phase = states[j].phase
        /\ states[j].phase # New =>
              run[j].inputs = states[j].inputs /\ run[j].node = states[j].node
        /\ pc[j] # "idle" /\ phase # New
    BY <1>s, <1>p DEF Orderly, RunAgrees
  <2>3. Provisioned(j)'
    BY <1>s, <2>1, <2>2, <1>p DEF Provisioned, Saved, machine
  <2>4. JoinedByOwnJob(j)'
    <3>1. states[j].phase = New => ~(machine(j).join # "none" \/ machine(j).kubelet)
      BY <1>p DEF JoinedByOwnJob, Orderly, StartOnRecord
    <3> QED
      BY <1>s, <2>1, <2>2, <3>1, <1>p DEF JoinedByOwnJob, Saved, machine
  <2>5. FileOnRecord(j)'
    BY <2>1, <2>2, <1>n DEF FileOnRecord
  <2> QED
    BY <2>3, <2>4, <2>5
<1>9. CASE SaveStaged(j)
  <2>1. /\ pc[j] = "saveStaged" /\ pc'[j] = "prepare" /\ UNCHANGED <<joins, machines>>
        /\ run'[j] = [run[j] EXCEPT !.phase = Staged] /\ states'[j] = run'[j]
    BY <1>9 DEF SaveStaged, Save, TypeOK
  <2> QED
    BY <2>1, <1>p, <1>s DEF Orderly, StepPhase, Phases
<1>10. CASE SavePrepared(j)
  <2>1. /\ pc[j] = "savePrepared" /\ pc'[j] = "images" /\ UNCHANGED <<joins, machines>>
        /\ run'[j] = [run[j] EXCEPT !.phase = Prepared] /\ states'[j] = run'[j]
    BY <1>10 DEF SavePrepared, Save, TypeOK
  <2> QED
    BY <2>1, <1>p, <1>s DEF Orderly, StepPhase, Phases
<1>11. CASE SaveImages(j)
  <2>1. /\ pc[j] = "saveImages" /\ pc'[j] = JoinSteps(j) /\ UNCHANGED <<joins, machines>>
        /\ run'[j] = [run[j] EXCEPT !.phase = Images] /\ states'[j] = run'[j]
    BY <1>11 DEF SaveImages, Save, TypeOK
  <2> QED
    BY <2>1, <1>p, <1>s DEF Orderly, StepPhase, Phases, JoinSteps
<1>12. CASE SaveStarting(j)
  <2>1. /\ pc[j] = "saveStarting" /\ pc'[j] = "join" /\ UNCHANGED <<joins, machines>>
        /\ run'[j] = [run[j] EXCEPT !.phase = Starting] /\ states'[j] = run'[j]
    BY <1>12 DEF SaveStarting, Save, TypeOK
  <2> QED
    BY <2>1, <1>p, <1>s DEF Orderly, StepPhase, Phases
<1>13. CASE SaveJoined(j)
  <2>1. /\ pc[j] = "saveJoined" /\ pc'[j] = "ready" /\ UNCHANGED <<joins, machines>>
        /\ run'[j] = [run[j] EXCEPT !.phase = Joined] /\ states'[j] = run'[j]
    BY <1>13 DEF SaveJoined, Save, TypeOK
  <2> QED
    BY <2>1, <1>p, <1>s DEF Orderly, StepPhase, Phases
<1>14. CASE SaveReady(j)
  <2>1. /\ pc[j] = "saveReady" /\ pc'[j] = "saveComplete" /\ UNCHANGED <<joins, machines>>
        /\ run'[j] = [run[j] EXCEPT !.phase = Ready] /\ states'[j] = run'[j]
    BY <1>14 DEF SaveReady, Save, TypeOK
  <2> QED
    BY <2>1, <1>p, <1>s DEF Orderly, StepPhase, Phases
<1>15. CASE SaveComplete(j)
  <2>1. /\ pc[j] = "saveComplete" /\ pc'[j] = "idle" /\ UNCHANGED <<joins, machines>>
        /\ states'[j] = [run[j] EXCEPT !.phase = Complete]
    BY <1>15 DEF SaveComplete, End, TypeOK
  <2>2. /\ states'[j].phase = Complete /\ states'[j].inputs = run[j].inputs
        /\ states'[j].node = run[j].node
    BY <2>1, <1>p DEF Locals
  <2>3. /\ states[j].phase = Ready
        /\ run[j].inputs = states[j].inputs /\ run[j].node = states[j].node
    BY <2>1, <1>p DEF Orderly, StepPhase, RunAgrees
  <2> QED
    BY <2>1, <2>2, <2>3, <1>p DEF Provisioned, JoinedByOwnJob, FileOnRecord, Saved, machine
<1>16. CASE RunJoin(j)
  <2>1. /\ pc[j] = "join" /\ joins'[j] = 1 /\ UNCHANGED states
        /\ pc'[j] \in {"wait", "idle"}
    BY <1>16, <1>p DEF RunJoin, Goto, End, TypeOK, Orderly, RunAgrees
  <2>2. /\ states[j].phase = Starting
        /\ machine(j).joinFile = [job |-> j, node |-> states[j].node]
    BY <2>1, <1>p DEF Orderly, RunAgrees, StepPhase, Provisioned
  <2>3. machine(j).join = "none" /\ ~machine(j).kubelet
    BY <2>1, <1>p DEF JoinedByOwnJob, Orderly, RunAgrees
  <2>4. /\ UNCHANGED <<machine(j).staging, machine(j).node, machine(j).images,
                       machine(j).kubelet, machine(j).role, machine(j).member>>
        /\ \/ machine(j).ticket' = machine(j).joinFile
           \/ UNCHANGED <<machine(j).join, machine(j).ticket>>
    BY <1>16, <1>j DEF RunJoin, machine, Machines, TypeOK
  <2>5. Provisioned(j)'
    BY <2>1, <2>4 DEF Provisioned, Saved
  <2>6. JoinedByOwnJob(j)'
    BY <2>1, <2>2, <2>3, <2>4, <1>p DEF JoinedByOwnJob, Saved
  <2> QED
    BY <2>1, <2>5, <2>6 DEF FileOnRecord
<1>17. CASE JoinReturns(j)
  <2>1. /\ UNCHANGED <<states, joins, machines>>
        /\ pc'[j] = "idle" \/ (pc'[j] = "saveJoined" /\ machine(j).kubelet)
    BY <1>17 DEF JoinReturns, Goto, End, TypeOK
  <2> QED
    BY <2>1, <1>k
<1>18. CASE WaitReady(j) \/ WaitTimesOut(j)
  <2>1. pc'[j] \in {"idle", "saveReady"} /\ UNCHANGED <<states, joins, machines>>
    BY <1>18 DEF WaitReady, WaitTimesOut, Goto, End, TypeOK
  <2> QED
    BY <2>1, <1>k
<1>19. CASE Stop(j)
  <2>1. pc[j] # "idle" /\ pc'[j] = "idle" /\ UNCHANGED <<states, joins>>
    BY <1>19 DEF Stop, End, TypeOK
  <2>2. PICK c \in CutShort(j) : machine(j)' = c
    BY <1>19, <1>j DEF Stop, machine, TypeOK
  <2>3. CASE c = machine(j)
    BY <2>1, <2>2, <2>3, <1>k DEF machine
  <2>4. CASE c # machine(j)
    <3>1. \/ /\ pc[j] = "push" /\ machine(j).staging # run[j].inputs
             /\ c = [machine(j) EXCEPT !.staging = Torn]
          \/ /\ pc[j] = "prepare"
             /\ \E left \in {Torn, run[j].inputs} : c = [machine(j) EXCEPT !.node = left]
          \/ c = [machine(j) EXCEPT !.images = machine(j).images \cup {run[j].inputs}]
          \/ c = [machine(j) EXCEPT !.joinFile = [job |-> j, node |-> run[j].node]]
      BY <2>2, <2>4, CutShortKinds
    <3>6. machine(j).images \subseteq machine(j).images'
      BY <2>2, <3>1, <1>j DEF Machines
    <3>2. UNCHANGED <<machine(j).join, machine(j).kubelet,
                      machine(j).ticket, machine(j).role, machine(j).member>>
      BY <2>2, <3>1, <1>j DEF Machines
    <3>3. Saved(j, Staged) => machine(j).staging' = machine(j).staging
      BY <2>1, <2>2, <3>1, <1>j, <1>p DEF Machines, Saved, Orderly, RunAgrees, Provisioned
    <3>4. Saved(j, Prepared) => machine(j).node' = machine(j).node
      BY <2>1, <2>2, <3>1, <1>j, <1>p DEF Machines, Saved, Orderly, RunAgrees, StepPhase
    <3>5. Provisioned(j)'
      BY <2>1, <3>6, <3>3, <3>4 DEF Provisioned, Saved
    <3> QED
      BY <2>1, <3>2, <3>5 DEF JoinedByOwnJob, FileOnRecord, Saved
  <2> QED
    BY <2>3, <2>4
<1> QED
  BY <1>1, <1>2, <1>3, <1>4, <1>5, <1>6, <1>7, <1>8, <1>9, <1>10, <1>11, <1>12, <1>13,
     <1>14, <1>15, <1>16, <1>17, <1>18, <1>19 DEF Advance

(* A saved state file keeps its inputs and its node name, and what is        *)
(* recorded last never becomes less.                                         *)
LEMMA FilesKept ==
    ASSUME IInv, TypeOK', [Next]_vars, NEW j \in Jobs
    PROVE  /\ states'[j].phase >= states[j].phase
           /\ states[j].phase # New =>
                 states'[j].inputs = states[j].inputs /\ states'[j].node = states[j].node
           /\ joins'[j] >= joins[j]
<1>t. TypeOK /\ Orderly(j) /\ states[j].phase \in 0..7 /\ joins[j] \in Nat
  BY DEF IInv, Typed, TypeOK, Locals, Phases
<1>k. ASSUME UNCHANGED <<states[j], joins[j]>>
      PROVE  /\ states'[j].phase >= states[j].phase
             /\ states[j].phase # New =>
                   states'[j].inputs = states[j].inputs /\ states'[j].node = states[j].node
             /\ joins'[j] >= joins[j]
  BY <1>t, <1>k
<1>s. ASSUME NEW phase \in Phases, pc[j] # "idle", joins' = joins,
             states' = [states EXCEPT ![j] = [run[j] EXCEPT !.phase = phase]],
             phase > run[j].phase
      PROVE  /\ states'[j].phase >= states[j].phase
             /\ states[j].phase # New =>
                   states'[j].inputs = states[j].inputs /\ states'[j].node = states[j].node
             /\ joins'[j] >= joins[j]
  <2>1. states'[j] = [run[j] EXCEPT !.phase = phase]
    BY <1>s, <1>t DEF TypeOK
  <2>2. /\ states'[j].phase = phase /\ states'[j].inputs = run[j].inputs
        /\ states'[j].node = run[j].node
    BY <2>1, <1>t DEF TypeOK, Locals
  <2> QED
    BY <1>s, <1>t, <2>1, <2>2 DEF Orderly, RunAgrees, Phases
<1>1. CASE \E k \in Jobs \ {j} : StartFresh(k) \/ StartResume(k) \/ Advance(k) \/ Stop(k)
  BY <1>1, <1>t, <1>k, OtherJobs
<1>2. CASE UNCHANGED <<pc, run, states, joins>>
  BY <1>2, <1>k
<1>3. CASE \/ SaveStaged(j) \/ SavePrepared(j) \/ SaveImages(j) \/ SaveStarting(j)
           \/ SaveJoined(j) \/ SaveReady(j) \/ SaveComplete(j)
  <2>1. CASE SaveStaged(j)
    <3>1. /\ pc[j] # "idle" /\ joins' = joins
          /\ states' = [states EXCEPT ![j] = [run[j] EXCEPT !.phase = Staged]]
      BY <2>1 DEF SaveStaged, Save
    <3>2. run[j].phase = New
      BY <2>1, <1>t DEF SaveStaged, Save, Orderly, StepPhase
    <3>3. Staged \in Phases /\ Staged > run[j].phase
      BY <3>2 DEF Phases, Staged, New
    <3> QED
      BY <3>1, <3>3, <1>s
  <2>2. CASE SavePrepared(j)
    <3>1. /\ pc[j] # "idle" /\ joins' = joins
          /\ states' = [states EXCEPT ![j] = [run[j] EXCEPT !.phase = Prepared]]
      BY <2>2 DEF SavePrepared, Save
    <3>2. run[j].phase = Staged
      BY <2>2, <1>t DEF SavePrepared, Save, Orderly, StepPhase
    <3>3. Prepared \in Phases /\ Prepared > run[j].phase
      BY <3>2 DEF Phases, Prepared, Staged
    <3> QED
      BY <3>1, <3>3, <1>s
  <2>3. CASE SaveImages(j)
    <3>1. /\ pc[j] # "idle" /\ joins' = joins
          /\ states' = [states EXCEPT ![j] = [run[j] EXCEPT !.phase = Images]]
      BY <2>3 DEF SaveImages, Save
    <3>2. run[j].phase = Prepared
      BY <2>3, <1>t DEF SaveImages, Save, Orderly, StepPhase
    <3>3. Images \in Phases /\ Images > run[j].phase
      BY <3>2 DEF Phases, Images, Prepared
    <3> QED
      BY <3>1, <3>3, <1>s
  <2>4. CASE SaveStarting(j)
    <3>1. /\ pc[j] # "idle" /\ joins' = joins
          /\ states' = [states EXCEPT ![j] = [run[j] EXCEPT !.phase = Starting]]
      BY <2>4 DEF SaveStarting, Save
    <3>2. run[j].phase = Images
      BY <2>4, <1>t DEF SaveStarting, Save, Orderly, StepPhase
    <3>3. Starting \in Phases /\ Starting > run[j].phase
      BY <3>2 DEF Phases, Starting, Images
    <3> QED
      BY <3>1, <3>3, <1>s
  <2>5. CASE SaveJoined(j)
    <3>1. /\ pc[j] # "idle" /\ joins' = joins
          /\ states' = [states EXCEPT ![j] = [run[j] EXCEPT !.phase = Joined]]
      BY <2>5 DEF SaveJoined, Save
    <3>2. run[j].phase = Starting
      BY <2>5, <1>t DEF SaveJoined, Save, Orderly, StepPhase
    <3>3. Joined \in Phases /\ Joined > run[j].phase
      BY <3>2 DEF Phases, Joined, Starting
    <3> QED
      BY <3>1, <3>3, <1>s
  <2>6. CASE SaveReady(j)
    <3>1. /\ pc[j] # "idle" /\ joins' = joins
          /\ states' = [states EXCEPT ![j] = [run[j] EXCEPT !.phase = Ready]]
      BY <2>6 DEF SaveReady, Save
    <3>2. run[j].phase = Joined
      BY <2>6, <1>t DEF SaveReady, Save, Orderly, StepPhase
    <3>3. Ready \in Phases /\ Ready > run[j].phase
      BY <3>2 DEF Phases, Ready, Joined
    <3> QED
      BY <3>1, <3>3, <1>s
  <2>7. CASE SaveComplete(j)
    <3>1. /\ pc[j] # "idle" /\ joins' = joins
          /\ states' = [states EXCEPT ![j] = [run[j] EXCEPT !.phase = Complete]]
      BY <2>7 DEF SaveComplete
    <3>2. run[j].phase = Ready
      BY <2>7, <1>t DEF SaveComplete, Orderly, StepPhase
    <3>3. Complete \in Phases /\ Complete > run[j].phase
      BY <3>2 DEF Phases, Complete, Ready
    <3> QED
      BY <3>1, <3>3, <1>s
  <2> QED
    BY <1>3, <2>1, <2>2, <2>3, <2>4, <2>5, <2>6, <2>7
<1>4. CASE RunJoin(j)
  BY <1>4, <1>t DEF RunJoin, OnMaster0, TypeOK
<1>5. CASE \/ StartFresh(j) \/ StartResume(j) \/ Probe(j) \/ Ensure(j) \/ Push(j)
           \/ PrepareNode(j) \/ ImportImages(j) \/ UploadCerts(j) \/ UploadTicket(j)
           \/ JoinReturns(j) \/ WaitReady(j) \/ WaitTimesOut(j) \/ Stop(j)
  BY <1>5, <1>k DEF StartFresh, StartResume, Probe, Ensure, Push, PrepareNode, ImportImages,
     UploadCerts, UploadTicket, JoinReturns, WaitReady, WaitTimesOut, Stop, OnMaster0
<1> QED
  BY <1>1, <1>2, <1>3, <1>4, <1>5, Environment DEF Next, Advance

(* A joined machine stays joined, in its role and under its name. *)
LEMMA JoinedStays ==
    ASSUME TypeOK, [Next]_vars, NEW t \in Targets, machines[t].kubelet
    PROVE  machines'[t].kubelet /\ UNCHANGED <<machines[t].ticket, machines[t].role>>
<1>m. machines \in [Targets -> Machines] /\ machines[t] \in Machines
  BY DEF TypeOK
<1>1. ASSUME NEW j \in Jobs, Push(j) \/ PrepareNode(j) \/ ImportImages(j) \/ UploadTicket(j)
      PROVE  machines'[t].kubelet /\ UNCHANGED <<machines[t].ticket, machines[t].role>>
  BY <1>1, <1>m DEF Push, PrepareNode, ImportImages, UploadTicket, Machines
<1>2. ASSUME NEW j \in Jobs, RunJoin(j)
      PROVE  machines'[t].kubelet /\ UNCHANGED <<machines[t].ticket, machines[t].role>>
  <2>1. CASE j.target # t
    BY <1>2, <1>m, <2>1 DEF RunJoin, machine
  <2>2. CASE j.target = t
    <3>1. machines' = [machines EXCEPT ![t].joinFile = None]
      BY <1>2, <2>2 DEF RunJoin, machine
    <3> QED
      BY <1>m, <3>1 DEF Machines
  <2> QED
    BY <2>1, <2>2
<1>3. ASSUME NEW j \in Jobs, Stop(j)
      PROVE  machines'[t].kubelet /\ UNCHANGED <<machines[t].ticket, machines[t].role>>
  <2>1. PICK c \in CutShort(j) : machines' = [machines EXCEPT ![j.target] = c]
    BY <1>3 DEF Stop
  <2>2. \/ c = machine(j) \/ c = [machine(j) EXCEPT !.staging = Torn]
        \/ \E left \in {Torn, run[j].inputs} : c = [machine(j) EXCEPT !.node = left]
        \/ c = [machine(j) EXCEPT !.images = machine(j).images \cup {run[j].inputs}]
        \/ c = [machine(j) EXCEPT !.joinFile = [job |-> j, node |-> run[j].node]]
    BY <2>1, CutShortKinds
  <2>3. CASE j.target = t
    BY <1>m, <2>1, <2>2, <2>3 DEF machine, Machines
  <2>4. CASE j.target # t
    BY <1>m, <2>1, <2>4
  <2> QED
    BY <2>3, <2>4
<1>4. ASSUME NEW u \in Targets, Kubeadm(u)
      PROVE  machines'[t].kubelet /\ UNCHANGED <<machines[t].ticket, machines[t].role>>
  BY <1>4, <1>m DEF Kubeadm, JoinWritesKubelet, KubeletRegisters, ControlPlaneUp, JoinSucceeds, JoinFails, Machines
<1>5. CASE UNCHANGED machines
  BY <1>5
<1> QED
  BY <1>1, <1>2, <1>3, <1>4, <1>5 DEF Next, Advance, vars, StartFresh, StartResume, Probe, Ensure,
     SaveStaged, SavePrepared, SaveImages, UploadCerts, SaveStarting, JoinReturns, SaveJoined,
     WaitReady, WaitTimesOut, SaveReady, SaveComplete, Save, NodeGetsReady, NodeGetsUnready, Edit

(* kubeadm join and the kubelet keep what is known of the machines. *)
LEMMA KubeadmStep ==
    ASSUME TypeOK, NEW t \in Targets, Kubeadm(t), NEW j \in Jobs, Orderly(j), OwnMachine(j)
    PROVE  OwnMachine(j)'
<1>j. j.target \in Targets /\ machine(j) \in Machines /\ machines \in [Targets -> Machines]
  BY JobType DEF TypeOK, machine
<1>u. UNCHANGED <<pc, run, states, joins>>
  BY Environment
<1>p. states[j].phase \in 0..7 /\ run[j].phase \in 0..7 /\ joins[j] \in Nat
  BY DEF TypeOK, Locals, Phases
<1> USE DEF OwnMachine, New, Staged, Prepared, Images, Starting, Joined, Ready, Complete
<1>1. CASE j.target # t
  <2>1. machine(j)' = machine(j)
    BY <1>j, <1>1 DEF machine, Kubeadm, JoinWritesKubelet, KubeletRegisters, ControlPlaneUp, JoinSucceeds, JoinFails
  <2> QED
    BY <1>u, <2>1 DEF Provisioned, JoinedByOwnJob, FileOnRecord, Saved
<1>2. CASE j.target = t
  <2>1. /\ UNCHANGED <<machine(j).staging, machine(j).node, machine(j).images, machine(j).ticket>>
        /\ machine(j).kubelet => machine(j).kubelet'
        /\ machine(j).join # "none" \/ machine(j).kubelet
    BY <1>j, <1>2 DEF machine, Machines, Kubeadm, JoinWritesKubelet, KubeletRegisters,
       ControlPlaneUp, JoinSucceeds, JoinFails
  <2>2. joins[j] = 1 /\ machine(j).ticket = [job |-> j, node |-> states[j].node]
    BY <2>1 DEF JoinedByOwnJob
  <2>3. pc[j] \notin {"saveStarting", "join"}
    BY <2>2, <1>p DEF Orderly, StepPhase, RunAgrees, StartOnRecord
  <2>4. Provisioned(j)'
    BY <1>u, <2>1, <2>3 DEF Provisioned, Saved
  <2>5. (machine(j).kubelet => machine(j).role = j.role)'
    <3>1. CASE JoinWritesKubelet(t)
      BY <1>j, <1>2, <2>2, <3>1 DEF JoinWritesKubelet, machine, Machines
    <3>2. CASE ~JoinWritesKubelet(t)
      BY <1>j, <1>2, <3>2 DEF Kubeadm, KubeletRegisters, ControlPlaneUp, JoinSucceeds, JoinFails, machine, Machines,
         JoinedByOwnJob
    <3> QED
      BY <3>1, <3>2
  <2>6. (machine(j).member => machine(j).kubelet)'
    BY <1>j, <1>2 DEF Kubeadm, JoinWritesKubelet, KubeletRegisters, ControlPlaneUp, JoinSucceeds, JoinFails,
       machine, Machines, JoinedByOwnJob
  <2>7. JoinedByOwnJob(j)'
    BY <1>u, <2>1, <2>2, <2>5, <2>6 DEF JoinedByOwnJob, Saved
  <2> QED
    BY <1>u, <2>4, <2>7 DEF FileOnRecord
<1> QED
  BY <1>1, <1>2

(* What is said of a job depends on its process, its files and its machine. *)
LEMMA OwnMachineFrame ==
    ASSUME NEW j \in Jobs, OwnMachine(j),
           UNCHANGED <<pc[j], run[j], states[j], joins[j], machines[j.target]>>
    PROVE  OwnMachine(j)'
BY DEF OwnMachine, Provisioned, JoinedByOwnJob, FileOnRecord, Saved, machine

LEMMA OwnMachinesInductive ==
    ASSUME OneJobPerMachine, IInv, TypeOK', [Next]_vars, \A j \in Jobs : OwnMachine(j)
    PROVE  \A j \in Jobs : OwnMachine(j)'
<1> SUFFICES ASSUME NEW k \in Jobs PROVE OwnMachine(k)'
  OBVIOUS
<1>t. TypeOK /\ Orderly(k) /\ OwnMachine(k) /\ k.target \in Targets
  BY JobType DEF IInv, Typed
<1>1. ASSUME NEW j \in Jobs, StartFresh(j) \/ StartResume(j) \/ Advance(j) \/ Stop(j)
      PROVE  OwnMachine(k)'
  <2>1. CASE k = j
    BY <1>1, <1>t, <2>1, OwnMachineStep
  <2>2. CASE k # j
    <3>1. k.target # j.target
      BY <2>2 DEF OneJobPerMachine
    <3> QED
      BY <1>1, <1>t, <2>2, <3>1, OtherJobs, OwnMachineFrame
  <2> QED
    BY <2>1, <2>2
<1>2. ASSUME NEW t \in Targets, Kubeadm(t) PROVE OwnMachine(k)'
  BY <1>2, <1>t, KubeadmStep
<1>3. CASE (\E n \in Nodes : NodeGetsReady(n) \/ NodeGetsUnready(n)) \/ Edit \/ UNCHANGED vars
  <2>1. UNCHANGED machines
    BY <1>3 DEF NodeGetsReady, NodeGetsUnready, Edit, vars
  <2> QED
    BY <1>3, <1>t, <2>1, Environment, OwnMachineFrame
<1> QED
  BY <1>1, <1>2, <1>3 DEF Next

(* A control plane that is up stays up. *)
LEMMA ControlStays ==
    ASSUME TypeOK, [Next]_vars, NEW t \in Targets, machines[t].control, machines[t].role = "master"
    PROVE  machines'[t].control
<1>m. machines \in [Targets -> Machines] /\ machines[t] \in Machines
  BY DEF TypeOK
<1>1. ASSUME NEW j \in Jobs, Push(j) \/ PrepareNode(j) \/ ImportImages(j) \/ UploadTicket(j)
      PROVE  machines'[t].control
  BY <1>1, <1>m DEF Push, PrepareNode, ImportImages, UploadTicket, Machines
<1>2. ASSUME NEW j \in Jobs, RunJoin(j) PROVE machines'[t].control
  BY <1>2, <1>m DEF RunJoin, machine, Machines
<1>3. ASSUME NEW j \in Jobs, Stop(j) PROVE machines'[t].control
  <2>1. PICK c \in CutShort(j) : machines' = [machines EXCEPT ![j.target] = c]
    BY <1>3 DEF Stop
  <2>2. \/ c = machine(j) \/ c = [machine(j) EXCEPT !.staging = Torn]
        \/ \E left \in {Torn, run[j].inputs} : c = [machine(j) EXCEPT !.node = left]
        \/ c = [machine(j) EXCEPT !.images = machine(j).images \cup {run[j].inputs}]
        \/ c = [machine(j) EXCEPT !.joinFile = [job |-> j, node |-> run[j].node]]
    BY <2>1, CutShortKinds
  <2>3. CASE j.target = t
    BY <1>m, <2>1, <2>2, <2>3 DEF machine, Machines
  <2>4. CASE j.target # t
    BY <1>m, <2>1, <2>4
  <2> QED
    BY <2>3, <2>4
<1>4. ASSUME NEW u \in Targets, Kubeadm(u) PROVE machines'[t].control
  BY <1>4, <1>m DEF Kubeadm, JoinWritesKubelet, KubeletRegisters, ControlPlaneUp, JoinSucceeds, JoinFails, Machines
<1>5. CASE UNCHANGED machines
  BY <1>5
<1> QED
  BY <1>1, <1>2, <1>3, <1>4, <1>5 DEF Next, Advance, vars, StartFresh, StartResume, Probe, Ensure,
     SaveStaged, SavePrepared, SaveImages, UploadCerts, SaveStarting, JoinReturns, SaveJoined,
     WaitReady, WaitTimesOut, SaveReady, SaveComplete, Save, NodeGetsReady, NodeGetsUnready, Edit

(* Jobs do not touch the nodes in the API; only the kubelet of a target does. *)
LEMMA OwnersStep ==
    ASSUME [Next]_vars
    PROVE  \/ \E t \in Targets : KubeletRegisters(t)
           \/ /\ \E n \in Nodes : NodeGetsReady(n) \/ NodeGetsUnready(n)
              /\ UNCHANGED owner
           \/ UNCHANGED <<owner, health>>
<1>1. ASSUME NEW j \in Jobs, StartFresh(j) \/ StartResume(j) \/ Stop(j)
      PROVE UNCHANGED <<owner, health>>
  BY <1>1 DEF StartFresh, StartResume, Stop, InApi
<1>2. ASSUME NEW j \in Jobs, Advance(j) PROVE UNCHANGED <<owner, health>>
  <2>1. CASE Probe(j) \/ Ensure(j) \/ Push(j) \/ PrepareNode(j) \/ ImportImages(j)
    BY <2>1 DEF Probe, Ensure, Push, PrepareNode, ImportImages, InApi
  <2>2. CASE UploadCerts(j) \/ UploadTicket(j) \/ RunJoin(j) \/ JoinReturns(j)
             \/ WaitReady(j) \/ WaitTimesOut(j) \/ SaveComplete(j)
    BY <2>2 DEF UploadCerts, UploadTicket, RunJoin, JoinReturns, WaitReady, WaitTimesOut,
       SaveComplete, InApi
  <2>3. CASE SaveStaged(j) \/ SavePrepared(j) \/ SaveImages(j) \/ SaveStarting(j)
             \/ SaveJoined(j) \/ SaveReady(j)
    BY <2>3 DEF SaveStaged, SavePrepared, SaveImages, SaveStarting, SaveJoined, SaveReady, Save,
       InApi
  <2> QED
    BY <1>2, <2>1, <2>2, <2>3 DEF Advance
<1>3. ASSUME NEW t \in Targets, Kubeadm(t)
      PROVE KubeletRegisters(t) \/ UNCHANGED <<owner, health>>
  BY <1>3 DEF Kubeadm, JoinWritesKubelet, ControlPlaneUp, JoinSucceeds, JoinFails, InApi
<1>4. ASSUME NEW n \in Nodes, NodeGetsReady(n) \/ NodeGetsUnready(n) PROVE UNCHANGED owner
  BY <1>4 DEF NodeGetsReady, NodeGetsUnready
<1>5. CASE Edit \/ UNCHANGED vars
  BY <1>5 DEF Edit, InApi, vars
<1> QED
  BY <1>1, <1>2, <1>3, <1>4, <1>5 DEF Next

(* Nothing but its own jobs touches a machine that is not joined. *)
LEMMA IdleInductive ==
    ASSUME Typed, [Next]_vars, NEW t \in Targets, Idle(t)
    PROVE  Idle(t)'
<1> SUFFICES ASSUME \A j \in Jobs : j.target # t PROVE machines'[t] = machines[t]
  BY DEF Idle
<1>t. TypeOK /\ machines[t].join = "none" /\ ~machines[t].kubelet
  BY DEF Typed, Idle
<1>1. ASSUME NEW j \in Jobs, StartFresh(j) \/ StartResume(j) \/ Advance(j) \/ Stop(j)
      PROVE  machines'[t] = machines[t]
  BY <1>1, <1>t, OtherJobs
<1>2. ASSUME NEW u \in Targets, Kubeadm(u) PROVE machines'[t] = machines[t]
  BY <1>2, <1>t DEF Kubeadm, JoinWritesKubelet, KubeletRegisters, ControlPlaneUp, JoinSucceeds, JoinFails, TypeOK
<1>3. CASE (\E n \in Nodes : NodeGetsReady(n) \/ NodeGetsUnready(n)) \/ Edit \/ UNCHANGED vars
  BY <1>3 DEF NodeGetsReady, NodeGetsUnready, Edit, vars
<1> QED
  BY <1>1, <1>2, <1>3 DEF Next

LEMMA ApiInductive ==
    ASSUME Typed, TypeOK', [Next]_vars, ApiTrue
    PROVE  ApiTrue'
<1>t. TypeOK
  BY DEF Typed
<1>k. \A n \in Nodes : owner[n] # None =>
        machines'[owner[n]].kubelet /\ machines'[owner[n]].ticket.node = n
  <2> SUFFICES ASSUME NEW n \in Nodes, owner[n] # None
               PROVE  machines'[owner[n]].kubelet /\ machines'[owner[n]].ticket.node = n
    OBVIOUS
  <2>1. owner[n] \in Targets /\ machines[owner[n]].kubelet /\ machines[owner[n]].ticket.node = n
    BY <1>t DEF TypeOK, ApiTrue
  <2> QED
    BY <1>t, <2>1, JoinedStays
<1>1. ASSUME NEW t \in Targets, KubeletRegisters(t) PROVE ApiTrue'
  <2> DEFINE n == machines[t].ticket.node
  <2>1. machines[t].ticket \in Tickets /\ n \in Nodes
    BY <1>1, <1>t DEF KubeletRegisters, Typed, TicketsKnown, TypeOK, Machines, Tickets
  <2>2. owner' = [owner EXCEPT ![n] = t] /\ health' = [health EXCEPT ![n] = "no"]
    BY <1>1 DEF KubeletRegisters
  <2>3. machines'[t].kubelet /\ machines'[t].ticket.node = n
    BY <1>1, <1>t, JoinedStays DEF KubeletRegisters
  <2> HIDE DEF n
  <2> QED
    BY <1>k, <1>t, <2>1, <2>2, <2>3, MarksAssumption DEF ApiTrue, TypeOK
<1>2. ASSUME NEW n \in Nodes, NodeGetsReady(n) \/ NodeGetsUnready(n) PROVE ApiTrue'
  BY <1>2, <1>k, <1>t DEF NodeGetsReady, NodeGetsUnready, ApiTrue, TypeOK
<1>3. CASE UNCHANGED <<owner, health>>
  BY <1>3, <1>k DEF ApiTrue
<1> QED
  BY <1>1, <1>2, <1>3, OwnersStep

(* `ready` is reached only by the wait that saw the node ready. *)
LEMMA ReadyAfterWait ==
    ASSUME IInv, TypeOK', [Next]_vars, NEW j \in Jobs, (pc[j] = "saveReady" \/ Saved(j, Ready))'
    PROVE  pc[j] = "saveReady" \/ Saved(j, Ready) \/ WaitReady(j)
<1>t. TypeOK /\ Orderly(j) /\ states[j].phase \in 0..7 /\ run[j].phase \in 0..7
  BY DEF IInv, Typed, TypeOK, Locals, Phases
<1> USE DEF Saved, New, Staged, Prepared, Images, Starting, Joined, Ready, Complete
<1>k. ASSUME states'[j] = states[j], pc'[j] = pc[j] \/ pc'[j] # "saveReady"
      PROVE  pc[j] = "saveReady" \/ Saved(j, Ready)
  BY <1>k
<1>1. CASE \E k \in Jobs \ {j} : StartFresh(k) \/ StartResume(k) \/ Advance(k) \/ Stop(k)
  BY <1>1, <1>t, <1>k, OtherJobs
<1>2. CASE UNCHANGED <<pc, run, states, joins>>
  BY <1>2, <1>k
<1>3. CASE \/ SaveStaged(j) \/ SavePrepared(j) \/ SaveImages(j) \/ SaveStarting(j)
           \/ SaveJoined(j)
  <2>1. states'[j].phase \in 0..5 /\ pc'[j] # "saveReady"
    <3>1. PICK phase \in 0..5, next \in Steps \ {"saveReady"} :
             /\ pc' = [pc EXCEPT ![j] = next]
             /\ states' = [states EXCEPT ![j] = [run[j] EXCEPT !.phase = phase]]
      BY <1>3 DEF SaveStaged, SavePrepared, SaveImages, SaveStarting, SaveJoined, Save, JoinSteps,
         Steps
    <3>2. pc'[j] = next /\ states'[j] = [run[j] EXCEPT !.phase = phase]
      BY <3>1, <1>t DEF TypeOK
    <3> QED
      BY <3>2, <1>t DEF TypeOK, Locals
  <2> QED
    BY <2>1
<1>4. CASE SaveReady(j)
  BY <1>4 DEF SaveReady, Save
<1>5. CASE SaveComplete(j)
  BY <1>5, <1>t DEF SaveComplete, Orderly, StepPhase, RunAgrees
<1>6. CASE \/ StartFresh(j) \/ StartResume(j) \/ Push(j)
           \/ PrepareNode(j) \/ ImportImages(j) \/ UploadCerts(j) \/ UploadTicket(j)
           \/ WaitTimesOut(j) \/ Stop(j)
  BY <1>6, <1>k, <1>t DEF StartFresh, StartResume, Push, AfterPush, PrepareNode, ImportImages,
     UploadCerts, UploadTicket, WaitTimesOut, Stop, Goto, End, OnMaster0, TypeOK
<1>7. CASE \/ Probe(j) \/ Ensure(j) \/ RunJoin(j) \/ JoinReturns(j)
  BY <1>7, <1>k, <1>t DEF Probe, AfterProbe, Ensure, AfterEnsure, JoinSteps, RunJoin, JoinReturns,
     Goto, End, OnMaster0, TypeOK
<1> QED
  BY <1>1, <1>2, <1>3, <1>4, <1>5, <1>6, <1>7, Environment DEF Next, Advance

(* A job that has a node name of its own always had it for itself. *)
LEMMA OwnNodeBefore ==
    ASSUME MInv, TypeOK', [Next]_vars, NEW j \in Jobs, states[j].phase # New, OwnNode(j)'
    PROVE  OwnNode(j)
<1> SUFFICES ASSUME NEW k \in Jobs \ {j}, states[k].node = states[j].node PROVE FALSE
  BY DEF OwnNode
<1>1. states[j].node \in Nodes /\ None \notin Nodes
  BY MarksAssumption DEF MInv, OwnMachine, FileOnRecord
<1>2. states[k].phase # New
  BY <1>1 DEF MInv, OwnMachine, FileOnRecord
<1>3. states'[k].node = states[k].node /\ states'[j].node = states[j].node
  BY <1>2, FilesKept DEF MInv
<1> QED
  BY <1>3 DEF OwnNode

LEMMA ReadyInductive ==
    ASSUME OneJobPerMachine, MInv, TypeOK', [Next]_vars, NEW j \in Jobs
    PROVE  ReadyTrue(j)'
<1> SUFFICES ASSUME (pc[j] = "saveReady" \/ Saved(j, Ready))'
             PROVE  /\ owner'[states'[j].node] # None
                    /\ j.role = "master" /\ OwnNode(j)' => machine(j).control'
  BY DEF ReadyTrue
<1>t. /\ Typed /\ TypeOK /\ Orderly(j) /\ OwnMachine(j) /\ ReadyTrue(j)
      /\ states[j].phase \in 0..7 /\ run[j].phase \in 0..7 /\ j.target \in Targets
      /\ machine(j) \in Machines /\ machines \in [Targets -> Machines]
  BY JobType DEF MInv, IInv, Typed, TypeOK, Locals, Phases, machine
<1> USE DEF New, Staged, Prepared, Images, Starting, Joined, Ready, Complete
<1>w. pc[j] = "saveReady" \/ Saved(j, Ready) \/ WaitReady(j)
  BY ReadyAfterWait DEF MInv
<1>f. states[j].phase >= Joined \/ WaitReady(j)
  BY <1>t, <1>w DEF Orderly, StepPhase, RunAgrees, Saved
<1>p. states[j].phase >= Joined
  BY <1>t, <1>f DEF Orderly, StepPhase, RunAgrees, WaitReady
<1>n. states[j].node \in Nodes /\ states'[j].node = states[j].node
  BY <1>p, <1>t, FilesKept DEF MInv, OwnMachine, FileOnRecord
<1>b. /\ owner[states[j].node] # None
      /\ j.role = "master" /\ OwnNode(j) => machine(j).control
  <2>1. CASE pc[j] = "saveReady" \/ Saved(j, Ready)
    BY <2>1, <1>t DEF ReadyTrue
  <2>2. CASE WaitReady(j)
    <3> DEFINE u == owner[states[j].node]
    <3>1. run[j].node = states[j].node /\ IsReady(j)
      BY <2>2, <1>t DEF WaitReady, Orderly, StepPhase, RunAgrees
    <3>2. u # None /\ u \in Targets /\ machines[u].kubelet /\ machines[u].ticket.node = states[j].node
      BY <3>1, <1>n, <1>t DEF IsReady, MInv, ApiTrue, TypeOK
    <3>3. ASSUME j.role = "master", OwnNode(j) PROVE machine(j).control
      <4>1. PICK k \in Jobs : k.target = u
        BY <3>2 DEF MInv, Idle
      <4>2. machines[u].ticket.node = states[k].node
        <5>1. JoinedByOwnJob(k) /\ machine(k) = machines[u]
          BY <4>1 DEF MInv, OwnMachine, machine
        <5> HIDE DEF u
        <5> QED
          BY <3>2, <5>1 DEF JoinedByOwnJob
      <4>3. k = j
        BY <3>2, <3>3, <4>2 DEF OwnNode
      <4> QED
        BY <3>1, <3>3, <4>1, <4>3 DEF IsReady, machine
    <3> QED
      BY <3>2, <3>3
  <2> QED
    BY <2>1, <2>2, <1>w
<1>o. owner'[states[j].node] # None
  <2>1. CASE \E t \in Targets : KubeletRegisters(t)
    BY <2>1, <1>b, <1>n, <1>t, MarksAssumption DEF KubeletRegisters, TypeOK
  <2>2. CASE ~\E t \in Targets : KubeletRegisters(t)
    <3>1. UNCHANGED owner
      BY <2>2, OwnersStep
    <3> QED
      BY <3>1, <1>b
  <2> QED
    BY <2>1, <2>2
<1>c. ASSUME j.role = "master", OwnNode(j)' PROVE machine(j).control'
  <2>1. machine(j).control /\ machine(j).kubelet /\ machine(j).role = "master"
    BY <1>b, <1>c, <1>p, <1>t, OwnNodeBefore DEF OwnMachine, JoinedByOwnJob, Saved
  <2> QED
    BY <2>1, <1>t, ControlStays DEF machine
<1> QED
  BY <1>n, <1>o, <1>c

LEMMA MachinesInductive == OneJobPerMachine /\ MInv /\ [Next]_vars => MInv'
<1> SUFFICES ASSUME OneJobPerMachine, MInv, [Next]_vars PROVE MInv'
  OBVIOUS
<1>1. IInv /\ IInv' /\ Typed /\ TypeOK'
  BY Inductive DEF MInv, IInv, Typed
<1>2. \A j \in Jobs : OwnMachine(j)'
  BY <1>1, OwnMachinesInductive DEF MInv
<1>3. \A j \in Jobs : ReadyTrue(j)'
  BY <1>1, ReadyInductive
<1>4. \A t \in Targets : Idle(t)'
  BY <1>1, IdleInductive DEF MInv
<1>5. ApiTrue'
  BY <1>1, ApiInductive DEF MInv
<1> QED
  BY <1>1, <1>2, <1>3, <1>4, <1>5 DEF MInv

LEMMA MachinesInvariance == ASSUME OneJobPerMachine PROVE Spec => []MInv
<1>1. ASSUME Init PROVE MInv
  <2>1. IInv
    BY <1>1, TypeInitially DEF Init, IInv, Orderly, StepPhase, RunAgrees, StartOnRecord, NoFile, New
  <2>2. \A j \in Jobs : j.target \in Targets
    BY JobType
  <2>3. \A j \in Jobs : OwnMachine(j) /\ ReadyTrue(j)
    BY <1>1, <2>2 DEF Init, OwnMachine, Provisioned, JoinedByOwnJob, FileOnRecord, ReadyTrue, Saved,
       machine, NoFile, Untouched, New, Staged, Prepared, Images, Joined, Ready
  <2>4. ApiTrue /\ \A t \in Targets : Idle(t)
    BY <1>1 DEF Init, ApiTrue, Idle, Untouched
  <2> QED
    BY <2>1, <2>3, <2>4 DEF MInv
<1>2. MInv /\ [Next]_vars => MInv'
  BY MachinesInductive
<1> QED
  BY <1>1, <1>2, PTL DEF Spec

(* kubeadm join starts only on a machine that holds what its state file      *)
(* says, with a join file of its own job and the start on record.            *)
THEOREM JoinPrepared == ASSUME OneJobPerMachine PROVE Spec => JoinOnPreparedMachine
<1> DEFINE Ok == \A j \in Jobs : joins'[j] # joins[j] =>
          /\ states[j].phase = Starting
          /\ machine(j).staging = states[j].inputs
          /\ machine(j).node = states[j].inputs
          /\ states[j].inputs \in machine(j).images
          /\ machine(j).joinFile = [job |-> j, node |-> states[j].node]
<1>1. ASSUME MInv, [Next]_vars PROVE [Ok]_vars
  <2> SUFFICES ASSUME NEW j \in Jobs, joins'[j] # joins[j]
               PROVE  /\ states[j].phase = Starting
                      /\ machine(j).staging = states[j].inputs
                      /\ machine(j).node = states[j].inputs
                      /\ states[j].inputs \in machine(j).images
                      /\ machine(j).joinFile = [job |-> j, node |-> states[j].node]
    OBVIOUS
  <2>t. TypeOK /\ Orderly(j) /\ Provisioned(j)
    BY <1>1 DEF MInv, IInv, Typed, OwnMachine
  <2>1. RunJoin(j)
    <3>1. PICK k \in Jobs : StartFresh(k) \/ StartResume(k) \/ Advance(k) \/ Stop(k)
      BY <1>1, Environment DEF Next
    <3>2. k = j
      BY <3>1, <2>t, OtherJobs
    <3> QED
      BY <3>1, <3>2 DEF Advance, StartFresh, StartResume, Probe, Ensure, Push, SaveStaged,
         PrepareNode, SavePrepared, ImportImages, SaveImages, UploadCerts, UploadTicket,
         SaveStarting, JoinReturns, SaveJoined, WaitReady, WaitTimesOut, SaveReady,
         SaveComplete, Save, Stop
  <2>2. pc[j] = "join" /\ states[j].phase = Starting /\ run[j].node = states[j].node
    BY <2>1, <2>t DEF RunJoin, Orderly, StepPhase, RunAgrees, New, Starting
  <2> QED
    BY <2>2, <2>t DEF Provisioned, Saved, Staged, Prepared, Images, Starting
<1> QED
  BY <1>1, MachinesInvariance, PTL DEF Spec, JoinOnPreparedMachine

(* `ready` and `complete` are recorded only for a machine that is a node of  *)
(* the cluster, in its role and under its name, as long as no other job has  *)
(* the same node name.                                                       *)
THEOREM ReadyMember == ASSUME OneJobPerMachine PROVE Spec => []ReadyMeansMember
<1>1. ASSUME MInv PROVE ReadyMeansMember
  <2> SUFFICES ASSUME NEW j \in Jobs, Saved(j, Ready), OwnNode(j)
               PROVE  /\ machine(j).kubelet /\ machine(j).role = j.role
                      /\ owner[states[j].node] = j.target
                      /\ j.role = "master" => machine(j).control
    BY DEF ReadyMeansMember
  <2>t. TypeOK /\ OwnMachine(j) /\ ReadyTrue(j) /\ states[j].phase \in 0..7
    BY <1>1 DEF MInv, IInv, Typed, TypeOK, Locals, Phases
  <2>1. machine(j).kubelet /\ machine(j).role = j.role
    BY <2>t DEF OwnMachine, JoinedByOwnJob, Saved, Joined, Ready
  <2>2. j.role = "master" => machine(j).control
    BY <2>t DEF ReadyTrue
  <2>3. states[j].node \in Nodes /\ owner[states[j].node] # None
    BY <2>t DEF OwnMachine, FileOnRecord, ReadyTrue, Saved, New, Ready
  <2> DEFINE u == owner[states[j].node]
  <2>4. u \in Targets /\ machines[u].kubelet /\ machines[u].ticket.node = states[j].node
    BY <1>1, <2>t, <2>3 DEF MInv, ApiTrue, TypeOK
  <2>5. PICK k \in Jobs : k.target = u
    BY <1>1, <2>4 DEF MInv, Idle
  <2>6. JoinedByOwnJob(k) /\ machine(k) = machines[u]
    BY <1>1, <2>5 DEF MInv, OwnMachine, machine
  <2> HIDE DEF u
  <2>7. states[k].node = states[j].node
    BY <2>4, <2>6 DEF JoinedByOwnJob
  <2>8. k = j
    BY <2>7 DEF OwnNode
  <2> QED
    BY <2>1, <2>2, <2>5, <2>8 DEF u
<1> QED
  BY <1>1, MachinesInvariance, PTL

(* Each addition implements the once-only task of OnceOnly, whatever fails   *)
(* and however often it is resumed.                                          *)
THEOREM AddsOnce == ASSUME OneJobPerMachine PROVE Spec => ImplementsOnceOnly
<1> DEFINE level == [j \in Jobs |-> states[j].phase]
<1> USE DEF New, Staged, Prepared, Images, Starting, Joined, Ready, Complete
<1>1. ASSUME Init PROVE Once!Init
  BY <1>1 DEF Init, Once!Init, NoFile
<1>2. ASSUME MInv, [Next]_vars PROVE [Once!Next]_<<level, joins>>
  <2>t. TypeOK /\ \A j \in Jobs : /\ Orderly(j) /\ JoinedByOwnJob(j)
                                 /\ states[j].phase \in 0..7 /\ run[j].phase \in 0..7
    BY <1>2 DEF MInv, IInv, Typed, TypeOK, OwnMachine, Locals, Phases
  <2>k. ASSUME UNCHANGED <<states, joins>> PROVE UNCHANGED <<level, joins>>
    BY <2>k
  <2>s. ASSUME NEW j \in Jobs, NEW phase \in 1..7, pc[j] # "idle", phase > run[j].phase,
               states' = [states EXCEPT ![j] = [run[j] EXCEPT !.phase = phase]],
               joins' = joins,
               run[j].phase < Starting => phase <= Starting,
               run[j].phase >= Starting => joins[j] = 1
        PROVE  Once!Next
    <3>1. run[j].phase = states[j].phase
      BY <2>s, <2>t DEF Orderly, RunAgrees
    <3>2. level' = [level EXCEPT ![j] = phase]
      <4>1. run[j] \in Locals /\ states \in [Jobs -> Locals]
        BY <2>t DEF TypeOK
      <4>2. [run[j] EXCEPT !.phase = phase].phase = phase
        BY <4>1 DEF Locals
      <4> QED
        BY <2>s, <4>1, <4>2
    <3>3. level[j] = run[j].phase /\ run[j].phase \in 0..7
      BY <2>t, <3>1
    <3>4. level[j] >= Starting => joins[j] = 1
      BY <2>s, <3>3
    <3> HIDE DEF level
    <3>5. Once!Record(j)
      <4>1. phase \in (level[j] + 1)..7 /\ (level[j] < 4 => phase <= 4)
        BY <2>s, <3>3
      <4> QED
        BY <2>s, <3>2, <3>4, <4>1 DEF Once!Record, level
    <3> QED
      BY <3>5 DEF Once!Next
  <2>1. ASSUME NEW j \in Jobs, SaveStaged(j) \/ SavePrepared(j) PROVE Once!Next
    BY <2>1, <2>s, <2>t DEF SaveStaged, SavePrepared, Save, Orderly, StepPhase
  <2>2. ASSUME NEW j \in Jobs, SaveImages(j) \/ SaveStarting(j) PROVE Once!Next
    BY <2>2, <2>s, <2>t DEF SaveImages, SaveStarting, Save, Orderly, StepPhase
  <2>3. ASSUME NEW j \in Jobs, SaveJoined(j) \/ SaveReady(j) PROVE Once!Next
    <3>1. \/ pc[j] = "saveJoined" /\ run[j].phase = Starting
          \/ pc[j] = "saveReady" /\ run[j].phase = Joined
      BY <2>3, <2>t DEF SaveJoined, SaveReady, Save, Orderly, StepPhase
    <3>2. run[j].phase = states[j].phase /\ JoinedByOwnJob(j)
      BY <3>1, <2>t DEF Orderly, RunAgrees
    <3>3. joins[j] = 1
      BY <3>1, <3>2 DEF JoinedByOwnJob, Saved
    <3>4. PICK phase \in 5..6 : /\ phase > run[j].phase /\ joins' = joins
                               /\ states' = [states EXCEPT ![j] = [run[j] EXCEPT !.phase = phase]]
      BY <2>3, <3>1 DEF SaveJoined, SaveReady, Save
    <3>5. /\ phase \in 1..7 /\ pc[j] # "idle" /\ (run[j].phase < Starting => phase <= Starting)
      BY <3>1
    <3> QED
      BY <2>s, <3>3, <3>4, <3>5, Zenon
  <2>4. ASSUME NEW j \in Jobs, SaveComplete(j) PROVE Once!Next
    <3>1. pc[j] = "saveComplete" /\ run[j].phase = Ready /\ states[j].phase = Ready
      BY <2>4, <2>t DEF SaveComplete, Orderly, StepPhase, RunAgrees
    <3>2. joins[j] = 1
      <4>1. JoinedByOwnJob(j)
        BY <2>t
      <4> QED
        BY <3>1, <4>1 DEF JoinedByOwnJob, Saved
    <3>3. states' = [states EXCEPT ![j] = [run[j] EXCEPT !.phase = 7]] /\ joins' = joins
      BY <2>4 DEF SaveComplete
    <3>4. /\ 7 \in 1..7 /\ 7 > run[j].phase /\ pc[j] # "idle"
          /\ (run[j].phase < Starting => 7 <= Starting)
      BY <3>1
    <3> QED
      BY <2>s, <3>2, <3>3, <3>4, Zenon
  <2>5. ASSUME NEW j \in Jobs, RunJoin(j) PROVE Once!Next
    <3>1. joins[j] = 0 /\ states[j].phase = Starting
      BY <2>5, <2>t DEF RunJoin, Orderly, StepPhase, RunAgrees
    <3>2. joins' = [joins EXCEPT ![j] = 1] /\ UNCHANGED states
      BY <2>5, <2>t, <3>1 DEF RunJoin, OnMaster0
    <3>3. Once!Fire(j)
      BY <3>1, <3>2 DEF Once!Fire
    <3> QED
      BY <3>3 DEF Once!Next
  <2>6. CASE UNCHANGED <<states, joins>>
    BY <2>6, <2>k
  <2> QED
    BY <1>2, <2>1, <2>2, <2>3, <2>4, <2>5, <2>6 DEF Next, Advance, vars, StartFresh, StartResume,
       Probe, Ensure, Push, PrepareNode, ImportImages, UploadCerts, UploadTicket, JoinReturns,
       WaitReady, WaitTimesOut, Stop, Kubeadm, JoinWritesKubelet, KubeletRegisters,
       ControlPlaneUp, JoinSucceeds, JoinFails, NodeGetsReady, NodeGetsUnready, Edit, OnMaster0
<1> QED
  BY <1>1, <1>2, MachinesInvariance, PTL DEF Spec, ImplementsOnceOnly, Once!Spec

-----------------------------------------------------------------------------
(* What Converges is about, step by step.                                    *)

(* The steps of a run in their order, with its end. *)
Place == [probe |-> 0, ensure |-> 1, push |-> 2, saveStaged |-> 3, prepare |-> 4,
          savePrepared |-> 5, images |-> 6, saveImages |-> 7, certs |-> 8, token |-> 9,
          saveStarting |-> 10, join |-> 11, wait |-> 12, saveJoined |-> 13, ready |-> 14,
          saveReady |-> 15, saveComplete |-> 16, idle |-> 17]

(* Why a run that nothing stops may fail: an operator has to look, a kubeadm *)
(* join of an earlier run is still at work, the node is not Ready in time, or*)
(* there is nothing left to do.                                              *)
Excused(j) ==
    \/ LeftToOperator(j)
    \/ machine(j).join = "running"
    \/ pc[j] = "ready" /\ health[run[j].node] = "no"
    \/ Saved(j, Complete)

(* Every step brings the run on, and it ends complete or with an excuse.     *)
LeadsOn(j) ==
    /\ Place[pc'[j]] > Place[pc[j]]
    /\ pc'[j] = "idle" => states'[j].phase = Complete \/ Excused(j)

(* As long as nothing stops it, a run only ever goes on. *)
RunsGoOn == [][\A j \in Jobs : Advance(j) => LeadsOn(j)]_vars

(* An addition is never shut out: there is a form of the command that is     *)
(* accepted, unless an operator has to look or a preflight is not passed.    *)
NeverShutOut ==
    \A j \in Jobs : pc[j] = "idle" =>
        \/ Preflight(j) /\ states[j].phase = New /\ ~machine(j).kubelet
        \/ Preflight(j) /\ states[j].phase # New /\ Matches(j)
        \/ LeftToOperator(j)
        \/ ~Preflight(j)

(* A run is about the inputs and the name as they are, as neither is changed *)
(* under it; and what kubeadm join has left behind fits how it ended.        *)
Tended(j) ==
    /\ pc[j] # "idle" => run[j].inputs = inputs /\ run[j].node = hostname[j.target]
    /\ pc[j] = "wait" \/ machine(j).kubelet => machine(j).join # "none"
    /\ machine(j).join = "done" =>
          machine(j).kubelet /\ (j.role = "master" => machine(j).control)

AllTended == \A j \in Jobs : Tended(j)

(* A process keeps this of its own job. *)
LEMMA TendedStep ==
    ASSUME TypeOK, NEW j \in Jobs, Tended(j),
           StartFresh(j) \/ StartResume(j) \/ Advance(j) \/ Stop(j)
    PROVE  Tended(j)'
<1>j. j.target \in Targets /\ machine(j) \in Machines /\ machines \in [Targets -> Machines]
  BY JobType DEF TypeOK, machine
<1>1. UNCHANGED <<inputs, hostname>>
  BY DEF Advance, StartFresh, StartResume, Probe, Ensure, Push, SaveStaged, PrepareNode,
     SavePrepared, ImportImages, SaveImages, UploadCerts, UploadTicket, SaveStarting, RunJoin,
     JoinReturns, SaveJoined, WaitReady, WaitTimesOut, SaveReady, SaveComplete, Save, Stop, OnMaster0
<1>2. /\ UNCHANGED <<machine(j).kubelet, machine(j).control>>
      /\ machine(j)'.join = machine(j).join \/ machine(j)'.join = "running"
      /\ pc'[j] = "wait" => machine(j)'.join = "running"
  <2>1. CASE RunJoin(j)
    BY <1>j, <2>1 DEF RunJoin, Goto, End, machine, Machines, TypeOK
  <2>2. CASE Stop(j)
    <3>1. PICK m \in CutShort(j) : machines' = [machines EXCEPT ![j.target] = m]
      BY <2>2 DEF Stop
    <3>2. m.kubelet = machine(j).kubelet /\ m.control = machine(j).control
          /\ m.join = machine(j).join
      BY <1>j DEF CutShort, Machines
    <3>3. machine(j)' = m
      BY <1>j, <3>1 DEF machine
    <3>4. pc'[j] = "idle"
      BY <2>2 DEF Stop, End, TypeOK
    <3> QED
      BY <3>2, <3>3, <3>4
  <2>3. CASE Push(j) \/ PrepareNode(j) \/ ImportImages(j) \/ UploadTicket(j)
    BY <1>j, <2>3 DEF Push, AfterPush, PrepareNode, ImportImages, UploadTicket, Goto, machine,
       Machines, TypeOK
  <2>4. CASE \/ StartFresh(j) \/ StartResume(j) \/ Probe(j) \/ Ensure(j) \/ UploadCerts(j)
             \/ JoinReturns(j) \/ WaitReady(j) \/ WaitTimesOut(j) \/ SaveComplete(j)
    <3>1. UNCHANGED machines /\ pc'[j] # "wait"
      BY <2>4 DEF StartFresh, StartResume, Probe, AfterProbe, Ensure, AfterEnsure, JoinSteps,
         UploadCerts, JoinReturns, WaitReady, WaitTimesOut, SaveComplete, Goto, End, TypeOK
    <3> QED
      BY <3>1 DEF machine
  <2>5. CASE \/ SaveStaged(j) \/ SavePrepared(j) \/ SaveImages(j) \/ SaveStarting(j)
             \/ SaveJoined(j) \/ SaveReady(j)
    <3>1. UNCHANGED machines /\ pc'[j] # "wait"
      BY <2>5 DEF SaveStaged, SavePrepared, SaveImages, SaveStarting, SaveJoined, SaveReady, Save,
         JoinSteps, TypeOK
    <3> QED
      BY <3>1 DEF machine
  <2> QED
    BY <2>1, <2>2, <2>3, <2>4, <2>5 DEF Advance
<1>3. pc'[j] # "idle" => run'[j].inputs = inputs /\ run'[j].node = hostname[j.target]
  <2>1. CASE StartFresh(j) \/ StartResume(j)
    BY <2>1 DEF StartFresh, StartResume, TypeOK
  <2>2. CASE Stop(j)
    BY <2>2 DEF Stop, End, TypeOK
  <2>3. CASE Advance(j)
    <3>1. pc[j] # "idle"
      BY <2>3 DEF Advance, Probe, Ensure, Push, SaveStaged, PrepareNode,
         SavePrepared, ImportImages, SaveImages, UploadCerts, UploadTicket, SaveStarting, RunJoin,
         JoinReturns, SaveJoined, WaitReady, WaitTimesOut, SaveReady, SaveComplete, Save
    <3>2. pc'[j] = "idle" \/ (run'[j].inputs = run[j].inputs /\ run'[j].node = run[j].node)
      <4> DEFINE Same == run'[j].inputs = run[j].inputs /\ run'[j].node = run[j].node
      <4>0. run \in [Jobs -> Locals] /\ pc \in [Jobs -> Steps]
        BY DEF TypeOK
      <4>1. CASE Probe(j) \/ Ensure(j) \/ Push(j) \/ PrepareNode(j) \/ ImportImages(j)
        BY <4>0, <4>1 DEF Probe, Ensure, Push, PrepareNode, ImportImages, Goto, End
      <4>2. CASE UploadCerts(j) \/ UploadTicket(j) \/ RunJoin(j) \/ JoinReturns(j)
                 \/ WaitReady(j) \/ WaitTimesOut(j) \/ SaveComplete(j)
        BY <4>0, <4>2 DEF UploadCerts, UploadTicket, RunJoin, JoinReturns, WaitReady,
           WaitTimesOut, SaveComplete, Goto, End
      <4>3. CASE SaveStaged(j) \/ SavePrepared(j) \/ SaveImages(j) \/ SaveStarting(j)
                 \/ SaveJoined(j) \/ SaveReady(j)
        <5>1. \E phase : run' = [run EXCEPT ![j].phase = phase]
          BY <4>3 DEF SaveStaged, SavePrepared, SaveImages, SaveStarting, SaveJoined, SaveReady, Save
        <5> QED
          BY <4>0, <5>1 DEF Locals
      <4> QED
        BY <2>3, <4>1, <4>2, <4>3 DEF Advance
    <3> QED
      BY <3>1, <3>2 DEF Tended
  <2> QED
    BY <2>1, <2>2, <2>3
<1> QED
  BY <1>1, <1>2, <1>3 DEF Tended, machine

LEMMA AllTendedStep ==
    ASSUME OneJobPerMachine, MInv, AllTended, [Next]_vars
    PROVE  AllTended'
<1> SUFFICES ASSUME NEW k \in Jobs PROVE Tended(k)'
  BY DEF AllTended
<1>t. TypeOK /\ Tended(k) /\ k.target \in Targets /\ JoinedByOwnJob(k)
  BY JobType DEF MInv, IInv, Typed, AllTended, OwnMachine
<1>m. machine(k) \in Machines /\ machines \in [Targets -> Machines]
  BY <1>t DEF TypeOK, machine
<1>1. ASSUME NEW j \in Jobs, StartFresh(j) \/ StartResume(j) \/ Advance(j) \/ Stop(j)
      PROVE  Tended(k)'
  <2>1. CASE k = j
    BY <1>1, <1>t, <2>1, TendedStep
  <2>2. CASE k # j
    <3>1. k.target # j.target
      BY <2>2 DEF OneJobPerMachine
    <3>2. UNCHANGED <<pc[k], run[k], machines[k.target]>>
      BY <1>1, <1>t, <2>2, <3>1, OtherJobs
    <3>3. UNCHANGED <<inputs, hostname>>
      BY <1>1 DEF Advance, StartFresh, StartResume, Probe, Ensure, Push, SaveStaged, PrepareNode,
         SavePrepared, ImportImages, SaveImages, UploadCerts, UploadTicket, SaveStarting, RunJoin,
         JoinReturns, SaveJoined, WaitReady, WaitTimesOut, SaveReady, SaveComplete, Save, Stop,
         OnMaster0
    <3> QED
      BY <1>t, <3>2, <3>3 DEF Tended, machine
  <2> QED
    BY <2>1, <2>2
<1>2. ASSUME NEW t \in Targets, Kubeadm(t) PROVE Tended(k)'
  <2>1. UNCHANGED <<pc, run, inputs, hostname>>
    BY <1>2 DEF Kubeadm, JoinWritesKubelet, KubeletRegisters, ControlPlaneUp, JoinSucceeds, JoinFails, OnMaster0
  <2>2. CASE k.target # t
    <3>1. machine(k)' = machine(k)
      BY <1>2, <1>t, <2>2 DEF machine, TypeOK, Kubeadm, JoinWritesKubelet, KubeletRegisters,
         ControlPlaneUp, JoinSucceeds, JoinFails
    <3> QED
      BY <1>t, <2>1, <3>1 DEF Tended
  <2>3. CASE JoinWritesKubelet(t) /\ k.target = t
    <3>1. /\ machine(k).join = "running" /\ machine(k)'.join = "running"
      BY <2>3, <1>m, <1>t DEF JoinWritesKubelet, machine, Machines
    <3> QED
      BY <1>t, <2>1, <3>1 DEF Tended
  <2>4. CASE KubeletRegisters(t) /\ k.target = t
    <3>1. UNCHANGED <<machine(k).join, machine(k).kubelet, machine(k).control>>
      BY <2>4, <1>m, <1>t DEF KubeletRegisters, machine, Machines
    <3> QED
      BY <1>t, <2>1, <3>1 DEF Tended
  <2>5. CASE JoinSucceeds(t) /\ k.target = t
    <3>1. /\ machine(k)'.join = "done" /\ machine(k)'.kubelet = machine(k).kubelet
          /\ machine(k).member
          /\ machine(k).role = "master" => machine(k)'.control
      BY <2>5, <1>m, <1>t DEF JoinSucceeds, machine, Machines
    <3> QED
      BY <1>t, <2>1, <3>1 DEF Tended, JoinedByOwnJob
  <2>6. CASE JoinFails(t) /\ k.target = t
    <3>1. machine(k)'.join = "failed"
      BY <2>6, <1>m, <1>t DEF JoinFails, machine, Machines
    <3> QED
      BY <1>t, <2>1, <3>1 DEF Tended
  <2>7. CASE ControlPlaneUp(t) /\ k.target = t
    <3>1. /\ machine(k)'.join = machine(k).join /\ machine(k)'.kubelet = machine(k).kubelet
          /\ machine(k)'.control
      BY <2>7, <1>m, <1>t DEF ControlPlaneUp, machine, Machines
    <3> QED
      BY <1>t, <2>1, <3>1 DEF Tended
  <2> QED
    BY <1>2, <2>2, <2>3, <2>4, <2>5, <2>6, <2>7 DEF Kubeadm
<1>3. CASE (\E n \in Nodes : NodeGetsReady(n) \/ NodeGetsUnready(n)) \/ UNCHANGED vars
  <2>1. UNCHANGED <<pc, run, inputs, hostname, machines>>
    BY <1>3 DEF NodeGetsReady, NodeGetsUnready, vars, OnMaster0
  <2> QED
    BY <1>t, <2>1 DEF Tended, machine
<1>4. CASE Edit
  <2>1. UNCHANGED <<pc, machines>> /\ pc[k] = "idle"
    BY <1>4 DEF Edit, Active
  <2> QED
    BY <1>t, <2>1 DEF Tended, machine
<1> QED
  BY <1>1, <1>2, <1>3, <1>4 DEF Next

LEMMA TendedInvariance == ASSUME OneJobPerMachine PROVE Spec => [](MInv /\ AllTended)
<1>1. ASSUME Init PROVE AllTended
  <2>1. \A j \in Jobs : j.target \in Targets
    BY JobType
  <2> QED
    BY <1>1, <2>1 DEF Init, AllTended, Tended, machine, Untouched
<1>2. MInv /\ AllTended /\ [Next]_vars => AllTended'
  BY AllTendedStep
<1> QED
  BY <1>1, <1>2, MachinesInvariance, PTL DEF Spec

(* A command that passes its preflights is refused only where an operator    *)
(* has to look: whatever a command for another machine does, and whatever an *)
(* earlier run has left on the target, short of filling its disk.            *)
THEOREM StillAccepted == ASSUME OneJobPerMachine PROVE Spec => []NeverShutOut
<1>1. ASSUME MInv PROVE NeverShutOut
  <2> SUFFICES ASSUME NEW j \in Jobs, pc[j] = "idle"
               PROVE  \/ states[j].phase = New /\ ~machine(j).kubelet
                      \/ states[j].phase # New /\ Matches(j)
                      \/ LeftToOperator(j)
    BY DEF NeverShutOut
  <2>t. JoinedByOwnJob(j) /\ StartOnRecord(j) /\ states[j].phase \in 0..7
    BY <1>1 DEF MInv, OwnMachine, IInv, Typed, TypeOK, Orderly, Locals, Phases
  <2> QED
    BY <2>t DEF JoinedByOwnJob, StartOnRecord, LeftToOperator, Saved, New, Staged, Starting
<1> QED
  BY <1>1, MachinesInvariance, PTL

(* An addition that has passed its preflights gets through: every step of    *)
(* its run is a step further, and a run that nothing stops ends with the     *)
(* addition on record as complete, or an operator has to look, or it waits   *)
(* for kubeadm join or the node: the probe, the search for the node, kubeadm *)
(* join and the wait for readiness never refuse it for what an earlier run   *)
(* of it has left behind.                                                    *)
THEOREM RunsGetThrough == ASSUME OneJobPerMachine PROVE Spec => RunsGoOn
<1>1. ASSUME MInv, AllTended, NEW j \in Jobs, Advance(j) PROVE LeadsOn(j)
  <2>t. /\ TypeOK /\ StepPhase(j) /\ RunAgrees(j) /\ StartOnRecord(j) /\ Provisioned(j)
        /\ JoinedByOwnJob(j) /\ ApiTrue /\ Tended(j)
        /\ states[j].phase \in 0..7 /\ run[j].phase \in 0..7
        /\ pc[j] # "idle" => run[j].phase = states[j].phase
        /\ pc[j] # "idle" => run[j].node \in Nodes /\ run[j].node = hostname[j.target]
        /\ machine(j) \in Machines
    BY <1>1, JobType DEF MInv, IInv, Typed, Orderly, OwnMachine, AllTended, TypeOK, Locals, Phases,
       RunAgrees, Tended, machine
  <2>p. \A step : pc' = [pc EXCEPT ![j] = step] => pc'[j] = step
    BY <2>t DEF TypeOK
  <2>g. \A step : Goto(j, step) => pc'[j] = step
    BY <2>p DEF Goto
  <2>x. End(j) => pc'[j] = "idle"
    BY <2>p DEF End
  <2> USE DEF New, Staged, Prepared, Images, Starting, Joined, Ready, Complete
  <2>n. ASSUME pc[j] # "idle", owner[run[j].node] \in Targets \ {j.target} PROVE LeftToOperator(j)
    BY <2>n, <2>t DEF LeftToOperator
  <2>1. CASE Probe(j)
    <3>1. CASE MayGoOn(j)
      <4>1. pc[j] = "probe" /\ pc'[j] \in {"ensure", "saveJoined", "ready", "saveComplete"}
        BY <2>1, <2>g, <3>1 DEF Probe, AfterProbe
      <4> QED
        BY <4>1 DEF LeadsOn, Place
    <3>2. CASE ~MayGoOn(j)
      <4>1. pc[j] = "probe" /\ pc'[j] = "idle"
        BY <2>1, <2>x, <3>2 DEF Probe
      <4>2. run[j].phase >= Joined => machine(j).kubelet
        BY <2>t, <4>1 DEF JoinedByOwnJob, Saved
      <4>3. run[j].phase < Starting => ~machine(j).kubelet
        BY <2>t, <4>1 DEF JoinedByOwnJob, StartOnRecord
      <4>4. run[j].phase = Complete \/ (run[j].phase = Starting /\ ~machine(j).kubelet)
        BY <3>2, <4>2, <4>3 DEF MayGoOn
      <4>5. Excused(j)
        BY <2>t, <4>1, <4>4 DEF Excused, LeftToOperator, Saved
      <4> QED
        BY <4>1, <4>5 DEF LeadsOn, Place
    <3> QED
      BY <3>1, <3>2
  <2>2. CASE Ensure(j)
    <3>1. CASE NotInCluster(j)
      <4>1. pc[j] = "ensure" /\ pc'[j] \in {"push", "certs", "token"}
        BY <2>2, <2>g, <3>1 DEF Ensure, AfterEnsure, JoinSteps
      <4> QED
        BY <4>1 DEF LeadsOn, Place
    <3>2. CASE ~NotInCluster(j)
      <4>1. pc[j] = "ensure" /\ pc'[j] = "idle"
        BY <2>2, <2>x, <3>2 DEF Ensure
      <4>2. \A n \in Nodes : owner[n] # j.target
        <5>1. ~machine(j).kubelet
          BY <2>t, <4>1 DEF JoinedByOwnJob, StartOnRecord, StepPhase
        <5>2. None # j.target
          BY MarksAssumption, JobType
        <5> QED
          BY <2>t, <5>1, <5>2 DEF ApiTrue, machine
      <4>3. owner[run[j].node] \in Targets \ {j.target}
        BY <2>t, <3>2, <4>1, <4>2 DEF NotInCluster, TypeOK
      <4> QED
        BY <2>n, <4>1, <4>3 DEF LeadsOn, Place, Excused
    <3> QED
      BY <3>1, <3>2
  <2>3. CASE Push(j)
    <3>1. pc[j] = "push" /\ pc'[j] \in {"saveStaged", "prepare", "images"}
      BY <2>3, <2>g DEF Push, AfterPush
    <3> QED
      BY <3>1 DEF LeadsOn, Place
  <2>4. CASE \/ SaveStaged(j) \/ PrepareNode(j) \/ SavePrepared(j) \/ ImportImages(j)
             \/ SaveImages(j) \/ UploadCerts(j) \/ UploadTicket(j) \/ SaveStarting(j)
             \/ SaveJoined(j) \/ WaitReady(j) \/ SaveReady(j)
    <3>1. \/ pc[j] = "saveStaged" /\ pc'[j] = "prepare"
          \/ pc[j] = "prepare" /\ pc'[j] = "savePrepared"
          \/ pc[j] = "savePrepared" /\ pc'[j] = "images"
          \/ pc[j] = "images" /\ pc'[j] = "saveImages"
          \/ pc[j] = "saveImages" /\ pc'[j] \in {"certs", "token"}
          \/ pc[j] = "certs" /\ pc'[j] = "token"
          \/ pc[j] = "token" /\ pc'[j] = "saveStarting"
          \/ pc[j] = "saveStarting" /\ pc'[j] = "join"
          \/ pc[j] = "saveJoined" /\ pc'[j] = "ready"
          \/ pc[j] = "ready" /\ pc'[j] = "saveReady"
          \/ pc[j] = "saveReady" /\ pc'[j] = "saveComplete"
      <4>1. CASE SaveStaged(j) \/ PrepareNode(j) \/ SavePrepared(j) \/ ImportImages(j)
        BY <4>1, <2>g, <2>p DEF SaveStaged, PrepareNode, SavePrepared, ImportImages, Save
      <4>2. CASE SaveImages(j) \/ UploadCerts(j) \/ UploadTicket(j) \/ SaveStarting(j)
        BY <4>2, <2>g, <2>p DEF SaveImages, UploadCerts, UploadTicket, SaveStarting, Save, JoinSteps
      <4>3. CASE SaveJoined(j) \/ WaitReady(j) \/ SaveReady(j)
        BY <4>3, <2>g, <2>p DEF SaveJoined, WaitReady, SaveReady, Save
      <4> QED
        BY <2>4, <4>1, <4>2, <4>3
    <3> QED
      BY <3>1 DEF LeadsOn, Place
  <2>5. CASE RunJoin(j)
    <3>1. pc[j] = "join" /\ joins[j] = 0
      BY <2>5, <2>t DEF RunJoin, RunAgrees
    <3>2. machine(j).join = "none" /\ ~machine(j).kubelet
      BY <2>t, <3>1 DEF JoinedByOwnJob
    <3>3. machine(j).joinFile # None
      <4>1. [job |-> j, node |-> run[j].node] \in [job : Jobs, node : Nodes]
        BY <2>t, <3>1
      <4> QED
        BY <2>t, <3>1, <4>1, MarksAssumption DEF Provisioned
    <3>4. pc'[j] = "wait"
      BY <2>5, <2>g, <3>2, <3>3 DEF RunJoin
    <3> QED
      BY <3>1, <3>4 DEF LeadsOn, Place
  <2>6. CASE JoinReturns(j)
    <3>1. pc[j] = "wait" /\ pc'[j] \in {"saveJoined", "idle"}
      BY <2>6, <2>g, <2>x DEF JoinReturns
    <3>2. machine(j).join \in {"none", "running", "failed", "done"}
      BY <2>t DEF Machines
    <3>3. pc'[j] = "idle" => machine(j).join = "failed"
      BY <2>6, <2>t, <2>g, <3>1, <3>2 DEF JoinReturns, Tended
    <3> QED
      BY <3>1, <3>3 DEF LeadsOn, Place, Excused, LeftToOperator
  <2>7. CASE WaitTimesOut(j)
    <3>1. pc[j] = "ready" /\ pc'[j] = "idle" /\ ~IsReady(j)
      BY <2>7, <2>x DEF WaitTimesOut
    <3>2. machine(j).kubelet /\ machine(j).join # "none"
      BY <2>t, <3>1 DEF StepPhase, JoinedByOwnJob, Saved, Tended
    <3>3. health[run[j].node] # "no" => owner[run[j].node] \in Targets
      BY <2>t, <3>1 DEF ApiTrue, TypeOK
    <3>4. CASE owner[run[j].node] = j.target /\ health[run[j].node] # "no"
      <4>1. j.role = "master" /\ ~machine(j).control
        BY <3>1, <3>4 DEF IsReady, machine
      <4>2. machine(j).join \in {"running", "failed"}
        BY <2>t, <3>2, <4>1 DEF Tended, Machines
      <4> QED
        BY <3>1, <4>2 DEF LeadsOn, Place, Excused, LeftToOperator
    <3>5. CASE owner[run[j].node] # j.target \/ health[run[j].node] = "no"
      BY <2>n, <3>1, <3>3, <3>5 DEF LeadsOn, Place, Excused
    <3> QED
      BY <3>4, <3>5
  <2>8. CASE SaveComplete(j)
    <3>1. pc[j] = "saveComplete" /\ pc'[j] = "idle"
      BY <2>8, <2>x DEF SaveComplete
    <3>2. states'[j].phase = Complete
      <4>1. states \in [Jobs -> Locals] /\ run[j] \in Locals
        BY <2>t DEF TypeOK
      <4> QED
        BY <2>8, <4>1 DEF SaveComplete, Locals
    <3> QED
      BY <3>1, <3>2 DEF LeadsOn, Place
  <2> QED
    BY <1>1, <2>1, <2>2, <2>3, <2>4, <2>5, <2>6, <2>7, <2>8 DEF Advance
<1>2. MInv /\ AllTended /\ [Next]_vars => [\A j \in Jobs : Advance(j) => LeadsOn(j)]_vars
  BY <1>1
<1> QED
  BY <1>2, TendedInvariance, PTL DEF Spec, RunsGoOn
=============================================================================
