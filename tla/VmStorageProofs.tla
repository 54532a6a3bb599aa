--------------------------- MODULE VmStorageProofs ---------------------------
(* What VmStorage's run checks on two VMs, proved for all VMs, threads,      *)
(* requests and instances: the inductive invariant, part by part; that a VM  *)
(* that is off can be started, a destroyed one leaves nothing, a created one *)
(* has its image and its seed, and a list changes by the device asked for.   *)
EXTENDS VmStorage, SequenceTheorems, TLAPS

(* A VM without options. *)
LEMMA NoOptionsType == NoOptions \in Options
  BY DEF NoOptions, Options

(* What the types say of the threads. *)
Locals ==
    /\ pc \in [Threads -> PCs] /\ vm \in [Threads -> Vms \union {0}]
    /\ DOMAIN req = Threads /\ cfg \in [Threads -> Options]
    /\ inst \in [Threads -> Instances \union {0}] /\ bad \in [Threads -> BOOLEAN]

(* A step of t keeps the types of the threads' locals, and has nothing to do with those
   of the other threads. *)
LocalStep(t) ==
    /\ Locals' /\ (pc'[t] # "idle" <=> vm'[t] \in Vms)
    /\ \A s \in Threads \ {t} :
          /\ pc'[s] = pc[s] /\ vm'[s] = vm[s] /\ req'[s] = req[s]
          /\ cfg'[s] = cfg[s] /\ inst'[s] = inst[s] /\ bad'[s] = bad[s]

(* The types of the locals and what else a step of t needs. *)
LEMMA LocalFacts ==
    ASSUME TypeOK, NEW t \in Threads
    PROVE  /\ Locals /\ (pc[t] # "idle" <=> vm[t] \in Vms) /\ 0 \notin Vms
           /\ \A v \in Vms : options[v] \in Options
           /\ \A v \in Vms : pidfile[v] \in Instances \union {0}
  BY StorageAssumption DEF TypeOK, Locals

(* A command that returns. *)
LEMMA ReturnIsLocal ==
    ASSUME TypeOK, NEW t \in Threads, Return(t)
    PROVE  LocalStep(t)
  BY LocalFacts, NoOptionsType DEF LocalStep, Locals, Return, Goto, PCs

(* A call that goes on with the next one. *)
LEMMA GotoIsLocal ==
    ASSUME TypeOK, NEW t \in Threads, NEW label \in PCs \ {"idle"}, pc[t] # "idle",
           Goto(t, label), UNCHANGED locals
    PROVE  LocalStep(t)
  BY LocalFacts DEF LocalStep, Locals, Goto, locals

(* A request that is taken up. *)
LEMMA BeginIsLocal ==
    ASSUME TypeOK, NEW t \in Threads, NEW v \in Vms, NEW r, NEW label \in PCs \ {"idle"},
           Begin(t, v, r, label)
    PROVE  LocalStep(t)
  BY LocalFacts DEF LocalStep, Locals, Begin, Goto

(* The calls of create and create_seed. *)
LEMMA CreateIsLocal ==
    ASSUME TypeOK, NEW t \in Threads, CreateStep(t)
    PROVE  LocalStep(t)
<1> USE GotoIsLocal, ReturnIsLocal DEF At, PCs, CreatePCs, StartPCs
<1>1. CASE CreateDisk(t)
  BY <1>1 DEF CreateDisk
<1>2. CASE WriteMetadata(t)
  BY <1>2 DEF WriteMetadata
<1>3. CASE LookForImage(t)
  BY <1>3 DEF LookForImage
<1>4. CASE Fetch(t)
  BY <1>4 DEF Fetch
<1>5. CASE FetchEnds(t)
  BY <1>5 DEF FetchEnds
<1>6. CASE Convert(t)
  BY <1>6 DEF Convert
<1>7. CASE CreateSeed(t)
  BY <1>7 DEF CreateSeed
<1>8. CASE FormatSeed(t)
  BY <1>8 DEF FormatSeed
<1>9. CASE MountSeed(t)
  BY <1>9 DEF MountSeed
<1>10. CASE FillSeed(t)
  BY <1>10, LocalFacts, ZenonT(60) DEF FillSeed, LocalStep, Locals, Goto
<1>11. CASE UnmountSeed(t)
  BY <1>11 DEF UnmountSeed
<1> QED
  BY <1>1, <1>2, <1>3, <1>4, <1>5, <1>6, <1>7, <1>8, <1>9, <1>10, <1>11 DEF CreateStep

(* The calls of set_vm_options. *)
LEMMA SetIsLocal ==
    ASSUME TypeOK, NEW t \in Threads, SetStep(t)
    PROVE  LocalStep(t)
<1> USE GotoIsLocal, ReturnIsLocal DEF At, PCs, SetPCs
<1>1. CASE WriteOptions(t)
  BY <1>1 DEF WriteOptions
<1>2. CASE ReadList(t)
  <2>1. CASE Return(t)
    BY <2>1
  <2>2. CASE cfg' = [cfg EXCEPT ![t] = options[vm[t]]] /\ Goto(t, "write_list")
             /\ UNCHANGED <<vm, req, inst, bad>>
    BY <1>2, <2>2, LocalFacts DEF ReadList, LocalStep, Locals, Goto
  <2> QED
    BY <1>2, <2>1, <2>2 DEF ReadList
<1>3. CASE WriteList(t)
  BY <1>3 DEF WriteList
<1> QED
  BY <1>1, <1>2, <1>3 DEF SetStep

(* The calls of start_inner. *)
LEMMA StartIsLocal ==
    ASSUME TypeOK, NEW t \in Threads, StartStep(t)
    PROVE  LocalStep(t)
<1> USE GotoIsLocal, ReturnIsLocal DEF At, PCs, StartPCs, UndoTpm
<1>1. CASE Start(t)
  <2>1. CASE Return(t)
    BY <2>1
  <2>2. ASSUME NEW i \in Unused, inst' = [inst EXCEPT ![t] = i],
               cfg' = [cfg EXCEPT ![t] = options[vm[t]]],
               Goto(t, IF options[vm[t]].tpm THEN "tpm" ELSE "tap"),
               UNCHANGED <<vm, req, bad>>
        PROVE  LocalStep(t)
    BY <1>1, <2>2, LocalFacts DEF Start, LocalStep, Locals, Goto, Unused
  <2> QED
    BY <1>1, <2>1, <2>2 DEF Start
<1>2. CASE StartTpm(t)
  BY <1>2 DEF StartTpm
<1>3. CASE ConfigureTap(t)
  BY <1>3 DEF ConfigureTap
<1>4. CASE Check(t)
  BY <1>4 DEF Check
<1>5. CASE Spawn(t)
  BY <1>5 DEF Spawn
<1>6. CASE WritePidFile(t)
  BY <1>6 DEF WritePidFile
<1>7. CASE WriteTpmFile(t)
  BY <1>7 DEF WriteTpmFile
<1> QED
  BY <1>1, <1>2, <1>3, <1>4, <1>5, <1>6, <1>7 DEF StartStep

(* The calls of stop and destroy. *)
LEMMA StopIsLocal ==
    ASSUME TypeOK, NEW t \in Threads, StopStep(t)
    PROVE  LocalStep(t)
<1> USE GotoIsLocal, ReturnIsLocal DEF At, PCs, StopPCs
<1>1. CASE Stop(t)
  <2>1. CASE Return(t)
    BY <2>1
  <2>2. CASE /\ Goto(t, IF pidfile[vm[t]] # 0 THEN "wait_exit" ELSE "kill_tpm")
             /\ inst' = [inst EXCEPT ![t] = pidfile[vm[t]]]
             /\ UNCHANGED <<vm, req, cfg, bad>>
    BY <1>1, <2>2, LocalFacts DEF Stop, LocalStep, Locals, Goto
  <2> QED
    BY <1>1, <2>1, <2>2 DEF Stop
<1>2. CASE Waited(t)
  BY <1>2 DEF Waited
<1>3. CASE WaitTimesOut(t)
  BY <1>3 DEF WaitTimesOut
<1>4. CASE KillTpm(t)
  BY <1>4 DEF KillTpm
<1>5. CASE RemoveFiles(t)
  BY <1>5 DEF RemoveFiles
<1>6. CASE ZfsDestroy(t)
  BY <1>6 DEF ZfsDestroy
<1>7. CASE LookForSeed(t)
  BY <1>7 DEF LookForSeed
<1>8. CASE DestroySeed(t)
  BY <1>8 DEF DestroySeed
<1>9. CASE RemoveRuntimeDir(t)
  BY <1>9 DEF RemoveRuntimeDir
<1> QED
  BY <1>1, <1>2, <1>3, <1>4, <1>5, <1>6, <1>7, <1>8, <1>9 DEF StopStep
-----------------------------------------------------------------------------
(* The requests. *)

(* What a thread is asked is one of the scenario's requests. *)
LEMMA RequestTypes ==
    ASSUME TypeOK, NEW q \in scenario.requests
    PROVE  /\ q[1] \in Threads /\ q[3] \in Vms
           /\ q[2] \in Creates \union Sets \union Others
  BY StorageAssumption DEF TypeOK

(* A command that returns is at none of the places that a request allows. *)
LEMMA ReturnRequested ==
    ASSUME TypeOK, NEW t \in Threads, Return(t)
    PROVE  Requested(t)'
  BY LocalFacts DEF Locals, Return, Goto, Requested

(* A call that goes on with one that its request allows too. *)
LEMMA GotoRequested ==
    ASSUME TypeOK, NEW t \in Threads, Requested(t), UNCHANGED <<scenario, vm, req>>,
           pc[t] # "idle", pc'[t] # "idle",
           pc'[t] \in CreatePCs =>
              pc[t] \in CreatePCs /\ (pc'[t] \in {"zvol", "metadata"} \/ req[t].cloud),
           pc'[t] \in SetPCs => pc[t] \in SetPCs,
           pc'[t] \in StartPCs => pc[t] \in StartPCs \union CreatePCs,
           pc'[t] \in StopPCs => pc[t] \in StopPCs,
           pc'[t] \in {"zfs_destroy", "seed_look", "seed_destroy"} => req[t].op = "destroy"
    PROVE  Requested(t)'
  BY DEF Requested

(* Every step of a thread leaves it where its request allows. *)
LEMMA RequestedStep ==
    ASSUME TypeOK, NEW t \in Threads, Requested(t), UNCHANGED scenario, ThreadStep(t)
    PROVE  Requested(t)'
<1>0. pc \in [Threads -> PCs]
  BY DEF TypeOK
<1> USE <1>0, GotoRequested, ReturnRequested DEF At, Goto, CreatePCs, SetPCs, StartPCs, StopPCs
<1>1. ASSUME CreateStep(t) PROVE Requested(t)'
  <2>1. CASE CreateDisk(t)
    BY <2>1 DEF CreateDisk, locals
  <2>2. CASE WriteMetadata(t)
    BY <2>2 DEF WriteMetadata, locals
  <2>3. pc[t] \in CreatePCs \ {"zvol", "metadata"} => req[t].cloud
    BY DEF Requested
  <2>4. CASE LookForImage(t) \/ Fetch(t) \/ FetchEnds(t) \/ Convert(t)
    BY <2>3, <2>4 DEF LookForImage, Fetch, FetchEnds, Convert, locals
  <2>5. CASE CreateSeed(t) \/ FormatSeed(t) \/ MountSeed(t)
    BY <2>3, <2>5 DEF CreateSeed, FormatSeed, MountSeed, locals
  <2>6. CASE FillSeed(t) \/ UnmountSeed(t)
    BY <2>3, <2>6 DEF FillSeed, UnmountSeed, locals
  <2> QED
    BY <1>1, <2>1, <2>2, <2>4, <2>5, <2>6 DEF CreateStep
<1>2. ASSUME SetStep(t) PROVE Requested(t)'
  <2>1. CASE WriteOptions(t)
    BY <2>1 DEF WriteOptions, locals
  <2>2. CASE ReadList(t) \/ WriteList(t)
    BY <2>2 DEF ReadList, WriteList, locals
  <2> QED
    BY <1>2, <2>1, <2>2 DEF SetStep
<1>3. ASSUME StartStep(t) PROVE Requested(t)'
  <2>1. CASE Start(t)
    <3>1. CASE Return(t)
      BY <3>1
    <3>2. CASE ~Return(t)
      BY <2>1, <3>2 DEF Start
    <3> QED
      BY <3>1, <3>2
  <2>2. CASE StartTpm(t) \/ ConfigureTap(t)
    BY <2>2 DEF StartTpm, ConfigureTap, UndoTpm, locals
  <2>3. CASE Check(t) \/ Spawn(t)
    BY <2>3 DEF Check, Spawn, UndoTpm, locals
  <2>4. CASE WritePidFile(t) \/ WriteTpmFile(t)
    BY <2>4 DEF WritePidFile, WriteTpmFile, locals
  <2> QED
    BY <1>3, <2>1, <2>2, <2>3, <2>4 DEF StartStep
<1>4. ASSUME StopStep(t) PROVE Requested(t)'
  <2>1. CASE Stop(t)
    BY <2>1 DEF Stop
  <2>2. CASE Waited(t) \/ WaitTimesOut(t) \/ KillTpm(t)
    BY <2>2 DEF Waited, WaitTimesOut, KillTpm, locals
  <2>3. CASE RemoveFiles(t)
    BY <2>3 DEF RemoveFiles, locals
  <2>4. pc[t] \in {"zfs_destroy", "seed_look", "seed_destroy"} => req[t].op = "destroy"
    BY DEF Requested
  <2>5. CASE ZfsDestroy(t) \/ LookForSeed(t) \/ DestroySeed(t) \/ RemoveRuntimeDir(t)
    BY <2>4, <2>5 DEF ZfsDestroy, LookForSeed, DestroySeed, RemoveRuntimeDir, locals
  <2> QED
    BY <1>4, <2>1, <2>2, <2>3, <2>5 DEF StopStep
<1> QED
  BY <1>1, <1>2, <1>3, <1>4 DEF ThreadStep

(* A thread that takes up a request. *)
Begins(t) ==
    \E q \in scenario.requests : \/ BeginCreate(t, q[3], q[2]) \/ BeginSet(t, q[3], q[2])
                                 \/ BeginStart(t, q[3], q[2]) \/ BeginStop(t, q[3], q[2])

(* It is idle, and all that changes is what it does. *)
LEMMA BeginsAre ==
    ASSUME TypeOK, NEW t \in Threads, Begins(t)
    PROVE  /\ pc[t] = "idle" /\ UNCHANGED <<volumes, procs, files, cfg, inst, bad, world>>
           /\ pc'[t] \in {"zvol", "writes", "start", "stop"}
           /\ pc'[t] = "zvol" => req'[t].op = "create"
           /\ pc'[t] = "writes" => req'[t].op = "set"
           /\ pc'[t] = "start" => req'[t].op = "start"
           /\ pc'[t] = "stop" => req'[t].op \in {"stop", "destroy"}
           /\ <<t, req'[t], vm'[t]>> \in scenario.requests /\ vm'[t] \in Vms
<1>0. Locals
  BY DEF TypeOK, Locals
<1>1. PICK q \in scenario.requests :
         \/ BeginCreate(t, q[3], q[2]) \/ BeginSet(t, q[3], q[2])
         \/ BeginStart(t, q[3], q[2]) \/ BeginStop(t, q[3], q[2])
  BY DEF Begins
<1>2. q[3] \in Vms
  BY RequestTypes
<1> QED
  BY <1>0, <1>1, <1>2
     DEF BeginCreate, BeginSet, BeginStart, BeginStop, Begin, Goto, Locals

(* Taking up a request is a matter of the thread alone, and allowed by it. *)
LEMMA BeginsIsLocal ==
    ASSUME TypeOK, NEW t \in Threads, Begins(t)
    PROVE  LocalStep(t) /\ Requested(t)'
<1>1. PICK q \in scenario.requests :
         \/ BeginCreate(t, q[3], q[2]) \/ BeginSet(t, q[3], q[2])
         \/ BeginStart(t, q[3], q[2]) \/ BeginStop(t, q[3], q[2])
  BY DEF Begins
<1>2. q[3] \in Vms
  BY RequestTypes
<1>3. LocalStep(t)
  BY <1>1, <1>2, BeginIsLocal
     DEF BeginCreate, BeginSet, BeginStart, BeginStop, PCs, CreatePCs, SetPCs, StartPCs, StopPCs
<1>4. Requested(t)'
  BY BeginsAre DEF Requested, CreatePCs, SetPCs, StartPCs, StopPCs, world
<1> QED
  BY <1>3, <1>4

-----------------------------------------------------------------------------
(* The processes, the reapers and the files. *)

(* Their types. *)
Procs ==
    /\ bhyve \in [Instances -> {"free", "boot", "run", "zombie"}]
    /\ swtpm \in [Instances -> {"free", "boot", "run", "zombie"}]
    /\ vmOf \in [Instances -> Vms \union {0}] /\ seeded \in [Instances -> BOOLEAN]
    /\ reaper \in [Instances -> ReaperPCs]
    /\ \A i \in Instances : reaper[i] # "none" \/ Live(i) \/ swtpm[i] # "free"
                            <=> vmOf[i] \in Vms
    /\ pidfile \in [Vms -> Instances \union {0}] /\ tpmfile \in [Vms -> Instances \union {0}]
    /\ socket \in [Vms -> Instances \union {0}]

(* All that one part of the invariant says of them. *)
ProcInv ==
    /\ Procs /\ Belongs
    /\ \A t \in Threads : Holds(t)
    /\ \A i \in Instances : Reaping(i)

(* What a step leaves alone of the instance that s has. *)
Undisturbed(s) ==
    /\ pc'[s] = pc[s] /\ vm'[s] = vm[s] /\ cfg'[s] = cfg[s] /\ inst'[s] = inst[s]
    /\ pc[s] \in HoldPCs =>
          /\ reaper'[inst[s]] = reaper[inst[s]] /\ vmOf'[inst[s]] = vmOf[inst[s]]
          /\ seeded'[inst[s]] = seeded[inst[s]]
          /\ bhyve'[inst[s]] = "free" <=> bhyve[inst[s]] = "free"
          /\ swtpm'[inst[s]] = "free" <=> swtpm[inst[s]] = "free"
          /\ \A v \in Vms \ {vm[s]} : inst[s] \in Referred(v)' => inst[s] \in Referred(v)
          /\ \A r \in Threads \ {s} : pc'[r] \in HoldPCs /\ inst'[r] = inst[s]
                                      => pc[r] \in HoldPCs /\ inst[r] = inst[s]

(* Then s still has it. *)
LEMMA StillHolds ==
    ASSUME NEW s \in Threads, Holds(s), Undisturbed(s)
    PROVE  Holds(s)'
<1> SUFFICES ASSUME pc[s] \in HoldPCs
             PROVE  Holds(s)'
  BY DEF Holds, Undisturbed
<1> DEFINE i == inst[s]
<1>1. /\ i \in Instances /\ reaper'[i] = "none" /\ vmOf'[i] \in {0, vm[s]}
      /\ \A r \in Threads \ {s} : pc'[r] \in HoldPCs => inst'[r] # i
      /\ pc[s] = "tpm" => vmOf'[i] = 0 /\ cfg[s].tpm
      /\ pc[s] # "tpm" => (cfg[s].tpm <=> swtpm'[i] # "free")
      /\ IF pc[s] \in {"write_pid", "write_tpm"} THEN bhyve'[i] # "free"
         ELSE bhyve'[i] = "free" /\ ~seeded'[i]
  BY DEF Holds, Undisturbed, Live
<1>2. \A v \in Vms \ {vm[s]} : i \notin Referred(v)'
  BY DEF Holds, Undisturbed
<1>3. pc'[s] = pc[s] /\ vm'[s] = vm[s] /\ cfg'[s] = cfg[s] /\ inst'[s] = inst[s]
  BY DEF Undisturbed
<1> QED
  BY <1>1, <1>2, <1>3 DEF Holds, Live

(* A step that touches neither the processes nor the files, of a thread that has no
   instance before or after it. *)
Quiet(t) == UNCHANGED <<procs, files>> /\ pc[t] \notin HoldPCs /\ pc'[t] \notin HoldPCs

(* Most calls are quiet. *)
LEMMA QuietSteps ==
    ASSUME TypeOK, NEW t \in Threads,
           \/ Begins(t) \/ CreateStep(t) \/ SetStep(t) \/ (Start(t) /\ Return(t))
           \/ Stop(t) \/ Waited(t) \/ WaitTimesOut(t)
           \/ ZfsDestroy(t) \/ LookForSeed(t) \/ DestroySeed(t)
    PROVE  Quiet(t)
<1>0. pc \in [Threads -> PCs]
  BY DEF TypeOK
<1> USE <1>0 DEF Quiet, At, Goto, Return, HoldPCs, StartPCs
<1>1. CASE Begins(t)
  BY <1>1, BeginsAre
<1>2. CASE CreateStep(t)
  <2>1. CASE CreateDisk(t) \/ WriteMetadata(t)
    BY <2>1 DEF CreateDisk, WriteMetadata
  <2>2. CASE LookForImage(t) \/ Fetch(t) \/ FetchEnds(t) \/ Convert(t)
    BY <2>2 DEF LookForImage, Fetch, FetchEnds, Convert
  <2>3. CASE CreateSeed(t) \/ FormatSeed(t) \/ MountSeed(t)
    BY <2>3 DEF CreateSeed, FormatSeed, MountSeed
  <2>4. CASE FillSeed(t) \/ UnmountSeed(t)
    BY <2>4 DEF FillSeed, UnmountSeed
  <2> QED
    BY <1>2, <2>1, <2>2, <2>3, <2>4 DEF CreateStep
<1>3. CASE SetStep(t)
  BY <1>3 DEF SetStep, WriteOptions, ReadList, WriteList
<1>4. CASE Start(t) /\ Return(t)
  BY <1>4 DEF Start
<1>5. CASE Stop(t) \/ Waited(t) \/ WaitTimesOut(t)
  BY <1>5 DEF Stop, Waited, WaitTimesOut
<1>6. CASE ZfsDestroy(t) \/ LookForSeed(t) \/ DestroySeed(t)
  BY <1>6 DEF ZfsDestroy, LookForSeed, DestroySeed
<1> QED
  BY <1>1, <1>2, <1>3, <1>4, <1>5, <1>6

(* They change nothing that is said of the processes. *)
LEMMA QuietProcs ==
    ASSUME ProcInv, NEW t \in Threads, LocalStep(t), Quiet(t)
    PROVE  ProcInv'
<1>1. /\ bhyve' = bhyve /\ swtpm' = swtpm /\ vmOf' = vmOf /\ seeded' = seeded
      /\ reaper' = reaper /\ pidfile' = pidfile /\ tpmfile' = tpmfile /\ socket' = socket
  BY DEF Quiet, procs, files
<1>2. Procs' /\ Belongs' /\ \A i \in Instances : Reaping(i)'
  BY <1>1 DEF ProcInv, Procs, Belongs, Reaping, Live, Referred
<1>3. Holds(t)'
  BY DEF Quiet, Holds
<1>4. ASSUME NEW s \in Threads \ {t} PROVE Holds(s)'
  <2>1. Undisturbed(s)
    BY <1>1 DEF Undisturbed, LocalStep, Quiet, Referred
  <2> QED
    BY <2>1, StillHolds DEF ProcInv
<1> QED
  BY <1>2, <1>3, <1>4 DEF ProcInv

(* What is known of the instance of a start. *)
LEMMA HeldInstance ==
    ASSUME ProcInv, NEW t \in Threads, pc[t] \in HoldPCs
    PROVE  /\ inst[t] \in Instances /\ reaper[inst[t]] = "none" /\ vmOf[inst[t]] \in {0, vm[t]}
           /\ \A s \in Threads \ {t} : pc[s] \in HoldPCs => inst[s] # inst[t]
           /\ \A v \in Vms \ {vm[t]} : inst[t] \notin Referred(v)
           /\ pc[t] = "tpm" => vmOf[inst[t]] = 0 /\ cfg[t].tpm
           /\ pc[t] # "tpm" => (cfg[t].tpm <=> swtpm[inst[t]] # "free")
           /\ pc[t] \in {"write_pid", "write_tpm"} => bhyve[inst[t]] # "free"
           /\ pc[t] \notin {"write_pid", "write_tpm"} =>
                 bhyve[inst[t]] = "free" /\ ~seeded[inst[t]]
  BY DEF ProcInv, Holds, Live

(* A step of t that changes no instance but the one that t has, and writes its number
   into no file but those of its VM. *)
OwnStep(t) ==
    /\ pc[t] \in HoldPCs /\ LocalStep(t) /\ inst'[t] \in {inst[t], 0}
    /\ \A i \in Instances \ {inst[t]} :
          /\ bhyve'[i] = bhyve[i] /\ swtpm'[i] = swtpm[i] /\ vmOf'[i] = vmOf[i]
          /\ seeded'[i] = seeded[i] /\ reaper'[i] = reaper[i]
    /\ \A v \in Vms :
          /\ pidfile'[v] = pidfile[v] \/ pidfile'[v] = 0 \/ (v = vm[t] /\ pidfile'[v] = inst[t])
          /\ tpmfile'[v] = tpmfile[v] \/ tpmfile'[v] = 0 \/ (v = vm[t] /\ tpmfile'[v] = inst[t])
          /\ socket'[v] = socket[v] \/ socket'[v] = 0

(* It leaves the others theirs. *)
LEMMA OwnStepIsLocal ==
    ASSUME ProcInv, NEW t \in Threads, OwnStep(t), 0 \notin Instances
    PROVE  /\ \A s \in Threads \ {t} : Holds(s)'
           /\ \A i \in Instances \ {inst[t]} : Reaping(i)'
           /\ vmOf'[inst[t]] \in {0, vm[t]} => Belongs'
<1>1. /\ inst[t] \in Instances /\ \A v \in Vms \ {vm[t]} : inst[t] \notin Referred(v)
      /\ \A s \in Threads \ {t} : pc[s] \in HoldPCs => inst[s] # inst[t]
  BY HeldInstance DEF OwnStep
<1>2. ASSUME NEW s \in Threads \ {t} PROVE Holds(s)'
  <2>1. /\ pc'[s] = pc[s] /\ vm'[s] = vm[s] /\ cfg'[s] = cfg[s] /\ inst'[s] = inst[s]
        /\ \A r \in Threads \ {t} : pc'[r] = pc[r] /\ inst'[r] = inst[r]
    BY DEF OwnStep, LocalStep
  <2>2. ASSUME pc[s] \in HoldPCs PROVE inst[s] \in Instances \ {inst[t]} /\ inst[s] # 0
    BY <1>1, <2>2, HeldInstance
  <2>3. ASSUME pc[s] \in HoldPCs, NEW v \in Vms \ {vm[s]}, inst[s] \in Referred(v)'
        PROVE  inst[s] \in Referred(v)
    BY <2>2, <2>3 DEF OwnStep, Referred
  <2>4. ASSUME pc[s] \in HoldPCs, NEW r \in Threads \ {s}, pc'[r] \in HoldPCs,
               inst'[r] = inst[s]
        PROVE  pc[r] \in HoldPCs /\ inst[r] = inst[s]
    BY <2>1, <2>2, <2>4 DEF OwnStep
  <2>5. Undisturbed(s)
    BY <2>1, <2>2, <2>3, <2>4 DEF Undisturbed, OwnStep
  <2> QED
    BY <2>5, StillHolds DEF ProcInv
<1>3. ASSUME NEW i \in Instances \ {inst[t]} PROVE Reaping(i)'
  <2>1. Reaping(i)
    BY DEF ProcInv
  <2> QED
    BY <2>1 DEF OwnStep, Reaping, Live
<1>4. ASSUME vmOf'[inst[t]] \in {0, vm[t]} PROVE Belongs'
  <2> SUFFICES ASSUME NEW v \in Vms, NEW i \in Referred(v)' \ {0}
               PROVE  vmOf'[i] \in {0, v}
    BY DEF Belongs
  <2>1. i \in Referred(v) \/ (v = vm[t] /\ i = inst[t])
    BY DEF OwnStep, Referred
  <2>2. CASE i = inst[t]
    BY <1>1, <1>4, <2>1, <2>2
  <2>3. CASE i # inst[t]
    <3>1. i \in Instances /\ vmOf[i] \in {0, v}
      BY <2>1, <2>3 DEF ProcInv, Procs, Belongs, Referred
    <3> QED
      BY <2>3, <3>1 DEF OwnStep
  <2> QED
    BY <2>2, <2>3
<1> QED
  BY <1>2, <1>3, <1>4

-----------------------------------------------------------------------------
(* The calls of a start. *)

(* A start takes an instance that nobody has. *)
LEMMA StartTakes ==
    ASSUME TypeOK, ProcInv, NEW t \in Threads, Start(t), LocalStep(t)
    PROVE  ProcInv'
<1>0. Procs /\ pc[t] = "start" /\ vm[t] \in Vms /\ 0 \notin Vms
  BY LocalFacts DEF ProcInv, Start, At
<1>1. CASE Return(t)
  <2> QED
    BY <1>1, QuietSteps, QuietProcs
<1>2. CASE ~Return(t)
  <2>1. PICK i \in Unused : /\ inst' = [inst EXCEPT ![t] = i]
                            /\ cfg' = [cfg EXCEPT ![t] = options[vm[t]]]
                            /\ Goto(t, IF options[vm[t]].tpm THEN "tpm" ELSE "tap")
                            /\ UNCHANGED <<vm, req, bad>>
    BY <1>2 DEF Start
  <2>2. UNCHANGED <<procs, files>>
    BY DEF Start
  <2>3. /\ i \in Instances /\ bhyve[i] = "free" /\ swtpm[i] = "free" /\ reaper[i] = "none"
        /\ \A v \in Vms : i \notin Referred(v)
        /\ \A s \in Threads : i # inst[s]
    BY DEF Unused, Referred
  <2>4. vmOf[i] = 0 /\ ~seeded[i]
    BY <1>0, <2>3 DEF ProcInv, Procs, Reaping, Live
  <2>5. Procs' /\ Belongs' /\ \A j \in Instances : Reaping(j)'
    BY <2>2 DEF ProcInv, Procs, Belongs, Reaping, Live, Referred, procs, files
  <2>6. /\ inst'[t] = i /\ cfg'[t] = options[vm[t]] /\ vm'[t] = vm[t]
        /\ pc'[t] = (IF options[vm[t]].tpm THEN "tpm" ELSE "tap")
    BY <2>1, LocalFacts DEF Locals, Goto
  <2>7. Holds(t)'
    <3>1. \A s \in Threads \ {t} : inst'[s] # i
      BY <2>3 DEF LocalStep
    <3> QED
      BY <2>2, <2>3, <2>4, <2>6, <3>1 DEF Holds, Live, Referred, procs, files
  <2>8. ASSUME NEW s \in Threads \ {t} PROVE Holds(s)'
    <3>1. Undisturbed(s)
      BY <2>2, <2>3, <2>6 DEF Undisturbed, LocalStep, Referred, procs, files
    <3> QED
      BY <3>1, StillHolds DEF ProcInv
  <2> QED
    BY <2>5, <2>7, <2>8 DEF ProcInv
<1> QED
  BY <1>1, <1>2

(* What every call of a start knows before it. *)
LEMMA OwnFacts ==
    ASSUME TypeOK, ProcInv, NEW t \in Threads, pc[t] \in HoldPCs
    PROVE  /\ Procs /\ vm[t] \in Vms /\ 0 \notin Vms /\ 0 \notin Instances
           /\ inst \in [Threads -> Instances \union {0}] /\ pc \in [Threads -> PCs]
           /\ cfg[t] \in Options /\ Reaping(inst[t])
  BY StorageAssumption, LocalFacts, HeldInstance DEF ProcInv, Locals, HoldPCs, StartPCs

(* A step of a start: what it makes of its own instance decides. *)
LEMMA OwnStepProcs ==
    ASSUME TypeOK, ProcInv, NEW t \in Threads, OwnStep(t), Procs', NEW k, k = inst[t],
           vmOf'[k] \in {0, vm[t]}, Holds(t)', Reaping(k)'
    PROVE  ProcInv'
<1>1. 0 \notin Instances /\ k \in Instances
  BY StorageAssumption, HeldInstance DEF OwnStep
<1>2. Belongs' /\ \A s \in Threads \ {t} : Holds(s)'
  BY <1>1, OwnStepIsLocal
<1>3. \A i \in Instances \ {k} : Reaping(i)'
  BY <1>1, OwnStepIsLocal
<1>4. \A i \in Instances : Reaping(i)'
  BY <1>3
<1> QED
  BY <1>2, <1>4 DEF ProcInv

(* A call of a start that gives the instance back as it found it, or cleans up. *)
LEMMA UndoProcs ==
    ASSUME TypeOK, ProcInv, NEW t \in Threads, LocalStep(t),
           pc[t] \in HoldPCs \ {"write_pid", "write_tpm"},
           UndoTpm(t), UNCHANGED <<bhyve, seeded, reaper, pidfile, tpmfile>>
    PROVE  ProcInv'
<1>k. PICK k : k = inst[t]
  OBVIOUS
<1>0. /\ k = inst[t] /\ Procs /\ vm[t] \in Vms /\ 0 \notin Vms /\ 0 \notin Instances
      /\ inst \in [Threads -> Instances \union {0}] /\ pc \in [Threads -> PCs]
      /\ k \in Instances /\ bhyve[k] = "free" /\ ~seeded[k] /\ reaper[k] = "none"
  BY <1>k, OwnFacts, HeldInstance
<1>1. OwnStep(t)
  BY <1>0 DEF OwnStep, UndoTpm, Return, Procs
<1>2. Procs'
  BY <1>0 DEF Procs, UndoTpm, Live
<1>3. vmOf'[k] = 0 /\ Reaping(k)'
  BY <1>0 DEF Procs, UndoTpm, Reaping, Live
<1>4. Holds(t)'
  BY <1>0 DEF UndoTpm, Return, Goto, Holds, HoldPCs, StartPCs
<1> QED
  BY <1>0, <1>1, <1>2, <1>3, <1>4, OwnStepProcs

(* The emulator is spawned, or refused. *)
LEMMA StartTpmProcs ==
    ASSUME TypeOK, ProcInv, NEW t \in Threads, LocalStep(t), StartTpm(t)
    PROVE  ProcInv'
<1>k. PICK k : k = inst[t]
  OBVIOUS
<1>0. /\ k = inst[t] /\ Procs /\ vm[t] \in Vms /\ 0 \notin Vms /\ 0 \notin Instances
      /\ inst \in [Threads -> Instances \union {0}] /\ pc \in [Threads -> PCs]
      /\ pc[t] = "tpm" /\ pc[t] \in HoldPCs /\ Reaping(k)
      /\ k \in Instances /\ bhyve[k] = "free" /\ ~seeded[k] /\ reaper[k] = "none"
      /\ vmOf[k] = 0 /\ cfg[t].tpm
      /\ \A s \in Threads \ {t} : pc[s] \in HoldPCs => inst[s] # inst[t]
      /\ \A v \in Vms \ {vm[t]} : k \notin Referred(v)
  <2>1. pc[t] = "tpm" /\ pc[t] \in HoldPCs
    BY DEF StartTpm, At, HoldPCs, StartPCs
  <2> QED
    BY <1>k, <2>1, OwnFacts, HeldInstance
<1>1. OwnStep(t)
  BY <1>0 DEF OwnStep, StartTpm, Return, Procs, locals
<1>2. Procs'
  BY <1>0 DEF Procs, StartTpm, Live
<1>3. vmOf'[k] \in {0, vm[t]} /\ Reaping(k)'
  BY <1>0 DEF Procs, StartTpm, Reaping, Live
<1>4. Holds(t)'
  <2>1. CASE TpmActive(vm[t])
    BY <1>0, <2>1 DEF StartTpm, Return, Goto, Holds, HoldPCs, StartPCs
  <2>2. CASE ~TpmActive(vm[t])
    <3>1. /\ pc'[t] = "tap" /\ vm' = vm /\ inst' = inst /\ cfg' = cfg
          /\ reaper'[k] = "none" /\ vmOf'[k] = vm[t] /\ swtpm'[k] = "boot"
          /\ bhyve'[k] = "free" /\ ~seeded'[k]
      BY <1>0, <2>2 DEF StartTpm, Goto, locals, Procs
    <3>2. \A s \in Threads \ {t} : pc'[s] \in HoldPCs => inst'[s] # k
      BY <1>0 DEF LocalStep
    <3>3. \A v \in Vms \ {vm[t]} : k \notin Referred(v)'
      BY <1>0, <2>2 DEF StartTpm, Procs, Referred
    <3> QED
      BY <1>0, <3>1, <3>2, <3>3 DEF Holds, Live
  <2> QED
    BY <2>1, <2>2
<1> QED
  BY <1>0, <1>1, <1>2, <1>3, <1>4, OwnStepProcs

(* A call of a start that touches no process and no file. *)
LEMMA ProceedProcs ==
    ASSUME TypeOK, ProcInv, NEW t \in Threads, LocalStep(t), pc[t] \in HoldPCs,
           UNCHANGED <<procs, files>>,
           \/ Return(t)
           \/ UNCHANGED locals /\ pc[t] \in {"tap", "check"} /\ pc'[t] \in {"check", "spawn"}
    PROVE  ProcInv'
<1>k. PICK k : k = inst[t]
  OBVIOUS
<1>0. /\ k = inst[t] /\ Procs /\ vm[t] \in Vms /\ 0 \notin Instances
      /\ inst \in [Threads -> Instances \union {0}] /\ pc \in [Threads -> PCs]
      /\ Reaping(k) /\ k \in Instances /\ vmOf[k] \in {0, vm[t]}
  BY <1>k, OwnFacts, HeldInstance
<1>1. /\ bhyve' = bhyve /\ swtpm' = swtpm /\ vmOf' = vmOf /\ seeded' = seeded
      /\ reaper' = reaper /\ pidfile' = pidfile /\ tpmfile' = tpmfile /\ socket' = socket
  BY DEF procs, files
<1>2. OwnStep(t)
  BY <1>0, <1>1 DEF OwnStep, Return, locals
<1>3. Procs' /\ Reaping(k)'
  BY <1>0, <1>1 DEF Procs, Live, Reaping
<1>4. Holds(t)'
  <2>1. CASE Return(t)
    BY <1>0, <2>1 DEF Return, Goto, Holds, HoldPCs, StartPCs
  <2>2. CASE UNCHANGED locals /\ pc[t] \in {"tap", "check"} /\ pc'[t] \in {"check", "spawn"}
    <3>1. \A s \in Threads \ {t} : pc'[s] \in HoldPCs => pc[s] \in HoldPCs /\ inst'[s] = inst[s]
      BY DEF LocalStep
    <3>2. Holds(t)
      BY DEF ProcInv
    <3> QED
      BY <1>1, <2>2, <3>1, <3>2 DEF Holds, Live, Referred, locals
  <2> QED
    BY <2>1, <2>2
<1> QED
  BY <1>0, <1>1, <1>2, <1>3, <1>4, OwnStepProcs

(* The calls between the emulator and bhyve. *)
LEMMA BeforeSpawnProcs ==
    ASSUME TypeOK, ProcInv, NEW t \in Threads, LocalStep(t), ConfigureTap(t) \/ Check(t)
    PROVE  ProcInv'
<1>0. pc \in [Threads -> PCs]
  BY DEF TypeOK
<1>1. CASE ConfigureTap(t)
  <2>1. CASE UndoTpm(t)
    BY <1>1, <2>1, UndoProcs DEF ConfigureTap, At, HoldPCs, StartPCs
  <2>2. CASE Goto(t, "check") /\ UNCHANGED <<swtpm, vmOf, socket, locals>>
    <3>1. UNCHANGED <<procs, files>> /\ pc[t] = "tap" /\ pc'[t] = "check" /\ UNCHANGED locals
      BY <1>0, <1>1, <2>2 DEF ConfigureTap, At, Goto, procs, files
    <3> QED
      BY <3>1, ProceedProcs DEF HoldPCs, StartPCs
  <2> QED
    BY <1>1, <2>1, <2>2 DEF ConfigureTap
<1>2. CASE Check(t)
  <2>1. UNCHANGED <<procs, files>> /\ pc[t] = "check"
    BY <1>2 DEF Check, At
  <2>2. Return(t) \/ (UNCHANGED locals /\ pc'[t] = "spawn")
    BY <1>0, <1>2 DEF Check, Goto
  <2> QED
    BY <2>1, <2>2, ProceedProcs DEF HoldPCs, StartPCs
<1> QED
  BY <1>1, <1>2

(* bhyve is spawned with the options that were read, or the emulator goes again. *)
LEMMA SpawnProcs ==
    ASSUME TypeOK, ProcInv, NEW t \in Threads, LocalStep(t), Spawn(t)
    PROVE  ProcInv'
<1>k. PICK k : k = inst[t]
  OBVIOUS
<1>0. /\ k = inst[t] /\ Procs /\ vm[t] \in Vms /\ 0 \notin Vms /\ 0 \notin Instances
      /\ inst \in [Threads -> Instances \union {0}] /\ pc \in [Threads -> PCs]
      /\ pc[t] = "spawn" /\ pc[t] \in HoldPCs
      /\ k \in Instances /\ bhyve[k] = "free" /\ ~seeded[k] /\ reaper[k] = "none"
      /\ (cfg[t].tpm <=> swtpm[k] # "free")
      /\ \A s \in Threads \ {t} : pc[s] \in HoldPCs => inst[s] # k
      /\ \A v \in Vms \ {vm[t]} : k \notin Referred(v)
  <2>1. pc[t] = "spawn" /\ pc[t] \in HoldPCs
    BY DEF Spawn, At, HoldPCs, StartPCs
  <2> QED
    BY <1>k, <2>1, OwnFacts, HeldInstance
<1>1. CASE UndoTpm(t) /\ UNCHANGED <<bhyve, seeded>>
  BY <1>0, <1>1, UndoProcs DEF Spawn
<1>2. CASE ~(UndoTpm(t) /\ UNCHANGED <<bhyve, seeded>>)
  <2>1. /\ bhyve' = [bhyve EXCEPT ![k] = "boot"] /\ vmOf' = [vmOf EXCEPT ![k] = vm[t]]
        /\ seeded' = [seeded EXCEPT ![k] = UsesSeed(t)] /\ pc' = [pc EXCEPT ![t] = "write_pid"]
        /\ UNCHANGED <<swtpm, socket, locals, reaper, pidfile, tpmfile>>
    BY <1>0, <1>2 DEF Spawn, Goto
  <2>2. UsesSeed(t) \in BOOLEAN
    BY DEF UsesSeed
  <2>3. OwnStep(t)
    BY <1>0, <2>1 DEF OwnStep, Procs, locals
  <2>4. Procs'
    <3> HIDE DEF UsesSeed
    <3> QED
      BY <1>0, <2>1, <2>2 DEF Procs, Live
  <2>5. vmOf'[k] = vm[t] /\ Reaping(k)'
    BY <1>0, <2>1 DEF Procs, Reaping, Live
  <2>6. Holds(t)'
    <3>1. /\ pc'[t] = "write_pid" /\ vm' = vm /\ inst' = inst /\ cfg' = cfg
          /\ reaper'[k] = "none" /\ vmOf'[k] = vm[t] /\ swtpm'[k] = swtpm[k]
          /\ bhyve'[k] = "boot"
      BY <1>0, <2>1 DEF locals, Procs
    <3>2. \A s \in Threads \ {t} : pc'[s] \in HoldPCs => inst'[s] # k
      BY <1>0 DEF LocalStep
    <3>3. \A v \in Vms \ {vm[t]} : k \notin Referred(v)'
      BY <1>0, <2>1 DEF Referred
    <3> QED
      BY <1>0, <3>1, <3>2, <3>3 DEF Holds, Live
  <2> QED
    BY <1>0, <2>3, <2>4, <2>5, <2>6, OwnStepProcs
<1> QED
  BY <1>1, <1>2

(* The files of the VM get the numbers of the new processes, then the reaper takes over. *)
LEMMA WriteFilesProcs ==
    ASSUME TypeOK, ProcInv, NEW t \in Threads, LocalStep(t), WritePidFile(t) \/ WriteTpmFile(t)
    PROVE  ProcInv'
<1>k. PICK k : k = inst[t]
  OBVIOUS
<1>0. /\ k = inst[t] /\ Procs /\ vm[t] \in Vms /\ 0 \notin Vms /\ 0 \notin Instances
      /\ inst \in [Threads -> Instances \union {0}] /\ pc \in [Threads -> PCs]
      /\ pc[t] \in {"write_pid", "write_tpm"} /\ pc[t] \in HoldPCs /\ Reaping(k)
      /\ k \in Instances /\ bhyve[k] # "free" /\ reaper[k] = "none" /\ vmOf[k] \in {0, vm[t]}
      /\ (cfg[t].tpm <=> swtpm[k] # "free")
      /\ \A s \in Threads \ {t} : pc[s] \in HoldPCs => inst[s] # k
      /\ \A v \in Vms \ {vm[t]} : k \notin Referred(v)
  <2>1. pc[t] \in {"write_pid", "write_tpm"} /\ pc[t] \in HoldPCs
    BY DEF WritePidFile, WriteTpmFile, At, HoldPCs, StartPCs
  <2> QED
    BY <1>k, <2>1, OwnFacts, HeldInstance
<1>1. CASE WritePidFile(t)
  <2>1. OwnStep(t)
    BY <1>0, <1>1 DEF OwnStep, WritePidFile, Return, locals, procs, Procs
  <2>2. Procs' /\ Reaping(k)' /\ vmOf'[k] = vmOf[k]
    BY <1>0, <1>1 DEF Procs, WritePidFile, procs, Live, Reaping
  <2>3. Holds(t)'
    <3>1. CASE Return(t)
      BY <1>0, <3>1 DEF Return, Goto, Holds, HoldPCs, StartPCs
    <3>2. CASE ~Return(t)
      <4>1. /\ pc'[t] = "write_tpm" /\ vm' = vm /\ inst' = inst /\ cfg' = cfg
            /\ UNCHANGED <<bhyve, swtpm, vmOf, seeded, reaper>>
            /\ pidfile' = [pidfile EXCEPT ![vm[t]] = k]
            /\ tpmfile' = tpmfile /\ socket' = socket
        BY <1>0, <1>1, <3>2 DEF WritePidFile, Goto, locals, procs
      <4>2. \A s \in Threads \ {t} : pc'[s] \in HoldPCs => inst'[s] # k
        BY <1>0 DEF LocalStep
      <4>3. \A v \in Vms \ {vm[t]} : k \notin Referred(v)'
        BY <1>0, <4>1 DEF Procs, Referred
      <4> QED
        BY <1>0, <4>1, <4>2, <4>3 DEF Holds, Live
    <3> QED
      BY <3>1, <3>2
  <2> QED
    BY <1>0, <2>1, <2>2, <2>3, OwnStepProcs
<1>2. CASE WriteTpmFile(t)
  <2>1. OwnStep(t)
    BY <1>0, <1>2 DEF OwnStep, WriteTpmFile, Return, Procs
  <2>2. Procs' /\ Reaping(k)' /\ vmOf'[k] = vmOf[k]
    BY <1>0, <1>2 DEF Procs, WriteTpmFile, ReaperPCs, Live, Reaping
  <2>3. Holds(t)'
    BY <1>0, <1>2 DEF WriteTpmFile, Return, Goto, Holds, HoldPCs, StartPCs
  <2> QED
    BY <1>0, <2>1, <2>2, <2>3, OwnStepProcs
<1> QED
  BY <1>1, <1>2

-----------------------------------------------------------------------------
(* The calls of a stop, the processes and the reapers. *)

(* kill does not free a process, and removing files takes nothing from a start. *)
LEMMA StopProcs ==
    ASSUME TypeOK, ProcInv, NEW t \in Threads, LocalStep(t),
           KillTpm(t) \/ RemoveFiles(t) \/ RemoveRuntimeDir(t)
    PROVE  ProcInv'
<1>0. Procs /\ pc \in [Threads -> PCs] /\ vm[t] \in Vms /\ 0 \notin Instances
  BY StorageAssumption, LocalFacts
     DEF ProcInv, Locals, KillTpm, RemoveFiles, RemoveRuntimeDir, At
<1>1. pc[t] \notin HoldPCs /\ pc'[t] \notin HoldPCs
  BY <1>0 DEF KillTpm, RemoveFiles, RemoveRuntimeDir, At, Goto, Return, HoldPCs, StartPCs
<1>2. /\ UNCHANGED <<bhyve, vmOf, seeded, reaper, socket>>
      /\ swtpm' \in [Instances -> {"free", "boot", "run", "zombie"}]
      /\ \A i \in Instances : swtpm'[i] = "free" <=> swtpm[i] = "free"
      /\ pidfile' \in [Vms -> Instances \union {0}] /\ tpmfile' \in [Vms -> Instances \union {0}]
      /\ \A v \in Vms : /\ pidfile'[v] \in {pidfile[v], 0}
                        /\ tpmfile'[v] \in {tpmfile[v], 0}
  BY <1>0 DEF KillTpm, RemoveFiles, RemoveRuntimeDir, files, procs, Procs
<1>3. Procs'
  BY <1>0, <1>2 DEF Procs, Live
<1>4. Belongs'
  <2> SUFFICES ASSUME NEW v \in Vms, NEW i \in Referred(v)' \ {0}
               PROVE  vmOf'[i] \in {0, v}
    BY DEF Belongs
  <2>1. i \in Referred(v)
    BY <1>2 DEF Referred
  <2> QED
    BY <1>2, <2>1 DEF ProcInv, Belongs
<1>5. \A i \in Instances : Reaping(i)'
  BY <1>2 DEF ProcInv, Reaping, Live
<1>6. Holds(t)'
  BY <1>1 DEF Holds
<1>7. ASSUME NEW s \in Threads \ {t} PROVE Holds(s)'
  <2>1. pc[s] \in HoldPCs => inst[s] \in Instances /\ inst[s] # 0
    BY <1>0, HeldInstance
  <2>2. pc[s] \in HoldPCs => \A v \in Vms \ {vm[s]} :
                                inst[s] \in Referred(v)' => inst[s] \in Referred(v)
    BY <1>2, <2>1 DEF Referred
  <2>3. Undisturbed(s)
    BY <1>1, <1>2, <2>1, <2>2 DEF Undisturbed, LocalStep
  <2> QED
    BY <2>3, StillHolds DEF ProcInv
<1> QED
  BY <1>3, <1>4, <1>5, <1>6, <1>7 DEF ProcInv

(* A step of an instance i by itself or its reaper, which no thread takes part in. *)
Aside(i) ==
    /\ i \in Instances /\ i # 0 /\ vmOf[i] \in Vms /\ UNCHANGED <<pc, locals>>
    /\ \A j \in Instances \ {i} :
          /\ bhyve'[j] = bhyve[j] /\ swtpm'[j] = swtpm[j] /\ vmOf'[j] = vmOf[j]
          /\ seeded'[j] = seeded[j] /\ reaper'[j] = reaper[j]
    /\ \A v \in Vms : /\ pidfile'[v] \in {pidfile[v], 0} /\ tpmfile'[v] \in {tpmfile[v], 0}
                      /\ socket'[v] \in {socket[v], 0} \/ (v = vmOf[i] /\ socket'[v] = i)
    /\ vmOf'[i] = vmOf[i] \/ vmOf'[i] = 0
    /\ reaper[i] = "none" =>
          /\ reaper'[i] = reaper[i] /\ vmOf'[i] = vmOf[i] /\ seeded'[i] = seeded[i]
          /\ bhyve'[i] = "free" <=> bhyve[i] = "free"
          /\ swtpm'[i] = "free" <=> swtpm[i] = "free"

(* It leaves every start its instance. *)
LEMMA AsideProcs ==
    ASSUME TypeOK, ProcInv, NEW i \in Instances, Aside(i), Procs', Reaping(i)'
    PROVE  ProcInv'
<1>0. Procs /\ 0 \notin Vms /\ 0 \notin Instances
  BY StorageAssumption DEF ProcInv
<1>1. Belongs'
  <2> SUFFICES ASSUME NEW v \in Vms, NEW j \in Referred(v)' \ {0}
               PROVE  vmOf'[j] \in {0, v}
    BY DEF Belongs
  <2>1. j \in Referred(v) \/ (v = vmOf[i] /\ j = i)
    BY DEF Aside, Referred
  <2>2. j \in Instances /\ vmOf[j] \in {0, v}
    BY <1>0, <2>1 DEF ProcInv, Procs, Belongs, Referred
  <2> QED
    BY <2>2 DEF Aside
<1>2. ASSUME NEW j \in Instances PROVE Reaping(j)'
  <2>1. Reaping(j)
    BY DEF ProcInv
  <2> QED
    BY <2>1 DEF Aside, Reaping, Live
<1>3. ASSUME NEW s \in Threads PROVE Holds(s)'
  <2>1. ASSUME pc[s] \in HoldPCs
        PROVE  /\ inst[s] \in Instances /\ inst[s] # 0 /\ reaper[inst[s]] = "none"
               /\ vmOf[inst[s]] \in {0, vm[s]}
    BY <1>0, <2>1, HeldInstance
  <2>2. ASSUME pc[s] \in HoldPCs, NEW v \in Vms \ {vm[s]}, inst[s] \in Referred(v)'
        PROVE  inst[s] \in Referred(v)
    BY <1>0, <2>1, <2>2 DEF Aside, Referred
  <2>3. pc' = pc /\ vm' = vm /\ cfg' = cfg /\ inst' = inst
    BY DEF Aside, locals
  <2>4. ASSUME pc[s] \in HoldPCs
        PROVE  /\ reaper'[inst[s]] = reaper[inst[s]] /\ vmOf'[inst[s]] = vmOf[inst[s]]
               /\ seeded'[inst[s]] = seeded[inst[s]]
               /\ bhyve'[inst[s]] = "free" <=> bhyve[inst[s]] = "free"
               /\ swtpm'[inst[s]] = "free" <=> swtpm[inst[s]] = "free"
    BY <2>1, <2>4 DEF Aside
  <2>5. Undisturbed(s)
    BY <2>2, <2>3, <2>4 DEF Undisturbed
  <2> QED
    BY <2>5, StillHolds DEF ProcInv
<1> QED
  BY <1>1, <1>2, <1>3 DEF ProcInv

(* The processes and the reapers step aside. *)
LEMMA AsideSteps ==
    ASSUME TypeOK, ProcInv, NEW i \in Instances, ReaperStep(i) \/ ProcStep(i)
    PROVE  Aside(i) /\ Procs' /\ Reaping(i)'
<1>0. /\ Procs /\ Reaping(i) /\ i # 0 /\ 0 \notin Vms
      /\ vmOf[i] \in Vms <=> reaper[i] # "none" \/ bhyve[i] # "free" \/ swtpm[i] # "free"
  BY StorageAssumption DEF ProcInv, Procs, Live
<1>1. vmOf[i] \in Vms /\ UNCHANGED <<pc, locals>>
  BY <1>0 DEF ReaperStep, ProcStep, Reap, ReapTpm, ReapSocket, ReapPidFile, ReapTpmFile, ReapSeed,
              ReaperAt, BindSocket, Boot, Exit, InitReaps, Procs, Live
<1>2. CASE Reap(i)
  BY <1>0, <1>1, <1>2 DEF Reap, ReaperAt, Aside, Procs, Live, Reaping, ReaperPCs, files
<1>3. CASE ReapTpm(i)
  BY <1>0, <1>1, <1>3 DEF ReapTpm, ReaperAt, Aside, Procs, Live, Reaping, ReaperPCs, files
<1>4. CASE ReapSocket(i)
  BY <1>0, <1>1, <1>4 DEF ReapSocket, ReaperAt, Aside, Procs, Live, Reaping, ReaperPCs
<1>5. CASE ReapPidFile(i)
  BY <1>0, <1>1, <1>5 DEF ReapPidFile, ReaperAt, Aside, Procs, Live, Reaping, ReaperPCs
<1>6. CASE ReapTpmFile(i)
  <2>1. CASE seeded[i]
    BY <1>0, <1>1, <1>6, <2>1 DEF ReapTpmFile, ReaperAt, Aside, Procs, Live, Reaping, ReaperPCs
  <2>2. CASE ~seeded[i]
    BY <1>0, <1>1, <1>6, <2>2
       DEF ReapTpmFile, ReaperAt, Gone, Aside, Procs, Live, Reaping, ReaperPCs
  <2> QED
    BY <2>1, <2>2
<1>7. CASE ReapSeed(i)
  BY <1>0, <1>1, <1>7 DEF ReapSeed, ReaperAt, Gone, Aside, Procs, Live, Reaping, ReaperPCs, files
<1>8. CASE BindSocket(i)
  <2>1. CASE socket[vmOf[i]] = 0
    BY <1>0, <1>1, <1>8, <2>1 DEF BindSocket, Aside, Procs, Live, Reaping
  <2>2. CASE socket[vmOf[i]] # 0
    BY <1>0, <1>1, <1>8, <2>2 DEF BindSocket, Aside, Procs, Live, Reaping
  <2> QED
    BY <2>1, <2>2
<1>9. CASE Boot(i)
  BY <1>0, <1>1, <1>9 DEF Boot, Aside, Procs, Live, Reaping, files
<1>10. CASE Exit(i)
  BY <1>0, <1>1, <1>10 DEF Exit, Aside, Procs, Live, Reaping, files
<1>11. CASE InitReaps(i)
  <2> DEFINE b == IF bhyve[i] = "zombie" THEN "free" ELSE bhyve[i]
             s == IF swtpm[i] = "zombie" THEN "free" ELSE swtpm[i]
  <2>1. CASE b = "free" /\ s = "free"
    BY <1>0, <1>1, <1>11, <2>1, ZenonT(60)
       DEF InitReaps, Gone, Aside, Procs, Live, Reaping, ReaperPCs, files
  <2>2. CASE ~(b = "free" /\ s = "free")
    BY <1>0, <1>1, <1>11, <2>2 DEF InitReaps, Aside, Procs, Live, Reaping, ReaperPCs, files
  <2> QED
    BY <2>1, <2>2
<1> QED
  BY <1>2, <1>3, <1>4, <1>5, <1>6, <1>7, <1>8, <1>9, <1>10, <1>11 DEF ReaperStep, ProcStep

(* After a restart no start is under way, and init waits for the processes. *)
LEMMA RestartProcs ==
    ASSUME TypeOK, ProcInv, Restart
    PROVE  ProcInv'
<1>0. Procs /\ 0 \notin Vms
  BY StorageAssumption DEF ProcInv
<1>1. \A t \in Threads : Holds(t)'
  BY DEF Restart, Holds, HoldPCs, StartPCs
<1>2. Procs' /\ \A i \in Instances : Reaping(i)'
  BY <1>0 DEF Restart, Procs, Live, Reaping, ReaperPCs, files, ProcInv
<1>3. Belongs'
  BY <1>0 DEF Restart, Belongs, Referred, files, ProcInv, Procs
<1> QED
  BY <1>1, <1>2, <1>3 DEF ProcInv

(* Whatever happens, the processes, the files and the starts agree. *)
LEMMA ProcsKept ==
    ASSUME TypeOK, ProcInv,
           \/ \E t \in Threads : ThreadStep(t) \/ Begins(t)
           \/ \E i \in Instances : ReaperStep(i) \/ ProcStep(i)
           \/ Restart
    PROVE  ProcInv'
<1>1. ASSUME NEW t \in Threads, ThreadStep(t) \/ Begins(t) PROVE ProcInv'
  <2>1. LocalStep(t)
    BY <1>1, CreateIsLocal, SetIsLocal, StartIsLocal, StopIsLocal, BeginsIsLocal DEF ThreadStep
  <2>2. CASE CreateStep(t) \/ SetStep(t) \/ Begins(t)
    BY <2>1, <2>2, QuietSteps, QuietProcs
  <2>3. CASE StartStep(t)
    BY <2>1, <2>3, StartTakes, StartTpmProcs, BeforeSpawnProcs, SpawnProcs, WriteFilesProcs
       DEF StartStep
  <2>4. CASE StopStep(t)
    BY <2>1, <2>4, QuietSteps, QuietProcs, StopProcs DEF StopStep
  <2> QED
    BY <1>1, <2>2, <2>3, <2>4 DEF ThreadStep
<1>2. ASSUME NEW i \in Instances, ReaperStep(i) \/ ProcStep(i) PROVE ProcInv'
  BY <1>2, AsideSteps, AsideProcs
<1> QED
  BY <1>1, <1>2, RestartProcs

-----------------------------------------------------------------------------
(* The lists of devices. *)

(* Of a list without duplicates, Removed takes the one index of the device. *)
LEMMA RemovedIs ==
    ASSUME NEW list \in Seq(Devices), IsInjective(list), NEW k \in 1..Len(list)
    PROVE  Removed(list, list[k]) = RemoveAt(list, k)
<1> DEFINE I == {i \in 1..Len(list) : list[i] = list[k]}
<1>0. Len(list) \in Nat /\ DOMAIN list = 1..Len(list)
  OBVIOUS
<1>1. I = {k}
  BY <1>0 DEF IsInjective
<1>2. Min(I) = k
  BY <1>0, <1>1 DEF Min
<1>3. Removed(list, list[k]) = RemoveAt(list, IF I # {} THEN Min(I) ELSE 0)
  BY DEF Removed, RemoveFirst, SelectInSeq
<1> QED
  BY <1>1, <1>2, <1>3

(* A list without its k-th device: those before keep their place, those behind move up. *)
LEMMA RemoveAtIs ==
    ASSUME NEW list \in Seq(Devices), NEW k \in 1..Len(list), NEW r, r = RemoveAt(list, k)
    PROVE  /\ r \in Seq(Devices) /\ Len(r) = Len(list) - 1 /\ DOMAIN r = 1..Len(r)
           /\ \A i \in 1..Len(r) : r[i] = IF i < k THEN list[i] ELSE list[i + 1]
<1>0. Len(list) \in Nat /\ DOMAIN list = 1..Len(list)
  OBVIOUS
<1>1. PICK a : a = SubSeq(list, 1, k - 1)
  OBVIOUS
<1>2. PICK b : b = SubSeq(list, k + 1, Len(list))
  OBVIOUS
<1>3. a \in Seq(Devices) /\ Len(a) = k - 1 /\ \A i \in 1..(k - 1) : a[i] = list[i]
  <2>1. \A i \in 1..(k - 1) : list[i] \in Devices
    BY <1>0
  <2>2. \A i \in 1..(k - 1) - 1 + 1 : a[i] = list[1 + i - 1]
    BY <1>0, <1>1, <2>1, SubSeqProperties
  <2> QED
    BY <1>0, <1>1, <2>1, <2>2, SubSeqProperties
<1>4. /\ b \in Seq(Devices) /\ Len(b) = Len(list) - k
      /\ \A i \in 1..(Len(list) - k) : b[i] = list[k + i]
  <2>1. \A i \in (k + 1)..Len(list) : list[i] \in Devices
    BY <1>0
  <2>2. \A i \in 1..Len(list) - (k + 1) + 1 : b[i] = list[k + 1 + i - 1]
    BY <1>0, <1>2, <2>1, SubSeqProperties
  <2>3. b \in Seq(Devices) /\ Len(b) = IF k + 1 <= Len(list) THEN Len(list) - (k + 1) + 1 ELSE 0
    BY <1>0, <1>2, <2>1, SubSeqProperties
  <2>4. ASSUME NEW i \in 1..(Len(list) - k) PROVE b[i] = list[k + i]
    <3>1. i \in 1..Len(list) - (k + 1) + 1 /\ k + 1 + i - 1 = k + i
      BY <1>0
    <3> QED
      BY <2>2, <3>1
  <2>5. Len(b) = Len(list) - k
    <3>1. PICK n, m : n = Len(list) /\ m = Len(b)
      OBVIOUS
    <3>2. n \in Nat /\ k \in 1..n /\ m = IF k + 1 <= n THEN n - (k + 1) + 1 ELSE 0
      BY <1>0, <2>3, <3>1
    <3>3. m = n - k
      BY <3>2
    <3> QED
      BY <3>1, <3>3
  <2> QED
    BY <2>3, <2>4, <2>5
<1>5. r = a \o b
  BY <1>1, <1>2 DEF RemoveAt
<1>6. /\ r \in Seq(Devices) /\ Len(r) = Len(a) + Len(b)
      /\ \A i \in 1..Len(a) + Len(b) : r[i] = IF i <= Len(a) THEN a[i] ELSE b[i - Len(a)]
  <2>1. a \in Seq(Devices) /\ b \in Seq(Devices)
    BY <1>3, <1>4
  <2>2. /\ a \o b \in Seq(Devices) /\ Len(a \o b) = Len(a) + Len(b)
        /\ \A i \in 1..Len(a) + Len(b) :
              (a \o b)[i] = IF i <= Len(a) THEN a[i] ELSE b[i - Len(a)]
    BY <2>1, ConcatProperties, Zenon
  <2> QED
    BY <1>5, <2>2, Zenon
<1>7. Len(r) = Len(list) - 1 /\ DOMAIN r = 1..Len(r)
  BY <1>0, <1>3, <1>4, <1>6
<1>8. ASSUME NEW i \in 1..Len(r)
      PROVE  r[i] = IF i < k THEN list[i] ELSE list[i + 1]
  <2>1. i \in 1..Len(a) + Len(b)
    BY <1>6, <1>7
  <2>2. CASE i < k
    BY <1>0, <1>3, <1>6, <2>1, <2>2
  <2>3. CASE i >= k
    <3>1. i - (k - 1) \in 1..(Len(list) - k) /\ k + (i - (k - 1)) = i + 1
      BY <1>0, <1>7, <2>3
    <3>2. b[i - (k - 1)] = list[k + (i - (k - 1))]
      BY <1>4, <3>1
    <3>3. r[i] = b[i - (k - 1)]
      BY <1>0, <1>3, <1>6, <2>1, <2>3
    <3> QED
      BY <1>0, <2>3, <3>1, <3>2, <3>3
  <2> QED
    BY <1>0, <1>7, <2>2, <2>3
<1> QED
  BY <1>6, <1>7, <1>8

(* Removing a device takes it from the list, and nothing else. *)
LEMMA RemovedList ==
    ASSUME NEW list \in Seq(Devices), IsInjective(list), NEW d
    PROVE  /\ Removed(list, d) \in Seq(Devices) /\ IsInjective(Removed(list, d))
           /\ ToSet(Removed(list, d)) = ToSet(list) \ {d}
<1>0. Len(list) \in Nat /\ DOMAIN list = 1..Len(list)
  OBVIOUS
<1>n. CASE ~Has(list, d)
  <2>1. ~ \E i \in 1..Len(list) : list[i] = d
    BY <1>0, <1>n DEF Has, ToSet
  <2>2. Removed(list, d) = list
    BY <2>1 DEF Removed, RemoveFirst
  <2> QED
    BY <1>n, <2>2 DEF Has
<1>h. SUFFICES ASSUME Has(list, d)
               PROVE  /\ Removed(list, d) \in Seq(Devices) /\ IsInjective(Removed(list, d))
                      /\ ToSet(Removed(list, d)) = ToSet(list) \ {d}
  BY <1>n
<1>1. PICK k \in 1..Len(list) : d = list[k]
  BY <1>0, <1>h DEF Has, ToSet
<1>r. PICK r : r = RemoveAt(list, k)
  OBVIOUS
<1>2. Removed(list, d) = r
  BY <1>1, <1>r, RemovedIs
<1>3. r \in Seq(Devices) /\ Len(r) = Len(list) - 1 /\ DOMAIN r = 1..Len(r)
  BY <1>r, RemoveAtIs
<1>4. \A i \in 1..Len(r) : r[i] = IF i < k THEN list[i] ELSE list[i + 1]
  BY <1>r, RemoveAtIs
<1>5. IsInjective(r)
  BY <1>0, <1>3, <1>4, SMTT(60) DEF IsInjective
<1>6. ToSet(r) \subseteq ToSet(list) \ {d}
  <2> SUFFICES ASSUME NEW i \in 1..Len(r)
               PROVE  r[i] \in ToSet(list) /\ r[i] # list[k]
    BY <1>1, <1>3 DEF ToSet
  <2>1. PICK j \in 1..Len(list) : r[i] = list[j] /\ j # k
    BY <1>0, <1>3, <1>4
  <2> QED
    BY <1>0, <2>1 DEF ToSet, IsInjective
<1>7. ToSet(list) \ {d} \subseteq ToSet(r)
  <2> SUFFICES ASSUME NEW j \in 1..Len(list), j # k
               PROVE  list[j] \in ToSet(r)
    BY <1>0, <1>1 DEF ToSet
  <2>1. CASE j < k
    <3>1. j \in 1..Len(r) /\ r[j] = list[j]
      BY <1>0, <1>3, <1>4, <2>1
    <3> QED
      BY <1>3, <3>1 DEF ToSet
  <2>2. CASE j > k
    <3>1. j - 1 \in 1..Len(r) /\ r[j - 1] = list[j]
      BY <1>0, <1>3, <1>4, <2>2
    <3> QED
      BY <1>3, <3>1 DEF ToSet
  <2> QED
    BY <1>0, <2>1, <2>2
<1> QED
  BY <1>2, <1>3, <1>5, <1>6, <1>7

(* Adding one puts it behind the others. *)
LEMMA AddedList ==
    ASSUME NEW list \in Seq(Devices), IsInjective(list), NEW d \in Devices, ~Has(list, d)
    PROVE  /\ Added(list, d) \in Seq(Devices) /\ IsInjective(Added(list, d))
           /\ ToSet(Added(list, d)) = ToSet(list) \union {d}
<1> DEFINE r == Append(list, d)
<1>1. /\ r \in Seq(Devices) /\ Len(r) = Len(list) + 1 /\ Len(list) \in Nat
      /\ DOMAIN r = 1..Len(r) /\ DOMAIN list = 1..Len(list)
      /\ \A i \in 1..Len(list) : r[i] = list[i]
      /\ r[Len(list) + 1] = d
  BY AppendProperties
<1> HIDE DEF r
<1>2. \A i \in 1..Len(list) : list[i] # d
  BY <1>1 DEF Has, ToSet
<1>3. IsInjective(r)
  <2> SUFFICES ASSUME NEW a \in 1..Len(r), NEW b \in 1..Len(r), r[a] = r[b]
               PROVE  a = b
    BY <1>1 DEF IsInjective
  <2>1. \A i \in 1..Len(r) : i \in 1..Len(list) \/ i = Len(list) + 1
    BY <1>1
  <2> QED
    BY <1>1, <1>2, <2>1 DEF IsInjective
<1>4. ToSet(r) = ToSet(list) \union {d}
  <2>1. \A i \in 1..Len(r) : i \in 1..Len(list) \/ i = Len(list) + 1
    BY <1>1
  <2>2. Len(list) + 1 \in 1..Len(r) /\ 1..Len(list) \subseteq 1..Len(r)
    BY <1>1
  <2> QED
    BY <1>1, <2>1, <2>2 DEF ToSet
<1> QED
  BY <1>1, <1>3, <1>4 DEF Added, r

(* set_vm_options writes what it is asked, field by field. *)
LEMMA WrittenType ==
    ASSUME NEW o \in Options, NEW r, NEW k
    PROVE  /\ Written(o, r, k) \in Options
           /\ Written(o, r, k).passthru = o.passthru /\ Written(o, r, k).complete = o.complete
  BY DEF Written, Options

-----------------------------------------------------------------------------
(* The bus. *)

(* Arguments with slots of their own, one list behind the other. *)
LEMMA OnBusConcat ==
    ASSUME NEW s1 \in Seq(Nat), NEW s2 \in Seq(Nat), OnBus(s1), OnBus(s2),
           ToSet(s1) \intersect ToSet(s2) = {}
    PROVE  /\ s1 \o s2 \in Seq(Nat) /\ OnBus(s1 \o s2)
           /\ ToSet(s1 \o s2) = ToSet(s1) \union ToSet(s2)
<1>1. PICK r, m, n : r = s1 \o s2 /\ m = Len(s1) /\ n = Len(s2)
  OBVIOUS
<1>2. /\ m \in Nat /\ n \in Nat /\ DOMAIN s1 = 1..m /\ DOMAIN s2 = 1..n
      /\ r \in Seq(Nat) /\ DOMAIN r = 1..(m + n)
      /\ \A i \in 1..(m + n) : r[i] = IF i <= m THEN s1[i] ELSE s2[i - m]
  <2>1. /\ s1 \o s2 \in Seq(Nat) /\ Len(s1 \o s2) = m + n
        /\ \A i \in 1..m + n : (s1 \o s2)[i] = IF i <= m THEN s1[i] ELSE s2[i - m]
    BY <1>1, ConcatProperties, ZenonT(60)
  <2> QED
    BY <1>1, <2>1
<1>3. \A i \in 1..(m + n) : \/ i \in 1..m /\ r[i] = s1[i]
                            \/ i - m \in 1..n /\ r[i] = s2[i - m]
  BY <1>2
<1>4. /\ \A j \in 1..m : j \in 1..(m + n) /\ r[j] = s1[j]
      /\ \A j \in 1..n : j + m \in 1..(m + n) /\ r[j + m] = s2[j]
  <2>1. \A j \in 1..m : j \in 1..(m + n) /\ r[j] = s1[j]
    BY <1>2
  <2>2. \A j \in 1..n : j + m \in 1..(m + n) /\ ~(j + m <= m) /\ (j + m) - m = j
    BY <1>2
  <2> QED
    BY <1>2, <2>1, <2>2
<1>5. ToSet(r) = ToSet(s1) \union ToSet(s2)
  <2>1. ToSet(r) \subseteq ToSet(s1) \union ToSet(s2)
    <3> SUFFICES ASSUME NEW i \in 1..(m + n)
                 PROVE  r[i] \in ToSet(s1) \union ToSet(s2)
      BY <1>2 DEF ToSet
    <3> QED
      BY <1>2, <1>3 DEF ToSet
  <2>2. ToSet(s1) \subseteq ToSet(r)
    BY <1>2, <1>4 DEF ToSet
  <2>3. ToSet(s2) \subseteq ToSet(r)
    <3> SUFFICES ASSUME NEW j \in 1..n
                 PROVE  s2[j] \in ToSet(r)
      BY <1>2 DEF ToSet
    <3>1. j + m \in DOMAIN r /\ r[j + m] = s2[j]
      BY <1>2, <1>4
    <3> QED
      BY <3>1 DEF ToSet
  <2> QED
    BY <2>1, <2>2, <2>3
<1>6. ASSUME NEW i \in 1..(m + n), NEW j \in 1..(m + n), r[i] = r[j] PROVE i = j
  <2>1. CASE i \in 1..m /\ r[i] = s1[i]
    <3>1. CASE j \in 1..m /\ r[j] = s1[j]
      BY <1>2, <1>6, <2>1, <3>1 DEF OnBus, IsInjective
    <3>2. CASE j - m \in 1..n /\ r[j] = s2[j - m]
      BY <1>2, <1>6, <2>1, <3>2 DEF ToSet
    <3> QED
      BY <1>3, <3>1, <3>2
  <2>2. CASE i - m \in 1..n /\ r[i] = s2[i - m]
    <3>1. CASE j \in 1..m /\ r[j] = s1[j]
      BY <1>2, <1>6, <2>2, <3>1 DEF ToSet
    <3>2. CASE j - m \in 1..n /\ r[j] = s2[j - m]
      <4>1. i - m = j - m
        BY <1>2, <1>6, <2>2, <3>2 DEF OnBus, IsInjective
      <4> QED
        BY <1>2, <4>1
    <3> QED
      BY <1>3, <3>1, <3>2
  <2> QED
    BY <1>3, <2>1, <2>2
<1> QED
  BY <1>1, <1>2, <1>5, <1>6 DEF OnBus, IsInjective

(* The slots of start_inner, as long as the passthrough devices fit. *)
LEMMA SlotsOnBus ==
    ASSUME NEW o \in Options, NEW cdata \in BOOLEAN, Len(o.passthru) <= MaxPassthru(o)
    PROVE  OnBus(BusSlots(o, cdata))
<1>1. PICK a, b, c, d, e :
         /\ a = <<0, 3, 2, 31>> /\ b = [i \in DOMAIN o.passthru |-> 5 + i]
         /\ c = (IF cdata \/ o.iso THEN <<4>> ELSE <<>>)
         /\ d = (IF o.vnc THEN <<30, 29>> ELSE <<>>)
         /\ e = (IF o.sound THEN <<5>> ELSE <<>>)
  OBVIOUS
<1>2. a \in Seq(Nat) /\ OnBus(a) /\ ToSet(a) = {0, 2, 3, 31}
  <2>1. a \in Seq(Nat) /\ DOMAIN a = 1..4 /\ a[1] = 0 /\ a[2] = 3 /\ a[3] = 2 /\ a[4] = 31
    BY <1>1
  <2>2. 1..4 = {1, 2, 3, 4}
    OBVIOUS
  <2> QED
    BY <2>1, <2>2 DEF OnBus, IsInjective, ToSet
<1>3. /\ b \in Seq(Nat) /\ OnBus(b)
      /\ \A x \in ToSet(b) : x \in Nat /\ 6 <= x /\ x <= (IF o.vnc THEN 28 ELSE 30)
  <2>1. PICK n \in Nat : n = Len(o.passthru) /\ DOMAIN o.passthru = 1..n
    BY DEF Options
  <2>2. n <= (IF o.vnc THEN 23 ELSE 25)
    BY <2>1 DEF MaxPassthru
  <2>3. DOMAIN b = 1..n /\ \A i \in 1..n : b[i] = 5 + i
    BY <1>1, <2>1
  <2>4. b \in Seq(Nat)
    BY <1>1, <2>1
  <2>5. \A i \in 1..n : b[i] \in Nat /\ 6 <= b[i] /\ b[i] <= (IF o.vnc THEN 28 ELSE 30)
    BY <2>2, <2>3
  <2>6. \A x \in ToSet(b) : x \in Nat /\ 6 <= x /\ x <= (IF o.vnc THEN 28 ELSE 30)
    BY <2>3, <2>5 DEF ToSet
  <2>7. IsInjective(b)
    <3>1. \A i, j \in 1..n : 5 + i = 5 + j => i = j
      BY <2>1
    <3> QED
      BY <2>3, <3>1 DEF IsInjective
  <2>8. ToSet(b) \subseteq 0..31
    <3> SUFFICES ASSUME NEW x \in ToSet(b)
                 PROVE  x \in 0..31
      OBVIOUS
    <3>1. x \in Nat /\ (x <= 28 \/ x <= 30)
      BY <2>6
    <3> QED
      BY <3>1
  <2> QED
    BY <2>4, <2>6, <2>7, <2>8 DEF OnBus
<1>4. c \in Seq(Nat) /\ OnBus(c) /\ ToSet(c) \subseteq {4}
  BY <1>1 DEF OnBus, IsInjective, ToSet
<1>5. d \in Seq(Nat) /\ OnBus(d) /\ ToSet(d) \subseteq (IF o.vnc THEN {29, 30} ELSE {})
  <2>1. CASE o.vnc
    <3>1. d \in Seq(Nat) /\ DOMAIN d = 1..2 /\ d[1] = 30 /\ d[2] = 29
      BY <1>1, <2>1
    <3>2. 1..2 = {1, 2}
      OBVIOUS
    <3> QED
      BY <2>1, <3>1, <3>2 DEF OnBus, IsInjective, ToSet
  <2>2. CASE ~o.vnc
    BY <1>1, <2>2 DEF OnBus, IsInjective, ToSet
  <2> QED
    BY <2>1, <2>2
<1>6. e \in Seq(Nat) /\ OnBus(e) /\ ToSet(e) \subseteq {5}
  BY <1>1 DEF OnBus, IsInjective, ToSet
<1>7. PICK ab : ab = a \o b
  OBVIOUS
<1>8. ab \in Seq(Nat) /\ OnBus(ab) /\ ToSet(ab) = ToSet(a) \union ToSet(b)
  <2>1. ToSet(a) \intersect ToSet(b) = {}
    BY <1>2, <1>3
  <2> QED
    BY <1>2, <1>3, <1>7, <2>1, OnBusConcat, Zenon
<1>9. PICK abc : abc = ab \o c
  OBVIOUS
<1>10. abc \in Seq(Nat) /\ OnBus(abc) /\ ToSet(abc) = ToSet(ab) \union ToSet(c)
  <2>1. ToSet(ab) \intersect ToSet(c) = {}
    BY <1>2, <1>3, <1>4, <1>8
  <2> QED
    BY <1>4, <1>8, <1>9, <2>1, OnBusConcat, Zenon
<1>11. PICK abcd : abcd = abc \o d
  OBVIOUS
<1>12. abcd \in Seq(Nat) /\ OnBus(abcd) /\ ToSet(abcd) = ToSet(abc) \union ToSet(d)
  <2>1. ToSet(abc) \intersect ToSet(d) = {}
    <3>1. CASE o.vnc
      <4>1. 29 \notin ToSet(b) /\ 30 \notin ToSet(b)
        BY <1>3, <3>1
      <4>2. 29 \notin ToSet(abc) /\ 30 \notin ToSet(abc)
        BY <1>2, <1>4, <1>8, <1>10, <4>1
      <4> QED
        BY <1>5, <3>1, <4>2
    <3>2. CASE ~o.vnc
      BY <1>5, <3>2
    <3> QED
      BY <3>1, <3>2
  <2> QED
    BY <1>5, <1>10, <1>11, <2>1, OnBusConcat, Zenon
<1>13. OnBus(abcd \o e)
  <2>1. 5 \notin ToSet(b) /\ 5 \notin ToSet(d)
    BY <1>3, <1>5
  <2>2. ToSet(abcd) \intersect ToSet(e) = {}
    BY <1>2, <1>4, <1>6, <1>8, <1>10, <1>12, <2>1
  <2> QED
    BY <1>6, <1>12, <2>2, OnBusConcat, Zenon
<1>14. BusSlots(o, cdata) = abcd \o e
  BY <1>1, <1>7, <1>9, <1>11 DEF BusSlots
<1> QED
  BY <1>13, <1>14

-----------------------------------------------------------------------------
(* The volumes. *)

(* Their types, and those of the world. *)
Volumes ==
    /\ scenario \in Scenarios /\ restarts \in 0..scenario.restarts
    /\ disk \in [Vms -> {"none", "blank", "partial", "whole"}]
    /\ options \in [Vms -> Options]
    /\ seed \in [Vms -> {"none", "raw", "empty", "filled"}]
    /\ mounted \in [Vms -> BOOLEAN]
    /\ image \in {"none", "partial", "whole"}

(* The types, in the parts that the steps are about. *)
LEMMA TypeParts ==
    TypeOK <=> /\ Volumes /\ Procs /\ Locals
               /\ \A t \in Threads : pc[t] # "idle" <=> vm[t] \in Vms
  BY DEF TypeOK, Volumes, Procs, Locals

(* What a thread was asked has the type of such a request. *)
LEMMA AskedTypes ==
    ASSUME TypeOK, NEW t \in Threads, Requested(t), pc[t] # "idle"
    PROVE  /\ vm[t] \in Vms /\ <<t, req[t], vm[t]>> \in scenario.requests
           /\ req[t].op = "create" => req[t] \in Creates
           /\ req[t].op = "set" => req[t] \in Sets
<1>1. <<t, req[t], vm[t]>> \in scenario.requests
  BY DEF Requested
<1>2. vm[t] \in Vms /\ req[t] \in Creates \union Sets \union Others
  BY <1>1, RequestTypes
<1> QED
  BY <1>1, <1>2 DEF Creates, Sets, Others

(* What the steps of a create make of the volumes has their types. *)
LEMMA CreateVolumes ==
    ASSUME TypeOK, NEW t \in Threads, Requested(t), CreateStep(t)
    PROVE  Volumes'
<1>0. Volumes
  BY TypeParts
<1>1. CASE CreateDisk(t) \/ LookForImage(t) \/ Fetch(t) \/ FetchEnds(t) \/ Convert(t)
  BY <1>0, <1>1 DEF CreateDisk, LookForImage, Fetch, FetchEnds, Convert, Volumes, volumes, world
<1>2. CASE WriteMetadata(t)
  <2>1. req[t] \in Creates
    BY <1>2, AskedTypes DEF WriteMetadata, At, Requested, CreatePCs
  <2>2. Created(req[t]) \in Options
    BY <2>1 DEF Created, Creates, Options
  <2> QED
    BY <1>0, <1>2, <2>2 DEF WriteMetadata, Volumes, world
<1>3. CASE CreateSeed(t) \/ FormatSeed(t) \/ MountSeed(t) \/ FillSeed(t) \/ UnmountSeed(t)
  BY <1>0, <1>3 DEF CreateSeed, FormatSeed, MountSeed, FillSeed, UnmountSeed, Volumes, world
<1> QED
  BY <1>1, <1>2, <1>3 DEF CreateStep

(* The list that a client writes back: the one it has read, with one device more or less. *)
LEMMA WriteListIs ==
    ASSUME TypeOK, NoDuplicates, NEW t \in Threads, Requested(t), pc[t] = "write_list",
           NEW new, new = IF req[t].add # 0 THEN Added(cfg[t].passthru, req[t].add)
                          ELSE Removed(cfg[t].passthru, req[t].remove)
    PROVE  /\ new \in Seq(Devices) /\ IsInjective(new)
           /\ ToSet(new) = IF req[t].add # 0 THEN ToSet(cfg[t].passthru) \union {req[t].add}
                           ELSE ToSet(cfg[t].passthru) \ {req[t].remove}
<1>1. cfg[t].passthru \in Seq(Devices)
  BY DEF TypeOK, Options
<1>2. IsInjective(cfg[t].passthru) /\ ~Has(cfg[t].passthru, req[t].add)
  BY DEF NoDuplicates
<1>3. req[t] \in Sets
  BY AskedTypes DEF Requested, SetPCs
<1>4. req[t].add # 0 => req[t].add \in Devices
  BY <1>3 DEF Sets
<1>5. CASE req[t].add # 0
  BY <1>1, <1>2, <1>4, <1>5, AddedList
<1>6. CASE req[t].add = 0
  BY <1>1, <1>2, <1>6, RemovedList
<1> QED
  BY <1>5, <1>6

(* So have the steps of set_vm_options, and no device is twice in a list. *)
LEMMA SetVolumes ==
    ASSUME TypeOK, NoDuplicates, NEW t \in Threads, Requested(t), SetStep(t)
    PROVE  Volumes' /\ \A v \in Vms : IsInjective(options'[v].passthru)
<1>0. Volumes /\ \A v \in Vms : IsInjective(options[v].passthru)
  BY TypeParts DEF NoDuplicates
<1>1. CASE WriteOptions(t)
  <2>1. PICK k \in 0..Len(req[t].writes) :
           options' = [options EXCEPT ![vm[t]] = Written(@, req[t], k)]
    BY <1>1 DEF WriteOptions
  <2>2. vm[t] \in Vms
    BY <1>1, AskedTypes DEF WriteOptions, At
  <2>3. PICK w : w = Written(options[vm[t]], req[t], k)
    OBVIOUS
  <2>4. w \in Options /\ w.passthru = options[vm[t]].passthru
    BY <1>0, <2>2, <2>3, WrittenType DEF Volumes
  <2>5. options' = [options EXCEPT ![vm[t]] = w]
    BY <2>1, <2>3
  <2> QED
    BY <1>0, <1>1, <2>2, <2>4, <2>5 DEF WriteOptions, Volumes, world
<1>2. CASE ReadList(t)
  BY <1>0, <1>2 DEF ReadList, Volumes, volumes, world
<1>3. CASE WriteList(t)
  <2>1. pc[t] = "write_list" /\ vm[t] \in Vms
    BY <1>3, AskedTypes DEF WriteList, At
  <2>2. PICK new : new = IF req[t].add # 0 THEN Added(cfg[t].passthru, req[t].add)
                         ELSE Removed(cfg[t].passthru, req[t].remove)
    OBVIOUS
  <2>3. new \in Seq(Devices) /\ IsInjective(new)
    BY <2>1, <2>2, WriteListIs
  <2>4. \/ options' = [options EXCEPT ![vm[t]].passthru = new]
        \/ UNCHANGED options
    BY <1>3, <2>2 DEF WriteList
  <2>5. options[vm[t]] \in Options
    BY <1>0, <2>1 DEF Volumes
  <2>6. PICK w : w = [options[vm[t]] EXCEPT !.passthru = new]
    OBVIOUS
  <2>7. w \in Options /\ w.passthru = new
    BY <2>3, <2>5, <2>6 DEF Options
  <2>8. options' = [options EXCEPT ![vm[t]] = w] \/ UNCHANGED options
    BY <2>4, <2>6
  <2> QED
    BY <1>0, <1>3, <2>1, <2>3, <2>7, <2>8 DEF WriteList, Volumes, world
<1> QED
  BY <1>1, <1>2, <1>3 DEF SetStep

(* And those of the other commands and of the reapers. *)
LEMMA OtherVolumes ==
    ASSUME TypeOK,
           \/ \E t \in Threads : Begins(t) \/ StartStep(t) \/ StopStep(t)
           \/ \E i \in Instances : ReaperStep(i) \/ ProcStep(i)
           \/ Restart
    PROVE  Volumes'
<1>0. Volumes
  BY TypeParts
<1>1. ASSUME NEW t \in Threads, Begins(t) PROVE Volumes'
  BY <1>0, <1>1, BeginsAre DEF Volumes, volumes, world
<1>2. ASSUME NEW t \in Threads, StartStep(t) PROVE Volumes'
  <2>1. UNCHANGED <<volumes, world>>
    BY <1>2 DEF StartStep, Start, StartTpm, ConfigureTap, Check, Spawn, WritePidFile,
                WriteTpmFile
  <2> QED
    BY <1>0, <2>1 DEF Volumes, volumes, world
<1>3. ASSUME NEW t \in Threads, StopStep(t) PROVE Volumes'
  <2>1. CASE ZfsDestroy(t) \/ DestroySeed(t)
    BY <1>0, <2>1, NoOptionsType DEF ZfsDestroy, DestroySeed, Volumes, world
  <2>2. CASE ~(ZfsDestroy(t) \/ DestroySeed(t))
    <3>1. UNCHANGED <<volumes, world>>
      BY <1>3, <2>2 DEF StopStep, Stop, Waited, WaitTimesOut, KillTpm, RemoveFiles,
                        LookForSeed, RemoveRuntimeDir
    <3> QED
      BY <1>0, <3>1 DEF Volumes, volumes, world
  <2> QED
    BY <2>1, <2>2
<1>4. ASSUME NEW i \in Instances, ReaperStep(i) \/ ProcStep(i) PROVE Volumes'
  <2>1. CASE ReapSeed(i)
    BY <1>0, <2>1 DEF ReapSeed, ReaperAt, Volumes, world
  <2>2. CASE ~ReapSeed(i)
    <3>1. UNCHANGED <<volumes, world>>
      BY <1>4, <2>2 DEF ReaperStep, ProcStep, Reap, ReapTpm, ReapSocket, ReapPidFile,
                        ReapTpmFile, ReaperAt, BindSocket, Boot, Exit, InitReaps
    <3> QED
      BY <1>0, <3>1 DEF Volumes, volumes, world
  <2> QED
    BY <2>1, <2>2
<1>5. CASE Restart
  <2>1. scenario \in Scenarios /\ scenario.restarts \in Nat
    BY <1>0, StorageAssumption DEF Volumes
  <2> QED
    BY <1>0, <1>5, <2>1 DEF Restart, Volumes, volumes
<1> QED
  BY <1>1, <1>2, <1>3, <1>4, <1>5

(* The scenario is fixed; only Restart counts. *)
LEMMA WorldStays ==
    ASSUME TypeOK,
           \/ \E t \in Threads : ThreadStep(t) \/ Begins(t)
           \/ \E i \in Instances : ReaperStep(i) \/ ProcStep(i)
    PROVE  UNCHANGED world
<1>1. ASSUME NEW t \in Threads, CreateStep(t) PROVE UNCHANGED world
  BY <1>1 DEF CreateStep, CreateDisk, WriteMetadata, LookForImage, Fetch, FetchEnds, Convert,
              CreateSeed, FormatSeed, MountSeed, FillSeed, UnmountSeed
<1>2. ASSUME NEW t \in Threads, SetStep(t) \/ StartStep(t) PROVE UNCHANGED world
  BY <1>2 DEF SetStep, WriteOptions, ReadList, WriteList, StartStep, Start, StartTpm,
              ConfigureTap, Check, Spawn, WritePidFile, WriteTpmFile
<1>3. ASSUME NEW t \in Threads, StopStep(t) PROVE UNCHANGED world
  BY <1>3 DEF StopStep, Stop, Waited, WaitTimesOut, KillTpm, RemoveFiles, ZfsDestroy,
              LookForSeed, DestroySeed, RemoveRuntimeDir
<1>4. ASSUME NEW t \in Threads, Begins(t) PROVE UNCHANGED world
  BY <1>4, BeginsAre
<1>5. ASSUME NEW i \in Instances, ReaperStep(i) \/ ProcStep(i) PROVE UNCHANGED world
  BY <1>5 DEF ReaperStep, ProcStep, Reap, ReapTpm, ReapSocket, ReapPidFile, ReapTpmFile,
              ReapSeed, ReaperAt, BindSocket, Boot, Exit, InitReaps
<1> QED
  BY <1>1, <1>2, <1>3, <1>4, <1>5 DEF ThreadStep

(* The step of a thread is its own. *)
LEMMA ThreadIsLocal ==
    ASSUME TypeOK, NEW t \in Threads, Requested(t), ThreadStep(t) \/ Begins(t)
    PROVE  LocalStep(t) /\ Requested(t)'
<1>1. UNCHANGED scenario
  BY WorldStays DEF world
<1> QED
  BY <1>1, CreateIsLocal, SetIsLocal, StartIsLocal, StopIsLocal, BeginsIsLocal, RequestedStep
     DEF ThreadStep

(* The processes and the reapers take no part in what the threads do. *)
LEMMA AsideIsNobody ==
    ASSUME TypeOK, NEW i \in Instances, ReaperStep(i) \/ ProcStep(i)
    PROVE  UNCHANGED <<pc, locals>>
  BY DEF ReaperStep, ProcStep, Reap, ReapTpm, ReapSocket, ReapPidFile, ReapTpmFile, ReapSeed,
         ReaperAt, BindSocket, Boot, Exit, InitReaps

(* Types, requests and lists are kept by every step. *)
LEMMA TypesKept ==
    ASSUME TypeOK, NoDuplicates, ProcInv, \A t \in Threads : Requested(t),
           \/ \E t \in Threads : ThreadStep(t) \/ Begins(t)
           \/ \E i \in Instances : ReaperStep(i) \/ ProcStep(i)
           \/ Restart
    PROVE  TypeOK' /\ \A t \in Threads : Requested(t)'
<1>1. Procs'
  BY ProcsKept DEF ProcInv
<1>2. Volumes'
  BY CreateVolumes, SetVolumes, OtherVolumes DEF ThreadStep
<1>3. /\ Locals' /\ \A t \in Threads : pc'[t] # "idle" <=> vm'[t] \in Vms
      /\ \A t \in Threads : Requested(t)'
  <2>0. Locals /\ \A t \in Threads : pc[t] # "idle" <=> vm[t] \in Vms
    BY TypeParts
  <2>1. ASSUME NEW t \in Threads, ThreadStep(t) \/ Begins(t)
        PROVE  /\ Locals' /\ \A s \in Threads : pc'[s] # "idle" <=> vm'[s] \in Vms
               /\ \A s \in Threads : Requested(s)'
    <3>1. LocalStep(t) /\ Requested(t)' /\ scenario' = scenario
      BY <2>1, ThreadIsLocal, WorldStays DEF world
    <3>2. ASSUME NEW s \in Threads \ {t} PROVE Requested(s)'
      <4>1. Requested(s)
        OBVIOUS
      <4>2. pc'[s] = pc[s] /\ vm'[s] = vm[s] /\ req'[s] = req[s]
        BY <3>1 DEF LocalStep
      <4> QED
        BY <3>1, <4>1, <4>2 DEF Requested
    <3>3. Locals' /\ \A s \in Threads : pc'[s] # "idle" <=> vm'[s] \in Vms
      BY <2>0, <3>1 DEF LocalStep
    <3> QED
      BY <3>1, <3>2, <3>3
  <2>2. ASSUME NEW i \in Instances, ReaperStep(i) \/ ProcStep(i)
        PROVE  /\ Locals' /\ \A s \in Threads : pc'[s] # "idle" <=> vm'[s] \in Vms
               /\ \A s \in Threads : Requested(s)'
    <3>1. UNCHANGED <<pc, locals>> /\ scenario' = scenario
      BY <2>2, AsideIsNobody, WorldStays DEF world
    <3> QED
      BY <2>0, <3>1 DEF locals, Locals, Requested
  <2>3. CASE Restart
    BY <2>0, <2>3, NoOptionsType, StorageAssumption DEF Restart, Locals, PCs, Requested
  <2> QED
    BY <2>1, <2>2, <2>3
<1>4. TypeOK'
  BY <1>1, <1>2, <1>3 DEF TypeOK, Volumes, Procs, Locals
<1> QED
  BY <1>3, <1>4

(* The options of a VM are changed by these calls and no others. *)
LEMMA OptionsStay ==
    ASSUME TypeOK, NEW t \in Threads, ThreadStep(t) \/ Begins(t),
           ~WriteMetadata(t), ~WriteOptions(t), ~WriteList(t), ~ZfsDestroy(t)
    PROVE  options' = options
<1>1. CASE Begins(t)
  BY <1>1, BeginsAre DEF volumes
<1>2. CASE CreateStep(t)
  BY <1>2 DEF CreateStep, CreateDisk, LookForImage, Fetch, FetchEnds, Convert,
     CreateSeed, FormatSeed, MountSeed, FillSeed, UnmountSeed, volumes
<1>3. CASE SetStep(t)
  BY <1>3 DEF SetStep, ReadList, volumes
<1>4. CASE StartStep(t)
  BY <1>4 DEF StartStep, Start, StartTpm, ConfigureTap, Check, Spawn, WritePidFile,
              WriteTpmFile, volumes
<1>5. CASE StopStep(t)
  BY <1>5 DEF StopStep, Stop, Waited, WaitTimesOut, KillTpm, RemoveFiles,
              LookForSeed, DestroySeed, RemoveRuntimeDir, volumes
<1> QED
  BY <1>1, <1>2, <1>3, <1>4, <1>5 DEF ThreadStep

(* A thread's copy of the options is what it was, empty, or what it has just read. *)
LEMMA CopyIs ==
    ASSUME TypeOK, NEW t \in Threads, ThreadStep(t) \/ Begins(t)
    PROVE  cfg'[t] = cfg[t] \/ cfg'[t] = NoOptions \/ (vm[t] \in Vms /\ cfg'[t] = options[vm[t]])
<1>0. cfg \in [Threads -> Options] /\ (pc[t] # "idle" => vm[t] \in Vms)
  BY DEF TypeOK
<1> USE <1>0 DEF Return, At, locals
<1>1. CASE Begins(t)
  BY <1>1, BeginsAre
<1>2. CASE CreateStep(t)
  BY <1>2 DEF CreateStep, CreateDisk, WriteMetadata, LookForImage, Fetch, FetchEnds,
              Convert, CreateSeed, FormatSeed, MountSeed, FillSeed, UnmountSeed
<1>3. CASE SetStep(t)
  BY <1>3 DEF SetStep, WriteOptions, ReadList, WriteList
<1>4. CASE StartStep(t)
  BY <1>4 DEF StartStep, Start, StartTpm, ConfigureTap, Check, Spawn, WritePidFile,
              WriteTpmFile, UndoTpm
<1>5. CASE StopStep(t)
  BY <1>5 DEF StopStep, Stop, Waited, WaitTimesOut, KillTpm, RemoveFiles, ZfsDestroy,
              LookForSeed, DestroySeed, RemoveRuntimeDir
<1> QED
  BY <1>1, <1>2, <1>3, <1>4, <1>5 DEF ThreadStep

(* No device comes into a list twice. *)
LEMMA ListsKept ==
    ASSUME TypeOK, NoDuplicates, \A t \in Threads : Requested(t),
           \/ \E t \in Threads : ThreadStep(t) \/ Begins(t)
           \/ \E i \in Instances : ReaperStep(i) \/ ProcStep(i)
           \/ Restart
    PROVE  NoDuplicates'
<1>0. IsInjective(NoOptions.passthru) /\ ~Has(NoOptions.passthru, 0)
  BY DEF NoOptions, IsInjective, Has, ToSet
<1>1. Locals /\ \A t \in Threads : pc[t] # "idle" <=> vm[t] \in Vms
  BY TypeParts
<1>2. \A v \in Vms : IsInjective(options[v].passthru)
  BY DEF NoDuplicates
<1>3. ASSUME NEW t \in Threads, ThreadStep(t) \/ Begins(t) PROVE NoDuplicates'
  <2>1. LocalStep(t)
    BY <1>3, ThreadIsLocal
  <2>2. \A v \in Vms : IsInjective(options'[v].passthru)
    <3>1. CASE SetStep(t)
      BY <3>1, SetVolumes
    <3>2. CASE WriteMetadata(t)
      <4>1. IsInjective(Created(req[t]).passthru)
        BY DEF Created, IsInjective
      <4>2. options' = [options EXCEPT ![vm[t]] = Created(req[t])] \/ options' = options
        BY <3>2 DEF WriteMetadata
      <4>3. options \in [Vms -> Options]
        BY DEF TypeOK
      <4> QED
        BY <1>2, <4>1, <4>2, <4>3
    <3>3. CASE ZfsDestroy(t)
      <4>1. options' = [options EXCEPT ![vm[t]] = NoOptions] \/ options' = options
        BY <3>3 DEF ZfsDestroy
      <4>2. options \in [Vms -> Options]
        BY DEF TypeOK
      <4> QED
        BY <1>0, <1>2, <4>1, <4>2
    <3>4. CASE ~(SetStep(t) \/ WriteMetadata(t) \/ ZfsDestroy(t))
      <4>1. options' = options
        BY <1>3, <3>4, OptionsStay DEF SetStep
      <4> QED
        BY <1>2, <4>1
    <3> QED
      BY <3>1, <3>2, <3>3, <3>4
  <2>3. IsInjective(cfg'[t].passthru) /\ (pc'[t] = "write_list" => ~Has(cfg'[t].passthru, req'[t].add))
    <3>1. CASE ReadList(t)
      <4>1. CASE Return(t)
        BY <1>0, <1>1, <4>1 DEF Return, Goto, Locals
      <4>2. CASE ~Return(t)
        <5>1. /\ ~Has(options[vm[t]].passthru, req[t].add) /\ pc[t] = "read_list"
              /\ cfg' = [cfg EXCEPT ![t] = options[vm[t]]] /\ req' = req
          BY <3>1, <4>2 DEF ReadList, At
        <5>2. vm[t] \in Vms /\ cfg'[t] = options[vm[t]]
          BY <1>1, <5>1 DEF Locals
        <5> QED
          BY <1>2, <5>1, <5>2
      <4> QED
        BY <4>1, <4>2
    <3>2. CASE ~ReadList(t)
      <4>1. pc'[t] # "write_list"
        <5>0. pc \in [Threads -> PCs]
          BY <1>1 DEF Locals
        <5> USE <5>0 DEF Goto, Return, At
        <5>1. CASE Begins(t)
          BY <5>1, BeginsAre
        <5>2. CASE CreateStep(t)
          BY <5>2 DEF CreateStep, CreateDisk, WriteMetadata, LookForImage, Fetch, FetchEnds,
                      Convert, CreateSeed, FormatSeed, MountSeed, FillSeed, UnmountSeed
        <5>3. CASE SetStep(t)
          BY <3>2, <5>3 DEF SetStep, WriteOptions, WriteList
        <5>4. CASE StartStep(t)
          BY <5>4 DEF StartStep, Start, StartTpm, ConfigureTap, Check, Spawn, WritePidFile,
                      WriteTpmFile, UndoTpm
        <5>5. CASE StopStep(t)
          BY <5>5 DEF StopStep, Stop, Waited, WaitTimesOut, KillTpm, RemoveFiles, ZfsDestroy,
                      LookForSeed, DestroySeed, RemoveRuntimeDir
        <5> QED
          BY <1>3, <5>1, <5>2, <5>3, <5>4, <5>5 DEF ThreadStep
      <4>2. cfg'[t] = cfg[t] \/ cfg'[t] = NoOptions \/ (vm[t] \in Vms /\ cfg'[t] = options[vm[t]])
        BY <1>3, CopyIs
      <4> QED
        BY <1>0, <1>2, <4>1, <4>2 DEF NoDuplicates
    <3> QED
      BY <3>1, <3>2
  <2> QED
    BY <2>1, <2>2, <2>3 DEF NoDuplicates, LocalStep
<1>4. ASSUME NEW i \in Instances, ReaperStep(i) \/ ProcStep(i) PROVE NoDuplicates'
  <2>1. UNCHANGED <<pc, locals, options>>
    BY <1>4, AsideIsNobody
       DEF ReaperStep, ProcStep, Reap, ReapTpm, ReapSocket, ReapPidFile, ReapTpmFile, ReapSeed,
           ReaperAt, BindSocket, Boot, Exit, InitReaps, volumes
  <2> QED
    BY <2>1 DEF NoDuplicates, locals
<1>5. CASE Restart
  BY <1>0, <1>2, <1>5 DEF Restart, NoDuplicates, volumes
<1> QED
  BY <1>3, <1>4, <1>5

-----------------------------------------------------------------------------
(* What stays behind. *)

(* Somebody starts an instance, and has yet to write down its emulator. *)
Held(i) == \E t \in Threads : pc[t] \in HoldPCs /\ inst[t] = i
(* A start has written the pid file of i, and not yet given i to a reaper. *)
Writing(i) == \E t \in Threads : pc[t] = "write_tpm" /\ inst[t] = i

(* An instance has its start or its reaper. *)
Cared(i) == reaper[i] # "init" /\ (vmOf[i] \in Vms /\ reaper[i] = "none" => Held(i))
(* Who has named i in a bhyve.pid, or waits for i, removes the file. *)
PidCared(v, i) == pidfile[v] = i => /\ vmOf[i] = v
                                    /\ reaper[i] \in {"wait", "tpm", "socket", "rm_pid"} \/ Writing(i)
(* The reaper of i removes the tpm.pid that names it. *)
TpmCared(v, i) == tpmfile[v] = i => /\ vmOf[i] = v
                                    /\ reaper[i] \in {"wait", "tpm", "socket", "rm_pid", "rm_tpm"}
(* A socket has its emulator, or the reaper that removes it. *)
SocketCared(v, i) == socket[v] = i => vmOf[i] = v /\ (swtpm[i] # "free" \/ reaper[i] = "socket")
(* All that is left of i has somebody to remove it. *)
InCare(i) == Cared(i) /\ \A v \in Vms : PidCared(v, i) /\ TpmCared(v, i) /\ SocketCared(v, i)
(* No VM has a CD, and no copy of the options has one. *)
NoCd == (\A v \in Vms : ~options[v].iso) /\ (\A t \in Threads : ~cfg[t].iso)

(* NoLeaks instance by instance. *)
LEMMA NoLeaksParts ==
    ASSUME Procs, 0 \notin Instances
    PROVE  NoLeaks <=> (NothingLeaks => /\ \A i \in Instances : InCare(i)
                                        /\ Clouds => NoCd)
<1>1. \A v \in Vms : /\ pidfile[v] \in Instances \union {0} /\ tpmfile[v] \in Instances \union {0}
                     /\ socket[v] \in Instances \union {0}
  BY DEF Procs
<1>2. ASSUME NoLeaks, NothingLeaks
      PROVE  (\A i \in Instances : InCare(i)) /\ (Clouds => NoCd)
  BY <1>2 DEF NoLeaks, InCare, Cared, PidCared, TpmCared, SocketCared, NoCd, Held, Writing
<1>3. ASSUME NothingLeaks, \A i \in Instances : InCare(i), Clouds => NoCd
      PROVE  NoLeaks
  <2>1. \A i \in Instances : Cared(i)
    BY <1>3 DEF InCare
  <2>2. \A v \in Vms, i \in Instances : PidCared(v, i) /\ TpmCared(v, i) /\ SocketCared(v, i)
    BY <1>3 DEF InCare
  <2> QED
    BY <1>1, <1>3, <2>1, <2>2
       DEF NoLeaks, Cared, PidCared, TpmCared, SocketCared, NoCd, Held, Writing
<1> QED
  BY <1>2, <1>3 DEF NoLeaks

(* A thread's step does not concern the starts of the others. *)
LEMMA HoldersStay ==
    ASSUME NEW t \in Threads, LocalStep(t), NEW i,
           pc[t] \in HoldPCs => inst[t] # i
    PROVE  (Held(i) => Held(i)') /\ (Writing(i) => Writing(i)')
<1>1. "write_tpm" \in HoldPCs
  BY DEF HoldPCs, StartPCs
<1> QED
  BY <1>1 DEF Held, Writing, LocalStep

(* A quiet step leaves every instance in the care that it was in. *)
LEMMA QuietCare ==
    ASSUME NEW t \in Threads, LocalStep(t), Quiet(t), NEW i \in Instances, InCare(i)
    PROVE  InCare(i)'
<1>1. (Held(i) => Held(i)') /\ (Writing(i) => Writing(i)')
  BY HoldersStay DEF Quiet
<1> QED
  BY <1>1 DEF Quiet, procs, files, InCare, Cared, PidCared, TpmCared, SocketCared

(* So does the step of a start, for all instances but its own. *)
LEMMA OwnCare ==
    ASSUME ProcInv, 0 \notin Instances, NEW t \in Threads, OwnStep(t),
           NEW i \in Instances, i # inst[t], InCare(i)
    PROVE  InCare(i)'
<1>1. (Held(i) => Held(i)') /\ (Writing(i) => Writing(i)')
  BY HoldersStay DEF OwnStep
<1>2. /\ bhyve'[i] = bhyve[i] /\ swtpm'[i] = swtpm[i] /\ vmOf'[i] = vmOf[i]
      /\ reaper'[i] = reaper[i] /\ i # 0
  BY DEF OwnStep
<1>3. \A v \in Vms : /\ pidfile'[v] = i => pidfile[v] = i
                     /\ tpmfile'[v] = i => tpmfile[v] = i
                     /\ socket'[v] = i => socket[v] = i
  BY <1>2 DEF OwnStep
<1> QED
  BY <1>1, <1>2, <1>3 DEF InCare, Cared, PidCared, TpmCared, SocketCared

(* And what an instance or its reaper does, for all other instances. *)
LEMMA AsideCare ==
    ASSUME NEW j \in Instances, Aside(j), NEW i \in Instances, i # j, 0 \notin Instances, InCare(i)
    PROVE  InCare(i)'
<1>1. (Held(i) => Held(i)') /\ (Writing(i) => Writing(i)')
  BY DEF Aside, locals, Held, Writing
<1>2. /\ swtpm'[i] = swtpm[i] /\ vmOf'[i] = vmOf[i] /\ reaper'[i] = reaper[i]
  BY DEF Aside
<1>3. \A v \in Vms : /\ pidfile'[v] = i => pidfile[v] = i
                     /\ tpmfile'[v] = i => tpmfile[v] = i
                     /\ socket'[v] = i => socket[v] = i
  BY DEF Aside
<1> QED
  BY <1>1, <1>2, <1>3 DEF InCare, Cared, PidCared, TpmCared, SocketCared

(* The calls of a start that has its instance. *)
OwnCalls(t) == StartTpm(t) \/ ConfigureTap(t) \/ Check(t) \/ Spawn(t) \/ WritePidFile(t)
               \/ WriteTpmFile(t)

(* They change no other. *)
LEMMA OwnCallsAre ==
    ASSUME TypeOK, ProcInv, NEW t \in Threads, LocalStep(t), OwnCalls(t)
    PROVE  OwnStep(t)
<1>1. pc[t] \in HoldPCs
  BY DEF OwnCalls, StartTpm, ConfigureTap, Check, Spawn, WritePidFile, WriteTpmFile, At, HoldPCs,
         StartPCs
<1>2. /\ Procs /\ vm[t] \in Vms /\ inst \in [Threads -> Instances \union {0}]
      /\ inst[t] \in Instances
  BY <1>1, OwnFacts, HeldInstance
<1>3. CASE StartTpm(t)
  BY <1>1, <1>2, <1>3 DEF OwnStep, StartTpm, Return, Procs, locals
<1>4. CASE ConfigureTap(t)
  BY <1>1, <1>2, <1>4 DEF OwnStep, ConfigureTap, UndoTpm, Return, Procs, locals
<1>5. CASE Check(t)
  BY <1>1, <1>2, <1>5 DEF OwnStep, Check, Return, procs, files, locals
<1>6. CASE Spawn(t)
  BY <1>1, <1>2, <1>6 DEF OwnStep, Spawn, UndoTpm, Return, Procs, locals
<1>7. CASE WritePidFile(t)
  BY <1>1, <1>2, <1>7 DEF OwnStep, WritePidFile, Return, Procs, procs, locals
<1>8. CASE WriteTpmFile(t)
  BY <1>1, <1>2, <1>8 DEF OwnStep, WriteTpmFile, Return, Procs
<1> QED
  BY <1>3, <1>4, <1>5, <1>6, <1>7, <1>8 DEF OwnCalls

(* A start that gives up after the emulator takes it along. *)
LEMMA UndoCare ==
    ASSUME TypeOK, ProcInv, NEW t \in Threads, LocalStep(t), pc[t] \in {"tap", "spawn"},
           UndoTpm(t), UNCHANGED <<bhyve, seeded, reaper, pidfile, tpmfile>>,
           NEW k, k = inst[t], InCare(k)
    PROVE  InCare(k)'
<1>1. pc[t] \in HoldPCs
  BY DEF HoldPCs, StartPCs
<1>2. /\ Procs /\ vm[t] \in Vms /\ 0 \notin Vms /\ k \in Instances /\ reaper[k] = "none"
      /\ inst \in [Threads -> Instances \union {0}]
      /\ (cfg[t].tpm <=> swtpm[k] # "free")
      /\ \A s \in Threads \ {t} : pc[s] \in HoldPCs => inst[s] # k
      /\ \A v \in Vms \ {vm[t]} : k \notin Referred(v)
  BY <1>1, OwnFacts, HeldInstance
<1>3. ~Writing(k)
  BY <1>2 DEF Writing, HoldPCs, StartPCs
<1>4. \A v \in Vms : pidfile[v] # k /\ tpmfile[v] # k
  BY <1>2, <1>3 DEF InCare, PidCared, TpmCared
<1>5. \A v \in Vms : socket'[v] # k
  <2> SUFFICES ASSUME NEW v \in Vms, socket'[v] = k
               PROVE  FALSE
    OBVIOUS
  <2>1. socket' = [socket EXCEPT ![vm[t]] = IF cfg[t].tpm THEN 0 ELSE @]
    BY DEF UndoTpm
  <2>2. socket[v] = k /\ v = vm[t]
    BY <1>2, <2>1, OwnFacts, <1>1 DEF Procs, Referred
  <2>3. ~cfg[t].tpm
    BY <1>1, <1>2, <2>1, <2>2, OwnFacts DEF Procs
  <2> QED
    BY <1>2, <2>2, <2>3 DEF InCare, SocketCared
<1>6. vmOf'[k] = 0 /\ reaper'[k] = "none"
  BY <1>2 DEF UndoTpm, Procs
<1> QED
  BY <1>2, <1>4, <1>5, <1>6 DEF InCare, Cared, PidCared, TpmCared, SocketCared

(* Each call of a start keeps its instance in its own care, until the reaper takes over. *)
LEMMA OwnCallsCare ==
    ASSUME TypeOK, ProcInv, NothingLeaks, Clouds => NoCd,
           NEW t \in Threads, Requested(t), LocalStep(t), OwnCalls(t), NEW k, k = inst[t],
           InCare(k)
    PROVE  InCare(k)'
<1>0. /\ pc[t] \in HoldPCs /\ Procs /\ vm[t] \in Vms /\ 0 \notin Vms /\ 0 \notin Instances
      /\ k \in Instances /\ reaper[k] = "none" /\ vmOf[k] \in {0, vm[t]}
      /\ inst \in [Threads -> Instances \union {0}] /\ pc \in [Threads -> PCs]
      /\ pc[t] = "tpm" => vmOf[k] = 0
      /\ pc[t] # "tpm" => (cfg[t].tpm <=> swtpm[k] # "free")
      /\ pc[t] \in {"write_pid", "write_tpm"} => bhyve[k] # "free"
      /\ \A v \in Vms \ {vm[t]} : k \notin Referred(v)
      /\ \A s \in Threads \ {t} : pc[s] \in HoldPCs => inst[s] # k
  <2>1. pc[t] \in HoldPCs
    BY DEF OwnCalls, StartTpm, ConfigureTap, Check, Spawn, WritePidFile, WriteTpmFile, At, HoldPCs,
           StartPCs
  <2> QED
    BY <2>1, OwnFacts, HeldInstance
<1>1. /\ Cared(k)
      /\ \A v \in Vms : PidCared(v, k) /\ TpmCared(v, k) /\ SocketCared(v, k)
  BY DEF InCare
<1>2. CASE StartTpm(t)
  <2>1. \A v \in Vms : k \notin {pidfile[v], tpmfile[v], socket[v]}
    <3>1. vmOf[k] = 0
      BY <1>0, <1>2 DEF StartTpm, At
    <3> QED
      BY <1>0, <1>1, <3>1 DEF PidCared, TpmCared, SocketCared
  <2>2. \A v \in Vms : k \notin {pidfile'[v], tpmfile'[v], socket'[v]}
    BY <1>0, <1>2, <2>1 DEF StartTpm, Procs
  <2>3. reaper'[k] = "none"
    BY <1>0, <1>2 DEF StartTpm
  <2>4. vmOf'[k] \in Vms => pc'[t] \in HoldPCs /\ inst'[t] = k
    <3>1. CASE TpmActive(vm[t])
      BY <1>0, <1>2, <3>1 DEF StartTpm, At
    <3>2. CASE ~TpmActive(vm[t])
      BY <1>0, <1>2, <3>2 DEF StartTpm, Goto, HoldPCs, StartPCs, locals
    <3> QED
      BY <3>1, <3>2
  <2> QED
    BY <2>2, <2>3, <2>4 DEF InCare, Cared, PidCared, TpmCared, SocketCared, Held
<1>3. CASE UNCHANGED <<procs, files, locals>> /\ pc'[t] \in HoldPCs /\ pc[t] # "write_tpm"
  <2>1. Held(k)' /\ ~Writing(k)
    BY <1>0, <1>3 DEF Held, Writing, locals, HoldPCs, StartPCs
  <2> QED
    BY <1>1, <1>3, <2>1 DEF InCare, Cared, PidCared, TpmCared, SocketCared, procs, files
<1>4. CASE ConfigureTap(t)
  <2>1. CASE UndoTpm(t)
    BY <1>4, <2>1, UndoCare DEF ConfigureTap, At
  <2>2. CASE Goto(t, "check") /\ UNCHANGED <<swtpm, vmOf, socket, locals>>
    <3>1. UNCHANGED <<procs, files, locals>> /\ pc'[t] \in HoldPCs /\ pc[t] = "tap"
      BY <1>0, <1>4, <2>2 DEF ConfigureTap, At, Goto, procs, files, HoldPCs, StartPCs
    <3> QED
      BY <1>3, <3>1
  <2> QED
    BY <1>4, <2>1, <2>2 DEF ConfigureTap
<1>5. CASE Check(t)
  <2>1. ~May("check")
    BY DEF NothingLeaks
  <2>2. ~(UsesSeed(t) /\ cfg[t].iso)
    <3> SUFFICES ASSUME UsesSeed(t), cfg[t].iso
                 PROVE  FALSE
      OBVIOUS
    <3>1. Clouds
      BY <1>0, AskedTypes DEF UsesSeed, Clouds, HoldPCs, StartPCs
    <3> QED
      BY <3>1 DEF NoCd
  <2>3. UNCHANGED <<procs, files, locals>> /\ pc'[t] \in HoldPCs /\ pc[t] = "check"
    BY <1>0, <1>5, <2>1, <2>2 DEF Check, At, Goto, HoldPCs, StartPCs
  <2> QED
    BY <1>3, <2>3
<1>6. CASE Spawn(t)
  <2>1. CASE UndoTpm(t) /\ UNCHANGED <<bhyve, seeded>>
    BY <1>6, <2>1, UndoCare DEF Spawn, At
  <2>2. CASE ~(UndoTpm(t) /\ UNCHANGED <<bhyve, seeded>>)
    <3>1. /\ vmOf' = [vmOf EXCEPT ![k] = vm[t]] /\ pc' = [pc EXCEPT ![t] = "write_pid"]
          /\ UNCHANGED <<swtpm, socket, locals, reaper, pidfile, tpmfile>> /\ pc[t] = "spawn"
      BY <1>6, <2>2 DEF Spawn, Goto, At
    <3>2. Held(k)' /\ ~Writing(k)
      BY <1>0, <3>1 DEF Held, Writing, locals, HoldPCs, StartPCs
    <3>3. vmOf'[k] = vm[t]
      BY <1>0, <3>1 DEF Procs
    <3> QED
      BY <1>0, <1>1, <3>1, <3>2, <3>3 DEF InCare, Cared, PidCared, TpmCared, SocketCared
  <2> QED
    BY <2>1, <2>2
<1>7. CASE WritePidFile(t)
  <2>1. ~May("pidfile")
    BY DEF NothingLeaks
  <2>2. /\ pidfile' = [pidfile EXCEPT ![vm[t]] = k] /\ pc' = [pc EXCEPT ![t] = "write_tpm"]
        /\ UNCHANGED <<locals, procs, tpmfile, socket>> /\ pc[t] = "write_pid"
    BY <1>7, <2>1 DEF WritePidFile, Goto, At
  <2>3. Held(k)' /\ Writing(k)'
    BY <1>0, <2>2 DEF Held, Writing, locals, HoldPCs, StartPCs
  <2>4. vmOf[k] = vm[t]
    BY <1>0, <2>2 DEF Procs, Live
  <2>5. \A v \in Vms : pidfile'[v] = k => v = vm[t]
    BY <1>0, <2>2 DEF Procs, Referred
  <2> QED
    BY <1>0, <1>1, <2>2, <2>3, <2>4, <2>5
       DEF InCare, Cared, PidCared, TpmCared, SocketCared, procs
<1>8. CASE WriteTpmFile(t)
  <2>1. ~May("tpmfile")
    BY DEF NothingLeaks
  <2>2. /\ tpmfile' = [tpmfile EXCEPT ![vm[t]] = IF cfg[t].tpm THEN k ELSE @]
        /\ reaper' = [reaper EXCEPT ![k] = "wait"]
        /\ UNCHANGED <<swtpm, vmOf, pidfile, socket>> /\ pc[t] = "write_tpm"
    BY <1>8, <2>1 DEF WriteTpmFile, At
  <2>3. reaper'[k] = "wait"
    BY <1>0, <2>2 DEF Procs
  <2>4. vmOf[k] = vm[t]
    BY <1>0, <2>2 DEF Procs, Live
  <2>5. \A v \in Vms : tpmfile'[v] = k => v = vm[t]
    BY <1>0, <2>2 DEF Procs, Referred
  <2> QED
    BY <1>0, <1>1, <2>2, <2>3, <2>4, <2>5
       DEF InCare, Cared, PidCared, TpmCared, SocketCared
<1> QED
  BY <1>2, <1>4, <1>5, <1>6, <1>7, <1>8 DEF OwnCalls

(* Neither a stop nor the beginning of a start takes an instance out of its care. *)
LEMMA StopCare ==
    ASSUME TypeOK, ProcInv, NEW t \in Threads, LocalStep(t),
           Start(t) \/ KillTpm(t) \/ RemoveFiles(t) \/ RemoveRuntimeDir(t),
           NEW i \in Instances, InCare(i)
    PROVE  InCare(i)'
<1>0. Procs /\ vm[t] \in Vms /\ i # 0
  BY StorageAssumption, LocalFacts
     DEF ProcInv, Locals, Start, KillTpm, RemoveFiles, RemoveRuntimeDir, At
<1>1. pc[t] \notin HoldPCs
  BY DEF Start, KillTpm, RemoveFiles, RemoveRuntimeDir, At, HoldPCs, StartPCs
<1>2. (Held(i) => Held(i)') /\ (Writing(i) => Writing(i)')
  BY <1>1, HoldersStay
<1>3. /\ vmOf'[i] = vmOf[i] /\ reaper'[i] = reaper[i]
      /\ swtpm'[i] = "free" <=> swtpm[i] = "free"
      /\ \A v \in Vms : /\ pidfile'[v] = i => pidfile[v] = i
                        /\ tpmfile'[v] = i => tpmfile[v] = i
                        /\ socket'[v] = socket[v]
  BY <1>0 DEF Start, KillTpm, RemoveFiles, RemoveRuntimeDir, Procs, procs, files
<1> QED
  BY <1>2, <1>3 DEF InCare, Cared, PidCared, TpmCared, SocketCared

(* Nor do the processes, and a reaper removes what names its instance before it ends. *)
LEMMA ReaperCare ==
    ASSUME TypeOK, ProcInv, NEW i \in Instances, ReaperStep(i) \/ ProcStep(i), InCare(i)
    PROVE  InCare(i)'
<1>0. /\ Procs /\ Reaping(i) /\ i # 0 /\ 0 \notin Vms /\ vmOf[i] \in Vms
      /\ Cared(i) /\ reaper[i] # "init"
      /\ \A v \in Vms : PidCared(v, i) /\ TpmCared(v, i) /\ SocketCared(v, i)
  BY StorageAssumption, AsideSteps DEF ProcInv, Aside, InCare, Cared
<1>1. (Held(i) => Held(i)') /\ (Writing(i) <=> Writing(i)')
  BY AsideSteps DEF Aside, locals, Held, Writing
<1>2. reaper[i] \notin {"none", "wait", "tpm", "socket", "rm_pid"} => \A v \in Vms : pidfile[v] # i
  <2>1. reaper[i] # "none" => ~Writing(i)
    BY HeldInstance DEF Writing, HoldPCs, StartPCs
  <2> QED
    BY <1>0, <2>1 DEF PidCared
<1>3. CASE Reap(i)
  BY <1>0, <1>1, <1>3 DEF Reap, ReaperAt, InCare, Cared, PidCared, TpmCared, SocketCared, Procs,
                          files
<1>4. CASE ReapTpm(i)
  BY <1>0, <1>1, <1>4 DEF ReapTpm, ReaperAt, InCare, Cared, PidCared, TpmCared, SocketCared,
                          Procs, files
<1>5. CASE ReapSocket(i)
  <2>1. swtpm[i] = "free" /\ reaper'[i] = "rm_pid"
    BY <1>0, <1>5 DEF ReapSocket, ReaperAt, Reaping, Procs
  <2>2. \A v \in Vms : socket'[v] # i
    BY <1>0, <1>5 DEF ReapSocket, Procs, SocketCared
  <2> QED
    BY <1>0, <1>1, <1>5, <2>1, <2>2
       DEF ReapSocket, InCare, Cared, PidCared, TpmCared, SocketCared
<1>6. CASE ReapPidFile(i)
  <2>1. reaper[i] = "rm_pid" /\ reaper'[i] = "rm_tpm"
    BY <1>0, <1>6 DEF ReapPidFile, ReaperAt, Procs
  <2>2. \A v \in Vms : pidfile'[v] # i
    BY <1>0, <1>6 DEF ReapPidFile, Procs, PidCared
  <2> QED
    BY <1>0, <1>1, <1>6, <2>1, <2>2
       DEF ReapPidFile, InCare, Cared, PidCared, TpmCared, SocketCared
<1>7. CASE ReapTpmFile(i)
  <2>1. reaper[i] = "rm_tpm" /\ reaper'[i] \in {"none", "seed"} /\ swtpm[i] = "free"
    BY <1>0, <1>7 DEF ReapTpmFile, ReaperAt, Reaping, Procs
  <2>2. \A v \in Vms : tpmfile'[v] # i
    BY <1>0, <1>7 DEF ReapTpmFile, Procs, TpmCared
  <2>3. \A v \in Vms : pidfile'[v] # i /\ socket'[v] # i
    BY <1>0, <1>2, <1>7, <2>1 DEF ReapTpmFile, SocketCared
  <2>4. reaper'[i] = "none" => vmOf'[i] = 0
    BY <1>0, <1>7 DEF ReapTpmFile, ReaperAt, Gone, Procs
  <2> QED
    BY <1>0, <2>1, <2>2, <2>3, <2>4 DEF InCare, Cared, PidCared, TpmCared, SocketCared
<1>8. CASE ReapSeed(i)
  <2>1. reaper[i] = "seed" /\ reaper'[i] = "none" /\ swtpm[i] = "free"
    BY <1>0, <1>8 DEF ReapSeed, ReaperAt, Reaping, Procs
  <2>2. \A v \in Vms : pidfile'[v] # i /\ socket'[v] # i /\ tpmfile'[v] # i
    BY <1>0, <1>2, <1>8, <2>1 DEF ReapSeed, SocketCared, TpmCared, files
  <2>3. vmOf'[i] = 0
    BY <1>0, <1>8 DEF ReapSeed, Gone, Procs
  <2> QED
    BY <1>0, <2>1, <2>2, <2>3 DEF InCare, Cared, PidCared, TpmCared, SocketCared
<1>9. CASE BindSocket(i)
  <2>1. swtpm'[i] # "free" /\ vmOf' = vmOf /\ reaper' = reaper /\ pidfile' = pidfile
        /\ tpmfile' = tpmfile
    BY <1>0, <1>9 DEF BindSocket, Procs
  <2>2. \A v \in Vms : socket'[v] = i => vmOf[i] = v
    BY <1>0, <1>9 DEF BindSocket, Procs, SocketCared
  <2> QED
    BY <1>0, <1>1, <2>1, <2>2 DEF InCare, Cared, PidCared, TpmCared, SocketCared
<1>10. CASE Boot(i) \/ Exit(i)
  BY <1>0, <1>1, <1>10 DEF Boot, Exit, InCare, Cared, PidCared, TpmCared, SocketCared, files
<1>11. CASE InitReaps(i)
  BY <1>0, <1>11 DEF InitReaps
<1> QED
  BY <1>3, <1>4, <1>5, <1>6, <1>7, <1>8, <1>9, <1>10, <1>11 DEF ReaperStep, ProcStep

(* When seeds and CDs are not mixed, nobody gives a VM a CD. *)
LEMMA NoCdKept ==
    ASSUME TypeOK, NothingLeaks, Clouds, NoCd, NEW t \in Threads, Requested(t),
           ThreadStep(t) \/ Begins(t)
    PROVE  NoCd'
<1>0. /\ \A q \in scenario.requests : /\ q[2].op = "create" => ~q[2].iso
                                      /\ q[2].op = "set" => <<"iso", TRUE>> \notin ToSet(q[2].writes)
      /\ options \in [Vms -> Options] /\ ~NoOptions.iso
  BY DEF NothingLeaks, CdGiven, TypeOK, NoOptions
<1>1. LocalStep(t)
  BY ThreadIsLocal
<1>2. ~cfg'[t].iso
  BY CopyIs DEF NoCd, NoOptions
<1>3. ASSUME NEW v \in Vms PROVE ~options'[v].iso
  <2>1. CASE WriteMetadata(t)
    <3>1. ~Created(req[t]).iso
      BY <1>0, <2>1, AskedTypes DEF WriteMetadata, At, Created, Requested, CreatePCs
    <3> QED
      BY <1>0, <2>1, <3>1 DEF WriteMetadata, NoCd
  <2>2. CASE WriteOptions(t)
    <3>1. PICK k \in 0..Len(req[t].writes) :
             options' = [options EXCEPT ![vm[t]] = Written(@, req[t], k)]
      BY <2>2 DEF WriteOptions
    <3>2. /\ vm[t] \in Vms /\ req[t] \in Sets /\ <<t, req[t], vm[t]>> \in scenario.requests
          /\ req[t].op = "set"
      BY <2>2, AskedTypes DEF WriteOptions, At, Requested, SetPCs
    <3>3. \A i \in 1..k : req[t].writes[i] # <<"iso", TRUE>>
      <4>1. DOMAIN req[t].writes = 1..Len(req[t].writes) /\ Len(req[t].writes) \in Nat
        BY <3>2 DEF Sets
      <4>2. \A i \in 1..k : i \in DOMAIN req[t].writes
        BY <4>1
      <4>3. <<"iso", TRUE>> \notin ToSet(req[t].writes)
        BY <1>0, <3>2
      <4> QED
        BY <4>2, <4>3 DEF ToSet
    <3>4. PICK w : w = Written(options[vm[t]], req[t], k)
      OBVIOUS
    <3>5. ~w.iso
      <4>1. ~options[vm[t]].iso /\ options[vm[t]] \in Options
        BY <1>0, <3>2 DEF NoCd
      <4> QED
        BY <3>3, <3>4, <4>1 DEF Written, Options
    <3>6. options' = [options EXCEPT ![vm[t]] = w]
      BY <3>1, <3>4
    <3> QED
      BY <1>0, <3>2, <3>5, <3>6 DEF NoCd
  <2>3. CASE WriteList(t)
    <3>1. PICK new : \/ options' = [options EXCEPT ![vm[t]].passthru = new]
                     \/ UNCHANGED options
      BY <2>3 DEF WriteList
    <3> QED
      BY <1>0, <3>1 DEF NoCd, Options
  <2>4. CASE ZfsDestroy(t)
    BY <1>0, <2>4 DEF ZfsDestroy, NoCd
  <2>5. CASE ~WriteMetadata(t) /\ ~WriteOptions(t) /\ ~WriteList(t) /\ ~ZfsDestroy(t)
    BY <2>5, OptionsStay DEF NoCd
  <2> QED
    BY <2>1, <2>2, <2>3, <2>4, <2>5
<1> QED
  BY <1>1, <1>2, <1>3 DEF NoCd, LocalStep

(* Nothing stays behind in nobody's care. *)
LEMMA NoLeaksKept ==
    ASSUME TypeOK, ProcInv, ProcInv', NoLeaks, \A t \in Threads : Requested(t),
           \/ \E t \in Threads : ThreadStep(t) \/ Begins(t)
           \/ \E i \in Instances : ReaperStep(i) \/ ProcStep(i)
           \/ Restart
    PROVE  NoLeaks'
<1>0. 0 \notin Instances /\ Procs
  BY StorageAssumption DEF ProcInv
<1>1. NoLeaks <=> (NothingLeaks => (\A i \in Instances : InCare(i)) /\ (Clouds => NoCd))
  BY <1>0, NoLeaksParts
<1>2. NoLeaks' <=> (NothingLeaks' => (\A i \in Instances : InCare(i)') /\ (Clouds' => NoCd'))
  <2>1. \A v \in Vms : /\ pidfile'[v] \in Instances \union {0}
                       /\ tpmfile'[v] \in Instances \union {0}
                       /\ socket'[v] \in Instances \union {0}
    BY DEF ProcInv, Procs
  <2>2. ASSUME NoLeaks', NothingLeaks'
        PROVE  (\A i \in Instances : InCare(i)') /\ (Clouds' => NoCd')
    BY <1>0, <2>2 DEF NoLeaks, InCare, Cared, PidCared, TpmCared, SocketCared, NoCd, Held, Writing
  <2>3. ASSUME NothingLeaks', \A i \in Instances : InCare(i)', Clouds' => NoCd'
        PROVE  NoLeaks'
    <3>1. \A i \in Instances : Cared(i)'
      BY <2>3 DEF InCare
    <3>2. \A v \in Vms, i \in Instances : PidCared(v, i)' /\ TpmCared(v, i)' /\ SocketCared(v, i)'
      BY <2>3 DEF InCare
    <3> QED
      BY <2>1, <2>3, <3>1, <3>2
         DEF NoLeaks, Cared, PidCared, TpmCared, SocketCared, NoCd, Held, Writing
  <2> QED
    BY <2>2, <2>3 DEF NoLeaks
<1>3. scenario' = scenario
  BY WorldStays DEF world, Restart
<1>4. SUFFICES ASSUME NothingLeaks
               PROVE  (\A i \in Instances : InCare(i)') /\ (Clouds => NoCd')
  BY <1>2, <1>3 DEF NothingLeaks, Clouds, CdGiven, May
<1>5. (\A i \in Instances : InCare(i)) /\ (Clouds => NoCd)
  BY <1>1, <1>4
<1>6. ASSUME NEW t \in Threads, ThreadStep(t) \/ Begins(t)
      PROVE  (\A i \in Instances : InCare(i)') /\ (Clouds => NoCd')
  <2>1. LocalStep(t)
    BY <1>6, ThreadIsLocal
  <2>2. Clouds => NoCd'
    BY <1>4, <1>5, <1>6, NoCdKept
  <2>3. ASSUME NEW i \in Instances PROVE InCare(i)'
    <3>1. CASE Quiet(t)
      BY <1>5, <2>1, <3>1, QuietCare
    <3>2. CASE Start(t) \/ KillTpm(t) \/ RemoveFiles(t) \/ RemoveRuntimeDir(t)
      BY <1>5, <2>1, <3>2, StopCare
    <3>3. CASE OwnCalls(t)
      <4>1. OwnStep(t)
        BY <2>1, <3>3, OwnCallsAre
      <4>2. CASE i = inst[t]
        BY <1>4, <1>5, <2>1, <3>3, <4>2, OwnCallsCare
      <4>3. CASE i # inst[t]
        BY <1>0, <1>5, <4>1, <4>3, OwnCare
      <4> QED
        BY <4>2, <4>3
    <3> QED
      BY <1>6, <3>1, <3>2, <3>3, QuietSteps DEF ThreadStep, StartStep, StopStep, OwnCalls
  <2> QED
    BY <2>2, <2>3
<1>7. ASSUME NEW i \in Instances, ReaperStep(i) \/ ProcStep(i)
      PROVE  (\A j \in Instances : InCare(j)') /\ (Clouds => NoCd')
  <2>1. Aside(i) /\ UNCHANGED options
    BY <1>7, AsideSteps
       DEF ReaperStep, ProcStep, Reap, ReapTpm, ReapSocket, ReapPidFile, ReapTpmFile, ReapSeed,
           ReaperAt, BindSocket, Boot, Exit, InitReaps, volumes
  <2>2. \A j \in Instances : InCare(j)'
    BY <1>0, <1>5, <1>7, <2>1, AsideCare, ReaperCare
  <2>3. NoCd => NoCd'
    BY <2>1 DEF Aside, NoCd, locals
  <2> QED
    BY <1>5, <2>2, <2>3
<1>8. CASE Restart
  <2>1. restarts \in 0..0 /\ restarts < scenario.restarts /\ scenario.restarts = 0
    BY <1>4, <1>8 DEF NothingLeaks, Restart, TypeOK
  <2> QED
    BY <2>1
<1> QED
  BY <1>6, <1>7, <1>8

-----------------------------------------------------------------------------
(* Who changes which volume. *)

(* A thread changes the volumes of its own VM only, and each by few of its calls. *)
LEMMA OwnVolumes ==
    ASSUME TypeOK, NEW t \in Threads, ThreadStep(t) \/ Begins(t)
    PROVE  /\ \A v \in Vms \ {vm[t]} : /\ disk'[v] = disk[v] /\ options'[v] = options[v]
                                       /\ seed'[v] = seed[v] /\ mounted'[v] = mounted[v]
           /\ disk' = disk \/ CreateDisk(t) \/ Convert(t) \/ ZfsDestroy(t)
           /\ seed' = seed \/ CreateSeed(t) \/ FormatSeed(t) \/ FillSeed(t) \/ DestroySeed(t)
           /\ mounted' = mounted \/ MountSeed(t) \/ UnmountSeed(t)
           /\ image' = image \/ Fetch(t) \/ FetchEnds(t)
<1>0. /\ DOMAIN disk = Vms /\ DOMAIN options = Vms /\ DOMAIN seed = Vms /\ DOMAIN mounted = Vms
  BY DEF TypeOK
<1>1. CASE Begins(t)
  BY <1>1, BeginsAre DEF volumes
<1>2. CASE CreateStep(t)
  BY <1>0, <1>2
     DEF CreateStep, CreateDisk, WriteMetadata, LookForImage, Fetch, FetchEnds, Convert,
         CreateSeed, FormatSeed, MountSeed, FillSeed, UnmountSeed, volumes
<1>3. CASE SetStep(t)
  BY <1>0, <1>3 DEF SetStep, WriteOptions, ReadList, WriteList, volumes
<1>4. CASE StartStep(t)
  BY <1>4 DEF StartStep, Start, StartTpm, ConfigureTap, Check, Spawn, WritePidFile,
              WriteTpmFile, volumes
<1>5. CASE StopStep(t)
  BY <1>0, <1>5 DEF StopStep, Stop, Waited, WaitTimesOut, KillTpm, RemoveFiles, ZfsDestroy,
              LookForSeed, DestroySeed, RemoveRuntimeDir, volumes
<1> QED
  BY <1>1, <1>2, <1>3, <1>4, <1>5 DEF ThreadStep

(* A reaper takes at most the seed of its VM. *)
LEMMA AsideVolumes ==
    ASSUME TypeOK, NEW i \in Instances, ReaperStep(i) \/ ProcStep(i)
    PROVE  /\ UNCHANGED <<disk, options, mounted, image>>
           /\ seed' = seed \/ (/\ ReapSeed(i)
                               /\ seed' = [seed EXCEPT ![vmOf[i]] =
                                              IF SeedBusy(vmOf[i]) THEN @ ELSE "none"])
           /\ \A j \in Instances : /\ Live(j)' => Live(j)
                                   /\ vmOf'[j] = vmOf[j] \/ vmOf'[j] = 0
                                   /\ seeded'[j] => seeded[j]
<1>0. /\ bhyve \in [Instances -> {"free", "boot", "run", "zombie"}]
      /\ DOMAIN vmOf = Instances /\ DOMAIN seeded = Instances
  BY DEF TypeOK
<1>1. /\ UNCHANGED <<disk, options, mounted, image>>
      /\ seed' = seed \/ (/\ ReapSeed(i)
                          /\ seed' = [seed EXCEPT ![vmOf[i]] =
                                         IF SeedBusy(vmOf[i]) THEN @ ELSE "none"])
  BY DEF ReaperStep, ProcStep, Reap, ReapTpm, ReapSocket, ReapPidFile, ReapTpmFile, ReapSeed,
         ReaperAt, BindSocket, Boot, Exit, InitReaps, volumes
<1>2. \A j \in Instances : Live(j)' => Live(j)
  BY <1>0 DEF ReaperStep, ProcStep, Reap, ReapTpm, ReapSocket, ReapPidFile, ReapTpmFile, ReapSeed,
         ReaperAt, BindSocket, Boot, Exit, InitReaps, Live
<1>3. \A j \in Instances : /\ vmOf'[j] = vmOf[j] \/ vmOf'[j] = 0
                           /\ seeded'[j] => seeded[j]
  BY <1>0 DEF ReaperStep, ProcStep, Reap, ReapTpm, ReapSocket, ReapPidFile, ReapTpmFile, ReapSeed,
         ReaperAt, BindSocket, Boot, Exit, InitReaps, Gone
<1> QED
  BY <1>1, <1>2, <1>3

(* An instance comes to life, to a VM or to a seed by a call of its start. *)
LEMMA ThreadLives ==
    ASSUME TypeOK, ProcInv, NEW t \in Threads, ThreadStep(t) \/ Begins(t), NEW i \in Instances,
           NEW v \in Vms, vmOf'[i] = v
    PROVE  /\ Live(i)' => (Live(i) /\ vmOf[i] = v) \/ (Spawn(t) /\ v = vm[t])
           /\ seeded'[i] => \/ seeded[i] /\ vmOf[i] = v
                            \/ Spawn(t) /\ v = vm[t] /\ UsesSeed(t)
<1>0. /\ bhyve \in [Instances -> {"free", "boot", "run", "zombie"}]
      /\ DOMAIN vmOf = Instances /\ seeded \in [Instances -> BOOLEAN]
      /\ 0 \notin Vms
      /\ pc[t] \in HoldPCs => inst[t] \in Instances
      /\ pc[t] \in {"tpm", "tap", "spawn"} => bhyve[inst[t]] = "free" /\ ~seeded[inst[t]]
  BY StorageAssumption, HeldInstance DEF TypeOK, HoldPCs, StartPCs
<1>1. CASE Quiet(t) \/ Start(t) \/ KillTpm(t) \/ RemoveFiles(t) \/ RemoveRuntimeDir(t)
  <2>1. bhyve' = bhyve /\ vmOf' = vmOf /\ seeded' = seeded
    BY <1>1 DEF Quiet, Start, KillTpm, RemoveFiles, RemoveRuntimeDir, procs
  <2> QED
    BY <2>1 DEF Live
<1>2. CASE StartTpm(t)
  <2>1. pc[t] = "tpm" /\ inst[t] \in Instances
    BY <1>0, <1>2 DEF StartTpm, At, HoldPCs, StartPCs
  <2> QED
    BY <1>0, <1>2, <2>1 DEF StartTpm, Live
<1>3. CASE ConfigureTap(t)
  <2>1. inst[t] \in Instances
    BY <1>0, <1>3 DEF ConfigureTap, At, HoldPCs, StartPCs
  <2> QED
    BY <1>0, <1>3, <2>1 DEF ConfigureTap, UndoTpm, Live
<1>4. CASE Check(t) \/ WritePidFile(t) \/ WriteTpmFile(t)
  BY <1>4 DEF Check, WritePidFile, WriteTpmFile, procs, Live
<1>5. CASE Spawn(t)
  <2>1. inst[t] \in Instances
    BY <1>0, <1>5 DEF Spawn, At, HoldPCs, StartPCs
  <2>2. CASE UndoTpm(t) /\ UNCHANGED <<bhyve, seeded>>
    BY <1>0, <2>1, <2>2 DEF UndoTpm, Live
  <2>3. CASE ~(UndoTpm(t) /\ UNCHANGED <<bhyve, seeded>>)
    <3>1. /\ bhyve' = [bhyve EXCEPT ![inst[t]] = "boot"]
          /\ vmOf' = [vmOf EXCEPT ![inst[t]] = vm[t]]
          /\ seeded' = [seeded EXCEPT ![inst[t]] = UsesSeed(t)]
      BY <1>5, <2>3 DEF Spawn
    <3>2. CASE i = inst[t]
      BY <1>0, <1>5, <2>1, <3>1, <3>2
    <3>3. CASE i # inst[t]
      BY <1>0, <2>1, <3>1, <3>3 DEF Live
    <3> QED
      BY <3>2, <3>3
  <2> QED
    BY <2>2, <2>3
<1> QED
  BY <1>1, <1>2, <1>3, <1>4, <1>5, QuietSteps DEF ThreadStep, StartStep, StopStep

(* Where a VM has one client, its threads are one. *)
LEMMA OneThread ==
    ASSUME OneDriver, NEW s \in Threads, NEW t \in Threads, Requested(s), Requested(t),
           pc[s] # "idle", pc[t] # "idle", vm[s] = vm[t]
    PROVE  s = t
  BY DEF Requested, OneDriver

-----------------------------------------------------------------------------
(* The order of the calls of one client. *)

(* What DiskFirst says of a thread: a VM that is being created has its disk. *)
DiskOf(t) ==
    /\ pc[t] \in CreatePCs \ {"zvol"} => disk[vm[t]] # "none"
    /\ pc[t] = "metadata" => ~options[vm[t]].complete
    /\ pc[t] = "write_list" => cfg[t] = options[vm[t]]
(* What DiskFirst says of a VM. *)
Optionless(v) == disk[v] = "none" => ~options[v].complete

(* The steps of a client keep its VM without options as long as it has no zvol. *)
LEMMA OwnOptionless ==
    ASSUME TypeOK, NoDuplicates, NEW t \in Threads, Requested(t), DiskOf(t),
           ThreadStep(t) \/ Begins(t), NEW v \in Vms, Optionless(v)
    PROVE  Optionless(v)'
<1>0. /\ disk \in [Vms -> {"none", "blank", "partial", "whole"}] /\ options \in [Vms -> Options]
      /\ ~NoOptions.complete
  BY DEF TypeOK, NoOptions
<1>1. CASE v # vm[t]
  BY <1>1, OwnVolumes DEF Optionless
<1>2. CASE v = vm[t]
  <2>1. CASE CreateDisk(t) \/ Convert(t)
    BY <1>0, <1>2, <2>1 DEF CreateDisk, Convert, Optionless
  <2>2. CASE WriteMetadata(t)
    <3>1. disk[v] # "none" /\ disk' = disk
      BY <1>2, <2>2 DEF WriteMetadata, At, DiskOf, CreatePCs
    <3> QED
      BY <3>1 DEF Optionless
  <2>3. CASE WriteOptions(t)
    <3>1. PICK k \in 0..Len(req[t].writes) :
             options' = [options EXCEPT ![vm[t]] = Written(@, req[t], k)]
      BY <2>3 DEF WriteOptions
    <3>2. PICK w : w = Written(options[v], req[t], k)
      OBVIOUS
    <3>3. w.complete = options[v].complete
      BY <1>0, <3>2, WrittenType
    <3>4. options'[v] = w /\ disk' = disk
      BY <1>0, <1>2, <2>3, <3>1, <3>2 DEF WriteOptions
    <3> QED
      BY <3>3, <3>4 DEF Optionless
  <2>4. CASE WriteList(t)
    <3>1. PICK new : \/ options' = [options EXCEPT ![vm[t]].passthru = new]
                     \/ UNCHANGED options
      BY <2>4 DEF WriteList
    <3>2. options'[v].complete = options[v].complete /\ disk' = disk
      BY <1>0, <1>2, <2>4, <3>1 DEF WriteList, Options
    <3> QED
      BY <3>2 DEF Optionless
  <2>5. CASE ZfsDestroy(t)
    BY <1>0, <1>2, <2>5 DEF ZfsDestroy, Optionless
  <2>6. CASE ~(CreateDisk(t) \/ Convert(t) \/ WriteMetadata(t) \/ WriteOptions(t) \/ WriteList(t)
               \/ ZfsDestroy(t))
    BY <2>6, OwnVolumes, OptionsStay DEF Optionless
  <2> QED
    BY <2>1, <2>2, <2>3, <2>4, <2>5, <2>6
<1> QED
  BY <1>1, <1>2

(* And its calls come in their order. *)
LEMMA OwnDisk ==
    ASSUME TypeOK, NEW t \in Threads, DiskOf(t), Requested(t), vm[t] \in Vms => Optionless(vm[t]),
           ThreadStep(t) \/ Begins(t)
    PROVE  DiskOf(t)'
<1>0. /\ disk \in [Vms -> {"none", "blank", "partial", "whole"}] /\ options \in [Vms -> Options]
      /\ pc \in [Threads -> PCs] /\ cfg \in [Threads -> Options]
      /\ pc[t] # "idle" <=> vm[t] \in Vms
  BY DEF TypeOK
<1>1. CASE Begins(t)
  BY <1>1, BeginsAre DEF DiskOf, CreatePCs
<1>2. CASE CreateStep(t)
  <2>1. CASE CreateDisk(t)
    BY <1>0, <2>1 DEF CreateDisk, At, Goto, Return, DiskOf, CreatePCs, Optionless, locals
  <2>2. CASE WriteMetadata(t) \/ LookForImage(t) \/ Fetch(t) \/ FetchEnds(t)
    BY <1>0, <2>2 DEF WriteMetadata, LookForImage, Fetch, FetchEnds, At, Goto, Return, DiskOf,
                      CreatePCs, locals, volumes
  <2>3. CASE Convert(t)
    BY <1>0, <2>3 DEF Convert, At, Goto, Return, DiskOf, CreatePCs, locals
  <2>4. CASE CreateSeed(t) \/ FormatSeed(t) \/ MountSeed(t)
    BY <1>0, <2>4 DEF CreateSeed, FormatSeed, MountSeed, At, Goto, Return, DiskOf, CreatePCs, locals
  <2>5. CASE FillSeed(t) \/ UnmountSeed(t)
    BY <1>0, <2>5 DEF FillSeed, UnmountSeed, At, Goto, Return, DiskOf, CreatePCs, locals
  <2> QED
    BY <1>2, <2>1, <2>2, <2>3, <2>4, <2>5 DEF CreateStep
<1>3. CASE SetStep(t)
  BY <1>0, <1>3 DEF SetStep, WriteOptions, ReadList, WriteList, At, Goto, Return, DiskOf, CreatePCs,
                    volumes, locals
<1>4. CASE StartStep(t)
  <2>1. pc'[t] \in StartPCs \union {"idle"}
    BY <1>0, <1>4 DEF StartStep, Start, StartTpm, ConfigureTap, Check, Spawn, WritePidFile,
                      WriteTpmFile, UndoTpm, Goto, Return, StartPCs
  <2> QED
    BY <2>1 DEF DiskOf, CreatePCs, StartPCs
<1>5. CASE StopStep(t)
  <2>1. pc'[t] \in StopPCs \union {"idle"}
    BY <1>0, <1>5 DEF StopStep, Stop, Waited, WaitTimesOut, KillTpm, RemoveFiles, ZfsDestroy,
                      LookForSeed, DestroySeed, RemoveRuntimeDir, Goto, Return, StopPCs
  <2> QED
    BY <2>1 DEF DiskOf, CreatePCs, StopPCs
<1> QED
  BY <1>1, <1>2, <1>3, <1>4, <1>5 DEF ThreadStep

(* Where a VM has one client, nobody else comes between the client's calls. *)
LEMMA Apart ==
    ASSUME TypeOK, OneDriver, NEW t \in Threads, NEW s \in Threads \ {t}, Requested(s),
           Requested(t), ThreadStep(t) \/ Begins(t), pc[s] # "idle"
    PROVE  /\ vm[s] \in Vms
           /\ pc[t] # "idle" => vm[s] # vm[t]
           /\ disk'[vm[s]] = disk[vm[s]] /\ options'[vm[s]] = options[vm[s]]
           /\ seed'[vm[s]] = seed[vm[s]] /\ mounted'[vm[s]] = mounted[vm[s]]
<1>1. vm[s] \in Vms
  BY DEF TypeOK
<1>2. CASE pc[t] = "idle"
  <2>1. Begins(t)
    BY <1>2 DEF ThreadStep, CreateStep, CreateDisk, WriteMetadata, LookForImage, Fetch,
       FetchEnds, Convert, CreateSeed, FormatSeed, MountSeed, FillSeed, UnmountSeed,
       SetStep, WriteOptions, ReadList, WriteList, StartStep, Start, StartTpm, ConfigureTap,
       Check, Spawn, WritePidFile, WriteTpmFile, StopStep, Stop, Waited, WaitTimesOut,
       KillTpm, RemoveFiles, ZfsDestroy, LookForSeed, DestroySeed, RemoveRuntimeDir, At
  <2> QED
    BY <1>1, <1>2, <2>1, BeginsAre DEF volumes
<1>3. CASE pc[t] # "idle"
  <2>1. vm[s] # vm[t]
    BY <1>3, OneThread
  <2> QED
    BY <1>1, <2>1, OwnVolumes
<1> QED
  BY <1>2, <1>3

(* The disk comes first and the options later. *)
LEMMA DiskFirstKept ==
    ASSUME TypeOK, NoDuplicates, DiskFirst, \A t \in Threads : Requested(t),
           \/ \E t \in Threads : ThreadStep(t) \/ Begins(t)
           \/ \E i \in Instances : ReaperStep(i) \/ ProcStep(i)
           \/ Restart
    PROVE  DiskFirst'
<1>1. scenario' = scenario
  BY WorldStays DEF world, Restart
<1>2. SUFFICES ASSUME OneDriver
               PROVE  (\A v \in Vms : Optionless(v)') /\ (\A t \in Threads : DiskOf(t)')
  BY <1>1 DEF DiskFirst, OneDriver, Optionless, DiskOf
<1>3. (\A v \in Vms : Optionless(v)) /\ (\A t \in Threads : DiskOf(t))
  BY <1>2 DEF DiskFirst, Optionless, DiskOf
<1>4. ASSUME NEW t \in Threads, ThreadStep(t) \/ Begins(t)
      PROVE  (\A v \in Vms : Optionless(v)') /\ (\A s \in Threads : DiskOf(s)')
  <2>1. (\A v \in Vms : Optionless(v)') /\ DiskOf(t)'
    BY <1>3, <1>4, OwnOptionless, OwnDisk
  <2>2. ASSUME NEW s \in Threads \ {t} PROVE DiskOf(s)'
    <3>1. /\ pc'[s] = pc[s] /\ vm'[s] = vm[s] /\ cfg'[s] = cfg[s] /\ (pc[s] # "idle" => vm[s] \in Vms)
      BY <1>4, ThreadIsLocal DEF LocalStep, TypeOK
    <3>2. ASSUME pc[s] # "idle" PROVE disk'[vm[s]] = disk[vm[s]] /\ options'[vm[s]] = options[vm[s]]
      BY <1>2, <1>4, <3>2, Apart
    <3> QED
      BY <1>3, <3>1, <3>2 DEF DiskOf, CreatePCs
  <2> QED
    BY <2>1, <2>2
<1>5. ASSUME NEW i \in Instances, ReaperStep(i) \/ ProcStep(i)
      PROVE  (\A v \in Vms : Optionless(v)') /\ (\A s \in Threads : DiskOf(s)')
  BY <1>3, <1>5, AsideVolumes, AsideIsNobody DEF Optionless, DiskOf, locals
<1>6. CASE Restart
  BY <1>3, <1>6 DEF Restart, volumes, Optionless, DiskOf, CreatePCs
<1> QED
  BY <1>4, <1>5, <1>6

-----------------------------------------------------------------------------
(* The image. *)

(* What ImageWhole says of the file that a create fetches and converts. *)
ImageOf(t) ==
    /\ pc[t] = "fetching" => image = "partial"
    /\ pc[t] = "convert" => image = "whole"
(* t has converted the image. *)
AfterConvert(t) == \/ pc[t] \in {"seed_zvol", "seed_newfs", "seed_mount", "seed_fill", "seed_umount"}
                   \/ pc[t] = "start" /\ UsesSeed(t)
(* The disk of such a VM is whole. *)
DiskWhole(t) == AfterConvert(t) => disk[vm[t]] = "whole"

(* A thread is behind the conversion because it was there, or has just converted the image. *)
LEMMA CameFromConvert ==
    ASSUME TypeOK, NEW t \in Threads, Requested(t), ThreadStep(t) \/ Begins(t), AfterConvert(t)'
    PROVE  \/ disk' = disk /\ vm' = vm /\ AfterConvert(t)
           \/ Convert(t) /\ ~Return(t) /\ vm' = vm
<1>0. pc \in [Threads -> PCs] /\ vm \in [Threads -> Vms \union {0}] /\ DOMAIN req = Threads
  BY DEF TypeOK
<1>1. CASE Begins(t)
  <2>1. pc'[t] = "start" /\ req'[t].op = "start"
    BY <1>1, BeginsAre DEF AfterConvert
  <2> QED
    BY <2>1 DEF AfterConvert, UsesSeed
<1>2. CASE CreateStep(t)
  <2>0. pc'[t] # "idle"
    BY DEF AfterConvert
  <2> USE <1>0, <2>0 DEF At, Goto, Return, AfterConvert, UsesSeed, locals
  <2>1. CASE CreateDisk(t) \/ LookForImage(t) \/ Fetch(t) \/ FetchEnds(t)
    BY <2>1 DEF CreateDisk, LookForImage, Fetch, FetchEnds
  <2>2. CASE WriteMetadata(t)
    BY <2>2 DEF WriteMetadata
  <2>3. CASE Convert(t)
    BY <2>3 DEF Convert
  <2>4. CASE CreateSeed(t) \/ FormatSeed(t) \/ MountSeed(t) \/ FillSeed(t) \/ UnmountSeed(t)
    BY <2>4 DEF CreateSeed, FormatSeed, MountSeed, FillSeed, UnmountSeed
  <2> QED
    BY <1>2, <2>1, <2>2, <2>3, <2>4 DEF CreateStep
<1>3. CASE SetStep(t)
  BY <1>0, <1>3 DEF SetStep, WriteOptions, ReadList, WriteList, At, Goto, Return, AfterConvert
<1>4. CASE StartStep(t)
  BY <1>0, <1>4 DEF StartStep, Start, StartTpm, ConfigureTap, Check, Spawn, WritePidFile,
                    WriteTpmFile, UndoTpm, Goto, Return, AfterConvert
<1>5. CASE StopStep(t)
  BY <1>0, <1>5 DEF StopStep, Stop, Waited, WaitTimesOut, KillTpm, RemoveFiles, ZfsDestroy,
                    LookForSeed, DestroySeed, RemoveRuntimeDir, Goto, Return, AfterConvert
<1> QED
  BY <1>1, <1>2, <1>3, <1>4, <1>5 DEF ThreadStep

(* One create at a time has the image for itself. *)
LEMMA ImageAlone ==
    ASSUME Fetches, NEW s \in Threads, NEW t \in Threads, Requested(s), Requested(t),
           pc[s] \in CreatePCs, pc[t] \in CreatePCs
    PROVE  s = t
  BY DEF Requested, Fetches, CreatePCs

(* It goes from one call to the next with the image that the next one expects. *)
LEMMA OwnImage ==
    ASSUME TypeOK, Fetches, NEW t \in Threads, \A s \in Threads : Requested(s) /\ ImageOf(s),
           image = "partial" => \E s \in Threads : pc[s] = "fetching",
           ThreadStep(t) \/ Begins(t)
    PROVE  /\ image' = "partial" => \E s \in Threads : pc'[s] = "fetching"
           /\ \A s \in Threads : ImageOf(s)'
<1>0. /\ pc \in [Threads -> PCs] /\ image \in {"none", "partial", "whole"}
      /\ ~May("fetch") /\ LocalStep(t) /\ Requested(t)'
  BY ThreadIsLocal DEF TypeOK, Fetches
<1>1. \A s \in Threads \ {t} : pc'[s] = pc[s]
  BY <1>0 DEF LocalStep
<1>2. ASSUME pc[t] \in CreatePCs, NEW s \in Threads \ {t} PROVE pc[s] \notin {"fetching", "convert"}
  BY <1>2, ImageAlone DEF CreatePCs
<1>3. CASE LookForImage(t)
  <2>1. pc[t] = "image" /\ image' = image /\ pc'[t] = (IF image = "none" THEN "fetch" ELSE "convert")
    BY <1>0, <1>3 DEF LookForImage, At, Goto, volumes
  <2>2. image # "partial"
    BY <1>2, <2>1 DEF CreatePCs
  <2> QED
    BY <1>0, <1>1, <1>2, <2>1, <2>2 DEF ImageOf, CreatePCs
<1>4. CASE Fetch(t)
  <2>1. pc[t] = "fetch" /\ image' = "partial" /\ pc'[t] = "fetching"
    BY <1>0, <1>4 DEF Fetch, At, Goto
  <2> QED
    BY <1>1, <1>2, <2>1 DEF ImageOf, CreatePCs
<1>5. CASE FetchEnds(t)
  <2>1. pc[t] = "fetching" /\ image = "partial"
    BY <1>5 DEF FetchEnds, At, ImageOf
  <2>2. \A s \in Threads \ {t} : ~At(s, "fetching")
    BY <1>2, <2>1 DEF At, CreatePCs
  <2>3. image' = "whole" /\ pc'[t] = "convert"
    BY <1>0, <1>5, <2>1, <2>2 DEF FetchEnds, Goto
  <2> QED
    BY <1>1, <1>2, <2>1, <2>3 DEF ImageOf, CreatePCs
<1>6. CASE ~LookForImage(t) /\ ~Fetch(t) /\ ~FetchEnds(t)
  <2>1. image' = image
    BY <1>6, OwnVolumes
  <2>2. pc[t] # "fetching"
    BY <1>6, BeginsAre DEF ThreadStep, CreateStep, CreateDisk, WriteMetadata,
       Convert, CreateSeed, FormatSeed, MountSeed, FillSeed, UnmountSeed,
       SetStep, WriteOptions, ReadList, WriteList, StartStep, Start, StartTpm, ConfigureTap,
       Check, Spawn, WritePidFile, WriteTpmFile, StopStep, Stop, Waited, WaitTimesOut,
       KillTpm, RemoveFiles, ZfsDestroy, LookForSeed, DestroySeed, RemoveRuntimeDir, At
  <2>3. pc'[t] \notin {"fetching", "convert"}
    <3>1. CASE Begins(t)
      BY <3>1, BeginsAre
    <3>2. CASE CreateStep(t)
      BY <1>0, <1>6, <3>2 DEF CreateStep, CreateDisk, WriteMetadata, Convert, CreateSeed,
         FormatSeed, MountSeed, FillSeed, UnmountSeed, Goto, Return
    <3>3. CASE SetStep(t)
      BY <1>0, <3>3 DEF SetStep, WriteOptions, ReadList, WriteList, Goto, Return
    <3>4. CASE StartStep(t)
      BY <1>0, <3>4 DEF StartStep, Start, StartTpm, ConfigureTap, Check, Spawn, WritePidFile,
                        WriteTpmFile, UndoTpm, Goto, Return
    <3>5. CASE StopStep(t)
      BY <1>0, <3>5 DEF StopStep, Stop, Waited, WaitTimesOut, KillTpm, RemoveFiles, ZfsDestroy,
                        LookForSeed, DestroySeed, RemoveRuntimeDir, Goto, Return
    <3> QED
      BY <1>6, <3>1, <3>2, <3>3, <3>4, <3>5 DEF ThreadStep
  <2> QED
    BY <1>1, <2>1, <2>2, <2>3 DEF ImageOf
<1> QED
  BY <1>3, <1>4, <1>5, <1>6

(* What is converted is a whole image, and the disk stays as it was converted. *)
LEMMA ImageWholeKept ==
    ASSUME TypeOK, ImageWhole, \A t \in Threads : Requested(t),
           \/ \E t \in Threads : ThreadStep(t) \/ Begins(t)
           \/ \E i \in Instances : ReaperStep(i) \/ ProcStep(i)
           \/ Restart
    PROVE  ImageWhole'
<1>1. scenario' = scenario
  BY WorldStays DEF world, Restart
<1>2. SUFFICES ASSUME Fetches
               PROVE  /\ image' = "partial" => \E t \in Threads : pc'[t] = "fetching"
                      /\ \A t \in Threads : ImageOf(t)' /\ (OneDriver => DiskWhole(t)')
  BY <1>1 DEF ImageWhole, Fetches, OneDriver, ImageOf, DiskWhole, AfterConvert, May
<1>3. /\ image = "partial" => \E t \in Threads : pc[t] = "fetching"
      /\ \A t \in Threads : ImageOf(t) /\ (OneDriver => DiskWhole(t))
  BY <1>2 DEF ImageWhole, ImageOf, DiskWhole, AfterConvert
<1>4. ASSUME NEW t \in Threads, ThreadStep(t) \/ Begins(t)
      PROVE  /\ image' = "partial" => \E s \in Threads : pc'[s] = "fetching"
             /\ \A s \in Threads : ImageOf(s)' /\ (OneDriver => DiskWhole(s)')
  <2>1. /\ image' = "partial" => \E s \in Threads : pc'[s] = "fetching"
        /\ \A s \in Threads : ImageOf(s)'
    BY <1>2, <1>3, <1>4, OwnImage
  <2>2. OneDriver => DiskWhole(t)'
    <3> SUFFICES ASSUME OneDriver, AfterConvert(t)'
                 PROVE  disk'[vm'[t]] = "whole"
      BY DEF DiskWhole
    <3>1. CASE disk' = disk /\ vm' = vm /\ AfterConvert(t)
      BY <1>3, <3>1 DEF DiskWhole
    <3>2. CASE Convert(t) /\ ~Return(t) /\ vm' = vm
      <4>1. pc[t] = "convert" /\ image = "whole" /\ vm[t] \in Vms
        BY <1>3, <3>2 DEF Convert, At, ImageOf, TypeOK
      <4>2. disk' = [disk EXCEPT ![vm[t]] = "whole"]
        BY <3>2, <4>1 DEF Convert
      <4> QED
        BY <3>2, <4>1, <4>2 DEF TypeOK
    <3> QED
      BY <1>4, <3>1, <3>2, CameFromConvert
  <2>3. ASSUME NEW s \in Threads \ {t}, OneDriver PROVE DiskWhole(s)'
    <3>1. pc'[s] = pc[s] /\ vm'[s] = vm[s] /\ req'[s] = req[s]
      BY <1>4, ThreadIsLocal DEF LocalStep
    <3>2. pc[s] # "idle" => disk'[vm[s]] = disk[vm[s]]
      BY <1>4, <2>3, Apart
    <3> QED
      BY <1>3, <2>3, <3>1, <3>2 DEF DiskWhole, AfterConvert, UsesSeed
  <2> QED
    BY <2>1, <2>2, <2>3
<1>5. ASSUME NEW i \in Instances, ReaperStep(i) \/ ProcStep(i)
      PROVE  /\ image' = "partial" => \E s \in Threads : pc'[s] = "fetching"
             /\ \A s \in Threads : ImageOf(s)' /\ (OneDriver => DiskWhole(s)')
  BY <1>3, <1>5, AsideVolumes, AsideIsNobody DEF ImageOf, DiskWhole, AfterConvert, UsesSeed, locals
<1>6. CASE Restart
  <2>1. restarts \in 0..0 /\ restarts < scenario.restarts /\ scenario.restarts = 0
    BY <1>2, <1>6 DEF Fetches, Restart, TypeOK
  <2> QED
    BY <2>1
<1> QED
  BY <1>4, <1>5, <1>6

-----------------------------------------------------------------------------
(* The seed of a VM that is being created. *)

(* A VM whose seed some instance was started with has its disk. *)
SeedKeeps(v) == \A i \in Instances : vmOf[i] = v /\ seeded[i] => disk[v] # "none"
(* The disk of a VM that is being created is there, and no old instance of it has a seed. *)
CreateKeeps(t) ==
    /\ req[t].op = "create" /\ pc[t] # "zvol" => disk[vm[t]] # "none"
    /\ req[t].op = "create" /\ pc[t] \in (CreatePCs \ {"zvol"}) \union {"start"} =>
          \A i \in Instances : vmOf[i] = vm[t] => ~seeded[i]
(* The seed is what the next call of create_seed relies on. *)
SeedOf(t) ==
    /\ pc[t] = "seed_mount" => seed[vm[t]] = "empty"
    /\ pc[t] = "seed_umount" /\ ~bad[t] => seed[vm[t]] = "filled"
    /\ pc[t] = "start" /\ UsesSeed(t) => seed[vm[t]] = "filled" /\ ~mounted[vm[t]]

(* The zvol of a create is there from its first call to its last. *)
LEMMA OwnCreateKeeps ==
    ASSUME TypeOK, ProcInv, NEW t \in Threads, Requested(t), ThreadStep(t) \/ Begins(t),
           ~ZfsDestroy(t), CreateKeeps(t), vm[t] \in Vms => SeedKeeps(vm[t])
    PROVE  CreateKeeps(t)'
<1>0. /\ pc \in [Threads -> PCs] /\ DOMAIN req = Threads /\ LocalStep(t) /\ Requested(t)'
      /\ disk \in [Vms -> {"none", "blank", "partial", "whole"}]
      /\ pc[t] # "idle" <=> vm[t] \in Vms
  BY ThreadIsLocal DEF TypeOK
<1>1. SUFFICES ASSUME req'[t].op = "create", pc'[t] # "zvol"
               PROVE  /\ disk'[vm'[t]] # "none"
                      /\ pc'[t] \in (CreatePCs \ {"zvol"}) \union {"start"} =>
                            \A i \in Instances : vmOf'[i] = vm'[t] => ~seeded'[i]
  BY DEF CreateKeeps
<1>2. pc'[t] # "idle"
  BY <1>0, <1>1 DEF Requested, NoRequest
<1>3. ~Begins(t)
  BY <1>1, BeginsAre
<1>4. vm' = vm /\ req' = req
  <2> USE <1>0, <1>2 DEF Return, Goto, locals
  <2>1. CASE CreateStep(t)
    BY <2>1 DEF CreateStep, CreateDisk, WriteMetadata, LookForImage, Fetch, FetchEnds,
                Convert, CreateSeed, FormatSeed, MountSeed, FillSeed, UnmountSeed
  <2>2. CASE SetStep(t)
    BY <2>2 DEF SetStep, WriteOptions, ReadList, WriteList
  <2>3. CASE StartStep(t)
    BY <2>3 DEF StartStep, Start, StartTpm, ConfigureTap, Check, Spawn, WritePidFile,
                WriteTpmFile, UndoTpm
  <2>4. CASE StopStep(t)
    BY <2>4 DEF StopStep, Stop, Waited, WaitTimesOut, KillTpm, RemoveFiles, ZfsDestroy,
                LookForSeed, DestroySeed, RemoveRuntimeDir
  <2> QED
    BY <1>3, <2>1, <2>2, <2>3, <2>4 DEF ThreadStep
<1>5. pc[t] # "idle" /\ vm[t] \in Vms
  BY <1>0, <1>3 DEF ThreadStep, CreateStep, CreateDisk, WriteMetadata, LookForImage, Fetch,
     FetchEnds, Convert, CreateSeed, FormatSeed, MountSeed, FillSeed, UnmountSeed,
     SetStep, WriteOptions, ReadList, WriteList, StartStep, Start, StartTpm, ConfigureTap,
     Check, Spawn, WritePidFile, WriteTpmFile, StopStep, Stop, Waited, WaitTimesOut,
     KillTpm, RemoveFiles, ZfsDestroy, LookForSeed, DestroySeed, RemoveRuntimeDir, At
<1>6. CASE CreateDisk(t)
  <2>1. disk[vm[t]] = "none" /\ disk' = [disk EXCEPT ![vm[t]] = "blank"] /\ UNCHANGED procs
    BY <1>0, <1>2, <1>6 DEF CreateDisk, Return, Goto
  <2> QED
    BY <1>0, <1>4, <1>5, <2>1 DEF SeedKeeps, procs
<1>7. CASE ~CreateDisk(t)
  <2>1. pc[t] # "zvol"
    BY <1>3, <1>7 DEF ThreadStep, CreateStep, WriteMetadata, LookForImage, Fetch,
     FetchEnds, Convert, CreateSeed, FormatSeed, MountSeed, FillSeed, UnmountSeed,
     SetStep, WriteOptions, ReadList, WriteList, StartStep, Start, StartTpm, ConfigureTap,
     Check, Spawn, WritePidFile, WriteTpmFile, StopStep, Stop, Waited, WaitTimesOut,
     KillTpm, RemoveFiles, ZfsDestroy, LookForSeed, DestroySeed, RemoveRuntimeDir, At
  <2>2. disk[vm[t]] # "none"
    BY <1>1, <1>4, <2>1 DEF CreateKeeps
  <2>3. disk'[vm[t]] # "none"
    <3>1. CASE Convert(t)
      BY <1>0, <1>5, <3>1 DEF Convert
    <3>2. CASE ~Convert(t)
      BY <1>7, <2>2, <3>2, OwnVolumes
    <3> QED
      BY <3>1, <3>2
  <2>4. ASSUME pc'[t] \in (CreatePCs \ {"zvol"}) \union {"start"},
               NEW i \in Instances, vmOf'[i] = vm'[t]
        PROVE  ~seeded'[i]
    <3>1. pc[t] \in CreatePCs \ {"zvol"} /\ CreateStep(t)
      <4>1. CASE CreateStep(t)
        BY <2>1, <4>1 DEF CreateStep, CreateDisk, WriteMetadata, LookForImage, Fetch, FetchEnds,
                Convert, CreateSeed, FormatSeed, MountSeed, FillSeed, UnmountSeed, At, CreatePCs
      <4>2. CASE SetStep(t)
        BY <1>0, <1>2, <2>4, <4>2 DEF SetStep, WriteOptions, ReadList, WriteList, Goto, Return,
                                     CreatePCs
      <4>3. CASE StartStep(t)
        BY <1>0, <1>2, <2>4, <4>3
           DEF StartStep, Start, StartTpm, ConfigureTap, Check, Spawn, WritePidFile,
               WriteTpmFile, UndoTpm, Goto, Return, CreatePCs
      <4>4. CASE StopStep(t)
        BY <1>0, <1>2, <2>4, <4>4
           DEF StopStep, Stop, Waited, WaitTimesOut, KillTpm, RemoveFiles, ZfsDestroy,
               LookForSeed, DestroySeed, RemoveRuntimeDir, Goto, Return, CreatePCs
      <4> QED
        BY <1>3, <4>1, <4>2, <4>3, <4>4 DEF ThreadStep
    <3>2. UNCHANGED procs
      BY <3>1, QuietSteps DEF Quiet
    <3> QED
      BY <1>1, <1>4, <2>4, <3>1, <3>2 DEF CreateKeeps, procs
  <2> QED
    BY <1>4, <2>3, <2>4
<1> QED
  BY <1>6, <1>7

(* A seed is used for an instance of a VM whose zvol is there. *)
LEMMA OwnSeedKeeps ==
    ASSUME TypeOK, ProcInv, NEW t \in Threads, Requested(t), ThreadStep(t) \/ Begins(t),
           ~ZfsDestroy(t), CreateKeeps(t), NEW v \in Vms, SeedKeeps(v)
    PROVE  SeedKeeps(v)'
<1> SUFFICES ASSUME NEW i \in Instances, vmOf'[i] = v, seeded'[i]
             PROVE  disk'[v] # "none"
  BY DEF SeedKeeps
<1>0. disk \in [Vms -> {"none", "blank", "partial", "whole"}] /\ (pc[t] # "idle" <=> vm[t] \in Vms)
  BY DEF TypeOK
<1>1. disk[v] # "none" => disk'[v] # "none"
  <2>1. CASE CreateDisk(t) \/ Convert(t)
    BY <1>0, <2>1 DEF CreateDisk, Convert
  <2>2. CASE ~(CreateDisk(t) \/ Convert(t))
    BY <2>2, OwnVolumes
  <2> QED
    BY <2>1, <2>2
<1>2. CASE seeded[i] /\ vmOf[i] = v
  BY <1>1, <1>2 DEF SeedKeeps
<1>3. CASE Spawn(t) /\ v = vm[t] /\ UsesSeed(t)
  BY <1>1, <1>3 DEF CreateKeeps, Spawn, At, UsesSeed
<1> QED
  BY <1>2, <1>3, ThreadLives

(* The calls of a create leave the seed as the next one expects it. *)
LEMMA OwnSeed ==
    ASSUME TypeOK, NEW t \in Threads, Requested(t), ThreadStep(t) \/ Begins(t), SeedOf(t)
    PROVE  SeedOf(t)'
<1>0. /\ pc \in [Threads -> PCs] /\ DOMAIN req = Threads /\ LocalStep(t)
      /\ seed \in [Vms -> {"none", "raw", "empty", "filled"}] /\ mounted \in [Vms -> BOOLEAN]
      /\ bad \in [Threads -> BOOLEAN]
      /\ pc[t] # "idle" <=> vm[t] \in Vms
  BY ThreadIsLocal DEF TypeOK
<1> USE <1>0 DEF SeedOf, At, Goto, Return, UsesSeed, locals
<1>1. CASE Begins(t)
  BY <1>1, BeginsAre
<1>2. CASE CreateStep(t)
  <2>1. CASE CreateDisk(t) \/ LookForImage(t) \/ Fetch(t) \/ FetchEnds(t) \/ Convert(t)
    BY <2>1 DEF CreateDisk, LookForImage, Fetch, FetchEnds, Convert
  <2>2. CASE WriteMetadata(t)
    BY <2>2 DEF WriteMetadata
  <2>3. CASE CreateSeed(t)
    BY <2>3 DEF CreateSeed
  <2>4. CASE FormatSeed(t)
    BY <2>4 DEF FormatSeed
  <2>5. CASE MountSeed(t)
    BY <2>5 DEF MountSeed
  <2>6. CASE FillSeed(t)
    BY <2>6 DEF FillSeed
  <2>7. CASE UnmountSeed(t)
    BY <2>7 DEF UnmountSeed
  <2> QED
    BY <1>2, <2>1, <2>2, <2>3, <2>4, <2>5, <2>6, <2>7 DEF CreateStep
<1>3. CASE SetStep(t)
  BY <1>3 DEF SetStep, WriteOptions, ReadList, WriteList
<1>4. CASE StartStep(t)
  <2>1. pc'[t] \notin {"seed_mount", "seed_umount", "start"}
    BY <1>4 DEF StartStep, Start, StartTpm, ConfigureTap, Check, Spawn, WritePidFile,
                WriteTpmFile, UndoTpm
  <2> QED
    BY <2>1
<1>5. CASE StopStep(t)
  <2>1. pc'[t] \notin {"seed_mount", "seed_umount", "start"}
    BY <1>5 DEF StopStep, Stop, Waited, WaitTimesOut, KillTpm, RemoveFiles, ZfsDestroy,
                LookForSeed, DestroySeed, RemoveRuntimeDir
  <2> QED
    BY <2>1
<1> QED
  BY <1>1, <1>2, <1>3, <1>4, <1>5 DEF ThreadStep

(* Where nothing is destroyed, a create finds the seed as it has left it. *)
LEMMA SeedFirstKept ==
    ASSUME TypeOK, ProcInv, SeedFirst, \A t \in Threads : Requested(t),
           \/ \E t \in Threads : ThreadStep(t) \/ Begins(t)
           \/ \E i \in Instances : ReaperStep(i) \/ ProcStep(i)
           \/ Restart
    PROVE  SeedFirst'
<1>1. scenario' = scenario
  BY WorldStays DEF world, Restart
<1>2. SUFFICES ASSUME OneDriver, ~Destroys
               PROVE  /\ \A v \in Vms : SeedKeeps(v)'
                      /\ \A t \in Threads : CreateKeeps(t)' /\ SeedOf(t)'
  BY <1>1 DEF SeedFirst, OneDriver, Destroys, SeedKeeps, CreateKeeps, SeedOf
<1>3. /\ \A v \in Vms : SeedKeeps(v)
      /\ \A t \in Threads : CreateKeeps(t) /\ SeedOf(t)
  BY <1>2 DEF SeedFirst, SeedKeeps, CreateKeeps, SeedOf
<1>0. ASSUME NEW t \in Threads, pc[t] = "idle" PROVE req[t].op = "none"
  <2>1. Requested(t)
    OBVIOUS
  <2> QED
    BY <1>0, <2>1 DEF Requested, NoRequest
<1>4. /\ 0 \notin Vms /\ \A t \in Threads : pc[t] # "idle" <=> vm[t] \in Vms
  BY StorageAssumption DEF TypeOK
<1>5. ASSUME NEW t \in Threads, ThreadStep(t) \/ Begins(t)
      PROVE  /\ \A v \in Vms : SeedKeeps(v)'
             /\ \A s \in Threads : CreateKeeps(s)' /\ SeedOf(s)'
  <2>1. ~ZfsDestroy(t)
    BY <1>2 DEF ZfsDestroy, At, Requested, Destroys
  <2>2. (\A v \in Vms : SeedKeeps(v)') /\ CreateKeeps(t)' /\ SeedOf(t)'
    BY <1>3, <1>5, <2>1, OwnSeedKeeps, OwnCreateKeeps, OwnSeed
  <2>3. ASSUME NEW s \in Threads \ {t} PROVE CreateKeeps(s)' /\ SeedOf(s)'
    <3>1. pc'[s] = pc[s] /\ vm'[s] = vm[s] /\ req'[s] = req[s] /\ bad'[s] = bad[s]
      BY <1>5, ThreadIsLocal DEF LocalStep
    <3>2. CASE pc[s] = "idle"
      BY <1>0, <3>1, <3>2 DEF CreateKeeps, SeedOf
    <3>3. CASE pc[s] # "idle"
      <4>1. /\ vm[s] \in Vms
            /\ pc[t] # "idle" => vm[s] # vm[t]
            /\ disk'[vm[s]] = disk[vm[s]]
            /\ seed'[vm[s]] = seed[vm[s]] /\ mounted'[vm[s]] = mounted[vm[s]]
        BY <1>2, <1>5, <3>3, Apart
      <4>2. ASSUME NEW i \in Instances, vmOf'[i] = vm[s], seeded'[i]
            PROVE  vmOf[i] = vm[s] /\ seeded[i]
        <5>1. ~(Spawn(t) /\ vm[s] = vm[t])
          BY <4>1 DEF Spawn, At
        <5> QED
          BY <1>5, <4>1, <4>2, <5>1, ThreadLives
      <4>3. CreateKeeps(s)'
        BY <1>3, <3>1, <4>1, <4>2 DEF CreateKeeps
      <4>4. SeedOf(s)'
        BY <1>3, <3>1, <4>1 DEF SeedOf, UsesSeed
      <4> QED
        BY <4>3, <4>4
    <3> QED
      BY <3>2, <3>3
  <2> QED
    BY <2>2, <2>3
<1>6. ASSUME NEW i \in Instances, ReaperStep(i) \/ ProcStep(i)
      PROVE  /\ \A v \in Vms : SeedKeeps(v)'
             /\ \A s \in Threads : CreateKeeps(s)' /\ SeedOf(s)'
  <2>1. /\ UNCHANGED <<pc, locals, disk, mounted>>
        /\ \A j \in Instances : /\ vmOf'[j] = vmOf[j] \/ vmOf'[j] = 0
                                /\ seeded'[j] => seeded[j]
        /\ seed' = seed \/ (/\ ReapSeed(i)
                            /\ seed' = [seed EXCEPT ![vmOf[i]] =
                                           IF SeedBusy(vmOf[i]) THEN @ ELSE "none"])
    BY <1>6, AsideVolumes, AsideIsNobody
  <2>2. \A v \in Vms : SeedKeeps(v)'
    BY <1>3, <1>4, <2>1 DEF SeedKeeps
  <2>3. ASSUME NEW s \in Threads PROVE CreateKeeps(s)' /\ SeedOf(s)'
    <3>1. CreateKeeps(s)'
      <4>1. pc' = pc /\ vm' = vm /\ req' = req /\ disk' = disk
        BY <2>1 DEF locals
      <4>2. CASE pc[s] = "idle"
        BY <1>0, <4>1, <4>2 DEF CreateKeeps
      <4>3. CASE pc[s] # "idle"
        <5>1. vm[s] \in Vms /\ vm[s] # 0
          BY <1>4, <4>3
        <5>2. \A j \in Instances : vmOf'[j] = vm[s] /\ seeded'[j] => vmOf[j] = vm[s] /\ seeded[j]
          BY <2>1, <5>1
        <5> QED
          BY <1>3, <4>1, <5>2 DEF CreateKeeps
      <4> QED
        BY <4>2, <4>3
    <3>2. SeedOf(s)'
      <4>1. CASE pc[s] \notin {"seed_mount", "seed_umount"} /\ ~(pc[s] = "start" /\ UsesSeed(s))
        BY <2>1, <4>1 DEF SeedOf, UsesSeed, locals
      <4>2. CASE pc[s] \in {"seed_mount", "seed_umount"} \/ (pc[s] = "start" /\ UsesSeed(s))
        <5>1. /\ req[s].op = "create" /\ pc[s] \in (CreatePCs \ {"zvol"}) \union {"start"}
              /\ vm[s] \in Vms
          BY <1>4, <4>2 DEF Requested, CreatePCs, UsesSeed
        <5>2. vmOf[i] = vm[s] => ~seeded[i]
          BY <1>3, <5>1 DEF CreateKeeps
        <5>3. ReapSeed(i) => seeded[i]
          BY DEF ProcInv, Reaping, ReapSeed, ReaperAt
        <5>4. seed'[vm[s]] = seed[vm[s]]
          BY <2>1, <5>1, <5>2, <5>3 DEF TypeOK
        <5> QED
          BY <1>3, <2>1, <5>4 DEF SeedOf, UsesSeed, locals
      <4> QED
        BY <4>1, <4>2
    <3> QED
      BY <3>1, <3>2
  <2> QED
    BY <2>2, <2>3
<1>7. CASE Restart
  <2>1. \A v \in Vms : SeedKeeps(v)'
    BY <1>3, <1>4, <1>7 DEF Restart, SeedKeeps, volumes
  <2>2. \A t \in Threads : CreateKeeps(t)' /\ SeedOf(t)'
    BY <1>7 DEF Restart, CreateKeeps, SeedOf, NoRequest
  <2> QED
    BY <2>1, <2>2
<1> QED
  BY <1>5, <1>6, <1>7

-----------------------------------------------------------------------------
(* The seed of a VM that is destroyed. *)

(* A create has mounted the seed of v, or is about to unmount it. *)
Filling(v) == \E t \in Threads : vm[t] = v /\ pc[t] \in {"seed_fill", "seed_umount"}
(* A destroy has still to look for the seed of v. *)
Looking(v) == \E t \in Threads : vm[t] = v /\ pc[t] \in {"seed_look", "seed_destroy"}
(* Who has mounted the seed unmounts it. *)
MountGoes(v) == mounted[v] => Filling(v)
(* A seed without a zvol is about to be found. *)
SeedGoes(v) == seed[v] # "none" /\ disk[v] = "none" => Looking(v)
(* No bhyve has the VM whose zvol was destroyed. *)
FindsOff(t) == pc[t] \in {"seed_look", "seed_destroy"} =>
                  \A i \in Instances : vmOf[i] = vm[t] => ~Live(i)

(* Of a VM that has another client, or none, a step of t changes nothing. *)
LEMMA OtherGoes ==
    ASSUME TypeOK, NEW t \in Threads, Requested(t), ThreadStep(t) \/ Begins(t),
           NEW v \in Vms, v # vm[t], MountGoes(v), SeedGoes(v)
    PROVE  MountGoes(v)' /\ SeedGoes(v)'
<1>1. /\ disk'[v] = disk[v] /\ seed'[v] = seed[v] /\ mounted'[v] = mounted[v]
      /\ \A s \in Threads \ {t} : pc'[s] = pc[s] /\ vm'[s] = vm[s]
  BY OwnVolumes, ThreadIsLocal DEF LocalStep
<1>2. (Filling(v) => Filling(v)') /\ (Looking(v) => Looking(v)')
  BY <1>1 DEF Filling, Looking
<1> QED
  BY <1>1, <1>2 DEF MountGoes, SeedGoes

(* The steps that t makes for its own VM: the mount. *)
LEMMA OwnMount ==
    ASSUME TypeOK, NEW t \in Threads, Requested(t), ThreadStep(t) \/ Begins(t), OneDriver,
           \A s \in Threads : Requested(s), ~May("umount"),
           NEW v \in Vms, v = vm[t], MountGoes(v)
    PROVE  MountGoes(v)'
<1>0. /\ pc \in [Threads -> PCs] /\ mounted \in [Vms -> BOOLEAN]
      /\ pc[t] # "idle"
  BY StorageAssumption DEF TypeOK
<1>1. \A s \in Threads \ {t} : vm[s] = v => pc[s] = "idle"
  BY <1>0, OneThread
<1>2. Filling(v) => pc[t] \in {"seed_fill", "seed_umount"}
  BY <1>1 DEF Filling
<1>3. CASE MountSeed(t)
  <2>1. (vm'[t] = v /\ pc'[t] = "seed_fill") \/ (mounted' = mounted /\ ~Filling(v))
    BY <1>0, <1>2, <1>3 DEF MountSeed, At, Goto, locals
  <2> QED
    BY <2>1 DEF MountGoes, Filling
<1>4. CASE UnmountSeed(t)
  BY <1>0, <1>4 DEF UnmountSeed, MountGoes
<1>5. CASE FillSeed(t)
  <2>1. vm'[t] = v /\ pc'[t] = "seed_umount"
    BY <1>0, <1>5 DEF FillSeed, Goto
  <2> QED
    BY <2>1 DEF MountGoes, Filling
<1>6. CASE ~MountSeed(t) /\ ~UnmountSeed(t) /\ ~FillSeed(t)
  <2>1. pc[t] \notin {"seed_fill", "seed_umount"}
    BY <1>0, <1>6, BeginsAre
       DEF ThreadStep, CreateStep, CreateDisk, WriteMetadata, LookForImage, Fetch, FetchEnds,
           Convert, CreateSeed, FormatSeed,
           SetStep, WriteOptions, ReadList, WriteList, StartStep, Start, StartTpm, ConfigureTap,
           Check, Spawn, WritePidFile, WriteTpmFile, StopStep, Stop, Waited, WaitTimesOut,
           KillTpm, RemoveFiles, ZfsDestroy, LookForSeed, DestroySeed, RemoveRuntimeDir, At
  <2>2. mounted' = mounted
    BY <1>6, OwnVolumes
  <2> QED
    BY <1>2, <2>1, <2>2 DEF MountGoes
<1> QED
  BY <1>3, <1>4, <1>5, <1>6

(* And the seed. *)
LEMMA OwnSeedGoes ==
    ASSUME TypeOK, NEW t \in Threads, Requested(t), ThreadStep(t) \/ Begins(t), OneDriver,
           \A s \in Threads : Requested(s), ~May("zfs_destroy"), DiskOf(t), FindsOff(t),
           NEW v \in Vms, v = vm[t], MountGoes(v), SeedGoes(v)
    PROVE  SeedGoes(v)'
<1>0. /\ pc \in [Threads -> PCs] /\ seed \in [Vms -> {"none", "raw", "empty", "filled"}]
      /\ disk \in [Vms -> {"none", "blank", "partial", "whole"}]
      /\ pc[t] # "idle"
  BY StorageAssumption DEF TypeOK
<1>1. \A s \in Threads \ {t} : vm[s] = v => pc[s] = "idle"
  BY <1>0, OneThread
<1>2. Looking(v) => pc[t] \in {"seed_look", "seed_destroy"}
  BY <1>1 DEF Looking
<1>3. CASE CreateDisk(t) \/ Convert(t)
  <2>1. seed' = seed /\ pc[t] \notin {"seed_look", "seed_destroy"}
    BY <1>3 DEF CreateDisk, Convert, At
  <2>2. disk'[v] = "none" => disk[v] = "none"
    BY <1>0, <1>3 DEF CreateDisk, Convert
  <2> QED
    BY <1>2, <2>1, <2>2 DEF SeedGoes
<1>4. CASE CreateSeed(t) \/ FormatSeed(t) \/ FillSeed(t)
  <2>1. disk' = disk /\ disk[v] # "none"
    BY <1>4 DEF CreateSeed, FormatSeed, FillSeed, At, DiskOf, CreatePCs
  <2> QED
    BY <2>1 DEF SeedGoes
<1>5. CASE ZfsDestroy(t)
  <2>1. \/ vm'[t] = v /\ pc'[t] = "seed_look"
        \/ disk' = disk /\ seed' = seed /\ ~Looking(v)
    BY <1>0, <1>2, <1>5 DEF ZfsDestroy, At, Goto, locals
  <2> QED
    BY <2>1 DEF SeedGoes, Looking
<1>6. CASE LookForSeed(t)
  <2>1. /\ seed' = seed /\ vm' = vm
        /\ pc'[t] = (IF seed[v] # "none" THEN "seed_destroy" ELSE "rm_dir")
    BY <1>0, <1>6 DEF LookForSeed, Goto, volumes, locals
  <2> QED
    BY <2>1 DEF SeedGoes, Looking
<1>7. CASE DestroySeed(t)
  <2>1. pc[t] = "seed_destroy"
    BY <1>7 DEF DestroySeed, At
  <2>2. ~SeedBusy(v)
    <3>1. ~mounted[v]
      BY <1>1, <2>1 DEF MountGoes, Filling
    <3>2. \A i \in Instances : vmOf[i] = v => ~Live(i)
      BY <2>1 DEF FindsOff
    <3> QED
      BY <3>1, <3>2 DEF SeedBusy
  <2>3. seed'[v] = "none"
    BY <1>0, <1>7, <2>2 DEF DestroySeed
  <2> QED
    BY <2>3 DEF SeedGoes
<1>8. CASE ~(CreateDisk(t) \/ Convert(t) \/ CreateSeed(t) \/ FormatSeed(t) \/ FillSeed(t)
             \/ ZfsDestroy(t) \/ LookForSeed(t) \/ DestroySeed(t))
  <2>1. pc[t] \notin {"seed_look", "seed_destroy"}
    BY <1>0, <1>8, BeginsAre
       DEF ThreadStep, CreateStep, WriteMetadata, LookForImage, Fetch, FetchEnds,
           MountSeed, UnmountSeed,
           SetStep, WriteOptions, ReadList, WriteList, StartStep, Start, StartTpm, ConfigureTap,
           Check, Spawn, WritePidFile, WriteTpmFile, StopStep, Stop, Waited, WaitTimesOut,
           KillTpm, RemoveFiles, RemoveRuntimeDir, At
  <2>2. seed' = seed /\ disk' = disk
    BY <1>8, OwnVolumes
  <2> QED
    BY <1>2, <2>1, <2>2 DEF SeedGoes
<1> QED
  BY <1>3, <1>4, <1>5, <1>6, <1>7, <1>8

(* A destroy looks for the seed when nothing of the VM runs. *)
LEMMA OwnFindsOff ==
    ASSUME TypeOK, ProcInv, NEW t \in Threads, Requested(t), ThreadStep(t) \/ Begins(t), FindsOff(t)
    PROVE  FindsOff(t)'
<1>0. pc \in [Threads -> PCs] /\ 0 \notin Vms
  BY StorageAssumption DEF TypeOK
<1>1. CASE ZfsDestroy(t)
  <2>1. CASE Return(t)
    BY <1>0, <2>1 DEF Return, Goto, FindsOff
  <2>2. CASE ~Return(t)
    BY <1>0, <1>1, <2>2 DEF ZfsDestroy, FindsOff, Live, procs, locals
  <2> QED
    BY <2>1, <2>2
<1>2. CASE LookForSeed(t)
  BY <1>0, <1>2 DEF LookForSeed, At, FindsOff, Live, procs, locals
<1>3. CASE ~ZfsDestroy(t) /\ ~LookForSeed(t)
  <2>1. pc'[t] \notin {"seed_look", "seed_destroy"}
    <3>1. CASE Begins(t)
      BY <3>1, BeginsAre
    <3>2. CASE CreateStep(t)
      BY <1>0, <3>2 DEF CreateStep, CreateDisk, WriteMetadata, LookForImage, Fetch, FetchEnds,
         Convert, CreateSeed, FormatSeed, MountSeed, FillSeed, UnmountSeed, Goto, Return
    <3>3. CASE SetStep(t)
      BY <1>0, <3>3 DEF SetStep, WriteOptions, ReadList, WriteList, Goto, Return
    <3>4. CASE StartStep(t)
      BY <1>0, <3>4 DEF StartStep, Start, StartTpm, ConfigureTap, Check, Spawn, WritePidFile,
                        WriteTpmFile, UndoTpm, Goto, Return
    <3>5. CASE StopStep(t)
      BY <1>0, <1>3, <3>5 DEF StopStep, Stop, Waited, WaitTimesOut, KillTpm, RemoveFiles,
                        DestroySeed, RemoveRuntimeDir, Goto, Return
    <3> QED
      BY <3>1, <3>2, <3>3, <3>4, <3>5 DEF ThreadStep
  <2> QED
    BY <2>1 DEF FindsOff
<1> QED
  BY <1>1, <1>2, <1>3

(* No seed and no mount outlives the destroy of its VM. *)
LEMMA SeedsGoKept ==
    ASSUME TypeOK, ProcInv, SeedsGo, DiskFirst, \A t \in Threads : Requested(t),
           \/ \E t \in Threads : ThreadStep(t) \/ Begins(t)
           \/ \E i \in Instances : ReaperStep(i) \/ ProcStep(i)
           \/ Restart
    PROVE  SeedsGo'
<1>1. scenario' = scenario
  BY WorldStays DEF world, Restart
<1>2. SUFFICES ASSUME CleanDestroys
               PROVE  /\ \A v \in Vms : MountGoes(v)' /\ SeedGoes(v)'
                      /\ \A t \in Threads : FindsOff(t)'
  BY <1>1 DEF SeedsGo, CleanDestroys, NothingLeaks, Clouds, CdGiven, OneDriver, May,
              MountGoes, SeedGoes, FindsOff, Filling, Looking, Live
<1>3. /\ \A v \in Vms : MountGoes(v) /\ SeedGoes(v)
      /\ \A t \in Threads : FindsOff(t)
  BY <1>2 DEF SeedsGo, MountGoes, SeedGoes, FindsOff, Filling, Looking
<1>4. /\ OneDriver /\ NothingLeaks /\ ~May("zfs_destroy") /\ ~May("umount")
      /\ \A t \in Threads : DiskOf(t)
      /\ 0 \notin Vms
      /\ \A t \in Threads : pc[t] # "idle" <=> vm[t] \in Vms
  BY <1>2, StorageAssumption DEF CleanDestroys, DiskFirst, DiskOf, TypeOK
<1>5. ASSUME NEW t \in Threads, ThreadStep(t) \/ Begins(t)
      PROVE  /\ \A v \in Vms : MountGoes(v)' /\ SeedGoes(v)'
             /\ \A s \in Threads : FindsOff(s)'
  <2>1. ASSUME NEW v \in Vms PROVE MountGoes(v)' /\ SeedGoes(v)'
    <3>1. CASE v # vm[t]
      BY <1>3, <1>5, <3>1, OtherGoes
    <3>2. CASE v = vm[t]
      BY <1>3, <1>4, <1>5, <3>2, OwnMount, OwnSeedGoes
    <3> QED
      BY <3>1, <3>2
  <2>2. FindsOff(t)'
    BY <1>3, <1>5, OwnFindsOff
  <2>3. ASSUME NEW s \in Threads \ {t} PROVE FindsOff(s)'
    <3>1. pc'[s] = pc[s] /\ vm'[s] = vm[s]
      BY <1>5, ThreadIsLocal DEF LocalStep
    <3>2. ASSUME pc[s] # "idle", NEW i \in Instances, vmOf'[i] = vm[s], Live(i)'
          PROVE  vmOf[i] = vm[s] /\ Live(i)
      <4>1. vm[s] \in Vms /\ ~(Spawn(t) /\ vm[s] = vm[t])
        BY <1>4, <1>5, <3>2, Apart DEF Spawn, At
      <4> QED
        BY <1>5, <3>2, <4>1, ThreadLives
    <3> QED
      BY <1>3, <3>1, <3>2 DEF FindsOff
  <2> QED
    BY <2>1, <2>2, <2>3
<1>6. ASSUME NEW i \in Instances, ReaperStep(i) \/ ProcStep(i)
      PROVE  /\ \A v \in Vms : MountGoes(v)' /\ SeedGoes(v)'
             /\ \A s \in Threads : FindsOff(s)'
  <2>1. /\ UNCHANGED <<pc, locals, disk, mounted>>
        /\ \A j \in Instances : /\ Live(j)' => Live(j)
                                /\ vmOf'[j] = vmOf[j] \/ vmOf'[j] = 0
        /\ seed' = seed \/ (/\ ReapSeed(i)
                            /\ seed' = [seed EXCEPT ![vmOf[i]] =
                                           IF SeedBusy(vmOf[i]) THEN @ ELSE "none"])
    BY <1>6, AsideVolumes, AsideIsNobody
  <2>2. \A v \in Vms : seed'[v] # "none" => seed[v] # "none"
    BY <2>1 DEF TypeOK
  <2>3. \A v \in Vms : MountGoes(v)' /\ SeedGoes(v)'
    BY <1>3, <2>1, <2>2 DEF MountGoes, SeedGoes, Filling, Looking, locals
  <2>4. ASSUME NEW s \in Threads PROVE FindsOff(s)'
    <3>1. pc[s] # "idle" => vm[s] # 0
      BY <1>4
    <3> QED
      BY <1>3, <2>1, <3>1 DEF FindsOff, locals
  <2> QED
    BY <2>3, <2>4
<1>7. CASE Restart
  <2>1. restarts \in 0..0 /\ restarts < scenario.restarts /\ scenario.restarts = 0
    BY <1>4, <1>7 DEF NothingLeaks, Restart, TypeOK
  <2> QED
    BY <2>1
<1> QED
  BY <1>5, <1>6, <1>7
-----------------------------------------------------------------------------
(* The invariant as a whole. *)

(* Nothing runs yet, and the VMs that are there have whole disks. *)
LEMMA InitInv == Init => Inv
<1> SUFFICES ASSUME Init PROVE Inv
  OBVIOUS
<1>1. /\ scenario \in Scenarios /\ scenario.created \in Options
      /\ scenario.restarts \in Nat /\ IsInjective(scenario.created.passthru)
      /\ 0 \notin Vms
  BY StorageAssumption DEF Init
<1>2. /\ \A t \in Threads : pc[t] = "idle" /\ vm[t] = 0 /\ req[t] = NoRequest
                            /\ cfg[t] = NoOptions
      /\ \A i \in Instances : /\ bhyve[i] = "free" /\ swtpm[i] = "free" /\ vmOf[i] = 0
                              /\ reaper[i] = "none" /\ ~seeded[i]
      /\ \A v \in Vms : /\ pidfile[v] = 0 /\ tpmfile[v] = 0 /\ socket[v] = 0
                        /\ options[v] = scenario.created /\ seed[v] = "none" /\ ~mounted[v]
                        /\ disk[v] = "none" => ~scenario.created.complete
      /\ image = "none"
  BY DEF Init
<1>3. IsInjective(NoOptions.passthru) /\ ~NoOptions.iso
  BY DEF NoOptions, IsInjective
<1>4. TypeOK
  <2>1. Volumes
    BY <1>1 DEF Init, Volumes
  <2>2. Procs
    BY <1>1, <1>2 DEF Init, Procs, ReaperPCs, Live
  <2>3. Locals
    BY NoOptionsType DEF Init, Locals, PCs
  <2> QED
    BY <1>1, <1>2, <2>1, <2>2, <2>3, TypeParts
<1>5. SlotsDistinct
  BY <1>2 DEF SlotsDistinct, At
<1>6. Belongs
  BY <1>2 DEF Belongs, Referred
<1>7. NoLeaks
  BY <1>1, <1>2, <1>3 DEF NoLeaks, NothingLeaks, CdGiven
<1>8. SeedsGo
  BY <1>2 DEF SeedsGo
<1>9. ImageWhole
  BY <1>2 DEF ImageWhole
<1>10. NoDuplicates
  BY <1>1, <1>2, <1>3 DEF NoDuplicates
<1>11. DiskFirst
  BY <1>2 DEF DiskFirst, CreatePCs
<1>12. SeedFirst
  BY <1>2 DEF SeedFirst, NoRequest
<1>13. \A t \in Threads : Requested(t) /\ Holds(t)
  BY <1>2 DEF Requested, Holds, HoldPCs, StartPCs
<1>14. \A i \in Instances : Reaping(i)
  BY <1>2 DEF Reaping
<1> QED
  BY <1>4, <1>5, <1>6, <1>7, <1>8, <1>9, <1>10, <1>11, <1>12, <1>13, <1>14 DEF Inv

(* Every step keeps every part. *)
LEMMA NextInv == Inv /\ Next => Inv'
<1> SUFFICES ASSUME Inv, Next PROVE Inv'
  OBVIOUS
<1>1. \/ \E t \in Threads : ThreadStep(t) \/ Begins(t)
      \/ \E i \in Instances : ReaperStep(i) \/ ProcStep(i)
      \/ Restart
  BY DEF Next, Begins
<1>2. TypeOK /\ ProcInv /\ NoDuplicates /\ \A t \in Threads : Requested(t)
  BY TypeParts DEF Inv, ProcInv
<1>3. NoLeaks /\ SeedsGo /\ ImageWhole /\ DiskFirst /\ SeedFirst
  BY DEF Inv
<1>4. TypeOK' /\ \A t \in Threads : Requested(t)'
  BY <1>1, <1>2, TypesKept
<1>5. ProcInv'
  BY <1>1, <1>2, ProcsKept
<1>6. SlotsDistinct'
  <2> SUFFICES ASSUME NEW t \in Threads,
                      (Len(cfg[t].passthru) <= MaxPassthru(cfg[t]))'
               PROVE  OnBus(BusSlots(cfg[t], UsesSeed(t) /\ seed[vm[t]] # "none"))'
    BY DEF SlotsDistinct
  <2>1. PICK o, cdata : o = cfg'[t] /\ cdata = (UsesSeed(t) /\ seed[vm[t]] # "none")'
    OBVIOUS
  <2>2. o \in Options /\ cdata \in BOOLEAN
    BY <1>4, <2>1 DEF TypeOK
  <2>3. Len(o.passthru) <= MaxPassthru(o)
    BY <2>1 DEF MaxPassthru
  <2> QED
    BY <2>1, <2>2, <2>3, SlotsOnBus DEF OnBus, BusSlots
<1>7. NoLeaks' /\ SeedsGo' /\ ImageWhole' /\ NoDuplicates' /\ DiskFirst' /\ SeedFirst'
  BY <1>1, <1>2, <1>3, <1>5, NoLeaksKept, SeedsGoKept, ImageWholeKept, ListsKept, DiskFirstKept,
     SeedFirstKept
<1> QED
  BY <1>4, <1>5, <1>6, <1>7 DEF Inv, ProcInv

(* A step that changes nothing keeps it. *)
LEMMA StutterInv == Inv /\ UNCHANGED vars => Inv'
<1> SUFFICES ASSUME Inv, UNCHANGED vars PROVE Inv'
  OBVIOUS
<1>1. /\ UNCHANGED <<scenario, restarts, disk, options, seed, mounted, image>>
      /\ UNCHANGED <<bhyve, swtpm, vmOf, seeded, reaper, pidfile, tpmfile, socket>>
      /\ UNCHANGED <<pc, vm, req, cfg, inst, bad>>
  BY DEF vars, volumes, procs, files, locals, world
<1>2. TypeOK' /\ SlotsDistinct' /\ Belongs'
  BY <1>1 DEF Inv, TypeOK, SlotsDistinct, Belongs, Live, At, UsesSeed, Referred
<1>3. NoLeaks' /\ SeedsGo'
  BY <1>1 DEF Inv, NoLeaks, NothingLeaks, SeedsGo, CleanDestroys, OneDriver, Clouds, CdGiven, May,
              Live
<1>4. ImageWhole' /\ NoDuplicates' /\ DiskFirst' /\ SeedFirst'
  BY <1>1 DEF Inv, ImageWhole, Fetches, OneDriver, May, UsesSeed, NoDuplicates, DiskFirst,
              SeedFirst, Destroys
<1>5. \A t \in Threads : Requested(t)' /\ Holds(t)'
  BY <1>1 DEF Inv, Requested, Holds, Referred, Live
<1>6. \A i \in Instances : Reaping(i)'
  BY <1>1 DEF Inv, Reaping, Live
<1> QED
  BY <1>2, <1>3, <1>4, <1>5, <1>6 DEF Inv

-----------------------------------------------------------------------------
(* The theorems. *)

(* Whatever VMs, clients and faults there are, the invariant holds: the types; a slot
   of the bus for every device that fits (SlotsDistinct, bhyve.rs:1125-1187); no device
   twice in a list; an instance, its processes and its files belong to one VM, one start
   and one reaper; and what each call relies on. *)
THEOREM InvHolds == Spec => []Inv
<1>1. Inv /\ [Next]_vars => Inv'
  BY NextInv, StutterInv
<1> QED
  BY <1>1, InitInv, PTL DEF Spec

(* A VM that is off has left no instance, no file and no socket, when nothing leaks. *)
LEMMA NothingIsLeft ==
    ASSUME Inv, NothingLeaks, NEW v \in Vms, Settled(v), Off(v)
    PROVE  /\ \A i \in Instances : vmOf[i] # v
           /\ pidfile[v] = 0 /\ tpmfile[v] = 0 /\ socket[v] = 0
<1>1. Procs /\ NoLeaks /\ 0 \notin Vms /\ \A t \in Threads : Holds(t)
  BY TypeParts, StorageAssumption DEF Inv
<1>2. ASSUME NEW i \in Instances, vmOf[i] = v PROVE FALSE
  <2>1. reaper[i] = "none"
    BY <1>1, <1>2 DEF NoLeaks, Off
  <2>2. PICK t \in Threads : pc[t] \in HoldPCs /\ inst[t] = i
    BY <1>1, <1>2, <2>1 DEF NoLeaks
  <2>3. vm[t] = v
    BY <1>1, <1>2, <2>2 DEF Holds
  <2> QED
    BY <2>3 DEF Settled
<1>3. /\ pidfile[v] \in Instances \union {0} /\ tpmfile[v] \in Instances \union {0}
      /\ socket[v] \in Instances \union {0}
  BY <1>1 DEF Procs
<1> QED
  BY <1>1, <1>2, <1>3 DEF NoLeaks

(* No start of a VM that is off meets the TPM emulator of an earlier one
   (bhyve.rs:932-978, 1068-1093, 1257-1266). *)
THEOREM NeverRefused == Spec => []StartNotRefused
<1>1. Inv => StartNotRefused
  BY NothingIsLeft DEF StartNotRefused, TpmActive
<1> QED
  BY <1>1, InvHolds, PTL

(* No destroy leaves a seed, a mount, a process or a file behind that nobody is going to
   remove (bhyve.rs:1275-1303, 1333-1347). *)
THEOREM DestroyedGoes == Spec => []DestroyedIsGone
<1>1. Inv => DestroyedIsGone
  <2> SUFFICES ASSUME Inv, NEW v \in Vms, NothingLeaks, OneDriver, Settled(v), Off(v),
                      disk[v] = "none", ~May("zfs_destroy"), ~May("umount")
               PROVE  /\ seed[v] = "none" /\ ~mounted[v]
                      /\ \A i \in Instances : vmOf[i] # v
                      /\ pidfile[v] = 0 /\ tpmfile[v] = 0 /\ socket[v] = 0
    BY DEF DestroyedIsGone
  <2>1. seed[v] = "none" /\ ~mounted[v]
    BY DEF Inv, SeedsGo, CleanDestroys, Settled
  <2> QED
    BY <2>1, NothingIsLeft
<1> QED
  BY <1>1, InvHolds, PTL

(* The VM that create starts from a cloud image has the whole image and its seed
   (bhyve.rs:219-239, 561-572, 592-635, 778-782). *)
THEOREM CreateAlwaysDelivers == Spec => []CreateDelivers
<1>1. Inv => CreateDelivers
  BY DEF Inv, ImageWhole, SeedFirst, CreateDelivers, At
<1> QED
  BY <1>1, InvHolds, PTL

(* A client that has a VM for itself changes its list of passthrough devices by the one
   device it was asked to add or to remove (bhyve.rs:441-475). *)
THEOREM ListsChangeByOne == Spec => ListChangesByOne
<1> DEFINE Changes(v) == /\ OneDriver /\ disk[v] # "none" /\ disk'[v] # "none"
                         /\ options[v].complete /\ options'[v].passthru # options[v].passthru
           ByOne(v) == \E t \in Threads :
                          /\ vm[t] = v /\ req[t].op = "set"
                          /\ ToSet(options'[v].passthru) =
                                IF req[t].add # 0
                                THEN ToSet(options[v].passthru) \union {req[t].add}
                                ELSE ToSet(options[v].passthru) \ {req[t].remove}
<1>1. ASSUME Inv, Next, NEW v \in Vms, Changes(v) PROVE ByOne(v)
  <2>0. /\ TypeOK /\ NoDuplicates /\ options \in [Vms -> Options]
        /\ \A t \in Threads : Requested(t) /\ DiskOf(t)
    BY <1>1 DEF Inv, TypeOK, DiskFirst, DiskOf
  <2>1. PICK t \in Threads : ThreadStep(t) \/ Begins(t)
    <3>1. ASSUME NEW i \in Instances, ReaperStep(i) \/ ProcStep(i) PROVE FALSE
      BY <1>1, <2>0, <3>1, AsideVolumes
    <3>2. ~Restart
      BY <1>1 DEF Restart, volumes
    <3> QED
      BY <1>1, <3>1, <3>2 DEF Next, Begins
  <2>2. v = vm[t]
    BY <1>1, <2>0, <2>1, OwnVolumes
  <2>3. ~WriteMetadata(t) /\ ~ZfsDestroy(t)
    BY <1>1, <2>0, <2>2 DEF WriteMetadata, ZfsDestroy, At, DiskOf, TypeOK
  <2>4. ~WriteOptions(t)
    <3>1. SUFFICES ASSUME WriteOptions(t) PROVE FALSE
      OBVIOUS
    <3>2. PICK k \in 0..Len(req[t].writes) :
             options' = [options EXCEPT ![vm[t]] = Written(@, req[t], k)]
      BY <3>1 DEF WriteOptions
    <3>3. PICK w : w = Written(options[v], req[t], k)
      OBVIOUS
    <3>4. w.passthru = options[v].passthru /\ options'[v] = w
      BY <2>0, <2>2, <3>2, <3>3, WrittenType
    <3> QED
      BY <1>1, <3>4
  <2>5. WriteList(t)
    BY <1>1, <2>0, <2>1, <2>3, <2>4, OptionsStay
  <2>6. pc[t] = "write_list" /\ cfg[t] = options[v] /\ req[t].op = "set"
    BY <2>0, <2>2, <2>5 DEF WriteList, At, DiskOf, Requested, SetPCs
  <2>7. PICK new : new = IF req[t].add # 0 THEN Added(cfg[t].passthru, req[t].add)
                         ELSE Removed(cfg[t].passthru, req[t].remove)
    OBVIOUS
  <2>8. ToSet(new) = IF req[t].add # 0 THEN ToSet(cfg[t].passthru) \union {req[t].add}
                     ELSE ToSet(cfg[t].passthru) \ {req[t].remove}
    BY <2>0, <2>6, <2>7, WriteListIs
  <2>9. options'[v].passthru = new
    <3>1. options' = [options EXCEPT ![v].passthru = new]
      BY <1>1, <2>2, <2>5, <2>7 DEF WriteList
    <3> QED
      BY <2>0, <3>1 DEF Options
  <2> QED
    BY <2>2, <2>6, <2>8, <2>9
<1>2. Inv /\ [Next]_vars
      => [\A v \in Vms :
             OneDriver /\ disk[v] # "none" /\ disk'[v] # "none"
             /\ options[v].complete /\ options'[v].passthru # options[v].passthru
             => \E t \in Threads :
                   /\ vm[t] = v /\ req[t].op = "set"
                   /\ ToSet(options'[v].passthru) =
                         IF req[t].add # 0 THEN ToSet(options[v].passthru) \union {req[t].add}
                         ELSE ToSet(options[v].passthru) \ {req[t].remove}]_vars
  BY <1>1
<1> HIDE DEF Changes, ByOne
<1> QED
  BY <1>2, InvHolds, PTL DEF Spec, ListChangesByOne
=============================================================================
