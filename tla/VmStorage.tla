----------------------------- MODULE VmStorage -----------------------------
(* What a VM keeps outside its bhyve process: create, create_seed,         *)
(* provision_cloud_image, set_vm_options, destroy, and what start_inner,   *)
(* the reaper and stop do with the seed volume and the TPM emulator        *)
(* (src/src/bhyve.rs).  Taps, consoles and the kernel's VM are in          *)
(* VmLifecycle.  Every command is run by a connection thread or a reaper,  *)
(* with no lock on the volumes, the image cache or the files.              *)
EXTENDS VmOptions

CONSTANTS
    Vms,            \* names of the VMs
    Threads,        \* connection threads of the daemon
    Instances,      \* starts that have left something behind, a bound
    Scenarios       \* what clients ask for and what may go wrong, see below

Faults == {"zvol", "metadata", "fetch", "convert", "seed", "umount", "zfs_destroy",
           "tap", "check", "spawn", "pidfile", "tpmfile", "poweroff", "timeout"}

(* requests, with what decides of create's many options *)
Creates == [op: {"create"}, cloud: BOOLEAN, iso: BOOLEAN, vnc: BOOLEAN,
            tpm: BOOLEAN, start: BOOLEAN]
Sets == [op: {"set"}, writes: Seq(Fields \X BOOLEAN),
         add: Devices \union {0}, remove: Devices \union {0}]
Others == [op: {"none", "start", "stop", "destroy"}]

ASSUME StorageAssumption ==
    /\ Instances \subseteq Nat \ {0} /\ 0 \notin Vms
    /\ \A s \in Scenarios :
          /\ \A q \in s.requests : /\ q[1] \in Threads /\ q[3] \in Vms
                                   /\ q[2] \in Creates \union Sets \union Others
          /\ s.faults \subseteq Faults
          /\ s.restarts \in Nat
          /\ s.created \in Options      \* of the VMs that are there
          /\ IsInjective(s.created.passthru)

VARIABLES
    scenario,       \* requests: what each thread may be asked; faults: calls that may
                    \* fail, guests that may power off, timeouts; restarts: how often
                    \* the daemon may die; created: VMs that exist; fixed at Init
    disk,           \* each VM's zvol: none, blank, or its image in part or whole
    options,        \* the properties of the zvol
    seed,           \* seed/<name>: none, raw, empty (formatted) or filled
    mounted,        \* the seed is mounted for writing
    image,          \* /var/priosun/images/<file>: none, partial or whole
    bhyve, swtpm,   \* the processes of an instance: free, boot, run or zombie
    vmOf,           \* the VM an instance was started for, 0 when it is gone
    seeded,         \* the instance was started with its VM's seed
    reaper,         \* the next call of the thread that waits for the bhyve
    pidfile,        \* <name>/bhyve.pid
    tpmfile,        \* <name>/tpm.pid
    socket,         \* /run/swtpm/<name>: the instance that bound it, or 0
    pc,             \* the next call of each connection thread
    vm, req,        \* its request
    cfg,            \* its local copy of the options
    inst,           \* the instance it starts or waits for
    bad,            \* its local copy_result is an error
    restarts        \* daemon deaths so far

volumes == <<disk, options, seed, mounted, image>>
procs   == <<bhyve, swtpm, vmOf, seeded, reaper>>
files   == <<pidfile, tpmfile, socket>>
locals  == <<vm, req, cfg, inst, bad>>
world   == <<scenario, restarts>>
vars    == <<volumes, procs, files, pc, locals, world>>

CreatePCs == {"zvol", "metadata", "image", "fetch", "fetching", "convert",
              "seed_zvol", "seed_newfs", "seed_mount", "seed_fill", "seed_umount"}
SetPCs    == {"writes", "read_list", "write_list"}
StartPCs  == {"start", "tpm", "tap", "check", "spawn", "write_pid", "write_tpm"}
StopPCs   == {"stop", "wait_exit", "wait_cleanup", "kill_tpm", "rm_files",
              "zfs_destroy", "seed_look", "seed_destroy", "rm_dir"}
PCs       == {"idle"} \union CreatePCs \union SetPCs \union StartPCs \union StopPCs
ReaperPCs == {"none", "init", "wait", "tpm", "socket", "rm_pid", "rm_tpm", "seed"}

NoRequest == [op |-> "none"]

Init ==
    /\ scenario \in Scenarios
    /\ options = [v \in Vms |-> scenario.created]
    /\ disk = [v \in Vms |-> IF scenario.created.complete THEN "whole" ELSE "none"]
    /\ seed = [v \in Vms |-> "none"]
    /\ mounted = [v \in Vms |-> FALSE]
    /\ image = "none"
    /\ bhyve = [i \in Instances |-> "free"] /\ swtpm = [i \in Instances |-> "free"]
    /\ vmOf = [i \in Instances |-> 0]
    /\ seeded = [i \in Instances |-> FALSE]
    /\ reaper = [i \in Instances |-> "none"]
    /\ pidfile = [v \in Vms |-> 0] /\ tpmfile = [v \in Vms |-> 0]
    /\ socket = [v \in Vms |-> 0]
    /\ pc = [t \in Threads |-> "idle"]
    /\ vm = [t \in Threads |-> 0] /\ req = [t \in Threads |-> NoRequest]
    /\ cfg = [t \in Threads |-> NoOptions]
    /\ inst = [t \in Threads |-> 0] /\ bad = [t \in Threads |-> FALSE]
    /\ restarts = 0

May(fault) == fault \in scenario.faults

Goto(t, label) == pc' = [pc EXCEPT ![t] = label]

Return(t) == /\ Goto(t, "idle")
             /\ vm' = [vm EXCEPT ![t] = 0]
             /\ req' = [req EXCEPT ![t] = NoRequest]
             /\ cfg' = [cfg EXCEPT ![t] = NoOptions]
             /\ inst' = [inst EXCEPT ![t] = 0]
             /\ bad' = [bad EXCEPT ![t] = FALSE]

Begin(t, v, r, label) ==
    /\ pc[t] = "idle"
    /\ <<t, r, v>> \in scenario.requests
    /\ Goto(t, label)
    /\ vm' = [vm EXCEPT ![t] = v]
    /\ req' = [req EXCEPT ![t] = r]
    /\ UNCHANGED <<volumes, procs, files, cfg, inst, bad, world>>

At(t, label) == pc[t] = label

Live(i) == bhyve[i] # "free"

(* is_running *)
IsRunning(v) == \E i \in Instances : pidfile[v] = i /\ Live(i)

(* Ids that nothing refers to any more; they stand for two pids. *)
Unused == {i \in Instances : /\ bhyve[i] = "free" /\ swtpm[i] = "free"
                             /\ reaper[i] = "none"
                             /\ \A v \in Vms : i \notin {pidfile[v], tpmfile[v], socket[v]}
                             /\ \A t \in Threads : i # inst[t]}

-----------------------------------------------------------------------------
(* create *)

BeginCreate(t, v, r) ==
    /\ r.op = "create"
    /\ disk[v] = "none"
    /\ Begin(t, v, r, "zvol")

(* zfs create -V fails on a name that another create has taken meanwhile *)
CreateDisk(t) ==
    /\ At(t, "zvol")
    /\ \/ /\ disk[vm[t]] = "none"
          /\ disk' = [disk EXCEPT ![vm[t]] = "blank"]
          /\ Goto(t, "metadata") /\ UNCHANGED locals
       \/ /\ May("zvol") \/ disk[vm[t]] # "none"
          /\ Return(t) /\ UNCHANGED disk
    /\ UNCHANGED <<options, seed, mounted, image, procs, files, world>>

(* fifteen properties, one zfs set each: a failure leaves the first ones *)
WriteMetadata(t) ==
    /\ At(t, "metadata")
    /\ \/ /\ options' = [options EXCEPT ![vm[t]] = Created(req[t])]
          /\ IF req[t].cloud THEN Goto(t, "image") /\ UNCHANGED locals
             ELSE IF req[t].start THEN Goto(t, "start") /\ UNCHANGED locals
             ELSE Return(t)
       \/ May("metadata") /\ Return(t) /\ UNCHANGED options
    /\ UNCHANGED <<disk, seed, mounted, image, procs, files, world>>

(* provision_cloud_image: image.exists() *)
LookForImage(t) ==
    /\ At(t, "image")
    /\ Goto(t, IF image = "none" THEN "fetch" ELSE "convert")
    /\ UNCHANGED <<volumes, procs, files, locals, world>>

(* fetch -o writes the file under its final name *)
Fetch(t) ==
    /\ At(t, "fetch")
    /\ image' = "partial"
    /\ Goto(t, "fetching")
    /\ UNCHANGED <<disk, options, seed, mounted, procs, files, locals, world>>

(* The file is whole when its last writer is through; a failed fetch removes it,
   or leaves it when it is killed (external). *)
FetchEnds(t) ==
    /\ At(t, "fetching")
    /\ \/ /\ image' = IF image = "partial"
                         /\ \A s \in Threads \ {t} : ~At(s, "fetching")
                      THEN "whole" ELSE image
          /\ Goto(t, "convert") /\ UNCHANGED locals
       \/ /\ May("fetch")
          /\ image' \in {"none", "partial"}
          /\ Return(t)
    /\ UNCHANGED <<disk, options, seed, mounted, procs, files, world>>

(* qemu-img or unxz: they fail on an image in part, or convert the part (external) *)
Convert(t) ==
    /\ At(t, "convert")
    /\ \/ /\ image = "whole"
          /\ disk' = [disk EXCEPT ![vm[t]] = "whole"]
          /\ Goto(t, "seed_zvol") /\ UNCHANGED locals
       \/ /\ image = "partial"
          /\ disk' = [disk EXCEPT ![vm[t]] = "partial"]
          /\ Goto(t, "seed_zvol") /\ UNCHANGED locals
       \/ /\ May("convert") \/ image # "whole"
          /\ disk' = [disk EXCEPT ![vm[t]] = "partial"]
          /\ Return(t)
    /\ UNCHANGED <<options, seed, mounted, image, procs, files, world>>

(* create_seed: an orphan of the same name makes zfs create fail *)
CreateSeed(t) ==
    /\ At(t, "seed_zvol")
    /\ \/ /\ seed[vm[t]] = "none"
          /\ seed' = [seed EXCEPT ![vm[t]] = "raw"]
          /\ Goto(t, "seed_newfs") /\ UNCHANGED locals
       \/ /\ May("seed") \/ seed[vm[t]] # "none"
          /\ Return(t) /\ UNCHANGED seed
    /\ UNCHANGED <<disk, options, mounted, image, procs, files, world>>

FormatSeed(t) ==
    /\ At(t, "seed_newfs")
    /\ \/ /\ seed[vm[t]] # "none"
          /\ seed' = [seed EXCEPT ![vm[t]] = "empty"]
          /\ Goto(t, "seed_mount") /\ UNCHANGED locals
       \/ /\ May("seed") \/ seed[vm[t]] = "none"
          /\ Return(t) /\ UNCHANGED seed
    /\ UNCHANGED <<disk, options, mounted, image, procs, files, world>>

MountSeed(t) ==
    /\ At(t, "seed_mount")
    /\ \/ /\ seed[vm[t]] = "empty"
          /\ mounted' = [mounted EXCEPT ![vm[t]] = TRUE]
          /\ Goto(t, "seed_fill") /\ UNCHANGED locals
       \/ /\ May("seed") \/ seed[vm[t]] # "empty"
          /\ Return(t) /\ UNCHANGED mounted
    /\ UNCHANGED <<disk, options, seed, image, procs, files, world>>

(* copy_result: meta-data and user-data are written and parsed again *)
FillSeed(t) ==
    /\ At(t, "seed_fill")
    /\ \/ seed' = [seed EXCEPT ![vm[t]] = "filled"] /\ UNCHANGED bad
       \/ May("seed") /\ bad' = [bad EXCEPT ![t] = TRUE] /\ UNCHANGED seed
    /\ Goto(t, "seed_umount")
    /\ UNCHANGED <<disk, options, mounted, image, procs, files, vm, req, cfg, inst, world>>

(* mutant: copy_result is dropped *)
UnmountSeedForgets(t) ==
    /\ At(t, "seed_umount")
    /\ \/ /\ mounted' = [mounted EXCEPT ![vm[t]] = FALSE]
          /\ Goto(t, "start") /\ UNCHANGED locals
       \/ May("umount") /\ Return(t) /\ UNCHANGED mounted
    /\ UNCHANGED <<disk, options, seed, image, procs, files, world>>

(* umount comes first in any case, then copy_result?, unmount_result? *)
UnmountSeed(t) ==
    /\ At(t, "seed_umount")
    /\ \/ /\ mounted' = [mounted EXCEPT ![vm[t]] = FALSE]
          /\ IF bad[t] THEN Return(t) ELSE Goto(t, "start") /\ UNCHANGED locals
       \/ /\ May("umount")
          /\ Return(t) /\ UNCHANGED mounted
    /\ UNCHANGED <<disk, options, seed, image, procs, files, world>>

-----------------------------------------------------------------------------
(* set_vm_options *)

BeginSet(t, v, r) ==
    /\ r.op = "set"
    /\ Acceptable(r)
    /\ disk[v] # "none"
    /\ Begin(t, v, r, "writes")

(* An error between two writes leaves the first ones in effect. *)
WriteOptions(t) ==
    /\ At(t, "writes")
    /\ \E k \in 0..Len(req[t].writes) :
          /\ k = 0 \/ disk[vm[t]] # "none"
          /\ options' = [options EXCEPT ![vm[t]] = Written(@, req[t], k)]
          /\ IF k < Len(req[t].writes)
             THEN (May("metadata") \/ disk[vm[t]] = "none") /\ Return(t)
             ELSE IF req[t].add = 0 /\ req[t].remove = 0 THEN Return(t)
             ELSE Goto(t, "read_list") /\ UNCHANGED locals
    /\ UNCHANGED <<disk, seed, mounted, image, procs, files, world>>

ReadList(t) ==
    LET list == options[vm[t]].passthru IN
    /\ At(t, "read_list")
    /\ IF Has(list, req[t].add) \/ (req[t].remove # 0 /\ ~Has(list, req[t].remove))
       THEN Return(t)
       ELSE /\ cfg' = [cfg EXCEPT ![t] = options[vm[t]]]
            /\ Goto(t, "write_list") /\ UNCHANGED <<vm, req, inst, bad>>
    /\ UNCHANGED <<volumes, procs, files, world>>

(* zfs set of the new list, zfs inherit of an empty one *)
WriteList(t) ==
    LET list == cfg[t].passthru IN
    /\ At(t, "write_list")
    /\ \/ /\ disk[vm[t]] # "none"
          /\ options' = [options EXCEPT ![vm[t]].passthru =
                            IF req[t].add # 0 THEN Added(list, req[t].add)
                            ELSE Removed(list, req[t].remove)]
       \/ (May("metadata") \/ disk[vm[t]] = "none") /\ UNCHANGED options
    /\ Return(t)
    /\ UNCHANGED <<disk, seed, mounted, image, procs, files, world>>

-----------------------------------------------------------------------------
(* start_with_stack_mode without dependencies, and start_inner *)

UsesSeed(t) == req[t].op = "create" /\ req[t].cloud

BeginStart(t, v, r) ==
    /\ r.op = "start"
    /\ Begin(t, v, r, "start")

(* is_running is no error, a missing property is one.  Instances is a bound:
   a start waits while every instance has left something behind. *)
Start(t) ==
    /\ At(t, "start")
    /\ IF IsRunning(vm[t]) \/ ~options[vm[t]].complete THEN Return(t)
       ELSE \E i \in Unused :
               /\ \A j \in Unused : i <= j
               /\ inst' = [inst EXCEPT ![t] = i]
               /\ cfg' = [cfg EXCEPT ![t] = options[vm[t]]]
               /\ Goto(t, IF options[vm[t]].tpm THEN "tpm" ELSE "tap")
               /\ UNCHANGED <<vm, req, bad>>
    /\ UNCHANGED <<volumes, procs, files, world>>

(* tpm_socket_path with a socket in place: the process of tpm.pid exists, zombies
   included, or without a tpm.pid somebody accepts the connection *)
TpmActive(v) ==
    /\ socket[v] # 0
    /\ IF tpmfile[v] # 0 THEN swtpm[tpmfile[v]] # "free"
       ELSE swtpm[socket[v]] = "run"

(* a stale socket and its tpm.pid are removed, then swtpm is spawned *)
StartTpm(t) ==
    LET v == vm[t] IN
    /\ At(t, "tpm")
    /\ IF TpmActive(v) THEN Return(t) /\ UNCHANGED <<swtpm, vmOf, tpmfile, socket>>
       ELSE /\ tpmfile' = [tpmfile EXCEPT ![v] = IF socket[v] # 0 THEN 0 ELSE @]
            /\ socket' = [socket EXCEPT ![v] = 0]
            /\ swtpm' = [swtpm EXCEPT ![inst[t]] = "boot"]
            /\ vmOf' = [vmOf EXCEPT ![inst[t]] = v]
            /\ Goto(t, "tap") /\ UNCHANGED locals
    /\ UNCHANGED <<volumes, bhyve, seeded, reaper, pidfile, world>>

(* mutant: swtpm is left alone when there is no tap for the VM *)
UndoTpmNot(t) ==
    Return(t) /\ UNCHANGED <<swtpm, vmOf, socket>>

(* the clean-up of start_inner: kill, wait, remove_file of the socket *)
UndoTpm(t) ==
    /\ swtpm' = [swtpm EXCEPT ![inst[t]] = "free"]
    /\ vmOf' = [vmOf EXCEPT ![inst[t]] = 0]
    /\ socket' = [socket EXCEPT ![vm[t]] = IF cfg[t].tpm THEN 0 ELSE @]
    /\ Return(t)

(* configure_tap and the tap file, see VmLifecycle *)
ConfigureTap(t) ==
    /\ At(t, "tap")
    /\ \/ Goto(t, "check") /\ UNCHANGED <<swtpm, vmOf, socket, locals>>
       \/ May("tap") /\ UndoTpm(t)
    /\ UNCHANGED <<volumes, bhyve, seeded, reaper, pidfile, tpmfile, world>>

(* A seed and a CD are refused, and the firmware may be missing: these errors
   return with swtpm up.  The seed is used if it is there. *)
Check(t) ==
    /\ At(t, "check")
    /\ \/ ~(UsesSeed(t) /\ cfg[t].iso) /\ Goto(t, "spawn") /\ UNCHANGED locals
       \/ (May("check") \/ (UsesSeed(t) /\ cfg[t].iso)) /\ Return(t)
    /\ UNCHANGED <<volumes, procs, files, world>>

Spawn(t) ==
    /\ At(t, "spawn")
    /\ \/ /\ bhyve' = [bhyve EXCEPT ![inst[t]] = "boot"]
          /\ vmOf' = [vmOf EXCEPT ![inst[t]] = vm[t]]
          /\ seeded' = [seeded EXCEPT ![inst[t]] = UsesSeed(t)]
          /\ Goto(t, "write_pid")
          /\ UNCHANGED <<swtpm, socket, locals>>
       \/ May("spawn") /\ UndoTpm(t) /\ UNCHANGED <<bhyve, seeded>>
    /\ UNCHANGED <<volumes, reaper, pidfile, tpmfile, world>>

WritePidFile(t) ==
    /\ At(t, "write_pid")
    /\ \/ /\ pidfile' = [pidfile EXCEPT ![vm[t]] = inst[t]]
          /\ Goto(t, "write_tpm") /\ UNCHANGED locals
       \/ May("pidfile") /\ Return(t) /\ UNCHANGED pidfile
    /\ UNCHANGED <<volumes, procs, tpmfile, socket, world>>

(* the last file that may fail; then the reaper takes over both processes *)
WriteTpmFile(t) ==
    /\ At(t, "write_tpm")
    /\ \/ /\ tpmfile' = [tpmfile EXCEPT ![vm[t]] = IF cfg[t].tpm THEN inst[t] ELSE @]
          /\ reaper' = [reaper EXCEPT ![inst[t]] = "wait"]
       \/ cfg[t].tpm /\ May("tpmfile") /\ UNCHANGED <<tpmfile, reaper>>
    /\ Return(t)
    /\ UNCHANGED <<volumes, bhyve, swtpm, vmOf, seeded, pidfile, socket, world>>

-----------------------------------------------------------------------------
(* the processes (external) *)

(* swtpm binds its socket, and ends when the path is taken *)
BindSocket(i) ==
    LET v == vmOf[i] IN
    /\ swtpm[i] = "boot"
    /\ IF socket[v] = 0
       THEN swtpm' = [swtpm EXCEPT ![i] = "run"] /\ socket' = [socket EXCEPT ![v] = i]
       ELSE swtpm' = [swtpm EXCEPT ![i] = "zombie"] /\ UNCHANGED socket
    /\ UNCHANGED <<volumes, bhyve, vmOf, seeded, reaper, pidfile, tpmfile, pc, locals, world>>

(* bhyve connects to the socket it was given, and ends without one *)
Connected(i) ==
    LET j == socket[vmOf[i]] IN
    CASE swtpm[i] = "free" -> TRUE
      [] swtpm[i] # "free" /\ j = 0 -> FALSE
      [] OTHER -> swtpm[j] = "run"

Boot(i) ==
    /\ bhyve[i] = "boot"
    /\ bhyve' = [bhyve EXCEPT ![i] = IF Connected(i) THEN "run" ELSE "zombie"]
    /\ UNCHANGED <<volumes, swtpm, vmOf, seeded, reaper, files, pc, locals, world>>

(* the guest powers off, by itself or on the SIGTERM of a stop *)
Exit(i) ==
    /\ bhyve[i] = "run"
    /\ May("poweroff") \/ \E t \in Threads : At(t, "wait_exit") /\ inst[t] = i
    /\ bhyve' = [bhyve EXCEPT ![i] = "zombie"]
    /\ UNCHANGED <<volumes, swtpm, vmOf, seeded, reaper, files, pc, locals, world>>

Gone(i) == /\ vmOf' = [vmOf EXCEPT ![i] = 0]
           /\ seeded' = [seeded EXCEPT ![i] = FALSE]

(* init waits for the children of a daemon that died *)
InitReaps(i) ==
    /\ reaper[i] = "init" /\ bhyve[i] # "boot"
    /\ \/ bhyve[i] = "zombie" \/ swtpm[i] = "zombie"
    /\ LET b == IF bhyve[i] = "zombie" THEN "free" ELSE bhyve[i]
           s == IF swtpm[i] = "zombie" THEN "free" ELSE swtpm[i]
       IN /\ bhyve' = [bhyve EXCEPT ![i] = b]
          /\ swtpm' = [swtpm EXCEPT ![i] = s]
          /\ IF b = "free" /\ s = "free"
             THEN Gone(i) /\ reaper' = [reaper EXCEPT ![i] = "none"]
             ELSE UNCHANGED <<vmOf, seeded, reaper>>
    /\ UNCHANGED <<volumes, files, pc, locals, world>>

-----------------------------------------------------------------------------
(* the reaper thread *)

ReaperAt(i, from, to) ==
    /\ reaper[i] = from
    /\ reaper' = [reaper EXCEPT ![i] = to]
    /\ UNCHANGED <<pc, locals, world>>

Reap(i) ==
    /\ bhyve[i] = "zombie"
    /\ ReaperAt(i, "wait", IF swtpm[i] # "free" THEN "tpm" ELSE "rm_pid")
    /\ bhyve' = [bhyve EXCEPT ![i] = "free"]
    /\ UNCHANGED <<volumes, swtpm, vmOf, seeded, files>>

ReapTpm(i) ==
    /\ ReaperAt(i, "tpm", "socket")
    /\ swtpm' = [swtpm EXCEPT ![i] = "free"]
    /\ UNCHANGED <<volumes, bhyve, vmOf, seeded, files>>

ReapSocket(i) ==
    /\ ReaperAt(i, "socket", "rm_pid")
    /\ socket' = [socket EXCEPT ![vmOf[i]] = 0]
    /\ UNCHANGED <<volumes, bhyve, swtpm, vmOf, seeded, pidfile, tpmfile>>

ReapPidFile(i) ==
    /\ ReaperAt(i, "rm_pid", "rm_tpm")
    /\ pidfile' = [pidfile EXCEPT ![vmOf[i]] = 0]
    /\ UNCHANGED <<volumes, bhyve, swtpm, vmOf, seeded, tpmfile, socket>>

ReapTpmFile(i) ==
    /\ ReaperAt(i, "rm_tpm", IF seeded[i] THEN "seed" ELSE "none")
    /\ tpmfile' = [tpmfile EXCEPT ![vmOf[i]] = 0]
    /\ IF seeded[i] THEN UNCHANGED <<vmOf, seeded>> ELSE Gone(i)
    /\ UNCHANGED <<volumes, bhyve, swtpm, pidfile, socket>>

(* zfs destroy -f: the device is busy while it is mounted or a bhyve has it *)
SeedBusy(v) == \/ mounted[v]
               \/ \E i \in Instances : Live(i) /\ vmOf[i] = v /\ seeded[i]

(* The seed is named after the VM: whichever there is now goes. *)
ReapSeed(i) ==
    LET v == vmOf[i] IN
    /\ ReaperAt(i, "seed", "none")
    /\ \/ seed' = [seed EXCEPT ![v] = IF SeedBusy(v) THEN @ ELSE "none"]
       \/ May("zfs_destroy") /\ UNCHANGED seed
    /\ Gone(i)
    /\ UNCHANGED <<disk, options, mounted, image, bhyve, swtpm, files>>

-----------------------------------------------------------------------------
(* stop and destroy *)

BeginStop(t, v, r) ==
    /\ r.op = "stop" \/ (r.op = "destroy" /\ disk[v] # "none")
    /\ Begin(t, v, r, "stop")

(* read_config comes first, for destroy too: a VM that lacks a property can be
   neither stopped nor destroyed.  Then SIGTERM to the process of the pid file. *)
Stop(t) ==
    LET i == pidfile[vm[t]] IN
    /\ At(t, "stop")
    /\ IF ~options[vm[t]].complete THEN Return(t)
       ELSE /\ Goto(t, IF i # 0 THEN "wait_exit" ELSE "kill_tpm")
            /\ inst' = [inst EXCEPT ![t] = i]
            /\ UNCHANGED <<vm, req, cfg, bad>>
    /\ UNCHANGED <<volumes, procs, files, world>>

(* wait_for_exit polls the process, wait_for_cleanup the pid file *)
Waited(t) ==
    /\ \/ At(t, "wait_exit") /\ ~Live(inst[t]) /\ Goto(t, "wait_cleanup")
       \/ At(t, "wait_cleanup") /\ pidfile[vm[t]] = 0 /\ Goto(t, "kill_tpm")
    /\ UNCHANGED <<volumes, procs, files, locals, world>>

WaitTimesOut(t) ==
    /\ May("timeout")
    /\ \/ At(t, "wait_exit") /\ Live(inst[t])
       \/ At(t, "wait_cleanup") /\ pidfile[vm[t]] # 0
    /\ Return(t)
    /\ UNCHANGED <<volumes, procs, files, world>>

(* kill -TERM of the process in tpm.pid; its parent has yet to wait for it *)
KillTpm(t) ==
    LET i == tpmfile[vm[t]] IN
    /\ At(t, "kill_tpm")
    /\ swtpm' = [j \in Instances |->
                   IF j = i /\ swtpm[j] # "free" THEN "zombie" ELSE swtpm[j]]
    /\ Goto(t, "rm_files")
    /\ UNCHANGED <<volumes, bhyve, vmOf, seeded, reaper, files, locals, world>>

RemoveFiles(t) ==
    /\ At(t, "rm_files")
    /\ pidfile' = [pidfile EXCEPT ![vm[t]] = 0]
    /\ tpmfile' = [tpmfile EXCEPT ![vm[t]] = 0]
    /\ IF req[t].op = "destroy" THEN Goto(t, "zfs_destroy") /\ UNCHANGED locals
       ELSE Return(t)
    /\ UNCHANGED <<volumes, procs, socket, world>>

(* zfs destroy -r -f fails while a bhyve has the zvol open *)
ZfsDestroy(t) ==
    LET v == vm[t] IN
    /\ At(t, "zfs_destroy")
    /\ \/ /\ \A i \in Instances : ~(Live(i) /\ vmOf[i] = v)
          /\ disk' = [disk EXCEPT ![v] = "none"]
          /\ options' = [options EXCEPT ![v] = NoOptions]
          /\ Goto(t, "seed_look") /\ UNCHANGED locals
       \/ /\ May("zfs_destroy") \/ \E i \in Instances : Live(i) /\ vmOf[i] = v
          /\ Return(t) /\ UNCHANGED <<disk, options>>
    /\ UNCHANGED <<seed, mounted, image, procs, files, world>>

(* mutant: only stop's own VMs have a seed *)
LookForSeedNot(t) ==
    /\ At(t, "seed_look")
    /\ Goto(t, "rm_dir")
    /\ UNCHANGED <<volumes, procs, files, locals, world>>

LookForSeed(t) ==
    /\ At(t, "seed_look")
    /\ Goto(t, IF seed[vm[t]] # "none" THEN "seed_destroy" ELSE "rm_dir")
    /\ UNCHANGED <<volumes, procs, files, locals, world>>

(* fails when the reaper has been here since *)
DestroySeed(t) ==
    LET v == vm[t] IN
    /\ At(t, "seed_destroy")
    /\ \/ /\ seed[v] # "none" /\ ~SeedBusy(v)
          /\ seed' = [seed EXCEPT ![v] = "none"]
          /\ Goto(t, "rm_dir") /\ UNCHANGED locals
       \/ /\ May("zfs_destroy") \/ seed[v] = "none" \/ SeedBusy(v)
          /\ Return(t) /\ UNCHANGED seed
    /\ UNCHANGED <<disk, options, mounted, image, procs, files, world>>

RemoveRuntimeDir(t) ==
    /\ At(t, "rm_dir")
    /\ pidfile' = [pidfile EXCEPT ![vm[t]] = 0]
    /\ tpmfile' = [tpmfile EXCEPT ![vm[t]] = 0]
    /\ Return(t)
    /\ UNCHANGED <<volumes, procs, socket, world>>

-----------------------------------------------------------------------------
(* The daemon dies: the threads go with their locals; processes, volumes, mounts
   and files stay, and init inherits the processes. *)
Restart ==
    /\ restarts < scenario.restarts
    /\ restarts' = restarts + 1
    /\ pc' = [t \in Threads |-> "idle"]
    /\ vm' = [t \in Threads |-> 0] /\ req' = [t \in Threads |-> NoRequest]
    /\ cfg' = [t \in Threads |-> NoOptions]
    /\ inst' = [t \in Threads |-> 0] /\ bad' = [t \in Threads |-> FALSE]
    /\ LET Left(i) == Live(i) \/ swtpm[i] # "free" IN
       /\ reaper' = [i \in Instances |-> IF Left(i) THEN "init" ELSE "none"]
       /\ vmOf' = [i \in Instances |-> IF Left(i) THEN vmOf[i] ELSE 0]
       /\ seeded' = [i \in Instances |-> Left(i) /\ seeded[i]]
    /\ UNCHANGED <<volumes, bhyve, swtpm, files, scenario>>

CreateStep(t) ==
    \/ CreateDisk(t) \/ WriteMetadata(t) \/ LookForImage(t) \/ Fetch(t)
    \/ FetchEnds(t) \/ Convert(t) \/ CreateSeed(t) \/ FormatSeed(t)
    \/ MountSeed(t) \/ FillSeed(t) \/ UnmountSeed(t)

SetStep(t) == WriteOptions(t) \/ ReadList(t) \/ WriteList(t)

StartStep(t) ==
    \/ Start(t) \/ StartTpm(t) \/ ConfigureTap(t) \/ Check(t) \/ Spawn(t)
    \/ WritePidFile(t) \/ WriteTpmFile(t)

StopStep(t) ==
    \/ Stop(t) \/ Waited(t) \/ WaitTimesOut(t) \/ KillTpm(t) \/ RemoveFiles(t)
    \/ ZfsDestroy(t) \/ LookForSeed(t) \/ DestroySeed(t) \/ RemoveRuntimeDir(t)

ThreadStep(t) == CreateStep(t) \/ SetStep(t) \/ StartStep(t) \/ StopStep(t)

ReaperStep(i) == \/ Reap(i) \/ ReapTpm(i) \/ ReapSocket(i) \/ ReapPidFile(i)
                 \/ ReapTpmFile(i) \/ ReapSeed(i)

ProcStep(i) == BindSocket(i) \/ Boot(i) \/ Exit(i) \/ InitReaps(i)

Next ==
    \/ \E t \in Threads :
          \/ ThreadStep(t)
          \/ \E q \in scenario.requests :
                \/ BeginCreate(t, q[3], q[2]) \/ BeginSet(t, q[3], q[2])
                \/ BeginStart(t, q[3], q[2]) \/ BeginStop(t, q[3], q[2])
    \/ \E i \in Instances : ReaperStep(i) \/ ProcStep(i)
    \/ Restart

Spec == Init /\ [][Next]_vars

-----------------------------------------------------------------------------
(* The variables hold what their comments say. *)
TypeOK ==
    /\ scenario \in Scenarios
    /\ disk \in [Vms -> {"none", "blank", "partial", "whole"}]
    /\ options \in [Vms -> Options]
    /\ seed \in [Vms -> {"none", "raw", "empty", "filled"}]
    /\ mounted \in [Vms -> BOOLEAN]
    /\ image \in {"none", "partial", "whole"}
    /\ {bhyve, swtpm} \subseteq [Instances -> {"free", "boot", "run", "zombie"}]
    /\ vmOf \in [Instances -> Vms \union {0}]
    /\ seeded \in [Instances -> BOOLEAN]
    /\ reaper \in [Instances -> ReaperPCs]
    /\ \A i \in Instances : reaper[i] # "none" \/ Live(i) \/ swtpm[i] # "free"
                            <=> vmOf[i] \in Vms
    /\ {pidfile, tpmfile, socket} \subseteq [Vms -> Instances \union {0}]
    /\ pc \in [Threads -> PCs]
    /\ vm \in [Threads -> Vms \union {0}] /\ DOMAIN req = Threads
    /\ \A t \in Threads : pc[t] # "idle" <=> vm[t] \in Vms
    /\ cfg \in [Threads -> Options]
    /\ inst \in [Threads -> Instances \union {0}]
    /\ bad \in [Threads -> BOOLEAN]
    /\ restarts \in 0..scenario.restarts

Settled(v) == \A t \in Threads : vm[t] # v

(* nothing of v runs and no reaper has still to clean up after it *)
Off(v) == \A i \in Instances : vmOf[i] = v => ~Live(i) /\ reaper[i] \in {"none", "init"}

OneDriver == \A p, q \in scenario.requests : p[3] = q[3] => p[1] = q[1]

Clouds == \E q \in scenario.requests : q[2].op = "create" /\ q[2].cloud

Destroys == \E q \in scenario.requests : q[2].op = "destroy"

(* Somebody gives a VM a CD. *)
CdGiven ==
    \/ scenario.created.iso
    \/ \E q \in scenario.requests :
          \/ q[2].op = "create" /\ q[2].iso
          \/ q[2].op = "set" /\ <<"iso", TRUE>> \in ToSet(q[2].writes)

(* The errors of start_inner after which swtpm stays do not happen, and the daemon
   does not die. *)
NothingLeaks ==
    /\ \A fault \in {"check", "pidfile", "tpmfile"} : ~May(fault)
    /\ ~(Clouds /\ CdGiven)
    /\ scenario.restarts = 0

(* A VM that is off can be started again: no socket and no tpm.pid of an earlier
   start make tpm_socket_path refuse it (bhyve.rs:932-978, 1068-1093, 1257-1266). *)
StartNotRefused ==
    \A v \in Vms : NothingLeaks /\ Settled(v) /\ Off(v) => ~TpmActive(v)

(* What has been destroyed is gone: once the requests and the reapers of a VM are
   through and its zvol does not exist, no seed, mount, process, socket or file
   does (bhyve.rs:1275-1303, 1333-1347). *)
DestroyedIsGone ==
    \A v \in Vms :
        /\ NothingLeaks /\ OneDriver /\ Settled(v) /\ Off(v) /\ disk[v] = "none"
        /\ ~May("zfs_destroy") /\ ~May("umount")
        => /\ seed[v] = "none" /\ ~mounted[v]
           /\ \A i \in Instances : vmOf[i] # v
           /\ pidfile[v] = 0 /\ tpmfile[v] = 0 /\ socket[v] = 0

(* fetch is not interrupted, and nobody else needs the image at that time *)
Fetches == /\ ~May("fetch") /\ scenario.restarts = 0
           /\ \A p, q \in scenario.requests :
                 p[2].op = "create" /\ q[2].op = "create" => p[1] = q[1]

(* The VM that create starts with its seed has a whole image on its disk, unless
   another client destroys it meanwhile, and a seed that was written to its end and
   is not mounted any more, unless an earlier VM of that name was destroyed: its
   reaper may come late
   (bhyve.rs:219-239, 561-572, 592-635, 778-782). *)
CreateDelivers ==
    \A t \in Threads :
        At(t, "start") /\ UsesSeed(t)
        => /\ Fetches /\ OneDriver => disk[vm[t]] = "whole"
           /\ OneDriver /\ ~Destroys => seed[vm[t]] = "filled" /\ ~mounted[vm[t]]

(* One client at a time changes the list of a VM by one device: what others have
   been promised stays (bhyve.rs:441-475). *)
ListChangesByOne ==
    [][\A v \in Vms :
          OneDriver /\ disk[v] # "none" /\ disk'[v] # "none"
          /\ options[v].complete /\ options'[v].passthru # options[v].passthru
          => \E t \in Threads :
                /\ vm[t] = v /\ req[t].op = "set"
                /\ ToSet(options'[v].passthru) =
                      IF req[t].add # 0 THEN ToSet(options[v].passthru) \union {req[t].add}
                      ELSE ToSet(options[v].passthru) \ {req[t].remove}]_vars

(* bhyve gets every device on a slot of its own, up to the number of passthrough
   devices that fit; the code does not look (bhyve.rs:1125-1187). *)
SlotsDistinct ==
    \A t \in Threads :
        At(t, "spawn") /\ Len(cfg[t].passthru) <= MaxPassthru(cfg[t])
        => OnBus(BusSlots(cfg[t], UsesSeed(t) /\ seed[vm[t]] # "none"))

-----------------------------------------------------------------------------
(* What the calls of a command rely on, each for its own part. *)

(* The request decides where a thread may be. *)
Requested(t) ==
    IF pc[t] = "idle" THEN req[t] = NoRequest
    ELSE /\ <<t, req[t], vm[t]>> \in scenario.requests
         /\ pc[t] \in CreatePCs => req[t].op = "create"
         /\ pc[t] \in CreatePCs \ {"zvol", "metadata"} => req[t].cloud
         /\ pc[t] \in SetPCs => req[t].op = "set"
         /\ pc[t] \in StartPCs => req[t].op \in {"create", "start"}
         /\ pc[t] \in StopPCs => req[t].op \in {"stop", "destroy"}
         /\ pc[t] \in {"zfs_destroy", "seed_look", "seed_destroy"} => req[t].op = "destroy"

Referred(v) == {pidfile[v], tpmfile[v], socket[v]}

HoldPCs == StartPCs \ {"start"}

(* A start has its instance for itself, with the processes that it has spawned. *)
Holds(t) ==
    LET i == inst[t] IN
    pc[t] \in HoldPCs =>
       /\ i \in Instances /\ reaper[i] = "none" /\ vmOf[i] \in {0, vm[t]}
       /\ \A s \in Threads \ {t} : pc[s] \in HoldPCs => inst[s] # i
       /\ \A v \in Vms \ {vm[t]} : i \notin Referred(v)
       /\ pc[t] = "tpm" => vmOf[i] = 0 /\ cfg[t].tpm
       /\ pc[t] # "tpm" => (cfg[t].tpm <=> swtpm[i] # "free")
       /\ IF pc[t] \in {"write_pid", "write_tpm"} THEN Live(i) ELSE ~Live(i) /\ ~seeded[i]

(* The files of a VM name no instance of another. *)
Belongs == \A v \in Vms : \A i \in Referred(v) \ {0} : vmOf[i] \in {0, v}

(* A reaper's call comes after the end of the processes it cleans up after. *)
Reaping(i) ==
    /\ reaper[i] = "wait" => Live(i)
    /\ reaper[i] = "tpm" => ~Live(i) /\ swtpm[i] # "free"
    /\ reaper[i] \in {"socket", "rm_pid", "rm_tpm", "seed"} => ~Live(i) /\ swtpm[i] = "free"
    /\ reaper[i] = "init" => Live(i) \/ swtpm[i] # "free"
    /\ reaper[i] = "seed" => seeded[i]
    /\ vmOf[i] = 0 => ~seeded[i]

(* When nothing leaks, every instance has its start or its reaper, and each of them
   removes the files that name it. *)
NoLeaks ==
    NothingLeaks =>
       /\ \A i \in Instances :
             /\ reaper[i] # "init"
             /\ vmOf[i] \in Vms /\ reaper[i] = "none" =>
                   \E t \in Threads : pc[t] \in HoldPCs /\ inst[t] = i
       /\ \A v \in Vms :
             /\ pidfile[v] # 0 =>
                   /\ vmOf[pidfile[v]] = v
                   /\ \/ reaper[pidfile[v]] \in {"wait", "tpm", "socket", "rm_pid"}
                      \/ \E t \in Threads : pc[t] = "write_tpm" /\ inst[t] = pidfile[v]
             /\ tpmfile[v] # 0 =>
                   /\ vmOf[tpmfile[v]] = v
                   /\ reaper[tpmfile[v]] \in {"wait", "tpm", "socket", "rm_pid", "rm_tpm"}
             /\ socket[v] # 0 =>
                   /\ vmOf[socket[v]] = v
                   /\ swtpm[socket[v]] # "free" \/ reaper[socket[v]] = "socket"
       /\ Clouds => /\ \A v \in Vms : ~options[v].iso
                    /\ \A t \in Threads : ~cfg[t].iso

CleanDestroys ==
    NothingLeaks /\ OneDriver /\ ~May("zfs_destroy") /\ ~May("umount")

(* What is left of a VM that is destroyed, the destroy that looks for it has still
   to come to, and finds it in nobody's use. *)
SeedsGo ==
    CleanDestroys =>
       /\ \A v \in Vms :
             /\ mounted[v] => \E t \in Threads : vm[t] = v /\ pc[t] \in {"seed_fill", "seed_umount"}
             /\ seed[v] # "none" /\ disk[v] = "none" =>
                   \E t \in Threads : vm[t] = v /\ pc[t] \in {"seed_look", "seed_destroy"}
       /\ \A t \in Threads :
             pc[t] \in {"seed_look", "seed_destroy"} =>
                \A i \in Instances : vmOf[i] = vm[t] => ~Live(i)

(* One create at a time has the image for itself, and its own disk. *)
ImageWhole ==
    Fetches =>
       /\ image = "partial" => \E t \in Threads : pc[t] = "fetching"
       /\ \A t \in Threads :
             /\ pc[t] = "fetching" => image = "partial"
             /\ pc[t] = "convert" => image = "whole"
             /\ OneDriver /\ (\/ pc[t] \in {"seed_zvol", "seed_newfs", "seed_mount", "seed_fill",
                                            "seed_umount"}
                              \/ pc[t] = "start" /\ UsesSeed(t))
                => disk[vm[t]] = "whole"

(* No device is twice in a list, whoever changes it. *)
NoDuplicates ==
    /\ \A v \in Vms : IsInjective(options[v].passthru)
    /\ \A t \in Threads :
          /\ IsInjective(cfg[t].passthru)
          /\ pc[t] = "write_list" => ~Has(cfg[t].passthru, req[t].add)

(* The disk of a VM that is being created is there; its options come later. *)
DiskFirst ==
    OneDriver =>
       /\ \A v \in Vms : disk[v] = "none" => ~options[v].complete
       /\ \A t \in Threads :
             /\ pc[t] \in CreatePCs \ {"zvol"} => disk[vm[t]] # "none"
             /\ pc[t] = "metadata" => ~options[vm[t]].complete
             /\ pc[t] = "write_list" => cfg[t] = options[vm[t]]

(* Where nothing is destroyed, no reaper of an earlier VM meets the seed of a new one. *)
SeedFirst ==
    OneDriver /\ ~Destroys =>
       /\ \A v \in Vms, i \in Instances : vmOf[i] = v /\ seeded[i] => disk[v] # "none"
       /\ \A t \in Threads :
             /\ req[t].op = "create" /\ pc[t] # "zvol" => disk[vm[t]] # "none"
             /\ req[t].op = "create" /\ pc[t] \in (CreatePCs \ {"zvol"}) \union {"start"} =>
                   \A i \in Instances : vmOf[i] = vm[t] => ~seeded[i]
             /\ pc[t] = "seed_mount" => seed[vm[t]] = "empty"
             /\ pc[t] = "seed_umount" /\ ~bad[t] => seed[vm[t]] = "filled"
             /\ pc[t] = "start" /\ UsesSeed(t) => seed[vm[t]] = "filled" /\ ~mounted[vm[t]]

(* The variables have their types, bhyve's arguments no two devices in a slot, and
   each call finds what it relies on. *)
Inv ==
    /\ TypeOK /\ SlotsDistinct /\ Belongs /\ NoLeaks
    /\ SeedsGo /\ ImageWhole /\ NoDuplicates /\ DiskFirst /\ SeedFirst
    /\ \A t \in Threads : Requested(t) /\ Holds(t)
    /\ \A i \in Instances : Reaping(i)
=============================================================================
