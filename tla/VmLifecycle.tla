---------------------------- MODULE VmLifecycle ----------------------------
(* Starting and stopping VMs without a TPM or a seed volume: start_inner,   *)
(* the thread it leaves behind to reap bhyve, stop and is_running of        *)
(* src/src/bhyve.rs.  The connection threads of priosund, the reapers, the  *)
(* bhyve processes and their guests all run concurrently, and nothing locks *)
(* the files under /var/run/priosun/vm/<name> through which they meet.      *)
EXTENDS Net

CONSTANTS
    Vms,            \* names of the VMs
    Pids,           \* process ids the kernel may hand out
    Threads,        \* connection threads of the daemon
    Scenarios       \* what clients ask for and what may go wrong, see below

VmFaults == {"create", "set_up", "bridge", "tapfile", "check", "spawn",
             "pidfile", "poweroff", "timeout"}

ASSUME VmAssumption ==
    /\ Pids \subseteq Nat \ {0}
    /\ None \notin Vms
    /\ Scenarios \subseteq
          [requests: SUBSET (Threads \X {"start", "stop"} \X Vms),
           faults: SUBSET VmFaults,
           restarts: Nat]

VARIABLES
    scenario,       \* requests: what each thread may be asked; faults: calls that
                    \* may fail, guests that may power off, timeouts; restarts:
                    \* how often the daemon may die (a bound); fixed at Init
    proc,           \* each bhyve process: free, boot, run or zombie
    vmOf,           \* the VM a process was started for
    kvm,            \* the process that runs the kernel's VM of that name
    pidfile,        \* <name>/bhyve.pid
    tapfile,        \* <name>/tap
    console,        \* SERIAL_CONSOLES: the process at the other end of the PTY
    reaper,         \* the next call of the thread that waits for a process,
                    \* init when the daemon that had that thread is dead
    reaperTap,      \* the tap that thread captured
    pc,             \* the next call of each connection thread
    vm,             \* the VM of its request, or None
    tap,            \* its local tap
    pid,            \* its local pid
    restarts        \* daemon deaths so far

procs   == <<proc, vmOf, kvm>>
files   == <<pidfile, tapfile>>
reapers == <<reaper, reaperTap>>
locals  == <<vm, tap, pid>>
world   == <<scenario, restarts>>
vars    == <<netVars, procs, files, console, reapers, pc, locals, world>>

StartPCs  == {"guard", "create_tap", "set_up", "bridge_add", "write_tap",
              "check", "console", "spawn", "write_pid"}
FailPCs   == {"drop_bridge", "drop_tap",
              "fail_bridge", "fail_tap", "fail_file", "fail_console"}
StopPCs   == {"wait_exit", "wait_cleanup", "read_tap", "stop_bridge",
              "stop_tap", "rm_pid", "rm_tap"}
PCs       == {"idle"} \union StartPCs \union FailPCs \union StopPCs
ReaperPCs == {"none", "init", "wait", "console", "bhyvectl", "bridge", "tap",
              "rm_pid", "rm_tap"}

Init ==
    /\ scenario \in Scenarios
    /\ NetInit
    /\ proc = [p \in Pids |-> "free"]
    /\ vmOf = [p \in Pids |-> None]
    /\ kvm = [v \in Vms |-> None]
    /\ pidfile = [v \in Vms |-> None]
    /\ tapfile = [v \in Vms |-> None]
    /\ console = [v \in Vms |-> None]
    /\ reaper = [p \in Pids |-> "none"]
    /\ reaperTap = [p \in Pids |-> None]
    /\ pc = [t \in Threads |-> "idle"]
    /\ vm = [t \in Threads |-> None]
    /\ tap = [t \in Threads |-> None]
    /\ pid = [t \in Threads |-> None]
    /\ restarts = 0

Asked(t, operation, v) == <<t, operation, v>> \in scenario.requests

MayFail(call) == call \in scenario.faults

Goto(t, label) == pc' = [pc EXCEPT ![t] = label]

Return(t) == /\ Goto(t, "idle")
             /\ vm' = [vm EXCEPT ![t] = None]
             /\ tap' = [tap EXCEPT ![t] = None]
             /\ pid' = [pid EXCEPT ![t] = None]

Live(p) == proc[p] \in {"boot", "run"}

(* is_running: kill -0 of the pid in the pid file, which a zombie answers too *)
IsRunning(v) == \E p \in Pids : pidfile[v] = p /\ proc[p] # "free"

(* Pids are handed out consecutively: one that is still written down, or still
   held by a thread, is not used again. *)
FreePids == {p \in Pids : /\ proc[p] = "free" /\ reaper[p] = "none"
                          /\ \A v \in Vms : p # pidfile[v] /\ p # console[v]
                          /\ \A t \in Threads : p # pid[t]}

(* net::bridge_delete and net::destroy as destroy_tap calls them, errors ignored *)
DropFromBridge(u) == BridgeDelete(u) \/ (u \notin bridge /\ UNCHANGED netVars)
DropInterface(u) == DestroyInterface(u) \/ (u \notin ifaces /\ UNCHANGED netVars)

-----------------------------------------------------------------------------
(* start_with_stack_mode without dependencies, then start_inner.  Pids is a
   bound: nobody asks for a start when every pid is taken. *)
BeginStart(t, v) ==
    /\ pc[t] = "idle"
    /\ Asked(t, "start", v)
    /\ ~IsRunning(v)
    /\ FreePids # {}
    /\ Goto(t, "guard")
    /\ vm' = [vm EXCEPT ![t] = v]
    /\ UNCHANGED <<netVars, procs, files, console, reapers, tap, pid, world>>

(* the second look of start_inner: "VM is already running" *)
Guard(t) ==
    /\ pc[t] = "guard"
    /\ IF IsRunning(vm[t]) THEN Return(t)
                           ELSE Goto(t, "create_tap") /\ UNCHANGED locals
    /\ UNCHANGED <<netVars, procs, files, console, reapers, world>>

CreateTap(t) ==
    /\ pc[t] = "create_tap"
    /\ \E u \in Units : CreateInterface(u) /\ tap' = [tap EXCEPT ![t] = u]
    /\ Goto(t, "set_up")
    /\ UNCHANGED <<procs, files, console, reapers, vm, pid, world>>

CreateTapFails(t) ==
    /\ pc[t] = "create_tap"
    /\ MayFail("create") \/ ifaces = Units
    /\ Return(t)
    /\ UNCHANGED <<netVars, procs, files, console, reapers, world>>

SetUpTap(t) ==
    /\ pc[t] = "set_up"
    /\ tap[t] \in ifaces
    /\ Goto(t, "bridge_add")
    /\ UNCHANGED <<netVars, procs, files, console, reapers, locals, world>>

AddToBridge(t) ==
    /\ pc[t] = "bridge_add"
    /\ BridgeAdd(tap[t])
    /\ Goto(t, "write_tap")
    /\ UNCHANGED <<procs, files, console, reapers, locals, world>>

(* configure_tap returns early and leaves the tap it created *)
ConfigureTapFails(t) ==
    /\ \/ pc[t] = "set_up" /\ (MayFail("set_up") \/ tap[t] \notin ifaces)
       \/ pc[t] = "bridge_add" /\ (MayFail("bridge") \/ tap[t] \notin ifaces \ bridge)
    /\ Return(t)
    /\ UNCHANGED <<netVars, procs, files, console, reapers, world>>

WriteTapFile(t) ==
    /\ pc[t] = "write_tap"
    /\ \/ /\ tapfile' = [tapfile EXCEPT ![vm[t]] = tap[t]]
          /\ Goto(t, "check")
       \/ /\ MayFail("tapfile")
          /\ Goto(t, "drop_bridge")
          /\ UNCHANGED tapfile
    /\ UNCHANGED <<netVars, procs, pidfile, console, reapers, locals, world>>

(* The MAC is drawn and stored, the arguments are put together and the firmware
   is looked for: an error here returns with the tap up and written down. *)
Check(t) ==
    /\ pc[t] = "check"
    /\ \/ Goto(t, "console") /\ UNCHANGED locals
       \/ MayFail("check") /\ Return(t)
    /\ UNCHANGED <<netVars, procs, files, console, reapers, world>>

(* create_serial_console and register_serial_console; the process that will
   hold the other end is the one spawned next, so its pid is picked here *)
RegisterConsole(t) ==
    /\ pc[t] = "console"
    /\ \E p \in FreePids :
          /\ \A q \in FreePids : p <= q
          /\ pid' = [pid EXCEPT ![t] = p]
          /\ console' = [console EXCEPT ![vm[t]] = p]
    /\ Goto(t, "spawn")
    /\ UNCHANGED <<netVars, procs, files, reapers, vm, tap, world>>

Spawn(t) ==
    /\ pc[t] = "spawn"
    /\ proc' = [proc EXCEPT ![pid[t]] = "boot"]
    /\ vmOf' = [vmOf EXCEPT ![pid[t]] = vm[t]]
    /\ Goto(t, "write_pid")
    /\ UNCHANGED <<netVars, kvm, files, console, reapers, locals, world>>

(* mutant: the error of spawn returned with "?" *)
SpawnFailsReturns(t) ==
    /\ pc[t] = "spawn"
    /\ MayFail("spawn")
    /\ Return(t)
    /\ UNCHANGED <<netVars, procs, files, console, reapers, world>>

SpawnFails(t) ==
    /\ pc[t] = "spawn"
    /\ MayFail("spawn")
    /\ Goto(t, "fail_bridge")
    /\ UNCHANGED <<netVars, procs, files, console, reapers, locals, world>>

(* mutant: the child is waited for only by the start that was attached to it *)
WritePidFileAlone(t) ==
    /\ pc[t] = "write_pid"
    /\ pidfile' = [pidfile EXCEPT ![vm[t]] = pid[t]]
    /\ Return(t)
    /\ UNCHANGED <<netVars, procs, tapfile, console, reapers, world>>

(* The pid file is written only now, and the reaper thread takes over the child
   and the tap. *)
WritePidFile(t) ==
    /\ pc[t] = "write_pid"
    /\ pidfile' = [pidfile EXCEPT ![vm[t]] = pid[t]]
    /\ reaper' = [reaper EXCEPT ![pid[t]] = "wait"]
    /\ reaperTap' = [reaperTap EXCEPT ![pid[t]] = tap[t]]
    /\ Return(t)
    /\ UNCHANGED <<netVars, procs, tapfile, console, world>>

(* "?": bhyve runs on, and nobody waits for it *)
WritePidFileFails(t) ==
    /\ pc[t] = "write_pid"
    /\ MayFail("pidfile")
    /\ Return(t)
    /\ UNCHANGED <<netVars, procs, files, console, reapers, world>>

(* the clean-up when the tap file could not be written, or bhyve not spawned *)
FailBridge(t) ==
    /\ \/ pc[t] = "drop_bridge" /\ Goto(t, "drop_tap")
       \/ pc[t] = "fail_bridge" /\ Goto(t, "fail_tap")
    /\ DropFromBridge(tap[t])
    /\ UNCHANGED <<procs, files, console, reapers, locals, world>>

FailTap(t) ==
    /\ \/ pc[t] = "drop_tap" /\ Return(t)
       \/ pc[t] = "fail_tap" /\ Goto(t, "fail_file") /\ UNCHANGED locals
    /\ DropInterface(tap[t])
    /\ UNCHANGED <<procs, files, console, reapers, world>>

FailFile(t) ==
    /\ pc[t] = "fail_file"
    /\ tapfile' = [tapfile EXCEPT ![vm[t]] = None]
    /\ Goto(t, "fail_console")
    /\ UNCHANGED <<netVars, procs, pidfile, console, reapers, locals, world>>

FailConsole(t) ==
    /\ pc[t] = "fail_console"
    /\ console' = [console EXCEPT ![vm[t]] = None]
    /\ Return(t)
    /\ UNCHANGED <<netVars, procs, files, reapers, world>>

-----------------------------------------------------------------------------
(* bhyve and its guest (external) *)

(* The process enters the kernel's VM of its name, one left behind included;
   it exits when another process is running that VM. *)
Boot(p) ==
    LET v == vmOf[p] IN
    /\ proc[p] = "boot"
    /\ IF kvm[v] = None
       THEN kvm' = [kvm EXCEPT ![v] = p] /\ proc' = [proc EXCEPT ![p] = "run"]
       ELSE UNCHANGED kvm /\ proc' = [proc EXCEPT ![p] = "zombie"]
    /\ UNCHANGED <<netVars, vmOf, files, console, reapers, pc, locals, world>>

Leave(p) == kvm' = [v \in Vms |-> IF kvm[v] = p THEN None ELSE kvm[v]]

(* The guest powers off by itself, on the SIGTERM of a stop, or because the
   kernel's VM was destroyed under it. *)
Exit(p) ==
    /\ proc[p] = "run"
    /\ \/ MayFail("poweroff")
       \/ \E t \in Threads : pc[t] \in {"wait_exit"} /\ pid[t] = p
       \/ kvm[vmOf[p]] # p
    /\ proc' = [proc EXCEPT ![p] = "zombie"]
    /\ Leave(p)
    /\ UNCHANGED <<netVars, vmOf, files, console, reapers, pc, locals, world>>

(* init reaps the processes of a daemon that died *)
InitReaps(p) ==
    /\ reaper[p] = "init" /\ proc[p] = "zombie"
    /\ proc' = [proc EXCEPT ![p] = "free"]
    /\ vmOf' = [vmOf EXCEPT ![p] = None]
    /\ reaper' = [reaper EXCEPT ![p] = "none"]
    /\ UNCHANGED <<netVars, kvm, files, console, reaperTap, pc, locals, world>>

-----------------------------------------------------------------------------
(* the reaper thread *)

ReaperGoto(p, label) == /\ reaper' = [reaper EXCEPT ![p] = label]
                        /\ UNCHANGED reaperTap

Reap(p) ==
    /\ reaper[p] = "wait" /\ proc[p] = "zombie"
    /\ proc' = [proc EXCEPT ![p] = "free"]
    /\ ReaperGoto(p, "console")
    /\ UNCHANGED <<netVars, vmOf, kvm, files, console, pc, locals, world>>

(* mutant: without remove_serial_console *)
ReapConsoleKeeps(p) ==
    /\ reaper[p] = "console"
    /\ ReaperGoto(p, "bhyvectl")
    /\ UNCHANGED <<netVars, procs, files, console, pc, locals, world>>

ReapConsole(p) ==
    /\ reaper[p] = "console"
    /\ console' = [console EXCEPT ![vmOf[p]] = None]
    /\ ReaperGoto(p, "bhyvectl")
    /\ UNCHANGED <<netVars, procs, files, pc, locals, world>>

(* mutant: waits until the VM has gone from the kernel, its successor too *)
ReapKernelVmWaits(p) ==
    /\ reaper[p] = "bhyvectl"
    /\ IF kvm[vmOf[p]] \in {None, p}
       THEN kvm' = [kvm EXCEPT ![vmOf[p]] = None] /\ ReaperGoto(p, "bridge")
       ELSE UNCHANGED <<kvm, reaper, reaperTap>>
    /\ UNCHANGED <<netVars, proc, vmOf, files, console, pc, locals, world>>

(* bhyvectl --destroy names the VM, not the process that has exited *)
ReapKernelVm(p) ==
    /\ reaper[p] = "bhyvectl"
    /\ kvm' = [kvm EXCEPT ![vmOf[p]] = None]
    /\ ReaperGoto(p, "bridge")
    /\ UNCHANGED <<netVars, proc, vmOf, files, console, pc, locals, world>>

(* mutant: the tap is taken off the bridge and not destroyed *)
ReapBridgeOnly(p) ==
    /\ reaper[p] = "bridge"
    /\ DropFromBridge(reaperTap[p])
    /\ ReaperGoto(p, "rm_pid")
    /\ UNCHANGED <<procs, files, console, pc, locals, world>>

ReapBridge(p) ==
    /\ reaper[p] = "bridge"
    /\ DropFromBridge(reaperTap[p])
    /\ ReaperGoto(p, "tap")
    /\ UNCHANGED <<procs, files, console, pc, locals, world>>

ReapTap(p) ==
    /\ reaper[p] = "tap"
    /\ DropInterface(reaperTap[p])
    /\ ReaperGoto(p, "rm_pid")
    /\ UNCHANGED <<procs, files, console, pc, locals, world>>

ReapPidFile(p) ==
    /\ reaper[p] = "rm_pid"
    /\ pidfile' = [pidfile EXCEPT ![vmOf[p]] = None]
    /\ ReaperGoto(p, "rm_tap")
    /\ UNCHANGED <<netVars, procs, tapfile, console, pc, locals, world>>

ReapTapFile(p) ==
    /\ reaper[p] = "rm_tap"
    /\ tapfile' = [tapfile EXCEPT ![vmOf[p]] = None]
    /\ reaper' = [reaper EXCEPT ![p] = "none"]
    /\ reaperTap' = [reaperTap EXCEPT ![p] = None]
    /\ vmOf' = [vmOf EXCEPT ![p] = None]
    /\ UNCHANGED <<netVars, proc, kvm, pidfile, console, pc, locals, world>>

-----------------------------------------------------------------------------
(* stop *)

(* mutant: stop does not wait for bhyve to exit *)
BeginStopNoWait(t, v) ==
    /\ pc[t] = "idle"
    /\ Asked(t, "stop", v)
    /\ Goto(t, "read_tap")
    /\ vm' = [vm EXCEPT ![t] = v]
    /\ UNCHANGED <<netVars, procs, files, console, reapers, tap, pid, world>>

(* A pid file sends SIGTERM to the process (none is no error) and waits. *)
BeginStop(t, v) ==
    /\ pc[t] = "idle"
    /\ Asked(t, "stop", v)
    /\ IF pidfile[v] # None
       THEN Goto(t, "wait_exit") /\ pid' = [pid EXCEPT ![t] = pidfile[v]]
       ELSE Goto(t, "read_tap") /\ UNCHANGED pid
    /\ vm' = [vm EXCEPT ![t] = v]
    /\ UNCHANGED <<netVars, procs, files, console, reapers, tap, world>>

(* mutant: without wait_for_cleanup *)
WaitedForExitOnly(t) ==
    /\ pc[t] = "wait_exit" /\ proc[pid[t]] = "free"
    /\ Goto(t, "read_tap")
    /\ UNCHANGED <<netVars, procs, files, console, reapers, locals, world>>

(* wait_for_exit polls the process, wait_for_cleanup the pid file *)
Waited(t) ==
    /\ \/ /\ pc[t] = "wait_exit" /\ proc[pid[t]] = "free"
          /\ Goto(t, "wait_cleanup")
       \/ /\ pc[t] = "wait_cleanup" /\ pidfile[vm[t]] = None
          /\ Goto(t, "read_tap")
    /\ UNCHANGED <<netVars, procs, files, console, reapers, locals, world>>

(* 30 seconds have passed *)
WaitTimesOut(t) ==
    /\ MayFail("timeout")
    /\ \/ pc[t] = "wait_exit" /\ proc[pid[t]] # "free"
       \/ pc[t] = "wait_cleanup" /\ pidfile[vm[t]] # None
    /\ Return(t)
    /\ UNCHANGED <<netVars, procs, files, console, reapers, world>>

ReadTapFile(t) ==
    /\ pc[t] = "read_tap"
    /\ IF tapfile[vm[t]] # None
       THEN Goto(t, "stop_bridge") /\ tap' = [tap EXCEPT ![t] = tapfile[vm[t]]]
       ELSE Goto(t, "rm_pid") /\ UNCHANGED tap
    /\ UNCHANGED <<netVars, procs, files, console, reapers, vm, pid, world>>

StopBridge(t) ==
    /\ pc[t] = "stop_bridge"
    /\ DropFromBridge(tap[t])
    /\ Goto(t, "stop_tap")
    /\ UNCHANGED <<procs, files, console, reapers, locals, world>>

StopTap(t) ==
    /\ pc[t] = "stop_tap"
    /\ DropInterface(tap[t])
    /\ Goto(t, "rm_pid")
    /\ UNCHANGED <<procs, files, console, reapers, locals, world>>

RemovePidFile(t) ==
    /\ pc[t] = "rm_pid"
    /\ pidfile' = [pidfile EXCEPT ![vm[t]] = None]
    /\ Goto(t, "rm_tap")
    /\ UNCHANGED <<netVars, procs, tapfile, console, reapers, locals, world>>

RemoveTapFile(t) ==
    /\ pc[t] = "rm_tap"
    /\ tapfile' = [tapfile EXCEPT ![vm[t]] = None]
    /\ Return(t)
    /\ UNCHANGED <<netVars, procs, pidfile, console, reapers, world>>

-----------------------------------------------------------------------------
(* The daemon dies: its threads and the console registry go, processes, files
   and interfaces stay.  The next one starts with nothing to reap. *)
Restart ==
    /\ restarts < scenario.restarts
    /\ restarts' = restarts + 1
    /\ pc' = [t \in Threads |-> "idle"]
    /\ vm' = [t \in Threads |-> None]
    /\ tap' = [t \in Threads |-> None]
    /\ pid' = [t \in Threads |-> None]
    /\ reaper' = [p \in Pids |-> IF proc[p] = "free" THEN "none" ELSE "init"]
    /\ reaperTap' = [p \in Pids |-> None]
    /\ vmOf' = [p \in Pids |-> IF proc[p] = "free" THEN None ELSE vmOf[p]]
    /\ console' = [v \in Vms |-> None]
    /\ UNCHANGED <<netVars, proc, kvm, files, scenario>>

StartStep(t) ==
    \/ Guard(t) \/ CreateTap(t) \/ CreateTapFails(t) \/ SetUpTap(t)
    \/ AddToBridge(t) \/ ConfigureTapFails(t) \/ WriteTapFile(t) \/ Check(t)
    \/ RegisterConsole(t) \/ Spawn(t) \/ SpawnFails(t)
    \/ WritePidFile(t) \/ WritePidFileFails(t)
    \/ FailBridge(t) \/ FailTap(t) \/ FailFile(t) \/ FailConsole(t)

StopStep(t) ==
    \/ Waited(t) \/ WaitTimesOut(t) \/ ReadTapFile(t) \/ StopBridge(t)
    \/ StopTap(t) \/ RemovePidFile(t) \/ RemoveTapFile(t)

ReaperStep(p) ==
    \/ Reap(p) \/ ReapConsole(p) \/ ReapKernelVm(p) \/ ReapBridge(p)
    \/ ReapTap(p) \/ ReapPidFile(p) \/ ReapTapFile(p)

ProcStep(p) == Boot(p) \/ Exit(p) \/ InitReaps(p)

Next ==
    \/ \E t \in Threads : \/ StartStep(t) \/ StopStep(t)
                          \/ \E v \in Vms : BeginStart(t, v) \/ BeginStop(t, v)
    \/ \E p \in Pids : ReaperStep(p) \/ ProcStep(p)
    \/ Restart

Spec == Init /\ [][Next]_vars

(* Threads are scheduled, their calls return; a booted bhyve gets as far as
   its VM, and a process without its VM exits.  A guest need not obey. *)
FairSpec == /\ Spec
            /\ \A t \in Threads : WF_vars(StartStep(t) \/ StopStep(t))
            /\ \A p \in Pids : /\ WF_vars(ReaperStep(p))
                               /\ WF_vars(Boot(p)) /\ WF_vars(InitReaps(p))
            /\ \A p \in Pids : WF_vars(Exit(p) /\ kvm[vmOf[p]] # p)

-----------------------------------------------------------------------------
(* The variables hold what their comments say. *)
TypeOK ==
    /\ scenario \in Scenarios
    /\ NetTypeOK
    /\ proc \in [Pids -> {"free", "boot", "run", "zombie"}]
    /\ vmOf \in [Pids -> Vms \union {None}]
    /\ kvm \in [Vms -> Pids \union {None}]
    /\ pidfile \in [Vms -> Pids \union {None}]
    /\ tapfile \in [Vms -> Units \union {None}]
    /\ console \in [Vms -> Pids \union {None}]
    /\ reaper \in [Pids -> ReaperPCs]
    /\ reaperTap \in [Pids -> Units \union {None}]
    /\ pc \in [Threads -> PCs]
    /\ vm \in [Threads -> Vms \union {None}]
    /\ \A t \in Threads : pc[t] # "idle" => vm[t] \in Vms
    /\ tap \in [Threads -> Units \union {None}]
    /\ pid \in [Threads -> Pids \union {None}]
    /\ restarts \in 0..scenario.restarts

(* Every call that configure_tap, the checks before bhyve is spawned and the pid
   file make succeeds, and the daemon does not die: the other failures are the
   ones the code cleans up after. *)
NothingLeaks ==
    /\ \A call \in {"set_up", "bridge", "check", "pidfile"} : ~MayFail(call)
    /\ scenario.restarts = 0

(* One client does one thing at a time, and guests power off when they are asked
   to, in time: the reapers then finish before the next start. *)
Orderly ==
    /\ \A s, t \in Threads, o, p \in {"start", "stop"}, v, w \in Vms :
          Asked(s, o, v) /\ Asked(t, p, w) => s = t
    /\ ~MayFail("poweroff") /\ ~MayFail("timeout")
    /\ NothingLeaks

(* The bail of bhyve.rs:1047-1049, "VM is already running": no VM has two bhyve
   processes. *)
AtMostOneBhyve ==
    Orderly =>
    \A p, q \in Pids : p # q /\ Live(p) /\ Live(q) => vmOf[p] # vmOf[q]

(* Every tap that exists is destroyed by somebody (bhyve.rs:1084, 1226, 1263):
   a request that holds it, or the reaper of the process it belongs to. *)
NoOrphanTap ==
    NothingLeaks =>
    \A u \in ifaces :
        \/ \E t \in Threads : pc[t] # "idle" /\ tap[t] = u
        \/ \E p \in Pids : reaper[p] # "none" /\ reaperTap[p] = u

(* No request is working on v. *)
Settled(v) == \A t \in Threads : pc[t] # "idle" => vm[t] # v

(* The registry never keeps the PTY of a process that is gone: attach would wait
   for output that cannot come (bhyve.rs:1216, 1235, 1254). *)
ConsoleNotStale ==
    \A v \in Vms : LET p == console[v] IN
        p # None => \/ proc[p] # "free" \/ reaper[p] = "console"
                    \/ \E t \in Threads : pid[t] = p

(* A VM that no request is working on is whole or gone (bhyve.rs:1217-1266,
   1294-1302): of a bhyve that runs the daemon knows the process, its console can
   be attached to and its tap is on the bridge; without a process there is no
   pid file, tap file or console either. *)
SettledVm ==
    Orderly =>
    \A v \in Vms : Settled(v) =>
        /\ \A p \in Pids : vmOf[p] = v /\ proc[p] = "run" =>
              pidfile[v] = p /\ console[v] = p /\ reaperTap[p] \in bridge
        /\ (\A p \in Pids : vmOf[p] # v) =>
              pidfile[v] = None /\ tapfile[v] = None /\ console[v] = None

(* A bhyve process that has exited is reaped and cleaned up after, and is_running
   turns false, also when the daemon dies meanwhile; a process whose pid file could
   not be written has no reaper (bhyve.rs:1242, 1251-1266). *)
ExitedIsReaped ==
    \A p \in Pids :
        proc[p] = "zombie" /\ ~MayFail("pidfile")
        ~> proc[p] = "free" /\ reaper[p] = "none"

-----------------------------------------------------------------------------
(* Why NoOrphanTap is inductive.  A tap that is not in the bridge yet is some
   start's, which will add it; one in the bridge belongs to a start that has
   added it or to a reaper that has yet to destroy it.  A start that finds its
   tap gone, or in the bridge already, may then return at once: the name is
   somebody else's by now. *)
Configuring(t, u) == tap[t] = u /\ pc[t] \in {"set_up", "bridge_add"}

Holding(t, u) ==
    /\ tap[t] = u
    /\ pc[t] \in {"write_tap", "check", "console", "spawn", "write_pid",
                  "drop_bridge", "drop_tap", "fail_bridge", "fail_tap"}

Reaping(p, u) == /\ reaperTap[p] = u
                 /\ reaper[p] \in {"wait", "console", "bhyvectl", "bridge", "tap"}

Kept(u) == \/ \E t \in Threads : Holding(t, u)
           \/ \E p \in Pids : Reaping(p, u)

(* Somebody will destroy every tap, and whoever put it in the bridge is one. *)
TapsKept == \A u \in ifaces : \/ Kept(u)
                              \/ u \notin bridge /\ \E t \in Threads : Configuring(t, u)

(* The pid a start is about to write down is its own, and nobody reaps it yet. *)
PidsOwn ==
    \A t \in Threads : pc[t] \in {"spawn", "write_pid"} =>
        /\ reaper[pid[t]] = "none" /\ pid[t] # None
        /\ \A s \in Threads : pc[s] \in {"spawn", "write_pid"} /\ pid[s] = pid[t] => s = t

(* A start does not spawn a process before it has a pid of its own, and does not
   write it down after the process is gone. *)
SpawnedOnce ==
    /\ \A t \in Threads : /\ pc[t] = "spawn" => proc[pid[t]] = "free"
                          /\ pc[t] = "write_pid" => proc[pid[t]] # "free" /\ vmOf[pid[t]] = vm[t]
    /\ \A p \in Pids : reaper[p] \notin {"none", "init", "wait"} => proc[p] = "free"

(* Why ConsoleNotStale is inductive.  A console in the registry is of a process
   of its VM, whose reaper has yet to remove it, or of one that a start has yet to
   spawn, or to give up; the registry of a daemon that died is gone with it. *)
Backed(v, p) ==
    \/ \E t \in Threads :
          /\ pid[t] = p /\ vm[t] = v
          /\ pc[t] \in {"spawn", "fail_bridge", "fail_tap", "fail_file", "fail_console"}
    \/ /\ vmOf[p] = v
       /\ \/ proc[p] # "free" /\ reaper[p] \in {"none", "wait"}
          \/ reaper[p] = "console"

ConsolesBacked == \A v \in Vms : console[v] # None => Backed(v, console[v])

(* Why AtMostOneBhyve and SettledVm are inductive.  With one client, and guests
   that power off only when they are asked to, a process that has a VM is being
   started, is up, is on its way out while a stop waits for it, or has left no more
   than the tap file to its reaper. *)
Starting(p) == /\ reaper[p] = "none" /\ proc[p] \in {"boot", "run"}
               /\ \E t \in Threads : pc[t] = "write_pid" /\ pid[t] = p /\ vm[t] = vmOf[p]

Up(p) == reaper[p] = "wait" /\ proc[p] \in {"boot", "run"} /\ pidfile[vmOf[p]] = p

Awaited(p) == \E t \in Threads :
                 pc[t] \in {"wait_exit", "wait_cleanup"} /\ pid[t] = p /\ vm[t] = vmOf[p]

Going(p) == /\ pidfile[vmOf[p]] = p /\ Awaited(p)
            /\ \/ reaper[p] = "wait" /\ proc[p] = "zombie"
               \/ /\ reaper[p] \in {"console", "bhyvectl", "bridge", "tap", "rm_pid"}
                  /\ proc[p] = "free"

Gone(p) == reaper[p] = "rm_tap" /\ proc[p] = "free"

OneClient ==
    /\ \A t \in Threads : pc[t] # "idle" => \E o \in {"start", "stop"}, v \in Vms : Asked(t, o, v)
    /\ \A s, t \in Threads : pc[s] # "idle" /\ pc[t] # "idle" => s = t

ProcessesPlaced ==
    \A p \in Pids : IF vmOf[p] = None THEN proc[p] = "free" /\ reaper[p] = "none"
                     ELSE Starting(p) \/ Up(p) \/ Going(p) \/ Gone(p)

PidFilesRight ==
    /\ \A v \in Vms : pidfile[v] # None =>
          vmOf[pidfile[v]] = v /\ (Up(pidfile[v]) \/ Going(pidfile[v]))
    /\ \A t \in Threads : pc[t] \notin {"idle", "wait_exit", "wait_cleanup"} =>
          pidfile[vm[t]] = None
    /\ \A t \in Threads : pc[t] \in {"wait_exit", "wait_cleanup"} =>
          pid[t] \in Pids /\ vmOf[pid[t]] \in {vm[t], None}

KernelVms == \A v \in Vms, p \in Pids : kvm[v] = p <=> proc[p] = "run" /\ vmOf[p] = v

OneProcess == ProcessesPlaced /\ PidFilesRight /\ KernelVms

ConsoleKept ==
    /\ \A t \in Threads : pc[t] \in {"spawn", "write_pid"} => console[vm[t]] = pid[t]
    /\ \A p \in Pids : Up(p) /\ vmOf[p] # None => console[vmOf[p]] = p

(* The taps of starts and of reapers are their own, and what a stop reads from a
   tap file has been destroyed by the reaper. *)
ReaperTaps ==
    \A p \in Pids :
       /\ reaper[p] \in {"wait", "console", "bhyvectl", "bridge"} => reaperTap[p] \in bridge
       /\ reaper[p] = "tap" => reaperTap[p] \in ifaces
       /\ \A q \in Pids, u \in Units : Reaping(p, u) /\ Reaping(q, u) => p = q

RequestTaps ==
    \A t \in Threads :
       /\ pc[t] \in {"set_up", "bridge_add"} => tap[t] \in ifaces \ bridge
       /\ pc[t] \in {"write_tap", "check", "console", "spawn", "write_pid", "drop_bridge",
                     "fail_bridge"} => tap[t] \in bridge
       /\ pc[t] \in {"stop_bridge", "stop_tap"} => tap[t] \notin ifaces
       /\ \A p \in Pids, u \in Units : Holding(t, u) => ~Reaping(p, u)

FileUsed(v, u) ==
    \/ \E p \in Pids : pidfile[v] = p /\ Reaping(p, u)
    \/ \E t \in Threads :
          /\ vm[t] = v
          /\ \/ /\ pc[t] \in {"check", "console", "spawn", "write_pid", "fail_bridge",
                              "fail_tap", "fail_file"}
                /\ tap[t] = u
             \/ pc[t] \in {"wait_exit", "wait_cleanup", "read_tap"} /\ u \notin ifaces
             \/ pc[t] \in {"stop_bridge", "stop_tap", "rm_pid", "rm_tap"}

TapFiles == \A v \in Vms, u \in Units : tapfile[v] = u => FileUsed(v, u)

OwnTaps == ReaperTaps /\ RequestTaps /\ TapFiles

OneByOne == OneClient /\ OneProcess /\ ConsoleKept /\ OwnTaps

(* The inductive invariant: starts own their pids, every console is of a process or
   of a start and, while nothing leaks, somebody will destroy every tap; with one
   client a VM is up, or on its way up or down, or gone (bhyve.rs:1069-1302). *)
Inv == /\ TypeOK /\ PidsOwn /\ SpawnedOnce /\ ConsolesBacked
       /\ NothingLeaks => TapsKept
       /\ Orderly => OneByOne

-----------------------------------------------------------------------------
(* The life of a VM *)
AtCall(v, calls) == \E t \in Threads : vm[t] = v /\ pc[t] \in calls

(* Nothing of it runs, and no console can be attached. *)
NothingRuns(v) == console[v] = None /\ \A p \in Pids : vmOf[p] = v => ~Live(p)

(* The process in its pid file runs, has the console and a tap in the bridge, and is
   waited for. *)
Whole(v, p) == Live(p) /\ vmOf[p] = v /\ console[v] = p /\ reaper[p] = "wait"
               /\ reaperTap[p] \in bridge

PhaseOf(v) ==
    IF AtCall(v, StartPCs \union FailPCs) THEN "starting"
    ELSE IF pidfile[v] = None THEN IF NothingRuns(v) THEN "off" ELSE "broken"
    ELSE IF AtCall(v, {"wait_exit", "wait_cleanup"}) THEN "stopping"
    ELSE IF Whole(v, pidfile[v]) THEN "on" ELSE "broken"

Life == INSTANCE VmLife WITH orderly <- Orderly, phase <- [v \in Vms |-> PhaseOf(v)]

(* start and stop take a VM from off to on and back (bhyve.rs:1005-1304): a start that
   reports success, and nothing else, brings it on, whole; it stays whole until a stop, which
   leaves nothing that runs; the processes, reapers, files and the registry of the
   daemon implement the abstract specification. *)
LifeSpec == Life!Spec
=============================================================================
