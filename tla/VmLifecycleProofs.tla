------------------------- MODULE VmLifecycleProofs -------------------------
(* For all VMs, processes and clients: the types; no tap without a VM, no   *)
(* stale console, one bhyve for a VM, and a VM that is whole or gone after  *)
(* its requests, for all the failures whose clean-up the code has.          *)
EXTENDS VmLifecycle, TLAPS

(* What the proofs use of the assumptions on the constants. *)
LEMMA PidBounds == Pids \subseteq Nat \ {0}
  BY VmAssumption

(* The bound on restarts is a number. *)
LEMMA RestartBounds == \A sc \in Scenarios : sc.restarts \in Nat
  BY VmAssumption

(* Every step preserves the types. *)
LEMMA TypeStep == TypeOK /\ [Next]_vars => TypeOK'
<1> USE UnitsAssumption, PidBounds, RestartBounds DEF TypeOK, NetTypeOK, PCs, StartPCs,
        FailPCs, StopPCs, ReaperPCs, Goto, None, procs, files, reapers, locals, netVars, world
<1> SUFFICES ASSUME TypeOK, [Next]_vars
             PROVE  TypeOK'
  OBVIOUS
<1>1. CASE UNCHANGED vars
  BY <1>1 DEF vars
<1>2. ASSUME NEW t \in Threads, NEW v \in Vms, BeginStart(t, v) \/ BeginStop(t, v)
      PROVE  TypeOK'
  <2>1. CASE BeginStart(t, v)
    BY <2>1 DEF BeginStart
  <2>2. CASE BeginStop(t, v)
    BY <2>2 DEF BeginStop
  <2> QED BY <1>2, <2>1, <2>2
<1>3. ASSUME NEW t \in Threads, StartStep(t)
      PROVE  TypeOK'
  <2> USE DEF Return, DropFromBridge, DropInterface, BridgeDelete, DestroyInterface
  <2>1. CASE Guard(t)
    BY <2>1 DEF Guard
  <2>2. CASE CreateTap(t)
    BY <2>2 DEF CreateTap, CreateInterface
  <2>3. CASE CreateTapFails(t) \/ SetUpTap(t)
    BY <2>3, ZenonT(60) DEF CreateTapFails, SetUpTap
  <2>4. CASE AddToBridge(t)
    BY <2>4 DEF AddToBridge, BridgeAdd
  <2>5. CASE ConfigureTapFails(t)
    BY <2>5 DEF ConfigureTapFails
  <2>6. CASE WriteTapFile(t)
    BY <2>6 DEF WriteTapFile
  <2>7. CASE Check(t)
    BY <2>7 DEF Check
  <2>8. CASE RegisterConsole(t)
    <3>1. PICK p \in Pids : /\ pid' = [pid EXCEPT ![t] = p]
                            /\ console' = [console EXCEPT ![vm[t]] = p]
      BY <2>8 DEF RegisterConsole, FreePids
    <3> QED BY <2>8, <3>1 DEF RegisterConsole
  <2>9. CASE Spawn(t) \/ SpawnFails(t)
    BY <2>9, ZenonT(60) DEF Spawn, SpawnFails
  <2>10. CASE WritePidFile(t) \/ WritePidFileFails(t)
    BY <2>10, ZenonT(60) DEF WritePidFile, WritePidFileFails
  <2>11. CASE FailBridge(t)
    BY <2>11 DEF FailBridge
  <2>12. CASE FailTap(t)
    BY <2>12, ZenonT(60) DEF FailTap
  <2>13. CASE FailFile(t) \/ FailConsole(t)
    BY <2>13, ZenonT(60) DEF FailFile, FailConsole
  <2> QED BY <1>3, <2>1, <2>2, <2>3, <2>4, <2>5, <2>6, <2>7, <2>8, <2>9, <2>10,
             <2>11, <2>12, <2>13 DEF StartStep
<1>4. ASSUME NEW t \in Threads, StopStep(t)
      PROVE  TypeOK'
  <2> USE DEF Return, DropFromBridge, DropInterface, BridgeDelete, DestroyInterface
  <2>1. CASE Waited(t)
    BY <2>1 DEF Waited
  <2>1a. CASE WaitTimesOut(t)
    BY <2>1a DEF WaitTimesOut
  <2>2. CASE ReadTapFile(t)
    <3>1. tapfile[vm[t]] \in Units \union {None}
      BY <2>2 DEF ReadTapFile
    <3> QED BY <2>2, <3>1 DEF ReadTapFile
  <2>3. CASE StopBridge(t)
    BY <2>3 DEF StopBridge
  <2>4. CASE StopTap(t)
    BY <2>4 DEF StopTap
  <2>5. CASE RemovePidFile(t)
    BY <2>5 DEF RemovePidFile
  <2>6. CASE RemoveTapFile(t)
    BY <2>6 DEF RemoveTapFile
  <2> QED BY <1>4, <2>1, <2>1a, <2>2, <2>3, <2>4, <2>5, <2>6 DEF StopStep
<1>5. ASSUME NEW p \in Pids, ReaperStep(p)
      PROVE  TypeOK'
  <2> USE DEF ReaperGoto, DropFromBridge, DropInterface, BridgeDelete, DestroyInterface
  <2>1. CASE Reap(p) \/ ReapConsole(p) \/ ReapKernelVm(p)
    BY <2>1, ZenonT(60) DEF Reap, ReapConsole, ReapKernelVm
  <2>2. CASE ReapBridge(p)
    BY <2>2 DEF ReapBridge
  <2>3. CASE ReapTap(p)
    BY <2>3 DEF ReapTap
  <2>4. CASE ReapPidFile(p)
    BY <2>4 DEF ReapPidFile
  <2>5. CASE ReapTapFile(p)
    BY <2>5 DEF ReapTapFile
  <2> QED BY <1>5, <2>1, <2>2, <2>3, <2>4, <2>5 DEF ReaperStep
<1>6. ASSUME NEW p \in Pids, ProcStep(p)
      PROVE  TypeOK'
  <2>1. CASE Boot(p)
    BY <2>1 DEF Boot
  <2>2. CASE Exit(p)
    BY <2>2 DEF Exit, Leave
  <2>3. CASE InitReaps(p)
    BY <2>3 DEF InitReaps
  <2> QED BY <1>6, <2>1, <2>2, <2>3 DEF ProcStep
<1>7. CASE Restart
  BY <1>7 DEF Restart
<1> QED BY <1>1, <1>2, <1>3, <1>4, <1>5, <1>6, <1>7 DEF Next

(* The variables hold what their comments say, in every behaviour. *)
THEOREM TypeCorrect == Spec => []TypeOK
<1>1. Init => TypeOK
  BY UnitsAssumption, PidBounds, RestartBounds DEF Init, NetInit, TypeOK, NetTypeOK, PCs,
     ReaperPCs, None
<1> QED BY <1>1, TypeStep, PTL DEF Spec

-----------------------------------------------------------------------------
(* Two starts never share a pid, and no reaper has it yet. *)
LEMMA PidsOwnStep == TypeOK /\ PidsOwn /\ [Next]_vars => PidsOwn'
<1> USE PidBounds DEF PidsOwn, PCs, StartPCs, FailPCs, StopPCs, Goto,
        procs, files, reapers, locals, world, Return
<1> SUFFICES ASSUME TypeOK, PidsOwn, [Next]_vars
             PROVE  PidsOwn'
  OBVIOUS
<1>0. /\ pc \in [Threads -> PCs] /\ pid \in [Threads -> Pids \union {None}]
      /\ vm \in [Threads -> Vms \union {None}] /\ tap \in [Threads -> Units \union {None}]
      /\ reaper \in [Pids -> ReaperPCs]
  BY DEF TypeOK
<1> USE <1>0
<1>1. CASE UNCHANGED vars
  BY <1>1 DEF vars
<1>2. ASSUME NEW t \in Threads, NEW v \in Vms, BeginStart(t, v) \/ BeginStop(t, v)
      PROVE  PidsOwn'
  BY <1>2 DEF BeginStart, BeginStop
<1>3. ASSUME NEW t \in Threads, StartStep(t)
      PROVE  PidsOwn'
  <2>1. CASE Guard(t) \/ CreateTap(t) \/ CreateTapFails(t) \/ SetUpTap(t)
    BY <2>1 DEF Guard, CreateTap, CreateTapFails, SetUpTap
  <2>2. CASE AddToBridge(t) \/ ConfigureTapFails(t) \/ WriteTapFile(t) \/ Check(t)
    BY <2>2 DEF AddToBridge, ConfigureTapFails, WriteTapFile, Check
  <2>3. CASE RegisterConsole(t)
    <3>1. PICK p \in FreePids : pid' = [pid EXCEPT ![t] = p]
      BY <2>3 DEF RegisterConsole
    <3>2. reaper[p] = "none" /\ p \in Pids /\ p # None /\ \A s \in Threads : pid[s] # p
      BY <3>1 DEF FreePids, None
    <3> QED BY <2>3, <3>1, <3>2 DEF RegisterConsole
  <2>4. CASE Spawn(t) \/ SpawnFails(t) \/ WritePidFileFails(t)
    BY <2>4 DEF Spawn, SpawnFails, WritePidFileFails
  <2>5. CASE WritePidFile(t)
    BY <2>5 DEF WritePidFile
  <2>6. CASE FailBridge(t) \/ FailTap(t) \/ FailFile(t) \/ FailConsole(t)
    BY <2>6 DEF FailBridge, FailTap, FailFile, FailConsole
  <2> QED BY <1>3, <2>1, <2>2, <2>3, <2>4, <2>5, <2>6 DEF StartStep
<1>4. ASSUME NEW t \in Threads, StopStep(t)
      PROVE  PidsOwn'
  BY <1>4 DEF StopStep, Waited, WaitTimesOut, ReadTapFile, StopBridge, StopTap,
              RemovePidFile, RemoveTapFile
<1>5. ASSUME NEW p \in Pids, ReaperStep(p)
      PROVE  PidsOwn'
  <2>1. reaper[p] # "none" /\ pc' = pc /\ pid' = pid
    BY <1>5 DEF ReaperStep, Reap, ReapConsole, ReapKernelVm, ReapBridge, ReapTap,
                ReapPidFile, ReapTapFile
  <2>2. \A q \in Pids : q # p => reaper'[q] = reaper[q]
    BY <1>5 DEF ReaperStep, ReaperGoto, Reap, ReapConsole, ReapKernelVm, ReapBridge,
                ReapTap, ReapPidFile, ReapTapFile
  <2>3. \A t \in Threads : pc[t] \in {"spawn", "write_pid"} =>
           pid[t] \in Pids /\ pid[t] # p
    BY <2>1
  <2> QED BY ONLY PidsOwn, <2>1, <2>2, <2>3 DEF PidsOwn
<1>6. ASSUME NEW p \in Pids, ProcStep(p)
      PROVE  PidsOwn'
  <2>1. CASE Boot(p)
    BY <2>1 DEF Boot
  <2>2. CASE Exit(p)
    BY <2>2 DEF Exit
  <2>3. CASE InitReaps(p)
    BY <2>3 DEF InitReaps
  <2> QED BY <1>6, <2>1, <2>2, <2>3 DEF ProcStep
<1>7. CASE Restart
  BY <1>7 DEF Restart
<1> QED BY <1>1, <1>2, <1>3, <1>4, <1>5, <1>6, <1>7 DEF Next

-----------------------------------------------------------------------------
(* A process is spawned once, and nobody but its start, or its reaper, touches what
   is known of it. *)
LEMMA SpawnedOnceStep == TypeOK /\ PidsOwn /\ SpawnedOnce /\ [Next]_vars => SpawnedOnce'
<1> USE PidBounds DEF SpawnedOnce, PidsOwn, PCs, StartPCs, FailPCs, StopPCs, Goto,
        procs, files, reapers, locals, world, Return
<1> SUFFICES ASSUME TypeOK, PidsOwn, SpawnedOnce, [Next]_vars
             PROVE  SpawnedOnce'
  OBVIOUS
<1>0. /\ pc \in [Threads -> PCs] /\ pid \in [Threads -> Pids \union {None}]
      /\ vm \in [Threads -> Vms \union {None}] /\ tap \in [Threads -> Units \union {None}]
      /\ reaper \in [Pids -> ReaperPCs]
      /\ proc \in [Pids -> {"free", "boot", "run", "zombie"}]
      /\ vmOf \in [Pids -> Vms \union {None}]
  BY DEF TypeOK
<1> USE <1>0
<1>b. \A t \in Threads : pc[t] \in {"spawn", "write_pid"} => pid[t] \in Pids
  OBVIOUS
<1>1. CASE UNCHANGED vars
  BY <1>1 DEF vars
<1>2. ASSUME NEW t \in Threads, NEW v \in Vms, BeginStart(t, v) \/ BeginStop(t, v)
      PROVE  SpawnedOnce'
  BY <1>2 DEF BeginStart, BeginStop
<1>3. ASSUME NEW t \in Threads, StartStep(t)
      PROVE  SpawnedOnce'
  <2>1. CASE Guard(t) \/ CreateTap(t) \/ CreateTapFails(t) \/ SetUpTap(t)
    BY <2>1 DEF Guard, CreateTap, CreateTapFails, SetUpTap
  <2>2. CASE AddToBridge(t) \/ ConfigureTapFails(t) \/ WriteTapFile(t) \/ Check(t)
    BY <2>2 DEF AddToBridge, ConfigureTapFails, WriteTapFile, Check
  <2>3. CASE RegisterConsole(t)
    <3>1. PICK p \in FreePids : pid' = [pid EXCEPT ![t] = p]
      BY <2>3 DEF RegisterConsole
    <3>2. proc[p] = "free" /\ p \in Pids
      BY <3>1 DEF FreePids
    <3> QED BY <2>3, <3>1, <3>2 DEF RegisterConsole
  <2>4. CASE Spawn(t)
    BY <2>4, <1>b DEF Spawn
  <2>5. CASE SpawnFails(t) \/ WritePidFileFails(t)
    BY <2>5 DEF SpawnFails, WritePidFileFails
  <2>6. CASE WritePidFile(t)
    BY <2>6, <1>b DEF WritePidFile
  <2>7. CASE FailBridge(t) \/ FailTap(t) \/ FailFile(t) \/ FailConsole(t)
    BY <2>7 DEF FailBridge, FailTap, FailFile, FailConsole
  <2> QED BY <1>3, <2>1, <2>2, <2>3, <2>4, <2>5, <2>6, <2>7 DEF StartStep
<1>4. ASSUME NEW t \in Threads, StopStep(t)
      PROVE  SpawnedOnce'
  BY <1>4 DEF StopStep, Waited, WaitTimesOut, ReadTapFile, StopBridge, StopTap,
              RemovePidFile, RemoveTapFile
<1>5. ASSUME NEW p \in Pids, ReaperStep(p)
      PROVE  SpawnedOnce'
  <2> USE DEF ReaperGoto
  <2>1. CASE Reap(p)
    BY <2>1, <1>b DEF Reap
  <2>2. CASE ReapConsole(p) \/ ReapKernelVm(p)
    BY <2>2, <1>b DEF ReapConsole, ReapKernelVm
  <2>3. CASE ReapBridge(p) \/ ReapTap(p) \/ ReapPidFile(p)
    BY <2>3 DEF ReapBridge, ReapTap, ReapPidFile
  <2>4. CASE ReapTapFile(p)
    BY <2>4, <1>b DEF ReapTapFile
  <2> QED BY <1>5, <2>1, <2>2, <2>3, <2>4 DEF ReaperStep
<1>6. ASSUME NEW p \in Pids, ProcStep(p)
      PROVE  SpawnedOnce'
  <2>1. CASE Boot(p)
    BY <2>1, <1>b, ZenonT(60) DEF Boot
  <2>2. CASE Exit(p)
    BY <2>2, <1>b DEF Exit
  <2>3. CASE InitReaps(p)
    BY <2>3, <1>b DEF InitReaps
  <2> QED BY <1>6, <2>1, <2>2, <2>3 DEF ProcStep
<1>7. CASE Restart
  BY <1>7 DEF Restart
<1> QED BY <1>1, <1>2, <1>3, <1>4, <1>5, <1>6, <1>7 DEF Next

-----------------------------------------------------------------------------
(* Every console that stays in the registry is still of a process, or of a start
   that will remove it. *)
LEMMA ConsolesBackedStep ==
    TypeOK /\ PidsOwn /\ SpawnedOnce /\ ConsolesBacked /\ [Next]_vars => ConsolesBacked'
<1> USE PidBounds DEF Backed, SpawnedOnce, PidsOwn, PCs, StartPCs, FailPCs, StopPCs, Goto,
        procs, files, reapers, locals, world, Return
<1> SUFFICES ASSUME TypeOK, PidsOwn, SpawnedOnce, ConsolesBacked, [Next]_vars,
                    NEW w \in Vms, console'[w] # None
             PROVE  Backed(w, console[w])'
  BY DEF ConsolesBacked
<1>0. /\ pc \in [Threads -> PCs] /\ pid \in [Threads -> Pids \union {None}]
      /\ vm \in [Threads -> Vms \union {None}] /\ tap \in [Threads -> Units \union {None}]
      /\ \A t \in Threads : pc[t] # "idle" => vm[t] \in Vms
      /\ reaper \in [Pids -> ReaperPCs]
      /\ proc \in [Pids -> {"free", "boot", "run", "zombie"}]
      /\ vmOf \in [Pids -> Vms \union {None}]
      /\ console \in [Vms -> Pids \union {None}]
  BY DEF TypeOK
<1> USE <1>0
<1>a. console[w] # None => Backed(w, console[w]) /\ console[w] \in Pids
  BY DEF ConsolesBacked
<1>b. \A t \in Threads : pc[t] \in {"spawn", "write_pid"} => pid[t] \in Pids
  OBVIOUS
<1>1. CASE UNCHANGED vars
  BY <1>1, <1>a DEF vars
<1>2. ASSUME NEW t \in Threads, NEW v \in Vms, BeginStart(t, v) \/ BeginStop(t, v)
      PROVE  Backed(w, console[w])'
  BY <1>2, <1>a DEF BeginStart, BeginStop
<1>3. ASSUME NEW t \in Threads, StartStep(t)
      PROVE  Backed(w, console[w])'
  <2>1. CASE Guard(t) \/ CreateTap(t) \/ CreateTapFails(t) \/ SetUpTap(t)
    BY <2>1, <1>a DEF Guard, CreateTap, CreateTapFails, SetUpTap
  <2>2. CASE AddToBridge(t) \/ ConfigureTapFails(t) \/ WriteTapFile(t) \/ Check(t)
    BY <2>2, <1>a DEF AddToBridge, ConfigureTapFails, WriteTapFile, Check
  <2>3. CASE RegisterConsole(t)
    <3>1. PICK p \in FreePids : /\ pid' = [pid EXCEPT ![t] = p]
                                /\ console' = [console EXCEPT ![vm[t]] = p]
      BY <2>3 DEF RegisterConsole
    <3>2. p \in Pids
      BY <3>1 DEF FreePids
    <3>3. CASE w = vm[t]
      BY <2>3, <3>1, <3>2, <3>3 DEF RegisterConsole
    <3>4. CASE w # vm[t]
      BY <2>3, <1>a, <3>1, <3>2, <3>4 DEF RegisterConsole
    <3> QED BY <3>3, <3>4
  <2>4. CASE Spawn(t)
    BY <2>4, <1>a, <1>b DEF Spawn
  <2>5. CASE SpawnFails(t) \/ WritePidFileFails(t)
    BY <2>5, <1>a DEF SpawnFails, WritePidFileFails
  <2>6. CASE WritePidFile(t)
    BY <2>6, <1>a, <1>b DEF WritePidFile
  <2>7. CASE FailBridge(t) \/ FailTap(t)
    BY <2>7, <1>a DEF FailBridge, FailTap
  <2>8. CASE FailFile(t) \/ FailConsole(t)
    BY <2>8, <1>a DEF FailFile, FailConsole
  <2> QED BY <1>3, <2>1, <2>2, <2>3, <2>4, <2>5, <2>6, <2>7, <2>8 DEF StartStep
<1>4. ASSUME NEW t \in Threads, StopStep(t)
      PROVE  Backed(w, console[w])'
  BY <1>4, <1>a DEF StopStep, Waited, WaitTimesOut, ReadTapFile, StopBridge, StopTap,
              RemovePidFile, RemoveTapFile
<1>5. ASSUME NEW p \in Pids, ReaperStep(p)
      PROVE  Backed(w, console[w])'
  <2> USE <1>a DEF ReaperGoto
  <2>1. CASE Reap(p)
    BY <2>1 DEF Reap
  <2>2. CASE ReapConsole(p)
    BY <2>2 DEF ReapConsole
  <2>3. CASE ReapKernelVm(p) \/ ReapBridge(p) \/ ReapTap(p) \/ ReapPidFile(p)
    <3>1. /\ UNCHANGED <<pc, vm, pid, console, proc, vmOf>>
          /\ \A q \in Pids : reaper[q] \in {"none", "wait", "console"} => reaper'[q] = reaper[q]
      BY <2>3 DEF ReapKernelVm, ReapBridge, ReapTap, ReapPidFile
    <3> QED BY <3>1
  <2>4. CASE ReapTapFile(p)
    BY <2>4 DEF ReapTapFile
  <2> QED BY <1>5, <2>1, <2>2, <2>3, <2>4 DEF ReaperStep
<1>6. ASSUME NEW p \in Pids, ProcStep(p)
      PROVE  Backed(w, console[w])'
  <2>1. CASE Boot(p)
    BY <2>1, <1>a, ZenonT(60) DEF Boot
  <2>2. CASE Exit(p)
    BY <2>2, <1>a DEF Exit
  <2>3. CASE InitReaps(p)
    BY <2>3, <1>a DEF InitReaps
  <2> QED BY <1>6, <2>1, <2>2, <2>3 DEF ProcStep
<1>7. CASE Restart
  BY <1>7 DEF Restart
<1> QED BY <1>1, <1>2, <1>3, <1>4, <1>5, <1>6, <1>7 DEF Next

-----------------------------------------------------------------------------
(* While nothing leaks, every tap that remains has somebody to destroy it. *)
LEMMA TapsKeptStep ==
    ASSUME NothingLeaks, Inv, [Next]_vars
    PROVE  TapsKept'
<1> USE UnitsAssumption, PidBounds DEF TypeOK, NetTypeOK, Goto, None, MayFail,
        PCs, StartPCs, FailPCs, StopPCs, procs, files, reapers, locals, netVars, world,
        Kept, Holding, Reaping, Configuring
<1> SUFFICES ASSUME NEW u \in ifaces'
             PROVE  Kept(u)' \/ (u \notin bridge' /\ \E t \in Threads : Configuring(t, u)')
  BY DEF TapsKept
<1>0. u \in ifaces => Kept(u) \/ (u \notin bridge /\ \E t \in Threads : Configuring(t, u))
  BY DEF Inv, TapsKept
<1>a. TypeOK
  BY DEF Inv
<1>b. \A t \in Threads : pc[t] \in {"spawn", "write_pid"} =>
                          reaper[pid[t]] = "none" /\ pid[t] \in Pids
  BY <1>a DEF Inv, PidsOwn
<1>1. CASE UNCHANGED vars
  BY <1>0, <1>1 DEF vars
<1>2. ASSUME NEW t \in Threads, NEW v \in Vms, BeginStart(t, v) \/ BeginStop(t, v)
      PROVE  Kept(u)' \/ (u \notin bridge' /\ \E s \in Threads : Configuring(s, u)')
  BY <1>0, <1>a, <1>2 DEF BeginStart, BeginStop
<1>3. ASSUME NEW t \in Threads, StartStep(t)
      PROVE  Kept(u)' \/ (u \notin bridge' /\ \E s \in Threads : Configuring(s, u)')
  <2> USE <1>0, <1>a DEF Return, DropFromBridge, DropInterface, BridgeDelete, DestroyInterface
  <2>1. CASE Guard(t)
    BY <2>1 DEF Guard
  <2>2. CASE CreateTap(t)
    BY <2>2 DEF CreateTap, CreateInterface
  <2>3. CASE CreateTapFails(t)
    BY <2>3 DEF CreateTapFails
  <2>4. CASE SetUpTap(t)
    BY <2>4 DEF SetUpTap
  <2>5. CASE AddToBridge(t)
    BY <2>5 DEF AddToBridge, BridgeAdd
  <2>6. CASE ConfigureTapFails(t)
    BY <2>6 DEF ConfigureTapFails, NothingLeaks
  <2>7. CASE WriteTapFile(t)
    BY <2>7 DEF WriteTapFile
  <2>8. CASE Check(t)
    BY <2>8 DEF Check, NothingLeaks
  <2>9. CASE RegisterConsole(t)
    BY <2>9 DEF RegisterConsole
  <2>10. CASE Spawn(t)
    BY <2>10 DEF Spawn
  <2>11. CASE SpawnFails(t)
    BY <2>11 DEF SpawnFails
  <2>12. CASE WritePidFile(t)
    <3>1. /\ reaper[pid[t]] = "none" /\ pid[t] \in Pids
          /\ reaper' = [reaper EXCEPT ![pid[t]] = "wait"]
          /\ reaperTap' = [reaperTap EXCEPT ![pid[t]] = tap[t]]
          /\ pc' = [pc EXCEPT ![t] = "idle"] /\ pc[t] = "write_pid"
          /\ tap' = [tap EXCEPT ![t] = None]
          /\ UNCHANGED <<ifaces, bridge>>
      BY <1>b, <2>12 DEF WritePidFile
    <3>2. CASE Holding(t, u)
      <4>1. PICK q \in Pids : q = pid[t]
        BY <3>1
      <4>2. Reaping(q, u)'
        BY <3>1, <3>2, <4>1
      <4> QED BY ONLY <4>2 DEF Kept
    <3>3. CASE \E s \in Threads : s # t /\ Holding(s, u)
      BY <3>1, <3>3
    <3>4. CASE \E q \in Pids : Reaping(q, u)
      <4>1. PICK q \in Pids : Reaping(q, u)
        BY <3>4
      <4>2. q # pid[t]
        BY <3>1, <4>1
      <4>3. Reaping(q, u)'
        BY <3>1, <4>1, <4>2
      <4> QED BY ONLY <4>3 DEF Kept
    <3>5. CASE u \notin bridge /\ \E s \in Threads : Configuring(s, u)
      BY <3>1, <3>5
    <3> QED BY <3>1, <3>2, <3>3, <3>4, <3>5
  <2>13. CASE WritePidFileFails(t)
    BY <2>13 DEF WritePidFileFails, NothingLeaks
  <2>14. CASE FailBridge(t)
    BY <2>14 DEF FailBridge
  <2>15. CASE FailTap(t)
    BY <2>15 DEF FailTap
  <2>16. CASE FailFile(t)
    BY <2>16 DEF FailFile
  <2>17. CASE FailConsole(t)
    BY <2>17 DEF FailConsole
  <2> QED BY <1>3, <2>1, <2>2, <2>3, <2>4, <2>5, <2>6, <2>7, <2>8, <2>9, <2>10, <2>11,
             <2>12, <2>13, <2>14, <2>15, <2>16, <2>17 DEF StartStep
<1>4. ASSUME NEW t \in Threads, StopStep(t)
      PROVE  Kept(u)' \/ (u \notin bridge' /\ \E s \in Threads : Configuring(s, u)')
  <2> USE <1>0, <1>a DEF Return, DropFromBridge, DropInterface, BridgeDelete, DestroyInterface
  <2>1. CASE Waited(t)
    BY <2>1 DEF Waited
  <2>2. CASE WaitTimesOut(t)
    BY <2>2 DEF WaitTimesOut
  <2>3. CASE ReadTapFile(t)
    BY <2>3 DEF ReadTapFile
  <2>4. CASE StopBridge(t)
    BY <2>4 DEF StopBridge
  <2>5. CASE StopTap(t)
    BY <2>5 DEF StopTap
  <2>6. CASE RemovePidFile(t)
    BY <2>6 DEF RemovePidFile
  <2>7. CASE RemoveTapFile(t)
    BY <2>7 DEF RemoveTapFile
  <2> QED BY <1>4, <2>1, <2>2, <2>3, <2>4, <2>5, <2>6, <2>7 DEF StopStep
<1>5. ASSUME NEW p \in Pids, ReaperStep(p)
      PROVE  Kept(u)' \/ (u \notin bridge' /\ \E s \in Threads : Configuring(s, u)')
  <2> USE <1>0, <1>a DEF ReaperGoto, DropFromBridge, DropInterface, BridgeDelete,
                         DestroyInterface, ReaperPCs
  <2>1. CASE Reap(p)
    BY <2>1 DEF Reap
  <2>2. CASE ReapConsole(p)
    BY <2>2 DEF ReapConsole
  <2>3. CASE ReapKernelVm(p)
    BY <2>3 DEF ReapKernelVm
  <2>4. CASE ReapBridge(p)
    BY <2>4 DEF ReapBridge
  <2>5. CASE ReapTap(p)
    BY <2>5 DEF ReapTap
  <2>6. CASE ReapPidFile(p)
    BY <2>6 DEF ReapPidFile
  <2>7. CASE ReapTapFile(p)
    BY <2>7 DEF ReapTapFile
  <2> QED BY <1>5, <2>1, <2>2, <2>3, <2>4, <2>5, <2>6, <2>7 DEF ReaperStep
<1>6. ASSUME NEW p \in Pids, ProcStep(p)
      PROVE  Kept(u)' \/ (u \notin bridge' /\ \E s \in Threads : Configuring(s, u)')
  BY <1>0, <1>a, <1>6 DEF ProcStep, Boot, Exit, InitReaps
<1>7. ~Restart
  BY <1>a DEF Restart, NothingLeaks
<1> QED BY <1>1, <1>2, <1>3, <1>4, <1>5, <1>6, <1>7 DEF Next

(* No step changes the scenario. *)
LEMMA ScenarioFixed == [Next]_vars => scenario' = scenario
<1> SUFFICES ASSUME [Next]_vars PROVE scenario' = scenario
  OBVIOUS
<1> USE DEF world
<1>1. CASE UNCHANGED vars
  BY <1>1 DEF vars
<1>2. ASSUME NEW t \in Threads, NEW v \in Vms, BeginStart(t, v) \/ BeginStop(t, v)
      PROVE  scenario' = scenario
  BY <1>2 DEF BeginStart, BeginStop
<1>3. ASSUME NEW t \in Threads, StartStep(t)
      PROVE  scenario' = scenario
  BY <1>3 DEF StartStep, Guard, CreateTap, CreateTapFails, SetUpTap, AddToBridge,
     ConfigureTapFails, WriteTapFile, Check, RegisterConsole, Spawn, SpawnFails,
     WritePidFile, WritePidFileFails, FailBridge, FailTap, FailFile, FailConsole
<1>4. ASSUME NEW t \in Threads, StopStep(t)
      PROVE  scenario' = scenario
  BY <1>4 DEF StopStep, Waited, WaitTimesOut, ReadTapFile, StopBridge, StopTap,
     RemovePidFile, RemoveTapFile
<1>5. ASSUME NEW p \in Pids, ReaperStep(p) \/ ProcStep(p)
      PROVE  scenario' = scenario
  BY <1>5 DEF ReaperStep, ProcStep, Reap, ReapConsole, ReapKernelVm, ReapBridge,
     ReapTap, ReapPidFile, ReapTapFile, Boot, Exit, InitReaps
<1>6. CASE Restart
  BY <1>6 DEF Restart
<1> QED BY <1>1, <1>2, <1>3, <1>4, <1>5, <1>6 DEF Next

(* NothingLeaks and Orderly speak of the scenario alone. *)
LEMMA ScenarioKept ==
    [Next]_vars => (NothingLeaks' <=> NothingLeaks) /\ (Orderly' <=> Orderly)
  BY ScenarioFixed DEF Orderly, Asked, NothingLeaks, MayFail

-----------------------------------------------------------------------------
(* None is the name of no VM. *)
LEMMA NoneIsNoVm == None \notin Vms
  BY VmAssumption

(* In an orderly scenario nothing but the calls that may fail fails. *)
LEMMA OrderlyFaults ==
    ASSUME Orderly
    PROVE  /\ \A call \in {"set_up", "bridge", "check", "pidfile", "poweroff", "timeout"} :
                 ~MayFail(call)
           /\ scenario.restarts = 0 /\ NothingLeaks
  BY DEF Orderly, NothingLeaks

(* Nobody else has a request. *)
Alone(t) == \A s \in Threads : s # t => pc[s] = "idle"

(* Whoever does something, or begins to, does it alone. *)
LEMMA AloneNow ==
    ASSUME OneClient, NEW t \in Threads, pc[t] # "idle"
    PROVE  Alone(t)
  BY DEF OneClient, Alone

(* A client that begins something finds nothing else going on. *)
LEMMA AloneToBegin ==
    ASSUME OneClient, Orderly, NEW t \in Threads, NEW v \in Vms,
           BeginStart(t, v) \/ BeginStop(t, v)
    PROVE  Alone(t) /\ \A s \in Threads : pc[s] = "idle"
<1>1. pc[t] = "idle" /\ \E o \in {"start", "stop"} : Asked(t, o, v)
  BY DEF BeginStart, BeginStop
<1>2. ASSUME NEW s \in Threads, pc[s] # "idle" PROVE FALSE
  <2>1. PICK o \in {"start", "stop"}, w \in Vms : Asked(s, o, w)
    BY <1>2 DEF OneClient
  <2>2. s = t
    BY <1>1, <2>1 DEF Orderly
  <2> QED BY <1>1, <1>2, <2>2
<1> QED BY <1>2 DEF Alone

(* What a call of a request that is neither the spawn, nor the writing of the pid
   file, nor a wait leaves alone. *)
Quiet(t) ==
    /\ pc[t] \notin {"idle", "write_pid", "wait_exit", "wait_cleanup"}
    /\ pc'[t] \notin {"write_pid", "wait_exit", "wait_cleanup"}
    /\ pc'[t] # "idle" => vm'[t] = vm[t]
    /\ \A s \in Threads : s # t => pc'[s] = pc[s]
    /\ UNCHANGED <<proc, vmOf, kvm, reaper>>
    /\ \A v \in Vms : pidfile'[v] = pidfile[v]

(* The calls of a request. *)
LEMMA ThreadCalls ==
    ASSUME TypeOK, PidFilesRight, Orderly, NEW t \in Threads, StartStep(t) \/ StopStep(t)
    PROVE  Spawn(t) \/ WritePidFile(t) \/ Waited(t) \/ Quiet(t)
<1> USE OrderlyFaults DEF Quiet, Goto, Return, locals, procs, files, reapers, world
<1>0. /\ pc \in [Threads -> PCs] /\ vm \in [Threads -> Vms \union {None}]
      /\ pidfile \in [Vms -> Pids \union {None}]
      /\ \A s \in Threads : pc[s] # "idle" => vm[s] \in Vms
  BY DEF TypeOK
<1> USE <1>0
<1>1. CASE Guard(t) \/ CreateTap(t) \/ CreateTapFails(t) \/ SetUpTap(t)
  BY <1>1 DEF Guard, CreateTap, CreateTapFails, SetUpTap
<1>2. CASE AddToBridge(t) \/ ConfigureTapFails(t) \/ WriteTapFile(t) \/ Check(t)
  BY <1>2 DEF AddToBridge, ConfigureTapFails, WriteTapFile, Check
<1>3. CASE RegisterConsole(t) \/ SpawnFails(t) \/ WritePidFileFails(t)
  BY <1>3 DEF RegisterConsole, SpawnFails, WritePidFileFails
<1>4. CASE FailBridge(t) \/ FailTap(t) \/ FailFile(t) \/ FailConsole(t)
  BY <1>4 DEF FailBridge, FailTap, FailFile, FailConsole
<1>5. CASE ReadTapFile(t) \/ StopBridge(t) \/ StopTap(t) \/ RemoveTapFile(t)
  BY <1>5 DEF ReadTapFile, StopBridge, StopTap, RemoveTapFile
<1>6. CASE RemovePidFile(t)
  BY <1>6 DEF RemovePidFile, PidFilesRight
<1>7. ~WaitTimesOut(t)
  BY DEF WaitTimesOut
<1> QED BY <1>1, <1>2, <1>3, <1>4, <1>5, <1>6, <1>7 DEF StartStep, StopStep

(* An orderly step is one of these, and nobody restarts the daemon. *)
LEMMA OrderlySteps ==
    ASSUME TypeOK, PidFilesRight, Orderly, [Next]_vars
    PROVE  \/ UNCHANGED vars
           \/ \E t \in Threads, v \in Vms : BeginStart(t, v) \/ BeginStop(t, v)
           \/ \E t \in Threads : Spawn(t) \/ WritePidFile(t) \/ Waited(t) \/ Quiet(t)
           \/ \E p \in Pids : ReaperStep(p) \/ Boot(p) \/ Exit(p) \/ InitReaps(p)
<1>1. ~Restart
  BY OrderlyFaults DEF TypeOK, Restart
<1> QED BY <1>1, ThreadCalls DEF Next, ProcStep

(* One client does one thing at a time. *)
LEMMA OneClientStep ==
    ASSUME TypeOK, PidFilesRight, OneClient, Orderly, [Next]_vars
    PROVE  OneClient'
<1> USE DEF Goto, Return, locals, procs, files, reapers, world
<1>0. pc \in [Threads -> PCs]
  BY DEF TypeOK
<1>a. scenario' = scenario
  BY ScenarioFixed
<1>b. \A t \in Threads, o \in {"start", "stop"}, v \in Vms : Asked(t, o, v) => Asked(t, o, v)'
  BY <1>a DEF Asked
<1>1. ASSUME NEW t \in Threads, NEW v \in Vms, BeginStart(t, v) \/ BeginStop(t, v)
      PROVE  OneClient'
  <2>1. \A s \in Threads : s # t => pc'[s] = "idle"
    BY <1>0, <1>1, AloneToBegin DEF Alone, BeginStart, BeginStop
  <2>2. \E o \in {"start", "stop"} : Asked(t, o, v)
    BY <1>1 DEF BeginStart, BeginStop
  <2> QED BY <1>b, <2>1, <2>2 DEF OneClient
<1>2. ASSUME NEW t \in Threads, Spawn(t) \/ WritePidFile(t) \/ Waited(t) \/ Quiet(t)
      PROVE  OneClient'
  <2>1. pc[t] # "idle" /\ \A s \in Threads : s # t => pc'[s] = pc[s]
    BY <1>0, <1>2 DEF Spawn, WritePidFile, Waited, Quiet
  <2>2. \E o \in {"start", "stop"}, v \in Vms : Asked(t, o, v)'
    BY <1>b, <2>1 DEF OneClient
  <2>3. \A s \in Threads : s # t => pc'[s] = "idle"
    BY <2>1, AloneNow DEF Alone
  <2> QED BY <2>2, <2>3 DEF OneClient
<1>3. CASE pc' = pc
  BY <1>b, <1>3 DEF OneClient
<1>4. UNCHANGED vars => pc' = pc
  BY DEF vars
<1>5. ASSUME NEW p \in Pids, ReaperStep(p) \/ Boot(p) \/ Exit(p) \/ InitReaps(p)
      PROVE  pc' = pc
  BY <1>5 DEF ReaperStep, Reap, ReapConsole, ReapKernelVm, ReapBridge, ReapTap, ReapPidFile,
     ReapTapFile, Boot, Exit, InitReaps
<1> QED BY <1>1, <1>2, <1>3, <1>4, <1>5, OrderlySteps

(* Two processes of one VM that have a place are one, unless one of them has gone. *)
LEMMA PlacesDiffer ==
    ASSUME TypeOK, OneClient, PidFilesRight, NEW p \in Pids, NEW q \in Pids,
           Starting(p) \/ Up(p) \/ Going(p), Starting(q) \/ Up(q) \/ Going(q),
           vmOf[p] = vmOf[q]
    PROVE  p = q
<1>1. CASE Starting(p) /\ Starting(q)
  BY <1>1 DEF Starting, OneClient
<1>2. ASSUME NEW x \in Pids, NEW y \in Pids, Starting(x), Up(y) \/ Going(y), vmOf[x] = vmOf[y]
      PROVE  FALSE
  <2>1. PICK t \in Threads : pc[t] = "write_pid" /\ vm[t] = vmOf[x]
    BY <1>2 DEF Starting
  <2>2. pidfile[vmOf[x]] = None
    BY <2>1 DEF PidFilesRight
  <2>3. pidfile[vmOf[x]] = y
    BY <1>2 DEF Up, Going
  <2> QED BY <2>2, <2>3, PidBounds DEF None
<1>3. CASE (Up(p) \/ Going(p)) /\ (Up(q) \/ Going(q))
  BY <1>3 DEF Up, Going
<1> QED BY <1>1, <1>2, <1>3

(* A process that boots finds no other in the VM of its name. *)
LEMMA BootEnters ==
    ASSUME TypeOK, OneClient, OneProcess, NEW p \in Pids, Boot(p)
    PROVE  /\ proc[p] = "boot" /\ vmOf[p] \in Vms /\ vmOf[p] # None
           /\ Starting(p) \/ Up(p)
           /\ kvm[vmOf[p]] = None
<1>1. proc[p] = "boot" /\ (Starting(p) \/ Up(p)) /\ vmOf[p] # None
  BY DEF Boot, OneProcess, ProcessesPlaced, Going, Gone
<1>2. vmOf[p] \in Vms
  BY <1>1 DEF TypeOK
<1>3. ASSUME kvm[vmOf[p]] # None PROVE FALSE
  <2>1. PICK x \in Pids : kvm[vmOf[p]] = x
    BY <1>2, <1>3 DEF TypeOK
  <2>2. proc[x] = "run" /\ vmOf[x] = vmOf[p]
    BY <1>2, <2>1 DEF OneProcess, KernelVms
  <2>3. Starting(x) \/ Up(x)
    BY <1>1, <2>2 DEF OneProcess, ProcessesPlaced, Going, Gone
  <2>4. x = p
    BY <1>1, <2>2, <2>3, PlacesDiffer DEF OneProcess
  <2> QED BY <1>1, <2>2, <2>4
<1> QED BY <1>1, <1>2, <1>3

(* A process that has exited, or is about to because a stop has asked it to, is
   the one in the pid file, and it is the stop that waits for it that is going on. *)
LEMMA ExitIsAwaited ==
    ASSUME TypeOK, OneClient, OneProcess, Orderly, NEW p \in Pids, Exit(p)
    PROVE  Up(p) /\ Awaited(p) /\ vmOf[p] \in Vms
<1>1. proc[p] = "run" /\ vmOf[p] # None
  BY DEF Exit, OneProcess, ProcessesPlaced
<1>2. vmOf[p] \in Vms
  BY <1>1 DEF TypeOK
<1>3. kvm[vmOf[p]] = p
  BY <1>1, <1>2 DEF OneProcess, KernelVms
<1>4. PICK t \in Threads : pc[t] = "wait_exit" /\ pid[t] = p
  BY <1>3, OrderlyFaults DEF Exit
<1>5. vm[t] = vmOf[p]
  BY <1>1, <1>4 DEF OneProcess, PidFilesRight
<1>6. ~Starting(p)
  BY <1>4 DEF Starting, OneClient
<1>7. Up(p)
  BY <1>1, <1>6 DEF OneProcess, ProcessesPlaced, Going, Gone
<1> QED BY <1>2, <1>4, <1>5, <1>7 DEF Awaited

(* A process has a place after every step as well. *)
LEMMA ProcessesPlacedStep ==
    ASSUME TypeOK, PidsOwn, SpawnedOnce, OneClient, OneProcess, Orderly, [Next]_vars
    PROVE  ProcessesPlaced'
<1> USE DEF Goto, Return, locals, procs, files, reapers, world
<1>0. /\ pc \in [Threads -> PCs] /\ vm \in [Threads -> Vms \union {None}]
      /\ pid \in [Threads -> Pids \union {None}]
      /\ pidfile \in [Vms -> Pids \union {None}]
      /\ proc \in [Pids -> {"free", "boot", "run", "zombie"}]
      /\ vmOf \in [Pids -> Vms \union {None}]
      /\ reaper \in [Pids -> ReaperPCs]
      /\ \A s \in Threads : pc[s] # "idle" => vm[s] \in Vms
  BY DEF TypeOK
<1> SUFFICES ASSUME NEW q \in Pids
             PROVE  IF vmOf'[q] = None THEN proc'[q] = "free" /\ reaper'[q] = "none"
                    ELSE Starting(q)' \/ Up(q)' \/ Going(q)' \/ Gone(q)'
  BY DEF ProcessesPlaced
<1>a. IF vmOf[q] = None THEN proc[q] = "free" /\ reaper[q] = "none"
      ELSE Starting(q) \/ Up(q) \/ Going(q) \/ Gone(q)
  BY DEF OneProcess, ProcessesPlaced
<1>b. vmOf[q] # None => vmOf[q] \in Vms
  BY <1>0
<1>c. ASSUME UNCHANGED <<proc, vmOf, reaper>>, \A v \in Vms : pidfile'[v] = pidfile[v],
             \A s \in Threads :
                pc[s] \in {"write_pid", "wait_exit", "wait_cleanup"} =>
                   pc'[s] = pc[s] /\ vm'[s] = vm[s] /\ pid'[s] = pid[s]
      PROVE  IF vmOf'[q] = None THEN proc'[q] = "free" /\ reaper'[q] = "none"
             ELSE Starting(q)' \/ Up(q)' \/ Going(q)' \/ Gone(q)'
  BY <1>a, <1>b, <1>c DEF Starting, Up, Going, Gone, Awaited
<1>1. CASE UNCHANGED vars
  BY <1>1, <1>c DEF vars
<1>2. ASSUME NEW t \in Threads, NEW v \in Vms, BeginStart(t, v) \/ BeginStop(t, v)
      PROVE  UNCHANGED <<proc, vmOf, reaper, pidfile>> /\
             \A s \in Threads : pc[s] \notin {"write_pid", "wait_exit", "wait_cleanup"}
  BY <1>2, AloneToBegin DEF BeginStart, BeginStop
<1>3. ASSUME NEW t \in Threads, Quiet(t)
      PROVE  \A s \in Threads : pc[s] \notin {"write_pid", "wait_exit", "wait_cleanup"}
  BY <1>3, AloneNow DEF Quiet, Alone
<1>4. ASSUME NEW t \in Threads, Spawn(t)
      PROVE  IF vmOf'[q] = None THEN proc'[q] = "free" /\ reaper'[q] = "none"
             ELSE Starting(q)' \/ Up(q)' \/ Going(q)' \/ Gone(q)'
  <2>0. Alone(t)
    BY <1>4, AloneNow DEF Spawn
  <2>1. /\ pc[t] = "spawn" /\ pid[t] \in Pids /\ vm[t] \in Vms
        /\ reaper[pid[t]] = "none" /\ pc'[t] = "write_pid"
        /\ UNCHANGED <<pid, vm, reaper, pidfile>>
        /\ proc' = [proc EXCEPT ![pid[t]] = "boot"]
        /\ vmOf' = [vmOf EXCEPT ![pid[t]] = vm[t]]
    BY <1>0, <1>4 DEF Spawn, PidsOwn
  <2>2. \A s \in Threads : pc[s] \notin {"write_pid", "wait_exit", "wait_cleanup"}
    BY <2>0, <2>1 DEF Alone
  <2>3. CASE q = pid[t]
    <3>1. Starting(q)'
      BY <1>0, <2>1, <2>3 DEF Starting
    <3>2. vmOf'[q] # None
      BY <1>0, <2>1, <2>3, NoneIsNoVm
    <3> QED BY <3>1, <3>2
  <2>4. CASE q # pid[t]
    <3>1. proc'[q] = proc[q] /\ vmOf'[q] = vmOf[q] /\ reaper'[q] = reaper[q]
      BY <1>0, <2>1, <2>4
    <3> QED BY <1>a, <2>1, <2>2, <3>1 DEF Starting, Up, Going, Gone, Awaited
  <2> QED BY <2>3, <2>4
<1>5. ASSUME NEW t \in Threads, WritePidFile(t)
      PROVE  IF vmOf'[q] = None THEN proc'[q] = "free" /\ reaper'[q] = "none"
             ELSE Starting(q)' \/ Up(q)' \/ Going(q)' \/ Gone(q)'
  <2>0. Alone(t)
    BY <1>5, AloneNow DEF WritePidFile
  <2>1. /\ pc[t] = "write_pid" /\ pid[t] \in Pids /\ vm[t] \in Vms /\ pidfile[vm[t]] = None
        /\ reaper[pid[t]] = "none" /\ UNCHANGED <<proc, vmOf>>
        /\ vmOf[pid[t]] = vm[t] /\ proc[pid[t]] # "free"
        /\ reaper' = [reaper EXCEPT ![pid[t]] = "wait"]
        /\ pidfile' = [pidfile EXCEPT ![vm[t]] = pid[t]]
    BY <1>0, <1>5 DEF WritePidFile, PidsOwn, SpawnedOnce, OneProcess, PidFilesRight
  <2>2. CASE q = pid[t]
    <3>1. vmOf[q] # None /\ Starting(q)
      BY <1>a, <2>1, <2>2 DEF Up, Going, Gone
    <3>2. Up(q)'
      BY <1>0, <2>1, <2>2, <3>1 DEF Starting, Up
    <3> QED BY <2>1, <3>1, <3>2
  <2>3. CASE q # pid[t]
    <3>1. proc'[q] = proc[q] /\ vmOf'[q] = vmOf[q] /\ reaper'[q] = reaper[q]
      BY <1>0, <2>1, <2>3
    <3>2. ~Starting(q) /\ ~Going(q)
      BY <2>0, <2>1, <2>3 DEF Alone, Starting, Going, Awaited
    <3>3. vmOf[q] # None /\ Up(q) => pidfile'[vmOf[q]] = q
      BY <1>0, <1>b, <2>1, PidBounds DEF Up, None
    <3> QED BY <1>a, <3>1, <3>2, <3>3 DEF Up, Gone
  <2> QED BY <2>2, <2>3
<1>6. ASSUME NEW t \in Threads, Waited(t)
      PROVE  IF vmOf'[q] = None THEN proc'[q] = "free" /\ reaper'[q] = "none"
             ELSE Starting(q)' \/ Up(q)' \/ Going(q)' \/ Gone(q)'
  <2>0. Alone(t)
    BY <1>6, AloneNow DEF Waited
  <2>1. /\ UNCHANGED <<proc, vmOf, reaper, pidfile, vm, pid>>
        /\ \/ pc[t] = "wait_exit" /\ pc'[t] = "wait_cleanup"
           \/ pc[t] = "wait_cleanup" /\ pidfile[vm[t]] = None
        /\ \A s \in Threads : s # t => pc'[s] = pc[s]
    BY <1>0, <1>6 DEF Waited
  <2>2. ~Starting(q)
    BY <2>0, <2>1 DEF Alone, Starting
  <2>3. Going(q) => Going(q)'
    <3> SUFFICES ASSUME Going(q) PROVE Going(q)'
      OBVIOUS
    <3>1. pidfile[vmOf[q]] = q /\ q # None
      BY PidBounds DEF Going, None
    <3>2. pc[t] \in {"wait_exit", "wait_cleanup"} /\ pid[t] = q /\ vm[t] = vmOf[q]
      BY <2>0, <2>1 DEF Alone, Going, Awaited
    <3>3. Awaited(q)'
      BY <2>1, <3>1, <3>2 DEF Awaited
    <3> QED BY <2>1, <3>3 DEF Going
  <2> QED BY <1>a, <2>1, <2>2, <2>3 DEF Up, Gone
<1>7. ASSUME NEW p \in Pids, ReaperStep(p)
      PROVE  IF vmOf'[q] = None THEN proc'[q] = "free" /\ reaper'[q] = "none"
             ELSE Starting(q)' \/ Up(q)' \/ Going(q)' \/ Gone(q)'
  <2> USE DEF ReaperGoto
  <2>a. UNCHANGED <<pc, vm, pid>>
    BY <1>7 DEF ReaperStep, Reap, ReapConsole, ReapKernelVm, ReapBridge, ReapTap, ReapPidFile,
       ReapTapFile
  <2>b. IF vmOf[p] = None THEN reaper[p] = "none"
        ELSE Starting(p) \/ Up(p) \/ Going(p) \/ Gone(p)
    BY DEF OneProcess, ProcessesPlaced
  <2>c. vmOf[p] # None /\ reaper[p] # "none"
    BY <1>7, <2>b DEF ReaperStep, Reap, ReapConsole, ReapKernelVm, ReapBridge, ReapTap,
       ReapPidFile, ReapTapFile
  <2>1. CASE Reap(p) \/ ReapConsole(p) \/ ReapKernelVm(p) \/ ReapBridge(p) \/ ReapTap(p)
    <3>1. /\ UNCHANGED <<vmOf, pidfile>>
          /\ \A x \in Pids : x # p => proc'[x] = proc[x] /\ reaper'[x] = reaper[x]
          /\ proc'[p] = "free" \/ (proc'[p] = proc[p] /\ reaper[p] # "wait")
          /\ reaper[p] = "wait" => proc[p] = "zombie"
          /\ reaper[p] \in {"wait", "console", "bhyvectl", "bridge", "tap"}
          /\ reaper'[p] \in {"console", "bhyvectl", "bridge", "tap", "rm_pid"}
      BY <1>0, <2>1 DEF Reap, ReapConsole, ReapKernelVm, ReapBridge, ReapTap
    <3>2. CASE q = p
      <4>1. Going(q)
        BY <2>b, <2>c, <3>1, <3>2 DEF Starting, Up, Gone
      <4>2. Going(q)'
        BY <2>a, <3>1, <3>2, <4>1 DEF Going, Awaited
      <4> QED BY <2>c, <3>1, <3>2, <4>2
    <3>3. CASE q # p
      BY <1>a, <2>a, <3>1, <3>3 DEF Starting, Up, Going, Gone, Awaited
    <3> QED BY <3>2, <3>3
  <2>2. CASE ReapPidFile(p)
    <3>1. /\ UNCHANGED <<vmOf, proc>> /\ \A x \in Pids : x # p => reaper'[x] = reaper[x]
          /\ reaper[p] = "rm_pid" /\ reaper'[p] = "rm_tap"
          /\ pidfile' = [pidfile EXCEPT ![vmOf[p]] = None]
      BY <1>0, <2>2 DEF ReapPidFile
    <3>2. Going(p)
      BY <2>b, <2>c, <3>1 DEF Starting, Up, Gone
    <3>3. CASE q = p
      BY <2>c, <3>1, <3>2, <3>3 DEF Going, Gone
    <3>4. CASE q # p
      <4>1. Up(q) \/ Going(q) => pidfile'[vmOf[q]] = pidfile[vmOf[q]]
        <5>1. Up(q) \/ Going(q) => vmOf[q] # vmOf[p]
          BY <3>2, <3>4 DEF Up, Going
        <5> QED BY <1>0, <3>1, <5>1
      <4> QED BY <1>a, <2>a, <3>1, <3>4, <4>1 DEF Starting, Up, Going, Gone, Awaited
    <3> QED BY <3>3, <3>4
  <2>3. CASE ReapTapFile(p)
    <3>1. /\ UNCHANGED <<pidfile, proc>>
          /\ \A x \in Pids : x # p => reaper'[x] = reaper[x] /\ vmOf'[x] = vmOf[x]
          /\ reaper[p] = "rm_tap" /\ reaper'[p] = "none" /\ vmOf'[p] = None
      BY <1>0, <2>3 DEF ReapTapFile
    <3>2. proc[p] = "free"
      BY <3>1 DEF SpawnedOnce
    <3>3. CASE q = p
      BY <3>1, <3>2, <3>3
    <3>4. CASE q # p
      BY <1>a, <2>a, <3>1, <3>4 DEF Starting, Up, Going, Gone, Awaited
    <3> QED BY <3>3, <3>4
  <2> QED BY <1>7, <2>1, <2>2, <2>3 DEF ReaperStep
<1>8. ASSUME NEW p \in Pids, Boot(p)
      PROVE  IF vmOf'[q] = None THEN proc'[q] = "free" /\ reaper'[q] = "none"
             ELSE Starting(q)' \/ Up(q)' \/ Going(q)' \/ Gone(q)'
  <2>1. proc[p] = "boot" /\ vmOf[p] \in Vms /\ (Starting(p) \/ Up(p)) /\ vmOf[p] # None
        /\ kvm[vmOf[p]] = None
    BY <1>8, BootEnters
  <2>3. /\ proc' = [proc EXCEPT ![p] = "run"]
        /\ UNCHANGED <<vmOf, reaper, pidfile, pc, vm, pid>>
    BY <1>8, <2>1 DEF Boot
  <2>4. CASE q = p
    BY <1>0, <2>1, <2>3, <2>4 DEF Starting, Up
  <2>5. CASE q # p
    <3>1. proc'[q] = proc[q]
      BY <1>0, <2>3, <2>5
    <3> QED BY <1>a, <2>3, <3>1 DEF Starting, Up, Going, Gone, Awaited
  <2> QED BY <2>4, <2>5
<1>9. ASSUME NEW p \in Pids, Exit(p)
      PROVE  IF vmOf'[q] = None THEN proc'[q] = "free" /\ reaper'[q] = "none"
             ELSE Starting(q)' \/ Up(q)' \/ Going(q)' \/ Gone(q)'
  <2>1. /\ proc' = [proc EXCEPT ![p] = "zombie"]
        /\ UNCHANGED <<vmOf, reaper, pidfile, pc, vm, pid>>
    BY <1>9 DEF Exit
  <2>2. Up(p) /\ Awaited(p) /\ vmOf[p] \in Vms
    BY <1>9, ExitIsAwaited
  <2>3. CASE q = p
    <3>1. Going(q)'
      BY <1>0, <2>1, <2>2, <2>3 DEF Up, Going, Awaited
    <3> QED BY <2>1, <2>2, <2>3, <3>1, NoneIsNoVm
  <2>4. CASE q # p
    <3>1. proc'[q] = proc[q]
      BY <1>0, <2>1, <2>4
    <3> QED BY <1>a, <2>1, <3>1 DEF Starting, Up, Going, Gone, Awaited
  <2> QED BY <2>3, <2>4
<1>10. ASSUME NEW p \in Pids PROVE ~InitReaps(p)
  BY DEF InitReaps, OneProcess, ProcessesPlaced, Starting, Up, Going, Gone
<1>11. PidFilesRight
  BY DEF OneProcess
<1>12. CASE \E t \in Threads, v \in Vms : BeginStart(t, v) \/ BeginStop(t, v)
  BY <1>2, <1>12, <1>c
<1>13. CASE \E t \in Threads : Quiet(t)
  BY <1>3, <1>13, <1>c DEF Quiet
<1> QED BY <1>1, <1>4, <1>5, <1>6, <1>7, <1>8, <1>9, <1>10, <1>11, <1>12, <1>13, OrderlySteps

(* What PidFilesRight says of the pid file of one VM. *)
PidFileRight(w) ==
    pidfile[w] # None => vmOf[pidfile[w]] = w /\ (Up(pidfile[w]) \/ Going(pidfile[w]))

(* A way to see it after a step. *)
LEMMA RightAfter ==
    ASSUME NEW w \in Vms, NEW q \in Pids, pidfile'[w] = q, vmOf'[q] = w, Up(q)' \/ Going(q)'
    PROVE  PidFileRight(w)'
  BY DEF PidFileRight, Up, Going, Awaited

(* Pid files are of processes that are up or on their way out; a request that is not
   waiting for one finds none. *)
LEMMA PidFilesRightStep ==
    ASSUME TypeOK, PidsOwn, SpawnedOnce, OneClient, OneProcess, Orderly, [Next]_vars
    PROVE  PidFilesRight'
<1> USE DEF Goto, Return, locals, procs, files, reapers, world
<1>0. /\ pc \in [Threads -> PCs] /\ vm \in [Threads -> Vms \union {None}]
      /\ pid \in [Threads -> Pids \union {None}]
      /\ pidfile \in [Vms -> Pids \union {None}]
      /\ proc \in [Pids -> {"free", "boot", "run", "zombie"}]
      /\ vmOf \in [Pids -> Vms \union {None}]
      /\ reaper \in [Pids -> ReaperPCs]
      /\ \A s \in Threads : pc[s] # "idle" => vm[s] \in Vms
  BY DEF TypeOK
<1>a. /\ \A v \in Vms : pidfile[v] # None =>
            /\ pidfile[v] \in Pids /\ vmOf[pidfile[v]] = v
            /\ Up(pidfile[v]) \/ Going(pidfile[v])
      /\ \A s \in Threads : pc[s] \notin {"idle", "wait_exit", "wait_cleanup"} =>
            pidfile[vm[s]] = None
      /\ \A s \in Threads : pc[s] \in {"wait_exit", "wait_cleanup"} =>
            pid[s] \in Pids /\ vmOf[pid[s]] \in {vm[s], None}
  BY <1>0 DEF OneProcess, PidFilesRight
<1>d. \A q \in Pids : IF vmOf[q] = None THEN proc[q] = "free" /\ reaper[q] = "none"
                         ELSE Starting(q) \/ Up(q) \/ Going(q) \/ Gone(q)
  BY DEF OneProcess, ProcessesPlaced
<1>c. ASSUME UNCHANGED <<proc, vmOf, reaper, pc, vm, pid>>,
             \A v \in Vms : pidfile'[v] = pidfile[v]
      PROVE  PidFilesRight'
  BY <1>0, <1>a, <1>c DEF PidFilesRight, Up, Going, Awaited
<1>1. CASE UNCHANGED vars
  BY <1>1, <1>c DEF vars
<1>2. ASSUME NEW t \in Threads, NEW v \in Vms, BeginStart(t, v) \/ BeginStop(t, v)
      PROVE  PidFilesRight'
  <2>0. \A s \in Threads : pc[s] = "idle"
    BY <1>2, AloneToBegin
  <2>1. /\ UNCHANGED <<proc, vmOf, reaper, pidfile>> /\ vm'[t] = v
        /\ \A s \in Threads : s # t => pc'[s] = "idle"
    BY <1>0, <1>2, <2>0 DEF BeginStart, BeginStop
  <2>2. \A w \in Vms : pidfile[w] # None => Up(pidfile[w])
    BY <1>a, <2>0 DEF Going, Awaited
  <2>3. CASE BeginStart(t, v)
    <3>1. pidfile[v] = None
      <4> SUFFICES ASSUME pidfile[v] # None PROVE FALSE
        OBVIOUS
      <4>1. Up(pidfile[v]) /\ pidfile[v] \in Pids
        BY <1>a, <2>2
      <4>2. IsRunning(v)
        BY <4>1 DEF IsRunning, Up
      <4> QED BY <2>3, <4>2 DEF BeginStart
    <3>2. pc'[t] = "guard"
      BY <1>0, <2>3 DEF BeginStart
    <3> QED BY <1>a, <2>1, <2>2, <3>1, <3>2 DEF PidFilesRight, Up
  <2>4. CASE BeginStop(t, v)
    <3>1. \/ pidfile[v] # None /\ pc'[t] = "wait_exit" /\ pid'[t] = pidfile[v]
          \/ pidfile[v] = None /\ pc'[t] = "read_tap"
      BY <1>0, <2>4 DEF BeginStop
    <3> QED BY <1>a, <2>1, <2>2, <3>1 DEF PidFilesRight, Up
  <2> QED BY <1>2, <2>3, <2>4
<1>3. ASSUME NEW t \in Threads, Quiet(t)
      PROVE  PidFilesRight'
  <2>1. Alone(t) /\ pc[t] \notin {"idle", "wait_exit", "wait_cleanup"}
    BY <1>3, AloneNow DEF Quiet
  <2>2. \A w \in Vms : pidfile[w] # None => Up(pidfile[w])
    BY <1>a, <2>1 DEF Going, Awaited, Alone
  <2>3. \A w \in Vms : PidFileRight(w)'
    <3> SUFFICES ASSUME NEW w \in Vms, pidfile'[w] # None
                 PROVE  PidFileRight(w)'
      BY DEF PidFileRight
    <3>1. PICK q \in Pids : q = pidfile[w] /\ pidfile'[w] = q
      BY <1>a, <1>3 DEF Quiet
    <3>2. Up(q) /\ vmOf[q] = w
      BY <1>a, <2>2, <3>1
    <3>3. Up(q)' /\ vmOf'[q] = w
      BY <1>3, <3>1, <3>2 DEF Quiet, Up
    <3> QED BY <3>1, <3>3, RightAfter
  <2>4. \A s \in Threads : pc'[s] # "idle" => s = t /\ vm'[s] = vm[s] /\ vm[s] \in Vms
    BY <1>0, <1>3, <2>1 DEF Quiet, Alone
  <2>5. \A s \in Threads : pc'[s] # "idle" => pidfile'[vm'[s]] = None
    BY <1>a, <1>3, <2>1, <2>4 DEF Quiet
  <2>6. \A s \in Threads : pc'[s] \notin {"wait_exit", "wait_cleanup"}
    BY <1>3, <2>1 DEF Quiet, Alone
  <2> QED BY <2>3, <2>5, <2>6 DEF PidFilesRight, PidFileRight
<1>4. ASSUME NEW t \in Threads, Spawn(t)
      PROVE  PidFilesRight'
  <2>0. Alone(t)
    BY <1>4, AloneNow DEF Spawn
  <2>1. /\ pc[t] = "spawn" /\ pid[t] \in Pids /\ vm[t] \in Vms
        /\ reaper[pid[t]] = "none" /\ proc[pid[t]] = "free" /\ pc' = [pc EXCEPT ![t] = "write_pid"]
        /\ UNCHANGED <<pid, vm, reaper, pidfile>>
        /\ proc' = [proc EXCEPT ![pid[t]] = "boot"]
        /\ vmOf' = [vmOf EXCEPT ![pid[t]] = vm[t]]
    BY <1>0, <1>4 DEF Spawn, PidsOwn, SpawnedOnce
  <2>2. \A w \in Vms : pidfile[w] # None => Up(pidfile[w])
    BY <1>a, <2>0, <2>1 DEF Going, Awaited, Alone
  <2>3. \A w \in Vms : pidfile[w] # None => pidfile[w] # pid[t]
    BY <2>1, <2>2 DEF Up
  <2>4. \A w \in Vms : PidFileRight(w)'
    <3> SUFFICES ASSUME NEW w \in Vms, pidfile'[w] # None
                 PROVE  PidFileRight(w)'
      BY DEF PidFileRight
    <3>1. PICK q \in Pids : q = pidfile[w] /\ pidfile'[w] = q
      BY <1>a, <2>1
    <3>2. vmOf'[q] = vmOf[q] /\ proc'[q] = proc[q] /\ vmOf[q] = w /\ Up(q)
      BY <1>0, <1>a, <2>1, <2>2, <2>3, <3>1
    <3>3. Up(q)'
      BY <2>1, <3>2 DEF Up
    <3> QED BY <2>1, <3>1, <3>2, <3>3, RightAfter
  <2>5. \A s \in Threads : pc'[s] # "idle" => s = t /\ pc'[s] = "write_pid" /\ pidfile[vm[t]] = None
    BY <1>0, <1>a, <2>0, <2>1 DEF Alone
  <2> QED BY <2>1, <2>4, <2>5 DEF PidFilesRight, PidFileRight
<1>5. ASSUME NEW t \in Threads, WritePidFile(t)
      PROVE  PidFilesRight'
  <2>0. Alone(t)
    BY <1>5, AloneNow DEF WritePidFile
  <2>1. /\ pc[t] = "write_pid" /\ pid[t] \in Pids /\ vm[t] \in Vms /\ pidfile[vm[t]] = None
        /\ reaper[pid[t]] = "none" /\ UNCHANGED <<proc, vmOf>>
        /\ vmOf[pid[t]] = vm[t] /\ proc[pid[t]] # "free"
        /\ reaper' = [reaper EXCEPT ![pid[t]] = "wait"]
        /\ pidfile' = [pidfile EXCEPT ![vm[t]] = pid[t]]
        /\ pc' = [pc EXCEPT ![t] = "idle"]
    BY <1>0, <1>5, <1>a DEF WritePidFile, PidsOwn, SpawnedOnce
  <2>2. \A w \in Vms : pidfile[w] # None => Up(pidfile[w])
    BY <1>a, <2>0, <2>1 DEF Going, Awaited, Alone
  <2>3. Starting(pid[t])
    BY <1>d, <2>1, NoneIsNoVm DEF Up, Going, Gone
  <2>4. \A w \in Vms : PidFileRight(w)'
    <3> SUFFICES ASSUME NEW w \in Vms, pidfile'[w] # None
                 PROVE  PidFileRight(w)'
      BY DEF PidFileRight
    <3>1. CASE w = vm[t]
      <4>1. PICK q \in Pids : q = pid[t]
        BY <2>1
      <4>2. pidfile'[w] = q /\ vmOf'[q] = w /\ proc'[q] \in {"boot", "run"} /\ reaper'[q] = "wait"
        BY <1>0, <2>1, <2>3, <3>1, <4>1 DEF Starting
      <4>3. Up(q)'
        BY <3>1, <4>2 DEF Up
      <4> QED BY <4>2, <4>3, RightAfter
    <3>2. CASE w # vm[t]
      <4>1. PICK q \in Pids : q = pidfile[w] /\ pidfile'[w] = q
        BY <1>0, <1>a, <2>1, <3>2
      <4>2. Up(q) /\ vmOf[q] = w /\ q # pid[t]
        BY <1>a, <2>1, <2>2, <3>2, <4>1
      <4>3. reaper'[q] = reaper[q]
        BY <1>0, <2>1, <4>2
      <4>4. Up(q)' /\ vmOf'[q] = w
        BY <2>1, <4>1, <4>2, <4>3 DEF Up
      <4> QED BY <4>1, <4>4, RightAfter
    <3> QED BY <3>1, <3>2
  <2>5. \A s \in Threads : pc'[s] = "idle"
    BY <1>0, <2>0, <2>1 DEF Alone
  <2> QED BY <2>4, <2>5 DEF PidFilesRight, PidFileRight
<1>6. ASSUME NEW t \in Threads, Waited(t)
      PROVE  PidFilesRight'
  <2>0. Alone(t)
    BY <1>6, AloneNow DEF Waited
  <2>1. /\ UNCHANGED <<proc, vmOf, reaper, pidfile, vm, pid>>
        /\ \/ pc[t] = "wait_exit" /\ pc' = [pc EXCEPT ![t] = "wait_cleanup"]
           \/ pc[t] = "wait_cleanup" /\ pidfile[vm[t]] = None /\ pc' = [pc EXCEPT ![t] = "read_tap"]
    BY <1>6 DEF Waited
  <2>2. \A w \in Vms : pidfile[w] # None => Up(pidfile[w])' \/ Going(pidfile[w])'
    <3> SUFFICES ASSUME NEW w \in Vms, pidfile[w] # None
                 PROVE  Up(pidfile[w])' \/ Going(pidfile[w])'
      OBVIOUS
    <3>1. PICK q \in Pids : q = pidfile[w]
      BY <1>a
    <3>2. Up(q) => Up(q)'
      BY <2>1 DEF Up
    <3>3. Going(q) => Going(q)'
      <4> SUFFICES ASSUME Going(q) PROVE Going(q)'
        OBVIOUS
      <4>1. pidfile[vmOf[q]] = q /\ q # None
        BY PidBounds DEF Going, None
      <4>2. pc[t] \in {"wait_exit", "wait_cleanup"} /\ pid[t] = q /\ vm[t] = vmOf[q]
        BY <2>0, <2>1 DEF Alone, Going, Awaited
      <4>3. pc'[t] = "wait_cleanup"
        BY <1>0, <2>1, <4>1, <4>2
      <4>4. Awaited(q)'
        BY <2>1, <4>2, <4>3 DEF Awaited
      <4> QED BY <2>1, <4>4 DEF Going
    <3> QED BY <1>a, <2>1, <3>1, <3>2, <3>3
  <2>3. \A s \in Threads : s # t => pc'[s] = "idle"
    BY <1>0, <2>0, <2>1 DEF Alone
  <2>4. \/ pc[t] = "wait_exit" /\ pc'[t] = "wait_cleanup"
        \/ pidfile[vm[t]] = None /\ pc'[t] = "read_tap"
    BY <1>0, <2>1
  <2> QED BY <1>a, <2>1, <2>2, <2>3, <2>4 DEF PidFilesRight, PidFileRight
<1>7. ASSUME NEW p \in Pids, ReaperStep(p)
      PROVE  PidFilesRight'
  <2> USE DEF ReaperGoto
  <2>a. UNCHANGED <<pc, vm, pid>>
    BY <1>7 DEF ReaperStep, Reap, ReapConsole, ReapKernelVm, ReapBridge, ReapTap, ReapPidFile,
       ReapTapFile
  <2>c. vmOf[p] # None /\ vmOf[p] \in Vms /\ reaper[p] # "none"
    BY <1>0, <1>7, <1>d DEF ReaperStep, Reap, ReapConsole, ReapKernelVm, ReapBridge, ReapTap,
       ReapPidFile, ReapTapFile
  <2>1. CASE Reap(p) \/ ReapConsole(p) \/ ReapKernelVm(p) \/ ReapBridge(p) \/ ReapTap(p)
    <3>1. /\ UNCHANGED <<vmOf, pidfile>>
          /\ \A x \in Pids : x # p => proc'[x] = proc[x] /\ reaper'[x] = reaper[x]
          /\ proc'[p] = "free" \/ (proc'[p] = proc[p] /\ reaper[p] # "wait")
          /\ reaper[p] = "wait" => proc[p] = "zombie"
          /\ reaper[p] \in {"wait", "console", "bhyvectl", "bridge", "tap"}
          /\ reaper'[p] \in {"console", "bhyvectl", "bridge", "tap", "rm_pid"}
      BY <1>0, <2>1 DEF Reap, ReapConsole, ReapKernelVm, ReapBridge, ReapTap
    <3>2. Going(p) /\ ~Up(p)
      BY <1>d, <2>c, <3>1 DEF Starting, Up, Gone
    <3>3. Going(p)'
      BY <2>a, <3>1, <3>2 DEF Going, Awaited
    <3>4. \A q \in Pids : q # p /\ (Up(q) \/ Going(q)) => Up(q)' \/ Going(q)'
      BY <2>a, <3>1 DEF Up, Going, Awaited
    <3>5. \A w \in Vms : PidFileRight(w)'
      <4> SUFFICES ASSUME NEW w \in Vms, pidfile'[w] # None
                   PROVE  PidFileRight(w)'
        BY DEF PidFileRight
      <4>1. PICK q \in Pids : q = pidfile[w] /\ q = pidfile'[w]
        BY <1>a, <3>1
      <4> QED BY <1>a, <3>1, <3>3, <3>4, <4>1, RightAfter
    <3> QED BY <1>a, <2>a, <3>1, <3>5 DEF PidFilesRight, PidFileRight
  <2>2. CASE ReapPidFile(p)
    <3>1. /\ UNCHANGED <<vmOf, proc>> /\ \A x \in Pids : x # p => reaper'[x] = reaper[x]
          /\ reaper[p] = "rm_pid" /\ reaper'[p] = "rm_tap"
          /\ pidfile' = [pidfile EXCEPT ![vmOf[p]] = None]
      BY <1>0, <2>2 DEF ReapPidFile
    <3>2. Going(p)
      BY <1>d, <2>c, <3>1 DEF Starting, Up, Gone
    <3>3. pidfile[vmOf[p]] = p /\ pidfile'[vmOf[p]] = None
      BY <1>0, <2>c, <3>1, <3>2 DEF Going
    <3>4. \A w \in Vms : w # vmOf[p] => pidfile'[w] = pidfile[w]
      BY <1>0, <3>1
    <3>5. \A q \in Pids : q # p /\ vmOf[q] \in Vms /\ vmOf[q] # vmOf[p] /\ (Up(q) \/ Going(q))
                               => Up(q)' \/ Going(q)'
      BY <2>a, <3>1, <3>4 DEF Up, Going, Awaited
    <3>6. \A w \in Vms : PidFileRight(w)'
      <4> SUFFICES ASSUME NEW w \in Vms, pidfile'[w] # None
                   PROVE  PidFileRight(w)'
        BY DEF PidFileRight
      <4>1. PICK q \in Pids : q = pidfile[w] /\ q = pidfile'[w] /\ w # vmOf[p]
        BY <1>a, <3>3, <3>4
      <4>2. vmOf[q] = w /\ q # p
        BY <1>a, <4>1
      <4> QED BY <1>a, <3>1, <3>5, <4>1, <4>2, RightAfter
    <3>7. \A w \in Vms : pidfile[w] = None => pidfile'[w] = None
      BY <3>3, <3>4
    <3>8. \A s \in Threads : pc'[s] \notin {"idle", "wait_exit", "wait_cleanup"} =>
             pidfile'[vm'[s]] = None
      BY <1>0, <1>a, <2>a, <3>7
    <3> QED BY <1>a, <2>a, <3>1, <3>6, <3>8 DEF PidFilesRight, PidFileRight
  <2>3. CASE ReapTapFile(p)
    <3>1. /\ UNCHANGED <<pidfile, proc>>
          /\ \A x \in Pids : x # p => reaper'[x] = reaper[x] /\ vmOf'[x] = vmOf[x]
          /\ reaper[p] = "rm_tap" /\ reaper'[p] = "none" /\ vmOf'[p] = None
      BY <1>0, <2>3 DEF ReapTapFile
    <3>2. \A w \in Vms : pidfile[w] # p
      BY <1>a, <3>1, PidBounds DEF Up, Going, None
    <3>3. \A q \in Pids : q # p /\ (Up(q) \/ Going(q)) => Up(q)' \/ Going(q)'
      BY <2>a, <3>1 DEF Up, Going, Awaited
    <3>4. \A w \in Vms : PidFileRight(w)'
      <4> SUFFICES ASSUME NEW w \in Vms, pidfile'[w] # None
                   PROVE  PidFileRight(w)'
        BY DEF PidFileRight
      <4>1. PICK q \in Pids : q = pidfile[w] /\ q = pidfile'[w] /\ q # p
        BY <1>a, <3>1, <3>2
      <4> QED BY <1>a, <3>1, <3>3, <4>1, RightAfter
    <3>5. \A s \in Threads : pc'[s] \in {"wait_exit", "wait_cleanup"} =>
             pid'[s] \in Pids /\ vmOf'[pid'[s]] \in {vm'[s], None}
      BY <1>a, <2>a, <3>1
    <3> QED BY <1>a, <2>a, <3>1, <3>4, <3>5 DEF PidFilesRight, PidFileRight
  <2> QED BY <1>7, <2>1, <2>2, <2>3 DEF ReaperStep
<1>8. ASSUME NEW p \in Pids, Boot(p)
      PROVE  PidFilesRight'
  <2>1. /\ proc' = [proc EXCEPT ![p] = "run"]
        /\ UNCHANGED <<vmOf, reaper, pidfile, pc, vm, pid>>
    BY <1>8, BootEnters DEF Boot
  <2>2. proc[p] = "boot"
    BY <1>8 DEF Boot
  <2>3. \A q \in Pids : (Up(q) \/ Going(q)) => Up(q)' \/ Going(q)'
    <3> SUFFICES ASSUME NEW q \in Pids, Up(q) \/ Going(q) PROVE Up(q)' \/ Going(q)'
      OBVIOUS
    <3>1. proc'[q] = proc[q] \/ (proc[q] = "boot" /\ proc'[q] = "run")
      BY <1>0, <2>1, <2>2
    <3> QED BY <2>1, <3>1 DEF Up, Going, Awaited
  <2> QED BY <1>a, <2>1, <2>3 DEF PidFilesRight, PidFileRight
<1>9. ASSUME NEW p \in Pids, Exit(p)
      PROVE  PidFilesRight'
  <2>1. /\ proc' = [proc EXCEPT ![p] = "zombie"] /\ proc[p] = "run"
        /\ UNCHANGED <<vmOf, reaper, pidfile, pc, vm, pid>>
    BY <1>9 DEF Exit
  <2>2. Up(p) /\ Awaited(p)
    BY <1>9, ExitIsAwaited
  <2>3. \A q \in Pids : (Up(q) \/ Going(q)) => Up(q)' \/ Going(q)'
    <3> SUFFICES ASSUME NEW q \in Pids, Up(q) \/ Going(q) PROVE Up(q)' \/ Going(q)'
      OBVIOUS
    <3>1. proc'[q] = proc[q] \/ (q = p /\ proc'[q] = "zombie")
      BY <1>0, <2>1
    <3> QED BY <2>1, <2>2, <3>1 DEF Up, Going, Awaited
  <2> QED BY <1>a, <2>1, <2>3 DEF PidFilesRight, PidFileRight
<1>10. ASSUME NEW p \in Pids PROVE ~InitReaps(p)
  BY <1>d DEF InitReaps, Starting, Up, Going, Gone
<1>11. PidFilesRight
  BY DEF OneProcess
<1> QED BY <1>1, <1>2, <1>3, <1>4, <1>5, <1>6, <1>7, <1>8, <1>9, <1>10, <1>11, OrderlySteps

(* The kernel runs the VM of a process that runs, and of no other. *)
LEMMA KernelVmsStep ==
    ASSUME TypeOK, PidsOwn, SpawnedOnce, OneClient, OneProcess, Orderly, [Next]_vars
    PROVE  KernelVms'
<1> USE DEF Goto, Return, locals, procs, files, reapers, world
<1>0. /\ proc \in [Pids -> {"free", "boot", "run", "zombie"}]
      /\ vmOf \in [Pids -> Vms \union {None}]
      /\ kvm \in [Vms -> Pids \union {None}]
      /\ reaper \in [Pids -> ReaperPCs] /\ pid \in [Threads -> Pids \union {None}]
      /\ vm \in [Threads -> Vms \union {None}]
  BY DEF TypeOK
<1>a. \A v \in Vms, p \in Pids : kvm[v] = p <=> proc[p] = "run" /\ vmOf[p] = v
  BY DEF OneProcess, KernelVms
<1>d. \A q \in Pids : IF vmOf[q] = None THEN proc[q] = "free" /\ reaper[q] = "none"
                         ELSE Starting(q) \/ Up(q) \/ Going(q) \/ Gone(q)
  BY DEF OneProcess, ProcessesPlaced
<1>1. CASE UNCHANGED <<proc, vmOf, kvm>>
  BY <1>a, <1>1 DEF KernelVms
<1>2. ASSUME NEW t \in Threads, Spawn(t)
      PROVE  KernelVms'
  <2>1. /\ pid[t] \in Pids /\ proc[pid[t]] = "free" /\ UNCHANGED kvm
        /\ proc' = [proc EXCEPT ![pid[t]] = "boot"]
        /\ vmOf' = [vmOf EXCEPT ![pid[t]] = vm[t]]
    BY <1>0, <1>2 DEF Spawn, PidsOwn, SpawnedOnce
  <2>2. /\ proc'[pid[t]] = "boot"
        /\ \A q \in Pids : q # pid[t] => proc'[q] = proc[q] /\ vmOf'[q] = vmOf[q]
    BY <1>0, <2>1
  <2> QED BY <1>a, <2>1, <2>2 DEF KernelVms
<1>3. ASSUME NEW p \in Pids, ReaperStep(p)
      PROVE  KernelVms'
  <2> USE DEF ReaperGoto
  <2>1. CASE Reap(p)
    BY <1>0, <1>a, <2>1 DEF Reap, KernelVms
  <2>2. CASE ReapKernelVm(p)
    <3>1. reaper[p] = "bhyvectl" /\ UNCHANGED <<proc, vmOf>>
          /\ kvm' = [kvm EXCEPT ![vmOf[p]] = None]
      BY <2>2 DEF ReapKernelVm
    <3>2. vmOf[p] \in Vms /\ Going(p) /\ proc[p] = "free"
      BY <1>0, <1>d, <3>1 DEF Starting, Up, Going, Gone
    <3>3. \A q \in Pids : ~(proc[q] = "run" /\ vmOf[q] = vmOf[p])
      <4> SUFFICES ASSUME NEW q \in Pids, proc[q] = "run", vmOf[q] = vmOf[p] PROVE FALSE
        OBVIOUS
      <4>1. Starting(q) \/ Up(q)
        BY <1>d, <3>2, NoneIsNoVm DEF Going, Gone
      <4> QED BY <3>2, <4>1, PlacesDiffer DEF OneProcess
    <3>4. /\ kvm'[vmOf[p]] = None
          /\ \A v \in Vms : v # vmOf[p] => kvm'[v] = kvm[v]
      BY <1>0, <3>1, <3>2
    <3> QED BY <1>a, <3>1, <3>2, <3>3, <3>4, PidBounds DEF KernelVms, None
  <2>3. CASE ReapTapFile(p)
    <3>1. reaper[p] = "rm_tap" /\ UNCHANGED <<proc, kvm>> /\ vmOf' = [vmOf EXCEPT ![p] = None]
      BY <2>3 DEF ReapTapFile
    <3>2. proc[p] = "free"
      BY <3>1 DEF SpawnedOnce
    <3> QED BY <1>0, <1>a, <3>1, <3>2 DEF KernelVms
  <2>4. CASE ReapConsole(p) \/ ReapBridge(p) \/ ReapTap(p) \/ ReapPidFile(p)
    BY <1>1, <2>4 DEF ReapConsole, ReapBridge, ReapTap, ReapPidFile
  <2> QED BY <1>3, <2>1, <2>2, <2>3, <2>4 DEF ReaperStep
<1>4. ASSUME NEW p \in Pids, Boot(p)
      PROVE  KernelVms'
  <2>1. /\ proc' = [proc EXCEPT ![p] = "run"] /\ kvm[vmOf[p]] = None
        /\ kvm' = [kvm EXCEPT ![vmOf[p]] = p] /\ vmOf[p] \in Vms /\ UNCHANGED vmOf
    BY <1>4, BootEnters DEF Boot
  <2>2. kvm'[vmOf[p]] = p /\ \A v \in Vms : v # vmOf[p] => kvm'[v] = kvm[v]
    BY <1>0, <2>1
  <2>3. proc'[p] = "run" /\ \A q \in Pids : q # p => proc'[q] = proc[q]
    BY <1>0, <2>1
  <2>4. \A q \in Pids : q # None
    BY PidBounds DEF None
  <2> QED BY <1>a, <2>1, <2>2, <2>3, <2>4 DEF KernelVms
<1>5. ASSUME NEW p \in Pids, Exit(p)
      PROVE  KernelVms'
  <2>1. /\ proc' = [proc EXCEPT ![p] = "zombie"] /\ UNCHANGED vmOf
        /\ kvm' = [v \in Vms |-> IF kvm[v] = p THEN None ELSE kvm[v]]
    BY <1>5 DEF Exit, Leave
  <2> QED BY <1>0, <1>a, <2>1, PidBounds DEF KernelVms, None
<1>6. ASSUME NEW p \in Pids PROVE ~InitReaps(p)
  BY <1>d DEF InitReaps, Starting, Up, Going, Gone
<1>7. PidFilesRight
  BY DEF OneProcess
<1>8. CASE \E t \in Threads, v \in Vms : BeginStart(t, v) \/ BeginStop(t, v)
  BY <1>1, <1>8 DEF BeginStart, BeginStop
<1>9. CASE \E t \in Threads : WritePidFile(t) \/ Waited(t) \/ Quiet(t)
  BY <1>1, <1>9 DEF WritePidFile, Waited, Quiet
<1>10. CASE UNCHANGED vars
  BY <1>1, <1>10 DEF vars
<1> QED BY <1>2, <1>3, <1>4, <1>5, <1>6, <1>7, <1>8, <1>9, <1>10, OrderlySteps

(* The console of a process that is up, or about to be written down, is registered. *)
LEMMA ConsoleKeptStep ==
    ASSUME TypeOK, PidsOwn, SpawnedOnce, OneClient, OneProcess, ConsoleKept, Orderly, [Next]_vars
    PROVE  ConsoleKept'
<1> USE DEF Goto, Return, locals, procs, files, reapers, world
<1>0. /\ pc \in [Threads -> PCs] /\ vm \in [Threads -> Vms \union {None}]
      /\ pid \in [Threads -> Pids \union {None}]
      /\ pidfile \in [Vms -> Pids \union {None}] /\ console \in [Vms -> Pids \union {None}]
      /\ proc \in [Pids -> {"free", "boot", "run", "zombie"}]
      /\ vmOf \in [Pids -> Vms \union {None}]
      /\ reaper \in [Pids -> ReaperPCs]
      /\ \A s \in Threads : pc[s] # "idle" => vm[s] \in Vms
  BY DEF TypeOK
<1>a. /\ \A t \in Threads : pc[t] \in {"spawn", "write_pid"} => console[vm[t]] = pid[t]
      /\ \A p \in Pids : Up(p) /\ vmOf[p] # None => console[vmOf[p]] = p
  BY DEF ConsoleKept
<1>b. \A q \in Pids : vmOf[q] # None => vmOf[q] \in Vms
  BY <1>0
<1>c. \A s \in Threads : pc[s] \notin {"idle", "wait_exit", "wait_cleanup"} =>
            pidfile[vm[s]] = None
  BY DEF OneProcess, PidFilesRight
<1>d. \A q \in Pids : q # None
  BY PidBounds DEF None
<1>1. ASSUME UNCHANGED console, NEW t \in Threads,
             \A s \in Threads : s # t => pc'[s] = pc[s] /\ vm'[s] = vm[s] /\ pid'[s] = pid[s],
             pc'[t] \notin {"spawn", "write_pid"},
             \A q \in Pids : Up(q)' /\ vmOf'[q] # None => Up(q) /\ vmOf'[q] = vmOf[q]
      PROVE  ConsoleKept'
  BY <1>a, <1>1 DEF ConsoleKept
<1>2. ASSUME UNCHANGED <<console, pc, vm, pid>>,
             \A q \in Pids : Up(q)' /\ vmOf'[q] # None => Up(q) /\ vmOf'[q] = vmOf[q]
      PROVE  ConsoleKept'
  BY <1>a, <1>2 DEF ConsoleKept
<1>3. CASE UNCHANGED vars
  BY <1>2, <1>3 DEF vars, Up
<1>4. ASSUME NEW t \in Threads, NEW v \in Vms, BeginStart(t, v) \/ BeginStop(t, v)
      PROVE  ConsoleKept'
  BY <1>0, <1>1, <1>4 DEF BeginStart, BeginStop, Up
<1>5. ASSUME NEW t \in Threads, StartStep(t)
      PROVE  ConsoleKept'
  <2>0. Alone(t)
    BY <1>5, AloneNow DEF StartStep, Guard, CreateTap, CreateTapFails, SetUpTap, AddToBridge,
       ConfigureTapFails, WriteTapFile, Check, RegisterConsole, Spawn, SpawnFails,
       WritePidFile, WritePidFileFails, FailBridge, FailTap, FailFile, FailConsole
  <2>1. CASE Guard(t) \/ CreateTap(t) \/ CreateTapFails(t) \/ SetUpTap(t)
    BY <1>0, <1>1, <2>1 DEF Guard, CreateTap, CreateTapFails, SetUpTap, Up
  <2>2. CASE AddToBridge(t) \/ ConfigureTapFails(t) \/ WriteTapFile(t) \/ Check(t)
    BY <1>0, <1>1, <2>2 DEF AddToBridge, ConfigureTapFails, WriteTapFile, Check, Up
  <2>3. CASE RegisterConsole(t)
    <3>1. PICK p \in Pids : /\ pid' = [pid EXCEPT ![t] = p]
                            /\ console' = [console EXCEPT ![vm[t]] = p]
      BY <2>3 DEF RegisterConsole, FreePids
    <3>2. /\ pc[t] = "console" /\ vm[t] \in Vms /\ pc' = [pc EXCEPT ![t] = "spawn"]
          /\ UNCHANGED <<vm, proc, vmOf, reaper, pidfile>> /\ pidfile[vm[t]] = None
      BY <1>0, <1>c, <2>3 DEF RegisterConsole
    <3>3. /\ console'[vm[t]] = p /\ pid'[t] = p /\ pc'[t] = "spawn"
          /\ \A v \in Vms : v # vm[t] => console'[v] = console[v]
          /\ \A s \in Threads : s # t => pc'[s] = "idle"
      BY <1>0, <2>0, <3>1, <3>2 DEF Alone
    <3>4. \A q \in Pids : Up(q) /\ vmOf[q] # None => vmOf[q] # vm[t]
      BY <1>d, <3>2 DEF Up
    <3>5. \A q \in Pids : Up(q)' => Up(q)
      BY <3>2 DEF Up
    <3>6. \A q \in Pids : Up(q)' /\ vmOf'[q] # None => console'[vmOf'[q]] = q
      BY <1>a, <1>b, <3>2, <3>3, <3>4, <3>5
    <3>7. \A s \in Threads : pc'[s] \in {"spawn", "write_pid"} => console'[vm'[s]] = pid'[s]
      BY <3>2, <3>3
    <3> QED BY <3>6, <3>7 DEF ConsoleKept
  <2>4. CASE Spawn(t)
    <3>1. /\ pc[t] = "spawn" /\ pid[t] \in Pids /\ reaper[pid[t]] = "none"
          /\ pc' = [pc EXCEPT ![t] = "write_pid"]
          /\ UNCHANGED <<pid, vm, reaper, pidfile, console>>
          /\ proc' = [proc EXCEPT ![pid[t]] = "boot"]
          /\ vmOf' = [vmOf EXCEPT ![pid[t]] = vm[t]]
      BY <1>0, <2>4 DEF Spawn, PidsOwn
    <3>2. \A q \in Pids : Up(q)' => Up(q) /\ vmOf'[q] = vmOf[q]
      BY <1>0, <3>1 DEF Up
    <3>3. \A s \in Threads : pc'[s] \in {"spawn", "write_pid"} => console'[vm'[s]] = pid'[s]
      BY <1>0, <1>a, <3>1
    <3> QED BY <1>a, <3>1, <3>2, <3>3 DEF ConsoleKept
  <2>5. CASE SpawnFails(t) \/ WritePidFileFails(t)
    BY <1>0, <1>1, <2>5 DEF SpawnFails, WritePidFileFails, Up
  <2>6. CASE WritePidFile(t)
    <3>1. /\ pc[t] = "write_pid" /\ pid[t] \in Pids /\ vm[t] \in Vms /\ pidfile[vm[t]] = None
          /\ UNCHANGED <<proc, vmOf, console>> /\ vmOf[pid[t]] = vm[t]
          /\ reaper' = [reaper EXCEPT ![pid[t]] = "wait"]
          /\ pidfile' = [pidfile EXCEPT ![vm[t]] = pid[t]]
          /\ pc' = [pc EXCEPT ![t] = "idle"]
      BY <1>0, <1>c, <2>6 DEF WritePidFile, PidsOwn, SpawnedOnce
    <3>2. console[vm[t]] = pid[t]
      BY <1>a, <3>1
    <3>3. \A q \in Pids : Up(q)' /\ vmOf[q] # None => Up(q) \/ q = pid[t]
      BY <1>0, <1>b, <3>1 DEF Up
    <3>4. \A s \in Threads : pc'[s] = "idle"
      BY <1>0, <2>0, <3>1 DEF Alone
    <3> QED BY <1>a, <3>1, <3>2, <3>3, <3>4 DEF ConsoleKept
  <2>7. CASE FailBridge(t) \/ FailTap(t) \/ FailFile(t)
    BY <1>0, <1>1, <2>7 DEF FailBridge, FailTap, FailFile, Up
  <2>8. CASE FailConsole(t)
    <3>1. /\ pc[t] = "fail_console" /\ vm[t] \in Vms /\ pidfile[vm[t]] = None
          /\ UNCHANGED <<proc, vmOf, reaper, pidfile>> /\ pc' = [pc EXCEPT ![t] = "idle"]
          /\ console' = [console EXCEPT ![vm[t]] = None]
      BY <1>0, <1>c, <2>8 DEF FailConsole
    <3>2. \A q \in Pids : Up(q) => vmOf[q] # vm[t]
      BY <1>d, <3>1 DEF Up
    <3>3. \A q \in Pids : Up(q)' => Up(q)
      BY <3>1 DEF Up
    <3>4. \A q \in Pids : Up(q)' /\ vmOf'[q] # None => console'[vmOf'[q]] = q
      BY <1>0, <1>a, <1>b, <3>1, <3>2, <3>3
    <3>5. \A s \in Threads : pc'[s] = "idle"
      BY <1>0, <2>0, <3>1 DEF Alone
    <3> QED BY <3>4, <3>5 DEF ConsoleKept
  <2> QED BY <1>5, <2>1, <2>2, <2>3, <2>4, <2>5, <2>6, <2>7, <2>8 DEF StartStep
<1>6. ASSUME NEW t \in Threads, StopStep(t)
      PROVE  ConsoleKept'
  <2>1. CASE Waited(t) \/ WaitTimesOut(t) \/ ReadTapFile(t) \/ StopBridge(t) \/ StopTap(t)
             \/ RemoveTapFile(t)
    BY <1>0, <1>1, <2>1 DEF Waited, WaitTimesOut, ReadTapFile, StopBridge, StopTap, RemoveTapFile,
       Up
  <2>2. CASE RemovePidFile(t)
    <3>1. /\ pidfile' = [pidfile EXCEPT ![vm[t]] = None] /\ pc' = [pc EXCEPT ![t] = "rm_tap"]
          /\ UNCHANGED <<proc, vmOf, reaper, console, vm, pid>>
      BY <2>2 DEF RemovePidFile
    <3>2. \A q \in Pids : Up(q)' /\ vmOf'[q] # None => Up(q)
      BY <1>0, <1>b, <1>d, <3>1 DEF Up
    <3> QED BY <1>0, <1>1, <3>1, <3>2
  <2> QED BY <1>6, <2>1, <2>2 DEF StopStep
<1>7. ASSUME NEW p \in Pids, ReaperStep(p)
      PROVE  ConsoleKept'
  <2> USE DEF ReaperGoto
  <2>1. UNCHANGED <<pc, vm, pid>> /\ reaper[p] # "none"
    BY <1>7 DEF ReaperStep, Reap, ReapConsole, ReapKernelVm, ReapBridge, ReapTap, ReapPidFile,
       ReapTapFile
  <2>2. CASE ReapConsole(p)
    <3>1. /\ reaper[p] = "console" /\ console' = [console EXCEPT ![vmOf[p]] = None]
          /\ reaper' = [reaper EXCEPT ![p] = "bhyvectl"] /\ UNCHANGED <<proc, vmOf, pidfile>>
      BY <2>2 DEF ReapConsole
    <3>2. Going(p) /\ vmOf[p] \in Vms
      BY <1>b, <3>1 DEF OneProcess, ProcessesPlaced, Starting, Up, Gone
    <3>3. \A q \in Pids : Up(q)' => Up(q)
      BY <1>0, <3>1 DEF Up
    <3>4. \A q \in Pids : Up(q) => vmOf[q] # vmOf[p]
      BY <3>1, <3>2 DEF Up, Going
    <3>5. \A q \in Pids : Up(q)' /\ vmOf'[q] # None => console'[vmOf'[q]] = q
      BY <1>0, <1>a, <1>b, <3>1, <3>3, <3>4
    <3>6. \A s \in Threads : pc[s] \notin {"spawn", "write_pid"}
      BY <3>2 DEF Going, Awaited, OneClient
    <3> QED BY <2>1, <3>5, <3>6 DEF ConsoleKept
  <2>3. CASE Reap(p)
    BY <1>0, <1>2, <2>1, <2>3 DEF Reap, Up
  <2>4. CASE ReapKernelVm(p) \/ ReapBridge(p) \/ ReapTap(p)
    BY <1>0, <1>2, <2>1, <2>4 DEF ReapKernelVm, ReapBridge, ReapTap, Up
  <2>5. CASE ReapPidFile(p)
    <3>1. /\ pidfile' = [pidfile EXCEPT ![vmOf[p]] = None]
          /\ reaper' = [reaper EXCEPT ![p] = "rm_tap"] /\ UNCHANGED <<proc, vmOf, console>>
      BY <2>5 DEF ReapPidFile
    <3>2. \A q \in Pids : Up(q)' /\ vmOf'[q] # None => Up(q)
      BY <1>0, <1>b, <1>d, <3>1 DEF Up
    <3> QED BY <1>2, <2>1, <3>1, <3>2
  <2>6. CASE ReapTapFile(p)
    <3>1. /\ vmOf' = [vmOf EXCEPT ![p] = None]
          /\ reaper' = [reaper EXCEPT ![p] = "none"] /\ UNCHANGED <<proc, pidfile, console>>
      BY <2>6 DEF ReapTapFile
    <3>2. \A q \in Pids : Up(q)' => Up(q) /\ vmOf'[q] = vmOf[q]
      BY <1>0, <3>1 DEF Up
    <3> QED BY <1>2, <2>1, <3>1, <3>2
  <2> QED BY <1>7, <2>2, <2>3, <2>4, <2>5, <2>6 DEF ReaperStep
<1>8. ASSUME NEW p \in Pids, Boot(p) \/ Exit(p)
      PROVE  ConsoleKept'
  <2>1. /\ UNCHANGED <<pc, vm, pid, console, vmOf, reaper, pidfile>>
        /\ proc[p] \in {"boot", "run"} /\ \A q \in Pids : q # p => proc'[q] = proc[q]
    BY <1>0, <1>8 DEF Boot, Exit
  <2>2. \A q \in Pids : Up(q)' => Up(q)
    BY <2>1 DEF Up
  <2> QED BY <1>2, <2>1, <2>2
<1>9. ASSUME NEW p \in Pids PROVE ~InitReaps(p)
  BY DEF InitReaps, OneProcess, ProcessesPlaced, Starting, Up, Going, Gone
<1>10. ~Restart
  BY OrderlyFaults DEF TypeOK, Restart
<1> QED BY <1>3, <1>4, <1>5, <1>6, <1>7, <1>8, <1>9, <1>10 DEF Next, ProcStep

(* Reapers keep the taps they captured, each its own, until they destroy them. *)
LEMMA ReaperTapsStep ==
    ASSUME TypeOK, PidsOwn, OneClient, OneProcess, OwnTaps, Orderly, [Next]_vars
    PROVE  ReaperTaps'
<1> USE DEF Goto, Return, locals, procs, files, reapers, world, netVars, Reaping
<1>0. /\ pc \in [Threads -> PCs] /\ pid \in [Threads -> Pids \union {None}]
      /\ tap \in [Threads -> Units \union {None}]
      /\ reaper \in [Pids -> ReaperPCs] /\ reaperTap \in [Pids -> Units \union {None}]
      /\ ifaces \subseteq Units /\ bridge \subseteq ifaces
  BY DEF TypeOK, NetTypeOK
<1>a. \A p \in Pids :
         /\ reaper[p] \in {"wait", "console", "bhyvectl", "bridge"} => reaperTap[p] \in bridge
         /\ reaper[p] = "tap" => reaperTap[p] \in ifaces
         /\ \A q \in Pids, u \in Units : Reaping(p, u) /\ Reaping(q, u) => p = q
  BY DEF OwnTaps, ReaperTaps
<1>b. \A t \in Threads :
         /\ pc[t] \in {"stop_bridge", "stop_tap"} => tap[t] \notin ifaces
         /\ pc[t] = "write_pid" => tap[t] \in bridge
         /\ \A p \in Pids, u \in Units : Holding(t, u) => ~Reaping(p, u)
  BY DEF OwnTaps, RequestTaps
<1>1. CASE UNCHANGED <<reaper, reaperTap>> /\ ifaces \subseteq ifaces' /\ bridge \subseteq bridge'
  BY <1>a, <1>1 DEF ReaperTaps
<1>2. CASE UNCHANGED vars
  BY <1>1, <1>2 DEF vars
<1>3. ASSUME NEW t \in Threads, NEW v \in Vms, BeginStart(t, v) \/ BeginStop(t, v)
      PROVE  ReaperTaps'
  BY <1>1, <1>3 DEF BeginStart, BeginStop
<1>4. ASSUME NEW t \in Threads, StartStep(t)
      PROVE  ReaperTaps'
  <2>1. CASE Guard(t) \/ CreateTap(t) \/ CreateTapFails(t) \/ SetUpTap(t)
    BY <1>1, <2>1 DEF Guard, CreateTap, CreateInterface, CreateTapFails, SetUpTap
  <2>2. CASE AddToBridge(t) \/ ConfigureTapFails(t) \/ WriteTapFile(t) \/ Check(t)
    BY <1>1, <2>2 DEF AddToBridge, BridgeAdd, ConfigureTapFails, WriteTapFile, Check
  <2>3. CASE RegisterConsole(t) \/ Spawn(t) \/ SpawnFails(t) \/ WritePidFileFails(t)
    BY <1>1, <2>3 DEF RegisterConsole, Spawn, SpawnFails, WritePidFileFails
  <2>4. CASE WritePidFile(t)
    <3>1. /\ pc[t] = "write_pid" /\ pid[t] \in Pids /\ tap[t] \in bridge /\ tap[t] \in Units
          /\ UNCHANGED <<ifaces, bridge>>
          /\ reaper' = [reaper EXCEPT ![pid[t]] = "wait"]
          /\ reaperTap' = [reaperTap EXCEPT ![pid[t]] = tap[t]]
      BY <1>0, <1>b, <2>4 DEF WritePidFile, PidsOwn
    <3>2. \A p \in Pids : ~Reaping(p, tap[t])
      BY <1>b, <3>1 DEF Holding
    <3>3. /\ reaper'[pid[t]] = "wait" /\ reaperTap'[pid[t]] = tap[t]
          /\ \A p \in Pids : p # pid[t] => reaper'[p] = reaper[p] /\ reaperTap'[p] = reaperTap[p]
      BY <1>0, <3>1
    <3> QED BY <1>a, <3>1, <3>2, <3>3 DEF ReaperTaps
  <2>5. CASE FailBridge(t)
    <3>1. /\ Holding(t, tap[t])
          /\ UNCHANGED <<reaper, reaperTap, ifaces>> /\ bridge' = bridge \ {tap[t]}
      BY <2>5 DEF FailBridge, DropFromBridge, BridgeDelete, Holding
    <3>2. \A p \in Pids : reaperTap[p] \in Units => ~Reaping(p, tap[t])
      BY <1>b, <3>1
    <3> QED BY <1>0, <1>a, <3>1, <3>2 DEF ReaperTaps
  <2>6. CASE FailTap(t)
    <3>1. /\ Holding(t, tap[t])
          /\ UNCHANGED <<reaper, reaperTap>> /\ bridge' = bridge \ {tap[t]}
          /\ ifaces' = ifaces \ {tap[t]}
      BY <1>0, <2>6 DEF FailTap, DropInterface, DestroyInterface, Holding
    <3>2. \A p \in Pids : reaperTap[p] \in Units => ~Reaping(p, tap[t])
      BY <1>b, <3>1
    <3> QED BY <1>0, <1>a, <3>1, <3>2 DEF ReaperTaps
  <2>7. CASE FailFile(t) \/ FailConsole(t)
    BY <1>1, <2>7 DEF FailFile, FailConsole
  <2> QED BY <1>4, <2>1, <2>2, <2>3, <2>4, <2>5, <2>6, <2>7 DEF StartStep
<1>5. ASSUME NEW t \in Threads, StopStep(t)
      PROVE  ReaperTaps'
  <2>1. CASE StopBridge(t) \/ StopTap(t)
    BY <1>0, <1>1, <1>b, <2>1 DEF StopBridge, StopTap, DropFromBridge, DropInterface, BridgeDelete,
       DestroyInterface
  <2>2. CASE Waited(t) \/ WaitTimesOut(t) \/ ReadTapFile(t) \/ RemovePidFile(t) \/ RemoveTapFile(t)
    BY <1>1, <2>2 DEF Waited, WaitTimesOut, ReadTapFile, RemovePidFile, RemoveTapFile
  <2> QED BY <1>5, <2>1, <2>2 DEF StopStep
<1>6. ASSUME NEW p \in Pids, ReaperStep(p)
      PROVE  ReaperTaps'
  <2> USE DEF ReaperGoto
  <2>1. CASE Reap(p) \/ ReapConsole(p) \/ ReapKernelVm(p)
    <3>1. /\ reaper[p] \in {"wait", "console", "bhyvectl"}
          /\ reaper'[p] \in {"console", "bhyvectl", "bridge"} /\ UNCHANGED <<reaperTap, ifaces, bridge>>
          /\ \A q \in Pids : q # p => reaper'[q] = reaper[q]
      BY <1>0, <2>1 DEF Reap, ReapConsole, ReapKernelVm
    <3> QED BY <1>a, <3>1 DEF ReaperTaps
  <2>2. CASE ReapBridge(p)
    <3>1. /\ reaper[p] = "bridge" /\ UNCHANGED <<reaperTap, ifaces>>
          /\ bridge' = bridge \ {reaperTap[p]} /\ reaper'[p] = "tap"
          /\ \A q \in Pids : q # p => reaper'[q] = reaper[q]
      BY <1>0, <2>2 DEF ReapBridge, DropFromBridge, BridgeDelete
    <3>2. reaperTap[p] \in Units /\ reaperTap[p] \in ifaces
      BY <1>0, <1>a, <3>1
    <3>3. \A q \in Pids : q # p => ~Reaping(q, reaperTap[p])
      BY <1>a, <3>1, <3>2
    <3>4. \A q \in Pids, x \in Pids, u \in Units : Reaping(x, u)' /\ Reaping(q, u)' => x = q
      BY <1>a, <3>1
    <3>5. \A q \in Pids : reaper'[q] \in {"wait", "console", "bhyvectl", "bridge"} => reaperTap[q] \in bridge'
      BY <1>a, <3>1, <3>3
    <3>6. \A q \in Pids : reaper'[q] = "tap" => reaperTap[q] \in ifaces
      BY <1>a, <3>1, <3>2
    <3> QED BY <3>1, <3>4, <3>5, <3>6 DEF ReaperTaps
  <2>3. CASE ReapTap(p)
    <3>1. /\ reaper[p] = "tap" /\ UNCHANGED <<reaperTap>>
          /\ bridge' = bridge \ {reaperTap[p]} /\ ifaces' = ifaces \ {reaperTap[p]}
          /\ reaper'[p] = "rm_pid" /\ \A q \in Pids : q # p => reaper'[q] = reaper[q]
      BY <1>0, <2>3 DEF ReapTap, DropInterface, DestroyInterface
    <3>2. reaperTap[p] \in Units
      BY <1>0, <1>a, <3>1
    <3>3. \A q \in Pids : q # p => ~Reaping(q, reaperTap[p])
      BY <1>a, <3>1, <3>2
    <3>4. \A q \in Pids, x \in Pids, u \in Units : Reaping(x, u)' /\ Reaping(q, u)' => x = q
      BY <1>a, <3>1
    <3>5. \A q \in Pids : reaper'[q] \in {"wait", "console", "bhyvectl", "bridge"} => reaperTap[q] \in bridge'
      BY <1>a, <3>1, <3>3
    <3>6. \A q \in Pids : reaper'[q] = "tap" => reaperTap[q] \in ifaces'
      BY <1>a, <3>1, <3>3
    <3> QED BY <3>1, <3>4, <3>5, <3>6 DEF ReaperTaps
  <2>4. CASE ReapPidFile(p) \/ ReapTapFile(p)
    <3>1. /\ UNCHANGED <<ifaces, bridge>> /\ reaper'[p] \in {"rm_tap", "none"}
          /\ \A q \in Pids : q # p => reaper'[q] = reaper[q] /\ reaperTap'[q] = reaperTap[q]
      BY <1>0, <2>4 DEF ReapPidFile, ReapTapFile
    <3> QED BY <1>a, <3>1 DEF ReaperTaps
  <2> QED BY <1>6, <2>1, <2>2, <2>3, <2>4 DEF ReaperStep
<1>7. ASSUME NEW p \in Pids, Boot(p) \/ Exit(p)
      PROVE  ReaperTaps'
  BY <1>1, <1>7 DEF Boot, Exit
<1>8. ASSUME NEW p \in Pids PROVE ~InitReaps(p)
  BY DEF InitReaps, OneProcess, ProcessesPlaced, Starting, Up, Going, Gone
<1>9. ~Restart
  BY OrderlyFaults DEF TypeOK, Restart
<1> QED BY <1>2, <1>3, <1>4, <1>5, <1>6, <1>7, <1>8, <1>9 DEF Next, ProcStep

(* While a reaper cleans up, the one request that is going on waits for it. *)
LEMMA ReapersAreAwaited ==
    ASSUME TypeOK, OneClient, OneProcess, NEW p \in Pids,
           reaper[p] \notin {"none", "rm_tap"}, proc[p] \notin {"boot", "run"}
    PROVE  /\ Going(p) /\ vmOf[p] \in Vms
           /\ \A t \in Threads : pc[t] \in {"idle", "wait_exit", "wait_cleanup"}
<1>1. Going(p) /\ vmOf[p] # None
  BY DEF OneProcess, ProcessesPlaced, Starting, Up, Gone
<1>2. PICK s \in Threads : pc[s] \in {"wait_exit", "wait_cleanup"}
  BY <1>1 DEF Going, Awaited
<1>3. \A t \in Threads : pc[t] # "idle" => t = s
  BY <1>2 DEF OneClient
<1> QED BY <1>1, <1>2, <1>3 DEF TypeOK

(* A request keeps the tap it holds, and a stop finds its tap destroyed. *)
LEMMA RequestTapsStep ==
    ASSUME TypeOK, PidsOwn, SpawnedOnce, OneClient, OneProcess, OwnTaps, Orderly, [Next]_vars
    PROVE  RequestTaps'
<1> USE DEF Goto, Return, locals, procs, files, reapers, world, netVars, Reaping, Holding
<1>0. /\ pc \in [Threads -> PCs] /\ pid \in [Threads -> Pids \union {None}]
      /\ tap \in [Threads -> Units \union {None}]
      /\ reaper \in [Pids -> ReaperPCs] /\ reaperTap \in [Pids -> Units \union {None}]
      /\ ifaces \subseteq Units /\ bridge \subseteq ifaces
      /\ \A s \in Threads : pc[s] # "idle" => vm[s] \in Vms
  BY DEF TypeOK, NetTypeOK
<1>a. \A t \in Threads :
         /\ pc[t] \in {"set_up", "bridge_add"} => tap[t] \in ifaces \ bridge
         /\ pc[t] \in {"write_tap", "check", "console", "spawn", "write_pid", "drop_bridge",
                       "fail_bridge"} => tap[t] \in bridge
         /\ pc[t] \in {"stop_bridge", "stop_tap"} => tap[t] \notin ifaces
         /\ \A p \in Pids, u \in Units : Holding(t, u) => ~Reaping(p, u)
  BY DEF OwnTaps, RequestTaps
<1>b. ASSUME NEW t \in Threads, Alone(t),
             \A s \in Threads : s # t => pc'[s] = pc[s],
             /\ pc'[t] \in {"set_up", "bridge_add"} => tap'[t] \in ifaces' \ bridge'
             /\ pc'[t] \in {"write_tap", "check", "console", "spawn", "write_pid", "drop_bridge",
                           "fail_bridge"} => tap'[t] \in bridge'
             /\ pc'[t] \in {"stop_bridge", "stop_tap"} => tap'[t] \notin ifaces'
             /\ \A p \in Pids, u \in Units : Holding(t, u)' => ~Reaping(p, u)'
      PROVE  RequestTaps'
  <2>1. \A s \in Threads : s # t => pc'[s] = "idle"
    BY <1>b DEF Alone
  <2> QED BY <1>b, <2>1 DEF RequestTaps
<1>1. CASE UNCHANGED <<pc, tap, ifaces, bridge>> /\
           \A p \in Pids, u \in Units : Reaping(p, u)' => Reaping(p, u)
  BY <1>a, <1>1 DEF RequestTaps
<1>2. CASE UNCHANGED vars
  BY <1>1, <1>2 DEF vars
<1>3. ASSUME NEW t \in Threads, NEW v \in Vms, BeginStart(t, v) \/ BeginStop(t, v)
      PROVE  RequestTaps'
  <2>1. /\ \A s \in Threads : s # t => pc'[s] = "idle"
        /\ pc'[t] \in {"guard", "wait_exit", "read_tap"}
    BY <1>0, <1>3, AloneToBegin DEF BeginStart, BeginStop
  <2> QED BY <2>1 DEF RequestTaps
<1>4. ASSUME NEW t \in Threads, StartStep(t)
      PROVE  RequestTaps'
  <2>0. Alone(t)
    BY <1>4, AloneNow DEF StartStep, Guard, CreateTap, CreateTapFails, SetUpTap, AddToBridge,
       ConfigureTapFails, WriteTapFile, Check, RegisterConsole, Spawn, SpawnFails,
       WritePidFile, WritePidFileFails, FailBridge, FailTap, FailFile, FailConsole
  <2>1. CASE Guard(t)
    BY <1>0, <1>b, <2>0, <2>1 DEF Guard
  <2>2. CASE CreateTap(t)
    <3>1. PICK u \in Units : /\ u \notin ifaces /\ ifaces' = ifaces \union {u} /\ bridge' = bridge
                             /\ tap' = [tap EXCEPT ![t] = u]
      BY <2>2 DEF CreateTap, CreateInterface
    <3>2. pc' = [pc EXCEPT ![t] = "set_up"]
      BY <2>2 DEF CreateTap
    <3>3. /\ pc'[t] = "set_up" /\ tap'[t] \in ifaces' \ bridge'
          /\ \A s \in Threads : s # t => pc'[s] = pc[s]
      BY <1>0, <3>1, <3>2
    <3> QED BY <1>b, <2>0, <3>3
  <2>3. CASE CreateTapFails(t) \/ ConfigureTapFails(t) \/ WritePidFile(t) \/ WritePidFileFails(t)
             \/ FailConsole(t)
    <3>1. pc' = [pc EXCEPT ![t] = "idle"]
      BY <2>3 DEF CreateTapFails, ConfigureTapFails, WritePidFile, WritePidFileFails, FailConsole
    <3>2. \A s \in Threads : pc'[s] = "idle"
      BY <1>0, <2>0, <3>1 DEF Alone
    <3> QED BY <3>2 DEF RequestTaps
  <2>4. CASE SetUpTap(t)
    BY <1>0, <1>a, <1>b, <2>0, <2>4 DEF SetUpTap
  <2>5. CASE AddToBridge(t)
    <3>1. /\ pc[t] = "bridge_add" /\ pc' = [pc EXCEPT ![t] = "write_tap"]
          /\ tap[t] \in ifaces \ bridge /\ bridge' = bridge \union {tap[t]}
          /\ UNCHANGED <<ifaces, tap, reaper, reaperTap>>
      BY <2>5 DEF AddToBridge, BridgeAdd
    <3>2. \A p \in Pids : ~Reaping(p, tap[t])
      <4> SUFFICES ASSUME NEW p \in Pids, Reaping(p, tap[t]) PROVE FALSE
        OBVIOUS
      <4>1. reaper[p] = "tap"
        BY <3>1 DEF OwnTaps, ReaperTaps
      <4>2. proc[p] = "free"
        BY <4>1 DEF SpawnedOnce
      <4> QED BY <3>1, <4>1, <4>2, ReapersAreAwaited
    <3>3. /\ pc'[t] = "write_tap" /\ tap'[t] \in bridge' /\ \A s \in Threads : s # t => pc'[s] = pc[s]
          /\ \A p \in Pids, u \in Units : Holding(t, u)' => ~Reaping(p, u)'
      BY <1>0, <3>1, <3>2
    <3> QED BY <1>b, <2>0, <3>3
  <2>6. CASE WriteTapFile(t) \/ Check(t)
    BY <1>0, <1>a, <1>b, <2>0, <2>6 DEF WriteTapFile, Check
  <2>7. CASE RegisterConsole(t)
    <3>1. /\ pc[t] = "console" /\ pc' = [pc EXCEPT ![t] = "spawn"]
          /\ UNCHANGED <<ifaces, bridge, tap, reaper, reaperTap>>
      BY <2>7 DEF RegisterConsole
    <3> QED BY <1>0, <1>a, <1>b, <2>0, <3>1
  <2>8. CASE Spawn(t) \/ SpawnFails(t)
    BY <1>0, <1>a, <1>b, <2>0, <2>8 DEF Spawn, SpawnFails
  <2>9. CASE FailBridge(t)
    <3>1. /\ \/ pc[t] = "drop_bridge" /\ pc' = [pc EXCEPT ![t] = "drop_tap"]
             \/ pc[t] = "fail_bridge" /\ pc' = [pc EXCEPT ![t] = "fail_tap"]
          /\ UNCHANGED <<tap, reaper, reaperTap>>
      BY <2>9 DEF FailBridge
    <3>2. \A p \in Pids, u \in Units : Holding(t, u)' => ~Reaping(p, u)'
      BY <1>0, <1>a, <3>1
    <3>3. pc'[t] \in {"drop_tap", "fail_tap"} /\ \A s \in Threads : s # t => pc'[s] = pc[s]
      BY <1>0, <3>1
    <3> QED BY <1>b, <2>0, <3>2, <3>3
  <2>10. CASE FailTap(t) \/ FailFile(t)
    <3>1. pc'[t] \in {"idle", "fail_file", "fail_console"} /\ \A s \in Threads : s # t => pc'[s] = pc[s]
      BY <1>0, <2>10 DEF FailTap, FailFile
    <3> QED BY <1>b, <2>0, <3>1
  <2> QED BY <1>4, <2>1, <2>2, <2>3, <2>4, <2>5, <2>6, <2>7, <2>8, <2>9, <2>10 DEF StartStep
<1>5. ASSUME NEW t \in Threads, StopStep(t)
      PROVE  RequestTaps'
  <2>0. Alone(t) /\ pc[t] # "idle"
    BY <1>5, AloneNow DEF StopStep, Waited, WaitTimesOut, ReadTapFile, StopBridge, StopTap,
       RemovePidFile, RemoveTapFile
  <2>1. CASE ReadTapFile(t)
    <3>1. /\ pc[t] = "read_tap" /\ UNCHANGED <<ifaces, bridge>>
          /\ \/ /\ tapfile[vm[t]] # None /\ tap' = [tap EXCEPT ![t] = tapfile[vm[t]]]
                /\ pc' = [pc EXCEPT ![t] = "stop_bridge"]
             \/ pc' = [pc EXCEPT ![t] = "rm_pid"]
      BY <2>1 DEF ReadTapFile
    <3>2. vm[t] \in Vms /\ pidfile[vm[t]] = None
      BY <1>0, <3>1 DEF OneProcess, PidFilesRight
    <3>3. tapfile[vm[t]] # None => tapfile[vm[t]] \notin ifaces
      <4> SUFFICES ASSUME NEW u \in Units, tapfile[vm[t]] = u PROVE u \notin ifaces
        BY <3>2 DEF TypeOK
      <4>1. FileUsed(vm[t], u)
        BY <3>2 DEF OwnTaps, TapFiles
      <4> QED BY <2>0, <3>1, <3>2, <4>1, PidBounds DEF FileUsed, Alone, None
    <3>4. /\ pc'[t] \in {"stop_bridge", "rm_pid"} /\ \A s \in Threads : s # t => pc'[s] = pc[s]
          /\ pc'[t] = "stop_bridge" => tap'[t] \notin ifaces'
      BY <1>0, <3>1, <3>3
    <3> QED BY <1>b, <2>0, <3>4
  <2>2. CASE StopBridge(t) \/ StopTap(t)
    <3>1. /\ pc[t] \in {"stop_bridge", "stop_tap"} /\ UNCHANGED <<tap, ifaces, bridge>>
          /\ pc'[t] \in {"stop_tap", "rm_pid"} /\ \A s \in Threads : s # t => pc'[s] = pc[s]
      BY <1>0, <1>a, <2>2 DEF StopBridge, StopTap, DropFromBridge, DropInterface, BridgeDelete,
         DestroyInterface
    <3> QED BY <1>a, <1>b, <2>0, <3>1
  <2>3. CASE Waited(t) \/ WaitTimesOut(t) \/ RemovePidFile(t) \/ RemoveTapFile(t)
    <3>1. /\ pc'[t] \in {"wait_cleanup", "read_tap", "idle", "rm_tap"}
          /\ \A s \in Threads : s # t => pc'[s] = pc[s]
      BY <1>0, <2>3 DEF Waited, WaitTimesOut, RemovePidFile, RemoveTapFile
    <3> QED BY <1>b, <2>0, <3>1
  <2> QED BY <1>5, <2>1, <2>2, <2>3 DEF StopStep
<1>6. ASSUME NEW p \in Pids, ReaperStep(p)
      PROVE  RequestTaps'
  <2> USE DEF ReaperGoto
  <2>1. CASE ReapTapFile(p)
    <3>1. /\ UNCHANGED <<pc, tap, ifaces, bridge>> /\ reaper'[p] = "none"
          /\ \A q \in Pids : q # p => reaper'[q] = reaper[q] /\ reaperTap'[q] = reaperTap[q]
      BY <1>0, <2>1 DEF ReapTapFile
    <3> QED BY <1>1, <3>1
  <2>2. CASE ~ReapTapFile(p)
    <3>1. /\ UNCHANGED pc /\ reaper[p] \notin {"none", "rm_tap"}
          /\ reaper[p] = "wait" => proc[p] = "zombie"
          /\ reaper[p] # "init"
      BY <1>6, <2>2 DEF ReaperStep, Reap, ReapConsole, ReapKernelVm, ReapBridge, ReapTap,
         ReapPidFile
    <3>2. proc[p] \notin {"boot", "run"}
      BY <3>1 DEF SpawnedOnce
    <3>3. \A t \in Threads : pc'[t] \in {"idle", "wait_exit", "wait_cleanup"}
      BY <3>1, <3>2, ReapersAreAwaited
    <3> QED BY <3>3 DEF RequestTaps
  <2> QED BY <2>1, <2>2
<1>7. ASSUME NEW p \in Pids, Boot(p) \/ Exit(p)
      PROVE  RequestTaps'
  BY <1>1, <1>7 DEF Boot, Exit
<1>8. ASSUME NEW p \in Pids PROVE ~InitReaps(p)
  BY DEF InitReaps, OneProcess, ProcessesPlaced, Starting, Up, Going, Gone
<1>9. ~Restart
  BY OrderlyFaults DEF TypeOK, Restart
<1> QED BY <1>2, <1>3, <1>4, <1>5, <1>6, <1>7, <1>8, <1>9 DEF Next, ProcStep

(* A tap file names the tap of the process in the pid file, or the request that is
   going on knows of it. *)
LEMMA TapFilesStep ==
    ASSUME TypeOK, PidsOwn, SpawnedOnce, OneClient, OneProcess, OwnTaps, Orderly, [Next]_vars
    PROVE  TapFiles'
<1> USE DEF Goto, Return, locals, procs, files, reapers, world, netVars, Reaping
<1> SUFFICES ASSUME NEW v \in Vms, NEW u \in Units, tapfile'[v] = u
             PROVE  FileUsed(v, u)'
  BY DEF TapFiles
<1>0. /\ pc \in [Threads -> PCs] /\ pid \in [Threads -> Pids \union {None}]
      /\ tap \in [Threads -> Units \union {None}] /\ vm \in [Threads -> Vms \union {None}]
      /\ reaper \in [Pids -> ReaperPCs] /\ reaperTap \in [Pids -> Units \union {None}]
      /\ pidfile \in [Vms -> Pids \union {None}] /\ tapfile \in [Vms -> Units \union {None}]
      /\ \A s \in Threads : pc[s] # "idle" => vm[s] \in Vms
  BY DEF TypeOK
<1>a. tapfile[v] = u => FileUsed(v, u)
  BY DEF OwnTaps, TapFiles
<1>b. u # None /\ \A p \in Pids : p # None
  BY PidBounds, UnitsAssumption DEF None
<1>c. \A s \in Threads : pc[s] \notin {"idle", "wait_exit", "wait_cleanup"} =>
            pidfile[vm[s]] = None
  BY DEF OneProcess, PidFilesRight
<1>d. \A p \in Pids : pidfile[v] = p => vmOf[p] = v
  BY <1>b DEF OneProcess, PidFilesRight
<1>1. ASSUME UNCHANGED <<tapfile, ifaces, pc, vm, tap>>, pidfile'[v] = pidfile[v],
             \A p \in Pids : pidfile[v] = p /\ Reaping(p, u) => Reaping(p, u)'
      PROVE  FileUsed(v, u)'
  BY <1>1, <1>a DEF FileUsed
<1>2. CASE UNCHANGED vars
  BY <1>1, <1>2 DEF vars
<1>3. ASSUME NEW p \in Pids, pidfile[v] = p, Reaping(p, u), pidfile'[v] = p, Reaping(p, u)'
      PROVE  FileUsed(v, u)'
  BY <1>3 DEF FileUsed
<1>4. ASSUME UNCHANGED <<pidfile, reaper, reaperTap>>, \E p \in Pids : pidfile[v] = p /\ Reaping(p, u)
      PROVE  FileUsed(v, u)'
  BY <1>3, <1>4
<1>5. ASSUME NEW t \in Threads, NEW w \in Vms, BeginStart(t, w) \/ BeginStop(t, w)
      PROVE  FileUsed(v, u)'
  <2>1. tapfile[v] = u /\ UNCHANGED <<pidfile, reaper, reaperTap>>
    BY <1>5 DEF BeginStart, BeginStop
  <2>2. \E p \in Pids : pidfile[v] = p /\ Reaping(p, u)
    BY <1>5, <1>a, <2>1, AloneToBegin DEF FileUsed
  <2> QED BY <1>4, <2>1, <2>2
<1>6. ASSUME NEW t \in Threads, StartStep(t)
      PROVE  FileUsed(v, u)'
  <2>0. Alone(t) /\ pc[t] \in StartPCs \union FailPCs
    BY <1>6, AloneNow DEF StartPCs, FailPCs, StartStep, Guard, CreateTap, CreateTapFails, SetUpTap,
       AddToBridge, ConfigureTapFails, WriteTapFile, Check, RegisterConsole, Spawn, SpawnFails,
       WritePidFile, WritePidFileFails, FailBridge, FailTap, FailFile, FailConsole
  <2>a. tapfile[v] = u =>
           \/ \E p \in Pids : pidfile[v] = p /\ Reaping(p, u)
           \/ /\ vm[t] = v /\ tap[t] = u
              /\ pc[t] \in {"check", "console", "spawn", "write_pid", "fail_bridge", "fail_tap",
                            "fail_file"}
    BY <1>a, <2>0 DEF FileUsed, Alone, StartPCs, FailPCs
  <2>b. ASSUME UNCHANGED <<pidfile, reaper, reaperTap>>, tapfile[v] = u,
               vm[t] = v /\ tap[t] = u
               /\ pc[t] \in {"check", "console", "spawn", "write_pid", "fail_bridge", "fail_tap",
                            "fail_file"}
               => /\ vm'[t] = v /\ tap'[t] = u
                  /\ pc'[t] \in {"check", "console", "spawn", "write_pid", "fail_bridge",
                                 "fail_tap", "fail_file"}
        PROVE  FileUsed(v, u)'
    BY <1>4, <2>a, <2>b DEF FileUsed
  <2>1. CASE Guard(t) \/ CreateTap(t) \/ CreateTapFails(t) \/ SetUpTap(t) \/ AddToBridge(t)
             \/ ConfigureTapFails(t) \/ FailConsole(t)
    <3>1. /\ UNCHANGED <<pidfile, tapfile, reaper, reaperTap>>
          /\ pc[t] \in {"guard", "create_tap", "set_up", "bridge_add", "fail_console"}
      BY <2>1 DEF Guard, CreateTap, CreateTapFails, SetUpTap, AddToBridge, ConfigureTapFails,
         FailConsole
    <3> QED BY <1>4, <2>a, <3>1
  <2>2. CASE WriteTapFile(t)
    <3>1. /\ pc[t] = "write_tap" /\ UNCHANGED <<pidfile, reaper, reaperTap, vm, tap>>
          /\ \/ tapfile' = [tapfile EXCEPT ![vm[t]] = tap[t]] /\ pc' = [pc EXCEPT ![t] = "check"]
             \/ UNCHANGED tapfile
      BY <2>2 DEF WriteTapFile
    <3>2. CASE tapfile[v] = u
      BY <1>4, <2>a, <3>1, <3>2
    <3>3. CASE tapfile[v] # u
      <4>1. vm[t] = v /\ tap[t] = u /\ pc'[t] = "check"
        BY <1>0, <3>1, <3>3
      <4> QED BY <3>1, <4>1 DEF FileUsed
    <3> QED BY <3>2, <3>3
  <2>3. CASE Check(t)
    <3>1. /\ UNCHANGED <<pidfile, tapfile, reaper, reaperTap, vm, tap>> /\ pc'[t] = "console"
      BY <1>0, <2>3, OrderlyFaults DEF Check
    <3> QED BY <2>b, <3>1
  <2>4. CASE RegisterConsole(t) \/ Spawn(t) \/ SpawnFails(t)
    <3>1. /\ UNCHANGED <<pidfile, tapfile, reaper, reaperTap, vm, tap>>
          /\ pc'[t] \in {"spawn", "write_pid", "fail_bridge"}
      BY <1>0, <2>4 DEF RegisterConsole, Spawn, SpawnFails
    <3> QED BY <2>b, <3>1
  <2>5. CASE WritePidFile(t)
    <3>1. /\ pc[t] = "write_pid" /\ pid[t] \in Pids /\ vm[t] \in Vms /\ pidfile[vm[t]] = None
          /\ reaper[pid[t]] = "none" /\ tapfile[v] = u
          /\ reaper' = [reaper EXCEPT ![pid[t]] = "wait"]
          /\ reaperTap' = [reaperTap EXCEPT ![pid[t]] = tap[t]]
          /\ pidfile' = [pidfile EXCEPT ![vm[t]] = pid[t]]
      BY <1>0, <1>c, <2>5 DEF WritePidFile, PidsOwn
    <3>2. CASE v = vm[t]
      <4>1. tap[t] = u
        BY <1>b, <2>a, <3>1, <3>2
      <4>2. PICK q \in Pids : q = pid[t]
        BY <3>1
      <4>3. pidfile'[v] = q /\ reaper'[q] = "wait" /\ reaperTap'[q] = u
        BY <1>0, <3>1, <3>2, <4>1, <4>2
      <4> QED BY <4>3 DEF FileUsed
    <3>3. CASE v # vm[t]
      <4>1. PICK q \in Pids : pidfile[v] = q /\ Reaping(q, u)
        BY <2>a, <3>1, <3>3
      <4>2. q # pid[t]
        BY <3>1, <4>1
      <4>3. pidfile'[v] = q /\ Reaping(q, u)'
        BY <1>0, <3>1, <3>3, <4>1, <4>2
      <4> QED BY <1>3, <4>1, <4>3
    <3> QED BY <3>2, <3>3
  <2>6. ~WritePidFileFails(t)
    BY OrderlyFaults DEF WritePidFileFails
  <2>7. CASE FailBridge(t)
    <3>1. /\ UNCHANGED <<pidfile, tapfile, reaper, reaperTap, vm, tap>>
          /\ pc[t] = "drop_bridge" \/ pc'[t] = "fail_tap"
      BY <1>0, <2>7 DEF FailBridge
    <3> QED BY <2>b, <3>1
  <2>8. CASE FailTap(t)
    <3>1. /\ UNCHANGED <<pidfile, tapfile, reaper, reaperTap>>
          /\ pc[t] = "drop_tap" \/ (pc'[t] = "fail_file" /\ UNCHANGED <<vm, tap>>)
      BY <1>0, <2>8 DEF FailTap
    <3> QED BY <2>b, <3>1
  <2>9. CASE FailFile(t)
    <3>1. /\ UNCHANGED <<pidfile, reaper, reaperTap>> /\ tapfile' = [tapfile EXCEPT ![vm[t]] = None]
      BY <2>9 DEF FailFile
    <3>2. tapfile[v] = u /\ v # vm[t]
      BY <1>0, <1>b, <3>1
    <3> QED BY <1>4, <2>a, <3>1, <3>2
  <2> QED BY <1>6, <2>1, <2>2, <2>3, <2>4, <2>5, <2>6, <2>7, <2>8, <2>9 DEF StartStep
<1>7. ASSUME NEW t \in Threads, StopStep(t)
      PROVE  FileUsed(v, u)'
  <2>0. Alone(t) /\ pc[t] \in StopPCs
    BY <1>7, AloneNow DEF StopPCs, StopStep, Waited, WaitTimesOut, ReadTapFile, StopBridge,
       StopTap, RemovePidFile, RemoveTapFile
  <2>a. tapfile[v] = u =>
           \/ \E p \in Pids : pidfile[v] = p /\ Reaping(p, u)
           \/ /\ vm[t] = v
              /\ \/ pc[t] \in {"wait_exit", "wait_cleanup", "read_tap"} /\ u \notin ifaces
                 \/ pc[t] \in {"stop_bridge", "stop_tap", "rm_pid", "rm_tap"}
    BY <1>a, <2>0 DEF FileUsed, Alone, StopPCs
  <2>1. CASE Waited(t)
    <3>1. /\ UNCHANGED <<pidfile, tapfile, reaper, reaperTap, vm, ifaces>>
          /\ pc[t] \in {"wait_exit", "wait_cleanup"} /\ pc'[t] \in {"wait_cleanup", "read_tap"}
      BY <1>0, <2>1 DEF Waited
    <3> QED BY <1>4, <2>a, <3>1 DEF FileUsed
  <2>2. ~WaitTimesOut(t)
    BY OrderlyFaults DEF WaitTimesOut
  <2>3. CASE ReadTapFile(t) \/ StopBridge(t) \/ StopTap(t)
    <3>1. /\ UNCHANGED <<pidfile, tapfile, reaper, reaperTap, vm>>
          /\ pc'[t] \in {"stop_bridge", "stop_tap", "rm_pid"}
      BY <1>0, <2>3 DEF ReadTapFile, StopBridge, StopTap
    <3> QED BY <1>4, <2>a, <3>1 DEF FileUsed
  <2>4. CASE RemovePidFile(t)
    <3>1. /\ UNCHANGED <<tapfile, reaper, reaperTap, vm>> /\ pidfile[vm[t]] = None
          /\ pidfile' = [pidfile EXCEPT ![vm[t]] = None] /\ pc'[t] = "rm_tap"
      BY <1>0, <1>c, <2>4 DEF RemovePidFile
    <3>2. pidfile'[v] = pidfile[v]
      BY <1>0, <3>1
    <3> QED BY <2>a, <3>1, <3>2 DEF FileUsed
  <2>5. CASE RemoveTapFile(t)
    <3>1. /\ UNCHANGED <<pidfile, reaper, reaperTap>> /\ tapfile' = [tapfile EXCEPT ![vm[t]] = None]
      BY <2>5 DEF RemoveTapFile
    <3>2. tapfile[v] = u /\ v # vm[t]
      BY <1>0, <1>b, <3>1
    <3> QED BY <1>4, <2>a, <3>1, <3>2
  <2> QED BY <1>7, <2>1, <2>2, <2>3, <2>4, <2>5 DEF StopStep
<1>8. ASSUME NEW p \in Pids, ReaperStep(p)
      PROVE  FileUsed(v, u)'
  <2> USE DEF ReaperGoto
  <2>1. CASE Reap(p) \/ ReapConsole(p) \/ ReapKernelVm(p) \/ ReapBridge(p)
    <3>1. /\ UNCHANGED <<tapfile, ifaces, pc, vm, tap, pidfile, reaperTap>>
          /\ reaper'[p] \in {"console", "bhyvectl", "bridge", "tap"}
          /\ \A q \in Pids : q # p => reaper'[q] = reaper[q]
      BY <1>0, <2>1 DEF Reap, ReapConsole, ReapKernelVm, ReapBridge, DropFromBridge, BridgeDelete
    <3> QED BY <1>1, <3>1
  <2>2. CASE ReapTap(p)
    <3>1. /\ UNCHANGED <<tapfile, pc, vm, tap, pidfile, reaperTap>> /\ reaper[p] = "tap"
          /\ ifaces' = ifaces \ {reaperTap[p]}
          /\ \A q \in Pids : q # p => reaper'[q] = reaper[q]
      BY <1>0, <2>2 DEF ReapTap, DropInterface, DestroyInterface
    <3>2. CASE pidfile[v] = p /\ Reaping(p, u)
      <4>1. proc[p] = "free"
        BY <3>1 DEF SpawnedOnce
      <4>2. Going(p) /\ vmOf[p] = v
        BY <1>d, <3>1, <3>2, <4>1, ReapersAreAwaited
      <4>3. PICK s \in Threads : pc[s] \in {"wait_exit", "wait_cleanup"} /\ vm[s] = v
        BY <4>2 DEF Going, Awaited
      <4>4. u \notin ifaces'
        BY <3>1, <3>2
      <4> QED BY <3>1, <4>3, <4>4 DEF FileUsed
    <3>3. CASE ~(pidfile[v] = p /\ Reaping(p, u))
      <4>1. CASE \E q \in Pids : pidfile[v] = q /\ Reaping(q, u)
        BY <1>3, <3>1, <3>3, <4>1
      <4>2. CASE ~\E q \in Pids : pidfile[v] = q /\ Reaping(q, u)
        BY <1>a, <3>1, <4>2 DEF FileUsed
      <4> QED BY <4>1, <4>2
    <3> QED BY <3>2, <3>3
  <2>3. CASE ReapPidFile(p)
    <3>1. /\ UNCHANGED <<tapfile, ifaces, pc, vm, tap, reaperTap>> /\ reaper[p] = "rm_pid"
          /\ pidfile' = [pidfile EXCEPT ![vmOf[p]] = None]
          /\ \A q \in Pids : q # p => reaper'[q] = reaper[q]
      BY <1>0, <2>3 DEF ReapPidFile
    <3>2. proc[p] = "free"
      BY <3>1 DEF SpawnedOnce
    <3>3. pidfile[vmOf[p]] = p
      BY <3>1, <3>2, ReapersAreAwaited DEF Going
    <3>4. CASE \E q \in Pids : pidfile[v] = q /\ Reaping(q, u)
      <4>1. PICK q \in Pids : pidfile[v] = q /\ Reaping(q, u)
        BY <3>4
      <4>2. q # p /\ v # vmOf[p]
        BY <3>1, <3>3, <4>1
      <4>3. pidfile'[v] = q /\ Reaping(q, u)'
        BY <1>0, <3>1, <4>1, <4>2
      <4> QED BY <1>3, <4>1, <4>3
    <3>5. CASE ~\E q \in Pids : pidfile[v] = q /\ Reaping(q, u)
      BY <1>a, <3>1, <3>5 DEF FileUsed
    <3> QED BY <3>4, <3>5
  <2>4. CASE ReapTapFile(p)
    <3>1. /\ UNCHANGED <<ifaces, pc, vm, tap, pidfile>> /\ reaper[p] = "rm_tap"
          /\ tapfile' = [tapfile EXCEPT ![vmOf[p]] = None]
          /\ \A q \in Pids : q # p => reaper'[q] = reaper[q] /\ reaperTap'[q] = reaperTap[q]
      BY <1>0, <2>4 DEF ReapTapFile
    <3>2. tapfile[v] = u
      BY <1>0, <1>b, <3>1
    <3>3. CASE \E q \in Pids : pidfile[v] = q /\ Reaping(q, u)
      BY <1>3, <3>1, <3>3
    <3>4. CASE ~\E q \in Pids : pidfile[v] = q /\ Reaping(q, u)
      BY <1>a, <3>1, <3>2, <3>4 DEF FileUsed
    <3> QED BY <3>3, <3>4
  <2> QED BY <1>8, <2>1, <2>2, <2>3, <2>4 DEF ReaperStep
<1>9. ASSUME NEW p \in Pids, Boot(p) \/ Exit(p)
      PROVE  FileUsed(v, u)'
  BY <1>1, <1>9 DEF Boot, Exit
<1>10. ASSUME NEW p \in Pids PROVE ~InitReaps(p)
  BY DEF InitReaps, OneProcess, ProcessesPlaced, Starting, Up, Going, Gone
<1>11. ~Restart
  BY OrderlyFaults DEF TypeOK, Restart
<1> QED BY <1>2, <1>5, <1>6, <1>7, <1>8, <1>9, <1>10, <1>11 DEF Next, ProcStep

(* Nothing has been started or written down at first. *)
LEMMA OneByOneInit == Init => OneByOne
<1> SUFFICES ASSUME Init PROVE OneByOne
  OBVIOUS
<1>1. OneClient
  BY DEF Init, OneClient
<1>2. ProcessesPlaced /\ PidFilesRight /\ KernelVms
  BY PidBounds, NoneIsNoVm DEF Init, ProcessesPlaced, PidFilesRight, KernelVms, None
<1>3. ConsoleKept
  BY DEF Init, ConsoleKept, Up
<1>4. ReaperTaps /\ RequestTaps /\ TapFiles
  BY UnitsAssumption DEF Init, NetInit, ReaperTaps, RequestTaps, TapFiles, Reaping, Holding, None
<1> QED BY <1>1, <1>2, <1>3, <1>4 DEF OneByOne, OneProcess, OwnTaps

(* While one client does one thing at a time, OneByOne is kept. *)
LEMMA OneByOneStep == Inv /\ Orderly /\ [Next]_vars => OneByOne'
<1> SUFFICES ASSUME Inv, Orderly, [Next]_vars PROVE OneByOne'
  OBVIOUS
<1>1. /\ TypeOK /\ PidsOwn /\ SpawnedOnce /\ OneClient /\ OneProcess /\ ConsoleKept /\ OwnTaps
      /\ PidFilesRight
  BY DEF Inv, OneByOne, OneProcess
<1>2. OneClient'
  BY <1>1, OneClientStep
<1>3. ProcessesPlaced' /\ PidFilesRight' /\ KernelVms'
  BY <1>1, ProcessesPlacedStep, PidFilesRightStep, KernelVmsStep
<1>4. ConsoleKept'
  BY <1>1, ConsoleKeptStep
<1>5. ReaperTaps' /\ RequestTaps' /\ TapFiles'
  BY <1>1, ReaperTapsStep, RequestTapsStep, TapFilesStep
<1> QED BY <1>2, <1>3, <1>4, <1>5 DEF OneByOne, OneProcess, OwnTaps

-----------------------------------------------------------------------------
(* Inv is inductive. *)
THEOREM InvHolds == Spec => []Inv
<1>1. Init => Inv
  <2> SUFFICES ASSUME Init PROVE Inv
    OBVIOUS
  <2>1. TypeOK
    BY UnitsAssumption, PidBounds, RestartBounds DEF Init, NetInit, TypeOK, NetTypeOK, PCs,
       ReaperPCs, None
  <2>2. PidsOwn /\ SpawnedOnce /\ ConsolesBacked /\ TapsKept
    BY DEF Init, NetInit, PidsOwn, SpawnedOnce, ConsolesBacked, TapsKept
  <2>3. OneByOne
    BY OneByOneInit
  <2> QED BY <2>1, <2>2, <2>3 DEF Inv
<1>2. Inv /\ [Next]_vars => Inv'
  <2> SUFFICES ASSUME Inv, [Next]_vars PROVE Inv'
    OBVIOUS
  <2>1. TypeOK' /\ PidsOwn' /\ SpawnedOnce' /\ ConsolesBacked'
    BY TypeStep, PidsOwnStep, SpawnedOnceStep, ConsolesBackedStep DEF Inv
  <2>2. ASSUME NothingLeaks' PROVE TapsKept'
    BY <2>2, ScenarioKept, TapsKeptStep
  <2>3. ASSUME Orderly' PROVE OneByOne'
    BY <2>3, ScenarioKept, OneByOneStep
  <2> QED BY <2>1, <2>2, <2>3 DEF Inv
<1> QED BY <1>1, <1>2, PTL DEF Spec

(* While nothing leaks, no tap is ever forgotten, however many clients start
   and stop however many VMs and whenever their guests power off. *)
THEOREM TapsNeverForgotten == Spec => []NoOrphanTap
<1>1. Inv => NoOrphanTap
  BY DEF Inv, TapsKept, Kept, NoOrphanTap, Holding, Reaping, Configuring
<1> QED BY <1>1, InvHolds, PTL

(* The registry never keeps the console of a process that is gone, whatever fails,
   whenever guests power off and daemons die. *)
THEOREM ConsolesNeverStale == Spec => []ConsoleNotStale
<1>1. Inv => ConsoleNotStale
  BY DEF Inv, ConsolesBacked, Backed, ConsoleNotStale
<1> QED BY <1>1, InvHolds, PTL

(* With one client, no VM ever has two bhyve processes. *)
THEOREM NeverTwoBhyves == Spec => []AtMostOneBhyve
<1>1. Inv => AtMostOneBhyve
  <2> SUFFICES ASSUME Inv, Orderly, NEW p \in Pids, NEW q \in Pids, p # q, Live(p), Live(q),
                      vmOf[p] = vmOf[q]
               PROVE  FALSE
    BY DEF AtMostOneBhyve
  <2>1. TypeOK /\ OneClient /\ OneProcess /\ ProcessesPlaced /\ PidFilesRight
    BY DEF Inv, OneByOne, OneProcess
  <2>2. (Starting(p) \/ Up(p)) /\ (Starting(q) \/ Up(q))
    BY <2>1 DEF Live, ProcessesPlaced, Going, Gone
  <2> QED BY <2>1, <2>2, PlacesDiffer
<1> QED BY <1>1, InvHolds, PTL

(* With one client, a VM that no request works on is whole or gone: the daemon knows
   the process that runs it, with its console and its tap, or nothing of it is left. *)
THEOREM SettledIsWholeOrGone == Spec => []SettledVm
<1>1. Inv => SettledVm
  <2> SUFFICES ASSUME Inv, Orderly, NEW v \in Vms, Settled(v)
               PROVE  /\ \A p \in Pids : vmOf[p] = v /\ proc[p] = "run" =>
                            pidfile[v] = p /\ console[v] = p /\ reaperTap[p] \in bridge
                      /\ (\A p \in Pids : vmOf[p] # v) =>
                            pidfile[v] = None /\ tapfile[v] = None /\ console[v] = None
    BY DEF SettledVm
  <2>0. /\ TypeOK /\ ConsolesBacked /\ ProcessesPlaced /\ PidFilesRight /\ ConsoleKept
        /\ ReaperTaps /\ TapFiles
    BY DEF Inv, OneByOne, OneProcess, OwnTaps
  <2>1. ASSUME NEW p \in Pids, vmOf[p] = v, proc[p] = "run"
        PROVE  pidfile[v] = p /\ console[v] = p /\ reaperTap[p] \in bridge
    <3>1. Starting(p) \/ Up(p)
      BY <2>0, <2>1, NoneIsNoVm DEF ProcessesPlaced, Going, Gone
    <3>2. ~Starting(p)
      BY <2>1 DEF Starting, Settled
    <3>3. Up(p)
      BY <3>1, <3>2
    <3> QED BY <2>0, <2>1, <3>3, NoneIsNoVm DEF Up, ConsoleKept, ReaperTaps
  <2>2. ASSUME \A p \in Pids : vmOf[p] # v
        PROVE  pidfile[v] = None /\ tapfile[v] = None /\ console[v] = None
    <3>1. pidfile[v] = None
      BY <2>0, <2>2 DEF PidFilesRight, TypeOK
    <3>2. console[v] = None
      <4> SUFFICES ASSUME console[v] # None PROVE FALSE
        OBVIOUS
      <4>1. Backed(v, console[v]) /\ console[v] \in Pids
        BY <2>0 DEF ConsolesBacked, TypeOK
      <4> QED BY <2>2, <4>1 DEF Backed, Settled
    <3>3. tapfile[v] = None
      <4> SUFFICES ASSUME NEW u \in Units, tapfile[v] = u PROVE FALSE
        BY <2>0 DEF TypeOK
      <4>1. FileUsed(v, u)
        BY <2>0 DEF TapFiles
      <4> QED BY <3>1, <4>1, PidBounds DEF FileUsed, Settled, None
    <3> QED BY <3>1, <3>2, <3>3
  <2> QED BY <2>1, <2>2
<1> QED BY <1>1, InvHolds, PTL

-----------------------------------------------------------------------------
(* The life of a VM.                                                           *)

Starts == StartPCs \union FailPCs
Waits == {"wait_exit", "wait_cleanup"}

(* The phase of a VM when nothing is broken. *)
Simply(v) ==
    IF AtCall(v, Starts) THEN "starting" ELSE
    IF pidfile[v] = None THEN "off" ELSE
    IF AtCall(v, Waits) THEN "stopping" ELSE "on"

(* In orderly use nothing is broken: without a pid file nothing runs, and a process that
   has one and is not waited for is whole. *)
LEMMA NeverBroken ==
    ASSUME Inv, Orderly, NEW v \in Vms
    PROVE  PhaseOf(v) = Simply(v)
<1>0. /\ TypeOK /\ ConsolesBacked /\ OneClient /\ ProcessesPlaced /\ PidFilesRight
      /\ ConsoleKept /\ ReaperTaps /\ v # None
  BY NoneIsNoVm DEF Inv, OneByOne, OneProcess, OwnTaps
<1>1. CASE AtCall(v, Starts)
  BY <1>1 DEF PhaseOf, Simply, Starts
<1>2. CASE ~AtCall(v, Starts) /\ pidfile[v] = None
  <2>1. \A t \in Threads : pc[t] \in Starts => vm[t] # v
    BY <1>2 DEF AtCall
  <2>2. ASSUME NEW p \in Pids, vmOf[p] = v
        PROVE  reaper[p] = "rm_tap" /\ proc[p] = "free"
    <3>1. ~Starting(p)
      BY <2>1, <2>2 DEF Starting, Starts, StartPCs
    <3>2. ~Up(p) /\ ~Going(p)
      BY <1>2, <2>2, PidBounds DEF Up, Going, None
    <3> QED  BY <1>0, <2>2, <3>1, <3>2 DEF ProcessesPlaced, Gone
  <2>3. console[v] = None
    <3> SUFFICES ASSUME console[v] # None
                 PROVE  FALSE
      OBVIOUS
    <3>1. console[v] \in Pids /\ Backed(v, console[v])
      BY <1>0 DEF TypeOK, ConsolesBacked
    <3>2. PICK q \in Pids : q = console[v]
      BY <3>1
    <3>3. ~(\E t \in Threads : vm[t] = v /\ pc[t] \in {"spawn", "fail_bridge", "fail_tap",
                                                       "fail_file", "fail_console"})
      BY <2>1 DEF Starts, StartPCs, FailPCs
    <3>4. vmOf[q] = v /\ (proc[q] # "free" \/ reaper[q] = "console")
      BY <3>1, <3>2, <3>3 DEF Backed
    <3> QED  BY <2>2, <3>4
  <2>4. NothingRuns(v)
    BY <2>2, <2>3 DEF NothingRuns, Live
  <2> QED  BY <1>2, <2>4 DEF PhaseOf, Simply, Starts
<1>3. CASE pidfile[v] # None /\ ~AtCall(v, Starts) /\ ~AtCall(v, Waits)
  <2>1. PICK p \in Pids : p = pidfile[v]
    BY <1>0, <1>3 DEF TypeOK
  <2>2. vmOf[p] = v /\ (Up(p) \/ Going(p))
    BY <1>0, <1>3, <2>1 DEF PidFilesRight
  <2>3. ~Going(p)
    BY <1>3, <2>2 DEF Going, Awaited, AtCall, Waits
  <2>4. Up(p)
    BY <2>2, <2>3
  <2>5. console[v] = p /\ reaperTap[p] \in bridge /\ Live(p) /\ reaper[p] = "wait"
    BY <1>0, <2>2, <2>4 DEF ConsoleKept, ReaperTaps, Up, Live
  <2> QED  BY <1>3, <2>1, <2>2, <2>5 DEF PhaseOf, Simply, Whole, Starts, Waits
<1>4. CASE pidfile[v] # None /\ ~AtCall(v, Starts) /\ AtCall(v, Waits)
  BY <1>4 DEF PhaseOf, Simply, Starts, Waits
<1> QED  BY <1>1, <1>2, <1>3, <1>4

(* Where only one thread is busy, it decides. *)
LEMMA OneDecides ==
    ASSUME NEW pcs, NEW vms, NEW t \in Threads, NEW v, NEW C, "idle" \notin C,
           \A s \in Threads : s # t => pcs[s] = "idle"
    PROVE  (\E s \in Threads : vms[s] = v /\ pcs[s] \in C) <=> vms[t] = v /\ pcs[t] \in C
  OBVIOUS

(* The phase of every VM in the states before and after the step of a thread. *)
Seen(t, v) ==
    IF vm[t] = v /\ pc[t] \in Starts THEN "starting" ELSE
    IF pidfile[v] = None THEN "off" ELSE
    IF vm[t] = v /\ pc[t] \in Waits THEN "stopping" ELSE "on"

(* They are what the thread is about and the pid files. *)
LEMMA SeenByThread ==
    ASSUME NEW t \in Threads, NEW v, \A s \in Threads : s # t => pc[s] = "idle"
    PROVE  Simply(v) = Seen(t, v)
<1>1. "idle" \notin Starts /\ "idle" \notin Waits
  BY DEF Starts, StartPCs, FailPCs, Waits
<1>2. AtCall(v, Starts) <=> vm[t] = v /\ pc[t] \in Starts
  BY <1>1, OneDecides DEF AtCall
<1>3. AtCall(v, Waits) <=> vm[t] = v /\ pc[t] \in Waits
  BY <1>1, OneDecides DEF AtCall
<1> QED  BY <1>2, <1>3 DEF Simply, Seen

(* The same after a step. *)
LEMMA SeenAfter ==
    ASSUME NEW t \in Threads, NEW v, \A s \in Threads : s # t => pc'[s] = "idle"
    PROVE  Simply(v)' = Seen(t, v)'
<1>1. "idle" \notin Starts /\ "idle" \notin Waits
  BY DEF Starts, StartPCs, FailPCs, Waits
<1>2. AtCall(v, Starts)' <=> vm'[t] = v /\ pc'[t] \in Starts
  BY <1>1, OneDecides DEF AtCall, Starts
<1>3. AtCall(v, Waits)' <=> vm'[t] = v /\ pc'[t] \in Waits
  BY <1>1, OneDecides DEF AtCall, Waits
<1> QED  BY <1>2, <1>3 DEF Simply, Seen

(* A request is a start or a stop from its first call to its last. *)
LEMMA SidesKept ==
    ASSUME TypeOK, NEW t \in Threads
    PROVE  /\ StartStep(t) => pc[t] \in Starts /\ pc'[t] \in Starts \union {"idle"}
           /\ StopStep(t) => pc[t] \in StopPCs /\ pc'[t] \in StopPCs \union {"idle"}
<1> USE DEF Goto, Return, Starts, StartPCs, FailPCs, StopPCs
<1>0. pc \in [Threads -> PCs]
  BY DEF TypeOK
<1> USE <1>0
<1>1. ASSUME Guard(t) \/ CreateTap(t) \/ CreateTapFails(t) \/ SetUpTap(t) \/ AddToBridge(t)
      PROVE  pc[t] \in Starts /\ pc'[t] \in Starts \union {"idle"}
  BY <1>1 DEF Guard, CreateTap, CreateTapFails, SetUpTap, AddToBridge
<1>2. ASSUME ConfigureTapFails(t) \/ WriteTapFile(t) \/ Check(t) \/ RegisterConsole(t)
      PROVE  pc[t] \in Starts /\ pc'[t] \in Starts \union {"idle"}
  BY <1>2 DEF ConfigureTapFails, WriteTapFile, Check, RegisterConsole
<1>3. ASSUME Spawn(t) \/ SpawnFails(t) \/ WritePidFile(t) \/ WritePidFileFails(t)
      PROVE  pc[t] \in Starts /\ pc'[t] \in Starts \union {"idle"}
  BY <1>3 DEF Spawn, SpawnFails, WritePidFile, WritePidFileFails
<1>4. ASSUME FailBridge(t) \/ FailTap(t) \/ FailFile(t) \/ FailConsole(t)
      PROVE  pc[t] \in Starts /\ pc'[t] \in Starts \union {"idle"}
  BY <1>4 DEF FailBridge, FailTap, FailFile, FailConsole
<1>5. ASSUME Waited(t) \/ WaitTimesOut(t) \/ ReadTapFile(t) \/ StopBridge(t)
      PROVE  pc[t] \in StopPCs /\ pc'[t] \in StopPCs \union {"idle"}
  BY <1>5 DEF Waited, WaitTimesOut, ReadTapFile, StopBridge
<1>6. ASSUME StopTap(t) \/ RemovePidFile(t) \/ RemoveTapFile(t)
      PROVE  pc[t] \in StopPCs /\ pc'[t] \in StopPCs \union {"idle"}
  BY <1>6 DEF StopTap, RemovePidFile, RemoveTapFile
<1>7. StartStep(t) => pc[t] \in Starts /\ pc'[t] \in Starts \union {"idle"}
  BY <1>1, <1>2, <1>3, <1>4 DEF StartStep
<1>8. StopStep(t) => pc[t] \in StopPCs /\ pc'[t] \in StopPCs \union {"idle"}
  BY <1>5, <1>6 DEF StopStep
<1> QED  BY <1>7, <1>8

(* The step of one VM from one phase to the next, and the others stay where they are. *)
Moves(v, from, to) ==
    /\ Simply(v) = from /\ Simply(v)' = to
    /\ \A w \in Vms : w # v => Simply(w)' = Simply(w)

(* What a step makes of the phases. *)
PhaseStep ==
    \/ \A w \in Vms : Simply(w)' = Simply(w)
    \/ \E v \in Vms :
          \/ /\ Moves(v, "off", "starting") \/ Moves(v, "on", "stopping")
             /\ \A w \in Vms : Simply(w) \in {"off", "on"}
          \/ Moves(v, "starting", "on") \/ Moves(v, "starting", "off")
          \/ Moves(v, "stopping", "off")

(* A request begins. *)
LEMMA BeginMovesPhase ==
    ASSUME Inv, Orderly, NEW t \in Threads, NEW v \in Vms, BeginStart(t, v) \/ BeginStop(t, v)
    PROVE  PhaseStep
<1>0. TypeOK /\ OneClient /\ PidFilesRight /\ ProcessesPlaced
  BY DEF Inv, OneByOne, OneProcess
<1>1. \A s \in Threads : pc[s] = "idle"
  BY <1>0, AloneToBegin
<1>2. /\ \A s \in Threads : s # t => pc'[s] = "idle"
      /\ vm'[t] = v /\ pidfile' = pidfile
      /\ \/ pc'[t] = "guard" /\ ~IsRunning(v)
         \/ pc'[t] = "wait_exit" /\ pidfile[v] # None
         \/ pc'[t] = "read_tap" /\ pidfile[v] = None
  BY <1>0, <1>1 DEF TypeOK, BeginStart, BeginStop, Goto, files
<1>3. ASSUME NEW w
      PROVE  Simply(w) = IF pidfile[w] = None THEN "off" ELSE "on"
  <2>1. Simply(w) = Seen(t, w)
    BY <1>1, SeenByThread
  <2> QED  BY <1>1, <2>1 DEF Seen, Starts, StartPCs, FailPCs, Waits
<1>4. ASSUME NEW w
      PROVE  Simply(w)' = IF w = v /\ pc'[t] = "guard" THEN "starting" ELSE
                          IF pidfile[w] = None THEN "off" ELSE
                          IF w = v /\ pc'[t] = "wait_exit" THEN "stopping" ELSE "on"
  <2>1. Simply(w)' = Seen(t, w)'
    BY <1>2, SeenAfter
  <2>2. pc'[t] \in {"guard", "wait_exit", "read_tap"}
    BY <1>2
  <2> QED  BY <1>2, <2>1, <2>2 DEF Seen, Starts, StartPCs, FailPCs, Waits
<1>5. ASSUME ~IsRunning(v)
      PROVE  pidfile[v] = None
  <2> SUFFICES ASSUME pidfile[v] # None
               PROVE  FALSE
    OBVIOUS
  <2>1. PICK p \in Pids : p = pidfile[v]
    BY <1>0 DEF TypeOK
  <2>2. proc[p] = "free" /\ (Up(p) \/ Going(p))
    BY <1>0, <1>5, <2>1 DEF IsRunning, PidFilesRight
  <2>3. ~Going(p)
    BY <1>1 DEF Going, Awaited
  <2> QED  BY <2>2, <2>3 DEF Up
<1>6. CASE pc'[t] = "guard"
  BY <1>2, <1>3, <1>4, <1>5, <1>6 DEF PhaseStep, Moves
<1>7. CASE pc'[t] = "wait_exit"
  BY <1>2, <1>3, <1>4, <1>7 DEF PhaseStep, Moves
<1>8. CASE pc'[t] = "read_tap"
  BY <1>2, <1>3, <1>4, <1>8 DEF PhaseStep
<1> QED  BY <1>2, <1>6, <1>7, <1>8

(* A request goes on. *)
LEMMA CallMovesPhase ==
    ASSUME Inv, Orderly, NEW t \in Threads, StartStep(t) \/ StopStep(t)
    PROVE  PhaseStep
<1>0. TypeOK /\ OneClient /\ PidFilesRight /\ PidsOwn
  BY DEF Inv, OneByOne, OneProcess
<1>1. /\ pc[t] # "idle" /\ vm[t] \in Vms
      /\ \A s \in Threads : s # t => pc[s] = "idle"
  <2>1. pc[t] # "idle"
    BY <1>0, SidesKept DEF Starts, StartPCs, FailPCs, StopPCs
  <2> QED  BY <1>0, <2>1 DEF TypeOK, OneClient
<1>2. PICK v \in Vms : v = vm[t]
  BY <1>1
<1>3. Spawn(t) \/ WritePidFile(t) \/ Waited(t) \/ Quiet(t)
  BY <1>0, ThreadCalls
<1>4. \A s \in Threads : s # t => pc'[s] = "idle"
  BY <1>0, <1>1, <1>3 DEF TypeOK, Spawn, WritePidFile, Waited, Quiet, Goto, Return
<1>5. \A w : Simply(w) = Seen(t, w) /\ Simply(w)' = Seen(t, w)'
  BY <1>1, <1>4, SeenByThread, SeenAfter
<1>6. CASE Spawn(t)
  <2>1. pc[t] = "spawn" /\ pc'[t] = "write_pid" /\ vm' = vm /\ pidfile' = pidfile
    BY <1>0, <1>6 DEF TypeOK, Spawn, Goto, locals, files
  <2>2. \A w : Seen(t, w)' = Seen(t, w)
    BY <2>1 DEF Seen, Starts, StartPCs, FailPCs, Waits
  <2> QED  BY <1>5, <2>2 DEF PhaseStep
<1>7. CASE WritePidFile(t)
  <2>1. /\ pc[t] = "write_pid" /\ pc'[t] = "idle" /\ pid[t] # None
        /\ pidfile' = [pidfile EXCEPT ![v] = pid[t]]
    BY <1>0, <1>2, <1>7 DEF TypeOK, WritePidFile, Return, Goto, PidsOwn
  <2>2. pidfile'[v] # None /\ \A w \in Vms : w # v => pidfile'[w] = pidfile[w]
    BY <1>0, <2>1 DEF TypeOK
  <2>3. Seen(t, v) = "starting" /\ Seen(t, v)' = "on"
    BY <1>2, <2>1, <2>2 DEF Seen, Starts, StartPCs, FailPCs, Waits
  <2>4. \A w \in Vms : w # v => Seen(t, w)' = Seen(t, w)
    BY <1>2, <2>1, <2>2 DEF Seen, Starts, StartPCs, FailPCs, Waits
  <2> QED  BY <1>5, <2>3, <2>4 DEF PhaseStep, Moves
<1>8. CASE Waited(t)
  <2>1. /\ vm' = vm /\ pidfile' = pidfile
        /\ \/ pc[t] = "wait_exit" /\ pc'[t] = "wait_cleanup"
           \/ pc[t] = "wait_cleanup" /\ pc'[t] = "read_tap" /\ pidfile[v] = None
    BY <1>0, <1>2, <1>8 DEF TypeOK, Waited, Goto, locals, files
  <2>2. \A w : Seen(t, w)' = Seen(t, w)
    BY <1>2, <2>1 DEF Seen, Starts, StartPCs, FailPCs, Waits
  <2> QED  BY <1>5, <2>2 DEF PhaseStep
<1>9. CASE Quiet(t)
  <2>1. /\ pidfile[v] = None /\ \A w \in Vms : pidfile'[w] = pidfile[w]
        /\ pc[t] \notin Waits /\ pc'[t] \notin Waits
        /\ pc'[t] # "idle" => vm'[t] = v
    BY <1>0, <1>1, <1>2, <1>9 DEF Quiet, PidFilesRight, Waits
  <2>2. CASE pc[t] \in Starts /\ pc'[t] \in Starts
    <3>1. vm'[t] = v
      BY <2>1, <2>2 DEF Starts, StartPCs, FailPCs
    <3>2. \A w \in Vms : Seen(t, w)' = Seen(t, w)
      BY <1>2, <2>1, <2>2, <3>1 DEF Seen
    <3> QED  BY <1>5, <3>2 DEF PhaseStep
  <2>3. CASE pc[t] \in Starts /\ pc'[t] = "idle"
    <3>1. pc'[t] \notin Starts
      BY <2>3 DEF Starts, StartPCs, FailPCs
    <3>2. Seen(t, v) = "starting" /\ Seen(t, v)' = "off"
      BY <1>2, <2>1, <2>3, <3>1 DEF Seen
    <3>3. \A w \in Vms : w # v => Seen(t, w)' = Seen(t, w)
      BY <1>2, <2>1, <2>3, <3>1 DEF Seen
    <3> QED  BY <1>5, <3>2, <3>3 DEF PhaseStep, Moves
  <2>4. CASE pc[t] \notin Starts /\ pc'[t] \notin Starts
    <3>1. \A w \in Vms : Seen(t, w)' = Seen(t, w)
      BY <1>2, <2>1, <2>4 DEF Seen
    <3> QED  BY <1>5, <3>1 DEF PhaseStep
  <2>5. StopPCs \intersect Starts = {} /\ "idle" \notin Starts
    BY DEF Starts, StartPCs, FailPCs, StopPCs
  <2> QED  BY <1>0, <2>2, <2>3, <2>4, <2>5, SidesKept
<1> QED  BY <1>3, <1>6, <1>7, <1>8, <1>9

(* A reaper, a process or its guest takes a step. *)
LEMMA ProcessMovesPhase ==
    ASSUME Inv, Orderly, NEW p \in Pids, ReaperStep(p) \/ Boot(p) \/ Exit(p) \/ InitReaps(p)
    PROVE  PhaseStep
<1>0. TypeOK /\ OneClient /\ PidFilesRight /\ ProcessesPlaced /\ OneProcess
  BY DEF Inv, OneByOne, OneProcess
<1>1. pc' = pc /\ vm' = vm
  BY DEF ReaperStep, Reap, ReapConsole, ReapKernelVm, ReapBridge, ReapTap, ReapPidFile,
     ReapTapFile, Boot, Exit, InitReaps, locals
<1>2. CASE pidfile' = pidfile
  BY <1>1, <1>2 DEF PhaseStep, Simply, AtCall
<1>3. CASE ReapPidFile(p)
  <2>1. reaper[p] = "rm_pid" /\ pidfile' = [pidfile EXCEPT ![vmOf[p]] = None]
    BY <1>3 DEF ReapPidFile
  <2>2. proc[p] \notin {"boot", "run"}
    BY <1>0, <2>1 DEF ProcessesPlaced, Starting, Up, Going, Gone
  <2>3. Going(p) /\ vmOf[p] \in Vms
    BY <1>0, <2>1, <2>2, ReapersAreAwaited
  <2>4. PICK v \in Vms : v = vmOf[p]
    BY <2>3
  <2>5. pidfile[v] = p /\ p # None
    BY <2>3, <2>4, PidBounds DEF Going, None
  <2>6. PICK t \in Threads : pc[t] \in Waits /\ vm[t] = v
    BY <2>3, <2>4 DEF Going, Awaited, Waits
  <2>7. \A s \in Threads : s # t => pc[s] = "idle"
    BY <1>0, <2>6 DEF OneClient, Waits
  <2>8. \A w : Simply(w) = Seen(t, w) /\ Simply(w)' = Seen(t, w)'
    BY <1>1, <2>7, SeenByThread, SeenAfter
  <2>9. pc[t] \notin Starts /\ pc[t] \in Waits
    BY <2>6 DEF Starts, StartPCs, FailPCs, Waits
  <2>10. pidfile'[v] = None /\ \A w \in Vms : w # v => pidfile'[w] = pidfile[w]
    BY <1>0, <2>1, <2>4 DEF TypeOK
  <2>11. Seen(t, v) = "stopping" /\ Seen(t, v)' = "off"
    BY <1>1, <2>5, <2>6, <2>9, <2>10 DEF Seen
  <2>12. \A w \in Vms : w # v => Seen(t, w)' = Seen(t, w)
    BY <1>1, <2>6, <2>9, <2>10 DEF Seen
  <2> QED  BY <2>8, <2>11, <2>12 DEF PhaseStep, Moves
<1>4. ReapPidFile(p) \/ pidfile' = pidfile
  BY DEF ReaperStep, Reap, ReapConsole, ReapKernelVm, ReapBridge, ReapTap, ReapTapFile, Boot,
     Exit, InitReaps, files
<1> QED  BY <1>2, <1>3, <1>4

(* Every step of an orderly use is one of these. *)
LEMMA PhasesMove ==
    ASSUME Inv, Orderly, [Next]_vars
    PROVE  PhaseStep
<1>1. CASE UNCHANGED vars
  BY <1>1 DEF vars, files, locals, PhaseStep, Simply, AtCall
<1>2. ~Restart
  BY OrderlyFaults DEF Inv, TypeOK, Restart
<1> QED  BY <1>1, <1>2, BeginMovesPhase, CallMovesPhase, ProcessMovesPhase DEF Next, ProcStep

(* What NeverBroken says of a state, to be said of the next one too. *)
Unbroken == Orderly => \A v \in Vms : PhaseOf(v) = Simply(v)

(* The daemon implements the abstract life of a VM: one client takes it from off to on and
   back, for any number of VMs, whichever of the calls with a clean-up fail and however
   the reapers, the processes and the calls of requests interleave. *)
THEOREM LivesAsPromised == Spec => LifeSpec
<1>1. Init => Life!Init
  <2> SUFFICES ASSUME Init
               PROVE  Life!Init
    OBVIOUS
  <2>1. \A v \in Vms : PhaseOf(v) = "off"
    BY NoneIsNoVm DEF Init, PhaseOf, AtCall, NothingRuns, StartPCs, FailPCs
  <2>2. Orderly \in BOOLEAN
    BY DEF Orderly
  <2>3. [v \in Vms |-> PhaseOf(v)] = [v \in Vms |-> "off"]
    BY <2>1
  <2> QED  BY <2>2, <2>3 DEF Life!Init
<1>2. Inv => Unbroken
  BY NeverBroken DEF Unbroken
<1>3. Inv /\ Unbroken /\ Unbroken' /\ [Next]_vars => [Life!Next]_(Life!vars)
  <2> SUFFICES ASSUME Inv, Unbroken, Unbroken', [Next]_vars
               PROVE  Life!Next \/ UNCHANGED <<Orderly, [v \in Vms |-> PhaseOf(v)]>>
    BY DEF Life!vars
  <2>1. Orderly' = Orderly
    <3>1. Orderly \in BOOLEAN /\ Orderly' \in BOOLEAN
      BY DEF Orderly
    <3>2. Orderly' <=> Orderly
      BY ScenarioKept
    <3> QED  BY <3>1, <3>2
  <2>2. CASE ~Orderly
    BY <2>1, <2>2 DEF Life!Next
  <2>3. CASE Orderly
    <3>1. \A v \in Vms : PhaseOf(v) = Simply(v) /\ PhaseOf(v)' = Simply(v)'
      BY <2>1, <2>3 DEF Unbroken
    <3>2. PhaseStep
      BY <2>3, PhasesMove
    <3>3. CASE \A w \in Vms : Simply(w)' = Simply(w)
      BY <2>1, <3>1, <3>3
    <3>4. ASSUME NEW v \in Vms, NEW from, NEW to, Moves(v, from, to)
          PROVE  Life!Goes(v, from, to)
      BY <3>1, <3>4 DEF Life!Goes, Moves
    <3>5. (\A w \in Vms : Simply(w) \in {"off", "on"}) => Life!Idle
      BY <3>1 DEF Life!Idle
    <3> QED  BY <2>1, <3>2, <3>3, <3>4, <3>5
             DEF PhaseStep, Life!Next, Life!Start, Life!Started, Life!StartFails, Life!Stop,
                 Life!Stopped
  <2> QED  BY <2>2, <2>3
<1> QED  BY <1>1, <1>2, <1>3, InvHolds, PTL DEF Spec, LifeSpec, Life!Spec
=============================================================================
