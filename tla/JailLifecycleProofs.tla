------------------------ MODULE JailLifecycleProofs ------------------------
(* Type correctness of JailLifecycle, NoOrphanEpair, SettledJail and       *)
(* FailedStartLeavesNoJail, for every set of jails, threads, scenarios,    *)
(* units and failing calls.                                                *)
EXTENDS JailLifecycle, FiniteSetTheorems, TLAPS

(* What the proofs use of the assumption on the constants. *)
LEMMA Bounds == Jids \subseteq Nat \ {0} /\ MaxMounts \in Nat
  BY JailAssumption

(* The three host operations that change a table, and the types they keep. *)
LEMMA UmountType ==
    ASSUME mounts \in [Jails -> 0..MaxMounts], NEW j, Umount(j)
    PROVE  mounts' \in [Jails -> 0..MaxMounts]
<1>1. MaxMounts \in Nat
  BY Bounds
<1>2. CASE j \in Jails
  BY <1>1, <1>2 DEF Umount
<1>3. CASE j \notin Jails
  BY <1>3 DEF Umount
<1> QED BY <1>2, <1>3

(* jail -r. *)
LEMMA RemoveJailType ==
    ASSUME TypeOK, NEW k, RemoveJail(k)
    PROVE  /\ running' \in [Jails -> Jids \union {None}]
           /\ domainname' \in [Jails -> Units \union {None}]
           /\ vnet' \in [Units -> Jids \union {None}]
           /\ renamed' = renamed
  BY DEF TypeOK, RemoveJail

(* mount: one devfs more, below the bound. *)
LEMMA MountType ==
    ASSUME mounts \in [Jails -> 0..MaxMounts], NEW j, mounts[j] < MaxMounts,
           mounts' = [mounts EXCEPT ![j] = @ + 1]
    PROVE  mounts' \in [Jails -> 0..MaxMounts]
<1>1. MaxMounts \in Nat
  BY Bounds
<1>2. CASE j \in Jails
  BY <1>1, <1>2
<1>3. CASE j \notin Jails
  BY <1>3
<1> QED BY <1>2, <1>3

(* Every action preserves the types: the starting point of the invariant. *)
LEMMA TypeStep == TypeOK /\ [Next]_vars => TypeOK'
<1> USE UnitsAssumption, Bounds DEF TypeOK, NetTypeOK, PCs, BuildPCs,
        RunPCs, UndoPCs, LatePCs, StopPCs, Goto, None
<1> SUFFICES ASSUME TypeOK, [Next]_vars
             PROVE  TypeOK'
  OBVIOUS
<1>1. CASE UNCHANGED vars
  BY <1>1 DEF vars, host, request
<1>2. ASSUME NEW t \in Threads, NEW j \in Jails, BeginStart(t, j) \/ BeginStop(t, j),
             UNCHANGED scenario
      PROVE  TypeOK'
  <2> USE <1>2
  <2>1. CASE BeginStart(t, j)
    BY <2>1 DEF BeginStart, host
  <2>2. CASE BeginStop(t, j)
    BY <2>2 DEF BeginStop, host
  <2> QED BY <1>2, <2>1, <2>2
<1>3. ASSUME NEW t \in Threads, StartStep(t), UNCHANGED scenario
      PROVE  TypeOK'
  <2> USE <1>3 DEF request, host, bhalves, kernel, Return
  <2>1. CASE CreateEpair(t)
    BY <2>1 DEF CreateEpair, CreateInterface
  <2>2. CASE CreateFails(t)
    BY <2>2 DEF CreateFails
  <2>3. CASE SetUpEpair(t)
    BY <2>3 DEF SetUpEpair
  <2>4. CASE AddToBridge(t) \/ AddToBridgeFails(t)
    BY <2>4 DEF AddToBridge, AddToBridgeFails, BridgeAdd
  <2>5. CASE MountDevfs(t)
    BY <2>5, MountType DEF MountDevfs
  <2>6. CASE MountDevfsFails(t)
    BY <2>6 DEF MountDevfsFails
  <2>7. CASE StartJail(t)
    <3>1. PICK k \in Jids : /\ running' = [running EXCEPT ![jail[t]] = k]
                            /\ jid' = [jid EXCEPT ![t] = k]
      BY <2>7 DEF StartJail, FreeJids
    <3> QED BY <2>7, <3>1 DEF StartJail
  <2>8. CASE StartJailFails(t)
    BY <2>8 DEF StartJailFails
  <2>9. CASE MoveToVnet(t) \/ MoveToVnetFails(t)
    BY <2>9 DEF MoveToVnet, MoveToVnetFails, CanMove
  <2>10. CASE RenameInJail(t) \/ RenameInJailFails(t)
    BY <2>10 DEF RenameInJail, RenameInJailFails, InVnet
  <2>11. CASE RcSucceeds(t) \/ RcFails(t)
    BY <2>11, ZenonT(60) DEF RcSucceeds, RcFails
  <2> QED BY <1>3, <2>1, <2>2, <2>3, <2>4, <2>5, <2>6, <2>7, <2>8, <2>9, <2>10,
             <2>11 DEF StartStep
<1>4. ASSUME NEW t \in Threads, UndoStep(t) \/ StopStep(t), UNCHANGED scenario
      PROVE  TypeOK'
  <2> USE <1>4 DEF request, host, bhalves, kernel, netVars, Return, TryUmount, TryDestroy,
              DestroyEpair, DestroyInterface, BridgeDelete
  <2>1. CASE UndoStop(t)
    BY <2>1, RemoveJailType DEF UndoStop
  <2>2. CASE UndoUmount(t) \/ LateUmount(t)
    BY <2>2, UmountType DEF UndoUmount, LateUmount
  <2>3. CASE UndoBridge(t) \/ LateBridge(t)
    BY <2>3 DEF UndoBridge, LateBridge
  <2>4. CASE UndoDestroy(t) \/ LateDestroy(t)
    BY <2>4 DEF UndoDestroy, LateDestroy
  <2>5. CASE StopBridge(t) \/ StopDestroy(t)
    BY <2>5 DEF StopBridge, StopDestroy
  <2>6. CASE StopRemove(t)
    BY <2>6, RemoveJailType DEF StopRemove
  <2>7. CASE StopCallFails(t) \/ StopUmount(t) \/ StopUmountGivesUp(t)
    BY <2>7, UmountType DEF StopCallFails, StopUmount, StopUmountGivesUp
  <2> QED BY <1>4, <2>1, <2>2, <2>3, <2>4, <2>5, <2>6, <2>7 DEF UndoStep, StopStep
<1> QED BY <1>1, <1>2, <1>3, <1>4 DEF Next, Step

(* The variables hold what their comments say, in every behaviour. *)
THEOREM TypeCorrect == Spec => []TypeOK
<1>1. Init => TypeOK
  BY UnitsAssumption, Bounds DEF Init, NetInit, TypeOK, NetTypeOK, PCs, None
<1> QED BY <1>1, TypeStep, PTL DEF Spec

-----------------------------------------------------------------------------
(* The three facts about jids: a jid names one jail, a request has none before
   its jail is started, and the jail of a request's jid records its epair. *)
JidFacts == JidsDistinct /\ JidLate /\ RecordMatches

(* No step breaks them. *)
LEMMA JidStep == TypeOK /\ JidFacts /\ [Next]_vars => JidFacts'
<1> USE UnitsAssumption, Bounds DEF JidFacts, JidsDistinct, JidLate,
        RecordMatches, TypeOK, Goto, None, PCs, BuildPCs, RunPCs, UndoPCs, LatePCs, StopPCs
<1> SUFFICES ASSUME TypeOK, JidFacts, [Next]_vars
             PROVE  JidFacts'
  OBVIOUS
<1>1. CASE UNCHANGED vars
  BY <1>1 DEF vars, host, request
<1>2. ASSUME NEW t \in Threads, NEW j \in Jails, BeginStart(t, j) \/ BeginStop(t, j)
      PROVE  JidFacts'
  <2>1. CASE BeginStart(t, j)
    BY <2>1 DEF BeginStart, host
  <2>2. CASE BeginStop(t, j)
    BY <2>2 DEF BeginStop, host
  <2> QED BY <1>2, <2>1, <2>2
<1>3. ASSUME NEW t \in Threads, StartStep(t)
      PROVE  JidFacts'
  <2> USE DEF request, host, bhalves, kernel, Return
  <2>1. CASE CreateEpair(t)
    BY <2>1 DEF CreateEpair, CreateInterface
  <2>2. CASE CreateFails(t)
    BY <2>2 DEF CreateFails
  <2>3. CASE SetUpEpair(t)
    BY <2>3 DEF SetUpEpair
  <2>4. CASE AddToBridge(t) \/ AddToBridgeFails(t)
    BY <2>4 DEF AddToBridge, AddToBridgeFails, BridgeAdd
  <2>5. CASE MountDevfs(t)
    BY <2>5 DEF MountDevfs
  <2>6. CASE MountDevfsFails(t)
    BY <2>6 DEF MountDevfsFails
  <2>7. CASE StartJail(t)
    BY <2>7 DEF StartJail, FreeJids
  <2>8. CASE StartJailFails(t)
    BY <2>8 DEF StartJailFails
  <2>9. CASE MoveToVnet(t) \/ MoveToVnetFails(t)
    BY <2>9 DEF MoveToVnet, MoveToVnetFails
  <2>10. CASE RenameInJail(t) \/ RenameInJailFails(t)
    BY <2>10 DEF RenameInJail, RenameInJailFails
  <2>11. CASE RcSucceeds(t) \/ RcFails(t)
    BY <2>11 DEF RcSucceeds, RcFails
  <2> QED BY <1>3, <2>1, <2>2, <2>3, <2>4, <2>5, <2>6, <2>7, <2>8, <2>9, <2>10,
             <2>11 DEF StartStep
<1>4. ASSUME NEW t \in Threads, UndoStep(t) \/ StopStep(t)
      PROVE  JidFacts'
  <2> USE DEF request, host, bhalves, kernel, Return, RemoveJail, TryDestroy, DestroyEpair
  <2>1. CASE UndoStop(t)
    BY <2>1 DEF UndoStop
  <2>2. CASE UndoUmount(t) \/ LateUmount(t)
    BY <2>2 DEF UndoUmount, LateUmount
  <2>3. CASE UndoBridge(t) \/ LateBridge(t)
    BY <2>3 DEF UndoBridge, LateBridge
  <2>4. CASE UndoDestroy(t) \/ LateDestroy(t)
    BY <2>4 DEF UndoDestroy, LateDestroy
  <2>5. CASE StopBridge(t) \/ StopDestroy(t)
    BY <2>5 DEF StopBridge, StopDestroy
  <2>6. CASE StopRemove(t)
    BY <2>6 DEF StopRemove
  <2>7. CASE StopCallFails(t) \/ StopUmount(t) \/ StopUmountGivesUp(t)
    BY <2>7 DEF StopCallFails, StopUmount, StopUmountGivesUp
  <2> QED BY <1>4, <2>1, <2>2, <2>3, <2>4, <2>5, <2>6, <2>7 DEF UndoStep, StopStep
<1> QED BY <1>1, <1>2, <1>3, <1>4 DEF Next, Step

-----------------------------------------------------------------------------
(* Every action leaves somebody to answer for every epair that remains. *)
LEMMA AnsweredStep == Inv /\ [Next]_vars => EpairAnswered'
<1> USE UnitsAssumption, Bounds DEF TypeOK, NetTypeOK, Goto, None,
        PCs, BuildPCs, RunPCs, UndoPCs, LatePCs, StopPCs,
        Destroying, Unbridged, Bridged, Stripped, Answers
<1> SUFFICES ASSUME Inv, [Next]_vars, NEW u \in ifaces' \ stuck'
             PROVE  Answers(u)'
  BY DEF EpairAnswered
<1>0. u \in ifaces \ stuck => Answers(u)
  BY DEF Inv, EpairAnswered
<1>a. TypeOK
  BY DEF Inv
<1>1. CASE UNCHANGED vars
  BY <1>0, <1>1 DEF vars, host, request
<1>2. ASSUME NEW t \in Threads, NEW j \in Jails, BeginStart(t, j) \/ BeginStop(t, j)
      PROVE  Answers(u)'
  <2>1. CASE BeginStart(t, j)
    BY <1>0, <1>a, <2>1 DEF BeginStart, host
  <2>2. CASE BeginStop(t, j)
    BY <1>0, <1>a, <2>2 DEF BeginStop, host
  <2> QED BY <1>2, <2>1, <2>2
<1>3. ASSUME NEW t \in Threads, StartStep(t)
      PROVE  Answers(u)'
  <2> USE <1>0, <1>a DEF request, host, bhalves, kernel, Return
  <2>1. CASE CreateEpair(t)
    BY <2>1 DEF CreateEpair, CreateInterface
  <2>2. CASE CreateFails(t)
    BY <2>2 DEF CreateFails
  <2>3. CASE SetUpEpair(t)
    BY <2>3 DEF SetUpEpair
  <2>4. CASE AddToBridge(t)
    BY <2>4 DEF AddToBridge, BridgeAdd
  <2>4a. CASE AddToBridgeFails(t)
    BY <2>4a DEF AddToBridgeFails
  <2>5. CASE MountDevfs(t)
    BY <2>5 DEF MountDevfs
  <2>6. CASE MountDevfsFails(t)
    BY <2>6 DEF MountDevfsFails
  <2>7. CASE StartJail(t)
    <3>1. PICK k \in FreeJids : /\ running' = [running EXCEPT ![jail[t]] = k]
                                /\ jid' = [jid EXCEPT ![t] = k]
      BY <2>7 DEF StartJail
    <3>2. /\ k \in Jids /\ k # None
          /\ \A j \in Jails : running[j] # k
          /\ \A s \in Threads : jid[s] # k
      BY <3>1 DEF FreeJids
    <3>3. jail[t] \in Jails
      BY <2>7 DEF StartJail
    <3>4. /\ domainname' = [domainname EXCEPT ![jail[t]] = epair[t]]
          /\ pc' = [pc EXCEPT ![t] = "move"]
          /\ pc[t] = "jail_start" /\ running[jail[t]] = None
          /\ UNCHANGED <<ifaces, bridge, stuck, epair>>
      BY <2>7 DEF StartJail
    <3>5. CASE u \in bridge /\ Bridged(t, u)
      <4>1. running'[jail[t]] = k /\ domainname'[jail[t]] = u
        BY <3>1, <3>3, <3>4, <3>5
      <4>2. ASSUME NEW s \in Threads, pc'[s] \in {"late_stop", "stop_remove"}
            PROVE  jid'[s] # running'[jail[t]]
        BY <3>1, <3>2, <3>4, <4>1, <4>2
      <4>3. u \in bridge'
        BY <3>4, <3>5
      <4> QED BY ONLY <3>2, <3>3, <4>1, <4>2, <4>3 DEF Answers, Stripped, None
    <3>6. CASE \E s \in Threads : s # t /\ (Destroying(s, u) \/ Unbridged(s, u)
                                              \/ (u \in bridge /\ Bridged(s, u)))
      BY <3>4, <3>6
    <3>7. CASE u \in bridge /\ \E j \in Jails : running[j] # None /\ domainname[j] = u
                                                /\ ~Stripped(j)
      <4>1. PICK j \in Jails : running[j] # None /\ domainname[j] = u /\ ~Stripped(j)
        BY <3>7
      <4>2. running'[j] = running[j] /\ domainname'[j] = u
        BY <3>1, <3>4, <4>1
      <4>3. ~Stripped(j)'
        BY <3>1, <3>4, <4>1, <4>2
      <4> QED BY <3>4, <3>7, <4>1, <4>2, <4>3
    <3> QED BY <3>4, <3>5, <3>6, <3>7
  <2>8. CASE StartJailFails(t)
    BY <2>8 DEF StartJailFails
  <2>9. CASE MoveToVnet(t) \/ MoveToVnetFails(t)
    BY <2>9 DEF MoveToVnet, MoveToVnetFails
  <2>10. CASE RenameInJail(t) \/ RenameInJailFails(t)
    BY <2>10 DEF RenameInJail, RenameInJailFails
  <2>11. CASE RcSucceeds(t) \/ RcFails(t)
    BY <2>11 DEF RcSucceeds, RcFails
  <2> QED BY <1>3, <2>1, <2>2, <2>3, <2>4, <2>4a, <2>5, <2>6, <2>7, <2>8, <2>9,
             <2>10, <2>11 DEF StartStep
<1>4. ASSUME NEW t \in Threads, UndoStep(t) \/ StopStep(t)
      PROVE  Answers(u)'
  <2> USE <1>0, <1>a DEF request, host, bhalves, kernel, netVars, Return
  <2>r. RecordMatches
    BY DEF Inv
  <2>1. CASE UndoStop(t)
    BY <2>1, <2>r DEF UndoStop, RemoveJail, RecordMatches
  <2>2. CASE UndoUmount(t)
    BY <2>2 DEF UndoUmount
  <2>3. CASE UndoBridge(t)
    BY <2>3 DEF UndoBridge, BridgeDelete
  <2>3a. CASE LateBridge(t)
    BY <2>3a, <2>r DEF LateBridge, BridgeDelete, RecordMatches
  <2>4. CASE UndoDestroy(t)
    BY <2>4 DEF UndoDestroy, TryDestroy, DestroyEpair, DestroyInterface
  <2>4a. CASE LateDestroy(t)
    BY <2>4a, <2>r DEF LateDestroy, TryDestroy, DestroyEpair, DestroyInterface, RecordMatches
  <2>4b. CASE LateUmount(t)
    BY <2>4b DEF LateUmount
  <2>5. CASE StopBridge(t)
    BY <2>5 DEF StopBridge, BridgeDelete
  <2>5a. CASE StopDestroy(t)
    BY <2>5a, <2>r DEF StopDestroy, DestroyEpair, DestroyInterface, RecordMatches
  <2>6. CASE StopRemove(t)
    BY <2>6 DEF StopRemove, RemoveJail
  <2>7. CASE StopCallFails(t)
    BY <2>7 DEF StopCallFails
  <2>7a. CASE StopUmount(t) \/ StopUmountGivesUp(t)
    BY <2>7a DEF StopUmount, StopUmountGivesUp
  <2> QED BY <1>4, <2>1, <2>2, <2>3, <2>3a, <2>4, <2>4a, <2>4b, <2>5, <2>5a, <2>6,
             <2>7, <2>7a DEF UndoStep, StopStep
<1> QED BY <1>1, <1>2, <1>3, <1>4 DEF Next, Step

-----------------------------------------------------------------------------
(* What a step of t leaves alone: the locals of the others, and its own jail while
   its request lasts. *)
LEMMA StepIsLocal ==
    ASSUME TypeOK, NEW t \in Threads, StartStep(t) \/ UndoStep(t) \/ StopStep(t)
    PROVE  /\ pc[t] # "idle"
           /\ \A s \in Threads : s # t =>
                 pc'[s] = pc[s] /\ jail'[s] = jail[s] /\ epair'[s] = epair[s] /\ jid'[s] = jid[s]
           /\ \/ pc'[t] = "idle" /\ jid'[t] = None
              \/ /\ pc'[t] # "idle" /\ jail'[t] = jail[t]
                 /\ pc[t] \in StopPCs <=> pc'[t] \in StopPCs
<1> USE DEF TypeOK, Goto, Return, request, host, StopPCs
<1>1. CASE CreateEpair(t) \/ CreateFails(t) \/ SetUpEpair(t)
  BY <1>1 DEF CreateEpair, CreateFails, SetUpEpair
<1>2. CASE AddToBridge(t) \/ AddToBridgeFails(t) \/ MountDevfs(t) \/ MountDevfsFails(t)
  BY <1>2 DEF AddToBridge, AddToBridgeFails, MountDevfs, MountDevfsFails
<1>3. CASE StartJail(t) \/ StartJailFails(t) \/ MoveToVnet(t) \/ MoveToVnetFails(t)
  BY <1>3 DEF StartJail, StartJailFails, MoveToVnet, MoveToVnetFails
<1>4. CASE RenameInJail(t) \/ RenameInJailFails(t) \/ RcSucceeds(t) \/ RcFails(t)
  BY <1>4 DEF RenameInJail, RenameInJailFails, RcSucceeds, RcFails
<1>5. CASE UndoStop(t) \/ UndoUmount(t) \/ UndoBridge(t) \/ UndoDestroy(t)
  BY <1>5 DEF UndoStop, UndoUmount, UndoBridge, UndoDestroy
<1>6. CASE LateBridge(t) \/ LateDestroy(t) \/ LateUmount(t)
  BY <1>6 DEF LateBridge, LateDestroy, LateUmount
<1>7. CASE StopBridge(t) \/ StopDestroy(t) \/ StopRemove(t)
  BY <1>7 DEF StopBridge, StopDestroy, StopRemove
<1>8. CASE StopCallFails(t) \/ StopUmount(t) \/ StopUmountGivesUp(t)
  BY <1>8 DEF StopCallFails, StopUmount, StopUmountGivesUp
<1> QED BY <1>1, <1>2, <1>3, <1>4, <1>5, <1>6, <1>7, <1>8 DEF StartStep, UndoStep, StopStep

(* A request begins with a free thread. *)
LEMMA BeginIsLocal ==
    ASSUME TypeOK, NEW t \in Threads, NEW j \in Jails, BeginStart(t, j) \/ BeginStop(t, j)
    PROVE  /\ pc[t] = "idle" /\ jail'[t] = j /\ UNCHANGED host
           /\ \A s \in Threads : s # t =>
                 pc'[s] = pc[s] /\ jail'[s] = jail[s] /\ epair'[s] = epair[s] /\ jid'[s] = jid[s]
           /\ \/ /\ pc'[t] = "create" /\ Asked(t, "start", j) /\ running[j] = None
                 /\ epair'[t] = epair[t] /\ jid'[t] = jid[t]
              \/ /\ pc'[t] = "stop_bridge" /\ Asked(t, "stop", j) /\ running[j] # None
                 /\ epair'[t] = domainname[j] /\ jid'[t] = running[j]
  BY DEF TypeOK, BeginStart, BeginStop, Goto

(* No step changes the scenario. *)
LEMMA ScenarioKept ==
    [Next]_vars => scenario' = scenario /\ (Orderly' <=> Orderly) /\ (EpairsGo' <=> EpairsGo)
  BY DEF Next, Step, vars, Orderly, EpairsGo, Asked, MayFail

(* A request stays one that its thread may be asked for. *)
LEMMA AsAskedStep ==
    ASSUME TypeOK, AsAsked, [Next]_vars
    PROVE  AsAsked'
<1>0. scenario' = scenario
  BY ScenarioKept
<1>1. CASE UNCHANGED vars
  BY <1>1 DEF vars, request, AsAsked, Asked
<1>2. ASSUME NEW t \in Threads, StartStep(t) \/ UndoStep(t) \/ StopStep(t)
      PROVE  AsAsked'
  BY <1>0, <1>2, StepIsLocal DEF AsAsked, Asked
<1>3. ASSUME NEW t \in Threads, NEW j \in Jails, BeginStart(t, j) \/ BeginStop(t, j)
      PROVE  AsAsked'
  BY <1>0, <1>3, BeginIsLocal DEF AsAsked, Asked, StopPCs
<1> QED BY <1>1, <1>2, <1>3 DEF Next, Step

(* A jail that a request is stopping has no other request. *)
LEMMA StopsAlone ==
    ASSUME TypeOK, AsAsked, Orderly, NEW t \in Threads, NEW s \in Threads, NEW j \in Jails,
           Asked(t, "stop", j), pc[s] # "idle", jail[s] = j
    PROVE  s = t
  BY DEF AsAsked, Orderly

-----------------------------------------------------------------------------
(* What an orderly step does to the jails: it leaves them alone, leaves its jail running
   at the end of a start or of a stop that failed, starts its jail or removes it. *)
JailsKept(t) ==
    /\ UNCHANGED <<running, domainname>>
    /\ pc'[t] \in WorkingPCs <=> pc[t] \in WorkingPCs
    /\ jid'[t] = jid[t] \/ (pc[t] \notin WorkingPCs /\ jid'[t] = None)

(* The start is through, or the stop cannot get rid of the epair: the jail is left
   running. *)
JailLeft(t) == /\ UNCHANGED <<ifaces, bridge, vnet, renamed, running, domainname, mounts>>
               /\ pc[t] \in {"rc", "stop_bridge", "stop_destroy"}
               /\ pc'[t] = "idle" /\ jid'[t] = None

(* The jail of the request is started, with its epair in the record. *)
JailStarted(t) ==
    /\ pc[t] = "jail_start" /\ pc'[t] = "move"
    /\ running[jail[t]] = None /\ jid'[t] \in FreeJids
    /\ running' = [running EXCEPT ![jail[t]] = jid'[t]]
    /\ domainname' = [domainname EXCEPT ![jail[t]] = epair[t]]
    /\ UNCHANGED <<ifaces, bridge, vnet, renamed, mounts>>

(* The jail of the request is removed, and what was in it comes home. *)
JailRemoved(t) ==
    /\ \/ pc[t] = "undo_stop" /\ pc'[t] = "undo_umount"
       \/ pc[t] = "late_stop" /\ pc'[t] = "late_umount"
       \/ pc[t] = "stop_remove" /\ pc'[t] = "stop_umount"
    /\ jid'[t] = jid[t] /\ epair'[t] = epair[t]
    /\ running' = [running EXCEPT ![jail[t]] = None]
    /\ domainname' = [domainname EXCEPT ![jail[t]] = None]
    /\ vnet' = [u \in Units |-> IF vnet[u] = jid[t] THEN None ELSE vnet[u]]
    /\ UNCHANGED <<ifaces, bridge, renamed, mounts>>

(* A request that has its jail removes that one and no other. *)
LEMMA RemovesItsOwn ==
    ASSUME TypeOK, JailsHeld, NEW t \in Threads, pc[t] \in WorkingPCs, RemoveJail(jid[t])
    PROVE  /\ running' = [running EXCEPT ![jail[t]] = None]
           /\ domainname' = [domainname EXCEPT ![jail[t]] = None]
           /\ vnet' = [u \in Units |-> IF vnet[u] = jid[t] THEN None ELSE vnet[u]]
           /\ UNCHANGED renamed
<1>1. \A j \in Jails : running[j] = jid[t] <=> j = jail[t]
  BY DEF JailsHeld, TypeOK, WorkingPCs, RunPCs
<1> QED BY <1>1 DEF RemoveJail, TypeOK

(* Every orderly step is one of the four. *)
LEMMA JailMoves ==
    ASSUME TypeOK, JailsHeld, Orderly, NEW t \in Threads,
           StartStep(t) \/ UndoStep(t) \/ StopStep(t)
    PROVE  JailsKept(t) \/ JailLeft(t) \/ JailStarted(t) \/ JailRemoved(t)
<1> USE DEF Goto, Return, request, host, kernel, bhalves
<1>0. /\ pc \in [Threads -> PCs] /\ jid \in [Threads -> Jids \union {None}]
      /\ jail \in [Threads -> Jails \union {None}] /\ running \in [Jails -> Jids \union {None}]
      /\ pc[t] # "idle" => jail[t] \in Jails
  BY DEF TypeOK
<1>a. pc[t] \in WorkingPCs => /\ jid[t] # None /\ running[jail[t]] = jid[t]
                              /\ jail[t] \in Jails /\ Alive(jid[t])
  BY <1>0 DEF JailsHeld, Alive, WorkingPCs, RunPCs
<1>b. ~MayFail("remove")
  BY DEF Orderly
<1>1. CASE CreateEpair(t) \/ CreateFails(t) \/ SetUpEpair(t)
  BY <1>0, <1>1 DEF CreateEpair, CreateFails, SetUpEpair, JailsKept, WorkingPCs, RunPCs
<1>2. CASE AddToBridge(t) \/ AddToBridgeFails(t) \/ MountDevfs(t) \/ MountDevfsFails(t)
  BY <1>0, <1>2 DEF AddToBridge, AddToBridgeFails, MountDevfs, MountDevfsFails, JailsKept,
                    WorkingPCs, RunPCs
<1>3. CASE StartJail(t)
  BY <1>0, <1>3 DEF StartJail, JailStarted, FreeJids
<1>4. CASE StartJailFails(t) \/ MoveToVnet(t) \/ MoveToVnetFails(t)
  BY <1>0, <1>4 DEF StartJailFails, MoveToVnet, MoveToVnetFails, JailsKept, WorkingPCs, RunPCs
<1>5. CASE RenameInJail(t) \/ RenameInJailFails(t) \/ RcFails(t)
  BY <1>0, <1>5 DEF RenameInJail, RenameInJailFails, RcFails, JailsKept, WorkingPCs, RunPCs
<1>6. CASE RcSucceeds(t)
  BY <1>0, <1>6 DEF RcSucceeds, JailLeft
<1>7. CASE UndoStop(t) \/ StopRemove(t)
  <2>1. pc[t] \in WorkingPCs
    BY <1>7 DEF UndoStop, StopRemove, WorkingPCs
  <2>2. RemoveJail(jid[t])
    BY <1>7, <1>a, <1>b, <2>1 DEF UndoStop, StopRemove
  <2> QED BY <1>0, <1>7, <2>1, <2>2, RemovesItsOwn DEF UndoStop, StopRemove, JailRemoved
<1>8. CASE UndoUmount(t) \/ UndoBridge(t) \/ UndoDestroy(t) \/ LateUmount(t)
  BY <1>0, <1>8 DEF UndoUmount, UndoBridge, UndoDestroy, LateUmount, JailsKept, WorkingPCs, RunPCs
<1>9. CASE LateBridge(t) \/ LateDestroy(t) \/ StopBridge(t) \/ StopDestroy(t)
  BY <1>0, <1>9 DEF LateBridge, LateDestroy, StopBridge, StopDestroy, JailsKept, WorkingPCs, RunPCs
<1>10. CASE StopCallFails(t)
  <2>1. CASE pc[t] \in {"stop_bridge", "stop_destroy"}
    BY <1>0, <1>10, <2>1 DEF StopCallFails, JailLeft
  <2>2. CASE pc[t] = "stop_remove" /\ (MayFail("remove") \/ ~Alive(jid[t]))
    BY <2>2, <1>a, <1>b DEF WorkingPCs
  <2> QED BY <1>10, <2>1, <2>2 DEF StopCallFails
<1>11. CASE StopUmount(t) \/ StopUmountGivesUp(t)
  BY <1>0, <1>11 DEF StopUmount, StopUmountGivesUp, JailsKept, WorkingPCs, RunPCs
<1> QED BY <1>1, <1>2, <1>3, <1>4, <1>5, <1>6, <1>7, <1>8, <1>9, <1>10, <1>11
        DEF StartStep, UndoStep, StopStep

(* Nobody knows the jid of a jail that a request begins to stop. *)
LEMMA StopsAResting ==
    ASSUME TypeOK, AsAsked, JailsHeld, Orderly, NEW t \in Threads, NEW j \in Jails,
           pc[t] = "idle", Asked(t, "stop", j), running[j] # None
    PROVE  Resting(j)
<1> SUFFICES ASSUME NEW s \in Threads, jid[s] = running[j] PROVE FALSE
  BY DEF Resting
<1>1. pc[s] \in WorkingPCs /\ jail[s] = j
  BY DEF JailsHeld
<1>2. s = t
  BY <1>1, StopsAlone DEF WorkingPCs, RunPCs
<1> QED BY <1>1, <1>2 DEF WorkingPCs, RunPCs

(* A jail is held by one request from its start, or from being looked up, to its removal. *)
LEMMA JailsHeldStep ==
    ASSUME TypeOK, JidsDistinct, JidLate, AsAsked, JailsHeld, Orderly, [Next]_vars
    PROVE  JailsHeld'
<1>0. /\ jail \in [Threads -> Jails \union {None}] /\ running \in [Jails -> Jids \union {None}]
      /\ jid \in [Threads -> Jids \union {None}]
      /\ \A s \in Threads : pc[s] \in WorkingPCs => jail[s] \in Jails
  BY DEF TypeOK, WorkingPCs, RunPCs
<1>1. CASE UNCHANGED vars
  BY <1>1 DEF vars, request, host, JailsHeld
<1>2. ASSUME NEW t \in Threads, StartStep(t) \/ UndoStep(t) \/ StopStep(t)
      PROVE  JailsHeld'
  <2>1. /\ pc[t] # "idle"
        /\ \A s \in Threads : s # t => pc'[s] = pc[s] /\ jail'[s] = jail[s] /\ jid'[s] = jid[s]
        /\ jail'[t] = jail[t] \/ (pc'[t] = "idle" /\ jid'[t] = None)
    BY <1>2, StepIsLocal
  <2>2. CASE JailsKept(t)
    BY <1>0, <2>1, <2>2 DEF JailsKept, JailsHeld, WorkingPCs, RunPCs
  <2>3. CASE JailLeft(t)
    <3>1. UNCHANGED running
      BY <2>3 DEF JailLeft
    <3>2. pc'[t] \notin WorkingPCs /\ jid'[t] = None
      BY <2>3 DEF JailLeft, WorkingPCs, RunPCs
    <3> QED BY <2>1, <3>1, <3>2 DEF JailsHeld
  <2>4. CASE JailStarted(t)
    <3> DEFINE k == jid'[t]
    <3>1. /\ k # None /\ \A j \in Jails : running[j] # k
          /\ \A s \in Threads : jid[s] # k
          /\ jail[t] \in Jails
          /\ pc'[t] \in WorkingPCs
      BY <2>4, UnitsAssumption, Bounds DEF JailStarted, FreeJids, TypeOK, None, WorkingPCs, RunPCs
    <3>2. /\ running'[jail[t]] = k
          /\ \A j \in Jails : j # jail[t] => running'[j] = running[j]
      BY <1>0, <2>4, <3>1 DEF JailStarted
    <3>3. jail'[t] = jail[t]
      BY <2>1, <2>4 DEF JailStarted
    <3>4. running[jail[t]] = None
      BY <2>4 DEF JailStarted
    <3> HIDE DEF k
    <3>5. ASSUME NEW s \in Threads, s # t, pc'[s] \in WorkingPCs
          PROVE  jid'[s] # None /\ running'[jail'[s]] = jid'[s]
      <4>1. jid[s] # None /\ running[jail[s]] = jid[s] /\ jail[s] \in Jails
        BY <1>0, <2>1, <3>5 DEF JailsHeld
      <4>2. jail[s] # jail[t]
        BY <3>4, <4>1
      <4> QED BY <2>1, <3>2, <3>5, <4>1, <4>2
    <3>6. ASSUME NEW s \in Threads, s # t, NEW j \in Jails, jid'[s] # None, running'[j] = jid'[s]
          PROVE  pc'[s] \in WorkingPCs /\ jail'[s] = j
      <4>1. jid[s] # None /\ running[j] = jid[s]
        BY <2>1, <3>1, <3>2, <3>6
      <4> QED BY <2>1, <3>6, <4>1 DEF JailsHeld
    <3>7. ASSUME NEW j \in Jails, running'[j] = k
          PROVE  jail'[t] = j
      BY <3>1, <3>2, <3>3, <3>7
    <3>8. \A s \in Threads : s # t => jid'[s] # k
      BY <2>1, <3>1
    <3>9. k = jid'[t]
      BY DEF k
    <3>10. \A r, s \in Threads : r # t /\ s # t /\ jid'[r] = jid'[s] /\ jid'[r] # None => r = s
      BY <2>1 DEF JailsHeld
    <3> QED BY <3>1, <3>2, <3>3, <3>5, <3>6, <3>7, <3>8, <3>9, <3>10 DEF JailsHeld
  <2>5. CASE JailRemoved(t)
    <3>1. /\ pc[t] \in WorkingPCs /\ pc'[t] \notin WorkingPCs /\ jid'[t] = jid[t]
          /\ jail[t] \in Jails
      BY <1>0, <2>5 DEF JailRemoved, WorkingPCs, RunPCs
    <3>2. /\ running'[jail[t]] = None
          /\ \A j \in Jails : j # jail[t] => running'[j] = running[j]
      BY <1>0, <2>5, <3>1 DEF JailRemoved
    <3>3. running[jail[t]] = jid[t] /\ jid[t] # None
      BY <3>1 DEF JailsHeld
    <3>4. ASSUME NEW s \in Threads, s # t, pc'[s] \in WorkingPCs
          PROVE  jid'[s] # None /\ running'[jail'[s]] = jid'[s]
      BY <1>0, <2>1, <3>2, <3>3, <3>4 DEF JailsHeld
    <3>5. ASSUME NEW s \in Threads, NEW j \in Jails, jid'[s] # None, running'[j] = jid'[s]
          PROVE  s # t /\ pc'[s] \in WorkingPCs /\ jail'[s] = j
      BY <2>1, <3>1, <3>2, <3>5 DEF JailsHeld
    <3>6. \A r, s \in Threads : jid'[r] = jid'[s] /\ jid'[r] # None => r = s
      BY <2>1, <3>1 DEF JailsHeld
    <3> QED BY <3>1, <3>4, <3>5, <3>6 DEF JailsHeld
  <2> QED BY <1>2, <2>2, <2>3, <2>4, <2>5, JailMoves
<1>3. ASSUME NEW t \in Threads, NEW j \in Jails, BeginStart(t, j) \/ BeginStop(t, j)
      PROVE  JailsHeld'
  <2>1. /\ pc[t] = "idle" /\ jail'[t] = j /\ UNCHANGED running
        /\ \A s \in Threads : s # t => pc'[s] = pc[s] /\ jail'[s] = jail[s] /\ jid'[s] = jid[s]
    BY <1>3, BeginIsLocal DEF host, kernel
  <2>2. jid[t] = None
    BY <2>1 DEF JidLate
  <2>3. CASE pc'[t] = "create" /\ jid'[t] = jid[t]
    <3>1. pc'[t] \notin WorkingPCs
      BY <2>3 DEF WorkingPCs, RunPCs
    <3> QED BY <2>1, <2>2, <2>3, <3>1 DEF JailsHeld
  <2>4. CASE pc'[t] = "stop_bridge" /\ Asked(t, "stop", j) /\ running[j] # None /\ jid'[t] = running[j]
    <3>1. Resting(j)
      BY <2>1, <2>4, StopsAResting
    <3>2. pc'[t] \in WorkingPCs
      BY <2>4 DEF WorkingPCs
    <3>3. \A i \in Jails : running[i] = running[j] => i = j
      BY <2>4 DEF JidsDistinct
    <3> QED BY <2>1, <2>4, <3>1, <3>2, <3>3 DEF JailsHeld, Resting
  <2> QED BY <1>3, <2>3, <2>4, BeginIsLocal
<1> QED BY <1>1, <1>2, <1>3 DEF Next, Step

(* A start that nobody competes with finds its jail not running. *)
LEMMA NotRunningStep ==
    ASSUME TypeOK, AsAsked, JailsHeld, NotRunning, Orderly, [Next]_vars
    PROVE  NotRunning'
<1>0. /\ jail \in [Threads -> Jails \union {None}] /\ running \in [Jails -> Jids \union {None}]
      /\ pc \in [Threads -> PCs]
      /\ \A s \in Threads : pc[s] # "idle" => jail[s] \in Jails
  BY DEF TypeOK
<1> DEFINE Early == {"create", "late_umount"} \union BuildPCs \union (UndoPCs \ {"undo_stop"})
<1>a. scenario' = scenario
  BY ScenarioKept
<1>1. CASE UNCHANGED vars
  BY <1>1 DEF vars, request, host, kernel, NotRunning, Asked
<1>2. ASSUME NEW t \in Threads, StartStep(t) \/ UndoStep(t) \/ StopStep(t)
      PROVE  NotRunning'
  <2>1. /\ pc[t] # "idle" /\ jail[t] \in Jails
        /\ \A s \in Threads : s # t => pc'[s] = pc[s] /\ jail'[s] = jail[s]
        /\ \/ pc'[t] = "idle"
           \/ pc'[t] # "idle" /\ jail'[t] = jail[t] /\ (pc[t] \in StopPCs <=> pc'[t] \in StopPCs)
    BY <1>0, <1>2, StepIsLocal
  <2> SUFFICES ASSUME NEW s \in Threads, pc'[s] \in Early,
                      \A r \in Threads \ {s} : ~Asked(r, "start", jail'[s])
               PROVE  running'[jail'[s]] = None
    BY <1>a DEF NotRunning, Asked
  <2>2. pc'[s] # "idle" /\ jail'[s] = jail[s] /\ jail[s] \in Jails
    BY <1>0, <2>1 DEF BuildPCs, UndoPCs
  <2>3. pc[s] \in Early => running[jail[s]] = None
    BY <2>2 DEF NotRunning
  <2>4. CASE JailsKept(t)
    <3>1. pc[s] \in Early
      BY <1>0, <2>1, <2>4 DEF JailsKept, WorkingPCs, StopPCs, BuildPCs, RunPCs, UndoPCs, LatePCs, PCs
    <3> QED BY <2>2, <2>3, <2>4, <3>1 DEF JailsKept
  <2>5. CASE JailLeft(t)
    <3>1. s # t
      BY <2>2, <2>5 DEF JailLeft
    <3> QED BY <2>1, <2>2, <2>3, <2>5, <3>1 DEF JailLeft, host, kernel
  <2>6. CASE JailStarted(t)
    <3>1. s # t
      BY <2>6 DEF JailStarted, BuildPCs, UndoPCs
    <3>2. Asked(t, "start", jail[t])
      BY <2>6 DEF JailStarted, AsAsked, StopPCs
    <3>3. jail[s] # jail[t]
      BY <2>2, <3>1, <3>2
    <3> QED BY <1>0, <2>1, <2>2, <2>3, <2>6, <3>1, <3>3 DEF JailStarted
  <2>7. CASE JailRemoved(t)
    <3>1. CASE s = t
      BY <1>0, <2>2, <2>7, <3>1 DEF JailRemoved
    <3>2. CASE s # t
      BY <1>0, <2>1, <2>2, <2>3, <2>7, <3>2 DEF JailRemoved
    <3> QED BY <3>1, <3>2
  <2> QED BY <1>2, <2>4, <2>5, <2>6, <2>7, JailMoves
<1>3. ASSUME NEW t \in Threads, NEW j \in Jails, BeginStart(t, j) \/ BeginStop(t, j)
      PROVE  NotRunning'
  <2>1. /\ jail'[t] = j /\ UNCHANGED running
        /\ \A s \in Threads : s # t => pc'[s] = pc[s] /\ jail'[s] = jail[s]
        /\ \/ pc'[t] = "create" /\ running[j] = None
           \/ pc'[t] = "stop_bridge"
    BY <1>3, BeginIsLocal DEF host, kernel
  <2> QED BY <1>a, <2>1 DEF NotRunning, Asked, BuildPCs, UndoPCs
<1> QED BY <1>1, <1>2, <1>3 DEF Next, Step

(* Which jails rest after a step: the same, and the one that a start has just left. *)
LEMMA RestingStep ==
    ASSUME TypeOK, JidsDistinct, JailsHeld, Orderly, NEW t \in Threads,
           StartStep(t) \/ UndoStep(t) \/ StopStep(t), NEW j \in Jails
    PROVE  /\ Resting(j)' <=> Resting(j) \/ (JailLeft(t) /\ j = jail[t])
           /\ Resting(j) => running'[j] = running[j] /\ domainname'[j] = domainname[j]
<1>0. /\ running \in [Jails -> Jids \union {None}]
      /\ domainname \in [Jails -> Units \union {None}]
      /\ pc[t] \in WorkingPCs => jail[t] \in Jails
  BY DEF TypeOK, WorkingPCs, RunPCs
<1>1. \A s \in Threads : s # t => jid'[s] = jid[s]
  BY StepIsLocal
<1>2. CASE JailsKept(t)
  <2>1. /\ UNCHANGED running /\ UNCHANGED domainname
        /\ jid'[t] = jid[t] \/ (pc[t] \notin WorkingPCs /\ jid'[t] = None)
        /\ ~JailLeft(t)
    BY <1>2 DEF JailsKept, JailLeft, WorkingPCs, RunPCs
  <2> QED BY <1>1, <2>1 DEF Resting, JailsHeld
<1>3. CASE JailLeft(t)
  <2>1. /\ UNCHANGED running /\ UNCHANGED domainname /\ jid'[t] = None
        /\ running[jail[t]] = jid[t] /\ jid[t] # None
        /\ \A s \in Threads : s # t => jid[s] # jid[t]
        /\ \A i \in Jails : running[i] = jid[t] => i = jail[t]
    BY <1>3 DEF JailLeft, host, kernel, JailsHeld, WorkingPCs, RunPCs
  <2> QED BY <1>1, <1>3, <2>1 DEF Resting
<1>4. CASE JailStarted(t)
  <2>1. /\ ~JailLeft(t) /\ running[jail[t]] = None /\ jid'[t] # None
        /\ \A i \in Jails : i # jail[t] => running'[i] = running[i] /\ domainname'[i] = domainname[i]
        /\ \A i \in Jails : running[i] # jid'[t]
        /\ jail[t] \in Jails => running'[jail[t]] = jid'[t]
    BY <1>0, <1>4, UnitsAssumption, Bounds DEF JailStarted, JailLeft, FreeJids, None
  <2>2. \A s \in Threads : jid[s] # jid'[t]
    BY <1>4 DEF JailStarted, FreeJids
  <2>3. CASE j = jail[t]
    BY <2>1, <2>3 DEF Resting
  <2>4. CASE j # jail[t]
    <3>1. running'[j] = running[j] /\ running[j] # jid'[t]
      BY <2>1, <2>4
    <3>2. jid[t] = running[j] /\ running[j] # None => FALSE
      BY <1>4, <2>4 DEF JailsHeld, JailStarted, WorkingPCs, RunPCs
    <3> QED BY <1>1, <2>1, <2>4, <3>1, <3>2 DEF Resting
  <2> QED BY <2>3, <2>4
<1>5. CASE JailRemoved(t)
  <2>1. /\ ~JailLeft(t) /\ jid'[t] = jid[t] /\ pc[t] \in WorkingPCs
        /\ \A i \in Jails : i # jail[t] => running'[i] = running[i] /\ domainname'[i] = domainname[i]
        /\ running'[jail[t]] = None
    BY <1>0, <1>5 DEF JailRemoved, JailLeft, WorkingPCs, RunPCs
  <2>2. jid[t] # None /\ running[jail[t]] = jid[t]
    BY <2>1 DEF JailsHeld
  <2> QED BY <1>1, <2>1, <2>2 DEF Resting
<1> QED BY <1>2, <1>3, <1>4, <1>5, JailMoves

(* Which jails rest after a request has begun: all but the one it will stop. *)
LEMMA RestingBegin ==
    ASSUME TypeOK, JidsDistinct, JidLate, AsAsked, JailsHeld, Orderly, NEW t \in Threads,
           NEW j \in Jails, BeginStart(t, j) \/ BeginStop(t, j), NEW i \in Jails
    PROVE  /\ Resting(i)' <=> Resting(i) /\ (i = j => pc'[t] = "create")
           /\ pc'[t] = "stop_bridge" => Resting(j)
<1>1. /\ pc[t] = "idle" /\ UNCHANGED running
      /\ \A s \in Threads : s # t => jid'[s] = jid[s]
  BY BeginIsLocal DEF host, kernel
<1>2. jid[t] = None
  BY <1>1 DEF JidLate
<1>3. CASE pc'[t] = "create" /\ jid'[t] = jid[t]
  BY <1>1, <1>3 DEF Resting
<1>4. CASE /\ pc'[t] = "stop_bridge" /\ Asked(t, "stop", j) /\ running[j] # None
           /\ jid'[t] = running[j]
  <2>1. Resting(j)
    BY <1>1, <1>4, StopsAResting
  <2>2. running[i] = running[j] => i = j
    BY <1>4 DEF JidsDistinct
  <2> QED BY <1>1, <1>2, <1>4, <2>1, <2>2 DEF Resting
<1> QED BY <1>3, <1>4, BeginIsLocal

(* A step of t changes no interface but the one that its request owns or creates, save
   that the b halves in a jail that it removes come home. *)
Untouched(u) == /\ u \in ifaces' <=> u \in ifaces
                /\ u \in bridge' <=> u \in bridge
                /\ u \in renamed' <=> u \in renamed

(* Every call of a request leaves the interfaces of the others untouched. *)
LEMMA TouchesItsOwn ==
    ASSUME TypeOK, JailsHeld, Orderly, NEW t \in Threads, EpairPlaced(t),
           StartStep(t) \/ UndoStep(t) \/ StopStep(t),
           NEW u \in Units, pc[t] \in OwningPCs => u # epair[t],
           pc[t] = "create" => u \in ifaces \/ u # epair'[t]
    PROVE  Untouched(u) /\ (vnet'[u] = vnet[u] \/ (JailRemoved(t) /\ vnet[u] = jid[t]))
<1> USE DEF Goto, Return, request, host, kernel, bhalves, netVars, Untouched
<1>0. vnet \in [Units -> Jids \union {None}] /\ epair \in [Threads -> Units \union {None}]
  BY DEF TypeOK
<1>a. pc[t] \in OwningPCs \/ pc[t] \in {"create", "late_stop", "late_umount", "stop_remove", "stop_umount", "idle"}
  BY DEF TypeOK, PCs, OwningPCs, WorkingPCs, BuildPCs, RunPCs, UndoPCs, LatePCs, StopPCs
<1>1. CASE CreateEpair(t) \/ CreateFails(t) \/ SetUpEpair(t)
  BY <1>0, <1>1 DEF CreateEpair, CreateFails, SetUpEpair, CreateInterface
<1>2. CASE AddToBridge(t) \/ AddToBridgeFails(t) \/ MountDevfs(t) \/ MountDevfsFails(t)
  BY <1>0, <1>2, <1>a DEF AddToBridge, AddToBridgeFails, MountDevfs, MountDevfsFails, BridgeAdd
<1>3. CASE JailRemoved(t)
  BY <1>0, <1>3 DEF JailRemoved
<1>4. CASE StartJail(t) \/ StartJailFails(t) \/ MoveToVnet(t) \/ MoveToVnetFails(t)
  BY <1>0, <1>4, <1>a DEF StartJail, StartJailFails, MoveToVnet, MoveToVnetFails
<1>5. CASE RenameInJail(t) \/ RenameInJailFails(t) \/ RcSucceeds(t) \/ RcFails(t)
  BY <1>0, <1>5, <1>a DEF RenameInJail, RenameInJailFails, RcSucceeds, RcFails
<1>6. CASE UndoUmount(t) \/ UndoBridge(t) \/ UndoDestroy(t) \/ LateUmount(t)
  BY <1>0, <1>6, <1>a DEF UndoUmount, UndoBridge, UndoDestroy, LateUmount, BridgeDelete, TryDestroy,
                          DestroyEpair, DestroyInterface
<1>7. CASE LateBridge(t) \/ LateDestroy(t) \/ StopBridge(t) \/ StopDestroy(t)
  BY <1>0, <1>7, <1>a DEF LateBridge, LateDestroy, StopBridge, StopDestroy, BridgeDelete, TryDestroy,
                          DestroyEpair, DestroyInterface
<1>8. CASE StopCallFails(t) \/ StopUmount(t) \/ StopUmountGivesUp(t)
  BY <1>0, <1>8 DEF StopCallFails, StopUmount, StopUmountGivesUp
<1>9. CASE UndoStop(t) \/ StopRemove(t)
  <2>1. pc[t] \in {"undo_stop", "late_stop", "stop_remove"}
    BY <1>9 DEF UndoStop, StopRemove
  <2>2. ~JailsKept(t) /\ ~JailLeft(t) /\ ~JailStarted(t)
    BY <1>9, <2>1 DEF JailsKept, JailLeft, JailStarted, WorkingPCs, RunPCs, UndoStop, StopRemove, TypeOK
  <2> QED BY <1>3, <2>2, JailMoves
<1> QED BY <1>1, <1>2, <1>4, <1>5, <1>6, <1>7, <1>8, <1>9 DEF StartStep, UndoStep, StopStep

(* A request owns the epair it owned before, or one that it has just created. *)
LEMMA OwnerMoves ==
    ASSUME TypeOK, NEW t \in Threads, StartStep(t) \/ UndoStep(t) \/ StopStep(t),
           pc'[t] \in OwningPCs
    PROVE  \/ pc[t] \in OwningPCs /\ epair'[t] = epair[t]
           \/ pc[t] = "create" /\ epair'[t] \in Units \ ifaces
<1> USE DEF TypeOK, Goto, Return, request, host, OwningPCs, WorkingPCs, BuildPCs, RunPCs, UndoPCs
<1>1. CASE CreateEpair(t) \/ CreateFails(t) \/ SetUpEpair(t)
  BY <1>1 DEF CreateEpair, CreateFails, SetUpEpair, CreateInterface
<1>2. CASE AddToBridge(t) \/ AddToBridgeFails(t) \/ MountDevfs(t) \/ MountDevfsFails(t)
  BY <1>2 DEF AddToBridge, AddToBridgeFails, MountDevfs, MountDevfsFails
<1>3. CASE StartJail(t) \/ StartJailFails(t) \/ MoveToVnet(t) \/ MoveToVnetFails(t)
  BY <1>3 DEF StartJail, StartJailFails, MoveToVnet, MoveToVnetFails
<1>4. CASE RenameInJail(t) \/ RenameInJailFails(t) \/ RcSucceeds(t) \/ RcFails(t)
  BY <1>4 DEF RenameInJail, RenameInJailFails, RcSucceeds, RcFails
<1>5. CASE UndoStop(t) \/ UndoUmount(t) \/ UndoBridge(t) \/ UndoDestroy(t)
  BY <1>5 DEF UndoStop, UndoUmount, UndoBridge, UndoDestroy
<1>6. CASE LateBridge(t) \/ LateDestroy(t) \/ LateUmount(t)
  BY <1>6 DEF LateBridge, LateDestroy, LateUmount
<1>7. CASE StopBridge(t) \/ StopDestroy(t) \/ StopRemove(t)
  BY <1>7 DEF StopBridge, StopDestroy, StopRemove
<1>8. CASE StopCallFails(t) \/ StopUmount(t) \/ StopUmountGivesUp(t)
  BY <1>8 DEF StopCallFails, StopUmount, StopUmountGivesUp
<1> QED BY <1>1, <1>2, <1>3, <1>4, <1>5, <1>6, <1>7, <1>8 DEF StartStep, UndoStep, StopStep

(* While epairs go when told, only a start leaves its jail running. *)
LEMMA OnlyStartsLeave ==
    ASSUME EpairsGo, NEW t \in Threads, EpairPlaced(t), JailLeft(t), TypeOK,
           StartStep(t) \/ UndoStep(t) \/ StopStep(t)
    PROVE  pc[t] = "rc"
<1> SUFFICES ASSUME pc[t] \in {"stop_bridge", "stop_destroy"} PROVE FALSE
  BY DEF JailLeft
<1>1. ~StartStep(t)
  BY DEF StartStep, CreateEpair, CreateFails, SetUpEpair, AddToBridge, AddToBridgeFails,
         MountDevfs, MountDevfsFails, StartJail, StartJailFails, MoveToVnet, MoveToVnetFails,
         RenameInJail, RenameInJailFails, RcSucceeds, RcFails
<1>2. ~UndoStep(t)
  BY DEF UndoStep, UndoStop, UndoUmount, UndoBridge, UndoDestroy, LateBridge, LateDestroy,
         LateUmount
<1>3. ~StopBridge(t) /\ ~StopDestroy(t) /\ ~StopRemove(t) /\ ~StopUmount(t)
      /\ ~StopUmountGivesUp(t)
  BY DEF StopBridge, StopDestroy, StopRemove, StopUmount, StopUmountGivesUp, Goto, TypeOK,
         JailLeft
<1>4. StopCallFails(t)
  BY <1>1, <1>2, <1>3 DEF StopStep
<1>5. DeleteFails(epair[t]) \/ DestroyFails(epair[t])
  BY <1>4 DEF StopCallFails
<1> QED BY <1>4 DEF StopCallFails, DeleteFails, DestroyFails, EpairsGo, EpairPlaced, OwningPCs,
               WorkingPCs

(* Its own step leaves the epair of a request where its next call expects it. *)
LEMMA OwnEpairPlaced ==
    ASSUME TypeOK, JailsHeld, EpairsPlaced, Orderly, EpairsGo, NEW t \in Threads,
           StartStep(t) \/ UndoStep(t) \/ StopStep(t)
    PROVE  EpairPlaced(t)'
<1>a. JailsKept(t) \/ JailLeft(t) \/ JailStarted(t) \/ JailRemoved(t)
  BY JailMoves
<1> USE DEF TypeOK, NetTypeOK, Goto, Return, request, host, kernel, bhalves, netVars, EpairPlaced, OwningPCs,
            WorkingPCs, BuildPCs, RunPCs, UndoPCs
<1>0. EpairPlaced(t)
  BY DEF EpairsPlaced
<1>1. CASE CreateEpair(t)
  <2>1. PICK u \in Units \ ifaces : /\ ifaces' = ifaces \union {u} /\ bridge' = bridge
                                    /\ epair' = [epair EXCEPT ![t] = u]
    BY <1>1 DEF CreateEpair, CreateInterface
  <2>2. vnet[u] = None /\ u \notin bridge /\ u \notin renamed
    BY DEF EpairsPlaced
  <2> QED BY <1>1, <2>1, <2>2 DEF CreateEpair
<1>1a. CASE CreateFails(t) \/ SetUpEpair(t)
  BY <1>0, <1>1a DEF CreateFails, SetUpEpair
<1>2. CASE AddToBridge(t) \/ AddToBridgeFails(t) \/ MountDevfs(t) \/ MountDevfsFails(t)
  BY <1>0, <1>2 DEF AddToBridge, AddToBridgeFails, MountDevfs, MountDevfsFails, BridgeAdd
<1>3. CASE JailRemoved(t)
  <2>1. epair'[t] = epair[t]
    BY <1>3 DEF JailRemoved
  <2>2. /\ pc'[t] = "undo_umount" => pc[t] = "undo_stop"
        /\ pc'[t] \in {"undo_umount", "late_umount", "stop_umount"}
        /\ UNCHANGED <<ifaces, bridge>>
    BY <1>3 DEF JailRemoved
  <2> QED BY ONLY <1>0, <2>1, <2>2 DEF EpairPlaced, OwningPCs, WorkingPCs, BuildPCs, RunPCs, UndoPCs
<1>4. CASE StartJail(t) \/ StartJailFails(t) \/ MoveToVnet(t) \/ MoveToVnetFails(t)
  BY <1>0, <1>4 DEF StartJail, StartJailFails, MoveToVnet, MoveToVnetFails, CanMove
<1>5. CASE RenameInJail(t) \/ RenameInJailFails(t) \/ RcSucceeds(t) \/ RcFails(t)
  BY <1>0, <1>5 DEF RenameInJail, RenameInJailFails, RcSucceeds, RcFails, InVnet
<1>6. CASE UndoUmount(t) \/ UndoBridge(t) \/ UndoDestroy(t) \/ LateUmount(t)
  BY <1>0, <1>6 DEF UndoUmount, UndoBridge, UndoDestroy, LateUmount, BridgeDelete
<1>7. CASE LateBridge(t) \/ LateDestroy(t) \/ StopBridge(t) \/ StopDestroy(t)
  BY <1>0, <1>7 DEF LateBridge, LateDestroy, StopBridge, StopDestroy, BridgeDelete
<1>8. CASE StopCallFails(t) \/ StopUmount(t) \/ StopUmountGivesUp(t)
  BY <1>0, <1>8 DEF StopCallFails, StopUmount, StopUmountGivesUp
<1>9. CASE UndoStop(t) \/ StopRemove(t)
  <2>1. ~JailsKept(t) /\ ~JailLeft(t) /\ ~JailStarted(t)
    BY <1>9 DEF JailsKept, JailLeft, JailStarted, UndoStop, StopRemove
  <2> QED BY <1>3, <1>a, <2>1
<1> QED BY <1>1, <1>1a, <1>2, <1>4, <1>5, <1>6, <1>7, <1>8, <1>9
        DEF StartStep, UndoStep, StopStep

(* A request in its first call creates an epair or ends. *)
LEMMA CreatesOrEnds ==
    ASSUME TypeOK, NEW t \in Threads, pc[t] = "create", StartStep(t) \/ UndoStep(t) \/ StopStep(t)
    PROVE  CreateEpair(t) \/ epair'[t] = None
<1>1. /\ ~SetUpEpair(t) /\ ~AddToBridge(t) /\ ~AddToBridgeFails(t) /\ ~MountDevfs(t)
      /\ ~MountDevfsFails(t) /\ ~StartJail(t) /\ ~StartJailFails(t) /\ ~MoveToVnet(t)
      /\ ~MoveToVnetFails(t) /\ ~RenameInJail(t) /\ ~RenameInJailFails(t)
      /\ ~RcSucceeds(t) /\ ~RcFails(t)
  BY DEF SetUpEpair, AddToBridge, AddToBridgeFails, MountDevfs, MountDevfsFails, StartJail,
         StartJailFails, MoveToVnet, MoveToVnetFails, RenameInJail, RenameInJailFails,
         RcSucceeds, RcFails
<1>2. ~UndoStep(t)
  BY DEF UndoStep, UndoStop, UndoUmount, UndoBridge, UndoDestroy, LateBridge, LateDestroy, LateUmount
<1>3. ~StopStep(t)
  BY DEF StopStep, StopBridge, StopDestroy, StopRemove, StopCallFails, StopUmount, StopUmountGivesUp
<1>4. CreateEpair(t) \/ CreateFails(t)
  BY <1>1, <1>2, <1>3 DEF StartStep
<1> QED BY <1>4 DEF CreateFails, Return, TypeOK

(* Every epair is where its request's next call expects it. *)
LEMMA EpairsPlacedStep ==
    ASSUME TypeOK, JidsDistinct, JidLate, AsAsked, JailsHeld, EpairsPlaced, EpairsOwned,
           JailsNetworked, Orderly, EpairsGo, [Next]_vars
    PROVE  EpairsPlaced'
<1>0. /\ epair \in [Threads -> Units \union {None}] /\ jid \in [Threads -> Jids \union {None}]
      /\ vnet \in [Units -> Jids \union {None}] /\ ifaces \subseteq Units /\ bridge \subseteq ifaces
  BY DEF TypeOK, NetTypeOK
<1>1. CASE UNCHANGED vars
  BY <1>1 DEF vars, request, host, EpairsPlaced, EpairPlaced
<1>2. ASSUME NEW t \in Threads, StartStep(t) \/ UndoStep(t) \/ StopStep(t)
      PROVE  EpairsPlaced'
  <2>1. \A s \in Threads : s # t =>
           pc'[s] = pc[s] /\ jail'[s] = jail[s] /\ epair'[s] = epair[s] /\ jid'[s] = jid[s]
    BY <1>2, StepIsLocal
  <2>2. ASSUME NEW s \in Threads, s # t
        PROVE  EpairPlaced(s)'
    <3>1. CASE pc[s] \in OwningPCs
      <4>1. EpairPlaced(s) /\ EpairPlaced(t)
        BY DEF EpairsPlaced
      <4>2. epair[s] \in ifaces /\ epair[s] \in Units
        BY <1>0, <3>1, <4>1 DEF EpairPlaced
      <4>3. pc[t] \in OwningPCs => epair[s] # epair[t]
        BY <2>2, <3>1 DEF EpairsOwned
      <4>4. /\ Untouched(epair[s])
            /\ vnet'[epair[s]] = vnet[epair[s]] \/ (JailRemoved(t) /\ vnet[epair[s]] = jid[t])
        BY <1>2, <4>1, <4>2, <4>3, TouchesItsOwn
      <4>5. JailRemoved(t) => jid[t] # None /\ jid[s] # jid[t]
        BY <2>2 DEF JailsHeld, JailRemoved, WorkingPCs
      <4> QED BY <2>1, <2>2, <4>1, <4>4, <4>5 DEF EpairPlaced, Untouched
    <3>2. CASE pc[s] \notin OwningPCs
      BY <2>1, <2>2, <3>2 DEF EpairPlaced, OwningPCs, WorkingPCs, BuildPCs, RunPCs, UndoPCs
    <3> QED BY <3>1, <3>2
  <2>3. EpairPlaced(t)'
    BY <1>2, OwnEpairPlaced
  <2>4. ASSUME NEW u \in Units \ ifaces'
        PROVE  vnet'[u] = None
    <3> USE DEF Goto, Return, request, host, kernel, bhalves, netVars
    <3>0. EpairPlaced(t) /\ \A v \in Units \ ifaces : vnet[v] = None
      BY DEF EpairsPlaced
    <3>1. CASE pc[t] \in OwningPCs /\ u = epair[t] /\ ifaces' # ifaces
      <4>1. /\ ~CreateEpair(t) /\ ~CreateFails(t) /\ ~SetUpEpair(t) /\ ~AddToBridge(t)
            /\ ~AddToBridgeFails(t) /\ ~MountDevfs(t) /\ ~MountDevfsFails(t)
        BY <3>1 DEF CreateEpair, CreateFails, SetUpEpair, AddToBridge, AddToBridgeFails,
             MountDevfs, MountDevfsFails, BridgeAdd, OwningPCs, WorkingPCs, BuildPCs, RunPCs, UndoPCs
      <4>2. /\ ~StartJail(t) /\ ~StartJailFails(t) /\ ~MoveToVnet(t) /\ ~MoveToVnetFails(t)
            /\ ~RenameInJail(t) /\ ~RenameInJailFails(t) /\ ~RcSucceeds(t) /\ ~RcFails(t)
        BY <3>1 DEF StartJail, StartJailFails, MoveToVnet, MoveToVnetFails, RenameInJail,
             RenameInJailFails, RcSucceeds, RcFails
      <4>3. /\ ~UndoStop(t) /\ ~UndoUmount(t) /\ ~UndoBridge(t) /\ ~LateBridge(t) /\ ~LateUmount(t)
            /\ ~StopBridge(t) /\ ~StopRemove(t) /\ ~StopCallFails(t) /\ ~StopUmount(t)
            /\ ~StopUmountGivesUp(t)
        BY <3>1 DEF UndoStop, UndoUmount, UndoBridge, LateBridge, LateUmount, StopBridge,
             StopRemove, StopCallFails, StopUmount, StopUmountGivesUp, BridgeDelete
      <4>4. UndoDestroy(t) \/ LateDestroy(t) \/ StopDestroy(t)
        BY <1>2, <4>1, <4>2, <4>3 DEF StartStep, UndoStep, StopStep
      <4>5. DestroyEpair(epair[t])
        BY <3>1, <4>4 DEF UndoDestroy, LateDestroy, StopDestroy, TryDestroy
      <4> QED BY <1>0, <3>1, <4>5 DEF DestroyEpair
    <3>2. CASE pc[t] \in OwningPCs /\ u = epair[t] /\ ifaces' = ifaces
      BY <3>0, <3>2 DEF EpairPlaced
    <3>3. CASE pc[t] \in OwningPCs => u # epair[t]
      <4>1. pc[t] = "create" => u \in ifaces \/ u # epair'[t]
        <5> SUFFICES ASSUME pc[t] = "create", u \notin ifaces, u = epair'[t]
                     PROVE  FALSE
          OBVIOUS
        <5>1. CASE CreateEpair(t)
          BY <1>0, <2>4, <5>1 DEF CreateEpair, CreateInterface
        <5>2. ~CreateEpair(t) => epair'[t] = None
          BY <1>2, CreatesOrEnds
        <5>3. u # None
          BY UnitsAssumption DEF None
        <5> QED BY <5>1, <5>2, <5>3
      <4>2. /\ Untouched(u)
            /\ vnet'[u] = vnet[u] \/ (JailRemoved(t) /\ vnet[u] = jid[t])
        BY <1>2, <3>0, <3>3, <4>1, TouchesItsOwn
      <4>3. vnet[u] = None
        BY <2>4, <3>0, <4>2 DEF Untouched
      <4>4. JailRemoved(t) => jid[t] # None
        BY DEF JailsHeld, JailRemoved, WorkingPCs
      <4> QED BY <4>2, <4>3, <4>4
    <3> QED BY <3>1, <3>2, <3>3
  <2> QED BY <2>2, <2>3, <2>4 DEF EpairsPlaced
<1>3. ASSUME NEW t \in Threads, NEW j \in Jails, BeginStart(t, j) \/ BeginStop(t, j)
      PROVE  EpairsPlaced'
  <2>1. /\ pc[t] = "idle" /\ UNCHANGED <<ifaces, bridge, vnet, renamed, running>>
        /\ \A s \in Threads : s # t =>
              pc'[s] = pc[s] /\ epair'[s] = epair[s] /\ jid'[s] = jid[s]
        /\ pc'[t] = "create" \/ (pc'[t] = "stop_bridge" /\ epair'[t] = domainname[j])
    BY <1>3, BeginIsLocal DEF host, bhalves, kernel
  <2>2. CASE pc'[t] = "create"
    BY <2>1, <2>2 DEF EpairsPlaced, EpairPlaced, OwningPCs, WorkingPCs, BuildPCs, RunPCs, UndoPCs
  <2>3. CASE pc'[t] = "stop_bridge" /\ epair'[t] = domainname[j]
    <3>1. Networked(j)
      BY <1>3, <2>3, RestingBegin DEF JailsNetworked
    <3>2. epair'[t] \in bridge /\ epair'[t] \in ifaces
      BY <1>0, <2>3, <3>1 DEF Networked
    <3>3. EpairPlaced(t)'
      BY <2>1, <2>3, <3>2 DEF EpairPlaced, BuildPCs, RunPCs
    <3>4. ASSUME NEW s \in Threads, s # t PROVE EpairPlaced(s)'
      BY <2>1, <3>4 DEF EpairsPlaced, EpairPlaced
    <3> QED BY <2>1, <3>3, <3>4 DEF EpairsPlaced
  <2> QED BY <2>1, <2>2, <2>3
<1> QED BY <1>1, <1>2, <1>3 DEF Next, Step

(* A resting jail is networked: its start has moved and renamed the b half, and nobody
   touches the epair of a jail that rests. *)
LEMMA JailsNetworkedStep ==
    ASSUME TypeOK, JidsDistinct, JidLate, RecordMatches, AsAsked, JailsHeld, EpairsPlaced,
           EpairsOwned, JailsNetworked, Orderly, EpairsGo, [Next]_vars
    PROVE  JailsNetworked'
<1>0. /\ domainname \in [Jails -> Units \union {None}] /\ bridge \subseteq ifaces
      /\ ifaces \subseteq Units
  BY DEF TypeOK, NetTypeOK
<1>1. CASE UNCHANGED vars
  BY <1>1 DEF vars, request, host, bhalves, kernel, JailsNetworked, Networked, Resting
<1>2. ASSUME NEW t \in Threads, StartStep(t) \/ UndoStep(t) \/ StopStep(t)
      PROVE  JailsNetworked'
  <2>0. EpairPlaced(t)
    BY DEF EpairsPlaced
  <2> SUFFICES ASSUME NEW j \in Jails, Resting(j)' PROVE Networked(j)'
    BY DEF JailsNetworked
  <2>1. CASE Resting(j)
    <3> DEFINE u == domainname[j]
    <3>1. u \in bridge /\ u \in renamed /\ vnet[u] = running[j] /\ u \in ifaces /\ u \in Units
      BY <1>0, <2>1 DEF JailsNetworked, Networked
    <3>2. pc[t] \in OwningPCs => u # epair[t]
      BY <2>1 DEF EpairsOwned
    <3>3. Untouched(u) /\ (vnet'[u] = vnet[u] \/ (JailRemoved(t) /\ vnet[u] = jid[t]))
      BY <1>2, <2>0, <3>1, <3>2, TouchesItsOwn
    <3>4. jid[t] # running[j]
      BY <2>1 DEF Resting
    <3>5. running'[j] = running[j] /\ domainname'[j] = u
      BY <1>2, <2>1, RestingStep
    <3> QED BY <3>1, <3>3, <3>4, <3>5 DEF Untouched, Networked
  <2>2. CASE JailLeft(t) /\ j = jail[t]
    <3>1. /\ UNCHANGED <<ifaces, bridge, vnet, renamed, running, domainname>>
          /\ jid[t] # None /\ running[j] = jid[t]
      BY <2>2 DEF JailLeft, host, kernel, bhalves, JailsHeld, WorkingPCs, RunPCs
    <3>2. domainname[j] = epair[t]
      BY <3>1 DEF RecordMatches
    <3>3. epair[t] \in bridge /\ vnet[epair[t]] = jid[t] /\ epair[t] \in renamed
      BY <1>2, <2>0, <2>2, OnlyStartsLeave DEF EpairPlaced, RunPCs
    <3> QED BY <3>1, <3>2, <3>3 DEF Networked
  <2> QED BY <1>2, <2>1, <2>2, RestingStep
<1>3. ASSUME NEW t \in Threads, NEW j \in Jails, BeginStart(t, j) \/ BeginStop(t, j)
      PROVE  JailsNetworked'
  BY <1>3, BeginIsLocal, RestingBegin DEF host, kernel, bhalves, JailsNetworked, Networked
<1> QED BY <1>1, <1>2, <1>3 DEF Next, Step

(* No epair has two owners. *)
LEMMA EpairsOwnedStep ==
    ASSUME TypeOK, JidsDistinct, JidLate, RecordMatches, AsAsked, JailsHeld, EpairsPlaced,
           EpairsOwned, JailsNetworked, Orderly, EpairsGo, [Next]_vars
    PROVE  EpairsOwned'
<1>0. /\ domainname \in [Jails -> Units \union {None}] /\ bridge \subseteq ifaces
  BY DEF TypeOK, NetTypeOK
<1>a. \A j \in Jails : Resting(j) => domainname[j] \in ifaces
  BY <1>0 DEF JailsNetworked, Networked
<1>b. \A s \in Threads : pc[s] \in OwningPCs => epair[s] \in ifaces
  BY DEF EpairsPlaced, EpairPlaced
<1>1. CASE UNCHANGED vars
  BY <1>1 DEF vars, request, host, kernel, EpairsOwned, Resting
<1>2. ASSUME NEW t \in Threads, StartStep(t) \/ UndoStep(t) \/ StopStep(t)
      PROVE  EpairsOwned'
  <2>0. EpairPlaced(t)
    BY DEF EpairsPlaced
  <2>1. \A s \in Threads : s # t => pc'[s] = pc[s] /\ epair'[s] = epair[s]
    BY <1>2, StepIsLocal
  <2>2. pc'[t] \in OwningPCs => \/ pc[t] \in OwningPCs /\ epair'[t] = epair[t]
                                \/ epair'[t] \notin ifaces
    BY <1>2, OwnerMoves
  <2>3. ASSUME NEW j \in Jails, Resting(j)'
        PROVE  \/ Resting(j) /\ domainname'[j] = domainname[j]
               \/ /\ JailLeft(t) /\ j = jail[t] /\ domainname'[j] = epair[t]
                  /\ pc[t] \in OwningPCs /\ pc'[t] \notin OwningPCs
    <3>1. CASE JailLeft(t) /\ j = jail[t]
      <4>1. UNCHANGED domainname /\ jid[t] # None /\ running[j] = jid[t]
        BY <3>1 DEF JailLeft, host, kernel, JailsHeld, WorkingPCs, RunPCs
      <4> QED BY <3>1, <4>1 DEF RecordMatches, JailLeft, OwningPCs, WorkingPCs, BuildPCs, RunPCs,
                   UndoPCs
    <3> QED BY <1>2, <2>3, <3>1, RestingStep
  <2>4. \A r, s \in Threads : pc'[r] \in OwningPCs /\ pc'[s] \in OwningPCs /\ epair'[r] = epair'[s]
                              => r = s
    BY <1>b, <2>1, <2>2 DEF EpairsOwned
  <2>5. ASSUME NEW s \in Threads, NEW j \in Jails, pc'[s] \in OwningPCs, Resting(j)'
        PROVE  domainname'[j] # epair'[s]
    BY <1>a, <1>b, <2>1, <2>2, <2>3, <2>5 DEF EpairsOwned
  <2>6. ASSUME NEW i \in Jails, NEW j \in Jails, Resting(i)', Resting(j)',
               domainname'[i] = domainname'[j]
        PROVE  i = j
    BY <2>3, <2>6 DEF EpairsOwned
  <2> QED BY <2>4, <2>5, <2>6 DEF EpairsOwned
<1>3. ASSUME NEW t \in Threads, NEW j \in Jails, BeginStart(t, j) \/ BeginStop(t, j)
      PROVE  EpairsOwned'
  <2>1. /\ UNCHANGED domainname
        /\ \A s \in Threads : s # t => pc'[s] = pc[s] /\ epair'[s] = epair[s]
        /\ pc'[t] = "create" \/ (pc'[t] = "stop_bridge" /\ epair'[t] = domainname[j])
    BY <1>3, BeginIsLocal DEF host, kernel
  <2>2. /\ \A i \in Jails : Resting(i)' => Resting(i) /\ (i = j => pc'[t] = "create")
        /\ pc'[t] = "stop_bridge" => Resting(j)
    BY <1>3, RestingBegin
  <2>3. pc'[t] = "create" => pc'[t] \notin OwningPCs
    BY DEF OwningPCs, WorkingPCs, BuildPCs, RunPCs, UndoPCs
  <2> QED BY <2>1, <2>2, <2>3 DEF EpairsOwned
<1> QED BY <1>1, <1>2, <1>3 DEF Next, Step

(* A request that has a devfs to unmount finds one mounted. *)
LEMMA MountedIsThere ==
    ASSUME TypeOK, MountsCounted, NEW t \in Threads, pc[t] \in MountedPCs
    PROVE  mounts[jail[t]] # 0
<1> DEFINE j == jail[t]
<1>1. j \in Jails
  BY DEF TypeOK, MountedPCs, WorkingPCs, RunPCs
<1>2. IsFiniteSet(Mounters(j)) /\ t \in Mounters(j)
  BY <1>1 DEF MountsCounted, Mounters
<1>3. Cardinality(Mounters(j)) \in Nat \ {0}
  BY <1>2, FS_CardinalityType, FS_EmptySet
<1>4. mounts[j] = Cardinality(Mounters(j)) + (IF Resting(j) THEN 1 ELSE 0)
  BY <1>1 DEF MountsCounted
<1> HIDE DEF j
<1>5. mounts[j] # 0
  BY <1>3, <1>4
<1> QED BY <1>5 DEF j

(* What an orderly step does to the devfs instances: it mounts one and has one to unmount,
   or unmounts the one it has, or leaves one to the jail that it has started, or nothing. *)
MountKept(t) == mounts' = mounts /\ (pc'[t] \in MountedPCs <=> pc[t] \in MountedPCs)

(* A devfs is mounted. *)
MountAdded(t) == /\ pc[t] \notin MountedPCs /\ pc'[t] \in MountedPCs
                 /\ mounts' = [mounts EXCEPT ![jail[t]] = @ + 1]

(* A devfs is unmounted. *)
MountTaken(t) == /\ pc[t] \in MountedPCs /\ pc'[t] \notin MountedPCs
                 /\ mounts' = [mounts EXCEPT ![jail[t]] = @ - 1]

(* There is nothing else that an orderly step does to them. *)
LEMMA MountMoves ==
    ASSUME TypeOK, MountsCounted, Orderly, NEW t \in Threads, JailsHeld,
           StartStep(t) \/ UndoStep(t) \/ StopStep(t)
    PROVE  \/ ~JailLeft(t) /\ (MountKept(t) \/ MountAdded(t) \/ MountTaken(t))
           \/ JailLeft(t)
<1> USE DEF Goto, Return, request, host, MountKept, MountAdded, MountTaken
<1> DEFINE Mounted == {"jail_start", "undo_umount", "late_umount", "stop_umount", "move", "rename",
                       "rc", "undo_stop", "late_bridge", "late_destroy", "late_stop",
                       "stop_bridge", "stop_destroy", "stop_remove"}
<1>0. pc \in [Threads -> PCs] /\ MountedPCs = Mounted
  BY DEF TypeOK, MountedPCs, WorkingPCs, RunPCs
<1>a. pc[t] \in MountedPCs => mounts[jail[t]] # 0
  BY MountedIsThere
<1>b. ~MayFail("busy")
  BY DEF Orderly
<1>1. CASE CreateEpair(t) \/ CreateFails(t) \/ SetUpEpair(t)
  BY <1>0, <1>1 DEF CreateEpair, CreateFails, SetUpEpair, JailLeft
<1>2. CASE AddToBridge(t) \/ AddToBridgeFails(t) \/ MountDevfs(t) \/ MountDevfsFails(t)
  BY <1>0, <1>2 DEF AddToBridge, AddToBridgeFails, MountDevfs, MountDevfsFails, JailLeft
<1>3. CASE StartJail(t) \/ StartJailFails(t) \/ MoveToVnet(t) \/ MoveToVnetFails(t)
  BY <1>0, <1>3 DEF StartJail, StartJailFails, MoveToVnet, MoveToVnetFails, JailLeft
<1>4. CASE RenameInJail(t) \/ RenameInJailFails(t) \/ RcFails(t)
  BY <1>0, <1>4 DEF RenameInJail, RenameInJailFails, RcFails, JailLeft
<1>5. CASE RcSucceeds(t)
  BY <1>0, <1>5, StepIsLocal DEF RcSucceeds, JailLeft, TypeOK
<1>6. CASE UndoStop(t) \/ StopRemove(t)
  BY <1>0, <1>6 DEF UndoStop, StopRemove, JailLeft
<1>7. CASE UndoUmount(t) \/ LateUmount(t)
  BY <1>0, <1>7, <1>a, <1>b DEF UndoUmount, LateUmount, TryUmount, Umount, JailLeft
<1>8. CASE UndoBridge(t) \/ UndoDestroy(t) \/ LateBridge(t) \/ LateDestroy(t)
  BY <1>0, <1>8 DEF UndoBridge, UndoDestroy, LateBridge, LateDestroy, JailLeft
<1>9. CASE StopBridge(t) \/ StopDestroy(t)
  BY <1>0, <1>9 DEF StopBridge, StopDestroy, JailLeft
<1>10. CASE StopCallFails(t)
  <2>1. JailsKept(t) \/ JailLeft(t) \/ JailStarted(t) \/ JailRemoved(t)
    BY JailMoves
  <2>2. pc[t] \in {"stop_bridge", "stop_destroy", "stop_remove"} /\ pc'[t] = "idle" /\ UNCHANGED running
    BY <1>0, <1>10 DEF StopCallFails, kernel
  <2> QED BY <2>1, <2>2 DEF JailsKept, JailLeft, JailStarted, JailRemoved, WorkingPCs, RunPCs
<1>11. CASE StopUmount(t) \/ StopUmountGivesUp(t)
  BY <1>0, <1>11, <1>a, <1>b DEF StopUmount, StopUmountGivesUp, Umount, JailLeft
<1> QED BY <1>1, <1>2, <1>3, <1>4, <1>5, <1>6, <1>7, <1>8, <1>9, <1>10, <1>11
        DEF StartStep, UndoStep, StopStep

(* Counting the requests with a devfs before and after a step of t. *)
LEMMA MountersStep ==
    ASSUME NEW t \in Threads, NEW j, IsFiniteSet(Mounters(j)),
           \A s \in Threads : s # t => pc'[s] = pc[s] /\ jail'[s] = jail[s]
    PROVE  /\ IsFiniteSet(Mounters(j)') /\ Cardinality(Mounters(j)) \in Nat
           /\ Cardinality(Mounters(j)') =
                 IF t \in Mounters(j)
                 THEN IF t \in Mounters(j)' THEN Cardinality(Mounters(j)) ELSE Cardinality(Mounters(j)) - 1
                 ELSE IF t \in Mounters(j)' THEN Cardinality(Mounters(j)) + 1 ELSE Cardinality(Mounters(j))
<1>1. CASE t \in Mounters(j) <=> t \in Mounters(j)'
  <2>1. Mounters(j)' = Mounters(j)
    BY <1>1 DEF Mounters
  <2> QED BY <1>1, <2>1, FS_CardinalityType
<1>2. CASE t \in Mounters(j) /\ t \notin Mounters(j)'
  <2>1. Mounters(j)' = Mounters(j) \ {t}
    BY <1>2 DEF Mounters
  <2> QED BY <1>2, <2>1, FS_CardinalityType, FS_RemoveElement
<1>3. CASE t \notin Mounters(j) /\ t \in Mounters(j)'
  <2>1. Mounters(j)' = Mounters(j) \union {t}
    BY <1>3 DEF Mounters
  <2> QED BY <1>3, <2>1, FS_CardinalityType, FS_AddElement
<1> QED BY <1>1, <1>2, <1>3

(* Every devfs is of a request that will unmount it, or of a jail that rests. *)
LEMMA MountsCountedStep ==
    ASSUME TypeOK, JidsDistinct, JidLate, AsAsked, JailsHeld, MountsCounted,
           Orderly, [Next]_vars
    PROVE  MountsCounted'
<1>0. mounts \in [Jails -> 0..MaxMounts]
  BY DEF TypeOK
<1>1. CASE UNCHANGED vars
  BY <1>1 DEF vars, request, host, kernel, MountsCounted, Mounters, Resting
<1>2. ASSUME NEW t \in Threads, StartStep(t) \/ UndoStep(t) \/ StopStep(t)
      PROVE  MountsCounted'
  <2> SUFFICES ASSUME NEW j \in Jails
               PROVE  /\ IsFiniteSet(Mounters(j)')
                      /\ mounts'[j] = Cardinality(Mounters(j)') + (IF Resting(j)' THEN 1 ELSE 0)
    BY DEF MountsCounted
  <2>1. /\ \A s \in Threads : s # t => pc'[s] = pc[s] /\ jail'[s] = jail[s]
        /\ jail'[t] = jail[t] \/ pc'[t] = "idle"
    BY <1>2, StepIsLocal
  <2>2. /\ IsFiniteSet(Mounters(j))
        /\ mounts[j] = Cardinality(Mounters(j)) + (IF Resting(j) THEN 1 ELSE 0)
    BY DEF MountsCounted
  <2>3. /\ IsFiniteSet(Mounters(j)') /\ Cardinality(Mounters(j)) \in Nat
        /\ Cardinality(Mounters(j)') =
              IF t \in Mounters(j)
              THEN IF t \in Mounters(j)' THEN Cardinality(Mounters(j)) ELSE Cardinality(Mounters(j)) - 1
              ELSE IF t \in Mounters(j)' THEN Cardinality(Mounters(j)) + 1 ELSE Cardinality(Mounters(j))
    BY <2>1, <2>2, MountersStep
  <2>4. Resting(j)' <=> Resting(j) \/ (JailLeft(t) /\ j = jail[t])
    BY <1>2, RestingStep
  <2>5. \/ ~JailLeft(t) /\ (MountKept(t) \/ MountAdded(t) \/ MountTaken(t))
        \/ JailLeft(t)
    BY <1>2, MountMoves
  <2>6. "idle" \notin MountedPCs
    BY DEF MountedPCs, WorkingPCs, RunPCs
  <2>7. CASE j # jail[t]
    <3>1. t \notin Mounters(j) /\ t \notin Mounters(j)'
      BY <2>1, <2>6, <2>7 DEF Mounters
    <3>2. mounts'[j] = mounts[j]
      BY <1>0, <2>5, <2>7 DEF MountKept, MountAdded, MountTaken, JailLeft, host
    <3> QED BY <2>2, <2>3, <2>4, <2>7, <3>1, <3>2
  <2>8. CASE j = jail[t]
    <3>1. (t \in Mounters(j) <=> pc[t] \in MountedPCs) /\ (t \in Mounters(j)' <=> pc'[t] \in MountedPCs)
      BY <2>1, <2>6, <2>8 DEF Mounters
    <3>2. CASE ~JailLeft(t) /\ MountKept(t)
      BY <2>2, <2>3, <2>4, <3>1, <3>2 DEF MountKept
    <3>3. CASE ~JailLeft(t) /\ MountAdded(t)
      <4>1. mounts'[j] = mounts[j] + 1
        BY <1>0, <2>8, <3>3 DEF MountAdded
      <4>2. t \notin Mounters(j) /\ t \in Mounters(j)'
        BY <3>1, <3>3 DEF MountAdded
      <4> QED BY <2>2, <2>3, <2>4, <3>3, <4>1, <4>2
    <3>4. CASE ~JailLeft(t) /\ MountTaken(t)
      <4>1. mounts'[j] = mounts[j] - 1
        BY <1>0, <2>8, <3>4 DEF MountTaken
      <4>2. t \in Mounters(j) /\ t \notin Mounters(j)'
        BY <3>1, <3>4 DEF MountTaken
      <4> QED BY <2>2, <2>3, <2>4, <3>4, <4>1, <4>2
    <3>5. CASE JailLeft(t)
      <4>1. mounts'[j] = mounts[j]
        BY <3>5 DEF JailLeft, host
      <4>2. t \in Mounters(j) /\ t \notin Mounters(j)'
        BY <2>6, <3>1, <3>5 DEF JailLeft, MountedPCs, WorkingPCs, RunPCs
      <4>3. ~Resting(j)
        BY <2>8, <3>5 DEF JailLeft, JailsHeld, WorkingPCs, RunPCs, Resting
      <4> QED BY <2>2, <2>3, <2>4, <2>8, <3>5, <4>1, <4>2, <4>3
    <3> QED BY <2>5, <3>2, <3>3, <3>4, <3>5
  <2> QED BY <2>7, <2>8
<1>3. ASSUME NEW t \in Threads, NEW i \in Jails, BeginStart(t, i) \/ BeginStop(t, i)
      PROVE  MountsCounted'
  <2> SUFFICES ASSUME NEW j \in Jails
               PROVE  /\ IsFiniteSet(Mounters(j)')
                      /\ mounts'[j] = Cardinality(Mounters(j)') + (IF Resting(j)' THEN 1 ELSE 0)
    BY DEF MountsCounted
  <2>1. /\ pc[t] = "idle" /\ jail'[t] = i /\ UNCHANGED mounts
        /\ \A s \in Threads : s # t => pc'[s] = pc[s] /\ jail'[s] = jail[s]
        /\ pc'[t] \in {"create", "stop_bridge"}
    BY <1>3, BeginIsLocal DEF host
  <2>2. /\ IsFiniteSet(Mounters(j))
        /\ mounts[j] = Cardinality(Mounters(j)) + (IF Resting(j) THEN 1 ELSE 0)
    BY DEF MountsCounted
  <2>3. /\ IsFiniteSet(Mounters(j)') /\ Cardinality(Mounters(j)) \in Nat
        /\ Cardinality(Mounters(j)') =
              IF t \in Mounters(j)
              THEN IF t \in Mounters(j)' THEN Cardinality(Mounters(j)) ELSE Cardinality(Mounters(j)) - 1
              ELSE IF t \in Mounters(j)' THEN Cardinality(Mounters(j)) + 1 ELSE Cardinality(Mounters(j))
    BY <2>1, <2>2, MountersStep
  <2>4. /\ Resting(j)' <=> Resting(j) /\ (j = i => pc'[t] = "create")
        /\ pc'[t] = "stop_bridge" => Resting(i)
    BY <1>3, RestingBegin
  <2>5. t \notin Mounters(j) /\ (t \in Mounters(j)' <=> pc'[t] = "stop_bridge" /\ j = i)
    BY <2>1 DEF Mounters, MountedPCs, WorkingPCs, RunPCs
  <2>6. "create" # "stop_bridge"
    OBVIOUS
  <2>7. CASE pc'[t] = "stop_bridge" /\ j = i
    BY <2>1, <2>2, <2>3, <2>4, <2>5, <2>6, <2>7
  <2>8. CASE ~(pc'[t] = "stop_bridge" /\ j = i)
    BY <2>1, <2>2, <2>3, <2>4, <2>5, <2>8
  <2> QED BY <2>7, <2>8
<1> QED BY <1>1, <1>2, <1>3 DEF Next, Step

(* Whoever keeps out of others' jails starts out of them. *)
LEMMA NobodyMeddlesInit == Init => NobodyMeddles /\ EpairsHeld
<1> SUFFICES ASSUME Init PROVE NobodyMeddles /\ EpairsHeld
  OBVIOUS
<1>1. /\ \A t \in Threads : pc[t] = "idle" /\ jid[t] = None
      /\ \A j \in Jails : running[j] = None /\ mounts[j] = 0
      /\ \A u \in Units : vnet[u] = None
  BY DEF Init
<1>2. \A j \in Jails : ~Resting(j) /\ Mounters(j) = {}
  BY <1>1 DEF Resting, Mounters, MountedPCs, WorkingPCs, RunPCs
<1>3. AsAsked /\ JailsHeld /\ NotRunning
  BY <1>1 DEF AsAsked, JailsHeld, NotRunning, WorkingPCs, BuildPCs, RunPCs, UndoPCs
<1>4. EpairsPlaced
  BY <1>1 DEF EpairsPlaced, EpairPlaced, OwningPCs, WorkingPCs, BuildPCs, RunPCs, UndoPCs
<1>5. EpairsOwned /\ JailsNetworked
  BY <1>1, <1>2 DEF EpairsOwned, JailsNetworked, OwningPCs, WorkingPCs, BuildPCs, RunPCs, UndoPCs
<1>6. MountsCounted
  BY <1>1, <1>2, FS_EmptySet DEF MountsCounted
<1> QED BY <1>3, <1>4, <1>5, <1>6 DEF NobodyMeddles, EpairsHeld

(* Nobody comes to meddle. *)
LEMMA NobodyMeddlesStep ==
    ASSUME Inv, Orderly, [Next]_vars
    PROVE  NobodyMeddles'
<1>1. /\ TypeOK /\ JidsDistinct /\ JidLate /\ RecordMatches
      /\ AsAsked /\ JailsHeld /\ NotRunning /\ MountsCounted
  BY DEF Inv, NobodyMeddles
<1>2. AsAsked' /\ JailsHeld' /\ NotRunning'
  BY <1>1, AsAskedStep, JailsHeldStep, NotRunningStep
<1>3. MountsCounted'
  BY <1>1, MountsCountedStep
<1> QED BY <1>2, <1>3 DEF NobodyMeddles

(* And while epairs go when told, each has one owner. *)
LEMMA EpairsHeldStep ==
    ASSUME Inv, Orderly, EpairsGo, [Next]_vars
    PROVE  EpairsHeld'
<1>1. /\ TypeOK /\ JidsDistinct /\ JidLate /\ RecordMatches /\ AsAsked /\ JailsHeld
      /\ EpairsPlaced /\ EpairsOwned /\ JailsNetworked
  BY DEF Inv, NobodyMeddles, EpairsHeld
<1> QED BY <1>1, EpairsPlacedStep, EpairsOwnedStep, JailsNetworkedStep DEF EpairsHeld

-----------------------------------------------------------------------------
(* Inv is inductive. *)
THEOREM InvHolds == Spec => []Inv
<1>1. Init => Inv
  <2> SUFFICES ASSUME Init PROVE Inv
    OBVIOUS
  <2>1. TypeOK
    BY UnitsAssumption, Bounds
       DEF Init, NetInit, TypeOK, NetTypeOK, PCs, None
  <2>2. JidsDistinct /\ JidLate /\ RecordMatches /\ EpairAnswered
    BY DEF Init, NetInit, JidsDistinct, JidLate, RecordMatches, EpairAnswered, None
  <2> QED BY <2>1, <2>2, NobodyMeddlesInit DEF Inv
<1>2. Inv /\ [Next]_vars => Inv'
  <2> SUFFICES ASSUME Inv, [Next]_vars PROVE Inv'
    OBVIOUS
  <2>1. TypeOK'
    BY TypeStep DEF Inv
  <2>2. JidFacts'
    BY JidStep DEF Inv, JidFacts
  <2>3. EpairAnswered'
    BY AnsweredStep
  <2>4. Orderly' => NobodyMeddles'
    BY ScenarioKept, NobodyMeddlesStep
  <2>5. Orderly' /\ EpairsGo' => EpairsHeld'
    BY ScenarioKept, EpairsHeldStep
  <2> QED BY <2>1, <2>2, <2>3, <2>4, <2>5 DEF Inv, JidFacts
<1> QED BY <1>1, <1>2, PTL DEF Spec

(* Whatever host calls fail and however the requests interleave, an epair that start
   has created is forgotten only when the bridge_delete or the destroy of its own
   clean-up fails on it. *)
THEOREM EpairsNeverForgotten == Spec => []NoOrphanEpair
<1>1. Inv => NoOrphanEpair
  BY DEF Inv, EpairAnswered, Answers, NoOrphanEpair, Destroying, Unbridged,
         Bridged, UndoPCs
<1> QED BY <1>1, InvHolds, PTL

(* While nobody meddles with others' jails, a jail that no request is working on is
   wholly there, its one devfs and, while epairs go when told, its network and its vnet,
   or wholly gone. *)
THEOREM SettledIsWholeOrGone == Spec => []SettledJail
<1>1. Inv => SettledJail
  <2> SUFFICES ASSUME Inv, Orderly, NEW j \in Jails, Settled(j)
               PROVE  IF running[j] # None THEN mounts[j] = 1 /\ (EpairsGo => Networked(j))
                                           ELSE mounts[j] = 0
    BY DEF SettledJail
  <2>1. JailsHeld /\ (EpairsGo => JailsNetworked) /\ MountsCounted
    BY DEF Inv, NobodyMeddles, EpairsHeld
  <2>2. \A t \in Threads : pc[t] \in MountedPCs => jail[t] # j
    BY DEF Settled, MountedPCs, WorkingPCs, RunPCs
  <2>3. Mounters(j) = {}
    BY <2>2 DEF Mounters
  <2>4. mounts[j] = IF Resting(j) THEN 1 ELSE 0
    BY <2>1, <2>3, FS_EmptySet DEF MountsCounted
  <2>5. running[j] # None => Resting(j)
    BY <2>1, <2>2 DEF Resting, JailsHeld, MountedPCs
  <2>6. Resting(j) => running[j] # None
    BY DEF Resting
  <2> QED BY <2>1, <2>4, <2>5, <2>6 DEF JailsNetworked
<1> QED BY <1>1, InvHolds, PTL

(* A start that fails takes its jail back, whichever call of it failed: no other request
   starts the jail meanwhile. *)
THEOREM FailedStartsAreUndone == Spec => FailedStartLeavesNoJail
<1>1. Inv /\ [Next]_vars =>
        \A t \in Threads :
          /\ Orderly /\ (\A s \in Threads \ {t} : ~Asked(s, "start", jail[t]))
          /\ pc[t] \in {"create"} \union UndoPCs \union LatePCs
          /\ pc'[t] = "idle"
          => running'[jail[t]] = None
  <2> SUFFICES ASSUME Inv, [Next]_vars, NEW t \in Threads, Orderly,
                      \A s \in Threads \ {t} : ~Asked(s, "start", jail[t]),
                      pc[t] \in {"create"} \union UndoPCs \union LatePCs, pc'[t] = "idle"
               PROVE  running'[jail[t]] = None
    OBVIOUS
  <2>1. TypeOK /\ JailsHeld /\ NotRunning
    BY DEF Inv, NobodyMeddles
  <2>2. pc[t] # "idle"
    BY DEF UndoPCs, LatePCs
  <2>3. StartStep(t) \/ UndoStep(t) \/ StopStep(t)
    <3>1. CASE UNCHANGED vars
      BY <2>2, <3>1 DEF vars
    <3>2. ASSUME NEW s \in Threads, NEW j \in Jails, BeginStart(s, j) \/ BeginStop(s, j)
          PROVE  FALSE
      BY <2>1, <2>2, <3>2, BeginIsLocal
    <3>3. ASSUME NEW s \in Threads, s # t, StartStep(s) \/ UndoStep(s) \/ StopStep(s)
          PROVE  FALSE
      BY <2>1, <2>2, <3>3, StepIsLocal
    <3> QED BY <3>1, <3>2, <3>3 DEF Next, Step
  <2>4. JailsKept(t)
    <3>1. ~JailLeft(t) /\ ~JailStarted(t) /\ ~JailRemoved(t)
      BY DEF JailLeft, JailStarted, JailRemoved, UndoPCs, LatePCs
    <3> QED BY <2>1, <2>3, <3>1, JailMoves
  <2>5. pc[t] \in {"create", "late_umount"} \union (UndoPCs \ {"undo_stop"})
    BY <2>4 DEF JailsKept, WorkingPCs, RunPCs, UndoPCs, LatePCs
  <2>6. running[jail[t]] = None
    BY <2>1, <2>5 DEF NotRunning
  <2> QED BY <2>4, <2>6 DEF JailsKept
<1> QED BY <1>1, InvHolds, PTL DEF Spec, FailedStartLeavesNoJail
=============================================================================
