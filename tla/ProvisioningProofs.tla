------------------------- MODULE ProvisioningProofs -------------------------
(* The provisioned flag is honest, up runs the provisioners once and delivers, *)
(* mounts are balanced and roots stay: for every set of services and clients,  *)
(* and every set of failing calls that the property names.                     *)
EXTENDS Provisioning, TLAPS

(* What the proofs use of the assumption on the bound. *)
LEMMA MountBound == MaxMounts \in Nat \ {0}
  BY ProvisioningAssumption

(* Every step preserves the types. *)
LEMMA TypeStep == TypeOK /\ [Next]_vars => TypeOK'
<1> USE MountBound DEF TypeOK, Set, Goto, End, Labels, dataset, host, request
<1> SUFFICES ASSUME TypeOK, [Next]_vars
             PROVE  TypeOK'
  OBVIOUS
<1>1. CASE UNCHANGED vars
  BY <1>1 DEF vars
<1>2. ASSUME NEW t \in Threads, NEW o \in Ops, NEW n \in Names, Begin(t, o, n),
             UNCHANGED scenario
      PROVE  TypeOK'
  <2>1. FirstLabel[o] \in Labels
    BY DEF FirstLabel, Ops
  <2>2. (o = "up" /\ n \in running) \in BOOLEAN
    OBVIOUS
  <2> QED BY <1>2, <2>1, <2>2 DEF Begin
<1>3. ASSUME NEW t \in Threads, Step(t), UNCHANGED request, UNCHANGED scenario
      PROVE  TypeOK'
  <2> USE <1>3 DEF Fail, Created, Started, Stopped
  <2>1. CASE LookForPath(t) \/ CheckFree(t) \/ CheckFails(t)
    BY <2>1 DEF LookForPath, CheckFree, CheckFails
  <2>2. CASE ZfsCreate(t) \/ SetProperties(t)
    BY <2>2 DEF ZfsCreate, SetProperties
  <2>3. CASE CreateMountsDevfs(t)
    BY <2>3 DEF CreateMountsDevfs
  <2>4. CASE Install(t) \/ Configure(t)
    BY <2>4 DEF Install, Configure
  <2>5. CASE CreateUnmountsDevfs(t)
    BY <2>5 DEF CreateUnmountsDevfs
  <2>6. CASE CreateFails(t) \/ UpFails(t) \/ StartFails(t) \/ StopFails(t) \/ ZfsDestroyFails(t)
    BY <2>6 DEF CreateFails, UpFails, StartFails, StopFails, ZfsDestroyFails
  <2>7. CASE SetEnabled(t)
    BY <2>7 DEF SetEnabled, AfterEnabling
  <2>8. CASE MountDevelop(t)
    BY <2>8 DEF MountDevelop
  <2>9. CASE Start(t) \/ ReadFlag(t)
    BY <2>9 DEF Start, ReadFlag
  <2>10. CASE StartInner(t)
    BY <2>10 DEF StartInner
  <2>11. CASE Provision(t) \/ SetFlag(t)
    BY <2>11 DEF Provision, SetFlag
  <2>12. CASE StopRunning(t) \/ StopGivesUp(t)
    BY <2>12 DEF StopRunning, StopGivesUp
  <2>13. CASE StopStopped(t)
    BY <2>13 DEF StopStopped
  <2>14. CASE UnmountDevelop(t)
    BY <2>14 DEF UnmountDevelop
  <2>15. CASE ZfsDestroy(t)
    BY <2>15 DEF ZfsDestroy
  <2> QED BY <1>3, <2>1, <2>2, <2>3, <2>4, <2>5, <2>6, <2>7, <2>8, <2>9, <2>10, <2>11,
             <2>12, <2>13, <2>14, <2>15 DEF Step
<1> QED BY <1>1, <1>2, <1>3 DEF Next

-----------------------------------------------------------------------------
(* A jail that may be destroyed under somebody's hands is not Kept. *)
LEMMA DestroyedAlone ==
  ASSUME TypeOK, NEW t \in Threads, NEW u \in Threads, t # u,
         Asks(t, "destroy", name[t]), Asks(u, op[u], name[u]), name[u] = name[t]
  PROVE  ~Kept(name[t])
<1>1. "destroy" \in Ops /\ op[u] \in Ops
  BY DEF TypeOK, Ops
<1> QED BY <1>1 DEF Kept, Solo, Undestroyed

(* What the steps other than ZfsDestroy leave alone. *)
LEMMA NothingForgotten ==
  ASSUME TypeOK, NEW t \in Threads, Step(t), UNCHANGED request, ~ZfsDestroy(t)
  PROVE  /\ \A n \in Names : configured[n] => configured'[n]
         /\ \A n \in Names : provisioned'[n] =>
               provisioned[n] \/ (pc[t] = "set_flag" /\ n = name[t])
<1> USE DEF TypeOK, Set, Goto, End, dataset, host, request, Fail, Created, Started, Stopped
<1>1. CASE LookForPath(t) \/ CheckFree(t) \/ CheckFails(t)
  BY <1>1 DEF LookForPath, CheckFree, CheckFails
<1>2. CASE ZfsCreate(t) \/ SetProperties(t)
  BY <1>2 DEF ZfsCreate, SetProperties
<1>3. CASE CreateMountsDevfs(t) \/ CreateUnmountsDevfs(t)
  BY <1>3 DEF CreateMountsDevfs, CreateUnmountsDevfs
<1>4. CASE Install(t) \/ Configure(t)
  BY <1>4 DEF Install, Configure
<1>5. CASE CreateFails(t) \/ UpFails(t) \/ StartFails(t) \/ StopFails(t) \/ ZfsDestroyFails(t)
  BY <1>5 DEF CreateFails, UpFails, StartFails, StopFails, ZfsDestroyFails
<1>6. CASE SetEnabled(t) \/ MountDevelop(t) \/ Start(t) \/ StartInner(t) \/ ReadFlag(t)
  BY <1>6 DEF SetEnabled, MountDevelop, Start, StartInner, ReadFlag
<1>7. CASE Provision(t) \/ SetFlag(t)
  BY <1>7 DEF Provision, SetFlag
<1>8. CASE StopRunning(t) \/ StopGivesUp(t) \/ StopStopped(t) \/ UnmountDevelop(t)
  BY <1>8 DEF StopRunning, StopGivesUp, StopStopped, UnmountDevelop
<1> QED BY <1>1, <1>2, <1>3, <1>4, <1>5, <1>6, <1>7, <1>8 DEF Step

(* Only a request to destroy comes to zfs destroy, and only Provision to the
   flag; everybody else stays where they are. *)
LEMMA Arrivals ==
  ASSUME TypeOK, NEW t \in Threads, Step(t), UNCHANGED request
  PROVE  /\ pc[t] # "idle"
         /\ \A u \in Threads : u # t => pc'[u] = pc[u]
         /\ pc'[t] = "set_flag" => Provision(t)
         /\ pc'[t] = "zfs_destroy" => op[t] = "destroy"
<1> USE DEF TypeOK, Set, Goto, End, Fail, Created, Started, Stopped
<1>1. CASE LookForPath(t) \/ CheckFree(t) \/ CheckFails(t)
  BY <1>1 DEF LookForPath, CheckFree, CheckFails
<1>2. CASE ZfsCreate(t) \/ SetProperties(t)
  BY <1>2 DEF ZfsCreate, SetProperties
<1>3. CASE CreateMountsDevfs(t) \/ CreateUnmountsDevfs(t)
  BY <1>3 DEF CreateMountsDevfs, CreateUnmountsDevfs
<1>4. CASE Install(t) \/ Configure(t)
  BY <1>4 DEF Install, Configure
<1>5. CASE CreateFails(t) \/ UpFails(t) \/ StartFails(t) \/ StopFails(t) \/ ZfsDestroyFails(t)
  BY <1>5 DEF CreateFails, UpFails, StartFails, StopFails, ZfsDestroyFails
<1>6. CASE SetEnabled(t) \/ MountDevelop(t)
  BY <1>6 DEF SetEnabled, AfterEnabling, MountDevelop
<1>7. CASE Start(t) \/ StartInner(t) \/ ReadFlag(t)
  BY <1>7 DEF Start, StartInner, ReadFlag
<1>8. CASE Provision(t) \/ SetFlag(t)
  BY <1>8 DEF Provision, SetFlag
<1>9. CASE StopRunning(t) \/ StopGivesUp(t) \/ StopStopped(t)
  BY <1>9 DEF StopRunning, StopGivesUp, StopStopped
<1>10. CASE UnmountDevelop(t) \/ ZfsDestroy(t)
  BY <1>10 DEF UnmountDevelop, ZfsDestroy
<1> QED BY <1>1, <1>2, <1>3, <1>4, <1>5, <1>6, <1>7, <1>8, <1>9, <1>10 DEF Step

(* Only start_inner starts a jail, which has a root; only ZfsDestroy takes one, and a
   request comes to zfs destroy with its jail stopped. *)
LEMMA RootsAndRunning ==
  ASSUME TypeOK, NEW t \in Threads, Step(t), UNCHANGED request
  PROVE  /\ \/ running' \subseteq running
            \/ Exists(name[t]) /\ running' = running \union {name[t]} /\ pc'[t] # "zfs_destroy"
         /\ ~ZfsDestroy(t) => \A n \in Names : Exists(n) => contents'[n] # "none"
         /\ pc'[t] = "zfs_destroy" => name[t] \notin running'
<1> USE DEF TypeOK, Set, Goto, End, dataset, host, request, Fail, Created, Started, Stopped, Exists
<1>1. CASE LookForPath(t) \/ CheckFree(t) \/ CheckFails(t)
  BY <1>1 DEF LookForPath, CheckFree, CheckFails
<1>2. CASE ZfsCreate(t) \/ SetProperties(t)
  BY <1>2 DEF ZfsCreate, SetProperties
<1>3. CASE CreateMountsDevfs(t) \/ CreateUnmountsDevfs(t)
  BY <1>3 DEF CreateMountsDevfs, CreateUnmountsDevfs
<1>4. CASE Install(t) \/ Configure(t)
  BY <1>4 DEF Install, Configure
<1>5. CASE CreateFails(t) \/ UpFails(t) \/ StartFails(t) \/ StopFails(t) \/ ZfsDestroyFails(t)
  BY <1>5 DEF CreateFails, UpFails, StartFails, StopFails, ZfsDestroyFails
<1>6. CASE SetEnabled(t) \/ MountDevelop(t) \/ Start(t) \/ ReadFlag(t)
  BY <1>6 DEF SetEnabled, AfterEnabling, MountDevelop, Start, ReadFlag
<1>7. CASE StartInner(t)
  BY <1>7 DEF StartInner
<1>8. CASE Provision(t) \/ SetFlag(t)
  BY <1>8 DEF Provision, SetFlag
<1>9. CASE StopRunning(t) \/ StopGivesUp(t) \/ StopStopped(t)
  BY <1>9 DEF StopRunning, StopGivesUp, StopStopped
<1>10. CASE UnmountDevelop(t) \/ ZfsDestroy(t)
  BY <1>10 DEF UnmountDevelop, ZfsDestroy
<1> QED BY <1>1, <1>2, <1>3, <1>4, <1>5, <1>6, <1>7, <1>8, <1>9, <1>10 DEF Step

(* A jail of one client is started and destroyed by the same thread. *)
LEMMA RootStep ==
  ASSUME Inv, NEW t \in Threads, Step(t), UNCHANGED request, UNCHANGED scenario
  PROVE  RunsFromItsRoot' /\ StoppedFirst'
<1> USE DEF Inv
<1>1. /\ \A n \in Names : Solo(n)' <=> Solo(n)
      /\ \A u \in Threads : name[u] \in Names /\ op[u] \in Ops /\ name'[u] = name[u]
  BY DEF Solo, Asks, TypeOK, request
<1>2. \A u \in Threads : pc[u] # "idle" /\ name[u] = name[t] /\ Solo(name[t]) => u = t
  BY <1>1, Arrivals DEF ProvisionedFirst, Solo
<1>3. running \subseteq Names /\ running' \subseteq Names
  BY RootsAndRunning DEF TypeOK
<1>4. RunsFromItsRoot'
  <2>1. CASE ZfsDestroy(t)
    BY <2>1, <1>1, <1>3 DEF ZfsDestroy, Set, TypeOK, RunsFromItsRoot, StoppedFirst, Exists
  <2>2. CASE ~ZfsDestroy(t)
    BY <2>2, <1>1, <1>3, RootsAndRunning DEF RunsFromItsRoot, Exists
  <2> QED BY <2>1, <2>2
<1>5. StoppedFirst'
  <2> SUFFICES ASSUME NEW u \in Threads, pc'[u] = "zfs_destroy", Solo(name[u])
               PROVE  name[u] \notin running'
    BY <1>1 DEF StoppedFirst
  <2>1. CASE u = t
    BY <2>1, RootsAndRunning
  <2>2. CASE u # t
    <3>1. pc[u] = "zfs_destroy" /\ name[u] # name[t]
      BY <2>2, <1>2, Arrivals
    <3> QED BY <3>1, RootsAndRunning DEF StoppedFirst
  <2> QED BY <2>1, <2>2
<1> QED BY <1>4, <1>5

(* A step of t concerns the service of its request alone. *)
LEMMA OthersUntouched ==
  ASSUME TypeOK, NEW t \in Threads, Step(t), UNCHANGED request, NEW n \in Names, n # name[t]
  PROVE  /\ contents'[n] = contents[n] /\ enabled'[n] = enabled[n]
         /\ provisioned'[n] = provisioned[n] /\ configured'[n] = configured[n]
         /\ n \in running' <=> n \in running
         /\ devfs'[n] = devfs[n] /\ develop'[n] = develop[n]
<1> USE DEF TypeOK, Set, dataset, host, Fail
<1>1. CASE LookForPath(t) \/ CheckFree(t) \/ CheckFails(t)
  BY <1>1 DEF LookForPath, CheckFree, CheckFails
<1>2. CASE ZfsCreate(t) \/ SetProperties(t)
  BY <1>2 DEF ZfsCreate, SetProperties
<1>3. CASE CreateMountsDevfs(t) \/ CreateUnmountsDevfs(t)
  BY <1>3 DEF CreateMountsDevfs, CreateUnmountsDevfs
<1>4. CASE Install(t) \/ Configure(t)
  BY <1>4 DEF Install, Configure
<1>5. CASE CreateFails(t) \/ UpFails(t) \/ StartFails(t) \/ StopFails(t) \/ ZfsDestroyFails(t)
  BY <1>5 DEF CreateFails, UpFails, StartFails, StopFails, ZfsDestroyFails
<1>6. CASE SetEnabled(t) \/ MountDevelop(t)
  BY <1>6 DEF SetEnabled, MountDevelop
<1>7. CASE Start(t) \/ StartInner(t) \/ ReadFlag(t)
  BY <1>7 DEF Start, StartInner, ReadFlag
<1>8. CASE Provision(t) \/ SetFlag(t)
  BY <1>8 DEF Provision, SetFlag
<1>9. CASE StopRunning(t) \/ StopGivesUp(t) \/ StopStopped(t)
  BY <1>9 DEF StopRunning, StopGivesUp, StopStopped
<1>10. CASE UnmountDevelop(t) \/ ZfsDestroy(t)
  BY <1>10 DEF UnmountDevelop, ZfsDestroy
<1> QED BY <1>1, <1>2, <1>3, <1>4, <1>5, <1>6, <1>7, <1>8, <1>9, <1>10 DEF Step

(* The command of a request determines its calls. *)
LEMMA LabelsStep ==
  ASSUME TypeOK, NEW t \in Threads, Step(t), UNCHANGED request, pc[t] \in LabelsOf[op[t]]
  PROVE  pc'[t] = "idle" \/ pc'[t] \in LabelsOf[op[t]]
<1> USE DEF Set, Goto, End, Fail
<1>0. pc \in [Threads -> Labels] /\ op[t] \in Ops
  BY DEF TypeOK
<1>a. /\ op[t] = "up" => LabelsOf[op[t]] = {"path", "check", "set_enabled", "develop", "flag"}
                            \union CreatePCs \union StartPCs \union ProvisionPCs
      /\ op[t] = "down" => LabelsOf[op[t]] = {"stop", "undevelop"}
      /\ op[t] = "provision" => LabelsOf[op[t]] = ProvisionPCs
      /\ op[t] = "create" => LabelsOf[op[t]] = {"check"} \union CreatePCs
      /\ op[t] = "start" => LabelsOf[op[t]] = StartPCs
      /\ op[t] = "stop" => LabelsOf[op[t]] = {"stop"}
      /\ op[t] = "destroy" => LabelsOf[op[t]] = {"stop", "zfs_destroy"}
  BY DEF LabelsOf
<1>b. op[t] \in {"up", "down", "provision", "create", "start", "stop", "destroy"}
  BY <1>0 DEF Ops
<1> USE DEF CreatePCs, StartPCs, ProvisionPCs
<1>1. CASE LookForPath(t) \/ CheckFree(t) \/ CheckFails(t)
  BY <1>0, <1>a, <1>b, <1>1 DEF LookForPath, CheckFree, CheckFails
<1>2. CASE ZfsCreate(t) \/ SetProperties(t)
  BY <1>0, <1>a, <1>b, <1>2 DEF ZfsCreate, SetProperties
<1>3. CASE CreateMountsDevfs(t) \/ Install(t) \/ Configure(t)
  BY <1>0, <1>a, <1>b, <1>3 DEF CreateMountsDevfs, Install, Configure
<1>4. CASE CreateUnmountsDevfs(t)
  BY <1>0, <1>a, <1>b, <1>4 DEF CreateUnmountsDevfs, Created
<1>5. CASE CreateFails(t) \/ UpFails(t) \/ StartFails(t) \/ StopFails(t) \/ ZfsDestroyFails(t)
  BY <1>0, <1>5 DEF CreateFails, UpFails, StartFails, StopFails, ZfsDestroyFails
<1>6. CASE SetEnabled(t) \/ MountDevelop(t)
  BY <1>0, <1>a, <1>b, <1>6 DEF SetEnabled, AfterEnabling, MountDevelop
<1>7. CASE Start(t) \/ StartInner(t)
  BY <1>0, <1>a, <1>b, <1>7 DEF Start, StartInner, Started
<1>8. CASE ReadFlag(t)
  BY <1>0, <1>a, <1>b, <1>8 DEF ReadFlag
<1>9. CASE Provision(t) \/ SetFlag(t)
  BY <1>0, <1>a, <1>b, <1>9 DEF Provision, SetFlag
<1>10. CASE StopRunning(t) \/ StopGivesUp(t)
  BY <1>0, <1>a, <1>b, <1>10 DEF StopRunning, StopGivesUp, Stopped
<1>11. CASE StopStopped(t)
  BY <1>0, <1>a, <1>b, <1>11 DEF StopStopped, Stopped
<1>12. CASE UnmountDevelop(t) \/ ZfsDestroy(t)
  BY <1>0, <1>12 DEF UnmountDevelop, ZfsDestroy
<1> QED BY <1>1, <1>2, <1>3, <1>4, <1>5, <1>6, <1>7, <1>8, <1>9, <1>10, <1>11, <1>12 DEF Step

(* Where a command's calls are: what follows from the label alone. *)
LEMMA LabelFacts ==
  ASSUME TypeOK, NEW t \in Threads, pc[t] \in LabelsOf[op[t]]
  PROVE  /\ pc[t] \in {"path", "set_enabled", "develop", "flag"} => op[t] = "up"
         /\ pc[t] \in CreatePCs => op[t] \in {"up", "create"}
         /\ pc[t] \in StartPCs => op[t] \in {"up", "start"}
         /\ pc[t] \in ProvisionPCs => op[t] \in {"up", "provision"}
         /\ pc[t] = "stop" => op[t] \in {"down", "stop", "destroy"}
         /\ pc[t] = "undevelop" => op[t] = "down"
         /\ pc[t] = "zfs_destroy" => op[t] = "destroy"
<1> USE DEF CreatePCs, StartPCs, ProvisionPCs
<1>1. op[t] \in {"up", "down", "provision", "create", "start", "stop", "destroy"}
  BY DEF TypeOK, Ops
<1>2. CASE op[t] = "up"
  BY <1>2 DEF LabelsOf
<1>3. CASE op[t] = "down" \/ op[t] = "provision"
  BY <1>3 DEF LabelsOf
<1>4. CASE op[t] = "create" \/ op[t] = "start"
  BY <1>4 DEF LabelsOf
<1>5. CASE op[t] = "stop" \/ op[t] = "destroy"
  BY <1>5 DEF LabelsOf
<1> QED BY <1>1, <1>2, <1>3, <1>4, <1>5

(* What a request finds of its jail, after a step of its own. *)
LEMMA FindsJailStep ==
  ASSUME Inv, NEW t \in Threads, Step(t), UNCHANGED request, AtWork(t), Solo(name[t])
  PROVE  FindsJail(t)'
<1> DEFINE Early == {"path", "check", "set_enabled", "develop"} \union CreatePCs \union StartPCs
<1>0. /\ pc \in [Threads -> Labels] /\ was[t] \in BOOLEAN /\ running \subseteq Names
      /\ name'[t] = name[t] /\ op'[t] = op[t] /\ was'[t] = was[t] /\ name[t] \in Names
  BY DEF Inv, TypeOK, request
<1>a. LabelsOf["up"] \ ({"flag"} \union ProvisionPCs) = Early
  BY DEF LabelsOf, CreatePCs, StartPCs, ProvisionPCs
<1>b. /\ pc[t] = "flag" => op[t] = "up"
      /\ pc[t] \in CreatePCs \union {"undevelop"} => name[t] \notin running
      /\ pc[t] = "set_flag" \/ (op[t] = "up" /\ pc[t] \in {"flag", "provision"}) => name[t] \in running
      /\ op[t] = "up" /\ pc[t] \in Early => (was[t] <=> name[t] \in running)
  BY <1>a, LabelFacts DEF Inv, AtWork, FindsJail
<1>c. ~Exists(name[t]) => name[t] \notin running
  BY DEF Inv, RunsFromItsRoot, Exists
<1> SUFFICES /\ pc'[t] \in CreatePCs \union {"undevelop"} => name[t] \notin running'
             /\ pc'[t] = "set_flag" \/ (op[t] = "up" /\ pc'[t] \in {"flag", "provision"})
                   => name[t] \in running'
             /\ op[t] = "up" /\ pc'[t] \in Early => (was[t] <=> name[t] \in running')
  BY <1>0, <1>a DEF FindsJail
<1> USE DEF Set, Goto, End, Fail, host, CreatePCs, StartPCs
<1>1. CASE LookForPath(t) \/ CheckFree(t) \/ CheckFails(t)
  BY <1>0, <1>b, <1>c, <1>1 DEF LookForPath, CheckFree, CheckFails
<1>2. CASE ZfsCreate(t) \/ SetProperties(t)
  BY <1>0, <1>b, <1>2 DEF ZfsCreate, SetProperties
<1>3. CASE CreateMountsDevfs(t) \/ Install(t) \/ Configure(t)
  BY <1>0, <1>b, <1>3 DEF CreateMountsDevfs, Install, Configure
<1>4. CASE CreateUnmountsDevfs(t)
  BY <1>0, <1>b, <1>4 DEF CreateUnmountsDevfs, Created
<1>5. CASE CreateFails(t) \/ UpFails(t) \/ StartFails(t) \/ StopFails(t) \/ ZfsDestroyFails(t)
  BY <1>0, <1>5 DEF CreateFails, UpFails, StartFails, StopFails, ZfsDestroyFails
<1>6. CASE SetEnabled(t) \/ MountDevelop(t)
  BY <1>0, <1>b, <1>6 DEF SetEnabled, AfterEnabling, MountDevelop
<1>7. CASE Start(t) \/ StartInner(t)
  BY <1>0, <1>b, <1>7 DEF Start, StartInner, Started
<1>8. CASE ReadFlag(t) \/ Provision(t) \/ SetFlag(t)
  BY <1>0, <1>b, <1>8 DEF ReadFlag, Provision, SetFlag
<1>9. CASE StopRunning(t) \/ StopGivesUp(t)
  BY <1>0, <1>9 DEF StopRunning, StopGivesUp, Stopped
<1>10. CASE StopStopped(t)
  BY <1>0, <1>10 DEF StopStopped, Stopped
<1>11. CASE UnmountDevelop(t) \/ ZfsDestroy(t)
  BY <1>0, <1>11 DEF UnmountDevelop, ZfsDestroy
<1> QED BY <1>1, <1>2, <1>3, <1>4, <1>5, <1>6, <1>7, <1>8, <1>9, <1>10, <1>11 DEF Step

(* What it finds of its flag. *)
LEMMA FindsFlagStep ==
  ASSUME Inv, NEW t \in Threads, Step(t), UNCHANGED request, UNCHANGED scenario, AtWork(t),
         Solo(name[t])
  PROVE  FindsFlag(t)'
<1> DEFINE n == name[t]
<1>0. /\ pc \in [Threads -> Labels] /\ n \in Names
      /\ contents \in [Names -> {"none", "empty", "base", "complete"}]
      /\ configured \in [Names -> BOOLEAN] /\ provisioned \in [Names -> BOOLEAN]
      /\ name'[t] = n /\ op'[t] = op[t] /\ (May("zfs")' <=> May("zfs"))
      /\ May("read")' <=> May("read")
  BY DEF Inv, TypeOK, request, May
<1>b. /\ pc[t] = "zfs_create" => contents[n] = "none"
      /\ contents[n] = "none" \/ pc[t] = "properties" => ~configured[n]
      /\ ~May("zfs") /\ configured[n] => provisioned[n] \/ pc[t] = "set_flag"
      /\ pc[t] = "set_flag" => n \in running
  BY DEF AtWork, FindsJail, FindsFlag
<1>c. ~Exists(n) => n \notin running
  BY DEF Inv, RunsFromItsRoot, Exists
<1> SUFFICES /\ pc'[t] = "zfs_create" => contents'[n] = "none"
             /\ contents'[n] = "none" \/ pc'[t] = "properties" => ~configured'[n]
             /\ ~May("zfs") /\ configured'[n] => provisioned'[n] \/ pc'[t] = "set_flag"
             /\ ~May("read") /\ op[t] = "up" /\ pc'[t] = "provision" => ~provisioned'[n]
  BY <1>0 DEF FindsFlag
<1> USE DEF Set, Goto, End, Fail, dataset, host, Exists
<1>1. CASE LookForPath(t) \/ CheckFree(t) \/ CheckFails(t)
  BY <1>0, <1>b, <1>1 DEF LookForPath, CheckFree, CheckFails
<1>2. CASE ZfsCreate(t) \/ SetProperties(t)
  BY <1>0, <1>b, <1>2 DEF ZfsCreate, SetProperties
<1>3. CASE CreateMountsDevfs(t) \/ Install(t) \/ Configure(t)
  BY <1>0, <1>b, <1>3 DEF CreateMountsDevfs, Install, Configure
<1>4. CASE CreateUnmountsDevfs(t)
  BY <1>0, <1>b, <1>4 DEF CreateUnmountsDevfs, Created
<1>5. CASE CreateFails(t) \/ UpFails(t) \/ StartFails(t) \/ StopFails(t) \/ ZfsDestroyFails(t)
  BY <1>0, <1>b, <1>c, <1>5 DEF CreateFails, UpFails, StartFails, StopFails, ZfsDestroyFails
<1>6. CASE SetEnabled(t) \/ MountDevelop(t)
  BY <1>0, <1>b, <1>6 DEF SetEnabled, AfterEnabling, MountDevelop
<1>7. CASE Start(t) \/ StartInner(t)
  BY <1>0, <1>b, <1>7 DEF Start, StartInner, Started
<1>8. CASE ReadFlag(t)
  BY <1>0, <1>b, <1>8 DEF ReadFlag, FlagsRead
<1>9. CASE Provision(t) \/ SetFlag(t)
  BY <1>0, <1>b, <1>c, <1>9 DEF Provision, SetFlag
<1>10. CASE StopRunning(t) \/ StopGivesUp(t)
  BY <1>0, <1>b, <1>10 DEF StopRunning, StopGivesUp, Stopped
<1>11. CASE StopStopped(t)
  BY <1>0, <1>b, <1>11 DEF StopStopped, Stopped
<1>12. CASE UnmountDevelop(t) \/ ZfsDestroy(t)
  BY <1>0, <1>b, <1>12 DEF UnmountDevelop, ZfsDestroy
<1> QED BY <1>1, <1>2, <1>3, <1>4, <1>5, <1>6, <1>7, <1>8, <1>9, <1>10, <1>11, <1>12 DEF Step

(* What it finds of its contents, and of the devfs of a jail that is made, when create
   does not fail. *)
LEMMA FindsContentsStep ==
  ASSUME Inv, NEW t \in Threads, Step(t), UNCHANGED request, AtWork(t), Solo(name[t]), ~May("create")
  PROVE  FindsContents(t)'
<1> DEFINE n == name[t]
           Found == IF pc[t] \in {"properties", "create_devfs", "install"} THEN {"empty"}
                    ELSE IF pc[t] = "configure" THEN {"base"}
                    ELSE IF \/ pc[t] = "create_umount"
                            \/ op[t] = "up" /\ pc[t] \notin {"path", "check", "zfs_create"}
                         THEN {"complete"} ELSE {"none", "complete"}
           Building == {"install", "configure", "create_umount"}
<1>0. /\ pc \in [Threads -> Labels] /\ n \in Names
      /\ contents \in [Names -> {"none", "empty", "base", "complete"}]
      /\ devfs \in [Names -> 0..MaxMounts] /\ MaxMounts \in Nat \ {0} /\ running \subseteq Names
      /\ name'[t] = n /\ op'[t] = op[t]
  BY MountBound DEF Inv, TypeOK, request
<1>b. /\ contents[n] \in Found
      /\ contents[n] = "none" \/ pc[t] \in CreatePCs => devfs[n] = Count(pc[t] \in Building)
      /\ pc[t] \in CreatePCs => n \notin running
      /\ pc[t] = "zfs_create" => contents[n] = "none"
      /\ contents[n] = "none" => n \notin running
  BY DEF Inv, RunsFromItsRoot, Exists, AtWork, FindsJail, FindsFlag, FindsContents
<1>c. /\ pc[t] \in {"path", "set_enabled", "develop", "flag"} => op[t] = "up"
      /\ pc[t] \in CreatePCs => op[t] \in {"up", "create"}
      /\ pc[t] \in StartPCs => op[t] \in {"up", "start"}
      /\ pc[t] \in ProvisionPCs => op[t] \in {"up", "provision"}
      /\ pc[t] = "stop" => op[t] \in {"down", "stop", "destroy"}
      /\ pc[t] = "undevelop" => op[t] = "down"
      /\ pc[t] = "zfs_destroy" => op[t] = "destroy"
  BY LabelFacts DEF Inv, AtWork
<1> SUFFICES /\ contents'[n] \in Found'
             /\ contents'[n] = "none" \/ pc'[t] \in CreatePCs
                   => devfs'[n] = Count(pc'[t] \in Building)
  BY <1>0 DEF FindsContents
<1> USE DEF Set, Goto, End, Fail, dataset, host, Exists, Count, CreatePCs, StartPCs
<1>1. CASE LookForPath(t) \/ CheckFree(t) \/ CheckFails(t)
  BY <1>0, <1>b, <1>c, <1>1 DEF LookForPath, CheckFree, CheckFails
<1>2. CASE ZfsCreate(t)
  BY <1>0, <1>b, <1>2 DEF ZfsCreate
<1>2a. CASE SetProperties(t)
  BY <1>0, <1>b, <1>2a DEF SetProperties
<1>3. CASE CreateMountsDevfs(t)
  BY <1>0, <1>b, <1>3 DEF CreateMountsDevfs
<1>3a. CASE Install(t)
  BY <1>0, <1>b, <1>3a DEF Install
<1>3b. CASE Configure(t)
  BY <1>0, <1>b, <1>3b DEF Configure
<1>4. CASE CreateUnmountsDevfs(t)
  BY <1>0, <1>b, <1>c, <1>4 DEF CreateUnmountsDevfs, Created
<1>5. CASE CreateFails(t)
  BY <1>0, <1>b, <1>c, <1>5 DEF CreateFails
<1>5a. CASE UpFails(t)
  BY <1>0, <1>b, <1>c, <1>5a DEF UpFails
<1>5c. CASE StartFails(t)
  BY <1>0, <1>b, <1>c, <1>5c DEF StartFails
<1>5b. CASE StopFails(t) \/ ZfsDestroyFails(t)
  BY <1>0, <1>b, <1>c, <1>5b DEF StopFails, ZfsDestroyFails
<1>6. CASE SetEnabled(t) \/ MountDevelop(t)
  BY <1>0, <1>b, <1>c, <1>6 DEF SetEnabled, AfterEnabling, MountDevelop
<1>7. CASE Start(t)
  BY <1>0, <1>b, <1>c, <1>7 DEF Start, Started
<1>7a. CASE StartInner(t)
  BY <1>0, <1>b, <1>c, <1>7a DEF StartInner, Started
<1>8. CASE ReadFlag(t)
  BY <1>0, <1>b, <1>c, <1>8 DEF ReadFlag
<1>9. CASE Provision(t) \/ SetFlag(t)
  BY <1>0, <1>b, <1>c, <1>9 DEF Provision, SetFlag, ProvisionPCs
<1>10. CASE StopRunning(t) \/ StopGivesUp(t)
  BY <1>0, <1>b, <1>c, <1>10 DEF StopRunning, StopGivesUp, Stopped
<1>11. CASE StopStopped(t)
  BY <1>0, <1>b, <1>c, <1>11 DEF StopStopped, Stopped
<1>12. CASE UnmountDevelop(t)
  BY <1>0, <1>b, <1>c, <1>12 DEF UnmountDevelop
<1>13. CASE ZfsDestroy(t)
  BY <1>0, <1>b, <1>c, <1>13 DEF ZfsDestroy
<1> QED BY <1>1, <1>2, <1>2a, <1>3, <1>3a, <1>3b, <1>4, <1>5, <1>5a, <1>5b, <1>5c, <1>6, <1>7, <1>7a,
           <1>8, <1>9, <1>10, <1>11, <1>12, <1>13 DEF Step

(* What it finds of its contents, and of the devfs of a jail that is made, when create
   does not fail. *)
LEMMA FindsDevfsStep ==
  ASSUME Inv, NEW t \in Threads, Step(t), UNCHANGED request, AtWork(t), Solo(name[t]), CleansUp
  PROVE  FindsDevfs(t)'
<1> DEFINE n == name[t]
           Building == {"install", "configure", "create_umount"}
<1>0. /\ pc \in [Threads -> Labels] /\ n \in Names
      /\ contents \in [Names -> {"none", "empty", "base", "complete"}]
      /\ devfs \in [Names -> 0..MaxMounts] /\ MaxMounts \in Nat \ {0} /\ running \subseteq Names
      /\ name'[t] = n /\ op'[t] = op[t]
  BY MountBound DEF Inv, TypeOK, request
<1>b. /\ devfs[n] = Count(n \in running) + Count(pc[t] \in Building)
      /\ pc[t] \in CreatePCs => n \notin running
      /\ pc[t] = "zfs_create" => contents[n] = "none"
      /\ pc[t] = "zfs_destroy" => n \notin running
      /\ ~May("create") /\ ~May("umount") /\ (~May("start") \/ ~May("stop"))
      /\ contents[n] = "none" => devfs[n] = 0
      /\ op[t] = "up" /\ pc[t] \in {"start_inner", "set_enabled"} => contents[n] = "complete"
      /\ contents[n] \in {"none", "complete"} \/ pc[t] \in CreatePCs
  <2>1. FindsJail(t) /\ FindsFlag(t) /\ FindsContents(t) /\ FindsDevfs(t)
    BY DEF AtWork, CleansUp
  <2>2. pc[t] = "zfs_destroy" => n \notin running
    BY DEF Inv, StoppedFirst
  <2>3. contents[n] = "none" => n \notin running
    BY DEF Inv, RunsFromItsRoot, Exists
  <2>4. contents[n] = "none" => devfs[n] = 0
    BY <1>0, <2>1, <2>3 DEF FindsContents, FindsDevfs, Count
  <2>5. /\ op[t] = "up" /\ pc[t] \in {"start_inner", "set_enabled"} => contents[n] = "complete"
        /\ contents[n] \in {"none", "complete"} \/ pc[t] \in CreatePCs
    BY <2>1 DEF FindsContents, CreatePCs
  <2> QED BY <2>1, <2>2, <2>4, <2>5 DEF FindsJail, FindsFlag, FindsDevfs, CleansUp
<1>c. /\ pc[t] \in {"path", "set_enabled", "develop", "flag"} => op[t] = "up"
      /\ pc[t] \in CreatePCs => op[t] \in {"up", "create"}
      /\ pc[t] \in StartPCs => op[t] \in {"up", "start"}
      /\ pc[t] \in ProvisionPCs => op[t] \in {"up", "provision"}
      /\ pc[t] = "stop" => op[t] \in {"down", "stop", "destroy"}
      /\ pc[t] = "undevelop" => op[t] = "down"
      /\ pc[t] = "zfs_destroy" => op[t] = "destroy"
  BY LabelFacts DEF Inv, AtWork
<1> SUFFICES devfs'[n] = Count(n \in running') + Count(pc'[t] \in Building)
  BY <1>0 DEF FindsDevfs
<1> USE DEF Set, Goto, End, Fail, dataset, host, Exists, Count, CreatePCs, StartPCs
<1>1. CASE LookForPath(t) \/ CheckFree(t) \/ CheckFails(t)
  BY <1>0, <1>b, <1>c, <1>1 DEF LookForPath, CheckFree, CheckFails
<1>2. CASE ZfsCreate(t)
  BY <1>0, <1>b, <1>2 DEF ZfsCreate
<1>2a. CASE SetProperties(t)
  BY <1>0, <1>b, <1>2a DEF SetProperties
<1>3. CASE CreateMountsDevfs(t)
  BY <1>0, <1>b, <1>3 DEF CreateMountsDevfs
<1>3a. CASE Install(t)
  BY <1>0, <1>b, <1>3a DEF Install
<1>3b. CASE Configure(t)
  BY <1>0, <1>b, <1>3b DEF Configure
<1>4. CASE CreateUnmountsDevfs(t)
  BY <1>0, <1>b, <1>c, <1>4 DEF CreateUnmountsDevfs, Created
<1>5. CASE CreateFails(t)
  BY <1>0, <1>b, <1>c, <1>5 DEF CreateFails
<1>5a. CASE UpFails(t)
  BY <1>0, <1>b, <1>c, <1>5a DEF UpFails
<1>5c. CASE StartFails(t)
  BY <1>0, <1>b, <1>c, <1>5c DEF StartFails
<1>5b. CASE StopFails(t) \/ ZfsDestroyFails(t)
  BY <1>0, <1>b, <1>c, <1>5b DEF StopFails, ZfsDestroyFails
<1>6. CASE SetEnabled(t) \/ MountDevelop(t)
  BY <1>0, <1>b, <1>c, <1>6 DEF SetEnabled, AfterEnabling, MountDevelop
<1>7. CASE Start(t)
  BY <1>0, <1>b, <1>c, <1>7 DEF Start, Started
<1>7a. CASE StartInner(t)
  BY <1>0, <1>b, <1>c, <1>7a DEF StartInner, Started
<1>8. CASE ReadFlag(t)
  BY <1>0, <1>b, <1>c, <1>8 DEF ReadFlag
<1>9. CASE Provision(t) \/ SetFlag(t)
  BY <1>0, <1>b, <1>c, <1>9 DEF Provision, SetFlag, ProvisionPCs
<1>10. CASE StopRunning(t) \/ StopGivesUp(t)
  BY <1>0, <1>b, <1>c, <1>10 DEF StopRunning, StopGivesUp, Stopped
<1>11. CASE StopStopped(t)
  BY <1>0, <1>b, <1>c, <1>11 DEF StopStopped, Stopped
<1>12. CASE UnmountDevelop(t)
  BY <1>0, <1>b, <1>c, <1>12 DEF UnmountDevelop
<1>13. CASE ZfsDestroy(t)
  BY <1>0, <1>b, <1>c, <1>13 DEF ZfsDestroy
<1> QED BY <1>1, <1>2, <1>2a, <1>3, <1>3a, <1>3b, <1>4, <1>5, <1>5a, <1>5b, <1>5c, <1>6, <1>7, <1>7a,
           <1>8, <1>9, <1>10, <1>11, <1>12, <1>13 DEF Step

(* What it finds of its sources. *)
LEMMA FindsSourcesStep ==
  ASSUME Inv, NEW t \in Threads, Step(t), UNCHANGED request, UNCHANGED scenario, AtWork(t),
         Solo(name[t])
  PROVE  FindsSources(t)'
<1> DEFINE n == name[t]
           Late == {"develop", "flag", "start", "start_inner", "provision", "set_flag"}
<1>0. /\ pc \in [Threads -> Labels] /\ n \in Names /\ was[t] \in BOOLEAN
      /\ enabled \in [Names -> BOOLEAN]
      /\ develop \in [Names -> 0..MaxMounts] /\ MaxMounts \in Nat \ {0} /\ running \subseteq Names
      /\ name'[t] = n /\ op'[t] = op[t] /\ was'[t] = was[t]
      /\ Developed(n)' <=> Developed(n)
      /\ OnlyUpAndDown(n)' <=> OnlyUpAndDown(n)
      /\ May("create")' <=> May("create")
  BY MountBound DEF Inv, TypeOK, request, Developed, OnlyUpAndDown, CleansUp, May, Asks
<1>b. /\ pc[t] = "undevelop" => Developed(n) /\ n \notin running
      /\ pc[t] = "develop" => Developed(n) /\ ~was[t]
      /\ op[t] = "up" /\ ~May("create") /\ pc[t] \in Late
            => (enabled[n] <=> ~Developed(n)) /\ (Developed(n) /\ pc[t] # "develop" => develop[n] > 0 \/ was[t])
      /\ OnlyUpAndDown(n) =>
            IF pc[t] = "undevelop" THEN develop[n] \in {0, 1}
            ELSE develop[n] = Count(Developed(n) /\ (n \in running \/ pc[t] \in StartPCs))
      /\ pc[t] \in CreatePCs => n \notin running
      /\ op[t] = "up" /\ pc[t] \in {"path", "check", "set_enabled", "develop", "start", "start_inner"}
            => (was[t] <=> n \in running)
      /\ op[t] = "up" /\ pc[t] \in {"flag", "provision", "set_flag"} => n \in running
  <2>1. FindsJail(t) /\ FindsSources(t)
    BY DEF AtWork
  <2>2. LabelsOf["up"] \ ({"flag"} \union ProvisionPCs)
           = {"path", "check", "set_enabled", "develop"} \union CreatePCs \union StartPCs
    BY DEF LabelsOf, CreatePCs, StartPCs, ProvisionPCs
  <2>3. Late = {"develop", "flag"} \union StartPCs \union ProvisionPCs
    BY DEF StartPCs, ProvisionPCs
  <2> HIDE DEF Late
  <2>4. /\ pc[t] = "undevelop" => Developed(n) /\ n \notin running
        /\ pc[t] = "develop" => Developed(n) /\ ~was[t]
    BY <2>1 DEF FindsJail, FindsSources
  <2>5. op[t] = "up" /\ ~May("create") /\ pc[t] \in Late
            => (enabled[n] <=> ~Developed(n)) /\ (Developed(n) /\ pc[t] # "develop" => develop[n] > 0 \/ was[t])
    BY <2>1, <2>3 DEF FindsSources
  <2>6. OnlyUpAndDown(n) =>
            IF pc[t] = "undevelop" THEN develop[n] \in {0, 1}
            ELSE develop[n] = Count(Developed(n) /\ (n \in running \/ pc[t] \in StartPCs))
    BY <2>1 DEF FindsSources
  <2>7. /\ pc[t] \in CreatePCs => n \notin running
        /\ op[t] = "up" /\ pc[t] \in {"path", "check", "set_enabled", "develop", "start", "start_inner"}
              => (was[t] <=> n \in running)
        /\ op[t] = "up" /\ pc[t] \in {"flag", "provision", "set_flag"} => n \in running
    BY <2>1, <2>2 DEF FindsJail, StartPCs
  <2> QED BY <2>4, <2>5, <2>6, <2>7
<1>c. /\ pc[t] \in {"path", "set_enabled", "develop", "flag"} => op[t] = "up"
      /\ pc[t] \in CreatePCs => op[t] \in {"up", "create"}
      /\ pc[t] \in StartPCs => op[t] \in {"up", "start"}
      /\ pc[t] \in ProvisionPCs => op[t] \in {"up", "provision"}
      /\ pc[t] = "stop" => op[t] \in {"down", "stop", "destroy"}
      /\ pc[t] = "undevelop" => op[t] = "down"
      /\ pc[t] = "zfs_destroy" => op[t] = "destroy"
  BY LabelFacts DEF Inv, AtWork
<1>d. OnlyUpAndDown(n) => /\ op[t] \notin {"start", "stop", "destroy"}
                          /\ ~May("start") /\ ~May("create") /\ ~May("umount") /\ CleansUp
  BY Arrivals DEF Inv, ProvisionedFirst, OnlyUpAndDown, CleansUp
<1>e. OnlyUpAndDown(n) /\ pc[t] = "start_inner" /\ n \notin running
         => contents[n] = "complete" /\ ~(devfs[n] >= MaxMounts)
  <2>1. OnlyUpAndDown(n) /\ pc[t] = "start_inner" => FindsContents(t) /\ FindsDevfs(t) /\ op[t] = "up"
    BY <1>c, <1>d DEF AtWork, StartPCs
  <2> QED BY <1>0, <2>1 DEF FindsContents, FindsDevfs, Count
<1>f. OnlyUpAndDown(n) /\ pc[t] = "stop" /\ n \in running => devfs[n] # 0
  <2>1. OnlyUpAndDown(n) => FindsDevfs(t)
    BY <1>d DEF AtWork
  <2> QED BY <2>1 DEF FindsDevfs, Count
<1> SUFFICES /\ pc'[t] = "undevelop" => Developed(n)
             /\ pc'[t] = "develop" => Developed(n) /\ ~was[t]
             /\ op[t] = "up" /\ ~May("create") /\ pc'[t] \in Late
                   => /\ enabled'[n] <=> ~Developed(n)
                      /\ Developed(n) /\ pc'[t] # "develop" => develop'[n] > 0 \/ was[t]
             /\ OnlyUpAndDown(n) =>
                   IF pc'[t] = "undevelop" THEN develop'[n] \in {0, 1}
                   ELSE develop'[n] = Count(Developed(n) /\ (n \in running' \/ pc'[t] \in StartPCs))
  <2>3. Late = {"develop", "flag"} \union StartPCs \union ProvisionPCs
    BY DEF StartPCs, ProvisionPCs
  <2> HIDE DEF Late
  <2> QED BY <1>0, <2>3 DEF FindsSources
<1> USE DEF Set, Goto, End, Fail, dataset, host, Exists, Count, CreatePCs, StartPCs
<1>1. CASE LookForPath(t) \/ CheckFree(t) \/ CheckFails(t)
  BY <1>0, <1>b, <1>c, <1>1 DEF LookForPath, CheckFree, CheckFails
<1>2. CASE ZfsCreate(t)
  BY <1>0, <1>b, <1>c, <1>2 DEF ZfsCreate
<1>2a. CASE SetProperties(t)
  BY <1>0, <1>b, <1>c, <1>2a DEF SetProperties
<1>3. CASE CreateMountsDevfs(t)
  BY <1>0, <1>b, <1>c, <1>3 DEF CreateMountsDevfs
<1>3a. CASE Install(t) \/ Configure(t)
  BY <1>0, <1>b, <1>c, <1>3a DEF Install, Configure
<1>4. CASE CreateUnmountsDevfs(t)
  BY <1>0, <1>b, <1>c, <1>4 DEF CreateUnmountsDevfs, Created
<1>5. CASE CreateFails(t)
  BY <1>0, <1>b, <1>c, <1>5 DEF CreateFails
<1>5a. CASE UpFails(t)
  <2>1. /\ pc'[t] = "idle" /\ enabled'[n] = enabled[n] /\ develop'[n] = develop[n]
        /\ n \in running' <=> n \in running
        /\ pc[t] \in {"set_enabled", "set_flag", "develop", "flag", "provision"}
    BY <1>0, <1>5a DEF UpFails
  <2>3. OnlyUpAndDown(n) /\ pc[t] = "develop" => n \notin running
    BY <1>b, <1>c
  <2> QED BY ONLY <1>b, <2>1, <2>3 DEF Count, StartPCs
<1>5c. CASE StartFails(t)
  <2>1. /\ pc[t] = "start_inner" /\ pc'[t] = "idle" /\ UNCHANGED <<enabled, develop>>
        /\ OnlyUpAndDown(n) => n \in running /\ running' = running
    BY <1>0, <1>d, <1>e, <1>5c DEF StartFails
  <2> QED BY <1>b, <2>1
<1>5b. CASE StopFails(t) \/ ZfsDestroyFails(t)
  BY <1>0, <1>b, <1>c, <1>d, <1>5b DEF StopFails, ZfsDestroyFails
<1>6. CASE SetEnabled(t)
  BY <1>0, <1>b, <1>c, <1>6 DEF SetEnabled, AfterEnabling, Developed
<1>6a. CASE MountDevelop(t)
  BY <1>0, <1>b, <1>c, <1>6a DEF MountDevelop
<1>7. CASE Start(t)
  BY <1>0, <1>b, <1>c, <1>d, <1>7 DEF Start, Started
<1>7a. CASE StartInner(t)
  BY <1>0, <1>b, <1>c, <1>d, <1>7a DEF StartInner, Started
<1>8. CASE ReadFlag(t)
  BY <1>0, <1>b, <1>c, <1>8 DEF ReadFlag
<1>9. CASE Provision(t) \/ SetFlag(t)
  BY <1>0, <1>b, <1>c, <1>9 DEF Provision, SetFlag, ProvisionPCs
<1>10. CASE StopRunning(t) \/ StopGivesUp(t)
  BY <1>0, <1>b, <1>c, <1>d, <1>f, <1>10 DEF StopRunning, StopGivesUp, Stopped, Developed
<1>11. CASE StopStopped(t)
  BY <1>0, <1>b, <1>c, <1>d, <1>11 DEF StopStopped, Stopped, Developed
<1>12. CASE UnmountDevelop(t)
  BY <1>0, <1>b, <1>c, <1>d, <1>12 DEF UnmountDevelop
<1>13. CASE ZfsDestroy(t)
  BY <1>0, <1>b, <1>c, <1>d, <1>13 DEF ZfsDestroy
<1> QED BY <1>1, <1>2, <1>2a, <1>3, <1>3a, <1>4, <1>5, <1>5a, <1>5b, <1>5c, <1>6, <1>6a, <1>7, <1>7a,
           <1>8, <1>9, <1>10, <1>11, <1>12, <1>13 DEF Step

(* A request begins where its service's client left it. *)
LEMMA BeginsWell ==
  ASSUME Inv, NEW t \in Threads, NEW o \in Ops, NEW n \in Names, Begin(t, o, n),
         UNCHANGED scenario, AtRest(n)
  PROVE  AtWork(t)'
<1>0. /\ pc'[t] = FirstLabel[o] /\ op'[t] = o /\ name'[t] = n /\ was'[t] = (o = "up" /\ n \in running)
      /\ UNCHANGED <<contents, enabled, provisioned, configured, running, devfs, develop>>
      /\ Asks(t, o, n)
  BY DEF Begin, Set, Inv, TypeOK, dataset, host, Asks
<1>1. /\ \/ FirstLabel[o] = "path" /\ o = "up"
         \/ FirstLabel[o] = "provision" /\ o = "provision"
         \/ FirstLabel[o] = "check" /\ o = "create"
         \/ FirstLabel[o] = "start" /\ o = "start"
         \/ FirstLabel[o] = "stop" /\ o \in {"down", "stop", "destroy"}
      /\ FirstLabel[o] \in LabelsOf[o]
  <2>1. o \in {"up", "down", "provision", "create", "start", "stop", "destroy"}
    BY DEF Ops
  <2>2. FirstLabel["up"] = "path" /\ "path" \in LabelsOf["up"]
    BY DEF FirstLabel, LabelsOf
  <2>3. FirstLabel["down"] = "stop" /\ "stop" \in LabelsOf["down"]
    BY DEF FirstLabel, LabelsOf
  <2>4. FirstLabel["provision"] = "provision" /\ "provision" \in LabelsOf["provision"]
    BY DEF FirstLabel, LabelsOf, ProvisionPCs
  <2>5. FirstLabel["create"] = "check" /\ "check" \in LabelsOf["create"]
    BY DEF FirstLabel, LabelsOf
  <2>6. FirstLabel["start"] = "start" /\ "start" \in LabelsOf["start"]
    BY DEF FirstLabel, LabelsOf, StartPCs
  <2>7. FirstLabel["stop"] = "stop" /\ "stop" \in LabelsOf["stop"]
    BY DEF FirstLabel, LabelsOf
  <2>8. FirstLabel["destroy"] = "stop" /\ "stop" \in LabelsOf["destroy"]
    BY DEF FirstLabel, LabelsOf
  <2> QED BY <2>1, <2>2, <2>3, <2>4, <2>5, <2>6, <2>7, <2>8
<1>2. /\ \A f : May(f)' <=> May(f)
      /\ Developed(n)' <=> Developed(n)
      /\ OnlyUpAndDown(n)' <=> OnlyUpAndDown(n)
      /\ CleansUp' <=> CleansUp
  BY DEF May, Developed, OnlyUpAndDown, CleansUp, Asks
<1>3. FindsJail(t)'
  BY <1>0, <1>1 DEF FindsJail, CreatePCs
<1>4. FindsFlag(t)'
  BY <1>0, <1>1, <1>2 DEF FindsFlag, AtRest
<1>5. /\ ~May("create") => FindsContents(t)'
      /\ CleansUp => FindsDevfs(t)'
  BY <1>0, <1>1 DEF FindsContents, FindsDevfs, AtRest, Count, CreatePCs
<1>6. FindsSources(t)'
  <2>1. OnlyUpAndDown(n) => o # "start"
    BY <1>0 DEF OnlyUpAndDown
  <2>2. OnlyUpAndDown(n) => develop'[n] = Count(Developed(n) /\ n \in running)
    BY <1>0 DEF AtRest, Count
  <2>3. ~(pc'[t] \in {"develop", "flag"} \union StartPCs \union ProvisionPCs /\ op'[t] = "up")
    BY <1>0, <1>1 DEF StartPCs, ProvisionPCs
  <2>4. pc'[t] \notin {"develop", "undevelop"} /\ (pc'[t] \in StartPCs => o = "start")
    BY <1>0, <1>1 DEF StartPCs
  <2> QED BY <1>0, <1>2, <2>1, <2>2, <2>3, <2>4 DEF FindsSources, Count
<1> QED BY <1>0, <1>1, <1>2, <1>3, <1>4, <1>5, <1>6 DEF AtWork

(* What concerns another service stays as it is. *)
LEMMA OthersStay ==
  ASSUME UNCHANGED scenario, NEW n \in Names,
         /\ contents'[n] = contents[n] /\ enabled'[n] = enabled[n]
         /\ provisioned'[n] = provisioned[n] /\ configured'[n] = configured[n]
         /\ n \in running' <=> n \in running
         /\ devfs'[n] = devfs[n] /\ develop'[n] = develop[n]
  PROVE  /\ AtRest(n) => AtRest(n)'
         /\ \A u \in Threads : /\ name[u] = n /\ AtWork(u)
                               /\ pc'[u] = pc[u] /\ op'[u] = op[u]
                               /\ name'[u] = name[u] /\ was'[u] = was[u]
                               => AtWork(u)'
<1>1. /\ \A f : May(f)' <=> May(f)
      /\ Developed(n)' <=> Developed(n)
      /\ OnlyUpAndDown(n)' <=> OnlyUpAndDown(n)
      /\ CleansUp' <=> CleansUp
  BY DEF May, Developed, OnlyUpAndDown, CleansUp, Asks
<1>2. AtRest(n) => AtRest(n)'
  BY <1>1 DEF AtRest, Count
<1>3. ASSUME NEW u \in Threads, name[u] = n, AtWork(u), pc'[u] = pc[u], op'[u] = op[u],
             name'[u] = name[u], was'[u] = was[u]
      PROVE  AtWork(u)'
  <2>1. FindsJail(u)'
    BY <1>3 DEF AtWork, FindsJail
  <2>2. FindsFlag(u)'
    BY <1>1, <1>3 DEF AtWork, FindsFlag
  <2>3. ~May("create") => FindsContents(u)'
    BY <1>1, <1>3 DEF AtWork, FindsContents, Count
  <2>5. CleansUp => FindsDevfs(u)'
    BY <1>1, <1>3 DEF AtWork, FindsDevfs, Count
  <2>4. FindsSources(u)'
    BY <1>1, <1>3 DEF AtWork, FindsSources, Count
  <2> QED BY <1>1, <1>3, <2>1, <2>2, <2>3, <2>4, <2>5 DEF AtWork
<1> QED BY <1>2, <1>3

(* A service of one client stays as its client's requests leave it. *)
LEMMA OneClientStep == Inv /\ [Next]_vars => OneClient'
<1> SUFFICES ASSUME Inv, [Next]_vars PROVE OneClient'
  OBVIOUS
<1>0. TypeOK /\ OneClient /\ ProvisionedFirst
  BY DEF Inv
<1>1. CASE UNCHANGED vars
  <2> SUFFICES ASSUME NEW n \in Names, Solo(n)'
               PROVE  /\ Idle(n)' => AtRest(n)'
                      /\ \A u \in Threads : name'[u] = n /\ pc'[u] # "idle" => AtWork(u)'
    BY DEF OneClient
  <2>1. Solo(n) /\ (Idle(n)' <=> Idle(n))
    BY <1>1 DEF vars, Solo, Idle, Asks
  <2> QED BY <1>0, <1>1, <2>1, OthersStay DEF vars, OneClient
<1>2. ASSUME NEW t \in Threads, NEW o \in Ops, NEW m \in Names, Begin(t, o, m),
             UNCHANGED scenario
      PROVE  OneClient'
  <2> SUFFICES ASSUME NEW n \in Names, Solo(n)'
               PROVE  /\ Idle(n)' => AtRest(n)'
                      /\ \A u \in Threads : name'[u] = n /\ pc'[u] # "idle" => AtWork(u)'
    BY DEF OneClient
  <2>1. /\ pc[t] = "idle" /\ pc'[t] # "idle" /\ name'[t] = m /\ Asks(t, o, m)
        /\ \A u \in Threads : u # t => /\ pc'[u] = pc[u] /\ op'[u] = op[u]
                                       /\ name'[u] = name[u] /\ was'[u] = was[u]
        /\ UNCHANGED <<contents, enabled, provisioned, configured, running, devfs, develop>>
    BY <1>0, <1>2 DEF Begin, Set, TypeOK, dataset, host, Asks, FirstLabel, Ops
  <2>2. Solo(n)
    BY <1>2 DEF Solo, Asks
  <2>3. CASE n = m
    <3>1. \A u \in Threads : name[u] = n /\ u # t => pc[u] = "idle"
      BY <1>0, <2>1, <2>2, <2>3 DEF ProvisionedFirst, Solo, TypeOK
    <3>2. AtRest(n)
      BY <1>0, <2>1, <2>2, <3>1 DEF OneClient, Idle
    <3>3. AtWork(t)'
      BY <1>2, <2>3, <3>2, BeginsWell
    <3> QED BY <2>1, <2>3, <3>1, <3>3 DEF Idle
  <2>4. CASE n # m
    <3>1. Idle(n)' => Idle(n)
      BY <2>1, <2>4 DEF Idle
    <3>2. Idle(n) => AtRest(n)'
      BY <1>0, <1>2, <2>1, <2>2, OthersStay DEF OneClient
    <3>3. ASSUME NEW u \in Threads, name'[u] = n, pc'[u] # "idle"
          PROVE  AtWork(u)'
      <4>1. u # t
        BY <2>1, <2>4, <3>3
      <4>2. AtWork(u)
        BY <1>0, <2>1, <2>2, <3>3, <4>1 DEF OneClient
      <4> QED BY <1>2, <2>1, <3>3, <4>1, <4>2, OthersStay
    <3> QED BY <3>1, <3>2, <3>3
  <2> QED BY <2>3, <2>4
<1>3. ASSUME NEW t \in Threads, Step(t), UNCHANGED request, UNCHANGED scenario
      PROVE  OneClient'
  <2> SUFFICES ASSUME NEW n \in Names, Solo(n)'
               PROVE  /\ Idle(n)' => AtRest(n)'
                      /\ \A u \in Threads : name'[u] = n /\ pc'[u] # "idle" => AtWork(u)'
    BY DEF OneClient
  <2>1. /\ pc[t] # "idle" /\ name[t] \in Names
        /\ \A u \in Threads : /\ u # t => pc'[u] = pc[u]
                              /\ op'[u] = op[u] /\ name'[u] = name[u] /\ was'[u] = was[u]
    BY <1>0, <1>3, Arrivals DEF request, TypeOK
  <2>2. Solo(n)
    BY <1>3 DEF Solo, Asks
  <2>3. CASE n = name[t]
    <3>1. \A u \in Threads : name[u] = n /\ u # t => pc[u] = "idle"
      BY <1>0, <2>1, <2>2, <2>3 DEF ProvisionedFirst, Solo, TypeOK
    <3>2. AtWork(t)
      BY <1>0, <2>1, <2>2, <2>3 DEF OneClient
    <3>3. /\ FindsJail(t)' /\ FindsFlag(t)' /\ FindsSources(t)'
          /\ ~May("create") => FindsContents(t)'
          /\ CleansUp => FindsDevfs(t)'
          /\ pc'[t] = "idle" \/ pc'[t] \in LabelsOf[op[t]]
      BY <1>0, <1>3, <2>2, <2>3, <3>2, FindsJailStep, FindsFlagStep, FindsSourcesStep,
         FindsContentsStep, FindsDevfsStep, LabelsStep DEF AtWork
    <3>4. (May("create")' <=> May("create")) /\ (CleansUp' <=> CleansUp)
      BY <1>3 DEF May, CleansUp
    <3>5. pc'[t] # "idle" => AtWork(t)'
      BY <2>1, <3>3, <3>4 DEF AtWork
    <3>6. ASSUME pc'[t] = "idle" PROVE AtRest(n)'
      <4>1. name'[t] = n
        BY <2>1, <2>3
      <4>2. /\ contents'[n] = "none" => ~configured'[n]
            /\ ~May("zfs")' /\ configured'[n] => provisioned'[n]
        BY <3>3, <3>6, <4>1 DEF FindsFlag
      <4>3. ~May("create")' => /\ contents'[n] \in {"none", "complete"}
                               /\ contents'[n] = "none" => devfs'[n] = 0
        <5>1. pc'[t] \notin CreatePCs /\ pc'[t] \notin {"install", "configure", "create_umount"}
          BY <3>6 DEF CreatePCs
        <5> QED BY <3>3, <3>4, <3>6, <4>1, <5>1 DEF FindsContents, Count
      <4>5. CleansUp' => devfs'[n] = Count(n \in running')
        BY <3>3, <3>4, <3>6, <4>1 DEF FindsDevfs, Count
      <4>4. OnlyUpAndDown(n)' => develop'[n] = Count(n \in running' /\ Developed(n)')
        BY <3>3, <3>6, <4>1 DEF FindsSources, Count, StartPCs
      <4> QED BY <4>2, <4>3, <4>4, <4>5 DEF AtRest
    <3> QED BY <2>1, <2>3, <3>1, <3>5, <3>6 DEF Idle
  <2>4. CASE n # name[t]
    <3>1. Idle(n)' => Idle(n)
      BY <2>1, <2>4 DEF Idle
    <3>2. /\ contents'[n] = contents[n] /\ enabled'[n] = enabled[n]
          /\ provisioned'[n] = provisioned[n] /\ configured'[n] = configured[n]
          /\ n \in running' <=> n \in running
          /\ devfs'[n] = devfs[n] /\ develop'[n] = develop[n]
      BY <1>0, <1>3, <2>4, OthersUntouched
    <3>3. Idle(n) => AtRest(n)'
      BY <1>0, <1>3, <2>2, <3>2, OthersStay DEF OneClient
    <3>4. ASSUME NEW u \in Threads, name'[u] = n, pc'[u] # "idle"
          PROVE  AtWork(u)'
      <4>1. u # t /\ name[u] = n /\ pc[u] # "idle"
        BY <2>1, <2>4, <3>4
      <4>2. AtWork(u)
        BY <1>0, <2>2, <4>1 DEF OneClient
      <4> QED BY <1>3, <2>1, <3>2, <4>1, <4>2, OthersStay
    <3> QED BY <3>1, <3>3, <3>4
  <2> QED BY <2>3, <2>4
<1> QED BY <1>1, <1>2, <1>3 DEF Next

-----------------------------------------------------------------------------
(* The inductive invariant: each step keeps the flags honest. *)
LEMMA InvStep == Inv /\ [Next]_vars => Inv'
<1> SUFFICES ASSUME Inv, [Next]_vars
             PROVE  Inv'
  OBVIOUS
<1> USE DEF Inv
<1>0. TypeOK' /\ OneClient'
  BY TypeStep, OneClientStep
<1>1. CASE UNCHANGED vars
  <2>1. RunsFromItsRoot' /\ StoppedFirst'
    BY <1>1 DEF vars, RunsFromItsRoot, StoppedFirst, Solo, Asks, Exists
  <2>2. ProvisionedFirst' /\ FlagHonest'
    BY <1>1 DEF vars, ProvisionedFirst, FlagHonest, Kept, Solo, Undestroyed, Asks
  <2> QED BY <1>0, <2>1, <2>2
<1>2. ASSUME NEW t \in Threads, NEW o \in Ops, NEW n \in Names, Begin(t, o, n),
             UNCHANGED scenario
      PROVE  Inv'
  <2>1. FlagHonest'
    BY <1>2 DEF Begin, FlagHonest, Kept, Solo, Undestroyed, Asks, dataset
  <2>2. FirstLabel[o] \notin {"set_flag", "zfs_destroy"}
    BY DEF FirstLabel, Ops
  <2>3. ProvisionedFirst'
    BY <1>2, <2>2 DEF Begin, ProvisionedFirst, Kept, Solo, Undestroyed, Asks, dataset, Set, TypeOK
  <2>4. RunsFromItsRoot'
    BY <1>2 DEF Begin, RunsFromItsRoot, Solo, Asks, dataset, host, Exists
  <2>5. StoppedFirst'
    BY <1>2, <2>2 DEF Begin, StoppedFirst, Solo, Asks, host, Set, TypeOK
  <2> QED BY <1>0, <2>1, <2>3, <2>4, <2>5
<1>3. ASSUME NEW t \in Threads, Step(t), UNCHANGED request, UNCHANGED scenario
      PROVE  Inv'
  <2>1. \A n \in Names : Kept(n)' <=> Kept(n)
    BY <1>3 DEF Kept, Solo, Undestroyed, Asks
  <2>2. \A u \in Threads, o \in Ops, n \in Names : Asks(u, o, n)' <=> Asks(u, o, n)
    BY <1>3 DEF Asks
  <2>3. \A u \in Threads : name[u] \in Names /\ op[u] \in Ops
                           /\ name'[u] = name[u] /\ op'[u] = op[u]
    BY <1>3 DEF TypeOK, request
  <2>9. RunsFromItsRoot' /\ StoppedFirst'
    BY <1>3, RootStep
  <2>4. CASE ZfsDestroy(t)
    <3>1. Asks(t, "destroy", name[t])
      BY <2>4 DEF ZfsDestroy, ProvisionedFirst
    <3>2. ~provisioned'[name[t]]
      BY <2>4 DEF ZfsDestroy, Set, TypeOK
    <3>3. \A n \in Names \ {name[t]} : /\ provisioned'[n] = provisioned[n]
                                       /\ configured'[n] = configured[n]
      BY <2>4 DEF ZfsDestroy, Set, TypeOK
    <3>4. FlagHonest'
      BY <3>2, <3>3, <2>1 DEF FlagHonest
    <3>5. ASSUME NEW u \in Threads, pc'[u] # "idle"
          PROVE  /\ Asks(u, op[u], name[u])
                 /\ pc'[u] = "set_flag" /\ Kept(name[u]) => configured'[name[u]]
                 /\ pc'[u] = "zfs_destroy" => op[u] = "destroy"
      <4>1. u # t /\ pc[u] = pc'[u]
        BY <3>5, <2>4 DEF ZfsDestroy, End, Set, TypeOK
      <4>2. name[u] = name[t] => ~Kept(name[u])
        BY <4>1, <3>1, <3>5, DestroyedAlone DEF ProvisionedFirst
      <4> QED BY <4>1, <4>2, <3>3, <2>3, <3>5 DEF ProvisionedFirst
    <3> QED BY <1>0, <3>4, <3>5, <2>1, <2>2, <2>3, <2>9 DEF ProvisionedFirst
  <2>5. CASE ~ZfsDestroy(t)
    <3>1. FlagHonest'
      BY <1>3, <2>1, <2>3, <2>5, NothingForgotten DEF FlagHonest, ProvisionedFirst
    <3>2. ASSUME NEW u \in Threads, pc'[u] # "idle"
          PROVE  /\ Asks(u, op[u], name[u])
                 /\ pc'[u] = "set_flag" /\ Kept(name[u]) => configured'[name[u]]
                 /\ pc'[u] = "zfs_destroy" => op[u] = "destroy"
      <4>1. CASE u # t
        BY <1>3, <2>3, <2>5, <3>2, <4>1, NothingForgotten, Arrivals DEF ProvisionedFirst
      <4>2. CASE u = t
        <5>1. pc'[t] = "set_flag" => configured'[name[t]]
          BY <1>3, Arrivals DEF Provision, Set, TypeOK
        <5> QED BY <1>3, <4>2, <5>1, Arrivals DEF ProvisionedFirst
      <4> QED BY <4>1, <4>2
    <3> QED BY <1>0, <3>1, <3>2, <2>1, <2>2, <2>3, <2>9 DEF ProvisionedFirst
  <2> QED BY <2>4, <2>5
<1> QED BY <1>1, <1>2, <1>3 DEF Next

(* For all services, clients and scenarios, whichever calls of create, start, stop and
   the provisioners fail, and whichever reads of the flag: flags are honest, roots stay
   while their jail runs, and a service of one client is as its requests leave it. *)
THEOREM InvHolds == Spec => []Inv
<1>1. Init => Inv
  <2> SUFFICES ASSUME Init PROVE Inv
    OBVIOUS
  <2>1. TypeOK
    BY MountBound DEF Init, TypeOK, Labels, Ops
  <2>2. OneClient
    BY DEF Init, OneClient, AtRest, Count
  <2> QED BY <2>1, <2>2 DEF Init, Inv, ProvisionedFirst, FlagHonest, RunsFromItsRoot, StoppedFirst
<1> QED BY <1>1, InvStep, PTL DEF Spec

(* "changed to true after provisioning succeeds": no interleaving of requests
   and no failing call leaves a flag on a jail that was not provisioned, unless one
   client destroys what another is provisioning. *)
THEOREM FlagAlwaysHonest == Spec => []FlagHonest
<1>1. Inv => FlagHonest
  BY DEF Inv
<1> QED BY <1>1, InvHolds, PTL

(* However many services and clients there are and whichever calls of stop and start
   fail, destroy takes no root from under a jail that its one client runs. *)
THEOREM RootsAlwaysKept == Spec => []RunsFromItsRoot
<1>1. Inv => RunsFromItsRoot
  BY DEF Inv
<1> QED BY <1>1, InvHolds, PTL

(* What up and create mount is taken back, by them or by down: between the requests of
   a service's one client its devfs is mounted once while its jail runs and not at all
   while it does not, as long as create and umount do not fail and a failed start is
   undone; and so are its sources, if no start fails either. *)
THEOREM MountsAlwaysBalanced == Spec => []MountsBalanced
<1>1. Inv => MountsBalanced
  <2> SUFFICES ASSUME Inv, NEW n \in Names, Solo(n), Idle(n)
               PROVE  /\ CleansUp => devfs[n] = IF n \in running THEN 1 ELSE 0
                      /\ OnlyUpAndDown(n) =>
                            develop[n] = (IF n \in running /\ n \in scenario.develop THEN 1 ELSE 0)
    BY DEF MountsBalanced, DevfsBalanced, DevelopBalanced
  <2>1. AtRest(n)
    BY DEF Inv, OneClient
  <2> QED BY <2>1 DEF AtRest, Count, Developed
<1> QED BY <1>1, InvHolds, PTL

(* up runs the provisioners of a jail once: as long as the flag can be written and read
   and nobody else is at work, it finds it again. *)
THEOREM ProvisionsOnce == Spec => ProvisionedOnce
<1>1. Inv /\ [Next]_vars =>
        \A t \in Threads :
          /\ op[t] = "up" /\ pc[t] = "provision" /\ pc'[t] = "set_flag"
          /\ Solo(name[t]) /\ ~May("zfs") /\ ~May("read")
          => ~configured[name[t]]
  BY DEF Inv, OneClient, AtWork, FindsFlag, TypeOK
<1> QED BY <1>1, InvHolds, PTL DEF Spec, ProvisionedOnce

(* An up that reports success has done all that the manifest says: unless create failed
   before, or others interfered, whatever else has failed, the service runs from a
   complete root, starts with the host unless it is developed, is provisioned and has
   its sources mounted. *)
THEOREM UpAlwaysDelivers == Spec => UpDelivers
<1>1. Inv /\ [Next]_vars =>
        \A t \in Threads :
          /\ op[t] = "up" /\ pc[t] # "idle" /\ pc'[t] = "idle" /\ result'[t] = "ok"
          /\ Solo(name[t]) /\ ~May("create")
          => /\ name[t] \in running' /\ contents'[name[t]] = "complete"
             /\ enabled'[name[t]] = (name[t] \notin scenario.develop)
             /\ name[t] \in scenario.provisioned
                   => configured'[name[t]] /\ provisioned'[name[t]]
             /\ name[t] \in scenario.develop => develop'[name[t]] > 0 \/ was[t]
  <2> SUFFICES ASSUME Inv, [Next]_vars, NEW t \in Threads, NEW n \in Names, n = name[t],
                      op[t] = "up", pc[t] # "idle", pc'[t] = "idle", result'[t] = "ok",
                      Solo(n), ~May("create")
               PROVE  /\ n \in running' /\ contents'[n] = "complete"
                      /\ enabled'[n] = (n \notin scenario.develop)
                      /\ n \in scenario.provisioned => configured'[n] /\ provisioned'[n]
                      /\ n \in scenario.develop => develop'[n] > 0 \/ was[t]
    BY DEF Inv, TypeOK
  <2>0. TypeOK /\ AtWork(t) /\ FindsContents(t) /\ FindsJail(t) /\ FindsSources(t)
    BY DEF Inv, OneClient, AtWork
  <2>1. Step(t) /\ UNCHANGED request /\ UNCHANGED scenario
    <3>1. CASE UNCHANGED vars
      BY <3>1 DEF vars
    <3>2. ASSUME NEW u \in Threads, NEW o \in Ops, NEW m \in Names, Begin(u, o, m) PROVE FALSE
      BY <2>0, <3>2 DEF Begin, Set, TypeOK, FirstLabel, Ops
    <3>3. ASSUME NEW u \in Threads, Step(u), UNCHANGED request, UNCHANGED scenario
          PROVE  u = t
      BY <2>0, <3>3, Arrivals
    <3> QED BY <3>1, <3>2, <3>3 DEF Next
  <2>2. ReadFlag(t) \/ (SetFlag(t) /\ pc[t] = "set_flag")
    <3> USE <2>0 DEF TypeOK, Set, Goto, End, Fail, Created, Started
    <3>1. ~LookForPath(t) /\ ~CheckFree(t) /\ ~CheckFails(t) /\ ~ZfsCreate(t) /\ ~SetProperties(t)
      BY DEF LookForPath, CheckFree, CheckFails, ZfsCreate, SetProperties
    <3>2. ~CreateMountsDevfs(t) /\ ~Install(t) /\ ~Configure(t) /\ ~CreateUnmountsDevfs(t)
      BY DEF CreateMountsDevfs, Install, Configure, CreateUnmountsDevfs
    <3>3. ~CreateFails(t) /\ ~UpFails(t) /\ ~StartFails(t) /\ ~StopFails(t) /\ ~ZfsDestroyFails(t)
      BY DEF CreateFails, UpFails, StartFails, StopFails, ZfsDestroyFails
    <3>4. ~SetEnabled(t) /\ ~MountDevelop(t) /\ ~Start(t) /\ ~StartInner(t) /\ ~Provision(t)
      BY DEF SetEnabled, AfterEnabling, MountDevelop, Start, StartInner, Provision
    <3>5. pc[t] \notin {"stop", "undevelop", "zfs_destroy"}
      BY LabelFacts DEF AtWork
    <3>6. ~StopRunning(t) /\ ~StopGivesUp(t) /\ ~StopStopped(t) /\ ~UnmountDevelop(t) /\ ~ZfsDestroy(t)
      BY <3>5 DEF StopRunning, StopGivesUp, StopStopped, UnmountDevelop, ZfsDestroy
    <3> QED BY <2>1, <3>1, <3>2, <3>3, <3>4, <3>6 DEF Step, SetFlag
  <2>3. /\ n \in running /\ contents[n] = "complete"
        /\ enabled[n] <=> n \notin scenario.develop
        /\ n \in scenario.develop => develop[n] > 0 \/ was[t]
    <3>1. pc[t] \in {"flag", "set_flag"}
      BY <2>2 DEF ReadFlag
    <3>2. n \in running
      BY <2>0, <3>1 DEF FindsJail
    <3>3. contents[n] = "complete"
      BY <2>0, <3>1 DEF FindsContents
    <3>4. /\ enabled[n] <=> n \notin scenario.develop
          /\ n \in scenario.develop => develop[n] > 0 \/ was[t]
      BY <2>0, <3>1 DEF FindsSources, Developed, ProvisionPCs
    <3> QED BY <3>2, <3>3, <3>4
  <2>4. CASE ReadFlag(t)
    <3>1. /\ UNCHANGED <<contents, enabled, provisioned, configured, running, develop>>
          /\ provisioned[n] \/ n \notin scenario.provisioned
      BY <2>0, <2>4 DEF ReadFlag, FlagsRead, dataset, host, Goto, Set, TypeOK
    <3>2. provisioned[n] => configured[n]
      BY DEF Inv, FlagHonest, Kept
    <3> QED BY <2>0, <2>3, <3>1, <3>2 DEF TypeOK
  <2>5. CASE SetFlag(t) /\ pc[t] = "set_flag"
    <3>1. /\ UNCHANGED <<contents, enabled, configured, running, develop>>
          /\ provisioned'[n]
      BY <2>0, <2>5 DEF SetFlag, host, Set, TypeOK
    <3>2. configured[n]
      BY <2>5 DEF Inv, ProvisionedFirst, Kept
    <3> QED BY <2>0, <2>3, <3>1, <3>2 DEF TypeOK
  <2> QED BY <2>2, <2>4, <2>5
<1> QED BY <1>1, InvHolds, PTL DEF Spec, UpDelivers
=============================================================================
