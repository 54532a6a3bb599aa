---------------------------- MODULE Provisioning ----------------------------
(* Services in jails: up, down and provision of src/src/bin/priosund.rs, and *)
(* the requests that share their state: create, start, stop, destroy.  The   *)
(* dataset of a jail appears before its contents do, its provisioned flag is *)
(* read and written by different calls, and file systems are stacked on its  *)
(* directories.  start_inner and stop, whose own steps are in JailLifecycle, *)
(* are one step here, which may fail half-way.                               *)
EXTENDS Naturals

CONSTANTS
    Names,          \* of services and their jails
    Threads,        \* connection threads of the daemon
    Scenarios,      \* who asks for what, and what may fail, see below
    MaxMounts       \* instances of a file system on one directory, a bound

Ops == {"up", "down", "provision", "create", "start", "stop", "destroy"}

(* The calls that may fail: zfs set and destroy, zfs get, those of create, the mount of
   the sources, start_inner, the provisioners, jail.stop and cleanup_epair, umount. *)
Faults == {"zfs", "read", "create", "mount", "start", "provision", "stop", "umount"}

ASSUME ProvisioningAssumption ==
    /\ MaxMounts \in Nat \ {0}
    /\ Scenarios \subseteq
          [requests: SUBSET (Threads \X Ops \X Names),
           develop: SUBSET Names,           \* develop = true in service.toml
           provisioned: SUBSET Names,       \* provisioners are configured
           faults: SUBSET Faults]           \* calls that may fail

VARIABLES
    scenario,       \* fixed at Init
    contents,       \* of a jail's dataset: none (no dataset), empty, base, complete
    enabled,        \* priosun:enabled of the dataset
    provisioned,    \* priosun:provisioned of the dataset
    configured,     \* provisioners have run to their end in this dataset's jail
    running,        \* the jails that run
    devfs,          \* devfs instances on a jail's dev
    develop,        \* nullfs instances on a jail's usr/src
    pc, op, name,   \* each thread's next call, its command and its argument
    was,            \* up's local "running"
    result          \* of a thread's last request

dataset == <<contents, enabled, provisioned, configured>>
host == <<running, devfs, develop>>
request == <<op, name, was>>
vars == <<scenario, contents, enabled, provisioned, configured, running, devfs,
          develop, pc, op, name, was, result>>

Labels == {"idle", "path", "check", "zfs_create", "properties", "create_devfs",
           "install", "configure", "create_umount", "set_enabled", "develop",
           "start", "start_inner", "flag", "provision", "set_flag", "stop",
           "undevelop", "zfs_destroy"}

May(fault) == fault \in scenario.faults

(* path_exists, and zfs commands on the dataset *)
Exists(n) == contents[n] # "none"

Set(f, n, v) == [f EXCEPT ![n] = v]

Init ==
    /\ scenario \in Scenarios
    /\ contents = [n \in Names |-> "none"]
    /\ enabled = [n \in Names |-> FALSE]
    /\ provisioned = [n \in Names |-> FALSE]
    /\ configured = [n \in Names |-> FALSE]
    /\ running = {}
    /\ devfs = [n \in Names |-> 0]
    /\ develop = [n \in Names |-> 0]
    /\ pc = [t \in Threads |-> "idle"]
    /\ op = [t \in Threads |-> "stop"]
    /\ \E n \in Names : name = [t \in Threads |-> n]
    /\ was = [t \in Threads |-> FALSE]
    /\ result = [t \in Threads |-> "ok"]

Goto(t, label) == /\ pc' = Set(pc, t, label)
                  /\ UNCHANGED result

End(t, verdict) == /\ pc' = Set(pc, t, "idle")
                   /\ result' = Set(result, t, verdict)

(* Every error is the request's. *)
Fail(t) == End(t, "error") /\ UNCHANGED <<dataset, host>>

(* Where a request goes on after create, start and stop. *)
Created(t) == IF op[t] = "up" THEN Goto(t, "set_enabled") ELSE End(t, "ok")
Started(t) == IF op[t] = "up" THEN Goto(t, "flag") ELSE End(t, "ok")
Stopped(t) ==
    IF op[t] = "destroy" THEN Goto(t, "zfs_destroy")
    ELSE IF op[t] = "down" /\ name[t] \in scenario.develop THEN Goto(t, "undevelop")
    ELSE End(t, "ok")

FirstLabel == [up |-> "path", down |-> "stop", provision |-> "provision",
               create |-> "check", start |-> "start", stop |-> "stop",
               destroy |-> "stop"]

(* A request arrives; up looks first whether the jail runs. *)
Begin(t, o, n) ==
    /\ pc[t] = "idle" /\ <<t, o, n>> \in scenario.requests
    /\ o = "start" => Exists(n)
    /\ o = "provision" => n \in scenario.provisioned
    /\ pc' = Set(pc, t, FirstLabel[o])
    /\ op' = Set(op, t, o)
    /\ name' = Set(name, t, n)
    /\ was' = Set(was, t, o = "up" /\ n \in running)
    /\ UNCHANGED <<dataset, host, result>>

-----------------------------------------------------------------------------
(* up and create *)

LookForPath(t) ==
    /\ pc[t] = "path"
    /\ Goto(t, IF Exists(name[t]) THEN "set_enabled" ELSE "check")
    /\ UNCHANGED <<dataset, host>>

CheckFree(t) ==
    /\ pc[t] = "check"
    /\ ~Exists(name[t])
    /\ Goto(t, "zfs_create")
    /\ UNCHANGED <<dataset, host>>

CheckFails(t) == pc[t] = "check" /\ Exists(name[t]) /\ Fail(t)

(* zfs create -p is content with a dataset that exists. *)
ZfsCreate(t) ==
    /\ pc[t] = "zfs_create"
    /\ contents' = IF Exists(name[t]) THEN contents ELSE Set(contents, name[t], "empty")
    /\ Goto(t, "properties")
    /\ UNCHANGED <<enabled, provisioned, configured, host>>

SetProperties(t) ==
    /\ pc[t] = "properties" /\ Exists(name[t])
    /\ enabled' = Set(enabled, name[t], TRUE)
    /\ provisioned' = Set(provisioned, name[t], FALSE)
    /\ Goto(t, "create_devfs")
    /\ UNCHANGED <<contents, configured, host>>

CreateMountsDevfs(t) ==
    /\ pc[t] = "create_devfs" /\ Exists(name[t])
    /\ devfs[name[t]] < MaxMounts
    /\ devfs' = Set(devfs, name[t], devfs[name[t]] + 1)
    /\ Goto(t, "install")
    /\ UNCHANGED <<dataset, running, develop>>

(* pkg and pw: from here on the jail has an rc to boot with. *)
Install(t) ==
    /\ pc[t] = "install" /\ Exists(name[t])
    /\ contents' = IF contents[name[t]] = "empty" THEN Set(contents, name[t], "base")
                                                  ELSE contents
    /\ Goto(t, "configure")
    /\ UNCHANGED <<enabled, provisioned, configured, host>>

(* DNS, services, network, PF *)
Configure(t) ==
    /\ pc[t] = "configure" /\ Exists(name[t])
    /\ contents' = Set(contents, name[t], "complete")
    /\ Goto(t, "create_umount")
    /\ UNCHANGED <<enabled, provisioned, configured, host>>

(* mutant: the devfs of the installation stays *)
CreateKeepsDevfs(t) ==
    /\ pc[t] = "create_umount" /\ devfs[name[t]] > 0
    /\ Created(t)
    /\ UNCHANGED <<dataset, host>>

CreateUnmountsDevfs(t) ==
    /\ pc[t] = "create_umount" /\ devfs[name[t]] > 0
    /\ devfs' = Set(devfs, name[t], devfs[name[t]] - 1)
    /\ Created(t)
    /\ UNCHANGED <<dataset, running, develop>>

(* A call of create fails: what was done so far stays. *)
CreateFails(t) ==
    /\ \/ /\ pc[t] \in {"zfs_create", "properties", "create_devfs", "install",
                      "configure", "create_umount"}
          /\ May("create")
       \/ pc[t] \in {"properties", "create_devfs", "install", "configure"} /\ ~Exists(name[t])
       \/ pc[t] = "create_devfs" /\ devfs[name[t]] >= MaxMounts
       \/ pc[t] = "create_umount" /\ devfs[name[t]] = 0
    /\ Fail(t)

-----------------------------------------------------------------------------
(* up: enable, mount the service directory, start, provision *)

AfterEnabling(t) ==
    IF name[t] \in scenario.develop /\ ~was[t] THEN "develop" ELSE "start"

SetEnabled(t) ==
    /\ pc[t] = "set_enabled" /\ Exists(name[t])
    /\ enabled' = Set(enabled, name[t], name[t] \notin scenario.develop)
    /\ Goto(t, AfterEnabling(t))
    /\ UNCHANGED <<contents, provisioned, configured, host>>

MountDevelop(t) ==
    /\ pc[t] = "develop" /\ Exists(name[t])
    /\ develop[name[t]] < MaxMounts
    /\ develop' = Set(develop, name[t], develop[name[t]] + 1)
    /\ Goto(t, "start")
    /\ UNCHANGED <<dataset, running, devfs>>

Start(t) ==
    /\ pc[t] = "start"
    /\ IF name[t] \in running THEN Started(t) ELSE Goto(t, "start_inner")
    /\ UNCHANGED <<dataset, host>>

StartInner(t) ==
    /\ pc[t] = "start_inner"
    /\ name[t] \notin running /\ contents[name[t]] \in {"base", "complete"}
    /\ devfs[name[t]] < MaxMounts
    /\ running' = running \union {name[t]}
    /\ devfs' = Set(devfs, name[t], devfs[name[t]] + 1)
    /\ Started(t)
    /\ UNCHANGED <<dataset, develop>>

(* start_inner takes back what it has done; one failing call of that, which is
   ignored, leaves the jail or its devfs behind. *)
StartFails(t) ==
    /\ pc[t] = "start_inner"
    /\ \/ May("start") \/ name[t] \in running \/ contents[name[t]] # "complete"
       \/ devfs[name[t]] >= MaxMounts
    /\ \/ UNCHANGED <<running, devfs>>
       \/ /\ May("umount") /\ Exists(name[t]) /\ devfs[name[t]] < MaxMounts
          /\ devfs' = Set(devfs, name[t], devfs[name[t]] + 1)
          /\ UNCHANGED running
       \/ /\ May("stop") /\ Exists(name[t]) /\ name[t] \notin running
          /\ devfs[name[t]] < MaxMounts
          /\ running' = running \union {name[t]}
          /\ devfs' \in {devfs, Set(devfs, name[t], devfs[name[t]] + 1)}
    /\ End(t, "error")
    /\ UNCHANGED <<dataset, develop>>

(* mutant: a jail that ran before counts as provisioned *)
ReadFlagOfNew(t) ==
    /\ pc[t] = "flag"
    /\ IF ~was[t] /\ ~provisioned[name[t]] /\ name[t] \in scenario.provisioned
       THEN Goto(t, "provision") ELSE End(t, "ok")
    /\ UNCHANGED <<dataset, host>>

(* A zfs get that fails reads as a flag that is not set. *)
FlagsRead(n) == {provisioned[n]} \union {flag \in {FALSE} : May("read")}

ReadFlag(t) ==
    /\ pc[t] = "flag"
    /\ \E flag \in FlagsRead(name[t]) :
          IF ~flag /\ name[t] \in scenario.provisioned THEN Goto(t, "provision")
                                                       ELSE End(t, "ok")
    /\ UNCHANGED <<dataset, host>>

(* provision_service: the provisioners reach the jail only if it runs. *)
Provision(t) ==
    /\ pc[t] = "provision" /\ name[t] \in running
    /\ configured' = Set(configured, name[t], TRUE)
    /\ Goto(t, "set_flag")
    /\ UNCHANGED <<contents, enabled, provisioned, host>>

(* mutant: the provision command leaves the flag alone *)
SetFlagOfUp(t) ==
    /\ pc[t] = "set_flag" /\ Exists(name[t])
    /\ provisioned' = IF op[t] = "up" THEN Set(provisioned, name[t], TRUE) ELSE provisioned
    /\ End(t, "ok")
    /\ UNCHANGED <<contents, enabled, configured, host>>

SetFlag(t) ==
    /\ pc[t] = "set_flag" /\ Exists(name[t])
    /\ provisioned' = Set(provisioned, name[t], TRUE)
    /\ End(t, "ok")
    /\ UNCHANGED <<contents, enabled, configured, host>>

(* mutant: a provisioner's failure is not noticed *)
UpFailsLate(t) ==
    \/ /\ pc[t] = "provision" /\ May("provision")
       /\ Goto(t, "set_flag") /\ UNCHANGED <<dataset, host>>
    \/ /\ pc[t] \in {"set_enabled", "set_flag"} /\ (May("zfs") \/ ~Exists(name[t]))
       /\ Fail(t)

UpFails(t) ==
    /\ \/ pc[t] \in {"set_enabled", "set_flag"} /\ (May("zfs") \/ ~Exists(name[t]))
       \/ pc[t] = "develop" /\ (May("mount") \/ ~Exists(name[t]) \/ develop[name[t]] >= MaxMounts)
       \/ pc[t] = "flag" /\ May("read")
       \/ pc[t] = "provision" /\ (May("provision") \/ name[t] \notin running)
    /\ Fail(t)

-----------------------------------------------------------------------------
(* stop, down and destroy *)

StopRunning(t) ==
    /\ pc[t] = "stop" /\ Exists(name[t]) /\ name[t] \in running
    /\ running' = running \ {name[t]}
    /\ devfs[name[t]] > 0 /\ devfs' = Set(devfs, name[t], devfs[name[t]] - 1)
    /\ Stopped(t)
    /\ UNCHANGED <<dataset, develop>>

(* unmount_devfs gives up, the jail is gone already: the rest of down or destroy is
   not done. *)
StopGivesUp(t) ==
    /\ pc[t] = "stop" /\ Exists(name[t]) /\ name[t] \in running
    /\ May("umount") \/ devfs[name[t]] = 0
    /\ running' = running \ {name[t]}
    /\ End(t, "error")
    /\ UNCHANGED <<dataset, devfs, develop>>

StopStopped(t) ==
    /\ pc[t] = "stop" /\ Exists(name[t]) /\ name[t] \notin running
    /\ Stopped(t)
    /\ UNCHANGED <<dataset, host>>

(* mutant: a jail that cannot be stopped is destroyed nevertheless *)
StopFailsIgnored(t) ==
    /\ pc[t] = "stop"
    /\ \/ ~Exists(name[t]) /\ End(t, "error")
       \/ Exists(name[t]) /\ name[t] \in running /\ May("stop") /\ Stopped(t)
    /\ UNCHANGED <<dataset, host>>

(* There is no such jail, or it cannot be stopped and runs on. *)
StopFails(t) ==
    /\ pc[t] = "stop"
    /\ ~Exists(name[t]) \/ (name[t] \in running /\ May("stop"))
    /\ Fail(t)

(* One umount, whose error is ignored: the sources may stay. *)
UnmountDevelop(t) ==
    /\ pc[t] = "undevelop"
    /\ \/ develop[name[t]] > 0 /\ develop' = Set(develop, name[t], develop[name[t]] - 1)
       \/ /\ develop[name[t]] = 0 \/ May("umount") \/ name[t] \in running
          /\ UNCHANGED develop
    /\ End(t, "ok")
    /\ UNCHANGED <<dataset, running, devfs>>

(* The dataset goes with what is mounted in it.  A jail that was started
   meanwhile runs on without its root. *)
ZfsDestroy(t) ==
    /\ pc[t] = "zfs_destroy"
    /\ contents' = Set(contents, name[t], "none")
    /\ enabled' = Set(enabled, name[t], FALSE)
    /\ provisioned' = Set(provisioned, name[t], FALSE)
    /\ configured' = Set(configured, name[t], FALSE)
    /\ devfs' = Set(devfs, name[t], 0)
    /\ develop' = Set(develop, name[t], 0)
    /\ End(t, "ok")
    /\ UNCHANGED running

(* A mount in it or a process on it may keep the dataset busy. *)
ZfsDestroyFails(t) ==
    /\ pc[t] = "zfs_destroy" /\ Exists(name[t])
    /\ \/ May("zfs") \/ develop[name[t]] > 0
       \/ devfs[name[t]] > 0 \/ name[t] \in running
    /\ Fail(t)

Step(t) ==
    \/ LookForPath(t) \/ CheckFree(t) \/ CheckFails(t) \/ ZfsCreate(t)
    \/ SetProperties(t) \/ CreateMountsDevfs(t) \/ Install(t) \/ Configure(t)
    \/ CreateUnmountsDevfs(t) \/ CreateFails(t) \/ SetEnabled(t) \/ MountDevelop(t)
    \/ Start(t) \/ StartInner(t) \/ ReadFlag(t) \/ Provision(t) \/ SetFlag(t)
    \/ StartFails(t) \/ UpFails(t) \/ StopRunning(t) \/ StopGivesUp(t) \/ StopStopped(t)
    \/ StopFails(t) \/ UnmountDevelop(t) \/ ZfsDestroy(t) \/ ZfsDestroyFails(t)

Next ==
    /\ \E t \in Threads : \/ \E o \in Ops, n \in Names : Begin(t, o, n)
                          \/ Step(t) /\ UNCHANGED request
    /\ UNCHANGED scenario

Spec == Init /\ [][Next]_vars

-----------------------------------------------------------------------------
Asks(t, o, n) == <<t, o, n>> \in scenario.requests

(* One client works on the jail. *)
Solo(n) == \A t, u \in Threads, o, o2 \in Ops :
              Asks(t, o, n) /\ Asks(u, o2, n) => t = u

Undestroyed(n) == \A t \in Threads : ~Asks(t, "destroy", n)

Idle(n) == \A t \in Threads : name[t] = n => pc[t] = "idle"

(* The variables hold what their comments say. *)
TypeOK ==
    /\ scenario \in Scenarios
    /\ contents \in [Names -> {"none", "empty", "base", "complete"}]
    /\ enabled \in [Names -> BOOLEAN]
    /\ provisioned \in [Names -> BOOLEAN]
    /\ configured \in [Names -> BOOLEAN]
    /\ running \subseteq Names
    /\ devfs \in [Names -> 0..MaxMounts]
    /\ develop \in [Names -> 0..MaxMounts]
    /\ pc \in [Threads -> Labels]
    /\ op \in [Threads -> Ops]
    /\ name \in [Threads -> Names]
    /\ was \in [Threads -> BOOLEAN]
    /\ result \in [Threads -> {"ok", "error"}]

Kept(n) == Solo(n) \/ Undestroyed(n)

(* What makes the flag honest: who is about to set it has seen the provisioners
   of this dataset's jail through, and whoever works on a jail has asked to. *)
ProvisionedFirst ==
    \A t \in Threads :
       pc[t] # "idle" => /\ Asks(t, op[t], name[t])
                         /\ pc[t] = "set_flag" /\ Kept(name[t]) => configured[name[t]]
                         /\ pc[t] = "zfs_destroy" => op[t] = "destroy"

(* priosun:provisioned is "changed to true after provisioning succeeds"
   (README.md:164-168): a dataset that bears the flag is of a jail that the provisioners
   have been through, its successor of the same name is not taken for it.  With a
   second client, the jail must not be destroyed meanwhile (priosund.rs:236-240). *)
FlagHonest ==
    \A n \in Names : provisioned[n] /\ Kept(n) => configured[n]

(* destroy stops the jail and destroys its dataset by a later call: a jail of one
   client never runs from a root that is gone, although any call of stop may fail.  A
   second client may start it between the two (jail.rs:415-431, 651-657). *)
RunsFromItsRoot == \A n \in running : Solo(n) => Exists(n)

(* Why: a destroy that is about to take the dataset has stopped the jail. *)
StoppedFirst ==
    \A t \in Threads : pc[t] = "zfs_destroy" /\ Solo(name[t]) => name[t] \notin running

CreatePCs == {"zfs_create", "properties", "create_devfs", "install", "configure",
              "create_umount"}

StartPCs == {"start", "start_inner"}

ProvisionPCs == {"provision", "set_flag"}

LabelsOf == [up |-> {"path", "check", "set_enabled", "develop", "flag"} \union CreatePCs
                       \union StartPCs \union ProvisionPCs,
             down |-> {"stop", "undevelop"}, provision |-> ProvisionPCs,
             create |-> {"check"} \union CreatePCs, start |-> StartPCs,
             stop |-> {"stop"}, destroy |-> {"stop", "zfs_destroy"}]

Developed(n) == n \in scenario.develop

(* No umount fails, and what create or a failing start has mounted is gone at its end. *)
CleansUp == /\ ~May("create") /\ ~May("umount")
            /\ ~May("start") \/ ~May("stop")

(* Nothing but up and down starts and stops the jail, and a start does not fail. *)
OnlyUpAndDown(n) ==
    /\ ~May("start") /\ CleansUp
    /\ \A t \in Threads, o \in {"start", "stop", "destroy"} : ~Asks(t, o, n)

Count(condition) == IF condition THEN 1 ELSE 0

(* How the requests of a service's only client leave it. *)
AtRest(n) ==
    /\ contents[n] = "none" => ~configured[n]
    /\ ~May("zfs") /\ configured[n] => provisioned[n]
    /\ ~May("create") => /\ contents[n] \in {"none", "complete"}
                         /\ contents[n] = "none" => devfs[n] = 0
    /\ CleansUp => devfs[n] = Count(n \in running)
    /\ OnlyUpAndDown(n) => develop[n] = Count(n \in running /\ Developed(n))

(* What they find on their way: the jail's state, *)
FindsJail(t) ==
    LET n == name[t]
        up == op[t] = "up"
    IN
    /\ pc[t] \in CreatePCs \union {"undevelop"} => n \notin running
    /\ pc[t] = "set_flag" \/ (up /\ pc[t] \in {"flag", "provision"}) => n \in running
    /\ up /\ pc[t] \in LabelsOf["up"] \ ({"flag"} \union ProvisionPCs) => (was[t] <=> n \in running)

(* its flag, *)
FindsFlag(t) ==
    LET n == name[t] IN
    /\ pc[t] = "zfs_create" => contents[n] = "none"
    /\ contents[n] = "none" \/ pc[t] = "properties" => ~configured[n]
    /\ ~May("zfs") /\ configured[n] => provisioned[n] \/ pc[t] = "set_flag"
    /\ ~May("read") /\ op[t] = "up" /\ pc[t] = "provision" => ~provisioned[n]

(* its contents and, while it is made, its devfs, *)
FindsContents(t) ==
    LET n == name[t] IN
    /\ contents[n] \in IF pc[t] \in {"properties", "create_devfs", "install"} THEN {"empty"}
                       ELSE IF pc[t] = "configure" THEN {"base"}
                       ELSE IF \/ pc[t] = "create_umount"
                               \/ op[t] = "up" /\ pc[t] \notin {"path", "check", "zfs_create"}
                            THEN {"complete"} ELSE {"none", "complete"}
    /\ contents[n] = "none" \/ pc[t] \in CreatePCs
          => devfs[n] = Count(pc[t] \in {"install", "configure", "create_umount"})

(* its devfs from then on, *)
FindsDevfs(t) ==
    LET n == name[t] IN
    devfs[n] = Count(n \in running) + Count(pc[t] \in {"install", "configure", "create_umount"})

(* and its sources. *)
FindsSources(t) ==
    LET n == name[t] IN
    /\ pc[t] = "undevelop" => Developed(n)
    /\ pc[t] = "develop" => Developed(n) /\ ~was[t]
    /\ /\ op[t] = "up" /\ ~May("create")
       /\ pc[t] \in {"develop", "flag"} \union StartPCs \union ProvisionPCs
       => (enabled[n] <=> ~Developed(n)) /\ (Developed(n) /\ pc[t] # "develop" => develop[n] > 0 \/ was[t])
    /\ OnlyUpAndDown(n) =>
          IF pc[t] = "undevelop" THEN develop[n] \in {0, 1}
          ELSE develop[n] = Count(Developed(n) /\ (n \in running \/ pc[t] \in StartPCs))

AtWork(t) ==
    /\ pc[t] \in LabelsOf[op[t]]
    /\ FindsJail(t) /\ FindsFlag(t) /\ FindsSources(t)
    /\ ~May("create") => FindsContents(t)
    /\ CleansUp => FindsDevfs(t)

(* A service of one client is, between two requests and within one, as its client's
   requests leave it. *)
OneClient ==
    \A n \in Names : Solo(n) =>
       /\ Idle(n) => AtRest(n)
       /\ \A t \in Threads : name[t] = n /\ pc[t] # "idle" => AtWork(t)

(* The inductive invariant: honest flags, roots that stay while a jail runs, and what
   one client alone does to a service adds up, as far as the calls allow that failed
   (priosund.rs:236-240, 503-539, 715-718, jail.rs:415-431, 635-683). *)
Inv == /\ TypeOK /\ ProvisionedFirst /\ FlagHonest /\ RunsFromItsRoot /\ StoppedFirst
       /\ OneClient

(* up does not provision anew what it has provisioned, unless the flag could
   not be written or read or another client was at work: a zfs get that fails reads as
   "not provisioned" (metadata.rs:28, priosund.rs:527). *)
ProvisionedOnce ==
    [][\A t \in Threads :
          /\ op[t] = "up" /\ pc[t] = "provision" /\ pc'[t] = "set_flag"
          /\ Solo(name[t]) /\ ~May("zfs") /\ ~May("read")
          => ~configured[name[t]]]_vars

(* An up that ends well leaves the service as its manifest says: running from a
   complete root, started with the host unless it is developed, provisioned, and
   with its sources mounted, unless it ran without them (priosund.rs:503-539).
   What failed before does not matter, a create that failed excepted, which is not
   noticed; and others may interfere. *)
UpDelivers ==
    [][\A t \in Threads :
          /\ op[t] = "up" /\ pc[t] # "idle" /\ pc'[t] = "idle" /\ result'[t] = "ok"
          /\ Solo(name[t]) /\ ~May("create")
          => /\ name[t] \in running' /\ contents'[name[t]] = "complete"
             /\ enabled'[name[t]] = (name[t] \notin scenario.develop)
             /\ name[t] \in scenario.provisioned
                   => configured'[name[t]] /\ provisioned'[name[t]]
             /\ name[t] \in scenario.develop => develop'[name[t]] > 0 \/ was[t]]_vars

(* down undoes the mount of up: no service directory is stacked on another, and
   none stays on a stopped jail, also when jails could not be stopped before.  A start
   that fails after the mount, an umount that fails, and jails stopped or started by
   other commands, are not made up for (priosund.rs:522-525, 715-718). *)
DevelopBalanced ==
    \A n \in Names :
       /\ Solo(n) /\ Idle(n) /\ OnlyUpAndDown(n)
       => develop[n] = (IF n \in running /\ n \in scenario.develop THEN 1 ELSE 0)

(* The same of devfs, which create mounts for itself, start for the jail, and
   stop takes away (jail.rs:143-149, 348-350, 655-657).  A create that fails between its
   mount and its umount, an umount that fails and a failing start that cannot take its
   jail back leave one behind (jail.rs:585-632, 665-683). *)
DevfsBalanced ==
    \A n \in Names :
       Solo(n) /\ Idle(n) /\ CleansUp
          => devfs[n] = IF n \in running THEN 1 ELSE 0

(* What up and create mount is taken back, by them or by down. *)
MountsBalanced == DevelopBalanced /\ DevfsBalanced
=============================================================================
