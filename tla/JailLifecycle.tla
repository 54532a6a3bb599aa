--------------------------- MODULE JailLifecycle ---------------------------
(* Starting and stopping jails: start, start_inner, stop, unmount_devfs and *)
(* cleanup_epair of src/src/jail.rs, as the connection threads of priosund  *)
(* (src/src/bin/priosund.rs) run them, concurrently and without a lock.     *)
(* One action is one call that reads or changes the host: between two of    *)
(* them any other request may run.  Every jail exists on disk here; a jail  *)
(* is its name.                                                             *)
EXTENDS Net, FiniteSets

CONSTANTS
    Jails,          \* names of the managed jails
    Jids,           \* jail ids the kernel may hand out
    Threads,        \* connection threads of the daemon
    Scenarios,      \* what clients ask for and what may go wrong, see below
    MaxMounts       \* bound: devfs instances stacked on one dev directory

Calls == {"create", "setup", "bridge", "mount", "jail", "move", "rename",
          "rc", "unbridge", "destroy", "remove", "busy"}

ASSUME JailAssumption ==
    /\ Jids \subseteq Nat \ {0}
    /\ Scenarios \subseteq
          [requests: SUBSET (Threads \X {"start", "stop"} \X Jails),
           faults: SUBSET Calls]
    /\ MaxMounts \in Nat

VARIABLES
    scenario,       \* requests: what each thread may be asked; faults: host calls
                    \* that may fail although their object is there; fixed at Init
    vnet,           \* jid of the vnet each epair's b half is in, None: the host
    renamed,        \* units whose b half bears the name eth0
    running,        \* kernel table: jid of the running jail of each name, or None
    domainname,     \* kernel table: host.domainname, the recorded epair
    mounts,         \* devfs instances mounted on each jail's dev directory
    stuck,          \* history: epairs that were there when the call that was to
                    \* take them away failed
    pc,             \* the next host call of each thread
    jail,           \* the jail of the thread's request, or None
    epair,          \* local epair_a
    jid             \* local running.jid

bhalves == <<vnet, renamed>>
kernel  == <<running, domainname>>
host    == <<ifaces, bridge, vnet, renamed, running, domainname, mounts, stuck>>
request == <<jail, epair, jid>>
vars    == <<scenario, host, pc, request>>

(* The calls of start_inner in order, then the three ways it is undone: the
   tail of one list from "undo_stop", and the list from "late_bridge" whose
   first two calls are cleanup_epair; then the calls of stop. *)
BuildPCs == {"setup", "bridge_add", "mount", "jail_start"}
RunPCs   == {"move", "rename", "rc"}
UndoPCs  == {"undo_stop", "undo_umount", "undo_bridge", "undo_destroy"}
LatePCs  == {"late_bridge", "late_destroy", "late_stop", "late_umount"}
StopPCs  == {"stop_bridge", "stop_destroy", "stop_remove", "stop_umount"}
PCs == {"idle", "create"} \union BuildPCs \union RunPCs \union UndoPCs
       \union LatePCs \union StopPCs

Init ==
    /\ scenario \in Scenarios
    /\ NetInit
    /\ vnet = [u \in Units |-> None]
    /\ renamed = {}
    /\ running = [j \in Jails |-> None]
    /\ domainname = [j \in Jails |-> None]
    /\ mounts = [j \in Jails |-> 0]
    /\ stuck = {}
    /\ pc = [t \in Threads |-> "idle"]
    /\ jail = [t \in Threads |-> None]
    /\ epair = [t \in Threads |-> None]
    /\ jid = [t \in Threads |-> None]

Goto(t, label) == pc' = [pc EXCEPT ![t] = label]

Return(t) == /\ Goto(t, "idle")
             /\ jail' = [jail EXCEPT ![t] = None]
             /\ epair' = [epair EXCEPT ![t] = None]
             /\ jid' = [jid EXCEPT ![t] = None]

Asked(t, operation, j) == <<t, operation, j>> \in scenario.requests

MayFail(call) == call \in scenario.faults

Alive(k) == \E j \in Jails : k # None /\ running[j] = k

(* An epair takes its b half with it, wherever that half is. *)
DestroyEpair(u) ==
    /\ DestroyInterface(u)
    /\ vnet' = [vnet EXCEPT ![u] = None]
    /\ renamed' = renamed \ {u}
    /\ stuck' = stuck \ {u}

(* The two ioctls fail for what is not there, and may fail for what is. *)
DeleteFails(u)  == MayFail("unbridge") \/ u \notin bridge
DestroyFails(u) == MayFail("destroy") \/ u \notin ifaces

(* jail_remove by jid: the vnet goes with the jail and its epairs come home,
   under the name they have. *)
RemoveJail(k) ==
    /\ Alive(k)
    /\ running' = [j \in Jails |-> IF running[j] = k THEN None ELSE running[j]]
    /\ domainname' = [j \in Jails |-> IF running[j] = k THEN None ELSE domainname[j]]
    /\ vnet' = [u \in Units |-> IF vnet[u] = k THEN None ELSE vnet[u]]
    /\ UNCHANGED renamed

(* umount takes the topmost devfs off the directory, whoever mounted it. *)
Umount(j) == /\ mounts[j] > 0
             /\ mounts' = [mounts EXCEPT ![j] = @ - 1]

-----------------------------------------------------------------------------
(* start, start_inner *)

(* start: a jail whose name is running is left alone; otherwise start_inner
   is entered, and the answer to "is it running" grows stale from here on. *)
BeginStart(t, j) ==
    /\ pc[t] = "idle"
    /\ Asked(t, "start", j)
    /\ running[j] = None
    /\ Goto(t, "create")
    /\ jail' = [jail EXCEPT ![t] = j]
    /\ UNCHANGED <<host, epair, jid>>

CreateEpair(t) ==
    /\ pc[t] = "create"
    /\ \E u \in Units : /\ CreateInterface(u)
                        /\ epair' = [epair EXCEPT ![t] = u]
    /\ Goto(t, "setup")
    /\ UNCHANGED <<bhalves, kernel, mounts, stuck, jail, jid>>

CreateFails(t) ==
    /\ pc[t] = "create"
    /\ MayFail("create") \/ ifaces = Units
    /\ Return(t)
    /\ UNCHANGED host

(* net::group_add and net::set_up *)
SetUpEpair(t) ==
    /\ pc[t] = "setup"
    /\ \/ /\ epair[t] \in ifaces
          /\ Goto(t, "bridge_add")
       \/ /\ MayFail("setup") \/ epair[t] \notin ifaces
          /\ Goto(t, "undo_destroy")
    /\ UNCHANGED <<host, request>>

AddToBridge(t) ==
    /\ pc[t] = "bridge_add"
    /\ BridgeAdd(epair[t])
    /\ Goto(t, "mount")
    /\ UNCHANGED <<bhalves, kernel, mounts, stuck, request>>

AddToBridgeFails(t) ==
    /\ pc[t] = "bridge_add"
    /\ MayFail("bridge") \/ epair[t] \notin ifaces \/ epair[t] \in bridge
    /\ Goto(t, "undo_destroy")
    /\ UNCHANGED <<host, request>>

MountDevfs(t) ==
    /\ pc[t] = "mount"
    /\ mounts[jail[t]] < MaxMounts
    /\ mounts' = [mounts EXCEPT ![jail[t]] = @ + 1]
    /\ Goto(t, "jail_start")
    /\ UNCHANGED <<ifaces, bridge, bhalves, kernel, stuck, request>>

(* mutant: the error of mount returned with "?" *)
MountDevfsFailsReturns(t) ==
    /\ pc[t] = "mount"
    /\ MayFail("mount") \/ mounts[jail[t]] = MaxMounts
    /\ Return(t)
    /\ UNCHANGED host

MountDevfsFails(t) ==
    /\ pc[t] = "mount"
    /\ MayFail("mount") \/ mounts[jail[t]] = MaxMounts
    /\ Goto(t, "undo_bridge")
    /\ UNCHANGED <<host, request>>

(* The kernel numbers jails consecutively, so a jid that a request still holds
   is not handed out again; names are unique. *)
FreeJids == Jids \ ({running[j] : j \in Jails} \union {jid[t] : t \in Threads})

StartJail(t) ==
    /\ pc[t] = "jail_start"
    /\ running[jail[t]] = None
    /\ \E k \in FreeJids :
          /\ \A l \in FreeJids : k <= l
          /\ running' = [running EXCEPT ![jail[t]] = k]
          /\ jid' = [jid EXCEPT ![t] = k]
    /\ domainname' = [domainname EXCEPT ![jail[t]] = epair[t]]
    /\ Goto(t, "move")
    /\ UNCHANGED <<ifaces, bridge, bhalves, mounts, stuck, jail, epair>>

(* mutant: the clean-up forgets the devfs *)
StartJailFailsKeepsDevfs(t) ==
    /\ pc[t] = "jail_start"
    /\ MayFail("jail") \/ running[jail[t]] # None \/ FreeJids = {}
    /\ Goto(t, "undo_bridge")
    /\ UNCHANGED <<host, request>>

StartJailFails(t) ==
    /\ pc[t] = "jail_start"
    /\ MayFail("jail") \/ running[jail[t]] # None \/ FreeJids = {}
    /\ Goto(t, "undo_umount")
    /\ UNCHANGED <<host, request>>

(* net::move_to_vnet names the b half, which must still be on the host. *)
CanMove(t) == /\ epair[t] \in ifaces \ renamed
              /\ vnet[epair[t]] = None
              /\ Alive(jid[t])

MoveToVnet(t) ==
    /\ pc[t] = "move"
    /\ CanMove(t)
    /\ vnet' = [vnet EXCEPT ![epair[t]] = jid[t]]
    /\ Goto(t, "rename")
    /\ UNCHANGED <<ifaces, bridge, renamed, kernel, mounts, stuck, request>>

(* mutant: the clean-up forgets the jail *)
MoveToVnetFailsKeepsJail(t) ==
    /\ pc[t] = "move"
    /\ MayFail("move") \/ ~CanMove(t)
    /\ Goto(t, "undo_umount")
    /\ UNCHANGED <<host, request>>

MoveToVnetFails(t) ==
    /\ pc[t] = "move"
    /\ MayFail("move") \/ ~CanMove(t)
    /\ Goto(t, "undo_stop")
    /\ UNCHANGED <<host, request>>

(* net::rename_in_jail enters the jail by jid and renames the b half. *)
InVnet(t) == /\ epair[t] \in ifaces \ renamed
             /\ vnet[epair[t]] = jid[t]
             /\ Alive(jid[t])

RenameInJail(t) ==
    /\ pc[t] = "rename"
    /\ InVnet(t)
    /\ renamed' = renamed \union {epair[t]}
    /\ Goto(t, "rc")
    /\ UNCHANGED <<ifaces, bridge, vnet, kernel, mounts, stuck, request>>

RenameInJailFails(t) ==
    /\ pc[t] = "rename"
    /\ MayFail("rename") \/ ~InVnet(t)
    /\ Goto(t, "late_bridge")
    /\ UNCHANGED <<host, request>>

(* jexec runs /etc/rc in whatever jail now bears the name; it is killed, and
   fails, when the jail it entered is removed. *)
RcSucceeds(t) ==
    /\ pc[t] = "rc"
    /\ running[jail[t]] # None
    /\ Return(t)
    /\ UNCHANGED host

(* mutant: without cleanup_epair *)
RcFailsKeepsEpair(t) ==
    /\ pc[t] = "rc"
    /\ MayFail("rc") \/ running[jail[t]] # jid[t]
    /\ Goto(t, "late_stop")
    /\ UNCHANGED <<host, request>>

RcFails(t) ==
    /\ pc[t] = "rc"
    /\ MayFail("rc") \/ running[jail[t]] # jid[t]
    /\ Goto(t, "late_bridge")
    /\ UNCHANGED <<host, request>>

-----------------------------------------------------------------------------
(* The clean-up of a failed start: "let _ =" ignores every error. *)

UndoStop(t) ==
    /\ \/ pc[t] = "undo_stop" /\ Goto(t, "undo_umount")
       \/ pc[t] = "late_stop" /\ Goto(t, "late_umount")
    /\ \/ RemoveJail(jid[t])
       \/ /\ MayFail("remove") \/ ~Alive(jid[t])
          /\ UNCHANGED <<kernel, bhalves>>
    /\ UNCHANGED <<ifaces, bridge, mounts, stuck, request>>

(* one umount, no retry: a directory still busy keeps its devfs *)
TryUmount(t) ==
    \/ Umount(jail[t])
    \/ (MayFail("busy") \/ mounts[jail[t]] = 0) /\ UNCHANGED mounts

UndoUmount(t) ==
    /\ pc[t] = "undo_umount"
    /\ TryUmount(t)
    /\ Goto(t, "undo_bridge")
    /\ UNCHANGED <<ifaces, bridge, bhalves, kernel, stuck, request>>

UndoBridge(t) ==
    /\ pc[t] = "undo_bridge"
    /\ BridgeDelete(epair[t]) \/ (DeleteFails(epair[t]) /\ UNCHANGED netVars)
    /\ Goto(t, "undo_destroy")
    /\ UNCHANGED <<bhalves, kernel, mounts, stuck, request>>

(* net::destroy of the clean-ups: when it fails, nobody tries again *)
TryDestroy(t) ==
    \/ DestroyEpair(epair[t])
    \/ /\ DestroyFails(epair[t])
       /\ stuck' = stuck \union ({epair[t]} \intersect ifaces)
       /\ UNCHANGED <<netVars, bhalves>>

UndoDestroy(t) ==
    /\ pc[t] = "undo_destroy"
    /\ TryDestroy(t)
    /\ Return(t)
    /\ UNCHANGED <<kernel, mounts>>

(* cleanup_epair: the "?" after bridge_delete skips the destroy *)
LateBridge(t) ==
    /\ pc[t] = "late_bridge"
    /\ \/ /\ BridgeDelete(epair[t])
          /\ Goto(t, "late_destroy")
          /\ UNCHANGED stuck
       \/ /\ DeleteFails(epair[t])
          /\ Goto(t, "late_stop")
          /\ stuck' = stuck \union ({epair[t]} \intersect bridge)
          /\ UNCHANGED netVars
    /\ UNCHANGED <<bhalves, kernel, mounts, request>>

LateDestroy(t) ==
    /\ pc[t] = "late_destroy"
    /\ TryDestroy(t)
    /\ Goto(t, "late_stop")
    /\ UNCHANGED <<kernel, mounts, request>>

LateUmount(t) ==
    /\ pc[t] = "late_umount"
    /\ TryUmount(t)
    /\ Return(t)
    /\ UNCHANGED <<ifaces, bridge, bhalves, kernel, stuck>>

-----------------------------------------------------------------------------
(* stop: a jail that is not running is left alone.  The lookup and the read of
   host.domainname are one step, for a jail removed between the two makes stop
   return an error and changes nothing. *)
BeginStop(t, j) ==
    /\ pc[t] = "idle"
    /\ Asked(t, "stop", j)
    /\ running[j] # None
    /\ Goto(t, "stop_bridge")
    /\ jail' = [jail EXCEPT ![t] = j]
    /\ epair' = [epair EXCEPT ![t] = domainname[j]]
    /\ jid' = [jid EXCEPT ![t] = running[j]]
    /\ UNCHANGED host

StopBridge(t) ==
    /\ pc[t] = "stop_bridge"
    /\ BridgeDelete(epair[t])
    /\ Goto(t, "stop_destroy")
    /\ UNCHANGED <<bhalves, kernel, mounts, stuck, request>>

StopDestroy(t) ==
    /\ pc[t] = "stop_destroy"
    /\ DestroyEpair(epair[t])
    /\ Goto(t, "stop_remove")
    /\ UNCHANGED <<kernel, mounts, request>>

StopRemove(t) ==
    /\ pc[t] = "stop_remove"
    /\ RemoveJail(jid[t])
    /\ Goto(t, "stop_umount")
    /\ UNCHANGED <<ifaces, bridge, mounts, stuck, request>>

(* any of the three calls fails: "?" returns at once, and the jail runs on *)
StopCallFails(t) ==
    /\ \/ pc[t] = "stop_bridge" /\ DeleteFails(epair[t]) /\ UNCHANGED stuck
       \/ /\ pc[t] = "stop_destroy" /\ DestroyFails(epair[t])
          /\ stuck' = stuck \union ({epair[t]} \intersect ifaces)
       \/ /\ pc[t] = "stop_remove" /\ (MayFail("remove") \/ ~Alive(jid[t]))
          /\ UNCHANGED stuck
    /\ Return(t)
    /\ UNCHANGED <<ifaces, bridge, bhalves, kernel, mounts>>

(* unmount_devfs: up to 50 tries, 100 ms apart *)
StopUmount(t) ==
    /\ pc[t] = "stop_umount"
    /\ Umount(jail[t])
    /\ Return(t)
    /\ UNCHANGED <<ifaces, bridge, bhalves, kernel, stuck>>

(* the last try failed: bail *)
StopUmountGivesUp(t) ==
    /\ pc[t] = "stop_umount"
    /\ MayFail("busy") \/ mounts[jail[t]] = 0
    /\ Return(t)
    /\ UNCHANGED host

-----------------------------------------------------------------------------
StartStep(t) ==
    \/ CreateEpair(t) \/ CreateFails(t) \/ SetUpEpair(t)
    \/ AddToBridge(t) \/ AddToBridgeFails(t)
    \/ MountDevfs(t) \/ MountDevfsFails(t)
    \/ StartJail(t) \/ StartJailFails(t)
    \/ MoveToVnet(t) \/ MoveToVnetFails(t)
    \/ RenameInJail(t) \/ RenameInJailFails(t)
    \/ RcSucceeds(t) \/ RcFails(t)

UndoStep(t) ==
    \/ UndoStop(t) \/ UndoUmount(t) \/ UndoBridge(t) \/ UndoDestroy(t)
    \/ LateBridge(t) \/ LateDestroy(t) \/ LateUmount(t)

StopStep(t) ==
    \/ StopBridge(t) \/ StopDestroy(t) \/ StopRemove(t) \/ StopCallFails(t)
    \/ StopUmount(t) \/ StopUmountGivesUp(t)

Step(t) == (StartStep(t) \/ UndoStep(t) \/ StopStep(t)) /\ UNCHANGED scenario

Next == \E t \in Threads :
           \/ Step(t)
           \/ \E j \in Jails : /\ BeginStart(t, j) \/ BeginStop(t, j)
                              /\ UNCHANGED scenario

Spec == Init /\ [][Next]_vars

-----------------------------------------------------------------------------
(* The variables hold what their comments say. *)
TypeOK ==
    /\ scenario \in Scenarios
    /\ NetTypeOK
    /\ vnet \in [Units -> Jids \union {None}]
    /\ renamed \subseteq ifaces
    /\ running \in [Jails -> Jids \union {None}]
    /\ domainname \in [Jails -> Units \union {None}]
    /\ mounts \in [Jails -> 0..MaxMounts]
    /\ stuck \subseteq ifaces
    /\ pc \in [Threads -> PCs]
    /\ jail \in [Threads -> Jails \union {None}]
    /\ \A t \in Threads : pc[t] # "idle" => jail[t] \in Jails
    /\ epair \in [Threads -> Units \union {None}]
    /\ jid \in [Threads -> Jids \union {None}]

(* No epair is forgotten but by the call that was to take it away (jail.rs:563-630,
   651, 685-691): whatever fails and however starts and stops interleave, an epair
   belongs to a request in progress or is recorded in a running jail, where stop
   finds it, unless the bridge_delete or the destroy of its own clean-up failed
   though it was there. *)
NoOrphanEpair ==
    \A u \in ifaces \ stuck :
        \/ \E t \in Threads : pc[t] # "idle" /\ epair[t] = u
        \/ \E j \in Jails : running[j] # None /\ domainname[j] = u

(* A jail that anybody may be asked to stop has one client, who does one thing
   at a time; and jail_remove and umount do not fail.  Without the first, two
   requests undo each other's work; without the second, nothing undoes it. *)
Orderly ==
    /\ \A s, t \in Threads, j \in Jails :
          Asked(s, "stop", j) /\ (Asked(t, "start", j) \/ Asked(t, "stop", j)) => s = t
    /\ ~MayFail("remove") /\ ~MayFail("busy")

(* bridge_delete and destroy fail for what is not there only. *)
EpairsGo == ~MayFail("unbridge") /\ ~MayFail("destroy")

(* No request is working on jail j. *)
Settled(j) == \A t \in Threads : pc[t] # "idle" => jail[t] # j

Networked(j) ==
    LET u == domainname[j]
    IN  u \in bridge \intersect renamed /\ vnet[u] = running[j]

(* What start promises and stop relies on, of a jail that no request is working
   on: if it runs, its devfs is mounted once and its recorded epair has one half in
   the bridge and the other, as eth0, in the jail's own vnet - unless a stop failed
   half-way at its epair; if it does not run, failed starts and stops have left no
   devfs behind (jail.rs:574-588, 603, 611, 620, 628, 651-657). *)
SettledJail ==
    Orderly =>
    \A j \in Jails : Settled(j) =>
        IF running[j] # None THEN mounts[j] = 1 /\ (EpairsGo => Networked(j))
                             ELSE mounts[j] = 0

(* A start that returns an error has taken its jail back, whichever call of it
   failed (jail.rs:563-630). *)
FailedStartLeavesNoJail ==
    [][\A t \in Threads :
          /\ Orderly /\ (\A s \in Threads \ {t} : ~Asked(s, "start", jail[t]))
          /\ pc[t] \in {"create"} \union UndoPCs \union LatePCs
          /\ pc'[t] = "idle"
          => running'[jail[t]] = None]_vars

-----------------------------------------------------------------------------
(* Why NoOrphanEpair is inductive, for an epair that is not stuck.  A request that
   will still destroy u, or has not put it in the bridge yet, answers for u.  So does, while u is in the
   bridge, a request that is about to start a jail on it or a running jail that
   records it - unless some request has passed its bridge_delete for that jail
   and is about to remove it, for it will never destroy u again: u then bears
   the name of an epair that is gone. *)
Destroying(t, u) == /\ epair[t] = u
                    /\ pc[t] \in UndoPCs \union {"late_destroy", "stop_destroy"}

Unbridged(t, u) == epair[t] = u /\ pc[t] \in {"setup", "bridge_add"}

Bridged(t, u) == epair[t] = u /\ pc[t] \in {"mount", "jail_start"}

Stripped(j) == \E t \in Threads : /\ pc[t] \in {"late_stop", "stop_remove"}
                                  /\ jid[t] = running[j]

Answers(u) ==
    \/ \E t \in Threads : Destroying(t, u) \/ Unbridged(t, u)
    \/ /\ u \in bridge
       /\ \/ \E t \in Threads : Bridged(t, u)
          \/ \E j \in Jails : /\ running[j] # None
                              /\ domainname[j] = u
                              /\ ~Stripped(j)

(* Somebody answers for every epair that no failing call has left behind
   (jail.rs:563-630, 651, 685-691). *)
EpairAnswered == \A u \in ifaces \ stuck : Answers(u)

(* A jid is of one jail, and is known to a request only after it has an epair. *)
JidsDistinct == \A i, j \in Jails :
                   running[i] = running[j] /\ running[i] # None => i = j

JidLate == \A t \in Threads : pc[t] \in {"idle", "create"} => jid[t] = None

(* The jid that a request holds and the epair that it holds belong together. *)
RecordMatches == \A t \in Threads, j \in Jails :
                    jid[t] # None /\ running[j] = jid[t] => domainname[j] = epair[t]

(* Why SettledJail is inductive, while nobody meddles with a jail that somebody may
   stop.  A request is for what its thread may be asked. *)
AsAsked == \A t \in Threads : pc[t] # "idle" =>
              Asked(t, IF pc[t] \in StopPCs THEN "stop" ELSE "start", jail[t])

WorkingPCs == RunPCs \union {"undo_stop", "late_bridge", "late_destroy", "late_stop",
                             "stop_bridge", "stop_destroy", "stop_remove"}

(* From the moment it is started, or looked up, until it is removed a jail is held by
   one request, which alone knows its jid. *)
JailsHeld ==
    /\ \A t \in Threads : pc[t] \in WorkingPCs => jid[t] # None /\ running[jail[t]] = jid[t]
    /\ \A t \in Threads, j \in Jails :
          jid[t] # None /\ running[j] = jid[t] => pc[t] \in WorkingPCs /\ jail[t] = j
    /\ \A s, t \in Threads : jid[s] = jid[t] /\ jid[s] # None => s = t

(* A start that no other competes with finds its jail not running, until it starts it
   and after it has removed it. *)
NotRunning ==
    \A t \in Threads :
       /\ pc[t] \in {"create", "late_umount"} \union BuildPCs \union (UndoPCs \ {"undo_stop"})
       /\ \A s \in Threads \ {t} : ~Asked(s, "start", jail[t])
       => running[jail[t]] = None

Resting(j) == running[j] # None /\ \A t \in Threads : jid[t] # running[j]

OwningPCs == (BuildPCs \union WorkingPCs \union UndoPCs) \ {"late_stop", "stop_remove"}

(* Where the epair of a request is. *)
EpairPlaced(t) ==
    LET u == epair[t] IN
    /\ pc[t] \in OwningPCs => u \in ifaces
    /\ pc[t] \in {"setup", "bridge_add"} => u \notin bridge
    /\ pc[t] \in {"mount", "jail_start", "undo_stop", "undo_umount", "undo_bridge",
                  "late_bridge", "stop_bridge"} \union RunPCs => u \in bridge
    /\ pc[t] \in BuildPCs \union {"move"} => vnet[u] = None /\ u \notin renamed
    /\ pc[t] = "rename" => vnet[u] = jid[t]
    /\ pc[t] = "rc" => vnet[u] = jid[t] /\ u \in renamed

EpairsPlaced == /\ \A t \in Threads : EpairPlaced(t)
                /\ \A u \in Units \ ifaces : vnet[u] = None

(* No two requests, no two jails, no request and jail have an epair in common. *)
EpairsOwned ==
    /\ \A s, t \in Threads :
          pc[s] \in OwningPCs /\ pc[t] \in OwningPCs /\ epair[s] = epair[t] => s = t
    /\ \A t \in Threads, j \in Jails :
          pc[t] \in OwningPCs /\ Resting(j) => domainname[j] # epair[t]
    /\ \A i, j \in Jails : Resting(i) /\ Resting(j) /\ domainname[i] = domainname[j] => i = j

JailsNetworked == \A j \in Jails : Resting(j) => Networked(j)

MountedPCs == {"jail_start", "undo_umount", "late_umount", "stop_umount"} \union WorkingPCs

Mounters(j) == {t \in Threads : pc[t] \in MountedPCs /\ jail[t] = j}

(* Every devfs is of a request that will unmount it, or of a jail that runs. *)
MountsCounted ==
    \A j \in Jails :
       /\ IsFiniteSet(Mounters(j))
       /\ mounts[j] = Cardinality(Mounters(j)) + (IF Resting(j) THEN 1 ELSE 0)

NobodyMeddles == AsAsked /\ JailsHeld /\ NotRunning /\ MountsCounted

EpairsHeld == EpairsPlaced /\ EpairsOwned /\ JailsNetworked

(* The inductive invariant: records, jids and epairs match, and somebody answers
   for every epair; while nobody meddles with others' jails, jails and devfs have
   one owner each, and so have epairs while they go when told (jail.rs:563-657). *)
Inv == /\ TypeOK /\ JidsDistinct /\ JidLate /\ RecordMatches /\ EpairAnswered
       /\ Orderly => NobodyMeddles
       /\ Orderly /\ EpairsGo => EpairsHeld
=============================================================================
