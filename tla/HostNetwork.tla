---------------------------- MODULE HostNetwork ----------------------------
(* network-init (src/src/network.rs): a sequence of edits of host files    *)
(* and of calls, run again by whoever asks again, with no lock and no      *)
(* record of how far an earlier one came.  Other clients start and stop    *)
(* the network jail meanwhile; JailLifecycle takes that apart.  The texts  *)
(* of the configuration files are left out but for the families, the key   *)
(* and the servers that they name.  A file is written by fs::write, which  *)
(* empties it first: two steps for the files that somebody may read in     *)
(* between, and for all a cut file when the write fails or the daemon dies. *)
EXTENDS Naturals, FiniteSets, SequencesExt

CONSTANTS
    Threads,        \* connection threads of the daemon
    Dirs,           \* directories that projects_dir may name
    AdminLines,     \* lines of /etc/exports that are the administrator's
    MaxMounts,      \* nullfs mounts on the jail's /var/unbound, a bound
    Scenarios       \* what clients ask for and what may go wrong, see below

Families == {4, 6}

Faults == {"host", "exports", "nfs", "create", "packages", "network", "kea_key", "knot_key",
           "services", "mount", "start", "hints", "unbound", "restart", "resolvconf"}

(* The configuration file as a request finds it.  missing stands for a
   projects_dir that is no directory, override for a non-empty dns_override. *)
Configs == [families: SUBSET Families, projects: Dirs \union {"missing"},
            override: BOOLEAN]

Servers == {"local", "isp", "override", "1.1.1.1"}

ASSUME NetworkAssumption ==
    /\ MaxMounts \in Nat \ {0}
    /\ {"missing", "V4"} \intersect (Dirs \union AdminLines) = {}
    /\ Dirs \intersect AdminLines = {}
    /\ \A s \in Scenarios :
          /\ s.inits \subseteq Threads \X Configs
          /\ s.others \subseteq Threads
          /\ s.faults \subseteq Faults
          /\ s.failures \in Nat /\ s.restarts \in Nat /\ s.keys \in Nat
          /\ s.stacking \in BOOLEAN /\ s.lease \in BOOLEAN
          /\ s.resolv \subseteq {"local", "isp"}
          /\ s.exports \in Seq(AdminLines \union {"V4"})

VARIABLES
    scenario,       \* inits: who may ask for network-init and what is configured
                    \* then; others: threads that start and stop the jail; faults:
                    \* calls that may fail, failures: how many do in all; restarts:
                    \* deaths of the daemon; keys: DDNS keys ever generated, a bound;
                    \* stacking: nullfs mounts twice (FreeBSD may refuse); lease:
                    \* the host has its name servers from DHCP; resolv, exports:
                    \* files at Init
    bridge,         \* families of the bridge in /etc/rc.conf
    exports,        \* lines of /etc/exports: "V4", a directory's, an administrator's
    jail,           \* the network jail's dataset: none, partial or whole
    packages,       \* kea and knot3 are installed in it
    jailnet,        \* families of eth0 in its rc.conf, none for DHCP
    keaKey, knotKey,    \* the DDNS key in the two files, 0 for no or a cut file
    keys,           \* keys generated so far
    served,         \* families that the configurations of kea and knot serve, none
                    \* when they are cut; the same of listens
    mounts,         \* nullfs mounts on the jail's /var/unbound
    running, loaded,    \* the jail runs, with the keys that its services have read
    hints,          \* root.hints: none, partial or whole
    listens,        \* families that unbound.conf listens on
    forward,        \* servers of forward.conf
    resolv,         \* servers of /etc/resolv.conf
    managed,        \* /etc/resolvconf.conf is priosun's
    pc,             \* the next call of each thread
    config,         \* its configuration
    lines, key,     \* its copy of the lines of /etc/exports, its new key,
    servers,        \* the servers that it is about to write to forward.conf
    result,         \* how its last request ended
    failures, restarts  \* failed calls and daemon deaths so far

nfs     == <<bridge, exports>>
dataset == <<jail, packages, jailnet>>
dns     == <<keaKey, knotKey, keys, served>>
instance == <<mounts, running, loaded>>
unbound == <<hints, listens, forward, resolv, managed>>
copies  == <<lines, key, servers>>
locals  == <<config, copies, result>>
world   == <<scenario, failures, restarts>>
vars    == <<nfs, dataset, dns, instance, unbound, pc, locals, world>>

BeforeKey == {"host", "nfs", "exports", "exports_write", "jail", "create", "zfs_create",
              "unpack", "packages", "network", "kea_key"}

PCs == {"idle", "kea_key_write", "knot_key", "knot_key_write", "services", "mount",
        "start", "booting", "hints", "fetching", "unbound", "forward", "forward_write",
        "manage", "restart", "resolvconf"} \union BeforeKey

NoConfig == [families |-> {}, projects |-> "missing", override |-> FALSE]

Init ==
    /\ scenario \in Scenarios
    /\ bridge = {} /\ exports = scenario.exports
    /\ jail = "none" /\ packages = FALSE /\ jailnet = {}
    /\ keaKey = 0 /\ knotKey = 0 /\ keys = 0 /\ served = {}
    /\ mounts = 0 /\ running = FALSE /\ loaded = <<0, 0>>
    /\ hints = "none" /\ listens = {} /\ forward = {} /\ managed = FALSE
    /\ resolv = scenario.resolv
    /\ pc = [t \in Threads |-> "idle"]
    /\ config = [t \in Threads |-> NoConfig]
    /\ lines = [t \in Threads |-> <<>>]
    /\ key = [t \in Threads |-> 0]
    /\ servers = [t \in Threads |-> {}]
    /\ result = [t \in Threads |-> "none"]
    /\ failures = 0 /\ restarts = 0

May(fault) == fault \in scenario.faults /\ failures < scenario.failures

(* Every step of init: it goes on with the next call, or its error is returned.
   What a failing call has done already is in the action. *)
Goes(t, from, to) ==
    /\ pc[t] = from
    /\ pc' = [pc EXCEPT ![t] = to]
    /\ UNCHANGED <<config, result, world>>

Step(t, from, to) == Goes(t, from, to) /\ UNCHANGED copies

Returns(t, from, outcome) ==
    /\ pc[t] = from
    /\ pc' = [pc EXCEPT ![t] = "idle"]
    /\ config' = [config EXCEPT ![t] = NoConfig]
    /\ lines' = [lines EXCEPT ![t] = <<>>]
    /\ key' = [key EXCEPT ![t] = 0]
    /\ servers' = [servers EXCEPT ![t] = {}]
    /\ result' = [result EXCEPT ![t] = outcome]
    /\ UNCHANGED <<scenario, restarts>>

Ends(t, from, outcome) == Returns(t, from, outcome) /\ UNCHANGED failures

Fails(t, from, fault) ==
    May(fault) /\ Returns(t, from, "error") /\ failures' = failures + 1

-----------------------------------------------------------------------------
(* init *)

(* "use_ipv4 or use_ipv6 must be enabled" *)
Refused(c) == c.families = {}

(* scenario.keys bounds the inits that begin *)
Begin(t, c) ==
    /\ pc[t] = "idle"
    /\ <<t, c>> \in scenario.inits
    /\ keys + Cardinality({s \in Threads : pc[s] \in BeforeKey}) < scenario.keys
    /\ pc' = [pc EXCEPT ![t] = IF Refused(c) THEN "idle" ELSE "host"]
    /\ config' = [config EXCEPT ![t] = IF Refused(c) THEN NoConfig ELSE c]
    /\ result' = [result EXCEPT ![t] = IF Refused(c) THEN "error" ELSE "none"]
    /\ UNCHANGED <<nfs, dataset, dns, instance, unbound, copies, world>>

(* configure_host_network: sysrc adds variables and removes none, then cloneup *)
ConfigureHost(t) ==
    /\ \/ Step(t, "host", "nfs") /\ bridge' = bridge \union config[t].families
       \/ /\ Fails(t, "host", "host")
          /\ bridge' \in {bridge, bridge \union config[t].families}
    /\ UNCHANGED <<exports, dataset, dns, instance, unbound>>

(* SelectSeq for the members of S, as a function that can be reasoned about *)
Keep(list, S) ==
    LET kept[i \in 0..Len(list)] ==
          IF i = 0 THEN <<>>
          ELSE IF list[i] \in S THEN Append(kept[i - 1], list[i]) ELSE kept[i - 1]
    IN  kept[Len(list)]

(* configure_nfs: refused without a directory and without IPv4; then the file is
   read, its V4 lines dropped *)
ReadExports(t) ==
    LET c == config[t] IN
    /\ IF c.projects = "missing" \/ 4 \notin c.families
       THEN Ends(t, "nfs", "error")
       ELSE /\ Goes(t, "nfs", "exports")
            /\ lines' = [lines EXCEPT ![t] = Keep(exports, Dirs \union AdminLines)]
            /\ UNCHANGED <<key, servers>>
    /\ UNCHANGED <<nfs, dataset, dns, instance, unbound>>

(* the export once, and V4 as the last line *)
Exported(list, dir) ==
    Append(IF dir \in ToSet(list) THEN list ELSE Append(list, dir), "V4")

(* What a write from the start of a file makes of what another init has written to
   it since it was emptied. *)
Over(new, old) == new \o SubSeq(old, Len(new) + 1, Len(old))

EmptyExports(t) ==
    /\ \/ Step(t, "exports", "exports_write") /\ exports' = <<>>
       \/ Fails(t, "exports", "exports") /\ UNCHANGED exports
    /\ UNCHANGED <<bridge, dataset, dns, instance, unbound>>

(* and the restart of the NFS services *)
WriteExports(t) ==
    LET new == Exported(lines[t], config[t].projects) IN
    /\ \/ Step(t, "exports_write", "jail") /\ exports' = Over(new, exports)
       \/ /\ Fails(t, "exports_write", "exports")
          /\ \E n \in 0..Len(new) : exports' = Over(SubSeq(new, 1, n), exports)
       \/ Fails(t, "exports_write", "nfs") /\ exports' = Over(new, exports)
    /\ UNCHANGED <<bridge, dataset, dns, instance, unbound>>

(* mutant: a jail that exists is taken for configured *)
LookForJailDone(t) ==
    /\ Step(t, "jail", IF jail = "none" THEN "create" ELSE "mount")
    /\ UNCHANGED <<nfs, dataset, dns, instance, unbound>>

(* mutant: the jail is created in any case *)
LookForJailNot(t) ==
    /\ Step(t, "jail", "create")
    /\ UNCHANGED <<nfs, dataset, dns, instance, unbound>>

(* path_exists sees a directory, not whether its creation came to an end *)
LookForJail(t) ==
    /\ Step(t, "jail", IF jail = "none" THEN "create" ELSE "packages")
    /\ UNCHANGED <<nfs, dataset, dns, instance, unbound>>

(* jail::create, see Provisioning: it fails on a jail that another init has begun to
   make meanwhile, *)
CheckJail(t) ==
    /\ \/ jail = "none" /\ Step(t, "create", "zfs_create")
       \/ jail # "none" /\ Ends(t, "create", "error")
    /\ UNCHANGED <<nfs, dataset, dns, instance, unbound>>

(* but zfs create -p is content with its dataset.  Everybody sees the jail now. *)
CreateJail(t) ==
    /\ \/ /\ Step(t, "zfs_create", "unpack")
          /\ jail' = IF jail = "none" THEN "partial" ELSE jail
       \/ Fails(t, "zfs_create", "create") /\ UNCHANGED jail
    /\ UNCHANGED <<nfs, packages, jailnet, dns, instance, unbound>>

(* The rest of it, up to the jail's rc.conf, which gets DHCP on eth0.  Two that make
   the jail at once may be in each other's way. *)
UnpackJail(t) ==
    /\ \/ Step(t, "unpack", "packages") /\ jail' = "whole" /\ jailnet' = {}
       \/ /\ \/ Fails(t, "unpack", "create")
             \/ (\E u \in Threads \ {t} : pc[u] = "unpack") /\ Ends(t, "unpack", "error")
          /\ UNCHANGED jail /\ jailnet' \in {jailnet, {}}
    /\ UNCHANGED <<nfs, packages, dns, instance, unbound>>

(* What is done in a jail that is not whole may or may not go well (external). *)
Breaks(t, call) == jail # "whole" /\ Ends(t, call, "error")

InstallPackages(t) ==
    /\ \/ Step(t, "packages", "network") /\ packages' = TRUE
       \/ (Fails(t, "packages", "packages") \/ Breaks(t, "packages")) /\ UNCHANGED packages
    /\ UNCHANGED <<nfs, jail, jailnet, dns, instance, unbound>>

(* configure_network names both families, the disabled one as NONE *)
ConfigureNetwork(t) ==
    /\ \/ Step(t, "network", "kea_key") /\ jailnet' = config[t].families
       \/ (Fails(t, "network", "network") \/ Breaks(t, "network")) /\ UNCHANGED jailnet
    /\ UNCHANGED <<nfs, jail, packages, dns, instance, unbound>>

(* configure_services generates a key, *)
GenerateKey(t) ==
    /\ keys' = keys + 1
    /\ \/ /\ Goes(t, "kea_key", "kea_key_write") /\ keaKey' = 0
          /\ key' = [key EXCEPT ![t] = keys'] /\ UNCHANGED <<lines, servers>>
       \/ Fails(t, "kea_key", "kea_key") /\ UNCHANGED keaKey
    /\ UNCHANGED <<knotKey, served, nfs, dataset, instance, unbound>>

(* writes it for kea, *)
WriteKeaKey(t) ==
    /\ \/ Step(t, "kea_key_write", "knot_key") /\ keaKey' = key[t]
       \/ Fails(t, "kea_key_write", "kea_key") /\ keaKey' \in {0, key[t]}
    /\ UNCHANGED <<knotKey, keys, served, nfs, dataset, instance, unbound>>

(* mutant: a key that knot has is kept *)
EmptyKnotKeyOnce(t) ==
    /\ \/ Step(t, "knot_key", IF knotKey = 0 THEN "knot_key_write" ELSE "services")
       \/ Fails(t, "knot_key", "knot_key")
    /\ UNCHANGED <<keaKey, knotKey, keys, served, nfs, dataset, instance, unbound>>

EmptyKnotKey(t) ==
    /\ \/ Step(t, "knot_key", "knot_key_write") /\ knotKey' = 0
       \/ Fails(t, "knot_key", "knot_key") /\ UNCHANGED knotKey
    /\ UNCHANGED <<keaKey, keys, served, nfs, dataset, instance, unbound>>

(* and for knot. *)
WriteKnotKey(t) ==
    /\ \/ Step(t, "knot_key_write", "services") /\ knotKey' = key[t]
       \/ Fails(t, "knot_key_write", "knot_key") /\ knotKey' \in {0, key[t]}
    /\ UNCHANGED <<keaKey, keys, served, nfs, dataset, instance, unbound>>

WriteServices(t) ==
    /\ \/ Step(t, "services", "mount") /\ served' = config[t].families
       \/ Fails(t, "services", "services") /\ served' \in {served, {}, config[t].families}
    /\ UNCHANGED <<keaKey, knotKey, keys, nfs, dataset, instance, unbound>>

(* mount_host_unbound does not look whether it is mounted: a second mount is refused
   or lies on the first (external) *)
MountUnbound(t) ==
    /\ \/ /\ mounts = 0 \/ (scenario.stacking /\ mounts < MaxMounts)
          /\ Step(t, "mount", "start") /\ mounts' = mounts + 1
       \/ /\ ~(mounts = 0 \/ (scenario.stacking /\ mounts < MaxMounts))
          /\ Ends(t, "mount", "error") /\ UNCHANGED mounts
       \/ Fails(t, "mount", "mount") /\ UNCHANGED mounts
    /\ UNCHANGED <<running, loaded, nfs, dataset, dns, unbound>>

(* A jail that runs is not restarted: its services keep what they have read.  One that
   another init is starting runs, too. *)
StartJail(t) ==
    /\ \/ running /\ Step(t, "start", "hints") /\ UNCHANGED <<running, loaded>>
       \/ /\ ~running /\ Step(t, "start", "booting")
          /\ running' = TRUE /\ loaded' = <<keaKey, knotKey>>
       \/ Fails(t, "start", "start") /\ UNCHANGED <<running, loaded>>
    /\ UNCHANGED <<mounts, nfs, dataset, dns, unbound>>

(* Its /etc/rc has ended; a start that fails takes the jail back. *)
BootJail(t) ==
    /\ \/ running /\ Step(t, "booting", "hints") /\ UNCHANGED <<running, loaded>>
       \/ /\ \/ Fails(t, "booting", "start") \/ Breaks(t, "booting")
             \/ ~running /\ Ends(t, "booting", "error")
          /\ running' = FALSE /\ loaded' = <<0, 0>>
    /\ UNCHANGED <<mounts, nfs, dataset, dns, unbound>>

-----------------------------------------------------------------------------
(* configure_host_unbound *)

LookForHints(t) ==
    /\ Step(t, "hints", IF hints = "none" THEN "fetching" ELSE "unbound")
    /\ hints' = IF hints = "none" THEN "partial" ELSE hints
    /\ UNCHANGED <<listens, forward, resolv, managed, nfs, dataset, dns, instance>>

(* A fetch that fails removes the file, or leaves it when it is killed (external). *)
FetchHints(t) ==
    /\ \/ Step(t, "fetching", "unbound") /\ hints' = "whole"
       \/ Fails(t, "fetching", "hints") /\ hints' \in {"none", "partial"}
    /\ UNCHANGED <<listens, forward, resolv, managed, nfs, dataset, dns, instance>>

WriteUnbound(t) ==
    /\ \/ Step(t, "unbound", "forward") /\ listens' = config[t].families
       \/ Fails(t, "unbound", "unbound") /\ listens' \in {listens, {}, config[t].families}
    /\ UNCHANGED <<hints, forward, resolv, managed, nfs, dataset, dns, instance>>

(* mutant: the local resolver is taken for one of the provider *)
UpstreamsAll(c, named) ==
    IF c.override THEN {"override"} ELSE IF named = {} THEN {"1.1.1.1"} ELSE named

(* upstream_forward_config: dns_override, or what resolv.conf names *)
Upstreams(c, named) ==
    LET others == named \ {"local"} IN
    IF c.override THEN {"override"} ELSE IF others = {} THEN {"1.1.1.1"} ELSE others

(* It is asked before forward.conf is emptied. *)
EmptyForward(t) ==
    /\ \/ /\ Goes(t, "forward", "forward_write") /\ forward' = {}
          /\ servers' = [servers EXCEPT ![t] = Upstreams(config[t], resolv)]
          /\ UNCHANGED <<lines, key>>
       \/ Fails(t, "forward", "unbound") /\ UNCHANGED forward
    /\ UNCHANGED <<hints, listens, resolv, managed, nfs, dataset, dns, instance>>

(* Of what others have written to it since, the end may stay. *)
WriteForward(t) ==
    /\ \E end \in SUBSET forward :
          \/ Step(t, "forward_write", "manage") /\ forward' = servers[t] \union end
          \/ /\ Fails(t, "forward_write", "unbound")
             /\ \E part \in SUBSET servers[t] : forward' = part \union end
    /\ UNCHANGED <<hints, listens, resolv, managed, nfs, dataset, dns, instance>>

(* /etc/resolvconf.conf; a cut one is nobody's *)
WriteResolvconf(t) ==
    /\ \/ Step(t, "manage", "restart") /\ managed' = TRUE
       \/ Fails(t, "manage", "unbound") /\ managed' \in BOOLEAN
    /\ UNCHANGED <<hints, listens, forward, resolv, nfs, dataset, dns, instance>>

RestartUnbound(t) ==
    /\ Step(t, "restart", "resolvconf") \/ Fails(t, "restart", "restart")
    /\ UNCHANGED <<unbound, nfs, dataset, dns, instance>>

(* resolvconf -u (external): with the new configuration it leaves only the local
   resolver in resolv.conf, and puts the servers of a lease into forward.conf *)
Resolvconf(t) ==
    /\ \/ /\ Ends(t, "resolvconf", "ok")
          /\ resolv' = {"local"}
          /\ forward' = IF scenario.lease THEN {"isp"} ELSE forward
       \/ Fails(t, "resolvconf", "resolvconf") /\ UNCHANGED <<resolv, forward>>
    /\ UNCHANGED <<hints, listens, managed, nfs, dataset, dns, instance>>

-----------------------------------------------------------------------------
(* Others start and stop the jail (see JailLifecycle); its mounts but the devfs stay. *)
OtherStarts(t) ==
    /\ t \in scenario.others /\ pc[t] = "idle" /\ ~running /\ jail # "none"
    /\ running' = TRUE /\ loaded' = <<keaKey, knotKey>>
    /\ UNCHANGED <<mounts, nfs, dataset, dns, unbound, pc, locals, world>>

OtherStops(t) ==
    /\ t \in scenario.others /\ pc[t] = "idle" /\ running
    /\ running' = FALSE /\ loaded' = <<0, 0>>
    /\ UNCHANGED <<mounts, nfs, dataset, dns, unbound, pc, locals, world>>

(* dhclient tells resolvconf of a lease (external) *)
LeaseRenewed ==
    /\ scenario.lease
    /\ IF managed THEN resolv' = {"local"} /\ forward' = {"isp"}
       ELSE resolv' = {"isp"} /\ UNCHANGED forward
    /\ UNCHANGED <<hints, listens, managed, nfs, dataset, dns, instance, pc, locals, world>>

(* The file that somebody is writing, as it is or cut. *)
Left(file, call) == {file} \union {cut \in {{}} : \E t \in Threads : pc[t] = call}

(* The daemon dies: the threads go, what they have done stays. *)
DaemonDies ==
    /\ restarts < scenario.restarts
    /\ restarts' = restarts + 1
    /\ pc' = [t \in Threads |-> "idle"]
    /\ config' = [t \in Threads |-> NoConfig]
    /\ lines' = [t \in Threads |-> <<>>]
    /\ key' = [t \in Threads |-> 0]
    /\ servers' = [t \in Threads |-> {}]
    /\ result' = [t \in Threads |-> "none"]
    /\ served' \in Left(served, "services") /\ listens' \in Left(listens, "unbound")
    /\ managed' = managed \/ (managed' = FALSE /\ \E t \in Threads : pc[t] = "manage")
    /\ UNCHANGED <<scenario, failures, nfs, dataset, keaKey, knotKey, keys, instance>>
    /\ UNCHANGED <<hints, forward, resolv>>

InitStep(t) ==
    \/ ConfigureHost(t) \/ ReadExports(t) \/ EmptyExports(t) \/ WriteExports(t)
    \/ LookForJail(t) \/ CheckJail(t) \/ CreateJail(t) \/ UnpackJail(t)
    \/ InstallPackages(t) \/ ConfigureNetwork(t) \/ GenerateKey(t) \/ WriteKeaKey(t)
    \/ EmptyKnotKey(t) \/ WriteKnotKey(t) \/ WriteServices(t) \/ MountUnbound(t)
    \/ StartJail(t) \/ BootJail(t) \/ LookForHints(t) \/ FetchHints(t)
    \/ WriteUnbound(t) \/ EmptyForward(t) \/ WriteForward(t) \/ WriteResolvconf(t)
    \/ RestartUnbound(t) \/ Resolvconf(t)

Next ==
    \/ \E t \in Threads : \/ \E q \in scenario.inits : Begin(t, q[2])
                          \/ InitStep(t)
                          \/ OtherStarts(t) \/ OtherStops(t)
    \/ LeaseRenewed \/ DaemonDies

Spec == Init /\ [][Next]_vars

FairSpec == Spec /\ \A t \in Threads : WF_vars(InitStep(t))

-----------------------------------------------------------------------------
(* The variables hold what their comments say. *)
TypeOK ==
    /\ scenario \in Scenarios
    /\ {bridge, jailnet, served, listens} \subseteq SUBSET Families
    /\ exports \in Seq(Dirs \union AdminLines \union {"V4"})
    /\ {jail, hints} \subseteq {"none", "partial", "whole"}
    /\ {packages, running, managed} \subseteq BOOLEAN
    /\ {keaKey, knotKey, keys} \subseteq 0..scenario.keys
    /\ loaded \in (0..scenario.keys) \X (0..scenario.keys)
    /\ mounts \in 0..MaxMounts
    /\ {forward, resolv} \subseteq SUBSET Servers
    /\ pc \in [Threads -> PCs]
    /\ config \in [Threads -> Configs] /\ key \in [Threads -> 0..scenario.keys]
    /\ lines \in [Threads -> Seq(Dirs \union AdminLines)]
    /\ servers \in [Threads -> SUBSET Servers]
    /\ result \in [Threads -> {"none", "ok", "error"}]
    /\ failures \in 0..scenario.failures /\ restarts \in 0..scenario.restarts

Admin(list) == Keep(list, AdminLines)

(* what priosun writes is there once *)
Once(list) ==
    \A i, j \in DOMAIN list : list[i] = list[j] /\ list[i] \notin AdminLines => i = j

OneThread == \A p, q \in scenario.inits : p[1] = q[1] /\ scenario.others \subseteq {q[1]}
OneConfig == \A p, q \in scenario.inits : p[2] = q[2]

(* The writes of one client that do not fail and are not cut short: all others may lose
   what a file held, since fs::write empties it first. *)
NoneCut(faults) ==
    OneThread /\ scenario.restarts = 0 /\ scenario.faults \intersect faults = {}

(* /etc/exports keeps the administrator's lines in their order; once it is
   priosun's it ends with the one V4 line and names no directory twice, but while it
   is written, and as long as one client's write of it is never cut (network.rs:71-89). *)
ExportsSound ==
    NoneCut({"exports"}) /\ (\A t \in Threads : pc[t] # "exports_write") =>
       /\ Admin(exports) = Admin(scenario.exports)
       /\ exports # scenario.exports =>
             exports # <<>> /\ Last(exports) = "V4" /\ Once(exports)

(* Unbound never forwards to itself; and always to somebody, but while forward.conf is
   written, or if such a write failed or the daemon died in it (network.rs:626-633,
   640-660). *)
ForwardsUpstream ==
    /\ "local" \notin forward
    /\ /\ managed /\ scenario.restarts = 0 /\ "unbound" \notin scenario.faults
       /\ \A t \in Threads : pc[t] # "forward_write"
       => forward # {}

(* Inits that agree on what they write.  A fetch of the root hints that fails removes
   them from under an init that has passed them already. *)
Agreed == OneConfig /\ scenario.others = {} /\ "hints" \notin scenario.faults

(* Kea signs its updates with the key that Knot expects: whenever the jail was
   started, and however often the keys were made anew, unless a write of a key
   fails, the daemon dies or another client starts the jail between the two
   (network.rs:40, 196, 207-215; jail.rs:523-525). *)
KeysAgree == running /\ NoneCut({"kea_key", "knot_key"}) => loaded[1] = loaded[2]

(* What no other init of the same configuration takes away. *)
Lasts(c) == /\ c.families \subseteq bridge
            /\ jail # "none" /\ packages /\ mounts > 0 /\ hints # "none"

Delivered(c) ==
    /\ Lasts(c)
    /\ c.projects \in ToSet(exports)
    /\ NoneCut({"create"}) => jail = "whole"
    /\ jailnet = c.families /\ served = c.families
    /\ keaKey # 0 /\ running
    /\ listens = c.families /\ resolv = {"local"} /\ forward # {}

-----------------------------------------------------------------------------
(* Why all this holds. *)

(* The calls that come after some call. *)
PastForward == {"manage", "restart", "resolvconf"}
PastUnbound == {"forward", "forward_write"} \union PastForward
PastHints   == {"unbound"} \union PastUnbound
PastStart   == {"hints", "fetching"} \union PastHints
PastMount   == {"start", "booting"} \union PastStart
PastServices == {"mount"} \union PastMount
PastKeaKey  == {"knot_key", "knot_key_write", "services"} \union PastServices
PastNetwork == {"kea_key", "kea_key_write"} \union PastKeaKey
PastPackages == {"network"} \union PastNetwork
PastJail    == {"packages"} \union PastPackages
PastExports == {"jail", "create", "zfs_create", "unpack"} \union PastJail
PastNfs     == {"exports", "exports_write"} \union PastExports
PastHost    == {"nfs"} \union PastNfs

(* The bound leaves a key for every init that has not generated its own yet. *)
Beginning == {t \in Threads : pc[t] \in BeforeKey}
KeysLeft == IsFiniteSet(Beginning) /\ keys + Cardinality(Beginning) <= scenario.keys

(* Only those who may ask are at work, on what they asked for. *)
Asked(t) == <<t, config[t]>> \in scenario.inits /\ config[t].families # {}
AtWork == \A t \in Threads : pc[t] # "idle" => Asked(t)

(* A copy of the lines of /etc/exports that can be written back, with a directory. *)
LinesSound ==
    \A t \in Threads : pc[t] \in {"exports", "exports_write"} =>
       /\ config[t].projects # "missing"
       /\ pc[t] = "exports_write" /\ OneThread => exports = <<>>
       /\ NoneCut({"exports"}) => Admin(lines[t]) = Admin(scenario.exports) /\ Once(lines[t])

(* What is written to forward.conf is not the host itself, and not nothing. *)
ServersSound ==
    \A t \in Threads : /\ "local" \notin servers[t]
                       /\ pc[t] = "forward_write" => servers[t] # {}

(* It is there when resolvconf learns of it. *)
ForwardWritten ==
    scenario.restarts = 0 /\ "unbound" \notin scenario.faults =>
       \/ forward # {} \/ \E t \in Threads : pc[t] = "forward_write"
       \/ ~managed /\ \A t \in Threads : pc[t] \notin PastForward

Keying == {"kea_key_write", "knot_key", "knot_key_write"}

(* The two files differ only while one init stands between them. *)
KeysWritten ==
    /\ \A t \in Threads : pc[t] \in Keying => key[t] # 0
    /\ NoneCut({"kea_key", "knot_key"}) =>
       /\ \A t \in Threads : pc[t] \in {"knot_key", "knot_key_write"} => key[t] = keaKey
       /\ keaKey = knotKey \/ \E t \in Threads : pc[t] \in Keying

(* A jail is left half-made only by a creation that fails. *)
JailMade ==
    NoneCut({"create"}) =>
       /\ jail = "partial" => \E t \in Threads : pc[t] = "unpack"
       /\ \A t \in Threads : pc[t] \in PastJail => jail = "whole"

(* What an init has passed is in place and stays there, whoever else is at work, *)
LastsSince(c, call) ==
    /\ call \in PastHost => c.families \subseteq bridge
    /\ call \in {"unpack"} \union PastJail => jail # "none"
    /\ call \in PastPackages => packages
    /\ call \in PastMount => mounts > 0
    /\ call \in PastHints => hints # "none"

(* or as long as nobody else is. *)
InPlace(c, call) ==
    /\ call \in PastExports => c.projects \in ToSet(exports)
    /\ call \in PastNetwork => jailnet = c.families
    /\ call \in PastKeaKey => keaKey # 0
    /\ call \in PastServices => served = c.families
    /\ call \in PastStart => running
    /\ call \in PastUnbound => listens = c.families
    /\ call \in PastForward => forward # {}

AllInPlace ==
    \A t \in Threads : /\ OneThread \/ Agreed => LastsSince(config[t], pc[t])
                       /\ OneThread => InPlace(config[t], pc[t])

(* The files that init rewrites are sound, as far as their writes are not cut, and
   what an init has passed is in place, as far as no other takes it away
   (network.rs:14-94, 189-215, 620-660). *)
Inv ==
    /\ TypeOK /\ ExportsSound /\ ForwardsUpstream
    /\ KeysLeft /\ AtWork /\ LinesSound /\ ServersSound /\ ForwardWritten
    /\ KeysWritten /\ KeysAgree /\ JailMade /\ AllInPlace

-----------------------------------------------------------------------------
(* Success means that everything is in place, however many earlier inits of the one
   client failed half-way or had another configuration; of a jail whose creation failed
   it is not known that it is whole.  With other inits of the same configuration at the
   same time, when no fetch fails and nobody stops the jail, only what none of them takes
   away is certain: not the files, which others may just have emptied, and not that the
   jail runs, since a jail that another init starts may fail yet (network.rs:14-42). *)
InitDelivers ==
    [][\A t \in Threads, c \in Configs :
          /\ config[t] = c /\ result[t] # "ok" /\ result'[t] = "ok"
          => /\ OneThread => Delivered(c)'
             /\ Agreed => Lasts(c)']_vars

(* A failed init can be repeated: once nothing fails any more the next one succeeds,
   unless the creation of the jail failed or the kernel refuses the second mount
   (network.rs:20-41, 96-115). *)
RetryCompletes ==
    \A t \in Threads :
       (/\ pc[t] = "host" /\ failures = scenario.failures
        /\ 4 \in config[t].families /\ config[t].projects # "missing"
        /\ OneThread /\ "create" \notin scenario.faults /\ scenario.stacking
        /\ scenario.restarts = 0)
       ~> result[t] = "ok"

(* README.md:272-273: "Set use_ipv4 or use_ipv6 to false to disable that address
   family; at least one must remain enabled": when nothing fails, an init with one
   family and a projects_dir that exists does not end with an error. *)
OneFamilySuffices ==
    \A t \in Threads :
       /\ scenario.faults = {} /\ OneThread
       /\ \A q \in scenario.inits :
             Cardinality(q[2].families) = 1 /\ q[2].projects # "missing"
       => ~(result[t] = "error" /\ mounts = 0)
=============================================================================
