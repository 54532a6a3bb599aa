# A model of priosun

priosun manages FreeBSD jails and bhyve VMs. A daemon, `priosund`, takes requests
over a Unix socket, one thread per connection, and works on the host: it clones
network interfaces, mounts file systems, starts jails and bhyve processes, and
keeps what it knows as ZFS properties and files. Almost nothing is locked. These
TLA+ modules model the parts of it where the order of those steps matters, TLC
checks them on small instances, and TLAPS proves the safety properties for
every value of the constants. Line numbers are those of `src/src/`.

- [Inventory](#inventory)
- [How to run](#how-to-run)
- [Modules](#modules)
- [Runs](#runs)
- [What the model assumes](#what-the-model-assumes)
- [Proofs](#proofs)
- [What is not modelled](#what-is-not-modelled)
- [Plan](#plan)

## Inventory

| Component | State it keeps | Operations | Talks to |
|---|---|---|---|
| Network interfaces (`net.rs`) | kernel: interfaces, groups, bridge members, vnets, names | create, destroy, set_up, group_add, bridge_add, bridge_delete, move_to_vnet, rename_in_jail, ensure_bridge, addresses | called by jails, VMs and network-init |
| Jail lifecycle (`jail.rs` 516-691) | kernel: running jails and their `host.domainname`, which records the epair; devfs mounts | start_with_stack, start_inner, stop, unmount_devfs, cleanup_epair | net, dependencies, `/etc/rc` in the jail |
| Jail datasets (`jail.rs` 46-457) | datasets `jail/<name>` and `base/<name>`, properties | create, create --base, destroy, destroy_base, install_ssh_key | dependencies, metadata, zfs, fetch/tar |
| VM lifecycle (`bhyve.rs` 841-1369) | `/var/run/priosun/vm/<name>/{bhyve.pid,tap,...}`; the process-wide `SERIAL_CONSOLES`; one reaper thread per bhyve | start_with_stack_mode, start_inner, reaper, stop, wait_for_exit, wait_for_cleanup, is_running, serial_console | net, bhyve, bhyvectl, swtpm, attach |
| VM volumes and options (`bhyve.rs` 66-839) | zvol and its properties (memory, CPUs, passthrough list...) | create, set_vm_options, create_seed, destroy, list | metadata, images, dependencies |
| Cloud images (`bhyve.rs` 66-238) | files in `/var/priosun/images` | provision_cloud_image | fetch, qemu-img, dd |
| Dependencies (`dependency.rs`) | none of its own: reads and writes `priosun:dependencies` | graph, validate, validate_all, validate_graph, visit, remove_references, startup resources | metadata; callers in jail.rs, bhyve.rs, priosund.rs |
| Metadata (`metadata.rs`) | ZFS user properties | get, set, unset | `zfs get`, `zfs set`, `zfs inherit` |
| Daemon: boot (`bin/priosund.rs` 47-90, 836-879) | the listening socket | ensure_datasets, start_enabled, accept loop | all of the above |
| Daemon: requests (`bin/priosund.rs` 92-213, 414-834) | `priosun:provisioned`, develop mounts | handle, execute_jail_request, provision_service, up/down | all of the above, command streaming |
| Attach (`bin/priosund.rs` 257-412) | a PTY and relay threads per session | attach | serial consoles, jexec |
| Protocol, command streaming (`protocol.rs`, `util/cmd.rs`) | one socket per request; thread-local output sink | messages of a 4-byte length and JSON; events of a running command, then one response | client |
| Services and provisioners (`service.rs`) | none | read a service file, run ansible or a shell script | command streaming |
| Network init (`network.rs`) | `/etc/rc.conf`, `/etc/exports`, the network jail with Kea and Knot, `/var/unbound` (mounted into it), `/etc/resolvconf.conf` | network-init: edits of files and calls, every time from the beginning | jail::create, jail::start, sysrc, pkg, fetch, service, resolvconf |
| Client (`main.rs`), configuration, templates, output | none | parse, dispatch (some operations run in the client process itself), print | daemon |

What is hard about it:

- **Interleavings.** Every connection has a thread; two clients can start, stop,
  create and destroy the same thing at once, and the client process runs
  `set_dependencies` itself. Each operation is a sequence of host calls, and
  whatever was looked up at its beginning is used at its end.
- **Names that come back.** Interfaces, pids and jids are destroyed by name. The
  kernel gives the lowest free interface unit to the next `create`, so a name that
  was read a moment ago may belong to somebody else.
- **Partial failure.** A start makes about ten calls that can fail; each failure
  has its own clean-up, written by hand, and some have none.
- **Threads that outlive their request.** The reaper of a bhyve process cleans up
  after it by the name of its VM, whenever the guest powers off.
- **Repetition.** `network-init` keeps no record of how far it came: whoever asks again
  starts from the beginning and takes what he finds for done.
- **Restarts.** The console registry and the reapers die with the daemon; bhyve,
  the jails, the files and the interfaces do not.
- **Graphs.** Dependencies are validated against what was read, one ZFS property
  at a time, and stored later.

What makes each component correct:

- *Jails:* every epair that exists has somebody who will destroy it, unless that was tried
  and failed; a running jail that nobody is working on has its recorded epair, bridged and in
  its vnet, and one devfs; a stopped jail has none; a failed start leaves no jail.
- *VMs:* the same for taps; one bhyve per VM; a running VM has its pid file, tap
  and console; a stopped one has none of the three; a bhyve that exits is reaped.
- *VM volumes:* a VM that is off can start again; a destroyed one leaves neither seed
  nor emulator nor files; a created one has a whole disk and seed; every device has a
  slot of its own.
- *Start order:* dependencies run before their dependents start; what is enabled runs when the
  daemon serves; a start fails only for a reason, and always ends.
- *Network init:* success means that all is in place; a failed one can be repeated; the
  administrator's exports stay; Kea and Knot share a key; unbound never forwards to itself.
- *Dependencies:* the verdict on a graph is right and always comes; no cycle and no
  missing dependency is stored; the daemon can always boot from what is stored.
- *Requests:* one provisioning per service, and a flag that says so only when it is
  true; mounts of `up` undone by `down`.
- *Sessions:* one response, nothing after it and nothing lost before it; console output
  goes to one session; commands and sessions end whatever their client does.

`PROJECT.json` lists the hazards line by line, with the properties that cover each.

## How to run

    tlc -workers 2 -config MCJailLifecycle_all.cfg MCJailLifecycle
    tlapm JailLifecycleProofs.tla

and likewise for the other `MC*` modules with their `.cfg` files, and the other
`*Proofs` modules.

## Modules

| Module | What it is |
|---|---|
| `Net` | interfaces and the bridge, as `net.rs` changes them; shared by jails and VMs |
| `JailLifecycle` | `jail::start`, `start_inner` and its four clean-ups, `stop`, `cleanup_epair`, `unmount_devfs` |
| `JailLifecycleProofs` | theorems about it |
| `VmLifecycle` | `bhyve::start_inner`, the reaper thread, `stop`, `is_running`, the console registry; bhyve and the guest as environment |
| `VmLife` | the abstract specification that `VmLifecycle` implements: a VM is off, starting, on or stopping |
| `VmLifecycleProofs` | theorems about it |
| `DependencyOrder` | what a valid dependency graph is, said without an algorithm |
| `DependencyGraph` | `validate_graph` and `visit`, the depth-first search |
| `StartOrder` | `start_with_stack` of jails and VMs, `start_enabled` and the boot of the daemon |
| `DependenciesFirst` | the abstract specification that `StartOrder` implements |
| `StartOrderProofs` | theorems about it |
| `DependencyStore` | create, set_dependencies, destroy and base jails, one ZFS command at a time |
| `DependencyProofs` | theorems about the search and the store |
| `Provisioning` | `execute_jail_request` for jails: up, down, provision, create, start, stop, destroy, and what they leave behind |
| `ProvisioningProofs` | theorems about it |
| `Session` | one connection: `send_request_tree`, `handle`, `run_streaming`, `execute_attach` and its relays |
| `Exchange` | the abstract specification that `Session` implements: what a client is sent and what it may report |
| `SessionProofs` | theorems about it |
| `VmOptions` | the properties of a VM: what create and set store, and the PCI slots that a start makes of them |
| `VmStorage` | `create` with the image cache and the seed, `set_vm_options`, `destroy`, and what start, reaper and stop do with the TPM emulator and the seed |
| `VmStorageProofs` | theorems about it |
| `HostNetwork` | `network-init`, call by call |
| `HostNetworkProofs` | theorems about it |
| `MC...` | instances for TLC |

`JailLifecycle` and `VmLifecycle` extend `Net`. They are checked separately: what
they share are interface units, and an epair and a tap never have the same name.
`DependencyGraph`, `StartOrder` and `DependencyStore` extend `DependencyOrder`; the last
two use `Valid`, the definition that the search is shown to compute. Of the calls that
`JailLifecycle` and `VmLifecycle` take apart, `StartOrder` has as many steps as other starts
can tell apart.
`VmStorage` extends `VmOptions`. It runs the same start, reaper and stop as
`VmLifecycle`, with other state: taps, consoles and the kernel's VM are there, the
emulator, its socket and the volumes are here. A start takes the same path through both;
each leaves out calls that touch nothing of its own. In `HostNetwork`
the creation and the start of the network jail, the matter of `Provisioning` and `JailLifecycle`,
are taken apart as far as other inits can see them.

### From code to state and actions

`Net`. A unit stands for the whole interface name. `CreateInterface` takes the
lowest free unit, as the kernel does; `bridge` holds the members that the daemon
added. Addresses and `ensure_bridge` are not modelled.

`JailLifecycle`. `running` and `domainname` are the kernel's jail table, `mounts`
counts the devfs instances stacked on a jail's `dev`, `vnet` and `renamed` say
where the b half of each epair is and whether it is `eth0` yet. `pc[t]` names the
next host call of connection thread `t`, and `epair[t]`, `jid[t]` are the Rust
locals `epair_a` and `running.jid`. Every action is one host call with both its
outcomes: `X` succeeds, `XFails` takes the branch the code takes then. The clean-ups
of `start_inner` are tails of two lists of calls, so two families of `pc` labels
(`undo_*`, `late_*`) stand for all of them; `late_bridge` and `late_destroy` are
`cleanup_epair`, whose `?` skips the destroy. A call fails when its object is gone,
or when the scenario says that it may, those of the clean-ups and of `stop` included. `stuck`
is a history variable: the epairs that were there when the call that was to destroy them, or
to take them off the bridge first, failed.

`VmLifecycle`. `pidfile` and `tapfile` are the two files, `console` is the
registry, `proc` the process table, where a zombie answers `kill -0` like any
process, and `kvm` the kernel's VMs by name. A reaper is a program counter per
process, with the tap it captured. `Restart` is the death of the daemon: `pc`,
reapers and registry go, everything else stays. The code writes the registry entry
before it spawns bhyve; the pid is picked at that point, so that `console` can
say whose PTY it is.

`VmLife` is what a client sees of that: `PhaseOf` says which phase the daemon's state
stands for. A VM is starting while a thread is at a call of its start or of the clean-up, off
without a pid file, stopping while a stop waits for its process, and on otherwise;
but where a process or console is left without a pid file, or the process of the pid file is
not whole (it runs, with its console, its reaper and a bridged tap), the state stands for no phase.

`DependencyGraph`. A frame of `stack` is an activation of `visit` with the
dependencies it has not tried. Roots and dependencies come in any order, since
the code iterates a `HashMap`. `VisitRoot`, `VisitDependency`, `Leave` and `Accept`
are the lines of `visit` and of the loop that calls it.

`StartOrder`. `stack[t]` holds the activations of `start_with_stack` in one thread, the
innermost first; the names on it are the `HashSet` that jail.rs and bhyve.rs pass
to each other, and `todo` is the rest of the `for` loop. An error
unwinds all of it. The main thread starts what `start_enabled` lists and serves
afterwards; an error there ends the daemon. Since the stored property is a
list, the code tries dependencies in its order; `todo` is a set, so the model
tries them in every order. `deps` is read when an activation begins.
`start_inner` has three steps, `phase`: it is entered; it brings the resource up, so that
`RunningJail::from_name` finds a jail whose `/etc/rc` is still at work, and `is_running` a VM;
and it returns, or takes back what it has brought up.

`DependencyStore`. `Listed` is `resources()`: the directories under `jail/` that no
base hides. A VM is a zvol and has no directory, so it is never listed. `seen` is
the graph a client has read so far; `Readings` is what `metadata::get` may return, which
takes a failed `zfs get` for an absent property; `Overridden` puts the new dependencies in; what
`Validate` accepts is stored by a later `ZfsSet`.

`Provisioning`. One thread's request is a `pc`; the steps are the host calls of
`up`, `down`, `provision` and the rest, with `jail::create` and `jail::destroy` taken
apart where they touch state that outlives a failure: the dataset, the devfs
of the installation, the service directory mounted for development, the
`provisioned` flag. `jail::start_inner` and `stop` are one step each, with several outcomes:
a start that fails takes everything back, or a call of its clean-up fails, too, and leaves the
jail or its devfs; a stop fails and leaves the jail running, or has removed it when `unmount_devfs`
gives up. The umount of the sources may fail unnoticed, and a failing `zfs get` reads as a flag
that is not set. `contents` says how
far the installation of a jail came, and `configured`, which the code has nowhere, whether
the provisioners have been through this dataset's jail.

`Session`. Each side has its threads: the client's main and input thread, and the
daemon's connection thread (`handler`), two `read_stream` threads, two relays. `log[s]`
is all the daemon ever sent, `read[s]` how much of it the client has received, and the
difference is bounded by the socket. `verdict` is the answer in the making. A
request of kind `run` is a command in one child process; `start_attach` goes on to
`attach`. Writes to a client that has gone fail: the callbacks of `with_stream` ignore
that, the relays end. A request or a
configuration that cannot be read is not answered (`Unread`). The daemon lives. A console is the PTY of a VM, which any number of sessions read,
or that of one login. Messages are numbered chunks, typed input is numbered, too.

`Exchange` is what a client may rely on, without threads, sockets and pipes: it is sent events,
then one response, and what it reports is true. Of the state of `Session`, `Kinds` forgets the numbers in
`log` and keeps the kinds of the messages (`said`); `child` and `client` are `work` and `told`, and
`joined` says whether the scenario lets pipes be read, since only then all threads of a command are waited for.

`VmOptions`. The properties that share a PCI slot or decide what a start does:
CD, frame buffer, sound, TPM and the list of passthrough devices; `complete` says that
none is missing that `read_config` requires. A `set` request names its writes in the
order of the code, so that `Written` can say what an error half-way leaves.

`VmStorage`. `disk`, `seed`, `mounted` and `image` say how far a volume or file has come.
An instance number stands for the two pids of a start, the bhyve's and the swtpm's:
both are children of the daemon, and zombies until the reaper, or `init` after a
death of the daemon, waits for them. `socket` is the instance that bound
`/run/swtpm/<name>`; `TpmActive` is the check of `tpm_socket_path`, which asks the pid file
first and the socket without one. `fetch` writes the image under its final
name, so `LookForImage` sees it from the first byte on.

`HostNetwork`. Each host file is the part of it that matters: families, lines of
`/etc/exports`, servers, the number of the key. `fs::write` empties a file and then writes it:
for what others may read in between (exports, keys, `forward.conf`) these are two steps, and a write that fails or
that dies with the daemon leaves any file cut. Two writes of one file that overlap leave the
longer one's end (`Over`). `jail::create` checks, makes the dataset, which `path_exists` of
others sees, and unpacks, which ends with the jail's own `rc.conf`; `jail::start` brings the jail
up and waits for `/etc/rc`. A failing call is one of
`failures`, and may have done its work already, or a part. `loaded` are the keys that the services of
the running jail have read. `Resolvconf` and `LeaseRenewed` are the host's resolvconf,
which changes `resolv.conf` and `forward.conf` behind priosun's back. Other clients may start
and stop the jail.

## Runs

A `scenario` variable, chosen at `Init` and never changed, says who may ask for what
and which calls may fail, so that one run checks a property under all the
circumstances that matter; properties that need an assumption state it about the
scenario. Operators marked "mutant" repeat an action with a plausible mistake in it;
each property has one that it catches. They are not part of any specification.

| Run | Instance | Shows |
|---|---|---|
| `jail_all` | 2 threads, 2 jails, 2 units, 4 jids, at most 2 devfs on a directory; five scenarios: everybody asks for everything; one driver per jail, and two clients racing to start one, with every failure but of the calls that take away; one driver per jail, whose epairs may stay; two clients on one jail, every failure | An epair is forgotten only if a call of its own clean-up fails on it; in orderly use settled jails have one devfs and, while epairs go when told, their network, and failed starts leave no jail |
| `vm_all` | 2 threads, 2 VMs, 2 units, 2 pids; five scenarios: two start; one starts and one stops; one client with two VMs and the failures with a clean-up; one VM and every failure but an unwritten pid file, power-offs, timeouts and a death of the daemon; the pid file | No tap is orphaned and the registry is never stale; with one client, one bhyve per VM, running VMs are whole and stopped ones leave nothing, and the calls implement `VmLife`; every bhyve that exits is reaped and cleaned up after |
| `vm_storage` | 2 threads, 2 VMs, 2 instances, 26 host devices; seven scenarios: a VM with image, seed and TPM with the failures that are cleaned up after, with those that are not and a death of the daemon, and without destroy; two clients on one VM; two VMs of one image; devices added to a list of 22; two clients that change the list | A VM that is off can start again; a destroyed VM leaves nothing; a created one has a whole image and seed; PCI slots are distinct; a list changes by one device |
| `network` | 2 threads, 3 keys, 3 mounts; six scenarios: repeated after up to two failures; one failure that cuts no file; a jail created in part, a refused second mount, one failure and a death of the daemon; changing configurations; two at once, that make one jail, with failures that leave something half-made; others who start and stop the jail | Exports and forwarders are sound where no write is cut; the two keys agree; success of one client means that all is in place, of two what neither takes away; a failed init can be repeated |
| `network_ipv6` | one client, IPv6 only or IPv4 only | *Violated:* a host without IPv4 cannot be set up |
| `dependency_graph` | every graph over 3 names, missing names and self-dependencies included, every order | The search accepts exactly the valid graphs, with the right error, and ends |
| `start_order` | every stored graph over 3 names; six scenarios: boots with failing starts and a death; two clients, with and without a start that fails; VMs and a jail that stop or are missing; changing dependencies | Dependencies run before dependents start, where no other client sees a start that fails; enabled jails run when the daemon serves; a start fails only for a reason, and always ends |
| `start_order_race` | two clients, two jails of which one may fail to start, and a VM | *Violated:* a dependent starts without its dependency, which was running its `/etc/rc` when it was looked for and then failed |
| `dependency_store` | 1 client with 3 jails; 1 with jails, bases and a VM; 2 who create and set; 1 whose reads may fail, with 2 jails, or 3 that are not destroyed | No cycles; the daemon can boot at every moment; no missing dependency; nothing valid is refused |
| `dependency_vm` | a jail and a VM | *Violated:* a dependency on a VM, which the README gives as an example, is refused |
| `provisioning` | two services, one with sources and provisioners and one without; one client with every command and every failure, and with some failures excepted; two clients that bring a service up and down, and two that destroy it as well; stops and umounts may fail with one client and with two | The flag is never a predecessor's; `up` delivers a jail with its provisioners run, once, or an error; development mounts and devfs are taken back while umounts succeed; no jail runs without its root |
| `session` | 2 sessions, sockets of 2 messages, pipes of 1 chunk; seven scenarios: commands with and without failures, start --attach of a jail and of a VM, two sessions on one console, a VM that does not run, a console held open by another child | Responses come last and complete; console output goes to one session; a detach is never an error; the connection implements `Exchange`; commands and sessions end |

Why the bounds are enough. Every hazard on the list that these modules cover takes
two actors and one object, or two objects of which one inherits the other's name: two
threads, two jails and two units make a name come back while somebody still holds
it. With two units a third interface is refused, which is `CreateFails`. Four
jids leave a jid for each of two running jails and each of two requests that remember
one, so `StartJail` is not starved. Two devfs instances are what two racing starts
can stack; a third mount fails. Two pids are an old process being reaped and its
successor. Three names give cycles of every length that differ in kind: a
self-dependency, a pair, and one through an intermediate. The bounds on jids,
pids and mounts are guards (`FreeJids`, `FreePids`, `MaxMounts`) whose exhaustion acts
as a failure that the code also handles. `MaxMounts` of `Provisioning` is 2: an
extra mount is then visible, and the next one fails.
Two instances of `VmStorage` are an old pair of processes and its successor; a start waits
while both have left something behind, and that is a bound, not the code's. Lists of 22
to 24 devices are around the limit of 23 next to a frame buffer.
Three keys and three mounts of `HostNetwork` are those of three inits: after
two that failed there is a third that succeeds. A fourth does not begin (`Begin`; with two at once, a third), and
by then every file has been found as the first and as a later init leaves it.
A socket of two messages lets a thread send after another has sent the response, a
pipe of one chunk blocks a command that writes two, and two sessions on one console are
the one that leaves and the one that stays.

Fairness. `VmLifecycle!FairSpec` asks weak fairness of the steps of
threads: host calls return and threads are scheduled, while new requests need not come. It asks the same
of each reaper, of the start-up of bhyve and of `init`; a guest need never power off, except when
the kernel's VM was destroyed under its process.
`HostNetwork!FairSpec` asks it of each thread's steps: the calls of an init return, one way
or the other, and failures are finitely many.
`DependencyGraph!FairSearchSpec` is weak fairness of the one thread that searches, and
`StartOrder!FairSpec` of each thread's steps. `Session!FairSpec` asks it of each thread of
both sides and of commands, which write and exit unless a pipe is full; nobody need
type, and no guest and no login need write or end. `JailLifecycle`, `Provisioning`, `DependencyStore` and
`VmStorage` are checked without fairness.
`CHECK_DEADLOCK` is off for `HostNetwork` and `VmStorage`, where clients may be done and
nobody else has anything to do, for `DependencyGraph`, which stops when it has
given its verdict, for `Session`, where all may be over, and for `StartOrder`, where a daemon that cannot boot, or
whose resources all run, has nothing left to do.

## What the model assumes

Some properties hold only for orderly use, and say so. The assumptions are conditions
on the scenario; dropping any of them makes TLC find the reason in seconds.

- `JailLifecycle!Orderly`: a jail that may be stopped has one client, and
  `jail_remove` and `umount` do not fail. Otherwise a stop destroys the
  epair before it fails to remove the jail, `unmount_devfs` gives up with the devfs still
  mounted, and requests undo each other's work: a stop that is overtaken by another stop and
  a start destroys the epair of the new instance, which has the name it remembered
  (jail.rs 586-588, 651), and the new jail runs on without a network.
- `JailLifecycle!EpairsGo`, for the network of a settled jail: `bridge_delete` and `destroy` succeed on
  what is there. When one of them fails in a `stop`, the jail runs on without its network; when one
  fails in the clean-up of a start, the epair stays and nobody tries again (jail.rs 563-615, 685-691;
  `stuck`). `NoOrphanEpair` leaves such epairs out and needs no other assumption: every other call may
  fail, and anybody may start and stop anything.
- `VmLifecycle!NothingLeaks`: `group_add`/`set_up`/`bridge_add`, the checks before bhyve
  is spawned and the write of the pid file succeed, and the daemon does not die.
  After any of these the code leaves a tap, and nothing looks for it.
- `VmLifecycle!Orderly`, which `LifeSpec` assumes, too: one client, and guests that power off only when asked, in time.
  Two clients that start one VM get two bhyve processes, since both look at a pid
  file that is written only after the spawn; a `stop` whose tap file is stale
  destroys a tap of the same name that belongs to another VM. When a guest has powered
  itself off and its VM is started again at once, the reaper of the old bhyve removes the
  console, the pid file and the tap file of the new one by name (bhyve.rs 1251-1266).
- `StartOrder!Calm`: nothing stops and no dependencies are set while others start; the code
  holds no lock and does not look at a dependency again. `OrderSpec` assumes `Steady`, too: one client
  starts, or there are only jails and their starts succeed. Otherwise a client passes a jail whose `/etc/rc`
  is at work for another, and that start fails and removes it (`start_order_race`); or two that start
  one VM get in each other's way. `FailsWithReason` speaks of one
  client that starts: of two that meet at a common dependency, the slower fails
  because it runs already.
- `DependencyStore`: `NoCycles` and `AlwaysBootable` hold for one client. Two
  clients that each add one edge of a cycle are both accepted. A base with the name of
  a jail hides that jail from the graph, and the daemon refuses to boot when another depends on it.
  They also assume that reads succeed: `metadata::get` takes a failed `zfs get` for an absent
  property, and a graph with an edge missing is accepted. `Provisioning` has such reads of the flag, too;
  `StartOrder` and `VmStorage` read what is stored.
- `VmStorage!NothingLeaks`: the checks between the start of swtpm and that of bhyve and the writes
  of the two pid files succeed, and the daemon does not die; otherwise swtpm stays, and the
  next start refuses its socket. A VM with a TPM that is created with `--cloud-init` and
  `--iso` always ends there: the two are found to exclude each other after swtpm was
  started (bhyve.rs 1146); so nothing leaks only where cloud images or CDs are in use, not both. `OneDriver`: one client for a VM; of two concurrent changes of the
  device list one is lost. `Fetches`: no fetch fails and one client creates,
  since an image in part is taken from the cache like a whole one. A re-created VM's seed
  may fall to the reaper of its predecessor, so `CreateDelivers` speaks of VMs that nobody destroys.
- `HostNetwork!OneThread`, for all that an init delivers: one client, whatever its earlier inits did. Of
  several inits at once `InitDelivers` promises what none takes away (`Lasts`), if they agree on the
  configuration, nobody else stops the jail and no fetch of `root.hints` fails (`Agreed`). The rest is not
  certain: a second init takes a jail that the first is still making for made, configures it and
  succeeds, and then the first writes its own `rc.conf` (jail.rs 309-334); an export may be read while
  another init has emptied the file; an init that fails to fetch removes the hints that another has passed
  (network.rs 593-605).
- `HostNetwork!NoneCut`, for `ExportsSound` and `KeysAgree`: one client, whose writes of those files succeed, and a
  daemon that lives. `fs::write` empties the file first (network.rs 89, 207-215), so that a write that fails or is
  overtaken loses the administrator's lines, and a jail that starts between the two keys reads two. That
  unbound forwards to somebody (`ForwardsUpstream`) assumes that no write of its files fails or dies; that it does not
  forward to itself assumes nothing. `RetryCompletes` leaves out a creation of the jail that fails half-way
  (`path_exists` sees the directory, and `pkg` may fail in it ever after) and a kernel that refuses to
  mount `/var/unbound` twice (`stacking`): then no later init succeeds.
- `Provisioning`: `RunsFromItsRoot` speaks of one client. `FlagHonest` speaks of one client, or of clients that destroy nothing, since
  `provision_service` sets the flag by name when the provisioners are through.
  `MountsBalanced` assumes that create and `umount` succeed and that a start that fails is taken back
  (`CleansUp`), and of the sources that no start fails and nobody uses plain `start` and `stop`
  (`OnlyUpAndDown`); stops may fail. An `umount` of the sources that fails is not noticed (priosund.rs 717).
  `ProvisionedOnce` assumes that the flag can be written and read: a `zfs get` that fails reads as "not
  provisioned" (metadata.rs 28). `UpDelivers` assumes that `create` does not fail half-way, after which the
  code takes what is there for a jail.
- `Session`: `ResponseLast`, the same part of `Exchange` (`joined`) and `OutputComplete` assume that pipes can be read (an error of
  the first thread is answered before the second is through), `RequestsEnd` that no other child has
  inherited the console, whose file descriptors are opened without `O_CLOEXEC`. A pipe
  closes when the command exits: a descendant that keeps it open keeps the request waiting.
  `LostOnlyRefused`, a part of `Inv`, names the ends of a connection that are not answered: a refused attach,
  and a request or a configuration that cannot be read (priosund.rs 93, 99, 115). When the daemon dies every
  connection is lost; that is not modelled.
  A client killed during a login leaves the login running until it writes.

About the host: the kernel hands out the lowest free interface unit and
consecutive jids and pids, so a jid or pid that is still remembered by a running request
does not come back; swtpm ends when its socket's path is taken, and bhyve when it cannot
connect to it; a fetch that fails leaves nothing or a part; a destroyed epair takes both halves with it; epairs of a removed
vnet come home; a bhyve process that finds its VM's name taken exits. A
request that works on a jail's dataset is not modelled together with one that starts it by its single
calls (`Provisioning` has both, a start as one step; `HostNetwork` has them for its one jail).

## Proofs

Every theorem is of the form `Spec => ...`, for every value of the constants: any sets of
jails, VMs, names, threads, sessions, units and scenarios that the named assumptions of the
modules allow. Those say no more than that numbers are numbers, that ids are not
0, and that scenarios consist of requests and failures of the right kind.

| Module | Theorem | States |
|---|---|---|
| `JailLifecycleProofs` | `TypeCorrect`, `InvHolds` | `[]TypeOK`, `[]Inv` |
| | `EpairsNeverForgotten` | `[]NoOrphanEpair` |
| | `SettledIsWholeOrGone` | `[]SettledJail` |
| | `FailedStartsAreUndone` | `FailedStartLeavesNoJail`, an action property |
| `VmLifecycleProofs` | `TypeCorrect`, `InvHolds` | `[]TypeOK`, `[]Inv` |
| | `TapsNeverForgotten` | `[]NoOrphanTap` |
| | `ConsolesNeverStale` | `[]ConsoleNotStale` |
| | `NeverTwoBhyves` | `[]AtMostOneBhyve` |
| | `SettledIsWholeOrGone` | `[]SettledVm` |
| | `LivesAsPromised` | `LifeSpec`: `VmLifecycle` implements `VmLife` |
| `VmStorageProofs` | `InvHolds` | `[]Inv` |
| | `NeverRefused` | `[]StartNotRefused` |
| | `DestroyedGoes` | `[]DestroyedIsGone` |
| | `CreateAlwaysDelivers` | `[]CreateDelivers` |
| | `ListsChangeByOne` | `ListChangesByOne`, an action property |
| `DependencyProofs` | `SearchInvHolds` | `[]SearchInv` |
| | `VerdictAlwaysRight` | `[]VerdictRight` |
| | `InvHolds` | `[]Inv`, of the store |
| | `BootsAlways` | `[]AlwaysBootable` |
| | `RefusedRightly` | `RejectsOnlyInvalidJails`, an action property |
| `StartOrderProofs` | `InvHolds` | `[]Inv` |
| | `StartsInOrder` | `OrderSpec`: `StartOrder` implements `DependenciesFirst` |
| | `EnabledAlwaysStarted` | `[]EnabledAreStarted` |
| | `AlwaysAReason` | `FailsWithReason`, an action property |
| `ProvisioningProofs` | `InvHolds` | `[]Inv` |
| | `FlagAlwaysHonest`, `RootsAlwaysKept` | `[]FlagHonest`, `[]RunsFromItsRoot` |
| | `MountsAlwaysBalanced` | `[]MountsBalanced` |
| | `ProvisionsOnce`, `UpAlwaysDelivers` | `ProvisionedOnce`, `UpDelivers`, action properties |
| `SessionProofs` | `InvHolds` | `[]Inv` |
| | `NothingAfterTheResponse` | `[]ResponseLast`, a part of `Inv` |
| | `AllOutputIsSent` | `[]OutputComplete` |
| | `LostWhenRefused` | `[]LostOnlyRefused`, a part of `Inv` |
| | `ReportsAreTrue` | `ExchangeSpec`: `Session` implements `Exchange` |
| `HostNetworkProofs` | `InvHolds` | `[]Inv` |
| | `KeysAlwaysAgree` | `[]KeysAgree` |
| | `FilesAlwaysSound` | `[](ExportsSound /\ ForwardsUpstream)` |
| | `InitAlwaysDelivers` | `InitDelivers`, an action property |

None of these properties is inductive as it stands. Each module's `Inv` is what they were
strengthened to, a conjunction of named parts; TLC checks it on the module's run, and the
proofs show that `Init` establishes and every action preserves it. A part that
speaks of one actor is proved in two steps: the actor's own step keeps it, and those of all
others leave alone what it is about.

*Jails.* `EpairAnswered` is about the epairs that are not `stuck`, and a clean-up call that fails puts
in there what it should have destroyed. A `stop` answers for the epair whose name it holds
only until it has passed `bridge_delete` and `destroy`, after which the name can be
given to a new epair. `EpairAnswered` says who does answer: a request that
will still destroy the epair or has not bridged it yet; or, while the epair is in
the bridge, a request about to start a jail on it, or a running jail that records
it and that no request is about to remove. The last condition (`Stripped`) is what
a `stop` establishes by destroying first. `JidsDistinct` and `RecordMatches`
connect the jid a request holds with the record of the jail that has it.
`NobodyMeddles` and, while epairs go when told, `EpairsHeld` are the parts for orderly use. While a jail that may be stopped has one client,
a started jail is held by the one request that started it (`JailsHeld`), no two requests
own one epair, and each finds its epair where its next call expects it
(`EpairsOwned`, `EpairsPlaced`). `MountsCounted` counts: the devfs instances
of a jail are as many as requests that have mounted one and not unmounted it, and one more if
the jail runs and nobody works on it. Starts race without a bound on their number, so this is
about the cardinality of a finite set of threads that grows and shrinks by one.

*VMs.* A tap outside the bridge is a start's that will add it; a tap in the bridge is held by
a start that has added it or by a reaper that has yet to destroy it (`TapsKept`).
A start that finds its tap already bridged or gone gives up without a clean-up, and that is safe
exactly because of the second half. `PidsOwn` is needed for the hand-over: the reaper
entry that `WritePidFile` overwrites is empty. `ConsolesBacked` follows a console through the
registry: a start has yet to spawn its process, or to give up; the process is there; or its reaper
stands before the line that removes the entry. `OneByOne`, for one client, says that
a process with a VM is being started, is up, is on its way out while a stop waits for it, or
has left no more than the tap file to its reaper, which the next start overwrites; and which
of the three files and which tap there are in each case.

*The life of a VM.* That `VmLifecycle` implements `VmLife` is mostly that nothing is ever broken
(`NeverBroken`, from `OneByOne`): with that the phase of a VM depends on its pid file and on the
calls of threads only (`Simply`), and with one client on that of one thread (`Seen`). Four kinds of steps
then remain that move a phase (`PhasesMove`): a start or stop that begins, while all VMs are off or on
(`BeginMovesPhase`); the end of a start, with the pid file written or after a clean-up
(`CallMovesPhase`); and the reaper that removes the pid file a stop waits for (`ProcessMovesPhase`). All
others are stutters.

*VM storage.* `Holds`, `Belongs` and `Reaping` make an instance somebody's: of the start
that has taken it and of nobody else, later of its reaper; no file of a VM names an
instance of another. `NoLeaks` adds, where nothing leaks, that every instance has a start
or a reaper and every file and socket somebody behind it who has still to remove it, which is all that
`StartNotRefused` needs. `SeedsGo` says the same of mounts and seeds of a destroyed VM, whose destroy
is about to look for them and finds no bhyve that has them open. `ImageWhole` and `SeedFirst` carry
`CreateDelivers`: one create at a time has the image for itself from `fetch` to `convert`, and no
instance of an earlier VM has a seed when a new seed is made. `NoDuplicates` and `DiskFirst` carry
`ListChangesByOne`: no device is twice in a list, whoever changes it, because what a client adds was not in
the copy it writes back, so that `RemoveFirst` removes all there is of a device; and the copy is
what is stored while the VM has one client. `SlotsDistinct` needs no history:
it follows from the arithmetic of the slots (`SlotsOnBus`).

*The search.* An accepted graph is acyclic because `visited` is closed under dependencies and holds no
deadlocked set: what enters it last depends only on what entered before
(`VisitedAcyclic`). A rejected graph has a cycle because the stack is a path
(`StackIsPath`): the activations down to the one of the name that was met again
wait for each other. `NothingSkipped` makes `visited` everything in the end.
`VisitStep` proves one call of `visit` for roots and dependencies alike, and `LeaveStep` its return.
`Deadlocked` speaks of sets in which everyone waits, which on finite graphs means a cycle.

*The store.* What a client has read is, for one client whose reads succeed, what is stored
(`Knows`); with others or misreads it is at most less. `Validated` keeps the verdict on it until it is
stored, and a valid graph in which one resource got the validated dependencies is the graph that was
validated. `References` says how far a destroy has come: of the resources that it is past,
none refers to its target. Removing a dependency, or a resource that
nobody depends on, never makes a cycle; that is where `Acyclic` is unfolded.

*Starts.* `start_inner` is entered with nothing left to try, and what it has brought up runs until
it returns or takes it back (`PhaseOK`). While nobody else sees that (`Steady`), what an activation
has tried runs, or is the name of the activation above it (`Tried`); what runs has all it depends
on, and nothing that runs depends on what a start may still take back (`RunningClosed`). A name occurs once on a stack (`NoneTwice`), so when the topmost
activation returns, what it started is what the one below waited for; each step of the recursion is a
step of `DependenciesFirst` or a stutter. `EnabledKept` accounts for what is enabled: it runs, is in the
queue, or is the root of the main thread's stack. `PathsOK` says that every
activation is for something that the root needs, in the least set closed
under dependencies (`Needs`), and `Unstarted` that the one starter meets nothing that runs already:
an error can then only be one of the graph or of a resource in `Needs`.

*Provisioning.* A flag is honest because whoever is about to set it holds a jail whose provisioners
ran, and that jail is still the one of that name (`ProvisionedFirst`): only a
destruction by another client could exchange it, which `FlagHonest` excludes. A root
stays because a destroy of one client has stopped the jail by the time it takes the
dataset (`StoppedFirst`), and every step that starts the jail is that client's, too.
`OneClient` assumes of failing calls, part by part, what it needs: contents that no create fails, devfs that
umounts succeed. It describes a service of one client between two requests (`AtRest`: mounts, contents and flags as
the last request left them) and at each call of a request (`AtWork`: what has been mounted
so far, and what is known of the flag).

*Sessions.* `ThreadsDone` says which threads may still write at each call of the handler, and that
no answer is in the log before the handler's end. `Drained` says that a thread that has ended has read its
pipe to the end of a command that has ended, and sent what it read. `SentWasRead` and
`TypedInOrder` bound the numbers of what is on its way by what was read or typed, which keeps
`ShownOnce` inductive. `LeaverTakesOne` compares two cardinalities: a chunk that nobody shows was lost by a
relay that ended behind a client that left, and each such relay loses one (`FewHaveLeft` makes the sets finite).
`AnswersRead` relates what the client's threads have seen to what the daemon has sent.
`AnswersTrue` follows the verdict back: at a call of the handler that leads to success the command has
exited or a console was greeted, and whoever has typed a detach had read the greeting of a VM's console.
With that each step is one of `Exchange` or a stutter (`MovesExchange`): what is said (`SaysKind`) and
what is reported (`KindHeard`: what a client has read is in the log) are looked at one by one.

*Host network.* `LastsSince(c, call)` and `InPlace(c, call)` list what an init with the configuration `c` has
done when it is at a `call`: the first what no other init takes away (`KeptLasts`), the second what stays as long
as there is no other. Its own steps add to both (`OwnLasts`, `OwnInPlace`), and after the last call they
are what `InitDelivers` promises. `JailMade` says that a jail is left half-made only by a creation that fails,
`ServersSound` that an init never has the host itself, or nothing, to write to `forward.conf`, and `ForwardWritten`
that this file is empty only within a write of it, before the first, or when one was cut.
`KeysWritten` says that the two files of the key differ only while one
init is between the first write and the second, and a jail that starts then would read them both. `KeysLeft` is about
the bound `scenario.keys`: for every thread that has not made its key yet one is left, which counts a finite set of threads.
`LinesSound` is the copy of `/etc/exports` that an init has read and filtered. For lists of any length that
needs an induction: `Keep` is a recursive function, and a set of lists that
contains the empty one and with each list every longer one by a line contains them all (`SeqInduct`). That
follows from the library's theorem that the proper subsets of finite sets are well-founded (`Smallest`,
`NatInduct`); it speaks of sets instead of predicates, so no operator has to be a parameter.

What only TLC checks:

- Liveness: `RequestsEnd` of sessions, `ExitedIsReaped`, `Terminates`, `StartsEnd`,
  `RetryCompletes`. These need fairness and ENABLED, which the provers do not reason about.
- The examples of the documentation that the code contradicts (the runs marked *Violated*), which
  are single behaviours.

## What is not modelled

- Contents: the texts of seeds, templates, configuration files, tables and help. They are
  written and read, and no decision of the program turns on them but those that are modelled.
- The client's argument parsing (`main.rs`), the encoding of requests and the 16 MiB limit of
  `read_message`; terminal modes. What a request makes the daemon do is modelled.
- `config.rs`, `template.rs`, `output.rs`: pure functions of text.
- Host tools: zfs, fetch, bhyve, swtpm, jexec, pkg and `/etc/rc` appear as calls that succeed or fail,
  and as processes where they live on.
- A recovery after a death of the daemon in the middle of a start of a jail: the code has none.
- The state that swtpm keeps, one directory for all VMs (bhyve.rs 1053).

## Plan

Every component that keeps state of its own is modelled, and every safety property of the runs that
hold is proved. What could still be added, in this order:

1. Clients that destroy and start the same jail at the same time: `Provisioning` and `JailLifecycle` in one
   model, with the calls of `start_inner` and of `destroy` interleaved.
2. A `VmStorage` with the taps of `VmLifecycle`, for a death of the daemon that leaves both kinds of remains.
