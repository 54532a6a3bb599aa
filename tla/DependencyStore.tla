-------------------------- MODULE DependencyStore --------------------------
(* The dependencies that ZFS properties record for jails and VMs, and the   *)
(* commands that change them: create, set_dependencies and destroy of       *)
(* src/src/jail.rs and src/src/bhyve.rs with graph, validate and            *)
(* remove_references of src/src/dependency.rs.  A client is a connection    *)
(* thread of priosund or a priosun process; nothing orders their reads and  *)
(* writes of the datasets.                                                  *)
EXTENDS DependencyOrder

CONSTANTS
    Jails,          \* names jails and bases may have
    Vms,            \* names VMs may have
    Clients,
    Scenarios       \* records: the commands <<client, command, name>> given,
                    \* and whether a zfs get may fail

Commands == {"create", "set", "destroy", "create_base", "destroy_base"}

Names == Jails \union Vms

ASSUME StoreAssumption ==
    /\ Jails \intersect Vms = {} /\ Names # {}
    /\ Scenarios \subseteq [commands : SUBSET (Clients \X Commands \X Names),
                            misreads : BOOLEAN]

VARIABLES
    scenario,       \* what the clients ask for, fixed at Init
    exists,         \* names of the jail and VM datasets
    bases,          \* names of the base jails
    deps,           \* priosun:dependencies of each dataset, {} when there is none
    pc,             \* the next call of each client
    target,         \* the resource its command names
    want,           \* the dependencies it asks for
    todo,           \* resources it has listed and not read yet
    seen            \* what it has read, as a graph

store == <<exists, bases, deps>>
locals == <<target, want, todo, seen>>
vars == <<scenario, store, pc, locals>>

PCs == {"idle", "zfs_create", "set_empty", "zfs_base", "graph", "zfs_set",
        "list", "refs", "refs_set", "zfs_destroy"}

NoGraph == <<>>

Init ==
    /\ scenario \in Scenarios
    /\ exists = {} /\ bases = {}
    /\ deps = [n \in Names |-> {}]
    /\ pc = [c \in Clients |-> "idle"]
    /\ target \in [Clients -> {CHOOSE n \in Names : TRUE}]
    /\ want = [c \in Clients |-> {}]
    /\ todo = [c \in Clients |-> {}]
    /\ seen = [c \in Clients |-> NoGraph]

Goto(c, label) == pc' = [pc EXCEPT ![c] = label]

Return(c) == /\ Goto(c, "idle")
             /\ target' = [target EXCEPT ![c] = CHOOSE n \in Names : TRUE]
             /\ want' = [want EXCEPT ![c] = {}]
             /\ todo' = [todo EXCEPT ![c] = {}]
             /\ seen' = [seen EXCEPT ![c] = NoGraph]

Begin(c, command, n) == /\ pc[c] = "idle"
                        /\ <<c, command, n>> \in scenario.commands
                        /\ target' = [target EXCEPT ![c] = n]

(* resources(): directories under jail/ without a base of their name.  A VM is
   a volume: it has no directory, and is never listed. *)
Listed == (exists \intersect Jails) \ bases

(* metadata::get: a "zfs get" that fails reads as no property. *)
Readings(n) == {deps[n]} \union (IF scenario.misreads THEN {{}} ELSE {})

-----------------------------------------------------------------------------
(* create.  The names are looked up before the dataset is made. *)
BeginCreate(c, n) ==
    /\ Begin(c, "create", n)
    /\ n \notin exists \union bases
    /\ Goto(c, "zfs_create")
    /\ UNCHANGED <<store, want, todo, seen>>

(* "zfs create -p" of a jail accepts a dataset that is there already; a VM's
   volume is created once. *)
ZfsCreate(c) ==
    /\ pc[c] = "zfs_create"
    /\ IF target[c] \in exists \intersect Vms
       THEN Return(c) /\ UNCHANGED exists
       ELSE /\ exists' = exists \union {target[c]}
            /\ Goto(c, "set_empty")
            /\ UNCHANGED locals
    /\ UNCHANGED <<bases, deps>>

(* metadata::set fails when the dataset is gone. *)
Store(n, ds) == deps' = IF n \in exists THEN [deps EXCEPT ![n] = ds] ELSE deps

SetEmpty(c) ==
    /\ pc[c] = "set_empty"
    /\ Store(target[c], {})
    /\ Return(c)
    /\ UNCHANGED <<exists, bases>>

(* create --base looks for a base and a VM of the name, and not for a jail. *)
BeginBase(c, n) ==
    /\ Begin(c, "create_base", n)
    /\ n \notin bases
    /\ Goto(c, "zfs_base")
    /\ UNCHANGED <<store, want, todo, seen>>

CreateBase(c) ==
    /\ pc[c] = "zfs_base"
    /\ bases' = bases \union {target[c]}
    /\ Return(c)
    /\ UNCHANGED <<exists, deps>>

DestroyBase(c, n) ==
    /\ pc[c] = "idle"
    /\ <<c, "destroy_base", n>> \in scenario.commands
    /\ n \in bases
    /\ bases' = bases \ {n}
    /\ UNCHANGED <<exists, deps, pc, locals>>

-----------------------------------------------------------------------------
(* set_dependencies: graph lists the resources, then reads them one by one *)
BeginSet(c, n, ds) ==
    /\ Begin(c, "set", n)
    /\ want' = [want EXCEPT ![c] = ds]
    /\ todo' = [todo EXCEPT ![c] = Listed]
    /\ Goto(c, "graph")
    /\ UNCHANGED <<store, seen>>

(* mutant: what is stored wins over what is asked for *)
OverriddenByStored(g, n, ds) ==
    [m \in {n} \union DOMAIN g |-> IF m \in DOMAIN g THEN g[m] ELSE ds]

(* The graph g with the dependencies ds for n. *)
Overridden(g, n, ds) == [m \in {n} \union DOMAIN g |-> IF m = n THEN ds ELSE g[m]]

ReadResource(c) ==
    /\ pc[c] = "graph"
    /\ \E r \in todo[c] : \E ds \in Readings(r) :
          /\ todo' = [todo EXCEPT ![c] = @ \ {r}]
          /\ seen' = [seen EXCEPT ![c] = Overridden(@, r, ds)]
    /\ UNCHANGED <<store, pc, target, want>>

(* mutant: the graph is validated before all of it is read *)
ValidateEarly(c) ==
    /\ pc[c] = "graph"
    /\ IF Valid(Overridden(seen[c], target[c], want[c]))
       THEN Goto(c, "zfs_set") /\ UNCHANGED locals
       ELSE Return(c)
    /\ UNCHANGED store

Validate(c) ==
    /\ pc[c] = "graph" /\ todo[c] = {}
    /\ IF Valid(Overridden(seen[c], target[c], want[c]))
       THEN Goto(c, "zfs_set") /\ UNCHANGED locals
       ELSE Return(c)
    /\ UNCHANGED store

ZfsSet(c) ==
    /\ pc[c] = "zfs_set"
    /\ Store(target[c], want[c])
    /\ Return(c)
    /\ UNCHANGED <<exists, bases>>

-----------------------------------------------------------------------------
(* mutant: without remove_references *)
BeginDestroyKeepsReferences(c, n) ==
    /\ Begin(c, "destroy", n)
    /\ n \in Vms => n \in exists
    /\ Goto(c, "zfs_destroy")
    /\ UNCHANGED <<store, want, todo, seen>>

(* destroy.  A VM is looked up first; then the resource is stopped. *)
BeginDestroy(c, n) ==
    /\ Begin(c, "destroy", n)
    /\ n \in Vms => n \in exists
    /\ Goto(c, "list")
    /\ UNCHANGED <<store, want, todo, seen>>

(* remove_references: list, then read and rewrite each resource in turn *)
ListReferences(c) ==
    /\ pc[c] = "list"
    /\ todo' = [todo EXCEPT ![c] = Listed]
    /\ Goto(c, "refs")
    /\ UNCHANGED <<store, target, want, seen>>

ReadReference(c) ==
    /\ pc[c] = "refs"
    /\ \E r \in todo[c] : \E ds \in Readings(r) :
          /\ todo' = [todo EXCEPT ![c] = @ \ {r}]
          /\ IF target[c] \in ds
             THEN seen' = [seen EXCEPT ![c] = [n \in {r} |-> ds]] /\ Goto(c, "refs_set")
             ELSE UNCHANGED <<seen, pc>>
    /\ UNCHANGED <<store, target, want>>

(* metadata::set's "?": a resource that is gone ends the whole command *)
DropReference(c) ==
    /\ pc[c] = "refs_set"
    /\ \E r \in DOMAIN seen[c] :
          /\ Store(r, seen[c][r] \ {target[c]})
          /\ IF r \in exists
             THEN /\ Goto(c, "refs")
                  /\ seen' = [seen EXCEPT ![c] = NoGraph]
                  /\ UNCHANGED <<target, want, todo>>
             ELSE Return(c)
    /\ UNCHANGED <<exists, bases>>

ReferencesRemoved(c) ==
    /\ pc[c] = "refs" /\ todo[c] = {}
    /\ Goto(c, "zfs_destroy")
    /\ UNCHANGED <<store, locals>>

ZfsDestroy(c) ==
    /\ pc[c] = "zfs_destroy"
    /\ exists' = exists \ {target[c]}
    /\ deps' = [deps EXCEPT ![target[c]] = {}]
    /\ Return(c)
    /\ UNCHANGED bases

(* A zfs command fails, or the client dies before it: "?" ends the command. *)
ZfsFails(c) ==
    /\ pc[c] \in {"zfs_create", "set_empty", "zfs_base", "zfs_set", "refs_set",
                  "zfs_destroy"}
    /\ Return(c)
    /\ UNCHANGED store

-----------------------------------------------------------------------------
Create(c) == ZfsCreate(c) \/ SetEmpty(c) \/ CreateBase(c)
Set(c) == ReadResource(c) \/ Validate(c) \/ ZfsSet(c)
Destroy(c) == \/ ListReferences(c) \/ ReadReference(c) \/ DropReference(c)
              \/ ReferencesRemoved(c) \/ ZfsDestroy(c)

Command(c) ==
    \E n \in Names : \/ BeginCreate(c, n)
                     \/ BeginDestroy(c, n)
                     \/ n \in Jails /\ (BeginBase(c, n) \/ DestroyBase(c, n))
                     \/ \E ds \in SUBSET Names : BeginSet(c, n, ds)

Next == \E c \in Clients :
           /\ Command(c) \/ Create(c) \/ Set(c) \/ Destroy(c) \/ ZfsFails(c)
           /\ UNCHANGED scenario

Spec == Init /\ [][Next]_vars

-----------------------------------------------------------------------------
(* The variables hold what their comments say. *)
TypeOK ==
    /\ scenario \in Scenarios
    /\ exists \subseteq Names /\ bases \subseteq Jails
    /\ deps \in [Names -> SUBSET Names]
    /\ \A n \in Names \ exists : deps[n] = {}
    /\ pc \in [Clients -> PCs]
    /\ target \in [Clients -> Names]
    /\ want \in [Clients -> SUBSET Names]
    /\ todo \in [Clients -> SUBSET Jails]
    /\ DOMAIN seen = Clients
    /\ \A c \in Clients : /\ DOMAIN seen[c] \subseteq Jails
                          /\ \A r \in DOMAIN seen[c] : seen[c][r] \subseteq Names

Stored == [n \in exists |-> deps[n]]

Given(command) ==
    \E c \in Clients, n \in Names : <<c, command, n>> \in scenario.commands

OneClient == \A x, y \in scenario.commands : x[1] = y[1]

(* What one client reads is what is stored. *)
OneReader == OneClient /\ ~scenario.misreads

(* Cycles are never stored (README.md:209-210, dependency.rs:86-106), whatever
   is created, changed, hidden by a base or destroyed before by one client whose
   reads succeed. *)
NoCycles == OneReader => Acyclic(Stored)

(* While nothing is destroyed, no interleaving and no failed read stores a dependency on a
   resource that does not exist (dependency.rs:70-77): every start finds what
   it looks for (jail.rs:532-540). *)
DependenciesExist == ~Given("destroy") => Closed(Stored)

SetPCs == {"graph", "zfs_set"}
DestroyPCs == {"list", "refs", "refs_set", "zfs_destroy"}
ReaderPCs == SetPCs \union {"refs_set"}

(* A client works for a command that it gave. *)
AsAsked(c) ==
    /\ pc[c] # "idle" => \E x \in scenario.commands : x[1] = c
    /\ pc[c] = "zfs_base" => Given("create_base") /\ target[c] \in Jails
    /\ pc[c] \in DestroyPCs => Given("destroy")

(* What it has read is there, unless somebody destroys it; one client reads all
   of it, and misreads only to less. *)
Knows(c) ==
    /\ pc[c] \notin ReaderPCs => DOMAIN seen[c] = {}
    /\ pc[c] \in {"zfs_set", "zfs_destroy"} => todo[c] = {}
    /\ pc[c] = "refs_set" => \A r, s \in DOMAIN seen[c] : r = s
    /\ pc[c] \in SetPCs =>
          /\ ~Given("destroy") => DOMAIN seen[c] \union todo[c] \subseteq exists
          /\ OneClient => DOMAIN seen[c] \union todo[c] = Listed
    /\ OneClient => \A r \in DOMAIN seen[c] :
          seen[c][r] \subseteq deps[r] /\ (~scenario.misreads => seen[c][r] = deps[r])

Validated(c) ==
    pc[c] = "zfs_set" => Valid(Overridden(seen[c], target[c], want[c]))

(* destroy leaves no reference behind on a resource that it is past. *)
References(c) ==
    OneReader /\ pc[c] \in DestroyPCs \ {"list"} =>
       \A r \in Listed \ (todo[c] \union DOMAIN seen[c]) : target[c] \notin deps[r]

(* The variables have their types, what is stored has neither cycles nor
   dependencies on nothing, and each client knows what its next call relies on. *)
Inv ==
    /\ TypeOK /\ NoCycles /\ DependenciesExist
    /\ bases # {} => Given("create_base")
    /\ \A c \in Clients : AsAsked(c) /\ Knows(c) /\ Validated(c) /\ References(c)

(* The daemon can always boot: validate_all (dependency.rs:65-68), which
   start_enabled runs first (priosund.rs:81-82) and dies on, accepts what is
   stored, also between the steps of a command and after one that failed.  A
   base with a jail's name would hide that jail from it. *)
AlwaysBootable ==
    OneReader /\ ~Given("create_base") => Valid([n \in Listed |-> deps[n]])

Refuses(c) == pc[c] = "graph" /\ pc'[c] = "idle" /\ target[c] \in exists

Justified(c) == ~Valid(Overridden(Stored, target[c], want[c]))

(* set_dependencies refuses only what would leave a missing or a cyclic
   dependency behind.  README.md:213 and 235 give a VM as a dependency. *)
RejectsOnlyInvalid == [][\A c \in Clients : Refuses(c) => Justified(c)]_vars

(* So it is while jails depend on jails only (dependency.rs:40-106): the staleness
   of what it read cannot matter to one client, and no base hides a jail.  A read
   that fails makes it accept more, never less. *)
RejectsOnlyInvalidJails ==
    [][\A c \in Clients :
          Refuses(c) /\ OneClient /\ ~Given("create_base") /\ exists \subseteq Jails
          => Justified(c)]_vars
=============================================================================
