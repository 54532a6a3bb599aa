----------------------------- MODULE StartOrder -----------------------------
(* Starting resources in the order of their dependencies: start_with_stack   *)
(* of src/src/jail.rs and src/src/bhyve.rs, which call each other, and       *)
(* start_enabled of src/src/bin/priosund.rs, which the daemon runs before it *)
(* accepts requests.  Of start_inner there are the moments that another      *)
(* activation can see: a jail is taken for running long before its /etc/rc   *)
(* is through, and is taken away again when that fails.  All its calls, and  *)
(* those of stop, are in JailLifecycle and VmLifecycle.                      *)
EXTENDS DependencyOrder, Naturals, Sequences

CONSTANTS
    Names,          \* names of resources, and of dependencies without one
    Threads,        \* connection threads of the daemon
    Main,           \* its main thread
    Scenarios       \* what there is, what is asked and what may fail, see below

ASSUME OrderAssumption ==
    /\ Main \notin Threads
    /\ Scenarios \subseteq
          [jails: SUBSET Names, vms: SUBSET Names, enabled: SUBSET Names,
           requests: SUBSET (Threads \X {"start", "stop"} \X Names),
           changing: SUBSET Names,    \* their dependencies may be set anew
           failing: SUBSET Names,     \* start_inner of these may fail
           dying: SUBSET Names,       \* these may stop by themselves
           deaths: Nat]               \* of the daemon, a bound

VARIABLES
    scenario,       \* fixed at Init
    deps,           \* the stored dependencies of each resource
    running,        \* the resources that run
    daemon,         \* down, boot, serve: what the main thread is about
    queue,          \* enabled resources that start_enabled has yet to start
    stack,          \* activations of start_with_stack, the innermost first
    phase,          \* of the innermost: deps, inner (start_inner) or up, see below
    deaths          \* of the daemon so far

vars == <<scenario, deps, running, daemon, queue, stack, phase, deaths>>

Callers == Threads \union {Main}

Exists == scenario.jails \union scenario.vms

(* A dependency is looked for among the jails first. *)
Vms == scenario.vms \ scenario.jails

Starters == {t \in Threads : \E n \in Names : <<t, "start", n>> \in scenario.requests}

OneStarter == \A t, u \in Starters : t = u

(* What resources() lists: jails.  VMs have no directory. *)
ListedDeps == [n \in scenario.jails |-> deps[n]]

(* Anything may be stored: VMs are not validated, and properties can be edited. *)
Graphs == {g \in [Names -> SUBSET Names] : \A n \in Names \ Exists : g[n] = {}}

Init ==
    /\ scenario \in Scenarios
    /\ deps \in Graphs
    /\ running = {}
    /\ daemon = "down"
    /\ queue = {}
    /\ stack = [t \in Callers |-> <<>>]
    /\ phase = [t \in Callers |-> "deps"]
    /\ deaths = 0

OnStack(frames) == {frames[i].name : i \in 1..Len(frames)}

(* A frame: a call of start_with_stack and the dependencies it has to try. *)
Frame(n, ds) == [name |-> n, todo |-> ds]

(* An error unwinds all activations; the daemon does not survive one at boot. *)
Fail(t) ==
    /\ stack' = [stack EXCEPT ![t] = <<>>]
    /\ phase' = [phase EXCEPT ![t] = "deps"]
    /\ daemon' = IF t = Main THEN "down" ELSE daemon
    /\ queue' = IF t = Main THEN {} ELSE queue

(* mutant: the stack is not looked at *)
CallUnchecked(t, n, frames) ==
    /\ stack' = [stack EXCEPT ![t] = IF n \in running THEN frames
                                     ELSE <<Frame(n, deps[n])>> \o frames]
    /\ UNCHANGED <<running, daemon, phase>>

(* start_with_stack is called for n, on top of the activations in frames: a
   running resource is left alone, and one that is being started is a cycle. *)
Call(t, n, frames) ==
    /\ n \in running \/ n \notin OnStack(frames)
    /\ stack' = [stack EXCEPT ![t] = IF n \in running THEN frames
                                     ELSE <<Frame(n, deps[n])>> \o frames]
    /\ UNCHANGED <<running, daemon, phase>>

CallFails(t, n, frames) ==
    /\ n \notin running /\ n \in OnStack(frames)
    /\ Fail(t) /\ UNCHANGED running

Top(t) == Head(stack[t])

(* mutant: the dependency stays on the list *)
BelowKeeps(t, d) == stack[t]

(* The top activation has taken d from its list. *)
Below(t, d) == <<Frame(Top(t).name, Top(t).todo \ {d})>> \o Tail(stack[t])

-----------------------------------------------------------------------------
(* main: validate_all and start_enabled, then the accept loop *)

(* A daemon that finds the listed graph invalid is down again at once. *)
Boot ==
    /\ daemon = "down"
    /\ Valid(ListedDeps)
    /\ daemon' = "boot"
    /\ queue' = scenario.enabled \intersect scenario.jails
    /\ UNCHANGED <<running, stack, phase, deaths>>

BootNext ==
    /\ daemon = "boot" /\ stack[Main] = <<>>
    /\ \E n \in queue : /\ queue' = queue \ {n}
                        /\ Call(Main, n, <<>>)
    /\ UNCHANGED deaths

(* mutant: requests are accepted too early *)
ServeEarly ==
    /\ daemon = "boot" /\ stack[Main] = <<>>
    /\ daemon' = "serve"
    /\ queue' = {}
    /\ UNCHANGED <<running, stack, phase, deaths>>

Serve ==
    /\ daemon = "boot" /\ stack[Main] = <<>> /\ queue = {}
    /\ daemon' = "serve"
    /\ UNCHANGED <<running, queue, stack, phase, deaths>>

Die ==
    /\ daemon # "down" /\ deaths < scenario.deaths
    /\ daemon' = "down"
    /\ deaths' = deaths + 1
    /\ queue' = {}
    /\ stack' = [t \in Callers |-> <<>>]
    /\ phase' = [t \in Callers |-> "deps"]
    /\ UNCHANGED running

-----------------------------------------------------------------------------
(* a connection thread *)

Asked(t, operation, n) == /\ daemon = "serve" /\ t # Main /\ stack[t] = <<>>
                          /\ n \in Exists
                          /\ <<t, operation, n>> \in scenario.requests

BeginStart(t, n) ==
    /\ Asked(t, "start", n)
    /\ n \notin running
    /\ Call(t, n, <<>>)
    /\ UNCHANGED <<queue, deaths>>

Stop(t, n) ==
    /\ Asked(t, "stop", n)
    /\ running' = running \ {n}
    /\ UNCHANGED <<daemon, queue, stack, phase, deaths>>

(* A guest powers off, a jail is removed behind the daemon's back; and of two
   bhyves that two clients have started for one VM the second ends, and its reaper
   takes the pid file of the first. *)
StopsByItself(n) ==
    /\ n \in scenario.dying \/ (n \in Vms /\ ~OneStarter)
    /\ running' = running \ {n}
    /\ UNCHANGED <<daemon, queue, stack, phase, deaths>>

(* set_dependencies, here one step.  Only listed names are accepted; that no
   cycle comes about is checked against a graph that another client may change
   (DependencyStore). *)
SetDependencies(n, ds) ==
    /\ n \in scenario.changing \intersect Exists /\ ds \subseteq scenario.jails
    /\ deps' = [deps EXCEPT ![n] = ds]
    /\ UNCHANGED <<running, daemon, queue, stack, phase, deaths>>

-----------------------------------------------------------------------------
(* start_with_stack *)

(* The next dependency; they are tried in the order they were given in. *)
TryDependency(t) ==
    /\ stack[t] # <<>> /\ phase[t] = "deps"
    /\ \E d \in Top(t).todo : d \in Exists /\ Call(t, d, Below(t, d))
    /\ UNCHANGED <<queue, deaths>>

(* mutant: dependencies are looked for among the jails only *)
DependencyFailsForVms(t) ==
    /\ stack[t] # <<>> /\ phase[t] = "deps"
    /\ \E d \in Top(t).todo : \/ d \notin scenario.jails /\ Fail(t) /\ UNCHANGED running
                              \/ d \in Exists /\ CallFails(t, d, Below(t, d))
    /\ UNCHANGED deaths

DependencyFails(t) ==
    /\ stack[t] # <<>> /\ phase[t] = "deps"
    /\ \E d \in Top(t).todo : \/ d \notin Exists /\ Fail(t) /\ UNCHANGED running
                              \/ d \in Exists /\ CallFails(t, d, Below(t, d))
    /\ UNCHANGED deaths

Enter(t, p) ==
    /\ phase' = [phase EXCEPT ![t] = p]
    /\ UNCHANGED <<daemon, queue, stack, deaths>>

(* mutant: start_inner does not wait for all dependencies *)
EnterInnerEarly(t) ==
    /\ stack[t] # <<>> /\ phase[t] = "deps"
    /\ Top(t).name \notin Vms \intersect running
    /\ Enter(t, "inner")
    /\ UNCHANGED running

(* start_inner of a VM looks whether the VM runs, that of a jail does not. *)
EnterInner(t) ==
    /\ stack[t] # <<>> /\ phase[t] = "deps" /\ Top(t).todo = {}
    /\ Top(t).name \notin Vms \intersect running
    /\ Enter(t, "inner")
    /\ UNCHANGED running

(* "already running": somebody else was faster, and has started the VM before
   start_inner looks or the jail before it is to be started; or a call fails. *)
StartInnerFails(t) ==
    /\ stack[t] # <<>> /\ Top(t).todo = {}
    /\ \/ phase[t] = "deps" /\ Top(t).name \in Vms \intersect running
       \/ phase[t] = "inner" /\ Top(t).name \in (running \ Vms) \union scenario.failing
    /\ Fail(t)
    /\ UNCHANGED <<running, deaths>>

(* The jail is started, or the pid file written: it runs, for all who look.  A VM
   that runs already gets a second bhyve. *)
Appear(t) ==
    /\ stack[t] # <<>> /\ phase[t] = "inner"
    /\ Top(t).name \in running => Top(t).name \in Vms
    /\ running' = running \union {Top(t).name}
    /\ Enter(t, "up")

(* start_inner is through; jexec has found the jail by its name. *)
Return(t) ==
    /\ stack[t] # <<>> /\ phase[t] = "up"
    /\ Top(t).name \in running \union Vms
    /\ stack' = [stack EXCEPT ![t] = Tail(@)]
    /\ phase' = [phase EXCEPT ![t] = "deps"]
    /\ UNCHANGED <<running, daemon, queue, deaths>>

(* A later call fails, as /etc/rc does when the jail has gone.  A jail is stopped
   again, unless that fails too; a VM whose emulator's pid cannot be written down
   stays. *)
GivesUp(t) ==
    /\ stack[t] # <<>> /\ phase[t] = "up"
    /\ Top(t).name \in scenario.failing \union (Exists \ (running \union Vms))
    /\ running' \in {running, running \ ({Top(t).name} \ Vms)}
    /\ Fail(t)
    /\ UNCHANGED deaths

Step(t) == \/ TryDependency(t) \/ DependencyFails(t)
           \/ EnterInner(t) \/ StartInnerFails(t)
           \/ Appear(t) \/ Return(t) \/ GivesUp(t)

Next ==
    /\ \/ /\ \/ Boot \/ BootNext \/ Serve \/ Die
             \/ \E t \in Callers : Step(t)
             \/ \E t \in Threads, n \in Names : BeginStart(t, n) \/ Stop(t, n)
             \/ \E n \in Names : StopsByItself(n)
          /\ UNCHANGED deps
       \/ \E n \in Names, ds \in SUBSET Names : SetDependencies(n, ds)
    /\ UNCHANGED scenario

Spec == Init /\ [][Next]_vars

(* Threads are scheduled and the calls of start_inner return; nobody need start
   the daemon or ask it for anything. *)
FairSpec == /\ Spec
            /\ \A t \in Callers : WF_vars(Step(t) /\ UNCHANGED <<scenario, deps>>)
            /\ WF_vars((BootNext \/ Serve) /\ UNCHANGED <<scenario, deps>>)

-----------------------------------------------------------------------------
(* Nobody stops anything, and no dependencies are set. *)
Calm == /\ scenario.dying = {} /\ scenario.changing = {}
        /\ \A t \in Threads, n \in Names : <<t, "stop", n>> \notin scenario.requests

(* And no client sees what another one's start takes back: one client starts, or
   there are only jails and their starts succeed. *)
Steady == Calm /\ (OneStarter \/ (scenario.failing = {} /\ Vms = {}))

Order == INSTANCE DependenciesFirst WITH deps <- deps, calm <- Steady

(* What may cease to run while t is starting it, by others' doing. *)
MayGo(t, n) == \/ n \in scenario.dying
               \/ \E u \in Threads \ {t} : <<u, "stop", n>> \in scenario.requests
               \/ ~OneStarter /\ n \in Vms \union scenario.failing

(* The names a start of n may come to: the least set that has n and the
   dependencies of its members that exist. *)
Needs(n) == {m \in Names : \A S \in SUBSET Names :
                n \in S /\ (\A k \in S \intersect Exists : deps[k] \subseteq S) => m \in S}

Root(t) == stack[t][Len(stack[t])].name

(* The variables hold what their comments say. *)
TypeOK ==
    /\ scenario \in Scenarios
    /\ deps \in Graphs
    /\ running \subseteq Exists
    /\ daemon \in {"down", "boot", "serve"}
    /\ queue \subseteq scenario.jails
    /\ stack \in [Callers -> Seq([name : Exists, todo : SUBSET Names])]
    /\ phase \in [Callers -> {"deps", "inner", "up"}]
    /\ deaths \in 0..scenario.deaths

(* start_enabled has started everything it should when the daemon begins to serve
   (priosund.rs:81-90), and until something stops, whatever died before. *)
EnabledAreStarted ==
    Calm /\ daemon = "serve" => scenario.enabled \intersect scenario.jails \subseteq running

(* "Dependencies are started first" (README.md:209; jail.rs:532-541,
   bhyve.rs:1029-1038): the recursion implements the abstract specification, also
   where clients start what they have in common at the same time, unless a start of
   one of them fails under the eyes of another, or takes a VM down (Steady). *)
OrderSpec == Order!Spec

(* The same sentence, taken at its word: while nobody stops anything, nothing begins to run
   before what it depends on.  The code breaks it: a jail counts as running
   (jail.rs:525) while its /etc/rc is at work, and when that fails (jail.rs:625-630)
   another client has passed it already. *)
StartedFirst ==
    [][Calm => \A n \in running' \ running : deps[n] \subseteq running]_vars

Broken(t, n) ==
    \/ ~Valid([m \in Needs(n) \intersect Exists |-> deps[m]])
    \/ \E m \in Needs(n) : m \in scenario.failing \/ (m \notin Vms /\ MayGo(t, m))

(* A start gives an error only for a reason: something it needs does not exist,
   depends on itself, cannot be started, or is a jail that somebody else stops while
   it is being started.  When two clients start resources at once, the slower may
   fail on what the faster has just started (jail.rs:525-541, bhyve.rs:1022-1049). *)
FailsWithReason ==
    [][\A t \in Callers :
          /\ stack[t] # <<>> /\ stack'[t] = <<>> /\ deaths' = deaths /\ ~Return(t)
          /\ OneStarter /\ scenario.changing = {}
          => Broken(t, Root(t))]_vars

(* Every start ends, also when the stored dependencies are cyclic and whatever
   stops meanwhile (jail.rs:528-530, bhyve.rs:1025-1027). *)
StartsEnd == \A t \in Callers : stack[t] # <<>> ~> stack[t] = <<>>

-----------------------------------------------------------------------------
(* Why dependencies are first.  What an activation has tried runs, or is being
   started by the activation it called; and only one part of the daemon starts
   things at a time. *)
Phases == \A t \in Callers :
             stack[t] # <<>> => daemon = (IF t = Main THEN "boot" ELSE "serve")

NoneTwice(frames) == \A i, j \in 1..Len(frames) :
                        frames[i].name = frames[j].name => i = j

Tried(g, run, frames) ==
    \A i \in 1..Len(frames) :
        g[frames[i].name] \ frames[i].todo
           \subseteq run \union (IF i = 1 THEN {} ELSE {frames[i - 1].name})

(* No name is twice on a stack, and what it has tried runs or is on top of it. *)
StacksOK == \A t \in Callers : /\ NoneTwice(stack[t])
                               /\ Steady => Tried(deps, running, stack[t])

(* start_inner is entered when all dependencies have been tried, and what it has
   brought up runs unless others may take it down. *)
PhaseOK(t) ==
    phase[t] # "deps" =>
       /\ stack[t] # <<>> /\ Top(t).todo = {}
       /\ phase[t] = "up" => Top(t).name \in running \/ MayGo(t, Top(t).name)

PhasesOK == \A t \in Callers : PhaseOK(t)

(* What runs has all it depends on; and nothing depends yet on what a start may
   still take back. *)
RunningClosed ==
    Steady =>
       /\ \A m \in running : deps[m] \subseteq running
       /\ OneStarter => \A t \in Callers, m \in running :
                           phase[t] = "up" => Top(t).name \notin deps[m]

(* The inductive invariant of the starts (jail.rs:528-541). *)
StackInv == TypeOK /\ Phases /\ StacksOK /\ PhasesOK

(* What is enabled runs, waits for its turn, or is what the main thread is at. *)
EnabledKept ==
    Calm =>
       /\ EnabledAreStarted
       /\ daemon = "serve" => \A t \in Callers :
             OnStack(stack[t]) \intersect scenario.enabled \intersect scenario.jails = {}
       /\ daemon = "boot" =>
             scenario.enabled \intersect scenario.jails
                \subseteq running \union queue
                         \union (IF stack[Main] = <<>> THEN {} ELSE {Root(Main)})

(* Each activation has its own dependencies to try and was called for one of the
   activation below: all are for what the first of them needs. *)
Linked(frames) ==
    \A i \in 1..Len(frames) :
        /\ frames[i].todo \subseteq deps[frames[i].name]
        /\ i > 1 => frames[i - 1].name \in deps[frames[i].name]
        /\ frames[i].name \in Needs(frames[Len(frames)].name)

PathsOK == scenario.changing = {} => \A t \in Callers : Linked(stack[t])

(* Only starters start, and what one of them is about to start nobody else has. *)
Unstarted ==
    /\ \A t \in Threads : stack[t] # <<>> => t \in Starters
    /\ OneStarter => \A t \in Callers :
          OnStack(stack[t]) \intersect running
             \subseteq (IF phase[t] = "up" THEN {Top(t).name} ELSE {})

(* The inductive invariant: why dependencies are first, what is enabled is not
   forgotten and a start fails with a reason (jail.rs:520-543, priosund.rs:81-90). *)
Inv == StackInv /\ RunningClosed /\ EnabledKept /\ PathsOK /\ Unstarted
=============================================================================
