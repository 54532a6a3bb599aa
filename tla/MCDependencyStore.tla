-------------------------- MODULE MCDependencyStore --------------------------
(* Instances of DependencyStore for TLC: who gives which commands.          *)
EXTENDS DependencyStore

CONSTANTS a, b, c, v, p, q

(* One client with three jails; one with two jails, a VM and bases; two clients
   who destroy nothing but bases; one whose reads may fail. *)
OneClientJails == {p} \X {"create", "set", "destroy"} \X {a, b, c}
OneClientBases == {p} \X Commands \X {a, b, v}
TwoClients == {p, q} \X (Commands \ {"destroy"}) \X {a, b}

TwoJails == {p} \X {"create", "set", "destroy"} \X {a, b}
CreateAndSet == {p} \X {"create", "set"} \X {a, b, c}

Asks(commands, misreads) == [commands |-> commands, misreads |-> misreads]

AllScenarios ==
    {Asks(cs, FALSE) : cs \in {OneClientJails, OneClientBases, TwoClients}}
    \union {Asks(cs, TRUE) : cs \in {TwoJails, CreateAndSet}}

(* One client creates a jail and a VM and sets their dependencies. *)
VmScenarios == {Asks({p} \X {"create", "set"} \X {a, v}, FALSE)}
=============================================================================
