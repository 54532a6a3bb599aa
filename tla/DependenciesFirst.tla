------------------------- MODULE DependenciesFirst -------------------------
(* "Dependencies are started first" (README.md of priosun): what starting    *)
(* promises, without saying how.  A resource is started while everything it  *)
(* depends on runs, and a start that fails takes it back before anything     *)
(* that depends on it runs.  Unless the world is calm, resources also stop   *)
(* and their dependencies are set anew.                                      *)
CONSTANT Names

VARIABLES
    deps,           \* the names each resource depends on
    calm,           \* nobody stops anything, and no dependencies are set
    running

vars == <<deps, calm, running>>

Init ==
    /\ deps \in [Names -> SUBSET Names]
    /\ calm \in BOOLEAN
    /\ running = {}

Start(n) ==
    /\ n \notin running
    /\ calm => deps[n] \subseteq running
    /\ running' = running \union {n}
    /\ UNCHANGED deps

Stop(n) ==
    /\ calm => \A m \in running : n \notin deps[m]
    /\ running' = running \ {n}
    /\ UNCHANGED deps

SetDependencies(n, ds) ==
    /\ ~calm
    /\ deps' = [deps EXCEPT ![n] = ds]
    /\ UNCHANGED running

Next ==
    /\ \E n \in Names : \/ Start(n) \/ Stop(n)
                        \/ \E ds \in SUBSET Names : SetDependencies(n, ds)
    /\ UNCHANGED calm

Spec == Init /\ [][Next]_vars
=============================================================================
