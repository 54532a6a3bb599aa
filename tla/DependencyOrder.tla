-------------------------- MODULE DependencyOrder --------------------------
(* What "dependencies are started first, and cycles are rejected" asks of a *)
(* dependency graph g, a function from each resource's name to the set of   *)
(* names it depends on.                                                     *)
EXTENDS FiniteSets

Closed(g) == \A n \in DOMAIN g : g[n] \subseteq DOMAIN g

(* No set of resources in which each waits for another of the set. *)
Deadlocked(g, S) == S # {} /\ \A n \in S : g[n] \intersect S # {}

Acyclic(g) == \A S \in SUBSET DOMAIN g : ~Deadlocked(g, S)

Valid(g) == Closed(g) /\ Acyclic(g)
=============================================================================
