------------------------- MODULE MCDependencyGraph -------------------------
(* Every graph over three names, with dependencies on names without a      *)
(* resource, self-dependencies and cycles, searched in every order.        *)
EXTENDS DependencyGraph
=============================================================================
