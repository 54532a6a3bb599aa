--------------------------- MODULE MCHostNetwork ---------------------------
(* Instances of HostNetwork for TLC: configurations, the host's files as   *)
(* they were, and what may go wrong.                                       *)
EXTENDS HostNetwork

CONSTANTS t1, t2

Config(families, projects, override) ==
    [families |-> families, projects |-> projects, override |-> override]

Both == Config({4, 6}, "projects", FALSE)
OnlyV4 == Config({4}, "projects", FALSE)
OnlyV6 == Config({6}, "projects", FALSE)
Moved == Config({4}, "elsewhere", TRUE)
Wrong == {Config({}, "projects", FALSE), Config({4}, "missing", FALSE), OnlyV6}

Base == [inits |-> {<<t1, Both>>}, others |-> {}, faults |-> {}, failures |-> 0,
         restarts |-> 0, keys |-> 3, stacking |-> TRUE, lease |-> FALSE, resolv |-> {"isp"},
         exports |-> <<"V4", "admin">>]

NetworkScenarios == {
    \* one client; up to two calls fail, and the init is repeated
    [Base EXCEPT !.faults = Faults \ {"create"}, !.failures = 2],
    \* one client whose files are not cut: other calls fail
    [Base EXCEPT !.faults = Faults \ {"exports", "kea_key", "knot_key", "unbound"},
                 !.failures = 1, !.lease = TRUE],
    \* the same, with a jail that may be created in part and a kernel that refuses a
    \* second mount; the daemon may die
    [Base EXCEPT !.faults = Faults, !.failures = 1, !.stacking = FALSE, !.restarts = 1],
    \* one client, whose configuration changes, and who starts and stops the jail
    [Base EXCEPT !.inits = {t1} \X ({Both, OnlyV4, Moved} \union Wrong),
                 !.others = {t1}, !.lease = TRUE, !.exports = <<"admin">>],
    \* two inits at once; a call that leaves something half-made may fail
    [Base EXCEPT !.inits = {t1, t2} \X {Both},
                 !.faults = {"exports", "create", "kea_key", "start", "unbound"},
                 !.failures = 1, !.keys = 2, !.resolv = {"local", "isp"}],
    \* a name server that is local already; somebody else starts and stops the jail
    [Base EXCEPT !.others = {t2}, !.resolv = {"local"}, !.exports = <<>>]}

OneFamilyScenarios == {[Base EXCEPT !.inits = {<<t1, OnlyV6>>, <<t1, OnlyV4>>}]}
=============================================================================
