--------------------------- MODULE MCVmLifecycle ---------------------------
(* Instances of VmLifecycle for TLC: who may ask for what, and what may go *)
(* wrong meanwhile.                                                        *)
EXTENDS VmLifecycle

CONSTANTS v1, v2, t1, t2

OneDriver == {t1} \X {"start", "stop"} \X {v1}
TwoVms == {t1} \X {"start", "stop"} \X {v1, v2}
TwoStarters == {t1, t2} \X {"start"} \X {v1}
StarterAndStopper == {<<t1, "start", v1>>, <<t2, "stop", v1>>}

Scenario(requests, faults, deaths) ==
    [requests |-> requests, faults |-> faults, restarts |-> deaths]

(* Two clients start one VM; one starts it and another stops it, while its guest
   powers off by itself; one client does both, and every failure that the code
   cleans up after happens; one does, and everything happens but a bhyve that the
   daemon does not know of; one does, and that happens. *)
AllScenarios == {Scenario(TwoStarters, {"spawn", "poweroff"}, 0),
                 Scenario(StarterAndStopper, {"spawn", "poweroff", "timeout"}, 0),
                 Scenario(TwoVms, {"create", "tapfile", "spawn"}, 0),
                 Scenario(OneDriver, VmFaults \ {"pidfile"}, 1),
                 Scenario(OneDriver, {"pidfile", "poweroff"}, 0)}
=============================================================================
