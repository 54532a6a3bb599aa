------------------------------ MODULE MCSession ------------------------------
(* Instances of Session for TLC. *)
EXTENDS Session, TLC

CONSTANTS s1, s2, vm, pty

Faults == {"request", "spawn", "exit", "read", "attach"}

(* One command whose client may be killed; nothing, or everything, may fail. *)
Command1(faults) ==
    [clients |-> {s1}, kind |-> [s \in Sessions |-> "run"],
     console |-> (s1 :> pty @@ s2 :> vm), jails |-> {pty}, running |-> {}, inherited |-> {},
     output |-> 2, keys |-> 0, leaving |-> {s1}, faults |-> faults]

(* A jail or a VM is started, attached to and typed into. *)
StartAttach(console, another) ==
    [Command1(Faults \ {"read"}) EXCEPT !.kind = [s \in Sessions |-> "start_attach"],
                                        !.console = (s1 :> console @@ s2 :> another),
                                        !.running = {console}, !.output = 1, !.keys = 2]

(* Two sessions on the console of one VM, one after the other or both at once;
   the VM may not run, and another child may have its console open. *)
TwoOnConsole(running, inherited, chunks) ==
    [clients |-> {s1, s2}, kind |-> [s \in Sessions |-> "attach"],
     console |-> [s \in Sessions |-> vm], jails |-> {}, running |-> running,
     inherited |-> inherited, output |-> chunks, keys |-> 0, leaving |-> {s1}, faults |-> {}]

AllScenarios == {Command1({}), Command1(Faults), StartAttach(pty, vm), StartAttach(vm, pty),
                 TwoOnConsole({vm}, {}, 2), TwoOnConsole({}, {}, 0),
                 TwoOnConsole({vm}, {vm}, 0)}
=============================================================================
