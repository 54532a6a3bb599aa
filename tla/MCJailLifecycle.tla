-------------------------- MODULE MCJailLifecycle --------------------------
(* Instances of JailLifecycle for TLC: who may ask for what, and what may  *)
(* go wrong meanwhile.                                                     *)
EXTENDS JailLifecycle

CONSTANTS j1, j2, t1, t2

Operations == {"start", "stop"}

(* t1 starts and stops j1, t2 starts and stops j2. *)
EachItsOwn == ({t1} \X Operations \X {j1}) \union ({t2} \X Operations \X {j2})

(* Everybody may start and stop everything. *)
Anything == [requests |-> {t1, t2} \X Operations \X {j1, j2}, faults |-> {"rc"}]

(* Each jail has one driver, and what is there goes when told. *)
OneDriver == [requests |-> EachItsOwn,
              faults |-> Calls \ {"busy", "remove", "unbridge", "destroy"}]

(* Epairs may stay in the bridge, or altogether. *)
Leftovers == [requests |-> EachItsOwn, faults |-> {"move", "rc", "unbridge", "destroy"}]

(* Every call may fail, also those of the clean-up, on one jail that both want. *)
Broken == [requests |-> {t1, t2} \X Operations \X {j1}, faults |-> Calls]

(* Two clients race to start j1, which no one stops; t2 also has j2. *)
Starters == [requests |-> ({t1, t2} \X {"start"} \X {j1})
                          \union ({t2} \X Operations \X {j2}),
             faults |-> Calls \ {"busy", "remove", "unbridge", "destroy"}]

AllScenarios == {Anything, OneDriver, Leftovers, Broken, Starters}
=============================================================================
