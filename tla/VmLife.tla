------------------------------- MODULE VmLife -------------------------------
(* The life of a VM as its client sees it, without saying how: it is off, it *)
(* is being started, it is on with its process, console and tap, or it is on *)
(* its way out, and it goes from one to the next.  One thing is done at a    *)
(* time.  Unless its use is orderly, anything may happen.                    *)
CONSTANT Vms

VARIABLES
    orderly,        \* one client, guests that power off only when they are asked to
    phase           \* of each VM: off, starting, on or stopping

vars == <<orderly, phase>>

Init ==
    /\ orderly \in BOOLEAN
    /\ phase = [v \in Vms |-> "off"]

Goes(v, from, to) == phase[v] = from /\ phase' = [phase EXCEPT ![v] = to]

(* The client is not busy with another VM, or with this one. *)
Idle == \A v \in Vms : phase[v] \in {"off", "on"}

Start(v) == Idle /\ Goes(v, "off", "starting")

Started(v) == Goes(v, "starting", "on")

StartFails(v) == Goes(v, "starting", "off")

Stop(v) == Idle /\ Goes(v, "on", "stopping")

Stopped(v) == Goes(v, "stopping", "off")

Next ==
    /\ \/ ~orderly
       \/ \E v \in Vms :
             Start(v) \/ Started(v) \/ StartFails(v) \/ Stop(v) \/ Stopped(v)
    /\ UNCHANGED orderly

Spec == Init /\ [][Next]_vars
=============================================================================
