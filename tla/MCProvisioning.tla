--------------------------- MODULE MCProvisioning ---------------------------
(* Instances of Provisioning for TLC. *)
EXTENDS Provisioning

CONSTANTS a, b, p, q

(* One client, one service with sources and provisioners and one without:
   every command, and every call may fail. *)
Alone(faults) == [requests |-> {p} \X Ops \X {a}, develop |-> {a},
                  provisioned |-> {a}, faults |-> faults]
Plain == [requests |-> {p} \X {"up", "down", "destroy"} \X {b}, develop |-> {},
          provisioned |-> {}, faults |-> {}]

(* Only up and down, which may fail to provision. *)
UpAndDown(faults) ==
    [requests |-> {p} \X {"up", "down", "provision"} \X {a}, develop |-> {a},
     provisioned |-> {a}, faults |-> faults]

(* Two clients bring one service up and down and provision it; without faults
   and without destroy, or with everything. *)
Together == [requests |-> {p, q} \X {"up", "down", "provision"} \X {a},
             develop |-> {a}, provisioned |-> {a},
             faults |-> {"provision", "read", "stop", "umount"}]
Rivals == [requests |-> {p, q} \X {"up", "down", "destroy"} \X {a},
           develop |-> {}, provisioned |-> {a}, faults |-> {"stop"}]

(* What a property does not allow to fail, does not; all else may. *)
AllScenarios ==
    {Alone(Faults), Alone(Faults \ {"zfs", "read"}), Alone(Faults \ {"create"}),
     Alone(Faults \ {"create", "umount", "stop"}),
     UpAndDown(Faults \ {"create", "start", "umount"}), Plain, Together, Rivals}
=============================================================================
