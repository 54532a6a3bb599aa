---------------------------- MODULE MCStartOrder ----------------------------
(* Instances of StartOrder for TLC: every dependency graph over three names. *)
EXTENDS StartOrder

CONSTANTS a, b, c, p, q

Requests(clients, operations) == clients \X operations \X Names

(* The daemon boots, dies and boots again, while starts fail. *)
Reboot == [jails |-> {a, b, c}, vms |-> {}, enabled |-> {a, b}, requests |-> {},
           changing |-> {}, failing |-> {c}, dying |-> {}, deaths |-> 1]

(* Two clients start three jails, what they have in common too. *)
Race == [jails |-> {a, b, c}, vms |-> {}, enabled |-> {},
         requests |-> Requests({p, q}, {"start"}),
         changing |-> {}, failing |-> {}, dying |-> {}, deaths |-> 0]

(* Two clients start two jails, of which one may fail, and a VM. *)
Clash == [Race EXCEPT !.jails = {a, b}, !.vms = {c}, !.enabled = {b}, !.failing = {a}]

(* One client starts a jail and two VMs, while another stops them and one VM stops
   by itself; or while a jail goes away and one of the VMs is missing. *)
Dying == [jails |-> {a}, vms |-> {b, c}, enabled |-> {a},
          requests |-> Requests({p}, {"start"}) \union Requests({q}, {"stop"}),
          changing |-> {}, failing |-> {}, dying |-> {b}, deaths |-> 0]
Missing == [Dying EXCEPT !.vms = {c}, !.requests = Requests({p}, {"start", "stop"}),
                         !.dying = {a}]

(* The dependencies change under way, and cycles come about. *)
Changing == [jails |-> {a, b}, vms |-> {}, enabled |-> {a},
             requests |-> Requests({p}, {"start"}),
             changing |-> {a, b}, failing |-> {}, dying |-> {a}, deaths |-> 1]

AllScenarios == {Reboot, Race, Clash, Dying, Missing, Changing}

ClashScenario == {Clash}
=============================================================================
