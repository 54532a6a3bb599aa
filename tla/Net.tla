-------------------------------- MODULE Net --------------------------------
(* The host side of src/src/net.rs: cloned interfaces (epairs for jails,   *)
(* taps for VMs) and the bridge they join.  A unit u stands for the whole  *)
(* interface name ("epair<u>a" / "epair<u>b", or "tap<u>").  The kernel    *)
(* hands out the lowest free unit, so a name that was destroyed comes back *)
(* with the next create: nothing in a name tells an old interface from a   *)
(* new one.                                                                *)
EXTENDS Naturals

CONSTANT Units      \* the unit numbers the kernel may hand out

ASSUME UnitsAssumption == Units \subseteq Nat \ {0}

VARIABLES
    ifaces,         \* units of the interfaces that exist
    bridge          \* units of the host-side members of config.bridge

netVars == <<ifaces, bridge>>

None == 0           \* "no interface", "no jid"

NetTypeOK == /\ ifaces \subseteq Units
             /\ bridge \subseteq ifaces

NetInit == ifaces = {} /\ bridge = {}

(* net::create: SIOCIFCREATE2 clones an interface under the lowest free unit. *)
CreateInterface(u) ==
    /\ u \in Units \ ifaces
    /\ \A v \in Units \ ifaces : u <= v
    /\ ifaces' = ifaces \union {u}
    /\ UNCHANGED bridge

(* net::destroy: SIOCIFDESTROY by name; the kernel drops the bridge
   membership with the interface.  It fails when no such interface exists. *)
DestroyInterface(u) ==
    /\ u \in ifaces
    /\ ifaces' = ifaces \ {u}
    /\ bridge' = bridge \ {u}

(* net::bridge_add: BRDGADD fails for a missing interface or a member. *)
BridgeAdd(u) ==
    /\ u \in ifaces \ bridge
    /\ bridge' = bridge \union {u}
    /\ UNCHANGED ifaces

(* net::bridge_delete: BRDGDEL fails for an interface that is no member. *)
BridgeDelete(u) ==
    /\ u \in bridge
    /\ bridge' = bridge \ {u}
    /\ UNCHANGED ifaces
=============================================================================
