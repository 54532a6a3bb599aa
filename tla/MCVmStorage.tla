---------------------------- MODULE MCVmStorage ----------------------------
(* Instances of VmStorage for TLC: who may ask for what, which calls may   *)
(* fail, and which VM is there at the beginning.                           *)
EXTENDS VmStorage, TLC

CONSTANTS v1, v2, t1, t2

(* PCI ids of the devices a host may pass through *)
HostDevices == 1..26

Create(cloud, iso, tpm) == [op |-> "create", cloud |-> cloud, iso |-> iso,
                            vnc |-> TRUE, tpm |-> tpm, start |-> TRUE]
Set(writes, add, remove) == [op |-> "set", writes |-> writes, add |-> add, remove |-> remove]
Plain(op) == [op |-> op]

RemoveCd == Set(<<<<"iso", FALSE>>>>, 0, 0)
AllDevices == [NoOptions EXCEPT !.complete = TRUE, !.passthru = [i \in 1..22 |-> i]]

Scenario(requests, faults, deaths, created) ==
    [requests |-> requests, faults |-> faults, restarts |-> deaths, created |-> created]

(* t asks for any of the requests R about v *)
Asks(t, R, v) == {t} \X R \X {v}

Lives == {Plain("start"), Plain("stop"), Plain("destroy")}
CleanedUp == {"zvol", "metadata", "fetch", "convert", "seed", "tap", "spawn",
              "poweroff", "timeout"}

StorageScenarios == {
    \* one client; every failure that leaves nothing behind, guests power off
    Scenario(Asks(t1, {Create(TRUE, FALSE, TRUE)} \union Lives, v1), CleanedUp, 0, NoOptions),
    \* one client; failures that leave something behind, and the daemon may die
    Scenario(Asks(t1, {Create(TRUE, FALSE, TRUE), Plain("start"), Plain("destroy")}, v1),
             {"check", "tpmfile", "zfs_destroy"}, 1, NoOptions),
    \* one client, who never destroys; every failure of a create
    Scenario(Asks(t1, {Create(TRUE, FALSE, FALSE), Plain("start"), Plain("stop")}, v1),
             CleanedUp \union {"umount"}, 0, NoOptions),
    \* two clients on one VM
    Scenario(Asks(t1, {Create(FALSE, FALSE, TRUE), Plain("destroy")}, v1)
             \union Asks(t2, {Plain("start"), Plain("stop")}, v1), {}, 0, NoOptions),
    \* two VMs made from one image
    Scenario(Asks(t1, {Create(TRUE, FALSE, FALSE), Plain("destroy")}, v1)
             \union Asks(t2, {Create(TRUE, FALSE, FALSE), Plain("destroy")}, v2),
             {"fetch"}, 0, NoOptions),
    \* devices are added and removed while the VM is started and stopped
    Scenario(Asks(t1, {Set(<<<<"vnc", TRUE>>, <<"sound", TRUE>>>>, 23, 0), Set(<<>>, 24, 0),
                       Set(<<<<"vnc", FALSE>>>>, 0, 1), RemoveCd,
                       Plain("start"), Plain("stop")}, v1),
             {"metadata", "pidfile"}, 0, AllDevices),
    \* two clients change the list of devices
    Scenario(Asks(t1, {Set(<<>>, 23, 0)}, v1) \union Asks(t2, {Set(<<>>, 0, 1)}, v1),
             {}, 0, AllDevices)}
=============================================================================
