----------------------------- MODULE VmOptions -----------------------------
(* The options of a VM, kept as user properties of its zvol: what create,  *)
(* set_vm_options and start_inner of src/src/bhyve.rs make of them.  Of    *)
(* the options only those are here that share a slot of the PCI bus or     *)
(* decide what a start does; the others are stored the same way.           *)
EXTENDS Naturals, SequencesExt

CONSTANT Devices    \* PCI ids that may be passed through

ASSUME DevicesAssumption == Devices \subseteq Nat \ {0}

Fields == {"iso", "vnc", "tpm", "sound"}

(* complete: every property is there that read_config requires *)
Options == [complete: BOOLEAN, iso: BOOLEAN, vnc: BOOLEAN, tpm: BOOLEAN,
            sound: BOOLEAN, passthru: Seq(Devices)]

NoOptions == [complete |-> FALSE, iso |-> FALSE, vnc |-> FALSE, tpm |-> FALSE,
              sound |-> FALSE, passthru |-> <<>>]

(* what create stores *)
Created(r) == [complete |-> TRUE, iso |-> r.iso, vnc |-> r.vnc, tpm |-> r.tpm,
               sound |-> FALSE, passthru |-> <<>>]

(* set_vm_options: what is refused before anything is written.  A request names
   its writes in the order of the code: --remove-cd is <<"iso", FALSE>>. *)
Acceptable(r) ==
    /\ r.writes # <<>> \/ r.add # 0 \/ r.remove # 0
    /\ ~(r.add # 0 /\ r.remove # 0)
    /\ ~(<<"iso", FALSE>> \in ToSet(r.writes) /\ <<"iso", TRUE>> \in ToSet(r.writes))

(* the first k writes of a request: the last of them that names an option decides
   of it; an error returns between two writes *)
Written(o, r, k) ==
    LET After(f) == \/ \E i \in 1..k : /\ r.writes[i] = <<f, TRUE>>
                                       /\ \A j \in (i + 1)..k : r.writes[j][1] # f
                    \/ o[f] /\ \A j \in 1..k : r.writes[j][1] # f
    IN [o EXCEPT !.iso = After("iso"), !.vnc = After("vnc"), !.tpm = After("tpm"),
                 !.sound = After("sound")]

Has(list, device) == device \in ToSet(list)

Added(list, device) == Append(list, device)

(* mutant: truncates the list at the device *)
RemovedRest(list, device) ==
    SubSeq(list, 1, SelectInSeq(list, LAMBDA d : d = device) - 1)

Removed(list, device) == RemoveFirst(list, device)

(* mutant: the first passthrough device gets the slot of the sound device *)
BusSlotsFromFive(o, cdata) ==
    <<0, 3, 2, 31>> \o [i \in DOMAIN o.passthru |-> 4 + i]
    \o (IF cdata \/ o.iso THEN <<4>> ELSE <<>>)
    \o (IF o.vnc THEN <<30, 29>> ELSE <<>>)
    \o (IF o.sound THEN <<5>> ELSE <<>>)

(* start_inner: the bus slots of the devices in the order of bhyve's arguments:
   hostbridge, disk, network, lpc; passthrough; seed or CD; tablet and frame
   buffer; sound *)
BusSlots(o, cdata) ==
    <<0, 3, 2, 31>> \o [i \in DOMAIN o.passthru |-> 5 + i]
    \o (IF cdata \/ o.iso THEN <<4>> ELSE <<>>)
    \o (IF o.vnc THEN <<30, 29>> ELSE <<>>)
    \o (IF o.sound THEN <<5>> ELSE <<>>)

(* bhyve accepts the arguments (external) *)
OnBus(slots) == IsInjective(slots) /\ ToSet(slots) \subseteq 0..31

(* how many devices of the list fit *)
MaxPassthru(o) == IF o.vnc THEN 23 ELSE 25
=============================================================================
