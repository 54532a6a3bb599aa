------------------------------ MODULE Exchange ------------------------------
(* What a client may rely on that sends a request to priosund, without saying  *)
(* which thread sends what: it is sent events, then one response, and whatever *)
(* becomes of its connection, what it reports is true.                         *)
EXTENDS Naturals, Sequences

CONSTANT Sessions

VARIABLES
    joined,         \* commands are waited for to the end of their output
    said,           \* the kinds of the messages that each client has been sent
    work,           \* what came of its command: none, run, exited, failed
    told            \* what it reports: idle, wait, ok, error, lost, killed

vars == <<joined, said, work, told>>

Events == {"command", "stdout", "stderr", "login", "serial", "console"}

Responses == {"ok", "error"}

(* a console or a login has been attached *)
Greetings == {"serial", "login"}

Has(s, kinds) == \E i \in 1..Len(said[s]) : said[s][i] \in kinds

Init ==
    /\ joined \in BOOLEAN
    /\ said = [s \in Sessions |-> <<>>]
    /\ work = [s \in Sessions |-> "none"]
    /\ told = [s \in Sessions |-> "idle"]

Work(s, from, to) == work[s] = from /\ work' = [work EXCEPT ![s] = to]

Say(s, kind) == said' = [said EXCEPT ![s] = Append(said[s], kind)]

Report(s, how) == told[s] = "wait" /\ told' = [told EXCEPT ![s] = how]

Ask(s) ==
    /\ told[s] = "idle" /\ told' = [told EXCEPT ![s] = "wait"]
    /\ UNCHANGED <<said, work>>

Command(s) ==
    /\ told[s] # "idle"
    /\ Work(s, "none", "run") \/ Work(s, "run", "exited") \/ Work(s, "run", "failed")
    /\ UNCHANGED <<said, told>>

Event(s) ==
    /\ told[s] # "idle" /\ (joined => ~Has(s, Responses))
    /\ \E kind \in Events : Say(s, kind)
    /\ UNCHANGED <<work, told>>

(* Success is that of the command, or of a session on a console. *)
Respond(s) ==
    /\ told[s] # "idle" /\ ~Has(s, Responses)
    /\ \/ Say(s, "error")
       \/ /\ work[s] = "exited" \/ (work[s] = "none" /\ Has(s, Greetings))
          /\ Say(s, "ok")
    /\ UNCHANGED <<work, told>>

Learn(s) ==
    /\ \E how \in Responses : Has(s, {how}) /\ Report(s, how)
    /\ UNCHANGED <<said, work>>

(* Only the console of a VM can be left. *)
Detach(s) == Has(s, {"serial"}) /\ Report(s, "ok") /\ UNCHANGED <<said, work>>

(* A connection that ends without a response was refused: nothing was said on it. *)
Lose(s) == said[s] = <<>> /\ Report(s, "lost") /\ UNCHANGED <<said, work>>

Die(s) == Report(s, "killed") /\ UNCHANGED <<said, work>>

Next ==
    /\ \E s \in Sessions : \/ Ask(s) \/ Command(s) \/ Event(s) \/ Respond(s)
                           \/ Learn(s) \/ Detach(s) \/ Lose(s) \/ Die(s)
    /\ UNCHANGED joined

Spec == Init /\ [][Next]_vars
=============================================================================
