------------------------------- MODULE Session -------------------------------
(* One connection between a client and the daemon: handle and execute_attach *)
(* of src/src/bin/priosund.rs, run_streaming of src/src/util/cmd.rs and      *)
(* send_request_tree of src/src/protocol.rs.  The threads of both sides, the *)
(* child processes and the consoles are actors of their own; what a command  *)
(* does to the host is in the other modules.  The daemon itself does not die *)
(* here: its death takes every connection with it.                           *)
EXTENDS Naturals, Sequences, FiniteSets

CONSTANTS
    Sessions,       \* connections, each with its client process
    Consoles,       \* PTYs: of a VM, or of a login in a jail
    Scenarios,      \* what is asked for, and what may happen, see below
    SocketSize,     \* messages that fit into a socket, a bound
    PipeSize        \* chunks that fit into a pipe, a bound

Streams == {"stdout", "stderr"}

ASSUME SessionAssumption ==
    /\ {SocketSize, PipeSize} \subseteq Nat \ {0}
    /\ Scenarios \subseteq
          [clients: SUBSET Sessions,        \* those that connect
           kind: [Sessions -> {"run", "attach", "start_attach"}],
           console: [Sessions -> Consoles],
           jails: SUBSET Consoles,          \* PTYs of logins; others are VMs'
           running: SUBSET Consoles,        \* the VMs that run
           inherited: SUBSET Consoles,      \* another child has the slave open, too
           output: Nat,                     \* chunks that commands and consoles write
           keys: Nat,                       \* chunks that are typed
           leaving: SUBSET Sessions,        \* clients that may be killed
           faults: SUBSET {"request", "spawn", "exit", "read", "attach"}]
    /\ \A sc \in Scenarios, s, t \in Sessions :    \* a login is of one session
          (sc.console[s] = sc.console[t] /\ sc.console[s] \in sc.jails) => s = t

VARIABLES
    scenario,       \* fixed at Init
    client,         \* idle, wait, ok, error, lost (the connection), killed
    input,          \* the client's input thread: off, type, shut, end
    typed,          \* chunks it has read
    mayDetach, detached,    \* the client's two flags
    log, read,      \* all messages the daemon has sent, and how many were received
    inbox,          \* messages on their way to the daemon
    shut,           \* the client has closed the connection
    handler,        \* the connection thread
    verdict,        \* what it is going to answer
    child,          \* its command: none, run, exited, failed
    written, taken, \* chunks in and out of the command's pipes
    reader, broken, \* read_stream threads, and those that have ended in an error
    relayOut, hand, \* relay_login_output and the chunk it has read
    relayIn,        \* relay_login_input
    alive,          \* the consoles whose bhyve or login runs
    made, next,     \* chunks written to and read from each console
    keys            \* what has been typed into it

clientVars == <<client, input, typed, mayDetach, detached>>
socketVars == <<log, read, inbox, shut>>
commandVars == <<child, written, taken, reader, broken>>
relayVars == <<relayOut, hand, relayIn>>
consoleVars == <<alive, made, next, keys>>
vars == <<scenario, clientVars, socketVars, handler, verdict, commandVars, relayVars,
          consoleVars>>

Set(f, x, v) == [f EXCEPT ![x] = v]
Set2(f, x, y, v) == [f EXCEPT ![x][y] = v]

Kind(s) == scenario.kind[s]
Console(s) == scenario.console[s]
IsJail(s) == Console(s) \in scenario.jails
May(fault) == fault \in scenario.faults

Messages == [what : {"ok", "error", "command", "login", "serial", "console"} \union Streams,
             n : Nat]

Message(what, n) == [what |-> what, n |-> n]

Init ==
    /\ scenario \in Scenarios
    /\ client = [s \in Sessions |-> "idle"]
    /\ input = [s \in Sessions |-> "off"]
    /\ typed = [s \in Sessions |-> 0]
    /\ mayDetach = [s \in Sessions |-> FALSE]
    /\ detached = [s \in Sessions |-> FALSE]
    /\ log = [s \in Sessions |-> <<>>]
    /\ read = [s \in Sessions |-> 0]
    /\ inbox = [s \in Sessions |-> <<>>]
    /\ shut = [s \in Sessions |-> FALSE]
    /\ handler = [s \in Sessions |-> "idle"]
    /\ verdict = [s \in Sessions |-> "ok"]
    /\ child = [s \in Sessions |-> "none"]
    /\ written = [s \in Sessions |-> [r \in Streams |-> 0]]
    /\ taken = [s \in Sessions |-> [r \in Streams |-> 0]]
    /\ reader = [s \in Sessions |-> [r \in Streams |-> "none"]]
    /\ broken = {}
    /\ relayOut = [s \in Sessions |-> "none"]
    /\ hand = [s \in Sessions |-> 0]
    /\ relayIn = [s \in Sessions |-> "none"]
    /\ alive = scenario.running \ scenario.jails
    /\ made = [c \in Consoles |-> 0]
    /\ next = [c \in Consoles |-> 0]
    /\ keys = [c \in Consoles |-> <<>>]

-----------------------------------------------------------------------------
(* the socket *)

(* send_response: an error once the client is gone, and a wait when it is slow. *)
Room(s) == Len(log[s]) - read[s] < SocketSize
Append1(s, m) == /\ ~shut[s] /\ Room(s)
                 /\ log' = Set(log, s, Append(log[s], m))
                 /\ UNCHANGED <<read, inbox, shut>>

(* The callbacks of with_stream ignore the error. *)
Event(s, m) == Append1(s, m) \/ (shut[s] /\ UNCHANGED socketVars)

(* All threads of the daemon have dropped their end. *)
Closed(s) == /\ handler[s] = "end"
             /\ relayOut[s] \in {"none", "end"} /\ relayIn[s] \in {"none", "end"}
             /\ \A r \in Streams : reader[s][r] \in {"none", "end"}

-----------------------------------------------------------------------------
(* the client: send_request_tree *)

Connect(s) ==
    /\ client[s] = "idle" /\ s \in scenario.clients
    /\ client' = Set(client, s, "wait")
    /\ input' = Set(input, s, IF Kind(s) = "run" THEN "off" ELSE "type")
    /\ handler' = Set(handler, s, IF Kind(s) = "attach" THEN "attach" ELSE "command")
    /\ UNCHANGED <<typed, mayDetach, detached, socketVars, verdict, commandVars,
                   relayVars, consoleVars>>

(* The process ends, and its input thread and its socket with it. *)
Quit(s, how) ==
    /\ client' = Set(client, s, how)
    /\ input' = Set(input, s, "end")
    /\ shut' = Set(shut, s, TRUE)
    /\ UNCHANGED <<typed, detached, log, inbox, handler, verdict, commandVars,
                   relayVars, consoleVars>>

Receive(s) ==
    /\ client[s] = "wait" /\ ~shut[s] /\ read[s] < Len(log[s])
    /\ LET m == log[s][read[s] + 1]
       IN /\ read' = Set(read, s, read[s] + 1)
          /\ \/ /\ m.what \in {"ok", "error"}
                /\ Quit(s, m.what)
                /\ UNCHANGED mayDetach
             \/ /\ m.what \notin {"ok", "error"}
                /\ mayDetach' = Set(mayDetach, s, mayDetach[s] \/ m.what = "serial")
                /\ UNCHANGED <<client, input, typed, detached, log, inbox, shut, handler,
                               verdict, commandVars, relayVars, consoleVars>>

ReceiveFails(s) ==
    /\ client[s] = "wait"
    /\ shut[s] \/ (Closed(s) /\ read[s] = Len(log[s]))
    /\ Quit(s, IF detached[s] THEN "ok" ELSE "lost")
    /\ UNCHANGED <<read, mayDetach>>

Killed(s) ==
    /\ client[s] = "wait" /\ s \in scenario.leaving
    /\ Quit(s, "killed")
    /\ UNCHANGED <<read, mayDetach>>

(* The input thread sends on what is typed, and the end of it. *)
Type(s) ==
    /\ input[s] = "type" /\ typed[s] < scenario.keys
    /\ typed' = Set(typed, s, typed[s] + 1)
    /\ IF Closed(s)
       THEN input' = Set(input, s, "end") /\ UNCHANGED inbox
       ELSE inbox' = Set(inbox, s, Append(inbox[s], typed[s] + 1)) /\ UNCHANGED input
    /\ UNCHANGED <<client, mayDetach, detached, log, read, shut, handler, verdict,
                   commandVars, relayVars, consoleVars>>

TypeEof(s) ==
    /\ input[s] = "type"
    /\ input' = Set(input, s, "end")
    /\ inbox' = IF Closed(s) THEN inbox ELSE Set(inbox, s, Append(inbox[s], 0))
    /\ UNCHANGED <<client, typed, mayDetach, detached, log, read, shut, handler, verdict,
                   commandVars, relayVars, consoleVars>>

(* Ctrl-], and then the shutdown. *)
TypeDetach(s) ==
    /\ input[s] = "type" /\ mayDetach[s]
    /\ detached' = Set(detached, s, TRUE)
    /\ input' = Set(input, s, "shut")
    /\ UNCHANGED <<client, typed, mayDetach, socketVars, handler, verdict, commandVars,
                   relayVars, consoleVars>>

ShutDown(s) ==
    /\ input[s] = "shut"
    /\ shut' = Set(shut, s, TRUE)
    /\ input' = Set(input, s, "end")
    /\ UNCHANGED <<client, typed, mayDetach, detached, log, read, inbox, handler, verdict,
                   commandVars, relayVars, consoleVars>>

-----------------------------------------------------------------------------
(* a command of the daemon: run_streaming_in_dir and read_stream *)

Goto(s, label) == handler' = Set(handler, s, label) /\ UNCHANGED verdict

Answering(s, v) == handler' = Set(handler, s, "answer") /\ verdict' = Set(verdict, s, v)

(* handle returns to main with an error before it does anything, and nobody is
   told: the request cannot be read, or the configuration of a provision or a
   network-init cannot be loaded. *)
Unread(s) ==
    /\ May("request")
    /\ handler[s] = "command" \/ (handler[s] = "attach" /\ Kind(s) = "attach")
    /\ Goto(s, "end")
    /\ UNCHANGED <<clientVars, socketVars, commandVars, relayVars, consoleVars>>

Announce(s) ==
    /\ handler[s] = "command"
    /\ Event(s, Message("command", 0))
    /\ Goto(s, "spawn")
    /\ UNCHANGED <<clientVars, commandVars, relayVars, consoleVars>>

Spawn(s) ==
    /\ handler[s] = "spawn"
    /\ child' = Set(child, s, "run")
    /\ reader' = Set(reader, s, [r \in Streams |-> "read"])
    /\ Goto(s, "wait")
    /\ UNCHANGED <<clientVars, socketVars, written, taken, broken, relayVars, consoleVars>>

SpawnFails(s) ==
    /\ handler[s] = "spawn" /\ May("spawn")
    /\ Answering(s, "error")
    /\ UNCHANGED <<clientVars, socketVars, commandVars, relayVars, consoleVars>>

ChildWrites(s, r) ==
    /\ child[s] = "run" /\ written[s][r] < scenario.output
    /\ reader[s][r] # "end" /\ written[s][r] - taken[s][r] < PipeSize
    /\ written' = Set2(written, s, r, written[s][r] + 1)
    /\ UNCHANGED <<clientVars, socketVars, handler, verdict, child, taken, reader, broken,
                   relayVars, consoleVars>>

(* A thread that has ended in an error has closed its end of the pipe. *)
ChildBreaks(s, r) ==
    /\ child[s] = "run" /\ written[s][r] < scenario.output /\ reader[s][r] = "end"
    /\ \/ child' = Set(child, s, "failed") /\ UNCHANGED <<written, taken>>
       \/ /\ written' = Set2(written, s, r, written[s][r] + 1)
          /\ taken' = Set2(taken, s, r, written[s][r] + 1)
          /\ UNCHANGED child
    /\ UNCHANGED <<clientVars, socketVars, handler, verdict, reader, broken, relayVars,
                   consoleVars>>

(* The command has written all it has to say. *)
ChildExits(s) ==
    /\ child[s] = "run"
    /\ \A r \in Streams : written[s][r] = scenario.output
    /\ child' \in {Set(child, s, v) : v \in {"exited"} \union IF May("exit") THEN {"failed"} ELSE {}}
    /\ UNCHANGED <<clientVars, socketVars, handler, verdict, written, taken, reader, broken,
                   relayVars, consoleVars>>

ReaderReads(s, r) ==
    /\ reader[s][r] = "read" /\ taken[s][r] < written[s][r]
    /\ taken' = Set2(taken, s, r, taken[s][r] + 1)
    /\ reader' = Set2(reader, s, r, "send")
    /\ UNCHANGED <<clientVars, socketVars, handler, verdict, child, written, broken,
                   relayVars, consoleVars>>

ReaderSends(s, r) ==
    /\ reader[s][r] = "send"
    /\ Event(s, Message(r, taken[s][r]))
    /\ reader' = Set2(reader, s, r, "read")
    /\ UNCHANGED <<clientVars, handler, verdict, child, written, taken, broken,
                   relayVars, consoleVars>>

ReaderEnds(s, r) ==
    /\ reader[s][r] = "read"
    /\ \/ /\ taken[s][r] = written[s][r] /\ child[s] \in {"exited", "failed"}
          /\ UNCHANGED broken
       \/ /\ May("read")
          /\ broken' = broken \union {<<s, r>>}
    /\ reader' = Set2(reader, s, r, "end")
    /\ UNCHANGED <<clientVars, socketVars, handler, verdict, child, written, taken,
                   relayVars, consoleVars>>

Wait(s) ==
    /\ handler[s] = "wait" /\ child[s] \in {"exited", "failed"}
    /\ Goto(s, "stdout")
    /\ UNCHANGED <<clientVars, socketVars, commandVars, relayVars, consoleVars>>

(* The threads are joined in turn; an error of the first is returned at once. *)
JoinStdout(s) ==
    /\ handler[s] = "stdout" /\ reader[s]["stdout"] = "end"
    /\ IF <<s, "stdout">> \in broken THEN Answering(s, "error") ELSE Goto(s, "stderr")
    /\ UNCHANGED <<clientVars, socketVars, commandVars, relayVars, consoleVars>>

CommandDone(s) ==
    IF <<s, "stderr">> \in broken \/ child[s] = "failed" THEN Answering(s, "error")
    ELSE IF Kind(s) = "run" THEN Answering(s, "ok")
    ELSE Goto(s, "attach")

(* mutant: the second thread is not joined *)
JoinStderrNot(s) ==
    /\ handler[s] = "stderr"
    /\ CommandDone(s)
    /\ UNCHANGED <<clientVars, socketVars, commandVars, relayVars, consoleVars>>

JoinStderr(s) ==
    /\ handler[s] = "stderr" /\ reader[s]["stderr"] = "end"
    /\ CommandDone(s)
    /\ UNCHANGED <<clientVars, socketVars, commandVars, relayVars, consoleVars>>

Answer(s) ==
    /\ handler[s] = "answer"
    /\ Event(s, Message(verdict[s], 0))
    /\ Goto(s, "end")
    /\ UNCHANGED <<clientVars, commandVars, relayVars, consoleVars>>

-----------------------------------------------------------------------------
(* execute_attach *)

(* An error before the relays run is answered for start --attach alone. *)
AttachError(s) ==
    /\ IF Kind(s) = "attach" THEN Goto(s, "end") ELSE Answering(s, "error")
    /\ UNCHANGED <<clientVars, socketVars, commandVars, relayVars, consoleVars>>

(* The VM must run and have a console (see VmLifecycle); a login is forked, on
   a PTY of its own. *)
Attach(s) ==
    /\ handler[s] = "attach" /\ (IsJail(s) \/ Console(s) \in alive)
    /\ alive' = alive \union {Console(s)}
    /\ Goto(s, "greet")
    /\ UNCHANGED <<clientVars, socketVars, commandVars, relayVars, made, next, keys>>

AttachFails(s) ==
    /\ handler[s] = "attach"
    /\ May("attach") \/ (~IsJail(s) /\ Console(s) \notin alive)
    /\ AttachError(s)

Greet(s) ==
    /\ handler[s] = "greet"
    /\ Append1(s, Message(IF IsJail(s) THEN "login" ELSE "serial", 0))
    /\ relayOut' = Set(relayOut, s, "read")
    /\ relayIn' = Set(relayIn, s, "receive")
    /\ Goto(s, IF IsJail(s) THEN "waitpid" ELSE "join")
    /\ UNCHANGED <<clientVars, commandVars, hand, consoleVars>>

GreetFails(s) == handler[s] = "greet" /\ shut[s] /\ AttachError(s)

(* mutant: every session reads the console from where it was when it came *)
RelayReadsOwn(s) ==
    /\ relayOut[s] = "read" /\ next[Console(s)] < made[Console(s)]
    /\ hand' = Set(hand, s, next[Console(s)] + 1)
    /\ next' \in {next, Set(next, Console(s), next[Console(s)] + 1)}
    /\ relayOut' = Set(relayOut, s, "send")
    /\ UNCHANGED <<clientVars, socketVars, handler, verdict, commandVars, relayIn, alive,
                   made, keys>>

RelayReads(s) ==
    /\ relayOut[s] = "read" /\ next[Console(s)] < made[Console(s)]
    /\ hand' = Set(hand, s, next[Console(s)] + 1)
    /\ next' = Set(next, Console(s), next[Console(s)] + 1)
    /\ relayOut' = Set(relayOut, s, "send")
    /\ UNCHANGED <<clientVars, socketVars, handler, verdict, commandVars, relayIn, alive,
                   made, keys>>

RelaySends(s) ==
    /\ relayOut[s] = "send"
    /\ Event(s, Message("console", hand[s]))
    /\ hand' = Set(hand, s, 0)
    /\ relayOut' = Set(relayOut, s, IF shut[s] THEN "end" ELSE "read")
    /\ UNCHANGED <<clientVars, handler, verdict, commandVars, relayIn, consoleVars>>

(* The end of the console is seen when nobody has its slave open. *)
RelayEnds(s) ==
    /\ relayOut[s] = "read" /\ next[Console(s)] = made[Console(s)]
    /\ Console(s) \notin alive \union scenario.inherited
    /\ relayOut' = Set(relayOut, s, "end")
    /\ UNCHANGED <<clientVars, socketVars, handler, verdict, commandVars, hand, relayIn,
                   consoleVars>>

InputRelay(s) ==
    /\ relayIn[s] = "receive" /\ inbox[s] # <<>>
    /\ LET k == Head(inbox[s])
       IN \/ /\ k = 0
             /\ relayIn' = Set(relayIn, s, "end") /\ UNCHANGED keys
          \/ /\ k > 0 /\ Console(s) \in alive
             /\ keys' = Set(keys, Console(s), Append(keys[Console(s)], <<s, k>>))
             /\ UNCHANGED relayIn
          \/ /\ k > 0 /\ Console(s) \notin alive      \* the write may fail
             /\ relayIn' \in {relayIn, Set(relayIn, s, "end")} /\ UNCHANGED keys
    /\ inbox' = Set(inbox, s, Tail(inbox[s]))
    /\ UNCHANGED <<clientVars, log, read, shut, handler, verdict, commandVars, relayOut,
                   hand, alive, made, next>>

InputRelayEnds(s) ==
    /\ relayIn[s] = "receive" /\ inbox[s] = <<>> /\ shut[s]
    /\ relayIn' = Set(relayIn, s, "end")
    /\ UNCHANGED <<clientVars, socketVars, handler, verdict, commandVars, relayOut, hand,
                   consoleVars>>

Waitpid(s) ==
    /\ handler[s] = "waitpid" /\ Console(s) \notin alive
    /\ Goto(s, "join")
    /\ UNCHANGED <<clientVars, socketVars, commandVars, relayVars, consoleVars>>

(* mutants: neither relay is waited for, or both are *)
JoinNone(s) ==
    /\ handler[s] = "join"
    /\ Answering(s, "ok")
    /\ UNCHANGED <<clientVars, socketVars, commandVars, relayVars, consoleVars>>

JoinBoth(s) ==
    /\ handler[s] = "join" /\ relayOut[s] = "end" /\ relayIn[s] = "end"
    /\ Answering(s, "ok")
    /\ UNCHANGED <<clientVars, socketVars, commandVars, relayVars, consoleVars>>

Join(s) ==
    /\ handler[s] = "join" /\ relayOut[s] = "end"
    /\ Answering(s, "ok")
    /\ UNCHANGED <<clientVars, socketVars, commandVars, relayVars, consoleVars>>

(* guests and logins *)
ConsoleWrites(c) ==
    /\ c \in alive /\ made[c] < scenario.output
    /\ made' = Set(made, c, made[c] + 1)
    /\ UNCHANGED <<clientVars, socketVars, handler, verdict, commandVars, relayVars, alive,
                   next, keys>>

ConsoleEnds(c) ==
    /\ c \in alive
    /\ alive' = alive \ {c}
    /\ UNCHANGED <<clientVars, socketVars, handler, verdict, commandVars, relayVars, made,
                   next, keys>>

-----------------------------------------------------------------------------
Client(s) == Receive(s) \/ ReceiveFails(s)

Handler(s) == \/ Unread(s) \/ Announce(s) \/ Spawn(s) \/ SpawnFails(s) \/ Wait(s)
              \/ JoinStdout(s) \/ JoinStderr(s) \/ Answer(s) \/ Attach(s) \/ AttachFails(s)
              \/ Greet(s) \/ GreetFails(s) \/ Waitpid(s) \/ Join(s)

Command(s) == ChildExits(s) \/ \E r \in Streams : ChildWrites(s, r) \/ ChildBreaks(s, r)

Reader(s, r) == ReaderReads(s, r) \/ ReaderSends(s, r) \/ ReaderEnds(s, r)

RelayOut(s) == RelayReads(s) \/ RelaySends(s) \/ RelayEnds(s)

RelayIn(s) == InputRelay(s) \/ InputRelayEnds(s)

Next ==
    /\ \/ \E s \in Sessions :
             \/ Connect(s) \/ Client(s) \/ Killed(s)
             \/ Type(s) \/ TypeEof(s) \/ TypeDetach(s) \/ ShutDown(s)
             \/ Handler(s) \/ Command(s) \/ RelayOut(s) \/ RelayIn(s)
             \/ \E r \in Streams : Reader(s, r)
       \/ \E c \in Consoles : ConsoleWrites(c) \/ ConsoleEnds(c)
    /\ UNCHANGED scenario

Spec == Init /\ [][Next]_vars

(* Threads are scheduled and commands come to their end.  Nobody need type, and
   no guest and no login need end or write. *)
FairSpec ==
    /\ Spec
    /\ \A s \in Sessions :
          /\ WF_vars(Client(s) /\ UNCHANGED scenario)
          /\ WF_vars(ShutDown(s) /\ UNCHANGED scenario)
          /\ WF_vars(Handler(s) /\ UNCHANGED scenario)
          /\ WF_vars(Command(s) /\ UNCHANGED scenario)
          /\ WF_vars(RelayOut(s) /\ UNCHANGED scenario)
          /\ WF_vars(RelayIn(s) /\ UNCHANGED scenario)
          /\ \A r \in Streams : WF_vars(Reader(s, r) /\ UNCHANGED scenario)

-----------------------------------------------------------------------------
Sent(s) == {log[s][i] : i \in 1..Len(log[s])}

Answered(s) == \E m \in Sent(s) : m.what \in {"ok", "error"}

ClientTypeOK ==
    /\ client \in [Sessions -> {"idle", "wait", "ok", "error", "lost", "killed"}]
    /\ input \in [Sessions -> {"off", "type", "shut", "end"}]
    /\ typed \in [Sessions -> Nat]
    /\ mayDetach \in [Sessions -> BOOLEAN] /\ detached \in [Sessions -> BOOLEAN]

SocketTypeOK ==
    /\ log \in [Sessions -> Seq(Messages)] /\ read \in [Sessions -> Nat]
    /\ \A s \in Sessions : read[s] <= Len(log[s]) /\ Len(log[s]) - read[s] <= SocketSize
    /\ inbox \in [Sessions -> Seq(Nat)] /\ shut \in [Sessions -> BOOLEAN]

HandlerTypeOK ==
    /\ handler \in [Sessions -> {"idle", "command", "spawn", "wait", "stdout", "stderr",
                                 "attach", "greet", "waitpid", "join", "answer", "end"}]
    /\ verdict \in [Sessions -> {"ok", "error"}]

CommandTypeOK ==
    /\ child \in [Sessions -> {"none", "run", "exited", "failed"}]
    /\ written \in [Sessions -> [Streams -> 0..scenario.output]]
    /\ taken \in [Sessions -> [Streams -> 0..scenario.output]]
    /\ \A s \in Sessions, r \in Streams : taken[s][r] <= written[s][r]
    /\ reader \in [Sessions -> [Streams -> {"none", "read", "send", "end"}]]
    /\ broken \subseteq Sessions \X Streams

RelayTypeOK ==
    /\ relayOut \in [Sessions -> {"none", "read", "send", "end"}] /\ hand \in [Sessions -> Nat]
    /\ relayIn \in [Sessions -> {"none", "receive", "end"}]

ConsoleTypeOK ==
    /\ alive \subseteq Consoles
    /\ made \in [Consoles -> 0..scenario.output] /\ next \in [Consoles -> 0..scenario.output]
    /\ \A c \in Consoles : next[c] <= made[c]
    /\ keys \in [Consoles -> Seq(Sessions \X Nat)]

(* The variables hold what their comments say. *)
TypeOK == /\ scenario \in Scenarios
          /\ ClientTypeOK /\ SocketTypeOK /\ HandlerTypeOK
          /\ CommandTypeOK /\ RelayTypeOK /\ ConsoleTypeOK

(* The response is the last thing a client is sent, though up to three threads
   write to its socket (util/cmd.rs:385-394, priosund.rs:326-345).  A
   pipe that cannot be read makes run_streaming return before its other thread. *)
ResponseLast ==
    ~May("read") => \A s \in Sessions : \A i \in 1..Len(log[s]) - 1 :
                       log[s][i].what \notin {"ok", "error"}

(* All that a command has written, on both streams, is sent before its response
   (or the attachment that follows it), unless the client has gone. *)
OutputComplete ==
    \A s \in Sessions :
       (/\ Kind(s) # "attach" /\ child[s] \in {"exited", "failed"} /\ ~May("read") /\ ~shut[s]
        /\ handler[s] \in {"attach", "greet", "waitpid", "join", "answer", "end"})
       => \A r \in Streams : \A k \in 1..scenario.output : Message(r, k) \in Sent(s)

InOrder(s, what) ==
    \A i, j \in 1..Len(log[s]) :
       i < j /\ log[s][i].what = what /\ log[s][j].what = what => log[s][i].n < log[s][j].n

On(c) == {s \in Sessions : Console(s) = c}

Shows(s, k) == Message("console", k) \in Sent(s) \/ hand[s] = k

(* However many sessions share a console, what it writes goes to one of them,
   in order; and what is typed arrives in the order it was typed. *)
ShownOnce ==
    /\ \A s \in Sessions : \A what \in Streams \union {"console"} : InOrder(s, what)
    /\ \A c \in Consoles, k \in 1..scenario.output :
          \A s, t \in On(c) : Shows(s, k) /\ Shows(t, k) => s = t
    /\ \A c \in Consoles : \A i, j \in 1..Len(keys[c]) :
          i < j /\ keys[c][i][1] = keys[c][j][1] => keys[c][i][2] < keys[c][j][2]

(* The relay of a client that has gone still reads the console, and takes one
   chunk from the session that follows, but no more than one. *)
LeaverTakesOne ==
    \A c \in Consoles :
       Cardinality({k \in 1..next[c] : \A s \in On(c) : ~Shows(s, k)})
          <= Cardinality({s \in On(c) : shut[s] /\ relayOut[s] = "end"})

(* The daemon has closed the connection of s without a word, having done nothing
   for it: it could not read the request, or has refused to attach. *)
Dropped(s) ==
    /\ handler[s] = "end" /\ (Kind(s) = "attach" \/ May("request"))
    /\ log[s] = <<>> /\ child[s] = "none" /\ relayOut[s] = "none"

(* A client takes the connection for lost only if the daemon has dropped it; to
   detach is a success, whenever the threads of the client get to run
   (protocol.rs:171-184, priosund.rs:93-115, 173-178). *)
LostOnlyRefused == \A s \in Sessions : client[s] = "lost" => Dropped(s)

(* A command comes to its end however it fills its two pipes, and also when its
   client is killed half-way or a pipe cannot be read. *)
CommandsEnd ==
    \A s \in Sessions :
       (Kind(s) = "run" /\ handler[s] # "idle") ~> (handler[s] = "end")

(* When the VM or the login ends, so does every session on it, whatever the
   client's input thread does, unless another child holds the console open. *)
SessionsEnd ==
    \A s \in Sessions :
       (/\ client[s] = "wait" /\ handler[s] \in {"waitpid", "join"}
        /\ Console(s) \notin alive \union scenario.inherited)
       ~> (client[s] # "wait")

(* Whatever clients, commands and guests do, requests come to an end. *)
RequestsEnd == CommandsEnd /\ SessionsEnd

-----------------------------------------------------------------------------
(* Why.  The handler joins the threads of its command before it goes on to
   anything else, and the relay of its console before it answers: nobody else
   writes to the socket then. *)
ThreadsDone(s) ==
    /\ handler[s] \in {"idle", "command", "spawn"} => \A r \in Streams : reader[s][r] = "none"
    /\ handler[s] \notin {"waitpid", "join", "answer", "end"} => relayOut[s] = "none"
    /\ handler[s] \in {"answer", "end"} => relayOut[s] \in {"none", "end"}
    /\ handler[s] # "end" =>
          \A i \in 1..Len(log[s]) : log[s][i].what \notin {"ok", "error"}
    /\ ~May("read") =>
          /\ handler[s] = "stderr" => reader[s]["stdout"] = "end"
          /\ handler[s] \in {"attach", "greet", "waitpid", "join", "answer", "end"} =>
                \A r \in Streams : reader[s][r] \in {"none", "end"}

(* A thread that has ended has read its pipe empty, after the command, and has
   sent what it has read. *)
Drained(s) ==
    \A r \in Streams :
       /\ child[s] = "none" <=> reader[s][r] = "none"
       /\ ~May("read") =>
             /\ <<s, r>> \notin broken
             /\ child[s] \in {"exited", "failed"} => written[s][r] = scenario.output
             /\ reader[s][r] = "end" => /\ child[s] \in {"exited", "failed"}
                                       /\ taken[s][r] = written[s][r]
             /\ ~shut[s] => \A k \in 1..taken[s][r] :
                               \/ Message(r, k) \in Sent(s)
                               \/ k = taken[s][r] /\ reader[s][r] = "send"

(* What is sent of a stream or a console has been read from it, and what is in
   hand was read last. *)
SentWasRead(s) ==
    /\ \A r \in Streams : \A i \in 1..Len(log[s]) :
          log[s][i].what = r =>
             /\ log[s][i].n <= taken[s][r]
             /\ reader[s][r] = "send" => log[s][i].n < taken[s][r]
    /\ \A i \in 1..Len(log[s]) :
          log[s][i].what = "console" =>
             /\ log[s][i].n <= next[Console(s)]
             /\ relayOut[s] = "send" => log[s][i].n < hand[s]
    /\ hand[s] <= next[Console(s)] /\ (relayOut[s] = "send" <=> hand[s] # 0)

(* What is on its way was typed later than what has arrived. *)
TypedInOrder(s) ==
    /\ \A i, j \in 1..Len(inbox[s]) :
          /\ inbox[s][i] <= typed[s]
          /\ i < j => inbox[s][j] = 0 \/ inbox[s][i] < inbox[s][j]
    /\ \A c \in Consoles : \A i \in 1..Len(keys[c]) :
          keys[c][i][1] = s =>
             /\ keys[c][i][2] <= typed[s]
             /\ \A j \in 1..Len(inbox[s]) : inbox[s][j] = 0 \/ keys[c][i][2] < inbox[s][j]

(* A client that waits has not read an answer, and it has closed the connection
   only to detach; a handler that has ended has answered, or has dropped it. *)
AnswersRead(s) ==
    /\ client[s] = "idle" => handler[s] = "idle" /\ input[s] = "off" /\ ~shut[s]
    /\ client[s] = "wait" => \A i \in 1..read[s] : log[s][i].what \notin {"ok", "error"}
    /\ input[s] = "shut" => detached[s]
    /\ client[s] = "wait" /\ shut[s] => detached[s]
    /\ handler[s] = "end" => shut[s] \/ Answered(s) \/ Dropped(s)

(* A handler says nothing before it begins, knows what came of its command when it
   answers, and has greeted the client of a relay; who detaches has been told that it may. *)
Greeted(s) == \E i \in 1..Len(log[s]) : log[s][i].what \in {"serial", "login"}

AnswersTrue(s) ==
    /\ Kind(s) = "attach" =>
          /\ child[s] = "none"
          /\ handler[s] \notin {"command", "spawn", "wait", "stdout", "stderr"}
          /\ relayOut[s] = "none" => log[s] = <<>> /\ handler[s] # "answer"
    /\ handler[s] \in {"idle", "command"} => log[s] = <<>>
    /\ handler[s] \in {"stdout", "stderr"} => child[s] \in {"exited", "failed"}
    /\ handler[s] \in {"attach", "greet", "waitpid", "join"} =>
          child[s] = "exited" \/ Kind(s) = "attach"
    /\ handler[s] \in {"waitpid", "join"} => relayOut[s] # "none"
    /\ handler[s] = "answer" /\ verdict[s] = "ok" =>
          child[s] = "exited" \/ (child[s] = "none" /\ relayOut[s] # "none")
    /\ relayOut[s] # "none" => Greeted(s)
    /\ detached[s] => mayDetach[s]
    /\ mayDetach[s] => \E i \in 1..Len(log[s]) : log[s][i].what = "serial"

(* Connections are closed one at a time. *)
FewHaveLeft == IsFiniteSet({s \in Sessions : shut[s]})

(* The inductive invariant.  The variables have their types, sessions on one console
   share its output but for the chunk that a leaver takes, and the threads of a
   session are done when it is answered (priosund.rs:187-345, util/cmd.rs:385-394). *)
Inv == /\ TypeOK /\ ShownOnce /\ LeaverTakesOne /\ FewHaveLeft
       /\ ResponseLast /\ LostOnlyRefused
       /\ \A s \in Sessions : /\ ThreadsDone(s) /\ Drained(s) /\ SentWasRead(s)
                               /\ TypedInOrder(s) /\ AnswersRead(s) /\ AnswersTrue(s)

-----------------------------------------------------------------------------
Kinds(s) == [i \in 1..Len(log[s]) |-> log[s][i].what]

Promise == INSTANCE Exchange WITH joined <- ~May("read"), said <- [s \in Sessions |-> Kinds(s)],
                                  work <- child, told <- client

(* A connection is an exchange of events and one response (priosund.rs:92-213,
   util/cmd.rs:362-406, protocol.rs:115-196): whatever the threads of both sides do and
   when, and however a request ends, its client reports a success only when the command
   exited with one, when the console or login it was attached to has ended, or when it
   has detached from a VM, and a lost connection only when it has been told nothing. *)
ExchangeSpec == Promise!Spec
=============================================================================
