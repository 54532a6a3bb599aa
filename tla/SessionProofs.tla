---------------------------- MODULE SessionProofs ----------------------------
(* A session is answered last, in full and in order, and a console loses    *)
(* what clients that leave had coming and no more: for any number of        *)
(* clients, consoles and chunks, and any size of sockets and pipes.         *)
EXTENDS Session, TLAPS, FiniteSetTheorems, SequenceTheorems

(* What the proofs use of the assumption on the constants. *)
LEMMA ScenarioType ==
    ASSUME NEW sc \in Scenarios
    PROVE  /\ sc.output \in Nat /\ sc.keys \in Nat
           /\ sc.console \in [Sessions -> Consoles]
           /\ sc.running \subseteq Consoles /\ sc.jails \subseteq Consoles
  BY SessionAssumption

(* Neither a socket nor a pipe has room for nothing. *)
LEMMA Sizes == SocketSize \in Nat \ {0} /\ PipeSize \in Nat \ {0}
  BY SessionAssumption

(* A message more in a log. *)
LEMMA AppendMessage ==
    ASSUME NEW l \in Seq(Messages), NEW m \in Messages
    PROVE  /\ Append(l, m) \in Seq(Messages)
           /\ Len(Append(l, m)) = Len(l) + 1
           /\ \A i \in 1..Len(l) : Append(l, m)[i] = l[i]
           /\ Append(l, m)[Len(l) + 1] = m
  OBVIOUS

(* Every step preserves the types. *)
LEMMA TypeStep == TypeOK /\ [Next]_vars => TypeOK'
<1> SUFFICES ASSUME TypeOK, [Next]_vars
             PROVE  TypeOK'
  OBVIOUS
<1> USE DEF TypeOK, Set, Set2
<1>0. /\ scenario.output \in Nat /\ scenario.console \in [Sessions -> Consoles]
      /\ SocketSize \in Nat /\ PipeSize \in Nat
  BY ScenarioType, Sizes
<1>1. UNCHANGED scenario
  BY DEF Next, vars
<1>2. /\ UNCHANGED clientVars => ClientTypeOK'
      /\ UNCHANGED socketVars => SocketTypeOK'
      /\ UNCHANGED <<handler, verdict>> => HandlerTypeOK'
      /\ UNCHANGED commandVars => CommandTypeOK'
      /\ UNCHANGED relayVars => RelayTypeOK'
      /\ UNCHANGED consoleVars => ConsoleTypeOK'
  BY <1>1 DEF clientVars, socketVars, commandVars, relayVars, consoleVars, ClientTypeOK,
              SocketTypeOK, HandlerTypeOK, CommandTypeOK, RelayTypeOK, ConsoleTypeOK
<1>3. CASE UNCHANGED vars
  BY <1>1, <1>2, <1>3 DEF vars
<1>4. ASSUME NEW s \in Sessions, NEW v \in {"ok", "error", "lost", "killed"}, Quit(s, v),
             UNCHANGED read \/ read' = Set(read, s, read[s] + 1),
             read'[s] <= Len(log[s]),
             mayDetach' \in [Sessions -> BOOLEAN]
      PROVE  TypeOK'
  <2>1. ClientTypeOK'
    BY <1>4 DEF Quit, ClientTypeOK
  <2>2. SocketTypeOK'
    <3>1. /\ UNCHANGED <<log, inbox>> /\ shut' = Set(shut, s, TRUE)
          /\ read' \in [Sessions -> Nat]
          /\ \A t \in Sessions : read[t] <= read'[t] /\ read'[t] <= Len(log[t])
      <4>1. UNCHANGED <<log, inbox>> /\ shut' = Set(shut, s, TRUE)
        BY <1>4 DEF Quit
      <4>2. CASE UNCHANGED read
        BY <4>1, <4>2 DEF SocketTypeOK
      <4>3. CASE read' = Set(read, s, read[s] + 1)
        BY <4>1, <4>3, <1>4 DEF SocketTypeOK
      <4> QED  BY <1>4, <4>2, <4>3
    <3>2. \A t \in Sessions : Len(log[t]) \in Nat /\ read[t] \in Nat /\ read'[t] \in Nat
      BY <3>1 DEF SocketTypeOK
    <3>3. \A t \in Sessions : Len(log[t]) - read'[t] <= SocketSize
      BY <1>0, <3>1, <3>2 DEF SocketTypeOK
    <3> QED  BY <3>1, <3>3 DEF SocketTypeOK
  <2> QED  BY <1>1, <1>2, <1>4, <2>1, <2>2 DEF Quit
<1>5. ASSUME NEW s \in Sessions, Connect(s) \/ Client(s) \/ Killed(s)
      PROVE  TypeOK'
  <2>1. CASE Connect(s)
    <3>1. ClientTypeOK'
      BY <2>1 DEF Connect, ClientTypeOK
    <3>2. HandlerTypeOK'
      BY <2>1 DEF Connect, HandlerTypeOK
    <3> QED  BY <1>1, <1>2, <2>1, <3>1, <3>2 DEF Connect
  <2>2. CASE Receive(s)
    <3> DEFINE m == log[s][read[s] + 1]
    <3>1. read' = Set(read, s, read[s] + 1) /\ read'[s] <= Len(log[s])
      BY <2>2 DEF Receive, SocketTypeOK
    <3>2. CASE m.what \in {"ok", "error"} /\ Quit(s, m.what) /\ UNCHANGED mayDetach
      <4> HIDE DEF m
      <4> QED  BY <3>1, <3>2, <1>4 DEF ClientTypeOK
    <3>3. CASE /\ mayDetach' = Set(mayDetach, s, mayDetach[s] \/ m.what = "serial")
               /\ UNCHANGED <<client, input, typed, detached, log, inbox, shut, handler,
                              verdict, commandVars, relayVars, consoleVars>>
      <4> HIDE DEF m
      <4>1. ClientTypeOK'
        BY <3>3 DEF ClientTypeOK
      <4>2. SocketTypeOK'
        BY <1>0, <3>1, <3>3 DEF SocketTypeOK
      <4> QED  BY <1>1, <1>2, <3>3, <4>1, <4>2
    <3> QED  BY <2>2, <3>2, <3>3 DEF Receive
  <2>3. CASE ReceiveFails(s) \/ Killed(s)
    <3>1. UNCHANGED <<read, mayDetach>> /\ \E v \in {"lost", "ok", "killed"} : Quit(s, v)
      BY <2>3 DEF ReceiveFails, Killed
    <3> QED  BY <1>4, <3>1 DEF ClientTypeOK, SocketTypeOK
  <2> QED  BY <1>5, <2>1, <2>2, <2>3 DEF Client
<1>6. ASSUME NEW s \in Sessions, Type(s) \/ TypeEof(s) \/ TypeDetach(s) \/ ShutDown(s)
      PROVE  TypeOK'
  <2>1. ClientTypeOK'
    <3>1. CASE Type(s)
      BY <3>1 DEF Type, ClientTypeOK
    <3>2. CASE TypeEof(s) \/ TypeDetach(s) \/ ShutDown(s)
      BY <3>2 DEF TypeEof, TypeDetach, ShutDown, ClientTypeOK
    <3> QED  BY <1>6, <3>1, <3>2
  <2>2. SocketTypeOK'
    <3>1. /\ UNCHANGED <<log, read>>
          /\ shut' = shut \/ shut' = Set(shut, s, TRUE)
          /\ inbox' = inbox \/ \E k \in Nat : inbox' = Set(inbox, s, Append(inbox[s], k))
      <4>1. CASE Type(s)
        <5>1. typed[s] + 1 \in Nat
          BY DEF ClientTypeOK
        <5>2. inbox' = inbox \/ inbox' = Set(inbox, s, Append(inbox[s], typed[s] + 1))
          BY <4>1 DEF Type
        <5> QED  BY <4>1, <5>1, <5>2 DEF Type
      <4>2. CASE TypeEof(s)
        BY <4>2 DEF TypeEof
      <4>3. CASE TypeDetach(s) \/ ShutDown(s)
        BY <4>3 DEF TypeDetach, ShutDown, socketVars
      <4> QED  BY <1>6, <4>1, <4>2, <4>3
    <3>2. shut' \in [Sessions -> BOOLEAN]
      BY <3>1 DEF SocketTypeOK
    <3>3. inbox' \in [Sessions -> Seq(Nat)]
      <4>1. inbox \in [Sessions -> Seq(Nat)] /\ inbox[s] \in Seq(Nat)
        BY DEF SocketTypeOK
      <4>2. \A k \in Nat : Append(inbox[s], k) \in Seq(Nat)
        BY ONLY <4>1, AppendProperties
      <4> QED  BY <3>1, <4>1, <4>2
    <3> QED  BY <3>1, <3>2, <3>3 DEF SocketTypeOK
  <2> QED  BY <1>1, <1>2, <1>6, <2>1, <2>2 DEF Type, TypeEof, TypeDetach, ShutDown
<1>7. ASSUME NEW s \in Sessions, NEW m \in Messages, Append1(s, m) \/ Event(s, m)
      PROVE  SocketTypeOK'
  <2>1. CASE UNCHANGED socketVars
    BY <1>2, <2>1
  <2>2. CASE Append1(s, m)
    <3>1. /\ log[s] \in Seq(Messages) /\ Len(log[s]) - read[s] < SocketSize
          /\ log' = [log EXCEPT ![s] = Append(log[s], m)] /\ UNCHANGED <<read, inbox, shut>>
      BY <2>2 DEF Append1, Room, SocketTypeOK
    <3>2. /\ log' \in [Sessions -> Seq(Messages)]
          /\ Len(log'[s]) = Len(log[s]) + 1
          /\ \A t \in Sessions \ {s} : log'[t] = log[t]
      BY <3>1, AppendMessage DEF SocketTypeOK
    <3>3. Len(log[s]) \in Nat /\ read[s] \in Nat
      BY DEF SocketTypeOK
    <3>4. read[s] <= Len(log'[s]) /\ Len(log'[s]) - read[s] <= SocketSize
      BY <1>0, <3>1, <3>2, <3>3 DEF SocketTypeOK
    <3> QED  BY <3>1, <3>2, <3>4 DEF SocketTypeOK
  <2> QED  BY <1>7, <2>1, <2>2 DEF Event
<1>8. ASSUME NEW s \in Sessions, Handler(s)
      PROVE  TypeOK'
  <2>1. HandlerTypeOK'
    BY <1>8 DEF Handler, Unread, Announce, Spawn, SpawnFails, Wait, JoinStdout, JoinStderr, Answer,
                Attach, AttachFails, Greet, GreetFails, Waitpid, Join, AttachError, CommandDone,
                Goto, Answering, HandlerTypeOK
  <2>2. SocketTypeOK'
    <3>1. Message("command", 0) \in Messages /\ Message(verdict[s], 0) \in Messages
      BY DEF Message, Messages, HandlerTypeOK
    <3>2. Message("login", 0) \in Messages /\ Message("serial", 0) \in Messages
      BY DEF Message, Messages
    <3>3. CASE Announce(s) \/ Answer(s) \/ Greet(s)
      BY <1>7, <3>1, <3>2, <3>3 DEF Announce, Answer, Greet
    <3>4. CASE ~(Announce(s) \/ Answer(s) \/ Greet(s))
      BY <1>2, <1>8, <3>4 DEF Handler, Unread, Spawn, SpawnFails, Wait, JoinStdout, JoinStderr,
                  Attach, AttachFails, GreetFails, Waitpid, Join, AttachError
    <3> QED  BY <3>3, <3>4
  <2>3. CommandTypeOK'
    <3>1. CASE Spawn(s)
      BY <1>1, <3>1 DEF Spawn, CommandTypeOK
    <3>2. CASE ~Spawn(s)
      BY <1>2, <1>8, <3>2 DEF Handler, Unread, Announce, SpawnFails, Wait, JoinStdout, JoinStderr, Answer,
                  Attach, AttachFails, Greet, GreetFails, Waitpid, Join, AttachError
    <3> QED  BY <3>1, <3>2
  <2>4. RelayTypeOK'
    <3>1. CASE Greet(s)
      BY <3>1 DEF Greet, RelayTypeOK
    <3>2. CASE ~Greet(s)
      BY <1>2, <1>8, <3>2 DEF Handler, Unread, Announce, Spawn, SpawnFails, Wait, JoinStdout, JoinStderr,
                  Answer, Attach, AttachFails, GreetFails, Waitpid, Join, AttachError
    <3> QED  BY <3>1, <3>2
  <2>5. ConsoleTypeOK'
    <3>1. CASE Attach(s)
      BY <1>0, <1>1, <3>1 DEF Attach, Console, ConsoleTypeOK
    <3>2. CASE ~Attach(s)
      BY <1>2, <1>8, <3>2 DEF Handler, Unread, Announce, Spawn, SpawnFails, Wait, JoinStdout, JoinStderr,
                  Answer, AttachFails, Greet, GreetFails, Waitpid, Join, AttachError
    <3> QED  BY <3>1, <3>2
  <2>6. UNCHANGED clientVars
    BY <1>8 DEF Handler, Unread, Announce, Spawn, SpawnFails, Wait, JoinStdout, JoinStderr, Answer,
                Attach, AttachFails, Greet, GreetFails, Waitpid, Join, AttachError
  <2> QED  BY <1>1, <1>2, <2>1, <2>2, <2>3, <2>4, <2>5, <2>6
<1>9. ASSUME NEW s \in Sessions, Command(s)
      PROVE  TypeOK'
  <2>1. CommandTypeOK'
    <3>1. ASSUME NEW r \in Streams, ChildWrites(s, r)
          PROVE  CommandTypeOK'
      BY <1>0, <1>1, <3>1 DEF ChildWrites, CommandTypeOK
    <3>2. ASSUME NEW r \in Streams, ChildBreaks(s, r)
          PROVE  CommandTypeOK'
      <4>1. CASE child' = Set(child, s, "failed") /\ UNCHANGED <<written, taken, reader, broken>>
        BY <1>1, <4>1 DEF CommandTypeOK
      <4>2. CASE /\ written' = Set2(written, s, r, written[s][r] + 1)
                 /\ taken' = Set2(taken, s, r, written[s][r] + 1)
                 /\ written[s][r] < scenario.output
                 /\ UNCHANGED <<child, reader, broken>>
        <5>1. written[s][r] + 1 \in 0..scenario.output
          BY <1>0, <4>2 DEF CommandTypeOK
        <5> QED  BY <1>0, <1>1, <4>2, <5>1 DEF CommandTypeOK
      <4> QED  BY <3>2, <4>1, <4>2 DEF ChildBreaks
    <3>3. CASE ChildExits(s)
      BY <1>1, <3>3 DEF ChildExits, CommandTypeOK
    <3> QED  BY <1>9, <3>1, <3>2, <3>3 DEF Command
  <2> QED  BY <1>1, <1>2, <1>9, <2>1 DEF Command, ChildWrites, ChildBreaks, ChildExits
<1>10. ASSUME NEW s \in Sessions, NEW r \in Streams, Reader(s, r)
       PROVE  TypeOK'
  <2>1. CommandTypeOK'
    <3>1. CASE ReaderReads(s, r)
      BY <1>0, <1>1, <3>1 DEF ReaderReads, CommandTypeOK
    <3>2. CASE ReaderSends(s, r)
      BY <1>1, <3>2 DEF ReaderSends, CommandTypeOK
    <3>3. CASE ReaderEnds(s, r)
      BY <1>1, <3>3 DEF ReaderEnds, CommandTypeOK
    <3> QED  BY <1>10, <3>1, <3>2, <3>3 DEF Reader
  <2>2. SocketTypeOK'
    <3>1. Message(r, taken[s][r]) \in Messages
      BY <1>0 DEF Message, Messages, Streams, CommandTypeOK
    <3> QED  BY <1>2, <1>7, <1>10, <3>1 DEF Reader, ReaderReads, ReaderSends, ReaderEnds
  <2> QED  BY <1>1, <1>2, <1>10, <2>1, <2>2 DEF Reader, ReaderReads, ReaderSends, ReaderEnds
<1>11. ASSUME NEW s \in Sessions, RelayOut(s)
       PROVE  TypeOK'
  <2>1. RelayTypeOK'
    <3>1. next[Console(s)] + 1 \in Nat
      BY <1>0 DEF Console, ConsoleTypeOK
    <3> QED  BY <1>11, <3>1 DEF RelayOut, RelayReads, RelaySends, RelayEnds, RelayTypeOK
  <2>2. SocketTypeOK'
    <3>1. Message("console", hand[s]) \in Messages
      BY DEF Message, Messages, RelayTypeOK
    <3> QED  BY <1>2, <1>7, <1>11, <3>1 DEF RelayOut, RelayReads, RelaySends, RelayEnds
  <2>3. ConsoleTypeOK'
    <3>1. CASE RelayReads(s)
      BY <1>0, <1>1, <3>1 DEF RelayReads, Console, ConsoleTypeOK
    <3> QED  BY <1>2, <1>11, <3>1 DEF RelayOut, RelaySends, RelayEnds
  <2> QED  BY <1>1, <1>2, <1>11, <2>1, <2>2, <2>3 DEF RelayOut, RelayReads, RelaySends, RelayEnds
<1>12. ASSUME NEW s \in Sessions, RelayIn(s)
       PROVE  TypeOK'
  <2>1. RelayTypeOK'
    BY <1>12 DEF RelayIn, InputRelay, InputRelayEnds, RelayTypeOK
  <2>2. SocketTypeOK'
    <3>1. CASE InputRelay(s)
      <4>1. Tail(inbox[s]) \in Seq(Nat)
        BY <3>1 DEF InputRelay, SocketTypeOK
      <4> QED  BY <3>1, <4>1 DEF InputRelay, SocketTypeOK
    <3> QED  BY <1>2, <1>12, <3>1 DEF RelayIn, InputRelayEnds
  <2>3. ConsoleTypeOK'
    <3>1. CASE InputRelay(s)
      <4> DEFINE k == Head(inbox[s])
      <4>1. k \in Nat /\ Console(s) \in Consoles
        BY <1>0, <3>1 DEF InputRelay, SocketTypeOK, Console
      <4>2. \/ UNCHANGED keys
            \/ keys' = Set(keys, Console(s), Append(keys[Console(s)], <<s, k>>))
        BY <3>1 DEF InputRelay
      <4> HIDE DEF k
      <4>3. keys' \in [Consoles -> Seq(Sessions \X Nat)]
        <5>1. keys \in [Consoles -> Seq(Sessions \X Nat)]
          BY DEF ConsoleTypeOK
        <5>2. <<s, k>> \in Sessions \X Nat /\ keys[Console(s)] \in Seq(Sessions \X Nat)
          BY <4>1, <5>1
        <5>3. Append(keys[Console(s)], <<s, k>>) \in Seq(Sessions \X Nat)
          BY ONLY <5>2, AppendProperties
        <5> QED  BY ONLY <4>2, <5>1, <5>3 DEF Set
      <4> QED  BY <1>1, <3>1, <4>3 DEF InputRelay, ConsoleTypeOK
    <3> QED  BY <1>2, <1>12, <3>1 DEF RelayIn, InputRelayEnds
  <2> QED  BY <1>1, <1>2, <1>12, <2>1, <2>2, <2>3 DEF RelayIn, InputRelay, InputRelayEnds
<1>13. ASSUME NEW c \in Consoles, ConsoleWrites(c) \/ ConsoleEnds(c)
       PROVE  TypeOK'
  <2>1. ConsoleTypeOK'
    <3>1. CASE ConsoleWrites(c)
      BY <1>0, <1>1, <3>1 DEF ConsoleWrites, ConsoleTypeOK
    <3>2. CASE ConsoleEnds(c)
      BY <1>0, <1>1, <3>2 DEF ConsoleEnds, ConsoleTypeOK
    <3> QED  BY <1>13, <3>1, <3>2
  <2> QED  BY <1>1, <1>2, <1>13, <2>1 DEF ConsoleWrites, ConsoleEnds
<1> QED  BY <1>3, <1>5, <1>6, <1>8, <1>9, <1>10, <1>11, <1>12, <1>13 DEF Next

(* What belongs to one session. *)
OwnClient(s) == <<client[s], input[s], typed[s], mayDetach[s], detached[s]>>
OwnSocket(s) == <<log[s], read[s], inbox[s], shut[s]>>
OwnHandler(s) == <<handler[s], verdict[s]>>
OwnCommand(s) == <<child[s], written[s], taken[s], reader[s]>>
OwnRelay(s) == <<relayOut[s], hand[s], relayIn[s]>>

(* The steps of a session: of its client, its handler, its command and its relay. *)
Moves(s) == \/ Connect(s) \/ Client(s) \/ Killed(s)
            \/ Type(s) \/ TypeEof(s) \/ TypeDetach(s) \/ ShutDown(s)
            \/ Handler(s) \/ Command(s) \/ RelayOut(s) \/ RelayIn(s)
            \/ \E r \in Streams : Reader(s, r)

(* A step of one session leaves alone what belongs to another. *)
LEMMA OthersKeep ==
    ASSUME TypeOK, NEW t \in Sessions, Moves(t), NEW s \in Sessions, s # t
    PROVE  /\ UNCHANGED OwnClient(s) /\ UNCHANGED OwnSocket(s) /\ UNCHANGED OwnHandler(s)
           /\ UNCHANGED OwnCommand(s) /\ UNCHANGED OwnRelay(s)
           /\ \A r \in Streams : (<<s, r>> \in broken)' <=> <<s, r>> \in broken
<1> USE DEF Set, Set2
<1>1. /\ UNCHANGED clientVars => UNCHANGED OwnClient(s)
      /\ UNCHANGED socketVars => UNCHANGED OwnSocket(s)
      /\ UNCHANGED <<handler, verdict>> => UNCHANGED OwnHandler(s)
      /\ UNCHANGED commandVars => UNCHANGED OwnCommand(s)
      /\ UNCHANGED relayVars => UNCHANGED OwnRelay(s)
  BY DEF clientVars, socketVars, commandVars, relayVars, OwnClient, OwnSocket, OwnHandler,
         OwnCommand, OwnRelay
<1>2. UNCHANGED OwnClient(s)
  <2>0. ClientTypeOK
    BY DEF TypeOK
  <2>1. CASE Connect(t)
    BY <2>0, <2>1 DEF ClientTypeOK, Connect, OwnClient
  <2>2. CASE Client(t) \/ Killed(t)
    BY <2>0, <2>2 DEF ClientTypeOK, Client, Receive, ReceiveFails, Killed, Quit, OwnClient
  <2>3. CASE Type(t) \/ TypeEof(t) \/ TypeDetach(t) \/ ShutDown(t)
    BY <2>0, <2>3 DEF ClientTypeOK, Type, TypeEof, TypeDetach, ShutDown, OwnClient
  <2>4. CASE Handler(t)
    BY <1>1, <2>4 DEF Handler, Unread, Announce, Spawn, SpawnFails, Wait, JoinStdout, JoinStderr, Answer,
              Attach, AttachFails, Greet, GreetFails, Waitpid, Join, AttachError
  <2>5. CASE Command(t) \/ RelayOut(t) \/ RelayIn(t) \/ \E r \in Streams : Reader(t, r)
    BY <1>1, <2>5 DEF Command, ChildExits, ChildWrites, ChildBreaks, RelayOut, RelayReads,
              RelaySends, RelayEnds, RelayIn, InputRelay, InputRelayEnds,
              Reader, ReaderReads, ReaderSends, ReaderEnds
  <2> QED  BY <2>1, <2>2, <2>3, <2>4, <2>5 DEF Moves
<1>3. UNCHANGED OwnSocket(s)
  <2>0. /\ log \in [Sessions -> Seq(Messages)] /\ read \in [Sessions -> Nat]
        /\ inbox \in [Sessions -> Seq(Nat)] /\ shut \in [Sessions -> BOOLEAN]
    BY DEF TypeOK, SocketTypeOK
  <2>1. ASSUME NEW m, Append1(t, m) \/ Event(t, m)
        PROVE  UNCHANGED OwnSocket(s)
    BY <1>1, <2>0, <2>1 DEF Event, Append1, OwnSocket
  <2>2. CASE Connect(t) \/ Command(t)
    BY <1>1, <2>2 DEF Connect, Command, ChildExits, ChildWrites, ChildBreaks
  <2>3. CASE Client(t) \/ Killed(t)
    BY <2>0, <2>3 DEF Client, Receive, ReceiveFails, Killed, Quit, OwnSocket
  <2>4. CASE Type(t) \/ TypeEof(t) \/ TypeDetach(t) \/ ShutDown(t)
    BY <2>0, <2>4 DEF Type, TypeEof, TypeDetach, ShutDown, OwnSocket, socketVars
  <2>5. CASE Handler(t)
    BY <1>1, <2>1, <2>5 DEF Handler, Unread, Announce, Spawn, SpawnFails, Wait, JoinStdout, JoinStderr,
              Answer, Attach, AttachFails, Greet, GreetFails, Waitpid, Join, AttachError
  <2>6. CASE RelayOut(t) \/ \E r \in Streams : Reader(t, r)
    BY <1>1, <2>1, <2>6 DEF RelayOut, RelayReads, RelaySends, RelayEnds,
              Reader, ReaderReads, ReaderSends, ReaderEnds
  <2>7. CASE RelayIn(t)
    BY <1>1, <2>0, <2>7 DEF RelayIn, InputRelay, InputRelayEnds, OwnSocket
  <2> QED  BY <2>2, <2>3, <2>4, <2>5, <2>6, <2>7 DEF Moves
<1>4. UNCHANGED OwnHandler(s)
  <2>0. HandlerTypeOK
    BY DEF TypeOK
  <2>1. CASE Connect(t)
    BY <2>0, <2>1 DEF HandlerTypeOK, Connect, OwnHandler
  <2>2. CASE Handler(t)
    BY <2>0, <2>2 DEF HandlerTypeOK, Handler, Unread, Announce, Spawn, SpawnFails, Wait, JoinStdout, JoinStderr, Answer,
              Attach, AttachFails, Greet, GreetFails, Waitpid, Join, AttachError, CommandDone,
              Goto, Answering, OwnHandler
  <2>3. CASE ~Connect(t) /\ ~Handler(t)
    BY <1>1, <2>3 DEF Moves, Client, Receive, ReceiveFails, Killed, Quit,
              Type, TypeEof, TypeDetach, ShutDown, Command, ChildExits, ChildWrites, ChildBreaks,
              RelayOut, RelayReads, RelaySends, RelayEnds, RelayIn, InputRelay, InputRelayEnds,
              Reader, ReaderReads, ReaderSends, ReaderEnds
  <2> QED  BY <2>1, <2>2, <2>3
<1>5. /\ UNCHANGED OwnCommand(s)
      /\ \A r \in Streams : (<<s, r>> \in broken)' <=> <<s, r>> \in broken
  <2>0. CommandTypeOK
    BY DEF TypeOK
  <2>1. CASE Command(t)
    BY <2>0, <2>1 DEF CommandTypeOK, Command, ChildExits, ChildWrites, ChildBreaks, OwnCommand
  <2>2. ASSUME NEW r \in Streams, Reader(t, r)
        PROVE  /\ UNCHANGED OwnCommand(s)
               /\ \A q \in Streams : (<<s, q>> \in broken)' <=> <<s, q>> \in broken
    BY <2>0, <2>2 DEF CommandTypeOK, Reader, ReaderReads, ReaderSends, ReaderEnds, OwnCommand
  <2>3. CASE Spawn(t)
    BY <2>0, <2>3 DEF CommandTypeOK, Spawn, OwnCommand
  <2>4. CASE UNCHANGED commandVars
    BY <1>1, <2>4 DEF commandVars
  <2>5. ~Command(t) /\ ~Spawn(t) /\ ~(\E r \in Streams : Reader(t, r)) => UNCHANGED commandVars
    BY DEF Moves, Connect, Client, Receive, ReceiveFails, Killed, Quit,
              Type, TypeEof, TypeDetach, ShutDown, Handler, Unread, Announce, SpawnFails, Wait, JoinStdout,
              JoinStderr, Answer, Attach, AttachFails, Greet, GreetFails, Waitpid, Join, AttachError,
              RelayOut, RelayReads, RelaySends, RelayEnds, RelayIn, InputRelay, InputRelayEnds
  <2> QED  BY <2>1, <2>2, <2>3, <2>4, <2>5
<1>6. UNCHANGED OwnRelay(s)
  <2>0. RelayTypeOK
    BY DEF TypeOK
  <2>1. CASE Greet(t)
    BY <2>0, <2>1 DEF RelayTypeOK, Greet, OwnRelay
  <2>2. CASE RelayOut(t) \/ RelayIn(t)
    BY <2>0, <2>2 DEF RelayTypeOK, RelayOut, RelayReads, RelaySends, RelayEnds, RelayIn, InputRelay, InputRelayEnds,
              OwnRelay
  <2>3. CASE ~Greet(t) /\ ~RelayOut(t) /\ ~RelayIn(t)
    BY <1>1, <2>3 DEF Moves, Connect, Client, Receive, ReceiveFails, Killed, Quit,
              Type, TypeEof, TypeDetach, ShutDown, Handler, Unread, Announce, Spawn, SpawnFails, Wait,
              JoinStdout, JoinStderr, Answer, Attach, AttachFails, GreetFails, Waitpid, Join,
              AttachError, Command, ChildExits, ChildWrites, ChildBreaks,
              Reader, ReaderReads, ReaderSends, ReaderEnds
  <2> QED  BY <2>1, <2>2, <2>3
<1> QED  BY <1>2, <1>3, <1>4, <1>5, <1>6

(* Nothing happens in a session. *)
Rests(s) == /\ UNCHANGED OwnClient(s) /\ UNCHANGED OwnSocket(s) /\ UNCHANGED OwnHandler(s)
            /\ UNCHANGED OwnCommand(s) /\ UNCHANGED OwnRelay(s)
            /\ \A r \in Streams : (<<s, r>> \in broken)' <=> <<s, r>> \in broken

(* A session moves, or a step is none of its business. *)
LEMMA MovesOrRests ==
    ASSUME TypeOK, [Next]_vars, NEW s \in Sessions
    PROVE  UNCHANGED scenario /\ (Moves(s) \/ Rests(s))
<1>1. CASE \E t \in Sessions : Moves(t)
  BY <1>1, OthersKeep DEF Next, Rests, vars
<1>2. CASE UNCHANGED vars \/ \E c \in Consoles : ConsoleWrites(c) \/ ConsoleEnds(c)
  <2>1. /\ UNCHANGED <<clientVars, socketVars>> /\ UNCHANGED <<handler, verdict>>
        /\ UNCHANGED <<commandVars, relayVars>>
    BY <1>2 DEF ConsoleWrites, ConsoleEnds, vars
  <2>2. Rests(s)
    BY <2>1 DEF clientVars, socketVars, commandVars, relayVars, Rests, OwnClient, OwnSocket,
                OwnHandler, OwnCommand, OwnRelay
  <2> QED  BY <2>2 DEF Next, vars
<1> QED  BY <1>1, <1>2 DEF Next, vars, Moves

(* The types of what belongs to a session. *)
LEMMA OwnTypes ==
    ASSUME TypeOK, NEW s \in Sessions
    PROVE  /\ log[s] \in Seq(Messages) /\ Len(log[s]) \in Nat
           /\ read[s] \in Nat /\ read[s] <= Len(log[s])
           /\ inbox[s] \in Seq(Nat) /\ shut[s] \in BOOLEAN
           /\ typed[s] \in Nat /\ hand[s] \in Nat /\ Console(s) \in Consoles
           /\ \A r \in Streams : /\ written[s][r] \in Nat /\ taken[s][r] \in Nat
                                 /\ taken[s][r] <= written[s][r]
                                 /\ written[s][r] <= scenario.output
<1>1. scenario.output \in Nat /\ scenario.console \in [Sessions -> Consoles]
  BY ScenarioType DEF TypeOK
<1>2. log[s] \in Seq(Messages) /\ inbox[s] \in Seq(Nat)
  BY DEF TypeOK, SocketTypeOK
<1>3. Len(log[s]) \in Nat
  BY <1>2
<1>4. \A r \in Streams : /\ written[s][r] \in Nat /\ taken[s][r] \in Nat
                         /\ taken[s][r] <= written[s][r]
                         /\ written[s][r] <= scenario.output
  BY <1>1 DEF TypeOK, CommandTypeOK
<1>5. Console(s) \in Consoles
  BY <1>1 DEF Console
<1>6. read[s] \in Nat /\ read[s] <= Len(log[s]) /\ shut[s] \in BOOLEAN
  BY DEF TypeOK, SocketTypeOK
<1>7. typed[s] \in Nat /\ hand[s] \in Nat
  BY DEF TypeOK, ClientTypeOK, RelayTypeOK
<1> QED  BY <1>2, <1>3, <1>4, <1>5, <1>6, <1>7

(* A message is put at the end of the log of an open socket. *)
Says(s, m) == /\ ~shut[s] /\ log'[s] = Append(log[s], m)
              /\ UNCHANGED <<read[s], inbox[s], shut[s]>>

(* A message to a closed socket goes nowhere. *)
Ignored(s) == shut[s] /\ UNCHANGED OwnSocket(s)

(* What is said arrives at the end of the log, or is ignored. *)
LEMMA SaidOrIgnored ==
    ASSUME TypeOK, NEW s \in Sessions, NEW m
    PROVE  (Event(s, m) => Says(s, m) \/ Ignored(s)) /\ (Append1(s, m) => Says(s, m))
<1>1. log \in [Sessions -> Seq(Messages)]
  BY DEF TypeOK, SocketTypeOK
<1> QED  BY <1>1 DEF Event, Append1, Says, Ignored, socketVars, OwnSocket, Set

(* What a handler says, and in which step. *)
LEMMA HandlerSays ==
    ASSUME TypeOK, NEW s \in Sessions, Handler(s)
    PROVE  \/ UNCHANGED log[s]
           \/ Announce(s) /\ Says(s, Message("command", 0))
           \/ Answer(s) /\ Says(s, Message(verdict[s], 0)) /\ verdict[s] \in {"ok", "error"}
           \/ \E what \in {"login", "serial"} : Greet(s) /\ Says(s, Message(what, 0))
<1>1. CASE Announce(s) \/ Answer(s)
  <2>1. verdict[s] \in {"ok", "error"}
    BY DEF TypeOK, HandlerTypeOK
  <2> QED  BY <1>1, <2>1, SaidOrIgnored DEF Announce, Answer, Ignored, OwnSocket
<1>2. CASE Greet(s)
  BY <1>2, SaidOrIgnored DEF Greet
<1>3. CASE ~(Announce(s) \/ Answer(s) \/ Greet(s))
  BY <1>3 DEF Handler, Unread, Spawn, SpawnFails, Wait, JoinStdout, JoinStderr,
            Attach, AttachFails, GreetFails, Waitpid, Join, AttachError, socketVars
<1> QED  BY <1>1, <1>2, <1>3

(* What a session says, and in which step. *)
LEMMA WhoSays ==
    ASSUME TypeOK, NEW s \in Sessions, Moves(s)
    PROVE  \/ UNCHANGED log[s]
           \/ Announce(s) /\ Says(s, Message("command", 0))
           \/ Answer(s) /\ Says(s, Message(verdict[s], 0)) /\ verdict[s] \in {"ok", "error"}
           \/ \E what \in {"login", "serial"} : Greet(s) /\ Says(s, Message(what, 0))
           \/ \E r \in Streams : ReaderSends(s, r) /\ Says(s, Message(r, taken[s][r]))
           \/ RelaySends(s) /\ Says(s, Message("console", hand[s]))
<1>1. CASE Connect(s) \/ Client(s) \/ Killed(s) \/ Type(s) \/ TypeEof(s) \/ TypeDetach(s)
           \/ ShutDown(s) \/ Command(s) \/ RelayIn(s)
  BY <1>1 DEF Connect, Client, Receive, ReceiveFails, Killed, Quit, Type, TypeEof, TypeDetach,
              ShutDown, Command, ChildExits, ChildWrites, ChildBreaks, RelayIn, InputRelay,
              InputRelayEnds, socketVars
<1>2. CASE Handler(s)
  BY <1>2, HandlerSays
<1>3. CASE RelayOut(s)
  BY <1>3, SaidOrIgnored DEF RelayOut, RelayReads, RelaySends, RelayEnds, Ignored, OwnSocket,
              socketVars
<1>4. ASSUME NEW r \in Streams, Reader(s, r)
      PROVE  \/ UNCHANGED log[s]
             \/ ReaderSends(s, r) /\ Says(s, Message(r, taken[s][r]))
  BY <1>4, SaidOrIgnored DEF Reader, ReaderReads, ReaderSends, ReaderEnds, Ignored, OwnSocket,
              socketVars
<1> QED  BY <1>1, <1>2, <1>3, <1>4 DEF Moves

(* A log that has grown by a message. *)
LEMMA Grown ==
    ASSUME TypeOK, NEW s \in Sessions, NEW m \in Messages, Says(s, m)
    PROVE  /\ Len(log'[s]) = Len(log[s]) + 1
           /\ \A i \in 1..Len(log[s]) : log'[s][i] = log[s][i]
           /\ log'[s][Len(log[s]) + 1] = m
           /\ \A i \in 1..Len(log'[s]) :
                 \/ i \in 1..Len(log[s]) /\ log'[s][i] = log[s][i]
                 \/ i = Len(log[s]) + 1 /\ log'[s][i] = m
<1>1. log[s] \in Seq(Messages)
  BY OwnTypes
<1>2. /\ Len(log'[s]) = Len(log[s]) + 1
      /\ \A i \in 1..Len(log[s]) : log'[s][i] = log[s][i]
      /\ log'[s][Len(log[s]) + 1] = m
  BY <1>1, AppendMessage DEF Says
<1> QED  BY <1>1, <1>2

(* Messages and what they carry. *)
LEMMA MessageParts ==
    ASSUME NEW what, NEW n
    PROVE  Message(what, n).what = what /\ Message(what, n).n = n
  BY DEF Message

(* What handlers, readers and relays send are messages. *)
LEMMA SaidIsMessage ==
    ASSUME TypeOK, NEW s \in Sessions
    PROVE  /\ Message("command", 0) \in Messages /\ Message("console", hand[s]) \in Messages
           /\ Message("login", 0) \in Messages /\ Message("serial", 0) \in Messages
           /\ Message("ok", 0) \in Messages /\ Message("error", 0) \in Messages
           /\ \A r \in Streams : Message(r, taken[s][r]) \in Messages
  BY OwnTypes DEF Message, Messages

(* Where the handler goes, and on which condition. *)
LEMMA HandlerMoves ==
    ASSUME TypeOK, NEW s \in Sessions, Handler(s)
    PROVE  /\ UNCHANGED OwnClient(s) /\ UNCHANGED <<broken, hand, next, made, keys>>
           /\ \/ UNCHANGED OwnCommand(s)
              \/ /\ handler[s] = "spawn" /\ handler'[s] = "wait" /\ child'[s] = "run"
                 /\ UNCHANGED <<written[s], taken[s]>>
                 /\ reader'[s] = [r \in Streams |-> "read"]
           /\ \/ UNCHANGED OwnRelay(s)
              \/ /\ handler[s] = "greet" /\ handler'[s] \in {"waitpid", "join"}
                 /\ relayOut'[s] = "read"
           /\ \/ handler[s] = "command" /\ handler'[s] = "spawn"
              \/ handler[s] \in {"command", "attach"} /\ handler'[s] = "end" /\ Unread(s)
              \/ handler[s] = "spawn" /\ child'[s] = "run" /\ handler'[s] = "wait"
              \/ handler[s] = "spawn" /\ May("spawn") /\ handler'[s] = "answer"
              \/ handler[s] = "wait" /\ handler'[s] = "stdout"
              \/ /\ handler[s] = "stdout" /\ reader[s]["stdout"] = "end"
                 /\ \/ <<s, "stdout">> \in broken /\ handler'[s] = "answer"
                    \/ handler'[s] = "stderr"
              \/ /\ handler[s] = "stderr" /\ reader[s]["stderr"] = "end"
                 /\ handler'[s] \in {"answer", "attach"}
              \/ handler[s] = "answer" /\ handler'[s] = "end" /\ Answer(s)
              \/ handler[s] = "attach" /\ handler'[s] = "greet"
              \/ /\ handler[s] \in {"attach", "greet"}
                 /\ IF Kind(s) = "attach" THEN handler'[s] = "end" ELSE handler'[s] = "answer"
              \/ handler[s] = "greet" /\ handler'[s] \in {"waitpid", "join"}
              \/ handler[s] = "waitpid" /\ handler'[s] = "join"
              \/ handler[s] = "join" /\ relayOut[s] = "end" /\ handler'[s] = "answer"
<1> USE DEF Set, Goto, Answering
<1>1. HandlerTypeOK /\ CommandTypeOK /\ RelayTypeOK
  BY DEF TypeOK
<1>2. UNCHANGED OwnClient(s) /\ UNCHANGED <<broken, hand, next, made, keys>>
  <2>1. UNCHANGED clientVars /\ UNCHANGED <<broken, hand, next, made, keys>>
    BY DEF Handler, Unread, Announce, Spawn, SpawnFails, Wait, JoinStdout, JoinStderr, Answer, Attach,
           AttachFails, Greet, GreetFails, Waitpid, Join, AttachError, commandVars, relayVars,
           consoleVars
  <2> QED  BY <2>1 DEF clientVars, OwnClient
<1>3. CASE Unread(s) \/ Announce(s) \/ SpawnFails(s) \/ Wait(s) \/ Answer(s) \/ Waitpid(s)
           \/ Join(s)
  BY <1>1, <1>2, <1>3 DEF Unread, Announce, SpawnFails, Wait, Answer, Waitpid, Join, commandVars,
     relayVars, OwnCommand, OwnRelay, HandlerTypeOK
<1>4. CASE Spawn(s)
  BY <1>1, <1>2, <1>4 DEF Spawn, relayVars, OwnRelay, HandlerTypeOK, CommandTypeOK
<1>5. CASE JoinStdout(s) \/ JoinStderr(s)
  BY <1>1, <1>2, <1>5 DEF JoinStdout, JoinStderr, CommandDone, commandVars, relayVars, OwnCommand,
     OwnRelay, HandlerTypeOK
<1>6. CASE Attach(s) \/ AttachFails(s) \/ GreetFails(s)
  BY <1>1, <1>2, <1>6 DEF Attach, AttachFails, GreetFails, AttachError, commandVars, relayVars,
     OwnCommand, OwnRelay, HandlerTypeOK
<1>7. CASE Greet(s)
  BY <1>1, <1>2, <1>7 DEF Greet, commandVars, OwnCommand, HandlerTypeOK, RelayTypeOK
<1> QED  BY <1>3, <1>4, <1>5, <1>6, <1>7 DEF Handler

(* The threads of a session are done when its handler says so. *)
LEMMA ThreadsDoneStep ==
    ASSUME TypeOK, [Next]_vars, NEW s \in Sessions,
           ThreadsDone(s), Drained(s), AnswersRead(s)
    PROVE  ThreadsDone(s)'
<1>1. UNCHANGED scenario /\ (Moves(s) \/ Rests(s))
  BY MovesOrRests
<1>2. (~May("read"))' <=> ~May("read")
  BY <1>1 DEF May
<1>3. CASE UNCHANGED <<handler[s], reader[s], relayOut[s], log[s]>>
  BY <1>2, <1>3 DEF ThreadsDone
<1>4. CASE Rests(s)
  BY <1>3, <1>4 DEF Rests, OwnSocket, OwnHandler, OwnCommand, OwnRelay
<1>5. /\ DOMAIN handler = Sessions /\ DOMAIN relayOut = Sessions
      /\ reader \in [Sessions -> [Streams -> {"none", "read", "send", "end"}]]
  BY DEF TypeOK, HandlerTypeOK, RelayTypeOK, CommandTypeOK
<1>6. ASSUME Moves(s), handler[s] = "end" => handler'[s] = "end"
      PROVE  handler'[s] # "end" =>
                \A i \in 1..Len(log'[s]) : log'[s][i].what \notin {"ok", "error"}
  <2> SUFFICES ASSUME handler'[s] # "end"
               PROVE  \A i \in 1..Len(log'[s]) : log'[s][i].what \notin {"ok", "error"}
    OBVIOUS
  <2>1. \A i \in 1..Len(log[s]) : log[s][i].what \notin {"ok", "error"}
    BY <1>6 DEF ThreadsDone
  <2>2. CASE UNCHANGED log[s]
    BY <2>1, <2>2
  <2>3. ASSUME NEW m \in Messages, Says(s, m), m.what \notin {"ok", "error"}
        PROVE  \A i \in 1..Len(log'[s]) : log'[s][i].what \notin {"ok", "error"}
    BY <2>1, <2>3, Grown
  <2>4. ~Answer(s)
    BY <1>5 DEF Answer, Goto, Set
  <2> QED  BY <1>6, <2>2, <2>3, <2>4, WhoSays, MessageParts, SaidIsMessage DEF Streams
<1>7. CASE Connect(s)
  <2>1. handler[s] = "idle" /\ handler'[s] \in {"attach", "command"}
    BY <1>5, <1>7 DEF Connect, AnswersRead, Set
  <2>2. UNCHANGED <<log[s], reader[s], relayOut[s]>>
    BY <1>7 DEF Connect, socketVars, commandVars, relayVars
  <2> QED  BY <1>2, <2>1, <2>2 DEF ThreadsDone
<1>8. CASE Handler(s)
  <2>1. handler[s] # "end"
    BY <1>8, HandlerMoves
  <2>2. handler'[s] # "end" =>
                \A i \in 1..Len(log'[s]) : log'[s][i].what \notin {"ok", "error"}
    BY <1>6, <1>8, <2>1 DEF Moves
  <2>3. ~May("read") => <<s, "stdout">> \notin broken
    BY DEF Drained, Streams
  <2> QED  BY <1>2, <1>5, <1>8, <2>2, <2>3, HandlerMoves DEF ThreadsDone, OwnCommand, OwnRelay, Streams
<1>9. ASSUME NEW r \in Streams, Reader(s, r)
      PROVE  ThreadsDone(s)'
  <2>1. UNCHANGED <<handler[s], relayOut[s]>>
    BY <1>9 DEF Reader, ReaderReads, ReaderSends, ReaderEnds, relayVars
  <2>2. /\ reader[s][r] \in {"read", "send"} 
        /\ \E v \in {"read", "send", "end"} : reader'[s] = [reader[s] EXCEPT ![r] = v]
    BY <1>5, <1>9 DEF Reader, ReaderReads, ReaderSends, ReaderEnds, Set2
  <2>3. handler'[s] # "end" =>
                \A i \in 1..Len(log'[s]) : log'[s][i].what \notin {"ok", "error"}
    BY <1>6, <1>9, <2>1 DEF Moves
  <2> QED  BY <1>2, <1>5, <2>1, <2>2, <2>3 DEF ThreadsDone, Streams
<1>10. CASE RelayOut(s)
  <2>1. UNCHANGED <<handler[s], reader[s]>>
    BY <1>10 DEF RelayOut, RelayReads, RelaySends, RelayEnds, commandVars
  <2>2. relayOut[s] \in {"read", "send"} /\ relayOut'[s] \in {"read", "send", "end"}
    BY <1>5, <1>10 DEF RelayOut, RelayReads, RelaySends, RelayEnds, Set
  <2>3. handler'[s] # "end" =>
                \A i \in 1..Len(log'[s]) : log'[s][i].what \notin {"ok", "error"}
    BY <1>6, <1>10, <2>1 DEF Moves
  <2> QED  BY <1>2, <2>1, <2>2, <2>3 DEF ThreadsDone
<1>11. CASE \/ Client(s) \/ Killed(s) \/ Type(s) \/ TypeEof(s) \/ TypeDetach(s) \/ ShutDown(s)
            \/ Command(s) \/ RelayIn(s)
  BY <1>3, <1>11 DEF Client, Receive, ReceiveFails, Killed, Quit, Type, TypeEof, TypeDetach, ShutDown,
       Command, ChildExits, ChildWrites, ChildBreaks, RelayIn, InputRelay, InputRelayEnds,
       socketVars, commandVars, relayVars
<1> QED  BY <1>1, <1>4, <1>7, <1>8, <1>9, <1>10, <1>11 DEF Moves

(* What was sent stays sent, and who has left does not return. *)
LEMMA SentStays ==
    ASSUME TypeOK, [Next]_vars, NEW s \in Sessions
    PROVE  /\ Sent(s) \subseteq Sent(s)' /\ (shut[s] => shut'[s])
           /\ \A m \in Messages : Says(s, m) => m \in Sent(s)'
<1>1. \A m \in Messages : Says(s, m) => Sent(s) \subseteq Sent(s)' /\ m \in Sent(s)'
  <2> SUFFICES ASSUME NEW m \in Messages, Says(s, m)
               PROVE  Sent(s) \subseteq Sent(s)' /\ m \in Sent(s)'
    OBVIOUS
  <2>1. Len(log[s]) \in Nat
    BY OwnTypes
  <2> QED  BY <2>1, Grown DEF Sent
<1>2. UNCHANGED log[s] => Sent(s) \subseteq Sent(s)'
  BY DEF Sent
<1>3. CASE Rests(s)
  BY <1>1, <1>2, <1>3 DEF Rests, OwnSocket
<1>4. CASE Moves(s)
  <2>1. Sent(s) \subseteq Sent(s)'
    BY <1>1, <1>2, <1>4, WhoSays, SaidIsMessage
  <2>2. shut[s] => shut'[s]
    <3>1. DOMAIN shut = Sessions
      BY DEF TypeOK, SocketTypeOK
    <3> QED  BY <1>4, <3>1 DEF Moves, Connect, Client, Receive, ReceiveFails, Killed, Quit, Type,
       TypeEof, TypeDetach, ShutDown, Handler, Unread, Announce, Spawn, SpawnFails, Wait, JoinStdout,
       JoinStderr, Answer, Attach, AttachFails, Greet, GreetFails, Waitpid, Join, AttachError,
       Command, ChildExits, ChildWrites, ChildBreaks, RelayOut, RelayReads, RelaySends, RelayEnds,
       RelayIn, InputRelay, InputRelayEnds, Reader, ReaderReads, ReaderSends, ReaderEnds,
       Event, Append1, socketVars, Set
  <2> QED  BY <1>1, <2>1, <2>2
<1> QED  BY <1>3, <1>4, MovesOrRests

(* Pipes are drained: a thread that has ended has sent all that it will. *)
LEMMA DrainedStep ==
    ASSUME TypeOK, [Next]_vars, NEW s \in Sessions, ThreadsDone(s), Drained(s)
    PROVE  Drained(s)'
<1> SUFFICES ASSUME NEW r \in Streams
             PROVE  /\ (child[s] = "none" <=> reader[s][r] = "none")'
                    /\ (~May("read") =>
                         /\ <<s, r>> \notin broken
                         /\ child[s] \in {"exited", "failed"} => written[s][r] = scenario.output
                         /\ reader[s][r] = "end" => /\ child[s] \in {"exited", "failed"}
                                                   /\ taken[s][r] = written[s][r]
                         /\ ~shut[s] => \A k \in 1..taken[s][r] :
                                           \/ Message(r, k) \in Sent(s)
                                           \/ k = taken[s][r] /\ reader[s][r] = "send")'
  BY DEF Drained
<1>1. UNCHANGED scenario /\ (Moves(s) \/ Rests(s))
  BY MovesOrRests
<1>2. (~May("read"))' <=> ~May("read")
  BY <1>1 DEF May
<1>3. Sent(s) \subseteq Sent(s)' /\ (shut[s] => shut'[s])
  BY SentStays
<1>4. /\ child[s] = "none" <=> reader[s][r] = "none"
      /\ ~May("read") =>
           /\ <<s, r>> \notin broken
           /\ child[s] \in {"exited", "failed"} => written[s][r] = scenario.output
           /\ reader[s][r] = "end" => /\ child[s] \in {"exited", "failed"}
                                     /\ taken[s][r] = written[s][r]
           /\ ~shut[s] => \A k \in 1..taken[s][r] :
                             \/ Message(r, k) \in Sent(s)
                             \/ k = taken[s][r] /\ reader[s][r] = "send"
  BY DEF Drained
<1>5. CASE UNCHANGED OwnCommand(s) /\ ((<<s, r>> \in broken)' <=> <<s, r>> \in broken)
  BY <1>1, <1>2, <1>3, <1>4, <1>5 DEF OwnCommand
<1>6. CASE Rests(s)
  BY <1>5, <1>6 DEF Rests
<1>7. CASE Handler(s)
  BY <1>1, <1>2, <1>3, <1>4, <1>5, <1>7, HandlerMoves, ZenonT(60) DEF ThreadsDone, OwnCommand
<1>8. /\ child \in [Sessions -> {"none", "run", "exited", "failed"}]
      /\ written \in [Sessions -> [Streams -> 0..scenario.output]]
      /\ taken \in [Sessions -> [Streams -> 0..scenario.output]]
      /\ reader \in [Sessions -> [Streams -> {"none", "read", "send", "end"}]]
      /\ taken[s][r] \in Nat /\ written[s][r] \in Nat
  BY OwnTypes DEF TypeOK, CommandTypeOK
<1>9. CASE Command(s)
  <2>1. UNCHANGED <<reader[s], broken, log[s]>>
    BY <1>9 DEF Command, ChildExits, ChildWrites, ChildBreaks, socketVars
  <2>2. CASE ChildExits(s)
    <3>1. child[s] = "run" /\ child'[s] \in {"exited", "failed"}
      BY <1>8, <2>2 DEF ChildExits, Set
    <3>2. written[s][r] = scenario.output /\ UNCHANGED <<written, taken>>
      BY <2>2 DEF ChildExits
    <3> QED  BY <1>1, <1>2, <1>3, <1>4, <2>1, <3>1, <3>2
  <2>3. ASSUME NEW q \in Streams, ChildWrites(s, q)
        PROVE  /\ child[s] = "run" /\ UNCHANGED <<child, taken>>
    BY <2>3 DEF ChildWrites
  <2>4. ASSUME NEW q \in Streams, ChildBreaks(s, q)
        PROVE  /\ child[s] = "run" /\ May("read") /\ child'[s] \in {"run", "failed"}
    <3>1. child[s] = "run" /\ child'[s] \in {"run", "failed"} /\ reader[s][q] = "end"
      BY <1>8, <2>4 DEF ChildBreaks, Set
    <3> QED  BY <3>1 DEF Drained
  <2> QED  BY <1>1, <1>2, <1>3, <1>4, <1>9, <2>1, <2>2, <2>3, <2>4 DEF Command
<1>10. ASSUME NEW q \in Streams, Reader(s, q), q # r
       PROVE  UNCHANGED <<child[s], reader[s][r], written[s][r], taken[s][r]>>
              /\ ((<<s, r>> \in broken)' <=> <<s, r>> \in broken)
  BY <1>8, <1>10 DEF Reader, ReaderReads, ReaderSends, ReaderEnds, Set2
<1>11. CASE ReaderReads(s, r)
  <2>1. /\ reader[s][r] = "read" /\ reader'[s][r] = "send" /\ taken'[s][r] = taken[s][r] + 1
        /\ UNCHANGED <<broken, child, written>>
    BY <1>8, <1>11 DEF ReaderReads, Set2
  <2> QED  BY <1>1, <1>2, <1>3, <1>4, <1>8, <2>1, SMTT(60)
<1>12. CASE ReaderSends(s, r)
  <2>1. /\ reader[s][r] = "send" /\ reader'[s][r] = "read"
        /\ UNCHANGED <<broken, child, written, taken>>
    BY <1>8, <1>12 DEF ReaderSends, Set2
  <2>2. ~shut'[s] => Message(r, taken[s][r]) \in Sent(s)'
    BY <1>12, SaidOrIgnored, SaidIsMessage, SentStays DEF ReaderSends, Ignored, OwnSocket
  <2> QED  BY <1>1, <1>2, <1>3, <1>4, <1>8, <2>1, <2>2
<1>13. CASE ReaderEnds(s, r)
  <2>1. /\ reader[s][r] = "read" /\ reader'[s][r] = "end" /\ UNCHANGED <<child, written, taken>>
        /\ \/ taken[s][r] = written[s][r] /\ child[s] \in {"exited", "failed"} /\ UNCHANGED broken
           \/ May("read")
    BY <1>8, <1>13 DEF ReaderEnds, Set2
  <2> QED  BY <1>1, <1>2, <1>3, <1>4, <2>1
<1>14. CASE \E q \in Streams : Reader(s, q)
  <2>1. CASE Reader(s, r)
    BY <2>1, <1>11, <1>12, <1>13 DEF Reader
  <2>2. ASSUME NEW q \in Streams \ {r}, Reader(s, q)
        PROVE  UNCHANGED <<child[s], reader[s][r], written[s][r], taken[s][r]>>
              /\ ((<<s, r>> \in broken)' <=> <<s, r>> \in broken)
    BY <1>10, <2>2
  <2> QED  BY <1>1, <1>2, <1>3, <1>4, <1>14, <2>1, <2>2
<1>15. CASE \/ Connect(s) \/ Client(s) \/ Killed(s) \/ Type(s) \/ TypeEof(s) \/ TypeDetach(s)
            \/ ShutDown(s) \/ RelayOut(s) \/ RelayIn(s)
  <2>1. UNCHANGED commandVars
    BY <1>15 DEF Connect, Client, Receive, ReceiveFails, Killed, Quit, Type, TypeEof, TypeDetach,
       ShutDown, RelayOut, RelayReads, RelaySends, RelayEnds, RelayIn, InputRelay, InputRelayEnds
  <2> QED  BY <1>5, <2>1 DEF commandVars, OwnCommand
<1> QED  BY <1>1, <1>6, <1>7, <1>9, <1>14, <1>15 DEF Moves

(* A console is read on, and only the relay that takes a chunk has it in hand. *)
LEMMA ConsoleReadOn ==
    ASSUME TypeOK, [Next]_vars
    PROVE  /\ \A c \in Consoles : /\ next[c] \in Nat /\ next'[c] \in Nat /\ next[c] <= next'[c]
           /\ UNCHANGED next \/ \E s \in Sessions : RelayReads(s)
<1>1. scenario.output \in Nat /\ scenario'.output \in Nat
  BY ScenarioType, TypeStep DEF TypeOK
<1>2. \A c \in Consoles : next[c] \in Nat /\ next'[c] \in Nat
  BY <1>1, TypeStep DEF TypeOK, ConsoleTypeOK
<1>3. next \in [Consoles -> 0..scenario.output]
  BY DEF TypeOK, ConsoleTypeOK
<1>4. UNCHANGED next \/ \E s \in Sessions : RelayReads(s)
  <2>1. CASE \E s \in Sessions : Moves(s) /\ ~RelayReads(s)
    <3> SUFFICES ASSUME NEW s \in Sessions, Moves(s), ~RelayReads(s)
                 PROVE  UNCHANGED next
      BY <2>1
    <3>1. CASE Handler(s)
      BY <3>1, HandlerMoves
    <3>2. CASE ~Handler(s)
      BY <3>2 DEF Moves, Connect, Client, Receive, ReceiveFails, Killed, Quit, Type,
         TypeEof, TypeDetach, ShutDown, Command, ChildExits, ChildWrites, ChildBreaks, RelayOut,
         RelaySends, RelayEnds, RelayIn, InputRelay, InputRelayEnds, Reader, ReaderReads,
         ReaderSends, ReaderEnds, consoleVars
    <3> QED  BY <3>1, <3>2
  <2>2. CASE UNCHANGED vars \/ \E c \in Consoles : ConsoleWrites(c) \/ ConsoleEnds(c)
    BY <2>2 DEF ConsoleWrites, ConsoleEnds, vars, consoleVars
  <2> QED  BY <2>1, <2>2 DEF Next, Moves, RelayOut
<1>5. ASSUME NEW s \in Sessions, RelayReads(s)
      PROVE  \A c \in Consoles : next[c] <= next'[c]
  <2>1. next' = [next EXCEPT ![Console(s)] = next[Console(s)] + 1]
    BY <1>5 DEF RelayReads, Set
  <2> QED  BY <1>2, <1>3, <2>1
<1> QED  BY <1>2, <1>4, <1>5

(* Only what has been read is sent, and in the order it was read. *)
LEMMA SentWasReadStep ==
    ASSUME TypeOK, [Next]_vars, NEW s \in Sessions, ThreadsDone(s), SentWasRead(s)
    PROVE  SentWasRead(s)'
<1> DEFINE c == Console(s)
<1>1. UNCHANGED scenario /\ (Moves(s) \/ Rests(s)) /\ UNCHANGED c
  BY MovesOrRests DEF Console
<1>2. next[c] \in Nat /\ next'[c] \in Nat /\ next[c] <= next'[c] /\ c \in Consoles
  BY OwnTypes, ConsoleReadOn
<1>3. /\ hand[s] \in Nat /\ \A r \in Streams : taken[s][r] \in Nat
      /\ Len(log[s]) \in Nat /\ \A i \in 1..Len(log[s]) : log[s][i].n \in Nat
  <2>1. log[s] \in Seq(Messages)
    BY OwnTypes
  <2>2. \A i \in 1..Len(log[s]) : log[s][i] \in Messages
    BY <2>1
  <2> QED  BY <2>2, OwnTypes DEF Messages
<1>4. SentWasRead(s)' <=>
         /\ \A r \in Streams : \A i \in 1..Len(log'[s]) :
               log'[s][i].what = r =>
                  /\ log'[s][i].n <= taken'[s][r]
                  /\ reader'[s][r] = "send" => log'[s][i].n < taken'[s][r]
         /\ \A i \in 1..Len(log'[s]) :
               log'[s][i].what = "console" =>
                  /\ log'[s][i].n <= next'[c]
                  /\ relayOut'[s] = "send" => log'[s][i].n < hand'[s]
         /\ hand'[s] <= next'[c] /\ (relayOut'[s] = "send" <=> hand'[s] # 0)
  BY <1>1 DEF SentWasRead
<1>5. /\ \A r \in Streams : \A i \in 1..Len(log[s]) :
            log[s][i].what = r =>
               /\ log[s][i].n <= taken[s][r]
               /\ reader[s][r] = "send" => log[s][i].n < taken[s][r]
      /\ \A i \in 1..Len(log[s]) :
            log[s][i].what = "console" =>
               /\ log[s][i].n <= next[c]
               /\ relayOut[s] = "send" => log[s][i].n < hand[s]
      /\ hand[s] <= next[c] /\ (relayOut[s] = "send" <=> hand[s] # 0)
  BY DEF SentWasRead
<1> HIDE DEF c
<1>6. CASE UNCHANGED <<log[s], taken[s], reader[s], relayOut[s], hand[s]>>
  BY <1>2, <1>3, <1>4, <1>5, <1>6
<1>7. CASE Rests(s)
  BY <1>6, <1>7 DEF Rests, OwnSocket, OwnCommand, OwnRelay
<1>8. ASSUME NEW what \in {"command", "ok", "error", "login", "serial"},
             UNCHANGED log[s] \/ Says(s, Message(what, 0)), Message(what, 0) \in Messages,
             UNCHANGED <<taken[s], hand[s]>>,
             \A r \in Streams : reader'[s][r] = "send" => reader[s][r] = "send",
             relayOut'[s] = "send" <=> relayOut[s] = "send"
      PROVE  SentWasRead(s)'
  <2>1. CASE UNCHANGED log[s]
    BY <1>2, <1>3, <1>4, <1>5, <1>8, <2>1
  <2>2. CASE Says(s, Message(what, 0))
    <3> DEFINE m == Message(what, 0)
    <3>1. m.what = what /\ what \notin Streams \union {"console"}
      BY MessageParts DEF Streams
    <3>2. \A i \in 1..Len(log'[s]) :
            log'[s][i] = m \/ (i \in 1..Len(log[s]) /\ log'[s][i] = log[s][i])
      BY <1>8, <2>2, Grown
    <3> HIDE DEF m
    <3>3. \A r \in Streams : \A i \in 1..Len(log'[s]) :
             log'[s][i].what = r =>
                /\ log'[s][i].n <= taken'[s][r]
                /\ reader'[s][r] = "send" => log'[s][i].n < taken'[s][r]
      BY <1>5, <1>8, <3>1, <3>2
    <3>4. \A i \in 1..Len(log'[s]) :
             log'[s][i].what = "console" =>
                /\ log'[s][i].n <= next'[c]
                /\ relayOut'[s] = "send" => log'[s][i].n < hand'[s]
      BY <1>2, <1>3, <1>5, <1>8, <3>1, <3>2
    <3> QED  BY <1>2, <1>3, <1>4, <1>5, <1>8, <3>3, <3>4
  <2> QED  BY <1>8, <2>1, <2>2
<1>9. CASE Handler(s)
  <2>1. /\ UNCHANGED <<taken[s], hand[s]>>
        /\ \A r \in Streams : reader'[s][r] = "send" => reader[s][r] = "send"
        /\ relayOut'[s] = "send" <=> relayOut[s] = "send"
    BY <1>9, HandlerMoves DEF OwnCommand, OwnRelay, ThreadsDone
  <2> QED  BY <1>8, <1>9, <2>1, HandlerSays, SaidIsMessage
<1>10. ASSUME NEW q \in Streams, Reader(s, q)
       PROVE  SentWasRead(s)'
  <2>0. /\ taken \in [Sessions -> [Streams -> 0..scenario.output]]
        /\ reader \in [Sessions -> [Streams -> {"none", "read", "send", "end"}]]
    BY DEF TypeOK, CommandTypeOK
  <2>1. UNCHANGED <<relayOut[s], hand[s]>>
    BY <1>10 DEF Reader, ReaderReads, ReaderSends, ReaderEnds, relayVars
  <2>2. CASE ReaderReads(s, q)
    <3>1. /\ UNCHANGED log[s] /\ taken'[s] = [taken[s] EXCEPT ![q] = taken[s][q] + 1]
          /\ reader'[s] = [reader[s] EXCEPT ![q] = "send"]
      BY <2>0, <2>2 DEF ReaderReads, Set2, socketVars
    <3>2. \A r \in Streams \ {q} : taken'[s][r] = taken[s][r] /\ reader'[s][r] = reader[s][r]
      BY <2>0, <3>1
    <3>3. taken'[s][q] = taken[s][q] + 1 /\ reader'[s][q] = "send"
      BY <2>0, <3>1
    <3>4. ASSUME NEW r \in Streams, NEW i \in 1..Len(log'[s]), log'[s][i].what = r
          PROVE  /\ log'[s][i].n <= taken'[s][r]
                 /\ reader'[s][r] = "send" => log'[s][i].n < taken'[s][r]
      <4>1. /\ log[s][i].n \in Nat /\ log[s][i].n <= taken[s][r]
            /\ reader[s][r] = "send" => log[s][i].n < taken[s][r]
        BY <1>3, <1>5, <3>1, <3>4
      <4>2. CASE r = q
        BY <1>3, <3>1, <3>3, <4>1, <4>2
      <4>3. CASE r # q
        BY <3>1, <3>2, <4>1, <4>3
      <4> QED  BY <4>2, <4>3
    <3>5. \A i \in 1..Len(log'[s]) :
             log'[s][i].what = "console" =>
                /\ log'[s][i].n <= next'[c]
                /\ relayOut'[s] = "send" => log'[s][i].n < hand'[s]
      BY <1>2, <1>3, <1>5, <2>1, <3>1
    <3>6. hand'[s] <= next'[c] /\ (relayOut'[s] = "send" <=> hand'[s] # 0)
      BY <1>2, <1>3, <1>5, <2>1
    <3> QED  BY <1>4, <3>4, <3>5, <3>6
  <2>3. CASE ReaderEnds(s, q)
    <3>1. /\ UNCHANGED <<log[s], taken>> /\ reader'[s] = [reader[s] EXCEPT ![q] = "end"]
      BY <2>0, <2>3 DEF ReaderEnds, Set2, socketVars
    <3>2. \A r \in Streams : reader'[s][r] \in {reader[s][r], "end"}
      BY <2>0, <3>1
    <3> QED  BY <1>2, <1>3, <1>4, <1>5, <2>1, <3>1, <3>2
  <2>4. CASE ReaderSends(s, q)
    <3>1. /\ UNCHANGED taken /\ reader'[s] = [reader[s] EXCEPT ![q] = "read"]
          /\ UNCHANGED log[s] \/ Says(s, Message(q, taken[s][q]))
      BY <2>0, <2>4, SaidOrIgnored DEF ReaderSends, Set2, Ignored, OwnSocket
    <3>2. \A r \in Streams : reader'[s][r] = IF r = q THEN "read" ELSE reader[s][r]
      BY <2>0, <3>1
    <3>3. CASE UNCHANGED log[s]
      BY <1>2, <1>3, <1>4, <1>5, <2>1, <3>1, <3>2, <3>3
    <3>4. CASE Says(s, Message(q, taken[s][q]))
      <4> DEFINE m == Message(q, taken[s][q])
      <4>1. m.what = q /\ m.n = taken[s][q] /\ q # "console"
        BY MessageParts DEF Streams
      <4>2. \A i \in 1..Len(log'[s]) :
              log'[s][i] = m \/ (i \in 1..Len(log[s]) /\ log'[s][i] = log[s][i])
        BY <3>4, Grown, SaidIsMessage
      <4> HIDE DEF m
      <4>3. \A r \in Streams : \A i \in 1..Len(log'[s]) :
               log'[s][i].what = r =>
                  /\ log'[s][i].n <= taken'[s][r]
                  /\ reader'[s][r] = "send" => log'[s][i].n < taken'[s][r]
        BY <1>3, <1>5, <3>1, <3>2, <4>1, <4>2
      <4>4. \A i \in 1..Len(log'[s]) :
               log'[s][i].what = "console" =>
                  /\ log'[s][i].n <= next'[c]
                  /\ relayOut'[s] = "send" => log'[s][i].n < hand'[s]
        BY <1>2, <1>3, <1>5, <2>1, <4>1, <4>2, SMTT(60)
      <4> QED  BY <1>2, <1>3, <1>4, <1>5, <2>1, <4>3, <4>4
    <3> QED  BY <3>1, <3>3, <3>4
  <2> QED  BY <1>10, <2>2, <2>3, <2>4 DEF Reader
<1>11. CASE RelayOut(s)
  <2>0. /\ relayOut \in [Sessions -> {"none", "read", "send", "end"}]
        /\ hand \in [Sessions -> Nat]
        /\ next \in [Consoles -> 0..scenario.output]
    BY DEF TypeOK, RelayTypeOK, ConsoleTypeOK
  <2>1. UNCHANGED <<taken[s], reader[s]>>
    BY <1>11 DEF RelayOut, RelayReads, RelaySends, RelayEnds, commandVars
  <2>2. CASE RelayReads(s)
    <3>1. /\ UNCHANGED log[s] /\ relayOut'[s] = "send"
          /\ hand'[s] = next[c] + 1 /\ next'[c] = next[c] + 1
      BY <1>2, <2>0, <2>2 DEF RelayReads, Set, socketVars, c
    <3> QED  BY <1>2, <1>3, <1>4, <1>5, <2>1, <3>1
  <2>3. CASE RelayEnds(s)
    <3>1. /\ UNCHANGED <<log[s], hand[s]>> /\ relayOut[s] = "read" /\ relayOut'[s] = "end"
      BY <2>0, <2>3 DEF RelayEnds, Set, socketVars
    <3> QED  BY <1>2, <1>3, <1>4, <1>5, <2>1, <3>1
  <2>4. CASE RelaySends(s)
    <3>1. /\ hand'[s] = 0 /\ relayOut[s] = "send" /\ relayOut'[s] # "send"
          /\ UNCHANGED log[s] \/ Says(s, Message("console", hand[s]))
      BY <2>0, <2>4, SaidOrIgnored DEF RelaySends, Set, Ignored, OwnSocket
    <3>2. CASE UNCHANGED log[s]
      BY <1>2, <1>3, <1>4, <1>5, <2>1, <3>1, <3>2
    <3>3. CASE Says(s, Message("console", hand[s]))
      <4> DEFINE m == Message("console", hand[s])
      <4>1. m.what = "console" /\ m.n = hand[s] /\ "console" \notin Streams
        BY MessageParts DEF Streams
      <4>2. \A i \in 1..Len(log'[s]) :
              log'[s][i] = m \/ (i \in 1..Len(log[s]) /\ log'[s][i] = log[s][i])
        BY <3>3, Grown, SaidIsMessage
      <4> HIDE DEF m
      <4>3. \A r \in Streams : \A i \in 1..Len(log'[s]) :
               log'[s][i].what = r =>
                  /\ log'[s][i].n <= taken'[s][r]
                  /\ reader'[s][r] = "send" => log'[s][i].n < taken'[s][r]
        BY <1>5, <2>1, <4>1, <4>2
      <4>4. \A i \in 1..Len(log'[s]) :
               log'[s][i].what = "console" =>
                  /\ log'[s][i].n <= next'[c]
                  /\ relayOut'[s] = "send" => log'[s][i].n < hand'[s]
        BY <1>2, <1>3, <1>5, <3>1, <4>1, <4>2
      <4> QED  BY <1>2, <1>3, <1>4, <1>5, <2>1, <3>1, <4>3, <4>4
    <3> QED  BY <3>1, <3>2, <3>3
  <2> QED  BY <1>11, <2>2, <2>3, <2>4 DEF RelayOut
<1>12. CASE Command(s)
  <2>1. UNCHANGED <<log[s], reader[s], relayOut[s], hand[s]>>
    BY <1>12 DEF Command, ChildExits, ChildWrites, ChildBreaks, socketVars, relayVars
  <2>2. \A r \in Streams : taken'[s][r] \in Nat /\ taken[s][r] <= taken'[s][r]
    <3>0. /\ taken \in [Sessions -> [Streams -> 0..scenario.output]]
          /\ \A r \in Streams : taken[s][r] <= written[s][r] /\ written[s][r] \in Nat
      BY OwnTypes DEF TypeOK, CommandTypeOK
    <3>1. \/ UNCHANGED taken
          \/ \E q \in Streams : taken' = Set2(taken, s, q, written[s][q] + 1)
      BY <1>12 DEF Command, ChildExits, ChildWrites, ChildBreaks
    <3>2. CASE UNCHANGED taken
      BY <1>3, <3>2
    <3>3. ASSUME NEW q \in Streams, taken' = Set2(taken, s, q, written[s][q] + 1)
          PROVE  \A r \in Streams : taken'[s][r] \in Nat /\ taken[s][r] <= taken'[s][r]
      <4>1. \A r \in Streams :
               taken'[s][r] = IF r = q THEN written[s][q] + 1 ELSE taken[s][r]
        BY <3>0, <3>3 DEF Set2
      <4> QED  BY <1>3, <3>0, <4>1
    <3> QED  BY <3>1, <3>2, <3>3
  <2> QED  BY <1>2, <1>3, <1>4, <1>5, <2>1, <2>2, SMTT(60)
<1>13. CASE Connect(s) \/ Client(s) \/ Killed(s) \/ Type(s) \/ TypeEof(s) \/ TypeDetach(s)
            \/ ShutDown(s) \/ RelayIn(s)
  BY <1>6, <1>13 DEF Connect, Client, Receive, ReceiveFails, Killed, Quit, Type, TypeEof, TypeDetach,
     ShutDown, RelayIn, InputRelay, InputRelayEnds, socketVars, commandVars, relayVars
<1> QED  BY <1>1, <1>7, <1>9, <1>10, <1>11, <1>12, <1>13 DEF Moves

(* What is typed, and where it arrives: at the end, or from the front. *)
LEMMA InputMoves ==
    ASSUME TypeOK, [Next]_vars, NEW s \in Sessions
    PROVE  /\ \/ UNCHANGED <<inbox[s], typed[s]>>
              \/ typed'[s] = typed[s] + 1 /\ inbox'[s] \in {inbox[s], Append(inbox[s], typed[s] + 1)}
              \/ UNCHANGED typed[s] /\ inbox'[s] = Append(inbox[s], 0)
              \/ UNCHANGED typed[s] /\ inbox[s] # <<>> /\ inbox'[s] = Tail(inbox[s])
           /\ \/ UNCHANGED keys
              \/ \E t \in Sessions :
                    /\ Head(inbox[t]) > 0 /\ inbox[t] # <<>> /\ inbox'[t] = Tail(inbox[t])
                    /\ UNCHANGED typed
                    /\ keys' = [keys EXCEPT ![Console(t)] =
                                   Append(keys[Console(t)], <<t, Head(inbox[t])>>)]
<1>1. typed \in [Sessions -> Nat] /\ inbox \in [Sessions -> Seq(Nat)]
  BY DEF TypeOK, ClientTypeOK, SocketTypeOK
<1>2. \/ UNCHANGED <<inbox[s], typed[s]>>
      \/ typed'[s] = typed[s] + 1 /\ inbox'[s] \in {inbox[s], Append(inbox[s], typed[s] + 1)}
      \/ UNCHANGED typed[s] /\ inbox'[s] = Append(inbox[s], 0)
      \/ UNCHANGED typed[s] /\ inbox[s] # <<>> /\ inbox'[s] = Tail(inbox[s])
  <2>1. CASE Rests(s)
    BY <2>1 DEF Rests, OwnClient, OwnSocket
  <2>2. CASE Type(s)
    BY <1>1, <2>2 DEF Type, Set
  <2>3. CASE TypeEof(s)
    BY <1>1, <2>3 DEF TypeEof, Set
  <2>4. CASE RelayIn(s)
    BY <1>1, <2>4 DEF RelayIn, InputRelay, InputRelayEnds, Set, clientVars, socketVars
  <2>5. CASE Handler(s) \/ RelayOut(s) \/ \E r \in Streams : Reader(s, r)
    <3>1. UNCHANGED typed[s]
      BY <2>5, HandlerMoves DEF OwnClient, RelayOut, RelayReads, RelaySends, RelayEnds, Reader,
         ReaderReads, ReaderSends, ReaderEnds, clientVars
    <3>2. UNCHANGED inbox
      BY <2>5 DEF Handler, Unread, Announce, Spawn, SpawnFails, Wait, JoinStdout, JoinStderr, Answer, Attach,
         AttachFails, Greet, GreetFails, Waitpid, Join, AttachError, RelayOut, RelayReads,
         RelaySends, RelayEnds, Reader, ReaderReads, ReaderSends, ReaderEnds, Event, Append1,
         socketVars
    <3> QED  BY <3>1, <3>2
  <2>6. CASE Connect(s) \/ Client(s) \/ Killed(s) \/ TypeDetach(s) \/ ShutDown(s) \/ Command(s)
    BY <2>6 DEF Connect, Client, Receive, ReceiveFails, Killed, Quit, TypeDetach, ShutDown,
       Command, ChildExits, ChildWrites, ChildBreaks, clientVars, socketVars
  <2> QED  BY <2>1, <2>2, <2>3, <2>4, <2>5, <2>6, MovesOrRests DEF Moves
<1>3. \/ UNCHANGED keys
      \/ \E t \in Sessions :
            /\ Head(inbox[t]) > 0 /\ inbox[t] # <<>> /\ inbox'[t] = Tail(inbox[t])
            /\ UNCHANGED typed
            /\ keys' = [keys EXCEPT ![Console(t)] =
                           Append(keys[Console(t)], <<t, Head(inbox[t])>>)]
  <2>1. ASSUME NEW t \in Sessions, RelayIn(t)
        PROVE  \/ UNCHANGED keys
               \/ /\ Head(inbox[t]) > 0 /\ inbox[t] # <<>> /\ inbox'[t] = Tail(inbox[t])
                  /\ UNCHANGED typed
                  /\ keys' = [keys EXCEPT ![Console(t)] =
                                 Append(keys[Console(t)], <<t, Head(inbox[t])>>)]
    BY <1>1, <2>1 DEF RelayIn, InputRelay, InputRelayEnds, Set, consoleVars, clientVars
  <2>2. ASSUME NEW t \in Sessions, Moves(t), ~RelayIn(t)
        PROVE  UNCHANGED keys
    BY <2>2, HandlerMoves DEF Moves, Connect, Client, Receive, ReceiveFails, Killed, Quit, Type,
         TypeEof, TypeDetach, ShutDown, Command, ChildExits, ChildWrites, ChildBreaks, RelayOut,
         RelayReads, RelaySends, RelayEnds, Reader, ReaderReads, ReaderSends, ReaderEnds, consoleVars
  <2>3. CASE UNCHANGED vars \/ \E c \in Consoles : ConsoleWrites(c) \/ ConsoleEnds(c)
    BY <2>3 DEF ConsoleWrites, ConsoleEnds, vars, consoleVars
  <2> QED  BY <2>1, <2>2, <2>3 DEF Next, Moves
<1> QED  BY <1>2, <1>3

(* What is on its way, and what has arrived, is in the order it was typed. *)
LEMMA TypedInOrderStep ==
    ASSUME TypeOK, [Next]_vars, NEW s \in Sessions, TypedInOrder(s)
    PROVE  TypedInOrder(s)'
<1>1. /\ typed[s] \in Nat /\ inbox[s] \in Seq(Nat) /\ Len(inbox[s]) \in Nat
      /\ \A i \in 1..Len(inbox[s]) : inbox[s][i] \in Nat
      /\ keys \in [Consoles -> Seq(Sessions \X Nat)]
  <2>1. typed[s] \in Nat /\ inbox[s] \in Seq(Nat)
    BY OwnTypes
  <2>2. keys \in [Consoles -> Seq(Sessions \X Nat)]
    BY DEF TypeOK, ConsoleTypeOK
  <2> QED  BY <2>1, <2>2
<1>2. \A c \in Consoles : \A i \in 1..Len(keys[c]) : keys[c][i][2] \in Nat
  <2> TAKE c \in Consoles
  <2>1. keys[c] \in Seq(Sessions \X Nat)
    BY <1>1
  <2> QED  BY <2>1
<1>3. \A i, j \in 1..Len(inbox[s]) :
         /\ inbox[s][i] <= typed[s]
         /\ i < j => inbox[s][j] = 0 \/ inbox[s][i] < inbox[s][j]
  BY DEF TypedInOrder
<1>4. \A c \in Consoles : \A i \in 1..Len(keys[c]) :
         keys[c][i][1] = s =>
            /\ keys[c][i][2] <= typed[s]
            /\ \A j \in 1..Len(inbox[s]) : inbox[s][j] = 0 \/ keys[c][i][2] < inbox[s][j]
  BY DEF TypedInOrder
<1>0. /\ typed[s] \in Nat /\ Len(inbox[s]) \in Nat
      /\ \A i \in 1..Len(inbox[s]) : inbox[s][i] \in Nat
  BY <1>1
<1>5. ASSUME UNCHANGED typed[s], inbox[s] # <<>>, inbox'[s] = Tail(inbox[s])
      PROVE  /\ Len(inbox'[s]) \in Nat
             /\ \A i \in 1..Len(inbox'[s]) : /\ i \in 1..Len(inbox[s]) /\ i + 1 \in 1..Len(inbox[s])
                                             /\ inbox'[s][i] = inbox[s][i + 1]
             /\ 1 \in 1..Len(inbox[s]) /\ Head(inbox[s]) = inbox[s][1]
  <2> DEFINE b == inbox[s]
  <2>1. b \in Seq(Nat) /\ b # <<>> /\ inbox'[s] = Tail(b)
    BY <1>1, <1>5
  <2> HIDE DEF b
  <2>2. /\ Len(Tail(b)) \in Nat
        /\ \A i \in 1..Len(Tail(b)) : i \in 1..Len(b) /\ i + 1 \in 1..Len(b) /\ Tail(b)[i] = b[i + 1]
        /\ 1 \in 1..Len(b) /\ Head(b) = b[1]
    BY <2>1
  <2> QED  BY <2>1, <2>2 DEF b
<1>6. ASSUME NEW k \in Nat, inbox'[s] = Append(inbox[s], k)
      PROVE  /\ Len(inbox'[s]) = Len(inbox[s]) + 1
             /\ \A i \in 1..Len(inbox'[s]) : \/ i \in 1..Len(inbox[s]) /\ inbox'[s][i] = inbox[s][i]
                                             \/ i = Len(inbox[s]) + 1 /\ inbox'[s][i] = k
  BY <1>1, <1>6
<1>7. /\ typed'[s] \in Nat /\ typed[s] <= typed'[s]
      /\ Len(inbox'[s]) \in Nat
      /\ \A i, j \in 1..Len(inbox'[s]) :
            /\ inbox'[s][i] <= typed'[s]
            /\ i < j => inbox'[s][j] = 0 \/ inbox'[s][i] < inbox'[s][j]
      /\ \A n \in Nat : (/\ n <= typed[s]
                         /\ \A j \in 1..Len(inbox[s]) : inbox[s][j] = 0 \/ n < inbox[s][j])
                       => \A j \in 1..Len(inbox'[s]) : inbox'[s][j] = 0 \/ n < inbox'[s][j]
  <2>1. CASE UNCHANGED <<inbox[s], typed[s]>>
    BY <1>0, <1>3, <2>1
  <2>2. CASE typed'[s] = typed[s] + 1 /\ inbox'[s] = inbox[s]
    BY <1>0, <1>3, <2>2
  <2>3. CASE typed'[s] = typed[s] + 1 /\ inbox'[s] = Append(inbox[s], typed[s] + 1)
    <3>1. typed[s] + 1 \in Nat
      BY <1>0
    <3>2. /\ Len(inbox'[s]) = Len(inbox[s]) + 1
          /\ \A i \in 1..Len(inbox'[s]) : \/ i \in 1..Len(inbox[s]) /\ inbox'[s][i] = inbox[s][i]
                                          \/ i = Len(inbox[s]) + 1 /\ inbox'[s][i] = typed[s] + 1
      BY <1>6, <2>3, <3>1
    <3> QED  BY <1>0, <1>3, <2>3, <3>2, SMTT(60)
  <2>4. CASE UNCHANGED typed[s] /\ inbox'[s] = Append(inbox[s], 0)
    <3>1. /\ Len(inbox'[s]) = Len(inbox[s]) + 1
          /\ \A i \in 1..Len(inbox'[s]) : \/ i \in 1..Len(inbox[s]) /\ inbox'[s][i] = inbox[s][i]
                                          \/ i = Len(inbox[s]) + 1 /\ inbox'[s][i] = 0
      BY <1>6, <2>4
    <3> QED  BY <1>0, <1>3, <2>4, <3>1
  <2>5. CASE UNCHANGED typed[s] /\ inbox[s] # <<>> /\ inbox'[s] = Tail(inbox[s])
    BY <1>0, <1>3, <1>5, <2>5, SMTT(60)
  <2> QED  BY <2>1, <2>2, <2>3, <2>4, <2>5, InputMoves
<1>8. \A c \in Consoles : \A i \in 1..Len(keys[c]) :
         keys[c][i][1] = s =>
            /\ keys[c][i][2] <= typed'[s]
            /\ \A j \in 1..Len(inbox'[s]) : inbox'[s][j] = 0 \/ keys[c][i][2] < inbox'[s][j]
  <2> SUFFICES ASSUME NEW c \in Consoles, NEW i \in 1..Len(keys[c]), keys[c][i][1] = s
               PROVE  /\ keys[c][i][2] <= typed'[s]
                      /\ \A j \in 1..Len(inbox'[s]) :
                            inbox'[s][j] = 0 \/ keys[c][i][2] < inbox'[s][j]
    OBVIOUS
  <2> DEFINE n == keys[c][i][2]
  <2>1. /\ n \in Nat /\ n <= typed[s]
        /\ \A j \in 1..Len(inbox[s]) : inbox[s][j] = 0 \/ n < inbox[s][j]
    BY <1>2, <1>4
  <2> HIDE DEF n
  <2>2. n <= typed'[s]
    BY <1>0, <1>7, <2>1
  <2>3. \A j \in 1..Len(inbox'[s]) : inbox'[s][j] = 0 \/ n < inbox'[s][j]
    BY ONLY <1>7, <2>1
  <2> QED  BY <2>2, <2>3 DEF n
<1>9. CASE UNCHANGED keys
  BY <1>7, <1>8, <1>9 DEF TypedInOrder
<1>10. ASSUME NEW t \in Sessions, Head(inbox[t]) > 0, inbox[t] # <<>>, inbox'[t] = Tail(inbox[t]),
              UNCHANGED typed,
              keys' = [keys EXCEPT ![Console(t)] = Append(keys[Console(t)], <<t, Head(inbox[t])>>)]
       PROVE  TypedInOrder(s)'
  <2> DEFINE h == Head(inbox[t])
  <2>1. h \in Nat /\ Console(t) \in Consoles
    <3>1. inbox[t] \in Seq(Nat) /\ Console(t) \in Consoles
      BY OwnTypes
    <3> QED  BY <1>10, <3>1
  <2>2. \A c \in Consoles : \A i \in 1..Len(keys'[c]) :
           \/ i \in 1..Len(keys[c]) /\ keys'[c][i] = keys[c][i]
           \/ keys'[c][i] = <<t, h>>
    <3> TAKE c \in Consoles
    <3>1. keys[c] \in Seq(Sessions \X Nat) /\ <<t, h>> \in Sessions \X Nat
      BY <1>1, <2>1
    <3>2. keys'[c] = keys[c] \/ keys'[c] = Append(keys[c], <<t, h>>)
      BY <1>1, <1>10
    <3> HIDE DEF h
    <3>3. CASE keys'[c] = keys[c]
      BY <3>3
    <3>4. CASE keys'[c] = Append(keys[c], <<t, h>>)
      <4> DEFINE k == keys[c]
                 e == <<t, h>>
      <4>1. k \in Seq(Sessions \X Nat) /\ e \in Sessions \X Nat /\ keys'[c] = Append(k, e)
        BY <3>1, <3>4
      <4> HIDE DEF k, e
      <4>2. \A i \in 1..Len(Append(k, e)) : \/ i \in 1..Len(k) /\ Append(k, e)[i] = k[i]
                                            \/ Append(k, e)[i] = e
        BY <4>1
      <4> QED  BY <4>1, <4>2 DEF k, e
    <3> QED  BY <3>2, <3>3, <3>4
  <2>3. t = s => /\ h <= typed'[s]
                 /\ \A j \in 1..Len(inbox'[s]) : inbox'[s][j] = 0 \/ h < inbox'[s][j]
    <3> SUFFICES ASSUME t = s
                 PROVE  /\ h <= typed'[s]
                        /\ \A j \in 1..Len(inbox'[s]) : inbox'[s][j] = 0 \/ h < inbox'[s][j]
      OBVIOUS
    <3>1. /\ \A i \in 1..Len(inbox'[s]) : i + 1 \in 1..Len(inbox[s]) /\ inbox'[s][i] = inbox[s][i + 1]
          /\ 1 \in 1..Len(inbox[s]) /\ h = inbox[s][1] /\ Len(inbox'[s]) \in Nat
      BY <1>5, <1>10
    <3>2. typed'[s] = typed[s]
      BY <1>10
    <3> HIDE DEF h
    <3> QED  BY <1>0, <1>3, <3>1, <3>2
  <2> HIDE DEF h
  <2>4. \A c \in Consoles : \A i \in 1..Len(keys'[c]) :
           keys'[c][i][1] = s =>
              /\ keys'[c][i][2] <= typed'[s]
              /\ \A j \in 1..Len(inbox'[s]) : inbox'[s][j] = 0 \/ keys'[c][i][2] < inbox'[s][j]
    BY <1>8, <2>2, <2>3
  <2> QED  BY <1>7, <2>4 DEF TypedInOrder
<1> QED  BY <1>9, <1>10, InputMoves

(* A dropped connection stays dropped. *)
LEMMA DroppedStays ==
    ASSUME TypeOK, [Next]_vars, NEW s \in Sessions,
           ThreadsDone(s), Drained(s), AnswersRead(s), Dropped(s)
    PROVE  Dropped(s)'
<1>1. UNCHANGED scenario /\ (Moves(s) \/ Rests(s)) /\ UNCHANGED Kind(s)
  BY MovesOrRests DEF Kind
<1>2. /\ handler[s] = "end" /\ (Kind(s) = "attach" \/ May("request"))
      /\ log[s] = <<>> /\ child[s] = "none" /\ relayOut[s] = "none"
  BY DEF Dropped
<1>3. \A r \in Streams : reader[s][r] = "none"
  BY <1>2 DEF Drained
<1>4. CASE Rests(s)
  BY <1>1, <1>2, <1>4 DEF Rests, OwnSocket, OwnHandler, OwnCommand, OwnRelay, Dropped, May
<1>5. CASE Moves(s)
  <2>1. ~Handler(s) /\ ~RelayOut(s) /\ ~Command(s) /\ ~Connect(s)
    BY <1>2, HandlerMoves DEF RelayOut, RelayReads, RelaySends, RelayEnds, Command, ChildExits,
       ChildWrites, ChildBreaks, Connect, AnswersRead
  <2>2. \A r \in Streams : ~Reader(s, r)
    BY <1>3 DEF Reader, ReaderReads, ReaderSends, ReaderEnds
  <2>3. UNCHANGED <<handler, log, child, relayOut>>
    BY <1>5, <2>1, <2>2 DEF Moves, Client, Receive, ReceiveFails, Killed, Quit, Type, TypeEof,
       TypeDetach, ShutDown, RelayIn, InputRelay, InputRelayEnds, commandVars, relayVars, socketVars
  <2> QED  BY <1>1, <1>2, <2>3 DEF Dropped, May
<1> QED  BY <1>1, <1>4, <1>5

(* A handler ends with an answer, or drops its connection. *)
LEMMA HandlerEnds ==
    ASSUME TypeOK, [Next]_vars, NEW s \in Sessions, ThreadsDone(s), Drained(s), AnswersTrue(s),
           Handler(s), handler'[s] = "end"
    PROVE  Answer(s) \/ Dropped(s)'
<1>1. UNCHANGED Kind(s) /\ UNCHANGED scenario
  BY MovesOrRests DEF Kind
<1>2. CASE Unread(s)
  <2>1. UNCHANGED <<log, child, relayOut>> /\ May("request") /\ handler[s] \in {"command", "attach"}
    BY <1>2 DEF Unread, socketVars, commandVars, relayVars
  <2>2. relayOut[s] = "none" /\ child[s] = "none" /\ log[s] = <<>>
    BY <1>2 DEF Unread, ThreadsDone, Drained, AnswersTrue, Streams
  <2> QED  BY <1>1, <2>1, <2>2 DEF Dropped, May
<1>3. CASE AttachFails(s) \/ GreetFails(s)
  <2>1. UNCHANGED <<log, child, relayOut>> /\ handler[s] \in {"attach", "greet"}
    BY <1>3 DEF AttachFails, GreetFails, AttachError, socketVars, commandVars, relayVars
  <2>2. Kind(s) = "attach"
    BY <1>3 DEF AttachFails, GreetFails, AttachError, Answering, Set, TypeOK, HandlerTypeOK
  <2>3. relayOut[s] = "none" /\ child[s] = "none" /\ log[s] = <<>>
    BY <2>1, <2>2 DEF ThreadsDone, AnswersTrue
  <2> QED  BY <1>1, <2>1, <2>2, <2>3 DEF Dropped
<1> QED  BY <1>2, <1>3 DEF Handler, Unread, Announce, Spawn, SpawnFails, Wait, JoinStdout, JoinStderr,
     Attach, Greet, Waitpid, Join, CommandDone, Goto, Answering, Set, TypeOK, HandlerTypeOK

(* A client that waits has not read its answer, and has left only to detach. *)
LEMMA AnswersReadStep ==
    ASSUME TypeOK, [Next]_vars, NEW s \in Sessions,
           ThreadsDone(s), Drained(s), AnswersRead(s), AnswersTrue(s)
    PROVE  AnswersRead(s)'
<1>1. UNCHANGED scenario /\ (Moves(s) \/ Rests(s)) /\ UNCHANGED Kind(s)
  BY MovesOrRests DEF Kind
<1>2. /\ read[s] \in Nat /\ Len(log[s]) \in Nat /\ read[s] <= Len(log[s])
      /\ shut[s] => shut'[s]
  BY OwnTypes, SentStays
<1>3. Answered(s) => Answered(s)'
  BY SentStays DEF Answered
<1>4. /\ client[s] = "idle" => handler[s] = "idle" /\ input[s] = "off" /\ ~shut[s]
      /\ client[s] = "wait" => \A i \in 1..read[s] : log[s][i].what \notin {"ok", "error"}
      /\ input[s] = "shut" => detached[s]
      /\ client[s] = "wait" /\ shut[s] => detached[s]
      /\ handler[s] = "end" => shut[s] \/ Answered(s) \/ Dropped(s)
  BY DEF AnswersRead
<1>5. /\ \A i \in 1..Len(log[s]) : log'[s][i] = log[s][i]
  BY <1>1, WhoSays, SaidIsMessage, Grown DEF Rests, OwnSocket
<1>6. /\ DOMAIN handler = Sessions /\ DOMAIN client = Sessions /\ DOMAIN input = Sessions
      /\ DOMAIN shut = Sessions /\ DOMAIN detached = Sessions /\ DOMAIN read = Sessions
      /\ DOMAIN relayOut = Sessions /\ DOMAIN mayDetach = Sessions
  BY DEF TypeOK, ClientTypeOK, SocketTypeOK, HandlerTypeOK, RelayTypeOK
<1>7. ASSUME UNCHANGED <<client[s], read[s]>>
      PROVE  client'[s] = "wait" => \A i \in 1..read'[s] : log'[s][i].what \notin {"ok", "error"}
  BY <1>2, <1>4, <1>5, <1>7
<1>8. ASSUME UNCHANGED handler[s]
      PROVE  handler'[s] = "end" => shut'[s] \/ Answered(s)' \/ Dropped(s)'
  BY <1>2, <1>3, <1>4, <1>8, DroppedStays
<1>9. AnswersRead(s)' <=>
      /\ client'[s] = "idle" => handler'[s] = "idle" /\ input'[s] = "off" /\ ~shut'[s]
      /\ client'[s] = "wait" => \A i \in 1..read'[s] : log'[s][i].what \notin {"ok", "error"}
      /\ input'[s] = "shut" => detached'[s]
      /\ client'[s] = "wait" /\ shut'[s] => detached'[s]
      /\ handler'[s] = "end" => shut'[s] \/ Answered(s)' \/ Dropped(s)'
  BY <1>1 DEF AnswersRead
<1>10. CASE Rests(s)
  BY <1>4, <1>7, <1>8, <1>9, <1>10 DEF Rests, OwnClient, OwnSocket, OwnHandler, OwnRelay
<1>11. CASE Connect(s)
  <2>1. /\ client[s] = "idle" /\ client'[s] = "wait" /\ input'[s] \in {"off", "type"}
        /\ handler'[s] \in {"attach", "command"} /\ UNCHANGED <<read[s], shut[s], detached[s]>>
    BY <1>6, <1>11 DEF Connect, Set, socketVars
  <2>2. \A i \in 1..read[s] : log[s][i].what \notin {"ok", "error"}
    BY <1>2, <1>4, <2>1 DEF ThreadsDone
  <2> QED  BY <1>2, <1>4, <1>5, <1>9, <2>1, <2>2
<1>12. ASSUME NEW v \in {"ok", "error", "lost", "killed"}, Quit(s, v)
       PROVE  AnswersRead(s)'
  <2>1. /\ client'[s] = v /\ input'[s] = "end" /\ UNCHANGED <<handler[s], relayOut[s]>>
    BY <1>6, <1>12 DEF Quit, Set, relayVars
  <2> QED  BY <1>8, <1>9, <2>1
<1>13. CASE Client(s) \/ Killed(s)
  <2>1. CASE \E v \in {"ok", "error", "lost", "killed"} : Quit(s, v)
    BY <1>12, <2>1
  <2>2. CASE ~(\E v \in {"ok", "error", "lost", "killed"} : Quit(s, v))
    <3>1. /\ client[s] = "wait" /\ read[s] < Len(log[s]) /\ read'[s] = read[s] + 1
          /\ log[s][read[s] + 1].what \notin {"ok", "error"}
          /\ UNCHANGED <<client[s], input[s], shut[s], detached[s], handler[s], relayOut[s]>>
      BY <1>6, <1>13, <2>2 DEF Client, Receive, ReceiveFails, Killed, Set, relayVars
    <3>2. \A i \in 1..read'[s] : log'[s][i].what \notin {"ok", "error"}
      BY <1>2, <1>4, <1>5, <3>1
    <3> QED  BY <1>4, <1>8, <1>9, <3>1, <3>2
  <2> QED  BY <2>1, <2>2
<1>14. CASE Type(s) \/ TypeEof(s) \/ TypeDetach(s) \/ ShutDown(s)
  <2>1. /\ UNCHANGED <<client[s], read[s], handler[s], relayOut[s]>>
        /\ \/ input[s] = "type" /\ input'[s] \in {"type", "end"} /\ UNCHANGED <<detached[s], shut[s]>>
           \/ input[s] = "type" /\ input'[s] = "shut" /\ detached'[s] /\ UNCHANGED shut[s]
           \/ input[s] = "shut" /\ input'[s] = "end" /\ UNCHANGED detached[s]
    BY <1>6, <1>14 DEF Type, TypeEof, TypeDetach, ShutDown, Set, socketVars, relayVars
  <2> QED  BY <1>4, <1>7, <1>8, <1>9, <2>1
<1>15. CASE Handler(s)
  <2>1. /\ UNCHANGED OwnClient(s) /\ handler[s] # "idle" /\ UNCHANGED <<read[s], shut[s]>>
    BY <1>15, HandlerMoves DEF Handler, Unread, Announce, Spawn, SpawnFails, Wait, JoinStdout, JoinStderr,
       Answer, Attach, AttachFails, Greet, GreetFails, Waitpid, Join, AttachError, Event, Append1,
       socketVars
  <2>2. Answer(s) => shut'[s] \/ Answered(s)'
    <3>1. Message(verdict[s], 0) \in Messages /\ Message(verdict[s], 0).what \in {"ok", "error"}
      BY SaidIsMessage, MessageParts DEF TypeOK, HandlerTypeOK
    <3>2. Answer(s) => Says(s, Message(verdict[s], 0)) \/ shut'[s]
      BY SaidOrIgnored DEF Answer, Ignored, OwnSocket
    <3> QED  BY <3>1, <3>2, SentStays DEF Answered
  <2>3. handler'[s] = "end" => shut'[s] \/ Answered(s)' \/ Dropped(s)'
    BY <1>15, <2>2, HandlerEnds
  <2> QED  BY <1>4, <1>7, <1>9, <2>1, <2>3 DEF OwnClient
<1>16. CASE Command(s) \/ RelayIn(s) \/ \E r \in Streams : Reader(s, r)
  <2>1. UNCHANGED <<client[s], input[s], detached[s], handler[s], relayOut[s], read[s], shut[s]>>
    BY <1>16 DEF Command, ChildExits, ChildWrites, ChildBreaks, RelayIn, InputRelay, InputRelayEnds,
       Reader, ReaderReads, ReaderSends, ReaderEnds, Event, Append1, clientVars, socketVars, relayVars
  <2> QED  BY <1>4, <1>7, <1>8, <1>9, <2>1
<1>17. CASE RelayOut(s)
  <2>1. /\ UNCHANGED <<client[s], input[s], detached[s], handler[s], read[s], shut[s]>>
        /\ relayOut[s] # "none"
    BY <1>17 DEF RelayOut, RelayReads, RelaySends, RelayEnds, Event, Append1, clientVars, socketVars
  <2> QED  BY <1>4, <1>7, <1>8, <1>9, <2>1
<1> QED  BY <1>1, <1>10, <1>11, <1>13, <1>14, <1>15, <1>16, <1>17 DEF Moves

(* The messages of a stream or of a console stay in order. *)
LEMMA InOrderStep ==
    ASSUME TypeOK, [Next]_vars, NEW s \in Sessions, SentWasRead(s),
           NEW what \in Streams \union {"console"}, InOrder(s, what)
    PROVE  InOrder(s, what)'
<1>1. ASSUME NEW m \in Messages, Says(s, m),
             \A i \in 1..Len(log[s]) : m.what = what /\ log[s][i].what = what => log[s][i].n < m.n
      PROVE  InOrder(s, what)'
  <2>1. /\ Len(log[s]) \in Nat
        /\ \A i \in 1..Len(log'[s]) :
                 \/ i \in 1..Len(log[s]) /\ log'[s][i] = log[s][i]
                 \/ i = Len(log[s]) + 1 /\ log'[s][i] = m
    BY <1>1, OwnTypes, Grown
  <2> SUFFICES ASSUME NEW i \in 1..Len(log'[s]), NEW j \in 1..Len(log'[s]), i < j,
                      log'[s][i].what = what, log'[s][j].what = what
               PROVE  log'[s][i].n < log'[s][j].n
    BY DEF InOrder
  <2>2. i \in 1..Len(log[s]) /\ log'[s][i] = log[s][i]
    BY <1>1, <2>1, Grown
  <2>3. CASE j \in 1..Len(log[s]) /\ log'[s][j] = log[s][j]
    BY <2>2, <2>3 DEF InOrder
  <2>4. CASE log'[s][j] = m
    BY <1>1, <2>2, <2>4
  <2> QED  BY <2>1, <2>3, <2>4
<1>2. CASE UNCHANGED log[s]
  BY <1>2 DEF InOrder
<1>3. ASSUME NEW w \in {"command", "ok", "error", "login", "serial"}, Says(s, Message(w, 0)),
             Message(w, 0) \in Messages
      PROVE  InOrder(s, what)'
  <2>1. Message(w, 0).what # what
    BY MessageParts DEF Streams
  <2> QED  BY <1>1, <1>3, <2>1
<1>4. ASSUME NEW r \in Streams, ReaderSends(s, r), Says(s, Message(r, taken[s][r]))
      PROVE  InOrder(s, what)'
  <2>1. \A i \in 1..Len(log[s]) : log[s][i].what = r => log[s][i].n < taken[s][r]
    BY <1>4 DEF ReaderSends, SentWasRead
  <2>2. Message(r, taken[s][r]) \in Messages
    BY SaidIsMessage
  <2>3. Message(r, taken[s][r]).what = r /\ Message(r, taken[s][r]).n = taken[s][r]
    BY MessageParts
  <2> QED  BY <1>1, <1>4, <2>1, <2>2, <2>3
<1>5. ASSUME RelaySends(s), Says(s, Message("console", hand[s]))
      PROVE  InOrder(s, what)'
  <2>1. \A i \in 1..Len(log[s]) : log[s][i].what = "console" => log[s][i].n < hand[s]
    BY <1>5 DEF RelaySends, SentWasRead
  <2>2. Message("console", hand[s]) \in Messages
    BY SaidIsMessage
  <2>3. Message("console", hand[s]).what = "console" /\ Message("console", hand[s]).n = hand[s]
    BY MessageParts
  <2> QED  BY <1>1, <1>5, <2>1, <2>2, <2>3
<1>6. CASE Rests(s)
  BY <1>2, <1>6 DEF Rests, OwnSocket
<1> QED  BY <1>2, <1>3, <1>4, <1>5, <1>6, MovesOrRests, WhoSays, SaidIsMessage

(* What a session has to show of its console: it wins what its relay reads, and
   loses only what is read for a client that has gone. *)
LEMMA ShowsMoves ==
    ASSUME TypeOK, [Next]_vars, NEW s \in Sessions, SentWasRead(s), NEW k \in Nat \ {0}
    PROVE  /\ Shows(s, k)' => Shows(s, k) \/ (RelayReads(s) /\ k = next[Console(s)] + 1)
           /\ Shows(s, k) => Shows(s, k)' \/ (RelaySends(s) /\ shut[s] /\ k = hand[s])
           /\ Shows(s, k) => k <= next[Console(s)]
<1>1. /\ hand \in [Sessions -> Nat] /\ next[Console(s)] \in Nat /\ Len(log[s]) \in Nat
      /\ relayOut[s] = "send" <=> hand[s] # 0
  BY OwnTypes, ConsoleReadOn DEF TypeOK, RelayTypeOK, SentWasRead
<1> DEFINE m == Message("console", k)
<1>2. Sent(s) \subseteq Sent(s)'
  BY SentStays
<1>3. Shows(s, k) => k <= next[Console(s)]
  <2>1. m \in Sent(s) => k <= next[Console(s)]
    <3>1. m.what = "console" /\ m.n = k
      BY MessageParts
    <3> HIDE DEF m
    <3> QED  BY <3>1 DEF Sent, SentWasRead
  <2> QED  BY <2>1 DEF Shows, SentWasRead
<1>4. ASSUME NEW n \in Messages, Says(s, n)
      PROVE  m \in Sent(s)' => m \in Sent(s) \/ m = n
  <2>1. \A i \in 1..Len(log'[s]) :
                 \/ i \in 1..Len(log[s]) /\ log'[s][i] = log[s][i]
                 \/ i = Len(log[s]) + 1 /\ log'[s][i] = n
    BY <1>4, Grown
  <2> HIDE DEF m
  <2> QED  BY <2>1 DEF Sent
<1>5. \A w, n : m = Message(w, n) => w = "console" /\ n = k
  BY MessageParts
<1>6. UNCHANGED log[s] => (m \in Sent(s)' <=> m \in Sent(s))
  BY DEF Sent
<1>7. CASE RelayReads(s)
  <2>1. /\ relayOut[s] = "read" /\ UNCHANGED log[s] /\ hand'[s] = next[Console(s)] + 1
    BY <1>1, <1>7 DEF RelayReads, Set, socketVars
  <2> HIDE DEF m
  <2> QED  BY <1>1, <1>3, <1>6, <1>7, <2>1 DEF Shows, m
<1>8. CASE RelaySends(s)
  <2>1. /\ relayOut[s] = "send" /\ hand'[s] = 0
        /\ Says(s, Message("console", hand[s])) \/ (shut[s] /\ UNCHANGED log[s])
    BY <1>1, <1>8, SaidOrIgnored DEF RelaySends, Set, Ignored, OwnSocket
  <2>2. Message("console", hand[s]) \in Messages
    BY SaidIsMessage
  <2>3. CASE Says(s, Message("console", hand[s]))
    <3>1. Message("console", hand[s]) \in Sent(s)'
      BY <2>2, <2>3, SentStays
    <3>2. m \in Sent(s)' => m \in Sent(s) \/ k = hand[s]
      BY <1>4, <1>5, <2>2, <2>3
    <3> QED  BY <1>2, <1>3, <2>1, <3>1, <3>2 DEF Shows
  <2>4. CASE shut[s] /\ UNCHANGED log[s]
    BY <1>2, <1>3, <1>6, <1>8, <2>1, <2>4 DEF Shows
  <2> QED  BY <2>1, <2>3, <2>4
<1>9. CASE Moves(s) /\ ~RelayReads(s) /\ ~RelaySends(s)
  <2>1. UNCHANGED hand[s]
    <3>1. CASE Handler(s)
      BY <3>1, HandlerMoves
    <3>2. CASE ~Handler(s)
      BY <1>9, <3>2 DEF Moves, Connect, Client, Receive, ReceiveFails, Killed, Quit, Type,
         TypeEof, TypeDetach, ShutDown, Command, ChildExits, ChildWrites, ChildBreaks, RelayOut,
         RelayEnds, RelayIn, InputRelay, InputRelayEnds, Reader, ReaderReads, ReaderSends,
         ReaderEnds, relayVars
    <3> QED  BY <3>1, <3>2
  <2>2. m \in Sent(s)' <=> m \in Sent(s)
    <3>1. CASE UNCHANGED log[s]
      BY <1>6, <3>1
    <3>2. ASSUME NEW w \in {"command", "ok", "error", "login", "serial"}, Says(s, Message(w, 0)),
                 Message(w, 0) \in Messages
          PROVE  m \in Sent(s)' <=> m \in Sent(s)
      BY <1>2, <1>4, <1>5, <3>2
    <3>3. ASSUME NEW r \in Streams, Says(s, Message(r, taken[s][r]))
          PROVE  m \in Sent(s)' <=> m \in Sent(s)
      <4>1. r # "console" /\ Message(r, taken[s][r]) \in Messages
        BY SaidIsMessage DEF Streams
      <4> QED  BY <1>2, <1>4, <1>5, <3>3, <4>1
    <3> QED  BY <1>9, <3>1, <3>2, <3>3, WhoSays, SaidIsMessage
  <2> QED  BY <1>3, <2>1, <2>2 DEF Shows
<1>10. CASE Rests(s)
  BY <1>3, <1>6, <1>10 DEF Rests, OwnSocket, OwnRelay, Shows
<1> QED  BY <1>7, <1>8, <1>9, <1>10, MovesOrRests

(* What a console writes is shown once, and what it is typed is in order. *)
LEMMA ShownOnceStep ==
    ASSUME Inv, [Next]_vars
    PROVE  ShownOnce'
<1>0. /\ TypeOK /\ ShownOnce
      /\ \A s \in Sessions : SentWasRead(s) /\ TypedInOrder(s)
  BY DEF Inv
<1>1. UNCHANGED scenario /\ scenario.output \in Nat
  BY <1>0, ScenarioType DEF Next, vars, TypeOK
<1>2. \A s \in Sessions : \A what \in Streams \union {"console"} : InOrder(s, what)'
  BY <1>0, InOrderStep DEF ShownOnce
<1>3. ASSUME NEW c \in Consoles, NEW k \in 1..scenario.output,
             NEW s \in On(c), NEW t \in On(c), Shows(s, k)', Shows(t, k)'
      PROVE  s = t
  <2>1. s \in Sessions /\ t \in Sessions /\ Console(s) = c /\ Console(t) = c /\ k \in Nat \ {0}
    BY <1>1, <1>3 DEF On
  <2>2. next[c] \in Nat
    BY <1>0, ConsoleReadOn
  <2>3. Shows(s, k) \/ (RelayReads(s) /\ k = next[c] + 1)
    BY <1>0, <1>3, <2>1, ShowsMoves
  <2>4. Shows(t, k) \/ (RelayReads(t) /\ k = next[c] + 1)
    BY <1>0, <1>3, <2>1, ShowsMoves
  <2>5. (Shows(s, k) => k <= next[c]) /\ (Shows(t, k) => k <= next[c])
    BY <1>0, <2>1, ShowsMoves
  <2>6. RelayReads(s) /\ RelayReads(t) => s = t
    BY <1>0, <2>1 DEF RelayReads, Set, TypeOK, RelayTypeOK
  <2>7. Shows(s, k) /\ Shows(t, k) => s = t
    BY <1>0, <1>3 DEF ShownOnce
  <2> QED  BY <2>2, <2>3, <2>4, <2>5, <2>6, <2>7
<1>4. ASSUME NEW c \in Consoles, NEW i \in 1..Len(keys'[c]), NEW j \in 1..Len(keys'[c]),
             i < j, keys'[c][i][1] = keys'[c][j][1]
      PROVE  keys'[c][i][2] < keys'[c][j][2]
  <2>1. keys[c] \in Seq(Sessions \X Nat) /\ keys \in [Consoles -> Seq(Sessions \X Nat)]
    BY <1>0 DEF TypeOK, ConsoleTypeOK
  <2>2. CASE UNCHANGED keys[c]
    BY <1>0, <1>4, <2>2 DEF ShownOnce
  <2>3. ASSUME NEW t \in Sessions, inbox[t] # <<>>, Head(inbox[t]) > 0,
               keys'[c] = Append(keys[c], <<t, Head(inbox[t])>>)
        PROVE  keys'[c][i][2] < keys'[c][j][2]
    <3> DEFINE h == Head(inbox[t])
               q == keys[c]
               e == <<t, h>>
    <3>1. inbox[t] \in Seq(Nat)
      BY <1>0, OwnTypes
    <3>2. h \in Nat /\ h > 0 /\ h = inbox[t][1] /\ 1 \in 1..Len(inbox[t])
      BY <2>3, <3>1
    <3>3. e \in Sessions \X Nat /\ q \in Seq(Sessions \X Nat) /\ e[1] = t /\ e[2] = h
      BY <2>1, <3>2
    <3>4. \A n \in 1..Len(q) : q[n][1] = t => q[n][2] < h
      BY <1>0, <3>2 DEF TypedInOrder
    <3>5. keys'[c] = Append(q, e)
      BY <2>3
    <3> HIDE DEF h, q, e
    <3>6. /\ Len(Append(q, e)) = Len(q) + 1 /\ Len(q) \in Nat
          /\ \A n \in 1..Len(q) : Append(q, e)[n] = q[n]
          /\ Append(q, e)[Len(q) + 1] = e
      BY <3>3
    <3>7. i \in 1..Len(q) /\ keys'[c][i] = q[i]
      BY <1>4, <3>5, <3>6
    <3>8. CASE j \in 1..Len(q)
      <4>1. keys'[c][j] = q[j]
        BY <3>5, <3>6, <3>8
      <4> QED  BY <1>0, <1>4, <3>7, <3>8, <4>1 DEF ShownOnce, q
    <3>9. CASE j = Len(q) + 1
      BY <1>4, <3>3, <3>4, <3>5, <3>6, <3>7, <3>9
    <3> QED  BY <1>4, <3>5, <3>6, <3>8, <3>9
  <2>4. \/ UNCHANGED keys[c]
        \/ \E t \in Sessions : /\ inbox[t] # <<>> /\ Head(inbox[t]) > 0
                               /\ keys'[c] = Append(keys[c], <<t, Head(inbox[t])>>)
    <3>1. \/ UNCHANGED keys
          \/ \E t \in Sessions :
                /\ Head(inbox[t]) > 0 /\ inbox[t] # <<>> /\ Console(t) \in Consoles
                /\ keys' = [keys EXCEPT ![Console(t)] =
                               Append(keys[Console(t)], <<t, Head(inbox[t])>>)]
      <4>1. CASE Sessions = {}
        BY <1>1, <4>1 DEF Next, ConsoleWrites, ConsoleEnds, vars, consoleVars
      <4>2. CASE Sessions # {}
        BY <1>0, <4>2, InputMoves, OwnTypes
      <4> QED  BY <4>1, <4>2
    <3> QED  BY <2>1, <3>1
  <2> QED  BY <2>2, <2>3, <2>4
<1>5. \A c \in Consoles, k \in 1..scenario'.output : \A s, t \in On(c)' :
         Shows(s, k)' /\ Shows(t, k)' => s = t
  BY <1>1, <1>3 DEF On, Console
<1>6. \A c \in Consoles : \A i, j \in 1..Len(keys'[c]) :
         i < j /\ keys'[c][i][1] = keys'[c][j][1] => keys'[c][i][2] < keys'[c][j][2]
  BY <1>4
<1> QED  BY <1>2, <1>5, <1>6 DEF ShownOnce

(* One connection is closed at a time. *)
LEMMA FewHaveLeftStep ==
    ASSUME TypeOK, [Next]_vars, FewHaveLeft
    PROVE  FewHaveLeft'
<1>1. \A s \in Sessions : Rests(s) => (shut'[s] <=> shut[s])
  BY DEF Rests, OwnSocket
<1>2. \A s \in Sessions : (shut'[s] <=> shut[s]) \/ Moves(s)
  BY <1>1, MovesOrRests
<1> DEFINE L == {s \in Sessions : shut[s]}
<1>3. CASE \A s \in Sessions : shut'[s] <=> shut[s]
  <2>1. {s \in Sessions : shut'[s]} = L
    BY <1>3
  <2> QED  BY <2>1 DEF FewHaveLeft
<1>4. ASSUME NEW t \in Sessions, \A s \in Sessions \ {t} : shut'[s] <=> shut[s]
      PROVE  FewHaveLeft'
  <2>1. {s \in Sessions : shut'[s]} \subseteq L \union {t}
    BY <1>4
  <2>2. IsFiniteSet(L \union {t})
    BY FS_AddElement DEF FewHaveLeft
  <2>3. IsFiniteSet({s \in Sessions : shut'[s]})
    BY <2>1, <2>2, FS_Subset
  <2> QED  BY <2>3 DEF FewHaveLeft
<1>5. ASSUME NEW t \in Sessions, Moves(t)
      PROVE  \A s \in Sessions \ {t} : shut'[s] <=> shut[s]
  BY <1>5, OthersKeep DEF OwnSocket
<1> QED  BY <1>2, <1>3, <1>4, <1>5

(* The chunks of a console that have been read and shown to nobody. *)
Lost(c) == {k \in 1..next[c] : \A s \in On(c) : ~Shows(s, k)}

(* The sessions whose relay has ended behind a client that has left. *)
Leavers(c) == {s \in On(c) : shut[s] /\ relayOut[s] = "end"}

(* One chunk is lost at most for each relay that has ended behind its client. *)
LEMMA LeaverTakesOneStep ==
    ASSUME Inv, [Next]_vars
    PROVE  LeaverTakesOne'
<1>0. /\ TypeOK /\ LeaverTakesOne /\ FewHaveLeft /\ FewHaveLeft'
      /\ \A s \in Sessions : SentWasRead(s) /\ ThreadsDone(s)
  BY FewHaveLeftStep DEF Inv
<1>1. UNCHANGED scenario
  BY DEF Next, vars
<1> SUFFICES ASSUME NEW c \in Consoles
             PROVE  Cardinality(Lost(c)') <= Cardinality(Leavers(c)')
  BY DEF LeaverTakesOne, Lost, Leavers
<1>2. Cardinality(Lost(c)) <= Cardinality(Leavers(c))
  BY <1>0 DEF LeaverTakesOne, Lost, Leavers
<1>3. UNCHANGED On(c)
  BY <1>1 DEF On, Console
<1>4. \A s \in On(c) : s \in Sessions /\ Console(s) = c
  BY DEF On
<1>5. next[c] \in Nat /\ next'[c] \in Nat /\ next[c] <= next'[c]
  BY <1>0, ConsoleReadOn
<1>6. IsFiniteSet(Leavers(c)) /\ IsFiniteSet(Leavers(c)')
  <2>1. Leavers(c) \subseteq {s \in Sessions : shut[s]}
    BY <1>4 DEF Leavers
  <2>2. Leavers(c)' \subseteq {s \in Sessions : shut'[s]}
    BY <1>3, <1>4 DEF Leavers
  <2> QED  BY <1>0, <2>1, <2>2, FS_Subset DEF FewHaveLeft
<1>7. IsFiniteSet(Lost(c)) /\ Cardinality(Lost(c)) \in Nat /\ IsFiniteSet(Lost(c)')
  <2>1. IsFiniteSet(1..next[c]) /\ IsFiniteSet(1..next'[c])
    BY <1>5, FS_Interval, SMTT(60)
  <2>2. Lost(c) \subseteq 1..next[c] /\ Lost(c)' \subseteq 1..next'[c]
    BY DEF Lost
  <2> QED  BY <2>1, <2>2, FS_Subset, FS_CardinalityType
<1>8. \A s \in On(c), k \in 1..next[c] :
         Shows(s, k) => Shows(s, k)' \/ (RelaySends(s) /\ shut[s] /\ k = hand[s])
  BY <1>0, <1>4, <1>5, ShowsMoves
<1>9. Leavers(c) \subseteq Leavers(c)'
  <2> SUFFICES ASSUME NEW s \in On(c), shut[s], relayOut[s] = "end"
               PROVE  shut'[s] /\ relayOut'[s] = "end"
    BY <1>3 DEF Leavers
  <2>1. shut'[s]
    BY <1>0, <1>4, SentStays
  <2>2. CASE Rests(s)
    BY <2>1, <2>2 DEF Rests, OwnRelay
  <2>3. CASE Handler(s)
    BY <1>0, <1>4, <2>1, <2>3, HandlerMoves DEF ThreadsDone, OwnRelay
  <2>4. CASE Moves(s) /\ ~Handler(s)
    BY <2>1, <2>4 DEF Moves, Connect, Client, Receive, ReceiveFails, Killed, Quit, Type,
       TypeEof, TypeDetach, ShutDown, Command, ChildExits, ChildWrites, ChildBreaks, RelayOut,
       RelayReads, RelaySends, RelayEnds, RelayIn, InputRelay, InputRelayEnds, Reader,
       ReaderReads, ReaderSends, ReaderEnds, relayVars
  <2> QED  BY <1>0, <1>4, <2>2, <2>3, <2>4, MovesOrRests
<1>10. \/ next'[c] = next[c]
       \/ /\ next'[c] = next[c] + 1
          /\ \E t \in On(c) : \A k \in Nat : k = next[c] + 1 => Shows(t, k)'
  <2> SUFFICES ASSUME NEW t \in Sessions, RelayReads(t), next'[c] # next[c]
               PROVE  /\ next'[c] = next[c] + 1 /\ t \in On(c)
                      /\ \A k \in Nat : k = next[c] + 1 => Shows(t, k)'
    BY <1>0, ConsoleReadOn
  <2>1. /\ hand \in [Sessions -> Nat] /\ next \in [Consoles -> 0..scenario.output]
        /\ Console(t) \in Consoles
    BY <1>0, OwnTypes DEF TypeOK, RelayTypeOK, ConsoleTypeOK
  <2>2. /\ next' = [next EXCEPT ![Console(t)] = next[Console(t)] + 1]
        /\ hand'[t] = next[Console(t)] + 1
    BY <2>1 DEF RelayReads, Set
  <2>3. Console(t) = c /\ next'[c] = next[c] + 1
    BY <2>1, <2>2
  <2>4. \A k \in Nat : k = next[c] + 1 => Shows(t, k)'
    BY <1>5, <2>2, <2>3 DEF Shows
  <2> QED  BY <2>3, <2>4 DEF On
<1>11. ASSUME NEW k \in Lost(c)'
       PROVE  k \in Lost(c) \/ \E s \in On(c) : RelaySends(s) /\ shut[s] /\ k = hand[s]
  <2>1. k \in 1..next'[c] /\ \A s \in On(c) : ~Shows(s, k)'
    BY <1>3 DEF Lost
  <2>2. k \in Nat /\ k # next[c] + 1
    BY <1>10, <1>5, <2>1
  <2>3. k \in 1..next[c]
    BY <1>5, <1>10, <2>1, <2>2
  <2> QED  BY <1>8, <2>1, <2>3 DEF Lost
(* No relay whose client has gone lets a chunk go in this step. *)
<1>12. CASE \A s \in On(c) : ~(RelaySends(s) /\ shut[s])
  <2>1. Lost(c)' \subseteq Lost(c)
    BY <1>11, <1>12
  <2>2. Cardinality(Lost(c)') <= Cardinality(Lost(c)) /\ Cardinality(Lost(c)') \in Nat
    BY <1>7, <2>1, FS_Subset, FS_CardinalityType
  <2>3. Cardinality(Leavers(c)) <= Cardinality(Leavers(c)') /\ Cardinality(Leavers(c)) \in Nat
    BY <1>6, <1>9, FS_Subset, FS_CardinalityType
  <2>4. Cardinality(Leavers(c)') \in Nat
    BY <1>6, FS_CardinalityType
  <2> QED  BY <1>2, <1>7, <2>2, <2>3, <2>4
(* One does. *)
<1>13. ASSUME NEW s \in On(c), RelaySends(s), shut[s]
       PROVE  Cardinality(Lost(c)') <= Cardinality(Leavers(c)')
  <2>1. relayOut[s] = "send" /\ relayOut'[s] = "end" /\ shut'[s]
    <3>1. DOMAIN relayOut = Sessions
      BY <1>0 DEF TypeOK, RelayTypeOK
    <3>2. shut'[s]
      BY <1>0, <1>4, <1>13, SentStays
    <3> QED  BY <1>4, <1>13, <3>1, <3>2 DEF RelaySends, Set
  <2>2. \A t \in On(c) : RelaySends(t) => t = s
    BY <1>0, <1>4, <1>13 DEF RelaySends, Set, TypeOK, RelayTypeOK
  <2>3. Lost(c)' \subseteq Lost(c) \union {hand[s]}
    BY <1>11, <2>2
  <2>4. IsFiniteSet(Lost(c) \union {hand[s]})
        /\ Cardinality(Lost(c) \union {hand[s]}) <= Cardinality(Lost(c)) + 1
    BY <1>7, FS_AddElement
  <2>5. /\ Cardinality(Lost(c)') <= Cardinality(Lost(c) \union {hand[s]})
        /\ Cardinality(Lost(c)') \in Nat /\ Cardinality(Lost(c) \union {hand[s]}) \in Nat
    BY <1>7, <2>3, <2>4, FS_Subset, FS_CardinalityType
  <2>6. s \notin Leavers(c) /\ Leavers(c) \union {s} \subseteq Leavers(c)'
    BY <1>3, <1>9, <1>13, <2>1 DEF Leavers
  <2>7. /\ IsFiniteSet(Leavers(c) \union {s})
        /\ Cardinality(Leavers(c) \union {s}) = Cardinality(Leavers(c)) + 1
    BY <1>6, <2>6, FS_AddElement
  <2>8. /\ Cardinality(Leavers(c) \union {s}) <= Cardinality(Leavers(c)')
        /\ Cardinality(Leavers(c)) \in Nat /\ Cardinality(Leavers(c)') \in Nat
    BY <1>6, <2>6, FS_Subset, FS_CardinalityType
  <2> QED  BY <1>2, <1>7, <2>4, <2>5, <2>7, <2>8
<1> QED  BY <1>12, <1>13

(* Answers are true: what the handler says of its command is what came of it, and what
   it has said of a console comes before anything that depends on it. *)
LEMMA AnswersTrueStep ==
    ASSUME TypeOK, [Next]_vars, NEW s \in Sessions,
           ThreadsDone(s), Drained(s), AnswersRead(s), AnswersTrue(s)
    PROVE  AnswersTrue(s)'
<1>1. UNCHANGED scenario /\ (Moves(s) \/ Rests(s)) /\ UNCHANGED Kind(s)
  BY MovesOrRests DEF Kind
<1>2. Len(log[s]) \in Nat /\ read[s] \in Nat /\ log[s] \in Seq(Messages)
  BY OwnTypes
<1>3. /\ Len(log'[s]) \in Nat /\ Len(log[s]) <= Len(log'[s])
      /\ \A i \in 1..Len(log[s]) : log'[s][i] = log[s][i]
  <2>1. CASE UNCHANGED log[s]
    BY <1>2, <2>1
  <2>2. ASSUME NEW m \in Messages, Says(s, m)
        PROVE  /\ Len(log'[s]) = Len(log[s]) + 1
               /\ \A i \in 1..Len(log[s]) : log'[s][i] = log[s][i]
    BY <2>2, Grown
  <2>3. UNCHANGED log[s] \/ \E m \in Messages : Says(s, m)
    BY <1>1, WhoSays, SaidIsMessage DEF Rests, OwnSocket
  <2> QED  BY <1>2, <2>1, <2>2, <2>3
<1>4. /\ Greeted(s) => Greeted(s)'
      /\ (\E i \in 1..Len(log[s]) : log[s][i].what = "serial") =>
            \E i \in 1..Len(log'[s]) : log'[s][i].what = "serial"
  <2>1. \A i \in 1..Len(log[s]) : i \in 1..Len(log'[s]) /\ log'[s][i].what = log[s][i].what
    BY <1>2, <1>3
  <2> QED  BY <2>1 DEF Greeted
<1>5. /\ Kind(s) = "attach" =>
            /\ child[s] = "none"
            /\ handler[s] \notin {"command", "spawn", "wait", "stdout", "stderr"}
            /\ relayOut[s] = "none" => log[s] = <<>> /\ handler[s] # "answer"
      /\ handler[s] \in {"idle", "command"} => log[s] = <<>>
      /\ handler[s] \in {"stdout", "stderr"} => child[s] \in {"exited", "failed"}
      /\ handler[s] \in {"attach", "greet", "waitpid", "join"} =>
            child[s] = "exited" \/ Kind(s) = "attach"
      /\ handler[s] \in {"waitpid", "join"} => relayOut[s] # "none"
      /\ handler[s] = "answer" /\ verdict[s] = "ok" =>
            child[s] = "exited" \/ (child[s] = "none" /\ relayOut[s] # "none")
      /\ relayOut[s] # "none" => Greeted(s)
      /\ detached[s] => mayDetach[s]
      /\ mayDetach[s] => \E i \in 1..Len(log[s]) : log[s][i].what = "serial"
  BY DEF AnswersTrue
<1>6. AnswersTrue(s)' <=>
      /\ Kind(s) = "attach" =>
            /\ child'[s] = "none"
            /\ handler'[s] \notin {"command", "spawn", "wait", "stdout", "stderr"}
            /\ relayOut'[s] = "none" => log'[s] = <<>> /\ handler'[s] # "answer"
      /\ handler'[s] \in {"idle", "command"} => log'[s] = <<>>
      /\ handler'[s] \in {"stdout", "stderr"} => child'[s] \in {"exited", "failed"}
      /\ handler'[s] \in {"attach", "greet", "waitpid", "join"} =>
            child'[s] = "exited" \/ Kind(s) = "attach"
      /\ handler'[s] \in {"waitpid", "join"} => relayOut'[s] # "none"
      /\ handler'[s] = "answer" /\ verdict'[s] = "ok" =>
            child'[s] = "exited" \/ (child'[s] = "none" /\ relayOut'[s] # "none")
      /\ relayOut'[s] # "none" => Greeted(s)'
      /\ detached'[s] => mayDetach'[s]
      /\ mayDetach'[s] => \E i \in 1..Len(log'[s]) : log'[s][i].what = "serial"
  BY <1>1 DEF AnswersTrue
<1>7. /\ DOMAIN handler = Sessions /\ DOMAIN client = Sessions /\ DOMAIN verdict = Sessions
      /\ DOMAIN relayOut = Sessions /\ DOMAIN child = Sessions
      /\ mayDetach \in [Sessions -> BOOLEAN] /\ detached \in [Sessions -> BOOLEAN]
      /\ log \in [Sessions -> Seq(Messages)]
  BY DEF TypeOK, ClientTypeOK, SocketTypeOK, HandlerTypeOK, RelayTypeOK, CommandTypeOK
<1>8. CASE Rests(s)
  BY <1>4, <1>5, <1>6, <1>8 DEF Rests, OwnClient, OwnSocket, OwnHandler, OwnCommand, OwnRelay
<1>9. CASE Connect(s)
  <2>1. /\ handler[s] = "idle" /\ UNCHANGED <<detached[s], mayDetach[s], log[s], verdict[s]>>
        /\ UNCHANGED <<child[s], relayOut[s]>>
        /\ handler'[s] = IF Kind(s) = "attach" THEN "attach" ELSE "command"
    BY <1>7, <1>9 DEF Connect, AnswersRead, Set, socketVars, commandVars, relayVars
  <2>2. child[s] = "none" /\ relayOut[s] = "none"
    BY <2>1 DEF ThreadsDone, Drained, Streams
  <2> QED  BY <1>4, <1>5, <1>6, <2>1, <2>2
<1>10. ASSUME UNCHANGED <<handler[s], verdict[s], child[s], relayOut[s], log[s]>>,
              detached'[s] => mayDetach'[s],
              mayDetach'[s] => \E i \in 1..Len(log[s]) : log[s][i].what = "serial"
       PROVE  AnswersTrue(s)'
  BY <1>4, <1>5, <1>6, <1>10
<1>11. CASE Client(s) \/ Killed(s)
  <2>1. UNCHANGED <<handler[s], verdict[s], child[s], relayOut[s], log[s], detached[s]>>
    BY <1>11 DEF Client, Receive, ReceiveFails, Killed, Quit, commandVars, relayVars
  <2>2. \/ UNCHANGED mayDetach[s]
        \/ /\ read[s] < Len(log[s])
           /\ mayDetach'[s] = (mayDetach[s] \/ log[s][read[s] + 1].what = "serial")
    BY <1>7, <1>11 DEF Client, Receive, ReceiveFails, Killed, Set
  <2>3. read[s] < Len(log[s]) => read[s] + 1 \in 1..Len(log[s])
    BY <1>2
  <2>4. mayDetach[s] => mayDetach'[s]
    BY <2>2
  <2> QED  BY <1>5, <1>10, <2>1, <2>2, <2>3, <2>4
<1>12. CASE Type(s) \/ TypeEof(s) \/ TypeDetach(s) \/ ShutDown(s)
  <2>1. /\ UNCHANGED <<handler[s], verdict[s], child[s], relayOut[s], log[s], mayDetach[s]>>
        /\ detached'[s] => detached[s] \/ mayDetach[s]
    BY <1>7, <1>12 DEF Type, TypeEof, TypeDetach, ShutDown, Set, socketVars, commandVars, relayVars
  <2> QED  BY <1>5, <1>10, <2>1
<1>13. CASE Command(s)
  <2>1. UNCHANGED <<handler[s], verdict[s], relayOut[s], log[s], mayDetach[s], detached[s]>>
    BY <1>13 DEF Command, ChildExits, ChildWrites, ChildBreaks, clientVars, socketVars, relayVars
  <2>2. child[s] = "run" /\ child'[s] \in {"run", "exited", "failed"}
    BY <1>7, <1>13 DEF Command, ChildExits, ChildWrites, ChildBreaks, Set
  <2> QED  BY <1>4, <1>5, <1>6, <2>1, <2>2
<1>14. ASSUME NEW r \in Streams, Reader(s, r)
       PROVE  AnswersTrue(s)'
  <2>1. /\ UNCHANGED <<handler[s], verdict[s], child[s], relayOut[s], mayDetach[s], detached[s]>>
        /\ reader[s][r] # "none"
    BY <1>14 DEF Reader, ReaderReads, ReaderSends, ReaderEnds, clientVars, relayVars
  <2>2. child[s] # "none" /\ handler[s] \notin {"idle", "command"}
    BY <2>1 DEF Drained, ThreadsDone
  <2> QED  BY <1>4, <1>5, <1>6, <2>1, <2>2
<1>15. CASE RelayOut(s)
  <2>1. /\ UNCHANGED <<handler[s], verdict[s], child[s], mayDetach[s], detached[s]>>
        /\ relayOut[s] # "none" /\ relayOut'[s] # "none" /\ handler[s] \notin {"idle", "command"}
    BY <1>7, <1>15 DEF RelayOut, RelayReads, RelaySends, RelayEnds, Set, clientVars, commandVars,
       ThreadsDone
  <2> QED  BY <1>4, <1>5, <1>6, <2>1
<1>16. CASE RelayIn(s)
  <2>1. UNCHANGED <<handler[s], verdict[s], child[s], relayOut[s], log[s], mayDetach[s],
                    detached[s]>>
    BY <1>16 DEF RelayIn, InputRelay, InputRelayEnds, clientVars, socketVars, commandVars
  <2> QED  BY <1>5, <1>10, <2>1
<1>17. CASE Handler(s)
  <2>1. UNCHANGED <<mayDetach[s], detached[s]>>
    BY <1>17, HandlerMoves DEF OwnClient
  <2>2. CASE Announce(s) \/ Wait(s) \/ Answer(s) \/ Waitpid(s)
    <3>1. /\ UNCHANGED <<child[s], relayOut[s], verdict[s]>>
          /\ \/ handler[s] = "command" /\ handler'[s] = "spawn"
             \/ /\ handler[s] = "wait" /\ handler'[s] = "stdout"
                /\ child[s] \in {"exited", "failed"}
             \/ handler[s] = "answer" /\ handler'[s] = "end"
             \/ handler[s] = "waitpid" /\ handler'[s] = "join"
      BY <1>7, <2>2 DEF Announce, Wait, Answer, Waitpid, Goto, Set, commandVars, relayVars
    <3>2. Kind(s) = "attach" /\ relayOut[s] = "none" => UNCHANGED log[s]
      BY <1>5, <2>2, <3>1 DEF Announce, Wait, Answer, Waitpid, socketVars
    <3> QED  BY <1>4, <1>5, <1>6, <2>1, <3>1, <3>2
  <2>3. CASE Spawn(s)
    <3>1. /\ handler[s] = "spawn" /\ handler'[s] = "wait" /\ child'[s] = "run"
          /\ UNCHANGED <<relayOut[s], verdict[s], log[s]>>
      BY <1>7, <2>3 DEF Spawn, Goto, Set, socketVars, relayVars
    <3> QED  BY <1>4, <1>5, <1>6, <2>1, <3>1
  <2>4. CASE SpawnFails(s) \/ JoinStdout(s) \/ JoinStderr(s) \/ Join(s)
    <3>1. /\ UNCHANGED <<child[s], relayOut[s], log[s]>>
          /\ \/ /\ handler[s] \in {"spawn", "stdout", "stderr"} /\ handler'[s] = "answer"
                /\ verdict'[s] = "error"
             \/ handler[s] = "stdout" /\ handler'[s] = "stderr" /\ UNCHANGED verdict[s]
             \/ /\ handler[s] = "stderr" /\ child[s] # "failed"
                /\ handler'[s] \in {"answer", "attach"}
             \/ handler[s] = "join" /\ handler'[s] = "answer"
      BY <1>7, <2>4 DEF SpawnFails, JoinStdout, JoinStderr, CommandDone, Join, Goto, Answering,
         Set, socketVars, commandVars, relayVars
    <3>2. handler[s] = "stderr" => child[s] \in {"exited", "failed"} /\ Kind(s) # "attach"
      BY <1>5
    <3> QED  BY <1>4, <1>5, <1>6, <2>1, <3>1, <3>2
  <2>5. CASE Unread(s) \/ Attach(s) \/ AttachFails(s) \/ GreetFails(s)
    <3>1. /\ UNCHANGED <<child[s], relayOut[s], log[s]>>
          /\ \/ handler[s] = "attach" /\ handler'[s] = "greet" /\ UNCHANGED verdict[s]
             \/ handler'[s] = "end" /\ UNCHANGED verdict[s]
             \/ Kind(s) # "attach" /\ handler'[s] = "answer" /\ verdict'[s] = "error"
      BY <1>7, <2>5 DEF Unread, Attach, AttachFails, GreetFails, AttachError, Goto, Answering, Set,
         socketVars, commandVars, relayVars
    <3> QED  BY <1>4, <1>5, <1>6, <2>1, <3>1
  <2>6. CASE Greet(s)
    <3>1. /\ handler[s] = "greet" /\ handler'[s] \in {"waitpid", "join"}
          /\ relayOut'[s] = "read" /\ UNCHANGED <<child[s], verdict[s]>>
      BY <1>7, <2>6 DEF Greet, Goto, Set, commandVars
    <3>2. PICK what \in {"login", "serial"} : Says(s, Message(what, 0))
      BY <2>6, SaidOrIgnored DEF Greet
    <3>3. Message(what, 0) \in Messages /\ Message(what, 0).what = what
      BY SaidIsMessage, MessageParts
    <3>4. Len(log'[s]) = Len(log[s]) + 1 /\ log'[s][Len(log[s]) + 1] = Message(what, 0)
      BY <3>2, <3>3, Grown
    <3>5. Greeted(s)'
      BY <1>2, <3>3, <3>4 DEF Greeted
    <3> QED  BY <1>4, <1>5, <1>6, <2>1, <3>1, <3>5
  <2> QED  BY <1>17, <2>2, <2>3, <2>4, <2>5, <2>6 DEF Handler
<1> QED  BY <1>1, <1>8, <1>9, <1>11, <1>12, <1>13, <1>14, <1>15, <1>16, <1>17 DEF Moves

(* Nobody writes to the socket of a session after its response. *)
LEMMA ResponseLastStep == Inv /\ [Next]_vars => ResponseLast'
<1> SUFFICES ASSUME Inv, [Next]_vars, ~May("read"), NEW s \in Sessions
             PROVE  \A i \in 1..Len(log'[s]) - 1 : log'[s][i].what \notin {"ok", "error"}
  BY DEF ResponseLast, May, Next, vars
<1>1. TypeOK /\ ThreadsDone(s) /\ ResponseLast
  BY DEF Inv
<1>2. Len(log[s]) \in Nat
  BY <1>1, OwnTypes
<1>3. CASE UNCHANGED log[s]
  BY <1>1, <1>3 DEF ResponseLast
<1>4. ASSUME NEW m \in Messages, Says(s, m), handler[s] # "end"
      PROVE  \A i \in 1..Len(log'[s]) - 1 : log'[s][i].what \notin {"ok", "error"}
  <2>1. /\ Len(log'[s]) = Len(log[s]) + 1
        /\ \A i \in 1..Len(log[s]) : log'[s][i] = log[s][i]
    BY <1>1, <1>4, Grown
  <2> QED  BY <1>1, <1>2, <1>4, <2>1 DEF ThreadsDone
<1>5. CASE Moves(s)
  <2>1. Handler(s) => handler[s] # "end"
    BY <1>1, HandlerMoves
  <2>2. \A r \in Streams : ReaderSends(s, r) => handler[s] # "end"
    BY <1>1 DEF ThreadsDone, ReaderSends
  <2>3. RelaySends(s) => handler[s] # "end"
    BY <1>1 DEF ThreadsDone, RelaySends
  <2> QED  BY <1>1, <1>3, <1>4, <1>5, <2>1, <2>2, <2>3, WhoSays, SaidIsMessage DEF Handler
<1>6. CASE Rests(s)
  BY <1>3, <1>6 DEF Rests, OwnSocket
<1> QED  BY <1>1, <1>5, <1>6, MovesOrRests

(* A connection is lost only when the handler has dropped it. *)
LEMMA LostStep == Inv /\ [Next]_vars => LostOnlyRefused'
<1> SUFFICES ASSUME Inv, [Next]_vars, NEW s \in Sessions, client'[s] = "lost"
             PROVE  Dropped(s)'
  BY DEF LostOnlyRefused
<1>1. /\ TypeOK /\ ThreadsDone(s) /\ Drained(s) /\ AnswersRead(s) /\ LostOnlyRefused
      /\ DOMAIN client = Sessions
  BY DEF Inv, TypeOK, ClientTypeOK
<1>2. CASE client[s] = "lost"
  BY <1>1, <1>2, DroppedStays DEF LostOnlyRefused
<1>3. CASE client[s] # "lost"
  <2>1. Moves(s)
    BY <1>1, <1>3, MovesOrRests DEF Rests, OwnClient
  <2>2. ReceiveFails(s)
    <3>1. ~Handler(s)
      BY <1>1, <1>3, HandlerMoves DEF OwnClient
    <3> QED  BY <1>1, <1>3, <2>1, <3>1 DEF Moves, Connect, Client, Receive, Killed, Quit, Type,
         TypeEof, TypeDetach, ShutDown, Command, ChildExits, ChildWrites, ChildBreaks, RelayOut,
         RelayReads, RelaySends, RelayEnds, RelayIn, InputRelay, InputRelayEnds, Reader,
         ReaderReads, ReaderSends, ReaderEnds, Set, clientVars
  <2>3. /\ client[s] = "wait" /\ ~detached[s] /\ UNCHANGED <<handler, relayOut>>
        /\ shut[s] \/ (handler[s] = "end" /\ read[s] = Len(log[s]))
    BY <1>1, <2>2 DEF ReceiveFails, Quit, Set, Closed, relayVars
  <2>4. handler[s] = "end" /\ read[s] = Len(log[s]) /\ ~shut[s]
    BY <1>1, <2>3 DEF AnswersRead
  <2>5. ~Answered(s)
    BY <1>1, <2>3, <2>4 DEF AnswersRead, Answered, Sent
  <2>6. Dropped(s)
    BY <1>1, <2>4, <2>5 DEF AnswersRead
  <2> QED  BY <1>1, <2>6, DroppedStays
<1> QED  BY <1>2, <1>3

(* At first there is nothing in the logs, the pipes and the consoles. *)
LEMMA InitInv == Init => Inv
<1> SUFFICES ASSUME Init PROVE Inv
  OBVIOUS
<1>0. /\ scenario \in Scenarios /\ scenario.output \in Nat
      /\ scenario.running \subseteq Consoles /\ scenario.jails \subseteq Consoles
      /\ scenario.console \in [Sessions -> Consoles]
      /\ SocketSize \in Nat
  BY ScenarioType, Sizes DEF Init
<1>1. ClientTypeOK /\ HandlerTypeOK /\ RelayTypeOK
  BY DEF Init, ClientTypeOK, HandlerTypeOK, RelayTypeOK
<1>2. SocketTypeOK
  BY <1>0 DEF Init, SocketTypeOK
<1>3. CommandTypeOK
  BY <1>0 DEF Init, CommandTypeOK
<1>4. ConsoleTypeOK
  BY <1>0 DEF Init, ConsoleTypeOK
<1>5. TypeOK
  BY <1>0, <1>1, <1>2, <1>3, <1>4 DEF TypeOK
<1>6. \A s \in Sessions : Len(log[s]) = 0 /\ Len(inbox[s]) = 0 /\ Sent(s) = {}
  BY DEF Init, Sent
<1>7. \A c \in Consoles : Len(keys[c]) = 0 /\ 1..next[c] = {}
  BY DEF Init
<1>8. ShownOnce
  <2>1. \A s \in Sessions : \A what \in Streams \union {"console"} : InOrder(s, what)
    BY <1>6 DEF InOrder
  <2>2. \A s \in Sessions, k \in 1..scenario.output : ~Shows(s, k)
    BY <1>0, <1>6 DEF Init, Shows
  <2> QED  BY <1>7, <2>1, <2>2 DEF ShownOnce, On
<1>9. LeaverTakesOne
  <2> SUFFICES ASSUME NEW c \in Consoles
               PROVE  Cardinality({k \in 1..next[c] : \A s \in On(c) : ~Shows(s, k)})
                         <= Cardinality({s \in On(c) : shut[s] /\ relayOut[s] = "end"})
    BY DEF LeaverTakesOne
  <2>1. {k \in 1..next[c] : \A s \in On(c) : ~Shows(s, k)} = {}
    BY <1>7
  <2>2. {s \in On(c) : shut[s] /\ relayOut[s] = "end"} = {}
    BY DEF Init, On
  <2> QED  BY <2>1, <2>2, FS_EmptySet
<1>10. FewHaveLeft
  <2>1. {s \in Sessions : shut[s]} = {}
    BY DEF Init
  <2> QED  BY <2>1, FS_EmptySet DEF FewHaveLeft
<1>11. ASSUME NEW s \in Sessions
       PROVE  ThreadsDone(s) /\ SentWasRead(s) /\ TypedInOrder(s) /\ AnswersRead(s)
  <2>1. ThreadsDone(s)
    BY <1>6 DEF Init, ThreadsDone
  <2>2. SentWasRead(s)
    BY <1>0, <1>6 DEF Init, SentWasRead, Console
  <2>3. TypedInOrder(s)
    BY <1>6, <1>7 DEF TypedInOrder
  <2>4. AnswersRead(s)
    BY DEF Init, AnswersRead
  <2> QED  BY <2>1, <2>2, <2>3, <2>4
<1>12. \A s \in Sessions : Drained(s)
  BY DEF Init, Drained
<1>13. ResponseLast /\ LostOnlyRefused
  BY <1>6 DEF Init, ResponseLast, LostOnlyRefused
<1>14. \A s \in Sessions : AnswersTrue(s)
  BY DEF Init, AnswersTrue
<1> QED  BY <1>5, <1>8, <1>9, <1>10, <1>11, <1>12, <1>13, <1>14 DEF Inv

(* The steps preserve the invariant. *)
LEMMA NextInv == Inv /\ [Next]_vars => Inv'
<1> SUFFICES ASSUME Inv, [Next]_vars PROVE Inv'
  OBVIOUS
<1>1. TypeOK'
  BY TypeStep DEF Inv
<1>2. ShownOnce' /\ LeaverTakesOne' /\ FewHaveLeft' /\ ResponseLast' /\ LostOnlyRefused'
  BY ShownOnceStep, LeaverTakesOneStep, FewHaveLeftStep, ResponseLastStep, LostStep DEF Inv
<1>3. ASSUME NEW s \in Sessions
      PROVE  /\ ThreadsDone(s)' /\ Drained(s)' /\ SentWasRead(s)'
             /\ TypedInOrder(s)' /\ AnswersRead(s)'
  BY ThreadsDoneStep, DrainedStep, SentWasReadStep, TypedInOrderStep, AnswersReadStep DEF Inv
<1>4. \A s \in Sessions : AnswersTrue(s)'
  BY AnswersTrueStep DEF Inv
<1> QED  BY <1>1, <1>2, <1>3, <1>4 DEF Inv

(* Sessions that share a console share its output, in order and at most one chunk
   short for each that has left; what is typed arrives in order; and the threads
   of a session are done when its handler says so. *)
THEOREM InvHolds == Spec => []Inv
  BY InitInv, NextInv, PTL DEF Spec

(* All that a command has written is sent before the handler goes on. *)
LEMMA DrainedIsSent == Inv => OutputComplete
<1> SUFFICES ASSUME Inv, NEW s \in Sessions, child[s] \in {"exited", "failed"}, ~May("read"),
                    ~shut[s], NEW r \in Streams, NEW k \in 1..scenario.output,
                    handler[s] \in {"attach", "greet", "waitpid", "join", "answer", "end"}
             PROVE  Message(r, k) \in Sent(s)
  BY DEF OutputComplete
<1>1. reader[s][r] = "end"
  BY DEF Inv, ThreadsDone, Drained
<1>2. k \in 1..taken[s][r]
  <2>1. Drained(s)
    BY DEF Inv
  <2>2. taken[s][r] = scenario.output
    BY <1>1, <2>1 DEF Drained
  <2> QED  BY <2>2
<1> QED  BY <1>1, <1>2 DEF Inv, Drained

(* No chunk of a command's output comes after the response, or is missing from
   what comes before it (util/cmd.rs:385-394). *)
THEOREM AllOutputIsSent == Spec => []OutputComplete
  BY InvHolds, DrainedIsSent, PTL

(* The response is the last message of a session, though the threads of its
   command and of its console write to the same socket (priosund.rs:326-345). *)
THEOREM NothingAfterTheResponse == Spec => []ResponseLast
<1>1. Inv => ResponseLast
  BY DEF Inv
<1> QED  BY <1>1, InvHolds, PTL

(* To detach is never taken for a lost connection, nor is any other end of a session
   while the daemon lives, but the ones in which it has dropped the connection unanswered
   before it did anything for it (protocol.rs:171-184, priosund.rs:93-115, 173-178). *)
THEOREM LostWhenRefused == Spec => []LostOnlyRefused
<1>1. Inv => LostOnlyRefused
  BY DEF Inv
<1> QED  BY <1>1, InvHolds, PTL

-----------------------------------------------------------------------------
(* A connection is an exchange of events and one response.                     *)

AllKinds == {"ok", "error", "command", "login", "serial", "console", "stdout", "stderr"}

(* The kinds of the messages of a log. *)
LEMMA KindsOf ==
    ASSUME TypeOK, NEW s \in Sessions
    PROVE  /\ Len(Kinds(s)) = Len(log[s]) /\ Kinds(s) \in Seq(AllKinds)
           /\ \A i \in 1..Len(log[s]) : Kinds(s)[i] = log[s][i].what
<1>1. Len(log[s]) \in Nat /\ log[s] \in Seq(Messages)
  BY OwnTypes
<1>2. \A i \in 1..Len(log[s]) : log[s][i].what \in AllKinds
  <2>1. \A m \in Messages : m.what \in AllKinds
    BY DEF Messages, Streams, AllKinds
  <2>2. \A i \in 1..Len(log[s]) : log[s][i] \in Messages
    BY <1>1, ElementOfSeq
  <2> QED  BY <2>1, <2>2
<1>3. PICK n \in Nat : n = Len(log[s])
  BY <1>1
<1>4. Kinds(s) \in [1..n -> AllKinds] /\ \A i \in 1..n : Kinds(s)[i] = log[s][i].what
  BY <1>2, <1>3 DEF Kinds
<1> QED  BY <1>3, <1>4, SeqDef, LenProperties

(* One message more is one kind more. *)
LEMMA KindsGrow ==
    ASSUME TypeOK, TypeOK', NEW s \in Sessions, NEW m \in Messages, Says(s, m)
    PROVE  Kinds(s)' = Append(Kinds(s), m.what)
<1>1. /\ Len(log'[s]) = Len(log[s]) + 1
      /\ \A i \in 1..Len(log[s]) : log'[s][i] = log[s][i]
      /\ log'[s][Len(log[s]) + 1] = m
  BY Grown
<1>2. Len(log[s]) \in Nat /\ m.what \in AllKinds
  BY OwnTypes DEF Messages, Streams, AllKinds
<1>3. PICK k : k = Kinds(s)
  OBVIOUS
<1>4. Len(k) = Len(log[s]) /\ k \in Seq(AllKinds) /\ \A i \in 1..Len(log[s]) : k[i] = log[s][i].what
  BY <1>3, KindsOf
<1>5. PICK a : a = Append(k, m.what)
  OBVIOUS
<1>6. /\ a \in Seq(AllKinds) /\ Len(a) = Len(k) + 1
      /\ \A i \in 1..Len(k) : a[i] = k[i]
      /\ a[Len(k) + 1] = m.what
  BY <1>2, <1>4, <1>5, AppendProperties
<1>7. DOMAIN a = 1..Len(log'[s]) /\ \A i \in 1..Len(log'[s]) : a[i] = log'[s][i].what
  <2>1. DOMAIN a = 1..Len(log'[s])
    BY <1>1, <1>2, <1>4, <1>6
  <2>2. ASSUME NEW i \in 1..Len(log'[s])
        PROVE  a[i] = log'[s][i].what
    <3>1. CASE i = Len(log[s]) + 1
      BY <1>1, <1>4, <1>6, <3>1
    <3>2. CASE i # Len(log[s]) + 1
      BY <1>1, <1>2, <1>4, <1>6, <3>2
    <3> QED  BY <3>1, <3>2
  <2> QED  BY <2>1, <2>2
<1>8. a = [i \in DOMAIN a |-> a[i]]
  BY <1>6
<1>9. a = [i \in 1..Len(log'[s]) |-> log'[s][i].what]
  BY <1>7, <1>8
<1> QED  BY <1>3, <1>5, <1>9 DEF Kinds

(* What the abstract specification knows of a log. *)
LEMMA HasKinds ==
    ASSUME TypeOK, NEW s \in Sessions, NEW kinds
    PROVE  Promise!Has(s, kinds) <=> \E i \in 1..Len(log[s]) : log[s][i].what \in kinds
  BY KindsOf DEF Promise!Has

(* What a connection promises does not change. *)
LEMMA JoinedKept ==
    ASSUME [Next]_vars
    PROVE  (~May("read"))' = ~May("read")
<1>1. scenario' = scenario
  BY DEF Next, vars
<1>2. May("read")' <=> May("read")
  BY <1>1 DEF May
<1>3. (~May("read"))' \in BOOLEAN /\ (~May("read")) \in BOOLEAN
  BY DEF May
<1> QED  BY <1>2, <1>3

(* The step of one session from one list of kinds to the next. *)
SaysKind(s, kind) ==
    /\ Kinds(s)' = Append(Kinds(s), kind)
    /\ \A t \in Sessions : t # s => Kinds(t)' = Kinds(t)

(* What a session says, and what the abstract specification hears. *)
LEMMA KindSaid ==
    ASSUME TypeOK, TypeOK', NEW s \in Sessions, Moves(s), NEW m \in Messages, Says(s, m)
    PROVE  SaysKind(s, m.what)
<1>1. ASSUME NEW t \in Sessions, t # s
      PROVE  Kinds(t)' = Kinds(t)
  BY <1>1, OthersKeep DEF OwnSocket, Kinds
<1> QED  BY <1>1, KindsGrow DEF SaysKind

(* The abstract specification hears it so. *)
LEMMA KindHeard ==
    ASSUME NEW s \in Sessions, NEW kind, SaysKind(s, kind)
    PROVE  Promise!Say(s, kind)
  BY DEF SaysKind, Promise!Say

(* Nothing is said where no log changes. *)
LEMMA NothingHeard ==
    ASSUME log' = log
    PROVE  [s \in Sessions |-> Kinds(s)]' = [s \in Sessions |-> Kinds(s)]
  BY DEF Kinds

(* A step of a session is a step of the exchange. *)
LEMMA MovesExchange ==
    ASSUME Inv, TypeOK', [Next]_vars, NEW s \in Sessions, Moves(s)
    PROVE  \/ Promise!Ask(s) \/ Promise!Command(s) \/ Promise!Event(s) \/ Promise!Respond(s)
           \/ Promise!Learn(s) \/ Promise!Detach(s) \/ Promise!Lose(s) \/ Promise!Die(s)
           \/ UNCHANGED <<log, child, client>>
<1>0. /\ TypeOK /\ ThreadsDone(s) /\ Drained(s) /\ AnswersRead(s) /\ AnswersTrue(s)
      /\ LostOnlyRefused
  BY DEF Inv
<1>1. /\ client \in [Sessions -> {"idle", "wait", "ok", "error", "lost", "killed"}]
      /\ child \in [Sessions -> {"none", "run", "exited", "failed"}]
      /\ DOMAIN log = Sessions /\ DOMAIN log' = Sessions
      /\ handler[s] # "idle" => client[s] # "idle"
  BY <1>0 DEF TypeOK, ClientTypeOK, SocketTypeOK, CommandTypeOK, AnswersRead
<1>2. CASE Connect(s)
  <2>1. /\ client[s] = "idle" /\ client' = [client EXCEPT ![s] = "wait"]
        /\ log' = log /\ child' = child
    BY <1>2 DEF Connect, Set, socketVars, commandVars
  <2> QED  BY <2>1, NothingHeard DEF Promise!Ask
<1>3. ASSUME NEW how, Quit(s, how), client[s] = "wait"
      PROVE  /\ Promise!Report(s, how)
             /\ UNCHANGED <<[t \in Sessions |-> Kinds(t)], child>>
  <2>1. client' = [client EXCEPT ![s] = how] /\ log' = log /\ child' = child
    BY <1>3 DEF Quit, Set, commandVars
  <2> QED  BY <1>3, <2>1, NothingHeard DEF Promise!Report
<1>4. CASE Killed(s)
  BY <1>3, <1>4 DEF Killed, Promise!Die
<1>5. CASE Receive(s)
  <2>1. PICK m : m = log[s][read[s] + 1]
    OBVIOUS
  <2>2. read[s] + 1 \in 1..Len(log[s])
    BY <1>0, <1>5, OwnTypes DEF Receive
  <2>3. CASE m.what \in {"ok", "error"}
    <3>1. Quit(s, m.what) /\ client[s] = "wait"
      BY <1>5, <2>1, <2>3 DEF Receive
    <3>2. Promise!Has(s, {m.what})
      BY <1>0, <2>1, <2>2, HasKinds
    <3> QED  BY <1>3, <2>3, <3>1, <3>2 DEF Promise!Learn, Promise!Responses
  <2>4. CASE m.what \notin {"ok", "error"}
    BY <1>5, <2>1, <2>4 DEF Receive, commandVars
  <2> QED  BY <2>3, <2>4
<1>6. CASE ReceiveFails(s)
  <2>1. /\ client[s] = "wait" /\ Quit(s, IF detached[s] THEN "ok" ELSE "lost")
        /\ shut[s] \/ (Closed(s) /\ read[s] = Len(log[s]))
    BY <1>6 DEF ReceiveFails
  <2>2. CASE detached[s]
    <3>1. Promise!Has(s, {"serial"})
      BY <1>0, <2>2, HasKinds DEF AnswersTrue
    <3> QED  BY <1>3, <2>1, <2>2, <3>1 DEF Promise!Detach
  <2>3. CASE ~detached[s]
    <3>1. /\ ~shut[s] /\ handler[s] = "end" /\ read[s] = Len(log[s])
      BY <1>0, <2>1, <2>3 DEF AnswersRead, Closed
    <3>2. ~Answered(s)
      BY <1>0, <2>1, <3>1 DEF AnswersRead, Answered, Sent
    <3>3. Dropped(s)
      BY <1>0, <3>1, <3>2 DEF AnswersRead
    <3>4. log[s] = <<>>
      BY <3>3 DEF Dropped
    <3>5. [t \in Sessions |-> Kinds(t)][s] = <<>>
      BY <3>4 DEF Kinds
    <3> QED  BY <1>3, <2>1, <2>3, <3>5 DEF Promise!Lose
  <2> QED  BY <2>2, <2>3
<1>7. CASE Type(s) \/ TypeEof(s) \/ TypeDetach(s) \/ ShutDown(s) \/ RelayIn(s)
  BY <1>7 DEF Type, TypeEof, TypeDetach, ShutDown, RelayIn, InputRelay, InputRelayEnds,
     clientVars, socketVars, commandVars
<1>8. CASE Command(s) \/ Spawn(s)
  <2>1. log' = log /\ client' = client /\ handler[s] # "idle"
    <3>1. handler[s] = "idle" => reader[s]["stdout"] = "none" /\ child[s] = "none"
      BY <1>0 DEF ThreadsDone, Drained, Streams
    <3> QED  BY <1>8, <3>1 DEF Command, ChildExits, ChildWrites, ChildBreaks, Spawn, clientVars,
                socketVars
  <2>2. \/ child' = child
        \/ Promise!Work(s, "none", "run") \/ Promise!Work(s, "run", "exited")
        \/ Promise!Work(s, "run", "failed")
    <3>1. handler[s] = "spawn" => child[s] = "none"
      BY <1>0 DEF ThreadsDone, Drained, Streams
    <3> QED  BY <1>8, <3>1 DEF Command, ChildExits, ChildWrites, ChildBreaks, Spawn, Set,
                Promise!Work
  <2> QED  BY <1>1, <2>1, <2>2, NothingHeard DEF Promise!Command
<1>9. UNCHANGED <<child, client>> \/ ~(Handler(s) \/ RelayOut(s) \/ \E r \in Streams : Reader(s, r))
      \/ Spawn(s)
  BY DEF Handler, Unread, Announce, SpawnFails, Wait, JoinStdout, JoinStderr, Answer, Attach,
     AttachFails, Greet, GreetFails, Waitpid, Join, AttachError, RelayOut, RelayReads, RelaySends, RelayEnds,
     Reader, ReaderReads, ReaderSends, ReaderEnds, clientVars, commandVars
<1>10. CASE UNCHANGED log[s] /\ UNCHANGED <<child, client>>
  <2>1. \A t \in Sessions : log'[t] = log[t]
    BY <1>0, <1>10, OthersKeep DEF OwnSocket
  <2>2. log' = log
    BY <1>0, <1>1, <2>1 DEF TypeOK, SocketTypeOK
  <2> QED  BY <1>10, <2>2
<1>11. ASSUME UNCHANGED <<child, client>>, handler[s] # "end", handler[s] # "idle",
              NEW m \in Messages, Says(s, m), m.what \in Promise!Events
       PROVE  Promise!Event(s)
  <2>1. ~Promise!Has(s, Promise!Responses)
    BY <1>0, <1>11, HasKinds DEF ThreadsDone, Promise!Responses
  <2>2. Promise!Say(s, m.what)
    BY <1>0, <1>11, KindSaid, KindHeard
  <2> QED  BY <1>1, <1>11, <2>1, <2>2 DEF Promise!Event
<1>12. ASSUME UNCHANGED <<child, client>>, NEW r \in Streams, ReaderSends(s, r),
              Says(s, Message(r, taken[s][r]))
       PROVE  Promise!Event(s)
  <2>1. PICK m \in Messages : m = Message(r, taken[s][r])
    BY <1>0, SaidIsMessage
  <2>2. m.what = r /\ r \in Promise!Events
    BY <2>1, MessageParts DEF Promise!Events, Streams
  <2>3. reader[s][r] = "send" /\ handler[s] # "idle"
    BY <1>0, <1>12 DEF ReaderSends, ThreadsDone
  <2>4. ~May("read") => ~Promise!Has(s, Promise!Responses)
    BY <1>0, <2>3, HasKinds DEF ThreadsDone, Promise!Responses
  <2>5. Promise!Say(s, r)
    BY <1>0, <1>12, <2>1, <2>2, KindSaid, KindHeard
  <2> QED  BY <1>1, <1>12, <2>2, <2>3, <2>4, <2>5 DEF Promise!Event
<1>13. CASE Answer(s) /\ Says(s, Message(verdict[s], 0)) /\ UNCHANGED <<child, client>>
  <2>1. handler[s] = "answer" /\ verdict[s] \in {"ok", "error"}
    BY <1>0, <1>13 DEF Answer, TypeOK, HandlerTypeOK
  <2>2. PICK m \in Messages : m = Message(verdict[s], 0) /\ m.what = verdict[s]
    BY <1>0, <2>1, SaidIsMessage, MessageParts
  <2>3. ~Promise!Has(s, Promise!Responses)
    BY <1>0, <2>1, HasKinds DEF ThreadsDone, Promise!Responses
  <2>4. Promise!Say(s, verdict[s])
    BY <1>0, <1>13, <2>2, KindSaid, KindHeard
  <2>5. verdict[s] = "ok" =>
           child[s] = "exited" \/ (child[s] = "none" /\ Promise!Has(s, Promise!Greetings))
    BY <1>0, <2>1, HasKinds DEF AnswersTrue, Greeted, Promise!Greetings
  <2> QED  BY <1>1, <1>13, <2>1, <2>3, <2>4, <2>5 DEF Promise!Respond
<1>14. CASE /\ Announce(s) /\ Says(s, Message("command", 0)) /\ UNCHANGED <<child, client>>
  <2>1. handler[s] = "command" /\ "command" \in Promise!Events
    BY <1>14 DEF Announce, Promise!Events
  <2> QED  BY <1>0, <1>11, <1>14, <2>1, SaidIsMessage, MessageParts
<1>15. ASSUME NEW what \in {"login", "serial"}, Greet(s), Says(s, Message(what, 0)),
              UNCHANGED <<child, client>>
       PROVE  Promise!Event(s)
  <2>1. handler[s] = "greet" /\ what \in Promise!Events
    BY <1>15 DEF Greet, Promise!Events
  <2>2. Message(what, 0) \in Messages /\ Message(what, 0).what = what
    BY <1>0, SaidIsMessage, MessageParts
  <2> QED  BY <1>11, <1>15, <2>1, <2>2
<1>16. CASE RelaySends(s) /\ Says(s, Message("console", hand[s])) /\ UNCHANGED <<child, client>>
  <2>1. handler[s] \notin {"end", "idle"} /\ "console" \in Promise!Events
    BY <1>0, <1>16 DEF RelaySends, ThreadsDone, Promise!Events
  <2> QED  BY <1>0, <1>11, <1>16, <2>1, SaidIsMessage, MessageParts
<1>17. CASE (Handler(s) /\ ~Spawn(s)) \/ RelayOut(s) \/ \E r \in Streams : Reader(s, r)
  <2>1. UNCHANGED <<child, client>>
    BY <1>9, <1>17 DEF RelayOut, RelayReads, RelaySends, RelayEnds, Reader, ReaderReads,
       ReaderSends, ReaderEnds, clientVars, commandVars
  <2> QED  BY <1>0, <1>10, <1>12, <1>13, <1>14, <1>15, <1>16, <2>1, WhoSays
<1> QED  BY <1>2, <1>4, <1>5, <1>6, <1>7, <1>8, <1>17 DEF Moves, Client

(* The daemon and its client keep the promise of an exchange: events, then one response, and
   a report that is true, for any number of sessions and any size of sockets and pipes. *)
THEOREM ReportsAreTrue == Spec => ExchangeSpec
<1>1. Init => Promise!Init
  <2> SUFFICES ASSUME Init
               PROVE  Promise!Init
    OBVIOUS
  <2>1. (~May("read")) \in BOOLEAN
    BY DEF May
  <2>2. [s \in Sessions |-> Kinds(s)] = [s \in Sessions |-> <<>>]
    BY DEF Init, Kinds
  <2> QED  BY <2>1, <2>2 DEF Init, Promise!Init
<1>2. Inv /\ Inv' /\ [Next]_vars => [Promise!Next]_(Promise!vars)
  <2> SUFFICES ASSUME Inv, Inv', [Next]_vars
               PROVE  Promise!Next \/ UNCHANGED <<~May("read"), [s \in Sessions |-> Kinds(s)],
                                                  child, client>>
    BY DEF Promise!vars
  <2>1. (~May("read"))' = ~May("read")
    BY JoinedKept
  <2>2. CASE UNCHANGED <<log, child, client>>
    BY <2>1, <2>2, NothingHeard
  <2>3. ASSUME NEW s \in Sessions, Moves(s)
        PROVE  Promise!Next \/ UNCHANGED <<log, child, client>>
    <3>1. TypeOK'
      BY DEF Inv
    <3> QED  BY <2>1, <2>3, <3>1, MovesExchange DEF Promise!Next
  <2>4. (\E s \in Sessions : Moves(s)) \/ UNCHANGED <<log, child, client>>
    BY DEF Next, Moves, ConsoleWrites, ConsoleEnds, vars, clientVars, socketVars, commandVars
  <2> QED  BY <2>2, <2>3, <2>4
<1> QED  BY <1>1, <1>2, InvHolds, PTL DEF Spec, ExchangeSpec, Promise!Spec
=============================================================================
