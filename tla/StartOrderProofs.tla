-------------------------- MODULE StartOrderProofs --------------------------
(* Dependencies are started first: StartOrder implements DependenciesFirst;  *)
(* what is enabled is started or has failed, and a start fails with a reason *)
(* in its dependencies: for every set of resources, every dependency graph   *)
(* and any number of clients.                                                *)
EXTENDS StartOrder, TLAPS

-----------------------------------------------------------------------------
(* Sequences as stacks of activations, the innermost first.                 *)

(* A call: a frame on top, the others one place further down. *)
LEMMA Push ==
    ASSUME NEW F, NEW s \in Seq(F), NEW f \in F
    PROVE  LET u == <<f>> \o s IN
           /\ u \in Seq(F) /\ Len(u) = Len(s) + 1 /\ u[1] = f
           /\ \A i \in 1..Len(s) : u[i + 1] = s[i]
           /\ \A i \in 2..Len(u) : u[i] = s[i - 1]
  OBVIOUS

(* A return: the top frame gone, the others one place up. *)
LEMMA Pop ==
    ASSUME NEW F, NEW s \in Seq(F), s # <<>>
    PROVE  /\ Tail(s) \in Seq(F) /\ Len(Tail(s)) = Len(s) - 1
           /\ Len(s) \in Nat \ {0} /\ Head(s) = s[1] /\ s[1] \in F
           /\ \A i \in 1..Len(Tail(s)) : Tail(s)[i] = s[i + 1]
  OBVIOUS

(* A step of the top frame: it is replaced. *)
LEMMA Replace ==
    ASSUME NEW F, NEW s \in Seq(F), s # <<>>, NEW f \in F
    PROVE  LET u == <<f>> \o Tail(s) IN
           /\ u \in Seq(F) /\ Len(u) = Len(s) /\ u[1] = f
           /\ \A i \in 2..Len(s) : u[i] = s[i]
<1>1. Tail(s) \in Seq(F) /\ Len(Tail(s)) = Len(s) - 1 /\ Len(s) \in Nat \ {0}
  BY Pop
<1>2. \A i \in 1..Len(Tail(s)) : Tail(s)[i] = s[i + 1]
  BY Pop
<1> QED  BY <1>1, <1>2, Push

-----------------------------------------------------------------------------
(* The frames of a start: one of the resources E and the dependencies still to try. *)
Frames(E) == [name : E, todo : SUBSET Names]

(* Tried, when the top activation has just called n. *)
TriedBut(g, run, frames, n) ==
    \A i \in 1..Len(frames) :
        g[frames[i].name] \ frames[i].todo
           \subseteq run \union (IF i = 1 THEN {n} ELSE {frames[i - 1].name})

(* More may run. *)
LEMMA Grow ==
    ASSUME NEW g, NEW run, NEW more, run \subseteq more, NEW s, Tried(g, run, s)
    PROVE  Tried(g, more, s)
  BY DEF Tried

(* The call of a resource that runs already. *)
LEMMA CallRunning ==
    ASSUME NEW g, NEW run, NEW s, NEW n \in run, TriedBut(g, run, s, n)
    PROVE  Tried(g, run, s)
  BY DEF Tried, TriedBut

(* The call of one that does not. *)
LEMMA CallPushes ==
    ASSUME NEW E, NEW g, NEW s \in Seq(Frames(E)), NEW n \in E,
           g[n] \subseteq Names, NoneTwice(s), n \notin OnStack(s)
    PROVE  LET u == <<Frame(n, g[n])>> \o s IN
           /\ u \in Seq(Frames(E)) /\ u # <<>>
           /\ NoneTwice(u)
           /\ \A run : TriedBut(g, run, s, n) => Tried(g, run, u)
<1> DEFINE f == Frame(n, g[n])
           u == <<f>> \o s
<1>1. f \in Frames(E) /\ f.name = n /\ f.todo = g[n]
  BY DEF Frame, Frames
<1>2. /\ u \in Seq(Frames(E)) /\ Len(u) = Len(s) + 1 /\ u[1] = f
      /\ \A i \in 2..Len(u) : u[i] = s[i - 1]
  BY <1>1, Push
<1> HIDE DEF f, u
<1>3. Len(s) \in Nat /\ u # <<>>
  BY <1>2
<1>4. \A i \in 1..Len(u) : i = 1 \/ (i \in 2..Len(u) /\ i - 1 \in 1..Len(s))
  BY <1>2, <1>3
<1>5. NoneTwice(u)
  <2> SUFFICES ASSUME NEW i \in 1..Len(u), NEW j \in 1..Len(u),
                      u[i].name = u[j].name
               PROVE  i = j
    BY DEF NoneTwice
  <2>1. \A k \in 1..Len(s) : s[k].name # n
    BY DEF OnStack
  <2>2. CASE i = 1 \/ j = 1
    BY <2>1, <2>2, <1>1, <1>2, <1>4
  <2>3. CASE i # 1 /\ j # 1
    <3>1. s[i - 1].name = s[j - 1].name /\ i - 1 \in 1..Len(s) /\ j - 1 \in 1..Len(s)
      BY <2>3, <1>2, <1>4
    <3>2. i - 1 = j - 1
      BY <3>1 DEF NoneTwice
    <3> QED  BY <3>2, <1>2, <1>3
  <2> QED  BY <2>2, <2>3
<1>6. ASSUME NEW run, TriedBut(g, run, s, n)
      PROVE  Tried(g, run, u)
  <2> SUFFICES ASSUME NEW i \in 1..Len(u)
               PROVE  g[u[i].name] \ u[i].todo
                         \subseteq run \union (IF i = 1 THEN {} ELSE {u[i - 1].name})
    BY DEF Tried
  <2>1. CASE i = 1
    BY <2>1, <1>1, <1>2
  <2>2. CASE i = 2
    <3>1. u[2] = s[1] /\ u[1].name = n /\ 1 \in 1..Len(s)
      BY <2>2, <1>1, <1>2, <1>3
    <3>2. g[s[1].name] \ s[1].todo \subseteq run \union {n}
      BY <3>1, <1>6 DEF TriedBut
    <3> QED  BY <3>1, <3>2, <2>2
  <2>3. CASE i \notin {1, 2}
    <3>1. /\ u[i] = s[i - 1] /\ u[i - 1] = s[(i - 1) - 1]
          /\ i - 1 \in 1..Len(s) /\ i - 1 # 1
      BY <2>3, <1>2, <1>3
    <3>2. g[s[i - 1].name] \ s[i - 1].todo \subseteq run \union {s[(i - 1) - 1].name}
      BY <3>1, <1>6 DEF TriedBut
    <3> QED  BY <3>1, <3>2, <2>3
  <2> QED  BY <2>1, <2>2, <2>3
<1> QED  BY <1>2, <1>3, <1>5, <1>6 DEF u, f

(* The top activation takes d from its list. *)
LEMMA BelowKept ==
    ASSUME NEW E, NEW s \in Seq(Frames(E)), s # <<>>, NEW d, NoneTwice(s)
    PROVE  LET u == <<Frame(Head(s).name, Head(s).todo \ {d})>> \o Tail(s) IN
           /\ u \in Seq(Frames(E)) /\ u # <<>>
           /\ NoneTwice(u)
           /\ \A g, run : Tried(g, run, s) => TriedBut(g, run, u, d)
<1> DEFINE f == Frame(Head(s).name, Head(s).todo \ {d})
           u == <<f>> \o Tail(s)
<1>1. Head(s) = s[1] /\ s[1] \in Frames(E) /\ Len(s) \in Nat \ {0}
  BY Pop
<1>2. f \in Frames(E) /\ f.name = s[1].name /\ f.todo = s[1].todo \ {d}
  BY <1>1 DEF Frame, Frames
<1> HIDE DEF f
<1>3. /\ u \in Seq(Frames(E)) /\ Len(u) = Len(s) /\ u[1] = f
      /\ \A i \in 2..Len(s) : u[i] = s[i]
  BY <1>2, Replace
<1> HIDE DEF u
<1>4. \A i \in 1..Len(s) : i = 1 \/ (i \in 2..Len(s) /\ i - 1 \in 1..Len(s))
  BY <1>1
<1>5. \A i \in 1..Len(s) : u[i].name = s[i].name
  BY <1>2, <1>3, <1>4
<1>6. NoneTwice(u)
  BY <1>3, <1>5 DEF NoneTwice
<1>7. ASSUME NEW g, NEW run, Tried(g, run, s)
      PROVE  TriedBut(g, run, u, d)
  <2> SUFFICES ASSUME NEW i \in 1..Len(u)
               PROVE  g[u[i].name] \ u[i].todo
                         \subseteq run \union (IF i = 1 THEN {d} ELSE {u[i - 1].name})
    BY DEF TriedBut
  <2>1. CASE i = 1
    <3>1. g[s[1].name] \ s[1].todo \subseteq run
      BY <2>1, <1>3, <1>7 DEF Tried
    <3>2. u[1].name = s[1].name /\ u[1].todo = s[1].todo \ {d}
      BY <1>2, <1>3
    <3> QED  BY <3>1, <3>2, <2>1
  <2>2. CASE i # 1
    <3>1. u[i] = s[i] /\ u[i - 1].name = s[i - 1].name
      BY <2>2, <1>3, <1>4, <1>5
    <3>2. g[s[i].name] \ s[i].todo \subseteq run \union {s[i - 1].name}
      BY <2>2, <1>3, <1>7 DEF Tried
    <3> QED  BY <3>1, <3>2, <2>2
  <2> QED  BY <2>1, <2>2
<1>8. u # <<>>
  BY <1>1, <1>3
<1> QED  BY <1>3, <1>6, <1>7, <1>8 DEF u, f

(* The top activation has started its resource and returns. *)
LEMMA ReturnKept ==
    ASSUME NEW E, NEW s \in Seq(Frames(E)), s # <<>>, NoneTwice(s)
    PROVE  /\ Tail(s) \in Seq(Frames(E)) /\ NoneTwice(Tail(s))
           /\ \A g, run : Tried(g, run, s)
                          => Tried(g, run \union {Head(s).name}, Tail(s))
<1> DEFINE u == Tail(s)
<1>1. /\ u \in Seq(Frames(E)) /\ Len(u) = Len(s) - 1 /\ Head(s) = s[1]
      /\ Len(s) \in Nat \ {0}
      /\ \A i \in 1..Len(u) : u[i] = s[i + 1]
  BY Pop
<1> HIDE DEF u
<1>2. \A i \in 1..Len(u) : i + 1 \in 1..Len(s) /\ i + 1 # 1 /\ (i + 1) - 1 = i
  BY <1>1
<1>3. NoneTwice(u)
  <2> SUFFICES ASSUME NEW i \in 1..Len(u), NEW j \in 1..Len(u),
                      u[i].name = u[j].name
               PROVE  i = j
    BY DEF NoneTwice
  <2>1. i + 1 = j + 1
    BY <1>1, <1>2 DEF NoneTwice
  <2> QED  BY <2>1, <1>1
<1>4. ASSUME NEW g, NEW run, Tried(g, run, s)
      PROVE  Tried(g, run \union {s[1].name}, u)
  <2> SUFFICES ASSUME NEW i \in 1..Len(u)
               PROVE  g[u[i].name] \ u[i].todo
                         \subseteq (run \union {s[1].name})
                                   \union (IF i = 1 THEN {} ELSE {u[i - 1].name})
    BY DEF Tried
  <2>1. g[s[i + 1].name] \ s[i + 1].todo \subseteq run \union {s[i].name}
    BY <1>2, <1>4 DEF Tried
  <2>2. CASE i = 1
    BY <2>1, <2>2, <1>1
  <2>3. CASE i # 1
    <3>1. i - 1 \in 1..Len(u) /\ (i - 1) + 1 = i
      BY <2>3, <1>1
    <3>2. u[i - 1] = s[i]
      BY <3>1, <1>1
    <3> QED  BY <3>2, <2>1, <2>3, <1>1
  <2> QED  BY <2>2, <2>3
<1> QED  BY <1>1, <1>3, <1>4 DEF u

-----------------------------------------------------------------------------
(* What the assumption says of one scenario. *)
LEMMA ScenarioType ==
    \A sc \in Scenarios : sc.deaths \in Nat /\ sc.jails \subseteq Names /\ sc.vms \subseteq Names
  BY OrderAssumption

(* What stays while the scenario does. *)
LEMMA Same ==
    ASSUME UNCHANGED scenario
    PROVE  /\ Calm' = Calm /\ Steady' = Steady /\ Exists' = Exists /\ Vms' = Vms
           /\ Starters' = Starters /\ OneStarter' = OneStarter
           /\ \A t, n : MayGo(t, n)' = MayGo(t, n)
  BY DEF Calm, Steady, Exists, Vms, Starters, OneStarter, MayGo

(* One thread starts at a time when one thread starts. *)
LEMMA Alone ==
    ASSUME StackInv, Unstarted, OneStarter, NEW t \in Callers, NEW u \in Callers,
           stack[t] # <<>>, stack[u] # <<>>
    PROVE  t = u
  BY DEF StackInv, Phases, Unstarted, OneStarter, Callers

(* The phase of a thread that does nothing, while what stops may stop. *)
LEMMA PhaseKept ==
    ASSUME UNCHANGED scenario, NEW t, PhaseOK(t),
           stack'[t] = stack[t], phase'[t] = phase[t],
           \A n \in running \ running' : stack[t] = <<>> \/ MayGo(t, n)
    PROVE  PhaseOK(t)'
<1>1. \A n : MayGo(t, n)' = MayGo(t, n)
  BY Same
<1>2. stack[t] # <<>> => Top(t)' = Top(t)
  BY DEF Top
<1> QED  BY <1>1, <1>2 DEF PhaseOK

(* A call of start_with_stack that does not fail. *)
LEMMA CallStep ==
    ASSUME StackInv, NEW t \in Callers, NEW n \in Exists,
           NEW frames \in Seq(Frames(Exists)), NoneTwice(frames),
           Steady => TriedBut(deps, running, frames, n),
           daemon = (IF t = Main THEN "boot" ELSE "serve"), phase[t] = "deps",
           Call(t, n, frames),
           queue' \subseteq queue, UNCHANGED <<scenario, deps, deaths>>
    PROVE  StackInv'
<1>1. TypeOK /\ Phases /\ StacksOK /\ PhasesOK
  BY DEF StackInv
<1>2. Steady' = Steady /\ Exists' = Exists
  BY Same
<1> DEFINE u == IF n \in running THEN frames ELSE <<Frame(n, deps[n])>> \o frames
<1>3. /\ stack' = [stack EXCEPT ![t] = u]
      /\ running' = running /\ daemon' = daemon /\ phase' = phase
      /\ n \in running \/ n \notin OnStack(frames)
  BY DEF Call
<1>4. deps[n] \subseteq Names
  BY <1>1, ScenarioType DEF TypeOK, Graphs, Exists
<1>5. /\ u \in Seq(Frames(Exists)) /\ NoneTwice(u)
      /\ Steady => Tried(deps, running, u)
  <2>1. CASE n \in running
    BY <2>1, CallRunning
  <2>2. CASE n \notin running
    <3>1. n \notin OnStack(frames)
      BY <1>3, <2>2
    <3> DEFINE v == <<Frame(n, deps[n])>> \o frames
    <3>2. /\ v \in Seq(Frames(Exists)) /\ NoneTwice(v)
          /\ \A run : TriedBut(deps, run, frames, n) => Tried(deps, run, v)
      BY <3>1, <1>4, CallPushes
    <3>3. u = v
      BY <2>2
    <3> HIDE DEF u, v
    <3> QED  BY <3>2, <3>3
  <2> QED  BY <2>1, <2>2
<1> HIDE DEF u
<1>6. stack \in [Callers -> Seq(Frames(Exists))]
  BY <1>1 DEF TypeOK, Frames
<1>7. /\ stack' \in [Callers -> Seq(Frames(Exists))] /\ stack'[t] = u
      /\ \A c \in Callers \ {t} : stack'[c] = stack[c]
  BY <1>3, <1>5, <1>6
<1>8. TypeOK'
  <2>1. stack' \in [Callers -> Seq([name : Exists', todo : SUBSET Names])]
    BY <1>2, <1>7 DEF Frames
  <2>2. scenario \in Scenarios /\ deps' \in Graphs'
    BY <1>1, <1>2 DEF TypeOK, Graphs
  <2> QED  BY <2>1, <2>2, <1>1, <1>2, <1>3 DEF TypeOK
<1>9. Phases'
  BY <1>1, <1>3, <1>7 DEF Phases
<1>10. StacksOK'
  BY <1>1, <1>2, <1>3, <1>5, <1>7 DEF StacksOK
<1>11. PhasesOK'
  <2> SUFFICES ASSUME NEW c \in Callers PROVE PhaseOK(c)'
    BY DEF PhasesOK
  <2>1. CASE c = t
    BY <1>3, <2>1 DEF PhaseOK
  <2>2. CASE c # t
    BY <1>1, <1>3, <1>7, <2>2, PhaseKept DEF PhasesOK
  <2> QED  BY <2>1, <2>2
<1> QED  BY <1>8, <1>9, <1>10, <1>11 DEF StackInv

(* An error unwinds the stack, and may take back what was started last; at boot it
   ends the daemon. *)
LEMMA FailStep ==
    ASSUME StackInv, Unstarted, NEW t \in Callers, stack[t] # <<>>, Fail(t),
           running' = running \/ GivesUp(t),
           UNCHANGED <<scenario, deps, deaths>>
    PROVE  StackInv'
<1>1. TypeOK /\ Phases /\ StacksOK /\ PhasesOK
  BY DEF StackInv
<1>2. Steady' = Steady /\ Exists' = Exists
  BY Same
<1>3. stack' = [stack EXCEPT ![t] = <<>>] /\ phase' = [phase EXCEPT ![t] = "deps"]
  BY DEF Fail
<1>4. stack \in [Callers -> Seq(Frames(Exists))] /\ phase \in [Callers -> {"deps", "inner", "up"}]
  BY <1>1 DEF TypeOK, Frames
<1>5. /\ stack' \in [Callers -> Seq(Frames(Exists))] /\ stack'[t] = <<>>
      /\ \A c \in Callers \ {t} : stack'[c] = stack[c] /\ phase'[c] = phase[c]
      /\ phase' \in [Callers -> {"deps", "inner", "up"}] /\ phase'[t] = "deps"
  BY <1>3, <1>4
<1>6. running' \subseteq running /\ \A n \in running \ running' : n \in scenario.failing
  BY DEF GivesUp
<1>7. TypeOK'
  <2>1. stack' \in [Callers -> Seq([name : Exists', todo : SUBSET Names])]
    BY <1>2, <1>5 DEF Frames
  <2>2. /\ scenario \in Scenarios /\ deps' \in Graphs'
        /\ daemon' \in {"down", "boot", "serve"} /\ queue' \subseteq scenario.jails
    BY <1>1, <1>2 DEF TypeOK, Graphs, Fail
  <2> QED  BY <2>1, <2>2, <1>1, <1>2, <1>5, <1>6 DEF TypeOK
<1>8. Phases'
  <2> SUFFICES ASSUME NEW c \in Callers, stack'[c] # <<>>
               PROVE  daemon' = (IF c = Main THEN "boot" ELSE "serve")
    BY DEF Phases
  <2>1. c # t /\ stack[c] # <<>>
    BY <1>5
  <2>2. /\ daemon = (IF c = Main THEN "boot" ELSE "serve")
        /\ daemon = (IF t = Main THEN "boot" ELSE "serve")
    BY <1>1, <2>1 DEF Phases
  <2> QED  BY <2>1, <2>2 DEF Fail
<1>9. NoneTwice(<<>>) /\ \A g, run : Tried(g, run, <<>>)
  BY DEF NoneTwice, Tried
<1>10. ASSUME NEW c \in Callers \ {t}, NEW n \in running \ running', stack[c] # <<>>
       PROVE  ~OneStarter /\ n \in scenario.failing
  BY <1>6, <1>10, Alone
<1>11. StacksOK'
  <2> SUFFICES ASSUME NEW c \in Callers
               PROVE  NoneTwice(stack'[c]) /\ (Steady => Tried(deps, running', stack'[c]))
    BY <1>2 DEF StacksOK
  <2>1. CASE stack'[c] = <<>>
    BY <1>9, <2>1
  <2>2. CASE stack'[c] # <<>>
    <3>1. c # t /\ stack'[c] = stack[c]
      BY <1>5, <2>2
    <3>2. Steady => running' = running
      BY <1>6, <1>10, <2>2, <3>1 DEF Steady
    <3> QED  BY <1>1, <3>1, <3>2 DEF StacksOK
  <2> QED  BY <2>1, <2>2
<1>12. PhasesOK'
  <2> SUFFICES ASSUME NEW c \in Callers PROVE PhaseOK(c)'
    BY DEF PhasesOK
  <2>1. CASE c = t
    BY <1>5, <2>1 DEF PhaseOK
  <2>2. CASE c # t
    <3>1. \A n \in running \ running' : stack[c] = <<>> \/ MayGo(c, n)
      BY <1>10, <2>2 DEF MayGo
    <3> QED  BY <1>1, <1>5, <2>2, <3>1, PhaseKept DEF PhasesOK
  <2> QED  BY <2>1, <2>2
<1> QED  BY <1>7, <1>8, <1>11, <1>12 DEF StackInv

(* A thread goes on in start_inner, where a jail or VM may appear. *)
LEMMA EnterStep ==
    ASSUME StackInv, NEW t \in Callers, stack[t] # <<>>, Top(t).todo = {},
           NEW p \in {"inner", "up"}, Enter(t, p), p = "up" => Top(t).name \in running',
           running' \in {running, running \union {Top(t).name}},
           UNCHANGED <<scenario, deps>>
    PROVE  StackInv'
<1>1. TypeOK /\ Phases /\ StacksOK /\ PhasesOK
  BY DEF StackInv
<1>2. Steady' = Steady /\ Exists' = Exists
  BY Same
<1>3. /\ phase' = [phase EXCEPT ![t] = p]
      /\ UNCHANGED <<daemon, queue, stack, deaths>>
  BY DEF Enter
<1>4. phase' \in [Callers -> {"deps", "inner", "up"}] /\ phase'[t] = p
      /\ \A c \in Callers \ {t} : phase'[c] = phase[c]
  BY <1>1, <1>3 DEF TypeOK
<1>5. Top(t).name \in Exists
  <2>1. stack[t] \in Seq(Frames(Exists))
    BY <1>1 DEF TypeOK, Frames
  <2>2. Top(t) \in Frames(Exists)
    BY <2>1, Pop DEF Top
  <2> QED  BY <2>2 DEF Frames
<1>6. TypeOK'
  <2>1. running' \subseteq Exists
    BY <1>1, <1>5 DEF TypeOK
  <2> QED  BY <1>1, <1>2, <1>3, <1>4, <2>1 DEF TypeOK, Graphs
<1>7. Phases'
  BY <1>1, <1>3 DEF Phases
<1>8. StacksOK'
  <2> SUFFICES ASSUME NEW c \in Callers
               PROVE  NoneTwice(stack[c]) /\ (Steady => Tried(deps, running', stack[c]))
    BY <1>2, <1>3 DEF StacksOK
  <2>1. running \subseteq running'
    OBVIOUS
  <2> QED  BY <1>1, <2>1, Grow DEF StacksOK
<1>9. PhasesOK'
  <2> SUFFICES ASSUME NEW c \in Callers PROVE PhaseOK(c)'
    BY DEF PhasesOK
  <2>1. CASE c = t
    <3>1. Top(t)' = Top(t)
      BY <1>3 DEF Top
    <3> QED  BY <1>3, <1>4, <2>1, <3>1 DEF PhaseOK
  <2>2. CASE c # t
    BY <1>1, <1>3, <1>4, <2>2, PhaseKept DEF PhasesOK
  <2> QED  BY <2>1, <2>2
<1> QED  BY <1>6, <1>7, <1>8, <1>9 DEF StackInv

(* The end of start_inner. *)
LEMMA ReturnStep ==
    ASSUME StackInv, NEW t \in Callers, Return(t), UNCHANGED <<scenario, deps>>
    PROVE  StackInv'
<1>1. TypeOK /\ Phases /\ StacksOK /\ PhasesOK
  BY DEF StackInv
<1>2. Steady' = Steady /\ Exists' = Exists
  BY Same
<1>3. /\ stack[t] # <<>> /\ phase[t] = "up" /\ Top(t).name \in running \union Vms
      /\ stack' = [stack EXCEPT ![t] = Tail(@)] /\ phase' = [phase EXCEPT ![t] = "deps"]
      /\ UNCHANGED <<running, daemon, queue, deaths>>
  BY DEF Return
<1>4. stack \in [Callers -> Seq(Frames(Exists))] /\ stack[t] \in Seq(Frames(Exists))
  BY <1>1 DEF TypeOK, Frames
<1>5. Steady => Top(t).name \in running
  <2> SUFFICES ASSUME Steady, Top(t).name \notin running PROVE FALSE
    OBVIOUS
  <2>1. Top(t).name \in Vms
    BY <1>3
  <2>2. MayGo(t, Top(t).name)
    BY <1>1, <1>3 DEF PhasesOK, PhaseOK
  <2>3. Top(t).name \in Names
    BY <2>1, ScenarioType, <1>1 DEF Vms, TypeOK
  <2> QED  BY <2>1, <2>2, <2>3 DEF MayGo, Steady, Calm
<1>6. /\ Tail(stack[t]) \in Seq(Frames(Exists)) /\ NoneTwice(Tail(stack[t]))
      /\ Steady => Tried(deps, running, Tail(stack[t]))
  <2>1. /\ Tail(stack[t]) \in Seq(Frames(Exists)) /\ NoneTwice(Tail(stack[t]))
        /\ Steady => Tried(deps, running \union {Top(t).name}, Tail(stack[t]))
    BY <1>1, <1>3, <1>4, ReturnKept DEF Top, StacksOK
  <2>2. Steady => running \union {Top(t).name} = running
    BY <1>5
  <2> QED  BY <2>1, <2>2
<1>7. /\ stack' \in [Callers -> Seq(Frames(Exists))] /\ stack'[t] = Tail(stack[t])
      /\ \A c \in Callers \ {t} : stack'[c] = stack[c] /\ phase'[c] = phase[c]
      /\ phase' \in [Callers -> {"deps", "inner", "up"}] /\ phase'[t] = "deps"
  BY <1>1, <1>3, <1>4, <1>6 DEF TypeOK
<1>8. TypeOK'
  <2>1. stack' \in [Callers -> Seq([name : Exists', todo : SUBSET Names])]
    BY <1>2, <1>7 DEF Frames
  <2> QED  BY <2>1, <1>1, <1>2, <1>3, <1>7 DEF TypeOK, Graphs
<1>9. Phases'
  BY <1>1, <1>3, <1>7 DEF Phases
<1>10. StacksOK'
  BY <1>1, <1>2, <1>3, <1>6, <1>7 DEF StacksOK
<1>11. PhasesOK'
  <2> SUFFICES ASSUME NEW c \in Callers PROVE PhaseOK(c)'
    BY DEF PhasesOK
  <2>1. CASE c = t
    BY <1>7, <2>1 DEF PhaseOK
  <2>2. CASE c # t
    BY <1>1, <1>3, <1>7, <2>2, PhaseKept DEF PhasesOK
  <2> QED  BY <2>1, <2>2
<1> QED  BY <1>8, <1>9, <1>10, <1>11 DEF StackInv

(* Every step preserves the invariant. *)
LEMMA StackStep == StackInv /\ Unstarted /\ [Next]_vars => StackInv'
<1> SUFFICES ASSUME StackInv, Unstarted, [Next]_vars PROVE StackInv'
  OBVIOUS
<1>0. TypeOK /\ Phases /\ StacksOK /\ PhasesOK
  BY DEF StackInv
<1>1. stack \in [Callers -> Seq(Frames(Exists))]
  BY <1>0 DEF TypeOK, Frames
<1>2. scenario.deaths \in Nat /\ scenario.jails \subseteq Exists /\ Exists \subseteq Names
  BY <1>0, ScenarioType DEF TypeOK, Exists
<1>3. NoneTwice(<<>>) /\ \A g, run : Tried(g, run, <<>>)
  BY DEF NoneTwice, Tried
<1>4. <<>> \in Seq(Frames(Exists)) /\ \A g, run, n : TriedBut(g, run, <<>>, n)
  BY DEF TriedBut
<1>5. CASE UNCHANGED <<scenario, stack, phase>> /\ \/ Boot /\ UNCHANGED deps
                                                   \/ Serve /\ UNCHANGED deps
  <2>1. /\ Steady' = Steady /\ Exists' = Exists /\ UNCHANGED <<deps, running, deaths>>
        /\ daemon' \in {"boot", "serve"} /\ queue' \subseteq scenario.jails
    BY <1>0, <1>5, Same DEF Boot, Serve, TypeOK
  <2>2. TypeOK'
    BY <1>0, <1>5, <2>1 DEF TypeOK, Graphs
  <2>3. Phases'
    <3> SUFFICES ASSUME NEW c \in Callers, stack[c] # <<>>
                 PROVE  FALSE
      BY <1>5 DEF Phases
    <3> QED  BY <1>0, <1>5 DEF Phases, Boot, Serve
  <2>4. StacksOK'
    BY <1>0, <1>5, <2>1 DEF StacksOK
  <2>5. PhasesOK'
    BY <1>0, <1>5, <2>1, PhaseKept DEF PhasesOK
  <2> QED  BY <2>2, <2>3, <2>4, <2>5 DEF StackInv
<1>6. CASE BootNext /\ UNCHANGED <<scenario, deps>>
  <2>1. PICK n \in queue : queue' = queue \ {n} /\ Call(Main, n, <<>>)
    BY <1>6 DEF BootNext
  <2>2. n \in Exists /\ Main \in Callers /\ daemon = "boot" /\ UNCHANGED deaths
    BY <1>0, <1>2, <1>6 DEF TypeOK, Callers, BootNext
  <2>3. phase[Main] = "deps"
    BY <1>0, <1>6, <2>2 DEF BootNext, PhasesOK, PhaseOK
  <2> QED  BY <2>1, <2>2, <2>3, <1>3, <1>4, <1>6, CallStep
<1>7. CASE Die /\ UNCHANGED <<scenario, deps>>
  <2>1. /\ Steady' = Steady /\ Exists' = Exists
        /\ daemon' = "down" /\ deaths' = deaths + 1 /\ deaths < scenario.deaths
        /\ queue' = {} /\ stack' = [t \in Callers |-> <<>>]
        /\ phase' = [t \in Callers |-> "deps"]
        /\ UNCHANGED <<scenario, deps, running>>
    BY <1>7, Same DEF Die
  <2>2. deaths' \in 0..scenario.deaths
    BY <1>0, <1>2, <2>1 DEF TypeOK
  <2>3. stack' \in [Callers -> Seq([name : Exists', todo : SUBSET Names])]
    BY <2>1
  <2>4. TypeOK'
    BY <1>0, <2>1, <2>2, <2>3 DEF TypeOK, Graphs
  <2>5. PhasesOK'
    BY <2>1 DEF PhasesOK, PhaseOK
  <2> QED  BY <2>1, <2>4, <2>5, <1>3 DEF StackInv, Phases, StacksOK
<1>8. ASSUME NEW t \in Threads, NEW n \in Names,
             BeginStart(t, n), UNCHANGED <<scenario, deps>>
      PROVE  StackInv'
  <2>1. /\ n \in Exists /\ t \in Callers /\ daemon = "serve" /\ t # Main
        /\ Call(t, n, <<>>) /\ stack[t] = <<>> /\ UNCHANGED <<queue, deaths>>
    BY <1>8 DEF BeginStart, Asked, Callers
  <2>2. phase[t] = "deps"
    BY <1>0, <2>1 DEF PhasesOK, PhaseOK
  <2> QED  BY <2>1, <2>2, <1>3, <1>4, <1>8, CallStep
<1>9. ASSUME NEW n \in Names, running' = running \ {n}, ~Steady,
             \A t \in Callers : stack[t] = <<>> \/ MayGo(t, n),
             UNCHANGED <<scenario, deps, daemon, queue, stack, phase, deaths>>
      PROVE  StackInv'
  <2>1. Steady' = Steady /\ Exists' = Exists
    BY <1>9, Same
  <2>2. TypeOK'
    BY <1>0, <1>9, <2>1 DEF TypeOK, Graphs
  <2>3. PhasesOK'
    <3> SUFFICES ASSUME NEW c \in Callers PROVE PhaseOK(c)'
      BY DEF PhasesOK
    <3> QED  BY <1>0, <1>9, PhaseKept DEF PhasesOK
  <2> QED  BY <2>1, <2>2, <2>3, <1>0, <1>9 DEF StackInv, Phases, StacksOK
<1>10. ASSUME NEW t \in Threads, NEW n \in Names,
              Stop(t, n), UNCHANGED <<scenario, deps>>
       PROVE  StackInv'
  <2>1. /\ <<t, "stop", n>> \in scenario.requests /\ stack[t] = <<>>
        /\ running' = running \ {n} /\ UNCHANGED <<daemon, queue, stack, phase, deaths>>
    BY <1>10 DEF Stop, Asked
  <2>2. \A c \in Callers : stack[c] = <<>> \/ MayGo(c, n)
    BY <2>1 DEF MayGo
  <2>3. ~Steady
    BY <2>1 DEF Steady, Calm
  <2> QED  BY <1>9, <1>10, <2>1, <2>2, <2>3
<1>11. ASSUME NEW n \in Names, StopsByItself(n), UNCHANGED <<scenario, deps>>
       PROVE  StackInv'
  <2>1. \A c \in Callers : MayGo(c, n)
    BY <1>11 DEF StopsByItself, MayGo
  <2>2. ~Steady
    BY <1>11 DEF StopsByItself, Steady, Calm
  <2> QED  BY <1>9, <1>11, <2>1, <2>2 DEF StopsByItself
<1>12. ASSUME NEW n \in Names, NEW ds \in SUBSET Names,
              SetDependencies(n, ds), UNCHANGED scenario
       PROVE  StackInv'
  <2>1. /\ Steady' = Steady /\ Exists' = Exists /\ ~Steady /\ n \in Exists
        /\ deps' = [deps EXCEPT ![n] = ds]
        /\ UNCHANGED <<running, daemon, queue, stack, phase, deaths>>
    BY <1>12, Same DEF SetDependencies, Steady, Calm
  <2>2. deps' \in Graphs
    BY <1>0, <2>1 DEF TypeOK, Graphs
  <2>3. TypeOK'
    BY <1>0, <1>12, <2>1, <2>2 DEF TypeOK, Graphs
  <2>4. PhasesOK'
    BY <1>0, <1>12, <2>1, PhaseKept DEF PhasesOK
  <2> QED  BY <2>1, <2>3, <2>4, <1>0 DEF StackInv, Phases, StacksOK
<1>13. ASSUME NEW t \in Callers, Step(t), UNCHANGED <<scenario, deps>>
       PROVE  StackInv'
  <2>1. stack[t] # <<>> /\ stack[t] \in Seq(Frames(Exists))
    BY <1>1, <1>13 DEF Step, TryDependency, DependencyFails, EnterInner, StartInnerFails,
                       Appear, Return, GivesUp
  <2>2. NoneTwice(stack[t]) /\ (Steady => Tried(deps, running, stack[t]))
    BY <1>0 DEF StacksOK
  <2>3. daemon = (IF t = Main THEN "boot" ELSE "serve")
    BY <1>0, <2>1 DEF Phases
  <2>4. CASE TryDependency(t)
    <3>1. PICK d \in Top(t).todo : d \in Exists /\ Call(t, d, Below(t, d))
      BY <2>4 DEF TryDependency
    <3>2. /\ Below(t, d) \in Seq(Frames(Exists)) /\ NoneTwice(Below(t, d))
          /\ Steady => TriedBut(deps, running, Below(t, d), d)
      BY <2>1, <2>2, BelowKept DEF Below, Top
    <3> QED  BY <3>1, <3>2, <2>3, <2>4, <1>13, CallStep DEF TryDependency
  <2>5. CASE DependencyFails(t)
    BY <2>1, <2>5, <1>13, FailStep DEF DependencyFails, CallFails
  <2>6. CASE EnterInner(t)
    BY <2>1, <2>6, <1>13, EnterStep DEF EnterInner
  <2>7. CASE StartInnerFails(t)
    BY <2>1, <2>7, <1>13, FailStep DEF StartInnerFails
  <2>8. CASE Appear(t)
    <3>1. Top(t).todo = {}
      BY <1>0, <2>8 DEF PhasesOK, PhaseOK, Appear
    <3> QED  BY <2>1, <2>8, <3>1, <1>13, EnterStep DEF Appear
  <2>9. CASE Return(t)
    BY <2>9, <1>13, ReturnStep
  <2>10. CASE GivesUp(t)
    BY <2>1, <2>10, <1>13, FailStep DEF GivesUp
  <2> QED  BY <2>4, <2>5, <2>6, <2>7, <2>8, <2>9, <2>10, <1>13 DEF Step
<1>14. CASE UNCHANGED vars
  <2>1. Steady' = Steady /\ Exists' = Exists
    BY <1>14, Same DEF vars
  <2>2. PhasesOK'
    BY <1>0, <1>14, PhaseKept DEF vars, PhasesOK
  <2> QED  BY <2>1, <2>2, <1>0, <1>14 DEF vars, StackInv, TypeOK, Graphs, Phases, StacksOK
<1>15. CASE (Boot \/ Serve) /\ UNCHANGED <<scenario, deps>>
  BY <1>5, <1>15 DEF Boot, Serve
<1> QED  BY <1>6, <1>7, <1>8, <1>10, <1>11, <1>12, <1>13, <1>14, <1>15 DEF Next

(* What a step may do to the stack of one thread. *)
Called(t) ==
    \E n \in Exists \ running :
       /\ stack[t] = <<>> /\ stack'[t] = <<Frame(n, deps[n])>>
       /\ UNCHANGED <<deps, running>> /\ phase'[t] = "deps"
       /\ t # Main => t \in Starters

(* The top activation takes its next dependency, and calls it unless it runs. *)
Tries(t) ==
    /\ stack[t] # <<>> /\ UNCHANGED <<deps, running>>
    /\ phase[t] = "deps" /\ phase'[t] = "deps"
    /\ \E d \in Top(t).todo \intersect Exists :
          stack'[t] = IF d \in running THEN Below(t, d)
                     ELSE <<Frame(d, deps[d])>> \o Below(t, d)

(* The top activation has started its resource and returns. *)
Returns(t) ==
    Return(t) /\ stack'[t] = Tail(stack[t]) /\ phase'[t] = "deps" /\ UNCHANGED <<deps, running>>

(* It enters start_inner, or its resource appears. *)
Goes(t) ==
    /\ stack'[t] = stack[t]
    /\ \/ EnterInner(t) /\ phase'[t] = "inner"
       \/ Appear(t) /\ phase'[t] = "up"

(* Nothing happens to it. *)
Stays(t) == stack'[t] = stack[t] /\ phase'[t] = phase[t]

(* A step changes a stack in one of these ways only. *)
LEMMA StackMoves ==
    ASSUME StackInv, [Next]_vars, NEW t \in Callers
    PROVE  Stays(t) \/ stack'[t] = <<>> \/ Called(t) \/ Tries(t) \/ Returns(t) \/ Goes(t)
<1>1. /\ stack \in [Callers -> Seq(Frames(Exists))]
      /\ phase \in [Callers -> {"deps", "inner", "up"}]
      /\ stack[t] = <<>> => phase[t] = "deps"
  BY DEF StackInv, TypeOK, Frames, PhasesOK, PhaseOK
<1>2. CASE Boot \/ Serve \/ Die \/ UNCHANGED vars
  BY <1>2 DEF Boot, Serve, Die, vars, Stays
<1>3. CASE BootNext /\ UNCHANGED <<scenario, deps>>
  <2>1. PICK n \in queue : queue' = queue \ {n} /\ Call(Main, n, <<>>)
    BY <1>3 DEF BootNext
  <2>2. n \in Exists /\ Main \in Callers /\ stack[Main] = <<>>
    BY <1>3, ScenarioType DEF StackInv, TypeOK, Exists, Callers, BootNext
  <2> QED  BY <1>1, <1>3, <2>1, <2>2 DEF Call, Called, Stays
<1>4. ASSUME NEW u \in Threads, NEW n \in Names, BeginStart(u, n), UNCHANGED <<scenario, deps>>
      PROVE  Stays(t) \/ Called(t)
  BY <1>1, <1>4 DEF BeginStart, Asked, Call, Starters, Callers, Called, Stays
<1>5. ASSUME NEW n \in Names, StopsByItself(n) \/ \E u \in Threads : Stop(u, n)
      PROVE  Stays(t)
  BY <1>5 DEF Stop, StopsByItself, Stays
<1>6. ASSUME NEW n \in Names, NEW ds \in SUBSET Names, SetDependencies(n, ds)
      PROVE  Stays(t)
  BY <1>6 DEF SetDependencies, Stays
<1>7. ASSUME NEW u \in Callers, Step(u), UNCHANGED <<scenario, deps>>
      PROVE  Stays(t) \/ stack'[t] = <<>> \/ Tries(t) \/ Returns(t) \/ Goes(t)
  <2>1. CASE TryDependency(u)
    BY <1>1, <1>7, <2>1 DEF TryDependency, Call, Tries, Stays
  <2>2. CASE DependencyFails(u) \/ StartInnerFails(u) \/ GivesUp(u)
    BY <1>1, <2>2 DEF DependencyFails, StartInnerFails, GivesUp, CallFails, Fail, Stays
  <2>3. CASE Return(u)
    BY <1>1, <1>7, <2>3 DEF Return, Returns, Stays
  <2>4. CASE EnterInner(u)
    BY <1>1, <2>4 DEF EnterInner, Enter, Goes, Stays
  <2>5. CASE Appear(u)
    BY <1>1, <2>5 DEF Appear, Enter, Goes, Stays
  <2> QED  BY <1>7, <2>1, <2>2, <2>3, <2>4, <2>5 DEF Step
<1>8. ASSUME Next
      PROVE  \/ Boot \/ Serve \/ Die
             \/ BootNext /\ UNCHANGED <<scenario, deps>>
             \/ \E u \in Threads, n \in Names :
                   BeginStart(u, n) /\ UNCHANGED <<scenario, deps>>
             \/ \E n \in Names : StopsByItself(n) \/ \E u \in Threads : Stop(u, n)
             \/ \E n \in Names, ds \in SUBSET Names : SetDependencies(n, ds)
             \/ \E u \in Callers : Step(u) /\ UNCHANGED <<scenario, deps>>
  BY <1>8 DEF Next
<1> QED  BY <1>2, <1>3, <1>4, <1>5, <1>6, <1>7, <1>8

-----------------------------------------------------------------------------
(* What is needed: the resource itself and the dependencies of what it needs. *)
LEMMA NeedsGrow ==
    ASSUME NEW n
    PROVE  /\ n \in Names => n \in Needs(n)
           /\ \A m \in Needs(n) \intersect Exists : deps[m] \intersect Names \subseteq Needs(n)
  BY DEF Needs

(* The first activation of a start. *)
LEMMA LinkedFirst ==
    ASSUME NEW n \in Names
    PROVE  Linked(<<Frame(n, deps[n])>>)
  BY NeedsGrow DEF Linked, Frame

(* The activation of a dependency. *)
LEMMA LinkedPush ==
    ASSUME NEW s \in Seq(Frames(Exists)), s # <<>>, Linked(s), Exists \subseteq Names,
           NEW d \in Exists, d \in deps[s[1].name]
    PROVE  Linked(<<Frame(d, deps[d])>> \o s)
<1> DEFINE f == Frame(d, deps[d])
           u == <<f>> \o s
<1>1. f.name = d /\ f.todo = deps[d]
  BY DEF Frame
<1>2. Len(u) = Len(s) + 1 /\ u[1] = f /\ \A i \in 2..Len(u) : u[i] = s[i - 1]
  <2> HIDE DEF f
  <2> QED  OBVIOUS
<1>3. Len(s) \in Nat \ {0} /\ s[1] \in Frames(Exists) /\ s[Len(s)] \in Frames(Exists)
  OBVIOUS
<1> HIDE DEF f, u
<1>4. u[Len(u)] = s[Len(s)]
  BY <1>2, <1>3
<1>5. d \in Needs(s[Len(s)].name)
  <2>1. s[1].name \in Needs(s[Len(s)].name) /\ s[1].name \in Exists
    BY <1>3 DEF Linked, Frames
  <2> QED  BY <2>1, NeedsGrow
<1>6. SUFFICES ASSUME NEW i \in 1..Len(u)
               PROVE  /\ u[i].todo \subseteq deps[u[i].name]
                      /\ i > 1 => u[i - 1].name \in deps[u[i].name]
                      /\ u[i].name \in Needs(s[Len(s)].name)
  BY <1>4 DEF Linked, u, f
<1>7. CASE i = 1
  BY <1>1, <1>2, <1>5, <1>7
<1>8. CASE i = 2
  <2>1. u[2] = s[1] /\ u[1].name = d /\ 1 \in 1..Len(s)
    BY <1>1, <1>2, <1>3, <1>8
  <2> QED  BY <2>1, <1>8 DEF Linked
<1>9. CASE i \notin {1, 2}
  <2>1. u[i] = s[i - 1] /\ u[i - 1] = s[(i - 1) - 1] /\ i - 1 \in 1..Len(s) /\ i - 1 > 1
    BY <1>2, <1>3, <1>9
  <2> QED  BY <2>1 DEF Linked
<1> QED  BY <1>7, <1>8, <1>9

(* The top activation takes d from its list. *)
LEMMA LinkedBelow ==
    ASSUME NEW s \in Seq(Frames(Exists)), s # <<>>, Linked(s), NEW d
    PROVE  LET u == <<Frame(Head(s).name, Head(s).todo \ {d})>> \o Tail(s) IN
           /\ Linked(u) /\ Len(u) = Len(s) /\ u[1].name = s[1].name
           /\ u[Len(u)].name = s[Len(s)].name
<1> DEFINE f == Frame(Head(s).name, Head(s).todo \ {d})
           u == <<f>> \o Tail(s)
<1>1. Head(s) = s[1] /\ s[1] \in Frames(Exists) /\ Len(s) \in Nat \ {0}
  BY Pop
<1>2. f \in Frames(Exists) /\ f.name = s[1].name /\ f.todo = s[1].todo \ {d}
  BY <1>1 DEF Frame, Frames
<1> HIDE DEF f
<1>3. Len(u) = Len(s) /\ u[1] = f /\ \A i \in 2..Len(s) : u[i] = s[i]
  BY <1>2, Replace
<1> HIDE DEF u
<1>4. \A i \in 1..Len(s) : u[i].name = s[i].name /\ u[i].todo \subseteq s[i].todo
  BY <1>2, <1>3
<1>5. \A i \in 1..Len(s) : i > 1 => i - 1 \in 1..Len(s)
  BY <1>1
<1>6. Len(s) \in 1..Len(s)
  BY <1>1
<1>7. Linked(u)
  BY <1>3, <1>4, <1>5, <1>6 DEF Linked
<1> QED  BY <1>2, <1>3, <1>4, <1>6, <1>7 DEF u, f

(* The top activation returns. *)
LEMMA LinkedTail ==
    ASSUME NEW s \in Seq(Frames(Exists)), s # <<>>, Linked(s)
    PROVE  /\ Linked(Tail(s))
           /\ Tail(s) # <<>> => Tail(s)[Len(Tail(s))] = s[Len(s)]
<1> DEFINE u == Tail(s)
<1>1. /\ u \in Seq(Frames(Exists)) /\ Len(u) = Len(s) - 1 /\ Len(s) \in Nat \ {0}
      /\ \A i \in 1..Len(u) : u[i] = s[i + 1]
  BY Pop
<1> HIDE DEF u
<1>2. u # <<>> => u[Len(u)] = s[Len(s)]
  BY <1>1
<1>3. ASSUME NEW i \in 1..Len(u)
      PROVE  /\ u[i].todo \subseteq deps[u[i].name]
             /\ i > 1 => u[i - 1].name \in deps[u[i].name]
             /\ u[i].name \in Needs(u[Len(u)].name)
  <2>1. /\ u[i] = s[i + 1] /\ i + 1 \in 1..Len(s) /\ i + 1 > 1
        /\ u[Len(u)] = s[Len(s)]
        /\ i > 1 => u[i - 1] = s[(i + 1) - 1]
    BY <1>1
  <2> QED  BY <2>1 DEF Linked
<1> QED  BY <1>2, <1>3 DEF Linked, u

(* The root of a start stays at the bottom of its stack. *)
Bottom(s) == s[Len(s)].name

(* Neither a call nor a return changes it. *)
LEMMA BottomKept ==
    ASSUME NEW s \in Seq(Frames(Exists)), s # <<>>
    PROVE  /\ Bottom(s) \in Exists
           /\ Tail(s) = <<>> => Bottom(s) = Head(s).name
           /\ Tail(s) # <<>> => Bottom(Tail(s)) = Bottom(s)
           /\ \A f : <<f>> \o s # <<>> /\ Bottom(<<f>> \o s) = Bottom(s)
           /\ \A d : LET u == <<Frame(Head(s).name, Head(s).todo \ {d})>> \o Tail(s) IN
                     /\ u \in Seq(Frames(Exists)) /\ u # <<>>
                     /\ Bottom(u) = Bottom(s)
<1>1. /\ Tail(s) \in Seq(Frames(Exists)) /\ Len(Tail(s)) = Len(s) - 1
      /\ Len(s) \in Nat \ {0} /\ Head(s) = s[1] /\ s[1] \in Frames(Exists)
      /\ s[Len(s)] \in Frames(Exists)
      /\ \A i \in 1..Len(Tail(s)) : Tail(s)[i] = s[i + 1]
  BY Pop
<1>2. Bottom(s) \in Exists
  BY <1>1 DEF Bottom, Frames
<1>3. Tail(s) = <<>> => Bottom(s) = Head(s).name
  <2> DEFINE u == Tail(s)
  <2> HIDE DEF u
  <2>1. u = <<>> => Len(u) = 0
    OBVIOUS
  <2> QED  BY <1>1, <2>1 DEF Bottom, u
<1>4. Tail(s) # <<>> => Bottom(Tail(s)) = Bottom(s)
  BY <1>1 DEF Bottom
<1>5. ASSUME NEW f
      PROVE  <<f>> \o s # <<>> /\ Bottom(<<f>> \o s) = Bottom(s)
  BY <1>1 DEF Bottom
<1>6. ASSUME NEW d
      PROVE  LET u == <<Frame(Head(s).name, Head(s).todo \ {d})>> \o Tail(s) IN
             u \in Seq(Frames(Exists)) /\ u # <<>> /\ Bottom(u) = Bottom(s)
  <2> DEFINE f == Frame(Head(s).name, Head(s).todo \ {d})
  <2>1. f \in Frames(Exists) /\ f.name = s[1].name
    BY <1>1 DEF Frame, Frames
  <2> HIDE DEF f
  <2> DEFINE u == <<f>> \o Tail(s)
  <2>2. /\ u \in Seq(Frames(Exists)) /\ Len(u) = Len(s) /\ u[1] = f
        /\ \A i \in 2..Len(s) : u[i] = s[i]
    BY <2>1, Replace
  <2> HIDE DEF u
  <2>3. u # <<>> /\ u[Len(u)].name = s[Len(s)].name
    BY <1>1, <2>1, <2>2
  <2> QED  BY <2>2, <2>3 DEF u, f, Bottom
<1> QED  BY <1>2, <1>3, <1>4, <1>5, <1>6

-----------------------------------------------------------------------------
(* Only the dependencies and the set of resources decide what is linked. *)
LEMMA LinkedSame ==
    ASSUME UNCHANGED <<scenario, deps>>, NEW t, Linked(stack'[t])
    PROVE  Linked(stack[t])'
<1>1. \A n : Needs(n)' = Needs(n)
  BY DEF Needs, Exists
<1> QED  BY <1>1 DEF Linked

(* The dependencies stay unless somebody may set them. *)
LEMMA DepsKept ==
    ASSUME [Next]_vars, scenario.changing = {}
    PROVE  UNCHANGED <<scenario, deps>>
  BY DEF Next, vars, SetDependencies

(* Every step keeps the chains of dependencies. *)
LEMMA PathsStep == StackInv /\ PathsOK /\ [Next]_vars => PathsOK'
<1> SUFFICES ASSUME StackInv, PathsOK, [Next]_vars, scenario'.changing = {},
                    NEW t \in Callers
             PROVE  Linked(stack[t])'
  BY DEF PathsOK
<1>1. UNCHANGED <<scenario, deps>>
  <2>1. UNCHANGED scenario
    BY DEF Next, vars
  <2> QED  BY <2>1, DepsKept
<1>2. Linked(stack[t])
  BY <1>1 DEF PathsOK
<1>3. stack[t] \in Seq(Frames(Exists)) /\ Exists \subseteq Names
  BY ScenarioType DEF StackInv, TypeOK, Frames, Exists
<1> SUFFICES Linked(stack'[t])
  BY <1>1, LinkedSame
<1>4. CASE stack'[t] = <<>> \/ Stays(t) \/ Goes(t)
  <2>1. stack'[t] = <<>> \/ stack'[t] = stack[t]
    BY <1>4 DEF Stays, Goes
  <2>2. Linked(<<>>)
    BY DEF Linked
  <2>3. CASE stack'[t] = <<>>
    BY <2>2, <2>3
  <2>4. CASE stack'[t] = stack[t]
    BY <1>2, <2>4
  <2> QED  BY <2>1, <2>3, <2>4
<1>5. CASE Called(t)
  BY <1>3, <1>5, LinkedFirst DEF Called
<1>6. CASE Tries(t)
  <2>1. PICK d \in Top(t).todo \intersect Exists :
             stack'[t] = IF d \in running THEN Below(t, d)
                         ELSE <<Frame(d, deps[d])>> \o Below(t, d)
    BY <1>6 DEF Tries
  <2> DEFINE u == Below(t, d)
  <2>2. /\ Linked(u) /\ u[1].name = stack[t][1].name
        /\ u \in Seq(Frames(Exists)) /\ u # <<>>
    BY <1>2, <1>3, <1>6, LinkedBelow, BottomKept DEF Tries, Below, Top
  <2>3. d \in deps[stack[t][1].name]
    BY <1>2, <1>3, <1>6, <2>1, Pop DEF Linked, Top, Tries
  <2> HIDE DEF u
  <2>4. Linked(<<Frame(d, deps[d])>> \o u)
    BY <1>3, <2>1, <2>2, <2>3, LinkedPush
  <2> QED  BY <2>1, <2>2, <2>4 DEF u
<1>7. CASE Returns(t)
  BY <1>2, <1>3, <1>7, LinkedTail DEF Returns, Return
<1> QED  BY <1>4, <1>5, <1>6, <1>7, StackMoves

(* What runs grows by what a thread has started; and when nobody stops anything it
   shrinks only by what the one client's start takes back. *)
LEMMA RunningMoves ==
    ASSUME StackInv, [Next]_vars
    PROVE  \/ running' = running
           \/ \E t \in Callers : Appear(t) /\ running' = running \union {Top(t).name}
           \/ \E t \in Callers :
                 /\ GivesUp(t) /\ running' = running \ {Top(t).name}
                 /\ Top(t).name \in scenario.failing \ Vms
           \/ \E n \in Names : ~Steady /\ running' = running \ {n}
                              /\ (~Calm \/ n \in Vms) /\ UNCHANGED <<stack, phase>>
<1>1. CASE Boot \/ Serve \/ Die \/ BootNext \/ UNCHANGED vars
  BY <1>1 DEF Boot, Serve, Die, BootNext, Call, vars
<1>2. ASSUME NEW n \in Names, NEW ds \in SUBSET Names, SetDependencies(n, ds)
      PROVE  running' = running
  BY <1>2 DEF SetDependencies
<1>3. ASSUME NEW n \in Names, NEW t \in Threads, BeginStart(t, n)
      PROVE  running' = running
  BY <1>3 DEF BeginStart, Call
<1>4. ASSUME NEW n \in Names, NEW t \in Threads, Stop(t, n)
      PROVE  ~Steady /\ ~Calm /\ running' = running \ {n} /\ UNCHANGED <<stack, phase>>
  BY <1>4 DEF Stop, Asked, Steady, Calm
<1>5. ASSUME NEW n \in Names, StopsByItself(n)
      PROVE  ~Steady /\ (~Calm \/ n \in Vms) /\ running' = running \ {n}
             /\ UNCHANGED <<stack, phase>>
  BY <1>5 DEF StopsByItself, Steady, Calm
<1>6. ASSUME NEW t \in Callers, Step(t)
      PROVE  \/ running' = running
             \/ Appear(t) /\ running' = running \union {Top(t).name}
             \/ /\ GivesUp(t) /\ running' = running \ {Top(t).name}
                /\ Top(t).name \in scenario.failing \ Vms
  <2>1. CASE GivesUp(t)
    <3>1. CASE Top(t).name \in Vms
      BY <2>1, <3>1 DEF GivesUp
    <3>2. CASE Top(t).name \notin Vms
      BY <2>1, <3>2 DEF GivesUp
    <3> QED  BY <3>1, <3>2
  <2>2. CASE ~GivesUp(t)
    BY <1>6, <2>2 DEF Step, TryDependency, DependencyFails, EnterInner, StartInnerFails, Appear,
                Return, Call, CallFails
  <2> QED  BY <2>1, <2>2
<1> QED  BY <1>1, <1>2, <1>3, <1>4, <1>5, <1>6 DEF Next

(* The names on a stack after a call, a try and a return. *)
LEMMA NamesMove ==
    ASSUME NEW s \in Seq(Frames(Exists)), NoneTwice(s)
    PROVE  /\ \A n, ds : OnStack(<<Frame(n, ds)>> \o s) = OnStack(s) \union {n}
           /\ s # <<>> =>
                 /\ \A d : OnStack(<<Frame(Head(s).name, Head(s).todo \ {d})>> \o Tail(s)) = OnStack(s)
                 /\ OnStack(Tail(s)) = OnStack(s) \ {Head(s).name}
<1>1. ASSUME NEW n, NEW ds
      PROVE  OnStack(<<Frame(n, ds)>> \o s) = OnStack(s) \union {n}
  <2> DEFINE f == Frame(n, ds)
             u == <<f>> \o s
  <2>1. f.name = n
    BY DEF Frame
  <2> HIDE DEF f
  <2>2. /\ Len(u) = Len(s) + 1 /\ Len(s) \in Nat /\ u[1] = f
        /\ \A i \in 1..Len(s) : u[i + 1] = s[i]
        /\ \A i \in 2..Len(u) : u[i] = s[i - 1]
    OBVIOUS
  <2> HIDE DEF u
  <2>3. ASSUME NEW m \in OnStack(u)
        PROVE  m \in OnStack(s) \union {n}
    <3>1. PICK i \in 1..Len(u) : u[i].name = m
      BY DEF OnStack
    <3>2. i = 1 \/ (i \in 2..Len(u) /\ i - 1 \in 1..Len(s))
      BY <2>2
    <3> QED  BY <2>1, <2>2, <3>1, <3>2 DEF OnStack
  <2>4. n \in OnStack(u)
    <3>1. 1 \in 1..Len(u)
      BY <2>2
    <3> QED  BY <2>1, <2>2, <3>1 DEF OnStack
  <2>5. ASSUME NEW m \in OnStack(s)
        PROVE  m \in OnStack(u)
    <3>1. PICK i \in 1..Len(s) : s[i].name = m
      BY DEF OnStack
    <3>2. i + 1 \in 1..Len(u) /\ u[i + 1].name = m
      BY <2>2, <3>1
    <3> QED  BY <3>2 DEF OnStack
  <2> QED  BY <2>3, <2>4, <2>5 DEF u, f
<1>2. ASSUME s # <<>>, NEW d
      PROVE  OnStack(<<Frame(Head(s).name, Head(s).todo \ {d})>> \o Tail(s)) = OnStack(s)
  <2> DEFINE f == Frame(Head(s).name, Head(s).todo \ {d})
             u == <<f>> \o Tail(s)
  <2>1. Head(s) = s[1] /\ s[1] \in Frames(Exists)
    BY <1>2, Pop
  <2>2. f \in Frames(Exists) /\ f.name = s[1].name
    BY <2>1 DEF Frame, Frames
  <2> HIDE DEF f
  <2>3. Len(u) = Len(s) /\ u[1] = f /\ \A i \in 2..Len(s) : u[i] = s[i]
    BY <1>2, <2>2, Replace
  <2> HIDE DEF u
  <2>4. \A i \in 1..Len(s) : u[i].name = s[i].name
    BY <2>2, <2>3
  <2>5. OnStack(u) = OnStack(s)
    BY <2>3, <2>4 DEF OnStack
  <2> QED  BY <2>5 DEF u, f
<1>3. ASSUME s # <<>>
      PROVE  OnStack(Tail(s)) = OnStack(s) \ {Head(s).name}
  <2> DEFINE u == Tail(s)
  <2>1. /\ Len(u) = Len(s) - 1 /\ Len(s) \in Nat \ {0} /\ Head(s) = s[1]
        /\ \A i \in 1..Len(u) : u[i] = s[i + 1]
    BY <1>3, Pop
  <2> HIDE DEF u
  <2>2. ASSUME NEW m \in OnStack(u)
        PROVE  m \in OnStack(s) /\ m # s[1].name
    <3>1. PICK i \in 1..Len(u) : u[i].name = m
      BY DEF OnStack
    <3>2. i + 1 \in 1..Len(s) /\ 1 \in 1..Len(s) /\ i + 1 # 1 /\ s[i + 1].name = m
      BY <2>1, <3>1
    <3> QED  BY <3>2 DEF OnStack, NoneTwice
  <2>3. ASSUME NEW m \in OnStack(s), m # s[1].name
        PROVE  m \in OnStack(u)
    <3>1. PICK i \in 1..Len(s) : s[i].name = m
      BY DEF OnStack
    <3>2. i - 1 \in 1..Len(u) /\ u[i - 1] = s[(i - 1) + 1] /\ (i - 1) + 1 = i
      BY <2>1, <2>3, <3>1
    <3> QED  BY <3>1, <3>2 DEF OnStack
  <2> QED  BY <2>1, <2>2, <2>3 DEF u
<1> QED  BY <1>1, <1>2, <1>3

(* Every step keeps Unstarted. *)
LEMMA UnstartedStep == StackInv /\ Unstarted /\ [Next]_vars => Unstarted'
<1> SUFFICES ASSUME StackInv, Unstarted, [Next]_vars
             PROVE  Unstarted'
  OBVIOUS
<1>1. UNCHANGED scenario
  BY DEF Next, vars
<1>2. Starters' = Starters /\ OneStarter' = OneStarter
  BY <1>1 DEF Starters, OneStarter
<1>3. ASSUME NEW t \in Callers
      PROVE  stack[t] \in Seq(Frames(Exists)) /\ NoneTwice(stack[t])
  BY DEF StackInv, TypeOK, StacksOK, Frames
<1>4. ASSUME NEW t \in Threads, stack'[t] # <<>>
      PROVE  t \in Starters
  <2>1. t \in Callers /\ t # Main
    BY OrderAssumption DEF Callers
  <2>2. stack[t] # <<>> \/ Called(t)
    BY <1>4, <2>1, StackMoves DEF Tries, Returns, Return, Goes, EnterInner, Appear, Stays
  <2> QED  BY <2>1, <2>2 DEF Unstarted, Called
<1> DEFINE OfTop(t) == IF phase[t] = "up" THEN {Top(t).name} ELSE {}
<1>5. ASSUME OneStarter, NEW t \in Callers
      PROVE  OnStack(stack'[t]) \intersect running'
                \subseteq (IF phase'[t] = "up" THEN {Top(t)'.name} ELSE {})
  <2>1. OnStack(stack[t]) \intersect running \subseteq OfTop(t)
    BY <1>5 DEF Unstarted
  <2>2. CASE stack'[t] = <<>>
    BY <2>2 DEF OnStack
  <2>3. CASE Called(t)
    <3>1. PICK n \in Exists \ running : stack'[t] = <<Frame(n, deps[n])>>
      BY <2>3 DEF Called
    <3>2. OnStack(stack'[t]) = {n}
      BY <3>1 DEF OnStack, Frame
    <3> QED  BY <2>3, <3>1, <3>2 DEF Called
  <2>4. CASE Tries(t)
    <3>1. PICK d \in Top(t).todo \intersect Exists :
               stack'[t] = IF d \in running THEN Below(t, d)
                           ELSE <<Frame(d, deps[d])>> \o Below(t, d)
      BY <2>4 DEF Tries
    <3> DEFINE u == Below(t, d)
    <3>2. u \in Seq(Frames(Exists)) /\ NoneTwice(u) /\ OnStack(u) = OnStack(stack[t])
      BY <1>3, <2>4, NamesMove, BelowKept DEF Tries, Below, Top
    <3> HIDE DEF u
    <3>3. OnStack(<<Frame(d, deps[d])>> \o u) = OnStack(stack[t]) \union {d}
      BY <3>2, NamesMove
    <3>4. OnStack(stack[t]) \intersect running = {} /\ running' = running
      BY <2>1, <2>4 DEF Tries
    <3>5. OnStack(stack'[t]) \intersect running = {}
      BY <3>1, <3>2, <3>3, <3>4 DEF u
    <3> QED  BY <3>4, <3>5
  <2>5. CASE Returns(t)
    <3>1. OnStack(stack'[t]) = OnStack(stack[t]) \ {Top(t).name}
      BY <1>3, <2>5, NamesMove DEF Returns, Return, Top
    <3> QED  BY <2>1, <2>5, <3>1 DEF Returns
  <2>6. CASE Goes(t)
    <3>1. Top(t)' = Top(t)
      BY <2>6 DEF Goes, Top
    <3>2. CASE EnterInner(t)
      BY <2>1, <2>6, <3>1, <3>2 DEF Goes, EnterInner, Appear
    <3>3. CASE Appear(t)
      BY <2>1, <2>6, <3>1, <3>3 DEF Goes, EnterInner, Appear
    <3> QED  BY <2>6, <3>2, <3>3 DEF Goes
  <2>7. CASE Stays(t) /\ stack[t] # <<>>
    <3>1. Top(t)' = Top(t) /\ phase'[t] = phase[t] /\ stack'[t] = stack[t]
      BY <2>7 DEF Stays, Top
    <3>2. running' \subseteq running \/ Appear(t)
      <4>1. ASSUME NEW u \in Callers, Appear(u)
            PROVE  u = t
        BY <1>5, <2>7, <4>1, Alone DEF Appear
      <4> QED  BY <4>1, RunningMoves
    <3>3. CASE Appear(t)
      <4>1. phase'[t] = "up" /\ phase[t] = "inner"
        BY <3>3 DEF Appear, Enter, StackInv, TypeOK
      <4> QED  BY <3>1, <4>1
    <3> QED  BY <2>1, <3>1, <3>2, <3>3
  <2> QED  BY <2>2, <2>3, <2>4, <2>5, <2>6, <2>7, StackMoves DEF Stays
<1>6. \A t : Top(t)' = Head(stack'[t])
  BY DEF Top
<1> QED  BY <1>2, <1>4, <1>5, <1>6 DEF Unstarted

-----------------------------------------------------------------------------
(* Every step keeps what is enabled started, queued or in the hands of the main
   thread, and no client takes any of it back. *)
LEMMA EnabledStep == StackInv /\ EnabledKept /\ [Next]_vars => EnabledKept'
<1> SUFFICES ASSUME StackInv, EnabledKept, [Next]_vars, Calm'
             PROVE  EnabledKept'
  BY DEF EnabledKept
<1>1. UNCHANGED scenario /\ Calm
  <2>1. UNCHANGED scenario
    BY DEF Next, vars
  <2> QED  BY <2>1, Same
<1> DEFINE wanted == scenario.enabled \intersect scenario.jails
           active == IF stack[Main] = <<>> THEN {} ELSE {Root(Main)}
<1>2. /\ daemon = "serve" => wanted \subseteq running
      /\ daemon = "serve" => \A t \in Callers : OnStack(stack[t]) \intersect wanted = {}
      /\ daemon = "boot" => wanted \subseteq running \union queue \union active
  BY <1>1 DEF EnabledKept, EnabledAreStarted
<1>3. SUFFICES /\ daemon' = "serve" => wanted \subseteq running'
               /\ daemon' = "serve" => \A t \in Callers : OnStack(stack'[t]) \intersect wanted = {}
               /\ daemon' = "boot" => wanted \subseteq running' \union queue' \union active'
  <2> HIDE DEF wanted, active
  <2>1. wanted' = wanted
    BY <1>1 DEF wanted
  <2>2. \A t : OnStack(stack[t])' = OnStack(stack'[t])
    BY DEF OnStack
  <2> QED  BY <1>1, <2>1, <2>2, Same DEF EnabledKept, EnabledAreStarted, wanted, active
<1>4. /\ Main \in Callers /\ stack[Main] \in Seq(Frames(Exists))
      /\ \A t \in Callers : stack[t] \in Seq(Frames(Exists)) /\ NoneTwice(stack[t])
  BY DEF StackInv, StacksOK, TypeOK, Frames, Callers
<1>5. wanted \intersect Vms = {}
  BY DEF Vms
<1>6. CASE daemon = "serve" /\ daemon' = "serve"
  <2>1. wanted \subseteq running'
    <3>1. ASSUME NEW t \in Callers, GivesUp(t)
          PROVE  Top(t).name \notin wanted
      <4>1. stack[t] # <<>>
        BY <3>1 DEF GivesUp
      <4>2. 1 \in 1..Len(stack[t]) /\ Top(t) = stack[t][1]
        BY <1>4, <4>1, Pop DEF Top
      <4> QED  BY <1>2, <1>6, <4>2 DEF OnStack
    <3>2. ASSUME NEW n \in Names, ~Calm \/ n \in Vms
          PROVE  n \notin wanted
      BY <1>1, <1>5, <3>2
    <3> HIDE DEF wanted
    <3> QED  BY <1>2, <1>6, <3>1, <3>2, RunningMoves
  <2>2. ASSUME NEW t \in Callers
        PROVE  OnStack(stack'[t]) \intersect wanted = {}
    <3> HIDE DEF wanted
    <3>1. CASE stack'[t] = <<>>
      BY <3>1 DEF OnStack
    <3>2. CASE Stays(t) \/ Goes(t)
      BY <1>2, <1>6, <3>2 DEF Stays, Goes
    <3>3. CASE Called(t)
      <4>1. PICK n \in Exists \ running : stack'[t] = <<Frame(n, deps[n])>>
        BY <3>3 DEF Called
      <4>2. OnStack(stack'[t]) = {n}
        BY <4>1 DEF OnStack, Frame
      <4> QED  BY <1>2, <1>6, <4>2
    <3>4. CASE Tries(t)
      <4>1. PICK d \in Top(t).todo \intersect Exists :
                 stack'[t] = IF d \in running THEN Below(t, d)
                             ELSE <<Frame(d, deps[d])>> \o Below(t, d)
        BY <3>4 DEF Tries
      <4> DEFINE u == Below(t, d)
      <4>2. u \in Seq(Frames(Exists)) /\ NoneTwice(u) /\ OnStack(u) = OnStack(stack[t])
        BY <1>4, <3>4, NamesMove, BelowKept DEF Tries, Below, Top
      <4> HIDE DEF u
      <4>3. OnStack(<<Frame(d, deps[d])>> \o u) = OnStack(stack[t]) \union {d}
        BY <4>2, NamesMove
      <4> QED  BY <1>2, <1>6, <4>1, <4>2, <4>3 DEF u
    <3>5. CASE Returns(t)
      <4>1. OnStack(stack'[t]) = OnStack(stack[t]) \ {Top(t).name}
        BY <1>4, <3>5, NamesMove DEF Returns, Return, Top
      <4> QED  BY <1>2, <1>6, <4>1
    <3> QED  BY <3>1, <3>2, <3>3, <3>4, <3>5, StackMoves
  <2> QED  BY <1>6, <2>1, <2>2
<1>7. CASE daemon # "serve" /\ daemon' = "serve"
  <2>1. Serve
    BY <1>7 DEF Next, vars, Boot, BootNext, Die, BeginStart, Asked, Stop, StopsByItself,
                SetDependencies, Step, TryDependency, DependencyFails, EnterInner,
                StartInnerFails, Appear, Return, GivesUp, Enter, Call, CallFails, Fail
  <2>2. daemon = "boot" /\ queue = {} /\ active = {} /\ UNCHANGED <<running, stack>>
    BY <2>1 DEF Serve
  <2>3. \A t \in Callers : stack[t] = <<>>
    BY <2>1, <2>2 DEF StackInv, Phases, Serve
  <2>4. OnStack(<<>>) = {}
    BY DEF OnStack
  <2> QED  BY <1>2, <1>7, <2>2, <2>3, <2>4
<1>8. CASE BootNext /\ UNCHANGED deps
  <2>1. PICK n \in queue : queue' = queue \ {n} /\ Call(Main, n, <<>>)
    BY <1>8 DEF BootNext
  <2>2. n \in running \/ active' = {n}
    <3>1. ASSUME n \notin running
          PROVE  stack'[Main] = <<Frame(n, deps[n])>>
      BY <1>4, <2>1, <3>1 DEF Call, StackInv, TypeOK
    <3> QED  BY <3>1, SMTT(60) DEF Frame, Root
  <2>3. daemon = "boot" /\ active = {} /\ UNCHANGED <<running, daemon>>
    BY <1>8, <2>1 DEF BootNext, Call
  <2> QED  BY <1>2, <2>1, <2>2, <2>3
<1>9. ASSUME NEW n \in Names, StopsByItself(n), daemon' = "boot"
      PROVE  wanted \subseteq running' \union queue' \union active'
  <2>1. n \in Vms /\ running' = running \ {n} /\ UNCHANGED <<daemon, queue, stack>>
    BY <1>1, <1>9 DEF StopsByItself, Calm
  <2>2. active' = active
    BY <2>1 DEF Root
  <2> HIDE DEF wanted, active
  <2> QED  BY <1>2, <1>5, <1>9, <2>1, <2>2
<1>10. ASSUME NEW t \in Callers, Step(t), UNCHANGED deps, daemon' = "boot"
       PROVE  wanted \subseteq running' \union queue' \union active'
  <2>1. stack[t] # <<>>
    BY <1>10 DEF Step, TryDependency, DependencyFails, EnterInner, StartInnerFails, Appear,
                 Return, GivesUp
  <2>2. daemon = "boot" \/ (daemon = "serve" /\ t # Main)
    BY <2>1 DEF StackInv, Phases
  <2>3. daemon' = daemon \/ daemon' = "down"
    BY <1>10 DEF Step, TryDependency, DependencyFails, EnterInner, StartInnerFails, Appear,
                 Return, GivesUp, Enter, Call, CallFails, Fail
  <2>4. daemon = "boot" /\ t = Main
    BY <1>10, <2>1, <2>3 DEF StackInv, Phases
  <2>5. CASE TryDependency(t)
    <3>1. PICK d \in Top(Main).todo : d \in Exists /\ Call(Main, d, Below(Main, d))
      BY <2>4, <2>5 DEF TryDependency
    <3>2. UNCHANGED <<queue, running>>
      BY <2>5, <3>1 DEF TryDependency, Call
    <3> DEFINE u == Below(Main, d)
    <3>3. u \in Seq(Frames(Exists)) /\ u # <<>> /\ Bottom(u) = Root(Main)
      BY <1>4, <2>1, <2>4, BottomKept DEF Below, Top, Root, Bottom
    <3> HIDE DEF u
    <3>4. \A f : <<f>> \o u # <<>> /\ Bottom(<<f>> \o u) = Root(Main)
      BY <3>3, BottomKept
    <3>5. stack'[Main] = IF d \in running THEN u ELSE <<Frame(d, deps[d])>> \o u
      BY <1>4, <3>1 DEF Call, StackInv, TypeOK, u
    <3>6. stack'[Main] # <<>> /\ Bottom(stack'[Main]) = Root(Main)
      BY <3>3, <3>4, <3>5
    <3>7. active' = active
      BY <2>1, <2>4, <3>6 DEF Bottom, Root
    <3> HIDE DEF wanted, active
    <3> QED  BY <1>2, <2>4, <3>2, <3>7
  <2>6. CASE DependencyFails(t) \/ StartInnerFails(t) \/ GivesUp(t)
    BY <1>10, <2>4, <2>6 DEF DependencyFails, StartInnerFails, GivesUp, CallFails, Fail
  <2>7. CASE EnterInner(t) \/ Appear(t)
    <3>1. running \subseteq running' /\ UNCHANGED <<queue, stack>>
      BY <2>7 DEF EnterInner, Appear, Enter
    <3>2. active' = active
      BY <3>1 DEF Root
    <3> HIDE DEF wanted, active
    <3> QED  BY <1>2, <2>4, <3>1, <3>2
  <2>8. CASE Return(t)
    <3>1. /\ UNCHANGED <<queue, running>> /\ stack'[Main] = Tail(stack[Main])
          /\ Top(Main).name \in running \union Vms
      BY <1>4, <2>4, <2>8 DEF Return, StackInv, TypeOK
    <3>2. active \subseteq running \union Vms \union active'
      BY <1>4, <2>1, <2>4, <3>1, BottomKept DEF Bottom, Root, Top
    <3> HIDE DEF wanted, active
    <3> QED  BY <1>2, <1>5, <2>4, <3>1, <3>2
  <2> QED  BY <1>10, <2>5, <2>6, <2>7, <2>8 DEF Step
<1>11. CASE Boot \/ UNCHANGED vars
  <2>1. CASE Boot
    BY <2>1 DEF Boot
  <2>2. CASE UNCHANGED vars
    BY <1>2, <2>2 DEF vars, Root
  <2> QED  BY <1>11, <2>1, <2>2
<1>12. CASE daemon' = "boot"
  <2>1. ASSUME NEW t \in Threads, NEW n \in Names, BeginStart(t, n) \/ Stop(t, n)
        PROVE  FALSE
    BY <1>12, <2>1 DEF BeginStart, Asked, Call, Stop
  <2>2. ASSUME NEW n \in Names, NEW ds \in SUBSET Names, SetDependencies(n, ds)
        PROVE  FALSE
    BY <1>1, <2>2 DEF SetDependencies, Calm
  <2>3. ~Serve /\ ~Die
    BY <1>12 DEF Serve, Die
  <2> HIDE DEF wanted, active
  <2> QED  BY <1>8, <1>9, <1>10, <1>11, <1>12, <2>1, <2>2, <2>3 DEF Next
<1> HIDE DEF wanted, active
<1> QED  BY <1>6, <1>7, <1>12

(* Every step keeps what runs closed, and nothing comes to depend on what a start may
   take back. *)
LEMMA ClosedStep == StackInv /\ RunningClosed /\ Unstarted /\ [Next]_vars => RunningClosed'
<1> SUFFICES ASSUME StackInv, RunningClosed, Unstarted, [Next]_vars, Steady'
             PROVE  RunningClosed'
  BY DEF RunningClosed
<1>1. /\ UNCHANGED <<scenario, deps>> /\ Steady /\ Calm /\ OneStarter' = OneStarter
  <2>1. UNCHANGED scenario
    BY DEF Next, vars
  <2>2. Steady /\ Calm /\ OneStarter' = OneStarter
    BY <2>1, Same DEF Steady
  <2>3. scenario.changing = {}
    BY <2>2 DEF Calm
  <2> QED  BY <2>1, <2>2, <2>3, DepsKept
<1>2. /\ \A m \in running : deps[m] \subseteq running
      /\ OneStarter => \A t \in Callers, m \in running :
                          phase[t] = "up" => Top(t).name \notin deps[m]
  BY <1>1 DEF RunningClosed
<1>3. ASSUME NEW t \in Callers, Appear(t)
      PROVE  /\ deps[Top(t).name] \subseteq running
             /\ running' = running \union {Top(t).name}
             /\ OneStarter => Top(t).name \notin running
  <2>1. stack[t] # <<>> /\ stack[t] \in Seq(Frames(Exists)) /\ phase[t] = "inner"
    BY <1>3 DEF Appear, StackInv, TypeOK, Frames
  <2>2. Top(t) = stack[t][1] /\ 1 \in 1..Len(stack[t])
    BY <2>1, Pop DEF Top
  <2>3. Top(t).todo = {}
    BY <2>1 DEF StackInv, PhasesOK, PhaseOK
  <2>4. Tried(deps, running, stack[t])
    BY <1>1 DEF StackInv, StacksOK
  <2>5. deps[Top(t).name] \subseteq running
    BY <2>2, <2>3, <2>4 DEF Tried
  <2>6. Top(t).name \in OnStack(stack[t])
    BY <2>2 DEF OnStack
  <2> QED  BY <1>3, <2>1, <2>5, <2>6 DEF Appear, Unstarted
<1>4. \A m \in running' : deps[m] \subseteq running'
  <2>1. ASSUME NEW t \in Callers, GivesUp(t), Top(t).name \in scenario.failing
        PROVE  \A m \in running : Top(t).name \notin deps[m]
    BY <1>1, <1>2, <2>1 DEF GivesUp, Steady
  <2> QED  BY <1>1, <1>2, <1>3, <2>1, RunningMoves
<1>5. ASSUME OneStarter, NEW t \in Callers, phase'[t] = "up", NEW m \in running'
      PROVE  Top(t)'.name \notin deps[m]
  <2>1. phase \in [Callers -> {"deps", "inner", "up"}] /\ PhaseOK(t)
    BY DEF StackInv, TypeOK, PhasesOK
  <2>2. StackInv' /\ Unstarted'
    BY StackStep, UnstartedStep
  <2>3. stack'[t] # <<>>
    BY <1>5, <2>2 DEF StackInv, PhasesOK, PhaseOK
  <2>4. CASE Appear(t)
    <3>1. Top(t)' = Top(t)
      BY <2>4 DEF Top, Appear, Enter
    <3>2. m \in running \/ m = Top(t).name
      BY <1>3, <2>4
    <3>3. ASSUME m \in running
          PROVE  Top(t).name \notin deps[m]
      BY <1>2, <1>3, <1>5, <2>4, <3>3
    <3> QED  BY <1>3, <1>5, <2>4, <3>1, <3>2, <3>3
  <2>5. CASE Stays(t)
    <3>1. Top(t)' = Top(t) /\ phase[t] = "up" /\ stack[t] # <<>>
      BY <1>5, <2>3, <2>5 DEF Stays, Top
    <3>2. running' \subseteq running
      <4>1. ASSUME NEW u \in Callers, Appear(u)
            PROVE  FALSE
        <5>1. u = t
          BY <1>5, <3>1, <4>1, Alone DEF Appear
        <5> QED  BY <3>1, <4>1, <5>1 DEF Appear
      <4> QED  BY <4>1, RunningMoves
    <3> QED  BY <1>2, <1>5, <3>1, <3>2
  <2> QED  BY <1>5, <2>3, <2>4, <2>5, StackMoves DEF Called, Tries, Returns, Goes
<1>6. \A t : Top(t)' = Head(stack'[t])
  BY DEF Top
<1> QED  BY <1>1, <1>4, <1>5, <1>6 DEF RunningClosed

(* The inductive invariant (jail.rs:520-543, bhyve.rs:1015-1041, priosund.rs:81-90). *)
THEOREM InvHolds == Spec => []Inv
<1>1. Init => Inv
  <2> SUFFICES ASSUME Init PROVE Inv
    OBVIOUS
  <2>1. /\ stack \in [Callers -> Seq([name : Exists, todo : SUBSET Names])]
        /\ \A t \in Callers : stack[t] = <<>>
    BY DEF Init
  <2>2. NoneTwice(<<>>) /\ Tried(deps, running, <<>>) /\ Linked(<<>>) /\ OnStack(<<>>) = {}
    BY DEF NoneTwice, Tried, Linked, OnStack
  <2>3. scenario.deaths \in Nat
    BY ScenarioType DEF Init
  <2>4. StackInv
    BY <2>1, <2>2, <2>3 DEF Init, StackInv, TypeOK, Phases, StacksOK, PhasesOK, PhaseOK
  <2>5. EnabledKept
    BY DEF Init, EnabledKept, EnabledAreStarted
  <2>6. PathsOK
    BY <2>1, <2>2 DEF PathsOK
  <2>7. Unstarted
    BY <2>1, <2>2 DEF Unstarted, Callers
  <2>8. RunningClosed
    BY DEF Init, RunningClosed
  <2> QED  BY <2>4, <2>5, <2>6, <2>7, <2>8 DEF Inv
<1>2. Inv /\ [Next]_vars => Inv'
  BY StackStep, EnabledStep, PathsStep, UnstartedStep, ClosedStep DEF Inv
<1> QED  BY <1>1, <1>2, PTL DEF Spec

(* While nothing stops, all that is enabled has been started when the daemon serves:
   for any number of resources, whatever failed or died at earlier boots. *)
THEOREM EnabledAlwaysStarted == Spec => []EnabledAreStarted
<1>1. Inv => EnabledAreStarted
  <2> SUFFICES ASSUME Inv PROVE EnabledAreStarted
    OBVIOUS
  <2>1. CASE Calm
    BY <2>1 DEF Inv, EnabledKept
  <2>2. CASE ~Calm
    BY <2>2 DEF EnabledAreStarted
  <2> QED  BY <2>1, <2>2
<1> QED  BY <1>1, InvHolds, PTL

(* A resource is started only when all it depends on runs, and taken back only when
   nothing that runs depends on it: of one client whose starts may fail, or of many
   that start jails without a failure, whatever they have in common and whenever
   the daemon dies, while nobody stops anything. *)
THEOREM StartsInOrder == Spec => OrderSpec
<1>1. Init => Order!Init
  <2>1. ASSUME NEW g \in Graphs PROVE g \in [Names -> SUBSET Names]
    BY DEF Graphs
  <2>2. Steady \in BOOLEAN
    BY DEF Steady, Calm
  <2> QED  BY <2>1, <2>2 DEF Init, Order!Init
<1>2. Inv /\ [Next]_vars => [Order!Next]_(Order!vars)
  <2> SUFFICES ASSUME Inv, [Next]_vars
               PROVE  Order!Next \/ UNCHANGED <<deps, Steady, running>>
    BY DEF Order!vars
  <2>0. /\ StackInv /\ TypeOK /\ StacksOK /\ RunningClosed
        /\ stack \in [Callers -> Seq(Frames(Exists))]
        /\ Exists \subseteq Names
    BY ScenarioType DEF Inv, StackInv, TypeOK, Frames, Exists
  <2>1. UNCHANGED scenario /\ Steady' = Steady
    BY Same DEF Next, vars
  <2>2. ASSUME NEW n \in Names, n \notin running, Steady => deps[n] \subseteq running,
               running' = running \union {n}, UNCHANGED deps
        PROVE  Order!Next
    BY <2>1, <2>2 DEF Order!Next, Order!Start
  <2>3. ASSUME NEW n \in Names, Steady => \A m \in running : n \notin deps[m],
               running' = running \ {n}, UNCHANGED deps
        PROVE  Order!Next
    BY <2>1, <2>3 DEF Order!Next, Order!Stop
  <2>4. ASSUME NEW n \in Names, NEW ds \in SUBSET Names, SetDependencies(n, ds)
        PROVE  Order!Next
    BY <2>1, <2>4 DEF Order!Next, Order!SetDependencies, SetDependencies, Steady, Calm
  <2>5. ASSUME NEW t \in Callers, Step(t)
        PROVE  Top(t).name \in Names
    <3>1. stack[t] # <<>> /\ stack[t] \in Seq(Frames(Exists))
      BY <2>0, <2>5 DEF Step, TryDependency, DependencyFails, EnterInner, StartInnerFails, Appear,
                        Return, GivesUp
    <3>2. Top(t) \in Frames(Exists)
      BY <3>1, Pop DEF Top
    <3> QED  BY <2>0, <3>2 DEF Frames
  <2>6. ASSUME NEW t \in Callers, Appear(t), UNCHANGED deps, running' # running
        PROVE  Order!Next
    <3>1. /\ stack[t] # <<>> /\ stack[t] \in Seq(Frames(Exists)) /\ phase[t] = "inner"
          /\ Top(t).name \notin running /\ running' = running \union {Top(t).name}
      BY <2>0, <2>6 DEF Appear
    <3>2. Top(t) = stack[t][1] /\ 1 \in 1..Len(stack[t]) /\ Top(t).todo = {}
      BY <2>0, <3>1, Pop DEF Top, StackInv, PhasesOK, PhaseOK
    <3>3. Steady => deps[Top(t).name] \subseteq running
      <4>1. Steady => Tried(deps, running, stack[t])
        BY <2>0 DEF StacksOK
      <4> QED  BY <4>1, <3>2 DEF Tried
    <3>4. Top(t).name \in Names
      BY <2>5, <2>6 DEF Step
    <3> QED  BY <3>1, <3>3, <3>4, <2>2, <2>6
  <2>7. ASSUME NEW t \in Callers, GivesUp(t), UNCHANGED deps,
               running' = running \ {Top(t).name}, Top(t).name \in scenario.failing
        PROVE  Order!Next
    <3>1. Top(t).name \in Names /\ phase[t] = "up"
      BY <2>5, <2>7 DEF Step, GivesUp
    <3>2. Steady => \A m \in running : Top(t).name \notin deps[m]
      BY <2>0, <2>7, <3>1 DEF RunningClosed, Steady
    <3> QED  BY <3>1, <3>2, <2>3, <2>7
  <2>8. ASSUME NEW n \in Names, ~Steady, running' = running \ {n}, UNCHANGED deps
        PROVE  Order!Next
    BY <2>3, <2>8
  <2>9. CASE \E n \in Names, ds \in SUBSET Names : SetDependencies(n, ds)
    BY <2>4, <2>9
  <2>10. CASE UNCHANGED deps
    BY <2>0, <2>1, <2>6, <2>7, <2>8, <2>10, RunningMoves
  <2> QED  BY <2>9, <2>10 DEF Next, vars
<1> QED  BY <1>1, <1>2, InvHolds, PTL DEF Spec, OrderSpec, Order!Spec

-----------------------------------------------------------------------------
(* How a start comes to its end. *)
LEMMA Unwinds ==
    ASSUME StackInv, [Next]_vars, NEW t \in Callers,
           stack[t] # <<>>, stack'[t] = <<>>, deaths' = deaths
    PROVE  DependencyFails(t) \/ StartInnerFails(t) \/ Return(t) \/ GivesUp(t)
<1>1. stack \in [Callers -> Seq(Frames(Exists))] /\ deaths \in Nat
  <2>1. scenario.deaths \in Nat /\ deaths \in 0..scenario.deaths
    BY ScenarioType DEF StackInv, TypeOK
  <2>2. stack \in [Callers -> Seq(Frames(Exists))]
    BY DEF StackInv, TypeOK, Frames
  <2> QED  BY <2>1, <2>2
<1>2. ASSUME Boot \/ Serve \/ Die \/ BootNext \/ UNCHANGED vars
      PROVE  FALSE
  <2>1. CASE BootNext
    <3>1. t # Main /\ stack'[t] = stack[t]
      BY <1>1, <2>1 DEF BootNext, Call
    <3> QED  BY <3>1
  <2>2. CASE Boot \/ Serve \/ Die \/ UNCHANGED vars
    BY <1>1, <2>2 DEF Boot, Serve, Die, vars
  <2> QED  BY <1>2, <2>1, <2>2
<1>3. ASSUME NEW u \in Threads, NEW n \in Names,
             BeginStart(u, n) \/ Stop(u, n) \/ StopsByItself(n)
      PROVE  FALSE
  <2>1. stack'[t] = stack[t]
    BY <1>1, <1>3 DEF BeginStart, Asked, Call, Stop, StopsByItself, Callers
  <2> QED  BY <2>1
<1>4. ASSUME NEW n \in Names, StopsByItself(n) \/ \E ds \in SUBSET Names : SetDependencies(n, ds)
      PROVE  FALSE
  BY <1>4 DEF SetDependencies, StopsByItself
<1>5. ASSUME NEW u \in Callers, Step(u)
      PROVE  u = t /\ ~TryDependency(u) /\ ~EnterInner(u) /\ ~Appear(u)
  <2>1. u = t
    BY <1>1, <1>5 DEF Step, TryDependency, DependencyFails, EnterInner, StartInnerFails,
                      Appear, Return, GivesUp, Enter, Call, CallFails, Fail
  <2>3. ~EnterInner(t) /\ ~Appear(t)
    BY DEF EnterInner, Appear, Enter
  <2>2. ASSUME TryDependency(t)
        PROVE  FALSE
    <3>1. PICK d \in Top(t).todo : d \in Exists /\ Call(t, d, Below(t, d))
      BY <2>2 DEF TryDependency
    <3> DEFINE u2 == Below(t, d)
    <3>2. u2 \in Seq(Frames(Exists)) /\ u2 # <<>>
      BY <1>1, BottomKept DEF Below, Top
    <3> HIDE DEF u2
    <3>3. \A f : <<f>> \o u2 # <<>>
      BY <3>2, BottomKept
    <3>4. stack'[t] = IF d \in running THEN u2 ELSE <<Frame(d, deps[d])>> \o u2
      BY <1>1, <3>1 DEF Call, u2
    <3> QED  BY <3>2, <3>3, <3>4
  <2> QED  BY <2>1, <2>2, <2>3
<1> QED  BY <1>2, <1>3, <1>4, <1>5 DEF Next, Step

(* A dependency that does not exist, or that is being started already, breaks what
   the root of the start needs. *)
LEMMA BrokenPath ==
    ASSUME NEW s \in Seq(Frames(Exists)), s # <<>>, Linked(s),
           NEW d \in deps[s[1].name],
           d \notin Exists \/ d \in OnStack(s), NEW t
    PROVE  Broken(t, Bottom(s))
<1> DEFINE n == Bottom(s)
           E == Needs(n) \intersect Exists
           g == [m \in E |-> deps[m]]
<1>1. Len(s) \in Nat \ {0} /\ \A i \in 1..Len(s) : s[i].name \in E
  <2>1. Len(s) \in Nat \ {0} /\ \A i \in 1..Len(s) : s[i] \in Frames(Exists)
    OBVIOUS
  <2> QED  BY <2>1 DEF Linked, Bottom, Frames
<1>2. SUFFICES ~Valid(g)
  BY DEF Broken
<1>3. CASE d \notin Exists
  <2>1. s[1].name \in E /\ d \in g[s[1].name]
    BY <1>1
  <2>2. DOMAIN g = E /\ d \notin E
    BY <1>3
  <2> HIDE DEF g, E
  <2>3. ~Closed(g)
    BY <2>1, <2>2 DEF Closed
  <2> QED  BY <2>3 DEF Valid
<1>4. CASE d \in OnStack(s)
  <2>1. PICK j \in 1..Len(s) : s[j].name = d
    BY <1>4 DEF OnStack
  <2> DEFINE S == {s[i].name : i \in 1..j}
  <2>2. S \subseteq E /\ S # {}
    <3>1. j \in 1..j /\ \A i \in 1..j : i \in 1..Len(s)
      BY <1>1, <2>1
    <3> QED  BY <1>1, <3>1
  <2>3. ASSUME NEW m \in S
        PROVE  g[m] \intersect S # {}
    <3>1. PICK i \in 1..j : s[i].name = m
      OBVIOUS
    <3>2. i \in 1..Len(s) /\ m \in E
      BY <1>1, <2>2, <3>1
    <3>3. CASE i = 1
      <4>1. d \in g[m] /\ d \in S
        BY <2>1, <3>1, <3>2, <3>3
      <4> QED  BY <4>1
    <3>4. CASE i # 1
      <4>1. i - 1 \in 1..j /\ i > 1
        BY <3>1, <3>4
      <4>2. s[i - 1].name \in deps[m]
        BY <3>1, <3>2, <4>1 DEF Linked
      <4> QED  BY <3>2, <4>1, <4>2
    <3> QED  BY <3>3, <3>4
  <2>4. DOMAIN g = E
    OBVIOUS
  <2> HIDE DEF S, E, g
  <2>5. Deadlocked(g, S)
    BY <2>2, <2>3 DEF Deadlocked
  <2>6. ~Acyclic(g)
    BY <2>2, <2>4, <2>5 DEF Acyclic
  <2> QED  BY <2>6 DEF Valid
<1> QED  BY <1>3, <1>4

(* A start fails only for a reason: however long the chain of dependencies, if one
   client starts things and nobody changes what depends on what. *)
THEOREM AlwaysAReason == Spec => FailsWithReason
<1>1. ASSUME Inv, [Next]_vars, NEW t \in Callers,
             stack[t] # <<>>, stack'[t] = <<>>, deaths' = deaths, ~Return(t),
             OneStarter, scenario.changing = {}
      PROVE  Broken(t, Root(t))
  <2> DEFINE s == stack[t]
  <2>1. /\ StackInv /\ s \in Seq(Frames(Exists)) /\ s # <<>> /\ Linked(s) /\ PhaseOK(t)
        /\ OnStack(s) \intersect running \subseteq (IF phase[t] = "up" THEN {Top(t).name} ELSE {})
        /\ Root(t) = Bottom(s)
    BY <1>1 DEF Inv, StackInv, TypeOK, Frames, PathsOK, PhasesOK, Unstarted, Bottom, Root
  <2>2. Top(t) = s[1] /\ 1 \in 1..Len(s) /\ Len(s) \in Nat
    BY <2>1, Pop DEF Top
  <2> HIDE DEF s
  <2>3. Top(t).name \in OnStack(s) /\ Top(t).name \in Needs(Root(t))
    BY <2>1, <2>2 DEF OnStack, Linked, Bottom
  <2>4. CASE DependencyFails(t)
    <3>1. PICK d \in Top(t).todo : d \notin Exists \/ (d \in Exists /\ CallFails(t, d, Below(t, d)))
      BY <2>4 DEF DependencyFails
    <3>2. d \in deps[s[1].name]
      BY <2>1, <2>2, <3>1 DEF Linked
    <3>3. CASE d \notin Exists
      BY <2>1, <3>2, <3>3, BrokenPath
    <3>4. CASE d \in OnStack(Below(t, d))
      <4>1. OnStack(Below(t, d)) = OnStack(s)
        BY <1>1, <2>1, NamesMove DEF Inv, StackInv, StacksOK, Below, Top, s
      <4> QED  BY <2>1, <3>2, <3>4, <4>1, BrokenPath
    <3> QED  BY <3>1, <3>3, <3>4 DEF CallFails
  <2>5. CASE StartInnerFails(t)
    <3>1. Top(t).name \in scenario.failing
      BY <2>1, <2>3, <2>5 DEF StartInnerFails
    <3> QED  BY <2>3, <3>1 DEF Broken
  <2>6. CASE GivesUp(t)
    <3>1. \/ Top(t).name \in scenario.failing
          \/ Top(t).name \notin Vms /\ MayGo(t, Top(t).name)
      BY <2>1, <2>6 DEF GivesUp, PhaseOK
    <3> QED  BY <2>3, <3>1 DEF Broken
  <2> QED  BY <1>1, <2>1, <2>4, <2>5, <2>6, Unwinds DEF s
<1>2. Inv /\ [Next]_vars
      => [\A t \in Callers :
             /\ stack[t] # <<>> /\ stack'[t] = <<>> /\ deaths' = deaths /\ ~Return(t)
             /\ OneStarter /\ scenario.changing = {}
             => Broken(t, Root(t))]_vars
  BY <1>1
<1> QED  BY <1>2, InvHolds, PTL DEF Spec, FailsWithReason
=============================================================================
