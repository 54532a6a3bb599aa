-------------------------- MODULE DependencyProofs --------------------------
(* The search of DependencyGraph gives the right verdict on every graph,    *)
(* whatever its size and in whatever order it is walked.  DependencyStore,  *)
(* which goes by that verdict, keeps what it has stored bootable, for every *)
(* set of names and of clients, and refuses only what is wrong.             *)
EXTENDS DependencyStore, DependencyGraph, TLAPS

-----------------------------------------------------------------------------
(* Sequences as stacks of activations, the innermost first.                 *)

(* A call: a frame on top, the others one place further down. *)
LEMMA Push ==
    ASSUME NEW F, NEW s \in Seq(F), NEW f \in F
    PROVE  LET u == <<f>> \o s IN
           /\ u \in Seq(F) /\ Len(u) = Len(s) + 1 /\ u[1] = f
           /\ \A i \in 1..Len(s) : u[i + 1] = s[i]
           /\ \A i \in 2..Len(u) : u[i] = s[i - 1]
  OBVIOUS

(* A return: the top frame gone, the others one place up. *)
LEMMA Pop ==
    ASSUME NEW F, NEW s \in Seq(F), s # <<>>
    PROVE  /\ Tail(s) \in Seq(F) /\ Len(Tail(s)) = Len(s) - 1
           /\ Len(s) \in Nat \ {0} /\ Head(s) = s[1] /\ s[1] \in F
           /\ \A i \in 1..Len(Tail(s)) : Tail(s)[i] = s[i + 1]
  OBVIOUS

(* A step of the top frame: it is replaced. *)
LEMMA Replace ==
    ASSUME NEW F, NEW s \in Seq(F), s # <<>>, NEW f \in F
    PROVE  LET u == <<f>> \o Tail(s) IN
           /\ u \in Seq(F) /\ Len(u) = Len(s) /\ u[1] = f
           /\ \A i \in 2..Len(s) : u[i] = s[i]
<1>1. Tail(s) \in Seq(F) /\ Len(Tail(s)) = Len(s) - 1 /\ Len(s) \in Nat \ {0}
  BY Pop
<1>2. \A i \in 1..Len(Tail(s)) : Tail(s)[i] = s[i + 1]
  BY Pop
<1> QED  BY <1>1, <1>2, Push

-----------------------------------------------------------------------------
(* What the members of Graphs are. *)
LEMMA GraphType ==
    ASSUME NEW g \in Graphs
    PROVE  DOMAIN g \subseteq Nodes /\ \A n \in DOMAIN g : g[n] \subseteq Nodes
  BY DEF Graphs

(* The frames of visit: a resource of the graph and the dependencies still to try. *)
Frames == [name : DOMAIN graph, todo : SUBSET Nodes]

(* What NamesOn holds, and how to show that a set is NamesOn(s, k). *)
LEMMA Named ==
    ASSUME NEW s, NEW k
    PROVE  \A m : m \in NamesOn(s, k) <=> \E i \in 1..k : s[i].name = m
  BY DEF NamesOn

(* A set with these members is NamesOn(s, k). *)
LEMMA SameNames ==
    ASSUME NEW s, NEW k, NEW V,
           \A m : m \in V <=> \E i \in 1..k : s[i].name = m
    PROVE  V = NamesOn(s, k)
  BY DEF NamesOn

(* One call of visit(n) with the activations frames below it preserves the
   invariant: n was tried by the top one, or is a root when there is none. *)
LEMMA VisitStep ==
    ASSUME SearchInv, result = "visit",
           NEW n \in DOMAIN graph, NEW frames \in Seq(Frames),
           Len(frames) = Len(stack),
           \A i \in 1..Len(stack) : frames[i].name = stack[i].name,
           \A i \in 2..Len(stack) : frames[i] = stack[i],
           frames # <<>> => /\ n \in graph[stack[1].name]
                            /\ frames[1].todo = stack[1].todo \ {n},
           roots' \subseteq roots, roots \subseteq roots' \union {n},
           UNCHANGED <<graph, visited>>,
           Visit(n, frames)
    PROVE  SearchInv'
<1>1. /\ SearchTypeOK /\ VisitedAcyclic /\ StackIsPath /\ Tried /\ NothingSkipped
      /\ Closed(graph)
  BY DEF SearchInv
<1>2. Len(frames) \in Nat /\ Len(stack) \in Nat
  BY <1>1 DEF SearchTypeOK
<1>3. graph[n] \subseteq Nodes
  BY <1>1, GraphType DEF SearchTypeOK
<1>4. VisitedAcyclic' /\ Closed(graph)'
  BY <1>1 DEF VisitedAcyclic, Closed, Deadlocked
<1>5. CASE n \in visited /\ stack' = frames /\ UNCHANGED <<visiting, result>>
  <2>1. SearchTypeOK'
    BY <1>1, <1>5 DEF SearchTypeOK, Frames
  <2>2. StackIsPath'
    <3>1. /\ stack' = frames /\ visiting' = visiting /\ visited' = visited
          /\ graph' = graph /\ Len(stack') = Len(stack)
      BY <1>5
    <3>2. \A i \in 1..Len(stack) : stack'[i].name = stack[i].name
      BY <3>1
    <3>3. visiting' = NamesOn(stack', Len(stack'))
      <4>1. \A m : m \in visiting' <=> \E i \in 1..Len(stack') : stack'[i].name = m
        BY <3>1, <3>2, <1>1, Named DEF StackIsPath
      <4> QED  BY ONLY <4>1, SameNames
    <3>4. \A i \in 2..Len(stack) : i \in 1..Len(stack) /\ i - 1 \in 1..Len(stack)
      BY <1>2
    <3> QED  BY <3>1, <3>2, <3>3, <3>4, <1>1 DEF StackIsPath
  <2>3. Tried'
    <3> SUFFICES ASSUME NEW i \in 1..Len(stack')
                 PROVE  /\ stack'[i].todo \subseteq graph[stack'[i].name]
                        /\ graph[stack'[i].name] \ stack'[i].todo \subseteq
                              visited \union (IF i = 1 THEN {}
                                              ELSE {stack'[i - 1].name})
      BY DEF Tried
    <3>1. CASE i = 1
      <4>1. stack'[1].todo = stack[1].todo \ {n}
        BY <1>2, <1>5, <3>1
      <4> QED  BY <4>1, <1>1, <1>2, <1>5, <3>1 DEF Tried
    <3>2. CASE i # 1
      <4>1. i \in 2..Len(stack) /\ i - 1 \in 1..Len(stack)
        BY <1>2, <1>5, <3>2
      <4> QED  BY <4>1, <1>1, <1>2, <1>5, <3>2 DEF Tried
    <3> QED  BY <3>1, <3>2
  <2>4. NothingSkipped'
    BY <1>1, <1>5 DEF NothingSkipped
  <2> QED  BY <2>1, <2>2, <2>3, <2>4, <1>4, <1>5 DEF SearchInv, VerdictRight
<1>6. CASE /\ n \in visiting \ visited /\ result' = "cyclic"
           /\ stack' = frames /\ UNCHANGED visiting
  <2>1. SearchTypeOK'
    BY <1>1, <1>6 DEF SearchTypeOK, Frames
  <2>2. PICK j \in 1..Len(stack) : stack[j].name = n
    BY <1>1, <1>6 DEF StackIsPath, NamesOn
  <2> DEFINE S == NamesOn(stack, j)
  <2>3. S \subseteq DOMAIN graph /\ S # {}
    <3>1. \A i \in 1..Len(stack) : stack[i].name \in DOMAIN graph
      <4>1. stack \in Seq(Frames)
        BY <1>1 DEF SearchTypeOK, Frames
      <4>2. \A i \in 1..Len(stack) : stack[i] \in Frames
        BY <4>1
      <4> QED  BY <4>2 DEF Frames
    <3>2. 1..j \subseteq 1..Len(stack) /\ j \in 1..j
      BY <1>2, <2>2
    <3>3. \A m \in S : \E i \in 1..j : stack[i].name = m
      BY Named
    <3>4. n \in S
      BY <3>2, <2>2, Named
    <3> QED  BY <3>1, <3>2, <3>3, <3>4
  <2>4. \A i \in 1..j : graph[stack[i].name] \intersect S # {}
    <3> TAKE i \in 1..j
    <3>1. CASE i = 1
      BY <1>2, <2>2, <3>1 DEF NamesOn
    <3>2. CASE i # 1
      <4>1. i \in 2..Len(stack) /\ i - 1 \in 1..j
        BY <1>2, <2>2, <3>2
      <4>2. stack[i - 1].name \in graph[stack[i].name]
        BY <4>1, <1>1 DEF StackIsPath
      <4> QED  BY <4>1, <4>2 DEF NamesOn
    <3> QED  BY <3>1, <3>2
  <2>5. Deadlocked(graph, S)
    BY <2>3, <2>4 DEF Deadlocked, NamesOn
  <2>6. ~Acyclic(graph)
    BY <2>3, <2>5 DEF Acyclic
  <2> QED  BY <2>1, <2>6, <1>4, <1>6 DEF SearchInv, VerdictRight, Acyclic, Deadlocked
<1>7. CASE /\ n \notin visiting \union visited /\ visiting' = visiting \union {n}
           /\ stack' = <<[name |-> n, todo |-> graph[n]]>> \o frames
           /\ UNCHANGED result
  <2> DEFINE f == [name |-> n, todo |-> graph[n]]
  <2>1. f \in Frames
    BY <1>3 DEF Frames
  <2>2. /\ stack' \in Seq(Frames) /\ Len(stack') = Len(stack) + 1
        /\ stack'[1] = f
        /\ \A i \in 1..Len(stack) : stack'[i + 1] = frames[i]
        /\ \A i \in 2..Len(stack') : stack'[i] = frames[i - 1]
    <3>1. stack' = <<f>> \o frames
      BY <1>7
    <3> DEFINE u == <<f>> \o frames
    <3>2. /\ u \in Seq(Frames) /\ Len(u) = Len(frames) + 1 /\ u[1] = f
          /\ \A i \in 1..Len(frames) : u[i + 1] = frames[i]
          /\ \A i \in 2..Len(u) : u[i] = frames[i - 1]
      BY <2>1, Push
    <3> HIDE DEF u, f
    <3> QED  BY <3>1, <3>2 DEF u
  <2>3. SearchTypeOK'
    BY <1>1, <1>7, <2>2 DEF SearchTypeOK, Frames
  <2>4. /\ stack'[1].name = n /\ stack'[1].todo = graph[n]
        /\ \A i \in 2..Len(stack') : /\ i - 1 \in 1..Len(stack)
                                     /\ stack'[i].name = stack[i - 1].name
                                     /\ stack'[i].todo = frames[i - 1].todo
    BY <1>2, <2>2, SMTT(60)
  <2>5. StackIsPath'
    <3>1. visiting' = NamesOn(stack', Len(stack'))
      <4>1. \A i \in 1..Len(stack) : /\ i + 1 \in 1..Len(stack')
                                     /\ stack'[i + 1].name = stack[i].name
        BY <1>2, <2>2
      <4>2. 1 \in 1..Len(stack')
        BY <1>2, <2>2
      <4>3. \A i \in 1..Len(stack') : i = 1 \/ i \in 2..Len(stack')
        BY <1>2, <2>2
      <4>4. ASSUME NEW m
            PROVE  m \in visiting' <=> \E i \in 1..Len(stack') : stack'[i].name = m
        <5>1. m \in visiting' <=> m = n \/ \E i \in 1..Len(stack) : stack[i].name = m
          BY <1>1, <1>7, Named DEF StackIsPath
        <5>2. m = n => \E i \in 1..Len(stack') : stack'[i].name = m
          BY <4>2, <2>4
        <5>3. (\E i \in 1..Len(stack) : stack[i].name = m)
              => \E i \in 1..Len(stack') : stack'[i].name = m
          BY <4>1
        <5>4. (\E i \in 1..Len(stack') : stack'[i].name = m)
              => m = n \/ \E i \in 1..Len(stack) : stack[i].name = m
          BY <4>3, <2>4
        <5> QED  BY <5>1, <5>2, <5>3, <5>4
      <4> QED  BY ONLY <4>4, SameNames
    <3>2. \A i \in 1..Len(stack') : stack'[i].name \notin visited
      BY <1>1, <1>2, <1>7, <2>2, <2>4 DEF StackIsPath
    <3>3. \A i \in 1..Len(stack) : stack[i].name # n
      BY <1>1, <1>7 DEF StackIsPath, NamesOn
    <3>4. \A i, k \in 1..Len(stack') : stack'[i].name = stack'[k].name => i = k
      <4>1. \A i \in 1..Len(stack') : i = 1 \/ i \in 2..Len(stack')
        BY <1>2, <2>2
      <4>2. \A i, k \in 2..Len(stack') : stack'[i].name = stack'[k].name => i = k
        <5> SUFFICES ASSUME NEW i \in 2..Len(stack'), NEW k \in 2..Len(stack'),
                            stack'[i].name = stack'[k].name
                     PROVE  i = k
          OBVIOUS
        <5>1. stack[i - 1].name = stack[k - 1].name
          BY <2>4
        <5>2. i - 1 = k - 1
          BY <5>1, <2>4, <1>1 DEF StackIsPath
        <5> QED  BY <5>2, <1>2, <2>2
      <4>3. \A i \in 2..Len(stack') : stack'[i].name # stack'[1].name
        BY <2>4, <3>3
      <4> QED  BY <4>1, <4>2, <4>3
    <3>5. \A i \in 2..Len(stack') : stack'[i - 1].name \in graph[stack'[i].name]
      <4> SUFFICES ASSUME NEW i \in 2..Len(stack')
                   PROVE  stack'[i - 1].name \in graph[stack'[i].name]
        OBVIOUS
      <4>1. CASE i = 2
        BY <4>1, <1>2, <2>2, <2>4
      <4>2. CASE i # 2
        <5>1. i - 1 \in 2..Len(stack) /\ i - 1 \in 2..Len(stack')
          BY <4>2, <1>2, <2>2
        <5>2. stack[(i - 1) - 1].name \in graph[stack[i - 1].name]
          BY <5>1, <1>1 DEF StackIsPath
        <5> QED  BY <5>1, <5>2, <2>4
      <4> QED  BY <4>1, <4>2
    <3> QED  BY <3>1, <3>2, <3>4, <3>5, <1>7 DEF StackIsPath
  <2>6. Tried'
    <3> SUFFICES ASSUME NEW i \in 1..Len(stack')
                 PROVE  /\ stack'[i].todo \subseteq graph[stack'[i].name]
                        /\ graph[stack'[i].name] \ stack'[i].todo \subseteq
                              visited \union (IF i = 1 THEN {}
                                              ELSE {stack'[i - 1].name})
      BY DEF Tried
    <3>1. CASE i = 1
      BY <3>1, <2>4
    <3>2. CASE i = 2
      <4>1. 1 \in 1..Len(stack) /\ frames # <<>>
        BY <3>2, <1>2, <2>2
      <4>2. /\ stack'[2].name = stack[1].name
            /\ stack'[2].todo = stack[1].todo \ {n}
        BY <3>2, <4>1, <2>4
      <4>3. /\ stack[1].todo \subseteq graph[stack[1].name]
            /\ graph[stack[1].name] \ stack[1].todo \subseteq visited
        BY <4>1, <1>1 DEF Tried
      <4> QED  BY <4>1, <4>2, <4>3, <3>2, <2>4
    <3>3. CASE i \notin {1, 2}
      <4>1. i - 1 \in 2..Len(stack) /\ i - 1 \in 2..Len(stack') /\ i \in 2..Len(stack')
        BY <3>3, <1>2, <2>2
      <4>2. /\ stack'[i].name = stack[i - 1].name
            /\ stack'[i].todo = stack[i - 1].todo
            /\ stack'[i - 1].name = stack[(i - 1) - 1].name
        BY <4>1, <2>4
      <4>3. /\ stack[i - 1].todo \subseteq graph[stack[i - 1].name]
            /\ graph[stack[i - 1].name] \ stack[i - 1].todo
                  \subseteq visited \union {stack[(i - 1) - 1].name}
        BY <4>1, <1>1, <1>2 DEF Tried
      <4> QED  BY <4>2, <4>3, <3>3
    <3> QED  BY <3>1, <3>2, <3>3
  <2>7. NothingSkipped'
    BY <1>1, <1>7 DEF NothingSkipped
  <2> QED  BY <2>3, <2>5, <2>6, <2>7, <1>4, <1>7 DEF SearchInv, VerdictRight
<1> QED  BY <1>5, <1>6, <1>7 DEF Visit

(* The return of the innermost visit preserves it. *)
LEMMA LeaveStep == SearchInv /\ Leave => SearchInv'
<1> SUFFICES ASSUME SearchInv, Leave PROVE SearchInv'
  OBVIOUS
<1>1. /\ SearchTypeOK /\ VisitedAcyclic /\ StackIsPath /\ Tried /\ NothingSkipped
      /\ Closed(graph) /\ result = "visit"
  BY DEF SearchInv, Leave
<1> DEFINE n == stack[1].name
<1>2. /\ stack \in Seq(Frames) /\ stack # <<>>
  BY <1>1 DEF SearchTypeOK, Leave, Frames
<1>3. /\ stack' = Tail(stack) /\ stack' \in Seq(Frames)
      /\ Len(stack') = Len(stack) - 1 /\ Len(stack) \in Nat \ {0}
      /\ Head(stack) = stack[1] /\ stack[1] \in Frames
      /\ \A i \in 1..Len(stack') : stack'[i] = stack[i + 1]
  BY <1>2, Pop DEF Leave
<1>4. /\ n \in DOMAIN graph /\ stack[1].todo = {}
      /\ visiting' = visiting \ {n} /\ visited' = visited \union {n}
      /\ UNCHANGED <<graph, roots, result>>
  BY <1>3 DEF Leave, Frames
<1>5. SearchTypeOK'
  BY <1>1, <1>3, <1>4 DEF SearchTypeOK, Frames
<1>6. graph[n] \subseteq visited /\ n \notin visited
  BY <1>1, <1>3, <1>4 DEF Tried, StackIsPath
<1>7. VisitedAcyclic'
  <2>1. \A m \in visited' : graph'[m] \subseteq visited'
    BY <1>1, <1>4, <1>6 DEF VisitedAcyclic
  <2>2. ASSUME NEW S \in SUBSET visited', Deadlocked(graph, S)
        PROVE  FALSE
    <3> DEFINE T == S \ {n}
    <3>1. T \subseteq visited
      BY <1>4
    <3>2. \A m \in T : graph[m] \intersect T # {}
      BY <2>2, <3>1, <1>1, <1>6 DEF Deadlocked, VisitedAcyclic
    <3>3. T # {}
      BY <2>2, <1>6 DEF Deadlocked
    <3> QED  BY <3>1, <3>2, <3>3, <1>1 DEF Deadlocked, VisitedAcyclic
  <2> QED  BY <2>1, <2>2, <1>4 DEF VisitedAcyclic
<1>8. \A i \in 1..Len(stack') : /\ i + 1 \in 2..Len(stack)
                                /\ stack'[i] = stack[i + 1]
                                /\ stack'[i].name # n
  <2> SUFFICES ASSUME NEW i \in 1..Len(stack')
               PROVE  /\ i + 1 \in 2..Len(stack)
                      /\ stack'[i] = stack[i + 1]
                      /\ stack'[i].name # n
    OBVIOUS
  <2>1. i + 1 \in 2..Len(stack) /\ i + 1 # 1 /\ 1 \in 1..Len(stack)
    BY <1>3
  <2> QED  BY <2>1, <1>1, <1>3 DEF StackIsPath
<1>9. StackIsPath'
  <2>1. visiting' = NamesOn(stack', Len(stack'))
    <3>1. \A i \in 1..Len(stack) : i = 1 \/ (i - 1 \in 1..Len(stack') /\ i = (i - 1) + 1)
      BY <1>3
    <3>2. \A i \in 1..Len(stack) : i = 1 \/ stack'[i - 1] = stack[i]
      BY <3>1, <1>3
    <3>3. 1 \in 1..Len(stack) /\ \A i \in 2..Len(stack) : i \in 1..Len(stack)
      BY <1>3
    <3>4. ASSUME NEW m
          PROVE  m \in visiting' <=> \E i \in 1..Len(stack') : stack'[i].name = m
      <4>1. m \in visiting' <=> m # n /\ \E i \in 1..Len(stack) : stack[i].name = m
        BY <1>1, <1>4, Named DEF StackIsPath
      <4>2. (\E i \in 1..Len(stack') : stack'[i].name = m)
            => m # n /\ \E i \in 1..Len(stack) : stack[i].name = m
        BY <1>8, <3>3
      <4>3. m # n /\ (\E i \in 1..Len(stack) : stack[i].name = m)
            => \E i \in 1..Len(stack') : stack'[i].name = m
        BY <3>1, <3>2
      <4> QED  BY <4>1, <4>2, <4>3
    <3> QED  BY <3>4, SameNames
  <2>2. \A i \in 1..Len(stack') : stack'[i].name \notin visited'
    BY <1>1, <1>3, <1>4, <1>8 DEF StackIsPath
  <2>3. \A i, k \in 1..Len(stack') : stack'[i].name = stack'[k].name => i = k
    BY <1>1, <1>3, <1>8 DEF StackIsPath
  <2>4. \A i \in 2..Len(stack') : stack'[i - 1].name \in graph'[stack'[i].name]
    <3> SUFFICES ASSUME NEW i \in 2..Len(stack')
                 PROVE  stack'[i - 1].name \in graph[stack'[i].name]
      BY <1>4
    <3>1. /\ i \in 1..Len(stack') /\ i - 1 \in 1..Len(stack')
          /\ i + 1 \in 2..Len(stack) /\ (i - 1) + 1 = (i + 1) - 1
      BY <1>3
    <3>2. stack[(i + 1) - 1].name \in graph[stack[i + 1].name]
      BY <3>1, <1>1 DEF StackIsPath
    <3> QED  BY <3>1, <3>2, <1>3
  <2> QED  BY <2>1, <2>2, <2>3, <2>4 DEF StackIsPath
<1>10. Tried'
  <2> SUFFICES ASSUME NEW i \in 1..Len(stack')
               PROVE  /\ stack'[i].todo \subseteq graph[stack'[i].name]
                      /\ graph[stack'[i].name] \ stack'[i].todo \subseteq
                            visited' \union (IF i = 1 THEN {}
                                             ELSE {stack'[i - 1].name})
    BY <1>4 DEF Tried
  <2>1. /\ i + 1 \in 1..Len(stack) /\ i + 1 # 1 /\ (i + 1) - 1 = i
        /\ stack'[i] = stack[i + 1]
    BY <1>3
  <2>2. /\ stack[i + 1].todo \subseteq graph[stack[i + 1].name]
        /\ graph[stack[i + 1].name] \ stack[i + 1].todo
              \subseteq visited \union {stack[i].name}
    BY <2>1, <1>1 DEF Tried
  <2>3. CASE i = 1
    BY <2>1, <2>2, <2>3, <1>4
  <2>4. CASE i # 1
    <3>1. i - 1 \in 1..Len(stack') /\ (i - 1) + 1 = i
      BY <2>4, <1>3
    <3>2. stack'[i - 1] = stack[i]
      BY <3>1, <1>3
    <3> QED  BY <3>2, <2>1, <2>2, <2>4, <1>4
  <2> QED  BY <2>3, <2>4
<1>11. NothingSkipped' /\ Closed(graph)'
  BY <1>1, <1>4 DEF NothingSkipped, Closed
<1> QED  BY <1>1, <1>4, <1>5, <1>7, <1>9, <1>10, <1>11 DEF SearchInv, VerdictRight

(* Every step of the search preserves the invariant. *)
LEMMA SearchStep == SearchInv /\ [SearchNext]_searchVars => SearchInv'
<1> SUFFICES ASSUME SearchInv, [SearchNext]_searchVars PROVE SearchInv'
  OBVIOUS
<1>0. SearchTypeOK
  BY DEF SearchInv
<1>1. CASE CheckNames
  <2>1. /\ UNCHANGED <<graph, roots, stack, visiting, visited>>
        /\ result = "check"
        /\ result' = IF Closed(graph) THEN "visit" ELSE "missing"
    BY <1>1 DEF CheckNames
  <2>2. SearchTypeOK'
    BY <2>1, <1>0 DEF SearchTypeOK
  <2>3. VisitedAcyclic' /\ StackIsPath' /\ Tried' /\ NothingSkipped'
    BY <2>1 DEF SearchInv, VisitedAcyclic, StackIsPath, Tried, NothingSkipped, Deadlocked, NamesOn
  <2> QED  BY <2>1, <2>2, <2>3 DEF SearchInv, VerdictRight, Closed
<1>2. CASE VisitRoot
  <2>1. PICK n \in roots : roots' = roots \ {n} /\ Visit(n, <<>>)
    BY <1>2 DEF VisitRoot
  <2>2. /\ n \in DOMAIN graph /\ stack = <<>> /\ result = "visit"
        /\ <<>> \in Seq(Frames) /\ UNCHANGED <<graph, visited>>
    BY <1>0, <1>2 DEF SearchTypeOK, VisitRoot
  <2>3. Len(<<>>) = Len(stack) /\ 1..Len(stack) = {} /\ 2..Len(stack) = {}
    BY <2>2
  <2> QED  BY <2>1, <2>2, <2>3, VisitStep
<1>3. CASE VisitDependency
  <2> DEFINE top == Head(stack)
  <2>1. PICK d \in top.todo :
            Visit(d, <<[top EXCEPT !.todo = @ \ {d}]>> \o Tail(stack))
    BY <1>3 DEF VisitDependency
  <2>2. /\ result = "visit" /\ stack # <<>> /\ stack \in Seq(Frames)
        /\ UNCHANGED <<graph, roots, visited>>
    BY <1>0, <1>3 DEF SearchTypeOK, VisitDependency, Frames
  <2>3. top = stack[1] /\ top \in Frames /\ Len(stack) \in Nat \ {0}
    BY <2>2, Pop
  <2> DEFINE f == [top EXCEPT !.todo = @ \ {d}]
             frames == <<f>> \o Tail(stack)
  <2>4. f \in Frames /\ f.name = top.name /\ f.todo = top.todo \ {d}
    BY <2>3 DEF Frames
  <2>5. /\ frames \in Seq(Frames) /\ Len(frames) = Len(stack) /\ frames[1] = f
        /\ \A i \in 2..Len(stack) : frames[i] = stack[i]
    <3> HIDE DEF f
    <3> QED  BY <2>2, <2>4, Replace
  <2>6. Tried /\ Closed(graph)
    BY <2>2 DEF SearchInv
  <2>7. d \in graph[stack[1].name] /\ d \in DOMAIN graph
    BY <2>3, <2>6 DEF Tried, Closed, Frames
  <2>8. Visit(d, frames)
    BY <2>1
  <2> HIDE DEF frames, f
  <2>9. frames[1].name = stack[1].name /\ frames[1].todo = stack[1].todo \ {d}
    BY <2>3, <2>4, <2>5
  <2>10. \A i \in 1..Len(stack) : frames[i].name = stack[i].name
    <3>1. \A i \in 1..Len(stack) : i = 1 \/ i \in 2..Len(stack)
      BY <2>3
    <3> QED  BY <3>1, <2>5, <2>9
  <2> QED  BY <2>2, <2>5, <2>7, <2>8, <2>9, <2>10, VisitStep
<1>4. CASE Leave
  BY <1>4, LeaveStep
<1>5. CASE Accept
  <2>1. /\ result = "visit" /\ stack = <<>> /\ roots = {} /\ result' = "ok"
        /\ UNCHANGED <<graph, roots, stack, visiting, visited>>
    BY <1>5 DEF Accept
  <2>2. StackIsPath /\ NothingSkipped /\ VisitedAcyclic /\ Closed(graph)
    BY <2>1 DEF SearchInv
  <2>3. visiting = {}
    BY <2>1, <2>2 DEF StackIsPath, NamesOn
  <2>4. DOMAIN graph \subseteq visited
    BY <2>1, <2>2, <2>3 DEF NothingSkipped
  <2>5. Valid(graph)
    BY <2>2, <2>4 DEF Valid, Acyclic, VisitedAcyclic
  <2>6. SearchTypeOK' /\ VisitedAcyclic' /\ Closed(graph)' /\ Valid(graph)'
    BY <2>1, <2>2, <2>5, <1>0
       DEF SearchTypeOK, VisitedAcyclic, Closed, Valid, Acyclic, Deadlocked
  <2> QED  BY <2>1, <2>4, <2>6 DEF SearchInv, VerdictRight
<1>6. CASE UNCHANGED searchVars
  BY <1>6 DEF searchVars, SearchInv, SearchTypeOK, VisitedAcyclic, Closed, Deadlocked,
              StackIsPath, NamesOn, Tried, NothingSkipped, VerdictRight, Valid, Acyclic
<1> QED  BY <1>1, <1>2, <1>3, <1>4, <1>5, <1>6 DEF SearchNext

(* The inductive invariant of the search (dependency.rs:79-106). *)
THEOREM SearchInvHolds == SearchSpec => []SearchInv
<1>1. SearchInit => SearchInv
  BY DEF SearchInit, SearchInv, SearchTypeOK, VisitedAcyclic, Deadlocked, StackIsPath, NamesOn,
         Tried, NothingSkipped, VerdictRight
<1> QED  BY <1>1, SearchStep, PTL DEF SearchSpec

(* validate_graph accepts a graph only if every dependency exists and there is no
   cycle, and gives each error only to a graph that has it (dependency.rs:70-106):
   for every graph and every order in which it is walked. *)
THEOREM VerdictAlwaysRight == SearchSpec => []VerdictRight
<1>1. SearchInv => VerdictRight
  BY DEF SearchInv
<1> QED  BY <1>1, SearchInvHolds, PTL

-----------------------------------------------------------------------------
(* DependencyStore.                                                         *)

(* What an overridden graph has for each resource (dependency.rs:40-63). *)
LEMMA OverriddenGraph ==
    ASSUME NEW g, NEW n, NEW ds
    PROVE  /\ DOMAIN Overridden(g, n, ds) = {n} \union DOMAIN g
           /\ Overridden(g, n, ds)[n] = ds
           /\ \A m \in DOMAIN g \ {n} : Overridden(g, n, ds)[m] = g[m]
BY DEF Overridden

(* NoGraph has no resources. *)
LEMMA JustEmpty == DOMAIN NoGraph = {}
BY DEF NoGraph

(* A "zfs get" yields what is stored, or nothing where it may fail (metadata.rs). *)
LEMMA ReadingsOf ==
    ASSUME NEW n, NEW ds \in Readings(n)
    PROVE  ds \subseteq deps[n] /\ (~scenario.misreads => ds = deps[n])
BY DEF Readings

(* What Return leaves behind is of the right type. *)
LEMMA SomeName == (CHOOSE n \in Names : TRUE) \in Names
BY StoreAssumption

(* A graph has no cycle that another one has not, when each resource has the
   dependencies that it has there, fewer of them, or none. *)
LEMMA FewerDependencies ==
    ASSUME NEW f, NEW g, Acyclic(f),
           \A n \in DOMAIN g : g[n] = {} \/ (n \in DOMAIN f /\ g[n] \subseteq f[n])
    PROVE  Acyclic(g)
<1> SUFFICES ASSUME NEW S \in SUBSET DOMAIN g, Deadlocked(g, S)
             PROVE  FALSE
  BY DEF Acyclic
<1>1. \A n \in S : n \in DOMAIN f /\ g[n] \subseteq f[n]
  BY DEF Deadlocked
<1>2. Deadlocked(f, S) /\ S \in SUBSET DOMAIN f
  BY <1>1 DEF Deadlocked
<1> QED
  BY <1>2 DEF Acyclic

(* The graph that set_dependencies validates has only some of the resources of what is
   stored, f; when it is valid, then what is stored afterwards, h, has no cycle either:
   nothing in it leads out of it. *)
LEMMA ValidWrite ==
    ASSUME NEW f, NEW g, NEW h, NEW n, Acyclic(f), Valid(g),
           DOMAIN h = DOMAIN f, \A m \in DOMAIN f \ {n} : h[m] = f[m],
           n \in DOMAIN g, \A m \in DOMAIN g : h[m] = g[m]
    PROVE  Acyclic(h)
<1> SUFFICES ASSUME NEW S \in SUBSET DOMAIN h, Deadlocked(h, S)
             PROVE  FALSE
  BY DEF Acyclic
<1>1. CASE S \intersect DOMAIN g = {}
  <2>1. Deadlocked(f, S) /\ S \in SUBSET DOMAIN f
    BY <1>1 DEF Deadlocked
  <2> QED
    BY <2>1 DEF Acyclic
<1>2. CASE S \intersect DOMAIN g # {}
  <2> DEFINE T == S \intersect DOMAIN g
  <2>1. \A m \in T : g[m] \intersect T # {}
    BY DEF Deadlocked, Valid, Closed
  <2>2. Deadlocked(g, T) /\ T \in SUBSET DOMAIN g
    BY <1>2, <2>1 DEF Deadlocked
  <2> QED
    BY <2>2 DEF Acyclic, Valid
<1> QED
  BY <1>1, <1>2

(* A step of one client. *)
Acts(c) == Command(c) \/ Create(c) \/ Set(c) \/ Destroy(c) \/ ZfsFails(c)

(* The actions, one by one. *)
LEMMA TheActions ==
    ASSUME NEW c \in Clients, Acts(c)
    PROVE  \/ \E n \in Names : BeginCreate(c, n) \/ BeginDestroy(c, n)
           \/ \E n \in Jails : BeginBase(c, n) \/ DestroyBase(c, n)
           \/ \E n \in Names, ds \in SUBSET Names : BeginSet(c, n, ds)
           \/ ZfsCreate(c) \/ SetEmpty(c) \/ CreateBase(c)
           \/ ReadResource(c) \/ Validate(c) \/ ZfsSet(c)
           \/ ListReferences(c) \/ ReadReference(c) \/ DropReference(c)
           \/ ReferencesRemoved(c) \/ ZfsDestroy(c) \/ ZfsFails(c)
BY DEF Acts, Command, Create, Set, Destroy

-----------------------------------------------------------------------------
(* Types. *)

(* A step keeps the types of what the clients keep for themselves, and leaves what
   the others have alone. *)
LocalStep(c) ==
    /\ pc' \in [Clients -> PCs]
    /\ target' \in [Clients -> Names]
    /\ want' \in [Clients -> SUBSET Names]
    /\ todo' \in [Clients -> SUBSET Jails]
    /\ DOMAIN seen' = Clients
    /\ \A d \in Clients \ {c} :
          /\ pc'[d] = pc[d] /\ target'[d] = target[d] /\ want'[d] = want[d]
          /\ todo'[d] = todo[d] /\ seen'[d] = seen[d]

(* So does every action of a client. *)
LEMMA StepIsLocal ==
    ASSUME TypeOK, NEW c \in Clients, Acts(c)
    PROVE  LocalStep(c)
<1>0. /\ pc \in [Clients -> PCs] /\ target \in [Clients -> Names]
      /\ want \in [Clients -> SUBSET Names] /\ todo \in [Clients -> SUBSET Jails]
      /\ DOMAIN seen = Clients /\ Listed \subseteq Jails
  BY DEF TypeOK, Listed
<1> USE <1>0, SomeName DEF LocalStep, PCs, Goto, locals, store, Begin
<1>1. CASE Return(c)
  BY <1>1 DEF Return
<1>2. CASE \E n \in Names : BeginCreate(c, n) \/ BeginDestroy(c, n)
  BY <1>2 DEF BeginCreate, BeginDestroy
<1>3. CASE \E n \in Jails : BeginBase(c, n) \/ DestroyBase(c, n)
  BY <1>3 DEF BeginBase, DestroyBase, Names
<1>4. CASE \E n \in Names, ds \in SUBSET Names : BeginSet(c, n, ds)
  BY <1>4 DEF BeginSet
<1>5. CASE ZfsCreate(c)
  BY <1>1, <1>5 DEF ZfsCreate
<1>6. CASE SetEmpty(c) \/ CreateBase(c) \/ ZfsSet(c) \/ ZfsDestroy(c) \/ ZfsFails(c)
  BY <1>1, <1>6 DEF SetEmpty, CreateBase, ZfsSet, ZfsDestroy, ZfsFails
<1>7. CASE ReadResource(c)
  BY <1>7 DEF ReadResource
<1>8. CASE Validate(c)
  BY <1>1, <1>8 DEF Validate
<1>9. CASE ListReferences(c)
  BY <1>9 DEF ListReferences
<1>10. CASE ReadReference(c)
  BY <1>10 DEF ReadReference
<1>11. CASE DropReference(c)
  BY <1>1, <1>11 DEF DropReference
<1>12. CASE ReferencesRemoved(c)
  BY <1>12 DEF ReferencesRemoved
<1> QED
  BY <1>2, <1>3, <1>4, <1>5, <1>6, <1>7, <1>8, <1>9, <1>10, <1>11, <1>12, TheActions

(* What a step of c does to the datasets, and on what it relies there. *)
StoreStep(c) ==
    \/ UNCHANGED store
    \/ /\ UNCHANGED <<exists, deps>>                            \* base jails
       /\ \/ bases' \subseteq bases
          \/ pc[c] = "zfs_base" /\ bases' = bases \union {target[c]} /\ target[c] \in Jails
    \/ /\ exists' = exists \union {target[c]}                   \* create
       /\ UNCHANGED <<bases, deps>>
    \/ /\ target[c] \in exists                                  \* create, set
       /\ UNCHANGED <<exists, bases>>
       /\ \/ deps' = [deps EXCEPT ![target[c]] = {}]
          \/ pc[c] = "zfs_set" /\ deps' = [deps EXCEPT ![target[c]] = want[c]]
    \/ /\ pc[c] = "refs_set" /\ pc'[c] = "refs"                 \* remove_references
       /\ UNCHANGED <<exists, bases>>
       /\ \E r \in DOMAIN seen[c] :
             /\ r \in exists
             /\ deps' = [deps EXCEPT ![r] = seen[c][r] \ {target[c]}]
    \/ /\ pc[c] = "zfs_destroy" /\ pc'[c] = "idle"              \* destroy
       /\ exists' = exists \ {target[c]}
       /\ deps' = [deps EXCEPT ![target[c]] = {}]
       /\ UNCHANGED bases
(* Every action moves the datasets so. *)
LEMMA StoreMoves ==
    ASSUME TypeOK, NEW c \in Clients, AsAsked(c), Acts(c)
    PROVE  StoreStep(c)
<1>0. /\ pc \in [Clients -> PCs] /\ target[c] \in Names
      /\ pc[c] = "zfs_base" => target[c] \in Jails
  BY DEF TypeOK, AsAsked
<1> USE <1>0 DEF StoreStep, Goto, store, Begin, Store
<1>1. CASE UNCHANGED store
  BY <1>1
<1>2. CASE \E n \in Names : BeginCreate(c, n) \/ BeginDestroy(c, n)
  BY <1>2 DEF BeginCreate, BeginDestroy
<1>3. CASE \E n \in Jails : BeginBase(c, n) \/ DestroyBase(c, n)
  BY <1>3 DEF BeginBase, DestroyBase
<1>4. CASE \E n \in Names, ds \in SUBSET Names : BeginSet(c, n, ds)
  BY <1>4 DEF BeginSet
<1>5. CASE ZfsCreate(c)
  BY <1>5 DEF ZfsCreate
<1>6. CASE SetEmpty(c)
  BY <1>6 DEF SetEmpty
<1>7. CASE ZfsSet(c)
  BY <1>7 DEF ZfsSet
<1>8. CASE CreateBase(c)
  BY <1>8 DEF CreateBase
<1>9. CASE ZfsDestroy(c)
  BY <1>9 DEF ZfsDestroy, Return
<1>10. CASE ReadResource(c) \/ Validate(c) \/ ListReferences(c) \/ ReadReference(c)
            \/ ReferencesRemoved(c) \/ ZfsFails(c)
  BY <1>10 DEF ReadResource, Validate, ListReferences, ReadReference, ReferencesRemoved,
               ZfsFails
<1>11. CASE DropReference(c)
  <2>1. PICK r \in DOMAIN seen[c] :
             /\ Store(r, seen[c][r] \ {target[c]})
             /\ r \in exists => Goto(c, "refs")
    BY <1>11 DEF DropReference
  <2>2. /\ pc[c] = "refs_set" /\ UNCHANGED <<exists, bases>>
    BY <1>11 DEF DropReference
  <2>3. CASE r \in exists
    BY <2>1, <2>2, <2>3
  <2>4. CASE r \notin exists
    BY <2>1, <2>2, <2>4
  <2> QED BY <2>3, <2>4
<1> QED
  BY <1>2, <1>3, <1>4, <1>5, <1>6, <1>7, <1>8, <1>9, <1>10, <1>11, TheActions

(* What a step of c does to what c has read. *)
SeenStep(c) ==
    \/ /\ pc'[c] \notin ReaderPCs /\ DOMAIN seen'[c] = {}
       /\ pc'[c] = "zfs_destroy" => todo'[c] = {}
    \/ /\ pc'[c] = "graph" /\ DOMAIN seen'[c] = {} /\ todo'[c] = Listed
       /\ UNCHANGED store
    \/ /\ pc[c] = "graph" /\ pc'[c] = "graph" /\ UNCHANGED store
       /\ \E r \in todo[c], ds \in SUBSET Names :
             /\ ds \in Readings(r) /\ todo'[c] = todo[c] \ {r}
             /\ seen'[c] = Overridden(seen[c], r, ds)
    \/ /\ pc[c] = "graph" /\ pc'[c] = "zfs_set" /\ todo[c] = {}
       /\ UNCHANGED <<store, locals>>
    \/ /\ pc[c] = "refs" /\ pc'[c] = "refs_set" /\ UNCHANGED store
       /\ \E r \in todo[c], ds \in SUBSET Names :
             /\ ds \in Readings(r) /\ todo'[c] = todo[c] \ {r}
             /\ seen'[c] = [n \in {r} |-> ds]

(* Every action of c reads so. *)
LEMMA SeenMoves ==
    ASSUME TypeOK, NEW c \in Clients, Knows(c), Acts(c)
    PROVE  SeenStep(c)
<1>0. /\ pc \in [Clients -> PCs] /\ todo \in [Clients -> SUBSET Jails]
      /\ DOMAIN seen = Clients
      /\ pc[c] \notin ReaderPCs => DOMAIN seen[c] = {}
      /\ pc[c] \in {"zfs_set", "zfs_destroy"} => todo[c] = {}
      /\ \A r \in todo[c] : Readings(r) \subseteq SUBSET Names
  BY DEF TypeOK, Knows, Readings, Names
<1> USE <1>0, JustEmpty DEF SeenStep, Goto, store, locals, Begin, ReaderPCs, SetPCs, Knows
<1>1. CASE Return(c)
  BY <1>1 DEF Return
<1>2. CASE \E n \in Names : BeginCreate(c, n) \/ BeginDestroy(c, n)
  BY <1>2 DEF BeginCreate, BeginDestroy
<1>3. CASE \E n \in Jails : BeginBase(c, n) \/ DestroyBase(c, n)
  BY <1>3 DEF BeginBase, DestroyBase
<1>4. CASE \E n \in Names, ds \in SUBSET Names : BeginSet(c, n, ds)
  BY <1>4 DEF BeginSet
<1>5. CASE ZfsCreate(c)
  BY <1>1, <1>5 DEF ZfsCreate
<1>6. CASE SetEmpty(c) \/ CreateBase(c) \/ ZfsSet(c) \/ ZfsDestroy(c) \/ ZfsFails(c)
  BY <1>1, <1>6 DEF SetEmpty, CreateBase, ZfsSet, ZfsDestroy, ZfsFails
<1>7. CASE ReadResource(c)
  BY <1>7 DEF ReadResource
<1>8. CASE Validate(c)
  BY <1>1, <1>8 DEF Validate
<1>9. CASE ListReferences(c)
  BY <1>9 DEF ListReferences
<1>10. CASE ReadReference(c)
  <2>1. PICK r \in todo[c] : \E ds \in Readings(r) :
             /\ todo' = [todo EXCEPT ![c] = @ \ {r}]
             /\ IF target[c] \in ds
                THEN seen' = [seen EXCEPT ![c] = [n \in {r} |-> ds]] /\ Goto(c, "refs_set")
                ELSE UNCHANGED <<seen, pc>>
    BY <1>10 DEF ReadReference
  <2>1a. PICK ds \in Readings(r) :
             /\ todo' = [todo EXCEPT ![c] = @ \ {r}]
             /\ IF target[c] \in ds
                THEN seen' = [seen EXCEPT ![c] = [n \in {r} |-> ds]] /\ Goto(c, "refs_set")
                ELSE UNCHANGED <<seen, pc>>
    BY <2>1
  <2>2. pc[c] = "refs" /\ UNCHANGED store
    BY <1>10 DEF ReadReference
  <2>3. CASE target[c] \in ds
    BY <2>1a, <2>2, <2>3
  <2>4. CASE target[c] \notin ds
    BY <2>1a, <2>2, <2>4
  <2> QED BY <2>3, <2>4
<1>11. CASE DropReference(c)
  BY <1>1, <1>11 DEF DropReference
<1>12. CASE ReferencesRemoved(c)
  BY <1>12 DEF ReferencesRemoved
<1> QED
  BY <1>2, <1>3, <1>4, <1>5, <1>6, <1>7, <1>8, <1>9, <1>10, <1>11, <1>12, TheActions

-----------------------------------------------------------------------------
(* The inductive invariant, part by part.  First the types. *)

(* Every step of a client keeps the types. *)
LEMMA TypeStep ==
    ASSUME TypeOK, NEW c \in Clients, AsAsked(c), Knows(c), Acts(c), UNCHANGED scenario
    PROVE  TypeOK'
<1>0. /\ exists \subseteq Names /\ bases \subseteq Jails /\ Jails \subseteq Names
      /\ deps \in [Names -> SUBSET Names] /\ \A n \in Names \ exists : deps[n] = {}
      /\ target[c] \in Names /\ want[c] \in SUBSET Names /\ todo[c] \subseteq Jails
      /\ DOMAIN seen[c] \subseteq Jails /\ \A r \in DOMAIN seen[c] : seen[c][r] \subseteq Names
  BY DEF TypeOK, Names
<1>1. /\ exists' \subseteq Names /\ bases' \subseteq Jails
      /\ deps' \in [Names -> SUBSET Names] /\ \A n \in Names \ exists' : deps'[n] = {}
  <2>1. StoreStep(c)
    BY StoreMoves
  <2> QED
    BY <1>0, <2>1 DEF StoreStep, store
<1>2. DOMAIN seen'[c] \subseteq Jails /\ \A r \in DOMAIN seen'[c] : seen'[c][r] \subseteq Names
  <2>1. SeenStep(c)
    BY SeenMoves
  <2>2. ASSUME NEW r \in todo[c], NEW ds \in SUBSET Names,
               seen'[c] = Overridden(seen[c], r, ds)
        PROVE  /\ DOMAIN seen'[c] \subseteq Jails
               /\ \A m \in DOMAIN seen'[c] : seen'[c][m] \subseteq Names
    BY <1>0, <2>2 DEF Overridden
  <2>3. ASSUME NEW r \in todo[c], NEW ds \in SUBSET Names,
               seen'[c] = [n \in {r} |-> ds]
        PROVE  /\ DOMAIN seen'[c] \subseteq Jails
               /\ \A m \in DOMAIN seen'[c] : seen'[c][m] \subseteq Names
    BY <1>0, <2>3
  <2> QED
    BY <1>0, <2>1, <2>2, <2>3 DEF SeenStep, locals
<1>3. LocalStep(c)
  BY StepIsLocal
<1> QED
  BY <1>1, <1>2, <1>3 DEF LocalStep, TypeOK

(* A client that acts gives commands; when one client gives them all, the others have
   nothing to do. *)
LEMMA OthersIdle ==
    ASSUME TypeOK, NEW c \in Clients, Acts(c), \A d \in Clients : AsAsked(d)
    PROVE  /\ \E x \in scenario.commands : x[1] = c
           /\ OneClient => \A d \in Clients \ {c} : pc[d] = "idle"
<1>1. \E x \in scenario.commands : x[1] = c
  <2>1. CASE pc[c] # "idle"
    BY <2>1 DEF AsAsked
  <2>2. CASE \E command, n : <<c, command, n>> \in scenario.commands
    BY <2>2
  <2> QED
    BY <2>1, <2>2, TheActions
       DEF BeginCreate, BeginDestroy, BeginBase, DestroyBase, BeginSet, Begin, ZfsCreate,
           SetEmpty, CreateBase, ReadResource, Validate, ZfsSet, ListReferences,
           ReadReference, DropReference, ReferencesRemoved, ZfsDestroy, ZfsFails
<1> QED
  BY <1>1 DEF AsAsked, OneClient

(* Nothing that a property asks of the commands changes. *)
LEMMA SameCommands ==
    ASSUME UNCHANGED scenario
    PROVE  /\ OneClient' = OneClient /\ OneReader' = OneReader
           /\ Given("create_base")' = Given("create_base")
           /\ Given("destroy")' = Given("destroy")
BY DEF OneClient, OneReader, Given

(* A client goes on working for a command that it gave. *)
LEMMA AskedStep ==
    ASSUME TypeOK, NEW c \in Clients, Acts(c), UNCHANGED scenario,
           \A d \in Clients : AsAsked(d)
    PROVE  \A d \in Clients : AsAsked(d)'
<1>1. LocalStep(c)
  BY StepIsLocal
<1>2. ASSUME NEW d \in Clients \ {c} PROVE AsAsked(d)'
  <2>1. pc'[d] = pc[d] /\ target'[d] = target[d] /\ AsAsked(d)
    BY <1>1 DEF LocalStep
  <2> QED
    BY <2>1, SameCommands DEF AsAsked
<1>3. \E x \in scenario.commands : x[1] = c
  BY OthersIdle
<1>4. /\ pc'[c] = "zfs_base" => Given("create_base") /\ target'[c] \in Jails
      /\ pc'[c] \in DestroyPCs => Given("destroy")
  <2>0. /\ pc \in [Clients -> PCs] /\ target \in [Clients -> Names]
        /\ pc[c] \in DestroyPCs => Given("destroy")
    BY DEF TypeOK, AsAsked
  <2> USE <2>0 DEF Goto, DestroyPCs, locals
  <2>1. CASE Return(c)
    BY <2>1 DEF Return
  <2>2. CASE \E n \in Names : BeginCreate(c, n) \/ BeginDestroy(c, n)
    BY <2>2 DEF BeginCreate, BeginDestroy, Begin, Given
  <2>3. CASE \E n \in Jails : BeginBase(c, n) \/ DestroyBase(c, n)
    BY <2>3 DEF BeginBase, DestroyBase, Begin, Given, Names
  <2>4. CASE \E n \in Names, ds \in SUBSET Names : BeginSet(c, n, ds)
    BY <2>4 DEF BeginSet
  <2>5. CASE ZfsCreate(c)
    BY <2>1, <2>5 DEF ZfsCreate
  <2>6. CASE SetEmpty(c) \/ CreateBase(c) \/ ZfsSet(c) \/ ZfsDestroy(c) \/ ZfsFails(c)
    BY <2>1, <2>6 DEF SetEmpty, CreateBase, ZfsSet, ZfsDestroy, ZfsFails
  <2>7. CASE ReadResource(c)
    BY <2>7 DEF ReadResource
  <2>8. CASE Validate(c)
    BY <2>1, <2>8 DEF Validate
  <2>9. CASE ListReferences(c) \/ ReferencesRemoved(c)
    BY <2>9 DEF ListReferences, ReferencesRemoved
  <2>10. CASE ReadReference(c)
    BY <2>10 DEF ReadReference
  <2>11. CASE DropReference(c)
    BY <2>1, <2>11 DEF DropReference
  <2> QED
    BY <2>2, <2>3, <2>4, <2>5, <2>6, <2>7, <2>8, <2>9, <2>10, <2>11, TheActions
<1>5. AsAsked(c)'
  BY <1>3, <1>4, SameCommands DEF AsAsked
<1> QED
  BY <1>2, <1>5

(* What a client has read stays there, and is not more than there is. *)
LEMMA KnowsStep ==
    ASSUME TypeOK, NEW c \in Clients, Acts(c), UNCHANGED scenario,
           \A d \in Clients : AsAsked(d) /\ Knows(d)
    PROVE  \A d \in Clients : Knows(d)'
<1>1. ASSUME NEW d \in Clients \ {c} PROVE Knows(d)'
  <2>1. pc'[d] = pc[d] /\ todo'[d] = todo[d] /\ seen'[d] = seen[d] /\ Knows(d)
    BY StepIsLocal DEF LocalStep
  <2>2. OneClient => pc[d] = "idle"
    BY OthersIdle
  <2>3. ~Given("destroy") => exists \subseteq exists'
    BY StoreMoves DEF StoreStep, store, AsAsked, DestroyPCs
  <2> QED
    BY <2>1, <2>2, <2>3, SameCommands DEF Knows, ReaderPCs, SetPCs
<1>2. Knows(c)'
  <2>0. SeenStep(c) /\ Knows(c) /\ Listed \subseteq exists
    BY SeenMoves DEF Listed
  <2> USE <2>0, SameCommands DEF Knows, ReaderPCs, SetPCs
  <2>1. CASE /\ pc'[c] \notin ReaderPCs /\ DOMAIN seen'[c] = {}
             /\ pc'[c] = "zfs_destroy" => todo'[c] = {}
    BY <2>1
  <2>2. CASE /\ pc'[c] = "graph" /\ DOMAIN seen'[c] = {} /\ todo'[c] = Listed
             /\ UNCHANGED store
    BY <2>2 DEF store, Listed
  <2>3. ASSUME pc[c] = "graph", pc'[c] = "graph", UNCHANGED store,
               NEW r \in todo[c], NEW ds \in Readings(r), todo'[c] = todo[c] \ {r},
               seen'[c] = Overridden(seen[c], r, ds)
        PROVE  Knows(c)'
    <3>1. /\ DOMAIN seen'[c] = {r} \union DOMAIN seen[c]
          /\ seen'[c][r] = ds /\ \A m \in DOMAIN seen[c] \ {r} : seen'[c][m] = seen[c][m]
      BY <2>3 DEF Overridden
    <3>2. ds \subseteq deps[r] /\ (~scenario.misreads => ds = deps[r])
      BY ReadingsOf
    <3>3. DOMAIN seen'[c] \union todo'[c] = DOMAIN seen[c] \union todo[c]
      BY <2>3, <3>1
    <3>4. /\ exists' = exists /\ deps' = deps /\ Listed' = Listed
          /\ scenario' = scenario
      BY <2>3 DEF store, Listed
    <3> QED
      BY <2>3, <3>1, <3>2, <3>3, <3>4
  <2>4. CASE /\ pc[c] = "graph" /\ pc'[c] = "zfs_set" /\ todo[c] = {}
             /\ UNCHANGED <<store, locals>>
    BY <2>4 DEF store, locals, Listed
  <2>5. ASSUME pc[c] = "refs", pc'[c] = "refs_set", UNCHANGED store,
               NEW r \in todo[c], NEW ds \in Readings(r), todo'[c] = todo[c] \ {r},
               seen'[c] = [n \in {r} |-> ds]
        PROVE  Knows(c)'
    <3>1. ds \subseteq deps[r] /\ (~scenario.misreads => ds = deps[r])
      BY ReadingsOf
    <3> QED
      BY <2>5, <3>1 DEF store
  <2> QED
    BY <2>0, <2>1, <2>2, <2>3, <2>4, <2>5 DEF SeenStep
<1> QED
  BY <1>1, <1>2

(* Only a valid graph is written. *)
LEMMA ValidatedStep ==
    ASSUME TypeOK, NEW c \in Clients, Acts(c), \A d \in Clients : Validated(d)
    PROVE  \A d \in Clients : Validated(d)'
<1>1. ASSUME NEW d \in Clients \ {c} PROVE Validated(d)'
  <2>1. /\ pc'[d] = pc[d] /\ target'[d] = target[d] /\ want'[d] = want[d]
        /\ seen'[d] = seen[d] /\ Validated(d)
    BY StepIsLocal DEF LocalStep
  <2> QED
    BY <2>1 DEF Validated
<1>2. Validated(c)'
  <2>0. pc \in [Clients -> PCs]
    BY DEF TypeOK
  <2> USE <2>0 DEF Goto, Validated, locals
  <2>1. CASE Return(c)
    BY <2>1 DEF Return
  <2>2. CASE \E n \in Names : BeginCreate(c, n) \/ BeginDestroy(c, n)
    BY <2>2 DEF BeginCreate, BeginDestroy
  <2>3. CASE \E n \in Jails : BeginBase(c, n) \/ DestroyBase(c, n)
    BY <2>3 DEF BeginBase, DestroyBase
  <2>4. CASE \E n \in Names, ds \in SUBSET Names : BeginSet(c, n, ds)
    BY <2>4 DEF BeginSet
  <2>5. CASE ZfsCreate(c)
    BY <2>1, <2>5 DEF ZfsCreate
  <2>6. CASE SetEmpty(c) \/ CreateBase(c) \/ ZfsSet(c) \/ ZfsDestroy(c) \/ ZfsFails(c)
    BY <2>1, <2>6 DEF SetEmpty, CreateBase, ZfsSet, ZfsDestroy, ZfsFails
  <2>7. CASE ReadResource(c)
    BY <2>7 DEF ReadResource
  <2>8. CASE Validate(c)
    BY <2>1, <2>8 DEF Validate
  <2>9. CASE ListReferences(c) \/ ReferencesRemoved(c)
    BY <2>9 DEF ListReferences, ReferencesRemoved
  <2>10. CASE ReadReference(c)
    BY <2>10 DEF ReadReference
  <2>11. CASE DropReference(c)
    BY <2>1, <2>11 DEF DropReference
  <2> QED
    BY <2>2, <2>3, <2>4, <2>5, <2>6, <2>7, <2>8, <2>9, <2>10, <2>11, TheActions
<1> QED
  BY <1>1, <1>2

(* What a step of c does to the references that its destroy looks for. *)
DestroyStep(c) ==
    \/ pc'[c] \notin DestroyPCs \ {"list"}
    \/ todo'[c] = Listed /\ UNCHANGED store
    \/ /\ pc[c] = "refs" /\ target'[c] = target[c] /\ UNCHANGED store
       /\ \E r \in todo[c] : \E ds \in Readings(r) :
             /\ todo'[c] = todo[c] \ {r}
             /\ target[c] \in ds => r \in DOMAIN seen'[c]
    \/ /\ pc[c] = "refs_set" /\ target'[c] = target[c] /\ todo'[c] = todo[c]
       /\ UNCHANGED <<exists, bases>>
       /\ \E r \in DOMAIN seen[c] : deps' = [deps EXCEPT ![r] = seen[c][r] \ {target[c]}]
    \/ pc[c] = "refs" /\ UNCHANGED <<store, locals>>

(* Every action does that. *)
LEMMA DestroyMoves ==
    ASSUME TypeOK, NEW c \in Clients, Acts(c)
    PROVE  DestroyStep(c)
<1>0. /\ pc \in [Clients -> PCs] /\ todo \in [Clients -> SUBSET Jails]
      /\ DOMAIN seen = Clients
  BY DEF TypeOK
<1> USE <1>0 DEF DestroyStep, Goto, store, locals, Begin, DestroyPCs
<1>1. CASE Return(c)
  BY <1>1 DEF Return
<1>2. CASE \E n \in Names : BeginCreate(c, n) \/ BeginDestroy(c, n)
  BY <1>2 DEF BeginCreate, BeginDestroy
<1>3. CASE \E n \in Jails : BeginBase(c, n) \/ DestroyBase(c, n)
  BY <1>3 DEF BeginBase, DestroyBase
<1>4. CASE \E n \in Names, ds \in SUBSET Names : BeginSet(c, n, ds)
  BY <1>4 DEF BeginSet
<1>5. CASE ZfsCreate(c)
  BY <1>1, <1>5 DEF ZfsCreate
<1>6. CASE SetEmpty(c) \/ CreateBase(c) \/ ZfsSet(c) \/ ZfsDestroy(c) \/ ZfsFails(c)
  BY <1>1, <1>6 DEF SetEmpty, CreateBase, ZfsSet, ZfsDestroy, ZfsFails
<1>7. CASE ReadResource(c)
  BY <1>7 DEF ReadResource
<1>8. CASE Validate(c)
  BY <1>1, <1>8 DEF Validate
<1>9. CASE ListReferences(c)
  BY <1>9 DEF ListReferences
<1>10. CASE ReadReference(c)
  <2>1. PICK r \in todo[c] : \E ds \in Readings(r) :
             /\ todo' = [todo EXCEPT ![c] = @ \ {r}]
             /\ IF target[c] \in ds
                THEN seen' = [seen EXCEPT ![c] = [n \in {r} |-> ds]] /\ Goto(c, "refs_set")
                ELSE UNCHANGED <<seen, pc>>
    BY <1>10 DEF ReadReference
  <2>2. PICK ds \in Readings(r) :
             /\ todo' = [todo EXCEPT ![c] = @ \ {r}]
             /\ IF target[c] \in ds
                THEN seen' = [seen EXCEPT ![c] = [n \in {r} |-> ds]] /\ Goto(c, "refs_set")
                ELSE UNCHANGED <<seen, pc>>
    BY <2>1
  <2>3. pc[c] = "refs" /\ UNCHANGED store /\ target' = target
    BY <1>10 DEF ReadReference
  <2>4. target[c] \in ds => r \in DOMAIN seen'[c]
    BY <2>2
  <2>5. todo'[c] = todo[c] \ {r}
    BY <2>2
  <2> QED
    BY <2>3, <2>4, <2>5
<1>11. CASE DropReference(c)
  <2>1. PICK r \in DOMAIN seen[c] :
             /\ Store(r, seen[c][r] \ {target[c]})
             /\ r \in exists => UNCHANGED <<target, todo>>
             /\ r \notin exists => Return(c)
    BY <1>11 DEF DropReference
  <2>2. pc[c] = "refs_set" /\ UNCHANGED <<exists, bases>>
    BY <1>11 DEF DropReference
  <2> QED
    BY <1>1, <2>1, <2>2 DEF Store
<1>12. CASE ReferencesRemoved(c)
  BY <1>12 DEF ReferencesRemoved
<1> QED
  BY <1>2, <1>3, <1>4, <1>5, <1>6, <1>7, <1>8, <1>9, <1>10, <1>11, <1>12, TheActions

(* What a destroy is past keeps no reference. *)
LEMMA ReferencesStep ==
    ASSUME TypeOK, NEW c \in Clients, Acts(c), UNCHANGED scenario,
           \A d \in Clients : AsAsked(d) /\ Knows(d) /\ References(d)
    PROVE  \A d \in Clients : References(d)'
<1>1. ASSUME NEW d \in Clients \ {c} PROVE References(d)'
  <2>1. pc'[d] = pc[d]
    BY StepIsLocal DEF LocalStep
  <2>2. OneClient => pc[d] = "idle"
    BY OthersIdle
  <2> QED
    BY <2>1, <2>2, SameCommands DEF References, OneReader, DestroyPCs
<1>2. References(c)'
  <2> SUFFICES ASSUME OneReader, pc'[c] \in DestroyPCs \ {"list"},
                      NEW n \in Listed' \ (todo'[c] \union DOMAIN seen'[c])
               PROVE  target'[c] \notin deps'[n]
    BY SameCommands DEF References
  <2>0. /\ deps \in [Names -> SUBSET Names] /\ Knows(c) /\ ~scenario.misreads
        /\ Listed \subseteq Names
    BY DEF TypeOK, OneReader, Listed, Names
  <2>1. CASE todo'[c] = Listed /\ UNCHANGED store
    BY <2>1 DEF store, Listed
  <2>2. ASSUME pc[c] = "refs", target'[c] = target[c], UNCHANGED store,
               NEW r \in todo[c], NEW ds \in Readings(r), todo'[c] = todo[c] \ {r},
               target[c] \in ds => r \in DOMAIN seen'[c]
        PROVE  target'[c] \notin deps'[n]
    <3>1. ds = deps[r] /\ DOMAIN seen[c] = {} /\ References(c)
      BY <2>0, <2>2, ReadingsOf DEF Knows, ReaderPCs, SetPCs
    <3>2. n \in Listed /\ deps'[n] = deps[n]
      BY <2>2 DEF store, Listed
    <3> QED
      BY <2>2, <3>1, <3>2 DEF References, DestroyPCs
  <2>3. ASSUME pc[c] = "refs_set", target'[c] = target[c], todo'[c] = todo[c],
               UNCHANGED <<exists, bases>>, NEW r \in DOMAIN seen[c],
               deps' = [deps EXCEPT ![r] = seen[c][r] \ {target[c]}]
        PROVE  target'[c] \notin deps'[n]
    <3>1. n \in Listed /\ n \in Names
      BY <2>0, <2>3 DEF Listed
    <3>2. CASE n = r
      BY <2>0, <2>3, <3>1, <3>2
    <3>3. CASE n # r
      <4>1. n \notin DOMAIN seen[c]
        BY <2>0, <2>3, <3>3 DEF Knows
      <4>2. deps'[n] = deps[n]
        BY <2>0, <2>3, <3>1, <3>3
      <4> QED
        BY <2>3, <3>1, <4>1, <4>2 DEF References, DestroyPCs
    <3> QED
      BY <3>2, <3>3
  <2>4. CASE pc[c] = "refs" /\ UNCHANGED <<store, locals>>
    <3>1. n \in Listed /\ deps' = deps /\ todo' = todo /\ seen' = seen /\ target' = target
      BY <2>4 DEF store, locals, Listed
    <3> QED
      BY <2>4, <3>1 DEF References, DestroyPCs
  <2> QED
    BY <2>1, <2>2, <2>3, <2>4, DestroyMoves DEF DestroyStep
<1> QED
  BY <1>1, <1>2

-----------------------------------------------------------------------------
(* The graph that is stored. *)

(* The two graphs that the properties are about. *)
LEMMA TheGraphs ==
    /\ DOMAIN Stored = exists /\ \A n \in exists : Stored[n] = deps[n]
    /\ DOMAIN [n \in Listed |-> deps[n]] = Listed
    /\ \A m \in Listed : [n \in Listed |-> deps[n]][m] = deps[m]
BY DEF Stored

(* What a write of set_dependencies relies on. *)
LEMMA WrittenGraph ==
    ASSUME TypeOK, NEW c \in Clients, Knows(c), Validated(c), pc[c] = "zfs_set"
    PROVE  /\ want[c] \subseteq {target[c]} \union DOMAIN seen[c]
           /\ ~Given("destroy") => DOMAIN seen[c] \subseteq exists
           /\ OneClient => DOMAIN seen[c] = Listed
<1>1. todo[c] = {}
  BY DEF Knows
<1>2. want[c] \subseteq {target[c]} \union DOMAIN seen[c]
  <2> DEFINE g == Overridden(seen[c], target[c], want[c])
  <2>1. Closed(g)
    BY DEF Validated, Valid
  <2>2. DOMAIN g = {target[c]} \union DOMAIN seen[c] /\ g[target[c]] = want[c]
    BY DEF Overridden
  <2> QED
    BY <2>1, <2>2 DEF Closed
<1> QED
  BY <1>1, <1>2 DEF Knows, SetPCs

(* No step makes one client store a cycle. *)
LEMMA CycleStep ==
    ASSUME Inv, NEW c \in Clients, Acts(c), UNCHANGED scenario
    PROVE  NoCycles'
<1> SUFFICES ASSUME OneReader
             PROVE  Acyclic(Stored')
  BY SameCommands DEF NoCycles, Acyclic, Deadlocked, Stored
<1>0. /\ deps \in [Names -> SUBSET Names] /\ exists \subseteq Names /\ target[c] \in Names
      /\ \A n \in Names \ exists : deps[n] = {}
      /\ Knows(c) /\ Validated(c) /\ Acyclic(Stored) /\ TypeOK
      /\ OneClient /\ ~scenario.misreads
  BY DEF Inv, TypeOK, NoCycles, OneReader
<1>1. DOMAIN Stored' = exists' /\ \A n \in exists' : Stored'[n] = deps'[n]
  BY DEF Stored
<1>2. ASSUME \A n \in exists' : deps'[n] = {} \/ (n \in exists /\ deps'[n] \subseteq deps[n])
      PROVE  Acyclic(Stored')
  <2>1. \A n \in DOMAIN Stored' :
           Stored'[n] = {} \/ (n \in DOMAIN Stored /\ Stored'[n] \subseteq Stored[n])
    BY <1>1, <1>2, TheGraphs
  <2> QED
    BY <1>0, <2>1, FewerDependencies
<1>3. CASE UNCHANGED store \/ UNCHANGED <<exists, deps>>
  <2>1. exists' = exists /\ deps' = deps
    BY <1>3 DEF store
  <2> QED
    BY <1>2, <2>1
<1>4. CASE exists' = exists \union {target[c]} /\ UNCHANGED <<bases, deps>>
  BY <1>0, <1>2, <1>4
<1>5. CASE UNCHANGED exists /\ deps' = [deps EXCEPT ![target[c]] = {}]
  BY <1>0, <1>2, <1>5
<1>6. CASE /\ target[c] \in exists /\ UNCHANGED <<exists, bases>>
           /\ pc[c] = "zfs_set" /\ deps' = [deps EXCEPT ![target[c]] = want[c]]
  <2> DEFINE g == Overridden(seen[c], target[c], want[c])
  <2>1. Valid(g) /\ DOMAIN seen[c] = Listed /\ Listed \subseteq exists
    BY <1>0, <1>6, WrittenGraph DEF Validated, Listed
  <2>2. DOMAIN g = {target[c]} \union Listed
    BY <2>1, OverriddenGraph
  <2>3. g[target[c]] = want[c] /\ \A m \in Listed \ {target[c]} : g[m] = deps[m]
    <3>1. \A m \in Listed : seen[c][m] = deps[m]
      BY <1>0, <2>1 DEF Knows
    <3> QED
      BY <2>1, <3>1 DEF Overridden
  <2>4. \A m \in DOMAIN g : Stored'[m] = g[m]
    BY <1>0, <1>1, <1>6, <2>1, <2>2, <2>3
  <2>5. \A m \in DOMAIN Stored \ {target[c]} : Stored'[m] = Stored[m]
    BY <1>0, <1>1, <1>6, TheGraphs
  <2>6. DOMAIN Stored' = DOMAIN Stored /\ target[c] \in DOMAIN g
    BY <1>1, <1>6, <2>2, TheGraphs
  <2> HIDE DEF g
  <2> QED
    BY <1>0, <2>1, <2>4, <2>5, <2>6, ValidWrite
<1>7. ASSUME UNCHANGED <<exists, bases>>, NEW r \in DOMAIN seen[c], r \in exists,
             deps' = [deps EXCEPT ![r] = seen[c][r] \ {target[c]}]
      PROVE  Acyclic(Stored')
  <2>1. seen[c][r] = deps[r]
    BY <1>0 DEF Knows
  <2> QED
    BY <1>0, <1>2, <1>7, <2>1
<1>8. CASE /\ exists' = exists \ {target[c]}
           /\ deps' = [deps EXCEPT ![target[c]] = {}]
  BY <1>0, <1>2, <1>8
<1>9. StoreStep(c)
  BY StoreMoves DEF Inv
<1> QED
  BY <1>3, <1>4, <1>5, <1>6, <1>7, <1>8, <1>9 DEF StoreStep

(* While nothing is destroyed, no step stores a dependency on nothing. *)
LEMMA ExistStep ==
    ASSUME Inv, NEW c \in Clients, Acts(c), UNCHANGED scenario
    PROVE  DependenciesExist'
<1> SUFFICES ASSUME ~Given("destroy"), NEW n \in exists'
             PROVE  deps'[n] \subseteq exists'
  BY SameCommands DEF DependenciesExist, Closed, Stored
<1>0. /\ deps \in [Names -> SUBSET Names] /\ exists \subseteq Names /\ target[c] \in Names
      /\ \A m \in Names \ exists : deps[m] = {}
      /\ \A m \in exists : deps[m] \subseteq exists
      /\ Knows(c) /\ Validated(c) /\ AsAsked(c) /\ TypeOK
  BY TheGraphs DEF Inv, TypeOK, DependenciesExist, Closed
<1>1. pc[c] \notin DestroyPCs
  BY <1>0 DEF AsAsked
<1>2. CASE UNCHANGED store \/ UNCHANGED <<exists, deps>>
  BY <1>0, <1>2 DEF store
<1>3. CASE exists' = exists \union {target[c]} /\ UNCHANGED <<bases, deps>>
  BY <1>0, <1>3
<1>4. CASE UNCHANGED exists /\ deps' = [deps EXCEPT ![target[c]] = {}]
  BY <1>0, <1>4
<1>5. CASE /\ target[c] \in exists /\ UNCHANGED <<exists, bases>>
           /\ pc[c] = "zfs_set" /\ deps' = [deps EXCEPT ![target[c]] = want[c]]
  <2>1. want[c] \subseteq exists
    BY <1>0, <1>5, WrittenGraph
  <2> QED
    BY <1>0, <1>5, <2>1
<1>6. StoreStep(c)
  BY StoreMoves DEF Inv
<1> QED
  BY <1>1, <1>2, <1>3, <1>4, <1>5, <1>6 DEF StoreStep, DestroyPCs

(* Without create --base there is no base jail to hide a jail. *)
LEMMA BaseStep ==
    ASSUME Inv, NEW c \in Clients, Acts(c), UNCHANGED scenario
    PROVE  (bases # {} => Given("create_base"))'
<1>1. StoreStep(c) /\ AsAsked(c) /\ (bases # {} => Given("create_base"))
  BY StoreMoves DEF Inv
<1>2. bases' # {} => Given("create_base")
  BY <1>1 DEF StoreStep, AsAsked, store
<1> QED
  BY <1>2, SameCommands

(* Every step preserves the invariant. *)
LEMMA InvStep == Inv /\ [Next]_vars => Inv'
<1> SUFFICES ASSUME Inv, [Next]_vars
             PROVE  Inv'
  OBVIOUS
<1>1. CASE UNCHANGED vars
  <2>1. /\ scenario' = scenario /\ exists' = exists /\ bases' = bases /\ deps' = deps
        /\ pc' = pc /\ target' = target /\ want' = want /\ todo' = todo /\ seen' = seen
    BY <1>1 DEF vars, store, locals
  <2>2. TypeOK' /\ NoCycles' /\ DependenciesExist' /\ (bases # {} => Given("create_base"))'
    BY <2>1 DEF Inv, TypeOK, NoCycles, DependenciesExist, OneReader, OneClient, Given,
                Acyclic, Deadlocked, Closed, Stored
  <2>3. \A c \in Clients : AsAsked(c)' /\ Knows(c)' /\ Validated(c)' /\ References(c)'
    <3> SUFFICES ASSUME NEW c \in Clients
                 PROVE  AsAsked(c)' /\ Knows(c)' /\ Validated(c)' /\ References(c)'
      OBVIOUS
    <3>1. AsAsked(c)' /\ Knows(c)'
      BY <2>1 DEF Inv, AsAsked, Knows, OneReader, OneClient, Given, Listed
    <3>2. Validated(c)'
      BY <2>1 DEF Inv, Validated, OneReader, OneClient, Given, Listed
    <3>3. References(c)'
      BY <2>1 DEF Inv, References, OneReader, OneClient, Given, Listed
    <3> QED  BY <3>1, <3>2, <3>3
  <2> QED
    BY <2>2, <2>3 DEF Inv
<1>2. ASSUME NEW c \in Clients, Acts(c), UNCHANGED scenario
      PROVE  Inv'
  <2>1. TypeOK' /\ NoCycles' /\ DependenciesExist' /\ (bases # {} => Given("create_base"))'
    BY <1>2, TypeStep, CycleStep, ExistStep, BaseStep DEF Inv
  <2>2. \A d \in Clients : AsAsked(d)' /\ Knows(d)' /\ Validated(d)' /\ References(d)'
    BY <1>2, AskedStep, KnowsStep, ValidatedStep, ReferencesStep DEF Inv
  <2> QED
    BY <2>1, <2>2 DEF Inv
<1> QED
  BY <1>1, <1>2 DEF Next, Acts

(* Nothing is stored and nobody at work. *)
LEMMA InvInit == Init => Inv
<1> SUFFICES ASSUME Init
             PROVE  Inv
  OBVIOUS
<1>1. TypeOK
  BY SomeName, JustEmpty DEF Init, TypeOK, PCs
<1>2. NoCycles /\ DependenciesExist
  BY DEF Init, NoCycles, DependenciesExist, Acyclic, Deadlocked, Closed, Stored
<1>3. \A c \in Clients : AsAsked(c) /\ Knows(c) /\ Validated(c) /\ References(c)
  BY JustEmpty DEF Init, AsAsked, Knows, Validated, References, ReaderPCs, SetPCs,
                   DestroyPCs
<1> QED
  BY <1>1, <1>2, <1>3 DEF Inv, Init

(* For any names and clients: one client whose reads succeed never stores a cycle,
   whatever it creates, changes, hides by a base or destroys (dependency.rs:86-106), and
   while nothing is destroyed nobody stores a dependency on nothing (dependency.rs:70-77). *)
THEOREM InvHolds == Spec => []Inv
<1>1. Init => Inv
  BY InvInit
<1>2. Inv /\ [Next]_vars => Inv'
  BY InvStep
<1> QED
  BY <1>1, <1>2, PTL DEF Spec

-----------------------------------------------------------------------------
(* What the daemon finds when it boots. *)

(* The listed resources depend on listed ones only. *)
ListedClosed == \A n \in Listed : deps[n] \subseteq Listed

(* Together with the absence of cycles that is all that booting needs. *)
LEMMA BootableIsClosed ==
    /\ AlwaysBootable => (OneReader /\ ~Given("create_base") => ListedClosed)
    /\ NoCycles /\ (OneReader /\ ~Given("create_base") => ListedClosed) => AlwaysBootable
<1> DEFINE g == [n \in Listed |-> deps[n]]
<1>1. DOMAIN g = Listed /\ \A n \in Listed : g[n] = deps[n]
  OBVIOUS
<1>2. ListedClosed <=> Closed(g)
  BY <1>1 DEF ListedClosed, Closed
<1>3. Acyclic(Stored) => Acyclic(g)
  <2>1. \A n \in DOMAIN g : n \in DOMAIN Stored /\ g[n] \subseteq Stored[n]
    BY <1>1, TheGraphs DEF Listed
  <2> HIDE DEF g
  <2> QED
    BY <2>1, FewerDependencies
<1> QED
  BY <1>2, <1>3 DEF AlwaysBootable, NoCycles, Valid

(* Every step leaves a graph that the daemon can boot. *)
LEMMA BootStep ==
    ASSUME Inv, AlwaysBootable, NEW c \in Clients, Acts(c), UNCHANGED scenario
    PROVE  AlwaysBootable'
<1> SUFFICES ASSUME OneReader, ~Given("create_base")
             PROVE  ListedClosed'
  <2>1. NoCycles'
    BY CycleStep
  <2>2. Acyclic(Stored') /\ OneReader
        => \A S \in SUBSET Listed' : S # {} => \E n \in S : deps'[n] \intersect S = {}
    <3>1. DOMAIN Stored' = exists' /\ \A n \in exists' : Stored'[n] = deps'[n]
      BY DEF Stored
    <3>2. Listed' \subseteq exists'
      BY DEF Listed
    <3> QED
      BY <3>1, <3>2 DEF Acyclic, Deadlocked
  <2>3. OneReader => Acyclic(Stored')
    BY <2>1, SameCommands DEF NoCycles, Acyclic, Deadlocked, Stored
  <2>4. ASSUME OneReader, ListedClosed'
        PROVE  Valid([n \in Listed |-> deps[n]])'
    BY <2>2, <2>3, <2>4 DEF Valid, Closed, Acyclic, Deadlocked, ListedClosed
  <2> QED
    BY <2>4, SameCommands DEF AlwaysBootable
<1>0. /\ deps \in [Names -> SUBSET Names] /\ exists \subseteq Names /\ target[c] \in Names
      /\ \A n \in Names \ exists : deps[n] = {}
      /\ Knows(c) /\ Validated(c) /\ AsAsked(c) /\ References(c) /\ TypeOK
      /\ OneClient /\ ~scenario.misreads /\ ListedClosed /\ bases = {}
      /\ Jails \intersect Vms = {} /\ Names = Jails \union Vms
  BY BootableIsClosed, StoreAssumption DEF Inv, TypeOK, OneReader, Names
<1>1. /\ bases' = {} /\ Listed = exists \intersect Jails
      /\ Listed' = exists' \intersect Jails
  <2>1. bases' = {}
    BY BaseStep, SameCommands
  <2> QED
    BY <1>0, <2>1 DEF Listed
<1> SUFFICES ASSUME NEW n \in Listed'
             PROVE  deps'[n] \subseteq Listed'
  BY DEF ListedClosed
<1>2. n \in exists' /\ n \in Names /\ n \in Jails
  BY <1>0, <1>1
<1>3. CASE UNCHANGED store \/ UNCHANGED <<exists, deps>>
  BY <1>0, <1>1, <1>3 DEF store, ListedClosed
<1>4. CASE exists' = exists \union {target[c]} /\ UNCHANGED <<bases, deps>>
  BY <1>0, <1>1, <1>2, <1>4 DEF ListedClosed
<1>5. CASE UNCHANGED exists /\ deps' = [deps EXCEPT ![target[c]] = {}]
  BY <1>0, <1>1, <1>2, <1>5 DEF ListedClosed
<1>6. CASE /\ target[c] \in exists /\ UNCHANGED <<exists, bases>>
           /\ pc[c] = "zfs_set" /\ deps' = [deps EXCEPT ![target[c]] = want[c]]
  <2>1. want[c] \subseteq {target[c]} \union Listed
    BY <1>0, <1>6, WrittenGraph
  <2>2. CASE n = target[c]
    BY <1>0, <1>1, <1>2, <1>6, <2>1, <2>2
  <2>3. CASE n # target[c]
    BY <1>0, <1>1, <1>2, <1>6, <2>3 DEF ListedClosed
  <2> QED
    BY <2>2, <2>3
<1>7. ASSUME UNCHANGED <<exists, bases>>, NEW r \in DOMAIN seen[c], r \in exists,
             deps' = [deps EXCEPT ![r] = seen[c][r] \ {target[c]}]
      PROVE  deps'[n] \subseteq Listed'
  <2>1. seen[c][r] = deps[r]
    BY <1>0 DEF Knows
  <2> QED
    BY <1>0, <1>1, <1>2, <1>7, <2>1 DEF ListedClosed
<1>8. CASE /\ pc[c] = "zfs_destroy" /\ exists' = exists \ {target[c]}
           /\ deps' = [deps EXCEPT ![target[c]] = {}]
  <2>1. todo[c] = {} /\ DOMAIN seen[c] = {}
    BY <1>0, <1>8 DEF Knows, ReaderPCs, SetPCs
  <2>2. \A m \in Listed : target[c] \notin deps[m]
    BY <1>0, <1>8, <2>1 DEF References, DestroyPCs, OneReader
  <2> QED
    BY <1>0, <1>1, <1>2, <1>8, <2>2 DEF ListedClosed
<1>9. StoreStep(c)
  BY StoreMoves DEF Inv
<1> QED
  BY <1>3, <1>4, <1>5, <1>6, <1>7, <1>8, <1>9 DEF StoreStep

(* For any names: validate_all accepts what one client has stored (dependency.rs:65-68),
   between any two steps of its commands and after any of them that failed, so that the
   daemon can start what is enabled (priosund.rs:81-82); unless a base was made that
   hides a jail of its name. *)
THEOREM BootsAlways == Spec => []AlwaysBootable
<1>1. Init => Inv /\ AlwaysBootable
  <2>1. ASSUME Init PROVE ListedClosed
    BY <2>1 DEF Init, ListedClosed, Listed
  <2> QED
    BY <2>1, InvInit, BootableIsClosed DEF Inv
<1>2. Inv /\ AlwaysBootable /\ [Next]_vars => (Inv /\ AlwaysBootable)'
  <2> SUFFICES ASSUME Inv, AlwaysBootable, [Next]_vars
               PROVE  AlwaysBootable'
    BY InvStep
  <2>1. CASE UNCHANGED vars
    BY <2>1 DEF vars, store, locals, AlwaysBootable, OneReader, OneClient, Given, Listed,
                Valid, Closed, Acyclic, Deadlocked
  <2> QED
    BY <2>1, BootStep DEF Next, Acts
<1> QED
  BY <1>1, <1>2, PTL DEF Spec

(* For any names and clients: one client is refused no dependencies of jails that would
   have been in order (dependency.rs:40-106), whether its reads fail or not, as long as
   there are only jails and no base that hides one. *)
THEOREM RefusedRightly == Spec => RejectsOnlyInvalidJails
<1>1. Inv /\ [Next]_vars =>
         [\A c \in Clients :
             Refuses(c) /\ OneClient /\ ~Given("create_base") /\ exists \subseteq Jails
             => Justified(c)]_vars
  <2> SUFFICES ASSUME Inv, Next, NEW c \in Clients, Refuses(c), OneClient,
                      ~Given("create_base"), exists \subseteq Jails,
                      ~Justified(c)
               PROVE  FALSE
    OBVIOUS
  <2>0. /\ pc \in [Clients -> PCs] /\ target[c] \in exists /\ pc[c] = "graph"
        /\ pc'[c] = "idle" /\ Knows(c) /\ bases = {} /\ Listed = exists
    BY DEF Inv, TypeOK, Refuses, Listed
  <2>1. PICK d \in Clients : Acts(d)
    BY DEF Next, Acts
  <2>2. c = d
    <3>1. LocalStep(d)
      BY <2>1, StepIsLocal DEF Inv
    <3> QED
      BY <2>0, <3>1 DEF LocalStep
  <2>3. todo[c] = {} /\ ~Valid(Overridden(seen[c], target[c], want[c]))
    BY <2>0, <2>1, <2>2, TheActions
       DEF BeginCreate, BeginDestroy, BeginBase, DestroyBase, BeginSet, Begin, ZfsCreate,
           SetEmpty, CreateBase, ReadResource, Validate, ZfsSet, ListReferences,
           ReadReference, DropReference, ReferencesRemoved, ZfsDestroy, ZfsFails, Goto
  <2> DEFINE f == Overridden(Stored, target[c], want[c])
             g == Overridden(seen[c], target[c], want[c])
  <2>4. /\ DOMAIN seen[c] = exists /\ DOMAIN Stored = exists
        /\ \A n \in exists : seen[c][n] \subseteq Stored[n]
    BY <2>0, <2>3, TheGraphs DEF Knows, SetPCs
  <2>5. DOMAIN f = DOMAIN g /\ \A n \in DOMAIN g : g[n] \subseteq f[n]
    BY <2>4 DEF Overridden
  <2>6. Valid(f)
    BY DEF Justified
  <2> HIDE DEF f, g
  <2>7. Acyclic(g)
    BY <2>5, <2>6, FewerDependencies DEF Valid
  <2>8. Closed(g)
    BY <2>5, <2>6 DEF Valid, Closed
  <2> QED
    BY <2>3, <2>7, <2>8 DEF Valid, g
<1> QED
  BY <1>1, InvHolds, PTL DEF Spec, RejectsOnlyInvalidJails

=============================================================================
