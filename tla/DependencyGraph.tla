-------------------------- MODULE DependencyGraph --------------------------
(* validate_graph and visit of src/src/dependency.rs: the depth-first       *)
(* search that accepts or rejects a dependency graph.  A frame of the stack *)
(* is one activation of visit with the dependencies it has not tried yet;   *)
(* roots and dependencies are taken in any order, as a HashMap yields them. *)
EXTENDS DependencyOrder, Naturals, Sequences

CONSTANT Nodes          \* names resources and dependencies may have

VARIABLES
    graph,              \* the graph under validation
    roots,              \* keys of it not visited from validate_graph yet
    stack,              \* activations of visit, the innermost first
    visiting, visited,  \* the two sets of the search
    result              \* check, visit, then the verdict: ok, missing, cyclic

searchVars == <<graph, roots, stack, visiting, visited, result>>

Graphs == UNION {[D -> SUBSET Nodes] : D \in SUBSET Nodes}

SearchInit ==
    /\ graph \in Graphs
    /\ roots = DOMAIN graph
    /\ stack = <<>>
    /\ visiting = {} /\ visited = {}
    /\ result = "check"

(* dependencies on names that no resource has *)
CheckNames ==
    /\ result = "check"
    /\ result' = IF Closed(graph) THEN "visit" ELSE "missing"
    /\ UNCHANGED <<graph, roots, stack, visiting, visited>>

(* mutant: one set for both "being visited" and "visited" *)
VisitForgiving(n, frames) ==
    \/ /\ n \in visited \union visiting
       /\ stack' = frames
       /\ UNCHANGED <<visiting, result>>
    \/ /\ n \notin visiting \union visited
       /\ visiting' = visiting \union {n}
       /\ stack' = <<[name |-> n, todo |-> graph[n]]>> \o frames
       /\ UNCHANGED result

(* The beginning of visit(n), on top of the frames that remain. *)
Visit(n, frames) ==
    \/ /\ n \in visited
       /\ stack' = frames
       /\ UNCHANGED <<visiting, result>>
    \/ /\ n \in visiting \ visited
       /\ result' = "cyclic"
       /\ stack' = frames
       /\ UNCHANGED visiting
    \/ /\ n \notin visiting \union visited
       /\ visiting' = visiting \union {n}
       /\ stack' = <<[name |-> n, todo |-> graph[n]]>> \o frames
       /\ UNCHANGED result

(* mutant: the roots are never used up *)
VisitRootAgain ==
    /\ result = "visit" /\ stack = <<>>
    /\ \E n \in roots : Visit(n, <<>>)
    /\ UNCHANGED <<graph, roots, visited>>

VisitRoot ==
    /\ result = "visit" /\ stack = <<>>
    /\ \E n \in roots : /\ roots' = roots \ {n}
                        /\ Visit(n, <<>>)
    /\ UNCHANGED <<graph, visited>>

VisitDependency ==
    /\ result = "visit" /\ stack # <<>>
    /\ \E d \in Head(stack).todo :
          Visit(d, <<[Head(stack) EXCEPT !.todo = @ \ {d}]>> \o Tail(stack))
    /\ UNCHANGED <<graph, roots, visited>>

Leave ==
    /\ result = "visit" /\ stack # <<>>
    /\ Head(stack).todo = {}
    /\ visiting' = visiting \ {Head(stack).name}
    /\ visited' = visited \union {Head(stack).name}
    /\ stack' = Tail(stack)
    /\ UNCHANGED <<graph, roots, result>>

Accept ==
    /\ result = "visit" /\ stack = <<>> /\ roots = {}
    /\ result' = "ok"
    /\ UNCHANGED <<graph, roots, stack, visiting, visited>>

SearchNext == CheckNames \/ VisitRoot \/ VisitDependency \/ Leave \/ Accept

SearchSpec == SearchInit /\ [][SearchNext]_searchVars

FairSearchSpec == SearchSpec /\ WF_searchVars(SearchNext)

-----------------------------------------------------------------------------
(* The variables hold what their comments say. *)
SearchTypeOK ==
    /\ graph \in Graphs
    /\ roots \subseteq DOMAIN graph
    /\ stack \in Seq([name : DOMAIN graph, todo : SUBSET Nodes])
    /\ visiting \subseteq DOMAIN graph /\ visited \subseteq DOMAIN graph
    /\ result \in {"check", "visit", "ok", "missing", "cyclic"}

(* The search is right both ways (dependency.rs:70-106): it accepts a graph only
   if every dependency exists and there is no cycle, and gives each error only
   to a graph that has it. *)
VerdictRight ==
    /\ result = "ok" => Valid(graph)
    /\ result = "missing" => ~Closed(graph)
    /\ result = "cyclic" => ~Acyclic(graph)

(* It ends on every graph, cyclic ones included (dependency.rs:92-97). *)
Terminates == <>(result \in {"ok", "missing", "cyclic"})

-----------------------------------------------------------------------------
(* Why the verdict is right.  An accepted graph has no cycle, for visited is
   closed under dependencies, the one that enters it last closes no cycle with
   those that entered before, and in the end it holds everything.  A rejected
   one has a cycle, for the stack is a path of dependencies. *)
VisitedAcyclic ==
    /\ \A n \in visited : graph[n] \subseteq visited
    /\ \A S \in SUBSET visited : ~Deadlocked(graph, S)

NamesOn(s, k) == {s[i].name : i \in 1..k}

(* The activations are of distinct names, and each waits for the one it called. *)
StackIsPath ==
    /\ visiting = NamesOn(stack, Len(stack))
    /\ \A i \in 1..Len(stack) : stack[i].name \notin visited
    /\ \A i, j \in 1..Len(stack) : stack[i].name = stack[j].name => i = j
    /\ \A i \in 2..Len(stack) : stack[i - 1].name \in graph[stack[i].name]

(* What an activation has tried is visited, or is the one it called. *)
Tried ==
    \A i \in 1..Len(stack) :
        /\ stack[i].todo \subseteq graph[stack[i].name]
        /\ graph[stack[i].name] \ stack[i].todo
              \subseteq visited \union (IF i = 1 THEN {} ELSE {stack[i - 1].name})

(* Every resource is visited, being visited, or a root still to come. *)
NothingSkipped == DOMAIN graph \subseteq roots \union visited \union visiting

SearchInv ==
    /\ SearchTypeOK
    /\ VisitedAcyclic
    /\ result \in {"visit", "ok"} => Closed(graph)
    /\ result = "check" => visited = {} /\ stack = <<>> /\ visiting = {}
    /\ result \in {"check", "visit"} => StackIsPath /\ Tried /\ NothingSkipped
    /\ result = "ok" => DOMAIN graph \subseteq visited
    /\ VerdictRight
=============================================================================
