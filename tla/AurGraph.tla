------------------------------- MODULE AurGraph -------------------------------
(***************************************************************************)
(* Adding an AUR package with the AUR packages it needs: the walk of       *)
(* ResolveAURGraph, which clones each of them once, call by call, and then *)
(* the question and the loop of add, which accepts them one by one.        *)
(***************************************************************************)
EXTENDS Integers, SequencesExt

CONSTANTS
    Names,      \* of packages
    Graphs      \* what a walk may find: the dependencies of each package that can
                \* be cloned, [name, aur], aur saying that the AUR has the name

GraphDependencies == [name : Names, aur : BOOLEAN]

ASSUME GraphsAssumption ==
    \A g \in Graphs :
        DOMAIN g \subseteq Names /\ \A n \in DOMAIN g : g[n] \in Seq(GraphDependencies)

VARIABLES
    graph, root,    \* what there is to find, and where the walk starts
    stack,          \* the calls of visit under way: [name, next], next being the
                    \* position of the dependency whose turn it is
    visited, nodes, \* of ResolveAURGraph
    added,          \* the packages that have been accepted
    stage           \* of the command

vars == <<graph, root, stack, visited, nodes, added, stage>>
Visits == [name : Names, next : Nat \ {0}]
Stages == {"resolve", "confirm", "declined", "accept", "failed", "done"}

GraphInit ==
    /\ graph \in Graphs /\ root \in Names
    /\ stack = << >> /\ visited = {} /\ nodes = << >> /\ added = << >>
    /\ stage = "resolve"

\* Faulty variant: only the packages on the way here are known.
UnvisitedOnTheWay(name) == \A i \in DOMAIN stack : stack[i].name # name
\* The check at the start of visit.
Unvisited(name) == name \notin visited

\* visit: an error of PreviewAUR is the end of the whole walk and of its result.
visit(name, callers) ==
    /\ visited' = visited \cup {name}
    /\ IF name \in DOMAIN graph
       THEN /\ nodes' = Append(nodes, name)
            /\ stack' = Append(callers, [name |-> name, next |-> 1])
            /\ UNCHANGED stage
       ELSE nodes' = << >> /\ stack' = << >> /\ stage' = "failed"

Start ==
    /\ stage = "resolve" /\ visited = {}
    /\ visit(root, << >>)
    /\ UNCHANGED <<graph, root, added>>

\* Faulty variant: a call comes back to the dependency it was at.
AtTheSame(call) == call
AtTheNext(call) == [call EXCEPT !.next = @ + 1]

\* The loop of the innermost call.
Depend ==
    /\ stage = "resolve" /\ stack # << >> /\ Last(stack).next <= Len(graph[Last(stack).name])
    /\ LET dep == graph[Last(stack).name][Last(stack).next]
           callers == Append(Front(stack), AtTheNext(Last(stack)))
       IN  IF dep.aur /\ Unvisited(dep.name) THEN visit(dep.name, callers)
           ELSE stack' = callers /\ UNCHANGED <<visited, nodes, stage>>
    /\ UNCHANGED <<graph, root, added>>

Return ==
    /\ stage = "resolve" /\ stack # << >> /\ Last(stack).next > Len(graph[Last(stack).name])
    /\ stack' = Front(stack)
    /\ stage' = IF Len(stack) = 1 THEN "confirm" ELSE stage
    /\ UNCHANGED <<graph, root, visited, nodes, added>>

ResolveAURGraph == Start \/ Depend \/ Return

Confirm ==
    /\ stage = "confirm" /\ stage' \in {"accept", "declined"}
    /\ UNCHANGED <<graph, root, stack, visited, nodes, added>>

\* Each AcceptAUR may fail, which is the end of add.
Accept ==
    /\ stage = "accept"
    /\ IF Len(added) = Len(nodes) THEN stage' = "done" /\ UNCHANGED added
       ELSE \/ added' = Append(added, nodes[Len(added) + 1]) /\ UNCHANGED stage
            \/ stage' = "failed" /\ UNCHANGED added
    /\ UNCHANGED <<graph, root, stack, visited, nodes>>

GraphNext == ResolveAURGraph \/ Confirm \/ Accept
GraphSpec == GraphInit /\ [][GraphNext]_vars
\* Nobody but the walk itself has to do anything for it to go on.
WalkFairness == WF_vars(ResolveAURGraph)

-----------------------------------------------------------------------------
\* The packages an addition needs, by the relation alone: the smallest set with
\* the root that has what its packages depend on in the AUR.
Closed(S) ==
    \A n \in S \cap DOMAIN graph : \A i \in DOMAIN graph[n] :
        graph[n][i].aur => graph[n][i].name \in S
Needed == {n \in Names : \A S \in SUBSET Names : root \in S /\ Closed(S) => n \in S}

GraphTypeOK ==
    /\ graph \in Graphs /\ root \in Names
    /\ stack \in Seq(Visits) /\ visited \in SUBSET Names
    /\ nodes \in Seq(Names) /\ added \in Seq(Names) /\ stage \in Stages

\* ResolveAURGraph and add: what is asked about is the root and all it needs,
\* and an addition accepts these, each once and the root first, also around
\* cycles; if one cannot be cloned it accepts nothing.
GraphIsAdded ==
    /\ stage \in {"confirm", "accept", "done"} => ToSet(nodes) = Needed
    /\ IsInjective(added) /\ ToSet(added) \subseteq Needed
    /\ added # << >> => added[1] = root /\ Needed \subseteq DOMAIN graph
    /\ stage = "done" => ToSet(added) = Needed

\* ResolveAURGraph: a walk ends, whatever circles the dependencies make.
WalkEnds == stage = "resolve" ~> stage # "resolve"

-----------------------------------------------------------------------------
(* Why the walk misses nothing.                                            *)

\* A package that was visited has all its dependencies behind it, or a call that
\* will come to them.
PendingDependency(n, i) == \E k \in DOMAIN stack : stack[k].name = n /\ stack[k].next <= i
NothingIsMissed ==
    \A n \in visited : \A i \in DOMAIN graph[n] :
        graph[n][i].aur => graph[n][i].name \in visited \/ PendingDependency(n, i)

NodesAreVisited ==
    /\ ToSet(nodes) = visited /\ IsInjective(nodes)
    /\ visited \subseteq Needed /\ visited \subseteq DOMAIN graph

Walking ==
    /\ NodesAreVisited /\ NothingIsMissed /\ added = << >>
    /\ \A k \in DOMAIN stack : stack[k].name \in visited
    /\ stack = << >> <=> visited = {}
    /\ nodes # << >> => nodes[1] = root

Resolved ==
    /\ NodesAreVisited /\ visited = Needed /\ nodes # << >> /\ nodes[1] = root
    /\ Len(added) <= Len(nodes) /\ \A i \in DOMAIN added : added[i] = nodes[i]

GraphInv ==
    /\ GraphTypeOK
    /\ stage = "resolve" => Walking
    /\ stage \in {"confirm", "accept", "done"} => Resolved
    /\ stage \in {"confirm", "declined"} => added = << >>
    /\ stage = "failed" => added = << >> \/ Resolved
    /\ stage = "done" => Len(added) = Len(nodes)
=============================================================================
