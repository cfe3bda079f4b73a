---------------------------- MODULE AurGraphProofs ----------------------------
(***************************************************************************)
(* What an addition with all its dependencies accepts, for every graph of  *)
(* any number of packages, with whatever circles and gaps it has.          *)
(***************************************************************************)
EXTENDS AurGraph, SequenceTheorems, TLAPS

-----------------------------------------------------------------------------
(* Sequences, and what an addition needs. *)

\* One more element at the end.
LEMMA Appended ==
    ASSUME NEW T, NEW s \in Seq(T), NEW x \in T
    PROVE  /\ Append(s, x) \in Seq(T) /\ Append(s, x) # << >>
           /\ DOMAIN Append(s, x) = DOMAIN s \cup {Len(s) + 1}
           /\ Len(Append(s, x)) = Len(s) + 1 /\ Append(s, x)[Len(s) + 1] = x
           /\ \A k \in DOMAIN s : k # Len(s) + 1 /\ Append(s, x)[k] = s[k]
           /\ ToSet(Append(s, x)) = ToSet(s) \cup {x}
<1> DEFINE t == Append(s, x)
<1>1. /\ t \in Seq(T) /\ t # << >> /\ Len(t) = Len(s) + 1 /\ t[Len(s) + 1] = x
      /\ \A k \in 1 .. Len(s) : t[k] = s[k]
  BY AppendProperties
<1>2. /\ Len(s) \in Nat /\ DOMAIN s = 1 .. Len(s) /\ DOMAIN t = 1 .. Len(t)
  BY <1>1
<1> HIDE DEF t
<1>3. DOMAIN t = DOMAIN s \cup {Len(s) + 1} /\ \A k \in DOMAIN s : k # Len(s) + 1
  BY <1>1, <1>2
<1>4. ToSet(t) = ToSet(s) \cup {x} BY <1>1, <1>2, <1>3 DEF ToSet
<1> QED BY <1>1, <1>2, <1>3, <1>4 DEF t

\* The last one taken away.
LEMMA Shortened ==
    ASSUME NEW T, NEW s \in Seq(T), s # << >>
    PROVE  /\ Len(s) \in Nat /\ Len(s) \in DOMAIN s /\ Last(s) = s[Len(s)] /\ Last(s) \in T
           /\ Front(s) \in Seq(T) /\ Len(Front(s)) = Len(s) - 1
           /\ DOMAIN s = DOMAIN Front(s) \cup {Len(s)}
           /\ \A k \in DOMAIN Front(s) : k # Len(s) /\ Front(s)[k] = s[k]
<1>1. Len(s) \in Nat /\ Len(s) # 0 /\ DOMAIN s = 1 .. Len(s) OBVIOUS
<1> DEFINE f == Front(s)
<1>2. /\ f \in Seq(T) /\ Len(f) = Len(s) - 1
      /\ \A k \in 1 .. Len(s) - 1 : f[k] = s[k]
  BY <1>1, SubSeqProperties DEF Front
<1> HIDE DEF f
<1>3. DOMAIN f = 1 .. Len(s) - 1 BY <1>2
<1> QED BY <1>1, <1>2, <1>3 DEF Last, f

\* An element that is new keeps a sequence without repetitions.
LEMMA StaysInjective ==
    ASSUME NEW T, NEW s \in Seq(T), NEW x \in T, IsInjective(s), x \notin ToSet(s)
    PROVE  IsInjective(Append(s, x))
<1> DEFINE t == Append(s, x)
<1>1. /\ DOMAIN t = DOMAIN s \cup {Len(s) + 1} /\ t[Len(s) + 1] = x
      /\ \A k \in DOMAIN s : t[k] = s[k]
  BY Appended
<1>2. \A k \in DOMAIN s : s[k] # x BY DEF ToSet
<1> HIDE DEF t
<1> QED BY <1>1, <1>2 DEF IsInjective, t

\* The root is needed, and what is needed by something needed.
LEMMA NeededCloses ==
    ASSUME GraphsAssumption, GraphTypeOK
    PROVE  /\ root \in Needed
           /\ \A n \in Needed \cap DOMAIN graph : \A i \in DOMAIN graph[n] :
                graph[n][i].aur => graph[n][i].name \in Needed
<1>1. root \in Needed BY DEF Needed, GraphTypeOK
<1>2. ASSUME NEW n \in Needed \cap DOMAIN graph, NEW i \in DOMAIN graph[n], graph[n][i].aur
      PROVE  graph[n][i].name \in Needed
  <2>1. graph[n][i].name \in Names
    <3>1. graph[n] \in Seq(GraphDependencies) BY DEF GraphsAssumption, GraphTypeOK
    <3>2. graph[n][i] \in GraphDependencies BY <1>2, <3>1
    <3> QED BY <3>2 DEF GraphDependencies
  <2>2. ASSUME NEW S \in SUBSET Names, root \in S, Closed(S) PROVE graph[n][i].name \in S
    <3>1. n \in S BY <2>2 DEF Needed
    <3> QED BY <1>2, <2>2, <3>1 DEF Closed
  <2> QED BY <2>1, <2>2 DEF Needed
<1> QED BY <1>1, <1>2

\* Nothing is needed that a closed set with the root does not have.
LEMMA ClosedHasNeeded ==
    ASSUME NEW S \in SUBSET Names, root \in S, Closed(S)
    PROVE  Needed \subseteq S
  BY DEF Needed

-----------------------------------------------------------------------------
(* The walk. *)

\* visit of a package for the first time, by its callers: visited and nodes keep
\* their relation, and what callers have ahead of them is not missed.
LEMMA VisitKeeps ==
    ASSUME GraphsAssumption, GraphInv, stage = "resolve", UNCHANGED <<graph, root, added>>,
           NEW name \in Needed \ visited, NEW callers \in Seq(Visits), visit(name, callers),
           name = root \/ visited # {},
           \A k \in DOMAIN callers : callers[k].name \in visited,
           \A n \in visited : \A i \in DOMAIN graph[n] :
              graph[n][i].aur =>
                 \/ graph[n][i].name \in visited \cup {name}
                 \/ \E k \in DOMAIN callers : callers[k].name = n /\ callers[k].next <= i
    PROVE  GraphInv'
<1>1. name \in Names /\ GraphTypeOK /\ Walking
  BY DEF Needed, GraphInv
<1>2. /\ graph \in Graphs /\ root \in Names /\ nodes \in Seq(Names) /\ visited \in SUBSET Names
      /\ ToSet(nodes) = visited /\ IsInjective(nodes) /\ visited \subseteq Needed
      /\ visited \subseteq DOMAIN graph /\ added = << >> /\ (nodes # << >> => nodes[1] = root)
  BY <1>1 DEF GraphTypeOK, Walking, NodesAreVisited
<1>3. visited' = visited \cup {name} /\ Needed' = Needed
  BY DEF visit, Needed, Closed
<1>4. CASE name \notin DOMAIN graph
  <2>1. nodes' = << >> /\ stack' = << >> /\ stage' = "failed" BY <1>4 DEF visit
  <2>2. GraphTypeOK' BY <1>1, <1>2, <1>3, <2>1 DEF GraphTypeOK, Stages
  <2> QED BY <1>2, <2>1, <2>2 DEF GraphInv
<1>5. CASE name \in DOMAIN graph
  <2> DEFINE call == [name |-> name, next |-> 1]
  <2>1. nodes' = Append(nodes, name) /\ stack' = Append(callers, call) /\ stage' = "resolve"
    BY <1>5 DEF visit
  <2>2. call \in Visits BY <1>1 DEF Visits
  <2>3. /\ nodes' \in Seq(Names) /\ ToSet(nodes') = visited' /\ IsInjective(nodes')
        /\ nodes' # << >>
    BY <1>1, <1>2, <1>3, <2>1, Appended, StaysInjective
  <2>4. nodes'[1] = root
    <3>1. CASE nodes = << >>
      <4>1. visited = {} BY <1>2, <3>1 DEF ToSet
      <4> QED BY <1>1, <1>2, <2>1, <3>1, <4>1
    <3>2. CASE nodes # << >>
      <4>1. 1 \in DOMAIN nodes BY <1>2, <3>2
      <4> QED BY <1>1, <1>2, <2>1, <3>2, <4>1, Appended
    <3> QED BY <3>1, <3>2
  <2>5. /\ stack' \in Seq(Visits) /\ stack' # << >>
        /\ DOMAIN stack' = DOMAIN callers \cup {Len(callers) + 1}
        /\ stack'[Len(callers) + 1] = call
        /\ \A k \in DOMAIN callers : stack'[k] = callers[k]
    <3> HIDE DEF call
    <3> QED BY <2>1, <2>2, Appended
  <2>6. GraphTypeOK' BY <1>1, <1>2, <1>3, <2>1, <2>3, <2>5 DEF GraphTypeOK, Stages
  <2>7. NodesAreVisited' BY <1>2, <1>3, <1>5, <2>3 DEF NodesAreVisited
  <2>8. NothingIsMissed'
    <3> SUFFICES ASSUME NEW n \in visited', NEW i \in DOMAIN graph[n], graph[n][i].aur,
                        graph[n][i].name \notin visited'
                 PROVE  \E k \in DOMAIN stack' : stack'[k].name = n /\ stack'[k].next <= i
      BY DEF NothingIsMissed, PendingDependency
    <3>1. CASE n = name
      <4>1. i \in Nat /\ 1 <= i
        <5>1. graph[n] \in Seq(GraphDependencies) BY <1>2, <1>5, <3>1 DEF GraphsAssumption
        <5> QED BY <5>1
      <4> QED BY <2>5, <3>1, <4>1
    <3>2. CASE n # name
      <4>1. n \in visited BY <1>3, <3>2
      <4>2. PICK k \in DOMAIN callers : callers[k].name = n /\ callers[k].next <= i
        BY <1>3, <4>1
      <4> QED BY <2>5, <4>2
    <3> QED BY <3>1, <3>2
  <2>9. \A k \in DOMAIN stack' : stack'[k].name \in visited' BY <1>3, <2>5
  <2>10. Walking' BY <1>2, <1>3, <2>4, <2>5, <2>7, <2>8, <2>9 DEF Walking
  <2> QED BY <2>1, <2>6, <2>10 DEF GraphInv
<1> QED BY <1>4, <1>5

\* ResolveAURGraph: the first call.
LEMMA StartKeeps ==
    ASSUME GraphsAssumption, GraphInv, Start PROVE GraphInv'
<1>1. /\ stage = "resolve" /\ visited = {} /\ visit(root, << >>)
      /\ UNCHANGED <<graph, root, added>>
  BY DEF Start
<1>2. root \in Needed \ visited BY <1>1, NeededCloses DEF GraphInv
<1>3. << >> \in Seq(Visits) /\ DOMAIN << >> = {} OBVIOUS
<1> QED BY <1>1, <1>2, <1>3, VisitKeeps

\* The loop of visit: a dependency is passed over, or visited.
LEMMA DependKeeps ==
    ASSUME GraphsAssumption, GraphInv, Depend PROVE GraphInv'
<1> DEFINE call == Last(stack)
           deps == graph[call.name]
           dep == deps[call.next]
           later == AtTheNext(call)
           callers == Append(Front(stack), later)
<1>1. /\ stage = "resolve" /\ stack # << >> /\ call.next <= Len(deps)
      /\ UNCHANGED <<graph, root, added>>
      /\ IF dep.aur /\ Unvisited(dep.name) THEN visit(dep.name, callers)
         ELSE stack' = callers /\ UNCHANGED <<visited, nodes, stage>>
  BY DEF Depend
<1>2. GraphTypeOK /\ Walking BY <1>1 DEF GraphInv
<1>3. stack \in Seq(Visits) /\ visited \subseteq DOMAIN graph /\ visited \subseteq Needed
  BY <1>2 DEF GraphTypeOK, Walking, NodesAreVisited
<1>4. /\ Len(stack) \in Nat /\ Len(stack) \in DOMAIN stack
      /\ call = stack[Len(stack)] /\ call \in Visits
      /\ Front(stack) \in Seq(Visits) /\ DOMAIN stack = DOMAIN Front(stack) \cup {Len(stack)}
      /\ \A k \in DOMAIN Front(stack) : k # Len(stack) /\ Front(stack)[k] = stack[k]
      /\ Len(Front(stack)) = Len(stack) - 1
  <2>1. stack # << >> BY <1>1
  <2> QED BY <1>3, <2>1, Shortened
<1> HIDE DEF call
<1>5. /\ call.name \in Names /\ call.next \in Nat /\ call.next # 0
      /\ later \in Visits /\ later.name = call.name /\ later.next = call.next + 1
  <2>1. PICK n \in Names, i \in Nat \ {0} : call = [name |-> n, next |-> i] BY <1>4 DEF Visits
  <2>2. later = [name |-> n, next |-> i + 1] BY <2>1 DEF AtTheNext
  <2>3. i + 1 \in Nat \ {0} OBVIOUS
  <2> HIDE DEF later
  <2> QED BY <2>1, <2>2, <2>3 DEF Visits
<1>6. call.name \in visited /\ visited # {} BY <1>2, <1>4 DEF Walking
<1>7. deps \in Seq(GraphDependencies)
  BY <1>2, <1>3, <1>6 DEF GraphsAssumption, GraphTypeOK
<1> HIDE DEF later
<1>8. /\ callers \in Seq(Visits) /\ callers # << >> /\ DOMAIN callers = DOMAIN stack
      /\ callers[Len(stack)] = later
      /\ \A k \in DOMAIN stack : k # Len(stack) => callers[k] = stack[k]
  <2> DEFINE front == Front(stack)
  <2>1. front \in Seq(Visits) /\ later \in Visits /\ Len(front) + 1 = Len(stack)
    <3>1. Len(front) = Len(stack) - 1 /\ Len(stack) \in Nat BY <1>4
    <3>2. Len(front) + 1 = Len(stack) BY <3>1, SMT
    <3> QED BY <1>4, <1>5, <3>2
  <2>2. /\ DOMAIN stack = DOMAIN front \cup {Len(stack)}
        /\ \A k \in DOMAIN front : front[k] = stack[k]
    BY <1>4
  <2> HIDE DEF front
  <2>3. /\ Append(front, later) \in Seq(Visits) /\ Append(front, later) # << >>
        /\ DOMAIN Append(front, later) = DOMAIN front \cup {Len(front) + 1}
        /\ Append(front, later)[Len(front) + 1] = later
        /\ \A k \in DOMAIN front : Append(front, later)[k] = front[k]
    BY <2>1, Appended
  <2> QED BY <2>1, <2>2, <2>3 DEF front
<1> HIDE DEF callers
<1>9. \A k \in DOMAIN callers : callers[k].name \in visited
  BY <1>2, <1>5, <1>6, <1>8 DEF Walking
<1>10. ASSUME NEW n \in visited, NEW i \in DOMAIN graph[n], graph[n][i].aur,
              graph[n][i].name \notin visited
       PROVE  \/ n = call.name /\ i = call.next
              \/ \E k \in DOMAIN callers : callers[k].name = n /\ callers[k].next <= i
  <2>1. PICK k \in DOMAIN stack : stack[k].name = n /\ stack[k].next <= i
    BY <1>2, <1>10 DEF Walking, NothingIsMissed, PendingDependency
  <2>2. CASE k # Len(stack) BY <1>8, <2>1, <2>2
  <2>3. CASE k = Len(stack)
    <3>1. n = call.name /\ call.next <= i BY <1>4, <2>1, <2>3
    <3>2. i \in Nat BY <1>7, <3>1
    <3>3. CASE i = call.next BY <3>1, <3>3
    <3>4. CASE i # call.next
      <4>1. later.next <= i BY <1>5, <3>1, <3>2, <3>4
      <4> QED BY <1>4, <1>5, <1>8, <3>1, <4>1
    <3> QED BY <3>3, <3>4
  <2> QED BY <2>2, <2>3
<1>11. CASE dep.aur /\ Unvisited(dep.name)
  <2>1. visit(dep.name, callers) /\ dep.name \notin visited BY <1>1, <1>11 DEF Unvisited
  <2>2. dep.name \in Needed
    <3>1. call.next \in DOMAIN deps BY <1>1, <1>5, <1>7
    <3> QED BY <1>2, <1>3, <1>6, <1>11, <3>1, NeededCloses
  <2>3. \A n \in visited : \A i \in DOMAIN graph[n] :
          graph[n][i].aur =>
             \/ graph[n][i].name \in visited \cup {dep.name}
             \/ \E k \in DOMAIN callers : callers[k].name = n /\ callers[k].next <= i
    BY <1>10
  <2>4. dep.name \in Needed \ visited BY <2>1, <2>2
  <2> DEFINE name == dep.name
  <2> HIDE DEF name
  <2>5. /\ name \in Needed \ visited /\ visit(name, callers)
        /\ \A n \in visited : \A i \in DOMAIN graph[n] :
              graph[n][i].aur =>
                 \/ graph[n][i].name \in visited \cup {name}
                 \/ \E k \in DOMAIN callers : callers[k].name = n /\ callers[k].next <= i
    BY <2>1, <2>3, <2>4 DEF name
  <2> QED BY <1>1, <1>6, <1>8, <1>9, <2>5, VisitKeeps
<1>12. CASE ~(dep.aur /\ Unvisited(dep.name))
  <2>1. stack' = callers /\ UNCHANGED <<visited, nodes, stage>> BY <1>1, <1>12
  <2>2. Needed' = Needed BY <1>1 DEF Needed, Closed
  <2>3. GraphTypeOK' BY <1>1, <1>2, <1>8, <2>1 DEF GraphTypeOK
  <2>4. NodesAreVisited' BY <1>1, <1>2, <2>1, <2>2 DEF Walking, NodesAreVisited
  <2>5. NothingIsMissed'
    <3> SUFFICES ASSUME NEW n \in visited, NEW i \in DOMAIN graph[n], graph[n][i].aur,
                        graph[n][i].name \notin visited
                 PROVE  \E k \in DOMAIN callers : callers[k].name = n /\ callers[k].next <= i
      BY <1>1, <2>1 DEF NothingIsMissed, PendingDependency
    <3>1. ~(n = call.name /\ i = call.next) BY <1>12 DEF Unvisited
    <3> QED BY <1>10, <3>1
  <2>6. Walking' BY <1>1, <1>2, <1>6, <1>8, <1>9, <2>1, <2>4, <2>5 DEF Walking
  <2> QED BY <1>1, <2>1, <2>3, <2>6 DEF GraphInv
<1> QED BY <1>11, <1>12

\* The end of a call, which passes nothing over; that of the first call leaves a
\* set that is closed.
LEMMA ReturnKeeps ==
    ASSUME GraphsAssumption, GraphInv, Return PROVE GraphInv'
<1> DEFINE call == Last(stack)
<1>1. /\ stage = "resolve" /\ stack # << >> /\ call.next > Len(graph[call.name])
      /\ stack' = Front(stack) /\ stage' = IF Len(stack) = 1 THEN "confirm" ELSE stage
      /\ UNCHANGED <<graph, root, visited, nodes, added>>
  BY DEF Return
<1>2. GraphTypeOK /\ Walking BY <1>1 DEF GraphInv
<1>3. stack \in Seq(Visits) /\ visited \subseteq DOMAIN graph
  BY <1>2 DEF GraphTypeOK, Walking, NodesAreVisited
<1>4. /\ Len(stack) \in Nat /\ Len(stack) \in DOMAIN stack /\ call = stack[Len(stack)]
      /\ call \in Visits /\ Front(stack) \in Seq(Visits) /\ Len(Front(stack)) = Len(stack) - 1
      /\ DOMAIN stack = DOMAIN Front(stack) \cup {Len(stack)}
      /\ \A k \in DOMAIN Front(stack) : k # Len(stack) /\ Front(stack)[k] = stack[k]
  BY <1>1, <1>3, Shortened
<1>5. Needed' = Needed BY <1>1 DEF Needed, Closed
<1>6. GraphTypeOK' BY <1>1, <1>2, <1>4 DEF GraphTypeOK, Stages
<1>7. NodesAreVisited' BY <1>1, <1>2, <1>5 DEF Walking, NodesAreVisited
<1>8. NothingIsMissed'
  <2> SUFFICES ASSUME NEW n \in visited, NEW i \in DOMAIN graph[n], graph[n][i].aur,
                      graph[n][i].name \notin visited
               PROVE  \E k \in DOMAIN Front(stack) :
                         Front(stack)[k].name = n /\ Front(stack)[k].next <= i
    BY <1>1 DEF NothingIsMissed, PendingDependency
  <2>1. PICK k \in DOMAIN stack : stack[k].name = n /\ stack[k].next <= i
    BY <1>2 DEF Walking, NothingIsMissed, PendingDependency
  <2>2. k # Len(stack)
    <3>1. ASSUME k = Len(stack) PROVE FALSE
      <4>1. n = call.name /\ call.next <= i BY <1>4, <2>1, <3>1
      <4>2. graph[n] \in Seq(GraphDependencies) BY <1>2, <1>3 DEF GraphsAssumption, GraphTypeOK
      <4>3. i \in Nat /\ i <= Len(graph[n]) /\ Len(graph[n]) \in Nat BY <4>2
      <4>4. call.next \in Nat BY <1>4 DEF Visits
      <4> HIDE DEF call
      <4> QED BY <1>1, <4>1, <4>3, <4>4
    <3> QED BY <3>1
  <2> QED BY <1>4, <2>1, <2>2
<1>9. \A k \in DOMAIN stack' : stack'[k].name \in visited' BY <1>1, <1>2, <1>4 DEF Walking
<1>10. visited # {} /\ added = << >> /\ (nodes # << >> => nodes[1] = root) BY <1>1, <1>2 DEF Walking
<1>11. CASE Len(stack) # 1
  <2>1. stack' # << >> BY <1>1, <1>4, <1>11
  <2>2. Walking' BY <1>1, <1>7, <1>8, <1>9, <1>10, <2>1 DEF Walking
  <2> QED BY <1>1, <1>6, <1>11, <2>2 DEF GraphInv
<1>12. CASE Len(stack) = 1
  <2>1. DOMAIN stack' = {} /\ stage' = "confirm" BY <1>1, <1>4, <1>12
  <2>2. Closed(visited)
    <3>1. \A n \in visited : \A i \in DOMAIN graph[n] :
            graph[n][i].aur => graph[n][i].name \in visited
      BY <1>1, <1>8, <2>1 DEF NothingIsMissed, PendingDependency
    <3> QED BY <3>1 DEF Closed
  <2>3. nodes # << >> /\ root \in visited
    <3>1. ToSet(nodes) = visited /\ nodes \in Seq(Names)
      BY <1>2 DEF Walking, NodesAreVisited, GraphTypeOK
    <3>2. nodes # << >> BY <1>10, <3>1 DEF ToSet
    <3>3. 1 \in DOMAIN nodes BY <3>1, <3>2
    <3> QED BY <1>10, <3>1, <3>2, <3>3 DEF ToSet
  <2>4. visited = Needed
    <3>1. visited \in SUBSET Names /\ visited \subseteq Needed
      BY <1>2 DEF GraphTypeOK, Walking, NodesAreVisited
    <3> QED BY <2>2, <2>3, <3>1, ClosedHasNeeded
  <2>5. Resolved'
    <3>1. nodes \in Seq(Names) BY <1>2 DEF GraphTypeOK
    <3> QED BY <1>1, <1>5, <1>7, <1>10, <2>3, <2>4, <3>1 DEF Resolved
  <2> QED BY <1>1, <1>6, <1>10, <2>1, <2>5 DEF GraphInv
<1> QED BY <1>11, <1>12

-----------------------------------------------------------------------------
(* The accepts. *)

\* add: the answer to its question.
LEMMA ConfirmKeeps ==
    ASSUME GraphInv, Confirm PROVE GraphInv'
<1>1. /\ stage = "confirm" /\ stage' \in {"accept", "declined"}
      /\ UNCHANGED <<graph, root, stack, visited, nodes, added>>
  BY DEF Confirm
<1>2. GraphTypeOK' BY <1>1 DEF GraphInv, GraphTypeOK, Stages
<1>3. Resolved /\ added = << >> BY <1>1 DEF GraphInv
<1>4. Resolved' BY <1>1, <1>3 DEF Resolved, NodesAreVisited, Needed, Closed
<1> QED BY <1>1, <1>2, <1>3, <1>4 DEF GraphInv

\* add: one AcceptAUR of the loop, or its end.
LEMMA AcceptKeeps ==
    ASSUME GraphInv, Accept PROVE GraphInv'
<1>1. /\ stage = "accept" /\ UNCHANGED <<graph, root, stack, visited, nodes>>
      /\ IF Len(added) = Len(nodes) THEN stage' = "done" /\ UNCHANGED added
         ELSE \/ added' = Append(added, nodes[Len(added) + 1]) /\ UNCHANGED stage
              \/ stage' = "failed" /\ UNCHANGED added
  BY DEF Accept
<1>2. GraphTypeOK /\ Resolved BY <1>1 DEF GraphInv
<1>3. nodes \in Seq(Names) /\ added \in Seq(Names) BY <1>2 DEF GraphTypeOK
<1>4. /\ Len(added) \in Nat /\ Len(nodes) \in Nat /\ Len(added) <= Len(nodes)
      /\ \A i \in DOMAIN added : added[i] = nodes[i]
  BY <1>2, <1>3 DEF Resolved
<1>5. NodesAreVisited' /\ (visited = Needed)' /\ nodes' # << >> /\ (nodes[1] = root)'
  BY <1>1, <1>2 DEF Resolved, NodesAreVisited, Needed, Closed
<1>6. CASE UNCHANGED added
  <2>1. Resolved' BY <1>1, <1>4, <1>5, <1>6 DEF Resolved
  <2>2. GraphTypeOK' BY <1>1, <1>2, <1>6 DEF GraphTypeOK, Stages
  <2>3. stage' \in {"accept", "failed", "done"} /\ (stage' = "done" => Len(added) = Len(nodes))
    BY <1>1
  <2> QED BY <1>1, <1>6, <2>1, <2>2, <2>3 DEF GraphInv
<1>7. CASE Len(added) # Len(nodes) /\ stage' = stage
           /\ added' = Append(added, nodes[Len(added) + 1])
  <2> DEFINE node == nodes[Len(added) + 1]
  <2>1. node \in Names BY <1>3, <1>4, <1>7
  <2>2. /\ added' \in Seq(Names) /\ Len(added') = Len(added) + 1
        /\ DOMAIN added' = DOMAIN added \cup {Len(added) + 1} /\ added'[Len(added) + 1] = node
        /\ \A k \in DOMAIN added : added'[k] = added[k]
    <3> HIDE DEF node
    <3>1. added' = Append(added, node) BY <1>7 DEF node
    <3> QED BY <1>3, <2>1, <3>1, Appended
  <2>3. Len(added') <= Len(nodes) BY <1>4, <1>7, <2>2
  <2>4. \A i \in DOMAIN added' : added'[i] = nodes[i] BY <1>4, <2>2
  <2>5. Resolved' BY <1>1, <1>5, <2>3, <2>4 DEF Resolved
  <2>6. GraphTypeOK' BY <1>1, <1>2, <1>7, <2>2 DEF GraphTypeOK
  <2> QED BY <1>1, <1>7, <2>5, <2>6 DEF GraphInv
<1> QED BY <1>1, <1>6, <1>7

-----------------------------------------------------------------------------
(* The theorems. *)

\* A walk misses nothing that its calls will not come to, so what it has visited
\* when it ends is all the addition needs, and only that is accepted.
THEOREM WalkMissesNothing == GraphSpec => []GraphInv
<1>1. GraphInit => GraphInv
  <2> SUFFICES ASSUME GraphInit PROVE GraphInv OBVIOUS
  <2>1. GraphTypeOK BY DEF GraphInit, GraphTypeOK, Stages
  <2>2. ToSet(nodes) = {} /\ IsInjective(nodes)
    BY DEF GraphInit, ToSet, IsInjective
  <2>3. Walking
    BY <2>2 DEF GraphInit, Walking, NodesAreVisited, NothingIsMissed
  <2> QED BY <2>1, <2>3 DEF GraphInit, GraphInv
<1>2. GraphInv /\ [GraphNext]_vars => GraphInv'
  <2> SUFFICES ASSUME GraphInv, [GraphNext]_vars PROVE GraphInv' OBVIOUS
  <2>1. CASE ResolveAURGraph
    BY <2>1, GraphsAssumption, StartKeeps, DependKeeps, ReturnKeeps DEF ResolveAURGraph
  <2>2. CASE Confirm BY <2>2, ConfirmKeeps
  <2>3. CASE Accept BY <2>3, AcceptKeeps
  <2>4. CASE UNCHANGED vars
    BY <2>4 DEF vars, GraphInv, GraphTypeOK, Walking, Resolved, NodesAreVisited, NothingIsMissed,
      PendingDependency, Needed, Closed
  <2> QED BY <2>1, <2>2, <2>3, <2>4 DEF GraphNext
<1> QED BY <1>1, <1>2, PTL DEF GraphSpec

\* add, for every graph: what is accepted is what the root needs, each package
\* once and the root first, and nothing if one of these cannot be cloned.
THEOREM GraphAdded == GraphSpec => []GraphIsAdded
<1>1. GraphInv => GraphIsAdded
  <2> SUFFICES ASSUME GraphInv PROVE GraphIsAdded OBVIOUS
  <2>1. CASE added = << >> /\ ~Resolved
    <3>1. stage \notin {"confirm", "accept", "done"} BY <2>1 DEF GraphInv
    <3>2. IsInjective(added) /\ ToSet(added) = {} BY <2>1 DEF IsInjective, ToSet
    <3> QED BY <2>1, <3>1, <3>2 DEF GraphIsAdded
  <2>2. CASE Resolved
    <3>1. /\ ToSet(nodes) = Needed /\ IsInjective(nodes) /\ nodes[1] = root
          /\ Needed \subseteq DOMAIN graph
          /\ Len(added) <= Len(nodes) /\ \A i \in DOMAIN added : added[i] = nodes[i]
      BY <2>2 DEF Resolved, NodesAreVisited
    <3>2. /\ Len(added) \in Nat /\ Len(nodes) \in Nat
          /\ DOMAIN added = 1 .. Len(added) /\ DOMAIN nodes = 1 .. Len(nodes)
          /\ added # << >> => 1 \in DOMAIN added
      BY DEF GraphInv, GraphTypeOK
    <3>3. DOMAIN added \subseteq DOMAIN nodes BY <3>1, <3>2
    <3>4. IsInjective(added) BY <3>1, <3>3 DEF IsInjective
    <3>5. ToSet(added) \subseteq Needed BY <3>1, <3>3 DEF ToSet
    <3>6. stage = "done" => ToSet(added) = Needed
      <4>1. stage = "done" => DOMAIN added = DOMAIN nodes BY <3>2 DEF GraphInv
      <4> QED BY <3>1, <4>1 DEF ToSet
    <3> QED BY <3>1, <3>2, <3>4, <3>5, <3>6 DEF GraphIsAdded
  <2>3. added = << >> \/ Resolved
    <3>1. stage \in Stages BY DEF GraphInv, GraphTypeOK
    <3> QED BY <3>1 DEF GraphInv, Walking, Stages
  <2> QED BY <2>1, <2>2, <2>3
<1> QED BY <1>1, WalkMissesNothing, PTL
=============================================================================
