------------------------ MODULE RelationshipRoutes ------------------------
(***************************************************************************)
(* How a question over an activated relationship graph becomes a join tree *)
(* (relationships/router.py) and how an aggregate over that tree is        *)
(* admitted or refused (relationships/grain.py).  The graph is one that    *)
(* the draft model accepts and that validate_graph lets activate.          *)
(***************************************************************************)
EXTENDS Integers, FiniteSets, Sequences, FiniteSetsExt, SequencesExt

CONSTANTS GraphNodes,   \* roles of physical relations
          EdgeIds,      \* relationship edges, parallel edges and cycles included
          EdgeOf,       \* what each edge says
          RouteRules,   \* preferred routes: terminals and ordered edges
          EnabledRoles, \* choices of the enabled roles
          AnchorRoles,  \* choices of the components' anchors
          MaxAsked,     \* roles in one question
          NoNode        \* no preserved side: an INNER relationship

ASSUME RouteAssumption ==
    /\ IsFiniteSet(GraphNodes) /\ NoNode \notin GraphNodes
    /\ \A e \in EdgeIds :
          /\ {EdgeOf[e].from, EdgeOf[e].to} \subseteq GraphNodes
          /\ EdgeOf[e].preserve \in {NoNode, EdgeOf[e].from, EdgeOf[e].to}
          /\ EdgeOf[e].priority \in Nat
          /\ EdgeOf[e].evidence \in {"high", "recommended", "low", "blocked"}
          /\ EdgeOf[e].cardinality \in
               {"one_to_one", "many_to_one", "one_to_many", "unknown", "many_to_many"}
    /\ \A rule \in RouteRules : rule.edges \in Seq(EdgeIds)
    /\ EnabledRoles \cup AnchorRoles \subseteq SUBSET GraphNodes
    /\ MaxAsked \in Nat

VARIABLES graph,      \* the graph of the binding: enabled edges, rules, grains
          question,   \* the roles asked for, those aggregated, detail or aggregate
          route,      \* the resolution: phase, included roles, steps, work left
          fanout      \* the guard's decision
route_vars == <<graph, question, route, fanout>>

EdgesOfRule(rule) == ToSet(rule.edges)
Ends(e) == {EdgeOf[e].from, EdgeOf[e].to}

\* Faulty: a LEFT relationship is crossed from either side.
EitherEnd(e) == Ends(e)

\* A LEFT relationship can only be crossed from the side it preserves.
Origins(e) == IF EdgeOf[e].preserve = NoNode THEN Ends(e) ELSE {EdgeOf[e].preserve}

OtherEnd(e, node) == IF node = EdgeOf[e].from THEN EdgeOf[e].to ELSE EdgeOf[e].from

Crossings(edges, existing) ==
    {[edge |-> e, existing |-> existing, introduced |-> OtherEnd(e, existing)] :
        e \in {x \in edges : existing \in Origins(x)}}

\* What start reaches over a set of pairs of roles.
ReachedBy(pairs, start) ==
    LET Reach[n \in 0..Cardinality(GraphNodes)] ==
            IF n = 0 THEN {start}
            ELSE Reach[n-1] \cup {p[2] : p \in {q \in pairs : q[1] \in Reach[n-1]}}
    IN Reach[Cardinality(GraphNodes)]

EitherWay(edges) ==
    {<<p[2], OtherEnd(p[1], p[2])>> : p \in {q \in edges \X GraphNodes : q[2] \in Ends(q[1])}}

HasCycle(edges) ==
    \E e \in edges : EdgeOf[e].to \in ReachedBy(EitherWay(edges \ {e}), EdgeOf[e].from)

\* A rule is a tree: each later edge brings in exactly one new role.
ValidRule(rule) ==
    LET Before(i) == UNION {Ends(rule.edges[j]) : j \in 1..i-1}
    IN /\ \A i \in 2..Len(rule.edges) :
              /\ Cardinality(Ends(rule.edges[i]) \cap Before(i)) = 1
              /\ Cardinality(Ends(rule.edges[i]) \ Before(i)) = 1
       /\ rule.terminals \subseteq UNION {Ends(e) : e \in EdgesOfRule(rule)}

\* Observations overrule what the model, or the user's profile, claimed.
MergedEvidence(e) ==
    CASE EdgeOf[e].contradicted -> "blocked"
      [] EdgeOf[e].source = "database_constraint" -> "high"
      [] OTHER -> EdgeOf[e].evidence

EdgeRefused(e, grained) ==
    \/ EdgeOf[e].source = "llm"
    \/ MergedEvidence(e) = "blocked"
    \/ EdgeOf[e].cardinality = "many_to_many" /\ ~(Ends(e) \subseteq grained)
    \/ EdgeOf[e].cardinality = "unknown"

ActivationAllowed(g) ==
    /\ \A e \in g.edges : ~EdgeRefused(e, g.grained)
    /\ HasCycle(g.edges) => g.rules # <<>>

Risk(e) ==
    CASE EdgeOf[e].evidence = "high" -> 0
      [] EdgeOf[e].evidence = "recommended" -> 1
      [] EdgeOf[e].evidence = "low" -> 5
      [] EdgeOf[e].evidence = "blocked" -> 1000
CardinalityRisk(e) ==
    CASE EdgeOf[e].cardinality = "one_to_one" -> 0
      [] EdgeOf[e].cardinality = "many_to_one" -> 1
      [] EdgeOf[e].cardinality = "one_to_many" -> 2
      [] EdgeOf[e].cardinality = "unknown" -> 6
      [] EdgeOf[e].cardinality = "many_to_many" -> 12

Introduced(steps) == {steps[i].introduced : i \in DOMAIN steps}
EdgesIn(steps) == {steps[i].edge : i \in DOMAIN steps}

\* Each step adds the risk and the priority of its edge, and itself.
PathCost(steps) ==
    LET Cost[n \in 0..Len(steps)] ==
            IF n = 0 THEN <<0, 0, 0>>
            ELSE LET e == steps[n].edge
                     before == Cost[n-1]
                 IN <<before[1] + Risk(e) + CardinalityRisk(e),
                      before[2] + EdgeOf[e].priority, before[3] + 1>>
    IN Cost[Len(steps)]

Cheaper(a, b) ==
    \E i \in 1..3 : a[i] < b[i] /\ \A j \in 1..i-1 : a[j] = b[j]

\* A path grown by one step, to a role that is neither on it nor included.
Grown(path, included, edges) ==
    LET last == IF path = <<>> THEN included ELSE {path[Len(path)].introduced}
    IN {Append(path, s) : s \in
           {x \in UNION {Crossings(edges, n) : n \in last} :
               x.introduced \notin included \cup Introduced(path)}}

\* Every simple path from an included role to the target outside the included ones.
PathsTo(included, target, edges) ==
    LET Walks[n \in 0..Cardinality(GraphNodes)] ==
            IF n = 0 THEN {<<>>}
            ELSE UNION {Grown(w, included, edges) :
                           w \in {v \in Walks[n-1] : target \notin Introduced(v)}}
    IN {w \in UNION {Walks[n] : n \in 0..Cardinality(GraphNodes)} : target \in Introduced(w)}

BestPaths(included, target, edges) ==
    LET paths == PathsTo(included, target, edges)
    IN {p \in paths : ~\E other \in paths : Cheaper(PathCost(other), PathCost(p))}

\* The first asked role that anchors a component, else the first asked role.
Root(g, required) ==
    LET anchored == {i \in DOMAIN required : required[i] \in g.anchors}
    IN required[IF anchored = {} THEN 1 ELSE Min(anchored)]

RulesFor(g, required) == {i \in DOMAIN g.rules : ToSet(required) \subseteq g.rules[i].terminals}

Required == ToSet(question.required)
Included == {route.root} \cup Introduced(route.steps)
----------------------------------------------------------------------------
Graphs ==
    [edges : SUBSET EdgeIds, rules : {<<>>} \cup {<<rule>> : rule \in RouteRules},
     nodes : EnabledRoles, anchors : AnchorRoles, grained : AnchorRoles]

Asked == {q \in UNION {[1..n -> GraphNodes] : n \in 1..MaxAsked} : IsInjective(q)}

Unrouted == [phase |-> "asked", root |-> NoNode, steps |-> <<>>, left |-> <<>>, rule |-> 0]

RouteTypeOK ==
    /\ graph \in Graphs
    /\ question \in [required : Asked, measures : SUBSET GraphNodes,
                    analysis : {"open", "detail", "aggregate"}]
    /\ question.measures \subseteq Required
    /\ route \in
         [phase : {"asked", "ruled", "searching", "resolved", "no_path", "ambiguous"},
          root : GraphNodes \cup {NoNode}, rule : 0..Len(graph.rules),
          steps : Seq([edge : EdgeIds, existing : GraphNodes, introduced : GraphNodes]),
          left : Seq(EdgeIds \cup GraphNodes)]
    /\ fanout \in {"undecided", "safe", "unsafe"}

RouteInit ==
    /\ graph \in {g \in Graphs : /\ \A i \in DOMAIN g.rules : ValidRule(g.rules[i])
                                 /\ g.grained \subseteq g.anchors
                                 /\ ActivationAllowed(g)}
    /\ question \in [required : Asked, measures : {{}}, analysis : {"open"}]
    /\ route = Unrouted
    /\ fanout = "undecided"

RouteFails(phase) ==
    /\ route' = [route EXCEPT !.phase = phase]
    /\ UNCHANGED <<graph, question, fanout>>

\* The checks before any edge is looked at, and the choice of root and rule.
RouteAsked ==
    LET rules == RulesFor(graph, question.required)
        root == Root(graph, question.required)
        single == Cardinality(Required) = 1
        rule == IF rules = {} \/ single THEN 0 ELSE Min(rules)
    IN /\ route.phase = "asked"
       /\ Required \subseteq graph.nodes
       /\ rule # 0 => EdgesOfRule(graph.rules[rule]) \subseteq graph.edges
       /\ route' = [phase |-> CASE single -> "resolved" [] rule # 0 -> "ruled" [] OTHER -> "searching",
                    root |-> root, steps |-> <<>>, rule |-> rule,
                    left |-> CASE single -> <<>>
                               [] rule # 0 -> graph.rules[rule].edges
                               [] OTHER -> question.required]
       /\ UNCHANGED <<graph, question, fanout>>

RouteRefused ==
    LET rules == RulesFor(graph, question.required)
    IN /\ route.phase = "asked"
       /\ \/ ~(Required \subseteq graph.nodes)
          \/ /\ Cardinality(Required) > 1 /\ rules # {}
             /\ ~(EdgesOfRule(graph.rules[Min(rules)]) \subseteq graph.edges)
       /\ RouteFails("no_path")

\* The crossings of the rule's next edge that bring in a new role.
RuleCrossings ==
    {s \in UNION {Crossings({Head(route.left)}, n) : n \in Included} : s.introduced \notin Included}

RuleEdge ==
    /\ route.phase = "ruled" /\ route.left # <<>>
    /\ \/ /\ Cardinality(RuleCrossings) # 1
          /\ RouteFails("no_path")
       \/ \E step \in RuleCrossings :
             /\ Cardinality(RuleCrossings) = 1
             /\ route' = [route EXCEPT !.steps = Append(@, step), !.left = Tail(@)]
             /\ UNCHANGED <<graph, question, fanout>>

RuleEnds ==
    /\ route.phase = "ruled" /\ route.left = <<>>
    /\ RouteFails(IF Required \subseteq Included THEN "resolved" ELSE "no_path")

\* The cheapest path to the next asked role, when there is exactly one.
TargetJoined ==
    /\ route.phase = "searching" /\ route.left # <<>>
    /\ LET best == BestPaths(Included, Head(route.left), graph.edges)
       IN \/ /\ Head(route.left) \in Included
             /\ route' = [route EXCEPT !.left = Tail(@)]
             /\ UNCHANGED <<graph, question, fanout>>
          \/ /\ Head(route.left) \notin Included
             /\ Cardinality(best) # 1
             /\ RouteFails(IF best = {} THEN "no_path" ELSE "ambiguous")
          \/ /\ Head(route.left) \notin Included
             /\ Cardinality(best) = 1
             /\ \E path \in best :
                   route' = [route EXCEPT !.steps = @ \o path, !.left = Tail(@)]
             /\ UNCHANGED <<graph, question, fanout>>

SearchEnds ==
    /\ route.phase = "searching" /\ route.left = <<>>
    /\ RouteFails("resolved")

Expands(e, existing) ==
    \/ EdgeOf[e].cardinality = "one_to_many" /\ existing = EdgeOf[e].from
    \/ EdgeOf[e].cardinality = "many_to_one" /\ existing # EdgeOf[e].from

Unproven(e) == EdgeOf[e].cardinality \in {"many_to_many", "unknown"}

\* A detail query may expand rows; an aggregate may not cross an expansion.
FanoutSafe(measures, analysis) ==
    LET steps == ToSet(route.steps)
    IN \/ analysis = "detail"
       \/ /\ \A s \in steps : ~Unproven(s.edge)
          /\ \A s \in steps : Expands(s.edge, s.existing) => s.existing \notin measures

\* The compiler asks the guard before it renders the joins.
Guarded ==
    /\ route.phase = "resolved" /\ fanout = "undecided"
    /\ \E measures \in SUBSET Required, analysis \in {"detail", "aggregate"} :
          /\ question' = [question EXCEPT !.measures = measures, !.analysis = analysis]
          /\ fanout' = IF FanoutSafe(measures, analysis) THEN "safe" ELSE "unsafe"
    /\ UNCHANGED <<graph, route>>

RouteNext ==
    \/ RouteAsked
    \/ RouteRefused
    \/ RuleEdge
    \/ RuleEnds
    \/ TargetJoined
    \/ SearchEnds
    \/ Guarded

RouteSpec == RouteInit /\ [][RouteNext]_route_vars
----------------------------------------------------------------------------
\* A tree over enabled edges: every step starts at a role already joined,
\* brings in a new one and never makes a preserved side the optional one.
JoinTree ==
    \A i \in DOMAIN route.steps :
        LET step == route.steps[i]
            before == {route.root} \cup Introduced(SubSeq(route.steps, 1, i - 1))
        IN /\ step.edge \in graph.edges
           /\ step.existing \in before /\ step.introduced \notin before
           /\ {step.existing, step.introduced} = Ends(step.edge)
           /\ step.introduced # EdgeOf[step.edge].preserve

Directed(edges) ==
    {<<p[2], OtherEnd(p[1], p[2])>> : p \in
        {q \in edges \X GraphNodes :
            q[2] \in Ends(q[1]) /\ OtherEnd(q[1], q[2]) # EdgeOf[q[1]].preserve}}

\* A resolved route is an executable join tree over the asked roles; without
\* a rule it joins no role beyond a path to an asked one, and NO_PATH is
\* answered only when some asked role cannot be reached from the root at all,
\* whichever order the roles were joined in.
RoutesAreTrees ==
    /\ route.phase = "resolved" =>
          /\ JoinTree
          /\ Required \subseteq Included
          /\ route.rule = 0 =>
                \A i \in DOMAIN route.steps :
                    \/ route.steps[i].introduced \in Required
                    \/ \E j \in DOMAIN route.steps : route.steps[j].existing = route.steps[i].introduced
    /\ route.phase = "no_path" /\ route.root # NoNode /\ route.rule = 0 =>
          ~(Required \subseteq ReachedBy(Directed(graph.edges), route.root))

\* An aggregate is called safe only when joining the route cannot repeat a row
\* of an aggregated role: seen from that role, no edge of the tree leads away
\* from it into many rows.
FanoutIsRefused ==
    fanout = "safe" /\ question.analysis = "aggregate" =>
        \A m \in question.measures : \A e \in EdgesIn(route.steps) :
            LET near == ReachedBy(EitherWay(EdgesIn(route.steps) \ {e}), m)
            IN /\ ~Unproven(e)
               /\ \A x \in Ends(e) \cap near : ~Expands(e, x)
============================================================================
