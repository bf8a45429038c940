---------------------------- MODULE MCServices ----------------------------
(***************************************************************************)
(* The services around a run, explored one at a time: the run's initial    *)
(* state chooses which one moves, and the others rest in their initial     *)
(* states.  Values that only the moving service uses are shared.           *)
(***************************************************************************)
EXTENDS MemoryManager, DataSources, RelationshipDrafts, RelationshipRoutes,
        MCQueryPrograms, ToolCalls, AuthSessions, RunView, AnalysisLoop, TLC

CONSTANTS Services,                 \* the services this run lets move
          v1, u1, u2, r1, r2,       \* a conversation, users, turns' runs
          f1, f2, e1, e2, i1, i2    \* schemas, relationships; interchangeable values

VARIABLE focus  \* the service that moves

\* Memory: three candidates for one slot, one of them pinned to a version.
Chat == [scope |-> "working", user |-> u1, conversation |-> v1, run |-> r1]
MCOwnerOf == ("c1" :> Chat) @@ ("c2" :> Chat) @@ ("c3" :> Chat)
MCSlotOf == ("c1" :> 1) @@ ("c2" :> 1) @@ ("c3" :> 1)
MCContentOf == ("c1" :> "x") @@ ("c2" :> "y") @@ ("c3" :> "x")
MCPinOf == ("c1" :> NoMemory) @@ ("c2" :> 1) @@ ("c3" :> NoMemory)
MCUserOf == v1 :> u1
MCApprovers == {[user |-> u1, admin |-> FALSE]}
MCTurns == {[conversation |-> v1, run |-> r1, proposals |-> {"c1"}],
            [conversation |-> v1, run |-> r2, proposals |-> {}]}
MCSubjects == {[user |-> u1, conversation |-> v1, run |-> r1],
               [user |-> u1, conversation |-> NoMemory, run |-> NoMemory]}

\* Drafts: the first schema declares a relationship, the second none.
MCDeclared == (f1 :> {e1}) @@ (f2 :> {})

\* Routes: two expansions, a lookup, a restricted and a contradicted edge.
Relationship(from, to, cardinality, preserve, evidence, source) ==
    [from |-> from, to |-> to, cardinality |-> cardinality, preserve |-> preserve,
     evidence |-> evidence, source |-> source, contradicted |-> FALSE, priority |-> 100]
MCEdgeOf ==
    ("oi" :> Relationship("orders", "items", "one_to_many", NoNode, "low", "user")) @@
    ("op" :> Relationship("orders", "payments", "one_to_many", NoNode, "low", "user")) @@
    ("ic" :> Relationship("items", "catalogue", "many_to_one", NoNode, "recommended", "database_constraint")) @@
    ("pc" :> Relationship("payments", "catalogue", "many_to_many", "payments", "low", "user")) @@
    ("od" :> Relationship("orders", "items", "one_to_one", "orders", "blocked", "database_constraint"))
MCRules == {[terminals |-> {"orders", "items", "catalogue"}, edges |-> <<"oi", "ic">>],
            [terminals |-> {"orders", "items", "catalogue"}, edges |-> <<"ic", "oi">>]}
MCEnabled == {GraphNodes, GraphNodes \ {"catalogue"}}
MCAnchors == {{}, {"payments", "catalogue"}}

\* Tools: a compilation, its execution and the same execution once more.
MCCallOf == [i \in Invocations |-> IF i = "compile" THEN "c" ELSE "q"]
MCPreparedOf == [i \in Invocations |-> IF i = "compile" THEN NoCall ELSE "c"]

\* Page: one run may wait and resume, the other starts and ends.
MCMaxEvents == [r \in ViewedRuns |-> IF r = "long" THEN 3 ELSE 1]

Sym == Permutations({i1, i2})

RoutesRest ==
    /\ graph = [edges |-> {}, rules |-> <<>>, nodes |-> GraphNodes, anchors |-> {}, grained |-> {}]
    /\ question = [required |-> <<"orders">>, measures |-> {}, analysis |-> "open"]
    /\ route = Unrouted
    /\ fanout = "undecided"

ServicesInit ==
    /\ focus \in Services
    /\ MemoryInit /\ (focus # "memory" => provider = "null")
    /\ ProgramInit /\ (focus # "programs" => binding = Graph)
    /\ SourceInit /\ DraftInit /\ ToolInit /\ AuthInit /\ ViewInit
    /\ LoopInit /\ (focus # "loop" => task = [mode |-> "plan", question |-> "data"])
    /\ IF focus = "routes" THEN RouteInit ELSE RoutesRest

ServicesNext ==
    /\ \/ /\ focus = "memory" /\ MemoryNext
          /\ UNCHANGED <<source_vars, draft_vars, route_vars, program_vars,
                         tool_vars, auth_vars, view_vars, loop_vars>>
       \/ /\ focus = "sources" /\ SourceNext
          /\ UNCHANGED <<memory_vars, draft_vars, route_vars, program_vars,
                         tool_vars, auth_vars, view_vars, loop_vars>>
       \/ /\ focus = "drafts" /\ DraftNext
          /\ UNCHANGED <<memory_vars, source_vars, route_vars, program_vars,
                         tool_vars, auth_vars, view_vars, loop_vars>>
       \/ /\ focus = "routes" /\ RouteNext
          /\ UNCHANGED <<memory_vars, source_vars, draft_vars, program_vars,
                         tool_vars, auth_vars, view_vars, loop_vars>>
       \/ /\ focus = "programs" /\ ProgramNext
          /\ UNCHANGED <<memory_vars, source_vars, draft_vars, route_vars,
                         tool_vars, auth_vars, view_vars, loop_vars>>
       \/ /\ focus = "tools" /\ ToolNext
          /\ UNCHANGED <<memory_vars, source_vars, draft_vars, route_vars,
                         program_vars, auth_vars, view_vars, loop_vars>>
       \/ /\ focus = "auth" /\ AuthNext
          /\ UNCHANGED <<memory_vars, source_vars, draft_vars, route_vars,
                         program_vars, tool_vars, view_vars, loop_vars>>
       \/ /\ focus = "view" /\ ViewNext
          /\ UNCHANGED <<memory_vars, source_vars, draft_vars, route_vars,
                         program_vars, tool_vars, auth_vars, loop_vars>>
       \/ /\ focus = "loop" /\ LoopNext
          /\ UNCHANGED <<memory_vars, source_vars, draft_vars, route_vars,
                         program_vars, tool_vars, auth_vars, view_vars>>
    /\ UNCHANGED focus

ServicesSpec ==
    ServicesInit /\ [][ServicesNext]_<<focus, memory_vars, source_vars, draft_vars, route_vars,
                                       program_vars, tool_vars, auth_vars, view_vars, loop_vars>>

\* Every service's variables keep their types.
ServicesTypeOK ==
    /\ focus \in Services
    /\ focus = "memory" => MemoryTypeOK
    /\ focus = "sources" => SourceTypeOK
    /\ focus = "drafts" => DraftTypeOK
    /\ focus = "routes" => RouteTypeOK
    /\ focus = "programs" => ProgramTypeOK
    /\ focus = "tools" => ToolTypeOK
    /\ focus = "auth" => AuthTypeOK
    /\ focus = "view" => ViewTypeOK
    /\ focus = "loop" => LoopTypeOK
============================================================================
