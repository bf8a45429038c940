--------------------------- MODULE QueryPrograms ---------------------------
(***************************************************************************)
(* How a question becomes a program of query stages                        *)
(* (dataset_query/program_planner.py) and the program one read-only query  *)
(* (dataset_query/program_compiler.py), for bindings over a relationship   *)
(* graph and over the joins of the first version.                          *)
(*                                                                         *)
(* A stage is known by what it refers to: fields and metrics of the        *)
(* catalog, outputs of other stages.  The router and the fan-out guard are *)
(* in RelationshipRoutes; here their answers are constants.                *)
(***************************************************************************)
EXTENDS Integers, FiniteSets, Sequences, SequencesExt

CONSTANTS Fields,        \* the logical catalog of the binding
          RoleOf,        \* the role, or the relation, of a field
          MetricFields,  \* the fields that a defined metric reads
          Programs,      \* what a model may answer or ask to compile
          OutputNames,   \* the names that stages give what they project
          MaxAttempts,   \* DatasetQueryProgramPlanner.max_attempts
          LegacyJoins,   \* bindings of the first version: primary relation, joins
          RouteChoices,  \* the router's answers for some roles, in any order
          Authority,     \* DatasetAuthority.allowed_relation_ids
          Graph, NoField, NoRoute, NoProgram

Metrics == DOMAIN MetricFields
Roles == {RoleOf[f] : f \in Fields}

\* The roles a route joins, those whose rows it repeats, and whether it is free
\* of edges of unknown cardinality.
Routes == [roles : SUBSET Roles, repeated : SUBSET Roles, proven : BOOLEAN]

\* A stage has the inputs and the expressions of its kind.
Shaped(stages) ==
    \A i \in DOMAIN stages :
        LET stage == stages[i]
        IN /\ stage.outputs \in Seq(OutputNames) /\ stage.inputs \in Seq(ToSet(stage.inputs))
           /\ \/ stage.kind = "root" /\ stage.inputs = <<>> /\ stage.on = {}
              \/ stage.kind = "stage" /\ Len(stage.inputs) = 1 /\ stage.on = {}
              \/ stage.kind = "join" /\ Len(stage.inputs) = 2
              \/ /\ stage.kind = "union" /\ Len(stage.inputs) >= 2
                 /\ stage.reads = {} /\ stage.on = {}

ASSUME ProgramAssumption ==
    /\ NoField \notin Fields /\ NoRoute \notin Routes /\ NoProgram \notin Programs
    /\ Graph \notin LegacyJoins /\ MaxAttempts \in Nat \ {0} /\ IsFiniteSet(Fields)
    /\ \A m \in Metrics : MetricFields[m] \subseteq Fields
    /\ \A b \in LegacyJoins : b.joins \in Seq(Roles \X Roles)
    /\ \A roles \in (SUBSET Roles) \ {{}} : \A route \in RouteChoices[roles] :
          route = NoRoute \/ (route \in Routes /\ roles \subseteq route.roles)
    /\ \A p \in Programs : p.stages \in Seq(ToSet(p.stages)) /\ Shaped(p.stages)

VARIABLES binding,   \* a graph, or a primary relation and its joins
          planning,  \* who decides, the planner's attempts, what is kept
          program,   \* the program that is planned, compiled or prepared
          compiled   \* of each stage so far: its outputs, lineage and route
program_vars == <<binding, planning, program, compiled>>

InputsOf(stage) == ToSet(stage.inputs)
StagesOf(p) == DOMAIN p.stages
IdsBefore(p, i) == {p.stages[j].id : j \in 1..i-1}
Place(p, id) == CHOOSE i \in StagesOf(p) : p.stages[i].id = id

\* DatasetQueryProgram: stages that read earlier ones, or a question instead.
WellFormed(p) ==
    IF p.status # "ready" THEN p.stages = <<>>
    ELSE /\ p.stages # <<>> /\ p.output \in {p.stages[i].id : i \in StagesOf(p)}
         /\ \A i \in StagesOf(p) :
               LET stage == p.stages[i]
               IN /\ stage.id \notin IdsBefore(p, i) /\ InputsOf(stage) \subseteq IdsBefore(p, i)
                  /\ IsInjective(stage.inputs) /\ IsInjective(stage.outputs)

MetricsRead(stage) == UNION {MetricFields[m] : m \in stage.metrics}

\* What a root stage refers to, its anchor included.
RootFields(stage) ==
    ({stage.anchor} \ {NoField}) \cup stage.fields \cup MetricsRead(stage)

RolesOf(fields) == {RoleOf[f] : f \in fields}

\* The outputs that the planner knows of each stage; a union has its first input's.
NamesShown(p) ==
    LET Names[i \in StagesOf(p)] ==
            LET stage == p.stages[i]
            IN IF stage.kind = "union" THEN Names[Place(p, stage.inputs[1])]
               ELSE ToSet(stage.outputs)
    IN Names

\* What a stage reads, and a join compares, is shown by the input it names.
OutputsFit(p, stage, names) ==
    LET Shown(id) == names[Place(p, id)]
    IN /\ \A read \in stage.reads : read[1] \in InputsOf(stage) /\ read[2] \in Shown(read[1])
       /\ \A pair \in stage.on :
             pair[1] \in Shown(stage.inputs[1]) /\ pair[2] \in Shown(stage.inputs[2])

\* The scope the planner holds a program to, its routes apart.
InScope(p) ==
    LET names == NamesShown(p)
    IN \A i \in StagesOf(p) :
          LET stage == p.stages[i]
          IN IF stage.kind = "union"
             THEN \A id \in InputsOf(stage) : names[Place(p, id)] = names[Place(p, stage.inputs[1])]
             ELSE /\ stage.fields \subseteq Fields /\ stage.metrics \subseteq Metrics
                  /\ OutputsFit(p, stage, names)
                  /\ stage.kind = "root" =>
                        stage.anchor \in Fields \cup {NoField} /\ RootFields(stage) # {}

RootStages(p) == {i \in StagesOf(p) : p.stages[i].kind = "root"}
MayBeRouted(p) ==
    binding = Graph =>
        \A i \in RootStages(p) : RouteChoices[RolesOf(RootFields(p.stages[i]))] # {NoRoute}
MayBeUnrouted(p) ==
    binding = Graph /\
        \E i \in RootStages(p) : NoRoute \in RouteChoices[RolesOf(RootFields(p.stages[i]))]
----------------------------------------------------------------------------
\* The relations between some relations and the primary one, and these.
RelationsAbove(b, relations) ==
    LET Up[n \in 0..Len(b.joins)] ==
            IF n = 0 THEN relations
            ELSE Up[n-1] \cup {b.joins[k][1] : k \in {j \in DOMAIN b.joins : b.joins[j][2] \in Up[n-1]}}
    IN Up[Len(b.joins)]

\* One relation is read alone; several are joined down from the primary one,
\* in the order of the binding's joins.
FirstRelation(b, relations) ==
    IF Cardinality(relations) = 1 THEN CHOOSE r \in relations : TRUE ELSE b.primary

JoinsFor(b, relations) ==
    IF Cardinality(relations) = 1 THEN {}
    ELSE {k \in DOMAIN b.joins : b.joins[k][2] \in RelationsAbove(b, relations)}

JoinedBy(b, relations, joins) == {FirstRelation(b, relations)} \cup {b.joins[k][2] : k \in joins}

\* The joins of the first version are not guarded.
LegacyRoute(b, relations) ==
    [roles |-> JoinedBy(b, relations, JoinsFor(b, relations)), repeated |-> {}, proven |-> TRUE]

\* A tree over the mapped relations, told from the primary one down.
ValidJoins(b) ==
    LET Connected(k) == {b.primary} \cup {b.joins[j][2] : j \in 1..k-1}
    IN /\ \A k \in DOMAIN b.joins :
             b.joins[k][1] \in Connected(k) /\ b.joins[k][2] \notin Connected(k)
       /\ Connected(Len(b.joins) + 1) = Roles

Bound == {Graph} \cup {b \in LegacyJoins : ValidJoins(b)}

\* "kept": the resolver has a plan, or a stored query, and does not plan again.
PlanStates ==
    [phase : {"asked", "waiting", "planned", "compiling", "refused", "prepared", "failed"},
     attempts : 0..MaxAttempts, author : {"planner", "model"}, kept : BOOLEAN]

ProgramInit ==
    /\ binding \in Bound
    /\ planning = [phase |-> "asked", attempts |-> 0, author |-> "planner", kept |-> FALSE]
    /\ program = NoProgram
    /\ compiled = <<>>

\* A business metric of a domain pack that the catalog does not define.
MetricUndefined ==
    /\ planning.phase = "asked" /\ planning.attempts = 0
    /\ \E phase \in {"waiting", "failed"} : planning' = [planning EXCEPT !.phase = phase]
    /\ UNCHANGED <<binding, program, compiled>>

\* The model's answer is a program in scope; one without stages asks, or gives up.
ProgramAccepted ==
    /\ planning.phase = "asked"
    /\ \E p \in Programs :
          /\ WellFormed(p) /\ (p.status = "ready" => InScope(p) /\ MayBeRouted(p))
          /\ planning' = [planning EXCEPT !.attempts = 0, !.author = "planner",
                             !.kept = p.status = "ready",
                             !.phase = CASE p.status = "ready" -> "planned"
                                         [] p.status = "unsupported" -> "failed"
                                         [] OTHER -> "waiting"]
          /\ program' = IF p.status = "ready" THEN p ELSE NoProgram
    /\ UNCHANGED <<binding, compiled>>

Unacceptable(p) ==
    ~(WellFormed(p) /\ (p.status = "ready" => InScope(p) /\ ~MayBeUnrouted(p)))

\* This is the last attempt.
LastAttempt == planning.attempts + 1 = MaxAttempts

\* An answer that is no program, or is out of scope, is sent back for repair.
ProgramRejected ==
    /\ planning.phase = "asked"
    /\ \E p \in Programs : Unacceptable(p)
    /\ planning' = [planning EXCEPT !.attempts = @ + 1,
                        !.phase = IF LastAttempt THEN "failed" ELSE "asked"]
    /\ UNCHANGED <<binding, program, compiled>>

\* A timeout, which abandons the call, or an error of the client: no retry.
ModelCallFails ==
    /\ planning.phase = "asked"
    /\ planning' = [planning EXCEPT !.phase = "failed"]
    /\ UNCHANGED <<binding, program, compiled>>

\* The user answers; the resolver forgets its plan and plans again.
QuestionClarified ==
    /\ planning.phase = "waiting"
    /\ planning' = [planning EXCEPT !.phase = "asked"]
    /\ UNCHANGED <<binding, program, compiled>>

PlanCompiles ==
    /\ planning.phase = "planned"
    /\ planning' = [planning EXCEPT !.phase = "compiling"]
    /\ UNCHANGED <<binding, program, compiled>>

\* Another tool has failed before there is a plan: the model decides.
ToolFails ==
    /\ planning.phase = "asked" /\ planning.attempts = 0
    /\ planning' = [planning EXCEPT !.phase = "refused"]
    /\ UNCHANGED <<binding, program, compiled>>

\* A tool the model has chosen succeeds: the resolver decides, and plans unless
\* it has a plan (which would be refused again) or a query.
ToolSucceeds ==
    /\ planning.phase = "refused" /\ ~planning.kept
    /\ planning' = [planning EXCEPT !.phase = "asked"]
    /\ UNCHANGED <<binding, program, compiled>>

\* After a failed tool, be it the execution of a prepared query, the model may
\* bring a program of its own: the tool checks its form, and the compiler the rest.
ModelCompiles ==
    /\ planning.phase \in {"refused", "prepared"}
    /\ \E p \in Programs :
          /\ WellFormed(p) /\ p.status = "ready"
          /\ program' = p
    /\ planning' = [planning EXCEPT !.phase = "compiling", !.author = "model"]
    /\ compiled' = <<>>
    /\ UNCHANGED binding
----------------------------------------------------------------------------
Current == program.stages[Len(compiled) + 1]
Unfinished(kind) ==
    /\ planning.phase = "compiling" /\ Len(compiled) < Len(program.stages)
    /\ Current.kind = kind

BuiltOf(id) == compiled[Place(program, id)]

\* Faulty: what flows in comes from the first input.
FirstLineage(stage) == BuiltOf(stage.inputs[1]).lineage

\* The fields whose rows flow into a stage from its inputs.
LineageOf(stage) == UNION {BuiltOf(id).lineage : id \in InputsOf(stage)}

StageDone(outputs, lineage, route) ==
    /\ compiled' = Append(compiled, [outputs |-> outputs, lineage |-> lineage, route |-> route])
    /\ UNCHANGED <<binding, planning, program>>

\* FanoutGuard: a measure, or a grouping, makes a stage an aggregate.
Measured(stage) == stage.measures \cup MetricsRead(stage)
FanoutAllowed(stage, route) ==
    Measured(stage) # {} \/ stage.grouped =>
        route.proven /\ RolesOf(Measured(stage)) \cap route.repeated = {}

\* A root stage refers to fields and metrics of the catalog, and to no output.
RootFits(stage) ==
    /\ stage.metrics \subseteq Metrics /\ stage.reads = {}
    /\ RootFields(stage) # {} /\ RootFields(stage) \subseteq Fields

\* _graph_scope, _legacy_scope: how the relations of some roles may be joined.
ScopesFor(stage) ==
    LET roles == RolesOf(RootFields(stage))
    IN IF binding = Graph THEN RouteChoices[roles] ELSE {LegacyRoute(binding, roles)}

Readable(stage, route) == route # NoRoute /\ FanoutAllowed(stage, route)

RootCompiled ==
    /\ Unfinished("root") /\ RootFits(Current)
    /\ \E route \in ScopesFor(Current) :
          Readable(Current, route) /\ StageDone(Current.outputs, RootFields(Current), route)

\* A later stage reads outputs of its inputs only; their names are not looked up.
LaterFits(stage) ==
    /\ stage.metrics \subseteq Metrics
    /\ stage.fields \cup MetricsRead(stage) = {}
    /\ \A read \in stage.reads : read[1] \in InputsOf(stage)

StageCompiled ==
    /\ Unfinished("stage") /\ LaterFits(Current)
    /\ StageDone(Current.outputs, LineageOf(Current), NoRoute)

\* The router's answers for all the roles whose rows a join would bring together.
JoinRoutes(stage) == RouteChoices[RolesOf(LineageOf(stage))]

JoinCompiled ==
    /\ Unfinished("join") /\ LaterFits(Current)
    /\ binding = Graph => JoinRoutes(Current) # {NoRoute}
    /\ StageDone(Current.outputs, LineageOf(Current), NoRoute)

UnionFits(stage) ==
    \A id \in InputsOf(stage) : BuiltOf(id).outputs = BuiltOf(stage.inputs[1]).outputs

UnionCompiled ==
    /\ Unfinished("union") /\ UnionFits(Current)
    /\ StageDone(BuiltOf(Current.inputs[1]).outputs, LineageOf(Current), NoRoute)

\* What the compiler raises on.
StageRefused ==
    \/ Unfinished("root") /\ ~RootFits(Current)
    \/ /\ Unfinished("root") /\ RootFits(Current)
       /\ \E route \in ScopesFor(Current) : ~Readable(Current, route)
    \/ Unfinished("stage") /\ ~LaterFits(Current)
    \/ /\ Unfinished("join")
       /\ ~LaterFits(Current) \/ (binding = Graph /\ NoRoute \in JoinRoutes(Current))
    \/ Unfinished("union") /\ ~UnionFits(Current)

\* validate_prepared_authority: the relations that the query reads are allowed.
StagesRouted == {i \in DOMAIN compiled : compiled[i].route # NoRoute}
Authorized == \A i \in StagesRouted : compiled[i].route.roles \subseteq Authority

AllCompiled == planning.phase = "compiling" /\ Len(compiled) = Len(program.stages)

\* The tool fails: a stage is refused, or the query is beyond the authority or
\* its row limit, or is not stored.
CompileFails ==
    /\ StageRefused \/ AllCompiled
    /\ planning' = [planning EXCEPT !.phase = "refused"]
    /\ program' = NoProgram /\ compiled' = <<>>
    /\ UNCHANGED binding

QueryPrepared ==
    /\ AllCompiled /\ Authorized
    /\ planning' = [planning EXCEPT !.phase = "prepared", !.kept = TRUE]
    /\ UNCHANGED <<binding, program, compiled>>

ProgramNext ==
    \/ MetricUndefined
    \/ ProgramAccepted
    \/ ProgramRejected
    \/ ModelCallFails
    \/ QuestionClarified
    \/ PlanCompiles
    \/ ToolFails
    \/ ToolSucceeds
    \/ ModelCompiles
    \/ RootCompiled
    \/ StageCompiled
    \/ JoinCompiled
    \/ UnionCompiled
    \/ CompileFails
    \/ QueryPrepared

ProgramSpec == ProgramInit /\ [][ProgramNext]_program_vars
----------------------------------------------------------------------------
ProgramTypeOK ==
    /\ binding \in Bound
    /\ planning \in PlanStates
    /\ program \in Programs \cup {NoProgram}
    /\ program = NoProgram <=> planning.phase \notin {"planned", "compiling", "prepared"}
    /\ program = NoProgram => compiled = <<>>
    /\ program # NoProgram => Len(compiled) <= Len(program.stages)
    /\ compiled \in Seq([outputs : Seq(OutputNames), lineage : SUBSET Fields,
                         route : Routes \cup {NoRoute}])

\* The root stages whose rows reach a stage, through whatever stages between.
RootsOf(p) ==
    LET Roots[i \in StagesOf(p)] ==
            IF p.stages[i].kind = "root" THEN {i}
            ELSE UNION {Roots[Place(p, id)] : id \in InputsOf(p.stages[i])}
    IN Roots

\* However many stages lie between, a join brings rows of two roles together
\* only when the active graph has a route over all of them: a stage join cannot
\* bypass the relationship graph.
JoinsFollowGraph ==
    binding = Graph =>
        \A i \in StagesOf(program) : program.stages[i].kind = "join" =>
            LET fields == UNION {RootFields(program.stages[j]) : j \in RootsOf(program)[i]}
            IN RouteChoices[RolesOf(fields)] # {NoRoute}

\* The tables of a root stage are joined one to another, and an allowed query
\* reads no relation but theirs.
TablesAreJoined ==
    \A i \in RootStages(program) :
        LET roles == RolesOf(RootFields(program.stages[i]))
            joins == IF binding = Graph THEN {} ELSE JoinsFor(binding, roles)
        IN /\ roles \subseteq compiled[i].route.roles
           /\ compiled[i].route.roles \subseteq Authority
           /\ \A k \in joins :
                 binding.joins[k][1] \in JoinedBy(binding, roles, joins \cap (1..k-1))

\* The branches of a union show the same columns in the same order.
UnionsAlign ==
    \A i \in StagesOf(program) : program.stages[i].kind = "union" =>
        \A id \in InputsOf(program.stages[i]) : BuiltOf(id).outputs = compiled[i].outputs

\* Every output that a stage reads is one that the stage it names produces.
OutputsExist ==
    LET produced == [i \in StagesOf(program) |-> ToSet(compiled[i].outputs)]
    IN \A i \in StagesOf(program) : OutputsFit(program, program.stages[i], produced)

\* A prepared query joins only what the binding relates, and reads only what
\* the run may read, whoever wrote its program and after however many attempts.
\* If it is the planner's, who accepted it by the names expected of each stage,
\* then the compiler has produced all outputs it reads.
PreparedIsGoverned ==
    planning.phase = "prepared" =>
        /\ JoinsFollowGraph
        /\ TablesAreJoined
        /\ UnionsAlign
        /\ planning.author = "planner" => OutputsExist
============================================================================
