------------------------- MODULE MCQueryPrograms -------------------------
(***************************************************************************)
(* Programs of up to four stages over four fields of four roles.  In the   *)
(* graph visits are not related to the rest; orders and payments are, in   *)
(* one order of the two; items repeat orders.                              *)
(***************************************************************************)
EXTENDS QueryPrograms, TLC

MCRoleOf == ("o" :> "orders") @@ ("i" :> "items") @@ ("p" :> "payments") @@ ("v" :> "visits")
MCMetricFields == ("paid" :> {"p"}) @@ ("rows" :> {})

Joined(roles, repeated, proven) == [roles |-> roles, repeated |-> repeated, proven |-> proven]
MCRouteChoices ==
    [roles \in (SUBSET Roles) \ {{}} |->
        CASE Cardinality(roles) = 1 -> {Joined(roles, {}, TRUE)}
          [] roles = {"orders", "items"} -> {Joined(roles, {"orders"}, TRUE)}
          [] roles = {"orders", "payments"} -> {Joined(roles, {}, TRUE), NoRoute}
          [] OTHER -> IF "visits" \in roles THEN {NoRoute}
                      ELSE {Joined(Roles \ {"visits"}, {"orders"}, FALSE)}]

\* One binding told from the primary relation down, and one that is not.
MCLegacyJoins ==
    {[primary |-> "orders",
      joins |-> <<<<"orders", "items">>, <<"items", "visits">>, <<"orders", "payments">>>>],
     [primary |-> "orders",
      joins |-> <<<<"items", "visits">>, <<"orders", "items">>, <<"orders", "payments">>>>]}

QueryStage(id, kind, inputs, outputs) ==
    [id |-> id, kind |-> kind, inputs |-> inputs, outputs |-> outputs, anchor |-> NoField,
     fields |-> {}, measures |-> {}, metrics |-> {}, reads |-> {}, on |-> {}, grouped |-> FALSE]
RootStage(id, fields, outputs) == [QueryStage(id, "root", <<>>, outputs) EXCEPT !.fields = fields]

FirstStages ==
    LET s == RootStage("1", {"o"}, <<"x", "y">>)
    IN {s, [s EXCEPT !.fields = {"o", "v"}], [s EXCEPT !.fields = {"u"}],
        [s EXCEPT !.fields = {"o", "i"}, !.measures = {"o"}],
        [s EXCEPT !.fields = {"o", "i"}, !.grouped = TRUE],
        [s EXCEPT !.fields = {"i"}, !.metrics = {"paid"}],
        [s EXCEPT !.fields = {}, !.metrics = {"rows"}],
        [s EXCEPT !.fields = {}, !.metrics = {"rows"}, !.anchor = "v"]}
SecondStages ==
    LET s == RootStage("2", {"i"}, <<"x", "y">>)
    IN {s, [s EXCEPT !.outputs = <<"y", "x">>], [s EXCEPT !.fields = {"v"}],
        [s EXCEPT !.fields = {"p"}]}
ThirdStages ==
    LET union == QueryStage("3", "union", <<"1", "2">>, <<>>)
        join == QueryStage("3", "join", <<"1", "2">>, <<"z">>)
        stage3 == QueryStage("3", "stage", <<"2">>, <<"z">>)
    IN {union,
        [join EXCEPT !.on = {<<"x", "y">>}, !.reads = {<<"1", "x">>}],
        [join EXCEPT !.on = {<<"z", "x">>}, !.reads = {<<"2", "y">>}],
        [stage3 EXCEPT !.reads = {<<"2", "x">>}],
        [stage3 EXCEPT !.reads = {<<"1", "x">>}],
        [stage3 EXCEPT !.fields = {"o"}],
        [stage3 EXCEPT !.inputs = <<"4">>]}
FourthStages ==
    {[QueryStage("4", "stage", <<"3">>, <<"w">>) EXCEPT !.reads = {<<"3", "x">>}],
     [QueryStage("4", "join", <<"3", "1">>, <<"z">>) EXCEPT !.on = {<<"z", "x">>}],
     [QueryStage("4", "join", <<"3", "2">>, <<"z">>) EXCEPT !.on = {<<"x", "x">>}]}

ReadyProgram(stages) == [status |-> "ready", stages |-> stages, output |-> Last(stages).id]
MCPrograms ==
    LET Plain == {s \in FirstStages : s.fields \subseteq Fields /\ s.measures \cup s.metrics = {}
                                                             /\ ~s.grouped}
    IN {[status |-> s, stages |-> <<>>, output |-> "1"] : s \in {"unsupported", "needs_clarification"}}
         \cup {ReadyProgram(<<a>>) : a \in FirstStages}
         \cup {ReadyProgram(<<a, b, c>>) : a \in FirstStages, b \in SecondStages, c \in ThirdStages}
         \cup {ReadyProgram(<<a, b, c, d>>) : a \in Plain, b \in SecondStages,
                                              c \in ThirdStages, d \in FourthStages}
============================================================================
