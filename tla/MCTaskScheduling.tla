------------------------- MODULE MCTaskScheduling -------------------------
(***************************************************************************)
(* Two tasks in nested directories, two expansion sets and one grant: the  *)
(* second task may replace the first while it runs.                        *)
(***************************************************************************)
EXTENDS TaskScheduling, TLC

CONSTANTS t1, t2, e1, e2, g1

MCSpec(id, zone) ==
    [id |-> id, zone |-> zone, deps |-> {}, fixed |-> {}, joins |-> {},
     outs |-> {"o"}, req |-> TRUE]

MCZones == {<<"docs">>, <<"docs", "api">>}

MCSpecs ==
    {MCSpec(t1, <<"docs">>),
     MCSpec(t2, <<"docs", "api">>)}

MCActsOf == [g \in {g1} |-> {"expand_graph", "seal"}]
MCCapOf == [g \in {g1} |-> None]
MCCostOf == [g \in {g1} |-> 1]
MCPolicies == {[max |-> 2, margin |-> 0]}
MCReadings == {[metric |-> "remaining", amount |-> 5, limit |-> None]}
=============================================================================
