---------------------------- MODULE MCTaskJoins ----------------------------
(***************************************************************************)
(* A member t1, a task t2 that depends on it or replaces it, and a join t3 *)
(* over the one expansion set; one grant expands and seals, both edit.     *)
(***************************************************************************)
EXTENDS TaskScheduling, TLC

CONSTANTS t1, t2, t3, e1, g1, g2

MCZones == {<<"docs">>, <<"src">>, <<"out">>}

MCSpec(id, zone, deps, joins) ==
    [id |-> id, zone |-> zone, deps |-> deps, fixed |-> {}, joins |-> joins,
     outs |-> {"o"}, req |-> TRUE]

MCSpecs ==
    {MCSpec(t1, <<"docs">>, {}, {}),
     MCSpec(t2, <<"src">>, {}, {}),
     MCSpec(t3, <<"out">>, {}, {e1})}

MCActsOf ==
    (g1 :> {"expand_graph", "set_priority", "seal"}) @@
    (g2 :> {"bind_role", "set_dependencies", "request_dispatch"})
MCCapOf == (g1 :> 1) @@ (g2 :> None)
MCCostOf == (g1 :> 1) @@ (g2 :> 0)
MCPolicies == {[max |-> 2, margin |-> 1]}
MCReadings ==
    {[metric |-> "used", amount |-> 1, limit |-> 5],
     [metric |-> "unknown", amount |-> 0, limit |-> None]}
=============================================================================
