------------------------------ MODULE MCShared ------------------------------
(***************************************************************************)
(* The stores a Run shares with others, whose tables are disjoint: the     *)
(* delivery coordinator, the capacity store, the conversations, the        *)
(* routing of tasks, and their executions with the reviews of them.  A     *)
(* behaviour of this model is one of a part.                               *)
(***************************************************************************)
EXTENDS DeliveryCoordinator, CapacityStore, Conversations, TaskRouting, ReviewerExecutions, TLC

VARIABLE part

sharedVars == <<deliveryVars, capacityVars, conversationVars, routingVars, reviewVars, part>>

MCInit ==
    /\ DeliveryInit /\ CapacityInit /\ ConversationsInit /\ RoutingInit /\ ReviewsInit
    /\ part \in {"delivery", "capacity", "conversations", "routing", "tasks"}

(* One slot is kept for lead work, of two; readings are good for one tick. *)
MCPolicies == {[maxActive |-> 2, leadSlots |-> 0, leadReserve |-> 1, maxAge |-> 1]}

(* The second Run is an old one that names the conversation. *)
MCProjectOf == [r1 |-> "p1", r2 |-> "p2"]
MCDeclaredOf == [r1 |-> None, r2 |-> CHOOSE c \in Threads : TRUE]

MCRegistered ==
    LET row(role, family, class, billing, completion) ==
          [roles |-> {role}, family |-> family, maxClass |-> class,
           scope |-> IF role = "reviewer" THEN {1} ELSE Classes, billing |-> billing, completion |-> completion]
    IN << row("worker", "a", 3, "metered", 1), row("worker", "a", 2, "subscription", None),
          row("reviewer", "a", 3, "subscription", 1), row("reviewer", "b", 1, "subscription", None) >>
MCGroups == [work |-> {1, 2}, review |-> {3, 4}]
MCRule(role, priority, classes, risks, domains, readiness) ==
    [role |-> role, purpose |-> None, readiness |-> readiness, classes |-> classes, risks |-> risks,
     domains |-> domains, priority |-> priority, escalation |-> {}, handoff |-> FALSE,
     groups |-> IF role = "worker" THEN {"work"} ELSE {"review"},
     bands |-> IF role = "worker" THEN 1 :> 0 @@ 2 :> 1 ELSE << >>, independence |-> role = "reviewer"]
MCReviewRule == MCRule("reviewer", 1, {}, {}, {}, None)
MCRoutedBook == << MCRule("worker", 1, {}, {}, {}, None), MCReviewRule >>
MCConditions(priority, readiness) ==
    {MCRule("worker", priority, c, r, d, y) :
        c \in {{}, {1}}, r \in {{}, {"low"}}, d \in SUBSET {"db"}, y \in readiness}
MCRulebooks ==
    {MCRoutedBook} \union {<<a, b, c>> : a \in MCConditions(1, {None}), b \in MCConditions(1, {None}),
                                         c \in MCConditions(2, {None, "ready"})}
MCRequest(role, complexity, risk, domains, readiness) ==
    [role |-> role, purpose |-> None, readiness |-> readiness, complexity |-> complexity, risk |-> risk,
     floors |-> {}, domains |-> domains, authors |-> {}, worker |-> "w"]
MCRequests ==
    {MCRequest("worker", c, r, d, "ready") : c \in {1, 2}, r \in {"low", "high"}, d \in SUBSET {"db"}}
MCRiskClass == [low |-> 1, high |-> 2]
MCPlans ==
    {[w |-> MCRequest("worker", 1, r, {}, "ready"), v |-> MCRequest("reviewer", 1, "low", {}, "ready")] : r \in {"low", "high"}}
MCLimits == [active |-> 3, lead |-> 0, age |-> 1, unknownActive |-> 2, unknownAge |-> 1, margin |-> 0]
MCChanges(row) == IF row = None THEN 1 ELSE row.generation - 1
RoutingChanges ==
    Cardinality(withdrawn) + (IF lineage.checks = "lost" THEN 1 ELSE 0)
    + MapThenSumSet(LAMBDA p : MCChanges(qualified[p]) + MCChanges(estimated[p]), Profiles)
(* Every rulebook is frozen, and one is used. *)
RoutingBound ==
    /\ RoutingChanges <= 1
    /\ rulebook = None => RoutingInit
    /\ MCChanges(qualified[1]) + MCChanges(estimated[1]) = 0 /\ 1 \notin withdrawn
    /\ pool.generation > 1 => RoutingChanges = 0

(* A later approval allows fewer processes. *)
MCAttemptLimit == <<3, 2>>

(* What disturbs a task's execution besides lost answers, and its cancellations. *)
Unrouted == ~world.routed \/ \E o \in DOMAIN operations : ~operations[o].requested
Troubles ==
    world.approval - 1 + (IF world.late THEN 1 ELSE 0) + (IF Unrouted THEN 1 ELSE 0)
    + Cardinality({o \in Ops : \/ capacity[o].hold \in {"expired", "overdue", "unknown", "ended"}
                               \/ capacity[o].hold = "released" /\ ~capacity[o].cancelled})
Cancellations == Cardinality({o \in DOMAIN operations : operations[o].cancel})

(* What disturbs the quota: policies, failures, a second reading or receipt, usage above an estimate. *)
CapacityTroubles ==
    policy.revision - 1 + (IF failure.until > 0 THEN 1 ELSE 0)
    + (IF Cardinality(readings) > 1 THEN 1 ELSE 0) + (IF Cardinality(DOMAIN usage) > 1 THEN 1 ELSE 0)
    + (IF \E a \in DOMAIN reservations : Excess[a] > 0 THEN 1 ELSE 0)

(* The parts take their names from the same two pairs of model values. *)
MCSymmetry == Permutations(Advancers) \union Permutations(PullIds)

(***************************************************************************)
(* Bounds on what is explored: cancelled stands for revoked too, the Run   *)
(* is paused and the repository changed by others only before the second   *)
(* revision, the latter while the Run is active, one thing disturbs the    *)
(* quota at a time, before the last tick, and a task meets two             *)
(* disturbances, one of them a cancellation, or is or was without a route. *)
(***************************************************************************)
MCBound ==
    /\ part = "delivery" =>
          /\ control # "revoked"
          /\ remote.moved => remote.head # Foreign
          /\ remote.moved \/ remote.head = Foreign => DOMAIN deliveries = {1} /\ control = "active"
          /\ control = "paused" => DOMAIN deliveries = {1}
    /\ part = "capacity" => CapacityTroubles <= IF now < MaxTime THEN 1 ELSE 0
    /\ part = "routing" => RoutingBound
    /\ part = "tasks" => Troubles <= 1 /\ Troubles + Cancellations <= IF Unrouted THEN 1 ELSE 2

MCNext ==
    /\ UNCHANGED part
    /\ \/ /\ part = "delivery" /\ DeliveryNext
          /\ UNCHANGED <<capacityVars, conversationVars, routingVars, reviewVars>>
       \/ /\ part = "capacity" /\ CapacityNext
          /\ UNCHANGED <<deliveryVars, conversationVars, routingVars, reviewVars>>
       \/ /\ part = "conversations" /\ ConversationsNext
          /\ UNCHANGED <<deliveryVars, capacityVars, routingVars, reviewVars>>
       \/ /\ part = "routing" /\ rulebook \in {None, MCRoutedBook} /\ RoutingNext
          /\ UNCHANGED <<deliveryVars, capacityVars, conversationVars, reviewVars>>
       \/ /\ part = "tasks" /\ ReviewsNext
          /\ UNCHANGED <<deliveryVars, capacityVars, conversationVars, routingVars>>
    /\ MCBound'

MCSpec == MCInit /\ [][MCNext]_sharedVars
=============================================================================
