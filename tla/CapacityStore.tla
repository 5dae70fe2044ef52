--------------------------- MODULE CapacityStore ---------------------------
(***************************************************************************)
(* A subscription quota shared by all attempts of an account:              *)
(* CapacityStore in backend/karajan/capacity/store.py and the occupancy    *)
(* facts of facts.py.                                                      *)
(*                                                                         *)
(* The provider's remaining quota is known only through readings, which    *)
(* are taken at one time and arrive later, and through usage receipts,     *)
(* which a reading may or may not include.  Admission reserves a demand,   *)
(* activation records the intent, the guard before the effect checks once  *)
(* more, and reconciliation ends the claim.  Every operation is one write  *)
(* transaction; the evaluations repeated inside it differ only in the      *)
(* clock and are one evaluation at its last reading here.  One account     *)
(* with one service pool whose window does not end.                        *)
(***************************************************************************)
EXTENDS Common, Integers, FiniteSets, FiniteSetsExt

CONSTANTS
    Admissions,  \* admission identities, one attempt each
    Receipts,    \* usage receipt identities
    Demands,     \* quantities an attempt may ask for
    Quota,       \* what the provider really grants (external)
    Policies,    \* policies: maxActive, leadSlots, leadReserve, maxAge
    Duration,    \* lifetime of a reservation
    MaxTime,     \* bound on the clock
    MaxRevision, \* bound on policy revisions
    MaxReadings, \* bound on readings under way
    MaxSpent     \* bound on what one attempt consumes, above the demands

VARIABLES
    now,
    policy,      \* latest policy and its revision
    obs,         \* latest applied observation, or None
    readings,    \* external: readings taken and not yet reported
    reservations,
    usage,       \* usage receipts, id -> admission and amount
    failure,     \* end of the latest cooldown, time of the latest exhaustion
    spent,       \* external: what each attempt really consumed
    sent         \* attempts whose effect passed the guard

capacityVars == <<now, policy, obs, readings, reservations, usage, failure, spent, sent>>

(* Rows of the policies, reservations and usage receipts, and an observation. *)
Policy == [maxActive : Nat, leadSlots : Nat, leadReserve : Nat, maxAge : Nat]

Reservation ==
    [state : {"reserved", "active", "unknown", "ended", "released", "expired"}, demand : Nat,
     lead : BOOLEAN, revision : Nat, expires : Nat]

Receipt == [admission : DOMAIN reservations, amount : Nat]

Reading == [at : Nat, remaining : Int, covered : SUBSET DOMAIN usage]

(* Quantities and times are whole units. *)
ASSUME CapacityAssumption ==
    Demands \subseteq Nat /\ Quota \in Nat /\ Duration \in Nat /\ Policies \subseteq Policy

CapacityTypeOK ==
    /\ now \in Nat
    /\ policy \in [revision : Nat, terms : Policies]
    /\ readings \subseteq Reading /\ (obs # None => obs \in Reading)
    /\ DOMAIN reservations \subseteq Admissions
    /\ reservations \in [DOMAIN reservations -> Reservation]
    /\ usage \in [DOMAIN usage -> Receipt]
    /\ spent \in [Admissions -> Nat] /\ sent \subseteq Admissions

CapacityInit ==
    /\ now = 0
    /\ \E p \in Policies : policy = [revision |-> 1, terms |-> p]
    /\ obs = None
    /\ readings = {}
    /\ reservations = << >>
    /\ usage = << >>
    /\ failure = [until |-> 0, dry |-> -1]
    /\ spent = [a \in Admissions |-> 0]
    /\ sent = {}

TotalSpent == SumFunctionOnSet(spent, DOMAIN reservations)

(***************************************************************************)
(* The provider's console is read; what it shows includes the receipts     *)
(* known so far.  It is below zero once more was used than granted.        *)
(***************************************************************************)
TakeReading ==
    /\ Cardinality(readings) < MaxReadings
    /\ readings' = readings \union
          {[at |-> now, remaining |-> Quota - TotalSpent, covered |-> DOMAIN usage]}
    /\ UNCHANGED <<now, policy, obs, reservations, usage, failure, spent, sent>>

(* observe, in any order: only a later reading replaces the one in use. *)
Observe(m) ==
    /\ m \in readings
    /\ readings' = readings \ {m}
    /\ obs' = IF obs = None \/ m.at > obs.at THEN m ELSE obs
    /\ UNCHANGED <<now, policy, reservations, usage, failure, spent, sent>>

(* activate_policy and update_protection: the next revision, compared and set. *)
ActivateCapacityPolicy(p) ==
    /\ policy.revision < MaxRevision
    /\ policy' = [revision |-> policy.revision + 1, terms |-> p]
    /\ UNCHANGED <<now, obs, readings, reservations, usage, failure, spent, sent>>

HeldClaims ==
    {a \in DOMAIN reservations :
        \/ reservations[a].state \in {"active", "unknown"}
        \/ reservations[a].state = "reserved" /\ reservations[a].expires > now}

(* What _held writes: unsent reservations past their time expire for good. *)
Swept ==
    [a \in DOMAIN reservations |->
        IF reservations[a].state = "reserved" /\ reservations[a].expires <= now
          THEN [reservations[a] EXCEPT !.state = "expired"] ELSE reservations[a]]

ReceiptsOf(a) == {u \in DOMAIN usage : usage[u].admission = a}
Reported(U) == SumFunctionOnSet([u \in DOMAIN usage |-> usage[u].amount], U)

(* _pool_usage: receipts the reading does not include, and what held claims may still use. *)
Uncovered == Reported(DOMAIN usage \ obs.covered)

(* A slip in _pool_usage: usage above the estimate is credited to the other claims. *)
FutureOf_Credits(a) == reservations[a].demand - Reported(ReceiptsOf(a))

FutureOf(a) ==
    LET rest == reservations[a].demand - Reported(ReceiptsOf(a))
    IN  IF rest < 0 THEN 0 ELSE rest

Available(lead, others) ==
    obs.remaining - Uncovered - SumFunction([a \in others |-> FutureOf(a)])
        - (IF lead THEN 0 ELSE policy.terms.leadReserve)

(* _temporal_fence: the reading is present, not older than the policy allows. *)
ReadingFresh == obs # None /\ now - obs.at <= policy.terms.maxAge

(* _evaluate for a claim, against the other held claims. *)
Admissible(demand, lead, revision, others) ==
    /\ revision = policy.revision
    /\ Cardinality(others) < policy.terms.maxActive
                             - (IF lead THEN 0 ELSE policy.terms.leadSlots)
    /\ failure.until <= now
    /\ ReadingFresh
    /\ failure.dry < obs.at
    /\ demand <= Available(lead, others)

Admit(a, demand, lead) ==
    /\ a \notin DOMAIN reservations
    /\ Admissible(demand, lead, policy.revision, HeldClaims)
    /\ reservations' = WithRow(Swept, a,
          [state |-> "reserved", demand |-> demand, lead |-> lead,
           revision |-> policy.revision, expires |-> now + Duration])
    /\ UNCHANGED <<now, policy, obs, readings, usage, failure, spent, sent>>

(* activate: the claim is evaluated again without itself. *)
Activate(a) ==
    LET r == reservations[a] IN
    /\ a \in DOMAIN reservations /\ r.state = "reserved"
    /\ reservations' =
          IF /\ r.expires > now
             /\ Admissible(r.demand, r.lead, r.revision, HeldClaims \ {a})
            THEN [Swept EXCEPT ![a].state = "active"]
            ELSE Swept
    /\ reservations' # reservations
    /\ UNCHANGED <<now, policy, obs, readings, usage, failure, spent, sent>>

(* pre_effect_guard, held across the effect of the attempt. *)
Effect(a) ==
    LET r == reservations[a] IN
    /\ a \in DOMAIN reservations /\ a \notin sent
    /\ r.state = "active" /\ r.expires > now
    /\ Admissible(r.demand, r.lead, r.revision, HeldClaims \ {a})
    /\ sent' = sent \union {a}
    /\ UNCHANGED <<now, policy, obs, readings, reservations, usage, failure, spent>>

(* The provider (external) charges a sent attempt; the demand was only an estimate. *)
Consume(a) ==
    /\ a \in sent /\ reservations[a].state \in {"active", "unknown"}
    /\ spent[a] < MaxSpent
    /\ spent' = [spent EXCEPT ![a] = @ + 1]
    /\ UNCHANGED <<now, policy, obs, readings, reservations, usage, failure, sent>>

(***************************************************************************)
(* record_usage: a delta of what was consumed, once per receipt, also when *)
(* the receipts of the attempt now exceed its demand (over_estimate_pools).*)
(***************************************************************************)
RecordReceipt(u, a, amount) ==
    /\ u \notin DOMAIN usage /\ a \in DOMAIN reservations
    /\ reservations[a].state \in {"active", "unknown", "ended"}
    /\ amount > 0 /\ amount + Reported(ReceiptsOf(a)) <= spent[a]
    /\ usage' = WithRow(usage, u, [admission |-> a, amount |-> amount])
    /\ UNCHANGED <<now, policy, obs, readings, reservations, failure, spent, sent>>

CancelUnactivated(a) ==
    /\ a \in DOMAIN reservations /\ reservations[a].state = "reserved"
    /\ reservations' = IF reservations[a].expires <= now THEN Swept
                       ELSE [Swept EXCEPT ![a].state = "released"]
    /\ UNCHANGED <<now, policy, obs, readings, usage, failure, spent, sent>>

(***************************************************************************)
(* reconcile.  The evidence is what the caller observed: an attempt that   *)
(* was never sent, one that ended with all its usage reported, or neither. *)
(***************************************************************************)
ReconcileClaim(a, notSent, complete) ==
    /\ a \in DOMAIN reservations
    /\ reservations[a].state \in {"reserved", "active", "unknown"}
    /\ notSent => a \notin sent /\ ReceiptsOf(a) = {}
    /\ ~notSent => reservations[a].state # "reserved"
    /\ complete => ReceiptsOf(a) # {} /\ Reported(ReceiptsOf(a)) = spent[a]
    /\ reservations' = [reservations EXCEPT ![a].state =
                          IF notSent THEN "released" ELSE IF complete THEN "ended" ELSE "unknown"]
    /\ reservations' # reservations
    /\ UNCHANGED <<now, policy, obs, readings, usage, failure, spent, sent>>

RecordFailure(cooldown, dry) ==
    /\ failure' = [until |-> IF now + cooldown > failure.until THEN now + cooldown
                             ELSE failure.until,
                   dry |-> IF dry THEN now ELSE failure.dry]
    /\ failure' # failure
    /\ UNCHANGED <<now, policy, obs, readings, reservations, usage, spent, sent>>

CapacityTick ==
    /\ now < MaxTime
    /\ now' = now + 1
    /\ UNCHANGED <<policy, obs, readings, reservations, usage, failure, spent, sent>>

CapacityNext ==
    \/ TakeReading
    \/ \E m \in readings : Observe(m)
    \/ \E p \in Policies : ActivateCapacityPolicy(p)
    \/ \E a \in Admissions, d \in Demands, lead \in BOOLEAN : Admit(a, d, lead)
    \/ \E a \in Admissions : Activate(a) \/ Effect(a) \/ Consume(a) \/ CancelUnactivated(a)
    \/ \E u \in Receipts, a \in Admissions, d \in Demands : RecordReceipt(u, a, d)
    \/ \E a \in Admissions, n \in BOOLEAN, c \in BOOLEAN :
          ~(n /\ c) /\ ReconcileClaim(a, n, c)
    \/ \E dry \in BOOLEAN : RecordFailure(1, dry)
    \/ CapacityTick

CapacitySpec == CapacityInit /\ [][CapacityNext]_capacityVars

-----------------------------------------------------------------------------
(* What an attempt used above its estimate. *)
Excess ==
    [a \in DOMAIN reservations |->
        IF spent[a] > reservations[a].demand THEN spent[a] - reservations[a].demand ELSE 0]

(* What a held claim may still come to, as far as is known, and what the others cost. *)
Committed ==
    [a \in DOMAIN reservations |->
        LET reported == Reported(ReceiptsOf(a))
            demand == reservations[a].demand
        IN  IF a \notin HeldClaims THEN spent[a]
            ELSE IF reported > demand THEN reported ELSE demand]

(***************************************************************************)
(* The shared quota is overspent by no more than the estimates were wrong: *)
(* what the attempts of all Runs consume beyond what the provider grants   *)
(* is what they used above their own demands, although readings are old    *)
(* and arrive late and out of order, receipts trail consumption, claims    *)
(* expire and are reconciled in any order.  A claim that no longer counts, *)
(* released or expired, was never sent and never costs anything.  And an   *)
(* over-estimate, once reported, holds the others back: pre_effect_guard   *)
(* lets an effect through only while all ended usage, all held demands and *)
(* whatever is reported above them fit in the quota together.              *)
(***************************************************************************)
QuotaNotOverspent ==
    /\ [](/\ TotalSpent <= Quota + SumFunctionOnSet(Excess, DOMAIN reservations)
          /\ \A a \in DOMAIN reservations :
                reservations[a].state \in {"released", "expired"} => a \notin sent /\ spent[a] = 0)
    /\ [][sent' # sent => SumFunctionOnSet(Committed', DOMAIN reservations') <= Quota]_capacityVars
=============================================================================
