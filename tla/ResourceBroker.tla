--------------------------- MODULE ResourceBroker ---------------------------
(***************************************************************************)
(* The budget of paid calls: ResourceBroker in                             *)
(* backend/karajan/resources/broker.py.                                    *)
(*                                                                         *)
(* An attempt reserves money; each call moves its upper bound out of the   *)
(* attempt's future allowance, records that it is about to be sent, is     *)
(* sent, and is settled from the provider's usage.  submit does this in    *)
(* three transactions with the HTTP exchange between the last two, so a    *)
(* call may be overtaken by recover, finish, revoke, a late report or a    *)
(* stop of the process at every point.  One currency; amounts are units.   *)
(* Receipts of rejected submissions are write-only and left out.           *)
(***************************************************************************)
EXTENDS Common, Integers, FiniteSets, FiniteSetsExt

CONSTANTS
    Attempts,    \* attempt identities
    Calls,       \* call identities (uuid4)
    Logical,     \* verified logical call identities
    Digests,     \* request digests
    Events,      \* usage event identities
    Amounts,     \* reservations, upper bounds and charges
    Limit        \* limit_units of the budget

VARIABLES
    attempts,    \* attempts table
    calls,       \* calls table
    usage,       \* usage table: event -> what was reported
    sender,      \* per call: where the thread inside submit stands
    reached,     \* calls the provider received (external)
    lapsed       \* attempts whose authorization, and whose price, ran out

brokerVars == <<attempts, calls, usage, sender, reached, lapsed>>

(* Rows of the attempts, calls and usage tables. *)
AttemptRow ==
    [state : {"active", "suspended", "finished", "revoked"}, future : Nat, fence : Nat]

CallRow ==
    [attempt : Attempts, upper : Nat, actual : Nat \union {None},
     state : {"prepared", "not_sent", "send_pending", "send_unknown", "settled"},
     logical : Logical \union {None}, digest : Digests,
     reason : {None, "AUTHORIZATION_INVALID", "PRICE_UNBOUNDED_OR_EXPIRED",
               "SEND_OUTCOME_UNKNOWN", "COST_BOUND_EXCEEDED"}]

(* Amounts are whole units, and NULL is none of them. *)
ASSUME BrokerAssumption == Amounts \subseteq Nat /\ Limit \in Nat /\ None \notin Nat

BrokerTypeOK ==
    /\ DOMAIN attempts \subseteq Attempts /\ attempts \in [DOMAIN attempts -> AttemptRow]
    /\ DOMAIN calls \subseteq Calls /\ calls \in [DOMAIN calls -> CallRow]
    /\ DOMAIN usage \subseteq Events
    /\ usage \in [DOMAIN usage -> [call : DOMAIN calls, actual : Nat]]
    /\ sender \in [Calls -> [pc : {"idle", "intent", "send", "answer"}, fence : Nat]]
    /\ reached \subseteq Calls

BrokerInit ==
    /\ attempts = << >>
    /\ calls = << >>
    /\ usage = << >>
    /\ sender = [c \in Calls |-> [pc |-> "idle", fence |-> 0]]
    /\ reached = {}
    /\ lapsed = [auth |-> {}, price |-> {}]

(* COALESCE(actual_units, upper_units) of the calls not booked as not sent: what one may still cost. *)
CallHeld(c) ==
    IF calls[c].state = "not_sent" THEN 0
    ELSE IF calls[c].actual = None THEN calls[c].upper ELSE calls[c].actual

Held ==
    SumFunction([a \in DOMAIN attempts |-> attempts[a].future])
    + SumFunction([c \in DOMAIN calls |-> CallHeld(c)])

ReserveAttempt(a, amount) ==
    /\ a \notin DOMAIN attempts
    /\ amount + Held <= Limit
    /\ attempts' = WithRow(attempts, a, [state |-> "active", future |-> amount, fence |-> 1])
    /\ UNCHANGED <<calls, usage, sender, reached, lapsed>>

Authorized(a, fence) ==
    /\ attempts[a].state = "active"
    /\ attempts[a].fence = fence
    /\ a \notin lapsed.auth

(* A call the provider can recognise is not made twice for one attempt. *)
Repeats(a, l) ==
    l # None /\ \E c \in DOMAIN calls : calls[c].attempt = a /\ calls[c].logical = l

(***************************************************************************)
(* The first transaction of submit that accepts.  A submission that        *)
(* repeats a logical call is answered with the first call, or refused when *)
(* its digest differs, and one without cover is refused: no change.        *)
(***************************************************************************)
PrepareCall(a, c, fence, l, d, upper) ==
    /\ a \in DOMAIN attempts /\ c \notin DOMAIN calls
    /\ Authorized(a, fence)
    /\ ~Repeats(a, l)
    /\ a \notin lapsed.price
    /\ upper <= attempts[a].future
    /\ Held <= Limit
    /\ attempts' = [attempts EXCEPT ![a].future = @ - upper]
    /\ calls' = WithRow(calls, c, [attempt |-> a, state |-> "prepared", upper |-> upper,
                                actual |-> None, logical |-> l, digest |-> d, reason |-> None])
    /\ sender' = [sender EXCEPT ![c] = [pc |-> "intent", fence |-> fence]]
    /\ UNCHANGED <<usage, reached, lapsed>>

(* _release_prepared on a set of calls: allowance returns to active attempts only. *)
ReleasedAttempts(atts, C) ==
    LET back == {c \in C \intersect DOMAIN calls : calls[c].state = "prepared"}
    IN  [a \in DOMAIN atts |->
            IF atts[a].state # "active" THEN atts[a]
            ELSE [atts[a] EXCEPT !.future = @ +
                    SumFunction([c \in {b \in back : calls[b].attempt = a} |-> calls[c].upper])]]

ReleasedCalls(C) ==
    [c \in DOMAIN calls |->
        IF c \in C /\ calls[c].state = "prepared"
          THEN [calls[c] EXCEPT !.state = "not_sent"] ELSE calls[c]]

(* The second transaction of submit, when the call may no longer be sent. *)
AbandonIntent(c) ==
    LET a == calls[c].attempt IN
    /\ sender[c].pc = "intent"
    /\ \/ ~Authorized(a, sender[c].fence)
       \/ calls[c].state # "prepared"
       \/ a \in lapsed.price
    /\ attempts' = ReleasedAttempts(attempts, {c})
    /\ calls' = [ReleasedCalls({c}) EXCEPT ![c].reason =
                   IF ~Authorized(a, sender[c].fence) THEN "AUTHORIZATION_INVALID"
                   ELSE IF calls[c].state # "prepared" THEN @
                   ELSE "PRICE_UNBOUNDED_OR_EXPIRED"]
    /\ sender' = [sender EXCEPT ![c].pc = "idle"]
    /\ UNCHANGED <<usage, reached, lapsed>>

(* Slips in submit: an overtaken call is sent all the same; the intent is not recorded. *)
RecordIntent_Overtaken(c) ==
    /\ sender[c].pc = "intent"
    /\ calls[c].state = "prepared"
    /\ sender' = [sender EXCEPT ![c].pc = "send"]
    /\ UNCHANGED <<attempts, calls, usage, reached, lapsed>>

(* The second transaction of submit, when the call is sent. *)
RecordIntent(c) ==
    /\ sender[c].pc = "intent"
    /\ Authorized(calls[c].attempt, sender[c].fence)
    /\ calls[c].state = "prepared"
    /\ calls[c].attempt \notin lapsed.price
    /\ calls' = [calls EXCEPT ![c].state = "send_pending"]
    /\ sender' = [sender EXCEPT ![c].pc = "send"]
    /\ UNCHANGED <<attempts, usage, reached, lapsed>>

(* connection.request: the provider (external) has the call from here on. *)
Post(c) ==
    /\ sender[c].pc = "send"
    /\ reached' = reached \union {c}
    /\ sender' = [sender EXCEPT ![c].pc = "answer"]
    /\ UNCHANGED <<attempts, calls, usage, lapsed>>

(* The exchange failed, or its answer was unusable: the third transaction. *)
GiveUp(c) ==
    /\ sender[c].pc \in {"send", "answer"}
    /\ calls' = IF calls[c].state = "settled" THEN calls
                ELSE [calls EXCEPT ![c].state = "send_unknown",
                                   ![c].reason = "SEND_OUTCOME_UNKNOWN"]
    /\ sender' = [sender EXCEPT ![c].pc = "idle"]
    /\ UNCHANGED <<attempts, usage, reached, lapsed>>

(***************************************************************************)
(* settle: totals only grow; an event is applied once.  Unused allowance   *)
(* returns while the attempt is active; a charge above the bound suspends. *)
(***************************************************************************)
SettledAttempt(att, call, actual) ==
    LET before == IF call.actual = None THEN call.upper ELSE call.actual
        left == att.future + before - actual
    IN  IF att.state # "active" THEN att
        ELSE IF actual > call.upper THEN [att EXCEPT !.state = "suspended", !.future = 0]
        ELSE [att EXCEPT !.future = IF left < 0 THEN 0 ELSE left]

Settleable(c, e, actual) ==
    /\ e \notin DOMAIN usage
    /\ c \in DOMAIN calls
    /\ calls[c].state \in {"send_pending", "send_unknown", "settled"}
    /\ calls[c].actual # None => actual >= calls[c].actual

Settle(c, e, actual) ==
    LET a == calls[c].attempt IN
    /\ Settleable(c, e, actual)
    /\ usage' = WithRow(usage, e, [call |-> c, actual |-> actual])
    /\ calls' = [calls EXCEPT ![c].state = "settled", ![c].actual = actual,
                              ![c].reason = IF actual > calls[c].upper
                                              THEN "COST_BOUND_EXCEEDED" ELSE @]
    /\ attempts' = [attempts EXCEPT ![a] = SettledAttempt(attempts[a], calls[c], actual)]

(* The answer of the exchange itself. *)
SettleAnswer(c, e, actual) ==
    /\ sender[c].pc = "answer"
    /\ Settle(c, e, actual)
    /\ sender' = [sender EXCEPT ![c].pc = "idle"]
    /\ UNCHANGED <<reached, lapsed>>

(* A usage report from outside the exchange: late, or correcting an earlier one. *)
SettleReport(c, e, actual) ==
    /\ c \in reached
    /\ Settle(c, e, actual)
    /\ UNCHANGED <<sender, reached, lapsed>>

(* A slip in recover: a call that was only prepared is overlooked. *)
Recover_SentOnly ==
    /\ \E c \in DOMAIN calls : calls[c].state = "send_pending"
    /\ calls' = [c \in DOMAIN calls |->
                    IF calls[c].state \in {"send_pending", "send_unknown"}
                      THEN [calls[c] EXCEPT !.state = "send_unknown",
                                            !.reason = "SEND_OUTCOME_UNKNOWN"]
                    ELSE calls[c]]
    /\ UNCHANGED <<attempts, usage, sender, reached, lapsed>>

(* recover may run while another broker on the same file is inside submit. *)
Recover ==
    /\ \E c \in DOMAIN calls : calls[c].state \in {"prepared", "send_pending"}
    /\ attempts' = ReleasedAttempts(attempts, Calls)
    /\ calls' = [c \in DOMAIN calls |->
                    IF calls[c].state \in {"send_pending", "send_unknown"}
                      THEN [calls[c] EXCEPT !.state = "send_unknown",
                                            !.reason = "SEND_OUTCOME_UNKNOWN"]
                    ELSE ReleasedCalls(Calls)[c]]
    /\ UNCHANGED <<usage, sender, reached, lapsed>>

FinishAttempt(a) ==
    /\ a \in DOMAIN attempts /\ attempts[a].state # "finished"
    /\ attempts' = [attempts EXCEPT ![a].state = "finished", ![a].future = 0]
    /\ calls' = ReleasedCalls({c \in DOMAIN calls : calls[c].attempt = a})
    /\ UNCHANGED <<usage, sender, reached, lapsed>>

(* MaxRevocations names the bound on repeated revocations. *)
MaxRevocations == 2

RevokeAttempt(a) ==
    /\ a \in DOMAIN attempts /\ attempts[a].fence < MaxRevocations
    /\ attempts' = [attempts EXCEPT ![a].state = "revoked", ![a].future = 0,
                                    ![a].fence = @ + 1]
    /\ calls' = ReleasedCalls({c \in DOMAIN calls : calls[c].attempt = a})
    /\ UNCHANGED <<usage, sender, reached, lapsed>>

(* Time passes authorization_expires_at or valid_until. *)
Lapse(a) ==
    /\ a \in DOMAIN attempts
    /\ \/ a \notin lapsed.auth /\ lapsed' = [lapsed EXCEPT !.auth = @ \union {a}]
       \/ a \notin lapsed.price /\ lapsed' = [lapsed EXCEPT !.price = @ \union {a}]
    /\ UNCHANGED <<attempts, calls, usage, sender, reached>>

(* The process stops: every thread inside submit is gone. *)
BrokerStops ==
    /\ \E c \in Calls : sender[c].pc # "idle"
    /\ sender' = [c \in Calls |-> [sender[c] EXCEPT !.pc = "idle"]]
    /\ UNCHANGED <<attempts, calls, usage, reached, lapsed>>

SubmitStep(c) ==
    \/ AbandonIntent(c)
    \/ RecordIntent(c)
    \/ Post(c)
    \/ GiveUp(c)
    \/ \E e \in Events, actual \in Amounts : SettleAnswer(c, e, actual)

BrokerNext ==
    \/ \E a \in Attempts, m \in Amounts : ReserveAttempt(a, m)
    \/ \E a \in Attempts, c \in Calls, f \in 1 .. MaxRevocations, l \in Logical \union {None},
          d \in Digests, u \in Amounts : PrepareCall(a, c, f, l, d, u)
    \/ \E c \in Calls : SubmitStep(c)
    \/ \E c \in Calls, e \in Events, m \in Amounts : SettleReport(c, e, m)
    \/ Recover
    \/ \E a \in Attempts : FinishAttempt(a) \/ RevokeAttempt(a) \/ Lapse(a)
    \/ BrokerStops

(* A started thread runs on; a broker that restarts recovers what it finds. *)
BrokerFairness ==
    /\ \A c \in Calls : WF_brokerVars(SubmitStep(c))
    /\ WF_brokerVars(Recover)

BrokerSpec == BrokerInit /\ [][BrokerNext]_brokerVars /\ BrokerFairness

-----------------------------------------------------------------------------
(***************************************************************************)
(* Money that may have been spent stays held: a call the provider received *)
(* counts with its bound or its charge, whatever recover, finish, revoke   *)
(* or a stop did while the thread was inside submit, and a call booked as  *)
(* not sent is never sent later.                                           *)
(***************************************************************************)
SentMoneyIsHeld ==
    \A c \in DOMAIN calls :
        calls[c].state \in {"prepared", "not_sent"} =>
            c \notin reached /\ sender[c].pc \notin {"send", "answer"}

(* What the reports of call c raised above the first report or the bound. *)
Raised(c) ==
    LET first == Min({usage[e].actual : e \in {x \in DOMAIN usage : usage[x].call = c}})
    IN  IF calls[c].actual = None THEN 0
        ELSE calls[c].actual - Min({first, calls[c].upper})

(***************************************************************************)
(* The budget is exceeded by no more than what the provider itself         *)
(* reported above a bound or above its own earlier figure: reservations,   *)
(* releases, refunds and retries never create money.                       *)
(***************************************************************************)
OverdraftIsReported ==
    Held <= Limit + SumFunction([c \in DOMAIN calls |-> Raised(c)])

(* The money of the broker, in both directions: nothing sent is forgotten, nothing is created. *)
MoneyIsAccounted == SentMoneyIsHeld /\ OverdraftIsReported

(***************************************************************************)
(* No call stays open: prepared or pending ends in not sent, unknown or    *)
(* settled, though the process stops anywhere inside submit.               *)
(***************************************************************************)
CallsAreResolved ==
    \A c \in Calls :
        (c \in DOMAIN calls /\ calls[c].state \in {"prepared", "send_pending"})
            ~> (c \in DOMAIN calls /\ calls[c].state \in {"not_sent", "send_unknown", "settled"})
=============================================================================
