-------------------------- MODULE DecisionReceipts --------------------------
(***************************************************************************)
(* How one scheduling decision is adjudicated, answered and remembered:    *)
(* SchedulingStore.submit_decision in backend/karajan/scheduling/store.py. *)
(*                                                                         *)
(* A submission runs on its own server thread.  Its first transaction      *)
(* answers a repeated command from its receipt, or adjudicates it against  *)
(* the current graph revision.  A refusal rolls that transaction back and  *)
(* is recorded by a SECOND transaction; anything may run in between, and   *)
(* the process may stop there.  The content of the graph is TaskGraph;     *)
(* here a decision either fits the graph's present state or does not.      *)
(***************************************************************************)
EXTENDS Integers, FiniteSets

CONSTANTS
    Keys,        \* command keys
    Payloads,    \* decision payloads; their digests are equal iff they are
    Expected,    \* Expected[p]: expected_graph_revision of payload p
    Threads,     \* concurrent submissions
    MaxHead,     \* bound on the graph revision
    MaxLosses,   \* bound on the refusals that are lost
    None

ASSUME ReceiptsAssumption ==
    /\ Expected \in [Payloads -> Nat]
    /\ MaxHead \in Nat
    /\ MaxLosses \in Nat

VARIABLES
    head,        \* task_graph_current
    decisions,   \* scheduling_decisions: accepted commands, by key
    rejections,  \* scheduling_decision_rejections: refused commands, by key
    refusing,    \* per thread: the refusal still to be recorded, or None
    barred,      \* payloads the present task states do not admit
    losses       \* how many refusals were lost before they were recorded

vars == <<head, decisions, rejections, refusing, barred, losses>>

Codes == {"conflict", "idempotency", "merits"}

Put(table, key, row) ==
    [k \in DOMAIN table \union {key} |-> IF k = key THEN row ELSE table[k]]

Init ==
    /\ head = 0
    /\ decisions = << >>
    /\ rejections = << >>
    /\ refusing = [th \in Threads |-> None]
    /\ barred = {}
    /\ losses = 0

(***************************************************************************)
(* _decision_replay: an accepted receipt answers first, then a recorded    *)
(* refusal.  The key belongs to the first payload that got a receipt.      *)
(***************************************************************************)
Answered(k, p) ==
    \/ k \in DOMAIN decisions /\ decisions[k].payload = p
    \/ k \notin DOMAIN decisions /\ k \in DOMAIN rejections /\ rejections[k].payload = p

KeyTaken(k, p) ==
    ~Answered(k, p) /\ k \in DOMAIN decisions \union DOMAIN rejections

(* A slip in _decision_transaction: the expected revision is not compared. *)
Fits_AnyRevision(p) == p \notin barred

Fits(p) == Expected[p] = head /\ p \notin barred

(* A slip in _commit_decision: the receipt names the revision it started from. *)
Accept_OldRevision(th, k, p) ==
    /\ refusing[th] = None
    /\ ~Answered(k, p) /\ ~KeyTaken(k, p)
    /\ Fits(p)
    /\ head < MaxHead
    /\ head' = head + 1
    /\ decisions' = Put(decisions, k, [payload |-> p, rev |-> head])
    /\ UNCHANGED <<rejections, refusing, barred, losses>>

(***************************************************************************)
(* _decision_transaction that accepts: compare-and-set of the revision,    *)
(* the graph and the receipt in one commit.                                *)
(***************************************************************************)
Accept(th, k, p) ==
    /\ refusing[th] = None
    /\ ~Answered(k, p) /\ ~KeyTaken(k, p)
    /\ Fits(p)
    /\ head < MaxHead
    /\ head' = head + 1
    /\ decisions' = Put(decisions, k, [payload |-> p, rev |-> head + 1])
    /\ UNCHANGED <<rejections, refusing, barred, losses>>

(***************************************************************************)
(* _decision_transaction that raises a recordable refusal: it rolls back   *)
(* and the thread goes on to record it.  A command that has its receipt is *)
(* answered from it and changes nothing.                                   *)
(***************************************************************************)
Refuse(th, k, p) ==
    /\ refusing[th] = None
    /\ ~Answered(k, p)
    /\ \/ KeyTaken(k, p)
       \/ ~Fits(p)
    /\ refusing' = [refusing EXCEPT ![th] =
                       [key |-> k, payload |-> p,
                        code |-> IF KeyTaken(k, p) THEN "idempotency"
                                 ELSE IF Expected[p] # head THEN "conflict" ELSE "merits"]]
    /\ UNCHANGED <<head, decisions, rejections, barred, losses>>

(* Slips in _record_rejection: the last refusal wins; only conflicts are kept. *)
RecordRejection_Replace(th) ==
    /\ refusing[th] # None
    /\ rejections' = Put(rejections, refusing[th].key,
                         [payload |-> refusing[th].payload, code |-> refusing[th].code])
    /\ refusing' = [refusing EXCEPT ![th] = None]
    /\ UNCHANGED <<head, decisions, barred, losses>>

RecordRejection_ConflictsOnly(th) ==
    /\ refusing[th] # None
    /\ rejections' = IF refusing[th].key \in DOMAIN rejections \/ refusing[th].code = "merits"
                       THEN rejections
                     ELSE Put(rejections, refusing[th].key,
                              [payload |-> refusing[th].payload,
                               code |-> refusing[th].code])
    /\ refusing' = [refusing EXCEPT ![th] = None]
    /\ UNCHANGED <<head, decisions, barred, losses>>

(***************************************************************************)
(* _record_rejection: write once per key.  A key that already holds a      *)
(* refusal keeps it.                                                       *)
(***************************************************************************)
RecordRejection(th) ==
    /\ refusing[th] # None
    /\ rejections' = IF refusing[th].key \in DOMAIN rejections THEN rejections
                     ELSE Put(rejections, refusing[th].key,
                              [payload |-> refusing[th].payload,
                               code |-> refusing[th].code])
    /\ refusing' = [refusing EXCEPT ![th] = None]
    /\ UNCHANGED <<head, decisions, barred, losses>>

(* The service stops, or the second transaction fails: nothing is recorded. *)
LoseRefusal(th) ==
    /\ refusing[th] # None
    /\ losses < MaxLosses
    /\ losses' = losses + 1
    /\ refusing' = [refusing EXCEPT ![th] = None]
    /\ UNCHANGED <<head, decisions, rejections, barred>>

(***************************************************************************)
(* Claims, reports and revocations change what the graph admits without    *)
(* moving its revision: a claimed task is frozen, a settled one is not.    *)
(***************************************************************************)
TasksMove ==
    /\ \E B \in SUBSET Payloads : barred' = B
    /\ UNCHANGED <<head, decisions, rejections, refusing, losses>>

Submit(k) == \E th \in Threads, p \in Payloads : Accept(th, k, p) \/ Refuse(th, k, p)

Next ==
    \/ \E k \in Keys : Submit(k)
    \/ \E th \in Threads : RecordRejection(th)
    \/ \E th \in Threads : LoseRefusal(th)
    \/ TasksMove

(***************************************************************************)
(* A started thread gets to run, and the caller that owns a key submits it *)
(* again until it has an answer: the thread pool serves it eventually.     *)
(***************************************************************************)
Fairness ==
    /\ \A th \in Threads : WF_vars(RecordRejection(th))
    /\ \A k \in Keys : SF_vars(Submit(k))

Spec == Init /\ [][Next]_vars /\ Fairness

-----------------------------------------------------------------------------
(* The tables hold receipts of known commands. *)
TypeOK ==
    /\ head \in 0 .. MaxHead
    /\ DOMAIN decisions \subseteq Keys
    /\ decisions \in [DOMAIN decisions -> [payload : Payloads, rev : 1 .. MaxHead]]
    /\ DOMAIN rejections \subseteq Keys
    /\ rejections \in [DOMAIN rejections -> [payload : Payloads, code : Codes]]
    /\ refusing \in [Threads -> [key : Keys, payload : Payloads, code : Codes] \union {None}]
    /\ barred \subseteq Payloads
    /\ losses \in 0 .. MaxLosses

(***************************************************************************)
(* No lost update: every revision of the graph was produced by exactly one *)
(* accepted command, which was made against the revision just before it.   *)
(***************************************************************************)
EveryRevisionHasOneDecision ==
    \A r \in 1 .. head :
        \E k \in DOMAIN decisions :
            /\ decisions[k].rev = r
            /\ Expected[decisions[k].payload] = r - 1
            /\ \A j \in DOMAIN decisions : decisions[j].rev = r => j = k

(***************************************************************************)
(* A recorded refusal settles its key: no later submission under that key, *)
(* by any thread, changes the graph, and neither kind of receipt is ever   *)
(* rewritten.                                                              *)
(***************************************************************************)
ReceiptsAreFinal ==
    [][/\ \A k \in DOMAIN rejections :
             /\ k \in DOMAIN rejections' /\ rejections'[k] = rejections[k]
             /\ k \notin DOMAIN decisions => k \notin DOMAIN decisions'
       /\ \A k \in DOMAIN decisions :
             k \in DOMAIN decisions' /\ decisions'[k] = decisions[k]]_vars

(***************************************************************************)
(* Every command that is retried ends with a receipt under its key, though *)
(* refusals are lost between the two transactions, other keys race for the *)
(* same threads and the graph moves on between the attempts.               *)
(***************************************************************************)
EveryKeyIsSettled ==
    \A k \in Keys : <>(k \in DOMAIN decisions \union DOMAIN rejections)

(***************************************************************************)
(* store.py:1920: "A command that was already refused is answered with its *)
(* own refusal, so a replay is coherent": one command never has both an    *)
(* accepted receipt and a refusal that says the graph was not changed.     *)
(***************************************************************************)
ReceiptsAgree ==
    \A k \in DOMAIN decisions \intersect DOMAIN rejections :
        decisions[k].payload # rejections[k].payload
=============================================================================
