------------------------------- MODULE GoRelay -------------------------------
(***************************************************************************)
(* GoRelay in backend/karajan/adapters/opencode/go_relay.py and the grant  *)
(* of GoCallJournal (go_journal.py) it sends under: one relay, one grant.  *)
(*                                                                         *)
(* Every request is served by a thread of its own.  The relay's condition  *)
(* and each transaction of the journal are single steps; between them the  *)
(* controller may revoke the grant or close the relay, the clock may pass  *)
(* the expiry and be set back, and the authority of the work behind the    *)
(* relay may be withdrawn, except while a thread is inside the send guard. *)
(* What is wrong with a request or with an answer is left open: each may   *)
(* be rejected.                                                            *)
(***************************************************************************)
EXTENDS Common, Naturals, FiniteSets

CONSTANTS
    Requests,     \* requests the runtime makes, each with the call identity it is given
    MaxRequests,  \* max_requests of the grant
    RelayLimit,   \* _MAX_REQUESTS of a relay
    ExpiresAt,    \* expires_at of the grant
    MaxClock      \* bound on the clock

VARIABLES
    grant,      \* go_grants and go_expired_grants: revoked, expiry observed
    calls,      \* go_calls: per request its state in the journal, or None
    relay,      \* the relay: closing, places taken, requests in its list of clients
    handler,    \* per request: where its thread stands and what its receipt says
    contexted,  \* the relay measures requests (a context and a send guard are given)
    authority,  \* what the send guard checks still holds
    guard,      \* the request inside the send guard, or None
    clock,      \* the journal's clock
    upstream    \* requests the provider received

(* No request, state of a call or reason is the missing value. *)
ASSUME RelayAssumption ==
    /\ MaxRequests \in Nat /\ None \notin Requests
    /\ None \notin {"send_unknown", "response_received", "GRANT_EXPIRED"}

relayVars == <<grant, calls, relay, handler, contexted, authority, guard, clock, upstream>>

NewHandler == [pc |-> "read", call |-> FALSE, complete |-> FALSE, passed |-> FALSE, reason |-> None]

RelayInit ==
    /\ grant = [revoked |-> FALSE, expired |-> FALSE]
    /\ calls = [r \in Requests |-> None]
    /\ relay = [closing |-> FALSE, taken |-> 0]
    /\ handler = [r \in Requests |-> NewHandler]
    /\ contexted \in BOOLEAN
    /\ authority = TRUE /\ guard = None /\ clock = 0 /\ upstream = {}

Recorded == {r \in Requests : calls[r] # None}
Moves(r, pc) == handler' = [handler EXCEPT ![r].pc = pc]
Rejects(r, reason) == handler' = [handler EXCEPT ![r].pc = "rejected", ![r].reason = reason]

-----------------------------------------------------------------------------
(* _handle: a place in the list of receipts, then the checks of the request and its binding. *)
TakePlace(r) ==
    /\ handler[r].pc = "read"
    /\ IF relay.closing THEN Rejects(r, "RELAY_CLOSING") /\ UNCHANGED relay
       ELSE IF relay.taken >= RelayLimit THEN Rejects(r, "REQUEST_LIMIT_REACHED") /\ UNCHANGED relay
       ELSE /\ relay' = [relay EXCEPT !.taken = @ + 1]
            /\ Moves(r, "guard") \/ Rejects(r, "INVALID_REQUEST")
    /\ UNCHANGED <<grant, calls, contexted, authority, guard, clock, upstream>>

(* A slip in _guard_send: the authority is checked, and the locks are given back before the send. *)
EnterGuard_Unheld(r) ==
    /\ handler[r].pc = "guard"
    /\ contexted => guard = None
    /\ IF contexted /\ ~authority THEN Rejects(r, "TASK_SEND_GUARD_REJECTED") ELSE Moves(r, "begin")
    /\ UNCHANGED <<guard, grant, calls, relay, contexted, authority, clock, upstream>>

(* _guard_send: the controller's locks are taken, or the request is rejected. *)
EnterGuard(r) ==
    /\ handler[r].pc = "guard"
    /\ contexted => guard = None
    /\ IF contexted /\ ~authority THEN Rejects(r, "TASK_SEND_GUARD_REJECTED") /\ UNCHANGED guard
       ELSE Moves(r, "begin") /\ guard' = IF contexted THEN r ELSE guard
    /\ UNCHANGED <<grant, calls, relay, contexted, authority, clock, upstream>>

Leaves(r) == guard' = IF guard = r THEN None ELSE guard

(* begin_call: an observed expiry stays, whatever the clock says later. *)
ExpiryObserved == [grant EXCEPT !.expired = TRUE]

(***************************************************************************)
(* begin_call under the relay's condition: the send is committed as        *)
(* unknown before it is allowed.  When the answer is lost, the journal is  *)
(* read once (_recover_context_call) and nothing is sent.                  *)
(***************************************************************************)
BeginCall(r) ==
    /\ handler[r].pc = "begin"
    /\ \/ /\ relay.closing
          /\ Rejects(r, "RELAY_CLOSING") /\ Leaves(r)
          /\ UNCHANGED <<grant, calls, relay>>
       \/ /\ ~relay.closing /\ grant.revoked
          /\ Rejects(r, "GRANT_REVOKED") /\ Leaves(r)
          /\ UNCHANGED <<grant, calls, relay>>
       \/ /\ ~relay.closing /\ ~grant.revoked /\ (grant.expired \/ ExpiresAt <= clock)
          /\ grant' = ExpiryObserved
          /\ Rejects(r, "GRANT_EXPIRED") /\ Leaves(r)
          /\ UNCHANGED <<calls, relay>>
       \/ /\ ~relay.closing /\ ~grant.revoked /\ ~grant.expired /\ ExpiresAt > clock
          /\ Cardinality(Recorded) >= MaxRequests
          /\ Rejects(r, "REQUEST_LIMIT_REACHED") /\ Leaves(r)
          /\ UNCHANGED <<grant, calls, relay>>
       \/ /\ ~relay.closing /\ ~grant.revoked /\ ~grant.expired /\ ExpiresAt > clock
          /\ Cardinality(Recorded) < MaxRequests
          /\ calls' = [calls EXCEPT ![r] = "send_unknown"]
          /\ \/ /\ handler' = [handler EXCEPT ![r].pc = "send", ![r].call = TRUE]
                /\ UNCHANGED <<guard, relay>>
             \/ /\ handler' = [handler EXCEPT ![r].pc = "rejected", ![r].reason = "BEGIN_LOST",
                                              ![r].call = contexted]
                /\ Leaves(r)
                /\ UNCHANGED relay
             \/ /\ contexted
                /\ Rejects(r, "BEGIN_LOST") /\ Leaves(r)
                /\ relay' = [relay EXCEPT !.closing = TRUE]
          /\ UNCHANGED grant
    /\ UNCHANGED <<contexted, authority, clock, upstream>>

(* client.stream inside the guard; a client that close has closed, or a transport error, may stop it. *)
SendUpstream(r) ==
    /\ handler[r].pc = "send"
    /\ \/ upstream' = upstream \union {r} /\ Moves(r, "answer")
       \/ (upstream' = upstream \/ upstream' = upstream \union {r}) /\ Rejects(r, "RELAY_TRANSPORT_ERROR")
    /\ Leaves(r)
    /\ UNCHANGED <<grant, calls, relay, contexted, authority, clock>>

(* The answer is read to its end, unless the relay closes or the provider fails ... *)
ReadAnswer(r) ==
    /\ handler[r].pc = "answer"
    /\ \/ ~relay.closing /\ handler' = [handler EXCEPT ![r].pc = "check", ![r].complete = TRUE]
       \/ Rejects(r, IF relay.closing THEN "RELAY_CLOSING" ELSE "UPSTREAM_HTTP_ERROR")
    /\ UNCHANGED <<grant, calls, relay, contexted, authority, guard, clock, upstream>>

(* ... its stream, its tools and the usage it reports are checked, and it is handed on. *)
CheckAnswer(r) ==
    /\ handler[r].pc = "check"
    /\ \/ handler' = [handler EXCEPT ![r].pc = "finish", ![r].passed = TRUE]
       \/ Rejects(r, "UPSTREAM_PROTOCOL")
    /\ UNCHANGED <<grant, calls, relay, contexted, authority, guard, clock, upstream>>

(* _withdraw_context_sends: the relay closes, then the grant is revoked, if the journal answers. *)
Withdraw(r) ==
    /\ handler[r].pc = "rejected"
    /\ IF contexted /\ handler[r].call
         THEN /\ relay' = [relay EXCEPT !.closing = TRUE]
              /\ \E answers \in BOOLEAN : grant' = [grant EXCEPT !.revoked = @ \/ answers]
         ELSE UNCHANGED <<relay, grant>>
    /\ Moves(r, "finish")
    /\ UNCHANGED <<calls, contexted, authority, guard, clock, upstream>>

(***************************************************************************)
(* The end of _handle.  client.close may fail: a request that had passed   *)
(* has then failed, but nothing is withdrawn.  _complete_journal, under    *)
(* the condition, records the outcome once.                                *)
(***************************************************************************)
FinishRequest(r) ==
    /\ handler[r].pc = "finish"
    /\ \/ /\ calls' = IF handler[r].call
                        THEN [calls EXCEPT ![r] = IF handler[r].complete THEN "response_received" ELSE @]
                        ELSE calls
          /\ \/ Moves(r, "done")
             \/ /\ handler[r].passed
                /\ handler' = [handler EXCEPT ![r].pc = "done", ![r].passed = FALSE,
                                              ![r].reason = "CLIENT_CLOSE_FAILED"]
          /\ UNCHANGED <<relay, grant>>
       \/ /\ handler[r].call
          /\ handler' = [handler EXCEPT ![r].pc = "done", ![r].passed = FALSE,
                                        ![r].reason = "JOURNAL_COMPLETION_FAILED"]
          /\ IF contexted
               THEN /\ relay' = [relay EXCEPT !.closing = TRUE]
                    /\ \E answers \in BOOLEAN : grant' = [grant EXCEPT !.revoked = @ \/ answers]
               ELSE UNCHANGED <<relay, grant>>
          /\ UNCHANGED calls
    /\ UNCHANGED <<contexted, authority, guard, clock, upstream>>

-----------------------------------------------------------------------------
(* revoke_grant by the controller. *)
RevokeGrant ==
    /\ ~grant.revoked
    /\ grant' = [grant EXCEPT !.revoked = TRUE]
    /\ UNCHANGED <<calls, relay, handler, contexted, authority, guard, clock, upstream>>

(* close: no request passes the condition any more; clients in use are closed. *)
CloseRelay ==
    /\ ~relay.closing
    /\ relay' = [relay EXCEPT !.closing = TRUE]
    /\ UNCHANGED <<grant, calls, handler, contexted, authority, guard, clock, upstream>>

(* The work is cancelled or superseded, under the locks the guard holds. *)
WithdrawAuthority ==
    /\ authority /\ guard = None
    /\ authority' = FALSE
    /\ UNCHANGED <<grant, calls, relay, handler, contexted, guard, clock, upstream>>

SetClock(t) ==
    /\ clock' = t
    /\ UNCHANGED <<grant, calls, relay, handler, contexted, authority, guard, upstream>>

RelayNext ==
    \/ \E r \in Requests :
          \/ TakePlace(r) \/ EnterGuard(r) \/ BeginCall(r) \/ SendUpstream(r)
          \/ ReadAnswer(r) \/ CheckAnswer(r) \/ Withdraw(r) \/ FinishRequest(r)
    \/ RevokeGrant \/ CloseRelay \/ WithdrawAuthority
    \/ \E t \in 0 .. MaxClock : SetClock(t)

RelaySpec == RelayInit /\ [][RelayNext]_relayVars

-----------------------------------------------------------------------------
(***************************************************************************)
(* Every request the provider received has its own committed call, at most *)
(* max_requests have one, and under a send guard the provider receives     *)
(* nothing once the authority of the work is gone.                         *)
(***************************************************************************)
SendsAreAuthorized ==
    /\ Cardinality(Recorded') <= MaxRequests
    /\ \A r \in upstream' \ upstream : calls[r] = "send_unknown" /\ (contexted => authority)

(* A recorded request of a measured relay failed otherwise than at the close of its client, or one met the expiry. *)
WentWrong(r) ==
    \/ /\ handler[r].pc = "done" /\ ~handler[r].passed /\ contexted /\ calls[r] # None
       /\ handler[r].reason # "CLIENT_CLOSE_FAILED"
    \/ handler[r].reason = "GRANT_EXPIRED"

(***************************************************************************)
(* Nothing is sent unrecorded or unasked, although the authority was       *)
(* checked several steps earlier; and what went wrong is not tried again:  *)
(* after a failed request, or one refused because the grant had expired,   *)
(* no call is begun, even if the revocation did not reach the journal or   *)
(* the clock is set back.  One failure is not of this kind: a request      *)
(* whose answer passed and whose client then could not be closed is        *)
(* recorded as failed, and the relay goes on serving.  Behaviour: _handle  *)
(* of the relay and the grant's journal.                                   *)
(***************************************************************************)
SendsAreBounded ==
    [][/\ SendsAreAuthorized
       /\ (\E r \in Requests : WentWrong(r)) => Recorded' = Recorded]_relayVars
==============================================================================
