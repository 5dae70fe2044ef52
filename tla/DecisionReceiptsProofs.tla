----------------------- MODULE DecisionReceiptsProofs -----------------------
(***************************************************************************)
(* DecisionReceipts, for any number of keys, payloads and threads: the     *)
(* revision counter loses no update and a receipt is never rewritten.      *)
(***************************************************************************)
EXTENDS DecisionReceipts, TLAPS

(* An accepted command's key was free: it had no receipt of either kind. *)
LEMMA AcceptedKeyIsFree ==
    ASSUME NEW k, NEW p, ~Answered(k, p), ~KeyTaken(k, p)
    PROVE  k \notin DOMAIN decisions /\ k \notin DOMAIN rejections
  BY DEF Answered, KeyTaken

(***************************************************************************)
(* Every table of submit_decision holds receipts of known commands, in     *)
(* every reachable state.                                                  *)
(***************************************************************************)
THEOREM TypeCorrect == Spec => []TypeOK
<1>1. Init => TypeOK
  BY ReceiptsAssumption DEF Init, TypeOK
<1>2. TypeOK /\ [Next]_vars => TypeOK'
  <2> SUFFICES ASSUME TypeOK, [Next]_vars PROVE TypeOK'
    OBVIOUS
  <2> USE ReceiptsAssumption
  <2>1. ASSUME NEW th \in Threads, NEW k \in Keys, NEW p \in Payloads, Accept(th, k, p)
        PROVE TypeOK'
    <3> DEFINE new == [payload |-> p, rev |-> head + 1]
    <3>1. head' \in 0 .. MaxHead /\ new \in [payload : Payloads, rev : 1 .. MaxHead]
      BY <2>1 DEF Accept, TypeOK
    <3>2. DOMAIN decisions' \subseteq Keys
      BY <2>1 DEF Put, Accept, TypeOK
    <3>3. decisions' \in [DOMAIN decisions' -> [payload : Payloads, rev : 1 .. MaxHead]]
      BY <2>1, <3>1 DEF Put, Accept, TypeOK
    <3> QED BY <2>1, <3>1, <3>2, <3>3 DEF Accept, TypeOK
  <2>2. ASSUME NEW th \in Threads, NEW k \in Keys, NEW p \in Payloads, Refuse(th, k, p)
        PROVE TypeOK'
    BY <2>2 DEF Refuse, TypeOK, Codes
  <2>3. ASSUME NEW th \in Threads, RecordRejection(th)
        PROVE TypeOK'
    <3> DEFINE r == refusing[th]
               row == [payload |-> r.payload, code |-> r.code]
    <3>1. r \in [key : Keys, payload : Payloads, code : Codes]
      BY <2>3 DEF RecordRejection, TypeOK
    <3>2. row \in [payload : Payloads, code : Codes] /\ r.key \in Keys
      BY <3>1
    <3>3. rejections' = rejections \/ rejections' = Put(rejections, r.key, row)
      BY <2>3 DEF RecordRejection
    <3>4. /\ DOMAIN rejections' \subseteq Keys
          /\ rejections' \in [DOMAIN rejections' -> [payload : Payloads, code : Codes]]
      BY <3>2, <3>3 DEF Put, TypeOK
    <3>5. refusing' \in [Threads -> [key : Keys, payload : Payloads, code : Codes] \union {None}]
      BY <2>3 DEF RecordRejection, TypeOK
    <3> QED BY <2>3, <3>4, <3>5 DEF RecordRejection, TypeOK
  <2>4. ASSUME NEW th \in Threads, LoseRefusal(th)
        PROVE TypeOK'
    BY <2>4 DEF LoseRefusal, TypeOK
  <2>5. CASE TasksMove
    BY <2>5 DEF TasksMove, TypeOK
  <2>6. CASE UNCHANGED vars
    BY <2>6 DEF vars, TypeOK
  <2> QED BY <2>1, <2>2, <2>3, <2>4, <2>5, <2>6 DEF Next, Submit
<1> QED BY <1>1, <1>2, PTL DEF Spec

-----------------------------------------------------------------------------
(* No receipt names a revision that does not exist yet. *)
RevisionsExist == \A k \in DOMAIN decisions : decisions[k].rev \in 1 .. head

(***************************************************************************)
(* Compare-and-set loses no update: each revision of the graph belongs to  *)
(* exactly one accepted command, made against the revision before it.      *)
(***************************************************************************)
THEOREM NoLostUpdate == Spec => []EveryRevisionHasOneDecision
<1> DEFINE IInv == RevisionsExist /\ EveryRevisionHasOneDecision
<1>1. Init => IInv
  BY DEF Init, RevisionsExist, EveryRevisionHasOneDecision
<1>2. TypeOK /\ IInv /\ [Next]_vars => IInv'
  <2> SUFFICES ASSUME TypeOK, IInv, [Next]_vars PROVE IInv'
    OBVIOUS
  <2>1. ASSUME NEW th \in Threads, NEW k \in Keys, NEW p \in Payloads, Accept(th, k, p)
        PROVE IInv'
    <3> DEFINE new == [payload |-> p, rev |-> head + 1]
    <3>1. k \notin DOMAIN decisions
      BY <2>1, AcceptedKeyIsFree DEF Accept
    <3>2. decisions' = Put(decisions, k, new) /\ head' = head + 1 /\ head \in Nat
      BY <2>1 DEF Accept, TypeOK
    <3>3. /\ DOMAIN decisions' = DOMAIN decisions \union {k}
          /\ decisions'[k] = new
          /\ \A j \in DOMAIN decisions : decisions'[j] = decisions[j]
      BY <3>1, <3>2 DEF Put
    <3>4. Expected[p] = head
      BY <2>1 DEF Accept, Fits
    <3>5. RevisionsExist'
      BY <3>2, <3>3 DEF RevisionsExist
    <3>6. EveryRevisionHasOneDecision'
      <4> SUFFICES ASSUME NEW r \in 1 .. head'
                   PROVE  \E i \in DOMAIN decisions' :
                             /\ decisions'[i].rev = r
                             /\ Expected[decisions'[i].payload] = r - 1
                             /\ \A j \in DOMAIN decisions' : decisions'[j].rev = r => j = i
        BY DEF EveryRevisionHasOneDecision
      <4>1. CASE r = head + 1
        <5>1. \A j \in DOMAIN decisions : decisions'[j].rev # r
          BY <3>2, <3>3, <4>1 DEF RevisionsExist
        <5>2. decisions'[k].rev = r /\ Expected[decisions'[k].payload] = r - 1
          BY <3>2, <3>3, <3>4, <4>1
        <5> QED BY <3>3, <5>1, <5>2
      <4>2. CASE r # head + 1
        <5>1. r \in 1 .. head
          BY <3>2, <4>2
        <5>2. PICK i \in DOMAIN decisions :
                 /\ decisions[i].rev = r
                 /\ Expected[decisions[i].payload] = r - 1
                 /\ \A j \in DOMAIN decisions : decisions[j].rev = r => j = i
          BY <5>1 DEF EveryRevisionHasOneDecision
        <5>3. decisions'[k].rev # r
          BY <3>3, <4>2
        <5> QED BY <3>3, <5>2, <5>3
      <4> QED BY <4>1, <4>2
    <3> QED BY <3>5, <3>6
  <2>2. CASE UNCHANGED <<head, decisions>>
    BY <2>2 DEF RevisionsExist, EveryRevisionHasOneDecision
  <2>3. (\E th \in Threads, k \in Keys, p \in Payloads : Accept(th, k, p))
        \/ UNCHANGED <<head, decisions>>
    BY DEF Next, Submit, Refuse, RecordRejection, LoseRefusal, TasksMove, vars
  <2> QED BY <2>1, <2>2, <2>3
<1> QED BY <1>1, <1>2, TypeCorrect, PTL DEF Spec

(***************************************************************************)
(* Receipts are final: neither an accepted nor a refused command's record  *)
(* is ever rewritten, and a key whose refusal is recorded accepts nothing  *)
(* afterwards.                                                             *)
(***************************************************************************)
THEOREM ReceiptsStand == Spec => ReceiptsAreFinal
<1> DEFINE Keep ==
      /\ \A k \in DOMAIN rejections :
            /\ k \in DOMAIN rejections' /\ rejections'[k] = rejections[k]
            /\ k \notin DOMAIN decisions => k \notin DOMAIN decisions'
      /\ \A k \in DOMAIN decisions :
            k \in DOMAIN decisions' /\ decisions'[k] = decisions[k]
<1>1. ASSUME [Next]_vars PROVE Keep \/ UNCHANGED vars
  <2>1. ASSUME NEW th \in Threads, NEW k \in Keys, NEW p \in Payloads, Accept(th, k, p)
        PROVE Keep
    <3>1. k \notin DOMAIN decisions /\ k \notin DOMAIN rejections
      BY <2>1, AcceptedKeyIsFree DEF Accept
    <3>2. /\ rejections' = rejections
          /\ decisions' = Put(decisions, k, [payload |-> p, rev |-> head + 1])
      BY <2>1 DEF Accept
    <3> QED BY <3>1, <3>2 DEF Put
  <2>2. ASSUME NEW th \in Threads, RecordRejection(th)
        PROVE Keep
    <3> DEFINE r == refusing[th]
    <3>1. decisions' = decisions
      BY <2>2 DEF RecordRejection
    <3>2. CASE r.key \in DOMAIN rejections
      BY <2>2, <3>1, <3>2 DEF RecordRejection
    <3>3. CASE r.key \notin DOMAIN rejections
      <4>1. rejections' = Put(rejections, r.key, [payload |-> r.payload, code |-> r.code])
        BY <2>2, <3>3 DEF RecordRejection
      <4> QED BY <3>1, <3>3, <4>1 DEF Put
    <3> QED BY <3>2, <3>3
  <2>3. CASE UNCHANGED <<decisions, rejections>>
    BY <2>3
  <2>4. \/ \E th \in Threads, k \in Keys, p \in Payloads : Accept(th, k, p)
        \/ \E th \in Threads : RecordRejection(th)
        \/ UNCHANGED <<decisions, rejections>>
    BY <1>1 DEF Next, Submit, Refuse, LoseRefusal, TasksMove, vars
  <2> QED BY <2>1, <2>2, <2>3, <2>4
<1> QED BY <1>1, PTL DEF Spec, ReceiptsAreFinal
=============================================================================
