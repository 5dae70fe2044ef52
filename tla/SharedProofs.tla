---------------------------- MODULE SharedProofs ----------------------------
(***************************************************************************)
(* Capacity store, delivery coordinator, conversations, task routing, task *)
(* executions and reviews, for any attempts, receipts, policies, revisions, *)
(* concurrent calls, clients, rulebooks, operations and budgets: the shared *)
(* quota is overspent by wrong estimates only, a Run delivers through one  *)
(* pull request, a client misses no event, what starts is what was routed, *)
(* and what a task or a reviewer does is owned by a claim that was current. *)
(***************************************************************************)
EXTENDS CapacityStore, DeliveryCoordinator, Conversations, TaskRouting, ReviewerExecutions, SumTheorems,
    TLAPS

-----------------------------------------------------------------------------
(***************************************************************************)
(* Capacity store.  What an attempt may cost within its estimate is its    *)
(* demand from the moment its effect passed the guard until its claim is   *)
(* reconciled, and what it spent of it otherwise.  A reading promises no   *)
(* more than the quota less the receipts it includes.                      *)
(***************************************************************************)
Live(a) == a \in sent /\ reservations[a].state \in {"active", "unknown"}

Exposure ==
    [a \in DOMAIN reservations |->
        IF Live(a) \/ spent[a] > reservations[a].demand THEN reservations[a].demand ELSE spent[a]]

ClaimFollows(a) ==
    /\ a \notin sent => spent[a] = 0
    /\ reservations[a].state \in {"reserved", "released", "expired"} => a \notin sent
    /\ Reported(ReceiptsOf(a)) <= spent[a]
    /\ reservations[a].state = "ended" => Reported(ReceiptsOf(a)) = spent[a]

ReadingFollows(m) == m.remaining <= Quota - Reported(m.covered)

ClaimsInv ==
    /\ CapacityTypeOK
    /\ IsFiniteSet(DOMAIN reservations) /\ IsFiniteSet(DOMAIN usage)
    /\ sent \subseteq DOMAIN reservations
    /\ \A a \in Admissions \ DOMAIN reservations : spent[a] = 0
    /\ \A a \in DOMAIN reservations : ClaimFollows(a)

CapacityInv ==
    /\ ClaimsInv
    /\ \A m \in readings : ReadingFollows(m)
    /\ obs # None => ReadingFollows(obs)
    /\ SumFunctionOnSet(Exposure, DOMAIN reservations) <= Quota

(* What receipts add up to. *)
LEMMA ReportedIsNat ==
    ClaimsInv => \A U \in SUBSET DOMAIN usage : IsFiniteSet(U) /\ Reported(U) \in Nat
<1> SUFFICES ASSUME ClaimsInv, NEW U \in SUBSET DOMAIN usage PROVE IsFiniteSet(U) /\ Reported(U) \in Nat
  OBVIOUS
<1> DEFINE amount == [u \in DOMAIN usage |-> usage[u].amount]
<1>1. IsFiniteSet(U)
  BY FS_Subset DEF ClaimsInv
<1>2. \A u \in U : amount[u] \in Nat
  BY DEF ClaimsInv, CapacityTypeOK, Receipt
<1> HIDE DEF amount
<1>3. SumFunctionOnSet(amount, U) \in Nat
  BY <1>1, <1>2, SumNat
<1> QED BY <1>1, <1>3 DEF Reported, amount

LEMMA ReceiptsBelong ==
    ASSUME NEW a
    PROVE  ReceiptsOf(a) \in SUBSET DOMAIN usage
  BY DEF ReceiptsOf

(* Every receipt belongs to one claim. *)
Shares == [a \in DOMAIN reservations |-> Reported(ReceiptsOf(a))]

LEMMA ReportedByClaim ==
    ASSUME ClaimsInv
    PROVE  Reported(DOMAIN usage) = SumFunctionOnSet(Shares, DOMAIN reservations)
<1> DEFINE amount == [u \in DOMAIN usage |-> usage[u].amount]
           key == [u \in DOMAIN usage |-> usage[u].admission]
           group == [a \in DOMAIN reservations |-> ReceiptsOf(a)]
           S == DOMAIN usage
           K == DOMAIN reservations
<1>1. IsFiniteSet(S) /\ IsFiniteSet(K)
  BY DEF ClaimsInv
<1>2. \A u \in S : key[u] \in K /\ amount[u] \in Int
  BY DEF ClaimsInv, CapacityTypeOK, Receipt
<1>3. \A a \in K : group[a] \subseteq S /\ \A u \in S : u \in group[a] <=> key[u] = a
  BY DEF ReceiptsOf
<1>4. \A a \in K : Shares[a] = SumFunctionOnSet(amount, group[a])
  BY DEF Shares, Reported
<1>5. Reported(DOMAIN usage) = SumFunctionOnSet(amount, S)
  BY DEF Reported
<1> HIDE DEF amount, key, group, S, K
<1>6. SumFunctionOnSet(Shares, K) = SumFunctionOnSet(amount, S)
  BY <1>1, <1>2, <1>3, <1>4, SumByKey
<1> QED BY <1>5, <1>6 DEF K

LEMMA SharesAreNat ==
    ASSUME ClaimsInv, NEW a \in DOMAIN reservations
    PROVE  Shares[a] \in Nat /\ Shares[a] = Reported(ReceiptsOf(a))
  BY ReportedIsNat, ReceiptsBelong DEF Shares

LEMMA ClaimTypes ==
    ASSUME ClaimsInv, NEW a \in DOMAIN reservations
    PROVE  /\ a \in Admissions /\ spent[a] \in Nat
           /\ reservations[a] \in Reservation
           /\ reservations[a].demand \in Nat /\ reservations[a].expires \in Nat
           /\ reservations[a].state \in {"reserved", "active", "unknown", "ended", "released", "expired"}
           /\ ClaimFollows(a) /\ a \in Admissions
           /\ Exposure[a] \in Nat /\ Excess[a] \in Nat /\ spent[a] <= Exposure[a] + Excess[a]
  BY DEF ClaimsInv, CapacityTypeOK, Reservation, Exposure, Excess, ClaimFollows

(* No more is reported than was consumed. *)
LEMMA ReportedIsSpent ==
    ASSUME ClaimsInv
    PROVE  Reported(DOMAIN usage) <= TotalSpent /\ TotalSpent \in Nat
<1> DEFINE K == DOMAIN reservations
<1>1. IsFiniteSet(K)
  BY DEF ClaimsInv
<1>2. \A a \in K : Shares[a] \in Nat /\ spent[a] \in Nat /\ Shares[a] <= spent[a]
  BY SharesAreNat, ClaimTypes DEF ClaimFollows
<1>3. Reported(DOMAIN usage) = SumFunctionOnSet(Shares, K)
  BY ReportedByClaim
<1>4. TotalSpent = SumFunctionOnSet(spent, K)
  BY DEF TotalSpent
<1> HIDE DEF K
<1>5. SumFunctionOnSet(Shares, K) <= SumFunctionOnSet(spent, K)
  BY <1>1, <1>2, SumMonotone
<1>6. SumFunctionOnSet(spent, K) \in Nat
  BY <1>1, <1>2, SumNat
<1> QED BY <1>3, <1>4, <1>5, <1>6

-----------------------------------------------------------------------------
(***************************************************************************)
(* The guard before the effect.  What the receipts leave open of a claim   *)
(* in its worst case is what the evaluation charges the held ones.         *)
(***************************************************************************)
Charge(a, others) ==
    [o \in DOMAIN reservations |->
        IF o = a THEN reservations[a].demand ELSE IF o \in others THEN FutureOf(o) ELSE 0]

LEMMA FutureIsNat ==
    ASSUME ClaimsInv, NEW a \in DOMAIN reservations
    PROVE  /\ FutureOf(a) \in Nat /\ reservations[a].demand <= FutureOf(a) + Shares[a]
           /\ FutureOf(a) + Shares[a] =
                IF Shares[a] > reservations[a].demand THEN Shares[a] ELSE reservations[a].demand
<1>1. reservations[a].demand \in Nat /\ Shares[a] \in Nat /\ Shares[a] = Reported(ReceiptsOf(a))
  BY ClaimTypes, SharesAreNat
<1> QED BY <1>1 DEF FutureOf

LEMMA ChargesAddUp ==
    ASSUME ClaimsInv, NEW a \in DOMAIN reservations,
           NEW others \in SUBSET DOMAIN reservations, a \notin others
    PROVE  /\ SumFunctionOnSet(Charge(a, others), DOMAIN reservations)
                = reservations[a].demand + SumFunction([o \in others |-> FutureOf(o)])
           /\ SumFunction([o \in others |-> FutureOf(o)]) \in Nat
<1> DEFINE K == DOMAIN reservations
           f == [o \in others |-> FutureOf(o)]
           g == Charge(a, others)
           counted == others \union {a}
           rest == K \ counted
<1>1. /\ IsFiniteSet(K) /\ others \subseteq K /\ a \in K /\ counted \subseteq K /\ rest \subseteq K
      /\ counted \intersect rest = {} /\ counted \union rest = K
  BY DEF ClaimsInv
<1>2. \A o \in others : f[o] \in Nat /\ g[o] = f[o]
  BY FutureIsNat DEF Charge
<1>3. g[a] = reservations[a].demand /\ g[a] \in Nat
  BY ClaimTypes DEF Charge
<1>4. \A o \in rest : g[o] = 0
  BY DEF Charge
<1>5. SumFunction(f) = SumFunctionOnSet(f, others)
  BY DEF SumFunction
<1> HIDE DEF K, f, g, rest, counted
<1>6. IsFiniteSet(others) /\ IsFiniteSet(counted) /\ IsFiniteSet(rest)
  BY <1>1, FS_Subset
<1>7. SumFunctionOnSet(f, others) = SumFunctionOnSet(g, others) /\ SumFunctionOnSet(f, others) \in Nat
  <2>1. SumFunctionOnSet(f, others) = SumFunctionOnSet(g, others)
    BY <1>2, <1>6, SumSame
  <2>2. SumFunctionOnSet(f, others) \in Nat
    BY <1>2, <1>6, SumNat
  <2> QED BY <2>1, <2>2
<1>8. SumFunctionOnSet(g, counted) = g[a] + SumFunctionOnSet(g, others)
  <2>1. IsFiniteSet(others) /\ a \notin others /\ g[a] \in Int /\ \A o \in others : g[o] \in Int
    BY <1>2, <1>3, <1>6
  <2>2. SumFunctionOnSet(g, others \union {a}) = g[a] + SumFunctionOnSet(g, others)
    BY ONLY <2>1, SumAdd
  <2> QED BY <2>2 DEF counted
<1>9. SumFunctionOnSet(g, rest) = 0
  BY <1>4, <1>6, SumZero
<1>10. SumFunctionOnSet(g, counted \union rest) = SumFunctionOnSet(g, counted) + SumFunctionOnSet(g, rest)
  <2>1. \A o \in counted \union rest : g[o] \in Int
    BY <1>2, <1>3, <1>4 DEF counted
  <2> QED BY <1>1, <1>6, <2>1, SumUnion
<1>11. SumFunctionOnSet(g, K) = g[a] + SumFunctionOnSet(f, others)
  <2>1. SumFunctionOnSet(g, K) = SumFunctionOnSet(g, counted) + SumFunctionOnSet(g, rest)
    BY <1>1, <1>10
  <2> QED BY <2>1, <1>3, <1>7, <1>8, <1>9
<1> QED BY <1>3, <1>5, <1>7, <1>11 DEF K, f, g

LEMMA ReportedSplits ==
    ASSUME ClaimsInv, NEW U \in SUBSET DOMAIN usage
    PROVE  Reported(DOMAIN usage) = Reported(U) + Reported(DOMAIN usage \ U)
<1> DEFINE amount == [u \in DOMAIN usage |-> usage[u].amount]
           D == DOMAIN usage
           W == D \ U
<1>1. IsFiniteSet(U) /\ IsFiniteSet(W) /\ U \intersect W = {} /\ U \union W = D
  BY ReportedIsNat
<1>2. \A u \in U \union W : amount[u] \in Int
  BY DEF ClaimsInv, CapacityTypeOK, Receipt
<1>3. \A V : Reported(V) = SumFunctionOnSet(amount, V)
  BY DEF Reported
<1> HIDE DEF amount, D, W
<1>4. SumFunctionOnSet(amount, U \union W) = SumFunctionOnSet(amount, U) + SumFunctionOnSet(amount, W)
  BY <1>1, <1>2, SumUnion
<1> QED BY <1>1, <1>3, <1>4 DEF D, W

(* A claim that passes the guard leaves room for all that is exposed, held and reported. *)
LEMMA EffectKeeps ==
    ASSUME CapacityInv, NEW a \in Admissions, Effect(a)
    PROVE  CapacityInv' /\ SumFunctionOnSet(Committed', DOMAIN reservations') <= Quota
<1> DEFINE K == DOMAIN reservations
           others == HeldClaims \ {a}
           g == Charge(a, others)
           d == reservations[a].demand
           total == SumFunction([o \in others |-> FutureOf(o)])
<1>1. /\ ClaimsInv /\ a \in K /\ a \notin sent
      /\ reservations[a].state = "active" /\ others \in SUBSET K /\ a \notin others
      /\ sent' = sent \union {a} /\ IsFiniteSet(K)
      /\ UNCHANGED <<now, policy, obs, readings, reservations, usage, spent>>
  BY DEF CapacityInv, ClaimsInv, Effect, HeldClaims
<1>2. obs # None /\ obs.remaining \in Int /\ obs.covered \in SUBSET DOMAIN usage
      /\ obs.remaining <= Quota - Reported(obs.covered)
  <2>1. obs # None
    BY DEF Effect, Admissible, ReadingFresh
  <2>2. obs \in Reading
    BY <1>1, <2>1 DEF ClaimsInv, CapacityTypeOK
  <2> QED BY <2>1, <2>2 DEF Reading, CapacityInv, ReadingFollows
<1>3. d <= obs.remaining - Uncovered - total
  <2>1. d <= obs.remaining - Uncovered - total - (IF reservations[a].lead THEN 0 ELSE policy.terms.leadReserve)
    BY DEF Effect, Admissible, Available
  <2>2. policy.terms.leadReserve \in Nat
    BY <1>1, CapacityAssumption DEF ClaimsInv, CapacityTypeOK, Policy
  <2>3. total \in Nat /\ Uncovered \in Nat /\ d \in Nat
    BY <1>1, ChargesAddUp, ReportedIsNat, ClaimTypes DEF Uncovered
  <2> HIDE DEF total, d
  <2> QED BY <1>2, <2>1, <2>2, <2>3
<1>4. Reported(DOMAIN usage) = Reported(obs.covered) + Uncovered
  BY <1>1, <1>2, ReportedSplits DEF Uncovered
<1>5. /\ SumFunctionOnSet(g, K) = d + total /\ total \in Nat /\ d \in Nat
      /\ Reported(obs.covered) \in Nat /\ Uncovered \in Nat /\ Quota \in Nat
  BY <1>1, <1>2, ChargesAddUp, ReportedIsNat, ClaimTypes, CapacityAssumption DEF Uncovered
<1> DEFINE h == [o \in K |-> g[o] + Shares[o]]
<1>6. \A o \in K : /\ g[o] \in Nat /\ Shares[o] \in Nat /\ h[o] = g[o] + Shares[o]
  <2> SUFFICES ASSUME NEW o \in K PROVE g[o] \in Nat /\ Shares[o] \in Nat
    OBVIOUS
  <2>1. reservations[a].demand \in Nat /\ FutureOf(o) \in Nat /\ Shares[o] \in Nat
    BY <1>1, ClaimTypes, FutureIsNat, SharesAreNat
  <2> QED BY <2>1 DEF Charge
<1>7. \A o \in K : Exposure'[o] \in Nat /\ Exposure'[o] <= h[o]
  <2> SUFFICES ASSUME NEW o \in K PROVE Exposure'[o] \in Nat /\ Exposure'[o] <= g[o] + Shares[o]
    OBVIOUS
  <2>1. /\ reservations[o].demand \in Nat /\ spent[o] \in Nat /\ FutureOf(o) \in Nat /\ Shares[o] \in Nat
        /\ reservations[o].demand <= FutureOf(o) + Shares[o] /\ Shares[o] = Reported(ReceiptsOf(o))
        /\ reservations[o].state \in {"reserved", "active", "unknown", "ended", "released", "expired"}
        /\ ClaimFollows(o)
    BY <1>1, ClaimTypes, FutureIsNat, SharesAreNat
  <2>2. /\ Exposure'[o] = IF \/ o \in sent' /\ reservations[o].state \in {"active", "unknown"}
                            \/ spent[o] > reservations[o].demand
                         THEN reservations[o].demand ELSE spent[o]
    BY <1>1 DEF Exposure, Live
  <2>3. CASE o = a
    <3>1. g[o] = d
      BY <1>1, <2>3 DEF Charge
    <3> QED BY <1>1, <2>1, <2>2, <2>3, <3>1
  <2>4. CASE o # a /\ reservations[o].state \in {"active", "unknown"}
    <3>1. o \in others
      BY <2>4 DEF HeldClaims
    <3>2. g[o] = FutureOf(o)
      BY <2>4, <3>1 DEF Charge
    <3> HIDE DEF g
    <3> QED BY <2>1, <2>2, <3>2 DEF ClaimFollows
  <2>5. CASE o # a /\ reservations[o].state \notin {"active", "unknown"}
    <3>1. g[o] \in Nat
      BY <1>6
    <3> HIDE DEF g
    <3>2. spent[o] = 0 \/ spent[o] = Shares[o]
      BY <2>1, <2>5 DEF ClaimFollows
    <3> QED BY <2>1, <2>2, <2>5, <3>1, <3>2
  <2> QED BY <2>3, <2>4, <2>5
<1>8. Reported(DOMAIN usage) = SumFunctionOnSet(Shares, K)
  BY <1>1, ReportedByClaim
<1> DEFINE e == Exposure'
<1>9. SumFunctionOnSet(e, K) <= SumFunctionOnSet(h, K)
      /\ SumFunctionOnSet(h, K) = SumFunctionOnSet(g, K) + SumFunctionOnSet(Shares, K)
      /\ SumFunctionOnSet(e, K) \in Nat
  <2> HIDE DEF e, h, g, K
  <2>1. IsFiniteSet(K) /\ \A o \in K : e[o] \in Nat /\ h[o] \in Nat /\ e[o] <= h[o]
    BY <1>1, <1>6, <1>7 DEF e
  <2>2. SumFunctionOnSet(e, K) <= SumFunctionOnSet(h, K)
    BY <2>1, SumMonotone
  <2>3. SumFunctionOnSet(h, K) = SumFunctionOnSet(g, K) + SumFunctionOnSet(Shares, K)
    BY <1>1, <1>6, SumPlus
  <2>4. SumFunctionOnSet(e, K) \in Nat
    BY <2>1, SumNat
  <2> QED BY <2>2, <2>3, <2>4
<1>10. SumFunctionOnSet(Exposure', K) <= Quota
  <2>1. SumFunctionOnSet(e, K) <= Quota
    <3> HIDE DEF e, h, g, K, d, total
    <3> QED BY <1>2, <1>3, <1>4, <1>5, <1>8, <1>9
  <2> QED BY <2>1
<1> DEFINE c == Committed'
<1>13. \A o \in K : c[o] \in Nat /\ c[o] <= h[o]
  <2> SUFFICES ASSUME NEW o \in K PROVE c[o] \in Nat /\ c[o] <= g[o] + Shares[o]
    OBVIOUS
  <2>1. /\ reservations[o].demand \in Nat /\ spent[o] \in Nat /\ FutureOf(o) \in Nat /\ Shares[o] \in Nat
        /\ FutureOf(o) + Shares[o] =
              (IF Shares[o] > reservations[o].demand THEN Shares[o] ELSE reservations[o].demand)
        /\ Shares[o] = Reported(ReceiptsOf(o))
        /\ reservations[o].state \in {"reserved", "active", "unknown", "ended", "released", "expired"}
        /\ ClaimFollows(o)
    BY <1>1, ClaimTypes, FutureIsNat, SharesAreNat
  <2>2. c[o] = IF o \notin HeldClaims THEN spent[o]
               ELSE IF Shares[o] > reservations[o].demand THEN Shares[o] ELSE reservations[o].demand
    <3>1. Reported(ReceiptsOf(o))' = Shares[o] /\ HeldClaims' = HeldClaims
      BY <1>1, <2>1 DEF Reported, ReceiptsOf, HeldClaims
    <3> QED BY <1>1, <3>1 DEF Committed
  <2>3. CASE o = a
    <3>1. g[o] = d /\ a \in HeldClaims
      BY <1>1, <2>3 DEF Charge, HeldClaims
    <3> QED BY <2>1, <2>2, <2>3, <3>1
  <2>4. CASE o # a /\ o \in HeldClaims
    <3>1. g[o] = FutureOf(o)
      BY <2>4 DEF Charge
    <3> HIDE DEF g, c
    <3> QED BY <2>1, <2>2, <2>4, <3>1
  <2>5. CASE o # a /\ o \notin HeldClaims
    <3>1. g[o] \in Nat /\ reservations[o].state \notin {"active", "unknown"}
      BY <1>6, <2>5 DEF HeldClaims
    <3> HIDE DEF g, c
    <3>2. spent[o] = 0 \/ spent[o] = Shares[o]
      BY <2>1, <3>1 DEF ClaimFollows
    <3> QED BY <2>1, <2>2, <2>5, <3>1, <3>2
  <2> QED BY <2>3, <2>4, <2>5
<1>14. SumFunctionOnSet(Committed', DOMAIN reservations') <= Quota
  <2>1. SumFunctionOnSet(c, K) <= SumFunctionOnSet(h, K) /\ SumFunctionOnSet(c, K) \in Nat
    <3> HIDE DEF c, h, g, K
    <3>1. IsFiniteSet(K) /\ \A o \in K : c[o] \in Nat /\ h[o] \in Nat /\ c[o] <= h[o]
      BY <1>1, <1>6, <1>13
    <3>2. SumFunctionOnSet(c, K) <= SumFunctionOnSet(h, K)
      BY <3>1, SumMonotone
    <3>3. SumFunctionOnSet(c, K) \in Nat
      BY <3>1, SumNat
    <3> QED BY <3>2, <3>3
  <2>2. SumFunctionOnSet(c, K) <= Quota
    <3> HIDE DEF c, h, g, K, d, total
    <3> QED BY <1>2, <1>3, <1>4, <1>5, <1>8, <1>9, <2>1
  <2> QED BY <1>1, <2>2
<1>11. ClaimsInv'
  <2>1. CapacityTypeOK'
    BY <1>1 DEF ClaimsInv, CapacityTypeOK, Receipt, Reading
  <2>2. \A o \in K : ClaimFollows(o)'
    BY <1>1 DEF ClaimsInv, ClaimFollows, Reported, ReceiptsOf
  <2> QED BY <1>1, <2>1, <2>2 DEF ClaimsInv
<1>12. (\A m \in readings : ReadingFollows(m))' /\ (obs # None => ReadingFollows(obs))'
  BY <1>1 DEF CapacityInv, ReadingFollows, Reported
<1> QED BY <1>1, <1>10, <1>11, <1>12, <1>14 DEF CapacityInv

(* The provider charges a claim that is exposed to its demand. *)
LEMMA ConsumeKeeps ==
    ASSUME CapacityInv, NEW a \in Admissions, Consume(a)
    PROVE  CapacityInv'
<1>1. /\ ClaimsInv /\ a \in DOMAIN reservations /\ Live(a)
      /\ reservations[a].state \in {"active", "unknown"}
      /\ spent' = [spent EXCEPT ![a] = @ + 1]
      /\ UNCHANGED <<now, policy, obs, readings, reservations, usage, sent>>
  BY DEF CapacityInv, ClaimsInv, Consume, Live
<1>2. spent \in [Admissions -> Nat] /\ spent' \in [Admissions -> Nat] /\ spent'[a] = spent[a] + 1
      /\ \A o \in Admissions \ {a} : spent'[o] = spent[o]
  BY <1>1 DEF ClaimsInv, CapacityTypeOK
<1>3. Exposure' = Exposure
  <2>1. \A o \in DOMAIN reservations : o # a => spent'[o] = spent[o]
    BY <1>1, <1>2, ClaimTypes
  <2>2. \A o \in DOMAIN reservations :
          (IF Live(o)' \/ spent'[o] > reservations'[o].demand THEN reservations'[o].demand ELSE spent'[o])
             = (IF Live(o) \/ spent[o] > reservations[o].demand THEN reservations[o].demand ELSE spent[o])
    BY <1>1, <2>1 DEF Live
  <2> QED BY <1>1, <2>2 DEF Exposure
<1>4. ClaimsInv'
  <2>1. CapacityTypeOK'
    BY <1>1, <1>2 DEF ClaimsInv, CapacityTypeOK, Receipt, Reading
  <2>2. ASSUME NEW o \in DOMAIN reservations PROVE ClaimFollows(o)'
    <3>1. /\ o \in Admissions /\ spent[o] \in Nat /\ ClaimFollows(o) /\ reservations[o].demand \in Nat
          /\ Shares[o] \in Nat /\ Shares[o] = Reported(ReceiptsOf(o))
      BY <1>1, ClaimTypes, SharesAreNat
    <3>2. Reported(ReceiptsOf(o))' = Reported(ReceiptsOf(o))
      BY <1>1 DEF Reported, ReceiptsOf
    <3>3. CASE o = a
      BY <1>1, <1>2, <3>1, <3>2, <3>3 DEF ClaimFollows, Live
    <3>4. CASE o # a
      BY <1>1, <1>2, <3>1, <3>2, <3>4 DEF ClaimFollows
    <3> QED BY <3>3, <3>4
  <2> QED BY <1>1, <1>2, <2>1, <2>2 DEF ClaimsInv
<1>5. (\A m \in readings : ReadingFollows(m))' /\ (obs # None => ReadingFollows(obs))'
  BY <1>1 DEF CapacityInv, ReadingFollows, Reported
<1> QED BY <1>1, <1>3, <1>4, <1>5 DEF CapacityInv

(* A receipt is new: no reading includes it, and it reports what was consumed before. *)
LEMMA RecordReceiptKeeps ==
    ASSUME CapacityInv, NEW u \in Receipts, NEW a \in Admissions, NEW n \in Demands,
           RecordReceipt(u, a, n)
    PROVE  CapacityInv'
<1> DEFINE D == DOMAIN usage
           f == [v \in DOMAIN usage |-> usage[v].amount]
           g == [v \in DOMAIN usage' |-> usage'[v].amount]
           row == [admission |-> a, amount |-> n]
<1>1. /\ ClaimsInv /\ u \notin D /\ a \in DOMAIN reservations /\ n \in Nat /\ n > 0 /\ IsFiniteSet(D)
      /\ n + Reported(ReceiptsOf(a)) <= spent[a] /\ usage' = WithRow(usage, u, row)
      /\ UNCHANGED <<now, policy, obs, readings, reservations, spent, sent>>
  BY CapacityAssumption DEF CapacityInv, ClaimsInv, RecordReceipt
<1>2. /\ DOMAIN usage' = D \union {u} /\ usage'[u] = row /\ \A v \in D : usage'[v] = usage[v]
      /\ usage' \in [D \union {u} -> Receipt] /\ row \in Receipt
  BY <1>1 DEF WithRow, ClaimsInv, CapacityTypeOK, Receipt
<1>3. /\ \A v \in D : g[v] = f[v] /\ f[v] \in Nat
      /\ g[u] = n
  BY <1>1, <1>2 DEF ClaimsInv, CapacityTypeOK, Receipt
<1>4. \A U : Reported(U) = SumFunctionOnSet(f, U) /\ Reported(U)' = SumFunctionOnSet(g, U)
  BY DEF Reported
<1>5. ASSUME NEW U \in SUBSET D PROVE Reported(U)' = Reported(U)
  <2>1. IsFiniteSet(U) /\ \A v \in U : g[v] = f[v]
    BY <1>1, <1>3, FS_Subset
  <2> HIDE DEF f, g
  <2>2. SumFunctionOnSet(g, U) = SumFunctionOnSet(f, U)
    BY <2>1, SumSame
  <2> QED BY <1>4, <2>2
<1>6. ReceiptsOf(a)' = ReceiptsOf(a) \union {u} /\ \A o \in DOMAIN reservations \ {a} : ReceiptsOf(o)' = ReceiptsOf(o)
  BY <1>1, <1>2 DEF ReceiptsOf
<1>7. Reported(ReceiptsOf(a))' = n + Reported(ReceiptsOf(a))
  <2> DEFINE R == ReceiptsOf(a)
  <2>1. IsFiniteSet(R) /\ u \notin R /\ g[u] \in Int /\ \A v \in R : g[v] \in Int
    BY <1>1, <1>3, ReportedIsNat, ReceiptsBelong
  <2>2. R \in SUBSET D
    BY ReceiptsBelong
  <2> HIDE DEF g, f, R
  <2>3. SumFunctionOnSet(g, R \union {u}) = g[u] + SumFunctionOnSet(g, R)
    BY <2>1, SumAdd
  <2>4. SumFunctionOnSet(g, R) = Reported(R)
    BY <1>4, <1>5, <2>2
  <2>5. Reported(ReceiptsOf(a))' = SumFunctionOnSet(g, R \union {u})
    BY <1>6 DEF Reported, R, g
  <2> QED BY <1>3, <2>3, <2>4, <2>5 DEF R
<1>8. ClaimsInv'
  <2>1. CapacityTypeOK'
    <3>1. usage' \in [DOMAIN usage' -> Receipt'] /\ Reading \subseteq Reading'
      BY <1>1, <1>2 DEF Receipt, Reading
    <3> QED BY <1>1, <3>1 DEF ClaimsInv, CapacityTypeOK
  <2>2. ASSUME NEW o \in DOMAIN reservations PROVE ClaimFollows(o)'
    <3>1. /\ ClaimFollows(o) /\ spent[o] \in Nat
          /\ Shares[o] \in Nat /\ Shares[o] = Reported(ReceiptsOf(o))
      BY <1>1, ClaimTypes, SharesAreNat
    <3>2. CASE o = a
      BY <1>1, <1>7, <3>1, <3>2 DEF ClaimFollows
    <3>3. CASE o # a
      <4>1. Reported(ReceiptsOf(o))' = Reported(ReceiptsOf(o))
        <5>1. ReceiptsOf(o) \in SUBSET D /\ ReceiptsOf(o)' = ReceiptsOf(o)
          BY <1>6, <3>3, ReceiptsBelong
        <5>2. Reported(ReceiptsOf(o))' = SumFunctionOnSet(g, ReceiptsOf(o))
          BY <5>1 DEF Reported
        <5> QED BY <1>4, <1>5, <5>1, <5>2
      <4> QED BY <1>1, <3>1, <4>1 DEF ClaimFollows
    <3> QED BY <3>2, <3>3
  <2>3. IsFiniteSet(DOMAIN usage')
    BY <1>1, <1>2, FS_AddElement
  <2> QED BY <1>1, <2>1, <2>2, <2>3 DEF ClaimsInv
<1>9. ASSUME NEW m \in Reading, ReadingFollows(m) PROVE ReadingFollows(m)'
  <2>1. m.covered \in SUBSET D
    BY DEF Reading
  <2>2. Reported(m.covered)' = Reported(m.covered)
    BY <1>5, <2>1
  <2> QED BY <1>9, <2>2 DEF ReadingFollows
<1>10. (\A m \in readings : ReadingFollows(m))' /\ (obs # None => ReadingFollows(obs))'
  BY <1>1, <1>9 DEF CapacityInv, ClaimsInv, CapacityTypeOK
<1>11. Exposure' = Exposure
  BY <1>1 DEF Exposure, Live
<1> QED BY <1>1, <1>8, <1>10, <1>11 DEF CapacityInv

-----------------------------------------------------------------------------
(***************************************************************************)
(* Steps that write reservations: a claim may be added, and a claim moves  *)
(* without becoming live, and ends only as the evidence says.              *)
(***************************************************************************)
ClaimMoves(a) ==
    /\ reservations'[a].demand = reservations[a].demand
    /\ reservations'[a].state \in {"reserved", "released", "expired"} => a \notin sent
    /\ reservations'[a].state = "ended" => Reported(ReceiptsOf(a)) = spent[a]
    /\ a \in sent /\ reservations'[a].state \in {"active", "unknown"} =>
          reservations[a].state \in {"active", "unknown"}

LEMMA ClaimsMove ==
    ASSUME CapacityInv, NEW new \in Admissions,
           DOMAIN reservations' = DOMAIN reservations \union {new},
           reservations' \in [DOMAIN reservations' -> Reservation],
           new \notin DOMAIN reservations => reservations'[new].state = "reserved",
           \A a \in DOMAIN reservations : ClaimMoves(a),
           UNCHANGED <<now, policy, obs, readings, usage, spent, sent>>
    PROVE  CapacityInv'
<1> DEFINE K == DOMAIN reservations
           e == Exposure
           h == Exposure'
<1>1. ClaimsInv /\ IsFiniteSet(K) /\ IsFiniteSet(K \union {new})
  BY FS_AddElement DEF CapacityInv, ClaimsInv
<1>2. \A U : Reported(U)' = Reported(U) /\ ReceiptsOf(U)' = ReceiptsOf(U)
  BY DEF Reported, ReceiptsOf
<1>3. new \notin K => /\ new \notin sent /\ spent[new] = 0 /\ reservations'[new].demand \in Nat
                     /\ ReceiptsOf(new) = {} /\ Reported(ReceiptsOf(new)) = 0
  <2> SUFFICES ASSUME new \notin K
               PROVE  /\ new \notin sent /\ spent[new] = 0 /\ reservations'[new].demand \in Nat
                      /\ ReceiptsOf(new) = {} /\ Reported(ReceiptsOf(new)) = 0
    OBVIOUS
  <2>1. new \notin sent /\ spent[new] = 0
    BY <1>1 DEF ClaimsInv
  <2>2. reservations'[new].demand \in Nat
    BY DEF Reservation
  <2>3. ReceiptsOf(new) = {}
    BY <1>1 DEF ReceiptsOf, ClaimsInv, CapacityTypeOK, Receipt
  <2> QED BY <2>1, <2>2, <2>3, SumEmpty DEF Reported
<1>4. ClaimsInv'
  <2>1. CapacityTypeOK'
    <3>1. Receipt \subseteq Receipt' /\ Reading' = Reading
      BY DEF Receipt, Reading
    <3>2. DOMAIN reservations' \subseteq Admissions
      BY <1>1 DEF ClaimsInv, CapacityTypeOK
    <3> QED BY <1>1, <3>1, <3>2 DEF ClaimsInv, CapacityTypeOK
  <2>2. ASSUME NEW o \in K \union {new} PROVE ClaimFollows(o)'
    <3>1. CASE o \in K
      <4>1. ClaimFollows(o)
        BY <1>1, <3>1 DEF ClaimsInv
      <4> QED BY <1>2, <3>1, <4>1 DEF ClaimFollows, ClaimMoves
    <3>2. CASE o \notin K
      BY <1>2, <1>3, <2>2, <3>2 DEF ClaimFollows
    <3> QED BY <3>1, <3>2
  <2> QED BY <1>1, <2>1, <2>2 DEF ClaimsInv
<1>5. \A o \in K : e[o] \in Nat /\ h[o] \in Nat /\ h[o] <= e[o]
  <2> SUFFICES ASSUME NEW o \in K PROVE e[o] \in Nat /\ h[o] \in Nat /\ h[o] <= e[o]
    OBVIOUS
  <2>1. /\ reservations[o].demand \in Nat /\ spent[o] \in Nat /\ ClaimFollows(o) /\ e[o] \in Nat
    BY <1>1, ClaimTypes
  <2>2. h[o] = IF Live(o)' \/ spent[o] > reservations[o].demand THEN reservations[o].demand ELSE spent[o]
    BY DEF Exposure, ClaimMoves
  <2>3. Live(o)' => Live(o)
    BY DEF Live, ClaimMoves
  <2>4. e[o] = IF Live(o) \/ spent[o] > reservations[o].demand THEN reservations[o].demand ELSE spent[o]
    BY DEF Exposure
  <2> HIDE DEF e, h
  <2> QED BY <2>1, <2>2, <2>3, <2>4 DEF ClaimFollows
<1>6. new \notin K => h[new] = 0
  BY <1>3 DEF Exposure, Live
<1>7. SumFunctionOnSet(e, K) <= Quota
  BY DEF CapacityInv
<1>8. SumFunctionOnSet(h, K \union {new}) <= Quota
  <2> HIDE DEF e, h, K
  <2>1. SumFunctionOnSet(h, K) <= SumFunctionOnSet(e, K)
    BY <1>1, <1>5, SumMonotone
  <2>2. SumFunctionOnSet(h, K) \in Nat /\ SumFunctionOnSet(e, K) \in Nat
    <3>1. SumFunctionOnSet(h, K) \in Nat
      BY <1>1, <1>5, SumNat
    <3>2. SumFunctionOnSet(e, K) \in Nat
      BY <1>1, <1>5, SumNat
    <3> QED BY <3>1, <3>2
  <2>3. SumFunctionOnSet(h, K \union {new}) = SumFunctionOnSet(h, K)
    <3>1. CASE new \in K
      <4>1. K \union {new} = K
        BY <3>1
      <4> QED BY <4>1
    <3>2. CASE new \notin K
      <4>1. SumFunctionOnSet(h, K \union {new}) = h[new] + SumFunctionOnSet(h, K)
        BY <1>1, <1>5, <1>6, <3>2, SumAdd
      <4> QED BY <1>6, <2>2, <3>2, <4>1
    <3> QED BY <3>1, <3>2
  <2> QED BY <1>7, <2>1, <2>2, <2>3, CapacityAssumption
<1>9. (\A m \in readings : ReadingFollows(m))' /\ (obs # None => ReadingFollows(obs))'
  BY <1>2 DEF CapacityInv, ReadingFollows
<1> QED BY <1>4, <1>8, <1>9 DEF CapacityInv

(* What the sweep writes. *)
LEMMA SweptClaims ==
    ASSUME ClaimsInv
    PROVE  /\ Swept \in [DOMAIN reservations -> Reservation]
           /\ \A a \in DOMAIN reservations :
                 /\ Swept[a].demand = reservations[a].demand
                 /\ \/ Swept[a].state = reservations[a].state
                    \/ reservations[a].state = "reserved" /\ Swept[a].state = "expired"
                 /\ reservations[a].state # "reserved" => Swept[a] = reservations[a]
<1> SUFFICES ASSUME NEW a \in DOMAIN reservations
             PROVE  /\ Swept[a] \in Reservation
                    /\ Swept[a].demand = reservations[a].demand
                    /\ \/ Swept[a].state = reservations[a].state
                       \/ reservations[a].state = "reserved" /\ Swept[a].state = "expired"
                    /\ reservations[a].state # "reserved" => Swept[a] = reservations[a]
  BY DEF Swept
<1>1. reservations[a] \in Reservation
  BY ClaimTypes
<1>2. /\ [reservations[a] EXCEPT !.state = "expired"] \in Reservation
      /\ [reservations[a] EXCEPT !.state = "expired"].demand = reservations[a].demand
      /\ [reservations[a] EXCEPT !.state = "expired"].state = "expired"
  BY <1>1 DEF Reservation
<1> DEFINE row == [reservations[a] EXCEPT !.state = "expired"]
<1>3. Swept[a] = IF reservations[a].state = "reserved" /\ reservations[a].expires <= now
                   THEN row ELSE reservations[a]
  BY DEF Swept
<1> HIDE DEF row
<1> QED BY <1>1, <1>2, <1>3 DEF row

LEMMA StateWritten ==
    ASSUME NEW r \in Reservation,
           NEW s \in {"reserved", "active", "unknown", "ended", "released", "expired"}
    PROVE  /\ [r EXCEPT !.state = s] \in Reservation
           /\ [r EXCEPT !.state = s].state = s /\ [r EXCEPT !.state = s].demand = r.demand
  BY DEF Reservation

(* The sweep moves claims. *)
LEMMA SweepMoves ==
    ASSUME ClaimsInv, NEW a \in DOMAIN reservations, reservations'[a] = Swept[a]
    PROVE  ClaimMoves(a)
<1>1. /\ Swept[a].demand = reservations[a].demand
      /\ \/ Swept[a].state = reservations[a].state
         \/ reservations[a].state = "reserved" /\ Swept[a].state = "expired"
      /\ ClaimFollows(a)
  BY SweptClaims, ClaimTypes
<1> QED BY <1>1 DEF ClaimMoves, ClaimFollows

(* A reserved claim is swept and moves on: it was never sent. *)
LEMMA ReservedMoves ==
    ASSUME CapacityInv, NEW a \in DOMAIN reservations, reservations[a].state = "reserved",
           NEW s \in {"active", "released"},
           \/ reservations' = Swept
           \/ reservations' = [Swept EXCEPT ![a].state = s],
           UNCHANGED <<now, policy, obs, readings, usage, spent, sent>>
    PROVE  CapacityInv'
<1> DEFINE row == [Swept[a] EXCEPT !.state = s]
<1>1. ClaimsInv /\ Swept \in [DOMAIN reservations -> Reservation] /\ a \in Admissions /\ a \notin sent
  BY SweptClaims, ClaimTypes DEF CapacityInv, ClaimFollows
<1>2. row \in Reservation /\ row.state = s /\ row.demand = reservations[a].demand
  <2>1. Swept[a] \in Reservation /\ Swept[a].demand = reservations[a].demand
    BY <1>1, SweptClaims
  <2>2. s \in {"reserved", "active", "unknown", "ended", "released", "expired"}
    OBVIOUS
  <2> QED BY <2>1, <2>2, StateWritten
<1>3. reservations' = Swept \/ reservations' = [Swept EXCEPT ![a] = row]
  OBVIOUS
<1> HIDE DEF row
<1>4. DOMAIN reservations' = DOMAIN reservations \union {a} /\ reservations' \in [DOMAIN reservations' -> Reservation]
  BY <1>1, <1>2, <1>3
<1>5. ASSUME NEW o \in DOMAIN reservations PROVE ClaimMoves(o)
  <2>1. CASE reservations'[o] = Swept[o]
    BY <1>1, <2>1, SweepMoves
  <2>2. CASE o = a /\ reservations'[o] = row
    BY <1>1, <1>2, <2>2 DEF ClaimMoves
  <2> QED BY <1>1, <1>3, <2>1, <2>2
<1> QED BY <1>1, <1>4, <1>5, ClaimsMove

LEMMA AdmitKeeps ==
    ASSUME CapacityInv, NEW a \in Admissions, NEW d \in Demands, NEW lead \in BOOLEAN,
           Admit(a, d, lead)
    PROVE  CapacityInv'
<1> DEFINE row == [state |-> "reserved", demand |-> d, lead |-> lead,
                   revision |-> policy.revision, expires |-> now + Duration]
<1>1. /\ ClaimsInv /\ a \notin DOMAIN reservations /\ reservations' = WithRow(Swept, a, row)
      /\ UNCHANGED <<now, policy, obs, readings, usage, spent, sent>>
  BY DEF CapacityInv, Admit
<1>2. row \in Reservation /\ row.state = "reserved"
  BY <1>1, CapacityAssumption DEF Reservation, ClaimsInv, CapacityTypeOK
<1>3. Swept \in [DOMAIN reservations -> Reservation]
  BY <1>1, SweptClaims
<1> HIDE DEF row
<1>4. /\ DOMAIN reservations' = DOMAIN reservations \union {a} /\ reservations'[a] = row
      /\ reservations' \in [DOMAIN reservations' -> Reservation]
      /\ \A o \in DOMAIN reservations : reservations'[o] = Swept[o]
  BY <1>1, <1>2, <1>3 DEF WithRow
<1>5. \A o \in DOMAIN reservations : ClaimMoves(o)
  BY <1>1, <1>4, SweepMoves
<1> QED BY <1>1, <1>2, <1>4, <1>5, ClaimsMove

LEMMA ActivateKeeps ==
    ASSUME CapacityInv, NEW a \in Admissions, Activate(a) PROVE CapacityInv'
  BY ReservedMoves DEF Activate

LEMMA CancelKeeps ==
    ASSUME CapacityInv, NEW a \in Admissions, CancelUnactivated(a) PROVE CapacityInv'
  BY ReservedMoves DEF CancelUnactivated

LEMMA ReconcileKeeps ==
    ASSUME CapacityInv, NEW a \in Admissions, NEW n \in BOOLEAN, NEW c \in BOOLEAN,
           ReconcileClaim(a, n, c)
    PROVE  CapacityInv'
<1> DEFINE s == IF n THEN "released" ELSE IF c THEN "ended" ELSE "unknown"
           row == [reservations[a] EXCEPT !.state = s]
<1>1. /\ ClaimsInv /\ a \in DOMAIN reservations
      /\ reservations[a].state \in {"reserved", "active", "unknown"}
      /\ n => a \notin sent
      /\ ~n => reservations[a].state # "reserved"
      /\ c => Reported(ReceiptsOf(a)) = spent[a]
      /\ reservations' = [reservations EXCEPT ![a] = row]
      /\ UNCHANGED <<now, policy, obs, readings, usage, spent, sent>>
  BY DEF CapacityInv, ReconcileClaim
<1>2. row \in Reservation /\ row.state = s /\ row.demand = reservations[a].demand
  <2>1. reservations[a] \in Reservation
    BY <1>1, ClaimTypes
  <2>2. s \in {"reserved", "active", "unknown", "ended", "released", "expired"}
    OBVIOUS
  <2> HIDE DEF s
  <2> QED BY <2>1, <2>2, StateWritten
<1> HIDE DEF row
<1>3. reservations \in [DOMAIN reservations -> Reservation]
  BY <1>1 DEF ClaimsInv, CapacityTypeOK
<1>4. DOMAIN reservations' = DOMAIN reservations \union {a} /\ reservations' \in [DOMAIN reservations' -> Reservation]
  BY <1>1, <1>2, <1>3
<1>5. ASSUME NEW o \in DOMAIN reservations PROVE ClaimMoves(o)
  <2>1. CASE o = a
    BY <1>1, <1>2, <2>1 DEF ClaimMoves
  <2>2. CASE o # a
    <3>1. reservations'[o] = reservations[o] /\ ClaimFollows(o)
      BY <1>1, <2>2, ClaimTypes
    <3> QED BY <3>1 DEF ClaimMoves, ClaimFollows
  <2> QED BY <2>1, <2>2
<1> QED BY <1>1, <1>4, <1>5, ClaimsMove

-----------------------------------------------------------------------------
(* Steps of the clock, the policy, the failures and the readings. *)
LEMMA ReadingsMove ==
    ASSUME CapacityInv, now' \in Nat, policy' \in [revision : Nat, terms : Policies],
           UNCHANGED <<reservations, usage, spent, sent>>,
           \A m \in readings' : m \in Reading /\ ReadingFollows(m),
           obs' # None => obs' \in Reading /\ ReadingFollows(obs')
    PROVE  CapacityInv'
<1>1. \A U : Reported(U)' = Reported(U) /\ ReceiptsOf(U)' = ReceiptsOf(U)
  BY DEF Reported, ReceiptsOf
<1>2. \A o \in DOMAIN reservations : ClaimFollows(o) => ClaimFollows(o)'
  BY <1>1 DEF ClaimFollows
<1>3. CapacityTypeOK'
  <2>1. Receipt' = Receipt /\ Reading' = Reading
    BY DEF Receipt, Reading
  <2> QED BY <2>1 DEF CapacityInv, ClaimsInv, CapacityTypeOK
<1>4. ClaimsInv'
  BY <1>2, <1>3 DEF CapacityInv, ClaimsInv
<1>5. (\A m \in readings : ReadingFollows(m))' /\ (obs # None => ReadingFollows(obs))'
  BY <1>1 DEF ReadingFollows
<1>6. Exposure' = Exposure
  BY DEF Exposure, Live
<1> QED BY <1>4, <1>5, <1>6 DEF CapacityInv

LEMMA ReadingsFollow ==
    ASSUME CapacityInv
    PROVE  /\ \A m \in readings : m \in Reading /\ ReadingFollows(m)
           /\ obs # None => obs \in Reading /\ ReadingFollows(obs)
           /\ now \in Nat /\ policy \in [revision : Nat, terms : Policies] /\ ClaimsInv
  BY DEF CapacityInv, ClaimsInv, CapacityTypeOK

(* A reading shows what is spent, and the receipts report no more. *)
LEMMA TakeReadingKeeps ==
    ASSUME CapacityInv, TakeReading PROVE CapacityInv'
<1> DEFINE m == [at |-> now, remaining |-> Quota - TotalSpent, covered |-> DOMAIN usage]
<1>1. ClaimsInv /\ TotalSpent \in Nat /\ Reported(DOMAIN usage) \in Nat /\ Reported(DOMAIN usage) <= TotalSpent
  BY ReportedIsSpent, ReportedIsNat, ReadingsFollow
<1>2. m \in Reading /\ ReadingFollows(m)
  BY <1>1, ReadingsFollow, CapacityAssumption DEF Reading, ReadingFollows
<1>3. readings' = readings \union {m} /\ UNCHANGED <<now, policy, obs, reservations, usage, spent, sent>>
  BY DEF TakeReading
<1> HIDE DEF m
<1> QED BY <1>2, <1>3, ReadingsFollow, ReadingsMove

LEMMA ObserveKeeps ==
    ASSUME CapacityInv, NEW m \in readings, Observe(m) PROVE CapacityInv'
<1>1. obs' = obs \/ obs' = m
  BY DEF Observe
<1> QED BY <1>1, ReadingsFollow, ReadingsMove DEF Observe

LEMMA PolicyKeeps ==
    ASSUME CapacityInv, NEW p \in Policies, ActivateCapacityPolicy(p) PROVE CapacityInv'
<1>1. policy' \in [revision : Nat, terms : Policies]
  BY ReadingsFollow DEF ActivateCapacityPolicy
<1> QED BY <1>1, ReadingsFollow, ReadingsMove DEF ActivateCapacityPolicy

LEMMA QuietKeeps ==
    ASSUME CapacityInv,
           CapacityTick \/ (\E dry \in BOOLEAN : RecordFailure(1, dry)) \/ UNCHANGED capacityVars
    PROVE  CapacityInv'
<1>1. now' \in Nat /\ UNCHANGED <<policy, obs, readings, reservations, usage, spent, sent>>
  BY ReadingsFollow DEF CapacityTick, RecordFailure, capacityVars
<1> QED BY <1>1, ReadingsFollow, ReadingsMove

LEMMA CapacityStarts == CapacityInit => CapacityInv
<1> SUFFICES ASSUME CapacityInit PROVE CapacityInv
  OBVIOUS
<1>1. CapacityTypeOK
  BY CapacityAssumption DEF CapacityInit, CapacityTypeOK, Reading, Receipt
<1>2. DOMAIN reservations = {} /\ DOMAIN usage = {}
  BY DEF CapacityInit
<1>3. ClaimsInv
  BY <1>1, <1>2, FS_EmptySet DEF CapacityInit, ClaimsInv
<1>4. SumFunctionOnSet(Exposure, DOMAIN reservations) = 0
  BY <1>2, SumEmpty
<1> QED BY <1>3, <1>4, CapacityAssumption DEF CapacityInit, CapacityInv

LEMMA CapacityInvariance == CapacitySpec => []CapacityInv
<1>1. CapacityInv /\ [CapacityNext]_capacityVars => CapacityInv'
  <2> SUFFICES ASSUME CapacityInv, [CapacityNext]_capacityVars PROVE CapacityInv'
    OBVIOUS
  <2>1. CASE TakeReading
    BY <2>1, TakeReadingKeeps
  <2>2. ASSUME NEW m \in readings, Observe(m) PROVE CapacityInv'
    BY <2>2, ObserveKeeps
  <2>3. ASSUME NEW p \in Policies, ActivateCapacityPolicy(p) PROVE CapacityInv'
    BY <2>3, PolicyKeeps
  <2>4. ASSUME NEW a \in Admissions, NEW d \in Demands, NEW lead \in BOOLEAN, Admit(a, d, lead)
        PROVE  CapacityInv'
    BY <2>4, AdmitKeeps
  <2>5. ASSUME NEW a \in Admissions, Activate(a) \/ Effect(a) \/ Consume(a) \/ CancelUnactivated(a)
        PROVE  CapacityInv'
    BY <2>5, ActivateKeeps, EffectKeeps, ConsumeKeeps, CancelKeeps
  <2>6. ASSUME NEW u \in Receipts, NEW a \in Admissions, NEW d \in Demands, RecordReceipt(u, a, d)
        PROVE  CapacityInv'
    BY <2>6, RecordReceiptKeeps
  <2>7. ASSUME NEW a \in Admissions, NEW n \in BOOLEAN, NEW c \in BOOLEAN, ReconcileClaim(a, n, c)
        PROVE  CapacityInv'
    BY <2>7, ReconcileKeeps
  <2>8. CASE CapacityTick \/ (\E dry \in BOOLEAN : RecordFailure(1, dry)) \/ UNCHANGED capacityVars
    BY <2>8, QuietKeeps
  <2> QED BY <2>1, <2>2, <2>3, <2>4, <2>5, <2>6, <2>7, <2>8 DEF CapacityNext
<1> QED BY <1>1, CapacityStarts, PTL DEF CapacitySpec

(* Only the guard lets an effect through. *)
LEMMA EffectsFit ==
    ASSUME CapacityInv, [CapacityNext]_capacityVars, sent' # sent
    PROVE  SumFunctionOnSet(Committed', DOMAIN reservations') <= Quota
<1>1. PICK a \in Admissions : Effect(a)
  BY DEF CapacityNext, capacityVars, TakeReading, Observe, ActivateCapacityPolicy, Admit, Activate,
         Consume, CancelUnactivated, RecordReceipt, ReconcileClaim, RecordFailure, CapacityTick
<1> QED BY <1>1, EffectKeeps

(***************************************************************************)
(* The shared quota is overspent by no more than the attempts used above   *)
(* their estimates, for any attempts, demands, receipts, policies and      *)
(* times, however late and in whatever order readings of the provider's    *)
(* console and usage receipts arrive; what pre_effect_guard never let      *)
(* through costs nothing, and it lets an effect through only if everything *)
(* held, and everything reported above it, still fits.                     *)
(***************************************************************************)
THEOREM QuotaIsKept == CapacitySpec => QuotaNotOverspent
<1> DEFINE Kept == /\ TotalSpent <= Quota + SumFunctionOnSet(Excess, DOMAIN reservations)
                   /\ \A a \in DOMAIN reservations :
                         reservations[a].state \in {"released", "expired"} => a \notin sent /\ spent[a] = 0
           Fits == sent' # sent => SumFunctionOnSet(Committed', DOMAIN reservations') <= Quota
<1>1. CapacityInv => Kept
  <2> SUFFICES ASSUME CapacityInv PROVE Kept
    OBVIOUS
  <2> DEFINE K == DOMAIN reservations
             h == [a \in K |-> Exposure[a] + Excess[a]]
  <2>1. /\ IsFiniteSet(K)
        /\ \A a \in K : /\ spent[a] \in Nat /\ Exposure[a] \in Nat /\ Excess[a] \in Nat
                        /\ spent[a] <= Exposure[a] + Excess[a] /\ h[a] = Exposure[a] + Excess[a]
    BY ReadingsFollow, ClaimTypes DEF ClaimsInv
  <2>2. SumFunctionOnSet(Exposure, K) <= Quota /\ TotalSpent = SumFunctionOnSet(spent, K)
    BY DEF CapacityInv, TotalSpent
  <2> HIDE DEF K, h
  <2>3. SumFunctionOnSet(spent, K) <= SumFunctionOnSet(h, K)
    BY <2>1, SumMonotone
  <2>4. SumFunctionOnSet(h, K) = SumFunctionOnSet(Exposure, K) + SumFunctionOnSet(Excess, K)
    BY <2>1, SumPlus
  <2>5. SumFunctionOnSet(spent, K) \in Nat
    BY <2>1, SumNat
  <2>6. SumFunctionOnSet(Exposure, K) \in Nat
    BY <2>1, SumNat
  <2>7. SumFunctionOnSet(Excess, K) \in Nat
    BY <2>1, SumNat
  <2>8. TotalSpent <= Quota + SumFunctionOnSet(Excess, K)
    BY <2>2, <2>3, <2>4, <2>5, <2>6, <2>7, CapacityAssumption
  <2>9. \A a \in DOMAIN reservations :
          reservations[a].state \in {"released", "expired"} => a \notin sent /\ spent[a] = 0
    BY ReadingsFollow, ClaimTypes DEF ClaimFollows
  <2> QED BY <2>8, <2>9 DEF K
<1>2. CapacityInv /\ [CapacityNext]_capacityVars => [Fits]_capacityVars
  BY EffectsFit
<1>3. CapacitySpec => []Kept
  <2> HIDE DEF Kept
  <2> QED BY <1>1, CapacityInvariance, PTL
<1>4. CapacitySpec => [][Fits]_capacityVars
  <2> HIDE DEF Fits
  <2> QED BY <1>2, CapacityInvariance, PTL DEF CapacitySpec
<1> QED BY <1>3, <1>4 DEF QuotaNotOverspent

-----------------------------------------------------------------------------
(***************************************************************************)
(* Delivery coordinator.  What a call of advance may rely on although it   *)
(* works on an old snapshot: a confirmed push stays confirmed, and what it *)
(* decided before the transaction is compared there.  While the Run has no *)
(* pull request of its own, the one that exists or is on its way is the    *)
(* open question of some revision.                                         *)
(***************************************************************************)
Opening == {q \in inflight : q.existing = None}

SoundRow(s) == s.pr # None => s.push = "confirmed"

RowsInv ==
    /\ \A r \in DOMAIN deliveries : SoundRow(deliveries[r])
    /\ \A r \in DOMAIN deliveries : deliveries[r].done => runPr # None
    /\ UnresolvedIsAlone /\ DoneOnlyWhileActive

CallFollows(t) ==
    adv[t].pc # "idle" =>
        /\ adv[t].rev \in DOMAIN deliveries /\ adv[t].snap \in Delivery /\ SoundRow(adv[t].snap)
        /\ adv[t].snap.push = "confirmed" => deliveries[adv[t].rev].push = "confirmed"
        /\ adv[t].pc = "push_ready" => adv[t].snap.push = None
        /\ adv[t].pc \in {"inspected", "pr_ready", "publish", "pr_unknown", "confirm", "confirm_ready"} =>
              adv[t].snap.push = "confirmed"
        /\ adv[t].pc = "inspected" => DOMAIN adv[t].obs.pulls \subseteq PullIds
        /\ adv[t].pc = "pr_ready" => adv[t].snap.pr = None
        /\ adv[t].pc \in {"confirm", "confirm_ready"} => adv[t].pr # None

PullsInv ==
    /\ \A p, q \in DOMAIN pulls : p = q
    /\ \A p, q \in Opening : p = q
    /\ Opening # {} => DOMAIN pulls = {}
    /\ Opening # {} \/ DOMAIN pulls # {} =>
          runPr # None \/ \E r \in DOMAIN deliveries : deliveries[r].pr = "send_unknown"

DeliveryInv == DeliveryTypeOK /\ RowsInv /\ (\A t \in Advancers : CallFollows(t)) /\ PullsInv

-----------------------------------------------------------------------------
(* The rows the transactions write. *)
LEMMA BlockedRow ==
    ASSUME NEW s \in Delivery
    PROVE  /\ Blocked(s) \in Delivery /\ ~Blocked(s).done
           /\ Blocked(s).push = s.push /\ Blocked(s).pr = s.pr
  BY DEF Blocked, Delivery

LEMMA StateRow ==
    ASSUME NEW s \in Delivery
    PROVE  /\ [s EXCEPT !.state = "reconciling"] \in Delivery
           /\ [s EXCEPT !.state = "reconciling"].push = s.push
           /\ [s EXCEPT !.state = "reconciling"].pr = s.pr
           /\ [s EXCEPT !.state = "reconciling"].prId = s.prId
           /\ [s EXCEPT !.state = "reconciling"].done = s.done
  BY DEF Delivery

LEMMA UnknownRow ==
    ASSUME NEW s \in Delivery
    PROVE  /\ [s EXCEPT !.state = "reconciling", !.done = FALSE] \in Delivery
           /\ [s EXCEPT !.state = "reconciling", !.done = FALSE].push = s.push
           /\ [s EXCEPT !.state = "reconciling", !.done = FALSE].pr = s.pr
           /\ ~[s EXCEPT !.state = "reconciling", !.done = FALSE].done
  BY DEF Delivery

LEMMA PushedRow ==
    ASSUME NEW s \in Delivery
    PROVE  /\ [s EXCEPT !.push = "confirmed", !.state = "pushed"] \in Delivery
           /\ [s EXCEPT !.push = "confirmed", !.state = "pushed"].push = "confirmed"
           /\ [s EXCEPT !.push = "confirmed", !.state = "pushed"].pr = s.pr
           /\ [s EXCEPT !.push = "confirmed", !.state = "pushed"].prId = s.prId
           /\ [s EXCEPT !.push = "confirmed", !.state = "pushed"].done = s.done
  BY DEF Delivery, OpStates

LEMMA PushingRow ==
    ASSUME NEW s \in Delivery
    PROVE  /\ [s EXCEPT !.push = "send_unknown", !.state = "pushing"] \in Delivery
           /\ [s EXCEPT !.push = "send_unknown", !.state = "pushing"].push = "send_unknown"
           /\ [s EXCEPT !.push = "send_unknown", !.state = "pushing"].pr = s.pr
           /\ [s EXCEPT !.push = "send_unknown", !.state = "pushing"].done = s.done
  BY DEF Delivery, OpStates

LEMMA PublishingRow ==
    ASSUME NEW s \in Delivery
    PROVE  /\ [s EXCEPT !.pr = "send_unknown", !.state = "publishing"] \in Delivery
           /\ [s EXCEPT !.pr = "send_unknown", !.state = "publishing"].push = s.push
           /\ [s EXCEPT !.pr = "send_unknown", !.state = "publishing"].pr = "send_unknown"
           /\ [s EXCEPT !.pr = "send_unknown", !.state = "publishing"].done = s.done
  BY DEF Delivery, OpStates

(* The records of a call. *)
LEMMA NoCallIsCall == NoCall \in Call /\ NoCall.pc = "idle"
  BY DEF NoCall, Call, Observation

CallSteps == {"idle", "begin", "push_ready", "push", "pushed", "push_lost", "reconcile_push",
              "inspected", "pr_ready", "publish", "pr_unknown", "confirm", "confirm_ready"}

LEMMA CallAt ==
    ASSUME NEW c \in Call, NEW pc \in CallSteps
    PROVE  /\ [c EXCEPT !.pc = pc] \in Call
           /\ [c EXCEPT !.pc = pc].pc = pc /\ [c EXCEPT !.pc = pc].rev = c.rev
           /\ [c EXCEPT !.pc = pc].snap = c.snap /\ [c EXCEPT !.pc = pc].pr = c.pr
  BY DEF Call, CallSteps

(* The table of pull requests and what is on its way there. *)
LEMMA PullsAreTable ==
    ASSUME NEW table \in PullTables
    PROVE  DOMAIN table \subseteq PullIds /\ table \in [DOMAIN table -> Revisions]
<1>1. PICK P \in SUBSET PullIds : table \in [P -> Revisions]
  BY DEF PullTables
<1>2. DOMAIN table = P
  BY <1>1
<1> QED BY <1>1, <1>2

LEMMA TableOfPulls ==
    ASSUME NEW P \in SUBSET PullIds, NEW table \in [P -> Revisions]
    PROVE  table \in PullTables
  BY DEF PullTables

-----------------------------------------------------------------------------
(* A transaction that writes the row of one revision. *)
RowMoves(r, s) ==
    /\ r \in DOMAIN deliveries /\ s \in Delivery /\ SoundRow(s)
    /\ deliveries[r].push = "confirmed" => s.push = "confirmed"
    /\ Unresolved(s) => \A q \in DOMAIN deliveries : Unresolved(deliveries[q]) => q = r
    /\ s.done => /\ control = "active" /\ s.push = "confirmed" /\ s.pr = "confirmed"
                 /\ s.prId = runPr' /\ runPr' # None
    /\ deliveries[r].pr = "send_unknown" => s.pr = "send_unknown" \/ runPr' # None
    /\ deliveries' = WithRow(deliveries, r, s)

LEMMA RowsMove ==
    ASSUME DeliveryInv, NEW r, NEW s, UNCHANGED deliveries \/ RowMoves(r, s),
           control' = control, runPr # None => runPr' = runPr
    PROVE  /\ DOMAIN deliveries' = DOMAIN deliveries
           /\ deliveries' \in [DOMAIN deliveries -> Delivery]
           /\ \A q \in DOMAIN deliveries :
                 /\ deliveries[q].push = "confirmed" => deliveries'[q].push = "confirmed"
                 /\ deliveries[q].pr = "send_unknown" => deliveries'[q].pr = "send_unknown" \/ runPr' # None
           /\ RowsInv'
<1>1. CASE UNCHANGED deliveries
  BY <1>1 DEF DeliveryInv, DeliveryTypeOK, RowsInv, UnresolvedIsAlone, DoneOnlyWhileActive, SoundRow
<1>2. CASE RowMoves(r, s)
  <2>1. /\ r \in DOMAIN deliveries /\ s \in Delivery /\ deliveries \in [DOMAIN deliveries -> Delivery]
        /\ RowsInv
    BY <1>2 DEF RowMoves, DeliveryInv, DeliveryTypeOK
  <2>2. /\ DOMAIN deliveries' = DOMAIN deliveries /\ deliveries'[r] = s
        /\ \A q \in DOMAIN deliveries : q # r => deliveries'[q] = deliveries[q]
        /\ deliveries' \in [DOMAIN deliveries -> Delivery]
    BY <1>2, <2>1 DEF RowMoves, WithRow
  <2>3. UnresolvedIsAlone'
    BY <1>2, <2>1, <2>2 DEF RowMoves, RowsInv, UnresolvedIsAlone
  <2>4. DoneOnlyWhileActive' /\ \A q \in DOMAIN deliveries : deliveries'[q].done => runPr' # None
    BY <1>2, <2>1, <2>2 DEF RowMoves, RowsInv, DoneOnlyWhileActive
  <2>5. \A q \in DOMAIN deliveries : SoundRow(deliveries'[q])
    BY <1>2, <2>1, <2>2 DEF RowMoves, RowsInv
  <2>6. RowsInv'
    BY <2>2, <2>3, <2>4, <2>5 DEF RowsInv
  <2>7. \A q \in DOMAIN deliveries :
                 /\ deliveries[q].push = "confirmed" => deliveries'[q].push = "confirmed"
                 /\ deliveries[q].pr = "send_unknown" => deliveries'[q].pr = "send_unknown" \/ runPr' # None
    BY <1>2, <2>1, <2>2 DEF RowMoves
  <2> QED BY <2>2, <2>6, <2>7
<1> QED BY <1>1, <1>2

(* The other calls keep what they rely on. *)
LEMMA OthersFollow ==
    ASSUME NEW t \in Advancers, CallFollows(t), adv'[t] = adv[t],
           DOMAIN deliveries \subseteq DOMAIN deliveries',
           \A q \in DOMAIN deliveries : deliveries[q].push = "confirmed" => deliveries'[q].push = "confirmed"
    PROVE  CallFollows(t)'
  BY DEF CallFollows

(* A step of a call that publishes nothing. *)
LEMMA CallStep ==
    ASSUME DeliveryInv, NEW t \in Advancers, NEW c \in Call, adv' = [adv EXCEPT ![t] = c],
           NEW r, NEW s, UNCHANGED deliveries \/ RowMoves(r, s),
           runPr' \in PullIds \union {None}, runPr # None => runPr' = runPr,
           remote' \in [head : Revisions \union {0, Foreign}, moved : BOOLEAN],
           UNCHANGED <<control, pulls, inflight>>,
           CallFollows(t)'
    PROVE  DeliveryInv'
<1>1. DeliveryTypeOK /\ PullsInv
  BY DEF DeliveryInv
<1>2. /\ DOMAIN deliveries' = DOMAIN deliveries
      /\ deliveries' \in [DOMAIN deliveries -> Delivery]
      /\ \A q \in DOMAIN deliveries :
            /\ deliveries[q].push = "confirmed" => deliveries'[q].push = "confirmed"
            /\ deliveries[q].pr = "send_unknown" => deliveries'[q].pr = "send_unknown" \/ runPr' # None
      /\ RowsInv'
  <2>1. control' = control
    OBVIOUS
  <2> QED BY <2>1, RowsMove
<1>3. adv' \in [Advancers -> Call] /\ adv'[t] = c /\ \A u \in Advancers : u # t => adv'[u] = adv[u]
  BY <1>1 DEF DeliveryTypeOK
<1>4. DeliveryTypeOK'
  BY <1>1, <1>2, <1>3 DEF DeliveryTypeOK
<1>5. ASSUME NEW u \in Advancers PROVE CallFollows(u)'
  <2>1. CASE u = t
    BY <2>1
  <2>2. CASE u # t
    <3>1. CallFollows(u) /\ adv'[u] = adv[u]
      BY <1>3, <2>2 DEF DeliveryInv
    <3> QED BY <1>2, <3>1, OthersFollow
  <2> QED BY <2>1, <2>2
<1>6. PullsInv'
  <2>1. Opening' = Opening
    BY DEF Opening
  <2> QED BY <1>1, <1>2, <2>1 DEF PullsInv
<1> QED BY <1>2, <1>4, <1>5, <1>6 DEF DeliveryInv

-----------------------------------------------------------------------------
(* What a running call knows. *)
LEMMA CallFacts ==
    ASSUME DeliveryInv, NEW t \in Advancers, adv[t].pc # "idle"
    PROVE  /\ adv[t] \in Call /\ adv[t].rev \in DOMAIN deliveries /\ adv[t].rev \in Revisions
           /\ adv[t].snap \in Delivery /\ SoundRow(adv[t].snap)
           /\ deliveries[adv[t].rev] \in Delivery /\ SoundRow(deliveries[adv[t].rev])
           /\ adv[t].pr \in PullIds \union {None} /\ adv[t].obs \in Observation
  BY DEF DeliveryInv, DeliveryTypeOK, RowsInv, CallFollows, Call

(* A write that leaves the pull request operation alone and resolves at most the push. *)
LEMMA QuietRow ==
    ASSUME DeliveryInv, NEW r \in DOMAIN deliveries, NEW s \in Delivery,
           deliveries' = WithRow(deliveries, r, s), runPr' = runPr,
           s.pr = deliveries[r].pr, s.push \in {deliveries[r].push, "confirmed"},
           s.done => deliveries[r].done /\ s.prId = deliveries[r].prId
    PROVE  RowMoves(r, s)
<1>1. Unresolved(s) => Unresolved(deliveries[r])
  BY DEF Unresolved
<1>2. UnresolvedIsAlone /\ DoneOnlyWhileActive /\ SoundRow(deliveries[r])
      /\ (deliveries[r].done => runPr # None)
  BY DEF DeliveryInv, RowsInv
<1>3. SoundRow(s) /\ (deliveries[r].push = "confirmed" => s.push = "confirmed")
  BY <1>2 DEF SoundRow
<1>4. Unresolved(s) => \A q \in DOMAIN deliveries : Unresolved(deliveries[q]) => q = r
  BY <1>1, <1>2 DEF UnresolvedIsAlone
<1>5. s.done => /\ control = "active" /\ s.push = "confirmed" /\ s.pr = "confirmed"
                /\ s.prId = runPr' /\ runPr' # None
  BY <1>2 DEF DoneOnlyWhileActive
<1> QED BY <1>3, <1>4, <1>5 DEF RowMoves

(* The call returns. *)
LEMMA ReturnSteps ==
    ASSUME DeliveryInv, NEW t \in Advancers, Return(t), NEW r, NEW s,
           UNCHANGED deliveries \/ RowMoves(r, s),
           runPr' \in PullIds \union {None}, runPr # None => runPr' = runPr,
           UNCHANGED <<control, remote, pulls, inflight>>
    PROVE  DeliveryInv'
<1>1. adv' = [adv EXCEPT ![t] = NoCall] /\ NoCall \in Call
  BY NoCallIsCall DEF Return
<1>2. remote' \in [head : Revisions \union {0, Foreign}, moved : BOOLEAN]
  BY DEF DeliveryInv, DeliveryTypeOK
<1>3. CallFollows(t)'
  <2>1. adv'[t] = NoCall
    BY <1>1 DEF DeliveryInv, DeliveryTypeOK
  <2> QED BY <2>1, NoCallIsCall DEF CallFollows
<1> QED BY <1>1, <1>2, <1>3, CallStep

(* The call goes on, with another observation or pull request in hand. *)
LEMMA CallGoesOn ==
    ASSUME DeliveryInv, NEW t \in Advancers, adv[t].pc # "idle",
           NEW c \in Call, adv' = [adv EXCEPT ![t] = c], c.rev = adv[t].rev, c.snap = adv[t].snap,
           c.pc = "push_ready" => c.snap.push = None,
           c.pc \in {"inspected", "pr_ready", "publish", "pr_unknown", "confirm", "confirm_ready"} =>
              c.snap.push = "confirmed",
           c.pc = "inspected" => DOMAIN c.obs.pulls \subseteq PullIds,
           c.pc = "pr_ready" => c.snap.pr = None,
           c.pc \in {"confirm", "confirm_ready"} => c.pr # None,
           DOMAIN deliveries \subseteq DOMAIN deliveries',
           \A q \in DOMAIN deliveries : deliveries[q].push = "confirmed" => deliveries'[q].push = "confirmed"
    PROVE  CallFollows(t)'
<1>1. adv'[t] = c
  BY DEF DeliveryInv, DeliveryTypeOK
<1>2. CallFollows(t)
  BY DEF DeliveryInv
<1> QED BY <1>1, <1>2 DEF CallFollows

LEMMA CallMoves ==
    ASSUME DeliveryInv, NEW t \in Advancers, adv[t].pc # "idle",
           NEW c \in Call, adv' = [adv EXCEPT ![t] = c], c.rev = adv[t].rev, c.snap = adv[t].snap,
           c.pc = "push_ready" => c.snap.push = None,
           c.pc \in {"inspected", "pr_ready", "publish", "pr_unknown", "confirm", "confirm_ready"} =>
              c.snap.push = "confirmed",
           c.pc = "inspected" => DOMAIN c.obs.pulls \subseteq PullIds,
           c.pc = "pr_ready" => c.snap.pr = None,
           c.pc \in {"confirm", "confirm_ready"} => c.pr # None,
           remote' \in [head : Revisions \union {0, Foreign}, moved : BOOLEAN],
           UNCHANGED <<deliveries, control, runPr, pulls, inflight>>
    PROVE  DeliveryInv'
<1>1. CallFollows(t)'
  BY CallGoesOn
<1>2. runPr' \in PullIds \union {None} /\ UNCHANGED deliveries
  BY DEF DeliveryInv, DeliveryTypeOK
<1>3. UNCHANGED <<control, pulls, inflight>> /\ (runPr # None => runPr' = runPr)
  OBVIOUS
<1> QED BY <1>1, <1>2, <1>3, CallStep

LEMMA RemoteIs ==
    ASSUME DeliveryInv
    PROVE  /\ remote \in [head : Revisions \union {0, Foreign}, moved : BOOLEAN]
           /\ runPr \in PullIds \union {None} /\ pulls \in PullTables
           /\ DOMAIN pulls \subseteq PullIds
  BY PullsAreTable DEF DeliveryInv, DeliveryTypeOK

-----------------------------------------------------------------------------
(* The steps of a call that end it without a word about the remote. *)
LEMMA BlockStaleKeeps ==
    ASSUME DeliveryInv, NEW t \in Advancers, BlockStale(t) PROVE DeliveryInv'
<1> DEFINE r == adv[t].rev
           s == Blocked(deliveries[r])
<1>1. adv[t].pc # "idle" /\ Return(t) /\ UNCHANGED <<control, runPr, remote, pulls, inflight>>
  BY DEF BlockStale
<1>2. r \in DOMAIN deliveries /\ deliveries[r] \in Delivery
  BY <1>1, CallFacts
<1>3. UNCHANGED deliveries \/ deliveries' = WithRow(deliveries, r, s)
  BY DEF BlockStale, Store
<1>4. s \in Delivery /\ ~s.done /\ s.push = deliveries[r].push /\ s.pr = deliveries[r].pr
  BY <1>2, BlockedRow
<1> HIDE DEF r, s
<1>5. UNCHANGED deliveries \/ RowMoves(r, s)
  BY <1>1, <1>2, <1>3, <1>4, QuietRow
<1> QED BY <1>1, <1>5, ReturnSteps, RemoteIs

LEMMA BlockInactiveKeeps ==
    ASSUME DeliveryInv, NEW t \in Advancers, BlockInactive(t) PROVE DeliveryInv'
<1> DEFINE r == adv[t].rev
           s == Blocked(deliveries[r])
<1>1. adv[t].pc # "idle" /\ Return(t) /\ UNCHANGED <<control, runPr, remote, pulls, inflight>>
  BY DEF BlockInactive
<1>2. r \in DOMAIN deliveries /\ deliveries[r] \in Delivery
  BY <1>1, CallFacts
<1>3. deliveries' = WithRow(deliveries, r, s)
  BY DEF BlockInactive, Store
<1>4. s \in Delivery /\ ~s.done /\ s.push = deliveries[r].push /\ s.pr = deliveries[r].pr
  BY <1>2, BlockedRow
<1> HIDE DEF r, s
<1>5. RowMoves(r, s)
  BY <1>1, <1>2, <1>3, <1>4, QuietRow
<1> QED BY <1>1, <1>5, ReturnSteps, RemoteIs

LEMMA AdvanceStopsKeeps ==
    ASSUME DeliveryInv, NEW t \in Advancers, AdvanceStops(t) PROVE DeliveryInv'
<1>1. Return(t) /\ UNCHANGED deliveries /\ UNCHANGED <<control, remote, pulls, inflight>> /\ runPr' = runPr
  BY DEF AdvanceStops
<1> QED BY <1>1, ReturnSteps, RemoteIs

(* The push. *)
LEMMA ValidateKeeps ==
    ASSUME DeliveryInv, NEW t \in Advancers, ValidateForPush(t) PROVE DeliveryInv'
<1> DEFINE c == [adv[t] EXCEPT !.pc = "push_ready"]
<1>1. /\ adv[t].pc # "idle" /\ adv[t].snap.push = None /\ adv' = [adv EXCEPT ![t] = c]
      /\ UNCHANGED <<deliveries, control, runPr, pulls, inflight>> /\ remote' = remote
  BY DEF ValidateForPush, Goto
<1>2. c \in Call /\ c.pc = "push_ready" /\ c.rev = adv[t].rev /\ c.snap = adv[t].snap
  <2>1. adv[t] \in Call /\ adv[t].pr \in PullIds \union {None} /\ adv[t].obs \in Observation
    BY <1>1, CallFacts
  <2> QED BY <2>1, CallAt DEF CallSteps
<1> HIDE DEF c
<1> QED BY <1>1, <1>2, CallMoves, RemoteIs

LEMMA ActivatePushKeeps ==
    ASSUME DeliveryInv, NEW t \in Advancers, ActivatePush(t) PROVE DeliveryInv'
<1> DEFINE r == adv[t].rev
           s == [adv[t].snap EXCEPT !.push = "send_unknown", !.state = "pushing"]
           c == [adv[t] EXCEPT !.pc = "push"]
<1>1. /\ adv[t].pc = "push_ready" /\ ActivationAllowed(r)
      /\ runPr' = runPr /\ remote' = remote /\ UNCHANGED <<control, pulls, inflight>>
  BY DEF ActivatePush
<1>2. CASE deliveries[r] = adv[t].snap
  <2>1. deliveries' = WithRow(deliveries, r, s) /\ adv' = [adv EXCEPT ![t] = c]
    BY <1>2 DEF ActivatePush, Store, Goto
  <2>2. /\ adv[t] \in Call /\ r \in DOMAIN deliveries /\ adv[t].snap \in Delivery /\ SoundRow(adv[t].snap)
        /\ adv[t].pr \in PullIds \union {None} /\ adv[t].obs \in Observation
    BY <1>1, CallFacts
  <2>3. c \in Call /\ c.pc = "push" /\ c.rev = r /\ c.snap = adv[t].snap
    BY <2>2, CallAt DEF CallSteps
  <2>4. adv[t].snap.push = None
    BY <1>1 DEF DeliveryInv, CallFollows
  <2>5. s \in Delivery /\ s.push = "send_unknown" /\ s.pr = adv[t].snap.pr /\ s.done = adv[t].snap.done
    BY <2>2, PushingRow
  <2>6. ~s.done /\ s.pr = None /\ deliveries[r].push = None
    <3>1. adv[t].snap.pr = None
      BY <2>2, <2>4, DeliveryAssumption DEF SoundRow
    <3>2. deliveries[r].done => deliveries[r].push = "confirmed"
      BY <2>2 DEF DeliveryInv, RowsInv, DoneOnlyWhileActive
    <3> QED BY <1>2, <2>4, <2>5, <3>1, <3>2, DeliveryAssumption
  <2>7. \A q \in DOMAIN deliveries : Unresolved(deliveries[q]) => q = r
    <3>1. \A q \in DOMAIN deliveries : q \in Nat
      BY DeliveryAssumption DEF DeliveryInv, DeliveryTypeOK
    <3> QED BY <1>1, <2>2, <3>1 DEF ActivationAllowed
  <2>8. RowMoves(r, s)
    <3>1. SoundRow(s)
      BY <2>6 DEF SoundRow
    <3> HIDE DEF s, r
    <3> QED BY <1>2, <2>1, <2>2, <2>4, <2>5, <2>6, <2>7, <3>1, DeliveryAssumption DEF RowMoves
  <2> HIDE DEF c, s, r
  <2>9. DOMAIN deliveries \subseteq DOMAIN deliveries'
        /\ \A q \in DOMAIN deliveries : deliveries[q].push = "confirmed" => deliveries'[q].push = "confirmed"
    BY <1>1, <2>8, RowsMove
  <2>10. CallFollows(t)'
    <3>1. adv[t].pc # "idle" /\ c.rev = adv[t].rev
      BY <1>1, <2>3 DEF r
    <3> QED BY <2>1, <2>3, <2>9, <3>1, CallGoesOn
  <2> QED BY <1>1, <2>1, <2>3, <2>8, <2>10, CallStep, RemoteIs
<1>3. CASE deliveries[r] # adv[t].snap
  <2>1. Return(t) /\ UNCHANGED deliveries
    BY <1>3 DEF ActivatePush
  <2> QED BY <1>1, <2>1, ReturnSteps, RemoteIs
<1> QED BY <1>2, <1>3

LEMMA PushKeeps ==
    ASSUME DeliveryInv, NEW t \in Advancers, Push(t) PROVE DeliveryInv'
<1>1. adv[t].pc # "idle" /\ UNCHANGED <<deliveries, control, runPr, pulls, inflight>>
  BY DEF Push
<1>2. remote' \in [head : Revisions \union {0, Foreign}, moved : BOOLEAN]
  <2>1. adv[t].rev \in Revisions
    BY <1>1, CallFacts
  <2> QED BY <2>1, RemoteIs DEF Push
<1>3. ASSUME NEW pc \in {"pushed", "push_lost"}, Goto(t, pc) PROVE DeliveryInv'
  <2> DEFINE c == [adv[t] EXCEPT !.pc = pc]
  <2>1. adv' = [adv EXCEPT ![t] = c]
    BY <1>3 DEF Goto
  <2>2. c \in Call /\ c.pc = pc /\ c.rev = adv[t].rev /\ c.snap = adv[t].snap
    <3>1. adv[t] \in Call /\ adv[t].pr \in PullIds \union {None} /\ adv[t].obs \in Observation
      BY <1>1, CallFacts
    <3>2. pc \in CallSteps
      BY DEF CallSteps
    <3> QED BY <3>1, <3>2, CallAt
  <2> HIDE DEF c
  <2> QED BY <1>1, <1>2, <2>1, <2>2, CallMoves
<1>4. CASE Return(t) /\ remote' = remote
  BY <1>1, <1>4, ReturnSteps, RemoteIs
<1> QED BY <1>3, <1>4 DEF Push

LEMMA RecordPushKeeps ==
    ASSUME DeliveryInv, NEW t \in Advancers, RecordPush(t) PROVE DeliveryInv'
<1> DEFINE r == adv[t].rev
           pushed == [deliveries[r] EXCEPT !.push = "confirmed", !.state = "pushed"]
           lost == [deliveries[r] EXCEPT !.state = "reconciling"]
<1>1. adv[t].pc # "idle" /\ Return(t) /\ UNCHANGED <<control, runPr, remote, pulls, inflight>>
  BY DEF RecordPush
<1>2. r \in DOMAIN deliveries /\ deliveries[r] \in Delivery
  BY <1>1, CallFacts
<1>3. \/ UNCHANGED deliveries \/ deliveries' = WithRow(deliveries, r, pushed)
      \/ deliveries' = WithRow(deliveries, r, lost)
  BY DEF RecordPush, Store
<1>4. /\ pushed \in Delivery /\ pushed.push = "confirmed" /\ pushed.pr = deliveries[r].pr
      /\ pushed.prId = deliveries[r].prId /\ pushed.done = deliveries[r].done
      /\ lost \in Delivery /\ lost.push = deliveries[r].push /\ lost.pr = deliveries[r].pr
      /\ lost.prId = deliveries[r].prId /\ lost.done = deliveries[r].done
  BY <1>2, PushedRow, StateRow
<1> HIDE DEF r, pushed, lost
<1>5. UNCHANGED deliveries \/ RowMoves(r, pushed) \/ RowMoves(r, lost)
  BY <1>1, <1>2, <1>3, <1>4, QuietRow
<1> QED BY <1>1, <1>5, ReturnSteps, RemoteIs

LEMMA ReconcilePushKeeps ==
    ASSUME DeliveryInv, NEW t \in Advancers, ReconcilePush(t) PROVE DeliveryInv'
<1> DEFINE r == adv[t].rev
           pushed == [deliveries[r] EXCEPT !.push = "confirmed", !.state = "pushed"]
           lost == [deliveries[r] EXCEPT !.state = "reconciling"]
<1>1. adv[t].pc # "idle" /\ Return(t) /\ UNCHANGED <<control, runPr, remote, pulls, inflight>>
  BY DEF ReconcilePush
<1>2. r \in DOMAIN deliveries /\ deliveries[r] \in Delivery
  BY <1>1, CallFacts
<1>3. \/ UNCHANGED deliveries \/ deliveries' = WithRow(deliveries, r, pushed)
      \/ deliveries' = WithRow(deliveries, r, lost)
  BY DEF ReconcilePush, Store
<1>4. /\ pushed \in Delivery /\ pushed.push = "confirmed" /\ pushed.pr = deliveries[r].pr
      /\ pushed.prId = deliveries[r].prId /\ pushed.done = deliveries[r].done
      /\ lost \in Delivery /\ lost.push = deliveries[r].push /\ lost.pr = deliveries[r].pr
      /\ lost.prId = deliveries[r].prId /\ lost.done = deliveries[r].done
  BY <1>2, PushedRow, StateRow
<1> HIDE DEF r, pushed, lost
<1>5. UNCHANGED deliveries \/ RowMoves(r, pushed) \/ RowMoves(r, lost)
  BY <1>1, <1>2, <1>3, <1>4, QuietRow
<1> QED BY <1>1, <1>5, ReturnSteps, RemoteIs

-----------------------------------------------------------------------------
(* The pull request. *)
LEMMA TwoFields ==
    ASSUME NEW f \in [Advancers -> Call], NEW t \in Advancers, NEW pc, NEW x
    PROVE  /\ [f EXCEPT ![t].pc = pc, ![t].obs = x] = [f EXCEPT ![t] = [f[t] EXCEPT !.pc = pc, !.obs = x]]
           /\ [f EXCEPT ![t].pc = pc, ![t].pr = x] = [f EXCEPT ![t] = [f[t] EXCEPT !.pc = pc, !.pr = x]]
  OBVIOUS

LEMMA InspectRemoteKeeps ==
    ASSUME DeliveryInv, NEW t \in Advancers, InspectRemote(t) PROVE DeliveryInv'
<1> DEFINE pc == IF adv[t].snap.push = "send_unknown" THEN "reconcile_push" ELSE "inspected"
           seen == [head |-> remote.head, moved |-> remote.moved, pulls |-> pulls]
           c == [adv[t] EXCEPT !.pc = pc, !.obs = seen]
<1>1. /\ adv[t].pc # "idle" /\ adv' = [adv EXCEPT ![t].pc = pc, ![t].obs = seen]
      /\ UNCHANGED <<deliveries, control, runPr, pulls, inflight>> /\ remote' = remote
      /\ Unresolved(adv[t].snap) \/ adv[t].snap.push = "confirmed"
  BY DEF InspectRemote
<1>2. adv[t] \in Call /\ adv[t].snap \in Delivery /\ SoundRow(adv[t].snap) /\ adv \in [Advancers -> Call]
  BY <1>1, CallFacts DEF DeliveryInv, DeliveryTypeOK
<1>3. seen \in Observation /\ DOMAIN seen.pulls \subseteq PullIds
  BY RemoteIs DEF Observation
<1>4. pc \in CallSteps /\ (pc # "reconcile_push" => pc = "inspected" /\ adv[t].snap.push = "confirmed")
  BY <1>1, <1>2, DeliveryAssumption DEF CallSteps, Unresolved, SoundRow
<1> HIDE DEF pc, seen
<1>5. adv' = [adv EXCEPT ![t] = c]
  BY <1>1, <1>2, TwoFields
<1>6. c \in Call /\ c.pc = pc /\ c.rev = adv[t].rev /\ c.snap = adv[t].snap /\ c.obs = seen
  BY <1>2, <1>3, <1>4 DEF Call, CallSteps
<1> HIDE DEF c
<1>7. remote' \in [head : Revisions \union {0, Foreign}, moved : BOOLEAN]
  BY <1>1, RemoteIs
<1>8. /\ c.pc \in {"reconcile_push", "inspected"} /\ (c.pc = "inspected" => c.snap.push = "confirmed")
      /\ DOMAIN c.obs.pulls \subseteq PullIds
  BY <1>3, <1>4, <1>6
<1> QED BY <1>1, <1>5, <1>6, <1>7, <1>8, CallMoves

LEMMA InspectedCall ==
    ASSUME DeliveryInv, NEW t \in Advancers, adv[t].pc = "inspected"
    PROVE  Matches(t) \subseteq PullIds /\ adv[t].snap.push = "confirmed"
  BY DEF DeliveryInv, CallFollows, Matches

LEMMA ChoosePrKeeps ==
    ASSUME DeliveryInv, NEW t \in Advancers, ChoosePr(t) PROVE DeliveryInv'
<1>1. /\ adv[t].pc = "inspected" /\ UNCHANGED <<deliveries, control, runPr, pulls, inflight>>
      /\ remote' = remote
  BY DEF ChoosePr
<1>2. adv[t] \in Call /\ adv \in [Advancers -> Call] /\ adv[t].pc # "idle" /\ adv[t].pr \in PullIds \union {None}
  BY <1>1, CallFacts DEF DeliveryInv, DeliveryTypeOK
<1>3. /\ remote' \in [head : Revisions \union {0, Foreign}, moved : BOOLEAN]
      /\ adv[t].snap.push = "confirmed" /\ Matches(t) \subseteq PullIds
  BY <1>1, RemoteIs, InspectedCall
<1>4. ASSUME NEW pc \in {"confirm", "pr_ready"}, NEW pr \in PullIds \union {None},
             adv' = [adv EXCEPT ![t].pc = pc, ![t].pr = pr],
             pc = "confirm" => pr # None, pc = "pr_ready" => adv[t].snap.pr = None
      PROVE  DeliveryInv'
  <2> DEFINE c == [adv[t] EXCEPT !.pc = pc, !.pr = pr]
  <2>1. adv' = [adv EXCEPT ![t] = c]
    BY <1>2, <1>4, TwoFields
  <2>2. c \in Call /\ c.pc = pc /\ c.rev = adv[t].rev /\ c.snap = adv[t].snap /\ c.pr = pr
    <3>1. pc \in CallSteps
      BY DEF CallSteps
    <3> QED BY <1>2, <3>1 DEF Call, CallSteps
  <2> HIDE DEF c
  <2>3. c.pc \notin {"inspected", "push_ready"} /\ (c.pc = "pr_ready" => c.snap.pr = None)
        /\ (c.pc \in {"confirm", "confirm_ready"} => c.pr # None) /\ c.snap.push = "confirmed"
    BY <1>3, <1>4, <2>2
  <2> QED BY <1>1, <1>2, <1>3, <2>1, <2>2, <2>3, CallMoves
<1>5. CASE Goto(t, "pr_unknown")
  <2> DEFINE c == [adv[t] EXCEPT !.pc = "pr_unknown"]
  <2>1. adv' = [adv EXCEPT ![t] = c]
    BY <1>5 DEF Goto
  <2>2. c \in Call /\ c.pc = "pr_unknown" /\ c.rev = adv[t].rev /\ c.snap = adv[t].snap
    BY <1>2, CallAt DEF CallSteps
  <2> HIDE DEF c
  <2> QED BY <1>1, <1>2, <1>3, <2>1, <2>2, CallMoves
<1>6. CASE /\ Cardinality(Matches(t)) = 1
           /\ adv' = [adv EXCEPT ![t].pc = "confirm", ![t].pr = CHOOSE p \in Matches(t) : TRUE]
  <2> DEFINE pr == CHOOSE p \in Matches(t) : TRUE
  <2>1. Matches(t) # {}
    BY <1>6, FS_EmptySet
  <2>2. pr \in Matches(t)
    BY <2>1
  <2>3. pr \in PullIds \union {None} /\ pr # None
    BY <1>3, <2>2, DeliveryAssumption
  <2> HIDE DEF pr
  <2>4. adv' = [adv EXCEPT ![t].pc = "confirm", ![t].pr = pr]
    BY <1>6 DEF pr
  <2> QED BY <1>4, <2>3, <2>4
<1>7. CASE /\ adv[t].snap.pr = None
           /\ adv' = [adv EXCEPT ![t].pc = "pr_ready",
                                 ![t].pr = IF Matches(t) = {} THEN None ELSE CHOOSE p \in Matches(t) : TRUE]
  <2> DEFINE pr == IF Matches(t) = {} THEN None ELSE CHOOSE p \in Matches(t) : TRUE
  <2>1. pr \in PullIds \union {None}
    BY <1>3
  <2>2. adv' = [adv EXCEPT ![t].pc = "pr_ready", ![t].pr = pr]
    BY <1>7
  <2> HIDE DEF pr
  <2> QED BY <1>4, <1>7, <2>1, <2>2
<1> QED BY <1>5, <1>6, <1>7 DEF ChoosePr

LEMMA PublishAnswersKeeps ==
    ASSUME DeliveryInv, NEW t \in Advancers, PublishAnswers(t) PROVE DeliveryInv'
<1>1. /\ adv[t].pc = "publish" /\ UNCHANGED <<deliveries, control, runPr, pulls, inflight>>
      /\ remote' = remote
  BY DEF PublishAnswers
<1>2. adv[t] \in Call /\ adv \in [Advancers -> Call] /\ adv[t].pc # "idle"
  BY <1>1, CallFacts DEF DeliveryInv, DeliveryTypeOK
<1>3. /\ remote' \in [head : Revisions \union {0, Foreign}, moved : BOOLEAN]
      /\ adv[t].snap.push = "confirmed"
  BY <1>1, RemoteIs DEF DeliveryInv, CallFollows
<1>4. ASSUME NEW p \in DOMAIN pulls, adv' = [adv EXCEPT ![t].pc = "confirm", ![t].pr = p]
      PROVE  DeliveryInv'
  <2> DEFINE c == [adv[t] EXCEPT !.pc = "confirm", !.pr = p]
  <2>1. adv' = [adv EXCEPT ![t] = c]
    BY <1>2, <1>4, TwoFields
  <2>2. p \in PullIds \union {None} /\ p # None
    BY RemoteIs, DeliveryAssumption
  <2>3. c \in Call /\ c.pc = "confirm" /\ c.rev = adv[t].rev /\ c.snap = adv[t].snap /\ c.pr = p
    <3>1. "confirm" \in CallSteps
      BY DEF CallSteps
    <3> QED BY <1>2, <2>2, <3>1 DEF Call, CallSteps
  <2> HIDE DEF c
  <2> QED BY <1>1, <1>2, <1>3, <2>1, <2>2, <2>3, CallMoves
<1>5. CASE Goto(t, "pr_unknown")
  <2> DEFINE c == [adv[t] EXCEPT !.pc = "pr_unknown"]
  <2>1. adv' = [adv EXCEPT ![t] = c]
    BY <1>5 DEF Goto
  <2>2. c \in Call /\ c.pc = "pr_unknown" /\ c.rev = adv[t].rev /\ c.snap = adv[t].snap
    BY <1>2, CallAt DEF CallSteps
  <2> HIDE DEF c
  <2> QED BY <1>1, <1>2, <1>3, <2>1, <2>2, CallMoves
<1> QED BY <1>4, <1>5 DEF PublishAnswers

LEMMA RecordUnknownKeeps ==
    ASSUME DeliveryInv, NEW t \in Advancers, RecordUnknown(t) PROVE DeliveryInv'
<1> DEFINE r == adv[t].rev
           s == [deliveries[r] EXCEPT !.state = "reconciling", !.done = FALSE]
<1>1. adv[t].pc # "idle" /\ Return(t) /\ UNCHANGED <<control, runPr, remote, pulls, inflight>>
  BY DEF RecordUnknown
<1>2. r \in DOMAIN deliveries /\ deliveries[r] \in Delivery
  BY <1>1, CallFacts
<1>3. UNCHANGED deliveries \/ deliveries' = WithRow(deliveries, r, s)
  BY DEF RecordUnknown, Store
<1>4. s \in Delivery /\ ~s.done /\ s.push = deliveries[r].push /\ s.pr = deliveries[r].pr
  BY <1>2, UnknownRow
<1> HIDE DEF r, s
<1>5. UNCHANGED deliveries \/ RowMoves(r, s)
  BY <1>1, <1>2, <1>3, <1>4, QuietRow
<1> QED BY <1>1, <1>5, ReturnSteps, RemoteIs

LEMMA InspectForConfirmKeeps ==
    ASSUME DeliveryInv, NEW t \in Advancers, InspectForConfirm(t) PROVE DeliveryInv'
<1>1. /\ adv[t].pc = "confirm" /\ UNCHANGED <<deliveries, control, runPr, pulls, inflight>>
      /\ remote' = remote
  BY DEF InspectForConfirm
<1>2. PICK verified \in BOOLEAN, ci \in BOOLEAN :
        adv' = [adv EXCEPT ![t].pc = "confirm_ready",
                           ![t].obs = [fits |-> verified /\ remote.head = adv[t].rev /\ ~remote.moved,
                                       ci |-> ci]]
  BY DEF InspectForConfirm
<1> DEFINE seen == [fits |-> verified /\ remote.head = adv[t].rev /\ ~remote.moved, ci |-> ci]
           c == [adv[t] EXCEPT !.pc = "confirm_ready", !.obs = seen]
<1>3. adv[t] \in Call /\ adv \in [Advancers -> Call] /\ adv[t].pc # "idle"
  BY <1>1, CallFacts DEF DeliveryInv, DeliveryTypeOK
<1>4. /\ remote' \in [head : Revisions \union {0, Foreign}, moved : BOOLEAN]
      /\ adv[t].snap.push = "confirmed" /\ adv[t].pr # None
  BY <1>1, RemoteIs DEF DeliveryInv, CallFollows
<1>5. seen \in Observation
  BY RemoteIs DEF Observation
<1>6. adv' = [adv EXCEPT ![t].pc = "confirm_ready", ![t].obs = seen]
  BY <1>2
<1> HIDE DEF seen
<1>7. adv' = [adv EXCEPT ![t] = c]
  BY <1>3, <1>6, TwoFields
<1>8. c \in Call /\ c.pc = "confirm_ready" /\ c.rev = adv[t].rev /\ c.snap = adv[t].snap /\ c.pr = adv[t].pr
  <2>1. "confirm_ready" \in CallSteps
    BY DEF CallSteps
  <2> QED BY <1>3, <1>5, <2>1 DEF Call, CallSteps
<1> HIDE DEF c
<1> QED BY <1>1, <1>3, <1>4, <1>7, <1>8, CallMoves

(* A newer revision, and only one without an open question, may write. *)
LEMMA ActivationIsAlone ==
    ASSUME DeliveryInv, NEW r \in DOMAIN deliveries, ActivationAllowed(r)
    PROVE  \A q \in DOMAIN deliveries : Unresolved(deliveries[q]) => q = r
<1>1. \A q \in DOMAIN deliveries : q \in Nat
  BY DeliveryAssumption DEF DeliveryInv, DeliveryTypeOK
<1> QED BY <1>1 DEF ActivationAllowed

LEMMA ActivatePrKeeps ==
    ASSUME DeliveryInv, NEW t \in Advancers, ActivatePr(t) PROVE DeliveryInv'
<1> DEFINE r == adv[t].rev
           existing == adv[t].pr
           s == [deliveries[r] EXCEPT !.pr = "send_unknown", !.state = "publishing"]
           c == [adv[t] EXCEPT !.pc = "publish"]
           q == [rev |-> r, existing |-> existing]
<1>1. adv[t].pc = "pr_ready" /\ ActivationAllowed(r) /\ UNCHANGED <<control, remote, pulls>>
  BY DEF ActivatePr
<1>2. /\ adv[t] \in Call /\ adv[t].pc # "idle" /\ r \in DOMAIN deliveries /\ r \in Revisions
      /\ deliveries[r] \in Delivery /\ existing \in PullIds \union {None}
      /\ adv[t].snap.push = "confirmed" /\ adv[t].snap.pr = None
  BY <1>1, CallFacts DEF DeliveryInv, CallFollows
<1>3. CASE deliveries[r] # adv[t].snap
  <2>1. Return(t) /\ UNCHANGED <<deliveries, runPr, inflight>>
    BY <1>3 DEF ActivatePr
  <2> QED BY <1>1, <2>1, ReturnSteps, RemoteIs
<1>4. CASE deliveries[r] = adv[t].snap /\ runPr # None /\ runPr # existing
  <2> DEFINE b == Blocked(deliveries[r])
  <2>1. deliveries' = WithRow(deliveries, r, b) /\ Return(t) /\ UNCHANGED <<runPr, inflight>>
    BY <1>4 DEF ActivatePr, Store
  <2>2. b \in Delivery /\ ~b.done /\ b.push = deliveries[r].push /\ b.pr = deliveries[r].pr
    BY <1>2, BlockedRow
  <2> HIDE DEF b, r
  <2>3. RowMoves(r, b)
    BY <1>2, <2>1, <2>2, QuietRow
  <2> QED BY <1>1, <2>1, <2>3, ReturnSteps, RemoteIs
<1>5. CASE deliveries[r] = adv[t].snap /\ (runPr = None \/ runPr = existing)
  <2>1. /\ deliveries' = WithRow(deliveries, r, s) /\ runPr' = existing
        /\ inflight' = inflight \union {q} /\ adv' = [adv EXCEPT ![t] = c]
    BY <1>5 DEF ActivatePr, Store, Goto
  <2>2. c \in Call /\ c.pc = "publish" /\ c.rev = r /\ c.snap = adv[t].snap
    BY <1>2, CallAt DEF CallSteps
  <2>3. s \in Delivery /\ s.push = "confirmed" /\ s.pr = "send_unknown" /\ s.done = deliveries[r].done
    BY <1>2, <1>5, PublishingRow
  <2>4. ~s.done
    <3>1. deliveries[r].done => deliveries[r].pr = "confirmed"
      BY <1>2 DEF DeliveryInv, RowsInv, DoneOnlyWhileActive
    <3> QED BY <1>2, <1>5, <2>3, <3>1, DeliveryAssumption
  <2>5. \A x \in DOMAIN deliveries : Unresolved(deliveries[x]) => x = r
    BY <1>1, <1>2, ActivationIsAlone
  <2>6. RowMoves(r, s)
    <3>1. SoundRow(s)
      BY <2>3 DEF SoundRow
    <3> HIDE DEF s, r
    <3> QED BY <1>2, <1>5, <2>1, <2>3, <2>4, <2>5, <3>1, DeliveryAssumption DEF RowMoves
  <2>7. runPr # None => runPr' = runPr
    BY <1>5, <2>1
  <2> HIDE DEF s, c, q
  <2>8. /\ DOMAIN deliveries' = DOMAIN deliveries
        /\ deliveries' \in [DOMAIN deliveries -> Delivery]
        /\ \A x \in DOMAIN deliveries :
              deliveries[x].push = "confirmed" => deliveries'[x].push = "confirmed"
        /\ RowsInv'
    BY <1>1, <2>6, <2>7, RowsMove
  <2>9. DeliveryTypeOK'
    <3>1. q \in [rev : Revisions, existing : PullIds \union {None}]
      BY <1>2 DEF q
    <3>2. adv' \in [Advancers -> Call]
      BY <2>1, <2>2 DEF DeliveryInv, DeliveryTypeOK
    <3> HIDE DEF r, existing
    <3> QED BY <1>1, <1>2, <2>1, <2>8, <3>1, <3>2 DEF DeliveryInv, DeliveryTypeOK
  <2>10. ASSUME NEW u \in Advancers PROVE CallFollows(u)'
    <3>1. CASE u = t
      BY <1>2, <2>1, <2>2, <2>8, <3>1, CallGoesOn
    <3>2. CASE u # t
      <4>1. CallFollows(u) /\ adv'[u] = adv[u]
        BY <2>1, <3>2 DEF DeliveryInv, DeliveryTypeOK
      <4> QED BY <2>8, <4>1, OthersFollow
    <3> QED BY <3>1, <3>2
  <2>11. PullsInv'
    <3>1. CASE existing # None
      <4>1. Opening' = Opening
        BY <2>1, <3>1 DEF Opening, q
      <4> QED BY <1>1, <2>1, <3>1, <4>1 DEF DeliveryInv, PullsInv
    <3>2. CASE existing = None
      <4>1. Opening = {} /\ DOMAIN pulls = {}
        <5> SUFFICES ASSUME Opening # {} \/ DOMAIN pulls # {} PROVE FALSE
          OBVIOUS
        <5>1. PICK x \in DOMAIN deliveries : deliveries[x].pr = "send_unknown"
          BY <1>5, <3>2 DEF DeliveryInv, PullsInv
        <5>2. x = r
          BY <2>5, <5>1 DEF Unresolved
        <5> QED BY <1>2, <1>5, <5>1, <5>2, DeliveryAssumption
      <4>2. Opening' = {q}
        BY <2>1, <3>2, <4>1 DEF Opening, q
      <4>3. deliveries'[r].pr = "send_unknown" /\ r \in DOMAIN deliveries'
        BY <1>2, <2>1, <2>3 DEF WithRow
      <4>4. DOMAIN pulls' = {}
        BY <1>1, <4>1
      <4> HIDE DEF r
      <4> QED BY <4>2, <4>3, <4>4 DEF PullsInv
    <3> QED BY <3>1, <3>2
  <2> QED BY <2>8, <2>9, <2>10, <2>11 DEF DeliveryInv
<1> QED BY <1>3, <1>4, <1>5

LEMMA ConfirmPrKeeps ==
    ASSUME DeliveryInv, NEW t \in Advancers, ConfirmPr(t) PROVE DeliveryInv'
<1> DEFINE r == adv[t].rev
           p == adv[t].pr
           clear == ActivationAllowed(r) /\ adv[t].obs.fits
           done == clear /\ adv[t].obs.ci
           state == IF ~clear THEN "blocked" ELSE IF adv[t].obs.ci THEN "delivered" ELSE "awaiting_ci"
           s == [deliveries[r] EXCEPT !.pr = "confirmed", !.prId = p, !.done = done, !.state = state]
<1>1. /\ adv[t].pc = "confirm_ready" /\ Return(t) /\ UNCHANGED <<control, remote, pulls, inflight>>
  BY DEF ConfirmPr
<1>2. /\ adv[t].pc # "idle" /\ r \in DOMAIN deliveries /\ deliveries[r] \in Delivery
      /\ p \in PullIds /\ p # None /\ deliveries[r].push = "confirmed"
  BY <1>1, CallFacts DEF DeliveryInv, CallFollows
<1>3. CASE runPr \notin {None, p}
  <2> DEFINE b == Blocked(deliveries[r])
  <2>1. deliveries' = WithRow(deliveries, r, b) /\ runPr' = runPr
    BY <1>3 DEF ConfirmPr, Store
  <2>2. b \in Delivery /\ ~b.done /\ b.push = deliveries[r].push /\ b.pr = deliveries[r].pr
    BY <1>2, BlockedRow
  <2> HIDE DEF b, r
  <2>3. RowMoves(r, b)
    BY <1>2, <2>1, <2>2, QuietRow
  <2> QED BY <1>1, <2>1, <2>3, ReturnSteps, RemoteIs
<1>4. CASE runPr \in {None, p}
  <2>1. deliveries' = WithRow(deliveries, r, s) /\ runPr' = p
    BY <1>4 DEF ConfirmPr, Store
  <2>2. /\ s \in Delivery /\ s.push = "confirmed" /\ s.pr = "confirmed" /\ s.prId = p /\ s.done = done
        /\ (done => control = "active")
    <3>1. done \in BOOLEAN /\ (done => control = "active")
      BY DEF ActivationAllowed
    <3>2. state \in {"blocked", "delivered", "awaiting_ci"}
      OBVIOUS
    <3> HIDE DEF r, p, done, state, clear
    <3> QED BY <1>2, <3>1, <3>2 DEF Delivery, OpStates
  <2>3. RowMoves(r, s)
    <3>1. SoundRow(s) /\ ~Unresolved(s)
      BY <2>2 DEF SoundRow, Unresolved
    <3> HIDE DEF s, r, p, done
    <3> QED BY <1>2, <2>1, <2>2, <3>1 DEF RowMoves
  <2> HIDE DEF s, r, p
  <2>4. runPr' \in PullIds \union {None} /\ (runPr # None => runPr' = runPr)
    BY <1>2, <1>4, <2>1
  <2> QED BY <1>1, <2>3, <2>4, ReturnSteps
<1> QED BY <1>3, <1>4

-----------------------------------------------------------------------------
(* The steps that are not of a call. *)
LEMMA BeginAdvanceKeeps ==
    ASSUME DeliveryInv, NEW t \in Advancers, NEW r \in Revisions, BeginAdvance(t, r)
    PROVE  DeliveryInv'
<1> DEFINE c == [NoCall EXCEPT !.pc = "begin", !.rev = r, !.snap = deliveries[r]]
<1>1. /\ r \in DOMAIN deliveries /\ adv' = [adv EXCEPT ![t] = c]
      /\ deliveries' = deliveries /\ remote' = remote /\ runPr' = runPr
      /\ UNCHANGED <<control, pulls, inflight>>
  BY DEF BeginAdvance
<1>2. deliveries[r] \in Delivery /\ SoundRow(deliveries[r])
  BY <1>1 DEF DeliveryInv, DeliveryTypeOK, RowsInv
<1>3. c \in Call /\ c.pc = "begin" /\ c.rev = r /\ c.snap = deliveries[r]
  BY <1>2 DEF NoCall, Call, Observation
<1> HIDE DEF c
<1>4. CallFollows(t)'
  <2>1. adv'[t] = c
    BY <1>1 DEF DeliveryInv, DeliveryTypeOK
  <2> QED BY <1>1, <1>2, <1>3, <2>1 DEF CallFollows
<1> QED BY <1>1, <1>3, <1>4, CallStep, RemoteIs

LEMMA PlanKeeps ==
    ASSUME DeliveryInv, NEW r \in Revisions, PlanDelivery(r) PROVE DeliveryInv'
<1> DEFINE s == [state |-> "planned", push |-> None, pr |-> None, prId |-> None, done |-> FALSE]
<1>1. /\ r \notin DOMAIN deliveries /\ deliveries' = WithRow(deliveries, r, s)
      /\ control' = (IF control = None THEN "active" ELSE control)
      /\ UNCHANGED <<runPr, adv, remote, pulls, inflight>>
  BY DEF PlanDelivery, Store
<1>2. s \in Delivery /\ ~s.done /\ s.pr = None /\ s.push = None /\ ~Unresolved(s) /\ SoundRow(s)
  BY DeliveryAssumption DEF Delivery, OpStates, Unresolved, SoundRow
<1> HIDE DEF s
<1>3. /\ DOMAIN deliveries' = DOMAIN deliveries \union {r} /\ deliveries'[r] = s
      /\ \A q \in DOMAIN deliveries : deliveries'[q] = deliveries[q]
      /\ deliveries' \in [DOMAIN deliveries' -> Delivery]
  BY <1>1, <1>2 DEF WithRow, DeliveryInv, DeliveryTypeOK
<1>4. DeliveryTypeOK'
  BY <1>1, <1>3 DEF DeliveryInv, DeliveryTypeOK, Controls
<1>5. RowsInv'
  BY <1>1, <1>2, <1>3 DEF DeliveryInv, RowsInv, UnresolvedIsAlone, DoneOnlyWhileActive
<1>6. ASSUME NEW t \in Advancers PROVE CallFollows(t)'
  <2>1. CallFollows(t) /\ adv'[t] = adv[t]
    BY <1>1 DEF DeliveryInv
  <2> QED BY <1>3, <2>1, OthersFollow
<1>7. PullsInv'
  BY <1>1, <1>3 DEF DeliveryInv, PullsInv, Opening
<1> QED BY <1>4, <1>5, <1>6, <1>7 DEF DeliveryInv

LEMMA ControlKeeps ==
    ASSUME DeliveryInv, NEW s \in Controls, SetDeliveryControl(s) PROVE DeliveryInv'
<1>1. /\ control' = s /\ UNCHANGED <<runPr, adv, remote, pulls, inflight>>
      /\ deliveries' = [r \in DOMAIN deliveries |->
                          IF s = "active" THEN deliveries[r] ELSE [deliveries[r] EXCEPT !.done = FALSE]]
  BY DEF SetDeliveryControl
<1>2. \A r \in DOMAIN deliveries : deliveries[r] \in Delivery
  BY DEF DeliveryInv, DeliveryTypeOK
<1>3. \A d \in Delivery : LET e == [d EXCEPT !.done = FALSE] IN
         e \in Delivery /\ e.push = d.push /\ e.pr = d.pr /\ e.prId = d.prId /\ ~e.done
  BY DEF Delivery
<1>4. DOMAIN deliveries' = DOMAIN deliveries
  BY <1>1
<1>5. ASSUME NEW r \in DOMAIN deliveries
      PROVE  /\ deliveries'[r] \in Delivery
             /\ deliveries'[r].push = deliveries[r].push /\ deliveries'[r].pr = deliveries[r].pr
             /\ deliveries'[r].prId = deliveries[r].prId
             /\ deliveries'[r].done => s = "active" /\ deliveries[r].done
  BY <1>1, <1>2, <1>3
<1>6. DeliveryTypeOK'
  BY <1>1, <1>4, <1>5 DEF DeliveryInv, DeliveryTypeOK
<1>7. RowsInv'
  BY <1>1, <1>4, <1>5 DEF DeliveryInv, RowsInv, UnresolvedIsAlone, Unresolved, DoneOnlyWhileActive, SoundRow
<1>8. ASSUME NEW t \in Advancers PROVE CallFollows(t)'
  <2>1. CallFollows(t) /\ adv'[t] = adv[t]
    BY <1>1 DEF DeliveryInv
  <2> QED BY <1>4, <1>5, <2>1, OthersFollow
<1>9. PullsInv'
  BY <1>1, <1>4, <1>5 DEF DeliveryInv, PullsInv, Opening
<1> QED BY <1>6, <1>7, <1>8, <1>9 DEF DeliveryInv

(* What only the remote does, or nothing at all. *)
LEMMA OutsideKeeps ==
    ASSUME DeliveryInv, UNCHANGED <<deliveries, control, runPr, adv>>,
           remote' \in [head : Revisions \union {0, Foreign}, moved : BOOLEAN],
           pulls' \in PullTables, inflight' \subseteq inflight, PullsInv'
    PROVE  DeliveryInv'
<1>1. DeliveryTypeOK'
  BY DEF DeliveryInv, DeliveryTypeOK
<1>2. RowsInv'
  BY DEF DeliveryInv, RowsInv, UnresolvedIsAlone, DoneOnlyWhileActive
<1>3. \A t \in Advancers : CallFollows(t)'
  BY DEF DeliveryInv, CallFollows
<1> QED BY <1>1, <1>2, <1>3 DEF DeliveryInv

LEMMA PublishLandsKeeps ==
    ASSUME DeliveryInv, NEW q \in inflight, PublishLands(q) PROVE DeliveryInv'
<1>1. inflight' = inflight \ {q} /\ UNCHANGED <<deliveries, control, runPr, adv, remote>> /\ PullsInv
  BY DEF PublishLands, DeliveryInv
<1>2. q.rev \in Revisions /\ pulls \in [DOMAIN pulls -> Revisions] /\ DOMAIN pulls \subseteq PullIds
  BY PullsAreTable DEF DeliveryInv, DeliveryTypeOK
<1>3. CASE q.existing # None
  <2>1. pulls' = [pulls EXCEPT ![q.existing] = q.rev]
    BY <1>3 DEF PublishLands
  <2>2. DOMAIN pulls' = DOMAIN pulls /\ pulls' \in [DOMAIN pulls -> Revisions]
    BY <1>2, <2>1
  <2>3. pulls' \in PullTables
    BY <1>2, <2>2, TableOfPulls
  <2>4. Opening' = Opening
    BY <1>1, <1>3 DEF Opening
  <2>5. PullsInv'
    BY <1>1, <2>2, <2>4 DEF PullsInv
  <2> QED BY <1>1, <2>3, <2>5, OutsideKeeps, RemoteIs
<1>4. CASE q.existing = None
  <2>1. PICK p \in PullIds \ DOMAIN pulls : pulls' = WithRow(pulls, p, q.rev)
    BY <1>4 DEF PublishLands
  <2>2. q \in Opening /\ Opening' = {} /\ DOMAIN pulls = {}
    BY <1>1, <1>4 DEF Opening, PullsInv
  <2>3. DOMAIN pulls' = {p} /\ pulls' \in [{p} -> Revisions]
    BY <1>2, <2>1, <2>2 DEF WithRow
  <2>4. pulls' \in PullTables
    <3>1. {p} \in SUBSET PullIds
      OBVIOUS
    <3> QED BY <2>3, <3>1, TableOfPulls
  <2>5. PullsInv'
    BY <1>1, <2>2, <2>3 DEF PullsInv
  <2> QED BY <1>1, <2>4, <2>5, OutsideKeeps, RemoteIs
<1> QED BY <1>3, <1>4

LEMMA QuietDeliveryKeeps ==
    ASSUME DeliveryInv, RepositoryMoves \/ UNCHANGED deliveryVars PROVE DeliveryInv'
<1>1. /\ UNCHANGED <<deliveries, control, runPr, adv>> /\ pulls' = pulls /\ inflight' = inflight
      /\ remote' \in [head : Revisions \union {0, Foreign}, moved : BOOLEAN]
  BY RemoteIs DEF RepositoryMoves, deliveryVars
<1>2. PullsInv'
  BY <1>1 DEF DeliveryInv, PullsInv, Opening
<1> QED BY <1>1, <1>2, OutsideKeeps, RemoteIs

LEMMA DeliveryStarts == DeliveryInit => DeliveryInv
<1> SUFFICES ASSUME DeliveryInit PROVE DeliveryInv
  OBVIOUS
<1>1. DOMAIN deliveries = {} /\ DOMAIN pulls = {} /\ pulls \in [{} -> Revisions] /\ inflight = {}
      /\ deliveries \in [{} -> Delivery]
  BY DEF DeliveryInit
<1>2. pulls \in PullTables
  <2>1. {} \in SUBSET PullIds
    OBVIOUS
  <2> QED BY <1>1, <2>1, TableOfPulls
<1>3. adv \in [Advancers -> Call] /\ \A t \in Advancers : adv[t].pc = "idle"
  BY NoCallIsCall DEF DeliveryInit
<1>4. DeliveryTypeOK
  BY <1>1, <1>2, <1>3 DEF DeliveryInit, DeliveryTypeOK
<1>5. RowsInv
  BY <1>1 DEF RowsInv, UnresolvedIsAlone, DoneOnlyWhileActive
<1>6. PullsInv /\ \A t \in Advancers : CallFollows(t)
  BY <1>1, <1>3 DEF PullsInv, Opening, CallFollows
<1> QED BY <1>4, <1>5, <1>6 DEF DeliveryInv

LEMMA DeliveryInvariance == DeliverySpec => []DeliveryInv
<1>1. DeliveryInv /\ [DeliveryNext]_deliveryVars => DeliveryInv'
  <2> SUFFICES ASSUME DeliveryInv, [DeliveryNext]_deliveryVars PROVE DeliveryInv'
    OBVIOUS
  <2>1. ASSUME NEW r \in Revisions, PlanDelivery(r) PROVE DeliveryInv'
    BY <2>1, PlanKeeps
  <2>2. ASSUME NEW s \in Controls, SetDeliveryControl(s) PROVE DeliveryInv'
    BY <2>2, ControlKeeps
  <2>3. ASSUME NEW t \in Advancers, NEW r \in Revisions, BeginAdvance(t, r) PROVE DeliveryInv'
    BY <2>3, BeginAdvanceKeeps
  <2>4. ASSUME NEW t \in Advancers, AdvanceStep(t) PROVE DeliveryInv'
    <3>1. CASE BlockStale(t) \/ BlockInactive(t) \/ AdvanceStops(t)
      BY <3>1, BlockStaleKeeps, BlockInactiveKeeps, AdvanceStopsKeeps
    <3>2. CASE ValidateForPush(t) \/ ActivatePush(t) \/ Push(t) \/ RecordPush(t) \/ ReconcilePush(t)
      BY <3>2, ValidateKeeps, ActivatePushKeeps, PushKeeps, RecordPushKeeps, ReconcilePushKeeps
    <3>3. CASE InspectRemote(t) \/ ChoosePr(t) \/ ActivatePr(t) \/ PublishAnswers(t)
      BY <3>3, InspectRemoteKeeps, ChoosePrKeeps, ActivatePrKeeps, PublishAnswersKeeps
    <3>4. CASE RecordUnknown(t) \/ InspectForConfirm(t) \/ ConfirmPr(t)
      BY <3>4, RecordUnknownKeeps, InspectForConfirmKeeps, ConfirmPrKeeps
    <3> QED BY <2>4, <3>1, <3>2, <3>3, <3>4 DEF AdvanceStep
  <2>5. ASSUME NEW q \in inflight, PublishLands(q) PROVE DeliveryInv'
    BY <2>5, PublishLandsKeeps
  <2>6. CASE RepositoryMoves \/ UNCHANGED deliveryVars
    BY <2>6, QuietDeliveryKeeps
  <2> QED BY <2>1, <2>2, <2>3, <2>4, <2>5, <2>6 DEF DeliveryNext
<1> QED BY <1>1, DeliveryStarts, PTL DEF DeliverySpec

(***************************************************************************)
(* A Run opens one pull request, leaves one remote write in doubt at a     *)
(* time and is complete only while it is active, for any number of         *)
(* concurrent calls of advance and of revisions, whatever late             *)
(* publications, other writers and stops of the process do in between.     *)
(***************************************************************************)
THEOREM DeliveriesStaySafe == DeliverySpec => []DeliveriesAreSafe
<1>1. DeliveryInv => DeliveriesAreSafe
  <2> SUFFICES ASSUME DeliveryInv PROVE DeliveriesAreSafe
    OBVIOUS
  <2>1. OnePullRequest
    <3>1. CASE DOMAIN pulls = {}
      BY <3>1, FS_EmptySet DEF OnePullRequest
    <3>2. CASE DOMAIN pulls # {}
      <4>1. PICK p \in DOMAIN pulls : TRUE
        BY <3>2
      <4>2. DOMAIN pulls = {p}
        BY <4>1 DEF DeliveryInv, PullsInv
      <4>3. Cardinality({p}) = 1
        BY FS_Singleton
      <4> QED BY <4>2, <4>3 DEF OnePullRequest
    <3> QED BY <3>1, <3>2
  <2> QED BY <2>1 DEF DeliveryInv, RowsInv, DeliveriesAreSafe
<1> QED BY <1>1, DeliveryInvariance, PTL

-----------------------------------------------------------------------------
(***************************************************************************)
(* Conversations.  The last event of a conversation is its own and no      *)
(* event of it comes later, so a cursor that the store gave out stays the  *)
(* number of an event of the conversation as the stream grows.             *)
(***************************************************************************)
Kinds == {"conversation_created", "conversation_settings_saved", "message_created", "draft_saved",
          "task_draft_created", "run_create", "run_command"}
Event == [conversation : ConversationIds, kind : Kinds]
Header == [project : Projects, revision : Nat, last : Nat]

StreamInv ==
    /\ stream \in Seq(Event)
    /\ Known \subseteq ConversationIds
    /\ \A c \in Known :
          /\ conversations[c] \in Header
          /\ conversations[c].last \in 1 .. Len(stream)
          /\ stream[conversations[c].last].conversation = c
    /\ \A n \in 1 .. Len(stream) :
          /\ stream[n].conversation \in Known
          /\ n <= conversations[stream[n].conversation].last
    /\ \A p \in Projects : Legacy(p) \in Known => conversations[Legacy(p)].project = p

DraftsInv ==
    /\ DOMAIN drafts = Known
    /\ \A c \in Known : drafts[c] \in [revision : Nat, over : Nat] /\ drafts[c].over = drafts[c].revision - 1

BindingsInv ==
    /\ DOMAIN bindings \subseteq Runs
    /\ \A r \in DOMAIN bindings :
          bindings[r] \in Known /\ conversations[bindings[r]].project = ProjectOf[r]

BrowserFollows(w) ==
    /\ w \in Following
    /\ w.conversation \in Known
    /\ w.cursor \in 1 .. Len(stream)
    /\ stream[w.cursor].conversation = w.conversation
    /\ w.seen = EventsUpTo(w.conversation, w.cursor)

BrowsersInv ==
    /\ browser \in [Browsers -> Following \union {None}]
    /\ \A b \in Browsers : browser[b] # None => BrowserFollows(browser[b])

ConversationsInv == StreamInv /\ DraftsInv /\ BindingsInv /\ BrowsersInv

-----------------------------------------------------------------------------
(* A step that publishes events of one conversation, which it may create. *)
Grows(c) ==
    /\ c \in ConversationIds
    /\ stream' \in Seq(Event) /\ Len(stream) < Len(stream')
    /\ \A n \in 1 .. Len(stream) : stream'[n] = stream[n]
    /\ \A n \in Len(stream) + 1 .. Len(stream') : stream'[n].conversation = c
    /\ Known' = Known \union {c}
    /\ \A d \in Known \ {c} : conversations'[d] = conversations[d]
    /\ conversations'[c] \in Header /\ conversations'[c].last = Len(stream')
    /\ c \in Known => conversations'[c].project = conversations[c].project
    /\ \A p \in Projects : c = Legacy(p) => conversations'[c].project = p

LEMMA StreamGrows ==
    ASSUME NEW c, StreamInv, Grows(c)
    PROVE  StreamInv'
<1> Known' = DOMAIN conversations' /\ Known = DOMAIN conversations
  BY DEF Known
<1>0. Len(stream) \in Nat /\ Len(stream') \in Nat /\ stream' \in Seq(Event)
  BY DEF StreamInv, Grows
<1>1. stream' \in Seq(Event) /\ Known' \subseteq ConversationIds
  BY DEF StreamInv, Grows
<1>2. ASSUME NEW d \in Known'
      PROVE  /\ conversations'[d] \in Header
             /\ conversations'[d].last \in 1 .. Len(stream')
             /\ stream'[conversations'[d].last].conversation = d
  <2>1. CASE d = c
    BY <1>0, <2>1 DEF Grows
  <2>2. CASE d # c
    BY <1>0, <2>2 DEF Grows, StreamInv
  <2> QED BY <2>1, <2>2
<1>3. ASSUME NEW n \in 1 .. Len(stream')
      PROVE  /\ stream'[n].conversation \in Known'
             /\ n <= conversations'[stream'[n].conversation].last
  <2>1. CASE n \in 1 .. Len(stream) /\ stream[n].conversation # c
    BY <1>0, <2>1 DEF Grows, StreamInv
  <2>2. CASE n \in 1 .. Len(stream) /\ stream[n].conversation = c
    BY <1>0, <2>2 DEF Grows, StreamInv
  <2>3. CASE n \notin 1 .. Len(stream)
    BY <1>0, <2>3 DEF Grows
  <2> QED BY <2>1, <2>2, <2>3
<1>4. ASSUME NEW p \in Projects, Legacy(p) \in Known' PROVE conversations'[Legacy(p)].project = p
  BY <1>4 DEF Grows, StreamInv
<1> QED BY <1>1, <1>2, <1>3, <1>4 DEF StreamInv

LEMMA BindingsGrow ==
    ASSUME NEW c, StreamInv, BindingsInv, Grows(c), bindings' = bindings
    PROVE  BindingsInv'
  BY DEF StreamInv, BindingsInv, Grows

LEMMA BrowsersGrow ==
    ASSUME NEW c, StreamInv, BrowsersInv, Grows(c), browser' = browser
    PROVE  BrowsersInv'
<1>0. Len(stream) \in Nat /\ Len(stream') \in Nat
  BY DEF StreamInv, Grows
<1>1. ASSUME NEW w, BrowserFollows(w) PROVE BrowserFollows(w)'
  <2>1. EventsUpTo(w.conversation, w.cursor)' = EventsUpTo(w.conversation, w.cursor)
    BY <1>0, <1>1 DEF BrowserFollows, EventsUpTo, Grows
  <2> QED BY <1>0, <1>1, <2>1 DEF BrowserFollows, Grows
<1> QED BY <1>1 DEF BrowsersInv

(* Drafts: a conversation gets one as it is created, and it is replaced over the revision read. *)
LEMMA DraftOpens ==
    ASSUME NEW c, DraftsInv, Known' = Known \union {c},
           drafts' = WithRow(drafts, c, [revision |-> 1, over |-> 0])
    PROVE  DraftsInv'
  BY DEF DraftsInv, WithRow

LEMMA DraftsStay ==
    ASSUME DraftsInv, Known' = Known, drafts' = drafts
    PROVE  DraftsInv'
  BY DEF DraftsInv

LEMMA StoresStay ==
    ASSUME ConversationsInv, UNCHANGED <<conversations, drafts, stream, bindings, browser>>
    PROVE  ConversationsInv'
  BY DEF ConversationsInv, StreamInv, DraftsInv, BindingsInv, BrowsersInv, BrowserFollows, Known, EventsUpTo

-----------------------------------------------------------------------------
LEMMA AppendedEvent ==
    ASSUME NEW s \in Seq(Event), NEW c \in ConversationIds, NEW kind \in Kinds, NEW t,
           t = Append(s, [conversation |-> c, kind |-> kind])
    PROVE  /\ t \in Seq(Event) /\ Len(t) = Len(s) + 1
           /\ \A n \in 1 .. Len(s) : t[n] = s[n]
           /\ t[Len(t)].conversation = c
  BY DEF Event

LEMMA PublishesGrows ==
    ASSUME StreamInv, NEW c \in Known, NEW kind \in Kinds, Publishes(c, kind)
    PROVE  Grows(c) /\ Known' = Known
<1>1. c \in ConversationIds /\ stream \in Seq(Event) /\ Len(stream) \in Nat
  BY DEF StreamInv
<1>2. /\ stream' \in Seq(Event) /\ Len(stream') = Len(stream) + 1
      /\ \A n \in 1 .. Len(stream) : stream'[n] = stream[n]
      /\ stream'[Len(stream')].conversation = c
  BY <1>1, AppendedEvent DEF Publishes
<1>3. /\ DOMAIN conversations' = DOMAIN conversations
      /\ \A d \in Known \ {c} : conversations'[d] = conversations[d]
      /\ conversations'[c] = [conversations[c] EXCEPT !.revision = @ + 1, !.last = Len(stream')]
  BY DEF Publishes, Known
<1>4. /\ conversations'[c] \in Header /\ conversations'[c].last = Len(stream')
      /\ conversations'[c].project = conversations[c].project
  <2>1. PICK row \in Header : row = conversations[c]
    BY DEF StreamInv
  <2>2. PICK n \in Nat : n = Len(stream')
    BY <1>1, <1>2
  <2>3. conversations'[c] = [project |-> row.project, revision |-> row.revision + 1, last |-> n]
    BY ONLY <1>3, <2>1, <2>2 DEF Header
  <2>4. row.project \in Projects /\ row.revision + 1 \in Nat
    BY DEF Header
  <2> QED BY ONLY <2>1, <2>2, <2>3, <2>4 DEF Header
<1>5. \A n \in Len(stream) + 1 .. Len(stream') : n = Len(stream')
  BY <1>1, <1>2
<1>6. \A p \in Projects : c = Legacy(p) => conversations'[c].project = p
  BY <1>4 DEF StreamInv
<1>7. \A n \in Len(stream) + 1 .. Len(stream') : stream'[n].conversation = c
  BY ONLY <1>2, <1>5
<1>8. Known' = Known /\ Known' = Known \union {c}
  BY ONLY <1>3, c \in Known DEF Known
<1>9. Len(stream) < Len(stream')
  BY ONLY <1>1, <1>2
<1> QED BY ONLY <1>1, <1>2, <1>3, <1>4, <1>6, <1>7, <1>8, <1>9 DEF Grows

LEMMA OpenedGrows ==
    ASSUME StreamInv, NEW c \in ConversationIds \ Known, NEW p \in Projects, Opened(c, p),
           \A q \in Projects : c = Legacy(q) => p = q
    PROVE  Grows(c)
<1>1. stream \in Seq(Event) /\ Len(stream) \in Nat
  BY DEF StreamInv
<1>2. /\ stream' \in Seq(Event) /\ Len(stream') = Len(stream) + 1
      /\ \A n \in 1 .. Len(stream) : stream'[n] = stream[n]
      /\ stream'[Len(stream')].conversation = c
  <2>1. "conversation_created" \in Kinds
    BY DEF Kinds
  <2>2. stream' = Append(stream, [conversation |-> c, kind |-> "conversation_created"])
    BY DEF Opened
  <2> QED BY ONLY <1>1, <2>1, <2>2, c \in ConversationIds, AppendedEvent
<1>3. /\ DOMAIN conversations' = DOMAIN conversations \union {c}
      /\ \A d \in Known \ {c} : conversations'[d] = conversations[d]
      /\ conversations'[c] = [project |-> p, revision |-> 1, last |-> Len(stream')]
  BY DEF Opened, WithRow, Known
<1>4. \A n \in Len(stream) + 1 .. Len(stream') : n = Len(stream')
  BY <1>1, <1>2
<1>5. conversations'[c] \in Header /\ conversations'[c].last = Len(stream') /\ conversations'[c].project = p
  BY <1>1, <1>2, <1>3 DEF Header
<1> QED BY <1>1, <1>2, <1>3, <1>4, <1>5 DEF Grows, Known

LEMMA RejectedKeeps ==
    ASSUME ConversationsInv, NEW k, NEW request, Rejected(k, request)
    PROVE  ConversationsInv'
  BY StoresStay DEF Rejected

LEMMA PublishingKeeps ==
    ASSUME ConversationsInv, NEW c \in Known, NEW kind \in Kinds, Publishes(c, kind),
           UNCHANGED <<drafts, bindings, browser>>
    PROVE  ConversationsInv'
<1>1. Grows(c) /\ Known' = Known
  BY PublishesGrows DEF ConversationsInv
<1> QED BY <1>1, StreamGrows, BindingsGrow, BrowsersGrow, DraftsStay DEF ConversationsInv

LEMMA CreateConversationKeeps ==
    ASSUME ConversationsInv, NEW k, NEW c \in Threads, NEW p \in Projects, CreateConversation(k, c, p)
    PROVE  ConversationsInv'
<1>1. CASE Rejected(k, <<"create", c>>)
  BY <1>1, RejectedKeeps
<1>2. CASE Opened(c, p) /\ UNCHANGED <<bindings, browser>>
  <2>1. c \in ConversationIds \ Known /\ \A q \in Projects : c # Legacy(q)
    BY ConversationsAssumption DEF CreateConversation, ConversationIds
  <2>2. Grows(c)
    BY <1>2, <2>1, OpenedGrows DEF ConversationsInv
  <2>3. Known' = Known \union {c} /\ drafts' = WithRow(drafts, c, [revision |-> 1, over |-> 0])
    BY <1>2, <2>2 DEF Grows, Opened
  <2> QED BY <1>2, <2>2, <2>3, StreamGrows, BindingsGrow, BrowsersGrow, DraftOpens DEF ConversationsInv
<1> QED BY <1>1, <1>2 DEF CreateConversation

LEMMA SaveSettingsKeeps ==
    ASSUME ConversationsInv, NEW k, NEW c, NEW revision, SaveSettings(k, c, revision)
    PROVE  ConversationsInv'
  BY RejectedKeeps, PublishingKeeps DEF SaveSettings, Kinds

LEMMA PostMessageKeeps ==
    ASSUME ConversationsInv, NEW k, NEW c, NEW m, PostMessage(k, c, m)
    PROVE  ConversationsInv'
  BY StoresStay, PublishingKeeps DEF PostMessage, Kinds

LEMMA ProposeTaskKeeps ==
    ASSUME ConversationsInv, NEW k, NEW c, ProposeTask(k, c)
    PROVE  ConversationsInv'
  BY PublishingKeeps DEF ProposeTask, Kinds

LEMMA SaveDraftKeeps ==
    ASSUME ConversationsInv, NEW b \in Browsers, NEW k, SaveDraft(b, k)
    PROVE  ConversationsInv'
<1> DEFINE c == browser[b].conversation
<1>1. c \in Known /\ browser[b].draft \in Nat
  BY DEF SaveDraft, ConversationsInv, BrowsersInv, BrowserFollows, Following
<1>2. CASE Rejected(k, <<"draft", c, browser[b].draft>>)
  BY <1>2, RejectedKeeps
<1>3. CASE /\ browser[b].draft = drafts[c].revision
           /\ drafts' = [drafts EXCEPT ![c] = [revision |-> @.revision + 1, over |-> browser[b].draft]]
           /\ Publishes(c, "draft_saved")
           /\ UNCHANGED <<bindings, browser>>
  <2>1. Grows(c) /\ Known' = Known
    BY <1>1, <1>3, PublishesGrows DEF ConversationsInv, Kinds
  <2>2. DraftsInv'
    BY <1>1, <1>3, <2>1 DEF ConversationsInv, DraftsInv
  <2> QED BY <1>3, <2>1, <2>2, StreamGrows, BindingsGrow, BrowsersGrow DEF ConversationsInv
<1> QED BY <1>2, <1>3 DEF SaveDraft

-----------------------------------------------------------------------------
(* A new binding, to a conversation of the Run's project. *)
LEMMA BindingAdded ==
    ASSUME BindingsInv, NEW r \in Runs, NEW c \in Known', conversations'[c].project = ProjectOf[r],
           bindings' = WithRow(bindings, r, c), Known \subseteq Known',
           \A d \in Known : conversations'[d].project = conversations[d].project
    PROVE  BindingsInv'
<1>1. DOMAIN bindings' = DOMAIN bindings \union {r}
  BY DEF WithRow
<1>2. ASSUME NEW s \in DOMAIN bindings'
      PROVE  bindings'[s] \in Known' /\ conversations'[bindings'[s]].project = ProjectOf[s]
  <2>1. CASE s = r
    BY <2>1 DEF WithRow
  <2>2. CASE s # r
    BY <1>1, <2>2 DEF WithRow, BindingsInv
  <2> QED BY <2>1, <2>2
<1> QED BY <1>1, <1>2 DEF BindingsInv

LEMMA GrowsKeepsProjects ==
    ASSUME NEW c, Grows(c)
    PROVE  Known \subseteq Known' /\ \A d \in Known : conversations'[d].project = conversations[d].project
  BY DEF Grows

LEMMA LegacyGrows ==
    ASSUME ConversationsInv, NEW p \in Projects, WithLegacy(p), UNCHANGED browser
    PROVE  /\ StreamInv' /\ DraftsInv' /\ BrowsersInv'
           /\ Known \subseteq Known' /\ \A d \in Known : conversations'[d].project = conversations[d].project
           /\ Legacy(p) \in Known' /\ conversations'[Legacy(p)].project = p
<1>1. CASE Legacy(p) \in Known
  <2>1. UNCHANGED <<stream, conversations, drafts>> /\ Known' = Known
    BY <1>1 DEF WithLegacy, Known
  <2> QED BY <1>1, <2>1 DEF ConversationsInv, StreamInv, DraftsInv, BrowsersInv, BrowserFollows, EventsUpTo
<1>2. CASE Legacy(p) \notin Known
  <2>1. Opened(Legacy(p), p) /\ Legacy(p) \in ConversationIds \ Known
    BY <1>2 DEF WithLegacy, ConversationIds
  <2>2. \A q \in Projects : Legacy(p) = Legacy(q) => p = q
    BY DEF Legacy
  <2>3. Grows(Legacy(p))
    BY <2>1, <2>2, OpenedGrows DEF ConversationsInv
  <2>4. StreamInv' /\ BrowsersInv'
    BY <2>3, StreamGrows, BrowsersGrow DEF ConversationsInv
  <2>5. DraftsInv'
    BY <2>1, <2>3, DraftOpens DEF ConversationsInv, Grows, Opened
  <2>6. Legacy(p) \in Known' /\ conversations'[Legacy(p)].project = p
    BY <2>3 DEF Grows
  <2> QED BY <2>3, <2>4, <2>5, <2>6, GrowsKeepsProjects
<1> QED BY <1>1, <1>2

(* The same, where nothing is published. *)
LEMMA ConversationsStand ==
    ASSUME ConversationsInv, UNCHANGED <<stream, conversations, drafts, browser>>
    PROVE  StreamInv' /\ DraftsInv' /\ BrowsersInv' /\ Known' = Known
  BY DEF ConversationsInv, StreamInv, DraftsInv, BrowsersInv, BrowserFollows, EventsUpTo, Known

LEMMA CreateRunKeeps ==
    ASSUME ConversationsInv, NEW r \in Runs, NEW c \in ConversationIds, CreateRun(r, c)
    PROVE  ConversationsInv'
<1> DEFINE p == ProjectOf[r]
           created == [conversation |-> c, kind |-> "conversation_created"]
<1>1. /\ p \in Projects /\ stream \in Seq(Event) /\ Len(stream) \in Nat
      /\ c \in Known => conversations[c] \in Header /\ conversations[c].project = p
  BY ConversationsAssumption DEF CreateRun, ConversationsInv, StreamInv
<1>2. \A q \in Projects : c = Legacy(q) => p = q
  BY <1>1 DEF CreateRun, ConversationsInv, StreamInv, Legacy
<1>3. PICK opened :
        /\ opened = IF c \in Known THEN stream ELSE Append(stream, created)
        /\ stream' = Append(opened, [conversation |-> c, kind |-> "run_create"])
  BY DEF CreateRun
<1>4. /\ opened \in Seq(Event) /\ Len(opened) \in {Len(stream), Len(stream) + 1}
      /\ \A n \in 1 .. Len(stream) : opened[n] = stream[n]
      /\ \A n \in Len(stream) + 1 .. Len(opened) : opened[n].conversation = c
  <2>1. CASE c \in Known
    BY <1>1, <1>3, <2>1
  <2>2. CASE c \notin Known
    <3>1. /\ opened \in Seq(Event) /\ Len(opened) = Len(stream) + 1
          /\ \A n \in 1 .. Len(stream) : opened[n] = stream[n]
          /\ opened[Len(opened)].conversation = c
      <4>1. "conversation_created" \in Kinds /\ opened = Append(stream, created)
        BY <1>3, <2>2 DEF Kinds
      <4> QED BY ONLY <1>1, <4>1, c \in ConversationIds, AppendedEvent
    <3> QED BY <1>1, <3>1
  <2> QED BY <2>1, <2>2
<1>5. /\ stream' \in Seq(Event) /\ Len(stream') = Len(opened) + 1
      /\ \A n \in 1 .. Len(opened) : stream'[n] = opened[n]
      /\ stream'[Len(stream')].conversation = c
  <2>1. "run_create" \in Kinds
    BY DEF Kinds
  <2>2. opened \in Seq(Event) /\ stream' = Append(opened, [conversation |-> c, kind |-> "run_create"])
    BY <1>3, <1>4
  <2> QED BY ONLY <2>1, <2>2, c \in ConversationIds, AppendedEvent
<1>6. /\ \A n \in 1 .. Len(stream) : stream'[n] = stream[n]
      /\ \A n \in Len(stream) + 1 .. Len(stream') : stream'[n].conversation = c
  <2>1. Len(opened) \in Nat
    BY <1>4
  <2> QED BY <1>1, <1>4, <1>5, <2>1
<1>7. /\ DOMAIN conversations' = DOMAIN conversations \union {c}
      /\ \A d \in Known \ {c} : conversations'[d] = conversations[d]
      /\ conversations'[c] = [project |-> p, last |-> Len(stream'),
                              revision |-> IF c \in Known THEN conversations[c].revision ELSE 1]
  BY DEF CreateRun, WithRow, Known
<1>8. conversations'[c] \in Header /\ conversations'[c].last = Len(stream') /\ conversations'[c].project = p
  BY <1>1, <1>5, <1>7 DEF Header
<1>9. Grows(c)
  BY <1>1, <1>2, <1>4, <1>5, <1>6, <1>7, <1>8 DEF Grows, Known
<1>10. DraftsInv'
  <2>1. CASE c \in Known
    BY <1>9, <2>1, DraftsStay DEF CreateRun, Grows, ConversationsInv
  <2>2. CASE c \notin Known
    BY <1>9, <2>2, DraftOpens DEF CreateRun, Grows, ConversationsInv
  <2> QED BY <2>1, <2>2
<1>11. BindingsInv'
  <2>1. c \in Known' /\ bindings' = WithRow(bindings, r, c)
    BY <1>9 DEF Grows, CreateRun
  <2> QED BY <1>8, <1>9, <2>1, BindingAdded, GrowsKeepsProjects DEF ConversationsInv
<1>12. browser' = browser
  BY DEF CreateRun
<1> QED BY <1>9, <1>10, <1>11, <1>12, StreamGrows, BrowsersGrow DEF ConversationsInv

LEMMA RunCommandKeeps ==
    ASSUME ConversationsInv, NEW r \in Runs, RunCommand(r)
    PROVE  ConversationsInv'
<1>1. PICK c : c = bindings[r]
  OBVIOUS
<1>2. c \in Known /\ c \in ConversationIds /\ conversations[c] \in Header
      /\ stream \in Seq(Event) /\ Len(stream) \in Nat
  BY <1>1 DEF RunCommand, ConversationsInv, BindingsInv, StreamInv
<1>3. /\ stream' \in Seq(Event) /\ Len(stream') = Len(stream) + 1
      /\ \A n \in 1 .. Len(stream) : stream'[n] = stream[n]
      /\ stream'[Len(stream')].conversation = c
  <2>1. "run_command" \in Kinds
    BY DEF Kinds
  <2>2. stream' = Append(stream, [conversation |-> c, kind |-> "run_command"])
    BY <1>1 DEF RunCommand
  <2> QED BY ONLY <1>2, <2>1, <2>2, AppendedEvent
<1>4. /\ DOMAIN conversations' = DOMAIN conversations
      /\ \A d \in Known \ {c} : conversations'[d] = conversations[d]
      /\ conversations'[c] = [conversations[c] EXCEPT !.last = Len(stream')]
  BY <1>1, <1>2 DEF RunCommand, Known
<1>5. /\ conversations'[c] \in Header /\ conversations'[c].last = Len(stream')
      /\ conversations'[c].project = conversations[c].project
  BY <1>2, <1>3, <1>4 DEF Header
<1>6. \A n \in Len(stream) + 1 .. Len(stream') : n = Len(stream')
  BY <1>2, <1>3
<1>7. \A p \in Projects : c = Legacy(p) => conversations'[c].project = p
  BY <1>2, <1>5 DEF ConversationsInv, StreamInv
<1>8. Grows(c) /\ Known' = Known
  <2>1. \A n \in Len(stream) + 1 .. Len(stream') : stream'[n].conversation = c
    BY ONLY <1>3, <1>6
  <2>2. c \in Known
    BY <1>2
  <2>3. Known' = Known /\ Known' = Known \union {c}
    BY ONLY <1>4, <2>2 DEF Known
  <2>4. Len(stream) < Len(stream')
    BY ONLY <1>2, <1>3
  <2> QED BY ONLY <1>2, <1>3, <1>4, <1>5, <1>7, <2>1, <2>3, <2>4 DEF Grows
<1>9. UNCHANGED <<drafts, bindings, browser>>
  BY DEF RunCommand
<1> QED BY <1>8, <1>9, StreamGrows, BindingsGrow, BrowsersGrow, DraftsStay DEF ConversationsInv

LEMMA BindRunKeeps ==
    ASSUME ConversationsInv, NEW r \in Runs, NEW c \in ConversationIds, BindRun(r, c)
    PROVE  ConversationsInv'
<1>1. ProjectOf[r] \in Projects /\ bindings' = WithRow(bindings, r, c) /\ UNCHANGED browser
  BY ConversationsAssumption DEF BindRun
<1>2. CASE c = Legacy(ProjectOf[r])
  <2>1. WithLegacy(ProjectOf[r])
    BY <1>2 DEF BindRun
  <2> QED BY <1>1, <1>2, <2>1, LegacyGrows, BindingAdded DEF ConversationsInv
<1>3. CASE c # Legacy(ProjectOf[r])
  <2>1. UNCHANGED <<stream, conversations, drafts>> /\ c \in Known /\ conversations[c].project = ProjectOf[r]
    BY <1>3 DEF BindRun
  <2> QED BY <1>1, <2>1, ConversationsStand, BindingAdded DEF ConversationsInv
<1> QED BY <1>2, <1>3

LEMMA MigrateRunKeeps ==
    ASSUME ConversationsInv, NEW r \in Runs, MigrateRun(r)
    PROVE  ConversationsInv'
<1>1. ProjectOf[r] \in Projects /\ UNCHANGED browser
  BY ConversationsAssumption DEF MigrateRun
<1>2. CASE WithLegacy(ProjectOf[r]) /\ bindings' = WithRow(bindings, r, Legacy(ProjectOf[r]))
  BY <1>1, <1>2, LegacyGrows, BindingAdded DEF ConversationsInv
<1>3. CASE /\ DeclaredOf[r] \in Known /\ conversations[DeclaredOf[r]].project = ProjectOf[r]
           /\ bindings' = WithRow(bindings, r, DeclaredOf[r]) /\ UNCHANGED <<stream, conversations, drafts>>
  BY <1>1, <1>3, ConversationsStand, BindingAdded DEF ConversationsInv
<1>4. CASE UNCHANGED <<bindings, stream, conversations, drafts>>
  BY <1>1, <1>4, StoresStay
<1> QED BY <1>2, <1>3, <1>4 DEF MigrateRun

-----------------------------------------------------------------------------
LEMMA BrowserMoves ==
    ASSUME ConversationsInv, NEW b \in Browsers, NEW w, BrowserFollows(w),
           browser' = [browser EXCEPT ![b] = w],
           UNCHANGED <<conversations, drafts, stream, bindings>>
    PROVE  ConversationsInv'
<1>1. StreamInv' /\ DraftsInv' /\ BindingsInv'
  BY DEF ConversationsInv, StreamInv, DraftsInv, BindingsInv, Known
<1>2. \A v : BrowserFollows(v) => BrowserFollows(v)'
  BY DEF BrowserFollows, EventsUpTo, Known
<1>3. browser' \in [Browsers -> Following \union {None}]
  BY DEF ConversationsInv, BrowsersInv, BrowserFollows
<1>4. ASSUME NEW a \in Browsers, browser'[a] # None PROVE BrowserFollows(browser[a])'
  <2>1. PICK v : v = browser'[a]
    OBVIOUS
  <2>2. BrowserFollows(v)
    BY <1>4, <2>1 DEF ConversationsInv, BrowsersInv
  <2>3. BrowserFollows(v)'
    BY <1>2, <2>2
  <2> QED BY <2>1, <2>3 DEF BrowserFollows
<1> QED BY <1>1, <1>3, <1>4 DEF ConversationsInv, BrowsersInv

LEMMA TakeSnapshotKeeps ==
    ASSUME ConversationsInv, NEW b \in Browsers, NEW c \in Known, TakeSnapshot(b, c)
    PROVE  ConversationsInv'
<1>1. PICK w : /\ w = [conversation |-> c, cursor |-> conversations[c].last, draft |-> drafts[c].revision,
                       seen |-> EventsUpTo(c, Len(stream))]
               /\ browser' = [browser EXCEPT ![b] = w]
  BY DEF TakeSnapshot
<1>2. /\ c \in ConversationIds /\ conversations[c].last \in 1 .. Len(stream) /\ Len(stream) \in Nat
      /\ stream[conversations[c].last].conversation = c /\ drafts[c].revision \in Nat
  BY DEF ConversationsInv, StreamInv, DraftsInv
<1>3. EventsUpTo(c, conversations[c].last) \in SUBSET Nat
  BY DEF EventsUpTo
<1>6. EventsUpTo(c, Len(stream)) = EventsUpTo(c, conversations[c].last)
  BY <1>2 DEF ConversationsInv, StreamInv, EventsUpTo
<1>4. BrowserFollows(w)
  BY <1>1, <1>2, <1>3, <1>6 DEF BrowserFollows, Following
<1>5. UNCHANGED <<conversations, drafts, stream, bindings>>
  BY DEF TakeSnapshot
<1> QED BY <1>1, <1>4, <1>5, BrowserMoves

LEMMA FollowEventsKeeps ==
    ASSUME ConversationsInv, NEW b \in Browsers, FollowEvents(b)
    PROVE  ConversationsInv'
<1>1. PICK v : v = browser[b]
  OBVIOUS
<1>2. BrowserFollows(v) /\ Len(stream) \in Nat
  BY <1>1 DEF FollowEvents, ConversationsInv, BrowsersInv, StreamInv
<1>3. PICK last \in EventsAfter(v.conversation, v.cursor) :
        browser' = [browser EXCEPT ![b].cursor = last, ![b].seen = @ \union Delivered(v.conversation, v.cursor, last)]
  BY <1>1 DEF FollowEvents
<1>4. /\ last \in 1 .. Len(stream) /\ v.cursor < last /\ stream[last].conversation = v.conversation
  BY <1>2, <1>3 DEF EventsAfter, BrowserFollows
<1>5. v.seen \union Delivered(v.conversation, v.cursor, last) = EventsUpTo(v.conversation, last)
  BY <1>2, <1>4 DEF BrowserFollows, EventsUpTo, EventsAfter, Delivered
<1>6. PICK w : w = [v EXCEPT !.cursor = last, !.seen = @ \union Delivered(v.conversation, v.cursor, last)]
  OBVIOUS
<1>7. browser' = [browser EXCEPT ![b] = w]
  BY <1>1, <1>3, <1>6
<1>8. EventsUpTo(v.conversation, last) \in SUBSET Nat
  BY DEF EventsUpTo
<1>9. /\ w \in Following /\ w.conversation = v.conversation /\ w.cursor = last
      /\ w.seen = EventsUpTo(v.conversation, last)
  <2>1. v \in Following /\ last \in Nat
    BY <1>2, <1>4 DEF BrowserFollows
  <2>2. PICK S \in SUBSET Nat : S = EventsUpTo(v.conversation, last)
    BY <1>8
  <2>3. w = [conversation |-> v.conversation, cursor |-> last, draft |-> v.draft, seen |-> S]
    BY ONLY <1>5, <1>6, <2>1, <2>2 DEF Following
  <2>4. v.conversation \in ConversationIds /\ v.draft \in Nat
    BY ONLY <2>1 DEF Following
  <2> QED BY ONLY <2>1, <2>2, <2>3, <2>4 DEF Following
<1>10. BrowserFollows(w)
  BY <1>2, <1>4, <1>9 DEF BrowserFollows
<1>11. UNCHANGED <<conversations, drafts, stream, bindings>>
  BY DEF FollowEvents
<1> QED BY <1>7, <1>10, <1>11, BrowserMoves

LEMMA ConversationsStart == ConversationsInit => ConversationsInv
<1> SUFFICES ASSUME ConversationsInit PROVE ConversationsInv
  OBVIOUS
<1>1. StreamInv /\ DraftsInv /\ BindingsInv
  BY DEF ConversationsInit, StreamInv, DraftsInv, BindingsInv, Known
<1>2. BrowsersInv
  BY DEF ConversationsInit, BrowsersInv
<1> QED BY <1>1, <1>2 DEF ConversationsInv

LEMMA ConversationsInvariance == ConversationsSpec => []ConversationsInv
<1>1. ConversationsInit => ConversationsInv
  BY ConversationsStart
<1>2. ConversationsInv /\ [ConversationsNext]_conversationVars => ConversationsInv'
  <2> SUFFICES ASSUME ConversationsInv, [ConversationsNext]_conversationVars PROVE ConversationsInv'
    OBVIOUS
  <2>1. CASE UNCHANGED conversationVars
    BY <2>1, StoresStay DEF conversationVars
  <2>2. ASSUME NEW k \in CommandKeys, NEW c \in Threads, NEW p \in Projects, CreateConversation(k, c, p)
        PROVE  ConversationsInv'
    BY <2>2, CreateConversationKeeps
  <2>3. ASSUME NEW k \in CommandKeys, NEW c \in Known,
               \/ \E n \in 1 .. MaxEvents : SaveSettings(k, c, n)
               \/ \E m \in MessageIds : PostMessage(k, c, m)
               \/ ProposeTask(k, c)
        PROVE  ConversationsInv'
    BY <2>3, SaveSettingsKeeps, PostMessageKeeps, ProposeTaskKeeps
  <2>4. ASSUME NEW k \in CommandKeys, NEW b \in Browsers, SaveDraft(b, k) PROVE ConversationsInv'
    BY <2>4, SaveDraftKeeps
  <2>5. ASSUME NEW r \in Runs, OldRun(r) \/ RunCommand(r) \/ MigrateRun(r) PROVE ConversationsInv'
    <3>1. CASE OldRun(r)
      BY <3>1, StoresStay DEF OldRun
    <3> QED BY <2>5, <3>1, RunCommandKeeps, MigrateRunKeeps
  <2>6. ASSUME NEW r \in Runs, NEW c \in ConversationIds, CreateRun(r, c) \/ BindRun(r, c)
        PROVE  ConversationsInv'
    BY <2>6, CreateRunKeeps, BindRunKeeps
  <2>7. ASSUME NEW b \in Browsers, (\E c \in Known : TakeSnapshot(b, c)) \/ FollowEvents(b)
        PROVE  ConversationsInv'
    BY <2>7, TakeSnapshotKeeps, FollowEventsKeeps
  <2> QED BY <2>1, <2>2, <2>3, <2>4, <2>5, <2>6, <2>7 DEF ConversationsNext
<1> QED BY <1>1, <1>2, PTL DEF ConversationsSpec

(***************************************************************************)
(* Whatever is published, bound and migrated between, a client that takes  *)
(* a snapshot and follows its cursor has seen every event of its           *)
(* conversation, no draft replaces an edit its author had not read, and a  *)
(* Run is shown in a conversation of its own project.                      *)
(***************************************************************************)
THEOREM EventsAreSeen == ConversationsSpec => []ConversationsAreFollowed
<1>1. ConversationsInv => ConversationsAreFollowed
  <2> SUFFICES ASSUME ConversationsInv PROVE ConversationsAreFollowed
    OBVIOUS
  <2>1. ASSUME NEW c \in Known
        PROVE  EventsAfter(c, conversations[c].last) = {} /\ drafts[c].over = drafts[c].revision - 1
    <3>1. conversations[c].last \in Nat /\ Len(stream) \in Nat
      BY DEF ConversationsInv, StreamInv, Header
    <3>2. EventsAfter(c, conversations[c].last) = {}
      BY <3>1 DEF ConversationsInv, StreamInv, EventsAfter
    <3> QED BY <3>2 DEF ConversationsInv, DraftsInv
  <2>2. ASSUME NEW b \in Browsers, browser[b] # None
        PROVE  /\ browser[b].seen = EventsUpTo(browser[b].conversation, browser[b].cursor)
               /\ KnownCursor(browser[b].conversation, browser[b].cursor)
    BY <2>2 DEF ConversationsInv, BrowsersInv, BrowserFollows, StreamInv, KnownCursor
  <2>3. ASSUME NEW r \in planned, BindingStatus(r) # None
        PROVE  conversations[BindingStatus(r)].project = ProjectOf[r]
    BY <2>3 DEF BindingStatus, ConversationsInv, BindingsInv
  <2> QED BY <2>1, <2>2, <2>3 DEF ConversationsAreFollowed
<1> QED BY <1>1, ConversationsInvariance, PTL

-----------------------------------------------------------------------------
(***************************************************************************)
(* Routing.  Classes are 1 to 3, and the floor of a classification is the  *)
(* highest of what it names.                                               *)
(***************************************************************************)
LEMMA HighestClass ==
    ASSUME NEW S \in SUBSET Classes, S # {}
    PROVE  Max(S) \in S /\ \A y \in S : Max(S) >= y
<1>1. \E x \in S : \A y \in S : x >= y
  <2>1. CASE 3 \in S
    BY <2>1 DEF Classes
  <2>2. CASE 3 \notin S /\ 2 \in S
    BY <2>2 DEF Classes
  <2>3. CASE 3 \notin S /\ 2 \notin S
    <3>1. \A y \in S : y = 1
      BY <2>3 DEF Classes
    <3> QED BY <3>1
  <2> QED BY <2>1, <2>2, <2>3
<1> QED BY <1>1 DEF Max

LEMMA FloorIsClass ==
    ASSUME NEW task, Mapped(task)
    PROVE  Floor(task) \in Classes
<1> DEFINE S == {task.complexity, RiskClass[task.risk]} \union task.floors
<1>1. S \in SUBSET Classes /\ S # {}
  BY RoutingAssumption DEF Mapped, Classified
<1>2. Max(S) \in Classes
  <2> HIDE DEF S
  <2> QED BY <1>1, HighestClass
<1> QED BY <1>2 DEF Floor

LEMMA EffectiveIsHighest ==
    ASSUME NEW task, Mapped(task), \A author \in task.authors : Mapped(author)
    PROVE  /\ EffectiveClass(task) \in Classes
           /\ task.role = "reviewer" => \A author \in task.authors : EffectiveClass(task) >= Floor(author)
<1>1. CASE task.role # "reviewer"
  BY <1>1, FloorIsClass DEF EffectiveClass
<1>2. CASE task.role = "reviewer"
  <2> DEFINE S == {Floor(x) : x \in {task} \union task.authors}
  <2>1. S \in SUBSET Classes /\ S # {}
    BY FloorIsClass
  <2>2. \A author \in task.authors : Floor(author) \in S
    OBVIOUS
  <2>3. EffectiveClass(task) = Max(S)
    BY <1>2 DEF EffectiveClass
  <2> HIDE DEF S
  <2>4. Max(S) \in Classes /\ \A y \in S : Max(S) >= y
    BY <2>1, HighestClass
  <2> QED BY <2>2, <2>3, <2>4
<1> QED BY <1>1, <1>2

-----------------------------------------------------------------------------
(* What both rules ask of a field, the task has; and a higher rule that covers it matches. *)
LEMMA EitherHas ==
    ASSUME NEW a, NEW b, NEW values, NEW x, a \in {None, x}, b \in {None, x},
           x \in values
    PROVE  x \in Either(a, b, values) /\ Agree(a, b)
<1>1. CASE a = None /\ b = None
  BY <1>1 DEF Either, Agree
<1>2. CASE ~(a = None /\ b = None)
  BY <1>2 DEF Either, Agree
<1> QED BY <1>1, <1>2

LEMMA AmbiguityIsFound ==
    ASSUME NEW book \in Rulebooks, NEW task \in Requests,
           NEW i \in Highest(task, book), NEW j \in Highest(task, book), i # j
    PROVE  Ambiguous(book)
<1> DEFINE left == book[i]
           right == book[j]
           higher == {book[k] : k \in {k \in DOMAIN book : /\ book[k].priority > book[i].priority
                                                           /\ book[k].role = book[i].role}}
           class == EffectiveClass(task)
           both == left.risks # {} /\ right.risks # {}
           risks == IF both THEN left.risks \intersect right.risks ELSE left.risks \union right.risks
           risk == IF risks = {} THEN None ELSE task.risk
           domains == left.domains \union right.domains
<1>1. /\ i \in DOMAIN book /\ j \in DOMAIN book
      /\ Matching(left, task) /\ Matching(right, task)
      /\ \A k \in DOMAIN book : Matching(book[k], task) => book[k].priority <= book[i].priority
      /\ book[i].priority <= book[j].priority /\ book[j].priority <= book[i].priority
  BY DEF Highest
<1>2. \A k \in DOMAIN book : book[k].priority \in Int /\ None \notin book[k].risks
  BY RoutingAssumption
<1>3. left.priority = right.priority
  BY <1>1, <1>2
<1>4. class \in Classes /\ task.readiness \in {"ready", "T0"}
      /\ task.purpose \in IF task.role = "commander" THEN {"lead", "advice"} ELSE {None}
  BY RoutingAssumption, EffectiveIsHighest DEF Asked
<1>5. class \in RuleClasses(left) \intersect RuleClasses(right)
  BY <1>1, <1>4 DEF Matching, RuleClasses
<1>6. /\ left.role = task.role /\ right.role = task.role
      /\ left.purpose \in {None, task.purpose} /\ right.purpose \in {None, task.purpose}
      /\ left.readiness \in {None, task.readiness} /\ right.readiness \in {None, task.readiness}
      /\ left.risks = {} \/ task.risk \in left.risks
      /\ right.risks = {} \/ task.risk \in right.risks
      /\ domains \subseteq task.domains
  BY <1>1 DEF Matching
<1>7. /\ task.purpose \in Either(left.purpose, right.purpose,
                                 IF left.role = "commander" THEN {"lead", "advice"} ELSE {None})
      /\ Agree(left.purpose, right.purpose)
  BY <1>4, <1>6, EitherHas
<1>8. task.readiness \in Either(left.readiness, right.readiness, {"ready", "T0"})
      /\ Agree(left.readiness, right.readiness)
  BY <1>4, <1>6, EitherHas
<1>9. risks # {} => task.risk \in risks
  BY <1>6
<1>10. both => risks # {}
  BY <1>6
<1>11. risk \in IF risks = {} THEN {None} ELSE risks
  BY <1>9
<1>12. ASSUME NEW k \in DOMAIN book, book[k].priority > book[i].priority, book[k].role = book[i].role,
              Covers(book[k], class, risk, task.purpose, task.readiness, domains)
       PROVE  FALSE
  <2>1. book[k].risks = {} \/ task.risk \in book[k].risks
    BY <1>2, <1>12 DEF Covers
  <2>2. book[k].classes = {} \/ class \in book[k].classes
    BY <1>12 DEF Covers, RuleClasses
  <2>3. Matching(book[k], task)
    BY <1>6, <1>12, <2>1, <2>2 DEF Covers, Matching
  <2>4. book[k].priority \in Int /\ book[i].priority \in Int /\ book[k].priority <= book[i].priority
    BY <1>1, <1>2, <2>3
  <2> QED BY <1>12, <2>4
<1>13. \A rule \in higher : ~Covers(rule, class, risk, task.purpose, task.readiness, domains)
  BY <1>12
<1>14. Agree(left.role, right.role)
  BY <1>6 DEF Agree
<1>15. Overlap(left, right, higher)
  <2> HIDE DEF higher, class, risk
  <2> QED BY <1>5, <1>7, <1>8, <1>10, <1>11, <1>13, <1>14 DEF Overlap
<1> QED BY <1>1, <1>3, <1>15 DEF Ambiguous

LEMMA OneHighest ==
    ASSUME NEW book \in Rulebooks, ~Ambiguous(book), NEW task \in Requests
    PROVE  Cardinality(Highest(task, book)) <= 1
<1>1. \A i, j \in Highest(task, book) : i = j
  BY AmbiguityIsFound
<1>2. CASE Highest(task, book) = {}
  BY <1>2, FS_EmptySet
<1>3. CASE Highest(task, book) # {}
  <2>1. PICK i \in Highest(task, book) : TRUE
    BY <1>3
  <2>2. Highest(task, book) = {i}
    BY <1>1, <2>1
  <2> QED BY <2>2, FS_Singleton
<1> QED BY <1>2, <1>3

-----------------------------------------------------------------------------
(***************************************************************************)
(* A route that stands suits its task: the profile is strong enough for    *)
(* the work, and of another family than its author's where asked for.      *)
(***************************************************************************)
Strong(t) == Registered[assessments[t].profile].maxClass >= Floor(plan[WorkOf(t)])
Apart(t) ==
    Reviews(t) /\ rulebook[SelectRule(Classification(t), rulebook)].independence =>
        Registered[assessments[t].profile].family # Registered[AuthorOf(t)].family
Suits(t) == Strong(t) /\ Apart(t)

FenceFollows ==
    /\ fence.task \in held /\ Reviews(fence.task) /\ Suits(fence.task)
    /\ fence.qualification = qualified[assessments[fence.task].profile]
    /\ fence.quota \in Int /\ fence.quota <= pool.at + Limits.age

CrossingFollows(x) ==
    /\ x.task \in held /\ Suits(x.task)
    /\ x.profile = assessments[x.task].profile
    /\ Reviews(x.task) => x.at < x.until /\ x.at <= x.seen + Limits.age

RoutingInv ==
    /\ clock \in Int /\ pool.at \in Int
    /\ held \subseteq Tasks /\ DOMAIN assessments = Tasks
    /\ rulebook = None =>
          held = {} /\ crossings = {} /\ fence = None /\ \A t \in Tasks : assessments[t] = None
    /\ rulebook # None => rulebook \in Rulebooks /\ plan \in Plans
    /\ \A t \in Tasks : assessments[t] # None =>
          assessments[t].profile # None /\ (Reviews(t) => WorkOf(t) \in held)
    /\ \A t \in held : assessments[t] # None
    /\ fence # None => FenceFollows
    /\ \A x \in crossings : CrossingFollows(x)

LEMMA SelectedFits ==
    ASSUME NEW t \in Tasks, plan \in Plans, NEW p, p # None, Selected(t, p) # None
    PROVE  /\ Registered[p].maxClass >= Floor(plan[WorkOf(t)])
           /\ Reviews(t) /\ rulebook[SelectRule(Classification(t), rulebook)].independence =>
                 Registered[p].family # Registered[AuthorOf(t)].family
<1> DEFINE class == EffectiveClass(Classification(t))
           id == SelectRule(Classification(t), rulebook)
           work == plan[WorkOf(t)]
<1>1. Fit(p, t, rulebook[id], class) /\ id # None
  BY DEF Selected
<1>2. Classification(t).risk \in DOMAIN RiskClass
  BY <1>1 DEF SelectRule
<1>3. /\ Classification(t).risk = work.risk /\ Classification(t).complexity = work.complexity
      /\ Classification(t).floors = work.floors /\ Classification(t).role = plan[t].role
      /\ Classification(t).authors = IF Reviews(t) THEN {work} ELSE {}
  BY DEF Classification
<1>4. WorkOf(t) \in Tasks
  BY RoutingAssumption DEF WorkOf, Reviews
<1>5. Mapped(work)
  BY <1>2, <1>3, <1>4, RoutingAssumption DEF Mapped
<1>6. Mapped(Classification(t)) /\ \A author \in Classification(t).authors : Mapped(author)
  BY <1>3, <1>5 DEF Mapped, Classified
<1>7. class \in Classes /\ class >= Floor(work)
  <2>1. CASE Reviews(t)
    BY <1>3, <1>6, <2>1, EffectiveIsHighest DEF Reviews
  <2>2. CASE ~Reviews(t)
    <3>1. class = Floor(Classification(t))
      BY <1>3, <2>2 DEF EffectiveClass, Reviews
    <3>2. Floor(Classification(t)) = Floor(work)
      BY <1>3 DEF Floor
    <3>3. Floor(work) \in Classes
      BY <1>5, FloorIsClass
    <3> QED BY <3>1, <3>2, <3>3 DEF Classes
  <2> QED BY <2>1, <2>2
<1>8. p \in Granted /\ Registered[p].maxClass >= class /\ Registered[p].maxClass \in Int
  BY <1>1, RoutingAssumption DEF Fit
<1>9. Floor(work) \in Classes
  BY <1>5, FloorIsClass
<1>10. Registered[p].maxClass >= Floor(work)
  <2> HIDE DEF class, work
  <2> QED BY <1>7, <1>8, <1>9 DEF Classes
<1> QED BY <1>1, <1>10 DEF Fit

LEMMA StandingSuits ==
    ASSUME RoutingInv, NEW t \in Tasks, Stands(t)
    PROVE  t \in held /\ Suits(t)
<1>1. t \in held /\ assessments[t] # None /\ Selected(t, assessments[t].profile) # None
  BY DEF Stands
<1>2. assessments[t].profile # None /\ plan \in Plans
  BY <1>1 DEF RoutingInv
<1>3. PICK p : p = assessments[t].profile
  OBVIOUS
<1> QED BY <1>1, <1>2, <1>3, SelectedFits DEF Suits, Strong, Apart

(* While the Run's configuration, its plan and the routes of held tasks stay, so do the facts about them. *)
Settled ==
    /\ rulebook' = rulebook /\ plan' = plan /\ held \subseteq held' /\ held' \subseteq Tasks
    /\ DOMAIN assessments' = Tasks
    /\ \A t \in held : assessments'[t] = assessments[t]

LEMMA SettledSuits ==
    ASSUME RoutingInv, Settled, NEW t \in held, Suits(t)
    PROVE  Suits(t)' /\ (Reviews(t)' <=> Reviews(t)) /\ assessments'[t] = assessments[t]
<1>1. Reviews(t)' = Reviews(t) /\ WorkOf(t)' = WorkOf(t) /\ Classification(t)' = Classification(t)
      /\ plan' = plan /\ rulebook' = rulebook
  BY DEF Settled, Reviews, WorkOf, Classification
<1>2. WorkOf(t) \in held
  BY DEF RoutingInv, WorkOf
<1>3. AuthorOf(t)' = AuthorOf(t) /\ assessments'[t] = assessments[t]
  BY <1>1, <1>2 DEF AuthorOf, Settled
<1>4. SelectRule(Classification(t), rulebook)' = SelectRule(Classification(t), rulebook)
  BY <1>1 DEF SelectRule, Highest, Matching, EffectiveClass, Floor
<1>5. Floor(plan[WorkOf(t)])' = Floor(plan[WorkOf(t)])
  BY <1>1 DEF Floor
<1> QED BY <1>1, <1>3, <1>4, <1>5 DEF Suits, Strong, Apart

LEMMA CrossingsStay ==
    ASSUME RoutingInv, Settled, NEW x \in crossings
    PROVE  CrossingFollows(x)'
<1>1. CrossingFollows(x)
  BY DEF RoutingInv
<1>2. PICK t \in held : t = x.task
  BY <1>1 DEF CrossingFollows
<1>3. Suits(t)' /\ (Reviews(t)' <=> Reviews(t)) /\ assessments'[t] = assessments[t]
  BY <1>1, <1>2, SettledSuits DEF CrossingFollows
<1> QED BY <1>1, <1>2, <1>3 DEF CrossingFollows, Settled, Suits, Strong, Apart, Reviews, WorkOf, AuthorOf, Classification

-----------------------------------------------------------------------------
(* A step that settles nothing new but may add one crossing, or a fence. *)
LEMMA RoutingMoves ==
    ASSUME RoutingInv, Settled, clock' \in Int, pool'.at \in Int,
           rulebook = None => held' = {} /\ crossings' = {} /\ fence' = None /\ assessments' = assessments,
           \A t \in Tasks : assessments'[t] # None /\ assessments'[t] # assessments[t] =>
               assessments'[t].profile # None /\ (Reviews(t) => WorkOf(t) \in held),
           \A t \in held' \ held : assessments'[t] # None,
           fence' # None => FenceFollows',
           \A x \in crossings' \ crossings : CrossingFollows(x)'
    PROVE  RoutingInv'
<1>1. \A x \in crossings' : CrossingFollows(x)'
  BY CrossingsStay
<1>2. \A t \in Tasks : (Reviews(t)' <=> Reviews(t)) /\ WorkOf(t)' = WorkOf(t)
  BY DEF Settled, Reviews, WorkOf
<1>3. \A t \in Tasks : assessments'[t] # None =>
         assessments'[t].profile # None /\ (Reviews(t)' => WorkOf(t)' \in held')
  BY <1>2 DEF RoutingInv, Settled
<1>4. \A t \in held' : assessments'[t] # None
  BY DEF RoutingInv, Settled
<1>5. rulebook' = None =>
          held' = {} /\ crossings' = {} /\ fence' = None /\ \A t \in Tasks : assessments'[t] = None
  BY DEF RoutingInv, Settled
<1>6. rulebook' # None => rulebook' \in Rulebooks /\ plan' \in Plans
  BY DEF RoutingInv, Settled
<1> QED BY <1>1, <1>3, <1>4, <1>5, <1>6 DEF RoutingInv, Settled

LEMMA NothingRouted ==
    ASSUME RoutingInv, UNCHANGED <<rulebook, plan, assessments, held>>
    PROVE  Settled
  BY DEF RoutingInv, Settled

LEMMA FreezeKeeps ==
    ASSUME RoutingInv, FreezeRulebook
    PROVE  RoutingInv'
<1>1. /\ held = {} /\ crossings = {} /\ fence = None /\ \A t \in Tasks : assessments[t] = None
      /\ UNCHANGED <<clock, pool, assessments, held, fence, crossings>>
      /\ rulebook' \in Rulebooks /\ plan' \in Plans
  BY DEF RoutingInv, FreezeRulebook, worldVars
<1> QED BY <1>1 DEF RoutingInv

LEMMA AssessKeeps ==
    ASSUME RoutingInv, NEW t \in Tasks, Assess(t)
    PROVE  RoutingInv'
<1>1. PICK route : /\ route.profile # None
                   /\ assessments' = [assessments EXCEPT ![t] = route]
  BY DEF Assess, Sources
<1>2. /\ rulebook # None /\ fence = None /\ assessments[t] = None
      /\ Reviews(t) => WorkOf(t) \in held
      /\ UNCHANGED <<rulebook, plan, clock, pool, held, fence, crossings>>
  BY DEF Assess, worldVars
<1>3. Settled
  BY <1>1, <1>2 DEF RoutingInv, Settled
<1>4. clock' \in Int /\ pool'.at \in Int
  BY <1>2 DEF RoutingInv
<1>5. \A s \in Tasks : assessments'[s] # assessments[s] => s = t /\ assessments'[s] = route
  BY <1>1 DEF RoutingInv
<1> QED BY <1>1, <1>2, <1>3, <1>4, <1>5, RoutingMoves

LEMMA ReserveKeeps ==
    ASSUME RoutingInv, NEW t \in Tasks, Reserve(t)
    PROVE  RoutingInv'
<1>1. /\ fence = None /\ assessments[t] # None /\ held' = held \union {t}
      /\ UNCHANGED <<rulebook, plan, clock, pool, assessments, fence, crossings>>
  BY DEF Reserve, worldVars
<1>2. rulebook # None
  BY <1>1 DEF RoutingInv
<1>3. Settled
  BY <1>1 DEF RoutingInv, Settled
<1>4. clock' \in Int /\ pool'.at \in Int
  BY <1>1 DEF RoutingInv
<1> QED BY <1>1, <1>2, <1>3, <1>4, RoutingMoves

LEMMA CrossWorkerKeeps ==
    ASSUME RoutingInv, NEW t \in Tasks, CrossWorker(t)
    PROVE  RoutingInv'
<1>1. /\ fence = None /\ Stands(t) /\ ~Reviews(t)
      /\ crossings' = crossings \union {Crossing(t)}
      /\ UNCHANGED <<rulebook, plan, clock, pool, assessments, held, fence>>
  BY DEF CrossWorker, worldVars
<1>2. t \in held /\ Suits(t)
  BY <1>1, StandingSuits
<1>3. Settled
  BY <1>1, NothingRouted
<1>4. rulebook # None
  BY <1>2 DEF RoutingInv
<1>5. PICK x : x = Crossing(t)
  OBVIOUS
<1>6. x.task = t /\ x.profile = assessments[t].profile
  BY <1>5 DEF Crossing
<1>7. CrossingFollows(x)
  BY <1>1, <1>2, <1>6 DEF CrossingFollows
<1>8. CrossingFollows(x)'
  BY <1>1, <1>7 DEF CrossingFollows, Suits, Strong, Apart, Reviews, WorkOf, AuthorOf, Classification
<1>9. clock' \in Int /\ pool'.at \in Int
  BY <1>1 DEF RoutingInv
<1> QED BY <1>1, <1>3, <1>4, <1>5, <1>8, <1>9, RoutingMoves

LEMMA EnterBoundaryKeeps ==
    ASSUME RoutingInv, NEW t \in Tasks, EnterBoundary(t)
    PROVE  RoutingInv'
<1>1. /\ fence = None /\ Stands(t) /\ Reviews(t)
      /\ UNCHANGED <<rulebook, plan, clock, pool, qualified, assessments, held, crossings>>
  BY DEF EnterBoundary, worldVars
<1>2. t \in held /\ Suits(t)
  BY <1>1, StandingSuits
<1>3. Settled /\ rulebook # None
  BY <1>1, <1>2, NothingRouted DEF RoutingInv
<1>4. Min({Limits.age, Limits.unknownAge}) <= Limits.age /\ Min({Limits.age, Limits.unknownAge}) \in Int
  <2>1. \E a \in {Limits.age, Limits.unknownAge} : \A b \in {Limits.age, Limits.unknownAge} : a <= b
    BY RoutingAssumption
  <2> QED BY <2>1, RoutingAssumption DEF Min
<1>5. PICK f : /\ fence' = f /\ f.task = t
               /\ f.qualification = qualified[assessments[t].profile]
               /\ f.quota = pool.at + Min({Limits.age, Limits.unknownAge})
  BY DEF EnterBoundary
<1>6. f.quota \in Int /\ f.quota <= pool.at + Limits.age
  BY <1>4, <1>5, RoutingAssumption DEF RoutingInv
<1>7. Suits(t)' /\ Reviews(t)'
  BY <1>1, <1>2, <1>3, SettledSuits
<1>8. FenceFollows'
  BY <1>1, <1>2, <1>5, <1>6, <1>7 DEF FenceFollows
<1>9. clock' \in Int /\ pool'.at \in Int
  BY <1>1 DEF RoutingInv
<1> QED BY <1>1, <1>3, <1>8, <1>9, RoutingMoves

LEMMA CrossReviewerKeeps ==
    ASSUME RoutingInv, CrossReviewer
    PROVE  RoutingInv'
<1>1. /\ fence # None /\ FenceHolds /\ fence' = None
      /\ crossings' = crossings \union {Crossing(fence.task)}
      /\ UNCHANGED <<rulebook, plan, clock, pool, assessments, held>>
  BY DEF CrossReviewer, worldVars
<1>2. FenceFollows /\ clock \in Int /\ pool.at \in Int /\ rulebook # None
  BY <1>1 DEF RoutingInv
<1>3. PICK t \in held : t = fence.task
  BY <1>2 DEF FenceFollows
<1>4. Suits(t) /\ Reviews(t)
  BY <1>2, <1>3 DEF FenceFollows
<1>5. Settled
  BY <1>1, NothingRouted
<1>6. PICK x : x = Crossing(t)
  OBVIOUS
<1>7. /\ x.task = t /\ x.profile = assessments[t].profile /\ x.at = clock /\ x.seen = pool.at
      /\ x.until = qualified[assessments[t].profile].until
  BY <1>6 DEF Crossing
<1>8. clock < fence.qualification.until /\ clock <= fence.quota
  BY <1>1 DEF FenceHolds, Current
<1>9. x.at < x.until
  BY <1>2, <1>3, <1>7, <1>8 DEF FenceFollows
<1>10. x.at <= x.seen + Limits.age
  <2>1. clock <= fence.quota /\ fence.quota <= pool.at + Limits.age
    BY <1>2, <1>8 DEF FenceFollows
  <2>2. fence.quota \in Int
    BY <1>2 DEF FenceFollows
  <2> QED BY <1>2, <1>7, <2>1, <2>2, RoutingAssumption
<1>11. Suits(t)' /\ assessments'[t] = assessments[t]
  BY <1>4, <1>5, SettledSuits
<1>12. CrossingFollows(x)'
  BY <1>1, <1>3, <1>7, <1>9, <1>10, <1>11 DEF CrossingFollows
<1> QED BY <1>1, <1>2, <1>3, <1>5, <1>6, <1>12, RoutingMoves

LEMMA LeaveBoundaryKeeps ==
    ASSUME RoutingInv, LeaveBoundary
    PROVE  RoutingInv'
<1>1. fence' = None /\ UNCHANGED <<rulebook, plan, clock, pool, assessments, held, crossings>>
  BY DEF LeaveBoundary, worldVars
<1>2. Settled /\ clock' \in Int /\ pool'.at \in Int
  BY <1>1, NothingRouted DEF RoutingInv
<1>3. rulebook = None => held' = {} /\ crossings' = {}
  BY <1>1 DEF RoutingInv
<1> QED BY <1>1, <1>2, <1>3, RoutingMoves

LEMMA ElsewhereKeeps ==
    ASSUME RoutingInv, Elsewhere, pool'.at \in Int
    PROVE  RoutingInv'
<1>1. /\ fence = None /\ UNCHANGED <<rulebook, plan, clock, assessments, held, fence, crossings>>
  BY DEF Elsewhere
<1>2. Settled /\ clock' \in Int
  BY <1>1, NothingRouted DEF RoutingInv
<1>3. rulebook = None => held' = {} /\ crossings' = {}
  BY <1>1 DEF RoutingInv
<1> QED BY <1>1, <1>2, <1>3, RoutingMoves

LEMMA ClockKeeps ==
    ASSUME RoutingInv, clock' \in Int,
           UNCHANGED <<rulebook, plan, worldVars, assessments, held, fence, crossings>>
    PROVE  RoutingInv'
<1>1. UNCHANGED <<rulebook, plan, qualified, pool, assessments, held, fence, crossings>>
  BY DEF worldVars
<1>2. Settled /\ pool'.at \in Int
  BY <1>1, NothingRouted DEF RoutingInv
<1>3. rulebook = None => held' = {} /\ crossings' = {} /\ fence' = None
  BY <1>1 DEF RoutingInv
<1>4. fence' # None => FenceFollows'
  <2> SUFFICES ASSUME fence # None PROVE FenceFollows'
    BY <1>1
  <2>1. FenceFollows
    BY DEF RoutingInv
  <2>2. Suits(fence.task)' /\ Reviews(fence.task)'
    BY <1>1, <2>1 DEF FenceFollows, Suits, Strong, Apart, Reviews, WorkOf, AuthorOf, Classification
  <2> QED BY <1>1, <2>1, <2>2 DEF FenceFollows
<1> QED BY <1>1, <1>2, <1>3, <1>4, RoutingMoves

LEMMA RoutingInvariance == RoutingSpec => []RoutingInv
<1>1. RoutingInit => RoutingInv
  BY DEF RoutingInit, RoutingInv
<1>2. RoutingInv /\ [RoutingNext]_routingVars => RoutingInv'
  <2> SUFFICES ASSUME RoutingInv, [RoutingNext]_routingVars PROVE RoutingInv'
    OBVIOUS
  <2>1. CASE UNCHANGED routingVars
    BY <2>1, ClockKeeps DEF routingVars, worldVars, RoutingInv
  <2>2. CASE FreezeRulebook
    BY <2>2, FreezeKeeps
  <2>3. ASSUME NEW t \in Tasks, Assess(t) \/ Reserve(t) \/ CrossWorker(t) \/ EnterBoundary(t)
        PROVE  RoutingInv'
    BY <2>3, AssessKeeps, ReserveKeeps, CrossWorkerKeeps, EnterBoundaryKeeps
  <2>4. CASE CrossReviewer \/ LeaveBoundary
    BY <2>4, CrossReviewerKeeps, LeaveBoundaryKeeps
  <2>5. ASSUME NEW p \in Profiles,
               Requalify(p) \/ RegisterEstimate(p) \/ RevokeEstimate(p) \/ WithdrawProfile(p)
        PROVE  RoutingInv'
    <3>1. Elsewhere /\ pool' = pool
      BY <2>5 DEF Requalify, RegisterEstimate, RevokeEstimate, WithdrawProfile
    <3> QED BY <3>1, ElsewhereKeeps DEF RoutingInv
  <2>6. ASSUME NEW n \in Readings, ReadPool(n) PROVE RoutingInv'
    <3>1. Elsewhere /\ pool'.at = clock
      BY <2>6 DEF ReadPool
    <3> QED BY <3>1, ElsewhereKeeps DEF RoutingInv
  <2>7. CASE BindReviewers \/ LoseArtifact
    <3>1. Elsewhere /\ pool' = pool
      BY <2>7 DEF BindReviewers, LoseArtifact
    <3> QED BY <3>1, ElsewhereKeeps DEF RoutingInv
  <2>8. ASSUME NEW n \in RouteTimes, SetRouteClock(n) PROVE RoutingInv'
    BY <2>8, ClockKeeps, RoutingAssumption DEF SetRouteClock
  <2> QED BY <2>1, <2>2, <2>3, <2>4, <2>5, <2>6, <2>7, <2>8 DEF RoutingNext
<1> QED BY <1>1, <1>2, PTL DEF RoutingSpec

(***************************************************************************)
(* For any rulebooks, tasks, profiles and clocks: a rulebook that compiled *)
(* without ambiguity has one highest rule for a request, and what starts   *)
(* is what was assessed, strong enough, within the windows its boundary    *)
(* read, and apart from its author where that is asked for.                *)
(***************************************************************************)
THEOREM RoutesStaySound == RoutingSpec => []RoutesAreSound
<1>1. RoutingInv => RoutesAreSound
  <2> SUFFICES ASSUME RoutingInv PROVE RoutesAreSound
    OBVIOUS
  <2>1. ASSUME rulebook # None, ~Ambiguous(rulebook), NEW r \in Requests
        PROVE  Cardinality(Highest(r, rulebook)) <= 1
    BY <2>1, OneHighest DEF RoutingInv
  <2>2. ASSUME NEW x \in crossings
        PROVE  /\ x.profile = assessments[x.task].profile
               /\ Registered[x.profile].maxClass >= Floor(plan[WorkOf(x.task)])
               /\ Reviews(x.task) =>
                     /\ x.at < x.until /\ x.at <= x.seen + Limits.age
                     /\ rulebook[SelectRule(Classification(x.task), rulebook)].independence =>
                           Registered[x.profile].family # Registered[AuthorOf(x.task)].family
    BY DEF RoutingInv, CrossingFollows, Suits, Strong, Apart
  <2> QED BY <2>1, <2>2 DEF RoutesAreSound
<1> QED BY <1>1, RoutingInvariance, PTL

-----------------------------------------------------------------------------
(***************************************************************************)
(* Task executions.  Capacity is held only by an operation of which an     *)
(* enqueue still sees that it is pending, whatever the ledger has missed,  *)
(* and is gained only by a queued one: of the operations of a task one at  *)
(* most holds capacity or is queued for it.  A hold that was activated may *)
(* expire or be reconciled, and no cancellation releases it: so a host,    *)
(* and a child in it, vouch for the activation of theirs.                  *)
(***************************************************************************)
OperationRow ==
    [state : PendingStates \union {"blocked", "expired", "released", "cancelled"}, requested : BOOLEAN,
     worker : WorkerOps \union {None}, approval : Nat, receipt : {"admitted", "denied", None}, cancel : BOOLEAN,
     activation : {"intended", "revalidated", "rejected", None}, workspace : BOOLEAN, validated : Nat,
     execution : ExecutionRow \union {None}]

IsHeld(c) == c.hold \in {"reserved", "active", "overdue", "unknown"}
WasActivated(c) == c.activated = "revalidated"
MayHold(x, c) == IsHeld(c) \/ x.state = "queued"
HoldFits(c) ==
    /\ c.hold # None => c.admitted = "admitted"
    /\ WasActivated(c) => c.hold \in {"active", "overdue", "unknown", "ended", "released"} /\ ~c.cancelled
    /\ c.hold \in {"active", "overdue", "unknown", "ended"} => WasActivated(c)
    /\ c.cancelled => c.hold \in {"released", "expired"}
StateFits(state, c) ==
    /\ IsHeld(c) => state \in PendingStates
    /\ WasActivated(c) => state # "cancelled"

RowFits(x, c) ==
    /\ StateFits(x.state, c)
    /\ c.admitted # None \/ x.state = "queued" => x.requested
    /\ x.execution # None /\ x.execution.captured => x.execution.claim

LedgerInv ==
    /\ DOMAIN operations \subseteq Ops /\ capacity \in [Ops -> CapacityRow]
    /\ \A o \in DOMAIN operations : operations[o] \in OperationRow /\ RowFits(operations[o], capacity[o])
    /\ \A o \in Ops : HoldFits(capacity[o]) /\ (capacity[o].admitted # None => o \in DOMAIN operations)
    /\ \A o, p \in DOMAIN operations :
          o # p /\ SameTask(o, p) => ~MayHold(operations[o], capacity[o]) \/ ~MayHold(operations[p], capacity[p])

BudgetInv ==
    /\ budget # None => budget \in BudgetRow /\ IsFiniteSet(budget.claims) /\ ClaimCount <= budget.limit
    /\ \A o \in DOMAIN operations : operations[o].execution # None => budget # None /\ <<Writer, o>> \in budget.claims

(* The child against its host and the native starts. *)
ProcessFits(h, c, e) ==
    /\ c # None => h \in {"running", "ended"}
    /\ c \in {None, "registered", "checked", "claimed", "granted"} => e.starts = 0
    /\ e.starts <= 1

EffectsRow == [starts : Nat, sends : Nat]
ProcessInv ==
    /\ hosts \in [Ops -> HostStates \union {None}] /\ child \in [WorkerOps -> ChildStates \union {None}]
    /\ effects \in [WorkerOps -> EffectsRow]
    /\ \A o \in Ops : hosts[o] # None => WasActivated(capacity[o])
    /\ \A o \in WorkerOps :
          /\ ProcessFits(hosts[o], child[o], effects[o])
          /\ child[o] # None => o \in DOMAIN operations /\ operations[o].execution # None
    /\ \A o \in frozen : o \in DOMAIN operations /\ operations[o].execution # None /\ operations[o].execution.captured

WorldInv == world \in [approval : DOMAIN AttemptLimit, routed : BOOLEAN, late : BOOLEAN]

TasksInv == LedgerInv /\ BudgetInv /\ ProcessInv /\ WorldInv

(* An execution stays, with its capture, and so does an activated hold. *)
Carries(x, y) == x.execution # None => y.execution # None /\ (x.execution.captured => y.execution.captured)
LedgerCarries ==
    /\ DOMAIN operations \subseteq DOMAIN operations'
    /\ \A p \in DOMAIN operations : Carries(operations[p], operations'[p])
    /\ \A p \in Ops : WasActivated(capacity[p]) => WasActivated(capacity'[p])
NoneBegins ==
    \A p \in DOMAIN operations' :
        operations'[p].execution # None => p \in DOMAIN operations /\ operations[p].execution # None

LEMMA BudgetStays ==
    ASSUME BudgetInv, NoneBegins, UNCHANGED budget
    PROVE  BudgetInv'
  BY DEF BudgetInv, NoneBegins, ClaimCount

LEMMA ProcessStays ==
    ASSUME ProcessInv, LedgerCarries, UNCHANGED <<hosts, child, frozen, effects>>
    PROVE  ProcessInv'
<1>1. \A o \in Ops : hosts'[o] # None => WasActivated(capacity'[o])
  BY DEF ProcessInv, LedgerCarries
<1>2. ASSUME NEW o \in WorkerOps
      PROVE  /\ ProcessFits(hosts'[o], child'[o], effects'[o])
             /\ child'[o] # None => o \in DOMAIN operations' /\ operations'[o].execution # None
  BY DEF ProcessInv, LedgerCarries, Carries
<1>3. \A o \in frozen' : o \in DOMAIN operations' /\ operations'[o].execution # None /\ operations'[o].execution.captured
  BY DEF ProcessInv, LedgerCarries, Carries
<1> QED BY <1>1, <1>2, <1>3 DEF ProcessInv, ProcessFits

(* The row and the hold of one operation change. *)
Touches(o, y, d) ==
    /\ DOMAIN operations' = DOMAIN operations /\ operations'[o] = y
    /\ \A p \in DOMAIN operations : p # o => operations'[p] = operations[p]
    /\ capacity' \in [Ops -> CapacityRow] /\ capacity'[o] = d
    /\ \A p \in Ops : p # o => capacity'[p] = capacity[p]

(* What they may become. *)
Follows(x, c, y, d) ==
    /\ y \in OperationRow /\ RowFits(y, d) /\ HoldFits(d) /\ Carries(x, y)
    /\ MayHold(y, d) => MayHold(x, c)
    /\ WasActivated(c) => WasActivated(d)
Continues(x, y) == y.execution # None => x.execution # None

LEMMA TouchedLedger ==
    ASSUME LedgerInv, NEW o \in DOMAIN operations, NEW y, NEW d, Touches(o, y, d),
           Follows(operations[o], capacity[o], y, d)
    PROVE  LedgerInv' /\ LedgerCarries /\ (Continues(operations[o], y) => NoneBegins)
<1>1. ASSUME NEW p \in DOMAIN operations
      PROVE  operations'[p] \in OperationRow /\ RowFits(operations'[p], capacity'[p]) /\ Carries(operations[p], operations'[p])
             /\ (MayHold(operations'[p], capacity'[p]) => MayHold(operations[p], capacity[p]))
  <2>1. CASE p = o
    BY <2>1 DEF Touches, Follows
  <2>2. CASE p # o
    BY <2>2 DEF Touches, LedgerInv, Carries
  <2> QED BY <2>1, <2>2
<1>2. ASSUME NEW p \in Ops
      PROVE  /\ HoldFits(capacity'[p]) /\ (capacity'[p].admitted # None => p \in DOMAIN operations)
             /\ WasActivated(capacity[p]) => WasActivated(capacity'[p])
  <2>1. CASE p = o
    BY <2>1 DEF Touches, Follows
  <2>2. CASE p # o
    BY <2>2 DEF Touches, LedgerInv
  <2> QED BY <2>1, <2>2
<1>3. DOMAIN operations' = DOMAIN operations /\ capacity' \in [Ops -> CapacityRow]
  BY DEF Touches
<1>4. ASSUME NEW p \in DOMAIN operations, NEW q \in DOMAIN operations, p # q, SameTask(p, q)
      PROVE  ~MayHold(operations'[p], capacity'[p]) \/ ~MayHold(operations'[q], capacity'[q])
  BY <1>1, <1>4 DEF LedgerInv
<1>5. LedgerInv'
  BY <1>1, <1>2, <1>3, <1>4 DEF LedgerInv, RowFits, StateFits, HoldFits, WasActivated, MayHold, IsHeld
<1>6. LedgerCarries
  BY <1>1, <1>2, <1>3 DEF LedgerCarries
<1>7. Continues(operations[o], y) => NoneBegins
  BY <1>3 DEF Touches, Continues, NoneBegins
<1> QED BY <1>5, <1>6, <1>7

LEMMA TouchedStep ==
    ASSUME TasksInv, NEW o \in DOMAIN operations, NEW y, NEW d, Touches(o, y, d),
           Follows(operations[o], capacity[o], y, d), Continues(operations[o], y),
           UNCHANGED <<budget, hosts, child, frozen, world, effects>>
    PROVE  TasksInv'
<1>1. LedgerInv' /\ LedgerCarries /\ NoneBegins
  BY TouchedLedger DEF TasksInv
<1> QED BY <1>1, BudgetStays, ProcessStays DEF TasksInv, WorldInv

LEMMA RowSaved ==
    ASSUME LedgerInv, NEW o \in DOMAIN operations, NEW y, Save(o, y), UNCHANGED capacity
    PROVE  Touches(o, y, capacity[o])
  BY DEF LedgerInv, Save, WithRow, Touches

LEMMA HoldSaved ==
    ASSUME LedgerInv, NEW o \in DOMAIN operations, NEW y, NEW d \in CapacityRow,
           Save(o, y) \/ (UNCHANGED operations /\ y = operations[o]), capacity' = [capacity EXCEPT ![o] = d]
    PROVE  Touches(o, y, d)
<1>1. DOMAIN operations' = DOMAIN operations /\ operations'[o] = y /\ \A p \in DOMAIN operations : p # o => operations'[p] = operations[p]
  BY DEF Save, WithRow
<1> QED BY <1>1 DEF LedgerInv, Touches

(* A row that keeps its execution and stays out of the queue, with its hold as it was. *)
LEMMA SaveStep ==
    ASSUME TasksInv, NEW o \in DOMAIN operations, NEW y \in OperationRow, Save(o, y), UNCHANGED capacity,
           Carries(operations[o], y), Continues(operations[o], y), y.requested = operations[o].requested,
           StateFits(y.state, capacity[o]), y.state = "queued" => operations[o].state = "queued",
           y.execution # None /\ y.execution.captured => y.execution.claim,
           UNCHANGED <<budget, hosts, child, frozen, world, effects>>
    PROVE  TasksInv'
<1>1. Touches(o, y, capacity[o])
  BY RowSaved DEF TasksInv
<1>2. RowFits(operations[o], capacity[o]) /\ HoldFits(capacity[o])
  BY DEF TasksInv, LedgerInv
<1>3. Follows(operations[o], capacity[o], y, capacity[o])
  BY <1>2 DEF Follows, RowFits, MayHold
<1> QED BY <1>1, <1>3, TouchedStep

LEMMA TasksIdle ==
    ASSUME TasksInv, UNCHANGED <<operations, capacity, budget, hosts, child, frozen, world, effects>>
    PROVE  TasksInv'
<1>1. LedgerInv'
  BY DEF TasksInv, LedgerInv, RowFits, StateFits, HoldFits, WasActivated, MayHold, IsHeld
<1>2. LedgerCarries /\ NoneBegins
  BY DEF LedgerCarries, Carries, NoneBegins
<1> QED BY <1>1, <1>2, BudgetStays, ProcessStays DEF TasksInv, WorldInv

(* _refresh keeps what the ledger knows of an operation, and loses no hold. *)
LEMMA RefreshedFits ==
    ASSUME NEW o \in Ops, capacity \in [Ops -> CapacityRow], NEW x \in OperationRow, RowFits(x, capacity[o])
    PROVE  LET y == Refreshed(o, x) IN
           /\ y \in OperationRow /\ y.requested = x.requested /\ y.worker = x.worker /\ y.cancel = x.cancel
           /\ y.execution = x.execution /\ y.workspace = x.workspace /\ y.validated = x.validated
           /\ StateFits(y.state, capacity[o])
           /\ y.state = "queued" => x.state = "queued"
<1>1. PICK c \in CapacityRow : c = capacity[o]
  OBVIOUS
<1>2. PICK seen : seen = IF x.activation # None /\ c.activated # None THEN [x EXCEPT !.activation = c.activated] ELSE x
  OBVIOUS
<1>3. seen \in OperationRow /\ seen.requested = x.requested /\ seen.worker = x.worker /\ seen.cancel = x.cancel
      /\ seen.execution = x.execution /\ seen.workspace = x.workspace /\ seen.validated = x.validated /\ seen.state = x.state
  BY <1>1, <1>2 DEF OperationRow, CapacityRow
<1>4. PICK owned \in BOOLEAN : owned = (c.hold \in {"active", "overdue"} /\ seen.activation = "revalidated")
  OBVIOUS
<1>5. PICK st : st = IF c.hold \in {"expired", "released"} THEN c.hold
                     ELSE IF owned /\ Recoverable(o, x) /\ ~x.cancel THEN "reserved"
                     ELSE IF c.hold # "reserved" /\ ~owned THEN "reconciliation_required" ELSE seen.state
  OBVIOUS
<1>6. Refreshed(o, x) = IF x.execution # None \/ (x.state # "reserved" /\ ~Recoverable(o, x)) THEN x
                        ELSE [seen EXCEPT !.state = st]
  BY <1>1, <1>2, <1>4, <1>5 DEF Refreshed
<1>7. CASE x.execution # None \/ (x.state # "reserved" /\ ~Recoverable(o, x))
  BY <1>6, <1>7 DEF RowFits
<1>8. CASE ~(x.execution # None \/ (x.state # "reserved" /\ ~Recoverable(o, x)))
  <2>1. x.state \in {"reserved", "reconciliation_required"}
    BY <1>8 DEF Recoverable
  <2>2. st \in PendingStates \union {"expired", "released"} /\ StateFits(st, c) /\ st # "queued"
    BY <1>3, <1>5, <2>1 DEF PendingStates, StateFits, IsHeld
  <2>3. PICK y : y = [seen EXCEPT !.state = st]
    OBVIOUS
  <2>4. /\ y \in OperationRow /\ y.requested = x.requested /\ y.worker = x.worker /\ y.cancel = x.cancel
        /\ y.execution = x.execution /\ y.workspace = x.workspace /\ y.validated = x.validated /\ y.state = st
    BY <1>3, <2>2, <2>3 DEF OperationRow
  <2> QED BY <1>1, <1>6, <1>8, <2>2, <2>3, <2>4
<1> QED BY <1>7, <1>8

-----------------------------------------------------------------------------
(* Admission. *)

(* A row that is refreshed, with another activation or a workspace. *)
LEMMA RefreshSteps ==
    ASSUME TasksInv, NEW o \in Ops,
           \/ ReadAdmission(o) \/ IntendActivation(o) \/ RecordActivation(o) \/ PrepareWorkspace(o)
    PROVE  TasksInv'
<1>1. /\ o \in DOMAIN operations /\ UNCHANGED <<capacity, budget, hosts, child, frozen, world, effects>>
  BY DEF ReadAdmission, IntendActivation, RecordActivation, PrepareWorkspace, Exists
<1>2. PICK x \in OperationRow : x = operations[o] /\ RowFits(x, capacity[o])
  BY <1>1 DEF TasksInv, LedgerInv
<1>3. capacity \in [Ops -> CapacityRow]
  BY DEF TasksInv, LedgerInv
<1>4. ASSUME NEW y \in OperationRow, Save(o, y), y.requested = x.requested, y.execution = x.execution,
             StateFits(y.state, capacity[o]), y.state = "queued" => x.state = "queued"
      PROVE  TasksInv'
  <2>1. Carries(x, y) /\ Continues(x, y) /\ (y.execution # None /\ y.execution.captured => y.execution.claim)
    BY <1>2, <1>4 DEF Carries, Continues, RowFits
  <2> QED BY <1>1, <1>2, <1>4, <2>1, SaveStep
<1>5. PICK y \in OperationRow :
         /\ y = Refreshed(o, x) /\ y.requested = x.requested /\ y.execution = x.execution
         /\ StateFits(y.state, capacity[o])
         /\ y.state = "queued" => x.state = "queued"
  BY <1>2, <1>3, RefreshedFits
<1>6. CASE ReadAdmission(o)
  <2>1. Save(o, y)
    BY <1>2, <1>5, <1>6 DEF ReadAdmission
  <2> QED BY <1>4, <1>5, <2>1
<1>7. CASE IntendActivation(o)
  <2>1. PICK z : z = [y EXCEPT !.activation = "intended"]
    OBVIOUS
  <2>2. Save(o, z)
    BY <1>2, <1>5, <1>7, <2>1 DEF IntendActivation
  <2>3. z \in OperationRow /\ z.requested = y.requested /\ z.execution = y.execution /\ z.state = y.state
    BY <2>1 DEF OperationRow
  <2> QED BY <1>4, <1>5, <2>2, <2>3
<1>8. CASE PrepareWorkspace(o)
  <2>1. PICK z : z = [y EXCEPT !.workspace = TRUE]
    OBVIOUS
  <2>2. Save(o, z)
    BY <1>2, <1>5, <1>8, <2>1 DEF PrepareWorkspace
  <2>3. z \in OperationRow /\ z.requested = y.requested /\ z.execution = y.execution /\ z.state = y.state
    BY <2>1 DEF OperationRow
  <2> QED BY <1>4, <1>5, <2>2, <2>3
<1>9. CASE RecordActivation(o)
  <2>1. PICK c \in CapacityRow : c = capacity[o]
    BY <1>3
  <2>2. PICK z : z = [x EXCEPT !.activation = c.activated]
    OBVIOUS
  <2>3. z \in OperationRow /\ z.requested = x.requested /\ z.execution = x.execution /\ z.state = x.state
    BY <2>1, <2>2 DEF OperationRow, CapacityRow
  <2>4. RowFits(z, capacity[o])
    BY <1>2, <2>3 DEF RowFits
  <2>5. PICK w \in OperationRow :
           /\ w = Refreshed(o, z) /\ w.requested = z.requested /\ w.execution = z.execution
           /\ StateFits(w.state, capacity[o])
           /\ w.state = "queued" => z.state = "queued"
    BY <1>3, <2>3, <2>4, RefreshedFits
  <2>6. Save(o, w)
    BY <1>2, <1>9, <2>1, <2>2, <2>5 DEF RecordActivation
  <2> QED BY <1>4, <2>3, <2>5, <2>6
<1> QED BY <1>6, <1>7, <1>8, <1>9

(* Capacity.admit answers for a queued operation. *)
LEMMA AdmittedHold ==
    ASSUME TasksInv, NEW o \in Ops, NEW decision \in {"admitted", "denied"}, capacity[o].admitted = None,
           AdmitInCapacity(o, decision)
    PROVE  \E d \in CapacityRow :
              /\ capacity' = [capacity EXCEPT ![o] = d] /\ HoldFits(d) /\ d.admitted = decision
              /\ IsHeld(d) => decision = "admitted"
              /\ ~WasActivated(capacity[o]) /\ ~WasActivated(d)
<1>1. PICK c \in CapacityRow : c = capacity[o] /\ c.admitted = None /\ HoldFits(c)
  BY DEF TasksInv, LedgerInv
<1>2. c.hold = None /\ ~WasActivated(c) /\ ~c.cancelled
  BY <1>1, TasksAssumption DEF HoldFits, Holdings
<1>3. PICK d : d = [c EXCEPT !.admitted = decision, !.hold = IF decision = "admitted" THEN "reserved" ELSE c.hold]
  OBVIOUS
<1>4. /\ d \in CapacityRow /\ d.admitted = decision
      /\ d.hold = IF decision = "admitted" THEN "reserved" ELSE None
      /\ d.activated = c.activated /\ d.cancelled = c.cancelled
  BY <1>1, <1>2, <1>3 DEF CapacityRow, Holdings
<1>5. capacity' = [capacity EXCEPT ![o] = d]
  BY <1>1, <1>3 DEF AdmitInCapacity, TasksInv, LedgerInv
<1> QED BY <1>1, <1>2, <1>4, <1>5, TasksAssumption DEF HoldFits, WasActivated, IsHeld, Holdings

LEMMA AdmissionSteps ==
    ASSUME TasksInv, NEW o \in Ops, AdvanceAdmission(o) \/ AdmissionLost(o)
    PROVE  TasksInv'
<1>1. /\ o \in DOMAIN operations /\ UNCHANGED <<budget, hosts, child, frozen, world, effects>>
      /\ operations[o].state = "queued"
  BY DEF AdvanceAdmission, AdmissionLost, Exists
<1>2. PICK x \in OperationRow : x = operations[o] /\ RowFits(x, capacity[o])
  BY <1>1 DEF TasksInv, LedgerInv
<1>3. PICK c \in CapacityRow : c = capacity[o] /\ HoldFits(c) /\ capacity \in [Ops -> CapacityRow]
  BY DEF TasksInv, LedgerInv
<1>4. ASSUME NEW decision \in {"admitted", "denied"}
      PROVE  LET y == WithReceipt(o, x, decision) IN
             /\ y \in OperationRow /\ y.requested = x.requested /\ y.execution = x.execution
             /\ y.state = IF decision = "admitted" THEN "reserved" ELSE "blocked"
  BY DEF WithReceipt, OperationRow, PendingStates
<1>5. CASE AdmissionLost(o)
  <2>1. capacity[o].admitted = None /\ AdmitInCapacity(o, "admitted") /\ UNCHANGED operations
    BY <1>5 DEF AdmissionLost
  <2>2. PICK d \in CapacityRow :
           /\ capacity' = [capacity EXCEPT ![o] = d] /\ HoldFits(d) /\ d.admitted = "admitted" /\ ~WasActivated(capacity[o]) /\ ~WasActivated(d)
    BY <2>1, AdmittedHold
  <2>3. Touches(o, x, d)
    BY <1>1, <1>2, <2>1, <2>2, HoldSaved DEF TasksInv
  <2>4. Follows(x, capacity[o], x, d)
    BY <1>1, <1>2, <2>2 DEF Follows, RowFits, StateFits, Carries, MayHold, PendingStates
  <2> QED BY <1>1, <1>2, <2>3, <2>4, TouchedStep DEF Continues
<1>6. ASSUME NEW decision \in {"admitted", "denied"}, capacity[o].admitted = None, AdmitInCapacity(o, decision),
             Save(o, WithReceipt(o, x, decision))
      PROVE  TasksInv'
  <2>1. PICK y : y = WithReceipt(o, x, decision)
    OBVIOUS
  <2>2. /\ y \in OperationRow /\ y.requested = x.requested /\ y.execution = x.execution
        /\ y.state = IF decision = "admitted" THEN "reserved" ELSE "blocked"
    BY <1>4, <2>1
  <2>3. PICK d \in CapacityRow :
           /\ capacity' = [capacity EXCEPT ![o] = d] /\ HoldFits(d) /\ d.admitted = decision
           /\ IsHeld(d) => decision = "admitted"
           /\ ~WasActivated(capacity[o]) /\ ~WasActivated(d)
    BY <1>6, AdmittedHold
  <2>4. Touches(o, y, d)
    BY <1>1, <1>6, <2>1, <2>3, HoldSaved DEF TasksInv
  <2>5. x.requested /\ (x.execution # None /\ x.execution.captured => x.execution.claim)
    BY <1>1, <1>2 DEF RowFits
  <2>6. Follows(x, capacity[o], y, d)
    BY <1>1, <1>2, <2>2, <2>3, <2>5 DEF Follows, RowFits, StateFits, Carries, MayHold, PendingStates
  <2> QED BY <1>1, <1>2, <2>2, <2>4, <2>6, TouchedStep DEF Continues
<1>7. ASSUME NEW y \in OperationRow, Save(o, y), UNCHANGED capacity, y.requested = x.requested, y.execution = x.execution,
             StateFits(y.state, capacity[o])
      PROVE  TasksInv'
  <2>1. Carries(x, y) /\ Continues(x, y) /\ (y.execution # None /\ y.execution.captured => y.execution.claim)
    BY <1>2, <1>7 DEF Carries, Continues, RowFits
  <2> QED BY <1>1, <1>2, <1>7, <2>1, SaveStep
<1>8. ASSUME capacity[o].admitted = None, Save(o, [x EXCEPT !.state = "blocked"]), UNCHANGED capacity
      PROVE  TasksInv'
  <2>1. PICK y : y = [x EXCEPT !.state = "blocked"]
    OBVIOUS
  <2>2. y \in OperationRow /\ y.requested = x.requested /\ y.execution = x.execution /\ y.state = "blocked"
    BY <2>1 DEF OperationRow
  <2>3. ~IsHeld(capacity[o])
    BY <1>3, <1>8, TasksAssumption DEF HoldFits, IsHeld, Holdings
  <2> QED BY <1>7, <1>8, <2>1, <2>2, <2>3 DEF StateFits, PendingStates
<1>9. ASSUME capacity[o].admitted # None, Save(o, Refreshed(o, WithReceipt(o, x, capacity[o].admitted))), UNCHANGED capacity
      PROVE  TasksInv'
  <2>1. PICK decision \in {"admitted", "denied"} : decision = capacity[o].admitted
    BY <1>3, <1>9 DEF CapacityRow
  <2>2. PICK y \in OperationRow :
           /\ y = WithReceipt(o, x, decision) /\ y.requested = x.requested /\ y.execution = x.execution
           /\ y.state = IF decision = "admitted" THEN "reserved" ELSE "blocked"
    BY <1>4
  <2>3. RowFits(y, capacity[o])
    <3>1. IsHeld(capacity[o]) => decision = "admitted"
      BY <1>3, <2>1, TasksAssumption DEF HoldFits, IsHeld, Holdings
    <3> QED BY <1>1, <1>2, <2>2, <3>1 DEF RowFits, StateFits, PendingStates
  <2>4. PICK z \in OperationRow :
           /\ z = Refreshed(o, y) /\ z.requested = y.requested /\ z.execution = y.execution
           /\ StateFits(z.state, capacity[o])
    BY <1>3, <2>3, RefreshedFits
  <2>5. Save(o, z)
    BY <1>9, <2>1, <2>2, <2>4
  <2> QED BY <1>7, <1>9, <2>2, <2>4, <2>5
<1>10. CASE AdvanceAdmission(o)
  BY <1>2, <1>6, <1>8, <1>9, <1>10 DEF AdvanceAdmission
<1> QED BY <1>5, <1>10

(* Capacity alone writes: the hold of one operation is activated, released or reconciled, or expires. *)
LEMMA HoldStep ==
    ASSUME TasksInv, NEW o \in Ops, NEW d \in CapacityRow, UNCHANGED operations,
           capacity' = [capacity EXCEPT ![o] = d], d.admitted = capacity[o].admitted, HoldFits(d),
           IsHeld(d) => IsHeld(capacity[o]), WasActivated(capacity[o]) => WasActivated(d),
           WasActivated(d) => WasActivated(capacity[o]) \/ IsHeld(capacity[o]), capacity[o].hold # None,
           UNCHANGED <<budget, hosts, child, frozen, world, effects>>
    PROVE  TasksInv'
<1>1. HoldFits(capacity[o]) /\ capacity[o].admitted = "admitted"
  BY DEF TasksInv, LedgerInv, HoldFits
<1>2. o \in DOMAIN operations
  BY <1>1, TasksAssumption DEF TasksInv, LedgerInv
<1>3. PICK x \in OperationRow : x = operations[o] /\ RowFits(x, capacity[o])
  BY <1>2 DEF TasksInv, LedgerInv
<1>4. Touches(o, x, d)
  BY <1>2, <1>3, HoldSaved DEF TasksInv
<1>5. Follows(x, capacity[o], x, d)
  BY <1>1, <1>3 DEF Follows, RowFits, StateFits, Carries, MayHold, PendingStates
<1> QED BY <1>2, <1>3, <1>4, <1>5, TouchedStep DEF Continues

(* What cancel_unactivated makes of a reservation, and of one that expired. *)
LEMMA CancelledHold ==
    ASSUME capacity \in [Ops -> CapacityRow], NEW o \in Ops, HoldFits(capacity[o]), CancelInCapacity(o),
           capacity[o].hold \in {"reserved", "expired"} \/ capacity[o].cancelled
    PROVE  \E d \in CapacityRow :
              /\ capacity' = [capacity EXCEPT ![o] = d] /\ HoldFits(d) /\ d.admitted = capacity[o].admitted
              /\ capacity[o].hold # None /\ ~IsHeld(d) /\ ~WasActivated(capacity[o]) /\ ~WasActivated(d)
<1>1. PICK c \in CapacityRow : c = capacity[o]
  OBVIOUS
<1>2. PICK d : d = [c EXCEPT !.hold = IF c.hold = "reserved" THEN "released" ELSE c.hold, !.cancelled = TRUE]
  OBVIOUS
<1>3. /\ d \in CapacityRow /\ d.admitted = c.admitted /\ d.activated = c.activated /\ d.cancelled
      /\ d.hold = IF c.hold = "reserved" THEN "released" ELSE c.hold
  BY <1>2 DEF CapacityRow, Holdings
<1>4. capacity' = [capacity EXCEPT ![o] = d]
  BY <1>1, <1>2 DEF CancelInCapacity
<1>5. c.hold \in {"reserved", "expired", "released"} /\ ~WasActivated(c) /\ c.hold # None
  BY <1>1, TasksAssumption DEF HoldFits, Holdings
<1> QED BY <1>1, <1>3, <1>4, <1>5 DEF HoldFits, WasActivated, IsHeld

LEMMA HoldSteps ==
    ASSUME TasksInv, NEW o \in Ops,
           \/ ReleaseLost(o) \/ HoldExpires(o) \/ ReconcileHold(o)
           \/ ActivateReviewer(o) \/ ActivateExecution(o)
    PROVE  TasksInv'
<1>1. UNCHANGED <<operations, budget, hosts, child, frozen, world, effects>>
  BY DEF ReleaseLost, HoldExpires, ReconcileHold, ActivateReviewer, ActivateExecution
<1>2. PICK c \in CapacityRow : c = capacity[o] /\ capacity \in [Ops -> CapacityRow] /\ HoldFits(c)
  BY DEF TasksInv, LedgerInv
<1>3. CASE ReleaseLost(o)
  <2>1. CancelInCapacity(o) /\ c.hold \in {"reserved", "expired"}
    BY <1>2, <1>3 DEF ReleaseLost
  <2>2. PICK d \in CapacityRow :
           /\ capacity' = [capacity EXCEPT ![o] = d] /\ HoldFits(d) /\ d.admitted = c.admitted
           /\ c.hold # None /\ ~IsHeld(d) /\ ~WasActivated(c) /\ ~WasActivated(d)
    BY <1>2, <2>1, CancelledHold
  <2> QED BY <1>1, <1>2, <2>2, HoldStep
<1>4. ASSUME NEW hold \in Holdings, capacity' = [capacity EXCEPT ![o].hold = hold], c.hold # None,
             HoldFits([c EXCEPT !.hold = hold]), hold \in {"expired", "ended", "released"} \/ IsHeld(c)
      PROVE  TasksInv'
  <2>1. PICK d : d = [c EXCEPT !.hold = hold]
    OBVIOUS
  <2>2. d \in CapacityRow /\ d.hold = hold /\ d.admitted = c.admitted /\ d.activated = c.activated
    BY <2>1 DEF CapacityRow
  <2>3. capacity' = [capacity EXCEPT ![o] = d]
    BY <1>2, <1>4, <2>1
  <2>4. (IsHeld(d) => IsHeld(c)) /\ (WasActivated(d) <=> WasActivated(c)) /\ HoldFits(d)
    BY <1>4, <2>1, <2>2 DEF IsHeld, WasActivated
  <2> QED BY <1>1, <1>2, <1>4, <2>2, <2>3, <2>4, HoldStep
<1>5. CASE HoldExpires(o)
  <2>1. PICK hold \in Holdings : /\ hold = IF c.hold = "reserved" THEN "expired" ELSE "overdue"
                                 /\ capacity' = [capacity EXCEPT ![o].hold = hold] /\ c.hold \in {"reserved", "active"}
    BY <1>2, <1>5 DEF HoldExpires, Holdings
  <2> DEFINE d == [c EXCEPT !.hold = hold]
  <2>2. d.hold = hold /\ d.admitted = c.admitted /\ d.activated = c.activated /\ d.cancelled = c.cancelled
    BY DEF CapacityRow
  <2>3. HoldFits(d) /\ IsHeld(c) /\ c.hold # None
    BY <1>2, <2>1, <2>2, TasksAssumption DEF HoldFits, WasActivated, IsHeld, Holdings
  <2> QED BY <1>4, <2>1, <2>2, <2>3
<1>6. CASE ReconcileHold(o)
  <2>1. PICK hold \in {"released", "ended", "unknown"} :
           /\ capacity' = [capacity EXCEPT ![o].hold = hold]
           /\ c.hold \in {"active", "overdue", "unknown"} \/ (hold = "released" /\ c.hold = "reserved")
    BY <1>2, <1>6 DEF ReconcileHold
  <2> DEFINE d == [c EXCEPT !.hold = hold]
  <2>2. d.hold = hold /\ d.admitted = c.admitted /\ d.activated = c.activated /\ d.cancelled = c.cancelled
    BY DEF CapacityRow
  <2>3. HoldFits(d) /\ IsHeld(c) /\ c.hold # None /\ hold \in Holdings
    BY <1>2, <2>1, <2>2, TasksAssumption DEF HoldFits, WasActivated, IsHeld, Holdings
  <2> QED BY <1>4, <2>1, <2>2, <2>3
<1>7. ASSUME ActivateInCapacity(o) PROVE TasksInv'
  <2>1. PICK decision \in {"revalidated", "rejected"} :
           /\ decision = "revalidated" => c.hold = "reserved"
           /\ capacity' = [capacity EXCEPT ![o].activated = decision,
                                           ![o].hold = IF decision = "revalidated" THEN "active" ELSE c.hold]
           /\ c.hold \in {"reserved", "expired"} /\ c.activated = None
    BY <1>2, <1>7 DEF ActivateInCapacity
  <2>2. PICK d : d = [c EXCEPT !.activated = decision, !.hold = IF decision = "revalidated" THEN "active" ELSE c.hold]
    OBVIOUS
  <2>3. /\ d \in CapacityRow /\ d.admitted = c.admitted /\ d.activated = decision /\ d.cancelled = c.cancelled
        /\ d.hold = IF decision = "revalidated" THEN "active" ELSE c.hold
    BY <2>2 DEF CapacityRow, Holdings
  <2>4. capacity' = [capacity EXCEPT ![o] = d]
    BY <1>2, <2>1, <2>2
  <2>5. /\ HoldFits(d) /\ ~WasActivated(c) /\ (IsHeld(d) => IsHeld(c)) /\ c.hold # None
        /\ WasActivated(d) => IsHeld(c)
    BY <1>2, <2>1, <2>3, TasksAssumption DEF HoldFits, WasActivated, IsHeld, Holdings
  <2> QED BY <1>1, <1>2, <2>3, <2>4, <2>5, HoldStep
<1> QED BY <1>3, <1>5, <1>6, <1>7 DEF ActivateReviewer, ActivateExecution

LEMMA CancelSteps ==
    ASSUME TasksInv, NEW o \in Ops, RequestCancel(o) \/ ReleaseCancelled(o)
    PROVE  TasksInv'
<1>1. /\ o \in DOMAIN operations /\ UNCHANGED <<budget, hosts, child, frozen, world, effects>>
  BY DEF RequestCancel, ReleaseCancelled, Exists
<1>2. PICK x \in OperationRow : x = operations[o] /\ RowFits(x, capacity[o])
  BY <1>1 DEF TasksInv, LedgerInv
<1>3. PICK c \in CapacityRow : c = capacity[o] /\ HoldFits(c) /\ capacity \in [Ops -> CapacityRow]
  BY DEF TasksInv, LedgerInv
<1>4. ASSUME NEW y \in OperationRow, y.requested = x.requested, y.execution = x.execution, y.state # "queued",
             StateFits(y.state, c), Save(o, y), UNCHANGED capacity
      PROVE  TasksInv'
  <2>1. Carries(x, y) /\ Continues(x, y) /\ (y.execution # None /\ y.execution.captured => y.execution.claim)
    BY <1>2, <1>4 DEF Carries, Continues, RowFits
  <2> QED BY <1>1, <1>2, <1>3, <1>4, <2>1, SaveStep
<1>5. CASE RequestCancel(o)
  <2>1. PICK y : y = [x EXCEPT !.cancel = TRUE, !.state = "cancellation_pending"]
    OBVIOUS
  <2>2. y \in OperationRow /\ y.requested = x.requested /\ y.execution = x.execution /\ y.state = "cancellation_pending"
    BY <2>1 DEF OperationRow, PendingStates
  <2>3. Save(o, y) /\ UNCHANGED capacity
    BY <1>2, <1>5, <2>1 DEF RequestCancel
  <2> QED BY <1>4, <2>2, <2>3 DEF StateFits, PendingStates
<1>6. CASE ReleaseCancelled(o)
  <2>1. PICK ok \in BOOLEAN : ok = (x.requested /\ c.admitted = "admitted")
    OBVIOUS
  <2>2. IsHeld(c) \/ WasActivated(c) => ok
    BY <1>2, <1>3, <2>1, TasksAssumption DEF RowFits, HoldFits, IsHeld, Holdings
  <2>3. CASE ok /\ ~c.cancelled /\ c.hold \notin {"reserved", "expired"}
    <3>1. PICK y : y = [x EXCEPT !.receipt = "admitted", !.state = "reconciliation_required"]
      OBVIOUS
    <3>2. y \in OperationRow /\ y.requested = x.requested /\ y.execution = x.execution /\ y.state = "reconciliation_required"
      BY <3>1 DEF OperationRow, PendingStates
    <3>3. Save(o, y) /\ UNCHANGED capacity
      BY <1>2, <1>3, <1>6, <2>1, <2>3, <3>1 DEF ReleaseCancelled
    <3> QED BY <1>4, <3>2, <3>3 DEF StateFits, PendingStates
  <2>4. CASE ~(ok /\ ~c.cancelled /\ c.hold \notin {"reserved", "expired"})
    <3>1. PICK y : y = [x EXCEPT !.state = "cancelled", !.receipt = IF ok THEN "admitted" ELSE x.receipt]
      OBVIOUS
    <3>2. y \in OperationRow /\ y.requested = x.requested /\ y.execution = x.execution /\ y.state = "cancelled"
      BY <3>1 DEF OperationRow
    <3>3. Save(o, y) /\ (IF ok THEN CancelInCapacity(o) ELSE UNCHANGED capacity)
      BY <1>2, <1>3, <1>6, <2>1, <2>4, <3>1 DEF ReleaseCancelled
    <3>4. CASE ok
      <4>1. PICK d \in CapacityRow :
               /\ capacity' = [capacity EXCEPT ![o] = d] /\ HoldFits(d) /\ d.admitted = c.admitted
               /\ ~IsHeld(d) /\ ~WasActivated(c) /\ ~WasActivated(d)
        BY <1>3, <2>4, <3>3, <3>4, CancelledHold
      <4>2. Touches(o, y, d)
        BY <1>1, <3>3, <4>1, HoldSaved DEF TasksInv
      <4>3. Follows(x, capacity[o], y, d)
        BY <1>2, <1>3, <3>2, <4>1 DEF Follows, RowFits, StateFits, Carries, MayHold
      <4> QED BY <1>1, <1>2, <3>2, <4>2, <4>3, TouchedStep DEF Continues
    <3>5. CASE ~ok
      <4>1. ~IsHeld(c) /\ ~WasActivated(c)
        BY <2>2, <3>5
      <4> QED BY <1>4, <3>2, <3>3, <3>5, <4>1 DEF StateFits
    <3> QED BY <3>4, <3>5
  <2> QED BY <2>3, <2>4
<1> QED BY <1>5, <1>6

-----------------------------------------------------------------------------
(* An execution that moves on keeps its capture, and captures only what it claimed. *)
ExecutionGoes(x, y) ==
    /\ y \in OperationRow /\ y.requested = x.requested /\ y.state \in {x.state} \union (PendingStates \ {"queued"})
    /\ x.execution # None /\ y.execution # None
    /\ x.execution.captured => y.execution.captured
    /\ y.execution.captured => y.execution.claim

LEMMA ExecutionSaved ==
    ASSUME TasksInv, NEW o \in DOMAIN operations, NEW y, ExecutionGoes(operations[o], y), Save(o, y), UNCHANGED capacity
    PROVE  LedgerInv' /\ LedgerCarries /\ NoneBegins
<1>1. PICK x \in OperationRow : x = operations[o] /\ RowFits(x, capacity[o]) /\ HoldFits(capacity[o])
  BY DEF TasksInv, LedgerInv
<1>2. Follows(x, capacity[o], y, capacity[o])
  BY <1>1 DEF Follows, RowFits, StateFits, Carries, MayHold, ExecutionGoes, PendingStates
<1>3. Touches(o, y, capacity[o])
  BY RowSaved DEF TasksInv
<1>4. Continues(x, y)
  BY <1>1 DEF Continues, ExecutionGoes
<1> QED BY <1>1, <1>2, <1>3, <1>4, TouchedLedger DEF TasksInv

LEMMA ExecutionStep ==
    ASSUME TasksInv, NEW o \in DOMAIN operations, NEW y, ExecutionGoes(operations[o], y), Save(o, y),
           UNCHANGED <<capacity, budget, hosts, child, frozen, world, effects>>
    PROVE  TasksInv'
<1>1. LedgerInv' /\ LedgerCarries /\ NoneBegins
  BY ExecutionSaved
<1> QED BY <1>1, BudgetStays, ProcessStays DEF TasksInv, WorldInv

(* The row and the execution of an operation, each of its type. *)
LEMMA ExecutionTyped ==
    ASSUME TasksInv, NEW o \in DOMAIN operations, operations[o].execution # None
    PROVE  /\ operations[o] \in OperationRow /\ operations[o].execution \in ExecutionRow
           /\ operations[o].execution.captured => operations[o].execution.claim
  BY DEF TasksInv, LedgerInv, OperationRow, RowFits

LEMMA IntentSteps ==
    ASSUME TasksInv, NEW o \in WorkerOps,
           \/ FreezeLaunch(o) \/ RecordHostPrepared(o) \/ MarkStartUnknown(o) \/ LinkCandidate(o)
           \/ RecordExecutionActivation(o)
    PROVE  TasksInv'
<1>1. /\ o \in DOMAIN operations /\ operations[o].execution # None
      /\ UNCHANGED <<capacity, budget, hosts, child, frozen, world, effects>>
  BY DEF FreezeLaunch, RecordHostPrepared, MarkStartUnknown, LinkCandidate, RecordExecutionActivation, Executes, Exists
<1>2. PICK x \in OperationRow : x = operations[o] /\ x.execution # None
  BY <1>1, ExecutionTyped
<1>3. PICK e \in ExecutionRow : e = x.execution /\ (e.captured => e.claim)
  BY <1>1, <1>2, ExecutionTyped
<1>4. ASSUME NEW f \in ExecutionRow, NEW y \in OperationRow, y.execution = f, y.requested = x.requested,
             y.state \in {x.state, "execution_unknown"}, f.captured = e.captured, f.claim = e.claim, Save(o, y)
      PROVE  TasksInv'
  <2>1. f # None
    BY TasksAssumption
  <2>2. ExecutionGoes(x, y)
    BY <1>2, <1>3, <1>4, <2>1 DEF ExecutionGoes, PendingStates
  <2> QED BY <1>1, <1>2, <1>4, <2>2, ExecutionStep
<1>5. CASE FreezeLaunch(o)
  <2>1. PICK f \in ExecutionRow : f = [e EXCEPT !.launch = TRUE] /\ f.captured = e.captured /\ f.claim = e.claim
    <3>1. PICK g : g = [e EXCEPT !.launch = TRUE]
      OBVIOUS
    <3>2. g \in ExecutionRow /\ g.captured = e.captured /\ g.claim = e.claim
      BY <3>1 DEF ExecutionRow
    <3> QED BY <3>1, <3>2
  <2>2. PICK y : y = [x EXCEPT !.execution = f]
    OBVIOUS
  <2>3. y \in OperationRow /\ y.execution = f /\ y.requested = x.requested /\ y.state = x.state
    BY <2>2 DEF OperationRow
  <2>4. Save(o, y)
    BY <1>2, <1>3, <1>5, <2>1, <2>2 DEF FreezeLaunch
  <2> QED BY <1>4, <2>1, <2>3, <2>4
<1>6. CASE RecordHostPrepared(o)
  <2>1. PICK f \in ExecutionRow : f = [e EXCEPT !.host = TRUE] /\ f.captured = e.captured /\ f.claim = e.claim
    <3>1. PICK g : g = [e EXCEPT !.host = TRUE]
      OBVIOUS
    <3>2. g \in ExecutionRow /\ g.captured = e.captured /\ g.claim = e.claim
      BY <3>1 DEF ExecutionRow
    <3> QED BY <3>1, <3>2
  <2>2. PICK y : y = [x EXCEPT !.execution = f]
    OBVIOUS
  <2>3. y \in OperationRow /\ y.execution = f /\ y.requested = x.requested /\ y.state = x.state
    BY <2>2 DEF OperationRow
  <2>4. Save(o, y)
    BY <1>2, <1>3, <1>6, <2>1, <2>2 DEF RecordHostPrepared
  <2> QED BY <1>4, <2>1, <2>3, <2>4
<1>7. CASE MarkStartUnknown(o)
  <2>1. PICK f \in ExecutionRow : f = [e EXCEPT !.phase = "start_unknown"] /\ f.captured = e.captured /\ f.claim = e.claim
    <3>1. PICK g : g = [e EXCEPT !.phase = "start_unknown"]
      OBVIOUS
    <3>2. g \in ExecutionRow /\ g.captured = e.captured /\ g.claim = e.claim
      BY <3>1 DEF ExecutionRow, ExecutionPhases
    <3> QED BY <3>1, <3>2
  <2>2. PICK y : y = [x EXCEPT !.execution = f, !.state = "execution_unknown"]
    OBVIOUS
  <2>3. y \in OperationRow /\ y.execution = f /\ y.requested = x.requested /\ y.state = "execution_unknown"
    BY <2>2 DEF OperationRow, PendingStates
  <2>4. Save(o, y)
    BY <1>2, <1>3, <1>7, <2>1, <2>2 DEF MarkStartUnknown
  <2> QED BY <1>4, <2>1, <2>3, <2>4
<1>8. CASE LinkCandidate(o)
  <2>1. PICK f \in ExecutionRow : f = [e EXCEPT !.phase = "candidate_recorded"] /\ f.captured = e.captured /\ f.claim = e.claim
    <3>1. PICK g : g = [e EXCEPT !.phase = "candidate_recorded"]
      OBVIOUS
    <3>2. g \in ExecutionRow /\ g.captured = e.captured /\ g.claim = e.claim
      BY <3>1 DEF ExecutionRow, ExecutionPhases
    <3> QED BY <3>1, <3>2
  <2>2. PICK y : y = [x EXCEPT !.execution = f]
    OBVIOUS
  <2>3. y \in OperationRow /\ y.execution = f /\ y.requested = x.requested /\ y.state = x.state
    BY <2>2 DEF OperationRow
  <2>4. Save(o, y)
    BY <1>2, <1>3, <1>8, <2>1, <2>2 DEF LinkCandidate
  <2> QED BY <1>4, <2>1, <2>3, <2>4
<1>9. CASE RecordExecutionActivation(o)
  <2>1. PICK decision \in {"revalidated", "rejected"} : decision = capacity[o].activated
    BY <1>9 DEF RecordExecutionActivation, TasksInv, LedgerInv, CapacityRow, Ops
  <2>2. PICK ph \in ExecutionPhases :
           ph = IF decision = "rejected" THEN "activation_rejected" ELSE IF e.phase = "prepared" THEN "activated" ELSE e.phase
    BY DEF ExecutionRow, ExecutionPhases
  <2>3. PICK f \in ExecutionRow : f = [e EXCEPT !.activation = decision, !.phase = ph] /\ f.captured = e.captured /\ f.claim = e.claim
    <3>1. PICK g : g = [e EXCEPT !.activation = decision, !.phase = ph]
      OBVIOUS
    <3>2. g \in ExecutionRow /\ g.captured = e.captured /\ g.claim = e.claim
      BY <3>1 DEF ExecutionRow
    <3> QED BY <3>1, <3>2
  <2>4. PICK st \in {x.state, "execution_unknown"} :
           st = IF decision = "rejected" /\ ~x.cancel THEN "execution_unknown" ELSE x.state
    OBVIOUS
  <2>5. PICK y : y = [x EXCEPT !.execution = f, !.state = st]
    OBVIOUS
  <2>6. y \in OperationRow /\ y.execution = f /\ y.requested = x.requested /\ y.state = st
    BY <2>5 DEF OperationRow, PendingStates
  <2>7. Save(o, y)
    <3>1. CASE decision = "rejected"
      BY <1>2, <1>3, <1>9, <2>1, <2>2, <2>3, <2>4, <2>5, <3>1 DEF RecordExecutionActivation, OperationRow
    <3>2. CASE decision # "rejected"
      BY <1>2, <1>3, <1>9, <2>1, <2>2, <2>3, <2>4, <2>5, <3>2 DEF RecordExecutionActivation, OperationRow
    <3> QED BY <3>1, <3>2
  <2> QED BY <1>4, <2>3, <2>4, <2>6, <2>7
<1> QED BY <1>5, <1>6, <1>7, <1>8, <1>9

(* observe_execution changes the state at most. *)
LEMMA ObservedGoes ==
    ASSUME TasksInv, NEW o \in DOMAIN operations, operations[o].execution # None
    PROVE  ExecutionGoes(operations[o], Observed(operations[o]))
<1>1. PICK x \in OperationRow : x = operations[o] /\ x.execution # None /\ (x.execution.captured => x.execution.claim)
  BY ExecutionTyped
<1>2. PICK y : y = [x EXCEPT !.state = "execution_unknown"]
  OBVIOUS
<1>3. y \in OperationRow /\ y.execution = x.execution /\ y.requested = x.requested /\ y.state = "execution_unknown"
  BY <1>2 DEF OperationRow, PendingStates
<1>4. Observed(x) \in {x, y}
  BY <1>2 DEF Observed
<1>5. ExecutionGoes(x, x) /\ ExecutionGoes(x, y)
  BY <1>1, <1>3 DEF ExecutionGoes, PendingStates
<1> QED BY <1>1, <1>4, <1>5

LEMMA ObserveStep ==
    ASSUME TasksInv, NEW o \in WorkerOps, ObserveFailure(o)
    PROVE  TasksInv'
<1>1. PICK y : y = Observed(operations[o])
  OBVIOUS
<1>2. /\ o \in DOMAIN operations /\ operations[o].execution # None /\ Save(o, y)
      /\ UNCHANGED <<capacity, budget, hosts, child, frozen, world, effects>>
  BY <1>1 DEF ObserveFailure, Exists
<1> QED BY <1>1, <1>2, ObservedGoes, ExecutionStep

-----------------------------------------------------------------------------
(* The budget: a claim stays, and none is made beyond the limit. *)
BudgetFits(b) == b \in BudgetRow /\ IsFiniteSet(b.claims) /\ Cardinality(b.claims) <= b.limit

LEMMA ClaimMade ==
    ASSUME TasksInv, NEW n \in Nat, NEW o \in Ops, Claims(n, o)
    PROVE  /\ budget' # None /\ BudgetFits(budget') /\ <<n, o>> \in budget'.claims
           /\ budget # None => budget.claims \subseteq budget'.claims
<1>1. PICK allowed \in Nat : allowed = Allowed
  BY TasksAssumption DEF TasksInv, WorldInv, Allowed
<1>2. CASE budget = None
  <2>1. PICK b : b = [limit |-> allowed, claims |-> {<<n, o>>}]
    OBVIOUS
  <2>2. budget' = b /\ allowed > 0
    BY <1>1, <1>2, <2>1 DEF Claims
  <2>3. b \in BudgetRow /\ b.limit = allowed /\ b.claims = {<<n, o>>}
    BY <2>1 DEF BudgetRow, Ops
  <2>4. IsFiniteSet(b.claims) /\ Cardinality(b.claims) = 1
    BY <2>3, FS_Singleton
  <2> QED BY <1>1, <1>2, <2>2, <2>3, <2>4, TasksAssumption DEF BudgetFits
<1>3. CASE budget # None
  <2>1. PICK b \in BudgetRow : b = budget /\ IsFiniteSet(b.claims) /\ Cardinality(b.claims) <= b.limit
    BY <1>3 DEF TasksInv, BudgetInv, ClaimCount
  <2>2. CASE <<n, o>> \in budget.claims /\ UNCHANGED budget
    BY <1>3, <2>1, <2>2 DEF BudgetFits
  <2>3. CASE /\ <<n, o>> \notin budget.claims /\ ClaimCount < Least(budget.limit, Allowed)
             /\ budget' = [budget EXCEPT !.limit = Least(@, Allowed), !.claims = @ \union {<<n, o>>}]
    <3>1. PICK d : d = [b EXCEPT !.limit = Least(b.limit, allowed), !.claims = b.claims \union {<<n, o>>}]
      OBVIOUS
    <3>2. budget' = d /\ Cardinality(b.claims) < Least(b.limit, allowed) /\ <<n, o>> \notin b.claims
      BY <1>1, <2>1, <2>3, <3>1 DEF ClaimCount
    <3>3. Least(b.limit, allowed) \in Nat
      BY DEF Least, BudgetRow
    <3>4. d \in BudgetRow /\ d.limit = Least(b.limit, allowed) /\ d.claims = b.claims \union {<<n, o>>}
      <4>1. PICK C \in SUBSET (Nat \X Ops) : C = b.claims
        BY DEF BudgetRow, Ops
      <4>0. PICK w \in Nat \X Ops : w = <<n, o>>
        OBVIOUS
      <4>2. PICK D \in SUBSET (Nat \X Ops) : D = C \union {<<n, o>>}
        <5>1. C \union {w} \in SUBSET (Nat \X Ops)
          OBVIOUS
        <5> QED BY <4>0, <5>1
      <4>3. PICK m \in Nat : m = Least(b.limit, allowed)
        BY <3>3
      <4> QED BY <3>1, <4>1, <4>2, <4>3 DEF BudgetRow, Ops
    <3>5. IsFiniteSet(d.claims) /\ Cardinality(d.claims) = Cardinality(b.claims) + 1 /\ Cardinality(b.claims) \in Nat
      <4>1. PICK C : C = b.claims
        OBVIOUS
      <4>2. PICK m : m = <<n, o>>
        OBVIOUS
      <4>3. IsFiniteSet(C) /\ m \notin C
        BY <2>1, <3>2, <4>1, <4>2
      <4>4. IsFiniteSet(C \union {m}) /\ Cardinality(C \union {m}) = Cardinality(C) + 1 /\ Cardinality(C) \in Nat
        BY <4>3, FS_AddElement, FS_CardinalityType
      <4> QED BY <3>4, <4>1, <4>2, <4>4
    <3>6. Cardinality(d.claims) <= d.limit
      BY <3>2, <3>3, <3>4, <3>5
    <3> QED BY <2>1, <3>2, <3>4, <3>5, <3>6, TasksAssumption DEF BudgetFits
  <2> QED BY <1>3, <2>2, <2>3 DEF Claims
<1> QED BY <1>2, <1>3

LEMMA BudgetGrows ==
    ASSUME TasksInv, NEW n \in Nat, NEW o \in Ops, Claims(n, o),
           \A p \in DOMAIN operations' : operations'[p].execution # None =>
              (p \in DOMAIN operations /\ operations[p].execution # None) \/ <<n, o>> = <<Writer, p>>
    PROVE  BudgetInv'
<1>1. /\ budget' # None /\ BudgetFits(budget') /\ <<n, o>> \in budget'.claims
      /\ budget # None => budget.claims \subseteq budget'.claims
  BY ClaimMade
<1>2. ASSUME NEW p \in DOMAIN operations', operations'[p].execution # None PROVE <<Writer, p>> \in budget'.claims
  BY <1>1, <1>2 DEF TasksInv, BudgetInv
<1> QED BY <1>1, <1>2 DEF BudgetInv, BudgetFits, ClaimCount

LEMMA ClaimSteps ==
    ASSUME TasksInv, NEW o \in WorkerOps, PrepareIntent(o) \/ ValidateCandidate(o)
    PROVE  TasksInv'
<1>1. /\ o \in DOMAIN operations /\ o \in Ops /\ UNCHANGED <<capacity, hosts, child, frozen, world, effects>>
  BY DEF PrepareIntent, ValidateCandidate, Executes, Exists, Ops
<1>2. PICK x \in OperationRow : x = operations[o] /\ RowFits(x, capacity[o]) /\ HoldFits(capacity[o])
  BY <1>1 DEF TasksInv, LedgerInv
<1>3. CASE PrepareIntent(o)
  <2>1. PICK e : e = [phase |-> "prepared", activation |-> None, launch |-> FALSE,
                      host |-> FALSE, claim |-> FALSE, captured |-> FALSE]
    OBVIOUS
  <2>2. e \in ExecutionRow /\ ~e.captured
    BY <2>1 DEF ExecutionRow, ExecutionPhases
  <2>3. PICK y : y = [x EXCEPT !.state = "execution_pending", !.execution = e]
    OBVIOUS
  <2>4. Save(o, y) /\ Claims(Writer, o) /\ x.execution = None
    BY <1>2, <1>3, <2>1, <2>3 DEF PrepareIntent
  <2>5. y \in OperationRow /\ y.execution = e /\ y.requested = x.requested /\ y.state = "execution_pending"
    BY <2>2, <2>3 DEF OperationRow, PendingStates
  <2>6. Touches(o, y, capacity[o])
    BY <1>1, <2>4, RowSaved DEF TasksInv
  <2>7. Follows(x, capacity[o], y, capacity[o])
    BY <1>2, <2>2, <2>4, <2>5 DEF Follows, RowFits, StateFits, Carries, MayHold, PendingStates
  <2>8. LedgerInv' /\ LedgerCarries
    BY <1>1, <1>2, <2>6, <2>7, TouchedLedger DEF TasksInv
  <2>9. \A p \in DOMAIN operations' : operations'[p].execution # None =>
           (p \in DOMAIN operations /\ operations[p].execution # None) \/ <<Writer, o>> = <<Writer, p>>
    BY <2>6 DEF Touches
  <2>10. BudgetInv'
    BY <1>1, <2>4, <2>9, BudgetGrows DEF Writer
  <2> QED BY <1>1, <2>8, <2>10, ProcessStays DEF TasksInv, WorldInv
<1>4. CASE ValidateCandidate(o)
  <2>1. PICK y : y = [x EXCEPT !.validated = x.validated + 1]
    OBVIOUS
  <2>2. Save(o, y) /\ Claims(x.validated + 1, o) /\ x.execution # None
    BY <1>2, <1>4, <2>1 DEF ValidateCandidate, Executes
  <2>3. /\ y \in OperationRow /\ y.execution = x.execution /\ y.requested = x.requested /\ y.state = x.state
        /\ x.validated + 1 \in Nat
    BY <2>1 DEF OperationRow
  <2>4. ExecutionGoes(x, y)
    BY <1>2, <2>2, <2>3 DEF ExecutionGoes, RowFits
  <2>5. LedgerInv' /\ LedgerCarries /\ NoneBegins
    BY <1>1, <1>2, <2>2, <2>4, ExecutionSaved
  <2>6. \A p \in DOMAIN operations' : operations'[p].execution # None =>
           (p \in DOMAIN operations /\ operations[p].execution # None) \/ <<x.validated + 1, o>> = <<Writer, p>>
    BY <2>5 DEF NoneBegins
  <2>7. BudgetInv'
    BY <1>1, <2>2, <2>3, <2>6, BudgetGrows
  <2> QED BY <1>1, <2>5, <2>7, ProcessStays DEF TasksInv, WorldInv
<1> QED BY <1>3, <1>4

-----------------------------------------------------------------------------
(* The host, the child and the effects of one operation change. *)
LEMMA ProcessMoves ==
    ASSUME TasksInv, LedgerCarries, NEW o \in Ops, NEW h \in HostStates \union {None},
           hosts' = [hosts EXCEPT ![o] = h], h # None => WasActivated(capacity'[o]),
           \A p \in WorkerOps : p # o => child'[p] = child[p] /\ effects'[p] = effects[p],
           o \in WorkerOps => ProcessFits(h, child'[o], effects'[o]),
           o \in WorkerOps /\ child'[o] # None => o \in DOMAIN operations' /\ operations'[o].execution # None,
           child' \in [WorkerOps -> ChildStates \union {None}], effects' \in [WorkerOps -> EffectsRow],
           UNCHANGED frozen
    PROVE  ProcessInv'
<1>1. /\ hosts' \in [Ops -> HostStates \union {None}] /\ hosts'[o] = h
      /\ \A p \in Ops : p # o => hosts'[p] = hosts[p]
  BY DEF TasksInv, ProcessInv
<1>2. ASSUME NEW p \in Ops, hosts'[p] # None PROVE WasActivated(capacity'[p])
  BY <1>1, <1>2 DEF TasksInv, ProcessInv, LedgerCarries
<1>3. ASSUME NEW p \in WorkerOps
      PROVE  /\ ProcessFits(hosts'[p], child'[p], effects'[p])
             /\ child'[p] # None => p \in DOMAIN operations' /\ operations'[p].execution # None
  <2>1. CASE p = o
    BY <1>1, <2>1
  <2>2. CASE p # o
    BY <1>1, <2>2 DEF TasksInv, ProcessInv, LedgerCarries, Carries, Ops
  <2> QED BY <2>1, <2>2
<1>4. \A p \in frozen' : p \in DOMAIN operations' /\ operations'[p].execution # None /\ operations'[p].execution.captured
  BY DEF TasksInv, ProcessInv, LedgerCarries, Carries
<1> QED BY <1>1, <1>2, <1>3, <1>4 DEF ProcessInv, ProcessFits

(* The ledger, Capacity and the budget left alone. *)
LEMMA LedgerIdle ==
    ASSUME TasksInv, UNCHANGED <<operations, capacity, budget, world>>
    PROVE  LedgerInv' /\ BudgetInv' /\ WorldInv' /\ LedgerCarries
<1>1. LedgerInv' /\ WorldInv'
  BY DEF TasksInv, LedgerInv, RowFits, StateFits, HoldFits, WasActivated, MayHold, IsHeld, WorldInv
<1>2. LedgerCarries /\ NoneBegins
  BY DEF LedgerCarries, Carries, NoneBegins
<1> QED BY <1>1, <1>2, BudgetStays DEF TasksInv

LEMMA HostSteps ==
    ASSUME TasksInv, NEW o \in Ops,
           \/ o \in WorkerOps /\ (PrepareHost(o) \/ StartHost(o) \/ CancelHost(o) \/ ChildStops(o))
           \/ o \in ReviewerOps /\ (PrepareReviewHost(o) \/ StartReviewHost(o))
    PROVE  TasksInv'
<1>1. UNCHANGED <<operations, capacity, budget, frozen, world, effects>>
  BY DEF PrepareHost, StartHost, CancelHost, ChildStops, PrepareReviewHost, StartReviewHost
<1>2. LedgerInv' /\ BudgetInv' /\ WorldInv' /\ LedgerCarries
  BY <1>1, LedgerIdle
<1>3. /\ child \in [WorkerOps -> ChildStates \union {None}] /\ effects \in [WorkerOps -> EffectsRow]
      /\ (hosts[o] # None => WasActivated(capacity[o])) /\ HoldFits(capacity[o])
      /\ o \in WorkerOps => /\ ProcessFits(hosts[o], child[o], effects[o])
                            /\ child[o] # None => o \in DOMAIN operations /\ operations[o].execution # None
  BY DEF TasksInv, ProcessInv, LedgerInv
<1>4. ASSUME NEW h \in HostStates, hosts' = [hosts EXCEPT ![o] = h], WasActivated(capacity[o]), UNCHANGED child,
             o \in WorkerOps => ProcessFits(h, child[o], effects[o])
      PROVE  TasksInv'
  <2>1. ProcessInv'
    BY <1>1, <1>2, <1>3, <1>4, ProcessMoves
  <2> QED BY <1>2, <2>1 DEF TasksInv
<1>5. ASSUME NEW h \in HostStates, NEW c \in ChildStates, hosts' = [hosts EXCEPT ![o] = h], WasActivated(capacity[o]),
             child' = [child EXCEPT ![o] = c], o \in WorkerOps, ProcessFits(h, c, effects[o]),
             o \in DOMAIN operations, operations[o].execution # None
      PROVE  TasksInv'
  <2>1. child' \in [WorkerOps -> ChildStates \union {None}] /\ child'[o] = c /\ \A p \in WorkerOps : p # o => child'[p] = child[p]
    BY <1>3, <1>5
  <2>2. ProcessInv'
    BY <1>1, <1>2, <1>3, <1>5, <2>1, ProcessMoves
  <2> QED BY <1>2, <2>2 DEF TasksInv
<1>6. CASE (o \in WorkerOps /\ PrepareHost(o)) \/ (o \in ReviewerOps /\ PrepareReviewHost(o))
  <2>1. /\ hosts' = [hosts EXCEPT ![o] = "prepared"] /\ WasActivated(capacity[o]) /\ UNCHANGED child /\ hosts[o] = None
    BY <1>3, <1>6 DEF HoldFits, PrepareHost, PrepareReviewHost, CurrentGuard, ReviewerGuard
  <2>2. o \in WorkerOps => ProcessFits("prepared", child[o], effects[o])
    BY <1>3, <2>1, TasksAssumption DEF ProcessFits, HostStates
  <2> QED BY <1>4, <2>1, <2>2 DEF HostStates
<1>7. CASE o \in ReviewerOps /\ StartReviewHost(o)
  <2>1. hosts' = [hosts EXCEPT ![o] = "running"] /\ UNCHANGED child /\ hosts[o] = "prepared" /\ o \notin WorkerOps
    BY <1>7, TasksAssumption DEF StartReviewHost
  <2> QED BY <1>3, <1>4, <2>1, TasksAssumption DEF HostStates
<1>8. CASE o \in WorkerOps /\ StartHost(o)
  <2>1. /\ hosts' = [hosts EXCEPT ![o] = "running"] /\ child' = [child EXCEPT ![o] = "registered"] /\ hosts[o] = "prepared"
        /\ WasActivated(capacity[o]) /\ o \in DOMAIN operations /\ operations[o].execution # None
    BY <1>3, <1>8 DEF HoldFits, StartHost, MayStart, MayAct, Executes, Exists
  <2>2. child[o] = None
    BY <1>3, <1>8, <2>1 DEF ProcessFits
  <2>3. ProcessFits("running", "registered", effects[o])
    BY <1>3, <1>8, <2>2 DEF ProcessFits
  <2> QED BY <1>5, <1>8, <2>1, <2>3 DEF HostStates, ChildStates
<1>9. ASSUME o \in WorkerOps, hosts[o] \in {"prepared", "running"}, hosts' = [hosts EXCEPT ![o] = "ended"],
             child' = [child EXCEPT ![o] = IF child[o] = None THEN None ELSE "over"]
      PROVE  TasksInv'
  <2>1. WasActivated(capacity[o])
    BY <1>3, <1>9, TasksAssumption DEF HostStates
  <2>2. CASE child[o] = None
    <3>1. UNCHANGED child
      BY <1>3, <1>9, <2>2
    <3>2. ProcessFits("ended", child[o], effects[o])
      BY <1>3, <1>9, <2>2 DEF ProcessFits
    <3> QED BY <1>4, <1>9, <2>1, <3>1, <3>2 DEF HostStates
  <2>3. CASE child[o] # None
    <3>1. ProcessFits("ended", "over", effects[o])
      BY <1>3, <1>9, TasksAssumption DEF ProcessFits, ChildStates
    <3>2. child' = [child EXCEPT ![o] = "over"] /\ o \in DOMAIN operations /\ operations[o].execution # None
      BY <1>3, <1>9, <2>3
    <3> QED BY <1>5, <1>9, <2>1, <3>1, <3>2 DEF HostStates, ChildStates
  <2> QED BY <2>2, <2>3
<1>10. CASE o \in WorkerOps /\ CancelHost(o)
  BY <1>9, <1>10 DEF CancelHost
<1>11. CASE o \in WorkerOps /\ ChildStops(o)
  BY <1>3, <1>9, <1>11 DEF ChildStops
<1> QED BY <1>6, <1>7, <1>8, <1>10, <1>11

(* The child goes on while its host runs. *)
LEMMA ChildSteps ==
    ASSUME TasksInv, NEW o \in WorkerOps,
           CheckStartup(o) \/ CreateGrant(o) \/ StartNative(o) \/ SendCall(o) \/ FreezeCandidate(o)
    PROVE  TasksInv'
<1>1. UNCHANGED <<operations, capacity, budget, hosts, world>> /\ o \in Ops
  BY DEF CheckStartup, CreateGrant, StartNative, SendCall, FreezeCandidate, Ops
<1>2. LedgerInv' /\ BudgetInv' /\ WorldInv' /\ LedgerCarries
  BY <1>1, LedgerIdle
<1>3. /\ child \in [WorkerOps -> ChildStates \union {None}] /\ effects \in [WorkerOps -> EffectsRow]
      /\ hosts \in [Ops -> HostStates \union {None}] /\ (hosts[o] # None => WasActivated(capacity[o]))
      /\ ProcessFits(hosts[o], child[o], effects[o])
      /\ child[o] # None => o \in DOMAIN operations /\ operations[o].execution # None
  BY <1>1 DEF TasksInv, ProcessInv
<1>4. PICK h \in HostStates \union {None} : h = hosts[o] /\ hosts' = [hosts EXCEPT ![o] = h]
  BY <1>1, <1>3
<1>5. PICK e \in EffectsRow : e = effects[o]
  BY <1>3
<1>6. ASSUME NEW c \in ChildStates, NEW f \in EffectsRow, child' = [child EXCEPT ![o] = c], effects' = [effects EXCEPT ![o] = f],
             child[o] # None, ProcessFits(h, c, f), UNCHANGED frozen
      PROVE  TasksInv'
  <2>1. /\ child' \in [WorkerOps -> ChildStates \union {None}] /\ child'[o] = c
        /\ effects' \in [WorkerOps -> EffectsRow] /\ effects'[o] = f
        /\ \A p \in WorkerOps : p # o => child'[p] = child[p] /\ effects'[p] = effects[p]
    BY <1>3, <1>6
  <2>2. ProcessInv'
    BY <1>1, <1>2, <1>3, <1>4, <1>6, <2>1, ProcessMoves
  <2> QED BY <1>2, <2>2 DEF TasksInv
<1>7. effects = [effects EXCEPT ![o] = e]
  BY <1>3, <1>5
<1>8. CASE CheckStartup(o) \/ CreateGrant(o)
  <2>1. PICK c \in {"checked", "granted"} : child' = [child EXCEPT ![o] = c] /\ UNCHANGED <<effects, frozen>>
                                           /\ child[o] \in {"registered", "claimed"}
    BY <1>8 DEF CheckStartup, CreateGrant, ChildGoes
  <2>2. child[o] # None /\ ProcessFits(h, c, e)
    BY <1>3, <1>4, <1>5, <2>1, TasksAssumption DEF ProcessFits, ChildStates
  <2> QED BY <1>6, <1>7, <2>1, <2>2 DEF ChildStates
<1>9. CASE StartNative(o)
  <2>1. child' = [child EXCEPT ![o] = "working"] /\ child[o] = "granted" /\ UNCHANGED frozen
    BY <1>9 DEF StartNative, ChildGoes
  <2>2. PICK f : f = [e EXCEPT !.starts = e.starts + 1]
    OBVIOUS
  <2>3. f \in EffectsRow /\ f.starts = e.starts + 1
    BY <2>2 DEF EffectsRow
  <2>4. effects' = [effects EXCEPT ![o] = f]
    BY <1>3, <1>5, <1>9, <2>2 DEF StartNative
  <2>5. child[o] # None /\ ProcessFits(h, "working", f)
    BY <1>3, <1>4, <1>5, <2>1, <2>3, TasksAssumption DEF ProcessFits, ChildStates
  <2> QED BY <1>6, <2>1, <2>3, <2>4, <2>5 DEF ChildStates
<1>10. CASE SendCall(o)
  <2>1. child[o] = "working" /\ UNCHANGED <<child, frozen>>
    BY <1>10 DEF SendCall
  <2>2. PICK f : f = [e EXCEPT !.sends = e.sends + 1]
    OBVIOUS
  <2>3. f \in EffectsRow /\ f.starts = e.starts
    BY <2>2 DEF EffectsRow
  <2>4. effects' = [effects EXCEPT ![o] = f]
    BY <1>3, <1>5, <1>10, <2>2 DEF SendCall
  <2>5. child[o] # None /\ ProcessFits(h, "working", f) /\ child' = [child EXCEPT ![o] = "working"]
    BY <1>3, <1>4, <1>5, <2>1, <2>3, TasksAssumption DEF ProcessFits, ChildStates
  <2> QED BY <1>6, <2>3, <2>4, <2>5, <2>1 DEF ChildStates
<1>11. CASE FreezeCandidate(o)
  <2>1. /\ child' = [child EXCEPT ![o] = "frozen"] /\ child[o] = "captured" /\ frozen' = frozen \union {o}
        /\ UNCHANGED effects /\ o \in DOMAIN operations /\ operations[o].execution # None /\ operations[o].execution.captured
    BY <1>11 DEF FreezeCandidate, ChildGoes, CollectionGuard, Executes, Exists
  <2>2. ProcessFits(h, "frozen", e)
    BY <1>3, <1>4, <1>5, <2>1, TasksAssumption DEF ProcessFits, ChildStates
  <2>3. /\ child' \in [WorkerOps -> ChildStates \union {None}] /\ child'[o] = "frozen"
        /\ \A p \in WorkerOps : p # o => child'[p] = child[p]
    BY <1>3, <2>1 DEF ChildStates
  <2>4. ASSUME NEW p \in WorkerOps
        PROVE  /\ ProcessFits(hosts'[p], child'[p], effects'[p])
               /\ child'[p] # None => p \in DOMAIN operations' /\ operations'[p].execution # None
    <3>1. CASE p = o
      BY <1>1, <1>4, <1>5, <2>1, <2>2, <2>3, <3>1
    <3>2. CASE p # o
      BY <1>1, <2>1, <2>3, <3>2 DEF TasksInv, ProcessInv
    <3> QED BY <3>1, <3>2
  <2>5. \A p \in frozen' : p \in DOMAIN operations' /\ operations'[p].execution # None /\ operations'[p].execution.captured
    BY <1>1, <2>1 DEF TasksInv, ProcessInv
  <2>6. ProcessInv'
    BY <1>1, <2>1, <2>3, <2>4, <2>5 DEF TasksInv, ProcessInv, ProcessFits
  <2> QED BY <1>2, <2>6 DEF TasksInv
<1> QED BY <1>8, <1>9, <1>10, <1>11

(* The child writes the ledger: its claim, its capture, its failure. *)
LEMMA ChildSaves ==
    ASSUME TasksInv, NEW o \in WorkerOps, ClaimEffect(o) \/ RecordCapture(o) \/ ChildFails(o)
    PROVE  TasksInv'
<1>1. UNCHANGED <<capacity, budget, frozen, world, effects>> /\ o \in Ops
  BY DEF ClaimEffect, RecordCapture, ChildFails, Ops
<1>2. child[o] \in ChildStates \ {"over"} /\ (ClaimEffect(o) => child[o] = "checked") /\ (RecordCapture(o) => child[o] = "working")
  BY DEF ClaimEffect, RecordCapture, ChildFails, ChildGoes, ChildStates, TasksInv, ProcessInv
<1>3. /\ child \in [WorkerOps -> ChildStates \union {None}] /\ effects \in [WorkerOps -> EffectsRow]
      /\ hosts \in [Ops -> HostStates \union {None}] /\ (hosts[o] # None => WasActivated(capacity[o]))
      /\ ProcessFits(hosts[o], child[o], effects[o]) /\ child[o] # None
      /\ o \in DOMAIN operations /\ operations[o].execution # None
  BY <1>1, <1>2, TasksAssumption DEF TasksInv, ProcessInv
<1>4. hosts[o] \in {"running", "ended"} /\ WasActivated(capacity[o])
  BY <1>3, TasksAssumption DEF ProcessFits, HostStates
<1>5. ASSUME NEW y, ExecutionGoes(operations[o], y), Save(o, y), NEW c \in ChildStates, NEW h \in HostStates,
             child' = [child EXCEPT ![o] = c], hosts' = [hosts EXCEPT ![o] = h], ProcessFits(h, c, effects[o])
      PROVE  TasksInv'
  <2>1. LedgerInv' /\ LedgerCarries /\ NoneBegins
    BY <1>1, <1>3, <1>5, ExecutionSaved
  <2>2. child' \in [WorkerOps -> ChildStates \union {None}] /\ child'[o] = c /\ \A p \in WorkerOps : p # o => child'[p] = child[p]
    BY <1>3, <1>5
  <2>3. o \in DOMAIN operations' /\ operations'[o].execution # None
    BY <1>3, <2>1 DEF LedgerCarries, Carries
  <2>4. ProcessInv'
    BY <1>1, <1>3, <1>4, <1>5, <2>1, <2>2, <2>3, ProcessMoves
  <2> QED BY <1>1, <2>1, <2>4, BudgetStays DEF TasksInv, WorldInv
<1>6. PICK x \in OperationRow : x = operations[o] /\ x.execution # None
  BY <1>3, ExecutionTyped
<1>7. PICK e \in ExecutionRow : e = x.execution /\ (e.captured => e.claim)
  BY <1>3, <1>6, ExecutionTyped
<1>8. CASE ClaimEffect(o)
  <2>1. PICK f \in ExecutionRow : f = [e EXCEPT !.claim = TRUE, !.phase = "effect_claimed"] /\ f.captured = e.captured /\ f.claim = TRUE
    <3>1. PICK g : g = [e EXCEPT !.claim = TRUE, !.phase = "effect_claimed"]
      OBVIOUS
    <3>2. g \in ExecutionRow /\ g.captured = e.captured /\ g.claim = TRUE
      BY <3>1 DEF ExecutionRow, ExecutionPhases
    <3> QED BY <3>1, <3>2
  <2>2. PICK y : y = [x EXCEPT !.execution = f, !.state = "executing"]
    OBVIOUS
  <2>3. y \in OperationRow /\ y.execution = f /\ y.requested = x.requested /\ y.state = "executing" /\ f # None
    BY <2>2, TasksAssumption DEF OperationRow, PendingStates
  <2>4. Save(o, y)
    BY <1>6, <1>7, <1>8, <2>1, <2>2 DEF ClaimEffect
  <2>5. ExecutionGoes(x, y)
    BY <1>6, <1>7, <2>1, <2>3 DEF ExecutionGoes, PendingStates
  <2>6. child' = [child EXCEPT ![o] = "claimed"] /\ hosts' = hosts
    BY <1>8 DEF ClaimEffect, ChildGoes
  <2>7. PICK h \in HostStates : h = hosts[o] /\ hosts' = [hosts EXCEPT ![o] = h]
    BY <1>3, <1>4, <2>6 DEF HostStates
  <2>8. ProcessFits(h, "claimed", effects[o])
    BY <1>2, <1>3, <1>8, <2>7, TasksAssumption DEF ProcessFits, ChildStates
  <2> QED BY <1>5, <1>6, <2>4, <2>5, <2>6, <2>7, <2>8 DEF ChildStates
<1>9. CASE RecordCapture(o)
  <2>1. PICK f \in ExecutionRow : f = [e EXCEPT !.captured = TRUE] /\ f.captured = TRUE /\ f.claim = e.claim
    <3>1. PICK g : g = [e EXCEPT !.captured = TRUE]
      OBVIOUS
    <3>2. g \in ExecutionRow /\ g.captured = TRUE /\ g.claim = e.claim
      BY <3>1 DEF ExecutionRow
    <3> QED BY <3>1, <3>2
  <2>2. PICK y : y = [x EXCEPT !.execution = f]
    OBVIOUS
  <2>3. y \in OperationRow /\ y.execution = f /\ y.requested = x.requested /\ y.state = x.state /\ f # None
    BY <2>2, TasksAssumption DEF OperationRow
  <2>4. Save(o, y) /\ e.claim
    BY <1>6, <1>7, <1>9, <2>1, <2>2 DEF RecordCapture
  <2>5. ExecutionGoes(x, y)
    BY <1>6, <1>7, <2>1, <2>3, <2>4 DEF ExecutionGoes
  <2>6. child' = [child EXCEPT ![o] = "captured"] /\ hosts' = hosts
    BY <1>9 DEF RecordCapture, ChildGoes
  <2>7. PICK h \in HostStates : h = hosts[o] /\ hosts' = [hosts EXCEPT ![o] = h]
    BY <1>3, <1>4, <2>6 DEF HostStates
  <2>8. ProcessFits(h, "captured", effects[o])
    BY <1>2, <1>3, <1>9, <2>7, TasksAssumption DEF ProcessFits, ChildStates
  <2> QED BY <1>5, <1>6, <2>4, <2>5, <2>6, <2>7, <2>8 DEF ChildStates
<1>10. CASE ChildFails(o)
  <2>1. PICK y : y = Observed(operations[o])
    OBVIOUS
  <2>2. Save(o, y) /\ child' = [child EXCEPT ![o] = "over"] /\ hosts' = [hosts EXCEPT ![o] = "ended"]
    BY <1>10, <2>1 DEF ChildFails
  <2>3. ExecutionGoes(operations[o], y)
    BY <1>3, <2>1, ObservedGoes
  <2>4. ProcessFits("ended", "over", effects[o])
    BY <1>3, TasksAssumption DEF ProcessFits, ChildStates
  <2> QED BY <1>5, <2>2, <2>3, <2>4 DEF ChildStates, HostStates
<1> QED BY <1>8, <1>9, <1>10

-----------------------------------------------------------------------------
(* enqueue: an operation that holds capacity, or is queued for it, is seen to be pending. *)
LEMMA EnqueueStep ==
    ASSUME TasksInv, NEW o \in Ops, Enqueue(o)
    PROVE  TasksInv'
<1> DEFINE fresh == [p \in DOMAIN operations |->
                     IF SameTask(o, p) /\ operations[p].state = "reserved" THEN Refreshed(p, operations[p]) ELSE operations[p]]
           worker == IF o \in WorkerOps THEN None ELSE CHOOSE w \in Collected : TRUE
           selected == world.routed /\ (o \in ReviewerOps => Reviewable(worker))
           row == [state |-> IF selected THEN "queued" ELSE "blocked", requested |-> selected,
                   worker |-> worker, approval |-> world.approval, receipt |-> None, cancel |-> FALSE,
                   activation |-> None, workspace |-> FALSE, validated |-> 0, execution |-> None]
<1>1. /\ o \notin DOMAIN operations /\ operations' = WithRow(fresh, o, row)
      /\ \A p \in DOMAIN operations : SameTask(o, p) => fresh[p].state \notin PendingStates
      /\ o \in ReviewerOps => Cardinality(Collected) = 1
      /\ UNCHANGED <<capacity, budget, hosts, child, frozen, world, effects>>
  BY DEF Enqueue, Exists
<1>2. /\ DOMAIN operations \subseteq Ops /\ capacity \in [Ops -> CapacityRow]
      /\ \A p \in DOMAIN operations : operations[p] \in OperationRow /\ RowFits(operations[p], capacity[p])
  BY DEF TasksInv, LedgerInv
<1>3. PICK x : x = row
  OBVIOUS
<1>4. x \in OperationRow /\ x.execution = None /\ (x.state = "queued" => x.requested)
  <2>1. worker \in WorkerOps \union {None}
    <3>1. CASE o \in WorkerOps
      BY <3>1
    <3>2. CASE o \notin WorkerOps
      <4>1. Collected # {}
        <5>1. Cardinality(Collected) = 1
          BY <1>1, <3>2 DEF Ops
        <5>2. Collected = {} => Cardinality(Collected) = 0
          BY FS_EmptySet
        <5> QED BY <5>1, <5>2
      <4> QED BY <3>2, <4>1 DEF Collected
    <3> QED BY <3>1, <3>2
  <2>2. selected \in BOOLEAN /\ world.approval \in Nat
    BY TasksAssumption DEF TasksInv, WorldInv, Reviewable
  <2>3. PICK w \in WorkerOps \union {None} : w = worker
    BY <2>1
  <2>4. PICK b \in BOOLEAN : b = selected
    BY <2>2
  <2>5. PICK a \in Nat : a = world.approval
    BY <2>2
  <2>6. x = [state |-> IF b THEN "queued" ELSE "blocked", requested |-> b,
             worker |-> w, approval |-> a, receipt |-> None, cancel |-> FALSE,
             activation |-> None, workspace |-> FALSE, validated |-> 0, execution |-> None]
    BY <1>3, <2>3, <2>4, <2>5
  <2> HIDE DEF worker, selected, row, fresh
  <2> QED BY <2>6 DEF OperationRow, PendingStates
<1>5. /\ DOMAIN operations' = DOMAIN operations \union {o} /\ operations'[o] = x
      /\ \A p \in DOMAIN operations : operations'[p] = fresh[p]
  BY <1>1, <1>3 DEF WithRow
<1>6. ASSUME NEW p \in DOMAIN operations
      PROVE  /\ operations'[p] \in OperationRow /\ operations'[p].requested = operations[p].requested
             /\ operations'[p].execution = operations[p].execution
             /\ StateFits(operations'[p].state, capacity[p])
             /\ operations'[p].state = "queued" => operations[p].state = "queued"
             /\ operations[p].state = "queued" => operations'[p].state = "queued"
  <2>1. PICK z \in OperationRow : z = operations[p] /\ RowFits(z, capacity[p]) /\ p \in Ops
    BY <1>2
  <2>2. CASE SameTask(o, p) /\ operations[p].state = "reserved"
    <3>1. PICK y \in OperationRow :
             /\ y = Refreshed(p, z) /\ y.requested = z.requested /\ y.execution = z.execution
             /\ StateFits(y.state, capacity[p])
             /\ y.state = "queued" => z.state = "queued"
      BY <1>2, <2>1, RefreshedFits
    <3>2. operations'[p] = y
      BY <1>5, <2>1, <2>2, <3>1
    <3> QED BY <2>1, <2>2, <3>1, <3>2
  <2>3. CASE ~(SameTask(o, p) /\ operations[p].state = "reserved")
    <3>1. operations'[p] = operations[p]
      BY <1>5, <2>3
    <3> QED BY <2>1, <3>1 DEF RowFits
  <2> QED BY <2>2, <2>3
<1>7. ASSUME NEW p \in DOMAIN operations, SameTask(o, p) PROVE ~MayHold(operations'[p], capacity[p])
  <2>1. operations'[p].state \notin PendingStates
    BY <1>1, <1>5, <1>7
  <2> QED BY <1>6, <2>1 DEF StateFits, MayHold, PendingStates
<1> HIDE DEF fresh, worker, selected, row
<1>8. ~IsHeld(capacity[o]) /\ ~WasActivated(capacity[o]) /\ capacity[o].admitted = None /\ hosts[o] = None
  <2>1. capacity[o].admitted = None /\ HoldFits(capacity[o])
    BY <1>1 DEF TasksInv, LedgerInv
  <2>2. capacity[o].hold = None /\ ~WasActivated(capacity[o])
    BY <2>1, TasksAssumption DEF HoldFits, Holdings
  <2> QED BY <2>1, <2>2, TasksAssumption DEF IsHeld, Holdings, TasksInv, ProcessInv
<1>9. ASSUME NEW p \in DOMAIN operations'
      PROVE  operations'[p] \in OperationRow /\ RowFits(operations'[p], capacity[p])
  <2>1. CASE p = o
    BY <1>4, <1>5, <1>8, <2>1 DEF RowFits, StateFits
  <2>2. CASE p \in DOMAIN operations
    BY <1>2, <1>6, <2>2 DEF RowFits
  <2> QED BY <1>5, <2>1, <2>2
<1>10. ASSUME NEW p \in DOMAIN operations', NEW q \in DOMAIN operations', p # q, SameTask(p, q)
       PROVE  ~MayHold(operations'[p], capacity[p]) \/ ~MayHold(operations'[q], capacity[q])
  <2>1. CASE p = o \/ q = o
    BY <1>5, <1>7, <1>10, <2>1 DEF SameTask
  <2>2. CASE p # o /\ q # o
    <3>1. /\ p \in DOMAIN operations /\ q \in DOMAIN operations
          /\ MayHold(operations'[p], capacity[p]) => MayHold(operations[p], capacity[p])
          /\ MayHold(operations'[q], capacity[q]) => MayHold(operations[q], capacity[q])
      BY <1>5, <1>6, <2>2 DEF MayHold
    <3> QED BY <1>10, <3>1 DEF TasksInv, LedgerInv
  <2> QED BY <2>1, <2>2
<1>11. LedgerInv'
  <2>1. DOMAIN operations' \subseteq Ops
    BY <1>2, <1>5
  <2>2. \A p \in Ops : HoldFits(capacity[p]) /\ (capacity[p].admitted # None => p \in DOMAIN operations')
    BY <1>5 DEF TasksInv, LedgerInv
  <2> QED BY <1>1, <1>2, <1>9, <1>10, <2>1, <2>2 DEF LedgerInv, RowFits, StateFits, HoldFits, WasActivated, MayHold, IsHeld
<1>12. LedgerCarries /\ NoneBegins
  BY <1>1, <1>4, <1>5, <1>6 DEF LedgerCarries, Carries, NoneBegins
<1> QED BY <1>1, <1>11, <1>12, BudgetStays, ProcessStays DEF TasksInv, WorldInv

LEMMA WorldStep ==
    ASSUME TasksInv, WorldChanges
    PROVE  TasksInv'
<1>1. UNCHANGED <<operations, capacity, budget, hosts, child, frozen, effects>>
  BY DEF WorldChanges
<1>2. PICK w \in [approval : DOMAIN AttemptLimit, routed : BOOLEAN, late : BOOLEAN] : w = world
  BY DEF TasksInv, WorldInv
<1>3. WorldInv'
  <2>1. CASE w.approval + 1 \in DOMAIN AttemptLimit /\ world' = [w EXCEPT !.approval = w.approval + 1]
    BY <2>1 DEF WorldInv
  <2>2. CASE world' = [w EXCEPT !.routed = ~w.routed] \/ world' = [w EXCEPT !.late = TRUE]
    BY <2>2 DEF WorldInv
  <2> QED BY <1>2, <2>1, <2>2 DEF WorldChanges
<1>4. LedgerInv'
  BY <1>1 DEF TasksInv, LedgerInv, RowFits, StateFits, HoldFits, WasActivated, MayHold, IsHeld
<1>5. LedgerCarries /\ NoneBegins
  BY <1>1 DEF LedgerCarries, Carries, NoneBegins
<1> QED BY <1>1, <1>3, <1>4, <1>5, BudgetStays, ProcessStays DEF TasksInv

LEMMA TasksBegin == TasksInit => TasksInv
<1> SUFFICES ASSUME TasksInit PROVE TasksInv
  OBVIOUS
<1>1. DOMAIN operations = {}
  BY DEF TasksInit
<1>2. PICK c \in CapacityRow : HoldFits(c) /\ c.admitted = None /\ capacity = [o \in Ops |-> c]
  <2>1. PICK c : c = [hold |-> None, admitted |-> None, activated |-> None, cancelled |-> FALSE]
    OBVIOUS
  <2> QED BY <2>1, TasksAssumption DEF TasksInit, CapacityRow, HoldFits, WasActivated, Holdings
<1>3. LedgerInv
  BY <1>1, <1>2 DEF LedgerInv
<1>4. BudgetInv
  BY <1>1 DEF TasksInit, BudgetInv
<1>5. PICK e \in EffectsRow : e.starts = 0 /\ effects = [o \in WorkerOps |-> e]
  <2>1. PICK e : e = [starts |-> 0, sends |-> 0]
    OBVIOUS
  <2> QED BY <2>1 DEF TasksInit, EffectsRow
<1>6. ProcessInv
  BY <1>5 DEF TasksInit, ProcessInv, ProcessFits, Ops
<1>7. WorldInv
  BY TasksAssumption DEF TasksInit, WorldInv
<1> QED BY <1>3, <1>4, <1>6, <1>7 DEF TasksInv

LEMMA TasksGoOn == TasksInv /\ [TasksNext]_taskVars => TasksInv'
<1> SUFFICES ASSUME TasksInv, [TasksNext]_taskVars PROVE TasksInv'
  OBVIOUS
<1>0. WorkerOps \subseteq Ops /\ ReviewerOps \subseteq Ops
  BY DEF Ops
<1>1. CASE UNCHANGED taskVars
  BY <1>1, TasksIdle DEF taskVars
<1>2. CASE WorldChanges
  BY <1>2, WorldStep
<1>3. CASE \E o \in Ops : Enqueue(o) \/ AdvanceAdmission(o) \/ AdmissionLost(o) \/ ReadAdmission(o)
  BY <1>3, EnqueueStep, AdmissionSteps, RefreshSteps
<1>4. CASE \E o \in Ops : RequestCancel(o) \/ ReleaseCancelled(o) \/ ReleaseLost(o) \/ HoldExpires(o) \/ ReconcileHold(o)
  BY <1>4, CancelSteps, HoldSteps
<1>5. CASE \E o \in ReviewerOps : IntendActivation(o) \/ ActivateReviewer(o) \/ RecordActivation(o)
  BY <1>0, <1>5, RefreshSteps, HoldSteps
<1>6. CASE \E o \in WorkerOps : PrepareWorkspace(o) \/ ActivateExecution(o)
  BY <1>0, <1>6, RefreshSteps, HoldSteps
<1>7. CASE \E o \in WorkerOps : PrepareIntent(o) \/ ValidateCandidate(o)
  BY <1>7, ClaimSteps
<1>8. CASE \E o \in WorkerOps :
              \/ RecordExecutionActivation(o) \/ FreezeLaunch(o) \/ RecordHostPrepared(o) \/ MarkStartUnknown(o)
              \/ LinkCandidate(o) \/ ObserveFailure(o)
  BY <1>8, IntentSteps, ObserveStep
<1>9. CASE \E o \in WorkerOps : PrepareHost(o) \/ StartHost(o) \/ CancelHost(o) \/ ChildStops(o)
  BY <1>0, <1>9, HostSteps
<1>10. CASE \E o \in WorkerOps : RevokeOwnedGrant(o)
  BY <1>10, TasksIdle DEF RevokeOwnedGrant
<1>11. CASE \E o \in WorkerOps : CheckStartup(o) \/ CreateGrant(o) \/ StartNative(o) \/ SendCall(o) \/ FreezeCandidate(o)
  BY <1>11, ChildSteps
<1>12. CASE \E o \in WorkerOps : ClaimEffect(o) \/ RecordCapture(o) \/ ChildFails(o)
  BY <1>12, ChildSaves
<1> QED BY <1>1, <1>2, <1>3, <1>4, <1>5, <1>6, <1>7, <1>8, <1>9, <1>10, <1>11, <1>12 DEF TasksNext

LEMMA TasksAreSound == TasksInv => TasksAreOwned
<1> SUFFICES ASSUME TasksInv PROVE TasksAreOwned
  OBVIOUS
<1>1. ASSUME NEW o \in Ops, Holds(o)
      PROVE  o \in DOMAIN operations /\ operations[o].state \in PendingStates /\ MayHold(operations[o], capacity[o])
  <2>1. IsHeld(capacity[o]) /\ HoldFits(capacity[o])
    BY <1>1 DEF Holds, IsHeld, TasksInv, LedgerInv
  <2>2. capacity[o].admitted = "admitted"
    BY <2>1, TasksAssumption DEF IsHeld, HoldFits, Holdings
  <2>3. o \in DOMAIN operations
    BY <2>2, TasksAssumption DEF TasksInv, LedgerInv
  <2> QED BY <2>1, <2>3 DEF TasksInv, LedgerInv, RowFits, StateFits, MayHold
<1>2. \A o, p \in Ops : o # p /\ SameTask(o, p) => ~(Holds(o) /\ Holds(p))
  BY <1>1 DEF TasksInv, LedgerInv
<1>3. budget # None => ClaimCount <= budget.limit
  BY DEF TasksInv, BudgetInv
<1>4. ASSUME NEW o \in DOMAIN operations
      PROVE  /\ operations[o].state = "cancelled" => ~Holds(o)
             /\ operations[o].execution # None => <<Writer, o>> \in budget.claims
  <2>1. o \in Ops
    BY DEF TasksInv, LedgerInv
  <2>2. "cancelled" \notin PendingStates
    BY DEF PendingStates
  <2> QED BY <1>1, <2>1, <2>2 DEF TasksInv, BudgetInv
<1>5. \A o \in WorkerOps : effects[o].starts <= 1
  BY DEF TasksInv, ProcessInv, ProcessFits
<1>6. \A o \in frozen : operations[o].execution.captured
  BY DEF TasksInv, ProcessInv
<1> QED BY <1>2, <1>3, <1>4, <1>5, <1>6 DEF TasksAreOwned

(* Effects happen under the guards of the child, whose host vouches for the hold. *)
LEMMA EffectsAreGuarded ==
    ASSUME TasksInv, [TasksNext]_taskVars
    PROVE  EffectsAllowed
<1> SUFFICES ASSUME NEW o \in WorkerOps, effects'[o] # effects[o] \/ o \in frozen' \ frozen
             PROVE  /\ operations[o].execution.claim /\ ~operations[o].cancel
                    /\ StillRouted(o) /\ hosts[o] = "running"
                    /\ effects'[o] # effects[o] => capacity[o].hold = "active" /\ ~world.late
                    /\ o \in frozen' \ frozen => WasActivated(capacity[o])
  BY DEF EffectsAllowed, WasActivated
<1>1. \E p \in WorkerOps : StartNative(p) \/ SendCall(p) \/ FreezeCandidate(p)
  BY DEF TasksNext, taskVars, WorldChanges, Enqueue, AdvanceAdmission, AdmissionLost, ReadAdmission, RequestCancel,
         ReleaseCancelled, ReleaseLost, HoldExpires, ReconcileHold, IntendActivation, ActivateReviewer, RecordActivation,
         PrepareWorkspace, PrepareIntent, ActivateExecution, RecordExecutionActivation, FreezeLaunch, PrepareHost,
         RecordHostPrepared, MarkStartUnknown, StartHost, ObserveFailure, RevokeOwnedGrant, CancelHost, CheckStartup,
         ClaimEffect, CreateGrant, RecordCapture, LinkCandidate, ChildFails, ChildStops, ValidateCandidate
<1>2. PICK p \in WorkerOps : StartNative(p) \/ SendCall(p) \/ FreezeCandidate(p)
  BY <1>1
<1>3. p = o
  BY <1>2 DEF StartNative, SendCall, FreezeCandidate, TasksInv, ProcessInv
<1>4. CASE StartNative(o) \/ SendCall(o)
  BY <1>4 DEF StartNative, SendCall, EffectGuard, MayAct, Executes, ClaimStands
<1>5. CASE FreezeCandidate(o)
  <2>1. /\ operations[o].execution # None /\ operations[o].execution.captured /\ hosts[o] = "running" /\ o \in DOMAIN operations
        /\ ~operations[o].cancel /\ StillRouted(o) /\ UNCHANGED effects
    BY <1>5 DEF FreezeCandidate, CollectionGuard, Executes, Exists
  <2>2. operations[o].execution.claim
    BY <2>1, ExecutionTyped
  <2>3. WasActivated(capacity[o])
    BY <2>1, TasksAssumption DEF TasksInv, ProcessInv, Ops, HostStates
  <2> QED BY <2>1, <2>2, <2>3
<1> QED BY <1>2, <1>3, <1>4, <1>5

(***************************************************************************)
(* The effects of a task are its operation's own: for any operations,      *)
(* approvals and limits, whatever commit is lost or late, a task holds     *)
(* capacity once, a Run's processes stay within its budget, a native       *)
(* process starts once, and starts, sends and candidates happen under an   *)
(* approval, a route and a runner in force, starts and sends also within   *)
(* the Run's time and under a hold neither expired nor reconciled          *)
(* (ApprovedTaskAdmission, claim_process, GoExecutionIntents,              *)
(* consume_go_task, Capacity.pre_effect_guard and reconcile).              *)
(***************************************************************************)
THEOREM TaskEffectsStayOwned == TasksSpec => TaskEffectsAreOwned
<1>1. TasksSpec => []TasksInv
  BY TasksBegin, TasksGoOn, PTL DEF TasksSpec
<1>2. TasksInv /\ [TasksNext]_taskVars => EffectsAllowed
  BY EffectsAreGuarded
<1> QED BY <1>1, <1>2, TasksAreSound, PTL DEF TasksSpec, TaskEffectsAreOwned

-----------------------------------------------------------------------------
(***************************************************************************)
(* Reviews.  The ledger of reviews learns late of a cancellation, so a row *)
(* of it is tied to the host: whoever claimed has one, and a host vouches  *)
(* for an activation, which no cancelled operation has.                    *)
(***************************************************************************)
ReviewRow ==
    [key : ReviewKeys, input : Nat, phase : {"prepared", "host_prepared", "observer_claimed", "cancellation_pending"},
     host : BOOLEAN, claim : BOOLEAN, cancel : BOOLEAN]

ReviewFits(o, x) ==
    /\ x \in ReviewRow
    /\ x.claim => hosts[o] # None
    /\ x.cancel => x.phase = "cancellation_pending"

ReviewsInv ==
    /\ DOMAIN reviews \subseteq ReviewerOps
    /\ \A o \in DOMAIN reviews : ReviewFits(o, reviews[o])

HostsRemain == \A o \in ReviewerOps : hosts[o] # None => hosts'[o] # None

LEMMA ReviewerHostsStay ==
    ASSUME TasksInv, TasksNext
    PROVE  \A o \in ReviewerOps : hosts'[o] = hosts[o]
<1>1. CASE UNCHANGED hosts
  BY <1>1
<1>2. CASE \E p \in WorkerOps : PrepareHost(p) \/ StartHost(p) \/ CancelHost(p) \/ ChildFails(p) \/ ChildStops(p)
  <2>1. PICK p \in WorkerOps : \E h : hosts' = [hosts EXCEPT ![p] = h]
    BY <1>2 DEF PrepareHost, StartHost, CancelHost, ChildFails, ChildStops
  <2>2. \A o \in ReviewerOps : o \in Ops /\ o # p
    BY TasksAssumption DEF Ops
  <2> QED BY <2>1, <2>2 DEF TasksInv, ProcessInv
<1> QED BY <1>1, <1>2
        DEF TasksNext, WorldChanges, Enqueue, AdvanceAdmission, AdmissionLost, ReadAdmission, RequestCancel,
            ReleaseCancelled, ReleaseLost, HoldExpires, ReconcileHold, IntendActivation, ActivateReviewer, RecordActivation,
            PrepareWorkspace, PrepareIntent, ActivateExecution, RecordExecutionActivation, FreezeLaunch,
            RecordHostPrepared, MarkStartUnknown, ObserveFailure, RevokeOwnedGrant, CheckStartup,
            ClaimEffect, CreateGrant, StartNative, SendCall, FreezeCandidate, RecordCapture, LinkCandidate, ValidateCandidate

(* The rows stay while hosts do. *)
LEMMA ReviewsStay ==
    ASSUME ReviewsInv, HostsRemain, UNCHANGED reviews
    PROVE  ReviewsInv'
  BY DEF ReviewsInv, ReviewFits, HostsRemain

(* One row is written. *)
LEMMA ReviewSaved ==
    ASSUME ReviewsInv, UNCHANGED hosts, NEW o \in ReviewerOps, NEW y, ReviewFits(o, y),
           \/ reviews' = WithRow(reviews, o, y)
           \/ o \in DOMAIN reviews /\ reviews' = [reviews EXCEPT ![o] = y]
    PROVE  ReviewsInv'
<1>1. /\ DOMAIN reviews' = DOMAIN reviews \union {o} /\ reviews'[o] = y
      /\ \A p \in DOMAIN reviews : p # o => reviews'[p] = reviews[p]
  <2>1. CASE reviews' = WithRow(reviews, o, y)
    BY <2>1 DEF WithRow
  <2>2. CASE o \in DOMAIN reviews /\ reviews' = [reviews EXCEPT ![o] = y]
    BY <2>2
  <2> QED BY <2>1, <2>2
<1>2. ASSUME NEW p \in DOMAIN reviews' PROVE ReviewFits(p, reviews[p])'
  <2>1. CASE p = o
    BY <1>1, <2>1 DEF ReviewFits
  <2>2. CASE p # o
    BY <1>1, <2>2 DEF ReviewsInv, ReviewFits
  <2> QED BY <2>1, <2>2
<1> QED BY <1>1, <1>2 DEF ReviewsInv

LEMMA ReviewSteps ==
    ASSUME TasksInv, ReviewsInv, NEW o \in ReviewerOps,
           \/ \E k \in ReviewKeys : PrepareReview(o, k)
           \/ RecordReviewHost(o) \/ ClaimObserver(o) \/ MarkReviewCancelled(o)
    PROVE  TasksInv' /\ ReviewsInv'
<1>1. UNCHANGED taskVars
  BY DEF PrepareReview, RecordReviewHost, ClaimObserver, MarkReviewCancelled
<1>2. TasksInv' /\ UNCHANGED hosts
  BY <1>1, TasksIdle DEF taskVars
<1>3. CASE \E k \in ReviewKeys : PrepareReview(o, k)
  <2>1. PICK k \in ReviewKeys : PrepareReview(o, k)
    BY <1>3
  <2>2. PICK x \in OperationRow : x = operations[o] /\ RowFits(x, capacity[o]) /\ o \in Ops /\ capacity \in [Ops -> CapacityRow]
    BY <2>1 DEF PrepareReview, ReviewerGuard, Exists, TasksInv, LedgerInv, Ops
  <2>3. x.worker = Refreshed(o, x).worker
    BY <2>2, RefreshedFits
  <2>4. Reviewable(x.worker)
    BY <2>1, <2>2, <2>3 DEF PrepareReview, ReviewerGuard
  <2>5. operations[x.worker] \in OperationRow
    BY <2>4 DEF Reviewable, Exists, TasksInv, LedgerInv
  <2>6. PICK n \in Nat : n = ReviewInput(o)
    BY <2>2, <2>5 DEF ReviewInput, OperationRow
  <2>7. PICK y : y = [key |-> k, input |-> n, phase |-> "prepared", host |-> FALSE, claim |-> FALSE, cancel |-> FALSE]
    OBVIOUS
  <2>8. ReviewFits(o, y)
    BY <2>7 DEF ReviewFits, ReviewRow
  <2>9. reviews' = WithRow(reviews, o, y)
    BY <2>1, <2>6, <2>7 DEF PrepareReview
  <2> QED BY <1>2, <2>8, <2>9, ReviewSaved
<1>4. CASE RecordReviewHost(o) \/ ClaimObserver(o) \/ MarkReviewCancelled(o)
  <2>1. PICK x \in ReviewRow : x = reviews[o] /\ ReviewFits(o, x) /\ o \in DOMAIN reviews
    BY <1>4 DEF RecordReviewHost, ClaimObserver, MarkReviewCancelled, Prepared, ReviewsInv, ReviewFits
  <2>2. CASE RecordReviewHost(o)
    <3>1. PICK ph : ph = IF x.cancel THEN x.phase ELSE "host_prepared"
      OBVIOUS
    <3>2. PICK y : y = [x EXCEPT !.host = TRUE, !.phase = ph]
      OBVIOUS
    <3>3. y \in ReviewRow /\ y.claim = x.claim /\ y.cancel = x.cancel /\ y.phase = ph
      BY <3>1, <3>2 DEF ReviewRow
    <3>4. reviews' = [reviews EXCEPT ![o] = y]
      BY <2>1, <2>2, <3>1, <3>2 DEF RecordReviewHost
    <3>5. ReviewFits(o, y)
      BY <2>1, <3>1, <3>3 DEF ReviewFits
    <3> QED BY <1>2, <2>1, <3>4, <3>5, ReviewSaved
  <2>3. CASE ClaimObserver(o)
    <3>1. PICK y : y = [x EXCEPT !.claim = TRUE, !.phase = "observer_claimed"]
      OBVIOUS
    <3>2. y \in ReviewRow /\ y.cancel = x.cancel
      BY <3>1 DEF ReviewRow
    <3>3. reviews' = [reviews EXCEPT ![o] = y] /\ ~x.cancel /\ hosts[o] = "running"
      BY <2>1, <2>3, <3>1 DEF ClaimObserver
    <3>4. ReviewFits(o, y)
      BY <3>2, <3>3, TasksAssumption DEF ReviewFits, HostStates
    <3> QED BY <1>2, <2>1, <3>3, <3>4, ReviewSaved
  <2>4. CASE MarkReviewCancelled(o)
    <3>1. PICK y : y = [x EXCEPT !.cancel = TRUE, !.phase = "cancellation_pending"]
      OBVIOUS
    <3>2. y \in ReviewRow /\ y.claim = x.claim /\ y.phase = "cancellation_pending"
      BY <3>1 DEF ReviewRow
    <3>3. reviews' = [reviews EXCEPT ![o] = y]
      BY <2>1, <2>4, <3>1 DEF MarkReviewCancelled
    <3>4. ReviewFits(o, y)
      BY <2>1, <3>2 DEF ReviewFits
    <3> QED BY <1>2, <2>1, <3>3, <3>4, ReviewSaved
  <2> QED BY <1>4, <2>2, <2>3, <2>4
<1> QED BY <1>3, <1>4

LEMMA ReviewHostSteps ==
    ASSUME TasksInv, ReviewsInv, NEW o \in ReviewerOps, PrepareReviewHost(o) \/ StartReviewHost(o)
    PROVE  TasksInv' /\ ReviewsInv'
<1>1. o \in Ops
  BY DEF Ops
<1>2. TasksInv'
  BY <1>1, HostSteps
<1>3. PICK h \in HostStates : hosts' = [hosts EXCEPT ![o] = h] /\ UNCHANGED reviews
  BY DEF PrepareReviewHost, StartReviewHost, HostStates
<1>4. HostsRemain
  BY <1>1, <1>3, TasksAssumption DEF HostsRemain, TasksInv, ProcessInv, Ops
<1> QED BY <1>2, <1>3, <1>4, ReviewsStay

LEMMA ReviewsGoOn == TasksInv /\ ReviewsInv /\ [ReviewsNext]_reviewVars => TasksInv' /\ ReviewsInv'
<1> SUFFICES ASSUME TasksInv, ReviewsInv, [ReviewsNext]_reviewVars PROVE TasksInv' /\ ReviewsInv'
  OBVIOUS
<1>1. CASE UNCHANGED reviewVars
  <2>1. UNCHANGED taskVars /\ UNCHANGED reviews
    BY <1>1 DEF reviewVars
  <2>2. HostsRemain
    BY <2>1 DEF taskVars, HostsRemain
  <2> QED BY <2>1, <2>2, TasksIdle, ReviewsStay DEF taskVars
<1>2. CASE TasksNext /\ UNCHANGED reviews
  <2>1. HostsRemain
    BY <1>2, ReviewerHostsStay DEF HostsRemain
  <2> QED BY <1>2, <2>1, TasksGoOn, ReviewsStay
<1>3. CASE \E o \in ReviewerOps :
              (\E k \in ReviewKeys : PrepareReview(o, k)) \/ RecordReviewHost(o) \/ ClaimObserver(o) \/ MarkReviewCancelled(o)
  BY <1>3, ReviewSteps
<1>4. CASE \E o \in ReviewerOps : PrepareReviewHost(o) \/ StartReviewHost(o)
  BY <1>4, ReviewHostSteps
<1> QED BY <1>1, <1>2, <1>3, <1>4 DEF ReviewsNext

(* What both say of a state. *)
ReviewsSafe ==
    \A o \in DOMAIN reviews :
        /\ operations[o].state = "cancelled" => hosts[o] = None /\ ~reviews[o].claim
        /\ reviews[o].cancel => reviews[o].phase = "cancellation_pending"

LEMMA ReviewsAreSound == TasksInv /\ ReviewsInv => ReviewsSafe
<1> SUFFICES ASSUME TasksInv, ReviewsInv, NEW o \in DOMAIN reviews
             PROVE  /\ operations[o].state = "cancelled" => hosts[o] = None /\ ~reviews[o].claim
                    /\ reviews[o].cancel => reviews[o].phase = "cancellation_pending"
  BY DEF ReviewsSafe
<1>1. o \in Ops /\ ReviewFits(o, reviews[o])
  BY DEF ReviewsInv, Ops
<1>2. ASSUME hosts[o] # None PROVE operations[o].state # "cancelled"
  <2>1. WasActivated(capacity[o]) /\ HoldFits(capacity[o])
    BY <1>1, <1>2 DEF TasksInv, ProcessInv, LedgerInv
  <2>2. o \in DOMAIN operations
    BY <1>1, <2>1, TasksAssumption DEF HoldFits, TasksInv, LedgerInv, Holdings
  <2> QED BY <2>1, <2>2 DEF TasksInv, LedgerInv, RowFits, StateFits
<1> QED BY <1>1, <1>2 DEF ReviewFits

(* What a step may do. *)
ReviewsAllowed ==
    \A o \in DOMAIN reviews :
        (hosts'[o] = "prepared" /\ hosts[o] = None) \/ reviews'[o].claim # reviews[o].claim =>
            /\ ~operations[o].cancel /\ ~operations[operations[o].worker].cancel
            /\ capacity[o].hold = "active" /\ reviews[o].input = ReviewInput(o)

LEMMA ReviewsAreGuarded ==
    ASSUME TasksInv, ReviewsInv, [ReviewsNext]_reviewVars
    PROVE  ReviewsAllowed
<1> SUFFICES ASSUME NEW o \in DOMAIN reviews,
                    (hosts'[o] = "prepared" /\ hosts[o] = None) \/ reviews'[o].claim # reviews[o].claim
             PROVE  /\ ~operations[o].cancel /\ ~operations[operations[o].worker].cancel
                    /\ capacity[o].hold = "active" /\ reviews[o].input = ReviewInput(o)
  BY DEF ReviewsAllowed
<1>1. o \in ReviewerOps /\ o \in Ops /\ reviews[o] \in ReviewRow /\ None # "prepared"
  BY TasksAssumption DEF ReviewsInv, ReviewFits, Ops, HostStates
<1>2. ASSUME CurrentGuard(o)
      PROVE  /\ ~operations[o].cancel /\ ~operations[operations[o].worker].cancel
             /\ capacity[o].hold = "active" /\ reviews[o].input = ReviewInput(o)
  <2>1. PICK x \in OperationRow : x = operations[o] /\ RowFits(x, capacity[o]) /\ capacity \in [Ops -> CapacityRow]
    BY <1>2 DEF CurrentGuard, ReviewerGuard, Exists, TasksInv, LedgerInv
  <2>2. x.worker = Refreshed(o, x).worker /\ x.cancel = Refreshed(o, x).cancel
    BY <1>1, <2>1, RefreshedFits
  <2> QED BY <1>2, <2>1, <2>2 DEF CurrentGuard, ReviewerGuard, Reviewable
<1>3. ~UNCHANGED <<hosts, reviews>>
  BY <1>1
<1>4. CASE TasksNext /\ UNCHANGED reviews
  BY <1>1, <1>4, ReviewerHostsStay
<1>5. CASE \E p \in ReviewerOps : PrepareReviewHost(p) \/ StartReviewHost(p)
  <2>1. PICK p \in ReviewerOps : PrepareReviewHost(p) \/ StartReviewHost(p)
    BY <1>5
  <2>2. UNCHANGED reviews /\ hosts \in [Ops -> HostStates \union {None}]
    BY <2>1 DEF PrepareReviewHost, StartReviewHost, TasksInv, ProcessInv
  <2>3. p = o
    BY <1>1, <2>1, <2>2 DEF PrepareReviewHost, StartReviewHost
  <2>4. PrepareReviewHost(o)
    BY <1>1, <2>1, <2>2, <2>3 DEF StartReviewHost
  <2> QED BY <1>2, <2>4 DEF PrepareReviewHost
<1>6. CASE \E p \in ReviewerOps :
              (\E k \in ReviewKeys : PrepareReview(p, k)) \/ RecordReviewHost(p) \/ ClaimObserver(p) \/ MarkReviewCancelled(p)
  <2>1. PICK p \in ReviewerOps :
              (\E k \in ReviewKeys : PrepareReview(p, k)) \/ RecordReviewHost(p) \/ ClaimObserver(p) \/ MarkReviewCancelled(p)
    BY <1>6
  <2>2. UNCHANGED hosts /\ reviews'[o].claim # reviews[o].claim
    BY <1>1, <2>1 DEF PrepareReview, RecordReviewHost, ClaimObserver, MarkReviewCancelled, taskVars
  <2>3. ~\E k \in ReviewKeys : PrepareReview(p, k)
    BY <2>2 DEF PrepareReview, Prepared, WithRow
  <2>4. p = o
    BY <2>1, <2>2, <2>3 DEF RecordReviewHost, ClaimObserver, MarkReviewCancelled
  <2>5. ~RecordReviewHost(o) /\ ~MarkReviewCancelled(o)
    BY <1>1, <2>2 DEF RecordReviewHost, MarkReviewCancelled, ReviewRow
  <2> QED BY <1>2, <2>1, <2>3, <2>4, <2>5 DEF ClaimObserver
<1> QED BY <1>3, <1>4, <1>5, <1>6 DEF ReviewsNext, reviewVars, taskVars

(***************************************************************************)
(* Reviews are current, and the executions they sit on stay owned: for any *)
(* operations and keys, a host is prepared and an observer claims only     *)
(* while neither the review nor its work is cancelled, under a hold in     *)
(* force and on the prepared input, and a review cancelled for good never  *)
(* had a host, however its hold ended                                      *)
(* (reviewer_reserved_effect_guard, freeze_launch,                         *)
(* claim_registered_observer, ApprovedTaskAdmission.cancel).               *)
(***************************************************************************)
THEOREM ReviewsStayCurrent == ReviewsSpec => ReviewsAreCurrent /\ TaskEffectsAreOwned
<1>1. ReviewsInit => TasksInv /\ ReviewsInv
  BY TasksBegin DEF ReviewsInit, ReviewsInv
<1>2. ReviewsSpec => [](TasksInv /\ ReviewsInv)
  BY <1>1, ReviewsGoOn, PTL DEF ReviewsSpec
<1>3. TasksInv /\ ReviewsInv /\ [ReviewsNext]_reviewVars => ReviewsAllowed
  BY ReviewsAreGuarded
<1>4. TasksInv /\ ReviewsInv /\ [ReviewsNext]_reviewVars => [EffectsAllowed]_taskVars
  <2> SUFFICES ASSUME TasksInv, ReviewsInv, [ReviewsNext]_reviewVars PROVE [EffectsAllowed]_taskVars
    OBVIOUS
  <2>1. CASE UNCHANGED reviewVars
    BY <2>1 DEF reviewVars
  <2>2. CASE TasksNext
    BY <2>2, EffectsAreGuarded
  <2>3. CASE \E o \in ReviewerOps :
                \/ \E k \in ReviewKeys : PrepareReview(o, k)
                \/ PrepareReviewHost(o) \/ RecordReviewHost(o) \/ StartReviewHost(o)
                \/ ClaimObserver(o) \/ MarkReviewCancelled(o)
    <3>1. UNCHANGED <<effects, frozen>>
      BY <2>3 DEF PrepareReview, PrepareReviewHost, RecordReviewHost, StartReviewHost, ClaimObserver, MarkReviewCancelled, taskVars
    <3>2. EffectsAllowed
      BY <3>1 DEF EffectsAllowed
    <3> QED BY <3>2
  <2> QED BY <2>1, <2>2, <2>3 DEF ReviewsNext
<1>5. ReviewsSpec => TaskEffectsAreOwned
  BY <1>2, <1>4, TasksAreSound, PTL DEF ReviewsSpec, TaskEffectsAreOwned
<1>6. ReviewsSpec => []ReviewsSafe /\ [][ReviewsAllowed]_reviewVars
  BY <1>2, <1>3, ReviewsAreSound, PTL DEF ReviewsSpec
<1>7. []ReviewsSafe /\ [][ReviewsAllowed]_reviewVars => ReviewsAreCurrent
  BY PTL DEF ReviewsSafe, ReviewsAllowed, ReviewsAreCurrent
<1> QED BY <1>5, <1>6, <1>7, PTL

==============================================================================
