----------------------- MODULE SchedulingGrantsProofs -----------------------
(***************************************************************************)
(* The authority chain, for any set of grants, bodies and clock bound.     *)
(*                                                                         *)
(* delegate_grant looks only at the immediate parent, the root's bound and *)
(* the parent's own liveness.  The theorems say that this is enough: the   *)
(* inductive invariant carries each fact the code checks one level up to   *)
(* every ancestor.                                                         *)
(***************************************************************************)
EXTENDS SchedulingGrants, TLAPS

(* The recorded chains are the ancestries of a forest, ordered by depth. *)
Chained ==
    \A g \in DOMAIN grants :
        /\ grants[g].chain \subseteq DOMAIN grants
        /\ grants[g].root \in DOMAIN grants
        /\ grants[g].depth = 0 => grants[g].root = g
        /\ \A a \in grants[g].chain :
              /\ grants[a].chain \subseteq grants[g].chain
              /\ grants[a].root = grants[g].root
              /\ grants[a].depth < grants[g].depth

(* The closure revoke_grant writes leaves no live row under a revoked one. *)
RevokedBelow ==
    \A g \in DOMAIN grants : \A a \in grants[g].chain :
        grants[a].revoked => grants[g].revoked

(***************************************************************************)
(* What is left of an ancestor's bound: below the top level, a grant that  *)
(* may delegate has a bound that, added to its distance, still fits.       *)
(***************************************************************************)
DepthBudget ==
    \A g \in DOMAIN grants : \A a \in grants[g].chain :
        MayDelegate(grants[g].body) /\ grants[a].depth > 0 =>
            grants[g].body.maximum + (grants[g].depth - grants[a].depth)
                <= grants[a].body.maximum

IInv ==
    /\ TypeOK
    /\ Chained
    /\ RevokedBelow
    /\ AuthorityNarrows
    /\ DepthBudget
    /\ DelegationBounded

(* The rows after a grant is stored under a free identity. *)
LEMMA StoredGrant ==
    ASSUME NEW g \in GrantIds, g \notin DOMAIN grants, NEW new \in Grant, TypeOK,
           grants' = Put(grants, g, new), UNCHANGED <<creds, now>>
    PROVE  /\ DOMAIN grants' = DOMAIN grants \union {g}
           /\ grants'[g] = new
           /\ \A h \in DOMAIN grants : grants'[h] = grants[h]
           /\ TypeOK'
  BY DEF Put, TypeOK

(* A revocation changes nothing of a grant but its revoked mark. *)
LEMMA RevokedGrant ==
    ASSUME NEW g \in GrantIds, TypeOK, RevokeGrant(g)
    PROVE  /\ DOMAIN grants' = DOMAIN grants
           /\ \A h \in DOMAIN grants :
                 /\ grants'[h].body = grants[h].body
                 /\ grants'[h].chain = grants[h].chain
                 /\ grants'[h].root = grants[h].root
                 /\ grants'[h].depth = grants[h].depth
                 /\ grants'[h].revoked <=> (grants[h].revoked \/ h \in Affected(g))
           /\ TypeOK'
<1>1. /\ DOMAIN grants' = DOMAIN grants
      /\ \A h \in DOMAIN grants :
            grants'[h] = [grants[h] EXCEPT !.revoked = @ \/ h \in Affected(g)]
  BY DEF RevokeGrant
<1>2. \A h \in DOMAIN grants : grants[h] \in Grant
  BY DEF TypeOK
<1>3. ASSUME NEW h \in DOMAIN grants
      PROVE  /\ grants'[h].body = grants[h].body
             /\ grants'[h].chain = grants[h].chain
             /\ grants'[h].root = grants[h].root
             /\ grants'[h].depth = grants[h].depth
             /\ grants'[h].revoked <=> (grants[h].revoked \/ h \in Affected(g))
             /\ grants'[h] \in Grant
  <2>1. CASE h \in Affected(g)
    <3>1. grants'[h] = [grants[h] EXCEPT !.revoked = TRUE]
      BY <1>1, <2>1
    <3> QED BY <1>2, <2>1, <3>1 DEF Grant
  <2>2. CASE h \notin Affected(g)
    <3>1. grants'[h] = grants[h]
      BY <1>1, <1>2, <2>2 DEF Grant
    <3> QED BY <1>2, <2>2, <3>1
  <2> QED BY <2>1, <2>2
<1>4. grants' \in [DOMAIN grants' -> Grant]
  BY <1>1, <1>3 DEF RevokeGrant
<1>5. DOMAIN creds' \subseteq CredKeys /\ creds' \in [DOMAIN creds' -> Credential]
  BY DEF RevokeGrant, TypeOK, Credential
<1> QED BY <1>1, <1>3, <1>4, <1>5 DEF RevokeGrant, TypeOK

(* The invariant holds of the empty tables a Run starts with. *)
LEMMA InitInvariant == Init => IInv
  BY GrantsAssumption
  DEF Init, IInv, TypeOK, Times, Chained, RevokedBelow, AuthorityNarrows, DepthBudget,
      DelegationBounded

(* A top-level grant has no ancestors. *)
LEMMA IssueInvariant ==
    ASSUME NEW g \in GrantIds, NEW b \in Bodies, IInv, IssueGrant(g, b)
    PROVE  IInv'
<1> DEFINE new == [body |-> b, chain |-> {}, parent |-> NoGrant, root |-> g,
                   depth |-> 0, revoked |-> FALSE]
<1>1. new \in Grant
  BY GrantsAssumption DEF Grant
<1>2. /\ DOMAIN grants' = DOMAIN grants \union {g}
      /\ grants'[g] = new
      /\ \A h \in DOMAIN grants : grants'[h] = grants[h]
      /\ TypeOK'
  BY <1>1, StoredGrant DEF IssueGrant, IInv
<1> HIDE DEF new
<1>3. new.chain = {} /\ new.root = g /\ new.depth = 0 /\ new.body = b
  BY DEF new
<1>4. \A h \in DOMAIN grants : grants[h].chain \subseteq DOMAIN grants
  BY DEF IInv, Chained
<1>5. Chained'
  BY <1>2, <1>3, <1>4 DEF IInv, Chained
<1>6. RevokedBelow'
  BY <1>2, <1>3, <1>4 DEF IInv, RevokedBelow
<1>7. AuthorityNarrows'
  BY <1>2, <1>3, <1>4 DEF IInv, AuthorityNarrows
<1>8. DepthBudget' /\ DelegationBounded'
  BY <1>2, <1>3, <1>4 DEF IInv, DepthBudget, DelegationBounded
<1> QED BY <1>2, <1>5, <1>6, <1>7, <1>8 DEF IInv

(* Bounds compose: what is not wider than a bound is not wider than a wider one. *)
LEMMA NotWiderTransitive ==
    ASSUME NEW x \in Nat \union {None}, NEW y \in Nat \union {None},
           NEW z \in Nat \union {None}, NotWider(x, y), NotWider(y, z)
    PROVE  NotWider(x, z)
  BY GrantsAssumption DEF NotWider

(* A delegated grant: each fact about its parent is carried to every ancestor. *)
LEMMA DelegateInvariant ==
    ASSUME NEW p \in GrantIds, NEW g \in GrantIds, NEW b \in Bodies, IInv,
           DelegateGrant(p, g, b)
    PROVE  IInv'
<1> DEFINE par == grants[p]
           new == [body |-> b, chain |-> par.chain \union {p}, parent |-> p,
                   root |-> par.root, depth |-> par.depth + 1, revoked |-> FALSE]
<1>1. /\ p \in DOMAIN grants /\ g \notin DOMAIN grants /\ p # g
      /\ \A h \in DOMAIN grants : grants[h] \in Grant
      /\ b \in GrantBody
  BY GrantsAssumption DEF DelegateGrant, IInv, TypeOK
<1>2. new \in Grant
  BY <1>1 DEF Grant
<1>3. /\ DOMAIN grants' = DOMAIN grants \union {g}
      /\ grants'[g] = new
      /\ \A h \in DOMAIN grants : grants'[h] = grants[h]
      /\ TypeOK'
  BY <1>1, <1>2, StoredGrant DEF DelegateGrant, IInv
<1>4. /\ new.chain = par.chain \union {p} /\ new.root = par.root
      /\ new.depth = par.depth + 1 /\ new.body = b /\ new.revoked = FALSE
  BY DEF new
<1>5. \A h \in DOMAIN grants :
        /\ grants[h].depth \in Nat /\ grants[h].revoked \in BOOLEAN
        /\ grants[h].body.maximum \in Nat
        /\ grants[h].body.cap \in Nat \union {None}
        /\ grants[h].body.expires \in Nat \union {None}
  BY <1>1 DEF Grant, GrantBody
<1>6. b.maximum \in Nat /\ b.cap \in Nat \union {None} /\ b.expires \in Nat \union {None}
  BY <1>1 DEF GrantBody
<1>7. \A h \in DOMAIN grants : grants[h].chain \subseteq DOMAIN grants
  BY DEF IInv, Chained
<1> HIDE DEF new
<1>8. Chained'
  <2>1. ASSUME NEW a \in par.chain \union {p}
        PROVE  /\ a \in DOMAIN grants
               /\ grants[a].chain \subseteq par.chain \union {p}
               /\ grants[a].root = par.root
               /\ grants[a].depth < par.depth + 1
    BY <1>1, <1>5, <1>7 DEF IInv, Chained
  <2>2. par.root \in DOMAIN grants /\ par.depth + 1 # 0
    BY <1>1, <1>5 DEF IInv, Chained
  <2>3. /\ new.chain \subseteq DOMAIN grants' /\ new.root \in DOMAIN grants' /\ new.depth # 0
        /\ \A a \in new.chain : /\ grants'[a].chain \subseteq new.chain
                                /\ grants'[a].root = new.root
                                /\ grants'[a].depth < new.depth
    BY <1>3, <1>4, <2>1, <2>2
  <2>4. ASSUME NEW h \in DOMAIN grants
        PROVE  /\ grants'[h].chain \subseteq DOMAIN grants' /\ grants'[h].root \in DOMAIN grants'
               /\ grants'[h].depth = 0 => grants'[h].root = h
               /\ \A a \in grants'[h].chain :
                     /\ grants'[a].chain \subseteq grants'[h].chain
                     /\ grants'[a].root = grants'[h].root
                     /\ grants'[a].depth < grants'[h].depth
    BY <1>3, <1>7 DEF IInv, Chained
  <2> QED BY <1>3, <2>3, <2>4 DEF Chained
<1>9. RevokedBelow'
  <2>1. \A a \in par.chain \union {p} : ~grants[a].revoked
    BY <1>1 DEF IInv, RevokedBelow, DelegateGrant, GrantLive
  <2>2. \A a \in new.chain : ~grants'[a].revoked
    BY <1>1, <1>3, <1>4, <1>7, <2>1
  <2> QED BY <1>3, <1>7, <2>2 DEF IInv, RevokedBelow
<1>10. AuthorityNarrows'
  <2>1. /\ b.acts \subseteq par.body.acts /\ b.acts \subseteq par.body.dacts
        /\ NotWider(b.cap, par.body.cap) /\ NotWider(b.expires, par.body.expires)
    BY DEF DelegateGrant, RequireSubset
  <2>2. ASSUME NEW a \in par.chain
        PROVE  /\ par.body.acts \subseteq grants[a].body.acts
               /\ par.body.acts \subseteq grants[a].body.dacts
               /\ NotWider(par.body.cap, grants[a].body.cap)
               /\ NotWider(par.body.expires, grants[a].body.expires)
    BY <1>1 DEF IInv, AuthorityNarrows
  <2>3. ASSUME NEW a \in par.chain \union {p}
        PROVE  /\ b.acts \subseteq grants[a].body.acts /\ b.acts \subseteq grants[a].body.dacts
               /\ NotWider(b.cap, grants[a].body.cap)
               /\ NotWider(b.expires, grants[a].body.expires)
    <3>1. CASE a = p
      BY <2>1, <3>1
    <3>2. CASE a # p
      <4>1. a \in par.chain /\ a \in DOMAIN grants
        BY <1>1, <1>7, <3>2
      <4>2. NotWider(b.cap, grants[a].body.cap)
        BY <1>1, <1>5, <1>6, <2>1, <2>2, <4>1, NotWiderTransitive
      <4>3. NotWider(b.expires, grants[a].body.expires)
        BY <1>1, <1>5, <1>6, <2>1, <2>2, <4>1, NotWiderTransitive
      <4> QED BY <2>1, <2>2, <4>1, <4>2, <4>3
    <3> QED BY <3>1, <3>2
  <2>4. ASSUME NEW a \in new.chain
        PROVE  /\ new.body.acts \subseteq grants'[a].body.acts
               /\ new.body.acts \subseteq grants'[a].body.dacts
               /\ NotWider(new.body.cap, grants'[a].body.cap)
               /\ NotWider(new.body.expires, grants'[a].body.expires)
    <3>1. a \in par.chain \union {p} /\ grants'[a] = grants[a]
      BY <1>1, <1>3, <1>4, <1>7
    <3> QED BY <1>4, <2>3, <3>1
  <2>5. ASSUME NEW h \in DOMAIN grants, NEW a \in grants'[h].chain
        PROVE  /\ grants'[h].body.acts \subseteq grants'[a].body.acts
               /\ grants'[h].body.acts \subseteq grants'[a].body.dacts
               /\ NotWider(grants'[h].body.cap, grants'[a].body.cap)
               /\ NotWider(grants'[h].body.expires, grants'[a].body.expires)
    <3>1. /\ a \in grants[h].chain /\ a \in DOMAIN grants
          /\ grants'[a] = grants[a] /\ grants'[h] = grants[h]
      BY <1>3, <1>7
    <3> QED BY <3>1 DEF IInv, AuthorityNarrows
  <2> QED BY <1>3, <2>4, <2>5 DEF AuthorityNarrows
<1>11. par.body.maximum >= 1 /\ par.depth + 1 <= grants[par.root].body.maximum
  <2>1. par.root \in DOMAIN grants
    BY <1>1 DEF IInv, Chained
  <2> QED BY <1>1, <1>5, <2>1 DEF DelegateGrant, RequireDelegationDepth, MayDelegate
<1>12. DelegationBounded'
  <2>1. ASSUME NEW a \in par.chain \union {p}
        PROVE  par.depth + 1 - grants[a].depth <= grants[a].body.maximum
    <3>1. CASE a = p
      BY <1>1, <1>5, <1>11, <3>1
    <3>2. CASE a \in par.chain /\ grants[a].depth > 0
      <4>1. par.body.maximum + (par.depth - grants[a].depth) <= grants[a].body.maximum
        BY <1>1, <1>5, <1>11, <3>2 DEF IInv, DepthBudget, MayDelegate
      <4> QED BY <1>1, <1>5, <1>7, <1>11, <3>2, <4>1
    <3>3. CASE a \in par.chain /\ grants[a].depth = 0
      <4>1. a = par.root
        BY <1>1, <1>7, <3>3 DEF IInv, Chained
      <4> QED BY <1>1, <1>5, <1>7, <1>11, <3>3, <4>1
    <3> QED BY <1>1, <1>5, <1>7, <3>1, <3>2, <3>3
  <2>2. \A a \in new.chain : new.depth - grants'[a].depth <= grants'[a].body.maximum
    <3> SUFFICES ASSUME NEW a \in new.chain
                 PROVE  new.depth - grants'[a].depth <= grants'[a].body.maximum
      OBVIOUS
    <3>1. a \in par.chain \union {p} /\ grants'[a] = grants[a]
      BY <1>1, <1>3, <1>4, <1>7
    <3> QED BY <1>1, <1>4, <1>5, <1>7, <2>1, <3>1
  <2> QED BY <1>3, <1>7, <2>2 DEF IInv, DelegationBounded
<1>13. DepthBudget'
  <2>1. ASSUME NEW a \in par.chain \union {p}, b.maximum > 0, grants[a].depth > 0
        PROVE  b.maximum + (par.depth + 1 - grants[a].depth) <= grants[a].body.maximum
    <3>1. b.maximum <= par.body.maximum - par.depth
      BY <1>1, <1>5, <1>6, <2>1 DEF DelegateGrant, RequireSubset, MayDelegate, Least
    <3>2. CASE a = p
      BY <1>1, <1>5, <1>6, <2>1, <3>1, <3>2
    <3>3. CASE a # p
      <4>1. a \in par.chain /\ a \in DOMAIN grants
        BY <1>1, <1>7, <3>3
      <4>2. par.body.maximum + (par.depth - grants[a].depth) <= grants[a].body.maximum
        BY <1>1, <1>11, <2>1, <4>1, <1>5 DEF IInv, DepthBudget, MayDelegate
      <4>3. par.depth >= 1
        BY <1>1, <1>5, <2>1, <4>1 DEF IInv, Chained
      <4> QED BY <1>1, <1>5, <1>6, <3>1, <4>1, <4>2, <4>3
    <3> QED BY <3>2, <3>3
  <2>2. \A a \in new.chain : MayDelegate(new.body) /\ grants'[a].depth > 0 =>
           new.body.maximum + (new.depth - grants'[a].depth) <= grants'[a].body.maximum
    <3> SUFFICES ASSUME NEW a \in new.chain, MayDelegate(new.body), grants'[a].depth > 0
                 PROVE  new.body.maximum + (new.depth - grants'[a].depth)
                            <= grants'[a].body.maximum
      OBVIOUS
    <3>1. a \in par.chain \union {p} /\ grants'[a] = grants[a]
      BY <1>1, <1>3, <1>4, <1>7
    <3> QED BY <1>1, <1>4, <1>5, <1>6, <1>7, <2>1, <3>1 DEF MayDelegate
  <2> QED BY <1>3, <1>7, <2>2 DEF IInv, DepthBudget
<1> QED BY <1>3, <1>8, <1>9, <1>10, <1>12, <1>13 DEF IInv

(* A revocation reaches every descendant: Affected is closed below. *)
LEMMA RevokeInvariant ==
    ASSUME NEW g \in GrantIds, IInv, RevokeGrant(g)
    PROVE  IInv'
<1>1. /\ DOMAIN grants' = DOMAIN grants
      /\ \A h \in DOMAIN grants :
            /\ grants'[h].body = grants[h].body
            /\ grants'[h].chain = grants[h].chain
            /\ grants'[h].root = grants[h].root
            /\ grants'[h].depth = grants[h].depth
            /\ grants'[h].revoked <=> (grants[h].revoked \/ h \in Affected(g))
      /\ TypeOK'
  BY RevokedGrant DEF IInv
<1>2. \A h \in DOMAIN grants : grants[h].chain \subseteq DOMAIN grants
  BY DEF IInv, Chained
<1>3. Chained'
  BY <1>1, <1>2 DEF IInv, Chained
<1>4. RevokedBelow'
  <2>1. ASSUME NEW h \in DOMAIN grants, NEW a \in grants[h].chain, a \in Affected(g)
        PROVE  h \in Affected(g)
    BY <2>1 DEF IInv, Chained, Affected
  <2> QED BY <1>1, <1>2, <2>1 DEF IInv, RevokedBelow
<1>5. AuthorityNarrows'
  BY <1>1, <1>2 DEF IInv, AuthorityNarrows
<1>6. DepthBudget' /\ DelegationBounded'
  BY <1>1, <1>2 DEF IInv, DepthBudget, DelegationBounded
<1> QED BY <1>1, <1>3, <1>4, <1>5, <1>6 DEF IInv

(* Everything that leaves the grants alone preserves the invariant. *)
LEMMA OtherInvariant ==
    ASSUME IInv, UNCHANGED grants, TypeOK'
    PROVE  IInv'
  BY DEF IInv, Chained, RevokedBelow, AuthorityNarrows, DepthBudget, DelegationBounded

(* The inductive invariant holds of every reachable state. *)
THEOREM Invariance == Spec => []IInv
<1>1. IInv /\ [Next]_vars => IInv'
  <2> SUFFICES ASSUME IInv, [Next]_vars PROVE IInv'
    OBVIOUS
  <2>1. ASSUME NEW k \in CredKeys, NEW g \in GrantIds \union {NoGrant},
               NEW e \in Times \union {None}, IssueCredential(k, g, e)
        PROVE  IInv'
    <3>1. [grant |-> g, expires |-> e, revoked |-> FALSE] \in Credential
      BY GrantsAssumption DEF Credential, Times
    <3>2. TypeOK'
      BY <2>1, <3>1 DEF IssueCredential, Put, TypeOK, IInv
    <3> QED BY <2>1, <3>2, OtherInvariant DEF IssueCredential
  <2>2. CASE Tick
    <3>1. TypeOK'
      BY <2>2, GrantsAssumption DEF Tick, TypeOK, IInv, Times
    <3> QED BY <2>2, <3>1, OtherInvariant DEF Tick
  <2>3. CASE UNCHANGED vars
    <3>1. TypeOK'
      BY <2>3 DEF vars, TypeOK, IInv
    <3> QED BY <2>3, <3>1, OtherInvariant DEF vars
  <2> QED BY <2>1, <2>2, <2>3, IssueInvariant, DelegateInvariant, RevokeInvariant DEF Next
<1> QED BY InitInvariant, <1>1, PTL DEF Spec

(* The tables stay well-formed under every operation of the store. *)
THEOREM TypeCorrect == Spec => []TypeOK
<1>1. IInv => TypeOK
  BY DEF IInv
<1> QED BY <1>1, Invariance, PTL

(***************************************************************************)
(* delegate_grant checks only the parent's liveness, and yet a live grant  *)
(* never has a revoked or expired ancestor.                                *)
(***************************************************************************)
THEOREM LiveChains == Spec => []LiveGrantHasLiveChain
<1>1. IInv => LiveGrantHasLiveChain
  <2> SUFFICES ASSUME IInv, NEW g \in DOMAIN grants, GrantLive(g),
                      NEW a \in grants[g].chain
               PROVE  GrantLive(a)
    BY DEF LiveGrantHasLiveChain, ChainLive
  <2>1. a \in DOMAIN grants
    BY DEF IInv, Chained
  <2>2. /\ grants[g].body.expires \in Nat \union {None}
        /\ grants[a].body.expires \in Nat \union {None}
        /\ now \in Nat
    BY <2>1, GrantsAssumption DEF IInv, TypeOK, Grant, GrantBody, Times
  <2>3. ~grants[a].revoked
    BY DEF IInv, RevokedBelow, GrantLive
  <2>4. NotWider(grants[g].body.expires, grants[a].body.expires)
    BY DEF IInv, AuthorityNarrows
  <2>5. ~Expired(grants[a].body.expires)
    BY <2>2, <2>4, GrantsAssumption DEF NotWider, Expired, GrantLive
  <2> QED BY <2>3, <2>5 DEF GrantLive
<1> QED BY <1>1, Invariance, PTL

(***************************************************************************)
(* Calling require_delegation_depth without the ancestors and              *)
(* require_subset without the root still enforces every ancestor's bound.  *)
(***************************************************************************)
THEOREM DepthsBounded == Spec => []DelegationBounded
<1>1. IInv => DelegationBounded
  BY DEF IInv
<1> QED BY <1>1, Invariance, PTL

(* Containment checked against the parent alone holds against every ancestor. *)
THEOREM NarrowingHolds == Spec => []AuthorityNarrows
<1>1. IInv => AuthorityNarrows
  BY DEF IInv
<1> QED BY <1>1, Invariance, PTL

(* No operation revives a revoked grant or credential or rewrites a grant. *)
THEOREM RevocationStands == Spec => RevocationIsFinal
<1> DEFINE Keep ==
      /\ \A g \in DOMAIN grants :
            /\ g \in DOMAIN grants'
            /\ grants[g].revoked => grants'[g] = grants[g]
            /\ grants'[g].body = grants[g].body /\ grants'[g].chain = grants[g].chain
      /\ \A k \in DOMAIN creds :
            k \in DOMAIN creds' /\ (creds[k].revoked => creds'[k] = creds[k])
<1>1. ASSUME TypeOK, [Next]_vars PROVE Keep \/ UNCHANGED vars
  <2>1. ASSUME NEW g \in GrantIds, NEW b \in Bodies, IssueGrant(g, b) PROVE Keep
    BY <2>1 DEF IssueGrant, Put
  <2>2. ASSUME NEW p \in GrantIds, NEW g \in GrantIds, NEW b \in Bodies, DelegateGrant(p, g, b)
        PROVE Keep
    BY <2>2 DEF DelegateGrant, Put
  <2>3. ASSUME NEW g \in GrantIds, RevokeGrant(g) PROVE Keep
    <3>1. \A h \in DOMAIN grants : grants[h] \in Grant
      BY <1>1 DEF TypeOK
    <3>2. \A k \in DOMAIN creds : creds[k] \in Credential
      BY <1>1 DEF TypeOK
    <3>3. \A h \in DOMAIN grants :
            /\ h \in DOMAIN grants'
            /\ grants'[h] = [grants[h] EXCEPT !.revoked = @ \/ h \in Affected(g)]
      BY <2>3 DEF RevokeGrant
    <3>4. \A k \in DOMAIN creds :
            /\ k \in DOMAIN creds'
            /\ creds'[k] = [creds[k] EXCEPT !.revoked =
                               @ \/ (creds[k].grant = g /\ ~grants[g].revoked)]
      BY <2>3 DEF RevokeGrant
    <3>5. ASSUME NEW h \in DOMAIN grants, grants[h].revoked
          PROVE  grants'[h] = grants[h]
      BY <3>1, <3>3, <3>5 DEF Grant
    <3>6. ASSUME NEW k \in DOMAIN creds, creds[k].revoked
          PROVE  creds'[k] = creds[k]
      BY <3>2, <3>4, <3>6 DEF Credential
    <3>7. \A h \in DOMAIN grants :
            grants'[h].body = grants[h].body /\ grants'[h].chain = grants[h].chain
      BY <3>1, <3>3 DEF Grant
    <3> QED BY <3>3, <3>4, <3>5, <3>6, <3>7
  <2>4. ASSUME NEW k \in CredKeys, NEW g \in GrantIds \union {NoGrant},
               NEW e \in Times \union {None}, IssueCredential(k, g, e)
        PROVE  Keep
    BY <2>4 DEF IssueCredential, Put
  <2>5. CASE Tick
    BY <2>5 DEF Tick
  <2> QED BY <1>1, <2>1, <2>2, <2>3, <2>4, <2>5 DEF Next
<1> QED BY <1>1, TypeCorrect, PTL DEF Spec, RevocationIsFinal
=============================================================================
