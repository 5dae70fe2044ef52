-------------------------- MODULE SchedulingGrants --------------------------
(***************************************************************************)
(* The authority chain of one workflow Run, as SchedulingStore             *)
(* (backend/karajan/scheduling/store.py) and grants.py keep it: top-level  *)
(* grants, delegated grants, cascading revocation, expiry, and the narrow  *)
(* credentials issued for a grant.                                         *)
(*                                                                         *)
(* Every public operation of the store is one SQLite write transaction, so *)
(* each is one action here.  A refused operation changes nothing and is    *)
(* not an action of its own.                                               *)
(***************************************************************************)
EXTENDS Integers

CONSTANTS
    GrantIds,     \* grant identities a caller may name
    CredKeys,     \* issuing command keys; each key mints one credential
    Acts,         \* GRANTABLE_ACTIONS
    Bodies,       \* the parsed grant bodies callers submit
    MaxTime,      \* bound on the clock
    NoGrant,      \* the absent parent_grant_id or credential grant_id
    None          \* an absent ceiling or an absent expiry

(***************************************************************************)
(* What validate_grant_payload returns.  `acts` also stands for the other  *)
(* set-valued dimensions _subset compares (inputs, outcomes, tools, ...).  *)
(* `maximum` and `dacts` are delegation.maximum_depth and .actions, where  *)
(* validate_delegation makes a policy that is not allowed <<0, {}>> and    *)
(* demands a bound of at least one otherwise.  `cap` is                    *)
(* resource_policy.max_active_claims.                                      *)
(***************************************************************************)
GrantBody ==
    {b \in [acts    : SUBSET Acts,
            dacts   : SUBSET Acts,
            maximum : Nat,
            cap     : Nat \union {None},
            expires : Nat \union {None}] : b.maximum = 0 => b.dacts = {}}

ASSUME GrantsAssumption ==
    /\ Bodies \subseteq GrantBody
    /\ MaxTime \in Nat
    /\ NoGrant \notin GrantIds
    /\ None \notin Nat

VARIABLES
    grants,   \* scheduler_grants: the issued grants, by identity
    creds,    \* scheduling_credentials: the minted credentials, by issuing key
    now       \* the clock the store reads

vars == <<grants, creds, now>>

Times == 0 .. MaxTime

(***************************************************************************)
(* A stored grant.  `chain` is the set of grants reached by following      *)
(* parent_grant_id.  The store finds it by walking the rows; a row's       *)
(* parent never changes, so recording the set with the row is the same.    *)
(***************************************************************************)
Grant ==
    [body    : GrantBody,
     chain   : SUBSET GrantIds,
     parent  : GrantIds \union {NoGrant},
     root    : GrantIds,
     depth   : Nat,
     revoked : BOOLEAN]

Credential ==
    [grant   : GrantIds \union {NoGrant},
     expires : Nat \union {None},
     revoked : BOOLEAN]

(* A table with one more row. *)
Put(table, key, row) ==
    [k \in DOMAIN table \union {key} |-> IF k = key THEN row ELSE table[k]]

MayDelegate(b) == b.maximum > 0

(* grant_expired, and the same test on a credential. *)
Expired(at) == at # None /\ now >= at

(* _require_grant_live. *)
GrantLive(g) == ~grants[g].revoked /\ ~Expired(grants[g].body.expires)

(* _require_chain_live: the grant and every ancestor, read in one transaction. *)
ChainLive(g) == GrantLive(g) /\ \A a \in grants[g].chain : GrantLive(a)

(* _credential_from: what resolve_credential accepts. *)
CredentialLive(k) == ~creds[k].revoked /\ ~Expired(creds[k].expires)

(***************************************************************************)
(* A ceiling or an expiry is at most the parent's: an absent parent value  *)
(* bounds nothing, and a child may not leave out a bound its parent has.   *)
(***************************************************************************)
NotWider(child, parent) == parent # None => child # None /\ child <= parent

Least(m, n) == IF m <= n THEN m ELSE n

(* Slips in require_subset: the depth already used is not subtracted; the *)
(* expiry is not compared.                                                *)
RequireSubset_FullDepth(p, b) ==
    LET parent == grants[p].body IN
    /\ b.acts \subseteq parent.acts
    /\ NotWider(b.cap, parent.cap)
    /\ NotWider(b.expires, parent.expires)
    /\ MayDelegate(parent)
    /\ b.acts \subseteq parent.dacts
    /\ MayDelegate(b) =>
          b.dacts \subseteq parent.dacts \intersect b.acts /\ b.maximum <= parent.maximum

RequireSubset_AnyExpiry(p, b) ==
    LET parent == grants[p].body IN
    /\ b.acts \subseteq parent.acts
    /\ NotWider(b.cap, parent.cap)
    /\ MayDelegate(parent)
    /\ b.acts \subseteq parent.dacts
    /\ MayDelegate(b) =>
          /\ b.dacts \subseteq parent.dacts \intersect b.acts
          /\ b.maximum <= Least(parent.maximum, parent.maximum - grants[p].depth)

(***************************************************************************)
(* require_subset(parent, parsed), as _issue_grant calls it: with no root, *)
(* so the bound on the child's own bound is taken from the parent alone.   *)
(***************************************************************************)
RequireSubset(p, b) ==
    LET parent == grants[p].body IN
    /\ b.acts \subseteq parent.acts
    /\ NotWider(b.cap, parent.cap)
    /\ NotWider(b.expires, parent.expires)
    /\ MayDelegate(parent)
    /\ b.acts \subseteq parent.dacts
    /\ MayDelegate(b) =>
          /\ b.dacts \subseteq parent.dacts \intersect b.acts
          /\ b.maximum <= Least(parent.maximum, parent.maximum - grants[p].depth)

(***************************************************************************)
(* require_delegation_depth(root, parent, depth), as _issue_grant calls    *)
(* it: with no ancestors, so only the root's bound is consulted.           *)
(***************************************************************************)
RequireDelegationDepth(p) ==
    /\ MayDelegate(grants[p].body)
    /\ 1 <= grants[grants[p].root].body.maximum - grants[p].depth

Init ==
    /\ grants = << >>
    /\ creds = << >>
    /\ now = 0

(* Slips in issue_grant: a taken identity is overwritten; the root is left unset. *)
IssueGrant_Upsert(g, b) ==
    /\ grants' = Put(grants, g,
                     [body |-> b, chain |-> {}, parent |-> NoGrant, root |-> g,
                      depth |-> 0, revoked |-> FALSE])
    /\ UNCHANGED <<creds, now>>

IssueGrant_NoRoot(g, b) ==
    /\ g \notin DOMAIN grants
    /\ grants' = Put(grants, g,
                     [body |-> b, chain |-> {}, parent |-> NoGrant, root |-> NoGrant,
                      depth |-> 0, revoked |-> FALSE])
    /\ UNCHANGED <<creds, now>>

(***************************************************************************)
(* issue_grant: a top-level grant under the Run's user authorization.  An  *)
(* identity that is taken is refused: the digest compared includes         *)
(* valid_from, so only a repeat within one clock reading is a replay.      *)
(***************************************************************************)
IssueGrant(g, b) ==
    /\ g \notin DOMAIN grants
    /\ grants' = Put(grants, g,
                     [body |-> b, chain |-> {}, parent |-> NoGrant, root |-> g,
                      depth |-> 0, revoked |-> FALSE])
    /\ UNCHANGED <<creds, now>>

(* delegate_grant: only the immediate parent's own liveness is checked. *)
DelegateGrant(p, g, b) ==
    /\ p \in DOMAIN grants
    /\ g \notin DOMAIN grants
    /\ GrantLive(p)
    /\ RequireSubset(p, b)
    /\ RequireDelegationDepth(p)
    /\ grants' = Put(grants, g,
                     [body |-> b, chain |-> grants[p].chain \union {p},
                      parent |-> p, root |-> grants[p].root,
                      depth |-> grants[p].depth + 1, revoked |-> FALSE])
    /\ UNCHANGED <<creds, now>>

(* A slip in revoke_grant: only the direct children are found. *)
Affected_Children(g) == {g} \union {d \in DOMAIN grants : grants[d].parent = g}

(* The closure revoke_grant computes before it writes anything. *)
Affected(g) == {g} \union {d \in DOMAIN grants : g \in grants[d].chain}

(***************************************************************************)
(* revoke_grant.  Every descendant row is revoked, but credentials only    *)
(* for the grant that was named, and only while it was not yet revoked.    *)
(***************************************************************************)
RevokeGrant(g) ==
    /\ g \in DOMAIN grants
    /\ grants' = [d \in DOMAIN grants |->
                     [grants[d] EXCEPT !.revoked = @ \/ d \in Affected(g)]]
    /\ creds' = [k \in DOMAIN creds |->
                    [creds[k] EXCEPT !.revoked =
                        @ \/ (creds[k].grant = g /\ ~grants[g].revoked)]]
    /\ UNCHANGED now

(***************************************************************************)
(* issue_credential.  A repeated key is answered from its issuance record, *)
(* so a key mints one credential; a named grant must have a live chain.    *)
(***************************************************************************)
IssueCredential(k, g, expires) ==
    /\ k \notin DOMAIN creds
    /\ g # NoGrant => g \in DOMAIN grants /\ ChainLive(g)
    /\ expires # None => expires > now
    /\ creds' = Put(creds, k, [grant |-> g, expires |-> expires, revoked |-> FALSE])
    /\ UNCHANGED <<grants, now>>

(* The clock moves between operations. *)
Tick ==
    /\ now < MaxTime
    /\ now' = now + 1
    /\ UNCHANGED <<grants, creds>>

Next ==
    \/ \E g \in GrantIds, b \in Bodies : IssueGrant(g, b)
    \/ \E p, g \in GrantIds, b \in Bodies : DelegateGrant(p, g, b)
    \/ \E g \in GrantIds : RevokeGrant(g)
    \/ \E k \in CredKeys, g \in GrantIds \union {NoGrant}, e \in Times \union {None} :
          IssueCredential(k, g, e)
    \/ Tick

Spec == Init /\ [][Next]_vars

-----------------------------------------------------------------------------
(* The tables hold well-formed rows (the shapes grants.py and credentials.py parse). *)
TypeOK ==
    /\ DOMAIN grants \subseteq GrantIds
    /\ grants \in [DOMAIN grants -> Grant]
    /\ DOMAIN creds \subseteq CredKeys
    /\ creds \in [DOMAIN creds -> Credential]
    /\ now \in Times

(***************************************************************************)
(* A grant that passes its own liveness test has an ancestry that is       *)
(* entirely live: cascading revocation, the parent-only check of           *)
(* delegate_grant and the narrowing of expires_at together make a live row *)
(* under a dead ancestor impossible, whatever order the operations come in.*)
(***************************************************************************)
LiveGrantHasLiveChain ==
    \A g \in DOMAIN grants : GrantLive(g) => ChainLive(g)

(***************************************************************************)
(* No grant sits further below any ancestor than that ancestor's           *)
(* maximum_depth allows, although require_delegation_depth is called       *)
(* without the ancestors and require_subset without the root.              *)
(***************************************************************************)
DelegationBounded ==
    \A g \in DOMAIN grants : \A a \in grants[g].chain :
        grants[g].depth - grants[a].depth <= grants[a].body.maximum

(***************************************************************************)
(* Authority only ever narrows down the chain, in every dimension at once: *)
(* the permitted actions, the occupancy ceiling and the expiry of a grant  *)
(* are contained in those of every ancestor, not only of its parent.       *)
(***************************************************************************)
AuthorityNarrows ==
    \A g \in DOMAIN grants : \A a \in grants[g].chain :
        /\ grants[g].body.acts \subseteq grants[a].body.acts
        /\ grants[g].body.acts \subseteq grants[a].body.dacts
        /\ NotWider(grants[g].body.cap, grants[a].body.cap)
        /\ NotWider(grants[g].body.expires, grants[a].body.expires)

(***************************************************************************)
(* What an accepted revocation settles: a revoked grant is never live      *)
(* again and its row is otherwise what was issued, and a revoked           *)
(* credential stays revoked (revoke_grant, _revoke_grant_credentials).     *)
(***************************************************************************)
RevocationIsFinal ==
    [][/\ \A g \in DOMAIN grants :
             /\ g \in DOMAIN grants'
             /\ grants[g].revoked => grants'[g] = grants[g]
             /\ grants'[g].body = grants[g].body /\ grants'[g].chain = grants[g].chain
       /\ \A k \in DOMAIN creds :
             k \in DOMAIN creds' /\ (creds[k].revoked => creds'[k] = creds[k])]_vars

(***************************************************************************)
(* store.py:1210: "Every credential issued for a revoked grant is revoked  *)
(* with it, so a late request under the old token is refused at the        *)
(* credential boundary as well as at the grant check."                     *)
(***************************************************************************)
RevokedGrantHasNoLiveCredential ==
    \A k \in DOMAIN creds :
        creds[k].grant \in DOMAIN grants /\ grants[creds[k].grant].revoked
            => creds[k].revoked
=============================================================================
