--------------------------- MODULE ProjectRegistry ---------------------------
(***************************************************************************)
(* ProjectRegistry in backend/karajan/projects/registry.py and the         *)
(* publication of rulebooks in publication.py, for one project.            *)
(*                                                                         *)
(* A configuration is previewed, which reads the project and its catalog   *)
(* in one transaction and stores the preview in a later one, and is then   *)
(* saved as a draft or published in a third.  In between other commands    *)
(* change the project, the preview expires, or the compiler is replaced.   *)
(* A rulebook is its revision and its text; a text is compiled to itself,  *)
(* unless it does not compile.                                             *)
(***************************************************************************)
EXTENDS Common, Naturals, Sequences, FiniteSets

CONSTANTS
    Authors,        \* concurrent previews by the owner
    Rulebooks,      \* documents: revision, text, and whether it compiles
    Catalogs,       \* resources with their approved profiles
    Policies,       \* execution policies: revision and component
    MaxProjectRevision, MaxPreviews  \* bounds

VARIABLES
    project,     \* revision of the project, its configuration (a preview) and its status
    previews,    \* previews stored
    versions,    \* rulebook_versions: the text of each revision bound
    catalog,     \* effective_catalogs: revision and content
    policies,    \* execution_policies registered
    compilerId,  \* compiler_identity()
    gone,        \* previews that have expired
    author       \* per call of preview: what it read in its first transaction, or None

registryVars == <<project, previews, versions, catalog, policies, compilerId, gone, author>>

RegistryInit ==
    /\ project = [revision |-> 1, preview |-> 0, status |-> "unconfigured"]
    /\ previews = << >> /\ versions = << >>
    /\ catalog = [revision |-> 0, content |-> None]
    /\ policies = << >> /\ compilerId = 1 /\ gone = {}
    /\ author = [a \in Authors |-> None]

(* guard_identity: a revision that is bound keeps its compiled text. *)
IdentityHolds(rulebook) ==
    rulebook.revision \in DOMAIN versions =>
        rulebook.compiles /\ versions[rulebook.revision] = rulebook.text

(* bind_version *)
WithVersion(rulebook) ==
    IF rulebook.revision \in DOMAIN versions THEN versions
    ELSE WithRow(versions, rulebook.revision, rulebook.text)

(* apply_catalog: a configuration with sound resources replaces other content. *)
WithCatalog(content) ==
    IF content \in {None, catalog.content} THEN catalog
    ELSE [revision |-> catalog.revision + 1, content |-> content]

-----------------------------------------------------------------------------
(* update, with its own revision compared again in the transaction that writes. *)
UpdateProject(expected) ==
    /\ expected = project.revision /\ project.revision < MaxProjectRevision
    /\ project' = [project EXCEPT !.revision = @ + 1]
    /\ UNCHANGED <<previews, versions, catalog, policies, compilerId, gone, author>>

(* preview_configuration and preview_rulebook read the project, the latter its catalog too ... *)
ReadForPreview(a, kind, rulebook, resources) ==
    /\ author[a] = None
    /\ kind = "rulebook" => resources = catalog.content
    /\ author' = [author EXCEPT ![a] =
          [kind |-> kind, rulebook |-> rulebook, resources |-> resources, revision |-> project.revision,
           catalog |-> catalog.revision, compiler |-> compilerId,
           over |-> project.preview, overCatalog |-> catalog.content]]
    /\ UNCHANGED <<project, previews, versions, catalog, policies, compilerId, gone>>

(* What a preview says of a document: it can be saved, published, and is valid offline. *)
Verdict(read) ==
    LET sound == read.resources # None
    IN  [draft |-> IdentityHolds(read.rulebook),
         publish |-> IdentityHolds(read.rulebook) /\ read.rulebook.compiles,
         valid |-> IdentityHolds(read.rulebook) /\ read.rulebook.compiles /\ sound]

(* A slip in preview_configuration: the project read first is not compared again. *)
SavePreview_NoRecheck(a) ==
    /\ author[a] # None /\ Len(previews) < MaxPreviews
    /\ previews' = Append(previews, [read |-> [author[a] EXCEPT !.revision = project.revision,
                                                                !.catalog = catalog.revision],
                                     verdict |-> Verdict(author[a])])
    /\ author' = [author EXCEPT ![a] = None]
    /\ UNCHANGED <<project, versions, catalog, policies, compilerId, gone>>

(* ... and store the preview if the project is still at that revision, and its catalog. *)
SavePreview(a) ==
    LET read == author[a]
        same == /\ read.revision = project.revision
                /\ read.kind = "rulebook" => read.catalog = catalog.revision /\ read.compiler = compilerId
    IN
    /\ read # None /\ Len(previews) < MaxPreviews
    /\ previews' = IF same THEN Append(previews, [read |-> [read EXCEPT !.catalog = catalog.revision],
                                                  verdict |-> Verdict(read)])
                   ELSE previews
    /\ author' = [author EXCEPT ![a] = None]
    /\ UNCHANGED <<project, versions, catalog, policies, compilerId, gone>>

(* _check_preview, and the preview is of the project's present revision. *)
Presentable(p) ==
    /\ p \in DOMAIN previews /\ p \notin gone
    /\ previews[p].read.compiler = compilerId
    /\ previews[p].read.catalog = catalog.revision
    /\ previews[p].read.revision = project.revision

(* apply_configuration: a storable preview becomes the configuration, a valid one binds its rulebook. *)
ApplyConfiguration(p, expected) ==
    LET read == previews[p].read
        valid == read.kind = "configuration" /\ previews[p].verdict.valid
    IN
    /\ expected = project.revision /\ project.revision < MaxProjectRevision
    /\ Presentable(p) /\ previews[p].verdict.draft /\ IdentityHolds(read.rulebook)
    /\ versions' = IF valid THEN WithVersion(read.rulebook) ELSE versions
    /\ catalog' = WithCatalog(read.resources)
    /\ project' = [revision |-> expected + 1, preview |-> p,
                   status |-> IF valid THEN "offline_valid" ELSE "draft"]
    /\ UNCHANGED <<previews, policies, compilerId, gone, author>>

(* publish_rulebook: the previewed rulebook is bound whether or not the catalog is sound. *)
PublishRulebook(p, expected) ==
    LET read == previews[p].read IN
    /\ expected = project.revision /\ project.revision < MaxProjectRevision
    /\ Presentable(p) /\ read.kind = "rulebook" /\ previews[p].verdict.publish
    /\ IdentityHolds(read.rulebook)
    /\ versions' = WithVersion(read.rulebook)
    /\ catalog' = WithCatalog(read.resources)
    /\ project' = [revision |-> expected + 1, preview |-> p,
                   status |-> IF previews[p].verdict.valid THEN "offline_valid" ELSE "draft"]
    /\ UNCHANGED <<previews, policies, compilerId, gone, author>>

(* register_execution_policy: the next revision, whose components agree with earlier ones. *)
RegisterExecutionPolicy(policy) ==
    /\ project.status = "offline_valid"
    /\ policy.revision = Len(policies) + 1
    /\ \A i \in DOMAIN policies : policies[i].component = policy.component => policies[i].text = policy.text
    /\ policies' = Append(policies, policy)
    /\ UNCHANGED <<project, previews, versions, catalog, compilerId, gone, author>>

-----------------------------------------------------------------------------
PreviewExpires(p) ==
    /\ p \in DOMAIN previews \ gone
    /\ gone' = gone \union {p}
    /\ UNCHANGED <<project, previews, versions, catalog, policies, compilerId, author>>

CompilerChanges ==
    /\ compilerId = 1 /\ compilerId' = 2
    /\ UNCHANGED <<project, previews, versions, catalog, policies, gone, author>>

RegistryNext ==
    \/ \E n \in 1 .. MaxProjectRevision :
          \/ UpdateProject(n)
          \/ \E p \in 1 .. MaxPreviews : ApplyConfiguration(p, n) \/ PublishRulebook(p, n)
    \/ \E a \in Authors :
          \/ \E kind \in {"configuration", "rulebook"}, r \in Rulebooks, c \in Catalogs \union {None} :
                ReadForPreview(a, kind, r, c)
          \/ SavePreview(a)
    \/ \E policy \in Policies : RegisterExecutionPolicy(policy)
    \/ \E p \in 1 .. MaxPreviews : PreviewExpires(p)
    \/ CompilerChanges

RegistrySpec == RegistryInit /\ [][RegistryNext]_registryVars

-----------------------------------------------------------------------------
(***************************************************************************)
(* A configuration replaces exactly what its author saw: the configuration *)
(* and the catalog in force when a preview was read are those in force     *)
(* when it is saved or published, although three transactions and other    *)
(* authors lie between.  A rulebook revision, once bound, keeps its text,  *)
(* and the configuration in force never contradicts it.                    *)
(***************************************************************************)
ConfigurationsAreReviewed ==
    [][/\ project'.preview # project.preview =>
             LET read == previews[project'.preview].read IN
             read.over = project.preview /\ read.overCatalog = catalog.content
       /\ \A r \in DOMAIN versions : r \in DOMAIN versions' /\ versions'[r] = versions[r]
       /\ project'.preview # 0 =>
             LET rulebook == previews'[project'.preview].read.rulebook IN
             rulebook.revision \in DOMAIN versions' => versions'[rulebook.revision] = rulebook.text
      ]_registryVars
==============================================================================
