---------------------------- MODULE Conversations ----------------------------
(***************************************************************************)
(* ConversationStore in backend/karajan/conversations.py with the legacy   *)
(* projection of conversation_projection.py, and the events a Run command  *)
(* of runs/planning.py publishes to its conversation.                      *)
(*                                                                         *)
(* Every operation is one transaction on the Run ledger.  A browser takes  *)
(* a snapshot, then follows the events after its cursor over connections   *)
(* that break; it retries commands whose answer it lost, under the same    *)
(* key or under a new one, and edits a draft it read earlier.  Titles,     *)
(* texts and selections are left out but for the one a draft holds.        *)
(***************************************************************************)
EXTENDS Common, Naturals, Sequences, FiniteSets

CONSTANTS
    Projects,       \* projects; each has a legacy conversation of its own
    Threads,        \* conversations created explicitly
    Runs,           \* Runs of the planner
    ProjectOf,      \* the project of each Run
    DeclaredOf,     \* the conversation an old Run names, or None
    Browsers,       \* clients that follow a conversation
    CommandKeys,    \* command keys
    MessageIds,     \* client_message_id
    MaxEvents       \* bound on events

VARIABLES
    conversations,  \* commander_conversations: project, revision, last_event_seq, or None
    drafts,         \* conversation_drafts: revision and the edit it was made by
    stream,         \* conversation_events, in the order of their sequence
    messages,       \* conversation_messages: (conversation, client_message_id) stored
    commands,       \* conversation_commands: what each key was used for and its outcome
    bindings,       \* conversation_run_bindings
    blockers,       \* conversation_migration_blockers
    planned,        \* Runs of the ledger
    browser         \* per client: the conversation, its cursor, what it saw, the draft it read

conversationVars ==
    <<conversations, drafts, stream, messages, commands, bindings, blockers, planned, browser>>

Legacy(p) == <<"legacy", p>>
ConversationIds == Threads \union {Legacy(p) : p \in Projects}

(* Where a client stands: its conversation and cursor, the draft it read and the events it saw. *)
Following == [conversation : ConversationIds, cursor : Nat, draft : Nat, seen : SUBSET Nat]

(* A created conversation is numbered apart from the legacy ones (uuid4 and uuid5). *)
ASSUME ConversationsAssumption ==
    /\ \A p \in Projects : Legacy(p) \notin Threads
    /\ ProjectOf \in [Runs -> Projects]
    /\ None \notin Following

ConversationsInit ==
    /\ conversations = << >> /\ drafts = << >> /\ stream = << >> /\ messages = {}
    /\ commands = << >> /\ bindings = << >> /\ blockers = {} /\ planned = {}
    /\ browser = [b \in Browsers |-> None]

Known == DOMAIN conversations
Room == Len(stream) < MaxEvents

(* _event, then _save_conversation: the stream grows, and the conversation has its number. *)
Publishes(c, kind) ==
    /\ stream' = Append(stream, [conversation |-> c, kind |-> kind])
    /\ conversations' = [conversations EXCEPT ![c].revision = @ + 1, ![c].last = Len(stream')]

(***************************************************************************)
(* _command: a key is bound to its first request and answers it from then  *)
(* on; a refusal is remembered too.                                        *)
(***************************************************************************)
FirstUse(k, request, refused) ==
    /\ k \notin DOMAIN commands
    /\ commands' = WithRow(commands, k, [request |-> request, refused |-> refused])

Rejected(k, request) ==
    /\ FirstUse(k, request, TRUE)
    /\ UNCHANGED <<conversations, drafts, stream, messages, bindings, blockers, planned, browser>>

-----------------------------------------------------------------------------
(* A new conversation, with its draft at revision 1 and its first event. *)
Opened(c, p) ==
    /\ stream' = Append(stream, [conversation |-> c, kind |-> "conversation_created"])
    /\ conversations' = WithRow(conversations, c, [project |-> p, revision |-> 1, last |-> Len(stream')])
    /\ drafts' = WithRow(drafts, c, [revision |-> 1, over |-> 0])

(* create: the selection of a commander is checked inside, and may be refused. *)
CreateConversation(k, c, p) ==
    /\ Room /\ c \in Threads \ Known
    /\ \/ /\ FirstUse(k, <<"create", c>>, FALSE)
          /\ Opened(c, p)
          /\ UNCHANGED <<messages, bindings, blockers, planned, browser>>
       \/ Rejected(k, <<"create", c>>)

(* ensure_legacy_conversation, inside a transaction of its caller. *)
WithLegacy(p) ==
    IF Legacy(p) \in Known THEN UNCHANGED <<stream, conversations, drafts>> ELSE Opened(Legacy(p), p)

(* settings, by a browser that knows the conversation at a revision. *)
SaveSettings(k, c, revision) ==
    /\ Room /\ c \in Known
    /\ IF conversations[c].revision = revision
         THEN /\ FirstUse(k, <<"settings", c, revision>>, FALSE)
              /\ Publishes(c, "conversation_settings_saved")
              /\ UNCHANGED <<drafts, messages, bindings, blockers, planned, browser>>
         ELSE Rejected(k, <<"settings", c, revision>>)

(* message: a client_message_id that is stored already is answered, whatever the key. *)
PostMessage(k, c, m) ==
    /\ Room /\ c \in Known
    /\ FirstUse(k, <<"message", c, m>>, FALSE)
    /\ IF <<c, m>> \in messages THEN UNCHANGED <<messages, stream, conversations>>
       ELSE messages' = messages \union {<<c, m>>} /\ Publishes(c, "message_created")
    /\ UNCHANGED <<drafts, bindings, blockers, planned, browser>>

(* draft: replaces the revision its author read; what it selects may not exist. *)
SaveDraft(b, k) ==
    LET c == browser[b].conversation
        request == <<"draft", c, browser[b].draft>>
    IN
    /\ Room /\ browser[b] # None
    /\ \/ /\ browser[b].draft = drafts[c].revision
          /\ FirstUse(k, request, FALSE)
          /\ drafts' = [drafts EXCEPT ![c] = [revision |-> @.revision + 1, over |-> browser[b].draft]]
          /\ Publishes(c, "draft_saved")
          /\ UNCHANGED <<messages, bindings, blockers, planned, browser>>
       \/ Rejected(k, request)

(* task_draft *)
ProposeTask(k, c) ==
    /\ Room /\ c \in Known
    /\ FirstUse(k, <<"task_draft", c>>, FALSE)
    /\ Publishes(c, "task_draft_created")
    /\ UNCHANGED <<drafts, messages, bindings, blockers, planned, browser>>

-----------------------------------------------------------------------------
(* RunPlanner.create with _bind_conversation: without a conversation, the project's legacy one. *)
CreateRun(r, c) ==
    LET p == ProjectOf[r] IN
    /\ r \notin planned /\ Len(stream) + 1 < MaxEvents
    /\ c = Legacy(p) \/ (c \in Known /\ conversations[c].project = p)
    /\ LET opened == IF c \in Known THEN stream
                     ELSE Append(stream, [conversation |-> c, kind |-> "conversation_created"])
       IN
       /\ stream' = Append(opened, [conversation |-> c, kind |-> "run_create"])
       /\ conversations' = WithRow(conversations, c,
             [project |-> p, last |-> Len(stream'),
              revision |-> IF c \in Known THEN conversations[c].revision ELSE 1])
       /\ drafts' = IF c \in Known THEN drafts ELSE WithRow(drafts, c, [revision |-> 1, over |-> 0])
    /\ planned' = planned \union {r}
    /\ bindings' = WithRow(bindings, r, c)
    /\ UNCHANGED <<messages, commands, blockers, browser>>

(* A Run of an earlier release is in the ledger without a binding. *)
OldRun(r) ==
    /\ r \notin planned
    /\ planned' = planned \union {r}
    /\ UNCHANGED <<conversations, drafts, stream, messages, commands, bindings, blockers, browser>>

(* _conversation_event of a later Run command. *)
RunCommand(r) ==
    /\ Room /\ r \in planned \intersect DOMAIN bindings
    /\ stream' = Append(stream, [conversation |-> bindings[r], kind |-> "run_command"])
    /\ conversations' = [conversations EXCEPT ![bindings[r]].last = Len(stream')]
    /\ UNCHANGED <<drafts, messages, commands, bindings, blockers, planned, browser>>

(* bind_run, for a Run without a binding or with this one. *)
BindRun(r, c) ==
    LET p == ProjectOf[r] IN
    /\ Room /\ r \in planned
    /\ c = Legacy(p) \/ (c \in Known /\ conversations[c].project = p)
    /\ r \in DOMAIN bindings => bindings[r] = c
    /\ IF c = Legacy(p) THEN WithLegacy(p) ELSE UNCHANGED <<stream, conversations, drafts>>
    /\ bindings' = WithRow(bindings, r, c)
    /\ UNCHANGED <<messages, commands, blockers, planned, browser>>

(* migrate_legacy_runs at a start of the service: a valid old Run is bound, the others are blocked. *)
MigrateRun(r) ==
    LET p == ProjectOf[r]
        declared == DeclaredOf[r]
    IN
    /\ Room /\ r \in planned \ blockers /\ r \notin DOMAIN bindings
    /\ IF declared = None
         THEN /\ WithLegacy(p)
              /\ bindings' = WithRow(bindings, r, Legacy(p))
              /\ UNCHANGED blockers
         ELSE IF declared \in Known /\ conversations[declared].project = p
         THEN bindings' = WithRow(bindings, r, declared) /\ UNCHANGED <<blockers, stream, conversations, drafts>>
         ELSE blockers' = blockers \union {r} /\ UNCHANGED <<bindings, stream, conversations, drafts>>
    /\ UNCHANGED <<messages, commands, planned, browser>>

(* _binding_status: the conversation a Run is shown in, or None. *)
BindingStatus(r) ==
    IF r \in blockers \/ r \notin DOMAIN bindings THEN None ELSE bindings[r]

-----------------------------------------------------------------------------
(* What a client that has followed c to its cursor should know of, and what lies after it. *)
EventsUpTo(c, cursor) == {n \in 1 .. cursor : stream[n].conversation = c}
EventsAfter(c, cursor) == {n \in cursor + 1 .. Len(stream) : stream[n].conversation = c}

(* snapshot: all there is, and the number of the conversation's last event as the cursor. *)
TakeSnapshot(b, c) ==
    /\ c \in Known
    /\ browser' = [browser EXCEPT ![b] =
          [conversation |-> c, cursor |-> conversations[c].last, draft |-> drafts[c].revision,
           seen |-> EventsUpTo(c, Len(stream))]]
    /\ UNCHANGED <<conversations, drafts, stream, messages, commands, bindings, blockers, planned>>

(* events_snapshot: the cursor must be one the conversation gave out, else a gap is reported. *)
KnownCursor(c, cursor) ==
    \/ cursor \in {0, conversations[c].last}
    \/ cursor \in DOMAIN stream /\ stream[cursor].conversation = c

(* What arrives of the batch after a cursor when the connection breaks behind event last. *)
Delivered(c, cursor, last) == {n \in EventsAfter(c, cursor) : n <= last}

(* A slip in get_events: the watermark is the id to resume after, not that of the event received. *)
FollowEvents_Watermark(b) ==
    /\ browser[b] # None
    /\ LET c == browser[b].conversation
           cursor == browser[b].cursor
       IN
       /\ KnownCursor(c, cursor) /\ cursor <= conversations[c].last
       /\ \E last \in EventsAfter(c, cursor) :
             browser' = [browser EXCEPT ![b].cursor = conversations[c].last,
                                        ![b].seen = @ \union Delivered(c, cursor, last)]
    /\ UNCHANGED <<conversations, drafts, stream, messages, commands, bindings, blockers, planned>>

(* The batch after the cursor, of which the client resumes after the last event it got. *)
FollowEvents(b) ==
    /\ browser[b] # None
    /\ LET c == browser[b].conversation
           cursor == browser[b].cursor
       IN
       /\ KnownCursor(c, cursor) /\ cursor <= conversations[c].last
       /\ \E last \in EventsAfter(c, cursor) :
             browser' = [browser EXCEPT ![b].cursor = last,
                                        ![b].seen = @ \union Delivered(c, cursor, last)]
    /\ UNCHANGED <<conversations, drafts, stream, messages, commands, bindings, blockers, planned>>

ConversationsNext ==
    \/ \E k \in CommandKeys :
          \/ \E c \in Threads, p \in Projects : CreateConversation(k, c, p)
          \/ \E c \in Known :
                \/ \E n \in 1 .. MaxEvents : SaveSettings(k, c, n)
                \/ \E m \in MessageIds : PostMessage(k, c, m)
                \/ ProposeTask(k, c)
          \/ \E b \in Browsers : SaveDraft(b, k)
    \/ \E r \in Runs :
          \/ OldRun(r) \/ RunCommand(r) \/ MigrateRun(r)
          \/ \E c \in ConversationIds : CreateRun(r, c) \/ BindRun(r, c)
    \/ \E b \in Browsers :
          \/ \E c \in Known : TakeSnapshot(b, c)
          \/ FollowEvents(b)

-----------------------------------------------------------------------------
(***************************************************************************)
(* A client that takes a snapshot and follows the events after its cursor, *)
(* batch by batch and over connections that break within one, has seen     *)
(* every event of its conversation up to the cursor and none after it; its *)
(* cursor is one the store accepts, and no event lies behind the number    *)
(* the conversation gives as its last; no draft replaces an edit its       *)
(* author had not read; a Run is shown in a conversation of its own        *)
(* project, never after its migration is blocked.  Behaviour: snapshot,    *)
(* events_snapshot, get_events, draft, migrate_legacy_runs.                *)
(***************************************************************************)
ConversationsAreFollowed ==
    /\ \A c \in Known :
          /\ EventsAfter(c, conversations[c].last) = {}
          /\ drafts[c].over = drafts[c].revision - 1
    /\ \A b \in Browsers : browser[b] # None =>
          /\ browser[b].seen = EventsUpTo(browser[b].conversation, browser[b].cursor)
          /\ KnownCursor(browser[b].conversation, browser[b].cursor)
    /\ \A r \in planned : BindingStatus(r) # None =>
          conversations[BindingStatus(r)].project = ProjectOf[r]

ConversationsSpec == ConversationsInit /\ [][ConversationsNext]_conversationVars
==============================================================================
