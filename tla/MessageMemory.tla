---------------------------- MODULE MessageMemory ----------------------------
(***************************************************************************)
(* services/memory.py: how the messages of one user's conversations become  *)
(* lasting memory.  A message is saved by a voice session (a job under the   *)
(* conversation's key) or by the history API, and either enqueues a job for  *)
(* the one enrichment worker, which runs under the conversation's key too:   *)
(* the user's messages are searched for facts by a language model, the       *)
(* assistant's make every so many messages a chunk with an embedding, and a  *)
(* summary of a long conversation.                                           *)
(*                                                                          *)
(* A message is its id, its row number in messages.  A database statement or *)
(* a transaction without an await that matters between its statements is one *)
(* action.  That two jobs of one key never run together is TaskQueue's.      *)
(***************************************************************************)
EXTENDS Integers, FiniteSets, FiniteSetsExt, Sequences, SequencesExt, Subsequences

CONSTANTS
  Convs,        \* the conversations
  HttpConvs,    \* those the history API writes to as well
  MaxSaves,     \* bound: messages saved, per conversation
  MaxMessages,  \* bound: messages saved in all
  Roles,        \* the roles of the messages saved
  Extractions,  \* what the language model may find in a user's message
  SingleKeys,   \* SINGLE_VALUE_KEYS
  Lower(_),     \* lower() of a value
  ChunkSize,    \* 8, the messages of a chunk
  Threshold,    \* SUMMARY_MESSAGE_THRESHOLD
  Recent,       \* 40, the messages a summary reads
  NoMessage     \* no message

\* What a fact event says of the user; whether it is sure and worth keeping stands
\* for its confidence and its value.
Events ==
  [action : {"upsert", "deactivate", "ignore"}, type : STRING, key : STRING, value : STRING,
   sure : BOOLEAN, durability : {"stable", "temporary"}]

ASSUME MemoryAssumption ==
  /\ HttpConvs \subseteq Convs
  /\ Roles \subseteq {"You", "Aura", "ToolCall", "RagCall"}
  /\ ChunkSize \in Nat \ {0, 1} /\ Threshold \in Nat \ {0}
  /\ MaxSaves \in [Convs -> Nat] /\ MaxMessages \in Nat
  /\ Recent \in Nat /\ Recent >= ChunkSize
  /\ Extractions \subseteq Seq(Events)
  /\ NoMessage \notin Nat

VARIABLES
  convs,     \* the conversations not deleted
  messages,  \* the rows of Message, with the path that saved them
  saving,    \* per conversation, the message its save has committed, not yet enqueued
  lane,      \* the enrichment lane: ids of messages
  enriching, \* _process_saved_message_background: the job that runs
  facts,     \* the rows of UserMemory
  chunks,    \* the rows of MemoryChunk
  summary,   \* per conversation, the messages Conversation.summary was made of
  missed     \* history: messages their job did not find

savedVars == <<messages, saving>>
learntVars == <<facts, chunks, summary>>
memoryVars == <<convs, savedVars, lane, enriching, learntVars, missed>>

Job(m, step, count) == [of |-> m, step |-> step, count |-> count, read |-> <<>>]
NoJob == Job(NoMessage, "none", 0)

MemoryInit ==
  /\ convs = Convs
  /\ messages = <<>>
  /\ saving = [c \in Convs |-> NoMessage]
  /\ lane = <<>> /\ enriching = NoJob
  /\ facts = {} /\ chunks = {}
  /\ summary = [c \in Convs |-> <<>>]
  /\ missed = {}

Row(c, role, path, state) == [conv |-> c, role |-> role, path |-> path, state |-> state]

\* The messages saved in a conversation.
Saves(c) == Cardinality({m \in DOMAIN messages : messages[m].conv = c})

\* Mutant: the enrichment job runs without the key.
KeyFreeOfSaves(c) == saving[c] = NoMessage

\* The conversation's key is free of saves and of the enrichment job.
KeyFree(c) ==
  /\ saving[c] = NoMessage
  /\ enriching.of # NoMessage => messages[enriching.of].conv # c

-----------------------------------------------------------------------------
(* Saving *)

\* Mutant: a voice session saves as the history API does, enqueueing without the
\* key and before the commit.
SaveUnkeyed(c, role) ==
  /\ c \in convs /\ Saves(c) < MaxSaves[c] /\ Len(messages) < MaxMessages
  /\ messages' = Append(messages, Row(c, role, "voice", "flushed"))
  /\ lane' = Append(lane, Len(messages) + 1)
  /\ UNCHANGED <<convs, saving, enriching, learntVars, missed>>

\* save_conversation_message, a job of a voice session, up to its commit.
SaveCommit(c, role) ==
  /\ c \in convs /\ KeyFree(c) /\ Saves(c) < MaxSaves[c] /\ Len(messages) < MaxMessages
  /\ messages' = Append(messages, Row(c, role, "voice", "committed"))
  /\ saving' = [saving EXCEPT ![c] = Len(messages) + 1]
  /\ UNCHANGED <<convs, lane, enriching, learntVars, missed>>

\* The refresh of the message, which fails if it has been deleted, and enqueue.
SaveEnqueue(c) ==
  LET m == saving[c] IN
  /\ m # NoMessage
  /\ saving' = [saving EXCEPT ![c] = NoMessage]
  /\ lane' = IF messages[m].state = "committed" THEN Append(lane, m) ELSE lane
  /\ UNCHANGED <<convs, messages, enriching, learntVars, missed>>

\* add_message: the id comes with the flush, enqueue follows without an await.
HttpFlush(c, role) ==
  /\ c \in convs \cap HttpConvs /\ Saves(c) < MaxSaves[c] /\ Len(messages) < MaxMessages
  /\ messages' = Append(messages, Row(c, role, "http", "flushed"))
  /\ lane' = Append(lane, Len(messages) + 1)
  /\ UNCHANGED <<convs, saving, enriching, learntVars, missed>>

\* Its commit, or the rollback when the request is cut off.
HttpEnd(m) ==
  /\ messages[m].state = "flushed"
  /\ \E state \in {"committed", "gone"} : messages' = [messages EXCEPT ![m].state = state]
  /\ UNCHANGED <<convs, saving, lane, enriching, learntVars, missed>>

\* Mutant: the chunks are left to the retrieval's join.
DeleteMessages(c) ==
  /\ c \in convs
  /\ convs' = convs \ {c}
  /\ messages' = [m \in DOMAIN messages |->
                    IF messages[m].conv = c THEN [messages[m] EXCEPT !.state = "gone"]
                    ELSE messages[m]]
  /\ UNCHANGED <<saving, lane, enriching, learntVars, missed>>

\* delete_conversation: its messages and chunks go with it.  An insert that is
\* not committed holds the row.
DeleteConversation(c) ==
  /\ c \in convs
  /\ \A m \in DOMAIN messages : messages[m].conv = c => messages[m].state # "flushed"
  /\ convs' = convs \ {c}
  /\ messages' = [m \in DOMAIN messages |->
                    IF messages[m].conv = c THEN [messages[m] EXCEPT !.state = "gone"]
                    ELSE messages[m]]
  /\ chunks' = {k \in chunks : k.conv # c}
  /\ summary' = [summary EXCEPT ![c] = <<>>]
  /\ UNCHANGED <<saving, lane, enriching, facts, missed>>

-----------------------------------------------------------------------------
(* Facts *)

\* _valid_fact_event: what is unsure, temporary or to be ignored is dropped, and
\* "name" is another word for "real_name".
Valid(events) ==
  LET kept == Only(events, {e \in ToSet(events) :
                /\ e.action \in {"upsert", "deactivate"}
                /\ e.sure /\ e.durability = "stable"}) IN
  [i \in DOMAIN kept |->
     [kept[i] EXCEPT !.key = IF @ = "name" THEN "real_name" ELSE @]]

SameKey(row, event) == row.type = event.type /\ row.key = event.key

\* Rows in gone are active no longer.
Deactivated(rows, gone) ==
  {IF r \in gone THEN [r EXCEPT !.active = FALSE] ELSE r : r \in rows}

\* The other values of a single-valued key give way; one row per type, key and
\* value (uq_user_memory_fact_value).
Upsert(rows, event, m) ==
  LET others == IF event.key \in SingleKeys
                THEN Deactivated(rows, {r \in rows : SameKey(r, event)}) ELSE rows IN
  {r \in others : ~(SameKey(r, event) /\ r.value = event.value)}
    \cup {[type |-> event.type, key |-> event.key, value |-> event.value,
           active |-> TRUE, source |-> m]}

\* apply_fact_events, for one event.
Applied(rows, event, m) ==
  IF event.action = "deactivate"
  THEN Deactivated(rows, {r \in rows : /\ SameKey(r, event)
                                       /\ Lower(r.value) = Lower(event.value)})
  ELSE Upsert(rows, event, m)

ApplyEvents(rows, events, m) ==
  LET after[n \in 0..Len(events)] ==
        IF n = 0 THEN rows ELSE Applied(after[n - 1], events[n], m)
  IN  after[Len(events)]

\* delete_memory and delete_all_memories.
Forget ==
  /\ facts # {}
  /\ facts' \in {{}} \cup {facts \ {f} : f \in facts}
  /\ UNCHANGED <<convs, savedVars, lane, enriching, chunks, summary, missed>>

-----------------------------------------------------------------------------
(* The enrichment job *)

\* The messages of a conversation a statement sees, by id: those the count, the
\* chunks and the summary speak of.
Visible(c) ==
  Only([m \in DOMAIN messages |-> m],
       {m \in DOMAIN messages : /\ messages[m].conv = c /\ messages[m].state = "committed"
                                /\ messages[m].role \in {"You", "Aura"}})

Newest(ids, n) == SubSeq(ids, Max({1, Len(ids) - n + 1}), Len(ids))

\* update_conversation_summary_if_needed goes on after its count.
Due(count) == count > Threshold \/ count % ChunkSize = 0

\* The job holds the key of its conversation while it runs.
Locked(m) == saving[messages[m].conv] = NoMessage

\* Mutant: the jobs of a busy lane start in any order.
NextJobs == {lane[i] : i \in DOMAIN lane}

\* The lane is first in, first out.
HeadJob == IF lane = <<>> THEN {} ELSE {Head(lane)}

\* _process_saved_message_background: the conversation and the message are read,
\* and counted for an assistant's message.
TakeJob ==
  /\ enriching = NoJob
  /\ \E m \in HeadJob :
       LET found == messages[m].conv \in convs /\ messages[m].state = "committed"
           count == Len(Visible(messages[m].conv)) IN
       /\ Locked(m)
       /\ lane' = Only(lane, DOMAIN messages \ {m})
       /\ missed' = IF found THEN missed ELSE missed \cup {m}
       /\ enriching' =
            CASE found /\ messages[m].role = "You" ->
                   Job(m, "classify", 0)
              [] found /\ messages[m].role = "Aura" /\ Due(count) ->
                   Job(m, "read", count)
              [] OTHER -> NoJob
  /\ UNCHANGED <<convs, savedVars, learntVars>>

\* classify_memory_events has its answer (nothing when the text is no candidate or
\* the model fails), apply_fact_events, the commit.
LearnFacts ==
  /\ enriching.step = "classify"
  /\ \E events \in Extractions \cup {<<>>} :
       facts' = ApplyEvents(facts, Valid(events), enriching.of)
  /\ enriching' = NoJob
  /\ UNCHANGED <<convs, savedVars, lane, chunks, summary, missed>>

\* The recent messages: a chunk's below the threshold, a summary's above it.
ReadRecent ==
  /\ enriching.step = "read"
  /\ LET limit == IF enriching.count <= Threshold THEN ChunkSize ELSE Recent IN
     enriching' = [enriching EXCEPT !.step = "store",
                     !.read = Newest(Visible(messages[enriching.of].conv), limit)]
  /\ UNCHANGED <<convs, savedVars, lane, learntVars, missed>>

WantsSummary ==
  enriching.count > Threshold /\ enriching.count % Threshold = 0

WantsChunk ==
  /\ enriching.count % ChunkSize = 0 /\ Len(enriching.read) >= 2
  /\ enriching.count > Threshold => messages[Last(enriching.read)].role = "Aura"

\* The answers of the language model and of the embedding, which may fail, and the
\* commit; without its conversation it commits nothing.
StoreMemory ==
  LET c == messages[enriching.of].conv
      window == Newest(enriching.read, ChunkSize) IN
  /\ enriching.step = "store"
  /\ \E embedded \in BOOLEAN :
       chunks' = IF c \in convs /\ embedded /\ WantsChunk
                 THEN chunks \cup {[conv |-> c, first |-> window[1], last |-> Last(window)]}
                 ELSE chunks
  /\ summary' = IF c \in convs /\ WantsSummary
                THEN [summary EXCEPT ![c] = enriching.read] ELSE summary
  /\ enriching' = NoJob
  /\ UNCHANGED <<convs, savedVars, lane, facts, missed>>

-----------------------------------------------------------------------------
MemoryNext ==
  \/ \E c \in Convs, role \in Roles : SaveCommit(c, role)
  \/ \E c \in Convs : SaveEnqueue(c)
  \/ \E c \in Convs, role \in Roles : HttpFlush(c, role)
  \/ \E m \in DOMAIN messages : HttpEnd(m)
  \/ \E c \in Convs : DeleteConversation(c)
  \/ Forget
  \/ TakeJob
  \/ LearnFacts
  \/ ReadRecent
  \/ StoreMemory

MemorySpec == MemoryInit /\ [][MemoryNext]_memoryVars

-----------------------------------------------------------------------------
(* Properties *)

\* What is stored refers to messages of its own conversation.
MemoryTypeOK ==
  /\ convs \subseteq Convs
  /\ messages \in Seq([conv : Convs, role : Roles, path : {"voice", "http"},
                      state : {"flushed", "committed", "gone"}])
  /\ saving \in [Convs -> DOMAIN messages \cup {NoMessage}]
  /\ lane \in Seq(DOMAIN messages) /\ missed \subseteq DOMAIN messages
  /\ enriching.of \in DOMAIN messages \cup {NoMessage}
  /\ enriching.step \in {"none", "classify", "read", "store"}
  /\ \A f \in facts : f.active \in BOOLEAN /\ f.source \in DOMAIN messages
  /\ \A k \in chunks : k.conv \in convs /\ {k.first, k.last} \subseteq ToSet(Visible(k.conv))
  /\ \A c \in Convs : ToSet(summary[c]) \subseteq ToSet(Visible(c))

\* A value of a single-valued key leaves no other active under its type, whatever
\* is retracted, repeated or deleted by the user in between (memory.py:786-828).
OneActivePerType ==
  \A f, g \in facts :
    /\ f.active /\ g.active /\ f.key \in SingleKeys
    /\ f.type = g.type /\ f.key = g.key
    => f = g

\* Of what the user said in one conversation by voice, the newest statement about
\* a single-valued key is the one remembered: the jobs that read the messages run
\* in the order in which the messages were saved (memory.py:1096-1102, task_queue.py:89-98).
NewestWins ==
  \A f, g \in facts :
    /\ f.active /\ f.key \in SingleKeys
    /\ f.type = g.type /\ f.key = g.key
    /\ messages[f.source].conv = messages[g.source].conv
    /\ messages[f.source].path = "voice" /\ messages[g.source].path = "voice"
    => f.source >= g.source

\* One value of a single-valued key is active under each type, and it is the one the
\* user gave last (memory.py:786-828, task_queue.py:89-98).
FactsCurrent == OneActivePerType /\ NewestWins

\* The chunks of a conversation that only voice sessions write to tile it: they
\* do not overlap, whatever is saved while a job counts, reads and waits for the
\* embedding (memory.py:1028-1064; the key is held for the whole job).
ChunksTile ==
  \A k \in chunks : k.conv \notin HttpConvs =>
    \E i \in DOMAIN messages :
      LET ids == Visible(k.conv) IN
      /\ i * ChunkSize <= Len(ids)
      /\ k.first = ids[(i - 1) * ChunkSize + 1] /\ k.last = ids[i * ChunkSize]

\* The job of a message that a voice session saved finds it, unless it has been
\* deleted (memory.py:1092-1102).  The history API gives no such promise: its job
\* is enqueued before the commit (history.py:91-92).
JobFindsMessage ==
  \A m \in missed : messages[m].path = "voice" => messages[m].state = "gone"

\* "Single-value keys overwrite previous values." (prompts/memory_prompt.txt:24)
SingleValued ==
  \A f, g \in facts :
    f.active /\ g.active /\ f.key \in SingleKeys /\ f.key = g.key => f = g
=============================================================================
