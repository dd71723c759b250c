---------------------------- MODULE SessionContext ----------------------------
(***************************************************************************)
(* The messages one voice session sends to its language model              *)
(* (main.py, BoundedContextProcessor, services/memory.py).  Four parties    *)
(* write one list between each other's awaits: the session start, which     *)
(* puts what it knows of the conversation there; the hydration task, which  *)
(* reads facts and recent messages from the database and inserts them in    *)
(* front; the retrieval of a turn, whose messages live until the next turn; *)
(* and the aggregators, which append what was said.  Before a request the   *)
(* window drops old turns, never the memory.                                *)
(*                                                                          *)
(* Message contents have unit size, so the limits on messages and on        *)
(* characters are one limit, MaxMessages in the window and MemoryBudget in  *)
(* the memory prompt.  A message is identified by its record, as the code   *)
(* identifies it by id().                                                   *)
(***************************************************************************)
EXTENDS Integers, FiniteSets, FiniteSetsExt, Sequences, SequencesExt, Subsequences

CONSTANTS
  MaxTurns,     \* bound: user turns of the session
  History,      \* the conversation's saved messages when the session starts
  Summarised,   \* the texts of History that its summary quotes
  RecentLimit,  \* RECENT_MESSAGE_LIMIT
  MemoryBudget, \* MEMORY_PROMPT_MAX_TOKENS
  MaxMessages   \* VOICE_CONTEXT_MAX_MESSAGES

ASSUME LimitsOK ==
  /\ MaxTurns \in Nat
  /\ RecentLimit \in Nat
  /\ MemoryBudget \in Nat \ {0}
  /\ MaxMessages \in Nat \ {0, 1}
  /\ History \in Seq([role : {"user", "assistant"}, text : {"old"} \X Nat])

VARIABLES
  messages,   \* context.messages
  protected,  \* the messages whose ids are in BoundedContextProcessor._protected_ids
  dynamic,    \* ContextRetrievalProcessor._dynamic_messages
  known,      \* which of facts and summary the database has for this session
  saved,      \* the conversation's You and Aura messages in the database
  pending,    \* saves of this session in the background queue
  hydration,  \* the hydration task
  recent,     \* the recent messages it has read
  turn,       \* the number of user turns begun
  point,      \* how far the current turn is
  request,    \* the messages of the last request to the model
  said        \* history variable: what the aggregators appended

store == <<known, saved, pending>>
vars == <<messages, protected, dynamic, store, hydration, recent, turn, point,
          request, said>>

Points == {"quiet", "speaking", "asked", "retrieving", "ready", "answering", "ended"}
Roles == {"user", "assistant", "tool", "developer"}

-----------------------------------------------------------------------------
(* Messages *)

Message(src, role, text) == [src |-> src, role |-> role, text |-> text]

\* A message of this session.
Said(role, text) == Message("turn", role, text)

Query(n) == Said("user", <<"turn", n>>)

\* Mutant: the roles of the table reach the model.
StoredUnmapped(role, n) ==
  [role |-> IF role = "user" THEN "You" ELSE "Aura", text |-> <<"turn", n>>]

\* What message_to_llm keeps of a stored message.
Stored(role, n) == [role |-> role, text |-> <<"turn", n>>]

\* What retrieval may add, in its order.
Retrieved == <<"memory", "rag", "web">>

-----------------------------------------------------------------------------
(* build_memory_messages *)

Newest(s, n) == SubSeq(s, Max({1, Len(s) - n + 1}), Len(s))
Oldest(s, n) == SubSeq(s, 1, Min({n, Len(s)}))

\* The elements of s at the indices in I, in order.
Pick(s, I) ==
  LET at == Only([i \in DOMAIN s |-> i], I) IN [i \in DOMAIN at |-> s[at[i]]]

\* A message is skipped when a newer one has its text, or when a developer
\* message that was selected quotes it.
Fresh(conversation, developers) ==
  LET quoted == IF \E i \in DOMAIN developers : developers[i].text[1] = "summary"
                THEN Summarised ELSE {} IN
  {i \in DOMAIN conversation :
     /\ conversation[i].text \notin quoted
     /\ \A j \in DOMAIN conversation :
          j > i => conversation[j].text # conversation[i].text}

\* _budget_memory_messages: the developer messages first, the newest
\* conversation in what is left.
Budgeted(developers, conversation) ==
  LET first == Oldest(developers, MemoryBudget)
      fresh == Fresh(conversation, first)
      room == MemoryBudget - Len(first)
      kept == {i \in fresh : Cardinality({j \in fresh : j > i}) < room} IN
  first \o Pick(conversation, kept)

\* build_memory_messages, for what the bundle has of facts and summary and its
\* recent messages.
Memory(src, has, conversation) ==
  LET developers == Only(<<"facts", "summary">>, has) IN
  Budgeted([i \in DOMAIN developers |-> Message(src, "developer", <<developers[i], 0>>)],
           [i \in DOMAIN conversation |->
              Message(src, conversation[i].role, conversation[i].text)])

-----------------------------------------------------------------------------
(* BoundedContextProcessor.trim *)

Protected(s) == Only(s, protected)
Candidates(s) == Only(s, ToSet(s) \ protected)

\* Each user message starts a group; what precedes the first is one too.
GroupStarts(s) == {i \in DOMAIN s : i = 1 \/ s[i].role = "user"}

\* Mutant: a turn is cut between its messages.
KeptMessages(s, room) == Newest(s, Max({1, room}))

\* The groups that fit in the room, from the newest back to the first that does
\* not; the newest always.
Kept(s, room) ==
  LET fitting == {i \in GroupStarts(s) : Len(s) - i + 1 <= room} IN
  IF s = <<>> THEN s
  ELSE SubSeq(s, Min(fitting \cup {Max(GroupStarts(s))}), Len(s))

Trim(s) ==
  LET selected == Protected(s) \o Kept(Candidates(s), MaxMessages - Len(Protected(s))) IN
  IF Len(selected) = Len(s) THEN s ELSE selected

-----------------------------------------------------------------------------
\* load_session_bundle: the summary, without history reads.
SessionBundle == known \cap {"summary"}

\* hydrate_memory_bundle adds the facts.
HydratedBundle == known

Init ==
  /\ known \in SUBSET {"facts", "summary"}
  /\ History = <<>> => "summary" \notin known
  /\ saved = History
  /\ messages = Memory("start", SessionBundle, <<>>)
  /\ protected = ToSet(messages)
  /\ pending = <<>>
  /\ hydration = "reading"
  /\ recent = <<>>
  /\ dynamic = {} /\ said = <<>> /\ request = <<>>
  /\ turn = 0
  /\ point = "quiet"

Up == point # "ended"

-----------------------------------------------------------------------------
(* install_optional_memory *)

HydrationRead ==
  /\ Up /\ hydration = "reading"
  /\ hydration' = "read"
  /\ recent' = Newest(saved, RecentLimit)
  /\ UNCHANGED <<messages, protected, dynamic, store, turn, point, request, said>>

\* The database failed: the session goes on without.
HydrationFail ==
  /\ Up /\ hydration = "reading"
  /\ hydration' = "failed"
  /\ UNCHANGED <<messages, protected, dynamic, store, recent, turn, point, request, said>>

\* Mutant: looked for when the task starts, before its reads.
HasUserAtStart == FALSE

\* The user has spoken already.
HasUser == \E i \in DOMAIN messages : messages[i].role = "user"

\* Mutant: what is installed later is left to the window.
ProtectNothing(new) == protected' = protected

\* protect_messages
ProtectMessages(new) == protected' = protected \cup ToSet(new)

HydrationInstall ==
  LET new == Memory("hydrated", HydratedBundle, recent) IN
  /\ Up /\ hydration = "read"
  /\ ~HasUser /\ new # <<>>
  /\ hydration' = "installed"
  /\ messages' = new \o messages
  /\ ProtectMessages(new)
  /\ UNCHANGED <<dynamic, store, recent, turn, point, request, said>>

HydrationSkip ==
  /\ Up /\ hydration = "read"
  /\ HasUser \/ Memory("hydrated", HydratedBundle, recent) = <<>>
  /\ hydration' = "skipped"
  /\ UNCHANGED <<messages, protected, dynamic, store, recent, turn, point, request, said>>

-----------------------------------------------------------------------------
(* The turn *)

\* clear_dynamic_context
ClearDynamic(s) == Only(s, ToSet(s) \ dynamic)

\* on_user_turn_started.  A response that is being spoken is interrupted: the
\* aggregator keeps what was heard of it, the text is saved if the model had
\* ended.
StartTurn ==
  /\ Up /\ turn < MaxTurns
  /\ turn' = turn + 1
  /\ point' = "speaking"
  /\ dynamic' = {}
  /\ \E heard, over \in {<<>>, <<Said("assistant", <<"turn", turn>>)>>} :
       /\ point # "answering" => heard = <<>> /\ over = <<>>
       /\ messages' = ClearDynamic(messages) \o heard
       /\ said' = said \o heard
       /\ pending' = IF over = <<>> THEN pending
                     ELSE Append(pending, Stored("assistant", turn))
  /\ UNCHANGED <<protected, known, saved, hydration, recent, request>>

\* The user aggregator appends the query; on_user_turn_stopped has it saved.
UserStopped ==
  /\ point = "speaking"
  /\ point' = "asked"
  /\ messages' = Append(messages, Query(turn))
  /\ said' = Append(said, Query(turn))
  /\ pending' = Append(pending, Stored("user", turn))
  /\ UNCHANGED <<protected, dynamic, known, saved, hydration, recent, turn, request>>

\* Nothing was recognised.
UserSilent ==
  /\ point = "speaking"
  /\ point' = "quiet"
  /\ UNCHANGED <<messages, protected, dynamic, store, hydration, recent, turn, request, said>>

\* ContextRetrievalProcessor.process_frame: the query goes on, or its retrieval
\* begins.
ProcessFrame ==
  /\ point = "asked"
  /\ messages' = ClearDynamic(messages)
  /\ dynamic' = {}
  /\ point' \in {"ready", "retrieving"}
  /\ UNCHANGED <<protected, store, hydration, recent, turn, request, said>>

\* retrieve_and_deliver, or its failure with nothing retrieved.
Deliver ==
  /\ point = "retrieving"
  /\ point' = "ready"
  /\ \E found \in SUBSET ToSet(Retrieved) :
       LET kinds == Only(Retrieved, found)
           new == [i \in DOMAIN kinds |-> Message("dynamic", "developer", <<kinds[i], turn>>)] IN
       /\ messages' = messages \o new
       /\ dynamic' = dynamic \cup ToSet(new)
  /\ UNCHANGED <<protected, store, hydration, recent, turn, request, said>>

\* The frame passes the window and the model reads the context.
Release ==
  /\ point = "ready"
  /\ point' = "answering"
  /\ messages' = Trim(messages)
  /\ request' = messages'
  /\ UNCHANGED <<protected, dynamic, store, hydration, recent, turn, said>>

\* The model calls a tool: the assistant aggregator appends the call with its
\* result and asks again, from below the window.
ToolRound ==
  LET call == <<Said("assistant", <<"call", turn>>), Said("tool", <<"call", turn>>)>> IN
  /\ point = "answering"
  /\ call[1] \notin ToSet(said)
  /\ messages' = messages \o call
  /\ said' = said \o call
  /\ request' = messages'
  /\ UNCHANGED <<protected, dynamic, store, hydration, recent, turn, point>>

\* The response ends: saved when the model ends, appended when it was spoken.
Answer ==
  /\ point = "answering"
  /\ point' = "quiet"
  /\ messages' = Append(messages, Said("assistant", <<"turn", turn>>))
  /\ said' = Append(said, Said("assistant", <<"turn", turn>>))
  /\ pending' = Append(pending, Stored("assistant", turn))
  /\ UNCHANGED <<protected, dynamic, known, saved, hydration, recent, turn, request>>

\* The background queue saves in order (TaskQueue).
Save ==
  /\ pending # <<>>
  /\ saved' = Append(saved, Head(pending))
  /\ pending' = Tail(pending)
  /\ UNCHANGED <<messages, protected, dynamic, known, hydration, recent, turn, point,
                 request, said>>

\* run_bot's finally cancels the hydration.
EndSession ==
  /\ Up
  /\ point' = "ended"
  /\ hydration' = IF hydration \in {"reading", "read"} THEN "cancelled" ELSE hydration
  /\ UNCHANGED <<messages, protected, dynamic, store, recent, turn, request, said>>

Hydrate == HydrationRead \/ HydrationFail \/ HydrationInstall \/ HydrationSkip

Next ==
  \/ Hydrate
  \/ StartTurn \/ UserStopped \/ UserSilent \/ ProcessFrame \/ Deliver
  \/ Release \/ ToolRound \/ Answer
  \/ Save \/ EndSession

Spec == Init /\ [][Next]_vars

-----------------------------------------------------------------------------
(* Properties *)

Sources == {"start", "hydrated", "turn", "dynamic"}
Texts == {"facts", "summary", "old", "turn", "call"} \cup ToSet(Retrieved)
Messages == [src : Sources, role : Roles, text : Texts \X Nat]
Stores == [role : {"user", "assistant"}, text : Texts \X Nat]

TypeOK ==
  /\ messages \in Seq(Messages) /\ request \in Seq(Messages) /\ said \in Seq(Messages)
  /\ protected \subseteq Messages
  /\ dynamic \subseteq Messages
  /\ known \subseteq {"facts", "summary"}
  /\ saved \in Seq(Stores) /\ pending \in Seq(Stores) /\ recent \in Seq(Stores)
  /\ hydration \in {"reading", "read", "installed", "skipped", "failed", "cancelled"}
  /\ turn \in 0..MaxTurns
  /\ point \in Points

\* The memory is a block in front of the conversation, wherever hydration lands
\* between two turns and whatever the window has dropped since; and it never repeats
\* a message of the running session, although hydration reads the table that the
\* session's own messages are saved to (main.py:155-172).
MemoryInFront ==
  /\ messages = Protected(messages) \o Candidates(messages)
  /\ \A m \in protected : m.text[1] # "turn"

\* What is read of the memory at one time tells nothing twice and keeps its budget:
\* each text once, no message that its summary quotes (services/memory.py:372-424).
MemoryBudgeted ==
  /\ \A i, j \in {i \in DOMAIN messages : messages[i] \in protected} :
       i # j /\ messages[i].src = messages[j].src => messages[i].text # messages[j].text
  /\ \A m, n \in protected :
       m.src = n.src /\ m.text[1] = "summary" /\ n.role # "developer" => n.text \notin Summarised
  /\ \A src \in {"start", "hydrated"} :
       Cardinality({m \in protected : m.src = src}) <= MemoryBudget

MemorySound == MemoryInFront /\ MemoryBudgeted

\* What the model sees of the session is its newest part without a hole: the
\* window drops whole turns from the old end only, and never a tool call without
\* its result (processors.py:489-535).
NoHole ==
  LET rest == Only(messages, {m \in ToSet(messages) : m.src = "turn"}) IN
  /\ IsSuffix(rest, said)
  /\ rest # said => rest # <<>> /\ rest[1].role = "user"
  /\ \A i \in DOMAIN messages : messages[i].role = "tool" =>
       \E j \in 1..(i - 1) : messages[j].role = "assistant" /\ messages[j].text = messages[i].text

\* Everything the session has been given of the conversation's memory: what it
\* started with and, once hydration has installed it, the facts and the recent
\* messages that were read.
WholeMemory ==
  ToSet(Memory("start", SessionBundle, <<>>)) \cup
  (IF hydration = "installed" THEN ToSet(Memory("hydrated", HydratedBundle, recent)) ELSE {})

\* A request has the query it answers, everything retrieved for that query and
\* all the memory, the hydrated facts and messages with it, however many turns the
\* window has dropped since; and nothing retrieved for another query
\* (main.py:155-172, processors.py:489-535).
RequestComplete ==
  point = "answering" =>
    /\ Query(turn) \in ToSet(request)
    /\ dynamic \subseteq ToSet(request)
    /\ \A m \in ToSet(request) : m.src = "dynamic" => m.text[2] = turn
    /\ WholeMemory \subseteq ToSet(request)

\* The window keeps its limit: a request is longer only if one turn is all it has left
\* of the conversation, or if it has a tool's result, which joins below the window
\* (processors.py:489-535).
RequestBounded ==
  point = "answering" /\ Said("assistant", <<"call", turn>>) \notin ToSet(said) =>
    \/ Len(request) <= MaxMessages
    \/ \A i \in 2..Len(Candidates(request)) : Candidates(request)[i].role # "user"

RequestSound == RequestComplete /\ RequestBounded

\* _budget_memory_messages: "Deduplicate and fit memory under one approximate
\* token budget" (services/memory.py:376).  Read of a session's whole memory: no
\* block of it is in the context twice.
MemoryOnce ==
  \A i, j \in DOMAIN messages :
    i # j /\ messages[i] \in protected /\ messages[j] \in protected =>
      messages[i].text # messages[j].text
=============================================================================
