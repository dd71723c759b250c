# A verification project for the realtime voice assistant

The repository (`src/backend`, Python on pipecat and FastAPI; `src/frontend`,
React) is a voice assistant. A session is a chain of frame processors from the
microphone to the loudspeaker. Beside it run retrieval tasks, a background queue
that stores what was said, a document corpus with caches in front of it, and an
HTTP API. This directory holds TLA+ modules of the parts whose correctness
depends on interleaving, cancellation and order, TLC configurations that check
them, and TLAPS proofs of what matters most.

Paths below are relative to `src/backend` unless they start with `src/`.

## 1. The system

### Components, their state and operations

| Component | Source | State | Operations |
|---|---|---|---|
| Background task queue | `core/task_queue.py` | two `asyncio.Queue`s (persistence, enrichment), one lock per key, worker tasks, `_is_running` | `start`, `stop`, `enqueue`, worker loop, enrichment loop |
| Realtime gate | `core/realtime_gate.py` | set of active turn keys, idle event | `begin`, `end`, `wait_until_idle` |
| Turn state | `core/processors.py` 60-385, 1378-1390 | turn id and token, open/active/first-text/first-audio flags | five boundary processors, one cleanup processor |
| Context retrieval | `core/processors.py` 869-1375 | generation, active task, web call id, filler tasks, dynamic messages | `process_frame`, `_retrieve_and_push`, `start_user_turn`, `cleanup` |
| Tool routing, tool filler | `core/processors.py` 552-697, 750-866 | issue workflow flag, active calls, filler task | `route`, `process_frame` |
| Bounded context, conversation memory | `core/processors.py` 465-550, 699-748 | protected messages, assistant chunks | `trim`, `process_frame` |
| Leading silence trimmer | `core/processors.py` 389-467 | PCM buffer per speech context | `_trim_frame` |
| Document corpus | `services/rag.py`, `api/rag_files.py`, `core/storage.py` | rows and chunks, objects in the store, corpus version, ready-corpus cache, result cache, in-flight searches | upload, ingest, delete, retrieve |
| Memory service | `services/memory.py`, `api/history.py`, `api/memories.py` | messages, facts, summaries, memory chunks, embedding cache and in-flight table | save message, background processing, embed, session bundle, delete |
| Session lifecycle | `main.py`, `core/voice_services.py` | the tasks a session starts, its lease | `bot`, `run_bot`, lifespan |
| Voice admission | `core/admission.py` | active count, limit | `try_acquire`, `release`, middleware look |
| STT reconnection | `providers/stt/deepgram_stt.py` | socket, media buffer, two recovery tasks | `run_stt`, `_flush_media_buffer`, `_request_reconnect`, keepalive |
| LLM providers | `providers/llm/*` | stream deadlines, text filter | `bounded_openai_stream` |
| Tools | `tools/*` | rows of `Issue` | `raise_issue`, `tavily_search` |
| HTTP API | `api/*` | none of its own | single-transaction handlers |
| Frontend | `src/frontend/src` | connection and transcript state | event handlers |

`PROJECT.json` lists every component with its status.

### How they interact

* Microphone frames pass STT, the user aggregator and the turn boundary. The
  boundary begins a turn in the **realtime gate**; the first audible speech, an
  interruption or the end of the session ends it.
* The context frame of a turn passes **context retrieval**, which may hold it
  back while memory, documents and the web are searched, then tool routing and
  the context window, then the LLM, then the TTS.
* Document searches of all sessions go through the **corpus** caches; ingestion
  and deletion, which run in HTTP handlers and the **task queue**, invalidate
  them.
* Messages are saved by persistence jobs of the queue, keyed by conversation.
  A saved message submits an enrichment job. Enrichment waits for the gate.
* `main.py`'s lifespan starts the queue and stops it.

All of this is one asyncio event loop: an interleaving happens only at an
`await` that suspends. The modules take one action from one suspension to the
next, whatever calls lie between.

### What is hard here

* Two workers and a third loop share locks by key. Cancellation may strike at
  each of three awaits, each with its own cleanup path (queue).
* Five processors look at the same turn state at different times, while frames
  of the turn before are still under way (turn state and gate).
* A retrieval is superseded by the next query, a new user turn or cleanup. It
  races its deadline, its fillers' timers and the corpus check (retrieval).
* Values are computed before an await and written after it (result cache, ready
  status). One task is shared by several waiters, any of whom may be cancelled.
* A document's row, its object and its job commit, fail and die one by one, and a
  deletion may come between any two of them.
* A job is enqueued before the message it is about is committed, and counts
  messages that are still arriving (message memory).
* Two tasks reconnect one socket while audio keeps coming, and two buffers, the
  library's and this program's, hold parts of one utterance (STT).
* A start creates tasks before anything would stop them, and a lease must come
  back from wherever it fails (sessions).
* A tool call, its filler, its timeout and the model's text run side by side, and
  an interruption overtakes them (tool calls).

### What makes each component correct

* Queue: one job per key at a time, in order of acceptance per lane. Counts that
  agree with the jobs, so that `join()` means what it says. A stop that loses
  nothing it owes. Persistence that never waits for voice.
* Gate and turn state: no turn that is replaced and no session that ends leaves its
  key behind (but one whose barge-in is announced before it interrupts); old speech
  never ends a newer turn; every turn ends.
* Retrieval: frames in order and at most once; each query reaches the LLM with
  its own findings; the client is told the end of each web call; no filler
  talks into the answer.
* Corpus: caches agree with the database; no waiter is left waiting.
* Documents: a row never points to an object that is not there; a confirmed
  deletion leaves nothing behind; processing ends unless something broke.
* Embeddings: one provider call per text; cancelling one caller harms no other.
* Memory: a saved message is processed once, its facts last. One active value
  per single-valued key; summaries and windows cover the conversation.
* Context: memory in front and once, whole turns only, each request complete.
* Routing: a raised complaint is not raised again by a yes to something else.
* Tool calls: one filler per turn, none into an answer; one outcome, and a true one.
* Trimmer: exactly the preroll, however speech is cut into frames.
* LLM request: its deadlines hold through creation, retry and stream.
* Sessions: never more than the limit; each lease returned once; no task outlives a
  session that came to run.
* STT: audio heard in order, none lost but for age and room, a lost socket replaced.

## 2. The modules

| Module | Models | Composed of |
|---|---|---|
| `RealtimeGate` | the gate's three operations | |
| `TaskQueue` | the queue, its workers, `stop()`, the gate | extends `RealtimeGate`; instantiates `SerialExecutor` |
| `SerialExecutor` | what the queue promises: jobs accepted, run one per key and in order, drained | abstract specification |
| `TurnGate` | turn state, boundaries, cleanup, pipeline queues | extends `RealtimeGate` |
| `ContextRetrieval` | `ContextRetrievalProcessor` | |
| `RagCorpus` | rows, versions, caches, shared searches | |
| `Ingestion` | rows, objects, upload, job and deletion of each document | instantiates `RagCorpus` |
| `EmbeddingCache` | `embed_text`, its in-flight table and its cache | |
| `MessageMemory` | saves, the enrichment job, facts, chunks, summary, deletion | |
| `SessionContext` | the messages of a session: start, hydration, retrieval, window, saves | |
| `IssueRouting` | the tools offered per turn, the issue workflow | |
| `ToolCalls` | `raise_issue` and `ToolFillerProcessor` | |
| `VoiceSessions` | admission, start and end of sessions and the tasks they start | |
| `SttReconnect` | the media buffer and the recovery tasks of the recogniser | |
| `SilenceTrimmer` | the trimmer of leading silence | |
| `RequestDeadline` | one LLM request of each provider, its retry and deadlines | |
| `MCTaskQueue`, `MCTurnGate`, `MCContextRetrieval`, `MCSessionContext`, `MCMessageMemory` | instances for TLC | each extends its module |
| `MCVoiceStages` | six parts of a voice session | extends `SilenceTrimmer`, `IssueRouting`, `RequestDeadline`, `VoiceSessions`, `SttReconnect`, `TurnGate` |
| `MCServices` | five parts behind the sessions | extends `RagCorpus`, `Ingestion`, `EmbeddingCache`, `MCMessageMemory`, `ToolCalls` |
| `Subsequences` | the filter of a list, as a function the provers can unfold | used by `SttReconnect`, `MessageMemory`, `SessionContext` |
| `TaskQueueProofs`, `TurnGateProofs`, `ContextRetrievalProofs`, `SessionContextProofs` | theorems | each extends its module and `TLAPS` |
| `CorpusProofs` | theorems about the document corpus | extends `RagCorpus`, `Ingestion` |
| `VoiceStagesProofs` | theorems about the other parts of a voice session and about all six together | extends `MCVoiceStages`, `TurnGateProofs` |
| `ServicesProofs` | theorems about the other parts behind the sessions and about all five together | extends `MCServices`, `CorpusProofs` |
| `SubsequencesProofs` | lemmas about the filter | extends `Subsequences` |

`MCVoiceStages` and `MCServices` put modules that share no state under one TLC
run: the variable `stage` (`part`) says which of them a behaviour exercises, and
the others stand still. The state space is the sum of theirs. Modules that do
interact are composed for real: `TaskQueue` and `TurnGate` contain the gate, and
`Ingestion` implements `RagCorpus`, on whose documents the caches are checked.

### RealtimeGate and TaskQueue

`gateActive` is `_active`; the idle event is `gateActive = {}`, which is what
every call leaves it at. In `TaskQueue`, `pc[t]` is the await a coroutine is
suspended at: `get`, `gate`, `woken` (the event was set, the coroutine has not
run yet, the gate may have closed again), `lock`, `run`. `holder` and `waiters`
are the `asyncio.Lock`s: a release hands the lock to the first in line, and a
cancelled waiter leaves the line. `phase` is where `stop()` is suspended.
`unfinished` is the count that `join()` waits on, kept as the set of jobs so that
an invariant can compare it with their fates. `status`, `order` and `covered`
are history.

A job is a model value submitted at most once. Returning and raising an
Exception are one action, because the queue treats them alike. A job's child is
the enrichment that `save_conversation_message` submits.

### TurnGate

The pipeline is a chain of queues between the boundaries. Frames carry the turn
that caused them; the code does not see that tag, the properties do. `turn` is
`TurnLatencyState` without its timestamps. An interruption is a wave that
empties the queues from the LLM to the TTS. The LLM, the TTS, the user aggregator
and the client are outside `src/`: the LLM may end a response without text or
call one tool, the TTS may fail without audio. `StartOrders` says in which orders
a barge-in's two frames may reach the turn boundary: that order is pipecat's, nothing
in `src/` settles it, and the run `voice_stages` and every theorem allow both. A tool's
filler may be spoken at any time while the tool runs, also after `finish_response` has
closed the turn.

### ContextRetrieval

Queries are numbered as asked. `task[q]` is the retrieval task of query q with
the generation it was started in. `dynamic` is what has been put into the shared
context and not taken out, named by the query it was found for. What a search
finds is only whether it finds anything. `Retrieved`, `Failed`, `SearchTaken`,
`CancelDelivered` and `CancelUnstarted` are the ends of `_retrieve_and_push`: results,
deadline, a `CancelledError` nobody in this processor caused, supersession, and
supersession before the task's first step, when asyncio runs no line of its body.

`unstarted` is the retrieval whose task waits for that step. The event loop is first
come, first served and the processor's queue holds one context frame at most, so a
task begins before the processor takes a later frame (`FirstStepsDone`): only a new
user turn, which resets the web call itself, and cleanup can strike so early.

* `CheckWaits`: the ready-corpus check may find its cache cold and suspend.
* `DelayedFillers`: `VOICE_TOOL_FILLER_DELAY_MS` is not 0. The delay may be
  longer or shorter than a route deadline, so their order is free.

### RagCorpus

One user and one query text. Each database statement is an action. The version
is bumped after the commit, in another action. A search's key holds the version
of its start. Searches with the same key share a task, and cancelling a waiter
cancels the task, because nothing shields it (`services/rag.py:1045-1049`).
`Expire` is the passing of a cache's TTL.

A retrieval's two statements see what has been committed when each runs, so a
result may mix two corpora. `Restart` loses caches, versions and whatever was
queued or running. `CheckHit` and `CheckRead` are
`user_has_ready_rag_corpus`; the start of a session primes the same cache.

### Ingestion

`status` and `path` are the committed row, `object` the store. `upload[d]`,
`work[d]` and `removal[d]` are the requests and the job of a document, suspended
between two of their commits, fetches or deletes. A PDF's object is stored before
its row is committed; a link's while its page is ingested, so that the row learns
the path with the outcome: `stored[d]` is the path in the job's memory, `known[d]`
the one the deletion has read. `FailWork` commits the failure with the path.
`BreakWork` is a job that never writes its failure: its commit fails, or what goes
before its `try` does. `RefreshFails` is an upload that has committed its row and
fails to read it back (`api/rag_files.py:191, 223`): the row stays, without a job.
`IngestRestart` may strike anywhere, and nothing looks for what it leaves.

The refinement: `CorpusJob` and `CorpusRemoval` say what `RagCorpus` tells apart.
A removal that has only read its row, an upload without its row, and what of
request and job has failed, are invisible there. The instance has no searches and no
checks, since those act on the documents only by reading them.

### EmbeddingCache

`caller[c]` is one call of `embed_text` with the task it waits for; a task is
named by the call that created it. `LeftTable` is the `finally` clause: a task
that is done leaves the table, if it is still the one there. The cancellation of a
caller ends its wait and not the task, which `shield()` keeps.

### MessageMemory

`messages` are the rows by their id, with the path that saved them; `saving[c]` is
a save between its commit and its `enqueue`, under the conversation's key (which
`TaskQueue` shows to exclude); the history API's flush enqueues first and commits
later. `lane` is the queue's enrichment lane, `enriching` the one job that runs:
counted, read, stored, with an `await` between. Facts have a type, a key, a value
and the message they come from; `Valid` and `Applied` are the filter of the
extraction and `apply_fact_events`, translated statement by statement. What the
language model extracts is a constant, any sequences of `Events`. Row ids stand for
the order by time. `Visible`, `Valid` and `TakeJob` filter with `Only`.

### SessionContext

`messages` is `context.messages`; `protected` are the messages whose ids the
window keeps; `dynamic` are the retrieved ones. `known` says which of facts and
summary the database has. `saved` and `pending` are the message table and the
saves the queue has accepted (`TaskQueue` shows that they run in order).
`HydrationRead` is the database work of `install_optional_memory`, with its
await; `HydrationInstall` and `HydrationSkip` are what follows it. `Release` is
the window with the request behind it, and `Trim`, `Kept` and `Budgeted` are the
code's list algorithms; the comprehensions among them are `Only`. Contents have unit
size, so each pair of limits (messages and characters, messages and tokens) is one
limit.

### IssueRouting

A text is what the router's regular expressions tell apart: it requests an
issue, cancels, continues, prompts, reports success, or nothing of these. A text
that both cancels and requests is a kind of its own, since the code asks for the
cancellation first. `workflow` is the router's flag, `spoken` from `kept` on is
what the window has left. The model answers and calls tools as it likes.

`OfferHasCause` counts a complaint as settled by a success and by the user's
cancellation (`Settles`), the two closings of
`test_issue_success_or_cancellation_closes_workflow` (`tests/test_tool_routing.py:77`).
The code keeps that with two exceptions, which the property names:

* `CancelledThenYes`: a cancellation clears the flag and leaves the context as it is.
  At the next bare yes `_workflow_active` scans the context and finds the cancelled
  request or its prompt: the tool is offered again. The cancellation itself is looked
  at in the user's latest words only (`core/processors.py:632-634`).
* `RestoredThenYes`: a restored conversation that ends with an open complaint stays
  in front for the whole session, because it is protected. While the success that
  settles it is in the window, the scan stops there; once the window (12 messages) has
  dropped it, or after a cancellation, the scan (16) reaches the old complaint, and a
  bare yes is offered the tool again.

### ToolCalls

`tool[c]` is where `raise_issue` is suspended: called, saving, committed. A
timeout, an error or a cancellation may fall in each. `coming` are the frames on
their way to the filler processor, behind the model's text; an interruption
overtakes them. `struck` are the calls it cancels, which may still be running when the
next turn starts: `start_turn` waits for nobody. `timer` is the delayed filler, `active` the calls the processor
counts, `filled` the flag on the turn state that tool and processor share.

### VoiceSessions

`session[s]` is the point `bot()` has reached. `startup[s]` are the four tasks that
run side by side at the start (three constructors in threads and the loader of the
bundle): `gather` raises at the first failure and leaves the others running.
`background[s]` are the warm-up and the hydration, started before the `try` whose
`finally` cancels and awaits them. A request is looked at by the middleware and
acquires its lease later, so several may pass the look.

### SttReconnect

`waiting` is this program's media buffer, with the age of its pieces; `held` is
what pipecat keeps during a reconnect. `keep` and `media` are the two recovery
tasks, `redo` the reconnect that runs and the await it has reached, `parts` the
batch that is being sent. Closing a socket cuts off the sends on it, which is how
a batch that may have been heard stays in the buffer. `heard` counts a piece at
the first time the recogniser has it. `STT_RECONNECT_BUFFER_MAX_BYTES` and the
batch size are counted in pieces.

### SilenceTrimmer

Bytes of a speech are numbered as they arrive. What the processor holds and what
it delivers are runs of them, so the buffer is given by its length and the
delivered audio by its first byte. A frame is given by its number of samples and
the first one above the threshold. `Arrives` caps a speech at `MaxSamples`.

### RequestDeadline

`phase` is the await a request is suspended at: the creation of the stream,
Groq's retry of it, or the stream. `until` is the timeout of that `wait_for`,
`ends` the stream's total deadline. Time counts in the smallest timeout the code
uses, 0.001 s, and a wait that expires does so at its deadline. OpenAI and
Groq raise on a deadline; Google speaks a recovery text and has no deadline once
output has begun.

## 3. The runs

| Run | Bounds | Properties |
|---|---|---|
| `task_queue` | 2 messages of one conversation, their enrichments (one submitted by its job, one by a request), a job without a key; 2 workers; lanes of 2; 1 turn | `KeyExclusive`, `JoinCounts`, `StopDrains`, `ImplementsSerialExecutor`, `PersistenceCompletes`, `EnrichmentCompletes`, `StopReturns` |
| `task_queue_yield` | 2 messages and the enrichment of each | violation of `EnrichmentStartsIdle` |
| `turn_gate_empty` | 2 turns | violation of `GateReleased` |
| `turn_gate_rename` | 2 turns, either order of a barge-in's frames | violation of `CleanupReleases` |
| `retrieval` | 3 queries | `ReleaseOrder`, `WebCallHasTask`, `FillerBeforeAnswer`, `AlwaysAnswered` |
| `retrieval_stale` | 2 queries | violation of `OwnContext` |
| `rag_corpus_status` | 1 document, 1 check | violation of `ReadyStatusFresh` |
| `session_context` | 3 turns on 5 saved messages; 4 recent ones, a budget of 3, a window of 6 | `TypeOK`, `MemorySound`, `NoHole`, `RequestSound` |
| `session_context_memory` | 1 turn | violation of `MemoryOnce` |
| `voice_stages` | see below | `StageTypeOK`; trimmer: `PrerollExact`; routing: `OfferHasCause`; request: `DeadlinesKept`, `ToolsRestored`, `StalledRequestEnds`; sessions: `LeasesCounted`, `OrphansOfFailedStart`; STT: `AudioKept`, `NotStranded`; turn: `OnlyOvertakingStrands`, `OwnSpeechReleases`, `AnsweredTurnReleases` |
| `services` | see below | `ServicesTypeOK`; corpus: `SearchesSound`, `WaitersResume`; documents: `StoreAgrees`, `StuckOnlyByFault`, `ImplementsCorpus`; embeddings: `SharedSafely`; memory: `FactsCurrent`, `ChunksTile`, `JobFindsMessage`; calls: `OutcomeTold`, `FillerInPlace` |
| `memory_overwrite` | as in `services` | violation of `SingleValued` |

Properties that ask the same question of one piece of state are parts of one:
`DeadlinesKept`, for example, is the first output and the total, and `MemorySound`
where the memory is and what it may hold. Where a type
invariant is proved and the type is not in doubt (`TaskQueue`,
`ContextRetrieval`), no run spends itself on it.

Why the bounds are enough:

* Queue: a lock's order shows with one holder and one waiter while a third thread
  comes for it: the enricher has the lock, one worker waits with the first message
  and the other comes with the second. An enrichment that a request submits
  (`api/history.py:91`) reaches the enricher even while `stop()` cancels the workers,
  which is how one is cancelled at the gate. Lanes of two fill up, so rejections
  happen. A gate with one turn opens and closes any number of times.
* Turn: an old turn, the turn that interrupts it and one after it; the inbox
  holds a whole barge-in and its context, in either order of announcement. With
  typed messages and contexts of late fragments, turns are renumbered up to six times.
* Retrieval: an old query being cancelled, one that waits for the check or
  searches, and a new one.
* Session context: with a window of 6 and a memory of 3, a query with three
  retrieved messages exceeds the limit on its own, a turn with a tool call leaves
  no room for the next, and the third turn drops the first. The budget of 3 is
  less than facts, summary and the recent messages that neither the summary quotes
  nor a newer one repeats, so something is left out in each of the three ways.
* Silence trimmer: two contexts, prerolls of 0, 3 (odd) and 4 bytes,
  speeches of up to 6 samples in frames of 1 and 3, hence silence shorter and
  longer than the preroll, cut inside and at the edge of a frame.
* Routing: 5 messages after a restored conversation that ends in the middle of a
  complaint (request and prompt), a scan window of 4: enough for a request, a
  cancellation and a yes, for a success that settles the restored complaint and leaves
  the window, and for one that settles a new complaint while its request is still in
  the transcript. Each exception is needed there.
* Deadlines: first timeouts of 1 to 3 and totals of 1, 3 and 5, so either is the
  longer one; a horizon of 8 lies beyond every retry (at most 2 + 3) and every
  total.
* Sessions: two for one lease, so both can pass the middleware's look; every
  startup task fails, ends or is left behind in every order.
* STT: four pieces of audio, a buffer of two (it drops some), batches of two,
  three broken sockets, so that a replay can fail and fail again.
* Corpus: one document changes the corpus twice (ready, deleted), so a search
  can be overtaken by two versions; two searches share a task or follow one
  another. Checks and searches are exercised apart: they share only the documents.
* Documents: a link and a PDF, whose objects are stored at different times.
* Embeddings: three callers are an owner, one that joins and one that comes when
  the task is done; two texts and a cache of one evict each other.
* Memory: four messages of a voice conversation, chunks and summaries of two, so
  the second chunk can be skewed; one message of the history API; four messages
  in all. The user gives a name, another, and takes the first back; extractions
  include an unsure event, two spellings of the key and two types.
* Calls: two calls that may share a turn or not, two turns, one text.

CHECK_DEADLOCK is off in every run but those of the queue: sessions, requests and
conversations end, and a bounded number of queries, messages, documents and
calls is used up. The queue's coroutines must always be able to go on.

### What the violation runs show

* `task_queue_yield`: `_run_enrichment` waits for the gate once (line 57), then
  queues for the key's lock. A turn that begins meanwhile does not hold the job
  back, against "Run non-urgent memory work only when live voice has yielded"
  (line 51).
* `turn_gate_empty`: the comment at `core/processors.py:381-382` promises that
  empty responses never leave the gate closed. The release it describes needs a
  `TTSStoppedFrame`, and a response without text starts no speech. The gate
  stays closed until the next turn of the user or the end of the session.
* `turn_gate_rename`: `mark_user_started` (`core/processors.py:112-121`) gives the
  turn a new id while the gate holds the key of a typed message's; the interruption
  that comes behind ends the new id, and cleanup too. The old key stays in the gate
  beyond the session, and enrichment waits. `src/issues.md:123-124` says of the gate
  that interruption and cleanup release it. The other order leaves none.
* `retrieval_stale`: `process_frame` clears the context, waits for the corpus
  check, then supersedes the older retrieval. What the older one installs during
  the wait goes to the LLM with the newer query, under "for the current user
  request".
* `rag_corpus_status`: a check that read the database before an ingestion
  committed writes its answer after the bump, under the new version. The user's
  new document is ignored until the TTL passes.
* `session_context_memory`: `run_bot` puts the summary in the context from the
  start bundle (`main.py:144`). The hydrated bundle has it again
  (`services/memory.py:275, 295`) and is put in front (`main.py:171`) without
  taking the first out. Both are protected, so every request carries the summary
  twice, against "Deduplicate and fit memory under one approximate token budget"
  (`services/memory.py:376`).
* `memory_overwrite`: `apply_fact_events` looks for older values of a single-valued
  key among the facts of the new event's own `fact_type` only
  (`services/memory.py:786-797`). A value that the extraction files under another
  type leaves the older one active, against "Single-value keys overwrite previous
  values." (`prompts/memory_prompt.txt:24`). Under one type the promise holds
  (`FactsCurrent`).

Six properties hold with exceptions that their statements name:

* `FillerBeforeAnswer`: when a deadline or a cancellation cuts a document-only
  search off, `_finish_web_tool` returns at once (there is no tool call), the
  frame is released and the filler keeps its timer.
* `OrphansOfFailedStart`: a start that fails leaves the startup tasks that
  `gather` did not wait for, and a failure between the creation of the background
  tasks and the `try` leaves those.
* `OfferHasCause`: a yes after a cancellation, and a complaint left open in restored
  memory (see IssueRouting above).
* `OnlyOvertakingStrands`: a barge-in announced before it interrupts (see
  `turn_gate_rename`).
* `WebCallHasTask`: cleanup before the first step of the search's task. The client is
  leaving then.
* `NotStranded`: after a failed connect, or after the media task lost the replay
  of its own reconnect, only the next piece of audio schedules a recovery.

### Fairness

* Queue: weak fairness of each thread and of `stop()`. The event loop runs every
  ready coroutine, and jobs end because their database and provider calls carry
  timeouts. Nothing makes callers, turns or `start`/`stop` happen. Enrichment and
  `stop()` also need the gate to be idle again and again. `TurnGate`
  discharges this for turns whose answer has begun (`AnsweredTurnReleases`);
  `turn_gate_empty` shows where it fails.
* Turn (in `StageSpec`): weak fairness of the processors, of the LLM and of the
  TTS, each of which answers or fails within its deadline. The user need not speak
  and the session need not end.
* Retrieval: the processor's task runs, the corpus check ends within its 0.1 s,
  every retrieval within its route deadline.
* Request (in `StageSpec`): time passes and a timer that has expired fires.
  Nothing is assumed of the provider.
* Corpus (in `ServicesSpec`): database statements of a search end (statement
  timeout), a resumed waiter runs.

Everything else is safety and needs no fairness.

## 4. The proofs

All theorems hold for every value of the constants that the module's `ASSUME`
admits; nothing else is assumed.

**TaskQueueProofs.** `TypeCorrect`, `Exclusion`, `CountsAreJobs`, `Drained` and
`QueueImplementsExecutor` (`ImplementsSerialExecutor`).
`KeyExclusive` is not inductive. The invariant says in addition that a thread in
`run` with a keyed job is that key's holder, that a waiter's job is `taken`, that
each job in hand belongs to one thread, and which statuses go with which place.
`CountsAreJobs` needs queues without repetitions. `Drained` adds what each phase
of `stop()` has already joined: after the persistence lane, no owed persistence
job is left, and so no owed child can still be submitted. The refinement needs
`Fifo`, which relates what the executor's order says to where the jobs are:
`OrderInv` (a lane's queue is the end of the list of jobs it accepted, and what
comes before has left the queue), `CarriedInv` (a job that has left the queue and
not ended is in a thread's hand, in the enricher's exactly if its lane is
enrichment) and `WaitInv` (the wait list of a key's lock holds the threads
suspended on it, those of one lane in the order in which it accepted their
jobs). `MayBegin` is the consequence that matters: where the code lets a job enter
its body, no job of its key runs and none that its lane accepted earlier waits.
`FullLane` shows that a rejected job really met a lane with `MaxSize` jobs in
line. The assumption `ChildAssumption` says that each job submits a coroutine of
its own, as `save_conversation_message` does.

**TurnGateProofs.** `TurnTypeCorrect`, and `OvertakingAloneStrands`
(`OnlyOvertakingStrands`): in either order of announcement, the gate gains a key that
nobody will give back at one step only, the announcement that overtakes its
interruption (`core/processors.py:115`, which renames the turn without ending its key).
No other method renames a turn whose key is held, since its identity is then open
(`HeldIsOpen`). `SpeechReleasesItsOwn` (`OwnSpeechReleases`) says that a turn's speech
gives back its own key. Both rest on the invariant `OwnInv`: no key in the gate is a
later turn's (`KeysPast`), and while the present turn's key is held all that is
between the LLM and the loudspeaker is of that turn (`KeyOwnsFrames`). What
establishes it is that an interruption has emptied the pipeline before the turn's
context. `FramesReady` finds in front of every context, every end of speech and every
announcement but an overtaking one (`Due`) either an interruption with no context
behind it or a pipeline that is clean already; `SpeechReady` says the same of the
speech that goes on; and `Drained` says how far the interruption's wave has come.
`AnswerKeepsSpeaking` is the part of `AnsweredTurnReleases` that needs no
fairness: an answered turn that holds the gate has not been heard, and text is with
the TTS or the end of a speech is on its way to the boundary that gives the key
back. That the current turn has no key in the gate while an interruption passes is
part of its invariant.

**ContextRetrievalProofs.** `RetrievalTypeCorrect`; `SupersededIsCancelled`
(`RunningIsActive`: only the active retrieval runs uncancelled), with the
strengthening that a cancelling task has an older
generation; `FramesKeepOrder` (`ReleaseOrder`), with the order of all the places
a query can be at: queued frames are in order, the checked query precedes them,
and everything released, cancelled or active precedes both. `WebCallsAreEnded`
(`WebCallHasTask`) needs that a task which has not begun has an open call only while it
runs or after cleanup (`CallUnstarted`), since its cancellation would close nothing. `OwnContextWithoutWait` is a
theorem with a hypothesis: if the corpus check always answers from its cache
(`CheckWaits = FALSE`), `OwnContext` holds, the property that the run
`retrieval_stale` refutes. Its invariant `NothingStale` says that no check waits
and that the dynamic context is empty while a retrieval is active. So the await in
the check is the only cause of what that run shows. `FillersPrecedeAnswer`
(`FillerBeforeAnswer`) is about steps; the invariant `FillerInv` says that a query
with a task has been left behind by the processor and its queue (so `released` can
grow only by its task), that a running or cancelling task's frame is not out, and
that the documents' filler is of a running retrieval or of one cut off.
`NewestIsNotLost` is the part of `AlwaysAnswered` that needs no fairness: the newest
query is queued, being checked, with a retrieval that runs, or out, unless the user
speaks or has left. An interruption, which empties the queue, comes only while the
user speaks, and what another query's route clears is older (`OrderInv`).

**VoiceStagesProofs and ServicesProofs: the wholes.** `StagesImplemented` and
`ServicesImplemented` have every behaviour of the composed specifications, which the
runs `voice_stages` and `services` check, as a behaviour of each part's own. So what is
proved of the parts holds of what those runs check: `StagesTyped` (`StageTypeOK`),
`ServicesTyped` (`ServicesTypeOK`), `StagesSafe` and `ServicesSafe` (their other safety
properties).

**VoiceStagesProofs: trimmer.** `PrerollKept` (`PrerollExact`). What is delivered
depends on what is held, so the invariant adds `BufferIsTail`: until a speech is
audible, the buffer is its last preroll bytes, or all of it. It is stated per
context (`Exact`), since a frame touches one context only.

**VoiceStagesProofs: request.** `DeadlinesHold` (`DeadlinesKept`) and `ToolsComeBack`.
The property bounds the present moment; the invariant must bound the timers:
`CreationWait` says that a creation waits until the limit of its attempt, and
`StreamWait` that a stream which has said nothing waits no longer than that limit
and never beyond its total deadline. The step that needs care is `StreamCreated`,
where `Left` is clamped to the smallest timeout.

**CorpusProofs: searches.** `SearchesAreSound` (`SearchesSound`), for any documents,
searches and checks. `ResultFresh` speaks of the cache; the invariant must speak
of the searches that will write to it: `FoundFresh` says that a search under the
present version, while every change is announced, has read nothing but ready
documents, and all of them once its text statement is over. A change before its
bump makes the premise false, the bump makes the key old; `RowInv` shows that a
document's step between the two changes nothing. That keys never exceed the
version is part of it, or a bump could reach one. `VersionCounts` bounds the
version by the jobs and the deletions that are over, without which the cache's
domain would be left. `TableInv` is why none joins a dead search: a search in the
table is there under its own key only, so the first waiter that resumes takes it
out, and whoever could join it later cannot find it.

**CorpusProofs: ingestion.** `StoreAgreesWithRows` (`StoreAgrees`), `OnlyFaultsStick`
(`StuckOnlyByFault`) and `IngestionImplementsCorpus` (`ImplementsCorpus`). The
invariant `IngestInv` has one part per question and document: `OrderInv` (which
request, job and deletion may be under way together), `ObjectInv` (an object
that exists is known to the row, to the job or to the upload), `OutcomeInv` (a
job that has written its outcome left the row neither in processing nor without
its path) and `RemovalInv` (what a deletion remembers is enough to find the
object). For the refinement, `StepSeen` takes the actions one by one: each is a
step of `RagCorpus` or changes nothing of what that module tells apart.

**VoiceStagesProofs: sessions.** `LeasesKeepCount` (`LeasesCounted`) and
`OnlyFailedStartsLeaveTasks` (`OrphansOfFailedStart`). The counter is the
cardinality of the sessions that hold a lease, so each step needs that it adds or
removes one session; the second theorem needs which tasks may run at which point
of `bot()`.

**VoiceStagesProofs: routing.** `OfferedForACause` (`OfferHasCause`). The property
speaks of the whole transcript, the router of a flag and a suffix. `IssueInv` says
when the flag agrees with the transcript: as of the user's last words `u`, which
the window has kept and behind which are at most a tool's result and an answer
(`LastHeard`). That is also why the scan must reach three messages. `Heard` says that nothing the
user said is behind `u`; `Caused` says why the flag may be set as of `u`: a message
opened the workflow, no success was reported since, and nothing settled it after the
words that left the flag set, where the opening message is one that was said (`Told`)
or one that was restored (`Recalled`). `ScanFinds` says that a yes for which the scan
answers has such a cause, and `CauseKept` that it stays one while nothing that settles
the workflow is said.

**VoiceStagesProofs: STT.** `ReplacementNotStranded` (`NotStranded`), `AudioIsKept`
(`AudioKept`) and `SttTypeCorrect`. `LinkInv` says whose reconnect runs and over
which link, and that `run_stt` sends nothing during a replay. The order of what was
heard is not inductive without the order of everything that will be heard:
`AudioOrder` puts what was heard before the buffer (but for pieces of a batch that
was cut off and may have been heard, which stay in front of it), the piece that is
being sent behind both, and what pipecat holds last. `ReplayInv` says that a
connection nobody works on has an empty buffer, and that the batch is the
beginning of the buffer, so that what the code takes off its front is what was sent
(`BatchIsFirst`).

**ServicesProofs: embeddings.** `EmbeddingsShared` (`SharedSafely`) and
`EmbedTypeCorrect`. `EmbedInv` relates the table, what a call waits for and who
created it by their text; `TaskOfCall` has a running task in the table under its
text, which is why there is one; `TookOut` is why none is left behind.

**ServicesProofs: tool calls.** `CallsToldTruly` (`OutcomeTold`) must also speak of
reports that are still on their way: `OneTold` says that nothing has been told of
an open call, and that all that was told or is coming about an ended one carries
one outcome, which agrees with the row. `FillersInPlace` (`FillerInPlace`) counts the
fillers of the present turn by the flag, with none in later turns.

**ServicesProofs: memory.** `JobsFindTheirMessage`, `FactsStayCurrent`,
`ChunksTileConversation` and `MemoryTypeCorrect`, from `MemoryAssumption` and one
invariant of five parts. `SavedInv`: a row of the voice path is never uncommitted,
and nobody saves under the key of the job that runs. `OrderInv`: the messages of a
voice conversation are in the order of their ids on their whole way, from the facts
learnt through the job and the lane to the save; so a job never brings an older
value back. That `apply_fact_events` keeps one active value, and the newest, through
any number of events is an induction over the events (`RowsCurrent`). `TileInv`:
what a job has counted and read is what is there when it stores, because no message
of its conversation is saved meanwhile, hence its block is the next one.
`SeenInv`: what is stored refers to messages that exist.

**SessionContextProofs.** `SessionTypeCorrect` (`TypeOK`), `MemoryIsSound`
(`MemorySound`), `WindowLeavesNoHole` (`NoHole`) and `RequestsAreSound`
(`RequestSound`), for any number of turns, any limits of window, budget and recent
messages, any saved history and any summary of it. The invariant `Inv` splits the
context into two parts (`Story`): a block of memory, which is exactly what is
protected, and a conversation, of which it keeps four things. Its messages are of
the session or retrieved for the present turn (`Dialogue`). A tool's result has its
call in front of it with no user's words between (`CallsFirst`), so a cut before a
user's words never parts them. What is left of the session is its end, from a user's
words on (`Newer`). And while a turn is being answered its query is the user's last
and what was retrieved stands behind it (`Asks`): that is why the newest group, which
the window keeps whatever its size, has the query and all of its retrieval. `Newer`
also carries the argument for hydration: as long as no user message is in the
context nothing was said at all, so the table it has read holds nothing of this
session (`Unsaid`). `KeptIs`, `CutOwn` and `EndIsSuffix` say what `Min`, `Max`,
`SubSeq` and `IsSuffix` do here.

What one read of the memory contains is a lemma about `Memory` (`MemoryRead`): its
developer messages are the first of facts and summary, behind them come places of the
conversation in order, each of them fresh (`BudgetedIs`), and they are no more than the
room, since of a finite set of places those with fewer than n greater ones are n at most
(`NewestFew`). `Block` says of the memory in the context that each of its reads is
like that (`Sound`), and `Early` why it stays so when the second read joins the first:
as long as hydration has not landed, all memory is of the start. `MemorySound` speaks of
each read by itself; of both, `OnlySummaryTwice` shows that nothing but the summary can
be there twice, so what `session_context_memory` finds is the only repetition. The limit
of the window (`RequestBounded`, in `RequestSound`) is set by a release and passed only
by a tool's result: `KeptFits` says that what the window keeps fits in the room or is
one group. `RequestSound` counts the memory a request must have from what was read of
it, the start's and, once installed, hydration's (`WholeMemory`); that this is exactly
what the window protects is an invariant of its own (`AllProtected`).

**SubsequencesProofs.** What a filter selects, in which order, from where, what one
more element adds, what is left of a concatenation and of what was filtered before,
and that filters agree where their sets do. The library's
induction theorems take an operator and cannot be instantiated, and `SelectSeq` is
defined with one; so `Only` is a recursive function on `0..Len(s)`, and each lemma
is proved by the least number at which it fails (`Least`, from the library's
well-foundedness of the naturals).

**Model-checked only.** Every liveness property, which needs fairness and
ENABLED: `PersistenceCompletes`, `EnrichmentCompletes`, `StopReturns`,
`AlwaysAnswered`, `AnsweredTurnReleases`, `StalledRequestEnds`, `WaitersResume`. Of
`AlwaysAnswered` and `AnsweredTurnReleases` the safety part is proved:
`NewestIsNotLost`, `AnswerKeepsSpeaking`.

## 5. Not modelled, and why

* Timings and logs of `TurnLatencyState`, the latency observer, telemetry and
  logging: they measure.
* Provider factories, configuration parsing, prompts, table definitions and
  migrations: no behaviour beyond construction.
* PDF, HTML, vector and full-text work, password hashing, tokens: libraries. The
  sizes of chunks, the weights of scores and the ranked retrieval of facts and
  memory chunks are computed on strings and vectors, without state.
* The texts of the memory service: candidate patterns, prompts, the parsing of
  the extraction's JSON. Its outcome is the constant `Extractions`.
* The recogniser's base class: its own retrying connection task, the parsing of the
  connect timeout and the reset of its TTFB metric. What the model takes from
  it, pipecat's code not being here: audio that arrives during a reconnect is held
  and replayed after it.
* Connection warm-up of the LLM clients and the filter on streamed text.
* The lifespan's start-up checks, routes, CORS and ICE servers of `main.py`.
* Detection of turns by ONNX models: its verdicts are inputs.
* The frontend's connection and transcript state, which is the browser's.
* The chunks a saved assistant response is put together from.

## 6. What could come next

* Chunking and ranking as pure operators against reference definitions.
* The assistant chunks that an interruption leaves in the buffer
  (`core/processors.py:721`), with the order in which pipecat delivers the
  interruption as a constant.
