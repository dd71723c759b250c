----------------------------- MODULE RagCorpus -----------------------------
(***************************************************************************)
(* services/rag.py: one user's documents and the caches in front of them.   *)
(* Ingestion and deletion commit to the database and then bump the corpus   *)
(* version.  A search is keyed by the version at its start; searches with   *)
(* one key share a task and leave their result in a cache.  Whether any     *)
(* document is ready is cached too, with the version at the time of writing.*)
(*                                                                          *)
(* One query text: every ready document matches it.  A database statement   *)
(* is one action and so is the code between two awaits.                     *)
(***************************************************************************)
EXTENDS Integers, FiniteSets

CONSTANTS
  Files,     \* documents, each uploaded at most once
  Requests,  \* searches of a voice turn, each made at most once per process
  Checks,    \* ready-corpus checks and session loads
  NoTask     \* no task in the in-flight table

ASSUME CorpusAssumption ==
  IsFiniteSet(Files) /\ NoTask \notin Requests

\* Each document changes the corpus when it is ready and when it is deleted.
Versions == 0..(2 * Cardinality(Files))

VARIABLES
  row,       \* RagFile.status of each document, "absent" without a row
  job,       \* process_rag_file of each document
  deleting,  \* delete_rag_file_record of each document
  version,   \* _rag_corpus_versions
  ready,     \* _rag_ready_corpus_cache: a set of at most one entry
  check,     \* user_has_ready_rag_corpus and load_session_bundle calls
  cache,     \* _rag_result_cache: a set of at most one result per version
  inflight,  \* _rag_result_inflight, by version
  task,      \* the shared tasks, named by the request that created them
  request    \* retrieve_rag_chunks calls

corpusVars == <<row, job, deleting, version, ready, check, cache, inflight, task, request>>
documents == <<row, job, deleting>>
searches == <<inflight, task, request>>

Status == [version : Versions, value : BOOLEAN]
IdleTask == [state |-> "none", key |-> 0, left |-> {}, found |-> {}]
Ended == {"done", "failed", "cancelled"}

CorpusInit ==
  /\ row = [f \in Files |-> "absent"]
  /\ job = [f \in Files |-> "none"]
  /\ deleting = [f \in Files |-> "no"]
  /\ version = 0
  /\ ready = {}
  /\ check = [c \in Checks |-> [state |-> "idle", value |-> FALSE]]
  /\ cache = [v \in Versions |-> {}]
  /\ inflight = [v \in Versions |-> NoTask]
  /\ task = [t \in Requests |-> IdleTask]
  /\ request = [r \in Requests |-> [state |-> "idle", on |-> NoTask]]

\* What a statement that joins RagFile.status = "ready" sees.
ReadyFiles == {f \in Files : row[f] = "ready"}

-----------------------------------------------------------------------------
(* Documents *)

\* upload_file, add_link: the row is committed.
Upload(f) ==
  /\ row[f] = "absent" /\ job[f] = "none" /\ deleting[f] = "no"
  /\ row' = [row EXCEPT ![f] = "processing"]
  /\ job' = [job EXCEPT ![f] = "posted"]
  /\ UNCHANGED <<deleting, version, ready, check, cache, searches>>

\* The row is refreshed and the job enqueued; the answer of enqueue is not looked at.
\* A refresh that fails, as it must if the row has been deleted, is the end.
Submit(f) ==
  /\ job[f] = "posted"
  /\ \E outcome \in {"queued", "rejected", "ended"} :
       /\ row[f] = "absent" => outcome = "ended"
       /\ job' = [job EXCEPT ![f] = outcome]
  /\ UNCHANGED <<row, deleting, version, ready, check, cache, searches>>

\* process_rag_file reads its row.
IngestStart(f) ==
  /\ job[f] = "queued"
  /\ job' = [job EXCEPT ![f] = IF row[f] = "absent" THEN "ended" ELSE "running"]
  /\ UNCHANGED <<row, deleting, version, ready, check, cache, searches>>

\* The commit that makes the document ready; a row deleted meanwhile cannot be
\* updated, and the job raises.
IngestCommit(f) ==
  /\ job[f] = "running"
  /\ IF row[f] = "absent"
     THEN job' = [job EXCEPT ![f] = "ended"] /\ UNCHANGED row
     ELSE job' = [job EXCEPT ![f] = "committed"] /\ row' = [row EXCEPT ![f] = "ready"]
  /\ UNCHANGED <<deleting, version, ready, check, cache, searches>>

\* The extraction fails; or the database does, and the commit of the failure with
\* it.
IngestFail(f) ==
  /\ job[f] = "running"
  /\ job' = [job EXCEPT ![f] = "ended"]
  /\ \/ row' = [row EXCEPT ![f] = IF @ = "absent" THEN @ ELSE "failed"]
     \/ UNCHANGED row
  /\ UNCHANGED <<deleting, version, ready, check, cache, searches>>

\* bump_rag_corpus_version.
Bump ==
  /\ version' = version + 1
  /\ ready' = {}
  /\ cache' = [v \in Versions |-> {}]

IngestBump(f) ==
  /\ job[f] = "committed"
  /\ job' = [job EXCEPT ![f] = "ended"]
  /\ Bump
  /\ UNCHANGED <<row, deleting, check, searches>>

DeleteCommit(f) ==
  /\ row[f] # "absent"
  /\ row' = [row EXCEPT ![f] = "absent"]
  /\ deleting' = [deleting EXCEPT ![f] = "committed"]
  /\ UNCHANGED <<job, version, ready, check, cache, searches>>

DeleteBump(f) ==
  /\ deleting[f] = "committed"
  /\ deleting' = [deleting EXCEPT ![f] = "ended"]
  /\ Bump
  /\ UNCHANGED <<row, job, check, searches>>

\* The process dies and starts again: the caches, the version, what was queued and
\* what was running are gone.
Restart ==
  /\ job' = [f \in Files |->
               IF job[f] \in {"none", "rejected"} THEN job[f] ELSE "ended"]
  /\ deleting' = [f \in Files |-> IF deleting[f] = "no" THEN "no" ELSE "ended"]
  /\ version' = 0 /\ ready' = {}
  /\ check' = [c \in Checks |-> [state |-> "idle", value |-> FALSE]]
  /\ cache' = [v \in Versions |-> {}]
  /\ inflight' = [v \in Versions |-> NoTask]
  /\ task' = [t \in Requests |-> IdleTask]
  /\ request' = [r \in Requests |-> [state |-> "idle", on |-> NoTask]]
  /\ UNCHANGED row

-----------------------------------------------------------------------------
(* Is any document ready? *)

\* user_has_ready_rag_corpus: an entry of this version answers at once.
CheckHit(c) ==
  /\ check[c].state = "idle"
  /\ \E entry \in ready :
       /\ entry.version = version
       /\ check' = [check EXCEPT ![c].value = entry.value]
  /\ UNCHANGED <<documents, version, ready, cache, searches>>

\* The query, of a check that found no entry (or one that expired) and of
\* load_session_bundle.
CheckRead(c) ==
  /\ check[c].state = "idle"
  /\ check' = [check EXCEPT ![c] = [state |-> "read", value |-> ReadyFiles # {}]]
  /\ UNCHANGED <<documents, version, ready, cache, searches>>

\* prime_rag_corpus_status, after the session has been given back.
CheckPrime(c) ==
  /\ check[c].state = "read"
  /\ check' = [check EXCEPT ![c].state = "idle"]
  /\ ready' = {[version |-> version, value |-> check[c].value]}
  /\ UNCHANGED <<documents, version, cache, searches>>

\* The caller's timeout ends the check first.
CheckAbandon(c) ==
  /\ check[c].state = "read"
  /\ check' = [check EXCEPT ![c].state = "idle"]
  /\ UNCHANGED <<documents, version, ready, cache, searches>>

-----------------------------------------------------------------------------
(* retrieve_rag_chunks *)

Request(r, state, on) == request' = [request EXCEPT ![r] = [state |-> state, on |-> on]]

SearchHit(r) ==
  /\ request[r].state = "idle" /\ cache[version] # {}
  /\ Request(r, "answered", NoTask)
  /\ UNCHANGED <<documents, version, ready, check, cache, inflight, task>>

SearchJoin(r) ==
  /\ request[r].state = "idle" /\ cache[version] = {}
  /\ inflight[version] # NoTask
  /\ Request(r, "waiting", inflight[version])
  /\ UNCHANGED <<documents, version, ready, check, cache, inflight, task>>

SearchStart(r) ==
  /\ request[r].state = "idle" /\ cache[version] = {}
  /\ inflight[version] = NoTask
  /\ Request(r, "waiting", r)
  /\ task' = [task EXCEPT ![r] = [state |-> "running", key |-> version,
                                  left |-> {"text", "vector"}, found |-> {}]]
  /\ inflight' = [inflight EXCEPT ![version] = r]
  /\ UNCHANGED <<documents, version, ready, check, cache>>

\* _retrieve_rag_chunks_uncached: the two statements run in sessions of their
\* own; without an embedding the vector search finds nothing.
TaskRead(t) ==
  /\ task[t].state = "running"
  /\ \E kind \in task[t].left :
       \E found \in {ReadyFiles} \cup (IF kind = "vector" THEN {{}} ELSE {}) :
         task' = [task EXCEPT ![t].left = @ \ {kind}, ![t].found = @ \cup found]
  /\ UNCHANGED <<documents, version, ready, check, cache, inflight, request>>

\* Mutant: the task swallows its cancellation.
TaskEndUncancelled(t) ==
  /\ task[t].state = "running"
  /\ task' = [task EXCEPT ![t].state = IF task[t].left = {} THEN "done" ELSE "failed"]
  /\ UNCHANGED <<documents, version, ready, check, cache, inflight, request>>

\* The task has its rows, a statement fails, or its cancellation arrives.
TaskEnd(t) ==
  /\ \/ /\ task[t].state = "running"
        /\ task' = [task EXCEPT ![t].state = IF task[t].left = {} THEN "done" ELSE "failed"]
     \/ /\ task[t].state = "cancelling"
        /\ task' = [task EXCEPT ![t].state = "cancelled"]
  /\ UNCHANGED <<documents, version, ready, check, cache, inflight, request>>

\* A waiter is superseded or times out: awaiting the task, its cancellation
\* cancels the task for every waiter.
CancelWaiter(r) ==
  /\ request[r].state = "waiting" /\ task[request[r].on].state = "running"
  /\ task' = [task EXCEPT ![request[r].on].state = "cancelling"]
  /\ UNCHANGED <<documents, version, ready, check, cache, inflight, request>>

\* Mutant: the key is computed where it is used, after the wait.
KeyNow(t) == version

Key(t) == task[t].key

\* The finally clause: the task leaves the table, if it is still there.
Pop(t) ==
  IF inflight[task[t].key] = t
  THEN [inflight EXCEPT ![task[t].key] = NoTask] ELSE inflight

\* A waiter resumes with the outcome of the task.
Resume(r) ==
  /\ request[r].state = "waiting"
  /\ LET t == request[r].on IN
     /\ task[t].state \in Ended
     /\ inflight' = Pop(t)
     /\ cache' = IF task[t].state = "done"
                 THEN [cache EXCEPT ![Key(t)] = {task[t].found}] ELSE cache
     /\ Request(r, IF task[t].state = "done" THEN "answered" ELSE task[t].state, t)
  /\ UNCHANGED <<documents, version, ready, check, task>>

\* The time to live, or the least recently used entry of a full cache.
Expire ==
  /\ \/ ready # {} /\ ready' = {} /\ UNCHANGED cache
     \/ /\ \E v \in Versions : cache[v] # {} /\ cache' = [cache EXCEPT ![v] = {}]
        /\ UNCHANGED ready
  /\ UNCHANGED <<documents, version, check, searches>>

-----------------------------------------------------------------------------
Document(f) ==
  \/ Upload(f) \/ Submit(f) \/ IngestStart(f) \/ IngestCommit(f) \/ IngestFail(f) \/ IngestBump(f)
  \/ DeleteCommit(f) \/ DeleteBump(f)

Check(c) == CheckHit(c) \/ CheckRead(c) \/ CheckPrime(c) \/ CheckAbandon(c)

Search(r) ==
  \/ SearchHit(r) \/ SearchJoin(r) \/ SearchStart(r)
  \/ TaskRead(r) \/ TaskEnd(r) \/ CancelWaiter(r) \/ Resume(r)

CorpusNext ==
  \/ \E f \in Files : Document(f)
  \/ \E c \in Checks : Check(c)
  \/ \E r \in Requests : Search(r)
  \/ Expire
  \/ Restart

CorpusSpec == CorpusInit /\ [][CorpusNext]_corpusVars

\* Database statements end, by their timeouts, and so do the waits on them.
CorpusFairness == \A r \in Requests : WF_corpusVars(TaskEnd(r)) /\ WF_corpusVars(Resume(r))

CorpusFairSpec == CorpusSpec /\ CorpusFairness

-----------------------------------------------------------------------------
(* Properties *)

CorpusTypeOK ==
  /\ row \in [Files -> {"absent", "processing", "ready", "failed"}]
  /\ job \in [Files -> {"none", "posted", "queued", "rejected", "running", "committed", "ended"}]
  /\ deleting \in [Files -> {"no", "committed", "ended"}]
  /\ version \in Versions
  /\ ready \subseteq Status
  /\ check \in [Checks -> [state : {"idle", "read"}, value : BOOLEAN]]
  /\ cache \in [Versions -> SUBSET SUBSET Files]
  /\ inflight \in [Versions -> Requests \cup {NoTask}]
  /\ task \in [Requests -> [state : {"none", "running", "cancelling"} \cup Ended,
                            key : Versions, left : SUBSET {"text", "vector"},
                            found : SUBSET Files]]
  /\ request \in [Requests -> [state : {"idle", "waiting", "answered"} \cup Ended,
                               on : Requests \cup {NoTask}]]

\* Between its commit and its bump a change is not announced yet.
Announced == \A f \in Files : job[f] # "committed" /\ deleting[f] # "committed"

\* A search answered from the cache is answered as the database would: no
\* interleaving of commits, bumps, the two statements of a search and late
\* waiters leaves a result of an older corpus under the present version
\* (rag.py:1020-1025, 1051).
ResultFresh ==
  Announced => cache[version] \subseteq {ReadyFiles}

\* A search that has ended, however it ended, is in the in-flight table only
\* until the waiters it still has resume: none can join a dead task for ever.
NoDeadTask ==
  \A v \in Versions :
    inflight[v] # NoTask /\ task[inflight[v]].state \in Ended =>
      \E r \in Requests : request[r].state = "waiting" /\ request[r].on = inflight[v]

\* The caches in front of the searches are sound: what they answer is current, and
\* what they join is alive (rag.py:1018-1055).
SearchesSound == ResultFresh /\ NoDeadTask

\* Every waiter of a shared search gets an outcome, the cancelled ones and
\* those the cancellation takes with them.
WaitersResume ==
  \A r \in Requests : request[r].state = "waiting" ~> request[r].state # "waiting"

\* "cached for 30 seconds, and invalidated after successful ingestion/deletion"
\* (issues.md:98-99): no entry that would answer contradicts the database.
ReadyStatusFresh ==
  Announced => \A entry \in ready :
    entry.version = version => entry.value = (ReadyFiles # {})
=============================================================================
