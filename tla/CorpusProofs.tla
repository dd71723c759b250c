----------------------------- MODULE CorpusProofs -----------------------------
(***************************************************************************)
(* The document corpus, for any documents, searches and checks.  First the   *)
(* caches in front of the document searches: what is answered from the cache *)
(* is what the database has, and no search is joined that nobody will take   *)
(* out of the table.  Then what the rows, the objects and the requests of a   *)
(* document have to do with each other: that a path has its object, that     *)
(* only a fault leaves a document in processing, that a confirmed deletion   *)
(* is complete, and that all of it is a corpus as the caches know it.        *)
(***************************************************************************)
EXTENDS RagCorpus, Ingestion, FiniteSetTheorems, TLAPS

\* The jobs and the deletions that are over.
JobsOver == {f \in Files : job[f] = "ended"}
RemovalsOver == {f \in Files : deleting[f] = "ended"}

\* Each document bumps the version when its job ends and when its deletion does.
VersionCounts == version <= Cardinality(JobsOver) + Cardinality(RemovalsOver)

\* A job that has not committed has not made its row ready; a deleted row is gone.
RowInv ==
  \A f \in Files :
    /\ job[f] \in {"posted", "queued", "running"} => row[f] \in {"processing", "absent"}
    /\ deleting[f] # "no" => row[f] = "absent"

\* What a search of the present version has read is the corpus, while every change
\* is announced: the text search finds every ready document, the vector search
\* possibly none.
FoundFresh(t) ==
  /\ task[t].key <= version
  /\ task[t].state = "done" => task[t].left = {}
  /\ Announced /\ task[t].key = version /\ task[t].state # "none" =>
       /\ task[t].found \subseteq ReadyFiles
       /\ "text" \notin task[t].left => task[t].found = ReadyFiles

FreshInv == ResultFresh /\ \A t \in Requests : FoundFresh(t)

\* A search in the table is there under its own key and has a waiter; a request that
\* has not begun has no task.
TableInv ==
  /\ \A v \in Versions : inflight[v] # NoTask =>
       /\ task[inflight[v]].key = v /\ task[inflight[v]].state # "none"
       /\ \E r \in Requests : request[r].state = "waiting" /\ request[r].on = inflight[v]
  /\ \A r \in Requests :
       /\ request[r].state = "idle" => task[r].state = "none"
       /\ request[r].state = "waiting" =>
            request[r].on \in Requests /\ task[request[r].on].state # "none"

CorpusInv == CorpusTypeOK /\ VersionCounts /\ RowInv /\ FreshInv /\ TableInv

-----------------------------------------------------------------------------
(* Counting *)

\* The documents that are over are finitely many.
LEMMA OverFinite ==
  /\ IsFiniteSet(Files) /\ Cardinality(Files) \in Nat
  /\ IsFiniteSet(JobsOver) /\ Cardinality(JobsOver) \in Nat
  /\ IsFiniteSet(RemovalsOver) /\ Cardinality(RemovalsOver) \in Nat
<1>1. JobsOver \subseteq Files /\ RemovalsOver \subseteq Files /\ IsFiniteSet(Files)
  BY CorpusAssumption DEF JobsOver, RemovalsOver
<1>2. IsFiniteSet(JobsOver) /\ IsFiniteSet(RemovalsOver)
  BY <1>1, FS_Subset
<1> QED BY <1>1, <1>2, FS_CardinalityType

\* A version within the count is one of the versions.
LEMMA CountedVersion ==
  ASSUME NEW n \in Nat, NEW J \in SUBSET Files, NEW R \in SUBSET Files,
         n <= Cardinality(J) + Cardinality(R)
  PROVE  n \in Versions
<1>1. /\ IsFiniteSet(Files) /\ IsFiniteSet(J) /\ IsFiniteSet(R)
      /\ Cardinality(J) <= Cardinality(Files) /\ Cardinality(R) <= Cardinality(Files)
  BY OverFinite, FS_Subset
<1>2. Cardinality(J) \in Nat /\ Cardinality(R) \in Nat /\ Cardinality(Files) \in Nat
  BY <1>1, FS_CardinalityType
<1> QED BY <1>1, <1>2 DEF Versions

\* The count follows a step that ends no job and no deletion twice.
LEMMA CountGrows ==
  ASSUME VersionCounts, version \in Nat, UNCHANGED version,
         JobsOver \subseteq JobsOver', RemovalsOver \subseteq RemovalsOver',
         JobsOver' \subseteq Files, RemovalsOver' \subseteq Files
  PROVE  VersionCounts'
<1>1. IsFiniteSet(JobsOver') /\ IsFiniteSet(RemovalsOver')
  BY OverFinite, FS_Subset
<1>2. /\ Cardinality(JobsOver) <= Cardinality(JobsOver')
      /\ Cardinality(RemovalsOver) <= Cardinality(RemovalsOver')
  BY <1>1, FS_Subset
<1>3. Cardinality(JobsOver') \in Nat /\ Cardinality(RemovalsOver') \in Nat
  BY <1>1, FS_CardinalityType
<1> QED BY <1>2, <1>3, OverFinite DEF VersionCounts

-----------------------------------------------------------------------------
(* The documents *)

\* What checks, searches and the passing of time leave alone.
LEMMA DocumentsStand ==
  ASSUME \/ \E c \in Checks : Check(c)
         \/ \E r \in Requests : Search(r)
         \/ Expire
  PROVE  UNCHANGED <<documents, version>>
<1>1. ASSUME NEW c \in Checks, Check(c) PROVE UNCHANGED <<documents, version>>
  BY <1>1 DEF Check, CheckHit, CheckRead, CheckPrime, CheckAbandon
<1>2. ASSUME NEW r \in Requests, Search(r) PROVE UNCHANGED <<documents, version>>
  BY <1>2 DEF Search, SearchHit, SearchJoin, SearchStart, TaskRead, TaskEnd, CancelWaiter, Resume
<1>3. CASE Expire
  BY <1>3 DEF Expire
<1> QED BY <1>1, <1>2, <1>3

\* A step of a document types its row, its job and its deletion.
LEMMA DocumentTypes ==
  ASSUME CorpusTypeOK, NEW f \in Files, Document(f)
  PROVE  /\ row' \in [Files -> {"absent", "processing", "ready", "failed"}]
         /\ job' \in [Files -> {"none", "posted", "queued", "rejected", "running",
                                "committed", "ended"}]
         /\ deleting' \in [Files -> {"no", "committed", "ended"}]
<1> USE DEF CorpusTypeOK
<1>1. CASE Upload(f)
  BY <1>1 DEF Upload
<1>2. CASE Submit(f)
  BY <1>2 DEF Submit
<1>3. CASE IngestStart(f)
  BY <1>3 DEF IngestStart
<1>4. CASE IngestCommit(f)
  BY <1>4 DEF IngestCommit
<1>5. CASE IngestFail(f)
  BY <1>5 DEF IngestFail
<1>6. CASE IngestBump(f)
  BY <1>6 DEF IngestBump
<1>7. CASE DeleteCommit(f)
  BY <1>7 DEF DeleteCommit
<1>8. CASE DeleteBump(f)
  BY <1>8 DEF DeleteBump
<1> QED BY <1>1, <1>2, <1>3, <1>4, <1>5, <1>6, <1>7, <1>8 DEF Document

\* Rows, jobs and deletions go together.
LEMMA DocumentRows ==
  ASSUME CorpusTypeOK, RowInv, NEW f \in Files, Document(f)
  PROVE  RowInv'
<1> USE DEF CorpusTypeOK, RowInv
<1>1. CASE Upload(f)
  BY <1>1 DEF Upload
<1>2. CASE Submit(f)
  BY <1>2 DEF Submit
<1>3. CASE IngestStart(f)
  BY <1>3 DEF IngestStart
<1>4. CASE IngestCommit(f)
  BY <1>4 DEF IngestCommit
<1>5. CASE IngestFail(f)
  BY <1>5 DEF IngestFail
<1>6. CASE IngestBump(f)
  BY <1>6 DEF IngestBump
<1>7. CASE DeleteCommit(f)
  BY <1>7 DEF DeleteCommit
<1>8. CASE DeleteBump(f)
  BY <1>8 DEF DeleteBump
<1> QED BY <1>1, <1>2, <1>3, <1>4, <1>5, <1>6, <1>7, <1>8 DEF Document

\* A bump counts the job or the deletion that is over with it.
LEMMA DocumentCounts ==
  ASSUME CorpusTypeOK, VersionCounts, RowInv, NEW f \in Files, Document(f)
  PROVE  VersionCounts' /\ version' \in Nat
<1>0. version \in Nat /\ job \in [Files -> {"none", "posted", "queued", "rejected", "running",
                                            "committed", "ended"}]
                      /\ deleting \in [Files -> {"no", "committed", "ended"}]
  BY OverFinite DEF CorpusTypeOK, Versions
<1>1. CASE IngestBump(f)
  <2>1. /\ job[f] = "committed" /\ job' = [job EXCEPT ![f] = "ended"]
        /\ UNCHANGED deleting /\ version' = version + 1
    BY <1>1 DEF IngestBump, Bump
  <2>2. /\ f \notin JobsOver /\ JobsOver' = JobsOver \cup {f}
        /\ RemovalsOver' = RemovalsOver
    BY <1>0, <2>1 DEF JobsOver, RemovalsOver
  <2>3. Cardinality(JobsOver') = Cardinality(JobsOver) + 1
    BY <2>2, OverFinite, FS_AddElement
  <2> QED BY <1>0, <2>1, <2>2, <2>3, OverFinite DEF VersionCounts
<1>2. CASE DeleteBump(f)
  <2>1. /\ deleting[f] = "committed" /\ deleting' = [deleting EXCEPT ![f] = "ended"]
        /\ UNCHANGED job /\ version' = version + 1
    BY <1>2 DEF DeleteBump, Bump
  <2>2. /\ f \notin RemovalsOver /\ RemovalsOver' = RemovalsOver \cup {f}
        /\ JobsOver' = JobsOver
    BY <1>0, <2>1 DEF JobsOver, RemovalsOver
  <2>3. Cardinality(RemovalsOver') = Cardinality(RemovalsOver) + 1
    BY <2>2, OverFinite, FS_AddElement
  <2> QED BY <1>0, <2>1, <2>2, <2>3, OverFinite DEF VersionCounts
<1>3. CASE DeleteCommit(f)
  <2>1. UNCHANGED <<job, version>> /\ deleting' = [deleting EXCEPT ![f] = "committed"]
    BY <1>3 DEF DeleteCommit
  <2>2. deleting[f] = "no"
    BY <1>3 DEF DeleteCommit, RowInv
  <2>3. /\ JobsOver \subseteq JobsOver' /\ RemovalsOver \subseteq RemovalsOver'
        /\ JobsOver' \subseteq Files /\ RemovalsOver' \subseteq Files
    BY <1>0, <2>1, <2>2 DEF JobsOver, RemovalsOver
  <2> QED BY <1>0, <2>1, <2>3, CountGrows
<1>4. CASE Upload(f) \/ Submit(f) \/ IngestStart(f) \/ IngestCommit(f) \/ IngestFail(f)
  <2>1. UNCHANGED <<deleting, version>> /\ \A e \in Files : job[e] = "ended" => job'[e] = "ended"
    BY <1>0, <1>4 DEF Upload, Submit, IngestStart, IngestCommit, IngestFail
  <2>2. /\ JobsOver \subseteq JobsOver' /\ RemovalsOver \subseteq RemovalsOver'
        /\ JobsOver' \subseteq Files /\ RemovalsOver' \subseteq Files
    BY <2>1 DEF JobsOver, RemovalsOver
  <2> QED BY <1>0, <2>1, <2>2, CountGrows
<1> QED BY <1>1, <1>2, <1>3, <1>4 DEF Document

\* What a document's step does to the caches: nothing, or a bump.
LEMMA DocumentCaches ==
  ASSUME NEW f \in Files, Document(f)
  PROVE  /\ UNCHANGED <<check, searches>>
         /\ \/ UNCHANGED <<version, ready, cache>>
            \/ Bump
BY DEF Document, Upload, Submit, IngestStart, IngestCommit, IngestFail, IngestBump,
       DeleteCommit, DeleteBump

-----------------------------------------------------------------------------
(* Types *)

Tasks == [state : {"none", "running", "cancelling"} \cup Ended, key : Versions,
          left : SUBSET {"text", "vector"}, found : SUBSET Files]

\* A search of the table with another state, or with more rows, is one.
LEMMA TaskRecords ==
  ASSUME NEW x \in Tasks, NEW state \in {"running", "cancelling"} \cup Ended,
         NEW left \in SUBSET {"text", "vector"}, NEW found \in SUBSET Files
  PROVE  /\ [x EXCEPT !.state = state] \in Tasks
         /\ [x EXCEPT !.left = left, !.found = found] \in Tasks
BY DEF Tasks

LEMMA RestartTypes == ASSUME CorpusTypeOK, Restart PROVE CorpusTypeOK'
<1>1. 0 \in Versions
  BY OverFinite DEF Versions
<1>2. /\ row' \in [Files -> {"absent", "processing", "ready", "failed"}]
      /\ job' \in [Files -> {"none", "posted", "queued", "rejected", "running",
                             "committed", "ended"}]
      /\ deleting' \in [Files -> {"no", "committed", "ended"}]
  BY DEF CorpusTypeOK, Restart
<1>3. /\ version' \in Versions /\ ready' \subseteq Status
      /\ check' \in [Checks -> [state : {"idle", "read"}, value : BOOLEAN]]
      /\ cache' \in [Versions -> SUBSET SUBSET Files]
      /\ inflight' \in [Versions -> Requests \cup {NoTask}]
  BY <1>1 DEF Restart
<1>4. task' \in [Requests -> [state : {"none", "running", "cancelling"} \cup Ended,
                              key : Versions, left : SUBSET {"text", "vector"},
                              found : SUBSET Files]]
  BY <1>1 DEF Restart, IdleTask
<1>5. request' \in [Requests -> [state : {"idle", "waiting", "answered"} \cup Ended,
                                 on : Requests \cup {NoTask}]]
  BY DEF Restart
<1> QED BY <1>2, <1>3, <1>4, <1>5 DEF CorpusTypeOK

LEMMA DocumentStepTypes ==
  ASSUME CorpusTypeOK, VersionCounts, RowInv, NEW f \in Files, Document(f)
  PROVE  CorpusTypeOK'
<1>1. VersionCounts' /\ version' \in Nat
  BY DocumentCounts
<1>2. JobsOver' \in SUBSET Files /\ RemovalsOver' \in SUBSET Files
  BY DEF JobsOver, RemovalsOver
<1>3. version' \in Versions
  BY <1>1, <1>2, CountedVersion DEF VersionCounts
<1>4. cache' \in [Versions -> SUBSET SUBSET Files] /\ ready' \subseteq Status
  BY DocumentCaches DEF CorpusTypeOK, Bump
<1> QED BY <1>3, <1>4, DocumentTypes, DocumentCaches DEF CorpusTypeOK, searches

LEMMA CheckTypes ==
  ASSUME CorpusTypeOK, NEW c \in Checks, Check(c)
  PROVE  CorpusTypeOK'
<1> USE DEF CorpusTypeOK, documents, searches, Status
<1>1. CASE CheckHit(c)
  BY <1>1 DEF CheckHit
<1>2. CASE CheckRead(c)
  <2>1. (ReadyFiles # {}) \in BOOLEAN
    OBVIOUS
  <2> QED BY <1>2, <2>1 DEF CheckRead
<1>3. CASE CheckPrime(c)
  BY <1>3 DEF CheckPrime
<1>4. CASE CheckAbandon(c)
  BY <1>4 DEF CheckAbandon
<1> QED BY <1>1, <1>2, <1>3, <1>4 DEF Check

LEMMA SearchTypes ==
  ASSUME CorpusTypeOK, TableInv, NEW r \in Requests, Search(r)
  PROVE  CorpusTypeOK'
<1> USE DEF CorpusTypeOK, documents, searches, Request
<1>1. CASE SearchHit(r)
  BY <1>1 DEF SearchHit
<1>2. CASE SearchJoin(r)
  BY <1>2 DEF SearchJoin
<1>3. CASE SearchStart(r)
  BY <1>3 DEF SearchStart
<1>4. CASE TaskRead(r)
  <2>1. PICK kind \in task[r].left :
          \E found \in {ReadyFiles} \cup (IF kind = "vector" THEN {{}} ELSE {}) :
            task' = [task EXCEPT ![r].left = @ \ {kind}, ![r].found = @ \cup found]
    BY <1>4 DEF TaskRead
  <2>2. PICK found \in SUBSET Files :
          task' = [task EXCEPT ![r].left = @ \ {kind}, ![r].found = @ \cup found]
    BY <2>1 DEF ReadyFiles
  <2>3. /\ task[r].left \ {kind} \in SUBSET {"text", "vector"}
        /\ task[r].found \cup found \in SUBSET Files
    OBVIOUS
  <2>4. task[r] \in Tasks
    BY DEF Tasks
  <2>5. [task[r] EXCEPT !.left = @ \ {kind}, !.found = @ \cup found] \in Tasks
    BY <2>3, <2>4, TaskRecords DEF Ended
  <2>6. task' = [task EXCEPT ![r] = [task[r] EXCEPT !.left = @ \ {kind}, !.found = @ \cup found]]
    BY <2>2
  <2>7. task' \in [Requests -> Tasks]
    BY <2>5, <2>6 DEF Tasks
  <2> QED BY <1>4, <2>7 DEF TaskRead, Tasks
<1>5. CASE TaskEnd(r)
  <2>1. PICK state \in Ended : task' = [task EXCEPT ![r].state = state]
    BY <1>5 DEF TaskEnd, Ended
  <2>2. task[r] \in Tasks
    BY DEF Tasks
  <2>3. [task[r] EXCEPT !.state = state] \in Tasks
    BY <2>2, TaskRecords DEF Tasks
  <2>4. task' = [task EXCEPT ![r] = [task[r] EXCEPT !.state = state]]
    BY <2>1
  <2>5. task' \in [Requests -> Tasks]
    BY <2>3, <2>4 DEF Tasks
  <2> QED BY <1>5, <2>5 DEF TaskEnd, Tasks
<1>6. CASE CancelWaiter(r)
  <2>1. request[r].on \in Requests
    BY <1>6 DEF CancelWaiter, TableInv
  <2>2. task[request[r].on] \in Tasks
    BY <2>1 DEF Tasks
  <2>3. [task[request[r].on] EXCEPT !.state = "cancelling"] \in Tasks
    BY <2>2, TaskRecords DEF Tasks
  <2>4. task' = [task EXCEPT ![request[r].on] =
                   [task[request[r].on] EXCEPT !.state = "cancelling"]]
    BY <1>6 DEF CancelWaiter
  <2>5. task' \in [Requests -> Tasks]
    BY <2>3, <2>4 DEF Tasks
  <2> QED BY <1>6, <2>5 DEF CancelWaiter, Tasks
<1>7. CASE Resume(r)
  <2>1. request[r].on \in Requests
    BY <1>7 DEF Resume, TableInv
  <2> QED BY <1>7, <2>1 DEF Resume, Pop, Key, Ended
<1> QED BY <1>1, <1>2, <1>3, <1>4, <1>5, <1>6, <1>7 DEF Search

LEMMA ExpireTypes == ASSUME CorpusTypeOK, Expire PROVE CorpusTypeOK'
BY DEF CorpusTypeOK, Expire, documents, searches

-----------------------------------------------------------------------------
(* What searches have read is current *)

\* A step of a document that bumps nothing changes the corpus only behind a change
\* that is not announced.
LEMMA UnannouncedChange ==
  ASSUME CorpusTypeOK, RowInv, NEW f \in Files, Document(f), Announced', UNCHANGED version
  PROVE  Announced /\ ReadyFiles' = ReadyFiles
<1> USE DEF CorpusTypeOK, RowInv, Announced, ReadyFiles
<1>1. CASE Upload(f)
  BY <1>1 DEF Upload
<1>2. CASE Submit(f)
  BY <1>2 DEF Submit
<1>3. CASE IngestStart(f)
  BY <1>3 DEF IngestStart
<1>4. CASE IngestCommit(f)
  BY <1>4 DEF IngestCommit
<1>5. CASE IngestFail(f)
  BY <1>5 DEF IngestFail
<1>6. CASE IngestBump(f)
  BY <1>6, OverFinite DEF IngestBump, Bump, Versions
<1>7. CASE DeleteCommit(f)
  BY <1>7 DEF DeleteCommit
<1>8. CASE DeleteBump(f)
  BY <1>8, OverFinite DEF DeleteBump, Bump, Versions
<1> QED BY <1>1, <1>2, <1>3, <1>4, <1>5, <1>6, <1>7, <1>8 DEF Document

LEMMA DocumentFresh ==
  ASSUME CorpusTypeOK, RowInv, FreshInv, version' \in Versions, NEW f \in Files, Document(f)
  PROVE  FreshInv'
<1>1. version \in Nat /\ version' \in Nat
  BY OverFinite DEF CorpusTypeOK, Versions
<1>2. UNCHANGED task /\ \A t \in Requests : task[t].key \in Nat
  BY DocumentCaches, OverFinite DEF searches, CorpusTypeOK, Versions
<1>3. CASE Bump
  <2>1. version' = version + 1 /\ cache'[version'] = {}
    BY <1>3 DEF Bump
  <2>2. \A t \in Requests : task'[t].key <= version /\ task'[t].key # version'
    BY <1>1, <1>2, <2>1 DEF FreshInv, FoundFresh
  <2>3. \A t \in Requests : FoundFresh(t)'
    BY <1>1, <1>2, <2>1, <2>2 DEF FreshInv, FoundFresh
  <2> QED BY <2>1, <2>3 DEF FreshInv, ResultFresh
<1>4. CASE UNCHANGED <<version, ready, cache>>
  <2>1. Announced' => Announced /\ ReadyFiles' = ReadyFiles
    BY <1>4, UnannouncedChange
  <2> QED BY <1>2, <1>4, <2>1 DEF FreshInv, FoundFresh, ResultFresh
<1> QED BY <1>3, <1>4, DocumentCaches

LEMMA RestartFresh == ASSUME CorpusTypeOK, Restart PROVE FreshInv'
<1>1. version' = 0 /\ 0 \in Versions
  BY OverFinite DEF Restart, Versions
<1>2. cache'[version'] = {} /\ \A t \in Requests : task'[t] = IdleTask
  BY <1>1 DEF Restart
<1>3. \A t \in Requests : FoundFresh(t)'
  BY <1>1, <1>2 DEF FoundFresh, IdleTask
<1> QED BY <1>2, <1>3 DEF FreshInv, ResultFresh

LEMMA OthersFresh ==
  ASSUME CorpusTypeOK, FreshInv, UNCHANGED <<documents, version, task>>,
         \A v \in Versions : cache'[v] \subseteq cache[v]
  PROVE  FreshInv'
<1>1. ReadyFiles' = ReadyFiles /\ Announced' = Announced
  BY DEF ReadyFiles, Announced, documents
<1>2. version' = version /\ version \in Versions
  BY DEF CorpusTypeOK
<1>3. ResultFresh'
  BY <1>1, <1>2 DEF FreshInv, ResultFresh
<1>4. \A t \in Requests : FoundFresh(t)'
  BY <1>1, <1>2 DEF FreshInv, FoundFresh
<1> QED BY <1>3, <1>4 DEF FreshInv

LEMMA SearchFresh ==
  ASSUME CorpusTypeOK, FreshInv, TableInv, NEW r \in Requests, Search(r)
  PROVE  FreshInv'
<1>1. CASE SearchHit(r) \/ SearchJoin(r)
  BY <1>1, OthersFresh DEF SearchHit, SearchJoin
<1>0. /\ UNCHANGED <<documents, version>> /\ ReadyFiles' = ReadyFiles /\ Announced' = Announced
      /\ version \in Nat
  <2>1. UNCHANGED <<documents, version>>
    BY DocumentsStand
  <2> QED BY <2>1, OverFinite DEF ReadyFiles, Announced, documents, CorpusTypeOK, Versions
<1>2. CASE SearchStart(r)
  <2>1. /\ task' = [task EXCEPT ![r] = [state |-> "running", key |-> version,
                                        left |-> {"text", "vector"}, found |-> {}]]
        /\ UNCHANGED cache
    BY <1>2 DEF SearchStart
  <2>2. \A t \in Requests : FoundFresh(t)'
    BY <1>0, <2>1 DEF FreshInv, FoundFresh, CorpusTypeOK
  <2> QED BY <1>0, <2>1, <2>2 DEF FreshInv, ResultFresh
<1>3. CASE TaskRead(r)
  <2>1. PICK kind \in task[r].left :
          \E found \in {ReadyFiles} \cup (IF kind = "vector" THEN {{}} ELSE {}) :
            task' = [task EXCEPT ![r].left = @ \ {kind}, ![r].found = @ \cup found]
    BY <1>3 DEF TaskRead
  <2>2. PICK found : /\ found = ReadyFiles \/ (found = {} /\ kind = "vector")
                     /\ task' = [task EXCEPT ![r].left = @ \ {kind}, ![r].found = @ \cup found]
    BY <2>1
  <2>3. /\ task'[r].state = "running" /\ task'[r].key = task[r].key
        /\ task'[r].left = task[r].left \ {kind} /\ task'[r].found = task[r].found \cup found
        /\ \A t \in Requests \ {r} : task'[t] = task[t]
    BY <1>3, <2>2 DEF CorpusTypeOK, TaskRead
  <2>4. FoundFresh(r)'
    BY <1>0, <2>2, <2>3, <1>3 DEF FreshInv, FoundFresh, TaskRead
  <2>5. \A t \in Requests \ {r} : FoundFresh(t)'
    BY <1>0, <2>3 DEF FreshInv, FoundFresh
  <2> QED BY <1>0, <1>3, <2>4, <2>5 DEF FreshInv, ResultFresh, TaskRead
<1>4. CASE TaskEnd(r)
  <2>1. /\ task'[r].key = task[r].key /\ task'[r].left = task[r].left
        /\ task'[r].found = task[r].found /\ task[r].state # "none"
        /\ task'[r].state = "done" => task[r].left = {}
        /\ \A t \in Requests \ {r} : task'[t] = task[t]
    BY <1>4 DEF CorpusTypeOK, TaskEnd
  <2>2. \A t \in Requests : FoundFresh(t)'
    BY <1>0, <2>1 DEF FreshInv, FoundFresh
  <2> QED BY <1>0, <1>4, <2>2 DEF FreshInv, ResultFresh, TaskEnd
<1>5. CASE CancelWaiter(r)
  <2>1. PICK s \in Requests : task[s].state = "running" /\
          task' = [task EXCEPT ![s].state = "cancelling"]
    BY <1>5 DEF CancelWaiter, TableInv
  <2>2. /\ task'[s].key = task[s].key /\ task'[s].left = task[s].left
        /\ task'[s].found = task[s].found /\ task'[s].state = "cancelling"
        /\ \A t \in Requests \ {s} : task'[t] = task[t]
    BY <2>1 DEF CorpusTypeOK
  <2>3. \A t \in Requests : FoundFresh(t)'
    BY <1>0, <2>1, <2>2 DEF FreshInv, FoundFresh
  <2> QED BY <1>0, <1>5, <2>3 DEF FreshInv, ResultFresh, CancelWaiter
<1>6. CASE Resume(r)
  <2>1. PICK t \in Requests :
          /\ UNCHANGED task
          /\ \/ UNCHANGED cache
             \/ task[t].state = "done" /\ cache' = [cache EXCEPT ![task[t].key] = {task[t].found}]
    BY <1>6 DEF Resume, Key, TableInv
  <2>2. \A q \in Requests : FoundFresh(q)'
    BY <1>0, <2>1 DEF FreshInv, FoundFresh
  <2>3. CASE UNCHANGED cache
    BY <1>0, <2>2, <2>3 DEF FreshInv, ResultFresh
  <2>4. CASE task[t].state = "done" /\ cache' = [cache EXCEPT ![task[t].key] = {task[t].found}]
    <3>1. task[t].key = version /\ Announced => task[t].found = ReadyFiles
      BY <2>4 DEF FreshInv, FoundFresh
    <3>2. version \in Versions /\ cache \in [Versions -> SUBSET SUBSET Files]
      BY DEF CorpusTypeOK
    <3>3. Announced => cache'[version] \subseteq {ReadyFiles}
      BY <2>4, <3>1, <3>2 DEF FreshInv, ResultFresh
    <3> QED BY <1>0, <2>2, <3>3 DEF FreshInv, ResultFresh
  <2> QED BY <2>1, <2>3, <2>4
<1> QED BY <1>1, <1>2, <1>3, <1>4, <1>5, <1>6 DEF Search

-----------------------------------------------------------------------------
(* The table of searches *)

\* What leaves the searches alone leaves their table alone.
LEMMA TableStands == ASSUME TableInv, UNCHANGED searches PROVE TableInv'
BY DEF TableInv, searches

LEMMA RestartTable == ASSUME Restart PROVE TableInv'
<1>1. 0 \in Versions
  BY OverFinite DEF Versions
<1>2. /\ \A v \in Versions : inflight'[v] = NoTask
      /\ \A r \in Requests : request'[r].state = "idle" /\ task'[r].state = "none"
  BY DEF Restart, IdleTask
<1> QED BY <1>2 DEF TableInv

\* A step that only moves tasks on, and starts or loses none, keeps the table.
LEMMA TasksMove ==
  ASSUME TableInv, UNCHANGED <<inflight, request>>, CorpusTypeOK,
         \A t \in Requests : /\ task'[t].key = task[t].key
                             /\ task'[t].state = "none" <=> task[t].state = "none"
  PROVE  TableInv'
<1>1. \A v \in Versions : inflight[v] # NoTask => inflight[v] \in Requests
  BY DEF CorpusTypeOK
<1> QED BY <1>1 DEF TableInv

LEMMA SearchTable ==
  ASSUME CorpusTypeOK, TableInv, NEW r \in Requests, Search(r)
  PROVE  TableInv'
<1>0. /\ \A v \in Versions : inflight[v] # NoTask => inflight[v] \in Requests
      /\ version \in Versions /\ NoTask \notin Requests
      /\ request \in [Requests -> [state : {"idle", "waiting", "answered"} \cup Ended,
                                   on : Requests \cup {NoTask}]]
      /\ inflight \in [Versions -> Requests \cup {NoTask}]
      /\ task \in [Requests -> Tasks]
  BY CorpusAssumption DEF CorpusTypeOK, Tasks
<1>1. CASE SearchHit(r)
  <2>1. /\ UNCHANGED <<inflight, task>> /\ request[r].state = "idle"
        /\ request' = [request EXCEPT ![r] = [state |-> "answered", on |-> NoTask]]
    BY <1>1 DEF SearchHit, Request
  <2> QED BY <1>0, <2>1 DEF TableInv
<1>2. CASE SearchJoin(r)
  <2>1. /\ UNCHANGED <<inflight, task>> /\ request[r].state = "idle"
        /\ request' = [request EXCEPT ![r] = [state |-> "waiting", on |-> inflight[version]]]
        /\ inflight[version] # NoTask
    BY <1>2 DEF SearchJoin, Request
  <2>2. inflight[version] \in Requests /\ task[inflight[version]].state # "none"
    BY <1>0, <2>1 DEF TableInv
  <2> QED BY <1>0, <2>1, <2>2 DEF TableInv
<1>3. CASE SearchStart(r)
  <2>1. /\ request[r].state = "idle" /\ task[r].state = "none"
        /\ request' = [request EXCEPT ![r] = [state |-> "waiting", on |-> r]]
        /\ task' = [task EXCEPT ![r] = [state |-> "running", key |-> version,
                                        left |-> {"text", "vector"}, found |-> {}]]
        /\ inflight' = [inflight EXCEPT ![version] = r]
    BY <1>3 DEF SearchStart, Request, TableInv
  <2>2. /\ request'[r] = [state |-> "waiting", on |-> r]
        /\ task'[r].state = "running" /\ task'[r].key = version /\ inflight'[version] = r
        /\ \A q \in Requests \ {r} : request'[q] = request[q] /\ task'[q] = task[q]
        /\ \A v \in Versions \ {version} : inflight'[v] = inflight[v]
    BY <1>0, <2>1
  <2>3. \A v \in Versions : inflight[v] # r
    BY <1>0, <2>1 DEF TableInv
  <2>4. ASSUME NEW v \in Versions, inflight'[v] # NoTask
        PROVE  /\ task'[inflight'[v]].key = v /\ task'[inflight'[v]].state # "none"
               /\ \E q \in Requests : request'[q].state = "waiting" /\ request'[q].on = inflight'[v]
    <3>1. CASE v = version
      BY <2>2, <3>1
    <3>2. CASE v # version
      <4>1. inflight'[v] = inflight[v] /\ inflight[v] \in Requests \ {r}
        BY <1>0, <2>2, <2>3, <2>4, <3>2
      <4>2. PICK q \in Requests : request[q].state = "waiting" /\ request[q].on = inflight[v]
        BY <2>4, <4>1 DEF TableInv
      <4>3. request'[q] = request[q]
        BY <2>1, <2>2, <4>2
      <4> QED BY <2>2, <2>4, <4>1, <4>2, <4>3 DEF TableInv
    <3> QED BY <3>1, <3>2
  <2>5. ASSUME NEW q \in Requests
        PROVE  /\ request'[q].state = "idle" => task'[q].state = "none"
               /\ request'[q].state = "waiting" =>
                    request'[q].on \in Requests /\ task'[request'[q].on].state # "none"
    <3>1. CASE q = r
      BY <2>2, <3>1
    <3>2. CASE q # r
      BY <2>2, <3>2 DEF TableInv
    <3> QED BY <3>1, <3>2
  <2> QED BY <2>4, <2>5 DEF TableInv
<1>4. CASE TaskRead(r)
  <2>1. PICK kind, found :
          task' = [task EXCEPT ![r].left = @ \ {kind}, ![r].found = @ \cup found]
    BY <1>4 DEF TaskRead
  <2>2. \A t \in Requests : task'[t].key = task[t].key /\ task'[t].state = task[t].state
    BY <1>0, <2>1 DEF Tasks
  <2> QED BY <1>4, <2>2, TasksMove DEF TaskRead
<1>5. CASE TaskEnd(r)
  <2>1. PICK state \in Ended : task' = [task EXCEPT ![r].state = state]
    BY <1>5 DEF TaskEnd, Ended
  <2>2. task[r].state # "none" /\ state # "none"
    BY <1>5, <2>1 DEF TaskEnd, Ended
  <2>3. \A t \in Requests : /\ task'[t].key = task[t].key
                            /\ task'[t].state = "none" <=> task[t].state = "none"
    BY <1>0, <2>1, <2>2 DEF Tasks
  <2> QED BY <1>5, <2>3, TasksMove DEF TaskEnd
<1>6. CASE CancelWaiter(r)
  <2>1. PICK s \in Requests : task[s].state = "running" /\
          task' = [task EXCEPT ![s].state = "cancelling"]
    BY <1>6 DEF CancelWaiter, TableInv
  <2>2. \A t \in Requests : /\ task'[t].key = task[t].key
                            /\ task'[t].state = "none" <=> task[t].state = "none"
    BY <1>0, <2>1 DEF Tasks
  <2> QED BY <1>6, <2>2, TasksMove DEF CancelWaiter
<1>7. CASE Resume(r)
  <2>1. PICK t \in Requests :
          /\ t = request[r].on /\ request[r].state = "waiting" /\ UNCHANGED task
          /\ task[t].state \in Ended /\ inflight' = Pop(t)
          /\ \E state : /\ state \in {"answered"} \cup Ended
                        /\ request' = [request EXCEPT ![r] = [state |-> state, on |-> t]]
    BY <1>7 DEF Resume, Request, TableInv
  <2>2. request'[r].state \notin {"idle", "waiting"} /\
        \A q \in Requests \ {r} : request'[q] = request[q]
    BY <1>0, <2>1 DEF Ended
  <2>3. ASSUME NEW v \in Versions, inflight'[v] # NoTask
        PROVE  inflight'[v] = inflight[v] /\ inflight[v] \in Requests \ {t}
    <3>1. task[t].key \in Versions
      BY <1>0 DEF Tasks
    <3> QED BY <1>0, <2>1, <2>3, <3>1 DEF Pop, TableInv
  <2>4. ASSUME NEW v \in Versions, inflight'[v] # NoTask
        PROVE  /\ task'[inflight'[v]].key = v /\ task'[inflight'[v]].state # "none"
               /\ \E q \in Requests : request'[q].state = "waiting" /\ request'[q].on = inflight'[v]
    <3>1. inflight'[v] = inflight[v] /\ inflight[v] # t /\ inflight[v] # NoTask
      BY <2>3, <2>4
    <3>2. PICK q \in Requests : request[q].state = "waiting" /\ request[q].on = inflight[v]
      BY <3>1 DEF TableInv
    <3>3. request'[q] = request[q]
      BY <2>1, <2>2, <3>1, <3>2
    <3> QED BY <2>1, <3>1, <3>2, <3>3 DEF TableInv
  <2>5. ASSUME NEW q \in Requests
        PROVE  /\ request'[q].state = "idle" => task'[q].state = "none"
               /\ request'[q].state = "waiting" =>
                    request'[q].on \in Requests /\ task'[request'[q].on].state # "none"
    BY <2>1, <2>2 DEF TableInv
  <2> QED BY <2>4, <2>5 DEF TableInv
<1> QED BY <1>1, <1>2, <1>3, <1>4, <1>5, <1>6, <1>7 DEF Search

-----------------------------------------------------------------------------
(* The invariant *)

LEMMA RestartRows == ASSUME CorpusTypeOK, RowInv, Restart PROVE RowInv' /\ VersionCounts'
<1>1. RowInv'
  BY DEF CorpusTypeOK, RowInv, Restart
<1>2. JobsOver' \subseteq Files /\ RemovalsOver' \subseteq Files
  BY DEF JobsOver, RemovalsOver
<1>3. Cardinality(JobsOver') \in Nat /\ Cardinality(RemovalsOver') \in Nat
  BY <1>2, OverFinite, FS_Subset, FS_CardinalityType
<1> QED BY <1>1, <1>3 DEF VersionCounts, Restart

\* Rows and counts after a step that leaves the documents alone.
LEMMA RowsStand ==
  ASSUME RowInv, VersionCounts, UNCHANGED <<documents, version>>
  PROVE  RowInv' /\ VersionCounts'
BY DEF RowInv, VersionCounts, JobsOver, RemovalsOver, documents

LEMMA CorpusInitInv == CorpusInit => CorpusInv
<1> SUFFICES ASSUME CorpusInit PROVE CorpusInv
  OBVIOUS
<1>1. 0 \in Versions
  BY OverFinite DEF Versions
<1>2. CorpusTypeOK
  BY <1>1 DEF CorpusInit, CorpusTypeOK, IdleTask
<1>3. VersionCounts /\ RowInv
  BY OverFinite DEF CorpusInit, VersionCounts, RowInv
<1>4. FreshInv
  BY <1>1 DEF CorpusInit, FreshInv, ResultFresh, FoundFresh, IdleTask
<1>5. TableInv
  BY DEF CorpusInit, TableInv, IdleTask
<1> QED BY <1>2, <1>3, <1>4, <1>5 DEF CorpusInv

LEMMA CorpusStep == CorpusInv /\ [CorpusNext]_corpusVars => CorpusInv'
<1> SUFFICES ASSUME CorpusInv, [CorpusNext]_corpusVars PROVE CorpusInv'
  OBVIOUS
<1> USE DEF CorpusInv
<1>1. ASSUME NEW f \in Files, Document(f) PROVE CorpusInv'
  <2>1. CorpusTypeOK' /\ RowInv' /\ VersionCounts'
    BY <1>1, DocumentStepTypes, DocumentRows, DocumentCounts
  <2>2. version' \in Versions /\ UNCHANGED searches
    BY <1>1, <2>1, DocumentCaches DEF CorpusTypeOK
  <2> QED BY <1>1, <2>1, <2>2, DocumentFresh, TableStands
<1>2. ASSUME NEW c \in Checks, Check(c) PROVE CorpusInv'
  <2>1. UNCHANGED <<documents, version>>
    BY <1>2, DocumentsStand
  <2>2. UNCHANGED <<searches, cache>>
    BY <1>2 DEF Check, CheckHit, CheckRead, CheckPrime, CheckAbandon
  <2>3. FreshInv'
    BY <2>1, <2>2, OthersFresh DEF searches
  <2> QED BY <1>2, <2>1, <2>2, <2>3, CheckTypes, RowsStand, TableStands
<1>3. ASSUME NEW r \in Requests, Search(r) PROVE CorpusInv'
  <2>1. UNCHANGED <<documents, version>>
    BY <1>3, DocumentsStand
  <2> QED BY <1>3, <2>1, SearchTypes, SearchFresh, SearchTable, RowsStand
<1>4. CASE Expire
  <2>1. UNCHANGED <<documents, version, searches>>
    BY <1>4 DEF Expire
  <2>2. \A v \in Versions : cache'[v] \subseteq cache[v]
    BY <1>4 DEF Expire, CorpusTypeOK
  <2>3. FreshInv'
    BY <2>1, <2>2, OthersFresh DEF searches
  <2> QED BY <1>4, <2>1, <2>3, ExpireTypes, RowsStand, TableStands
<1>5. CASE Restart
  BY <1>5, RestartTypes, RestartRows, RestartFresh, RestartTable
<1>6. CASE UNCHANGED corpusVars
  <2>1. UNCHANGED <<documents, version, searches, cache>>
    BY <1>6 DEF corpusVars, documents, searches
  <2>2. CorpusTypeOK'
    BY <1>6 DEF corpusVars, CorpusTypeOK
  <2>3. FreshInv'
    BY <2>1, OthersFresh DEF searches
  <2> QED BY <2>1, <2>2, <2>3, RowsStand, TableStands
<1> QED BY <1>1, <1>2, <1>3, <1>4, <1>5, <1>6 DEF CorpusNext

\* The invariant holds throughout.
THEOREM CorpusInvariant == CorpusSpec => []CorpusInv
BY CorpusInitInv, CorpusStep, PTL DEF CorpusSpec

\* A search answered from the cache is answered as the database would, and the
\* table holds no search whose waiters are gone, whatever is uploaded, deleted,
\* cancelled or lost with the process (rag.py:1018-1055).
THEOREM SearchesAreSound == CorpusSpec => []SearchesSound
<1>1. CorpusInv => SearchesSound
  BY DEF CorpusInv, FreshInv, TableInv, SearchesSound, NoDeadTask
<1> QED BY CorpusInvariant, <1>1, PTL

-----------------------------------------------------------------------------
(***************************************************************************)
(* Ingestion: the rows, the objects and the requests of a document.          *)
(***************************************************************************)

\* Nothing of the upload can still store the object or commit the row.
UploadOver(d) == upload[d] \notin {"none", "stored"}

\* The job has written its outcome, or had none to write.
Settled(d) == work[d] \in {"failed", "committed", "ended"}

\* A row exists, a job runs and a deletion begins only after the upload's commit.
OrderInv(d) ==
  /\ Present(d) => UploadOver(d) /\ upload[d] # "failed"
  /\ removal[d] # "none" => UploadOver(d)
  /\ removal[d] \notin {"none", "read"} => ~Present(d)
  /\ work[d] # "none" => UploadOver(d)
  /\ upload[d] \in {"committed", "broken"} => work[d] = "none"
  /\ upload[d] = "ended" => work[d] # "none"

\* What is known of an object: by the row, by the job, by the upload.
ObjectInv(d) ==
  /\ path[d] => Present(d) /\ object[d]
  /\ upload[d] = "stored" => object[d]
  /\ stored[d] => work[d] # "none"
  /\ stored[d] /\ Present(d) => object[d]
  /\ object[d] /\ d \in Links => stored[d]
  /\ d \notin Links /\ Present(d) => path[d]

\* An outcome is written with the path of what was stored.
OutcomeInv(d) ==
  Settled(d) => /\ status[d] # "processing"
                /\ stored[d] /\ Present(d) => path[d]

\* What a deletion remembers is enough to find the object.
RemovalInv(d) ==
  /\ removal[d] \in {"read", "committed", "bumped"} =>
       /\ d \notin Links => known[d]
       /\ quiet[d] => Over(d) /\ (object[d] => known[d])
  /\ removal[d] = "ended" =>
       /\ quiet[d] => Over(d)
       /\ d \notin Links \/ quiet[d] => ~object[d]

DocumentInv(d) == OrderInv(d) /\ ObjectInv(d) /\ OutcomeInv(d) /\ RemovalInv(d)

IngestInv == IngestTypeOK /\ \A d \in Documents : DocumentInv(d)

-----------------------------------------------------------------------------
\* The initial state.
LEMMA IngestInitInv == IngestInit => IngestInv
BY DEF IngestInit, IngestInv, IngestTypeOK, DocumentInv, OrderInv, ObjectInv, OutcomeInv,
       RemovalInv, UploadOver, Settled, Present, Over

\* A change of a flag of one document keeps its type.
LEMMA FlagKept ==
  ASSUME NEW f, f \in [Documents -> BOOLEAN], NEW d \in Documents, NEW b \in BOOLEAN
  PROVE  [f EXCEPT ![d] = b] \in [Documents -> BOOLEAN]
OBVIOUS

\* Every step of a document keeps the types.
LEMMA IngestTypes ==
  ASSUME NEW d \in Documents, IngestTypeOK, IngestStep(d)
  PROVE  IngestTypeOK'
<1> USE DEF IngestTypeOK, rows, requests, jobs
<1>1. CASE StoreUpload(d)
  BY <1>1, FlagKept DEF StoreUpload, Uploading
<1>2. CASE UploadFails(d)
  BY <1>2, FlagKept DEF UploadFails, Uploading
<1>3. CASE CommitUpload(d)
  BY <1>3, FlagKept DEF CommitUpload, Uploading
<1>4. CASE EnqueueUpload(d)
  BY <1>4, FlagKept DEF EnqueueUpload, Uploading
<1>5. CASE StartWork(d)
  BY <1>5, FlagKept DEF StartWork, Work
<1>6. CASE FetchText(d)
  <2>1. CASE d \in Links
    <3>1. /\ object' = [object EXCEPT ![d] = TRUE] /\ stored' = [stored EXCEPT ![d] = TRUE]
          /\ Work(d, "running", "fetched") /\ UNCHANGED <<rows, requests, bumps>>
      BY <1>6, <2>1, Zenon DEF FetchText
    <3> QED BY <3>1, FlagKept DEF Work
  <2>2. CASE d \notin Links
    <3>1. UNCHANGED <<object, stored>>
      BY <1>6, <2>2, Zenon DEF FetchText
    <3> QED BY <1>6, <3>1 DEF FetchText, Work
  <2> QED BY <2>1, <2>2
<1>7. CASE FailWork(d)
  BY <1>7, FlagKept DEF FailWork, Work, CommittedPath
<1>8. CASE BreakWork(d)
  BY <1>8, FlagKept DEF BreakWork, Work
<1>9. CASE FinishWork(d)
  BY <1>9, FlagKept DEF FinishWork, Work, CommittedPath
<1>10. CASE BumpWork(d)
  BY <1>10, FlagKept DEF BumpWork, Work
<1>11. CASE BeginRemoval(d)
  BY <1>11, FlagKept DEF BeginRemoval, Removing, Over
<1>12. CASE CommitRemoval(d)
  BY <1>12, FlagKept DEF CommitRemoval, Removing
<1>13. CASE AbandonRemoval(d)
  BY <1>13, FlagKept DEF AbandonRemoval, Removing
<1>14. CASE BumpRemoval(d)
  BY <1>14, FlagKept DEF BumpRemoval, Removing
<1>15. CASE RemoveObject(d)
  <2>1. removal' \in [Documents -> {"none", "read", "committed", "bumped", "ended", "left", "lost"}]
    BY <1>15 DEF RemoveObject, Removing
  <2>2. \E b \in BOOLEAN : object' = [object EXCEPT ![d] = b] \/ object' = object
    <3>1. (object[d] /\ ~known[d]) \in BOOLEAN
      OBVIOUS
    <3> QED BY <1>15, <3>1, Zenon DEF RemoveObject
  <2>3. object' \in [Documents -> BOOLEAN]
    BY <2>2, FlagKept
  <2> QED BY <1>15, <2>1, <2>3 DEF RemoveObject
<1>16. CASE RefreshFails(d)
  BY <1>16, FlagKept DEF RefreshFails, Uploading
<1> QED
  BY <1>1, <1>2, <1>3, <1>4, <1>5, <1>6, <1>7, <1>8, <1>9, <1>10, <1>11, <1>12, <1>13, <1>14,
     <1>15, <1>16 DEF IngestStep

\* A step of one document changes nothing of the others.
LEMMA OneChanges ==
  ASSUME NEW d \in Documents, NEW e \in Documents, e # d, IngestTypeOK, IngestStep(d)
  PROVE  /\ status'[e] = status[e] /\ path'[e] = path[e] /\ object'[e] = object[e]
         /\ upload'[e] = upload[e] /\ work'[e] = work[e] /\ stored'[e] = stored[e]
         /\ removal'[e] = removal[e] /\ known'[e] = known[e] /\ quiet'[e] = quiet[e]
<1> USE DEF IngestTypeOK, rows, requests, jobs
<1>1. CASE StoreUpload(d) \/ UploadFails(d) \/ CommitUpload(d) \/ EnqueueUpload(d)
           \/ RefreshFails(d)
  BY <1>1 DEF StoreUpload, UploadFails, CommitUpload, EnqueueUpload, RefreshFails, Uploading
<1>2. CASE StartWork(d) \/ FetchText(d) \/ BreakWork(d) \/ BumpWork(d)
  BY <1>2 DEF StartWork, FetchText, BreakWork, BumpWork, Work
<1>3. CASE FailWork(d) \/ FinishWork(d)
  BY <1>3 DEF FailWork, FinishWork, CommittedPath, Work
<1>4. CASE BeginRemoval(d) \/ CommitRemoval(d) \/ AbandonRemoval(d) \/ BumpRemoval(d)
           \/ RemoveObject(d)
  BY <1>4 DEF BeginRemoval, CommitRemoval, AbandonRemoval, BumpRemoval, RemoveObject, Removing
<1> QED BY <1>1, <1>2, <1>3, <1>4 DEF IngestStep

\* So what holds of them is kept.
LEMMA OthersKept ==
  ASSUME NEW d \in Documents, NEW e \in Documents, e # d, IngestInv, IngestStep(d),
         DocumentInv(e)
  PROVE  DocumentInv(e)'
BY OneChanges DEF IngestInv, DocumentInv, OrderInv, ObjectInv, OutcomeInv, RemovalInv,
                  UploadOver, Settled, Present, Over

\* A step of a document keeps what holds of it.
LEMMA DocumentKept ==
  ASSUME NEW d \in Documents, IngestInv, IngestStep(d)
  PROVE  DocumentInv(d)'
<1> USE DEF IngestInv, IngestTypeOK, rows, requests, jobs, DocumentInv, OrderInv, ObjectInv,
            OutcomeInv, RemovalInv, UploadOver, Settled, Present, Over
<1>1. CASE StoreUpload(d)
  BY <1>1 DEF StoreUpload, Uploading
<1>2. CASE UploadFails(d)
  BY <1>2 DEF UploadFails, Uploading
<1>3. CASE CommitUpload(d)
  <2>1. path'[d] <=> d \notin Links
    <3>1. path' = [path EXCEPT ![d] = d \notin Links]
      BY <1>3, Zenon DEF CommitUpload
    <3>2. path \in [Documents -> BOOLEAN]
      OBVIOUS
    <3> QED BY <3>1, <3>2, Zenon
  <2>2. UNCHANGED <<object, jobs, removal, known, quiet, bumps>>
    BY <1>3, Zenon DEF CommitUpload
  <2>3. /\ status' = [status EXCEPT ![d] = "processing"]
       /\ Uploading(d, IF d \in Links THEN "none" ELSE "stored", "committed")
    BY <1>3, Zenon DEF CommitUpload
  <2>4. CASE d \in Links
    BY <2>1, <2>2, <2>3, <2>4 DEF Uploading
  <2>5. CASE d \notin Links
    BY <2>1, <2>2, <2>3, <2>5 DEF Uploading
  <2> QED BY <2>4, <2>5
<1>4. CASE EnqueueUpload(d)
  BY <1>4 DEF EnqueueUpload, Uploading
<1>5. CASE StartWork(d)
  BY <1>5 DEF StartWork, Work
<1>6. CASE FetchText(d)
  BY <1>6 DEF FetchText, Work
<1>7. CASE FailWork(d)
  BY <1>7 DEF FailWork, Work, CommittedPath
<1>8. CASE BreakWork(d)
  BY <1>8 DEF BreakWork, Work
<1>9. CASE FinishWork(d)
  BY <1>9 DEF FinishWork, Work, CommittedPath
<1>10. CASE BumpWork(d)
  BY <1>10 DEF BumpWork, Work
<1>11. CASE BeginRemoval(d)
  BY <1>11 DEF BeginRemoval, Removing
<1>12. CASE CommitRemoval(d)
  BY <1>12 DEF CommitRemoval, Removing
<1>13. CASE AbandonRemoval(d)
  BY <1>13 DEF AbandonRemoval, Removing
<1>14. CASE BumpRemoval(d)
  BY <1>14 DEF BumpRemoval, Removing
<1>15. CASE RemoveObject(d)
  BY <1>15 DEF RemoveObject, Removing
<1>16. CASE RefreshFails(d)
  BY <1>16 DEF RefreshFails, Uploading
<1> QED
  BY <1>1, <1>2, <1>3, <1>4, <1>5, <1>6, <1>7, <1>8, <1>9, <1>10, <1>11, <1>12, <1>13, <1>14,
     <1>15, <1>16 DEF IngestStep

\* A restart loses the requests and the jobs, never a row or an object.
LEMMA RestartKept ==
  ASSUME NEW d \in Documents, IngestInv, IngestRestart
  PROVE  DocumentInv(d)'
BY DEF IngestInv, IngestTypeOK, rows, DocumentInv, OrderInv, ObjectInv, OutcomeInv,
       RemovalInv, UploadOver, Settled, Present, Over, IngestRestart, Stops

\* The inductive invariant.
LEMMA IngestInvariant == IngestSpec => []IngestInv
<1>1. IngestInv /\ [IngestNext]_ingestVars => IngestInv'
  <2> SUFFICES ASSUME IngestInv, [IngestNext]_ingestVars PROVE IngestInv'
    OBVIOUS
  <2>1. CASE UNCHANGED ingestVars
    BY <2>1 DEF ingestVars, rows, requests, jobs, IngestInv, IngestTypeOK, DocumentInv,
                OrderInv, ObjectInv, OutcomeInv, RemovalInv, UploadOver, Settled, Present,
                Over
  <2>2. CASE IngestNext
    <3>1. IngestTypeOK'
      <4>1. CASE IngestRestart
        BY <4>1 DEF IngestRestart, Stops, IngestInv, IngestTypeOK, rows
      <4> QED BY <2>2, <4>1, IngestTypes DEF IngestNext, IngestInv
    <3>2. ASSUME NEW e \in Documents PROVE DocumentInv(e)'
      <4>1. ASSUME NEW d \in Documents, IngestStep(d) PROVE DocumentInv(e)'
        <5>1. CASE e = d
          BY <4>1, <5>1, DocumentKept
        <5>2. CASE e # d
          BY <4>1, <5>2, OthersKept DEF IngestInv
        <5> QED BY <5>1, <5>2
      <4>2. CASE IngestRestart
        BY <4>2, RestartKept
      <4> QED BY <2>2, <4>1, <4>2 DEF IngestNext
    <3> QED BY <3>1, <3>2 DEF IngestInv
  <2> QED BY <2>1, <2>2
<1> QED BY IngestInitInv, <1>1, PTL DEF IngestSpec

\* A document that stays in processing was not refused by its job: the job was never
\* enqueued, never taken, died, or could not write (rag_files.py:190-195, rag.py:640-645).
THEOREM OnlyFaultsStick == IngestSpec => []StuckOnlyByFault
<1>1. IngestInv => StuckOnlyByFault
  BY DEF IngestInv, IngestTypeOK, DocumentInv, OrderInv, OutcomeInv, Settled, UploadOver,
         Present, StuckOnlyByFault
<1> QED BY IngestInvariant, <1>1, PTL

\* Wherever an upload, a job, a deletion or the process stops, a row points to an
\* object that is there, and a confirmed deletion has left none behind
\* (rag_files.py:185-190, rag.py:566-660).
THEOREM StoreAgreesWithRows == IngestSpec => []StoreAgrees
<1>1. IngestInv => StoreAgrees
  BY DEF IngestInv, DocumentInv, ObjectInv, RemovalInv, PathHasObject, DeletionComplete,
         StoreAgrees
<1> QED BY IngestInvariant, <1>1, PTL

-----------------------------------------------------------------------------
(* Ingestion implements RagCorpus *)

\* What RagCorpus sees of the jobs and of the deletions.
JobsSeen == [d \in Documents |-> CorpusJob(d)]
RemovalsSeen == [d \in Documents |-> CorpusRemoval(d)]

\* A step of a document changes what is seen of no other.
LEMMA SeenOfOthers ==
  ASSUME NEW d \in Documents, IngestInv, IngestStep(d)
  PROVE  \A e \in Documents \ {d} :
           CorpusJob(e)' = CorpusJob(e) /\ CorpusRemoval(e)' = CorpusRemoval(e)
<1> TAKE e \in Documents \ {d}
<1>1. IngestTypeOK
  BY DEF IngestInv
<1>2. upload'[e] = upload[e] /\ work'[e] = work[e] /\ removal'[e] = removal[e]
  BY <1>1, OneChanges
<1> QED BY <1>2 DEF CorpusJob, CorpusRemoval

\* RagCorpus counts as Ingestion does.
LEMMA SameVersions == Corpus!Versions = 0..(2 * Cardinality(Documents))
<1>1. Corpus!Cardinality(Documents) = Cardinality(Documents)
  BY DEF Corpus!Cardinality, Cardinality
<1> QED BY <1>1 DEF Corpus!Versions

\* So a step that leaves what is seen of its document leaves all that is seen.
LEMMA Unseen ==
  ASSUME NEW d \in Documents, IngestInv, IngestStep(d), status' = status, bumps' = bumps,
         CorpusJob(d)' = CorpusJob(d), CorpusRemoval(d)' = CorpusRemoval(d)
  PROVE  UNCHANGED Corpus!corpusVars
<1>1. JobsSeen' = JobsSeen
  BY SeenOfOthers DEF JobsSeen
<1>2. RemovalsSeen' = RemovalsSeen
  BY SeenOfOthers DEF RemovalsSeen
<1> QED BY <1>1, <1>2 DEF Corpus!corpusVars, JobsSeen, RemovalsSeen, Empty

\* A step of the upload or of the job of a document.
LEMMA JobSeen ==
  ASSUME NEW d \in Documents, IngestInv, IngestStep(d),
         CorpusRemoval(d)' = CorpusRemoval(d)
  PROVE  /\ JobsSeen' = [JobsSeen EXCEPT ![d] = CorpusJob(d)']
         /\ RemovalsSeen' = RemovalsSeen
<1>1. JobsSeen' = [JobsSeen EXCEPT ![d] = CorpusJob(d)']
  BY SeenOfOthers DEF JobsSeen
<1>2. RemovalsSeen' = RemovalsSeen
  BY SeenOfOthers DEF RemovalsSeen
<1> QED BY <1>1, <1>2

\* A step of the deletion of a document.
LEMMA RemovalSeen ==
  ASSUME NEW d \in Documents, IngestInv, IngestStep(d), CorpusJob(d)' = CorpusJob(d)
  PROVE  /\ RemovalsSeen' = [RemovalsSeen EXCEPT ![d] = CorpusRemoval(d)']
         /\ JobsSeen' = JobsSeen
<1>1. RemovalsSeen' = [RemovalsSeen EXCEPT ![d] = CorpusRemoval(d)']
  BY SeenOfOthers DEF RemovalsSeen
<1>2. JobsSeen' = JobsSeen
  BY SeenOfOthers DEF JobsSeen
<1> QED BY <1>1, <1>2

\* A document's step, as RagCorpus sees it.
LEMMA StepSeen ==
  ASSUME NEW d \in Documents, IngestInv, IngestStep(d)
  PROVE  Corpus!Document(d) \/ UNCHANGED Corpus!corpusVars
<1> USE DEF IngestInv, IngestTypeOK, DocumentInv, OrderInv, UploadOver, Present
<1>1. CASE StoreUpload(d) \/ UploadFails(d) \/ FetchText(d) \/ BeginRemoval(d)
           \/ AbandonRemoval(d)
  <2>1. CorpusJob(d)' = CorpusJob(d) /\ CorpusRemoval(d)' = CorpusRemoval(d)
    BY <1>1 DEF StoreUpload, UploadFails, FetchText, BeginRemoval, AbandonRemoval,
                Uploading, Work, Removing, requests, jobs, CorpusJob, CorpusRemoval
  <2>2. status' = status /\ bumps' = bumps
    BY <1>1, Zenon DEF StoreUpload, UploadFails, FetchText, BeginRemoval, AbandonRemoval, rows
  <2> QED BY <2>1, <2>2, Unseen
<1>2. CASE CommitUpload(d)
  <2>1. /\ CorpusJob(d) = "none" /\ CorpusJob(d)' = "posted"
        /\ CorpusRemoval(d)' = CorpusRemoval(d) /\ CorpusRemoval(d) = "no"
    BY <1>2 DEF CommitUpload, Uploading, jobs, CorpusJob, CorpusRemoval
  <2>2. status[d] = "absent" /\ status' = [status EXCEPT ![d] = "processing"] /\ bumps' = bumps
    BY <1>2 DEF CommitUpload, Uploading
  <2>3. JobsSeen' = [JobsSeen EXCEPT ![d] = "posted"] /\ RemovalsSeen' = RemovalsSeen
    BY <2>1, JobSeen
  <2>4. Corpus!Upload(d)
    BY <2>1, <2>2, <2>3 DEF Corpus!Upload, JobsSeen, RemovalsSeen, Corpus!searches, Empty
  <2> QED BY <2>4 DEF Corpus!Document
<1>3. CASE EnqueueUpload(d) \/ RefreshFails(d)
  <2>1. /\ CorpusJob(d) = "posted" /\ CorpusJob(d)' \in {"queued", "rejected", "ended"}
        /\ ~Present(d) => CorpusJob(d)' = "ended"
        /\ CorpusRemoval(d)' = CorpusRemoval(d)
    BY <1>3 DEF EnqueueUpload, RefreshFails, Uploading, jobs, rows, requests, CorpusJob,
                CorpusRemoval
  <2>2. status' = status /\ bumps' = bumps
    BY <1>3, Zenon DEF EnqueueUpload, RefreshFails, rows
  <2>3. JobsSeen' = [JobsSeen EXCEPT ![d] = CorpusJob(d)'] /\ RemovalsSeen' = RemovalsSeen
    BY <2>1, JobSeen
  <2>4. Corpus!Submit(d)
    BY <2>1, <2>2, <2>3 DEF Corpus!Submit, JobsSeen, RemovalsSeen, Corpus!searches, Empty
  <2> QED BY <2>4 DEF Corpus!Document
<1>4. CASE StartWork(d)
  <2>1. /\ CorpusJob(d) = "queued" /\ CorpusJob(d)' = (IF Present(d) THEN "running" ELSE "ended")
        /\ CorpusRemoval(d)' = CorpusRemoval(d)
    BY <1>4 DEF StartWork, Work, jobs, rows, requests, CorpusJob, CorpusRemoval
  <2>2. status' = status /\ bumps' = bumps
    BY <1>4, Zenon DEF StartWork, rows
  <2>3. JobsSeen' = [JobsSeen EXCEPT ![d] = CorpusJob(d)'] /\ RemovalsSeen' = RemovalsSeen
    BY <2>1, JobSeen
  <2>4. Corpus!IngestStart(d)
    BY <2>1, <2>2, <2>3 DEF Corpus!IngestStart, JobsSeen, RemovalsSeen, Corpus!searches, Empty
  <2> QED BY <2>4 DEF Corpus!Document
<1>5. CASE FailWork(d)
  <2>1. /\ CorpusJob(d) = "running" /\ CorpusJob(d)' = "ended"
        /\ CorpusRemoval(d)' = CorpusRemoval(d)
    BY <1>5 DEF FailWork, Work, jobs, rows, requests, CorpusJob, CorpusRemoval
  <2>2. /\ Present(d) /\ status' = [status EXCEPT ![d] = "failed"]
        /\ bumps' = bumps
    BY <1>5, Zenon DEF FailWork, rows
  <2>3. JobsSeen' = [JobsSeen EXCEPT ![d] = CorpusJob(d)'] /\ RemovalsSeen' = RemovalsSeen
    BY <2>1, JobSeen
  <2>4. Corpus!IngestFail(d)
    BY <2>1, <2>2, <2>3 DEF Corpus!IngestFail, JobsSeen, RemovalsSeen, Corpus!searches, Empty
  <2> QED BY <2>4 DEF Corpus!Document
<1>6. CASE BreakWork(d)
  <2>1. /\ CorpusJob(d) = "running" /\ CorpusJob(d)' = "ended"
        /\ CorpusRemoval(d)' = CorpusRemoval(d)
    BY <1>6 DEF BreakWork, Work, jobs, rows, requests, CorpusJob, CorpusRemoval
  <2>2. status' = status /\ bumps' = bumps
    BY <1>6, Zenon DEF BreakWork, rows
  <2>3. JobsSeen' = [JobsSeen EXCEPT ![d] = CorpusJob(d)'] /\ RemovalsSeen' = RemovalsSeen
    BY <2>1, JobSeen
  <2>4. Corpus!IngestFail(d)
    BY <2>1, <2>2, <2>3 DEF Corpus!IngestFail, JobsSeen, RemovalsSeen, Corpus!searches, Empty
  <2> QED BY <2>4 DEF Corpus!Document
<1>7. CASE FinishWork(d)
  <2>1. /\ CorpusJob(d) = "running" /\ CorpusJob(d)' = "committed"
        /\ CorpusRemoval(d)' = CorpusRemoval(d)
    BY <1>7 DEF FinishWork, Work, jobs, rows, requests, CorpusJob, CorpusRemoval
  <2>2. /\ Present(d) /\ status' = [status EXCEPT ![d] = "ready"]
        /\ bumps' = bumps
    BY <1>7, Zenon DEF FinishWork, rows
  <2>3. JobsSeen' = [JobsSeen EXCEPT ![d] = CorpusJob(d)'] /\ RemovalsSeen' = RemovalsSeen
    BY <2>1, JobSeen
  <2>4. Corpus!IngestCommit(d)
    BY <2>1, <2>2, <2>3 DEF Corpus!IngestCommit, JobsSeen, RemovalsSeen, Corpus!searches, Empty
  <2> QED BY <2>4 DEF Corpus!Document
<1>8. CASE BumpWork(d)
  <2>1. /\ CorpusJob(d) = "committed" /\ CorpusJob(d)' = "ended"
        /\ CorpusRemoval(d)' = CorpusRemoval(d)
    BY <1>8 DEF BumpWork, Work, jobs, rows, requests, CorpusJob, CorpusRemoval
  <2>2. status' = status /\ bumps' = bumps + 1
    BY <1>8, Zenon DEF BumpWork, rows
  <2>3. JobsSeen' = [JobsSeen EXCEPT ![d] = CorpusJob(d)'] /\ RemovalsSeen' = RemovalsSeen
    BY <2>1, JobSeen
  <2>4. Corpus!IngestBump(d)
    BY <2>1, <2>2, <2>3, SameVersions DEF Corpus!IngestBump, JobsSeen, RemovalsSeen, Corpus!searches, Empty, Corpus!Bump
  <2> QED BY <2>4 DEF Corpus!Document
<1>9. CASE CommitRemoval(d)
  <2>1. /\ CorpusRemoval(d) = "no" /\ CorpusRemoval(d)' = "committed"
        /\ CorpusJob(d)' = CorpusJob(d)
    BY <1>9 DEF CommitRemoval, Removing, jobs, rows, requests, CorpusJob, CorpusRemoval
  <2>2. /\ Present(d) /\ status' = [status EXCEPT ![d] = "absent"]
        /\ bumps' = bumps
    BY <1>9, Zenon DEF CommitRemoval, rows
  <2>3. RemovalsSeen' = [RemovalsSeen EXCEPT ![d] = "committed"] /\ JobsSeen' = JobsSeen
    BY <2>1, RemovalSeen
  <2>4. Corpus!DeleteCommit(d)
    BY <2>1, <2>2, <2>3 DEF Corpus!DeleteCommit, JobsSeen, RemovalsSeen, Corpus!searches, Empty
  <2> QED BY <2>4 DEF Corpus!Document
<1>10. CASE BumpRemoval(d)
  <2>1. /\ CorpusRemoval(d) = "committed" /\ CorpusRemoval(d)' = "ended"
        /\ CorpusJob(d)' = CorpusJob(d)
    BY <1>10 DEF BumpRemoval, Removing, jobs, rows, requests, CorpusJob, CorpusRemoval
  <2>2. status' = status /\ bumps' = bumps + 1
    BY <1>10, Zenon DEF BumpRemoval, rows
  <2>3. RemovalsSeen' = [RemovalsSeen EXCEPT ![d] = "ended"] /\ JobsSeen' = JobsSeen
    BY <2>1, RemovalSeen
  <2>4. Corpus!DeleteBump(d)
    BY <2>1, <2>2, <2>3, SameVersions DEF Corpus!DeleteBump, JobsSeen, RemovalsSeen, Corpus!searches, Empty, Corpus!Bump
  <2> QED BY <2>4 DEF Corpus!Document
<1>11. CASE RemoveObject(d)
  <2>1. CorpusJob(d)' = CorpusJob(d) /\ CorpusRemoval(d)' = CorpusRemoval(d)
    BY <1>11 DEF RemoveObject, Removing, jobs, CorpusJob, CorpusRemoval
  <2>2. status' = status /\ bumps' = bumps
    BY <1>11, Zenon DEF RemoveObject, rows
  <2> QED BY <2>1, <2>2, Unseen
<1> QED
  BY <1>1, <1>2, <1>3, <1>4, <1>5, <1>6, <1>7, <1>8, <1>9, <1>10, <1>11 DEF IngestStep

\* A restart, as RagCorpus sees it.
LEMMA RestartSeen ==
  ASSUME IngestInv, IngestRestart
  PROVE  Corpus!Restart
<1> USE DEF IngestInv, IngestTypeOK, DocumentInv, OrderInv, UploadOver
<1>1. JobsSeen' = [d \in Documents |->
                    IF CorpusJob(d) \in {"none", "rejected"} THEN CorpusJob(d) ELSE "ended"]
  <2>1. ASSUME NEW d \in Documents
        PROVE CorpusJob(d)' = IF CorpusJob(d) \in {"none", "rejected"}
                              THEN CorpusJob(d) ELSE "ended"
    BY DEF IngestRestart, Stops, CorpusJob
  <2> QED BY <2>1 DEF JobsSeen
<1>2. RemovalsSeen' = [d \in Documents |->
                        IF CorpusRemoval(d) = "no" THEN "no" ELSE "ended"]
  <2>1. ASSUME NEW d \in Documents
        PROVE CorpusRemoval(d)' = IF CorpusRemoval(d) = "no" THEN "no" ELSE "ended"
    BY DEF IngestRestart, Stops, CorpusRemoval
  <2> QED BY <2>1 DEF RemovalsSeen
<1>3. status' = status /\ bumps' = 0
  BY DEF IngestRestart, rows
<1> QED
  BY <1>1, <1>2, <1>3, SameVersions DEF Corpus!Restart, JobsSeen, RemovalsSeen, Empty

\* Whatever is shown of RagCorpus holds for the documents as they are uploaded,
\* ingested and deleted (rag.py:566-657, rag_files.py:159-227, 276-290).
THEOREM IngestionImplementsCorpus == IngestSpec => ImplementsCorpus
<1>1. IngestInit => Corpus!CorpusInit
  BY SameVersions DEF IngestInit, Corpus!CorpusInit, CorpusJob, CorpusRemoval, Empty
<1>2. IngestInv /\ [IngestNext]_ingestVars => [Corpus!CorpusNext]_Corpus!corpusVars
  <2> SUFFICES ASSUME IngestInv, [IngestNext]_ingestVars
               PROVE  Corpus!CorpusNext \/ UNCHANGED Corpus!corpusVars
    OBVIOUS
  <2>1. ASSUME NEW d \in Documents, IngestStep(d)
        PROVE  Corpus!CorpusNext \/ UNCHANGED Corpus!corpusVars
    BY <2>1, StepSeen DEF Corpus!CorpusNext
  <2>2. CASE IngestRestart
    BY <2>2, RestartSeen DEF Corpus!CorpusNext
  <2>3. CASE UNCHANGED ingestVars
    BY <2>3 DEF ingestVars, rows, requests, jobs, Corpus!corpusVars, CorpusJob,
                CorpusRemoval, Empty
  <2> QED BY <2>1, <2>2, <2>3 DEF IngestNext
<1> QED BY IngestInvariant, <1>1, <1>2, PTL DEF IngestSpec, ImplementsCorpus, Corpus!CorpusSpec
=============================================================================
