------------------------------ MODULE Ingestion ------------------------------
(***************************************************************************)
(* A user's documents between the database and the object store:            *)
(* api/rag_files.py uploads and deletes them, process_rag_file of            *)
(* services/rag.py ingests them, core/storage.py keeps the objects.  A PDF's *)
(* object is stored before its row is committed; a link's is stored while    *)
(* its page is ingested, and the row learns of it with the outcome.          *)
(*                                                                          *)
(* RagCorpus is what the rest of the program sees of this: Corpus below is   *)
(* its instance without searches and checks, and Ingestion implements it.    *)
(***************************************************************************)
EXTENDS Integers, FiniteSets

CONSTANTS
  Documents,  \* each uploaded at most once
  Links,      \* those that are links, the others are PDFs
  NoEntry     \* no task in RagCorpus's table

ASSUME DocumentAssumption ==
  IsFiniteSet(Documents) /\ Links \subseteq Documents

VARIABLES
  status,   \* RagFile.status in the database, "absent" without a row
  path,     \* RagFile.storage_path is set in the database
  object,   \* the object is in the store
  upload,   \* upload_file, add_link
  work,     \* process_rag_file
  stored,   \* its rag_file.storage_path, of a link
  removal,  \* delete_file
  known,    \* its rag_file.storage_path, as it was read
  bumps,    \* the corpus version
  quiet     \* history: the document's ingestion was over when its deletion began

rows == <<status, path>>
requests == <<upload, removal, known, quiet>>
jobs == <<work, stored>>
ingestVars == <<rows, object, requests, jobs, bumps>>

IngestInit ==
  /\ status = [d \in Documents |-> "absent"]
  /\ path = [d \in Documents |-> FALSE]
  /\ object = [d \in Documents |-> FALSE]
  /\ upload = [d \in Documents |-> "none"]
  /\ work = [d \in Documents |-> "none"]
  /\ stored = [d \in Documents |-> FALSE]
  /\ removal = [d \in Documents |-> "none"]
  /\ known = [d \in Documents |-> FALSE]
  /\ bumps = 0
  /\ quiet = [d \in Documents |-> FALSE]

Present(d) == status[d] # "absent"

\* The job of the document has ended and, if it failed, said so.
Over(d) == work[d] \in {"failed", "ended"}

-----------------------------------------------------------------------------
(* Uploading *)

Uploading(d, from, to) == upload[d] = from /\ upload' = [upload EXCEPT ![d] = to]

\* upload_file of a PDF: the row is flushed, the object stored, the row committed.
StoreUpload(d) ==
  /\ d \notin Links /\ Uploading(d, "none", "stored")
  /\ object' = [object EXCEPT ![d] = TRUE]
  /\ UNCHANGED <<rows, jobs, removal, known, quiet, bumps>>

\* Any step of a request may fail, and the row is rolled back.
UploadFails(d) ==
  /\ \/ Uploading(d, "none", "failed") \/ Uploading(d, "stored", "failed")
  /\ UNCHANGED <<rows, object, jobs, removal, known, quiet, bumps>>

\* The commit of a PDF with its path, or of a link without one.
CommitUpload(d) ==
  /\ Uploading(d, IF d \in Links THEN "none" ELSE "stored", "committed")
  /\ status' = [status EXCEPT ![d] = "processing"]
  /\ path' = [path EXCEPT ![d] = d \notin Links]
  /\ UNCHANGED <<object, jobs, removal, known, quiet, bumps>>

\* The row is refreshed and its job enqueued; what enqueue answers is not looked at.
EnqueueUpload(d) ==
  /\ Present(d) /\ Uploading(d, "committed", "ended")
  /\ \E outcome \in {"queued", "rejected"} : work' = [work EXCEPT ![d] = outcome]
  /\ UNCHANGED <<rows, object, stored, removal, known, quiet, bumps>>

\* The refresh fails: the row has been deleted, or the database does not answer, and
\* then the committed row is left without a job.
RefreshFails(d) ==
  /\ Uploading(d, "committed", "broken")
  /\ UNCHANGED <<rows, object, jobs, removal, known, quiet, bumps>>

-----------------------------------------------------------------------------
(* process_rag_file *)

Work(d, from, to) == work[d] = from /\ work' = [work EXCEPT ![d] = to]

StartWork(d) ==
  /\ Work(d, "queued", IF Present(d) THEN "running" ELSE "ended")
  /\ UNCHANGED <<rows, object, stored, requests, bumps>>

\* A link's page is extracted and stored; a PDF's object is downloaded and parsed.
FetchText(d) ==
  /\ Work(d, "running", "fetched")
  /\ IF d \in Links
     THEN /\ object' = [object EXCEPT ![d] = TRUE]
          /\ stored' = [stored EXCEPT ![d] = TRUE]
     ELSE object[d] /\ UNCHANGED <<object, stored>>
  /\ UNCHANGED <<rows, requests, bumps>>

\* The path of the row in the database after a commit of the job.
CommittedPath(d) == [path EXCEPT ![d] = @ \/ stored[d]]

\* Mutant: the transaction is rolled back before the failure is written.
FailWorkAfresh(d) ==
  /\ Work(d, "running", "failed") \/ Work(d, "fetched", "failed")
  /\ Present(d) /\ status' = [status EXCEPT ![d] = "failed"]
  /\ UNCHANGED <<path, object, stored, requests, bumps>>

\* Mutant: the failure is logged only.
FailWorkQuietly(d) ==
  /\ Work(d, "running", "failed") \/ Work(d, "fetched", "failed")
  /\ UNCHANGED <<rows, object, stored, requests, bumps>>

\* No text, or an error before the last commit: the failure is committed, with
\* the path of what has been stored.
FailWork(d) ==
  /\ Work(d, "running", "failed") \/ Work(d, "fetched", "failed")
  /\ Present(d) /\ status' = [status EXCEPT ![d] = "failed"]
  /\ path' = CommittedPath(d)
  /\ UNCHANGED <<object, stored, requests, bumps>>

\* The database fails, or the row is gone: the commit of the failure fails too,
\* in a session that was not rolled back.  So end the statements in front of the try
\* block when the database fails.
BreakWork(d) ==
  /\ Work(d, "running", "broken") \/ Work(d, "fetched", "broken")
  /\ UNCHANGED <<rows, object, stored, requests, bumps>>

\* Mutant: the version is bumped before the commit.
FinishWorkBumped(d) ==
  /\ Present(d)
  /\ Work(d, "fetched", "committed")
  /\ status' = [status EXCEPT ![d] = "ready"]
  /\ path' = CommittedPath(d)
  /\ bumps' = bumps + 1
  /\ UNCHANGED <<object, stored, requests>>

FinishWork(d) ==
  /\ Present(d)
  /\ Work(d, "fetched", "committed")
  /\ status' = [status EXCEPT ![d] = "ready"]
  /\ path' = CommittedPath(d)
  /\ UNCHANGED <<object, stored, requests, bumps>>

BumpWork(d) ==
  /\ Work(d, "committed", "ended")
  /\ bumps' = bumps + 1
  /\ UNCHANGED <<rows, object, stored, requests>>

-----------------------------------------------------------------------------
(* delete_file *)

Removing(d, from, to) == removal[d] = from /\ removal' = [removal EXCEPT ![d] = to]

\* The row is read, and with it the path that delete_rag_file_record remembers.
BeginRemoval(d) ==
  /\ Present(d) /\ Removing(d, "none", "read")
  /\ known' = [known EXCEPT ![d] = path[d]]
  /\ quiet' = [quiet EXCEPT ![d] = Over(d)]
  /\ UNCHANGED <<rows, object, jobs, upload, bumps>>

CommitRemoval(d) ==
  /\ Present(d) /\ Removing(d, "read", "committed")
  /\ status' = [status EXCEPT ![d] = "absent"]
  /\ path' = [path EXCEPT ![d] = FALSE]
  /\ UNCHANGED <<object, jobs, upload, known, quiet, bumps>>

\* The commit fails: chunks were committed after those of the row were read.
AbandonRemoval(d) ==
  /\ Removing(d, "read", "none")
  /\ known' = [known EXCEPT ![d] = FALSE] /\ quiet' = [quiet EXCEPT ![d] = FALSE]
  /\ UNCHANGED <<rows, object, jobs, upload, bumps>>

BumpRemoval(d) ==
  /\ Removing(d, "committed", "bumped")
  /\ bumps' = bumps + 1
  /\ UNCHANGED <<rows, object, jobs, upload, known, quiet>>

\* StorageClient.delete_file; an error of the store is logged and forgotten.
RemoveObject(d) ==
  /\ \/ /\ Removing(d, "bumped", "ended")
        /\ object' = [object EXCEPT ![d] = @ /\ ~known[d]]
     \/ /\ Removing(d, "bumped", "left") /\ known[d]
        /\ UNCHANGED object
  /\ UNCHANGED <<rows, jobs, upload, known, quiet, bumps>>

-----------------------------------------------------------------------------
\* The process dies and starts again; nothing looks for what it left.
Stops(state, over) == IF state \in over THEN state ELSE "lost"

IngestRestart ==
  /\ upload' = [d \in Documents |-> Stops(upload[d], {"none", "failed", "broken", "ended"})]
  /\ work' = [d \in Documents |->
       IF work[d] = "none" /\ upload[d] # "committed" THEN "none"
       ELSE Stops(work[d], {"rejected", "failed", "broken", "ended"})]
  /\ removal' = [d \in Documents |->
       IF removal[d] = "read" THEN "none" ELSE Stops(removal[d], {"none", "ended", "left"})]
  /\ bumps' = 0
  /\ UNCHANGED <<rows, object, stored, known, quiet>>

IngestStep(d) ==
  \/ StoreUpload(d) \/ UploadFails(d) \/ CommitUpload(d) \/ EnqueueUpload(d)
  \/ RefreshFails(d)
  \/ StartWork(d) \/ FetchText(d) \/ FailWork(d) \/ BreakWork(d) \/ FinishWork(d)
  \/ BumpWork(d)
  \/ BeginRemoval(d) \/ CommitRemoval(d) \/ AbandonRemoval(d) \/ BumpRemoval(d)
  \/ RemoveObject(d)

IngestNext ==
  \/ \E d \in Documents : IngestStep(d)
  \/ IngestRestart

IngestSpec == IngestInit /\ [][IngestNext]_ingestVars

-----------------------------------------------------------------------------
(* What RagCorpus sees *)

\* The job of RagCorpus: what it does not tell apart is over.
CorpusJob(d) ==
  IF upload[d] = "committed" THEN "posted"
  ELSE IF upload[d] = "broken" THEN "ended"
  ELSE IF work[d] = "fetched" THEN "running"
  ELSE IF work[d] \in {"failed", "broken", "lost"} THEN "ended"
  ELSE work[d]

CorpusRemoval(d) ==
  IF removal[d] \in {"none", "read"} THEN "no"
  ELSE IF removal[d] = "committed" THEN "committed"
  ELSE "ended"

Empty == [x \in {} |-> x]

Corpus == INSTANCE RagCorpus WITH
  Files <- Documents, Requests <- {}, Checks <- {}, NoTask <- NoEntry,
  row <- status,
  job <- [d \in Documents |-> CorpusJob(d)],
  deleting <- [d \in Documents |-> CorpusRemoval(d)],
  version <- bumps, ready <- {}, check <- Empty,
  cache <- [v \in 0..(2 * Cardinality(Documents)) |-> {}],
  inflight <- [v \in 0..(2 * Cardinality(Documents)) |-> NoEntry],
  task <- Empty, request <- Empty

\* Every step of the upload, the job and the deletion is a step of RagCorpus or
\* invisible there: what is shown of the caches and the searches holds for the
\* documents as they are really ingested.
ImplementsCorpus == Corpus!CorpusSpec

-----------------------------------------------------------------------------
(* Properties *)

IngestTypeOK ==
  /\ status \in [Documents -> {"absent", "processing", "ready", "failed"}]
  /\ {path, object, stored, known, quiet} \subseteq [Documents -> BOOLEAN]
  /\ upload \in [Documents -> {"none", "stored", "committed", "failed", "broken", "ended",
                                 "lost"}]
  /\ work \in [Documents -> {"none", "queued", "rejected", "running", "fetched", "failed",
                             "broken", "committed", "ended", "lost"}]
  /\ removal \in [Documents -> {"none", "read", "committed", "bumped", "ended", "left", "lost"}]
  /\ bumps \in Nat

\* A row never points to an object that is not there, in whatever order an upload,
\* the job and a deletion commit, fail and die (rag_files.py:185-190, rag.py:648-657).
PathHasObject ==
  \A d \in Documents : path[d] => Present(d) /\ object[d]

\* A document that stays in status processing was not refused by its job: its request
\* failed between the commit of the row and the job, its job was rejected by a full
\* lane, died with the process, or could not write its failure (rag_files.py:190-195,
\* rag.py:640-645).
StuckOnlyByFault ==
  \A d \in Documents : status[d] = "processing" =>
    \/ upload[d] \in {"committed", "broken", "lost"}
    \/ work[d] \in {"queued", "running", "fetched", "rejected", "broken", "lost"}

\* A deletion that the object store confirmed leaves no object behind, of a PDF at
\* any time and of a link whose ingestion was over when its deletion began
\* (rag.py:648-657); a failed ingestion leaves the path of what it had stored.
DeletionComplete ==
  \A d \in Documents :
    removal[d] = "ended" /\ (d \notin Links \/ quiet[d]) => ~object[d]

\* The store agrees with the rows: nothing missing that a row points to, and nothing
\* left of a document whose deletion was confirmed (rag_files.py:185-190, rag.py:648-657).
StoreAgrees == PathHasObject /\ DeletionComplete
=============================================================================
