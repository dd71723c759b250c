----------------------------- MODULE MCServices -----------------------------
(***************************************************************************)
(* Instances of the parts behind a voice session that keep a user's data:    *)
(* RagCorpus, Ingestion, EmbeddingCache, MessageMemory and ToolCalls.  They  *)
(* share no state here, and a behaviour exercises one of them, so the state  *)
(* space is the sum of theirs.  The checks and the searches of RagCorpus share *)
(* only the documents and the version, and are exercised apart.              *)
(***************************************************************************)
EXTENDS RagCorpus, Ingestion, EmbeddingCache, MCMessageMemory, ToolCalls

VARIABLE part

partVars == <<part, corpusVars, ingestVars, embedVars, memoryVars, callVars>>

InCorpus ==
  part \in {"checks", "searches"} /\ UNCHANGED <<part, ingestVars, embedVars, memoryVars, callVars>>
InIngest ==
  part = "ingestion" /\ UNCHANGED <<part, corpusVars, embedVars, memoryVars, callVars>>
InEmbed ==
  part = "embedding" /\ UNCHANGED <<part, corpusVars, ingestVars, memoryVars, callVars>>
InMemory ==
  part = "memory" /\ UNCHANGED <<part, corpusVars, ingestVars, embedVars, callVars>>
InCall ==
  part = "calls" /\ UNCHANGED <<part, corpusVars, ingestVars, embedVars, memoryVars>>

\* The texts of the callers and the filler's delay vary only where they matter.
ServicesInit ==
  /\ part \in {"checks", "searches", "ingestion", "embedding", "memory", "calls"}
  /\ CorpusInit /\ IngestInit /\ EmbedInit /\ MemoryInit /\ CallInit
  /\ part # "embedding" => \A c \in Callers : caller[c].text = CHOOSE t \in Texts : TRUE
  /\ part # "calls" => delayed

ServicesNext ==
  \/ InCorpus /\ \E f \in Files : Upload(f)
  \/ InCorpus /\ \E f \in Files : Submit(f)
  \/ InCorpus /\ \E f \in Files : IngestStart(f)
  \/ InCorpus /\ \E f \in Files : IngestCommit(f)
  \/ InCorpus /\ \E f \in Files : IngestFail(f)
  \/ InCorpus /\ \E f \in Files : IngestBump(f)
  \/ InCorpus /\ \E f \in Files : DeleteCommit(f)
  \/ InCorpus /\ \E f \in Files : DeleteBump(f)
  \/ InCorpus /\ part = "checks" /\ \E c \in Checks : CheckHit(c)
  \/ InCorpus /\ part = "checks" /\ \E c \in Checks : CheckRead(c)
  \/ InCorpus /\ part = "checks" /\ \E c \in Checks : CheckPrime(c)
  \/ InCorpus /\ part = "checks" /\ \E c \in Checks : CheckAbandon(c)
  \/ InCorpus /\ part = "searches" /\ \E r \in Requests : SearchHit(r)
  \/ InCorpus /\ part = "searches" /\ \E r \in Requests : SearchJoin(r)
  \/ InCorpus /\ part = "searches" /\ \E r \in Requests : SearchStart(r)
  \/ InCorpus /\ part = "searches" /\ \E r \in Requests : TaskRead(r)
  \/ InCorpus /\ part = "searches" /\ \E r \in Requests : TaskEnd(r)
  \/ InCorpus /\ part = "searches" /\ \E r \in Requests : CancelWaiter(r)
  \/ InCorpus /\ part = "searches" /\ \E r \in Requests : Resume(r)
  \/ InCorpus /\ Expire
  \/ InCorpus /\ Restart
  \/ InIngest /\ \E d \in Documents : StoreUpload(d)
  \/ InIngest /\ \E d \in Documents : UploadFails(d)
  \/ InIngest /\ \E d \in Documents : CommitUpload(d)
  \/ InIngest /\ \E d \in Documents : EnqueueUpload(d)
  \/ InIngest /\ \E d \in Documents : RefreshFails(d)
  \/ InIngest /\ \E d \in Documents : StartWork(d)
  \/ InIngest /\ \E d \in Documents : FetchText(d)
  \/ InIngest /\ \E d \in Documents : FailWork(d)
  \/ InIngest /\ \E d \in Documents : BreakWork(d)
  \/ InIngest /\ \E d \in Documents : FinishWork(d)
  \/ InIngest /\ \E d \in Documents : BumpWork(d)
  \/ InIngest /\ \E d \in Documents : BeginRemoval(d)
  \/ InIngest /\ \E d \in Documents : CommitRemoval(d)
  \/ InIngest /\ \E d \in Documents : AbandonRemoval(d)
  \/ InIngest /\ \E d \in Documents : BumpRemoval(d)
  \/ InIngest /\ \E d \in Documents : RemoveObject(d)
  \/ InIngest /\ IngestRestart
  \/ InEmbed /\ \E c \in Callers : Hit(c)
  \/ InEmbed /\ \E c \in Callers : Ask(c)
  \/ InEmbed /\ \E c \in Callers : Answer(c)
  \/ InEmbed /\ \E c \in Callers : CancelCaller(c)
  \/ InEmbed /\ \E c \in Callers : ResumeCaller(c)
  \/ InMemory /\ \E c \in Convs, role \in Roles : SaveCommit(c, role)
  \/ InMemory /\ \E c \in Convs, role \in Roles : HttpFlush(c, role)
  \/ InMemory /\ \E c \in Convs : SaveEnqueue(c)
  \/ InMemory /\ \E c \in Convs : DeleteConversation(c)
  \/ InMemory /\ \E m \in DOMAIN messages : HttpEnd(m)
  \/ InMemory /\ Forget
  \/ InMemory /\ TakeJob
  \/ InMemory /\ LearnFacts
  \/ InMemory /\ ReadRecent
  \/ InMemory /\ StoreMemory
  \/ InCall /\ \E c \in Calls : CallTool(c)
  \/ InCall /\ \E c \in Calls : AnnounceCall(c)
  \/ InCall /\ \E c \in Calls : RefuseCall(c)
  \/ InCall /\ \E c \in Calls : CommitIssue(c)
  \/ InCall /\ \E c \in Calls : SaveIssue(c)
  \/ InCall /\ \E c \in Calls : SaveFails(c)
  \/ InCall /\ \E c \in Calls : CancelCall(c)
  \/ InCall /\ SendText
  \/ InCall /\ TakeFrame
  \/ InCall /\ TimerFires
  \/ InCall /\ InterruptCalls
  \/ InCall /\ NextTurn

\* RagCorpus's CorpusFairness, where the corpus is exercised.
ServicesSpec ==
  /\ ServicesInit /\ [][ServicesNext]_partVars
  /\ \A r \in Requests :
       /\ WF_partVars(InCorpus /\ TaskEnd(r))
       /\ WF_partVars(InCorpus /\ Resume(r))

\* The types of the parts.
ServicesTypeOK ==
  /\ CorpusTypeOK /\ IngestTypeOK /\ EmbedTypeOK /\ MemoryTypeOK /\ CallTypeOK
=============================================================================
