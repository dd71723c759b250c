--------------------------- MODULE EmbeddingCache ---------------------------
(***************************************************************************)
(* embed_text of services/memory.py.  Concurrent callers of one text share a *)
(* task, behind shield(): a caller that is cancelled leaves it running.  The *)
(* task leaves the in-flight table when a caller resumes with it; vectors    *)
(* are kept in a cache of limited size, failures are not.                    *)
(*                                                                          *)
(* The lock is never held over an await, so a section under it is one action *)
(* with the code up to the next await.                                       *)
(***************************************************************************)
EXTENDS Integers, FiniteSets, FiniteSetsExt, Sequences, SequencesExt, Subsequences

CONSTANTS
  Callers,    \* calls of embed_text, each made at most once
  Texts,      \* the texts they ask for
  CacheSize,  \* MEMORY_EMBEDDING_CACHE_SIZE
  NoCall      \* no task in the in-flight table

ASSUME EmbeddingAssumption == CacheSize \in Int /\ NoCall \notin Callers

VARIABLES
  caller,    \* the calls: their text, state and the task they wait for
  provider,  \* _embed_uncached, named by the caller that created it
  flying,    \* _embedding_inflight
  vectors,   \* _embedding_cache: its texts, the least recently used first
  gaveUp     \* history: the calls cancelled while they waited

embedVars == <<caller, provider, flying, vectors, gaveUp>>

Answers == {"vector", "nothing"}

EmbedInit ==
  /\ \E texts \in [Callers -> Texts] :
       caller = [c \in Callers |-> [text |-> texts[c], state |-> "idle", on |-> NoCall]]
  /\ provider = [c \in Callers |-> "none"]
  /\ flying = [t \in Texts |-> NoCall]
  /\ vectors = <<>>
  /\ gaveUp = {}

Enters(c, state, on) ==
  caller' = [caller EXCEPT ![c].state = state, ![c].on = on]

\* The text as the most recently used one.
Touched(t) == Append(Only(vectors, Texts \ {t}), t)

\* The cache with a new vector, the least recently used beyond its size dropped.
Kept(t) ==
  LET size == Max({1, CacheSize}) IN
  SubSeq(Touched(t), Max({1, Len(Touched(t)) - size + 1}), Len(Touched(t)))

Cached(t) == t \in ToSet(vectors)

\* A cached vector that has not expired.
Hit(c) ==
  /\ caller[c].state = "idle" /\ Cached(caller[c].text)
  /\ Enters(c, "vector", NoCall)
  /\ vectors' = Touched(caller[c].text)
  /\ UNCHANGED <<provider, flying, gaveUp>>

\* No vector, or one that has expired and is dropped: the call joins the task in the
\* table, which may be over, or creates it.
Ask(c) ==
  LET t == caller[c].text
      task == IF flying[t] = NoCall THEN c ELSE flying[t] IN
  /\ caller[c].state = "idle"
  /\ vectors' = Only(vectors, Texts \ {t})
  /\ Enters(c, "waiting", task)
  /\ flying' = [flying EXCEPT ![t] = task]
  /\ provider' = IF task = c THEN [provider EXCEPT ![c] = "running"] ELSE provider
  /\ UNCHANGED gaveUp

\* The provider answers, fails or times out; its client may raise CancelledError,
\* which is no Exception.
Answer(c) ==
  /\ provider[c] = "running"
  /\ \E outcome \in Answers \cup {"raised"} :
       provider' = [provider EXCEPT ![c] = outcome]
  /\ UNCHANGED <<caller, flying, vectors, gaveUp>>

\* The finally clause: a task that is done leaves the table, if it is still there.
LeftTable(t, task) ==
  IF flying[t] = task /\ provider[task] # "running"
  THEN [flying EXCEPT ![t] = NoCall] ELSE flying

\* Mutant: the task is awaited without shield().
CancelUnshielded(c) ==
  /\ caller[c].state = "waiting" /\ provider[caller[c].on] = "running"
  /\ provider' = [provider EXCEPT ![caller[c].on] = "cancelled"]
  /\ gaveUp' = gaveUp \cup {c}
  /\ Enters(c, "cancelled", caller[c].on)
  /\ flying' = LeftTable(caller[c].text, caller[c].on)
  /\ UNCHANGED vectors

\* The caller's turn is interrupted or its deadline passes.
CancelCaller(c) ==
  /\ caller[c].state = "waiting"
  /\ gaveUp' = gaveUp \cup {c}
  /\ Enters(c, "cancelled", caller[c].on)
  /\ flying' = LeftTable(caller[c].text, caller[c].on)
  /\ UNCHANGED <<provider, vectors>>

\* A caller resumes with the outcome of the task.
ResumeCaller(c) ==
  LET task == caller[c].on IN
  /\ caller[c].state = "waiting" /\ provider[task] # "running"
  /\ Enters(c, IF provider[task] \in Answers THEN provider[task] ELSE "cancelled", task)
  /\ flying' = LeftTable(caller[c].text, task)
  /\ vectors' = IF provider[task] = "vector" THEN Kept(caller[c].text) ELSE vectors
  /\ UNCHANGED <<provider, gaveUp>>

EmbedStep(c) == Hit(c) \/ Ask(c) \/ Answer(c) \/ CancelCaller(c) \/ ResumeCaller(c)

EmbedNext == \E c \in Callers : EmbedStep(c)

EmbedSpec == EmbedInit /\ [][EmbedNext]_embedVars

-----------------------------------------------------------------------------
(* Properties *)

EmbedTypeOK ==
  /\ caller \in [Callers -> [text : Texts,
                             state : {"idle", "waiting", "cancelled"} \cup Answers,
                             on : Callers \cup {NoCall}]]
  /\ provider \in [Callers -> {"none", "running", "raised"} \cup Answers]
  /\ flying \in [Texts -> Callers \cup {NoCall}]
  /\ gaveUp \subseteq Callers
  /\ vectors \in Seq(Texts)

\* No text is with the provider twice at one time, whoever is cancelled while it
\* waits (memory.py:620-637).
OneCallPerText ==
  \A c, d \in Callers :
    provider[c] = "running" /\ provider[d] = "running" /\ caller[c].text = caller[d].text
    => c = d

\* Cancelling one caller takes none of the others with it: a call ends cancelled
\* only if it was, or if the provider's client was (memory.py:633; rag.py:1045
\* shares a task without this).
OwnCancellation ==
  \A c \in Callers :
    caller[c].state = "cancelled" /\ c \notin gaveUp => provider[caller[c].on] = "raised"

\* A task stays in the table after its end only if every caller that waited for it
\* has been cancelled, or some caller has still to resume with it: callers that
\* come later find it, and one of them takes it out (memory.py:634-637).
LeftBehind ==
  \A t \in Texts :
    flying[t] # NoCall /\ provider[flying[t]] # "running" =>
      \A c \in Callers : caller[c].on = flying[t] => caller[c].state = "waiting" \/ c \in gaveUp

\* Callers share the embedding of a text without harm: one call of the provider, no
\* cancellation but one's own, no task left behind that nobody will take out
\* (memory.py:620-637).
SharedSafely == OneCallPerText /\ OwnCancellation /\ LeftBehind
=============================================================================
