-------------------------- MODULE ContextRetrieval --------------------------
(***************************************************************************)
(* core/processors.py: ContextRetrievalProcessor.  It holds each user       *)
(* query's context frame back while memory, documents and the web are       *)
(* searched, adds what was found to the shared context as developer         *)
(* messages, and releases the frame to the LLM.  A newer query supersedes   *)
(* the retrieval of an older one.                                           *)
(*                                                                          *)
(* process_frame runs in the processor's own task; each retrieval is a      *)
(* task; on_user_turn_started calls start_user_turn from a third.  push_    *)
(* frame puts a frame in an unbounded queue and does not suspend, so what   *)
(* lies between the waits (the ready-corpus check, the gathered searches)   *)
(* is one action.                                                           *)
(*                                                                          *)
(* Queries are numbered in the order they are asked; 0 stands for None.     *)
(* What a search finds is only whether it finds anything.                   *)
(***************************************************************************)
EXTENDS Integers, Sequences

CONSTANTS
  Queries,        \* bound: queries 1..Queries are asked
  CheckWaits,     \* whether the corpus check may find its cache cold and wait
  DelayedFillers  \* VOICE_TOOL_FILLER_DELAY_MS is not 0

ASSUME RetrievalAssumption ==
  /\ Queries \in Nat /\ CheckWaits \in BOOLEAN
  /\ DelayedFillers \in BOOLEAN

Query == 1..Queries
None == 0
Branches == {"memory", "rag", "web"}

VARIABLES
  asked,       \* queries asked so far
  listening,   \* the user has started a turn and not finished it
  interrupt,   \* an InterruptionFrame is on its way to the processor
  inq,         \* context frames in the processor's queue
  checking,    \* the query whose process_frame awaits the corpus check
  generation,  \* _retrieval_generation
  task,        \* task[q]: the task of _retrieve_and_push for q
  unstarted,   \* the newest retrieval, while its task has not run its first step
  active,      \* _active_task, as the query it serves
  dynamic,     \* _dynamic_messages, as the queries they were found for
  webCall,     \* _active_web_call_id
  fillers,     \* _rag_filler_task and _proactive_filler_task
  spoken,      \* latency_state.tool_filler_spoken
  ended,       \* cleanup has run
  released,    \* history: frames pushed to the LLM, with the messages then
  said         \* history: the queries whose filler was spoken

vars == <<asked, listening, interrupt, inq, checking, generation, task, unstarted,
          active, dynamic, webCall, fillers, spoken, ended, released, said>>
user == <<asked, listening, interrupt, inq, ended>>

NoTask == [state |-> "none", gen |-> 0, need |-> {}]

\* A task that ended with its searches answered, or was cut off before.
Ended(how) == [state |-> how, gen |-> 0, need |-> {}]
NoFillers == [rag |-> None, web |-> None]

Init ==
  /\ asked = 0 /\ listening = FALSE /\ interrupt = FALSE
  /\ inq = <<>> /\ checking = [query |-> None, need |-> {}]
  /\ generation = 0
  /\ task = [q \in Query |-> NoTask]
  /\ unstarted = None /\ active = None
  /\ dynamic = {}
  /\ webCall = None
  /\ fillers = NoFillers /\ spoken = FALSE
  /\ ended = FALSE
  /\ released = <<>>
  /\ said = {}

-----------------------------------------------------------------------------
(* The methods *)

\* Mutant: the generation is not looked at.
AnyIsCurrent(q) == TRUE

\* _is_current_generation, for the retrieval of q.
Current(q) == task[q].gen = generation

\* The tasks after _supersede_active_retrieval has cancelled the active one.
Superseded ==
  [q \in Query |->
     IF q = active /\ task[q].state = "running"
     THEN [task[q] EXCEPT !.state = "cancelling"] ELSE task[q]]

ClearDynamicContext == dynamic' = {}

\* push_frame of the context frame.
Pushed(q, found) == Append(released, [query |-> q, found |-> found])

\* _finish_web_tool: the end of the call is sent and the fillers are cancelled,
\* if the call is still the active one; rest are the fillers otherwise.
FinishWebTool(q, rest) ==
  IF webCall = q
  THEN webCall' = None /\ fillers' = NoFillers
  ELSE UNCHANGED webCall /\ fillers' = rest

\* _emit_proactive_filler.
Emit(q) ==
  /\ said' = IF spoken THEN said ELSE said \cup {q}
  /\ spoken' = TRUE

\* The query is direct: its frame goes on at once.
RouteDirect(q) ==
  /\ generation' = generation + 1
  /\ task' = Superseded
  /\ active' = None
  /\ fillers' = NoFillers
  /\ released' = Pushed(q, dynamic')
  /\ UNCHANGED <<unstarted, webCall, spoken, said>>

\* ... or it needs a retrieval: _start_web_tool, the fillers, the task.
RouteRetrieve(q, need) ==
  /\ generation' = generation + 1
  /\ task' = [Superseded EXCEPT
                ![q] = [state |-> "running", gen |-> generation + 1, need |-> need]]
  /\ unstarted' = q /\ active' = q
  /\ webCall' = IF "web" \in need THEN q ELSE webCall
  /\ IF DelayedFillers \/ need \cap {"rag", "web"} = {}
     THEN /\ fillers' = [kind \in {"rag", "web"} |-> IF kind \in need THEN q ELSE None]
          /\ UNCHANGED <<spoken, said>>
     ELSE Emit(q) /\ fillers' = NoFillers
  /\ UNCHANGED released

Route(q, need) ==
  \/ need = {} /\ RouteDirect(q)
  \/ need # {} /\ RouteRetrieve(q, need)

-----------------------------------------------------------------------------
(* The user *)

\* on_user_turn_started: start_user_turn; the barge-in's InterruptionFrame is
\* still on its way.
StartUserTurn ==
  /\ ~ended /\ ~listening /\ asked < Queries
  /\ listening' = TRUE
  /\ interrupt' = TRUE
  /\ generation' = generation + 1
  /\ task' = Superseded
  /\ active' = None
  /\ fillers' = NoFillers
  /\ ClearDynamicContext
  /\ webCall' = None
  /\ UNCHANGED <<asked, inq, checking, unstarted, spoken, ended, released, said>>

\* Pipecat: an interruption drops the queued frames and cancels process_frame.
Interrupt ==
  /\ ~ended /\ interrupt
  /\ interrupt' = FALSE
  /\ inq' = <<>>
  /\ checking' = [query |-> None, need |-> {}]
  /\ UNCHANGED <<asked, listening, generation, task, unstarted, active, dynamic,
                 webCall, fillers, spoken, ended, released, said>>

\* The turn stops with words: the turn boundary opens a turn and passes on.
Ask ==
  /\ ~ended /\ listening /\ ~interrupt /\ asked < Queries
  /\ listening' = FALSE
  /\ asked' = asked + 1
  /\ inq' = Append(inq, asked + 1)
  /\ spoken' = FALSE
  /\ UNCHANGED <<interrupt, checking, generation, task, unstarted, active, dynamic,
                 webCall, fillers, ended, released, said>>

\* A typed message interrupts the bot; no user turn starts.
AskTyped ==
  /\ ~ended /\ ~listening /\ ~interrupt /\ asked < Queries
  /\ asked' = asked + 1
  /\ inq' = <<asked + 1>>
  /\ checking' = [query |-> None, need |-> {}]
  /\ spoken' = FALSE
  /\ UNCHANGED <<listening, interrupt, generation, task, unstarted, active, dynamic,
                 webCall, fillers, ended, released, said>>

-----------------------------------------------------------------------------
(* process_frame *)

\* The event loop runs a new task before it hands the processor a frame that comes
\* later, or the answer to a check.
FirstStepsDone == \A q \in Query : unstarted = q => task[q].state = "cut"

\* Up to the first wait, the corpus check if documents are considered.  An
\* answer from its cache does not suspend: need is what the route comes to.
ProcessFrame ==
  /\ ~ended /\ FirstStepsDone /\ checking.query = None /\ inq # <<>>
  /\ inq' = Tail(inq)
  /\ ClearDynamicContext
  /\ \E need \in SUBSET Branches :
       \/ /\ CheckWaits /\ "rag" \in need
          /\ checking' = [query |-> Head(inq), need |-> need]
          /\ UNCHANGED <<generation, task, unstarted, active, webCall, fillers,
                         spoken, released, said>>
       \/ Route(Head(inq), need) /\ UNCHANGED checking
  /\ UNCHANGED <<asked, listening, interrupt, ended>>

\* The check answers, or fails and counts as a yes.
CorpusChecked ==
  /\ ~ended /\ FirstStepsDone /\ checking.query # None
  /\ checking' = [query |-> None, need |-> {}]
  /\ UNCHANGED dynamic
  /\ Route(checking.query, checking.need) \/ Route(checking.query, checking.need \ {"rag"})
  /\ UNCHANGED <<user>>

-----------------------------------------------------------------------------
(* _retrieve_and_push, after the gathered searches *)

Running(q) == task[q].state = "running"

\* The task takes its first step.
StartTask(q) ==
  /\ Running(q) /\ unstarted = q
  /\ unstarted' = None
  /\ UNCHANGED <<user, checking, generation, task, active, dynamic, webCall,
                 fillers, spoken, released, said>>

\* It searches, and nobody has superseded it.
Searching(q) == Running(q) /\ Current(q) /\ unstarted # q

End(q, how) ==
  /\ task' = [task EXCEPT ![q] = Ended(how)]
  /\ active' = IF active = q THEN None ELSE active

\* Mutant: a fast retrieval leaves the delayed filler to its timer.
FillersKept == fillers

FillersAfterSearch == [fillers EXCEPT !.rag = None]

\* The searches have answered or timed out one by one: the messages are
\* installed, the web call finishes, the frame goes on.  A web search always
\* yields something to say, the others may find nothing.  A retrieval that
\* runs is current (RunningIsActive), so the check at line 1259 decides nothing.
Retrieved(q) ==
  /\ Searching(q)
  /\ \E found \in BOOLEAN :
       /\ "web" \in task[q].need => found
       /\ dynamic' = IF found THEN dynamic \cup {q} ELSE dynamic
  /\ FinishWebTool(q, FillersAfterSearch)
  /\ released' = Pushed(q, dynamic')
  /\ End(q, "ended")
  /\ UNCHANGED <<user, checking, generation, unstarted, spoken, said>>

\* The route's deadline may pass before or after the fillers are due: their
\* delay may be set to anything up to 5 seconds.
DeadlinePassed(q) == Searching(q)

\* Mutant: a retrieval that fails keeps the frame.
FailedSilent(q) ==
  /\ DeadlinePassed(q)
  /\ FinishWebTool(q, fillers)
  /\ End(q, "cut")
  /\ UNCHANGED <<user, checking, generation, unstarted, dynamic, spoken, released, said>>

\* Mutant: a retrieval that fails leaves its web call open.
FailedOpen(q) ==
  /\ DeadlinePassed(q)
  /\ released' = Pushed(q, dynamic)
  /\ End(q, "cut")
  /\ UNCHANGED <<user, checking, generation, unstarted, dynamic, webCall, fillers,
                 spoken, said>>

\* The deadline passes: finally releases the frame without what was found.
Failed(q) ==
  /\ DeadlinePassed(q)
  /\ FinishWebTool(q, fillers)
  /\ released' = Pushed(q, dynamic)
  /\ End(q, "cut")
  /\ UNCHANGED <<user, checking, generation, unstarted, dynamic, spoken, said>>

\* CancelledError in a retrieval nobody superseded: another waiter of the same
\* search was cancelled (RagCorpus, CancelWaiter).  It ends, with its frame.
SearchTaken(q) ==
  /\ Searching(q) /\ "rag" \in task[q].need
  /\ FinishWebTool(q, fillers)
  /\ released' = Pushed(q, dynamic)
  /\ End(q, "cut")
  /\ UNCHANGED <<user, checking, generation, unstarted, dynamic, spoken, said>>

\* CancelledError in a superseded task: finally releases its frame only if it
\* is current, which a superseded retrieval is not.
CancelDelivered(q) ==
  /\ task[q].state = "cancelling" /\ unstarted # q
  /\ FinishWebTool(q, fillers)
  /\ released' = IF Current(q) THEN Pushed(q, dynamic) ELSE released
  /\ End(q, "cut")
  /\ UNCHANGED <<user, checking, generation, unstarted, dynamic, spoken, said>>

\* A task that is cancelled before its first step ends without running its body, its
\* finally clause included.
CancelUnstarted(q) ==
  /\ task[q].state = "cancelling" /\ unstarted = q
  /\ End(q, "cut")
  /\ UNCHANGED <<user, checking, generation, unstarted, dynamic, webCall, fillers,
                 spoken, released, said>>

-----------------------------------------------------------------------------
(* The delayed fillers, and cleanup *)

RagFiller ==
  /\ fillers.rag # None
  /\ fillers' = [fillers EXCEPT !.rag = None]
  /\ Emit(fillers.rag)
  /\ UNCHANGED <<user, checking, generation, task, unstarted, active, dynamic,
                 webCall, released>>

WebFiller ==
  /\ fillers.web # None
  /\ fillers' = [fillers EXCEPT !.web = None]
  /\ IF webCall = fillers.web THEN Emit(fillers.web) ELSE UNCHANGED <<spoken, said>>
  /\ UNCHANGED <<user, checking, generation, task, unstarted, active, dynamic,
                 webCall, released>>

Cleanup ==
  /\ ~ended
  /\ ended' = TRUE
  /\ generation' = generation + 1
  /\ task' = Superseded
  /\ active' = None
  /\ fillers' = NoFillers
  /\ UNCHANGED <<asked, listening, interrupt, inq, checking, unstarted, dynamic,
                 webCall, spoken, released, said>>

-----------------------------------------------------------------------------
TaskStep(q) ==
  \/ StartTask(q) \/ Retrieved(q) \/ Failed(q) \/ SearchTaken(q)
  \/ CancelDelivered(q) \/ CancelUnstarted(q)

FrameStep == ProcessFrame \/ CorpusChecked \/ Interrupt

Next ==
  \/ StartUserTurn \/ Ask \/ AskTyped
  \/ FrameStep
  \/ \E q \in Query : TaskStep(q)
  \/ RagFiller \/ WebFiller \/ Cleanup

Spec == Init /\ [][Next]_vars

(***************************************************************************)
(* The processor's task runs, the corpus check ends within its timeout, and *)
(* every retrieval within its route deadline.  Nothing makes a user speak.  *)
(***************************************************************************)
Fairness ==
  /\ WF_vars(FrameStep)
  /\ \A q \in Query : WF_vars(TaskStep(q))

FairSpec == Spec /\ Fairness

-----------------------------------------------------------------------------
(* Properties *)

TypeOK ==
  /\ asked \in 0..Queries /\ listening \in BOOLEAN /\ interrupt \in BOOLEAN
  /\ inq \in Seq(Query)
  /\ checking \in [query : 0..Queries, need : SUBSET Branches]
  /\ generation \in Nat
  /\ task \in [Query -> [state : {"none", "running", "cancelling", "ended", "cut"},
                         gen : Nat, need : SUBSET Branches]]
  /\ unstarted \in 0..Queries /\ active \in 0..Queries
  /\ dynamic \subseteq Query
  /\ webCall \in 0..Queries
  /\ fillers \in [{"rag", "web"} -> 0..Queries]
  /\ spoken \in BOOLEAN /\ ended \in BOOLEAN
  /\ released \in Seq([query : Query, found : SUBSET Query])
  /\ said \subseteq Query

\* The LLM sees the queries in the order they were asked, each at most once:
\* no superseded retrieval, deadline or cancellation releases an old frame
\* after a newer one, or a frame twice (processors.py:1259-1265, 1340-1347).
ReleaseOrder ==
  \A m, n \in DOMAIN released : m < n => released[m].query < released[n].query

\* A frame is released with what was found for its own query or with nothing:
\* "Live web search result for the current user request" (line 1276).
OwnContext ==
  \A n \in DOMAIN released : released[n].found \subseteq {released[n].query}

\* A retrieval that runs is the active one and is current: whatever makes it
\* stale (a newer query, a new turn, cleanup) also cancels it, and no retrieval
\* that has ended can be cancelled in place of a newer one (lines 915-921, 1156).
RunningIsActive ==
  \A q \in Query : (Running(q) <=> active = q) /\ (Running(q) => Current(q))

\* A web call the client sees in progress has a task that will still end it: no
\* timeout, error or cancellation leaves the call open (lines 1330-1346).  A task that
\* never ran cannot end its call: only cleanup can strike so early, a new turn forgets
\* the call itself (lines 1362, 1369-1374).
WebCallHasTask ==
  webCall # None =>
    \/ task[webCall].state \in {"running", "cancelling"}
    \/ ended /\ unstarted = webCall

\* Retrieval is best effort but a query always reaches the LLM, unless the
\* user asks something else or leaves.
AlwaysAnswered ==
  \A q \in Query :
    (asked = q /\ ~listening /\ ~ended) ~>
      (asked > q \/ listening \/ ended \/ \E n \in DOMAIN released : released[n].query = q)

\* A filler never races the answer into the TTS service: once a query's frame
\* is released its filler is not spoken any more (line 1250-1252), unless a
\* deadline or a cancellation cut its searches off (line 1345-1347 then leaves
\* the filler of a query without a web call to its timer).
FillerBeforeAnswer ==
  [][\A q \in said' \ said :
       (\E n \in DOMAIN released : released[n].query = q) => task[q].state = "cut"]_vars
=============================================================================
