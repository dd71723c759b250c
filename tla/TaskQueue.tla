----------------------------- MODULE TaskQueue -----------------------------
(***************************************************************************)
(* core/task_queue.py: BackgroundTaskQueue.                                 *)
(*                                                                          *)
(* Two bounded lanes.  A pool of workers serves the persistence lane, one   *)
(* enricher serves the enrichment lane and first waits for the realtime     *)
(* gate.  A job with a key runs under that key's asyncio.Lock, shared by    *)
(* both lanes.  stop() joins the persistence lane, then the enrichment      *)
(* lane, then cancels the workers, then the enricher.                       *)
(*                                                                          *)
(* An action is what one coroutine does between two suspension points.  In  *)
(* particular taking a job and asking for its lock is one action: nothing   *)
(* suspends between the return of get() and the lock's wait list.           *)
(*                                                                          *)
(* Simplifications:                                                         *)
(*   - a job is a member of Jobs and is submitted at most once, by the      *)
(*     outside or, when it is some job's child, by that job while it runs;  *)
(*   - a job ends by returning or by raising an Exception; the queue treats *)
(*     both alike (it logs the second), so they are one action;             *)
(*   - start() and stop() are each called once, as main.py's lifespan does. *)
(***************************************************************************)
EXTENDS Integers, Sequences, FiniteSets, RealtimeGate

CONSTANTS
  Jobs,      \* the coroutines that may be submitted
  Keys,      \* the keys of jobs (conversation ids)
  Workers,   \* the persistence workers
  Turns,     \* the gate keys of live voice turns
  Enricher,  \* the task of _run_enrichment
  MaxSize,   \* BACKGROUND_TASK_QUEUE_MAXSIZE, of each lane
  NoKey,     \* key=None
  NoJob,     \* no job in hand, no child
  NoThread,  \* nobody holds the lock
  KeyOf,     \* KeyOf[j]: the key job j is submitted with
  LaneOf,    \* LaneOf[j]: enrichment=True or not
  ChildOf    \* ChildOf[j]: the job that j submits while it runs

Lanes == {"persistence", "enrichment"}
Threads == Workers \cup {Enricher}

ASSUME QueueAssumption ==
  /\ MaxSize \in Nat \ {0}
  /\ Workers # {} /\ IsFiniteSet(Workers)
  /\ Enricher \notin Workers
  /\ NoThread \notin Threads
  /\ NoKey \notin Keys
  /\ NoJob \notin Jobs
  /\ KeyOf \in [Jobs -> Keys \cup {NoKey}]
  /\ LaneOf \in [Jobs -> Lanes]
  /\ ChildOf \in [Jobs -> Jobs \cup {NoJob}]

\* Only save_conversation_message submits a job, and it submits enrichment: a
\* coroutine of its own for each message.
ASSUME ChildAssumption ==
  \A j \in Jobs : ChildOf[j] # NoJob =>
    /\ LaneOf[j] = "persistence" /\ LaneOf[ChildOf[j]] = "enrichment"
    /\ \A i \in Jobs : ChildOf[i] = ChildOf[j] => i = j

VARIABLES
  queue,       \* queue[l]: the jobs in lane l's asyncio.Queue
  unfinished,  \* unfinished[l]: jobs put and not yet task_done (the queue's count)
  pc,          \* pc[t]: where the coroutine of thread t is suspended
  job,         \* job[t]: the job it has taken
  holder,      \* holder[k]: the thread that has _key_locks[k]
  waiters,     \* waiters[k]: the threads waiting for it, in order
  phase,       \* start() and stop() of the queue
  status,      \* history: what became of each job
  order,       \* history: the jobs lane l accepted, in order
  covered      \* history: the jobs a stop() in progress still owes

vars == <<gateActive, queue, unfinished, pc, job, holder, waiters, phase,
          status, order, covered>>

locks == <<holder, waiters>>
history == <<order, covered>>

PCs == {"off", "get", "gate", "woken", "lock", "run", "done"}
Phases == {"new", "up", "joinP", "wokenP", "joinE", "wokenE",
           "cancelP", "cancelE", "stopped"}
Statuses == {"new", "rejected", "queued", "taken", "running", "done",
             "aborted", "lost"}

Init ==
  /\ GateInit
  /\ queue = [l \in Lanes |-> <<>>]
  /\ unfinished = [l \in Lanes |-> {}]
  /\ pc = [t \in Threads |-> "off"]
  /\ job = [t \in Threads |-> NoJob]
  /\ holder = [k \in Keys |-> NoThread]
  /\ waiters = [k \in Keys |-> <<>>]
  /\ phase = "new"
  /\ status = [j \in Jobs |-> "new"]
  /\ order = [l \in Lanes |-> <<>>]
  /\ covered = {}

-----------------------------------------------------------------------------
\* _is_running
IsRunning == phase \in {"up", "joinP", "wokenP", "joinE", "wokenE"}

\* task.cancel() was called: the thread's next step raises CancelledError.
Cancelled(t) ==
  \/ phase \in {"cancelE", "stopped"}
  \/ phase = "cancelP" /\ t \in Workers

-----------------------------------------------------------------------------
(* enqueue *)

\* put_nowait on a lane with room.
Accept(j) ==
  LET l == LaneOf[j] IN
  /\ Len(queue[l]) < MaxSize
  /\ queue' = [queue EXCEPT ![l] = Append(@, j)]
  /\ unfinished' = [unfinished EXCEPT ![l] = @ \cup {j}]
  /\ order' = [order EXCEPT ![l] = Append(@, j)]
  /\ status' = [status EXCEPT ![j] = "queued"]

\* QueueFull: enqueue returns False and the queue is as it was.
Reject(j) ==
  /\ Len(queue[LaneOf[j]]) >= MaxSize
  /\ status' = [status EXCEPT ![j] = "rejected"]
  /\ UNCHANGED <<queue, unfinished, order>>

Put(j) == Accept(j) \/ Reject(j)

IsChild(j) == \E i \in Jobs : ChildOf[i] = j

\* A caller outside the queue.  enqueue never looks at _is_running: it accepts
\* before start(), while stop() drains and after it.
Enqueue(j) ==
  /\ status[j] = "new"
  /\ ~IsChild(j)
  /\ Put(j)
  /\ UNCHANGED <<gateActive, pc, job, locks, phase, covered>>

\* A running job submits its child; stop() owes the child of a job it owes.
Spawn(t) ==
  /\ pc[t] = "run" /\ ~Cancelled(t)
  /\ LET c == ChildOf[job[t]] IN
     /\ c # NoJob
     /\ status[c] = "new"
     /\ Put(c)
     /\ covered' = IF job[t] \in covered THEN covered \cup {c} ELSE covered
  /\ UNCHANGED <<gateActive, pc, job, locks, phase>>

-----------------------------------------------------------------------------
(* The loops of _worker and _run_enrichment *)

\* Mutant: a lock that is free is taken past the threads in line for it.
EnterBarging(t, j) ==
  LET k == KeyOf[j] IN
  \/ /\ ~(k \in Keys /\ holder[k] # NoThread)
     /\ holder' = [l \in Keys |-> IF l = k THEN t ELSE holder[l]]
     /\ pc' = [pc EXCEPT ![t] = "run"]
     /\ status' = [status EXCEPT ![j] = "running"]
     /\ UNCHANGED waiters
  \/ /\ k # NoKey /\ holder[k] # NoThread
     /\ waiters' = [waiters EXCEPT ![k] = Append(@, t)]
     /\ pc' = [pc EXCEPT ![t] = "lock"]
     /\ status' = [status EXCEPT ![j] = "taken"]
     /\ UNCHANGED holder

\* Mutant: the job is run outside its lock.
EnterUnlocked(t, j) ==
  /\ pc' = [pc EXCEPT ![t] = "run"]
  /\ status' = [status EXCEPT ![j] = "running"]
  /\ UNCHANGED locks

\* `async with lock`: at once when it is free and nobody waits, else in line.
\* A thread with a job enters the job's body or the lock's wait list.
EnterJob(t, j) ==
  LET k == KeyOf[j] IN
  \/ /\ k = NoKey
     /\ pc' = [pc EXCEPT ![t] = "run"]
     /\ status' = [status EXCEPT ![j] = "running"]
     /\ UNCHANGED locks
  \/ /\ k # NoKey
     /\ holder[k] = NoThread /\ waiters[k] = <<>>
     /\ holder' = [holder EXCEPT ![k] = t]
     /\ pc' = [pc EXCEPT ![t] = "run"]
     /\ status' = [status EXCEPT ![j] = "running"]
     /\ UNCHANGED waiters
  \/ /\ k # NoKey
     /\ holder[k] # NoThread \/ waiters[k] # <<>>
     /\ waiters' = [waiters EXCEPT ![k] = Append(@, t)]
     /\ pc' = [pc EXCEPT ![t] = "lock"]
     /\ status' = [status EXCEPT ![j] = "taken"]
     /\ UNCHANGED holder

\* A worker's get() returns the oldest persistence job.
Dequeue(w) ==
  LET j == Head(queue["persistence"]) IN
  /\ w \in Workers
  /\ pc[w] = "get" /\ ~Cancelled(w)
  /\ queue["persistence"] # <<>>
  /\ queue' = [queue EXCEPT !["persistence"] = Tail(@)]
  /\ job' = [job EXCEPT ![w] = j]
  /\ EnterJob(w, j)
  /\ UNCHANGED <<gateActive, unfinished, phase, history>>

\* The enricher's get() returns and the gate is idle: wait_until_idle does not
\* suspend.
TakeEnrichment(t) ==
  LET j == Head(queue["enrichment"]) IN
  /\ t = Enricher
  /\ pc[t] = "get" /\ ~Cancelled(t)
  /\ queue["enrichment"] # <<>>
  /\ GateIdle
  /\ queue' = [queue EXCEPT !["enrichment"] = Tail(@)]
  /\ job' = [job EXCEPT ![t] = j]
  /\ EnterJob(t, j)
  /\ UNCHANGED <<gateActive, unfinished, phase, history>>

\* ... or a turn is live and the enricher waits, the job in hand.
HoldEnrichment(t) ==
  LET j == Head(queue["enrichment"]) IN
  /\ t = Enricher
  /\ pc[t] = "get" /\ ~Cancelled(t)
  /\ queue["enrichment"] # <<>>
  /\ ~GateIdle
  /\ queue' = [queue EXCEPT !["enrichment"] = Tail(@)]
  /\ job' = [job EXCEPT ![t] = j]
  /\ pc' = [pc EXCEPT ![t] = "gate"]
  /\ status' = [status EXCEPT ![j] = "taken"]
  /\ UNCHANGED <<gateActive, unfinished, locks, phase, history>>

\* Event.wait() returns to a waiter that set() woke; it does not look again.
ResumeEnrichment(t) ==
  /\ t = Enricher
  /\ pc[t] = "woken" /\ ~Cancelled(t)
  /\ EnterJob(t, job[t])
  /\ UNCHANGED <<gateActive, queue, unfinished, job, phase, history>>

\* release() wakes the first waiter; nobody overtakes it.
LockGranted(t) ==
  LET k == KeyOf[job[t]] IN
  /\ pc[t] = "lock" /\ ~Cancelled(t)
  /\ holder[k] = NoThread
  /\ waiters[k] # <<>> /\ Head(waiters[k]) = t
  /\ holder' = [holder EXCEPT ![k] = t]
  /\ waiters' = [waiters EXCEPT ![k] = Tail(@)]
  /\ pc' = [pc EXCEPT ![t] = "run"]
  /\ status' = [status EXCEPT ![job[t]] = "running"]
  /\ UNCHANGED <<gateActive, queue, unfinished, job, phase, history>>

\* Mutant: the last task_done() of a lane wakes nobody.
TaskDoneSilent(j) ==
  /\ unfinished' = [unfinished EXCEPT ![LaneOf[j]] = @ \ {j}]
  /\ UNCHANGED phase

\* task_done(): the last unfinished job of a lane wakes the join() on it.
TaskDone(j) ==
  LET l == LaneOf[j]
      left == unfinished[l] \ {j} IN
  /\ unfinished' = [unfinished EXCEPT ![l] = left]
  /\ phase' = IF left # {} THEN phase
              ELSE IF l = "persistence" /\ phase = "joinP" THEN "wokenP"
              ELSE IF l = "enrichment" /\ phase = "joinE" THEN "wokenE"
              ELSE phase

\* Mutant: the lock is taken and never given back.
ReleaseNothing(t) == UNCHANGED holder

\* Leaving `async with lock`.
Release(t) ==
  holder' = [k \in Keys |-> IF holder[k] = t THEN NoThread ELSE holder[k]]

\* The job returns or raises; the loop goes round while _is_running.
Finish(t) ==
  /\ pc[t] = "run" /\ ~Cancelled(t)
  /\ Release(t)
  /\ TaskDone(job[t])
  /\ status' = [status EXCEPT ![job[t]] = "done"]
  /\ job' = [job EXCEPT ![t] = NoJob]
  /\ pc' = [pc EXCEPT ![t] = IF IsRunning THEN "get" ELSE "done"]
  /\ UNCHANGED <<gateActive, queue, waiters, history>>

-----------------------------------------------------------------------------
(* CancelledError in a thread: the loop breaks *)

\* In get(): the item, if any, stays in the queue.
CancelIdle(t) ==
  /\ Cancelled(t)
  /\ pc[t] = "get"
  /\ pc' = [pc EXCEPT ![t] = "done"]
  /\ UNCHANGED <<gateActive, queue, unfinished, job, locks, phase, status, history>>

\* In wait_until_idle(): outside the inner try, so no task_done.
CancelGated(t) ==
  /\ Cancelled(t)
  /\ pc[t] \in {"gate", "woken"}
  /\ pc' = [pc EXCEPT ![t] = "done"]
  /\ job' = [job EXCEPT ![t] = NoJob]
  /\ status' = [status EXCEPT ![job[t]] = "lost"]
  /\ UNCHANGED <<gateActive, queue, unfinished, locks, phase, history>>

\* Mutant: task_done() is not in a finally.
AbortUncounted(t) ==
  /\ status' = [status EXCEPT ![job[t]] = "aborted"]
  /\ job' = [job EXCEPT ![t] = NoJob]
  /\ pc' = [pc EXCEPT ![t] = "done"]
  /\ UNCHANGED <<unfinished, phase>>

AbortJob(t) ==
  /\ TaskDone(job[t])
  /\ status' = [status EXCEPT ![job[t]] = "aborted"]
  /\ job' = [job EXCEPT ![t] = NoJob]
  /\ pc' = [pc EXCEPT ![t] = "done"]

\* The wait list s without its i-th entry.
DropAt(s, i) == SubSeq(s, 1, i - 1) \o SubSeq(s, i + 1, Len(s))

\* In the lock's wait list: it leaves the list, and the finally runs.
CancelWaiting(t) ==
  LET k == KeyOf[job[t]] IN
  /\ Cancelled(t)
  /\ pc[t] = "lock"
  /\ \E i \in DOMAIN waiters[k] :
       waiters[k][i] = t /\ waiters' = [waiters EXCEPT ![k] = DropAt(@, i)]
  /\ AbortJob(t)
  /\ UNCHANGED <<gateActive, queue, holder, history>>

\* In the job's body: it leaves the lock, and the finally runs.
CancelRunning(t) ==
  /\ Cancelled(t)
  /\ pc[t] = "run"
  /\ Release(t)
  /\ AbortJob(t)
  /\ UNCHANGED <<gateActive, queue, waiters, history>>

-----------------------------------------------------------------------------
(* start and stop *)

Start ==
  /\ phase = "new"
  /\ phase' = "up"
  /\ pc' = [t \in Threads |-> "get"]
  /\ UNCHANGED <<gateActive, queue, unfinished, job, locks, status, history>>

Unsettled == {j \in Jobs : status[j] \in {"queued", "taken", "running"}}

\* Mutant: stop() joins the persistence lane only.
AfterPersistenceOnly == "cancelP"

\* join() suspends only while something is unfinished.
AfterPersistence == IF unfinished["enrichment"] # {} THEN "joinE" ELSE "cancelP"

StopCall ==
  /\ phase = "up"
  /\ phase' = IF unfinished["persistence"] # {} THEN "joinP" ELSE AfterPersistence
  /\ covered' = Unsettled
  /\ UNCHANGED <<gateActive, queue, unfinished, pc, job, locks, status, order>>

\* stop() resumes from a join() and does not count again.
StopResume ==
  /\ \/ phase = "wokenP" /\ phase' = AfterPersistence
     \/ phase = "wokenE" /\ phase' = "cancelP"
     \/ phase = "cancelP" /\ (\A w \in Workers : pc[w] = "done") /\ phase' = "cancelE"
  /\ UNCHANGED <<gateActive, queue, unfinished, pc, job, locks, status, history>>

StopReturn ==
  /\ phase = "cancelE"
  /\ pc[Enricher] = "done"
  /\ phase' = "stopped"
  /\ holder' = [k \in Keys |-> NoThread]
  /\ waiters' = [k \in Keys |-> <<>>]
  /\ UNCHANGED <<gateActive, queue, unfinished, pc, job, status, history>>

-----------------------------------------------------------------------------
(* Live voice turns, from other modules: they drive the gate *)

BeginTurn(k) ==
  /\ GateBegin(k)
  /\ UNCHANGED <<queue, unfinished, pc, job, locks, phase, status, history>>

\* Mutant: end() forgets set().
EndTurnSilent(k) ==
  /\ GateEnd(k)
  /\ UNCHANGED <<queue, unfinished, pc, job, locks, phase, status, history>>

\* The set() of the last end() wakes a waiting enricher.
EndTurn(k) ==
  /\ GateEnd(k)
  /\ pc' = [t \in Threads |->
              IF pc[t] = "gate" /\ gateActive' = {} THEN "woken" ELSE pc[t]]
  /\ UNCHANGED <<queue, unfinished, job, locks, phase, status, history>>

-----------------------------------------------------------------------------
ThreadStep(t) ==
  \/ Dequeue(t) \/ TakeEnrichment(t) \/ HoldEnrichment(t) \/ ResumeEnrichment(t)
  \/ LockGranted(t) \/ Spawn(t) \/ Finish(t)
  \/ CancelIdle(t) \/ CancelGated(t) \/ CancelWaiting(t) \/ CancelRunning(t)

StopStep == StopResume \/ StopReturn

Next ==
  \/ \E j \in Jobs : Enqueue(j)
  \/ \E t \in Threads : ThreadStep(t)
  \/ Start \/ StopCall \/ StopStep
  \/ \E k \in Turns : BeginTurn(k) \/ EndTurn(k)

Spec == Init /\ [][Next]_vars

(***************************************************************************)
(* The event loop runs every ready coroutine, and jobs end (their database  *)
(* and provider calls carry timeouts).  Nothing makes a caller enqueue, a   *)
(* turn end, or the process start or stop.                                  *)
(***************************************************************************)
Fairness ==
  /\ \A t \in Threads : WF_vars(ThreadStep(t))
  /\ WF_vars(StopStep)

FairSpec == Spec /\ Fairness

-----------------------------------------------------------------------------
(* Properties *)

TypeOK ==
  /\ gateActive \subseteq Turns
  /\ queue \in [Lanes -> Seq(Jobs)]
  /\ unfinished \in [Lanes -> SUBSET Jobs]
  /\ pc \in [Threads -> PCs]
  /\ job \in [Threads -> Jobs \cup {NoJob}]
  /\ holder \in [Keys -> Threads \cup {NoThread}]
  /\ waiters \in [Keys -> Seq(Threads)]
  /\ phase \in Phases
  /\ status \in [Jobs -> Statuses]
  /\ order \in [Lanes -> Seq(Jobs)]
  /\ covered \subseteq Jobs

\* Two jobs with the same key never run at the same time, whichever lanes they
\* came by: a conversation's rows have one writer (task_queue.py:39-41, 67-69).
KeyExclusive ==
  \A t, u \in Threads :
    (/\ t # u
     /\ pc[t] = "run" /\ pc[u] = "run"
     /\ KeyOf[job[t]] = KeyOf[job[u]]) => KeyOf[job[t]] = NoKey

\* stop() has joined both lanes and cancels.
Closing == phase \in {"cancelP", "cancelE", "stopped"}

\* The counts that join() waits on: every job that was accepted and neither
\* returned nor was aborted is unfinished, and no other job is, except one that
\* cancellation took from an enricher waiting for the gate (line 57 is outside
\* the try whose finally calls task_done).
JoinCounts ==
  \A l \in Lanes :
    unfinished[l] = {j \in Jobs : LaneOf[j] = l /\
                      status[j] \in {"queued", "taken", "running", "lost"}}

\* When stop() starts to cancel, every job accepted before it was called has
\* run to its end, and so has every job that those jobs submitted in turn and
\* the queue accepted (task_queue.py:89-105).
StopDrains ==
  Closing => \A j \in covered : status[j] \in {"done", "rejected"}

JobsOf(l) == {j \in Jobs : LaneOf[j] = l}

\* An accepted persistence job runs to its end although a voice turn may hold
\* the gate for ever: persistence never waits for voice.
PersistenceCompletes ==
  \A j \in JobsOf("persistence") :
    (status[j] = "queued" /\ phase # "new")
      ~> (status[j] = "done" \/ Closing)

\* If the gate is idle again and again, accepted enrichment runs to its end.
EnrichmentCompletes ==
  []<>GateIdle =>
    \A j \in JobsOf("enrichment") :
      (status[j] = "queued" /\ phase # "new")
        ~> (status[j] = "done" \/ Closing)

\* If the gate is idle again and again, stop() returns.
StopReturns == []<>GateIdle => (phase = "joinP" ~> phase = "stopped")

\* "Run non-urgent memory work only when live voice has yielded": an
\* enrichment job starts in a state where no turn is latency critical.
EnrichmentStartsIdle ==
  [][\A j \in Jobs :
       (LaneOf[j] = "enrichment" /\ status[j] # "running" /\ status'[j] = "running")
         => GateIdle]_vars

-----------------------------------------------------------------------------
(* The queue implements the promise of SerialExecutor. *)

SerialStatus ==
  [j \in Jobs |-> CASE status[j] = "taken" -> "queued"
                    [] status[j] = "lost" -> "aborted"
                    [] OTHER -> status[j]]

SerialMode ==
  CASE phase \in {"new", "up"} -> "open"
    [] Closing -> "closed"
    [] OTHER -> "draining"

Serial == INSTANCE SerialExecutor
            WITH status <- SerialStatus, order <- order,
                 mode <- SerialMode, owed <- covered

\* Every behaviour of the queue, seen as accepted, running and finished jobs,
\* is one of the serial executor: exclusion by key, order within a lane, full
\* lanes refusing, and a stop() that drains, in one statement.
ImplementsSerialExecutor == Serial!Spec
=============================================================================
