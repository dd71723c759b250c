-------------------------- MODULE TaskQueueProofs --------------------------
(***************************************************************************)
(* Theorems about TaskQueue, for every set of jobs, keys, workers and turns *)
(* and every MaxSize.                                                       *)
(***************************************************************************)
EXTENDS TaskQueue, SequenceTheorems, FiniteSetTheorems, TLAPS


\* The labels and outcomes the actions write.
LEMMA Labels ==
  /\ PCs = {"off", "get", "gate", "woken", "lock", "run", "done"}
  /\ Statuses = {"new", "rejected", "queued", "taken", "running", "done", "aborted", "lost"}
BY DEF PCs, Statuses

LEMMA LabelMembers ==
  /\ "get" \in PCs /\ "gate" \in PCs /\ "woken" \in PCs /\ "lock" \in PCs
  /\ "run" \in PCs /\ "done" \in PCs
  /\ "taken" \in Statuses /\ "running" \in Statuses /\ "done" \in Statuses
  /\ "aborted" \in Statuses /\ "lost" \in Statuses
  /\ "queued" \in Statuses /\ "rejected" \in Statuses
BY Labels

\* EnterJob is the only place where a job's body or a wait list is entered; it
\* keeps the types of what it writes.
LEMMA EnterJobType ==
  ASSUME TypeOK, NEW t \in Threads, NEW j \in Jobs, EnterJob(t, j)
  PROVE  /\ pc' \in [Threads -> PCs]
         /\ holder' \in [Keys -> Threads \cup {NoThread}]
         /\ waiters' \in [Keys -> Seq(Threads)]
         /\ status' \in [Jobs -> Statuses]
<1>1. KeyOf[j] \in Keys \cup {NoKey}
  BY QueueAssumption
<1>2. CASE KeyOf[j] = NoKey
  BY <1>2, LabelMembers DEF TypeOK, EnterJob, locks
<1>3. CASE KeyOf[j] # NoKey /\ holder[KeyOf[j]] = NoThread /\ waiters[KeyOf[j]] = <<>>
  <2>1. /\ holder' = [holder EXCEPT ![KeyOf[j]] = t]
        /\ pc' = [pc EXCEPT ![t] = "run"]
        /\ status' = [status EXCEPT ![j] = "running"]
        /\ waiters' = waiters
    BY <1>3 DEF EnterJob
  <2>2. QED
    BY <1>1, <1>3, <2>1, LabelMembers DEF TypeOK
<1>4. CASE KeyOf[j] # NoKey /\ (holder[KeyOf[j]] # NoThread \/ waiters[KeyOf[j]] # <<>>)
  <2>1. Append(waiters[KeyOf[j]], t) \in Seq(Threads)
    BY <1>1, <1>4 DEF TypeOK
  <2>2. /\ waiters' = [waiters EXCEPT ![KeyOf[j]] = Append(@, t)]
        /\ pc' = [pc EXCEPT ![t] = "lock"]
        /\ status' = [status EXCEPT ![j] = "taken"]
        /\ holder' = holder
    BY <1>4 DEF EnterJob
  <2>3. QED
    BY <1>1, <1>4, <2>1, <2>2, LabelMembers DEF TypeOK
<1>5. QED
  BY <1>2, <1>3, <1>4

\* enqueue keeps the types, whether it accepts or refuses.
LEMMA PutType ==
  ASSUME TypeOK, NEW j \in Jobs, Put(j)
  PROVE  /\ queue' \in [Lanes -> Seq(Jobs)]
         /\ unfinished' \in [Lanes -> SUBSET Jobs]
         /\ order' \in [Lanes -> Seq(Jobs)]
         /\ status' \in [Jobs -> Statuses]
<1>1. LaneOf[j] \in Lanes
  BY QueueAssumption
<1>2. CASE Accept(j)
  <2>1. Append(queue[LaneOf[j]], j) \in Seq(Jobs) /\ Append(order[LaneOf[j]], j) \in Seq(Jobs)
    BY <1>1 DEF TypeOK
  <2>2. QED
    BY <1>1, <1>2, <2>1 DEF TypeOK, Accept, Statuses
<1>3. CASE Reject(j)
  BY <1>3 DEF TypeOK, Reject, Statuses
<1>4. QED
  BY <1>2, <1>3 DEF Put

LEMMA TaskDoneType ==
  ASSUME TypeOK, NEW j \in Jobs, TaskDone(j)
  PROVE  unfinished' \in [Lanes -> SUBSET Jobs] /\ phase' \in Phases
BY QueueAssumption DEF TypeOK, TaskDone, Phases

\* A thread that leaves a wait list leaves a shorter list of threads.
LEMMA DropAtType ==
  ASSUME NEW S, NEW s \in Seq(S), NEW i \in DOMAIN s
  PROVE  /\ DropAt(s, i) \in Seq(S)
         /\ Len(DropAt(s, i)) = Len(s) - 1
         /\ \A n \in 1 .. (Len(s) - 1) :
              DropAt(s, i)[n] = IF n < i THEN s[n] ELSE s[n + 1]
<1>1. i \in 1 .. Len(s) /\ Len(s) \in Nat
  OBVIOUS
<1> DEFINE u == SubSeq(s, 1, i - 1)
           v == SubSeq(s, i + 1, Len(s))
<1>2. u \in Seq(S) /\ Len(u) = i - 1 /\ (\A n \in 1 .. (i - 1) : u[n] = s[n])
  BY <1>1, SubSeqProperties
<1>3. v \in Seq(S) /\ Len(v) = Len(s) - i /\ (\A n \in 1 .. (Len(s) - i) : v[n] = s[n + i])
  <2>1. CASE i = Len(s)
    BY <1>1, <2>1, SubSeqProperties
  <2>2. CASE i < Len(s)
    BY <1>1, <2>2, SubSeqProperties
  <2>3. QED
    BY <1>1, <2>1, <2>2
<1> DEFINE w == DropAt(s, i)
<1>4. w = u \o v
  BY DEF DropAt
<1>5. /\ w \in Seq(S)
      /\ Len(w) = Len(s) - 1
      /\ \A n \in 1 .. (Len(s) - 1) : w[n] = IF n <= i - 1 THEN u[n] ELSE v[n - (i - 1)]
  <2> HIDE DEF u, v, w
  <2>1. Len(u) + Len(v) = Len(s) - 1
    BY <1>1, <1>2, <1>3
  <2>2. u \in Seq(S) /\ v \in Seq(S)
    BY <1>2, <1>3
  <2>3. /\ w \in Seq(S)
        /\ Len(w) = Len(u) + Len(v)
        /\ \A n \in 1 .. Len(u) + Len(v) : w[n] = IF n <= Len(u) THEN u[n] ELSE v[n - Len(u)]
    BY <1>4, <2>2, ConcatProperties, Zenon
  <2>4. QED
    BY <1>2, <2>1, <2>3
<1> HIDE DEF u, v, w
<1>6. ASSUME NEW n \in 1 .. (Len(s) - 1)
      PROVE  w[n] = IF n < i THEN s[n] ELSE s[n + 1]
  <2>1. CASE n < i
    <3>1. n \in 1 .. (i - 1) /\ n <= i - 1
      BY <1>1, <2>1
    <3>2. w[n] = u[n] /\ u[n] = s[n]
      BY <1>2, <1>5, <3>1
    <3>3. QED
      BY <2>1, <3>2
  <2>2. CASE n >= i
    <3>1. n - (i - 1) \in 1 .. (Len(s) - i) /\ (n - (i - 1)) + i = n + 1 /\ ~(n <= i - 1) /\ ~(n < i)
      BY <1>1, <2>2
    <3>2. w[n] = v[n - (i - 1)]
      BY <1>5, <3>1
    <3>3. v[n - (i - 1)] = s[n + 1]
      BY <1>3, <3>1
    <3>4. QED
      BY <3>1, <3>2, <3>3
  <2>3. QED
    BY <1>1, <2>1, <2>2
<1>7. /\ w \in Seq(S)
      /\ Len(w) = Len(s) - 1
      /\ \A n \in 1 .. (Len(s) - 1) : w[n] = IF n < i THEN s[n] ELSE s[n + 1]
  BY <1>5, <1>6
<1>8. QED
  BY <1>7 DEF w

\* A thread past get() has a job, and only a started queue has live threads.
JobInHand ==
  \A t \in Threads : pc[t] \in {"gate", "woken", "lock", "run"} => job[t] \in Jobs

-----------------------------------------------------------------------------
TypeInv == TypeOK /\ JobInHand

LEMMA InitType == Init => TypeInv
BY QueueAssumption DEF Init, TypeInv, TypeOK, JobInHand, GateInit, PCs, Phases, Statuses

LEMMA ThreadStepType ==
  ASSUME TypeInv, NEW t \in Threads, ThreadStep(t)
  PROVE  TypeInv'
<1> USE QueueAssumption DEF TypeInv, JobInHand
<1>1. CASE Dequeue(t)
  <2>1. Head(queue["persistence"]) \in Jobs /\ Tail(queue["persistence"]) \in Seq(Jobs)
    BY <1>1 DEF Dequeue, TypeOK, Lanes
  <2>2. QED
    BY ZenonT(40), <1>1, <2>1, EnterJobType DEF Dequeue, TypeOK, EnterJob, locks, history, Lanes
<1>2. CASE TakeEnrichment(t)
  <2>1. Head(queue["enrichment"]) \in Jobs /\ Tail(queue["enrichment"]) \in Seq(Jobs)
    BY <1>2 DEF TakeEnrichment, TypeOK, Lanes
  <2>2. QED
    BY ZenonT(40), <1>2, <2>1, EnterJobType DEF TakeEnrichment, TypeOK, EnterJob, locks, history, Lanes
<1>3. CASE HoldEnrichment(t)
  <2>1. Head(queue["enrichment"]) \in Jobs /\ Tail(queue["enrichment"]) \in Seq(Jobs)
    BY <1>3 DEF HoldEnrichment, TypeOK, Lanes
  <2>2. QED
    BY <1>3, <2>1 DEF HoldEnrichment, TypeOK, locks, history, Lanes, PCs, Statuses
<1>4. CASE ResumeEnrichment(t)
  <2>1. job[t] \in Jobs
    BY <1>4 DEF ResumeEnrichment
  <2>2. QED
    BY <1>4, <2>1, EnterJobType DEF ResumeEnrichment, TypeOK, EnterJob, locks, history
<1>5. CASE LockGranted(t)
  <2>1. job[t] \in Jobs
    BY <1>5 DEF LockGranted
  <2>2. waiters' \in [Keys -> Seq(Threads)]
    <3>1. job[t] \in Jobs /\ KeyOf[job[t]] \in Keys \cup {NoKey}
      BY <2>1
    <3>2. waiters' = [waiters EXCEPT ![KeyOf[job[t]]] = Tail(@)]
      BY <1>5 DEF LockGranted
    <3>3. CASE KeyOf[job[t]] \in Keys
      <4>1. Tail(waiters[KeyOf[job[t]]]) \in Seq(Threads)
        BY <1>5, <3>3 DEF LockGranted, TypeOK
      <4>2. QED
        BY <3>2, <4>1 DEF TypeOK
    <3>4. CASE KeyOf[job[t]] = NoKey
      BY <3>2, <3>4 DEF TypeOK
    <3>5. QED
      BY <3>1, <3>3, <3>4
  <2>3. QED
    BY <1>5, <2>1, <2>2, LabelMembers DEF LockGranted, TypeOK, history
<1>6. CASE Spawn(t)
  <2>1. ChildOf[job[t]] \in Jobs
    BY <1>6 DEF Spawn
  <2>2. QED
    BY <1>6, <2>1, PutType DEF Spawn, TypeOK, locks
<1>7. CASE Finish(t)
  <2>1. job[t] \in Jobs
    BY <1>7 DEF Finish
  <2>2. holder' \in [Keys -> Threads \cup {NoThread}]
    BY <1>7 DEF Finish, Release, TypeOK
  <2>3. QED
    BY <1>7, <2>1, <2>2, TaskDoneType DEF Finish, TypeOK, history, PCs, Statuses
<1>8. CASE CancelIdle(t)
  BY <1>8 DEF CancelIdle, TypeOK, locks, history, PCs
<1>9. CASE CancelGated(t)
  BY <1>9 DEF CancelGated, TypeOK, locks, history, PCs, Statuses
<1>10. CASE CancelWaiting(t)
  <2>1. job[t] \in Jobs
    BY <1>10 DEF CancelWaiting
  <2>2. waiters' \in [Keys -> Seq(Threads)]
    <3>1. PICK i \in DOMAIN waiters[KeyOf[job[t]]] :
            waiters' = [waiters EXCEPT ![KeyOf[job[t]]] = DropAt(@, i)]
      BY <1>10 DEF CancelWaiting
    <3>2. CASE KeyOf[job[t]] \in Keys
      <4>1. DropAt(waiters[KeyOf[job[t]]], i) \in Seq(Threads)
        BY <3>2, DropAtType DEF TypeOK
      <4>2. QED
        BY <3>1, <4>1 DEF TypeOK
    <3>3. CASE KeyOf[job[t]] = NoKey
      BY <3>1, <3>3 DEF TypeOK
    <3>4. QED
      BY <2>1, <3>2, <3>3
  <2>3. QED
    BY <1>10, <2>1, <2>2, TaskDoneType, LabelMembers
    DEF CancelWaiting, AbortJob, TypeOK, history
<1>11. CASE CancelRunning(t)
  <2>1. job[t] \in Jobs
    BY <1>11 DEF CancelRunning
  <2>2. holder' \in [Keys -> Threads \cup {NoThread}]
    BY <1>11 DEF CancelRunning, Release, TypeOK
  <2>3. QED
    BY <1>11, <2>1, <2>2, TaskDoneType, LabelMembers
    DEF CancelRunning, AbortJob, TypeOK, history
<1>12. QED
  BY <1>1, <1>2, <1>3, <1>4, <1>5, <1>6, <1>7, <1>8, <1>9, <1>10, <1>11 DEF ThreadStep

LEMMA StepType == TypeInv /\ [Next]_vars => TypeInv'
<1> SUFFICES ASSUME TypeInv, [Next]_vars
             PROVE  TypeInv'
  OBVIOUS
<1> USE QueueAssumption DEF TypeInv, JobInHand
<1>1. ASSUME NEW j \in Jobs, Enqueue(j)
      PROVE  TypeInv'
  BY <1>1, PutType DEF Enqueue, TypeOK, locks
<1>2. ASSUME NEW t \in Threads, ThreadStep(t)
      PROVE  TypeInv'
  BY <1>2, ThreadStepType
<1>3. CASE Start
  BY <1>3 DEF Start, TypeOK, locks, history, PCs, Phases
<1>4. CASE StopCall
  BY <1>4 DEF StopCall, TypeOK, locks, Phases, AfterPersistence, Unsettled
<1>5. CASE StopStep
  <2>1. CASE StopResume
    BY <1>5, <2>1 DEF StopResume, TypeOK, locks, history, Phases, AfterPersistence
  <2>2. CASE StopReturn
    <3>1. waiters' \in [Keys -> Seq(Threads)]
      BY <2>2 DEF StopReturn
    <3>2. holder' \in [Keys -> Threads \cup {NoThread}]
      BY <2>2 DEF StopReturn
    <3>3. QED
      BY <2>2, <3>1, <3>2 DEF StopReturn, TypeOK, history, Phases
  <2>3. QED
    BY <1>5, <2>1, <2>2 DEF StopStep
<1>6. ASSUME NEW k \in Turns, BeginTurn(k)
      PROVE  TypeInv'
  BY <1>6 DEF BeginTurn, GateBegin, TypeOK, locks, history
<1>7. ASSUME NEW k \in Turns, EndTurn(k)
      PROVE  TypeInv'
  BY <1>7 DEF EndTurn, GateEnd, TypeOK, locks, history, PCs
<1>8. CASE UNCHANGED vars
  BY <1>8 DEF vars, TypeOK
<1>9. QED
  BY <1>1, <1>2, <1>3, <1>4, <1>5, <1>6, <1>7, <1>8 DEF Next

\* The queue's variables keep their types.
THEOREM TypeCorrect == Spec => []TypeOK
<1>1. TypeInv => TypeOK
  BY DEF TypeInv
<1>2. QED
  BY InitType, StepType, <1>1, PTL DEF Spec

-----------------------------------------------------------------------------
(***************************************************************************)
(* Exclusion by key.  The lock of a key is held by the thread that runs a   *)
(* job of that key and by no other; that makes the exclusion inductive.     *)
(* stop() forgets the locks, so it also matters who is left by then.        *)
(***************************************************************************)

LockInv ==
  \A k \in Keys, t \in Threads :
    holder[k] = t <=> (pc[t] = "run" /\ KeyOf[job[t]] = k)

PhaseInv ==
  /\ phase = "new" => \A t \in Threads : pc[t] = "off"
  /\ phase \in {"cancelE", "stopped"} => \A w \in Workers : pc[w] = "done"
  /\ phase = "stopped" => pc[Enricher] = "done"

ExclusionInv == TypeInv /\ LockInv /\ PhaseInv

\* What EnterJob leaves behind, without its three cases.
LEMMA EnterJobFacts ==
  ASSUME TypeOK, NEW t \in Threads, NEW j \in Jobs, EnterJob(t, j)
  PROVE  /\ pc'[t] \in {"run", "lock"}
         /\ \A u \in Threads : u # t => pc'[u] = pc[u]
         /\ pc'[t] = "run" => status' = [status EXCEPT ![j] = "running"]
         /\ pc'[t] = "lock" => status' = [status EXCEPT ![j] = "taken"]
         /\ \/ /\ pc'[t] = "run" /\ KeyOf[j] # NoKey
               /\ holder[KeyOf[j]] = NoThread
               /\ holder' = [holder EXCEPT ![KeyOf[j]] = t]
            \/ /\ pc'[t] = "run" => KeyOf[j] = NoKey
               /\ holder' = holder
<1>1. CASE KeyOf[j] = NoKey
  BY <1>1 DEF TypeOK, EnterJob, locks
<1>2. CASE KeyOf[j] # NoKey /\ holder[KeyOf[j]] = NoThread /\ waiters[KeyOf[j]] = <<>>
  <2>1. /\ holder' = [holder EXCEPT ![KeyOf[j]] = t]
        /\ pc' = [pc EXCEPT ![t] = "run"]
        /\ status' = [status EXCEPT ![j] = "running"]
    BY <1>2 DEF EnterJob
  <2>2. QED
    BY <1>2, <2>1 DEF TypeOK
<1>3. CASE KeyOf[j] # NoKey /\ (holder[KeyOf[j]] # NoThread \/ waiters[KeyOf[j]] # <<>>)
  <2>1. /\ pc' = [pc EXCEPT ![t] = "lock"]
        /\ status' = [status EXCEPT ![j] = "taken"]
        /\ holder' = holder
    BY <1>3 DEF EnterJob
  <2>2. QED
    BY <2>1 DEF TypeOK
<1>4. QED
  BY <1>1, <1>2, <1>3

\* A thread that was not running and enters a job keeps the locks consistent.
LEMMA EnterJobLocks ==
  ASSUME TypeOK, LockInv, NEW t \in Threads, NEW j \in Jobs, EnterJob(t, j),
         pc[t] # "run", job' = [job EXCEPT ![t] = j] \/ (job' = job /\ job[t] = j)
  PROVE  LockInv'
<1> SUFFICES ASSUME NEW k \in Keys, NEW u \in Threads
             PROVE  holder'[k] = u <=> (pc'[u] = "run" /\ KeyOf[job'[u]] = k)
  BY DEF LockInv
<1>1. holder[k] = u <=> (pc[u] = "run" /\ KeyOf[job[u]] = k)
  BY DEF LockInv
<1>2. job'[t] = j /\ (u # t => job'[u] = job[u])
  BY DEF TypeOK
<1>3. NoThread # u /\ NoKey # k /\ holder[k] # t
  BY QueueAssumption DEF LockInv
<1>4. CASE /\ pc'[t] = "run" /\ KeyOf[j] # NoKey
           /\ holder[KeyOf[j]] = NoThread
           /\ holder' = [holder EXCEPT ![KeyOf[j]] = t]
  <2>1. CASE k = KeyOf[j]
    BY <1>1, <1>2, <1>3, <1>4, <2>1, EnterJobFacts DEF TypeOK
  <2>2. CASE k # KeyOf[j]
    BY <1>1, <1>2, <1>3, <1>4, <2>2, EnterJobFacts DEF TypeOK
  <2>3. QED
    BY <2>1, <2>2
<1>5. CASE (pc'[t] = "run" => KeyOf[j] = NoKey) /\ holder' = holder
  BY <1>1, <1>2, <1>3, <1>5, EnterJobFacts
<1>6. QED
  BY <1>4, <1>5, EnterJobFacts

\* A thread that leaves a job leaves its lock.
LEMMA ReleaseLocks ==
  ASSUME TypeOK, LockInv, NEW t \in Threads, Release(t),
         \A u \in Threads : u # t => pc'[u] = pc[u] /\ job'[u] = job[u],
         pc'[t] # "run"
  PROVE  LockInv'
<1> SUFFICES ASSUME NEW k \in Keys, NEW u \in Threads
             PROVE  holder'[k] = u <=> (pc'[u] = "run" /\ KeyOf[job'[u]] = k)
  BY DEF LockInv
<1>1. holder[k] = u <=> (pc[u] = "run" /\ KeyOf[job[u]] = k)
  BY DEF LockInv
<1>2. holder'[k] = IF holder[k] = t THEN NoThread ELSE holder[k]
  BY DEF Release
<1>3. NoThread # u
  BY QueueAssumption
<1>4. QED
  BY <1>1, <1>2, <1>3

LEMMA InitExclusion == Init => ExclusionInv
BY InitType, QueueAssumption DEF Init, ExclusionInv, LockInv, PhaseInv

\* Threads that do not enter or leave a job, and callers, leave the locks alone.
LEMMA LocksUntouched ==
  ASSUME LockInv, holder' = holder,
         \A u \in Threads :
           (pc'[u] = "run" <=> pc[u] = "run") /\ (pc[u] = "run" => job'[u] = job[u])
  PROVE  LockInv'
BY DEF LockInv

LEMMA ThreadStepLocks ==
  ASSUME ExclusionInv, NEW t \in Threads, ThreadStep(t)
  PROVE  LockInv'
<1>0. TypeOK /\ JobInHand /\ LockInv /\ QueueAssumption
  BY QueueAssumption DEF ExclusionInv, TypeInv
<1>1. CASE Dequeue(t)
  <2>1. Head(queue["persistence"]) \in Jobs
    BY <1>0, <1>1 DEF Dequeue, TypeOK, Lanes
  <2>2. QED
    BY <1>0, <1>1, <2>1, EnterJobLocks DEF Dequeue
<1>2. CASE TakeEnrichment(t)
  <2>1. Head(queue["enrichment"]) \in Jobs
    BY <1>0, <1>2 DEF TakeEnrichment, TypeOK, Lanes
  <2>2. QED
    BY <1>0, <1>2, <2>1, EnterJobLocks DEF TakeEnrichment
<1>3. CASE HoldEnrichment(t)
  BY <1>0, <1>3, LocksUntouched DEF HoldEnrichment, TypeOK, locks
<1>4. CASE ResumeEnrichment(t)
  BY <1>0, <1>4, EnterJobLocks DEF ResumeEnrichment, JobInHand
<1>5. CASE LockGranted(t)
  <2> SUFFICES ASSUME NEW k \in Keys, NEW u \in Threads
               PROVE  holder'[k] = u <=> (pc'[u] = "run" /\ KeyOf[job'[u]] = k)
    BY DEF LockInv
  <2>1. holder[k] = u <=> (pc[u] = "run" /\ KeyOf[job[u]] = k)
    BY <1>0 DEF LockInv
  <2>2. /\ job' = job /\ pc' = [pc EXCEPT ![t] = "run"] /\ pc[t] # "run"
        /\ holder' = [holder EXCEPT ![KeyOf[job[t]]] = t]
        /\ holder[KeyOf[job[t]]] = NoThread
    BY <1>5 DEF LockGranted
  <2>3. NoThread # u /\ holder[k] # t
    BY <1>0, <2>2 DEF LockInv
  <2>4. CASE k = KeyOf[job[t]]
    BY <1>0, <2>1, <2>2, <2>3, <2>4 DEF TypeOK
  <2>5. CASE k # KeyOf[job[t]]
    BY <1>0, <2>1, <2>2, <2>3, <2>5 DEF TypeOK
  <2>6. QED
    BY <2>4, <2>5
<1>6. CASE Spawn(t)
  BY <1>0, <1>6, LocksUntouched DEF Spawn, locks
<1>7. CASE Finish(t)
  BY <1>0, <1>7, ReleaseLocks DEF Finish, TypeOK
<1>8. CASE CancelIdle(t)
  BY <1>0, <1>8, LocksUntouched DEF CancelIdle, TypeOK, locks
<1>9. CASE CancelGated(t)
  BY <1>0, <1>9, LocksUntouched DEF CancelGated, TypeOK, locks
<1>10. CASE CancelWaiting(t)
  BY <1>0, <1>10, LocksUntouched DEF CancelWaiting, AbortJob, TypeOK
<1>11. CASE CancelRunning(t)
  BY <1>0, <1>11, ReleaseLocks DEF CancelRunning, AbortJob, TypeOK
<1>12. QED
  BY <1>1, <1>2, <1>3, <1>4, <1>5, <1>6, <1>7, <1>8, <1>9, <1>10, <1>11 DEF ThreadStep

\* No thread leaves "done", and the phases before and after a thread's step
\* differ at most by a join() that was woken.
LEMMA ThreadStepPhase ==
  ASSUME ExclusionInv, NEW t \in Threads, ThreadStep(t)
  PROVE  PhaseInv'
<1>1. TypeOK /\ PhaseInv
  BY DEF ExclusionInv, TypeInv
<1>2. pc[t] \notin {"off", "done"}
  BY <1>1 DEF ThreadStep, Dequeue, TakeEnrichment, HoldEnrichment, ResumeEnrichment,
       LockGranted, Spawn, Finish, CancelIdle, CancelGated, CancelWaiting, CancelRunning
<1>3. \A u \in Threads : u # t => pc'[u] = pc[u]
  <2>1. CASE Dequeue(t) \/ TakeEnrichment(t) \/ ResumeEnrichment(t)
    BY <1>1, <2>1 DEF Dequeue, TakeEnrichment, ResumeEnrichment, EnterJob, TypeOK
  <2>2. CASE ~(Dequeue(t) \/ TakeEnrichment(t) \/ ResumeEnrichment(t))
    BY <1>1, <2>2 DEF ThreadStep, HoldEnrichment, LockGranted, Spawn, Finish, CancelIdle,
         CancelGated, CancelWaiting, CancelRunning, AbortJob, TypeOK
  <2>3. QED
    BY <2>1, <2>2
<1>4. phase' = phase \/ phase' \in {"wokenP", "wokenE"}
  BY DEF ThreadStep, Dequeue, TakeEnrichment, HoldEnrichment, ResumeEnrichment, LockGranted,
       Spawn, Finish, CancelIdle, CancelGated, CancelWaiting, CancelRunning, AbortJob, TaskDone
<1>5. phase # "new"
  BY <1>1, <1>2 DEF PhaseInv
<1>6. QED
  BY <1>1, <1>2, <1>3, <1>4, <1>5 DEF PhaseInv, Threads

LEMMA StepExclusion == ExclusionInv /\ [Next]_vars => ExclusionInv'
<1> SUFFICES ASSUME ExclusionInv, [Next]_vars
             PROVE  LockInv' /\ PhaseInv'
  BY StepType DEF ExclusionInv
<1>0. TypeOK /\ JobInHand /\ LockInv /\ PhaseInv /\ QueueAssumption
  BY QueueAssumption DEF ExclusionInv, TypeInv
<1>1. ASSUME NEW j \in Jobs, Enqueue(j)
      PROVE  LockInv' /\ PhaseInv'
  BY <1>0, <1>1, LocksUntouched DEF Enqueue, locks, PhaseInv
<1>2. ASSUME NEW t \in Threads, ThreadStep(t)
      PROVE  LockInv' /\ PhaseInv'
  BY <1>2, ThreadStepLocks, ThreadStepPhase
<1>3. CASE Start
  <2>1. \A u \in Threads : pc[u] = "off" /\ pc'[u] = "get"
    BY <1>0, <1>3 DEF Start, PhaseInv
  <2>2. QED
    BY <1>0, <1>3, <2>1, LocksUntouched DEF Start, locks, PhaseInv
<1>4. CASE StopCall
  BY <1>0, <1>4, LocksUntouched DEF StopCall, AfterPersistence, locks, PhaseInv
<1>5. CASE StopResume
  BY <1>0, <1>5, LocksUntouched DEF StopResume, AfterPersistence, locks, PhaseInv
<1>6. CASE StopReturn
  <2>1. \A u \in Threads : pc[u] = "done"
    BY <1>0, <1>6 DEF StopReturn, PhaseInv, Threads
  <2>2. LockInv'
    BY <1>0, <1>6, <2>1 DEF StopReturn, LockInv
  <2>3. QED
    BY <1>0, <1>6, <2>1, <2>2 DEF StopReturn, PhaseInv, Threads
<1>7. ASSUME NEW k \in Turns, BeginTurn(k)
      PROVE  LockInv' /\ PhaseInv'
  BY <1>0, <1>7, LocksUntouched DEF BeginTurn, locks, PhaseInv
<1>8. ASSUME NEW k \in Turns, EndTurn(k)
      PROVE  LockInv' /\ PhaseInv'
  <2>1. \A u \in Threads : pc'[u] = pc[u] \/ (pc[u] = "gate" /\ pc'[u] = "woken")
    BY <1>8 DEF EndTurn
  <2>2. QED
    BY <1>0, <1>8, <2>1, LocksUntouched DEF EndTurn, locks, PhaseInv, Threads
<1>9. CASE UNCHANGED vars
  BY <1>0, <1>9, LocksUntouched DEF vars, PhaseInv
<1>10. QED
  BY <1>1, <1>2, <1>3, <1>4, <1>5, <1>6, <1>7, <1>8, <1>9 DEF Next, StopStep

\* Jobs with one key never run at the same time, whichever lanes they came by.
THEOREM Exclusion == Spec => []KeyExclusive
<1>1. ExclusionInv => KeyExclusive
  <2> SUFFICES ASSUME ExclusionInv, NEW t \in Threads, NEW u \in Threads,
                      t # u, pc[t] = "run", pc[u] = "run", KeyOf[job[t]] = KeyOf[job[u]]
               PROVE  KeyOf[job[t]] = NoKey
    BY DEF KeyExclusive
  <2>1. job[t] \in Jobs
    BY DEF ExclusionInv, TypeInv, JobInHand
  <2>2. KeyOf[job[t]] \in Keys \cup {NoKey}
    BY <2>1, QueueAssumption
  <2>3. QED
    BY <2>2 DEF ExclusionInv, LockInv
<1>2. QED
  BY InitExclusion, StepExclusion, <1>1, PTL DEF Spec

-----------------------------------------------------------------------------
(***************************************************************************)
(* Accounting.  A job in a lane's queue is "queued" and there once; a job   *)
(* in a thread's hand is "taken" or "running" and in one hand.              *)
(***************************************************************************)

QueueInv ==
  \A l \in Lanes : \A m, n \in DOMAIN queue[l] :
    /\ LaneOf[queue[l][m]] = l
    /\ status[queue[l][m]] = "queued"
    /\ queue[l][m] = queue[l][n] => m = n

HandInv ==
  \A t \in Threads :
    /\ pc[t] \in {"gate", "woken", "lock"} => status[job[t]] = "taken"
    /\ pc[t] = "run" => status[job[t]] = "running"
    /\ pc[t] \in {"off", "get", "done"} => job[t] = NoJob
    /\ \A u \in Threads : job[t] = job[u] /\ job[t] # NoJob => t = u

Account == QueueInv /\ HandInv /\ JoinCounts

\* The elements of a tail.
LEMMA TailAt ==
  ASSUME NEW S, NEW s \in Seq(S), s # <<>>, NEW m \in DOMAIN Tail(s)
  PROVE  m \in Nat \ {0} /\ m + 1 \in DOMAIN s /\ Tail(s)[m] = s[m + 1]
<1>1. /\ Tail(s) \in Seq(S) /\ Len(Tail(s)) = Len(s) - 1
      /\ \A i \in 1 .. Len(Tail(s)) : Tail(s)[i] = s[i + 1]
  BY HeadTailProperties
<1>2. m \in 1 .. Len(Tail(s)) /\ Len(s) \in Nat /\ DOMAIN s = 1 .. Len(s)
  BY <1>1
<1>3. QED
  BY <1>1, <1>2

\* The lanes of what a thread takes: the job at the head leaves its queue.
LEMMA TakeHead ==
  ASSUME TypeOK, QueueInv, NEW l \in Lanes, queue[l] # <<>>,
         queue' = [queue EXCEPT ![l] = Tail(@)]
  PROVE  /\ Head(queue[l]) \in Jobs
         /\ LaneOf[Head(queue[l])] = l
         /\ status[Head(queue[l])] = "queued"
         /\ \A k \in Lanes : \A m, n \in DOMAIN queue'[k] :
              /\ LaneOf[queue'[k][m]] = k
              /\ status[queue'[k][m]] = "queued"
              /\ queue'[k][m] # Head(queue[l])
              /\ queue'[k][m] = queue'[k][n] => m = n
<1>1. /\ queue[l] \in Seq(Jobs) /\ Len(queue[l]) \in Nat \ {0}
      /\ Head(queue[l]) = queue[l][1] /\ 1 \in DOMAIN queue[l]
  BY DEF TypeOK
<1>2. /\ Head(queue[l]) \in Jobs
      /\ LaneOf[Head(queue[l])] = l
      /\ status[Head(queue[l])] = "queued"
  BY <1>1 DEF QueueInv
<1>3. ASSUME NEW k \in Lanes, NEW m \in DOMAIN queue'[k], NEW n \in DOMAIN queue'[k]
      PROVE  /\ LaneOf[queue'[k][m]] = k
             /\ status[queue'[k][m]] = "queued"
             /\ queue'[k][m] # Head(queue[l])
             /\ queue'[k][m] = queue'[k][n] => m = n
  <2>1. CASE k = l
    <3>1. queue'[k] = Tail(queue[l])
      BY <2>1 DEF TypeOK
    <3>2. /\ m + 1 \in DOMAIN queue[l] /\ n + 1 \in DOMAIN queue[l] /\ m \in Nat \ {0} /\ n \in Nat
          /\ queue'[k][m] = queue[l][m + 1] /\ queue'[k][n] = queue[l][n + 1]
      BY <1>1, <2>1, <3>1, TailAt
    <3>3. QED
      BY <1>1, <2>1, <3>2 DEF QueueInv
  <2>2. CASE k # l
    <3>1. queue'[k] = queue[k]
      BY <2>2 DEF TypeOK
    <3>2. QED
      BY <1>2, <2>2, <3>1 DEF QueueInv
  <2>3. QED
    BY <2>1, <2>2
<1>4. QED
  BY <1>2, <1>3

\* A thread with no job takes a "queued" one that is in no queue any more.
LEMMA TakeAccount ==
  ASSUME TypeOK, TypeOK', JobInHand, Account,
         NEW t \in Threads, pc[t] = "get",
         NEW l \in Lanes, queue[l] # <<>>,
         queue' = [queue EXCEPT ![l] = Tail(@)],
         job' = [job EXCEPT ![t] = Head(queue[l])],
         \A u \in Threads : u # t => pc'[u] = pc[u],
         \/ /\ pc'[t] = "run"
            /\ status' = [status EXCEPT ![Head(queue[l])] = "running"]
         \/ /\ pc'[t] \in {"lock", "gate"}
            /\ status' = [status EXCEPT ![Head(queue[l])] = "taken"],
         unfinished' = unfinished
  PROVE  Account'
<1> DEFINE j == Head(queue[l])
<1>0. /\ j \in Jobs /\ LaneOf[j] = l /\ status[j] = "queued"
      /\ \A k \in Lanes : \A m, n \in DOMAIN queue'[k] :
           /\ LaneOf[queue'[k][m]] = k
           /\ status[queue'[k][m]] = "queued"
           /\ queue'[k][m] # j
           /\ queue'[k][m] = queue'[k][n] => m = n
  <2>1. QueueInv
    BY DEF Account
  <2>2. QED
    BY <2>1, TakeHead, Zenon
<1>1. j \in Jobs /\ LaneOf[j] = l /\ status[j] = "queued"
  BY <1>0
<1>2. status'[j] \in {"taken", "running"} /\ \A i \in Jobs : i # j => status'[i] = status[i]
  BY <1>1 DEF TypeOK
<1>3. job'[t] = j /\ \A u \in Threads : u # t => job'[u] = job[u] /\ job[u] # j
  <2>1. ASSUME NEW u \in Threads, job[u] = j
        PROVE  FALSE
    <3>1. j # NoJob /\ pc[u] \in PCs
      BY <1>1, QueueAssumption DEF TypeOK
    <3>2. QED
      BY <1>1, <2>1, <3>1 DEF Account, HandInv, PCs
  <2>2. QED
    BY <2>1 DEF TypeOK
<1>4. QueueInv'
  <2> SUFFICES ASSUME NEW k \in Lanes, NEW m \in DOMAIN queue'[k], NEW n \in DOMAIN queue'[k]
               PROVE  /\ LaneOf[queue'[k][m]] = k
                      /\ status'[queue'[k][m]] = "queued"
                      /\ queue'[k][m] = queue'[k][n] => m = n
    BY DEF QueueInv
  <2>1. queue'[k][m] \in Jobs
    BY DEF TypeOK
  <2>2. /\ LaneOf[queue'[k][m]] = k
        /\ status[queue'[k][m]] = "queued"
        /\ queue'[k][m] # j
        /\ queue'[k][m] = queue'[k][n] => m = n
    BY <1>0
  <2>3. QED
    BY <1>2, <2>1, <2>2
<1>5. HandInv'
  <2> SUFFICES ASSUME NEW u \in Threads
               PROVE  /\ pc'[u] \in {"gate", "woken", "lock"} => status'[job'[u]] = "taken"
                      /\ pc'[u] = "run" => status'[job'[u]] = "running"
                      /\ pc'[u] \in {"off", "get", "done"} => job'[u] = NoJob
                      /\ \A v \in Threads : job'[u] = job'[v] /\ job'[u] # NoJob => u = v
    BY DEF HandInv
  <2>1. \A v \in Threads : job'[u] = job'[v] /\ job'[u] # NoJob => u = v
    BY <1>3 DEF Account, HandInv
  <2>2. CASE u = t
    <3>1. pc'[t] = "run" => status'[j] = "running"
      BY <1>1 DEF TypeOK
    <3>2. pc'[t] \in {"gate", "woken", "lock"} => status'[j] = "taken"
      BY <1>1 DEF TypeOK
    <3>3. pc'[t] \notin {"off", "get", "done"}
      OBVIOUS
    <3>4. QED
      BY <1>3, <2>1, <2>2, <3>1, <3>2, <3>3
  <2>3. CASE u # t
    <3>1. job'[u] = job[u] /\ job[u] # j /\ pc'[u] = pc[u]
      BY <1>3, <2>3
    <3>2. pc[u] \in {"gate", "woken", "lock", "run"} => status'[job'[u]] = status[job[u]]
      BY <1>2, <3>1 DEF JobInHand
    <3>3. QED
      BY <2>1, <3>1, <3>2 DEF Account, HandInv
  <2>4. QED
    BY <2>2, <2>3
<1>6. JoinCounts'
  BY <1>1, <1>2 DEF Account, JoinCounts
<1>7. QED
  BY <1>4, <1>5, <1>6 DEF Account

\* A thread keeps the job in its hand and goes on with it.
LEMMA KeepAccount ==
  ASSUME TypeOK, JobInHand, Account,
         NEW t \in Threads, pc[t] \in {"woken", "lock"},
         \A u \in Threads : u # t => pc'[u] = pc[u],
         \/ /\ pc'[t] = "run"
            /\ status' = [status EXCEPT ![job[t]] = "running"]
         \/ /\ pc'[t] = "lock"
            /\ status' = [status EXCEPT ![job[t]] = "taken"],
         job' = job, queue' = queue, unfinished' = unfinished
  PROVE  Account'
<1>1. job[t] \in Jobs /\ job[t] # NoJob /\ status[job[t]] = "taken"
  BY QueueAssumption DEF JobInHand, Account, HandInv
<1>2. /\ pc'[t] = "run" => status'[job[t]] = "running"
      /\ pc'[t] = "lock" => status'[job[t]] = "taken"
      /\ \A i \in Jobs : i # job[t] => status'[i] = status[i]
  BY <1>1 DEF TypeOK
<1>3. QueueInv'
  <2> SUFFICES ASSUME NEW k \in Lanes, NEW m \in DOMAIN queue[k], NEW n \in DOMAIN queue[k]
               PROVE  /\ LaneOf[queue[k][m]] = k
                      /\ status'[queue[k][m]] = "queued"
                      /\ queue[k][m] = queue[k][n] => m = n
    BY DEF QueueInv
  <2>1. /\ LaneOf[queue[k][m]] = k
        /\ status[queue[k][m]] = "queued"
        /\ queue[k][m] = queue[k][n] => m = n
    BY DEF Account, QueueInv
  <2>2. queue[k][m] \in Jobs
    BY DEF TypeOK
  <2>3. QED
    BY <1>1, <1>2, <2>1, <2>2
<1>4. HandInv'
  <2> SUFFICES ASSUME NEW u \in Threads
               PROVE  /\ pc'[u] \in {"gate", "woken", "lock"} => status'[job[u]] = "taken"
                      /\ pc'[u] = "run" => status'[job[u]] = "running"
                      /\ pc'[u] \in {"off", "get", "done"} => job[u] = NoJob
                      /\ \A v \in Threads : job[u] = job[v] /\ job[u] # NoJob => u = v
    BY DEF HandInv
  <2>1. \A v \in Threads : job[u] = job[v] /\ job[u] # NoJob => u = v
    BY DEF Account, HandInv
  <2>2. CASE u = t
    BY <1>2, <2>1, <2>2
  <2>3. CASE u # t
    <3>1. pc'[u] = pc[u] /\ job[u] # job[t]
      BY <1>1, <2>1, <2>3
    <3>2. pc[u] \in {"gate", "woken", "lock", "run"} => status'[job[u]] = status[job[u]]
      BY <1>2, <3>1 DEF JobInHand
    <3>3. QED
      BY <2>1, <3>1, <3>2 DEF Account, HandInv
  <2>4. QED
    BY <2>2, <2>3
<1>5. JoinCounts'
  BY <1>1, <1>2 DEF Account, JoinCounts
<1>6. QED
  BY <1>3, <1>4, <1>5 DEF Account

\* A thread lets go of its job: finished and counted off, or lost.
LEMMA LeaveAccount ==
  ASSUME TypeOK, JobInHand, Account,
         NEW t \in Threads, pc[t] \in {"gate", "woken", "lock", "run"},
         pc'[t] \in {"get", "done"},
         \A u \in Threads : u # t => pc'[u] = pc[u],
         \/ /\ \E end \in {"done", "aborted"} : status' = [status EXCEPT ![job[t]] = end]
            /\ unfinished' = [unfinished EXCEPT ![LaneOf[job[t]]] = @ \ {job[t]}]
         \/ /\ status' = [status EXCEPT ![job[t]] = "lost"]
            /\ unfinished' = unfinished,
         job' = [job EXCEPT ![t] = NoJob], queue' = queue
  PROVE  Account'
<1>1. /\ job[t] \in Jobs /\ job[t] # NoJob /\ status[job[t]] \in {"taken", "running"}
      /\ LaneOf[job[t]] \in Lanes
  BY QueueAssumption DEF JobInHand, Account, HandInv
<1>2. /\ status'[job[t]] \in {"done", "aborted", "lost"}
      /\ \A i \in Jobs : i # job[t] => status'[i] = status[i]
  BY <1>1 DEF TypeOK
<1>3. QueueInv'
  <2> SUFFICES ASSUME NEW k \in Lanes, NEW m \in DOMAIN queue[k], NEW n \in DOMAIN queue[k]
               PROVE  /\ LaneOf[queue[k][m]] = k
                      /\ status'[queue[k][m]] = "queued"
                      /\ queue[k][m] = queue[k][n] => m = n
    BY DEF QueueInv
  <2>1. /\ LaneOf[queue[k][m]] = k
        /\ status[queue[k][m]] = "queued"
        /\ queue[k][m] = queue[k][n] => m = n
    BY DEF Account, QueueInv
  <2>2. queue[k][m] \in Jobs
    BY DEF TypeOK
  <2>3. QED
    BY <1>1, <1>2, <2>1, <2>2
<1>4. HandInv'
  <2> SUFFICES ASSUME NEW u \in Threads
               PROVE  /\ pc'[u] \in {"gate", "woken", "lock"} => status'[job'[u]] = "taken"
                      /\ pc'[u] = "run" => status'[job'[u]] = "running"
                      /\ pc'[u] \in {"off", "get", "done"} => job'[u] = NoJob
                      /\ \A v \in Threads : job'[u] = job'[v] /\ job'[u] # NoJob => u = v
    BY DEF HandInv
  <2>1. job'[t] = NoJob /\ \A v \in Threads : v # t => job'[v] = job[v]
    BY DEF TypeOK
  <2>2. \A v \in Threads : job'[u] = job'[v] /\ job'[u] # NoJob => u = v
    BY <2>1 DEF Account, HandInv
  <2>3. CASE u = t
    BY <2>1, <2>2, <2>3
  <2>4. CASE u # t
    <3>1. pc'[u] = pc[u] /\ job'[u] = job[u] /\ job[u] # job[t]
      BY <1>1, <2>1, <2>4 DEF Account, HandInv
    <3>2. pc[u] \in {"gate", "woken", "lock", "run"} => status'[job[u]] = status[job[u]]
      BY <1>2, <3>1 DEF JobInHand
    <3>3. QED
      BY <2>2, <3>1, <3>2 DEF Account, HandInv
  <2>5. QED
    BY <2>3, <2>4
<1>5. JoinCounts'
  <2>1. CASE unfinished' = [unfinished EXCEPT ![LaneOf[job[t]]] = @ \ {job[t]}]
             /\ status'[job[t]] \in {"done", "aborted"}
    <3> SUFFICES ASSUME NEW l \in Lanes
                 PROVE  unfinished'[l] = {j \in Jobs : LaneOf[j] = l /\
                          status'[j] \in {"queued", "taken", "running", "lost"}}
      BY DEF JoinCounts
    <3>1. unfinished[l] = {j \in Jobs : LaneOf[j] = l /\
                             status[j] \in {"queued", "taken", "running", "lost"}}
      BY DEF Account, JoinCounts
    <3>2. unfinished'[l] = IF l = LaneOf[job[t]] THEN unfinished[l] \ {job[t]} ELSE unfinished[l]
      BY <2>1 DEF TypeOK
    <3>3. QED
      BY <1>1, <1>2, <2>1, <3>1, <3>2
  <2>2. CASE unfinished' = unfinished /\ status'[job[t]] = "lost"
    BY <1>1, <1>2, <2>2 DEF Account, JoinCounts
  <2>3. QED
    BY <1>1, <2>1, <2>2 DEF TypeOK
<1>6. QED
  BY <1>3, <1>4, <1>5 DEF Account

\* enqueue adds a new job to its lane's queue and count, or to neither.
LEMMA PutAccount ==
  ASSUME TypeOK, JobInHand, Account, NEW j \in Jobs, status[j] = "new", Put(j),
         pc' = pc, job' = job
  PROVE  Account'
<1>0. LaneOf[j] \in Lanes
  BY QueueAssumption
<1>1. /\ status'[j] \in {"queued", "rejected"}
      /\ \A i \in Jobs : i # j => status'[i] = status[i]
  BY DEF Put, Accept, Reject, TypeOK
<1>2. HandInv'
  <2>1. ASSUME NEW u \in Threads, pc[u] \in {"gate", "woken", "lock", "run"}
        PROVE  status'[job[u]] = status[job[u]]
    BY <1>1, <2>1 DEF JobInHand, Account, HandInv
  <2>2. QED
    BY <2>1 DEF Account, HandInv
<1>3. CASE Reject(j)
  <2>1. status'[j] = "rejected" /\ queue' = queue /\ unfinished' = unfinished
    BY <1>3 DEF Reject, TypeOK
  <2>2. QueueInv'
    <3> SUFFICES ASSUME NEW k \in Lanes, NEW m \in DOMAIN queue[k], NEW n \in DOMAIN queue[k]
                 PROVE  /\ LaneOf[queue[k][m]] = k
                        /\ status'[queue[k][m]] = "queued"
                        /\ queue[k][m] = queue[k][n] => m = n
      BY <2>1 DEF QueueInv
    <3>1. queue[k][m] \in Jobs
      BY DEF TypeOK
    <3>2. QED
      BY <1>1, <3>1 DEF Account, QueueInv
  <2>3. JoinCounts'
    BY <1>1, <2>1 DEF Account, JoinCounts
  <2>4. QED
    BY <1>2, <2>2, <2>3 DEF Account
<1>4. CASE Accept(j)
  <2>1. /\ status'[j] = "queued"
        /\ queue' = [queue EXCEPT ![LaneOf[j]] = Append(@, j)]
        /\ unfinished' = [unfinished EXCEPT ![LaneOf[j]] = @ \cup {j}]
    BY <1>4 DEF Accept, TypeOK
  <2>2. QueueInv'
    <3> SUFFICES ASSUME NEW k \in Lanes, NEW m \in DOMAIN queue'[k], NEW n \in DOMAIN queue'[k]
                 PROVE  /\ LaneOf[queue'[k][m]] = k
                        /\ status'[queue'[k][m]] = "queued"
                        /\ queue'[k][m] = queue'[k][n] => m = n
      BY DEF QueueInv
    <3>1. \A i \in DOMAIN queue[k] :
            queue[k][i] \in Jobs /\ queue[k][i] # j /\ LaneOf[queue[k][i]] = k
              /\ status'[queue[k][i]] = "queued"
      <4> TAKE i \in DOMAIN queue[k]
      <4>1. queue[k][i] \in Jobs
        BY DEF TypeOK
      <4>2. QED
        BY <1>1, <4>1 DEF Account, QueueInv
    <3>2. CASE k # LaneOf[j]
      <4>1. queue'[k] = queue[k]
        BY <2>1, <3>2 DEF TypeOK
      <4>2. QED
        BY <3>1, <4>1 DEF Account, QueueInv
    <3>3. CASE k = LaneOf[j]
      <4>1. queue'[k] = Append(queue[k], j) /\ queue[k] \in Seq(Jobs)
        BY <2>1, <3>3 DEF TypeOK
      <4>2. \A i \in DOMAIN queue'[k] :
              \/ i \in DOMAIN queue[k] /\ queue'[k][i] = queue[k][i]
              \/ i = Len(queue[k]) + 1 /\ queue'[k][i] = j
        BY <4>1, AppendProperties
      <4>3. QED
        BY <2>1, <3>1, <3>3, <4>2 DEF Account, QueueInv
    <3>4. QED
      BY <3>2, <3>3
  <2>3. JoinCounts'
    <3> SUFFICES ASSUME NEW l \in Lanes
                 PROVE  unfinished'[l] = {i \in Jobs : LaneOf[i] = l /\
                          status'[i] \in {"queued", "taken", "running", "lost"}}
      BY DEF JoinCounts
    <3>1. unfinished[l] = {i \in Jobs : LaneOf[i] = l /\
                             status[i] \in {"queued", "taken", "running", "lost"}}
      BY DEF Account, JoinCounts
    <3>2. unfinished'[l] = IF l = LaneOf[j] THEN unfinished[l] \cup {j} ELSE unfinished[l]
      BY <1>0, <2>1 DEF TypeOK
    <3>3. QED
      BY <1>1, <2>1, <3>1, <3>2
  <2>4. QED
    BY <1>2, <2>2, <2>3 DEF Account
<1>5. QED
  BY <1>3, <1>4 DEF Put

\* A step that moves no job.
LEMMA QuietAccount ==
  ASSUME Account, queue' = queue, unfinished' = unfinished, status' = status, job' = job,
         \A t \in Threads :
           \/ pc'[t] = pc[t]
           \/ pc[t] = "gate" /\ pc'[t] = "woken"
           \/ pc[t] = "off" /\ pc'[t] = "get"
           \/ pc[t] = "get" /\ pc'[t] = "done"
  PROVE  Account'
BY DEF Account, QueueInv, HandInv, JoinCounts

LEMMA InitAccount == Init => Account
BY QueueAssumption DEF Init, Account, QueueInv, HandInv, JoinCounts

LEMMA ThreadStepAccount ==
  ASSUME TypeInv, TypeInv', Account, NEW t \in Threads, ThreadStep(t)
  PROVE  Account'
<1>0. TypeOK /\ TypeOK' /\ JobInHand
  BY DEF TypeInv
<1>1. CASE Dequeue(t)
  <2>1. Head(queue["persistence"]) \in Jobs
    BY <1>0, <1>1 DEF Dequeue, TypeOK, Lanes
  <2>2. EnterJob(t, Head(queue["persistence"]))
    BY <1>1 DEF Dequeue
  <2>3. /\ pc'[t] \in {"run", "lock"}
        /\ \A u \in Threads : u # t => pc'[u] = pc[u]
        /\ pc'[t] = "run" => status' = [status EXCEPT ![Head(queue["persistence"])] = "running"]
        /\ pc'[t] = "lock" => status' = [status EXCEPT ![Head(queue["persistence"])] = "taken"]
    BY <1>0, <2>1, <2>2, EnterJobFacts
  <2>4. QED
    BY <1>0, <1>1, <2>3, TakeAccount DEF Dequeue, Lanes
<1>2. CASE TakeEnrichment(t)
  <2>1. Head(queue["enrichment"]) \in Jobs
    BY <1>0, <1>2 DEF TakeEnrichment, TypeOK, Lanes
  <2>2. EnterJob(t, Head(queue["enrichment"]))
    BY <1>2 DEF TakeEnrichment
  <2>3. /\ pc'[t] \in {"run", "lock"}
        /\ \A u \in Threads : u # t => pc'[u] = pc[u]
        /\ pc'[t] = "run" => status' = [status EXCEPT ![Head(queue["enrichment"])] = "running"]
        /\ pc'[t] = "lock" => status' = [status EXCEPT ![Head(queue["enrichment"])] = "taken"]
    BY <1>0, <2>1, <2>2, EnterJobFacts
  <2>4. QED
    BY <1>0, <1>2, <2>3, TakeAccount DEF TakeEnrichment, Lanes
<1>3. CASE HoldEnrichment(t)
  <2>1. pc'[t] = "gate" /\ \A u \in Threads : u # t => pc'[u] = pc[u]
    BY <1>0, <1>3 DEF HoldEnrichment, TypeOK
  <2>2. QED
    BY <1>0, <1>3, <2>1, TakeAccount DEF HoldEnrichment, Lanes
<1>4. CASE ResumeEnrichment(t)
  <2>1. job[t] \in Jobs /\ EnterJob(t, job[t])
    BY <1>0, <1>4 DEF ResumeEnrichment, JobInHand
  <2>2. QED
    BY <1>0, <1>4, <2>1, EnterJobFacts, KeepAccount DEF ResumeEnrichment
<1>5. CASE LockGranted(t)
  <2>1. pc'[t] = "run" /\ \A u \in Threads : u # t => pc'[u] = pc[u]
    BY <1>0, <1>5 DEF LockGranted, TypeOK
  <2>2. QED
    BY <1>0, <1>5, <2>1, KeepAccount DEF LockGranted
<1>6. CASE Spawn(t)
  <2>1. ChildOf[job[t]] \in Jobs
    BY <1>0, <1>6, QueueAssumption DEF Spawn, JobInHand
  <2>2. QED
    BY <1>0, <1>6, <2>1, PutAccount DEF Spawn
<1>7. CASE Finish(t)
  <2>1. pc'[t] \in {"get", "done"} /\ \A u \in Threads : u # t => pc'[u] = pc[u]
    BY <1>0, <1>7 DEF Finish, TypeOK
  <2>2. QED
    BY <1>0, <1>7, <2>1, LeaveAccount DEF Finish, TaskDone
<1>8. CASE CancelIdle(t)
  <2>1. \A u \in Threads : pc'[u] = pc[u] \/ (pc[u] = "get" /\ pc'[u] = "done")
    BY <1>0, <1>8 DEF CancelIdle, TypeOK
  <2>2. QED
    BY <1>8, <2>1, QuietAccount DEF CancelIdle
<1>9. CASE CancelGated(t)
  <2>1. pc'[t] = "done" /\ \A u \in Threads : u # t => pc'[u] = pc[u]
    BY <1>0, <1>9 DEF CancelGated, TypeOK
  <2>2. QED
    BY <1>0, <1>9, <2>1, LeaveAccount DEF CancelGated
<1>10. CASE CancelWaiting(t)
  <2>1. pc'[t] = "done" /\ \A u \in Threads : u # t => pc'[u] = pc[u]
    BY <1>0, <1>10 DEF CancelWaiting, AbortJob, TypeOK
  <2>2. QED
    BY <1>0, <1>10, <2>1, LeaveAccount DEF CancelWaiting, AbortJob, TaskDone
<1>11. CASE CancelRunning(t)
  <2>1. pc'[t] = "done" /\ \A u \in Threads : u # t => pc'[u] = pc[u]
    BY <1>0, <1>11 DEF CancelRunning, AbortJob, TypeOK
  <2>2. QED
    BY <1>0, <1>11, <2>1, LeaveAccount DEF CancelRunning, AbortJob, TaskDone
<1>12. QED
  BY <1>1, <1>2, <1>3, <1>4, <1>5, <1>6, <1>7, <1>8, <1>9, <1>10, <1>11 DEF ThreadStep

\* Start needs to know that no thread was live before it.
Ledger == ExclusionInv /\ Account

LEMMA StepAccount == Ledger /\ [Next]_vars => Ledger'
<1> SUFFICES ASSUME Ledger, [Next]_vars
             PROVE  Account'
  BY StepExclusion DEF Ledger
<1>0. TypeInv /\ TypeInv' /\ Account /\ PhaseInv /\ TypeOK /\ JobInHand
  BY StepType DEF Ledger, ExclusionInv, TypeInv
<1>1. ASSUME NEW j \in Jobs, Enqueue(j)
      PROVE  Account'
  BY <1>0, <1>1, PutAccount DEF Enqueue
<1>2. ASSUME NEW t \in Threads, ThreadStep(t)
      PROVE  Account'
  BY <1>0, <1>2, ThreadStepAccount
<1>3. CASE Start
  BY <1>0, <1>3, QuietAccount DEF Start, PhaseInv
<1>4. CASE StopCall
  BY <1>0, <1>4, QuietAccount DEF StopCall
<1>5. CASE StopStep
  BY <1>0, <1>5, QuietAccount DEF StopStep, StopResume, StopReturn
<1>6. ASSUME NEW k \in Turns, BeginTurn(k)
      PROVE  Account'
  BY <1>0, <1>6, QuietAccount DEF BeginTurn
<1>7. ASSUME NEW k \in Turns, EndTurn(k)
      PROVE  Account'
  BY <1>0, <1>7, QuietAccount DEF EndTurn
<1>8. CASE UNCHANGED vars
  BY <1>0, <1>8, QuietAccount DEF vars
<1>9. QED
  BY <1>1, <1>2, <1>3, <1>4, <1>5, <1>6, <1>7, <1>8 DEF Next

\* The unfinished counts that stop() joins on are the accepted jobs that have
\* neither returned nor been aborted.
THEOREM CountsAreJobs == Spec => []JoinCounts
<1>1. Init => Ledger
  BY InitExclusion, InitAccount DEF Ledger
<1>2. Ledger => JoinCounts
  BY DEF Ledger, Account
<1>3. QED
  BY <1>1, <1>2, StepAccount, PTL DEF Spec

-----------------------------------------------------------------------------
(***************************************************************************)
(* Draining.  Nothing is aborted before the joins are over, so a job that   *)
(* stop() owes and that is no longer unfinished is done.                    *)
(***************************************************************************)

DrainInv ==
  /\ ~Closing => \A j \in Jobs : status[j] \notin {"aborted", "lost"}
  /\ phase \in {"new", "up"} => covered = {}
  /\ \A j \in covered : status[j] # "new"
  /\ phase \in {"wokenP", "joinE", "wokenE"} =>
       \A j \in covered : LaneOf[j] = "persistence" => status[j] \in {"done", "rejected"}
  /\ phase = "wokenE" => \A j \in covered : status[j] \in {"done", "rejected"}
  /\ StopDrains

DrainLedger == Ledger /\ DrainInv

\* What a thread's step does to the outcome of the jobs.
LEMMA ThreadStepOutcome ==
  ASSUME Ledger, NEW t \in Threads, ThreadStep(t), NEW i \in Jobs
  PROVE  /\ status[i] \in {"done", "rejected"} => status'[i] = status[i]
         /\ status[i] # "new" => status'[i] # "new"
         /\ status'[i] \in {"aborted", "lost"} => status[i] = status'[i] \/ Closing
<1>0. TypeOK /\ JobInHand /\ HandInv /\ QueueInv
  BY DEF Ledger, ExclusionInv, TypeInv, Account
<1>1. ASSUME NEW j \in Jobs, status[j] \in {"queued", "taken", "running"},
             NEW s \in {"taken", "running", "done"}, status' = [status EXCEPT ![j] = s]
      PROVE  /\ status[i] \in {"done", "rejected"} => status'[i] = status[i]
             /\ status[i] # "new" => status'[i] # "new"
             /\ status'[i] \in {"aborted", "lost"} => status[i] = status'[i] \/ Closing
  BY <1>0, <1>1 DEF TypeOK
<1>2. ASSUME NEW l \in Lanes, queue[l] # <<>>,
             NEW s \in {"taken", "running"}, status' = [status EXCEPT ![Head(queue[l])] = s]
      PROVE  /\ status[i] \in {"done", "rejected"} => status'[i] = status[i]
             /\ status[i] # "new" => status'[i] # "new"
             /\ status'[i] \in {"aborted", "lost"} => status[i] = status'[i] \/ Closing
  <2>1. Head(queue[l]) \in Jobs /\ Head(queue[l]) = queue[l][1] /\ 1 \in DOMAIN queue[l]
    BY <1>0, <1>2 DEF TypeOK
  <2>2. status[Head(queue[l])] = "queued"
    BY <1>0, <2>1 DEF QueueInv
  <2>3. QED
    BY <1>1, <1>2, <2>1, <2>2
<1>3. CASE Dequeue(t) \/ TakeEnrichment(t) \/ HoldEnrichment(t)
  BY <1>2, <1>3 DEF Dequeue, TakeEnrichment, HoldEnrichment, EnterJob, Lanes
<1>4. CASE ResumeEnrichment(t) \/ LockGranted(t)
  <2>1. job[t] \in Jobs /\ status[job[t]] = "taken"
    BY <1>0, <1>4 DEF ResumeEnrichment, LockGranted, JobInHand, HandInv
  <2>2. QED
    BY <1>1, <1>4, <2>1 DEF ResumeEnrichment, LockGranted, EnterJob
<1>5. CASE Spawn(t)
  <2>1. ChildOf[job[t]] \in Jobs /\ status[ChildOf[job[t]]] = "new"
    BY <1>0, <1>5, QueueAssumption DEF Spawn, JobInHand
  <2>2. QED
    BY <1>0, <1>5, <2>1 DEF Spawn, Put, Accept, Reject, TypeOK
<1>6. CASE Finish(t)
  <2>1. job[t] \in Jobs /\ status[job[t]] = "running"
    BY <1>0, <1>6 DEF Finish, JobInHand, HandInv
  <2>2. QED
    BY <1>1, <1>6, <2>1 DEF Finish
<1>7. CASE CancelIdle(t)
  BY <1>7 DEF CancelIdle
<1>8. CASE CancelGated(t) \/ CancelWaiting(t) \/ CancelRunning(t)
  <2>1. job[t] \in Jobs /\ status[job[t]] \in {"taken", "running"} /\ Closing
    BY <1>0, <1>8 DEF CancelGated, CancelWaiting, CancelRunning, JobInHand, HandInv,
         Cancelled, Closing
  <2>2. QED
    BY <1>0, <1>8, <2>1 DEF CancelGated, CancelWaiting, CancelRunning, AbortJob, TypeOK
<1>9. QED
  BY <1>3, <1>4, <1>5, <1>6, <1>7, <1>8 DEF ThreadStep

\* A thread's step changes the phase only by waking a join() whose lane it
\* leaves without unfinished jobs.
LEMMA ThreadStepJoin ==
  ASSUME NEW t \in Threads, ThreadStep(t), TypeOK, JobInHand
  PROVE  \/ phase' = phase
         \/ phase = "joinP" /\ phase' = "wokenP" /\ unfinished'["persistence"] = {}
         \/ phase = "joinE" /\ phase' = "wokenE" /\ unfinished'["enrichment"] = {}
<1>1. CASE Finish(t) \/ CancelWaiting(t) \/ CancelRunning(t)
  <2>1. job[t] \in Jobs /\ LaneOf[job[t]] \in Lanes
    BY <1>1, QueueAssumption DEF Finish, CancelWaiting, CancelRunning, JobInHand
  <2>2. TaskDone(job[t])
    BY <1>1 DEF Finish, CancelWaiting, CancelRunning, AbortJob
  <2>3. QED
    BY <2>1, <2>2 DEF TaskDone, TypeOK
<1>2. CASE ~(Finish(t) \/ CancelWaiting(t) \/ CancelRunning(t))
  BY <1>2 DEF ThreadStep, Dequeue, TakeEnrichment, HoldEnrichment, ResumeEnrichment,
       LockGranted, Spawn, CancelIdle, CancelGated
<1>3. QED
  BY <1>1, <1>2

\* What stop() owes grows only while it still waits for the persistence lane.
LEMMA ThreadStepCovered ==
  ASSUME DrainLedger, NEW t \in Threads, ThreadStep(t)
  PROVE  \/ covered' = covered
         \/ /\ phase = "joinP" /\ phase' = "joinP"
            /\ \E c \in Jobs : covered' = covered \cup {c} /\ status'[c] # "new"
<1>0. TypeOK /\ JobInHand /\ HandInv
  BY DEF DrainLedger, Ledger, ExclusionInv, TypeInv, Account
<1>1. CASE Spawn(t) /\ job[t] \in covered
  <2>1. /\ job[t] \in Jobs /\ status[job[t]] = "running"
        /\ ChildOf[job[t]] \in Jobs /\ LaneOf[job[t]] = "persistence"
        /\ covered' = covered \cup {ChildOf[job[t]]} /\ phase' = phase
        /\ Put(ChildOf[job[t]])
    BY <1>0, <1>1, QueueAssumption, ChildAssumption DEF Spawn, JobInHand, HandInv
  <2>2. phase = "joinP"
    <3>1. phase \notin {"new", "up"}
      BY <1>1 DEF DrainLedger, DrainInv
    <3>2. phase \notin {"wokenP", "joinE", "wokenE"}
      BY <1>1, <2>1 DEF DrainLedger, DrainInv
    <3>3. ~Closing
      BY <1>1, <2>1 DEF DrainLedger, DrainInv, StopDrains
    <3>4. QED
      BY <1>0, <3>1, <3>2, <3>3 DEF TypeOK, Phases, Closing
  <2>3. status'[ChildOf[job[t]]] # "new"
    BY <1>0, <2>1 DEF Put, Accept, Reject, TypeOK
  <2>4. QED
    BY <2>1, <2>2, <2>3
<1>2. CASE ~(Spawn(t) /\ job[t] \in covered)
  BY <1>2 DEF ThreadStep, Dequeue, TakeEnrichment, HoldEnrichment, ResumeEnrichment,
       LockGranted, Spawn, Finish, CancelIdle, CancelGated, CancelWaiting, CancelRunning,
       AbortJob, history
<1>3. QED
  BY <1>1, <1>2

\* A lane with no unfinished job has settled every job stop() owes in it.
LEMMA LaneSettled ==
  ASSUME TypeOK, JoinCounts, NEW l \in Lanes, unfinished[l] = {},
         NEW j \in Jobs, LaneOf[j] = l, status[j] \notin {"new", "aborted"}
  PROVE  status[j] \in {"done", "rejected"}
BY DEF TypeOK, JoinCounts, Statuses

LEMMA ThreadStepDrain ==
  ASSUME DrainLedger, Ledger', NEW t \in Threads, ThreadStep(t)
  PROVE  DrainInv'
<1>0. /\ TypeOK /\ JobInHand /\ DrainInv /\ Ledger
      /\ TypeOK' /\ JoinCounts'
  BY DEF DrainLedger, Ledger, ExclusionInv, TypeInv, Account
<1>1. \A i \in Jobs :
        /\ status[i] \in {"done", "rejected"} => status'[i] = status[i]
        /\ status[i] # "new" => status'[i] # "new"
        /\ status'[i] \in {"aborted", "lost"} => status[i] = status'[i] \/ Closing
  BY <1>0, ThreadStepOutcome
<1>2. \/ phase' = phase
      \/ phase = "joinP" /\ phase' = "wokenP" /\ unfinished'["persistence"] = {}
      \/ phase = "joinE" /\ phase' = "wokenE" /\ unfinished'["enrichment"] = {}
  BY <1>0, ThreadStepJoin
<1>3. \/ covered' = covered
      \/ /\ phase = "joinP" /\ phase' = "joinP"
         /\ \E c \in Jobs : covered' = covered \cup {c} /\ status'[c] # "new"
  BY ThreadStepCovered
<1>4. ~Closing' => ~Closing /\ \A j \in Jobs : status'[j] \notin {"aborted", "lost"}
  BY <1>0, <1>1, <1>2 DEF DrainInv, Closing
<1>5. covered' \subseteq Jobs /\ covered \subseteq Jobs
  BY <1>0 DEF TypeOK
<1>6. \A j \in covered' : status'[j] # "new"
  BY <1>0, <1>1, <1>3, <1>5 DEF DrainInv
<1>7. CASE phase' = phase
  BY <1>0, <1>1, <1>3, <1>4, <1>5, <1>6, <1>7 DEF DrainInv, StopDrains, Closing
<1>8. CASE phase = "joinP" /\ phase' = "wokenP" /\ unfinished'["persistence"] = {}
  <2>1. \A j \in covered' : LaneOf[j] = "persistence" => status'[j] \in {"done", "rejected"}
    BY <1>0, <1>4, <1>5, <1>6, <1>8 DEF TypeOK, JoinCounts, Statuses, Lanes, Closing
  <2>2. QED
    BY <1>0, <1>4, <1>6, <1>8, <2>1 DEF DrainInv, StopDrains, Closing
<1>9. CASE phase = "joinE" /\ phase' = "wokenE" /\ unfinished'["enrichment"] = {}
  <2>1. \A j \in covered' : LaneOf[j] = "persistence" => status'[j] \in {"done", "rejected"}
    BY <1>0, <1>1, <1>3, <1>5, <1>9 DEF DrainInv
  <2>2. \A j \in covered' : LaneOf[j] = "enrichment" => status'[j] \in {"done", "rejected"}
    BY <1>0, <1>4, <1>5, <1>6, <1>9 DEF TypeOK, JoinCounts, Statuses, Lanes, Closing
  <2>3. \A j \in covered' : status'[j] \in {"done", "rejected"}
    BY <1>5, <2>1, <2>2, QueueAssumption DEF Lanes
  <2>4. QED
    BY <1>0, <1>4, <1>6, <1>9, <2>1, <2>3 DEF DrainInv, StopDrains, Closing
<1>10. QED
  BY <1>2, <1>7, <1>8, <1>9

LEMMA StepDrain == DrainLedger /\ [Next]_vars => DrainLedger'
<1> SUFFICES ASSUME DrainLedger, [Next]_vars
             PROVE  DrainInv'
  BY StepAccount DEF DrainLedger
<1>0. Ledger' /\ TypeOK /\ DrainInv /\ JoinCounts
  BY StepAccount DEF DrainLedger, Ledger, ExclusionInv, TypeInv, Account
<1>1. ASSUME NEW j \in Jobs, Enqueue(j)
      PROVE  DrainInv'
  <2>1. /\ status'[j] \in {"queued", "rejected"} /\ phase' = phase /\ covered' = covered
        /\ status[j] = "new" /\ \A i \in Jobs : i # j => status'[i] = status[i]
    BY <1>0, <1>1 DEF Enqueue, Put, Accept, Reject, TypeOK
  <2>2. covered \subseteq Jobs /\ j \notin covered
    BY <1>0, <2>1 DEF DrainInv, TypeOK
  <2>3. QED
    BY <1>0, <2>1, <2>2 DEF DrainInv, StopDrains, Closing
<1>2. ASSUME NEW t \in Threads, ThreadStep(t)
      PROVE  DrainInv'
  BY <1>0, <1>2, ThreadStepDrain
<1>3. CASE Start
  BY <1>0, <1>3 DEF Start, history, DrainInv, StopDrains, Closing
<1>4. CASE StopCall
  <2>1. /\ status' = status /\ phase = "up"
        /\ covered' = {j \in Jobs : status[j] \in {"queued", "taken", "running"}}
        /\ \/ phase' = "joinP"
           \/ phase' = "joinE" /\ unfinished["persistence"] = {}
           \/ phase' = "cancelP" /\ unfinished["persistence"] = {} /\ unfinished["enrichment"] = {}
    BY <1>4 DEF StopCall, AfterPersistence, Unsettled
  <2>2. \A l \in Lanes : unfinished[l] = {} => \A j \in covered' : LaneOf[j] # l
    BY <1>0, <2>1 DEF JoinCounts
  <2>3. CASE phase' = "joinP"
    BY <1>0, <2>1, <2>3 DEF DrainInv, StopDrains, Closing
  <2>4. CASE phase' = "joinE" /\ unfinished["persistence"] = {}
    BY <1>0, <2>1, <2>2, <2>4 DEF DrainInv, StopDrains, Closing, Lanes
  <2>5. CASE phase' = "cancelP" /\ unfinished["persistence"] = {} /\ unfinished["enrichment"] = {}
    <3>1. covered' = {}
      BY <2>1, <2>2, <2>5, QueueAssumption DEF Lanes
    <3>2. QED
      BY <1>0, <2>1, <2>5, <3>1 DEF DrainInv, StopDrains, Closing
  <2>6. QED
    BY <2>1, <2>3, <2>4, <2>5
<1>5. CASE StopResume
  <2>1. status' = status /\ covered' = covered
    BY <1>5 DEF StopResume, history
  <2>2. CASE phase = "wokenP" /\ phase' = AfterPersistence
    <3>1. CASE unfinished["enrichment"] # {}
      BY <1>0, <2>1, <2>2, <3>1 DEF AfterPersistence, DrainInv, StopDrains, Closing
    <3>2. CASE unfinished["enrichment"] = {}
      <4>1. \A j \in covered : LaneOf[j] = "enrichment" => status[j] \in {"done", "rejected"}
        BY <1>0, <2>2, <3>2 DEF DrainInv, TypeOK, JoinCounts, Statuses, Lanes, Closing
      <4>2. \A j \in covered : LaneOf[j] \in Lanes
        BY <1>0, QueueAssumption DEF TypeOK
      <4>3. QED
        BY <1>0, <2>1, <2>2, <3>2, <4>1, <4>2
        DEF AfterPersistence, DrainInv, StopDrains, Closing, Lanes
    <3>3. QED
      BY <3>1, <3>2
  <2>3. CASE phase = "wokenE" /\ phase' = "cancelP"
    BY <1>0, <2>1, <2>3 DEF DrainInv, StopDrains, Closing
  <2>4. CASE phase = "cancelP" /\ phase' = "cancelE"
    BY <1>0, <2>1, <2>4 DEF DrainInv, StopDrains, Closing
  <2>5. QED
    BY <1>5, <2>2, <2>3, <2>4 DEF StopResume
<1>6. CASE StopReturn
  BY <1>0, <1>6 DEF StopReturn, history, DrainInv, StopDrains, Closing
<1>7. ASSUME NEW k \in Turns, BeginTurn(k) \/ EndTurn(k)
      PROVE  DrainInv'
  BY <1>0, <1>7 DEF BeginTurn, EndTurn, history, DrainInv, StopDrains, Closing
<1>8. CASE UNCHANGED vars
  BY <1>0, <1>8 DEF vars, DrainInv, StopDrains, Closing
<1>9. QED
  BY <1>1, <1>2, <1>3, <1>4, <1>5, <1>6, <1>7, <1>8 DEF Next, StopStep

\* When stop() begins to cancel, every job accepted before it was called, and
\* every job those submitted and the queue accepted, has run to its end.
THEOREM Drained == Spec => []StopDrains
<1>1. Init => DrainLedger
  BY InitExclusion, InitAccount
  DEF DrainLedger, Ledger, Init, DrainInv, StopDrains, Closing
<1>2. DrainLedger => StopDrains
  BY DEF DrainLedger, DrainInv
<1>3. QED
  BY <1>1, <1>2, StepDrain, PTL DEF Spec

-----------------------------------------------------------------------------
(***************************************************************************)
(* Order.  A lane's queue is the end of the list of jobs it accepted; a job  *)
(* that has left the queue is in the hand of one thread; the threads that    *)
(* wait for the lock of a key stand there in the order in which their lane   *)
(* accepted their jobs.  So the thread a free lock goes to has the oldest    *)
(* job of that key in its lane, which is what the serial executor promises.  *)
(***************************************************************************)

\* Of the jobs o that lane l accepted, in order and none twice, the last are q
\* and still queued; those before them have been taken.
InLine(l, q, o, st) ==
  /\ Len(q) <= Len(o)
  /\ \A n \in 1 .. Len(q) : o[(Len(o) - Len(q)) + n] = q[n]
  /\ \A m, n \in 1 .. Len(o) : o[m] = o[n] => m = n
  /\ \A n \in 1 .. Len(o) :
       /\ LaneOf[o[n]] = l
       /\ st[o[n]] \notin {"new", "rejected"}
       /\ st[o[n]] = "queued" => n > Len(o) - Len(q)

\* Every accepted job is in its lane's order.
OrderInv ==
  /\ \A l \in Lanes : InLine(l, queue[l], order[l], status)
  /\ \A j \in Jobs : status[j] \notin {"new", "rejected"} =>
       \E n \in 1 .. Len(order[LaneOf[j]]) : order[LaneOf[j]][n] = j

LEMMA InLineTake ==
  ASSUME NEW l \in Lanes, NEW q \in Seq(Jobs), NEW o \in Seq(Jobs), NEW st, NEW st2,
         InLine(l, q, o, st), q # <<>>,
         st2[Head(q)] \in {"taken", "running"},
         \A i \in Jobs : i # Head(q) => st2[i] = st[i]
  PROVE  InLine(l, Tail(q), o, st2)
<1> DEFINE j == Head(q)
           d == Len(o) - Len(q)
           r == Tail(q)
<1>1. /\ Len(q) \in Nat \ {0} /\ Len(o) \in Nat
      /\ j = q[1] /\ j \in Jobs
      /\ Len(r) = Len(q) - 1
      /\ \A n \in 1 .. (Len(q) - 1) : r[n] = q[n + 1]
  BY HeadTailProperties
<1>2. \A n \in 1 .. Len(o) : o[n] \in Jobs
  OBVIOUS
<1>3. /\ Len(q) <= Len(o)
      /\ \A n \in 1 .. Len(q) : o[d + n] = q[n]
      /\ \A m, n \in 1 .. Len(o) : o[m] = o[n] => m = n
      /\ \A n \in 1 .. Len(o) :
           /\ LaneOf[o[n]] = l
           /\ st[o[n]] \notin {"new", "rejected"}
           /\ st[o[n]] = "queued" => n > d
  BY DEF InLine
<1>4. d \in Nat /\ d + 1 \in 1 .. Len(o) /\ o[d + 1] = j /\ Len(o) - Len(r) = d + 1
  BY <1>1, <1>3
<1> HIDE DEF j, d, r
<1>5. \A n \in 1 .. Len(r) : o[(d + 1) + n] = r[n]
  <2> TAKE n \in 1 .. Len(r)
  <2>1. n + 1 \in 1 .. Len(q) /\ n \in 1 .. (Len(q) - 1) /\ (d + 1) + n = d + (n + 1)
    BY <1>1, <1>4
  <2>2. QED
    BY <1>1, <1>3, <2>1
<1>6. ASSUME NEW n \in 1 .. Len(o)
      PROVE  /\ st2[o[n]] \notin {"new", "rejected"}
             /\ st2[o[n]] = "queued" => n > d + 1
  <2>1. CASE o[n] = j
    BY <2>1 DEF j
  <2>2. CASE o[n] # j
    <3>1. st2[o[n]] = st[o[n]]
      BY <1>2, <2>2 DEF j
    <3>2. n # d + 1
      BY <1>4, <2>2
    <3>3. QED
      BY <1>3, <1>4, <3>1, <3>2
  <2>3. QED
    BY <2>1, <2>2
<1>7. Len(r) <= Len(o)
  BY <1>1, <1>3
<1>8. InLine(l, r, o, st2)
  BY <1>3, <1>4, <1>5, <1>6, <1>7 DEF InLine
<1>9. QED
  BY <1>8 DEF r

LEMMA InLineAppend ==
  ASSUME NEW l \in Lanes, NEW q \in Seq(Jobs), NEW o \in Seq(Jobs), NEW st, NEW st2,
         NEW j \in Jobs, LaneOf[j] = l, st[j] = "new", st2[j] = "queued",
         InLine(l, q, o, st), \A i \in Jobs : i # j => st2[i] = st[i]
  PROVE  InLine(l, Append(q, j), Append(o, j), st2)
<1> DEFINE d == Len(o) - Len(q)
           r == Append(q, j)
           p == Append(o, j)
<1>1. /\ Len(q) \in Nat /\ Len(o) \in Nat
      /\ Len(r) = Len(q) + 1 /\ Len(p) = Len(o) + 1
      /\ r[Len(q) + 1] = j /\ p[Len(o) + 1] = j
      /\ \A n \in 1 .. Len(q) : r[n] = q[n]
      /\ \A n \in 1 .. Len(o) : p[n] = o[n]
  BY AppendProperties
<1>2. \A n \in 1 .. Len(o) : o[n] \in Jobs
  OBVIOUS
<1>3. /\ Len(q) <= Len(o)
      /\ \A n \in 1 .. Len(q) : o[d + n] = q[n]
      /\ \A m, n \in 1 .. Len(o) : o[m] = o[n] => m = n
      /\ \A n \in 1 .. Len(o) :
           /\ LaneOf[o[n]] = l
           /\ st[o[n]] \notin {"new", "rejected"}
           /\ st[o[n]] = "queued" => n > d
  BY DEF InLine
<1>4. d \in Nat /\ d + (Len(q) + 1) = Len(o) + 1 /\ Len(p) - Len(r) = d /\ d <= Len(o)
  BY <1>1, <1>3
<1>5. \A n \in 1 .. Len(o) : o[n] # j /\ st2[o[n]] = st[o[n]]
  BY <1>2, <1>3
<1> HIDE DEF d, r, p
<1>6. /\ \A n \in 1 .. Len(r) : n \in 1 .. Len(q) \/ n = Len(q) + 1
      /\ \A n \in 1 .. Len(p) : n \in 1 .. Len(o) \/ n = Len(o) + 1
  BY <1>1
<1>7. \A n \in 1 .. Len(r) : p[d + n] = r[n]
  <2> TAKE n \in 1 .. Len(r)
  <2>1. CASE n \in 1 .. Len(q)
    <3>1. d + n \in 1 .. Len(o)
      BY <1>1, <1>4, <2>1
    <3>2. QED
      BY <1>1, <1>3, <2>1, <3>1
  <2>2. CASE n = Len(q) + 1
    BY <1>1, <1>4, <2>2
  <2>3. QED
    BY <1>6, <2>1, <2>2
<1>8. \A m, n \in 1 .. Len(p) : p[m] = p[n] => m = n
  <2> TAKE m, n \in 1 .. Len(p)
  <2>1. CASE m \in 1 .. Len(o) /\ n \in 1 .. Len(o)
    BY <1>1, <1>3, <2>1
  <2>2. CASE m \in 1 .. Len(o) /\ n = Len(o) + 1
    BY <1>1, <1>5, <2>2
  <2>3. CASE m = Len(o) + 1 /\ n \in 1 .. Len(o)
    BY <1>1, <1>5, <2>3
  <2>4. QED
    BY <1>6, <2>1, <2>2, <2>3
<1>9. \A n \in 1 .. Len(p) :
        /\ LaneOf[p[n]] = l
        /\ st2[p[n]] \notin {"new", "rejected"}
        /\ st2[p[n]] = "queued" => n > d
  <2> TAKE n \in 1 .. Len(p)
  <2>1. CASE n \in 1 .. Len(o)
    BY <1>1, <1>3, <1>5, <2>1
  <2>2. CASE n = Len(o) + 1
    BY <1>1, <1>4, <2>2
  <2>3. QED
    BY <1>6, <2>1, <2>2
<1>10. Len(r) <= Len(p)
  BY <1>1, <1>3
<1>11. InLine(l, r, p, st2)
  BY <1>4, <1>7, <1>8, <1>9, <1>10 DEF InLine
<1>12. QED
  BY <1>11 DEF r, p

LEMMA InLineSame ==
  ASSUME NEW l, NEW q, NEW o, NEW st, NEW st2, InLine(l, q, o, st),
         \A n \in 1 .. Len(o) : st2[o[n]] = st[o[n]]
  PROVE  InLine(l, q, o, st2)
BY DEF InLine

\* The oldest job leaves its lane's queue for a thread's hand.
LEMMA OrderTake ==
  ASSUME TypeOK, QueueInv, OrderInv,
         NEW l \in Lanes, queue[l] # <<>>,
         queue' = [queue EXCEPT ![l] = Tail(@)], order' = order,
         NEW s \in {"taken", "running"},
         status' = [status EXCEPT ![Head(queue[l])] = s]
  PROVE  OrderInv'
<1> DEFINE j == Head(queue[l])
<1>1. /\ queue[l] \in Seq(Jobs) /\ j = queue[l][1] /\ 1 \in DOMAIN queue[l] /\ j \in Jobs
  BY DEF TypeOK
<1>2. status'[j] = s /\ \A i \in Jobs : i # j => status'[i] = status[i]
  BY <1>1 DEF TypeOK
<1>3. status[j] = "queued" /\ LaneOf[j] = l
  BY <1>1 DEF QueueInv
<1>4. ASSUME NEW k \in Lanes
      PROVE  InLine(k, queue'[k], order'[k], status')
  <2>1. InLine(k, queue[k], order[k], status)
    BY DEF OrderInv
  <2>2. order[k] \in Seq(Jobs) /\ queue[k] \in Seq(Jobs)
    BY DEF TypeOK
  <2>3. CASE k = l
    <3>1. queue'[k] = Tail(queue[l])
      BY <2>3 DEF TypeOK
    <3>2. InLine(l, Tail(queue[l]), order[l], status')
      BY <1>2, <2>1, <2>2, <2>3, InLineTake
    <3>3. QED
      BY <2>3, <3>1, <3>2
  <2>4. CASE k # l
    <3>1. queue'[k] = queue[k] /\ order'[k] = order[k]
      BY <2>4 DEF TypeOK
    <3>2. \A n \in 1 .. Len(order[k]) : status'[order[k][n]] = status[order[k][n]]
      <4> TAKE n \in 1 .. Len(order[k])
      <4>1. order[k][n] \in Jobs
        BY <2>2
      <4>2. LaneOf[order[k][n]] = k
        BY <2>1 DEF InLine
      <4>3. QED
        BY <1>2, <1>3, <2>4, <4>1, <4>2
    <3>3. InLine(k, queue[k], order[k], status')
        BY <2>1, <3>2 DEF InLine
    <3>4. QED
      BY <3>1, <3>3
  <2>5. QED
    BY <2>3, <2>4
<1>5. QED
  BY <1>2, <1>3, <1>4 DEF OrderInv

\* A job that has left its queue goes on, or a new job is refused.
LEMMA OrderMove ==
  ASSUME TypeOK, OrderInv, queue' = queue, order' = order,
         \A i \in Jobs :
           \/ status'[i] = status[i]
           \/ /\ status[i] \in {"taken", "running"}
              /\ status'[i] \notin {"new", "rejected", "queued"}
           \/ status[i] = "new" /\ status'[i] = "rejected"
  PROVE  OrderInv'
<1>1. ASSUME NEW l \in Lanes
      PROVE  InLine(l, queue[l], order[l], status')
  <2>1. InLine(l, queue[l], order[l], status)
    BY DEF OrderInv
  <2>2. \A n \in 1 .. Len(order[l]) : order[l][n] \in Jobs
    BY DEF TypeOK
  <2>3. QED
    BY ZenonT(40), <2>1, <2>2 DEF InLine
<1>2. QED
  BY <1>1 DEF OrderInv

\* A new job is put at the end of its lane's queue.
LEMMA OrderAccept ==
  ASSUME TypeOK, OrderInv, NEW j \in Jobs, status[j] = "new", Accept(j)
  PROVE  OrderInv'
<1>1. /\ LaneOf[j] \in Lanes
      /\ \A k \in Lanes : queue[k] \in Seq(Jobs) /\ order[k] \in Seq(Jobs)
  BY QueueAssumption DEF TypeOK
<1>2. status'[j] = "queued" /\ \A i \in Jobs : i # j => status'[i] = status[i]
  BY DEF TypeOK, Accept
<1>3. \A k \in Lanes : k # LaneOf[j] => queue'[k] = queue[k] /\ order'[k] = order[k]
  BY DEF TypeOK, Accept
<1>4. /\ queue'[LaneOf[j]] = Append(queue[LaneOf[j]], j)
      /\ order'[LaneOf[j]] = Append(order[LaneOf[j]], j)
  BY <1>1 DEF TypeOK, Accept
<1>5. ASSUME NEW k \in Lanes
      PROVE  InLine(k, queue'[k], order'[k], status')
  <2>1. InLine(k, queue[k], order[k], status)
    BY DEF OrderInv
  <2>2. CASE k = LaneOf[j]
    <3>1. InLine(k, Append(queue[k], j), Append(order[k], j), status')
      BY <1>1, <1>2, <2>1, <2>2, InLineAppend
    <3>2. QED
      BY <1>4, <2>2, <3>1
  <2>3. CASE k # LaneOf[j]
    <3>1. \A n \in 1 .. Len(order[k]) : status'[order[k][n]] = status[order[k][n]]
      <4> TAKE n \in 1 .. Len(order[k])
      <4>1. order[k][n] \in Jobs
        BY <1>1
      <4>2. LaneOf[order[k][n]] = k
        BY <2>1 DEF InLine
      <4>3. QED
        BY <1>2, <2>3, <4>1, <4>2
    <3>2. queue'[k] = queue[k] /\ order'[k] = order[k]
      BY <1>3, <2>3
    <3>3. QED
      BY <2>1, <3>1, <3>2, InLineSame
  <2>4. QED
    BY <2>2, <2>3
<1>6. ASSUME NEW i \in Jobs, status'[i] \notin {"new", "rejected"}
      PROVE  \E n \in 1 .. Len(order'[LaneOf[i]]) : order'[LaneOf[i]][n] = i
  <2>1. CASE i = j
    <3>1. Len(order[LaneOf[j]]) + 1 \in 1 .. Len(order'[LaneOf[j]])
      BY <1>1, <1>4, AppendProperties
    <3>2. order'[LaneOf[j]][Len(order[LaneOf[j]]) + 1] = j
      BY <1>1, <1>4, AppendProperties
    <3>3. QED
      BY <2>1, <3>1, <3>2
  <2>2. CASE i # j
    <3>1. PICK n \in 1 .. Len(order[LaneOf[i]]) : order[LaneOf[i]][n] = i
      BY <1>2, <1>6, <2>2 DEF OrderInv
    <3>2. CASE LaneOf[i] = LaneOf[j]
      <4>1. n \in 1 .. Len(order'[LaneOf[j]]) /\ order'[LaneOf[j]][n] = i
        BY <1>1, <1>4, <3>1, <3>2, AppendProperties
      <4>2. QED
        BY <3>2, <4>1
    <3>3. CASE LaneOf[i] # LaneOf[j]
      <4>1. LaneOf[i] \in Lanes
        BY QueueAssumption
      <4>2. QED
        BY <1>3, <3>1, <3>3, <4>1
    <3>4. QED
      BY <3>2, <3>3
  <2>3. QED
    BY <2>1, <2>2
<1>7. QED
  BY <1>5, <1>6 DEF OrderInv

-----------------------------------------------------------------------------
\* A job that has left its queue and not ended is in a thread's hand, a worker's
\* or the enricher's as its lane says.
CarriedInv ==
  /\ \A j \in Jobs : status[j] \in {"taken", "running"} => \E t \in Threads : job[t] = j
  /\ \A t \in Threads :
       /\ job[t] # NoJob => (t = Enricher <=> LaneOf[job[t]] = "enrichment")
       /\ pc[t] \in {"gate", "woken"} => t = Enricher

LEMMA CarriedTake ==
  ASSUME TypeOK, CarriedInv, NEW t \in Threads, NEW j \in Jobs, job[t] = NoJob,
         t = Enricher <=> LaneOf[j] = "enrichment",
         job' = [job EXCEPT ![t] = j],
         NEW s, status' = [status EXCEPT ![j] = s],
         \A u \in Threads : u # t => pc'[u] = pc[u],
         pc'[t] \in {"gate", "woken"} => t = Enricher
  PROVE  CarriedInv'
<1>1. job'[t] = j /\ \A u \in Threads : u # t => job'[u] = job[u]
  BY DEF TypeOK
<1>2. \A i \in Jobs : i # j => status'[i] = status[i]
  BY DEF TypeOK
<1>3. ASSUME NEW i \in Jobs, status'[i] \in {"taken", "running"}
      PROVE  \E u \in Threads : job'[u] = i
  <2>1. CASE i = j
    BY <1>1, <2>1
  <2>2. CASE i # j
    <3>1. PICK u \in Threads : job[u] = i
      BY <1>2, <1>3, <2>2 DEF CarriedInv
    <3>2. u # t
      BY <3>1, QueueAssumption
    <3>3. QED
      BY <1>1, <3>1, <3>2
  <2>3. QED
    BY <2>1, <2>2
<1>4. ASSUME NEW u \in Threads
      PROVE  /\ job'[u] # NoJob => (u = Enricher <=> LaneOf[job'[u]] = "enrichment")
             /\ pc'[u] \in {"gate", "woken"} => u = Enricher
  <2>1. CASE u = t
    BY <1>1, <2>1
  <2>2. CASE u # t
    BY <1>1, <2>2 DEF CarriedInv
  <2>3. QED
    BY <2>1, <2>2
<1>5. QED
  BY <1>3, <1>4 DEF CarriedInv

\* A thread lets go of its job.
LEMMA CarriedLeave ==
  ASSUME TypeOK, CarriedInv, NEW t \in Threads, job[t] \in Jobs,
         job' = [job EXCEPT ![t] = NoJob],
         NEW s \in {"done", "aborted", "lost"}, status' = [status EXCEPT ![job[t]] = s],
         \A u \in Threads : u # t => pc'[u] = pc[u], pc'[t] \in {"get", "done"}
  PROVE  CarriedInv'
<1>1. job'[t] = NoJob /\ \A u \in Threads : u # t => job'[u] = job[u]
  BY DEF TypeOK
<1>2. status'[job[t]] = s /\ \A i \in Jobs : i # job[t] => status'[i] = status[i]
  BY DEF TypeOK
<1>3. ASSUME NEW i \in Jobs, status'[i] \in {"taken", "running"}
      PROVE  \E u \in Threads : job'[u] = i
  <2>1. i # job[t] /\ status[i] \in {"taken", "running"}
    BY <1>2, <1>3
  <2>2. PICK u \in Threads : job[u] = i
    BY <2>1 DEF CarriedInv
  <2>3. QED
    BY <1>1, <2>1, <2>2
<1>4. ASSUME NEW u \in Threads
      PROVE  /\ job'[u] # NoJob => (u = Enricher <=> LaneOf[job'[u]] = "enrichment")
             /\ pc'[u] \in {"gate", "woken"} => u = Enricher
  <2>1. CASE u = t
    BY <1>1, <2>1
  <2>2. CASE u # t
    BY <1>1, <2>2 DEF CarriedInv
  <2>3. QED
    BY <2>1, <2>2
<1>5. QED
  BY <1>3, <1>4 DEF CarriedInv

\* No job changes hands.
LEMMA CarriedKeep ==
  ASSUME CarriedInv, job' = job,
         \A i \in Jobs :
           status'[i] \in {"taken", "running"} => status[i] \in {"taken", "running"},
         \A u \in Threads : pc'[u] \in {"gate", "woken"} => pc[u] \in {"gate", "woken"}
  PROVE  CarriedInv'
BY DEF CarriedInv

-----------------------------------------------------------------------------
\* In o, i comes before j.
Ahead(o, i, j) == \E m, n \in 1 .. Len(o) : m < n /\ o[m] = i /\ o[n] = j

\* The wait list w of key k holds threads that are suspended on its lock, each
\* once, and those of one lane in the order in which the lane accepted their jobs.
Line(k, w, p, jb, od) ==
  /\ \A n \in 1 .. Len(w) : p[w[n]] = "lock" /\ KeyOf[jb[w[n]]] = k
  /\ \A m, n \in 1 .. Len(w) :
       /\ w[m] = w[n] => m = n
       /\ m < n /\ LaneOf[jb[w[m]]] = LaneOf[jb[w[n]]] =>
            Ahead(od[LaneOf[jb[w[n]]]], jb[w[m]], jb[w[n]])

\* Every thread suspended on a lock is in its wait list.
WaitInv ==
  /\ \A t \in Threads : pc[t] = "lock" =>
       /\ KeyOf[job[t]] \in Keys
       /\ \E n \in 1 .. Len(waiters[KeyOf[job[t]]]) : waiters[KeyOf[job[t]]][n] = t
  /\ \A k \in Keys : Line(k, waiters[k], pc, job, order)

\* p goes on where o ends.
Grows(o, p) ==
  /\ Len(o) \in Nat /\ Len(p) \in Nat /\ Len(o) <= Len(p)
  /\ \A n \in 1 .. Len(o) : p[n] = o[n]

LEMMA AheadKept ==
  ASSUME NEW o, NEW p, NEW i, NEW j, Grows(o, p), Ahead(o, i, j)
  PROVE  Ahead(p, i, j)
<1>1. PICK m, n \in 1 .. Len(o) : m < n /\ o[m] = i /\ o[n] = j
  BY DEF Ahead
<1>2. m \in 1 .. Len(p) /\ n \in 1 .. Len(p) /\ p[m] = i /\ p[n] = j
  BY <1>1 DEF Grows
<1>3. QED
  BY <1>1, <1>2 DEF Ahead

\* The order of each lane only grows.
LEMMA OrderGrows ==
  ASSUME TypeOK, NEW l \in Lanes, (\E j \in Jobs : Put(j)) \/ order' = order
  PROVE  Grows(order[l], order'[l])
<1>1. order[l] \in Seq(Jobs)
  BY DEF TypeOK
<1>2. order'[l] = order[l] \/ \E j \in Jobs : order'[l] = Append(order[l], j)
  <2>1. ASSUME NEW j \in Jobs, Accept(j)
        PROVE  order'[l] = order[l] \/ order'[l] = Append(order[l], j)
    BY <2>1, QueueAssumption DEF Accept, TypeOK
  <2>2. QED
    BY <2>1 DEF Put, Reject
<1>3. CASE order'[l] = order[l]
  BY <1>1, <1>3 DEF Grows
<1>4. ASSUME NEW j \in Jobs, order'[l] = Append(order[l], j)
      PROVE  Grows(order[l], order'[l])
  BY <1>1, <1>4, AppendProperties DEF Grows
<1>5. QED
  BY <1>2, <1>3, <1>4

\* The elements of v are elements of w, in w's order.
Within(v, w) ==
  /\ \A n \in 1 .. Len(v) : \E a \in 1 .. Len(w) : v[n] = w[a]
  /\ \A m, n \in 1 .. Len(v) : m < n =>
       \E a, b \in 1 .. Len(w) : a < b /\ v[m] = w[a] /\ v[n] = w[b]

LEMMA WithinSelf ==
  ASSUME NEW w
  PROVE  Within(w, w)
BY DEF Within

\* Threads that leave a wait list leave the others in order.
LEMMA LineLess ==
  ASSUME NEW k, NEW w, NEW v, NEW p, NEW p2, NEW jb, NEW jb2, NEW od, NEW od2,
         Line(k, w, p, jb, od), Len(w) \in Nat, Len(v) \in Nat, Within(v, w),
         \A n \in 1 .. Len(v) :
           p2[v[n]] = "lock" /\ jb2[v[n]] = jb[v[n]] /\ jb[v[n]] \in Jobs,
         \A l \in Lanes : Grows(od[l], od2[l])
  PROVE  Line(k, v, p2, jb2, od2)
<1>1. ASSUME NEW n \in 1 .. Len(v)
      PROVE  p2[v[n]] = "lock" /\ KeyOf[jb2[v[n]]] = k
  <2>1. PICK a \in 1 .. Len(w) : v[n] = w[a]
    BY DEF Within
  <2>2. QED
    BY <2>1 DEF Line
<1>2. ASSUME NEW m \in 1 .. Len(v), NEW n \in 1 .. Len(v), m < n
      PROVE  v[m] # v[n]
  <2>1. PICK a, b \in 1 .. Len(w) : a < b /\ v[m] = w[a] /\ v[n] = w[b]
    BY <1>2 DEF Within
  <2>2. QED
    BY <2>1 DEF Line
<1>3. ASSUME NEW m \in 1 .. Len(v), NEW n \in 1 .. Len(v), m < n,
             LaneOf[jb2[v[m]]] = LaneOf[jb2[v[n]]]
      PROVE  Ahead(od2[LaneOf[jb2[v[n]]]], jb2[v[m]], jb2[v[n]])
  <2>1. PICK a, b \in 1 .. Len(w) : a < b /\ v[m] = w[a] /\ v[n] = w[b]
    BY <1>3 DEF Within
  <2>2. jb2[v[m]] = jb[w[a]] /\ jb2[v[n]] = jb[w[b]] /\ LaneOf[jb2[v[n]]] \in Lanes
    BY <2>1, QueueAssumption
  <2>3. Ahead(od[LaneOf[jb[w[b]]]], jb[w[a]], jb[w[b]])
    BY <1>3, <2>1, <2>2 DEF Line
  <2>4. Ahead(od[LaneOf[jb2[v[n]]]], jb2[v[m]], jb2[v[n]])
    BY <2>2, <2>3
  <2>5. QED
    BY <2>2, <2>4, AheadKept
<1>4. \A m, n \in 1 .. Len(v) : v[m] = v[n] => m = n
  BY <1>2
<1>5. QED
  BY <1>1, <1>3, <1>4 DEF Line

\* A thread whose job came after theirs joins the threads of its lane.
LEMMA LineJoin ==
  ASSUME NEW k, NEW w \in Seq(Threads), NEW p, NEW p2, NEW jb, NEW jb2, NEW od,
         NEW t \in Threads, Line(k, w, p, jb, od),
         p2[t] = "lock", KeyOf[jb2[t]] = k,
         \A n \in 1 .. Len(w) :
           /\ w[n] # t /\ p2[w[n]] = p[w[n]] /\ jb2[w[n]] = jb[w[n]]
           /\ LaneOf[jb[w[n]]] = LaneOf[jb2[t]] => Ahead(od[LaneOf[jb2[t]]], jb[w[n]], jb2[t])
  PROVE  Line(k, Append(w, t), p2, jb2, od)
<1> DEFINE v == Append(w, t)
<1>1. /\ Len(w) \in Nat /\ Len(v) = Len(w) + 1 /\ v[Len(w) + 1] = t
      /\ \A n \in 1 .. Len(w) : v[n] = w[n]
  BY AppendProperties
<1> HIDE DEF v
<1>2. \A n \in 1 .. Len(v) : n \in 1 .. Len(w) \/ n = Len(w) + 1
  BY <1>1
<1>3. \A n \in 1 .. Len(v) : p2[v[n]] = "lock" /\ KeyOf[jb2[v[n]]] = k
  BY <1>1, <1>2 DEF Line
<1>4. ASSUME NEW m \in 1 .. Len(v), NEW n \in 1 .. Len(v)
      PROVE  /\ v[m] = v[n] => m = n
             /\ m < n /\ LaneOf[jb2[v[m]]] = LaneOf[jb2[v[n]]] =>
                  Ahead(od[LaneOf[jb2[v[n]]]], jb2[v[m]], jb2[v[n]])
  <2>1. CASE m \in 1 .. Len(w) /\ n \in 1 .. Len(w)
    <3>1. v[m] = w[m] /\ v[n] = w[n] /\ jb2[v[m]] = jb[w[m]] /\ jb2[v[n]] = jb[w[n]]
      BY <1>1, <2>1
    <3>2. QED
      BY <2>1, <3>1 DEF Line
  <2>2. CASE m \in 1 .. Len(w) /\ n = Len(w) + 1
    <3>1. v[m] = w[m] /\ v[n] = t /\ jb2[v[m]] = jb[w[m]] /\ w[m] # t
      BY <1>1, <2>2
    <3>2. QED
      BY <2>2, <3>1
  <2>3. CASE m = Len(w) + 1 /\ n \in 1 .. Len(w)
    <3>1. v[n] = w[n] /\ v[m] = t /\ w[n] # t /\ ~(m < n)
      BY <1>1, <2>3
    <3>2. QED
      BY <3>1
  <2>4. CASE m = Len(w) + 1 /\ n = Len(w) + 1
    BY <1>1, <2>4
  <2>5. QED
    BY <1>2, <2>1, <2>2, <2>3, <2>4
<1>5. Line(k, v, p2, jb2, od)
  BY <1>3, <1>4 DEF Line
<1>6. QED
  BY <1>5 DEF v

\* The threads of a wait list, and the jobs in their hands.
LEMMA InWait ==
  ASSUME TypeOK, JobInHand, WaitInv, NEW k \in Keys
  PROVE  /\ waiters[k] \in Seq(Threads) /\ Len(waiters[k]) \in Nat
         /\ Line(k, waiters[k], pc, job, order)
         /\ \A n \in 1 .. Len(waiters[k]) :
              /\ waiters[k][n] \in Threads /\ pc[waiters[k][n]] = "lock"
              /\ job[waiters[k][n]] \in Jobs /\ KeyOf[job[waiters[k][n]]] = k
<1>1. waiters[k] \in Seq(Threads) /\ Line(k, waiters[k], pc, job, order)
  BY DEF TypeOK, WaitInv
<1>2. QED
  BY <1>1 DEF Line, JobInHand

\* A step that leaves the wait lists and the threads in them alone.
LEMMA WaitKeep ==
  ASSUME TypeOK, JobInHand, WaitInv, waiters' = waiters,
         \A u \in Threads : (pc'[u] = "lock" <=> pc[u] = "lock")
                            /\ (pc[u] = "lock" => job'[u] = job[u]),
         \A l \in Lanes : Grows(order[l], order'[l])
  PROVE  WaitInv'
<1>1. ASSUME NEW k \in Keys
      PROVE  Line(k, waiters'[k], pc', job', order')
  <2>1. /\ Len(waiters[k]) \in Nat /\ Line(k, waiters[k], pc, job, order)
        /\ \A n \in 1 .. Len(waiters[k]) :
             /\ waiters[k][n] \in Threads /\ pc[waiters[k][n]] = "lock"
             /\ job[waiters[k][n]] \in Jobs
    BY InWait
  <2>2. \A n \in 1 .. Len(waiters[k]) :
          /\ pc'[waiters[k][n]] = "lock" /\ job'[waiters[k][n]] = job[waiters[k][n]]
          /\ job[waiters[k][n]] \in Jobs
    BY <2>1
  <2>3. Within(waiters[k], waiters[k])
    BY WithinSelf
  <2>4. Line(k, waiters[k], pc', job', order')
    BY <2>1, <2>2, <2>3, LineLess
  <2>5. QED
    BY <2>4
<1>2. ASSUME NEW t \in Threads, pc'[t] = "lock"
      PROVE  /\ KeyOf[job'[t]] \in Keys
             /\ \E n \in 1 .. Len(waiters'[KeyOf[job'[t]]]) : waiters'[KeyOf[job'[t]]][n] = t
  BY <1>2 DEF WaitInv
<1>3. QED
  BY <1>1, <1>2 DEF WaitInv

\* A thread that takes a job enters its body, or its lock's line behind the
\* threads whose jobs the same lane accepted before.
LEMMA WaitEnter ==
  ASSUME TypeOK, JobInHand, WaitInv, NEW t \in Threads, NEW j \in Jobs,
         EnterJob(t, j), pc[t] # "lock",
         job'[t] = j, \A u \in Threads : u # t => job'[u] = job[u],
         order' = order,
         \A u \in Threads : pc[u] = "lock" /\ LaneOf[job[u]] = LaneOf[j] =>
           Ahead(order[LaneOf[j]], job[u], j)
  PROVE  WaitInv'
<1>0. /\ KeyOf[j] \in Keys \cup {NoKey}
      /\ \A l \in Lanes : Grows(order[l], order'[l])
  BY QueueAssumption, OrderGrows
<1>1. CASE waiters' = waiters /\ pc' = [pc EXCEPT ![t] = "run"]
  <2>1. pc'[t] = "run" /\ \A u \in Threads : u # t => pc'[u] = pc[u]
    BY <1>1 DEF TypeOK
  <2>2. \A u \in Threads : (pc'[u] = "lock" <=> pc[u] = "lock")
                           /\ (pc[u] = "lock" => job'[u] = job[u])
    BY <2>1
  <2>3. QED
    BY <1>0, <1>1, <2>2, WaitKeep
<1>2. CASE /\ KeyOf[j] # NoKey
           /\ waiters' = [waiters EXCEPT ![KeyOf[j]] = Append(@, t)]
           /\ pc' = [pc EXCEPT ![t] = "lock"]
  <2> DEFINE w == waiters[KeyOf[j]]
  <2>1. pc'[t] = "lock" /\ \A u \in Threads : u # t => pc'[u] = pc[u]
    BY <1>2 DEF TypeOK
  <2>2. /\ KeyOf[j] \in Keys /\ waiters'[KeyOf[j]] = Append(w, t)
        /\ \A k \in Keys : k # KeyOf[j] => waiters'[k] = waiters[k]
    BY <1>0, <1>2 DEF TypeOK
  <2>3. ASSUME NEW k \in Keys
        PROVE  /\ Len(waiters[k]) \in Nat
               /\ \A n \in 1 .. Len(waiters[k]) :
                    /\ waiters[k][n] # t
                    /\ pc'[waiters[k][n]] = pc[waiters[k][n]] /\ pc'[waiters[k][n]] = "lock"
                    /\ job'[waiters[k][n]] = job[waiters[k][n]] /\ job[waiters[k][n]] \in Jobs
    BY <2>1, InWait
  <2>4. Line(KeyOf[j], Append(w, t), pc', job', order)
    <3>1. /\ w \in Seq(Threads) /\ Line(KeyOf[j], w, pc, job, order)
          /\ \A n \in 1 .. Len(w) : w[n] \in Threads /\ pc[w[n]] = "lock"
      BY <2>2, InWait
    <3>2. \A n \in 1 .. Len(w) :
            /\ w[n] # t /\ pc'[w[n]] = pc[w[n]] /\ job'[w[n]] = job[w[n]]
            /\ LaneOf[job[w[n]]] = LaneOf[job'[t]] =>
                 Ahead(order[LaneOf[job'[t]]], job[w[n]], job'[t])
      BY <2>2, <2>3, <3>1
    <3>3. pc'[t] = "lock" /\ KeyOf[job'[t]] = KeyOf[j]
      BY <2>1
    <3> HIDE DEF w
    <3>4. QED
      BY <3>1, <3>2, <3>3, LineJoin
  <2>5. ASSUME NEW k \in Keys
        PROVE  Line(k, waiters'[k], pc', job', order')
    <3>1. CASE k = KeyOf[j]
      BY <2>2, <2>4, <3>1
    <3>2. CASE k # KeyOf[j]
      <4>1. Line(k, waiters[k], pc, job, order)
        BY InWait
      <4>2. \A n \in 1 .. Len(waiters[k]) :
              /\ pc'[waiters[k][n]] = "lock" /\ job'[waiters[k][n]] = job[waiters[k][n]]
              /\ job[waiters[k][n]] \in Jobs
        BY <2>3
      <4>3. Within(waiters[k], waiters[k])
        BY WithinSelf
      <4>4. Line(k, waiters[k], pc', job', order')
        BY <1>0, <2>3, <4>1, <4>2, <4>3, LineLess
      <4>5. QED
        BY <2>2, <3>2, <4>4
    <3>3. QED
      BY <3>1, <3>2
  <2>6. ASSUME NEW u \in Threads, pc'[u] = "lock"
        PROVE  /\ KeyOf[job'[u]] \in Keys
               /\ \E n \in 1 .. Len(waiters'[KeyOf[job'[u]]]) : waiters'[KeyOf[job'[u]]][n] = u
    <3>1. /\ w \in Seq(Threads) /\ Len(w) \in Nat
          /\ Len(Append(w, t)) = Len(w) + 1 /\ Append(w, t)[Len(w) + 1] = t
          /\ \A n \in 1 .. Len(w) : Append(w, t)[n] = w[n]
      BY <2>2, InWait, AppendProperties
    <3>2. CASE u = t
      <4>1. Len(w) + 1 \in 1 .. Len(waiters'[KeyOf[j]]) /\ waiters'[KeyOf[j]][Len(w) + 1] = t
        BY <2>2, <3>1
      <4>2. QED
        BY <2>2, <3>2, <4>1
    <3>3. CASE u # t
      <4>1. pc[u] = "lock" /\ job'[u] = job[u]
        BY <2>1, <2>6, <3>3
      <4>2. PICK n \in 1 .. Len(waiters[KeyOf[job[u]]]) : waiters[KeyOf[job[u]]][n] = u
        BY <4>1 DEF WaitInv
      <4>3. KeyOf[job[u]] \in Keys
        BY <4>1 DEF WaitInv
      <4>4. CASE KeyOf[job[u]] = KeyOf[j]
        <5>1. n \in 1 .. Len(waiters'[KeyOf[j]]) /\ waiters'[KeyOf[j]][n] = u
          BY <2>2, <3>1, <4>2, <4>4
        <5>2. QED
          BY <2>2, <4>1, <4>4, <5>1
      <4>5. CASE KeyOf[job[u]] # KeyOf[j]
        BY <2>2, <4>1, <4>2, <4>3, <4>5
      <4>6. QED
        BY <4>4, <4>5
    <3>4. QED
      BY <3>2, <3>3
  <2>7. QED
    BY <2>5, <2>6 DEF WaitInv
<1>3. QED
  BY <1>1, <1>2 DEF EnterJob, locks

\* v is w without its i-th element.
Without(v, w, i) ==
  /\ Len(v) = Len(w) - 1
  /\ \A n \in 1 .. (Len(w) - 1) : v[n] = IF n < i THEN w[n] ELSE w[n + 1]

LEMMA LineDrop ==
  ASSUME NEW k, NEW w, NEW v, NEW p, NEW p2, NEW jb, NEW jb2, NEW od, NEW od2,
         Line(k, w, p, jb, od), Len(w) \in Nat,
         NEW i \in 1 .. Len(w), Without(v, w, i),
         \A n \in 1 .. Len(w) : w[n] # w[i] =>
           p2[w[n]] = "lock" /\ jb2[w[n]] = jb[w[n]] /\ jb[w[n]] \in Jobs,
         \A l \in Lanes : Grows(od[l], od2[l])
  PROVE  Line(k, v, p2, jb2, od2)
<1>1. Len(v) \in Nat
  BY DEF Without
<1>2. \A n \in 1 .. Len(v) :
        \E a \in 1 .. Len(w) : v[n] = w[a] /\ a # i /\ a = IF n < i THEN n ELSE n + 1
  BY DEF Without
<1>3. \A n \in 1 .. Len(v) :
        p2[v[n]] = "lock" /\ jb2[v[n]] = jb[v[n]] /\ jb[v[n]] \in Jobs
  <2> TAKE n \in 1 .. Len(v)
  <2>1. PICK a \in 1 .. Len(w) : v[n] = w[a] /\ a # i
    BY <1>2
  <2>2. w[a] # w[i]
    BY <2>1 DEF Line
  <2>3. QED
    BY <2>1, <2>2
<1>4. ASSUME NEW m \in 1 .. Len(v), NEW n \in 1 .. Len(v), m < n
      PROVE  \E a, b \in 1 .. Len(w) : a < b /\ v[m] = w[a] /\ v[n] = w[b]
  <2>1. PICK a \in 1 .. Len(w) : v[m] = w[a] /\ a = IF m < i THEN m ELSE m + 1
    BY <1>2
  <2>2. PICK b \in 1 .. Len(w) : v[n] = w[b] /\ b = IF n < i THEN n ELSE n + 1
    BY <1>2
  <2>3. a < b
    BY <1>1, <1>4, <2>1, <2>2
  <2>4. QED
    BY <2>1, <2>2, <2>3
<1>5. Within(v, w)
  BY <1>2, <1>4 DEF Within
<1>6. QED
  BY <1>1, <1>3, <1>5, LineLess

\* A thread leaves the line it is in, with the lock or without.
LEMMA WaitLeave ==
  ASSUME TypeOK, JobInHand, WaitInv, NEW t \in Threads, pc[t] = "lock",
         NEW k \in Keys, k = KeyOf[job[t]],
         NEW i \in 1 .. Len(waiters[k]), waiters[k][i] = t,
         NEW v \in Seq(Threads), waiters' = [waiters EXCEPT ![k] = v],
         Without(v, waiters[k], i),
         pc'[t] # "lock",
         \A u \in Threads : u # t => pc'[u] = pc[u] /\ job'[u] = job[u],
         order' = order
  PROVE  WaitInv'
<1> DEFINE w == waiters[k]
<1>0. \A l \in Lanes : Grows(order[l], order'[l])
  BY OrderGrows
<1>1. waiters'[k] = v /\ \A h \in Keys : h # k => waiters'[h] = waiters[h]
  BY DEF TypeOK
<1>2. /\ Len(w) \in Nat /\ Line(k, w, pc, job, order)
      /\ \A n \in 1 .. Len(w) : w[n] \in Threads /\ pc[w[n]] = "lock" /\ job[w[n]] \in Jobs
      /\ \A m, n \in 1 .. Len(w) : w[m] = w[n] => m = n
  <2>1. /\ Len(w) \in Nat /\ Line(k, w, pc, job, order)
        /\ \A n \in 1 .. Len(w) : w[n] \in Threads /\ pc[w[n]] = "lock" /\ job[w[n]] \in Jobs
    BY InWait
  <2> HIDE DEF w
  <2>2. QED
    BY <2>1 DEF Line
<1>3. /\ Without(v, w, i) /\ Len(v) \in Nat /\ Len(v) = Len(w) - 1
      /\ \A n \in 1 .. Len(v) : v[n] = IF n < i THEN w[n] ELSE w[n + 1]
  BY <1>2 DEF Without
<1> HIDE DEF w
<1>5. Line(k, v, pc', job', order')
  <2>1. i \in 1 .. Len(w) /\ w[i] = t
    BY DEF w
  <2>2. \A n \in 1 .. Len(w) : w[n] # w[i] =>
          pc'[w[n]] = "lock" /\ job'[w[n]] = job[w[n]] /\ job[w[n]] \in Jobs
    BY <1>2, <2>1
  <2>3. Line(k, w, pc, job, order) /\ Len(w) \in Nat /\ Without(v, w, i)
    BY <1>2, <1>3
  <2>4. QED
    BY <1>0, <2>1, <2>2, <2>3, LineDrop
<1>6. ASSUME NEW h \in Keys
      PROVE  Line(h, waiters'[h], pc', job', order')
  <2>1. CASE h = k
    BY <1>1, <1>5, <2>1
  <2>2. CASE h # k
    <3>1. /\ Len(waiters[h]) \in Nat /\ Line(h, waiters[h], pc, job, order)
          /\ \A n \in 1 .. Len(waiters[h]) :
               /\ waiters[h][n] \in Threads /\ pc[waiters[h][n]] = "lock"
               /\ job[waiters[h][n]] \in Jobs /\ KeyOf[job[waiters[h][n]]] = h
      BY InWait
    <3>2. \A n \in 1 .. Len(waiters[h]) :
            /\ pc'[waiters[h][n]] = "lock" /\ job'[waiters[h][n]] = job[waiters[h][n]]
            /\ job[waiters[h][n]] \in Jobs
      BY <2>2, <3>1
    <3>3. Within(waiters[h], waiters[h])
      BY WithinSelf
    <3>4. Line(h, waiters[h], pc', job', order')
      BY SMTT(30), <1>0, <3>1, <3>2, <3>3, LineLess
    <3>5. QED
      BY <1>1, <2>2, <3>4
  <2>3. QED
    BY <2>1, <2>2
<1>7. ASSUME NEW u \in Threads, pc'[u] = "lock"
      PROVE  /\ KeyOf[job'[u]] \in Keys
             /\ \E n \in 1 .. Len(waiters'[KeyOf[job'[u]]]) : waiters'[KeyOf[job'[u]]][n] = u
  <2>1. u # t /\ pc[u] = "lock" /\ job'[u] = job[u]
    BY <1>7
  <2>2. KeyOf[job[u]] \in Keys
    BY <2>1 DEF WaitInv
  <2>3. PICK a \in 1 .. Len(waiters[KeyOf[job[u]]]) : waiters[KeyOf[job[u]]][a] = u
    BY <2>1 DEF WaitInv
  <2>4. CASE KeyOf[job[u]] = k
    <3>1. a \in 1 .. Len(w) /\ w[a] = u /\ i \in 1 .. Len(w) /\ w[i] = t
      BY <2>3, <2>4 DEF w
    <3>2. CASE a < i
      <4>1. a \in 1 .. Len(v) /\ v[a] = u
        BY <1>2, <1>3, <3>1, <3>2
      <4>2. QED
        BY <1>1, <2>1, <2>4, <4>1
    <3>3. CASE a > i
      <4>1. a - 1 \in 1 .. Len(v) /\ ~(a - 1 < i) /\ (a - 1) + 1 = a
        BY <1>2, <1>3, <3>1, <3>3
      <4>2. v[a - 1] = u
        BY <1>3, <3>1, <4>1
      <4>3. QED
        BY <1>1, <2>1, <2>4, <4>1, <4>2
    <3>4. QED
      BY <1>2, <2>1, <3>1, <3>2, <3>3
  <2>5. CASE KeyOf[job[u]] # k
    <3>1. waiters'[KeyOf[job[u]]] = waiters[KeyOf[job[u]]]
      BY <1>1, <2>2, <2>5
    <3>2. QED
      BY <2>1, <2>2, <2>3, <3>1
  <2>6. QED
    BY <2>4, <2>5
<1>8. QED
  BY <1>6, <1>7 DEF WaitInv

-----------------------------------------------------------------------------
Fifo == OrderInv /\ CarriedInv /\ WaitInv

\* How many jobs of o have left the queue q.
Gone(q, o) == Len(o) - Len(q)

\* A job of a lane is queued if it stands behind those that are gone.
Stand(l, q, o, st) ==
  /\ Gone(q, o) \in Nat
  /\ \A n \in 1 .. Len(o) :
       /\ o[n] \in Jobs /\ LaneOf[o[n]] = l
       /\ st[o[n]] = "queued" <=> n > Gone(q, o)
  /\ \A m, n \in 1 .. Len(o) : o[m] = o[n] => m = n
  /\ q # <<>> => Gone(q, o) + 1 \in 1 .. Len(o) /\ o[Gone(q, o) + 1] = Head(q)

LEMMA InLineAt ==
  ASSUME NEW l, NEW q \in Seq(Jobs), NEW o \in Seq(Jobs), NEW st, InLine(l, q, o, st),
         \A n \in 1 .. Len(q) : st[q[n]] = "queued"
  PROVE  Stand(l, q, o, st)
<1> DEFINE d == Len(o) - Len(q)
<1>1. /\ Len(q) \in Nat /\ Len(o) \in Nat /\ d \in Nat
      /\ \A n \in 1 .. Len(o) : o[n] \in Jobs
  BY DEF InLine
<1>2. /\ \A n \in 1 .. Len(q) : o[d + n] = q[n]
      /\ \A m, n \in 1 .. Len(o) : o[m] = o[n] => m = n
      /\ \A n \in 1 .. Len(o) : LaneOf[o[n]] = l /\ (st[o[n]] = "queued" => n > d)
  BY DEF InLine
<1>3. d + Len(q) = Len(o)
  BY <1>1
<1> HIDE DEF d
<1>4. ASSUME NEW n \in 1 .. Len(o), n > d
      PROVE  st[o[n]] = "queued"
  <2>1. n - d \in 1 .. Len(q) /\ d + (n - d) = n
    BY <1>1, <1>3, <1>4
  <2>2. o[n] = q[n - d]
    BY <1>2, <2>1
  <2>3. QED
    BY <2>1, <2>2
<1>5. ASSUME q # <<>>
      PROVE  d + 1 \in 1 .. Len(o) /\ o[d + 1] = Head(q)
  <2>1. 1 \in 1 .. Len(q) /\ Head(q) = q[1]
    BY <1>5
  <2>2. QED
    BY <1>1, <1>2, <1>3, <2>1
<1>6. Gone(q, o) = d
  BY DEF Gone, d
<1>7. QED
  BY <1>1, <1>2, <1>4, <1>5, <1>6 DEF Stand

LEMMA Standing ==
  ASSUME Ledger, Fifo, NEW l \in Lanes
  PROVE  /\ Gone(queue[l], order[l]) \in Nat
         /\ \A n \in 1 .. Len(order[l]) :
              /\ order[l][n] \in Jobs /\ LaneOf[order[l][n]] = l
              /\ status[order[l][n]] = "queued" <=> n > Gone(queue[l], order[l])
         /\ \A m, n \in 1 .. Len(order[l]) : order[l][m] = order[l][n] => m = n
         /\ queue[l] # <<>> =>
              /\ Gone(queue[l], order[l]) + 1 \in 1 .. Len(order[l])
              /\ order[l][Gone(queue[l], order[l]) + 1] = Head(queue[l])
<1>1. queue[l] \in Seq(Jobs) /\ order[l] \in Seq(Jobs)
  BY DEF Ledger, ExclusionInv, TypeInv, TypeOK
<1>2. InLine(l, queue[l], order[l], status)
  BY DEF Fifo, OrderInv
<1>3. \A n \in 1 .. Len(queue[l]) : status[queue[l][n]] = "queued"
  BY <1>1 DEF Ledger, Account, QueueInv
<1>4. Stand(l, queue[l], order[l], status)
  BY <1>1, <1>2, <1>3, InLineAt
<1>5. QED
  BY <1>4 DEF Stand

\* A job that comes before one that is taken, or is taken next, is taken.
LEMMA TakenBefore ==
  ASSUME Ledger, Fifo, NEW i, NEW j \in Jobs,
         \/ status[j] = "taken"
         \/ queue[LaneOf[j]] # <<>> /\ j = Head(queue[LaneOf[j]]),
         Ahead(order[LaneOf[j]], i, j)
  PROVE  i \in Jobs /\ LaneOf[i] = LaneOf[j] /\ i # j /\ status[i] # "queued"
<1> DEFINE l == LaneOf[j]
           g == Gone(queue[l], order[l])
<1>0. l \in Lanes
  BY QueueAssumption
<1>1. PICK m, n \in 1 .. Len(order[l]) : m < n /\ order[l][m] = i /\ order[l][n] = j
  BY DEF Ahead
<1>2. /\ g \in Nat /\ i \in Jobs /\ LaneOf[i] = l /\ i # j
      /\ status[i] = "queued" <=> m > g
      /\ status[j] = "queued" <=> n > g
      /\ queue[l] # <<>> => (g + 1 \in 1 .. Len(order[l]) /\ order[l][g + 1] = Head(queue[l]))
      /\ order[l][g + 1] = order[l][n] /\ g + 1 \in 1 .. Len(order[l]) => g + 1 = n
  <2> HIDE DEF l
  <2>1. QED
    BY <1>0, <1>1, Standing
<1> HIDE DEF g
<1>3. CASE status[j] = "taken"
  BY <1>1, <1>2, <1>3
<1>4. CASE queue[l] # <<>> /\ j = Head(queue[l])
  BY <1>1, <1>2, <1>4
<1>5. QED
  BY <1>2, <1>3, <1>4

\* The threads that wait with jobs of a lane stand before the head of its queue.
LEMMA AheadOfHead ==
  ASSUME Ledger, Fifo, NEW l \in Lanes, queue[l] # <<>>,
         NEW u \in Threads, pc[u] = "lock", LaneOf[job[u]] = l
  PROVE  Ahead(order[l], job[u], Head(queue[l]))
<1> DEFINE g == Gone(queue[l], order[l])
<1>1. job[u] \in Jobs /\ status[job[u]] = "taken"
  BY DEF Ledger, ExclusionInv, TypeInv, JobInHand, Account, HandInv
<1>2. PICK m \in 1 .. Len(order[l]) : order[l][m] = job[u]
  BY <1>1 DEF Fifo, OrderInv
<1>3. /\ g \in Nat /\ ~(m > g)
      /\ g + 1 \in 1 .. Len(order[l]) /\ order[l][g + 1] = Head(queue[l])
  BY <1>1, <1>2, Standing
<1> HIDE DEF g
<1>4. m < g + 1
  BY <1>3
<1>5. QED
  BY <1>2, <1>3, <1>4 DEF Ahead

\* Who carries a job: one that is taken waits for its lock, or for the gate in the
\* enricher's hand; one that runs is run.
LEMMA Carrier ==
  ASSUME Ledger, Fifo, NEW i \in Jobs, status[i] \in {"taken", "running"}
  PROVE  \E u \in Threads :
           /\ job[u] = i
           /\ u = Enricher <=> LaneOf[i] = "enrichment"
           /\ status[i] = "running" => pc[u] = "run"
           /\ status[i] = "taken" => pc[u] = "lock" \/ (pc[u] \in {"gate", "woken"} /\ u = Enricher)
<1>1. PICK u \in Threads : job[u] = i
  BY DEF Fifo, CarriedInv
<1>2. pc[u] \in PCs /\ i # NoJob
  BY QueueAssumption DEF Ledger, ExclusionInv, TypeInv, TypeOK
<1>3. QED
  BY <1>1, <1>2 DEF PCs, Ledger, Account, HandInv, Fifo, CarriedInv

\* A job may begin when its lock is free and its thread is first in line for it:
\* no job of its key runs, and none that its lane accepted before it waits.
LEMMA MayBegin ==
  ASSUME Ledger, Fifo, NEW t \in Threads, NEW j \in Jobs, KeyOf[j] \in Keys,
         holder[KeyOf[j]] = NoThread,
         t = Enricher <=> LaneOf[j] = "enrichment",
         \/ /\ waiters[KeyOf[j]] = <<>>
            /\ \/ pc[t] = "get" /\ queue[LaneOf[j]] # <<>> /\ j = Head(queue[LaneOf[j]])
               \/ pc[t] = "woken" /\ job[t] = j
         \/ /\ pc[t] = "lock" /\ job[t] = j
            /\ waiters[KeyOf[j]] # <<>> /\ Head(waiters[KeyOf[j]]) = t,
         NEW i \in Jobs, KeyOf[i] = KeyOf[j]
  PROVE  /\ status[i] # "running"
         /\ Ahead(order[LaneOf[j]], i, j) => status[i] \notin {"queued", "taken"}
<1> DEFINE k == KeyOf[j]
<1>0. /\ TypeOK /\ JobInHand /\ LockInv /\ WaitInv
      /\ pc[t] \in {"woken", "lock"} => status[job[t]] = "taken"
  BY DEF Ledger, ExclusionInv, TypeInv, Fifo, Account, HandInv
<1>1. status[i] # "running"
  <2> SUFFICES ASSUME status[i] = "running"
               PROVE  FALSE
    OBVIOUS
  <2>1. PICK u \in Threads : job[u] = i /\ pc[u] = "run"
    BY Carrier
  <2>2. QED
    BY <1>0, <2>1, QueueAssumption DEF LockInv
<1>2. ASSUME Ahead(order[LaneOf[j]], i, j)
      PROVE  status[i] # "queued" /\ LaneOf[i] = LaneOf[j] /\ i # j
  BY <1>0, <1>2, TakenBefore
<1>3. ASSUME Ahead(order[LaneOf[j]], i, j), status[i] = "taken"
      PROVE  FALSE
  <2>1. PICK u \in Threads :
          /\ job[u] = i
          /\ u = Enricher <=> LaneOf[i] = "enrichment"
          /\ pc[u] = "lock" \/ (pc[u] \in {"gate", "woken"} /\ u = Enricher)
    BY <1>3, Carrier
  <2>2. u # t
    <3>1. pc[t] \in {"woken", "lock"} => job[t] # i
      BY <1>2, <1>3
    <3>2. QED
      BY <2>1, <3>1
  <2>3. pc[u] = "lock"
    BY <1>2, <1>3, <2>1, <2>2
  <2>4. PICK b \in 1 .. Len(waiters[k]) : waiters[k][b] = u
    BY <1>0, <2>1, <2>3 DEF WaitInv
  <2>5. waiters[k] \in Seq(Threads) /\ waiters[k] # <<>>
    BY <1>0, <2>4 DEF TypeOK
  <2>6. job[t] = j /\ waiters[k][1] = t /\ 1 \in 1 .. Len(waiters[k]) /\ 1 < b
    BY <2>2, <2>4, <2>5
  <2>7. Line(k, waiters[k], pc, job, order)
    BY <1>0 DEF WaitInv
  <2>8. Ahead(order[LaneOf[i]], j, i)
    <3>1. \A m, n \in 1 .. Len(waiters[k]) :
            m < n /\ LaneOf[job[waiters[k][m]]] = LaneOf[job[waiters[k][n]]] =>
              Ahead(order[LaneOf[job[waiters[k][n]]]], job[waiters[k][m]], job[waiters[k][n]])
      BY <2>7 DEF Line
    <3>2. 1 < b /\ LaneOf[job[waiters[k][1]]] = LaneOf[job[waiters[k][b]]] =>
            Ahead(order[LaneOf[job[waiters[k][b]]]], job[waiters[k][1]], job[waiters[k][b]])
      BY <2>4, <2>6, <3>1
    <3>3. waiters[k][1] = t /\ waiters[k][b] = u /\ job[t] = j /\ job[u] = i /\ 1 < b
      BY <2>1, <2>4, <2>6
    <3>4. QED
      BY <1>2, <1>3, <3>2, <3>3
  <2>9. LaneOf[j] \in Lanes /\ LaneOf[i] = LaneOf[j]
    BY <1>2, <1>3, QueueAssumption
  <2> DEFINE o == order[LaneOf[j]]
  <2>10. PICK m, n \in 1 .. Len(o) : m < n /\ o[m] = i /\ o[n] = j
    BY <1>3 DEF Ahead
  <2>11. PICK c, d \in 1 .. Len(o) : c < d /\ o[c] = j /\ o[d] = i
    BY <2>8, <2>9 DEF Ahead
  <2>12. c = n /\ d = m
    BY <2>9, <2>10, <2>11, Standing
  <2>13. QED
    BY <2>10, <2>11, <2>12
<1>4. QED
  BY <1>1, <1>2, <1>3

-----------------------------------------------------------------------------
\* A thread takes the oldest job of its lane and enters it.
LEMMA FifoTake ==
  ASSUME Ledger, Fifo, NEW t \in Threads, NEW l \in Lanes,
         pc[t] = "get", t = Enricher <=> l = "enrichment",
         queue[l] # <<>>, queue' = [queue EXCEPT ![l] = Tail(@)],
         job' = [job EXCEPT ![t] = Head(queue[l])],
         EnterJob(t, Head(queue[l])), order' = order
  PROVE  Fifo'
<1> DEFINE j == Head(queue[l])
<1>0. /\ TypeOK /\ JobInHand /\ QueueInv /\ OrderInv /\ CarriedInv /\ WaitInv
      /\ job[t] = NoJob
  BY DEF Ledger, ExclusionInv, TypeInv, Fifo, Account, HandInv
<1>1. j \in Jobs /\ LaneOf[j] = l
  BY <1>0, TakeHead
<1>2. /\ pc'[t] \in {"run", "lock"} /\ \A u \in Threads : u # t => pc'[u] = pc[u]
      /\ \E s \in {"taken", "running"} : status' = [status EXCEPT ![j] = s]
  BY <1>0, <1>1, EnterJobFacts
<1>3. PICK s \in {"taken", "running"} : status' = [status EXCEPT ![j] = s]
  BY <1>2
<1>4. OrderInv'
  BY <1>0, <1>3, OrderTake
<1>5. CarriedInv'
  BY <1>0, <1>1, <1>2, <1>3, CarriedTake
<1>6. job'[t] = j /\ \A u \in Threads : u # t => job'[u] = job[u]
  BY <1>0 DEF TypeOK
<1>7. \A u \in Threads : pc[u] = "lock" /\ LaneOf[job[u]] = LaneOf[j] =>
        Ahead(order[LaneOf[j]], job[u], j)
  BY <1>1, AheadOfHead
<1>8. EnterJob(t, j)
  OBVIOUS
<1> HIDE DEF j
<1>9. WaitInv'
  BY <1>0, <1>1, <1>6, <1>7, <1>8, WaitEnter
<1>10. QED
  BY <1>4, <1>5, <1>9 DEF Fifo

\* A thread ends with its job in hand and lets go of it.
LEMMA FifoLeave ==
  ASSUME Ledger, Fifo, NEW t \in Threads, pc[t] \in {"gate", "woken", "run"},
         \A u \in Threads : u # t => pc'[u] = pc[u], pc'[t] \in {"get", "done"},
         job' = [job EXCEPT ![t] = NoJob],
         NEW s \in {"done", "aborted", "lost"}, status' = [status EXCEPT ![job[t]] = s],
         queue' = queue, waiters' = waiters, order' = order
  PROVE  Fifo'
<1>0. /\ TypeOK /\ JobInHand /\ OrderInv /\ CarriedInv /\ WaitInv
      /\ job[t] \in Jobs /\ status[job[t]] \in {"taken", "running"}
  BY DEF Ledger, ExclusionInv, TypeInv, Fifo, Account, HandInv, JobInHand
<1>1. \A i \in Jobs : status'[i] = IF i = job[t] THEN s ELSE status[i]
  BY <1>0 DEF TypeOK
<1>2. OrderInv'
  BY <1>0, <1>1, OrderMove
<1>3. CarriedInv'
  BY <1>0, CarriedLeave
<1>4. \A u \in Threads : u # t => job'[u] = job[u]
  BY <1>0 DEF TypeOK
<1>5. \A u \in Threads : (pc'[u] = "lock" <=> pc[u] = "lock")
                         /\ (pc[u] = "lock" => job'[u] = job[u])
  BY <1>4
<1>6. WaitInv'
  BY <1>0, <1>5, WaitKeep, OrderGrows
<1>7. QED
  BY <1>2, <1>3, <1>6 DEF Fifo

\* enqueue puts a job at the end of its lane, or nowhere.
LEMMA FifoPut ==
  ASSUME Ledger, Fifo, NEW j \in Jobs, status[j] = "new", Put(j),
         pc' = pc, job' = job, waiters' = waiters
  PROVE  Fifo'
<1>0. TypeOK /\ JobInHand /\ OrderInv /\ CarriedInv /\ WaitInv
  BY DEF Ledger, ExclusionInv, TypeInv, Fifo
<1>1. /\ status'[j] \in {"queued", "rejected"}
      /\ \A i \in Jobs : i # j => status'[i] = status[i]
  BY <1>0 DEF Put, Accept, Reject, TypeOK
<1>2. OrderInv'
  <2>1. CASE Accept(j)
    BY <1>0, <2>1, OrderAccept
  <2>2. CASE Reject(j)
    <3>1. queue' = queue /\ order' = order /\ status'[j] = "rejected"
      BY <1>0, <2>2 DEF Reject, TypeOK
    <3>2. QED
      BY <1>0, <1>1, <3>1, OrderMove
  <2>3. QED
    BY <2>1, <2>2 DEF Put
<1>3. CarriedInv'
  BY <1>0, <1>1, CarriedKeep
<1>4. WaitInv'
  BY <1>0, WaitKeep, OrderGrows
<1>5. QED
  BY <1>2, <1>3, <1>4 DEF Fifo

\* A step that moves no job.
LEMMA FifoQuiet ==
  ASSUME Ledger, Fifo, queue' = queue, status' = status, job' = job, order' = order,
         waiters' = waiters,
         \A u \in Threads :
           /\ pc'[u] = "lock" <=> pc[u] = "lock"
           /\ pc'[u] \in {"gate", "woken"} => pc[u] \in {"gate", "woken"}
  PROVE  Fifo'
<1>0. TypeOK /\ JobInHand /\ OrderInv /\ CarriedInv /\ WaitInv
  BY DEF Ledger, ExclusionInv, TypeInv, Fifo
<1>1. OrderInv' /\ CarriedInv'
  BY <1>0, OrderMove, CarriedKeep
<1>2. WaitInv'
  BY <1>0, WaitKeep, OrderGrows
<1>3. QED
  BY <1>1, <1>2 DEF Fifo

LEMMA ThreadStepFifo ==
  ASSUME Ledger, Fifo, NEW t \in Threads, ThreadStep(t)
  PROVE  Fifo'
<1>0. /\ TypeOK /\ JobInHand /\ QueueInv /\ HandInv
      /\ OrderInv /\ CarriedInv /\ WaitInv
  BY DEF Ledger, ExclusionInv, TypeInv, Fifo, Account
<1>1. CASE Dequeue(t)
  BY <1>1, FifoTake, QueueAssumption DEF Dequeue, Lanes, history
<1>2. CASE TakeEnrichment(t)
  BY <1>2, FifoTake DEF TakeEnrichment, Lanes, history
<1>3. CASE HoldEnrichment(t)
  <2> DEFINE j == Head(queue["enrichment"])
  <2>1. /\ pc[t] = "get" /\ t = Enricher /\ "enrichment" \in Lanes /\ queue["enrichment"] # <<>>
        /\ queue' = [queue EXCEPT !["enrichment"] = Tail(@)]
        /\ job' = [job EXCEPT ![t] = j] /\ status' = [status EXCEPT ![j] = "taken"]
        /\ order' = order /\ waiters' = waiters /\ pc' = [pc EXCEPT ![t] = "gate"]
    BY <1>3 DEF HoldEnrichment, Lanes, locks, history
  <2>2. j \in Jobs /\ LaneOf[j] = "enrichment" /\ job[t] = NoJob
    BY <1>0, <2>1, TakeHead DEF HandInv
  <2>3. /\ \A u \in Threads : u # t => pc'[u] = pc[u] /\ job'[u] = job[u]
        /\ pc'[t] = "gate"
    BY <1>0, <2>1 DEF TypeOK
  <2>4. OrderInv'
    BY <1>0, <2>1, OrderTake
  <2> HIDE DEF j
  <2>5. CarriedInv'
    BY <1>0, <2>1, <2>2, <2>3, CarriedTake
  <2>6. \A u \in Threads : (pc'[u] = "lock" <=> pc[u] = "lock")
                           /\ (pc[u] = "lock" => job'[u] = job[u])
    BY <2>1, <2>3
  <2>7. WaitInv'
    BY <1>0, <2>1, <2>6, WaitKeep, OrderGrows
  <2>8. QED
    BY <2>4, <2>5, <2>7 DEF Fifo
<1>4. CASE ResumeEnrichment(t)
  <2>1. /\ pc[t] = "woken" /\ EnterJob(t, job[t]) /\ job[t] \in Jobs /\ status[job[t]] = "taken"
        /\ queue' = queue /\ job' = job /\ order' = order
    BY <1>0, <1>4 DEF ResumeEnrichment, JobInHand, HandInv, history
  <2>2. /\ pc'[t] \in {"run", "lock"} /\ \A u \in Threads : u # t => pc'[u] = pc[u]
        /\ \E s \in {"taken", "running"} : status' = [status EXCEPT ![job[t]] = s]
    BY <1>0, <2>1, EnterJobFacts
  <2>3. /\ status'[job[t]] \in {"taken", "running"}
        /\ \A i \in Jobs : i # job[t] => status'[i] = status[i]
    BY <1>0, <2>1, <2>2 DEF TypeOK
  <2>4. OrderInv'
    BY <1>0, <2>1, <2>3, OrderMove
  <2>5. CarriedInv'
    BY <1>0, <2>1, <2>2, <2>3, CarriedKeep
  <2>6. ASSUME NEW u \in Threads, pc[u] = "lock"
        PROVE  LaneOf[job[u]] # LaneOf[job[t]]
    <3>1. job[u] # NoJob /\ job[t] # NoJob /\ t = Enricher /\ u # t
      BY <1>0, <2>1, <2>6, QueueAssumption DEF JobInHand, CarriedInv
    <3>2. QED
      BY <1>0, <3>1 DEF CarriedInv
  <2>7. WaitInv'
    BY <1>0, <2>1, <2>6, WaitEnter
  <2>8. QED
    BY <2>4, <2>5, <2>7 DEF Fifo
<1>5. CASE LockGranted(t)
  <2> DEFINE k == KeyOf[job[t]]
  <2>1. /\ pc[t] = "lock" /\ job[t] \in Jobs /\ status[job[t]] = "taken" /\ k \in Keys
        /\ waiters[k] # <<>> /\ Head(waiters[k]) = t
        /\ waiters' = [waiters EXCEPT ![k] = Tail(@)]
        /\ pc' = [pc EXCEPT ![t] = "run"] /\ status' = [status EXCEPT ![job[t]] = "running"]
        /\ queue' = queue /\ job' = job /\ order' = order
    BY <1>0, <1>5 DEF LockGranted, JobInHand, HandInv, WaitInv, history
  <2>2. /\ pc'[t] = "run" /\ \A u \in Threads : u # t => pc'[u] = pc[u]
        /\ status'[job[t]] = "running"
        /\ \A i \in Jobs : i # job[t] => status'[i] = status[i]
    BY <1>0, <2>1 DEF TypeOK
  <2>3. OrderInv'
    BY <1>0, <2>1, <2>2, OrderMove
  <2>4. CarriedInv'
    BY <1>0, <2>1, <2>2, CarriedKeep
  <2>5. /\ waiters[k] \in Seq(Threads) /\ 1 \in 1 .. Len(waiters[k]) /\ waiters[k][1] = t
        /\ Tail(waiters[k]) \in Seq(Threads)
    BY <1>0, <2>1 DEF TypeOK
  <2>6. Without(Tail(waiters[k]), waiters[k], 1)
    <3>1. /\ Len(waiters[k]) \in Nat \ {0} /\ Len(Tail(waiters[k])) = Len(waiters[k]) - 1
          /\ \A n \in 1 .. Len(Tail(waiters[k])) : Tail(waiters[k])[n] = waiters[k][n + 1]
      BY <2>1, <2>5, HeadTailProperties
    <3>2. QED
      BY <3>1 DEF Without
  <2> HIDE DEF k
  <2>7. k = KeyOf[job[t]] /\ pc'[t] # "lock"
    BY <2>2 DEF k
  <2>8. \A u \in Threads : u # t => pc'[u] = pc[u] /\ job'[u] = job[u]
    BY <2>1, <2>2
  <2>9. WaitInv'
    BY <1>0, <2>1, <2>5, <2>6, <2>7, <2>8, WaitLeave
  <2>10. QED
    BY <2>3, <2>4, <2>9 DEF Fifo
<1>6. CASE Spawn(t)
  <2>1. ChildOf[job[t]] \in Jobs
    BY <1>0, <1>6, QueueAssumption DEF Spawn, JobInHand
  <2>2. QED
    BY <1>6, <2>1, FifoPut DEF Spawn, locks
<1>7. CASE Finish(t)
  <2>1. pc'[t] \in {"get", "done"} /\ \A u \in Threads : u # t => pc'[u] = pc[u]
    BY <1>0, <1>7 DEF Finish, TypeOK
  <2>2. QED
    BY <1>7, <2>1, FifoLeave DEF Finish, history
<1>8. CASE CancelIdle(t)
  <2>1. pc'[t] = "done" /\ \A u \in Threads : u # t => pc'[u] = pc[u]
    BY <1>0, <1>8 DEF CancelIdle, TypeOK
  <2>2. QED
    BY <1>8, <2>1, FifoQuiet DEF CancelIdle, locks, history
<1>9. CASE CancelGated(t)
  <2>1. pc'[t] = "done" /\ \A u \in Threads : u # t => pc'[u] = pc[u]
    BY <1>0, <1>9 DEF CancelGated, TypeOK
  <2>2. QED
    BY <1>9, <2>1, FifoLeave DEF CancelGated, locks, history
<1>10. CASE CancelWaiting(t)
  <2> DEFINE k == KeyOf[job[t]]
  <2>1. /\ pc[t] = "lock" /\ job[t] \in Jobs /\ status[job[t]] = "taken" /\ k \in Keys
        /\ pc' = [pc EXCEPT ![t] = "done"] /\ status' = [status EXCEPT ![job[t]] = "aborted"]
        /\ job' = [job EXCEPT ![t] = NoJob]
        /\ queue' = queue /\ order' = order
    BY <1>0, <1>10 DEF CancelWaiting, AbortJob, JobInHand, HandInv, WaitInv, history
  <2>2. PICK i \in DOMAIN waiters[k] :
          waiters[k][i] = t /\ waiters' = [waiters EXCEPT ![k] = DropAt(@, i)]
    BY <1>10 DEF CancelWaiting
  <2>3. /\ pc'[t] = "done" /\ \A u \in Threads : u # t => pc'[u] = pc[u] /\ job'[u] = job[u]
        /\ status'[job[t]] = "aborted"
        /\ \A n \in Jobs : n # job[t] => status'[n] = status[n]
    BY <1>0, <2>1 DEF TypeOK
  <2>4. OrderInv'
    BY <1>0, <2>1, <2>3, OrderMove
  <2>5. CarriedInv'
    BY <1>0, <2>1, <2>3, CarriedLeave
  <2>6. waiters[k] \in Seq(Threads) /\ i \in 1 .. Len(waiters[k])
    BY <1>0, <2>1, <2>2 DEF TypeOK
  <2>7. /\ DropAt(waiters[k], i) \in Seq(Threads)
        /\ Without(DropAt(waiters[k], i), waiters[k], i)
    BY <2>2, <2>6, DropAtType DEF Without
  <2> HIDE DEF k
  <2>8. k = KeyOf[job[t]] /\ pc'[t] # "lock"
    BY <2>3 DEF k
  <2>9. WaitInv'
    BY <1>0, <2>1, <2>2, <2>3, <2>6, <2>7, <2>8, WaitLeave
  <2>10. QED
    BY <2>4, <2>5, <2>9 DEF Fifo
<1>11. CASE CancelRunning(t)
  <2>1. pc'[t] = "done" /\ \A u \in Threads : u # t => pc'[u] = pc[u]
    BY <1>0, <1>11 DEF CancelRunning, AbortJob, TypeOK
  <2>2. QED
    BY <1>11, <2>1, FifoLeave DEF CancelRunning, AbortJob, history
<1>12. QED
  BY <1>1, <1>2, <1>3, <1>4, <1>5, <1>6, <1>7, <1>8, <1>9, <1>10, <1>11 DEF ThreadStep

LEMMA StepFifo ==
  ASSUME Ledger, Fifo, [Next]_vars
  PROVE  Fifo'
<1>0. PhaseInv /\ TypeOK
  BY DEF Ledger, ExclusionInv, TypeInv
<1>1. ASSUME NEW j \in Jobs, Enqueue(j)
      PROVE  Fifo'
  BY <1>1, FifoPut DEF Enqueue, locks
<1>2. ASSUME NEW t \in Threads, ThreadStep(t)
      PROVE  Fifo'
  BY <1>2, ThreadStepFifo
<1>3. CASE Start
  <2>1. \A u \in Threads : pc[u] = "off" /\ pc'[u] = "get"
    BY <1>0, <1>3 DEF Start, PhaseInv
  <2>2. QED
    BY <1>3, <2>1, FifoQuiet DEF Start, locks, history
<1>4. CASE StopCall
  BY <1>4, FifoQuiet DEF StopCall, locks
<1>5. CASE StopResume
  BY <1>5, FifoQuiet DEF StopResume, locks, history
<1>6. CASE StopReturn
  <2>1. \A u \in Threads : pc[u] = "done"
    BY <1>0, <1>6 DEF StopReturn, PhaseInv, Threads
  <2>2. /\ queue' = queue /\ status' = status /\ job' = job /\ order' = order /\ pc' = pc
        /\ \A k \in Keys : waiters'[k] = <<>>
    BY <1>6 DEF StopReturn, history
  <2>3. OrderInv' /\ CarriedInv'
    BY <1>0, <2>2, OrderMove, CarriedKeep DEF Fifo
  <2>4. WaitInv'
    BY <2>1, <2>2 DEF WaitInv, Line
  <2>5. QED
    BY <2>3, <2>4 DEF Fifo
<1>7. ASSUME NEW k \in Turns, BeginTurn(k)
      PROVE  Fifo'
  BY <1>7, FifoQuiet DEF BeginTurn, locks, history
<1>8. ASSUME NEW k \in Turns, EndTurn(k)
      PROVE  Fifo'
  <2>1. \A u \in Threads : pc'[u] = pc[u] \/ (pc[u] = "gate" /\ pc'[u] = "woken")
    BY <1>8 DEF EndTurn
  <2>2. QED
    BY <1>8, <2>1, FifoQuiet DEF EndTurn, locks, history
<1>9. CASE UNCHANGED vars
  BY <1>9, FifoQuiet DEF vars
<1>10. QED
  BY <1>1, <1>2, <1>3, <1>4, <1>5, <1>6, <1>7, <1>8, <1>9 DEF Next, StopStep

-----------------------------------------------------------------------------
(***************************************************************************)
(* The queue, seen through SerialStatus and SerialMode, takes a step of     *)
(* SerialExecutor or none.                                                  *)
(***************************************************************************)

Seen(s) == IF s = "taken" THEN "queued" ELSE IF s = "lost" THEN "aborted" ELSE s

LEMMA SerialSees ==
  /\ SerialStatus = [j \in Jobs |-> Seen(status[j])]
  /\ SerialStatus' = [j \in Jobs |-> Seen(status'[j])]
BY DEF SerialStatus, Seen

LEMMA SerialMoves ==
  ASSUME TypeOK, NEW j \in Jobs, NEW s, status' = [status EXCEPT ![j] = s]
  PROVE  SerialStatus' = [SerialStatus EXCEPT ![j] = Seen(s)]
<1>1. \A i \in Jobs : status'[i] = IF i = j THEN s ELSE status[i]
  BY DEF TypeOK
<1>2. QED
  BY <1>1, SerialSees

LEMMA SerialStays ==
  ASSUME TypeOK, NEW j \in Jobs, NEW s, status' = [status EXCEPT ![j] = s],
         Seen(s) = Seen(status[j])
  PROVE  SerialStatus' = SerialStatus
<1>1. \A i \in Jobs : status'[i] = IF i = j THEN s ELSE status[i]
  BY DEF TypeOK
<1>2. \A i \in Jobs : Seen(status'[i]) = Seen(status[i])
  BY <1>1
<1>3. QED
  BY <1>2, SerialSees

Mode(ph) ==
  IF ph \in {"new", "up"} THEN "open"
  ELSE IF ph \in {"cancelP", "cancelE", "stopped"} THEN "closed"
  ELSE "draining"

LEMMA ModeSees == SerialMode = Mode(phase) /\ SerialMode' = Mode(phase')
BY DEF SerialMode, Mode, Closing

LEMMA JobsSeen ==
  ASSUME NEW j \in Jobs
  PROVE  /\ SerialStatus[j] = Seen(status[j])
         /\ SerialStatus[j] = "new" <=> status[j] = "new"
         /\ SerialStatus[j] = "queued" <=> status[j] \in {"queued", "taken"}
         /\ SerialStatus[j] = "running" <=> status[j] = "running"
         /\ SerialStatus[j] = "done" <=> status[j] = "done"
         /\ SerialStatus[j] = "rejected" <=> status[j] = "rejected"
BY SerialSees DEF Seen

\* Cardinality, where the abstract executor counts and where this module does.
LEMMA SameCount == \A S : Serial!Cardinality(S) = Cardinality(S)
BY Zenon DEF Serial!Cardinality, Cardinality

LEMMA CountTo == \A n \in Nat : Cardinality(1 .. n) = n
<1>1. ASSUME NEW n \in Nat
      PROVE  Cardinality(1 .. n) = n
  <2>1. n \in Int /\ 1 \in Int
    OBVIOUS
  <2>2. Cardinality(1 .. n) = IF 1 > n THEN 0 ELSE n - 1 + 1
    BY <2>1, FS_Interval, Zenon
  <2>3. QED
    BY <2>2
<1>2. QED
  BY <1>1

\* A lane whose queue is full has as many jobs in line, those in hand included.
InLane(l) == {i \in Jobs : SerialStatus[i] = "queued" /\ LaneOf[i] = l}

LEMMA FullLane ==
  ASSUME Ledger, Fifo, NEW l \in Lanes
  PROVE  /\ Cardinality(InLane(l)) \in Nat /\ Len(queue[l]) \in Nat
         /\ Cardinality(InLane(l)) >= Len(queue[l])
<1> DEFINE S == InLane(l)
           R == {order[l][n] : n \in 1 .. Len(order[l])}
           f == [n \in 1 .. Len(queue[l]) |-> queue[l][n]]
           g == [n \in 1 .. Len(order[l]) |-> order[l][n]]
<1>1. /\ queue[l] \in Seq(Jobs) /\ order[l] \in Seq(Jobs)
      /\ Len(queue[l]) \in Nat /\ Len(order[l]) \in Nat
  BY DEF Ledger, ExclusionInv, TypeInv, TypeOK
<1>2. IsFiniteSet(R)
  <2>1. g \in Surjection(1 .. Len(order[l]), R)
    BY DEF Surjection
  <2>2. IsFiniteSet(1 .. Len(order[l]))
    BY <1>1, FS_Interval
  <2> HIDE DEF g, R
  <2>3. QED
    BY <2>1, <2>2, FS_Surjection, Zenon
<1>3. S \subseteq R
  <2>1. ASSUME NEW i \in S
        PROVE  i \in R
    <3>1. i \in Jobs /\ LaneOf[i] = l /\ status[i] \notin {"new", "rejected"}
      BY JobsSeen DEF InLane
    <3>2. QED
      BY <3>1 DEF Fifo, OrderInv
  <2>2. QED
    BY <2>1
<1>4. IsFiniteSet(S)
  <2> HIDE DEF S, R
  <2>1. QED
    BY <1>2, <1>3, FS_Subset
<1>5. f \in Injection(1 .. Len(queue[l]), S)
  <2>1. ASSUME NEW n \in 1 .. Len(queue[l])
        PROVE  queue[l][n] \in S
    <3>1. queue[l][n] \in Jobs /\ LaneOf[queue[l][n]] = l /\ status[queue[l][n]] = "queued"
      BY <1>1 DEF Ledger, Account, QueueInv
    <3>2. QED
      BY <3>1, JobsSeen DEF InLane
  <2>2. \A m, n \in 1 .. Len(queue[l]) : queue[l][m] = queue[l][n] => m = n
    BY <1>1 DEF Ledger, Account, QueueInv
  <2> HIDE DEF S
  <2>3. f \in [1 .. Len(queue[l]) -> S]
    BY <2>1
  <2>4. \A m, n \in 1 .. Len(queue[l]) : f[m] = f[n] => m = n
    BY <2>2
  <2>5. QED
    BY <2>3, <2>4 DEF Injection, IsInjective
<1>6. Cardinality(1 .. Len(queue[l])) = Len(queue[l])
  BY <1>1, CountTo
<1> HIDE DEF f, S
<1>7. Cardinality(1 .. Len(queue[l])) <= Cardinality(S)
  BY <1>4, <1>5, FS_Injection, Zenon
<1>8. Cardinality(S) \in Nat
  BY <1>4, FS_CardinalityType
<1>9. Cardinality(S) >= Len(queue[l])
  BY <1>1, <1>6, <1>7, <1>8
<1>10. QED
  BY <1>1, <1>8, <1>9 DEF S

\* enqueue is Submit.
LEMMA PutSubmits ==
  ASSUME Ledger, Fifo, NEW j \in Jobs, status[j] = "new", Put(j), phase' = phase,
         \/ ~IsChild(j) /\ covered' = covered
         \/ \E i \in Jobs :
              /\ ChildOf[i] = j /\ status[i] = "running"
              /\ covered' = IF i \in covered THEN covered \cup {j} ELSE covered
  PROVE  Serial!Submit(j)
<1>0. TypeOK
  BY DEF Ledger, ExclusionInv, TypeInv
<1>1. SerialStatus[j] = "new" /\ SerialMode' = SerialMode
  BY JobsSeen, ModeSees
<1>2. Serial!MaySubmit(j)
  <2>1. CASE ~IsChild(j)
    BY <2>1 DEF IsChild, Serial!MaySubmit
  <2>2. ASSUME NEW i \in Jobs, ChildOf[i] = j, status[i] = "running"
        PROVE  Serial!MaySubmit(j)
    <3>1. SerialStatus[i] = "running"
      BY <2>2, JobsSeen
    <3>2. QED
      BY <2>2, <3>1 DEF Serial!MaySubmit
  <2>3. QED
    BY <2>1, <2>2
<1>3. covered' = IF \E i \in covered : ChildOf[i] = j THEN covered \cup {j} ELSE covered
  <2>1. CASE ~IsChild(j) /\ covered' = covered
    BY <1>0, <2>1 DEF IsChild, TypeOK
  <2>2. ASSUME NEW i \in Jobs, ChildOf[i] = j,
               covered' = IF i \in covered THEN covered \cup {j} ELSE covered
        PROVE  covered' = IF \E h \in covered : ChildOf[h] = j THEN covered \cup {j} ELSE covered
    <3>1. \A h \in covered : ChildOf[h] = j => h = i
      BY <1>0, <2>2, QueueAssumption, ChildAssumption DEF TypeOK
    <3>2. QED
      BY <2>2, <3>1
  <2>3. QED
    BY <2>1, <2>2
<1>4. CASE Accept(j)
  <2>1. SerialStatus' = [SerialStatus EXCEPT ![j] = "queued"]
    <3>1. status' = [status EXCEPT ![j] = "queued"]
      BY <1>4 DEF Accept
    <3>2. QED
      BY <1>0, <3>1, SerialMoves DEF Seen
  <2>2. order' = [order EXCEPT ![LaneOf[j]] = Append(@, j)]
    BY <1>4 DEF Accept
  <2>3. QED
    BY <1>1, <1>2, <1>3, <2>1, <2>2 DEF Serial!Submit
<1>5. CASE Reject(j)
  <2>1. SerialStatus' = [SerialStatus EXCEPT ![j] = "rejected"]
    <3>1. status' = [status EXCEPT ![j] = "rejected"]
      BY <1>5 DEF Reject
    <3>2. QED
      BY <1>0, <3>1, SerialMoves DEF Seen
  <2>2. order' = order /\ Len(queue[LaneOf[j]]) >= MaxSize
    BY <1>5 DEF Reject
  <2>3. Serial!Cardinality({i \in Serial!In({"queued"}) : LaneOf[i] = LaneOf[j]}) >= MaxSize
    <3>1. {i \in Serial!In({"queued"}) : LaneOf[i] = LaneOf[j]} = InLane(LaneOf[j])
      BY DEF Serial!In, InLane
    <3>2. LaneOf[j] \in Lanes
      BY QueueAssumption
    <3>3. /\ Cardinality(InLane(LaneOf[j])) \in Nat /\ Len(queue[LaneOf[j]]) \in Nat
          /\ Cardinality(InLane(LaneOf[j])) >= Len(queue[LaneOf[j]])
      BY <3>2, FullLane
    <3>4. Cardinality(InLane(LaneOf[j])) >= MaxSize
      BY <2>2, <3>3, QueueAssumption
    <3>5. QED
      BY <3>1, <3>4, SameCount
  <2>4. QED
    BY <1>1, <1>2, <1>3, <2>1, <2>2, <2>3 DEF Serial!Submit
<1>6. QED
  BY <1>4, <1>5 DEF Put

\* A job begins: MayBegin, in the executor's words.
LEMMA BeginSeen ==
  ASSUME Ledger, Fifo, NEW t \in Threads, NEW j \in Jobs,
         status[j] \in {"queued", "taken"}, status' = [status EXCEPT ![j] = "running"],
         t = Enricher <=> LaneOf[j] = "enrichment",
         KeyOf[j] # NoKey =>
           /\ holder[KeyOf[j]] = NoThread
           /\ \/ /\ waiters[KeyOf[j]] = <<>>
                 /\ \/ pc[t] = "get" /\ queue[LaneOf[j]] # <<>> /\ j = Head(queue[LaneOf[j]])
                    \/ pc[t] = "woken" /\ job[t] = j
              \/ /\ pc[t] = "lock" /\ job[t] = j
                 /\ waiters[KeyOf[j]] # <<>> /\ Head(waiters[KeyOf[j]]) = t,
         order' = order, phase' = phase, covered' = covered
  PROVE  Serial!Begin(j)
<1>1. SerialStatus[j] = "queued"
  BY JobsSeen
<1>2. SerialStatus' = [SerialStatus EXCEPT ![j] = "running"] /\ SerialMode' = SerialMode
  BY SerialMoves, ModeSees DEF Seen, Ledger, ExclusionInv, TypeInv
<1>3. ASSUME KeyOf[j] # NoKey, NEW i \in Jobs, KeyOf[i] = KeyOf[j]
      PROVE  /\ SerialStatus[i] # "running"
             /\ Serial!Before(i, j) => SerialStatus[i] # "queued"
  <2>1. KeyOf[j] \in Keys
    BY <1>3, QueueAssumption
  <2>2. /\ status[i] # "running"
        /\ Ahead(order[LaneOf[j]], i, j) => status[i] \notin {"queued", "taken"}
    BY <1>3, <2>1, MayBegin
  <2>3. Serial!Before(i, j) => Ahead(order[LaneOf[j]], i, j)
    <3>1. order[LaneOf[j]] \in Seq(Jobs)
      BY QueueAssumption DEF Ledger, ExclusionInv, TypeInv, TypeOK
    <3>2. DOMAIN order[LaneOf[j]] = 1 .. Len(order[LaneOf[j]])
      BY <3>1
    <3>3. QED
      BY <3>2 DEF Serial!Before, Ahead
  <2>4. QED
    BY <2>2, <2>3, JobsSeen
<1>4. QED
  BY <1>1, <1>2, <1>3 DEF Serial!Begin

\* A thread enters its job: the job begins, or waits in line as before.
LEMMA EnterSeen ==
  ASSUME Ledger, Fifo, NEW t \in Threads, NEW j \in Jobs,
         status[j] \in {"queued", "taken"},
         t = Enricher <=> LaneOf[j] = "enrichment",
         \/ pc[t] = "get" /\ queue[LaneOf[j]] # <<>> /\ j = Head(queue[LaneOf[j]])
         \/ pc[t] = "woken" /\ job[t] = j,
         EnterJob(t, j), order' = order, phase' = phase, covered' = covered
  PROVE  Serial!Begin(j) \/ UNCHANGED Serial!vars
<1>1. CASE status' = [status EXCEPT ![j] = "running"]
  <2>1. KeyOf[j] # NoKey => holder[KeyOf[j]] = NoThread /\ waiters[KeyOf[j]] = <<>>
    <3>1. ASSUME status' = [status EXCEPT ![j] = "taken"]
          PROVE  FALSE
      BY <1>1, <3>1 DEF Ledger, ExclusionInv, TypeInv, TypeOK
    <3>2. QED
      BY <3>1 DEF EnterJob
  <2>2. QED
    BY <1>1, <2>1, BeginSeen
<1>2. CASE status' = [status EXCEPT ![j] = "taken"]
  <2>1. SerialStatus' = SerialStatus /\ SerialMode' = SerialMode
    BY <1>2, SerialStays, ModeSees DEF Seen, Ledger, ExclusionInv, TypeInv
  <2>2. QED
    BY <2>1 DEF Serial!vars
<1>3. QED
  BY <1>1, <1>2 DEF EnterJob

\* A job is cut off, while stop() cancels.
LEMMA AbortSeen ==
  ASSUME Ledger, NEW j \in Jobs, status[j] \in {"taken", "running"}, Closing,
         NEW s \in {"aborted", "lost"}, status' = [status EXCEPT ![j] = s],
         order' = order, phase' = phase, covered' = covered
  PROVE  Serial!Abort(j)
<1>1. SerialStatus[j] \in {"queued", "running"}
  BY JobsSeen
<1>2. SerialStatus' = [SerialStatus EXCEPT ![j] = "aborted"]
  BY SerialMoves DEF Seen, Ledger, ExclusionInv, TypeInv
<1>3. SerialMode = "closed" /\ SerialMode' = SerialMode
  BY ModeSees DEF Mode, Closing
<1>4. QED
  BY <1>1, <1>2, <1>3 DEF Serial!Abort

\* A step that the executor does not see.
LEMMA Quiet ==
  ASSUME status' = status, order' = order, covered' = covered, Mode(phase') = Mode(phase)
  PROVE  UNCHANGED Serial!vars
<1>1. SerialStatus' = SerialStatus
  BY SerialSees
<1>2. QED
  BY <1>1, ModeSees DEF Serial!vars

LEMMA ThreadStepSeen ==
  ASSUME Ledger, Fifo, NEW t \in Threads, ThreadStep(t)
  PROVE  Serial!Next \/ UNCHANGED Serial!vars
<1>0. TypeOK /\ JobInHand /\ HandInv /\ QueueInv /\ CarriedInv
  BY DEF Ledger, ExclusionInv, TypeInv, Account, Fifo
<1>1. ASSUME NEW l \in Lanes, t = Enricher <=> l = "enrichment", pc[t] = "get",
             queue[l] # <<>>, EnterJob(t, Head(queue[l])),
             order' = order, phase' = phase, covered' = covered
      PROVE  Serial!Next \/ UNCHANGED Serial!vars
  <2> DEFINE j == Head(queue[l])
  <2>1. j \in Jobs /\ LaneOf[j] = l /\ status[j] = "queued"
    <3>1. j = queue[l][1] /\ 1 \in DOMAIN queue[l] /\ j \in Jobs
      BY <1>0, <1>1 DEF TypeOK
    <3>2. QED
      BY <1>0, <3>1 DEF QueueInv
  <2>2. EnterJob(t, j) /\ j = Head(queue[LaneOf[j]]) /\ queue[LaneOf[j]] # <<>>
    BY <1>1, <2>1
  <2> HIDE DEF j
  <2>3. Serial!Begin(j) \/ UNCHANGED Serial!vars
    BY <1>1, <2>1, <2>2, EnterSeen
  <2>4. QED
    BY <2>1, <2>3 DEF Serial!Next
<1>2. CASE Dequeue(t)
  BY <1>1, <1>2, QueueAssumption DEF Dequeue, Lanes, history
<1>3. CASE TakeEnrichment(t)
  BY <1>1, <1>3 DEF TakeEnrichment, Lanes, history
<1>4. CASE HoldEnrichment(t)
  <2> DEFINE j == Head(queue["enrichment"])
  <2>1. /\ queue["enrichment"] # <<>> /\ "enrichment" \in Lanes
        /\ status' = [status EXCEPT ![j] = "taken"]
        /\ order' = order /\ phase' = phase /\ covered' = covered
    BY <1>4 DEF HoldEnrichment, Lanes, history
  <2>2. j = queue["enrichment"][1] /\ 1 \in DOMAIN queue["enrichment"] /\ j \in Jobs
    BY <1>0, <2>1 DEF TypeOK
  <2>3. status[j] = "queued"
    BY <1>0, <2>1, <2>2 DEF QueueInv
  <2> HIDE DEF j
  <2>4. SerialStatus' = SerialStatus /\ SerialMode' = SerialMode
    BY <1>0, <2>1, <2>2, <2>3, SerialStays, ModeSees DEF Seen
  <2>5. QED
    BY <2>1, <2>4 DEF Serial!vars
<1>5. CASE ResumeEnrichment(t)
  <2>1. /\ pc[t] = "woken" /\ EnterJob(t, job[t]) /\ job[t] \in Jobs /\ status[job[t]] = "taken"
        /\ order' = order /\ phase' = phase /\ covered' = covered /\ job[t] # NoJob
    BY <1>0, <1>5, QueueAssumption DEF ResumeEnrichment, JobInHand, HandInv, history
  <2>2. t = Enricher <=> LaneOf[job[t]] = "enrichment"
    BY <1>0, <2>1 DEF CarriedInv
  <2>3. Serial!Begin(job[t]) \/ UNCHANGED Serial!vars
    BY <2>1, <2>2, EnterSeen
  <2>4. QED
    BY <2>1, <2>3 DEF Serial!Next
<1>6. CASE LockGranted(t)
  <2>1. /\ pc[t] = "lock" /\ job[t] \in Jobs /\ status[job[t]] = "taken"
        /\ holder[KeyOf[job[t]]] = NoThread
        /\ waiters[KeyOf[job[t]]] # <<>> /\ Head(waiters[KeyOf[job[t]]]) = t
        /\ status' = [status EXCEPT ![job[t]] = "running"]
        /\ order' = order /\ phase' = phase /\ covered' = covered /\ job[t] # NoJob
    BY <1>0, <1>6, QueueAssumption DEF LockGranted, JobInHand, HandInv, history
  <2>2. t = Enricher <=> LaneOf[job[t]] = "enrichment"
    BY <1>0, <2>1 DEF CarriedInv
  <2>3. Serial!Begin(job[t])
    BY <2>1, <2>2, BeginSeen
  <2>4. QED
    BY <2>1, <2>3 DEF Serial!Next
<1>7. CASE Spawn(t)
  <2> DEFINE c == ChildOf[job[t]]
  <2>1. /\ job[t] \in Jobs /\ status[job[t]] = "running" /\ c \in Jobs
        /\ status[c] = "new" /\ Put(c) /\ phase' = phase
        /\ covered' = IF job[t] \in covered THEN covered \cup {c} ELSE covered
    BY <1>0, <1>7, QueueAssumption DEF Spawn, JobInHand, HandInv
  <2>2. \E i \in Jobs :
          /\ ChildOf[i] = c /\ status[i] = "running"
          /\ covered' = IF i \in covered THEN covered \cup {c} ELSE covered
    BY <2>1
  <2> HIDE DEF c
  <2>3. Serial!Submit(c)
    BY <2>1, <2>2, PutSubmits
  <2>4. QED
    BY <2>1, <2>3 DEF Serial!Next
<1>8. CASE Finish(t)
  <2>1. /\ job[t] \in Jobs /\ status[job[t]] = "running"
        /\ status' = [status EXCEPT ![job[t]] = "done"]
        /\ order' = order /\ covered' = covered
    BY <1>0, <1>8 DEF Finish, JobInHand, HandInv, history
  <2>2. Mode(phase') = Mode(phase)
    BY <1>0, <1>8, ThreadStepJoin DEF Mode
  <2>3. SerialStatus' = [SerialStatus EXCEPT ![job[t]] = "done"] /\ SerialMode' = SerialMode
    BY <1>0, <2>1, <2>2, SerialMoves, ModeSees DEF Seen
  <2>4. SerialStatus[job[t]] = "running"
    BY <2>1, JobsSeen
  <2>5. Serial!End(job[t])
    BY <2>1, <2>3, <2>4 DEF Serial!End
  <2>6. QED
    BY <2>1, <2>5 DEF Serial!Next
<1>9. CASE CancelIdle(t)
  BY <1>9, Quiet DEF CancelIdle, history
<1>10. CASE CancelGated(t) \/ CancelWaiting(t) \/ CancelRunning(t)
  <2>1. /\ job[t] \in Jobs /\ status[job[t]] \in {"taken", "running"} /\ Closing
        /\ order' = order /\ covered' = covered
        /\ \E s \in {"aborted", "lost"} : status' = [status EXCEPT ![job[t]] = s]
    BY <1>0, <1>10 DEF CancelGated, CancelWaiting, CancelRunning, JobInHand, HandInv,
         Cancelled, Closing, AbortJob, history
  <2>2. phase' = phase
    BY <1>0, <2>1, ThreadStepJoin DEF Closing
  <2>3. Serial!Abort(job[t])
    BY <2>1, <2>2, AbortSeen
  <2>4. QED
    BY <2>1, <2>3 DEF Serial!Next
<1>11. QED
  BY <1>2, <1>3, <1>4, <1>5, <1>6, <1>7, <1>8, <1>9, <1>10 DEF ThreadStep

\* stop() is called: it drains what is unsettled, which is nothing exactly when
\* both joins return at once.
LEMMA StopCallSeen ==
  ASSUME DrainLedger, StopCall
  PROVE  Serial!Drain
<1>0. /\ TypeOK /\ JoinCounts /\ phase = "up"
      /\ \A j \in Jobs : status[j] # "lost"
  BY DEF DrainLedger, DrainInv, Ledger, ExclusionInv, TypeInv, Account, StopCall, Closing
<1>1. /\ status' = status /\ order' = order /\ covered' = Unsettled
      /\ \/ phase' = "joinP" /\ unfinished["persistence"] # {}
         \/ phase' = "joinE" /\ unfinished["enrichment"] # {}
         \/ /\ phase' = "cancelP"
            /\ unfinished["persistence"] = {} /\ unfinished["enrichment"] = {}
  BY DEF StopCall, AfterPersistence
<1>2. covered' = Serial!In({"queued", "running"}) /\ SerialStatus' = SerialStatus
  BY <1>1, JobsSeen, SerialSees DEF Serial!In, Unsettled
<1>3. \A l \in Lanes : unfinished[l] = {j \in Jobs : LaneOf[j] = l /\ j \in covered'}
  BY <1>0, <1>1 DEF JoinCounts, Unsettled
<1>4. covered' = {} <=> phase' = "cancelP"
  <2>1. CASE phase' = "cancelP" /\ unfinished["persistence"] = {} /\ unfinished["enrichment"] = {}
    <3>1. \A j \in covered' : j \in Jobs /\ LaneOf[j] \in Lanes
      BY <1>1, QueueAssumption DEF Unsettled
    <3>2. QED
      BY <1>3, <2>1, <3>1 DEF Lanes
  <2>2. CASE phase' # "cancelP"
    BY <1>1, <1>3, <2>2 DEF Lanes
  <2>3. QED
    BY <1>1, <2>1, <2>2
<1>5. SerialMode = "open" /\ SerialMode' = IF covered' = {} THEN "closed" ELSE "draining"
  BY <1>0, <1>1, <1>4, ModeSees DEF Mode
<1>6. QED
  BY <1>1, <1>2, <1>5 DEF Serial!Drain

\* The joins are over: what stop() owed is settled.
LEMMA StopResumeSeen ==
  ASSUME DrainLedger', StopResume
  PROVE  Serial!Close \/ UNCHANGED Serial!vars
<1>1. status' = status /\ order' = order /\ covered' = covered
  BY DEF StopResume, history
<1>2. CASE phase \in {"wokenP", "wokenE"} /\ phase' = "cancelP"
  <2>1. \A j \in covered' : j \in Jobs /\ status'[j] \in {"done", "rejected"}
    BY <1>2 DEF DrainLedger, DrainInv, StopDrains, Closing, Ledger, ExclusionInv, TypeInv, TypeOK
  <2>2. covered \subseteq Serial!In({"done", "rejected"})
    BY <1>1, <2>1, JobsSeen DEF Serial!In
  <2>3. SerialStatus' = SerialStatus /\ SerialMode = "draining" /\ SerialMode' = "closed"
    BY <1>1, <1>2, SerialSees, ModeSees DEF Mode
  <2>4. QED
    BY <1>1, <2>2, <2>3 DEF Serial!Close
<1>3. CASE \/ phase = "wokenP" /\ phase' = "joinE"
           \/ phase = "cancelP" /\ phase' = "cancelE"
  BY <1>1, <1>3, Quiet DEF Mode
<1>4. QED
  BY <1>2, <1>3 DEF StopResume, AfterPersistence

LEMMA StepSeen ==
  ASSUME DrainLedger, DrainLedger', Fifo, [Next]_vars
  PROVE  Serial!Next \/ UNCHANGED Serial!vars
<1>1. ASSUME NEW j \in Jobs, Enqueue(j)
      PROVE  Serial!Next
  <2>1. Serial!Submit(j)
    BY <1>1, PutSubmits DEF Enqueue, DrainLedger
  <2>2. QED
    BY <2>1 DEF Serial!Next
<1>2. ASSUME NEW t \in Threads, ThreadStep(t)
      PROVE  Serial!Next \/ UNCHANGED Serial!vars
  BY <1>2, ThreadStepSeen DEF DrainLedger
<1>3. CASE Start
  BY <1>3, Quiet DEF Start, Mode, history
<1>4. CASE StopCall
  BY <1>4, StopCallSeen DEF Serial!Next
<1>5. CASE StopResume
  BY <1>5, StopResumeSeen DEF Serial!Next
<1>6. CASE StopReturn
  BY <1>6, Quiet DEF StopReturn, Mode, history
<1>7. ASSUME NEW k \in Turns, BeginTurn(k) \/ EndTurn(k)
      PROVE  UNCHANGED Serial!vars
  BY <1>7, Quiet DEF BeginTurn, EndTurn, history
<1>8. CASE UNCHANGED vars
  BY <1>8, Quiet DEF vars
<1>9. QED
  BY <1>1, <1>2, <1>3, <1>4, <1>5, <1>6, <1>7, <1>8 DEF Next, StopStep

LEMMA InitFifo == Init => Fifo
BY DEF Init, Fifo, OrderInv, InLine, CarriedInv, WaitInv, Line

LEMMA InitSerial == Init => Serial!Init
<1> SUFFICES ASSUME Init
             PROVE  Serial!Init
  OBVIOUS
<1>1. SerialStatus = [j \in Jobs |-> "new"]
  BY SerialSees DEF Init, Seen
<1>2. SerialMode = "open"
  BY ModeSees DEF Init, Mode
<1>3. QED
  BY <1>1, <1>2 DEF Init, Serial!Init

\* Every behaviour of the queue, for any jobs, keys, workers, turns and bound, is
\* one of the serial executor: jobs of one key run one at a time and, within a
\* lane, in the order accepted; only a full lane refuses; stop() drains.
THEOREM QueueImplementsExecutor == Spec => ImplementsSerialExecutor
<1>1. Init => DrainLedger /\ Fifo
  BY InitExclusion, InitAccount, InitFifo
  DEF DrainLedger, Ledger, Init, DrainInv, StopDrains, Closing
<1>2. DrainLedger /\ Fifo /\ [Next]_vars => (DrainLedger /\ Fifo)'
  BY StepDrain, StepFifo DEF DrainLedger
<1>3. /\ DrainLedger /\ Fifo /\ (DrainLedger /\ Fifo)' /\ [Next]_vars
      => [Serial!Next]_Serial!vars
  BY StepSeen
<1>4. QED
  BY <1>1, <1>2, <1>3, InitSerial, PTL DEF Spec, ImplementsSerialExecutor, Serial!Spec
=============================================================================
