--------------------------- MODULE SerialExecutor ---------------------------
(***************************************************************************)
(* What BackgroundTaskQueue promises its callers, without workers, locks,   *)
(* queues or joins: two lanes of jobs, each job refused or accepted; jobs   *)
(* of one key run one at a time and, within a lane, in the order they were  *)
(* accepted; closing waits for the jobs accepted before it was asked for,   *)
(* and for those they submit.  TaskQueue implements it.                     *)
(***************************************************************************)
EXTENDS Integers, Sequences, FiniteSets

CONSTANTS Jobs, Keys, Lanes, MaxSize, NoKey, NoJob, KeyOf, LaneOf, ChildOf

VARIABLES
  status,  \* status[j]: new, rejected, queued, running, done or aborted
  order,   \* order[l]: the accepted jobs of lane l
  mode,    \* open, draining or closed
  owed     \* the jobs that closing waits for

vars == <<status, order, mode, owed>>

Init ==
  /\ status = [j \in Jobs |-> "new"]
  /\ order = [l \in Lanes |-> <<>>]
  /\ mode = "open"
  /\ owed = {}

In(s) == {j \in Jobs : status[j] \in s}

\* A child is submitted by its running parent, any other job by anyone.
MaySubmit(j) ==
  LET parents == {i \in Jobs : ChildOf[i] = j} IN
  parents = {} \/ \E i \in parents : status[i] = "running"

\* A job is refused only by a lane that holds MaxSize jobs in line.
Submit(j) ==
  /\ status[j] = "new"
  /\ MaySubmit(j)
  /\ \/ /\ status' = [status EXCEPT ![j] = "queued"]
        /\ order' = [order EXCEPT ![LaneOf[j]] = Append(@, j)]
     \/ /\ Cardinality({i \in In({"queued"}) : LaneOf[i] = LaneOf[j]}) >= MaxSize
        /\ status' = [status EXCEPT ![j] = "rejected"]
        /\ UNCHANGED order
  /\ owed' = IF \E i \in owed : ChildOf[i] = j THEN owed \cup {j} ELSE owed
  /\ UNCHANGED mode

\* i is before j in their lane's order.
Before(i, j) ==
  \E m, n \in DOMAIN order[LaneOf[j]] :
    m < n /\ order[LaneOf[j]][m] = i /\ order[LaneOf[j]][n] = j

Begin(j) ==
  /\ status[j] = "queued"
  /\ KeyOf[j] # NoKey =>
       \A i \in Jobs : KeyOf[i] = KeyOf[j] =>
         /\ status[i] # "running"
         /\ Before(i, j) => status[i] # "queued"
  /\ status' = [status EXCEPT ![j] = "running"]
  /\ UNCHANGED <<order, mode, owed>>

End(j) ==
  /\ status[j] = "running"
  /\ status' = [status EXCEPT ![j] = "done"]
  /\ UNCHANGED <<order, mode, owed>>

\* Work that came too late to be owed may be cut off, once closing is over.
Abort(j) ==
  /\ mode = "closed"
  /\ status[j] \in {"queued", "running"}
  /\ status' = [status EXCEPT ![j] = "aborted"]
  /\ UNCHANGED <<order, mode, owed>>

Drain ==
  /\ mode = "open"
  /\ owed' = In({"queued", "running"})
  /\ mode' = IF owed' = {} THEN "closed" ELSE "draining"
  /\ UNCHANGED <<status, order>>

Close ==
  /\ mode = "draining"
  /\ owed \subseteq In({"done", "rejected"})
  /\ mode' = "closed"
  /\ UNCHANGED <<status, order, owed>>

Next ==
  \/ \E j \in Jobs : Submit(j) \/ Begin(j) \/ End(j) \/ Abort(j)
  \/ Drain \/ Close

Spec == Init /\ [][Next]_vars
=============================================================================
