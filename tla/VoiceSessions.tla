---------------------------- MODULE VoiceSessions ----------------------------
(***************************************************************************)
(* The voice sessions of one process, from the request to the last task they *)
(* leave: the capacity look of the middleware and the lease of bot()         *)
(* (main.py, core/admission.py), the constructors of the services and the    *)
(* load of the bundle side by side (core/voice_services.py), the warm-up and *)
(* the hydration that run_bot starts, and its finally clause.                *)
(*                                                                          *)
(* The lock of the admission is never held over an await.                    *)
(***************************************************************************)
EXTENDS Integers, FiniteSets

CONSTANTS
  Sessions,  \* requests for a session, each made at most once
  Capacity   \* VOICE_MAX_CONCURRENT_SESSIONS

ASSUME CapacityAssumption ==
  IsFiniteSet(Sessions) /\ Capacity \in Nat \ {0}

VARIABLES
  leases,     \* VoiceAdmissionController._active
  noLease,    \* its _idle event
  session,    \* where bot() of each session is
  startup,    \* its tasks of initialize_voice_runtime that run
  background, \* its warm-up and hydration tasks that run
  failed      \* history: how it failed to start, or "no"

admission == <<leases, noLease>>
sessionVars == <<admission, session, startup, background, failed>>

\* initialize_voice_services has three constructors, the loader is beside it.
Startup == {"stt", "tts", "llm", "loader"}
Background == {"warmup", "hydration"}
Leased == {"starting", "assembling", "warming", "running", "closing", "releasing"}

SessionInit ==
  /\ leases = 0 /\ noLease = TRUE
  /\ session = [s \in Sessions |-> "idle"]
  /\ startup = [s \in Sessions |-> {}]
  /\ background = [s \in Sessions |-> {}]
  /\ failed = [s \in Sessions |-> "no"]

Moves(s, from, to) == session[s] = from /\ session' = [session EXCEPT ![s] = to]

\* The middleware looks at the capacity; the request goes on without a lease.
LookAtCapacity(s) ==
  /\ Moves(s, "idle", IF leases < Capacity THEN "accepted" ELSE "refused")
  /\ UNCHANGED <<admission, startup, background, failed>>

\* Mutant: the look is all there is.
AcquireUnchecked(s) ==
  /\ Moves(s, "accepted", "starting")
  /\ leases' = leases + 1 /\ noLease' = FALSE
  /\ startup' = [startup EXCEPT ![s] = Startup]
  /\ UNCHANGED <<background, failed>>

\* try_acquire; run_bot starts the constructors and the loader.
Acquire(s) ==
  /\ IF leases < Capacity
     THEN /\ Moves(s, "accepted", "starting")
          /\ leases' = leases + 1 /\ noLease' = FALSE
          /\ startup' = [startup EXCEPT ![s] = Startup]
     ELSE Moves(s, "accepted", "rejected") /\ UNCHANGED <<admission, startup>>
  /\ UNCHANGED <<background, failed>>

\* A task of the start ends well; with the last one run_bot goes on and starts the
\* warm-up, if the provider has one, and the hydration.
StartupEnds(s, task) ==
  /\ task \in startup[s]
  /\ startup' = [startup EXCEPT ![s] = @ \ {task}]
  /\ IF session[s] = "starting" /\ startup[s] = {task}
     THEN /\ session' = [session EXCEPT ![s] = "assembling"]
          /\ \E tasks \in {Background, {"hydration"}} :
               background' = [background EXCEPT ![s] = tasks]
     ELSE UNCHANGED <<session, background>>
  /\ UNCHANGED <<admission, failed>>

\* A task of the start fails: gather raises at once and leaves the others running.
StartupFails(s, task) ==
  /\ task \in startup[s]
  /\ startup' = [startup EXCEPT ![s] = @ \ {task}]
  /\ IF session[s] = "starting"
     THEN /\ session' = [session EXCEPT ![s] = "releasing"]
          /\ failed' = [failed EXCEPT ![s] = "startup"]
     ELSE UNCHANGED <<session, failed>>
  /\ UNCHANGED <<admission, background>>

\* The transport cannot be created, or bot() is cancelled: gather cancels its tasks.
StartAbandoned(s) ==
  /\ Moves(s, "starting", "releasing")
  /\ startup' = [startup EXCEPT ![s] = {}]
  /\ failed' = [failed EXCEPT ![s] = "startup"]
  /\ UNCHANGED <<admission, background>>

\* A setting or a model is not usable: the tasks were started before the try block.
AssemblyFails(s) ==
  /\ Moves(s, "assembling", "releasing")
  /\ failed' = [failed EXCEPT ![s] = "assembly"]
  /\ UNCHANGED <<admission, startup, background>>

\* The try block waits for the warm-up, then runs the pipeline.
EnterTry(s) ==
  /\ Moves(s, "assembling", "warming")
  /\ UNCHANGED <<admission, startup, background, failed>>

RunPipeline(s) ==
  /\ "warmup" \notin background[s] /\ Moves(s, "warming", "running")
  /\ UNCHANGED <<admission, startup, background, failed>>

BackgroundEnds(s, task) ==
  /\ task \in background[s]
  /\ background' = [background EXCEPT ![s] = @ \ {task}]
  /\ UNCHANGED <<admission, session, startup, failed>>

\* The client is gone, the pipeline fails, or the session is cancelled; the finally
\* clause cancels the tasks.
LeaveTry(s) ==
  /\ Moves(s, "warming", "closing") \/ Moves(s, "running", "closing")
  /\ UNCHANGED <<admission, startup, background, failed>>

\* Mutant: the tasks are cancelled and not waited for.
TasksCancelled(s) == TRUE

\* gather() at the end of the finally clause.
TasksOver(s) == background[s] = {}

CloseSession(s) ==
  /\ TasksOver(s) /\ Moves(s, "closing", "releasing")
  /\ UNCHANGED <<admission, startup, background, failed>>

\* release, in bot()'s finally clause; it would raise without a lease, which
\* LeasesCounted excludes.
ReleaseLease(s) ==
  /\ Moves(s, "releasing", "over")
  /\ leases' = leases - 1 /\ noLease' = (leases' = 0)
  /\ UNCHANGED <<startup, background, failed>>

SessionStep(s) ==
  \/ LookAtCapacity(s) \/ Acquire(s)
  \/ \E task \in Startup : StartupEnds(s, task) \/ StartupFails(s, task)
  \/ StartAbandoned(s) \/ AssemblyFails(s) \/ EnterTry(s) \/ RunPipeline(s)
  \/ \E task \in Background : BackgroundEnds(s, task)
  \/ LeaveTry(s) \/ CloseSession(s) \/ ReleaseLease(s)

SessionNext == \E s \in Sessions : SessionStep(s)

SessionSpec == SessionInit /\ [][SessionNext]_sessionVars

-----------------------------------------------------------------------------
(* Properties *)

SessionTypeOK ==
  /\ leases \in Int /\ noLease \in BOOLEAN
  /\ session \in [Sessions -> {"idle", "accepted", "refused", "rejected", "over"} \cup Leased]
  /\ startup \in [Sessions -> SUBSET Startup]
  /\ background \in [Sessions -> SUBSET Background]
  /\ failed \in [Sessions -> {"no", "startup", "assembly"}]

\* The counter is the number of sessions between their lease and its return, never
\* more than the capacity, wherever a session fails, and however many requests
\* passed the look together (admission.py:28-42, main.py:366, 399, 469).
LeasesCounted ==
  /\ leases = Cardinality({s \in Sessions : session[s] \in Leased})
  /\ leases <= Capacity
  /\ noLease <=> leases = 0

\* A task of a session runs on without a lease only if the session failed to start:
\* the other constructors after one failed, or the warm-up and the hydration when
\* the pipeline could not be assembled (main.py:113-182, 336-360).
OrphansOfFailedStart ==
  \A s \in Sessions : session[s] = "over" =>
    /\ startup[s] # {} => failed[s] = "startup"
    /\ background[s] # {} => failed[s] = "assembly"
=============================================================================
