---------------------------- MODULE RequestDeadline ----------------------------
(***************************************************************************)
(* One request to a language model and its deadlines: the request hooks of  *)
(* the three providers (providers/llm) and the streams they wrap             *)
(* (stream_timeout.py, google_llm.py).  Groq retries a request that was      *)
(* rejected for an invented tool, with the shared context's tools taken out. *)
(*                                                                          *)
(* Time is counted from the start of the request in the unit of the code's   *)
(* smallest timeout (0.001 s).  A wait ends by its deadline or before; the   *)
(* consumer of the stream takes no time.                                     *)
(***************************************************************************)
EXTENDS Integers, FiniteSets

CONSTANTS
  FirstTimeouts,  \* values of VOICE_LLM_FIRST_TOKEN_TIMEOUT_SECONDS
  TotalTimeouts,  \* values of VOICE_LLM_TOTAL_TIMEOUT_SECONDS
  Horizon         \* bound: how long a stream without a deadline is watched

ASSUME TimeoutsOK ==
  /\ FirstTimeouts \subseteq Nat \ {0}
  /\ TotalTimeouts \subseteq Nat \ {0}
  /\ Horizon \in Nat

VARIABLES
  provider,   \* "openai", "groq" or "google"
  first,      \* first_token_timeout_seconds(), read at the start
  total,      \* total_timeout_seconds(); Google's hook has none
  now,        \* the clock
  phase,      \* where the request is suspended
  until,      \* the deadline of this wait, -1 for none
  ends,       \* the stream's total deadline, -1 for none
  rejectedAt, \* history: when the request was rejected and retried, or -1
  spokeAt,    \* history: when the first output or recovery reached the pipeline, or -1
  outcome,    \* how the request ended
  toolsKept   \* context.tools are the configured ones

llmVars == <<provider, first, total, now, phase, until, ends, rejectedAt, spokeAt,
             outcome, toolsKept>>

Suspended == {"creating", "retrying", "streaming"}
Outcomes == {"none", "complete", "deadline", "timeout", "recovered", "failed", "cancelled"}

LlmTypeOK ==
  /\ provider \in {"openai", "groq", "google"}
  /\ first \in FirstTimeouts /\ total \in TotalTimeouts
  /\ now \in Nat
  /\ phase \in Suspended \cup {"ended"}
  /\ {until, ends, rejectedAt, spokeAt} \subseteq Nat \cup {-1}
  /\ outcome \in Outcomes
  /\ toolsKept \in BOOLEAN

LlmInit ==
  /\ provider \in {"openai", "groq", "google"}
  /\ first \in FirstTimeouts /\ total \in TotalTimeouts
  /\ now = 0
  /\ phase = "creating" /\ until = first
  /\ ends = -1 /\ rejectedAt = -1 /\ spokeAt = -1
  /\ outcome = "none"
  /\ toolsKept = TRUE

-----------------------------------------------------------------------------

\* Mutant: the time the stream's creation took is not taken off.
LeftInFull(timeout) == timeout

\* max(0.001, timeout - elapsed)
Left(timeout) == IF timeout - now > 1 THEN timeout - now ELSE 1

Sooner(a, b) == IF a < b THEN a ELSE b

InTime == until = -1 \/ now < until
Expired == until # -1 /\ now >= until

End(how) ==
  /\ phase' = "ended"
  /\ outcome' = how
  /\ until' = -1

\* Mutant: the tools are put back when the retry succeeds.
OverWithoutFinally(how) ==
  /\ End(how)
  /\ UNCHANGED toolsKept

\* The context has its tools back when a request is over, the retry's finally.
Over(how) ==
  /\ End(how)
  /\ toolsKept' = TRUE

\* The stream is there: it gets what is left of each timeout.
Stream ==
  /\ phase' = "streaming"
  /\ ends' = IF provider = "google" THEN -1 ELSE now + Left(total)
  /\ until' = IF provider = "google" THEN now + Left(first)
              ELSE Sooner(now + Left(first), now + Left(total))
  /\ toolsKept' = TRUE
  /\ UNCHANGED <<provider, first, total, now, rejectedAt, spokeAt, outcome>>

\* The provider answers the request with a stream.
StreamCreated ==
  /\ phase \in {"creating", "retrying"}
  /\ InTime
  /\ Stream

\* Groq's provider rejects it for a tool it was not offered.
ToolRejected ==
  /\ phase = "creating" /\ provider = "groq"
  /\ InTime
  /\ phase' = "retrying"
  /\ until' = now + first
  /\ toolsKept' = FALSE
  /\ rejectedAt' = now
  /\ UNCHANGED <<provider, first, total, now, ends, spokeAt, outcome>>

\* Any other error, at any time: it is raised.
ProviderFails ==
  /\ phase \in Suspended
  /\ InTime
  /\ Over("failed")
  /\ UNCHANGED <<provider, first, total, now, ends, rejectedAt, spokeAt>>

\* An interruption cancels the request.
Cancelled ==
  /\ phase \in Suspended
  /\ Over("cancelled")
  /\ UNCHANGED <<provider, first, total, now, ends, rejectedAt, spokeAt>>

\* Mutant: from then on there is none.
OutputFrees ==
  /\ phase = "streaming"
  /\ InTime
  /\ spokeAt' = IF spokeAt = -1 THEN now ELSE spokeAt
  /\ until' = -1
  /\ UNCHANGED <<provider, first, total, now, phase, ends, rejectedAt, outcome,
                 toolsKept>>

\* A chunk with meaningful output.  bounded_openai_stream hands every chunk on
\* and is from then on under the total deadline; Google's stream has held back
\* the chunks before it and waits without a deadline after it.
Output ==
  /\ phase = "streaming"
  /\ InTime
  /\ spokeAt' = IF spokeAt = -1 THEN now ELSE spokeAt
  /\ until' = ends
  /\ UNCHANGED <<provider, first, total, now, phase, ends, rejectedAt, outcome,
                 toolsKept>>

StreamEnds ==
  /\ phase = "streaming"
  /\ InTime
  /\ Over("complete")
  /\ UNCHANGED <<provider, first, total, now, ends, rejectedAt, spokeAt>>

\* A deadline passes.  Google's hook speaks the recovery text; the others raise,
\* in a retry the bare TimeoutError.
DeadlinePasses ==
  /\ phase \in Suspended
  /\ Expired
  /\ Over(IF provider = "google" THEN "recovered"
          ELSE IF phase = "retrying" THEN "timeout" ELSE "deadline")
  /\ spokeAt' = IF provider = "google" THEN now ELSE spokeAt
  /\ UNCHANGED <<provider, first, total, now, ends, rejectedAt>>

Tick ==
  /\ phase \in Suspended
  /\ InTime /\ now < Horizon
  /\ now' = now + 1
  /\ UNCHANGED <<provider, first, total, phase, until, ends, rejectedAt, spokeAt,
                 outcome, toolsKept>>

LlmNext ==
  \/ StreamCreated \/ ToolRejected \/ ProviderFails \/ Cancelled
  \/ Output \/ StreamEnds \/ DeadlinePasses \/ Tick

LlmSpec == LlmInit /\ [][LlmNext]_llmVars

\* Time passes and timers fire.
LlmFairness == WF_llmVars(Tick) /\ WF_llmVars(DeadlinePasses)

-----------------------------------------------------------------------------
(* Properties *)

\* The creation of the stream must have ended by then.
CreationLimit == IF rejectedAt = -1 THEN first ELSE rejectedAt + first

\* The user hears the beginning of an answer, or Google's recovery text, within
\* the first-token timeout counted from the request, or from its retry: the
\* creation of the stream and the stream itself do not get the timeout twice.
FirstOutputInTime == spokeAt <= CreationLimit

\* A request that is under a total deadline is over by it, or by the limit of
\* its creation if that is later; no chunk starts the time anew.
OverByTotal ==
  provider # "google" => now <= total \/ now <= CreationLimit

\* The deadlines of a request hold through its creation, its retry and its stream
\* (stream_timeout.py:20-44, groq_llm.py:219-243, google_llm.py:50-73).
DeadlinesKept == FirstOutputInTime /\ OverByTotal

\* However a request ends, cancelled in the middle of a retry or not, the tools
\* of the shared context are the configured ones again: a retry without tools
\* does not disarm the turns after it.
ToolsRestored == toolsKept \/ phase = "retrying"

\* A stalled provider never keeps a turn for ever, where the hook has a total
\* deadline (Google's has none once output has begun).
RequestEnds == provider # "google" => <>(phase = "ended")
=============================================================================
