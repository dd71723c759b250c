------------------------------ MODULE ToolCalls ------------------------------
(***************************************************************************)
(* The model's calls of its one tool (tools/raise_issue.py) and what the     *)
(* user hears and sees of them meanwhile (ToolFillerProcessor).  The call    *)
(* and the processor run concurrently: the frames of a call come to the      *)
(* processor in their order, behind the model's text, and an interruption    *)
(* overtakes them.  Both may speak the filler of a turn.                     *)
(*                                                                          *)
(* push_frame and queue_frame put a frame in a queue without waiting.        *)
(***************************************************************************)
EXTENDS Integers, FiniteSets, Sequences, Subsequences

CONSTANTS
  Calls,    \* the tool calls of a session
  MaxCallTurns, \* bound: turns of the session
  MaxTexts  \* bound: texts of the model

ASSUME CallBounds == MaxCallTurns \in Nat \ {0} /\ MaxTexts \in Nat

VARIABLES
  tool,     \* raise_issue of each call
  reports,  \* what the user interface is told of it, by the tool and the processor
  issues,   \* the rows of Issue, by their call
  coming,   \* frames on their way to ToolFillerProcessor
  active,   \* _active_calls
  timer,    \* _filler_task runs
  delayed,  \* VOICE_TOOL_FILLER_DELAY_MS is not 0
  filled,   \* latency_state.tool_filler_spoken
  turnNo,   \* the turns begun
  between,  \* an interruption came and the next turn has not started
  struck,   \* the calls an interruption cancels
  texts,    \* the texts of the model so far
  fillers,  \* history: the fillers of each turn
  answered  \* history: a text passed the processor since the last call did

toolVars == <<tool, reports, issues>>
fillerVars == <<active, timer, filled, fillers, answered>>
talkVars == <<turnNo, between, struck, texts>>
callVars == <<toolVars, coming, fillerVars, talkVars, delayed>>

\* What a call may end with.
Outcome == {"saved", "timeout", "error", "invalid", "cancelled"}

\* The frames of a call, and the model's text.
CallFrames ==
  [kind : {"started"}, call : Calls]
    \cup [kind : {"ended"}, call : Calls, status : Outcome]
TextFrames == [kind : {"text"}]

CallInit ==
  /\ tool = [c \in Calls |-> "idle"]
  /\ reports = [c \in Calls |-> {}]
  /\ issues = {}
  /\ coming = <<>>
  /\ active = {} /\ timer = FALSE
  /\ delayed \in BOOLEAN
  /\ filled = FALSE
  /\ turnNo = 1 /\ between = FALSE /\ struck = {} /\ texts = 0
  /\ fillers = [t \in 1..MaxCallTurns |-> 0]
  /\ answered = FALSE

\* A filler, unless this turn has had one.
Filler ==
  /\ filled' = TRUE
  /\ fillers' = IF filled THEN fillers ELSE [fillers EXCEPT ![turnNo] = @ + 1]

-----------------------------------------------------------------------------
(* raise_issue *)

Becomes(c, from, to) == tool[c] = from /\ tool' = [tool EXCEPT ![c] = to]

Report(c, status) == reports' = [reports EXCEPT ![c] = @ \cup {status}]

\* The end of a call: its last event and, in one go, its result or cancellation.
EndTool(c, from, status) ==
  /\ Becomes(c, from, "ended")
  /\ Report(c, status)
  /\ coming' = Append(coming, [kind |-> "ended", call |-> c, status |-> status])

\* The language model calls the tool.
CallTool(c) ==
  /\ ~between /\ Becomes(c, "idle", "called")
  /\ coming' = Append(coming, [kind |-> "started", call |-> c])
  /\ UNCHANGED <<reports, issues, fillerVars, talkVars, delayed>>

\* _publish_tool_filler, the first event, and a call with valid arguments.
AnnounceCall(c) ==
  /\ Becomes(c, "called", "saving")
  /\ Report(c, "in_progress")
  /\ Filler
  /\ UNCHANGED <<issues, coming, active, timer, answered, talkVars, delayed>>

\* The same, of one that is refused.
RefuseCall(c) ==
  /\ Becomes(c, "called", "ended")
  /\ reports' = [reports EXCEPT ![c] = @ \cup {"in_progress", "invalid"}]
  /\ coming' = Append(coming, [kind |-> "ended", call |-> c, status |-> "invalid"])
  /\ Filler
  /\ UNCHANGED <<issues, active, timer, answered, talkVars, delayed>>

\* The server commits.
CommitIssue(c) ==
  /\ Becomes(c, "saving", "committed")
  /\ issues' = issues \cup {c}
  /\ UNCHANGED <<reports, coming, fillerVars, talkVars, delayed>>

\* Mutant: the issue counts as saved when it is flushed.
SavedWhenFlushed(c) == EndTool(c, "saving", "saved")

\* The answer to the commit has arrived.
Saved(c) == EndTool(c, "committed", "saved")

SaveIssue(c) == Saved(c) /\ UNCHANGED <<issues, fillerVars, talkVars, delayed>>

\* issue_tool_timeout_seconds() are over, or the database fails: before the commit
\* or between the commit and its answer.
SaveFails(c) ==
  /\ \E from \in {"saving", "committed"}, status \in {"timeout", "error"} :
       EndTool(c, from, status)
  /\ UNCHANGED <<issues, fillerVars, talkVars, delayed>>

\* Only the save catches CancelledError; a task that has not begun has nothing to say.
CancelReported(c) ==
  IF tool[c] = "called" THEN UNCHANGED reports ELSE Report(c, "cancelled")

Running(c) == tool[c] \in {"called", "saving", "committed"}

\* The cancellation of an interruption arrives, before the call's task begins or while
\* it saves, and perhaps in the next turn.
CancelCall(c) ==
  /\ c \in struck /\ Running(c)
  /\ tool' = [tool EXCEPT ![c] = "ended"]
  /\ CancelReported(c)
  /\ coming' = Append(coming, [kind |-> "ended", call |-> c, status |-> "cancelled"])
  /\ UNCHANGED <<issues, fillerVars, talkVars, delayed>>

-----------------------------------------------------------------------------
(* ToolFillerProcessor *)

\* _emit_filler of the immediate filler, or the timer of the delayed one.
BeginCall(c) ==
  /\ Report(c, "in_progress")
  /\ active' = active \cup {c} /\ answered' = FALSE
  /\ IF delayed
     THEN timer' = (timer \/ ~filled) /\ UNCHANGED <<filled, fillers>>
     ELSE Filler /\ UNCHANGED timer

\* A result or a cancellation.
EndCall(c, status) ==
  /\ Report(c, status)
  /\ active' = active \ {c}
  /\ timer' = (timer /\ active' # {})
  /\ UNCHANGED <<filled, fillers, answered>>

\* Mutant: the text leaves the calls and the timer.
TextLeavesCalls ==
  /\ answered' = TRUE
  /\ UNCHANGED <<reports, active, timer, filled, fillers>>

\* The answer has begun: no call is waited for.
TextPasses ==
  /\ answered' = TRUE
  /\ active' = {} /\ timer' = FALSE
  /\ UNCHANGED <<reports, filled, fillers>>

\* process_frame, for the frames that come in order.
TakeFrame ==
  /\ coming # <<>>
  /\ LET frame == Head(coming) IN
     \/ frame.kind = "started" /\ BeginCall(frame.call)
     \/ frame.kind = "ended" /\ EndCall(frame.call, frame.status)
     \/ frame.kind = "text" /\ TextPasses
  /\ coming' = Tail(coming)
  /\ UNCHANGED <<tool, issues, talkVars, delayed>>

TimerFiller == Filler

\* _delayed_filler.
TimerFires ==
  /\ timer /\ timer' = FALSE
  /\ IF active # {} THEN TimerFiller ELSE UNCHANGED <<filled, fillers>>
  /\ UNCHANGED <<toolVars, coming, active, answered, talkVars, delayed>>

-----------------------------------------------------------------------------
(* The session *)

\* The language model speaks.
SendText ==
  /\ ~between /\ texts < MaxTexts
  /\ texts' = texts + 1
  /\ coming' = Append(coming, [kind |-> "text"])
  /\ UNCHANGED <<toolVars, fillerVars, turnNo, between, struck, delayed>>

\* An interruption drops the text on its way, forgets the calls and cancels them.
InterruptCalls ==
  /\ ~between /\ turnNo < MaxCallTurns
  /\ between' = TRUE
  /\ struck' = struck \cup {c \in Calls : Running(c)}
  /\ coming' = Only(coming, CallFrames)
  /\ active' = {} /\ timer' = FALSE
  /\ UNCHANGED <<toolVars, filled, fillers, answered, turnNo, texts, delayed>>

\* TurnLatencyState.start_turn; the calls of the old turn may still be running.
NextTurn ==
  /\ between
  /\ between' = FALSE /\ turnNo' = turnNo + 1
  /\ filled' = FALSE
  /\ UNCHANGED <<toolVars, coming, active, timer, fillers, answered, struck, texts,
                 delayed>>

CallStep(c) ==
  \/ CallTool(c) \/ AnnounceCall(c) \/ RefuseCall(c) \/ CommitIssue(c) \/ SaveIssue(c)
  \/ SaveFails(c) \/ CancelCall(c)

CallNext ==
  \/ \E c \in Calls : CallStep(c)
  \/ SendText \/ TakeFrame \/ TimerFires \/ InterruptCalls \/ NextTurn

CallSpec == CallInit /\ [][CallNext]_callVars

-----------------------------------------------------------------------------
(* Properties *)

CallTypeOK ==
  /\ tool \in [Calls -> {"idle", "called", "saving", "committed", "ended"}]
  /\ reports \in [Calls -> SUBSET (Outcome \cup {"in_progress"})]
  /\ issues \subseteq Calls /\ active \subseteq Calls /\ struck \subseteq Calls
  /\ {timer, delayed, filled, between, answered} \subseteq BOOLEAN
  /\ turnNo \in 1..MaxCallTurns
  /\ coming \in Seq(CallFrames \cup TextFrames)
  /\ fillers \in [1..MaxCallTurns -> Nat]

\* A filler is the first of its turn, whoever comes first of the tool and the
\* processor and however many calls the turn makes, and the delayed one is not
\* spoken into an answer that has begun (raise_issue.py:16-19, processors.py:799-803,
\* 857-859).
FillerInPlace ==
  [][fillers' # fillers =>
       /\ \A t \in 1..MaxCallTurns : fillers'[t] <= 1
       /\ timer /\ tool' = tool => ~answered]_callVars

\* The tool and the processor tell the user interface one outcome of a call, wherever
\* the call fails or is cancelled (raise_issue.py:86-142, processors.py:773-853).
OneOutcome == \A c \in Calls : Cardinality(reports[c] \cap Outcome) <= 1

\* The user is told that an issue was raised only if it was, and that the details
\* were refused only if it was not (raise_issue.py:101-142).
ReportIsTrue ==
  \A c \in Calls :
    /\ "saved" \in reports[c] => c \in issues
    /\ "invalid" \in reports[c] => c \notin issues

\* What the user is told of a call is one outcome, and true (raise_issue.py:86-142).
OutcomeTold == OneOutcome /\ ReportIsTrue
=============================================================================
