---------------------------- MODULE MCVoiceStages ----------------------------
(***************************************************************************)
(* Instances of the parts of a voice session that share no state with each  *)
(* other: SilenceTrimmer, IssueRouting, RequestDeadline, VoiceSessions,      *)
(* SttReconnect and TurnGate.  A behaviour exercises one of them, so the     *)
(* state space is the sum of theirs.                                         *)
(***************************************************************************)
EXTENDS SilenceTrimmer, IssueRouting, RequestDeadline, VoiceSessions,
        SttReconnect, TurnGate

VARIABLE stage

\* Silence shorter and longer than the preroll, and speech at both ends.
MCFrames ==
  {[samples |-> 1, first |-> -1], [samples |-> 3, first |-> -1],
   [samples |-> 3, first |-> 1], [samples |-> 1, first |-> 0]}

\* A conversation that ended in the middle of a complaint.
MCRestored == <<FromUser("request"), FromAssistant("prompt")>>

\* A barge-in interrupts the bot before or after it announces the user's turn.
MCOrders == {InterruptFirst, StartedFirst}

stageVars == <<stage, trimVars, issueVars, llmVars, sessionVars, sttVars, turnVars>>

InTrim ==
  stage = "trim" /\ UNCHANGED <<stage, issueVars, llmVars, sessionVars, sttVars, turnVars>>
InIssue ==
  stage = "issue" /\ UNCHANGED <<stage, trimVars, llmVars, sessionVars, sttVars, turnVars>>
InRequest ==
  stage = "request" /\ UNCHANGED <<stage, trimVars, issueVars, sessionVars, sttVars, turnVars>>
InSession ==
  stage = "session" /\ UNCHANGED <<stage, trimVars, issueVars, llmVars, sttVars, turnVars>>
InStt ==
  stage = "stt" /\ UNCHANGED <<stage, trimVars, issueVars, llmVars, sessionVars, turnVars>>
InTurn ==
  stage = "turn" /\ UNCHANGED <<stage, trimVars, issueVars, llmVars, sessionVars, sttVars>>

\* The configurations of a stage vary only where the stage is exercised.
StageInit ==
  /\ stage \in {"trim", "issue", "request", "session", "stt", "turn"}
  /\ TrimInit /\ IssueInit /\ LlmInit /\ SessionInit /\ SttInit /\ TurnInit
  /\ stage # "trim" => preroll = 0
  /\ stage # "request" => /\ provider = "openai"
                          /\ first = 2 /\ total = 5

StageNext ==
  \/ InTrim /\ Interrupted
  \/ InTrim /\ \E c \in Contexts : SpeechStarted(c)
  \/ InTrim /\ \E c \in Contexts : SpeechStopped(c)
  \/ InTrim /\ \E c \in Contexts, frame \in Frames : PassFrame(c, frame)
  \/ InTrim /\ \E c \in Contexts, frame \in Frames : HoldFrame(c, frame)
  \/ InTrim /\ \E c \in Contexts, frame \in Frames : FirstSpeech(c, frame)
  \/ InIssue /\ \E says \in UserSays : UserTurn(says)
  \/ InIssue /\ \E result \in {"success", "failure"} : CallIssueTool(result)
  \/ InIssue /\ \E says \in AssistantSays : Answer(says)
  \/ InRequest /\ StreamCreated
  \/ InRequest /\ ToolRejected
  \/ InRequest /\ ProviderFails
  \/ InRequest /\ Cancelled
  \/ InRequest /\ Output
  \/ InRequest /\ StreamEnds
  \/ InRequest /\ DeadlinePasses
  \/ InRequest /\ Tick
  \/ InSession /\ \E s \in Sessions : LookAtCapacity(s)
  \/ InSession /\ \E s \in Sessions : Acquire(s)
  \/ InSession /\ \E s \in Sessions : StartAbandoned(s)
  \/ InSession /\ \E s \in Sessions : AssemblyFails(s)
  \/ InSession /\ \E s \in Sessions : EnterTry(s)
  \/ InSession /\ \E s \in Sessions : RunPipeline(s)
  \/ InSession /\ \E s \in Sessions : LeaveTry(s)
  \/ InSession /\ \E s \in Sessions : CloseSession(s)
  \/ InSession /\ \E s \in Sessions : ReleaseLease(s)
  \/ InSession /\ \E s \in Sessions, task \in Startup : StartupEnds(s, task)
  \/ InSession /\ \E s \in Sessions, task \in Startup : StartupFails(s, task)
  \/ InSession /\ \E s \in Sessions, task \in Background : BackgroundEnds(s, task)
  \/ InStt /\ Ages
  \/ InStt /\ Breaks
  \/ InStt /\ KeepaliveFails
  \/ InStt /\ KeepaliveReconnects
  \/ InStt /\ MediaReconnects
  \/ InStt /\ Connected
  \/ InStt /\ ConnectFails
  \/ InStt /\ DropExpired
  \/ InStt /\ TakeBatch
  \/ InStt /\ BatchSent
  \/ InStt /\ BatchFails
  \/ InStt /\ Flushed
  \/ InStt /\ Arrive
  \/ InStt /\ Replay
  \/ InStt /\ Sent
  \/ InStt /\ SendFails
  \/ InTurn /\ StartSpeaking
  \/ InTurn /\ StopSpeaking
  \/ InTurn /\ TypeText
  \/ InTurn /\ FinalFragment
  \/ InTurn /\ HandleStarted
  \/ InTurn /\ HandleStopped
  \/ InTurn /\ HandleInterrupt
  \/ InTurn /\ HandleContext
  \/ InTurn /\ FlushLlm
  \/ InTurn /\ FlushTts
  \/ InTurn /\ LlmTextSeen
  \/ InTurn /\ ResponseEndSeen
  \/ InTurn /\ AudioSeen
  \/ InTurn /\ StoppedSeen
  \/ InTurn /\ LlmBegin
  \/ InTurn /\ LlmText
  \/ InTurn /\ LlmEnd
  \/ InTurn /\ Speak
  \/ InTurn /\ EmitFiller
  \/ InTurn /\ EndSession

StageSpec ==
  /\ StageInit /\ [][StageNext]_stageVars
  /\ WF_stageVars(InRequest /\ Tick)
  /\ WF_stageVars(InRequest /\ DeadlinePasses)
  /\ WF_stageVars(InTurn /\ Pipeline)
  /\ WF_stageVars(InTurn /\ Llm)
  /\ WF_stageVars(InTurn /\ Speak)

\* The types of the stages.
StageTypeOK ==
  /\ TrimTypeOK /\ IssueTypeOK /\ LlmTypeOK /\ SessionTypeOK
  /\ SttTypeOK /\ TurnTypeOK

\* A stalled provider never keeps a turn for ever, in the behaviours that make a
\* request (RequestDeadline's RequestEnds).
StalledRequestEnds == stage = "request" => RequestEnds
=============================================================================
