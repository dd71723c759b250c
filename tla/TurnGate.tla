------------------------------ MODULE TurnGate ------------------------------
(***************************************************************************)
(* core/processors.py: TurnLatencyState and the LatencyBoundaryProcessors   *)
(* that drive it from five places of the pipeline, TurnContextCleanup, and  *)
(* run_bot's cleanup in main.py.  Together they decide when a voice turn    *)
(* holds the realtime gate.                                                 *)
(*                                                                          *)
(* One session: the keys of two sessions never meet.  A turn's gate key is  *)
(* (token, turn_id); here it is the turn id.  The pipeline is a chain of    *)
(* queues, because the boundaries share one state and see the frames of a   *)
(* turn at different times:                                                 *)
(*                                                                          *)
(*   inbox -> [turn boundary] -> llmIn -> LLM -> mid -> [llm boundary,      *)
(*     cleanup] -> ttsIn -> TTS -> out -> [tts boundary]                    *)
(*                                                                          *)
(* The LLM, the TTS and the user are outside src/.  Frames are tagged with  *)
(* the turn that caused them; the code does not see the tags.               *)
(*                                                                          *)
(* Simplifications: the timestamps of the state are left out; a response    *)
(* is at most one text and one tool call; the "vad" boundary, whose frames  *)
(* main.py's wiring sends upstream of it, is left out; an interruption      *)
(* crosses the pipeline before the frames that were pushed after it.        *)
(***************************************************************************)
EXTENDS Integers, Sequences, RealtimeGate

CONSTANTS
  StartOrders,     \* the orders in which pipecat announces a barge-in
  MaxTurns,        \* bound: no new speech or text once turn_id is MaxTurns
  MaxInbox         \* bound: frames on their way to the turn boundary

InterruptFirst == <<"interrupt", "started">>
StartedFirst == <<"started", "interrupt">>

ASSUME TurnGateAssumption ==
  /\ StartOrders \subseteq {InterruptFirst, StartedFirst}
  /\ MaxTurns \in Nat /\ MaxInbox \in Nat

VARIABLES
  turn,      \* the TurnLatencyState
  ended,     \* run_bot has left its finally block
  speaking,  \* the user is speaking
  inbox,     \* frames on their way to the turn boundary
  llmIn,     \* contexts on their way to the LLM
  llm,       \* the response the LLM is streaming
  mid,       \* frames between the LLM and the llm boundary
  ttsIn,     \* texts on their way to the TTS
  out,       \* frames between the TTS and the tts boundary
  wave       \* how far the last interruption has come

turnVars == <<gateActive, turn, ended, speaking, inbox, llmIn, llm, mid, ttsIn,
          out, wave>>
downstream == <<llmIn, llm, mid, ttsIn, out, wave>>

TurnStates ==
  [id : Nat, active : BOOLEAN, speechOpen : BOOLEAN, identityOpen : BOOLEAN,
   firstLlm : BOOLEAN, firstAudio : BOOLEAN, responseFinished : BOOLEAN,
   cancelled : BOOLEAN, fillerSpoken : BOOLEAN]

FramesOf(kinds) == [kind : kinds, turn : Nat]
InboxFrames == {"started", "stopped", "interrupt", "context"}
NoResponse == [turn |-> 0, spoke |-> FALSE, tool |-> FALSE]

TurnInit ==
  /\ GateInit
  /\ turn = [id |-> 0, active |-> FALSE, speechOpen |-> FALSE,
             identityOpen |-> FALSE, firstLlm |-> FALSE, firstAudio |-> FALSE,
             responseFinished |-> FALSE, cancelled |-> FALSE,
             fillerSpoken |-> FALSE]
  /\ ended = FALSE
  /\ speaking = FALSE
  /\ inbox = <<>>
  /\ llmIn = <<>> /\ llm = NoResponse
  /\ mid = <<>> /\ ttsIn = <<>> /\ out = <<>>
  /\ wave = "none"

-----------------------------------------------------------------------------
(* The methods of TurnLatencyState *)

\* mark_user_started: the gate key of the turn before is left as it is.
MarkUserStarted(t) ==
  IF t.speechOpen THEN t
  ELSE [t EXCEPT !.id = @ + 1, !.active = FALSE,
                 !.speechOpen = TRUE, !.identityOpen = TRUE]

MarkUserStopped(t) ==
  [(IF ~t.speechOpen /\ ~t.active THEN MarkUserStarted(t) ELSE t)
     EXCEPT !.speechOpen = FALSE]

\* A turn's identity opens with speech, or with the first thing after it.
OpenIdentity(t) ==
  IF t.identityOpen THEN t ELSE [t EXCEPT !.id = @ + 1, !.identityOpen = TRUE]

Closed(t) ==
  [t EXCEPT !.active = FALSE, !.speechOpen = FALSE,
            !.identityOpen = FALSE, !.cancelled = TRUE]

\* Mutant: finish_turn closes the turn and keeps its gate key.
FinishTurnGated ==
  /\ turn' = Closed(turn)
  /\ UNCHANGED gateActive

FinishTurn ==
  /\ GateEnd(turn.id)
  /\ turn' = Closed(turn)

\* start_turn: a second context of a turn that has no audio yet joins it.
StartTurn ==
  LET joins == turn.active /\ ~turn.firstAudio
      t == OpenIdentity(IF turn.active THEN Closed(turn) ELSE turn)
      left == IF turn.active THEN gateActive \ {turn.id} ELSE gateActive
  IN
  \/ joins /\ UNCHANGED <<turn, gateActive>>
  \/ /\ ~joins
     /\ turn' = [t EXCEPT !.active = TRUE, !.firstLlm = FALSE,
                          !.firstAudio = FALSE, !.responseFinished = FALSE,
                          !.cancelled = FALSE, !.fillerSpoken = FALSE]
     /\ gateActive' = left \cup {t.id}

\* finish_response: the end of the LLM's response keeps the gate until audio.
FinishResponse ==
  /\ turn' = [turn EXCEPT !.responseFinished = TRUE, !.active = FALSE,
                          !.speechOpen = FALSE,
                          !.identityOpen = @ /\ ~turn.firstAudio]
  /\ IF turn.firstAudio THEN GateEnd(turn.id) ELSE UNCHANGED gateActive

-----------------------------------------------------------------------------
(* The user and the client *)

Send(frames) ==
  /\ Len(inbox) + Len(frames) <= MaxInbox
  /\ inbox' = inbox \o frames

\* The aggregator announces the turn and interrupts the bot.
StartSpeaking ==
  /\ ~ended /\ ~speaking /\ turn.id < MaxTurns
  /\ speaking' = TRUE
  /\ \E frames \in StartOrders : Send(frames)
  /\ UNCHANGED <<gateActive, turn, ended, downstream>>

\* ... and, if it heard words, pushes a context when the turn stops.
StopSpeaking ==
  /\ ~ended /\ speaking
  /\ speaking' = FALSE
  /\ Send(<<"stopped", "context">>) \/ Send(<<"stopped">>)
  /\ UNCHANGED <<gateActive, turn, ended, downstream>>

\* Mutant: run_immediately is false, a typed message waits its turn.
TypeTextLater ==
  /\ ~ended /\ ~speaking /\ turn.id < MaxTurns
  /\ Send(<<"context">>)
  /\ UNCHANGED <<gateActive, turn, ended, speaking, downstream>>

\* A typed message interrupts the bot; the client sends none while it hears
\* the user.
TypeText ==
  /\ ~ended /\ ~speaking /\ turn.id < MaxTurns
  /\ Send(<<"interrupt", "context">>)
  /\ UNCHANGED <<gateActive, turn, ended, speaking, downstream>>

\* The stt boundary on a final fragment, which may come late.
FinalFragment ==
  /\ ~ended /\ ~turn.identityOpen /\ turn.id < MaxTurns
  /\ turn' = OpenIdentity(turn)
  /\ UNCHANGED <<gateActive, ended, speaking, inbox, downstream>>

-----------------------------------------------------------------------------
(* The turn boundary *)

Receive(frame) ==
  /\ ~ended /\ inbox # <<>> /\ Head(inbox) = frame
  /\ inbox' = Tail(inbox)

HandleStarted ==
  /\ Receive("started")
  /\ turn' = MarkUserStarted(turn)
  /\ UNCHANGED <<gateActive, ended, speaking, downstream>>

HandleStopped ==
  /\ Receive("stopped")
  /\ turn' = MarkUserStopped(turn)
  /\ UNCHANGED <<gateActive, ended, speaking, downstream>>

HandleInterrupt ==
  /\ Receive("interrupt") /\ wave = "none"
  /\ FinishTurn
  /\ wave' = "llm"
  /\ UNCHANGED <<ended, speaking, llmIn, llm, mid, ttsIn, out>>

HandleContext ==
  /\ Receive("context") /\ wave = "none"
  /\ StartTurn
  /\ llmIn' = Append(llmIn, turn'.id)
  /\ UNCHANGED <<ended, speaking, llm, mid, ttsIn, out, wave>>

-----------------------------------------------------------------------------
(* The LLM, the TTS and the passage of an interruption: outside src/ *)

LlmBegin ==
  /\ ~ended /\ llm = NoResponse /\ llmIn # <<>> /\ wave # "llm"
  /\ llm' = [NoResponse EXCEPT !.turn = Head(llmIn)]
  /\ llmIn' = Tail(llmIn)
  /\ UNCHANGED <<gateActive, turn, ended, speaking, inbox, mid, ttsIn, out, wave>>

LlmText ==
  /\ ~ended /\ llm # NoResponse /\ ~llm.spoke /\ wave # "llm"
  /\ llm' = [llm EXCEPT !.spoke = TRUE]
  /\ mid' = Append(mid, [kind |-> "text", turn |-> llm.turn])
  /\ UNCHANGED <<gateActive, turn, ended, speaking, inbox, llmIn, ttsIn, out, wave>>

\* A response ends; with a tool call, a second one follows for the result.
LlmEnd ==
  /\ ~ended /\ llm # NoResponse /\ wave # "llm"
  /\ \/ llm' = NoResponse
     \/ ~llm.tool /\ llm' = [llm EXCEPT !.tool = TRUE, !.spoke = FALSE]
  /\ mid' = Append(mid, [kind |-> "end", turn |-> llm.turn])
  /\ UNCHANGED <<gateActive, turn, ended, speaking, inbox, llmIn, ttsIn, out, wave>>

\* The provider may fail: the speech stops without audio.
Speak ==
  /\ ~ended /\ ttsIn # <<>> /\ wave # "tts"
  /\ \E kinds \in {<<"audio", "stop">>, <<"stop">>} :
       out' = out \o [i \in DOMAIN kinds |-> [kind |-> kinds[i], turn |-> Head(ttsIn)]]
  /\ ttsIn' = Tail(ttsIn)
  /\ UNCHANGED <<gateActive, turn, ended, speaking, inbox, llmIn, llm, mid, wave>>

\* The interrupted LLM may still push the end of its response.
FlushLlm ==
  /\ ~ended /\ wave = "llm"
  /\ llmIn' = <<>> /\ llm' = NoResponse
  /\ \/ mid' = <<>>
     \/ llm # NoResponse /\ mid' = <<[kind |-> "end", turn |-> llm.turn]>>
  /\ wave' = "tts"
  /\ UNCHANGED <<gateActive, turn, ended, speaking, inbox, ttsIn, out>>

FlushTts ==
  /\ ~ended /\ wave = "tts"
  /\ ttsIn' = <<>> /\ out' = <<>>
  /\ wave' = "none"
  /\ UNCHANGED <<gateActive, turn, ended, speaking, inbox, llmIn, llm, mid>>

-----------------------------------------------------------------------------
(* The llm and tts boundaries, the cleanup processor, the fillers *)

LlmTextSeen ==
  /\ ~ended /\ mid # <<>> /\ Head(mid).kind = "text" /\ wave # "llm"
  /\ mid' = Tail(mid)
  /\ turn' = [turn EXCEPT !.firstLlm = TRUE]
  /\ ttsIn' = Append(ttsIn, Head(mid).turn)
  /\ UNCHANGED <<gateActive, ended, speaking, inbox, llmIn, llm, out, wave>>

ResponseEndSeen ==
  /\ ~ended /\ mid # <<>> /\ Head(mid).kind = "end" /\ wave # "llm"
  /\ mid' = Tail(mid)
  /\ FinishResponse
  /\ UNCHANGED <<ended, speaking, inbox, llmIn, llm, ttsIn, out, wave>>

\* "Let me check that.": once per turn, by the retrieval while the turn is active, or
\* by the tool's filler, also when the response that called the tool has ended and
\* left the turn inactive.
EmitFiller ==
  /\ ~ended /\ ~turn.fillerSpoken /\ wave = "none"
  /\ turn' = [turn EXCEPT !.fillerSpoken = TRUE]
  /\ \/ turn.active /\ ttsIn' = Append(ttsIn, turn.id)
     \/ llm.tool /\ ttsIn' = Append(ttsIn, llm.turn)
  /\ UNCHANGED <<gateActive, ended, speaking, inbox, llmIn, llm, mid, out, wave>>

Hear(kind) ==
  /\ ~ended /\ out # <<>> /\ Head(out).kind = kind /\ wave # "tts"
  /\ out' = Tail(out)
  /\ UNCHANGED <<ended, speaking, inbox, llmIn, llm, mid, ttsIn, wave>>

AudioSeen ==
  /\ Hear("audio")
  /\ IF turn.firstLlm /\ ~turn.firstAudio /\ ~turn.cancelled
     THEN /\ turn' = [turn EXCEPT !.firstAudio = TRUE,
                                  !.identityOpen = @ /\ ~turn.responseFinished]
          /\ GateEnd(turn.id)
     ELSE UNCHANGED <<turn, gateActive>>

\* Mutant: only audio releases the gate.
StoppedIgnored ==
  /\ Hear("stop")
  /\ UNCHANGED <<turn, gateActive>>

StoppedSeen ==
  /\ Hear("stop")
  /\ IF turn.firstLlm /\ ~turn.firstAudio
     THEN FinishTurn
     ELSE UNCHANGED <<turn, gateActive>>

\* The client disconnects or the pipeline fails: run_bot's finally.
EndSession ==
  /\ ~ended
  /\ ended' = TRUE
  /\ GateEnd(turn.id)
  /\ UNCHANGED <<turn, speaking, inbox, downstream>>

-----------------------------------------------------------------------------
User == StartSpeaking \/ StopSpeaking \/ TypeText \/ FinalFragment

Pipeline ==
  \/ HandleStarted \/ HandleStopped \/ HandleInterrupt \/ HandleContext
  \/ FlushLlm \/ FlushTts
  \/ LlmTextSeen \/ ResponseEndSeen \/ AudioSeen \/ StoppedSeen

Llm == LlmBegin \/ LlmText \/ LlmEnd

TurnNext == User \/ Pipeline \/ Llm \/ Speak \/ EmitFiller \/ EndSession

TurnSpec == TurnInit /\ [][TurnNext]_turnVars

(***************************************************************************)
(* The processors run, the LLM streams and the TTS answers, or fails, each  *)
(* within its deadline.  The user need not speak and the session need not   *)
(* end.                                                                     *)
(***************************************************************************)
TurnFairness ==
  /\ WF_turnVars(Pipeline)
  /\ WF_turnVars(Llm)
  /\ WF_turnVars(Speak)

TurnFairSpec == TurnSpec /\ TurnFairness

-----------------------------------------------------------------------------
(* Properties *)

TurnTypeOK ==
  /\ gateActive \subseteq Nat
  /\ turn \in TurnStates
  /\ ended \in BOOLEAN /\ speaking \in BOOLEAN
  /\ inbox \in Seq(InboxFrames)
  /\ llmIn \in Seq(Nat)
  /\ llm \in [turn : Nat, spoke : BOOLEAN, tool : BOOLEAN]
  /\ mid \in Seq(FramesOf({"text", "end"}))
  /\ ttsIn \in Seq(Nat)
  /\ out \in Seq(FramesOf({"audio", "stop"}))
  /\ wave \in {"none", "llm", "tts"}

\* "Cancellation, interruption, no-audio responses, and cleanup must still release
\* it safely" (issues.md:123-124).  Read of a session: no key of it survives it,
\* whatever was going on when it ended.  A key that does holds back every session's
\* enrichment until the process exits (main.py:350-351).
CleanupReleases == ended => gateActive = {}

\* The keys that nobody gives back any more: those of turns that are no longer the
\* present one, and once the session has ended any.
LeftBehind == gateActive \ (IF ended THEN {} ELSE {turn.id})

\* A turn is being announced whose interruption comes right behind.
Overtaking == Len(inbox) > 1 /\ inbox[1] = "started" /\ inbox[2] = "interrupt"

\* No turn that is replaced, and no session that ends, leaves its key in the gate:
\* speech, late fragments, typed messages, second contexts, empty responses and
\* cleanup, each of which may come at any moment of another turn, rename the turn
\* only when its key is free.  The one exception is an announcement that overtakes
\* its interruption (processors.py:112-121, 214-232, main.py:350-351).
OnlyOvertakingStrands == [][LeftBehind' \subseteq LeftBehind \/ Overtaking]_turnVars

\* The speech of an older turn never releases the gate of a newer one: when
\* the tts boundary lets go of a turn's key, the frame is that turn's.
OwnSpeechReleases ==
  [][(out # <<>> /\ out' = Tail(out) /\ wave' = wave) =>
       gateActive \ gateActive' \subseteq {Head(out).turn}]_turnVars

\* A turn whose answer has begun gives the gate back although the user says
\* nothing more: its speech is heard, or fails without audio, or is cut off
\* (processors.py:320-383), a tool call between text and speech included; or another
\* turn takes its place, of whose key OnlyOvertakingStrands speaks.
AnsweredTurnReleases ==
  \A i \in 1..(MaxTurns + 4) :
    (turn.id = i /\ turn.firstLlm /\ i \in gateActive) ~> (i \notin gateActive \/ turn.id # i)

\* Every turn gives the gate back although the user says nothing more: "Empty,
\* cancelled, or provider-failed responses must never leave background
\* enrichment gated forever" (processors.py:381-382).  This is what TaskQueue's
\* EnrichmentCompletes and StopReturns assume of the gate.
GateReleased == []<>(GateIdle \/ ended)
=============================================================================
