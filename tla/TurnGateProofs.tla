--------------------------- MODULE TurnGateProofs ---------------------------
(***************************************************************************)
(* Theorems about TurnGate, for every bound on turns and frames, with or    *)
(* without empty responses.                                                 *)
(***************************************************************************)
EXTENDS TurnGate, SequenceTheorems, TLAPS

-----------------------------------------------------------------------------
(* Type correctness *)

\* Every method of the turn state keeps it a turn state.
LEMMA TurnMethods ==
  ASSUME NEW t \in TurnStates
  PROVE  /\ MarkUserStarted(t) \in TurnStates
         /\ MarkUserStopped(t) \in TurnStates
         /\ OpenIdentity(t) \in TurnStates
         /\ Closed(t) \in TurnStates
<1> t.id + 1 \in Nat
  BY DEF TurnStates
<1>1. ASSUME NEW u \in TurnStates PROVE MarkUserStarted(u) \in TurnStates
  <2>1. CASE u.speechOpen
    BY <2>1 DEF MarkUserStarted
  <2>2. CASE ~u.speechOpen
    <3>1. u.id + 1 \in Nat
      BY DEF TurnStates
    <3>2. MarkUserStarted(u) = [u EXCEPT !.id = u.id + 1, !.active = FALSE,
                                         !.speechOpen = TRUE, !.identityOpen = TRUE]
      BY <2>2, Zenon DEF MarkUserStarted
    <3> QED BY <3>1, <3>2 DEF TurnStates
  <2> QED BY <2>1, <2>2
<1>2. MarkUserStopped(t) \in TurnStates
  <2> DEFINE u == IF ~t.speechOpen /\ ~t.active THEN MarkUserStarted(t) ELSE t
  <2>1. u \in TurnStates
    BY <1>1
  <2> HIDE DEF u
  <2>2. [u EXCEPT !.speechOpen = FALSE] \in TurnStates
    BY <2>1 DEF TurnStates
  <2> QED BY <2>2, Zenon DEF MarkUserStopped, u
<1>3. OpenIdentity(t) \in TurnStates
  <2>1. CASE t.identityOpen
    BY <2>1 DEF OpenIdentity
  <2>2. CASE ~t.identityOpen
    <3>1. OpenIdentity(t) = [t EXCEPT !.id = t.id + 1, !.identityOpen = TRUE]
      BY <2>2, Zenon DEF OpenIdentity
    <3> QED BY <3>1 DEF TurnStates
  <2> QED BY <2>1, <2>2
<1>4. Closed(t) \in TurnStates
  <2>1. [t EXCEPT !.active = FALSE, !.speechOpen = FALSE,
                  !.identityOpen = FALSE, !.cancelled = TRUE] \in TurnStates
    BY DEF TurnStates
  <2> QED BY <2>1 DEF Closed
<1> QED BY <1>1, <1>2, <1>3, <1>4

\* The turn state and the gate stay typed through every step that touches them.
LEMMA TurnTyped ==
  ASSUME TurnTypeOK, TurnNext
  PROVE  turn' \in TurnStates /\ gateActive' \subseteq Nat
<1> turn \in TurnStates /\ turn.id \in Nat /\ gateActive \subseteq Nat
  BY DEF TurnTypeOK, TurnStates
<1>1. ASSUME FinishTurn PROVE turn' \in TurnStates /\ gateActive' \subseteq Nat
  BY <1>1, TurnMethods DEF FinishTurn, GateEnd
<1>2. ASSUME StartTurn PROVE turn' \in TurnStates /\ gateActive' \subseteq Nat
  <2> DEFINE base == IF turn.active THEN Closed(turn) ELSE turn
  <2> DEFINE t == OpenIdentity(base)
  <2>1. base \in TurnStates
    BY TurnMethods
  <2>2. t \in TurnStates
    BY <2>1, TurnMethods
  <2>3. t.id \in Nat
    BY <2>2 DEF TurnStates
  <2>4. CASE UNCHANGED <<turn, gateActive>>
    BY <2>4
  <2>5. CASE /\ turn' = [t EXCEPT !.active = TRUE, !.firstLlm = FALSE,
                           !.firstAudio = FALSE, !.responseFinished = FALSE,
                           !.cancelled = FALSE, !.fillerSpoken = FALSE]
             /\ gateActive' = (IF turn.active THEN gateActive \ {turn.id} ELSE gateActive)
                                \cup {t.id}
    <3> HIDE DEF t
    <3>1. turn' \in TurnStates
      BY <2>2, <2>5, ZenonT(40) DEF TurnStates
    <3> QED BY <3>1, <2>3, <2>5
  <2> HIDE DEF t
  <2> QED BY <1>2, <2>4, <2>5 DEF StartTurn, t, base
<1>3. ASSUME FinishResponse PROVE turn' \in TurnStates /\ gateActive' \subseteq Nat
  BY <1>3 DEF FinishResponse, GateEnd, TurnStates
<1>4. CASE User
  BY <1>4, TurnMethods DEF User, StartSpeaking, StopSpeaking, TypeText, FinalFragment
<1>5. CASE Pipeline
  <2>1. CASE HandleStarted \/ HandleStopped
    BY <2>1, TurnMethods DEF HandleStarted, HandleStopped
  <2>2. CASE HandleInterrupt \/ StoppedSeen
    BY <2>2, <1>1 DEF HandleInterrupt, StoppedSeen
  <2>3. CASE HandleContext
    BY <2>3, <1>2 DEF HandleContext
  <2>4. CASE ResponseEndSeen
    BY <2>4, <1>3 DEF ResponseEndSeen
  <2>5. CASE LlmTextSeen
    BY <2>5 DEF LlmTextSeen, TurnStates
  <2>6. CASE AudioSeen
    BY <2>6 DEF AudioSeen, GateEnd, TurnStates
  <2>7. CASE FlushLlm \/ FlushTts
    BY <2>7 DEF FlushLlm, FlushTts
  <2> QED BY <1>5, <2>1, <2>2, <2>3, <2>4, <2>5, <2>6, <2>7 DEF Pipeline
<1>6. CASE Llm \/ Speak
  BY <1>6 DEF Llm, LlmBegin, LlmText, LlmEnd, Speak
<1>7. CASE EmitFiller
  BY <1>7 DEF EmitFiller, TurnStates
<1>8. CASE EndSession
  BY <1>8 DEF EndSession, GateEnd
<1> QED BY <1>4, <1>5, <1>6, <1>7, <1>8 DEF TurnNext

\* The queues of the pipeline stay typed.
LEMMA QueuesTyped ==
  ASSUME TurnTypeOK, TurnNext, TurnGateAssumption
  PROVE  /\ ended' \in BOOLEAN /\ speaking' \in BOOLEAN
         /\ inbox' \in Seq(InboxFrames)
         /\ llmIn' \in Seq(Nat)
         /\ llm' \in [turn : Nat, spoke : BOOLEAN, tool : BOOLEAN]
         /\ mid' \in Seq(FramesOf({"text", "end"}))
         /\ ttsIn' \in Seq(Nat)
         /\ out' \in Seq(FramesOf({"audio", "stop"}))
         /\ wave' \in {"none", "llm", "tts"}
<1> USE DEF TurnTypeOK
<1> turn'.id \in Nat /\ turn.id \in Nat
  BY TurnTyped DEF TurnStates
<1>1. CASE User
  <2>1. ASSUME NEW frames \in {InterruptFirst, StartedFirst, <<"stopped", "context">>,
                               <<"stopped">>, <<"interrupt", "context">>},
               Send(frames)
        PROVE  inbox' \in Seq(InboxFrames)
    <3>1. frames \in Seq(InboxFrames)
      <4>1. \A a, b \in InboxFrames :
              <<a, b>> \in Seq(InboxFrames) /\ <<a>> \in Seq(InboxFrames)
        OBVIOUS
      <4>2. /\ "started" \in InboxFrames /\ "stopped" \in InboxFrames
            /\ "interrupt" \in InboxFrames /\ "context" \in InboxFrames
        BY DEF InboxFrames
      <4>3. \/ frames = <<"interrupt", "started">> \/ frames = <<"started", "interrupt">>
            \/ frames = <<"stopped", "context">> \/ frames = <<"stopped">>
            \/ frames = <<"interrupt", "context">>
        BY Zenon DEF InterruptFirst, StartedFirst
      <4>4. /\ <<"interrupt", "started">> \in Seq(InboxFrames)
            /\ <<"started", "interrupt">> \in Seq(InboxFrames)
            /\ <<"stopped", "context">> \in Seq(InboxFrames)
            /\ <<"stopped">> \in Seq(InboxFrames)
            /\ <<"interrupt", "context">> \in Seq(InboxFrames)
        BY <4>1, <4>2
      <4> QED BY <4>3, <4>4
    <3> QED BY <2>1, <3>1, ConcatProperties DEF Send
  <2>2. CASE StartSpeaking
    BY <2>1, <2>2 DEF StartSpeaking, TurnGateAssumption, downstream
  <2>3. CASE StopSpeaking
    BY <2>1, <2>3 DEF StopSpeaking, downstream
  <2>4. CASE TypeText
    BY <2>1, <2>4 DEF TypeText, downstream
  <2>5. CASE FinalFragment
    BY <2>5 DEF FinalFragment, downstream
  <2> QED BY <1>1, <2>2, <2>3, <2>4, <2>5 DEF User
<1>2. CASE Pipeline
  <2>1. ASSUME NEW frame, Receive(frame) PROVE inbox' \in Seq(InboxFrames)
    BY <2>1, HeadTailProperties DEF Receive
  <2>2. CASE HandleStarted \/ HandleStopped
    BY <2>1, <2>2 DEF HandleStarted, HandleStopped, downstream
  <2>3. CASE HandleInterrupt
    BY <2>1, <2>3 DEF HandleInterrupt
  <2>4. CASE HandleContext
    BY <2>1, <2>4, AppendProperties DEF HandleContext
  <2>5. CASE FlushLlm
    <3>1. llm.turn \in Nat
      OBVIOUS
    <3>2. [kind |-> "end", turn |-> llm.turn] \in FramesOf({"text", "end"})
      BY <3>1 DEF FramesOf
    <3>3. mid' = <<>> \/ mid' = <<[kind |-> "end", turn |-> llm.turn]>>
      BY <2>5 DEF FlushLlm
    <3>4. \A x \in FramesOf({"text", "end"}) : <<x>> \in Seq(FramesOf({"text", "end"}))
      OBVIOUS
    <3>5. mid' \in Seq(FramesOf({"text", "end"}))
      BY <3>2, <3>3, <3>4, EmptySeq
    <3>6. llm' \in [turn : Nat, spoke : BOOLEAN, tool : BOOLEAN]
      BY <2>5 DEF FlushLlm, NoResponse
    <3> QED BY <2>5, <3>5, <3>6 DEF FlushLlm
  <2>6. CASE FlushTts
    BY <2>6 DEF FlushTts
  <2>7. CASE LlmTextSeen
    <3>1. Head(mid) \in FramesOf({"text", "end"}) /\ Tail(mid) \in Seq(FramesOf({"text", "end"}))
      BY <2>7, HeadTailProperties DEF LlmTextSeen
    <3>2. Head(mid).turn \in Nat
      BY <3>1 DEF FramesOf
    <3> QED BY <2>7, <3>1, <3>2, AppendProperties DEF LlmTextSeen
  <2>8. CASE ResponseEndSeen
    BY <2>8, HeadTailProperties DEF ResponseEndSeen
  <2>9. CASE AudioSeen \/ StoppedSeen
    <3>1. ASSUME NEW kind, Hear(kind)
          PROVE  /\ out' \in Seq(FramesOf({"audio", "stop"}))
                 /\ UNCHANGED <<ended, speaking, inbox, llmIn, llm, mid, ttsIn, wave>>
      BY <3>1, HeadTailProperties DEF Hear
    <3>2. Hear("audio") \/ Hear("stop")
      BY <2>9 DEF AudioSeen, StoppedSeen
    <3> QED BY <3>1, <3>2
  <2> QED BY <1>2, <2>2, <2>3, <2>4, <2>5, <2>6, <2>7, <2>8, <2>9 DEF Pipeline
<1>3. CASE Llm
  <2>1. CASE LlmBegin
    <3>1. Head(llmIn) \in Nat /\ Tail(llmIn) \in Seq(Nat)
      BY <2>1, HeadTailProperties DEF LlmBegin
    <3> QED BY <2>1, <3>1 DEF LlmBegin, NoResponse
  <2>2. CASE LlmText
    <3>1. [kind |-> "text", turn |-> llm.turn] \in FramesOf({"text", "end"})
      BY DEF FramesOf
    <3> QED BY <2>2, <3>1, AppendProperties DEF LlmText
  <2>3. CASE LlmEnd
    <3>1. [kind |-> "end", turn |-> llm.turn] \in FramesOf({"text", "end"})
      BY DEF FramesOf
    <3>2. mid' \in Seq(FramesOf({"text", "end"}))
      BY <2>3, <3>1, AppendProperties DEF LlmEnd
    <3>3. NoResponse \in [turn : Nat, spoke : BOOLEAN, tool : BOOLEAN]
      BY DEF NoResponse
    <3>4. llm' \in [turn : Nat, spoke : BOOLEAN, tool : BOOLEAN]
      <4>1. llm' = NoResponse \/ llm' = [llm EXCEPT !.tool = TRUE, !.spoke = FALSE]
        BY <2>3 DEF LlmEnd
      <4>2. [llm EXCEPT !.tool = TRUE, !.spoke = FALSE]
              \in [turn : Nat, spoke : BOOLEAN, tool : BOOLEAN]
        OBVIOUS
      <4> QED BY <4>1, <4>2, <3>3
    <3> QED BY <2>3, <3>2, <3>4 DEF LlmEnd
  <2> QED BY <1>3, <2>1, <2>2, <2>3 DEF Llm
<1>4. CASE Speak
  <2>1. Head(ttsIn) \in Nat /\ Tail(ttsIn) \in Seq(Nat)
    BY <1>4, HeadTailProperties DEF Speak
  <2>2. PICK kinds \in {<<"audio", "stop">>, <<"stop">>} :
          out' = out \o [i \in DOMAIN kinds |-> [kind |-> kinds[i], turn |-> Head(ttsIn)]]
    BY <1>4 DEF Speak
  <2> DEFINE spoken == [i \in DOMAIN kinds |-> [kind |-> kinds[i], turn |-> Head(ttsIn)]]
  <2>3. kinds \in Seq({"audio", "stop"})
    <3>1. <<"audio", "stop">> \in Seq({"audio", "stop"})
      OBVIOUS
    <3>2. <<"stop">> \in Seq({"audio", "stop"})
      OBVIOUS
    <3> QED BY <3>1, <3>2, Zenon
  <2>4. /\ Len(kinds) \in Nat /\ DOMAIN kinds = 1..Len(kinds)
        /\ \A i \in 1..Len(kinds) : kinds[i] \in {"audio", "stop"}
    BY <2>3
  <2>5. spoken \in Seq(FramesOf({"audio", "stop"}))
    <3>1. \A i \in 1..Len(kinds) :
            [kind |-> kinds[i], turn |-> Head(ttsIn)] \in FramesOf({"audio", "stop"})
      BY <2>1, <2>4 DEF FramesOf
    <3> QED BY <2>4, <3>1, IsASeq
  <2> HIDE DEF spoken
  <2>6. out \o spoken \in Seq(FramesOf({"audio", "stop"}))
    BY <2>5, ConcatProperties
  <2>7. out' \in Seq(FramesOf({"audio", "stop"}))
    BY <2>2, <2>6 DEF spoken
  <2> QED BY <1>4, <2>1, <2>7 DEF Speak
<1>5. CASE EmitFiller
  <2>1. PICK n : n \in {turn.id, llm.turn} /\ ttsIn' = Append(ttsIn, n)
    BY <1>5 DEF EmitFiller
  <2>2. n \in Nat
    BY <2>1
  <2>3. ttsIn' \in Seq(Nat)
    BY <2>1, <2>2, AppendProperties
  <2>4. QED
    BY <1>5, <2>3 DEF EmitFiller
<1>6. CASE EndSession
  BY <1>6 DEF EndSession, downstream
<1> QED BY <1>1, <1>2, <1>3, <1>4, <1>5, <1>6 DEF TurnNext

\* Type correctness, for every set of announcement orders.
THEOREM TurnTypeCorrect == ASSUME TurnGateAssumption PROVE TurnSpec => []TurnTypeOK
<1>1. ASSUME TurnInit PROVE TurnTypeOK
  <2>1. turn \in TurnStates /\ gateActive \subseteq Nat
    BY <1>1 DEF TurnInit, GateInit, TurnStates
  <2>2. llm \in [turn : Nat, spoke : BOOLEAN, tool : BOOLEAN]
    BY <1>1 DEF TurnInit, NoResponse
  <2>3. \A S : <<>> \in Seq(S)
    BY EmptySeq
  <2> QED BY <1>1, <2>1, <2>2, <2>3 DEF TurnInit, TurnTypeOK
<1>2. TurnTypeOK /\ [TurnNext]_turnVars => TurnTypeOK'
  <2>1. TurnTypeOK /\ UNCHANGED turnVars => TurnTypeOK'
    BY DEF TurnTypeOK, turnVars
  <2>2. TurnTypeOK /\ TurnNext => TurnTypeOK'
    BY TurnTyped, QueuesTyped, TurnGateAssumption DEF TurnTypeOK
  <2> QED BY <2>1, <2>2
<1> QED BY <1>1, <1>2, PTL DEF TurnSpec

\* Receiving a frame moves every later frame one place forward.
LEMMA Received ==
  ASSUME TurnTypeOK, NEW frame, Receive(frame)
  PROVE  /\ inbox # <<>> /\ inbox[1] = frame /\ Len(inbox) \in Nat \ {0}
         /\ Len(inbox') = Len(inbox) - 1
         /\ \A i \in 1..Len(inbox') : inbox'[i] = inbox[i + 1]
         /\ inbox' # <<>> <=> Len(inbox) >= 2
<1>1. inbox \in Seq(InboxFrames) /\ inbox # <<>> /\ inbox' = Tail(inbox)
  BY DEF TurnTypeOK, Receive
<1>2. Len(inbox) \in Nat \ {0} /\ Len(Tail(inbox)) = Len(inbox) - 1
      /\ Tail(inbox) \in Seq(InboxFrames)
  BY <1>1, HeadTailProperties, EmptySeq
<1>3. \A i \in 1..Len(Tail(inbox)) : Tail(inbox)[i] = inbox[i + 1]
  BY <1>1, <1>2, HeadTailProperties
<1>4. inbox[1] = frame
  BY <1>1 DEF Receive
<1>5. Tail(inbox) # <<>> <=> Len(inbox) >= 2
  <2> DEFINE rest == Tail(inbox)
  <2>1. rest \in Seq(InboxFrames) /\ Len(rest) = Len(inbox) - 1
    BY <1>2
  <2> HIDE DEF rest
  <2>2. rest # <<>> <=> Len(rest) >= 1
    BY <2>1
  <2>3. rest # <<>> <=> Len(inbox) >= 2
    BY <1>2, <2>1, <2>2
  <2> QED BY <2>3 DEF rest
<1> QED BY <1>1, <1>2, <1>3, <1>4, <1>5

-----------------------------------------------------------------------------
(***************************************************************************)
(* Whose speech releases the gate, and which keys nobody does.  An           *)
(* interruption comes before each context and before the words that end a    *)
(* speech: a turn begins in an empty pipeline and when the one before has no  *)
(* key any more, and what is in the pipeline while it holds its own is its.   *)
(* Before an announcement an interruption comes too, or right behind it.      *)
(***************************************************************************)

\* The interruption has passed the LLM, has passed the TTS.
Drained ==
  /\ wave # "llm" =>
       llmIn = <<>> /\ llm = NoResponse /\ \A i \in 1..Len(mid) : mid[i].kind # "text"
  /\ wave = "none" => ttsIn = <<>> /\ out = <<>>

\* The present turn is not in the gate, nor anything of it in the pipeline.
Clean == ~turn.active /\ turn.id \notin gateActive /\ Drained

NoContext(s, n) == \A k \in 1..n : s[k] # "context"
InterruptLast(s, n) ==
  \E j \in 1..n : s[j] = "interrupt" /\ \A k \in j..n : s[k] # "context"

\* Behind the first n frames of s a context finds a clean pipeline.
Ready(s, n, clean) == InterruptLast(s, n) \/ (clean /\ NoContext(s, n))

\* The frames of s that must find one: all but interruptions and the announcements
\* that are interrupted right behind.
Due(s) ==
  {i \in 1..Len(s) : \/ s[i] \in {"context", "stopped"}
                     \/ s[i] = "started" /\ ~(i < Len(s) /\ s[i + 1] = "interrupt")}

FramesReady == \A i \in Due(inbox) : Ready(inbox, i - 1, Clean)
SpeechReady == speaking => Ready(inbox, Len(inbox), Clean)

\* What is downstream belongs to turn n.
AllOf(s, n) == \A i \in 1..Len(s) : s[i] = n
AllTagged(s, n) == \A i \in 1..Len(s) : s[i].turn = n
TextTagged(s, n) == \A i \in 1..Len(s) : s[i].kind = "text" => s[i].turn = n

OwnFrames(n) ==
  /\ AllOf(llmIn, n) /\ (llm # NoResponse => llm.turn = n)
  /\ TextTagged(mid, n) /\ AllOf(ttsIn, n) /\ AllTagged(out, n)

KeysPast == \A k \in gateActive : k <= turn.id
KeyOwnsFrames == turn.id \in gateActive => OwnFrames(turn.id)

HeldIsOpen == turn.id \in gateActive => turn.identityOpen

OwnInv == FramesReady /\ SpeechReady /\ KeysPast /\ KeyOwnsFrames /\ HeldIsOpen

-----------------------------------------------------------------------------
(* The inbox *)

\* The frame in front goes.
LEMMA ReadyTail ==
  ASSUME NEW s \in Seq(InboxFrames), s # <<>>, NEW n \in 1..Len(s), NEW clean, NEW left,
         Ready(s, n, clean), s[1] = "interrupt" \/ (clean /\ s[1] # "context") => left
  PROVE  Ready(Tail(s), n - 1, left)
<1>1. PICK r : r = Tail(s)
  OBVIOUS
<1>2. /\ r \in Seq(InboxFrames) /\ Len(s) = Len(r) + 1 /\ Len(r) \in Nat
      /\ \A i \in 1..Len(r) : r[i] = s[i + 1]
  BY <1>1
<1>3. ASSUME NEW i \in 1..(n - 1)
      PROVE  r[i] = s[i + 1] /\ i + 1 \in 1..n
  BY <1>2
<1>4. CASE clean /\ NoContext(s, n)
  <2>1. s[1] # "context"
    BY <1>4 DEF NoContext
  <2>2. NoContext(r, n - 1)
    BY <1>3, <1>4 DEF NoContext
  <2>3. QED
    BY <1>1, <1>4, <2>1, <2>2 DEF Ready
<1>5. CASE InterruptLast(s, n)
  <2>1. PICK j \in 1..n : s[j] = "interrupt" /\ \A k \in j..n : s[k] # "context"
    BY <1>5 DEF InterruptLast
  <2>2. CASE j = 1
    <3>1. NoContext(r, n - 1)
      BY <1>3, <2>1, <2>2 DEF NoContext
    <3>2. QED
      BY <1>1, <2>1, <2>2, <3>1 DEF Ready
  <2>3. CASE j # 1
    <3>1. j - 1 \in 1..(n - 1) /\ (j - 1) + 1 = j
      BY <2>1, <2>3
    <3>2. r[j - 1] = "interrupt"
      BY <1>3, <2>1, <3>1
    <3>3. ASSUME NEW k \in (j - 1)..(n - 1)
          PROVE  r[k] # "context"
      <4>1. k \in 1..(n - 1) /\ k + 1 \in j..n
        BY <2>3, <3>1
      <4>2. QED
        BY <1>3, <2>1, <4>1
    <3>4. InterruptLast(r, n - 1)
      BY <3>1, <3>2, <3>3 DEF InterruptLast
    <3>5. QED
      BY <1>1, <3>4 DEF Ready
  <2>4. QED
    BY <2>2, <2>3
<1>6. QED
  BY <1>4, <1>5 DEF Ready

\* Frames join behind.
LEMMA ReadyMore ==
  ASSUME NEW s, NEW r, NEW n \in Nat, NEW clean, Ready(s, n, clean),
         \A i \in 1..n : r[i] = s[i]
  PROVE  /\ Ready(r, n, clean)
         /\ r[n + 1] # "context" => Ready(r, n + 1, clean)
<1>1. CASE clean /\ NoContext(s, n)
  BY <1>1 DEF Ready, NoContext
<1>2. CASE InterruptLast(s, n)
  <2>1. PICK j \in 1..n : s[j] = "interrupt" /\ \A k \in j..n : s[k] # "context"
    BY <1>2 DEF InterruptLast
  <2>2. r[j] = "interrupt" /\ \A k \in j..n : r[k] # "context"
    BY <2>1
  <2>3. j \in 1..(n + 1) /\ \A k \in j..(n + 1) : k \in j..n \/ k = n + 1
    BY <2>1
  <2>4. QED
    BY <2>1, <2>2, <2>3 DEF Ready, InterruptLast
<1>3. QED
  BY <1>1, <1>2 DEF Ready

LEMMA ReadyInterrupt ==
  ASSUME NEW r, NEW n \in Nat, NEW clean, r[n + 1] = "interrupt"
  PROVE  Ready(r, n + 1, clean)
BY DEF Ready, InterruptLast

\* Receiving a frame keeps what the inbox promises.
LEMMA ReceiveReady ==
  ASSUME TurnTypeOK, FramesReady, SpeechReady, NEW frame, Receive(frame),
         speaking' = speaking, frame = "interrupt" => Clean',
         Clean /\ frame # "context" => Clean'
  PROVE  FramesReady' /\ SpeechReady'
<1>1. /\ inbox \in Seq(InboxFrames) /\ inbox # <<>> /\ inbox' = Tail(inbox)
      /\ inbox[1] = frame /\ Len(inbox) \in Nat
      /\ Len(inbox') = Len(inbox) - 1 /\ \A i \in 1..Len(inbox') : inbox'[i] = inbox[i + 1]
  BY Received DEF TurnTypeOK, Receive
<1>2. ASSUME NEW n \in 1..Len(inbox), Ready(inbox, n, Clean)
      PROVE  Ready(inbox', n - 1, Clean')
  <2>1. inbox[1] = "interrupt" \/ (Clean /\ inbox[1] # "context") => Clean'
    BY <1>1
  <2>2. Ready(Tail(inbox), n - 1, Clean')
    BY <1>1, <1>2, <2>1, ReadyTail
  <2>3. QED
    BY <1>1, <2>2
<1>3. FramesReady'
  <2>1. ASSUME NEW i \in Due(inbox')
        PROVE  Ready(inbox', i - 1, Clean')
    <3>0. PICK s, r : s = inbox /\ r = inbox'
      OBVIOUS
    <3>1. i + 1 \in Due(s) /\ (i + 1) - 1 = i /\ i \in 1..Len(s)
      <4>1. /\ Len(s) \in Nat /\ Len(r) = Len(s) - 1
            /\ \A k \in 1..Len(r) : r[k] = s[k + 1]
        BY <1>1, <3>0
      <4>2. /\ i \in 1..Len(r)
            /\ \/ r[i] \in {"context", "stopped"}
               \/ r[i] = "started" /\ ~(i < Len(r) /\ r[i + 1] = "interrupt")
        BY <2>1, <3>0 DEF Due
      <4>3. i + 1 \in 1..Len(s) /\ s[i + 1] = r[i] /\ (i + 1) - 1 = i /\ i \in 1..Len(s)
        BY <4>1, <4>2
      <4>4. i + 1 < Len(s) /\ s[(i + 1) + 1] = "interrupt" => i < Len(r) /\ r[i + 1] = "interrupt"
        BY <4>1, <4>3
      <4>5. QED
        BY <4>2, <4>3, <4>4 DEF Due
    <3>2. Ready(inbox, i, Clean) /\ i \in 1..Len(inbox)
      BY <3>0, <3>1 DEF FramesReady
    <3>3. QED
      BY <1>2, <3>1, <3>2
  <2>2. QED
    BY <2>1 DEF FramesReady
<1>4. SpeechReady'
  <2>1. ASSUME speaking
        PROVE  Ready(inbox', Len(inbox'), Clean')
    <3>1. Len(inbox) \in 1..Len(inbox) /\ Ready(inbox, Len(inbox), Clean)
      BY <1>1, <2>1 DEF SpeechReady
    <3>2. QED
      BY <1>1, <1>2, <3>1
  <2>2. QED
    BY <2>1 DEF SpeechReady
<1>5. QED
  BY <1>3, <1>4

LEMMA UserReady ==
  ASSUME TurnTypeOK, FramesReady, SpeechReady, TurnGateAssumption, Clean' = Clean,
         StartSpeaking \/ StopSpeaking \/ TypeText
  PROVE  FramesReady' /\ SpeechReady'
<1>1. inbox \in Seq(InboxFrames) /\ Len(inbox) \in Nat
  BY DEF TurnTypeOK
<1>2. ASSUME Len(inbox') \in Nat, Len(inbox) < Len(inbox'),
             \A k \in 1..Len(inbox) : inbox'[k] = inbox[k],
             NEW i \in 1..Len(inbox), i \in Due(inbox')
      PROVE  Ready(inbox', i - 1, Clean')
  <2>0. PICK s, r : s = inbox /\ r = inbox'
    OBVIOUS
  <2>2. i \in Due(s)
    <3>1. /\ i \in 1..Len(s) /\ Len(s) \in Nat /\ Len(s) < Len(r)
          /\ \A k \in 1..Len(s) : r[k] = s[k]
      BY <1>1, <1>2, <2>0
    <3>2. \/ r[i] \in {"context", "stopped"}
          \/ r[i] = "started" /\ ~(i < Len(r) /\ r[i + 1] = "interrupt")
      BY <1>2, <2>0 DEF Due
    <3>3. i < Len(s) /\ s[i + 1] = "interrupt" => i < Len(r) /\ r[i + 1] = "interrupt"
      BY <3>1
    <3>4. QED
      BY <3>1, <3>2, <3>3 DEF Due
  <2>1. Ready(inbox, i - 1, Clean) /\ i - 1 \in Nat /\ \A k \in 1..(i - 1) : inbox'[k] = inbox[k]
    BY <1>1, <1>2, <2>0, <2>2 DEF FramesReady
  <2>3. QED
    BY <2>1, ReadyMore
<1>3. CASE StartSpeaking
  <2>1. PICK frames \in {InterruptFirst, StartedFirst} : inbox' = inbox \o frames
    BY <1>3 DEF StartSpeaking, Send, TurnGateAssumption
  <2>2. \/ inbox' = inbox \o <<"interrupt", "started">>
        \/ inbox' = inbox \o <<"started", "interrupt">>
    BY <2>1 DEF InterruptFirst, StartedFirst
  <2>3. /\ Len(inbox') = Len(inbox) + 2
        /\ \A i \in 1..Len(inbox) : inbox'[i] = inbox[i]
        /\ \/ inbox'[Len(inbox) + 1] = "interrupt" /\ inbox'[Len(inbox) + 2] = "started"
           \/ inbox'[Len(inbox) + 1] = "started" /\ inbox'[Len(inbox) + 2] = "interrupt"
    BY <1>1, <2>2
  <2>4. Ready(inbox', Len(inbox) + 2, Clean')
    <3>1. CASE inbox'[Len(inbox) + 1] = "interrupt" /\ inbox'[Len(inbox) + 2] = "started"
      <4>1. Ready(inbox', Len(inbox) + 1, Clean')
        BY <1>1, <3>1, ReadyInterrupt
      <4>2. Len(inbox) + 1 \in Nat /\ (Len(inbox) + 1) + 1 = Len(inbox) + 2
        BY <1>1
      <4>3. inbox'[(Len(inbox) + 1) + 1] # "context"
        BY <3>1, <4>2
      <4>4. Ready(inbox', (Len(inbox) + 1) + 1, Clean')
        BY <4>1, <4>2, <4>3, ReadyMore
      <4>5. QED
        BY <4>2, <4>4
    <3>2. CASE inbox'[Len(inbox) + 2] = "interrupt"
      <4>1. Len(inbox) + 1 \in Nat /\ (Len(inbox) + 1) + 1 = Len(inbox) + 2
        BY <1>1
      <4>2. Ready(inbox', (Len(inbox) + 1) + 1, Clean')
        BY <3>2, <4>1, ReadyInterrupt
      <4>3. QED
        BY <4>1, <4>2
    <3>3. QED
      BY <2>3, <3>1, <3>2
  <2>5. FramesReady'
    <3>1. ASSUME NEW i \in Due(inbox')
          PROVE  Ready(inbox', i - 1, Clean')
      <4>1. PICK r : r = inbox'
        OBVIOUS
      <4>2. /\ i \in 1..Len(r)
            /\ \/ r[i] \in {"context", "stopped"}
               \/ r[i] = "started" /\ ~(i < Len(r) /\ r[i + 1] = "interrupt")
        BY <3>1, <4>1 DEF Due
      <4>3. /\ Len(r) = Len(inbox) + 2
            /\ \/ r[Len(inbox) + 1] = "interrupt" /\ r[Len(inbox) + 2] = "started"
               \/ r[Len(inbox) + 1] = "started" /\ r[Len(inbox) + 2] = "interrupt"
        BY <2>3, <4>1
      <4>4. \/ i \in 1..Len(inbox)
            \/ i - 1 = Len(inbox) + 1 /\ r[Len(inbox) + 1] = "interrupt"
        BY <1>1, <4>2, <4>3
      <4>5. CASE i \in 1..Len(inbox)
        BY <1>1, <1>2, <2>3, <3>1, <4>5
      <4>6. CASE i - 1 = Len(inbox) + 1 /\ r[Len(inbox) + 1] = "interrupt"
        <5>1. Ready(inbox', Len(inbox) + 1, Clean')
          BY <1>1, <4>1, <4>6, ReadyInterrupt
        <5>2. QED
          BY <4>6, <5>1
      <4>7. QED
        BY <4>4, <4>5, <4>6
    <3>2. QED
      BY <3>1 DEF FramesReady
  <2>6. SpeechReady'
    BY <2>3, <2>4 DEF SpeechReady
  <2>7. QED
    BY <2>5, <2>6
<1>4. CASE StopSpeaking
  <2>1. /\ speaking /\ speaking' = FALSE
        /\ inbox' = inbox \o <<"stopped", "context">> \/ inbox' = inbox \o <<"stopped">>
    BY <1>4 DEF StopSpeaking, Send
  <2>2. /\ Len(inbox') \in {Len(inbox) + 1, Len(inbox) + 2}
        /\ \A i \in 1..Len(inbox) : inbox'[i] = inbox[i]
        /\ inbox'[Len(inbox) + 1] = "stopped"
    BY <1>1, <2>1
  <2>3. Ready(inbox', Len(inbox) + 1, Clean')
    <3>1. Ready(inbox, Len(inbox), Clean)
      BY <2>1 DEF SpeechReady
    <3>2. QED
      BY <1>1, <2>2, <3>1, ReadyMore
  <2>4. FramesReady'
    <3>1. ASSUME NEW i \in Due(inbox')
          PROVE  Ready(inbox', i - 1, Clean')
      <4>1. i \in 1..Len(inbox')
        BY <3>1 DEF Due
      <4>2. \/ i \in 1..Len(inbox) \/ i - 1 = Len(inbox) \/ i - 1 = Len(inbox) + 1
        BY <1>1, <2>2, <4>1
      <4>3. CASE i \in 1..Len(inbox)
        BY <1>1, <1>2, <2>2, <3>1, <4>3
      <4>4. CASE i - 1 = Len(inbox)
        <5>1. Ready(inbox, Len(inbox), Clean)
          BY <2>1 DEF SpeechReady
        <5>2. Ready(inbox', Len(inbox), Clean')
          BY <1>1, <2>2, <5>1, ReadyMore
        <5>3. QED
          BY <4>4, <5>2
      <4>5. CASE i - 1 = Len(inbox) + 1
        BY <2>3, <4>5
      <4>6. QED
        BY <4>2, <4>3, <4>4, <4>5
    <3>2. QED
      BY <3>1 DEF FramesReady
  <2>5. QED
    BY <2>1, <2>4 DEF SpeechReady
<1>5. CASE TypeText
  <2>1. ~speaking' /\ inbox' = inbox \o <<"interrupt", "context">>
    BY <1>5 DEF TypeText, Send
  <2>2. /\ Len(inbox') = Len(inbox) + 2
        /\ \A i \in 1..Len(inbox) : inbox'[i] = inbox[i]
        /\ inbox'[Len(inbox) + 1] = "interrupt"
    BY <1>1, <2>1
  <2>3. Ready(inbox', Len(inbox) + 1, Clean')
    BY <1>1, <2>2, ReadyInterrupt
  <2>4. FramesReady'
    <3>1. ASSUME NEW i \in Due(inbox')
          PROVE  Ready(inbox', i - 1, Clean')
      <4>1. i \in 1..Len(inbox') /\ inbox'[i] # "interrupt"
        BY <3>1 DEF Due
      <4>2. i \in 1..Len(inbox) \/ i - 1 = Len(inbox) + 1
        BY <1>1, <2>2, <4>1
      <4>3. CASE i \in 1..Len(inbox)
        BY <1>1, <1>2, <2>2, <3>1, <4>3
      <4>4. CASE i - 1 = Len(inbox) + 1
        BY <2>3, <4>4
      <4>5. QED
        BY <4>2, <4>3, <4>4
    <3>2. QED
      BY <3>1 DEF FramesReady
  <2>5. QED
    BY <2>1, <2>4 DEF SpeechReady
<1>6. QED
  BY <1>3, <1>4, <1>5

-----------------------------------------------------------------------------
(* The pipeline *)

Downstream == FlushLlm \/ FlushTts \/ LlmTextSeen \/ ResponseEndSeen \/ AudioSeen \/ StoppedSeen
              \/ Llm \/ Speak \/ EmitFiller \/ EndSession

\* Everything but the start of a turn.
Elsewhere == Downstream \/ User \/ HandleStarted \/ HandleStopped \/ HandleInterrupt

\* Outside the start of a turn its number only grows and no key joins the gate.
LEMMA TurnGrows ==
  ASSUME TurnTypeOK, Elsewhere
  PROVE  /\ turn'.id = turn.id \/ turn'.id > turn.id
         /\ gateActive' \subseteq gateActive
         /\ Downstream => turn'.id = turn.id
         /\ ~Downstream => UNCHANGED <<llmIn, llm, mid, ttsIn, out>>
<1>1. turn \in TurnStates /\ turn.id \in Nat
  BY DEF TurnTypeOK, TurnStates
<1>2. CASE Downstream
  <2>1. turn'.id = turn.id /\ gateActive' \subseteq gateActive
    BY <1>1, <1>2 DEF Downstream, FlushLlm, FlushTts, LlmTextSeen, ResponseEndSeen,
       FinishResponse, AudioSeen, StoppedSeen, Hear, FinishTurn, GateEnd, Closed, Llm, LlmBegin,
       LlmText, LlmEnd, Speak, EmitFiller, EndSession, TurnStates
  <2>2. QED
    BY <1>2, <2>1
<1>3. CASE ~Downstream
  <2>1. CASE StartSpeaking \/ StopSpeaking \/ TypeText
    BY <1>3, <2>1 DEF StartSpeaking, StopSpeaking, TypeText, downstream
  <2>2. CASE FinalFragment
    <3>1. OpenIdentity(turn).id \in {turn.id, turn.id + 1}
      BY <1>1 DEF OpenIdentity, TurnStates
    <3>2. turn' = OpenIdentity(turn) /\ UNCHANGED <<gateActive, downstream>>
      BY <2>2 DEF FinalFragment
    <3>3. QED
      BY <1>1, <1>3, <3>1, <3>2 DEF downstream
  <2>3. CASE HandleStarted \/ HandleStopped
    <3>1. MarkUserStarted(turn) \in TurnStates /\ MarkUserStarted(turn).id \in {turn.id, turn.id + 1}
      BY <1>1, TurnMethods DEF MarkUserStarted, TurnStates
    <3>2. MarkUserStopped(turn).id \in {turn.id, turn.id + 1}
      BY <1>1, <3>1 DEF MarkUserStopped, TurnStates
    <3>3. /\ turn' \in {MarkUserStarted(turn), MarkUserStopped(turn)}
          /\ UNCHANGED <<gateActive, downstream>>
      BY <2>3 DEF HandleStarted, HandleStopped
    <3>4. turn'.id \in {turn.id, turn.id + 1}
      BY <3>1, <3>2, <3>3
    <3>5. QED
      BY <1>1, <1>3, <3>3, <3>4 DEF downstream
  <2>4. CASE HandleInterrupt
    BY <1>1, <1>3, <2>4 DEF HandleInterrupt, FinishTurn, GateEnd, Closed, TurnStates
  <2>5. QED
    BY <1>3, <2>1, <2>2, <2>3, <2>4 DEF Elsewhere, User
<1>4. QED
  BY <1>2, <1>3

\* A pipeline that an interruption cleans stays clean until the next context.
LEMMA CleanKept ==
  ASSUME TurnTypeOK, Clean, KeysPast,
         Downstream \/ FinalFragment \/ HandleStarted \/ HandleStopped
  PROVE  Clean'
<1>1. turn \in TurnStates /\ ~turn.active /\ Drained /\ wave \in {"none", "llm", "tts"}
  BY DEF TurnTypeOK, Clean
<1>0. turn'.id \notin gateActive'
  <2>1. /\ turn'.id = turn.id \/ turn'.id > turn.id
        /\ gateActive' \subseteq gateActive
    BY TurnGrows DEF Elsewhere, User
  <2>2. turn.id \notin gateActive /\ \A k \in gateActive : k \in Nat /\ k <= turn.id
    BY DEF Clean, KeysPast, TurnTypeOK
  <2>3. turn.id \in Nat
    BY <1>1 DEF TurnStates
  <2>4. QED
    BY <2>1, <2>2, <2>3
<1>2. mid \in Seq(FramesOf({"text", "end"}))
  BY DEF TurnTypeOK
<1>3. ~turn'.active
  <2>1. CASE FinalFragment
    BY <1>1, <2>1 DEF FinalFragment, OpenIdentity, TurnStates
  <2>2. CASE HandleStarted
    BY <1>1, <2>2 DEF HandleStarted, MarkUserStarted, TurnStates
  <2>3. CASE HandleStopped
    <3>1. turn' = MarkUserStopped(turn)
      BY <2>3 DEF HandleStopped
    <3>2. MarkUserStarted(turn) \in TurnStates /\ ~MarkUserStarted(turn).active
      BY <1>1, TurnMethods DEF MarkUserStarted, TurnStates
    <3>3. QED
      BY <1>1, <3>1, <3>2 DEF MarkUserStopped, TurnStates
  <2>4. CASE Downstream
    BY <1>1, <2>4 DEF Downstream, FlushLlm, FlushTts, LlmTextSeen, ResponseEndSeen,
       FinishResponse, AudioSeen, StoppedSeen, Hear, FinishTurn, Closed, Llm, LlmBegin, LlmText,
       LlmEnd, Speak, EmitFiller, EndSession, TurnStates
  <2>5. QED
    BY <2>1, <2>2, <2>3, <2>4
<1>4. CASE FinalFragment \/ HandleStarted \/ HandleStopped \/ EndSession
  BY <1>1, <1>0, <1>3, <1>4 DEF FinalFragment, HandleStarted, HandleStopped, EndSession, downstream,
     Clean, Drained
<1>5. CASE FlushLlm
  <2>1. \A i \in 1..Len(mid') : mid'[i].kind # "text"
    BY <1>5 DEF FlushLlm
  <2>2. QED
    BY <1>0, <1>3, <1>5, <2>1 DEF FlushLlm, Clean, Drained
<1>6. CASE FlushTts
  BY <1>1, <1>0, <1>3, <1>6 DEF FlushTts, Clean, Drained
<1>7. CASE LlmTextSeen
  <2>1. Len(mid) >= 1 /\ mid[1].kind = "text" /\ wave # "llm"
    BY <1>2, <1>7 DEF LlmTextSeen
  <2>2. QED
    BY <1>1, <1>2, <2>1 DEF Drained
<1>8. CASE ResponseEndSeen
  <2>1. /\ wave # "llm" /\ wave' = wave /\ UNCHANGED <<llmIn, llm, ttsIn, out>>
        /\ mid # <<>> /\ mid' = Tail(mid)
    BY <1>8 DEF ResponseEndSeen
  <2>2. \A i \in 1..Len(mid') : i + 1 \in 1..Len(mid) /\ mid'[i] = mid[i + 1]
    BY <1>2, <2>1
  <2>3. \A i \in 1..Len(mid') : mid'[i].kind # "text"
    BY <1>1, <2>1, <2>2 DEF Drained
  <2>4. QED
    BY <1>1, <1>0, <1>3, <2>1, <2>3 DEF Clean, Drained
<1>9. CASE AudioSeen \/ StoppedSeen \/ Speak
  <2>1. wave' = wave /\ wave = "llm"
    BY <1>1, <1>9 DEF AudioSeen, StoppedSeen, Hear, Speak, Drained
  <2>2. QED
    BY <1>0, <1>3, <2>1 DEF Clean, Drained
<1>10. ~Llm /\ ~EmitFiller
  BY <1>1 DEF Llm, LlmBegin, LlmText, LlmEnd, EmitFiller, Drained, NoResponse
<1>11. QED
  BY <1>4, <1>5, <1>6, <1>7, <1>8, <1>9, <1>10 DEF Downstream

\* What is in a queue leaves it in front and joins it behind.
LEMMA TagsLess ==
  ASSUME NEW S, NEW s \in Seq(S), s # <<>>, NEW n
  PROVE  /\ AllOf(s, n) => AllOf(Tail(s), n) /\ Head(s) = n
         /\ AllTagged(s, n) => AllTagged(Tail(s), n) /\ Head(s).turn = n
         /\ TextTagged(s, n) =>
              TextTagged(Tail(s), n) /\ (Head(s).kind = "text" => Head(s).turn = n)
<1>1. PICK r : r = Tail(s)
  OBVIOUS
<1>2. /\ r \in Seq(S) /\ Len(s) = Len(r) + 1 /\ Len(r) \in Nat
      /\ \A i \in 1..Len(r) : i + 1 \in 1..Len(s) /\ r[i] = s[i + 1]
      /\ 1 \in 1..Len(s) /\ Head(s) = s[1]
  BY <1>1
<1>3. AllOf(s, n) => AllOf(r, n) /\ Head(s) = n
  BY <1>2 DEF AllOf
<1>4. AllTagged(s, n) => AllTagged(r, n) /\ Head(s).turn = n
  BY <1>2 DEF AllTagged
<1>5. TextTagged(s, n) => TextTagged(r, n) /\ (Head(s).kind = "text" => Head(s).turn = n)
  BY <1>2 DEF TextTagged
<1>6. QED
  BY <1>1, <1>3, <1>4, <1>5

LEMMA TagsMore ==
  ASSUME NEW S, NEW s \in Seq(S), NEW x \in S, NEW n
  PROVE  /\ AllOf(s, n) /\ x = n => AllOf(Append(s, x), n)
         /\ AllTagged(s, n) /\ x.turn = n => AllTagged(Append(s, x), n)
         /\ TextTagged(s, n) /\ (x.kind = "text" => x.turn = n) => TextTagged(Append(s, x), n)
<1>1. PICK r : r = Append(s, x)
  OBVIOUS
<1>2. /\ Len(r) = Len(s) + 1 /\ Len(s) \in Nat /\ r[Len(s) + 1] = x
      /\ \A i \in 1..Len(s) : r[i] = s[i]
  BY <1>1
<1>3. \A i \in 1..Len(r) : i \in 1..Len(s) \/ r[i] = x
  BY <1>2
<1>4. AllOf(s, n) /\ x = n => AllOf(r, n)
  BY <1>2, <1>3 DEF AllOf
<1>5. AllTagged(s, n) /\ x.turn = n => AllTagged(r, n)
  BY <1>2, <1>3 DEF AllTagged
<1>6. TextTagged(s, n) /\ (x.kind = "text" => x.turn = n) => TextTagged(r, n)
  BY <1>2, <1>3 DEF TextTagged
<1>7. QED
  BY <1>1, <1>4, <1>5, <1>6

\* A speech and its end join the output.
LEMMA SpeechJoins ==
  ASSUME NEW s \in Seq(FramesOf({"audio", "stop"})), NEW n \in Nat, AllTagged(s, n),
         NEW kinds \in {<<"audio", "stop">>, <<"stop">>}
  PROVE  AllTagged(s \o [i \in DOMAIN kinds |-> [kind |-> kinds[i], turn |-> n]], n)
<1>1. PICK t : t = [i \in DOMAIN kinds |-> [kind |-> kinds[i], turn |-> n]]
  OBVIOUS
<1>2. /\ t \in Seq(FramesOf({"audio", "stop"})) /\ Len(t) \in Nat
      /\ \A i \in 1..Len(t) : t[i].turn = n
  <2>1. CASE kinds = <<"audio", "stop">>
    BY <1>1, <2>1 DEF FramesOf
  <2>2. CASE kinds = <<"stop">>
    BY <1>1, <2>2 DEF FramesOf
  <2>3. QED
    BY <2>1, <2>2
<1>3. PICK r : r = s \o t
  OBVIOUS
<1>4. /\ Len(r) = Len(s) + Len(t) /\ Len(s) \in Nat
      /\ \A i \in 1..Len(s) : r[i] = s[i]
  BY <1>2, <1>3
<1>5. \A i \in 1..Len(t) : i + Len(s) \in 1..Len(r) /\ r[i + Len(s)] = t[i]
  BY <1>2, <1>3, <1>4
<1>6. ASSUME NEW i \in 1..Len(r)
      PROVE  r[i].turn = n
  <2>1. CASE i \in 1..Len(s)
    BY <1>4, <2>1 DEF AllTagged
  <2>2. CASE i \notin 1..Len(s)
    <3>1. i - Len(s) \in 1..Len(t) /\ (i - Len(s)) + Len(s) = i
      BY <1>2, <1>4, <2>2
    <3>2. QED
      BY <1>2, <1>5, <3>1
  <2>3. QED
    BY <2>1, <2>2
<1>7. QED
  BY <1>1, <1>3, <1>6 DEF AllTagged

LEMMA NoTags == \A n : AllOf(<<>>, n) /\ AllTagged(<<>>, n) /\ TextTagged(<<>>, n)
BY DEF AllOf, AllTagged, TextTagged

\* What the pipeline passes on keeps its turn.
LEMMA OwnKept ==
  ASSUME TurnTypeOK, OwnFrames(turn.id), Downstream
  PROVE  OwnFrames(turn.id)' \/ turn'.id # turn.id
<1> DEFINE n == turn.id
<1>1. /\ llmIn \in Seq(Nat) /\ llm \in [turn : Nat, spoke : BOOLEAN, tool : BOOLEAN]
      /\ mid \in Seq(FramesOf({"text", "end"})) /\ ttsIn \in Seq(Nat)
      /\ out \in Seq(FramesOf({"audio", "stop"})) /\ turn \in TurnStates /\ n \in Nat
  BY DEF TurnTypeOK, TurnStates
<1>2. /\ AllOf(llmIn, n) /\ (llm # NoResponse => llm.turn = n)
      /\ TextTagged(mid, n) /\ AllOf(ttsIn, n) /\ AllTagged(out, n)
  BY DEF OwnFrames
<1> SUFFICES ASSUME turn'.id = n
             PROVE  /\ AllOf(llmIn', n) /\ (llm' # NoResponse => llm'.turn = n)
                    /\ TextTagged(mid', n) /\ AllOf(ttsIn', n) /\ AllTagged(out', n)
  BY DEF OwnFrames
<1> HIDE DEF n
<1>3. CASE FlushLlm
  <2>1. \A k \in Nat : TextTagged(<<[kind |-> "end", turn |-> k]>>, n)
    BY DEF TextTagged
  <2>2. TextTagged(mid', n)
    BY <1>1, <1>3, <2>1, NoTags DEF FlushLlm
  <2>3. QED
    BY <1>2, <1>3, <2>2, NoTags DEF FlushLlm
<1>4. CASE FlushTts
  BY <1>2, <1>4, NoTags DEF FlushTts
<1>5. CASE LlmTextSeen
  <2>1. /\ mid # <<>> /\ Head(mid).kind = "text" /\ mid' = Tail(mid)
        /\ ttsIn' = Append(ttsIn, Head(mid).turn) /\ UNCHANGED <<llmIn, llm, out>>
    BY <1>5 DEF LlmTextSeen
  <2>2. TextTagged(mid', n) /\ Head(mid).turn = n
    BY <1>1, <1>2, <2>1, TagsLess
  <2>3. AllOf(ttsIn', n)
    BY <1>1, <1>2, <2>1, <2>2, TagsMore DEF n
  <2>4. QED
    BY <1>2, <2>1, <2>2, <2>3
<1>6. CASE ResponseEndSeen
  <2>1. mid # <<>> /\ mid' = Tail(mid) /\ UNCHANGED <<llmIn, llm, ttsIn, out>>
    BY <1>6 DEF ResponseEndSeen
  <2>2. TextTagged(mid', n)
    BY <1>1, <1>2, <2>1, TagsLess
  <2>3. QED
    BY <1>2, <2>1, <2>2
<1>7. CASE AudioSeen \/ StoppedSeen
  <2>1. out # <<>> /\ out' = Tail(out) /\ UNCHANGED <<llmIn, llm, mid, ttsIn>>
    BY <1>7 DEF AudioSeen, StoppedSeen, Hear
  <2>2. AllTagged(out', n)
    BY <1>1, <1>2, <2>1, TagsLess
  <2>3. QED
    BY <1>2, <2>1, <2>2
<1>8. CASE LlmBegin
  <2>1. /\ llmIn # <<>> /\ llmIn' = Tail(llmIn) /\ llm' = [NoResponse EXCEPT !.turn = Head(llmIn)]
        /\ UNCHANGED <<mid, ttsIn, out>>
    BY <1>8 DEF LlmBegin
  <2>2. AllOf(llmIn', n) /\ Head(llmIn) = n
    BY <1>1, <1>2, <2>1, TagsLess
  <2>3. llm'.turn = n
    BY <2>1, <2>2 DEF NoResponse
  <2>4. QED
    BY <1>2, <2>1, <2>2, <2>3
<1>9. CASE LlmText
  <2>1. /\ llm # NoResponse /\ llm' = [llm EXCEPT !.spoke = TRUE]
        /\ mid' = Append(mid, [kind |-> "text", turn |-> llm.turn])
        /\ UNCHANGED <<llmIn, ttsIn, out>>
    BY <1>9 DEF LlmText
  <2>2. llm.turn = n /\ llm'.turn = n
    BY <1>1, <1>2, <2>1
  <2>3. [kind |-> "text", turn |-> llm.turn] \in FramesOf({"text", "end"})
    BY <1>1 DEF FramesOf
  <2>4. TextTagged(mid', n)
    BY <1>1, <1>2, <2>1, <2>2, <2>3, TagsMore
  <2>5. QED
    BY <1>2, <2>1, <2>2, <2>4
<1>10. CASE LlmEnd
  <2>1. /\ llm # NoResponse
        /\ llm' = NoResponse \/ llm' = [llm EXCEPT !.tool = TRUE, !.spoke = FALSE]
        /\ mid' = Append(mid, [kind |-> "end", turn |-> llm.turn])
        /\ UNCHANGED <<llmIn, ttsIn, out>>
    BY <1>10 DEF LlmEnd
  <2>2. llm' # NoResponse => llm'.turn = n
    BY <1>1, <1>2, <2>1
  <2>3. [kind |-> "end", turn |-> llm.turn] \in FramesOf({"text", "end"})
    BY <1>1 DEF FramesOf
  <2>4. TextTagged(mid', n)
    BY <1>1, <1>2, <2>1, <2>3, TagsMore
  <2>5. QED
    BY <1>2, <2>1, <2>2, <2>4
<1>11. CASE Speak
  <2>1. /\ ttsIn # <<>> /\ ttsIn' = Tail(ttsIn) /\ UNCHANGED <<llmIn, llm, mid>>
    BY <1>11 DEF Speak
  <2>2. AllOf(ttsIn', n) /\ Head(ttsIn) = n
    BY <1>1, <1>2, <2>1, TagsLess
  <2>3. PICK kinds \in {<<"audio", "stop">>, <<"stop">>} :
          out' = out \o [i \in DOMAIN kinds |-> [kind |-> kinds[i], turn |-> n]]
    BY <1>11, <2>2 DEF Speak
  <2>4. AllTagged(out', n)
    BY <1>1, <1>2, <2>3, SpeechJoins DEF n
  <2>5. QED
    BY <1>2, <2>1, <2>2, <2>4
<1>12. CASE EmitFiller
  <2>1. ttsIn' = Append(ttsIn, n) /\ UNCHANGED <<llmIn, llm, mid, out>>
    <3>1. llm.tool => llm.turn = n
      BY <1>2 DEF NoResponse
    <3>2. QED
      BY <1>12, <3>1 DEF EmitFiller, n
  <2>2. AllOf(ttsIn', n)
    BY <1>1, <1>2, <2>1, TagsMore DEF n
  <2>3. QED
    BY <1>2, <2>1, <2>2
<1>13. CASE EndSession
  BY <1>2, <1>13 DEF EndSession, downstream
<1>14. QED
  BY <1>3, <1>4, <1>5, <1>6, <1>7, <1>8, <1>9, <1>10, <1>11, <1>12, <1>13 DEF Downstream, Llm

\* A turn begins in a clean pipeline.
LEMMA TurnBegins ==
  ASSUME TurnTypeOK, OwnInv, HandleContext
  PROVE  KeysPast' /\ KeyOwnsFrames' /\ HeldIsOpen' /\ gateActive' \subseteq gateActive \cup {turn'.id}
         /\ turn.id \notin gateActive
<1>1. turn \in TurnStates /\ turn.id \in Nat /\ mid \in Seq(FramesOf({"text", "end"}))
  BY DEF TurnTypeOK, TurnStates
<1>2. /\ Receive("context") /\ wave = "none" /\ StartTurn /\ llmIn' = Append(llmIn, turn'.id)
      /\ UNCHANGED <<llm, mid, ttsIn, out>>
  BY DEF HandleContext
<1>3. Clean
  <2>1. 1 \in Due(inbox)
    BY <1>2, Received DEF Due
  <2>2. Ready(inbox, 0, Clean)
    BY <2>1 DEF OwnInv, FramesReady
  <2>3. QED
    BY <2>2 DEF Ready, InterruptLast
<1>4. /\ ~turn.active /\ llmIn = <<>> /\ llm = NoResponse /\ ttsIn = <<>> /\ out = <<>>
      /\ \A i \in 1..Len(mid) : mid[i].kind # "text"
  BY <1>2, <1>3 DEF Clean, Drained
<1>5. PICK t : /\ t = OpenIdentity(turn)
               /\ turn' = [t EXCEPT !.active = TRUE, !.firstLlm = FALSE,
                                    !.firstAudio = FALSE, !.responseFinished = FALSE,
                                    !.cancelled = FALSE, !.fillerSpoken = FALSE]
               /\ gateActive' = gateActive \cup {t.id}
  BY <1>2, <1>4 DEF StartTurn
<1>6. t \in TurnStates
  BY <1>1, <1>5, TurnMethods
<1>7. t.id \in {turn.id, turn.id + 1}
  BY <1>1, <1>5 DEF OpenIdentity, TurnStates
<1>8. turn'.id = t.id /\ t.id \in Nat
  BY <1>5, <1>6 DEF TurnStates
<1>9. KeysPast'
  <2>1. \A k \in gateActive : k <= turn.id /\ k \in Nat
    BY DEF OwnInv, KeysPast, TurnTypeOK
  <2>2. QED
    BY <1>1, <1>5, <1>7, <1>8, <2>1 DEF KeysPast
<1>10. OwnFrames(turn.id)'
  <2>1. AllOf(llmIn', turn'.id)
    BY <1>2, <1>4, <1>8 DEF AllOf
  <2>2. TextTagged(mid', turn'.id)
    BY <1>2, <1>4 DEF TextTagged
  <2>3. QED
    BY <1>2, <1>4, <2>1, <2>2, NoTags DEF OwnFrames
<1>11. turn'.identityOpen
  BY <1>1, <1>5, <1>6 DEF OpenIdentity, TurnStates
<1>12. QED
  BY <1>3, <1>5, <1>8, <1>9, <1>10, <1>11 DEF KeyOwnsFrames, HeldIsOpen, Clean

\* A key that is held keeps its turn's identity open.
LEMMA HeldStaysOpen ==
  ASSUME TurnTypeOK, Elsewhere, turn.identityOpen,
         turn'.id \in gateActive', turn'.id = turn.id
  PROVE  turn'.identityOpen
<1>1. turn \in TurnStates /\ turn.id \in Nat
  BY DEF TurnTypeOK, TurnStates
<1>2. CASE User
  BY <1>1, <1>2 DEF User, StartSpeaking, StopSpeaking, TypeText, FinalFragment, OpenIdentity
<1>3. CASE HandleStarted
  BY <1>1, <1>3 DEF HandleStarted, MarkUserStarted, TurnStates
<1>4. CASE HandleStopped
  <2>1. PICK t : t = IF ~turn.speechOpen /\ ~turn.active THEN MarkUserStarted(turn) ELSE turn
    OBVIOUS
  <2>2. t \in TurnStates /\ t.identityOpen
    <3>1. CASE t = turn
      BY <1>1, <3>1
    <3>2. CASE t = MarkUserStarted(turn) /\ ~turn.speechOpen
      <4>1. t \in TurnStates
        BY <1>1, <3>2, TurnMethods
      <4>2. t.identityOpen
        BY <1>1, <3>2 DEF MarkUserStarted, TurnStates
      <4>3. QED
        BY <4>1, <4>2
    <3>3. QED
      BY <2>1, <3>1, <3>2
  <2>3. turn' = [t EXCEPT !.speechOpen = FALSE]
    BY <1>4, <2>1 DEF HandleStopped, MarkUserStopped
  <2>4. QED
    BY <2>2, <2>3 DEF TurnStates
<1>5. CASE HandleInterrupt \/ StoppedSeen
  BY <1>5 DEF HandleInterrupt, StoppedSeen, FinishTurn, GateEnd
<1>6. CASE ResponseEndSeen
  BY <1>1, <1>6 DEF ResponseEndSeen, FinishResponse, GateEnd, TurnStates
<1>7. CASE AudioSeen
  BY <1>1, <1>7 DEF AudioSeen, GateEnd, TurnStates
<1>8. CASE FlushLlm \/ FlushTts \/ LlmTextSeen \/ Llm \/ Speak \/ EmitFiller \/ EndSession
  BY <1>1, <1>8 DEF FlushLlm, FlushTts, LlmTextSeen, Llm, LlmBegin, LlmText, LlmEnd, Speak,
     EmitFiller, EndSession, TurnStates
<1>9. QED
  BY <1>2, <1>3, <1>4, <1>5, <1>6, <1>7, <1>8 DEF Elsewhere, Downstream

LEMMA OwnStep ==
  ASSUME TurnTypeOK, OwnInv, [TurnNext]_turnVars, TurnGateAssumption
  PROVE  OwnInv'
<1>1. turn \in TurnStates /\ turn.id \in Nat /\ gateActive \subseteq Nat
  BY DEF TurnTypeOK, TurnStates
<1>2. CASE UNCHANGED turnVars
  BY <1>2 DEF turnVars, OwnInv, FramesReady, SpeechReady, KeysPast, KeyOwnsFrames, OwnFrames,
     HeldIsOpen, Clean, Drained
<1>3. CASE TurnNext
  <2>1. FramesReady' /\ SpeechReady'
    <3>1. CASE StartSpeaking \/ StopSpeaking \/ TypeText
      <4>1. Clean' = Clean
        BY <3>1 DEF StartSpeaking, StopSpeaking, TypeText, downstream, Clean, Drained
      <4>2. QED
        BY <3>1, <4>1, UserReady DEF OwnInv
    <3>2. CASE HandleStarted
      BY <3>2, CleanKept, ReceiveReady DEF HandleStarted, OwnInv
    <3>3. CASE HandleStopped
      BY <3>3, CleanKept, ReceiveReady DEF HandleStopped, OwnInv
    <3>4. CASE HandleInterrupt
      <4>1. Clean'
        BY <1>1, <3>4 DEF HandleInterrupt, FinishTurn, GateEnd, Closed, Clean, Drained, TurnStates
      <4>2. QED
        BY <3>4, <4>1, ReceiveReady DEF HandleInterrupt, OwnInv
    <3>5. CASE HandleContext
      BY <3>5, ReceiveReady DEF HandleContext, OwnInv
    <3>6. CASE FinalFragment \/ Downstream
      <4>1. Clean => Clean'
        BY <3>6, CleanKept DEF OwnInv
      <4>2. inbox' = inbox /\ speaking' = speaking
        BY <3>6 DEF FinalFragment, Downstream, FlushLlm, FlushTts, LlmTextSeen, ResponseEndSeen,
           AudioSeen, StoppedSeen, Hear, Llm, LlmBegin, LlmText, LlmEnd, Speak, EmitFiller,
           EndSession
      <4>3. QED
        BY <4>1, <4>2 DEF OwnInv, FramesReady, SpeechReady, Ready
    <3>7. QED
      BY <1>3, <3>1, <3>2, <3>3, <3>4, <3>5, <3>6 DEF TurnNext, User, Pipeline, Downstream
  <2>2. KeysPast' /\ KeyOwnsFrames' /\ HeldIsOpen'
    <3>1. CASE HandleContext
      BY <3>1, TurnBegins
    <3>2. CASE Elsewhere
      <4>1. /\ turn'.id = turn.id \/ turn'.id > turn.id
            /\ gateActive' \subseteq gateActive
            /\ Downstream => turn'.id = turn.id
            /\ ~Downstream => UNCHANGED <<llmIn, llm, mid, ttsIn, out>>
        BY <3>2, TurnGrows
      <4>2. turn'.id \in Nat
        BY <1>3, TurnTyped DEF TurnStates
      <4>3. \A k \in gateActive : k \in Nat /\ k <= turn.id
        BY <1>1 DEF OwnInv, KeysPast
      <4>4. KeysPast'
        BY <1>1, <4>1, <4>2, <4>3 DEF KeysPast
      <4>5. ASSUME turn'.id \in gateActive'
            PROVE  OwnFrames(turn.id)'
        <5>1. turn'.id = turn.id /\ OwnFrames(turn.id)
          BY <1>1, <4>1, <4>2, <4>3, <4>5 DEF OwnInv, KeyOwnsFrames
        <5>2. CASE Downstream
          BY <5>1, <5>2, OwnKept
        <5>3. CASE ~Downstream
          BY <4>1, <5>1, <5>3 DEF OwnFrames
        <5>4. QED
          BY <5>2, <5>3
      <4>6. HeldIsOpen'
        <5>1. turn'.id \in gateActive' => turn'.id = turn.id /\ turn.id \in gateActive
          BY <1>1, <4>1, <4>2, <4>3
        <5>2. QED
          BY <3>2, <5>1, HeldStaysOpen DEF OwnInv, HeldIsOpen
      <4>7. QED
        BY <4>4, <4>5, <4>6 DEF KeyOwnsFrames
    <3>3. QED
      BY <1>3, <3>1, <3>2 DEF TurnNext, User, Pipeline, Elsewhere, Downstream
  <2>3. QED
    BY <2>1, <2>2 DEF OwnInv
<1>4. QED
  BY <1>2, <1>3

\* A speech that ends or begins to be heard releases at most its own turn's key.
LEMMA SpeechReleases ==
  ASSUME TurnTypeOK, OwnInv, [TurnNext]_turnVars,
         out # <<>>, out' = Tail(out), wave' = wave
  PROVE  gateActive \ gateActive' \subseteq {Head(out).turn}
<1>1. out \in Seq(FramesOf({"audio", "stop"})) /\ out' # out
  <2>1. out \in Seq(FramesOf({"audio", "stop"}))
    BY DEF TurnTypeOK
  <2>2. \A s \in Seq(FramesOf({"audio", "stop"})) : s # <<>> => Tail(s) # s
    <3>1. SUFFICES ASSUME NEW s \in Seq(FramesOf({"audio", "stop"})), s # <<>>
                   PROVE  Tail(s) # s
      OBVIOUS
    <3>2. PICK r : r = Tail(s)
      OBVIOUS
    <3>3. Len(r) # Len(s)
      BY <3>1, <3>2
    <3>4. QED
      BY <3>2, <3>3
  <2>3. QED
    BY <2>1, <2>2
<1>2. \/ AudioSeen \/ StoppedSeen \/ UNCHANGED gateActive
  BY <1>1 DEF TurnNext, turnVars, User, StartSpeaking, StopSpeaking, TypeText, FinalFragment,
     Pipeline, HandleStarted, HandleStopped, HandleInterrupt, HandleContext, downstream,
     FlushLlm, FlushTts, LlmTextSeen, ResponseEndSeen, Llm, LlmBegin, LlmText, LlmEnd, Speak,
     EmitFiller, EndSession
<1>3. gateActive \ gateActive' \subseteq {turn.id}
  BY <1>2 DEF AudioSeen, StoppedSeen, FinishTurn, GateEnd
<1>4. turn.id \in gateActive => Head(out).turn = turn.id
  <2>1. turn.id \in gateActive => AllTagged(out, turn.id)
    BY DEF OwnInv, KeyOwnsFrames, OwnFrames
  <2>2. QED
    BY <1>1, <2>1, TagsLess
<1>5. QED
  BY <1>3, <1>4

\* The tts boundary lets go of no turn's key but that of the speech it hears, in either order
\* of announcement (processors.py:340-383).
THEOREM SpeechReleasesItsOwn == ASSUME TurnGateAssumption PROVE TurnSpec => OwnSpeechReleases
<1>1. TurnInit => OwnInv
  BY NoTags DEF TurnInit, GateInit, OwnInv, FramesReady, SpeechReady, KeysPast, KeyOwnsFrames,
     HeldIsOpen, Due
<1>2. TurnTypeOK /\ OwnInv /\ [TurnNext]_turnVars => OwnInv'
  BY OwnStep, TurnGateAssumption
<1>3. TurnTypeOK /\ OwnInv /\ [TurnNext]_turnVars =>
        [(out # <<>> /\ out' = Tail(out) /\ wave' = wave) =>
           gateActive \ gateActive' \subseteq {Head(out).turn}]_turnVars
  BY SpeechReleases
<1>4. TurnSpec => []TurnTypeOK
  BY TurnTypeCorrect, TurnGateAssumption
<1>5. QED
  BY <1>1, <1>2, <1>3, <1>4, PTL DEF TurnSpec, OwnSpeechReleases

-----------------------------------------------------------------------------
(* What a session leaves in the gate *)

\* Whoever renames the turn finds its key free, unless the announcement overtakes its
\* interruption.
LEMMA RenamedFree ==
  ASSUME TurnTypeOK, OwnInv, Elsewhere, turn'.id # turn.id, turn.id \in gateActive
  PROVE  Overtaking
<1>1. turn \in TurnStates /\ turn.identityOpen
  BY DEF TurnTypeOK, OwnInv, HeldIsOpen
<1>2. ~Downstream
  BY TurnGrows
<1>3. ~(StartSpeaking \/ StopSpeaking \/ TypeText \/ FinalFragment)
  BY <1>1 DEF StartSpeaking, StopSpeaking, TypeText, FinalFragment
<1>4. ~HandleInterrupt
  BY <1>1 DEF HandleInterrupt, FinishTurn, Closed, TurnStates
<1>5. PICK frame \in {"started", "stopped"} : Receive(frame)
  BY <1>2, <1>3, <1>4 DEF Elsewhere, User, HandleStarted, HandleStopped
<1>6. inbox[1] = frame /\ Len(inbox) \in Nat \ {0}
  BY <1>5, Received
<1>7. 1 \notin Due(inbox)
  <2>1. SUFFICES ASSUME 1 \in Due(inbox) PROVE FALSE
    OBVIOUS
  <2>2. Ready(inbox, 0, Clean)
    BY <2>1 DEF OwnInv, FramesReady
  <2>3. Clean
    BY <2>2 DEF Ready, InterruptLast
  <2>4. QED
    BY <2>3 DEF Clean
<1>8. QED
  BY <1>6, <1>7 DEF Due, Overtaking

LEMMA NothingMore ==
  ASSUME TurnTypeOK, OwnInv, [TurnNext]_turnVars, ~Overtaking
  PROVE  LeftBehind' \subseteq LeftBehind
<1>1. CASE UNCHANGED turnVars
  BY <1>1 DEF turnVars, LeftBehind
<1>2. CASE HandleContext
  <2>1. gateActive' \subseteq gateActive \cup {turn'.id} /\ turn.id \notin gateActive
    BY <1>2, TurnBegins
  <2>2. ~ended'
    BY <1>2 DEF HandleContext, Receive
  <2>3. QED
    BY <2>1, <2>2 DEF LeftBehind
<1>3. CASE Elsewhere /\ ~HandleContext
  <2>1. ~ended
    BY <1>3 DEF Elsewhere, Downstream, User, StartSpeaking, StopSpeaking, TypeText, FinalFragment,
       HandleStarted, HandleStopped, HandleInterrupt, Receive, FlushLlm, FlushTts, LlmTextSeen,
       ResponseEndSeen, AudioSeen, StoppedSeen, Hear, Llm, LlmBegin, LlmText, LlmEnd, Speak,
       EmitFiller, EndSession
  <2>2. gateActive' \subseteq gateActive
    BY <1>3, TurnGrows
  <2>3. turn'.id # turn.id => turn.id \notin gateActive
    BY <1>3, RenamedFree
  <2>4. CASE EndSession
    BY <2>1, <2>4 DEF EndSession, GateEnd, LeftBehind
  <2>5. CASE ~EndSession
    <3>1. ended' = ended
      BY <1>3, <2>5 DEF Elsewhere, Downstream, User, StartSpeaking, StopSpeaking, TypeText,
         FinalFragment, HandleStarted, HandleStopped, HandleInterrupt, FlushLlm, FlushTts,
         LlmTextSeen, ResponseEndSeen, AudioSeen, StoppedSeen, Hear, Llm, LlmBegin, LlmText,
         LlmEnd, Speak, EmitFiller
    <3>2. QED
      BY <2>1, <2>2, <2>3, <3>1 DEF LeftBehind
  <2>6. QED
    BY <2>4, <2>5
<1>4. QED
  BY <1>1, <1>2, <1>3 DEF TurnNext, User, Pipeline, Elsewhere, Downstream

\* In either order of announcement, for any number of turns and frames: no turn that is
\* replaced and no session that ends leaves its key in the gate, but for the turn whose
\* successor is announced before it is interrupted (processors.py:112-121, 214-232,
\* main.py:350-351).
THEOREM OvertakingAloneStrands ==
  ASSUME TurnGateAssumption PROVE TurnSpec => OnlyOvertakingStrands
<1>1. TurnInit => OwnInv
  BY NoTags DEF TurnInit, GateInit, OwnInv, FramesReady, SpeechReady, KeysPast, KeyOwnsFrames,
     HeldIsOpen, Due
<1>2. TurnTypeOK /\ OwnInv /\ [TurnNext]_turnVars => OwnInv'
  BY OwnStep, TurnGateAssumption
<1>3. TurnTypeOK /\ OwnInv /\ [TurnNext]_turnVars =>
        [LeftBehind' \subseteq LeftBehind \/ Overtaking]_turnVars
  BY NothingMore
<1>4. TurnSpec => []TurnTypeOK
  BY TurnTypeCorrect, TurnGateAssumption
<1>5. QED
  BY <1>1, <1>2, <1>3, <1>4, PTL DEF TurnSpec, OnlyOvertakingStrands

-----------------------------------------------------------------------------
(***************************************************************************)
(* What AnsweredTurnReleases needs besides fairness: as long as an answered  *)
(* turn holds the gate, speech whose end gives it back is still to come.     *)
(***************************************************************************)
SpeechComes == ttsIn # <<>> \/ \E i \in 1..Len(out) : out[i].kind = "stop"

HeldUnheard == turn.id \in gateActive => ~turn.firstAudio /\ wave = "none"

AnsweredSpeaks == turn.id \in gateActive /\ turn.firstLlm => SpeechComes

AnswerInv == HeldUnheard /\ AnsweredSpeaks

\* Hearing what is not the end of a speech leaves the end to come.
LEMMA EndRemains ==
  ASSUME NEW s \in Seq(FramesOf({"audio", "stop"})), s # <<>>, s[1].kind # "stop",
         NEW i \in 1..Len(s), s[i].kind = "stop"
  PROVE  \E j \in 1..Len(Tail(s)) : Tail(s)[j].kind = "stop"
<1>1. PICK r : r = Tail(s)
  OBVIOUS
<1>2. /\ Len(s) \in Nat \ {0} /\ Len(r) = Len(s) - 1
      /\ \A j \in 1..Len(r) : r[j] = s[j + 1]
  BY <1>1, HeadTailProperties, EmptySeq, LenProperties
<1>3. i # 1
  OBVIOUS
<1>4. i - 1 \in 1..Len(r) /\ r[i - 1] = s[i]
  BY <1>2, <1>3
<1>5. QED
  BY <1>1, <1>4

\* Every speech ends, be it heard or not.
LEMMA SpeechEnds ==
  ASSUME NEW s \in Seq(FramesOf({"audio", "stop"})), NEW n \in Nat,
         NEW kinds \in {<<"audio", "stop">>, <<"stop">>}, NEW q,
         q = s \o [i \in DOMAIN kinds |-> [kind |-> kinds[i], turn |-> n]]
  PROVE  \E i \in 1..Len(q) : q[i].kind = "stop"
<1>1. PICK t : t = [i \in DOMAIN kinds |-> [kind |-> kinds[i], turn |-> n]]
  OBVIOUS
<1>2. /\ t \in Seq(FramesOf({"audio", "stop"})) /\ Len(t) \in Nat \ {0}
      /\ t[Len(t)].kind = "stop"
  <2>1. CASE kinds = <<"audio", "stop">>
    BY <1>1, <2>1 DEF FramesOf
  <2>2. CASE kinds = <<"stop">>
    BY <1>1, <2>2 DEF FramesOf
  <2>3. QED
    BY <2>1, <2>2
<1>3. q = s \o t /\ Len(s) \in Nat
  BY <1>1
<1>4. PICK r : r = s \o t
  OBVIOUS
<1>5. Len(r) = Len(s) + Len(t) /\ r[Len(s) + Len(t)] = t[Len(t)]
  BY <1>2, <1>3, <1>4, ConcatProperties
<1>6. Len(s) + Len(t) \in 1..Len(r)
  BY <1>2, <1>3, <1>5
<1>7. QED
  BY <1>2, <1>3, <1>4, <1>5, <1>6

\* What comes before the LLM leaves an answered turn's speech alone.
LEMMA AnswerWaits ==
  ASSUME TurnTypeOK, AnswerInv, TurnNext, ~HandleContext, ~Downstream,
         turn'.id \in gateActive', turn'.id = turn.id, turn.id \in gateActive
  PROVE  /\ UNCHANGED <<ttsIn, out, wave>>
         /\ turn'.firstAudio = turn.firstAudio /\ turn'.firstLlm = turn.firstLlm
<1>1. turn \in TurnStates
  BY DEF TurnTypeOK
<1>2. CASE StartSpeaking \/ StopSpeaking \/ TypeText
  BY <1>2 DEF StartSpeaking, StopSpeaking, TypeText, downstream
<1>3. CASE FinalFragment
  BY <1>1, <1>3 DEF FinalFragment, OpenIdentity, TurnStates, downstream
<1>4. CASE HandleStarted
  BY <1>1, <1>4 DEF HandleStarted, MarkUserStarted, TurnStates, downstream
<1>5. CASE HandleStopped
  <2>1. PICK t : t = IF ~turn.speechOpen /\ ~turn.active THEN MarkUserStarted(turn) ELSE turn
    OBVIOUS
  <2>2. t \in TurnStates /\ t.firstAudio = turn.firstAudio /\ t.firstLlm = turn.firstLlm
    BY <1>1, <2>1, TurnMethods DEF MarkUserStarted, TurnStates
  <2>3. turn' = [t EXCEPT !.speechOpen = FALSE] /\ UNCHANGED downstream
    BY <1>5, <2>1 DEF HandleStopped, MarkUserStopped
  <2>4. QED
    BY <2>2, <2>3 DEF TurnStates, downstream
<1>6. CASE HandleInterrupt
  BY <1>6 DEF HandleInterrupt, FinishTurn, GateEnd
<1>7. QED
  BY <1>2, <1>3, <1>4, <1>5, <1>6 DEF TurnNext, User, Pipeline, Downstream

\* What comes after it ends the speech only with the gate given back.
LEMMA AnswerSpoken ==
  ASSUME TurnTypeOK, AnswerInv, Downstream,
         turn'.id \in gateActive', turn'.id = turn.id, turn.id \in gateActive
  PROVE  AnswerInv'
<1>1. /\ turn \in TurnStates /\ out \in Seq(FramesOf({"audio", "stop"}))
      /\ ttsIn \in Seq(Nat) /\ mid \in Seq(FramesOf({"text", "end"}))
  BY DEF TurnTypeOK
<1>2. ~turn.firstAudio /\ wave = "none" /\ (turn.firstLlm => SpeechComes)
  BY DEF AnswerInv, HeldUnheard, AnsweredSpeaks
<1>3. CASE FlushLlm \/ FlushTts
  BY <1>2, <1>3 DEF FlushLlm, FlushTts
<1>4. CASE LlmTextSeen
  <2>1. ttsIn' = Append(ttsIn, Head(mid).turn) /\ wave' = wave
        /\ turn' = [turn EXCEPT !.firstLlm = TRUE]
    BY <1>4 DEF LlmTextSeen
  <2>2. ttsIn' # <<>>
    <3>1. Head(mid) \in FramesOf({"text", "end"})
      BY <1>1, <1>4 DEF LlmTextSeen
    <3>2. Head(mid).turn \in Nat
      BY <3>1 DEF FramesOf
    <3>3. QED
      BY SMTT(30), <1>1, <2>1, <3>2
  <2>3. ~turn'.firstAudio
    BY <1>1, <1>2, <2>1 DEF TurnStates
  <2>4. QED
    BY <1>2, <2>1, <2>2, <2>3 DEF AnswerInv, HeldUnheard, AnsweredSpeaks, SpeechComes
<1>5. CASE ResponseEndSeen
  <2>1. UNCHANGED <<ttsIn, out, wave>>
    BY <1>5 DEF ResponseEndSeen
  <2>2. turn'.firstAudio = turn.firstAudio /\ turn'.firstLlm = turn.firstLlm
    BY <1>1, <1>5 DEF ResponseEndSeen, FinishResponse, TurnStates
  <2>3. QED
    BY <1>2, <2>1, <2>2 DEF AnswerInv, HeldUnheard, AnsweredSpeaks, SpeechComes
<1>6. CASE AudioSeen
  <2>1. out # <<>> /\ Head(out).kind = "audio" /\ out' = Tail(out) /\ UNCHANGED <<ttsIn, wave>>
    BY <1>6 DEF AudioSeen, Hear
  <2>2. UNCHANGED turn
    BY <1>6 DEF AudioSeen, GateEnd
  <2>3. out[1].kind # "stop"
    BY <1>1, <2>1
  <2>4. SpeechComes => SpeechComes'
    BY <1>1, <2>1, <2>3, EndRemains DEF SpeechComes
  <2>5. QED
    BY <1>2, <2>1, <2>2, <2>4 DEF AnswerInv, HeldUnheard, AnsweredSpeaks
<1>7. CASE StoppedSeen
  <2>1. UNCHANGED <<turn, wave>> /\ ~turn.firstLlm
    BY <1>2, <1>7 DEF StoppedSeen, Hear, FinishTurn, GateEnd
  <2>2. QED
    BY <1>2, <2>1 DEF AnswerInv, HeldUnheard, AnsweredSpeaks
<1>8. CASE Llm
  <2>1. UNCHANGED <<turn, ttsIn, out, wave>>
    BY <1>8 DEF Llm, LlmBegin, LlmText, LlmEnd
  <2>2. QED
    BY <1>2, <2>1 DEF AnswerInv, HeldUnheard, AnsweredSpeaks, SpeechComes
<1>9. CASE Speak
  <2>1. PICK kinds \in {<<"audio", "stop">>, <<"stop">>} :
          out' = out \o [i \in DOMAIN kinds |-> [kind |-> kinds[i], turn |-> Head(ttsIn)]]
    BY <1>9 DEF Speak
  <2>2. Head(ttsIn) \in Nat /\ UNCHANGED <<turn, wave>>
    BY <1>1, <1>9 DEF Speak
  <2>3. \E i \in 1..Len(out') : out'[i].kind = "stop"
    BY ZenonT(30), <1>1, <2>1, <2>2, SpeechEnds
  <2>4. QED
    BY <1>2, <2>2, <2>3 DEF AnswerInv, HeldUnheard, AnsweredSpeaks, SpeechComes
<1>10. CASE EmitFiller
  <2>1. PICK n \in {turn.id, llm.turn} :
          /\ ttsIn' = Append(ttsIn, n) /\ wave' = wave
          /\ turn' = [turn EXCEPT !.fillerSpoken = TRUE]
    BY <1>10 DEF EmitFiller
  <2>2. ttsIn' # <<>>
    <3>1. n \in Nat
      BY <1>1 DEF TurnTypeOK, TurnStates
    <3>2. QED
      BY <1>1, <2>1, <3>1
  <2>3. ~turn'.firstAudio
    BY <1>1, <1>2, <2>1 DEF TurnStates
  <2>4. QED
    BY <1>2, <2>1, <2>2, <2>3 DEF AnswerInv, HeldUnheard, AnsweredSpeaks, SpeechComes
<1>11. CASE EndSession
  BY <1>11 DEF EndSession, GateEnd
<1>12. QED
  BY <1>3, <1>4, <1>5, <1>6, <1>7, <1>8, <1>9, <1>10, <1>11 DEF Downstream

LEMMA AnswerStep ==
  ASSUME TurnTypeOK, OwnInv, AnswerInv, [TurnNext]_turnVars
  PROVE  AnswerInv'
<1>1. CASE UNCHANGED turnVars
  BY <1>1 DEF turnVars, AnswerInv, HeldUnheard, AnsweredSpeaks, SpeechComes
<1>2. CASE HandleContext
  <2>1. StartTurn /\ wave = "none" /\ UNCHANGED <<ttsIn, out, wave>>
    BY <1>2 DEF HandleContext
  <2>2. CASE UNCHANGED <<turn, gateActive>>
    BY <2>1, <2>2 DEF AnswerInv, HeldUnheard, AnsweredSpeaks, SpeechComes
  <2>3. CASE ~UNCHANGED <<turn, gateActive>>
    <3>1. PICK u : u = IF turn.active THEN Closed(turn) ELSE turn
      OBVIOUS
    <3>2. PICK t : t = OpenIdentity(u)
      OBVIOUS
    <3>3. t \in TurnStates
      BY <3>1, <3>2, TurnMethods DEF TurnTypeOK
    <3>4. turn' = [t EXCEPT !.active = TRUE, !.firstLlm = FALSE,
                            !.firstAudio = FALSE, !.responseFinished = FALSE,
                            !.cancelled = FALSE, !.fillerSpoken = FALSE]
      BY <2>1, <2>3, <3>1, <3>2 DEF StartTurn
    <3>5. ~turn'.firstLlm /\ ~turn'.firstAudio
      BY <3>3, <3>4 DEF TurnStates
    <3>6. QED
      BY <2>1, <3>5 DEF AnswerInv, HeldUnheard, AnsweredSpeaks
  <2>4. QED
    BY <2>2, <2>3
<1>3. CASE TurnNext /\ ~HandleContext
  <2>1. SUFFICES ASSUME turn'.id \in gateActive' PROVE AnswerInv'
    BY DEF AnswerInv, HeldUnheard, AnsweredSpeaks
  <2>2. turn'.id = turn.id /\ turn.id \in gateActive
    <3>1. /\ turn'.id = turn.id \/ turn'.id > turn.id
          /\ gateActive' \subseteq gateActive
      <4>1. Elsewhere
        BY <1>3 DEF TurnNext, User, Pipeline, Elsewhere, Downstream
      <4>2. QED
        BY <4>1, TurnGrows
    <3>2. turn'.id <= turn.id /\ turn'.id \in gateActive
      BY <2>1, <3>1 DEF OwnInv, KeysPast
    <3>3. turn'.id \in Nat /\ turn.id \in Nat
      BY <3>2 DEF TurnTypeOK, TurnStates
    <3>4. QED
      BY <3>1, <3>2, <3>3
  <2>3. CASE Downstream
    BY <2>1, <2>2, <2>3, AnswerSpoken
  <2>4. CASE ~Downstream
    BY <1>3, <2>1, <2>2, <2>4, AnswerWaits
       DEF AnswerInv, HeldUnheard, AnsweredSpeaks, SpeechComes
  <2>5. QED
    BY <2>3, <2>4
<1>4. QED
  BY <1>1, <1>2, <1>3

\* Nothing strands the gate behind an answer: while a turn whose answer has begun holds its
\* key, it has not been heard, and a speech is with the TTS or the end of one is on its
\* way to the tts boundary, in either order of announcement (processors.py:320-383).
THEOREM AnswerKeepsSpeaking ==
  ASSUME TurnGateAssumption
  PROVE  TurnSpec => [](turn.firstLlm /\ turn.id \in gateActive =>
                          /\ ~turn.firstAudio
                          /\ ttsIn # <<>> \/ \E i \in 1..Len(out) : out[i].kind = "stop")
<1>1. TurnInit => OwnInv
  BY NoTags DEF TurnInit, GateInit, OwnInv, FramesReady, SpeechReady, KeysPast, KeyOwnsFrames,
     HeldIsOpen, Due
<1>2. TurnInit => AnswerInv
  BY DEF TurnInit, GateInit, AnswerInv, HeldUnheard, AnsweredSpeaks
<1>3. TurnTypeOK /\ OwnInv /\ [TurnNext]_turnVars => OwnInv'
  BY OwnStep, TurnGateAssumption
<1>4. TurnTypeOK /\ OwnInv /\ AnswerInv /\ [TurnNext]_turnVars => AnswerInv'
  BY AnswerStep
<1>5. AnswerInv => (turn.firstLlm /\ turn.id \in gateActive =>
                      /\ ~turn.firstAudio
                      /\ ttsIn # <<>> \/ \E i \in 1..Len(out) : out[i].kind = "stop")
  BY DEF AnswerInv, HeldUnheard, AnsweredSpeaks, SpeechComes
<1>6. TurnSpec => []TurnTypeOK
  BY TurnTypeCorrect, TurnGateAssumption
<1>7. QED
  BY <1>1, <1>2, <1>3, <1>4, <1>5, <1>6, PTL DEF TurnSpec
=============================================================================
