--------------------------- MODULE VoiceStagesProofs ---------------------------
(***************************************************************************)
(* Proofs about the parts of a voice session that share no state with each   *)
(* other, one section for each, and about the session that they make up.     *)
(***************************************************************************)
EXTENDS MCVoiceStages, TurnGateProofs,
        SubsequencesProofs, FiniteSetTheorems, TLAPS

(***************************************************************************)
(* SilenceTrimmer: it delivers each speech from exactly the preroll before    *)
(* its first audible sample, however it is cut into frames.                  *)
(***************************************************************************)

\* Until a speech is audible the buffer holds its last preroll bytes, or all of
\* it, and the audible contexts are those whose speech has begun to be heard.
BufferIsTail ==
  \A c \in Contexts :
    /\ c \in audible <=> loud[c] # -1
    /\ loud[c] = -1 =>
         buffer[c] = IF arrived[c] > preroll THEN preroll ELSE arrived[c]

TrimInv == TrimTypeOK /\ BufferIsTail /\ PrerollExact

\* The invariant for one context.
Exact(c) ==
  /\ c \in audible <=> loud[c] # -1
  /\ loud[c] = -1 =>
       /\ buffer[c] = IF arrived[c] > preroll THEN preroll ELSE arrived[c]
       /\ delivered[c] = -1
  /\ loud[c] # -1 =>
       delivered[c] = IF loud[c] > preroll THEN loud[c] - preroll ELSE 0

LEMMA InvPerContext ==
  (BufferIsTail /\ PrerollExact) <=> \A c \in Contexts : Exact(c)
BY DEF BufferIsTail, PrerollExact, Exact

\* A new speech has nothing, and nothing is what it needs.
LEMMA ResetExact ==
  ASSUME TrimTypeOK, NEW c \in Contexts, Reset(c), Forget(c), UNCHANGED preroll
  PROVE  Exact(c)' /\ \A d \in Contexts \ {c} : Exact(d) => Exact(d)'
<1>1. /\ buffer'[c] = 0 /\ arrived'[c] = 0 /\ loud'[c] = -1 /\ delivered'[c] = -1
      /\ c \notin audible' /\ preroll' = preroll /\ preroll \in Nat
  BY TrimConstants DEF Reset, Forget, TrimTypeOK
<1>2. Exact(c)'
  BY <1>1 DEF Exact
<1>3. ASSUME NEW d \in Contexts \ {c}
      PROVE  /\ buffer'[d] = buffer[d] /\ arrived'[d] = arrived[d]
             /\ loud'[d] = loud[d] /\ delivered'[d] = delivered[d]
             /\ d \in audible' <=> d \in audible
  BY DEF Reset, Forget, TrimTypeOK
<1>4. \A d \in Contexts \ {c} : Exact(d) => Exact(d)'
  BY <1>1, <1>3 DEF Exact
<1> QED BY <1>2, <1>4

\* Sizes and offsets of the frames that come.
LEMMA FrameSizes ==
  ASSUME NEW f \in Frames
  PROVE  /\ Bytes(f) \in Nat
         /\ Audible(f) => FirstAudible(f) \in Nat
BY TrimConstants DEF Bytes, Audible, FirstAudible

\* A frame changes nothing of other contexts.
LEMMA OtherContexts ==
  ASSUME TrimTypeOK, NEW c \in Contexts, NEW f \in Frames,
         PassFrame(c, f) \/ HoldFrame(c, f) \/ FirstSpeech(c, f),
         NEW d \in Contexts \ {c}, Exact(d)
  PROVE  Exact(d)'
<1>1. /\ buffer'[d] = buffer[d] /\ arrived'[d] = arrived[d]
      /\ loud'[d] = loud[d] /\ delivered'[d] = delivered[d]
      /\ d \in audible' <=> d \in audible
      /\ preroll' = preroll
  BY DEF PassFrame, HoldFrame, FirstSpeech, Arrives, TrimTypeOK
<1> QED BY <1>1 DEF Exact

LEMMA FrameExact ==
  ASSUME TrimTypeOK, NEW c \in Contexts, NEW f \in Frames, Exact(c),
         PassFrame(c, f) \/ HoldFrame(c, f) \/ FirstSpeech(c, f)
  PROVE  Exact(c)' /\ TrimTypeOK'
<1>t. /\ preroll \in Nat /\ buffer[c] \in Nat /\ arrived[c] \in Nat
      /\ loud[c] \in Nat \cup {-1} /\ delivered[c] \in Nat \cup {-1}
      /\ Bytes(f) \in Nat
  BY TrimConstants, FrameSizes DEF TrimTypeOK
<1>a. /\ arrived' = [arrived EXCEPT ![c] = arrived[c] + Bytes(f)]
      /\ arrived'[c] = arrived[c] + Bytes(f)
      /\ open' = open \cup {c} /\ preroll' = preroll
  BY DEF PassFrame, HoldFrame, FirstSpeech, Arrives, TrimTypeOK
<1>1. CASE PassFrame(c, f)
  <2>1. loud[c] # -1 /\ delivered[c] # -1
    BY <1>1, <1>t DEF PassFrame, Exact
  <2>2. /\ buffer' = buffer /\ audible' = audible
        /\ delivered' = [delivered EXCEPT ![c] = delivered[c]]
        /\ loud' = [loud EXCEPT ![c] = loud[c]]
    BY <1>1, <2>1 DEF PassFrame
  <2>3. delivered' = delivered /\ loud' = loud
    BY <2>2 DEF TrimTypeOK
  <2>4. Exact(c)'
    BY <1>a, <2>1, <2>2, <2>3 DEF Exact
  <2>5. TrimTypeOK'
    BY <1>a, <1>t, <2>2, <2>3 DEF TrimTypeOK
  <2> QED BY <2>4, <2>5
<1>2. CASE HoldFrame(c, f)
  <2>1. loud[c] = -1 /\ delivered[c] = -1 /\ c \notin audible
    BY <1>2 DEF HoldFrame, Exact
  <2>2. /\ audible' = audible /\ loud' = loud /\ delivered' = delivered
        /\ buffer' = [buffer EXCEPT ![c] = Held(buffer[c] + Bytes(f))]
    BY <1>2 DEF HoldFrame
  <2>3. buffer'[c] = Held(buffer[c] + Bytes(f)) /\ buffer'[c] \in Nat
    BY <1>t, <2>2 DEF Held, TrimTypeOK
  <2>4. buffer'[c] = IF arrived'[c] > preroll THEN preroll ELSE arrived'[c]
    BY <1>t, <1>a, <2>1, <2>3 DEF Held, Exact
  <2>5. Exact(c)'
    BY <1>a, <2>1, <2>2, <2>4 DEF Exact
  <2>6. TrimTypeOK'
    BY <1>a, <1>t, <2>2, <2>3 DEF TrimTypeOK
  <2> QED BY <2>5, <2>6
<1>3. CASE FirstSpeech(c, f)
  <2> DEFINE o == FirstAudible(f)
  <2>1. c \notin audible /\ loud[c] = -1 /\ o \in Nat
    BY <1>3, FrameSizes DEF FirstSpeech, Exact
  <2>2. /\ delivered' = [delivered EXCEPT ![c] = DeliveredFrom(c, f)]
        /\ loud' = [loud EXCEPT ![c] = arrived[c] + o]
        /\ buffer' = [buffer EXCEPT ![c] = 0]
        /\ audible' = audible \cup {c}
    BY <1>3 DEF FirstSpeech
  <2>3. /\ delivered'[c] = DeliveredFrom(c, f) /\ loud'[c] = arrived[c] + o
        /\ c \in audible'
    BY <2>2 DEF TrimTypeOK
  <2>4. DeliveredFrom(c, f) = arrived[c] - buffer[c]
          + (IF buffer[c] + o > preroll THEN buffer[c] + o - preroll ELSE 0)
    BY <1>t, <2>1 DEF DeliveredFrom
  <2>5. buffer[c] = IF arrived[c] > preroll THEN preroll ELSE arrived[c]
    BY <2>1 DEF Exact
  <2> HIDE DEF o
  <2>6. DeliveredFrom(c, f) =
          IF arrived[c] + o > preroll THEN arrived[c] + o - preroll ELSE 0
    BY <1>t, <2>1, <2>4, <2>5
  <2>7. loud'[c] # -1 /\ loud'[c] \in Nat /\ delivered'[c] \in Nat
    BY <1>t, <2>1, <2>3, <2>6
  <2>8. delivered'[c] =
          IF loud'[c] > preroll' THEN loud'[c] - preroll' ELSE 0
    BY <1>t, <1>a, <2>1, <2>3, <2>6
  <2>8a. Exact(c)'
    BY <2>3, <2>7, <2>8 DEF Exact
  <2>9. TrimTypeOK'
    BY <1>a, <1>t, <2>2, <2>3, <2>7 DEF TrimTypeOK
  <2> QED BY <2>8a, <2>9
<1> QED BY <1>1, <1>2, <1>3

LEMMA ResetTypes ==
  ASSUME TrimTypeOK, NEW c \in Contexts, Reset(c), Forget(c), UNCHANGED preroll,
         open' \subseteq Contexts
  PROVE  TrimTypeOK'
BY DEF TrimTypeOK, Reset, Forget

LEMMA InvStarts == TrimInit => TrimInv
<1> SUFFICES ASSUME TrimInit PROVE TrimInv
  OBVIOUS
<1>1. preroll \in Nat
  BY TrimConstants DEF TrimInit
<1>2. TrimTypeOK
  BY DEF TrimInit, TrimTypeOK
<1>3. ASSUME NEW c \in Contexts
      PROVE  Exact(c)
  <2>1. /\ c \notin audible /\ loud[c] = -1 /\ delivered[c] = -1
        /\ buffer[c] = 0 /\ arrived[c] = 0
    BY DEF TrimInit
  <2> QED BY <1>1, <2>1 DEF Exact
<1> QED BY <1>2, <1>3, InvPerContext DEF TrimInv

LEMMA InvStep == TrimInv /\ [TrimNext]_trimVars => TrimInv'
<1> SUFFICES ASSUME TrimInv, [TrimNext]_trimVars PROVE TrimInv'
  OBVIOUS
<1>0. TrimTypeOK /\ \A c \in Contexts : Exact(c)
  BY InvPerContext DEF TrimInv
<1>i. ASSUME TrimTypeOK', \A c \in Contexts : Exact(c)'
      PROVE  TrimInv'
  BY <1>i DEF TrimInv, BufferIsTail, PrerollExact, Exact
<1>1. ASSUME NEW c \in Contexts, SpeechStarted(c) \/ SpeechStopped(c)
      PROVE  TrimInv'
  <2>1. /\ Reset(c) /\ Forget(c) /\ UNCHANGED preroll
        /\ open' \subseteq Contexts
    BY <1>0, <1>1 DEF SpeechStarted, SpeechStopped, TrimTypeOK
  <2>2. TrimTypeOK'
    BY <1>0, <2>1, ResetTypes
  <2>3. \A d \in Contexts : Exact(d)'
    BY <1>0, <2>1, ResetExact
  <2> QED BY <1>i, <2>2, <2>3
<1>2. ASSUME NEW c \in Contexts, NEW f \in Frames,
             PassFrame(c, f) \/ HoldFrame(c, f) \/ FirstSpeech(c, f)
      PROVE  TrimInv'
  <2>1. Exact(c)' /\ TrimTypeOK'
    BY <1>0, <1>2, FrameExact
  <2>2. \A d \in Contexts \ {c} : Exact(d)'
    BY <1>0, <1>2, OtherContexts
  <2> QED BY <1>i, <2>1, <2>2
<1>3. CASE Interrupted
  <2>1. TrimTypeOK' /\ preroll' \in Nat
    BY <1>0, <1>3, TrimConstants DEF Interrupted, TrimTypeOK
  <2>2. \A c \in Contexts : Exact(c)'
    BY <1>3, <2>1 DEF Interrupted, Exact
  <2> QED BY <1>i, <2>1, <2>2
<1>4. CASE UNCHANGED trimVars
  BY <1>0, <1>4, <1>i DEF trimVars, TrimTypeOK, Exact
<1> QED BY <1>1, <1>2, <1>3, <1>4 DEF TrimNext

\* Whatever the frames, the contexts and the preroll: a speech is delivered from
\* the preroll before its first audible sample.
THEOREM PrerollKept == TrimSpec => []PrerollExact
<1>1. TrimInv => PrerollExact
  BY DEF TrimInv
<1> QED BY <1>1, InvStarts, InvStep, PTL DEF TrimSpec

-----------------------------------------------------------------------------
(***************************************************************************)
(* RequestDeadline: a request keeps its deadlines and gives the context its  *)
(* tools back, for every pair of timeouts, whichever is the longer.          *)
(***************************************************************************)

\* While the stream is being created the wait is the creation's.
CreationWait ==
  /\ phase = "creating" => rejectedAt = -1
  /\ phase = "retrying" => provider = "groq" /\ rejectedAt # -1
  /\ phase \in {"creating", "retrying"} =>
       until = CreationLimit /\ now <= until /\ spokeAt = -1

\* The stream's wait ends by the first-output deadline as long as nothing was
\* heard, then by the total one; neither lies beyond what the properties allow.
StreamWait ==
  phase = "streaming" =>
    /\ spokeAt = -1 =>
         /\ until # -1 /\ until <= CreationLimit /\ now <= until
         /\ provider # "google" => until <= ends
    /\ spokeAt # -1 => until = ends
    /\ IF provider = "google" THEN ends = -1
       ELSE /\ ends # -1 /\ now <= ends
            /\ ends <= total \/ ends <= CreationLimit

LlmInv ==
  /\ LlmTypeOK /\ CreationWait /\ StreamWait
  /\ FirstOutputInTime /\ OverByTotal /\ ToolsRestored

LEMMA LlmStarts == LlmInit => LlmInv
BY TimeoutsOK
   DEF LlmInit, LlmInv, LlmTypeOK, CreationWait, StreamWait, FirstOutputInTime,
       OverByTotal, ToolsRestored, CreationLimit, Suspended, Outcomes

LEMMA LeftBounds ==
  ASSUME LlmTypeOK, NEW t \in Nat
  PROVE  /\ now + Left(t) \in Nat
         /\ now + Left(t) = t \/ now + Left(t) = now + 1
BY DEF LlmTypeOK, Left

LEMMA StreamStep ==
  ASSUME LlmInv, StreamCreated
  PROVE  LlmInv'
<1> DEFINE f == now + Left(first)
           t == now + Left(total)
<1>1. /\ first \in Nat /\ total \in Nat /\ now \in Nat
      /\ rejectedAt \in Nat \cup {-1}
  BY TimeoutsOK DEF LlmInv, LlmTypeOK
<1>2. /\ f \in Nat /\ t \in Nat
      /\ f = first \/ f = now + 1
      /\ t = total \/ t = now + 1
  BY <1>1, LeftBounds DEF LlmInv
<1>3. /\ phase' = "streaming" /\ toolsKept' = TRUE
      /\ ends' = IF provider = "google" THEN -1 ELSE t
      /\ until' = IF provider = "google" THEN f ELSE Sooner(f, t)
      /\ UNCHANGED <<provider, first, total, now, rejectedAt, spokeAt, outcome>>
  BY DEF StreamCreated, Stream
<1> HIDE DEF f, t
<1>4. /\ spokeAt = -1 /\ now < CreationLimit /\ first <= CreationLimit
      /\ CreationLimit \in Nat
  BY <1>1 DEF StreamCreated, InTime, LlmInv, CreationWait, CreationLimit
<1>5. CreationLimit' = CreationLimit
  BY <1>3 DEF CreationLimit
<1>6. f <= CreationLimit /\ (t <= total \/ t <= CreationLimit) /\ now <= f /\ now <= t
  <2>1. now < first \/ f = now + 1
    BY <1>1, <1>2, LeftBounds DEF f, Left
  <2>2. now < total \/ t = now + 1
    BY <1>1, <1>2 DEF t, Left
  <2> QED BY <1>1, <1>2, <1>4, <2>1, <2>2
<1>7. /\ Sooner(f, t) \in Nat /\ Sooner(f, t) <= f /\ Sooner(f, t) <= t
      /\ now <= Sooner(f, t)
  BY <1>1, <1>2, <1>6 DEF Sooner
<1>8. LlmTypeOK'
  <2>1. /\ until' \in Nat \cup {-1} /\ ends' \in Nat \cup {-1}
        /\ rejectedAt' \in Nat \cup {-1} /\ spokeAt' \in Nat \cup {-1}
    BY <1>1, <1>2, <1>3, <1>4, <1>7
  <2> QED BY <1>3, <2>1 DEF LlmInv, LlmTypeOK, Suspended
<1>9. CreationWait'
  BY <1>3 DEF CreationWait
<1>10. StreamWait'
  <2>1. CASE provider = "google"
    BY <1>1, <1>2, <1>3, <1>4, <1>5, <1>6, <2>1 DEF StreamWait
  <2>2. CASE provider # "google"
    <3>1. until' = Sooner(f, t) /\ ends' = t
      BY <1>3, <2>2
    <3> QED BY <1>1, <1>2, <1>3, <1>4, <1>5, <1>6, <1>7, <2>2, <3>1 DEF StreamWait
  <2> QED BY <2>1, <2>2
<1>11. (FirstOutputInTime /\ OverByTotal /\ ToolsRestored)'
  BY <1>3, <1>5 DEF LlmInv, FirstOutputInTime, OverByTotal, ToolsRestored
<1> QED BY <1>8, <1>9, <1>10, <1>11 DEF LlmInv

LEMMA RejectedStep ==
  ASSUME LlmInv, ToolRejected
  PROVE  LlmInv'
<1>1. /\ now \in Nat /\ first \in Nat /\ rejectedAt = -1 /\ spokeAt = -1
      /\ provider = "groq" /\ now <= first
  BY TimeoutsOK DEF LlmInv, LlmTypeOK, CreationWait, CreationLimit, ToolRejected
<1>2. /\ phase' = "retrying" /\ until' = now + first /\ rejectedAt' = now
      /\ toolsKept' = FALSE
      /\ UNCHANGED <<provider, first, total, now, ends, spokeAt, outcome>>
  BY DEF ToolRejected
<1>3. CreationLimit' = now + first
  BY <1>1, <1>2 DEF CreationLimit
<1>4. LlmTypeOK'
  <2>1. /\ until' \in Nat \cup {-1} /\ ends' \in Nat \cup {-1}
        /\ rejectedAt' \in Nat \cup {-1} /\ spokeAt' \in Nat \cup {-1}
    BY <1>1, <1>2 DEF LlmInv, LlmTypeOK
  <2> QED BY <1>2, <2>1 DEF LlmInv, LlmTypeOK, Suspended
<1>5. CreationWait' /\ StreamWait'
  BY <1>1, <1>2, <1>3 DEF CreationWait, StreamWait
<1>6. (FirstOutputInTime /\ OverByTotal /\ ToolsRestored)'
  BY <1>1, <1>2, <1>3 DEF FirstOutputInTime, OverByTotal, ToolsRestored
<1> QED BY <1>4, <1>5, <1>6 DEF LlmInv

\* Every way a request ends.
LEMMA OverStep ==
  ASSUME LlmInv, NEW how \in Outcomes, Over(how),
         UNCHANGED <<provider, first, total, now, ends, rejectedAt>>,
         spokeAt' = spokeAt \/ (spokeAt' = now /\ now <= CreationLimit)
  PROVE  LlmInv'
<1>1. phase' = "ended" /\ outcome' = how /\ until' = -1 /\ toolsKept' = TRUE
  BY DEF Over, End
<1>2. CreationLimit' = CreationLimit
  BY DEF CreationLimit
<1>3. LlmTypeOK'
  BY <1>1 DEF LlmInv, LlmTypeOK, Suspended, Outcomes
<1>4. CreationWait' /\ StreamWait' /\ ToolsRestored'
  BY <1>1 DEF CreationWait, StreamWait, ToolsRestored
<1>5. FirstOutputInTime' /\ OverByTotal'
  BY <1>2 DEF LlmInv, FirstOutputInTime, OverByTotal
<1> QED BY <1>3, <1>4, <1>5 DEF LlmInv

LEMMA OutputStep ==
  ASSUME LlmInv, Output
  PROVE  LlmInv'
<1>1. /\ until' = ends /\ spokeAt' = IF spokeAt = -1 THEN now ELSE spokeAt
      /\ UNCHANGED <<provider, first, total, now, phase, ends, rejectedAt, outcome,
                     toolsKept>>
      /\ phase = "streaming" /\ InTime
  BY DEF Output
<1>2. CreationLimit' = CreationLimit
  BY <1>1 DEF CreationLimit
<1>3. /\ now \in Nat /\ until \in Nat \cup {-1} /\ ends \in Nat \cup {-1}
      /\ spokeAt \in Nat \cup {-1} /\ rejectedAt \in Nat \cup {-1} /\ first \in Nat
  BY TimeoutsOK DEF LlmInv, LlmTypeOK
<1>4. LlmTypeOK'
  BY <1>1, <1>3 DEF LlmInv, LlmTypeOK
<1>5. CreationWait'
  BY <1>1 DEF CreationWait
<1>6. StreamWait'
  BY <1>1, <1>2, <1>3 DEF LlmInv, StreamWait, InTime
<1>7. CreationLimit \in Nat
  BY <1>3 DEF CreationLimit
<1>8. FirstOutputInTime'
  BY <1>1, <1>2, <1>3, <1>7 DEF LlmInv, StreamWait, FirstOutputInTime, InTime
<1>9. OverByTotal' /\ ToolsRestored'
  BY <1>1, <1>2 DEF LlmInv, OverByTotal, ToolsRestored
<1> QED BY <1>4, <1>5, <1>6, <1>8, <1>9 DEF LlmInv

LEMMA TickStep ==
  ASSUME LlmInv, Tick
  PROVE  LlmInv'
<1>1. /\ now' = now + 1 /\ InTime
      /\ UNCHANGED <<provider, first, total, phase, until, ends, rejectedAt, spokeAt,
                     outcome, toolsKept>>
      /\ phase \in {"creating", "retrying", "streaming"}
  BY DEF Tick, Suspended
<1>2. CreationLimit' = CreationLimit
  BY <1>1 DEF CreationLimit
<1>3. /\ now \in Nat /\ until \in Nat \cup {-1} /\ ends \in Nat \cup {-1}
      /\ spokeAt \in Nat \cup {-1} /\ rejectedAt \in Nat \cup {-1}
      /\ first \in Nat /\ total \in Nat /\ CreationLimit \in Nat
  BY TimeoutsOK DEF LlmInv, LlmTypeOK, CreationLimit
<1>4. LlmTypeOK'
  BY <1>1, <1>3 DEF LlmInv, LlmTypeOK
<1>5. CreationWait'
  BY <1>1, <1>2, <1>3 DEF LlmInv, CreationWait, InTime
<1>6. StreamWait'
  BY <1>1, <1>2, <1>3 DEF LlmInv, StreamWait, InTime
<1>7. OverByTotal'
  BY <1>1, <1>2, <1>3 DEF LlmInv, CreationWait, StreamWait, OverByTotal, InTime
<1>8. FirstOutputInTime' /\ ToolsRestored'
  BY <1>1, <1>2 DEF LlmInv, FirstOutputInTime, ToolsRestored
<1> QED BY <1>4, <1>5, <1>6, <1>7, <1>8 DEF LlmInv

LEMMA LlmStep == LlmInv /\ [LlmNext]_llmVars => LlmInv'
<1> SUFFICES ASSUME LlmInv, [LlmNext]_llmVars PROVE LlmInv'
  OBVIOUS
<1>1. CASE StreamCreated
  BY <1>1, StreamStep
<1>2. CASE ToolRejected
  BY <1>2, RejectedStep
<1>3. CASE ProviderFails
  BY <1>3, OverStep DEF ProviderFails, Outcomes
<1>4. CASE Cancelled
  BY <1>4, OverStep DEF Cancelled, Outcomes
<1>5. CASE Output
  BY <1>5, OutputStep
<1>6. CASE StreamEnds
  BY <1>6, OverStep DEF StreamEnds, Outcomes
<1>7. CASE DeadlinePasses
  <2> DEFINE how == IF provider = "google" THEN "recovered"
                    ELSE IF phase = "retrying" THEN "timeout" ELSE "deadline"
  <2>1. /\ Over(how) /\ how \in Outcomes
        /\ UNCHANGED <<provider, first, total, now, ends, rejectedAt>>
        /\ spokeAt' = IF provider = "google" THEN now ELSE spokeAt
    BY <1>7 DEF DeadlinePasses, Outcomes
  <2>2. provider = "google" => now <= CreationLimit
    <3>1. /\ now \in Nat /\ until \in Nat \cup {-1} /\ CreationLimit \in Nat
      BY TimeoutsOK DEF LlmInv, LlmTypeOK, CreationLimit
    <3> QED BY <1>7, <3>1
            DEF DeadlinePasses, Expired, Suspended, LlmInv, CreationWait, StreamWait
  <2> HIDE DEF how
  <2> QED BY <2>1, <2>2, OverStep
<1>8. CASE Tick
  BY <1>8, TickStep
<1>9. CASE UNCHANGED llmVars
  BY <1>9 DEF llmVars, LlmInv, LlmTypeOK, CreationWait, StreamWait, InTime,
              FirstOutputInTime, OverByTotal, ToolsRestored, CreationLimit
<1> QED BY <1>1, <1>2, <1>3, <1>4, <1>5, <1>6, <1>7, <1>8, <1>9 DEF LlmNext

\* The first output comes within the first-token timeout of the request or of its
\* retry, and no request under a total deadline outlives it and the limit of its
\* creation (stream_timeout.py:20-44).
THEOREM DeadlinesHold == LlmSpec => []DeadlinesKept
<1>1. LlmInv => DeadlinesKept
  BY DEF LlmInv, DeadlinesKept
<1> QED BY <1>1, LlmStarts, LlmStep, PTL DEF LlmSpec

\* The tools are out of the shared context only while the retry waits.
THEOREM ToolsComeBack == LlmSpec => []ToolsRestored
<1>1. LlmInv => ToolsRestored
  BY DEF LlmInv
<1> QED BY <1>1, LlmStarts, LlmStep, PTL DEF LlmSpec

-----------------------------------------------------------------------------
(***************************************************************************)
(* VoiceSessions: the leases, for any sessions and any capacity: the counter  *)
(* is the number of sessions between their lease and its return, and only a  *)
(* start that fails leaves tasks behind.                                     *)
(***************************************************************************)

\* The sessions that hold a lease.
Holders == {s \in Sessions : session[s] \in Leased}

\* The tasks a session may have, by the point it has reached.
TasksInv(s) ==
  /\ session[s] \in {"idle", "accepted", "refused", "rejected"} =>
       startup[s] = {} /\ background[s] = {}
  /\ session[s] = "starting" => background[s] = {}
  /\ session[s] \in {"assembling", "warming", "running", "closing"} => startup[s] = {}
  /\ session[s] \in {"releasing", "over"} =>
       /\ startup[s] # {} => failed[s] = "startup"
       /\ background[s] # {} => failed[s] = "assembly"

SessionInv ==
  /\ SessionTypeOK
  /\ LeasesCounted
  /\ \A s \in Sessions : TasksInv(s)

-----------------------------------------------------------------------------
\* The counter is a natural number, and the sessions that hold a lease are finite.
LEMMA HoldersFinite ==
  ASSUME CapacityAssumption
  PROVE  IsFiniteSet(Holders) /\ Cardinality(Holders) \in Nat
<1>1. IsFiniteSet(Holders)
  BY FS_Subset DEF CapacityAssumption, Holders
<1> QED BY <1>1, FS_CardinalityType

\* A step of a session that keeps or misses its lease on both sides leaves the count.
LEMMA SameHolders ==
  ASSUME SessionTypeOK, NEW s \in Sessions, NEW to, session' = [session EXCEPT ![s] = to],
         session[s] \in Leased <=> to \in Leased
  PROVE  Holders' = Holders
BY DEF Holders, SessionTypeOK

\* Types and tasks.
LEMMA SessionTypes ==
  ASSUME SessionTypeOK, NEW s \in Sessions, SessionStep(s)
  PROVE  SessionTypeOK'
<1> USE DEF SessionTypeOK, Moves, admission, Leased, Startup, Background
<1>1. CASE LookAtCapacity(s)
  BY <1>1 DEF LookAtCapacity
<1>2. CASE Acquire(s)
  <2>1. CASE leases < Capacity
    <3>1. /\ session' = [session EXCEPT ![s] = "starting"]
          /\ startup' = [startup EXCEPT ![s] = Startup]
          /\ leases' = leases + 1
          /\ UNCHANGED <<background, failed>>
      BY <1>2, <2>1 DEF Acquire
    <3>2. noLease' \in BOOLEAN
      BY <1>2, <2>1 DEF Acquire
    <3> QED BY <3>1, <3>2
  <2>2. CASE ~(leases < Capacity)
    BY <1>2, <2>2 DEF Acquire
  <2> QED BY <2>1, <2>2
<1>3. CASE StartAbandoned(s)
  BY <1>3 DEF StartAbandoned
<1>4. CASE AssemblyFails(s)
  BY <1>4 DEF AssemblyFails
<1>5. CASE EnterTry(s)
  BY <1>5 DEF EnterTry
<1>6. CASE RunPipeline(s)
  BY <1>6 DEF RunPipeline
<1>7. CASE LeaveTry(s)
  BY <1>7 DEF LeaveTry
<1>8. CASE CloseSession(s)
  BY <1>8 DEF CloseSession
<1>9. CASE ReleaseLease(s)
  BY <1>9 DEF ReleaseLease
<1>10. CASE \E task \in Startup : StartupEnds(s, task)
  BY <1>10 DEF StartupEnds
<1>11. CASE \E task \in Startup : StartupFails(s, task)
  BY <1>11 DEF StartupFails
<1>12. CASE \E task \in Background : BackgroundEnds(s, task)
  BY <1>12 DEF BackgroundEnds
<1> QED
  BY <1>1, <1>2, <1>3, <1>4, <1>5, <1>6, <1>7, <1>8, <1>9, <1>10, <1>11, <1>12
     DEF SessionStep

LEMMA TasksKept ==
  ASSUME SessionTypeOK, \A e \in Sessions : TasksInv(e), NEW s \in Sessions, SessionStep(s),
         NEW e \in Sessions
  PROVE  TasksInv(e)'
<1> USE DEF SessionTypeOK, TasksInv, Moves, admission, Startup, Background
<1>1. CASE LookAtCapacity(s)
  BY <1>1 DEF LookAtCapacity
<1>2. CASE Acquire(s)
  BY <1>2 DEF Acquire
<1>3. CASE StartAbandoned(s)
  BY <1>3 DEF StartAbandoned
<1>4. CASE AssemblyFails(s)
  BY <1>4 DEF AssemblyFails
<1>5. CASE EnterTry(s)
  BY <1>5 DEF EnterTry
<1>6. CASE RunPipeline(s)
  BY <1>6 DEF RunPipeline
<1>7. CASE LeaveTry(s)
  BY <1>7 DEF LeaveTry
<1>8. CASE CloseSession(s)
  BY <1>8 DEF CloseSession, TasksOver
<1>9. CASE ReleaseLease(s)
  BY <1>9 DEF ReleaseLease
<1>10. CASE \E task \in Startup : StartupEnds(s, task)
  BY <1>10 DEF StartupEnds
<1>11. CASE \E task \in Startup : StartupFails(s, task)
  BY <1>11 DEF StartupFails
<1>12. CASE \E task \in Background : BackgroundEnds(s, task)
  BY <1>12 DEF BackgroundEnds
<1> QED
  BY <1>1, <1>2, <1>3, <1>4, <1>5, <1>6, <1>7, <1>8, <1>9, <1>10, <1>11, <1>12
     DEF SessionStep

\* The counter follows the sessions.
LEMMA CountKept ==
  ASSUME CapacityAssumption, SessionTypeOK, LeasesCounted, NEW s \in Sessions, SessionStep(s)
  PROVE  LeasesCounted'
<1>0. /\ IsFiniteSet(Holders) /\ Cardinality(Holders) \in Nat
      /\ leases = Cardinality(Holders) /\ leases \in Nat
  BY HoldersFinite DEF LeasesCounted, Holders
<1>1. ASSUME UNCHANGED <<leases, noLease>>, Holders' = Holders
      PROVE  LeasesCounted'
  BY <1>1, <1>0 DEF LeasesCounted, Holders
<1>2. CASE Acquire(s)
  <2>1. CASE leases < Capacity
    <3>1. /\ session[s] = "accepted" /\ session' = [session EXCEPT ![s] = "starting"]
          /\ leases' = leases + 1 /\ noLease' = FALSE
      BY <1>2, <2>1 DEF Acquire, Moves
    <3>2. s \notin Holders /\ Holders' = Holders \cup {s}
      BY <3>1 DEF Holders, Leased, SessionTypeOK
    <3>3. Cardinality(Holders') = Cardinality(Holders) + 1
      BY <3>2, <1>0, FS_AddElement
    <3>4. leases' = Cardinality(Holders') /\ leases' <= Capacity /\ leases' # 0
      BY <3>1, <3>3, <1>0, <2>1 DEF CapacityAssumption
    <3> QED BY <3>1, <3>4 DEF LeasesCounted, Holders
  <2>2. CASE ~(leases < Capacity)
    <3>1. /\ session[s] = "accepted" /\ session' = [session EXCEPT ![s] = "rejected"]
          /\ UNCHANGED <<leases, noLease>>
      BY <1>2, <2>2 DEF Acquire, Moves, admission
    <3>2. Holders' = Holders
      BY <3>1, SameHolders DEF Leased
    <3> QED BY <1>1, <3>1, <3>2
  <2> QED BY <2>1, <2>2
<1>3. CASE ReleaseLease(s)
  <2>1. /\ session[s] = "releasing" /\ session' = [session EXCEPT ![s] = "over"]
        /\ leases' = leases - 1 /\ noLease' = (leases' = 0)
    BY <1>3, Zenon DEF ReleaseLease, Moves
  <2>2. s \in Holders /\ Holders' = Holders \ {s}
    BY <2>1 DEF Holders, Leased, SessionTypeOK
  <2>3. Cardinality(Holders') = Cardinality(Holders) - 1
    BY <2>2, <1>0, FS_RemoveElement
  <2>4. leases' = Cardinality(Holders') /\ leases' <= Capacity
    BY <2>1, <2>3, <1>0 DEF LeasesCounted, CapacityAssumption
  <2> QED BY <2>1, <2>4, Zenon DEF LeasesCounted, Holders
<1>4. CASE LookAtCapacity(s) \/ EnterTry(s) \/ RunPipeline(s) \/ LeaveTry(s) \/ CloseSession(s)
           \/ StartAbandoned(s) \/ AssemblyFails(s)
  <2>1. \E to : /\ session' = [session EXCEPT ![s] = to]
                /\ session[s] \in Leased <=> to \in Leased
    BY <1>4 DEF LookAtCapacity, EnterTry, RunPipeline, LeaveTry, CloseSession,
                StartAbandoned, AssemblyFails, Moves, Leased
  <2>2. UNCHANGED <<leases, noLease>>
    BY <1>4 DEF LookAtCapacity, EnterTry, RunPipeline, LeaveTry, CloseSession,
                StartAbandoned, AssemblyFails, admission
  <2> QED BY <2>1, <2>2, <1>1, SameHolders
<1>5. CASE \/ \E task \in Startup : StartupEnds(s, task) \/ StartupFails(s, task)
           \/ \E task \in Background : BackgroundEnds(s, task)
  <2>1. \/ session' = session
        \/ \E to : /\ session' = [session EXCEPT ![s] = to]
                   /\ session[s] \in Leased <=> to \in Leased
    BY <1>5 DEF StartupEnds, StartupFails, BackgroundEnds, Leased
  <2>2. UNCHANGED <<leases, noLease>>
    BY <1>5 DEF StartupEnds, StartupFails, BackgroundEnds, admission
  <2>3. CASE session' = session
    BY <2>2, <2>3, <1>1 DEF Holders
  <2> QED BY <2>1, <2>2, <2>3, <1>1, SameHolders
<1> QED BY <1>2, <1>3, <1>4, <1>5 DEF SessionStep

\* The inductive invariant.
LEMMA SessionInvariant == ASSUME CapacityAssumption PROVE SessionSpec => []SessionInv
<1>1. SessionInit => SessionInv
  <2> SUFFICES ASSUME SessionInit PROVE SessionInv
    OBVIOUS
  <2>1. Holders = {}
    BY DEF Holders, SessionInit, Leased
  <2>2. Cardinality(Holders) = 0
    BY <2>1, FS_EmptySet
  <2> QED BY <2>2 DEF SessionInit, SessionInv, SessionTypeOK, LeasesCounted, TasksInv, Holders,
                      Leased, CapacityAssumption
<1>2. SessionInv /\ [SessionNext]_sessionVars => SessionInv'
  <2> SUFFICES ASSUME SessionInv, [SessionNext]_sessionVars PROVE SessionInv'
    OBVIOUS
  <2>1. ASSUME NEW s \in Sessions, SessionStep(s) PROVE SessionInv'
    BY <2>1, SessionTypes, TasksKept, CountKept DEF SessionInv
  <2>2. CASE UNCHANGED sessionVars
    BY <2>2 DEF SessionInv, SessionTypeOK, LeasesCounted, TasksInv, sessionVars, admission
  <2> QED BY <2>1, <2>2 DEF SessionNext
<1> QED BY <1>1, <1>2, PTL DEF SessionSpec

-----------------------------------------------------------------------------
\* However many requests pass the look together and wherever a session fails, the
\* counter is the sessions that hold a lease, and never more than the capacity
\* (admission.py:28-42, main.py:366, 399, 469).
THEOREM LeasesKeepCount == ASSUME CapacityAssumption PROVE SessionSpec => []LeasesCounted
<1>1. SessionInv => LeasesCounted
  BY DEF SessionInv
<1> QED BY SessionInvariant, <1>1, PTL

\* A session that came to run leaves no task behind (main.py:113-182, 336-360).
THEOREM OnlyFailedStartsLeaveTasks ==
  ASSUME CapacityAssumption PROVE SessionSpec => []OrphansOfFailedStart
<1>1. SessionInv => OrphansOfFailedStart
  BY DEF SessionInv, TasksInv, OrphansOfFailedStart
<1> QED BY SessionInvariant, <1>1, PTL

(***************************************************************************)
(* IssueRouting: what the flag and the scan of the context know.             *)
(***************************************************************************)

\* Of what was said up to the user's words u: message i opened a workflow, no success
\* was reported since, and the user's words k, which were that message or found it in
\* the context, left the flag set; nothing settled it since.
Told(s, u) ==
  \E i, k \in 1..u :
    /\ i <= k /\ k < i + ScanWindow
    /\ i = k \/ s[k] = FromUser("continuation")
    /\ Opens(s[i])
    /\ \A j \in i..u : ~Closes(s[j])
    /\ \A j \in k..u : ~Settles(s[j])

\* The same, of a message that was restored, when the first message kept is a.
Recalled(s, a, u) ==
  \E i \in DOMAIN Restored, k \in 1..u :
    /\ s[k] = FromUser("continuation")
    /\ \A j \in k..u : ~Settles(s[j])
    /\ Opens(Restored[i]) /\ Len(Restored) + 1 < i + ScanWindow
    /\ \A j \in i..Len(Restored) : ~Closes(Restored[j])
    /\ \A j \in a..u : ~Closes(s[j])

Caused(s, a, u) == Told(s, u) \/ Recalled(s, a, u)

\* Behind the words u are at most a tool's result and an answer.
Heard(s, u) == Len(s) <= u + 2 /\ \A k \in (u + 1)..Len(s) : s[k].role # "user"

\* The last words of the user, u, are in the context, and the flag is as of then.
LastHeard(u) ==
  /\ spoken[u].role = "user" /\ kept <= u
  /\ Heard(spoken, u) /\ (answering => Len(spoken) <= u + 1)
  /\ workflow => Caused(spoken, kept, u)
  /\ "issue" \in tools => workflow

Unheard == spoken = <<>> /\ ~workflow /\ ~answering

IssueInv == IssueTypeOK /\ (Unheard \/ \E u \in 1..Len(spoken) : LastHeard(u))

\* Two sequences of messages, and one with a message behind it.
LEMMA Joined ==
  ASSUME NEW r \in Seq(Messages), NEW t \in Seq(Messages)
  PROVE  /\ r \o t \in Seq(Messages) /\ Len(r \o t) = Len(r) + Len(t)
         /\ Len(r) \in Nat /\ Len(t) \in Nat /\ Len(r \o t) \in Nat
         /\ \A i \in 1..Len(r) : (r \o t)[i] = r[i]
         /\ \A i \in 1..Len(t) : i + Len(r) \in 1..Len(r \o t) /\ (r \o t)[i + Len(r)] = t[i]
OBVIOUS

LEMMA JoinedOne ==
  ASSUME NEW q \in Seq(Messages), NEW m \in Messages
  PROVE  /\ q \o <<m>> \in Seq(Messages) /\ Len(q \o <<m>>) = Len(q) + 1
         /\ (q \o <<m>>)[Len(q) + 1] = m
         /\ \A i \in 1..Len(q) : (q \o <<m>>)[i] = q[i]
<1>1. q \o <<m>> = Append(q, m)
  OBVIOUS
<1>2. QED
  BY <1>1

\* The messages of a context: what was restored, what the window has left, the new one.
IsContext(c, r, s, a, m) == c = r \o SubSeq(s, a, Len(s)) \o <<m>>

LEMMA Placed ==
  ASSUME NEW r \in Seq(Messages), NEW s \in Seq(Messages), NEW a \in 1..(Len(s) + 1),
         NEW m \in Messages, NEW c, IsContext(c, r, s, a, m)
  PROVE  /\ Len(r) \in Nat /\ Len(s) \in Nat /\ Len(c) \in Nat /\ DOMAIN c = 1..Len(c)
         /\ Len(c) = Len(r) + (Len(s) - a + 1) + 1
         /\ \A i \in 1..Len(r) : c[i] = r[i]
         /\ \A k \in a..Len(s) : c[Len(r) + k - a + 1] = s[k]
         /\ c[Len(c)] = m
<1>1. PICK t : t = SubSeq(s, a, Len(s))
  OBVIOUS
<1>2. /\ t \in Seq(Messages) /\ Len(t) = Len(s) - a + 1 /\ Len(t) \in Nat /\ Len(s) \in Nat
      /\ \A i \in 1..Len(t) : t[i] = s[i + a - 1]
  BY <1>1
<1>3. PICK q : q = r \o t
  OBVIOUS
<1>4. /\ q \in Seq(Messages) /\ Len(q) = Len(r) + Len(t) /\ Len(r) \in Nat /\ Len(q) \in Nat
      /\ \A i \in 1..Len(r) : q[i] = r[i]
  BY <1>2, <1>3, Joined
<1>5. \A i \in 1..Len(t) : i + Len(r) \in 1..Len(q) /\ q[i + Len(r)] = t[i]
  BY <1>2, <1>3, Joined
<1>6. c = q \o <<m>>
  BY <1>1, <1>3 DEF IsContext
<1>7. /\ c \in Seq(Messages) /\ Len(c) = Len(q) + 1 /\ c[Len(q) + 1] = m
      /\ \A i \in 1..Len(q) : c[i] = q[i]
  BY <1>4, <1>6, JoinedOne
<1>9. ASSUME NEW i \in 1..Len(r)
      PROVE  c[i] = r[i]
  <2>1. i \in 1..Len(q)
    BY <1>2, <1>4
  <2>2. QED
    BY <1>4, <1>7, <2>1
<1>10. ASSUME NEW k \in a..Len(s)
       PROVE  c[Len(r) + k - a + 1] = s[k]
  <2>1. PICK i \in 1..Len(t) : i = k - a + 1
    BY <1>2
  <2>2. i + a - 1 = k /\ i + Len(r) = Len(r) + k - a + 1
    BY <1>2, <1>4, <2>1
  <2>3. t[i] = s[i + a - 1]
    BY <1>2
  <2>4. c[i + Len(r)] = t[i]
    BY <1>5, <1>7
  <2>5. QED
    BY <2>2, <2>3, <2>4
<1>11. Len(c) \in Nat /\ DOMAIN c = 1..Len(c) /\ c[Len(c)] = m
  BY <1>7
<1>12. Len(c) = Len(r) + (Len(s) - a + 1) + 1
  BY <1>2, <1>4, <1>7
<1>13. QED
  BY <1>2, <1>4, <1>9, <1>10, <1>11, <1>12

\* The bounds on what is said since the words u lie within the reach of the scan.
LEMMA InReach ==
  ASSUME NEW R \in Nat, NEW L \in Nat, NEW n \in Nat, NEW a \in 1..(L + 1),
         n = R + (L - a + 1) + 1, NEW u \in a..L, L <= u + 2,
         NEW W \in Nat, W >= 3, NEW k \in (u + 1)..L
  PROVE  k \in a..L /\ R + k - a + 1 \in 1..n /\ R + k - a + 1 > n - W
OBVIOUS

\* Where a place of the context is in what was said.
LEMMA PlaceSaid ==
  ASSUME NEW R \in Nat, NEW L \in Nat, NEW n \in Nat, NEW a \in 1..(L + 1),
         n = R + (L - a + 1) + 1, NEW W \in Nat, NEW i \in 1..n, i # n, i > n - W
  PROVE  /\ i \in 1..R => R + 1 < i + W
         /\ i \notin 1..R => \E k \in a..L : i = R + k - a + 1 /\ L + 1 < k + W
<1>1. CASE i \in 1..R
  BY <1>1
<1>2. CASE i \notin 1..R
  <2>1. PICK k : k = i - R + a - 1
    OBVIOUS
  <2>2. k \in a..L /\ i = R + k - a + 1 /\ L + 1 < k + W
    BY <1>2, <2>1
  <2>3. QED
    BY <1>2, <2>2
<1>3. QED
  BY <1>1, <1>2

\* A message that joins leaves what was said before.
LEMMA SaidMore ==
  ASSUME NEW s \in Seq(Messages), NEW m \in Messages
  PROVE  /\ Append(s, m) \in Seq(Messages)
         /\ Len(Append(s, m)) = Len(s) + 1 /\ Append(s, m)[Len(s) + 1] = m
         /\ \A k \in 1..Len(s) : Append(s, m)[k] = s[k]
OBVIOUS

\* A cause is one still when more was said that does not settle it.
LEMMA CauseKept ==
  ASSUME NEW s \in Seq(Messages), NEW r \in Seq(Messages), NEW u \in 1..Len(s),
         NEW v \in u..Len(r), NEW a \in 1..v, NEW b \in a..v,
         \A k \in 1..u : r[k] = s[k],
         \A j \in (u + 1)..v : ~Settles(r[j]),
         Caused(s, a, u)
  PROVE  Caused(r, b, v)
<1>1. u \in Nat /\ v \in Nat /\ u <= v /\ 1..u \subseteq 1..v
  OBVIOUS
<1>2. \A j \in (u + 1)..v : ~Settles(r[j]) /\ ~Closes(r[j])
  BY DEF Settles
<1>3. CASE Told(s, u)
  <2>1. PICK i \in 1..u, k \in 1..u :
          /\ i <= k /\ k < i + ScanWindow
          /\ i = k \/ s[k] = FromUser("continuation")
          /\ Opens(s[i])
          /\ \A j \in i..u : ~Closes(s[j])
          /\ \A j \in k..u : ~Settles(s[j])
    BY <1>3 DEF Told
  <2>2. /\ i = k \/ r[k] = FromUser("continuation")
        /\ Opens(r[i]) /\ i \in 1..v /\ k \in 1..v
    BY <1>1, <2>1
  <2>3. \A j \in i..v : ~Closes(r[j])
    <3>1. \A j \in i..v : j \in i..u \/ j \in (u + 1)..v
      BY <1>1, <2>1
    <3>2. \A j \in i..u : j \in 1..u
      BY <2>1
    <3>3. QED
      BY <1>2, <2>1, <3>1, <3>2
  <2>4. \A j \in k..v : ~Settles(r[j])
    <3>1. \A j \in k..v : j \in k..u \/ j \in (u + 1)..v
      BY <1>1, <2>1
    <3>2. \A j \in k..u : j \in 1..u
      BY <2>1
    <3>3. QED
      BY <1>2, <2>1, <3>1, <3>2
  <2>5. QED
    BY <2>1, <2>2, <2>3, <2>4 DEF Told, Caused
<1>4. CASE Recalled(s, a, u)
  <2>1. PICK i \in DOMAIN Restored, k \in 1..u :
          /\ s[k] = FromUser("continuation")
          /\ \A j \in k..u : ~Settles(s[j])
          /\ Opens(Restored[i]) /\ Len(Restored) + 1 < i + ScanWindow
          /\ \A j \in i..Len(Restored) : ~Closes(Restored[j])
          /\ \A j \in a..u : ~Closes(s[j])
    BY <1>4 DEF Recalled
  <2>2. r[k] = FromUser("continuation") /\ k \in 1..v
    BY <1>1, <2>1
  <2>3. \A j \in b..v : ~Closes(r[j])
    <3>1. \A j \in b..v : (j \in a..u /\ j \in 1..u) \/ j \in (u + 1)..v
      BY <1>1
    <3>2. QED
      BY <1>2, <2>1, <3>1
  <2>4. \A j \in k..v : ~Settles(r[j])
    <3>1. \A j \in k..v : j \in k..u \/ j \in (u + 1)..v
      BY <1>1, <2>1
    <3>2. \A j \in k..u : j \in 1..u
      BY <2>1
    <3>3. QED
      BY <1>2, <2>1, <3>1, <3>2
  <2>5. QED
    BY <2>1, <2>2, <2>3, <2>4 DEF Recalled, Caused
<1>5. QED
  BY <1>3, <1>4 DEF Caused

\* A yes for which the scan finds the context open has a cause, in what was restored or in
\* what was said; if nothing in the context tells, it has the flag's.
LEMMA ScanFinds ==
  ASSUME NEW s \in Seq(Messages), NEW a \in 1..(Len(s) + 1), NEW m \in Messages,
         m = FromUser("continuation"), NEW w \in BOOLEAN,
         w => \E u \in a..Len(s) : Heard(s, u) /\ Caused(s, a, u),
         Scanned(Restored \o SubSeq(s, a, Len(s)) \o <<m>>, w)
  PROVE  Caused(Append(s, m), a, Len(s) + 1)
<1>1. PICK c : IsContext(c, Restored, s, a, m)
  BY DEF IsContext
<1>2. PICK R \in Nat : R = Len(Restored)
  BY IssueConstants
<1>3. PICK L \in Nat : L = Len(s)
  OBVIOUS
<1>4. PICK n \in Nat : n = Len(c) /\ n = R + (L - a + 1) + 1
  BY <1>1, <1>2, <1>3, IssueConstants, Placed
<1>5. /\ DOMAIN c = 1..n /\ DOMAIN Restored = 1..R /\ a \in 1..(L + 1)
      /\ \A i \in 1..R : c[i] = Restored[i]
      /\ \A k \in a..L : c[R + k - a + 1] = s[k]
      /\ c[n] = m
  <2>1. Restored \in Seq(Messages)
    BY IssueConstants
  <2>2. DOMAIN c = 1..Len(c) /\ \A i \in 1..Len(Restored) : c[i] = Restored[i]
    BY <1>1, <2>1, Placed
  <2>3. \A k \in a..Len(s) : c[Len(Restored) + k - a + 1] = s[k]
    BY <1>1, <2>1, Placed
  <2>4. c[Len(c)] = m
    BY <1>1, <2>1, Placed
  <2>5. DOMAIN Restored = 1..Len(Restored)
    BY <2>1
  <2>6. QED
    BY <1>2, <1>3, <1>4, <2>2, <2>3, <2>4, <2>5
<1>6. ~Opens(m) /\ ~Closes(m) /\ ~Settles(m)
  BY DEF Opens, Closes, Settles, Requests, Cancels, FromUser
<1>7. PICK r : r = Append(s, m)
  OBVIOUS
<1>8. /\ r \in Seq(Messages) /\ Len(r) = L + 1 /\ r[L + 1] = m
      /\ \A k \in 1..L : r[k] = s[k]
  BY <1>3, <1>7, SaidMore
<1> DEFINE window == {i \in 1..n : i > n - ScanWindow}
           telling == {i \in window : Closes(c[i]) \/ Opens(c[i])}
<1>9. IF telling = {} THEN w
      ELSE \E i \in telling : Opens(c[i]) /\ \A j \in telling : j <= i
  BY <1>1, <1>4, <1>5 DEF Scanned, IsContext
<1>10. ScanWindow \in Nat /\ ScanWindow >= 3
  BY IssueConstants
<1>11. CASE telling = {}
  <2>1. PICK u \in a..L : Heard(s, u) /\ Caused(s, a, u)
    BY <1>3, <1>9, <1>11
  <2>2. u \in 1..L /\ L <= u + 2 /\ \A k \in (u + 1)..L : s[k].role # "user"
    BY <1>3, <1>5, <2>1 DEF Heard
  <2>3. ASSUME NEW k \in (u + 1)..L
        PROVE  ~Settles(r[k])
    <3>1. k \in a..L /\ R + k - a + 1 \in 1..n /\ R + k - a + 1 > n - ScanWindow
      BY <1>4, <1>5, <1>10, <2>2, InReach
    <3>2. PICK i \in window : i = R + k - a + 1 /\ c[i] = s[k]
      BY <1>5, <3>1
    <3>3. ~Closes(s[k]) /\ s[k].role # "user"
      BY <1>11, <2>2, <3>2
    <3>4. r[k] = s[k]
      BY <1>8, <2>2
    <3>5. QED
      BY <3>3, <3>4 DEF Settles
  <2>4. \A k \in (u + 1)..(L + 1) : k \in (u + 1)..L \/ k = L + 1
    BY <2>2
  <2>5. \A k \in (u + 1)..(L + 1) : ~Settles(r[k])
    BY <1>6, <1>8, <2>3, <2>4
  <2>6. /\ u \in 1..Len(s) /\ L + 1 \in u..Len(r) /\ a \in 1..(L + 1) /\ a \in a..(L + 1)
        /\ \A k \in 1..u : r[k] = s[k]
    BY <1>3, <1>5, <1>8, <2>2
  <2>7. Caused(r, a, L + 1)
    BY <1>8, <2>1, <2>5, <2>6, CauseKept
  <2>8. QED
    BY <1>3, <1>7, <2>7
<1>12. CASE telling # {}
  <2>1. PICK i \in telling : Opens(c[i]) /\ \A j \in telling : j <= i
    BY <1>9, <1>12
  <2>2. i \in 1..n /\ i > n - ScanWindow /\ i # n
    BY <1>5, <1>6, <2>1
  <2>3. ASSUME NEW j \in i..n
        PROVE  ~Closes(c[j])
    <3>1. CASE j = i
      BY <2>1, <3>1 DEF Opens, Closes
    <3>2. CASE j # i
      <4>1. j \in window /\ ~(j <= i)
        BY <1>10, <2>2, <3>2
      <4>2. j \notin telling
        BY <2>1, <4>1
      <4>3. QED
        BY <4>1, <4>2
    <3>3. QED
      BY <3>1, <3>2
  <2>4. /\ i \in 1..R => R + 1 < i + ScanWindow
        /\ i \notin 1..R => \E k \in a..L : i = R + k - a + 1 /\ L + 1 < k + ScanWindow
    BY <1>4, <1>5, <1>10, <2>2, PlaceSaid
  <2>5. /\ L + 1 \in 1..(L + 1) /\ r[L + 1] = FromUser("continuation")
        /\ \A j \in (L + 1)..(L + 1) : ~Settles(r[j])
    BY <1>6, <1>8
  <2>6. CASE i \in 1..R
    <3>1. \A j \in i..R : ~Closes(Restored[j])
      <4>1. \A j \in i..R : j \in i..n /\ j \in 1..R
        BY <1>4, <1>5, <2>6
      <4>2. QED
        BY <1>5, <2>3, <4>1
    <3>2. ASSUME NEW j \in a..(L + 1)
          PROVE  ~Closes(r[j])
      <4>1. CASE j = L + 1
        BY <1>6, <1>8, <4>1
      <4>2. CASE j # L + 1
        <5>1. j \in a..L /\ j \in 1..L /\ R + j - a + 1 \in i..n
          BY <1>4, <1>5, <2>6, <4>2
        <5>2. QED
          BY <1>5, <1>8, <2>3, <5>1
      <4>3. QED
        BY <4>1, <4>2
    <3>3. i \in DOMAIN Restored /\ Opens(Restored[i]) /\ Len(Restored) + 1 < i + ScanWindow
      BY <1>2, <1>5, <2>1, <2>4, <2>6
    <3>4. \A j \in i..Len(Restored) : ~Closes(Restored[j])
      BY <1>2, <3>1
    <3>5. Recalled(r, a, L + 1)
      BY <2>5, <3>2, <3>3, <3>4 DEF Recalled
    <3>6. QED
      BY <1>3, <1>7, <3>5 DEF Caused
  <2>7. CASE i \notin 1..R
    <3>1. PICK k \in a..L : i = R + k - a + 1 /\ L + 1 < k + ScanWindow
      BY <2>4, <2>7
    <3>2. k \in 1..(L + 1) /\ k <= L + 1 /\ k \in 1..L
      BY <1>5, <3>1
    <3>3. Opens(r[k])
      BY <1>5, <1>8, <2>1, <3>1, <3>2
    <3>4. ASSUME NEW j \in k..(L + 1)
          PROVE  ~Closes(r[j])
      <4>1. CASE j = L + 1
        BY <1>6, <1>8, <4>1
      <4>2. CASE j # L + 1
        <5>1. j \in a..L /\ j \in 1..L /\ R + j - a + 1 \in i..n
          BY <1>4, <1>5, <3>1, <4>2
        <5>2. QED
          BY <1>5, <1>8, <2>3, <5>1
      <4>3. QED
        BY <4>1, <4>2
    <3>5. Told(r, L + 1)
      BY <2>5, <3>1, <3>2, <3>3, <3>4 DEF Told
    <3>6. QED
      BY <1>3, <1>7, <3>5 DEF Caused
  <2>8. QED
    BY <2>6, <2>7
<1>13. QED
  BY <1>11, <1>12

\* A turn's words are told from what is in the context, and from the flag.
LEMMA ActiveHasCause ==
  ASSUME IssueInv, NEW says \in UserSays, Active(says)
  PROVE  Caused(Append(spoken, FromUser(says)), kept, Len(spoken) + 1)
<1> DEFINE m == FromUser(says)
<1>1. m \in Messages /\ m.role = "user" /\ m.says = says
  BY DEF Messages, FromUser
<1>2. /\ spoken \in Seq(Messages) /\ kept \in 1..(Len(spoken) + 1) /\ workflow \in BOOLEAN
      /\ Len(spoken) \in Nat
  BY DEF IssueInv, IssueTypeOK
<1>3. ~Cancels(says)
  BY DEF Active
<1>4. m = FromUser(says)
  OBVIOUS
<1> HIDE DEF m
<1>5. CASE Requests(says)
  <2>1. PICK r : r = Append(spoken, m)
    OBVIOUS
  <2>2. PICK n \in Nat : n = Len(spoken) + 1 /\ r[n] = m
    BY <1>1, <1>2, <2>1, SaidMore
  <2>3. Opens(m) /\ ~Settles(m) /\ ~Closes(m)
    BY <1>1, <1>3, <1>5 DEF Opens, Settles, Closes
  <2>4. /\ n \in 1..n /\ n <= n /\ n < n + ScanWindow /\ Opens(r[n])
        /\ \A j \in n..n : ~Closes(r[j]) /\ ~Settles(r[j])
    BY <1>2, <2>2, <2>3, IssueConstants
  <2>5. Told(r, n)
    BY <2>4 DEF Told
  <2>6. QED
    BY <1>4, <2>1, <2>2, <2>5 DEF Caused
<1>6. CASE ~Requests(says)
  <2>1. /\ says = "continuation"
        /\ Scanned(Restored \o SubSeq(spoken, kept, Len(spoken)) \o <<m>>, workflow)
    BY <1>3, <1>4, <1>6 DEF Active, Context
  <2>2. workflow => \E u \in kept..Len(spoken) : Heard(spoken, u) /\ Caused(spoken, kept, u)
    <3>1. CASE Unheard
      BY <3>1 DEF Unheard
    <3>2. ASSUME NEW u \in 1..Len(spoken), LastHeard(u), workflow
          PROVE  u \in kept..Len(spoken) /\ Heard(spoken, u) /\ Caused(spoken, kept, u)
      BY <1>2, <3>2 DEF LastHeard
    <3>3. QED
      BY <3>1, <3>2 DEF IssueInv
  <2>3. m = FromUser("continuation")
    BY <1>4, <2>1
  <2>4. Caused(Append(spoken, m), kept, Len(spoken) + 1)
    BY <1>1, <1>2, <2>1, <2>2, <2>3, ScanFinds
  <2>5. QED
    BY <1>4, <2>4
<1>7. QED
  BY <1>5, <1>6

LEMMA UserTurnStep ==
  ASSUME IssueInv, NEW says \in UserSays, UserTurn(says)
  PROVE  IssueInv'
<1>1. spoken \in Seq(Messages) /\ kept \in 1..(Len(spoken) + 1) /\ Len(spoken) \in Nat
  BY DEF IssueInv, IssueTypeOK
<1>2. FromUser(says) \in Messages /\ FromUser(says).role = "user"
  BY DEF Messages, FromUser
<1>3. PICK n \in Nat : n = Len(spoken) + 1
  BY <1>1
<1>4. /\ spoken' \in Seq(Messages) /\ Len(spoken') = n /\ spoken'[n].role = "user"
  BY <1>1, <1>2, <1>3, SaidMore DEF UserTurn
<1>5. kept' \in kept..n /\ kept' \in 1..(n + 1) /\ kept' <= n
  BY <1>1, <1>3, <1>4 DEF UserTurn, Starts
<1>6. /\ workflow' = Active(says) /\ answering' = TRUE
      /\ tools' \subseteq {"search", "issue"} /\ ("issue" \in tools' => workflow')
  BY DEF UserTurn
<1>7. workflow' \in BOOLEAN
  BY <1>6 DEF Active, Scanned, IssueInv, IssueTypeOK
<1>8. workflow' => Caused(spoken', kept', n)
  <2>1. ASSUME workflow'
        PROVE  Caused(spoken', kept', n)
    <3>1. Caused(spoken', kept, n)
      BY <1>3, <1>6, <2>1, ActiveHasCause DEF UserTurn
    <3>2. n \in 1..n /\ kept \in 1..n /\ n \in n..Len(spoken') /\ n \in 1..Len(spoken')
      BY <1>1, <1>3, <1>4
    <3>3. \A j \in (n + 1)..n : ~Settles(spoken'[j])
      OBVIOUS
    <3>4. QED
      BY <1>4, <1>5, <3>1, <3>2, <3>3, CauseKept
  <2>2. QED
    BY <2>1
<1>9. IssueTypeOK'
  BY <1>4, <1>5, <1>6, <1>7 DEF IssueTypeOK
<1>10. n \in 1..Len(spoken') /\ LastHeard(n)'
  BY <1>1, <1>3, <1>4, <1>5, <1>6, <1>8 DEF LastHeard, Heard
<1>11. QED
  BY <1>9, <1>10 DEF IssueInv

\* A result or an answer joins what was said since the user's last words, u.
LEMMA ToldStep ==
  ASSUME IssueInv, NEW u \in 1..Len(spoken), LastHeard(u),
         NEW m \in Messages, m.role # "user", spoken' = Append(spoken, m),
         UNCHANGED <<kept, workflow, tools>>, answering' \in BOOLEAN,
         Len(spoken) + 1 <= IF answering' THEN u + 1 ELSE u + 2
  PROVE  IssueInv'
<1>1. /\ spoken \in Seq(Messages) /\ kept \in 1..(Len(spoken) + 1) /\ Len(spoken) \in Nat
      /\ workflow \in BOOLEAN /\ tools \subseteq {"search", "issue"}
  BY DEF IssueInv, IssueTypeOK
<1>2. /\ spoken' \in Seq(Messages) /\ Len(spoken') = Len(spoken) + 1
      /\ spoken'[Len(spoken) + 1] = m
      /\ \A k \in 1..Len(spoken) : spoken'[k] = spoken[k]
  BY <1>1, SaidMore
<1>3. IssueTypeOK'
  BY <1>1, <1>2 DEF IssueTypeOK
<1>4. ASSUME NEW k \in (u + 1)..Len(spoken')
      PROVE  spoken'[k].role # "user"
  <2>1. CASE k = Len(spoken) + 1
    BY <1>2, <2>1
  <2>2. CASE k \in (u + 1)..Len(spoken)
    BY <1>1, <1>2, <2>2 DEF LastHeard, Heard
  <2>3. QED
    BY <1>1, <1>2, <2>1, <2>2
<1>5. u \in 1..Len(spoken') /\ LastHeard(u)'
  <2>1. u \in 1..Len(spoken')
    BY <1>1, <1>2
  <2>2. spoken'[u].role = "user" /\ kept' <= u
    BY <1>2 DEF LastHeard
  <2>3. workflow' => Caused(spoken', kept', u)
    <3>1. kept \in 1..u /\ kept \in kept..u /\ u \in u..Len(spoken')
      BY <1>1, <1>2 DEF LastHeard
    <3>2. /\ \A k \in 1..u : spoken'[k] = spoken[k]
          /\ \A j \in (u + 1)..u : ~Settles(spoken'[j])
      BY <1>1, <1>2
    <3>3. Caused(spoken, kept, u) => Caused(spoken', kept, u)
      BY <1>1, <1>2, <3>1, <3>2, CauseKept
    <3>4. QED
      BY <3>3 DEF LastHeard
  <2>4. Len(spoken') <= u + 2 /\ (answering' => Len(spoken') <= u + 1)
    BY <1>1, <1>2
  <2>5. QED
    BY <1>2, <1>4, <2>1, <2>2, <2>3, <2>4 DEF LastHeard, Heard
<1>6. QED
  BY <1>3, <1>5 DEF IssueInv

LEMMA IssueStep == IssueInv /\ [IssueNext]_issueVars => IssueInv'
<1> SUFFICES ASSUME IssueInv, [IssueNext]_issueVars PROVE IssueInv'
  OBVIOUS
<1>1. spoken \in Seq(Messages) /\ Len(spoken) \in Nat /\ answering \in BOOLEAN
  BY DEF IssueInv, IssueTypeOK
<1>2. ASSUME NEW says \in UserSays, UserTurn(says)
      PROVE  IssueInv'
  BY <1>2, UserTurnStep
<1>3. ASSUME NEW result \in {"success", "failure"}, CallIssueTool(result)
      PROVE  IssueInv'
  <2>1. PICK u \in 1..Len(spoken) : LastHeard(u)
    BY <1>3 DEF IssueInv, Unheard, CallIssueTool
  <2>2. /\ Tool(result) \in Messages /\ Tool(result).role # "user"
        /\ spoken' = Append(spoken, Tool(result)) /\ UNCHANGED <<kept, workflow, tools>>
        /\ answering /\ answering' = answering /\ spoken[Len(spoken)].role = "user"
    BY <1>3 DEF CallIssueTool, Tool, Messages, AssistantSays
  <2>3. Len(spoken) = u
    BY <1>1, <2>1, <2>2 DEF LastHeard, Heard
  <2>4. Len(spoken) + 1 <= IF answering' THEN u + 1 ELSE u + 2
    BY <1>1, <2>3
  <2>5. QED
    BY <1>1, <2>1, <2>2, <2>4, ToldStep
<1>4. ASSUME NEW says \in AssistantSays, Answer(says)
      PROVE  IssueInv'
  <2>1. PICK u \in 1..Len(spoken) : LastHeard(u)
    BY <1>4 DEF IssueInv, Unheard, Answer
  <2>2. /\ FromAssistant(says) \in Messages /\ FromAssistant(says).role # "user"
        /\ spoken' = Append(spoken, FromAssistant(says)) /\ UNCHANGED <<kept, workflow, tools>>
        /\ answering /\ answering' = FALSE
    BY <1>4 DEF Answer, FromAssistant, Messages
  <2>3. Len(spoken) + 1 <= IF answering' THEN u + 1 ELSE u + 2
    BY <1>1, <2>1, <2>2 DEF LastHeard, Heard
  <2>4. QED
    BY <2>1, <2>2, <2>3, ToldStep
<1>5. CASE UNCHANGED issueVars
  BY <1>5 DEF issueVars, IssueInv, IssueTypeOK, Unheard, LastHeard
<1>6. QED
  BY <1>2, <1>3, <1>4, <1>5 DEF IssueNext

\* What was said and not settled since is an open cause.
LEMMA OpenInSpoken ==
  ASSUME IssueTypeOK, NEW i \in 1..Len(spoken), Opens(spoken[i]),
         \A j \in i..Len(spoken) : ~Settles(spoken[j])
  PROVE  OpenCauses # {}
<1>1. spoken \in Seq(Messages) /\ Restored \in Seq(Messages) /\ Len(spoken) \in Nat
  BY IssueConstants DEF IssueTypeOK
<1>2. PICK R \in Nat : R = Len(Restored)
  BY <1>1
<1>3. PICK t : t = Transcript
  OBVIOUS
<1>4. /\ t \in Seq(Messages) /\ Len(t) = R + Len(spoken)
      /\ \A k \in 1..Len(spoken) : k + R \in 1..Len(t) /\ t[k + R] = spoken[k]
  BY <1>1, <1>2, <1>3, Joined DEF Transcript
<1>5. DOMAIN t = 1..Len(t) /\ i + R \in 1..Len(t) /\ Opens(t[i + R])
  BY <1>4
<1>6. ASSUME NEW j \in 1..Len(t), Settles(t[j])
      PROVE  j < i + R
  <2>1. CASE j < i + R
    BY <2>1
  <2>2. CASE j >= i + R
    <3>1. PICK k \in i..Len(spoken) : k + R = j
      <4>1. j - R \in i..Len(spoken) /\ (j - R) + R = j
        BY <1>1, <1>2, <1>4, <2>2
      <4>2. QED
        BY <4>1
    <3>2. k \in 1..Len(spoken)
      BY <3>1
    <3>3. t[j] = spoken[k]
      BY <1>4, <3>1, <3>2
    <3>4. QED
      BY <1>6, <3>1, <3>3
  <2>3. QED
    BY <1>2, <2>1, <2>2
<1>7. i + R \in OpenCauses
  BY <1>3, <1>5, <1>6 DEF OpenCauses
<1>8. QED
  BY <1>7

LEMMA CauseFound == IssueInv => OfferHasCause
<1> SUFFICES ASSUME IssueInv, answering, spoken[Len(spoken)].role = "user", "issue" \in tools
             PROVE  OpenCauses # {} \/ CancelledThenYes \/ RestoredThenYes
  BY DEF OfferHasCause
<1>1. spoken \in Seq(Messages) /\ Len(spoken) \in Nat /\ DOMAIN spoken = 1..Len(spoken)
  BY DEF IssueInv, IssueTypeOK
<1>2. PICK u \in 1..Len(spoken) : LastHeard(u)
  BY DEF IssueInv, Unheard
<1>3. Len(spoken) = u
  <2>1. \A k \in (u + 1)..Len(spoken) : spoken[k].role # "user"
    BY <1>2, Zenon DEF LastHeard, Heard
  <2>2. PICK n \in Nat : n = Len(spoken)
    BY <1>1
  <2>3. n \notin (u + 1)..n /\ u \in 1..n
    BY <1>2, <2>1, <2>2
  <2>4. n = u
    BY <2>3
  <2>5. QED
    BY <2>2, <2>4
<1>4. Caused(spoken, kept, Len(spoken))
  BY <1>2, <1>3 DEF LastHeard
<1>5. CASE Told(spoken, Len(spoken))
  <2>1. PICK i \in 1..Len(spoken), k \in 1..Len(spoken) :
          /\ i <= k /\ k < i + ScanWindow
          /\ i = k \/ spoken[k] = FromUser("continuation")
          /\ Opens(spoken[i])
          /\ \A j \in i..Len(spoken) : ~Closes(spoken[j])
          /\ \A j \in k..Len(spoken) : ~Settles(spoken[j])
    BY <1>5 DEF Told
  <2>2. CASE \A j \in i..Len(spoken) : ~Settles(spoken[j])
    BY <2>1, <2>2, OpenInSpoken DEF IssueInv
  <2>3. CASE \E j \in i..Len(spoken) : Settles(spoken[j])
    <3>1. PICK j \in i..Len(spoken) : Settles(spoken[j])
      BY <2>3
    <3>2. j \in i..k /\ i < k
      BY <1>1, <2>1, <3>1
    <3>3. spoken[j].role = "user" /\ Cancels(spoken[j].says)
      BY <2>1, <3>1 DEF Settles
    <3>4. Resumes(k)
      BY <2>1, <3>2 DEF Resumes
    <3>5. CancelledThenYes
      BY <1>1, <2>1, <3>2, <3>3, <3>4 DEF CancelledThenYes
    <3>6. QED
      BY <3>5
  <2>4. QED
    BY <2>2, <2>3
<1>6. CASE Recalled(spoken, kept, Len(spoken))
  <2>1. PICK i \in DOMAIN Restored, k \in 1..Len(spoken) :
          /\ spoken[k] = FromUser("continuation")
          /\ \A j \in k..Len(spoken) : ~Settles(spoken[j])
          /\ Opens(Restored[i]) /\ Len(Restored) + 1 < i + ScanWindow
          /\ \A j \in i..Len(Restored) : ~Closes(Restored[j])
          /\ \A j \in kept..Len(spoken) : ~Closes(spoken[j])
    BY <1>6 DEF Recalled
  <2>2. Resumes(k) /\ k \in DOMAIN spoken
    BY <1>1, <2>1 DEF Resumes
  <2>3. RestoredThenYes
    BY <2>1, <2>2, Zenon DEF RestoredThenYes
  <2>4. QED
    BY <2>3
<1>7. QED
  BY <1>4, <1>5, <1>6 DEF Caused

LEMMA IssueStarts == IssueInit => IssueInv
<1> SUFFICES ASSUME IssueInit PROVE IssueInv
  OBVIOUS
<1>1. /\ spoken = <<>> /\ kept = 1 /\ workflow = FALSE /\ answering = FALSE /\ tools = {}
  BY DEF IssueInit
<1>2. spoken \in Seq(Messages) /\ kept \in 1..(Len(spoken) + 1)
  BY <1>1
<1>3. QED
  BY <1>1, <1>2 DEF IssueInv, IssueTypeOK, Unheard

LEMMA IssueInvariant == IssueSpec => []IssueInv
BY IssueStarts, IssueStep, PTL DEF IssueSpec

\* The issue tool is offered only for a complaint that somebody brought up and that was
\* neither raised nor cancelled since, whatever the window drops of the conversation and
\* whatever was restored in front of it, but for the two ways in which a yes brings a
\* settled one back (processors.py:630-667).
THEOREM OfferedForACause == IssueSpec => []OfferHasCause
BY IssueInvariant, CauseFound, PTL

(***************************************************************************)
(* SttReconnect: the two recovery tasks first, then the audio.               *)
(***************************************************************************)

RecoverySteps == {"connect", "drop", "batch", "send"}

\* The reconnect is that of the task that runs, and replays only over a connection, on
\* which run_stt sends nothing.
LinkInv ==
  /\ link \in {"none", "up", "broken"}
  /\ keep \in {"idle", "scheduled", "running"} /\ media \in {"idle", "scheduled", "running"}
  /\ redo \in {NoRedo} \cup [by : {"keep", "media"}, step : RecoverySteps]
  /\ keep = "running" <=> redo.by = "keep"
  /\ media = "running" <=> redo.by = "media"
  /\ redo.step = "connect" => link = "none"
  /\ redo.step \in {"drop", "batch", "send"} => link # "none" /\ sending = 0
  /\ gaveUp \in BOOLEAN
  /\ NotStranded

LEMMA LinkStarts == SttInit => LinkInv
<1> SUFFICES ASSUME SttInit PROVE LinkInv
  OBVIOUS
<1>1. /\ link = "up" /\ keep = "idle" /\ media = "idle" /\ gaveUp = FALSE
      /\ redo = NoRedo /\ redo.by = "none" /\ redo.step = "none"
  BY DEF SttInit, NoRedo
<1>2. QED
  BY <1>1 DEF LinkInv, NotStranded

LEMMA LinkStep == LinkInv /\ [SttNext]_sttVars => LinkInv'
<1> SUFFICES ASSUME LinkInv, [SttNext]_sttVars PROVE LinkInv'
  OBVIOUS
<1> USE DEF LinkInv, NotStranded, NoRedo, RecoverySteps
<1>1. CASE Ages
  BY <1>1 DEF Ages, socket, tasks
<1>2. CASE Breaks
  BY <1>2 DEF Breaks, audioVars, tasks
<1>3. CASE KeepaliveFails
  BY <1>3 DEF KeepaliveFails, audioVars
<1>4. CASE KeepaliveReconnects
  BY <1>4 DEF KeepaliveReconnects
<1>5. CASE MediaReconnects
  BY <1>5 DEF MediaReconnects, socket, audioVars
<1>6. CASE Connected
  <2>1. redo \in [by : {"keep", "media"}, step : RecoverySteps]
    BY <1>6 DEF Connected
  <2>2. /\ redo' \in [by : {"keep", "media"}, step : RecoverySteps]
        /\ redo'.by = redo.by /\ redo'.step = "drop"
    BY <1>6, <2>1 DEF Connected
  <2>3. /\ link' = "up" /\ gaveUp' = FALSE /\ sending' = 0
        /\ UNCHANGED <<keep, media>>
    BY <1>6 DEF Connected, audioVars, tasks
  <2>4. QED
    BY <2>1, <2>2, <2>3
<1>7. CASE ConnectFails
  BY <1>7 DEF ConnectFails, TaskEnds, socket, audioVars
<1>8. CASE DropExpired
  BY <1>8 DEF DropExpired, socket, tasks
<1>9. CASE TakeBatch
  BY <1>9 DEF TakeBatch, socket, audioVars, tasks
<1>10. CASE BatchSent
  BY <1>10 DEF BatchSent, socket, tasks
<1>11. CASE BatchFails
  BY <1>11 DEF BatchFails, TaskEnds, ScheduledMedia, audioVars
<1>12. CASE Flushed
  BY <1>12 DEF Flushed, TaskEnds, socket, audioVars
<1>13. CASE Arrive
  BY <1>13 DEF Arrive, Direct, Run, ScheduledMedia, socket
<1>14. CASE Replay
  BY <1>14 DEF Replay, Run, ScheduledMedia, socket
<1>15. CASE Sent
  BY <1>15 DEF Sent, socket, tasks
<1>16. CASE SendFails
  BY <1>16 DEF SendFails, ScheduledMedia
<1>17. CASE UNCHANGED sttVars
  BY <1>17 DEF sttVars, socket, audioVars, tasks
<1>18. QED
  BY <1>1, <1>2, <1>3, <1>4, <1>5, <1>6, <1>7, <1>8, <1>9, <1>10, <1>11, <1>12, <1>13, <1>14,
     <1>15, <1>16, <1>17 DEF SttNext

\* Without a connection a recovery is under way or scheduled, unless the last reconnect
\* failed or the media task lost its own replay (deepgram_stt.py:213-246).
THEOREM ReplacementNotStranded == SttSpec => []NotStranded
<1>1. LinkInv => NotStranded
  BY DEF LinkInv
<1>2. QED
  BY <1>1, LinkStarts, LinkStep, PTL DEF SttSpec

\* A piece of audio in the buffer.
Audio == [id : Nat, old : BOOLEAN]

Sorted(s) == \A i, j \in 1..Len(s) : i < j => s[i] < s[j]
InOrder(b) == \A i, j \in 1..Len(b) : i < j => b[i].id < b[j].id
HasRoom(b) == Len(b) <= MaxBuffer \/ Len(b) <= 1

\* The elements of a sequence, and the ids of a buffer, by their places.
LEMMA Elements ==
  ASSUME NEW s \in Seq(Nat)
  PROVE  /\ \A i \in 1..Len(s) : s[i] \in Nat /\ s[i] \in ToSet(s)
         /\ \A x \in ToSet(s) : \E i \in 1..Len(s) : s[i] = x
         /\ ToSet(s) \subseteq Nat /\ Len(s) \in Nat
BY DEF ToSet

LEMMA Ids ==
  ASSUME NEW b \in Seq(Audio)
  PROVE  /\ \A i \in 1..Len(b) : b[i] \in Audio /\ b[i].id \in Nat /\ b[i].id \in Pieces(b)
         /\ \A w \in Pieces(b) : \E i \in 1..Len(b) : b[i].id = w
         /\ Pieces(b) \subseteq Nat /\ Len(b) \in Nat
<1>1. Len(b) \in Nat /\ \A i \in 1..Len(b) : b[i] \in Audio
  OBVIOUS
<1>2. \A x \in Audio : x.id \in Nat
  BY DEF Audio
<1>3. Pieces(b) = {b[i].id : i \in 1..Len(b)}
  BY DEF Pieces
<1>4. QED
  BY <1>1, <1>2, <1>3

\* What is older than the buffer's age leaves it.
LEMMA Expires ==
  ASSUME NEW b \in Seq(Audio), InOrder(b)
  PROVE  /\ Unexpired(b) \in Seq(Audio) /\ InOrder(Unexpired(b))
         /\ Pieces(Unexpired(b)) \subseteq Pieces(b)
         /\ Len(Unexpired(b)) <= Len(b)
<1> DEFINE S == [id : Nat, old : {FALSE}]
<1>1. Unexpired(b) = Only(b, S)
  BY DEF Unexpired
<1> HIDE DEF S
<1>2. Only(b, S) \in Seq(Audio \cap S) /\ Len(Only(b, S)) <= Len(b)
  BY OnlyTyped
<1>3. Audio \cap S \subseteq Audio
  OBVIOUS
<1>4. Only(b, S) \in Seq(Audio)
  BY <1>2, <1>3
<1>5. PICK e : Places(e, Only(b, S), b, S, Len(b))
  BY OnlyPlaces
<1>6. \A i \in 1..Len(Only(b, S)) : e[i] \in 1..Len(b) /\ Only(b, S)[i] = b[e[i]]
  BY <1>5 DEF Places
<1>7. \A i, j \in 1..Len(Only(b, S)) : i < j => e[i] < e[j]
  BY <1>5 DEF Places
<1>8. InOrder(Only(b, S))
  BY <1>6, <1>7 DEF InOrder
<1>9. Pieces(Only(b, S)) \subseteq Pieces(b)
  <2>1. \A i \in 1..Len(Only(b, S)) : Only(b, S)[i].id \in Pieces(b)
    BY <1>6, Ids
  <2>2. QED
    BY <1>4, <2>1, Ids
<1>10. QED
  BY <1>1, <1>2, <1>4, <1>8, <1>9

\* A new piece finds room.
LEMMA FindsRoom ==
  ASSUME NEW b \in Seq(Audio), InOrder(b), HasRoom(b), NEW id \in Nat,
         \A w \in Pieces(b) : w < id, MaxBuffer \in Nat
  PROVE  /\ Buffered(b, id) \in Seq(Audio) /\ InOrder(Buffered(b, id))
         /\ HasRoom(Buffered(b, id))
         /\ id \in Pieces(Buffered(b, id))
         /\ Pieces(Buffered(b, id)) \subseteq Pieces(b) \cup {id}
<1> DEFINE u == Unexpired(b)
           x == [id |-> id, old |-> FALSE]
           all == Append(u, x)
<1>1. /\ u \in Seq(Audio) /\ InOrder(u) /\ Pieces(u) \subseteq Pieces(b) /\ Len(u) <= Len(b)
      /\ x \in Audio /\ x.id = id
  BY Expires DEF Audio
<1>2. Buffered(b, id) = IF Len(all) > MaxBuffer /\ Len(all) > 1 THEN Tail(all) ELSE all
  BY DEF Buffered
<1> HIDE DEF u, x
<1>3. /\ all \in Seq(Audio) /\ Len(all) = Len(u) + 1 /\ Len(u) \in Nat /\ Len(b) \in Nat
      /\ all[Len(u) + 1] = x
      /\ \A i \in 1..Len(u) : all[i] = u[i]
  BY <1>1
<1>4. \A i \in 1..Len(u) : u[i].id \in Pieces(u) /\ u[i].id < id /\ u[i].id \in Nat
  BY <1>1, Ids
<1> HIDE DEF all
<1>5. InOrder(all)
  <2>1. \A i \in 1..Len(all) : i \in 1..Len(u) \/ i = Len(u) + 1
    BY <1>3
  <2>2. ASSUME NEW i \in 1..Len(all), NEW j \in 1..Len(all), i < j
        PROVE  all[i].id < all[j].id
    <3>1. i \in 1..Len(u)
      BY <1>3, <2>2
    <3>2. CASE j \in 1..Len(u)
      BY <1>1, <1>3, <2>2, <3>1, <3>2 DEF InOrder
    <3>3. CASE j = Len(u) + 1
      BY <1>1, <1>3, <1>4, <3>1, <3>3
    <3>4. QED
      BY <2>1, <3>2, <3>3
  <2>3. QED
    BY <2>2 DEF InOrder
<1>6. CASE Len(all) > MaxBuffer /\ Len(all) > 1
  <2> DEFINE t == Tail(all)
  <2>1. /\ t \in Seq(Audio) /\ Len(t) = Len(u)
        /\ \A i \in 1..Len(t) : i + 1 \in 1..Len(all) /\ t[i] = all[i + 1]
    BY <1>3, <1>6
  <2> HIDE DEF t
  <2>2. InOrder(t)
    <3>1. ASSUME NEW i \in 1..Len(t), NEW j \in 1..Len(t), i < j
          PROVE  t[i].id < t[j].id
      <4>1. i + 1 \in 1..Len(all) /\ j + 1 \in 1..Len(all) /\ i + 1 < j + 1
        BY <2>1, <3>1
      <4>2. all[i + 1].id < all[j + 1].id
        BY <1>5, <4>1 DEF InOrder
      <4>3. QED
        BY <2>1, <4>2
    <3>2. QED
      BY <3>1 DEF InOrder
  <2>3. Len(t) \in 1..Len(t) /\ t[Len(t)] = x
    BY <1>3, <1>6, <2>1
  <2>4. \A i \in 1..Len(t) : t[i].id \in Pieces(u) \cup {id}
    BY <1>1, <1>3, <1>4, <2>1
  <2>5. Pieces(t) \subseteq Pieces(b) \cup {id} /\ id \in Pieces(t)
    <3>1. Pieces(t) \subseteq Pieces(u) \cup {id}
      <4>1. t \in Seq(Audio)
        BY <2>1
      <4>2. \A w \in Pieces(t) : \E i \in 1..Len(t) : t[i].id = w
        BY <4>1, Ids
      <4>3. QED
        BY <2>4, <4>2
    <3>2. t[Len(t)].id \in Pieces(t)
      <4>1. \A i \in 1..Len(t) : t[i].id \in Pieces(t)
        BY <2>1, Ids
      <4>2. QED
        BY <2>3, <4>1
    <3>3. id \in Pieces(t)
      BY <1>1, <2>3, <3>2
    <3>4. QED
      BY <1>1, <3>1, <3>3
  <2>6. HasRoom(t)
    BY <1>1, <1>3, <2>1 DEF HasRoom
  <2>7. QED
    BY <1>2, <1>6, <2>1, <2>2, <2>5, <2>6 DEF t
<1>7. CASE ~(Len(all) > MaxBuffer /\ Len(all) > 1)
  <2>1. HasRoom(all)
    BY <1>3, <1>7 DEF HasRoom
  <2>2. \A i \in 1..Len(all) : all[i].id \in Pieces(u) \cup {id}
    BY <1>1, <1>3, <1>4
  <2>3. Pieces(all) \subseteq Pieces(b) \cup {id} /\ id \in Pieces(all)
    <3>1. Pieces(all) \subseteq Pieces(u) \cup {id}
      <4>1. all \in Seq(Audio)
        BY <1>3
      <4>2. \A w \in Pieces(all) : \E i \in 1..Len(all) : all[i].id = w
        BY <4>1, Ids
      <4>3. QED
        BY <2>2, <4>2
    <3>2. Len(u) + 1 \in 1..Len(all)
      BY <1>3
    <3>3. all[Len(u) + 1].id \in Pieces(all)
      BY <1>3, <3>2, Ids
    <3>4. QED
      BY <1>1, <1>3, <3>1, <3>3
  <2>4. QED
    BY <1>2, <1>3, <1>5, <1>7, <2>1, <2>3
<1>8. QED
  BY <1>6, <1>7

\* What is heard for the first time comes after all that has been heard.
LEMMA HeardInOrder ==
  ASSUME NEW q \in Seq(Nat), Sorted(q), NEW ids \in Seq(Nat), Sorted(ids),
         \A x \in ToSet(ids), h \in ToSet(q) : x \in ToSet(q) \/ h < x
  PROVE  /\ q \o Only(ids, Nat \ ToSet(q)) \in Seq(Nat)
         /\ Sorted(q \o Only(ids, Nat \ ToSet(q)))
         /\ ToSet(q \o Only(ids, Nat \ ToSet(q))) = ToSet(q) \cup ToSet(ids)
<1>1. PICK S : S = Nat \ ToSet(q)
  OBVIOUS
<1>2. PICK n : n = Only(ids, S)
  OBVIOUS
<1>3. n \in Seq(Nat) /\ \A i \in 1..Len(n) : n[i] \in S
  <2>1. n \in Seq(Nat \cap S)
    BY <1>2, OnlyTyped
  <2>2. Nat \cap S \subseteq Nat
    OBVIOUS
  <2>3. QED
    BY <2>1, <2>2
<1>4. PICK e : Places(e, n, ids, S, Len(ids))
  BY <1>2, OnlyPlaces
<1>5. /\ \A i \in 1..Len(n) : e[i] \in 1..Len(ids) /\ n[i] = ids[e[i]]
      /\ \A i, j \in 1..Len(n) : i < j => e[i] < e[j]
      /\ \A m \in 1..Len(ids) : ids[m] \in S => \E i \in 1..Len(n) : e[i] = m
  BY <1>4 DEF Places
<1>6. Sorted(n)
  BY SMTT(30), <1>5 DEF Sorted
<1>7. \A i \in 1..Len(n) : n[i] \in ToSet(ids) /\ n[i] \notin ToSet(q) /\ n[i] \in Nat
  <2>1. \A m \in 1..Len(ids) : ids[m] \in ToSet(ids)
    BY Elements
  <2>2. QED
    BY <1>1, <1>3, <1>5, <2>1
<1>8. \A m \in 1..Len(ids) : ids[m] \in ToSet(q) \/ \E i \in 1..Len(n) : n[i] = ids[m]
  <2>1. \A m \in 1..Len(ids) : ids[m] \in Nat
    OBVIOUS
  <2>2. \A m \in 1..Len(ids) : ids[m] \in ToSet(q) \/ ids[m] \in S
    BY <1>1, <2>1
  <2>3. QED
    BY <1>5, <2>2
<1>9. PICK r : r = q \o n
  OBVIOUS
<1>10. /\ r \in Seq(Nat) /\ Len(r) = Len(q) + Len(n) /\ Len(q) \in Nat /\ Len(n) \in Nat
       /\ \A i \in 1..Len(q) : r[i] = q[i]
  BY <1>3, <1>9
<1>11. \A i \in 1..Len(n) : i + Len(q) \in 1..Len(r) /\ r[i + Len(q)] = n[i]
  BY <1>3, <1>9, <1>10
<1>12. \A i \in 1..Len(r) : i \notin 1..Len(q) =>
         i - Len(q) \in 1..Len(n) /\ r[i] = n[i - Len(q)]
  <2>1. ASSUME NEW i \in 1..Len(r), i \notin 1..Len(q)
        PROVE  i - Len(q) \in 1..Len(n) /\ r[i] = n[i - Len(q)]
    <3>1. i - Len(q) \in 1..Len(n) /\ (i - Len(q)) + Len(q) = i
      BY <1>10, <2>1
    <3>2. QED
      BY <1>11, <3>1
  <2>2. QED
    BY <2>1
<1>13. ASSUME NEW i \in 1..Len(r), NEW j \in 1..Len(r), i < j
       PROVE  r[i] < r[j]
  <2>1. CASE j \in 1..Len(q)
    <3>1. i \in 1..Len(q)
      BY <1>10, <1>13, <2>1
    <3>2. QED
      BY <1>10, <1>13, <2>1, <3>1 DEF Sorted
  <2>2. CASE i \in 1..Len(q) /\ j \notin 1..Len(q)
    <3>1. r[i] = q[i] /\ q[i] \in ToSet(q)
      BY <1>10, <2>2, Elements
    <3>2. r[j] \in ToSet(ids) /\ r[j] \notin ToSet(q)
      BY <1>7, <1>12, <2>2
    <3>3. QED
      BY <3>1, <3>2
  <2>3. CASE i \notin 1..Len(q) /\ j \notin 1..Len(q)
    <3>1. /\ i - Len(q) \in 1..Len(n) /\ r[i] = n[i - Len(q)]
          /\ j - Len(q) \in 1..Len(n) /\ r[j] = n[j - Len(q)]
      BY <1>12, <2>3
    <3>2. i - Len(q) < j - Len(q)
      BY <1>10, <1>13
    <3>3. QED
      BY <1>6, <3>1, <3>2 DEF Sorted
  <2>4. i \in 1..Len(q) \/ j \notin 1..Len(q)
    BY <1>10, <1>13
  <2>5. QED
    BY <2>1, <2>2, <2>3, <2>4
<1>14. Sorted(r)
  BY <1>13 DEF Sorted
<1>15. ToSet(r) \subseteq ToSet(q) \cup ToSet(ids)
  <2>1. \A i \in 1..Len(q) : q[i] \in ToSet(q)
    BY Elements
  <2>2. \A i \in 1..Len(r) : r[i] \in ToSet(q) \cup ToSet(ids)
    BY <1>7, <1>10, <1>12, <2>1
  <2>3. QED
    BY <1>10, <2>2, Elements
<1>16. ToSet(q) \cup ToSet(ids) \subseteq ToSet(r)
  <2>1. \A i \in 1..Len(q) : q[i] \in ToSet(r)
    <3>1. \A i \in 1..Len(q) : i \in 1..Len(r)
      BY <1>10
    <3>2. \A i \in 1..Len(r) : r[i] \in ToSet(r)
      BY <1>10, Elements
    <3>3. QED
      BY <1>10, <3>1, <3>2
  <2>2. ToSet(q) \subseteq ToSet(r)
    BY <2>1, Elements
  <2>3. \A i \in 1..Len(n) : n[i] \in ToSet(r)
    <3>1. \A i \in 1..Len(r) : r[i] \in ToSet(r)
      BY <1>10, Elements
    <3>2. QED
      BY <1>11, <3>1
  <2>4. \A m \in 1..Len(ids) : ids[m] \in ToSet(r)
    BY <1>8, <2>2, <2>3
  <2>5. ToSet(ids) \subseteq ToSet(r)
    BY <2>4, Elements
  <2>6. QED
    BY <2>2, <2>5
<1>17. ToSet(r) = ToSet(q) \cup ToSet(ids)
  BY <1>15, <1>16
<1>18. QED
  BY <1>1, <1>2, <1>9, <1>10, <1>14, <1>17

\* The audio is typed.
AudioTypes ==
  /\ audio \in 0..MaxAudio /\ sending \in 0..audio
  /\ held \in Seq(Nat) /\ parts \in Seq(Nat) /\ heard \in Seq(Nat)
  /\ waiting \in Seq(Audio) /\ HasRoom(waiting)
  /\ ToSet(held) \cup ToSet(heard) \cup dropped \cup Pieces(waiting) \subseteq 1..audio

\* The recogniser's audio comes before the buffer's, but for a batch that was sent twice;
\* the piece being sent follows an empty buffer, and what pipecat holds comes last.
AudioOrder ==
  /\ Sorted(heard) /\ Sorted(held) /\ InOrder(waiting)
  /\ \A h \in ToSet(heard), w \in Pieces(waiting) : w \in ToSet(heard) \/ h < w
  /\ sending # 0 => waiting = <<>> /\ \A h \in ToSet(heard) : h < sending
  /\ \A x \in ToSet(held) :
       sending < x /\ \A y \in ToSet(heard) \cup Pieces(waiting) : y < x

\* The first pieces of the buffer are those the flush sends.
BatchIsFirst ==
  /\ Len(parts) <= Len(waiting)
  /\ \A i \in 1..Len(parts) : parts[i] = waiting[i].id

\* A connection that no reconnect works on has nothing to catch up with.
ReplayInv ==
  /\ link # "none" /\ redo = NoRedo => waiting = <<>>
  /\ redo.step # "send" => parts = <<>>
  /\ BatchIsFirst

AudioInv == AudioTypes /\ AudioOrder /\ NothingLost

LEMMA AudioStarts == SttInit => AudioInv /\ ReplayInv
<1> SUFFICES ASSUME SttInit PROVE AudioInv /\ ReplayInv
  OBVIOUS
<1>1. /\ audio = 0 /\ held = <<>> /\ sending = 0 /\ waiting = <<>> /\ heard = <<>>
      /\ dropped = {} /\ parts = <<>>
  BY DEF SttInit
<1>2. ToSet(<<>>) = {} /\ Pieces(<<>>) = {} /\ 1..0 = {}
  BY DEF ToSet, Pieces
<1>3. AudioTypes
  BY <1>1, <1>2, SttAssumption DEF AudioTypes, HasRoom
<1>4. AudioOrder /\ NothingLost
  BY <1>1, <1>2 DEF AudioOrder, NothingLost, Sorted, InOrder
<1>5. ReplayInv
  BY <1>1 DEF ReplayInv, BatchIsFirst
<1>6. QED
  BY <1>3, <1>4, <1>5 DEF AudioInv

\* The pieces that a batch sends are the buffer's first.
LEMMA BatchPieces ==
  ASSUME AudioInv, BatchIsFirst
  PROVE  /\ parts \in Seq(Nat) /\ Sorted(parts) /\ ToSet(parts) \subseteq Pieces(waiting)
         /\ \A x \in ToSet(parts), h \in ToSet(heard) : x \in ToSet(heard) \/ h < x
         /\ \A w \in Pieces(waiting) : w \in ToSet(parts) \/ \A x \in ToSet(parts) : x < w
<1>1. AudioTypes /\ AudioOrder
  BY DEF AudioInv
<1>2. parts \in Seq(Nat) /\ waiting \in Seq(Audio) /\ Len(parts) \in Nat /\ Len(waiting) \in Nat
  BY <1>1 DEF AudioTypes
<1>3. /\ \A i \in 1..Len(parts) : parts[i] \in ToSet(parts)
      /\ \A x \in ToSet(parts) : \E i \in 1..Len(parts) : parts[i] = x
  BY <1>2, Elements
<1>4. /\ \A i \in 1..Len(waiting) : waiting[i].id \in Pieces(waiting)
      /\ \A w \in Pieces(waiting) : \E i \in 1..Len(waiting) : waiting[i].id = w
  BY <1>2, Ids
<1>5. \A i \in 1..Len(parts) : i \in 1..Len(waiting) /\ parts[i] = waiting[i].id
  BY <1>2 DEF BatchIsFirst
<1>6. Sorted(parts)
  BY <1>1, <1>5 DEF Sorted, InOrder, AudioOrder
<1>7. ToSet(parts) \subseteq Pieces(waiting)
  BY <1>3, <1>4, <1>5
<1>8. ASSUME NEW w \in Pieces(waiting), w \notin ToSet(parts), NEW x \in ToSet(parts)
      PROVE  x < w
  <2>1. PICK i \in 1..Len(waiting) : waiting[i].id = w
    BY <1>4
  <2>2. PICK j \in 1..Len(parts) : parts[j] = x
    BY <1>3
  <2>3. i \notin 1..Len(parts)
    BY <1>3, <1>5, <1>8, <2>1
  <2>4. j \in 1..Len(waiting) /\ j < i /\ waiting[j].id = x
    BY <1>2, <1>5, <2>1, <2>2, <2>3
  <2>5. QED
    BY <1>1, <2>1, <2>4 DEF InOrder, AudioOrder
<1>9. QED
  BY <1>1, <1>2, <1>6, <1>7, <1>8 DEF AudioOrder

\* Steps that leave the audio where it is.
LEMMA AudioStays ==
  ASSUME AudioInv, UNCHANGED audioVars, parts' \in Seq(Nat)
  PROVE  AudioInv'
BY DEF AudioInv, AudioTypes, AudioOrder, NothingLost, audioVars

\* The recogniser hears pieces that are in the buffer, or the one that is being sent.
LEMMA AudioHeard ==
  ASSUME AudioInv, NEW ids \in Seq(Nat), Hears(ids), Sorted(ids),
         \A x \in ToSet(ids), h \in ToSet(heard) : x \in ToSet(heard) \/ h < x
  PROVE  /\ heard' \in Seq(Nat) /\ Sorted(heard')
         /\ ToSet(heard') = ToSet(heard) \cup ToSet(ids)
BY HeardInOrder DEF Hears, AudioInv, AudioTypes, AudioOrder

\* A piece joins the buffer.
LEMMA AudioBuffered ==
  ASSUME AudioInv, NEW id \in Nat, \A w \in Pieces(waiting) : w < id, BufferMedia(id)
  PROVE  /\ waiting' \in Seq(Audio) /\ InOrder(waiting') /\ HasRoom(waiting')
         /\ id \in Pieces(waiting') /\ Pieces(waiting') \subseteq Pieces(waiting) \cup {id}
         /\ dropped' = dropped \cup (Pieces(waiting) \ Pieces(waiting'))
<1>1. waiting' = Buffered(waiting, id)
  BY DEF BufferMedia
<1>2. waiting \in Seq(Audio) /\ InOrder(waiting) /\ HasRoom(waiting) /\ MaxBuffer \in Nat
  BY SttAssumption DEF AudioInv, AudioTypes, AudioOrder
<1>3. /\ Buffered(waiting, id) \in Seq(Audio) /\ InOrder(Buffered(waiting, id))
      /\ HasRoom(Buffered(waiting, id))
      /\ id \in Pieces(Buffered(waiting, id))
      /\ Pieces(Buffered(waiting, id)) \subseteq Pieces(waiting) \cup {id}
  BY <1>2, FindsRoom
<1>4. QED
  BY <1>1, <1>3 DEF BufferMedia

\* Audio that joins or leaves what pipecat holds.
LEMMA HeldMore ==
  ASSUME NEW q \in Seq(Nat), Sorted(q), NEW x \in Nat, \A y \in ToSet(q) : y < x
  PROVE  /\ Append(q, x) \in Seq(Nat) /\ Sorted(Append(q, x))
         /\ ToSet(Append(q, x)) = ToSet(q) \cup {x}
<1>1. PICK r : r = Append(q, x)
  OBVIOUS
<1>2. /\ r \in Seq(Nat) /\ Len(r) = Len(q) + 1 /\ Len(q) \in Nat /\ r[Len(q) + 1] = x
      /\ \A i \in 1..Len(q) : r[i] = q[i]
  BY <1>1
<1>3. /\ \A i \in 1..Len(q) : q[i] \in ToSet(q)
      /\ \A y \in ToSet(q) : \E i \in 1..Len(q) : q[i] = y
  BY Elements
<1>4. /\ \A i \in 1..Len(r) : r[i] \in ToSet(r)
      /\ \A y \in ToSet(r) : \E i \in 1..Len(r) : r[i] = y
  BY <1>2, Elements
<1>5. \A i \in 1..Len(r) : i \in 1..Len(q) \/ i = Len(q) + 1
  BY <1>2
<1>6. \A i \in 1..Len(q) : i \in 1..Len(r)
  BY <1>2
<1>7. Len(q) + 1 \in 1..Len(r)
  BY <1>2
<1>8. ToSet(r) = ToSet(q) \cup {x}
  <2>1. \A y \in ToSet(r) : y \in ToSet(q) \cup {x}
    BY <1>2, <1>3, <1>4, <1>5, SMTT(30)
  <2>2. \A y \in ToSet(q) : y \in ToSet(r)
    <3>1. \A i \in 1..Len(q) : q[i] \in ToSet(r)
      BY <1>2, <1>4, <1>6
    <3>2. QED
      BY <1>3, <3>1
  <2>3. x \in ToSet(r)
    BY <1>2, <1>4, <1>7
  <2>4. QED
    BY <2>1, <2>2, <2>3
<1>9. ASSUME NEW i \in 1..Len(r), NEW j \in 1..Len(r), i < j
      PROVE  r[i] < r[j]
  <2>1. i \in 1..Len(q)
    BY <1>2, <1>9
  <2>2. CASE j \in 1..Len(q)
    BY <1>2, <1>9, <2>1, <2>2 DEF Sorted
  <2>3. CASE j = Len(q) + 1
    BY <1>2, <1>3, <2>1, <2>3
  <2>4. QED
    BY <1>5, <2>2, <2>3
<1>10. QED
  BY <1>1, <1>2, <1>8, <1>9 DEF Sorted

LEMMA HeldLess ==
  ASSUME NEW q \in Seq(Nat), Sorted(q), q # <<>>
  PROVE  /\ Tail(q) \in Seq(Nat) /\ Sorted(Tail(q)) /\ Head(q) \in Nat
         /\ ToSet(q) = ToSet(Tail(q)) \cup {Head(q)}
         /\ \A y \in ToSet(Tail(q)) : Head(q) < y
<1>1. PICK r : r = Tail(q)
  OBVIOUS
<1>2. /\ r \in Seq(Nat) /\ Len(q) = Len(r) + 1 /\ Len(r) \in Nat /\ q[1] = Head(q)
      /\ 1 \in 1..Len(q)
      /\ \A i \in 1..Len(r) : i + 1 \in 1..Len(q) /\ r[i] = q[i + 1]
  BY <1>1
<1>3. /\ \A i \in 1..Len(q) : q[i] \in ToSet(q) /\ q[i] \in Nat
      /\ \A y \in ToSet(q) : \E i \in 1..Len(q) : q[i] = y
  BY Elements
<1>4. /\ \A i \in 1..Len(r) : r[i] \in ToSet(r)
      /\ \A y \in ToSet(r) : \E i \in 1..Len(r) : r[i] = y
  BY <1>2, Elements
<1>5. \A i \in 1..Len(q) : i = 1 \/ q[i] \in ToSet(r)
  <2>1. ASSUME NEW i \in 1..Len(q), i # 1
        PROVE  i - 1 \in 1..Len(r) /\ (i - 1) + 1 = i
    BY <1>2, <2>1
  <2>2. QED
    BY ZenonT(40), <1>2, <1>4, <2>1
<1>6. ASSUME NEW i \in 1..Len(r), NEW j \in 1..Len(r), i < j
      PROVE  r[i] < r[j]
  <2>1. i + 1 \in 1..Len(q) /\ j + 1 \in 1..Len(q) /\ i + 1 < j + 1
    BY <1>2, <1>6
  <2>2. QED
    BY <1>2, <2>1 DEF Sorted
<1>7. ASSUME NEW y \in ToSet(r)
      PROVE  y \in ToSet(q) /\ Head(q) < y
  <2>1. PICK i \in 1..Len(r) : r[i] = y
    BY <1>4
  <2>2. i + 1 \in 1..Len(q) /\ 1 < i + 1 /\ q[i + 1] = y
    BY <1>2, <2>1
  <2>3. QED
    BY <1>2, <1>3, <2>2 DEF Sorted
<1>8. \A y \in ToSet(q) : y \in ToSet(r) \/ y = Head(q)
  BY <1>2, <1>3, <1>4, <1>5
<1>9. ToSet(q) = ToSet(r) \cup {Head(q)}
  BY <1>2, <1>3, <1>7, <1>8
<1>10. QED
  BY <1>1, <1>2, <1>3, <1>6, <1>7, <1>9 DEF Sorted

\* The buffer behind a batch.
LEMMA Behind ==
  ASSUME NEW b \in Seq(Audio), InOrder(b), HasRoom(b), NEW k \in Nat, k <= Len(b)
  PROVE  /\ SubSeq(b, k + 1, Len(b)) \in Seq(Audio)
         /\ InOrder(SubSeq(b, k + 1, Len(b))) /\ HasRoom(SubSeq(b, k + 1, Len(b)))
         /\ Pieces(SubSeq(b, k + 1, Len(b))) \subseteq Pieces(b)
         /\ \A w \in Pieces(b) :
              w \in Pieces(SubSeq(b, k + 1, Len(b))) \/ \E i \in 1..k : b[i].id = w
<1>1. PICK r : r = SubSeq(b, k + 1, Len(b))
  OBVIOUS
<1>2. /\ r \in Seq(Audio) /\ Len(b) = Len(r) + k /\ Len(r) \in Nat
      /\ \A i \in 1..Len(r) : i + k \in 1..Len(b) /\ r[i] = b[i + k]
  BY <1>1
<1>3. /\ \A i \in 1..Len(b) : b[i].id \in Pieces(b)
      /\ \A w \in Pieces(b) : \E i \in 1..Len(b) : b[i].id = w
  BY Ids
<1>4. /\ \A i \in 1..Len(r) : r[i].id \in Pieces(r)
      /\ \A w \in Pieces(r) : \E i \in 1..Len(r) : r[i].id = w
  BY <1>2, Ids
<1>5. \A i \in 1..Len(b) : i \in 1..k \/ (i - k \in 1..Len(r) /\ r[i - k] = b[i])
  BY <1>2
<1>6. ASSUME NEW i \in 1..Len(r), NEW j \in 1..Len(r), i < j
      PROVE  r[i].id < r[j].id
  <2>1. i + k \in 1..Len(b) /\ j + k \in 1..Len(b) /\ i + k < j + k
    BY <1>2, <1>6
  <2>2. QED
    BY <1>2, <2>1 DEF InOrder
<1>7. Pieces(r) \subseteq Pieces(b)
  BY <1>2, <1>3, <1>4
<1>8. \A w \in Pieces(b) : w \in Pieces(r) \/ \E i \in 1..k : b[i].id = w
  BY <1>3, <1>4, <1>5
<1>9. HasRoom(r)
  BY <1>2, SttAssumption DEF HasRoom
<1>10. QED
  BY <1>1, <1>2, <1>6, <1>7, <1>8, <1>9 DEF InOrder

\* A piece that has expired stays in its place.
LEMMA Older ==
  ASSUME NEW b \in Seq(Audio), NEW n \in 1..Len(b)
  PROVE  /\ [b EXCEPT ![n].old = TRUE] \in Seq(Audio)
         /\ Len([b EXCEPT ![n].old = TRUE]) = Len(b)
         /\ \A i \in 1..Len(b) : [b EXCEPT ![n].old = TRUE][i].id = b[i].id
         /\ Pieces([b EXCEPT ![n].old = TRUE]) = Pieces(b)
<1>1. PICK r : r = [b EXCEPT ![n].old = TRUE]
  OBVIOUS
<1>2. Len(b) \in Nat /\ \A i \in 1..Len(b) : b[i] \in Audio
  OBVIOUS
<1>3. [b[n] EXCEPT !.old = TRUE] \in Audio /\ [b[n] EXCEPT !.old = TRUE].id = b[n].id
  BY <1>2 DEF Audio
<1>4. /\ r \in Seq(Audio) /\ Len(r) = Len(b)
      /\ \A i \in 1..Len(b) : r[i].id = b[i].id
  BY <1>1, <1>2, <1>3
<1>5. Pieces(r) = Pieces(b)
  <2>1. Pieces(r) = {r[i].id : i \in 1..Len(b)} /\ Pieces(b) = {b[i].id : i \in 1..Len(b)}
    BY <1>4 DEF Pieces
  <2>2. QED
    BY <1>4, <2>1
<1>6. QED
  BY <1>1, <1>4, <1>5

LEMMA BatchHeard ==
  ASSUME AudioInv, BatchIsFirst, Hears(parts)
  PROVE  /\ heard' \in Seq(Nat) /\ Sorted(heard')
         /\ ToSet(heard') = ToSet(heard) \cup ToSet(parts)
<1>1. /\ parts \in Seq(Nat) /\ Sorted(parts)
      /\ \A x \in ToSet(parts), h \in ToSet(heard) : x \in ToSet(heard) \/ h < x
  BY BatchPieces
<1>2. QED
  BY <1>1, AudioHeard

LEMMA NoPieces == ToSet(<<>>) = {} /\ Pieces(<<>>) = {}
BY DEF ToSet, Pieces

LEMMA NoBatch ==
  ASSUME parts' = <<>>, waiting' \in Seq(Audio)
  PROVE  BatchIsFirst'
<1>1. Len(parts') = 0 /\ Len(waiting') \in Nat
  OBVIOUS
<1>2. QED
  BY <1>1 DEF BatchIsFirst

SttInv == LinkInv /\ AudioInv /\ ReplayInv

\* Steps of the tasks that leave the audio where it is.
LEMMA QuietStep ==
  ASSUME SttInv,
         \/ Breaks \/ KeepaliveFails \/ MediaReconnects \/ Connected \/ ConnectFails
         \/ BatchFails \/ Flushed \/ (KeepaliveReconnects /\ UNCHANGED heard)
         \/ UNCHANGED sttVars
  PROVE  AudioInv' /\ ReplayInv'
<1>1. /\ parts \in Seq(Nat) /\ waiting \in Seq(Audio)
      /\ LinkInv /\ AudioInv /\ ReplayInv
  BY DEF SttInv, AudioInv, AudioTypes
<1>2. UNCHANGED audioVars /\ parts' \in {parts, <<>>}
  BY DEF Breaks, KeepaliveFails, MediaReconnects, Connected, ConnectFails, BatchFails, Flushed,
     KeepaliveReconnects, audioVars, sttVars
<1>3. waiting' = waiting
  BY <1>2 DEF audioVars
<1>4. AudioInv'
  <2>1. <<>> \in Seq(Nat)
    OBVIOUS
  <2>2. QED
    BY <1>1, <1>2, <2>1, AudioStays
<1>5. BatchIsFirst'
  <2>1. CASE parts' = parts
    BY <1>1, <1>3, <2>1 DEF ReplayInv, BatchIsFirst
  <2>2. CASE parts' = <<>>
    BY <1>1, <1>3, <2>2, NoBatch
  <2>3. QED
    BY <1>2, <2>1, <2>2
<1>6. /\ link' # "none" /\ redo' = NoRedo => waiting = <<>>
      /\ redo'.step # "send" => parts' = <<>>
  <2> USE DEF ReplayInv, LinkInv, NoRedo, RecoverySteps
  <2>1. CASE Breaks
    BY <1>1, <2>1 DEF Breaks
  <2>2. CASE KeepaliveFails
    BY <1>1, <2>2 DEF KeepaliveFails
  <2>3. CASE MediaReconnects
    BY <1>1, <2>3 DEF MediaReconnects, socket
  <2>4. CASE Connected
    <3>1. redo \in [by : {"keep", "media"}, step : RecoverySteps]
      BY <1>1, <2>4 DEF Connected
    <3>2. redo'.step = "drop" /\ redo.step = "connect" /\ parts' = parts
      BY <3>1, <2>4 DEF Connected
    <3>3. QED
      BY <1>1, <3>2
  <2>5. CASE ConnectFails
    BY <1>1, <2>5 DEF ConnectFails, TaskEnds, socket
  <2>6. CASE BatchFails
    BY <1>1, <2>6 DEF BatchFails, TaskEnds
  <2>7. CASE Flushed
    BY <1>1, <2>7 DEF Flushed, TaskEnds
  <2>8. CASE KeepaliveReconnects
    BY <1>1, <2>8 DEF KeepaliveReconnects
  <2>9. CASE UNCHANGED sttVars
    BY <1>1, <2>9 DEF sttVars, socket
  <2>10. QED
    BY <2>1, <2>2, <2>3, <2>4, <2>5, <2>6, <2>7, <2>8, <2>9
<1>7. QED
  BY <1>3, <1>4, <1>5, <1>6 DEF ReplayInv

LEMMA TakeBatchStep == SttInv /\ TakeBatch => AudioInv' /\ ReplayInv'
<1> SUFFICES ASSUME SttInv, TakeBatch PROVE AudioInv' /\ ReplayInv'
  OBVIOUS
<1>1. /\ waiting \in Seq(Audio) /\ LinkInv /\ AudioInv /\ ReplayInv
  BY DEF SttInv, AudioInv, AudioTypes
<1>2. /\ Len(waiting) \in Nat
      /\ \A i \in 1..Len(waiting) : waiting[i].id \in Nat
  BY <1>1, Ids
<1>3. PICK n \in Nat : parts' = [i \in 1..(IF n < Len(waiting) THEN n ELSE Len(waiting)) |-> waiting[i].id]
  BY SttAssumption DEF TakeBatch
<1>4. PICK m \in 0..Len(waiting) : parts' = [i \in 1..m |-> waiting[i].id]
  BY <1>2, <1>3
<1>5. parts' \in Seq(Nat) /\ Len(parts') = m /\ \A i \in 1..m : parts'[i] = waiting[i].id
  BY <1>2, <1>4
<1>6. UNCHANGED audioVars /\ waiting' = waiting
  BY DEF TakeBatch, audioVars
<1>7. AudioInv'
  BY <1>1, <1>5, <1>6, AudioStays
<1>8. BatchIsFirst'
  BY <1>2, <1>5, <1>6 DEF BatchIsFirst
<1>9. redo'.step = "send"
  BY <1>1 DEF LinkInv, TakeBatch, NoRedo
<1>10. QED
  BY <1>7, <1>8, <1>9 DEF ReplayInv, NoRedo

\* The second task is cut off, but the connection has taken its batch.
LEMMA CutOffStep ==
  ASSUME SttInv, KeepaliveReconnects, Hears(parts)
  PROVE  AudioInv' /\ ReplayInv'
<1>1. LinkInv /\ AudioInv /\ ReplayInv /\ AudioTypes /\ AudioOrder /\ NothingLost /\ BatchIsFirst
  BY DEF SttInv, AudioInv, ReplayInv
<1>2. /\ heard' \in Seq(Nat) /\ Sorted(heard')
      /\ ToSet(heard') = ToSet(heard) \cup ToSet(parts)
  BY <1>1, BatchHeard
<1>3. /\ ToSet(parts) \subseteq Pieces(waiting)
      /\ \A w \in Pieces(waiting) : w \in ToSet(parts) \/ \A x \in ToSet(parts) : x < w
  BY <1>1, BatchPieces
<1>4. /\ UNCHANGED <<audio, held, sending, waiting, dropped>> /\ parts' = <<>>
      /\ link' = "none" /\ redo'.step = "connect"
  BY DEF KeepaliveReconnects
<1>5. parts' \in Seq(Nat)
  BY <1>4
<1>6. AudioTypes'
  BY <1>1, <1>2, <1>3, <1>4, <1>5 DEF AudioTypes
<1>7. AudioOrder'
  <2>1. \A h \in ToSet(heard'), w \in Pieces(waiting) : w \in ToSet(heard') \/ h < w
    BY <1>1, <1>2, <1>3 DEF AudioOrder
  <2>2. sending # 0 => \A h \in ToSet(heard') : h < sending
    BY <1>1, <1>2, <1>3, NoPieces DEF AudioOrder
  <2>3. \A x \in ToSet(held) :
          sending < x /\ \A y \in ToSet(heard') \cup Pieces(waiting) : y < x
    BY <1>1, <1>2, <1>3 DEF AudioOrder
  <2>4. QED
    BY <1>1, <1>2, <1>4, <2>1, <2>2, <2>3 DEF AudioOrder
<1>8. NothingLost'
  BY <1>1, <1>2, <1>4 DEF NothingLost
<1>9. BatchIsFirst'
  BY <1>1, <1>4, NoBatch DEF AudioTypes
<1>10. QED
  BY <1>4, <1>6, <1>7, <1>8, <1>9 DEF AudioInv, ReplayInv

\* The batch is heard, and leaves the buffer.
LEMMA BatchSentStep ==
  ASSUME SttInv, BatchSent
  PROVE  AudioInv' /\ ReplayInv'
<1>1. LinkInv /\ AudioInv /\ ReplayInv /\ AudioTypes /\ AudioOrder /\ NothingLost /\ BatchIsFirst
  BY DEF SttInv, AudioInv, ReplayInv
<1>2. /\ heard' \in Seq(Nat) /\ Sorted(heard')
      /\ ToSet(heard') = ToSet(heard) \cup ToSet(parts)
  BY <1>1, BatchHeard DEF BatchSent
<1>3. /\ parts \in Seq(Nat) /\ ToSet(parts) \subseteq Pieces(waiting)
      /\ \A w \in Pieces(waiting) : w \in ToSet(parts) \/ \A x \in ToSet(parts) : x < w
  BY <1>1, BatchPieces
<1>4. /\ UNCHANGED <<audio, held, sending, dropped>> /\ parts' = <<>>
      /\ redo'.step = "batch" /\ sending = 0
      /\ waiting' = SubSeq(waiting, Len(parts) + 1, Len(waiting))
  BY <1>1 DEF BatchSent, LinkInv, NoRedo
<1>5. PICK k \in Nat : k = Len(parts) /\ k <= Len(waiting)
  BY <1>1, <1>3 DEF BatchIsFirst
<1>6. /\ waiting' \in Seq(Audio) /\ InOrder(waiting') /\ HasRoom(waiting')
      /\ Pieces(waiting') \subseteq Pieces(waiting)
      /\ \A w \in Pieces(waiting) :
           w \in Pieces(waiting') \/ \E i \in 1..k : waiting[i].id = w
  BY <1>1, <1>4, <1>5, Behind DEF AudioTypes, AudioOrder
<1>7. \A w \in Pieces(waiting) : w \in Pieces(waiting') \/ w \in ToSet(parts)
  <2>1. \A i \in 1..k : waiting[i].id = parts[i] /\ parts[i] \in ToSet(parts)
    BY <1>1, <1>3, <1>5, Elements DEF BatchIsFirst
  <2>2. QED
    BY <1>6, <2>1
<1>8. parts' \in Seq(Nat)
  BY <1>4
<1>9. AudioTypes'
  BY <1>1, <1>2, <1>3, <1>4, <1>6, <1>8 DEF AudioTypes
<1>10. AudioOrder'
  <2>1. \A h \in ToSet(heard'), w \in Pieces(waiting') : w \in ToSet(heard') \/ h < w
    BY <1>1, <1>2, <1>3, <1>6 DEF AudioOrder
  <2>2. \A x \in ToSet(held) :
          sending < x /\ \A y \in ToSet(heard') \cup Pieces(waiting') : y < x
    BY <1>1, <1>2, <1>3, <1>6 DEF AudioOrder
  <2>3. QED
    BY <1>1, <1>2, <1>4, <1>6, <2>1, <2>2 DEF AudioOrder
<1>11. NothingLost'
  BY <1>1, <1>2, <1>4, <1>7 DEF NothingLost
<1>12. BatchIsFirst'
  BY <1>4, <1>6, NoBatch
<1>13. redo' # NoRedo
  BY <1>4 DEF NoRedo
<1>14. QED
  BY <1>4, <1>9, <1>10, <1>11, <1>12, <1>13 DEF AudioInv, ReplayInv

LEMMA DropExpiredStep ==
  ASSUME SttInv, DropExpired
  PROVE  AudioInv' /\ ReplayInv'
<1>1. LinkInv /\ AudioInv /\ ReplayInv /\ AudioTypes /\ AudioOrder /\ NothingLost
  BY DEF SttInv, AudioInv
<1>2. /\ waiting' = Unexpired(waiting)
      /\ UNCHANGED <<audio, held, sending, heard, parts>>
      /\ dropped' = dropped \cup (Pieces(waiting) \ Pieces(waiting'))
      /\ redo.step = "drop" /\ redo'.step = "batch" /\ sending = 0
  BY <1>1 DEF DropExpired, LinkInv, NoRedo
<1>3. /\ waiting' \in Seq(Audio) /\ InOrder(waiting')
      /\ Pieces(waiting') \subseteq Pieces(waiting)
      /\ Len(waiting') <= Len(waiting) /\ Len(waiting') \in Nat /\ Len(waiting) \in Nat
  BY <1>1, <1>2, Expires DEF AudioTypes, AudioOrder
<1>4. HasRoom(waiting')
  BY <1>1, <1>3, SttAssumption DEF AudioTypes, HasRoom
<1>5. AudioTypes'
  BY <1>1, <1>2, <1>3, <1>4 DEF AudioTypes
<1>6. AudioOrder'
  BY <1>1, <1>2, <1>3 DEF AudioOrder
<1>7. NothingLost'
  BY <1>1, <1>2 DEF NothingLost
<1>8. parts' = <<>>
  BY <1>1, <1>2 DEF ReplayInv
<1>9. BatchIsFirst'
  BY <1>3, <1>8, NoBatch
<1>10. QED
  BY <1>2, <1>5, <1>6, <1>7, <1>8, <1>9 DEF AudioInv, ReplayInv, NoRedo

LEMMA AgesStep ==
  ASSUME SttInv, Ages
  PROVE  AudioInv' /\ ReplayInv'
<1>1. LinkInv /\ AudioInv /\ ReplayInv /\ AudioTypes /\ AudioOrder /\ NothingLost
  BY DEF SttInv, AudioInv
<1>2. PICK n \in 1..Len(waiting) : waiting' = [waiting EXCEPT ![n].old = TRUE]
  <2>1. waiting \in Seq(Audio) /\ DOMAIN waiting = 1..Len(waiting)
    BY <1>1 DEF AudioTypes
  <2>2. \E n \in DOMAIN waiting : waiting' = [waiting EXCEPT ![n].old = TRUE]
    BY Zenon DEF Ages
  <2>3. QED
    BY <2>1, <2>2
<1>3. /\ UNCHANGED <<audio, held, sending, heard, dropped, redo, parts, link>>
  BY DEF Ages, socket
<1>4. /\ waiting' \in Seq(Audio) /\ Len(waiting') = Len(waiting)
      /\ \A i \in 1..Len(waiting) : waiting'[i].id = waiting[i].id
      /\ Pieces(waiting') = Pieces(waiting)
  <2>1. waiting \in Seq(Audio)
    BY <1>1 DEF AudioTypes
  <2>2. /\ [waiting EXCEPT ![n].old = TRUE] \in Seq(Audio)
        /\ Len([waiting EXCEPT ![n].old = TRUE]) = Len(waiting)
        /\ \A i \in 1..Len(waiting) : [waiting EXCEPT ![n].old = TRUE][i].id = waiting[i].id
        /\ Pieces([waiting EXCEPT ![n].old = TRUE]) = Pieces(waiting)
    BY <2>1, Older
  <2>3. QED
    BY <1>2, <2>2, Zenon
<1>5. InOrder(waiting') /\ HasRoom(waiting')
  BY <1>1, <1>4 DEF AudioTypes, AudioOrder, InOrder, HasRoom
<1>6. waiting # <<>>
  BY <1>2
<1>7. AudioTypes'
  BY <1>1, <1>3, <1>4, <1>5 DEF AudioTypes
<1>8. AudioOrder'
  BY <1>1, <1>3, <1>4, <1>5, <1>6 DEF AudioOrder
<1>9. NothingLost'
  BY <1>1, <1>3, <1>4 DEF NothingLost
<1>10. BatchIsFirst'
  BY <1>1, <1>3, <1>4 DEF AudioTypes, ReplayInv, BatchIsFirst
<1>11. QED
  BY <1>1, <1>3, <1>6, <1>7, <1>8, <1>9, <1>10 DEF AudioInv, ReplayInv

LEMMA SentStep ==
  ASSUME SttInv, Sent
  PROVE  AudioInv' /\ ReplayInv'
<1>1. LinkInv /\ AudioInv /\ ReplayInv /\ AudioTypes /\ AudioOrder /\ NothingLost
  BY DEF SttInv, AudioInv
<1>2. /\ UNCHANGED <<audio, held, waiting, dropped, redo, parts, link>>
      /\ sending # 0 /\ sending' = 0 /\ Hears(<<sending>>)
  BY DEF Sent, socket
<1>3. /\ <<sending>> \in Seq(Nat) /\ Sorted(<<sending>>) /\ ToSet(<<sending>>) = {sending}
      /\ sending \in 1..audio
  <2>1. sending \in 1..audio /\ sending \in Nat
    BY <1>1, <1>2 DEF AudioTypes
  <2>2. ToSet(<<sending>>) = {sending}
    BY DEF ToSet
  <2>3. QED
    BY <2>1, <2>2 DEF Sorted
<1>4. waiting = <<>> /\ \A h \in ToSet(heard) : h < sending
  BY <1>1, <1>2 DEF AudioOrder
<1>5. /\ heard' \in Seq(Nat) /\ Sorted(heard')
      /\ ToSet(heard') = ToSet(heard) \cup {sending}
  BY <1>1, <1>2, <1>3, <1>4, AudioHeard
<1>6. AudioTypes'
  BY <1>1, <1>2, <1>3, <1>5 DEF AudioTypes
<1>7. AudioOrder'
  <2>1. \A x \in ToSet(held) : 0 < x /\ \A y \in ToSet(heard') \cup Pieces(waiting) : y < x
    BY <1>1, <1>3, <1>5 DEF AudioOrder, AudioTypes
  <2>2. QED
    BY <1>1, <1>2, <1>4, <1>5, <2>1, NoPieces DEF AudioOrder
<1>8. NothingLost'
  BY <1>1, <1>2, <1>5 DEF NothingLost
<1>9. QED
  BY <1>1, <1>2, <1>6, <1>7, <1>8 DEF AudioInv, ReplayInv, BatchIsFirst

LEMMA SendFailsStep ==
  ASSUME SttInv, SendFails
  PROVE  AudioInv' /\ ReplayInv'
<1>1. LinkInv /\ AudioInv /\ ReplayInv /\ AudioTypes /\ AudioOrder /\ NothingLost
  BY DEF SttInv, AudioInv
<1>2. /\ UNCHANGED <<audio, held, heard, redo, parts>>
      /\ sending # 0 /\ sending' = 0 /\ link' = "none" /\ BufferMedia(sending)
  BY DEF SendFails, Unsent
<1>3. sending \in 1..audio /\ sending \in Nat
  BY <1>1, <1>2 DEF AudioTypes
<1>4. waiting = <<>> /\ Pieces(waiting) = {} /\ \A h \in ToSet(heard) : h < sending
  BY <1>1, <1>2, NoPieces DEF AudioOrder
<1>5. /\ waiting' \in Seq(Audio) /\ InOrder(waiting') /\ HasRoom(waiting')
      /\ Pieces(waiting') = {sending} /\ dropped' = dropped
  BY <1>1, <1>2, <1>3, <1>4, AudioBuffered
<1>6. AudioTypes'
  BY <1>1, <1>2, <1>3, <1>5 DEF AudioTypes
<1>7. AudioOrder'
  <2>1. \A x \in ToSet(held) : 0 < x /\ \A y \in ToSet(heard) \cup {sending} : y < x
    BY <1>1, <1>3 DEF AudioOrder, AudioTypes
  <2>2. QED
    BY <1>1, <1>2, <1>4, <1>5, <2>1 DEF AudioOrder
<1>8. NothingLost'
  BY <1>1, <1>2, <1>4, <1>5 DEF NothingLost
<1>9. parts' = <<>>
  BY <1>1, <1>2 DEF LinkInv, ReplayInv
<1>10. BatchIsFirst'
  BY <1>5, <1>9, NoBatch
<1>11. QED
  BY <1>2, <1>6, <1>7, <1>8, <1>9, <1>10 DEF AudioInv, ReplayInv

\* run_stt takes a piece that follows all that was heard or waits, and precedes all that
\* is held.
LEMMA RunStep ==
  ASSUME SttInv, redo = NoRedo, sending = 0,
         audio' \in 0..MaxAudio, audio <= audio', NEW id \in 1..audio',
         1..audio' \subseteq 1..audio \cup {id},
         held' \in Seq(Nat), Sorted(held'), ToSet(held) \subseteq ToSet(held') \cup {id},
         \A y \in ToSet(heard) \cup Pieces(waiting) : y < id,
         \A x \in ToSet(held') : id < x /\ x <= audio',
         Run(id), UNCHANGED <<heard, redo, parts, link>>
  PROVE  AudioInv' /\ ReplayInv'
<1>1. LinkInv /\ AudioInv /\ ReplayInv /\ AudioTypes /\ AudioOrder /\ NothingLost
  BY DEF SttInv, AudioInv
<1>2. redo.step # "send" /\ parts' = <<>>
  BY <1>1 DEF ReplayInv, NoRedo
<1>3. audio \in Nat /\ audio' \in Nat /\ id \in Nat
  BY <1>1 DEF AudioTypes
<1>4. ToSet(held') \subseteq 1..audio'
  <2>1. ToSet(held') \subseteq Nat
    BY Elements
  <2>2. QED
    BY <1>3, <2>1
<1>5. CASE link # "none"
  <2>1. sending' = id /\ UNCHANGED <<waiting, dropped>>
    BY <1>5 DEF Run
  <2>2. waiting = <<>> /\ Pieces(waiting) = {}
    BY <1>1, <1>5, NoPieces DEF ReplayInv
  <2>3. AudioTypes'
    BY <1>1, <1>2, <1>3, <1>4, <2>1, <2>2 DEF AudioTypes
  <2>4. \A x \in ToSet(held'), y \in ToSet(heard) : y < x
    <3>1. \A y \in ToSet(heard) : y \in Nat
      BY <1>1, <1>3 DEF AudioTypes
    <3>2. \A x \in ToSet(held') : x \in Nat
      BY <1>4
    <3>3. QED
      BY <1>3, <3>1, <3>2
  <2>5. AudioOrder'
    BY <1>1, <2>1, <2>2, <2>4 DEF AudioOrder
  <2>6. NothingLost'
    <3>1. 1..audio \subseteq ToSet(heard) \cup dropped \cup ToSet(held) \cup {0}
      BY <1>1, <2>2 DEF NothingLost
    <3>2. 0 \notin 1..audio
      OBVIOUS
    <3>3. QED
      BY <2>1, <3>1, <3>2 DEF NothingLost
  <2>7. waiting' \in Seq(Audio)
    BY <1>1, <2>1 DEF AudioTypes
  <2>8. BatchIsFirst'
    BY <1>2, <2>7, NoBatch
  <2>9. QED
    BY <1>2, <2>1, <2>2, <2>3, <2>5, <2>6, <2>8 DEF AudioInv, ReplayInv
<1>6. CASE link = "none"
  <2>1. BufferMedia(id) /\ sending' = 0
    BY <1>6 DEF Run
  <2>2. /\ waiting' \in Seq(Audio) /\ InOrder(waiting') /\ HasRoom(waiting')
        /\ id \in Pieces(waiting') /\ Pieces(waiting') \subseteq Pieces(waiting) \cup {id}
        /\ dropped' = dropped \cup (Pieces(waiting) \ Pieces(waiting'))
    BY <1>1, <1>3, <2>1, AudioBuffered
  <2>3. ToSet(heard) \cup dropped \cup Pieces(waiting) \subseteq 1..audio'
    BY <1>1, <1>3 DEF AudioTypes
  <2>4. AudioTypes'
    BY <1>1, <1>2, <1>3, <1>4, <2>1, <2>2, <2>3 DEF AudioTypes
  <2>5. \A x \in ToSet(held') : 0 < x /\ \A y \in ToSet(heard) \cup Pieces(waiting') : y < x
    <3>1. \A y \in ToSet(heard) \cup Pieces(waiting') : y \in Nat /\ y <= id
      BY <1>3, <2>2, <2>3
    <3>2. \A x \in ToSet(held') : x \in Nat
      BY <1>4
    <3>3. QED
      BY <1>3, <3>1, <3>2
  <2>6. \A h \in ToSet(heard), w \in Pieces(waiting') : w \in ToSet(heard) \/ h < w
    BY <1>1, <2>2 DEF AudioOrder
  <2>7. AudioOrder'
    BY <1>1, <2>1, <2>2, <2>5, <2>6 DEF AudioOrder
  <2>8. NothingLost'
    <3>1. 1..audio \subseteq ToSet(heard) \cup dropped \cup Pieces(waiting) \cup ToSet(held) \cup {0}
      BY <1>1 DEF NothingLost
    <3>2. 0 \notin 1..audio
      OBVIOUS
    <3>3. QED
      BY <2>1, <2>2, <3>1, <3>2 DEF NothingLost
  <2>9. BatchIsFirst'
    BY <1>2, <2>2, NoBatch
  <2>10. QED
    BY <1>2, <1>6, <2>4, <2>7, <2>8, <2>9 DEF AudioInv, ReplayInv
<1>7. QED
  BY <1>5, <1>6

LEMMA ReplayStep ==
  ASSUME SttInv, Replay
  PROVE  AudioInv' /\ ReplayInv'
<1>1. AudioTypes /\ AudioOrder
  BY DEF SttInv, AudioInv
<1>2. /\ held # <<>> /\ redo = NoRedo /\ sending = 0
      /\ held' = Tail(held) /\ Run(Head(held))
      /\ UNCHANGED <<audio, heard, redo, parts, link>>
  BY DEF Replay, socket
<1>3. /\ held' \in Seq(Nat) /\ Sorted(held') /\ Head(held) \in Nat
      /\ ToSet(held) = ToSet(held') \cup {Head(held)}
      /\ \A y \in ToSet(held') : Head(held) < y
  BY <1>1, <1>2, HeldLess DEF AudioTypes, AudioOrder
<1>4. Head(held) \in 1..audio /\ \A x \in ToSet(held') : x <= audio
  BY <1>1, <1>3 DEF AudioTypes
<1>5. \A y \in ToSet(heard) \cup Pieces(waiting) : y < Head(held)
  BY <1>1, <1>3 DEF AudioOrder
<1>6. audio \in Nat /\ audio' = audio /\ audio' \in 0..MaxAudio
  BY <1>1, <1>2 DEF AudioTypes
<1>7. QED
  BY <1>2, <1>3, <1>4, <1>5, <1>6, RunStep

LEMMA ArriveStep ==
  ASSUME SttInv, Arrive
  PROVE  AudioInv' /\ ReplayInv'
<1>1. LinkInv /\ AudioInv /\ ReplayInv /\ AudioTypes /\ AudioOrder /\ NothingLost
  BY DEF SttInv, AudioInv
<1>2. /\ sending = 0 /\ audio' = audio + 1 /\ audio' \in 0..MaxAudio /\ audio \in Nat
      /\ UNCHANGED <<heard, redo, parts, link>>
  BY <1>1, SttAssumption DEF Arrive, AudioTypes, socket
<1>3. /\ 1..audio' = 1..audio \cup {audio'} /\ audio' \in 1..audio'
      /\ ToSet(held) \cup ToSet(heard) \cup dropped \cup Pieces(waiting) \subseteq 1..audio
      /\ \A y \in 1..audio : y < audio'
  BY <1>1, <1>2 DEF AudioTypes
<1>4. CASE Direct
  <2>1. /\ Run(audio') /\ held' = held /\ held = <<>> /\ redo = NoRedo /\ held' \in Seq(Nat)
        /\ Sorted(held')
    BY <1>1, <1>4 DEF Arrive, Direct, AudioTypes, AudioOrder
  <2>2. ToSet(held) = {} /\ ToSet(held') = {}
    BY <2>1, NoPieces
  <2>3. QED
    BY <1>2, <1>3, <2>1, <2>2, RunStep
<1>5. CASE ~Direct
  <2>1. held' = Append(held, audio') /\ UNCHANGED <<sending, waiting, dropped>>
    BY <1>5 DEF Arrive
  <2>2. /\ held' \in Seq(Nat) /\ Sorted(held')
        /\ ToSet(held') = ToSet(held) \cup {audio'}
    BY <1>1, <1>2, <1>3, <2>1, HeldMore DEF AudioTypes, AudioOrder
  <2>3. AudioTypes'
    BY <1>1, <1>2, <1>3, <2>1, <2>2 DEF AudioTypes
  <2>4. AudioOrder'
    <3>1. \A x \in ToSet(held') :
            0 < x /\ \A y \in ToSet(heard) \cup Pieces(waiting) : y < x
      BY <1>1, <1>2, <1>3, <2>2 DEF AudioOrder
    <3>2. QED
      BY <1>1, <1>2, <2>1, <2>2, <3>1 DEF AudioOrder
  <2>5. NothingLost'
    BY <1>1, <1>2, <1>3, <2>1, <2>2 DEF NothingLost
  <2>6. ReplayInv'
    BY <1>1, <1>2, <2>1 DEF ReplayInv, BatchIsFirst
  <2>7. QED
    BY <2>3, <2>4, <2>5, <2>6 DEF AudioInv
<1>6. QED
  BY <1>4, <1>5

LEMMA SttStep == SttInv /\ [SttNext]_sttVars => SttInv'
<1> SUFFICES ASSUME SttInv, [SttNext]_sttVars PROVE SttInv'
  OBVIOUS
<1>1. LinkInv'
  BY LinkStep DEF SttInv
<1>2. ASSUME KeepaliveReconnects
      PROVE  AudioInv' /\ ReplayInv'
  <2>1. CASE UNCHANGED heard
    BY <1>2, <2>1, QuietStep
  <2>2. CASE Hears(parts)
    BY <1>2, <2>2, CutOffStep
  <2>3. QED
    BY <1>2, <2>1, <2>2 DEF KeepaliveReconnects
<1>3. AudioInv' /\ ReplayInv'
  BY <1>2, QuietStep, AgesStep, DropExpiredStep, TakeBatchStep, BatchSentStep, ArriveStep,
     ReplayStep, SentStep, SendFailsStep DEF SttNext
<1>4. QED
  BY <1>1, <1>3 DEF SttInv

LEMMA SttInductive == SttSpec => []SttInv
<1>1. SttInit => SttInv
  BY LinkStarts, AudioStarts DEF SttInv
<1>2. QED
  BY <1>1, SttStep, PTL DEF SttSpec

\* The recogniser hears the audio in the order in which it was spoken, and nothing of it is
\* lost but for its age and for want of room (deepgram_stt.py:160-210, 258-270).
THEOREM AudioIsKept == SttSpec => []AudioKept
<1>1. SttInv => AudioKept
  <2> SUFFICES ASSUME SttInv PROVE UtteranceOrder /\ NothingLost
    BY DEF AudioKept
  <2>1. heard \in Seq(Nat) /\ Sorted(heard) /\ NothingLost
    BY DEF SttInv, AudioInv, AudioTypes, AudioOrder
  <2>2. QED
    BY <2>1 DEF UtteranceOrder, Sorted
<1>2. QED
  BY <1>1, SttInductive, PTL

\* What no step can mistype.
SttTypeInv == alive \in BOOLEAN /\ breaks \in 0..MaxBreaks

LEMMA SttTypeStarts == SttInit => SttTypeInv
BY SttAssumption DEF SttInit, SttTypeInv

LEMMA SttTypeStep == SttTypeInv /\ [SttNext]_sttVars => SttTypeInv'
<1> SUFFICES ASSUME SttTypeInv, [SttNext]_sttVars PROVE SttTypeInv'
  OBVIOUS
<1>1. \/ alive' \in {alive, TRUE, FALSE} /\ breaks' = breaks
      \/ Breaks
  BY DEF SttNext, sttVars, socket, Ages, KeepaliveFails, KeepaliveReconnects, MediaReconnects,
     Connected, ConnectFails, DropExpired, TakeBatch, BatchSent, BatchFails, Flushed,
     Arrive, Replay, Sent, SendFails
<1>2. CASE Breaks
  BY <1>2, SttAssumption DEF Breaks, SttTypeInv
<1>3. QED
  BY <1>1, <1>2 DEF SttTypeInv

\* Every variable of the recogniser has its type, and the buffer keeps its limit.
THEOREM SttTypeCorrect == SttSpec => []SttTypeOK
<1>1. SttInv /\ SttTypeInv => SttTypeOK
  <2> SUFFICES ASSUME SttInv, SttTypeInv PROVE SttTypeOK
    OBVIOUS
  <2>1. LinkInv /\ AudioInv /\ BatchIsFirst /\ AudioTypes
    BY DEF SttInv, ReplayInv, AudioInv
  <2>2. ToSet(parts) \subseteq 1..audio
    BY <2>1, BatchPieces DEF AudioTypes
  <2>3. redo.step \in {"none", "connect", "drop", "batch", "send"}
    BY <2>1 DEF LinkInv, NoRedo, RecoverySteps
  <2>4. sending \in 0..MaxAudio
    BY <2>1, SttAssumption DEF AudioTypes
  <2>5. waiting \in Seq([id : Nat, old : BOOLEAN])
    BY <2>1 DEF AudioTypes, Audio
  <2>6. Len(waiting) <= MaxBuffer \/ Len(waiting) <= 1
    BY <2>1 DEF AudioTypes, HasRoom
  <2>7. /\ audio \in 0..MaxAudio
        /\ ToSet(held) \cup ToSet(parts) \cup ToSet(heard) \cup dropped \cup Pieces(waiting)
             \subseteq 1..audio
    BY <2>1, <2>2 DEF AudioTypes
  <2>8. {alive, gaveUp} \subseteq BOOLEAN
    BY <2>1 DEF LinkInv, SttTypeInv
  <2>9. QED
    BY <2>1, <2>3, <2>4, <2>5, <2>6, <2>7, <2>8 DEF LinkInv, SttTypeInv, SttTypeOK
<1>2. QED
  BY <1>1, SttInductive, SttTypeStarts, SttTypeStep, PTL DEF SttSpec

(***************************************************************************)
(* The session the parts make up, in which each step is one of the part it   *)
(* exercises: it is a session of every part, so what is proved of a part     *)
(* holds in it.                                                              *)
(***************************************************************************)

\* A step of the session is a step of each part, or leaves it as it is.
LEMMA TrimSteps == [StageNext]_stageVars => [TrimNext]_trimVars
<1>1. StageNext => TrimNext \/ UNCHANGED trimVars
  BY Zenon DEF StageNext, TrimNext, InTrim, InIssue, InRequest, InSession, InStt, InTurn
<1>2. QED
  BY <1>1, Zenon DEF stageVars

LEMMA IssueSteps == [StageNext]_stageVars => [IssueNext]_issueVars
<1>1. StageNext => IssueNext \/ UNCHANGED issueVars
  BY Zenon DEF StageNext, IssueNext, InTrim, InIssue, InRequest, InSession, InStt, InTurn
<1>2. QED
  BY <1>1, Zenon DEF stageVars

LEMMA LlmSteps == [StageNext]_stageVars => [LlmNext]_llmVars
<1>1. StageNext => LlmNext \/ UNCHANGED llmVars
  BY Zenon DEF StageNext, LlmNext, InTrim, InIssue, InRequest, InSession, InStt, InTurn
<1>2. QED
  BY <1>1, Zenon DEF stageVars

LEMMA SessionSteps == [StageNext]_stageVars => [SessionNext]_sessionVars
<1>1. StageNext => SessionNext \/ UNCHANGED sessionVars
  BY Zenon DEF StageNext, SessionNext, SessionStep,
               InTrim, InIssue, InRequest, InSession, InStt, InTurn
<1>2. QED
  BY <1>1, Zenon DEF stageVars

LEMMA SttSteps == [StageNext]_stageVars => [SttNext]_sttVars
<1>1. StageNext => SttNext \/ UNCHANGED sttVars
  BY Zenon DEF StageNext, SttNext, InTrim, InIssue, InRequest, InSession, InStt, InTurn
<1>2. QED
  BY <1>1, Zenon DEF stageVars

LEMMA TurnSteps == [StageNext]_stageVars => [TurnNext]_turnVars
<1>1. StageNext => TurnNext \/ UNCHANGED turnVars
  BY Zenon DEF StageNext, TurnNext, User, Pipeline, Llm,
               InTrim, InIssue, InRequest, InSession, InStt, InTurn
<1>2. QED
  BY <1>1, Zenon DEF stageVars

\* Whatever part a session exercises, it is a behaviour of each of them.
THEOREM StagesImplemented ==
  StageSpec => /\ TrimSpec /\ IssueSpec /\ LlmSpec /\ SessionSpec /\ SttSpec /\ TurnSpec
<1>1. StageInit => TrimInit /\ IssueInit /\ LlmInit /\ SessionInit /\ SttInit /\ TurnInit
  BY DEF StageInit
<1>2. QED
  BY <1>1, TrimSteps, IssueSteps, LlmSteps, SessionSteps, SttSteps, TurnSteps, PTL
     DEF StageSpec, TrimSpec, IssueSpec, LlmSpec, SessionSpec, SttSpec, TurnSpec

\* Every variable of a session keeps its type.
THEOREM StagesTyped ==
  ASSUME CapacityAssumption, TurnGateAssumption
  PROVE  StageSpec => []StageTypeOK
<1>1. TrimSpec => []TrimInv
  BY InvStarts, InvStep, PTL DEF TrimSpec
<1>2. IssueSpec => []IssueInv
  BY IssueInvariant
<1>3. LlmSpec => []LlmInv
  BY LlmStarts, LlmStep, PTL DEF LlmSpec
<1>4. SessionSpec => []SessionInv
  BY SessionInvariant, CapacityAssumption
<1>5. SttSpec => []SttTypeOK
  BY SttTypeCorrect
<1>6. TurnSpec => []TurnTypeOK
  BY TurnTypeCorrect, TurnGateAssumption
<1>7. TrimInv /\ IssueInv /\ LlmInv /\ SessionInv /\ SttTypeOK /\ TurnTypeOK => StageTypeOK
  BY DEF TrimInv, IssueInv, LlmInv, SessionInv, StageTypeOK
<1>8. QED
  BY <1>1, <1>2, <1>3, <1>4, <1>5, <1>6, <1>7, StagesImplemented, PTL

\* What holds of the parts holds of the session they make up, at once and for ever: its
\* speeches, its offers of the issue tool, its deadlines, its leases, its audio and its
\* gate, in either order of a barge-in's announcement.
THEOREM StagesSafe ==
  ASSUME CapacityAssumption, TurnGateAssumption
  PROVE  StageSpec =>
           /\ [](/\ PrerollExact /\ OfferHasCause /\ DeadlinesKept /\ ToolsRestored
                 /\ LeasesCounted /\ OrphansOfFailedStart /\ AudioKept /\ NotStranded)
           /\ OwnSpeechReleases /\ OnlyOvertakingStrands
<1>1. SessionSpec => []LeasesCounted /\ []OrphansOfFailedStart
  BY LeasesKeepCount, OnlyFailedStartsLeaveTasks, CapacityAssumption
<1>2. TurnSpec => OwnSpeechReleases /\ OnlyOvertakingStrands
  BY SpeechReleasesItsOwn, OvertakingAloneStrands, TurnGateAssumption
<1>3. QED
  BY <1>1, <1>2, PrerollKept, OfferedForACause, DeadlinesHold, ToolsComeBack, AudioIsKept,
     ReplacementNotStranded, StagesImplemented, PTL
=============================================================================
