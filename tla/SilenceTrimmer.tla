---------------------------- MODULE SilenceTrimmer ----------------------------
(***************************************************************************)
(* LeadingSilenceTrimmerProcessor (core/processors.py): the silence at the  *)
(* beginning of each speech is dropped, except a preroll before the first   *)
(* audible sample.  Frames of several speech contexts may alternate.        *)
(*                                                                          *)
(* The PCM bytes of a speech are numbered from 0 as they arrive.  What the  *)
(* processor holds and delivers are runs of these bytes, so a run is given  *)
(* by where it starts: the buffer by its length, since it always ends with  *)
(* the last byte that arrived.  A sample has two bytes; a frame is given by *)
(* the number of its samples and the first one louder than the threshold.   *)
(***************************************************************************)
EXTENDS Integers

CONSTANTS
  Contexts,    \* context ids of speeches
  Frames,      \* the frames that may come; first = -1 when all is silence
  Prerolls,    \* values of preroll_bytes
  MaxSamples   \* bound: samples of one speech

ASSUME TrimConstants ==
  /\ Prerolls \subseteq Nat
  /\ \A f \in Frames : /\ f.samples \in Nat /\ f.first \in Nat \cup {-1}
                       /\ f.first < f.samples
  /\ MaxSamples \in Nat

VARIABLES
  preroll,    \* preroll_bytes, fixed by the configuration and the sample rate
  open,       \* contexts between their first frame and TTSStoppedFrame
  buffer,     \* length of _buffers[c], 0 without one
  audible,    \* _audible_contexts
  arrived,    \* history: bytes of the speech that have arrived
  loud,       \* history: the first byte of its first audible sample, or -1
  delivered   \* history: the first byte that was delivered, or -1

trimVars == <<preroll, open, buffer, audible, arrived, loud, delivered>>

TrimTypeOK ==
  /\ preroll \in Prerolls
  /\ open \subseteq Contexts /\ audible \subseteq Contexts
  /\ buffer \in [Contexts -> Nat]
  /\ arrived \in [Contexts -> Nat]
  /\ loud \in [Contexts -> Nat \cup {-1}]
  /\ delivered \in [Contexts -> Nat \cup {-1}]

TrimInit ==
  /\ preroll \in Prerolls
  /\ open = {} /\ audible = {}
  /\ buffer = [c \in Contexts |-> 0]
  /\ arrived = [c \in Contexts |-> 0]
  /\ loud = [c \in Contexts |-> -1]
  /\ delivered = [c \in Contexts |-> -1]

-----------------------------------------------------------------------------

Bytes(frame) == 2 * frame.samples
Audible(frame) == frame.first # -1

\* first_audible_byte, of an audible frame.
FirstAudible(frame) == 2 * frame.first

\* The buffer after a frame without an audible sample keeps the last bytes.
Held(length) == IF length > preroll THEN preroll ELSE length

\* Mutant: a speech shorter than the preroll makes the slice start below 0.
DeliveredUnclamped(c, frame) ==
  arrived[c] - buffer[c] + buffer[c] + FirstAudible(frame) - preroll

\* combined[start:]: where in the speech the first delivered byte is.
DeliveredFrom(c, frame) ==
  LET speechOffset == buffer[c] + FirstAudible(frame)
      start == IF speechOffset > preroll THEN speechOffset - preroll ELSE 0 IN
  arrived[c] - buffer[c] + start

\* Mutant: the mark of the speech before stays.
ResetBuffer(c) == buffer' = [buffer EXCEPT ![c] = 0] /\ UNCHANGED audible

\* _reset_context, and the empty buffer of a new speech.
Reset(c) ==
  /\ buffer' = [buffer EXCEPT ![c] = 0]
  /\ audible' = audible \ {c}

Forget(c) ==
  /\ arrived' = [arrived EXCEPT ![c] = 0]
  /\ loud' = [loud EXCEPT ![c] = -1]
  /\ delivered' = [delivered EXCEPT ![c] = -1]

\* TTSStartedFrame, which may come without an end of the context's last speech.
SpeechStarted(c) ==
  /\ open' = open \cup {c}
  /\ Reset(c)
  /\ Forget(c)
  /\ UNCHANGED preroll

\* TTSStoppedFrame
SpeechStopped(c) ==
  /\ c \in open
  /\ open' = open \ {c}
  /\ Reset(c)
  /\ Forget(c)
  /\ UNCHANGED preroll

\* InterruptionFrame: what comes of a context after it is taken for a new speech.
Interrupted ==
  /\ open' = {} /\ audible' = {}
  /\ buffer' = [c \in Contexts |-> 0]
  /\ arrived' = [c \in Contexts |-> 0]
  /\ loud' = [c \in Contexts |-> -1]
  /\ delivered' = [c \in Contexts |-> -1]
  /\ UNCHANGED preroll

Arrives(c, frame) ==
  /\ arrived[c] + Bytes(frame) <= 2 * MaxSamples
  /\ arrived' = [arrived EXCEPT ![c] = @ + Bytes(frame)]
  /\ open' = open \cup {c}
  /\ UNCHANGED preroll

\* A frame after the first audible one passes unchanged.
PassFrame(c, frame) ==
  /\ c \in audible
  /\ Arrives(c, frame)
  /\ delivered' = [delivered EXCEPT ![c] = IF @ = -1 THEN arrived[c] ELSE @]
  /\ loud' = [loud EXCEPT ![c] = IF @ = -1 /\ Audible(frame)
                                 THEN arrived[c] + FirstAudible(frame) ELSE @]
  /\ UNCHANGED <<buffer, audible>>

\* A silent frame before it is swallowed.
HoldFrame(c, frame) ==
  /\ c \notin audible
  /\ ~Audible(frame)
  /\ Arrives(c, frame)
  /\ buffer' = [buffer EXCEPT ![c] = Held(@ + Bytes(frame))]
  /\ UNCHANGED <<audible, loud, delivered>>

\* The first audible frame is delivered with the preroll in front.
FirstSpeech(c, frame) ==
  /\ c \notin audible
  /\ Audible(frame)
  /\ Arrives(c, frame)
  /\ delivered' = [delivered EXCEPT ![c] = DeliveredFrom(c, frame)]
  /\ loud' = [loud EXCEPT ![c] = arrived[c] + FirstAudible(frame)]
  /\ buffer' = [buffer EXCEPT ![c] = 0]
  /\ audible' = audible \cup {c}

TrimNext ==
  \/ Interrupted
  \/ \E c \in Contexts : SpeechStarted(c) \/ SpeechStopped(c)
  \/ \E c \in Contexts, frame \in Frames :
       PassFrame(c, frame) \/ HoldFrame(c, frame) \/ FirstSpeech(c, frame)

TrimSpec == TrimInit /\ [][TrimNext]_trimVars

-----------------------------------------------------------------------------
(* Properties *)

\* However a speech is cut into frames, what is delivered of it starts exactly
\* preroll bytes before its first audible sample, or with its first byte if it
\* has fewer: no speech is clipped and no longer silence is heard.
PrerollExact ==
  \A c \in Contexts :
    IF loud[c] = -1 THEN delivered[c] = -1
    ELSE delivered[c] = IF loud[c] > preroll THEN loud[c] - preroll ELSE 0
=============================================================================
