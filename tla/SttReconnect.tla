---------------------------- MODULE SttReconnect ----------------------------
(***************************************************************************)
(* providers/stt/deepgram_stt.py: a speech recogniser that loses its socket. *)
(* Audio that could not be sent waits in a buffer, limited in size and age,  *)
(* until the flush after a reconnect.  Two tasks reconnect: one when a       *)
(* keepalive fails, one when audio cannot be sent.                           *)
(*                                                                          *)
(* External, pipecat's service: _request_reconnect disconnects, connects and *)
(* calls _do_reconnect's rest; meanwhile it holds the audio that arrives,    *)
(* and hands it to run_stt afterwards; run_stt is called for one piece of    *)
(* audio at a time; closing a socket ends the sends on it.  The socket       *)
(* accepts what it is sent until it breaks.  Pieces of audio have one size.  *)
(***************************************************************************)
EXTENDS Integers, Sequences, SequencesExt, Subsequences

CONSTANTS
  MaxAudio,   \* bound: pieces of audio
  MaxBuffer,  \* STT_RECONNECT_BUFFER_MAX_BYTES, in pieces
  Batch,      \* STT_RECONNECT_REPLAY_BATCH_BYTES, in pieces
  MaxBreaks   \* bound: sockets that break

ASSUME SttAssumption ==
  {MaxAudio, MaxBuffer, Batch, MaxBreaks} \subseteq Nat

VARIABLES
  link,     \* _connection: "none", "up", or "broken" when its sends fail
  alive,    \* the keepalive handler of the connection runs
  audio,  \* the pieces of audio so far
  held,     \* those pipecat holds while it reconnects
  sending,  \* the piece run_stt is sending, or 0
  waiting,  \* _reconnect_media_buffer, its pieces and whether they have expired
  keep,     \* _keepalive_recovery_task
  media,    \* _media_recovery_task
  redo,     \* the reconnect that runs: its task and step
  parts,    \* the pieces the flush is sending
  heard,    \* history: what the recogniser has heard, in the order of the first time
  dropped,  \* history: what was dropped for its age or for want of room
  gaveUp,   \* history: the last reconnect failed, or its task lost its own replay
  breaks    \* sockets broken so far

audioVars == <<audio, held, sending, waiting, heard, dropped>>
tasks == <<keep, media>>
socket == <<link, alive, breaks>>
sttVars == <<socket, audioVars, tasks, redo, parts, gaveUp>>

NoRedo == [by |-> "none", step |-> "none"]

SttInit ==
  /\ link = "up" /\ alive = TRUE /\ breaks = 0
  /\ audio = 0 /\ held = <<>> /\ sending = 0
  /\ waiting = <<>> /\ heard = <<>> /\ dropped = {}
  /\ keep = "idle" /\ media = "idle"
  /\ redo = NoRedo /\ parts = <<>> /\ gaveUp = FALSE

-----------------------------------------------------------------------------
(* The buffer *)

Pieces(b) == {b[i].id : i \in DOMAIN b}

\* _drop_expired_media: the oldest come first.
Unexpired(b) == Only(b, [id : Nat, old : {FALSE}])

\* _buffer_media: room is made by dropping the oldest, the new piece always stays.
Buffered(b, id) ==
  LET all == Append(Unexpired(b), [id |-> id, old |-> FALSE]) IN
  IF Len(all) > MaxBuffer /\ Len(all) > 1 THEN Tail(all) ELSE all

BufferMedia(id) ==
  /\ waiting' = Buffered(waiting, id)
  /\ dropped' = dropped \cup (Pieces(waiting) \ Pieces(waiting'))

\* A piece has been in the buffer too long.
Ages ==
  /\ \E i \in DOMAIN waiting :
       /\ ~waiting[i].old /\ \A j \in 1..(i - 1) : waiting[j].old
       /\ waiting' = [waiting EXCEPT ![i].old = TRUE]
  /\ UNCHANGED <<socket, audio, held, sending, heard, dropped, tasks, redo, parts, gaveUp>>

\* What is heard for the first time.
Hears(ids) == heard' = heard \o Only(ids, Nat \ ToSet(heard))

-----------------------------------------------------------------------------
(* The recovery tasks *)

\* Mutant: no second task while the keepalive's is there.
ScheduledAlone == IF media = "idle" /\ keep = "idle" THEN "scheduled" ELSE media

\* _schedule_media_recovery.
ScheduledMedia == IF media = "idle" THEN "scheduled" ELSE media

\* _keepalive_handler: a keepalive fails, and the handler returns.
KeepaliveFails ==
  /\ link = "broken" /\ alive
  /\ alive' = FALSE
  /\ keep' = IF keep = "idle" THEN "scheduled" ELSE keep
  /\ UNCHANGED <<link, breaks, audioVars, media, redo, parts, gaveUp>>

\* Its task asks for a reconnect.  _disconnect cancels the other task, whose batch may
\* have been sent.
KeepaliveReconnects ==
  /\ keep = "scheduled" /\ keep' = "running" /\ media' = "idle"
  /\ redo' = [by |-> "keep", step |-> "connect"]
  /\ link' = "none" /\ alive' = FALSE
  /\ parts' = <<>>
  /\ \/ UNCHANGED heard
     \/ link = "up" /\ Hears(parts)
  /\ UNCHANGED <<breaks, audio, held, sending, waiting, dropped, gaveUp>>

\* _recover_after_active_reconnect: it waits for the keepalive's task, and asks for a
\* reconnect if there is no connection then.
MediaReconnects ==
  /\ media = "scheduled" /\ keep = "idle"
  /\ IF link = "none"
     THEN media' = "running" /\ redo' = [by |-> "media", step |-> "connect"]
     ELSE media' = "idle" /\ UNCHANGED redo
  /\ UNCHANGED <<socket, audioVars, keep, parts, gaveUp>>

\* The task of the reconnect ends.
TaskEnds ==
  /\ redo' = NoRedo
  /\ keep' = IF redo.by = "keep" THEN "idle" ELSE keep

\* _connect.
Connected ==
  /\ redo.step = "connect" /\ sending = 0
  /\ link' = "up" /\ alive' = TRUE /\ gaveUp' = FALSE
  /\ redo' = [redo EXCEPT !.step = "drop"]
  /\ UNCHANGED <<breaks, audioVars, tasks, parts>>

\* It is not ready in time.
ConnectFails ==
  /\ redo.step = "connect"
  /\ TaskEnds
  /\ media' = IF redo.by = "media" THEN "idle" ELSE media
  /\ gaveUp' = TRUE
  /\ UNCHANGED <<socket, audioVars, parts>>

-----------------------------------------------------------------------------
(* _flush_media_buffer *)

DropExpired ==
  /\ redo.step = "drop" /\ redo' = [redo EXCEPT !.step = "batch"]
  /\ waiting' = Unexpired(waiting)
  /\ dropped' = dropped \cup (Pieces(waiting) \ Pieces(waiting'))
  /\ UNCHANGED <<socket, audio, held, sending, heard, tasks, parts, gaveUp>>

TakeBatch ==
  /\ redo.step = "batch" /\ waiting # <<>>
  /\ parts' = LET n == IF Batch > 1 THEN Batch ELSE 1 IN
              [i \in 1..(IF n < Len(waiting) THEN n ELSE Len(waiting)) |-> waiting[i].id]
  /\ redo' = [redo EXCEPT !.step = "send"]
  /\ UNCHANGED <<socket, audioVars, tasks, gaveUp>>

BatchSent ==
  /\ redo.step = "send" /\ link = "up"
  /\ Hears(parts)
  /\ waiting' = SubSeq(waiting, Len(parts) + 1, Len(waiting))
  /\ parts' = <<>> /\ redo' = [redo EXCEPT !.step = "batch"]
  /\ UNCHANGED <<socket, audio, held, sending, dropped, tasks, gaveUp>>

\* The media task schedules nothing from within itself.
BatchFails ==
  /\ redo.step = "send" /\ link = "broken"
  /\ link' = "none" /\ alive' = FALSE
  /\ parts' = <<>> /\ TaskEnds
  /\ media' = IF redo.by = "media" THEN "idle" ELSE ScheduledMedia
  /\ gaveUp' = (redo.by = "media")
  /\ UNCHANGED <<breaks, audioVars>>

Flushed ==
  /\ redo.step = "batch" /\ waiting = <<>>
  /\ TaskEnds
  /\ media' = IF redo.by = "media" THEN "idle" ELSE media
  /\ UNCHANGED <<socket, audioVars, parts, gaveUp>>

-----------------------------------------------------------------------------
(* run_stt *)

Run(id) ==
  IF link # "none"
  THEN sending' = id /\ UNCHANGED <<waiting, dropped, media>>
  ELSE BufferMedia(id) /\ media' = ScheduledMedia /\ UNCHANGED sending

\* pipecat has no audio to hold back.
Direct == redo = NoRedo /\ held = <<>>

\* A piece of audio arrives.
Arrive ==
  /\ audio < MaxAudio /\ sending = 0
  /\ audio' = audio + 1
  /\ IF Direct
     THEN Run(audio') /\ UNCHANGED held
     ELSE held' = Append(held, audio') /\ UNCHANGED <<sending, waiting, dropped, media>>
  /\ UNCHANGED <<socket, heard, keep, redo, parts, gaveUp>>

\* A held piece, after the reconnect.
Replay ==
  /\ held # <<>> /\ redo = NoRedo /\ sending = 0
  /\ held' = Tail(held)
  /\ Run(Head(held))
  /\ UNCHANGED <<socket, audio, heard, keep, redo, parts, gaveUp>>

\* Also when the connection is closed under it.
Sent ==
  /\ sending # 0 /\ link \in {"up", "none"}
  /\ Hears(<<sending>>) /\ sending' = 0
  /\ UNCHANGED <<socket, audio, held, waiting, dropped, tasks, redo, parts, gaveUp>>

\* Mutant: audio that could not be sent is not kept.
Forgotten == UNCHANGED <<waiting, dropped>>

Unsent == BufferMedia(sending)

SendFails ==
  /\ sending # 0 /\ link \in {"broken", "none"}
  /\ Unsent /\ sending' = 0
  /\ link' = "none" /\ alive' = FALSE
  /\ media' = ScheduledMedia
  /\ UNCHANGED <<breaks, audio, held, heard, keep, redo, parts, gaveUp>>

Breaks ==
  /\ link = "up" /\ breaks < MaxBreaks
  /\ link' = "broken" /\ breaks' = breaks + 1
  /\ UNCHANGED <<alive, audioVars, tasks, redo, parts, gaveUp>>

SttNext ==
  \/ Ages \/ Breaks
  \/ KeepaliveFails \/ KeepaliveReconnects \/ MediaReconnects
  \/ Connected \/ ConnectFails
  \/ DropExpired \/ TakeBatch \/ BatchSent \/ BatchFails \/ Flushed
  \/ Arrive \/ Replay \/ Sent \/ SendFails

SttSpec == SttInit /\ [][SttNext]_sttVars

-----------------------------------------------------------------------------
(* Properties *)

SttTypeOK ==
  /\ link \in {"none", "up", "broken"}
  /\ {alive, gaveUp} \subseteq BOOLEAN
  /\ audio \in 0..MaxAudio /\ sending \in 0..MaxAudio /\ breaks \in 0..MaxBreaks
  /\ ToSet(held) \cup ToSet(parts) \cup ToSet(heard) \cup dropped \cup Pieces(waiting)
       \subseteq 1..audio
  /\ keep \in {"idle", "scheduled", "running"} /\ media \in {"idle", "scheduled", "running"}
  /\ redo.step \in {"none", "connect", "drop", "batch", "send"}
  /\ waiting \in Seq([id : Nat, old : BOOLEAN])
  /\ Len(waiting) <= MaxBuffer \/ Len(waiting) <= 1

\* The recogniser hears the audio in the order in which it was spoken, whatever fails,
\* is buffered, replayed or held: "Flush failed/deferred raw media before STTService
\* replays frames that audio during the reconnect itself, preserving utterance
\* order." (deepgram_stt.py:202-203)
UtteranceOrder == \A i, j \in DOMAIN heard : i < j => heard[i] < heard[j]

\* No piece of audio is lost but for its age and the size of the buffer: a send that
\* fails, a reconnect that fails and one that is cut off by the other task leave it
\* where it is found again (deepgram_stt.py:189-199, 258-270).
NothingLost ==
  1..audio \subseteq
    ToSet(heard) \cup dropped \cup Pieces(waiting) \cup ToSet(held) \cup {sending}

\* Whatever fails, the recogniser hears the utterance in order and nothing of it is
\* lost but for age and room.
AudioKept == UtteranceOrder /\ NothingLost

\* "Do not let a failed buffered replay strand the replacement socket."
\* (deepgram_stt.py:238): without a connection a recovery is under way or scheduled;
\* but not after a connect that failed, nor after the media task lost the replay of
\* its own reconnect, when only the next piece of audio schedules one.
NotStranded ==
  link = "none" => redo # NoRedo \/ keep # "idle" \/ media # "idle" \/ gaveUp
=============================================================================
