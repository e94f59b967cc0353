------------------------------ MODULE FramePath ------------------------------
(***************************************************************************)
(* What a source captures on its way from the worker's encoders to         *)
(* media-net: the appsinks' threads queue records under one lock, a writer *)
(* thread puts them on the frame pipe, media-net's reader takes them off.  *)
(* A queue over its budget is dropped whole, and the video then skips to a *)
(* keyframe, which the worker asks its encoder for, within limits.         *)
(*                                                                         *)
(* Abstracted: the contents of frames; a record is as large as its kind    *)
(* (KeySize).  Assumed: no frame is over max_frame_bytes (16 MB), which    *)
(* the worker would leave out without skipping.                            *)
(***************************************************************************)
EXTENDS Naturals, Sequences

CONSTANTS
  Caps,      \* the formats an encoder may announce
  NoCaps,
  QueueBudget,  \* frame_queue_bytes
  KeySize,   \* size of a keyframe; every other record is 1
  PipeSize   \* records the pipe holds

ASSUME NoCapsAssumption == NoCaps \notin Caps

VARIABLES
  encoded,   \* the video encoder has produced its first frame
  format,    \* medium -> the format of the next frame
  forced,    \* a keyframe was requested from the encoder
  sentCaps,  \* medium -> the format the reader is taken to know
  skipping,  \* video is dropped until the next keyframe
  gap,       \* video was dropped since the last record that was queued
  queue, hand, pipe,  \* records waiting, with the writer, and written
  known,     \* medium -> the format media-net set
  asked,     \* an overflow's request for a keyframe waits for the worker's main loop
  recent     \* the limits that were taken lately

frameVars ==
  <<encoded, format, forced, sentCaps, skipping, gap, queue, hand, pipe, known, asked, recent>>

Media == {"video", "audio"}
Nothing == [type |-> "nothing"]
CapsRecord(m, c) == [type |-> "caps", medium |-> m, caps |-> c]

FrameInit ==
  /\ encoded = FALSE /\ format \in [Media -> Caps] /\ forced = FALSE
  /\ sentCaps = [m \in Media |-> NoCaps] /\ skipping = FALSE /\ gap = TRUE
  /\ queue = <<>> /\ hand = Nothing /\ pipe = <<>>
  /\ known = [m \in Media |-> NoCaps] /\ asked = FALSE /\ recent = {}

-----------------------------------------------------------------------------
(* The appsinks' threads. *)

IsKey(r) == r.type = "frame" /\ r.medium = "video" /\ r.key
Size(q) == Len(q) + (KeySize - 1) * Len(SelectSeq(q, IsKey))

\* Mutant: what the queue held is gone, but its formats are taken to be known.
OverflowedM ==
  /\ queue' = <<>>
  /\ skipping' = TRUE /\ gap' = TRUE
  /\ asked' = TRUE
  /\ UNCHANGED sentCaps

\* frames_overflowed.
Overflowed ==
  /\ queue' = <<>>
  /\ sentCaps' = [m \in Media |-> NoCaps]
  /\ skipping' = TRUE /\ gap' = TRUE
  /\ asked' = TRUE

\* The rest of new_sample: the format if the reader does not know it, and the frame.
Pushed(m, key) ==
  LET c == format'[m]
      frame == [type |-> "frame", medium |-> m, key |-> key, gap |-> gap /\ m = "video", caps |-> c]
      new == IF sentCaps[m] = c THEN <<frame>> ELSE <<CapsRecord(m, c), frame>>
  IN IF Size(queue \o new) <= QueueBudget
     THEN /\ queue' = queue \o new
          /\ sentCaps' = [sentCaps EXCEPT ![m] = c]
          /\ skipping' = (skipping /\ m # "video")
          /\ gap' = (gap /\ m # "video")
          /\ UNCHANGED asked
     ELSE Overflowed

\* An encoded frame reaches the video sink: a keyframe when one is due or was requested, and
\* whenever the format changes.
VideoSample(key, c) ==
  /\ (forced \/ ~encoded \/ c # format["video"]) => key
  /\ encoded' = TRUE
  /\ forced' = (forced /\ ~key)
  /\ format' = [format EXCEPT !["video"] = c]
  /\ IF skipping /\ ~key THEN gap' = TRUE /\ UNCHANGED <<queue, sentCaps, skipping, asked>>
     ELSE Pushed("video", key)
  /\ UNCHANGED <<hand, pipe, known, recent>>

AudioSample(c) ==
  /\ format' = [format EXCEPT !["audio"] = c]
  /\ Pushed("audio", FALSE)
  /\ UNCHANGED <<encoded, forced, hand, pipe, known, recent>>

-----------------------------------------------------------------------------
(* QueuedWriter::run: the record is taken under the queue's lock and written without it, so an      *)
(* overflow does not stop the record that is being written.                                         *)

TakeRecord ==
  /\ hand = Nothing /\ queue # <<>>
  /\ hand' = Head(queue) /\ queue' = Tail(queue)
  /\ UNCHANGED <<encoded, format, forced, sentCaps, skipping, gap, pipe, known, asked, recent>>

WriteRecord ==
  /\ hand # Nothing /\ Len(pipe) < PipeSize
  /\ pipe' = Append(pipe, hand) /\ hand' = Nothing
  /\ UNCHANGED <<encoded, format, forced, sentCaps, skipping, gap, queue, known, asked, recent>>

\* read_frames, in media-net: a format is set, a frame is pushed to the viewers.
ReadFrames ==
  /\ pipe # <<>>
  /\ pipe' = Tail(pipe)
  /\ LET r == Head(pipe)
     IN known' = IF r.type = "caps" THEN [known EXCEPT ![r.medium] = r.caps] ELSE known
  /\ UNCHANGED <<encoded, format, forced, sentCaps, skipping, gap, queue, hand, asked, recent>>

-----------------------------------------------------------------------------
(* Keyframes on request. *)

\* KeyframeLimiter: at most one recovery in 2 s and one join in 500 ms.
Limited(kind) ==
  /\ forced' = (forced \/ kind \notin recent)
  /\ recent' = recent \cup {kind}

\* recovery_keyframe, on the worker's main loop.
Recovery ==
  /\ asked /\ asked' = FALSE
  /\ Limited("recovery")
  /\ UNCHANGED <<encoded, format, sentCaps, skipping, gap, queue, hand, pipe, known>>

\* keyframe-request: a viewer connected, or lost something.
KeyframeRequest(kind) ==
  /\ Limited(kind)
  /\ UNCHANGED <<encoded, format, sentCaps, skipping, gap, queue, hand, pipe, known, asked>>

\* The interval of a limit passes.
LimitPasses(kind) ==
  /\ kind \in recent
  /\ recent' = recent \ {kind}
  /\ UNCHANGED <<encoded, format, forced, sentCaps, skipping, gap, queue, hand, pipe, known, asked>>

FrameNext ==
  \/ \E key \in BOOLEAN, c \in Caps : VideoSample(key, c)
  \/ \E c \in Caps : AudioSample(c)
  \/ TakeRecord \/ WriteRecord \/ ReadFrames
  \/ \E kind \in {"recovery", "join"} : KeyframeRequest(kind) \/ LimitPasses(kind)
  \/ Recovery

FrameSpec == FrameInit /\ [][FrameNext]_frameVars

-----------------------------------------------------------------------------
(* Properties. *)

\* Everything media-net has still to read, in order.
Flow == pipe \o (IF hand = Nothing THEN <<>> ELSE <<hand>>) \o queue

\* The format media-net will have set when it comes to the i-th record of the flow.
KnownAt(i, m) ==
  LET before == {j \in 1..(i - 1) : Flow[j].type = "caps" /\ Flow[j].medium = m}
  IN IF before = {} THEN known[m]
     ELSE Flow[CHOOSE j \in before : \A k \in before : k <= j].caps

\* Whatever an overflow dropped, and whenever: no viewer is given a frame under another format than
\* its own, nor one that refers to a frame that was dropped.
FramesDecode ==
  \A i \in DOMAIN Flow :
    Flow[i].type = "frame" =>
      /\ Flow[i].caps = KnownAt(i, Flow[i].medium)
      /\ Flow[i].gap => Flow[i].key

=============================================================================
