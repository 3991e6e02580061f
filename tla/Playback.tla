------------------------------ MODULE Playback ------------------------------
(***************************************************************************)
(* What is heard and recorded (gumbleopenal/stream.go): one goroutine for  *)
(* every user who talks queues his packets on an OpenAL source, through    *)
(* the renderer, the one thread that owns the context; the file that is    *)
(* played is heard through it too; the user interface changes gains; and   *)
(* Destroy takes all of it down while any of them is still at work.        *)
(*                                                                         *)
(* A function given to the renderer is one step, except that of a packet,  *)
(* which hands the frame to the recorder (Encoder) on its way. Which       *)
(* packet comes next is the jitter buffer's affair (Receive). OpenAL is    *)
(* external: a call without a context has no effect.                       *)
(***************************************************************************)
EXTENDS Encoder

CONSTANTS
  Nobody,     \* nobody is at the renderer; no source
  Buffers,    \* of a stream: 64 in the code
  MaxPackets  \* bound: packets that come for a user

\* A source: its buffers queued, those of them the device has played, and its state.
SourceRecord == [queued : Nat, processed : Nat, state : {"initial", "playing", "stopped"}]

ASSUME PlaybackAssumption ==
  /\ Nobody \notin Sources /\ Nobody \notin SourceRecord
  /\ Buffers \in Nat \ {0} /\ MaxPackets \in Nat

Streams == Sources

VARIABLES
  open,      \* which of "capture", "sink", "context" are open
  renderer,  \* whether render takes functions
  rendering, \* whose packet the renderer is at
  attached,  \* Stream.recorder is set
  goroutine, \* of every stream: "unlinked", "none", "create", "idle", "play", "record", "queue", "gone"
  channel,   \* packets in the channel of every stream
  left,      \* packets still to come
  source,    \* the source of every stream: its buffers queued and processed, and its state
  empty,     \* buffers of every stream that are not queued
  gain,      \* "set" as the user has it, or whose change it lacks: "ui", "reader"
  changing,  \* the users the user interface has changed and not updated
  file,      \* the worker of the player: "none", "plays", "ends", "over"
  local,     \* localSource is there
  destroy,   \* how far New or Destroy is; "no" while the stream is used
  excused    \* history: why something may be left open

playing == <<open, renderer, rendering, attached, goroutine, channel, left, source, empty, gain,
             changing, file, local, destroy, excused>>
vars == <<recorder, playing>>

Fresh == [queued |-> 0, processed |-> 0, state |-> "initial"]

Init ==
  /\ open = {}
  /\ renderer = FALSE /\ rendering = Nobody
  /\ goroutine = [s \in Streams |-> "unlinked"] /\ channel = [s \in Streams |-> 0]
  /\ left = [s \in Streams |-> MaxPackets]
  /\ source = [s \in Streams |-> Nobody] /\ empty = [s \in Streams |-> 0]
  /\ gain = [s \in Streams |-> "set"] /\ changing = {}
  /\ file \in {"none", "plays"} /\ local = FALSE
  /\ destroy = "openCapture" /\ excused = {}
  /\ \/ attached = TRUE /\ RecorderInit
     \/ attached = FALSE /\ Absent

\* render: a function is run when the renderer is free, and not any more once it is closed.
CanRender == rendering = Nobody
Current == renderer /\ "context" \in open

Opening == destroy \in {"openCapture", "openSink", "openContext"}

-----------------------------------------------------------------------------
(* New                                                                     *)

OpenCapture ==
  /\ destroy = "openCapture"
  /\ \/ open' = {"capture"} /\ destroy' = "openSink"
     \/ UNCHANGED open /\ destroy' = "done"
  /\ UNCHANGED <<recorder, renderer, rendering, attached, goroutine, channel, left, source, empty, gain,
                 changing, file, local, excused>>

OpenSink ==
  /\ destroy = "openSink"
  /\ \/ open' = open \cup {"sink"} /\ destroy' = "openContext"
     \/ open' = open \ {"capture"} /\ destroy' = "done"
  /\ UNCHANGED <<recorder, renderer, rendering, attached, goroutine, channel, left, source, empty, gain,
                 changing, file, local, excused>>

\* The context, startRenderer and AttachStream; or Destroy.
CreateContext ==
  /\ destroy = "openContext"
  /\ \/ /\ open' = open \cup {"context"} /\ renderer' = TRUE
        /\ goroutine' = [s \in Streams |-> "none"]
        /\ destroy' = "no"
     \/ destroy' = "drain" /\ UNCHANGED <<open, renderer, goroutine>>
  /\ UNCHANGED <<recorder, rendering, attached, channel, left, source, empty, gain, changing, file,
                 local, excused>>

-----------------------------------------------------------------------------
(* The streams                                                             *)

\* OnAudioStream. Detach has closed the channel of a stream announced after it.
OnAudioStream(s) ==
  /\ goroutine[s] = "none"
  /\ goroutine' = [goroutine EXCEPT ![s] = "create"]
  /\ excused' = IF destroy \in {"no", "detach", "drain"} THEN excused ELSE excused \cup {"late"}
  /\ UNCHANGED <<recorder, open, renderer, rendering, attached, channel, left, source, empty, gain, changing,
                 file, local, destroy>>

Packet(s) ==
  /\ destroy \in {"no", "detach"} /\ left[s] > 0 /\ goroutine[s] \notin {"unlinked", "none"}
  /\ channel' = [channel EXCEPT ![s] = @ + 1]
  /\ left' = [left EXCEPT ![s] = @ - 1]
  /\ UNCHANGED <<recorder, open, renderer, rendering, attached, goroutine, source, empty, gain, changing,
                 file, local, destroy, excused>>

\* Mutant: the gain is left to UpdateUserGain.
CreateSource_NoGain(s) ==
  /\ goroutine[s] = "create" /\ CanRender
  /\ IF Current
     THEN /\ source' = [source EXCEPT ![s] = Fresh]
          /\ empty' = [empty EXCEPT ![s] = Buffers]
     ELSE UNCHANGED <<source, empty>>
  /\ goroutine' = [goroutine EXCEPT ![s] = "idle"]
  /\ UNCHANGED <<recorder, open, renderer, rendering, attached, channel, left, gain, changing, file, local,
                 destroy, excused>>

CreateSource(s) ==
  /\ goroutine[s] = "create" /\ CanRender
  /\ IF Current
     THEN /\ source' = [source EXCEPT ![s] = Fresh]
          /\ empty' = [empty EXCEPT ![s] = Buffers]
          /\ gain' = [gain EXCEPT ![s] = "set"]
     ELSE UNCHANGED <<source, empty, gain>>
  /\ goroutine' = [goroutine EXCEPT ![s] = "idle"]
  /\ UNCHANGED <<recorder, open, renderer, rendering, attached, channel, left, changing, file, local, destroy,
                 excused>>

\* BuffersProcessed and UnqueueBuffers
Unqueued(src) == [src EXCEPT !.queued = @ - src.processed, !.processed = 0]

\* A packet is taken, and the buffers that were played are reclaimed.
Reclaim(s) ==
  /\ goroutine[s] = "idle" /\ channel[s] > 0 /\ CanRender
  /\ channel' = [channel EXCEPT ![s] = @ - 1]
  /\ IF Current /\ source[s] # Nobody
     THEN /\ source' = [source EXCEPT ![s] = Unqueued(@)]
          /\ empty' = [empty EXCEPT ![s] = @ + source[s].processed]
     ELSE UNCHANGED <<source, empty>>
  /\ goroutine' = [goroutine EXCEPT ![s] = "play"]
  /\ UNCHANGED <<recorder, open, renderer, rendering, attached, left, gain, changing, file, local, destroy, excused>>

\* processAudioPacket begins, with the recorder of this moment ...
Process(s) ==
  /\ goroutine[s] = "play" /\ CanRender
  /\ IF renderer
     THEN /\ rendering' = s
          /\ goroutine' = [goroutine EXCEPT ![s] = IF attached THEN "record" ELSE "queue"]
     ELSE /\ goroutine' = [goroutine EXCEPT ![s] = "idle"]
          /\ UNCHANGED rendering
  /\ UNCHANGED <<recorder, open, renderer, attached, channel, left, source, empty, gain, changing, file, local,
                 destroy, excused>>

\* ... hands it the frame ...
Record(s) ==
  /\ goroutine[s] = "record"
  /\ RecordAudioFrame(s)
  /\ goroutine' = [goroutine EXCEPT ![s] = "queue"]
  /\ UNCHANGED <<run, queues, ffmpeg, failed, stopper, result, open, renderer, rendering, attached,
                 channel, left, source, empty, gain, changing, file, local, destroy, excused>>

\* QueueBuffer
WithBuffer(src) == [src EXCEPT !.queued = @ + 1]

\* Play starts a source that has stopped from its first buffer, whether it was
\* played before or not.
Played(src) ==
  IF src.state = "playing" THEN src ELSE [src EXCEPT !.state = "playing", !.processed = 0]

\* ... and queues it, or drops it when all the buffers are queued.
Queue(s) ==
  /\ goroutine[s] = "queue"
  /\ IF empty[s] > 0 /\ "context" \in open
     THEN /\ source' = [source EXCEPT ![s] = Played(WithBuffer(@))]
          /\ empty' = [empty EXCEPT ![s] = @ - 1]
     ELSE UNCHANGED <<source, empty>>
  /\ rendering' = Nobody
  /\ goroutine' = [goroutine EXCEPT ![s] = "idle"]
  /\ UNCHANGED <<recorder, open, renderer, attached, channel, left, gain, changing, file, local, destroy, excused>>

\* The channel is closed and empty: the source is stopped, the buffers on it are
\* reclaimed, and all of it is deleted.
Release(s) ==
  /\ goroutine[s] = "idle" /\ channel[s] = 0 /\ destroy \notin {"no", "detach"} /\ CanRender
  /\ IF Current
     THEN /\ source' = [source EXCEPT ![s] = Nobody]
          /\ empty' = [empty EXCEPT ![s] = 0]
     ELSE UNCHANGED <<source, empty>>
  /\ goroutine' = [goroutine EXCEPT ![s] = "gone"]
  /\ UNCHANGED <<recorder, open, renderer, rendering, attached, channel, left, gain, changing, file, local,
                 destroy, excused>>

\* The device has played a buffer. It stops after the last.
DevicePlays(s) ==
  /\ source[s] # Nobody /\ source[s].state = "playing" /\ "context" \in open
  /\ source' = [source EXCEPT ![s].processed = @ + 1,
                              ![s].state = IF source[s].processed + 1 = source[s].queued
                                           THEN "stopped" ELSE "playing"]
  /\ UNCHANGED <<recorder, open, renderer, rendering, attached, goroutine, channel, left, empty, gain, changing,
                 file, local, destroy, excused>>

-----------------------------------------------------------------------------
(* Gains, the file, and the recorder                                       *)

\* SetVolume, SetBoost or SetLocallyMuted: by the user interface, which has
\* UpdateUserGain follow, ...
Change(s) ==
  /\ s \notin changing
  /\ gain' = [gain EXCEPT ![s] = "ui"]
  /\ changing' = changing \cup {s}
  /\ UNCHANGED <<recorder, open, renderer, rendering, attached, goroutine, channel, left, source, empty,
                 file, local, destroy, excused>>

\* ... or by OnUserChange, which has not.
Overwrite(s) ==
  /\ gain[s] = "set"
  /\ gain' = [gain EXCEPT ![s] = "reader"]
  /\ UNCHANGED <<recorder, open, renderer, rendering, attached, goroutine, channel, left, source, empty,
                 changing, file, local, destroy, excused>>

\* UpdateUserGain, while withStream keeps the stream.
UpdateUserGain(s) ==
  /\ s \in changing /\ destroy \in {"no", "done"} /\ CanRender
  /\ gain' = IF destroy = "no" /\ source[s] # Nobody THEN [gain EXCEPT ![s] = "set"] ELSE gain
  /\ changing' = changing \ {s}
  /\ UNCHANGED <<recorder, open, renderer, rendering, attached, goroutine, channel, left, source, empty,
                 file, local, destroy, excused>>

\* playLocalAudio makes the source with the first frame.
PlayLocal ==
  /\ file = "plays" /\ CanRender /\ ~local
  /\ local' = Current
  /\ UNCHANGED <<recorder, open, renderer, rendering, attached, goroutine, channel, left, source, empty,
                 gain, changing, file, destroy, excused>>

\* The file has come to its end: the player does not play any more ...
FileEnds ==
  /\ file = "plays"
  /\ file' = "ends"
  /\ UNCHANGED <<recorder, open, renderer, rendering, attached, goroutine, channel, left, source, empty,
                 gain, changing, local, destroy, excused>>

\* ... and then the worker has the source deleted.
EndLocal ==
  /\ file = "ends" /\ CanRender
  /\ file' = "over"
  /\ local' = (local /\ ~Current)
  /\ UNCHANGED <<recorder, open, renderer, rendering, attached, goroutine, channel, left, source, empty,
                 gain, changing, destroy, excused>>

\* detachRecorder and Recorder.Stop
StopRecorder ==
  /\ attached' = FALSE
  /\ Stop
  /\ UNCHANGED <<open, renderer, rendering, goroutine, channel, left, source, empty, gain, changing, file, local,
                 destroy, excused>>

-----------------------------------------------------------------------------
(* cleanupConnectionAudio and Destroy                                      *)

\* Player.Stop waits for a worker that plays, and has the source deleted.
CleanFile ==
  /\ destroy = "no" /\ CanRender
  /\ destroy' = "detach"
  /\ IF file = "plays" THEN file' = "over" /\ local' = FALSE ELSE UNCHANGED <<file, local>>
  /\ UNCHANGED <<recorder, open, renderer, rendering, attached, goroutine, channel, left, source, empty,
                 gain, changing, excused>>

Detach ==
  /\ destroy = "detach"
  /\ destroy' = "drain"
  /\ UNCHANGED <<recorder, open, renderer, rendering, attached, goroutine, channel, left, source, empty,
                 gain, changing, file, local, excused>>

Drained == \A s \in Streams : goroutine[s] \in {"unlinked", "none", "gone"}

\* Mutant: the streams are not waited for.
Drain_NoWait ==
  /\ destroy = "drain"
  /\ destroy' = "capture"
  /\ UNCHANGED <<recorder, open, renderer, rendering, attached, goroutine, channel, left, source, empty,
                 gain, changing, file, local, excused>>

Drain ==
  /\ destroy = "drain" /\ Drained
  /\ destroy' = "capture"
  /\ UNCHANGED <<recorder, open, renderer, rendering, attached, goroutine, channel, left, source, empty,
                 gain, changing, file, local, excused>>

\* destroyDrainTimeout
DrainTimeout ==
  /\ destroy = "drain" /\ ~Drained
  /\ destroy' = "capture"
  /\ excused' = excused \cup {"timeout"}
  /\ UNCHANGED <<recorder, open, renderer, rendering, attached, goroutine, channel, left, source, empty,
                 gain, changing, file, local>>

CloseCapture ==
  /\ destroy = "capture"
  /\ open' = open \ {"capture"}
  /\ destroy' = IF "context" \in open THEN "context" ELSE "device"
  /\ UNCHANGED <<recorder, renderer, rendering, attached, goroutine, channel, left, source, empty, gain, changing,
                 file, local, excused>>

DestroyContext ==
  /\ destroy = "context" /\ CanRender
  /\ open' = open \ {"context"}
  /\ excused' = IF file = "ends" THEN excused \cup {"file"} ELSE excused
  /\ destroy' = "renderer"
  /\ UNCHANGED <<recorder, renderer, rendering, attached, goroutine, channel, left, source, empty, gain, changing,
                 file, local>>

CloseRenderer ==
  /\ destroy = "renderer" /\ CanRender
  /\ renderer' = FALSE
  /\ destroy' = "device"
  /\ UNCHANGED <<recorder, open, rendering, attached, goroutine, channel, left, source, empty, gain, changing,
                 file, local, excused>>

\* CloseDevice frees nothing as long as the device has sources or buffers.
CloseDevice ==
  /\ destroy = "device"
  /\ open' = IF local \/ \E s \in Streams : source[s] # Nobody THEN open ELSE open \ {"sink"}
  /\ destroy' = "done"
  /\ UNCHANGED <<recorder, renderer, rendering, attached, goroutine, channel, left, source, empty, gain, changing,
                 file, local, excused>>

StreamStep(s) ==
  CreateSource(s) \/ Reclaim(s) \/ Process(s) \/ Record(s) \/ Queue(s) \/ Release(s)
DestroyStep ==
  Detach \/ Drain \/ DrainTimeout \/ CloseCapture \/ DestroyContext \/ CloseRenderer \/ CloseDevice

NewStep == OpenCapture \/ OpenSink \/ CreateContext

Use ==
  \/ \E s \in Streams : OnAudioStream(s) \/ Packet(s) \/ StreamStep(s) \/ DevicePlays(s)
  \/ \E s \in Streams : Change(s) \/ Overwrite(s) \/ UpdateUserGain(s)
  \/ PlayLocal \/ FileEnds \/ EndLocal
  \/ CleanFile \/ DestroyStep
  \/ StopRecorder
  \/ (RunStep \/ FfmpegStep \/ StopStep) /\ UNCHANGED playing

Next == NewStep \/ (~Opening /\ Use)

\* Every goroutine goes on when it can; the timers fire. That the connection
\* ends, that ffmpeg does anything and that someone stops the recorder is not assumed.
Fairness ==
  /\ \A s \in Streams : WF_vars(StreamStep(s))
  /\ WF_vars(DestroyStep)
  /\ WF_vars(RunStep /\ UNCHANGED playing)
  /\ WF_vars(StopStep /\ UNCHANGED playing)

Spec == Init /\ [][Next]_vars /\ Fairness

-----------------------------------------------------------------------------
(* Properties                                                              *)

\* "Waiting for them here is what keeps the device's sources and buffers from being
\* orphaned on every reconnect" (stream.go:414): all is closed when Destroy returns,
\* unless the wait timed out, a stream was announced after the waiting, or the
\* file ended just then.
AllReleased == destroy = "done" /\ excused = {} => open = {}

\* A user is as loud as he was made when the user interface is done with him,
\* although his source may come and go meanwhile; unless OnUserChange changed it.
GainFollows == \A s \in Streams : source[s] # Nobody /\ gain[s] = "ui" => s \in changing \/ destroy = "done"

\* Destroy returns, whatever the streams and the recorder do.
DestroyReturns == destroy = "detach" ~> destroy = "done"

\* Nobody who ends a recording or a stream waits for ever: run looks for done
\* wherever it blocks (recorder.go:216-222), and Destroy has its timeout.
CallsReturn == StopReturns /\ DestroyReturns

\* A buffer that was played is not played again.
HeardOnce ==
  [][\A s \in Streams : source[s] # Nobody /\ source'[s] # Nobody
       /\ source[s].state # "playing" /\ source'[s].state = "playing" => source[s].processed = 0]_vars

=============================================================================
