--------------------------- MODULE PlaybackProofs ---------------------------
(***************************************************************************)
(* Theorems about Playback, for any number of streams, buffers and packets. *)
(***************************************************************************)
EXTENDS Playback, TLAPS

Devices == {"capture", "sink", "context"}
Over == {"unlinked", "none", "gone"}
Waiting == {"no", "detach", "drain"}
AfterDrain == {"capture", "context", "renderer", "device", "done"}

ReleaseTypes ==
  /\ open \subseteq Devices
  /\ local \in BOOLEAN
  /\ destroy \in {"openCapture", "openSink", "openContext"} \cup Waiting \cup AfterDrain
  /\ goroutine \in [Streams -> Over \cup {"create", "idle", "play", "record", "queue"}]
  /\ source = [s \in Streams |-> source[s]]

\* New and Destroy open and close the devices one after the other.
InOrder ==
  /\ destroy = "openCapture" => open = {}
  /\ destroy = "openSink" => open = {"capture"}
  /\ destroy \in {"openCapture", "openSink", "openContext"} => "context" \notin open
  /\ destroy \in {"context", "renderer", "device", "done"} => "capture" \notin open
  /\ destroy \in {"renderer", "device", "done"} => "context" \notin open

\* No stream is there before the context, and as long as Destroy waits for the streams
\* the renderer runs what they ask for.
Serves ==
  /\ Opening => \A s \in Streams : goroutine[s] = "unlinked"
  /\ destroy \in Waiting =>
       \A s \in Streams : goroutine[s] # "unlinked" => renderer = TRUE /\ "context" \in open

\* A goroutine leaves no source behind, and none is left when Destroy goes on.
StreamsReleased ==
  /\ destroy \in AfterDrain => Drained
  /\ \A s \in Streams : goroutine[s] \in Over => source[s] = Nobody

\* The source of the file is there only while the file is, and only with the context;
\* Player.Stop was called before the context is destroyed.
FileReleased ==
  /\ local = TRUE => file \in {"plays", "ends"} /\ renderer = TRUE /\ "context" \in open
  /\ destroy \in {"detach", "drain", "capture", "context"} /\ "context" \in open => file # "plays"

ReleaseInv ==
  /\ ReleaseTypes
  /\ InOrder
  /\ Serves
  /\ excused = {} => StreamsReleased /\ FileReleased /\ AllReleased

LEMMA ReleaseInit == Init => ReleaseInv
BY DEF Init, ReleaseInv, ReleaseTypes, InOrder, Serves, StreamsReleased, FileReleased,
       AllReleased, Drained, Opening, Over, Waiting, AfterDrain, Devices

\* What the recorder, the gains and the packets do moves nothing of this.
Unmoved == UNCHANGED <<open, renderer, goroutine, source, file, local, destroy, excused>>

LEMMA UnmovedKeeps == ReleaseInv /\ Unmoved => ReleaseInv'
BY DEF Unmoved, ReleaseInv, ReleaseTypes, InOrder, Serves, StreamsReleased, FileReleased,
       AllReleased, Drained, Opening

\* New opens the devices, or closes what it has opened.
LEMMA NewKeeps == ReleaseInv /\ NewStep => ReleaseInv'
<1> SUFFICES ASSUME ReleaseInv, NewStep PROVE ReleaseInv'
  OBVIOUS
<1> USE DEF ReleaseInv, ReleaseTypes, InOrder, Serves, StreamsReleased, FileReleased,
            AllReleased, Drained, Opening, Over, Waiting, AfterDrain, Devices
<1>1. CASE OpenCapture
  BY <1>1 DEF OpenCapture
<1>2. CASE OpenSink
  BY <1>2 DEF OpenSink
<1>3. CASE CreateContext
  BY <1>3 DEF CreateContext
<1> QED BY <1>1, <1>2, <1>3 DEF NewStep

\* The goroutine of a stream, and the device, for the source it has.
LEMMA StreamKeeps ==
  ASSUME ReleaseInv, ~Opening, NEW s \in Streams,
         OnAudioStream(s) \/ StreamStep(s) \/ DevicePlays(s)
  PROVE  ReleaseInv'
<1> USE DEF ReleaseInv, ReleaseTypes, Over
<1>1. UNCHANGED <<open, renderer, file, local, destroy>> /\ InOrder' /\ (FileReleased => FileReleased')
  BY DEF OnAudioStream, StreamStep, CreateSource, Reclaim, Process, Record, Queue, Release,
         DevicePlays, InOrder, FileReleased
<1>2. CASE OnAudioStream(s)
  <2>1. CASE destroy \in Waiting
    BY <1>1, <1>2, <2>1 DEF OnAudioStream, Waiting, AfterDrain, Serves, StreamsReleased,
       AllReleased, Opening, Drained
  <2>2. CASE destroy \notin Waiting
    <3>1. excused' # {}
      BY <1>2, <2>2 DEF OnAudioStream, Waiting
    <3> QED BY <1>1, <1>2, <2>2, <3>1 DEF OnAudioStream, Serves, Opening
  <2> QED BY <2>1, <2>2
<1>3. CASE goroutine[s] \notin {"unlinked", "none", "gone"} /\ ~Release(s)
  <2>1. /\ UNCHANGED excused
        /\ goroutine' \in [Streams -> Over \cup {"create", "idle", "play", "record", "queue"}]
        /\ goroutine'[s] \notin Over
        /\ source' = [t \in Streams |-> source'[t]]
        /\ \A t \in Streams \ {s} : goroutine'[t] = goroutine[t] /\ source'[t] = source[t]
    BY <1>3 DEF OnAudioStream, StreamStep, CreateSource, Reclaim, Process, Record, Queue, DevicePlays
  <2> QED
    BY <1>1, <1>3, <2>1 DEF AfterDrain, Serves, StreamsReleased, AllReleased, Opening, Drained
<1>4. CASE Release(s)
  <2>1. /\ UNCHANGED excused
        /\ goroutine[s] = "idle" /\ goroutine' = [goroutine EXCEPT ![s] = "gone"]
        /\ source' = [t \in Streams |-> source'[t]]
        /\ \A t \in Streams \ {s} : source'[t] = source[t]
        /\ Current => source'[s] = Nobody
    BY <1>4 DEF Release
  <2>2. Serves'
    BY <1>1, <2>1 DEF Serves, Opening
  <2>3. ASSUME excused = {} PROVE StreamsReleased' /\ AllReleased'
    <3>1. ~Drained /\ destroy \notin AfterDrain
      BY <2>1, <2>3 DEF StreamsReleased, Drained
    <3>2. destroy = "drain"
      BY <1>4, <3>1 DEF Release, Opening, Waiting
    <3>3. Current
      BY <2>1, <3>2 DEF Serves, Waiting, Current
    <3> QED BY <1>1, <2>1, <2>3, <3>2, <3>3 DEF StreamsReleased, AllReleased, AfterDrain, Drained
  <2> QED BY <1>1, <2>1, <2>2, <2>3
<1>5. CASE DevicePlays(s) /\ goroutine[s] \in Over
  <2>1. /\ UNCHANGED <<excused, goroutine>> /\ source[s] # Nobody
        /\ source' = [t \in Streams |-> source'[t]]
    BY <1>5 DEF DevicePlays
  <2> QED BY <1>1, <1>5, <2>1 DEF Serves, StreamsReleased, Opening
<1> QED
  BY <1>2, <1>3, <1>4, <1>5
     DEF StreamStep, CreateSource, Reclaim, Process, Record, Queue

\* The file and its end.
LEMMA FileKeeps ==
  ASSUME ReleaseInv, ~Opening, PlayLocal \/ FileEnds \/ EndLocal \/ CleanFile
  PROVE  ReleaseInv'
<1> USE DEF ReleaseInv, ReleaseTypes, Waiting, AfterDrain
<1>1. /\ UNCHANGED <<open, renderer, goroutine, source, excused>>
      /\ destroy' = destroy \/ (destroy = "no" /\ destroy' = "detach")
      /\ local' \in BOOLEAN
  BY DEF PlayLocal, FileEnds, EndLocal, CleanFile, Current
<1>2. InOrder' /\ Serves' /\ (StreamsReleased => StreamsReleased') /\ (AllReleased => AllReleased')
  BY <1>1 DEF InOrder, Serves, StreamsReleased, AllReleased, Opening, Drained
<1>3. ASSUME FileReleased PROVE FileReleased'
  BY <1>1, <1>3 DEF FileReleased, PlayLocal, FileEnds, EndLocal, CleanFile, Current
<1> QED BY <1>1, <1>2, <1>3

\* Destroy, one step after the other.
LEMMA DestroyKeeps ==
  ASSUME ReleaseInv, DestroyStep
  PROVE  ReleaseInv'
<1> USE DEF ReleaseInv, ReleaseTypes, InOrder, Serves, StreamsReleased, FileReleased,
            AllReleased, Drained, Opening, Over, Waiting, AfterDrain, Devices
<1>1. CASE Detach \/ Drain \/ DrainTimeout
  BY <1>1 DEF Detach, Drain, DrainTimeout
<1>2. CASE CloseCapture
  BY <1>2 DEF CloseCapture
<1>3. CASE DestroyContext
  BY <1>3 DEF DestroyContext
<1>4. CASE CloseRenderer
  BY <1>4 DEF CloseRenderer
<1>5. CASE CloseDevice
  BY <1>5 DEF CloseDevice
<1> QED BY <1>1, <1>2, <1>3, <1>4, <1>5 DEF DestroyStep

LEMMA ReleaseStep == ReleaseInv /\ [Next]_vars => ReleaseInv'
<1> SUFFICES ASSUME ReleaseInv, [Next]_vars PROVE ReleaseInv'
  OBVIOUS
<1>1. CASE NewStep
  BY <1>1, NewKeeps
<1>2. CASE ~Opening /\ \E s \in Streams : OnAudioStream(s) \/ StreamStep(s) \/ DevicePlays(s)
  BY <1>2, StreamKeeps
<1>3. CASE ~Opening /\ (PlayLocal \/ FileEnds \/ EndLocal \/ CleanFile)
  BY <1>3, FileKeeps
<1>4. CASE DestroyStep
  BY <1>4, DestroyKeeps
<1>5. CASE \E s \in Streams : Packet(s) \/ Change(s) \/ Overwrite(s) \/ UpdateUserGain(s)
  BY <1>5, UnmovedKeeps DEF Unmoved, Packet, Change, Overwrite, UpdateUserGain
<1>6. CASE StopRecorder
  BY <1>6, UnmovedKeeps DEF Unmoved, StopRecorder
<1>7. CASE (RunStep \/ FfmpegStep \/ StopStep) /\ UNCHANGED playing
  BY <1>7, UnmovedKeeps DEF Unmoved, playing
<1>8. CASE UNCHANGED vars
  BY <1>8, UnmovedKeeps DEF Unmoved, vars, playing
<1> QED BY <1>1, <1>2, <1>3, <1>4, <1>5, <1>6, <1>7, <1>8 DEF Next, Use

\* "Waiting for them here is what keeps the device's sources and buffers from being
\* orphaned on every reconnect" (stream.go:414): whatever the streams, the file, the
\* recorder and the user interface are at, Destroy closes the sink with nothing on it,
\* unless one of the three excuses applies.
THEOREM DestroyReleases == Spec => []AllReleased
<1>1. ReleaseInv => AllReleased
  BY DEF ReleaseInv, AllReleased
<1> QED BY <1>1, ReleaseInit, ReleaseStep, PTL DEF Spec

-----------------------------------------------------------------------------
\* The goroutine leaves its encoder only when it has ended, and has kept whether it
\* ended well; what Stop says was kept then.
EncoderInv ==
  /\ failed \in BOOLEAN
  /\ run = "done" => ffmpeg \in {"ended", "died"}
  /\ run = "done" /\ ffmpeg = "died" => failed = TRUE
  /\ failed = TRUE => ffmpeg = "died"
  /\ result \in {"none", "nil", "error"}
  /\ result # "none" => run = "done"
  /\ result = "nil" => failed = FALSE
  /\ result = "error" => failed = TRUE

LEMMA EncoderStep == EncoderInv /\ [Next]_vars => EncoderInv'
<1> SUFFICES ASSUME EncoderInv, [Next]_vars PROVE EncoderInv'
  OBVIOUS
<1> USE DEF EncoderInv
<1>1. CASE UNCHANGED <<run, ffmpeg, failed, result>>
  BY <1>1
<1>2. CASE RunStep
  BY <1>2 DEF RunStep, Take, Tick, Written, WriteFails, StopSeen, Closed
<1>3. CASE FfmpegStep
  BY <1>3 DEF FfmpegStep, Stalls, Resumes, Dies, Ends
<1>4. CASE Kill
  BY <1>4 DEF Kill
<1>5. CASE StopReturn
  BY <1>5 DEF StopReturn
<1>6. CASE NewStep \/ DestroyStep \/ StopRecorder
  BY <1>1, <1>6 DEF NewStep, OpenCapture, OpenSink, CreateContext, DestroyStep, Detach, Drain, DrainTimeout,
     CloseCapture, DestroyContext, CloseRenderer, CloseDevice, StopRecorder, Stop, recorder
<1>7. CASE PlayLocal \/ FileEnds \/ EndLocal \/ CleanFile
  BY <1>1, <1>7 DEF PlayLocal, FileEnds, EndLocal, CleanFile, recorder
<1>8. ASSUME NEW s \in Streams,
             OnAudioStream(s) \/ Packet(s) \/ StreamStep(s) \/ DevicePlays(s)
               \/ Change(s) \/ Overwrite(s) \/ UpdateUserGain(s)
      PROVE  UNCHANGED <<run, ffmpeg, failed, result>>
  BY <1>8 DEF OnAudioStream, Packet, StreamStep, CreateSource, Reclaim, Process, Record, Queue, Release,
     DevicePlays, Change, Overwrite, UpdateUserGain, recorder
<1>9. CASE UNCHANGED vars
  BY <1>1, <1>9 DEF vars, recorder
<1> QED BY <1>1, <1>2, <1>3, <1>4, <1>5, <1>6, <1>7, <1>8, <1>9 DEF Next, Use, StopStep

\* "run owns stdin and closes it only after it has stopped writing" (recorder.go:180):
\* whenever ffmpeg stalls, dies or is killed, and with whatever was recorded, Stop
\* reports an error exactly when the encoder did not end well.
THEOREM StopIsHonest == Spec => []StopTellsTheTruth
<1>1. Init => EncoderInv
  BY DEF Init, RecorderInit, Absent, EncoderInv
<1>2. EncoderInv => StopTellsTheTruth
  BY DEF EncoderInv, StopTellsTheTruth
<1> QED BY <1>1, <1>2, EncoderStep, PTL DEF Spec

-----------------------------------------------------------------------------
(* Buffers and gains                                                       *)

\* The buffers of a stream with a source are queued on it or empty, and no more are
\* played than are queued.
BuffersKept == \A s \in Streams : source[s] # Nobody =>
  source[s].processed <= source[s].queued /\ empty[s] + source[s].queued = Buffers

SourceTypes ==
  /\ source \in [Streams -> SourceRecord \cup {Nobody}] /\ empty \in [Streams -> Nat]
  /\ gain \in [Streams -> {"set", "ui", "reader"}]

\* A source that plays has something to play, and without a source nothing is empty.
SourcesPlay == \A s \in Streams :
  IF source[s] = Nobody THEN empty[s] = 0
  ELSE source[s].state = "playing" => source[s].processed < source[s].queued

SourceInv == SourceTypes /\ BuffersKept /\ SourcesPlay /\ GainFollows

\* The source of one stream changes as the device and its buffers allow; its gain
\* is not one the user interface has still to hand on.
LEMMA SourceChanges ==
  ASSUME SourceInv, NEW s \in Streams,
         NEW src \in SourceRecord, NEW n \in Nat,
         source' = [source EXCEPT ![s] = src], empty' = [empty EXCEPT ![s] = n],
         src.processed <= src.queued, n + src.queued = Buffers,
         src.state = "playing" => src.processed < src.queued,
         \/ gain' = gain /\ source[s] # Nobody
         \/ gain' = [gain EXCEPT ![s] = "set"],
         UNCHANGED <<changing, destroy>>
  PROVE  SourceInv'
<1> USE PlaybackAssumption DEF SourceInv, SourceTypes
<1>1. SourceTypes'
  OBVIOUS
<1>2. BuffersKept'
  BY DEF BuffersKept
<1>3. SourcesPlay'
  BY DEF SourcesPlay
<1>4. GainFollows'
  BY DEF GainFollows
<1> QED BY <1>1, <1>2, <1>3, <1>4

LEMMA SourceStutter ==
  ASSUME SourceInv, UNCHANGED <<source, empty, gain, changing>>, destroy = "done" => destroy' = "done"
  PROVE  SourceInv'
BY DEF SourceInv, SourceTypes, BuffersKept, SourcesPlay, GainFollows

\* What the functions on sources do to their fields.
LEMMA UnqueuedIs ==
  ASSUME NEW src \in SourceRecord, src.processed <= src.queued
  PROVE  /\ Unqueued(src) \in SourceRecord
         /\ Unqueued(src).queued = src.queued - src.processed
         /\ Unqueued(src).processed = 0 /\ Unqueued(src).state = src.state
<1> DEFINE rest == src.queued - src.processed
<1>1. rest \in Nat
  BY DEF SourceRecord
<1> HIDE DEF rest
<1>2. Unqueued(src) = [[src EXCEPT !.queued = rest] EXCEPT !.processed = 0]
  BY DEF Unqueued, rest
<1>3. [src EXCEPT !.queued = rest] =
        [queued |-> rest, processed |-> src.processed, state |-> src.state]
  BY DEF SourceRecord
<1>4. Unqueued(src) = [queued |-> rest, processed |-> 0, state |-> src.state]
  BY <1>2, <1>3
<1> QED BY <1>1, <1>4 DEF SourceRecord, rest

LEMMA QueuedIs ==
  ASSUME NEW src \in SourceRecord, src.processed <= src.queued,
         NEW new, new = Played(WithBuffer(src))
  PROVE  /\ new \in SourceRecord /\ new.queued = src.queued + 1
         /\ new.processed < new.queued
<1> DEFINE n == src.queued + 1
<1>1. n \in Nat /\ src.processed < n /\ 0 < n
  BY DEF SourceRecord
<1> DEFINE more == [src EXCEPT !.queued = n]
<1> HIDE DEF n
<1>2. more = [queued |-> n, processed |-> src.processed, state |-> src.state]
  BY DEF SourceRecord
<1>3. new = Played(more)
  BY DEF n, WithBuffer
<1>4. CASE src.state = "playing"
  <2>1. new = more
    BY <1>2, <1>3, <1>4 DEF Played
  <2> QED BY <1>1, <1>2, <2>1 DEF SourceRecord, n
<1>5. CASE src.state # "playing"
  <2>1. new = [queued |-> n, processed |-> 0, state |-> "playing"]
    BY <1>2, <1>3, <1>5 DEF Played
  <2> QED BY <1>1, <2>1 DEF SourceRecord, n
<1> QED BY <1>4, <1>5

LEMMA PlaysOnIs ==
  ASSUME NEW src \in SourceRecord, src.processed < src.queued,
         NEW new, new = [src EXCEPT !.processed = @ + 1,
                           !.state = IF src.processed + 1 = src.queued THEN "stopped" ELSE "playing"]
  PROVE  /\ new \in SourceRecord /\ new.queued = src.queued /\ new.processed <= new.queued
         /\ new.state = "playing" => new.processed < new.queued
<1> DEFINE n == src.processed + 1
           st == IF n = src.queued THEN "stopped" ELSE "playing"
<1>1. n \in Nat /\ n <= src.queued /\ (st = "playing" => n < src.queued)
  BY DEF SourceRecord
<1>2. st \in {"initial", "playing", "stopped"}
  OBVIOUS
<1>3. new = [src EXCEPT !.processed = n, !.state = st]
  OBVIOUS
<1> HIDE DEF n, st
<1>4. new = [queued |-> src.queued, processed |-> n, state |-> st]
  BY <1>3 DEF SourceRecord
<1> QED BY <1>1, <1>2, <1>4 DEF SourceRecord

\* What a goroutine has the renderer do with its source.
LEMMA StreamPlays ==
  ASSUME SourceInv, NEW s \in Streams, StreamStep(s)
  PROVE  SourceInv'
<1> USE DEF SourceInv, SourceTypes
<1>1. CASE CreateSource(s)
  <2>1. CASE Current
    BY <1>1, <2>1, SourceChanges, PlaybackAssumption DEF CreateSource, Fresh, SourceRecord
  <2>2. CASE ~Current
    BY <1>1, <2>2, SourceStutter DEF CreateSource
  <2> QED BY <2>1, <2>2
<1>2. CASE Reclaim(s)
  <2>1. CASE Current /\ source[s] # Nobody
    <3> DEFINE src == Unqueued(source[s])
    <3>1. source[s] \in SourceRecord
      BY <2>1
    <3>2. /\ src \in SourceRecord /\ src.processed = 0 /\ src.state = source[s].state
          /\ src.queued = source[s].queued - source[s].processed
      BY <2>1, <3>1, UnqueuedIs DEF BuffersKept
    <3>3. source[s].state = "playing" => source[s].processed < source[s].queued
      BY <2>1 DEF SourcesPlay
    <3>4. /\ source' = [source EXCEPT ![s] = src]
          /\ empty' = [empty EXCEPT ![s] = empty[s] + source[s].processed]
          /\ UNCHANGED <<gain, changing, destroy>>
      BY <1>2, <2>1 DEF Reclaim
    <3>5. /\ empty[s] + source[s].processed \in Nat
          /\ (empty[s] + source[s].processed) + src.queued = Buffers
          /\ src.processed <= src.queued
          /\ src.state = "playing" => src.processed < src.queued
      BY <2>1, <3>1, <3>2, <3>3 DEF SourceRecord, BuffersKept
    <3> HIDE DEF src
    <3> QED BY <2>1, <3>2, <3>4, <3>5, SourceChanges
  <2>2. CASE ~(Current /\ source[s] # Nobody)
    BY <1>2, <2>2, SourceStutter DEF Reclaim
  <2> QED BY <2>1, <2>2
<1>3. CASE Process(s) \/ Record(s)
  BY <1>3, SourceStutter DEF Process, Record
<1>4. CASE Queue(s)
  <2>1. CASE empty[s] > 0 /\ "context" \in open
    <3> DEFINE src == Played(WithBuffer(source[s]))
    <3>1. /\ source[s] # Nobody /\ source[s] \in SourceRecord
          /\ source[s].processed <= source[s].queued
      BY <2>1 DEF SourcesPlay, BuffersKept
    <3>2. /\ src \in SourceRecord /\ src.queued = source[s].queued + 1
          /\ src.processed < src.queued
      BY <3>1, QueuedIs
    <3>3. /\ source' = [source EXCEPT ![s] = src] /\ empty' = [empty EXCEPT ![s] = empty[s] - 1]
          /\ UNCHANGED <<gain, changing, destroy>>
      BY <1>4, <2>1 DEF Queue
    <3> HIDE DEF src
    <3>4. empty[s] - 1 \in Nat /\ (empty[s] - 1) + src.queued = Buffers
      BY <2>1, <3>1, <3>2 DEF SourceRecord, BuffersKept
    <3>5. src.processed <= src.queued
      BY <3>2 DEF SourceRecord
    <3> QED BY <3>1, <3>2, <3>3, <3>4, <3>5, SourceChanges
  <2>2. CASE ~(empty[s] > 0 /\ "context" \in open)
    BY <1>4, <2>2, SourceStutter DEF Queue
  <2> QED BY <2>1, <2>2
<1>5. CASE Release(s)
  <2>1. CASE Current
    <3>1. /\ source' = [source EXCEPT ![s] = Nobody] /\ empty' = [empty EXCEPT ![s] = 0]
          /\ UNCHANGED <<gain, changing, destroy>>
      BY <1>5, <2>1 DEF Release
    <3>2. SourceTypes' /\ BuffersKept' /\ SourcesPlay' /\ GainFollows'
      BY <3>1 DEF BuffersKept, SourcesPlay, GainFollows
    <3> QED BY <3>2
  <2>2. CASE ~Current
    BY <1>5, <2>2, SourceStutter DEF Release
  <2> QED BY <2>1, <2>2
<1> QED BY <1>1, <1>2, <1>3, <1>4, <1>5 DEF StreamStep

LEMMA DevicePlaysOn ==
  ASSUME SourceInv, NEW s \in Streams, DevicePlays(s)
  PROVE  SourceInv'
<1> USE DEF SourceInv, SourceTypes
<1> DEFINE old == source[s]
           src == [old EXCEPT !.processed = @ + 1,
                              !.state = IF old.processed + 1 = old.queued THEN "stopped" ELSE "playing"]
<1>1. old # Nobody /\ old \in SourceRecord /\ old.processed < old.queued
  BY DEF DevicePlays, SourcesPlay
<1>2. /\ src \in SourceRecord /\ src.queued = old.queued /\ src.processed <= src.queued
      /\ src.state = "playing" => src.processed < src.queued
  BY <1>1, PlaysOnIs
<1>3. source' = [source EXCEPT ![s] = src] /\ UNCHANGED <<empty, gain, changing, destroy>>
  BY DEF DevicePlays
<1> HIDE DEF src
<1>4. /\ empty[s] \in Nat /\ empty[s] + src.queued = Buffers
      /\ empty' = [empty EXCEPT ![s] = empty[s]]
  BY <1>1, <1>2, <1>3 DEF BuffersKept
<1> QED BY <1>1, <1>2, <1>3, <1>4, SourceChanges

\* The user interface, OnUserChange, and UpdateUserGain for a source that is there.
LEMMA GainChanges ==
  ASSUME SourceInv, NEW s \in Streams, Change(s) \/ Overwrite(s) \/ UpdateUserGain(s)
  PROVE  SourceInv'
<1> USE DEF SourceInv, SourceTypes
<1>1. /\ UNCHANGED <<source, empty, destroy>>
      /\ gain' \in [Streams -> {"set", "ui", "reader"}]
      /\ \A t \in Streams \ {s} : gain'[t] = gain[t] /\ (t \in changing => t \in changing')
  BY DEF Change, Overwrite, UpdateUserGain
<1>2. source[s] # Nobody /\ gain'[s] = "ui" => s \in changing' \/ destroy = "done"
  BY DEF Change, Overwrite, UpdateUserGain, GainFollows
<1>3. SourceTypes' /\ BuffersKept' /\ SourcesPlay'
  BY <1>1 DEF BuffersKept, SourcesPlay
<1>4. GainFollows'
  BY <1>1, <1>2 DEF GainFollows
<1> QED BY <1>3, <1>4

LEMMA SourceStep == SourceInv /\ [Next]_vars => SourceInv'
<1> SUFFICES ASSUME SourceInv, [Next]_vars PROVE SourceInv'
  OBVIOUS
<1>1. CASE NewStep \/ DestroyStep
  BY <1>1, SourceStutter DEF NewStep, OpenCapture, OpenSink, CreateContext, DestroyStep, Detach, Drain,
     DrainTimeout, CloseCapture, DestroyContext, CloseRenderer, CloseDevice
<1>2. CASE PlayLocal \/ FileEnds \/ EndLocal \/ CleanFile
  BY <1>2, SourceStutter DEF PlayLocal, FileEnds, EndLocal, CleanFile
<1>3. CASE StopRecorder
  BY <1>3, SourceStutter DEF StopRecorder
<1>4. CASE (RunStep \/ FfmpegStep \/ StopStep) /\ UNCHANGED playing
  BY <1>4, SourceStutter DEF playing
<1>5. ASSUME NEW s \in Streams, OnAudioStream(s) \/ Packet(s) PROVE SourceInv'
  BY <1>5, SourceStutter DEF OnAudioStream, Packet
<1>6. ASSUME NEW s \in Streams, StreamStep(s) \/ DevicePlays(s) PROVE SourceInv'
  BY <1>6, StreamPlays, DevicePlaysOn
<1>7. ASSUME NEW s \in Streams, Change(s) \/ Overwrite(s) \/ UpdateUserGain(s) PROVE SourceInv'
  BY <1>7, GainChanges
<1>8. CASE UNCHANGED vars
  BY <1>8, SourceStutter DEF vars, playing
<1> QED BY <1>1, <1>2, <1>3, <1>4, <1>5, <1>6, <1>7, <1>8 DEF Next, Use

LEMMA SourceInit == Init => SourceInv
BY DEF Init, SourceInv, SourceTypes, BuffersKept, SourcesPlay, GainFollows

\* A change the user interface has handed on is on the source, although sources come
\* and go at any step of it: one made after the change starts with it (gumbleopenal/
\* stream.go, createSource and UpdateUserGain).
THEOREM GainReachesSource == Spec => []GainFollows
<1>1. SourceInv => GainFollows
  BY DEF SourceInv
<1> QED BY <1>1, SourceInit, SourceStep, PTL DEF Spec

\* No buffer of a stream is lost or queued twice, whatever the device has played when
\* the goroutine reclaims, queues or releases.
THEOREM NoBufferLost == Spec => []BuffersKept
<1>1. SourceInv => BuffersKept
  BY DEF SourceInv
<1> QED BY <1>1, SourceInit, SourceStep, PTL DEF Spec
=============================================================================
