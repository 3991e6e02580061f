------------------------------ MODULE Transmit ------------------------------
(***************************************************************************)
(* What goes out: the capture goroutines of gumbleopenal.Stream, the file  *)
(* player whose frames they mix in, the encoder choice of gumble.Client,   *)
(* and the parties that start and stop them:                               *)
(*   - UI, the terminal goroutine (talk key, /file, /stop);                *)
(*   - Net, first the readRoutine running OnDisconnect, then the reconnect *)
(*     loop it starts running connect(), then idle until the link drops;   *)
(*   - the goroutines themselves: one sourceRoutine with its sender per    *)
(*     talk burst, one readFileAudio worker per file played.               *)
(*                                                                         *)
(* Overlapping connects are the subject of Reconnect; here one connect     *)
(* follows one disconnect.  A step ends where another goroutine can see or *)
(* change what comes next; a mutex is held exactly while its holder stands *)
(* at one of the steps the lock operators below name.  Names of bursts,    *)
(* plays and streams are used again once nothing refers to them, the       *)
(* smallest first, so behaviours are not bounded.                          *)
(***************************************************************************)
EXTENDS Naturals, FiniteSets, Sequences, SequencesExt

CONSTANTS
  MaxBursts,   \* bound: sourceRoutine goroutines at one time
  MaxPlays,    \* bound: readFileAudio workers at one time
  MaxStreams,  \* bound: streams at one time; a player shares its stream's number
  UI, Net,     \* the terminal goroutine and the connection's goroutine
  QueueSize    \* capacity of Player.audioChan

ASSUME BoundsAssumption == {MaxBursts, MaxPlays, MaxStreams, QueueSize} \subseteq Nat \ {0}
ASSUME PartiesAssumption == UI # Net

VARIABLES
  pc,        \* where UI and Net stand
  waits,     \* the burst a party waits for in StopSource
  auto,      \* Barnard.AutoTransmit, set on the command line
  tx,        \* Barnard.Tx
  connected, \* Barnard.Connected
  stereo,    \* Client.useStereoEncoder of the current client
  stream,    \* Barnard.Stream
  files,     \* Barnard.FileStream
  device,    \* the stream whose capture device is open
  source,    \* Stream.sourceStop: the burst it belongs to
  burst,     \* each sourceRoutine with the sender AudioOutgoing started for it
  play,      \* each readFileAudio worker
  playing,   \* Player.playing
  queue      \* Player.audioChan: the play each waiting frame comes from

flagVars   == <<auto, tx, connected, stereo>>
ownVars    == <<stream, files, device>>
sourceVars == <<source, burst>>
playerVars == <<play, playing, queue>>
vars == <<pc, waits, flagVars, ownVars, sourceVars, playerVars>>

Parties == {UI, Net}
Bursts  == 1 .. MaxBursts
Plays   == 1 .. MaxPlays
Streams == 1 .. MaxStreams
None    == 0

UISteps  == {"idle", "talk", "startTalk", "talkFailed", "stopTalk", "stereo", "playSource",
             "playOn", "waitFile", "waitSource", "exited"}
NetSteps == {"up", "cleanFile", "waitFile", "cleanStream", "waitSource", "txOff", "disconnected",
             "install", "live", "auto", "autoStart", "autoTx"}

\* A sourceRoutine waits for its ticker, holds a frame to send, is over while its
\* sender still holds the last frame, or has gone with it.
BurstType == [on : Streams \cup {None}, at : {"loop", "send", "over", "gone"}, told : BOOLEAN]
\* A worker starts ffmpeg, reads, has seen the end of the file, has cleared playing
\* and is about to call the error callback, or is done.
PlayType  == [on : Streams \cup {None}, at : {"start", "read", "eof", "report", "done"}]

NoBurst == [on |-> None, at |-> "gone", told |-> FALSE]
NoPlay  == [on |-> None, at |-> "done"]

TypeOK ==
  /\ pc \in [Parties -> UISteps \cup NetSteps]
  /\ waits \in [Parties -> Bursts \cup {None}]
  /\ {auto, tx, connected, stereo} \subseteq BOOLEAN
  /\ {stream, files, device} \subseteq Streams \cup {None}
  /\ source \in Bursts \cup {None}
  /\ burst \in [Bursts -> BurstType]
  /\ play \in [Plays -> PlayType]
  /\ playing \in [Streams -> BOOLEAN]
  /\ queue \in [Streams -> SeqOf(Plays, QueueSize)]

\* The connection has just been lost and cleaned up; nothing is played or captured.
Init ==
  /\ pc = [p \in Parties |-> IF p = UI THEN "idle" ELSE "disconnected"]
  /\ waits = [p \in Parties |-> None]
  /\ auto \in BOOLEAN
  /\ tx = FALSE /\ connected = FALSE /\ stereo = FALSE
  /\ stream = None /\ files = None /\ device = None
  /\ source = None
  /\ burst = [b \in Bursts |-> NoBurst]
  /\ play = [f \in Plays |-> NoPlay]
  /\ playing = [s \in Streams |-> FALSE]
  /\ queue = [s \in Streams |-> <<>>]

-----------------------------------------------------------------------------
(* Locks and names                                                         *)

\* FileStreamMutex is held by /file from its checks to its end, and by whoever is in
\* Player.Stop; connectionMutex by whoever waits in StopSource and by startAutoTransmit.
FilesFree == pc[UI] \notin {"stereo", "playSource", "playOn", "waitFile"} /\ pc[Net] # "waitFile"
CanRead   == pc[Net] # "waitSource"
CanWrite  == pc[UI] # "waitSource" /\ pc[Net] # "autoTx"

Goto(p, step) == pc' = [pc EXCEPT ![p] = step]

\* Nothing refers to the goroutine or the stream any more.
FreeBursts  == {b \in Bursts : burst[b] = NoBurst /\ \A p \in Parties : waits[p] # b}
FreePlays   == {f \in Plays : play[f] = NoPlay /\ \A s \in Streams : f \notin Range(queue[s])}
FreeStreams == {s \in Streams : \A f \in Plays : play[f].on # s}
Smallest(S, x) == x \in S /\ \A y \in S : x <= y

\* Stream.StartSource after its checks: a sourceRoutine with its outgoing channel.
StartSource ==
  \E b \in Bursts :
    /\ Smallest(FreeBursts, b)
    /\ source' = b
    /\ burst' = [burst EXCEPT ![b] = [on |-> stream, at |-> "loop", told |-> FALSE]]

\* Mutant: StopSource waits for the routine without having told it to stop.
CloseSourceSilently(p) ==
  /\ waits' = [waits EXCEPT ![p] = source]
  /\ UNCHANGED burst
  /\ source' = None
  /\ Goto(p, "waitSource")

\* The first half of StopSource: sourceStop is taken and closed, and the caller
\* goes on to wait for the routine.
CloseSource(p) ==
  /\ waits' = [waits EXCEPT ![p] = source]
  /\ burst' = [burst EXCEPT ![source].told = TRUE]
  /\ source' = None
  /\ Goto(p, "waitSource")

\* Mutant: StopSource returns without waiting for the routine.
SourceOverNoWait(p) ==
  /\ pc[p] = "waitSource"
  /\ waits' = [waits EXCEPT ![p] = None]

SourceOver(p) ==
  /\ pc[p] = "waitSource"
  /\ burst[waits[p]].at \in {"over", "gone"}
  /\ waits' = [waits EXCEPT ![p] = None]

-----------------------------------------------------------------------------
(* setTransmit (talk key, micup, micdown) and StopTransmission             *)

\* Tx is read once for the argument and again to decide what to do, so the two
\* readings may differ.  val 0 is micdown, 1 micup and 2 the toggle.
SetTransmit(val) ==
  /\ pc[UI] = "idle"
  /\ ~ (tx /\ val = 1)
  /\ ~ (~tx /\ val = 0)
  /\ Goto(UI, "talk")
  /\ UNCHANGED <<waits, flagVars, ownVars, sourceVars, playerVars>>

TalkOff ==
  /\ pc[UI] = "talk" /\ tx
  /\ tx' = FALSE
  /\ Goto(UI, "stopTalk")
  /\ UNCHANGED <<waits, auto, connected, stereo, ownVars, sourceVars, playerVars>>

\* Not connected; or the channel is one the user muted, of which there is no record here.
TalkRefused ==
  /\ pc[UI] = "talk" /\ ~tx
  /\ Goto(UI, "idle")
  /\ UNCHANGED <<waits, flagVars, ownVars, sourceVars, playerVars>>

TalkOn ==
  /\ pc[UI] = "talk" /\ ~tx /\ connected
  /\ tx' = TRUE
  /\ Goto(UI, "startTalk")
  /\ UNCHANGED <<waits, auto, connected, stereo, ownVars, sourceVars, playerVars>>

StartTalk ==
  /\ pc[UI] = "startTalk" /\ CanRead
  /\ stream # None /\ source = None
  /\ StartSource
  /\ Goto(UI, "idle")
  /\ UNCHANGED <<waits, flagVars, ownVars, playerVars>>

\* No stream while reconnecting, or ErrState from a stream that captures already.
StartTalkFails ==
  /\ pc[UI] = "startTalk" /\ CanRead
  /\ stream = None \/ source # None
  /\ Goto(UI, "talkFailed")
  /\ UNCHANGED <<waits, flagVars, ownVars, sourceVars, playerVars>>

\* ErrMic: a capture device that cannot be started ends the program.
StartTalkFatal ==
  /\ pc[UI] = "startTalk" /\ CanRead
  /\ stream # None /\ source = None
  /\ tx' = FALSE
  /\ Goto(UI, "exited")
  /\ UNCHANGED <<waits, auto, connected, stereo, ownVars, sourceVars, playerVars>>

\* Mutant: The talk key forgets to take Tx back when the stream could not be started.
TalkFailedKeepsTx ==
  /\ pc[UI] = "talkFailed"
  /\ Goto(UI, "idle")
  /\ UNCHANGED <<waits, flagVars, ownVars, sourceVars, playerVars>>

TalkFailed ==
  /\ pc[UI] = "talkFailed"
  /\ tx' = FALSE
  /\ Goto(UI, "idle")
  /\ UNCHANGED <<waits, auto, connected, stereo, ownVars, sourceVars, playerVars>>

\* withStream(StopSource): the read lock is held until the routine is over.
StopTalk ==
  /\ pc[UI] = "stopTalk" /\ CanRead
  /\ IF stream = None \/ source = None
       THEN Goto(UI, "idle") /\ UNCHANGED <<waits, sourceVars>>
       ELSE CloseSource(UI)
  /\ UNCHANGED <<flagVars, ownVars, playerVars>>

TalkStopped ==
  /\ SourceOver(UI)
  /\ Goto(UI, "idle")
  /\ UNCHANGED <<flagVars, ownVars, sourceVars, playerVars>>

-----------------------------------------------------------------------------
(* Player.PlayFile and Player.Stop, under FileStreamMutex                  *)

\* /file: the player is idle, and a worker starts.
BeginPlay ==
  /\ pc[UI] = "idle" /\ connected /\ FilesFree
  /\ files # None /\ ~playing[files]
  /\ \E f \in Plays : Smallest(FreePlays, f) /\ play' = [play EXCEPT ![f] = [on |-> files, at |-> "start"]]
  /\ playing' = [playing EXCEPT ![files] = TRUE]
  /\ Goto(UI, "stereo")
  /\ UNCHANGED <<waits, flagVars, ownVars, sourceVars, queue>>

\* EnableStereoEncoder.  A transmission already under way carries the file.
EnableStereo ==
  /\ pc[UI] = "stereo"
  /\ stereo' = TRUE
  /\ Goto(UI, IF tx THEN "idle" ELSE "playSource")
  /\ UNCHANGED <<waits, auto, tx, connected, ownVars, sourceVars, playerVars>>

PlaySource ==
  /\ pc[UI] = "playSource" /\ CanRead
  /\ stream # None /\ source = None
  /\ StartSource
  /\ Goto(UI, "playOn")
  /\ UNCHANGED <<waits, flagVars, ownVars, playerVars>>

PlayOn ==
  /\ pc[UI] = "playOn"
  /\ tx' = TRUE
  /\ Goto(UI, "idle")
  /\ UNCHANGED <<waits, auto, connected, stereo, ownVars, sourceVars, playerVars>>

\* Player.Stop closes stopChan and kills ffmpeg; the caller then waits for the
\* workers.  It is an error when nothing plays any more.
Stopping(s) == \E p \in Parties : pc[p] = "waitFile" /\ files = s

\* The transmission could not be started (no stream, ErrState or ErrMic): Stop, and
\* DisableStereoEncoder in any case.
PlaySourceFails ==
  /\ pc[UI] = "playSource" /\ CanRead
  /\ IF playing[files]
       THEN Goto(UI, "waitFile") /\ UNCHANGED stereo
       ELSE Goto(UI, "idle") /\ stereo' = FALSE
  /\ UNCHANGED <<waits, auto, tx, connected, ownVars, sourceVars, playerVars>>

\* /stop while a file is playing.
BeginStop ==
  /\ pc[UI] = "idle" /\ FilesFree
  /\ files # None /\ playing[files]
  /\ Goto(UI, "waitFile")
  /\ UNCHANGED <<waits, flagVars, ownVars, sourceVars, playerVars>>

\* Mutant: Stop does not wait for the worker.
WorkersGoneNoWait(p) ==
  /\ pc[p] = "waitFile"
  /\ playing' = [playing EXCEPT ![files] = FALSE]
  /\ queue' = [queue EXCEPT ![files] = <<>>]

\* wg.Wait() has counted every worker of the player that had not returned; the
\* session state is cleared and what the workers left in the channel is discarded.
WorkersGone(p) ==
  /\ pc[p] = "waitFile"
  /\ \A f \in Plays : play[f].on # files
  /\ playing' = [playing EXCEPT ![files] = FALSE]
  /\ queue' = [queue EXCEPT ![files] = <<>>]

\* Stop has returned to /stop or /file, which turns the stereo encoder off.
FileStopped ==
  /\ WorkersGone(UI)
  /\ stereo' = FALSE
  /\ Goto(UI, "idle")
  /\ UNCHANGED <<waits, auto, tx, connected, ownVars, sourceVars, play>>

-----------------------------------------------------------------------------
(* readFileAudio                                                           *)

MoveWorker(f, step) == play' = [play EXCEPT ![f].at = step]

WorkerStart(f) ==
  /\ play[f].at = "start"
  /\ MoveWorker(f, "read")
  /\ UNCHANGED <<pc, waits, flagVars, ownVars, sourceVars, playing, queue>>

\* ffmpeg could not be started, for one because the player was told to stop before.
WorkerStartFails(f) ==
  /\ play[f].at = "start"
  /\ MoveWorker(f, "report")
  /\ playing' = [playing EXCEPT ![play[f].on] = FALSE]
  /\ UNCHANGED <<pc, waits, flagVars, ownVars, sourceVars, queue>>

\* A frame goes to audioChan, or is skipped when the channel is full.
WorkerFrame(f) ==
  /\ play[f].at = "read"
  /\ Len(queue[play[f].on]) < QueueSize
  /\ queue' = [queue EXCEPT ![play[f].on] = Append(@, f)]
  /\ UNCHANGED <<pc, waits, flagVars, ownVars, sourceVars, play, playing>>

\* stopChan is closed: chosen by the select, or found after a failed read.
WorkerStopped(f) ==
  /\ play[f].at = "read" /\ Stopping(play[f].on)
  /\ play' = [play EXCEPT ![f] = NoPlay]
  /\ UNCHANGED <<pc, waits, flagVars, ownVars, sourceVars, playing, queue>>

\* The file ended, and the player had not been told to stop.
WorkerEnd(f) ==
  /\ play[f].at = "read" /\ ~Stopping(play[f].on)
  /\ MoveWorker(f, "eof")
  /\ UNCHANGED <<pc, waits, flagVars, ownVars, sourceVars, playing, queue>>

WorkerClear(f) ==
  /\ play[f].at = "eof"
  /\ playing' = [playing EXCEPT ![play[f].on] = FALSE]
  /\ MoveWorker(f, "report")
  /\ UNCHANGED <<pc, waits, flagVars, ownVars, sourceVars, queue>>

\* The error callback installed by connect() turns the stereo encoder off,
\* whatever has been started meanwhile.
WorkerReport(f) ==
  /\ play[f].at = "report"
  /\ stereo' = FALSE
  /\ play' = [play EXCEPT ![f] = NoPlay]
  /\ UNCHANGED <<pc, waits, auto, tx, connected, ownVars, sourceVars, playing, queue>>

-----------------------------------------------------------------------------
(* sourceRoutine and the sender of AudioOutgoing                           *)

\* A tick with audio: a frame of the file that is playing, or else one of the
\* microphone.
CaptureFrame(b) ==
  /\ burst[b].at = "loop"
  /\ LET s == burst[b].on IN
       IF playing[s] /\ queue[s] # <<>> THEN queue' = [queue EXCEPT ![s] = Tail(@)] ELSE UNCHANGED queue
  /\ burst' = [burst EXCEPT ![b].at = "send"]
  /\ UNCHANGED <<pc, waits, flagVars, ownVars, source, play, playing>>

\* The channel is unbuffered: the frame is handed over when the sender has written
\* the one before.
HandOver(b) ==
  /\ burst[b].at = "send"
  /\ burst' = [burst EXCEPT ![b].at = "loop"]
  /\ UNCHANGED <<pc, waits, flagVars, ownVars, source, playerVars>>

\* The stop channel is closed: the routine closes its outgoing channel and is over.
CaptureEnds(b) ==
  /\ burst[b].at = "loop" /\ burst[b].told
  /\ burst' = [burst EXCEPT ![b].at = "over"]
  /\ UNCHANGED <<pc, waits, flagVars, ownVars, source, playerVars>>

\* The frame the sender kept back is written as the terminator of the burst.
SenderEnds(b) ==
  /\ burst[b].at = "over"
  /\ burst' = [burst EXCEPT ![b] = NoBurst]
  /\ UNCHANGED <<pc, waits, flagVars, ownVars, source, playerVars>>

-----------------------------------------------------------------------------
(* OnDisconnect, then connect() in the reconnect loop                      *)

LinkLost ==
  /\ pc[Net] = "up"
  /\ Goto(Net, "cleanFile")
  /\ UNCHANGED <<waits, flagVars, ownVars, sourceVars, playerVars>>

\* cleanupConnectionAudio: the player is stopped if it plays, and dropped.
CleanFile ==
  /\ pc[Net] = "cleanFile" /\ FilesFree
  /\ IF files # None /\ playing[files]
       THEN Goto(Net, "waitFile") /\ UNCHANGED files
       ELSE Goto(Net, "cleanStream") /\ files' = None
  /\ UNCHANGED <<waits, flagVars, stream, device, sourceVars, playerVars>>

FileCleaned ==
  /\ WorkersGone(Net)
  /\ files' = None
  /\ Goto(Net, "cleanStream")
  /\ UNCHANGED <<waits, flagVars, stream, device, sourceVars, play>>

DropStream == stream' = None /\ device' = None /\ Goto(Net, "txOff")

\* connectionMutex is held for writing while the stream is destroyed: Destroy first
\* ends the capture and then closes its device.
CleanStream ==
  /\ pc[Net] = "cleanStream" /\ CanWrite
  /\ IF source = None
       THEN DropStream /\ UNCHANGED <<waits, sourceVars>>
       ELSE CloseSource(Net) /\ UNCHANGED <<stream, device>>
  /\ UNCHANGED <<flagVars, files, playerVars>>

StreamCleaned ==
  /\ SourceOver(Net)
  /\ DropStream
  /\ UNCHANGED <<flagVars, files, sourceVars, playerVars>>

TxOff ==
  /\ pc[Net] = "txOff"
  /\ tx' = FALSE
  /\ Goto(Net, "disconnected")
  /\ UNCHANGED <<waits, auto, connected, stereo, ownVars, sourceVars, playerVars>>

\* setConnected(false) and startReconnect; the dial succeeds, and the devices are
\* opened for a new client, whose encoder is mono.
Redial ==
  /\ pc[Net] = "disconnected"
  /\ connected' = FALSE /\ stereo' = FALSE
  /\ \E s \in Streams :
       /\ Smallest(FreeStreams, s)
       /\ device' = s
       /\ queue' = [queue EXCEPT ![s] = <<>>]
  /\ Goto(Net, "install")
  /\ UNCHANGED <<waits, auto, tx, stream, files, sourceVars, play, playing>>

Install ==
  /\ pc[Net] = "install" /\ FilesFree /\ CanWrite
  /\ files' = device /\ stream' = device
  /\ Goto(Net, "live")
  /\ UNCHANGED <<waits, flagVars, device, sourceVars, playerVars>>

SetConnected ==
  /\ pc[Net] = "live"
  /\ connected' = TRUE
  /\ Goto(Net, IF auto THEN "auto" ELSE "up")
  /\ UNCHANGED <<waits, auto, tx, stereo, ownVars, sourceVars, playerVars>>

\* startAutoTransmit looks at Tx before it takes the connection lock.
StartAutoTransmit ==
  /\ pc[Net] = "auto"
  /\ Goto(Net, IF tx THEN "up" ELSE "autoStart")
  /\ UNCHANGED <<waits, flagVars, ownVars, sourceVars, playerVars>>

AutoStart ==
  /\ pc[Net] = "autoStart" /\ source = None
  /\ StartSource
  /\ Goto(Net, "autoTx")
  /\ UNCHANGED <<waits, flagVars, ownVars, playerVars>>

\* ErrState, or a capture device that does not start: only a message.
AutoStartFails ==
  /\ pc[Net] = "autoStart"
  /\ Goto(Net, "up")
  /\ UNCHANGED <<waits, flagVars, ownVars, sourceVars, playerVars>>

AutoTx ==
  /\ pc[Net] = "autoTx"
  /\ tx' = TRUE
  /\ Goto(Net, "up")
  /\ UNCHANGED <<waits, auto, connected, stereo, ownVars, sourceVars, playerVars>>

-----------------------------------------------------------------------------
Command == \/ \E val \in 0 .. 2 : SetTransmit(val)
           \/ BeginPlay \/ BeginStop
UIStep == \/ TalkOff \/ TalkRefused \/ TalkOn \/ StartTalk \/ StartTalkFails \/ StartTalkFatal
          \/ TalkFailed \/ StopTalk \/ TalkStopped
          \/ EnableStereo \/ PlaySource \/ PlayOn \/ PlaySourceFails \/ FileStopped
NetStep == \/ CleanFile \/ FileCleaned \/ CleanStream \/ StreamCleaned \/ TxOff
           \/ Redial \/ Install \/ SetConnected \/ StartAutoTransmit \/ AutoStart \/ AutoStartFails \/ AutoTx
Worker(f) == \/ WorkerStart(f) \/ WorkerStartFails(f) \/ WorkerFrame(f) \/ WorkerStopped(f)
             \/ WorkerEnd(f) \/ WorkerClear(f) \/ WorkerReport(f)
Capture(b) == CaptureFrame(b) \/ HandOver(b) \/ CaptureEnds(b) \/ SenderEnds(b)

Next == \/ Command \/ LinkLost \/ UIStep \/ NetStep
        \/ \E f \in Plays : Worker(f)
        \/ \E b \in Bursts : Capture(b)

\* Goroutines run when they can, and a mutex that keeps being free is obtained.  A
\* select with two ready cases takes either at random, so a closed stop channel
\* is not passed over for ever.  Nothing makes the user press a key, a file end or
\* the link drop.
Fairness ==
  /\ SF_vars(UIStep) /\ SF_vars(NetStep)
  /\ \A f \in Plays : /\ WF_vars(WorkerStart(f) \/ WorkerClear(f) \/ WorkerReport(f))
                      /\ SF_vars(WorkerStopped(f))
  /\ \A b \in Bursts : WF_vars(HandOver(b) \/ SenderEnds(b)) /\ SF_vars(CaptureEnds(b))

Spec == Init /\ [][Next]_vars /\ Fairness

-----------------------------------------------------------------------------
(* Properties                                                              *)

\* "The routine owns capture access; wait for it before closing/reusing it"
\* (stream.go:490): no capture device is closed under a sourceRoutine, also when
\* startAutoTransmit starts one while the talk key still waits for another.
CaptureOwned == \A b \in Bursts : burst[b].at \in {"loop", "send"} => burst[b].on = device

\* The status line is honest where only the user starts transmissions: with neither
\* party in the middle of something, a client that shows itself transmitting has a
\* sourceRoutine that is not told to stop, whatever disconnects came in between.
OnAirIsCapturing ==
  (~auto /\ tx /\ pc[UI] = "idle" /\ pc[Net] = "up") =>
     source # None /\ burst[source].on = stream /\ ~burst[source].told

\* A player is never stuck in "file already playing": while playing is set some
\* worker has yet to clear it, or a Stop is under way that will.
PlayingHasWorker ==
  \A s \in Streams : (playing[s] /\ ~Stopping(s)) =>
     \E f \in Plays : play[f].on = s /\ play[f].at \in {"start", "read", "eof"}

\* "A new PlayFile must not replace session state until ffmpeg and the old worker
\* have exited, otherwise old audio can enter the new playback" (player.go:107):
\* two workers never feed one player, and a new one does not start while an old one
\* may still write to the channel.
OneWorkerFeeds ==
  \A f, g \in Plays : (f # g /\ play[f].on = play[g].on /\ play[f].at \in {"start", "read"}) =>
                         play[g].at \notin {"start", "read", "eof"}

\* A player that plays has a worker of its own, and only that one.
PlayerHasOneWorker == PlayingHasWorker /\ OneWorkerFeeds

\* No command freezes the terminal, whoever holds the file and connection locks and
\* waits for a goroutine under them: a sourceRoutine or a worker told to stop ends.  A
\* lost connection is always cleaned up and replaced.
CommandsReturn == []<>(pc[UI] \in {"idle", "exited"}) /\ []<>(pc[Net] = "up")

-----------------------------------------------------------------------------
(* What the code does not keep                                             *)

\* "micdown: Stop transmitting, just like when you release your talk key. Does
\* nothing if you are not already transmitting" (README.md:67): a capture that runs
\* while Tx is false can be stopped by no command.  startAutoTransmit and the talk
\* key, or a reconnect during the talk key, leave one.
MicFollowsTx == (~tx /\ pc[UI] = "idle" /\ pc[Net] = "up") => source = None

\* "Disable stereo when file finishes or errors" (client.go:123): with no file and
\* no worker left, voice goes through the mono encoder.  The callback of a worker that
\* fails at once may come before CommandPlayFile enables the stereo encoder.
StereoEndsWithFile == (pc[UI] = "idle" /\ \A f \in Plays : play[f] = NoPlay) => ~stereo

\* A file that ended by itself leaves its last frames in the channel, where the
\* listeners hear them at the start of the next file.
NewFileStartsFresh == \A f \in Plays : play[f].at = "start" => queue[play[f].on] = <<>>

=============================================================================
