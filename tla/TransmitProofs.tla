--------------------------- MODULE TransmitProofs ---------------------------
(***************************************************************************)
(* Theorems about the two ends of a voice: Transmit, for any number of     *)
(* bursts, plays and streams and a queue of any length, and Receive, for   *)
(* any packets, reach, delay and length of the buffers.                    *)
(***************************************************************************)
EXTENDS Transmit, Receive, SequenceTheorems, FiniteSetTheorems, TLAPS

-----------------------------------------------------------------------------
(* The capture device                                                      *)

Active(b) == burst[b].at \in {"loop", "send"}

\* A routine that captures is the stream's, or somebody waits for its end.
ActiveIsKnown == \A b \in Bursts : Active(b) =>
  source = b \/ \E p \in Parties : pc[p] = "waitSource" /\ waits[p] = b

\* While the stream is being replaced nothing captures; otherwise the stream that
\* is installed is the one whose device is open.
DeviceOfStream ==
  IF pc[Net] \in {"txOff", "disconnected", "install"}
  THEN stream = None /\ source = None /\ \A b \in Bursts : ~Active(b)
  ELSE stream = device

\* A party that waits has taken the source out, and Destroy waits alone.
WaitersAlone ==
  /\ pc[Net] = "waitSource" => source = None /\ pc[UI] # "waitSource"
  /\ \A p \in Parties : pc[p] = "waitSource" => waits[p] \in Bursts

CaptureTypes ==
  /\ pc \in [Parties -> UISteps \cup NetSteps]
  /\ waits \in [Parties -> Bursts \cup {None}]
  /\ source \in Bursts \cup {None} /\ stream \in Streams \cup {None}
  /\ device \in Streams \cup {None}
  /\ burst \in [Bursts -> BurstType]

CaptureInv ==
  /\ CaptureTypes /\ ActiveIsKnown /\ DeviceOfStream /\ WaitersAlone /\ CaptureOwned

captureVars == <<pc, waits, source, burst, stream, device>>

LEMMA CaptureStutter == CaptureInv /\ UNCHANGED captureVars => CaptureInv'
  BY DEF CaptureInv, CaptureTypes, ActiveIsKnown, DeviceOfStream, WaitersAlone, CaptureOwned,
         captureVars, Active

\* A party moves between steps in which it waits for no routine, and with it
\* neither routines nor devices change.
LEMMA CaptureMove ==
  ASSUME CaptureInv, NEW p \in Parties, NEW step \in UISteps \cup NetSteps,
         Goto(p, step), pc[p] # "waitSource", step # "waitSource",
         p = Net => (pc[Net] \in {"txOff", "disconnected", "install"}
                      <=> step \in {"txOff", "disconnected", "install"}),
         UNCHANGED <<waits, source, burst, stream>>,
         device' \in Streams \cup {None},
         device' = device \/ pc[Net] \in {"txOff", "disconnected", "install"}
  PROVE  CaptureInv'
<1> USE DEF CaptureInv, Goto, Parties
<1>1. CaptureTypes'
  BY DEF CaptureTypes
<1>2. ActiveIsKnown' /\ WaitersAlone'
  BY PartiesAssumption DEF CaptureTypes, ActiveIsKnown, WaitersAlone, Active
<1>3. (pc[Net] \in {"txOff", "disconnected", "install"})' <=>
       pc[Net] \in {"txOff", "disconnected", "install"}
  BY PartiesAssumption DEF CaptureTypes
<1>4. DeviceOfStream' /\ CaptureOwned'
  BY <1>3 DEF DeviceOfStream, CaptureOwned, Active
<1> QED BY <1>1, <1>2, <1>4

\* StartSource, where the stream has no source.
LEMMA CaptureStart ==
  ASSUME CaptureInv, NEW p \in Parties, NEW step \in UISteps \cup NetSteps,
         Goto(p, step), pc[p] # "waitSource", step # "waitSource",
         p = Net => pc[Net] = "autoStart" /\ step = "autoTx",
         p # Net => stream # None,
         pc[Net] # "waitSource", source = None, StartSource,
         UNCHANGED <<waits, stream, device>>
  PROVE  CaptureInv'
<1> USE DEF CaptureInv, Goto, Parties
<1>1. PICK b \in Bursts :
        /\ burst[b] = NoBurst /\ \A q \in Parties : waits[q] # b
        /\ source' = b
        /\ burst' = [burst EXCEPT ![b] = [on |-> stream, at |-> "loop", told |-> FALSE]]
  BY DEF StartSource, Smallest, FreeBursts
<1>2. stream = device /\ pc[Net] \notin {"txOff", "disconnected", "install"}
  BY DEF DeviceOfStream
<1>3. pc'[Net] \notin {"txOff", "disconnected", "install", "waitSource"}
  BY <1>2, PartiesAssumption DEF CaptureTypes
<1>4. CaptureTypes'
  BY <1>1 DEF CaptureTypes, BurstType
<1>5. /\ burst'[b].at = "loop" /\ burst'[b].on = stream
      /\ \A c \in Bursts : c # b => burst'[c] = burst[c]
  BY <1>1 DEF CaptureTypes
<1>6. ActiveIsKnown'
  <2> SUFFICES ASSUME NEW c \in Bursts, Active(c)', c # b
               PROVE  \E q \in Parties : pc'[q] = "waitSource" /\ waits'[q] = c
    BY <1>1 DEF ActiveIsKnown
  <2>1. Active(c)
    BY <1>5 DEF Active
  <2>2. source # c
    BY DEF Bursts, None
  <2>3. PICK q \in Parties : pc[q] = "waitSource" /\ waits[q] = c
    BY <2>1, <2>2 DEF ActiveIsKnown
  <2>4. pc'[q] = pc[q] /\ waits'[q] = c
    BY <2>3 DEF CaptureTypes
  <2> QED BY <2>3, <2>4
<1>7. WaitersAlone'
  BY <1>3 DEF CaptureTypes, WaitersAlone
<1>8. DeviceOfStream'
  BY <1>2, <1>3 DEF DeviceOfStream
<1>9. CaptureOwned'
  BY <1>2, <1>5 DEF CaptureOwned
<1> QED BY <1>4, <1>6, <1>7, <1>8, <1>9

\* The first half of StopSource.
LEMMA CaptureClose ==
  ASSUME CaptureInv, NEW p \in Parties, CloseSource(p), source # None,
         p = UI => pc[UI] = "stopTalk" /\ pc[Net] # "waitSource",
         p = Net => pc[Net] = "cleanStream" /\ pc[UI] # "waitSource",
         UNCHANGED <<stream, device>>
  PROVE  CaptureInv'
<1> USE DEF CaptureInv, Parties
<1>1. /\ waits' = [waits EXCEPT ![p] = source]
      /\ burst' = [burst EXCEPT ![source].told = TRUE]
      /\ source' = None
      /\ pc' = [pc EXCEPT ![p] = "waitSource"]
      /\ source \in Bursts
  BY DEF CloseSource, Goto, CaptureTypes
<1>2. CaptureTypes'
  <2>1. burst' \in [Bursts -> BurstType]
    BY <1>1 DEF CaptureTypes, BurstType
  <2> QED BY <1>1, <2>1 DEF CaptureTypes, UISteps, NetSteps
<1>3. \A b \in Bursts : burst'[b].at = burst[b].at /\ burst'[b].on = burst[b].on
  BY <1>1 DEF CaptureTypes, BurstType
<1>4. ActiveIsKnown'
  <2> SUFFICES ASSUME NEW b \in Bursts, Active(b)
               PROVE  \E q \in Parties : pc'[q] = "waitSource" /\ waits'[q] = b
    BY <1>3 DEF ActiveIsKnown, Active
  <2>1. CASE b = source
    BY <1>1, <2>1 DEF CaptureTypes
  <2>2. CASE b # source
    <3>1. PICK q \in Parties : pc[q] = "waitSource" /\ waits[q] = b
      BY <2>2 DEF ActiveIsKnown
    <3>2. q # p
      BY <3>1
    <3>3. pc'[q] = pc[q] /\ waits'[q] = waits[q]
      BY <1>1, <3>2 DEF CaptureTypes
    <3> QED BY <3>1, <3>3
  <2> QED BY <2>1, <2>2
<1>5. WaitersAlone'
  BY <1>1, PartiesAssumption DEF CaptureTypes, WaitersAlone
<1>6. DeviceOfStream' /\ CaptureOwned'
  BY <1>1, <1>3, PartiesAssumption DEF CaptureTypes, DeviceOfStream, CaptureOwned, Active
<1> QED BY <1>2, <1>4, <1>5, <1>6

\* The second half of StopSource, on the terminal's goroutine.
LEMMA CaptureStopped ==
  ASSUME CaptureInv, TalkStopped
  PROVE  CaptureInv'
<1> USE DEF CaptureInv, Parties
<1>1. /\ pc[UI] = "waitSource" /\ waits[UI] \in Bursts
      /\ burst[waits[UI]].at \in {"over", "gone"}
      /\ waits' = [waits EXCEPT ![UI] = None]
      /\ pc' = [pc EXCEPT ![UI] = "idle"]
      /\ UNCHANGED <<source, burst, stream, device>>
  BY DEF TalkStopped, SourceOver, Goto, WaitersAlone, ownVars, sourceVars
<1>2. pc'[Net] = pc[Net] /\ waits'[Net] = waits[Net] /\ pc'[UI] = "idle"
  BY <1>1, PartiesAssumption DEF CaptureTypes
<1>3. CaptureTypes'
  BY <1>1 DEF CaptureTypes, UISteps
<1>4. ActiveIsKnown'
  BY <1>1, <1>2 DEF ActiveIsKnown, Active
<1>5. WaitersAlone' /\ DeviceOfStream' /\ CaptureOwned'
  BY <1>1, <1>2 DEF WaitersAlone, DeviceOfStream, CaptureOwned, Active
<1> QED BY <1>3, <1>4, <1>5

\* Destroy closes the device: the stream has no source, and nobody waits for one
\* any more.
LEMMA CaptureDrop ==
  ASSUME CaptureInv, (CleanStream /\ source = None) \/ StreamCleaned
  PROVE  CaptureInv'
<1> USE DEF CaptureInv, Parties
<1>1. /\ pc' = [pc EXCEPT ![Net] = "txOff"]
      /\ stream' = None /\ device' = None
      /\ UNCHANGED <<source, burst>>
  BY DEF CleanStream, StreamCleaned, DropStream, Goto, sourceVars
<1>2. source = None /\ pc[UI] # "waitSource" /\ waits' \in [Parties -> Bursts \cup {None}]
  BY DEF CleanStream, StreamCleaned, CanWrite, SourceOver, WaitersAlone, CaptureTypes
<1>3. \A b \in Bursts : ~Active(b)
  <2> SUFFICES ASSUME NEW b \in Bursts, Active(b) PROVE FALSE
    OBVIOUS
  <2>1. source # b
    BY <1>2 DEF Bursts, None
  <2>2. PICK q \in Parties : pc[q] = "waitSource" /\ waits[q] = b
    BY <2>1 DEF ActiveIsKnown
  <2>3. pc[Net] = "waitSource" /\ waits[Net] = b
    BY <1>2, <2>2
  <2> QED BY <2>3 DEF CleanStream, StreamCleaned, SourceOver, Active
<1>4. pc'[Net] = "txOff" /\ pc'[UI] = pc[UI]
  BY <1>1, PartiesAssumption DEF CaptureTypes
<1>5. CaptureTypes'
  BY <1>1, <1>2 DEF CaptureTypes, NetSteps
<1>6. ActiveIsKnown' /\ DeviceOfStream' /\ CaptureOwned'
  BY <1>1, <1>2, <1>3, <1>4 DEF ActiveIsKnown, DeviceOfStream, CaptureOwned, Active
<1>7. WaitersAlone'
  BY <1>2, <1>4 DEF WaitersAlone
<1> QED BY <1>5, <1>6, <1>7

\* connect() has opened a stream and installs it.
LEMMA CaptureInstall ==
  ASSUME CaptureInv, Install
  PROVE  CaptureInv'
<1> USE DEF CaptureInv, Parties
<1>1. /\ pc[Net] = "install" /\ pc' = [pc EXCEPT ![Net] = "live"]
      /\ stream' = device /\ UNCHANGED <<waits, source, burst, device>>
  BY DEF Install, Goto, sourceVars
<1>2. pc'[Net] = "live" /\ pc'[UI] = pc[UI]
  BY <1>1, PartiesAssumption DEF CaptureTypes
<1>3. CaptureTypes'
  BY <1>1 DEF CaptureTypes, NetSteps
<1>4. ActiveIsKnown' /\ CaptureOwned' /\ DeviceOfStream'
  BY <1>1, <1>2 DEF ActiveIsKnown, DeviceOfStream, CaptureOwned, Active
<1>5. WaitersAlone'
  BY <1>1, <1>2 DEF WaitersAlone
<1> QED BY <1>3, <1>4, <1>5

\* A routine goes on, to capture or to end, and keeps its stream.
LEMMA CaptureRoutine ==
  ASSUME CaptureInv, NEW b \in Bursts, Capture(b)
  PROVE  CaptureInv'
<1> USE DEF CaptureInv
<1>1. UNCHANGED <<pc, waits, source, stream, device>>
  BY DEF Capture, CaptureFrame, HandOver, CaptureEnds, SenderEnds, ownVars
<1>2. /\ burst' \in [Bursts -> BurstType]
      /\ \A c \in Bursts : c # b => burst'[c] = burst[c]
      /\ burst'[b].at \in {"loop", "send"} => Active(b) /\ burst'[b].on = burst[b].on
  <2>1. CASE SenderEnds(b)
    <3>1. burst' = [burst EXCEPT ![b] = NoBurst] /\ NoBurst \in BurstType
      BY <2>1 DEF SenderEnds, BurstType, NoBurst
    <3> QED BY <3>1 DEF CaptureTypes, NoBurst
  <2>2. CASE ~SenderEnds(b)
    <3>1. PICK to \in {"loop", "send", "over"} :
            burst' = [burst EXCEPT ![b] = [burst[b] EXCEPT !.at = to]]
      BY <2>2 DEF Capture, CaptureFrame, HandOver, CaptureEnds
    <3>2. Active(b)
      BY <2>2 DEF Capture, CaptureFrame, HandOver, CaptureEnds, Active
    <3> DEFINE r == [burst[b] EXCEPT !.at = to]
    <3>3. r \in BurstType /\ r.on = burst[b].on
      BY DEF CaptureTypes, BurstType
    <3> HIDE DEF r
    <3> QED BY <3>1, <3>2, <3>3 DEF CaptureTypes, r
  <2> QED BY <2>1, <2>2
<1>3. \A c \in Bursts : Active(c)' => Active(c) /\ burst'[c].on = burst[c].on
  BY <1>2 DEF Active
<1>4. CaptureTypes'
  BY <1>1, <1>2 DEF CaptureTypes
<1>5. ActiveIsKnown' /\ DeviceOfStream' /\ CaptureOwned'
  BY <1>1, <1>3 DEF ActiveIsKnown, DeviceOfStream, CaptureOwned, Active
<1>6. WaitersAlone'
  BY <1>1 DEF WaitersAlone
<1> QED BY <1>4, <1>5, <1>6

\* The terminal's goroutine, where it neither starts nor stops a capture.
LEMMA CaptureUI ==
  ASSUME CaptureInv,
         \/ \E val \in 0 .. 2 : SetTransmit(val)
         \/ BeginPlay \/ BeginStop \/ TalkOff \/ TalkRefused \/ TalkOn \/ StartTalkFails
         \/ StartTalkFatal \/ TalkFailed \/ EnableStereo \/ PlayOn \/ PlaySourceFails
         \/ FileStopped \/ (StopTalk /\ (stream = None \/ source = None))
  PROVE  CaptureInv'
<1>1. /\ UNCHANGED <<waits, source, burst, stream, device>> /\ pc[UI] # "waitSource"
      /\ \E step \in UISteps \ {"waitSource"} : Goto(UI, step)
  BY DEF SetTransmit, BeginPlay, BeginStop, TalkOff, TalkRefused, TalkOn, StartTalkFails,
         StartTalkFatal, TalkFailed, EnableStereo, PlayOn, PlaySourceFails, FileStopped,
         WorkersGone, StopTalk, sourceVars, ownVars, flagVars, UISteps
<1>2. device' \in Streams \cup {None}
  BY <1>1 DEF CaptureInv, CaptureTypes
<1> QED BY <1>1, <1>2, CaptureMove, PartiesAssumption DEF Parties

\* The connection's goroutine, where it neither starts nor stops a capture.
LEMMA CaptureNet ==
  ASSUME CaptureInv,
         \/ LinkLost \/ CleanFile \/ FileCleaned \/ TxOff \/ Redial \/ SetConnected
         \/ StartAutoTransmit \/ AutoStartFails \/ AutoTx
  PROVE  CaptureInv'
<1> DEFINE between == {"txOff", "disconnected", "install"}
<1>1. CASE TxOff \/ Redial
  <2>1. /\ pc[Net] \in between /\ UNCHANGED <<waits, source, burst, stream>>
        /\ \E step \in between : Goto(Net, step)
    BY <1>1 DEF TxOff, Redial, sourceVars, ownVars
  <2>2. device' \in Streams \cup {None}
    BY <1>1 DEF TxOff, Redial, Smallest, FreeStreams, ownVars, CaptureInv, CaptureTypes
  <2> QED BY <2>1, <2>2, CaptureMove DEF Parties, NetSteps
<1>2. CASE ~(TxOff \/ Redial)
  <2>1. /\ pc[Net] \notin between \cup {"waitSource"}
        /\ UNCHANGED <<waits, source, burst, stream, device>>
        /\ \E step \in NetSteps \ (between \cup {"waitSource"}) : Goto(Net, step)
    BY <1>2 DEF LinkLost, CleanFile, FileCleaned, WorkersGone, SetConnected,
                StartAutoTransmit, AutoStartFails, AutoTx, sourceVars, ownVars, NetSteps
  <2>2. device' \in Streams \cup {None}
    BY <2>1 DEF CaptureInv, CaptureTypes
  <2> QED BY <2>1, <2>2, CaptureMove DEF Parties
<1> QED BY <1>1, <1>2

LEMMA CaptureStep == CaptureInv /\ [Next]_vars => CaptureInv'
<1> SUFFICES ASSUME CaptureInv, [Next]_vars PROVE CaptureInv'
  OBVIOUS
<1>1. CASE Command
  BY <1>1, CaptureUI DEF Command
<1>2. CASE LinkLost
  BY <1>2, CaptureNet
<1>3. CASE UIStep
  <2>1. CASE StartTalk
    BY <2>1, CaptureStart, PartiesAssumption DEF StartTalk, CanRead, Parties, UISteps, ownVars
  <2>2. CASE PlaySource
    BY <2>2, CaptureStart, PartiesAssumption DEF PlaySource, CanRead, Parties, UISteps, ownVars
  <2>3. CASE StopTalk /\ ~(stream = None \/ source = None)
    BY <2>3, CaptureClose, PartiesAssumption DEF StopTalk, CanRead, Parties, ownVars
  <2>4. CASE TalkStopped
    BY <2>4, CaptureStopped
  <2> QED BY <1>3, <2>1, <2>2, <2>3, <2>4, CaptureUI DEF UIStep
<1>4. CASE NetStep
  <2>1. CASE AutoStart
    BY <2>1, CaptureStart, PartiesAssumption DEF AutoStart, Parties, NetSteps, ownVars
  <2>2. CASE CleanStream /\ source # None
    BY <2>2, CaptureClose, PartiesAssumption DEF CleanStream, CanWrite, Parties
  <2>3. CASE (CleanStream /\ source = None) \/ StreamCleaned
    BY <2>3, CaptureDrop
  <2>4. CASE Install
    BY <2>4, CaptureInstall
  <2> QED BY <1>4, <2>1, <2>2, <2>3, <2>4, CaptureNet DEF NetStep
<1>5. ASSUME NEW f \in Plays, Worker(f) PROVE CaptureInv'
  BY <1>5, CaptureStutter DEF Worker, WorkerStart, WorkerStartFails, WorkerFrame, WorkerStopped,
     WorkerEnd, WorkerClear, WorkerReport, captureVars, ownVars, sourceVars
<1>6. ASSUME NEW b \in Bursts, Capture(b) PROVE CaptureInv'
  BY <1>6, CaptureRoutine
<1>7. CASE UNCHANGED vars
  BY <1>7, CaptureStutter DEF vars, captureVars, ownVars, sourceVars
<1> QED BY <1>1, <1>2, <1>3, <1>4, <1>5, <1>6, <1>7 DEF Next

LEMMA CaptureInit == Init => CaptureInv
<1> SUFFICES ASSUME Init PROVE CaptureInv
  OBVIOUS
<1>1. CaptureTypes
  BY DEF Init, CaptureTypes, UISteps, NetSteps, NoBurst, BurstType
<1>2. \A b \in Bursts : ~Active(b)
  BY DEF Init, Active, NoBurst
<1>3. pc[Net] = "disconnected" /\ pc[UI] = "idle"
  BY PartiesAssumption DEF Init, Parties
<1>4. ActiveIsKnown /\ DeviceOfStream /\ WaitersAlone /\ CaptureOwned
  BY <1>2, <1>3 DEF Init, ActiveIsKnown, DeviceOfStream, WaitersAlone, CaptureOwned, Active, Parties
<1> QED BY <1>1, <1>4 DEF CaptureInv

\* However the talk key, files, auto-transmit and disconnects interleave, a
\* sourceRoutine that reads its device reads the open one (stream.go:490).
THEOREM DeviceOutlivesRoutine == Spec => []CaptureOwned
<1>1. CaptureInv => CaptureOwned
  BY DEF CaptureInv
<1> QED BY CaptureInit, CaptureStep, <1>1, PTL DEF Spec

-----------------------------------------------------------------------------
(* The player's worker                                                     *)

\* A worker that has yet to clear playing.
Live(f) == play[f].at \in {"start", "read", "eof"}

FileSteps == {"stereo", "playSource", "playOn", "waitFile"}

FileTypes ==
  /\ pc \in [Parties -> UISteps \cup NetSteps]
  /\ files \in Streams \cup {None}
  /\ play \in [Plays -> PlayType]
  /\ playing \in [Streams -> BOOLEAN]

\* FileStreamMutex: who is in Player.Stop or PlayFile has a player, and is alone.
FilesHeld ==
  /\ pc[UI] \in FileSteps => files # None /\ pc[Net] # "waitFile"
  /\ pc[Net] = "waitFile" => files # None

\* A worker that has yet to clear playing finds it set, and is its player's only one.
LiveIsPlaying == \A f \in Plays : Live(f) => play[f].on \in Streams /\ playing[play[f].on]

LiveApart == \A f, g \in Plays : Live(f) /\ Live(g) /\ play[f].on = play[g].on => f = g

PlayerInv == FileTypes /\ FilesHeld /\ LiveIsPlaying /\ LiveApart /\ PlayingHasWorker

\* Nobody leaves Player.Stop, and the players and workers are left alone.
LEMMA PlayerMove ==
  ASSUME PlayerInv, pc' \in [Parties -> UISteps \cup NetSteps], files' \in Streams \cup {None},
         FilesHeld', UNCHANGED <<play, playing>>,
         \A p \in Parties : pc[p] = "waitFile" => pc'[p] = "waitFile" /\ files' = files
  PROVE  PlayerInv'
<1> USE DEF PlayerInv
<1>1. FileTypes' /\ LiveIsPlaying' /\ LiveApart'
  BY DEF FileTypes, LiveIsPlaying, LiveApart, Live
<1>2. \A s \in Streams : Stopping(s) => Stopping(s)'
  BY DEF Stopping
<1>3. PlayingHasWorker'
  BY <1>2 DEF PlayingHasWorker
<1> QED BY <1>1, <1>3

\* A party goes from one step to another, and does not leave Player.Stop.
LEMMA PlayerGoto ==
  ASSUME PlayerInv, NEW p \in Parties, NEW step \in UISteps \cup NetSteps, Goto(p, step),
         pc[p] # "waitFile", UNCHANGED <<play, playing>>,
         p = UI /\ step \in FileSteps =>
           pc[UI] \in FileSteps \/ (files # None /\ pc[Net] # "waitFile"),
         p = Net /\ step = "waitFile" => files # None /\ pc[UI] \notin FileSteps,
         files' = files \/ FilesFree, files' = None \/ files' \in Streams,
         files' # files => step # "waitFile" /\ p = Net
  PROVE  PlayerInv'
<1>1. pc' \in [Parties -> UISteps \cup NetSteps] /\ pc'[p] = step
      /\ \A q \in Parties : q # p => pc'[q] = pc[q]
  BY DEF PlayerInv, FileTypes, Goto
<1>2. FilesHeld'
  <2>1. CASE p = UI
    BY <1>1, <2>1, PartiesAssumption DEF PlayerInv, FilesHeld, FilesFree, FileSteps, Parties
  <2>2. CASE p = Net
    BY <1>1, <2>2, PartiesAssumption DEF PlayerInv, FilesHeld, FilesFree, FileSteps, Parties
  <2> QED BY <2>1, <2>2 DEF Parties
<1>3. \A q \in Parties : pc[q] = "waitFile" => pc'[q] = "waitFile" /\ files' = files
  BY <1>1, PartiesAssumption DEF FilesFree, Parties
<1> QED BY <1>1, <1>2, <1>3, PlayerMove

\* The steps of the terminal's goroutine that neither begin a file nor end Stop.
LEMMA PlayerUI ==
  ASSUME PlayerInv,
         \/ \E val \in 0 .. 2 : SetTransmit(val)
         \/ BeginStop \/ (UIStep /\ ~FileStopped)
  PROVE  PlayerInv'
<1>1. UNCHANGED <<play, playing, files>> /\ pc[UI] # "waitFile"
  BY DEF SetTransmit, BeginStop, UIStep, TalkOff, TalkRefused, TalkOn, StartTalk, StartTalkFails,
         StartTalkFatal, TalkFailed, StopTalk, TalkStopped, SourceOver, EnableStereo, PlaySource,
         PlayOn, PlaySourceFails, ownVars, playerVars
<1>2. \E step \in UISteps :
        /\ Goto(UI, step)
        /\ step \in FileSteps => pc[UI] \in FileSteps \/ (files # None /\ pc[Net] # "waitFile")
  BY DEF SetTransmit, BeginStop, UIStep, TalkOff, TalkRefused, TalkOn, StartTalk, StartTalkFails,
         StartTalkFatal, TalkFailed, StopTalk, TalkStopped, EnableStereo, PlaySource,
         PlayOn, PlaySourceFails, CloseSource, UISteps, FileSteps, FilesFree
<1>3. files' = None \/ files' \in Streams
  BY <1>1 DEF PlayerInv, FileTypes
<1> QED BY <1>1, <1>2, <1>3, PlayerGoto, PartiesAssumption DEF Parties

\* The steps of the connection's goroutine that do not end Stop.
LEMMA PlayerNet ==
  ASSUME PlayerInv, device \in Streams \cup {None}, LinkLost \/ (NetStep /\ ~FileCleaned)
  PROVE  PlayerInv'
<1>1. /\ UNCHANGED <<play, playing>> /\ pc[Net] # "waitFile"
      /\ \E step \in NetSteps :
           /\ Goto(Net, step)
           /\ step = "waitFile" => files # None /\ pc[UI] \notin FileSteps
           /\ \/ files' = files
              \/ FilesFree /\ step # "waitFile" /\ files' \in {None, device}
  BY DEF LinkLost, NetStep, CleanFile, CleanStream, StreamCleaned, SourceOver, DropStream, TxOff,
         Redial, Install, SetConnected, StartAutoTransmit, AutoStart, AutoStartFails, AutoTx,
         CloseSource, NetSteps, FileSteps, FilesFree, ownVars, playerVars
<1>2. files' = None \/ files' \in Streams
  BY <1>1 DEF PlayerInv, FileTypes
<1> QED BY <1>1, <1>2, PlayerGoto, PartiesAssumption DEF Parties

\* /file on a player that does not play: no worker of it is left to clear playing.
LEMMA PlayerBegin ==
  ASSUME PlayerInv, BeginPlay
  PROVE  PlayerInv'
<1> USE DEF PlayerInv
<1>1. PICK f \in Plays :
        /\ play[f] = NoPlay
        /\ play' = [play EXCEPT ![f] = [on |-> files, at |-> "start"]]
  BY DEF BeginPlay, Smallest, FreePlays
<1>2. /\ files \in Streams /\ ~playing[files] /\ files' = files
      /\ playing' = [playing EXCEPT ![files] = TRUE]
      /\ pc' = [pc EXCEPT ![UI] = "stereo"]
      /\ pc[UI] = "idle" /\ pc[Net] # "waitFile"
  BY DEF BeginPlay, Goto, FilesFree, FileTypes, ownVars
<1>3. pc'[UI] = "stereo" /\ pc'[Net] = pc[Net]
  BY <1>2, PartiesAssumption DEF FileTypes, Parties
<1>4. /\ play'[f].on = files /\ play'[f].at = "start"
      /\ \A g \in Plays : g # f => play'[g] = play[g]
  BY <1>1 DEF FileTypes
<1>5. playing'[files] = TRUE /\ \A s \in Streams : s # files => playing'[s] = playing[s]
  BY <1>2 DEF FileTypes
<1>6. \A g \in Plays : Live(g) => play[g].on # files
  BY <1>2, Zenon DEF LiveIsPlaying
<1>7. FileTypes'
  <2>1. play' \in [Plays -> PlayType]
    BY <1>1, <1>2 DEF FileTypes, PlayType
  <2>2. playing' \in [Streams -> BOOLEAN]
    BY <1>2 DEF FileTypes
  <2>3. pc' \in [Parties -> UISteps \cup NetSteps]
    BY <1>2 DEF FileTypes, UISteps
  <2> QED BY <1>2, <2>1, <2>2, <2>3 DEF FileTypes
<1>8. FilesHeld'
  BY <1>2, <1>3, PartiesAssumption DEF FilesHeld, None, Streams
<1>9. LiveIsPlaying'
  <2> SUFFICES ASSUME NEW g \in Plays, Live(g)'
               PROVE  play'[g].on \in Streams /\ playing'[play'[g].on]
    BY DEF LiveIsPlaying
  <2>1. CASE g = f
    BY <2>1, <1>2, <1>4, <1>5
  <2>2. CASE g # f
    <3>1. Live(g) /\ play'[g] = play[g]
      BY <2>2, <1>4 DEF Live
    <3>2. play[g].on \in Streams /\ playing[play[g].on] /\ play[g].on # files
      BY <3>1, <1>6 DEF LiveIsPlaying
    <3>3. playing'[play[g].on] = playing[play[g].on]
      BY <3>2, <1>5
    <3> QED BY <3>1, <3>2, <3>3
  <2> QED BY <2>1, <2>2
<1>10. LiveApart'
  BY <1>4, <1>6 DEF LiveApart, Live
<1>11. PlayingHasWorker'
  <2> SUFFICES ASSUME NEW s \in Streams, playing'[s], ~Stopping(s)'
               PROVE  \E g \in Plays : play'[g].on = s /\ play'[g].at \in {"start", "read", "eof"}
    BY DEF PlayingHasWorker
  <2>1. CASE s = files
    BY <2>1, <1>4
  <2>2. CASE s # files
    <3>1. playing[s]
      BY <2>2, <1>5
    <3>2. ~Stopping(s)
      BY <2>2 DEF Stopping
    <3>3. PICK g \in Plays : play[g].on = s /\ play[g].at \in {"start", "read", "eof"}
      BY <3>1, <3>2 DEF PlayingHasWorker
    <3>4. g # f
      BY <3>3, <1>1 DEF NoPlay
    <3> QED BY <3>3, <3>4, <1>4
  <2> QED BY <2>1, <2>2
<1> QED BY <1>7, <1>8, <1>9, <1>10, <1>11

\* Player.Stop has seen every worker of the player off.
LEMMA PlayerStopped ==
  ASSUME PlayerInv, FileStopped \/ FileCleaned
  PROVE  PlayerInv'
<1> USE DEF PlayerInv
<1>1. PICK p \in Parties :
        /\ pc[p] = "waitFile"
        /\ \E step \in (UISteps \cup NetSteps) \ FileSteps : pc' = [pc EXCEPT ![p] = step]
        /\ files' = files \/ (files' = None /\ pc[UI] \notin FileSteps)
  BY DEF FileStopped, FileCleaned, WorkersGone, Goto, UISteps, NetSteps, FileSteps, ownVars,
         Parties, FilesHeld
<1>2. /\ \A f \in Plays : play[f].on # files
      /\ playing' = [playing EXCEPT ![files] = FALSE]
      /\ play' = play /\ files \in Streams
  BY DEF FileStopped, FileCleaned, WorkersGone, FilesHeld, FileSteps, FileTypes
<1>3. playing'[files] = FALSE /\ \A s \in Streams : s # files => playing'[s] = playing[s]
  BY <1>2 DEF FileTypes
<1>4. FileTypes'
  <2>1. playing' \in [Streams -> BOOLEAN]
    BY <1>2 DEF FileTypes
  <2> QED BY <1>1, <1>2, <2>1 DEF FileTypes
<1>5. FilesHeld'
  BY <1>1, PartiesAssumption DEF FilesHeld, FileTypes, FileSteps, Parties
<1>6. LiveIsPlaying' /\ LiveApart'
  <2>1. LiveApart'
    BY <1>2 DEF LiveApart, Live
  <2>2. ASSUME NEW f \in Plays, Live(f)
        PROVE  play[f].on \in Streams /\ playing'[play[f].on]
    <3>1. play[f].on \in Streams /\ playing[play[f].on] /\ play[f].on # files
      BY <2>2, <1>2 DEF LiveIsPlaying
    <3>2. playing'[play[f].on] = playing[play[f].on]
      BY <3>1, <1>3
    <3> QED BY <3>1, <3>2
  <2> QED BY <1>2, <2>1, <2>2 DEF LiveIsPlaying, Live
<1>7. PlayingHasWorker'
  <2> SUFFICES ASSUME NEW s \in Streams, playing'[s], ~Stopping(s)'
               PROVE  \E g \in Plays : play[g].on = s /\ play[g].at \in {"start", "read", "eof"}
    BY <1>2 DEF PlayingHasWorker
  <2>1. s # files
    BY <1>3
  <2>2. playing[s]
    BY <2>1, <1>3
  <2>3. ~Stopping(s)
    BY <2>1 DEF Stopping
  <2> QED BY <2>2, <2>3 DEF PlayingHasWorker
<1> QED BY <1>4, <1>5, <1>6, <1>7

\* A worker goes on without clearing playing.
LEMMA WorkerGoes ==
  ASSUME PlayerInv, NEW f \in Plays,
         \/ WorkerStart(f) \/ WorkerFrame(f) \/ WorkerStopped(f) \/ WorkerEnd(f) \/ WorkerReport(f)
  PROVE  PlayerInv'
<1> USE DEF PlayerInv
<1>1. UNCHANGED <<pc, files, playing>>
  BY DEF WorkerStart, WorkerFrame, WorkerStopped, WorkerEnd, WorkerReport, ownVars
<1>2. /\ play' \in [Plays -> PlayType]
      /\ \A g \in Plays : g # f => play'[g] = play[g]
      /\ Live(f)' => Live(f) /\ play'[f].on = play[f].on
      /\ Live(f) => Stopping(play[f].on) \/ (Live(f)' /\ play'[f].on = play[f].on)
  <2>1. CASE WorkerFrame(f)
    BY <2>1 DEF WorkerFrame, FileTypes, Live
  <2>2. CASE WorkerStart(f) \/ WorkerEnd(f)
    <3>1. PICK to \in {"read", "eof"} : play' = [play EXCEPT ![f] = [play[f] EXCEPT !.at = to]]
      BY <2>2 DEF WorkerStart, WorkerEnd, MoveWorker
    <3>2. Live(f)
      BY <2>2 DEF WorkerStart, WorkerEnd, Live
    <3> DEFINE r == [play[f] EXCEPT !.at = to]
    <3>3. r \in PlayType /\ r.on = play[f].on /\ r.at = to
      BY DEF FileTypes, PlayType
    <3> HIDE DEF r
    <3> QED BY <3>1, <3>2, <3>3 DEF FileTypes, Live, r
  <2>3. CASE WorkerStopped(f) \/ WorkerReport(f)
    <3>1. /\ play' = [play EXCEPT ![f] = NoPlay] /\ NoPlay \in PlayType
          /\ Live(f) => Stopping(play[f].on)
      BY <2>3 DEF WorkerStopped, WorkerReport, Live, NoPlay, PlayType
    <3> QED BY <3>1 DEF FileTypes, Live, NoPlay
  <2> QED BY <2>1, <2>2, <2>3
<1>3. \A g \in Plays : Live(g)' => Live(g) /\ play'[g].on = play[g].on
  BY <1>2 DEF Live
<1>4. FileTypes' /\ FilesHeld'
  BY <1>1, <1>2 DEF FileTypes, FilesHeld
<1>5. LiveIsPlaying' /\ LiveApart'
  BY <1>1, <1>3 DEF LiveIsPlaying, LiveApart
<1>6. PlayingHasWorker'
  <2> SUFFICES ASSUME NEW s \in Streams, playing[s], ~Stopping(s)
               PROVE  \E g \in Plays : play'[g].on = s /\ Live(g)'
    BY <1>1 DEF PlayingHasWorker, Stopping, Live
  <2>1. PICK g \in Plays : play[g].on = s /\ Live(g)
    BY DEF PlayingHasWorker, Live
  <2> QED BY <2>1, <1>2 DEF Live
<1> QED BY <1>4, <1>5, <1>6

\* A worker clears playing: it is the only one that had yet to.
LEMMA WorkerClears ==
  ASSUME PlayerInv, NEW f \in Plays, WorkerStartFails(f) \/ WorkerClear(f)
  PROVE  PlayerInv'
<1> USE DEF PlayerInv
<1> DEFINE s == play[f].on
           r == [play[f] EXCEPT !.at = "report"]
<1>1. /\ UNCHANGED <<pc, files>> /\ Live(f)
      /\ playing' = [playing EXCEPT ![s] = FALSE]
      /\ play' = [play EXCEPT ![f] = r]
  BY DEF WorkerStartFails, WorkerClear, MoveWorker, ownVars, Live
<1>2. s \in Streams /\ r \in PlayType /\ r.at = "report"
  BY <1>1 DEF FileTypes, PlayType, LiveIsPlaying
<1> HIDE DEF r
<1>3. ~Live(f)' /\ \A g \in Plays : g # f => play'[g] = play[g]
  BY <1>1, <1>2 DEF FileTypes, Live
<1>4. playing'[s] = FALSE /\ \A t \in Streams : t # s => playing'[t] = playing[t]
  BY <1>1, <1>2 DEF FileTypes
<1>5. FileTypes' /\ FilesHeld'
  BY <1>1, <1>2 DEF FileTypes, FilesHeld
<1>6. LiveIsPlaying'
  <2> SUFFICES ASSUME NEW g \in Plays, Live(g)'
               PROVE  play'[g].on \in Streams /\ playing'[play'[g].on]
    BY DEF LiveIsPlaying
  <2>1. g # f /\ play'[g] = play[g] /\ Live(g)
    BY <1>3 DEF Live
  <2>2. play[g].on # s
    BY <1>1, <2>1 DEF LiveApart
  <2>3. play[g].on \in Streams /\ playing[play[g].on]
    BY <2>1 DEF LiveIsPlaying
  <2>4. playing'[play[g].on] = playing[play[g].on]
    BY <1>4, <2>2, <2>3
  <2> QED BY <2>1, <2>3, <2>4
<1>7. LiveApart'
  BY <1>3 DEF LiveApart, Live
<1>8. PlayingHasWorker'
  <2> SUFFICES ASSUME NEW t \in Streams, playing'[t], ~Stopping(t)
               PROVE  \E g \in Plays : play'[g].on = t /\ play'[g].at \in {"start", "read", "eof"}
    BY <1>1 DEF PlayingHasWorker, Stopping
  <2>1. t # s /\ playing[t]
    BY <1>4
  <2>2. PICK g \in Plays : play[g].on = t /\ play[g].at \in {"start", "read", "eof"}
    BY <2>1 DEF PlayingHasWorker
  <2>3. g # f
    BY <2>1, <2>2
  <2> QED BY <1>3, <2>2, <2>3
<1> QED BY <1>5, <1>6, <1>7, <1>8

LEMMA PlayerStep == PlayerInv /\ CaptureInv /\ [Next]_vars => PlayerInv'
<1> SUFFICES ASSUME PlayerInv, device \in Streams \cup {None}, [Next]_vars PROVE PlayerInv'
  BY DEF CaptureInv, CaptureTypes
<1>1. CASE Command \/ UIStep
  BY <1>1, PlayerUI, PlayerBegin, PlayerStopped DEF Command
<1>2. CASE LinkLost \/ NetStep
  BY <1>2, PlayerNet, PlayerStopped
<1>3. ASSUME NEW f \in Plays, Worker(f) PROVE PlayerInv'
  BY <1>3, WorkerGoes, WorkerClears DEF Worker
<1>4. ASSUME UNCHANGED <<pc, files, play, playing>> PROVE PlayerInv'
  BY <1>4 DEF PlayerInv, FileTypes, FilesHeld, LiveIsPlaying, LiveApart, PlayingHasWorker,
              Live, Stopping
<1>5. ASSUME NEW b \in Bursts, Capture(b) PROVE PlayerInv'
  BY <1>4, <1>5 DEF Capture, CaptureFrame, HandOver, CaptureEnds, SenderEnds, ownVars, playerVars
<1>6. CASE UNCHANGED vars
  BY <1>4, <1>6 DEF vars, ownVars, playerVars
<1> QED BY <1>1, <1>2, <1>3, <1>5, <1>6 DEF Next

LEMMA PlayerInit == Init => PlayerInv
<1> SUFFICES ASSUME Init PROVE PlayerInv
  OBVIOUS
<1>1. FileTypes
  BY DEF Init, FileTypes, UISteps, NetSteps, NoPlay, PlayType
<1>2. pc[Net] = "disconnected" /\ pc[UI] = "idle"
  BY PartiesAssumption DEF Init, Parties
<1>3. \A f \in Plays : ~Live(f)
  BY DEF Init, Live, NoPlay
<1>4. \A s \in Streams : ~playing[s]
  BY DEF Init
<1>5. FilesHeld /\ LiveIsPlaying /\ LiveApart /\ PlayingHasWorker
  BY <1>2, <1>3, <1>4 DEF FilesHeld, FileSteps, LiveIsPlaying, LiveApart, PlayingHasWorker
<1> QED BY <1>1, <1>5 DEF PlayerInv

\* However /file, /stop, the end of a file and disconnects interleave, a player that
\* plays has a worker that will clear playing, and two workers never feed it
\* (player.go:107-130).
THEOREM OneWorker == Spec => []PlayerHasOneWorker
<1>1. Init => CaptureInv /\ PlayerInv
  BY CaptureInit, PlayerInit
<1>2. CaptureInv /\ PlayerInv /\ [Next]_vars => (CaptureInv /\ PlayerInv)'
  BY CaptureStep, PlayerStep
<1>3. PlayerInv => PlayerHasOneWorker
  BY DEF PlayerInv, PlayerHasOneWorker, OneWorkerFeeds, LiveApart, Live
<1> QED BY <1>1, <1>2, <1>3, PTL DEF Spec

-----------------------------------------------------------------------------
(* The status line                                                         *)

\* The stream's source captures for it and has not been told to stop.
SourceCaptures == source # None =>
  Active(source) /\ burst[source].on = stream /\ burst[source].told = FALSE

\* Where the connection's goroutine stands while a player is installed, and where it
\* may stand while the terminal's holds FileStreamMutex.
FilesInstalled == {"live", "auto", "autoStart", "autoTx", "up", "cleanFile"}
FilesKept ==
  /\ files # None => pc[Net] \in FilesInstalled \cup {"waitFile"}
  /\ pc[UI] \in FileSteps => pc[Net] \in FilesInstalled

\* Steps of the terminal's goroutine at which Tx stands for a capture, and those at
\* which it is false; at the others Tx is about to be set or taken back.
TxTrusted == {"idle", "talk", "stereo", "waitFile"}
TxFalse   == {"stopTalk", "waitSource", "playSource"}

\* Without auto-transmit Tx is true only over a capture, except from when the
\* connection's goroutine ends the capture to when it clears Tx.
TxHonest ==
  /\ pc[Net] \notin {"auto", "autoStart", "autoTx"}
  /\ pc[UI] \in TxFalse => tx = FALSE
  /\ pc[UI] = "playOn" => source # None
  /\ pc[UI] \in TxTrusted /\ pc[Net] \notin {"waitSource", "txOff"} /\ tx => source # None

OnAirInv == CaptureInv /\ SourceCaptures /\ FilesKept /\ (auto = FALSE => TxHonest)

\* While the source and the stream stay, so does what is said of them.
LEMMA SourceStutter == SourceCaptures /\ UNCHANGED <<source, stream, burst>> => SourceCaptures'
  BY DEF SourceCaptures, Active

\* StartSource makes the new routine the source of the stream.
LEMMA SourceStarts ==
  ASSUME CaptureInv, StartSource, stream' = stream
  PROVE  SourceCaptures' /\ source' # None
<1>1. PICK b \in Bursts :
        /\ source' = b
        /\ burst' = [burst EXCEPT ![b] = [on |-> stream, at |-> "loop", told |-> FALSE]]
  BY DEF StartSource, Smallest, FreeBursts
<1>2. burst'[b] = [on |-> stream, at |-> "loop", told |-> FALSE]
  BY <1>1 DEF CaptureInv, CaptureTypes
<1> QED BY <1>1, <1>2 DEF SourceCaptures, Active, Bursts, None

\* The source is not told to stop, so it goes on capturing.
LEMMA SourceRoutine ==
  ASSUME CaptureInv, SourceCaptures, NEW b \in Bursts, Capture(b)
  PROVE  SourceCaptures'
<1> USE DEF CaptureInv, CaptureTypes
<1>1. UNCHANGED <<source, stream>>
  BY DEF Capture, CaptureFrame, HandOver, CaptureEnds, SenderEnds, ownVars
<1>2. CASE b # source
  <2>1. \A c \in Bursts : c # b => burst'[c] = burst[c]
    BY DEF Capture, CaptureFrame, HandOver, CaptureEnds, SenderEnds
  <2> QED BY <1>1, <1>2, <2>1 DEF SourceCaptures, Active
<1>3. CASE b = source
  <2>1. source # None
    BY <1>3 DEF Bursts, None
  <2>2. Active(b) /\ burst[b].told = FALSE
    BY <1>3, <2>1 DEF SourceCaptures
  <2>3. PICK to \in {"loop", "send"} : burst' = [burst EXCEPT ![b] = [burst[b] EXCEPT !.at = to]]
    BY <2>2 DEF Capture, CaptureFrame, HandOver, CaptureEnds, SenderEnds, Active
  <2> DEFINE r == [burst[b] EXCEPT !.at = to]
  <2>4. r.at = to /\ r.on = burst[b].on /\ r.told = burst[b].told
    BY DEF BurstType
  <2> HIDE DEF r
  <2>5. burst'[b] = r
    BY <2>3 DEF r
  <2> QED BY <1>1, <1>3, <2>1, <2>4, <2>5 DEF SourceCaptures, Active
<1> QED BY <1>2, <1>3

\* Starting ends with a source, stopping without one, and the stream changes only
\* while there is none.
LEMMA SourceStep == CaptureInv /\ SourceCaptures /\ [Next]_vars => SourceCaptures'
<1> SUFFICES ASSUME CaptureInv, SourceCaptures, [Next]_vars PROVE SourceCaptures'
  OBVIOUS
<1>1. CASE Command \/ LinkLost
  BY <1>1, SourceStutter DEF Command, SetTransmit, BeginPlay, BeginStop, LinkLost, sourceVars, ownVars
<1>2. CASE StartTalk \/ PlaySource \/ AutoStart
  BY <1>2, SourceStarts DEF StartTalk, PlaySource, AutoStart, ownVars
<1>3. CASE StopTalk \/ CleanStream
  <2>1. source' = None \/ UNCHANGED <<source, stream, burst>>
    BY <1>3 DEF StopTalk, CleanStream, CloseSource, sourceVars, ownVars
  <2> QED BY <2>1, SourceStutter DEF SourceCaptures
<1>4. CASE StreamCleaned \/ Install
  <2>1. source' = source /\ source = None
    BY <1>4 DEF StreamCleaned, Install, SourceOver, sourceVars, CaptureInv, WaitersAlone, DeviceOfStream
  <2> QED BY <2>1 DEF SourceCaptures
<1>5. CASE UIStep /\ ~(StartTalk \/ PlaySource \/ StopTalk)
  BY <1>5, SourceStutter DEF UIStep, TalkOff, TalkRefused, TalkOn, StartTalkFails,
     StartTalkFatal, TalkFailed, TalkStopped, EnableStereo, PlayOn, PlaySourceFails, FileStopped,
     sourceVars, ownVars
<1>6. CASE NetStep /\ ~(AutoStart \/ CleanStream \/ StreamCleaned \/ Install)
  BY <1>6, SourceStutter DEF NetStep, CleanFile, FileCleaned, TxOff, Redial, SetConnected,
     StartAutoTransmit, AutoStartFails, AutoTx, sourceVars, ownVars
<1>7. ASSUME NEW f \in Plays, Worker(f) PROVE SourceCaptures'
  BY <1>7, SourceStutter DEF Worker, WorkerStart, WorkerStartFails, WorkerFrame, WorkerStopped,
     WorkerEnd, WorkerClear, WorkerReport, sourceVars, ownVars
<1>8. ASSUME NEW b \in Bursts, Capture(b) PROVE SourceCaptures'
  BY <1>8, SourceRoutine
<1>9. CASE UNCHANGED vars
  BY <1>9, SourceStutter DEF vars, sourceVars, ownVars
<1> QED BY <1>1, <1>2, <1>3, <1>4, <1>5, <1>6, <1>7, <1>8, <1>9 DEF Next

\* A step of the terminal's goroutine from and to the steps named.
LEMMA UIGoes ==
  ASSUME CaptureInv, NEW step, Goto(UI, step)
  PROVE  pc'[UI] = step /\ pc'[Net] = pc[Net]
BY PartiesAssumption DEF CaptureInv, CaptureTypes, Goto, Parties

LEMMA NetGoes ==
  ASSUME CaptureInv, NEW step, Goto(Net, step)
  PROVE  pc'[Net] = step /\ pc'[UI] = pc[UI]
BY PartiesAssumption DEF CaptureInv, CaptureTypes, Goto, Parties

\* FileStreamMutex keeps the connection's goroutine from dropping or installing a
\* player under the terminal's.
LEMMA FilesUI ==
  ASSUME CaptureInv, FilesHeld, FilesKept, Command \/ UIStep
  PROVE  FilesKept'
<1> USE UIGoes DEF FilesKept, FilesHeld, FileSteps
<1>1. CASE BeginPlay \/ BeginStop
  <2>1. files' = files /\ files # None /\ pc[Net] # "waitFile" /\ pc'[Net] = pc[Net]
    BY <1>1 DEF BeginPlay, BeginStop, FilesFree, ownVars
  <2> QED BY <2>1
<1>2. CASE EnableStereo \/ PlaySource \/ PlaySourceFails \/ PlayOn \/ FileStopped
  <2>1. files' = files /\ pc[UI] \in FileSteps /\ pc'[Net] = pc[Net]
    BY <1>2 DEF EnableStereo, PlaySource, PlaySourceFails, PlayOn, FileStopped, WorkersGone, ownVars
  <2> QED BY <2>1
<1>3. CASE \/ \E val \in 0 .. 2 : SetTransmit(val)
           \/ TalkOff \/ TalkRefused \/ TalkOn \/ StartTalk \/ StartTalkFails
           \/ StartTalkFatal \/ TalkFailed \/ StopTalk \/ TalkStopped
  <2>1. files' = files /\ pc'[Net] = pc[Net] /\ pc'[UI] \notin FileSteps
    BY <1>3 DEF SetTransmit, TalkOff, TalkRefused, TalkOn, StartTalk, StartTalkFails,
         StartTalkFatal, TalkFailed, StopTalk, TalkStopped, CloseSource, ownVars
  <2> QED BY <2>1
<1> QED BY <1>1, <1>2, <1>3 DEF Command, UIStep

LEMMA FilesNet ==
  ASSUME CaptureInv, FilesHeld, FilesKept, LinkLost \/ NetStep
  PROVE  FilesKept'
<1> USE NetGoes DEF FilesKept, FilesHeld, FileSteps, FilesInstalled
<1>1. CASE LinkLost \/ SetConnected \/ StartAutoTransmit \/ AutoStart \/ AutoStartFails \/ AutoTx
  BY <1>1 DEF LinkLost, SetConnected, StartAutoTransmit, AutoStart, AutoStartFails, AutoTx, ownVars
<1>2. CASE CleanFile \/ FileCleaned
  BY <1>2 DEF CleanFile, FileCleaned, FilesFree, WorkersGone
<1>3. CASE CleanStream \/ StreamCleaned
  BY <1>3 DEF CleanStream, StreamCleaned, DropStream, CloseSource, SourceOver
<1>4. CASE TxOff \/ Redial
  BY <1>4 DEF TxOff, Redial, ownVars
<1>5. CASE Install
  BY <1>5 DEF Install, FilesFree
<1> QED BY <1>1, <1>2, <1>3, <1>4, <1>5 DEF NetStep

\* The terminal's goroutine sets Tx over a capture and takes it back before it ends one.
LEMMA TxUI ==
  ASSUME CaptureInv, FilesKept, TxHonest, CaptureInv', SourceCaptures', Command \/ UIStep
  PROVE  TxHonest'
<1> USE UIGoes DEF TxHonest, TxTrusted, TxFalse
<1>1. CASE Command
  <2>1. /\ pc[UI] = "idle" /\ pc'[UI] \in {"talk", "stereo", "waitFile"}
        /\ pc'[Net] = pc[Net] /\ UNCHANGED <<tx, source>>
    BY <1>1 DEF Command, SetTransmit, BeginPlay, BeginStop, flagVars, sourceVars
  <2> QED BY <2>1
<1>2. CASE TalkOff \/ TalkOn \/ TalkRefused
  <2>1. /\ pc'[Net] = pc[Net] /\ source' = source
        /\ (pc'[UI] \in {"stopTalk", "idle"} /\ tx' = FALSE) \/ pc'[UI] = "startTalk"
    BY <1>2 DEF TalkOff, TalkOn, TalkRefused, flagVars, sourceVars
  <2> QED BY <2>1
<1>3. CASE StartTalk \/ PlaySource
  <2>1. source' # None /\ pc'[Net] = pc[Net] /\ pc'[UI] \in {"idle", "playOn"}
    BY <1>3, SourceStarts DEF StartTalk, PlaySource, ownVars
  <2> QED BY <2>1
<1>4. CASE StartTalkFails \/ StartTalkFatal \/ TalkFailed
  <2>1. /\ pc'[Net] = pc[Net]
        /\ pc'[UI] \in {"talkFailed", "exited"} \/ (pc'[UI] = "idle" /\ tx' = FALSE)
    BY <1>4 DEF StartTalkFails, StartTalkFatal, TalkFailed
  <2> QED BY <2>1
<1>5. CASE StopTalk \/ TalkStopped
  <2>1. /\ pc'[Net] = pc[Net] /\ pc[UI] \in TxFalse /\ tx' = tx
        /\ pc'[UI] \in {"idle", "waitSource"}
    BY <1>5 DEF StopTalk, TalkStopped, SourceOver, CloseSource, flagVars
  <2>2. tx' = FALSE
    BY <2>1
  <2> QED BY <2>1, <2>2
<1>6. CASE EnableStereo
  <2>1. /\ pc'[Net] = pc[Net] /\ pc[UI] = "stereo" /\ UNCHANGED <<tx, source>>
        /\ pc'[UI] = IF tx THEN "idle" ELSE "playSource"
    BY <1>6 DEF EnableStereo, sourceVars
  <2> QED BY <2>1
<1>7. CASE PlayOn
  <2>1. /\ pc'[Net] = pc[Net] /\ pc[UI] = "playOn" /\ pc'[UI] = "idle" /\ UNCHANGED source
    BY <1>7 DEF PlayOn, sourceVars
  <2> QED BY <2>1
<1>8. CASE PlaySourceFails
  <2>1. /\ pc'[Net] = pc[Net] /\ pc[UI] = "playSource" /\ pc'[UI] \in {"idle", "waitFile"} /\ tx' = tx
    BY <1>8 DEF PlaySourceFails
  <2>2. tx' = FALSE
    BY <2>1
  <2> QED BY <2>1, <2>2
<1>9. CASE FileStopped
  <2>1. /\ pc'[Net] = pc[Net] /\ pc[UI] = "waitFile" /\ pc'[UI] = "idle" /\ UNCHANGED <<tx, source>>
    BY <1>9 DEF FileStopped, WorkersGone, sourceVars
  <2> QED BY <2>1
<1> QED BY <1>1, <1>2, <1>3, <1>4, <1>5, <1>6, <1>7, <1>8, <1>9 DEF Command, UIStep

\* Destroy ends the capture, under the connection lock; Tx is cleared behind it, and
\* until then the terminal's goroutine has no player to start one for.
LEMMA TxNet ==
  ASSUME CaptureInv, FilesKept, TxHonest, auto = FALSE, LinkLost \/ NetStep
  PROVE  TxHonest'
<1> USE NetGoes DEF TxHonest, TxTrusted, TxFalse
<1>1. CASE LinkLost \/ CleanFile \/ FileCleaned \/ Redial
  <2>1. /\ pc'[UI] = pc[UI] /\ UNCHANGED <<tx, source>>
        /\ pc[Net] \notin {"waitSource", "txOff"}
        /\ pc'[Net] \in {"cleanFile", "waitFile", "cleanStream", "install"}
    BY <1>1 DEF LinkLost, CleanFile, FileCleaned, WorkersGone, Redial, flagVars, sourceVars
  <2> QED BY <2>1
<1>2. CASE CleanStream \/ StreamCleaned
  <2>1. /\ pc'[UI] = pc[UI] /\ tx' = tx /\ pc'[Net] \in {"waitSource", "txOff"}
        /\ pc[Net] \in {"cleanStream", "waitSource"}
    BY <1>2 DEF CleanStream, StreamCleaned, DropStream, CloseSource, SourceOver, flagVars
  <2>2. pc[UI] \notin FileSteps
    BY <2>1 DEF FilesKept, FilesInstalled
  <2> QED BY <2>1, <2>2 DEF FileSteps
<1>3. CASE TxOff
  <2>1. pc'[UI] = pc[UI] /\ tx' = FALSE /\ source' = source /\ pc'[Net] = "disconnected"
    BY <1>3 DEF TxOff, sourceVars
  <2> QED BY <2>1
<1>4. CASE Install \/ SetConnected
  <2>1. /\ pc'[UI] = pc[UI] /\ UNCHANGED <<tx, source>>
        /\ pc[Net] \in {"install", "live"} /\ pc'[Net] \in {"live", "up"}
    BY <1>4 DEF Install, SetConnected, flagVars, sourceVars
  <2> QED BY <2>1
<1>5. ~(StartAutoTransmit \/ AutoStart \/ AutoStartFails \/ AutoTx)
  BY DEF StartAutoTransmit, AutoStart, AutoStartFails, AutoTx
<1> QED BY <1>1, <1>2, <1>3, <1>4, <1>5 DEF NetStep

LEMMA OnAirStep == OnAirInv /\ PlayerInv /\ [Next]_vars => OnAirInv'
<1> SUFFICES ASSUME OnAirInv, FilesHeld, [Next]_vars PROVE OnAirInv'
  BY DEF PlayerInv
<1>1. CaptureInv' /\ SourceCaptures'
  BY CaptureStep, SourceStep DEF OnAirInv
<1>2. auto' = auto
  BY DEF Next, Command, SetTransmit, BeginPlay, BeginStop, LinkLost, UIStep, TalkOff, TalkRefused,
     TalkOn, StartTalk, StartTalkFails, StartTalkFatal, TalkFailed, StopTalk, TalkStopped,
     EnableStereo, PlaySource, PlayOn, PlaySourceFails, FileStopped, NetStep, CleanFile, FileCleaned,
     CleanStream, StreamCleaned, TxOff, Redial, Install, SetConnected, StartAutoTransmit, AutoStart,
     AutoStartFails, AutoTx, Worker, WorkerStart, WorkerStartFails, WorkerFrame, WorkerStopped,
     WorkerEnd, WorkerClear, WorkerReport, Capture, CaptureFrame, HandOver, CaptureEnds, SenderEnds,
     vars, flagVars
<1>3. CASE Command \/ UIStep \/ LinkLost \/ NetStep
  <2>1. FilesKept'
    BY <1>3, FilesUI, FilesNet DEF OnAirInv
  <2>2. auto = FALSE => TxHonest'
    BY <1>1, <1>3, TxUI, TxNet DEF OnAirInv
  <2> QED BY <1>1, <1>2, <2>1, <2>2 DEF OnAirInv
<1>4. ASSUME UNCHANGED <<pc, files, tx, source>> PROVE OnAirInv'
  BY <1>1, <1>2, <1>4 DEF OnAirInv, FilesKept, TxHonest
<1>5. ASSUME NEW f \in Plays, Worker(f) PROVE OnAirInv'
  BY <1>4, <1>5 DEF Worker, WorkerStart, WorkerStartFails, WorkerFrame, WorkerStopped, WorkerEnd,
     WorkerClear, WorkerReport, flagVars, ownVars, sourceVars
<1>6. ASSUME NEW b \in Bursts, Capture(b) PROVE OnAirInv'
  BY <1>4, <1>6 DEF Capture, CaptureFrame, HandOver, CaptureEnds, SenderEnds, flagVars, ownVars
<1>7. CASE UNCHANGED vars
  BY <1>4, <1>7 DEF vars, flagVars, ownVars, sourceVars
<1> QED BY <1>3, <1>5, <1>6, <1>7 DEF Next

LEMMA OnAirInit == Init => OnAirInv
<1> SUFFICES ASSUME Init PROVE OnAirInv
  OBVIOUS
<1>1. pc[Net] = "disconnected" /\ pc[UI] = "idle"
  BY PartiesAssumption DEF Init, Parties
<1>2. SourceCaptures /\ FilesKept /\ TxHonest
  BY <1>1 DEF Init, SourceCaptures, FilesKept, FileSteps, TxHonest, TxFalse
<1> QED BY <1>2, CaptureInit DEF OnAirInv

\* However the talk key, files and disconnects interleave, a client without
\* auto-transmit that shows itself transmitting captures, once nobody is in the
\* middle of something (setTransmit, CommandPlayFile, cleanupConnectionAudio).
THEOREM OnAirCaptures == Spec => []OnAirIsCapturing
<1>1. Init => OnAirInv /\ PlayerInv
  BY OnAirInit, PlayerInit
<1>2. OnAirInv /\ PlayerInv /\ [Next]_vars => (OnAirInv /\ PlayerInv)'
  BY OnAirStep, PlayerStep DEF OnAirInv
<1>3. OnAirInv => OnAirIsCapturing
  BY DEF OnAirInv, SourceCaptures, TxHonest, TxTrusted, OnAirIsCapturing
<1> QED BY <1>1, <1>2, <1>3, PTL DEF Spec
-----------------------------------------------------------------------------
(* What is received: the order in which it is heard                        *)

Wire == [kind : Kinds, id : Nat, epoch : Nat \ {0}, seq : Nat]
Sound == [kind : {"voice", "plc"}, id : Nat, epoch : Nat \ {0}, seq : Nat]
Sounds == Sound \cup {Terminator}

\* A packet on its way was sent at most Reach packets ago, and its frame number is
\* as near to the talker's.
NetworkOK ==
  /\ talker \in [sent : Nat, epoch : Nat \ {0}, frame : Nat]
  /\ network \subseteq Wire
  /\ \A q \in network :
       /\ q.epoch <= talker.epoch /\ q.id <= talker.sent /\ talker.sent - q.id <= Reach
       /\ talker.frame <= q.seq + (talker.sent - q.id + 1) * Step
       /\ q.epoch = talker.epoch => q.seq + Step <= talker.frame

JitterTypes ==
  /\ user \in [valid : BOOLEAN, seq : Nat, step : {0, Step}]
  /\ out \in Seq(Sounds) /\ channel \in Seq(Sounds) /\ buffer \in Seq(Sound)
  /\ heard \in Sound \cup {Nothing} /\ next \in Int
  /\ at \in {"wait", "drain", "closing", "ended"} /\ phase \in {"empty", "held", "started"}

\* x is of the numbering the talker uses.
Current(x) == x.epoch = talker.epoch

\* No packet is of a later numbering or frame than the talker's.
Known(x) == x.epoch <= talker.epoch /\ (Current(x) => x.seq + Step <= talker.frame)

\* All that came and is not forgotten.
Items == {heard} \cup Range(buffer) \cup Range(channel) \cup Range(out)

AllKnown == \A x \in Items : Known(x)

\* A frame number s that comes after x does not look like a restart after it.
Near(x, s) == Current(x) => s + ResyncJump > x.seq + Step

Follows(x, s) == \A y \in Range(s) : y # Terminator => Near(x, y.seq)
Ordered(s) == \A i, j \in DOMAIN s : i < j /\ s[j] # Terminator => Near(s[i], s[j].seq)

\* What waits looks like no restart after what came before it.
OrderOf(h, b, c, o) ==
  /\ Ordered(c) /\ Ordered(o)
  /\ \A x \in Range(c) : Follows(x, o)
  /\ \A x \in {h} \cup Range(b) : Follows(x, c) /\ Follows(x, o)
  /\ Follows(h, b)

InOrder == OrderOf(heard, buffer, channel, out)

\* Nor does the first frame that would be concealed.
UserNear == user.valid => \A x \in Items : Near(x, user.seq + 1)

ConcealStep == IF user.step < 1 THEN 1 ELSE user.step
StepKnown == "dispatchOpus15" \in Paths /\ user.valid => Step <= ConcealStep + 1

\* The buffer is sorted; while it plays, what is expected is the frame after the one
\* heard, or the first of the buffer.
Expected ==
  /\ \A i, j \in DOMAIN buffer : i < j => buffer[i].seq < buffer[j].seq
  /\ at = "wait" /\ phase = "started" => buffer = <<>>
  /\ at = "drain" => phase = "started"
  /\ heard # Nothing =>
       /\ phase = "started" \/ at \in {"closing", "ended"}
       /\ at = "closing" => \A i \in DOMAIN buffer : heard.seq < buffer[i].seq
       /\ \/ next = heard.seq + Step
          \/ /\ at = "drain" /\ buffer # <<>> /\ next = Head(buffer).seq
             /\ next > heard.seq \/ heard.epoch < talker.epoch

ReceiveInv ==
  NetworkOK /\ JitterTypes /\ AllKnown /\ InOrder /\ UserNear /\ StepKnown /\ Expected

LEMMA SoundTypes ==
  /\ \A x \in Sounds \cup {Nothing} : x.epoch \in Nat /\ x.seq \in Nat
  /\ \A x \in Sound : x # Terminator /\ x # Nothing /\ x.epoch # 0
  /\ Terminator # Nothing /\ Terminator.epoch = 0 /\ Nothing.epoch = 0
<1>1. Terminator = [kind |-> "terminator", id |-> 0, epoch |-> 0, seq |-> 0]
  BY DEF Terminator, Nothing
<1> QED BY <1>1 DEF Sounds, Sound, Nothing

LEMMA ItemTypes ==
  ASSUME JitterTypes
  PROVE  Items \subseteq Sounds \cup {Nothing}
BY DEF JitterTypes, Items, Sounds, Range

LEMMA Products ==
  ASSUME NEW m \in Nat, NEW n \in Nat, m <= n
  PROVE  m * Step <= n * Step /\ m * Step \in Nat /\ (m + 1) * Step = m * Step + Step
<1>1. Step \in Nat
  BY ReceiveAssumption
<1>2. PICK d \in Nat : n = m + d
  <2>1. n - m \in Nat /\ n = m + (n - m)
    OBVIOUS
  <2> QED BY <2>1
<1>3. n * Step = m * Step + d * Step /\ d * Step \in Nat /\ m * Step \in Nat
  BY <1>1, <1>2
<1>4. (m + 1) * Step = m * Step + Step
  BY <1>1
<1> QED BY <1>3, <1>4

\* A packet on its way is near enough to everything that came.
LEMMA NearNetwork ==
  ASSUME NetworkOK, NEW q \in network, NEW x \in Sounds \cup {Nothing}, Known(x)
  PROVE  Near(x, q.seq)
<1> SUFFICES ASSUME Current(x) PROVE q.seq + ResyncJump > x.seq + Step
  BY DEF Near
<1> DEFINE late == talker.sent - q.id + 1
<1>1. /\ q.seq \in Nat /\ q.id \in Nat /\ talker.sent \in Nat /\ talker.frame \in Nat
      /\ q.id <= talker.sent /\ talker.sent - q.id <= Reach
      /\ talker.frame <= q.seq + late * Step
  BY DEF NetworkOK, Wire
<1>2. Reach \in Nat /\ Step \in Nat /\ ResyncJump > (Reach + 1) * Step /\ Reach + 1 \in Nat
  BY ReceiveAssumption
<1>3. late \in Nat /\ late <= Reach + 1
  BY <1>1, <1>2
<1>4. late * Step <= (Reach + 1) * Step /\ late * Step \in Nat /\ (Reach + 1) * Step \in Nat
  BY <1>2, <1>3, Products
<1>5. x.seq + Step <= talker.frame /\ x.seq \in Nat
  BY SoundTypes DEF Known
<1>6. ResyncJump \in Int
  BY ReceiveAssumption
<1> DEFINE a == late * Step
           b == (Reach + 1) * Step
<1> HIDE DEF late, a, b
<1>7. /\ talker.frame <= q.seq + a /\ a <= b /\ ResyncJump > b /\ a \in Nat /\ b \in Nat
  BY <1>1, <1>2, <1>4 DEF a, b
<1> QED BY <1>1, <1>2, <1>5, <1>6, <1>7

\* The steps of the network.
LEMMA TalkKeepsNetwork ==
  ASSUME NetworkOK, NEW kind \in Kinds, Talk(kind)
  PROVE  /\ NetworkOK' /\ talker'.epoch = talker.epoch /\ talker.frame <= talker'.frame
         /\ talker' \in [sent : Nat, epoch : Nat \ {0}, frame : Nat]
<1> DEFINE n == talker.sent + 1
           new == [kind |-> kind, id |-> n, epoch |-> talker.epoch, seq |-> talker.frame]
<1>1. /\ talker \in [sent : Nat, epoch : Nat \ {0}, frame : Nat]
      /\ talker' = [talker EXCEPT !.sent = @ + 1, !.frame = @ + Step]
      /\ network' = StillComing(network, n) \cup {new}
  BY DEF Talk, NetworkOK
<1>2. Step \in Nat /\ Reach \in Nat
  BY ReceiveAssumption
<1>3. /\ talker'.sent = n /\ talker'.frame = talker.frame + Step /\ talker'.epoch = talker.epoch
      /\ talker' \in [sent : Nat, epoch : Nat \ {0}, frame : Nat]
      /\ talker.sent \in Nat /\ talker.frame \in Nat /\ talker.epoch \in Nat \ {0}
  <2> DEFINE t == [talker EXCEPT !.sent = n]
             f == talker.frame + Step
  <2>1. /\ t \in [sent : Nat, epoch : Nat \ {0}, frame : Nat]
        /\ t.sent = n /\ t.frame = talker.frame /\ t.epoch = talker.epoch
        /\ talker.sent \in Nat /\ talker.frame \in Nat /\ talker.epoch \in Nat \ {0}
    BY <1>1
  <2>2. talker' = [t EXCEPT !.frame = f] /\ f \in Nat
    BY <1>1, <1>2, <2>1
  <2> HIDE DEF t
  <2> QED BY <2>1, <2>2
<1>4. new \in Wire /\ new.seq = talker.frame /\ new.id = n /\ new.epoch = talker.epoch
  BY <1>3 DEF Wire
<1>5. ASSUME NEW q \in network'
      PROVE  /\ q \in Wire
             /\ q.epoch <= talker'.epoch /\ q.id <= talker'.sent /\ talker'.sent - q.id <= Reach
             /\ talker'.frame <= q.seq + (talker'.sent - q.id + 1) * Step
             /\ q.epoch = talker'.epoch => q.seq + Step <= talker'.frame
  <2>1. CASE q = new
    <3>1. (talker'.sent - q.id + 1) * Step = Step
      <4>1. talker'.sent - q.id + 1 = 1
        BY <1>3, <1>4, <2>1
      <4> QED BY <4>1, <1>2
    <3> DEFINE b == (talker'.sent - q.id + 1) * Step
    <3>2. b = Step
      BY <3>1
    <3> HIDE DEF new, b
    <3>3. talker'.frame <= q.seq + b
      BY <1>2, <1>3, <1>4, <2>1, <3>2
    <3>4. /\ q \in Wire /\ q.epoch <= talker'.epoch /\ q.id <= talker'.sent
          /\ talker'.sent - q.id <= Reach /\ q.seq + Step <= talker'.frame
      BY <1>2, <1>3, <1>4, <2>1
    <3> QED BY <3>3, <3>4 DEF b
  <2>2. CASE q \in StillComing(network, n)
    <3>1. q \in network /\ q.id >= n - Reach
      BY <2>2 DEF StillComing
    <3>2. /\ q \in Wire /\ q.epoch <= talker.epoch /\ q.id <= talker.sent
          /\ talker.frame <= q.seq + (talker.sent - q.id + 1) * Step
          /\ q.epoch = talker.epoch => q.seq + Step <= talker.frame
      BY <3>1 DEF NetworkOK
    <3>3. q.id \in Nat /\ q.seq \in Nat /\ q.epoch \in Nat
      BY <3>2 DEF Wire
    <3> DEFINE m == talker.sent - q.id + 1
    <3>4. m \in Nat /\ talker'.sent - q.id + 1 = m + 1
      BY <1>3, <3>2, <3>3
    <3>5. (m + 1) * Step = m * Step + Step /\ m * Step \in Nat
      BY <3>4, Products
    <3> DEFINE a == m * Step
               b == (talker'.sent - q.id + 1) * Step
    <3>6. b = a + Step /\ a \in Nat /\ talker.frame <= q.seq + a
      BY <3>2, <3>4, <3>5
    <3> HIDE DEF m, a
    <3>7. talker'.frame <= q.seq + b
      <4> HIDE DEF b
      <4> QED BY <1>2, <1>3, <3>3, <3>6
    <3>8. talker'.sent - q.id <= Reach
      BY <1>2, <1>3, <3>1, <3>3
    <3> QED BY <1>2, <1>3, <3>2, <3>3, <3>7, <3>8
  <2> QED BY <1>1, <2>1, <2>2
<1>6. network' \subseteq Wire
  BY <1>5
<1> QED BY <1>2, <1>3, <1>5, <1>6 DEF NetworkOK

LEMMA RenumberKeepsNetwork ==
  ASSUME NetworkOK, Renumber
  PROVE  NetworkOK' /\ talker'.epoch = talker.epoch + 1
<1>1. /\ talker \in [sent : Nat, epoch : Nat \ {0}, frame : Nat]
      /\ talker' = [talker EXCEPT !.epoch = @ + 1, !.frame = 0]
      /\ network' = network
  BY DEF Renumber, NetworkOK
<1>2. /\ talker'.sent = talker.sent /\ talker'.frame = 0 /\ talker'.epoch = talker.epoch + 1
      /\ talker' \in [sent : Nat, epoch : Nat \ {0}, frame : Nat]
      /\ talker.sent \in Nat /\ talker.epoch \in Nat
  <2> DEFINE t == [talker EXCEPT !.epoch = @ + 1]
  <2>1. /\ t \in [sent : Nat, epoch : Nat \ {0}, frame : Nat]
        /\ t.sent = talker.sent /\ t.epoch = talker.epoch + 1
        /\ talker.sent \in Nat /\ talker.epoch \in Nat
    BY <1>1
  <2>2. talker' = [t EXCEPT !.frame = 0]
    BY <1>1
  <2> HIDE DEF t
  <2> QED BY <2>1, <2>2
<1>3. ASSUME NEW q \in network
      PROVE  /\ q.epoch <= talker'.epoch /\ q.epoch # talker'.epoch
             /\ q.id <= talker'.sent /\ talker'.sent - q.id <= Reach
             /\ talker'.frame <= q.seq + (talker'.sent - q.id + 1) * Step
  <2>1. /\ q \in Wire /\ q.epoch <= talker.epoch /\ q.id <= talker.sent
        /\ talker.sent - q.id <= Reach
    BY DEF NetworkOK
  <2>2. q.id \in Nat /\ q.seq \in Nat /\ q.epoch \in Nat
    BY <2>1 DEF Wire
  <2>3. talker'.sent - q.id + 1 \in Nat
    BY <1>2, <2>1, <2>2
  <2>4. (talker'.sent - q.id + 1) * Step \in Nat
    BY <2>3, Products
  <2> DEFINE b == (talker'.sent - q.id + 1) * Step
  <2>5. b \in Nat
    BY <2>4
  <2> HIDE DEF b
  <2>6. talker'.frame <= q.seq + b
    BY <1>2, <2>2, <2>5
  <2> QED BY <1>2, <2>1, <2>2, <2>6 DEF b
<1> QED BY <1>1, <1>2, <1>3 DEF NetworkOK

LEMMA OthersKeepNetwork ==
  ASSUME NetworkOK, talker' = talker, network' \subseteq network
  PROVE  NetworkOK'
BY DEF NetworkOK

\* What came stays known, and in order: nothing is of the numbering that begins.
LEMMA KnownStays ==
  ASSUME NetworkOK, NEW x \in Sounds \cup {Nothing}, Known(x),
         \/ talker' = talker
         \/ \E kind \in Kinds : Talk(kind)
         \/ Renumber
  PROVE  /\ x.epoch <= talker'.epoch
         /\ x.epoch = talker'.epoch => x.seq + Step <= talker'.frame
         /\ x.epoch = talker'.epoch => Current(x)
<1>1. x.epoch \in Nat /\ x.seq \in Nat /\ Step \in Nat
  BY SoundTypes, ReceiveAssumption
<1>2. talker.epoch \in Nat /\ talker.frame \in Nat
  BY DEF NetworkOK
<1>3. CASE talker' = talker
  BY <1>3 DEF Known, Current
<1>4. CASE \E kind \in Kinds : Talk(kind)
  <2>1. /\ talker'.epoch = talker.epoch /\ talker.frame <= talker'.frame
        /\ talker' \in [sent : Nat, epoch : Nat \ {0}, frame : Nat]
    BY <1>4, TalkKeepsNetwork
  <2>2. talker'.frame \in Nat
    BY <2>1
  <2> QED BY <1>1, <1>2, <2>1, <2>2 DEF Known, Current
<1>5. CASE Renumber
  BY <1>1, <1>2, <1>5, RenumberKeepsNetwork DEF Known, Current
<1> QED BY <1>3, <1>4, <1>5

\* The talker speaks, or numbers anew.
LEMMA TalkerKeeps ==
  ASSUME ReceiveInv, (\E kind \in Kinds : Talk(kind)) \/ Renumber
  PROVE  ReceiveInv'
<1>1. NetworkOK'
  BY TalkKeepsNetwork, RenumberKeepsNetwork DEF ReceiveInv
<1>2. UNCHANGED <<user, out, channel, buffer, heard, next, at, phase>>
  BY DEF Talk, Renumber, reader, jitter, history
<1>3. JitterTypes' /\ StepKnown'
  BY <1>2 DEF ReceiveInv, JitterTypes, StepKnown, ConcealStep
<1>4. ASSUME NEW x \in Sounds \cup {Nothing}, Known(x)
      PROVE  /\ x.epoch <= talker'.epoch
             /\ x.epoch = talker'.epoch => x.seq + Step <= talker'.frame
             /\ x.epoch = talker'.epoch => Current(x)
  BY <1>4, KnownStays DEF ReceiveInv
<1>5. Items \subseteq Sounds \cup {Nothing} /\ \A x \in Items : Known(x)
  BY ItemTypes DEF ReceiveInv, AllKnown
<1>6. AllKnown'
  BY <1>2, <1>4, <1>5 DEF AllKnown, Known, Current, Items
<1>7. ASSUME NEW x \in Items, NEW s, Near(x, s)
      PROVE  x.epoch = talker'.epoch => s + ResyncJump > x.seq + Step
  BY <1>4, <1>5, <1>7 DEF Near
<1>8. InOrder'
  <2>1. ASSUME NEW x \in Items, NEW s, Follows(x, s)
        PROVE  \A y \in Range(s) : y # Terminator =>
                 (x.epoch = talker'.epoch => y.seq + ResyncJump > x.seq + Step)
    BY <1>7, <2>1 DEF Follows
  <2>2. ASSUME NEW s, Ordered(s), \A i \in DOMAIN s : s[i] \in Items
        PROVE  \A i, j \in DOMAIN s : i < j /\ s[j] # Terminator =>
                 (s[i].epoch = talker'.epoch => s[j].seq + ResyncJump > s[i].seq + Step)
    BY <1>7, <2>2 DEF Ordered
  <2>3. /\ \A i \in DOMAIN channel : channel[i] \in Items
        /\ \A i \in DOMAIN out : out[i] \in Items
        /\ Range(channel) \cup {heard} \cup Range(buffer) \subseteq Items
    BY DEF Items, Range
  <2>4. /\ Ordered(channel) /\ Ordered(out)
        /\ \A x \in Range(channel) : Follows(x, out)
        /\ \A x \in {heard} \cup Range(buffer) : Follows(x, channel) /\ Follows(x, out)
        /\ Follows(heard, buffer)
    BY DEF ReceiveInv, InOrder, OrderOf
  <2>5. Ordered(channel)' /\ Ordered(out)'
    BY <1>2, <2>2, <2>3, <2>4 DEF Ordered, Near, Current
  <2>6. (\A x \in Range(channel) : Follows(x, out))'
    BY <1>2, <2>1, <2>3, <2>4 DEF Follows, Near, Current
  <2>7. (\A x \in {heard} \cup Range(buffer) : Follows(x, channel) /\ Follows(x, out))'
    BY <1>2, <2>1, <2>3, <2>4 DEF Follows, Near, Current
  <2>8. Follows(heard, buffer)'
    BY <1>2, <2>1, <2>3, <2>4 DEF Follows, Near, Current
  <2> QED BY <2>5, <2>6, <2>7, <2>8 DEF InOrder, OrderOf
<1>9. UserNear'
  <2>1. user.valid => \A x \in Items : Near(x, user.seq + 1)
    BY DEF ReceiveInv, UserNear
  <2>2. user.valid => \A x \in Items : x.epoch = talker'.epoch => user.seq + 1 + ResyncJump > x.seq + Step
    BY <1>7, <2>1
  <2> QED BY <1>2, <2>2 DEF UserNear, Near, Current, Items
<1>10. Expected'
  <2>1. heard.epoch < talker.epoch => heard.epoch < talker'.epoch
    <3>1. talker.epoch \in Nat /\ heard.epoch \in Nat
      BY <1>5, SoundTypes DEF ReceiveInv, NetworkOK, Items
    <3>2. talker'.epoch = talker.epoch \/ talker'.epoch = talker.epoch + 1
      BY TalkKeepsNetwork, RenumberKeepsNetwork DEF ReceiveInv
    <3> QED BY <3>1, <3>2
  <2> QED BY <1>2, <2>1 DEF ReceiveInv, Expected
<1> QED BY <1>1, <1>3, <1>6, <1>8, <1>9, <1>10 DEF ReceiveInv

-----------------------------------------------------------------------------
(* Sequences of what came                                                  *)

LEMMA Heads ==
  ASSUME NEW S, NEW s \in Seq(S), s # <<>>
  PROVE  /\ Head(s) \in S /\ Tail(s) \in Seq(S) /\ Head(s) = s[1]
         /\ Range(s) = {Head(s)} \cup Range(Tail(s))
         /\ Len(Tail(s)) = Len(s) - 1 /\ \A i \in 1 .. Len(Tail(s)) : Tail(s)[i] = s[i + 1]
         /\ DOMAIN s = 1 .. Len(s) /\ DOMAIN Tail(s) = 1 .. Len(Tail(s)) /\ Len(s) \in Nat \ {0}
<1>1. /\ Head(s) \in S /\ Tail(s) \in Seq(S)
      /\ Len(Tail(s)) = Len(s) - 1 /\ \A i \in 1 .. Len(Tail(s)) : Tail(s)[i] = s[i + 1]
  BY HeadTailProperties
<1>2. DOMAIN s = 1 .. Len(s) /\ DOMAIN Tail(s) = 1 .. Len(Tail(s)) /\ Len(s) \in Nat \ {0}
  BY <1>1
<1>3. Head(s) = s[1]
  OBVIOUS
<1>4. Range(Tail(s)) = {s[i + 1] : i \in 1 .. Len(s) - 1}
  BY <1>1, <1>2 DEF Range
<1>5. Range(s) = {s[i] : i \in 1 .. Len(s)}
  BY <1>2 DEF Range
<1>6. \A x \in Range(s) : x = s[1] \/ x \in Range(Tail(s))
  <2> TAKE x \in Range(s)
  <2>1. PICK i \in 1 .. Len(s) : x = s[i]
    BY <1>5
  <2>2. CASE i # 1
    <3>1. i - 1 \in 1 .. Len(s) - 1 /\ s[(i - 1) + 1] = x
      BY <1>2, <2>1, <2>2
    <3> QED BY <1>4, <3>1
  <2> QED BY <2>1, <2>2
<1>7. \A x \in Range(Tail(s)) : x \in Range(s)
  <2> TAKE x \in Range(Tail(s))
  <2>1. PICK i \in 1 .. Len(s) - 1 : x = s[i + 1]
    BY <1>4
  <2>2. i + 1 \in 1 .. Len(s)
    BY <1>2, <2>1
  <2> QED BY <1>5, <2>1, <2>2
<1>8. s[1] \in Range(s)
  BY <1>2, <1>5
<1> QED BY <1>1, <1>2, <1>3, <1>6, <1>7, <1>8

LEMMA Appends ==
  ASSUME NEW S, NEW s \in Seq(S), NEW e \in S
  PROVE  Append(s, e) \in Seq(S) /\ Range(Append(s, e)) = Range(s) \cup {e}
<1>1. /\ Append(s, e) \in Seq(S) /\ Len(Append(s, e)) = Len(s) + 1 /\ Len(s) \in Nat
      /\ \A i \in 1 .. Len(s) : Append(s, e)[i] = s[i]
      /\ Append(s, e)[Len(s) + 1] = e
  BY AppendProperties
<1> DEFINE t == Append(s, e)
<1>2. DOMAIN s = 1 .. Len(s) /\ DOMAIN t = 1 .. Len(s) + 1
  BY <1>1
<1> HIDE DEF t
<1>3. /\ \A i \in 1 .. Len(s) : t[i] = s[i]
      /\ t[Len(s) + 1] = e /\ Len(s) \in Nat
  BY <1>1 DEF t
<1>4. \A x \in Range(t) : x \in Range(s) \cup {e}
  BY <1>2, <1>3 DEF Range
<1>5. \A x \in Range(s) \cup {e} : x \in Range(t)
  BY <1>2, <1>3 DEF Range
<1> QED BY <1>1, <1>4, <1>5 DEF t

LEMMA OrderedTail ==
  ASSUME NEW s \in Seq(Sounds), s # <<>>, Ordered(s)
  PROVE  Ordered(Tail(s)) /\ Follows(Head(s), Tail(s))
<1> DEFINE t == Tail(s)
<1>1. /\ DOMAIN s = 1 .. Len(s) /\ DOMAIN t = 1 .. Len(s) - 1 /\ Len(s) \in Nat
      /\ \A i \in 1 .. Len(s) - 1 : t[i] = s[i + 1]
      /\ Head(s) = s[1]
  BY Heads
<1> HIDE DEF t
<1>2. ASSUME NEW i \in DOMAIN t, NEW j \in DOMAIN t, i < j, t[j] # Terminator
      PROVE  Near(t[i], t[j].seq)
  <2>1. i + 1 \in DOMAIN s /\ j + 1 \in DOMAIN s /\ i + 1 < j + 1 /\ t[i] = s[i + 1] /\ t[j] = s[j + 1]
    BY <1>1, <1>2
  <2> QED BY <1>2, <2>1 DEF Ordered
<1>3. ASSUME NEW j \in DOMAIN t, t[j] # Terminator
      PROVE  Near(s[1], t[j].seq)
  <2>1. 1 \in DOMAIN s /\ j + 1 \in DOMAIN s /\ 1 < j + 1 /\ t[j] = s[j + 1]
    BY <1>1, <1>3
  <2> QED BY <1>3, <2>1 DEF Ordered
<1> QED BY <1>1, <1>2, <1>3 DEF Ordered, Follows, Range, t

LEMMA OrderedAppend ==
  ASSUME NEW s \in Seq(Sounds), NEW e \in Sounds, Ordered(s),
         \A x \in Range(s) : e # Terminator => Near(x, e.seq)
  PROVE  Ordered(Append(s, e))
<1> DEFINE t == Append(s, e)
<1>1. /\ t \in Seq(Sounds) /\ Len(t) = Len(s) + 1 /\ Len(s) \in Nat
      /\ \A i \in 1 .. Len(s) : t[i] = s[i]
      /\ t[Len(s) + 1] = e
  BY AppendProperties
<1>2. DOMAIN s = 1 .. Len(s) /\ DOMAIN t = 1 .. Len(s) + 1
  BY <1>1
<1> HIDE DEF t
<1> SUFFICES ASSUME NEW i \in DOMAIN t, NEW j \in DOMAIN t, i < j, t[j] # Terminator
             PROVE  Near(t[i], t[j].seq)
  BY DEF Ordered, t
<1>3. i \in DOMAIN s /\ t[i] = s[i] /\ t[i] \in Range(s)
  BY <1>1, <1>2 DEF Range
<1>4. CASE j = Len(s) + 1
  BY <1>1, <1>3, <1>4
<1>5. CASE j # Len(s) + 1
  <2>1. j \in DOMAIN s /\ t[j] = s[j]
    BY <1>1, <1>2, <1>5
  <2> QED BY <1>3, <2>1 DEF Ordered
<1> QED BY <1>4, <1>5

\* What no talker's numbering holds precedes anything.
LEMMA NothingBefore ==
  ASSUME NetworkOK
  PROVE  /\ \A s : Near(Nothing, s) /\ Near(Terminator, s)
         /\ \A s : Follows(Nothing, s)
         /\ Known(Nothing)
<1>1. talker.epoch \in Nat \ {0}
  BY DEF NetworkOK
<1> QED BY <1>1, SoundTypes DEF Near, Current, Known, Follows

\* What is later than a packet does not look like a restart after it.
LEMMA LaterIsNear ==
  ASSUME NEW x, NEW s \in Nat, x.seq \in Nat, x.seq <= s
  PROVE  Near(x, s)
<1>1. Step \in Nat /\ Reach \in Nat /\ ResyncJump \in Nat /\ ResyncJump > (Reach + 1) * Step
  BY ReceiveAssumption
<1>2. 1 * Step <= (Reach + 1) * Step /\ (Reach + 1) * Step \in Nat
  BY <1>1, Products
<1>3. Step < ResyncJump
  <2> DEFINE b == (Reach + 1) * Step
  <2>1. b \in Nat /\ Step <= b /\ ResyncJump > b
    BY <1>1, <1>2
  <2> HIDE DEF b
  <2> QED BY <1>1, <2>1
<1> QED BY <1>1, <1>3 DEF Near

\* When the network, the user and the talker stay, only the order is left to show.
LEMMA ItemsKept ==
  ASSUME ReceiveInv, UNCHANGED <<talker, user>>, network' \subseteq network,
         Items' \subseteq Items \cup {Nothing}
  PROVE  NetworkOK' /\ AllKnown' /\ UserNear' /\ StepKnown'
<1>1. NetworkOK'
  BY OthersKeepNetwork DEF ReceiveInv
<1>2. \A x \in Items' : Known(x)
  BY NothingBefore DEF ReceiveInv, AllKnown
<1>3. AllKnown'
  BY <1>2 DEF AllKnown, Known, Current
<1>4. user.valid => \A x \in Items' : Near(x, user.seq + 1)
  BY NothingBefore DEF ReceiveInv, UserNear
<1>5. UserNear'
  BY <1>4 DEF UserNear, Near, Current
<1>6. StepKnown'
  BY DEF ReceiveInv, StepKnown, ConcealStep
<1> QED BY <1>1, <1>3, <1>5, <1>6

LEMMA OrderKept ==
  ASSUME talker' = talker, OrderOf(heard', buffer', channel', out')
  PROVE  InOrder'
BY DEF InOrder, OrderOf, Follows, Ordered, Near, Current

LEMMA QuietKeeps ==
  ASSUME ReceiveInv, UNCHANGED <<talker, user, out, channel, buffer, heard, next, at, phase>>,
         network' \subseteq network
  PROVE  ReceiveInv'
<1>1. Items' = Items
  BY DEF Items
<1>2. NetworkOK' /\ AllKnown' /\ UserNear' /\ StepKnown'
  BY <1>1, ItemsKept
<1>3. InOrder'
  BY OrderKept DEF ReceiveInv, InOrder
<1>4. JitterTypes' /\ Expected'
  BY DEF ReceiveInv, JitterTypes, Expected
<1> QED BY <1>2, <1>3, <1>4 DEF ReceiveInv

\* dispatchAudio
LEMMA DispatchKeeps ==
  ASSUME ReceiveInv, Dispatch
  PROVE  ReceiveInv'
<1> DEFINE e == Head(out)
<1>1. /\ UNCHANGED <<talker, network, user, buffer, heard, next, at, phase>>
      /\ out # <<>> /\ out' = Tail(out)
      /\ channel' = channel \/ channel' = Append(channel, e)
  BY DEF Dispatch, network_, jitter, history
<1>2. out \in Seq(Sounds) /\ channel \in Seq(Sounds) /\ buffer \in Seq(Sound)
  BY DEF ReceiveInv, JitterTypes
<1>3. e \in Sounds /\ out' \in Seq(Sounds) /\ Range(out) = {e} \cup Range(out')
  BY <1>1, <1>2, Heads
<1>4. channel' \in Seq(Sounds) /\ Range(channel) \subseteq Range(channel') /\ Range(channel') \subseteq Range(channel) \cup {e}
  <2>1. CASE channel' = channel
    BY <1>2, <2>1
  <2>2. CASE channel' = Append(channel, e)
    <3>1. Append(channel, e) \in Seq(Sounds) /\ Range(Append(channel, e)) = Range(channel) \cup {e}
      BY <1>2, <1>3, Appends
    <3> QED BY <2>2, <3>1
  <2> QED BY <1>1, <2>1, <2>2
<1>5. Items' \subseteq Items \cup {Nothing}
  BY <1>1, <1>3, <1>4 DEF Items
<1>6. NetworkOK' /\ AllKnown' /\ UserNear' /\ StepKnown'
  BY <1>1, <1>5, ItemsKept
<1>7. JitterTypes' /\ Expected'
  BY <1>1, <1>3, <1>4 DEF ReceiveInv, JitterTypes, Expected
<1>8. /\ Ordered(channel) /\ Ordered(out)
      /\ \A x \in Range(channel) : Follows(x, out)
      /\ \A x \in {heard} \cup Range(buffer) : Follows(x, channel) /\ Follows(x, out)
      /\ Follows(heard, buffer)
  BY DEF ReceiveInv, InOrder, OrderOf
<1>9. Ordered(out') /\ Follows(e, out')
  BY <1>1, <1>2, <1>8, OrderedTail
<1>10. \A x : Follows(x, out) => Follows(x, out') /\ (e # Terminator => Near(x, e.seq))
  BY <1>3 DEF Follows
<1>11. Ordered(channel')
  <2>1. \A x \in Range(channel) : e # Terminator => Near(x, e.seq)
    BY <1>8, <1>10
  <2> QED BY <1>1, <1>2, <1>3, <1>8, <2>1, OrderedAppend
<1>12. \A x \in Range(channel') : Follows(x, out')
  BY <1>4, <1>8, <1>9, <1>10
<1>13. \A x \in {heard} \cup Range(buffer) : Follows(x, channel') /\ Follows(x, out')
  BY <1>4, <1>8, <1>10 DEF Follows
<1>14. OrderOf(heard', buffer', channel', out')
  BY <1>1, <1>8, <1>9, <1>11, <1>12, <1>13 DEF OrderOf
<1>15. InOrder'
  BY <1>1, <1>14, OrderKept
<1> QED BY <1>6, <1>7, <1>15 DEF ReceiveInv

\* insertSorted
LEMMA Inserted ==
  ASSUME JitterTypes, NEW p \in Sound, Insert(p),
         \A i, j \in DOMAIN buffer : i < j => buffer[i].seq < buffer[j].seq
  PROVE  /\ buffer' \in Seq(Sound) /\ Range(buffer') \subseteq Range(buffer) \cup {p}
         /\ \A i, j \in DOMAIN buffer' : i < j => buffer'[i].seq < buffer'[j].seq
<1>1. buffer \in Seq(Sound) /\ DOMAIN buffer = 1 .. Len(buffer) /\ Len(buffer) \in Nat
  BY DEF JitterTypes
<1>2. CASE UNCHANGED buffer
  BY <1>1, <1>2
<1>3. CASE ~UNCHANGED buffer
  <2>1. /\ \A b \in Range(buffer) : b.seq # p.seq
        /\ \E k \in 0 .. Len(buffer) :
             /\ \A i \in DOMAIN buffer : i <= k <=> buffer[i].seq < p.seq
             /\ buffer' = InsertAt(buffer, k + 1, p)
    BY <1>3 DEF Insert
  <2>2. PICK k \in 0 .. Len(buffer) :
             /\ \A i \in DOMAIN buffer : i <= k <=> buffer[i].seq < p.seq
             /\ buffer' = InsertAt(buffer, k + 1, p)
    BY <2>1
  <2>3. k \in Nat /\ k <= Len(buffer)
    BY <1>1, <2>2
  <2> DEFINE l == SubSeq(buffer, 1, k)
             r == SubSeq(buffer, k + 1, Len(buffer))
             m == l \o <<p>>
             t == m \o r
             n == Len(buffer)
  <2>4. buffer' = t
    <3>1. (k + 1) - 1 = k
      BY <2>3
    <3>2. buffer' = SubSeq(buffer, 1, (k + 1) - 1) \o <<p>> \o SubSeq(buffer, k + 1, Len(buffer))
      BY <2>2, Zenon DEF InsertAt
    <3> QED BY <3>1, <3>2, Zenon
  <2>5. l \in Seq(Sound) /\ Len(l) = k /\ \A i \in 1 .. k : l[i] = buffer[i]
    <3>1. \A i \in 1 .. k : buffer[i] \in Sound
      BY <1>1, <2>3
    <3>2. 1 \in Int /\ k \in Int
      BY <2>3
    <3>3. /\ l \in Seq(Sound) /\ Len(l) = (IF 1 <= k THEN k - 1 + 1 ELSE 0)
          /\ \A i \in 1 .. k - 1 + 1 : l[i] = buffer[1 + i - 1]
      BY <3>1, <3>2, SubSeqProperties
    <3> HIDE DEF l
    <3> QED BY <2>3, <3>3
  <2>6. r \in Seq(Sound) /\ Len(r) = n - k /\ \A i \in 1 .. n - k : r[i] = buffer[k + i]
    <3>1. \A i \in k + 1 .. n : buffer[i] \in Sound
      BY <1>1, <2>3
    <3>2. k + 1 \in Int /\ n \in Int
      BY <1>1, <2>3
    <3>3. /\ r \in Seq(Sound) /\ Len(r) = (IF k + 1 <= n THEN n - (k + 1) + 1 ELSE 0)
          /\ \A i \in 1 .. n - (k + 1) + 1 : r[i] = buffer[(k + 1) + i - 1]
      BY <3>1, <3>2, SubSeqProperties
    <3> HIDE DEF r
    <3>4. \A i \in 1 .. n - k : r[i] = buffer[k + i]
      <4> TAKE i \in 1 .. n - k
      <4>1. i \in 1 .. n - (k + 1) + 1 /\ (k + 1) + i - 1 = k + i
        BY <1>1, <2>3
      <4> QED BY <3>3, <4>1
    <3>5. Len(r) = n - k
      <4>1. CASE k + 1 <= n
        <5>1. Len(r) = n - (k + 1) + 1
          BY <3>3, <4>1
        <5> HIDE DEF n
        <5>2. n \in Nat
          BY <1>1 DEF n
        <5> QED BY <2>3, <5>1, <5>2
      <4>2. CASE ~(k + 1 <= n)
        <5>1. Len(r) = 0
          BY <3>3, <4>2
        <5>2. n \in Nat /\ k <= n
          BY <1>1, <2>3
        <5> HIDE DEF n
        <5> QED BY <2>3, <4>2, <5>1, <5>2
      <4> QED BY <4>1, <4>2
    <3> QED BY <3>3, <3>4, <3>5
  <2> HIDE DEF l, r
  <2>7. /\ m \in Seq(Sound) /\ Len(m) = k + 1 /\ m[k + 1] = p
        /\ \A i \in 1 .. k : m[i] = buffer[i]
    <3>1. <<p>> \in Seq(Sound) /\ Len(<<p>>) = 1 /\ <<p>>[1] = p
      OBVIOUS
    <3> DEFINE q == <<p>>
    <3> HIDE DEF q
    <3>2. q \in Seq(Sound) /\ Len(q) = 1 /\ q[1] = p
      BY <3>1 DEF q
    <3>3. /\ l \o q \in Seq(Sound) /\ Len(l \o q) = k + 1
          /\ \A i \in 1 .. k + 1 : (l \o q)[i] = IF i <= k THEN l[i] ELSE q[i - k]
      <4>1. /\ l \o q \in Seq(Sound) /\ Len(l \o q) = Len(l) + Len(q)
            /\ \A i \in 1 .. Len(l) + Len(q) : (l \o q)[i] = IF i <= Len(l) THEN l[i] ELSE q[i - Len(l)]
        BY <2>5, <3>2, ConcatProperties
      <4> QED BY <2>5, <3>2, <4>1
    <3>4. m = l \o q
      BY DEF q
    <3> HIDE DEF m
    <3> QED BY <2>3, <2>5, <3>2, <3>3, <3>4
  <2> HIDE DEF m
  <2>8. /\ t \in Seq(Sound) /\ Len(t) = n + 1
        /\ \A i \in 1 .. k : t[i] = buffer[i]
        /\ t[k + 1] = p
        /\ \A i \in k + 2 .. n + 1 : t[i] = buffer[i - 1]
    <3>1. /\ t \in Seq(Sound) /\ Len(t) = (k + 1) + (n - k)
          /\ \A i \in 1 .. (k + 1) + (n - k) : t[i] = IF i <= k + 1 THEN m[i] ELSE r[i - (k + 1)]
      <4>1. /\ t \in Seq(Sound) /\ Len(t) = Len(m) + Len(r)
            /\ \A i \in 1 .. Len(m) + Len(r) : t[i] = IF i <= Len(m) THEN m[i] ELSE r[i - Len(m)]
        BY <2>6, <2>7, ConcatProperties
      <4> HIDE DEF t
      <4>2. Len(m) = k + 1 /\ Len(r) = n - k
        BY <2>6, <2>7
      <4> QED BY <4>1, <4>2
    <3> HIDE DEF t
    <3>2. \A i \in 1 .. n + 1 : t[i] = IF i <= k + 1 THEN m[i] ELSE r[i - (k + 1)]
      BY <1>1, <2>3, <3>1
    <3>3. \A i \in k + 2 .. n + 1 : t[i] = buffer[i - 1]
      <4> TAKE i \in k + 2 .. n + 1
      <4>1. i \in 1 .. n + 1 /\ ~(i <= k + 1) /\ i - (k + 1) \in 1 .. n - k /\ k + (i - (k + 1)) = i - 1
        BY <1>1, <2>3
      <4> QED BY <2>6, <3>2, <4>1
    <3>4. Len(t) = n + 1
      BY <1>1, <2>3, <3>1
    <3>5. \A i \in 1 .. k : i \in 1 .. n + 1 /\ i <= k + 1
      BY <1>1, <2>3
    <3>6. k + 1 \in 1 .. n + 1
      BY <1>1, <2>3
    <3> QED BY <2>7, <3>1, <3>2, <3>3, <3>4, <3>5, <3>6
  <2> HIDE DEF t
  <2>9. DOMAIN t = 1 .. n + 1
    BY <2>8
  <2>10. \A i \in 1 .. n + 1 : \/ i <= k /\ i \in 1 .. n /\ t[i] = buffer[i] /\ t[i].seq < p.seq
                               \/ i = k + 1 /\ t[i] = p
                               \/ i > k + 1 /\ i - 1 \in 1 .. n /\ t[i] = buffer[i - 1] /\ p.seq < t[i].seq
    <3> TAKE i \in 1 .. n + 1
    <3>1. CASE i <= k
      BY <1>1, <2>2, <2>3, <2>8, <3>1
    <3>2. CASE i = k + 1
      BY <2>8, <3>2
    <3>3. CASE i > k + 1
      <4>1. i - 1 \in 1 .. n /\ ~(i - 1 <= k) /\ t[i] = buffer[i - 1]
        BY <1>1, <2>3, <2>8, <3>3
      <4>2. buffer[i - 1] \in Sound /\ buffer[i - 1] \in Range(buffer)
        BY <1>1, <4>1 DEF Range
      <4>3. ~(buffer[i - 1].seq < p.seq) /\ buffer[i - 1].seq # p.seq
        BY <1>1, <2>1, <2>2, <4>1, <4>2
      <4>4. buffer[i - 1].seq \in Nat /\ p.seq \in Nat
        BY <4>2 DEF Sound
      <4> QED BY <3>3, <4>1, <4>3, <4>4
    <3> QED BY <1>1, <2>3, <3>1, <3>2, <3>3
  <2>11. Range(t) \subseteq Range(buffer) \cup {p}
    BY <1>1, <2>9, <2>10 DEF Range
  <2>12. ASSUME NEW i \in 1 .. n + 1, NEW j \in 1 .. n + 1, i < j PROVE t[i].seq < t[j].seq
    <3>1. t[i].seq \in Nat /\ t[j].seq \in Nat /\ p.seq \in Nat
      <4>1. t[i] \in Sound /\ t[j] \in Sound
        BY <2>8, <2>9
      <4> QED BY <4>1 DEF Sound
    <3>2. CASE i <= k /\ j <= k
      <4>1. i \in 1 .. n /\ j \in 1 .. n /\ t[i] = buffer[i] /\ t[j] = buffer[j]
        BY <1>1, <2>3, <2>8, <3>2
      <4> QED BY <1>1, <2>12, <4>1
    <3>3. CASE i > k + 1 /\ j > k + 1
      <4>1. i - 1 \in 1 .. n /\ j - 1 \in 1 .. n /\ t[i] = buffer[i - 1] /\ t[j] = buffer[j - 1] /\ i - 1 < j - 1
        BY <1>1, <2>3, <2>8, <2>12, <3>3
      <4> QED BY <1>1, <4>1
    <3>4. CASE i <= k + 1 /\ j > k
      <4>1. i = k + 1 => j > k + 1
        BY <2>3, <2>12
      <4>2. \/ i <= k /\ t[i].seq < p.seq
            \/ i = k + 1 /\ t[i] = p
        BY <2>3, <2>10, <3>4
      <4>3. \/ j = k + 1 /\ t[j] = p
            \/ j > k + 1 /\ p.seq < t[j].seq
        BY <2>3, <2>10, <3>4
      <4> DEFINE a == t[i].seq
                 b == t[j].seq
                 c == p.seq
      <4>4. a < c \/ (i = k + 1 /\ a = c)
        BY <4>2
      <4>5. c < b \/ (j = k + 1 /\ b = c)
        BY <4>3
      <4>6. a \in Nat /\ b \in Nat /\ c \in Nat
        BY <3>1
      <4> HIDE DEF a, b, c
      <4>7. a < b
        BY <2>3, <4>1, <4>4, <4>5, <4>6
      <4> QED BY <4>7 DEF a, b
    <3> QED BY <2>3, <2>12, <3>2, <3>3, <3>4
  <2> QED BY <2>4, <2>8, <2>9, <2>11, <2>12
<1> QED BY <1>2, <1>3

-----------------------------------------------------------------------------
(* The jitter buffer                                                       *)

\* What the steps of the goroutine leave alone, and how it takes from the channel.
LEMMA JitterSteps ==
  ASSUME Jitter
  PROVE  /\ UNCHANGED <<talker, network, user, out>>
         /\ channel' = channel \/ (channel # <<>> /\ channel' = Tail(channel))
<1>1. CASE HearTerminator \/ SkipMuted \/ Keep
  BY <1>1 DEF HearTerminator, SkipMuted, Keep, Take, network_, reader
<1>2. CASE PlayNext \/ Resync \/ DiscardLate \/ SkipAhead
  BY <1>2 DEF PlayNext, Resync, DiscardLate, SkipAhead, network_, reader
<1>3. CASE Drained \/ StartClosing \/ PlayRest \/ End
  BY <1>3 DEF Drained, StartClosing, PlayRest, End, network_, reader
<1> QED BY <1>1, <1>2, <1>3 DEF Jitter

\* The parts of the invariant that the buffer and what was heard come into.
LEMMA JitterFrame ==
  ASSUME ReceiveInv, Jitter, buffer' \in Seq(Sound), heard' \in Sound \cup {Nothing}, next' \in Int,
         at' \in {"wait", "drain", "closing", "ended"}, phase' \in {"empty", "held", "started"},
         {heard'} \cup Range(buffer') \subseteq Items \cup {Nothing},
         \A x \in {heard'} \cup Range(buffer') : Follows(x, channel') /\ Follows(x, out),
         Follows(heard', buffer'), Expected'
  PROVE  ReceiveInv'
<1>1. /\ UNCHANGED <<talker, network, user, out>>
      /\ channel' = channel \/ (channel # <<>> /\ channel' = Tail(channel))
  BY JitterSteps
<1>2. channel \in Seq(Sounds) /\ Ordered(channel) /\ Ordered(out) /\ \A x \in Range(channel) : Follows(x, out)
  BY DEF ReceiveInv, JitterTypes, InOrder, OrderOf
<1>3. channel' \in Seq(Sounds) /\ Range(channel') \subseteq Range(channel) /\ Ordered(channel')
  <2>1. CASE channel' = channel
    BY <1>2, <2>1
  <2>2. CASE channel # <<>> /\ channel' = Tail(channel)
    <3>1. Tail(channel) \in Seq(Sounds) /\ Range(channel) = {Head(channel)} \cup Range(Tail(channel))
      BY <1>2, <2>2, Heads
    <3>2. Ordered(Tail(channel))
      BY <1>2, <2>2, OrderedTail
    <3> QED BY <2>2, <3>1, <3>2
  <2> QED BY <1>1, <2>1, <2>2
<1>4. Items' \subseteq Items \cup {Nothing}
  BY <1>1, <1>3 DEF Items
<1>5. NetworkOK' /\ AllKnown' /\ UserNear' /\ StepKnown'
  BY <1>1, <1>4, ItemsKept
<1>6. JitterTypes'
  BY <1>1, <1>3 DEF ReceiveInv, JitterTypes
<1>7. OrderOf(heard', buffer', channel', out')
  BY <1>1, <1>2, <1>3 DEF OrderOf
<1>8. InOrder'
  BY <1>1, <1>7, OrderKept
<1> QED BY <1>5, <1>6, <1>8 DEF ReceiveInv

\* What the goroutine finds.
LEMMA Found ==
  ASSUME ReceiveInv
  PROVE  /\ JitterTypes /\ Expected /\ NetworkOK /\ talker.epoch \in Nat \ {0}
         /\ \A x \in {heard} \cup Range(buffer) : Follows(x, channel) /\ Follows(x, out)
         /\ Follows(heard, buffer) /\ {heard} \cup Range(buffer) \subseteq Items
         /\ \A s : Follows(Nothing, s)
<1>1. NetworkOK
  BY DEF ReceiveInv
<1> QED BY <1>1, NothingBefore DEF ReceiveInv, InOrder, OrderOf, Items, NetworkOK

LEMMA TailFollows ==
  ASSUME NEW s \in Seq(Sounds), s # <<>>, NEW x, Follows(x, s)
  PROVE  Follows(x, Tail(s)) /\ (Head(s) # Terminator => Near(x, Head(s).seq))
BY Heads DEF Follows

LEMMA TakeKeeps ==
  ASSUME ReceiveInv, HearTerminator \/ SkipMuted
  PROVE  ReceiveInv'
<1>1. /\ channel \in Seq(Sounds) /\ channel # <<>> /\ channel' = Tail(channel) /\ at = "wait"
  BY Found DEF HearTerminator, SkipMuted, Take, JitterTypes
<1>2. \A x \in {heard} \cup Range(buffer) : Follows(x, channel')
  BY <1>1, TailFollows, Found
<1>3. CASE HearTerminator
  <2>1. /\ buffer' = <<>> /\ next' = 0 /\ phase' = "empty" /\ heard' = Nothing /\ at' = at /\ out' = out
    BY <1>3 DEF HearTerminator, Take, reader
  <2>2. Expected'
    BY <1>1, <2>1 DEF Expected
  <2>3. Range(buffer') = {} /\ buffer' \in Seq(Sound)
    BY <2>1 DEF Range
  <2> QED BY <1>1, <1>3, <2>1, <2>2, <2>3, JitterFrame, Found DEF Jitter, Follows
<1>4. CASE SkipMuted
  <2>1. UNCHANGED <<at, buffer, next, phase, heard>>
    BY <1>4 DEF SkipMuted, jitter, history
  <2>2. Expected'
    <3>1. Expected /\ talker' = talker
      BY <1>4, Found, JitterSteps DEF Jitter
    <3> QED BY <2>1, <3>1 DEF Expected
  <2> QED BY <1>2, <1>4, <2>1, <2>2, JitterFrame, Found DEF Jitter, JitterTypes
<1> QED BY <1>3, <1>4

LEMMA KeepKeeps ==
  ASSUME ReceiveInv, Keep
  PROVE  ReceiveInv'
<1> DEFINE p == Head(channel)
<1>1. /\ channel \in Seq(Sounds) /\ channel # <<>> /\ channel' = Tail(channel) /\ at = "wait"
      /\ p # Terminator /\ Insert(p) /\ heard' = heard
      /\ next' = IF phase = "empty" THEN p.seq ELSE next
      /\ phase' \in {"started", "held"} /\ at' = (IF phase' = "started" THEN "drain" ELSE "wait")
      /\ phase = "started" => phase' = "started"
  BY Found DEF Keep, Take, JitterTypes, history
<1>2. p \in Sound /\ p.seq \in Nat /\ p \in Items
  <2>1. p \in Sounds /\ p \in Range(channel)
    BY <1>1, Heads
  <2> QED BY <1>1, <2>1 DEF Sounds, Sound, Items
<1>3. /\ buffer' \in Seq(Sound) /\ Range(buffer') \subseteq Range(buffer) \cup {p}
      /\ \A i, j \in DOMAIN buffer' : i < j => buffer'[i].seq < buffer'[j].seq
  BY <1>1, <1>2, Found, Inserted DEF Expected
<1>4. \A x \in {heard} \cup Range(buffer) : Follows(x, channel') /\ Near(x, p.seq)
  BY <1>1, TailFollows, Found
<1>5. Follows(p, channel') /\ Follows(p, out)
  <2>1. Ordered(channel) /\ \A x \in Range(channel) : Follows(x, out)
    BY DEF ReceiveInv, InOrder, OrderOf
  <2> QED BY <1>1, <2>1, OrderedTail, Heads
<1>6. \A x \in {heard'} \cup Range(buffer') : Follows(x, channel') /\ Follows(x, out)
  BY <1>1, <1>3, <1>4, <1>5, Found
<1>7. Follows(heard', buffer')
  BY <1>1, <1>3, <1>4, Found DEF Follows
<1>8. Expected'
  <2>1. heard # Nothing => phase = "started" /\ next = heard.seq + Step
    BY <1>1, Found DEF Expected
  <2> QED BY <1>1, <1>3, <2>1 DEF Expected
<1>9. /\ next' \in Int /\ at' \in {"wait", "drain", "closing", "ended"} /\ phase' \in {"empty", "held", "started"}
      /\ heard' \in Sound \cup {Nothing}
  BY <1>1, <1>2, Found DEF JitterTypes
<1>10. {heard'} \cup Range(buffer') \subseteq Items \cup {Nothing}
  BY <1>1, <1>2, <1>3, Found
<1> QED BY <1>3, <1>6, <1>7, <1>8, <1>9, <1>10, JitterFrame DEF Jitter

\* The first of the buffer is heard, or forgotten.
LEMMA First ==
  ASSUME ReceiveInv, buffer # <<>>, buffer' = Tail(buffer)
  PROVE  /\ buffer' \in Seq(Sound) /\ Head(buffer) \in Sound /\ Head(buffer) \in Range(buffer)
         /\ Head(buffer) # Nothing
         /\ Range(buffer') \subseteq Range(buffer)
         /\ \A i \in DOMAIN buffer' : Head(buffer).seq < buffer'[i].seq
         /\ \A i, j \in DOMAIN buffer' : i < j => buffer'[i].seq < buffer'[j].seq
         /\ \A i \in DOMAIN buffer' : buffer'[i] \in Range(buffer)
<1>1. /\ buffer \in Seq(Sound)
      /\ \A i, j \in DOMAIN buffer : i < j => buffer[i].seq < buffer[j].seq
  BY DEF ReceiveInv, JitterTypes, Expected
<1>2. /\ Head(buffer) \in Sound /\ buffer' \in Seq(Sound) /\ Head(buffer) = buffer[1]
      /\ Range(buffer) = {Head(buffer)} \cup Range(buffer')
      /\ \A i \in 1 .. Len(buffer') : buffer'[i] = buffer[i + 1]
      /\ DOMAIN buffer = 1 .. Len(buffer) /\ DOMAIN buffer' = 1 .. Len(buffer') /\ Len(buffer) \in Nat \ {0}
      /\ Len(buffer') = Len(buffer) - 1
  BY <1>1, Heads
<1>3. \A i \in DOMAIN buffer' : i + 1 \in DOMAIN buffer /\ 1 < i + 1 /\ 1 \in DOMAIN buffer
  BY <1>2
<1>4. \A i, j \in DOMAIN buffer' : i < j => i + 1 < j + 1
  BY <1>2
<1>5. \A i \in DOMAIN buffer' : buffer'[i] \in Range(buffer)
  BY <1>2 DEF Range
<1>6. \A i \in DOMAIN buffer' : Head(buffer).seq < buffer'[i].seq
  BY <1>1, <1>2, <1>3
<1>7. \A i, j \in DOMAIN buffer' : i < j => buffer'[i].seq < buffer'[j].seq
  BY <1>1, <1>2, <1>3, <1>4
<1>8. Head(buffer) # Nothing
  BY <1>2, SoundTypes
<1> QED BY <1>2, <1>5, <1>6, <1>7, <1>8

LEMMA PlayKeeps ==
  ASSUME ReceiveInv, PlayNext \/ PlayRest
  PROVE  ReceiveInv'
<1> DEFINE p == Head(buffer)
<1>1. /\ buffer # <<>> /\ buffer' = Tail(buffer) /\ next' = p.seq + Step /\ heard' = p
      /\ UNCHANGED <<channel, at, phase>> /\ at \in {"drain", "closing"}
  BY DEF PlayNext, PlayRest, Draining
<1>2. /\ buffer' \in Seq(Sound) /\ p \in Sound /\ p \in Range(buffer) /\ p # Nothing
      /\ Range(buffer') \subseteq Range(buffer)
      /\ \A i \in DOMAIN buffer' : p.seq < buffer'[i].seq
      /\ \A i, j \in DOMAIN buffer' : i < j => buffer'[i].seq < buffer'[j].seq
  BY <1>1, First
<1> HIDE DEF p
<1>3. /\ p.seq \in Nat /\ Step \in Nat /\ next' \in Int
  BY <1>1, <1>2, SoundTypes, ReceiveAssumption DEF Sounds
<1>4. Follows(heard', buffer')
  <2>1. \A y \in Range(buffer') : y.seq \in Nat /\ p.seq < y.seq
    <3>1. \A i \in DOMAIN buffer' : buffer'[i] \in Sound
      BY <1>2
    <3>2. \A i \in DOMAIN buffer' : buffer'[i].seq \in Nat
      BY <3>1 DEF Sound
    <3> QED BY <1>2, <3>2 DEF Range
  <2> QED BY <1>1, <1>3, <2>1, LaterIsNear DEF Follows
<1>5. \A x \in {heard'} \cup Range(buffer') : Follows(x, channel') /\ Follows(x, out)
  BY <1>1, <1>2, Found
<1>6. Expected'
  <2>1. Expected
    BY Found
  <2>2. at = "drain" => phase = "started"
    BY <2>1 DEF Expected
  <2> QED BY <1>1, <1>2, <2>2 DEF Expected
<1>7. {heard'} \cup Range(buffer') \subseteq Items \cup {Nothing}
  BY <1>1, <1>2, Found
<1>8. /\ heard' \in Sound \cup {Nothing} /\ at' \in {"wait", "drain", "closing", "ended"}
      /\ phase' \in {"empty", "held", "started"}
  BY <1>1, <1>2, Found DEF JitterTypes
<1> QED BY <1>2, <1>3, <1>4, <1>5, <1>6, <1>7, <1>8, JitterFrame DEF Jitter

LEMMA DiscardKeeps ==
  ASSUME ReceiveInv, DiscardLate
  PROVE  ReceiveInv'
<1>1. /\ buffer # <<>> /\ buffer' = Tail(buffer) /\ Head(buffer).seq < next
      /\ UNCHANGED <<channel, at, phase, next, heard>> /\ at = "drain"
  BY DEF DiscardLate, Late, Draining
<1>2. /\ buffer' \in Seq(Sound) /\ Head(buffer) \in Sound
      /\ Range(buffer') \subseteq Range(buffer)
      /\ \A i, j \in DOMAIN buffer' : i < j => buffer'[i].seq < buffer'[j].seq
  BY <1>1, First
<1>3. Follows(heard', buffer')
  BY <1>1, <1>2, Found DEF Follows
<1>4. Expected'
  <2>1. Expected
    BY Found
  <2>2. Head(buffer).seq # next
    <3>1. Head(buffer).seq \in Nat /\ next \in Int
      BY <1>2, Found DEF Sound, JitterTypes
    <3> QED BY <1>1, <3>1
  <2>3. /\ phase = "started"
        /\ heard # Nothing => next = heard.seq + Step
    BY <1>1, <2>1, <2>2 DEF Expected
  <2> QED BY <1>1, <1>2, <2>3 DEF Expected
<1> QED BY <1>1, <1>2, <1>3, <1>4, JitterFrame, Found DEF Jitter, JitterTypes

\* The numbering is taken for a new one after what was heard only when it is.
LEMMA RestartIsReal ==
  ASSUME ReceiveInv, Resync
  PROVE  heard.epoch < talker.epoch
<1>1. /\ buffer # <<>> /\ at = "drain" /\ Head(buffer).seq < next
      /\ next - Head(buffer).seq >= ResyncJump
  BY DEF Resync, Late, Draining, Restarted
<1>2. /\ Head(buffer) \in Sound /\ Head(buffer) \in Range(buffer) /\ next \in Int
      /\ heard \in Sounds \cup {Nothing} /\ talker.epoch \in Nat \ {0} /\ heard \in Items
  <2>1. buffer \in Seq(Sound)
    BY Found DEF JitterTypes
  <2> QED BY <1>1, <2>1, Heads, Found DEF JitterTypes, Sounds
<1>3. heard.epoch \in Nat /\ heard.seq \in Nat /\ Head(buffer).seq \in Nat
  BY <1>2, SoundTypes DEF Sounds
<1>4. heard.epoch <= talker.epoch
  BY <1>2 DEF ReceiveInv, AllKnown, Known
<1> SUFFICES ASSUME heard.epoch = talker.epoch PROVE FALSE
  BY <1>2, <1>3, <1>4
<1>5. heard # Nothing
  BY <1>2, SoundTypes
<1>6. next = heard.seq + Step
  <2>1. Expected
    BY Found
  <2>2. Head(buffer).seq # next
    BY <1>1, <1>2, <1>3
  <2> QED BY <1>1, <1>5, <2>1, <2>2 DEF Expected
<1>7. Near(heard, Head(buffer).seq)
  BY <1>2, Found, SoundTypes DEF Follows
<1>8. ResyncJump \in Nat /\ Step \in Nat
  BY ReceiveAssumption
<1> DEFINE s == Head(buffer).seq
<1>9. s + ResyncJump > heard.seq + Step
  BY <1>7 DEF Near, Current
<1>10. next - s >= ResyncJump /\ s \in Nat
  BY <1>1, <1>3
<1> HIDE DEF s
<1> QED BY <1>3, <1>6, <1>8, <1>9, <1>10

LEMMA MoveKeeps ==
  ASSUME ReceiveInv, Resync \/ SkipAhead
  PROVE  ReceiveInv'
<1>1. /\ buffer # <<>> /\ at = "drain" /\ next' = Head(buffer).seq
      /\ UNCHANGED <<channel, at, phase, buffer, heard>>
  BY DEF Resync, SkipAhead, Late, Draining, history
<1>2. Head(buffer) \in Sound /\ Head(buffer).seq \in Nat
  <2>1. buffer \in Seq(Sound)
    BY Found DEF JitterTypes
  <2>2. Head(buffer) \in Sound
    BY <1>1, <2>1, Heads
  <2> QED BY <2>2 DEF Sound
<1>3. Expected'
  <2>1. Expected /\ talker' = talker /\ next \in Int
    BY Found, JitterSteps DEF Jitter, JitterTypes
  <2>2. Resync => heard.epoch < talker.epoch
    BY RestartIsReal
  <2>3. SkipAhead /\ heard # Nothing => next' > heard.seq
    <3> SUFFICES ASSUME SkipAhead, heard # Nothing PROVE next' > heard.seq
      OBVIOUS
    <3>1. Head(buffer).seq > next
      BY DEF SkipAhead
    <3>2. Head(buffer).seq # next
      BY <1>2, <2>1, <3>1
    <3>3. next = heard.seq + Step
      BY <2>1, <3>2 DEF Expected
    <3>4. heard.seq \in Nat /\ Step \in Nat
      BY SoundTypes, ReceiveAssumption, Found DEF JitterTypes, Sounds
    <3> DEFINE s == Head(buffer).seq
    <3>5. s > next /\ s \in Nat /\ next' = s
      BY <1>1, <1>2, <3>1
    <3> HIDE DEF s
    <3> QED BY <3>3, <3>4, <3>5
  <2>4. phase = "started"
    BY <1>1, <2>1 DEF Expected
  <2>5. heard # Nothing => next' > heard.seq \/ heard.epoch < talker.epoch
    BY <2>2, <2>3
  <2>6. \A i, j \in DOMAIN buffer : i < j => buffer[i].seq < buffer[j].seq
    BY <2>1 DEF Expected
  <2> QED BY <1>1, <2>1, <2>4, <2>5, <2>6 DEF Expected
<1> QED BY <1>1, <1>2, <1>3, JitterFrame, Found DEF Jitter, JitterTypes

LEMMA EndKeeps ==
  ASSUME ReceiveInv, Drained \/ StartClosing \/ End
  PROVE  ReceiveInv'
<1>1. /\ UNCHANGED <<channel, phase, buffer, heard, next>>
      /\ \/ at = "drain" /\ buffer = <<>> /\ at' = "wait"
         \/ at = "wait" /\ at' = "closing"
         \/ at = "closing" /\ at' = "ended"
  BY DEF Drained, StartClosing, End, history
<1>2. Expected'
  <2>1. Expected /\ talker' = talker
    BY Found, JitterSteps DEF Jitter
  <2>2. CASE at = "drain" /\ buffer = <<>> /\ at' = "wait"
    BY <1>1, <2>1, <2>2 DEF Expected
  <2>3. CASE at = "wait" /\ at' = "closing"
    <3>1. DOMAIN <<>> = {}
      OBVIOUS
    <3>2. heard # Nothing => buffer = <<>> /\ next = heard.seq + Step
      BY <2>1, <2>3 DEF Expected
    <3> QED BY <1>1, <2>1, <2>3, <3>1, <3>2 DEF Expected
  <2>4. CASE at = "closing" /\ at' = "ended"
    BY <1>1, <2>1, <2>4 DEF Expected
  <2> QED BY <1>1, <2>2, <2>3, <2>4
<1> QED BY <1>1, <1>2, JitterFrame, Found DEF Jitter, JitterTypes

LEMMA JitterKeeps ==
  ASSUME ReceiveInv, Jitter
  PROVE  ReceiveInv'
BY TakeKeeps, KeepKeeps, PlayKeeps, DiscardKeeps, MoveKeeps, EndKeeps DEF Jitter

-----------------------------------------------------------------------------
(* The reader                                                              *)

\* The multiples of s below g that do not reach its last step.
LEMMA Multiples ==
  ASSUME NEW s \in Nat \ {0}, NEW g \in Nat, NEW i \in 1 .. g \div s - 1
  PROVE  s <= i * s /\ i * s + s <= g /\ i * s \in Nat
<1>1. g \div s \in Nat /\ g = s * (g \div s) + (g % s) /\ g % s \in Nat
  OBVIOUS
<1> DEFINE q == g \div s
<1>2. PICK d \in Nat : q = (i + 1) + d
  <2>1. q - (i + 1) \in Nat /\ q = (i + 1) + (q - (i + 1))
    BY <1>1
  <2> QED BY <2>1
<1>3. PICK e \in Nat : i = 1 + e
  <2>1. i - 1 \in Nat /\ i = 1 + (i - 1)
    BY <1>1
  <2> QED BY <2>1
<1> HIDE DEF q
<1>4. s * q = i * s + s + d * s /\ d * s \in Nat /\ i * s \in Nat
  BY <1>2, <1>3
<1>5. i * s = s + e * s /\ e * s \in Nat
  BY <1>3
<1>6. i * s + s <= g
  <2> DEFINE a == i * s
             b == d * s
             c == s * q
             r == g % s
  <2>1. g = c + r /\ r \in Nat /\ c = a + s + b /\ a \in Nat /\ b \in Nat /\ s \in Nat
    BY <1>1, <1>4 DEF q
  <2> HIDE DEF a, b, c, r
  <2>2. a + s <= g
    BY <2>1
  <2> QED BY <2>2 DEF a
<1>7. s <= i * s
  <2> DEFINE a == i * s
             b == e * s
  <2>1. a = s + b /\ b \in Nat /\ s \in Nat
    BY <1>5
  <2> HIDE DEF a, b
  <2>2. s <= a
    BY <2>1
  <2> QED BY <2>2 DEF a
<1> QED BY <1>4, <1>6, <1>7

LEMMA MultiplesGrow ==
  ASSUME NEW s \in Nat, NEW i \in Nat, NEW j \in Nat, i < j
  PROVE  i * s <= j * s
<1>1. PICK d \in Nat : j = i + d
  <2>1. j - i \in Nat /\ j = i + (j - i)
    OBVIOUS
  <2> QED BY <2>1
<1>2. j * s = i * s + d * s /\ d * s \in Nat /\ i * s \in Nat
  BY <1>1
<1> QED BY <1>2

\* The frames concealed lie between the last packet of the user and p.
LEMMA Concealed ==
  ASSUME ReceiveInv, NEW p \in network, NEW path \in Paths, NEW frames \in {Missing(p, path), <<>>}
  PROVE  /\ frames \in Seq(Nat)
         /\ \A i \in DOMAIN frames :
              /\ user.valid /\ user.seq + 1 <= frames[i] /\ frames[i] <= p.seq
              /\ path = "dispatchOpus15" => frames[i] + Step <= user.seq + ResyncJump
         /\ \A i, j \in DOMAIN frames : i < j => frames[i] <= frames[j]
<1>1. user.seq \in Nat /\ user.step \in {0, Step} /\ p.seq \in Nat /\ Step \in Nat \ {0} /\ ResyncJump \in Nat
  <2>1. p \in Wire /\ user \in [valid : BOOLEAN, seq : Nat, step : {0, Step}]
    BY DEF ReceiveInv, NetworkOK, JitterTypes
  <2> QED BY <2>1, ReceiveAssumption DEF Wire
<1>2. CASE frames = <<>>
  BY <1>2
<1>3. CASE frames # <<>> /\ path = "dispatchOpus15"
  <2> DEFINE s == ConcealStep
             g == Gap(p)
             n == g \div s - 1
  <2>1. /\ frames = [i \in 1 .. n |-> user.seq + i * s]
        /\ user.valid /\ g > s /\ g < ResyncJump /\ g = p.seq - user.seq
    <3>1. frames = Missing15(p)
      BY <1>3 DEF Missing
    <3>2. Missing15(p) = IF user.valid /\ g > s /\ g < ResyncJump /\ g % s = 0
                         THEN [i \in 1 .. n |-> user.seq + i * s] ELSE <<>>
      BY DEF Missing15, ConcealStep
    <3>3. g = p.seq - user.seq
      BY DEF Gap
    <3> HIDE DEF s, g, n
    <3> QED BY <1>3, <3>1, <3>2, <3>3
  <2>2. s \in Nat \ {0} /\ Step <= s + 1
    <3>1. s \in Nat \ {0}
      BY <1>1 DEF ConcealStep
    <3>2. Step <= s + 1
      BY <1>3, <2>1 DEF ReceiveInv, StepKnown
    <3> QED BY <3>1, <3>2
  <2> HIDE DEF s
  <2> HIDE DEF g
  <2>10. g > s /\ g < ResyncJump /\ g = p.seq - user.seq
    BY <2>1
  <2> DEFINE u == user.seq
             v == p.seq
  <2>11. u \in Nat /\ v \in Nat /\ g = v - u /\ g > s /\ g < ResyncJump /\ ResyncJump \in Nat /\ Step \in Nat
    BY <1>1, <2>10
  <2> HIDE DEF u, v
  <2>3. g \in Nat
    BY <2>11, <2>2
  <2>4. n \in Int
    BY <2>2, <2>3
  <2>5. ASSUME NEW i \in 1 .. n
        PROVE  /\ i * s \in Nat /\ user.seq + i * s \in Nat
               /\ user.seq + 1 <= user.seq + i * s /\ user.seq + i * s <= p.seq
               /\ user.seq + i * s + Step <= user.seq + ResyncJump
    <3>1. s <= i * s /\ i * s + s <= g /\ i * s \in Nat
      BY <2>2, <2>3, Multiples
    <3> DEFINE a == i * s
    <3>2. s <= a /\ a + s <= g /\ a \in Nat
      BY <3>1
    <3> HIDE DEF a, n
    <3>3. /\ user.seq + a \in Nat /\ user.seq + 1 <= user.seq + a /\ user.seq + a <= p.seq
          /\ user.seq + a + Step <= user.seq + ResyncJump
      <4>1. /\ u + a \in Nat /\ u + 1 <= u + a /\ u + a <= v
            /\ u + a + Step <= u + ResyncJump
        BY <2>2, <2>3, <2>11, <3>2
      <4> QED BY <4>1 DEF u, v
    <3> QED BY <3>2, <3>3 DEF a
  <2>6. ASSUME NEW i \in 1 .. n, NEW j \in 1 .. n, i < j
        PROVE  user.seq + i * s <= user.seq + j * s
    <3>1. i \in Nat /\ j \in Nat
      BY <2>4
    <3>2. i * s <= j * s
      BY <2>2, <2>6, <3>1, MultiplesGrow
    <3> DEFINE a == i * s
               b == j * s
    <3>3. a <= b /\ a \in Nat /\ b \in Nat
      BY <2>5, <3>2
    <3> HIDE DEF a, b
    <3>4. user.seq + a <= user.seq + b
      BY <1>1, <3>3
    <3> QED BY <3>4 DEF a, b
  <2> DEFINE F(i) == user.seq + i * s
  <2>7. /\ \A i \in 1 .. n : /\ F(i) \in Nat /\ user.seq + 1 <= F(i) /\ F(i) <= p.seq
                             /\ F(i) + Step <= user.seq + ResyncJump
        /\ \A i, j \in 1 .. n : i < j => F(i) <= F(j)
        /\ frames = [i \in 1 .. n |-> F(i)]
    BY <2>1, <2>5, <2>6
  <2>8. frames \in Seq(Nat)
    <3>1. n \in Nat \/ 1 .. n = {}
      BY <2>4
    <3> HIDE DEF F, n
    <3>2. CASE n \in Nat
      BY <2>7, <3>2
    <3>3. CASE 1 .. n = {}
      <4>1. frames = <<>>
        BY <2>7, <3>3
      <4> QED BY <1>3, <4>1
    <3> QED BY <3>1, <3>2, <3>3
  <2> HIDE DEF F, n
  <2>9. DOMAIN frames = 1 .. n /\ \A i \in 1 .. n : frames[i] = F(i)
    BY <2>7
  <2> QED BY <2>1, <2>7, <2>8, <2>9
<1>4. CASE frames # <<>> /\ path # "dispatchOpus15"
  <2> DEFINE g == Gap(p)
  <2>1. /\ frames = [i \in 1 .. g - 1 |-> user.seq + i]
        /\ user.valid /\ g > 1 /\ g < ResyncJump /\ g = p.seq - user.seq
    BY <1>4 DEF Missing, MissingTunnel, Gap
  <2>2. g - 1 \in Nat
    BY <1>1, <2>1
  <2> HIDE DEF g
  <2>3. \A i \in 1 .. g - 1 : /\ user.seq + i \in Nat /\ user.seq + 1 <= user.seq + i
                              /\ user.seq + i <= p.seq
    <3> DEFINE u == user.seq
               v == p.seq
    <3>1. u \in Nat /\ v \in Nat /\ g = v - u
      BY <1>1, <2>1
    <3> HIDE DEF u, v
    <3>2. \A i \in 1 .. g - 1 : u + i \in Nat /\ u + 1 <= u + i /\ u + i <= v
      BY <2>2, <3>1
    <3> QED BY <3>2 DEF u, v
  <2>4. \A i, j \in 1 .. g - 1 : i < j => user.seq + i <= user.seq + j
    BY <1>1, <2>2
  <2>5. frames \in Seq(Nat) /\ DOMAIN frames = 1 .. g - 1 /\ \A i \in 1 .. g - 1 : frames[i] = user.seq + i
    BY <2>1, <2>2, <2>3
  <2> QED BY <1>4, <2>1, <2>3, <2>4, <2>5
<1> QED BY <1>2, <1>3, <1>4

-----------------------------------------------------------------------------
(* The reader                                                              *)

\* What one packet gives the reader to hand on.
Lies(p, x) ==
  /\ x \in Sound /\ x.epoch = p.epoch /\ x.seq <= p.seq
  /\ x.seq = p.seq \/ (user.valid /\ user.seq + 1 <= x.seq)
  /\ x.kind = "plc" \/ (x.id = p.id /\ x.seq = p.seq)

Burst(p, o) ==
  /\ o \in Seq(Sounds)
  /\ \A i \in DOMAIN o : o[i] = Terminator \/ Lies(p, o[i])
  /\ \A i, j \in DOMAIN o : i < j => o[j] = Terminator \/ o[i].seq <= o[j].seq

LEMMA EmptyBurst ==
  ASSUME NEW p
  PROVE  Burst(p, <<>>) /\ Burst(p, <<Terminator>>)
BY DEF Burst, Sounds

LEMMA LongerBurst ==
  ASSUME NEW p \in Wire, NEW o, NEW e \in Sounds, Burst(p, o),
         e = Terminator \/ (Lies(p, e) /\ e.seq = p.seq)
  PROVE  Burst(p, o \o <<e>>)
<1> DEFINE t == Append(o, e)
<1>1. o \in Seq(Sounds) /\ Len(o) \in Nat /\ DOMAIN o = 1 .. Len(o)
  BY DEF Burst
<1>2. /\ t \in Seq(Sounds) /\ DOMAIN t = 1 .. Len(o) + 1
      /\ \A i \in 1 .. Len(o) : t[i] = o[i]
      /\ t[Len(o) + 1] = e
  <2>1. t \in Seq(Sounds) /\ Len(t) = Len(o) + 1
    BY <1>1
  <2> QED BY <1>1, <2>1, AppendProperties
<1>3. o \o <<e>> = t
  BY <1>1
<1> DEFINE n == Len(o)
<1>4. /\ n \in Nat /\ DOMAIN o = 1 .. n /\ DOMAIN t = 1 .. n + 1
      /\ \A i \in 1 .. n : t[i] = o[i]
      /\ t[n + 1] = e
  BY <1>1, <1>2
<1>5. \A i \in 1 .. n : o[i] = Terminator \/ Lies(p, o[i])
  BY <1>4 DEF Burst
<1> HIDE DEF t, n
<1>6. \A i \in DOMAIN t : t[i] = Terminator \/ Lies(p, t[i])
  BY <1>4, <1>5
<1>7. ASSUME NEW i \in DOMAIN t, NEW j \in DOMAIN t, i < j
      PROVE  t[j] = Terminator \/ t[i].seq <= t[j].seq
  <2>1. i \in 1 .. n /\ t[i] = o[i]
    BY <1>4, <1>7
  <2>2. CASE j = n + 1
    <3>1. t[j] = e
      BY <1>4, <2>2
    <3>2. t[i] = Terminator \/ Lies(p, t[i])
      BY <1>5, <2>1
    <3>3. Terminator.seq = 0 /\ p.seq \in Nat
      BY DEF Terminator, Nothing, Wire
    <3> QED BY <3>1, <3>2, <3>3 DEF Lies
  <2>3. CASE j # n + 1
    <3>1. j \in 1 .. n /\ t[j] = o[j]
      BY <1>4, <2>3
    <3> QED BY <1>4, <1>7, <2>1, <3>1 DEF Burst
  <2> QED BY <2>2, <2>3
<1> QED BY <1>2, <1>3, <1>6, <1>7 DEF Burst, t

\* Whatever is concealed before it.
LEMMA GivesBurst ==
  ASSUME ReceiveInv, NEW p \in network, NEW path \in Paths, NEW frames \in {Missing(p, path), <<>>}
  PROVE  /\ Burst(p, Conceal(p, frames))
         /\ Burst(p, Conceal(p, frames) \o Voice(p) \o Ending(p))
         /\ path = "dispatchOpus15" =>
              \A x \in Range(Conceal(p, frames)) : x.seq + Step <= user.seq + ResyncJump
<1> DEFINE c == Conceal(p, frames)
           Plc(i) == [kind |-> "plc", id |-> 0, epoch |-> p.epoch, seq |-> frames[i]]
<1>1. p \in Wire /\ p.seq \in Nat /\ p.epoch \in Nat \ {0}
  BY DEF ReceiveInv, NetworkOK, Wire
<1>2. /\ frames \in Seq(Nat)
      /\ \A i \in DOMAIN frames :
           /\ user.valid /\ user.seq + 1 <= frames[i] /\ frames[i] <= p.seq
           /\ path = "dispatchOpus15" => frames[i] + Step <= user.seq + ResyncJump
      /\ \A i, j \in DOMAIN frames : i < j => frames[i] <= frames[j]
  BY Concealed
<1>3. c = [i \in DOMAIN frames |-> Plc(i)]
  BY DEF Conceal
<1>4. DOMAIN frames = 1 .. Len(frames) /\ Len(frames) \in Nat /\ \A i \in DOMAIN frames : frames[i] \in Nat
  BY <1>2
<1>5. \A i \in DOMAIN frames : Plc(i) \in Sound /\ Plc(i).seq = frames[i] /\ Plc(i).epoch = p.epoch /\ Plc(i).kind = "plc"
  BY <1>1, <1>4 DEF Sound
<1> HIDE DEF Plc
<1>6. c \in Seq(Sounds) /\ DOMAIN c = DOMAIN frames /\ \A i \in DOMAIN frames : c[i] = Plc(i)
  BY <1>3, <1>4, <1>5 DEF Sounds
<1> HIDE DEF c
<1>7. \A i \in DOMAIN c : Lies(p, c[i])
  BY <1>2, <1>5, <1>6 DEF Lies
<1>8. Burst(p, c)
  BY <1>2, <1>5, <1>6, <1>7 DEF Burst
<1>9. path = "dispatchOpus15" => \A x \in Range(c) : x.seq + Step <= user.seq + ResyncJump
  BY <1>2, <1>5, <1>6 DEF Range
<1> DEFINE v == [p EXCEPT !.kind = "voice"]
<1>10. v \in Sound /\ v.seq = p.seq /\ v.epoch = p.epoch /\ v.id = p.id
  BY <1>1 DEF Wire, Sound
<1>11. Burst(p, c \o <<v>>)
  <2>1. Lies(p, v) /\ v \in Sounds
    BY <1>1, <1>10 DEF Lies, Sounds
  <2> HIDE DEF v
  <2> QED BY <1>1, <1>8, <1>10, <2>1, LongerBurst
<1>12. Burst(p, c \o <<v>> \o Ending(p))
  <2> HIDE DEF v
  <2> DEFINE d == c \o <<v>>
  <2>1. Burst(p, d) /\ d \in Seq(Sounds)
    BY <1>11 DEF Burst
  <2> HIDE DEF d
  <2>2. Burst(p, d \o Ending(p))
    <3>1. CASE Ending(p) = <<>>
      <4>1. d \o <<>> = d
        BY <2>1
      <4> QED BY <2>1, <3>1, <4>1
    <3>2. CASE Ending(p) = <<Terminator>>
      <4>1. Terminator \in Sounds
        BY DEF Sounds
      <4> QED BY <1>1, <2>1, <3>2, <4>1, LongerBurst
    <3> QED BY <3>1, <3>2 DEF Ending
  <2> QED BY <2>2 DEF d
<1>13. Voice(p) = <<v>>
  BY DEF Voice
<1> QED BY <1>8, <1>9, <1>12, <1>13 DEF c

\* The two decoding paths agree on how far apart frame numbers are where both tell.
PathsAgree == Step <= 2 \/ "dispatchOpus15" \notin Paths \/ "handleUDPTunnel" \notin Paths

LEMMA NearLater ==
  ASSUME NEW x, NEW s \in Nat, NEW t \in Nat, x.seq \in Nat, s <= t, Near(x, s)
  PROVE  Near(x, t)
<1>1. Step \in Nat /\ ResyncJump \in Nat
  BY ReceiveAssumption
<1> QED BY <1>1 DEF Near

\* A packet that comes keeps the invariant, whichever path decodes it.
LEMMA BurstKeeps ==
  ASSUME ReceiveInv, NEW p \in network, out = <<>>, Burst(p, out'),
         UNCHANGED <<talker, channel, buffer, heard, next, at, phase>>,
         network' \subseteq network, user' \in [valid : BOOLEAN, seq : Nat, step : {0, Step}],
         StepKnown',
         user'.valid => \/ user'.seq = p.seq
                        \/ /\ user' = user
                           /\ \A x \in Range(out') : x.seq + Step <= user.seq + ResyncJump
  PROVE  ReceiveInv'
<1>1. NetworkOK /\ JitterTypes /\ AllKnown /\ InOrder /\ UserNear /\ Expected
  BY DEF ReceiveInv
<1>2. /\ p.seq \in Nat /\ p.epoch \in Nat \ {0} /\ user.seq \in Nat /\ user'.seq \in Nat
      /\ talker.epoch \in Nat \ {0} /\ talker.frame \in Nat
  BY <1>1 DEF NetworkOK, JitterTypes, Wire
<1>3. Step \in Nat /\ ResyncJump \in Nat
  BY ReceiveAssumption
<1>4. NetworkOK'
  BY <1>1, OthersKeepNetwork
<1>5. out' \in Seq(Sounds) /\ \A x \in Range(out') : x \in Sounds /\ (x = Terminator \/ Lies(p, x))
  BY DEF Burst, Range
<1>6. JitterTypes'
  BY <1>1, <1>5 DEF JitterTypes
<1>7. Items' = Items \cup Range(out') /\ Items \subseteq Sounds \cup {Nothing}
  <2>1. Range(out) = {}
    BY DEF Range
  <2> QED BY <1>1, <2>1, ItemTypes DEF Items
<1>8. \A x \in Range(out') : Known(x)
  <2>1. Known(p)
    BY <1>1 DEF NetworkOK, Known, Current
  <2>2. SUFFICES ASSUME NEW x \in Range(out') PROVE Known(x)
    OBVIOUS
  <2>3. CASE x = Terminator
    BY <1>2, <2>3, SoundTypes DEF Known, Current
  <2>4. CASE Lies(p, x)
    <3>1. x.seq \in Nat
      BY <1>5, SoundTypes
    <3> QED BY <1>2, <1>3, <2>1, <2>4, <3>1 DEF Lies, Known, Current
  <2> QED BY <1>5, <2>3, <2>4
<1>9. AllKnown'
  <2>1. \A x \in Items' : Known(x)
    BY <1>1, <1>7, <1>8 DEF AllKnown
  <2> QED BY <2>1 DEF AllKnown, Known, Current
<1>10. ASSUME NEW x \in Items PROVE Follows(x, out') /\ Near(x, p.seq)
  <2>1. x \in Sounds \cup {Nothing} /\ Known(x) /\ x.seq \in Nat
    BY <1>1, <1>7, SoundTypes DEF AllKnown
  <2>2. Near(x, p.seq)
    BY <1>1, <2>1, NearNetwork
  <2>3. ASSUME NEW y \in Range(out'), y # Terminator
        PROVE  Near(x, y.seq)
    <3>1. Lies(p, y) /\ y.seq \in Nat
      BY <1>5, <2>3, SoundTypes
    <3>2. CASE y.seq = p.seq
      BY <2>2, <3>2
    <3>3. CASE user.valid /\ user.seq + 1 <= y.seq
      <4>1. Near(x, user.seq + 1)
        BY <1>1, <3>3 DEF UserNear
      <4>2. user.seq + 1 \in Nat
        BY <1>2
      <4> QED BY <2>1, <3>1, <3>3, <4>1, <4>2, NearLater
    <3> QED BY <3>1, <3>2, <3>3 DEF Lies
  <2> QED BY <2>2, <2>3 DEF Follows
<1>11. Ordered(out')
  <2>1. SUFFICES ASSUME NEW i \in DOMAIN out', NEW j \in DOMAIN out', i < j, out'[j] # Terminator
                 PROVE  Near(out'[i], out'[j].seq)
    BY DEF Ordered
  <2>2. out'[i] \in Sounds /\ out'[j] \in Sounds
    BY <1>5, <2>1
  <2>3. out'[i].seq \in Nat /\ out'[j].seq \in Nat
    BY <2>2, SoundTypes
  <2>4. out'[i].seq <= out'[j].seq
    BY <2>1 DEF Burst
  <2> QED BY <2>3, <2>4, LaterIsNear
<1>12. OrderOf(heard', buffer', channel', out')
  <2>1. heard \in Items /\ Range(buffer) \subseteq Items /\ Range(channel) \subseteq Items
    BY DEF Items
  <2>2. /\ Ordered(channel) /\ Follows(heard, buffer)
        /\ \A x \in {heard} \cup Range(buffer) : Follows(x, channel)
    BY <1>1 DEF InOrder, OrderOf
  <2> QED BY <1>10, <1>11, <2>1, <2>2 DEF OrderOf
<1>13. InOrder'
  BY <1>12, OrderKept
<1>14. user'.valid => \A x \in Items' : Near(x, user'.seq + 1)
  <2>1. SUFFICES ASSUME user'.valid, NEW x \in Items' PROVE Near(x, user'.seq + 1)
    OBVIOUS
  <2>2. x.seq \in Nat /\ user'.seq + 1 \in Nat
    <3>1. x \in Sounds \cup {Nothing}
      BY <1>5, <1>7
    <3> QED BY <1>2, <3>1, SoundTypes
  <2>3. CASE user'.seq = p.seq
    <3>1. CASE x \in Items
      <4>1. Near(x, p.seq)
        BY <1>10, <3>1
      <4>2. p.seq <= user'.seq + 1
        BY <1>2, <2>3
      <4> QED BY <1>2, <2>2, <4>1, <4>2, NearLater
    <3>2. CASE x \in Range(out')
      <4>1. x.seq <= p.seq
        <5>1. x = Terminator \/ Lies(p, x)
          BY <1>5, <3>2
        <5> QED BY <1>2, <5>1, SoundTypes DEF Lies, Terminator, Nothing
      <4>2. x.seq <= user'.seq + 1
        BY <1>2, <2>2, <2>3, <4>1
      <4> QED BY <2>2, <4>2, LaterIsNear
    <3> QED BY <1>7, <3>1, <3>2
  <2>4. CASE user' = user /\ \A y \in Range(out') : y.seq + Step <= user.seq + ResyncJump
    <3>1. CASE x \in Items
      BY <1>1, <2>1, <2>4, <3>1 DEF UserNear
    <3>2. CASE x \in Range(out')
      BY <1>2, <1>3, <2>2, <2>4, <3>2 DEF Near
    <3> QED BY <1>7, <3>1, <3>2
  <2> QED BY <2>1, <2>3, <2>4
<1>15. UserNear'
  BY <1>14 DEF UserNear, Near, Current
<1>16. Expected'
  BY <1>1 DEF Expected
<1> QED BY <1>4, <1>6, <1>9, <1>13, <1>15, <1>16 DEF ReceiveInv

LEMMA ComesFrame ==
  ASSUME NEW p \in network, Comes(p)
  PROVE  /\ UNCHANGED <<talker, channel, buffer, heard, next, at, phase>>
         /\ network' \subseteq network /\ out = <<>>
BY DEF Comes, jitter, history

LEMMA ArriveGives ==
  ASSUME ReceiveInv, NEW p \in network, NEW path \in Paths, Arrive(p, path)
  PROVE  /\ UNCHANGED <<talker, channel, buffer, heard, next, at, phase, lateRun, silence>>
         /\ network' \subseteq network
         /\ \A x \in Range(out') : x \in Range(out) \/ x = Terminator \/ Lies(p, x)
<1>1. Comes(p)
  BY DEF Arrive, EndOfBurst, Repeated, Decoded, Undecodable
<1>2. out' = out \/ Burst(p, out')
  <2>1. CASE EndOfBurst(p) \/ Repeated(p)
    BY <2>1, EmptyBurst DEF EndOfBurst, Repeated
  <2>2. CASE Decoded(p, path) \/ Undecodable(p, path)
    BY <2>2, GivesBurst DEF Decoded, Undecodable
  <2> QED BY <2>1, <2>2 DEF Arrive
<1>3. Burst(p, out') => \A x \in Range(out') : x = Terminator \/ Lies(p, x)
  BY DEF Burst, Range
<1> QED BY <1>1, <1>2, <1>3 DEF Comes, jitter, history

LEMMA ArriveKeeps ==
  ASSUME PathsAgree, ReceiveInv, NEW p \in network, NEW path \in Paths, Arrive(p, path)
  PROVE  ReceiveInv'
<1>1. /\ p.seq \in Nat /\ Step \in Nat \ {0}
      /\ user \in [valid : BOOLEAN, seq : Nat, step : {0, Step}] /\ StepKnown
  BY ReceiveAssumption DEF ReceiveInv, NetworkOK, JitterTypes, Wire
<1>2. CASE EndOfBurst(p)
  <2>1. Comes(p) /\ user' = [user EXCEPT !.valid = FALSE, !.step = 0] /\ out' = <<Terminator>>
    BY <1>2 DEF EndOfBurst
  <2>2. user' \in [valid : BOOLEAN, seq : Nat, step : {0, Step}] /\ ~user'.valid
    BY <1>1, <2>1
  <2>3. StepKnown'
    BY <2>2 DEF StepKnown
  <2>4. Burst(p, out')
    BY <2>1, EmptyBurst
  <2> QED BY <2>1, <2>2, <2>3, <2>4, ComesFrame, BurstKeeps
<1>3. CASE Repeated(p)
  <2>1. Comes(p) /\ UNCHANGED <<user, out>>
    BY <1>3 DEF Repeated
  <2> QED BY <2>1, ComesFrame, QuietKeeps
<1>4. CASE Decoded(p, path)
  <2>1. Comes(p) /\ user' = Forget(p)
    BY <1>4 DEF Decoded
  <2>2. Burst(p, out')
    BY <1>4, GivesBurst DEF Decoded
  <2>3. /\ user' \in [valid : BOOLEAN, seq : Nat, step : {0, Step}]
        /\ user'.seq = p.seq /\ (user'.valid => user'.step = Step)
    BY <1>1, <2>1 DEF Forget
  <2>4. StepKnown'
    BY <1>1, <2>3 DEF StepKnown, ConcealStep
  <2> QED BY <2>1, <2>2, <2>3, <2>4, ComesFrame, BurstKeeps
<1>5. CASE Undecodable(p, path) /\ path = "dispatchOpus15"
  <2>1. Comes(p) /\ user' = user
    BY <1>5 DEF Undecodable
  <2>2. Burst(p, out') /\ \A x \in Range(out') : x.seq + Step <= user.seq + ResyncJump
    BY <1>5, GivesBurst DEF Undecodable
  <2>3. StepKnown'
    BY <1>1, <2>1 DEF StepKnown, ConcealStep
  <2> QED BY <1>1, <2>1, <2>2, <2>3, ComesFrame, BurstKeeps
<1>6. CASE Undecodable(p, path) /\ path # "dispatchOpus15"
  <2>1. Comes(p) /\ user' = [user EXCEPT !.valid = TRUE, !.seq = p.seq]
    BY <1>6 DEF Undecodable
  <2>2. Burst(p, out')
    BY <1>6, GivesBurst DEF Undecodable
  <2>3. /\ user' \in [valid : BOOLEAN, seq : Nat, step : {0, Step}]
        /\ user'.seq = p.seq /\ user'.step = user.step
    BY <1>1, <2>1
  <2>4. "handleUDPTunnel" \in Paths
    BY <1>6, ReceiveAssumption
  <2>5. StepKnown'
    <3>1. "dispatchOpus15" \in Paths => Step <= 2
      BY <2>4 DEF PathsAgree
    <3>2. ConcealStep' = ConcealStep /\ ConcealStep \in Nat \ {0}
      BY <1>1, <2>3 DEF ConcealStep
    <3>3. "dispatchOpus15" \in Paths => Step <= ConcealStep + 1
      BY <1>1, <3>1, <3>2
    <3> HIDE DEF ConcealStep
    <3> QED BY <3>2, <3>3 DEF StepKnown
  <2> QED BY <2>1, <2>2, <2>3, <2>5, ComesFrame, BurstKeeps
<1> QED BY <1>2, <1>3, <1>4, <1>5, <1>6 DEF Arrive

-----------------------------------------------------------------------------
(* The theorems                                                            *)

LEMMA ReceiveStarts ==
  ASSUME ReceiveInit
  PROVE  ReceiveInv
<1>1. PICK f \in FirstFrames : talker = [sent |-> 0, epoch |-> 1, frame |-> f]
  BY DEF ReceiveInit
<1>2. /\ network = {} /\ user = [valid |-> FALSE, seq |-> 0, step |-> 0]
      /\ out = <<>> /\ channel = <<>> /\ buffer = <<>> /\ heard = Nothing /\ next = 0
      /\ at = "wait" /\ phase = "empty"
  BY DEF ReceiveInit
<1>3. NetworkOK
  BY <1>1, <1>2, ReceiveAssumption DEF NetworkOK
<1>4. JitterTypes
  BY <1>2 DEF JitterTypes
<1>5. Items = {Nothing}
  BY <1>2 DEF Items, Range
<1>6. AllKnown
  BY <1>3, <1>5, NothingBefore DEF AllKnown
<1>7. InOrder
  BY <1>2, <1>3, NothingBefore DEF InOrder, OrderOf, Ordered, Range
<1>8. UserNear /\ StepKnown /\ Expected
  BY <1>2 DEF UserNear, StepKnown, Expected
<1> QED BY <1>3, <1>4, <1>6, <1>7, <1>8 DEF ReceiveInv

LEMMA ReceiveKeeps ==
  ASSUME PathsAgree, ReceiveInv, [ReceiveNext]_receiveVars
  PROVE  ReceiveInv'
<1>1. CASE (\E k \in Kinds : Talk(k)) \/ Renumber
  BY <1>1, TalkerKeeps
<1>2. CASE \E p \in network, path \in Paths : Arrive(p, path)
  BY <1>2, ArriveKeeps
<1>3. CASE Dispatch
  BY <1>3, DispatchKeeps
<1>4. CASE Close \/ Mute
  <2>1. UNCHANGED <<talker, network, user, out, channel, buffer, heard, next, at, phase>>
    BY <1>4 DEF Close, Mute, network_, reader, jitter, history
  <2> QED BY <2>1, QuietKeeps
<1>5. CASE Jitter
  BY <1>5, JitterKeeps
<1>6. CASE Done \/ UNCHANGED receiveVars
  BY <1>6, QuietKeeps DEF Done, receiveVars
<1> QED BY <1>1, <1>2, <1>3, <1>4, <1>5, <1>6 DEF ReceiveNext

\* What is heard is heard in the order it was spoken: what is played is the frame
\* that is expected, and that is later than the last unless the talker restarted.
LEMMA HeardLater ==
  ASSUME ReceiveInv, [ReceiveNext]_receiveVars, heard' # heard,
         heard'.epoch = heard.epoch, heard.epoch = talker.epoch
  PROVE  heard'.seq > heard.seq
<1>1. JitterTypes /\ Expected /\ talker.epoch \in Nat \ {0} /\ Step \in Nat \ {0}
  BY Found, ReceiveAssumption
<1>2. heard # Nothing /\ heard.seq \in Nat /\ heard'.epoch # 0
  <2>1. heard.epoch \in Nat \ {0}
    BY <1>1
  <2>2. heard # Nothing
    BY <2>1, SoundTypes
  <2>3. heard.seq \in Nat
    BY <1>1, <2>2 DEF JitterTypes, Sound
  <2> QED BY <2>1, <2>2, <2>3
<1>3. heard' # Nothing
  BY <1>2, SoundTypes
<1>4. PlayNext \/ PlayRest
  <2>1. CASE (\E k \in Kinds : Talk(k)) \/ Renumber \/ Dispatch \/ Close \/ Mute
    BY <2>1 DEF Talk, Renumber, Dispatch, Close, Mute, history
  <2>2. CASE \E q \in network, path \in Paths : Arrive(q, path)
    BY <2>2 DEF Arrive, EndOfBurst, Repeated, Decoded, Undecodable, Comes, history
  <2>3. CASE Jitter
    BY <1>3, <2>3 DEF Jitter, HearTerminator, SkipMuted, Keep, Resync, DiscardLate, SkipAhead,
       Drained, StartClosing, End, history
  <2>4. CASE Done \/ UNCHANGED receiveVars
    BY <2>4 DEF Done, receiveVars
  <2> QED BY <2>1, <2>2, <2>3, <2>4 DEF ReceiveNext
<1> DEFINE p == Head(buffer)
<1>5. heard' = p /\ buffer # <<>> /\ p \in Sound /\ p = buffer[1] /\ 1 \in DOMAIN buffer
  <2>1. heard' = p /\ buffer # <<>>
    BY <1>4 DEF PlayNext, PlayRest, Draining
  <2> QED BY <1>1, <2>1, Heads DEF JitterTypes
<1>6. p.seq \in Nat
  BY <1>5 DEF Sound
<1>7. CASE PlayNext
  <2>1. p.seq = next /\ at = "drain"
    BY <1>7 DEF PlayNext, Draining
  <2>2. next = heard.seq + Step \/ next > heard.seq
    BY <1>1, <1>2 DEF Expected
  <2> QED BY <1>1, <1>2, <1>5, <1>6, <2>1, <2>2
<1>8. CASE PlayRest
  <2>1. at = "closing"
    BY <1>8 DEF PlayRest
  <2> QED BY <1>1, <1>2, <1>5, <1>6, <2>1 DEF Expected
<1> QED BY <1>4, <1>7, <1>8

\* Whatever is lost, overtaken or concealed, a talker who keeps his numbering is heard
\* in the order he spoke and nothing of it twice (stream.go:570-571).
THEOREM VoiceInOrder == ASSUME PathsAgree PROVE ReceiveSpec => HeardInOrder
<1>1. ReceiveInit => ReceiveInv
  BY ReceiveStarts
<1>2. ReceiveInv /\ [ReceiveNext]_receiveVars => ReceiveInv'
  BY ReceiveKeeps
<1>3. ReceiveInv /\ [ReceiveNext]_receiveVars =>
        [heard' # heard /\ heard'.epoch = heard.epoch /\ heard.epoch = talker.epoch
         => heard'.seq > heard.seq]_receiveVars
  BY HeardLater
<1> QED BY <1>1, <1>2, <1>3, PTL DEF ReceiveSpec, HeardInOrder

\* The jitter buffer is rewound only for a talker who restarted his numbering after what
\* was heard last, however packets overtake each other (stream.go:62-65).
THEOREM RestartsAreReal == ASSUME PathsAgree PROVE ReceiveSpec => OnlyRestartsResync
<1>1. ReceiveInit => ReceiveInv
  BY ReceiveStarts
<1>2. ReceiveInv /\ [ReceiveNext]_receiveVars => ReceiveInv'
  BY ReceiveKeeps
<1>3. ReceiveInv /\ [ReceiveNext]_receiveVars =>
        [Resync => heard.epoch < talker.epoch]_receiveVars
  BY RestartIsReal
<1> QED BY <1>1, <1>2, <1>3, PTL DEF ReceiveSpec, OnlyRestartsResync

-----------------------------------------------------------------------------
(* What is received: how long nothing is heard                             *)

\* Where the talker stood when he sent the packet i of this numbering.
Place(i) == talker.frame - (talker.sent + 1 - i) * Step

Placed(x) == x.kind # "plc" /\ Current(x) => x.seq = Place(x.id)
AllPlaced == \A x \in network \cup Items : Placed(x)

\* All but the first few that were discarded are within a jump of what is expected.
Short(n) == \E A \in SUBSET silence :
  /\ Cardinality(A) <= LateResync - 1
  /\ \A i \in silence \ A : n - ResyncJump < Place(i) /\ Place(i) < n

\* The next packet of the buffer ends the silence.
Due == at = "drain" /\ buffer # <<>> /\ Head(buffer).seq = next

ShortInv ==
  /\ AllPlaced
  /\ IsFiniteSet(silence) /\ silence \subseteq Nat /\ lateRun \in Nat
  /\ phase = "empty" => silence = {}
  /\ \E n \in Int : Short(n) /\ ((n = next /\ Cardinality(silence) <= lateRun) \/ Due)

LEMMA ItemsOfDispatch ==
  ASSUME ReceiveInv, Dispatch
  PROVE  Items' \subseteq Items
<1> DEFINE e == Head(out)
<1>1. /\ out # <<>> /\ out' = Tail(out) /\ UNCHANGED <<buffer, heard>>
      /\ channel' = channel \/ channel' = Append(channel, e)
  BY DEF Dispatch, jitter, history
<1>2. out \in Seq(Sounds) /\ channel \in Seq(Sounds)
  BY DEF ReceiveInv, JitterTypes
<1>3. e \in Sounds /\ Range(out) = {e} \cup Range(out')
  BY <1>1, <1>2, Heads
<1>4. Range(channel') \subseteq Range(channel) \cup {e}
  <2>1. Range(Append(channel, e)) = Range(channel) \cup {e}
    BY <1>2, <1>3, Appends
  <2> QED BY <1>1, <2>1
<1> QED BY <1>1, <1>3, <1>4 DEF Items

LEMMA ItemsOfJitter ==
  ASSUME ReceiveInv, Jitter
  PROVE  Items' \subseteq Items \cup {Nothing}
<1>1. /\ UNCHANGED <<talker, network, user, out>>
      /\ channel' = channel \/ (channel # <<>> /\ channel' = Tail(channel))
  BY JitterSteps
<1>2. JitterTypes /\ channel \in Seq(Sounds) /\ buffer \in Seq(Sound) /\ Expected
  BY DEF ReceiveInv, JitterTypes
<1>3. Range(channel') \subseteq Range(channel)
  <2>1. channel # <<>> => Range(channel) = {Head(channel)} \cup Range(Tail(channel))
    BY <1>2, Heads
  <2> QED BY <1>1, <2>1
<1>4. buffer # <<>> => Range(buffer) = {Head(buffer)} \cup Range(Tail(buffer))
  BY <1>2, Heads
<1>5. CASE Keep
  <2> DEFINE p == Head(channel)
  <2>1. p \in Range(channel) /\ p \in Sounds /\ p # Terminator /\ Insert(p) /\ heard' = heard
    <3>1. channel # <<>> /\ p # Terminator /\ Insert(p) /\ heard' = heard
      BY <1>5 DEF Keep, Take, history
    <3> QED BY <1>2, <3>1, Heads
  <2>2. p \in Sound
    BY <2>1 DEF Sounds
  <2>3. Range(buffer') \subseteq Range(buffer) \cup {p}
    <3> HIDE DEF p
    <3>1. \A i, j \in DOMAIN buffer : i < j => buffer[i].seq < buffer[j].seq
      BY <1>2 DEF Expected
    <3> QED BY <1>2, <2>1, <2>2, <3>1, Inserted
  <2> QED BY <1>1, <1>3, <2>1, <2>3 DEF Items
<1>6. CASE HearTerminator
  <2>1. buffer' = <<>> /\ heard' = Nothing
    BY <1>6 DEF HearTerminator
  <2>2. Range(buffer') = {}
    BY <2>1 DEF Range
  <2> QED BY <1>1, <1>3, <2>1, <2>2 DEF Items
<1>7. CASE PlayNext \/ PlayRest \/ DiscardLate
  <2>1. buffer # <<>> /\ buffer' = Tail(buffer) /\ heard' \in {heard, Head(buffer)}
    BY <1>7 DEF PlayNext, PlayRest, DiscardLate, Draining, Late
  <2> QED BY <1>1, <1>3, <1>4, <2>1 DEF Items
<1>8. CASE SkipMuted \/ Resync \/ SkipAhead \/ Drained \/ StartClosing \/ End
  <2>1. UNCHANGED <<buffer, heard>>
    BY <1>8 DEF SkipMuted, Resync, SkipAhead, Drained, StartClosing, End, jitter, history
  <2> QED BY <1>1, <1>3, <2>1 DEF Items
<1> QED BY <1>5, <1>6, <1>7, <1>8 DEF Jitter

\* Where a packet was sent from does not change while the talker keeps his numbering.
LEMMA PlaceStays ==
  ASSUME NetworkOK, NEW kind \in Kinds, Talk(kind), NEW i \in Nat
  PROVE  talker'.frame - (talker'.sent + 1 - i) * Step = Place(i)
<1> DEFINE n == talker.sent + 1 - i
           f == talker.frame
<1>1. talker' = [talker EXCEPT !.sent = @ + 1, !.frame = @ + Step]
  BY DEF Talk
<1>2. talker \in [sent : Nat, epoch : Nat \ {0}, frame : Nat]
  BY DEF NetworkOK
<1>3. talker'.frame = f + Step /\ talker'.sent = talker.sent + 1
  BY <1>1, <1>2
<1>4. talker'.sent + 1 - i = n + 1 /\ n \in Int /\ f \in Int /\ Step \in Int
  BY <1>2, <1>3, ReceiveAssumption
<1> HIDE DEF n, f
<1>5. (n + 1) * Step = n * Step + Step /\ n * Step \in Int
  BY <1>4
<1> DEFINE a == n * Step
<1>6. (n + 1) * Step = a + Step /\ a \in Int
  BY <1>5
<1> HIDE DEF a
<1>7. f + Step - (a + Step) = f - a
  BY <1>4, <1>6
<1> DEFINE m == talker'.sent + 1 - i
<1>8. talker'.frame - m * Step = f - a
  <2>1. m = n + 1
    BY <1>4
  <2> HIDE DEF m
  <2>2. m * Step = a + Step
    BY <1>6, <2>1
  <2> DEFINE z == m * Step
  <2>3. z = a + Step
    BY <2>2
  <2> HIDE DEF z
  <2>4. talker'.frame - z = f - a
    BY <1>3, <1>4, <1>6, <2>3
  <2> QED BY <2>4 DEF z
<1> QED BY <1>8 DEF Place, a, n, f

LEMMA PlaceTypes ==
  ASSUME NetworkOK, NEW i \in Nat
  PROVE  Place(i) \in Int
<1>1. talker.frame \in Int /\ talker.sent + 1 - i \in Int /\ Step \in Int
  BY ReceiveAssumption DEF NetworkOK
<1> DEFINE n == talker.sent + 1 - i
<1> HIDE DEF n
<1>2. n \in Int
  BY <1>1 DEF n
<1>3. n * Step \in Int
  BY <1>1, <1>2
<1>4. talker.frame - n * Step \in Int
  BY <1>1, <1>3
<1> QED BY <1>4 DEF Place, n

\* A packet keeps its place and its frame number on every way it takes.
LEMMA PlacedStays ==
  ASSUME ReceiveInv, AllPlaced, [ReceiveNext]_receiveVars
  PROVE  AllPlaced'
<1>1. NetworkOK /\ JitterTypes /\ Items \subseteq Sounds \cup {Nothing} /\ talker.epoch \in Nat \ {0}
  BY ItemTypes, Found
<1>2. ASSUME talker' = talker, \A x \in network' \cup Items' : Placed(x)
      PROVE  AllPlaced'
  BY <1>2 DEF AllPlaced, Placed, Current, Place
<1>3. \A x \in network \cup Items \cup {Nothing, Terminator} : Placed(x)
  BY <1>1, SoundTypes DEF AllPlaced, Placed, Current
<1>4. CASE \E k \in Kinds : Talk(k)
  <2>1. PICK k \in Kinds : Talk(k)
    BY <1>4
  <2>0. PICK new : new = [kind |-> k, id |-> talker.sent + 1, epoch |-> talker.epoch, seq |-> talker.frame]
    OBVIOUS
  <2>2. /\ network' \subseteq network \cup {new} /\ Items' = Items
        /\ talker'.epoch = talker.epoch /\ talker'.frame = talker.frame + Step
        /\ talker'.sent = talker.sent + 1
    <3>1. /\ talker' = [talker EXCEPT !.sent = @ + 1, !.frame = @ + Step]
          /\ network' = StillComing(network, talker.sent + 1) \cup {new}
          /\ UNCHANGED <<channel, out, buffer, heard>>
      BY <2>0, <2>1 DEF Talk, reader, jitter, history
    <3>2. talker \in [sent : Nat, epoch : Nat \ {0}, frame : Nat]
      BY <1>1 DEF NetworkOK
    <3> QED BY <3>1, <3>2 DEF StillComing, Items
  <2>3. \A x \in network' \cup Items' : x # new => x.id \in Nat /\ Placed(x)
    <3>1. \A x \in Sounds \cup {Nothing} \cup network : x.id \in Nat
      BY <1>1 DEF Sounds, Sound, Terminator, Nothing, NetworkOK, Wire
    <3> QED BY <1>1, <1>3, <2>2, <3>1
  <2>4. \A i \in Nat : Place(i)' = Place(i)
    <3>1. \A i \in Nat : talker'.frame - (talker'.sent + 1 - i) * Step = Place(i)
      BY <1>1, <2>1, PlaceStays
    <3> QED BY <3>1 DEF Place
  <2>5. Placed(new)'
    <3>1. talker.frame \in Nat /\ talker.sent \in Nat /\ Step \in Nat
      BY <1>1, ReceiveAssumption DEF NetworkOK
    <3>2. talker'.sent + 1 - new.id = 1
      BY <2>0, <2>2, <3>1
    <3>3. talker'.frame - 1 * Step = talker.frame
      BY <2>2, <3>1
    <3>4. Place(new.id)' = talker.frame
      BY <3>2, <3>3 DEF Place
    <3> QED BY <2>0, <3>4 DEF Placed
  <2>6. \A x \in network' \cup Items' : Placed(x)'
    <3> TAKE x \in network' \cup Items'
    <3>1. CASE x = new
      BY <2>5, <3>1
    <3>2. CASE x # new
      <4>1. x.id \in Nat /\ Placed(x)
        BY <2>3, <3>2
      <4>2. Place(x.id)' = Place(x.id)
        BY <2>4, <4>1
      <4> QED BY <2>2, <4>1, <4>2 DEF Placed, Current
    <3> QED BY <3>1, <3>2
  <2> QED BY <2>6 DEF AllPlaced
<1>5. CASE Renumber
  <2>1. network' = network /\ Items' = Items /\ talker'.epoch = talker.epoch + 1
    BY <1>1, <1>5, RenumberKeepsNetwork DEF Renumber, reader, jitter, Items
  <2>2. \A x \in network \cup Items : x.epoch \in Nat /\ x.epoch <= talker.epoch
    <3>1. \A x \in Items : x.epoch \in Nat /\ x.epoch <= talker.epoch
      BY <1>1, SoundTypes DEF ReceiveInv, AllKnown, Known
    <3>2. \A x \in network : x.epoch \in Nat /\ x.epoch <= talker.epoch
      BY <1>1 DEF NetworkOK, Wire
    <3> QED BY <3>1, <3>2
  <2>3. \A x \in network \cup Items : x.epoch # talker'.epoch
    BY <1>1, <2>1, <2>2
  <2> QED BY <2>1, <2>3 DEF AllPlaced, Placed, Current
<1>6. CASE \E p \in network, path \in Paths : Arrive(p, path)
  <2>1. PICK p \in network : \E path \in Paths : Arrive(p, path)
    BY <1>6
  <2>2. PICK path \in Paths : Arrive(p, path)
    BY <2>1
  <2>3. /\ UNCHANGED <<talker, channel, buffer, heard>> /\ network' \subseteq network
        /\ \A x \in Range(out') : x \in Range(out) \/ x = Terminator \/ Lies(p, x)
    BY <2>2, ArriveGives
  <2>4. \A x : Lies(p, x) => Placed(x)
    <3>1. Placed(p) /\ p.kind # "plc"
      BY <1>1, <1>3 DEF NetworkOK, Wire, Kinds
    <3> QED BY <3>1 DEF Lies, Placed, Current
  <2>5. \A x \in network' \cup Items' : Placed(x)
    BY <1>3, <2>3, <2>4 DEF Items
  <2> QED BY <1>2, <2>3, <2>5
<1>7. CASE Dispatch
  <2>1. Items' \subseteq Items /\ talker' = talker /\ network' = network
    BY <1>7, ItemsOfDispatch DEF Dispatch, network_
  <2> QED BY <1>2, <1>3, <2>1
<1>8. CASE Jitter
  <2>1. Items' \subseteq Items \cup {Nothing} /\ talker' = talker /\ network' = network
    BY <1>8, ItemsOfJitter, JitterSteps
  <2> QED BY <1>2, <1>3, <2>1
<1>9. CASE Close \/ Mute \/ Done \/ UNCHANGED receiveVars
  <2>1. UNCHANGED <<talker, network, out, channel, buffer, heard>>
    BY <1>9 DEF Close, Mute, Done, receiveVars, network_, reader, jitter, history
  <2> QED BY <1>2, <1>3, <2>1 DEF Items
<1> QED BY <1>4, <1>5, <1>6, <1>7, <1>8, <1>9 DEF ReceiveNext

\* Steps of one length that start within less than a jump are no more than fit there.
LEMMA Quotient ==
  ASSUME NEW s \in Nat \ {0}, NEW a \in Int
  PROVE  /\ a \div s \in Int /\ (a \div s) * s \in Int
         /\ (a \div s) * s <= a /\ a < (a \div s) * s + s
OBVIOUS

LEMMA FitsIn ==
  ASSUME NEW s \in Nat \ {0}, NEW a \in Int, NEW b \in Int, NEW r \in Int, b <= a + r
  PROVE  b \div s - a \div s <= (r + s - 1) \div s
<1> DEFINE p == b \div s
           q == a \div s
           d == (r + s - 1) \div s
           ps == p * s
           qs == q * s
           ds == d * s
<1>1. p \in Int /\ ps \in Int /\ ps <= b
  BY Quotient
<1>2. q \in Int /\ qs \in Int /\ a < qs + s
  BY Quotient
<1>3. d \in Int /\ ds \in Int /\ r + s - 1 < ds + s
  <2>1. r + s - 1 \in Int
    OBVIOUS
  <2> QED BY <2>1, Quotient
<1> SUFFICES ASSUME p - q > d PROVE FALSE
  BY <1>1, <1>2, <1>3
<1>4. (q + d + 1) * s <= ps /\ (q + d + 1) * s = qs + ds + s
  <2> HIDE DEF p, q, d
  <2>1. q + d + 1 <= p /\ q + d + 1 \in Int
    BY <1>1, <1>2, <1>3
  <2>2. (q + d + 1) * s = q * s + d * s + s
    BY <1>2, <1>3
  <2> DEFINE u == q + d + 1
             v == p - u
  <2>3. v \in Nat /\ u \in Int /\ p = u + v
    BY <1>1, <2>1
  <2> HIDE DEF u, v
  <2>4. p * s = u * s + v * s /\ v * s \in Nat /\ u * s \in Int
    BY <2>3
  <2> DEFINE x == u * s
             y == v * s
  <2>5. p * s = x + y /\ y \in Nat /\ x \in Int
    BY <2>4
  <2> HIDE DEF x, y
  <2>6. x <= p * s
    BY <2>5
  <2> QED BY <2>2, <2>6 DEF x, u
<1>5. qs + ds + s <= ps /\ s \in Int
  BY <1>4
<1> HIDE DEF p, q, d, ps, qs, ds
<1> QED BY <1>1, <1>2, <1>3, <1>5

LEMMA ShortIsShort ==
  ASSUME NetworkOK, IsFiniteSet(silence), silence \subseteq Nat, NEW n \in Int, Short(n)
  PROVE  SilenceIsShort
<1>1. /\ Step \in Nat \ {0} /\ LateResync \in Nat \ {0} /\ ResyncJump \in Nat
      /\ talker.frame \in Int /\ talker.sent \in Int
  BY ReceiveAssumption DEF NetworkOK
<1>2. PICK A \in SUBSET silence :
        /\ Cardinality(A) <= LateResync - 1
        /\ \A i \in silence \ A : n - ResyncJump < Place(i) /\ Place(i) < n
  BY DEF Short
<1> DEFINE B == silence \ A
           t == talker.frame - (talker.sent + 1) * Step
           low == (n - ResyncJump - t) \div Step
           high == (n - 1 - t) \div Step
           room == (ResyncJump + Step - 2) \div Step
<1>3. t \in Int
  BY <1>1
<1>4. ASSUME NEW i \in B
      PROVE  low < i /\ i <= high /\ i \in Int
  <2>1. i \in Nat
    OBVIOUS
  <2> DEFINE m == i * Step
  <2>2. Place(i) = t + m /\ m \in Int
    <3> DEFINE u == talker.sent + 1
    <3>1. (u - i) * Step = u * Step - i * Step /\ u * Step \in Int /\ i * Step \in Int
      BY <1>1, <2>1
    <3> DEFINE v == u * Step
               w == (u - i) * Step
    <3>2. w = v - m /\ v \in Int /\ m \in Int
      BY <3>1
    <3>3. Place(i) = talker.frame - w /\ t = talker.frame - v
      BY <1>1, <2>1, <3>1 DEF Place
    <3> HIDE DEF m, v, w, t
    <3> QED BY <1>1, <3>2, <3>3
  <2>3. n - ResyncJump < t + m /\ t + m < n
    BY <1>2, <2>2
  <2> DEFINE f == n - ResyncJump - t
             g == n - 1 - t
  <2>4. /\ f \in Int /\ g \in Int /\ f < m /\ m <= g
    <3> HIDE DEF t, m
    <3> QED BY <1>1, <1>3, <2>2, <2>3
  <2> HIDE DEF f, g
  <2>5. f \div Step < i
    <3> DEFINE q == f \div Step
               x == q * Step
    <3>1. q \in Int /\ x \in Int /\ x <= f
      BY <1>1, <2>4, Quotient
    <3>2. SUFFICES ASSUME i <= q PROVE FALSE
      BY <2>1, <3>1
    <3>3. m <= x
      <4> DEFINE z == q - i
      <4>1. z \in Nat /\ q = i + z
        BY <2>1, <3>1, <3>2
      <4> HIDE DEF z, q
      <4>2. q * Step = i * Step + z * Step /\ z * Step \in Nat
        BY <1>1, <2>1, <4>1
      <4> DEFINE y == z * Step
      <4>3. x = m + y /\ y \in Nat
        BY <4>2
      <4> HIDE DEF x, m, y
      <4> QED BY <2>2, <4>3
    <3> HIDE DEF x, m
    <3> QED BY <2>2, <2>4, <3>1, <3>3
  <2>6. i <= g \div Step
    <3> DEFINE q == g \div Step
               x == q * Step
    <3>1. q \in Int /\ x \in Int /\ g < x + Step
      BY <1>1, <2>4, Quotient
    <3>2. SUFFICES ASSUME q + 1 <= i PROVE FALSE
      BY <2>1, <3>1
    <3>3. x + Step <= m
      <4> DEFINE z == i - (q + 1)
      <4>1. z \in Nat /\ i = q + 1 + z
        BY <2>1, <3>1, <3>2
      <4> HIDE DEF z, q
      <4>2. i * Step = q * Step + Step + z * Step /\ z * Step \in Nat
        BY <1>1, <3>1, <4>1
      <4> DEFINE y == z * Step
      <4>3. m = x + Step + y /\ y \in Nat
        BY <4>2
      <4> HIDE DEF x, m, y
      <4> QED BY <1>1, <3>1, <4>3
    <3> HIDE DEF x, m
    <3> QED BY <1>1, <2>2, <2>4, <3>1, <3>3
  <2> QED BY <2>1, <2>5, <2>6 DEF f, g
<1>5. low \in Int /\ high \in Int /\ room \in Int /\ high - low <= room
  <2> DEFINE a == n - ResyncJump - t
             b == n - 1 - t
             r == ResyncJump - 1
  <2>1. a \in Int /\ b \in Int /\ r \in Int /\ b <= a + r /\ r + Step - 1 = ResyncJump + Step - 2
    <3> HIDE DEF t
    <3> QED BY <1>1, <1>3
  <2> HIDE DEF a, b, r
  <2>2. b \div Step - a \div Step <= (r + Step - 1) \div Step
    BY <1>1, <2>1, FitsIn
  <2>3. a \div Step \in Int /\ b \div Step \in Int /\ (r + Step - 1) \div Step \in Int
    BY <1>1, <2>1, Quotient
  <2> QED BY <2>1, <2>2, <2>3 DEF a, b
<1>6. room \in Nat
  <2>1. ResyncJump + Step - 2 \in Nat
    <3>1. 1 * Step <= (Reach + 1) * Step /\ (Reach + 1) * Step \in Nat /\ Reach \in Nat
      BY ReceiveAssumption, Products
    <3> DEFINE x == (Reach + 1) * Step
    <3>2. ResyncJump > x /\ x \in Nat /\ Step <= x
      BY <3>1, ReceiveAssumption
    <3> HIDE DEF x
    <3> QED BY <1>1, <3>2
  <2>2. room * Step \in Int /\ ResyncJump + Step - 2 < room * Step + Step
    BY <1>1, <2>1, Quotient
  <2>3. SUFFICES ASSUME room < 0 PROVE FALSE
    BY <1>5
  <2> HIDE DEF room
  <2>4. room * Step + Step <= 0
    <3> DEFINE z == 0 - (room + 1)
    <3>1. z \in Nat /\ room + 1 = 0 - z
      BY <1>5, <2>3
    <3> HIDE DEF z
    <3>2. room * Step + Step = (room + 1) * Step /\ (room + 1) * Step = 0 - (z * Step) /\ z * Step \in Nat
      BY <1>1, <1>5, <3>1
    <3> QED BY <3>2
  <2> QED BY <1>1, <2>1, <2>2, <2>4
<1> HIDE DEF low, high, room
<1>7. IsFiniteSet(B) /\ Cardinality(B) <= room
  <2>1. B \subseteq low + 1 .. high
    BY <1>4, <1>5
  <2>2. IsFiniteSet(low + 1 .. high) /\ Cardinality(low + 1 .. high) = (IF low + 1 > high THEN 0 ELSE high - (low + 1) + 1)
    <3>1. low + 1 \in Int
      BY <1>5
    <3> QED BY <1>5, <3>1, FS_Interval
  <2>3. Cardinality(low + 1 .. high) <= room
    BY <1>5, <1>6, <2>2
  <2>4. IsFiniteSet(B) /\ Cardinality(B) <= Cardinality(low + 1 .. high) /\ Cardinality(B) \in Nat /\ Cardinality(low + 1 .. high) \in Nat
    BY <2>1, <2>2, FS_Subset, FS_CardinalityType
  <2> QED BY <1>5, <2>3, <2>4
<1>8. IsFiniteSet(A) /\ Cardinality(A) \in Nat /\ Cardinality(B) \in Nat
  BY <1>7, FS_Subset, FS_CardinalityType
<1>9. Cardinality(silence) = Cardinality(A) + Cardinality(B)
  <2>1. A \cup B = silence /\ A \cap B = {}
    OBVIOUS
  <2>2. Cardinality(A \cup B) = Cardinality(A) + Cardinality(B) - Cardinality(A \cap B)
    BY <1>7, <1>8, FS_Union
  <2>3. Cardinality({}) = 0
    BY FS_EmptySet
  <2> HIDE DEF B
  <2>4. Cardinality(silence) = Cardinality(A) + Cardinality(B) - 0
    BY <2>1, <2>2, <2>3, Zenon
  <2> QED BY <1>8, <2>4
<1> HIDE DEF B
<1> QED BY <1>1, <1>2, <1>6, <1>7, <1>8, <1>9 DEF SilenceIsShort, room

LEMMA ShortStarts ==
  ASSUME ReceiveInit
  PROVE  ShortInv
<1>1. /\ network = {} /\ out = <<>> /\ channel = <<>> /\ buffer = <<>> /\ heard = Nothing
      /\ next = 0 /\ lateRun = 0 /\ silence = {}
  BY DEF ReceiveInit
<1>2. ReceiveInv
  BY ReceiveStarts
<1>3. Items = {Nothing}
  BY <1>1 DEF Items, Range
<1>4. AllPlaced
  BY <1>1, <1>2, <1>3, NothingBefore, Found, SoundTypes DEF AllPlaced, Placed, Current
<1>5. Short(next) /\ IsFiniteSet(silence) /\ Cardinality(silence) = 0
  <2>1. IsFiniteSet({}) /\ Cardinality({}) = 0
    BY FS_EmptySet
  <2> QED BY <1>1, <2>1, ReceiveAssumption DEF Short
<1> QED BY <1>1, <1>4, <1>5 DEF ShortInv

\* What ends a silence, or begins another numbering, leaves nothing to bound.
LEMMA NoSilence ==
  ASSUME ReceiveInv', AllPlaced', silence' = {}, lateRun' \in Nat
  PROVE  ShortInv'
<1>1. IsFiniteSet({}) /\ Cardinality({}) = 0
  BY FS_EmptySet
<1>2. PICK n \in Int : n = next'
  <2>1. next' \in Int
    BY DEF ReceiveInv, JitterTypes
  <2> QED BY <2>1
<1>3. Short(n)'
  BY <1>1, ReceiveAssumption DEF Short
<1>4. IsFiniteSet(silence') /\ silence' \subseteq Nat /\ Cardinality(silence') <= lateRun'
  BY <1>1
<1>5. n = next' /\ Cardinality(silence') <= lateRun'
  BY <1>2, <1>4
<1> QED BY <1>3, <1>4, <1>5 DEF ShortInv

\* While silence, expectation and run stay, so does the bound.
LEMMA SameSilence ==
  ASSUME ShortInv, AllPlaced', silence' = silence, lateRun' \in Nat,
         \A i \in Nat : Place(i)' = Place(i),
         (phase' = "empty") => (phase = "empty"),
         \/ next' = next /\ lateRun' = lateRun /\ (Due => Due')
         \/ Due'
  PROVE  ShortInv'
<1>1. PICK n \in Int : Short(n) /\ ((n = next /\ Cardinality(silence) <= lateRun) \/ Due)
  BY DEF ShortInv
<1>2. Short(n)'
  <2>1. PICK A \in SUBSET silence :
          /\ Cardinality(A) <= LateResync - 1
          /\ \A i \in silence \ A : n - ResyncJump < Place(i) /\ Place(i) < n
    BY <1>1 DEF Short
  <2>2. \A i \in silence \ A : n - ResyncJump < Place(i)' /\ Place(i)' < n
    BY <2>1 DEF ShortInv
  <2> QED BY <2>1, <2>2 DEF Short
<1>3. (n = next' /\ Cardinality(silence') <= lateRun') \/ Due'
  BY <1>1
<1> QED BY <1>2, <1>3 DEF ShortInv

\* One more is discarded: one of the first, or one within a jump of what is expected.
LEMMA OneMore ==
  ASSUME ReceiveInv, ShortInv, AllPlaced', DiscardLate
  PROVE  ShortInv'
<1> DEFINE p == Head(buffer)
           c == Cardinality(silence)
<1>1. /\ Late /\ ~Restarted(lateRun + 1) /\ lateRun' = lateRun + 1 /\ UNCHANGED <<next, talker, phase, at>>
      /\ silence' = silence \cup Spoken(p)
  BY DEF DiscardLate, network_
<1>2. /\ p.seq < next /\ at = "drain" /\ buffer # <<>> /\ p \in Sound /\ p \in Items
      /\ next \in Int /\ phase = "started"
  <2>1. p.seq < next /\ at = "drain" /\ buffer # <<>>
    BY <1>1 DEF Late, Draining
  <2>2. buffer \in Seq(Sound) /\ next \in Int /\ phase = "started"
    BY <2>1 DEF ReceiveInv, JitterTypes, Expected
  <2>3. p \in Sound /\ p \in Range(buffer)
    BY <2>1, <2>2, Heads
  <2> QED BY <2>1, <2>2, <2>3 DEF Items
<1>3. PICK n \in Int : Short(n) /\ ((n = next /\ c <= lateRun) \/ Due)
  BY DEF ShortInv
<1>4. n = next /\ c <= lateRun
  <2>1. p.seq \in Nat
    BY <1>2 DEF Sound
  <2>2. p.seq # next
    BY <1>2, <2>1
  <2> QED BY <1>3, <2>2 DEF Due
<1>5. PICK A \in SUBSET silence :
        /\ Cardinality(A) <= LateResync - 1
        /\ \A i \in silence \ A : n - ResyncJump < Place(i) /\ Place(i) < n
  BY <1>3, <1>4 DEF Short
<1>6. IsFiniteSet(silence) /\ silence \subseteq Nat /\ c \in Nat /\ lateRun \in Nat /\ LateResync \in Nat
  BY FS_CardinalityType, ReceiveAssumption DEF ShortInv
<1>7. CASE Spoken(p) = {}
  <2>1. silence' = silence
    BY <1>1, <1>7
  <2>2. Short(n)'
    <3>1. \A i \in silence \ A : n - ResyncJump < Place(i)' /\ Place(i)' < n
      BY <1>1, <1>5 DEF Place
    <3> QED BY <1>5, <2>1, <3>1 DEF Short
  <2>3. Cardinality(silence') <= lateRun'
    BY <1>1, <1>4, <1>6, <2>1
  <2>4. n = next' /\ Cardinality(silence') <= lateRun' /\ lateRun' \in Nat /\ phase' # "empty"
    BY <1>1, <1>2, <1>4, <1>6, <2>3
  <2>5. IsFiniteSet(silence') /\ silence' \subseteq Nat
    BY <1>6, <2>1
  <2> QED BY <2>2, <2>4, <2>5 DEF ShortInv
<1>8. CASE Spoken(p) # {}
  <2> DEFINE k == p.id
             S == silence \cup {k}
  <2>1. Spoken(p) = {k} /\ p.kind = "voice" /\ Current(p)
    BY <1>8 DEF Spoken, Current
  <2>2. silence' = S /\ k \in Nat /\ p.seq = Place(k)
    <3>1. Placed(p)
      BY <1>2 DEF ShortInv, AllPlaced
    <3> QED BY <1>1, <1>2, <2>1, <3>1 DEF Placed, Sound
  <2> HIDE DEF k
  <2>3. IsFiniteSet(S) /\ Cardinality(S) <= c + 1 /\ Cardinality(S) \in Nat
    <3>1. IsFiniteSet(S) /\ Cardinality(S) = (IF k \in silence THEN c ELSE c + 1)
      BY <1>6, FS_AddElement
    <3> QED BY <1>6, <3>1
  <2>4. Cardinality(silence') <= lateRun' /\ IsFiniteSet(silence') /\ silence' \subseteq Nat
    <3>1. silence' \subseteq Nat
      BY <1>6, <2>2
    <3> HIDE DEF c, S
    <3>2. Cardinality(S) <= lateRun + 1
      BY <1>4, <1>6, <2>3
    <3> QED BY <1>1, <2>2, <2>3, <3>1, <3>2
  <2>5. \A i \in Nat : Place(i)' = Place(i)
    BY <1>1 DEF Place
  <2>6. Short(n)'
    <3>1. CASE c + 1 <= LateResync - 1
      <4>1. Cardinality(S) <= LateResync - 1
        <5> HIDE DEF c, S
        <5> QED BY <1>6, <2>3, <3>1
      <4> QED BY <2>2, <4>1 DEF Short
    <3>2. CASE ~(c + 1 <= LateResync - 1)
      <4>1. lateRun + 1 >= LateResync
        <5> HIDE DEF c
        <5> QED BY <1>4, <1>6, <3>2
      <4>2. ~(next - p.seq >= ResyncJump)
        BY <1>1, <4>1 DEF Restarted
      <4>3. n - ResyncJump < Place(k) /\ Place(k) < n
        <5>1. p.seq \in Nat /\ ResyncJump \in Nat
          BY <1>2, ReceiveAssumption DEF Sound
        <5>2. next - ResyncJump < p.seq /\ p.seq < next
          BY <1>2, <4>2, <5>1
        <5> QED BY <1>4, <2>2, <5>2
      <4>4. \A i \in S \ A : n - ResyncJump < Place(i)' /\ Place(i)' < n
        BY <1>5, <1>6, <2>2, <2>5, <4>3
      <4>5. A \in SUBSET silence'
        BY <1>1
      <4> HIDE DEF S
      <4> QED BY <1>5, <2>2, <4>4, <4>5 DEF Short
    <3> QED BY <3>1, <3>2
  <2>7. n = next' /\ Cardinality(silence') <= lateRun' /\ lateRun' \in Nat /\ phase' # "empty"
    BY <1>1, <1>2, <1>4, <1>6, <2>4
  <2> QED BY <2>4, <2>6, <2>7 DEF ShortInv
<1> QED BY <1>7, <1>8

LEMMA ShortKeeps ==
  ASSUME ReceiveInv, ReceiveInv', ShortInv, [ReceiveNext]_receiveVars
  PROVE  ShortInv'
<1>1. AllPlaced' /\ NetworkOK /\ Expected
  BY PlacedStays DEF ShortInv, ReceiveInv
<1>2. talker' = talker => \A i \in Nat : Place(i)' = Place(i)
  BY DEF Place
<1>3. CASE \E k \in Kinds : Talk(k)
  <2>1. PICK k \in Kinds : Talk(k)
    BY <1>3
  <2>2. UNCHANGED <<silence, lateRun, phase, next, at, buffer>>
    BY <2>1 DEF Talk, jitter, history
  <2>3. \A i \in Nat : Place(i)' = Place(i)
    <3>1. \A i \in Nat : talker'.frame - (talker'.sent + 1 - i) * Step = Place(i)
      BY <1>1, <2>1, PlaceStays
    <3> QED BY <3>1 DEF Place
  <2> QED BY <1>1, <2>2, <2>3, SameSilence DEF Due, ShortInv
<1>4. CASE Renumber
  <2>1. silence' = {} /\ lateRun' = lateRun
    BY <1>4 DEF Renumber, jitter
  <2> QED BY <1>1, <2>1, NoSilence DEF ShortInv
<1>5. CASE \E p \in network, path \in Paths : Arrive(p, path)
  <2>1. UNCHANGED <<talker, silence, lateRun, phase, next, at, buffer>>
    BY <1>5, ArriveGives
  <2> QED BY <1>1, <1>2, <2>1, SameSilence DEF Due, ShortInv
<1>6. CASE Dispatch \/ Close \/ Mute \/ Done \/ UNCHANGED receiveVars
  <2>1. UNCHANGED <<talker, silence, lateRun, phase, next, at, buffer>>
    BY <1>6 DEF Dispatch, Close, Mute, Done, receiveVars, network_, jitter, history
  <2> QED BY <1>1, <1>2, <2>1, SameSilence DEF Due, ShortInv
<1>7. CASE SkipMuted \/ Drained \/ StartClosing \/ End
  <2>1. /\ UNCHANGED <<talker, silence, lateRun, phase, next, buffer>>
        /\ at' = at \/ at # "drain" \/ buffer = <<>>
    BY <1>7 DEF SkipMuted, Take, Drained, StartClosing, End, network_, jitter, history
  <2> QED BY <1>1, <1>2, <2>1, SameSilence DEF Due, ShortInv
<1>8. CASE Keep
  <2>1. /\ UNCHANGED <<talker, silence, lateRun>> /\ at = "wait" /\ phase' # "empty"
        /\ phase # "empty" => next' = next
    BY <1>8 DEF Keep, Take, network_, history
  <2>2. CASE phase = "empty"
    <3>1. silence' = {} /\ lateRun' \in Nat
      BY <2>1, <2>2 DEF ShortInv
    <3> QED BY <1>1, <3>1, NoSilence
  <2>3. CASE phase # "empty"
    BY <1>1, <1>2, <2>1, <2>3, SameSilence DEF Due, ShortInv
  <2> QED BY <2>2, <2>3
<1>9. CASE HearTerminator \/ PlayNext \/ PlayRest
  <2>1. silence' = {} /\ lateRun' \in {0, lateRun}
    BY <1>9 DEF HearTerminator, PlayNext, PlayRest
  <2> QED BY <1>1, <2>1, NoSilence DEF ShortInv
<1>10. CASE SkipAhead \/ Resync
  <2>1. /\ UNCHANGED <<talker, silence, phase, buffer, at>> /\ next' = Head(buffer).seq
        /\ at = "drain" /\ buffer # <<>> /\ lateRun' \in {0, lateRun}
    BY <1>10 DEF SkipAhead, Resync, Late, Draining, network_, history
  <2> QED BY <1>1, <1>2, <2>1, SameSilence DEF Due, ShortInv
<1>11. CASE DiscardLate
  BY <1>1, <1>11, OneMore
<1> QED BY <1>3, <1>4, <1>5, <1>6, <1>7, <1>8, <1>9, <1>10, <1>11 DEF ReceiveNext, Jitter

\* However many times the talker starts again and whatever is lost, the voice of one
\* numbering that is discarded in a row is at most what SilenceIsShort says: the jitter
\* buffer finds its way back to him (stream.go:56-67).
THEOREM SilenceEnds == ASSUME PathsAgree PROVE ReceiveSpec => []SilenceIsShort
<1>1. ReceiveInit => ReceiveInv /\ ShortInv
  BY ReceiveStarts, ShortStarts
<1>2. ReceiveInv /\ ShortInv /\ [ReceiveNext]_receiveVars => (ReceiveInv /\ ShortInv)'
  BY ReceiveKeeps, ShortKeeps
<1>3. ReceiveInv /\ ShortInv => SilenceIsShort
  BY ShortIsShort DEF ReceiveInv, ShortInv
<1> QED BY <1>1, <1>2, <1>3, PTL DEF ReceiveSpec

=============================================================================
