------------------------------ MODULE Recording ------------------------------
(***************************************************************************)
(* Recording a conversation. The UI goroutine asks the server for the      *)
(* recording state of the user; the goroutine that reads from the server   *)
(* starts ffmpeg when the server confirms it, and stops it when the server *)
(* says so, forbids recording or is gone. RecordingMutex protects          *)
(* b.Recorder, b.recordingStarting and b.recordingAllowed; each of its     *)
(* critical sections is one step, and so are the slow things done outside  *)
(* it: starting ffmpeg, Recorder.Stop and SetRecording.                    *)
(*                                                                         *)
(* The server applies what it is asked in order and reports each change.   *)
(***************************************************************************)
EXTENDS Naturals, Sequences

CONSTANTS
  None,        \* no recorder
  MaxCommands, \* bound: what the user asks for
  MaxConfigs,  \* bound: ServerConfig messages
  MaxLosses,   \* bound: connections lost
  MaxKicks     \* bound: times the user is kicked

ASSUME RecordingAssumption ==
  /\ None \notin Nat
  /\ MaxCommands \in Nat /\ MaxConfigs \in Nat /\ MaxLosses \in Nat /\ MaxKicks \in Nat

VARIABLES
  recorder,  \* b.Recorder
  starting,  \* b.recordingStarting
  allowed,   \* b.recordingAllowed: "unknown" for nil, "yes", "no"
  encoders,  \* the recorders whose ffmpeg runs
  launched,  \* how many were ever started; each is named by its number
  stream,    \* whether b.Stream is installed
  attached,  \* the recorder of that stream
  ui,        \* UI goroutine: "idle", "sendStart", "stopping", "sendStop"
  net,       \* reader: "idle", "reset", "launch", "install", "failed",
             \* "stopRec", "stopForbidden", "stopping", "sendStop"
  uiHolds, netHolds, \* the recorder each of them is about to stop or install
  netNotify, \* whether the reader tells the server after stopping
  link,      \* "up", "lost", "down"
  kicked,    \* Self.client is nil: the server removed the user
  srv,       \* the recording state of the user at the server
  toServer, toClient, \* messages under way
  crashed,   \* a nil dereference ended the program
  commands, configs, losses, kicks \* what the bounds count

user == <<ui, uiHolds, commands>>
reader == <<net, netHolds, netNotify>>
server == <<srv, toServer, toClient, configs, kicks>>
connection == <<link, kicked, losses>>
vars == <<recorder, starting, allowed, encoders, launched, stream, attached, user, reader,
          server, connection, crashed>>

Init ==
  /\ recorder = None /\ starting = FALSE /\ allowed = "unknown"
  /\ encoders = {} /\ launched = 0
  /\ stream = FALSE /\ attached = None
  /\ ui = "idle" /\ net = "idle" /\ uiHolds = None /\ netHolds = None /\ netNotify = FALSE
  /\ link = "up" /\ kicked = FALSE /\ srv = FALSE
  /\ toServer = <<>> /\ toClient = <<>>
  /\ crashed = FALSE
  /\ commands = 0 /\ configs = 0 /\ losses = 0 /\ kicks = 0

\* detachRecorder, under RecordingMutex.
DetachRecorder ==
  /\ recorder' = None /\ starting' = FALSE
  /\ attached' = None

\* User.SetRecording: u.client.Conn.WriteProto.
SetRecording(value) ==
  /\ crashed' = kicked
  /\ toServer' = IF link = "up" /\ ~kicked THEN Append(toServer, value) ELSE toServer

-----------------------------------------------------------------------------
(* The UI goroutine                                                        *)

Command == ui = "idle" /\ commands < MaxCommands /\ commands' = commands + 1

StartRecording ==
  /\ Command
  /\ IF allowed # "no" /\ recorder = None /\ ~starting
     THEN starting' = TRUE /\ ui' = "sendStart"
     ELSE UNCHANGED <<starting, ui>>
  /\ UNCHANGED <<recorder, allowed, encoders, launched, stream, attached, uiHolds, reader,
                 server, connection, crashed>>

\* StopRecording(true), from /record, the hot key or shutdown.
StopRecording ==
  /\ Command
  /\ DetachRecorder
  /\ uiHolds' = recorder
  /\ ui' = IF recorder = None THEN "sendStop" ELSE "stopping"
  /\ UNCHANGED <<allowed, encoders, launched, stream, reader, server, connection, crashed>>

UiStopped ==
  /\ ui = "stopping"
  /\ ui' = "sendStop"
  /\ encoders' = encoders \ {uiHolds} /\ uiHolds' = None
  /\ UNCHANGED <<recorder, starting, allowed, launched, stream, attached, reader, server,
                 connection, commands, crashed>>

UiSends ==
  /\ ui \in {"sendStart", "sendStop"}
  /\ SetRecording(ui = "sendStart")
  /\ ui' = "idle"
  /\ UNCHANGED <<recorder, starting, allowed, encoders, launched, stream, attached, reader,
                 srv, toClient, configs, kicks, connection, uiHolds, commands>>

-----------------------------------------------------------------------------
(* The reader of the server's messages                                     *)

Handle(kind) ==
  /\ net = "idle" /\ link = "up"
  /\ toClient # <<>> /\ Head(toClient).kind = kind
  /\ toClient' = Tail(toClient)

\* HandleRecordingChange for the user itself.
RecordingChanged ==
  /\ Handle("recording")
  /\ net' = CASE Head(toClient).value /\ starting /\ recorder = None -> "launch"
              [] ~Head(toClient).value /\ recorder # None -> "stopRec"
              [] OTHER -> "idle"
  /\ UNCHANGED <<recorder, starting, allowed, encoders, launched, stream, attached, user,
                 netHolds, netNotify, srv, toServer, configs, kicks, connection, crashed>>

\* Mutant: a start that is pending is not cancelled.
RecordingAllowed_ActiveOnly ==
  /\ Handle("allowed")
  /\ allowed' = IF Head(toClient).value THEN "yes" ELSE "no"
  /\ net' = IF ~Head(toClient).value /\ recorder # None THEN "stopForbidden" ELSE "idle"
  /\ UNCHANGED <<recorder, starting, encoders, launched, stream, attached, user,
                 netHolds, netNotify, srv, toServer, configs, kicks, connection, crashed>>

\* HandleRecordingAllowed.
RecordingAllowed ==
  /\ Handle("allowed")
  /\ allowed' = IF Head(toClient).value THEN "yes" ELSE "no"
  /\ net' = IF ~Head(toClient).value /\ (recorder # None \/ starting)
            THEN "stopForbidden" ELSE "idle"
  /\ UNCHANGED <<recorder, starting, encoders, launched, stream, attached, user,
                 netHolds, netNotify, srv, toServer, configs, kicks, connection, crashed>>

\* handleUserRemove for the user itself: event.User.client = nil.
Removed ==
  /\ Handle("kick")
  /\ kicked' = TRUE
  /\ UNCHANGED <<recorder, starting, allowed, encoders, launched, stream, attached, user,
                 reader, srv, toServer, configs, kicks, link, losses, crashed>>

\* recording.New in finishRecordingStart: ffmpeg starts, or does not.
Launch ==
  /\ net = "launch"
  /\ \/ /\ launched' = launched + 1
        /\ encoders' = encoders \cup {launched'}
        /\ netHolds' = launched' /\ net' = "install"
     \/ net' = "failed" /\ UNCHANGED <<launched, encoders, netHolds>>
  /\ UNCHANGED <<recorder, starting, allowed, stream, attached, user, netNotify, server,
                 connection, crashed>>

LaunchFailed ==
  /\ net = "failed"
  /\ starting' = FALSE /\ net' = "sendStop"
  /\ UNCHANGED <<recorder, allowed, encoders, launched, stream, attached, user, netHolds,
                 netNotify, server, connection, crashed>>

\* The second half of finishRecordingStart.
Install ==
  /\ net = "install"
  /\ IF starting
     THEN /\ recorder' = netHolds /\ starting' = FALSE
          /\ attached' = IF stream THEN netHolds ELSE None
          /\ netHolds' = None /\ net' = "idle"
          /\ UNCHANGED netNotify
     ELSE /\ net' = "stopping" /\ netNotify' = FALSE
          /\ UNCHANGED <<recorder, starting, attached, netHolds>>
  /\ UNCHANGED <<allowed, encoders, launched, stream, user, server, connection, crashed>>

\* Mutant: the encoder is forgotten, not stopped.
NetDetach_Forgets ==
  /\ net \in {"stopRec", "stopForbidden"}
  /\ DetachRecorder
  /\ net' = IF net = "stopForbidden" THEN "sendStop" ELSE "idle"
  /\ UNCHANGED <<allowed, encoders, launched, stream, user, netHolds, netNotify, server,
                 connection, crashed>>

\* StopRecording on the reader, which tells the server when it is a prohibition.
NetDetach ==
  /\ net \in {"stopRec", "stopForbidden"}
  /\ DetachRecorder
  /\ IF recorder = None
     THEN /\ net' = IF net = "stopForbidden" THEN "sendStop" ELSE "idle"
          /\ UNCHANGED <<netHolds, netNotify>>
     ELSE /\ net' = "stopping" /\ netHolds' = recorder
          /\ netNotify' = (net = "stopForbidden")
  /\ UNCHANGED <<allowed, encoders, launched, stream, user, server, connection, crashed>>

NetStopped ==
  /\ net = "stopping"
  /\ encoders' = encoders \ {netHolds} /\ netHolds' = None
  /\ net' = IF netNotify THEN "sendStop" ELSE "idle"
  /\ UNCHANGED <<recorder, starting, allowed, launched, stream, attached, user, netNotify,
                 server, connection, crashed>>

NetSends ==
  /\ net = "sendStop"
  /\ SetRecording(FALSE)
  /\ net' = "idle"
  /\ UNCHANGED <<recorder, starting, allowed, encoders, launched, stream, attached, user,
                 netHolds, netNotify, srv, toClient, configs, kicks, connection>>

-----------------------------------------------------------------------------
(* Connections                                                             *)

\* The connection fails, with what was under way.
LinkLost ==
  /\ link = "up" /\ losses < MaxLosses
  /\ link' = "lost" /\ losses' = losses + 1
  /\ srv' = FALSE /\ toServer' = <<>> /\ toClient' = <<>>
  /\ UNCHANGED <<recorder, starting, allowed, encoders, launched, stream, attached, user,
                 reader, configs, kicks, kicked, crashed>>

\* OnDisconnect: stopRecordingForDisconnect and cleanupConnectionAudio.
OnDisconnect ==
  /\ link = "lost" /\ net = "idle"
  /\ link' = "down"
  /\ DetachRecorder
  /\ stream' = FALSE
  /\ IF recorder = None
     THEN UNCHANGED <<net, netHolds>>
     ELSE net' = "stopping" /\ netHolds' = recorder
  /\ netNotify' = FALSE
  /\ UNCHANGED <<allowed, encoders, launched, user, server, kicked, losses, crashed>>

\* A reconnect has synchronised: OnConnect makes the new client b.Client ...
OnConnect ==
  /\ link = "down" /\ net = "idle"
  /\ link' = "up" /\ kicked' = FALSE /\ net' = "reset"
  /\ UNCHANGED <<recorder, starting, allowed, encoders, launched, stream, attached, user,
                 netHolds, netNotify, server, losses, crashed>>

\* ... and then resets the recording state.
ResetRecording ==
  /\ net = "reset"
  /\ net' = "idle" /\ allowed' = "unknown" /\ starting' = FALSE
  /\ UNCHANGED <<recorder, encoders, launched, stream, attached, user, netHolds, netNotify,
                 server, connection, crashed>>

\* connect() installs the stream it has opened for the client.
InstallStream ==
  /\ link = "up" /\ ~stream
  /\ stream' = TRUE
  /\ UNCHANGED <<recorder, starting, allowed, encoders, launched, attached, user, reader,
                 server, connection, crashed>>

-----------------------------------------------------------------------------
(* The server                                                              *)

\* It applies a request, or ignores it where recording is not allowed.
ServerApplies ==
  /\ toServer # <<>>
  /\ toServer' = Tail(toServer)
  /\ \/ /\ Head(toServer) # srv
        /\ srv' = Head(toServer)
        /\ toClient' = Append(toClient, [kind |-> "recording", value |-> srv'])
     \/ (Head(toServer) = srv \/ Head(toServer)) /\ UNCHANGED <<srv, toClient>>
  /\ UNCHANGED <<recorder, starting, allowed, encoders, launched, stream, attached, user,
                 reader, connection, configs, kicks, crashed>>

ServerConfig ==
  /\ link = "up" /\ configs < MaxConfigs
  /\ configs' = configs + 1
  /\ \E value \in BOOLEAN : toClient' = Append(toClient, [kind |-> "allowed", value |-> value])
  /\ UNCHANGED <<recorder, starting, allowed, encoders, launched, stream, attached, user,
                 reader, connection, srv, toServer, kicks, crashed>>

ServerKicks ==
  /\ link = "up" /\ kicks < MaxKicks
  /\ kicks' = kicks + 1
  /\ toClient' = Append(toClient, [kind |-> "kick", value |-> TRUE])
  /\ UNCHANGED <<recorder, starting, allowed, encoders, launched, stream, attached, user,
                 reader, connection, srv, toServer, configs, crashed>>

Act ==
  \/ StartRecording \/ StopRecording \/ UiStopped \/ UiSends
  \/ RecordingChanged \/ RecordingAllowed \/ Removed
  \/ Launch \/ LaunchFailed \/ Install \/ NetDetach \/ NetStopped \/ NetSends
  \/ LinkLost \/ OnDisconnect \/ OnConnect \/ ResetRecording \/ InstallStream
  \/ ServerApplies \/ ServerConfig \/ ServerKicks

Crash == crashed /\ UNCHANGED vars

Next == (~crashed /\ Act) \/ Crash

Spec == Init /\ [][Next]_vars

-----------------------------------------------------------------------------
(* Properties                                                              *)

Recorders == 1 .. launched

TypeOK ==
  /\ recorder \in Recorders \cup {None} /\ attached \in Recorders \cup {None}
  /\ uiHolds \in Recorders \cup {None} /\ netHolds \in Recorders \cup {None}
  /\ starting \in BOOLEAN /\ stream \in BOOLEAN /\ kicked \in BOOLEAN /\ srv \in BOOLEAN
  /\ crashed \in BOOLEAN /\ netNotify \in BOOLEAN
  /\ allowed \in {"unknown", "yes", "no"}
  /\ launched \in Nat /\ encoders \subseteq Recorders
  /\ ui \in {"idle", "sendStart", "stopping", "sendStop"}
  /\ net \in {"idle", "reset", "launch", "install", "failed", "stopRec", "stopForbidden",
              "stopping", "sendStop"}
  /\ link \in {"up", "lost", "down"}
  /\ recorder # None => ~starting

\* No ffmpeg is left running that nobody can stop: a running recorder is
\* installed, or the UI or the reader is about to stop or install it.
NoOrphanEncoder == encoders \subseteq {recorder, uiHolds, netHolds}

\* The stream never feeds a recorder that is being stopped: it has the installed
\* recorder or none (detachRecorder, finishRecordingStart).
StreamFeedsInstalled == attached \in {None, recorder}

\* Every running encoder is somebody's to stop, and a stopped one is not fed.
EncodersOwned == NoOrphanEncoder /\ StreamFeedsInstalled

\* "If the server reports that recording is not allowed, Barnard refuses to
\* start" (README.md:79), and stops what it had started.
ForbiddenIsObeyed == allowed = "no" /\ net = "idle" => recorder = None /\ ~starting

\* Nothing is under way and everyone is idle.
Quiet == link = "up" /\ ~kicked /\ ui = "idle" /\ net = "idle" /\ toServer = <<>> /\ toClient = <<>>

\* Nobody is recorded without being told: once things are quiet, a recorder runs
\* only if the server shows the user as recording.
NeverSecret == Quiet /\ recorder # None => srv

\* A recording does not outlive its connection.
EndsWithConnection == link = "down" /\ net = "idle" => recorder = None /\ encoders \subseteq {uiHolds}

\* A recorder runs only where the server allows it, shows it and is connected.
RecordingIsLawful == ForbiddenIsObeyed /\ NeverSecret /\ EndsWithConnection

\* "Recording uses the Mumble recording state so other users are notified by the
\* server" (README.md:78): once things are quiet, the server shows the user as
\* recording only while a recorder runs or is about to.
ServerAgrees == Quiet /\ srv => recorder # None \/ starting

\* "Barnard can record a single mixed file containing the audio you hear and the
\* audio you transmit" (README.md:77): an installed stream has the recorder.
RecorderIsFed == Quiet /\ recorder # None /\ stream => attached = recorder

\* "Recording requires an active server connection" (recording_control.go:45):
\* without one, starting and stopping do nothing worse than say so.
NoCrash == ~crashed

=============================================================================
