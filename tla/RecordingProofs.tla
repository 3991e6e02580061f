-------------------------- MODULE RecordingProofs --------------------------
(***************************************************************************)
(* Theorems about Recording, for any number of commands, losses, kicks and *)
(* changes of permission.                                                  *)
(***************************************************************************)
EXTENDS Recording, SequenceTheorems, TLAPS

\* While a recorder is installed no other one starts, so installing one replaces
\* none; and each goroutine holds a recorder only while it stops or installs it.
HoldersInv ==
  /\ net \in {"idle", "reset", "launch", "install", "failed", "stopRec", "stopForbidden",
              "stopping", "sendStop"}
  /\ launched \in Nat /\ encoders \subseteq Nat
  /\ recorder # None => starting = FALSE
  /\ ui # "stopping" => uiHolds = None
  /\ net \notin {"install", "stopping"} => netHolds = None

\* The actions that move no recorder: the rest of the program, and the server.
Elsewhere ==
  \/ UiSends \/ RecordingChanged \/ RecordingAllowed \/ Removed \/ NetSends
  \/ LinkLost \/ OnConnect \/ InstallStream \/ ServerApplies \/ ServerConfig \/ ServerKicks

LEMMA HoldersStep == HoldersInv /\ [Next]_vars => HoldersInv'
<1> SUFFICES ASSUME HoldersInv, [Next]_vars PROVE HoldersInv'
  OBVIOUS
<1> USE DEF HoldersInv, user, reader, server, connection
<1>1. CASE Elsewhere
  BY <1>1 DEF Elsewhere, UiSends, RecordingChanged, RecordingAllowed, Removed, NetSends,
              LinkLost, OnConnect, InstallStream, ServerApplies, ServerConfig, ServerKicks,
              Handle
<1>2. CASE StartRecording
  <2>1. /\ recorder' = recorder /\ UNCHANGED <<launched, encoders, uiHolds, net, netHolds>>
        /\ \/ recorder = None /\ ui' = "sendStart"
           \/ UNCHANGED <<starting, ui>>
    BY <1>2 DEF StartRecording
  <2>2. ui # "stopping"
    BY <1>2 DEF StartRecording, Command
  <2> QED BY <2>1, <2>2
<1>3. CASE StopRecording \/ UiStopped
  BY <1>3 DEF StopRecording, UiStopped, DetachRecorder
<1>4. CASE Launch
  <2>1. CASE net' = "install" /\ launched' = launched + 1 /\ encoders' = encoders \cup {launched'}
    <3>1. launched' \in Nat /\ encoders' \subseteq Nat
      BY <2>1
    <3>2. UNCHANGED <<recorder, starting, ui, uiHolds>>
      BY <1>4 DEF Launch
    <3> QED BY <2>1, <3>1, <3>2
  <2>2. CASE net' = "failed" /\ UNCHANGED <<launched, encoders, netHolds>>
    BY <1>4, <2>2 DEF Launch
  <2> QED BY <1>4, <2>1, <2>2 DEF Launch
<1>5. CASE Install
  BY <1>5 DEF Install
<1>6. CASE NetDetach \/ NetStopped \/ OnDisconnect
  BY <1>6 DEF NetDetach, NetStopped, OnDisconnect, DetachRecorder
<1>7. CASE Crash \/ UNCHANGED vars
  BY <1>7 DEF Crash, vars
<1>8. CASE LaunchFailed \/ ResetRecording
  BY <1>8 DEF LaunchFailed, ResetRecording
<1> QED BY <1>1, <1>2, <1>3, <1>4, <1>5, <1>6, <1>7, <1>8 DEF Next, Act, Elsewhere

LEMMA OwnedStep == HoldersInv /\ EncodersOwned /\ [Next]_vars => EncodersOwned'
<1> SUFFICES ASSUME HoldersInv, EncodersOwned, [Next]_vars PROVE EncodersOwned'
  OBVIOUS
<1> USE DEF EncodersOwned, NoOrphanEncoder, StreamFeedsInstalled,
            user, reader, server, connection
<1>1. CASE Elsewhere
  BY <1>1 DEF Elsewhere, UiSends, RecordingChanged, RecordingAllowed, Removed, NetSends,
              LinkLost, OnConnect, InstallStream, ServerApplies, ServerConfig, ServerKicks,
              Handle
<1>2. CASE StartRecording \/ LaunchFailed \/ ResetRecording
  BY <1>2 DEF StartRecording, LaunchFailed, ResetRecording
<1>3. CASE StopRecording
  BY <1>3 DEF HoldersInv, StopRecording, Command, DetachRecorder
<1>4. CASE UiStopped
  BY <1>4 DEF UiStopped
<1>5. CASE Launch
  BY <1>5, RecordingAssumption DEF HoldersInv, Launch
<1>6. CASE Install
  BY <1>6 DEF HoldersInv, Install
<1>7. CASE NetDetach \/ OnDisconnect
  BY <1>7 DEF HoldersInv, NetDetach, OnDisconnect, DetachRecorder
<1>8. CASE NetStopped
  BY <1>8 DEF NetStopped
<1>9. CASE Crash \/ UNCHANGED vars
  BY <1>9 DEF Crash, vars
<1> QED BY <1>1, <1>2, <1>3, <1>4, <1>5, <1>6, <1>7, <1>8, <1>9 DEF Next, Act, Elsewhere

\* However commands, confirmations, prohibitions and disconnects interleave, a
\* running ffmpeg is installed or about to be stopped or installed by somebody, and
\* the stream feeds the installed recorder or none (recording_control.go:96-189).
THEOREM RecordersAreOwned == Spec => []EncodersOwned
<1>1. Init => HoldersInv /\ EncodersOwned
  BY DEF Init, HoldersInv, EncodersOwned, NoOrphanEncoder, StreamFeedsInstalled
<1>2. HoldersInv /\ EncodersOwned /\ [Next]_vars => (HoldersInv /\ EncodersOwned)'
  BY HoldersStep, OwnedStep
<1> QED BY <1>1, <1>2, PTL DEF Spec

-----------------------------------------------------------------------------
(* Nobody is recorded in secret                                            *)

Messages == [kind : {"recording", "allowed", "kick"}, value : BOOLEAN]

Yes == [kind |-> "recording", value |-> TRUE]
No == [kind |-> "recording", value |-> FALSE]

MessageTypes ==
  /\ toServer \in Seq(BOOLEAN) /\ toClient \in Seq(Messages)
  /\ srv \in BOOLEAN

\* A prohibition that has been handled has stopped everything, or is about to.
Forbidden ==
  allowed = "no" => (recorder = None /\ starting = FALSE) \/ net = "stopForbidden"

\* Nothing begins between two connections.
Between ==
  /\ link = "down" => recorder = None /\ net \in {"idle", "stopping"}
                      /\ (net = "stopping" => netNotify = FALSE)
  /\ net = "reset" => recorder = None

\* The last change of the recording state that is under way is the state.
Reported == \A i \in 1 .. Len(toClient) : srv = FALSE /\ toClient[i] = Yes =>
  \E j \in i + 1 .. Len(toClient) : toClient[j] = No

\* A recorder that runs, or is about to, and that the server does not show, will be
\* stopped: the reader has been told, or will be.
WillStop ==
  link = "up" /\ srv = FALSE /\ (recorder # None \/ net \in {"launch", "install"}) =>
    net = "stopRec" \/ \E i \in 1 .. Len(toClient) : toClient[i] = No

LawInv == MessageTypes /\ Forbidden /\ Between /\ Reported /\ WillStop

LEMMA AppendMessage ==
  ASSUME NEW M, NEW q \in Seq(M), NEW m \in M
  PROVE  /\ Append(q, m) \in Seq(M)
         /\ Len(Append(q, m)) = Len(q) + 1 /\ Len(q) \in Nat
         /\ \A i \in 1 .. Len(q) : Append(q, m)[i] = q[i]
         /\ Append(q, m)[Len(q) + 1] = m
  OBVIOUS

LEMMA TakeMessage ==
  ASSUME NEW M, NEW q \in Seq(M), q # <<>>
  PROVE  /\ Tail(q) \in Seq(M)
         /\ Len(q) \in Nat \ {0} /\ Len(Tail(q)) = Len(q) - 1
         /\ Head(q) = q[1] /\ q[1] \in M
         /\ \A i \in 1 .. Len(q) - 1 : Tail(q)[i] = q[i + 1]
  OBVIOUS

\* Actions that move no message and leave the server alone.
LEMMA QuietStep ==
  ASSUME HoldersInv, LawInv,
         \/ StartRecording \/ StopRecording \/ UiStopped
         \/ Launch \/ LaunchFailed \/ Install \/ NetDetach \/ NetStopped
         \/ OnDisconnect \/ OnConnect \/ ResetRecording \/ InstallStream
  PROVE  LawInv'
<1> USE DEF LawInv, user, reader, server, connection
<1>1. UNCHANGED <<toServer, toClient, srv>>
  BY DEF StartRecording, StopRecording, UiStopped, Launch, LaunchFailed, Install, NetDetach,
         NetStopped, OnDisconnect, OnConnect, ResetRecording, InstallStream
<1>2. MessageTypes' /\ Reported'
  BY <1>1 DEF MessageTypes, Reported
<1>3. CASE StartRecording
  BY <1>2, <1>3 DEF StartRecording, Forbidden, Between, WillStop
<1>4. CASE StopRecording \/ UiStopped \/ InstallStream
  BY <1>2, <1>4 DEF StopRecording, UiStopped, InstallStream, DetachRecorder,
                    Forbidden, Between, WillStop
<1>5. CASE Launch \/ LaunchFailed
  BY <1>2, <1>5 DEF HoldersInv, Launch, LaunchFailed, Forbidden, Between, WillStop
<1>6. CASE Install
  BY <1>2, <1>6 DEF Install, Forbidden, Between, WillStop
<1>7. CASE NetDetach \/ NetStopped
  BY <1>2, <1>7 DEF NetDetach, NetStopped, DetachRecorder, Forbidden, Between, WillStop
<1>8. CASE OnDisconnect \/ OnConnect \/ ResetRecording
  BY <1>2, <1>8 DEF OnDisconnect, OnConnect, ResetRecording, DetachRecorder,
                    Forbidden, Between, WillStop
<1> QED BY <1>3, <1>4, <1>5, <1>6, <1>7, <1>8

LEMMA SendStep ==
  ASSUME LawInv, UiSends \/ NetSends \/ LinkLost
  PROVE  LawInv'
<1> USE DEF LawInv, user, reader, server, connection
<1>1. CASE LinkLost
  <2>1. /\ toServer' = <<>> /\ toClient' = <<>> /\ srv' = FALSE /\ link' = "lost"
        /\ UNCHANGED <<recorder, starting, allowed, net, netNotify>>
    BY <1>1 DEF LinkLost
  <2>2. MessageTypes'
    BY <2>1, EmptySeq DEF MessageTypes
  <2>3. Forbidden' /\ Between' /\ WillStop'
    BY <2>1 DEF Forbidden, Between, WillStop
  <2>4. Reported'
    BY <2>1 DEF Reported
  <2> QED BY <2>2, <2>3, <2>4
<1>2. CASE UiSends \/ NetSends
  <2>1. PICK value \in BOOLEAN : SetRecording(value)
    BY <1>2 DEF UiSends, NetSends
  <2>2. toServer' \in Seq(BOOLEAN)
    <3>1. toServer \in Seq(BOOLEAN)
      BY DEF MessageTypes
    <3>2. toServer' = toServer \/ toServer' = Append(toServer, value)
      BY <2>1 DEF SetRecording
    <3> QED BY <3>1, <3>2, AppendMessage
  <2>3. /\ UNCHANGED <<recorder, starting, allowed, toClient, srv, link, netNotify>>
        /\ net' = net \/ (net = "sendStop" /\ net' = "idle")
    BY <1>2 DEF UiSends, NetSends
  <2> QED BY <2>2, <2>3 DEF MessageTypes, Forbidden, Between, Reported, WillStop
<1> QED BY <1>1, <1>2

LEMMA ServerStep ==
  ASSUME LawInv, ServerApplies \/ ServerConfig \/ ServerKicks
  PROVE  LawInv'
<1> USE DEF LawInv, user, reader, server, connection
<1>1. UNCHANGED <<recorder, starting, allowed, net, netNotify, link>>
  BY DEF ServerApplies, ServerConfig, ServerKicks
<1>2. toServer' \in Seq(BOOLEAN)
  <2>1. toServer \in Seq(BOOLEAN)
    BY DEF MessageTypes
  <2>2. toServer' = toServer \/ (toServer # <<>> /\ toServer' = Tail(toServer))
    BY DEF ServerApplies, ServerConfig, ServerKicks
  <2> QED BY <2>1, <2>2, TakeMessage
<1>3. \/ UNCHANGED <<srv, toClient>>
      \/ \E m \in Messages :
           /\ toClient' = Append(toClient, m)
           /\ \/ srv' = srv /\ m # Yes
              \/ srv' = TRUE /\ m = Yes
              \/ srv' = FALSE /\ m = No
  <2>1. CASE ServerApplies
    <3>1. CASE UNCHANGED <<srv, toClient>>
      BY <3>1
    <3>2. CASE srv' = Head(toServer) /\ toClient' = Append(toClient, [kind |-> "recording", value |-> srv'])
      <4>1. srv' = TRUE \/ srv' = FALSE
        <5>1. toServer # <<>> /\ toServer \in Seq(BOOLEAN)
          BY <2>1 DEF ServerApplies, MessageTypes
        <5>2. toServer[1] \in BOOLEAN /\ srv' = toServer[1]
          BY <5>1, <3>2, TakeMessage
        <5> HIDE DEF LawInv
        <5> QED BY <5>2, Zenon
      <4>2. CASE srv' = TRUE
        <5>1. toClient' = Append(toClient, Yes) /\ Yes \in Messages
          BY <3>2, <4>2 DEF Yes, Messages
        <5> QED BY <4>2, <5>1
      <4>3. CASE srv' = FALSE
        <5>1. toClient' = Append(toClient, No) /\ No \in Messages
          BY <3>2, <4>3 DEF No, Messages
        <5> QED BY <4>3, <5>1
      <4> QED BY <4>1, <4>2, <4>3
    <3> QED BY <2>1, <3>1, <3>2 DEF ServerApplies
  <2>2. CASE ServerConfig
    <3>1. PICK value \in BOOLEAN : toClient' = Append(toClient, [kind |-> "allowed", value |-> value])
      BY <2>2 DEF ServerConfig
    <3>2. [kind |-> "allowed", value |-> value] \in Messages
          /\ [kind |-> "allowed", value |-> value] # Yes /\ srv' = srv
      BY <2>2 DEF ServerConfig, Messages, Yes
    <3> QED BY <3>1, <3>2
  <2>3. CASE ServerKicks
    <3>1. /\ toClient' = Append(toClient, [kind |-> "kick", value |-> TRUE]) /\ srv' = srv
          /\ [kind |-> "kick", value |-> TRUE] \in Messages
          /\ [kind |-> "kick", value |-> TRUE] # Yes
      BY <2>3 DEF ServerKicks, Messages, Yes
    <3> QED BY <3>1
  <2> QED BY <2>1, <2>2, <2>3
<1>4. Forbidden' /\ Between'
  BY <1>1 DEF Forbidden, Between
<1>5. CASE UNCHANGED <<srv, toClient>>
  BY <1>1, <1>2, <1>4, <1>5 DEF MessageTypes, Reported, WillStop
<1>6. ASSUME NEW m \in Messages, toClient' = Append(toClient, m),
             \/ srv' = srv /\ m # Yes
             \/ srv' = TRUE /\ m = Yes
             \/ srv' = FALSE /\ m = No
      PROVE  LawInv'
  <2> DEFINE n == Len(toClient)
  <2>1. /\ toClient' \in Seq(Messages) /\ Len(toClient') = n + 1 /\ n \in Nat
        /\ \A i \in 1 .. n : toClient'[i] = toClient[i]
        /\ toClient'[n + 1] = m
    BY <1>6, AppendMessage DEF MessageTypes
  <2>2. MessageTypes'
    BY <1>2, <1>6, <2>1 DEF MessageTypes
  <2>3. CASE srv' = srv /\ m # Yes
    BY <2>1, <2>2, <2>3, <1>1, <1>4 DEF Reported, WillStop
  <2>4. CASE srv' = TRUE /\ m = Yes
    BY <2>1, <2>2, <2>4, <1>1, <1>4 DEF Reported, WillStop
  <2>5. CASE srv' = FALSE /\ m = No
    <3>1. \A i \in 1 .. n + 1 : toClient'[i] = Yes => n + 1 \in i + 1 .. n + 1
      BY <2>1, <2>5 DEF Yes, No
    <3>2. Reported'
      BY <2>1, <2>5, <3>1 DEF Reported
    <3>3. WillStop'
      BY <2>1, <2>5 DEF WillStop
    <3> QED BY <2>2, <3>2, <3>3, <1>4
  <2> QED BY <1>6, <2>3, <2>4, <2>5
<1> QED BY <1>3, <1>5, <1>6

\* The reader takes the oldest message.
LEMMA HandleStep ==
  ASSUME HoldersInv, LawInv, RecordingChanged \/ RecordingAllowed \/ Removed
  PROVE  LawInv'
<1> DEFINE n == Len(toClient)
<1> USE DEF LawInv, user, reader, server, connection
<1>1. /\ net = "idle" /\ link = "up" /\ toClient # <<>> /\ toClient' = Tail(toClient)
      /\ UNCHANGED <<recorder, starting, toServer, srv, link, netNotify>>
  BY DEF RecordingChanged, RecordingAllowed, Removed, Handle
<1>2. /\ toClient' \in Seq(Messages) /\ n \in Nat \ {0} /\ Len(toClient') = n - 1
      /\ Head(toClient) = toClient[1] /\ toClient[1] \in Messages
      /\ \A i \in 1 .. n - 1 : toClient'[i] = toClient[i + 1]
  BY <1>1, TakeMessage DEF MessageTypes
<1>3. MessageTypes'
  BY <1>1, <1>2 DEF MessageTypes
<1>4. Reported'
  <2> SUFFICES ASSUME NEW i \in 1 .. n - 1, srv = FALSE, toClient'[i] = Yes
               PROVE  \E j \in i + 1 .. n - 1 : toClient'[j] = No
    BY <1>1, <1>2 DEF Reported
  <2>1. i + 1 \in 1 .. n /\ toClient[i + 1] = Yes
    BY <1>2
  <2>2. PICK j \in i + 2 .. n : toClient[j] = No
    BY <2>1 DEF Reported
  <2>3. j - 1 \in i + 1 .. n - 1 /\ toClient'[j - 1] = No
    BY <1>2, <2>2
  <2> QED BY <2>3
<1>5. \A i \in 2 .. n : toClient[i] = No => \E j \in 1 .. Len(toClient') : toClient'[j] = No
  <2> SUFFICES ASSUME NEW i \in 2 .. n, toClient[i] = No
               PROVE  \E j \in 1 .. Len(toClient') : toClient'[j] = No
    OBVIOUS
  <2>1. i - 1 \in 1 .. n - 1 /\ toClient'[i - 1] = No
    BY <1>2
  <2> QED BY <1>2, <2>1
<1>6. CASE RecordingAllowed \/ Removed
  <2>1. toClient[1] # No /\ net' \in {"idle", "stopForbidden"}
    BY <1>1, <1>2, <1>6 DEF RecordingAllowed, Removed, Handle, No
  <2>2. Forbidden'
    BY <1>1, <1>6 DEF RecordingAllowed, Removed, Forbidden
  <2>3. Between'
    BY <1>1, <2>1 DEF Between
  <2>4. WillStop'
    BY <1>1, <1>2, <1>5, <2>1 DEF WillStop
  <2> QED BY <1>3, <1>4, <2>2, <2>3, <2>4
<1>7. CASE RecordingChanged
  <2>1. toClient[1] = Yes \/ toClient[1] = No
    BY <1>1, <1>2, <1>7 DEF RecordingChanged, Handle, Messages, Yes, No
  <2>2. allowed' = allowed /\ net' \in {"idle", "launch", "stopRec"}
    BY <1>7 DEF RecordingChanged
  <2>3. Forbidden' /\ Between'
    BY <1>1, <2>2 DEF Forbidden, Between
  <2>4. CASE toClient[1] = Yes
    <3>1. srv = FALSE => \E i \in 2 .. n : toClient[i] = No
      BY <1>2, <2>4 DEF Reported
    <3>2. WillStop'
      BY <1>1, <1>5, <3>1 DEF WillStop
    <3> QED BY <1>3, <1>4, <2>3, <3>2
  <2>5. CASE toClient[1] = No
    <3>1. net' = IF recorder # None THEN "stopRec" ELSE "idle"
      BY <1>2, <1>7, <2>5 DEF RecordingChanged, No
    <3>2. WillStop'
      BY <1>1, <3>1 DEF WillStop
    <3> QED BY <1>3, <1>4, <2>3, <3>2
  <2> QED BY <2>1, <2>4, <2>5
<1> QED BY <1>6, <1>7

LEMMA LawInvStep == HoldersInv /\ LawInv /\ [Next]_vars => LawInv'
<1> SUFFICES ASSUME HoldersInv, LawInv, [Next]_vars PROVE LawInv'
  OBVIOUS
<1>1. CASE Act
  BY <1>1, QuietStep, SendStep, ServerStep, HandleStep DEF Act
<1>2. CASE UNCHANGED vars
  BY <1>2 DEF vars, user, reader, server, connection, LawInv, MessageTypes, Forbidden, Between,
              Reported, WillStop
<1> QED BY <1>1, <1>2 DEF Next, Crash

\* Nobody is recorded where the server forbids it, without the server showing it
\* once everything has been said, or after the connection has ended
\* (recording_control.go:64-189).
THEOREM Lawful == Spec => []RecordingIsLawful
<1> DEFINE Inv == HoldersInv /\ EncodersOwned /\ LawInv
<1>1. Init => Inv
  <2> SUFFICES ASSUME Init PROVE Inv
    OBVIOUS
  <2>1. HoldersInv /\ EncodersOwned
    BY DEF Init, HoldersInv, EncodersOwned, NoOrphanEncoder, StreamFeedsInstalled
  <2>2. MessageTypes
    BY EmptySeq DEF Init, MessageTypes
  <2>3. Forbidden /\ Between /\ Reported /\ WillStop
    BY DEF Init, Forbidden, Between, Reported, WillStop
  <2> QED BY <2>1, <2>2, <2>3 DEF LawInv
<1>2. Inv /\ [Next]_vars => Inv'
  BY HoldersStep, OwnedStep, LawInvStep
<1>3. Inv => RecordingIsLawful
  <2> SUFFICES ASSUME Inv PROVE RecordingIsLawful
    OBVIOUS
  <2>1. ForbiddenIsObeyed
    BY DEF ForbiddenIsObeyed, LawInv, Forbidden
  <2>2. NeverSecret
    BY DEF NeverSecret, Quiet, LawInv, MessageTypes, WillStop
  <2>3. EndsWithConnection
    BY RecordingAssumption DEF EndsWithConnection, LawInv, Between, HoldersInv, EncodersOwned,
                               NoOrphanEncoder
  <2> QED BY <2>1, <2>2, <2>3 DEF RecordingIsLawful
<1> QED BY <1>1, <1>2, <1>3, PTL DEF Spec

=============================================================================
