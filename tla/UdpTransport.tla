---------------------------- MODULE UdpTransport ----------------------------
(***************************************************************************)
(* The UDP side of one gumble Client: the goroutine in DialWithDialer that *)
(* opens the socket, readRoutine with its CryptSetup handler and its       *)
(* clean-up, the UDP reader and pinger it starts, and the goroutines that  *)
(* write audio. A packet is written in three steps under udpWriteMu: take  *)
(* the crypto state, advance its IV, write to the socket.                  *)
(*                                                                         *)
(* Keys are numbered in the order the server hands them out; a packet on   *)
(* the wire is its key and its IV. cryptState15 itself is CryptWindow's.   *)
(***************************************************************************)
EXTENDS Integers, FiniteSets

CONSTANTS
  Senders,   \* goroutines of AudioOutgoing
  Pinger,    \* udpPingRoutine
  KeepAlive, \* pingRoutine, which writes to the TCP connection
  NoWriter,  \* a mutex is free
  FrameStep, \* 10 ms units in an audio packet: AudioFrameSize / AudioDefaultFrameSize
  MaxKeys,   \* bound: full CryptSetups
  MaxPackets, \* bound: packets encrypted with one key
  MaxUnsent  \* bound: frame numbers taken without UDP

ASSUME UdpAssumption ==
  /\ Pinger \notin Senders /\ KeepAlive \notin Senders \cup {Pinger}
  /\ NoWriter \notin Senders \cup {Pinger, KeepAlive}
  /\ FrameStep \in Nat \ {0} /\ MaxKeys \in Nat /\ MaxPackets \in Nat /\ MaxUnsent \in Nat

Writers == Senders \cup {Pinger}
ConnWriters == Senders \cup {KeepAlive}

VARIABLES
  dial,     \* startUDP: "start", "dialled", "done"
  tcp,      \* readRoutine: "reading", "decide", "ended", "done"
  sock,     \* the socket: "none", "dialled", "open" (it is c.udpConn), "closed"
  started,  \* c.udpStarted
  active,   \* c.udpActive
  protobuf, \* c.udpProtobuf
  key,      \* which key udpCryptoOut and udpCryptoIn hold, 0 before the first
  frame,    \* c.udpFrameNumber
  iv,       \* how often each key's encryptIV was advanced
  reader,   \* udpReadRoutine: "absent", "starting", "reading", "proved", "ended"
  readers,  \* history: how many readers were started
  pinging,  \* udpPingRoutine: "absent", "running", "ended"
  writeMu,  \* who holds udpWriteMu
  job,      \* what each writer is writing: pc, key, IV, frame number, pieces left
  connMu,   \* who holds the mutex of c.Conn
  message,  \* what the TCP connection is in the middle of: whose message, and how many
            \* pieces are to follow; Torn when a write has failed
  wire,     \* history: key and IV of the last packet on the wire
  voice     \* history: key and frame number of the last protobuf audio packet there

handshake == <<dial, started, reader, readers, pinging>>
tunnel == <<connMu, message>>
sending == <<writeMu, job, iv, wire, voice, tunnel>>
vars == <<dial, tcp, sock, started, active, protobuf, key, frame, iv, reader, readers,
          pinging, writeMu, job, wire, voice, tunnel>>

Idle == [pc |-> "idle", key |-> 0, iv |-> 0, frame |-> -1, left |-> 0]

Between == [of |-> NoWriter, left |-> 0]
Torn == [of |-> NoWriter, left |-> 1]

Init ==
  /\ dial = "start" /\ tcp = "reading" /\ sock = "none"
  /\ started = FALSE /\ active = FALSE /\ protobuf = FALSE
  /\ key = 0 /\ frame = 0 /\ iv = [k \in 1 .. MaxKeys |-> 0]
  /\ reader = "absent" /\ readers = 0 /\ pinging = "absent"
  /\ writeMu = NoWriter /\ job = [w \in Writers \cup {KeepAlive} |-> Idle]
  /\ wire = [key |-> 0, iv |-> 0]
  /\ voice = [key |-> 0, frame |-> 0]
  /\ connMu = NoWriter /\ message = Between

-----------------------------------------------------------------------------
(* startUDP, on the dialling goroutine                                     *)

\* DialUDP only makes a socket; it fails when the process has no more of them.
DialUDP ==
  /\ dial = "start"
  /\ \/ dial' = "dialled" /\ sock' = "dialled"
     \/ dial' = "done" /\ UNCHANGED sock
  /\ UNCHANGED <<tcp, started, active, protobuf, key, frame, reader, readers, pinging, sending>>

\* c.udpConn = conn, whatever became of the client meanwhile.
PublishSocket ==
  /\ dial = "dialled"
  /\ dial' = "done" /\ sock' = "open"
  /\ UNCHANGED <<tcp, started, active, protobuf, key, frame, reader, readers, pinging, sending>>

-----------------------------------------------------------------------------
(* readRoutine                                                             *)

\* The server says its version before it hands out a key.
HandleVersion ==
  /\ tcp = "reading" /\ key = 0
  /\ \E modern \in BOOLEAN : protobuf' = modern
  /\ UNCHANGED <<tcp, sock, active, key, frame, handshake, sending>>

\* Both directions are replaced at once, under udpWriteMu and udpMu.
setUDP15Crypto == writeMu = NoWriter /\ key' = key + 1 /\ frame' = 0

\* handleCryptSetup with all three fields.
InstallKey ==
  /\ tcp = "reading" /\ key < MaxKeys
  /\ tcp' = "decide" /\ setUDP15Crypto
  /\ UNCHANGED <<sock, active, protobuf, handshake, sending>>

\* handleCryptSetup with fields missing, such as a resynchronisation.
PartialCryptSetup ==
  /\ tcp = "reading"
  /\ tcp' = "decide"
  /\ UNCHANGED <<sock, active, protobuf, key, frame, handshake, sending>>

\* The end of handleCryptSetup, under udpMu.
StartRoutines ==
  /\ tcp = "decide"
  /\ tcp' = "reading"
  /\ IF key > 0 /\ sock = "open" /\ ~started
     THEN /\ started' = TRUE
          /\ reader' = "starting" /\ readers' = readers + 1
          /\ pinging' = "running"
     ELSE UNCHANGED <<started, reader, readers, pinging>>
  /\ UNCHANGED <<dial, sock, active, protobuf, key, frame, sending>>

\* A UDPTunnel packet is ignored once UDP is active, else dispatched.
IgnoresTunnel == active

\* ReadPacket fails: the loop ends and c.end is closed.
ReadFails ==
  /\ tcp = "reading"
  /\ tcp' = "ended"
  /\ UNCHANGED <<sock, active, protobuf, key, frame, handshake, sending>>

\* Mutant: the socket is forgotten, not closed.
CleanUp_NoClose ==
  /\ tcp = "ended"
  /\ tcp' = "done" /\ active' = FALSE
  /\ UNCHANGED <<sock, protobuf, key, frame, handshake, sending>>

CleanUp ==
  /\ tcp = "ended"
  /\ tcp' = "done" /\ active' = FALSE
  /\ sock' = IF sock = "open" THEN "closed" ELSE sock
  /\ UNCHANGED <<protobuf, key, frame, handshake, sending>>

-----------------------------------------------------------------------------
(* udpReadRoutine                                                          *)

\* It takes c.udpConn, which may be gone by now.
ReaderBegins ==
  /\ reader = "starting"
  /\ reader' = IF sock = "open" THEN "reading" ELSE "ended"
  /\ UNCHANGED <<dial, tcp, sock, started, active, protobuf, key, frame, readers, pinging, sending>>

\* A datagram that the server encrypted with the key the client holds now. One
\* of another key fails authentication and changes nothing here.
Authenticate ==
  /\ reader = "reading" /\ sock = "open"
  /\ reader' = "proved"
  /\ UNCHANGED <<dial, tcp, sock, started, active, protobuf, key, frame, readers, pinging, sending>>

MarkActive ==
  /\ reader = "proved"
  /\ reader' = "reading" /\ active' = TRUE
  /\ UNCHANGED <<dial, tcp, sock, started, protobuf, key, frame, readers, pinging, sending>>

\* ReadFromUDP fails: the socket was closed, or an ICMP error came back to this
\* connected socket. Either ends the reader for good.
ReaderFails ==
  /\ reader = "reading"
  /\ reader' = "ended"
  /\ UNCHANGED <<dial, tcp, sock, started, active, protobuf, key, frame, readers, pinging, sending>>

\* udpPingRoutine sees c.end closed.
PingerEnds ==
  /\ pinging = "running" /\ tcp \in {"ended", "done"}
  /\ job[Pinger] = Idle
  /\ pinging' = "ended"
  /\ UNCHANGED <<dial, tcp, sock, started, active, protobuf, key, frame, reader, readers, sending>>

-----------------------------------------------------------------------------
(* Writing to UDP                                                          *)

udp == <<dial, tcp, sock, started, active, protobuf, key, reader, readers, pinging>>

CanSend(w) ==
  /\ job[w] = Idle
  /\ key > 0 /\ sock = "open"
  /\ iv[key] < MaxPackets  \* bound

\* Audio in the protobuf form takes the next frame number; the legacy form has the
\* sequence of the talk burst, and a ping has none.
Numbered(w) == protobuf /\ w # Pinger
TakesNumber(w) == frame' = IF Numbered(w) THEN frame + 1 ELSE frame
Job(w) == [Idle EXCEPT !.pc = "encrypt", !.key = key, !.frame = IF Numbered(w) THEN frame ELSE -1]

\* Mutant: writers do not exclude each other.
BeginSend_NoWriteLock(w) ==
  /\ CanSend(w)
  /\ job' = [job EXCEPT ![w] = Job(w)]
  /\ TakesNumber(w)
  /\ UNCHANGED <<udp, iv, writeMu, wire, voice, tunnel>>

\* WriteAudioUDP15 and sendUDPPing: lock udpWriteMu and take the crypto state,
\* the socket and the frame number.
BeginSend(w) ==
  /\ CanSend(w) /\ writeMu = NoWriter
  /\ writeMu' = w
  /\ job' = [job EXCEPT ![w] = Job(w)]
  /\ TakesNumber(w)
  /\ UNCHANGED <<udp, iv, wire, voice, tunnel>>

\* udpPingRoutine's tick.
sendUDPPing == pinging = "running" /\ BeginSend(Pinger)

\* Without crypto state or socket audio takes a number all the same, and is sent by
\* the tunnel; a ping is not sent.
NoUdp(w) ==
  /\ job[w] = Idle /\ writeMu = NoWriter /\ (key = 0 \/ sock # "open")
  /\ frame < MaxUnsent  \* bound
  /\ job' = [job EXCEPT ![w].pc = "fallback"]
  /\ TakesNumber(w)
  /\ UNCHANGED <<udp, iv, writeMu, wire, voice, tunnel>>

\* encrypt15 advances the IV of the key that was taken.
Encrypt(w) ==
  /\ job[w].pc = "encrypt"
  /\ iv' = [iv EXCEPT ![job[w].key] = @ + 1]
  /\ job' = [job EXCEPT ![w].pc = "write", ![w].iv = iv[job[w].key] + 1]
  /\ UNCHANGED <<udp, frame, writeMu, wire, voice, tunnel>>

\* udpConn.Write: the packet leaves, or the write fails (a closed socket, an
\* error the network sent back) and audio falls back to the tunnel.
Write(w) ==
  /\ job[w].pc = "write"
  /\ \/ /\ sock = "open"
        /\ wire' = [key |-> job[w].key, iv |-> job[w].iv]
        /\ voice' = IF job[w].frame >= 0
                    THEN [key |-> job[w].key, frame |-> job[w].frame] ELSE voice
        /\ job' = [job EXCEPT ![w] = Idle]
     \/ /\ job' = [job EXCEPT ![w] = IF w = Pinger THEN Idle ELSE [Idle EXCEPT !.pc = "fallback"]]
        /\ UNCHANGED <<wire, voice>>
  /\ writeMu' = NoWriter
  /\ UNCHANGED <<udp, frame, iv, tunnel>>

-----------------------------------------------------------------------------
(* Writing to the TCP connection                                           *)

\* Lock c.Conn for a message of so many writes.
BeginMessage(w, pieces) ==
  /\ connMu = NoWriter
  /\ connMu' = w
  /\ job' = [job EXCEPT ![w] = [Idle EXCEPT !.pc = "piece", !.left = pieces]]
  /\ UNCHANGED <<udp, frame, iv, writeMu, wire, voice, message>>

\* WritePacket writes the header and the data; WriteAudio has a header of its own
\* between them, and no position to add: the caller has none.
WritePacket == 2
WriteAudio == 3

\* The end of Client.WriteAudio: the tunnel, in the form the server understands.
Fallback(w) ==
  /\ job[w].pc = "fallback"
  /\ BeginMessage(w, IF protobuf THEN WritePacket ELSE WriteAudio)

\* A protocol message is marshalled first and is one packet.
WriteProto(w) == BeginMessage(w, WritePacket)

\* pingRoutine writes a Ping, whether or not the last one was answered, until the
\* client ends.
Ping ==
  /\ job[KeepAlive] = Idle /\ tcp \in {"reading", "decide"}
  /\ WriteProto(KeepAlive)

\* What a message leaves the connection in the middle of.
Rest(w) == IF job[w].left = 1 THEN Between ELSE [of |-> w, left |-> job[w].left - 1]

\* What is left to a writer after one write.
After(w) == IF job[w].left = 1 THEN Idle ELSE [job[w] EXCEPT !.left = @ - 1]

\* Mutant: the mutex is held for one write at a time.
WritePiece_Unlocks(w) ==
  /\ job[w].pc = "piece" /\ message # Torn /\ connMu \in {w, NoWriter}
  /\ message' = Rest(w)
  /\ job' = [job EXCEPT ![w] = After(w)]
  /\ connMu' = NoWriter
  /\ UNCHANGED <<udp, frame, iv, writeMu, wire, voice>>

\* One write to the connection. When one fails the rest of the message is not tried,
\* and the connection fails ever after.
WritePiece(w) ==
  /\ job[w].pc = "piece"
  /\ \/ /\ message # Torn
        /\ message' = Rest(w)
        /\ job' = [job EXCEPT ![w] = After(w)]
     \/ /\ message' = Torn
        /\ job' = [job EXCEPT ![w] = Idle]
  /\ connMu' = IF job'[w] = Idle THEN NoWriter ELSE w
  /\ UNCHANGED <<udp, frame, iv, writeMu, wire, voice>>

-----------------------------------------------------------------------------

\* The client has ended and its goroutines with it.
Ended ==
  /\ tcp = "done" /\ dial = "done" /\ reader \in {"absent", "ended"}
  /\ pinging \in {"absent", "ended"} /\ \A w \in Writers \cup {KeepAlive} : job[w] = Idle
  /\ UNCHANGED vars

Next ==
  \/ DialUDP \/ PublishSocket
  \/ HandleVersion \/ InstallKey \/ PartialCryptSetup \/ StartRoutines
  \/ ReadFails \/ CleanUp
  \/ ReaderBegins \/ Authenticate \/ MarkActive \/ ReaderFails \/ PingerEnds
  \/ sendUDPPing \/ \E w \in Senders : BeginSend(w) \/ NoUdp(w) \/ Fallback(w)
  \/ \E w \in Writers : Encrypt(w) \/ Write(w)
  \/ Ping \/ \E w \in ConnWriters : WritePiece(w)
  \/ Ended

Spec == Init /\ [][Next]_vars

\* Goroutines that can go on do. A closed socket makes ReadFromUDP fail; while
\* it is open nothing need arrive. The pinger's select, which may prefer a tick
\* to c.end, does not do so for ever.
Fairness ==
  /\ WF_vars(DialUDP) /\ WF_vars(PublishSocket)
  /\ WF_vars(StartRoutines) /\ WF_vars(CleanUp)
  /\ WF_vars(ReaderBegins) /\ WF_vars(MarkActive)
  /\ WF_vars(ReaderFails /\ sock = "closed") /\ SF_vars(PingerEnds)
  /\ \A w \in Writers : WF_vars(Encrypt(w)) /\ WF_vars(Write(w))

FairSpec == Spec /\ Fairness

-----------------------------------------------------------------------------
(* Properties                                                              *)

TypeOK ==
  /\ dial \in {"start", "dialled", "done"}
  /\ tcp \in {"reading", "decide", "ended", "done"}
  /\ sock \in {"none", "dialled", "open", "closed"}
  /\ started \in BOOLEAN /\ active \in BOOLEAN /\ protobuf \in BOOLEAN
  /\ key \in 0 .. MaxKeys /\ frame \in Nat
  /\ iv \in [1 .. MaxKeys -> 0 .. MaxPackets]
  /\ reader \in {"absent", "starting", "reading", "proved", "ended"}
  /\ readers \in 0 .. 1
  /\ pinging \in {"absent", "running", "ended"}
  /\ writeMu \in Writers \cup {NoWriter}
  /\ job \in [Writers \cup {KeepAlive} -> [pc : {"idle", "encrypt", "write", "fallback", "piece"}, key : 0 .. MaxKeys,
                          iv : 0 .. MaxPackets, frame : Nat \cup {-1}, left : 0 .. WriteAudio]]
  /\ connMu \in ConnWriters \cup {NoWriter}
  /\ message \in [of : ConnWriters \cup {NoWriter}, left : 0 .. WriteAudio - 1]
  /\ wire \in [key : 0 .. MaxKeys, iv : 0 .. MaxPackets]
  /\ voice \in [key : 0 .. MaxKeys, frame : Nat]

\* "Encryption and socket writes must remain ordered: otherwise a later packet can
\* reach the server before the packet with the preceding IV" (udp15.go:614-615). No
\* IV is used twice either, audio frames are numbered in the order they leave, and
\* once CryptSetup has installed a key, no packet of an older one leaves.
WireInOrder == [][
  /\ wire' # wire => /\ wire'.key = key
                     /\ wire'.key > wire.key \/ wire'.iv > wire.iv
  /\ voice' # voice => voice'.key > voice.key \/ voice'.frame > voice.frame
  ]_vars

\* A message on the TCP connection is not torn apart by another one: voice in the
\* tunnel, the pings and everything else share it (conn.go:98-99, 130-131).
MessagesAreWhole == [][
  message.of # NoWriter =>
    \/ message' \in {message, Torn}
    \/ message' = IF message.left = 1 THEN Between ELSE [message EXCEPT !.left = @ - 1]]_vars

\* When the connection ends, its UDP reader and pinger end too: neither blocks on
\* the socket, or misses the end of the client, for ever (client.go:346-357).
RoutinesEnd == tcp = "done" ~> reader \in {"absent", "ended"} /\ pinging \in {"absent", "ended"}

\* "markUDPActive switches outgoing audio to UDP only after authentication has
\* proved that packets can return through the network path" (udp15.go:714-715).
AudioWaitsForProof == [][\A w \in Senders :
  job[w].pc = "idle" /\ job'[w].pc = "encrypt" => active]_vars

\* "Start UDP transport immediately so it's ready when CryptSetup arrives during
\* the sync handshake" (client.go:211-212): with a key and a socket, the reader
\* is started.
ReaderStarts == key > 0 /\ sock = "open" ~> readers > 0 \/ tcp # "reading"

\* TCP audio is not "discarded on blocked inbound UDP paths"
\* (udp_fallback_regression_test.go:5-6): what is ignored can arrive by UDP.
TunnelHeardWithoutUdp == IgnoresTunnel => reader # "ended"

\* "Frame numbers are timestamps in 10 ms units, not packet counters"
\* (udp15.go:816): they advance by the length of a packet.
FrameNumbersAreTimestamps == [][
  voice' # voice /\ voice'.key = voice.key => voice'.frame - voice.frame >= FrameStep]_vars

=============================================================================
