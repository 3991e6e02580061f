------------------------- MODULE UdpTransportProofs -------------------------
(***************************************************************************)
(* Theorems about UdpTransport, for any number of audio goroutines, keys   *)
(* and packets, and about the receive window of CryptWindow, for bytes of  *)
(* any width.                                                              *)
(***************************************************************************)
EXTENDS UdpTransport, CryptWindow, TLAPS

\* The steps of the dialler, the readers and the handlers that leave alone what
\* the writers use, and there is a key before there is a packet.
Aside == UNCHANGED <<key, frame, iv, writeMu, job, wire, voice, connMu, message>>

LEMMA AsideSteps ==
  ASSUME \/ DialUDP \/ PublishSocket \/ HandleVersion \/ PartialCryptSetup \/ StartRoutines
         \/ ReadFails \/ CleanUp \/ ReaderBegins \/ Authenticate \/ MarkActive
         \/ ReaderFails \/ PingerEnds \/ Ended \/ UNCHANGED vars
  PROVE  Aside
<1> USE DEF Aside, sending, tunnel
<1>1. CASE DialUDP \/ PublishSocket
  BY <1>1 DEF DialUDP, PublishSocket
<1>2. CASE HandleVersion \/ PartialCryptSetup \/ StartRoutines \/ ReadFails \/ CleanUp
  BY <1>2 DEF HandleVersion, PartialCryptSetup, StartRoutines, ReadFails, CleanUp
<1>3. CASE ReaderBegins \/ Authenticate \/ MarkActive \/ ReaderFails \/ PingerEnds
  BY <1>3 DEF ReaderBegins, Authenticate, MarkActive, ReaderFails, PingerEnds
<1>4. CASE Ended \/ UNCHANGED vars
  BY <1>4 DEF Ended, vars
<1> QED BY <1>1, <1>2, <1>3, <1>4

-----------------------------------------------------------------------------
(* The TCP connection *)

AllWriters == Writers \cup {KeepAlive}
Jobs == [pc : {"idle", "encrypt", "write", "fallback", "piece"}, key : Nat, iv : Nat,
         frame : Int, left : Nat]
Messages == [of : ConnWriters \cup {NoWriter}, left : Nat]

LEMMA AnyWriter == Writers \subseteq AllWriters /\ ConnWriters \subseteq AllWriters
BY DEF AllWriters, Writers, ConnWriters

LEMMA IdleIsAJob == Idle \in Jobs /\ Idle.pc = "idle"
BY DEF Idle, Jobs

\* What the updates of a job make of it.
LEMMA Encrypted ==
  ASSUME NEW j \in Jobs, NEW i \in Nat
  PROVE  LET r == [j EXCEPT !.pc = "write", !.iv = i]
         IN r \in Jobs /\ r.pc = "write" /\ r.key = j.key /\ r.iv = i /\ r.frame = j.frame
BY DEF Jobs

LEMMA FallenBack ==
  ASSUME NEW j \in Jobs
  PROVE  LET r == [j EXCEPT !.pc = "fallback"] IN r \in Jobs /\ r.pc = "fallback"
BY DEF Jobs

LEMMA Begun ==
  ASSUME NEW j \in Jobs, NEW n \in Nat
  PROVE  LET r == [j EXCEPT !.pc = "piece", !.left = n]
         IN r \in Jobs /\ r.pc = "piece" /\ r.left = n
BY DEF Jobs

LEMMA Continued ==
  ASSUME NEW j \in Jobs, NEW n \in Nat
  PROVE  LET r == [j EXCEPT !.left = n] IN r \in Jobs /\ r.pc = j.pc /\ r.left = n
BY DEF Jobs

\* Who is in the middle of a message holds the mutex, and has that much of it left.
MessageInv ==
  /\ job \in [AllWriters -> Jobs] /\ message \in Messages
  /\ key \in Nat /\ frame \in Nat /\ iv \in [1 .. MaxKeys -> Nat]
  /\ \A w \in ConnWriters : job[w].pc = "piece" => connMu = w /\ job[w].left > 0
  /\ message.of # NoWriter =>
       /\ job[message.of].pc = "piece" /\ job[message.of].left = message.left
       /\ message.left > 0

LEMMA MessageInit == Init => MessageInv
<1> SUFFICES ASSUME Init PROVE MessageInv
  OBVIOUS
<1>1. job = [w \in AllWriters |-> Idle] /\ message = Between
  BY DEF Init, AllWriters
<1>2. key = 0 /\ frame = 0 /\ iv = [k \in 1 .. MaxKeys |-> 0]
  BY DEF Init
<1>3. Idle \in Jobs /\ Between \in Messages
  BY DEF Idle, Jobs, Between, Messages
<1>4. ConnWriters \subseteq AllWriters
  BY DEF ConnWriters, AllWriters, Writers
<1> QED BY <1>1, <1>2, <1>3, <1>4 DEF MessageInv, Idle, Between

\* A step of a writer that is not in the middle of a message, and does not begin one.
Elsewhere(w) ==
  /\ \E j \in Jobs : job' = [job EXCEPT ![w] = j] /\ j.pc # "piece"
  /\ job[w].pc # "piece"
  /\ UNCHANGED <<connMu, message, key>>
  /\ frame' \in Nat /\ iv' \in [1 .. MaxKeys -> Nat]

LEMMA ElsewhereKeeps ==
  ASSUME MessageInv, NEW w \in AllWriters, Elsewhere(w)
  PROVE  MessageInv'
<1>1. PICK j \in Jobs : job' = [job EXCEPT ![w] = j] /\ j.pc # "piece"
  BY DEF Elsewhere
<1>2. \A v \in AllWriters : job[v].pc = "piece" \/ job'[v].pc = "piece" => job'[v] = job[v]
  BY <1>1 DEF MessageInv, Elsewhere
<1>3. ConnWriters \subseteq AllWriters
  BY DEF ConnWriters, AllWriters, Writers
<1>4. message' = message /\ connMu' = connMu /\ key' = key
  BY DEF Elsewhere
<1>5. job' \in [AllWriters -> Jobs]
  BY <1>1 DEF MessageInv
<1>6. message.of # NoWriter => message.of \in ConnWriters
  BY DEF MessageInv, Messages
<1> QED BY <1>2, <1>3, <1>4, <1>5, <1>6 DEF MessageInv, Elsewhere

LEMMA SendElsewhere ==
  ASSUME MessageInv, NEW w \in Writers, BeginSend(w)
  PROVE  Elsewhere(w)
<1>1. w \in AllWriters /\ job[w] = Idle /\ job' = [job EXCEPT ![w] = Job(w)]
  BY DEF BeginSend, CanSend, AllWriters
<1>2. Job(w) \in Jobs /\ Job(w).pc = "encrypt"
  <2>1. key \in Nat /\ (IF Numbered(w) THEN frame ELSE -1) \in Int
    BY DEF MessageInv
  <2>2. PICK f \in Int : Job(w) = [Idle EXCEPT !.pc = "encrypt", !.key = key, !.frame = f]
    BY <2>1 DEF Job
  <2> DEFINE r == [Idle EXCEPT !.pc = "encrypt", !.key = key, !.frame = f]
  <2>3. r \in Jobs /\ r.pc = "encrypt"
    <3>1. key \in Nat
      BY DEF MessageInv
    <3> QED BY <3>1, IdleIsAJob DEF Jobs
  <2> HIDE DEF r
  <2> QED BY <2>2, <2>3 DEF r
<1>3. UNCHANGED <<connMu, message, key, iv>> /\ TakesNumber(w)
  BY DEF BeginSend, tunnel, udp
<1>4. frame' \in Nat
  BY <1>3 DEF MessageInv, TakesNumber
<1>5. job[w].pc # "piece" /\ Job(w).pc # "piece"
  BY <1>1, <1>2 DEF Idle
<1>6. iv' \in [1 .. MaxKeys -> Nat]
  BY <1>3 DEF MessageInv
<1> QED BY <1>1, <1>2, <1>3, <1>4, <1>5, <1>6 DEF Elsewhere

LEMMA NoUdpElsewhere ==
  ASSUME MessageInv, NEW w \in Senders, NoUdp(w)
  PROVE  Elsewhere(w)
<1>1. w \in AllWriters /\ job[w] = Idle /\ job' = [job EXCEPT ![w] = [Idle EXCEPT !.pc = "fallback"]]
  BY DEF NoUdp, AllWriters, Writers
<1>2. [Idle EXCEPT !.pc = "fallback"] \in Jobs /\ [Idle EXCEPT !.pc = "fallback"].pc # "piece"
  BY IdleIsAJob, FallenBack
<1>3. UNCHANGED <<connMu, message, key, iv>> /\ TakesNumber(w)
  BY DEF NoUdp, tunnel, udp
<1>4. frame' \in Nat
  BY <1>3 DEF MessageInv, TakesNumber
<1>5. job[w].pc # "piece"
  BY <1>1 DEF Idle
<1>6. iv' \in [1 .. MaxKeys -> Nat]
  BY <1>3 DEF MessageInv
<1> QED BY <1>1, <1>2, <1>3, <1>4, <1>5, <1>6 DEF Elsewhere

LEMMA EncryptElsewhere ==
  ASSUME MessageInv, NEW w \in Writers, Encrypt(w), job[w].key \in 1 .. MaxKeys
  PROVE  Elsewhere(w)
<1>1. w \in AllWriters /\ job[w] \in Jobs /\ job[w].pc = "encrypt"
  BY DEF Encrypt, AllWriters, MessageInv
<1> DEFINE j == [job[w] EXCEPT !.pc = "write", !.iv = iv[job[w].key] + 1]
<1>2. job' = [job EXCEPT ![w] = j]
  BY <1>1 DEF Encrypt, MessageInv
<1>3. iv[job[w].key] \in Nat
  BY DEF MessageInv
<1>4. j \in Jobs /\ j.pc = "write"
  <2>1. iv[job[w].key] + 1 \in Nat
    BY <1>3
  <2> QED BY <1>1, <2>1, Encrypted
<1>5. UNCHANGED <<connMu, message, key, frame>> /\ iv' \in [1 .. MaxKeys -> Nat]
  BY <1>3 DEF Encrypt, tunnel, udp, MessageInv
<1>6. j.pc # "piece" /\ job[w].pc # "piece" /\ frame' \in Nat
  BY <1>1, <1>4, <1>5 DEF MessageInv
<1> HIDE DEF j
<1> QED BY <1>2, <1>4, <1>5, <1>6 DEF Elsewhere

LEMMA WriteElsewhere ==
  ASSUME MessageInv, NEW w \in Writers, Write(w)
  PROVE  Elsewhere(w)
<1>1. w \in AllWriters /\ job[w].pc = "write"
  BY DEF Write, AllWriters
<1>2. PICK j \in {Idle, [Idle EXCEPT !.pc = "fallback"]} : job' = [job EXCEPT ![w] = j]
  BY DEF Write
<1>3. j \in Jobs /\ j.pc # "piece"
  BY <1>2, IdleIsAJob, FallenBack
<1>4. UNCHANGED <<connMu, message, key, frame, iv>>
  BY DEF Write, tunnel, udp
<1>5. job[w].pc # "piece"
  BY <1>1
<1>6. frame' \in Nat /\ iv' \in [1 .. MaxKeys -> Nat]
  BY <1>4 DEF MessageInv
<1> QED BY <1>2, <1>3, <1>4, <1>5, <1>6 DEF Elsewhere

LEMMA BeginKeeps ==
  ASSUME MessageInv, NEW w \in ConnWriters, NEW n \in Nat \ {0}, BeginMessage(w, n)
  PROVE  MessageInv'
<1> DEFINE j == [Idle EXCEPT !.pc = "piece", !.left = n]
<1>1. connMu = NoWriter /\ connMu' = w /\ job' = [job EXCEPT ![w] = j]
  BY DEF BeginMessage
<1>2. UNCHANGED <<key, frame, iv, message>>
  BY DEF BeginMessage, udp
<1>3. j \in Jobs /\ j.pc = "piece" /\ j.left = n
  BY IdleIsAJob, Begun
<1>4. w # NoWriter /\ w \in AllWriters /\ ConnWriters \subseteq AllWriters
  BY UdpAssumption DEF ConnWriters, AllWriters, Writers
<1>5. \A v \in ConnWriters : v # NoWriter
  BY UdpAssumption DEF ConnWriters
<1>6. \A v \in ConnWriters : job[v].pc # "piece"
  BY <1>1, <1>5 DEF MessageInv
<1>7. message.of = NoWriter
  BY <1>6 DEF MessageInv, Messages
<1> HIDE DEF j
<1>8. job' \in [AllWriters -> Jobs]
  BY <1>1, <1>3 DEF MessageInv
<1>9. \A v \in ConnWriters : job'[v].pc = "piece" => connMu' = v /\ job'[v].left > 0
  BY <1>1, <1>3, <1>4, <1>6 DEF MessageInv
<1> QED BY <1>2, <1>7, <1>8, <1>9 DEF MessageInv

\* A write goes on with the message the connection is in the middle of, or begins
\* one between two.
LEMMA WritePieceKeeps ==
  ASSUME MessageInv, NEW w \in ConnWriters, WritePiece(w)
  PROVE  /\ MessageInv'
         /\ message.of # NoWriter => message' \in {Torn, Rest(w)} /\ message.of = w
<1>1. w \in AllWriters /\ ConnWriters \subseteq AllWriters
  BY DEF ConnWriters, AllWriters, Writers
<1>2. job[w].pc = "piece" /\ connMu = w /\ job[w].left \in Nat \ {0}
  BY <1>1 DEF WritePiece, MessageInv, Jobs
<1>3. message.of # NoWriter => message.of = w
  BY <1>2 DEF MessageInv, Messages
<1>4. \A v \in ConnWriters : job[v].pc = "piece" => v = w
  BY <1>2 DEF MessageInv
<1>5. UNCHANGED <<key, frame, iv>> /\ connMu' = IF job'[w] = Idle THEN NoWriter ELSE w
  BY DEF WritePiece, udp
<1>6. Torn \in Messages /\ Torn.of = NoWriter /\ Between \in Messages /\ Between.of = NoWriter
  BY DEF Torn, Between, Messages
<1>7. Idle \in Jobs /\ Idle.pc = "idle"
  BY DEF Idle, Jobs
<1>8. CASE message' = Torn /\ job' = [job EXCEPT ![w] = Idle]
  <2>1. job' \in [AllWriters -> Jobs]
    BY <1>7, <1>8 DEF MessageInv
  <2>2. \A v \in ConnWriters : job'[v].pc # "piece"
    BY <1>1, <1>4, <1>7, <1>8 DEF MessageInv
  <2> QED BY <1>3, <1>5, <1>6, <1>8, <2>1, <2>2 DEF MessageInv
<1>9. CASE /\ message' = Rest(w)
           /\ job' = [job EXCEPT ![w] = After(w)]
  <2>1. CASE job[w].left = 1
    <3>1. message' = Between /\ job' = [job EXCEPT ![w] = Idle]
      BY <1>9, <2>1 DEF Rest, After
    <3>2. job' \in [AllWriters -> Jobs]
      BY <1>7, <3>1 DEF MessageInv
    <3>3. \A v \in ConnWriters : job'[v].pc # "piece"
      BY <1>1, <1>4, <1>7, <3>1 DEF MessageInv
    <3> QED BY <1>3, <1>5, <1>6, <1>9, <3>1, <3>2, <3>3 DEF MessageInv
  <2>2. CASE job[w].left # 1
    <3> DEFINE j == [job[w] EXCEPT !.left = @ - 1]
    <3>1. message' = [of |-> w, left |-> job[w].left - 1]
      BY <1>9, <2>2 DEF Rest
    <3>3. job' = [job EXCEPT ![w] = j]
      BY <1>9, <2>2 DEF After
    <3>2. job[w] \in Jobs
      BY <1>1 DEF MessageInv
    <3>4. job[w].left - 1 \in Nat /\ job[w].left - 1 > 0
      BY <1>2, <2>2
    <3>5. j \in Jobs /\ j.pc = "piece" /\ j.left = job[w].left - 1
      BY <1>2, <3>2, <3>4, Continued
    <3> HIDE DEF j
    <3>6. job' \in [AllWriters -> Jobs] /\ job'[w] = j
      BY <1>1, <3>3, <3>5 DEF MessageInv
    <3>7. connMu' = w
      BY <1>5, <1>7, <3>5, <3>6
    <3>8. message' \in Messages /\ message'.of = w /\ message'.left = job[w].left - 1
      BY <3>1, <3>4 DEF Messages
    <3>9. \A v \in ConnWriters : job'[v].pc = "piece" => v = w
      BY <1>1, <1>4, <3>3 DEF MessageInv
    <3>a. \A v \in ConnWriters : job'[v].pc = "piece" => connMu' = v /\ job'[v].left > 0
      BY <3>4, <3>5, <3>6, <3>7, <3>9
    <3>b. job'[message'.of].pc = "piece" /\ job'[message'.of].left = message'.left /\ message'.left > 0
      BY <3>4, <3>5, <3>6, <3>8
    <3>c. key' \in Nat /\ frame' \in Nat /\ iv' \in [1 .. MaxKeys -> Nat]
      BY <1>5 DEF MessageInv
    <3>d. MessageInv'
      BY <3>6, <3>8, <3>a, <3>b, <3>c DEF MessageInv
    <3> QED BY <1>3, <1>9, <3>d
  <2> QED BY <2>1, <2>2
<1> QED BY <1>8, <1>9 DEF WritePiece

-----------------------------------------------------------------------------
(* The UDP socket *)

Pending(w) == job[w].pc \in {"encrypt", "write"}

\* The writer in the middle of a packet holds the mutex and the key in use. No packet
\* on the wire is of a later key, or of this key and a later IV or frame number than
\* those given out, the writer's own excepted, which is after all of the wire's.
PacketInv ==
  /\ key \in 0 .. MaxKeys
  /\ wire \in [key : Nat, iv : Nat] /\ wire.key <= key
  /\ voice \in [key : Nat, frame : Nat] /\ voice.key <= key
  /\ wire.key = key /\ key > 0 => wire.iv <= iv[key]
  /\ voice.key = key /\ key > 0 => voice.frame < frame
  /\ \A w \in Writers : Pending(w) =>
       /\ writeMu = w /\ job[w].key = key /\ key > 0
       /\ job[w].frame < frame
       /\ voice.key = key /\ job[w].frame >= 0 => voice.frame < job[w].frame
       /\ job[w].pc = "write" => /\ job[w].iv = iv[key]
                                 /\ wire.key = key => wire.iv < job[w].iv

Inv == MessageInv /\ PacketInv

LEMMA PacketInit == Init => PacketInv
<1> SUFFICES ASSUME Init PROVE PacketInv
  OBVIOUS
<1>1. key = 0 /\ wire = [key |-> 0, iv |-> 0] /\ voice = [key |-> 0, frame |-> 0]
  BY DEF Init
<1>2. \A w \in Writers : ~Pending(w)
  BY DEF Init, Idle, Pending
<1>3. 0 \in 0 .. MaxKeys
  BY UdpAssumption
<1> QED BY <1>1, <1>2, <1>3 DEF PacketInv

\* A step that touches neither the socket, the keys nor who is in the middle of a packet.
LEMMA QuietKeeps ==
  ASSUME PacketInv, UNCHANGED <<key, frame, iv, writeMu, wire, voice>>,
         \A w \in Writers : Pending(w)' => Pending(w) /\ job'[w] = job[w]
  PROVE  PacketInv'
BY DEF PacketInv, Pending

\* Nobody is in the middle of a packet while the mutex is free.
LEMMA FreeMutex ==
  ASSUME PacketInv, writeMu = NoWriter, NEW w \in Writers
  PROVE  ~Pending(w)
BY UdpAssumption DEF PacketInv, Writers

LEMMA InstallKeeps ==
  ASSUME PacketInv, InstallKey
  PROVE  PacketInv'
<1>1. key' = key + 1 /\ key < MaxKeys /\ writeMu = NoWriter
  BY DEF InstallKey, setUDP15Crypto
<1>2. UNCHANGED <<wire, voice, job>>
  BY DEF InstallKey, sending
<1>3. \A w \in Writers : ~Pending(w)'
  BY <1>1, <1>2, FreeMutex DEF Pending
<1>4. key' \in 0 .. MaxKeys /\ wire.key < key' /\ voice.key < key'
  BY <1>1, UdpAssumption DEF PacketInv
<1>5. wire.key # key' /\ voice.key # key' /\ wire.key <= key' /\ voice.key <= key'
  BY <1>4 DEF PacketInv
<1>6. wire' \in [key : Nat, iv : Nat] /\ voice' \in [key : Nat, frame : Nat]
  BY <1>2 DEF PacketInv
<1> QED BY <1>2, <1>3, <1>4, <1>5, <1>6 DEF PacketInv

LEMMA NoUdpKeeps ==
  ASSUME MessageInv, PacketInv, NEW w \in Senders, NoUdp(w)
  PROVE  PacketInv'
<1>1. w \in AllWriters /\ w \in Writers /\ writeMu = NoWriter
  BY DEF NoUdp, AllWriters, Writers
<1>2. UNCHANGED <<key, iv, wire, voice>>
  BY DEF NoUdp, udp
<1>3. \A v \in Writers : ~Pending(v)'
  <2>1. job' = [job EXCEPT ![w] = [Idle EXCEPT !.pc = "fallback"]]
    BY DEF NoUdp
  <2>2. job'[w].pc = "fallback"
    BY <1>1, <2>1, IdleIsAJob, FallenBack DEF MessageInv
  <2>3. \A v \in Writers : v # w => job'[v] = job[v]
    BY <2>1, AnyWriter DEF MessageInv
  <2> QED BY <1>1, <2>2, <2>3, FreeMutex DEF Pending
<1>4. frame \in Nat /\ frame' \in {frame, frame + 1}
  BY DEF NoUdp, TakesNumber, MessageInv
<1>5. voice.key = key /\ key > 0 => voice.frame < frame'
  BY <1>4 DEF PacketInv
<1> QED BY <1>2, <1>3, <1>5 DEF PacketInv

LEMMA SendKeeps ==
  ASSUME MessageInv, PacketInv, NEW w \in Writers, BeginSend(w)
  PROVE  PacketInv'
<1> DEFINE f == IF Numbered(w) THEN frame ELSE -1
<1>1. writeMu = NoWriter /\ writeMu' = w /\ key > 0
  BY DEF BeginSend, CanSend
<1>2. UNCHANGED <<key, iv, wire, voice>>
  BY DEF BeginSend, udp
<1>3. \A v \in Writers : v # w => ~Pending(v)'
  BY <1>1, FreeMutex, AnyWriter DEF BeginSend, MessageInv, Pending
<1>4. job'[w].pc = "encrypt" /\ job'[w].key = key /\ job'[w].frame = f
  <2>1. job'[w] = [Idle EXCEPT !.pc = "encrypt", !.key = key, !.frame = f]
    BY AnyWriter DEF BeginSend, MessageInv, Job
  <2>2. key \in Nat /\ f \in Int
    BY DEF MessageInv
  <2> HIDE DEF f
  <2> QED BY <2>1, <2>2, IdleIsAJob DEF Jobs
<1>5. frame \in Nat /\ frame' = IF Numbered(w) THEN frame + 1 ELSE frame
  BY DEF BeginSend, TakesNumber, MessageInv
<1>6. voice.key = key => voice.frame < frame
  BY <1>1 DEF PacketInv
<1>7. f < frame' /\ (voice.key = key /\ f >= 0 => voice.frame < f)
  BY <1>5, <1>6 DEF PacketInv
<1>8. voice.key = key /\ key > 0 => voice.frame < frame'
  BY <1>5, <1>6 DEF PacketInv
<1> HIDE DEF f
<1>9. Pending(w)' => /\ writeMu' = w /\ job'[w].key = key' /\ key' > 0
                     /\ job'[w].frame < frame'
                     /\ voice'.key = key' /\ job'[w].frame >= 0 => voice'.frame < job'[w].frame
                     /\ job'[w].pc # "write"
  BY <1>1, <1>2, <1>4, <1>7
<1> QED BY <1>2, <1>3, <1>8, <1>9 DEF PacketInv

LEMMA EncryptKeeps ==
  ASSUME MessageInv, PacketInv, NEW w \in Writers, Encrypt(w)
  PROVE  PacketInv'
<1>1. Pending(w) /\ job[w].pc = "encrypt"
  BY DEF Encrypt, Pending
<1>2. writeMu = w /\ job[w].key = key /\ key > 0 /\ key \in 1 .. MaxKeys
  BY <1>1 DEF PacketInv
<1>3. UNCHANGED <<key, frame, writeMu, wire, voice>>
  BY DEF Encrypt, udp
<1>4. iv[key] \in Nat /\ iv' = [iv EXCEPT ![key] = iv[key] + 1]
  BY <1>2 DEF MessageInv, Encrypt
<1>5. iv'[key] = iv[key] + 1
  BY <1>2, <1>4 DEF MessageInv
<1>6. /\ job'[w].pc = "write" /\ job'[w].key = key /\ job'[w].iv = iv[key] + 1
      /\ job'[w].frame = job[w].frame
  <2>1. job[w] \in Jobs /\ job' = [job EXCEPT ![w] = [job[w] EXCEPT !.pc = "write", !.iv = iv[key] + 1]]
    BY <1>2, AnyWriter DEF Encrypt, MessageInv
  <2>2. PICK n \in Nat : n = iv[key] + 1
    BY <1>4
  <2>3. job'[w] = [job[w] EXCEPT !.pc = "write", !.iv = n]
    BY <2>1, <2>2, AnyWriter DEF MessageInv
  <2>4. job'[w].pc = "write" /\ job'[w].iv = n
    BY <2>1, <2>3 DEF Jobs
  <2>5. job'[w].key = job[w].key /\ job'[w].frame = job[w].frame
    BY <2>1, <2>3 DEF Jobs
  <2> QED BY <1>2, <2>2, <2>4, <2>5
<1>7. \A v \in Writers : v # w => ~Pending(v) /\ ~Pending(v)'
  <2>1. \A v \in Writers : v # w => job'[v] = job[v]
    BY AnyWriter DEF Encrypt, MessageInv
  <2> QED BY <1>2, <2>1 DEF PacketInv, Pending
<1>8. wire.key = key => wire.iv <= iv[key] /\ wire.iv < iv[key] + 1
  BY <1>2, <1>4 DEF PacketInv
<1>9. /\ job[w].frame < frame
      /\ voice.key = key /\ job[w].frame >= 0 => voice.frame < job[w].frame
  BY <1>1 DEF PacketInv
<1>a. wire'.key = key' /\ key' > 0 => wire'.iv <= iv'[key']
  <2>1. wire.key = key => wire.iv <= iv[key] + 1
    BY <1>4, <1>8 DEF PacketInv
  <2> QED BY <1>3, <1>5, <2>1
<1>b. Pending(w)' => /\ writeMu' = w /\ job'[w].key = key' /\ key' > 0
                     /\ job'[w].frame < frame'
                     /\ voice'.key = key' /\ job'[w].frame >= 0 => voice'.frame < job'[w].frame
                     /\ job'[w].iv = iv'[key'] /\ (wire'.key = key' => wire'.iv < job'[w].iv)
  BY <1>2, <1>3, <1>5, <1>6, <1>8, <1>9
<1> QED BY <1>3, <1>7, <1>a, <1>b DEF PacketInv

\* What leaves is after all that left, and is of the key in use.
LEMMA WriteKeeps ==
  ASSUME MessageInv, PacketInv, NEW w \in Writers, Write(w)
  PROVE  /\ PacketInv'
         /\ wire' # wire => wire'.key = key /\ (wire'.key > wire.key \/ wire'.iv > wire.iv)
         /\ voice' # voice => voice'.key > voice.key \/ voice'.frame > voice.frame
<1>1. Pending(w) /\ job[w].pc = "write"
  BY DEF Write, Pending
<1>2. writeMu = w /\ job[w].key = key /\ key > 0
  BY <1>1 DEF PacketInv
<1>3. job[w].iv = iv[key] /\ (wire.key = key => wire.iv < job[w].iv)
  BY <1>1 DEF PacketInv
<1>4. job[w].frame < frame /\ (voice.key = key /\ job[w].frame >= 0 => voice.frame < job[w].frame)
  BY <1>1 DEF PacketInv
<1>5. UNCHANGED <<key, frame, iv>> /\ writeMu' = NoWriter
  BY DEF Write, udp
<1>6. \A v \in Writers : ~Pending(v)'
  <2>1. PICK j \in {Idle, [Idle EXCEPT !.pc = "fallback"]} : job' = [job EXCEPT ![w] = j]
    BY DEF Write
  <2>2. j.pc # "encrypt" /\ j.pc # "write"
    BY <2>1, IdleIsAJob, FallenBack
  <2>3. job'[w] = j /\ \A v \in Writers : v # w => job'[v] = job[v]
    BY <2>1, AnyWriter DEF MessageInv
  <2>4. \A v \in Writers : v # w => ~Pending(v)
    BY <1>2 DEF PacketInv
  <2> QED BY <2>2, <2>3, <2>4 DEF Pending
<1>7. key \in Nat /\ job[w].iv \in Nat /\ job[w].frame \in Int
  BY AnyWriter DEF MessageInv, Jobs
<1>8. /\ wire' \in [key : Nat, iv : Nat] /\ wire'.key <= key
      /\ wire'.key = key => wire'.iv <= iv[key]
      /\ wire' # wire => wire'.key = key /\ (wire'.key > wire.key \/ wire'.iv > wire.iv)
  <2>1. CASE wire' = wire
    BY <1>2, <2>1 DEF PacketInv
  <2>2. CASE wire' = [key |-> job[w].key, iv |-> job[w].iv]
    <3>1. wire'.key = key /\ wire'.iv = iv[key] /\ wire' \in [key : Nat, iv : Nat]
      BY <1>2, <1>3, <1>7, <2>2
    <3>2. wire.key < key \/ wire.iv < iv[key]
      BY <1>3, <1>7 DEF PacketInv
    <3> QED BY <1>3, <1>7, <3>1, <3>2 DEF PacketInv
  <2> QED BY <2>1, <2>2 DEF Write
<1>9. /\ voice' \in [key : Nat, frame : Nat] /\ voice'.key <= key
      /\ voice'.key = key => voice'.frame < frame
      /\ voice' # voice => voice'.key > voice.key \/ voice'.frame > voice.frame
  <2>1. CASE voice' = voice
    BY <1>2, <2>1 DEF PacketInv
  <2>2. CASE job[w].frame >= 0 /\ voice' = [key |-> job[w].key, frame |-> job[w].frame]
    <3>1. /\ voice'.key = key /\ voice'.frame = job[w].frame
          /\ voice' \in [key : Nat, frame : Nat]
      BY <1>2, <1>7, <2>2
    <3>2. voice.key < key \/ voice.frame < job[w].frame
      BY <1>4, <1>7, <2>2 DEF PacketInv
    <3> QED BY <1>4, <1>7, <3>1, <3>2 DEF PacketInv
  <2> QED BY <2>1, <2>2 DEF Write
<1>a. PacketInv'
  BY <1>5, <1>6, <1>8, <1>9 DEF PacketInv
<1> QED BY <1>8, <1>9, <1>a

-----------------------------------------------------------------------------
(* Every step *)

LEMMA AsideKeeps ==
  ASSUME Inv, Aside
  PROVE  /\ Inv' /\ UNCHANGED <<wire, voice, message>>
<1>1. MessageInv'
  BY DEF Inv, Aside, MessageInv
<1>2. PacketInv'
  BY QuietKeeps DEF Inv, Aside, Pending
<1> QED BY <1>1, <1>2 DEF Inv, Aside

\* A step of a writer that is or will be in the middle of a message.
LEMMA PieceIsQuiet ==
  ASSUME MessageInv, PacketInv, NEW w \in ConnWriters, NEW j \in Jobs,
         job' = [job EXCEPT ![w] = j], j.pc # "encrypt", j.pc # "write",
         UNCHANGED <<key, frame, iv, writeMu, wire, voice>>
  PROVE  PacketInv'
<1>1. \A v \in Writers : Pending(v)' => Pending(v) /\ job'[v] = job[v]
  BY AnyWriter DEF MessageInv, Pending
<1> QED BY <1>1, QuietKeeps

LEMMA BeginKeepsBoth ==
  ASSUME Inv, NEW w \in ConnWriters, NEW n \in Nat \ {0}, BeginMessage(w, n)
  PROVE  /\ Inv' /\ UNCHANGED <<wire, voice, message>>
<1>1. MessageInv'
  BY BeginKeeps DEF Inv
<1>2. PICK j \in Jobs : job' = [job EXCEPT ![w] = j] /\ j.pc = "piece"
  <2> DEFINE r == [Idle EXCEPT !.pc = "piece", !.left = n]
  <2>1. r \in Jobs /\ r.pc = "piece"
    BY IdleIsAJob DEF Jobs
  <2>2. job' = [job EXCEPT ![w] = r]
    BY DEF BeginMessage
  <2> HIDE DEF r
  <2> QED BY <2>1, <2>2
<1>3. UNCHANGED <<key, frame, iv, writeMu, wire, voice, message>>
  BY DEF BeginMessage, udp
<1>4. PacketInv'
  BY <1>2, <1>3, PieceIsQuiet DEF Inv
<1> QED BY <1>1, <1>3, <1>4 DEF Inv

\* What WireInOrder and MessagesAreWhole say of one step.
WireStep ==
  /\ wire' # wire => wire'.key = key /\ (wire'.key > wire.key \/ wire'.iv > wire.iv)
  /\ voice' # voice => voice'.key > voice.key \/ voice'.frame > voice.frame
MessageStep ==
  message.of # NoWriter =>
    \/ message' \in {message, Torn}
    \/ message' = IF message.left = 1 THEN Between ELSE [message EXCEPT !.left = @ - 1]

LEMMA UnchangedStep ==
  ASSUME UNCHANGED <<wire, voice, message>>
  PROVE  WireStep /\ MessageStep
BY DEF WireStep, MessageStep

LEMMA PieceStep ==
  ASSUME Inv, NEW w \in ConnWriters, WritePiece(w)
  PROVE  Inv' /\ WireStep /\ MessageStep
<1>1. MessageInv' /\ (message.of # NoWriter => message' \in {Torn, Rest(w)} /\ message.of = w)
  BY WritePieceKeeps DEF Inv
<1>2. UNCHANGED <<key, frame, iv, writeMu, wire, voice>>
  BY DEF WritePiece, udp
<1>3. job[w] \in Jobs /\ job[w].left \in Nat \ {0} /\ job[w].pc = "piece"
  BY AnyWriter DEF Inv, WritePiece, MessageInv, Jobs
<1>4. PICK j \in Jobs : job' = [job EXCEPT ![w] = j] /\ j.pc # "encrypt" /\ j.pc # "write"
  <2>1. CASE job' = [job EXCEPT ![w] = Idle]
    BY <2>1, IdleIsAJob
  <2>2. CASE job' = [job EXCEPT ![w] = After(w)]
    <3>1. CASE job[w].left = 1
      BY <2>2, <3>1, IdleIsAJob DEF After
    <3>2. CASE job[w].left # 1
      <4>1. PICK n \in Nat : n = job[w].left - 1
        BY <1>3
      <4> DEFINE r == [job[w] EXCEPT !.left = n]
      <4>2. job' = [job EXCEPT ![w] = r]
        BY <2>2, <3>2, <4>1 DEF After
      <4>3. r \in Jobs /\ r.pc = "piece"
        BY <1>3 DEF Jobs
      <4> HIDE DEF r
      <4> QED BY <4>2, <4>3
    <3> QED BY <3>1, <3>2
  <2> QED BY <2>1, <2>2 DEF WritePiece
<1>5. PacketInv'
  BY <1>2, <1>4, PieceIsQuiet DEF Inv
<1>6. message.of # NoWriter => message = [of |-> w, left |-> job[w].left]
  BY <1>1 DEF Inv, MessageInv, Messages
<1>7. MessageStep
  <2> SUFFICES ASSUME message.of # NoWriter, message' # Torn
               PROVE  message' = IF message.left = 1 THEN Between ELSE [message EXCEPT !.left = @ - 1]
    BY DEF MessageStep
  <2>1. message' = Rest(w) /\ message = [of |-> w, left |-> job[w].left]
    BY <1>1, <1>6
  <2> QED BY <2>1 DEF Rest
<1> QED BY <1>1, <1>2, <1>5, <1>7 DEF Inv, WireStep

LEMMA ElsewhereStep ==
  ASSUME NEW w, Elsewhere(w)
  PROVE  MessageStep
BY DEF Elsewhere, MessageStep

LEMMA EveryStep ==
  ASSUME Inv, [Next]_vars
  PROVE  Inv' /\ WireStep /\ MessageStep
<1>1. CASE \/ DialUDP \/ PublishSocket \/ HandleVersion \/ PartialCryptSetup \/ StartRoutines
           \/ ReadFails \/ CleanUp \/ ReaderBegins \/ Authenticate \/ MarkActive
           \/ ReaderFails \/ PingerEnds \/ Ended \/ UNCHANGED vars
  BY <1>1, AsideSteps, AsideKeeps, UnchangedStep
<1>2. CASE InstallKey
  <2>1. UNCHANGED <<iv, job, wire, voice, connMu, message>> /\ key' = key + 1 /\ frame' = 0
    BY <1>2 DEF InstallKey, setUDP15Crypto, sending, tunnel
  <2>2. MessageInv'
    BY <2>1 DEF Inv, MessageInv
  <2> QED BY <1>2, <2>1, <2>2, InstallKeeps, UnchangedStep DEF Inv
<1>3. ASSUME NEW w \in Writers, BeginSend(w) PROVE Inv' /\ WireStep /\ MessageStep
  <2>1. UNCHANGED <<wire, voice>>
    BY <1>3 DEF BeginSend
  <2>2. Elsewhere(w)
    BY <1>3, SendElsewhere DEF Inv
  <2> QED BY <1>3, <2>1, <2>2, AnyWriter, ElsewhereKeeps, SendKeeps, ElsewhereStep DEF Inv, WireStep
<1>4. ASSUME NEW w \in Senders, NoUdp(w) PROVE Inv' /\ WireStep /\ MessageStep
  <2>1. UNCHANGED <<wire, voice>> /\ w \in AllWriters
    BY <1>4 DEF NoUdp, AllWriters, Writers
  <2>2. Elsewhere(w)
    BY <1>4, NoUdpElsewhere DEF Inv
  <2> QED BY <1>4, <2>1, <2>2, ElsewhereKeeps, NoUdpKeeps, ElsewhereStep DEF Inv, WireStep
<1>5. ASSUME NEW w \in Senders, Fallback(w) PROVE Inv' /\ WireStep /\ MessageStep
  <2>1. PICK n \in Nat \ {0} : BeginMessage(w, n)
    BY <1>5 DEF Fallback, WritePacket, WriteAudio
  <2>2. w \in ConnWriters
    BY DEF ConnWriters
  <2> QED BY <2>1, <2>2, BeginKeepsBoth, UnchangedStep
<1>6. ASSUME NEW w \in Writers, Encrypt(w) PROVE Inv' /\ WireStep /\ MessageStep
  <2>1. job[w].key \in 1 .. MaxKeys
    BY <1>6 DEF Encrypt, Inv, PacketInv, Pending
  <2>2. Elsewhere(w) /\ UNCHANGED <<wire, voice>>
    BY <1>6, <2>1, EncryptElsewhere DEF Inv, Encrypt
  <2> QED BY <1>6, <2>2, AnyWriter, ElsewhereKeeps, EncryptKeeps, ElsewhereStep DEF Inv, WireStep
<1>7. ASSUME NEW w \in Writers, Write(w) PROVE Inv' /\ WireStep /\ MessageStep
  <2>1. Elsewhere(w)
    BY <1>7, WriteElsewhere DEF Inv
  <2> QED BY <1>7, <2>1, AnyWriter, ElsewhereKeeps, WriteKeeps, ElsewhereStep DEF Inv, WireStep
<1>8. CASE Ping
  <2>1. BeginMessage(KeepAlive, 2) /\ KeepAlive \in ConnWriters
    BY <1>8 DEF Ping, WriteProto, WritePacket, ConnWriters
  <2> QED BY <2>1, BeginKeepsBoth, UnchangedStep
<1>9. ASSUME NEW w \in ConnWriters, WritePiece(w) PROVE Inv' /\ WireStep /\ MessageStep
  BY <1>9, PieceStep
<1> QED
  BY <1>1, <1>2, <1>3, <1>4, <1>5, <1>6, <1>7, <1>8, <1>9 DEF Next, sendUDPPing, Writers

\* Voice, pings and everything else share one TCP connection, and no message there is
\* torn apart by another one, however many goroutines write (conn.go:98-99, 130-131).
THEOREM WholeMessages == Spec => MessagesAreWhole
<1>1. Init => Inv
  BY MessageInit, PacketInit DEF Inv
<1>2. Inv /\ [Next]_vars => Inv' /\ [MessageStep]_vars
  BY EveryStep
<1>3. MessagesAreWhole <=> [][MessageStep]_vars
  BY PTL DEF MessagesAreWhole, MessageStep
<1> QED BY <1>1, <1>2, <1>3, PTL DEF Spec

\* Packets reach the socket in the order of their IVs and of their frame numbers, and
\* none of an older key after a newer one is installed (udp15.go:614-615).
THEOREM PacketsInOrder == Spec => WireInOrder
<1>1. Init => Inv
  BY MessageInit, PacketInit DEF Inv
<1>2. Inv /\ [Next]_vars => Inv' /\ [WireStep]_vars
  BY EveryStep
<1>3. WireInOrder <=> [][WireStep]_vars
  BY PTL DEF WireInOrder, WireStep
<1> QED BY <1>1, <1>2, <1>3, PTL DEF Spec

-----------------------------------------------------------------------------
(* The receive window: the bytes of an IV                                  *)

\* There is a low byte, and half its range is a whole number.
LEMMA HalfRange ==
  /\ LowValues \in Nat \ {0} /\ LowValues \div 2 \in Nat \ {0}
  /\ LowValues = 2 * (LowValues \div 2)
  /\ Late \in Nat \ {0} /\ Late <= LowValues \div 2
BY WindowAssumption

\* A number is its block and its low byte.
LEMMA Digits ==
  ASSUME NEW x \in Nat
  PROVE  /\ Low(x) \in Nat /\ Low(x) < LowValues /\ Low(x) \in LowBytes
         /\ x \div LowValues \in Nat
         /\ x = LowValues * (x \div LowValues) + Low(x)
BY HalfRange DEF Low, LowBytes

\* A low byte in any block is read back.
LEMMA LowOf ==
  ASSUME NEW q \in Nat, NEW r \in Nat, r < LowValues
  PROVE  Low(LowValues * q + r) = r
<1>1. LowValues \in Nat \ {0}
  BY HalfRange
<1>2. (LowValues * q + r) % LowValues = r
  BY <1>1
<1> QED BY <1>2 DEF Low

\* Setting the low byte stays in the block.
LEMMA SetLowIsLow ==
  ASSUME NEW x \in Nat, NEW b \in LowBytes
  PROVE  SetLow(x, b) \in Nat /\ Low(SetLow(x, b)) = b
<1> DEFINE q == x \div LowValues
<1>1. x = LowValues * q + Low(x) /\ Low(x) \in Nat /\ q \in Nat
  BY Digits
<1>2. b \in Nat /\ b < LowValues /\ LowValues \in Nat
  BY HalfRange DEF LowBytes
<1> HIDE DEF q
<1>3. SetLow(x, b) = LowValues * q + b
  BY <1>1, <1>2 DEF SetLow
<1>4. LowValues * q + b \in Nat
  BY <1>1, <1>2
<1>5. Low(LowValues * q + b) = b
  BY <1>1, <1>2, LowOf
<1> QED BY <1>3, <1>4, <1>5

\* Two numbers with one low byte are a block or more apart,
LEMMA SameLow ==
  ASSUME NEW x \in Nat, NEW y \in Nat, Low(x) = Low(y), x < y
  PROVE  /\ y - x = LowValues * (y \div LowValues - x \div LowValues)
         /\ x \div LowValues < y \div LowValues /\ y - x >= LowValues
<1> DEFINE p == x \div LowValues
           q == y \div LowValues
<1>1. /\ p \in Nat /\ q \in Nat /\ LowValues \in Nat \ {0}
      /\ x = LowValues * p + Low(x) /\ y = LowValues * q + Low(x) /\ Low(x) \in Nat
  BY Digits, HalfRange
<1> HIDE DEF p, q
<1>2. p < q
  <2>1. ASSUME q <= p PROVE LowValues * q <= LowValues * p
    BY <1>1, <2>1
  <2> QED BY <1>1, <2>1
<1>3. LowValues * p + LowValues <= LowValues * q
  BY <1>1, <1>2
<1> QED BY <1>1, <1>2, <1>3 DEF p, q

\* and if byte 1 is the same too, a whole turn of both bytes.
LEMMA SameLowBytes ==
  ASSUME NEW x \in Nat, NEW y \in Nat, Low(x) = Low(y), x < y, Byte1(x) = Byte1(y)
  PROVE  y - x >= LowValues * HighValues
<1> DEFINE p == x \div LowValues
           q == y \div LowValues
           s == p \div HighValues
           t == q \div HighValues
<1>1. /\ p \in Nat /\ q \in Nat /\ p < q /\ y - x = LowValues * (q - p)
      /\ LowValues \in Nat \ {0} /\ HighValues \in Nat \ {0}
  BY Digits, HalfRange, SameLow, WindowAssumption
<1>2. (p % HighValues) = (q % HighValues)
  BY DEF Byte1
<1> HIDE DEF p, q
<1>3. \A k \in Nat : /\ k \div HighValues \in Nat /\ (k % HighValues) \in Nat
                     /\ k = HighValues * (k \div HighValues) + (k % HighValues)
  BY <1>1
<1>4. /\ s \in Nat /\ t \in Nat /\ (p % HighValues) \in Nat
      /\ p = HighValues * s + (p % HighValues) /\ q = HighValues * t + (p % HighValues)
  BY <1>1, <1>2, <1>3
<1> HIDE DEF s, t
<1>5. s < t
  <2>1. ASSUME t <= s PROVE HighValues * t <= HighValues * s
    BY <1>1, <1>4, <2>1
  <2> QED BY <1>1, <1>4, <2>1
<1>6. HighValues * s + HighValues <= HighValues * t
  BY <1>1, <1>4, <1>5
<1>7. q - p \in Nat /\ HighValues <= q - p
  BY <1>1, <1>4, <1>6
<1>8. \A d \in Nat : HighValues <= d => LowValues * HighValues <= LowValues * d
  BY <1>1
<1>9. LowValues * HighValues <= LowValues * (q - p)
  BY <1>7, <1>8
<1> QED BY <1>1, <1>9

\* The low byte some steps on, within one turn of it.
LEMMA LowAhead ==
  ASSUME NEW x \in Nat, NEW d \in Nat, d < LowValues
  PROVE  Low(x + d) = IF Low(x) + d < LowValues THEN Low(x) + d ELSE Low(x) + d - LowValues
<1> DEFINE q == x \div LowValues
<1>1. /\ q \in Nat /\ LowValues \in Nat \ {0} /\ Low(x) \in Nat /\ Low(x) < LowValues
      /\ x = LowValues * q + Low(x)
  BY Digits, HalfRange
<1> HIDE DEF q
<1>3. CASE Low(x) + d < LowValues
  <2> DEFINE r == Low(x) + d
  <2>1. x + d = LowValues * q + r /\ r \in Nat /\ r < LowValues
    BY <1>1, <1>3
  <2> HIDE DEF r
  <2>2. Low(x + d) = r
    BY <1>1, <2>1, LowOf
  <2> QED BY <1>3, <2>2 DEF r
<1>4. CASE Low(x) + d >= LowValues
  <2> DEFINE r == Low(x) + d - LowValues
             p == q + 1
           m == LowValues * q
  <2>1. m \in Nat /\ LowValues * p = m + LowValues /\ x = m + Low(x)
    BY <1>1
  <2> HIDE DEF m
  <2>2. x + d = m + LowValues + r /\ r \in Nat /\ r < LowValues /\ p \in Nat
    BY <1>1, <1>4, <2>1
  <2> HIDE DEF r, p
  <2>3. x + d = LowValues * p + r
    BY <2>1, <2>2
  <2>4. Low(x + d) = r
    BY <2>2, <2>3, LowOf
  <2> QED BY <1>1, <1>4, <2>4 DEF r
<1> QED BY <1>1, <1>3, <1>4

\* The low byte that is next in order.
LEMMA LowNext ==
  ASSUME NEW x \in Nat
  PROVE  (Low(x) + 1) % LowValues = IF Low(x) + 1 = LowValues THEN 0 ELSE Low(x) + 1
<1> DEFINE l == Low(x)
<1>1. l \in Nat /\ l < LowValues /\ LowValues \in Nat \ {0}
  BY Digits, HalfRange
<1> HIDE DEF l
<1>2. (l + 1) % LowValues = IF l + 1 = LowValues THEN 0 ELSE l + 1
  BY <1>1
<1> QED BY <1>2 DEF l

\* The next block begins where this one did.
LEMMA NextBlock ==
  ASSUME NEW x \in Nat, NEW b \in LowBytes
  PROVE  SetLow(advanceIVHighBytes(x), b) = x + LowValues - Low(x) + b
<1> DEFINE q == x \div LowValues
           p == q + 1
           m == LowValues * q
           l == Low(x)
<1>1. /\ x = m + l /\ m \in Nat /\ LowValues * p = m + LowValues /\ p \in Nat
      /\ l \in Nat /\ l < LowValues /\ LowValues \in Nat /\ b \in Nat
  <2>1. q \in Nat /\ x = m + l /\ l \in Nat /\ l < LowValues
    BY Digits
  <2>2. LowValues \in Nat /\ b \in Nat
    BY HalfRange DEF LowBytes
  <2> HIDE DEF q, l
  <2>3. m \in Nat /\ LowValues * p = m + LowValues /\ p \in Nat
    BY <2>1, <2>2
  <2> QED BY <2>1, <2>2, <2>3
<1> HIDE DEF q, m, l
<1>2. x + LowValues = LowValues * p + l
  BY <1>1
<1> HIDE DEF p
<1>3. Low(x + LowValues) = l
  BY <1>1, <1>2, LowOf
<1> QED BY <1>1, <1>3 DEF SetLow, advanceIVHighBytes, l

-----------------------------------------------------------------------------
(* The receive window: what decrypt15 guesses                              *)

\* A right guess is that of a late packet within reach, or of a later one. The guess
\* for a late packet from before a wrap is never right: its low byte is another.
LEMMA RightGuess ==
  ASSUME decryptIV \in Nat, NEW y \in Nat,
         Guessable(Low(y)), Guess(Low(y)) = y
  PROVE  IF IsLate(Low(y)) /\ ~InOrder(Low(y))
         THEN decryptIV - Late < y /\ y < decryptIV
         ELSE decryptIV < y
<1> DEFINE b == Low(y)
           l == Low(decryptIV)
           h == LowValues \div 2
<1>1. /\ b \in LowBytes /\ b \in Nat /\ b < LowValues /\ l \in Nat /\ l < LowValues
      /\ h \in Nat \ {0} /\ LowValues = 2 * h
      /\ Late \in Nat \ {0} /\ Late <= h /\ LowValues \in Nat
  BY Digits, HalfRange
<1>2. SetLow(decryptIV, b) = decryptIV - l + b
  BY DEF SetLow
<1>3. Diff(b) = IF b - l < -h THEN b - l + LowValues
                ELSE IF b - l > h THEN b - l - LowValues ELSE b - l
  BY DEF Diff
<1>4. CASE InOrder(b)
  BY <1>4 DEF Guess, advanceIV
<1>5. CASE IsLate(b) /\ ~InOrder(b)
  <2>1. Diff(b) < 0 /\ Diff(b) > -Late
    BY <1>5 DEF IsLate
  <2>2. CASE b > l
    <3> DEFINE c == b - 1
    <3>1. c \in LowBytes
      BY <1>1, <2>2 DEF LowBytes
    <3>2. y = SetLow(decryptIV, b) - 1
      BY <1>5, <2>2 DEF Guess, backupIV
    <3>3. y = SetLow(decryptIV, c)
      BY <1>1, <1>2, <3>2 DEF SetLow
    <3> HIDE DEF c
    <3>4. Low(y) = c
      BY <3>1, <3>3, SetLowIsLow
    <3> QED BY <1>1, <3>4 DEF c
  <2>3. CASE ~(b > l)
    <3>1. y = SetLow(decryptIV, b)
      BY <1>5, <2>3 DEF Guess
    <3> HIDE DEF b, l, h
    <3>2. decryptIV - Late < y /\ y < decryptIV
      BY <1>1, <1>2, <1>3, <2>1, <2>3, <3>1
    <3> QED BY <1>5, <3>2 DEF b
  <2> QED BY <2>2, <2>3
<1>6. CASE ~IsLate(b) /\ ~InOrder(b)
  <2>1. Diff(b) > 0
    BY <1>6 DEF Guessable
  <2>2. CASE b < l
    <3>1. y = decryptIV + LowValues - l + b
      BY <1>1, <1>6, <2>2, NextBlock DEF Guess
    <3> HIDE DEF b, l, h
    <3>2. decryptIV < y
      BY <1>1, <3>1
    <3> QED BY <1>6, <3>2 DEF b
  <2>3. CASE ~(b < l)
    <3>1. y = SetLow(decryptIV, b)
      BY <1>6, <2>3 DEF Guess
    <3> HIDE DEF b, l, h
    <3>2. decryptIV < y
      BY <1>1, <1>2, <1>3, <2>1, <2>3, <3>1
    <3> QED BY <1>6, <3>2 DEF b
  <2> QED BY <2>2, <2>3
<1> QED BY <1>4, <1>5, <1>6

\* The guess for a packet ahead, by less than half the range, is right.
LEMMA GuessAhead ==
  ASSUME decryptIV \in Nat, NEW d \in Nat \ {0}, d < LowValues \div 2
  PROVE  /\ Guessable(Low(decryptIV + d)) /\ Guess(Low(decryptIV + d)) = decryptIV + d
<1> DEFINE b == Low(decryptIV + d)
           l == Low(decryptIV)
           h == LowValues \div 2
<1>1. /\ b \in Nat /\ b < LowValues /\ l \in Nat /\ l < LowValues
      /\ h \in Nat \ {0} /\ LowValues = 2 * h /\ LowValues \in Nat /\ d < h
      /\ b = IF l + d < LowValues THEN l + d ELSE l + d - LowValues
  BY Digits, HalfRange, LowAhead
<1>2. InOrder(b) <=> b = IF l + 1 = LowValues THEN 0 ELSE l + 1
  BY LowNext DEF InOrder
<1>3. Diff(b) = IF b - l < -h THEN b - l + LowValues
                ELSE IF b - l > h THEN b - l - LowValues ELSE b - l
  BY DEF Diff
<1>4. SetLow(decryptIV, b) = decryptIV - l + b
  BY DEF SetLow
<1>5. SetLow(advanceIVHighBytes(decryptIV), b) = decryptIV + LowValues - l + b
  BY <1>1, NextBlock DEF LowBytes
<1>6. CASE InOrder(b)
  <2> HIDE DEF b, l, h
  <2>1. d = 1
    BY <1>1, <1>2, <1>6
  <2>2. Guess(b) = decryptIV + 1 /\ Guessable(b)
    BY <1>6 DEF Guess, Guessable, advanceIV
  <2> QED BY <2>1, <2>2 DEF b
<1>7. CASE ~InOrder(b)
  <2> HIDE DEF b, l, h
  <2>1. Diff(b) = d /\ Diff(b) > 0 /\ ~(Diff(b) < 0)
    BY <1>1, <1>3
  <2>2. Guessable(b) /\ ~IsLate(b)
    BY <2>1 DEF Guessable, IsLate
  <2>3. Guess(b) = IF b < l THEN decryptIV + LowValues - l + b ELSE decryptIV - l + b
    BY <1>4, <1>5, <1>7, <2>2 DEF Guess, l
  <2>4. Guess(b) = decryptIV + d
    BY <1>1, <2>3
  <2> QED BY <2>2, <2>4 DEF b
<1> QED BY <1>6, <1>7

\* The guess for a late packet of the current block is right.
LEMMA GuessInBlock ==
  ASSUME decryptIV \in Nat, NEW y \in Nat, y < decryptIV, decryptIV - y < Late,
         y \div LowValues = decryptIV \div LowValues
  PROVE  Guessable(Low(y)) /\ Guess(Low(y)) = y
<1> DEFINE b == Low(y)
           l == Low(decryptIV)
           h == LowValues \div 2
           m == LowValues * (decryptIV \div LowValues)
<1>1. /\ b \in Nat /\ b < LowValues /\ l \in Nat /\ l < LowValues
      /\ h \in Nat \ {0} /\ LowValues = 2 * h /\ LowValues \in Nat
      /\ Late \in Nat \ {0} /\ Late <= h
  BY Digits, HalfRange
<1>2. y = m + b /\ decryptIV = m + l /\ m \in Nat
  <2>1. decryptIV \div LowValues \in Nat /\ m \in Nat
    BY <1>1, Digits
  <2> QED BY <2>1, Digits
<1>3. InOrder(b) <=> b = IF l + 1 = LowValues THEN 0 ELSE l + 1
  BY LowNext DEF InOrder
<1>4. Diff(b) = IF b - l < -h THEN b - l + LowValues
                ELSE IF b - l > h THEN b - l - LowValues ELSE b - l
  BY DEF Diff
<1>5. SetLow(decryptIV, b) = decryptIV - l + b
  BY DEF SetLow
<1> HIDE DEF b, l, h, m
<1>6. b < l /\ l - b < h /\ l - b < Late
  BY <1>1, <1>2
<1>7. ~InOrder(b)
  BY <1>1, <1>3, <1>6
<1>8. Diff(b) = b - l /\ Diff(b) < 0 /\ Diff(b) > -Late
  BY <1>1, <1>4, <1>6
<1>9. IsLate(b) /\ Guessable(b)
  BY <1>8 DEF IsLate, Guessable
<1>10. Guess(b) = SetLow(decryptIV, b)
  BY <1>1, <1>6, <1>7, <1>9 DEF Guess, l
<1> QED BY <1>2, <1>1, <1>5, <1>9, <1>10 DEF b

-----------------------------------------------------------------------------
(* The receive window: the newest packet, and the history behind it        *)

\* What has been accepted less than a turn of the low byte ago is in the history,
HistoryHolds == \A n \in accepted :
  Newest - LowValues < n => history[Low(IV(n))] = Byte1(IV(n))

\* and an entry that counts is that of a packet that was accepted.
HistoryIsTrue == \A b \in LowBytes : history[b] # 0 =>
  \E m \in accepted : Low(IV(m)) = b /\ history[b] = Byte1(IV(m))

WindowInv ==
  /\ WindowTypeOK /\ RemembersNewest
  /\ HistoryHolds /\ HistoryIsTrue /\ NoReplay

\* The newest packet is one that was sent.
LEMMA NewestIsSent ==
  ASSUME WindowTypeOK, RemembersNewest
  PROVE  /\ Newest \in Nat /\ Newest <= sent /\ decryptIV = FirstIV + Newest
         /\ \A n \in accepted : n \in Nat \ {0} /\ n <= Newest /\ n <= sent
<1>1. sent \in Nat /\ decryptIV \in Nat /\ accepted \subseteq 1 .. sent /\ FirstIV \in Nat
  BY WindowAssumption DEF WindowTypeOK
<1>2. decryptIV = FirstIV + Newest
  BY <1>1 DEF Newest
<1>3. CASE accepted = {}
  BY <1>1, <1>2, <1>3 DEF RemembersNewest
<1>4. CASE accepted # {}
  <2>1. Newest \in accepted /\ \A n \in accepted : n <= Newest
    BY <1>4 DEF RemembersNewest
  <2>2. Newest \in 1 .. sent /\ \A n \in accepted : n \in 1 .. sent
    BY <1>1, <2>1
  <2> QED BY <1>1, <1>2, <2>1, <2>2
<1> QED BY <1>3, <1>4

\* A packet opens when the guess is right, and to itself.
LEMMA Opens ==
  ASSUME NEW n \in Nat \ {0}
  PROVE  decrypt15(encrypt15(n)) =
           IF /\ Guessable(Low(IV(n))) /\ ~ReplayDetected(Low(IV(n)))
              /\ Guess(Low(IV(n))) = IV(n)
           THEN n ELSE Unauthentic
BY DEF decrypt15, encrypt15, ocb15Decrypt, ocb15Encrypt

\* What is accepted: a packet within reach behind the newest, which stays the newest,
\* or a later one; and one accepted before only where byte 1 is zero.
LEMMA WhatIsAccepted ==
  ASSUME WindowInv, NEW n \in 1 .. sent, decrypt15(encrypt15(n)) # Unauthentic
  PROVE  /\ decrypt15(encrypt15(n)) = n /\ Guess(Low(IV(n))) = IV(n)
         /\ IF IsLate(Low(IV(n))) /\ ~InOrder(Low(IV(n)))
            THEN Newest - LowValues < n /\ n < Newest ELSE Newest < n
         /\ n \in accepted => Byte1(IV(n)) = 0
<1> DEFINE b == Low(IV(n))
<1>1. /\ Newest \in Nat /\ decryptIV = FirstIV + Newest /\ decryptIV \in Nat
      /\ FirstIV \in Nat /\ IV(n) = FirstIV + n /\ IV(n) \in Nat /\ n \in Nat \ {0}
      /\ \A m \in accepted : m \in Nat /\ m <= Newest
  BY NewestIsSent, WindowAssumption DEF WindowInv, WindowTypeOK, IV
<1>2. /\ Guessable(b) /\ ~ReplayDetected(b) /\ Guess(b) = IV(n)
      /\ decrypt15(encrypt15(n)) = n
  BY <1>1, Opens
<1>3. IF IsLate(b) /\ ~InOrder(b)
      THEN decryptIV - Late < IV(n) /\ IV(n) < decryptIV ELSE decryptIV < IV(n)
  BY <1>1, <1>2, RightGuess
<1>4. Late \in Nat /\ LowValues \in Nat /\ Late <= LowValues
  BY HalfRange
<1>5. IF IsLate(b) /\ ~InOrder(b) THEN Newest - LowValues < n /\ n < Newest ELSE Newest < n
  BY <1>1, <1>3, <1>4
<1>6. ASSUME n \in accepted PROVE Byte1(IV(n)) = 0
  <2>1. ~InOrder(b) /\ Newest - LowValues < n
    BY <1>1, <1>5, <1>6
  <2>2. history[b] = Byte1(IV(n))
    BY <1>6, <2>1 DEF WindowInv, HistoryHolds
  <2> QED BY <1>2, <2>1, <2>2 DEF ReplayDetected
<1> QED BY <1>2, <1>5, <1>6

\* One packet accepted keeps the window.
LEMMA ReceiveKeepsWindow ==
  ASSUME WindowInv, NEW n \in 1 .. sent, Receive(encrypt15(n))
  PROVE  WindowInv'
<1> DEFINE b == Low(IV(n))
<1> USE DEF WindowInv
<1>1. CASE decrypt15(encrypt15(n)) = Unauthentic
  <2>1. UNCHANGED window
    BY <1>1 DEF Receive
  <2> QED BY <2>1 DEF window, WindowTypeOK, RemembersNewest, HistoryHolds, HistoryIsTrue,
                      NoReplay, Newest
<1>2. CASE decrypt15(encrypt15(n)) # Unauthentic
  <2>1. /\ decrypt15(encrypt15(n)) = n /\ Guess(b) = IV(n)
        /\ IF IsLate(b) /\ ~InOrder(b) THEN Newest - LowValues < n /\ n < Newest ELSE Newest < n
        /\ n \in accepted => Byte1(IV(n)) = 0
    BY <1>2, WhatIsAccepted
  <2>2. encrypt15(n).low = b
    BY DEF encrypt15
  <2>3. /\ history' = [history EXCEPT ![b] = Byte1(IV(n))]
        /\ decryptIV' = IF IsLate(b) /\ ~InOrder(b) THEN decryptIV ELSE IV(n)
        /\ accepted' = accepted \cup {n}
        /\ replayed' = replayed \cup ({n} \cap accepted)
        /\ sent' = sent
    BY <1>2, <2>1, <2>2 DEF Receive
  <2>4. /\ Newest \in Nat /\ decryptIV = FirstIV + Newest /\ decryptIV \in Nat
        /\ FirstIV \in Nat /\ IV(n) = FirstIV + n /\ IV(n) \in Nat /\ n \in Nat \ {0}
        /\ \A m \in accepted : m \in Nat \ {0} /\ m <= Newest
        /\ sent \in Nat /\ accepted \subseteq 1 .. sent /\ LowValues \in Nat
    BY NewestIsSent, WindowAssumption, HalfRange DEF WindowTypeOK, IV
  <2>5. Newest' = IF n < Newest THEN Newest ELSE n
    BY <2>1, <2>3, <2>4 DEF Newest
  <2>6. /\ b \in LowBytes /\ Byte1(IV(n)) \in 0 .. HighValues - 1
    <3>1. IV(n) \div LowValues \in Nat /\ HighValues \in Nat \ {0}
      BY <2>4, Digits, WindowAssumption
    <3>2. (IV(n) \div LowValues) % HighValues \in 0 .. HighValues - 1
      BY <3>1
    <3> QED BY <2>4, <3>2, Digits DEF Byte1
  <2>7. WindowTypeOK'
    <3>1. sent' \in 0 .. MaxSent /\ decryptIV' \in Nat
      BY <2>3, <2>4 DEF WindowTypeOK
    <3>2. history' \in [LowBytes -> 0 .. HighValues - 1]
      BY <2>3, <2>6 DEF WindowTypeOK
    <3>3. accepted' \subseteq 1 .. sent' /\ replayed' \subseteq accepted'
      BY <2>3 DEF WindowTypeOK
    <3> QED BY <3>1, <3>2, <3>3 DEF WindowTypeOK
  <2>8. RemembersNewest'
    <3>1. accepted' # {} /\ \A m \in accepted' : m <= Newest'
      BY <2>3, <2>4, <2>5
    <3>2. Newest' \in accepted'
      <4>1. CASE n < Newest
        <5>1. Newest \in accepted
          BY <2>4, <4>1 DEF RemembersNewest
        <5> QED BY <2>3, <2>5, <4>1, <5>1
      <4>2. CASE ~(n < Newest)
        BY <2>3, <2>5, <4>2
      <4> QED BY <4>1, <4>2
    <3> QED BY <3>1, <3>2 DEF RemembersNewest
  <2>9. HistoryHolds'
    <3> SUFFICES ASSUME NEW m \in accepted', Newest' - LowValues < m
                 PROVE  history'[Low(IV(m))] = Byte1(IV(m))
      BY DEF HistoryHolds
    <3>1. CASE m = n
      BY <2>3, <2>6, <3>1 DEF WindowTypeOK
    <3>2. CASE m # n
      <4>1. m \in accepted /\ m \in Nat \ {0} /\ m <= Newest /\ Newest - LowValues < m
        BY <2>3, <2>4, <2>5, <3>2
      <4>2. history[Low(IV(m))] = Byte1(IV(m))
        BY <4>1 DEF HistoryHolds
      <4>3. IV(m) = FirstIV + m /\ IV(m) \in Nat /\ Low(IV(m)) \in LowBytes
        BY <2>4, <4>1, Digits DEF IV
      <4>4. n - m < LowValues /\ m - n < LowValues
        BY <2>1, <2>4, <2>5, <4>1
      <4>5. ASSUME Low(IV(m)) = b PROVE FALSE
        <5>1. CASE m < n
          <6>1. IV(n) - IV(m) >= LowValues
            BY <2>4, <4>1, <4>3, <4>5, <5>1, SameLow
          <6> QED BY <2>4, <4>1, <4>3, <4>4, <6>1
        <5>2. CASE n < m
          <6>1. IV(m) - IV(n) >= LowValues
            BY <2>4, <4>3, <4>5, <4>1, <5>2, SameLow
          <6> QED BY <2>4, <4>1, <4>3, <4>4, <6>1
        <5> QED BY <2>4, <4>1, <3>2, <5>1, <5>2
      <4> QED BY <2>3, <4>2, <4>3, <4>5 DEF WindowTypeOK
    <3> QED BY <3>1, <3>2
  <2>10. HistoryIsTrue'
    <3> SUFFICES ASSUME NEW c \in LowBytes, history'[c] # 0
                 PROVE  \E m \in accepted' : Low(IV(m)) = c /\ history'[c] = Byte1(IV(m))
      BY DEF HistoryIsTrue
    <3>1. CASE c = b
      BY <2>3, <2>6, <3>1 DEF WindowTypeOK
    <3>2. CASE c # b
      <4>1. history'[c] = history[c]
        BY <2>3, <3>2 DEF WindowTypeOK
      <4>2. PICK m \in accepted : Low(IV(m)) = c /\ history[c] = Byte1(IV(m))
        BY <4>1 DEF HistoryIsTrue
      <4> QED BY <2>3, <4>1, <4>2
    <3> QED BY <3>1, <3>2
  <2>11. NoReplay'
    BY <2>1, <2>3 DEF NoReplay
  <2> QED BY <2>7, <2>8, <2>9, <2>10, <2>11
<1> QED BY <1>1, <1>2

LEMMA InitWindow ==
  ASSUME WindowInit PROVE WindowInv
<1>1. WindowTypeOK
  BY WindowAssumption DEF WindowInit, WindowTypeOK
<1>2. RemembersNewest /\ HistoryHolds /\ HistoryIsTrue /\ NoReplay
  BY WindowAssumption DEF WindowInit, RemembersNewest, HistoryHolds, HistoryIsTrue, NoReplay, Newest
<1> QED BY <1>1, <1>2 DEF WindowInv

LEMMA StepKeepsWindow ==
  ASSUME WindowInv, [WindowNext]_window
  PROVE  WindowInv'
<1>1. CASE Send
  <2>1. WindowTypeOK'
    BY <1>1, WindowAssumption DEF WindowInv, WindowTypeOK, Send
  <2>2. UNCHANGED <<decryptIV, history, accepted, replayed>>
    BY <1>1 DEF Send
  <2> QED BY <2>1, <2>2 DEF WindowInv, RemembersNewest, HistoryHolds, HistoryIsTrue,
                            NoReplay, Newest
<1>2. CASE Deliver
  BY <1>2, ReceiveKeepsWindow DEF Deliver
<1>3. CASE UNCHANGED window
  BY <1>3 DEF WindowInv, window, WindowTypeOK, RemembersNewest, HistoryHolds, HistoryIsTrue,
              NoReplay, Newest
<1> QED BY <1>1, <1>2, <1>3 DEF WindowNext

LEMMA WindowHolds == WindowSpec => []WindowInv
<1>1. WindowInit => WindowInv
  BY InitWindow
<1>2. WindowInv /\ [WindowNext]_window => WindowInv'
  BY StepKeepsWindow
<1> QED BY <1>1, <1>2, PTL DEF WindowSpec

\* No packet is returned twice where byte 1 of its IV counts as an entry of the history
\* (decrypt15, udp15.go:307-311): for every width of the bytes, every first IV and any
\* number of packets, lost, repeated and out of order.
THEOREM NothingReplayed == WindowSpec => []NoReplay
<1>1. WindowInv => NoReplay
  BY DEF WindowInv
<1> QED BY <1>1, WindowHolds, PTL

\* A packet whose guess is right opens unless the history holds another packet with
\* the same two low bytes, a whole turn of both away.
LEMMA FreshIsAccepted ==
  ASSUME WindowInv, MaxSent <= LowValues * HighValues, NEW n \in 1 .. sent, n \notin accepted,
         Guessable(Low(IV(n))), Guess(Low(IV(n))) = IV(n)
  PROVE  Accepts(n)
<1> DEFINE b == Low(IV(n))
<1>1. /\ FirstIV \in Nat /\ n \in Nat \ {0} /\ IV(n) = FirstIV + n /\ IV(n) \in Nat
      /\ sent \in Nat /\ sent <= MaxSent /\ MaxSent \in Nat
      /\ LowValues \in Nat /\ HighValues \in Nat /\ accepted \subseteq 1 .. sent
  BY WindowAssumption, HalfRange DEF WindowInv, WindowTypeOK, IV
<1>2. LowValues * HighValues \in Nat
  BY <1>1
<1>3. ASSUME ReplayDetected(b) PROVE FALSE
  <2>1. b \in LowBytes /\ history[b] # 0 /\ history[b] = Byte1(IV(n))
    BY <1>1, <1>3, Digits DEF ReplayDetected
  <2>2. PICK m \in accepted : Low(IV(m)) = b /\ history[b] = Byte1(IV(m))
    BY <2>1 DEF WindowInv, HistoryIsTrue
  <2>3. m \in Nat \ {0} /\ m <= sent /\ m # n /\ IV(m) = FirstIV + m /\ IV(m) \in Nat
    BY <1>1, <2>2 DEF IV
  <2>4. CASE m < n
    <3>1. IV(n) - IV(m) >= LowValues * HighValues
      BY <1>1, <2>1, <2>2, <2>3, <2>4, SameLowBytes
    <3> HIDE DEF b
    <3> QED BY <1>1, <1>2, <2>3, <3>1
  <2>5. CASE n < m
    <3>1. IV(m) - IV(n) >= LowValues * HighValues
      BY <1>1, <2>1, <2>2, <2>3, <2>5, SameLowBytes
    <3> QED BY <1>1, <1>2, <2>3, <3>1
  <2> QED BY <1>1, <2>3, <2>4, <2>5
<1> QED BY <1>1, <1>3, Opens DEF Accepts

\* The receiver remembers the newest packet it accepted, the next one to arrive is
\* accepted after any loss short of half the range of the low byte, and a late one of
\* the current block is accepted once (decrypt15, udp15.go:267-332): for as many packets
\* as the two low bytes tell apart, 65536 in the code.
THEOREM WindowKeepsUp ==
  ASSUME MaxSent <= LowValues * HighValues
  PROVE  WindowSpec => []WindowFollows
<1>1. ASSUME WindowInv PROVE WindowFollows
  <2>1. /\ Newest \in Nat /\ decryptIV = FirstIV + Newest /\ decryptIV \in Nat
        /\ FirstIV \in Nat /\ sent \in Nat
        /\ \A m \in accepted : m <= Newest
    BY <1>1, NewestIsSent, WindowAssumption DEF WindowInv, WindowTypeOK
  <2>2. KeepsUp
    <3> SUFFICES ASSUME NEW n \in 1 .. sent, n > Newest, n - Newest < LowValues \div 2
                 PROVE  Accepts(n)
      BY DEF KeepsUp
    <3> DEFINE d == n - Newest
    <3>1. n \notin accepted /\ d \in Nat \ {0} /\ IV(n) = decryptIV + d
      BY <2>1 DEF IV
    <3>2. Guessable(Low(IV(n))) /\ Guess(Low(IV(n))) = IV(n)
      BY <2>1, <3>1, GuessAhead
    <3> QED BY <1>1, <3>1, <3>2, FreshIsAccepted
  <2>3. LateInBlockAccepted
    <3> SUFFICES ASSUME NEW n \in 1 .. sent, n < Newest, Newest - n < Late, n \notin accepted,
                        IV(n) \div LowValues = decryptIV \div LowValues
                 PROVE  Accepts(n)
      BY DEF LateInBlockAccepted
    <3>1. IV(n) \in Nat /\ IV(n) < decryptIV /\ decryptIV - IV(n) < Late
      BY <2>1, HalfRange DEF IV
    <3>2. Guessable(Low(IV(n))) /\ Guess(Low(IV(n))) = IV(n)
      BY <2>1, <3>1, GuessInBlock
    <3> QED BY <1>1, <3>2, FreshIsAccepted
  <2> QED BY <1>1, <2>2, <2>3 DEF WindowFollows, WindowInv
<1>2. WindowInv => WindowFollows
  BY <1>1
<1> QED BY <1>2, WindowHolds, PTL

=============================================================================
