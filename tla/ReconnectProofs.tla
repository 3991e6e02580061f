-------------------------- MODULE ReconnectProofs --------------------------
(***************************************************************************)
(* Theorems about Reconnect, for any number of dials, failures and loops,  *)
(* and whichever connects the environment disturbs; and about Settings,    *)
(* which a client keeps from one run to the next, for any names, channels  *)
(* and keys.                                                               *)
(***************************************************************************)
EXTENDS Reconnect, Settings, SequenceTheorems, TLAPS

-----------------------------------------------------------------------------
(* One reconnect loop *)

\* The flag is up while a loop runs, and one loop runs at most.
LoopInv ==
  /\ pc \in [Threads -> ThreadSteps]
  /\ \A l \in Loops : pc[l] # "idle" => reconnecting
  /\ OneReconnectLoop

\* A step of connect() moves one goroutine, which was not idle, to a step that
\* is not "idle" either, and leaves b.reconnecting alone.
Moves(t) ==
  /\ pc[t] # "idle"
  /\ \E step \in ThreadSteps \ {"idle"} : pc' = [pc EXCEPT ![t] = step]
  /\ reconnecting' = reconnecting

LEMMA ConnectMoves ==
  ASSUME NEW t \in Threads, Connect(t)
  PROVE  Moves(t)
<1> USE DEF Moves, ThreadSteps, ConnectSteps, Goto
<1>1. CASE DialFails(t) \/ DialTimesOut(t)
  BY <1>1 DEF DialFails, DialTimesOut, ConnectFailed
<1>2. CASE DialConnects(t)
  BY <1>2 DEF DialConnects, appVars
<1>3. CASE DialReturns(t)
  <2>1. pc[t] = "sync" /\ reconnecting' = reconnecting
    BY <1>3 DEF DialReturns
  <2>2. ConnectFailed(t) \/ Goto(t, "open")
    BY <1>3 DEF DialReturns
  <2> QED BY <2>1, <2>2 DEF ConnectFailed
<1>4. CASE OpenFails(t)
  BY <1>4 DEF OpenFails
<1>5. CASE OpenStream(t) \/ InstallFile(t) \/ InstallStream(t) \/ ReleasePrevious(t)
  BY <1>5 DEF OpenStream, InstallFile, InstallStream, ReleasePrevious, appVars
<1>6. CASE SetConnected(t)
  BY <1>6 DEF SetConnected
<1> QED BY <1>1, <1>2, <1>3, <1>4, <1>5, <1>6 DEF Connect

LEMMA LoopInvStep == LoopInv /\ [Next]_vars => LoopInv'
<1> SUFFICES ASSUME LoopInv, [Next]_vars PROVE LoopInv'
  OBVIOUS
<1> USE DEF LoopInv
<1>1. ASSUME NEW t \in Threads, Connect(t) PROVE LoopInv'
  <2>1. Moves(t)
    BY <1>1, ConnectMoves
  <2>2. PICK step \in ThreadSteps \ {"idle"} : pc' = [pc EXCEPT ![t] = step]
    BY <2>1 DEF Moves
  <2>3. \A l \in Loops : pc'[l] # "idle" => pc[l] # "idle"
    BY <2>1, <2>2 DEF Moves, Threads
  <2> QED BY <2>1, <2>2, <2>3 DEF Moves, OneReconnectLoop
<1>2. ASSUME NEW l \in Loops, ReconnectLoop(l) PROVE LoopInv'
  <2>1. l # UI /\ l \in Threads
    BY NamesAssumption DEF Threads
  <2> QED
    BY <1>2, <2>1 DEF ReconnectLoop, LoopCheck, LoopWait, LoopFinish, Goto,
                      OneReconnectLoop, appVars, ThreadSteps, ConnectSteps, Threads
<1>3. ASSUME NEW c \in Clients, StartReconnect(c) PROVE LoopInv'
  BY <1>3 DEF StartReconnect, Goto, OneReconnectLoop, ThreadSteps, ConnectSteps, Threads
<1>4. ASSUME UNCHANGED <<pc, reconnecting>> PROVE LoopInv'
  BY <1>4 DEF OneReconnectLoop
<1>5. ASSUME NEW c \in Clients, ReadRoutine(c) \/ LinkFails(c), ~StartReconnect(c)
      PROVE  UNCHANGED <<pc, reconnecting>>
  BY <1>5 DEF ReadRoutine, OnDisconnect, RejectArrives, Reject, ServerSync, OnConnect,
              CloseConnect, ReadFails, CleanFile, CleanStream, SetDisconnected,
              LinkFails, threadVars, appVars
<1>6. ASSUME Shutdown \/ Exit \/ Terminated \/ UNCHANGED vars
      PROVE  UNCHANGED <<pc, reconnecting>>
  BY <1>6 DEF Shutdown, Exit, Terminated, vars, threadVars, appVars
<1> QED BY <1>1, <1>2, <1>3, <1>4, <1>5, <1>6 DEF Next

\* However many clients report a disconnect, startReconnect never has two
\* reconnect loops running (client.go:261-263).
THEOREM SingleLoop == Spec => []OneReconnectLoop
<1>1. Init => LoopInv
  BY NamesAssumption DEF Init, LoopInv, OneReconnectLoop, Threads, ThreadSteps, ConnectSteps
<1>2. LoopInv => OneReconnectLoop
  BY DEF LoopInv
<1> QED BY <1>1, <1>2, LoopInvStep, PTL DEF Spec

-----------------------------------------------------------------------------
(* Ownership of the audio streams *)

Holding == {"file", "stream"}

\* Dials are fresh, so no two goroutines share one.
DialsAreFresh ==
  /\ \A t \in Threads : dial[t] # None => state[dial[t]] # "unused"
  /\ \A t, u \in Threads : t # u /\ dial[t] # None => dial[t] # dial[u]
  /\ \A t \in Threads : pc[t] \in ConnectSteps \ {"dial"} => dial[t] # None

\* What each stage of connect() knows of the stream it is making.
StreamStages ==
  /\ \A c \in Clients : state[c] = "unused" => streamState[c] = "none"
  /\ \A t \in Threads : pc[t] \in {"sync", "open"} => streamState[dial[t]] = "none"
  /\ \A t \in Threads : pc[t] \in Holding =>
       streamState[dial[t]] = "live" /\ stream # dial[t]

\* A replaced stream is open, and belongs to the goroutine that replaced it.
ReplacedIsOwned ==
  \A t \in Threads : prevStream[t] # None =>
    /\ pc[t] = "release"
    /\ streamState[prevStream[t]] = "live"
    /\ prevStream[t] # stream
    /\ \A u \in Threads : pc[u] \in Holding => dial[u] # prevStream[t]
    /\ \A u \in Threads : u # t => prevStream[u] # prevStream[t]

\* The types of the variables the invariant is about.
StreamTypes ==
  /\ pc \in [Threads -> ThreadSteps]
  /\ dial \in [Threads -> Clients \cup {None}]
  /\ prevStream \in [Threads -> Clients \cup {None}]
  /\ state \in [Clients -> {"unused", "Connected", "Synced", "Disconnected"}]
  /\ stream \in Clients \cup {None}
  /\ streamState \in [Clients -> {"none", "live", "destroyed"}]

StreamInv ==
  /\ StreamTypes /\ DialsAreFresh /\ StreamStages /\ ReplacedIsOwned
  /\ InstalledStreamIsOpen /\ NoOrphanStream

streamInvVars == <<pc, dial, prevStream, state, stream, streamState>>

LEMMA NoneIsNoClient == None \notin Clients
  BY NamesAssumption DEF Clients

\* Steps that leave every variable of the invariant alone keep it.
LEMMA StreamInvStutter == StreamInv /\ UNCHANGED streamInvVars => StreamInv'
  BY DEF StreamInv, StreamTypes, DialsAreFresh, StreamStages, ReplacedIsOwned,
         InstalledStreamIsOpen, NoOrphanStream, streamInvVars

\* A goroutine that holds no stream moves to a step in which it holds none.
LEMMA StreamInvMove ==
  ASSUME StreamInv, NEW t \in Threads, NEW step \in ThreadSteps,
         pc[t] \notin Holding \cup {"release"},
         step \notin Holding \cup {"release", "sync"},
         step = "open" => pc[t] = "sync",
         step # "setConnected",
         pc' = [pc EXCEPT ![t] = step],
         UNCHANGED <<dial, prevStream, state, stream, streamState>>
  PROVE  StreamInv'
<1> USE DEF StreamInv
<1>1. StreamTypes'
  BY DEF StreamTypes
<1>2. DialsAreFresh'
  BY DEF DialsAreFresh, StreamTypes, ConnectSteps, Holding
<1>3. StreamStages'
  BY DEF StreamStages, StreamTypes, Holding
<1>4. ReplacedIsOwned'
  BY DEF ReplacedIsOwned, StreamTypes, Holding
<1>5. InstalledStreamIsOpen' /\ NoOrphanStream'
  BY DEF InstalledStreamIsOpen, NoOrphanStream, StreamTypes, Holding
<1> QED BY <1>1, <1>2, <1>3, <1>4, <1>5

\* The steps of connect(), one by one.
LEMMA StreamInvConnect ==
  ASSUME StreamInv, NEW t \in Threads, Connect(t)
  PROVE  StreamInv'
<1> USE NoneIsNoClient DEF StreamInv
<1> DEFINE Moved(step) == pc' = [pc EXCEPT ![t] = step]
<1>0. UNCHANGED <<dial, prevStream, state, stream, streamState>> /\ pc[t] \notin Holding \cup {"release"}
      /\ (Moved("events") \/ Moved("wait") \/ Moved("finish") \/ (Moved("open") /\ pc[t] = "sync"))
      => StreamInv'
  BY StreamInvMove DEF ThreadSteps, ConnectSteps, Holding
<1>1. CASE DialFails(t) \/ DialTimesOut(t) \/ OpenFails(t) \/ SetConnected(t)
  BY <1>1, <1>0 DEF DialFails, DialTimesOut, OpenFails, SetConnected, ConnectFailed, Goto,
                    clientVars, audioVars, Holding
<1>2. CASE DialReturns(t)
  <2>1. pc[t] = "sync" /\ UNCHANGED <<dial, prevStream, state, stream, streamState>>
    BY <1>2 DEF DialReturns, audioVars
  <2>2. ConnectFailed(t) \/ Goto(t, "open")
    BY <1>2 DEF DialReturns
  <2> QED BY <2>1, <2>2, <1>0 DEF ConnectFailed, Goto, Holding
<1>3. CASE DialConnects(t)
  <2>1. PICK c \in Clients :
          /\ state[c] = "unused"
          /\ state' = [state EXCEPT ![c] = "Connected"]
          /\ dial' = [dial EXCEPT ![t] = c]
    BY <1>3 DEF DialConnects
  <2>2. pc[t] = "dial" /\ Moved("sync") /\ UNCHANGED <<prevStream, stream, streamState>>
    BY <1>3 DEF DialConnects, Goto, audioVars
  <2>3. streamState[c] = "none"
    BY <2>1 DEF StreamStages
  <2>4. StreamTypes'
    BY <2>1, <2>2 DEF StreamTypes, ThreadSteps, ConnectSteps
  <2>5. DialsAreFresh'
    BY <2>1, <2>2 DEF DialsAreFresh, StreamTypes, ConnectSteps
  <2>6. StreamStages'
    BY <2>1, <2>2, <2>3 DEF StreamStages, StreamTypes, Holding
  <2>7. ReplacedIsOwned'
    BY <2>1, <2>2 DEF ReplacedIsOwned, StreamTypes, Holding
  <2>8. InstalledStreamIsOpen' /\ NoOrphanStream'
    BY <2>1, <2>2, <2>3 DEF InstalledStreamIsOpen, NoOrphanStream, StreamTypes
  <2> QED BY <2>4, <2>5, <2>6, <2>7, <2>8
<1>4. CASE OpenStream(t)
  <2>1. /\ pc[t] = "open" /\ Moved("file")
        /\ streamState' = [streamState EXCEPT ![dial[t]] = "live"]
        /\ UNCHANGED <<dial, prevStream, state, stream>>
    BY <1>4 DEF OpenStream, Goto, clientVars
  <2>2. dial[t] \in Clients /\ streamState[dial[t]] = "none"
    BY <2>1 DEF DialsAreFresh, StreamStages, StreamTypes, ConnectSteps
  <2>3. StreamTypes'
    BY <2>1, <2>2 DEF StreamTypes, ThreadSteps, ConnectSteps
  <2>4. DialsAreFresh'
    BY <2>1 DEF DialsAreFresh, StreamTypes, ConnectSteps
  <2>5. stream # dial[t]
    BY <2>2 DEF InstalledStreamIsOpen
  <2>6. StreamStages'
    BY <2>1, <2>2, <2>5 DEF StreamStages, StreamTypes, Holding, DialsAreFresh
  <2>7. ReplacedIsOwned'
    BY <2>1, <2>2 DEF ReplacedIsOwned, StreamTypes, Holding
  <2>8. InstalledStreamIsOpen'
    BY <2>1, <2>2, <2>5 DEF InstalledStreamIsOpen, StreamTypes
  <2>9. NoOrphanStream'
    BY <2>1, <2>2 DEF NoOrphanStream, StreamTypes, Holding
  <2> QED BY <2>3, <2>4, <2>6, <2>7, <2>8, <2>9
<1>5. CASE InstallFile(t)
  <2>1. pc[t] = "file" /\ Moved("stream") /\ UNCHANGED <<dial, prevStream, state, stream, streamState>>
    BY <1>5 DEF InstallFile, Goto, clientVars
  <2>2. StreamTypes' /\ DialsAreFresh'
    BY <2>1 DEF StreamTypes, DialsAreFresh, ThreadSteps, ConnectSteps
  <2>3. StreamStages' /\ ReplacedIsOwned'
    BY <2>1 DEF StreamStages, ReplacedIsOwned, StreamTypes, Holding
  <2>4. InstalledStreamIsOpen' /\ NoOrphanStream'
    BY <2>1 DEF InstalledStreamIsOpen, NoOrphanStream, StreamTypes, Holding
  <2> QED BY <2>2, <2>3, <2>4
<1>6. CASE InstallStream(t)
  <2>1. /\ pc[t] = "stream" /\ Moved("release")
        /\ prevStream' = [prevStream EXCEPT ![t] = stream]
        /\ stream' = dial[t]
        /\ UNCHANGED <<dial, state, streamState>>
    BY <1>6 DEF InstallStream, Goto, clientVars
  <2>2. dial[t] \in Clients /\ streamState[dial[t]] = "live" /\ stream # dial[t]
    BY <2>1 DEF DialsAreFresh, StreamStages, StreamTypes, ConnectSteps, Holding
  <2>3. StreamTypes'
    BY <2>1, <2>2 DEF StreamTypes, ThreadSteps, ConnectSteps
  <2>4. DialsAreFresh'
    BY <2>1 DEF DialsAreFresh, StreamTypes, ConnectSteps
  <2>5. StreamStages'
    BY <2>1, <2>2 DEF StreamStages, StreamTypes, Holding, DialsAreFresh
  <2>6. ReplacedIsOwned'
    BY <2>1, <2>2 DEF ReplacedIsOwned, StreamTypes, Holding, StreamStages, InstalledStreamIsOpen
  <2>7. InstalledStreamIsOpen'
    BY <2>1, <2>2 DEF InstalledStreamIsOpen, StreamTypes
  <2>8. NoOrphanStream'
    BY <2>1, <2>2 DEF NoOrphanStream, StreamTypes, Holding
  <2> QED BY <2>3, <2>4, <2>5, <2>6, <2>7, <2>8
<1>7. CASE ReleasePrevious(t)
  <2>1. /\ pc[t] = "release" /\ Moved("setConnected")
        /\ prevStream' = [prevStream EXCEPT ![t] = None]
        /\ streamState' = [c \in Clients |->
                             IF c = prevStream[t] THEN "destroyed" ELSE streamState[c]]
        /\ UNCHANGED <<dial, state, stream>>
    BY <1>7 DEF ReleasePrevious, Goto, clientVars
  <2>2. StreamTypes' /\ DialsAreFresh'
    BY <2>1 DEF StreamTypes, DialsAreFresh, ThreadSteps, ConnectSteps
  <2>3. StreamStages'
    BY <2>1 DEF StreamStages, StreamTypes, Holding, ReplacedIsOwned, DialsAreFresh, ConnectSteps
  <2>4. ReplacedIsOwned'
    BY <2>1 DEF ReplacedIsOwned, StreamTypes, Holding
  <2>5. InstalledStreamIsOpen' /\ NoOrphanStream'
    BY <2>1 DEF InstalledStreamIsOpen, NoOrphanStream, StreamTypes, Holding, ReplacedIsOwned
  <2> QED BY <2>2, <2>3, <2>4, <2>5
<1> QED BY <1>1, <1>2, <1>3, <1>4, <1>5, <1>6, <1>7 DEF Connect

\* The steps of the readers, the environment and the user.
LEMMA StreamInvReader ==
  ASSUME StreamInv, NEW c \in Clients, ReadRoutine(c) \/ LinkFails(c)
  PROVE  StreamInv'
<1> USE NoneIsNoClient DEF StreamInv
<1>1. CASE ServerSync(c) \/ ReadFails(c)
  <2>1. PICK d \in {"Synced", "Disconnected"} : state' = [state EXCEPT ![c] = d]
    BY <1>1 DEF ServerSync, ReadFails
  <2>2. UNCHANGED <<pc, dial, prevStream, stream, streamState>>
    BY <1>1 DEF ServerSync, ReadFails, threadVars, audioVars
  <2>3. StreamTypes' /\ DialsAreFresh'
    BY <2>1, <2>2 DEF StreamTypes, DialsAreFresh
  <2>4. StreamStages' /\ ReplacedIsOwned'
    BY <2>1, <2>2 DEF StreamStages, ReplacedIsOwned, StreamTypes
  <2>5. InstalledStreamIsOpen' /\ NoOrphanStream'
    BY <2>2 DEF InstalledStreamIsOpen, NoOrphanStream
  <2> QED BY <2>3, <2>4, <2>5
<1>2. CASE CleanStream(c)
  <2>1. /\ streamState' = [s \in Clients |-> IF s = stream THEN "destroyed" ELSE streamState[s]]
        /\ stream' = None
        /\ UNCHANGED <<pc, dial, prevStream, state>>
    BY <1>2 DEF CleanStream, threadVars
  <2>2. StreamTypes' /\ DialsAreFresh'
    BY <2>1 DEF StreamTypes, DialsAreFresh
  <2>3. StreamStages'
    BY <2>1 DEF StreamStages, StreamTypes, DialsAreFresh, Holding, ConnectSteps, InstalledStreamIsOpen
  <2>4. ReplacedIsOwned'
    BY <2>1 DEF ReplacedIsOwned, StreamTypes
  <2>5. InstalledStreamIsOpen' /\ NoOrphanStream'
    BY <2>1 DEF InstalledStreamIsOpen, NoOrphanStream, StreamTypes
  <2> QED BY <2>2, <2>3, <2>4, <2>5
<1>3. CASE StartReconnect(c)
  <2>1. UNCHANGED <<dial, prevStream, state, stream, streamState>>
    BY <1>3 DEF StartReconnect, audioVars
  <2>2. CASE UNCHANGED pc
    BY <2>1, <2>2, StreamInvStutter DEF streamInvVars
  <2>3. CASE \E l \in Loops : pc[l] = "idle" /\ Goto(l, "check")
    BY <2>1, <2>3, StreamInvMove DEF Goto, ThreadSteps, ConnectSteps, Holding, Threads
  <2> QED BY <1>3, <2>2, <2>3 DEF StartReconnect
<1>4. CASE \/ RejectArrives(c) \/ Reject(c) \/ OnConnect(c) \/ CloseConnect(c)
           \/ CleanFile(c) \/ SetDisconnected(c) \/ LinkFails(c)
  BY <1>4, StreamInvStutter DEF RejectArrives, Reject, OnConnect, CloseConnect, CleanFile,
     SetDisconnected, LinkFails, threadVars, audioVars, streamInvVars
<1> QED BY <1>1, <1>2, <1>3, <1>4 DEF ReadRoutine, OnDisconnect

LEMMA StreamInvStep == StreamInv /\ [Next]_vars => StreamInv'
<1> SUFFICES ASSUME StreamInv, [Next]_vars PROVE StreamInv'
  OBVIOUS
<1>1. ASSUME NEW l \in Loops, ReconnectLoop(l) PROVE StreamInv'
  <2>1. /\ pc[l] \in {"check", "wait", "finish"}
        /\ \E step \in {"check", "dial", "finish", "idle"} : pc' = [pc EXCEPT ![l] = step]
        /\ UNCHANGED <<dial, prevStream, state, stream, streamState>>
    BY <1>1 DEF ReconnectLoop, LoopCheck, LoopWait, LoopFinish, Goto, clientVars, audioVars
  <2> QED BY <2>1, StreamInvMove DEF ThreadSteps, ConnectSteps, Holding, Threads
<1>2. CASE Shutdown \/ Exit \/ Terminated \/ UNCHANGED vars
  BY <1>2, StreamInvStutter DEF Shutdown, Exit, Terminated, vars, clientVars, threadVars,
     audioVars, streamInvVars
<1> QED BY <1>1, <1>2, StreamInvConnect, StreamInvReader DEF Next

LEMMA StreamInvInit == Init => StreamInv
<1> SUFFICES ASSUME Init PROVE StreamInv
  OBVIOUS
<1> USE NoneIsNoClient DEF Init
<1>1. StreamTypes /\ DialsAreFresh
  BY DEF StreamTypes, DialsAreFresh, ThreadSteps, ConnectSteps
<1>2. StreamStages /\ ReplacedIsOwned
  BY DEF StreamStages, ReplacedIsOwned, Holding
<1>3. InstalledStreamIsOpen /\ NoOrphanStream
  BY DEF InstalledStreamIsOpen, NoOrphanStream
<1> QED BY <1>1, <1>2, <1>3 DEF StreamInv

\* However connects, disconnects and quits interleave, an open stream is always
\* installed or held by the connect() that will install or release it
\* (client.go:134-141).
THEOREM NoOrphans == Spec => []NoOrphanStream
<1>1. StreamInv => NoOrphanStream
  BY DEF StreamInv
<1> QED BY <1>1, StreamInvInit, StreamInvStep, PTL DEF Spec

\* withStream never hands out a stream that Destroy has been called on
\* (barnard.go:149-159).
THEOREM NoUseAfterDestroy == Spec => []InstalledStreamIsOpen
<1>1. StreamInv => InstalledStreamIsOpen
  BY DEF StreamInv
<1> QED BY <1>1, StreamInvInit, StreamInvStep, PTL DEF Spec

\* Both at once: connect() and OnDisconnect leave no stream behind and let nobody
\* have a destroyed one (client.go:134-141, barnard.go:149-159).
THEOREM StreamsAreOwned == Spec => []StreamsOwned
  BY NoOrphans, NoUseAfterDestroy, PTL DEF StreamsOwned

-----------------------------------------------------------------------------
(* What the application believes of its connection *)

\* Once the user has quit nobody begins a dial but whoever had looked before, and
\* he dials once.
QuitInv ==
  /\ lateDials \in Nat
  /\ ~stopped => lateDials = 0
  /\ stopped => pc[UI] = "events" /\ exiting
  /\ lateDials > 0 => lateDials = 1 /\ \A t \in Threads : pc[t] # "dial"

\* A goroutine is in connect(), or between two tries.
Busy(t) == pc[t] \notin {"idle", "events"}

\* From ServerSync until OnDisconnect has returned the application may talk to a client.
Active(c) == state[c] = "Synced" \/ reader[c] \in DisconnectSteps

LifeTypes ==
  /\ faults \in [left : Nat, hits : SUBSET {"open", "late"}]
  /\ exiting \in BOOLEAN /\ connected \in BOOLEAN
  /\ sockOpen \in [Clients -> BOOLEAN]
  /\ connectCh \in [Clients -> {"empty", "rejected", "closed"}]
  /\ reader \in [Clients -> ReaderSteps]
  /\ streamClient \in [Clients -> Clients \cup {None}]
  /\ appClient \in Clients \cup {None}

\* What the reader of a client is at, by the state of the client.
ReaderStages ==
  \A c \in Clients :
    /\ reader[c] \in {"onConnect", "closeConnect"} => state[c] = "Synced" /\ connectCh[c] # "closed"
    /\ reader[c] = "none" <=> state[c] = "unused"
    /\ reader[c] \in DisconnectSteps => state[c] = "Disconnected"
    /\ reader[c] = "reject" => state[c] = "Connected"
    /\ connectCh[c] = "rejected" => state[c] # "Synced" /\ ~sockOpen[c]
    /\ connectCh[c] = "closed" => state[c] \in {"Synced", "Disconnected"}
    /\ state[c] = "unused" => ~sockOpen[c] /\ connectCh[c] = "empty"

\* One goroutine connects at a time, and the client the application may talk to is
\* the one it has dialed; when that client is lost nobody connects.
OneAtATime ==
  /\ \A t, u \in Threads : Busy(t) /\ Busy(u) => t = u
  /\ \A c \in Clients, t \in Threads :
       Active(c) /\ Busy(t) => dial[t] = c /\ pc[t] \in (ConnectSteps \ {"dial"}) \cup {"finish"}
  /\ \A c, d \in Clients : Active(c) /\ Active(d) => c = d
  /\ \A c \in Clients, t \in Threads :
       reader[c] \in DisconnectSteps \/ (state[c] = "Synced" /\ ~sockOpen[c]) => ~Busy(t)
  /\ \A c \in Clients : state[c] = "Connected" /\ sockOpen[c] =>
       \E t \in Threads : dial[t] = c /\ pc[t] = "sync"

\* What connect() has done by each of its steps.
ConnectProgress ==
  /\ \A t \in Threads : Busy(t) /\ pc[t] # "finish" => connected = FALSE
  /\ \A c \in Clients : reader[c] = "closeConnect" => appClient = c
  /\ \A t \in Threads : pc[t] = "sync" /\ connectCh[dial[t]] = "closed" =>
       state[dial[t]] = "Synced" /\ appClient = dial[t]
  /\ \A t \in Threads : pc[t] \in {"open", "file", "stream", "release", "setConnected"} =>
       state[dial[t]] = "Synced" /\ appClient = dial[t]
  /\ \A t \in Threads : pc[t] \in {"file", "stream", "release", "setConnected"} =>
       streamClient[dial[t]] = dial[t]
  /\ \A t \in Threads : pc[t] \in {"stream", "release", "setConnected"} => fileStream = dial[t]
  /\ \A t \in Threads : pc[t] \in {"release", "setConnected"} => stream = dial[t]

\* While the application believes it is connected it is, or is being told otherwise.
ConnectedInv ==
  /\ \A c \in Clients : reader[c] = "startReconnect" => connected = FALSE
  /\ connected = TRUE => /\ appClient \in Clients /\ Active(appClient)
                         /\ streamClient[appClient] = appClient
                         /\ reader[appClient] \notin DisconnectSteps => stream = appClient /\ fileStream = appClient

Undisturbed == faults.hits = {} /\ exiting = FALSE

LifeInv ==
  /\ LifeTypes /\ ReaderStages
  /\ Undisturbed => OneAtATime /\ ConnectProgress /\ ConnectedInv

\* A step of connect() but DialConnects ends nothing the user has begun.
ConnectMoved(t) ==
  /\ UNCHANGED <<stopped, lateDials>>
  /\ exiting => exiting'
  /\ pc[t] \in ConnectSteps
  /\ \E step \in ThreadSteps \ {"dial"} : pc' = [pc EXCEPT ![t] = step]

LEMMA ConnectMovesOn ==
  ASSUME NEW t \in Threads, Connect(t), ~DialConnects(t)
  PROVE  ConnectMoved(t)
<1> USE DEF ConnectMoved, Goto, ConnectFailed, appVars, ThreadSteps, ConnectSteps
<1>1. CASE DialFails(t) \/ DialTimesOut(t)
  BY <1>1 DEF DialFails, DialTimesOut
<1>2. CASE DialReturns(t)
  <2>1. pc[t] = "sync" /\ UNCHANGED <<stopped, lateDials>>
    BY <1>2 DEF DialReturns
  <2>2. ConnectFailed(t) \/ (Goto(t, "open") /\ UNCHANGED exiting)
    BY <1>2 DEF DialReturns
  <2>3. exiting => exiting'
    BY <2>2
  <2>4. Goto(t, "events") \/ Goto(t, "wait") \/ Goto(t, "open")
    BY <2>2
  <2> QED BY <2>1, <2>3, <2>4
<1>3. CASE OpenFails(t) \/ SetConnected(t)
  BY <1>3 DEF OpenFails, SetConnected
<1>4. CASE OpenStream(t) \/ InstallFile(t) \/ InstallStream(t) \/ ReleasePrevious(t)
  BY <1>4 DEF OpenStream, InstallFile, InstallStream, ReleasePrevious
<1> QED BY <1>1, <1>2, <1>3, <1>4 DEF Connect

LEMMA QuitStep == QuitInv /\ LoopInv /\ [Next]_vars => QuitInv'
<1> SUFFICES ASSUME QuitInv, LoopInv, [Next]_vars PROVE QuitInv'
  OBVIOUS
<1> USE NamesAssumption DEF QuitInv, Threads
<1>1. ASSUME NEW t \in Threads, DialConnects(t) PROVE QuitInv'
  <2>1. /\ pc[t] = "dial" /\ pc' = [pc EXCEPT ![t] = "sync"]
        /\ lateDials' = IF stopped THEN lateDials + 1 ELSE lateDials
        /\ UNCHANGED <<stopped, exiting>>
    BY <1>1 DEF DialConnects, Goto, appVars
  <2>2. CASE stopped
    <3>1. t \in Loops /\ lateDials = 0
      BY <2>1, <2>2
    <3>2. \A u \in Threads : pc'[u] # "dial"
      BY <2>1, <2>2, <3>1 DEF LoopInv, OneReconnectLoop
    <3> QED BY <2>1, <2>2, <3>1, <3>2 DEF LoopInv
  <2>3. CASE ~stopped
    BY <2>1, <2>3 DEF LoopInv
  <2> QED BY <2>2, <2>3
<1>2. ASSUME NEW t \in Threads, Connect(t), ~DialConnects(t) PROVE QuitInv'
  <2>1. ConnectMoved(t)
    BY <1>2, ConnectMovesOn DEF ConnectMoved
  <2> QED BY <2>1 DEF ConnectMoved, LoopInv, ConnectSteps
<1>3. ASSUME NEW l \in Loops, ReconnectLoop(l) PROVE QuitInv'
  <2>1. /\ UNCHANGED <<stopped, lateDials, exiting>>
        /\ \E step \in {"finish", "check", "idle"} \cup {x \in {"dial"} : ~stopped} :
             pc' = [pc EXCEPT ![l] = step]
    BY <1>3 DEF ReconnectLoop, LoopCheck, LoopWait, LoopFinish, Goto, appVars
  <2> QED BY <2>1 DEF LoopInv
<1>4. ASSUME NEW c \in Clients, StartReconnect(c) PROVE QuitInv'
  BY <1>4 DEF StartReconnect, Goto, LoopInv
<1>5. ASSUME NEW c \in Clients, ReadRoutine(c) \/ LinkFails(c), ~StartReconnect(c)
      PROVE  UNCHANGED <<pc, stopped, exiting, lateDials>>
  BY <1>5 DEF ReadRoutine, OnDisconnect, RejectArrives, Reject, ServerSync, OnConnect,
              CloseConnect, ReadFails, CleanFile, CleanStream, SetDisconnected,
              LinkFails, threadVars, appVars
<1>6. CASE Exit \/ Terminated \/ UNCHANGED vars
  BY <1>6 DEF Exit, Terminated, vars, threadVars, appVars
<1>7. CASE Shutdown
  BY <1>7 DEF Shutdown, threadVars
<1> QED BY <1>1, <1>2, <1>3, <1>4, <1>5, <1>6, <1>7 DEF Next

\* What the steps below are proved from.
Known == LifeInv /\ StreamTypes /\ DialsAreFresh /\ QuitInv

\* What connect() reads and writes, and what it leaves to the readers.
connectFacts == <<state, connectCh, reader, appClient>>

LEMMA LifeConnect ==
  ASSUME Known, NEW t \in Threads, Connect(t)
  PROVE  LifeInv'
<1> USE NoneIsNoClient, NamesAssumption DEF Known, LifeInv, Goto, Busy
<1>1. CASE DialFails(t)
  <2>1. /\ pc[t] = "dial" /\ UNCHANGED <<connectFacts, sockOpen, dial, stream, fileStream, streamClient, connected>>
        /\ faults.left > 0 /\ faults' = [faults EXCEPT !.left = @ - 1]
        /\ pc' = [pc EXCEPT ![t] = IF t = UI THEN "events" ELSE "wait"]
        /\ exiting' = (exiting \/ t = UI)
    BY <1>1 DEF DialFails, ConnectFailed, Fault, connectFacts, clientVars, audioVars
  <2>2. LifeTypes' /\ ReaderStages'
    BY <2>1 DEF LifeTypes, ReaderStages, connectFacts
  <2>3. ASSUME Undisturbed' PROVE Undisturbed /\ t # UI
    BY <2>1, <2>3 DEF Undisturbed, LifeTypes
  <2>4. ASSUME Undisturbed, t # UI PROVE OneAtATime' /\ ConnectProgress' /\ ConnectedInv'
    <3>1. pc' = [pc EXCEPT ![t] = "wait"]
      BY <2>1, <2>4
    <3>2. \A c \in Clients : ~Active(c)
      BY <2>1, <2>4 DEF OneAtATime, ConnectSteps
    <3>3. OneAtATime'
      BY <2>1, <2>4, <3>1, <3>2 DEF OneAtATime, Active, StreamTypes, connectFacts, ConnectSteps
    <3>4. ConnectProgress'
      BY <2>1, <2>4, <3>1 DEF ConnectProgress, StreamTypes, connectFacts
    <3>5. ConnectedInv'
      BY <2>1, <2>4 DEF ConnectedInv, Active, connectFacts
    <3> QED BY <3>3, <3>4, <3>5
  <2> QED BY <2>2, <2>3, <2>4
<1>2. CASE DialConnects(t)
  <2>1. PICK c \in Clients :
          /\ state[c] = "unused"
          /\ state' = [state EXCEPT ![c] = "Connected"]
          /\ sockOpen' = [sockOpen EXCEPT ![c] = TRUE]
          /\ reader' = [reader EXCEPT ![c] = "read"]
          /\ dial' = [dial EXCEPT ![t] = c]
    BY <1>2 DEF DialConnects
  <2>2. /\ pc[t] = "dial" /\ pc' = [pc EXCEPT ![t] = "sync"]
        /\ UNCHANGED <<connectCh, appClient, stream, fileStream, streamClient, connected, exiting, faults>>
    BY <1>2 DEF DialConnects, audioVars, appVars
  <2>3. LifeTypes'
    BY <2>1, <2>2 DEF LifeTypes, StreamTypes, ReaderSteps, DisconnectSteps
  <2>4. ReaderStages'
    BY <2>1, <2>2 DEF LifeTypes, ReaderStages, StreamTypes, DisconnectSteps
  <2>5. ASSUME Undisturbed' PROVE OneAtATime' /\ ConnectProgress' /\ ConnectedInv'
    <3>1. Undisturbed
      BY <2>2, <2>5 DEF Undisturbed
    <3>2. \A d \in Clients : ~Active(d)
      BY <2>2, <3>1 DEF OneAtATime, ConnectSteps
    <3>3. \A d \in Clients : ~Active(d)'
      BY <2>1, <2>2, <3>2 DEF Active, LifeTypes, StreamTypes, DisconnectSteps
    <3>4. \A u \in Threads \ {t} : ~Busy(u) /\ pc'[u] = pc[u] /\ dial'[u] = dial[u]
      BY <2>1, <2>2, <3>1 DEF OneAtATime, StreamTypes
    <3>5. pc'[t] = "sync" /\ dial'[t] = c /\ connectCh'[c] = "empty"
      BY <2>1, <2>2 DEF StreamTypes, ReaderStages
    <3>6. OneAtATime'
      BY <2>1, <2>2, <3>1, <3>3, <3>4, <3>5 DEF OneAtATime, Active, StreamTypes, LifeTypes
    <3>7. ConnectProgress'
      <4>1. connected' = FALSE
        BY <2>2, <3>1 DEF ConnectProgress
      <4>2. \A d \in Clients : reader'[d] # "closeConnect"
        BY <3>3, <2>4 DEF Active, ReaderStages
      <4> QED BY <3>4, <3>5, <4>1, <4>2 DEF ConnectProgress
    <3>8. ConnectedInv'
      <4>1. connected' = FALSE
        BY <2>2, <3>1 DEF ConnectProgress
      <4> QED BY <4>1 DEF ConnectedInv
    <3> QED BY <3>6, <3>7, <3>8
  <2> QED BY <2>3, <2>4, <2>5
<1>3. CASE DialTimesOut(t)
  <2>1. /\ pc[t] = "sync" /\ ("late" \in faults.hits \/ state[dial[t]] # "Synced")
        /\ UNCHANGED <<connectFacts, dial, stream, fileStream, streamClient, connected>>
        /\ (faults.left > 0 /\ faults' = [faults EXCEPT !.left = @ - 1]) \/ faults' = faults
        /\ sockOpen' = [sockOpen EXCEPT ![dial[t]] = FALSE]
        /\ pc' = [pc EXCEPT ![t] = IF t = UI THEN "events" ELSE "wait"]
        /\ exiting' = (exiting \/ t = UI)
    BY <1>3 DEF DialTimesOut, ConnectFailed, Fault, connectFacts, audioVars
  <2>2. dial[t] \in Clients
    BY <2>1 DEF DialsAreFresh, StreamTypes, ConnectSteps
  <2>3. LifeTypes' /\ ReaderStages'
    BY <2>1, <2>2 DEF LifeTypes, ReaderStages, connectFacts
  <2>4. ASSUME Undisturbed' PROVE Undisturbed /\ t # UI
    BY <2>1, <2>4 DEF Undisturbed, LifeTypes
  <2>5. ASSUME Undisturbed, t # UI PROVE OneAtATime' /\ ConnectProgress' /\ ConnectedInv'
    <3>1. pc' = [pc EXCEPT ![t] = "wait"]
      BY <2>1, <2>5
    <3>2. \A c \in Clients : ~Active(c)
      <4>1. state[dial[t]] # "Synced"
        BY <2>1, <2>5 DEF Undisturbed
      <4> QED BY <2>1, <2>5, <4>1 DEF OneAtATime, Active
    <3>3. OneAtATime'
      BY <2>1, <2>2, <2>5, <3>1, <3>2 DEF OneAtATime, Active, StreamTypes, LifeTypes, connectFacts
    <3>4. ConnectProgress'
      BY <2>1, <2>5, <3>1 DEF ConnectProgress, StreamTypes, connectFacts
    <3>5. ConnectedInv'
      BY <2>1, <2>5 DEF ConnectedInv, Active, connectFacts
    <3> QED BY <3>3, <3>4, <3>5
  <2> QED BY <2>3, <2>4, <2>5
<1>4. CASE DialReturns(t) /\ connectCh[dial[t]] # "closed"
  <2>1. /\ pc[t] = "sync" /\ connectCh[dial[t]] = "rejected"
        /\ UNCHANGED <<state, reader, appClient, dial, stream, fileStream, streamClient, connected, faults>>
        /\ sockOpen' = [sockOpen EXCEPT ![dial[t]] = FALSE]
        /\ connectCh' = [connectCh EXCEPT ![dial[t]] = "empty"]
        /\ pc' = [pc EXCEPT ![t] = IF t = UI THEN "events" ELSE "wait"]
        /\ exiting' = (exiting \/ t = UI)
    BY <1>4 DEF DialReturns, ConnectFailed, audioVars
  <2>2. dial[t] \in Clients
    BY <2>1 DEF DialsAreFresh, StreamTypes, ConnectSteps
  <2>3. LifeTypes' /\ ReaderStages'
    BY <2>1, <2>2 DEF LifeTypes, ReaderStages
  <2>4. ASSUME Undisturbed' PROVE Undisturbed /\ t # UI
    BY <2>1, <2>4 DEF Undisturbed, LifeTypes
  <2>5. ASSUME Undisturbed, t # UI PROVE OneAtATime' /\ ConnectProgress' /\ ConnectedInv'
    <3>1. pc' = [pc EXCEPT ![t] = "wait"]
      BY <2>1, <2>5
    <3>2. \A c \in Clients : ~Active(c)
      <4>1. state[dial[t]] # "Synced"
        BY <2>1, <2>2 DEF ReaderStages
      <4> QED BY <2>1, <2>5, <4>1 DEF OneAtATime, Active
    <3>3. OneAtATime'
      BY <2>1, <2>2, <2>5, <3>1, <3>2 DEF OneAtATime, Active, StreamTypes, LifeTypes
    <3>4. ConnectProgress'
      BY <2>1, <2>2, <2>5, <3>1 DEF ConnectProgress, StreamTypes, LifeTypes, DialsAreFresh, ConnectSteps
    <3>5. ConnectedInv'
      BY <2>1, <2>5 DEF ConnectedInv, Active
    <3> QED BY <3>3, <3>4, <3>5
  <2> QED BY <2>3, <2>4, <2>5
<1>5. CASE DialReturns(t) /\ connectCh[dial[t]] = "closed"
  <2>1. /\ pc[t] = "sync" /\ pc' = [pc EXCEPT ![t] = "open"]
        /\ UNCHANGED <<connectFacts, sockOpen, dial, stream, fileStream, streamClient, connected, exiting, faults>>
    BY <1>5 DEF DialReturns, audioVars, connectFacts
  <2>2. LifeTypes' /\ ReaderStages'
    BY <2>1 DEF LifeTypes, ReaderStages, connectFacts
  <2>3. ASSUME Undisturbed PROVE OneAtATime' /\ ConnectProgress' /\ ConnectedInv'
    <3>1. state[dial[t]] = "Synced" /\ appClient = dial[t] /\ dial[t] \in Clients
      BY <1>5, <2>1, <2>3 DEF ConnectProgress, DialsAreFresh, StreamTypes, ConnectSteps
    <3>2. OneAtATime'
      BY <2>1, <2>3, <3>1 DEF OneAtATime, Active, StreamTypes, connectFacts, ConnectSteps, DialsAreFresh
    <3>3. ConnectProgress'
      BY <2>1, <2>3, <3>1 DEF ConnectProgress, StreamTypes, connectFacts
    <3>4. ConnectedInv'
      BY <2>1, <2>3 DEF ConnectedInv, Active, connectFacts
    <3> QED BY <3>2, <3>3, <3>4
  <2> QED BY <2>1, <2>2, <2>3 DEF Undisturbed
<1>6. CASE OpenFails(t)
  <2>1. /\ faults.left > 0 /\ faults' = [faults EXCEPT !.left = @ - 1] /\ exiting' = TRUE
        /\ UNCHANGED <<connectFacts, sockOpen, streamClient, connected>>
    BY <1>6 DEF OpenFails, Fault, clientVars, audioVars, connectFacts
  <2>2. LifeTypes' /\ ReaderStages'
    BY <2>1 DEF LifeTypes, ReaderStages, connectFacts
  <2> QED BY <2>1, <2>2 DEF Undisturbed
<1>7. CASE OpenStream(t) \/ InstallFile(t) \/ InstallStream(t) \/ ReleasePrevious(t) \/ SetConnected(t)
  <2>1. /\ UNCHANGED <<connectFacts, sockOpen, dial, exiting, faults>>
        /\ \/ /\ pc[t] = "open" /\ pc' = [pc EXCEPT ![t] = "file"]
              /\ streamClient' = [streamClient EXCEPT ![dial[t]] = appClient]
              /\ UNCHANGED <<fileStream, stream, connected>>
           \/ /\ pc[t] = "file" /\ pc' = [pc EXCEPT ![t] = "stream"]
              /\ fileStream' = dial[t] /\ UNCHANGED <<streamClient, stream, connected>>
           \/ /\ pc[t] = "stream" /\ pc' = [pc EXCEPT ![t] = "release"]
              /\ stream' = dial[t] /\ UNCHANGED <<streamClient, fileStream, connected>>
           \/ /\ pc[t] = "release" /\ pc' = [pc EXCEPT ![t] = "setConnected"]
              /\ UNCHANGED <<streamClient, fileStream, stream, connected>>
           \/ /\ pc[t] = "setConnected" /\ pc' = [pc EXCEPT ![t] = IF t = UI THEN "events" ELSE "finish"]
              /\ connected' = TRUE /\ UNCHANGED <<streamClient, fileStream, stream>>
    BY <1>7 DEF OpenStream, InstallFile, InstallStream, ReleasePrevious, SetConnected,
                clientVars, audioVars, appVars, connectFacts
  <2>2. dial[t] \in Clients
    BY <2>1 DEF DialsAreFresh, StreamTypes, ConnectSteps
  <2>3. ReaderStages'
    BY <2>1 DEF ReaderStages, connectFacts
  <2>4. ASSUME Undisturbed
        PROVE  state[dial[t]] = "Synced" /\ appClient = dial[t] /\ reader[dial[t]] \notin DisconnectSteps
    BY <2>1, <2>2, <2>4 DEF ConnectProgress, OneAtATime
  <2>5. LifeTypes'
    BY <2>1, <2>2, <2>4 DEF LifeTypes, connectFacts
  <2>6. ASSUME Undisturbed PROVE OneAtATime' /\ ConnectProgress' /\ ConnectedInv'
    <3>1. \A u \in Threads \ {t} : ~Busy(u) /\ pc'[u] = pc[u]
      BY <2>1, <2>6 DEF OneAtATime, StreamTypes
    <3>2. OneAtATime'
      BY <2>1, <2>2, <2>4, <2>6, <3>1 DEF OneAtATime, Active, StreamTypes, connectFacts, ConnectSteps
    <3>3. ConnectProgress'
      BY <2>1, <2>2, <2>4, <2>6, <3>1 DEF ConnectProgress, StreamTypes, LifeTypes, connectFacts
    <3>4. ConnectedInv'
      <4>1. CASE pc[t] = "setConnected"
        <5>1. /\ streamClient[dial[t]] = dial[t] /\ fileStream = dial[t] /\ stream = dial[t]
              /\ reader[dial[t]] # "startReconnect"
          BY <2>4, <2>6, <4>1 DEF ConnectProgress, DisconnectSteps
        <5>2. \A c \in Clients : reader[c] # "startReconnect"
          BY <2>6, <4>1 DEF OneAtATime, DisconnectSteps
        <5> QED BY <2>1, <2>2, <2>4, <4>1, <5>1, <5>2, <2>6 DEF ConnectedInv, Active, connectFacts
      <4>2. CASE pc[t] # "setConnected"
        <5>1. connected' = FALSE
          BY <2>1, <2>6, <4>2 DEF ConnectProgress
        <5> QED BY <5>1 DEF ConnectedInv
      <4> QED BY <4>1, <4>2
    <3> QED BY <3>2, <3>3, <3>4
  <2> QED BY <2>1, <2>3, <2>5, <2>6 DEF Undisturbed
<1> QED BY <1>1, <1>2, <1>3, <1>4, <1>5, <1>6, <1>7 DEF Connect

\* The steps of the readers and of the environment.
readerFacts == <<pc, dial, connected, exiting, stream, fileStream, streamClient>>

LEMMA LifeReader ==
  ASSUME Known, NEW c \in Clients, ReadRoutine(c) \/ LinkFails(c)
  PROVE  LifeInv'
<1> USE NoneIsNoClient, NamesAssumption DEF Known, LifeInv, ReaderGoto, Busy
<1>1. CASE RejectArrives(c)
  <2>1. /\ reader[c] = "read" /\ state[c] = "Connected"
        /\ faults.left > 0 /\ faults' = [faults EXCEPT !.left = @ - 1]
        /\ reader' = [reader EXCEPT ![c] = "reject"]
        /\ UNCHANGED <<readerFacts, state, sockOpen, connectCh, appClient>>
    BY <1>1 DEF RejectArrives, Fault, readerFacts, audioVars, threadVars, appVars
  <2>2. LifeTypes' /\ ReaderStages'
    BY <2>1 DEF LifeTypes, ReaderStages, ReaderSteps, DisconnectSteps, readerFacts
  <2>3. Undisturbed' => Undisturbed
    BY <2>1 DEF Undisturbed, LifeTypes, readerFacts
  <2>4. ASSUME Undisturbed PROVE OneAtATime' /\ ConnectProgress' /\ ConnectedInv'
    BY <2>1, <2>4 DEF OneAtATime, ConnectProgress, ConnectedInv, Active, LifeTypes, DisconnectSteps, readerFacts
  <2> QED BY <2>2, <2>3, <2>4
<1>2. CASE Reject(c)
  <2>1. /\ reader[c] = "reject" /\ connectCh' = [connectCh EXCEPT ![c] = "rejected"]
        /\ sockOpen' = [sockOpen EXCEPT ![c] = FALSE]
        /\ reader' = [reader EXCEPT ![c] = "read"]
        /\ UNCHANGED <<readerFacts, state, appClient, faults>>
    BY <1>2 DEF Reject, readerFacts, audioVars, threadVars, appVars
  <2>2. state[c] = "Connected" /\ connectCh[c] # "closed"
    BY <2>1 DEF ReaderStages
  <2>3. LifeTypes' /\ ReaderStages'
    BY <2>1, <2>2 DEF LifeTypes, ReaderStages, ReaderSteps, DisconnectSteps, readerFacts
  <2>4. ASSUME Undisturbed PROVE OneAtATime' /\ ConnectProgress' /\ ConnectedInv'
    BY <2>1, <2>2, <2>4 DEF OneAtATime, ConnectProgress, ConnectedInv, Active, LifeTypes, DisconnectSteps, readerFacts
  <2> QED BY <2>1, <2>3, <2>4 DEF Undisturbed, readerFacts
<1>3. CASE ServerSync(c)
  <2>1. /\ reader[c] = "read" /\ state[c] = "Connected" /\ sockOpen[c]
        /\ state' = [state EXCEPT ![c] = "Synced"]
        /\ reader' = [reader EXCEPT ![c] = "onConnect"]
        /\ UNCHANGED <<readerFacts, sockOpen, connectCh, appClient, faults>>
    BY <1>3 DEF ServerSync, readerFacts, audioVars, threadVars, appVars
  <2>2. LifeTypes' /\ ReaderStages'
    BY <2>1 DEF LifeTypes, ReaderStages, StreamTypes, ReaderSteps, DisconnectSteps, readerFacts
  <2>3. ASSUME Undisturbed PROVE OneAtATime' /\ ConnectProgress' /\ ConnectedInv'
    <3>1. PICK t \in Threads : dial[t] = c /\ pc[t] = "sync"
      BY <2>1, <2>3 DEF OneAtATime
    <3>2. \A d \in Clients : ~Active(d)
      BY <2>1, <2>3, <3>1 DEF OneAtATime, Active, DisconnectSteps
    <3>3. \A d \in Clients : Active(d)' => d = c
      BY <2>1, <3>2 DEF Active, LifeTypes, StreamTypes, DisconnectSteps
    <3>4. OneAtATime'
      <4>1. \A u \in Threads : Busy(u) => u = t
        BY <2>3, <3>1 DEF OneAtATime
      <4>2. \A d \in Clients : reader'[d] \notin DisconnectSteps
        BY <2>1, <3>2 DEF Active, LifeTypes, DisconnectSteps
      <4>3. \A d \in Clients : state'[d] = "Synced" => d = c
        BY <3>3 DEF Active
      <4> QED BY <2>1, <2>3, <3>1, <3>3, <4>1, <4>2, <4>3
              DEF OneAtATime, LifeTypes, StreamTypes, readerFacts, ConnectSteps
    <3>5. ConnectProgress'
      BY <2>1, <2>3 DEF ConnectProgress, LifeTypes, StreamTypes, readerFacts, ReaderStages, DialsAreFresh, ConnectSteps
    <3>6. ConnectedInv'
      <4>1. connected = FALSE
        BY <2>3, <3>1 DEF ConnectProgress
      <4> QED BY <2>1, <4>1 DEF ConnectedInv, readerFacts
    <3> QED BY <3>4, <3>5, <3>6
  <2> QED BY <2>1, <2>2, <2>3 DEF Undisturbed, readerFacts
<1>4. CASE OnConnect(c)
  <2>1. /\ reader[c] = "onConnect" /\ appClient' = c
        /\ reader' = [reader EXCEPT ![c] = "closeConnect"]
        /\ UNCHANGED <<readerFacts, sockOpen, connectCh, state, faults>>
    BY <1>4 DEF OnConnect, readerFacts, audioVars, threadVars
  <2>2. LifeTypes' /\ ReaderStages'
    BY <2>1 DEF LifeTypes, ReaderStages, ReaderSteps, DisconnectSteps, readerFacts
  <2>3. ASSUME Undisturbed PROVE OneAtATime' /\ ConnectProgress' /\ ConnectedInv'
    <3>1. Active(c) /\ \A d \in Clients : Active(d) => d = c
      BY <2>1, <2>3 DEF OneAtATime, Active, ReaderStages
    <3>2. \A d \in Clients : (reader'[d] \in DisconnectSteps) = (reader[d] \in DisconnectSteps)
      BY <2>1 DEF LifeTypes, DisconnectSteps
    <3>3. OneAtATime'
      BY <2>1, <2>3, <3>2 DEF OneAtATime, Active, readerFacts
    <3>4. \A d \in Clients : reader'[d] = "closeConnect" => d = c
      BY <2>1, <2>2, <3>1, <3>2 DEF ReaderStages, Active
    <3>5. ConnectProgress'
      BY <2>1, <2>3, <3>1, <3>4 DEF ConnectProgress, Active, readerFacts, DialsAreFresh, StreamTypes, ConnectSteps
    <3>6. ConnectedInv'
      BY <2>1, <2>3, <3>1, <3>2 DEF ConnectedInv, Active, readerFacts, LifeTypes
    <3> QED BY <3>3, <3>5, <3>6
  <2> QED BY <2>1, <2>2, <2>3 DEF Undisturbed, readerFacts
<1>5. CASE CloseConnect(c)
  <2>1. connectCh[c] # "closed" /\ state[c] = "Synced"
    BY <1>5 DEF ReaderStages, CloseConnect
  <2>2. /\ reader[c] = "closeConnect" /\ connectCh' = [connectCh EXCEPT ![c] = "closed"]
        /\ reader' = [reader EXCEPT ![c] = "read"]
        /\ UNCHANGED <<readerFacts, sockOpen, state, appClient, faults>>
    BY <1>5, <2>1 DEF CloseConnect, readerFacts, audioVars, threadVars, appVars
  <2>3. LifeTypes' /\ ReaderStages'
    BY <2>1, <2>2 DEF LifeTypes, ReaderStages, ReaderSteps, DisconnectSteps, readerFacts
  <2>4. ASSUME Undisturbed PROVE OneAtATime' /\ ConnectProgress' /\ ConnectedInv'
    <3>1. appClient = c
      BY <2>2, <2>4 DEF ConnectProgress
    <3> QED BY <2>1, <2>2, <2>4, <3>1 DEF OneAtATime, ConnectProgress, ConnectedInv, Active, LifeTypes, DisconnectSteps, readerFacts
  <2> QED BY <2>2, <2>3, <2>4 DEF Undisturbed, readerFacts
<1>6. CASE ReadFails(c)
  <2>1. /\ reader[c] = "read" /\ ~sockOpen[c]
        /\ state' = [state EXCEPT ![c] = "Disconnected"]
        /\ reader' = [reader EXCEPT ![c] = IF state[c] = "Synced" THEN "cleanFile" ELSE "done"]
        /\ UNCHANGED <<readerFacts, sockOpen, connectCh, appClient, faults>>
    BY <1>6 DEF ReadFails, readerFacts, audioVars, threadVars, appVars
  <2>2. LifeTypes' /\ ReaderStages'
    BY <2>1 DEF LifeTypes, ReaderStages, StreamTypes, ReaderSteps, DisconnectSteps, readerFacts
  <2>3. ASSUME Undisturbed PROVE OneAtATime' /\ ConnectProgress' /\ ConnectedInv'
    <3>1. \A d \in Clients : Active(d)' <=> Active(d)
      BY <2>1 DEF Active, LifeTypes, StreamTypes, DisconnectSteps
    <3>2. state[c] = "Synced" => \A t \in Threads : ~Busy(t)
      BY <2>1, <2>3 DEF OneAtATime
    <3>3. OneAtATime'
      BY <2>1, <2>3, <3>1, <3>2 DEF OneAtATime, Active, LifeTypes, StreamTypes, readerFacts
    <3>4. ConnectProgress'
      BY <2>1, <2>3, <3>2 DEF ConnectProgress, LifeTypes, StreamTypes, readerFacts
    <3>5. ConnectedInv'
      BY <2>1, <2>3, <3>1 DEF ConnectedInv, LifeTypes, StreamTypes, readerFacts, DisconnectSteps
    <3> QED BY <3>3, <3>4, <3>5
  <2> QED BY <2>1, <2>2, <2>3 DEF Undisturbed, readerFacts
<1>7. CASE CleanFile(c) \/ CleanStream(c) \/ SetDisconnected(c)
  <2>1. /\ UNCHANGED <<pc, dial, exiting, streamClient, sockOpen, connectCh, state, appClient, faults>>
        /\ \/ /\ reader[c] = "cleanFile" /\ reader' = [reader EXCEPT ![c] = "cleanStream"]
              /\ UNCHANGED connected
           \/ /\ reader[c] = "cleanStream" /\ reader' = [reader EXCEPT ![c] = "setDisconnected"]
              /\ UNCHANGED connected
           \/ /\ reader[c] = "setDisconnected" /\ reader' = [reader EXCEPT ![c] = "startReconnect"]
              /\ connected' = FALSE
    BY <1>7 DEF CleanFile, CleanStream, SetDisconnected, audioVars, threadVars, appVars
  <2>2. reader[c] \in DisconnectSteps /\ reader'[c] \in DisconnectSteps
    BY <2>1 DEF LifeTypes, DisconnectSteps
  <2>3. LifeTypes' /\ ReaderStages'
    <3>1. PICK step \in DisconnectSteps : reader' = [reader EXCEPT ![c] = step]
      BY <2>1 DEF DisconnectSteps
    <3>2. LifeTypes'
      BY <2>1, <3>1 DEF LifeTypes, ReaderSteps
    <3>3. ReaderStages'
      BY <2>1, <2>2, <3>1 DEF LifeTypes, ReaderStages, DisconnectSteps
    <3> QED BY <3>2, <3>3
  <2>4. ASSUME Undisturbed PROVE OneAtATime' /\ ConnectProgress' /\ ConnectedInv'
    <3>1. \A d \in Clients : (reader'[d] \in DisconnectSteps) = (reader[d] \in DisconnectSteps)
      BY <2>1, <2>2 DEF LifeTypes, DisconnectSteps
    <3>2. \A t \in Threads : ~Busy(t)
      BY <2>2, <2>4 DEF OneAtATime
    <3>3. OneAtATime'
      BY <2>1, <2>4, <3>1 DEF OneAtATime, Active
    <3>4. ConnectProgress'
      BY <2>1, <2>4, <3>2 DEF ConnectProgress, LifeTypes
    <3>5. ConnectedInv'
      <4>1. \A d \in Clients : Active(d) => d = c
        BY <2>2, <2>4 DEF OneAtATime, Active
      <4> QED BY <2>1, <2>2, <2>4, <3>1, <4>1 DEF ConnectedInv, Active, LifeTypes
    <3> QED BY <3>3, <3>4, <3>5
  <2> QED BY <2>1, <2>3, <2>4 DEF Undisturbed
<1>8. CASE StartReconnect(c)
  <2>1. /\ reader[c] = "startReconnect" /\ reader' = [reader EXCEPT ![c] = "done"]
        /\ \/ UNCHANGED pc
           \/ \E l \in Loops : pc[l] = "idle" /\ pc' = [pc EXCEPT ![l] = "check"]
        /\ UNCHANGED <<dial, connected, exiting, stream, fileStream, streamClient, sockOpen, connectCh, state, appClient, faults>>
    BY <1>8 DEF StartReconnect, Goto, audioVars
  <2>2. LifeTypes' /\ ReaderStages'
    BY <2>1 DEF LifeTypes, ReaderStages, ReaderSteps, DisconnectSteps
  <2>3. ASSUME Undisturbed PROVE OneAtATime' /\ ConnectProgress' /\ ConnectedInv'
    <3>1. (\A t \in Threads : ~Busy(t)) /\ connected = FALSE
      BY <2>1, <2>3 DEF OneAtATime, ConnectedInv, DisconnectSteps
    <3>2. \A d \in Clients : Active(d) => d = c
      BY <2>1, <2>3 DEF OneAtATime, Active, DisconnectSteps
    <3>3. state[c] # "Synced"
      BY <2>1 DEF ReaderStages, DisconnectSteps
    <3>4. \A d \in Clients : ~Active(d)'
      BY <2>1, <3>2, <3>3 DEF Active, LifeTypes, DisconnectSteps
    <3>5. \A t \in Threads : Busy(t)' => pc'[t] = "check"
      BY <2>1, <3>1 DEF StreamTypes, Threads
    <3>6. \A t, u \in Threads : Busy(t)' /\ Busy(u)' => t = u
      BY <2>1, <3>1 DEF StreamTypes, Threads
    <3>7. OneAtATime'
      BY <2>1, <2>3, <3>1, <3>4, <3>5, <3>6 DEF OneAtATime, Active
    <3>8. ConnectProgress'
      BY <2>1, <2>3, <3>1, <3>5 DEF ConnectProgress, LifeTypes
    <3>9. ConnectedInv'
      BY <2>1, <3>1 DEF ConnectedInv
    <3> QED BY <3>7, <3>8, <3>9
  <2> QED BY <2>1, <2>2, <2>3 DEF Undisturbed
<1>9. CASE LinkFails(c)
  <2>1. /\ sockOpen[c] /\ ("open" \in faults.hits \/ ~Connecting(c))
        /\ faults.left > 0 /\ faults' = [faults EXCEPT !.left = @ - 1]
        /\ sockOpen' = [sockOpen EXCEPT ![c] = FALSE]
        /\ UNCHANGED <<readerFacts, reader, state, connectCh, appClient>>
    BY <1>9 DEF LinkFails, Fault, readerFacts, audioVars, threadVars, appVars
  <2>2. LifeTypes' /\ ReaderStages'
    BY <2>1 DEF LifeTypes, ReaderStages, readerFacts
  <2>3. Undisturbed' => Undisturbed
    BY <2>1 DEF Undisturbed, LifeTypes, readerFacts
  <2>4. ASSUME Undisturbed PROVE OneAtATime' /\ ConnectProgress' /\ ConnectedInv'
    <3>1. ~Connecting(c)
      BY <2>1, <2>4 DEF Undisturbed
    <3>2. state[c] = "Synced" => \A t \in Threads : ~Busy(t)
      BY <2>4, <3>1 DEF OneAtATime, Active, Connecting
    <3> QED BY <2>1, <2>4, <3>2 DEF OneAtATime, ConnectProgress, ConnectedInv, Active, LifeTypes, readerFacts
  <2> QED BY <2>2, <2>3, <2>4
<1> QED BY <1>1, <1>2, <1>3, <1>4, <1>5, <1>6, <1>7, <1>8, <1>9 DEF ReadRoutine, OnDisconnect

LEMMA LifeStep == Known /\ [Next]_vars => LifeInv'
<1> SUFFICES ASSUME Known, [Next]_vars PROVE LifeInv'
  OBVIOUS
<1>1. ASSUME UNCHANGED <<clientVars, dial, appClient, connected, stream, fileStream, streamClient, faults, exiting>>,
             \/ UNCHANGED pc
             \/ \E l \in Loops :
                  \/ pc[l] = "finish" /\ pc' = [pc EXCEPT ![l] = "idle"]
                  \/ pc[l] = "wait" /\ pc' = [pc EXCEPT ![l] = "check"]
                  \/ pc[l] = "check" /\ pc' = [pc EXCEPT ![l] = "dial"]
                  \/ pc' = [pc EXCEPT ![l] = "finish"] /\ exiting = TRUE
      PROVE  LifeInv'
  <2> USE DEF Known, LifeInv, clientVars
  <2>1. LifeTypes' /\ ReaderStages'
    BY <1>1 DEF LifeTypes, ReaderStages
  <2>2. Undisturbed' => Undisturbed
    BY <1>1 DEF Undisturbed
  <2>3. ASSUME Undisturbed PROVE OneAtATime' /\ ConnectProgress' /\ ConnectedInv'
    <3>1. ConnectedInv'
      BY <1>1, <2>3 DEF ConnectedInv, Active
    <3>2. CASE UNCHANGED pc
      BY <1>1, <2>3, <3>1, <3>2 DEF OneAtATime, ConnectProgress, Active, Busy
    <3>3. ASSUME NEW l \in Loops, pc[l] = "finish", pc' = [pc EXCEPT ![l] = "idle"]
          PROVE  OneAtATime' /\ ConnectProgress'
      BY <1>1, <2>3, <3>3 DEF OneAtATime, ConnectProgress, Active, Busy, StreamTypes
    <3>4. ASSUME NEW l \in Loops, NEW step \in {"check", "dial"},
                 pc[l] \in {"check", "wait"}, pc' = [pc EXCEPT ![l] = step]
          PROVE  OneAtATime' /\ ConnectProgress'
      <4>1. \A c \in Clients : ~Active(c)
        BY <2>3, <3>4 DEF OneAtATime, Busy, Threads, ConnectSteps
      <4>2. OneAtATime'
        BY <1>1, <2>3, <3>4, <4>1 DEF OneAtATime, Active, Busy, StreamTypes, Threads
      <4>3. ConnectProgress'
        BY <1>1, <2>3, <3>4 DEF ConnectProgress, Busy, StreamTypes, Threads
      <4> QED BY <4>2, <4>3
    <3> QED BY <1>1, <2>3, <3>1, <3>2, <3>3, <3>4 DEF Undisturbed, StreamTypes, Threads
  <2> QED BY <2>1, <2>2, <2>3
<1>2. ASSUME NEW l \in Loops, ReconnectLoop(l) PROVE LifeInv'
  <2>1. l \in Threads /\ (stopped => exiting = TRUE)
    BY DEF Threads, Known, QuitInv, LifeInv, LifeTypes
  <2>2. UNCHANGED <<clientVars, dial, appClient, connected, stream, fileStream, streamClient, faults, exiting>>
    BY <1>2 DEF ReconnectLoop, LoopCheck, LoopWait, LoopFinish, audioVars, appVars
  <2>3. \/ pc[l] = "finish" /\ pc' = [pc EXCEPT ![l] = "idle"]
        \/ pc[l] = "wait" /\ pc' = [pc EXCEPT ![l] = "check"]
        \/ pc[l] = "check" /\ pc' = [pc EXCEPT ![l] = "dial"]
        \/ pc' = [pc EXCEPT ![l] = "finish"] /\ stopped
    BY <1>2 DEF ReconnectLoop, LoopCheck, LoopWait, LoopFinish, Goto
  <2> QED BY <1>1, <2>1, <2>2, <2>3
<1>3. CASE Shutdown
  <2>1. /\ exiting' = TRUE /\ sockOpen' \in [Clients -> BOOLEAN]
        /\ \A c \in Clients : sockOpen'[c] => sockOpen[c]
        /\ UNCHANGED <<state, connectCh, reader, appClient, connected, streamClient, faults>>
    BY <1>3 DEF Shutdown, audioVars, Known, LifeInv, LifeTypes
  <2> QED BY <2>1 DEF Known, LifeInv, LifeTypes, ReaderStages, Undisturbed
<1>4. CASE Exit \/ Terminated \/ UNCHANGED vars
  BY <1>1, <1>4 DEF Exit, Terminated, vars, clientVars, threadVars, audioVars, appVars
<1> QED BY <1>2, <1>3, <1>4, LifeConnect, LifeReader DEF Next

LEMMA LifeInit == Init => LifeInv /\ QuitInv
<1> SUFFICES ASSUME Init PROVE LifeInv /\ QuitInv
  OBVIOUS
<1> USE NoneIsNoClient, NamesAssumption, BoundsAssumption DEF Init
<1>1. LifeTypes /\ ReaderStages
  BY DEF LifeTypes, ReaderStages, ReaderSteps, DisconnectSteps
<1>2. OneAtATime
  BY DEF OneAtATime, Busy, Active, Threads, DisconnectSteps
<1>3. ConnectProgress /\ ConnectedInv
  BY DEF ConnectProgress, ConnectedInv, Threads
<1>4. QuitInv
  BY DEF QuitInv, Threads
<1> QED BY <1>1, <1>2, <1>3, <1>4 DEF LifeInv

\* Once the user has quit, at most the dial under way completes; and unless a
\* failure hits a connect() that is under way, an application that believes it is
\* connected has the stream and the file player of the client it talks to
\* (main.go:262-289, client.go:134-141).
THEOREM AppKnows == Spec => []AppAgrees
<1>1. LifeInv /\ QuitInv => AppAgrees
  <2> SUFFICES ASSUME LifeInv, QuitInv PROVE AppAgrees
    OBVIOUS
  <2>1. QuitStopsDialing
    BY DEF QuitInv, QuitStopsDialing
  <2>2. ConnectedIsUsable
    BY NoneIsNoClient DEF ConnectedIsUsable, Disconnecting, LifeInv, LifeTypes, Undisturbed, ConnectedInv
  <2> QED BY <2>1, <2>2 DEF AppAgrees
<1>2. StreamInv /\ LifeInv /\ QuitInv => Known
  BY DEF Known, StreamInv
<1>3. Init => LoopInv
  BY NamesAssumption DEF Init, LoopInv, OneReconnectLoop, Threads, ThreadSteps, ConnectSteps
<1> QED BY <1>1, <1>2, <1>3, LifeInit, LifeStep, QuitStep, LoopInvStep, StreamInvInit, StreamInvStep, PTL DEF Spec
-----------------------------------------------------------------------------
(* The settings: types, and what follows what                              *)

SettingsTypeOK ==
  /\ name \in Seq(Names) /\ Len(at) = Len(name) /\ Len(live) = Len(name)
  /\ at \in Seq(Range(Channels) \cup {Nobody}) /\ live \in Seq(Entry)
  /\ event = Nobody \/ (event \in Happening /\ event.of \in Users)
  /\ entries \in [Names -> Entry] /\ file \in [Names -> Entry]
  /\ saving.by \in {Nobody, "reader", "ui"}
  /\ queue \in Nat /\ shown \subseteq Users \X Range(Channels)

\* What the user interface is in the middle of.
UiTypeOK ==
  \/ ui = Idle
  \/ /\ ui \in [at : {"rebuild"}, todo : {{}}, channels : Seq(Range(Channels)),
                seen : SUBSET (Users \X Range(Channels))]
     /\ IsInjective(ui.channels)
  \/ ui \in [at : {"mute"}, todo : SUBSET Users, channel : Range(Channels), mute : BOOLEAN]
  \/ ui \in [at : {"level"}, todo : SUBSET Users, how : Volumes]
  \/ ui \in [at : {"store"}, todo : SUBSET Users, how : Volumes, of : Users]

\* What differs from the file is saved when the volume keys are done.
Unsaved == Free /\ ~failed /\ file # entries => ui.at \in {"level", "store"}

\* No two who are here have one name, and only one whose change is not yet heard of, or
\* whose volume is not yet stored, differs from his entry.
NamesApart == \A o, p \in Members : name[o] = name[p] => o = p

Unlike(o) == (event # Nobody /\ event.of = o /\ event.next = "update") \/ (ui.at = "store" /\ ui.of = o)

Followed == \A o \in Members : live[o] = Applied(entries[name[o]]) \/ Unlike(o)

\* A volume that is about to be stored was set by a key or by UpdateUser.
Stored == ui.at = "store" => live[ui.of].level # Bare

\* Unless a rebuild is queued, was dropped or was cut short, the lines of the channels that were
\* asked for are right.
ListInv == event = Nobody /\ queue = 0 /\ ~missed =>
  /\ ui = Idle => shown = {<<o, at[o]>> : o \in Members}
  /\ ui.at = "rebuild" => ui.seen = {<<o, at[o]>> : o \in {p \in Members : at[p] \notin Range(ui.channels)}}

SettingsInv ==
  /\ SettingsTypeOK /\ UiTypeOK /\ Unsaved
  /\ NamesApart /\ Followed /\ Stored /\ ListInv

\* The lines of the list are users.
LEMMA ShownAreUsers ==
  ASSUME SettingsTypeOK
  PROVE  ShownUsers \subseteq Users
BY DEF ShownUsers, SettingsTypeOK

\* Every user is somewhere and has his settings.
LEMMA OfUsers ==
  ASSUME SettingsTypeOK, NEW o \in Users
  PROVE  /\ name[o] \in Names /\ at[o] \in Range(Channels) \cup {Nobody} /\ live[o] \in Entry
         /\ o \in 1 .. Len(at) /\ o \in 1 .. Len(live) /\ o \in Nat
BY DEF SettingsTypeOK, Users

\* ToggleMute switches an entry, the user follows it, and a save begins.
LEMMA Toggled ==
  ASSUME SettingsTypeOK, NEW o \in Users, NEW who \in {"reader", "ui"}, ToggleMute(o, who)
  PROVE  /\ live' \in Seq(Entry) /\ Len(live') = Len(live)
         /\ entries' \in [Names -> Entry]
         /\ saving' = [by |-> who, written |-> FALSE]
         /\ entries' = [entries EXCEPT ![name[o]] = entries'[name[o]]]
         /\ \A p \in Users : p # o => live'[p] = live[p]
         /\ \A p \in Users : live'[p].level = live[p].level
         /\ live[o] = Applied(entries[name[o]]) => live'[o] = Applied(entries'[name[o]])
<1> DEFINE e == [entries[name[o]] EXCEPT !.muted = ~entries[name[o]].muted]
           v == [live[o] EXCEPT !.muted = ~entries[name[o]].muted]
<1>1. /\ entries[name[o]] \in Entry /\ live[o] \in Entry /\ name[o] \in Names
      /\ o \in 1 .. Len(live) /\ live \in Seq(Entry) /\ entries \in [Names -> Entry]
  BY OfUsers DEF SettingsTypeOK
<1>2. /\ entries' = [entries EXCEPT ![name[o]] = e]
      /\ live' = [live EXCEPT ![o] = v]
      /\ saving' = [by |-> who, written |-> FALSE]
  BY DEF ToggleMute
<1>3. e \in Entry /\ v \in Entry
  BY <1>1 DEF Entry
<1>4. v.level = live[o].level /\ (live[o] = Applied(entries[name[o]]) => v = Applied(e))
  BY <1>1 DEF Entry, Applied
<1> HIDE DEF e, v
<1>5. /\ live' \in Seq(Entry) /\ Len(live') = Len(live)
      /\ \A p \in 1 .. Len(live) : live'[p] = IF p = o THEN v ELSE live[p]
  BY <1>1, <1>2, <1>3, ExceptSeq
<1>6. entries' \in [Names -> Entry] /\ entries'[name[o]] = e
  BY <1>1, <1>2, <1>3
<1>7. Len(live) = Len(name)
  BY DEF SettingsTypeOK
<1> QED BY <1>1, <1>2, <1>4, <1>5, <1>6, <1>7 DEF Users

\* What UpdateUser gives a user has a boost.
LEMMA AppliedEntry ==
  ASSUME NEW e \in Entry
  PROVE  Applied(e) \in Entry /\ Applied(e).level # Bare
<1>1. MaxLevel \in Nat /\ e.level \in 0 .. MaxLevel + 2 /\ e.muted \in BOOLEAN
      /\ e = [level |-> e.level, muted |-> e.muted]
  BY SettingsAssumption DEF Entry
<1>2. Applied(e) = [level |-> IF e.level = Bare THEN 0 ELSE e.level, muted |-> e.muted]
  BY <1>1 DEF Applied
<1> QED BY <1>1, <1>2 DEF Bare, Entry

\* UpdateUser copies an entry to a user who has not left.
LEMMA Updated ==
  ASSUME SettingsTypeOK, NEW o \in Users, UpdateUser(o)
  PROVE  /\ live' \in Seq(Entry) /\ Len(live') = Len(live)
         /\ \A p \in Users : live'[p] = IF p = o /\ HasClient(o) THEN Applied(entries[name[o]]) ELSE live[p]
<1> DEFINE v == Applied(entries[name[o]])
<1>1. /\ entries[name[o]] \in Entry
      /\ o \in 1 .. Len(live) /\ live \in Seq(Entry)
  BY OfUsers DEF SettingsTypeOK
<1>2. live' = IF HasClient(o) THEN [live EXCEPT ![o] = v] ELSE live
  BY DEF UpdateUser
<1>3. Len(live) = Len(name)
  BY DEF SettingsTypeOK
<1>4. v \in Entry
  BY <1>1, AppliedEntry
<1> HIDE DEF v
<1>5. CASE HasClient(o)
  BY <1>1, <1>2, <1>3, <1>4, <1>5, ExceptSeq DEF Users, v
<1>6. CASE ~HasClient(o)
  BY <1>1, <1>2, <1>3, <1>6
<1> QED BY <1>5, <1>6

\* SetBoost and SetVolume touch the user alone.
LEMMA LevelSet ==
  ASSUME SettingsTypeOK, UiTypeOK, ui.at = "level", NEW o \in Users,
         live' = [live EXCEPT ![o].level = NewLevel(@)]
  PROVE  /\ live' \in Seq(Entry) /\ Len(live') = Len(live)
         /\ \A p \in Users : p # o => live'[p] = live[p]
         /\ live'[o].level # Bare
<1> DEFINE v == [live[o] EXCEPT !.level = NewLevel(live[o].level)]
<1>1. live[o] \in Entry /\ o \in 1 .. Len(live) /\ live \in Seq(Entry)
  BY OfUsers DEF SettingsTypeOK
<1>2. live' = [live EXCEPT ![o] = v]
  OBVIOUS
<1>3. live[o].level \in 0 .. MaxLevel + 2 /\ live[o].muted \in BOOLEAN
  BY <1>1 DEF Entry
<1>4. MaxLevel \in Nat
  BY SettingsAssumption
<1>5. NewLevel(live[o].level) \in 0 .. MaxLevel + 2 /\ NewLevel(live[o].level) # Bare
  BY <1>3, <1>4 DEF NewLevel, Default, Wild, Bare
<1>6. v \in Entry /\ v.level # Bare
  BY <1>1, <1>5 DEF Entry
<1> HIDE DEF v
<1>7. Len(live) = Len(name)
  BY DEF SettingsTypeOK
<1>8. Users = 1 .. Len(live)
  BY <1>7 DEF Users
<1>9. /\ live' \in Seq(Entry) /\ Len(live') = Len(live) /\ live'[o] = v
      /\ \A p \in 1 .. Len(live) : p # o => live'[p] = live[p]
  BY <1>1, <1>2, <1>6, ExceptSeq
<1> QED BY <1>6, <1>8, <1>9

\* Users of a channel are users, and the channels are what they are.
LEMMA UsersOfChannel ==
  ASSUME NEW c PROVE UsersOf(c) \subseteq Users
BY DEF UsersOf

LEMMA SaveTypes ==
  ASSUME SettingsTypeOK, UiTypeOK, SaveWrite \/ SaveRename \/ SaveFails
  PROVE  SettingsTypeOK' /\ UiTypeOK'
<1>1. /\ UNCHANGED <<name, at, live, event, entries, queue, shown, ui>>
      /\ file' \in {file, entries}
  BY DEF SaveWrite, SaveFails, SaveRename
<1>2. saving'.by \in {saving.by, Nobody}
  <2>1. CASE SaveWrite
    <3>1. saving' = [saving EXCEPT !.written = TRUE]
      BY <2>1 DEF SaveWrite
    <3> QED BY <3>1 DEF SettingsTypeOK
  <2>2. CASE SaveFails \/ SaveRename
    <3>1. saving' = [by |-> Nobody, written |-> FALSE]
      BY <2>2 DEF SaveFails, SaveRename, NotSaving
    <3> QED BY <3>1
  <2> QED BY <2>1, <2>2
<1>3. Users' = Users
  BY <1>1 DEF Users
<1>4. UiTypeOK'
  BY <1>1, <1>3 DEF UiTypeOK
<1>5. SettingsTypeOK'
  BY <1>1, <1>2, <1>3 DEF SettingsTypeOK
<1> QED BY <1>4, <1>5

\* A program that was killed or has panicked begins anew, from its file.
LEMMA RestartHolds ==
  ASSUME SettingsTypeOK, Crash \/ Panic
  PROVE  SettingsInv'
<1>1. Restart
  BY DEF Crash, Panic, NilClient
<1>2. SettingsTypeOK' /\ UiTypeOK'
  BY <1>1 DEF Restart, SettingsTypeOK, UiTypeOK, NotSaving
<1>3. Users' = {} /\ Members' = {}
  <2>1. Len(name') = 0
    BY <1>1 DEF Restart
  <2> QED BY <2>1 DEF Users, Members
<1>4. ui' = Idle /\ entries' = file' /\ shown' = {}
  BY <1>1 DEF Restart
<1>5. ui'.at = "idle"
  BY <1>4 DEF Idle
<1>6. Unsaved' /\ NamesApart' /\ Followed' /\ Stored' /\ ListInv'
  BY <1>3, <1>4, <1>5 DEF Unsaved, NamesApart, Followed, Stored, ListInv
<1> QED BY <1>2, <1>6 DEF SettingsInv

LEMMA JoinTypes ==
  ASSUME SettingsTypeOK, UiTypeOK, NEW n \in Names, NEW c \in Range(Channels), Join(n, c)
  PROVE  /\ SettingsTypeOK' /\ UiTypeOK' /\ Len(name') = Len(name) + 1
         /\ \A o \in Users : name'[o] = name[o] /\ at'[o] = at[o] /\ live'[o] = live[o]
         /\ name'[Len(name) + 1] = n /\ at'[Len(name) + 1] = c
<1>1. /\ name' = Append(name, n) /\ at' = Append(at, c) /\ live' = Append(live, Unset)
      /\ event' = [of |-> Len(name) + 1, next |-> "update"]
      /\ UNCHANGED <<entries, file, saving, queue, shown, ui>>
  BY DEF Join
<1>2. /\ Len(at) = Len(name) /\ Len(live) = Len(name) /\ Len(name) \in Nat
      /\ name \in Seq(Names) /\ at \in Seq(Range(Channels) \cup {Nobody}) /\ live \in Seq(Entry)
  BY DEF SettingsTypeOK
<1>3. Unset \in Entry
  BY SettingsAssumption DEF Unset, Bare, Entry
<1>4. /\ name' \in Seq(Names) /\ Len(name') = Len(name) + 1
      /\ \A o \in 1 .. Len(name) : name'[o] = name[o] /\ name'[Len(name) + 1] = n
  BY <1>1, <1>2, AppendProperties
<1>5. /\ at' \in Seq(Range(Channels) \cup {Nobody}) /\ Len(at') = Len(name) + 1
      /\ \A o \in 1 .. Len(name) : at'[o] = at[o]
      /\ at'[Len(name) + 1] = c
  BY <1>1, <1>2, AppendProperties
<1>6. /\ live' \in Seq(Entry) /\ Len(live') = Len(name) + 1
      /\ \A o \in 1 .. Len(name) : live'[o] = live[o]
  BY <1>1, <1>2, <1>3, AppendProperties
<1>7. name'[Len(name) + 1] = n
  BY <1>1, <1>2, AppendProperties
<1>8. event' \in Happening /\ event'.of \in Users' /\ Users \subseteq Users'
  BY <1>1, <1>2, <1>4 DEF Happening, Users
<1>9. SettingsTypeOK'
  BY <1>1, <1>4, <1>5, <1>6, <1>8 DEF SettingsTypeOK
<1>10. UiTypeOK'
  BY <1>1, <1>8 DEF UiTypeOK
<1> QED BY <1>4, <1>5, <1>6, <1>7, <1>9, <1>10 DEF Users

LEMMA MoveTypes ==
  ASSUME SettingsTypeOK, UiTypeOK, NEW o \in Users, NEW c \in Range(Channels) \cup {Nobody}, Move(o, c)
  PROVE  /\ SettingsTypeOK' /\ UiTypeOK'
         /\ \A p \in Users : at'[p] = IF p = o THEN c ELSE at[p]
<1>1. /\ at' = [at EXCEPT ![o] = c] /\ event' = [of |-> o, next |-> "update"]
      /\ UNCHANGED <<name, live, entries, file, saving, queue, shown, ui>>
  BY DEF Move
<1>2. /\ Len(at) = Len(name) /\ at \in Seq(Range(Channels) \cup {Nobody}) /\ o \in Nat
  BY DEF SettingsTypeOK, Users
<1>3. /\ at' \in Seq(Range(Channels) \cup {Nobody}) /\ Len(at') = Len(name)
      /\ \A p \in Users : at'[p] = IF p = o THEN c ELSE at[p]
  BY <1>1, <1>2, ExceptSeq DEF Users
<1>4. event' \in Happening /\ event'.of \in Users' /\ Users' = Users
  BY <1>1, <1>2 DEF Happening, Users
<1>5. SettingsTypeOK'
  BY <1>1, <1>3, <1>4 DEF SettingsTypeOK
<1>6. UiTypeOK'
  BY <1>1, <1>4 DEF UiTypeOK
<1> QED BY <1>3, <1>5, <1>6

\* The user OnUserChange is about is a user.
LEMMA Served ==
  ASSUME SettingsTypeOK, NEW s, Serving(s)
  PROVE  /\ event \in Happening /\ event.of \in Users /\ event.next = s
         /\ \A t \in {"update", "check", "mute", "post"} :
              [event EXCEPT !.next = t] \in Happening /\ [event EXCEPT !.next = t].of = event.of
              /\ [event EXCEPT !.next = t].next = t
<1>1. event \in Happening /\ event.of \in Users /\ event.next = s
  BY DEF SettingsTypeOK, Serving
<1>2. \A t \in {"update", "check", "mute", "post"} :
        [event EXCEPT !.next = t] \in Happening /\ [event EXCEPT !.next = t].of = event.of
        /\ [event EXCEPT !.next = t].next = t
  BY <1>1 DEF Happening
<1> QED BY <1>1, <1>2

LEMMA ReaderTypes ==
  ASSUME SettingsTypeOK, UiTypeOK, Update \/ CheckChannel \/ MuteJoiner \/ PostRebuild
  PROVE  SettingsTypeOK' /\ UiTypeOK'
<1>1. CASE Update
  <2>1. /\ Serving("update") /\ UpdateUser(event.of)
        /\ event' = [event EXCEPT !.next = IF HasClient(event.of) THEN "check" ELSE "post"]
        /\ UNCHANGED <<name, at, entries, file, saving, queue, shown, ui>>
    BY <1>1 DEF Update
  <2>2. /\ event' \in Happening /\ event'.of \in Users
    BY <2>1, Served
  <2>3. live' \in Seq(Entry) /\ Len(live') = Len(live)
    BY <2>1, Served, Updated
  <2> QED BY <2>1, <2>2, <2>3 DEF SettingsTypeOK, UiTypeOK, Users
<1>2. CASE CheckChannel
  <2>1. /\ Serving("check")
        /\ event' = [event EXCEPT !.next = IF at[event.of] \in muted /\ ~live[event.of].muted THEN "mute" ELSE "post"]
        /\ UNCHANGED <<name, at, live, entries, file, saving, queue, shown, ui>>
    BY <1>2 DEF CheckChannel
  <2>2. /\ event' \in Happening /\ event'.of \in Users
    BY <2>1, Served
  <2> QED BY <2>1, <2>2 DEF SettingsTypeOK, UiTypeOK, Users
<1>3. CASE MuteJoiner
  <2>1. /\ Serving("mute") /\ ToggleMute(event.of, "reader")
        /\ event' = [event EXCEPT !.next = "post"]
        /\ UNCHANGED <<name, at, file, queue, shown, ui>>
    BY <1>3 DEF MuteJoiner
  <2>2. /\ event' \in Happening /\ event'.of \in Users
    BY <2>1, Served
  <2>3. /\ live' \in Seq(Entry) /\ Len(live') = Len(live) /\ entries' \in [Names -> Entry]
        /\ saving' = [by |-> "reader", written |-> FALSE]
    BY <2>1, Served, Toggled
  <2> QED BY <2>1, <2>2, <2>3 DEF SettingsTypeOK, UiTypeOK, Users
<1>4. CASE PostRebuild
  <2>1. /\ Post /\ event' = Nobody
        /\ UNCHANGED <<name, at, live, entries, file, saving, shown, ui>>
    BY <1>4 DEF PostRebuild
  <2>2. queue' \in Nat
    BY <2>1 DEF Post, SettingsTypeOK
  <2> QED BY <2>1, <2>2 DEF SettingsTypeOK, UiTypeOK, Users
<1> QED BY <1>1, <1>2, <1>3, <1>4

\* The rebuild that follows a key asks for every channel.
LEMMA RebuildingTypes ==
  /\ Rebuilding.at = "rebuild" /\ Rebuilding.seen = {} /\ Rebuilding.channels = Channels
  /\ Rebuilding \in [at : {"rebuild"}, todo : {{}}, channels : Seq(Range(Channels)),
                     seen : SUBSET (Users' \X Range(Channels))]
  /\ IsInjective(Rebuilding.channels)
BY SettingsAssumption DEF Rebuilding

\* What a rebuild is in the middle of.
LEMMA RebuildFields ==
  ASSUME UiTypeOK, ui.at = "rebuild"
  PROVE  /\ ui = [at |-> "rebuild", todo |-> {}, channels |-> ui.channels, seen |-> ui.seen]
         /\ ui.channels \in Seq(Range(Channels)) /\ IsInjective(ui.channels)
         /\ ui.seen \in SUBSET (Users \X Range(Channels))
BY DEF UiTypeOK, Idle

\* Tail drops the first channel, which does not come again.
LEMMA NextChannel ==
  ASSUME NEW cs \in Seq(Range(Channels)), IsInjective(cs), cs # <<>>
  PROVE  /\ Head(cs) \in Range(Channels) /\ Tail(cs) \in Seq(Range(Channels))
         /\ IsInjective(Tail(cs)) /\ Head(cs) \notin Range(Tail(cs))
         /\ Range(cs) = {Head(cs)} \cup Range(Tail(cs))
<1>1. /\ Head(cs) \in Range(Channels) /\ Tail(cs) \in Seq(Range(Channels))
      /\ Len(Tail(cs)) = Len(cs) - 1
      /\ \A i \in 1 .. Len(Tail(cs)) : Tail(cs)[i] = cs[i + 1]
      /\ Len(cs) \in Nat \ {0} /\ Head(cs) = cs[1]
      /\ DOMAIN cs = 1 .. Len(cs) /\ DOMAIN Tail(cs) = 1 .. Len(cs) - 1
  BY HeadTailProperties
<1>2. \A i \in 1 .. Len(cs), j \in 1 .. Len(cs) : cs[i] = cs[j] => i = j
  BY <1>1 DEF IsInjective
<1>3. \A i \in DOMAIN Tail(cs) : i \in Nat /\ i + 1 \in 2 .. Len(cs) /\ Tail(cs)[i] = cs[i + 1]
  BY <1>1
<1>4. IsInjective(Tail(cs))
  <2> SUFFICES ASSUME NEW i \in DOMAIN Tail(cs), NEW j \in DOMAIN Tail(cs), Tail(cs)[i] = Tail(cs)[j]
               PROVE  i = j
    BY DEF IsInjective
  <2>1. cs[i + 1] = cs[j + 1] /\ i + 1 \in 1 .. Len(cs) /\ j + 1 \in 1 .. Len(cs)
    BY <1>1, <1>3
  <2> QED BY <1>1, <1>2, <1>3, <2>1
<1>5. Head(cs) \notin Range(Tail(cs))
  <2> SUFFICES ASSUME NEW i \in DOMAIN Tail(cs), Tail(cs)[i] = Head(cs) PROVE FALSE
    BY DEF Range
  <2>1. cs[i + 1] = cs[1] /\ i + 1 \in 1 .. Len(cs) /\ 1 \in 1 .. Len(cs)
    BY <1>1, <1>3
  <2> QED BY <1>2, <1>3, <2>1
<1>6. Range(cs) = {Head(cs)} \cup Range(Tail(cs))
  <2>1. ASSUME NEW i \in DOMAIN cs PROVE cs[i] \in {Head(cs)} \cup Range(Tail(cs))
    <3>1. CASE i = 1
      BY <1>1, <3>1
    <3>2. CASE i # 1
      <4>1. i - 1 \in DOMAIN Tail(cs) /\ cs[i] = Tail(cs)[i - 1]
        BY <1>1, <3>2
      <4> QED BY <4>1 DEF Range
    <3> QED BY <3>1, <3>2
  <2>2. Head(cs) \in Range(cs)
    BY <1>1 DEF Range
  <2>3. ASSUME NEW i \in DOMAIN Tail(cs) PROVE Tail(cs)[i] \in Range(cs)
    BY <1>1, <1>3 DEF Range
  <2> QED BY <2>1, <2>2, <2>3 DEF Range
<1> QED BY <1>1, <1>4, <1>5, <1>6

\* Users of one channel more, and the channels that are left.
LEMMA ChannelBuilt ==
  ASSUME UiTypeOK, ui.at = "rebuild", NEW us, NEW rest, See(us, rest)
  PROVE  ui' = [at |-> "rebuild", todo |-> {}, channels |-> rest,
                seen |-> ui.seen \cup us \X {Head(ui.channels)}]
<1>1. PICK cs \in Seq(Range(Channels)), seen \in SUBSET (Users \X Range(Channels)) :
        ui = [at |-> "rebuild", todo |-> {}, channels |-> cs, seen |-> seen]
  BY RebuildFields
<1>2. ui.channels = cs /\ ui.seen = seen
  BY <1>1
<1> DEFINE new == seen \cup us \X {Head(cs)}
<1>3. ui' = [[ui EXCEPT !.channels = rest] EXCEPT !.seen = new]
  BY <1>2 DEF See
<1> HIDE DEF new
<1>4. ui' = [at |-> "rebuild", todo |-> {}, channels |-> rest, seen |-> new]
  BY <1>1, <1>3
<1> QED BY <1>2, <1>4 DEF new

\* A step of a rebuild: all of a channel, or what fits of it.
LEMMA RebuildStep ==
  ASSUME UiTypeOK, RebuildChannel \/ CutRebuild
  PROVE  /\ ui.at = "rebuild" /\ ui.channels \in Seq(Range(Channels)) /\ ui.channels # <<>>
         /\ IsInjective(ui.channels) /\ ui.seen \in SUBSET (Users \X Range(Channels))
         /\ \E us \in SUBSET UsersOf(Head(ui.channels)), rest \in {Tail(ui.channels), <<>>} :
              /\ ui' = [at |-> "rebuild", todo |-> {}, channels |-> rest,
                        seen |-> ui.seen \cup us \X {Head(ui.channels)}]
              /\ RebuildChannel => us = UsersOf(Head(ui.channels)) /\ rest = Tail(ui.channels)
              /\ ~RebuildChannel => missed' = TRUE
<1>1. ui.at = "rebuild" /\ ui.channels # <<>>
  BY DEF RebuildChannel, CutRebuild, Doing
<1>2. CASE RebuildChannel
  <2>1. See(UsersOf(Head(ui.channels)), Tail(ui.channels))
    BY <1>2 DEF RebuildChannel
  <2>2. ui' = [at |-> "rebuild", todo |-> {}, channels |-> Tail(ui.channels),
               seen |-> ui.seen \cup UsersOf(Head(ui.channels)) \X {Head(ui.channels)}]
    BY <1>1, <2>1, ChannelBuilt
  <2> QED BY <1>1, <1>2, <2>2, RebuildFields
<1>3. CASE CutRebuild /\ ~RebuildChannel
  <2>1. PICK us \in SUBSET UsersOf(Head(ui.channels)) : See(us, <<>>)
    BY <1>3 DEF CutRebuild
  <2>2. ui' = [at |-> "rebuild", todo |-> {}, channels |-> <<>>,
               seen |-> ui.seen \cup us \X {Head(ui.channels)}]
    BY <1>1, <2>1, ChannelBuilt
  <2>3. missed' = TRUE
    BY <1>3 DEF CutRebuild
  <2> QED BY <1>1, <1>3, <2>2, <2>3, RebuildFields
<1> QED BY <1>2, <1>3

LEMMA ListTypes ==
  ASSUME SettingsTypeOK, UiTypeOK, HandleEvent \/ RebuildChannel \/ CutRebuild \/ RebuildEnds
  PROVE  SettingsTypeOK' /\ UiTypeOK'
<1>1. CASE HandleEvent
  <2>1. /\ queue' = queue - 1 /\ queue > 0 /\ ui' = Rebuilding
        /\ UNCHANGED <<name, at, live, event, entries, file, saving, shown>>
    BY <1>1 DEF HandleEvent, BeginRebuild
  <2>2. queue' \in Nat
    BY <2>1 DEF SettingsTypeOK
  <2>3. UiTypeOK'
    BY <2>1, RebuildingTypes DEF UiTypeOK
  <2> QED BY <2>1, <2>2, <2>3 DEF SettingsTypeOK, Users
<1>2. CASE RebuildChannel \/ CutRebuild
  <2> DEFINE cs == ui.channels
  <2>1. /\ UNCHANGED <<name, at, live, event, entries, file, saving, queue, shown>>
        /\ cs \in Seq(Range(Channels)) /\ cs # <<>> /\ IsInjective(cs)
        /\ ui.seen \in SUBSET (Users \X Range(Channels))
    BY <1>2, RebuildStep DEF RebuildChannel, CutRebuild
  <2>2. PICK us \in SUBSET UsersOf(Head(cs)), rest \in {Tail(cs), <<>>} :
          ui' = [at |-> "rebuild", todo |-> {}, channels |-> rest,
                 seen |-> ui.seen \cup us \X {Head(cs)}]
    BY <1>2, RebuildStep
  <2>3. /\ Tail(cs) \in Seq(Range(Channels)) /\ IsInjective(Tail(cs)) /\ Head(cs) \in Range(Channels)
    BY <2>1, NextChannel
  <2>4. rest \in Seq(Range(Channels)) /\ IsInjective(rest)
    <3>1. <<>> \in Seq(Range(Channels)) /\ IsInjective(<<>>)
      BY DEF IsInjective
    <3> QED BY <2>3, <3>1
  <2> DEFINE new == ui.seen \cup us \X {Head(cs)}
  <2>5. new \in SUBSET (Users' \X Range(Channels))
    BY <2>1, <2>3, UsersOfChannel DEF Users
  <2> HIDE DEF cs, new
  <2>6. UiTypeOK'
    BY <2>2, <2>4, <2>5 DEF UiTypeOK, new, cs
  <2> QED BY <2>1, <2>6 DEF SettingsTypeOK, Users
<1>3. CASE RebuildEnds
  <2>1. /\ ui.at = "rebuild" /\ shown' = ui.seen /\ ui' = Idle
        /\ UNCHANGED <<name, at, live, event, entries, file, saving, queue>>
    BY <1>3 DEF RebuildEnds, Doing
  <2>2. shown' \subseteq Users \X Range(Channels)
    BY <2>1, RebuildFields
  <2> QED BY <2>1, <2>2 DEF SettingsTypeOK, UiTypeOK, Users
<1> QED BY <1>1, <1>2, <1>3

\* What the mute key and the volume keys are in the middle of.
LEMMA KeyFields ==
  ASSUME UiTypeOK
  PROVE  /\ ui.at \in {"idle", "rebuild", "mute", "level", "store"} /\ ui.todo \subseteq Users
         /\ ui.at = "idle" => ui = Idle
         /\ ui.at = "mute" => /\ ui = [at |-> "mute", todo |-> ui.todo, channel |-> ui.channel, mute |-> ui.mute]
                              /\ ui.channel \in Range(Channels) /\ ui.mute \in BOOLEAN
         /\ ui.at \in {"level", "store"} => ui.how \in Volumes
         /\ ui.at = "store" => ui.of \in Users
         /\ ui.at \in {"idle", "rebuild"} => ui.todo = {}
<1>1. CASE ui = Idle
  BY <1>1 DEF Idle
<1>2. CASE ui \in [at : {"rebuild"}, todo : {{}}, channels : Seq(Range(Channels)),
                   seen : SUBSET (Users \X Range(Channels))]
  BY <1>2
<1>3. CASE ui \in [at : {"mute"}, todo : SUBSET Users, channel : Range(Channels), mute : BOOLEAN]
  BY <1>3
<1>4. CASE ui \in [at : {"level"}, todo : SUBSET Users, how : Volumes]
  BY <1>4
<1>5. CASE ui \in [at : {"store"}, todo : SUBSET Users, how : Volumes, of : Users]
  BY <1>5
<1> QED BY <1>1, <1>2, <1>3, <1>4, <1>5 DEF UiTypeOK

\* The steps of the mute key and, with the switches, of the volume keys.
MuteStep ==
  \/ \E o \in ShownUsers : PressMute(o)
  \/ \E c \in Range(Channels) : PressMuteChannel(c)
  \/ \E o \in ui.todo : MuteOne(o) \/ SkipOne(o)
  \/ SetChannelMuted

VolumeStep ==
  \/ \E o \in ShownUsers, how \in Volumes : PressVolume({o}, how)
  \/ \E c \in Range(Channels), how \in Volumes : PressVolume(UsersOf(c), how)
  \/ \E o \in ui.todo : SetLevel(o)
  \/ Store \/ PressSwitch \/ SaveConfig

LEMMA MuteTypes ==
  ASSUME SettingsTypeOK, UiTypeOK, MuteStep
  PROVE  SettingsTypeOK' /\ UiTypeOK'
<1>1. CASE \E o \in ShownUsers : PressMute(o)
  <2>1. PICK o \in Users : PressMute(o)
    BY <1>1, ShownAreUsers
  <2>2. /\ ToggleMute(o, "ui") /\ ui' = Rebuilding
        /\ UNCHANGED <<name, at, event, file, queue, shown>>
    BY <2>1 DEF PressMute, BeginRebuild
  <2>3. UiTypeOK'
    BY <2>2, RebuildingTypes DEF UiTypeOK
  <2> QED BY <2>2, <2>3, Toggled DEF SettingsTypeOK, Users
<1>2. CASE \E c \in Range(Channels) : PressMuteChannel(c)
  <2>1. PICK c \in Range(Channels) : PressMuteChannel(c)
    BY <1>2
  <2>2. /\ ui' = [at |-> "mute", todo |-> UsersOf(c), channel |-> c, mute |-> c \notin muted]
        /\ UNCHANGED <<name, at, live, event, entries, file, saving, queue, shown>>
    BY <2>1 DEF PressMuteChannel
  <2>3. ui' \in [at : {"mute"}, todo : SUBSET Users', channel : Range(Channels), mute : BOOLEAN]
    BY <2>2, UsersOfChannel DEF Users
  <2>4. UiTypeOK'
    BY <2>3 DEF UiTypeOK
  <2> QED BY <2>2, <2>4 DEF SettingsTypeOK, Users
<1>3. CASE \E o \in ui.todo : MuteOne(o) \/ SkipOne(o)
  <2>1. PICK o \in ui.todo : MuteOne(o) \/ SkipOne(o)
    BY <1>3
  <2>2. o \in Users /\ ui.at = "mute" /\ ui' = [ui EXCEPT !.todo = ui.todo \ {o}]
        /\ UNCHANGED <<name, at, event, file, queue, shown>>
    BY <2>1, KeyFields DEF MuteOne, SkipOne, Doing
  <2>3. ui' \in [at : {"mute"}, todo : SUBSET Users', channel : Range(Channels), mute : BOOLEAN]
    BY <2>2, KeyFields DEF Users
  <2>4. UiTypeOK'
    BY <2>3 DEF UiTypeOK
  <2>5. ToggleMute(o, "ui") \/ UNCHANGED <<live, entries, saving>>
    BY <2>1 DEF MuteOne, SkipOne
  <2> QED BY <2>2, <2>4, <2>5, Toggled DEF SettingsTypeOK, Users
<1>4. CASE SetChannelMuted
  <2>1. /\ ui' = Rebuilding
        /\ UNCHANGED <<name, at, live, event, entries, file, saving, queue, shown>>
    BY <1>4 DEF SetChannelMuted, BeginRebuild
  <2>2. UiTypeOK'
    BY <2>1, RebuildingTypes DEF UiTypeOK
  <2> QED BY <2>1, <2>2 DEF SettingsTypeOK, Users
<1> QED BY <1>1, <1>2, <1>3, <1>4 DEF MuteStep

LEMMA VolumeTypes ==
  ASSUME SettingsTypeOK, UiTypeOK, VolumeStep
  PROVE  SettingsTypeOK' /\ UiTypeOK'
<1>1. CASE \/ \E o \in ShownUsers, how \in Volumes : PressVolume({o}, how)
           \/ \E c \in Range(Channels), how \in Volumes : PressVolume(UsersOf(c), how)
  <2>1. PICK us \in SUBSET Users, how \in Volumes : PressVolume(us, how)
    <3>1. CASE \E o \in ShownUsers, how \in Volumes : PressVolume({o}, how)
      <4>1. PICK o \in Users, how \in Volumes : PressVolume({o}, how)
        BY <3>1, ShownAreUsers
      <4> QED BY <4>1
    <3>2. CASE \E c \in Range(Channels), how \in Volumes : PressVolume(UsersOf(c), how)
      BY <3>2, UsersOfChannel
    <3> QED BY <1>1, <3>1, <3>2
  <2>2. /\ ui' = [at |-> "level", todo |-> us, how |-> how]
        /\ UNCHANGED <<name, at, live, event, entries, file, saving, queue, shown>>
    BY <2>1 DEF PressVolume
  <2>3. UiTypeOK'
    BY <2>2 DEF UiTypeOK, Users
  <2> QED BY <2>2, <2>3 DEF SettingsTypeOK, Users
<1>2. CASE \E o \in ui.todo : SetLevel(o)
  <2>1. PICK o \in ui.todo : SetLevel(o)
    BY <1>2
  <2>2. /\ ui.at = "level" /\ o \in Users /\ ui.todo \subseteq Users /\ ui.how \in Volumes
        /\ live' = [live EXCEPT ![o].level = NewLevel(@)]
        /\ ui' = [at |-> "store", todo |-> ui.todo \ {o}, how |-> ui.how, of |-> o]
        /\ UNCHANGED <<name, at, event, entries, file, saving, queue, shown>>
    BY <2>1, KeyFields DEF SetLevel, Doing
  <2>3. live' \in Seq(Entry) /\ Len(live') = Len(live)
    BY <2>2, LevelSet
  <2>4. UiTypeOK'
    BY <2>2 DEF UiTypeOK, Users
  <2> QED BY <2>2, <2>3, <2>4 DEF SettingsTypeOK, Users
<1>3. CASE Store
  <2>1. /\ ui.at = "store" /\ ui.of \in Users /\ ui.todo \subseteq Users /\ ui.how \in Volumes
        /\ entries' = [entries EXCEPT ![name[ui.of]] = live[ui.of]]
        /\ ui' = [at |-> "level", todo |-> ui.todo, how |-> ui.how]
        /\ UNCHANGED <<name, at, live, event, file, saving, queue, shown>>
    BY <1>3, KeyFields DEF Store, Doing, UpdateConfig
  <2>2. entries' \in [Names -> Entry]
    BY <2>1, OfUsers DEF SettingsTypeOK
  <2>3. UiTypeOK'
    BY <2>1 DEF UiTypeOK, Users
  <2> QED BY <2>1, <2>2, <2>3 DEF SettingsTypeOK, Users
<1>4. CASE PressSwitch
  <2>1. /\ saving' = [by |-> "ui", written |-> FALSE]
        /\ UNCHANGED <<name, at, live, event, entries, file, queue, shown, ui>>
    BY <1>4 DEF PressSwitch
  <2> QED BY <2>1 DEF SettingsTypeOK, UiTypeOK, Users
<1>5. CASE SaveConfig
  <2>1. /\ saving' = [by |-> "ui", written |-> FALSE] /\ ui' = Rebuilding
        /\ UNCHANGED <<name, at, live, event, entries, file, queue, shown>>
    BY <1>5 DEF SaveConfig, BeginRebuild
  <2>2. UiTypeOK'
    BY <2>1, RebuildingTypes DEF UiTypeOK
  <2> QED BY <2>1, <2>2 DEF SettingsTypeOK, Users
<1> QED BY <1>1, <1>2, <1>3, <1>4, <1>5 DEF VolumeStep

\* Every step is a save, the end of the program, the reader's, the list's or that of a key.
LEMMA SettingsSteps ==
  ASSUME SettingsNext
  PROVE  \/ SaveWrite \/ SaveRename \/ SaveFails \/ Crash \/ Panic
         \/ \E n \in Names, c \in Range(Channels) : Join(n, c)
         \/ \E o \in Users, c \in Range(Channels) \cup {Nobody} : Move(o, c)
         \/ Update \/ CheckChannel \/ MuteJoiner \/ PostRebuild
         \/ HandleEvent \/ RebuildChannel \/ CutRebuild \/ RebuildEnds
         \/ MuteStep \/ VolumeStep
<1>1. CASE \E o \in ShownUsers : PressMute(o) \/ \E how \in Volumes : PressVolume({o}, how)
  BY <1>1 DEF MuteStep, VolumeStep
<1>2. CASE \E c \in Range(Channels) : PressMuteChannel(c) \/ \E how \in Volumes : PressVolume(UsersOf(c), how)
  BY <1>2 DEF MuteStep, VolumeStep
<1>3. CASE \E o \in ui.todo : MuteOne(o) \/ SkipOne(o) \/ SetLevel(o)
  BY <1>3 DEF MuteStep, VolumeStep
<1>4. CASE PressSwitch \/ SetChannelMuted \/ Store \/ SaveConfig
  BY <1>4 DEF MuteStep, VolumeStep
<1> QED BY <1>1, <1>2, <1>3, <1>4 DEF SettingsNext

LEMMA TypesKept ==
  ASSUME SettingsTypeOK, UiTypeOK, [SettingsNext]_settings
  PROVE  SettingsTypeOK' /\ UiTypeOK'
<1>1. CASE UNCHANGED settings
  BY <1>1 DEF settings, SettingsTypeOK, UiTypeOK, Users
<1>2. CASE SettingsNext
  <2>1. CASE Crash \/ Panic
    BY <2>1, RestartHolds DEF SettingsInv
  <2> QED BY <1>2, <2>1, SettingsSteps, SaveTypes, JoinTypes, MoveTypes, ReaderTypes, ListTypes,
             MuteTypes, VolumeTypes
<1> QED BY <1>1, <1>2

\* Nobody comes, goes or moves but by the reader.
LEMMA SamePeople ==
  ASSUME \/ SaveWrite \/ SaveRename \/ SaveFails
         \/ Update \/ CheckChannel \/ MuteJoiner \/ PostRebuild
         \/ HandleEvent \/ RebuildChannel \/ CutRebuild \/ RebuildEnds
         \/ MuteStep \/ VolumeStep \/ UNCHANGED settings
  PROVE  UNCHANGED <<name, at>>
<1>1. CASE SaveWrite \/ SaveRename \/ SaveFails
  BY <1>1 DEF SaveWrite, SaveRename, SaveFails
<1>2. CASE Update \/ CheckChannel \/ MuteJoiner \/ PostRebuild
  BY <1>2 DEF Update, CheckChannel, MuteJoiner, PostRebuild
<1>3. CASE HandleEvent \/ RebuildChannel \/ CutRebuild \/ RebuildEnds
  BY <1>3 DEF HandleEvent, RebuildChannel, CutRebuild, RebuildEnds, BeginRebuild
<1>4. CASE MuteStep
  BY <1>4 DEF MuteStep, PressMute, PressMuteChannel, MuteOne, SkipOne, SetChannelMuted
<1>5. CASE VolumeStep
  BY <1>5 DEF VolumeStep, PressVolume, SetLevel, Store, PressSwitch, SaveConfig
<1>6. CASE UNCHANGED settings
  BY <1>6 DEF settings
<1> QED BY <1>1, <1>2, <1>3, <1>4, <1>5, <1>6

LEMMA NamesStayApart ==
  ASSUME SettingsInv, [SettingsNext]_settings
  PROVE  NamesApart'
<1> USE DEF SettingsInv
<1>1. CASE UNCHANGED <<name, at>>
  BY <1>1 DEF NamesApart, Members, Users
<1>2. CASE Crash \/ Panic
  BY <1>2, RestartHolds
<1>3. ASSUME NEW n \in Names, NEW c \in Range(Channels), Join(n, c) PROVE NamesApart'
  <2>1. /\ Users' = Users \cup {Len(name) + 1} /\ Len(name) + 1 \notin Users
        /\ \A o \in Users : name'[o] = name[o] /\ at'[o] = at[o]
        /\ name'[Len(name) + 1] = n
    <3>1. Len(name) \in Nat
      BY DEF SettingsTypeOK
    <3>2. 1 .. Len(name) + 1 = (1 .. Len(name)) \cup {Len(name) + 1}
      BY <3>1
    <3>3. Len(name') = Len(name) + 1
      BY <1>3, JoinTypes
    <3> QED BY <1>3, <3>1, <3>2, <3>3, JoinTypes DEF Users
  <2>2. \A o \in Members : name[o] # n
    BY <1>3 DEF Join
  <2>3. \A o \in Members' : o \in Members \/ o = Len(name) + 1
    BY <2>1 DEF Members
  <2> QED BY <2>1, <2>2, <2>3 DEF NamesApart, Members
<1>4. ASSUME NEW o \in Users, NEW c \in Range(Channels) \cup {Nobody}, Move(o, c) PROVE NamesApart'
  <2>1. o \in Members /\ name' = name /\ Users' = Users
    BY <1>4 DEF Move, Users
  <2>2. \A p \in Users : p # o => at'[p] = at[p]
    BY <1>4, MoveTypes
  <2>3. Members' \subseteq Members
    BY <2>1, <2>2 DEF Members
  <2> QED BY <2>1, <2>3 DEF NamesApart
<1> QED BY <1>1, <1>2, <1>3, <1>4, SettingsSteps, SamePeople

\* What is not in the file yet will be saved.
LEMMA UnsavedKept ==
  ASSUME SettingsInv, [SettingsNext]_settings
  PROVE  Unsaved'
<1> USE DEF SettingsInv
<1>0. Nobody # "reader" /\ Nobody # "ui"
  BY SettingsAssumption
<1>1. CASE SaveWrite
  BY <1>1 DEF SaveWrite, Unsaved, Free, SettingsTypeOK
<1>2. CASE SaveRename \/ SaveFails
  BY <1>2 DEF SaveRename, SaveFails, Unsaved
<1>12. CASE Crash \/ Panic
  BY <1>12, RestartHolds
<1>3. ASSUME UNCHANGED <<entries, file, saving, failed, ui>> PROVE Unsaved'
  BY <1>3 DEF Unsaved, Free
<1>4. ASSUME saving' \in {[by |-> "reader", written |-> FALSE], [by |-> "ui", written |-> FALSE]}
      PROVE  Unsaved'
  BY <1>0, <1>4 DEF Unsaved, Free
<1>5. ASSUME UNCHANGED <<entries, file, saving, failed>>, ui.at \in {"idle", "rebuild", "mute"}
      PROVE  Unsaved'
  BY <1>5 DEF Unsaved, Free
<1>6. CASE (\E n \in Names, c \in Range(Channels) : Join(n, c))
           \/ (\E o \in Users, c \in Range(Channels) \cup {Nobody} : Move(o, c))
  BY <1>3, <1>6 DEF Join, Move
<1>7. CASE Update \/ CheckChannel \/ PostRebuild \/ UNCHANGED settings
  BY <1>3, <1>7 DEF Update, CheckChannel, PostRebuild, settings
<1>8. CASE MuteJoiner
  BY <1>4, <1>8 DEF MuteJoiner, ToggleMute
<1>9. CASE HandleEvent \/ RebuildChannel \/ CutRebuild \/ RebuildEnds
  BY <1>5, <1>9 DEF HandleEvent, RebuildChannel, CutRebuild, RebuildEnds, BeginRebuild, Doing
<1>10. CASE MuteStep
  <2>1. CASE \E o \in ShownUsers : PressMute(o)
    BY <1>4, <2>1 DEF PressMute, ToggleMute
  <2>2. CASE \E c \in Range(Channels) : PressMuteChannel(c)
    BY <1>5, <2>2 DEF PressMuteChannel, Key, Doing
  <2>3. CASE \E o \in ui.todo : MuteOne(o)
    BY <1>4, <2>3 DEF MuteOne, ToggleMute
  <2>4. CASE (\E o \in ui.todo : SkipOne(o)) \/ SetChannelMuted
    BY <1>5, <2>4 DEF SkipOne, SetChannelMuted, Doing
  <2> QED BY <1>10, <2>1, <2>2, <2>3, <2>4 DEF MuteStep
<1>11. CASE VolumeStep
  <2>1. CASE \/ \E o \in ShownUsers, how \in Volumes : PressVolume({o}, how)
             \/ \E c \in Range(Channels), how \in Volumes : PressVolume(UsersOf(c), how)
    BY <1>5, <2>1 DEF PressVolume, Key, Doing
  <2>2. CASE (\E o \in ui.todo : SetLevel(o)) \/ Store
    BY <2>2 DEF SetLevel, Store, Unsaved
  <2>3. CASE PressSwitch \/ SaveConfig
    BY <1>4, <2>3 DEF PressSwitch, SaveConfig
  <2> QED BY <1>11, <2>1, <2>2, <2>3 DEF VolumeStep
<1> QED BY <1>1, <1>2, <1>6, <1>7, <1>8, <1>9, <1>10, <1>11, <1>12, SettingsSteps

\* A muted user follows his entry as he did before, and so does every other.
LEMMA ToggleFollowed ==
  ASSUME SettingsInv, NEW o \in Users, NEW who \in {"reader", "ui"}, ToggleMute(o, who),
         UNCHANGED <<name, at>>, NEW p \in Members, live[p] = Applied(entries[name[p]])
  PROVE  live'[p] = Applied(entries'[name'[p]])
<1> USE DEF SettingsInv
<1>1. /\ \A q \in Users : q # o => live'[q] = live[q]
      /\ live[o] = Applied(entries[name[o]]) => live'[o] = Applied(entries'[name[o]])
      /\ entries' = [entries EXCEPT ![name[o]] = entries'[name[o]]]
  BY Toggled
<1>2. p \in Users /\ o \in Members
  BY DEF Members, ToggleMute, HasClient
<1>3. CASE p = o
  BY <1>1, <1>3
<1>4. CASE p # o
  <2>1. name[p] # name[o]
    BY <1>2, <1>4 DEF NamesApart
  <2>2. entries'[name[p]] = entries[name[p]]
    BY <1>1, <1>2, <2>1, OfUsers DEF SettingsTypeOK
  <2> QED BY <1>1, <1>2, <1>4, <2>2
<1> QED BY <1>3, <1>4

\* He who does not follow his entry is about to.
LEMMA FollowedKept ==
  ASSUME SettingsInv, [SettingsNext]_settings
  PROVE  Followed'
<1> USE DEF SettingsInv
<1> DEFINE Follows(p) == live[p] = Applied(entries[name[p]])
           FollowsNext(p) == live'[p] = Applied(entries'[name'[p]])
<1>1. \A p \in Members : p \in Users /\ (Follows(p) \/ Unlike(p))
  BY DEF Followed, Members
<1>2. ASSUME UNCHANGED <<name, at, live, entries, event>>, UNCHANGED ui \/ ui.at # "store"
      PROVE  Followed'
  BY <1>2 DEF Followed, Unlike, Members, Users
<1>3. CASE SaveWrite \/ SaveRename \/ SaveFails \/ UNCHANGED settings
  BY <1>2, <1>3 DEF SaveWrite, SaveRename, SaveFails, settings
<1>4. CASE Crash \/ Panic
  BY <1>4, RestartHolds
<1>5. ASSUME NEW n \in Names, NEW c \in Range(Channels), Join(n, c) PROVE Followed'
  <2>1. /\ Len(name') = Len(name) + 1 /\ Len(name) \in Nat
        /\ \A o \in Users : name'[o] = name[o] /\ at'[o] = at[o] /\ live'[o] = live[o]
    BY <1>5, JoinTypes DEF SettingsTypeOK
  <2>2. /\ event = Nobody /\ event' = [of |-> Len(name) + 1, next |-> "update"]
        /\ UNCHANGED <<entries, ui>>
    BY <1>5 DEF Join
  <2>3. event' # Nobody
    <3>1. event' \in Happening
      BY <2>1, <2>2 DEF Happening
    <3> QED BY <3>1, SettingsAssumption
  <2> SUFFICES ASSUME NEW p \in Members' PROVE FollowsNext(p) \/ Unlike(p)'
    BY DEF Followed
  <2>4. p \in Members \/ p = Len(name) + 1
    BY <2>1 DEF Members, Users
  <2>5. CASE p = Len(name) + 1
    BY <2>2, <2>3, <2>5 DEF Unlike
  <2>6. CASE p \in Members
    <3>1. Follows(p) \/ (ui.at = "store" /\ ui.of = p)
      BY <1>1, <2>2, <2>6 DEF Unlike
    <3> QED BY <1>1, <2>1, <2>2, <2>6, <3>1 DEF Unlike
  <2> QED BY <2>4, <2>5, <2>6
<1>6. ASSUME NEW o \in Users, NEW c \in Range(Channels) \cup {Nobody}, Move(o, c) PROVE Followed'
  <2>1. /\ event = Nobody /\ event' = [of |-> o, next |-> "update"] /\ o \in Members
        /\ UNCHANGED <<name, live, entries, ui>>
    BY <1>6 DEF Move
  <2>2. event' # Nobody
    <3>1. event' \in Happening
      BY <2>1 DEF Happening, Users
    <3> QED BY <3>1, SettingsAssumption
  <2>3. Members' \subseteq Members
    BY <1>6, <2>1, MoveTypes DEF Members, Users
  <2> SUFFICES ASSUME NEW p \in Members' PROVE FollowsNext(p) \/ Unlike(p)'
    BY DEF Followed
  <2>4. CASE p = o
    BY <2>1, <2>2, <2>4 DEF Unlike
  <2>5. CASE p # o
    <3>1. Follows(p) \/ (ui.at = "store" /\ ui.of = p)
      BY <1>1, <2>1, <2>3 DEF Unlike
    <3> QED BY <2>1, <3>1 DEF Unlike
  <2> QED BY <2>4, <2>5
<1>7. CASE Update
  <2> DEFINE o == event.of
  <2>1. /\ Serving("update") /\ UpdateUser(o) /\ o \in Users
        /\ UNCHANGED <<name, at, entries, ui>>
    BY <1>7, Served DEF Update
  <2>2. \A p \in Users : live'[p] = IF p = o /\ HasClient(o) THEN Applied(entries[name[o]]) ELSE live[p]
    BY <2>1, Updated
  <2> HIDE DEF o
  <2> SUFFICES ASSUME NEW p \in Members PROVE FollowsNext(p) \/ Unlike(p)'
    BY <2>1 DEF Followed, Members, Users
  <2>3. p \in Users /\ HasClient(p)
    BY DEF Members, HasClient
  <2>4. CASE p = o
    BY <2>1, <2>2, <2>3, <2>4
  <2>5. CASE p # o
    <3>1. Follows(p) \/ (ui.at = "store" /\ ui.of = p)
      BY <1>1, <2>5 DEF Unlike, o
    <3> QED BY <2>1, <2>2, <2>3, <2>5, <3>1 DEF Unlike
  <2> QED BY <2>4, <2>5
<1>8. CASE CheckChannel
  <2>1. /\ event.next = "check" /\ UNCHANGED <<name, at, live, entries, ui>>
    BY <1>8 DEF CheckChannel, Serving
  <2> QED BY <2>1 DEF Followed, Unlike, Members, Users
<1>9. CASE MuteJoiner
  <2>1. /\ event.next = "mute" /\ event.of \in Users /\ ToggleMute(event.of, "reader")
        /\ UNCHANGED <<name, at, ui>>
    BY <1>9, Served DEF MuteJoiner, Serving
  <2>2. \A p \in Members : Follows(p) => FollowsNext(p)
    BY <2>1, ToggleFollowed
  <2>3. \A p \in Members : Follows(p) \/ (ui.at = "store" /\ ui.of = p)
    BY <1>1, <2>1 DEF Unlike
  <2> QED BY <2>1, <2>2, <2>3 DEF Followed, Unlike, Members, Users
<1>10. CASE PostRebuild
  <2>1. /\ event.next = "post" /\ UNCHANGED <<name, at, live, entries, ui>>
    BY <1>10 DEF PostRebuild, Serving
  <2> QED BY <2>1 DEF Followed, Unlike, Members, Users
<1>11. CASE HandleEvent \/ RebuildChannel \/ CutRebuild \/ RebuildEnds
  <2>1. /\ UNCHANGED <<name, at, live, entries, event>>
        /\ ui.at # "store"
    BY <1>11 DEF HandleEvent, RebuildChannel, CutRebuild, RebuildEnds, Doing
  <2> QED BY <1>2, <2>1
<1>12. ASSUME NEW o \in Users, ToggleMute(o, "ui"), UNCHANGED <<name, at, event>>, ui.at # "store"
       PROVE  Followed'
  <2>1. \A p \in Members : Follows(p) => FollowsNext(p)
    BY <1>12, ToggleFollowed
  <2>2. \A p \in Members : Follows(p) \/ (event # Nobody /\ event.of = p /\ event.next = "update")
    BY <1>1, <1>12 DEF Unlike
  <2> QED BY <1>12, <2>1, <2>2 DEF Followed, Unlike, Members, Users
<1>13. CASE MuteStep
  <2>1. CASE \E o \in ShownUsers : PressMute(o)
    BY <1>12, <2>1, ShownAreUsers DEF PressMute, Key, Doing
  <2>2. CASE \E o \in ui.todo : MuteOne(o)
    BY <1>12, <2>2, KeyFields DEF MuteOne, Doing
  <2>3. CASE (\E c \in Range(Channels) : PressMuteChannel(c)) \/ (\E o \in ui.todo : SkipOne(o)) \/ SetChannelMuted
    BY <1>2, <2>3 DEF PressMuteChannel, SkipOne, SetChannelMuted, Key, Doing
  <2> QED BY <1>13, <2>1, <2>2, <2>3 DEF MuteStep
<1>14. ASSUME NEW o \in ui.todo, SetLevel(o) PROVE Followed'
  <2>1. /\ ui.at = "level" /\ o \in Users
        /\ live' = [live EXCEPT ![o].level = NewLevel(@)]
        /\ ui'.at = "store" /\ ui'.of = o
        /\ UNCHANGED <<name, at, event, entries>>
    BY <1>14, KeyFields DEF SetLevel, Doing
  <2>2. \A p \in Users : p # o => live'[p] = live[p]
    BY <2>1, LevelSet
  <2>3. \A p \in Members : Follows(p) \/ (event # Nobody /\ event.of = p /\ event.next = "update")
    BY <1>1, <2>1 DEF Unlike
  <2> QED BY <2>1, <2>2, <2>3 DEF Followed, Unlike, Members, Users
<1>15. CASE Store
  <2> DEFINE o == ui.of
  <2>1. /\ ui.at = "store" /\ o \in Members /\ name[o] \in Names
        /\ entries' = [entries EXCEPT ![name[o]] = live[o]]
        /\ UNCHANGED <<name, at, live, event>>
    BY <1>15, KeyFields, OfUsers DEF Store, Doing, UpdateConfig, HasClient, Members
  <2>2. live[o] = Applied(live[o])
    <3>1. live[o] \in Entry /\ live[o].level # Bare
      BY <2>1, OfUsers DEF Stored, Members
    <3> QED BY <3>1 DEF Applied, Entry
  <2> HIDE DEF o
  <2> SUFFICES ASSUME NEW p \in Members PROVE FollowsNext(p) \/ Unlike(p)'
    BY <2>1 DEF Followed, Members, Users
  <2>3. CASE p = o
    BY <2>1, <2>2, <2>3 DEF SettingsTypeOK
  <2>4. CASE p # o
    <3>1. name[p] # name[o]
      BY <2>1, <2>4 DEF NamesApart
    <3>2. entries'[name[p]] = entries[name[p]]
      BY <1>1, <2>1, <3>1, OfUsers DEF SettingsTypeOK
    <3>3. Follows(p) \/ (event # Nobody /\ event.of = p /\ event.next = "update")
      BY <1>1, <2>4 DEF Unlike, o
    <3> QED BY <2>1, <3>2, <3>3 DEF Unlike
  <2> QED BY <2>3, <2>4
<1>16. CASE VolumeStep
  <2>1. CASE \/ \E o \in ShownUsers, how \in Volumes : PressVolume({o}, how)
             \/ \E c \in Range(Channels), how \in Volumes : PressVolume(UsersOf(c), how)
    BY <1>2, <2>1 DEF PressVolume, Key, Doing
  <2>2. CASE PressSwitch \/ SaveConfig
    BY <1>2, <2>2 DEF PressSwitch, SaveConfig, Doing
  <2> QED BY <1>14, <1>15, <1>16, <2>1, <2>2 DEF VolumeStep
<1> QED BY <1>3, <1>4, <1>5, <1>6, <1>7, <1>8, <1>9, <1>10, <1>11, <1>13, <1>16, SettingsSteps

\* What is stored was set: neither UpdateUser nor the mute key takes the boost away.
LEMMA StoredKept ==
  ASSUME SettingsInv, [SettingsNext]_settings
  PROVE  Stored'
<1> USE DEF SettingsInv
<1>1. ASSUME UNCHANGED <<ui, live>> PROVE Stored'
  BY <1>1 DEF Stored
<1>2. ASSUME ui'.at # "store" PROVE Stored'
  BY <1>2 DEF Stored
<1>3. CASE SaveWrite \/ SaveRename \/ SaveFails \/ CheckChannel \/ PostRebuild \/ PressSwitch
           \/ UNCHANGED settings
  BY <1>1, <1>3 DEF SaveWrite, SaveRename, SaveFails, CheckChannel, PostRebuild, PressSwitch, settings
<1>4. CASE Crash \/ Panic
  BY <1>4, RestartHolds
<1>5. ASSUME NEW n \in Names, NEW c \in Range(Channels), Join(n, c) PROVE Stored'
  <2>1. UNCHANGED ui /\ \A o \in Users : live'[o] = live[o]
    BY <1>5, JoinTypes DEF Join
  <2> QED BY <2>1, KeyFields DEF Stored
<1>6. ASSUME NEW o, NEW c, Move(o, c) PROVE Stored'
  BY <1>1, <1>6 DEF Move
<1>7. CASE Update
  <2>1. UpdateUser(event.of) /\ event.of \in Users /\ UNCHANGED ui
    BY <1>7, Served DEF Update
  <2>2. \A p \in Users : live'[p] \in {Applied(entries[name[event.of]]), live[p]}
    BY <2>1, Updated
  <2>3. Applied(entries[name[event.of]]).level # Bare
    BY <2>1, OfUsers, AppliedEntry DEF SettingsTypeOK
  <2> QED BY <2>1, <2>2, <2>3, KeyFields DEF Stored
<1>8. CASE MuteJoiner
  <2>1. ToggleMute(event.of, "reader") /\ event.of \in Users /\ UNCHANGED ui
    BY <1>8, Served DEF MuteJoiner
  <2>2. \A p \in Users : live'[p].level = live[p].level
    BY <2>1, Toggled
  <2> QED BY <2>1, <2>2, KeyFields DEF Stored
<1>9. CASE HandleEvent \/ RebuildChannel \/ CutRebuild \/ RebuildEnds
  <2>1. CASE HandleEvent \/ RebuildEnds
    BY <1>2, <2>1 DEF HandleEvent, RebuildEnds, BeginRebuild, Rebuilding, Idle
  <2>2. CASE RebuildChannel \/ CutRebuild
    <3>1. UiTypeOK
      OBVIOUS
    <3>2. PICK cs, seen : ui' = [at |-> "rebuild", todo |-> {}, channels |-> cs, seen |-> seen]
      BY <2>2, <3>1, RebuildStep
    <3> QED BY <1>2, <3>2
  <2> QED BY <1>9, <2>1, <2>2
<1>10. CASE MuteStep
  <2>1. CASE (\E o \in ShownUsers : PressMute(o)) \/ SetChannelMuted
    BY <1>2, <2>1 DEF PressMute, SetChannelMuted, BeginRebuild, Rebuilding
  <2>2. CASE \E c \in Range(Channels) : PressMuteChannel(c)
    BY <1>2, <2>2 DEF PressMuteChannel
  <2>3. CASE \E o \in ui.todo : MuteOne(o) \/ SkipOne(o)
    <3>1. PICK o \in ui.todo : ui' = [ui EXCEPT !.todo = ui.todo \ {o}] /\ ui.at = "mute"
      BY <2>3 DEF MuteOne, SkipOne, Doing
    <3>2. ui'.at = "mute"
      BY <3>1, KeyFields
    <3> QED BY <1>2, <3>2
  <2> QED BY <1>10, <2>1, <2>2, <2>3 DEF MuteStep
<1>11. ASSUME NEW o \in ui.todo, SetLevel(o) PROVE Stored'
  <2>1. /\ ui.at = "level" /\ o \in Users /\ ui'.of = o
        /\ live' = [live EXCEPT ![o].level = NewLevel(@)]
    BY <1>11, KeyFields DEF SetLevel, Doing
  <2> QED BY <2>1, LevelSet DEF Stored
<1>12. CASE VolumeStep
  <2>1. CASE \/ \E o \in ShownUsers, how \in Volumes : PressVolume({o}, how)
             \/ \E c \in Range(Channels), how \in Volumes : PressVolume(UsersOf(c), how)
    BY <1>2, <2>1 DEF PressVolume
  <2>2. CASE Store \/ SaveConfig
    BY <1>2, <2>2 DEF Store, SaveConfig, BeginRebuild, Rebuilding
  <2> QED BY <1>3, <1>11, <1>12, <2>1, <2>2 DEF VolumeStep
<1> QED BY <1>3, <1>4, <1>5, <1>6, <1>7, <1>8, <1>9, <1>10, <1>12, SettingsSteps

\* A rebuild begins with nothing, and every user is still to come.
LEMMA FreshRebuild ==
  ASSUME SettingsTypeOK, ui' = Rebuilding, UNCHANGED <<name, at>>
  PROVE  ListInv'
<1>1. ui'.at = "rebuild" /\ ui'.seen = {} /\ ui'.channels = Channels /\ ui' # Idle
  BY RebuildingTypes DEF Idle
<1>2. \A p \in Members : at[p] \in Range(Channels)
  BY OfUsers DEF Members
<1>3. Members' = Members
  BY DEF Members, Users
<1> QED BY <1>1, <1>2, <1>3 DEF ListInv

\* The list is right, or will be.
LEMMA ListKept ==
  ASSUME SettingsInv, [SettingsNext]_settings
  PROVE  ListInv'
<1> USE DEF SettingsInv
<1>1. ASSUME UNCHANGED <<name, at, event, queue, missed, shown, ui>> PROVE ListInv'
  BY <1>1 DEF ListInv, Members, Users
<1>2. ASSUME event' \in Happening PROVE ListInv'
  BY <1>2, SettingsAssumption DEF ListInv
<1>3. ASSUME ui'.at \in {"mute", "level", "store"} PROVE ListInv'
  BY <1>3 DEF ListInv, Idle
<1>4. CASE SaveWrite \/ SaveRename \/ SaveFails \/ UNCHANGED settings
  BY <1>1, <1>4 DEF SaveWrite, SaveRename, SaveFails, settings
<1>5. CASE Crash \/ Panic
  BY <1>5, RestartHolds
<1>6. ASSUME NEW n \in Names, NEW c \in Range(Channels), Join(n, c) PROVE ListInv'
  <2>1. event' = [of |-> Len(name) + 1, next |-> "update"] /\ Len(name) + 1 \in Nat
    BY <1>6 DEF Join, SettingsTypeOK
  <2> QED BY <1>2, <2>1 DEF Happening
<1>7. ASSUME NEW o \in Users, NEW c \in Range(Channels) \cup {Nobody}, Move(o, c) PROVE ListInv'
  <2>1. event' = [of |-> o, next |-> "update"] /\ o \in Nat
    BY <1>7 DEF Move, Users
  <2> QED BY <1>2, <2>1 DEF Happening
<1>8. CASE Update \/ CheckChannel \/ MuteJoiner
  <2>1. event' \in Happening
    BY <1>8, Served DEF Update, CheckChannel, MuteJoiner
  <2> QED BY <1>2, <2>1
<1>9. CASE PostRebuild
  <2>1. queue' = queue + 1 \/ missed' = TRUE
    BY <1>9 DEF PostRebuild, Post
  <2> QED BY <2>1 DEF ListInv, SettingsTypeOK
<1>10. CASE HandleEvent
  BY <1>10, FreshRebuild DEF HandleEvent, BeginRebuild
<1>11. CASE RebuildChannel
  <2> DEFINE cs == ui.channels
             c == Head(cs)
             To(ds) == {<<o, at[o]>> : o \in {p \in Members : at[p] \notin Range(ds)}}
  <2>1. /\ ui.at = "rebuild" /\ cs \in Seq(Range(Channels)) /\ cs # <<>> /\ IsInjective(cs)
        /\ ui' = [at |-> "rebuild", todo |-> {}, channels |-> Tail(cs),
                  seen |-> ui.seen \cup (UsersOf(c) \X {c})]
        /\ UNCHANGED <<name, at, event, queue, missed>>
    BY <1>11, RebuildStep DEF RebuildChannel
  <2>2. c \in Range(Channels) /\ c \notin Range(Tail(cs)) /\ Range(cs) = {c} \cup Range(Tail(cs))
    BY <2>1, NextChannel
  <2>3. c # Nobody
    BY <2>2, SettingsAssumption
  <2>4. /\ ui'.at = "rebuild" /\ ui'.channels = Tail(cs) /\ ui' # Idle
        /\ ui'.seen = ui.seen \cup (UsersOf(c) \X {c})
    BY <2>1 DEF Idle
  <2> HIDE DEF cs, c
  <2> SUFFICES ASSUME event = Nobody, queue = 0, ~missed
               PROVE  ui'.seen = To(Tail(cs))
    BY <2>1, <2>4 DEF ListInv, Members, Users
  <2>5. ui.seen = To(cs)
    BY <2>1 DEF ListInv, cs
  <2>6. \A p \in Members : at[p] \notin Range(Tail(cs)) <=> at[p] \notin Range(cs) \/ at[p] = c
    BY <2>2
  <2>7. UsersOf(c) = {p \in Members : at[p] = c}
    BY <2>3 DEF UsersOf, Members
  <2>8. UsersOf(c) \X {c} = {<<o, at[o]>> : o \in {p \in Members : at[p] = c}}
    BY <2>7
  <2>9. To(Tail(cs)) = To(cs) \cup {<<o, at[o]>> : o \in {p \in Members : at[p] = c}}
    BY <2>6
  <2> QED BY <2>4, <2>5, <2>8, <2>9
<1>15. CASE CutRebuild
  <2>1. missed' = TRUE
    BY <1>15 DEF CutRebuild
  <2> QED BY <2>1 DEF ListInv
<1>12. CASE RebuildEnds
  <2>1. /\ ui.at = "rebuild" /\ ui.channels = <<>> /\ shown' = ui.seen /\ ui' = Idle
        /\ UNCHANGED <<name, at, event, queue, missed>>
    BY <1>12 DEF RebuildEnds, Doing
  <2>2. Range(<<>>) = {}
    BY DEF Range
  <2>3. event = Nobody /\ queue = 0 /\ ~missed => ui.seen = {<<o, at[o]>> : o \in Members}
    BY <2>1, <2>2 DEF ListInv
  <2>4. Members' = Members
    BY <2>1 DEF Members, Users
  <2> QED BY <2>1, <2>3, <2>4 DEF ListInv, Idle
<1>13. CASE MuteStep
  <2>1. CASE (\E o \in ShownUsers : PressMute(o)) \/ SetChannelMuted
    BY <2>1, FreshRebuild DEF PressMute, SetChannelMuted, BeginRebuild
  <2>2. CASE \E c \in Range(Channels) : PressMuteChannel(c)
    BY <1>3, <2>2 DEF PressMuteChannel
  <2>3. CASE \E o \in ui.todo : MuteOne(o) \/ SkipOne(o)
    <3>1. PICK o \in ui.todo : ui' = [ui EXCEPT !.todo = ui.todo \ {o}] /\ ui.at = "mute"
      BY <2>3 DEF MuteOne, SkipOne, Doing
    <3>2. ui'.at = "mute"
      BY <3>1, KeyFields
    <3> QED BY <1>3, <3>2
  <2> QED BY <1>13, <2>1, <2>2, <2>3 DEF MuteStep
<1>14. CASE VolumeStep
  <2>1. CASE \/ \E o \in ShownUsers, how \in Volumes : PressVolume({o}, how)
             \/ \E c \in Range(Channels), how \in Volumes : PressVolume(UsersOf(c), how)
    BY <1>3, <2>1 DEF PressVolume
  <2>2. CASE (\E o \in ui.todo : SetLevel(o)) \/ Store
    BY <1>3, <2>2 DEF SetLevel, Store
  <2>3. CASE PressSwitch
    BY <1>1, <2>3 DEF PressSwitch
  <2>4. CASE SaveConfig
    BY <2>4, FreshRebuild DEF SaveConfig, BeginRebuild
  <2> QED BY <1>14, <2>1, <2>2, <2>3, <2>4 DEF VolumeStep
<1> QED BY <1>4, <1>5, <1>6, <1>7, <1>8, <1>9, <1>10, <1>11, <1>12, <1>13, <1>14, <1>15, SettingsSteps

-----------------------------------------------------------------------------
(* The settings: theorems                                                  *)

LEMMA InitSettings ==
  ASSUME SettingsInit PROVE SettingsInv
<1>1. /\ name = <<>> /\ at = <<>> /\ live = <<>> /\ event = Nobody
      /\ file \in Files /\ entries = file /\ saving = NotSaving
      /\ queue = 0 /\ shown = {} /\ ui = Idle
  BY DEF SettingsInit
<1>2. file \in [Names -> Entry]
  BY <1>1, SettingsAssumption
<1>3. SettingsTypeOK /\ UiTypeOK
  BY <1>1, <1>2 DEF SettingsTypeOK, UiTypeOK, NotSaving
<1>4. Users = {} /\ Members = {}
  BY <1>1 DEF Users, Members
<1>5. Unsaved /\ NamesApart /\ Followed /\ Stored /\ ListInv
  BY <1>1, <1>4 DEF Unsaved, NamesApart, Followed, Stored, ListInv, Idle
<1> QED BY <1>3, <1>5 DEF SettingsInv

LEMMA SettingsHold == SettingsSpec => []SettingsInv
<1>1. SettingsInit => SettingsInv
  BY InitSettings
<1>2. SettingsInv /\ [SettingsNext]_settings => SettingsInv'
  BY TypesKept, NamesStayApart, UnsavedKept, FollowedKept, StoredKept, ListKept DEF SettingsInv
<1> QED BY <1>1, <1>2, PTL DEF SettingsSpec

\* Wherever the program is killed, it finds settings it can start from
\* (saveConfigLocked, user_config.go:49-90): for any users, channels and keys.
THEOREM FileStaysWhole == SettingsSpec => []FileIsWhole
<1>1. SettingsInv => FileIsWhole
  BY SettingsAssumption DEF SettingsInv, SettingsTypeOK, FileIsWhole
<1> QED BY <1>1, SettingsHold, PTL

\* When neither the reader nor the user interface is at it, what was changed by a key
\* or by joining a muted channel is in the file, unless the save failed (ToggleMute and
\* SaveConfig of user_config.go).
THEOREM ChangesAreSaved == SettingsSpec => []SavedIsCurrent
<1>1. SettingsInv => SavedIsCurrent
  BY DEF SettingsInv, SavedIsCurrent, Unsaved, Quiet, Idle
<1> QED BY <1>1, SettingsHold, PTL

\* A user who is here has what the settings say of his name, although the reader and
\* the user interface both copy one to the other and he may be another than had his name
\* before (UpdateUser, UpdateConfig, ToggleMute).
THEOREM UsersFollow == SettingsSpec => []UsersFollowSettings
<1>1. SettingsInv => UsersFollowSettings
  BY DEF SettingsInv, UsersFollowSettings, Followed, Unlike, Quiet, Idle
<1> QED BY <1>1, SettingsHold, PTL

\* When the queue is empty the list shows who is where, although it is read channel by
\* channel while users come and go, unless a rebuild was dropped by a full queue
\* or cut at maxTreeLines (Tree.rebuild, TreeItemBuild).
THEOREM ListIsRight == SettingsSpec => []ListCatchesUp
<1>1. SettingsInv => ListCatchesUp
  BY DEF SettingsInv, ListCatchesUp, ListInv, Quiet
<1> QED BY <1>1, SettingsHold, PTL

=============================================================================
