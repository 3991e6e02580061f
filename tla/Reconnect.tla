----------------------------- MODULE Reconnect -----------------------------
(***************************************************************************)
(* The connection lifecycle of Barnard: how a gumble client is dialed,     *)
(* synchronised, lost and replaced, and how the audio stream and the file  *)
(* player that belong to a connection are installed and released.          *)
(*                                                                         *)
(* Three kinds of goroutine interleave:                                    *)
(*   - the UI goroutine, which runs the initial connect(false) and later   *)
(*     shutdown();                                                         *)
(*   - the reconnect loops, started by startReconnect(), which run         *)
(*     connect(true) until it succeeds;                                    *)
(*   - one readRoutine per dialed client, which runs the protocol          *)
(*     handlers and the application's OnConnect / OnDisconnect callbacks.  *)
(*                                                                         *)
(* A client, the stream and the file player made by the same connect()     *)
(* share one name, the number of the dial.                                 *)
(***************************************************************************)
EXTENDS Naturals, FiniteSets

CONSTANTS
  MaxDials,   \* bound: the number of clients a behaviour may create
  MaxFaults,  \* bound: the number of failures the environment may inject
  Loops,      \* names for the goroutines startReconnect may have started
  UI,         \* the UI goroutine
  None        \* Go's nil

ASSUME BoundsAssumption == MaxDials \in Nat \ {0} /\ MaxFaults \in Nat
ASSUME NamesAssumption ==
  /\ UI \notin Loops
  /\ None \notin Nat

VARIABLES
  pc,           \* where each connecting goroutine stands in its code
  dial,         \* the client of the connect() each goroutine is running
  prevStream,   \* connect()'s local previousStream
  state,        \* Client.state of each dialed client
  sockOpen,     \* whether the client's TCP connection is open
  connectCh,    \* Client.connect: empty, holding a RejectError, or closed
  reader,       \* where each client's readRoutine stands
  appClient,    \* Barnard.Client
  stream,       \* Barnard.Stream
  fileStream,   \* Barnard.FileStream
  streamState,  \* whether each OpenAL stream exists and is still open
  streamClient, \* the client each stream captures for (Stream.client)
  connected,    \* Barnard.Connected
  reconnecting, \* Barnard.reconnecting
  stopped,      \* Barnard.reconnectStop has been closed
  exiting,      \* Ui.Close has been called
  alive,        \* the process has not exited
  faults,       \* how many failures the environment may still inject, and which
                \* of them may hit a connect() that is under way, chosen at the start:
                \*   "open": the link may fail before connect() has finished
                \*   "late": Dial may time out although ServerSync is being handled
  lateDials     \* history: dials begun after the user quit

clientVars == <<state, sockOpen, connectCh, reader>>
audioVars  == <<stream, fileStream, streamState, streamClient>>
threadVars == <<pc, dial, prevStream>>
appVars    == <<appClient, connected, reconnecting, stopped, exiting, alive>>
vars == <<clientVars, audioVars, threadVars, appVars, faults, lateDials>>

Clients == 1 .. MaxDials
Threads == {UI} \cup Loops

\* The steps of connect(), and of the goroutines that call it.
ConnectSteps == {"dial", "sync", "open", "file", "stream", "release", "setConnected"}
ThreadSteps  == ConnectSteps \cup {"idle", "events", "check", "wait", "finish"}
\* The steps of OnDisconnect, and of readRoutine, which calls it.
DisconnectSteps == {"cleanFile", "cleanStream", "setDisconnected", "startReconnect"}
ReaderSteps == {"none", "read", "reject", "onConnect", "closeConnect", "done"} \cup DisconnectSteps

\* Every variable has its type, and no channel is closed twice.
TypeOK ==
  /\ pc \in [Threads -> ThreadSteps]
  /\ dial \in [Threads -> Clients \cup {None}]
  /\ prevStream \in [Threads -> Clients \cup {None}]
  /\ state \in [Clients -> {"unused", "Connected", "Synced", "Disconnected"}]
  /\ sockOpen \in [Clients -> BOOLEAN]
  /\ connectCh \in [Clients -> {"empty", "rejected", "closed"}]
  /\ reader \in [Clients -> ReaderSteps]
  /\ appClient \in Clients \cup {None}
  /\ stream \in Clients \cup {None}
  /\ fileStream \in Clients \cup {None}
  /\ streamState \in [Clients -> {"none", "live", "destroyed"}]
  /\ streamClient \in [Clients -> Clients \cup {None}]
  /\ connected \in BOOLEAN
  /\ reconnecting \in BOOLEAN
  /\ stopped \in BOOLEAN
  /\ exiting \in BOOLEAN
  /\ alive \in BOOLEAN
  /\ faults \in [left : 0 .. MaxFaults, hits : SUBSET {"open", "late"}]
  /\ lateDials \in 0 .. MaxDials

Init ==
  /\ pc = [t \in Threads |-> IF t = UI THEN "dial" ELSE "idle"]
  /\ dial = [t \in Threads |-> None]
  /\ prevStream = [t \in Threads |-> None]
  /\ state = [c \in Clients |-> "unused"]
  /\ sockOpen = [c \in Clients |-> FALSE]
  /\ connectCh = [c \in Clients |-> "empty"]
  /\ reader = [c \in Clients |-> "none"]
  /\ appClient = None
  /\ stream = None
  /\ fileStream = None
  /\ streamState = [c \in Clients |-> "none"]
  /\ streamClient = [c \in Clients |-> None]
  /\ connected = FALSE
  /\ reconnecting = FALSE
  /\ stopped = FALSE
  /\ exiting = FALSE
  /\ alive = TRUE
  /\ faults \in [left : {MaxFaults}, hits : SUBSET {"open", "late"}]
  /\ lateDials = 0

-----------------------------------------------------------------------------
(* connect() and DialWithDialer, run by the UI goroutine or a reconnect loop *)

Goto(t, step) == pc' = [pc EXCEPT ![t] = step]

Fault == faults.left > 0 /\ faults' = [faults EXCEPT !.left = @ - 1]

\* connect() returned false. The initial connect ends the program through
\* exitWithError; a reconnect loop waits and tries again.
ConnectFailed(t) ==
  /\ Goto(t, IF t = UI THEN "events" ELSE "wait")
  /\ exiting' = (exiting \/ t = UI)

\* TCP or TLS could not be established.
DialFails(t) ==
  /\ pc[t] = "dial"
  /\ Fault
  /\ ConnectFailed(t)
  /\ UNCHANGED <<clientVars, audioVars, dial, prevStream, appClient, connected,
                 reconnecting, stopped, alive, lateDials>>

\* TLS is up: the client exists, its readRoutine runs, and Dial waits for the
\* server to synchronise.
DialConnects(t) ==
  /\ pc[t] = "dial"
  /\ \E c \in Clients :
       /\ state[c] = "unused"
       /\ \A d \in Clients : d < c => state[d] # "unused"
       /\ state' = [state EXCEPT ![c] = "Connected"]
       /\ sockOpen' = [sockOpen EXCEPT ![c] = TRUE]
       /\ reader' = [reader EXCEPT ![c] = "read"]
       /\ dial' = [dial EXCEPT ![t] = c]
  /\ Goto(t, "sync")
  /\ lateDials' = IF stopped THEN lateDials + 1 ELSE lateDials
  /\ UNCHANGED <<connectCh, audioVars, prevStream, appVars, faults>>

\* The synchronisation deadline fires: it surely does for a client whose
\* connection is gone. select takes either ready case, so the timer may win
\* although the server's answer is being, or has been, handled.
DialTimesOut(t) ==
  /\ pc[t] = "sync"
  /\ "late" \in faults.hits \/ state[dial[t]] # "Synced"
  /\ Fault \/ (reader[dial[t]] = "done" /\ UNCHANGED faults)
  /\ sockOpen' = [sockOpen EXCEPT ![dial[t]] = FALSE]
  /\ ConnectFailed(t)
  /\ UNCHANGED <<state, connectCh, reader, audioVars, dial, prevStream, appClient,
                 connected, reconnecting, stopped, alive, lateDials>>

\* handleReject's error is received, or connectCh is closed by handleServerSync.
DialReturns(t) ==
  /\ pc[t] = "sync"
  /\ \/ /\ connectCh[dial[t]] = "rejected"
        /\ sockOpen' = [sockOpen EXCEPT ![dial[t]] = FALSE]
        /\ connectCh' = [connectCh EXCEPT ![dial[t]] = "empty"]
        /\ ConnectFailed(t)
     \/ /\ connectCh[dial[t]] = "closed"
        /\ Goto(t, "open")
        /\ UNCHANGED <<sockOpen, connectCh, exiting>>
  /\ UNCHANGED <<state, reader, audioVars, dial, prevStream, appClient, connected,
                 reconnecting, stopped, alive, faults, lateDials>>

\* gumbleopenal.New(b.Client) fails: exitWithError, in a reconnect as well.
OpenFails(t) ==
  /\ pc[t] = "open"
  /\ Fault
  /\ exiting' = TRUE
  /\ Goto(t, IF t = UI THEN "events" ELSE "wait")
  /\ UNCHANGED <<clientVars, audioVars, dial, prevStream, appClient, connected,
                 reconnecting, stopped, alive, lateDials>>

\* The OpenAL stream is opened for whatever client b.Client names now and is
\* attached to the audio listeners.
OpenStream(t) ==
  /\ pc[t] = "open"
  /\ streamState' = [streamState EXCEPT ![dial[t]] = "live"]
  /\ streamClient' = [streamClient EXCEPT ![dial[t]] = appClient]
  /\ Goto(t, "file")
  /\ UNCHANGED <<clientVars, stream, fileStream, dial, prevStream, appVars,
                 faults, lateDials>>

\* Under FileStreamMutex: the new file player replaces the previous one.
InstallFile(t) ==
  /\ pc[t] = "file"
  /\ fileStream' = dial[t]
  /\ Goto(t, "stream")
  /\ UNCHANGED <<clientVars, stream, streamState, streamClient, dial, prevStream,
                 appVars, faults, lateDials>>

\* Under connectionMutex: the new stream replaces the previous one.
InstallStream(t) ==
  /\ pc[t] = "stream"
  /\ prevStream' = [prevStream EXCEPT ![t] = stream]
  /\ stream' = dial[t]
  /\ Goto(t, "release")
  /\ UNCHANGED <<clientVars, fileStream, streamState, streamClient, dial, appVars,
                 faults, lateDials>>

\* Mutant: the replaced stream is forgotten.
ReleasePrevious_Leaks(t) ==
  /\ pc[t] = "release"
  /\ prevStream' = [prevStream EXCEPT ![t] = None]
  /\ Goto(t, "setConnected")
  /\ UNCHANGED <<clientVars, audioVars, dial, appVars, faults, lateDials>>

\* The replaced stream lost the race to be installed and is destroyed, outside
\* the locks.
ReleasePrevious(t) ==
  /\ pc[t] = "release"
  /\ streamState' = [c \in Clients |->
                       IF c = prevStream[t] THEN "destroyed" ELSE streamState[c]]
  /\ prevStream' = [prevStream EXCEPT ![t] = None]
  /\ Goto(t, "setConnected")
  /\ UNCHANGED <<clientVars, stream, fileStream, streamClient, dial, appVars,
                 faults, lateDials>>

\* setConnected(true); connect() returns true.
SetConnected(t) ==
  /\ pc[t] = "setConnected"
  /\ connected' = TRUE
  /\ Goto(t, IF t = UI THEN "events" ELSE "finish")
  /\ UNCHANGED <<clientVars, audioVars, dial, prevStream, appClient, reconnecting,
                 stopped, exiting, alive, faults, lateDials>>

Connect(t) ==
  \/ DialFails(t) \/ DialConnects(t) \/ DialTimesOut(t) \/ DialReturns(t)
  \/ OpenFails(t) \/ OpenStream(t)
  \/ InstallFile(t) \/ InstallStream(t) \/ ReleasePrevious(t) \/ SetConnected(t)

-----------------------------------------------------------------------------
(* reconnectGoroutine *)

\* for !b.reconnectCanceled() { ...
LoopCheck(l) ==
  /\ pc[l] = "check"
  /\ Goto(l, IF stopped THEN "finish" ELSE "dial")
  /\ UNCHANGED <<clientVars, audioVars, dial, prevStream, appVars, faults, lateDials>>

\* The retry delay: reconnectStop ends the loop, the timer begins a new round.
LoopWait(l) ==
  /\ pc[l] = "wait"
  /\ \/ stopped /\ Goto(l, "finish")
     \/ Goto(l, "check")
  /\ UNCHANGED <<clientVars, audioVars, dial, prevStream, appVars, faults, lateDials>>

\* Mutant: the flag is not reset.
LoopFinish_KeepsFlag(l) ==
  /\ pc[l] = "finish"
  /\ Goto(l, "idle")
  /\ UNCHANGED <<clientVars, audioVars, dial, prevStream, appVars, faults, lateDials>>

\* The deferred reset of b.reconnecting.
LoopFinish(l) ==
  /\ pc[l] = "finish"
  /\ reconnecting' = FALSE
  /\ Goto(l, "idle")
  /\ UNCHANGED <<clientVars, audioVars, dial, prevStream, appClient, connected,
                 stopped, exiting, alive, faults, lateDials>>

ReconnectLoop(l) == LoopCheck(l) \/ LoopWait(l) \/ LoopFinish(l)

-----------------------------------------------------------------------------
(* readRoutine and the application's listeners *)

ReaderGoto(c, step) == reader' = [reader EXCEPT ![c] = step]

\* A Reject packet arrives before the client is synchronised ...
RejectArrives(c) ==
  /\ reader[c] = "read" /\ state[c] = "Connected" /\ sockOpen[c]
  /\ Fault
  /\ ReaderGoto(c, "reject")
  /\ UNCHANGED <<state, sockOpen, connectCh, audioVars, threadVars, appVars, lateDials>>

\* ... and handleReject puts the error into the buffered channel, whether or not
\* Dial still waits there, and closes the connection.
Reject(c) ==
  /\ reader[c] = "reject"
  /\ connectCh' = [connectCh EXCEPT ![c] = "rejected"]
  /\ sockOpen' = [sockOpen EXCEPT ![c] = FALSE]
  /\ ReaderGoto(c, "read")
  /\ UNCHANGED <<state, audioVars, threadVars, appVars, faults, lateDials>>

\* handleServerSync up to its callback.
ServerSync(c) ==
  /\ reader[c] = "read" /\ state[c] = "Connected" /\ sockOpen[c]
  /\ state' = [state EXCEPT ![c] = "Synced"]
  /\ ReaderGoto(c, "onConnect")
  /\ UNCHANGED <<sockOpen, connectCh, audioVars, threadVars, appVars, faults, lateDials>>

\* OnConnect publishes the client.
OnConnect(c) ==
  /\ reader[c] = "onConnect"
  /\ appClient' = c
  /\ ReaderGoto(c, "closeConnect")
  /\ UNCHANGED <<state, sockOpen, connectCh, audioVars, threadVars, connected,
                 reconnecting, stopped, exiting, alive, faults, lateDials>>

\* Mutant: Dial is sent its answer, so the reader waits until it listens.
CloseConnect_Sends(c) ==
  /\ reader[c] = "closeConnect"
  /\ \E t \in Threads : dial[t] = c /\ pc[t] = "sync"
  /\ connectCh' = [connectCh EXCEPT ![c] = "closed"]
  /\ ReaderGoto(c, "read")
  /\ UNCHANGED <<state, sockOpen, audioVars, threadVars, appVars, faults, lateDials>>

\* handleServerSync's close(c.connect), which panics on a closed channel.
CloseConnect(c) ==
  /\ reader[c] = "closeConnect"
  /\ connectCh' = [connectCh EXCEPT ![c] = IF @ = "closed" THEN "panic" ELSE "closed"]
  /\ ReaderGoto(c, "read")
  /\ UNCHANGED <<state, sockOpen, audioVars, threadVars, appVars, faults, lateDials>>

Connecting(c) == \E t \in Threads : dial[t] = c /\ pc[t] \in ConnectSteps \cup {"finish"}

\* The link fails: a network error, the server closing the connection, or no
\* packet within the read deadline.
LinkFails(c) ==
  /\ sockOpen[c]
  /\ "open" \in faults.hits \/ ~Connecting(c)
  /\ Fault
  /\ sockOpen' = [sockOpen EXCEPT ![c] = FALSE]
  /\ UNCHANGED <<state, connectCh, reader, audioVars, threadVars, appVars, lateDials>>

\* ReadPacket fails on the closed connection: the client is Disconnected, and
\* OnDisconnect follows if it had been synchronised.
ReadFails(c) ==
  /\ reader[c] = "read" /\ ~sockOpen[c]
  /\ state' = [state EXCEPT ![c] = "Disconnected"]
  /\ ReaderGoto(c, IF state[c] = "Synced" THEN "cleanFile" ELSE "done")
  /\ UNCHANGED <<sockOpen, connectCh, audioVars, threadVars, appVars, faults, lateDials>>

\* cleanupConnectionAudio: the file player, under FileStreamMutex ...
CleanFile(c) ==
  /\ reader[c] = "cleanFile"
  /\ fileStream' = None
  /\ ReaderGoto(c, "cleanStream")
  /\ UNCHANGED <<state, sockOpen, connectCh, stream, streamState, streamClient,
                 threadVars, appVars, faults, lateDials>>

\* ... and the stream, destroyed under connectionMutex.
CleanStream(c) ==
  /\ reader[c] = "cleanStream"
  /\ streamState' = [s \in Clients |-> IF s = stream THEN "destroyed" ELSE streamState[s]]
  /\ stream' = None
  /\ ReaderGoto(c, "setDisconnected")
  /\ UNCHANGED <<state, sockOpen, connectCh, fileStream, streamClient,
                 threadVars, appVars, faults, lateDials>>

\* Mutant: the flag stays up.
SetDisconnected_Forgotten(c) ==
  /\ reader[c] = "setDisconnected"
  /\ ReaderGoto(c, "startReconnect")
  /\ UNCHANGED <<state, sockOpen, connectCh, audioVars, threadVars, appVars, faults, lateDials>>

SetDisconnected(c) ==
  /\ reader[c] = "setDisconnected"
  /\ connected' = FALSE
  /\ ReaderGoto(c, "startReconnect")
  /\ UNCHANGED <<state, sockOpen, connectCh, audioVars, threadVars, appClient,
                 reconnecting, stopped, exiting, alive, faults, lateDials>>

\* Mutant: every disconnect starts a loop of its own.
StartReconnect_Unguarded(c) ==
  /\ reader[c] = "startReconnect"
  /\ ReaderGoto(c, "done")
  /\ reconnecting' = TRUE
  /\ \E l \in Loops : pc[l] = "idle" /\ Goto(l, "check")
  /\ UNCHANGED <<state, sockOpen, connectCh, audioVars, dial, prevStream, appClient,
                 connected, stopped, exiting, alive, faults, lateDials>>

\* startReconnect: only when no loop is running.
StartReconnect(c) ==
  /\ reader[c] = "startReconnect"
  /\ ReaderGoto(c, "done")
  /\ \/ /\ reconnecting
        /\ UNCHANGED <<reconnecting, pc>>
     \/ /\ ~reconnecting
        /\ reconnecting' = TRUE
        /\ \E l \in Loops : pc[l] = "idle" /\ Goto(l, "check")
  /\ UNCHANGED <<state, sockOpen, connectCh, audioVars, dial, prevStream, appClient,
                 connected, stopped, exiting, alive, faults, lateDials>>

OnDisconnect(c) ==
  CleanFile(c) \/ CleanStream(c) \/ SetDisconnected(c) \/ StartReconnect(c)

ReadRoutine(c) ==
  \/ RejectArrives(c) \/ Reject(c) \/ ServerSync(c) \/ OnConnect(c) \/ CloseConnect(c)
  \/ ReadFails(c) \/ OnDisconnect(c)

-----------------------------------------------------------------------------
(* The UI goroutine's event loop *)

\* The user quits: reconnects are stopped, the client is disconnected unless it
\* already is, and the user interface closes.
Shutdown ==
  /\ pc[UI] = "events" /\ ~exiting
  /\ stopped' = TRUE
  /\ sockOpen' = [c \in Clients |->
                    IF c = appClient /\ state[c] # "Disconnected" THEN FALSE ELSE sockOpen[c]]
  /\ exiting' = TRUE
  /\ UNCHANGED <<state, connectCh, reader, audioVars, threadVars, appClient, connected,
                 reconnecting, alive, faults, lateDials>>

\* Ui.Run returns once the interface has been closed, and the process ends.
Exit ==
  /\ alive /\ exiting /\ pc[UI] = "events"
  /\ alive' = FALSE
  /\ UNCHANGED <<clientVars, audioVars, threadVars, appClient, connected, reconnecting,
                 stopped, exiting, faults, lateDials>>

Terminated == ~alive /\ UNCHANGED vars

Next ==
  \/ alive /\ \/ \E t \in Threads : Connect(t)
              \/ \E l \in Loops : ReconnectLoop(l)
              \/ \E c \in Clients : ReadRoutine(c) \/ LinkFails(c)
              \/ Shutdown
  \/ Exit
  \/ Terminated

Spec == Init /\ [][Next]_vars

\* Go schedules every runnable goroutine eventually, OpenAL opens or fails, and
\* a server that is not failing answers: its ServerSync arrives. The user need
\* not quit and the environment need not fail.
Fairness ==
  /\ \A t \in Threads : WF_vars(alive /\ Connect(t))
  /\ \A l \in Loops : WF_vars(alive /\ ReconnectLoop(l))
  /\ \A c \in Clients : WF_vars(alive /\ ReadRoutine(c))
  /\ WF_vars(Exit)

FairSpec == Spec /\ Fairness

-----------------------------------------------------------------------------
(* Properties *)

\* A stream that is open is reachable: it is installed, or a connect() still
\* holds it, as the stream it is about to install or the one it replaced.
\* connect() and cleanupConnectionAudio leave no orphan behind, however they
\* interleave (client.go:134-141).
NoOrphanStream ==
  \A s \in Clients : streamState[s] = "live" =>
    \/ stream = s
    \/ \E t \in Threads : dial[t] = s /\ pc[t] \in {"file", "stream"}
    \/ \E t \in Threads : prevStream[t] = s /\ pc[t] = "release"

\* withStream never hands out a destroyed stream (barnard.go:149-159): whatever
\* b.Stream names is open.
InstalledStreamIsOpen == stream # None => streamState[stream] = "live"

\* Streams are released once and used while they live, whatever interleaves.
StreamsOwned == NoOrphanStream /\ InstalledStreamIsOpen

\* startReconnect keeps a single reconnect loop, although several clients may
\* report a disconnect while it runs (client.go:261-263).
OneReconnectLoop == \A k, l \in Loops : pc[k] # "idle" /\ pc[l] # "idle" => k = l

\* Once the user has quit, at most the dial already under way completes.
QuitStopsDialing == lateDials <= 1

\* While the application believes it is connected, and no OnDisconnect is under
\* way, unless a failure may hit a connect() under way, the installed stream and file player were made by the same connect()
\* and feed the client the application talks to.
Disconnecting == \E c \in Clients : reader[c] \in DisconnectSteps
ConnectedIsUsable ==
  faults.hits = {} /\ connected /\ ~Disconnecting /\ ~exiting =>
    /\ stream # None /\ fileStream = stream
    /\ streamClient[stream] = appClient

\* What the application believes of its connection is so (main.go:262-289).
AppAgrees == ConnectedIsUsable /\ QuitStopsDialing

\* A disconnect whose handler has finished is followed up: unless the program
\* is ending, a reconnect loop runs (client.go:134-135 says that a disconnect
\* "that lands while the OpenAL devices are opening starts a second reconnect").
DisconnectIsRetried ==
  appClient # None /\ ~exiting /\ reader[appClient] = "done" =>
    \E l \in Loops : pc[l] # "idle"

\* cleanupConnectionAudio releases a connection's audio before a reconnect
\* replaces it (barnard.go:102-104): no stream is installed that was made for a
\* connection whose cleanup has already run.
CleanupReleasesFirst ==
  stream # None => reader[stream] \notin {"setDisconnected", "startReconnect", "done"}

\* Dial reports an error only for a client that was not synchronised
\* (gumble/client.go:124-126): a loop that waits to try again has not left the
\* application with the client whose dial failed.
FailedDialIsNotPublished ==
  \A l \in Loops : pc[l] = "wait" /\ ~exiting /\ dial[l] # None => appClient # dial[l]

\* A client whose connection has been closed, by either side, is not leaked:
\* its readRoutine ends, even if Dial has stopped listening for its answer
\* (gumble/client.go:184-188).
ClosedClientEnds ==
  \A c \in Clients :
    (state[c] # "unused" /\ ~sockOpen[c]) ~> (reader[c] = "done" \/ ~alive)

\* Failures that hit no connect() are survived: when the environment stops
\* failing, the program ends up connected for good, with usable audio, unless it
\* is ending.
Usable ==
  /\ connected /\ appClient # None /\ stream # None
  /\ state[appClient] = "Synced" /\ sockOpen[appClient]
  /\ fileStream = stream /\ streamState[stream] = "live"
  /\ streamClient[stream] = appClient
Recovers == faults.hits = {} => <>[](Usable \/ exiting)

=============================================================================
