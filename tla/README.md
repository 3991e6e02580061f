# Barnard in TLA+

Barnard is a Mumble client for the terminal: it keeps one connection to a voice
server, plays what the other users say, and sends what the microphone or a file
gives. Behind that stand a protocol library (`gumble/`), an OpenAL backend
(`gumble/gumbleopenal`), a terminal toolkit (`uiterm/`), and some forty goroutine
kinds that share state through mutexes, bounded channels and callbacks. This
directory holds TLA+ models of the parts where those goroutines, the network and
time make the code hard to test, configurations that check the models with TLC,
and proofs that TLAPS checks.

Every definition is translated from the Go source; `PROJECT.json` names, for each
one, the lines it stands for.

## The system

| component | state | operations | meets | module |
|---|---|---|---|---|
| connection lifecycle (`client.go`, `barnard.go`, `gumble/gumble/client.go`) | `b.Client`, `b.Stream`, `b.FileStream`, `reconnecting`, the state, socket and `connect` channel of each gumble client | `connect`, `Dial`, `handleServerSync`, `handleReject`, `OnConnect`, `OnDisconnect`, `startReconnect`, `shutdown` | everything: it makes and releases the rest | `Reconnect` |
| state lock (`rpwmutex.go`) | two mutexes, a count | `RLock`, `RUnlock`, `Lock`, `Unlock` | protects the server state, taken twice by audio dispatch and by menu actions | `RpwMutex` |
| UDP transport and framing (`udp.go`, `udp15.go`, `crypt.go`, `conn.go`, `varint/`) | the socket, keys and IVs, `udpActive`, `udpFrameNumber`, `udpWriteMu`, the mutex of the TCP connection | `startUDP`, `handleCryptSetup`, reader, pingers, `WriteAudio`, `WriteAudioUDP15`, `WritePacket` | readRoutine and the audio goroutines | `UdpTransport`, `WireFormat` |
| UDP receive window (`udp15.go`) | `decryptIV`, `history` | `encrypt15`, `decrypt15`, one per packet | the UDP reader | `CryptWindow` |
| audio dispatch and streams (`handlers.go`, `audiolisteners.go`, `stream.go`) | the listener list, a channel per user and listener, a goroutine, a source | `dispatchAudio`, `Attach`, `Detach`, `handleUserRemove`, `OnAudioStream`, `Destroy` | both readers, the connection lifecycle | `AudioStreams` |
| decoding and the jitter buffer (`handlers.go`, `stream.go`) | the last sequence number of a user, his channel, the packets held back | `dispatchOpus15`, `decodeAndDispatch`, `handleUDPTunnel`, the loop of `OnAudioStream` | both readers, the stream's goroutine | `Receive` |
| sound devices (`stream.go`, `go-openal/`) | capture device, sink, context, sources with their buffers, gains, the renderer | `New`, `Destroy`, `OnAudioStream`, `processAudioPacket`, `UpdateUserGain`, the file source | the streams, the UI, the recorder | `Playback` |
| recorder (`recording/`) | one queue of frames per source, the ffmpeg process | `WriteAudio`, the mixing goroutine, `Stop` | the renderer hands it frames | `Encoder`, composed into `Playback` |
| recording control (`recording_control.go`) | `b.Recorder`, `recordingStarting`, `recordingAllowed`, the ffmpeg processes | `/record`, the server's confirmations and prohibitions, disconnects | the stream, the server's user state | `Recording` |
| transmission and file playback (`ui.go`, `client.go`, `stream.go`, `fileplayback/`) | `b.Tx`, the source, the capture goroutine and its sender, the player's session and frames, the stereo encoder | talk key, `/file`, `/stop`, `startAutoTransmit`, `StartSource`, `StopSource`, `PlayFile`, `Stop`, the end of a file | UI, connection, capture goroutines, ffmpeg | `Transmit` |
| server state (`handlers.go`, `channel.go`, `user.go`) | `c.Users`, `c.Channels`, `c.Self` and the pointers between them | one handler per protocol message | the UI tree, audio, permissions | `World` |
| administration (`admin.go`, `ui.go`) | targets, prompt, ban list, ACL, the menu | menu items, prompts, typed commands, `OnBanList`, `OnACL` | server state under the state lock, the UI queue | `Admin` |
| settings and the user list (`config/`, `ui_tree.go`, `ui.go`) | the entry of every name, the file, volume and mute of every user, the lines of the tree | volume and mute keys, `OnUserChange`, `UpdateUser`, `UpdateConfig`, `SaveConfig`, rebuilding | server state, the UI queue | `Settings` |
| user interface queue (`uiterm/ui.go`) | a bounded channel of functions | `Post`, `Run` | every callback posts here | `Admin`, `Settings` |
| the rest | gain control, noise suppression, the notification runner, the command FIFO, drawing, generated messages, external process audio | | | not modelled |

How they meet. Messages of the server arrive at `readRoutine`, which runs the
handler and then, on the same goroutine, the application's callbacks. UDP packets
arrive at a second goroutine. Both hand audio to the listeners, each of which has
one goroutine per speaking user. The UI goroutine runs commands and everything
posted to it. A disconnect is a callback on `readRoutine` that releases what the
connection owned and starts a reconnect goroutine, which dials anew.

What is hard, and where:

* **interleavings**: connects, disconnects and quits overlap; `Detach` and user
  removal close channels others send on; recording starts outside its lock; the
  reader and the keys copy settings both ways; file workers and `Stop` race;
* **ordering**: IVs against socket writes, key changes against packets on their way,
  confirmations of the server against the commands they answer;
* **stale state**: menus, prompts and objects that outlive what they name;
* **failure**: refused and lost connections, a dial that times out while it
  succeeds, packets lost, late and repeated, ffmpeg stalling or dying, a handler
  that gives up half-way, a program killed while it saves;
* **liveness**: a lost connection must be replaced, goroutines of what ended must
  end, readers must get past a waiting writer, `Stop`, `Destroy` and every key must
  return;
* **boundaries**: wrapping sequence numbers and IV bytes, bounded queues.

`PROJECT.json` lists these line by line under `hazards`, each with the properties
that cover it or the reason none does.

## Modules

| module | models | checked by |
|---|---|---|
| `Reconnect`, `MCReconnect`, `ReconnectProofs` | connection lifecycle | `reconnect`, five theorems |
| `RwLock`, `RpwMutex`, `MCRpwMutex`, `RpwMutexProofs` | state lock, and the readers-writer lock it implements | `rpwmutex`, two theorems |
| `UdpTransport`, `MCUdpTransport`, `UdpTransportProofs` | UDP transport, the TCP connection's messages | `udptransport`, two theorems |
| `WireFormat` | varints and audio packets as bytes | assumptions of `MCUdpTransport`, evaluated by `udptransport` |
| `CryptWindow` | UDP receive window | `cryptwindow`, two theorems in `UdpTransportProofs` |
| `AudioStreams`, `MCAudioStreams`, `AudioStreamsProofs` | audio dispatch and streams | `audiostreams`, two theorems |
| `Receive` | decoding and the jitter buffer | `receive`, three theorems in `TransmitProofs` |
| `Encoder`, `Playback`, `MCPlayback`, `PlaybackProofs` | the recorder, and the devices it hears | `playback`, four theorems |
| `Recording`, `RecordingProofs` | recording control | `recording`, two theorems |
| `Transmit`, `TransmitProofs` | capture, transmission and file playback | `transmit`, three theorems |
| `World`, `MCWorld`, `WorldProofs` | server state | `world`, five theorems |
| `Admin` | administration | `admin`, three theorems in `RpwMutexProofs` |
| `Settings`, `MCSettings` | settings and the user list | `settings`, four theorems in `ReconnectProofs` |

`CryptWindow`, `Receive`, `Admin` and `Settings` have names of their own for what other modules
call `Init`, `Next`, `Spec` and `vars` (`WindowInit`, `ReceiveSpec`, ...), because their theorems
stand in a proof module beside those of the component they work for.

In every module the variables are the fields of the code (the comment after each
names it) plus a program counter per goroutine. One action is one stretch of code
between two points where another goroutine can be seen: a critical section, a
channel operation, a system call, a callback. What runs under one mutex is one
step. Operators named `<Action>_<What>` after "Mutant:" are the action with a
plausible bug; the runs must refute them, and nothing else uses them. `TypeOK` is stated
in most modules and holds on every instance; to keep the runs to what is hard, none lists it.

### Reconnect

`pc[t]` is where a connecting goroutine stands (the UI goroutine runs the initial
`connect(false)`, loops run `connect(true)`), `reader[c]` where the `readRoutine` of
client `c` stands. A client, and the stream and player its `connect()` makes, share
the number of the dial. `DialConnects` … `SetConnected` are the steps of `connect()`
and `DialWithDialer`; `LoopCheck`, `LoopWait`, `LoopFinish` those of
`reconnectGoroutine`; `RejectArrives` … `StartReconnect` those of `readRoutine`, the
handlers of Reject and ServerSync, and `OnConnect` and `OnDisconnect`; `Shutdown` and
`Exit` are quitting.

Failures are chosen by the environment: a dial refused, a rejection, a timeout, a
lost link, OpenAL failing. Two kinds hit a `connect()` that is under way, where the
code has real gaps: `faults.hits` is chosen in the initial state and says whether the
link may fail before `connect()` has finished (`"open"`) and whether `Dial` may time
out although ServerSync is being handled (`"late"`). The safety properties are checked
under all four choices. `ConnectedIsUsable` and `Recovers` are promised only when
neither happens, and say so.

Run `reconnect`: three dials, two failures, two names for loops. Two loops are enough
to see one too many; three dials let a client be lost, its replacement fail, and the
next succeed. Fairness: weak for each goroutine's next step, because Go runs every
runnable goroutine, `Dial` and OpenAL return, and a server that is not failing answers.
Neither failures nor the user's wish to quit are fair.

### RwLock and RpwMutex

`rpwMutex` is two mutexes and a count. `RpwMutex` has one action per mutex operation;
`level[p]` counts the read locks of a goroutine that the count `n` includes.
`RwLock` is the specification: `Read`, `EndRead`, `Write`, `EndWrite`, where a goroutine may
read again whenever it reads. The refinement maps `reads[p]` to the locks `RLock` has
returned from, and `writing` to the goroutines inside `Lock` and `Unlock`. The run has
three goroutines, nested twice (the code nests twice: `handleUDPTunnel` holds the lock
when it calls `dispatchOpus15`); a first reader, a second reader and a writer are all
the roles the code has. Fairness: holders let go, and `sync.Mutex` hands a mutex to a
goroutine that has waited long enough, which is strong fairness of taking it. Writers
have no such promise and none is checked.

### UdpTransport

Dialling, key setup, reader, pinger, two audio goroutines, the keep-alive of the TCP
connection, and the end of the connection. `iv[k]` is the number of packets encrypted under
key `k`, `wire` and `voice` the last packet and the last audio frame that left. A sender
holds `udpWriteMu` from the encryption to the write; `InstallKey` takes it too. `FrameStep`
is the length of a packet in 10 ms units.

When there is no socket or no key, or the write fails, audio falls back to the TCP
connection (`Fallback`); its frame number is spent all the same, so that what the server
receives by UDP may skip numbers, and the tunnel counts in another sequence. A message there
is two or three writes under the mutex of `c.Conn`; `WritePiece` is one of them, and one
that fails leaves the connection failing for good (`Torn`).

The run has two keys, two senders besides the pingers, two packets under a key and one
frame sent without UDP: enough for an order to be wrong within a key, between keys and between
writers, and for a tunnelled frame to fall between two messages. Fairness: the goroutines
run, a read on a closed socket returns, and the pinger's `select` does not prefer its
ticker for ever. Writes to the TCP connection are not fair, because a server may stop reading.

### WireFormat

The varints of `varint/` and of protobuf and the two audio packets, as functions from numbers
to sequences of bytes and back. They have no state; `MCUdpTransport` states, as assumptions
TLC evaluates, that what is written is read, whatever follows it, that the target of a
packet is what only the server reads, and that of a packet cut short nothing is made that was not
sent. The numbers lie on both sides of every change of length below 2^31, TLC's own limit;
the 64-bit form of a varint is out of it.

### CryptWindow

A packet is the number it was sent with; the receiver sees the low byte of its IV and
guesses the rest. `LowValues`, `HighValues` and `Late` stand for 256, 256 and 30; the
run uses 8, 4 and 4, so that fifteen packets wrap the low byte twice, and starts at an
IV whose byte 1 is not zero. Loss is a packet that is never received, reordering and
repetition are `Receive` of any packet sent. The cipher is perfect: `ocb15Decrypt` opens what
was sealed under the same IV. `KeepsUp` holds for losses shorter than half the range of the low
byte; after a longer one the code takes every later packet for a late one, and nothing in it
asks for new keys. The run stays within one turn of the two low bytes, and `WindowKeepsUp` supposes it:
beyond, if every packet with one low byte is lost for a whole turn of byte 1, the next packet
with that byte finds its own byte 1 in the stale history and is refused as a replay (`LowValues = 4`,
`HighValues = 3`, `Late = 2`, `FirstIV = 6`, `MaxSent = 18` show it). `NothingReplayed` needs no such bound. `cryptState` and
`ocbCrypt` of `crypt.go`, which only tests use, are not modelled.

### AudioStreams

A channel is a pair of a stream and a user. `chan` is its state, `player` the goroutine
`OnAudioStream` starts, `source` the OpenAL source that goroutine makes. `Enter`, `Deliver`
… are the steps of `dispatchAudio` for each of the two readers; `Attach` and `Detach` are
`AttachStream` and the first half of `Destroy`, and take a stream in and out of the list;
`UserLeaves` is `handleUserRemove`. The run has two readers, two streams (the old one and the
one of the next connection) and a user: users share no channel, so a second one adds none of
the races. Fairness: a reader inside the lock gets on, players run, `Destroy` goes on.

### Receive

What becomes of one talker's packets. `network` has those on their way, which others may overtake
by at most `Reach` places, as much as the receive window lets through; `out` is what the reader
has still to hand to the listeners, `channel` the bounded channel of the stream, which drops what
does not fit; `buffer` the packets the jitter buffer holds, `next` the number to play. A
packet has a number in 10 ms units and the `epoch` of its numbering: a talker who changes his
device begins from zero. `Arrive` is either decoding path, `dispatchOpus15` or the older
`handleUDPTunnel`, with the terminator, the concealment of a gap, and decoding that fails (as it
always does for the empty last packet of `handleUDPTunnel`); `Jitter` is one turn of the
goroutine's loop. A round of that loop reads nothing the others write, so they move between rounds.

The run sends six packets, with one restart of the numbering and one change of the mute. The
limits of the code (50 packets, 5 late ones, jumps of 100) become 2, 2 and 3, with the delay
of two units, so that each is reached. Only the goroutine is fair: that anything arrives is not
assumed. `HeardInOrder` and `OnlyRestartsResync` are action properties, and say what holds for
any reach, buffers and limits, which is less than one might expect:

* Both speak of a talker who keeps the numbering last heard. After a restart, a straggler of
  the old numbering is preceded by the concealment of what it seems to skip, counted from a packet of the
  new one; if a frame so concealed passes for a restart, the buffer is rewound, and the
  stragglers that follow are played after frames they precede (`Reach = 2`, `ResyncJump = 4`,
  `LateResync = 2`, `FirstFrames = {2}`). It takes a packet overtaken across the restart.
* With both decoding paths in use (an older server, voice by UDP and through the tunnel) and packets of
  30 ms or more, packets that cannot be decoded may conceal the same gap twice, in units
  of 10 ms, and be taken for a restart (`Step = 3`, `ResyncJump = 7`, `LateResync = 1`).
  The theorems suppose `PathsAgree`: one path, or packets of at most 20 ms.
* `SilenceIsShort` counts voice of the numbering in use that is discarded in a row. The bound
  rounds up: with packets longer than a unit one more fits below the jump than divides it.

What the code promises beyond them and does not keep is `HeldIsHeard` below. Two
more things the model shows: a packet concealed and then arriving late is played at the place
of the next, and a burst shorter than the delay is discarded whole at its terminator.

### Encoder and Playback

`Encoder` is the recorder: `run` is its goroutine, which mixes a chunk of every source at a tick
and writes it to ffmpeg; `input` the bounded channel of frames, `queues` what waits of each
source, in chunks. ffmpeg is external: it reads, stalls, dies, ends well, or is killed.
While it stalls the newest frames are the ones dropped, contrary to the comment at
`recording/recorder.go:203-207`, which wants the oldest to go; no property depends on it.

`Playback` extends it with the devices. `goroutine[s]` is where the goroutine of a user's
stream stands; what it does to OpenAL it hands to the renderer, one function at a time, which is one
step (`CreateSource`, `Reclaim`, `Queue`, `Release`, `UpdateUserGain`, …), but for a packet,
which hands its frame to the recorder between two steps. `OpenCapture` … `CreateContext` are `New`
with each of its failures, `Detach` … `CloseDevice` are `Destroy`, with the timeout of its wait
for the streams. `gain[s]` says whether the gain of a source is what the user was given.
`excused` remembers the three cases in which the code leaves something open: the wait timed
out, a stream was announced after it, or the file ended just then.

The run (`MCPlayback`) has one talker, who is recorded or talks over a file, two buffers and
two packets; every limit of the recorder is one. Users meet at the renderer and the recorder only,
which serve one at a time. Fairness: the goroutines of the streams, of the recorder and of
`Destroy` run, the timers fire, OpenAL returns. ffmpeg owes nothing, and a stopped or destroyed
program stops, so deadlock is not checked.

### Recording

Two goroutines: the UI, which asks for the recording state, and the reader of the
server's messages, which starts ffmpeg when it is confirmed. `encoders` are the ffmpeg
processes that run; `uiHolds` and `netHolds` are the recorders a goroutine has taken out
of (or not yet put into) `b.Recorder`. The server is external: it applies requests in
order, or ignores them, and reports changes. The run allows three commands, which is
start, stop, start; a change of permission; a kick; and a lost connection. It may stop
when the bounds are used up, so deadlock is not checked.

### Transmit

Two parties run commands: `UI` (talk key, `/file`, `/stop`, quitting) and `Net`, which is
`OnDisconnect`, then the reconnect with `startAutoTransmit`, then idle until the link drops. Beside
them run a `sourceRoutine` with its sender per burst (`burst`) and a `readFileAudio` worker per file
(`play`). `source` is the stop channel the stream has, `tx` what the client says, `stereo` the
encoder in use, `queue` the frames of a file that wait, each with the play it came from. A
mutex is held while its holder stands at certain steps (`FilesFree`, `CanRead`, `CanWrite`).

Names of bursts, plays and streams are used again when nothing refers to them, so behaviours are
unbounded; two bursts and two plays are one that ends while the next begins, and the one stream
is replaced by itself after `Destroy` has let go of it. Fairness: strong for both parties and for a
`select` with two ready cases, because a mutex that keeps being free is obtained and a `select`
picks at random; weak for the other steps of goroutines. No key, end of file or lost link is fair.
`handleCodecVersion`, which may replace the encoder in the middle of a file
(`handlers.go:1246`), is not among the actions: the server sends it once, before anything plays.

### World

One action per handler: `ChannelState`, `ChannelRemove`, `UserState`, `UserRemove`,
`ServerSync`, each with the application's callback, because `readRoutine` runs them one
after the other. A channel or user object is not its number: the maps (`channelOf`,
`userOf`, and `children`, `links`, `members` of an object) go from numbers to objects, and
the fields `id`, `parent`, `session`, `channel` belong to objects, which may outlive their
entry. Early returns keep what the handler did before them. `remembered` is
`b.userChannels`, `notices` what one step announces.

The server is external. `lawful`, chosen in the initial state, says whether it keeps to
what a Mumble server does (parents first, no cycles, a channel emptied before it is
removed, nothing after it has removed the client's user) or sends any message at all;
`CyclesAreLong` and `MapsAgree` hold for both, `PictureIsWhole` and `NoticesAreRight` only for a
lawful one, and say so. A message carries one of the three link fields. ServerSync comes once and names a user
already announced: `OnConnect` fails on anything else. 
`IsDescendant` gives up after `MaxDepth` parents, as `isChannelDescendant` does after `maxChannelDepth`,
1024, and says no. So a server that nests more than `MaxDepth + 1` channels can move the first below
the last, and the cycle is made: `CyclesAreLong` says that there are no others, and is the strongest
that holds of any server. What the code does with a long cycle is uneven: the tree of the user
interface stops at its limits, `isPublicTextMessage` (`client.go:330`) follows the parents for ever.

The run has three channels, two users, one list of links, and `WildSessions` confines an
unlawful server to one session, in which it still has two user objects; the
lawful one uses both. `MaxDepth` is 1, so that three channels are enough for a cycle the code
overlooks and two are one it must not; they are also a move under a grandchild, and a
channel removed and made anew beside another; two users are oneself and somebody else. A
server may have nothing left to say, so deadlock is not checked.

### Admin

An administrator opens the menu for a user and a channel, presses items, answers prompts, types
commands, and switches views, while the server makes and removes users and channels under the
same numbers, answers what was asked for, and the connection is replaced. An object is named by
the order in which the client made it, and is in `removed` once a handler took it out and set its
client to nil; `target` is what the menu was opened for, `menu` what its
items hold, `prompt` what the pending prompt will act on, `doing` what runs on the goroutine of the
user interface, `events` its queue, whose overflow is dropped. An item of the
menu is here for what it sends and about whom; items that send about the same object are one.

An action runs inside `Client.Do` (`InsideDo`), and the reader waits for its end (`Changed`). That holds
for the connection whose lock it took: `OnConnect` replaces `b.Client` with no lock, and the handlers
of the next connection take another. What is done outside `Client.Do` has no such protection, and an
object in `removed` that is asked for its client ends the program, which `running` remembers: the
menu is built from the permissions of its channels when it is opened, when a list or an ACL arrives,
and after every item, also after one whose targets were found gone (`Rebuild`, `RebuildMenu`); a typed
command sends about what it found a while ago (`SendTyped`). The properties are about programs that still run;
`ActionsHaveClients` says that the actions of the menu themselves never are the cause.

The run has one user slot, one channel slot, one ban, a queue of one, two objects and two opens,
so that a slot is given to a second object while the menu is open for the first, a prompt outlives
its menu, and the queue is full when it matters. One loss of the connection and one request are
enough for an answer to arrive at the wrong menu; `MaxBans` bounds the list to which a ban is added by
hand, which the code does not, and which no property looks at beyond the menu's part of it. No liveness is
claimed, and deadlock is not checked: an action writes to the TCP connection inside `Client.Do` and with no deadline, so a
server that stops reading keeps the user interface and the state lock for as long as it likes, and nothing makes that step
fair. That a reader of the lock gets in a second time is `ReadersGetIn` of `RpwMutex`; that posting does not wait is
how `Ui.Post` is written.

Seen on the way: an item that toggles acts on the state at the press; the ACL fetched before a
reconnect stays; an edit of the ban list is sent from what was fetched, which is `OtherBansStay`
below; and handlers read the maps of the client without the state lock.

### Settings

Keys change the volume of a user or mute a user or a channel; the reader makes, moves and removes
users, and `OnUserChange` copies the settings of their name to them. `live` is what a user has,
`entries` what the settings have, `file` what is on disk; `ui` and `event` are how far the user
interface and the callback are, because each takes `Config.mu` and the state lock more than once.
`SaveWrite`, `SaveRename`, `SaveFails` are the steps of one save, and `Crash` may come between them. `shown`
is what the tree shows, `queue` the rebuilds that wait. A new user has boost 0 (`Bare`), which `UpdateUser` makes 1
(`Applied`); one subtracted from it in an unsigned number is `Wild`.

A user who has left has no client. `UpdateUser` looks at that and lets him be; `ToggleMute` and `UpdateConfig` do not, so a
key on the line of somebody who has left, or of a channel whose users leave before their turn, ends the program
with a nil pointer (`Panic`), and the next start reads the file (`Restart`). That is `KeysSurvive` below; the four
properties of the run hold through it, with no exception for it.

A rebuild asks for one channel after the other and stops at `maxTreeLines` (`CutRebuild`). The other limit of the
tree, 64 levels, is not reached: `Channels` is the list the rebuild goes through, and lists that nest deeper
are not among those the model is about.

The run has two names, two channels, two users made, one move, two keys (of which a kill takes one), a file that is
fresh or has entries with no volume, and three lines, which two channels and two users do not fit: a user who
comes back under the same name, two users a key treats in turn, a key that comes while the
reader is half through, a list that is cut. `failed` and `missed` remember what the properties except: a
save that failed, a rebuild the full queue dropped or `maxTreeLines` cut.
Everything may come to rest, so deadlock is not checked. Not in a property: a volume is
overwritten when `UpdateUser` runs between `SetVolume` and `UpdateConfig`, `makeUsersArray` reads
`Channel.Users` without the lock, and a settings file that cannot be read is taken for an empty one,
which the next save replaces.

## What is checked

Each property and what it means is stated above its definition; `PROJECT.json` lists, for each
property of a run, the mutant that breaks it. All runs pass.

| run | distinct states | checks |
|---|---|---|
| `reconnect` | 250 000 | `StreamsOwned`: no stream is orphaned or used after `Destroy`; `OneReconnectLoop`; `AppAgrees`: connected means usable, quitting stops dialling; `Recovers`: a failure outside a `connect()` is recovered from; `ClosedClientEnds`: no reader outlives its connection |
| `rpwmutex` | 740 | `ImplementsRwLock`: each step is a step of `RwLock`; `ReadersGetIn`: whoever asks to read gets in, also past a waiting writer |
| `udptransport` | 670 000 | `WireInOrder`: IVs, keys and audio frames leave in order; `MessagesAreWhole` on the TCP connection; `RoutinesEnd`; and the assumptions about `WireFormat` |
| `cryptwindow` | 68 000 | `WindowFollows`: the window follows the newest packet, keeps up, accepts late ones; `NoReplay` |
| `audiostreams` | 280 000 | `ChannelsAreSound`: no send on a closed channel, none open that nobody wants; `StreamsStartOnce`; `PlayersEnd` |
| `receive` | 840 000 | `HeardInOrder`: in order and once while the talker keeps his numbering; `OnlyRestartsResync`; `SilenceIsShort`: a talker who starts to number again is soon heard; `EndsWhenClosed` |
| `playback` | 130 000 | `AllReleased`: nothing stays open after `Destroy` but in the excused cases; `GainFollows`; `StopTellsTheTruth`; `CallsReturn` |
| `recording` | 63 000 | `EncodersOwned`: no ffmpeg is orphaned, and the stream feeds the installed one; `RecordingIsLawful`: prohibitions are obeyed, nobody records without the server showing it, none outlives the connection |
| `transmit` | 110 000 | `CaptureOwned`: no device is closed under its capture goroutine; `OnAirIsCapturing`; `PlayerHasOneWorker`; `CommandsReturn` |
| `world` | 265 000 | `CyclesAreLong`, `MapsAgree`: whatever the server sends; `PictureIsWhole`, `NoticesAreRight`: with a lawful one |
| `admin` | 1 050 000 | `MenuAgrees`: Enter does what the menu shows; `ActsOnMembers`: what the menu sends is about members; `ActionsHaveClients`: and asks no removed object for its client |
| `settings` | 6 200 000 | `FileIsWhole`, `SavedIsCurrent`, `UsersFollowSettings`, `ListCatchesUp` |

All are explored completely. The bounds and why the cases happen inside them are given with
each module above; every action of every module fires in its run. An action property that
speaks of a packet, a message or a frame is about steps the run takes: its mutant finds them.

### What the code does not keep

These promises of comments, documents and tests were met while modelling and are refuted by what
the code does. They stay defined in the modules, with the words they come from, and have no run
of their own; to see one, name it in a copy of the module's `.cfg`, as an `INVARIANT`, or as a
`PROPERTY` where it is an action or temporal property. A condition in the first column is a value to
change in that copy.

| property | promise | what happens |
|---|---|---|
| `Reconnect!DisconnectIsRetried` | `client.go:264` | a disconnect that lands while the loop that made the connection has not reset its flag is never followed by a reconnect |
| `Reconnect!CleanupReleasesFirst` | `barnard.go:102-104` | `connect()` installs the stream of a client whose disconnect has already been cleaned up |
| `Reconnect!FailedDialIsNotPublished` | `gumble/gumble/client.go:124-126` | the timer of a dial wins against a synchronisation that `OnConnect` has published |
| `UdpTransport!TunnelHeardWithoutUdp` | `udp_fallback_regression_test.go:5-6` | one failed read ends the UDP reader, `udpActive` stays set, and tunnelled audio is ignored from then on |
| `UdpTransport!AudioWaitsForProof` | `udp15.go:714-715` | audio goes out by UDP as soon as there are keys, proof or not |
| `UdpTransport!ReaderStarts` | `gumble/gumble/client.go:211-212` | CryptSetup handled before the socket is published starts no reader, ever |
| `UdpTransport!FrameNumbersAreTimestamps` (`FrameStep = 2`) | `udp15.go:816` | frame numbers count packets |
| `CryptWindow!LateAccepted` | `udp15.go:290` | a late packet from before a wrap of the low byte is tried with the wrong IV |
| `CryptWindow!NoReplayAtAll` (`FirstIV = 0`) | `udp15_test.go:227-228` | a zero byte in `history` is no history |
| `AudioStreams!OneDecoderAtATime` | `handlers.go:88-89` | both readers hold the lock as readers, so both can be inside the decoder of one user |
| `AudioStreams!NoOrphanSource` | `stream.go:411-412` | a stream announced after `Destroy` has waited leaves its source behind |
| `Receive!HeldIsHeard` | `stream.go:570-571` | playing starts at the first packet that came, not at the lowest held; what was held before it is discarded |
| `Playback!HeardOnce` | none: what listeners expect | a source that ran dry is played again with the buffers it has played still queued |
| `Recording!NoCrash` | `recording_control.go:45` | `/record` between the removal of the user and the end of the connection dereferences a nil client |
| `Recording!ServerAgrees` | `README.md:78` | start, stop, start: the server goes on showing a recording nobody makes |
| `Recording!RecorderIsFed` | `README.md:77` | a recorder confirmed while `connect()` opens its stream is never attached to it |
| `Transmit!MicFollowsTx` | `README.md:67` | automatic transmission and the talk key, or a reconnect during the talk key, leave a capture no command stops |
| `Transmit!StereoEndsWithFile` | `client.go:123` | the error of a worker that fails at once is handled before `/file` turns the stereo encoder on |
| `Transmit!NewFileStartsFresh` | none: what listeners expect | the last frames of a file that ended are heard at the start of the next |
| `World!Acyclic` | `handlers.go:496-499` | a server that nests more than `maxChannelDepth + 1` channels can close a cycle of them, which `isChannelDescendant` does not see |
| `Admin!PromptsActOnMembers` | `admin.go:563-565` | a prompt left by one menu checks the targets of the next, and sends about somebody who has left, or panics for want of his client |
| `Admin!KeepsRunning` | `admin.go:563-565` | the targets are looked at before an action, not before the menu is built again: for a channel that has left, `adminCanChannel` and `RequestPermission` ask a nil client (`admin.go:88`, `admin.go:175`, `client.go:575-591`) |
| `Admin!OtherBansStay` (`Bans = {b1, b2}`) | `gumble/gumble/bans.go:11-14` | a manual ban sends the list fetched earlier, or an empty one, and lifts the bans of others |
| `Settings!MutedChannelsMute` | `client.go:347` | a user who joins while the channel is being muted is not muted |
| `Settings!KeysSurvive` | `user_config.go:419` looks for the client | `user_config.go:306` and `434` do not: a mute or volume key on a user who has left ends the program |
| `Settings!LevelsAreSet` | none: what the keys can set | boost 0 wraps around when one is subtracted, and what comes of it is stored |

## What is proved

All theorems hold for every value of the constants that satisfies the modules'
assumptions; TLC checks the properties they state on the instances above.

* `ReconnectProofs!SingleLoop`. The inductive invariant `LoopInv` adds that
  `b.reconnecting` is set while any loop is not idle; a step of `connect()` moves one
  goroutine that was not idle (`ConnectMoves`), and only `StartReconnect` wakes a loop, after
  testing the flag.
* `ReconnectProofs!AppKnows` (`AppAgrees`), from `LifeInv` and `QuitInv`. Unless a failure hits a
  `connect()` under way, one goroutine connects at a time and the client the application may talk to
  is the one it dialed (`OneAtATime`), `ConnectProgress` says what each step of `connect()` has
  behind it, and `ConnectedInv` that who believes he is connected is, or is being told otherwise. After
  quitting, whoever had looked before dials once.
* `ReconnectProofs!NoOrphans`, `NoUseAfterDestroy` and, of both, `StreamsAreOwned`, from
  `StreamInv`. `NoOrphanStream` is not inductive: it needs that no two goroutines share a dial
  (`DialsAreFresh`), that a stream is made once and is open while held (`StreamStages`), and that a
  stream taken out of `b.Stream` belongs to one goroutine, is open, and is nobody's else
  (`ReplacedIsOwned`). One lemma for steps that change none of it, one for moves that hold no
  stream, then one step per remaining action.
* `RpwMutexProofs!Exclusion` and `Implements`. `LockInv` relates the count `n` to the set of
  pairs of goroutine and nesting that it counts, says who holds `r` in which step, and that
  `w` is locked exactly when a writer writes or a counted reader has got past the first. The
  refinement maps each action to a step of `RwLock` or to a stutter under that invariant.
* `UdpTransportProofs!WholeMessages` and `PacketsInOrder`. Both are action properties; the
  invariant says who may write. `MessageInv`: whoever is in the middle of a message holds the mutex
  of the connection, and the connection is in the middle of that message or torn. `PacketInv`: a
  writer between encryption and write holds `udpWriteMu` and the key in use, and neither the wire nor the last frame is
  ahead of what he is about to send.
* `UdpTransportProofs!NothingReplayed` (`NoReplay`) and `WindowKeepsUp` (`WindowFollows`), about
  `CryptWindow`, from `WindowInv`: `decryptIV` is the newest packet accepted, what was accepted less than a turn
  of the low byte ago is in the history (`HistoryHolds`), and an entry that counts is that of a
  packet that was accepted (`HistoryIsTrue`). The lemmas before it (`GuessInBlock` and those like it)
  are the arithmetic: when the IV guessed from one byte is the one sent. `WindowKeepsUp` supposes
  `MaxSent <= LowValues * HighValues`, 65536 packets in the code, for the reason given above.
* `AudioStreamsProofs!SoundChannels` and `OneStart`. `ChannelInv` says that the list holds the
  attached streams once each, that a channel is open exactly while its stream maps the user, that
  a stream maps a user only while it is attached and the user is there, and that a reader inside the
  lock handles a user who is there; `OnceInv` adds that a closed channel has lost its stream or its
  user for good, and that two deliveries that announce a channel are never under way.
* `RecordingProofs!RecordersAreOwned`, from `HoldersInv`: no recorder is being started while one is
  installed, and either goroutine holds one only while it stops or installs it. `Lawful`, from
  `LawInv`: of the reports under way the last says what the server thinks, a prohibition under
  way or handled will stop the recorder, and what runs has been confirmed or is about to be stopped.
* `TransmitProofs!DeviceOutlivesRoutine`, from `CaptureInv`: a routine that captures is the
  stream's, or somebody waits for its end; while the stream is replaced none captures.
  `OneWorker`, from `PlayerInv`: the lock of the files, with who holds it, keeps workers apart.
  `OnAirCaptures` (`OnAirIsCapturing`), from `OnAirInv`: a source that is installed captures for its
  stream and has not been told to stop, the terminal's goroutine holds the lock of the files only while the
  connection's is where a player may be installed, and `TxHonest` says at which steps of either
  goroutine `tx` stands for a capture, at which it is false, and at which it is about to change.
* `TransmitProofs!VoiceInOrder` (`HeardInOrder`) and `RestartsAreReal` (`OnlyRestartsResync`), about
  `Receive`, from `ReceiveInv`, assuming `PathsAgree`. A restart shows when a frame comes a jump or
  more before the expected one, and each part of the invariant excludes that within a numbering, from the network to the ear: a
  packet on its way is as near to the talker's frame as its place among those sent (`NetworkOK`), so near to
  all that came; what waits in `out`, `channel` and `buffer` is `Near` all that came before it
  (`InOrder`), and so would be the first frame concealed (`UserNear`). `Concealed` is the
  arithmetic of a gap, `Burst` what one packet makes the reader hand on. `Expected` relates `next` to what
  was heard. `SilenceEnds` (`SilenceIsShort`), from `ShortInv` besides: all but the first few packets
  discarded lie within a jump before `next`, at places one packet apart (`Placed`), and
  `ShortIsShort` counts those.
* `PlaybackProofs!DestroyReleases`, from `ReleaseInv`: as long as `Destroy` waits for the streams the
  renderer runs what they ask for, so a goroutine that ends has deleted its source (`Serves`,
  `StreamsReleased`); the source of the file needs the file and the context, and `Player.Stop` comes
  before the context is destroyed (`FileReleased`); the devices are closed in order (`InOrder`).
  `StopIsHonest`, from `EncoderInv`: the recorder's goroutine leaves ffmpeg only when it has ended,
  and has kept how. `GainReachesSource` (`GainFollows`) and `NoBufferLost`, which no run lists, from
  `SourceInv`: the buffers of a source are queued or empty, no more are played than queued, and a source that plays
  has one left to play.
* `WorldProofs!CyclesStayLong` (`CyclesAreLong`) for any number of channels, whatever the server sends, and with it
  `SmallServersHaveTrees`: `Acyclic`, if there are no more than `MaxDepth + 1` channels. With the types of `parent`
  and `channelOf` it is inductive, so it needs no strengthening. `MoveClosesNoShortCycle` is
  the argument: a cycle the move closes goes through the moved channel and its new parent. If it is short, the
  channels of it that the old parents reach from the new one never include the moved channel, which was looked
  for as far as they go, so they are closed under the old parents and were a short cycle before; `LongWalksGoRound` is the
  pigeon-hole in it.
* `WorldProofs!MapsStayTrue`: `MapsAgree` for any number of channels, users and links and whatever the
  server sends. The invariant `MapInv` adds to it that a number leads to an object that has it, so that
  no two numbers lead to one object, and that an object never made is bare. `RelinkKeepsMutual` is the heart:
  links set, cleared and removed from one end stay mutual; `ChannelRemove` clears the removed
  channel from the channels it links to, which are all that link to it.
* `WorldProofs!PictureStaysWhole` (`PictureIsWhole`) and `AnnouncementsAreRight` (`NoticesAreRight`),
  from `PictureInv`, which adds to `MapInv` what a lawful server gives: every known channel hangs in the tree
  (`Rooted`), every user is in a known channel that lists it (`Housed`), and, once synchronised, the
  application remembers everybody where they are (`Recalled`).
* `RpwMutexProofs!MenuIsRight` (`MenuAgrees`), `ActionsHitMembers` (`ActsOnMembers`) and `ActionsFindClients`, about `Admin`, whose
  actions run under that lock; from `AdminInv`. An action about a user or channel is about a target of the
  menu, which does not change while it runs, and in the connection it began in that target is there
  (`DoingOK`), because the reader waits for the lock; what has lost its client is no member any more (`MembersOK`), so the
  target has kept it, and no handler of the next connection takes it away, where it is no member either (`ActionsFindClients`,
  which is `ActionsHaveClients`); a prompt is about a target unless the menu was opened
  again (`PromptOK`); answers are lists of the kind the menu is built from (`ListsOK`).
* `ReconnectProofs!FileStaysWhole`, `ChangesAreSaved`, `UsersFollow` and `ListIsRight` (`FileIsWhole`, `SavedIsCurrent`,
  `UsersFollowSettings`, `ListCatchesUp`), about `Settings`, from `SettingsInv`: what differs from the file is saved when
  the keys are done (`Unsaved`); no two users here have one name, and only one whose change is not yet
  heard of or whose volume is not yet stored differs from his entry (`Followed`), and what is about to be stored has a volume (`Stored`); the lines of the channels a rebuild
  has asked for are right unless another is queued or was dropped, or this one was cut short (`ListInv`). Supposed of the
  constants: no channel is listed twice, `Torn` is no file that can be read, and `Nobody` is no channel and no task.

Every safety property a run checks is now the subject of a theorem. Only model-checked is all liveness
(`Recovers`, `ClosedClientEnds`, `ReadersGetIn`, `RoutinesEnd`, `PlayersEnd`, `EndsWhenClosed`,
`CallsReturn`, `CommandsReturn`), which TLAPS does not reach, and what recursion
computes (`WireFormat`). Each inductive invariant was checked by TLC on the instance of its run, and
that of `Receive` on larger ones (reach 2, two restarts, packets of two units), before it was proved. Next would be an
abstract specification of the connection (up, lost, being dialed, given up) that `Reconnect` implements step by
step where nothing disturbs it, for which `LifeInv` is the invariant.

## Not modelled

Floating-point signal processing (`audio/`, `noise/`), the ciphers, Opus and OpenAL
themselves, drawing and cursor movement of the terminal widgets, generated protocol
messages, logging, command-line examples, the tone test, and `gumbleffmpeg`, which no part of the
program starts. The notification runner and the command FIFO move lines from one channel to one
other. In parts that are modelled: statistics of pings, names, comments, text messages and
permissions of users and channels, registered users, hot keys and the server list. `PROJECT.json` lists
them under `components` with the reason for each.

Not among the hazards, because they need a server or a command line out of the ordinary: a second
ServerSync closes the connect channel again (`handlers.go:404`), the talk
key and a disconnect may both close the channel that stops the tone test (`client.go:237`), `tcpPacketsReceived` is counted without a lock, and the UI reads `client.permissions` where no lock
protects it (`channel.go:175`).
