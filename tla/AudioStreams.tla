---------------------------- MODULE AudioStreams ----------------------------
(***************************************************************************)
(* How incoming audio reaches the streams that play it: dispatchAudio on   *)
(* the TCP and the UDP reader, the per-user channels of each attached      *)
(* audio listener, the goroutine that OnAudioStream starts for each of     *)
(* them, handleUserRemove, and Stream.Destroy with Detach.                 *)
(*                                                                         *)
(* A listener is a gumbleopenal.Stream. The channel of a user at a         *)
(* listener is named by the two. volatile is a readers-writer lock (see    *)
(* RwLock): handleUserRemove is one step that waits until no dispatcher is *)
(* inside; each critical section of AudioListeners.mu is one step too.     *)
(***************************************************************************)
EXTENDS Naturals, SequencesExt

CONSTANTS
  Dispatchers, \* the readers: readRoutine and udpReadRoutine
  Streams,     \* the streams that will be attached
  Users,       \* the users of the connection, by *User pointer
  Outside,     \* where a dispatcher is that holds no lock
  Capacity,    \* buffer of a channel: Config.Buffers
  MaxPackets   \* bound: packets each dispatcher hands out

ASSUME StreamsAssumption ==
  /\ Outside \notin Users /\ Capacity \in Nat \ {0} /\ MaxPackets \in Nat

VARIABLES
  listeners, \* AudioListeners: the attached streams, in order
  stage,     \* each stream: "new", "attached", "draining", "drained", "destroyed"
  timedOut,  \* the streams whose Destroy stopped waiting
  present,   \* c.Users
  mapped,    \* item.streams: the users each stream has a channel for
  chan,      \* each channel: "none", "open", "closed"
  queue,     \* how many packets it holds
  player,    \* its goroutine: "none", "starting", "playing", "ended"
  source,    \* the OpenAL source and buffers of that goroutine: "none", "live"
  inside,    \* the user whose packet a dispatcher handles, under volatile.RLock
  todo,      \* deliveries of the current packet: stream, and whether it is new
  packets,   \* how many packets each dispatcher has left
  panicked   \* history: a packet was sent on a closed channel

streamVars == <<listeners, stage, timedOut>>
dispatchVars == <<inside, todo, packets>>
vars == <<listeners, stage, timedOut, present, mapped, chan, queue, player, source, inside, todo,
          packets, panicked>>

Channels == Streams \X Users

Init ==
  /\ listeners = <<>>
  /\ stage = [s \in Streams |-> "new"]
  /\ timedOut = {}
  /\ present = Users
  /\ mapped = [s \in Streams |-> {}]
  /\ chan = [c \in Channels |-> "none"]
  /\ queue = [c \in Channels |-> 0]
  /\ player = [c \in Channels |-> "none"]
  /\ source = [c \in Channels |-> "none"]
  /\ inside = [d \in Dispatchers |-> Outside]
  /\ todo = [d \in Dispatchers |-> <<>>]
  /\ packets = [d \in Dispatchers |-> MaxPackets]
  /\ panicked = FALSE

\* close(stream); delete(streams, user), for each of these channels.
CloseAndDelete(channels) ==
  /\ chan' = [c \in Channels |-> IF c \in channels THEN "closed" ELSE chan[c]]
  /\ mapped' = [s \in Streams |-> {u \in mapped[s] : <<s, u>> \notin channels}]

-----------------------------------------------------------------------------
(* The life of a stream                                                    *)

\* AttachStream puts the stream at the end of the list.
Attach(s) ==
  /\ stage[s] = "new"
  /\ stage' = [stage EXCEPT ![s] = "attached"]
  /\ listeners' = Append(listeners, s)
  /\ UNCHANGED <<timedOut, present, mapped, chan, queue, player, source, panicked, dispatchVars>>

\* Mutant: the channels are left open.
Detach_LeavesOpen(s) ==
  /\ stage[s] = "attached"
  /\ stage' = [stage EXCEPT ![s] = "draining"]
  /\ \E i \in DOMAIN listeners : listeners[i] = s /\ listeners' = RemoveAt(listeners, i)
  /\ UNCHANGED <<timedOut, present, mapped, chan, queue, player, source, panicked, dispatchVars>>

\* Destroy begins: Detach closes every channel of the stream.
Detach(s) ==
  /\ stage[s] = "attached"
  /\ stage' = [stage EXCEPT ![s] = "draining"]
  /\ \E i \in DOMAIN listeners : listeners[i] = s /\ listeners' = RemoveAt(listeners, i)
  /\ CloseAndDelete({s} \X mapped[s])
  /\ UNCHANGED <<timedOut, present, queue, player, source, panicked, dispatchVars>>

\* streamWG: the goroutines OnAudioStream has started and that have not ended.
Playing(s) == {c \in Channels : c[1] = s /\ player[c] \in {"starting", "playing"}}

\* Destroy waits for the goroutines, or until destroyDrainTimeout.
Drain(s) ==
  /\ stage[s] = "draining"
  /\ \/ Playing(s) = {} /\ UNCHANGED timedOut
     \/ timedOut' = timedOut \cup {s}
  /\ stage' = [stage EXCEPT ![s] = "drained"]
  /\ UNCHANGED <<listeners, present, mapped, chan, queue, player, source, panicked, dispatchVars>>

\* The renderer is closed: render returns false from here on.
CloseRenderer(s) ==
  /\ stage[s] = "drained"
  /\ stage' = [stage EXCEPT ![s] = "destroyed"]
  /\ UNCHANGED <<listeners, timedOut, present, mapped, chan, queue, player, source, panicked, dispatchVars>>

-----------------------------------------------------------------------------
(* The goroutine of a channel                                              *)

\* Its first command to the renderer makes the source and the buffers.
MakeSource(c) ==
  /\ player[c] = "starting"
  /\ player' = [player EXCEPT ![c] = "playing"]
  /\ source' = IF stage[c[1]] = "destroyed" THEN source ELSE [source EXCEPT ![c] = "live"]
  /\ UNCHANGED <<present, mapped, chan, queue, panicked, streamVars, dispatchVars>>

Receive(c) ==
  /\ player[c] = "playing" /\ queue[c] > 0
  /\ queue' = [queue EXCEPT ![c] = @ - 1]
  /\ UNCHANGED <<present, mapped, chan, player, source, panicked, streamVars, dispatchVars>>

\* The channel is closed and empty: the renderer deletes source and buffers.
Release(c) ==
  /\ player[c] = "playing" /\ queue[c] = 0 /\ chan[c] = "closed"
  /\ player' = [player EXCEPT ![c] = "ended"]
  /\ source' = IF stage[c[1]] = "destroyed" THEN source ELSE [source EXCEPT ![c] = "none"]
  /\ UNCHANGED <<present, mapped, chan, queue, panicked, streamVars, dispatchVars>>

-----------------------------------------------------------------------------
(* The readers                                                             *)

\* Mutant: the user is looked up, and then the lock is taken.
Enter_LooksUpFirst(d, u) ==
  /\ inside[d] = Outside
  /\ inside' = [inside EXCEPT ![d] = u]
  /\ UNCHANGED <<present, mapped, chan, queue, player, source, todo, packets, panicked, streamVars>>

\* handleUDPTunnel or dispatchOpus15 finds the sender under volatile.RLock.
Enter(d, u) ==
  /\ inside[d] = Outside /\ u \in present /\ packets[d] > 0
  /\ inside' = [inside EXCEPT ![d] = u]
  /\ UNCHANGED <<present, mapped, chan, queue, player, source, todo, packets, panicked, streamVars>>

\* The first half of dispatchAudio, under mu: the channel at every listener,
\* made where it is missing.
Collect(d) ==
  LET u == inside[d]
      missing(s) == u \notin mapped[s] IN
  /\ u # Outside /\ todo[d] = <<>> /\ packets[d] > 0
  /\ packets' = [packets EXCEPT ![d] = @ - 1]
  /\ todo' = [todo EXCEPT ![d] =
       [i \in DOMAIN listeners |-> [stream |-> listeners[i], new |-> missing(listeners[i])]]]
  /\ chan' = [c \in Channels |->
       IF c[2] = u /\ c[1] \in ToSet(listeners) /\ missing(c[1]) THEN "open" ELSE chan[c]]
  /\ mapped' = [s \in Streams |-> mapped[s] \cup (IF s \in ToSet(listeners) THEN {u} ELSE {})]
  /\ UNCHANGED <<present, queue, player, source, inside, panicked, streamVars>>

\* listener.OnAudioStream, outside mu: streamWG.Add and the goroutine.
Announce(d) ==
  /\ todo[d] # <<>> /\ Head(todo[d]).new
  /\ player' = [player EXCEPT ![<<Head(todo[d]).stream, inside[d]>>] = "starting"]
  /\ todo' = [todo EXCEPT ![d][1].new = FALSE]
  /\ UNCHANGED <<present, mapped, chan, queue, source, inside, packets, panicked, streamVars>>

\* Mutant: the listener is known to be attached since the channels were collected.
Deliver_Unchecked(d) ==
  LET c == <<Head(todo[d]).stream, inside[d]>> IN
  /\ todo[d] # <<>> /\ ~Head(todo[d]).new
  /\ queue' = IF queue[c] < Capacity THEN [queue EXCEPT ![c] = @ + 1] ELSE queue
  /\ panicked' = (panicked \/ chan[c] = "closed")
  /\ todo' = [todo EXCEPT ![d] = Tail(@)]
  /\ UNCHANGED <<present, mapped, chan, player, source, inside, packets, streamVars>>

\* Under mu: the packet is sent if the channel is still the listener's, and
\* dropped when it is full.
Deliver(d) ==
  LET c == <<Head(todo[d]).stream, inside[d]>> IN
  /\ todo[d] # <<>> /\ ~Head(todo[d]).new
  /\ LET sent == stage[c[1]] = "attached" /\ c[2] \in mapped[c[1]] IN
     /\ queue' = IF sent /\ queue[c] < Capacity THEN [queue EXCEPT ![c] = @ + 1] ELSE queue
     /\ panicked' = (panicked \/ (sent /\ chan[c] = "closed"))
  /\ todo' = [todo EXCEPT ![d] = Tail(@)]
  /\ UNCHANGED <<present, mapped, chan, player, source, inside, packets, streamVars>>

Leave(d) ==
  /\ inside[d] # Outside /\ todo[d] = <<>>
  /\ inside' = [inside EXCEPT ![d] = Outside]
  /\ UNCHANGED <<present, mapped, chan, queue, player, source, todo, packets, panicked, streamVars>>

\* handleUserRemove, under volatile.Lock.
RemoveUser(u) ==
  /\ u \in present
  /\ \A d \in Dispatchers : inside[d] = Outside
  /\ present' = present \ {u}
  /\ CloseAndDelete({s \in ToSet(listeners) : u \in mapped[s]} \X {u})
  /\ UNCHANGED <<queue, player, source, panicked, streamVars, dispatchVars>>

\* The connection has ended and its streams are destroyed.
Ended ==
  /\ \A s \in Streams : stage[s] = "destroyed"
  /\ present = {} /\ \A d \in Dispatchers : inside[d] = Outside
  /\ UNCHANGED vars

Next ==
  \/ \E s \in Streams : Attach(s) \/ Detach(s) \/ Drain(s) \/ CloseRenderer(s)
  \/ \E c \in Channels : MakeSource(c) \/ Receive(c) \/ Release(c)
  \/ \E d \in Dispatchers :
       \/ \E u \in Users : Enter(d, u)
       \/ Collect(d) \/ Announce(d) \/ Deliver(d) \/ Leave(d)
  \/ \E u \in Users : RemoveUser(u)
  \/ Ended

Spec == Init /\ [][Next]_vars

\* Goroutines run, and Destroy finishes what it began.
Fairness ==
  /\ \A s \in Streams : WF_vars(Drain(s)) /\ WF_vars(CloseRenderer(s))
  /\ \A c \in Channels : WF_vars(MakeSource(c)) /\ WF_vars(Receive(c)) /\ WF_vars(Release(c))
  /\ \A d \in Dispatchers : WF_vars(Announce(d)) /\ WF_vars(Deliver(d)) /\ WF_vars(Leave(d))

FairSpec == Spec /\ Fairness

-----------------------------------------------------------------------------
(* Properties                                                              *)

TypeOK ==
  /\ listeners \in BoundedSeq(Streams, Cardinality(Streams))
  /\ stage \in [Streams -> {"new", "attached", "draining", "drained", "destroyed"}]
  /\ timedOut \subseteq Streams /\ present \subseteq Users
  /\ mapped \in [Streams -> SUBSET Users]
  /\ chan \in [Channels -> {"none", "open", "closed"}]
  /\ queue \in [Channels -> 0 .. Capacity]
  /\ player \in [Channels -> {"none", "starting", "playing", "ended"}]
  /\ source \in [Channels -> {"none", "live"}]
  /\ inside \in [Dispatchers -> Users \cup {Outside}]
  /\ todo \in [Dispatchers -> BoundedSeq([stream : Streams, new : BOOLEAN], Cardinality(Streams))]
  /\ packets \in [Dispatchers -> 0 .. MaxPackets]
  /\ panicked \in BOOLEAN

\* No packet is sent on a channel that Detach or handleUserRemove has closed:
\* Go would panic (handlers.go:290-304).
NoSendOnClosed == ~panicked

\* A channel is open only at an attached listener and for a user of the server:
\* nothing that ended is left for its goroutine to wait on.
OpenIsWanted == \A c \in Channels :
  chan[c] = "open" => stage[c[1]] = "attached" /\ c[2] \in present

\* Every channel is closed once, by who ends its stream, and not used afterwards.
ChannelsAreSound == NoSendOnClosed /\ OpenIsWanted

\* A user who left, or a stream that was detached, is never opened again, and no
\* channel gets a second goroutine: two would share the user's source.
StreamsStartOnce == [][\A c \in Channels :
  /\ chan[c] = "closed" => chan'[c] = "closed"
  /\ player[c] # "none" => player'[c] # "starting" \/ player[c] = "starting"]_vars

\* When a user leaves or a stream is destroyed, the goroutines end.
PlayersEnd == \A c \in Channels :
  (stage[c[1]] = "draining" \/ c[2] \notin present) ~> [](player[c] \in {"none", "ended"})

\* "Waiting for them here is what keeps the device's sources and buffers from
\* being orphaned on every reconnect" (stream.go:411-412): unless Destroy timed
\* out, it leaves no source behind.
NoOrphanSource == \A c \in Channels :
  stage[c[1]] = "destroyed" /\ c[1] \notin timedOut => source[c] = "none"

\* "Keep the user map and its decoder/sequence state stable for the entire
\* decode" (handlers.go:88-89): one reader at a time decodes for a user.
OneDecoderAtATime == \A d, e \in Dispatchers :
  d # e /\ inside[d] # Outside => inside[e] # inside[d]

=============================================================================
