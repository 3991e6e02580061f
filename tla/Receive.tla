------------------------------ MODULE Receive -------------------------------
(***************************************************************************)
(* What one user says, from the network to the loudspeaker: the gap and    *)
(* terminator handling of the two decoding paths (dispatchOpus15 with      *)
(* decodeAndDispatch, and the older format in handleUDPTunnel), the        *)
(* channel of the user's audio stream, and the jitter buffer in the        *)
(* goroutine that OnAudioStream starts.                                    *)
(*                                                                         *)
(* A packet is what a talker sends: its place in what was said (id), the   *)
(* numbering it belongs to (a talker that changes its device starts to     *)
(* number from zero), its frame number in units of 10 ms, and whether it   *)
(* carries voice and ends the burst. The network loses packets and lets    *)
(* one be overtaken by at most Reach others, the receive window of         *)
(* CryptWindow. Sound itself is left out, and so is what processAudioPacket*)
(* does to it: a packet handed to it is heard.                             *)
(***************************************************************************)
EXTENDS Integers, FiniteSets, SequencesExt

CONSTANTS
  Paths,      \* of "dispatchOpus15" and "handleUDPTunnel": those this server uses
  Step,       \* units of 10 ms in a packet of this talker
  Reach,      \* how far a packet may fall back among those sent
  Capacity,   \* buffer of the stream's channel: Config.Buffers
  Delay,      \* Config.IncomingAudioBuffer, in units
  MaxPackets, \* jitterMaxPackets: 50 in the code
  LateResync, \* jitterLateResync: 5 in the code
  ResyncJump, \* jitterResyncJump: 100 in the code, the bound of a gap in decoding too
  FirstFrames,\* frame numbers a talker may begin with
  MaxSent,    \* bound: packets the talker sends
  MaxRestarts,\* bound: times it starts its numbering again
  MaxMutes    \* bound: times the user is muted or unmuted here

ASSUME ReceiveAssumption ==
  /\ Paths \subseteq {"dispatchOpus15", "handleUDPTunnel"}
  /\ Step \in Nat \ {0} /\ Reach \in Nat /\ Capacity \in Nat \ {0} /\ Delay \in Nat
  /\ MaxPackets \in Nat \ {0} /\ LateResync \in Nat \ {0}
  /\ ResyncJump \in Nat /\ ResyncJump > (Reach + 1) * Step
  /\ FirstFrames \subseteq Nat /\ {MaxSent, MaxRestarts, MaxMutes} \subseteq Nat

VARIABLES
  talker,  \* of the talker: packets sent, numbering, next frame number
  network, \* the packets on their way
  user,    \* audioSequenceValid, audioSequence and audioFrameStep of the user
  out,     \* packets the reader has still to hand to dispatchAudio
  channel, \* e.C
  closed,  \* e.C is closed: the user left, or the stream was detached
  muted,   \* LocallyMuted, and how often it may still change
  at,      \* the goroutine: "wait", "drain", "closing", "ended"
  buffer,  \* jitterBuf
  next,    \* jitterNextSeq
  phase,   \* "empty", jitterInit: "held", jitterStarted: "started"
  lateRun, \* jitterLateRun
  heard,   \* history: the last packet heard since the last terminator
  silence  \* history: the voice of his numbering discarded as late since anything was played

network_ == <<talker, network>>
reader == <<user, out>>
jitter == <<at, buffer, next, phase, lateRun>>
history == <<heard, silence>>
receiveVars == <<talker, network, user, out, channel, closed, muted, at, buffer, next, phase,
          lateRun, heard, silence>>

Nothing == [kind |-> "none", id |-> 0, epoch |-> 0, seq |-> 0]
Terminator == [Nothing EXCEPT !.kind = "terminator"]

ReceiveInit ==
  /\ \E f \in FirstFrames : talker = [sent |-> 0, epoch |-> 1, frame |-> f]
  /\ network = {}
  /\ user = [valid |-> FALSE, seq |-> 0, step |-> 0]
  /\ out = <<>> /\ channel = <<>> /\ closed = FALSE
  /\ muted = [now |-> FALSE, left |-> MaxMutes]
  /\ at = "wait"
  /\ buffer = <<>> /\ next = 0 /\ phase = "empty" /\ lateRun = 0
  /\ heard = Nothing /\ silence = {}

-----------------------------------------------------------------------------
(* The talker and the network                                              *)

Kinds == {"voice", "last", "end"} \* voice, voice that ends the burst, only the end

\* The goroutine runs a round of its loop between two receives. It reads nothing
\* the others write there, so they are taken to move before the round or after it.
BetweenRounds == at \in {"wait", "ended"}

\* The packets that may still come, once n have been sent.
StillComing(packets, n) == {p \in packets : p.id >= n - Reach}

Talk(kind) ==
  /\ BetweenRounds /\ out = <<>> /\ ~closed
  /\ talker.sent < MaxSent
  /\ talker' = [talker EXCEPT !.sent = @ + 1, !.frame = @ + Step]
  /\ network' = StillComing(network, talker.sent + 1) \cup
       {[kind |-> kind, id |-> talker.sent + 1, epoch |-> talker.epoch, seq |-> talker.frame]}
  /\ UNCHANGED <<channel, closed, muted, reader, jitter, history>>

\* "Mumble destroys and recreates AudioInput": no terminator is sent.
Renumber ==
  /\ BetweenRounds /\ out = <<>> /\ ~closed
  /\ talker.epoch <= MaxRestarts /\ 0 < talker.sent /\ talker.sent < MaxSent
  /\ talker' = [talker EXCEPT !.epoch = @ + 1, !.frame = 0]
  /\ silence' = {}
  /\ UNCHANGED <<network, channel, closed, muted, reader, jitter, heard>>

\* p comes out of the network. A packet that never does is lost.
Comes(p) ==
  /\ BetweenRounds /\ out = <<>> /\ ~closed
  /\ network' = network \ {p}
  /\ UNCHANGED <<talker, channel, closed, muted, jitter, history>>

-----------------------------------------------------------------------------
(* The reader                                                              *)

Gap(p) == p.seq - user.seq

Duplicate(p) == user.valid /\ Gap(p) = 0

\* A concealed packet stands in the numbering of the packet that shows the gap.
Conceal(p, frames) ==
  [i \in DOMAIN frames |-> [kind |-> "plc", id |-> 0, epoch |-> p.epoch, seq |-> frames[i]]]

\* missingAudioPackets, and the frame numbers given to dispatchPLC15.
Missing15(p) ==
  LET step == IF user.step < 1 THEN 1 ELSE user.step IN
  IF user.valid /\ Gap(p) > step /\ Gap(p) < ResyncJump /\ Gap(p) % step = 0
  THEN [i \in 1 .. Gap(p) \div step - 1 |-> user.seq + i * step]
  ELSE <<>>

\* One call of dispatchPLC for every frame number that is missing.
MissingTunnel(p) ==
  IF user.valid /\ Gap(p) > 1 /\ Gap(p) < ResyncJump
  THEN [i \in 1 .. Gap(p) - 1 |-> user.seq + i]
  ELSE <<>>

Missing(p, path) == IF path = "dispatchOpus15" THEN Missing15(p) ELSE MissingTunnel(p)

Voice(p) == <<[p EXCEPT !.kind = "voice"]>>
Ending(p) == IF p.kind = "voice" THEN <<>> ELSE <<Terminator>>

\* The burst is over: the next packet is not compared with this one.
Forget(p) == [valid |-> p.kind = "voice", seq |-> p.seq, step |-> IF p.kind = "voice" THEN Step ELSE 0]

\* dispatchOpus15 with no voice: the end of the burst alone.
EndOfBurst(p) ==
  /\ Comes(p) /\ p.kind = "end"
  /\ user' = [user EXCEPT !.valid = FALSE, !.step = 0]
  /\ out' = <<Terminator>>

Repeated(p) ==
  /\ Comes(p) /\ Duplicate(p)
  /\ UNCHANGED <<user, out>>

\* Decoding succeeds. The decoder may or may not conceal.
Decoded(p, path) ==
  /\ Comes(p) /\ ~Duplicate(p)
  /\ p.kind # "end" \/ path = "handleUDPTunnel"
  /\ \E frames \in {Missing(p, path), <<>>} :
       out' = Conceal(p, frames) \o Voice(p) \o Ending(p)
  /\ user' = Forget(p)

\* Decoding fails, as it does without voice. handleUDPTunnel has noted the frame
\* number by then.
Undecodable(p, path) ==
  /\ Comes(p) /\ ~Duplicate(p)
  /\ p.kind # "end" \/ path = "handleUDPTunnel"
  /\ \E frames \in {Missing(p, path), <<>>} : out' = Conceal(p, frames)
  /\ user' = IF path = "dispatchOpus15" THEN user
             ELSE [user EXCEPT !.valid = TRUE, !.seq = p.seq]

Arrive(p, path) ==
  \/ path = "dispatchOpus15" /\ EndOfBurst(p)
  \/ (p.kind # "end" \/ path = "handleUDPTunnel") /\ Repeated(p)
  \/ Decoded(p, path) \/ Undecodable(p, path)

\* dispatchAudio: what does not fit is dropped, a terminator like any other.
Dispatch ==
  /\ BetweenRounds /\ out # <<>>
  /\ out' = Tail(out)
  /\ channel' = IF Len(channel) = Capacity THEN channel ELSE Append(channel, Head(out))
  /\ UNCHANGED <<user, closed, muted, network_, jitter, history>>

\* handleUserRemove or Detach.
Close ==
  /\ BetweenRounds /\ out = <<>> /\ ~closed /\ closed' = TRUE
  /\ UNCHANGED <<channel, muted, network_, reader, jitter, history>>

Mute ==
  /\ BetweenRounds /\ ~closed /\ muted.left > 0
  /\ muted' = [now |-> ~muted.now, left |-> muted.left - 1]
  /\ UNCHANGED <<channel, closed, network_, reader, jitter, history>>

-----------------------------------------------------------------------------
(* The jitter buffer                                                       *)

\* insertSorted
Insert(p) ==
  IF Len(buffer) >= MaxPackets \/ \E b \in Range(buffer) : b.seq = p.seq
  THEN UNCHANGED buffer
  ELSE \E k \in 0 .. Len(buffer) :
         /\ \A i \in DOMAIN buffer : i <= k <=> buffer[i].seq < p.seq
         /\ buffer' = InsertAt(buffer, k + 1, p)

Duration(b) == Len(b) * Step

Take ==
  /\ at = "wait" /\ channel # <<>>
  /\ channel' = Tail(channel)
  /\ UNCHANGED <<closed, muted, network_, reader>>

\* resetJitter
HearTerminator ==
  /\ Take /\ Head(channel) = Terminator
  /\ buffer' = <<>> /\ next' = 0 /\ phase' = "empty" /\ lateRun' = 0
  /\ heard' = Nothing /\ silence' = {}
  /\ UNCHANGED at

SkipMuted ==
  /\ Take /\ Head(channel) # Terminator /\ muted.now
  /\ UNCHANGED <<jitter, history>>

\* A packet goes into the buffer. Once Delay is buffered, playing starts, and
\* the buffer is drained at every packet from then on.
Keep ==
  /\ Take /\ Head(channel) # Terminator /\ ~muted.now
  /\ Insert(Head(channel))
  /\ next' = IF phase = "empty" THEN Head(channel).seq ELSE next
  /\ LET ready == phase = "started" \/ Duration(buffer') >= Delay IN
     /\ phase' = IF ready THEN "started" ELSE "held"
     /\ at' = IF ready THEN "drain" ELSE "wait"
  /\ UNCHANGED <<lateRun, history>>

Draining == at = "drain" /\ buffer # <<>>

\* Mutant: the frame that was just played is expected again.
PlayNext_Again ==
  /\ Draining /\ Head(buffer).seq = next
  /\ buffer' = Tail(buffer) /\ next' = Head(buffer).seq /\ lateRun' = 0
  /\ heard' = Head(buffer) /\ silence' = {}
  /\ UNCHANGED <<channel, closed, muted, at, phase, network_, reader>>

\* popNext finds the packet that is due: processAudioPacket plays it.
PlayNext ==
  /\ Draining /\ Head(buffer).seq = next
  /\ buffer' = Tail(buffer) /\ next' = Head(buffer).seq + Step /\ lateRun' = 0
  /\ heard' = Head(buffer) /\ silence' = {}
  /\ UNCHANGED <<channel, closed, muted, at, phase, network_, reader>>

\* Mutant: late packets are taken for a restart however little they are late.
Restarted_Near(run) == run >= LateResync

Restarted(run) == run >= LateResync /\ next - Head(buffer).seq >= ResyncJump

Late == Draining /\ Head(buffer).seq < next

\* jitterShouldResync: the talker started its numbering again.
Resync ==
  /\ Late /\ Restarted(lateRun + 1)
  /\ next' = Head(buffer).seq /\ lateRun' = 0
  /\ UNCHANGED <<channel, closed, muted, at, buffer, phase, network_, reader, history>>

\* What the talker says now: no concealment, nothing of a numbering he left.
Spoken(p) == IF p.kind = "voice" /\ p.epoch = talker.epoch THEN {p.id} ELSE {}

\* Mutant: the run of late packets is not counted.
DiscardLate_Uncounted ==
  /\ Late /\ ~Restarted(lateRun + 1)
  /\ buffer' = Tail(buffer)
  /\ silence' = silence \cup Spoken(Head(buffer))
  /\ UNCHANGED <<channel, closed, muted, at, next, phase, lateRun, heard, network_, reader>>

DiscardLate ==
  /\ Late /\ ~Restarted(lateRun + 1)
  /\ lateRun' = lateRun + 1
  /\ buffer' = Tail(buffer)
  /\ silence' = silence \cup Spoken(Head(buffer))
  /\ UNCHANGED <<channel, closed, muted, at, next, phase, heard, network_, reader>>

\* Mutant: the packet that is missing is waited for.
SkipAhead_Waits ==
  /\ Draining /\ Head(buffer).seq > next
  /\ UNCHANGED receiveVars

SkipAhead ==
  /\ Draining /\ Head(buffer).seq > next
  /\ next' = Head(buffer).seq
  /\ UNCHANGED <<channel, closed, muted, at, buffer, phase, lateRun, network_, reader, history>>

Drained ==
  /\ at = "drain" /\ buffer = <<>>
  /\ at' = "wait"
  /\ UNCHANGED <<channel, closed, muted, buffer, next, phase, lateRun, network_, reader, history>>

\* The channel is closed and empty.
StartClosing ==
  /\ at = "wait" /\ closed /\ channel = <<>>
  /\ at' = "closing"
  /\ UNCHANGED <<channel, closed, muted, buffer, next, phase, lateRun, network_, reader, history>>

\* The rest is played, whatever its frame numbers.
PlayRest ==
  /\ at = "closing" /\ buffer # <<>>
  /\ buffer' = Tail(buffer) /\ next' = Head(buffer).seq + Step
  /\ heard' = Head(buffer) /\ silence' = {}
  /\ UNCHANGED <<channel, closed, muted, at, phase, lateRun, network_, reader>>

\* The source and the buffers are deleted.
End ==
  /\ at = "closing" /\ buffer = <<>>
  /\ at' = "ended"
  /\ UNCHANGED <<channel, closed, muted, buffer, next, phase, lateRun, network_, reader, history>>

Jitter ==
  \/ HearTerminator \/ SkipMuted \/ Keep
  \/ PlayNext \/ Resync \/ DiscardLate \/ SkipAhead \/ Drained
  \/ StartClosing \/ PlayRest \/ End

Done == at = "ended" /\ UNCHANGED receiveVars

ReceiveNext ==
  \/ \E k \in Kinds : Talk(k)
  \/ Renumber
  \/ \E p \in network, path \in Paths : Arrive(p, path)
  \/ Dispatch \/ Close \/ Mute \/ Jitter \/ Done

ReceiveSpec == ReceiveInit /\ [][ReceiveNext]_receiveVars

ReceiveFairSpec == ReceiveSpec /\ WF_receiveVars(Jitter)

-----------------------------------------------------------------------------
(* Properties                                                              *)

Packets == [kind : Kinds \cup {"plc", "terminator", "none"}, id : 0 .. MaxSent,
            epoch : 0 .. MaxRestarts + 1, seq : Int]

\* The buffer is sorted by frame number without repetition, within its limit,
\* and what was to be played before is not kept once playing has started.
ReceiveTypeOK ==
  /\ network \subseteq Packets
  /\ Range(out) \cup Range(channel) \cup Range(buffer) \subseteq Packets
  /\ Len(channel) <= Capacity /\ Len(buffer) <= MaxPackets
  /\ \A i, j \in DOMAIN buffer : i < j => buffer[i].seq < buffer[j].seq
  /\ at = "wait" /\ phase = "started" => buffer = <<>>

\* Between two terminators, and until the talker numbers anew, his packets are heard
\* in the order they were spoken and none is heard twice, whatever is lost, overtaken
\* or concealed (stream.go:570-571).
HeardInOrder ==
  [][heard' # heard /\ heard'.epoch = heard.epoch /\ heard.epoch = talker.epoch
     => heard'.seq > heard.seq]_receiveVars

\* The numbering is taken to have been restarted only when the talker restarted it
\* after what was heard last: packets that were merely overtaken never rewind the
\* stream (stream.go:62-65).
OnlyRestartsResync ==
  [][Resync => heard.epoch < talker.epoch]_receiveVars

\* A talker is soon heard again: of the voice of one numbering no more is discarded in
\* a row than before the restart shows, or climbs back past the stale expectation in
\* steps of one packet (stream.go:56-67).
SilenceIsShort ==
  Cardinality(silence) <= (ResyncJump + Step - 2) \div Step + LateResync - 1

\* The goroutine never spins on a packet it cannot play: once the stream is closed
\* it plays the rest, frees its buffers and ends.
EndsWhenClosed == closed ~> at = "ended"

\* "Collects incoming packets, reorders by sequence number, and releases them
\* after a small initial delay" (stream.go:570-571): a packet that was there
\* before playing started is played, even if a later one came first.
HeldIsHeard ==
  [][DiscardLate /\ heard = Nothing =>
       \E p \in Range(buffer) : p.epoch # Head(buffer).epoch]_receiveVars

=============================================================================
