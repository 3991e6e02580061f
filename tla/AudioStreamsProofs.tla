------------------------- MODULE AudioStreamsProofs -------------------------
(***************************************************************************)
(* Theorems about AudioStreams, for any number of readers, streams and     *)
(* users, and channels of any capacity.                                    *)
(***************************************************************************)
EXTENDS AudioStreams, SequenceTheorems, TLAPS

Stages == {"new", "attached", "draining", "drained", "destroyed"}

Deliveries == [stream : Streams, new : BOOLEAN]

Types ==
  /\ listeners \in Seq(Streams)
  /\ stage \in [Streams -> Stages]
  /\ mapped \in [Streams -> SUBSET Users]
  /\ chan \in [Channels -> {"none", "open", "closed"}]
  /\ inside \in [Dispatchers -> Users \cup {Outside}]
  /\ todo \in [Dispatchers -> Seq(Deliveries)]

\* The list has every attached stream once, and no other.
ListIsAttached ==
  /\ \A s \in Streams : stage[s] = "attached" <=> s \in ToSet(listeners)
  /\ \A i, j \in DOMAIN listeners : listeners[i] = listeners[j] => i = j

\* A channel is open while its stream maps the user to it.
MappedIsOpen == \A s \in Streams, u \in Users : u \in mapped[s] <=> chan[<<s, u>>] = "open"

\* A stream maps a user only while it is attached and the user is there.
MappedIsWanted == \A s \in Streams : \A u \in mapped[s] : stage[s] = "attached" /\ u \in present

\* A reader inside the lock handles a packet of a user who is there.
InsideIsPresent == \A d \in Dispatchers : inside[d] # Outside => inside[d] \in present

\* What holds of the streams, the channels and the readers in every state.
ChannelInv ==
  /\ Types /\ ListIsAttached /\ MappedIsOpen /\ MappedIsWanted /\ InsideIsPresent

invVars == <<listeners, stage, present, mapped, chan, inside, todo>>

LEMMA ChannelInvStutter == ChannelInv /\ UNCHANGED invVars => ChannelInv'
  BY DEF ChannelInv, Types, ListIsAttached, MappedIsOpen, MappedIsWanted, InsideIsPresent, invVars

LEMMA AttachKeeps ==
  ASSUME ChannelInv, NEW s \in Streams, Attach(s)
  PROVE  ChannelInv'
<1> USE DEF ChannelInv, Attach, dispatchVars
<1>1. Types'
  BY DEF Types, Stages
<1>2. ListIsAttached'
  <2>1. /\ Len(listeners') = Len(listeners) + 1
        /\ DOMAIN listeners' = 1 .. Len(listeners) + 1
        /\ \A i \in 1 .. Len(listeners) : listeners'[i] = listeners[i]
        /\ listeners'[Len(listeners) + 1] = s
    BY DEF Types
  <2>2. DOMAIN listeners = 1 .. Len(listeners) /\ Len(listeners) \in Nat
    BY DEF Types
  <2>3. s \notin ToSet(listeners)
    BY DEF ListIsAttached
  <2>4. ToSet(listeners') = ToSet(listeners) \cup {s}
    BY <2>1, <2>2 DEF ToSet
  <2>5. \A i \in DOMAIN listeners : listeners[i] # s
    BY <2>3 DEF ToSet
  <2> QED BY <2>1, <2>2, <2>4, <2>5 DEF ListIsAttached, Types
<1>3. MappedIsOpen' /\ MappedIsWanted' /\ InsideIsPresent'
  BY DEF MappedIsOpen, MappedIsWanted, InsideIsPresent, Types
<1> QED BY <1>1, <1>2, <1>3

\* RemoveAt takes one element out of the list and keeps the rest as it was.
LEMMA RemoveAtKeeps ==
  ASSUME NEW S, NEW q \in Seq(S), NEW i \in DOMAIN q,
         \A j, k \in DOMAIN q : q[j] = q[k] => j = k
  PROVE  /\ RemoveAt(q, i) \in Seq(S)
         /\ ToSet(RemoveAt(q, i)) = ToSet(q) \ {q[i]}
         /\ \A j, k \in DOMAIN RemoveAt(q, i) :
              RemoveAt(q, i)[j] = RemoveAt(q, i)[k] => j = k
<1> DEFINE n == Len(q)
           front == SubSeq(q, 1, i - 1)
           back == SubSeq(q, i + 1, n)
           r == RemoveAt(q, i)
<1>1. n \in Nat /\ DOMAIN q = 1 .. n /\ i \in 1 .. n
  OBVIOUS
<1>2. /\ front \in Seq(S) /\ Len(front) = i - 1
      /\ \A j \in 1 .. i - 1 : front[j] = q[j]
  BY <1>1
<1>3. /\ back \in Seq(S) /\ Len(back) = n - i
      /\ \A j \in 1 .. n - i : back[j] = q[i + j]
  <2>1. i + 1 \in Int /\ n \in Int /\ \A j \in i + 1 .. n : q[j] \in S
    BY <1>1
  <2>2. back \in Seq(S) /\ Len(back) = IF i + 1 <= n THEN n - (i + 1) + 1 ELSE 0
    BY <2>1, SubSeqProperties
  <2>3. \A j \in 1 .. n - (i + 1) + 1 : back[j] = q[i + 1 + j - 1]
    BY <2>1, SubSeqProperties
  <2> QED BY <2>2, <2>3, <1>1
<1> HIDE DEF front, back
<1>4. /\ r \in Seq(S) /\ Len(r) = n - 1 /\ DOMAIN r = 1 .. n - 1
      /\ \A j \in 1 .. n - 1 : r[j] = IF j < i THEN q[j] ELSE q[j + 1]
  <2>1. r = front \o back
    BY DEF RemoveAt, front, back
  <2>2. Len(r) = n - 1 /\ r \in Seq(S) /\ DOMAIN r = 1 .. n - 1
    <3>1. r \in Seq(S) /\ Len(r) = Len(front) + Len(back)
      BY <2>1, <1>2, <1>3, ConcatProperties
    <3>2. Len(r) = n - 1
      BY <3>1, <1>1, <1>2, <1>3
    <3> QED BY <3>1, <3>2
  <2> HIDE DEF n, r
  <2>3. \A j \in 1 .. Len(front) + Len(back) :
          r[j] = IF j <= Len(front) THEN front[j] ELSE back[j - Len(front)]
    BY <2>1, <1>2, <1>3, ConcatProperties
  <2>4. ASSUME NEW j \in 1 .. n - 1, j < i PROVE r[j] = q[j]
    <3>1. j \in 1 .. i - 1 /\ j \in 1 .. (i - 1) + (n - i) /\ j <= i - 1
      BY <2>4, <1>1
    <3> QED BY <3>1, <2>3, <1>2, <1>3
  <2>5. ASSUME NEW j \in 1 .. n - 1, ~(j < i) PROVE r[j] = q[j + 1]
    <3>1. r[j] = back[j - (i - 1)]
      <4>1. j \in 1 .. (i - 1) + (n - i) /\ ~(j <= i - 1)
        BY <2>5, <1>1
      <4> QED BY <4>1, <2>3, <1>2, <1>3
    <3>2. j - (i - 1) \in 1 .. n - i /\ i + (j - (i - 1)) = j + 1
      BY <2>5, <1>1
    <3> QED BY <3>1, <3>2, <1>3
  <2> QED BY <2>2, <2>4, <2>5
<1> HIDE DEF r, n
<1>5. ToSet(r) = ToSet(q) \ {q[i]}
  <2>1. ASSUME NEW j \in 1 .. n - 1 PROVE r[j] \in ToSet(q) \ {q[i]}
    <3>1. PICK k \in 1 .. n : r[j] = q[k] /\ k # i
      <4>1. CASE j < i
        BY <4>1, <1>1, <1>4
      <4>2. CASE ~(j < i)
        <5>1. j + 1 \in 1 .. n /\ j + 1 # i
          BY <4>2, <1>1
        <5> QED BY <5>1, <4>2, <1>4
      <4> QED BY <4>1, <4>2
    <3>2. q[k] # q[i]
      BY <3>1, <1>1
    <3> QED BY <3>1, <3>2, <1>1 DEF ToSet
  <2>2. ASSUME NEW j \in 1 .. n, j # i PROVE q[j] \in ToSet(r)
    <3>1. CASE j < i
      BY <3>1, <1>1, <1>4 DEF ToSet
    <3>2. CASE j > i
      <4>1. j - 1 \in 1 .. n - 1 /\ r[j - 1] = q[j]
        BY <3>2, <1>1, <1>4
      <4> QED BY <4>1, <1>4 DEF ToSet
    <3> QED BY <2>2, <3>1, <3>2, <1>1
  <2> QED BY <2>1, <2>2, <1>1, <1>4 DEF ToSet
<1>6. \A j, k \in DOMAIN r : r[j] = r[k] => j = k
  <2> SUFFICES ASSUME NEW j \in 1 .. n - 1, NEW k \in 1 .. n - 1, r[j] = r[k] PROVE j = k
    BY <1>4
  <2> DEFINE at(m) == IF m < i THEN m ELSE m + 1
  <2>1. at(j) \in 1 .. n /\ at(k) \in 1 .. n
    BY <1>1
  <2>2. r[j] = q[at(j)] /\ r[k] = q[at(k)]
    BY <1>4
  <2>3. at(j) = at(k)
    BY <2>1, <2>2, <1>1
  <2> QED BY <2>3, <1>1
<1> QED BY <1>4, <1>5, <1>6 DEF r

LEMMA DetachKeeps ==
  ASSUME ChannelInv, NEW s \in Streams, Detach(s)
  PROVE  ChannelInv'
<1> USE DEF ChannelInv
<1>1. PICK i \in DOMAIN listeners : listeners[i] = s /\ listeners' = RemoveAt(listeners, i)
  BY DEF Detach
<1>2. /\ listeners' \in Seq(Streams)
      /\ ToSet(listeners') = ToSet(listeners) \ {s}
      /\ \A j, k \in DOMAIN listeners' : listeners'[j] = listeners'[k] => j = k
  BY <1>1, RemoveAtKeeps DEF Types, ListIsAttached
<1>3. /\ stage' = [stage EXCEPT ![s] = "draining"]
      /\ chan' = [c \in Channels |-> IF c \in {s} \X mapped[s] THEN "closed" ELSE chan[c]]
      /\ mapped' = [t \in Streams |-> {u \in mapped[t] : <<t, u>> \notin {s} \X mapped[s]}]
      /\ UNCHANGED <<present, inside, todo>>
  BY DEF Detach, CloseAndDelete, dispatchVars
<1>4. Types'
  BY <1>2, <1>3 DEF Types, Stages, Channels
<1>5. ListIsAttached'
  BY <1>2, <1>3 DEF ListIsAttached, Types
<1>6. \A t \in Streams : mapped'[t] = IF t = s THEN {} ELSE mapped[t]
  BY <1>3 DEF Types
<1>7. MappedIsOpen'
  <2>1. \A t \in Streams, u \in Users :
          chan'[<<t, u>>] = IF t = s /\ u \in mapped[s] THEN "closed" ELSE chan[<<t, u>>]
    BY <1>3 DEF Channels
  <2>2. ASSUME NEW t \in Streams, NEW u \in Users
        PROVE  u \in mapped'[t] <=> chan'[<<t, u>>] = "open"
    <3>1. u \in mapped[t] <=> chan[<<t, u>>] = "open"
      BY DEF MappedIsOpen
    <3>2. CASE t = s /\ u \in mapped[s]
      BY <2>1, <1>6, <3>2
    <3>3. CASE ~(t = s /\ u \in mapped[s])
      BY <2>1, <1>6, <3>1, <3>3
    <3> QED BY <3>2, <3>3
  <2> QED BY <2>2 DEF MappedIsOpen
<1>8. MappedIsWanted' /\ InsideIsPresent'
  BY <1>3, <1>6 DEF MappedIsWanted, InsideIsPresent, Types
<1> QED BY <1>4, <1>5, <1>7, <1>8

LEMMA StageKeeps ==
  ASSUME ChannelInv, NEW s \in Streams, Drain(s) \/ CloseRenderer(s)
  PROVE  ChannelInv'
<1>1. /\ stage[s] # "attached"
      /\ \E stop \in {"drained", "destroyed"} : stage' = [stage EXCEPT ![s] = stop]
      /\ UNCHANGED <<listeners, present, mapped, chan, inside, todo>>
  BY DEF Drain, CloseRenderer, dispatchVars
<1> QED BY <1>1 DEF ChannelInv, Types, Stages, ListIsAttached, MappedIsOpen, MappedIsWanted,
                    InsideIsPresent

LEMMA RemoveUserKeeps ==
  ASSUME ChannelInv, NEW u \in Users, RemoveUser(u)
  PROVE  ChannelInv'
<1> DEFINE gone == {s \in ToSet(listeners) : u \in mapped[s]}
<1> USE DEF ChannelInv
<1>1. /\ present' = present \ {u}
      /\ \A d \in Dispatchers : inside[d] = Outside
      /\ chan' = [c \in Channels |-> IF c \in gone \X {u} THEN "closed" ELSE chan[c]]
      /\ mapped' = [s \in Streams |-> {v \in mapped[s] : <<s, v>> \notin gone \X {u}}]
      /\ UNCHANGED <<listeners, stage, inside, todo>>
  BY DEF RemoveUser, CloseAndDelete, streamVars, dispatchVars
<1>2. Types' /\ ListIsAttached' /\ InsideIsPresent'
  BY <1>1 DEF Types, ListIsAttached, InsideIsPresent
<1>3. \A s \in Streams : u \in mapped[s] => s \in gone
  BY DEF ListIsAttached, MappedIsWanted
<1> HIDE DEF gone
<1>4. \A s \in Streams : mapped'[s] = mapped[s] \ {u}
  BY <1>1, <1>3 DEF Types
<1>5. MappedIsOpen'
  <2>1. \A s \in Streams, v \in Users :
          chan'[<<s, v>>] = IF s \in gone /\ v = u THEN "closed" ELSE chan[<<s, v>>]
    BY <1>1 DEF Channels
  <2>2. ASSUME NEW s \in Streams, NEW v \in Users
        PROVE  v \in mapped'[s] <=> chan'[<<s, v>>] = "open"
    <3>1. v \in mapped[s] <=> chan[<<s, v>>] = "open"
      BY DEF MappedIsOpen
    <3>2. CASE v = u /\ s \in gone
      BY <2>1, <1>4, <3>2
    <3>3. CASE v = u /\ s \notin gone
      <4>1. v \notin mapped[s]
        BY <1>3, <3>3
      <4> QED BY <2>1, <1>4, <3>1, <3>3, <4>1
    <3>4. CASE v # u
      BY <2>1, <1>4, <3>1, <3>4
    <3> QED BY <3>2, <3>3, <3>4
  <2> QED BY <2>2 DEF MappedIsOpen
<1>6. MappedIsWanted'
  BY <1>1, <1>4 DEF MappedIsWanted
<1> QED BY <1>2, <1>5, <1>6

LEMMA CollectKeeps ==
  ASSUME ChannelInv, NEW d \in Dispatchers, Collect(d)
  PROVE  ChannelInv'
<1> DEFINE u == inside[d]
           deliveries == [i \in DOMAIN listeners |->
                            [stream |-> listeners[i], new |-> u \notin mapped[listeners[i]]]]
<1> USE DEF ChannelInv
<1>1. u \in Users /\ u \in present
  BY DEF Collect, Types, InsideIsPresent
<1>2. /\ todo' = [todo EXCEPT ![d] = deliveries]
      /\ chan' = [c \in Channels |->
           IF c[2] = u /\ c[1] \in ToSet(listeners) /\ u \notin mapped[c[1]]
           THEN "open" ELSE chan[c]]
      /\ mapped' = [s \in Streams |-> mapped[s] \cup (IF s \in ToSet(listeners) THEN {u} ELSE {})]
      /\ UNCHANGED <<listeners, stage, present, inside>>
  BY DEF Collect, streamVars
<1>3. deliveries \in Seq(Deliveries)
  <2>1. Len(listeners) \in Nat /\ DOMAIN listeners = 1 .. Len(listeners)
    BY DEF Types
  <2>2. \A i \in 1 .. Len(listeners) : listeners[i] \in Streams
    BY DEF Types
  <2>3. ASSUME NEW i \in 1 .. Len(listeners)
        PROVE  [stream |-> listeners[i], new |-> u \notin mapped[listeners[i]]] \in Deliveries
    <3>1. listeners[i] \in Streams
      BY <2>2
    <3> HIDE DEF u
    <3>2. (u \notin mapped[listeners[i]]) \in BOOLEAN
      BY Zenon
    <3> QED BY <3>1, <3>2, Zenon DEF Deliveries
  <2>4. deliveries \in [1 .. Len(listeners) -> Deliveries]
    BY <2>1, <2>3, Zenon
  <2> QED BY <2>1, <2>4
<1> HIDE DEF u, deliveries
<1>4. Types'
  BY <1>1, <1>2, <1>3 DEF Types
<1>5. MappedIsOpen'
  <2>1. \A s \in Streams, v \in Users :
          chan'[<<s, v>>] = IF v = u /\ s \in ToSet(listeners) /\ u \notin mapped[s]
                            THEN "open" ELSE chan[<<s, v>>]
    BY <1>2 DEF Channels
  <2>2. \A s \in Streams, v \in Users :
          v \in mapped'[s] <=> v \in mapped[s] \/ (s \in ToSet(listeners) /\ v = u)
    BY <1>2
  <2> QED BY <2>1, <2>2 DEF MappedIsOpen
<1>6. MappedIsWanted'
  BY <1>1, <1>2 DEF MappedIsWanted, ListIsAttached
<1>7. ListIsAttached' /\ InsideIsPresent'
  BY <1>2 DEF ListIsAttached, InsideIsPresent
<1> QED BY <1>4, <1>5, <1>6, <1>7

LEMMA ReaderKeeps ==
  ASSUME ChannelInv, NEW d \in Dispatchers,
         Announce(d) \/ Deliver(d) \/ Leave(d) \/ \E u \in Users : Enter(d, u)
  PROVE  ChannelInv'
<1> USE DEF ChannelInv, streamVars
<1>1. CASE Announce(d)
  <2>1. Len(todo[d]) \in Nat \ {0} /\ todo[d][1] \in Deliveries
    BY <1>1 DEF Announce, Types
  <2>2. [todo[d] EXCEPT ![1].new = FALSE] \in Seq(Deliveries)
    <3>1. [todo[d][1] EXCEPT !.new = FALSE] \in Deliveries
      BY <2>1 DEF Deliveries
    <3> QED BY <2>1, <3>1 DEF Types
  <2>3. /\ todo' = [todo EXCEPT ![d] = [todo[d] EXCEPT ![1].new = FALSE]]
        /\ UNCHANGED <<listeners, stage, present, mapped, chan, inside>>
    BY <1>1 DEF Announce
  <2> QED BY <2>2, <2>3 DEF Types, ListIsAttached, MappedIsOpen, MappedIsWanted, InsideIsPresent
<1>2. CASE Deliver(d)
  <2>1. Tail(todo[d]) \in Seq(Deliveries)
    BY <1>2 DEF Deliver, Types
  <2>2. /\ todo' = [todo EXCEPT ![d] = Tail(todo[d])]
        /\ UNCHANGED <<listeners, stage, present, mapped, chan, inside>>
    BY <1>2 DEF Deliver
  <2> QED BY <2>1, <2>2 DEF Types, ListIsAttached, MappedIsOpen, MappedIsWanted, InsideIsPresent
<1>3. CASE Leave(d)
  BY <1>3 DEF Leave, Types, ListIsAttached, MappedIsOpen, MappedIsWanted, InsideIsPresent
<1>4. ASSUME NEW u \in Users, Enter(d, u) PROVE ChannelInv'
  BY <1>4 DEF Enter, Types, ListIsAttached, MappedIsOpen, MappedIsWanted, InsideIsPresent
<1> QED BY <1>1, <1>2, <1>3, <1>4

LEMMA ChannelInvStep == ChannelInv /\ [Next]_vars => ChannelInv'
<1> SUFFICES ASSUME ChannelInv, [Next]_vars PROVE ChannelInv'
  OBVIOUS
<1>1. ASSUME NEW s \in Streams, Attach(s) \/ Detach(s) \/ Drain(s) \/ CloseRenderer(s)
      PROVE  ChannelInv'
  BY <1>1, AttachKeeps, DetachKeeps, StageKeeps
<1>2. ASSUME NEW c \in Channels, MakeSource(c) \/ Receive(c) \/ Release(c)
      PROVE  ChannelInv'
  BY <1>2, ChannelInvStutter
     DEF MakeSource, Receive, Release, invVars, streamVars, dispatchVars
<1>3. ASSUME NEW d \in Dispatchers,
             \/ \E u \in Users : Enter(d, u)
             \/ Collect(d) \/ Announce(d) \/ Deliver(d) \/ Leave(d)
      PROVE  ChannelInv'
  BY <1>3, CollectKeeps, ReaderKeeps
<1>4. ASSUME NEW u \in Users, RemoveUser(u) PROVE ChannelInv'
  BY <1>4, RemoveUserKeeps
<1>5. CASE Ended \/ UNCHANGED vars
  BY <1>5, ChannelInvStutter DEF Ended, vars, invVars
<1> QED BY <1>1, <1>2, <1>3, <1>4, <1>5 DEF Next

LEMMA ChannelInvInit == Init => ChannelInv
<1> SUFFICES ASSUME Init PROVE ChannelInv
  OBVIOUS
<1>1. Types
  BY DEF Init, Types, Stages
<1>2. ListIsAttached
  BY DEF Init, ListIsAttached, ToSet
<1>3. MappedIsOpen /\ MappedIsWanted /\ InsideIsPresent
  BY DEF Init, MappedIsOpen, MappedIsWanted, InsideIsPresent, Channels
<1> QED BY <1>1, <1>2, <1>3 DEF ChannelInv

-----------------------------------------------------------------------------
(* The properties                                                          *)

\* What Deliver sends on is open, because the stream still maps the user.
LEMMA DeliverySafe == ChannelInv /\ NoSendOnClosed /\ [Next]_vars => NoSendOnClosed'
<1> SUFFICES ASSUME ChannelInv, ~panicked, [Next]_vars PROVE ~panicked'
  BY DEF NoSendOnClosed
<1>1. ASSUME NEW d \in Dispatchers, Deliver(d) PROVE ~panicked'
  <2> DEFINE s == Head(todo[d]).stream
             u == inside[d]
             sent == stage[s] = "attached" /\ u \in mapped[s]
  <2>1. s \in Streams
    <3>1. todo[d] \in Seq(Deliveries) /\ todo[d] # <<>>
      BY <1>1 DEF Deliver, ChannelInv, Types
    <3>2. Head(todo[d]) \in Deliveries
      BY <3>1
    <3> QED BY <3>2 DEF Deliveries
  <2>2. sent => chan[<<s, u>>] = "open"
    BY <2>1 DEF ChannelInv, MappedIsOpen, Types
  <2>3. panicked' = (panicked \/ (sent /\ chan[<<s, u>>] = "closed"))
    BY <1>1 DEF Deliver
  <2>4. ~(sent /\ chan[<<s, u>>] = "closed")
    BY <2>2
  <2> QED BY <2>3, <2>4, Zenon
<1>2. ASSUME ~(\E d \in Dispatchers : Deliver(d)) PROVE panicked' = panicked
  BY <1>2 DEF Next, vars, Attach, Detach, Drain, CloseRenderer, MakeSource, Receive, Release,
              Enter, Collect, Announce, Leave, RemoveUser, Ended
<1> QED BY <1>1, <1>2

\* However readers, departures and Destroy interleave, dispatchAudio never sends
\* on a channel that Detach or handleUserRemove has closed, and a channel is open
\* only at an attached listener for a user of the server (handlers.go:290-304).
THEOREM SoundChannels == Spec => []ChannelsAreSound
<1> DEFINE Sound == ChannelInv /\ NoSendOnClosed
<1>1. Init => Sound
  BY ChannelInvInit DEF Init, NoSendOnClosed
<1>2. Sound /\ [Next]_vars => Sound'
  BY ChannelInvStep, DeliverySafe
<1>3. ChannelInv => OpenIsWanted
  BY DEF ChannelInv, MappedIsOpen, MappedIsWanted, OpenIsWanted, Channels
<1>4. Sound => ChannelsAreSound
  BY <1>3 DEF ChannelsAreSound
<1> QED BY <1>1, <1>2, <1>4, PTL DEF Spec

-----------------------------------------------------------------------------
(* Channels begin once                                                     *)

\* The deliveries of a reader that have yet to be announced, and their channels.
Starting(d) == {i \in DOMAIN todo[d] : todo[d][i].new}

At(d, i) == <<todo[d][i].stream, inside[d]>>

Over == {"draining", "drained", "destroyed"}

\* A channel is closed because its stream or its user is gone.
ClosedIsOver == \A s \in Streams, u \in Users :
  chan[<<s, u>>] = "closed" => stage[s] \in Over \/ u \notin present

PlayedIsOpened ==
  /\ player \in [Channels -> {"none", "starting", "playing", "ended"}]
  /\ \A c \in Channels : player[c] # "none" => chan[c] # "none"

\* A channel that has yet to be announced has no goroutine, and one reader
\* announces it, once.
StartsAreFresh == \A d \in Dispatchers : \A i \in Starting(d) :
  /\ At(d, i) \in Channels
  /\ chan[At(d, i)] # "none" /\ player[At(d, i)] = "none"

StartsAreApart == \A d, e \in Dispatchers : \A i \in Starting(d), j \in Starting(e) :
  At(d, i) = At(e, j) => d = e /\ i = j

OutsideIsDone == \A d \in Dispatchers : inside[d] = Outside => todo[d] = <<>>

OnceInv == ClosedIsOver /\ PlayedIsOpened /\ StartsAreFresh /\ StartsAreApart /\ OutsideIsDone

LEMMA OnceInvStutter ==
  OnceInv /\ UNCHANGED <<stage, present, chan, player, inside, todo>> => OnceInv'
  BY DEF OnceInv, ClosedIsOver, PlayedIsOpened, StartsAreFresh, StartsAreApart, OutsideIsDone,
         Starting, At

\* A stream that goes on to another stage, or closes channels as it ends.
LEMMA OnceStream ==
  ASSUME ChannelInv, OnceInv,
         NEW s \in Streams, Attach(s) \/ Detach(s) \/ Drain(s) \/ CloseRenderer(s)
  PROVE  OnceInv'
<1> USE DEF ChannelInv, OnceInv
<1>1. UNCHANGED <<present, player, inside, todo>>
  BY DEF Attach, Detach, Drain, CloseRenderer, dispatchVars
<1>2. \A t \in Streams : stage[t] \in Over => stage'[t] \in Over
  BY DEF Attach, Detach, Drain, CloseRenderer, Types, Stages, Over
<1>3. \A c \in Channels : chan'[c] = chan[c] \/ (chan'[c] = "closed" /\ c[1] = s /\ Detach(s))
  BY DEF Attach, Detach, Drain, CloseRenderer, Types, CloseAndDelete
<1>4. Detach(s) => stage'[s] \in Over
  BY DEF Detach, Types, Over
<1>5. ClosedIsOver'
  BY <1>1, <1>2, <1>3, <1>4 DEF ClosedIsOver, Channels
<1>6. PlayedIsOpened' /\ StartsAreFresh'
  BY <1>1, <1>3 DEF PlayedIsOpened, StartsAreFresh, Starting, At
<1>7. StartsAreApart' /\ OutsideIsDone'
  BY <1>1 DEF StartsAreApart, OutsideIsDone, Starting, At
<1> QED BY <1>5, <1>6, <1>7

LEMMA OnceUser ==
  ASSUME ChannelInv, OnceInv, NEW u \in Users, RemoveUser(u)
  PROVE  OnceInv'
<1> USE DEF ChannelInv, OnceInv
<1>1. present' = present \ {u} /\ UNCHANGED <<stage, player, inside, todo>>
  BY DEF RemoveUser, dispatchVars, streamVars
<1>2. \A c \in Channels : chan'[c] = chan[c] \/ (chan'[c] = "closed" /\ c[2] = u)
  BY DEF RemoveUser, Types, CloseAndDelete
<1>3. ClosedIsOver'
  BY <1>1, <1>2 DEF ClosedIsOver, Channels
<1>4. PlayedIsOpened' /\ StartsAreFresh'
  BY <1>1, <1>2 DEF PlayedIsOpened, StartsAreFresh, Starting, At
<1>5. StartsAreApart' /\ OutsideIsDone'
  BY <1>1 DEF StartsAreApart, OutsideIsDone, Starting, At
<1> QED BY <1>3, <1>4, <1>5

LEMMA OncePlayer ==
  ASSUME OnceInv, NEW c \in Channels, MakeSource(c) \/ Receive(c) \/ Release(c)
  PROVE  OnceInv' /\ player'[c] # "starting"
<1> USE DEF OnceInv
<1>1. UNCHANGED <<stage, present, chan, inside, todo>>
  BY DEF MakeSource, Receive, Release, streamVars, dispatchVars
<1>2. /\ player[c] \in {"starting", "playing"}
      /\ \E p \in {"playing", "ended"} : player' = [player EXCEPT ![c] = p]
  BY DEF MakeSource, Receive, Release, PlayedIsOpened
<1>3. ClosedIsOver' /\ StartsAreApart' /\ OutsideIsDone'
  BY <1>1 DEF ClosedIsOver, StartsAreApart, OutsideIsDone, Starting, At
<1>4. PlayedIsOpened' /\ StartsAreFresh'
  BY <1>1, <1>2 DEF PlayedIsOpened, StartsAreFresh, Starting, At
<1> QED BY <1>2, <1>3, <1>4 DEF PlayedIsOpened

\* A reader that enters or leaves has nothing to announce.
LEMMA OnceEnter ==
  ASSUME ChannelInv, OnceInv, NEW d \in Dispatchers, Leave(d) \/ \E u \in Users : Enter(d, u)
  PROVE  OnceInv'
<1> USE DEF ChannelInv, OnceInv
<1>1. UNCHANGED <<stage, present, chan, player, todo>> /\ todo[d] = <<>>
  BY DEF Enter, Leave, streamVars, OutsideIsDone
<1>2. \A e \in Dispatchers : e # d => inside'[e] = inside[e]
  BY DEF Enter, Leave, Types
<1>3. Starting(d) = {} /\ \A e \in Dispatchers : Starting(e)' = Starting(e)
  BY <1>1 DEF Starting
<1>4. \A e \in Dispatchers : \A i \in Starting(e) : At(e, i)' = At(e, i)
  BY <1>1, <1>2, <1>3 DEF At
<1>5. ClosedIsOver' /\ PlayedIsOpened' /\ OutsideIsDone'
  BY <1>1, <1>2 DEF ClosedIsOver, PlayedIsOpened, OutsideIsDone
<1>6. StartsAreFresh' /\ StartsAreApart'
  BY <1>1, <1>3, <1>4 DEF StartsAreFresh, StartsAreApart
<1> QED BY <1>5, <1>6

LEMMA OnceAnnounce ==
  ASSUME ChannelInv, OnceInv, NEW d \in Dispatchers, Announce(d)
  PROVE  /\ OnceInv'
         /\ player' = [player EXCEPT ![At(d, 1)] = "starting"]
         /\ player[At(d, 1)] = "none" /\ At(d, 1) \in Channels
<1> USE DEF ChannelInv, OnceInv
<1>1. todo[d] \in Seq(Deliveries) /\ todo[d] # <<>>
  BY DEF Announce, Types
<1>2. /\ 1 \in DOMAIN todo[d] /\ Head(todo[d]) = todo[d][1]
      /\ todo[d][1] \in Deliveries
  BY <1>1
<1>3. 1 \in Starting(d)
  BY <1>2 DEF Announce, Starting
<1>4. /\ player' = [player EXCEPT ![At(d, 1)] = "starting"]
      /\ UNCHANGED <<stage, present, chan, inside>>
  BY <1>2 DEF Announce, At, streamVars
<1>5. /\ DOMAIN todo'[d] = DOMAIN todo[d]
      /\ \A i \in DOMAIN todo[d] : todo'[d][i].stream = todo[d][i].stream
      /\ \A i \in DOMAIN todo[d] : i # 1 => todo'[d][i] = todo[d][i]
      /\ ~todo'[d][1].new
  <2>1. todo'[d] = [todo[d] EXCEPT ![1] = [todo[d][1] EXCEPT !.new = FALSE]]
    BY DEF Announce, Types
  <2>2. todo'[d][1] = [todo[d][1] EXCEPT !.new = FALSE]
    BY <2>1, <1>2
  <2> QED BY <2>1, <2>2, <1>2 DEF Deliveries
<1>6. \A e \in Dispatchers : e # d => todo'[e] = todo[e]
  BY DEF Announce, Types
<1>7. \A e \in Dispatchers : \A i \in Starting(e)' :
        i \in Starting(e) /\ (e # d \/ i # 1) /\ At(e, i)' = At(e, i)
  <2>1. ASSUME NEW i \in Starting(d)' PROVE i \in Starting(d) /\ i # 1 /\ At(d, i)' = At(d, i)
    <3>1. i \in DOMAIN todo[d] /\ i # 1
      BY <1>5 DEF Starting
    <3> QED BY <3>1, <1>4, <1>5 DEF Starting, At
  <2>2. ASSUME NEW e \in Dispatchers, e # d, NEW i \in Starting(e)'
        PROVE  i \in Starting(e) /\ At(e, i)' = At(e, i)
    BY <2>2, <1>4, <1>6 DEF Starting, At
  <2> QED BY <2>1, <2>2
<1>8. At(d, 1) \in Channels /\ chan[At(d, 1)] # "none" /\ player[At(d, 1)] = "none"
  BY <1>3 DEF StartsAreFresh
<1>9. ClosedIsOver' /\ PlayedIsOpened'
  BY <1>4, <1>8 DEF ClosedIsOver, PlayedIsOpened
<1>10. StartsAreFresh'
  <2>1. ASSUME NEW e \in Dispatchers, NEW i \in Starting(e)'
        PROVE  /\ At(e, i)' \in Channels
               /\ chan'[At(e, i)'] # "none" /\ player'[At(e, i)'] = "none"
    <3>1. i \in Starting(e) /\ At(e, i)' = At(e, i) /\ At(e, i) # At(d, 1)
      BY <1>3, <1>7 DEF StartsAreApart
    <3>2. At(e, i) \in Channels /\ chan[At(e, i)] # "none" /\ player[At(e, i)] = "none"
      BY <3>1 DEF StartsAreFresh
    <3> QED BY <3>1, <3>2, <1>4 DEF PlayedIsOpened
  <2> QED BY <2>1 DEF StartsAreFresh
<1>11. StartsAreApart'
  BY <1>7 DEF StartsAreApart
<1>12. OutsideIsDone'
  BY <1>1, <1>4, <1>6 DEF OutsideIsDone
<1> QED BY <1>4, <1>8, <1>9, <1>10, <1>11, <1>12

LEMMA OnceDeliver ==
  ASSUME ChannelInv, OnceInv, NEW d \in Dispatchers, Deliver(d)
  PROVE  OnceInv'
<1> USE DEF ChannelInv, OnceInv
<1>1. todo[d] \in Seq(Deliveries) /\ todo[d] # <<>> /\ todo'[d] = Tail(todo[d])
  BY DEF Deliver, Types
<1>2. UNCHANGED <<stage, present, chan, player, inside>>
  BY DEF Deliver, streamVars
<1>3. \A i \in DOMAIN todo'[d] : i + 1 \in DOMAIN todo[d] /\ todo'[d][i] = todo[d][i + 1]
  BY <1>1
<1>4. DOMAIN todo'[d] \subseteq Nat
  BY <1>1
<1>5. \A e \in Dispatchers : e # d => todo'[e] = todo[e]
  BY DEF Deliver, Types
<1> DEFINE was(e, i) == IF e = d THEN i + 1 ELSE i
<1>6. ASSUME NEW e \in Dispatchers, NEW i \in Starting(e)'
      PROVE  was(e, i) \in Starting(e) /\ At(e, i)' = At(e, was(e, i))
  <2>1. CASE e = d
    BY <2>1, <1>2, <1>3 DEF Starting, At
  <2>2. CASE e # d
    BY <2>2, <1>2, <1>5 DEF Starting, At
  <2> QED BY <2>1, <2>2
<1>7. ClosedIsOver' /\ PlayedIsOpened'
  BY <1>2 DEF ClosedIsOver, PlayedIsOpened
<1>8. StartsAreFresh'
  BY <1>2, <1>6 DEF StartsAreFresh
<1>9. StartsAreApart'
  <2>1. ASSUME NEW e \in Dispatchers, NEW f \in Dispatchers,
               NEW i \in Starting(e)', NEW j \in Starting(f)', At(e, i)' = At(f, j)'
        PROVE  e = f /\ i = j
    <3>1. e = f /\ was(e, i) = was(f, j)
      BY <2>1, <1>6 DEF StartsAreApart
    <3>2. CASE e = d
      <4>1. i \in Nat /\ j \in Nat
        BY <3>1, <3>2, <1>4 DEF Starting
      <4> QED BY <3>1, <3>2, <4>1
    <3>3. CASE e # d
      BY <3>1, <3>3
    <3> QED BY <3>2, <3>3
  <2> QED BY <2>1 DEF StartsAreApart
<1>10. OutsideIsDone'
  BY <1>1, <1>2, <1>5 DEF OutsideIsDone
<1> QED BY <1>7, <1>8, <1>9, <1>10

\* A reader makes a channel that has never been: it was not open, and neither its
\* stream nor its user is gone.
LEMMA OnceCollect ==
  ASSUME ChannelInv, OnceInv, NEW d \in Dispatchers, Collect(d)
  PROVE  OnceInv' /\ \A c \in Channels : chan'[c] = chan[c] \/ (chan[c] = "none" /\ chan'[c] = "open")
<1> DEFINE u == inside[d]
           made == {s \in ToSet(listeners) : u \notin mapped[s]}
<1> USE DEF ChannelInv, OnceInv
<1>1. u \in Users /\ u \in present /\ todo[d] = <<>>
  BY DEF Collect, Types, InsideIsPresent
<1>2. UNCHANGED <<stage, present, player, inside>>
  BY DEF Collect, streamVars
<1>3. \A s \in Streams, v \in Users :
        chan'[<<s, v>>] = IF v = u /\ s \in made THEN "open" ELSE chan[<<s, v>>]
  BY DEF Collect, Channels
<1>4. /\ DOMAIN todo'[d] = DOMAIN listeners
      /\ \A i \in DOMAIN listeners :
           /\ todo'[d][i].stream = listeners[i]
           /\ todo'[d][i].new = (u \notin mapped[listeners[i]])
      /\ \A e \in Dispatchers : e # d => todo'[e] = todo[e]
  BY DEF Collect, Types
<1>5. \A s \in made : s \in Streams /\ stage[s] = "attached" /\ chan[<<s, u>>] = "none"
  <2>1. ASSUME NEW s \in made PROVE s \in Streams /\ stage[s] = "attached"
    BY DEF ListIsAttached, ToSet, Types
  <2>2. ASSUME NEW s \in made PROVE chan[<<s, u>>] = "none"
    <3>1. s \in Streams /\ stage[s] \notin Over /\ u \notin mapped[s]
      BY <2>1 DEF Over
    <3>2. chan[<<s, u>>] # "open" /\ chan[<<s, u>>] # "closed"
      BY <3>1, <1>1 DEF MappedIsOpen, ClosedIsOver
    <3> QED BY <3>1, <3>2, <1>1 DEF Types, Channels
  <2> QED BY <2>1, <2>2
<1>6. Starting(d) = {} /\ Starting(d)' = {i \in DOMAIN listeners : listeners[i] \in made}
  <2>1. Starting(d) = {}
    BY <1>1 DEF Starting
  <2>2. Starting(d)' = {i \in DOMAIN listeners : todo'[d][i].new}
    BY <1>4 DEF Starting
  <2>3. \A i \in DOMAIN listeners : listeners[i] \in made <=> u \notin mapped[listeners[i]]
    BY DEF ToSet
  <2> HIDE DEF u, made
  <2>4. ASSUME NEW i \in DOMAIN listeners PROVE todo'[d][i].new <=> listeners[i] \in made
    <3>1. todo'[d][i].new = (u \notin mapped[listeners[i]])
      BY <1>4, Zenon
    <3> QED BY <2>3, <3>1, Zenon
  <2> QED BY <2>1, <2>2, <2>4, Zenon
<1>7. \A i \in Starting(d)' : At(d, i)' = <<listeners[i], u>> /\ listeners[i] \in made
  BY <1>2, <1>4, <1>6 DEF At
<1>8. \A e \in Dispatchers : e # d => Starting(e)' = Starting(e)
  BY <1>4 DEF Starting
<1>9. \A e \in Dispatchers : e # d => \A i \in Starting(e) : At(e, i)' = At(e, i)
  BY <1>2, <1>4 DEF At
<1> HIDE DEF u, made
<1>10. \A c \in Channels : chan'[c] = chan[c] \/ (chan[c] = "none" /\ chan'[c] = "open")
  BY <1>3, <1>5 DEF Channels
<1>11. ClosedIsOver' /\ PlayedIsOpened'
  BY <1>2, <1>10 DEF ClosedIsOver, PlayedIsOpened, Channels
<1>12. StartsAreFresh'
  <2>1. ASSUME NEW i \in Starting(d)'
        PROVE  /\ At(d, i)' \in Channels
               /\ chan'[At(d, i)'] # "none" /\ player'[At(d, i)'] = "none"
    <3>1. /\ At(d, i)' = <<listeners[i], u>> /\ listeners[i] \in made
          /\ listeners[i] \in Streams /\ chan[<<listeners[i], u>>] = "none"
      BY <1>5, <1>7
    <3>2. <<listeners[i], u>> \in Channels
      BY <3>1, <1>1 DEF Channels
    <3>3. chan'[<<listeners[i], u>>] = "open"
      BY <3>1, <1>1, <1>3
    <3>4. player[<<listeners[i], u>>] = "none"
      BY <3>1, <3>2 DEF PlayedIsOpened
    <3> QED BY <3>1, <3>2, <3>3, <3>4, <1>2
  <2>2. ASSUME NEW e \in Dispatchers, e # d, NEW i \in Starting(e)'
        PROVE  /\ At(e, i)' \in Channels
               /\ chan'[At(e, i)'] # "none" /\ player'[At(e, i)'] = "none"
    BY <2>2, <1>2, <1>8, <1>9, <1>10 DEF StartsAreFresh
  <2> QED BY <2>1, <2>2 DEF StartsAreFresh
<1>13. StartsAreApart'
  <2>1. ASSUME NEW i \in Starting(d)', NEW j \in Starting(d)', At(d, i)' = At(d, j)'
        PROVE  i = j
    BY <2>1, <1>6, <1>7 DEF ListIsAttached
  <2>2. ASSUME NEW e \in Dispatchers, e # d, NEW i \in Starting(d)', NEW j \in Starting(e)'
        PROVE  At(d, i)' # At(e, j)'
    <3>1. chan[At(e, j)'] # "none"
      BY <2>2, <1>8, <1>9 DEF StartsAreFresh
    <3>2. chan[At(d, i)'] = "none"
      BY <1>5, <1>7
    <3> QED BY <3>1, <3>2
  <2>3. ASSUME NEW e \in Dispatchers, NEW f \in Dispatchers, e # d, f # d,
               NEW i \in Starting(e)', NEW j \in Starting(f)', At(e, i)' = At(f, j)'
        PROVE  e = f /\ i = j
    BY <2>3, <1>8, <1>9 DEF StartsAreApart
  <2> QED BY <2>1, <2>2, <2>3 DEF StartsAreApart
<1>14. OutsideIsDone'
  BY <1>1, <1>2, <1>4, StreamsAssumption DEF OutsideIsDone, u
<1> QED BY <1>10, <1>11, <1>12, <1>13, <1>14

LEMMA OnceInvStep == ChannelInv /\ OnceInv /\ [Next]_vars => OnceInv'
<1> SUFFICES ASSUME ChannelInv, OnceInv, [Next]_vars PROVE OnceInv'
  OBVIOUS
<1>1. ASSUME NEW s \in Streams, Attach(s) \/ Detach(s) \/ Drain(s) \/ CloseRenderer(s)
      PROVE  OnceInv'
  BY <1>1, OnceStream
<1>2. ASSUME NEW c \in Channels, MakeSource(c) \/ Receive(c) \/ Release(c)
      PROVE  OnceInv'
  BY <1>2, OncePlayer
<1>3. ASSUME NEW d \in Dispatchers,
             \/ \E u \in Users : Enter(d, u)
             \/ Collect(d) \/ Announce(d) \/ Deliver(d) \/ Leave(d)
      PROVE  OnceInv'
  BY <1>3, OnceEnter, OnceCollect, OnceAnnounce, OnceDeliver
<1>4. ASSUME NEW u \in Users, RemoveUser(u) PROVE OnceInv'
  BY <1>4, OnceUser
<1>5. CASE Ended \/ UNCHANGED vars
  BY <1>5, OnceInvStutter DEF Ended, vars
<1> QED BY <1>1, <1>2, <1>3, <1>4, <1>5 DEF Next

LEMMA OnceInvInit == Init => OnceInv
  BY DEF Init, OnceInv, ClosedIsOver, PlayedIsOpened, StartsAreFresh, StartsAreApart,
         OutsideIsDone, Starting, Channels

\* A step of StreamsStartOnce, at one channel.
Once(c) ==
  /\ chan[c] = "closed" => chan'[c] = "closed"
  /\ player[c] # "none" => player'[c] # "starting" \/ player[c] = "starting"

LEMMA StepsStartOnce ==
  ASSUME ChannelInv, OnceInv, Next, NEW c \in Channels
  PROVE  Once(c)
<1>1. ASSUME NEW s \in Streams, Attach(s) \/ Detach(s) \/ Drain(s) \/ CloseRenderer(s)
      PROVE  Once(c)
  BY <1>1 DEF Attach, Detach, Drain, CloseRenderer, CloseAndDelete, Once
<1>2. ASSUME NEW b \in Channels, MakeSource(b) \/ Receive(b) \/ Release(b)
      PROVE  Once(c)
  BY <1>2, OncePlayer DEF MakeSource, Receive, Release, Once, OnceInv, PlayedIsOpened
<1>3. ASSUME NEW d \in Dispatchers, Announce(d) PROVE Once(c)
  BY <1>3, OnceAnnounce DEF Announce, Once, OnceInv, PlayedIsOpened
<1>4. ASSUME NEW d \in Dispatchers, Collect(d) PROVE Once(c)
  BY <1>4, OnceCollect DEF Collect, Once
<1>5. ASSUME NEW d \in Dispatchers, Deliver(d) \/ Leave(d) \/ \E u \in Users : Enter(d, u)
      PROVE  Once(c)
  BY <1>5 DEF Deliver, Leave, Enter, Once
<1>6. ASSUME NEW u \in Users, RemoveUser(u) PROVE Once(c)
  BY <1>6 DEF RemoveUser, CloseAndDelete, Once
<1>7. CASE Ended
  BY <1>7 DEF Ended, vars, Once
<1> QED BY <1>1, <1>2, <1>3, <1>4, <1>5, <1>6, <1>7 DEF Next

\* A closed channel is never opened again, and OnAudioStream never starts a second
\* goroutine for one, whichever readers announce what (handlers.go:262-293).
THEOREM OneStart == Spec => StreamsStartOnce
<1>1. Init => ChannelInv /\ OnceInv
  BY ChannelInvInit, OnceInvInit
<1>2. ChannelInv /\ OnceInv /\ [Next]_vars => (ChannelInv /\ OnceInv)'
  BY ChannelInvStep, OnceInvStep
<1>3. ChannelInv /\ OnceInv /\ [Next]_vars =>
        [\A c \in Channels :
           /\ chan[c] = "closed" => chan'[c] = "closed"
           /\ player[c] # "none" => player'[c] # "starting" \/ player[c] = "starting"]_vars
  BY StepsStartOnce DEF Once
<1> QED BY <1>1, <1>2, <1>3, PTL DEF Spec, StreamsStartOnce

=============================================================================
