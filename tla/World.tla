-------------------------------- MODULE World --------------------------------
(***************************************************************************)
(* What the client knows of the server: the channels and the users that    *)
(* the handlers of ChannelState, ChannelRemove, UserState, UserRemove and  *)
(* ServerSync build, and what the application remembers and announces of   *)
(* them in its callbacks. All of it runs on readRoutine, a message at a    *)
(* time: a handler under Client.volatile, then its callback.               *)
(*                                                                         *)
(* Maps and pointers are kept apart as in the code: a channel that was     *)
(* removed and made again with its old number is another object.           *)
(*                                                                         *)
(* The server is external: lawful, or one that sends any message at all.   *)
(***************************************************************************)
EXTENDS Naturals, FiniteSets, Functions

CONSTANTS
  Ids,      \* channel numbers
  Root,     \* that of the root channel, 0
  Chans,    \* *Channel pointers
  Sessions, \* session numbers
  Users,    \* *User pointers
  MaxDepth, \* maxChannelDepth, 1024
  LinkSets, \* the lists of channels a ChannelState may carry
  WildSessions, \* bound: the sessions a server that is not lawful speaks of
  None,     \* Go's nil
  Absent    \* a field a message does not carry

ASSUME WorldAssumption ==
  /\ Root \in Ids /\ Absent \notin Ids \cup Sessions
  /\ None \notin Chans \cup Users \cup Ids \cup Sessions
  /\ LinkSets \subseteq SUBSET Ids /\ WildSessions \subseteq Sessions
  /\ IsFiniteSet(Chans) /\ MaxDepth \in Nat

VARIABLES
  channelOf,  \* Client.Channels
  id,         \* Channel.ID, None before the channel is made
  parent,     \* Channel.Parent
  children,   \* Channel.Children
  links,      \* Channel.Links
  members,    \* Channel.Users
  userOf,     \* Client.Users
  session,    \* User.Session, None before the user is made
  channel,    \* User.Channel
  self,       \* Client.Self
  synced,     \* Client.state is StateSynced
  remembered, \* Barnard.userChannels
  notices,    \* the joins and leaves announced by the last step
  lawful      \* how the server behaves, chosen at the start

channelVars == <<channelOf, id, parent, children, links>>
userVars == <<userOf, session, channel, members>>
appVars == <<self, synced, remembered>>
vars == <<channelVars, userVars, appVars, notices, lawful>>

Init ==
  /\ channelOf = [i \in Ids |-> None]
  /\ id = [c \in Chans |-> None]
  /\ parent = [c \in Chans |-> None]
  /\ children = [c \in Chans |-> [i \in Ids |-> None]]
  /\ links = [c \in Chans |-> [i \in Ids |-> None]]
  /\ members = [c \in Chans |-> [s \in Sessions |-> None]]
  /\ userOf = [s \in Sessions |-> None]
  /\ session = [u \in Users |-> None]
  /\ channel = [u \in Users |-> None]
  /\ self = None /\ synced = FALSE
  /\ remembered = [s \in Sessions |-> None]
  /\ notices = {}
  /\ lawful \in BOOLEAN

\* delete(owner.map, key) and owner.map[key] = value; a nil owner is skipped.
Drop(m, owner, key) == IF owner = None THEN m ELSE [m EXCEPT ![owner][key] = None]
Put(m, owner, key, value) == IF owner = None THEN m ELSE [m EXCEPT ![owner][key] = value]

-----------------------------------------------------------------------------
(* Channels                                                                *)

\* The channels from candidate up to c, each the parent of the one before.
Leads(walk, n, candidate, c) ==
  /\ walk[0] = candidate /\ walk[n] = c
  /\ \A i \in 1 .. n : walk[i] = parent[walk[i - 1]]

\* Mutant: the walk gives up one parent too early.
IsDescendant_OneShort(candidate, c) ==
  \E n \in 0 .. MaxDepth - 1 : \E walk \in [0 .. n -> Chans] : Leads(walk, n, candidate, c)

\* isChannelDescendant: following Parent from candidate at most maxChannelDepth
\* times leads to c.
IsDescendant(candidate, c) ==
  \E n \in 0 .. MaxDepth : \E walk \in [0 .. n -> Chans] : Leads(walk, n, candidate, c)

\* The parent field of ChannelState. A move that would close a cycle is ignored;
\* an unknown parent is none.
Reparent(i, c, p) ==
  IF p = Absent \/ (channelOf'[p] # None /\ IsDescendant(channelOf'[p], c))
  THEN UNCHANGED <<parent, children>>
  ELSE /\ parent' = [parent EXCEPT ![c] = channelOf'[p]]
       /\ children' = Put(Drop(children, parent[c], i), channelOf'[p], i, c)

\* The three link fields: links replaced, added and removed, both ways.
Linked(m, i, c, to) ==
  [d \in Chans |-> [k \in Ids |->
     IF d = c /\ k \in to /\ channelOf'[k] # None THEN channelOf'[k]
     ELSE IF k = i /\ \E j \in to : channelOf'[j] = d THEN c
     ELSE m[d][k]]]
Cleared(i, c) ==
  [d \in Chans |-> [k \in Ids |->
     IF d = c \/ (k = i /\ d \in Range(links[c])) THEN None ELSE links[d][k]]]
Unlinked(i, c, to) ==
  [d \in Chans |-> [k \in Ids |->
     IF \/ d = c /\ k \in to /\ channelOf'[k] # None
        \/ k = i /\ \E j \in to : channelOf'[j] = d
     THEN None ELSE links[d][k]]]

Relink(i, c, op, to) ==
  links' = CASE op = "none" -> links
             [] op = "set" -> Linked(Cleared(i, c), i, c, to)
             [] op = "add" -> Linked(links, i, c, to)
             [] op = "remove" -> Unlinked(i, c, to)

\* handleChannelState for the channel object c, which is new if i is unknown.
ChannelState(i, c, p, op, to) ==
  /\ IF channelOf[i] = None THEN id[c] = None ELSE c = channelOf[i]
  /\ channelOf' = [channelOf EXCEPT ![i] = c]
  /\ id' = [id EXCEPT ![c] = i]
  /\ Reparent(i, c, p)
  /\ Relink(i, c, op, to)
  /\ notices' = {}
  /\ UNCHANGED <<userVars, appVars, lawful>>

\* handleChannelRemove.
ChannelRemove(i) ==
  LET c == channelOf[i] IN
  /\ c # None
  /\ channelOf' = [channelOf EXCEPT ![i] = None]
  /\ children' = Drop(children, parent[c], i)
  /\ links' = [d \in Chans |->
                 IF d \in Range(links[c]) THEN [links[d] EXCEPT ![i] = None] ELSE links[d]]
  /\ notices' = {}
  /\ UNCHANGED <<id, parent, userVars, appVars, lawful>>

-----------------------------------------------------------------------------
(* Users                                                                   *)

SameChannel(c, d) == c # None /\ d # None /\ id[c] = id[d]

\* userChangeNotification: what is announced of user u, who is in channel "now".
Notices(u, s, connected, moved, now) ==
  LET mine == IF u = self THEN now ELSE channel[self]
      before == remembered[s]
  IN IF connected
     THEN IF SameChannel(now, mine) THEN {<<"join", u>>} ELSE {}
     ELSE IF moved /\ u # self /\ SameChannel(now, mine) /\ ~SameChannel(before, mine)
     THEN {<<"join", u>>}
     ELSE IF moved /\ u # self /\ SameChannel(before, mine) /\ ~SameChannel(now, mine)
     THEN {<<"leave", u>>}
     ELSE {}

NoEvent == notices' = {} /\ UNCHANGED remembered

\* Mutant: where the user was is forgotten before it is compared.
UserChanged_RemembersFirst(u, s, connected, moved, now) ==
  IF ~synced THEN NoEvent
  ELSE /\ remembered' = IF now = None THEN remembered ELSE [remembered EXCEPT ![s] = now]
       /\ notices' = IF connected /\ SameChannel(now, channel[self]) THEN {<<"join", u>>} ELSE {}

\* OnUserChange, which the handler calls once the client is synchronised.
UserChanged(u, s, connected, moved, now) ==
  IF ~synced THEN NoEvent
  ELSE /\ notices' = Notices(u, s, connected, moved, now)
       /\ remembered' = IF now = None THEN remembered ELSE [remembered EXCEPT ![s] = now]

\* Mutant: the user enters its channel only if that is another one.
UserState_EntersIfMoved(s, u, actor, i) ==
  LET fresh == userOf[s] = None
      at == IF fresh THEN channelOf[Root] ELSE channel[u]
      entered == IF fresh THEN Put(members, at, s, u) ELSE members
      to == IF i = Absent THEN at ELSE channelOf[i]
      refused == \/ fresh /\ at = None
                 \/ actor # Absent /\ userOf'[actor] = None
  IN /\ IF fresh THEN session[u] = None ELSE u = userOf[s]
     /\ userOf' = [userOf EXCEPT ![s] = u]
     /\ session' = [session EXCEPT ![u] = s]
     /\ IF refused \/ (i # Absent /\ to = None)
        THEN /\ channel' = [channel EXCEPT ![u] = at]
             /\ members' = IF refused THEN entered ELSE Drop(entered, at, s)
             /\ NoEvent
        ELSE /\ channel' = [channel EXCEPT ![u] = to]
             /\ members' = IF i = Absent THEN entered
                           ELSE IF to = at THEN Drop(entered, at, s)
                           ELSE Put(Drop(entered, at, s), to, s, u)
             /\ UserChanged(u, s, fresh, fresh \/ to # at, to)
     /\ UNCHANGED <<channelVars, self, synced, lawful>>

\* handleUserState for the user object u, which is new if s is unknown. It returns
\* early, with what it has done so far, when there is no root channel for a new
\* user, the actor is unknown, or the channel is.
UserState(s, u, actor, i) ==
  LET fresh == userOf[s] = None
      at == IF fresh THEN channelOf[Root] ELSE channel[u]
      entered == IF fresh THEN Put(members, at, s, u) ELSE members
      to == IF i = Absent THEN at ELSE channelOf[i]
      refused == \/ fresh /\ at = None
                 \/ actor # Absent /\ userOf'[actor] = None
  IN /\ IF fresh THEN session[u] = None ELSE u = userOf[s]
     /\ userOf' = [userOf EXCEPT ![s] = u]
     /\ session' = [session EXCEPT ![u] = s]
     /\ IF refused \/ (i # Absent /\ to = None)
        THEN /\ channel' = [channel EXCEPT ![u] = at]
             /\ members' = IF refused THEN entered ELSE Drop(entered, at, s)
             /\ NoEvent
        ELSE /\ channel' = [channel EXCEPT ![u] = to]
             /\ members' = IF i = Absent THEN entered
                           ELSE Put(Drop(entered, at, s), to, s, u)
             /\ UserChanged(u, s, fresh, fresh \/ to # at, to)
     /\ UNCHANGED <<channelVars, self, synced, lawful>>

\* Mutant: the channel keeps the user.
UserRemove_StaysInChannel(s, actor) ==
  LET u == userOf[s] IN
  /\ u # None /\ (actor # Absent => userOf[actor] # None)
  /\ userOf' = [userOf EXCEPT ![s] = None]
  /\ UNCHANGED members
  /\ notices' = {}
  /\ remembered' = IF synced THEN [remembered EXCEPT ![s] = None] ELSE remembered
  /\ UNCHANGED <<channelVars, session, channel, self, synced, lawful>>

\* handleUserRemove, and OnUserChange for a user that disconnected. An unknown
\* user or actor is refused before anything is changed.
UserRemove(s, actor) ==
  LET u == userOf[s]
      before == IF remembered[s] = None THEN channel[u] ELSE remembered[s]
  IN
  /\ u # None /\ (actor # Absent => userOf[actor] # None)
  /\ userOf' = [userOf EXCEPT ![s] = None]
  /\ members' = Drop(members, channel[u], s)
  /\ notices' = IF synced /\ SameChannel(before, channel[self]) THEN {<<"leave", u>>} ELSE {}
  /\ remembered' = IF synced THEN [remembered EXCEPT ![s] = None] ELSE remembered
  /\ UNCHANGED <<channelVars, session, channel, self, synced, lawful>>

\* handleServerSync and OnConnect, which remembers where everybody is. A server
\* that names no user it has announced is left out: OnConnect would fail on it.
ServerSync(s) ==
  /\ ~synced /\ userOf[s] # None /\ channel[userOf[s]] # None
  /\ self' = userOf[s] /\ synced' = TRUE /\ notices' = {}
  /\ remembered' = [r \in Sessions |->
                      IF userOf[r] = None THEN None ELSE channel[userOf[r]]]
  /\ UNCHANGED <<channelVars, userVars, lawful>>

-----------------------------------------------------------------------------
(* The server                                                              *)

Known == Range(channelOf) \ {None}
Present == Range(userOf) \ {None}

\* A lawful server sends parents before children, never closes a cycle, empties a
\* channel before it removes it, names only what it has announced, and says
\* nothing more to a client whose user it has removed.
Serving == synced => self \in Present
Lawful(A) == lawful => Serving /\ A
Speaking == IF lawful THEN Sessions ELSE WildSessions

Children(c) == {d \in Known : parent[d] = c}

\* How the server knows c and what is below it, however deep.
IsBelow(candidate, c) ==
  \A S \in SUBSET Chans :
    candidate \in S /\ (\A d \in S : parent[d] \in S \cup {None}) => c \in S

LawfulChannel(i, p) ==
  IF i = Root THEN p = Absent
  ELSE IF p = Absent THEN channelOf[i] # None
  ELSE /\ channelOf[p] # None
       /\ channelOf[i] # None => ~IsBelow(channelOf[p], channelOf[i])
LawfulRemoval(i) ==
  /\ i # Root /\ channelOf[i] # None
  /\ Children(channelOf[i]) = {}
  /\ \A u \in Present : channel[u] # channelOf[i]
LawfulUser(actor, i) ==
  /\ channelOf[Root] # None
  /\ actor # Absent => userOf[actor] # None
  /\ i # Absent => channelOf[i] # None

Next ==
  \/ \E i \in Ids, c \in Chans, p \in Ids \cup {Absent}, op \in {"set", "add", "remove"}, to \in LinkSets :
       Lawful(LawfulChannel(i, p)) /\ ChannelState(i, c, p, op, to)
  \/ \E i \in Ids, c \in Chans, p \in Ids \cup {Absent} :
       Lawful(LawfulChannel(i, p)) /\ ChannelState(i, c, p, "none", {})
  \/ \E i \in Ids : Lawful(LawfulRemoval(i)) /\ ChannelRemove(i)
  \/ \E s \in Speaking, u \in Users, actor \in Speaking \cup {Absent}, i \in Ids \cup {Absent} :
       Lawful(LawfulUser(actor, i)) /\ UserState(s, u, actor, i)
  \/ \E s \in Speaking, actor \in Speaking \cup {Absent} :
       Lawful(TRUE) /\ UserRemove(s, actor)
  \/ \E s \in Speaking : ServerSync(s)

Spec == Init /\ [][Next]_vars

-----------------------------------------------------------------------------
(* Properties                                                              *)

TypeOK ==
  /\ channelOf \in [Ids -> Chans \cup {None}] /\ id \in [Chans -> Ids \cup {None}]
  /\ parent \in [Chans -> Chans \cup {None}]
  /\ children \in [Chans -> [Ids -> Chans \cup {None}]]
  /\ links \in [Chans -> [Ids -> Chans \cup {None}]]
  /\ members \in [Chans -> [Sessions -> Users \cup {None}]]
  /\ userOf \in [Sessions -> Users \cup {None}] /\ session \in [Users -> Sessions \cup {None}]
  /\ channel \in [Users -> Chans \cup {None}]
  /\ remembered \in [Sessions -> Chans \cup {None}]
  /\ notices \subseteq {"join", "leave"} \X Users
  /\ synced \in BOOLEAN /\ lawful \in BOOLEAN
  /\ IF synced THEN self \in Users ELSE self = None

Cycle(S) == S # {} /\ \A c \in S : parent[c] \in S

\* Whatever the server sends, and however its moves follow one another: a cycle of
\* channels is longer than isChannelDescendant looks (handlers.go:452-467), so there
\* is none on a server of no more than maxChannelDepth + 1 channels.
CyclesAreLong == \A S \in SUBSET Chans : Cycle(S) => Cardinality(S) > MaxDepth + 1

\* That there is no cycle at all: "Ignore the move rather than corrupt the channel
\* graph" (handlers.go:496-499).
Acyclic == \A S \in SUBSET Chans : ~Cycle(S)

\* Parents and children agree, whatever the server sends: a channel is listed by
\* its parent, by no other, and only while it is known.
FamilyAgrees == \A c, d \in Chans :
  d \in Range(children[c]) <=> d \in Known /\ parent[d] = c

\* Links go both ways and to known channels only, whatever the server sends
\* ("A full replacement must also remove our old reciprocal links",
\* handlers.go:523).
LinksAgree == \A c \in Known, k \in Ids :
  links[c][k] # None => links[c][k] = channelOf[k] /\ links[channelOf[k]][id[c]] = c

\* A channel never lists somebody who has left or is elsewhere, whatever the
\* server sends, and however early a handler gave up.
MembersAgree == \A c \in Chans, s \in Sessions :
  members[c][s] # None => members[c][s] = userOf[s] /\ channel[userOf[s]] = c

\* The maps that say the same from both sides agree, whatever the server sends.
MapsAgree == FamilyAgrees /\ LinksAgree /\ MembersAgree

\* With a lawful server the tree is whole: every channel hangs in the tree
\* and every user is listed by the known channel it is in.
TreeIsWhole == lawful =>
  /\ \A c \in Known : id[c] # Root => parent[c] \in Known
  /\ \A s \in Sessions : userOf[s] # None =>
       /\ channel[userOf[s]] \in Known
       /\ members[channel[userOf[s]]][s] = userOf[s]

\* With a lawful server the application remembers everybody where they are, and
\* nobody who left.
RememberedAgrees == lawful /\ synced =>
  remembered = [s \in Sessions |-> IF userOf[s] = None THEN None ELSE channel[userOf[s]]]

\* With a lawful server the client and the application both know all that there is.
PictureIsWhole == TreeIsWhole /\ RememberedAgrees

\* With a lawful server joins and leaves are announced when, and only when,
\* somebody comes to or goes from the user's own channel.
Here == {u \in Present : channel[u] = channel[self]}
NoticesAreRight == [][
  lawful /\ synced /\ channel'[self] = channel[self] =>
    notices' = {<<"join", u>> : u \in Here' \ Here} \cup {<<"leave", u>> : u \in Here \ Here'}
  ]_vars

=============================================================================
