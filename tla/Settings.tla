------------------------------ MODULE Settings ------------------------------
(***************************************************************************)
(* The list of users and the settings its keys change: how loud a user is  *)
(* and whether he is muted here, kept per name in the settings file and in *)
(* the user himself, by the user interface and by the protocol reader.     *)
(*                                                                         *)
(* A user is an object, named by the order in which the client made it; a  *)
(* user who comes back is another object with the same name. The server's  *)
(* changes are made under volatile, their listener (OnUserChange) runs     *)
(* after it was released. Config.mu is held for one change of the settings *)
(* and, with it, one save.                                                 *)
(***************************************************************************)
EXTENDS Naturals, SequencesExt

CONSTANTS
  Names,      \* of users
  Channels,   \* channels, in the order of the list
  Nobody,     \* no channel, no event, nobody holds Config.mu
  Torn,       \* a settings file that was written in part
  Files,      \* the settings files the program may start with
  MaxLines,   \* maxTreeLines, 100000
  MaxLevel,   \* bound: steps of volume the keys reach
  MaxUsers,   \* bound: users the client is told of
  MaxMoves,   \* bound: users moved by the server
  MaxKeys     \* bound: keys pressed, and times the program is killed

\* What the settings say of a user, and what OnUserChange is doing.
Entry == [level : 0 .. MaxLevel + 2, muted : BOOLEAN]
Happening == [of : Nat, next : {"update", "check", "mute", "post"}]

ASSUME SettingsAssumption ==
  /\ Channels \in Seq(Range(Channels)) /\ IsInjective(Channels)
  /\ Nobody \notin Range(Channels) \cup {"reader", "ui"} \cup Happening
  /\ Torn \notin [Names -> Entry] /\ Files \subseteq [Names -> Entry]
  /\ {MaxLines, MaxLevel, MaxUsers, MaxMoves, MaxKeys} \subseteq Nat

Default == [level |-> 1, muted |-> FALSE]

\* Boost 0 is taken for 65536 where one is subtracted. A new user has it, and an
\* entry of a file that does not say (eUser); UpdateUser makes it 1.
Wild == MaxLevel + 1
Bare == MaxLevel + 2
Unset == [level |-> Bare, muted |-> FALSE]
Applied(entry) == [entry EXCEPT !.level = IF @ = Bare THEN 0 ELSE @]

VARIABLES
  name,    \* of every user made so far
  at,      \* the channel of every user, or Nobody when he has left
  live,    \* boost, volume and locallyMuted of every user
  event,   \* what OnUserChange is doing: about whom, and what is next; or Nobody
  entries, \* the users of the settings, by name
  file,    \* the settings file
  saving,  \* who holds Config.mu for a save and how far it is
  muted,   \* MutedChannels
  queue,   \* how many rebuilds are in Ui.events
  shown,   \* the users in the lines of the tree, each in a channel
  ui,      \* what the user interface is doing
  failed,  \* history: the last save failed
  missed,  \* history: since a rebuild was begun Post dropped one, or it was cut short
  left     \* what is left of the bounds

settings == <<name, at, live, event, entries, file, saving, muted, queue, shown, ui, failed, missed, left>>

Users == 1 .. Len(name)
Members == {o \in Users : at[o] # Nobody}
UsersOf(c) == {o \in Users : at[o] = c}
Fresh == [n \in Names |-> Default]
NotSaving == [by |-> Nobody, written |-> FALSE]
Idle == [at |-> "idle", todo |-> {}]

SettingsInit ==
  /\ name = <<>> /\ at = <<>> /\ live = <<>>
  /\ event = Nobody /\ file \in Files /\ entries = file /\ saving = NotSaving
  /\ muted = {} /\ queue = 0 /\ shown = {} /\ ui = Idle
  /\ failed = FALSE /\ missed = FALSE
  /\ left = [moves |-> MaxMoves, keys |-> MaxKeys]

\* The program ends, and is started again: LoadConfig.
Restart ==
  /\ entries' = file
  /\ name' = <<>> /\ at' = <<>> /\ live' = <<>>
  /\ event' = Nobody /\ saving' = NotSaving
  /\ muted' = {} /\ queue' = 0 /\ shown' = {} /\ ui' = Idle
  /\ failed' = FALSE /\ missed' = FALSE
  /\ UNCHANGED file

-----------------------------------------------------------------------------
(* Settings, under Config.mu                                               *)

Free == saving.by = Nobody

\* The client of a user is nil when he has left (handleUserRemove).
HasClient(o) == at[o] # Nobody

\* ToggleMute: the entry is switched, and the user follows it. A save begins.
ToggleMute(o, who) ==
  /\ Free /\ HasClient(o)
  /\ entries' = [entries EXCEPT ![name[o]].muted = ~@]
  /\ live' = [live EXCEPT ![o].muted = ~entries[name[o]].muted]
  /\ saving' = [by |-> who, written |-> FALSE]

\* UpdateConfig
UpdateConfig(o) ==
  /\ Free /\ HasClient(o)
  /\ entries' = [entries EXCEPT ![name[o]] = live[o]]

\* Both ask the client for its address, and fail when there is none.
NilClient(o) == Free /\ ~HasClient(o) /\ Restart

\* UpdateUser. A missing entry is made, with what Default says; a user who has
\* left is let be.
UpdateUser(o) ==
  /\ Free
  /\ live' = IF HasClient(o) THEN [live EXCEPT ![o] = Applied(entries[name[o]])] ELSE live

\* Mutant: the settings are written over the file.
SaveWrite_InPlace ==
  /\ ~Free /\ ~saving.written
  /\ saving' = [saving EXCEPT !.written = TRUE]
  /\ file' = Torn
  /\ UNCHANGED <<name, at, live, event, entries, muted, queue, shown, ui, failed, missed, left>>

\* saveConfigLocked: a temporary file is written ...
SaveWrite ==
  /\ ~Free /\ ~saving.written
  /\ saving' = [saving EXCEPT !.written = TRUE]
  /\ UNCHANGED <<name, at, live, event, entries, file, muted, queue, shown, ui, failed, missed, left>>

\* ... and takes the place of the file.
SaveRename ==
  /\ ~Free /\ saving.written
  /\ file' = entries /\ failed' = FALSE
  /\ saving' = NotSaving
  /\ UNCHANGED <<name, at, live, event, entries, muted, queue, shown, ui, missed, left>>

\* The directory, the temporary file or the renaming fails: the file stays.
SaveFails ==
  /\ ~Free /\ saving.written
  /\ failed' = TRUE
  /\ saving' = NotSaving
  /\ UNCHANGED <<name, at, live, event, entries, file, muted, queue, shown, ui, missed, left>>

\* The program is killed.
Crash ==
  /\ left.keys > 0 /\ file # Torn
  /\ left' = [left EXCEPT !.keys = @ - 1]
  /\ Restart

-----------------------------------------------------------------------------
(* The protocol reader                                                     *)

Serving(next) == event # Nobody /\ event.next = next

\* A user joins, moves or leaves, under volatile.
Join(n, c) ==
  /\ event = Nobody /\ Len(name) < MaxUsers /\ n \notin {name[o] : o \in Members}
  /\ name' = Append(name, n) /\ at' = Append(at, c) /\ live' = Append(live, Unset)
  /\ event' = [of |-> Len(name) + 1, next |-> "update"]
  /\ UNCHANGED <<entries, file, saving, muted, queue, shown, ui, failed, missed, left>>

Move(o, c) ==
  /\ event = Nobody /\ o \in Members /\ c # at[o] /\ left.moves > 0
  /\ at' = [at EXCEPT ![o] = c]
  /\ event' = [of |-> o, next |-> "update"]
  /\ left' = [left EXCEPT !.moves = @ - 1]
  /\ UNCHANGED <<name, live, entries, file, saving, muted, queue, shown, ui, failed, missed>>

\* OnUserChange: the user gets what his entry says.
Update ==
  /\ Serving("update")
  /\ UpdateUser(event.of)
  /\ event' = [event EXCEPT !.next = IF HasClient(event.of) THEN "check" ELSE "post"]
  /\ UNCHANGED <<name, at, entries, file, saving, muted, queue, shown, ui, failed, missed, left>>

\* "Check if user is joining a muted channel."
CheckChannel ==
  /\ Serving("check")
  /\ event' = [event EXCEPT !.next = IF at[event.of] \in muted /\ ~live[event.of].muted THEN "mute" ELSE "post"]
  /\ UNCHANGED <<name, at, live, entries, file, saving, muted, queue, shown, ui, failed, missed, left>>

MuteJoiner ==
  /\ Serving("mute")
  /\ ToggleMute(event.of, "reader")
  /\ event' = [event EXCEPT !.next = "post"]
  /\ UNCHANGED <<name, at, file, muted, queue, shown, ui, failed, missed, left>>

\* Ui.Post: what does not fit among the other events in the queue is dropped.
Post ==
  \/ queue' = queue + 1 /\ UNCHANGED missed
  \/ missed' = TRUE /\ UNCHANGED queue

\* Mutant: one rebuild is enough while the list is rebuilt.
PostRebuild_Once ==
  /\ Serving("post") /\ saving.by # "reader"
  /\ IF ui.at = "rebuild" THEN UNCHANGED <<queue, missed>> ELSE Post
  /\ event' = Nobody
  /\ UNCHANGED <<name, at, live, entries, file, saving, muted, shown, ui, failed, left>>

\* The end of OnUserChange.
PostRebuild ==
  /\ Serving("post") /\ saving.by # "reader"
  /\ Post
  /\ event' = Nobody
  /\ UNCHANGED <<name, at, live, entries, file, saving, muted, shown, ui, failed, left>>

-----------------------------------------------------------------------------
(* The user interface                                                      *)

\* It goes on when a save of its own has ended.
Doing(what) == ui.at = what /\ saving.by # "ui"

Rebuilding == [at |-> "rebuild", todo |-> {}, channels |-> Channels, seen |-> {}]
BeginRebuild == ui' = Rebuilding /\ missed' = FALSE

HandleEvent ==
  /\ Doing("idle") /\ queue > 0
  /\ queue' = queue - 1
  /\ BeginRebuild
  /\ UNCHANGED <<name, at, live, event, entries, file, saving, muted, shown, failed, left>>

\* Tree.rebuild asks TreeItemBuild for one channel after the other, each under
\* volatile for itself, and shows all of it at the end. A channel has a line of
\* its own.
Lines == Len(Channels) - Len(ui.channels) + Cardinality(ui.seen)
See(us, rest) == ui' = [ui EXCEPT !.channels = rest, !.seen = @ \cup us \X {Head(ui.channels)}]

RebuildChannel ==
  /\ Doing("rebuild") /\ ui.channels # <<>>
  /\ LET us == UsersOf(Head(ui.channels)) IN
     Lines + 1 + Cardinality(us) <= MaxLines /\ See(us, Tail(ui.channels))
  /\ UNCHANGED <<name, at, live, event, entries, file, saving, muted, queue, shown, failed, missed, left>>

\* What does not fit is left out, and the channels that follow are not asked for.
CutRebuild ==
  /\ Doing("rebuild") /\ ui.channels # <<>>
  /\ Lines + 1 + Cardinality(UsersOf(Head(ui.channels))) > MaxLines
  /\ \E us \in SUBSET UsersOf(Head(ui.channels)) :
       /\ IF Lines < MaxLines THEN Lines + 1 + Cardinality(us) = MaxLines ELSE us = {}
       /\ See(us, <<>>)
  /\ missed' = TRUE
  /\ UNCHANGED <<name, at, live, event, entries, file, saving, muted, queue, shown, failed, left>>

RebuildEnds ==
  /\ Doing("rebuild") /\ ui.channels = <<>>
  /\ shown' = ui.seen
  /\ ui' = Idle
  /\ UNCHANGED <<name, at, live, event, entries, file, saving, muted, queue, failed, missed, left>>

Key == Doing("idle") /\ left.keys > 0 /\ left' = [left EXCEPT !.keys = @ - 1]

ShownUsers == {line[1] : line \in shown}

\* The mute key on a user of the list.
PressMute(o) ==
  /\ Key
  /\ ToggleMute(o, "ui")
  /\ BeginRebuild
  /\ UNCHANGED <<name, at, event, file, muted, queue, shown, failed>>

\* The mute key on a channel: its users are muted or unmuted one by one.
PressMuteChannel(c) ==
  /\ Key
  /\ ui' = [at |-> "mute", todo |-> UsersOf(c), channel |-> c, mute |-> c \notin muted]
  /\ UNCHANGED <<name, at, live, event, entries, file, saving, muted, queue, shown, failed, missed>>

MuteOne(o) ==
  /\ Doing("mute") /\ live[o].muted # ui.mute
  /\ ToggleMute(o, "ui")
  /\ ui' = [ui EXCEPT !.todo = @ \ {o}]
  /\ UNCHANGED <<name, at, event, file, muted, queue, shown, failed, missed, left>>

SkipOne(o) ==
  /\ Doing("mute") /\ live[o].muted = ui.mute
  /\ ui' = [ui EXCEPT !.todo = @ \ {o}]
  /\ UNCHANGED <<name, at, live, event, entries, file, saving, muted, queue, shown, failed, missed, left>>

SetChannelMuted ==
  /\ Doing("mute") /\ ui.todo = {}
  /\ muted' = IF ui.mute THEN muted \cup {ui.channel} ELSE muted \ {ui.channel}
  /\ BeginRebuild
  /\ UNCHANGED <<name, at, live, event, entries, file, saving, queue, shown, failed, left>>

Volumes == {"down", "up", "reset"}

\* A volume key on a user or, for all who are in it, on a channel.
PressVolume(users, how) ==
  /\ Key
  /\ how = "up" => \A o \in users : MaxLevel \notin {live[o].level, entries[name[o]].level}
  /\ ui' = [at |-> "level", todo |-> users, how |-> how]
  /\ UNCHANGED <<name, at, live, event, entries, file, saving, muted, queue, shown, failed, missed>>

NewLevel(l) ==
  IF ui.how = "reset" THEN Default.level
  ELSE IF l \in {Bare, Wild} THEN Wild
  ELSE IF ui.how = "up" THEN l + 1 ELSE IF l = 0 THEN 0 ELSE l - 1

\* changeVolume and resetVolume, for one of the users: SetBoost and SetVolume ...
SetLevel(o) ==
  /\ Doing("level")
  /\ live' = [live EXCEPT ![o].level = NewLevel(@)]
  /\ ui' = [at |-> "store", todo |-> ui.todo \ {o}, how |-> ui.how, of |-> o]
  /\ UNCHANGED <<name, at, event, entries, file, saving, muted, queue, shown, failed, missed, left>>

\* Mutant: the entry goes the same step as the user.
Store_Apart ==
  /\ Doing("store") /\ Free /\ HasClient(ui.of)
  /\ entries' = [entries EXCEPT ![name[ui.of]].level = NewLevel(@)]
  /\ ui' = [at |-> "level", todo |-> ui.todo, how |-> ui.how]
  /\ UNCHANGED <<name, at, live, event, file, saving, muted, queue, shown, failed, missed, left>>

\* ... and UpdateConfig.
Store ==
  /\ Doing("store")
  /\ UpdateConfig(ui.of)
  /\ ui' = [at |-> "level", todo |-> ui.todo, how |-> ui.how]
  /\ UNCHANGED <<name, at, live, event, file, saving, muted, queue, shown, failed, missed, left>>

\* A key on the line of a user who has left, or one who leaves before his turn has
\* come: the program panics.
Panic ==
  \/ \E o \in ShownUsers : Key /\ NilClient(o)
  \/ Doing("mute") /\ UNCHANGED left
     /\ \E o \in ui.todo : live[o].muted # ui.mute /\ NilClient(o)
  \/ Doing("store") /\ UNCHANGED left /\ NilClient(ui.of)

\* The keys for noise suppression and for the gain control: a setting of the
\* program is switched, and all of them are saved.
PressSwitch ==
  /\ Key /\ Free
  /\ saving' = [by |-> "ui", written |-> FALSE]
  /\ UNCHANGED <<name, at, live, event, entries, file, muted, queue, shown, ui, failed, missed>>

\* Mutant: what the keys change is kept for the next save.
SaveConfig_Later ==
  /\ Doing("level") /\ ui.todo = {}
  /\ BeginRebuild
  /\ UNCHANGED <<name, at, live, event, entries, file, saving, muted, queue, shown, failed, left>>

\* SaveConfig, when all of them are done.
SaveConfig ==
  /\ Doing("level") /\ ui.todo = {} /\ Free
  /\ saving' = [by |-> "ui", written |-> FALSE]
  /\ BeginRebuild
  /\ UNCHANGED <<name, at, live, event, entries, file, muted, queue, shown, failed, left>>

SettingsNext ==
  \/ SaveWrite \/ SaveRename \/ SaveFails \/ Crash
  \/ \E n \in Names, c \in Range(Channels) : Join(n, c)
  \/ \E o \in Users, c \in Range(Channels) \cup {Nobody} : Move(o, c)
  \/ Update \/ CheckChannel \/ MuteJoiner \/ PostRebuild
  \/ HandleEvent \/ RebuildChannel \/ CutRebuild \/ RebuildEnds
  \/ \E o \in ShownUsers : PressMute(o) \/ \E how \in Volumes : PressVolume({o}, how)
  \/ \E c \in Range(Channels) : PressMuteChannel(c) \/ \E how \in Volumes : PressVolume(UsersOf(c), how)
  \/ \E o \in ui.todo : MuteOne(o) \/ SkipOne(o) \/ SetLevel(o)
  \/ PressSwitch \/ SetChannelMuted \/ Store \/ SaveConfig \/ Panic

SettingsSpec == SettingsInit /\ [][SettingsNext]_settings

-----------------------------------------------------------------------------
(* Properties                                                              *)

Quiet == ui = Idle /\ event = Nobody /\ Free

\* "SaveConfig atomically replaces the persisted configuration" (user_config.go:49):
\* wherever the program is killed, it finds settings it can start from.
FileIsWhole == file # Torn

\* When neither the reader nor the user interface is at it, what was changed by a
\* key or by joining a muted channel is in the file, unless the save failed.
SavedIsCurrent == Quiet /\ ~failed => file = entries

\* A user who is here has what the settings say of his name, although both the
\* reader and the user interface copy one to the other, and a user who comes back
\* is another one.
UsersFollowSettings == Quiet => \A o \in Members : live[o] = Applied(entries[name[o]])

\* When the queue is empty the list shows who is where, although it is read in
\* parts while users come and go; unless a rebuild was dropped by a full queue or cut
\* at maxTreeLines.
ListCatchesUp == Quiet /\ queue = 0 /\ ~missed => shown = {<<o, at[o]>> : o \in Members}

\* "If the channel is muted, ensure the user is muted" (client.go:347): also one
\* who joins while the channel is being muted.
MutedChannelsMute == Quiet => \A o \in Members : at[o] \in muted => live[o].muted

\* A volume that was stored is one the keys can set.
LevelsAreSet == \A n \in Names : entries[n].level # Wild

\* The keys survive a user who has left: UpdateUser looks whether there is a client
\* (user_config.go:419), ToggleMute and UpdateConfig do not (306, 434).
KeysSurvive == [][~Panic]_settings

=============================================================================
