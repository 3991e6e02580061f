------------------------------- MODULE Admin --------------------------------
(***************************************************************************)
(* The administration menu: what it is opened for, the prompts its items   *)
(* leave behind in the input line, the lists of bans and the ACL it edits  *)
(* and sends back, and the queue through which the protocol reader hands   *)
(* what the server answered to the goroutine of the user interface.        *)
(*                                                                         *)
(* A user or a channel is an object, named by the order in which the       *)
(* client made it, and `slot' is the session or the channel number the     *)
(* server gave it; a slot that was left is given to another. Every item    *)
(* that acts on the user, on the channel, or on nothing is like its        *)
(* neighbours here: what it sends is its object. State changes of the      *)
(* reader wait for volatile, which the user interface holds while an       *)
(* action runs (withValidAdminTargets). An object that was removed has no  *)
(* client, and what asks it for one panics.                                *)
(***************************************************************************)
EXTENDS Naturals, SequencesExt

CONSTANTS
  UserSlots,    \* session numbers
  ChannelSlots, \* channel numbers
  Bans,         \* bans that exist or may be added
  Nobody,       \* no user, no channel, no ACL, no prompt, no action
  QueueSize,    \* 256 in the code
  MaxObjects,   \* bound: users and channels the client is told of
  MaxLosses,    \* bound: connections that are lost
  MaxRequests,  \* bound: lists the administrator asks for
  MaxOpens,     \* bound: times the menu is opened
  MaxBans       \* bound: entries of adminBanList to which one is added

Slots == UserSlots \cup ChannelSlots

ASSUME AdminAssumption ==
  /\ UserSlots \cap ChannelSlots = {} /\ Nobody \notin Nat /\ QueueSize \in Nat \ {0}
  /\ {MaxObjects, MaxLosses, MaxRequests, MaxOpens, MaxBans} \subseteq Nat

VARIABLES
  running,  \* the program has not panicked
  made,     \* the slot of every object made so far
  removed,  \* the objects a handler removed: their client is nil
  members,  \* the Users and Channels of b.Client
  waiting,  \* the change the reader waits to make under volatile, as a slot, or Nobody
  answers,  \* what the server has answered and the reader has not read
  events,   \* Ui.events
  banned,   \* of the server: its bans
  banList,  \* adminBanList: each ban, and whether it was unbanned
  acl,      \* adminACL, by its channel
  target,   \* adminTargetUser and adminTargetChan
  menu,     \* what the items of the menu were built from
  prompt,   \* pendingAdminPrompt: the object its action holds, and what it will do
  focus,    \* the active view: "input", "tree", "admin"
  doing,    \* the action that runs, and the connection it began in
  reopened, \* history: the menu was opened again while the prompt was pending
  left      \* what is left of the bounds

serverVars == <<made, members, removed, waiting, answers, banned>>
uiVars == <<target, menu, prompt, focus, doing, reopened>>
listVars == <<banList, acl>>
adminVars == <<made, members, removed, waiting, answers, banned, events, target, menu, prompt, focus,
               doing, reopened, banList, acl, left, running>>

Objects == 1 .. Len(made)
IsUser(o) == made[o] \in UserSlots
Users == {o \in Objects : IsUser(o)}
Channels == Objects \ Users
IsMember(o) == members[made[o]] = o
Gone == 0 \* a slot nobody has

AdminInit ==
  /\ running = TRUE
  /\ made = <<>> /\ members = [s \in Slots |-> Gone] /\ removed = {}
  /\ waiting = Nobody /\ answers = <<>> /\ events = <<>>
  /\ banned \in SUBSET Bans
  /\ banList = <<>> /\ acl = Nobody
  /\ target = [user |-> Nobody, chan |-> Nobody]
  /\ menu = [user |-> Nobody, chan |-> Nobody, bans |-> <<>>, acl |-> Nobody]
  /\ prompt = Nobody /\ focus = "input" /\ doing = Nobody /\ reopened = FALSE
  /\ left = [losses |-> MaxLosses, requests |-> MaxRequests, opens |-> MaxOpens]

\* Ui.Post: what does not fit is dropped.
Post(e) == events' = IF Len(events) < QueueSize THEN Append(events, e) ELSE events

\* The client of an object that was removed is asked for something.
Panic == running' = FALSE /\ UNCHANGED <<made, members, removed, waiting, answers, banned, events, target,
                                       menu, prompt, focus, doing, reopened, banList, acl, left>>

Line == [kind |-> "line"] \* AddOutputLine, a rebuilt tree, an input status

-----------------------------------------------------------------------------
(* The server and the reader                                               *)

\* A handler that adds or removes a user or a channel asks for volatile.
Change(s) ==
  /\ waiting = Nobody
  /\ members[s] = Gone => Len(made) < MaxObjects
  /\ waiting' = s
  /\ UNCHANGED <<made, members, removed, answers, banned, events, uiVars, listVars, left, running>>

\* Mutant: the lock is given back when the targets have been looked at.
InsideDo_Never == FALSE

\* An action runs inside Client.Do of this connection, and not of one that was lost.
InsideDo == doing # Nobody /\ doing.does \notin {"command", "rebuild"} /\ doing.during = left.losses

\* It has volatile: nobody is inside Client.Do.
Changed ==
  /\ waiting # Nobody /\ ~InsideDo
  /\ IF members[waiting] = Gone
     THEN /\ made' = Append(made, waiting)
          /\ members' = [members EXCEPT ![waiting] = Len(made) + 1]
          /\ UNCHANGED removed
     ELSE /\ members' = [members EXCEPT ![waiting] = Gone]
          /\ removed' = removed \cup {members[waiting]}
          /\ UNCHANGED made
  /\ waiting' = Nobody
  /\ Post(Line)
  /\ UNCHANGED <<answers, banned, uiVars, listVars, left, running>>

\* The connection is lost, and OnConnect replaces b.Client, with no lock, by the
\* next one. The objects of the lost one keep their client.
Reconnect ==
  /\ left.losses > 0 /\ waiting = Nobody
  /\ left' = [left EXCEPT !.losses = @ - 1]
  /\ members' = [s \in Slots |-> Gone] /\ answers' = <<>>
  /\ UNCHANGED <<made, removed, waiting, banned, events, uiVars, listVars, running>>

\* OnBanList and OnACL, called by the reader without volatile. The ACL of a
\* channel that is gone by then is refused.
Answered ==
  /\ waiting = Nobody /\ answers # <<>>
  /\ answers' = Tail(answers)
  /\ IF Head(answers).kind = "acl" /\ ~IsMember(Head(answers).of)
     THEN UNCHANGED events
     ELSE Post(Head(answers))
  /\ UNCHANGED <<made, members, removed, waiting, banned, uiVars, listVars, left, running>>

-----------------------------------------------------------------------------
(* The user interface                                                      *)

\* Run is not inside a handler.
Ui == doing = Nobody

Names(list) == [i \in DOMAIN list |-> list[i].ban]

\* UiAdmin.Rebuild, with AdminItemBuild, for the targets t. adminCanChannel asks the
\* client of the channel for its permissions and, when there is a user, those of the
\* channels he and Self were last in, which may be any.
MenuFor(t, list, a) == [user |-> t.user, chan |-> t.chan, bans |-> Names(list), acl |-> a]
NilClient(t) == t.chan \in removed \/ (t.user # Nobody /\ removed \cap Channels # {})
Rebuild(t) ==
  \/ t.chan \notin removed /\ menu' = MenuFor(t, banList', acl') /\ UNCHANGED running
  \/ NilClient(t) /\ running' = FALSE /\ UNCHANGED menu

\* Mutant: the menu is not rebuilt for the list that came.
HandleEvent_Stale ==
  /\ Ui /\ events # <<>>
  /\ events' = Tail(events)
  /\ LET e == Head(events) IN
     /\ banList' = IF e.kind = "bans" THEN e.list ELSE banList
     /\ acl' = IF e.kind = "acl" THEN e.of ELSE acl
  /\ UNCHANGED <<target, menu, prompt, focus, doing, reopened, serverVars, left, running>>

\* Run takes a function from the queue.
HandleEvent ==
  /\ Ui /\ events # <<>>
  /\ events' = Tail(events)
  /\ LET e == Head(events) IN
     /\ banList' = IF e.kind = "bans" THEN e.list ELSE banList
     /\ acl' = IF e.kind = "acl" THEN e.of ELSE acl
     /\ IF e.kind = "line" THEN UNCHANGED <<menu, running>> ELSE Rebuild(target)
  /\ UNCHANGED <<target, prompt, focus, doing, reopened, serverVars, left>>

\* OpenAdminMenu: for the selected user or the item of the tree, which may show
\* one who has gone. RequestPermission asks the client of the channel, too.
OpenMenu(u, c) ==
  /\ Ui /\ left.opens > 0
  /\ left' = [left EXCEPT !.opens = @ - 1]
  /\ target' = [user |-> u, chan |-> c]
  /\ UNCHANGED listVars /\ Rebuild(target')
  /\ focus' = "admin"
  /\ reopened' = (prompt # Nobody)
  /\ Post(Line)
  /\ UNCHANGED <<prompt, doing, serverVars>>

\* OnAdminEscape
Leave ==
  /\ prompt' = Nobody
  /\ focus' = IF prompt = Nobody THEN "tree" ELSE focus

Escape ==
  /\ Ui /\ (prompt # Nobody \/ focus = "admin")
  /\ Leave /\ Post(Line)
  /\ UNCHANGED <<target, menu, doing, reopened, serverVars, listVars, left, running>>

\* OnFocusPress
SwitchView ==
  /\ Ui
  /\ focus' = IF focus = "input" THEN "tree" ELSE "input"
  /\ UNCHANGED <<events, target, menu, prompt, doing, reopened, serverVars, listVars, left, running>>

\* Mutant: the menu knows that its targets were there.
TargetsAreValid_Once == TRUE

\* Users[u.Session] = u and Channels[ch.ID] = ch, for the targets there are.
TargetsAreValid == \A o \in {target.user, target.chan} \ {Nobody} : IsMember(o)

Deed(does, o) == [does |-> does, of |-> o, during |-> left.losses]

\* withValidAdminTargets takes volatile as a reader and looks at the targets.
\* Otherwise "action target is no longer available", and what follows an action follows.
Within(does, o, after) ==
  /\ doing' = IF TargetsAreValid THEN Deed(does, o) ELSE after
  /\ IF TargetsAreValid THEN UNCHANGED events ELSE Post(Line)

Item(does, o) == [does |-> does, of |-> o]

\* The items of the menu, those that permission is not known to be missing for.
\* Several that do the same to their object are one here.
InformationItems ==
  {Item("ask", o) : o \in {menu.user, menu.chan} \ {Nobody}} \cup {Item("send", o) : o \in {menu.chan} \ {Nobody}}
UserItems == {Item(does, o) : does \in {"send", "prompt"}, o \in {menu.user} \ {Nobody}}
ChannelItems == {Item(does, o) : does \in {"send", "prompt"}, o \in {menu.chan} \ {Nobody}}
BanItems == {Item("bans", Nobody), Item("promptBan", Nobody)} \cup {Item("unban", i) : i \in DOMAIN menu.bans}
ACLItems ==
  {Item("request", o) : o \in {menu.chan} \ {Nobody}} \cup
  {Item(does, o) : does \in {"acl", "promptRaw"}, o \in ({menu.acl} \cap {menu.chan}) \ {Nobody}}
ContextItems ==
  {Item(does, Nobody) : does \in {"nothing", "close"}} \cup {Item("send", o) : o \in {menu.user, menu.chan} \ {Nobody}}
Items == InformationItems \cup UserItems \cup ChannelItems \cup BanItems \cup ACLItems \cup ContextItems

\* Enter on an item: it acts, or it asks for text first.
PressItem(item) ==
  /\ Ui /\ focus = "admin"
  /\ Within(item.does, item.of, Deed("rebuild", Nobody))
  /\ UNCHANGED <<target, menu, prompt, focus, reopened, serverVars, listVars, left, running>>

Texts == {"answer", "ban", "raw", "find", "refuse"}

\* handleAdminPrompt, with a text the action takes for what it asked, or not.
TypeText(does, o) ==
  /\ Ui /\ focus = "input" /\ prompt # Nobody
  /\ \/ does = prompt.does /\ o = prompt.of /\ does # "ban"
     \/ does = "ban" /\ prompt.does = "ban" /\ o \in Bans /\ Len(banList) < MaxBans
     \/ does = "find" /\ prompt.does = "raw" /\ o = Nobody \* "acl request <channel>"
     \/ does = "refuse" /\ o = Nobody
  /\ prompt' = Nobody
  /\ Within(does, o, Nobody)
  /\ UNCHANGED <<target, menu, focus, reopened, serverVars, listVars, left, running>>

\* CommandAdmin: findUser or findChannel holds volatile only while it looks; "acl
\* request" alone means the channel of the menu.
TypeCommand(o) ==
  /\ Ui /\ focus = "input" /\ prompt = Nobody
  /\ IsMember(o) \/ o = target.chan
  /\ doing' = Deed("command", o)
  /\ UNCHANGED <<events, target, menu, prompt, focus, reopened, serverVars, listVars, left, running>>

\* writeMessage of the list: the server keeps the bans that are in it.
SendBans(list) == banned' = {b \in Bans : \E i \in DOMAIN list : list[i] = [ban |-> b, unban |-> FALSE]}

Acting == doing # Nobody

\* The menu is built again after an item, and not after the text for a prompt.
Done == doing' =
  IF doing.does \in Texts \cup {"command", "found", "rebuild"} THEN Nobody ELSE Deed("rebuild", Nobody)

BanSeqs == {s \in BoundedSeq(Bans, Cardinality(Bans)) : IsInjective(s)}
Entries(bs) == [i \in DOMAIN bs |-> [ban |-> bs[i], unban |-> FALSE]]

\* A list is asked for, and the server answers.
Ask(answer) ==
  /\ answers' = IF left.requests = 0 THEN answers ELSE Append(answers, answer)
  /\ left' = IF left.requests = 0 THEN left ELSE [left EXCEPT !.requests = @ - 1]

\* RequestBanList and RequestACL
AskBans == \E bs \in BanSeqs : Range(bs) = banned /\ Ask([kind |-> "bans", list |-> Entries(bs)])
AskACL(c) == Ask([kind |-> "acl", of |-> c])

\* A packet about a user or a channel, the ACL of the channel, or a request for it.
Send ==
  /\ Acting /\ doing.does \in {"ask", "send", "acl", "request", "answer"}
  /\ \/ /\ Done /\ Post(Line)
        /\ IF doing.does = "request" THEN AskACL(doing.of) ELSE UNCHANGED <<answers, left>>
        /\ focus' = IF doing.does = "ask" THEN "input" ELSE focus \* showOutputAfterInfoRequest
        /\ UNCHANGED <<made, members, removed, waiting, banned, target, menu, prompt, reopened, listVars, running>>
     \/ doing.of \in removed /\ doing.does # "acl" /\ Panic

\* RequestBanList; an item, or a text, that sends nothing about the targets.
SendElse ==
  /\ Acting /\ doing.does \in {"bans", "nothing", "refuse"}
  /\ Done /\ Post(Line)
  /\ IF doing.does = "bans" THEN AskBans ELSE UNCHANGED <<answers, left>>
  /\ UNCHANGED <<made, members, removed, waiting, banned, target, menu, prompt, focus, reopened, listVars, running>>

\* closeAdminAction
Close ==
  /\ Acting /\ doing.does = "close"
  /\ Done /\ Leave /\ Post(Line)
  /\ UNCHANGED <<target, menu, reopened, serverVars, listVars, left, running>>

Answer == [prompt |-> "answer", promptBan |-> "ban", promptRaw |-> "raw"]

\* promptAdmin
Prompt ==
  /\ Acting /\ doing.does \in DOMAIN Answer
  /\ prompt' = [does |-> Answer[doing.does], of |-> doing.of]
  /\ reopened' = FALSE
  /\ focus' = "input"
  /\ Done /\ Post(Line)
  /\ UNCHANGED <<target, menu, serverVars, listVars, left, running>>

\* findChannel inside the action takes volatile once more: rpwMutex lets a reader
\* in while a writer waits for another. The channel is there, or is not found.
Find(c) ==
  /\ Acting /\ doing.does = "find"
  /\ IF c = Nobody
     THEN Done /\ Post(Line)
     ELSE /\ IsMember(c) \/ c = target.chan
          /\ doing' = [does |-> "found", of |-> c, during |-> doing.during]
          /\ UNCHANGED events
  /\ UNCHANGED <<target, menu, prompt, focus, reopened, serverVars, listVars, left, running>>

\* executeACLCommand: a raw command, about the ACL that is loaded by now, or a request
\* for that of the channel it found; or another typed command, about what it found.
SendTyped ==
  /\ Acting /\ doing.does \in {"raw", "command", "found"}
  /\ \/ /\ Done /\ Post(Line)
        /\ \/ doing.does # "found" /\ UNCHANGED <<answers, left>>
           \/ doing.does # "raw" /\ doing.of \in Channels /\ AskACL(doing.of)
        /\ UNCHANGED <<made, members, removed, waiting, banned, target, menu, prompt, focus, reopened, listVars, running>>
     \/ doing.does # "raw" /\ doing.of \in removed /\ Panic

\* What AdminItemKeyPress does when volatile was given back: other changes may have
\* been made by then.
RebuildMenu ==
  /\ Acting /\ doing.does = "rebuild"
  /\ Done /\ UNCHANGED listVars /\ Rebuild(target)
  /\ UNCHANGED <<events, target, prompt, focus, reopened, serverVars, left>>

\* unbanIndex
UnbanIndex(i) ==
  /\ IF i \in DOMAIN banList
     THEN banList' = [banList EXCEPT ![i].unban = TRUE] /\ SendBans(banList')
     ELSE UNCHANGED <<banList, banned>>
  /\ Post(Line)
  /\ UNCHANGED <<made, members, removed, waiting, answers, acl, target, menu, prompt, focus, reopened, left, running>>

Unban == Acting /\ doing.does = "unban" /\ UnbanIndex(doing.of) /\ Done

\* addManualBan, with BanList.Add
AddBan ==
  /\ Acting /\ doing.does = "ban"
  /\ banList' = Append(banList, [ban |-> doing.of, unban |-> FALSE])
  /\ SendBans(banList')
  /\ Done /\ Post(Line)
  /\ UNCHANGED <<made, members, removed, waiting, answers, acl, target, menu, prompt, focus, reopened, left, running>>

\* "/admin banlist" and "/admin unban"
Typing == Ui /\ focus = "input" /\ prompt = Nobody

RequestBans ==
  /\ Typing /\ AskBans /\ Post(Line)
  /\ UNCHANGED <<made, members, removed, waiting, banned, uiVars, listVars, running>>

TypeUnban(i) == Typing /\ UnbanIndex(i) /\ UNCHANGED doing

Act ==
  \/ Send \/ SendElse \/ Close \/ Prompt \/ SendTyped \/ (\E c \in Channels \cup {Nobody} : Find(c))
  \/ Unban \/ AddBan \/ RebuildMenu

AdminNext ==
  /\ running
  /\ \/ \E s \in Slots : Change(s)
     \/ Changed \/ Reconnect \/ Answered
     \/ HandleEvent \/ Escape \/ SwitchView \/ Act
     \/ \E item \in Items : PressItem(item)
     \/ \E o \in Objects : TypeCommand(o)
     \/ \E does \in Texts, o \in {Nobody} \cup Bans \cup Objects : TypeText(does, o)
     \/ \E u \in Users \cup {Nobody}, c \in Channels \cup {Nobody} : OpenMenu(u, c)
     \/ RequestBans \/ \E i \in DOMAIN banList : TypeUnban(i)

AdminSpec == AdminInit /\ [][AdminNext]_adminVars

-----------------------------------------------------------------------------
(* Properties                                                              *)

\* "Runs an action only while its selected targets are still members of the
\* current connection. Menu actions can outlive server removal events while a
\* prompt is open" (admin.go:563-565), for everything that is sent from the menu
\* it was opened for.
ActsOnMembers ==
  [][Send /\ doing.during = left.losses /\ (doing.does = "answer" => ~reopened)
     => IsMember(doing.of)]_adminVars

\* What withValidAdminTargets is for: none of these actions asks a nil client, not
\* even when the connection is lost while it runs and the next one removes others.
ActionsHaveClients == [][Send /\ (doing.does = "answer" => ~reopened) => running']_adminVars

\* What Enter does is what the menu shows: its items hold the targets that are
\* checked, the ACL that would be sent, and the bans by the place they have in
\* the list.
MenuAgrees == running =>
  /\ menu.user = target.user /\ menu.chan = target.chan /\ menu.acl = acl
  /\ IsPrefix(menu.bans, Names(banList))

\* The same without exception: also after the menu was opened for another target
\* while a prompt was pending.
PromptsActOnMembers == [][Send /\ doing.during = left.losses => IsMember(doing.of)]_adminVars

\* What removed a target does not end the program: the targets are looked at before an
\* action, and not before the menu is built for them (admin.go:88, 175; client.go:575-591).
KeepsRunning == running

\* "A BanList is a list of server ban entries" that takes effect as a whole
\* (gumble/gumble/bans.go:11-14): a manual ban leaves the bans of others in force.
OtherBansStay == [][AddBan => banned \subseteq banned']_adminVars

=============================================================================
