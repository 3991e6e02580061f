--------------------------- MODULE RpwMutexProofs ---------------------------
(***************************************************************************)
(* The reader-preferred lock excludes as promised, for any finite set of   *)
(* goroutines and any nesting depth, and implements RwLock; and what the   *)
(* administration menu does inside it is done to those the menu shows.     *)
(***************************************************************************)
EXTENDS RpwMutex, Admin, FiniteSetTheorems, SequenceTheorems, TLAPS

\* The read locks n counts, one pair for each level of each goroutine.
Held == {h \in Procs \X (1 .. MaxDepth) : h[2] <= level[h[1]]}

Types ==
  /\ w \in {"free", "locked"}
  /\ n \in Nat
  /\ level \in [Procs -> 0 .. MaxDepth]
  /\ pc \in [Procs -> Steps]

InR == {"awaitW", "leaveRLock", "leaveRUnlock"}

\* The inductive invariant. w is held by one writer, or by the readers once the
\* first of them has it; n counts the levels; the holder of r is the only
\* goroutine inside the parts of the code that r protects; a first reader that
\* waits for w is the only one counted.
LockInv ==
  /\ Types
  /\ IsFiniteSet(Held) /\ n = Cardinality(Held)
  /\ \A p \in Procs : pc[p] \in InR => r = p
  /\ \A p, q \in Writers : p = q
  /\ Writers # {} => w = "locked"
  /\ \A p \in Procs : pc[p] = "awaitW" => n = 1 /\ level[p] = 1
  /\ \A p \in Procs : pc[p] = "rlock" => level[p] < MaxDepth
  /\ \A p \in Procs : pc[p] = "leaveRLock" => level[p] > 0
  /\ \A p \in Procs : pc[p] \in {"lock", "writing"} => level[p] = 0
  /\ n > 0 => (\E p \in Procs : pc[p] = "awaitW") \/ (w = "locked" /\ Writers = {})
  /\ n > 0 /\ Writers # {} => \E p \in Procs : pc[p] = "awaitW"

LEMMA NoneHeld ==
  ASSUME LockInv
  PROVE  n = 0 <=> \A p \in Procs : level[p] = 0
<1>1. Held = {} <=> \A p \in Procs : level[p] = 0
  <2>1. ASSUME NEW p \in Procs, level[p] # 0 PROVE <<p, 1>> \in Held
    BY <2>1, LockAssumption DEF Held, LockInv, Types
  <2>2. ASSUME NEW h \in Held PROVE level[h[1]] # 0 /\ h[1] \in Procs
    BY <2>2, LockAssumption DEF Held, LockInv, Types
  <2> QED BY <2>1, <2>2
<1> QED BY <1>1, FS_EmptySet DEF LockInv

\* With a single read lock counted, nobody but its holder is counted.
LEMMA OneHeld ==
  ASSUME LockInv, n = 1, NEW p \in Procs, NEW q \in Procs, level[p] > 0, level[q] > 0
  PROVE  p = q /\ level[p] = 1
<1>1. PICK h : Held = {h}
  BY FS_Singleton DEF LockInv
<1>2. <<p, 1>> \in Held /\ <<q, 1>> \in Held /\ <<p, level[p]>> \in Held
  BY LockAssumption DEF Held, LockInv, Types
<1> QED BY <1>1, <1>2

\* Taking and giving back a level changes the number of pairs by one.
LEMMA LevelUp ==
  ASSUME LockInv, NEW p \in Procs, level[p] < MaxDepth, level' = [level EXCEPT ![p] = @ + 1]
  PROVE  IsFiniteSet(Held') /\ Cardinality(Held') = n + 1
<1>1. Held' = Held \cup {<<p, level[p] + 1>>}
  BY LockAssumption DEF Held, LockInv, Types
<1>2. <<p, level[p] + 1>> \notin Held
  BY LockAssumption DEF Held, LockInv, Types
<1> QED BY <1>1, <1>2, FS_AddElement DEF LockInv

LEMMA LevelDown ==
  ASSUME LockInv, NEW p \in Procs, level[p] > 0, level' = [level EXCEPT ![p] = @ - 1]
  PROVE  IsFiniteSet(Held') /\ Cardinality(Held') = n - 1
<1>1. Held' = Held \ {<<p, level[p]>>}
  BY LockAssumption DEF Held, LockInv, Types
<1>2. <<p, level[p]>> \in Held
  BY LockAssumption DEF Held, LockInv, Types
<1> QED BY <1>1, <1>2, FS_RemoveElement DEF LockInv

LEMMA LockInvInit == Init => LockInv
<1> SUFFICES ASSUME Init PROVE LockInv
  OBVIOUS
<1>1. Held = {}
  BY LockAssumption DEF Init, Held
<1>2. IsFiniteSet(Held) /\ n = Cardinality(Held)
  BY <1>1, FS_EmptySet DEF Init
<1>3. Types /\ Writers = {}
  BY LockAssumption DEF Init, Types, Steps, Writers
<1> QED BY <1>2, <1>3, LockAssumption DEF Init, LockInv, InR

\* Steps that neither count nor uncount a reader.
LEMMA HeldUnchanged == UNCHANGED level => Held' = Held
  BY DEF Held

LEMMA LockInvStep == LockInv /\ [Next]_vars => LockInv'
<1> SUFFICES ASSUME LockInv, [Next]_vars PROVE LockInv'
  OBVIOUS
<1> USE LockAssumption DEF Types, Steps, Goto, InR, Writers
<1>1. ASSUME NEW p \in Procs, RLockCall(p) PROVE LockInv'
  BY <1>1, HeldUnchanged DEF RLockCall, LockInv
<1>2. ASSUME NEW p \in Procs, RLockEnter(p) PROVE LockInv'
  <2>1. /\ pc[p] = "rlock" /\ r = Free /\ r' = p /\ n' = n + 1 /\ UNCHANGED w
        /\ level' = [level EXCEPT ![p] = @ + 1]
        /\ pc' = [pc EXCEPT ![p] = IF n = 0 THEN "awaitW" ELSE "leaveRLock"]
    BY <1>2 DEF RLockEnter
  <2>2. IsFiniteSet(Held') /\ Cardinality(Held') = n'
    BY <2>1, LevelUp DEF LockInv
  <2>3. n = 0 => level[p] = 0
    BY NoneHeld
  <2>4. \A q \in Procs : pc[q] \notin InR
    BY <2>1 DEF LockInv
  <2>5. Types'
    BY <2>1 DEF LockInv
  <2>6. Writers' = Writers
    BY <2>1 DEF LockInv
  <2> QED BY <2>1, <2>2, <2>3, <2>4, <2>5, <2>6 DEF LockInv
<1>3. ASSUME NEW p \in Procs, AwaitW(p) PROVE LockInv'
  <2>1. pc[p] = "awaitW" /\ w = "free" /\ w' = "locked" /\ pc' = [pc EXCEPT ![p] = "leaveRLock"]
        /\ UNCHANGED <<r, n, level>>
    BY <1>3 DEF AwaitW
  <2>2. Writers = {} /\ Writers' = {}
    BY <2>1 DEF LockInv
  <2>3. \A q \in Procs : pc'[q] # "awaitW"
    BY <2>1 DEF LockInv
  <2> QED BY <2>1, <2>2, <2>3, HeldUnchanged DEF LockInv
<1>4. ASSUME NEW p \in Procs, RLockLeave(p) PROVE LockInv'
  BY <1>4, HeldUnchanged DEF RLockLeave, LockInv
<1>5. ASSUME NEW p \in Procs, RUnlock(p) PROVE LockInv'
  <2>1. /\ pc[p] = "idle" /\ level[p] > 0 /\ r = Free /\ r' = p /\ n' = n - 1
        /\ level' = [level EXCEPT ![p] = @ - 1]
        /\ w' = IF n = 1 THEN "free" ELSE w
        /\ pc' = [pc EXCEPT ![p] = "leaveRUnlock"]
    BY <1>5 DEF RUnlock
  <2>2. IsFiniteSet(Held') /\ Cardinality(Held') = n'
    BY <2>1, LevelDown DEF LockInv
  <2>3. n > 0
    BY <2>1, NoneHeld DEF LockInv
  <2>4. \A q \in Procs : pc[q] \notin InR
    BY <2>1 DEF LockInv
  <2>5. Types'
    BY <2>1, <2>3 DEF LockInv
  <2>6. Writers = {} /\ Writers' = {} /\ w = "locked"
    BY <2>1, <2>3, <2>4 DEF LockInv
  <2> QED BY <2>1, <2>2, <2>3, <2>4, <2>5, <2>6 DEF LockInv
<1>6. ASSUME NEW p \in Procs, RUnlockLeave(p) PROVE LockInv'
  BY <1>6, HeldUnchanged DEF RUnlockLeave, LockInv
<1>7. ASSUME NEW p \in Procs, LockCall(p) PROVE LockInv'
  BY <1>7, HeldUnchanged DEF LockCall, LockInv
<1>8. ASSUME NEW p \in Procs, Lock(p) PROVE LockInv'
  <2>1. pc[p] = "lock" /\ w = "free" /\ w' = "locked" /\ pc' = [pc EXCEPT ![p] = "writing"]
        /\ UNCHANGED <<r, n, level>>
    BY <1>8 DEF Lock
  <2>2. Writers = {} /\ Writers' = {p}
    BY <2>1 DEF LockInv
  <2> QED BY <2>1, <2>2, HeldUnchanged DEF LockInv
<1>9. ASSUME NEW p \in Procs, Unlock(p) PROVE LockInv'
  <2>1. pc[p] = "writing" /\ w' = "free" /\ pc' = [pc EXCEPT ![p] = "idle"]
        /\ UNCHANGED <<r, n, level>>
    BY <1>9 DEF Unlock
  <2>2. Writers' = {}
    BY <2>1 DEF LockInv
  <2> QED BY <2>1, <2>2, HeldUnchanged DEF LockInv
<1>10. CASE UNCHANGED vars
  BY <1>10, HeldUnchanged DEF LockInv, vars
<1> QED BY <1>1, <1>2, <1>3, <1>4, <1>5, <1>6, <1>7, <1>8, <1>9, <1>10 DEF Next

LEMMA LockInvHolds == Spec => []LockInv
  BY LockInvInit, LockInvStep, PTL DEF Spec

\* While a writer is in, or could come in, whoever is counted is still waiting
\* for w.
LEMMA NobodyReads ==
  ASSUME LockInv, Writers # {} \/ w = "free"
  PROVE  \A p \in Procs : Reads(p) = 0
<1> SUFFICES ASSUME NEW p \in Procs PROVE Reads(p) = 0
  OBVIOUS
<1> USE DEF Types
<1>1. CASE level[p] = 0
  <2>1. pc[p] # "awaitW" /\ pc[p] # "leaveRLock"
    BY <1>1 DEF LockInv
  <2>2. Reads(p) = level[p] - 0
    BY <2>1 DEF Reads
  <2>3. level[p] \in Nat
    BY <1>1
  <2> QED BY <1>1, <2>2, <2>3
<1>2. CASE level[p] > 0
  <2>1. n > 0
    BY <1>2, NoneHeld DEF LockInv
  <2>2. PICK q \in Procs : pc[q] = "awaitW"
    BY <2>1 DEF LockInv
  <2>3. p = q /\ level[p] = 1
    BY <1>2, <2>2, OneHeld DEF LockInv
  <2> QED BY <2>2, <2>3 DEF Reads
<1> QED BY <1>1, <1>2 DEF LockInv

\* A writer excludes readers and other writers, for any number of goroutines
\* and any nesting (gumble/rpwmutex.go).
THEOREM Exclusion == Spec => []MutualExclusion
<1>1. LockInv => MutualExclusion
  BY NobodyReads DEF LockInv, MutualExclusion
<1> QED BY <1>1, LockInvHolds, PTL

-----------------------------------------------------------------------------
(* rpwMutex implements RwLock                                              *)

ReadsOf == [p \in Procs |-> Reads(p)]

\* A lock that RLock has not returned from yet does not count.
LEMMA Counted ==
  ASSUME NEW l \in Nat, NEW c
  PROVE  l - (IF c \in {"awaitW", "leaveRLock"} THEN 1 ELSE 0)
         = IF c \in {"awaitW", "leaveRLock"} THEN l - 1 ELSE l
<1>1. CASE c \in {"awaitW", "leaveRLock"} BY <1>1
<1>2. CASE c \notin {"awaitW", "leaveRLock"}
  <2>1. l - (IF c \in {"awaitW", "leaveRLock"} THEN 1 ELSE 0) = l - 0
    BY <1>2
  <2> QED BY <1>2, <2>1
<1> QED BY <1>1, <1>2

\* What a step does to the read lock of the goroutine that takes it.
LEMMA ReadsMove ==
  ASSUME LockInv, LockInv', NEW p \in Procs
  PROVE  /\ Reads(p) = IF pc[p] \in {"awaitW", "leaveRLock"} THEN level[p] - 1 ELSE level[p]
         /\ Reads(p)' = IF pc'[p] \in {"awaitW", "leaveRLock"} THEN level'[p] - 1 ELSE level'[p]
         /\ level[p] \in Nat /\ level'[p] \in Nat
         /\ level[p] <= MaxDepth /\ level'[p] <= MaxDepth
<1>1. /\ level[p] \in Nat /\ level'[p] \in Nat
      /\ level[p] <= MaxDepth /\ level'[p] <= MaxDepth
  BY LockAssumption DEF LockInv, Types
<1> QED BY <1>1, Counted DEF Reads

\* Nobody's reads change but those of the goroutine that moves.
LEMMA OthersKeepTheirReads ==
  ASSUME NEW p \in Procs,
         \A q \in Procs : q # p => pc'[q] = pc[q] /\ level'[q] = level[q]
  PROVE  ReadsOf' = [ReadsOf EXCEPT ![p] = Reads(p)']
  BY DEF Reads, ReadsOf

LEMMA StepRefines == LockInv /\ LockInv' /\ [Next]_vars => [RW!Next]_(RW!lockVars)
<1> SUFFICES ASSUME LockInv, LockInv', [Next]_vars PROVE [RW!Next]_(RW!lockVars)
  OBVIOUS
<1> USE DEF Types
<1>1. ASSUME NEW p \in Procs,
             RLockCall(p) \/ LockCall(p) \/ RUnlockLeave(p) \/ RLockEnter(p) \/ AwaitW(p)
      PROVE  UNCHANGED <<ReadsOf, Writers>>
  <2>1. /\ pc[p] # "writing" /\ pc'[p] # "writing"
        /\ \A q \in Procs : q # p => pc'[q] = pc[q] /\ level'[q] = level[q]
    BY <1>1 DEF RLockCall, LockCall, RUnlockLeave, RLockEnter, AwaitW, Goto, LockInv
  <2>2. \/ pc[p] \notin {"awaitW", "leaveRLock"} /\ pc'[p] \notin {"awaitW", "leaveRLock"}
           /\ level'[p] = level[p]
        \/ pc[p] = "rlock" /\ pc'[p] \in {"awaitW", "leaveRLock"}
           /\ level'[p] = level[p] + 1
        \/ pc[p] = "awaitW" /\ pc'[p] = "leaveRLock" /\ level'[p] = level[p]
    BY <1>1 DEF RLockCall, LockCall, RUnlockLeave, RLockEnter, AwaitW, Goto, LockInv
  <2>3. Reads(p)' = Reads(p)
    BY <2>2, ReadsMove
  <2>4. ReadsOf' = ReadsOf
    BY <2>1, <2>3, OthersKeepTheirReads DEF ReadsOf
  <2>5. Writers' = Writers
    BY <2>1 DEF Writers, LockInv
  <2> QED BY <2>4, <2>5
<1>2. ASSUME NEW p \in Procs, RLockLeave(p)
      PROVE  /\ Writers = {} /\ Writers' = {}
             /\ ReadsOf[p] < MaxDepth
             /\ ReadsOf' = [ReadsOf EXCEPT ![p] = @ + 1]
  <2>1. /\ pc[p] = "leaveRLock" /\ pc' = [pc EXCEPT ![p] = "idle"]
        /\ UNCHANGED <<w, n, level>>
    BY <1>2 DEF RLockLeave, Goto
  <2>2. level[p] > 0
    BY <2>1 DEF LockInv
  <2>3. Writers = {}
    <3>1. n > 0
      BY <2>2, NoneHeld DEF LockInv
    <3>2. ASSUME NEW q \in Procs, pc[q] = "awaitW" PROVE FALSE
      BY <3>2, <2>1 DEF LockInv, InR
    <3> QED BY <3>1, <3>2 DEF LockInv
  <2>4. Writers' = {}
    BY <2>1, <2>3 DEF Writers, LockInv
  <2>5. Reads(p)' = Reads(p) + 1 /\ Reads(p) < MaxDepth
    <3>1. pc'[p] = "idle" /\ level'[p] = level[p]
      BY <2>1 DEF LockInv
    <3> QED BY <2>1, <2>2, <3>1, ReadsMove, LockAssumption
  <2>6. ReadsOf' = [ReadsOf EXCEPT ![p] = Reads(p)']
    BY <2>1, OthersKeepTheirReads DEF LockInv
  <2> QED BY <2>3, <2>4, <2>5, <2>6 DEF ReadsOf
<1>3. ASSUME NEW p \in Procs, RUnlock(p)
      PROVE  /\ Writers' = Writers
             /\ ReadsOf[p] > 0
             /\ ReadsOf' = [ReadsOf EXCEPT ![p] = @ - 1]
  <2>1. /\ pc[p] = "idle" /\ pc' = [pc EXCEPT ![p] = "leaveRUnlock"]
        /\ level[p] > 0 /\ level' = [level EXCEPT ![p] = @ - 1]
    BY <1>3 DEF RUnlock, Goto
  <2>2. Writers' = Writers
    BY <2>1 DEF Writers, LockInv
  <2>3. pc'[p] = "leaveRUnlock" /\ level'[p] = level[p] - 1
    BY <2>1 DEF LockInv
  <2>4. Reads(p)' = Reads(p) - 1 /\ Reads(p) > 0
    BY <2>1, <2>3, ReadsMove
  <2>5. ReadsOf' = [ReadsOf EXCEPT ![p] = Reads(p)']
    BY <2>1, OthersKeepTheirReads DEF LockInv
  <2> QED BY <2>2, <2>4, <2>5 DEF ReadsOf
<1>4. ASSUME NEW p \in Procs, Lock(p) \/ Unlock(p)
      PROVE  ReadsOf' = ReadsOf
  <2>1. /\ pc[p] \notin {"awaitW", "leaveRLock"} /\ pc'[p] \notin {"awaitW", "leaveRLock"}
        /\ level' = level
        /\ \A q \in Procs : q # p => pc'[q] = pc[q]
    BY <1>4 DEF Lock, Unlock, Goto, LockInv
  <2>2. Reads(p)' = Reads(p)
    BY <2>1, ReadsMove
  <2> QED BY <2>1, <2>2, OthersKeepTheirReads DEF ReadsOf
<1>5. ASSUME NEW p \in Procs, Lock(p)
      PROVE  Writers = {} /\ Writers' = {p} /\ \A q \in Procs : ReadsOf[q] = 0
  <2>1. w = "free" /\ pc' = [pc EXCEPT ![p] = "writing"]
    BY <1>5 DEF Lock, Goto
  <2>2. Writers = {}
    BY <2>1 DEF LockInv
  <2>3. Writers' = {p}
    BY <2>1, <2>2 DEF Writers, LockInv
  <2> QED BY <2>1, <2>2, <2>3, NobodyReads DEF ReadsOf
<1>6. ASSUME NEW p \in Procs, Unlock(p)
      PROVE  p \in Writers /\ Writers' = {}
  <2>1. pc[p] = "writing" /\ pc' = [pc EXCEPT ![p] = "idle"]
    BY <1>6 DEF Unlock, Goto
  <2>2. Writers = {p}
    BY <2>1 DEF LockInv, Writers
  <2> QED BY <2>1, <2>2 DEF Writers, LockInv
<1>7. CASE UNCHANGED vars
  BY <1>7 DEF vars, RW!lockVars, Reads, Writers
<1>8. UNCHANGED <<ReadsOf, Writers>> => UNCHANGED RW!lockVars
  BY DEF RW!lockVars, ReadsOf
<1> USE DEF RW!Next, ReadsOf
<1>9. ASSUME NEW p \in Procs, RLockLeave(p) PROVE RW!AcquireRead(p)
  BY <1>2, <1>9 DEF RW!AcquireRead
<1>10. ASSUME NEW p \in Procs, RUnlock(p) PROVE RW!ReleaseRead(p)
  BY <1>3, <1>10 DEF RW!ReleaseRead
<1>11. ASSUME NEW p \in Procs, Lock(p) PROVE RW!AcquireWrite(p)
  BY <1>4, <1>5, <1>11 DEF RW!AcquireWrite
<1>12. ASSUME NEW p \in Procs, Unlock(p) PROVE RW!ReleaseWrite(p)
  BY <1>4, <1>6, <1>12 DEF RW!ReleaseWrite
<1> QED BY <1>1, <1>7, <1>8, <1>9, <1>10, <1>11, <1>12 DEF Next

\* rpwMutex implements a readers-writer lock: reads are shared and nest, writes
\* are exclusive (gumble/rpwmutex.go).
THEOREM Implements == Spec => ImplementsRwLock
<1>1. Init => RW!Init
  <2> SUFFICES ASSUME Init PROVE RW!Init
    OBVIOUS
  <2>1. \A p \in Procs : Reads(p) = 0
    BY Counted DEF Init, Reads
  <2>2. Writers = {}
    BY DEF Init, Writers
  <2> QED BY <2>1, <2>2 DEF RW!Init
<1> QED BY <1>1, StepRefines, LockInvHolds, PTL DEF Spec, ImplementsRwLock, RW!Spec

-----------------------------------------------------------------------------
(* The administration menu: what an action holds                           *)

BanEntry == [ban : Bans, unban : BOOLEAN]
AnswerOf == [kind : {"bans"}, list : Seq(BanEntry)] \cup [kind : {"acl"}, of : Nat]

ListsOK ==
  /\ banList \in Seq(BanEntry) /\ menu.bans \in Seq(Bans)
  /\ answers \in Seq(AnswerOf) /\ events \in Seq(AnswerOf \cup {Line})
  /\ left \in [losses : Nat, requests : Nat, opens : Nat]

Targets == {target.user, target.chan} \ {Nobody}

\* Every member has the slot it was made for, and what was removed is not a member again.
MembersOK ==
  /\ made \in Seq(Slots) /\ members \in [Slots -> 0 .. Len(made)] /\ waiting \in Slots \cup {Nobody}
  /\ \A s \in Slots : members[s] # Gone => made[members[s]] = s
  /\ removed \subseteq Objects /\ \A o \in removed : ~IsMember(o)
  /\ Targets \subseteq Objects

\* What is done to a target of the menu, with the exception of a prompt that outlived
\* its menu.
OnTarget ==
  /\ doing # Nobody /\ doing.does \in {"ask", "send", "acl", "request", "answer"}
  /\ doing.does = "answer" => ~reopened

\* An action about the user or the channel is about a target of the menu, which does not
\* change while it runs. As long as the connection is the one it began in, what it is
\* about is there; and then it is not a member of the next one either, so that none of
\* its handlers removes it.
DoingOK == doing # Nobody =>
  /\ doing.during \in Nat /\ left.losses <= doing.during
  /\ doing.does = "ban" => doing.of \in Bans
  /\ doing.does = "prompt" => doing.of \in Targets
  /\ OnTarget => /\ doing.of \in Objects \ removed
                 /\ IsMember(doing.of) <=> doing.during = left.losses

\* A prompt that waits for its text is about a target, unless the menu was opened again.
PromptOK == prompt # Nobody /\ prompt.does = "answer" /\ ~reopened => prompt.of \in Targets

AdminInv == MenuAgrees /\ ListsOK /\ MembersOK /\ DoingOK /\ PromptOK

\* A panic changes nothing any more.
LEMMA Panicked ==
  ASSUME Panic
  PROVE  UNCHANGED <<made, members, removed, waiting, answers, banned, events, target, menu, prompt, focus,
                     doing, reopened, banList, acl, left>>
BY DEF Panic

\* The steps that leave the menu and what it was built from alone.
Aside ==
  \/ \E s \in Slots : Change(s)
  \/ Changed \/ Reconnect \/ Answered \/ Escape \/ SwitchView
  \/ \E item : PressItem(item)
  \/ \E o : TypeCommand(o)
  \/ \E does, o : TypeText(does, o)
  \/ Send \/ SendElse \/ Close \/ Prompt \/ SendTyped \/ (\E c : Find(c))
  \/ RequestBans

LEMMA MenuAside ==
  ASSUME Aside
  PROVE  UNCHANGED <<menu, target, banList, acl>>
<1> USE DEF uiVars, listVars
<1>1. CASE (\E s \in Slots : Change(s)) \/ Changed \/ Reconnect \/ Answered
  BY <1>1 DEF Change, Changed, Reconnect, Answered
<1>2. CASE Escape \/ SwitchView \/ (\E item : PressItem(item))
  BY <1>2 DEF Escape, SwitchView, PressItem
<1>3. CASE (\E o : TypeCommand(o)) \/ (\E does, o : TypeText(does, o))
  BY <1>3 DEF TypeCommand, TypeText
<1>4. CASE Send
  BY <1>4, Panicked DEF Send
<1>5. CASE SendTyped
  BY <1>5, Panicked DEF SendTyped
<1>6. CASE SendElse \/ Close \/ Prompt \/ (\E c : Find(c)) \/ RequestBans
  BY <1>6 DEF SendElse, Close, Prompt, Find, RequestBans
<1> QED BY <1>1, <1>2, <1>3, <1>4, <1>5, <1>6 DEF Aside

\* Every step is one of those, or of the event loop, the opening of the menu, or a
\* change of the list of bans; and the program runs.
LEMMA AdminSteps ==
  ASSUME AdminNext
  PROVE  /\ running
         /\ \/ \E s \in Slots : Change(s)
            \/ Changed \/ Reconnect \/ Answered \/ Escape \/ SwitchView
            \/ \E item \in Items : PressItem(item)
            \/ \E o \in Objects : TypeCommand(o)
            \/ \E does \in Texts, o \in {Nobody} \cup Bans \cup Objects : TypeText(does, o)
            \/ Send \/ SendElse \/ Close \/ Prompt \/ SendTyped \/ (\E c \in Channels \cup {Nobody} : Find(c))
            \/ RequestBans
            \/ HandleEvent \/ Unban \/ AddBan \/ RebuildMenu \/ (\E i : TypeUnban(i))
            \/ \E u \in Users \cup {Nobody}, c \in Channels \cup {Nobody} : OpenMenu(u, c)
BY DEF AdminNext, Act

\* The names in a list are a sequence, of which another ban added leaves a prefix.
LEMMA ListNames ==
  ASSUME NEW list \in Seq(BanEntry)
  PROVE  /\ Names(list) \in Seq(Bans) /\ Len(Names(list)) = Len(list)
         /\ \A i \in 1 .. Len(list) : Names(list)[i] = list[i].ban
         /\ IsPrefix(Names(list), Names(list))
<1>1. DOMAIN list = 1 .. Len(list) /\ Len(list) \in Nat /\ \A i \in 1 .. Len(list) : list[i] \in BanEntry
  OBVIOUS
<1>2. \A i \in 1 .. Len(list) : list[i].ban \in Bans
  BY <1>1 DEF BanEntry
<1>3. Names(list) = [i \in 1 .. Len(list) |-> list[i].ban]
  BY <1>1 DEF Names
<1>4. Names(list) \in Seq(Bans) /\ Len(Names(list)) = Len(list)
  BY <1>1, <1>2, <1>3
<1>5. IsPrefix(Names(list), Names(list))
  BY <1>1, <1>4 DEF IsPrefix
<1> QED BY <1>1, <1>3, <1>4, <1>5

LEMMA BanAdded ==
  ASSUME NEW list \in Seq(BanEntry), NEW e \in BanEntry, NEW bans, IsPrefix(bans, Names(list)),
         bans \in Seq(Bans)
  PROVE  IsPrefix(bans, Names(Append(list, e)))
<1> DEFINE al == Append(list, e)
           s == Names(list)
           t == Names(al)
<1>1. /\ al \in Seq(BanEntry) /\ Len(al) = Len(list) + 1 /\ Len(list) \in Nat
      /\ \A i \in 1 .. Len(list) : al[i] = list[i]
  BY AppendProperties
<1> HIDE DEF al
<1>2. /\ s \in Seq(Bans) /\ Len(s) = Len(list) /\ \A i \in 1 .. Len(list) : s[i] = list[i].ban
      /\ t \in Seq(Bans) /\ Len(t) = Len(list) + 1
  BY <1>1, ListNames
<1>3. \A i \in 1 .. Len(list) : t[i] = s[i]
  <2>1. \A i \in 1 .. Len(al) : t[i] = al[i].ban
    BY <1>1, ListNames
  <2>2. \A i \in 1 .. Len(list) : i \in 1 .. Len(al)
    BY <1>1
  <2> HIDE DEF s, t
  <2> QED BY <1>1, <1>2, <2>1, <2>2
<1>4. Len(bans) <= Len(s) /\ SubSeq(bans, 1, Len(bans)) = SubSeq(s, 1, Len(bans)) /\ Len(bans) \in Nat
  <2>1. Len(bans) <= Len(s) /\ SubSeq(bans, 1, Len(bans)) = SubSeq(s, 1, Len(bans))
    BY DEF IsPrefix
  <2> QED BY <2>1
<1> HIDE DEF s, t
<1>5. SubSeq(s, 1, Len(bans)) = SubSeq(t, 1, Len(bans))
  <2>1. SubSeq(s, 1, Len(bans)) = [i \in 1 .. Len(bans) |-> s[i]]
    BY <1>2, <1>4
  <2>2. SubSeq(t, 1, Len(bans)) = [i \in 1 .. Len(bans) |-> t[i]]
    BY <1>2, <1>4
  <2>3. \A i \in 1 .. Len(bans) : s[i] = t[i]
    BY <1>2, <1>3, <1>4
  <2> QED BY <2>1, <2>2, <2>3
<1> QED BY <1>2, <1>4, <1>5 DEF IsPrefix, t, al

\* The menu built again is what it was built from.
LEMMA MenuBuilt ==
  ASSUME banList' \in Seq(BanEntry), menu.bans \in Seq(Bans), Rebuild(target')
  PROVE  MenuAgrees' /\ menu'.bans \in Seq(Bans)
<1>1. CASE running' = FALSE /\ UNCHANGED menu
  BY <1>1 DEF MenuAgrees
<1>2. CASE menu' = MenuFor(target', banList', acl')
  BY <1>2, ListNames DEF MenuAgrees, MenuFor
<1> QED BY <1>1, <1>2 DEF Rebuild

\* What the user interface takes from the queue is a list, an ACL or a line.
LEMMA EventTypes ==
  ASSUME ListsOK, events # <<>>
  PROVE  /\ Tail(events) \in Seq(AnswerOf \cup {Line})
         /\ Head(events).kind = "bans" => Head(events).list \in Seq(BanEntry)
         /\ Head(events).kind \in {"bans", "acl", "line"}
<1>1. Head(events) \in AnswerOf \cup {Line} /\ Tail(events) \in Seq(AnswerOf \cup {Line})
  BY HeadTailProperties DEF ListsOK
<1>2. CASE Head(events) \in [kind : {"bans"}, list : Seq(BanEntry)]
  BY <1>1, <1>2
<1>3. CASE Head(events) \in [kind : {"acl"}, of : Nat]
  BY <1>1, <1>3
<1>4. CASE Head(events) = Line
  BY <1>1, <1>4 DEF Line
<1> QED BY <1>1, <1>2, <1>3, <1>4 DEF AnswerOf

LEMMA EventHandled ==
  ASSUME ListsOK, MenuAgrees, running, HandleEvent
  PROVE  MenuAgrees' /\ banList' \in Seq(BanEntry) /\ menu'.bans \in Seq(Bans)
<1> DEFINE e == Head(events)
<1>1. /\ events # <<>> /\ target' = target
      /\ banList' = IF e.kind = "bans" THEN e.list ELSE banList
      /\ acl' = IF e.kind = "acl" THEN e.of ELSE acl
      /\ IF e.kind = "line" THEN UNCHANGED <<menu, running>> ELSE Rebuild(target)
  BY DEF HandleEvent
<1>2. banList' \in Seq(BanEntry)
  BY <1>1, EventTypes DEF ListsOK
<1>3. CASE e.kind = "line"
  BY <1>1, <1>3 DEF MenuAgrees, ListsOK
<1>4. CASE e.kind # "line"
  <2>1. Rebuild(target') /\ menu.bans \in Seq(Bans)
    BY <1>1, <1>4 DEF ListsOK, Rebuild, NilClient
  <2> QED BY <1>2, <2>1, MenuBuilt
<1> QED BY <1>2, <1>3, <1>4

\* A ban that is lifted keeps its place and its name in the list.
LEMMA BanRemoved ==
  ASSUME ListsOK, MenuAgrees, running, NEW i, UnbanIndex(i)
  PROVE  MenuAgrees' /\ banList' \in Seq(BanEntry) /\ menu'.bans \in Seq(Bans)
<1>1. UNCHANGED <<target, menu, acl>> /\ banList \in Seq(BanEntry) /\ menu.bans \in Seq(Bans)
  BY DEF UnbanIndex, ListsOK
<1>2. banList' \in Seq(BanEntry) /\ Len(banList') = Len(banList)
      /\ \A k \in 1 .. Len(banList) : banList'[k].ban = banList[k].ban
  <2>1. CASE i \in DOMAIN banList
    <3> DEFINE v == [banList[i] EXCEPT !.unban = TRUE]
    <3>1. i \in 1 .. Len(banList) /\ banList[i] \in BanEntry
      BY <1>1, <2>1
    <3>2. v \in BanEntry /\ v.ban = banList[i].ban
      BY <3>1 DEF BanEntry
    <3>3. banList' = [banList EXCEPT ![i] = v]
      BY <2>1 DEF UnbanIndex
    <3> HIDE DEF v
    <3>4. /\ banList' \in Seq(BanEntry) /\ Len(banList') = Len(banList) /\ banList'[i] = v
          /\ \A k \in 1 .. Len(banList) : k # i => banList'[k] = banList[k]
      BY <1>1, <3>1, <3>2, <3>3, ExceptSeq
    <3> QED BY <3>2, <3>4
  <2>2. CASE i \notin DOMAIN banList
    BY <1>1, <2>2 DEF UnbanIndex
  <2> QED BY <2>1, <2>2
<1>3. Names(banList') = Names(banList)
  <2>1. DOMAIN banList' = DOMAIN banList /\ DOMAIN banList = 1 .. Len(banList)
    BY <1>1, <1>2
  <2> QED BY <1>2, <2>1 DEF Names
<1> QED BY <1>1, <1>2, <1>3 DEF MenuAgrees

LEMMA BanMade ==
  ASSUME ListsOK, MenuAgrees, running, DoingOK, AddBan
  PROVE  MenuAgrees' /\ banList' \in Seq(BanEntry) /\ menu'.bans \in Seq(Bans)
<1> DEFINE e == [ban |-> doing.of, unban |-> FALSE]
<1>1. UNCHANGED <<target, menu, acl>> /\ banList' = Append(banList, e)
  BY DEF AddBan
<1>2. e \in BanEntry
  BY DEF AddBan, Acting, DoingOK, BanEntry
<1> HIDE DEF e
<1>3. banList \in Seq(BanEntry) /\ menu.bans \in Seq(Bans) /\ IsPrefix(menu.bans, Names(banList))
  BY DEF ListsOK, MenuAgrees
<1>4. banList' \in Seq(BanEntry) /\ IsPrefix(menu.bans, Names(banList'))
  BY <1>1, <1>2, <1>3, BanAdded, AppendProperties
<1> QED BY <1>1, <1>3, <1>4 DEF MenuAgrees

LEMMA MenuKept ==
  ASSUME ListsOK, MenuAgrees, DoingOK, [AdminNext]_adminVars
  PROVE  MenuAgrees' /\ banList' \in Seq(BanEntry) /\ menu'.bans \in Seq(Bans)
<1>1. CASE UNCHANGED <<menu, target, banList, acl>> /\ (running' => running)
  BY <1>1 DEF MenuAgrees, ListsOK
<1>2. CASE running /\ (RebuildMenu \/ \E u, c : OpenMenu(u, c))
  <2>1. Rebuild(target') /\ banList' = banList /\ banList \in Seq(BanEntry) /\ menu.bans \in Seq(Bans)
    <3>1. CASE \E u, c : OpenMenu(u, c)
      BY <3>1 DEF OpenMenu, listVars, ListsOK
    <3>2. CASE RebuildMenu
      <4>1. Rebuild(target) /\ UNCHANGED <<target, banList, acl>>
        BY <3>2 DEF RebuildMenu, listVars
      <4> QED BY <4>1 DEF Rebuild, NilClient, ListsOK
    <3> QED BY <1>2, <3>1, <3>2
  <2> QED BY <2>1, MenuBuilt
<1>3. CASE AdminNext
  <2>1. running
    BY <1>3, AdminSteps
  <2>2. CASE HandleEvent \/ AddBan
    BY <2>1, <2>2, EventHandled, BanMade
  <2>3. CASE Unban \/ \E i : TypeUnban(i)
    <3>1. PICK i : UnbanIndex(i)
      BY <2>3 DEF Unban, TypeUnban
    <3> QED BY <2>1, <3>1, BanRemoved
  <2>4. CASE Aside
    BY <1>1, <2>1, <2>4, MenuAside
  <2> QED BY <1>2, <1>3, <2>1, <2>2, <2>3, <2>4, AdminSteps DEF Aside
<1>4. CASE UNCHANGED adminVars
  BY <1>1, <1>4 DEF adminVars
<1> QED BY <1>3, <1>4

\* What is put in the queue is a line, or an answer as it came.
LEMMA Queued ==
  ASSUME [AdminNext]_adminVars
  PROVE  UNCHANGED events \/ Post(Line) \/ Answered \/ HandleEvent
<1>1. CASE (\E s \in Slots : Change(s)) \/ Reconnect \/ SwitchView \/ (\E o : TypeCommand(o))
  BY <1>1 DEF Change, Reconnect, SwitchView, TypeCommand
<1>2. CASE Changed \/ Escape \/ (\E u, c : OpenMenu(u, c))
  BY <1>2 DEF Changed, Escape, OpenMenu
<1>3. CASE Send \/ SendTyped
  BY <1>3, Panicked DEF Send, SendTyped
<1>4. CASE (\E c : Find(c)) \/ Prompt \/ Close \/ AddBan \/ RebuildMenu
  BY <1>4 DEF Find, Prompt, Close, AddBan, RebuildMenu
<1>5. CASE SendElse \/ RequestBans
  BY <1>5 DEF SendElse, RequestBans
<1>6. CASE Unban \/ \E i : TypeUnban(i)
  BY <1>6 DEF Unban, TypeUnban, UnbanIndex
<1>7. CASE \/ \E item : PressItem(item)
           \/ \E does, o : TypeText(does, o)
  <2>1. PICK does, o, after : Within(does, o, after)
    BY <1>7 DEF PressItem, TypeText
  <2> QED BY <2>1 DEF Within
<1>8. CASE UNCHANGED adminVars
  BY <1>8 DEF adminVars
<1> QED BY <1>1, <1>2, <1>3, <1>4, <1>5, <1>6, <1>7, <1>8, AdminSteps

LEMMA QueueKept ==
  ASSUME ListsOK, [AdminNext]_adminVars
  PROVE  events' \in Seq(AnswerOf \cup {Line})
<1> DEFINE E == AnswerOf \cup {Line}
<1>1. events \in Seq(E) /\ answers \in Seq(AnswerOf) /\ Line \in E
  BY DEF ListsOK
<1>2. ASSUME NEW e \in E, Post(e) PROVE events' \in Seq(E)
  <2> HIDE DEF E
  <2> QED BY <1>1, <1>2, AppendProperties DEF Post
<1>3. CASE Answered
  <2>1. answers # <<>> /\ (UNCHANGED events \/ Post(Head(answers)))
    BY <1>3 DEF Answered
  <2>2. Head(answers) \in E
    BY <1>1, <2>1, HeadTailProperties
  <2> QED BY <1>1, <1>2, <2>1, <2>2
<1>4. CASE HandleEvent
  BY <1>4, EventTypes DEF HandleEvent
<1> QED BY <1>1, <1>2, <1>3, <1>4, Queued

LeftOK == left \in [losses : Nat, requests : Nat, opens : Nat]

\* A request leaves one more answer.
LEMMA Asked ==
  ASSUME ListsOK, NEW a \in AnswerOf, Ask(a)
  PROVE  answers' \in Seq(AnswerOf) /\ LeftOK' /\ left'.losses = left.losses
<1>1. CASE left.requests = 0
  BY <1>1 DEF ListsOK, Ask, LeftOK
<1>2. CASE left.requests # 0
  <2>1. answers' = Append(answers, a) /\ left' = [left EXCEPT !.requests = @ - 1]
    BY <1>2 DEF Ask
  <2>2. answers' \in Seq(AnswerOf)
    BY <2>1, AppendProperties DEF ListsOK
  <2>3. left \in [losses : Nat, requests : Nat, opens : Nat]
    BY DEF ListsOK
  <2>4. LeftOK' /\ left'.losses = left.losses
    BY <1>2, <2>1, <2>3 DEF LeftOK
  <2> QED BY <2>2, <2>4
<1> QED BY <1>1, <1>2

LEMMA ACLAsked ==
  ASSUME ListsOK, NEW c \in Objects, AskACL(c)
  PROVE  answers' \in Seq(AnswerOf) /\ LeftOK' /\ left'.losses = left.losses
<1>1. [kind |-> "acl", of |-> c] \in AnswerOf
  BY DEF AnswerOf, Objects
<1> QED BY <1>1, Asked DEF AskACL

LEMMA BansAsked ==
  ASSUME ListsOK, AskBans
  PROVE  answers' \in Seq(AnswerOf) /\ LeftOK' /\ left'.losses = left.losses
<1>1. PICK bs \in BanSeqs : Ask([kind |-> "bans", list |-> Entries(bs)])
  BY DEF AskBans
<1>2. PICK m \in Nat : bs \in [1 .. m -> Bans]
  BY <1>1 DEF BanSeqs, BoundedSeq, SeqOf
<1>3. Entries(bs) \in [1 .. m -> BanEntry]
  BY <1>2 DEF Entries, BanEntry
<1>4. Entries(bs) \in Seq(BanEntry)
  BY <1>3
<1>5. [kind |-> "bans", list |-> Entries(bs)] \in AnswerOf
  BY <1>4 DEF AnswerOf
<1> QED BY <1>1, <1>5, Asked

\* The steps that neither ask nor answer, open the menu or lose the connection.
LEMMA CountersAside ==
  ASSUME AdminNext
  PROVE  \/ UNCHANGED <<answers, left>>
         \/ Reconnect \/ Answered \/ AskBans
         \/ (\E u, c : OpenMenu(u, c))
         \/ OnTarget /\ doing.does = "request" /\ AskACL(doing.of)
         \/ (\E c \in Channels : AskACL(c))
<1> USE DEF serverVars
<1>1. CASE (\E s \in Slots : Change(s)) \/ Changed \/ HandleEvent \/ Escape \/ SwitchView
  BY <1>1 DEF Change, Changed, HandleEvent, Escape, SwitchView
<1>2. CASE (\E item : PressItem(item)) \/ (\E o : TypeCommand(o)) \/ (\E does, o : TypeText(does, o))
  BY <1>2 DEF PressItem, TypeCommand, TypeText
<1>3. CASE Close \/ Prompt \/ Unban \/ AddBan \/ RebuildMenu \/ (\E i : TypeUnban(i))
  BY <1>3 DEF Close, Prompt, Unban, AddBan, RebuildMenu, TypeUnban, UnbanIndex
<1>4. CASE \E c : Find(c)
  BY <1>4 DEF Find
<1>5. CASE RequestBans \/ SendElse
  BY <1>5 DEF RequestBans, SendElse
<1>6. CASE Send
  BY <1>6, Panicked DEF Send, OnTarget, Acting
<1>7. CASE SendTyped
  BY <1>7, Panicked DEF SendTyped
<1> QED BY <1>1, <1>2, <1>3, <1>4, <1>5, <1>6, <1>7, AdminSteps

LEMMA CountersKept ==
  ASSUME ListsOK, DoingOK, [AdminNext]_adminVars
  PROVE  /\ answers' \in Seq(AnswerOf) /\ LeftOK'
         /\ left'.losses = left.losses \/ Reconnect
<1> DEFINE L == [losses : Nat, requests : Nat, opens : Nat]
<1>1. answers \in Seq(AnswerOf) /\ left \in L
  BY DEF ListsOK
<1>2. CASE UNCHANGED <<answers, left>>
  BY <1>1, <1>2 DEF LeftOK
<1>3. CASE Reconnect
  <2>1. left' \in L
    BY <1>1, <1>3 DEF Reconnect
  <2>2. answers' \in Seq(AnswerOf)
    BY <1>3 DEF Reconnect
  <2> QED BY <1>3, <2>1, <2>2 DEF LeftOK
<1>4. CASE Answered
  <2>1. answers' = Tail(answers) /\ answers # <<>> /\ left' = left
    BY <1>4 DEF Answered
  <2> QED BY <1>1, <2>1, HeadTailProperties DEF LeftOK
<1>5. CASE \E u, c : OpenMenu(u, c)
  <2>1. left.opens > 0 /\ left' = [left EXCEPT !.opens = @ - 1] /\ answers' = answers
    BY <1>5 DEF OpenMenu, serverVars
  <2> QED BY <1>1, <2>1 DEF LeftOK
<1>6. CASE (OnTarget /\ AskACL(doing.of)) \/ \E c \in Channels : AskACL(c)
  <2>1. Channels \subseteq Objects
    BY DEF Channels
  <2>2. OnTarget => doing.of \in Objects
    BY DEF DoingOK, OnTarget
  <2> QED BY <1>6, <2>1, <2>2, ACLAsked
<1>7. CASE UNCHANGED adminVars
  BY <1>2, <1>7 DEF adminVars
<1>8. CASE AskBans
  BY <1>8, BansAsked
<1> QED BY <1>2, <1>3, <1>4, <1>5, <1>6, <1>7, <1>8, CountersAside

\* Only the reader makes and removes objects, and it waits for volatile to do so.
LEMMA MembersAside ==
  ASSUME [AdminNext]_adminVars
  PROVE  \/ UNCHANGED <<made, members, removed>> /\ (UNCHANGED waiting \/ \E s \in Slots : Change(s))
         \/ Changed \/ Reconnect
<1> USE DEF serverVars
<1>1. CASE (\E s \in Slots : Change(s)) \/ Answered \/ HandleEvent \/ Escape \/ SwitchView
  BY <1>1 DEF Change, Answered, HandleEvent, Escape, SwitchView
<1>2. CASE (\E item : PressItem(item)) \/ (\E o : TypeCommand(o)) \/ (\E does, o : TypeText(does, o))
  BY <1>2 DEF PressItem, TypeCommand, TypeText
<1>3. CASE Send \/ SendTyped
  BY <1>3, Panicked DEF Send, SendTyped
<1>4. CASE SendElse \/ Close \/ Prompt \/ (\E c : Find(c)) \/ RequestBans
  BY <1>4 DEF SendElse, Close, Prompt, Find, RequestBans
<1>5. CASE RebuildMenu \/ \E u, c : OpenMenu(u, c)
  BY <1>5 DEF RebuildMenu, OpenMenu
<1>6. CASE AddBan \/ Unban \/ \E i : TypeUnban(i)
  BY <1>6 DEF AddBan, Unban, TypeUnban, UnbanIndex
<1>7. CASE UNCHANGED adminVars
  BY <1>7 DEF adminVars
<1> QED BY <1>1, <1>2, <1>3, <1>4, <1>5, <1>6, <1>7, AdminSteps

\* The targets are chosen among the objects.
LEMMA TargetsAside ==
  ASSUME [AdminNext]_adminVars
  PROVE  \/ UNCHANGED target
         \/ \E u \in Users \cup {Nobody}, c \in Channels \cup {Nobody} : target' = [user |-> u, chan |-> c]
<1>1. CASE Aside
  BY <1>1, MenuAside
<1>2. CASE HandleEvent \/ AddBan \/ RebuildMenu \/ Unban \/ \E i : TypeUnban(i)
  BY <1>2 DEF HandleEvent, AddBan, RebuildMenu, Unban, TypeUnban, UnbanIndex
<1>3. CASE \E u \in Users \cup {Nobody}, c \in Channels \cup {Nobody} : OpenMenu(u, c)
  BY <1>3 DEF OpenMenu
<1>4. CASE UNCHANGED adminVars
  BY <1>4 DEF adminVars
<1> QED BY <1>1, <1>2, <1>3, <1>4, AdminSteps DEF Aside

\* A handler makes one more object, which has a slot for itself, or removes a member.
LEMMA ChangeOfMembers ==
  ASSUME MembersOK, Changed
  PROVE  /\ made' \in Seq(Slots) /\ members' \in [Slots -> 0 .. Len(made')] /\ waiting' = Nobody
         /\ Len(made') >= Len(made) /\ \A o \in Objects : made'[o] = made[o]
         /\ \A s \in Slots : members'[s] # Gone => made'[members'[s]] = s
         /\ removed' \subseteq Objects' /\ \A o \in removed' : ~IsMember(o)'
         /\ \A o \in Objects : /\ IsMember(o)' => IsMember(o)
                               /\ ~IsMember(o) => (o \in removed' => o \in removed)
<1>1. /\ waiting \in Slots /\ waiting' = Nobody /\ made \in Seq(Slots) /\ Len(made) \in Nat
      /\ members \in [Slots -> 0 .. Len(made)] /\ removed \subseteq Objects
      /\ \A s \in Slots : members[s] # 0 => made[members[s]] = s
      /\ \A o \in removed : members[made[o]] # o
      /\ Objects = 1 .. Len(made)
      /\ \A o \in Objects : made[o] \in Slots
  BY DEF MembersOK, Changed, IsMember, Objects, Gone
<1>2. /\ \A o : IsMember(o) <=> members[made[o]] = o
      /\ \A o : IsMember(o)' <=> members'[made'[o]] = o
  BY DEF IsMember
<1>3. CASE members[waiting] = Gone
  <2>1. /\ made' = Append(made, waiting) /\ removed' = removed
        /\ members' = [members EXCEPT ![waiting] = Len(made) + 1]
    BY <1>3 DEF Changed
  <2>2. /\ made' \in Seq(Slots) /\ Len(made') = Len(made) + 1 /\ made'[Len(made) + 1] = waiting
        /\ \A o \in Objects : made'[o] = made[o]
    BY <1>1, <2>1, AppendProperties
  <2>3. /\ members' \in [Slots -> 0 .. Len(made')] /\ members'[waiting] = Len(made) + 1
        /\ \A s \in Slots : s # waiting => members'[s] = members[s]
    <3> DEFINE k == Len(made)
    <3>1. members \in [Slots -> 0 .. k] /\ k \in Nat /\ members' = [members EXCEPT ![waiting] = k + 1]
      BY <1>1, <2>1
    <3>2. Len(made') = k + 1
      BY <2>2
    <3> HIDE DEF k
    <3>3. members' \in [Slots -> 0 .. k + 1]
      <4>1. 0 .. k \subseteq 0 .. k + 1 /\ k + 1 \in 0 .. k + 1
        BY <3>1
      <4> QED BY <3>1, <4>1
    <3>4. members'[waiting] = k + 1 /\ \A s \in Slots : s # waiting => members'[s] = members[s]
      BY <1>1, <3>1
    <3> QED BY <3>2, <3>3, <3>4 DEF k
  <2>4. ASSUME NEW s \in Slots, members'[s] # 0 PROVE made'[members'[s]] = s
    <3>1. CASE s = waiting
      BY <2>2, <2>3, <3>1
    <3>2. CASE s # waiting
      <4>1. members'[s] = members[s] /\ members[s] \in 0 .. Len(made) /\ members[s] # 0
        BY <1>1, <2>3, <2>4, <3>2
      <4>2. members[s] \in Objects /\ made[members[s]] = s
        BY <1>1, <4>1
      <4> QED BY <2>2, <4>1, <4>2
    <3> QED BY <3>1, <3>2
  <2>5. ASSUME NEW o \in Objects, members'[made'[o]] = o PROVE members[made[o]] = o
    <3>1. made'[o] = made[o] /\ made[o] \in Slots /\ o # Len(made) + 1
      BY <1>1, <2>2
    <3> QED BY <2>3, <2>5, <3>1
  <2>6. Objects \subseteq Objects'
    BY <1>1, <2>2 DEF Objects
  <2>7. Len(made') >= Len(made)
    BY <1>1, <2>2
  <2>8. \A o \in removed' : o \in Objects' /\ members'[made'[o]] # o
    BY <1>1, <2>1, <2>5, <2>6
  <2> QED BY <1>1, <1>2, <2>1, <2>2, <2>3, <2>4, <2>5, <2>7, <2>8 DEF Gone
<1>4. CASE members[waiting] # Gone
  <2> DEFINE gone == members[waiting]
  <2>1. /\ made' = made /\ removed' = removed \cup {gone} /\ members' = [members EXCEPT ![waiting] = 0]
    BY <1>4 DEF Changed, Gone
  <2>2. gone \in Objects /\ made[gone] = waiting /\ members[made[gone]] = gone
    BY <1>1, <1>4 DEF Gone
  <2>3. /\ members' \in [Slots -> 0 .. Len(made')] /\ members'[waiting] = 0
        /\ \A s \in Slots : s # waiting => members'[s] = members[s]
    BY <1>1, <2>1
  <2> HIDE DEF gone
  <2>4. \A s \in Slots : members'[s] # 0 => made'[members'[s]] = s
    BY <1>1, <2>1, <2>3
  <2>5. \A o \in Objects : members'[made'[o]] = o => members[made[o]] = o /\ o # gone
    BY <1>1, <2>1, <2>2, <2>3
  <2>6. Objects' = Objects
    BY <2>1 DEF Objects
  <2>7. \A o \in removed' : o \in Objects /\ members'[made'[o]] # o
    BY <1>1, <2>1, <2>2, <2>5
  <2>8. \A o \in Objects : members[made[o]] # o /\ o \in removed' => o \in removed
    BY <2>1, <2>2
  <2>9. \A o \in removed' : o \in Objects' /\ ~IsMember(o)'
    BY <1>2, <2>6, <2>7
  <2>10. \A o \in Objects : /\ IsMember(o)' => IsMember(o)
                            /\ ~IsMember(o) => (o \in removed' => o \in removed)
    BY <1>2, <2>5, <2>8
  <2>11. made' \in Seq(Slots) /\ Len(made') >= Len(made) /\ \A o \in Objects : made'[o] = made[o]
    BY <1>1, <2>1
  <2>12. removed' \subseteq Objects' /\ \A o \in removed' : ~IsMember(o)'
    BY <2>9
  <2>13. waiting' = Nobody /\ members' \in [Slots -> 0 .. Len(made')]
    BY <1>1, <2>3
  <2> QED BY <2>4, <2>10, <2>11, <2>12, <2>13 DEF Gone
<1> QED BY <1>3, <1>4

\* Nobody is a member of the next connection yet.
LEMMA NobodyYet ==
  ASSUME MembersOK, Reconnect
  PROVE  /\ made' = made /\ removed' = removed /\ waiting' = waiting
         /\ members' \in [Slots -> 0 .. Len(made')] /\ \A s \in Slots : members'[s] = Gone
         /\ \A o \in Objects : ~IsMember(o)'
<1>1. /\ made' = made /\ removed' = removed /\ waiting' = waiting
      /\ members' = [s \in Slots |-> 0] /\ made \in Seq(Slots)
  BY DEF MembersOK, Reconnect, Gone
<1>2. \A o \in Objects : o # 0 /\ made[o] \in Slots
  BY <1>1 DEF Objects
<1> QED BY <1>1, <1>2 DEF IsMember, Gone

LEMMA MembersKept ==
  ASSUME MembersOK, [AdminNext]_adminVars
  PROVE  MembersOK'
<1>1. /\ made' \in Seq(Slots) /\ members' \in [Slots -> 0 .. Len(made')] /\ waiting' \in Slots \cup {Nobody}
      /\ \A s \in Slots : members'[s] # Gone => made'[members'[s]] = s
      /\ removed' \subseteq Objects' /\ \A o \in removed' : ~IsMember(o)'
      /\ Objects \subseteq Objects'
  <2>1. CASE UNCHANGED <<made, members, removed>> /\ (UNCHANGED waiting \/ \E s \in Slots : Change(s))
    BY <2>1 DEF MembersOK, Objects, IsMember, Change
  <2>2. CASE Changed
    <3>1. made \in Seq(Slots) /\ made' \in Seq(Slots) /\ Len(made') >= Len(made)
      BY <2>2, ChangeOfMembers DEF MembersOK
    <3>2. Objects \subseteq Objects'
      BY <3>1 DEF Objects
    <3> QED BY <2>2, <3>2, ChangeOfMembers
  <2>3. CASE Reconnect
    <3>1. Objects' = Objects
      BY <2>3, NobodyYet DEF Objects
    <3> QED BY <2>3, <3>1, NobodyYet DEF MembersOK
  <2> QED BY <2>1, <2>2, <2>3, MembersAside
<1>2. Targets' \subseteq Objects
  <2>1. CASE UNCHANGED target
    BY <2>1 DEF Targets, MembersOK
  <2>2. CASE \E u \in Users \cup {Nobody}, c \in Channels \cup {Nobody} : target' = [user |-> u, chan |-> c]
    <3>1. Users \subseteq Objects /\ Channels \subseteq Objects
      BY DEF Users, Channels
    <3> QED BY <2>2, <3>1 DEF Targets
  <2> QED BY <2>1, <2>2, TargetsAside
<1> QED BY <1>1, <1>2 DEF MembersOK

\* Between two actions, or while what runs is not about a target.
Aimless ==
  \/ doing = Nobody
  \/ doing.does \in {"rebuild", "command", "found"} /\ doing.during \in Nat /\ left.losses <= doing.during

LEMMA AimlessIsOK ==
  ASSUME Aimless
  PROVE  DoingOK
BY DEF Aimless, DoingOK, OnTarget

\* What ends an action leaves nothing, or the rebuild of the menu.
LEMMA DoneLeaves ==
  ASSUME ListsOK, Done
  PROVE  doing' = Nobody \/ (doing'.does = "rebuild" /\ doing'.during = left.losses)
BY DEF Done, Deed

\* Only an action's beginning and its end change what runs.
LEMMA DoingAside ==
  ASSUME [AdminNext]_adminVars
  PROVE  \/ UNCHANGED <<doing, target, reopened>>
         \/ doing' = Nobody
         \/ Done
         \/ \E c : doing # Nobody /\ doing' = [does |-> "found", of |-> c, during |-> doing.during]
         \/ \E o \in Objects : TypeCommand(o)
         \/ \E item \in Items : PressItem(item)
         \/ \E does \in Texts, o \in {Nobody} \cup Bans \cup Objects : TypeText(does, o)
<1> USE DEF uiVars
<1>1. CASE (\E s \in Slots : Change(s)) \/ Changed \/ Reconnect \/ Answered
  BY <1>1 DEF Change, Changed, Reconnect, Answered
<1>2. CASE HandleEvent \/ Escape \/ SwitchView
  BY <1>2 DEF HandleEvent, Escape, SwitchView
<1>3. CASE Send \/ SendTyped
  BY <1>3, Panicked DEF Send, SendTyped
<1>4. CASE SendElse \/ Close \/ Prompt \/ Unban \/ AddBan \/ RebuildMenu
  BY <1>4 DEF SendElse, Close, Prompt, Unban, AddBan, RebuildMenu
<1>5. CASE \E c : Find(c)
  BY <1>5 DEF Find, Acting
<1>6. CASE RequestBans \/ \E i : TypeUnban(i)
  BY <1>6 DEF RequestBans, TypeUnban, UnbanIndex
<1>7. CASE \E u, c : OpenMenu(u, c)
  BY <1>7 DEF OpenMenu, Ui
<1>8. CASE UNCHANGED adminVars
  BY <1>8 DEF adminVars
<1> QED BY <1>1, <1>2, <1>3, <1>4, <1>5, <1>6, <1>7, <1>8, AdminSteps

\* An item that acts on a user, a channel or the ACL acts on a target of the menu.
LEMMA ItemsActOnTargets ==
  ASSUME MenuAgrees, running, NEW item \in Items
  PROVE  /\ item.does \notin {"answer", "ban"}
         /\ item.does \in {"ask", "send", "acl", "request", "prompt"} => item.of \in Targets
<1>1. menu.user = target.user /\ menu.chan = target.chan
  BY DEF MenuAgrees
<1>2. CASE item \in InformationItems
  BY <1>1, <1>2 DEF InformationItems, Item, Targets
<1>3. CASE item \in UserItems
  BY <1>1, <1>3 DEF UserItems, Item, Targets
<1>4. CASE item \in ChannelItems
  BY <1>1, <1>4 DEF ChannelItems, Item, Targets
<1>5. CASE item \in BanItems
  BY <1>5 DEF BanItems, Item
<1>6. CASE item \in ACLItems
  BY <1>1, <1>6 DEF ACLItems, Item, Targets
<1>7. CASE item \in ContextItems
  BY <1>1, <1>7 DEF ContextItems, Item, Targets
<1> QED BY <1>2, <1>3, <1>4, <1>5, <1>6, <1>7 DEF Items

\* withValidAdminTargets: every target of the menu is there when the action begins.
LEMMA BegunOnMembers ==
  ASSUME ListsOK, MembersOK, NEW does, NEW o, NEW after, Within(does, o, after),
         UNCHANGED <<target, made, members, removed, left>>,
         does = "ban" => o \in Bans,
         does \in {"ask", "send", "acl", "request", "prompt"} => o \in Targets,
         does = "answer" /\ ~reopened' => o \in Targets,
         after = Nobody \/ after = Deed("rebuild", Nobody)
  PROVE  DoingOK'
<1>1. CASE TargetsAreValid
  <2>1. /\ doing'.does = does /\ doing'.of = o /\ doing'.during = left.losses
        /\ left'.losses = left.losses /\ left.losses \in Nat
    BY <1>1 DEF Within, Deed, ListsOK
  <2>2. \A t \in Targets : IsMember(t) /\ t \in Objects \ removed
    BY <1>1 DEF TargetsAreValid, Targets, MembersOK
  <2>3. Targets' = Targets /\ Objects' = Objects /\ \A t : IsMember(t)' <=> IsMember(t)
    BY DEF Targets, Objects, IsMember
  <2>4. OnTarget' => o \in Targets
    BY <2>1 DEF OnTarget
  <2>5. OnTarget' => doing'.of \in Objects' \ removed' /\ IsMember(o)'
    BY <2>1, <2>2, <2>3, <2>4
  <2>6. IsMember(o)' <=> members'[made'[doing'.of]] = doing'.of
    BY <2>1 DEF IsMember
  <2> QED BY <2>1, <2>3, <2>5, <2>6 DEF DoingOK, IsMember
<1>2. CASE ~TargetsAreValid
  <2>1. doing' = after /\ left' = left /\ left.losses \in Nat
    BY <1>2 DEF Within, ListsOK
  <2>2. Aimless'
    BY <2>1 DEF Aimless, Deed
  <2> QED BY <2>2, AimlessIsOK, PTL
<1> QED BY <1>1, <1>2

\* While an action runs, nobody but the reader of another connection changes members.
LEMMA DoingStays ==
  ASSUME ListsOK, MembersOK, DoingOK, [AdminNext]_adminVars, UNCHANGED <<doing, target, reopened>>
  PROVE  DoingOK'
<1> SUFFICES ASSUME doing # Nobody PROVE DoingOK'
  BY DEF DoingOK
<1>1. Targets' = Targets /\ (OnTarget' <=> OnTarget)
  BY DEF Targets, OnTarget
<1>2. left'.losses = left.losses \/ Reconnect
  BY CountersKept
<1>3. CASE UNCHANGED <<made, members, removed>> /\ left'.losses = left.losses
  <2>1. Objects' = Objects /\ \A o : IsMember(o)' <=> IsMember(o)
    BY <1>3 DEF IsMember, Objects
  <2>2. IsMember(doing.of)' <=> members'[made'[doing'.of]] = doing'.of
    BY DEF IsMember
  <2> QED BY <1>1, <1>3, <2>1, <2>2 DEF DoingOK, IsMember
<1>4. CASE Changed
  <2>1. left' = left /\ ~InsideDo
    BY <1>4 DEF Changed
  <2>2. SUFFICES ASSUME OnTarget
                 PROVE  doing.of \in Objects' \ removed' /\ ~(members'[made'[doing.of]] = doing.of)
                        /\ doing.during # left.losses
    BY <1>1, <2>1 DEF DoingOK, IsMember
  <2>3. doing.during # left.losses
    BY <2>1, <2>2 DEF InsideDo, OnTarget
  <2>4. doing.of \in Objects \ removed /\ ~IsMember(doing.of)
    BY <2>2, <2>3 DEF DoingOK
  <2>5. ~(members'[made'[doing.of]] = doing.of) /\ doing.of \notin removed'
    BY <1>4, <2>4, ChangeOfMembers DEF IsMember
  <2>6. Objects \subseteq Objects'
    <3>1. made \in Seq(Slots) /\ made' \in Seq(Slots) /\ Len(made') >= Len(made)
      BY <1>4, ChangeOfMembers DEF MembersOK
    <3> QED BY <3>1 DEF Objects
  <2> QED BY <2>3, <2>4, <2>5, <2>6
<1>5. CASE Reconnect
  <2>1. /\ left.losses \in Nat /\ left'.losses = left.losses - 1
        /\ left.losses <= doing.during /\ doing.during \in Nat
    BY <1>5 DEF Reconnect, ListsOK, DoingOK
  <2>2. left'.losses <= doing'.during /\ doing'.during # left'.losses
    BY <2>1
  <2>3. Objects' = Objects /\ removed' = removed
    BY <1>5, NobodyYet DEF Objects
  <2>4. OnTarget => ~(members'[made'[doing'.of]] = doing'.of)
    BY <1>5, NobodyYet DEF DoingOK, IsMember
  <2> QED BY <1>1, <2>1, <2>2, <2>3, <2>4 DEF DoingOK, IsMember
<1> QED BY <1>2, <1>3, <1>4, <1>5, MembersAside

LEMMA DoingKept ==
  ASSUME MenuAgrees, ListsOK, MembersOK, DoingOK, PromptOK, [AdminNext]_adminVars
  PROVE  DoingOK'
<1>1. left'.losses \in Nat /\ left.losses \in Nat /\ left'.losses <= left.losses
  <2>1. LeftOK' /\ (left'.losses = left.losses \/ Reconnect) /\ left.losses \in Nat
    BY CountersKept DEF ListsOK
  <2>2. Reconnect => left'.losses = left.losses - 1
    BY DEF Reconnect, ListsOK
  <2> QED BY <2>1, <2>2 DEF LeftOK
<1>2. Aimless' => DoingOK'
  BY AimlessIsOK, PTL
<1>3. CASE doing' = Nobody \/ Done
  BY <1>1, <1>2, <1>3, DoneLeaves DEF Aimless
<1>4. CASE \E c : doing # Nobody /\ doing' = [does |-> "found", of |-> c, during |-> doing.during]
  <2>1. doing'.does = "found" /\ doing'.during = doing.during /\ doing.during \in Nat
        /\ left.losses <= doing.during
    BY <1>4 DEF DoingOK
  <2> QED BY <1>1, <1>2, <2>1 DEF Aimless
<1>5. CASE \E o \in Objects : TypeCommand(o)
  <2>1. doing'.does = "command" /\ doing'.during = left.losses
    BY <1>5 DEF TypeCommand, Deed
  <2> QED BY <1>1, <1>2, <2>1 DEF Aimless
<1>6. CASE (\E item \in Items : PressItem(item)) /\ running
  <2>1. PICK item \in Items : PressItem(item)
    BY <1>6
  <2>2. /\ Within(item.does, item.of, Deed("rebuild", Nobody))
        /\ UNCHANGED <<target, made, members, removed, left>>
    BY <2>1 DEF PressItem, serverVars
  <2> QED BY <1>6, <2>1, <2>2, ItemsActOnTargets, BegunOnMembers
<1>7. CASE \E does \in Texts, o \in {Nobody} \cup Bans \cup Objects : TypeText(does, o)
  <2>1. PICK does \in Texts, o \in {Nobody} \cup Bans \cup Objects : TypeText(does, o)
    BY <1>7
  <2>2. /\ Within(does, o, Nobody) /\ UNCHANGED <<target, made, members, removed, left, reopened>> /\ prompt # Nobody
        /\ \/ does = prompt.does /\ o = prompt.of /\ does # "ban"
           \/ does = "ban" /\ o \in Bans
           \/ does \in {"find", "refuse"}
    BY <2>1 DEF TypeText, serverVars
  <2>3. does \in {"answer", "ban", "raw", "find", "refuse"}
    BY <2>1 DEF Texts
  <2>4. does = "answer" /\ ~reopened => o \in Targets
    BY <2>2 DEF PromptOK
  <2> QED BY <2>2, <2>3, <2>4, BegunOnMembers
<1>8. CASE UNCHANGED <<doing, target, reopened>>
  BY <1>8, DoingStays
<1>9. AdminNext => running
  BY AdminSteps
<1>10. CASE UNCHANGED adminVars
  BY <1>8, <1>10 DEF adminVars
<1> QED BY <1>3, <1>4, <1>5, <1>6, <1>7, <1>8, <1>9, <1>10, DoingAside

LEMMA PromptKept ==
  ASSUME DoingOK, PromptOK, [AdminNext]_adminVars
  PROVE  PromptOK'
<1>1. CASE prompt' = Nobody
  BY <1>1 DEF PromptOK
<1>2. CASE UNCHANGED <<prompt, target, reopened>>
  BY <1>2 DEF PromptOK, Targets
<1>3. CASE \E u, c : OpenMenu(u, c)
  <2>1. reopened' = (prompt # Nobody) /\ prompt' = prompt
    BY <1>3 DEF OpenMenu
  <2>2. CASE prompt = Nobody
    BY <1>1, <2>1, <2>2
  <2>3. CASE prompt # Nobody
    BY <2>1, <2>3 DEF PromptOK
  <2> QED BY <2>2, <2>3
<1>4. CASE Prompt
  <2>1. /\ prompt' = [does |-> Answer[doing.does], of |-> doing.of] /\ target' = target
        /\ doing # Nobody /\ doing.does \in {"prompt", "promptBan", "promptRaw"}
    BY <1>4 DEF Prompt, Acting, Answer
  <2>2. /\ prompt'.does = Answer[doing.does] /\ prompt'.of = doing.of
    BY <2>1
  <2>3. CASE doing.does = "prompt"
    BY <2>1, <2>2, <2>3 DEF DoingOK, PromptOK, Targets
  <2>4. CASE doing.does # "prompt"
    <3>1. prompt'.does # "answer"
      BY <2>1, <2>2, <2>4 DEF Answer
    <3> QED BY <3>1 DEF PromptOK
  <2> QED BY <2>3, <2>4
<1> USE DEF uiVars
<1>5. CASE (\E s \in Slots : Change(s)) \/ Changed \/ Reconnect \/ Answered
  BY <1>2, <1>5 DEF Change, Changed, Reconnect, Answered
<1>6. CASE HandleEvent \/ Escape \/ Close \/ SwitchView
  BY <1>1, <1>2, <1>6 DEF HandleEvent, Escape, Close, Leave, SwitchView
<1>7. CASE (\E item : PressItem(item)) \/ (\E o : TypeCommand(o)) \/ (\E does, o : TypeText(does, o))
  BY <1>1, <1>2, <1>7 DEF PressItem, TypeCommand, TypeText
<1>8. CASE Send \/ SendTyped
  BY <1>2, <1>8, Panicked DEF Send, SendTyped
<1>9. CASE SendElse \/ (\E c : Find(c)) \/ AddBan \/ RebuildMenu \/ RequestBans
  BY <1>2, <1>9 DEF SendElse, Find, AddBan, RebuildMenu, RequestBans
<1>10. CASE Unban \/ \E i : TypeUnban(i)
  BY <1>2, <1>10 DEF Unban, TypeUnban, UnbanIndex
<1>11. CASE UNCHANGED adminVars
  BY <1>2, <1>11 DEF adminVars
<1> QED BY <1>3, <1>4, <1>5, <1>6, <1>7, <1>8, <1>9, <1>10, <1>11, AdminSteps

LEMMA InitAdmin ==
  ASSUME AdminInit
  PROVE  AdminInv
<1>1. /\ banList = <<>> /\ answers = <<>> /\ events = <<>> /\ acl = Nobody
      /\ target = [user |-> Nobody, chan |-> Nobody]
      /\ menu = [user |-> Nobody, chan |-> Nobody, bans |-> <<>>, acl |-> Nobody]
      /\ prompt = Nobody /\ doing = Nobody
      /\ left = [losses |-> MaxLosses, requests |-> MaxRequests, opens |-> MaxOpens]
  BY DEF AdminInit
<1>2. banList \in Seq(BanEntry) /\ menu.bans \in Seq(Bans)
  BY <1>1
<1>3. Names(banList) = <<>>
  <2>1. Names(banList) \in Seq(Bans) /\ Len(Names(banList)) = 0
    BY <1>1, <1>2, ListNames
  <2> HIDE DEF AdminInv
  <2> QED BY <2>1
<1>4. MenuAgrees
  <2>1. IsPrefix(menu.bans, Names(banList))
    BY <1>1, <1>2, <1>3, ListNames
  <2> QED BY <1>1, <2>1 DEF MenuAgrees
<1>5. ListsOK
  BY <1>1, <1>2, AdminAssumption DEF ListsOK
<1>6. DoingOK /\ PromptOK
  BY <1>1 DEF DoingOK, PromptOK
<1>7. MembersOK
  <2>1. made = <<>> /\ members = [s \in Slots |-> 0] /\ removed = {} /\ waiting = Nobody /\ Targets = {}
    BY <1>1 DEF AdminInit, Targets, Gone
  <2>2. made \in Seq(Slots) /\ Len(made) = 0
    BY <2>1
  <2>3. members \in [Slots -> 0 .. Len(made)]
    BY <2>1, <2>2
  <2> QED BY <2>1, <2>2, <2>3 DEF MembersOK, Gone
<1> QED BY <1>4, <1>5, <1>6, <1>7 DEF AdminInv

LEMMA StepKeepsAdmin ==
  ASSUME AdminInv, [AdminNext]_adminVars
  PROVE  AdminInv'
<1>1. MenuAgrees' /\ banList' \in Seq(BanEntry) /\ menu'.bans \in Seq(Bans)
  BY MenuKept DEF AdminInv
<1>2. ListsOK'
  BY <1>1, QueueKept, CountersKept DEF AdminInv, ListsOK, LeftOK
<1>3. DoingOK' /\ PromptOK'
  BY DoingKept, PromptKept DEF AdminInv
<1>4. MembersOK'
  BY MembersKept DEF AdminInv
<1> QED BY <1>1, <1>2, <1>3, <1>4 DEF AdminInv

LEMMA AdminHolds == AdminSpec => []AdminInv
<1>1. AdminInit => AdminInv
  BY InitAdmin
<1>2. AdminInv /\ [AdminNext]_adminVars => AdminInv'
  BY StepKeepsAdmin
<1> QED BY <1>1, <1>2, PTL DEF AdminSpec

\* What Enter does is what the menu shows: whatever the reader has queued, whichever
\* of the actions runs and however the lists were edited, the items hold the targets
\* that are checked, the ACL that would be sent and the bans of the list.
THEOREM MenuIsRight == AdminSpec => []MenuAgrees
<1>1. AdminInv => MenuAgrees
  BY DEF AdminInv
<1> QED BY <1>1, AdminHolds, PTL

\* "Runs an action only while its selected targets are still members of the current
\* connection" (admin.go:563-565), within one connection, and for the text of a prompt
\* unless the menu was opened again.
THEOREM ActionsHitMembers == AdminSpec => ActsOnMembers
<1>1. ASSUME AdminInv, [AdminNext]_adminVars
      PROVE  [Send /\ doing.during = left.losses /\ (doing.does = "answer" => ~reopened)
              => IsMember(doing.of)]_adminVars
  <2> SUFFICES ASSUME Send, doing.during = left.losses, doing.does = "answer" => ~reopened
               PROVE  IsMember(doing.of)
    OBVIOUS
  <2>1. OnTarget
    BY DEF Send, Acting, OnTarget
  <2> QED BY <1>1, <2>1 DEF AdminInv, DoingOK, OnTarget
<1>2. AdminSpec => []AdminInv
  BY AdminHolds
<1>3. AdminSpec => [][AdminNext]_adminVars
  BY DEF AdminSpec
<1> QED BY <1>1, <1>2, <1>3, PTL DEF ActsOnMembers

\* None of these actions asks an object for a client it has lost: also when the connection
\* ends while the action runs, and whatever the handlers of the next one remove.
THEOREM ActionsFindClients == AdminSpec => ActionsHaveClients
<1>1. ASSUME AdminInv, [AdminNext]_adminVars
      PROVE  [Send /\ (doing.does = "answer" => ~reopened) => running']_adminVars
  <2> SUFFICES ASSUME Send, doing.does = "answer" => ~reopened, AdminNext
               PROVE  running'
    BY <1>1 DEF Send
  <2>1. OnTarget
    BY DEF Send, Acting, OnTarget
  <2>2. doing.of \notin removed
    BY <1>1, <2>1 DEF AdminInv, DoingOK, OnTarget
  <2>3. running
    BY AdminSteps
  <2> QED BY <2>2, <2>3 DEF Send
<1>2. AdminSpec => []AdminInv
  BY AdminHolds
<1>3. AdminSpec => [][AdminNext]_adminVars
  BY DEF AdminSpec
<1> QED BY <1>1, <1>2, <1>3, PTL DEF ActionsHaveClients

=============================================================================
