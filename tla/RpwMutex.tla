------------------------------ MODULE RpwMutex ------------------------------
(***************************************************************************)
(* gumble's reader-preferred lock, rpwMutex: the type of Client.volatile,  *)
(* which protects the channel and user tree. It is built from two mutexes  *)
(* and a counter: the first reader takes w for all readers, the last one   *)
(* returns it, and r protects the counter n.                               *)
(*                                                                         *)
(* Readers nest: handleUDPTunnel holds the lock when it calls              *)
(* dispatchOpus15, which takes it again. No goroutine asks for the write   *)
(* lock while it reads.                                                    *)
(***************************************************************************)
EXTENDS Naturals, FiniteSets

CONSTANTS
  Procs,    \* the goroutines that use the lock
  MaxDepth, \* bound: how often a goroutine nests its read locks
  Free      \* a mutex nobody holds

ASSUME LockAssumption ==
  /\ IsFiniteSet(Procs) /\ MaxDepth \in Nat \ {0} /\ Free \notin Procs

VARIABLES
  w,      \* rpwMutex.w, locked by a writer or on behalf of all readers
  r,      \* who has locked rpwMutex.r
  n,      \* rpwMutex.n
  level,  \* the read locks of each goroutine that n counts
  pc      \* where each goroutine stands in the lock's code

vars == <<w, r, n, level, pc>>

\* "rlock", "lock": has called, and waits for r, or w. "awaitW": the first
\* reader, waiting for w with r locked. "leaveRLock", "leaveRUnlock": about to
\* unlock r. "writing": holds the write lock.
Steps == {"idle", "rlock", "awaitW", "leaveRLock", "leaveRUnlock", "lock", "writing"}

Init ==
  /\ w = "free"
  /\ r = Free
  /\ n = 0
  /\ level = [p \in Procs |-> 0]
  /\ pc = [p \in Procs |-> "idle"]

Goto(p, step) == pc' = [pc EXCEPT ![p] = step]

\* RLock is called, perhaps by a goroutine that reads already.
RLockCall(p) ==
  /\ pc[p] = "idle" /\ level[p] < MaxDepth
  /\ Goto(p, "rlock")
  /\ UNCHANGED <<w, r, n, level>>

\* Mutant: a reader that gives way to waiting writers, as sync.RWMutex does.
RLockEnter_WriterPreferred(p) ==
  /\ pc[p] = "rlock" /\ r = Free /\ \A q \in Procs : pc[q] # "lock"
  /\ r' = p
  /\ n' = n + 1
  /\ level' = [level EXCEPT ![p] = @ + 1]
  /\ Goto(p, IF n = 0 THEN "awaitW" ELSE "leaveRLock")
  /\ UNCHANGED w

\* m.r.Lock(); m.n++; if m.n == 1 ...
RLockEnter(p) ==
  /\ pc[p] = "rlock" /\ r = Free
  /\ r' = p
  /\ n' = n + 1
  /\ level' = [level EXCEPT ![p] = @ + 1]
  /\ Goto(p, IF n = 0 THEN "awaitW" ELSE "leaveRLock")
  /\ UNCHANGED w

\* ... m.w.Lock()
AwaitW(p) ==
  /\ pc[p] = "awaitW" /\ w = "free"
  /\ w' = "locked"
  /\ Goto(p, "leaveRLock")
  /\ UNCHANGED <<r, n, level>>

\* m.r.Unlock(): the reader is in.
RLockLeave(p) ==
  /\ pc[p] = "leaveRLock"
  /\ r' = Free
  /\ Goto(p, "idle")
  /\ UNCHANGED <<w, n, level>>

\* Mutant: every reader that leaves returns w, not only the last.
RUnlock_NotLast(p) ==
  /\ pc[p] = "idle" /\ level[p] > 0 /\ r = Free
  /\ r' = p
  /\ n' = n - 1
  /\ level' = [level EXCEPT ![p] = @ - 1]
  /\ w' = "free"
  /\ Goto(p, "leaveRUnlock")

\* RUnlock: m.r.Lock(); m.n--; if m.n == 0 { m.w.Unlock() }
RUnlock(p) ==
  /\ pc[p] = "idle" /\ level[p] > 0 /\ r = Free
  /\ r' = p
  /\ n' = n - 1
  /\ level' = [level EXCEPT ![p] = @ - 1]
  /\ w' = IF n = 1 THEN "free" ELSE w
  /\ Goto(p, "leaveRUnlock")

RUnlockLeave(p) ==
  /\ pc[p] = "leaveRUnlock"
  /\ r' = Free
  /\ Goto(p, "idle")
  /\ UNCHANGED <<w, n, level>>

LockCall(p) ==
  /\ pc[p] = "idle" /\ level[p] = 0
  /\ Goto(p, "lock")
  /\ UNCHANGED <<w, r, n, level>>

Lock(p) ==
  /\ pc[p] = "lock" /\ w = "free"
  /\ w' = "locked"
  /\ Goto(p, "writing")
  /\ UNCHANGED <<r, n, level>>

Unlock(p) ==
  /\ pc[p] = "writing"
  /\ w' = "free"
  /\ Goto(p, "idle")
  /\ UNCHANGED <<r, n, level>>

Next == \E p \in Procs :
  \/ RLockCall(p) \/ RLockEnter(p) \/ AwaitW(p) \/ RLockLeave(p)
  \/ RUnlock(p) \/ RUnlockLeave(p)
  \/ LockCall(p) \/ Lock(p) \/ Unlock(p)

Spec == Init /\ [][Next]_vars

\* Every holder lets go: handlers and dispatchers return. sync.Mutex hands a
\* mutex to a goroutine that has waited long enough (its starvation mode), so a
\* goroutine that keeps finding a mutex free again and again obtains it.
Fairness == \A p \in Procs :
  /\ WF_vars(RLockLeave(p)) /\ WF_vars(RUnlockLeave(p)) /\ WF_vars(Unlock(p))
  /\ SF_vars(RLockEnter(p)) /\ SF_vars(AwaitW(p)) /\ SF_vars(RUnlock(p))

FairSpec == Spec /\ Fairness

-----------------------------------------------------------------------------
(* Properties                                                              *)

\* Whether p is inside a read-locked section. A lock that RLock has not yet
\* returned from is not held.
Reads(p) == level[p] - (IF pc[p] \in {"awaitW", "leaveRLock"} THEN 1 ELSE 0)
Writers == {p \in Procs : pc[p] = "writing"}

\* The counter never goes negative or past the locks that can be held, and a
\* first reader waits for w with nobody else counted.
TypeOK ==
  /\ w \in {"free", "locked"}
  /\ r \in Procs \cup {Free}
  /\ n \in 0 .. (MaxDepth * Cardinality(Procs))
  /\ level \in [Procs -> 0 .. MaxDepth]
  /\ pc \in [Procs -> Steps]

\* A writer excludes readers and other writers: the users and channels a handler
\* changes are never seen half changed (gumble/client.go:91-93).
MutualExclusion ==
  /\ \A p, q \in Writers : p = q
  /\ Writers # {} => \A p \in Procs : Reads(p) = 0

\* rpwMutex implements a readers-writer lock.
RW == INSTANCE RwLock WITH reads <- [p \in Procs |-> Reads(p)], writing <- Writers
ImplementsRwLock == RW!Spec

\* Readers are preferred: whoever asks to read does, even a goroutine that asks
\* again while it reads and a writer waits. A writer has no such promise.
ReadersGetIn == \A p \in Procs : pc[p] = "rlock" ~> (pc[p] = "idle" /\ level[p] > 0)

=============================================================================
