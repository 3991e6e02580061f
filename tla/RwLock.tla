------------------------------- MODULE RwLock -------------------------------
(***************************************************************************)
(* What a readers-writer lock promises: a writer is alone, readers share,  *)
(* and a reader may take the lock again while it holds it.                 *)
(***************************************************************************)
EXTENDS Naturals

CONSTANTS
  Procs,    \* the goroutines that use the lock
  MaxDepth  \* bound: how often a goroutine nests its read locks

VARIABLES
  reads,    \* how many read locks each goroutine holds
  writing   \* the goroutines that hold the write lock

lockVars == <<reads, writing>>

Init == reads = [p \in Procs |-> 0] /\ writing = {}

AcquireRead(p) ==
  /\ writing = {}
  /\ reads[p] < MaxDepth
  /\ reads' = [reads EXCEPT ![p] = @ + 1]
  /\ UNCHANGED writing

ReleaseRead(p) ==
  /\ reads[p] > 0
  /\ reads' = [reads EXCEPT ![p] = @ - 1]
  /\ UNCHANGED writing

AcquireWrite(p) ==
  /\ writing = {} /\ \A q \in Procs : reads[q] = 0
  /\ writing' = {p}
  /\ UNCHANGED reads

ReleaseWrite(p) ==
  /\ p \in writing
  /\ writing' = {}
  /\ UNCHANGED reads

Next == \E p \in Procs :
  AcquireRead(p) \/ ReleaseRead(p) \/ AcquireWrite(p) \/ ReleaseWrite(p)

Spec == Init /\ [][Next]_lockVars

=============================================================================
