----------------------------- MODULE WorldProofs -----------------------------
(***************************************************************************)
(* Theorems about World, for any number of channels, users and links: what *)
(* holds whatever the server sends, and what holds with a lawful server.   *)
(***************************************************************************)
EXTENDS World, FiniteSetTheorems, TLAPS

\* The types an argument about parents needs.
TreeTypes ==
  /\ channelOf \in [Ids -> Chans \cup {None}]
  /\ parent \in [Chans -> Chans \cup {None}]

TreeInv == TreeTypes /\ CyclesAreLong

\* A walk of more steps than there are channels to walk on goes round.
LEMMA LongWalksGoRound ==
  ASSUME NEW R \in SUBSET Chans, IsFiniteSet(R), NEW n \in Nat, Cardinality(R) <= n,
         NEW walk \in [0 .. n -> R], \A i \in 1 .. n : walk[i] = parent[walk[i - 1]]
  PROVE  \E C \in SUBSET R : Cycle(C)
<1>1. IsFiniteSet(0 .. n) /\ Cardinality(0 .. n) = n + 1
  BY FS_Interval
<1>2. Cardinality(R) \in Nat
  BY FS_CardinalityType
<1>3. PICK x, y \in 0 .. n : x # y /\ walk[x] = walk[y]
  BY <1>1, <1>2, FS_PigeonHole
<1>4. PICK i, j \in 0 .. n : i < j /\ walk[i] = walk[j]
  BY <1>3
<1> DEFINE C == {walk[k] : k \in i .. j - 1}
<1>5. C \in SUBSET R /\ walk[i] \in C
  BY <1>4
<1>6. ASSUME NEW k \in i .. j - 1 PROVE parent[walk[k]] \in C
  <2>1. k + 1 \in 1 .. n /\ (k + 1) - 1 = k
    BY <1>4
  <2>2. parent[walk[k]] = walk[k + 1]
    BY <2>1
  <2>3. CASE k + 1 = j
    BY <1>4, <1>5, <2>2, <2>3
  <2>4. CASE k + 1 # j
    <3>1. k + 1 \in i .. j - 1
      BY <1>4, <2>4
    <3> QED BY <2>2, <3>1
  <2> QED BY <2>3, <2>4
<1>7. Cycle(C)
  BY <1>5, <1>6 DEF Cycle
<1> QED BY <1>5, <1>7

\* A move that isChannelDescendant lets through closes no cycle but one that is
\* longer than it looks: the channels that are reached from the new parent in a
\* shorter one would be a cycle themselves, before the move.
LEMMA MoveClosesNoShortCycle ==
  ASSUME NEW c \in Chans, NEW np \in Chans \cup {None},
         TreeInv, np # None => ~IsDescendant(np, c),
         parent' = [parent EXCEPT ![c] = np]
  PROVE  CyclesAreLong'
<1> USE WorldAssumption
<1>1. SUFFICES ASSUME NEW S \in SUBSET Chans, S # {}, \A d \in S : parent'[d] \in S,
                      ~(Cardinality(S) > MaxDepth + 1)
               PROVE  FALSE
  BY DEF CyclesAreLong, Cycle
<1>2. \A d \in Chans : parent'[d] = IF d = c THEN np ELSE parent[d]
  BY DEF TreeInv, TreeTypes
<1>3. IsFiniteSet(S) /\ Cardinality(S) \in Nat /\ Cardinality(S) <= MaxDepth + 1
  BY <1>1, FS_Subset, FS_CardinalityType
<1>4. \A C \in SUBSET S : ~Cycle(C)
  <2> SUFFICES ASSUME NEW C \in SUBSET S, Cycle(C) PROVE FALSE
    OBVIOUS
  <2>1. Cardinality(C) \in Nat /\ Cardinality(C) <= Cardinality(S)
    BY <1>3, FS_Subset, FS_CardinalityType
  <2>2. Cardinality(C) > MaxDepth + 1
    BY <1>1 DEF TreeInv, CyclesAreLong
  <2> QED BY <1>3, <2>1, <2>2
<1>5. CASE c \notin S
  <2>1. \A d \in S : parent[d] \in S
    BY <1>1, <1>2, <1>5
  <2> QED BY <1>1, <1>4, <2>1 DEF Cycle
<1>6. CASE c \in S
  <2> DEFINE R == S \ {c}
             Reached == {d \in R : \E n \in 0 .. MaxDepth :
                                     \E walk \in [0 .. n -> R] : Leads(walk, n, np, d)}
  <2>1. IsFiniteSet(R) /\ Cardinality(R) \in Nat /\ Cardinality(R) <= MaxDepth
    <3>1. IsFiniteSet(S \ {c}) /\ Cardinality(S \ {c}) = Cardinality(S) - 1
      BY ONLY <1>3, <1>6, FS_RemoveElement
    <3>2. Cardinality(S \ {c}) \in Nat
      BY ONLY <3>1, FS_CardinalityType
    <3> QED BY <1>3, <3>1, <3>2
  <2>2. np \in S /\ np # None
    BY <1>1, <1>2, <1>6
  <2>3. ~IsDescendant(np, c)
    BY <2>2
  <2>4. np # c
    <3> SUFFICES ASSUME np = c PROVE FALSE
      OBVIOUS
    <3> DEFINE walk == [i \in 0 .. 0 |-> c]
    <3>1. walk \in [0 .. 0 -> Chans] /\ Leads(walk, 0, np, c) /\ 0 \in 0 .. MaxDepth
      BY DEF Leads
    <3>2. IsDescendant(np, c)
      <4> HIDE DEF walk
      <4> QED BY <3>1 DEF IsDescendant
    <3> QED BY <2>3, <3>2
  <2>5. np \in Reached
    <3> DEFINE walk == [i \in 0 .. 0 |-> np]
    <3>1. /\ np \in R /\ walk \in [0 .. 0 -> R] /\ Leads(walk, 0, np, np)
          /\ 0 \in 0 .. MaxDepth
      BY <2>2, <2>4 DEF Leads
    <3> HIDE DEF walk, R
    <3> QED BY <3>1
  <2>6. ASSUME NEW d \in Reached PROVE parent[d] \in Reached
    <3>0. PICK n \in 0 .. MaxDepth : \E walk \in [0 .. n -> R] : Leads(walk, n, np, d)
      OBVIOUS
    <3>1. PICK walk \in [0 .. n -> R] : Leads(walk, n, np, d)
      BY <3>0
    <3>2. /\ walk[0] = np /\ walk[n] = d /\ n \in Nat
          /\ \A i \in 1 .. n : walk[i] = parent[walk[i - 1]]
      BY <3>1 DEF Leads
    <3>3. parent[d] \in S
      BY <1>1, <1>2
    <3>4. n # MaxDepth
      <4> SUFFICES ASSUME n = MaxDepth PROVE FALSE
        OBVIOUS
      <4>1. R \in SUBSET Chans /\ Cardinality(R) <= n
        BY <2>1
      <4> HIDE DEF R
      <4>2. PICK C \in SUBSET R : Cycle(C)
        BY ONLY <2>1, <3>2, <4>1, walk \in [0 .. n -> R], LongWalksGoRound
      <4>3. C \in SUBSET S
        BY DEF R
      <4> QED BY <1>4, <4>2, <4>3
    <3>5. n + 1 \in 0 .. MaxDepth
      BY <3>4
    <3> DEFINE on == [i \in 0 .. n + 1 |-> IF i <= n THEN walk[i] ELSE parent[d]]
    <3>6. Leads(on, n + 1, np, parent[d])
      <4>1. on[0] = np /\ on[n + 1] = parent[d]
        BY <3>2
      <4>2. ASSUME NEW i \in 1 .. n + 1 PROVE on[i] = parent[on[i - 1]]
        <5>1. CASE i <= n
          BY <3>2, <5>1
        <5>2. CASE i = n + 1
          BY <3>2, <5>2
        <5> QED BY <5>1, <5>2
      <4> HIDE DEF on
      <4> QED BY <4>1, <4>2 DEF Leads
    <3>7. on \in [0 .. n + 1 -> S]
      BY <3>3
    <3>8. parent[d] # c
      <4> SUFFICES ASSUME parent[d] = c PROVE FALSE
        OBVIOUS
      <4>1. on \in [0 .. n + 1 -> Chans] /\ Leads(on, n + 1, np, c)
        BY <3>6, <3>7
      <4> HIDE DEF on
      <4> QED BY <2>3, <3>5, <4>1 DEF IsDescendant
    <3>9. on \in [0 .. n + 1 -> R] /\ parent[d] \in R
      BY <3>3, <3>8
    <3> HIDE DEF on
    <3> QED BY <3>5, <3>6, <3>9
  <2>7. Cycle(Reached) /\ Reached \in SUBSET S
    BY <2>5, <2>6 DEF Cycle
  <2> QED BY <1>4, <2>7
<1> QED BY <1>5, <1>6

\* handleChannelState is the one handler that gives a channel a parent.
LEMMA ChannelStateKeepsTree ==
  ASSUME TreeInv, NEW i \in Ids, NEW c \in Chans, NEW p \in Ids \cup {Absent},
         NEW op, NEW to, ChannelState(i, c, p, op, to)
  PROVE  TreeInv'
<1>1. channelOf' = [channelOf EXCEPT ![i] = c] /\ Reparent(i, c, p)
  BY DEF ChannelState
<1>2. channelOf' \in [Ids -> Chans \cup {None}]
  BY <1>1 DEF TreeInv, TreeTypes
<1>3. CASE parent' = parent
  BY <1>2, <1>3 DEF TreeInv, TreeTypes, CyclesAreLong, Cycle
<1>4. CASE /\ p # Absent
           /\ channelOf'[p] # None => ~IsDescendant(channelOf'[p], c)
           /\ parent' = [parent EXCEPT ![c] = channelOf'[p]]
  <2>1. channelOf'[p] \in Chans \cup {None}
    BY <1>2, <1>4
  <2>2. CyclesAreLong'
    BY <1>4, <2>1, MoveClosesNoShortCycle
  <2>3. parent' \in [Chans -> Chans \cup {None}]
    BY <1>4, <2>1 DEF TreeInv, TreeTypes
  <2> QED
    BY <1>2, <2>2, <2>3 DEF TreeInv, TreeTypes
<1> QED
  BY <1>1, <1>3, <1>4 DEF Reparent

\* Removing a channel leaves the parents of the others as they are.
LEMMA ChannelRemoveKeepsTree ==
  ASSUME TreeInv, NEW i \in Ids, ChannelRemove(i)
  PROVE  TreeInv'
<1>1. parent' = parent /\ channelOf' = [channelOf EXCEPT ![i] = None]
  BY DEF ChannelRemove
<1> QED
  BY <1>1 DEF TreeInv, TreeTypes, CyclesAreLong, Cycle

LEMMA StutterKeepsTree ==
  ASSUME TreeInv, UNCHANGED channelVars
  PROVE  TreeInv'
BY DEF TreeInv, TreeTypes, CyclesAreLong, Cycle, channelVars

LEMMA StepKeepsTree ==
  ASSUME TreeInv, [Next]_vars
  PROVE  TreeInv'
<1>1. ASSUME NEW i \in Ids, NEW c \in Chans, NEW p \in Ids \cup {Absent},
             NEW op, NEW to, ChannelState(i, c, p, op, to)
      PROVE  TreeInv'
  BY <1>1, ChannelStateKeepsTree
<1>2. ASSUME NEW i \in Ids, ChannelRemove(i)
      PROVE  TreeInv'
  BY <1>2, ChannelRemoveKeepsTree
<1>3. ASSUME NEW s, NEW u, NEW actor, NEW i, UserState(s, u, actor, i)
      PROVE  TreeInv'
  <2>1. UNCHANGED channelVars
    BY <1>3 DEF UserState
  <2> QED
    BY <2>1, StutterKeepsTree
<1>4. ASSUME NEW s, NEW actor, UserRemove(s, actor)
      PROVE  TreeInv'
  <2>1. UNCHANGED channelVars
    BY <1>4 DEF UserRemove
  <2> QED
    BY <2>1, StutterKeepsTree
<1>5. ASSUME NEW s, ServerSync(s)
      PROVE  TreeInv'
  <2>1. UNCHANGED channelVars
    BY <1>5 DEF ServerSync
  <2> QED
    BY <2>1, StutterKeepsTree
<1>6. CASE UNCHANGED vars
  <2>1. UNCHANGED channelVars
    BY <1>6 DEF vars
  <2> QED
    BY <2>1, StutterKeepsTree
<1> QED
  BY <1>1, <1>2, <1>3, <1>4, <1>5, <1>6 DEF Next

\* Whatever the server sends, a cycle of channels is longer than
\* isChannelDescendant looks (handlers.go:452-467).
THEOREM CyclesStayLong == Spec => []CyclesAreLong
<1>1. Init => TreeInv
  <2>1. SUFFICES ASSUME Init PROVE TreeInv
    OBVIOUS
  <2>2. TreeTypes
    BY <2>1 DEF Init, TreeTypes
  <2>3. CyclesAreLong
    BY <2>1, WorldAssumption DEF Init, CyclesAreLong, Cycle
  <2> QED
    BY <2>2, <2>3 DEF TreeInv
<1>2. TreeInv /\ [Next]_vars => TreeInv'
  BY StepKeepsTree
<1>3. TreeInv => CyclesAreLong
  BY DEF TreeInv
<1> QED
  BY <1>1, <1>2, <1>3, PTL DEF Spec

\* With no more channels than isChannelDescendant looks at there is no cycle at
\* all ("Ignore the move rather than corrupt the channel graph",
\* handlers.go:496-499), whatever the server sends.
COROLLARY SmallServersHaveTrees ==
  ASSUME Cardinality(Chans) <= MaxDepth + 1
  PROVE  Spec => []Acyclic
<1>1. CyclesAreLong => Acyclic
  <2> SUFFICES ASSUME CyclesAreLong, NEW S \in SUBSET Chans, Cycle(S) PROVE FALSE
    BY DEF Acyclic
  <2>1. /\ Cardinality(S) \in Nat /\ Cardinality(Chans) \in Nat
        /\ Cardinality(S) <= Cardinality(Chans)
    BY WorldAssumption, FS_Subset, FS_CardinalityType
  <2>2. Cardinality(S) > MaxDepth + 1
    BY DEF CyclesAreLong
  <2> QED BY <2>1, <2>2, WorldAssumption
<1> QED BY <1>1, CyclesStayLong, PTL

-----------------------------------------------------------------------------
(* Maps that say the same from both sides                                  *)

\* The maps of channels: from keys to objects.
MapsOf(K, V) == [Chans -> [K -> V]]

\* What a map of maps holds after an entry is set or deleted; nil is no owner.
LEMMA PutEntry ==
  ASSUME NEW K, NEW V, NEW m \in MapsOf(K, V), NEW owner \in Chans \cup {None},
         NEW key \in K, NEW value \in V
  PROVE  /\ Put(m, owner, key, value) \in MapsOf(K, V)
         /\ \A c \in Chans, k \in K :
              Put(m, owner, key, value)[c][k] = IF c = owner /\ k = key THEN value ELSE m[c][k]
<1> USE DEF MapsOf
<1>1. CASE owner = None
  BY <1>1, WorldAssumption DEF Put
<1>2. CASE owner # None
  <2> DEFINE row == [m[owner] EXCEPT ![key] = value]
  <2>1. row \in [K -> V] /\ \A k \in K : row[k] = IF k = key THEN value ELSE m[owner][k]
    BY <1>2
  <2> HIDE DEF row
  <2>2. Put(m, owner, key, value) = [m EXCEPT ![owner] = row]
    BY <1>2 DEF Put, row
  <2> QED BY <1>2, <2>1, <2>2
<1> QED BY <1>1, <1>2

LEMMA DropEntry ==
  ASSUME NEW K, NEW V, NEW m \in MapsOf(K, V), NEW owner \in Chans \cup {None},
         NEW key \in K, None \in V
  PROVE  /\ Drop(m, owner, key) \in MapsOf(K, V)
         /\ \A c \in Chans, k \in K :
              Drop(m, owner, key)[c][k] = IF c = owner /\ k = key THEN None ELSE m[c][k]
<1> USE DEF MapsOf
<1>1. CASE owner = None
  BY <1>1, WorldAssumption DEF Drop
<1>2. CASE owner # None
  <2> DEFINE row == [m[owner] EXCEPT ![key] = None]
  <2>1. row \in [K -> V] /\ \A k \in K : row[k] = IF k = key THEN None ELSE m[owner][k]
    BY <1>2
  <2> HIDE DEF row
  <2>2. Drop(m, owner, key) = [m EXCEPT ![owner] = row]
    BY <1>2 DEF Drop, row
  <2> QED BY <1>2, <2>1, <2>2
<1> QED BY <1>1, <1>2

\* A number leads to an object that has it, and an object without one has nothing.
ObjectsNumbered ==
  /\ \A i \in Ids : channelOf[i] # None => id[channelOf[i]] = i
  /\ \A s \in Sessions : userOf[s] # None => session[userOf[s]] = s
  /\ \A c \in Chans : id[c] = None => parent[c] = None /\ \A k \in Ids : links[c][k] = None

\* A channel lists the known channels whose parent it is, each by its number.
Listed(c, k) ==
  IF channelOf[k] # None /\ parent[channelOf[k]] = c THEN channelOf[k] ELSE None
FamilyListed == \A c \in Chans, k \in Ids : children[c][k] = Listed(c, k)

\* A link of a known channel is to a known channel, and back.
Mutual(of, m) == \A i, k \in Ids : of[i] # None /\ m[of[i]][k] # None =>
  m[of[i]][k] = of[k] /\ m[of[k]][i] = of[i]

MapTypes ==
  /\ channelOf \in [Ids -> Chans \cup {None}] /\ id \in [Chans -> Ids \cup {None}]
  /\ parent \in [Chans -> Chans \cup {None}]
  /\ children \in [Chans -> [Ids -> Chans \cup {None}]]
  /\ links \in [Chans -> [Ids -> Chans \cup {None}]]
  /\ members \in [Chans -> [Sessions -> Users \cup {None}]]
  /\ userOf \in [Sessions -> Users \cup {None}]
  /\ session \in [Users -> Sessions \cup {None}]
  /\ channel \in [Users -> Chans \cup {None}]

MapInv == MapTypes /\ ObjectsNumbered /\ FamilyListed /\ Mutual(channelOf, links) /\ MembersAgree

LEMMA MapInvAgrees == MapInv => MapsAgree
<1> SUFFICES ASSUME MapInv PROVE MapsAgree
  OBVIOUS
<1> USE WorldAssumption DEF MapInv, MapTypes, ObjectsNumbered
<1>1. FamilyAgrees
  <2>1. ASSUME NEW c \in Chans, NEW d \in Range(children[c]), d \in Chans
        PROVE  d \in Known /\ parent[d] = c
    <3>1. PICK k \in Ids : d = children[c][k]
      BY DEF Range
    <3> QED BY <2>1, <3>1 DEF FamilyListed, Listed, Known, Range
  <2>2. ASSUME NEW c \in Chans, NEW d \in Chans, d \in Known, parent[d] = c
        PROVE  d \in Range(children[c])
    <3>1. PICK k \in Ids : d = channelOf[k]
      BY <2>2 DEF Known, Range
    <3>2. children[c][k] = d
      BY <2>2, <3>1 DEF FamilyListed, Listed
    <3> QED BY <3>2 DEF Range
  <2> QED BY <2>1, <2>2 DEF FamilyAgrees
<1>2. LinksAgree
  <2> SUFFICES ASSUME NEW c \in Known, NEW k \in Ids, links[c][k] # None
               PROVE  links[c][k] = channelOf[k] /\ links[channelOf[k]][id[c]] = c
    BY DEF LinksAgree
  <2>1. PICK i \in Ids : c = channelOf[i] /\ c # None
    BY DEF Known, Range
  <2> QED BY <2>1 DEF Mutual
<1> QED BY <1>1, <1>2 DEF MapsAgree

LEMMA SilenceKeepsMaps ==
  ASSUME MapInv, UNCHANGED <<channelVars, userVars>>
  PROVE  MapInv'
<1> USE DEF MapInv, channelVars, userVars
<1>1. MapTypes' /\ ObjectsNumbered'
  BY DEF MapTypes, ObjectsNumbered
<1>2. FamilyListed' /\ Mutual(channelOf, links)' /\ MembersAgree'
  BY DEF FamilyListed, Listed, Mutual, MembersAgree
<1> QED BY <1>1, <1>2

\* A removed channel leaves the list of its parent, and every channel that links
\* to it is one that it links to.
LEMMA ChannelRemoveKeepsMaps ==
  ASSUME MapInv, NEW i \in Ids, ChannelRemove(i)
  PROVE  MapInv'
<1> DEFINE c == channelOf[i]
<1> USE WorldAssumption DEF MapInv, MapTypes
<1>1. /\ c \in Chans /\ channelOf' = [channelOf EXCEPT ![i] = None]
      /\ children' = Drop(children, parent[c], i)
      /\ links' = [d \in Chans |->
           IF d \in Range(links[c]) THEN [links[d] EXCEPT ![i] = None] ELSE links[d]]
      /\ UNCHANGED <<id, parent, userOf, session, channel, members>>
  BY DEF ChannelRemove, userVars
<1>2. /\ children' \in [Chans -> [Ids -> Chans \cup {None}]]
      /\ \A d \in Chans, k \in Ids :
           children'[d][k] = IF d = parent[c] /\ k = i THEN None ELSE children[d][k]
  <2>1. /\ children \in MapsOf(Ids, Chans \cup {None})
        /\ parent[c] \in Chans \cup {None} /\ None \in Chans \cup {None} /\ i \in Ids
        /\ children' = Drop(children, parent[c], i)
    BY <1>1 DEF MapsOf
  <2>2. /\ children' \in MapsOf(Ids, Chans \cup {None})
        /\ \A d \in Chans, k \in Ids :
             children'[d][k] = IF d = parent[c] /\ k = i THEN None ELSE children[d][k]
    BY ONLY <2>1, DropEntry
  <2> QED BY <2>2 DEF MapsOf
<1>3. /\ links' \in [Chans -> [Ids -> Chans \cup {None}]]
      /\ \A d \in Chans, k \in Ids :
           links'[d][k] = IF k = i /\ d \in Range(links[c]) THEN None ELSE links[d][k]
  BY <1>1
<1>4. MapTypes'
  BY <1>1, <1>2, <1>3
<1>5. ObjectsNumbered'
  BY <1>1, <1>3 DEF ObjectsNumbered
<1>6. FamilyListed'
  BY <1>1, <1>2 DEF FamilyListed, Listed
<1>7. Mutual(channelOf, links)'
  <2> SUFFICES ASSUME NEW j \in Ids, NEW k \in Ids,
                      channelOf'[j] # None, links'[channelOf'[j]][k] # None
               PROVE  /\ links'[channelOf'[j]][k] = channelOf'[k]
                      /\ links'[channelOf'[k]][j] = channelOf'[j]
    BY DEF Mutual
  <2>1. /\ j # i /\ channelOf'[j] = channelOf[j] /\ channelOf[j] \in Chans
        /\ links'[channelOf'[j]][k] = links[channelOf[j]][k]
    BY <1>1, <1>3
  <2>2. links[channelOf[j]][k] = channelOf[k] /\ links[channelOf[k]][j] = channelOf[j]
    BY <2>1 DEF Mutual
  <2>3. k # i
    <3> SUFFICES ASSUME k = i PROVE FALSE
      OBVIOUS
    <3>1. channelOf[j] \in Range(links[c])
      BY <1>1, <2>2 DEF Range
    <3> QED BY <1>3, <2>1, <3>1
  <2> QED BY <1>1, <1>3, <2>1, <2>2, <2>3
<1>8. MembersAgree'
  BY <1>1 DEF MembersAgree
<1> QED BY <1>4, <1>5, <1>6, <1>7, <1>8

LEMMA UserRemoveKeepsMaps ==
  ASSUME MapInv, NEW s \in Sessions, NEW actor, UserRemove(s, actor)
  PROVE  MapInv'
<1> DEFINE u == userOf[s]
<1> USE WorldAssumption DEF MapInv, MapTypes
<1>1. /\ u \in Users /\ userOf' = [userOf EXCEPT ![s] = None]
      /\ members' = Drop(members, channel[u], s)
      /\ UNCHANGED <<channelOf, id, parent, children, links, session, channel>>
  BY DEF UserRemove, channelVars
<1>2. /\ members' \in [Chans -> [Sessions -> Users \cup {None}]]
      /\ \A d \in Chans, r \in Sessions :
           members'[d][r] = IF d = channel[u] /\ r = s THEN None ELSE members[d][r]
  <2>1. /\ members \in MapsOf(Sessions, Users \cup {None})
        /\ channel[u] \in Chans \cup {None} /\ None \in Users \cup {None} /\ s \in Sessions
    BY <1>1 DEF MapsOf
  <2>2. /\ members' \in MapsOf(Sessions, Users \cup {None})
        /\ \A d \in Chans, r \in Sessions :
             members'[d][r] = IF d = channel[u] /\ r = s THEN None ELSE members[d][r]
    BY ONLY <1>1, <2>1, DropEntry
  <2> QED BY <2>2 DEF MapsOf
<1>3. MapTypes' /\ ObjectsNumbered'
  BY <1>1, <1>2 DEF ObjectsNumbered
<1>4. FamilyListed' /\ Mutual(channelOf, links)'
  BY <1>1 DEF FamilyListed, Listed, Mutual
<1>5. MembersAgree'
  BY <1>1, <1>2 DEF MembersAgree
<1> QED BY <1>3, <1>4, <1>5

\* Wherever handleUserState gives up, only the entries of the user it is about
\* have changed, and they are where the user is.
LEMMA UserStateKeepsMaps ==
  ASSUME MapInv, NEW s \in Sessions, NEW u \in Users, NEW actor,
         NEW i \in Ids \cup {Absent}, UserState(s, u, actor, i)
  PROVE  MapInv'
<1> DEFINE fresh == userOf[s] = None
           at == IF fresh THEN channelOf[Root] ELSE channel[u]
           entered == IF fresh THEN Put(members, at, s, u) ELSE members
           left == Drop(entered, at, s)
           to == IF i = Absent THEN at ELSE channelOf[i]
           MemberMaps == MapsOf(Sessions, Users \cup {None})
<1> USE WorldAssumption DEF MapInv, MapTypes
<1>1. /\ IF fresh THEN session[u] = None ELSE u = userOf[s]
      /\ userOf' = [userOf EXCEPT ![s] = u] /\ session' = [session EXCEPT ![u] = s]
      /\ UNCHANGED <<channelOf, id, parent, children, links>>
  BY DEF UserState, channelVars
<1>2. \/ channel' = [channel EXCEPT ![u] = at] /\ members' = entered
      \/ channel' = [channel EXCEPT ![u] = at] /\ members' = left
      \/ channel' = [channel EXCEPT ![u] = to] /\ members' = Put(left, to, s, u)
  BY DEF UserState
<1>3. at \in Chans \cup {None} /\ to \in Chans \cup {None} /\ members \in MemberMaps
      /\ s \in Sessions /\ u \in Users \cup {None} /\ None \in Users \cup {None}
  BY DEF MapsOf
<1>4. \A d \in Chans : members[d][s] # None => ~fresh /\ members[d][s] = u /\ d = at
  BY <1>1 DEF MembersAgree
<1>5. /\ entered \in MemberMaps
      /\ \A d \in Chans, r \in Sessions :
           entered[d][r] = IF fresh /\ d = at /\ r = s THEN u ELSE members[d][r]
  <2>1. CASE fresh
    <3> HIDE DEF at
    <3> QED BY ONLY <1>3, <2>1, PutEntry
  <2>2. CASE ~fresh
    BY <1>3, <2>2
  <2> QED BY <2>1, <2>2
<1> HIDE DEF at, to, entered
<1>6. /\ left \in MemberMaps
      /\ \A d \in Chans, r \in Sessions :
           left[d][r] = IF d = at /\ r = s THEN None ELSE entered[d][r]
  BY ONLY <1>3, <1>5, DropEntry
<1> HIDE DEF left
<1>7. /\ Put(left, to, s, u) \in MemberMaps
      /\ \A d \in Chans, r \in Sessions :
           Put(left, to, s, u)[d][r] = IF d = to /\ r = s THEN u ELSE left[d][r]
  BY ONLY <1>3, <1>6, PutEntry
<1>8. /\ members' \in MemberMaps
      /\ channel' \in [Users -> Chans \cup {None}]
      /\ \A v \in Users : v # u => channel'[v] = channel[v]
      /\ \A d \in Chans, r \in Sessions : r # s => members'[d][r] = members[d][r]
      /\ \A d \in Chans : members'[d][s] # None => members'[d][s] = u /\ d = channel'[u]
  <2>1. channel \in [Users -> Chans \cup {None}]
    OBVIOUS
  <2> QED BY ONLY <1>2, <1>3, <1>4, <1>5, <1>6, <1>7, <2>1, u \in Users
<1>9. \A r \in Sessions : r # s /\ userOf[r] # None => userOf[r] # u
  BY <1>1 DEF ObjectsNumbered
<1>10. MapTypes'
  BY <1>1, <1>8 DEF MapsOf
<1>11. ObjectsNumbered'
  BY <1>1, <1>9 DEF ObjectsNumbered
<1>12. FamilyListed' /\ Mutual(channelOf, links)'
  BY <1>1 DEF FamilyListed, Listed, Mutual
<1>13. MembersAgree'
  BY <1>1, <1>8, <1>9 DEF MembersAgree
<1> QED BY <1>10, <1>11, <1>12, <1>13

\* The three ways to change links keep them mutual: of is the map of the numbers
\* to the known objects, each under one number.
LEMMA RelinkKeepsMutual ==
  ASSUME channelOf' \in [Ids -> Chans \cup {None}],
         \A j, k \in Ids : channelOf'[j] = channelOf'[k] /\ channelOf'[j] # None => j = k,
         NEW i \in Ids, NEW c \in Chans, channelOf'[i] = c, NEW to \in SUBSET Ids,
         NEW m, m \in [Chans -> [Ids -> Chans \cup {None}]], Mutual(channelOf', m)
  PROVE  /\ Mutual(channelOf', Linked(m, i, c, to))
         /\ m = links => Mutual(channelOf', Cleared(i, c)) /\ Mutual(channelOf', Unlinked(i, c, to))
<1> DEFINE of == channelOf'
<1> USE WorldAssumption
<1>1. /\ of \in [Ids -> Chans \cup {None}] /\ of[i] = c
      /\ \A j, k \in Ids : of[j] = of[k] /\ of[j] # None => j = k
  OBVIOUS
<1>2. \A j, k \in Ids : of[j] # None /\ m[of[j]][k] # None =>
        of[k] # None /\ m[of[j]][k] = of[k] /\ m[of[k]][j] = of[j]
  BY <1>1 DEF Mutual
<1>3. ASSUME NEW n, n \in [Chans -> [Ids -> Chans \cup {None}]],
             \A j, k \in Ids : of[j] # None /\ n[of[j]][k] # None =>
               n[of[j]][k] = of[k] /\ n[of[k]][j] = of[j]
      PROVE  Mutual(channelOf', n)
  BY <1>3 DEF Mutual
<1>4. Mutual(channelOf', Linked(m, i, c, to))
  <2> DEFINE n == Linked(m, i, c, to)
  <2>1. /\ n \in [Chans -> [Ids -> Chans \cup {None}]]
        /\ \A d \in Chans, k \in Ids :
             n[d][k] = IF d = c /\ k \in to /\ of[k] # None THEN of[k]
                       ELSE IF k = i /\ \E j \in to : of[j] = d THEN c ELSE m[d][k]
    BY <1>1 DEF Linked
  <2> HIDE DEF n, of
  <2>2. ASSUME NEW j \in Ids, NEW k \in Ids, of[j] # None, n[of[j]][k] # None
        PROVE  n[of[j]][k] = of[k] /\ n[of[k]][j] = of[j]
    <3>1. CASE of[j] = c /\ k \in to /\ of[k] # None
      <4>1. j = i /\ of[k] \in Chans
        BY <1>1, <3>1
      <4> QED BY <1>1, <2>1, <3>1, <4>1
    <3>2. CASE k = i /\ \E e \in to : of[e] = of[j]
      <4>1. j \in to
        BY <1>1, <2>2, <3>2
      <4> QED BY <1>1, <2>1, <2>2, <3>2, <4>1
    <3>3. CASE /\ ~(of[j] = c /\ k \in to /\ of[k] # None)
               /\ ~(k = i /\ \E e \in to : of[e] = of[j])
      <4>1. of[j] \in Chans /\ n[of[j]][k] = m[of[j]][k]
        BY <1>1, <2>1, <2>2, <3>3
      <4>2. of[k] \in Chans /\ m[of[j]][k] = of[k] /\ m[of[k]][j] = of[j]
        BY <1>1, <1>2, <2>2, <4>1
      <4> QED BY <1>1, <2>1, <2>2, <4>1, <4>2
    <3> QED BY <3>1, <3>2, <3>3
  <2> QED BY <1>3, <2>1, <2>2 DEF n
<1>5. ASSUME m = links PROVE Mutual(channelOf', Cleared(i, c))
  <2> DEFINE n == Cleared(i, c)
  <2>1. /\ n \in [Chans -> [Ids -> Chans \cup {None}]]
        /\ \A d \in Chans, k \in Ids :
             n[d][k] = IF d = c \/ (k = i /\ d \in Range(m[c])) THEN None ELSE m[d][k]
    BY <1>5 DEF Cleared
  <2> HIDE DEF n, of
  <2>2. ASSUME NEW j \in Ids, NEW k \in Ids, of[j] # None, n[of[j]][k] # None
        PROVE  n[of[j]][k] = of[k] /\ n[of[k]][j] = of[j]
    <3>1. /\ of[j] \in Chans /\ of[j] # c /\ n[of[j]][k] = m[of[j]][k]
          /\ ~(k = i /\ of[j] \in Range(m[c]))
      BY <1>1, <2>1, <2>2
    <3>2. of[k] \in Chans /\ m[of[j]][k] = of[k] /\ m[of[k]][j] = of[j]
      BY <1>1, <1>2, <2>2, <3>1
    <3>3. of[k] # c
      <4> SUFFICES ASSUME of[k] = c PROVE FALSE
        OBVIOUS
      <4>1. k = i /\ m[c][j] = of[j]
        BY <1>1, <3>2
      <4> QED BY <3>1, <4>1 DEF Range
    <3>4. j # i
      BY <1>1, <3>1
    <3> QED BY <2>1, <3>1, <3>2, <3>3, <3>4
  <2> QED BY <1>3, <2>1, <2>2 DEF n
<1>6. ASSUME m = links PROVE Mutual(channelOf', Unlinked(i, c, to))
  <2> DEFINE n == Unlinked(i, c, to)
  <2>1. /\ n \in [Chans -> [Ids -> Chans \cup {None}]]
        /\ \A d \in Chans, k \in Ids :
             n[d][k] = IF \/ d = c /\ k \in to /\ of[k] # None
                          \/ k = i /\ \E j \in to : of[j] = d
                       THEN None ELSE m[d][k]
    BY <1>6 DEF Unlinked
  <2> HIDE DEF n, of
  <2>2. ASSUME NEW j \in Ids, NEW k \in Ids, of[j] # None, n[of[j]][k] # None
        PROVE  n[of[j]][k] = of[k] /\ n[of[k]][j] = of[j]
    <3>1. /\ of[j] \in Chans /\ n[of[j]][k] = m[of[j]][k]
          /\ ~(of[j] = c /\ k \in to /\ of[k] # None) /\ ~(k = i /\ j \in to)
      BY <1>1, <2>1, <2>2
    <3>2. of[k] \in Chans /\ m[of[j]][k] = of[k] /\ m[of[k]][j] = of[j]
      BY <1>1, <1>2, <2>2, <3>1
    <3>3. ~(of[k] = c /\ j \in to) /\ ~(j = i /\ k \in to)
      BY <1>1, <2>2, <3>1, <3>2
    <3>4. ~(j = i /\ \E e \in to : of[e] = of[k])
      BY <1>1, <3>2, <3>3
    <3>5. n[of[k]][j] = m[of[k]][j]
      BY <2>1, <3>2, <3>3, <3>4
    <3> QED BY <3>1, <3>2, <3>5
  <2> QED BY <1>3, <2>1, <2>2 DEF n
<1> QED BY <1>4, <1>5, <1>6

LEMMA ChannelStateKeepsMaps ==
  ASSUME MapInv, NEW i \in Ids, NEW c \in Chans, NEW p \in Ids \cup {Absent},
         NEW op \in {"none", "set", "add", "remove"}, NEW to \in SUBSET Ids,
         ChannelState(i, c, p, op, to)
  PROVE  MapInv'
<1> USE WorldAssumption DEF MapInv, MapTypes
<1>1. /\ IF channelOf[i] = None THEN id[c] = None ELSE c = channelOf[i]
      /\ channelOf' = [channelOf EXCEPT ![i] = c] /\ id' = [id EXCEPT ![c] = i]
      /\ Reparent(i, c, p) /\ Relink(i, c, op, to)
      /\ UNCHANGED <<userOf, session, channel, members>>
  BY DEF ChannelState, userVars
<1>2. /\ channelOf' \in [Ids -> Chans \cup {None}] /\ channelOf'[i] = c
      /\ \A k \in Ids : k # i => channelOf'[k] = channelOf[k] /\ channelOf[k] # c
  BY <1>1 DEF ObjectsNumbered
<1>3. \A k \in Ids : channelOf'[k] # None => id'[channelOf'[k]] = k
  BY <1>1, <1>2 DEF ObjectsNumbered
<1>4. \A j, k \in Ids : channelOf'[j] = channelOf'[k] /\ channelOf'[j] # None => j = k
  BY <1>3
<1>5. channelOf[i] = None => parent[c] = None /\ \A k \in Ids : links[c][k] = None
  BY <1>1 DEF ObjectsNumbered
<1>6. \/ UNCHANGED <<parent, children>>
      \/ \E np \in Chans \cup {None} :
           /\ parent' = [parent EXCEPT ![c] = np]
           /\ children' = Put(Drop(children, parent[c], i), np, i, c)
  <2>1. p # Absent => channelOf'[p] \in Chans \cup {None}
    BY <1>2
  <2> QED BY <1>1, <2>1 DEF Reparent
<1>7. /\ parent' \in [Chans -> Chans \cup {None}]
      /\ children' \in [Chans -> [Ids -> Chans \cup {None}]]
      /\ \A d \in Chans : d # c => parent'[d] = parent[d]
      /\ FamilyListed'
  <2>1. CASE UNCHANGED <<parent, children>>
    <3>1. ASSUME NEW d \in Chans, NEW k \in Ids PROVE children'[d][k] = Listed(d, k)'
      <4>1. children'[d][k] = Listed(d, k)
        BY <2>1 DEF FamilyListed
      <4>2. CASE k # i
        BY <1>2, <2>1, <4>1, <4>2 DEF Listed
      <4>3. CASE k = i
        BY <1>1, <1>2, <1>5, <2>1, <4>1, <4>3 DEF Listed
      <4> QED BY <4>2, <4>3
    <3>2. FamilyListed'
      BY <3>1 DEF FamilyListed
    <3> QED BY <2>1, <3>2
  <2>2. ASSUME NEW np \in Chans \cup {None}, parent' = [parent EXCEPT ![c] = np],
               children' = Put(Drop(children, parent[c], i), np, i, c)
        PROVE  /\ parent' \in [Chans -> Chans \cup {None}]
               /\ children' \in [Chans -> [Ids -> Chans \cup {None}]]
               /\ \A d \in Chans : d # c => parent'[d] = parent[d]
               /\ FamilyListed'
    <3>5. /\ children' \in [Chans -> [Ids -> Chans \cup {None}]]
          /\ \A d \in Chans, k \in Ids :
               children'[d][k] = IF d = np /\ k = i THEN c
                                 ELSE IF d = parent[c] /\ k = i THEN None ELSE children[d][k]
      <4> DEFINE left == Drop(children, parent[c], i)
      <4>1. /\ left \in [Chans -> [Ids -> Chans \cup {None}]]
            /\ \A d \in Chans, k \in Ids :
                 left[d][k] = IF d = parent[c] /\ k = i THEN None ELSE children[d][k]
        BY DEF Drop
      <4> HIDE DEF left
      <4>2. children' = Put(left, np, i, c)
        BY <2>2 DEF left
      <4> QED BY <4>1, <4>2 DEF Put
    <3>6. parent' \in [Chans -> Chans \cup {None}] /\ parent'[c] = np
          /\ \A d \in Chans : d # c => parent'[d] = parent[d]
      BY <2>2
    <3>7. ASSUME NEW d \in Chans, NEW k \in Ids PROVE children'[d][k] = Listed(d, k)'
      <4>1. children[d][k] = Listed(d, k)
        BY DEF FamilyListed
      <4>2. CASE k # i
        BY <1>2, <3>5, <3>6, <4>1, <4>2 DEF Listed
      <4>3. CASE k = i
        BY <1>1, <1>2, <1>5, <3>5, <3>6, <4>1, <4>3 DEF Listed
      <4> QED BY <4>2, <4>3
    <3>8. FamilyListed'
      BY <3>7 DEF FamilyListed
    <3> QED BY <3>5, <3>6, <3>8
  <2> QED BY <1>6, <2>1, <2>2
<1>8. Mutual(channelOf', links)
  <2> SUFFICES ASSUME NEW j \in Ids, NEW k \in Ids,
                      channelOf'[j] # None, links[channelOf'[j]][k] # None
               PROVE  /\ links[channelOf'[j]][k] = channelOf'[k]
                      /\ links[channelOf'[k]][j] = channelOf'[j]
    BY DEF Mutual
  <2>1. channelOf'[j] = channelOf[j]
    BY <1>1, <1>2, <1>5
  <2>2. links[channelOf[j]][k] = channelOf[k] /\ links[channelOf[k]][j] = channelOf[j]
    BY <2>1 DEF Mutual
  <2>3. channelOf'[k] = channelOf[k]
    BY <1>1, <1>2, <2>1, <2>2
  <2> QED BY <2>1, <2>2, <2>3
<1>9. /\ links' \in [Chans -> [Ids -> Chans \cup {None}]]
      /\ Mutual(channelOf', links')
      /\ \A d \in Chans, k \in Ids :
           id'[d] = None /\ links[d][k] = None => links'[d][k] = None
  <2>1. ASSUME NEW j \in Ids, NEW d \in Chans, channelOf'[j] = d PROVE id'[d] # None
    <3>1. id'[channelOf'[j]] = j
      BY <1>3, <2>1
    <3> QED BY <2>1, <3>1
  <2>2. id'[c] # None
    BY <1>2, <2>1
  <2>3. CASE op = "none"
    BY <1>1, <1>8, <2>3 DEF Relink
  <2>4. CASE op = "add"
    <3>1. links' = Linked(links, i, c, to)
      BY <1>1, <2>4 DEF Relink
    <3>2. Mutual(channelOf', links')
      BY <1>2, <1>4, <1>8, <3>1, RelinkKeepsMutual
    <3> QED BY <1>2, <2>1, <2>2, <3>1, <3>2 DEF Linked
  <2>5. CASE op = "remove"
    <3>1. links' = Unlinked(i, c, to)
      BY <1>1, <2>5 DEF Relink
    <3>2. Mutual(channelOf', links')
      BY <1>2, <1>4, <1>8, <3>1, RelinkKeepsMutual
    <3> QED BY <1>2, <2>1, <2>2, <3>1, <3>2 DEF Unlinked
  <2>6. CASE op = "set"
    <3>1. links' = Linked(Cleared(i, c), i, c, to)
      BY <1>1, <2>6 DEF Relink
    <3>2. Cleared(i, c) \in [Chans -> [Ids -> Chans \cup {None}]]
          /\ \A d \in Chans, k \in Ids : links[d][k] = None => Cleared(i, c)[d][k] = None
      BY DEF Cleared
    <3>3. Mutual(channelOf', Cleared(i, c))
      BY <1>2, <1>4, <1>8, RelinkKeepsMutual
    <3>4. Mutual(channelOf', links')
      BY <1>2, <1>4, <3>1, <3>2, <3>3, RelinkKeepsMutual
    <3> QED BY <1>2, <2>1, <2>2, <3>1, <3>2, <3>4 DEF Linked
  <2> QED BY <2>3, <2>4, <2>5, <2>6
<1>10. MapTypes'
  BY <1>1, <1>2, <1>7, <1>9
<1>11. ObjectsNumbered'
  BY <1>1, <1>3, <1>7, <1>9 DEF ObjectsNumbered
<1>12. Mutual(channelOf, links)'
  BY <1>9 DEF Mutual
<1>13. MembersAgree'
  BY <1>1 DEF MembersAgree
<1> QED BY <1>7, <1>10, <1>11, <1>12, <1>13

\* Every message leaves the maps in agreement.
LEMMA StepKeepsMaps ==
  ASSUME MapInv, [Next]_vars PROVE MapInv'
<1>1. ASSUME NEW i \in Ids, NEW c \in Chans, NEW p \in Ids \cup {Absent},
             NEW op \in {"set", "add", "remove"}, NEW to \in LinkSets,
             ChannelState(i, c, p, op, to)
      PROVE  MapInv'
  BY <1>1, ChannelStateKeepsMaps, WorldAssumption
<1>2. ASSUME NEW i \in Ids, NEW c \in Chans, NEW p \in Ids \cup {Absent},
             ChannelState(i, c, p, "none", {})
      PROVE  MapInv'
  BY <1>2, ChannelStateKeepsMaps
<1>3. ASSUME NEW i \in Ids, ChannelRemove(i) PROVE MapInv'
  BY <1>3, ChannelRemoveKeepsMaps
<1>4. ASSUME NEW s \in Speaking, NEW u \in Users, NEW actor,
             NEW i \in Ids \cup {Absent}, UserState(s, u, actor, i)
      PROVE  MapInv'
  <2>1. s \in Sessions
    BY WorldAssumption DEF Speaking
  <2> QED BY <1>4, <2>1, UserStateKeepsMaps
<1>5. ASSUME NEW s \in Speaking, NEW actor, UserRemove(s, actor) PROVE MapInv'
  <2>1. s \in Sessions
    BY WorldAssumption DEF Speaking
  <2> QED BY <1>5, <2>1, UserRemoveKeepsMaps
<1>6. ASSUME NEW s, ServerSync(s) PROVE MapInv'
  BY <1>6, SilenceKeepsMaps DEF ServerSync
<1>7. CASE UNCHANGED vars
  BY <1>7, SilenceKeepsMaps DEF vars
<1> QED BY <1>1, <1>2, <1>3, <1>4, <1>5, <1>6, <1>7 DEF Next

LEMMA InitMaps == Init => MapInv
<1> SUFFICES ASSUME Init PROVE MapInv
  OBVIOUS
<1>1. MapTypes /\ ObjectsNumbered
  BY WorldAssumption DEF Init, MapTypes, ObjectsNumbered
<1>2. FamilyListed /\ Mutual(channelOf, links) /\ MembersAgree
  BY DEF Init, FamilyListed, Listed, Mutual, MembersAgree
<1> QED BY <1>1, <1>2 DEF MapInv

\* Whatever the server sends and however early a handler gives up, a channel
\* lists its children and its users and nobody else, and links go both ways.
THEOREM MapsStayTrue == Spec => []MapsAgree
<1>1. Init => MapInv
  BY InitMaps
<1>2. MapInv /\ [Next]_vars => MapInv'
  BY StepKeepsMaps
<1> QED BY <1>1, <1>2, MapInvAgrees, PTL DEF Spec

-----------------------------------------------------------------------------
(* What a lawful server's client knows                                     *)

\* Every known channel hangs in the tree, and every user is in a known channel
\* that lists it.
Rooted == \A c \in Known :
  parent[c] \in Known \cup {None} /\ (id[c] # Root => parent[c] \in Known)
Housed == \A s \in Sessions : userOf[s] # None =>
  channel[userOf[s]] \in Known /\ members[channel[userOf[s]]][s] = userOf[s]

\* The application remembers everybody where they are.
Recalled == remembered = [s \in Sessions |-> IF userOf[s] = None THEN None ELSE channel[userOf[s]]]

PictureInv ==
  /\ MapInv
  /\ lawful => Rooted /\ Housed
  /\ lawful /\ synced => Recalled

\* The known channels and the users present are objects with a number that leads
\* to them.
LEMMA KnownByNumber ==
  ASSUME MapInv
  PROVE  /\ \A c : c \in Known <=> c \in Chans /\ id[c] \in Ids /\ channelOf[id[c]] = c
         /\ \A u : u \in Present <=> u \in Users /\ session[u] \in Sessions /\ userOf[session[u]] = u
<1> USE WorldAssumption DEF MapInv, MapTypes, ObjectsNumbered
<1>1. ASSUME NEW c, c \in Known PROVE c \in Chans /\ id[c] \in Ids /\ channelOf[id[c]] = c
  <2>1. PICK i \in Ids : c = channelOf[i] /\ c # None
    BY <1>1 DEF Known, Range
  <2> QED BY <2>1
<1>2. ASSUME NEW c, c \in Chans /\ id[c] \in Ids /\ channelOf[id[c]] = c PROVE c \in Known
  BY <1>2 DEF Known, Range
<1>3. ASSUME NEW u, u \in Present
      PROVE  u \in Users /\ session[u] \in Sessions /\ userOf[session[u]] = u
  <2>1. PICK s \in Sessions : u = userOf[s] /\ u # None
    BY <1>3 DEF Present, Range
  <2> QED BY <2>1
<1>4. ASSUME NEW u, u \in Users /\ session[u] \in Sessions /\ userOf[session[u]] = u
      PROVE  u \in Present
  BY <1>4 DEF Present, Range
<1> QED BY <1>1, <1>2, <1>3, <1>4

\* Whoever isChannelDescendant finds below c is below it: following parents from
\* the inside of a set that they do not lead out of stays inside.
LEMMA FoundIsBelow ==
  ASSUME NEW candidate \in Chans, NEW c \in Chans, IsDescendant(candidate, c)
  PROVE  IsBelow(candidate, c)
<1> USE WorldAssumption
<1>0. PICK n \in 0 .. MaxDepth : \E walk \in [0 .. n -> Chans] : Leads(walk, n, candidate, c)
  BY DEF IsDescendant
<1>1. PICK walk \in [0 .. n -> Chans] : Leads(walk, n, candidate, c)
  BY <1>0
<1>2. SUFFICES ASSUME NEW S \in SUBSET Chans, candidate \in S,
                      \A d \in S : parent[d] \in S \cup {None}, c \notin S
               PROVE  FALSE
  BY DEF IsBelow
<1> DEFINE In == {i \in 0 .. n : walk[i] \in S}
           next == [i \in In |-> i + 1]
<1>3. n \in Nat /\ 0 \in In /\ n \notin In
  BY <1>1, <1>2 DEF Leads
<1>4. next \in [In -> In \ {0}]
  <2> SUFFICES ASSUME NEW i \in In PROVE i + 1 \in In
    OBVIOUS
  <2>1. i + 1 \in 1 .. n /\ (i + 1) - 1 = i
    BY <1>3
  <2>2. walk[i + 1] = parent[walk[i]] /\ walk[i + 1] \in Chans
    BY <1>1, <2>1 DEF Leads
  <2>3. walk[i + 1] \in S
    BY <1>2, <2>2
  <2> QED BY <2>1, <2>3
<1>5. IsFiniteSet(In) /\ Cardinality(In) \in Nat
  <2>1. IsFiniteSet(0 .. n) /\ In \in SUBSET (0 .. n)
    BY <1>3, FS_Interval
  <2> QED BY ONLY <2>1, FS_Subset, FS_CardinalityType
<1>6. IsFiniteSet(In \ {0}) /\ Cardinality(In \ {0}) < Cardinality(In)
  <2>1. IsFiniteSet(In \ {0}) /\ Cardinality(In \ {0}) = Cardinality(In) - 1
    <3> HIDE DEF In
    <3> QED BY ONLY <1>3, <1>5, FS_RemoveElement
  <2> HIDE DEF In
  <2> QED BY <1>5, <2>1
<1>7. PICK i, j \in In : i # j /\ next[i] = next[j]
  <2> HIDE DEF In, next
  <2> QED BY ONLY <1>4, <1>5, <1>6, FS_PigeonHole
<1> QED BY <1>7

\* A channel that nobody knows is above none that is known, so the parent a lawful
\* server gives is accepted.
LEMMA NewParentIsTaken ==
  ASSUME MapInv, Rooted, NEW i \in Ids, NEW c \in Chans, NEW p \in Ids,
         LawfulChannel(i, p), IF channelOf[i] = None THEN id[c] = None ELSE c = channelOf[i]
  PROVE  p # i /\ channelOf[p] \in Known /\ ~IsDescendant(channelOf[p], c)
<1> USE WorldAssumption DEF MapInv, MapTypes
<1>1. i # Root /\ channelOf[p] # None /\ channelOf[p] \in Known /\ channelOf[p] \in Chans
  BY DEF LawfulChannel, Known, Range
<1>2. ~IsBelow(channelOf[p], c)
  <2>1. CASE channelOf[i] = None
    <3>1. c \notin Known
      BY <2>1, KnownByNumber
    <3>2. Known \in SUBSET Chans /\ \A d \in Known : parent[d] \in Known \cup {None}
      BY KnownByNumber DEF Rooted
    <3> QED BY <1>1, <3>1, <3>2 DEF IsBelow
  <2>2. CASE channelOf[i] # None
    BY <1>1, <2>2 DEF LawfulChannel
  <2> QED BY <2>1, <2>2
<1>3. ~IsDescendant(channelOf[p], c)
  BY ONLY <1>1, <1>2, c \in Chans, FoundIsBelow
<1>4. p # i
  <2> SUFFICES ASSUME p = i PROVE FALSE
    OBVIOUS
  <2>1. c = channelOf[p]
    BY <1>1
  <2>2. IsBelow(c, c)
    BY DEF IsBelow
  <2> QED BY <1>2, <2>1, <2>2
<1> QED BY <1>1, <1>3, <1>4

\* A lawful ChannelState: a channel joins the tree or moves in it.
LEMMA ChannelStateKeepsPicture ==
  ASSUME MapInv, MapInv', Rooted, Housed, NEW i \in Ids, NEW c \in Chans, NEW p \in Ids \cup {Absent},
         NEW op, NEW to, LawfulChannel(i, p), ChannelState(i, c, p, op, to)
  PROVE  Rooted' /\ Housed'
<1> USE WorldAssumption DEF MapInv, MapTypes
<1>1. /\ IF channelOf[i] = None THEN id[c] = None ELSE c = channelOf[i]
      /\ channelOf' = [channelOf EXCEPT ![i] = c] /\ id' = [id EXCEPT ![c] = i]
      /\ Reparent(i, c, p)
      /\ UNCHANGED <<userOf, channel, members>>
  BY DEF ChannelState, userVars
<1>2. Known' = Known \cup {c}
  <2>1. ASSUME NEW d, d \in Known' PROVE d \in Known \cup {c}
    BY <1>1, <2>1 DEF Known, Range
  <2>2. ASSUME NEW d, d \in Known PROVE d \in Known'
    <3>1. PICK k \in Ids : d = channelOf[k] /\ d # None
      BY <2>2 DEF Known, Range
    <3>2. d = channelOf'[k]
      BY <1>1, <3>1
    <3> QED BY <3>1, <3>2 DEF Known, Range
  <2>3. c \in Known'
    BY <1>1 DEF Known, Range
  <2> QED BY <2>1, <2>2, <2>3
<1>3. \A d \in Known : d # c => id'[d] = id[d]
  BY <1>1, KnownByNumber
<1>4. CASE p = Absent
  <2>1. parent' = parent /\ (i = Root \/ channelOf[i] # None)
    BY <1>1, <1>4 DEF Reparent, LawfulChannel
  <2>2. parent[c] \in Known \cup {None} /\ (i # Root => parent[c] \in Known)
    BY <1>1, <2>1 DEF Rooted, ObjectsNumbered, Known, Range
  <2>3. Rooted'
    BY <1>1, <1>2, <1>3, <2>1, <2>2, KnownByNumber DEF Rooted
  <2> QED BY <1>1, <1>2, <2>3 DEF Housed
<1>5. CASE p # Absent
  <2>1. p # i /\ channelOf[p] \in Known /\ ~IsDescendant(channelOf[p], c)
    BY <1>1, <1>5, NewParentIsTaken
  <2>2. channelOf'[p] = channelOf[p]
    BY <1>1, <2>1
  <2>3. parent' = [parent EXCEPT ![c] = channelOf[p]]
    BY <1>1, <1>5, <2>1, <2>2 DEF Reparent
  <2>4. Rooted'
    BY <1>1, <1>2, <1>3, <2>1, <2>3, KnownByNumber DEF Rooted
  <2> QED BY <1>1, <1>2, <2>4 DEF Housed
<1> QED BY <1>4, <1>5

\* A lawful ChannelRemove: nothing hangs below the channel and nobody is in it.
LEMMA ChannelRemoveKeepsPicture ==
  ASSUME MapInv, Rooted, Housed, NEW i \in Ids, LawfulRemoval(i), ChannelRemove(i)
  PROVE  Rooted' /\ Housed'
<1> USE WorldAssumption DEF MapInv, MapTypes
<1> DEFINE c == channelOf[i]
<1>1. /\ c \in Chans /\ channelOf' = [channelOf EXCEPT ![i] = None]
      /\ channelOf' \in [Ids -> Chans \cup {None}]
      /\ UNCHANGED <<id, parent, userOf, channel, members>>
  BY DEF ChannelRemove, userVars
<1>2. Known' = Known \ {c}
  <2>1. ASSUME NEW d, d \in Known' PROVE d \in Known \ {c}
    <3>1. PICK k \in Ids : d = channelOf'[k] /\ d # None
      BY <1>1, <2>1 DEF Known, Range
    <3> QED BY <1>1, <3>1 DEF Known, Range, ObjectsNumbered
  <2>2. ASSUME NEW d, d \in Known, d # c PROVE d \in Known'
    <3>1. PICK k \in Ids : d = channelOf[k] /\ d # None
      BY <2>2 DEF Known, Range
    <3>2. d = channelOf'[k]
      BY <1>1, <2>2, <3>1
    <3> QED BY <1>1, <3>1, <3>2 DEF Known, Range
  <2> QED BY <2>1, <2>2
<1>3. \A d \in Known : parent[d] # c
  BY DEF LawfulRemoval, Children
<1>4. \A s \in Sessions : userOf[s] # None => channel[userOf[s]] # c
  BY DEF LawfulRemoval, Present, Range
<1> QED BY <1>1, <1>2, <1>3, <1>4 DEF Rooted, Housed

\* A lawful UserState does its work to the end: the user object u is in channel
\* "to", which lists it, and the application is told where it was.
LEMMA LawfulUserState ==
  ASSUME MapInv, Housed, NEW s \in Sessions, NEW u \in Users,
         NEW actor \in Sessions \cup {Absent}, NEW i \in Ids \cup {Absent},
         LawfulUser(actor, i), UserState(s, u, actor, i),
         NEW at, at = IF userOf[s] = None THEN channelOf[Root] ELSE channel[u],
         NEW to, to = IF i = Absent THEN at ELSE channelOf[i]
  PROVE  /\ IF userOf[s] = None THEN session[u] = None ELSE u = userOf[s]
         /\ at \in Known /\ to \in Known
         /\ userOf' = [userOf EXCEPT ![s] = u] /\ channel' = [channel EXCEPT ![u] = to]
         /\ members'[to][s] = u
         /\ \A d \in Chans, r \in Sessions : r # s => members'[d][r] = members[d][r]
         /\ UserChanged(u, s, userOf[s] = None, userOf[s] = None \/ to # at, to)
         /\ UNCHANGED <<channelVars, self, synced, lawful>>
<1> DEFINE entered == IF userOf[s] = None THEN Put(members, at, s, u) ELSE members
           left == Drop(entered, at, s)
           MemberMaps == MapsOf(Sessions, Users \cup {None})
<1> USE WorldAssumption DEF MapInv, MapTypes
<1>1. /\ IF userOf[s] = None THEN session[u] = None ELSE u = userOf[s]
      /\ userOf' = [userOf EXCEPT ![s] = u]
      /\ UNCHANGED <<channelVars, self, synced, lawful>>
  BY DEF UserState
<1>2. at \in Known /\ to \in Known /\ at \in Chans /\ to \in Chans
  <2>1. at \in Known
    BY <1>1 DEF LawfulUser, Housed, Known, Range
  <2>2. to \in Known
    BY <2>1 DEF LawfulUser, Known, Range
  <2> QED BY <2>1, <2>2, KnownByNumber
<1>3. actor # Absent => userOf'[actor] # None
  BY <1>1 DEF LawfulUser
<1>4. /\ channel' = [channel EXCEPT ![u] = to]
      /\ members' = IF i = Absent THEN entered ELSE Put(left, to, s, u)
      /\ UserChanged(u, s, userOf[s] = None, userOf[s] = None \/ to # at, to)
  BY <1>2, <1>3 DEF UserState
<1>5. /\ entered \in MemberMaps
      /\ \A d \in Chans, r \in Sessions : r # s => entered[d][r] = members[d][r]
      /\ entered[at][s] = u
  <2>1. CASE userOf[s] = None
    <3>1. /\ members \in MemberMaps /\ at \in Chans \cup {None} /\ u \in Users \cup {None}
          /\ entered = Put(members, at, s, u)
      BY <1>2, <2>1 DEF MapsOf
    <3> HIDE DEF entered
    <3>2. /\ entered \in MemberMaps
          /\ \A d \in Chans, r \in Sessions :
               entered[d][r] = IF d = at /\ r = s THEN u ELSE members[d][r]
      BY ONLY <3>1, s \in Sessions, PutEntry
    <3> QED BY <1>2, <3>2
  <2>2. CASE userOf[s] # None
    BY <1>1, <2>2 DEF MapsOf, Housed
  <2> QED BY <2>1, <2>2
<1> HIDE DEF entered
<1>6. /\ left \in MemberMaps
      /\ \A d \in Chans, r \in Sessions : r # s => left[d][r] = entered[d][r]
  <2>1. at \in Chans \cup {None} /\ None \in Users \cup {None}
    BY <1>2
  <2> QED BY ONLY <1>5, <2>1, s \in Sessions, DropEntry
<1> HIDE DEF left
<1>7. /\ \A d \in Chans, r \in Sessions : r # s => Put(left, to, s, u)[d][r] = left[d][r]
      /\ Put(left, to, s, u)[to][s] = u
  <2>1. to \in Chans \cup {None} /\ u \in Users \cup {None}
    BY <1>2
  <2>2. /\ Put(left, to, s, u) \in MemberMaps
        /\ \A d \in Chans, r \in Sessions :
             Put(left, to, s, u)[d][r] = IF d = to /\ r = s THEN u ELSE left[d][r]
    BY ONLY <1>6, <2>1, s \in Sessions, PutEntry
  <2> QED BY <1>2, <2>2
<1>8. /\ members'[to][s] = u
      /\ \A d \in Chans, r \in Sessions : r # s => members'[d][r] = members[d][r]
  BY <1>4, <1>5, <1>6, <1>7
<1> QED BY <1>1, <1>2, <1>4, <1>8

LEMMA UserStateKeepsPicture ==
  ASSUME MapInv, Rooted, Housed, NEW s \in Sessions, NEW u \in Users,
         NEW actor \in Sessions \cup {Absent}, NEW i \in Ids \cup {Absent},
         LawfulUser(actor, i), UserState(s, u, actor, i)
  PROVE  /\ Rooted' /\ Housed'
         /\ synced /\ Recalled => Recalled'
<1> DEFINE at == IF userOf[s] = None THEN channelOf[Root] ELSE channel[u]
           to == IF i = Absent THEN at ELSE channelOf[i]
<1>1. /\ IF userOf[s] = None THEN session[u] = None ELSE u = userOf[s]
      /\ to \in Known
      /\ userOf' = [userOf EXCEPT ![s] = u] /\ channel' = [channel EXCEPT ![u] = to]
      /\ members'[to][s] = u
      /\ \A d \in Chans, r \in Sessions : r # s => members'[d][r] = members[d][r]
      /\ UserChanged(u, s, userOf[s] = None, userOf[s] = None \/ to # at, to)
      /\ UNCHANGED channelVars
  BY LawfulUserState
<1> HIDE DEF at, to
<1> USE WorldAssumption DEF MapInv, MapTypes
<1>2. Known' = Known /\ Rooted'
  BY <1>1 DEF Known, Rooted, channelVars
<1>3. \A r \in Sessions : r # s /\ userOf[r] # None => userOf[r] # u
  BY <1>1 DEF ObjectsNumbered
<1>4. Housed'
  <2> SUFFICES ASSUME NEW r \in Sessions, userOf'[r] # None
               PROVE  channel'[userOf'[r]] \in Known /\ members'[channel'[userOf'[r]]][r] = userOf'[r]
    BY <1>2 DEF Housed
  <2>1. CASE r = s
    BY <1>1, <2>1
  <2>2. CASE r # s
    <3>1. userOf'[r] = userOf[r] /\ userOf[r] \in Users /\ userOf[r] # u
      BY <1>1, <1>3, <2>2
    <3>2. channel'[userOf[r]] = channel[userOf[r]] /\ channel[userOf[r]] \in Chans
      BY <1>1, <3>1, KnownByNumber DEF Housed
    <3> QED BY <1>1, <2>2, <3>1, <3>2 DEF Housed
  <2> QED BY <2>1, <2>2
<1>5. ASSUME synced, Recalled PROVE Recalled'
  <2>1. to # None
    BY <1>1 DEF Known
  <2>2. remembered' = [remembered EXCEPT ![s] = to]
    BY <1>1, <1>5, <2>1 DEF UserChanged
  <2> QED BY <1>1, <1>3, <1>5, <2>1, <2>2 DEF Recalled
<1> QED BY <1>2, <1>4, <1>5

LEMMA UserRemoveKeepsPicture ==
  ASSUME MapInv, Rooted, Housed, NEW s \in Sessions, NEW actor, UserRemove(s, actor)
  PROVE  /\ Rooted' /\ Housed'
         /\ synced /\ Recalled => Recalled'
<1> USE WorldAssumption DEF MapInv, MapTypes
<1>1. /\ userOf' = [userOf EXCEPT ![s] = None] /\ UNCHANGED <<channelVars, channel>>
      /\ members' = Drop(members, channel[userOf[s]], s)
      /\ synced => remembered' = [remembered EXCEPT ![s] = None]
  BY DEF UserRemove
<1>2. Known' = Known /\ Rooted'
  BY <1>1 DEF Known, Rooted, channelVars
<1>3. \A d \in Chans, r \in Sessions : r # s => members'[d][r] = members[d][r]
  BY <1>1 DEF Drop
<1>4. Housed'
  BY <1>1, <1>2, <1>3, KnownByNumber DEF Housed
<1>5. synced /\ Recalled => Recalled'
  BY <1>1 DEF Recalled
<1> QED BY <1>2, <1>4, <1>5

\* A message of a lawful server leaves the picture whole.
LEMMA LawfulStepKeepsPicture ==
  ASSUME MapInv, MapInv', Rooted, Housed, lawful, Next
  PROVE  /\ Rooted' /\ Housed'
         /\ synced /\ Recalled => Recalled'
<1>1. ASSUME NEW i \in Ids, NEW c \in Chans, NEW p \in Ids \cup {Absent}, NEW op, NEW to,
             LawfulChannel(i, p), ChannelState(i, c, p, op, to)
      PROVE  Rooted' /\ Housed' /\ (Recalled => Recalled')
  <2>1. Rooted' /\ Housed'
    BY <1>1, ChannelStateKeepsPicture
  <2>2. UNCHANGED <<remembered, userOf, channel>>
    BY <1>1 DEF ChannelState, userVars, appVars
  <2> QED BY <2>1, <2>2 DEF Recalled
<1>2. ASSUME NEW i \in Ids, LawfulRemoval(i), ChannelRemove(i)
      PROVE  Rooted' /\ Housed' /\ (Recalled => Recalled')
  <2>1. Rooted' /\ Housed'
    BY <1>2, ChannelRemoveKeepsPicture
  <2>2. UNCHANGED <<remembered, userOf, channel>>
    BY <1>2 DEF ChannelRemove, userVars, appVars
  <2> QED BY <2>1, <2>2 DEF Recalled
<1>3. ASSUME NEW s \in Speaking, NEW u \in Users, NEW actor \in Speaking \cup {Absent},
             NEW i \in Ids \cup {Absent}, LawfulUser(actor, i), UserState(s, u, actor, i)
      PROVE  Rooted' /\ Housed' /\ (synced /\ Recalled => Recalled')
  <2>1. s \in Sessions /\ actor \in Sessions \cup {Absent}
    BY WorldAssumption DEF Speaking
  <2> QED BY <1>3, <2>1, UserStateKeepsPicture
<1>4. ASSUME NEW s \in Speaking, NEW actor, UserRemove(s, actor)
      PROVE  Rooted' /\ Housed' /\ (synced /\ Recalled => Recalled')
  <2>1. s \in Sessions
    BY WorldAssumption DEF Speaking
  <2> QED BY <1>4, <2>1, UserRemoveKeepsPicture
<1>5. ASSUME NEW s, ServerSync(s)
      PROVE  Rooted' /\ Housed' /\ (synced /\ Recalled => Recalled')
  <2>1. ~synced /\ UNCHANGED <<channelVars, userVars>>
    BY <1>5 DEF ServerSync
  <2> QED BY <2>1 DEF Rooted, Housed, Known, channelVars, userVars
<1> QED BY <1>1, <1>2, <1>3, <1>4, <1>5 DEF Next, Lawful

LEMMA StepKeepsPicture ==
  ASSUME PictureInv, [Next]_vars
  PROVE  PictureInv'
<1>1. MapInv'
  BY StepKeepsMaps DEF PictureInv
<1>2. lawful' = lawful /\ (synced' = synced \/ \E s : ServerSync(s))
  <2>1. ASSUME NEW i, NEW c, NEW p, NEW op, NEW to, ChannelState(i, c, p, op, to)
        PROVE  lawful' = lawful /\ synced' = synced
    BY <2>1 DEF ChannelState, appVars
  <2>2. ASSUME NEW i, ChannelRemove(i) PROVE lawful' = lawful /\ synced' = synced
    BY <2>2 DEF ChannelRemove, appVars
  <2>3. ASSUME NEW s, NEW u, NEW actor, NEW i, UserState(s, u, actor, i)
        PROVE  lawful' = lawful /\ synced' = synced
    BY <2>3 DEF UserState
  <2>4. ASSUME NEW s, NEW actor, UserRemove(s, actor)
        PROVE  lawful' = lawful /\ synced' = synced
    BY <2>4 DEF UserRemove
  <2>5. ASSUME NEW s, ServerSync(s) PROVE lawful' = lawful
    BY <2>5 DEF ServerSync
  <2>6. UNCHANGED vars => lawful' = lawful /\ synced' = synced
    BY DEF vars, appVars
  <2> QED BY <2>1, <2>2, <2>3, <2>4, <2>5, <2>6 DEF Next
<1>3. CASE UNCHANGED vars
  BY <1>1, <1>3 DEF PictureInv, Rooted, Housed, Recalled, Known, vars, channelVars, userVars, appVars
<1>4. ASSUME Next, lawful PROVE Rooted' /\ Housed' /\ (synced /\ Recalled => Recalled')
  BY <1>1, <1>4, LawfulStepKeepsPicture DEF PictureInv
<1>5. ASSUME ~synced, synced' PROVE Recalled'
  <2>1. ASSUME NEW s, ServerSync(s) PROVE Recalled'
    BY <2>1 DEF ServerSync, userVars, Recalled
  <2> QED BY <1>2, <1>5, <2>1
<1> QED BY <1>1, <1>2, <1>3, <1>4, <1>5 DEF PictureInv

LEMMA InitPicture == Init => PictureInv
<1> SUFFICES ASSUME Init PROVE PictureInv
  OBVIOUS
<1>1. MapInv
  BY InitMaps
<1>2. Known = {}
  BY DEF Init, Known, Range
<1>3. Rooted /\ Housed
  BY <1>2 DEF Init, Rooted, Housed
<1>4. ~synced
  BY DEF Init
<1> QED BY <1>1, <1>3, <1>4 DEF PictureInv

\* While the server is lawful the client knows all that there is, and so does the
\* application: the tree is whole, every user is listed by the channel it is in,
\* and userChannels remembers everybody there and nobody who left.
THEOREM PictureStaysWhole == Spec => []PictureIsWhole
<1>1. Init => PictureInv
  BY InitPicture
<1>2. PictureInv /\ [Next]_vars => PictureInv'
  BY StepKeepsPicture
<1>3. PictureInv => PictureIsWhole
  BY DEF PictureInv, PictureIsWhole, TreeIsWhole, RememberedAgrees, Rooted, Housed, Recalled
<1> QED BY <1>1, <1>2, <1>3, PTL DEF Spec

\* Two known channels are the same object when they have the same number.
LEMMA SameKnownChannel ==
  ASSUME MapInv, NEW c \in Known, NEW d \in Known
  PROVE  SameChannel(c, d) <=> c = d
BY KnownByNumber DEF SameChannel, Known

\* What is announced of a user that the server has said something about.
LEMMA UserStateAnnounces ==
  ASSUME MapInv, Housed, Recalled, synced, self \in Present, NEW s \in Sessions, NEW u \in Users,
         NEW actor \in Sessions \cup {Absent}, NEW i \in Ids \cup {Absent},
         LawfulUser(actor, i), UserState(s, u, actor, i), channel'[self] = channel[self]
  PROVE  notices' = {<<"join", v>> : v \in Here' \ Here} \cup {<<"leave", v>> : v \in Here \ Here'}
<1> DEFINE at == IF userOf[s] = None THEN channelOf[Root] ELSE channel[u]
           to == IF i = Absent THEN at ELSE channelOf[i]
<1>1. /\ IF userOf[s] = None THEN session[u] = None ELSE u = userOf[s]
      /\ to \in Known
      /\ userOf' = [userOf EXCEPT ![s] = u] /\ channel' = [channel EXCEPT ![u] = to]
      /\ UserChanged(u, s, userOf[s] = None, userOf[s] = None \/ to # at, to)
  BY ONLY MapInv, Housed, s \in Sessions, u \in Users, actor \in Sessions \cup {Absent},
     i \in Ids \cup {Absent}, LawfulUser(actor, i), UserState(s, u, actor, i), LawfulUserState
<1>2. userOf[s] # None => at = channel[u]
  OBVIOUS
<1> HIDE DEF at, to
<1> USE WorldAssumption DEF MapInv, MapTypes
<1>3. self' = self
  BY DEF UserState
<1>4. \A v \in Present : channel[v] \in Known /\ channel[v] \in Chans /\ v \in Users
  BY KnownByNumber DEF Housed
<1>5. notices' = Notices(u, s, userOf[s] = None, userOf[s] = None \/ to # at, to)
  BY <1>1 DEF UserChanged
<1>6. Present' = Present \cup {u}
  <2>1. ASSUME NEW v, v \in Present' PROVE v \in Present \cup {u}
    BY <1>1, <2>1 DEF Present, Range
  <2>2. ASSUME NEW v, v \in Present PROVE v \in Present'
    <3>1. PICK r \in Sessions : v = userOf[r] /\ v # None
      BY <1>1, <2>2 DEF Present, Range
    <3>2. v = userOf'[r]
      BY <1>1, <3>1
    <3> QED BY <1>1, <3>1, <3>2 DEF Present, Range
  <2>3. u \in Present'
    BY <1>1 DEF Present, Range
  <2> QED BY <2>1, <2>2, <2>3
<1>7. channel[self] \in Known
  BY <1>4
<1>8. CASE userOf[s] = None
  <2>1. u \notin Present /\ u # self
    BY <1>1, <1>8, KnownByNumber
  <2>2. Here' = Here \cup (IF to = channel[self] THEN {u} ELSE {}) /\ u \notin Here
    BY <1>4, <1>1, <1>3, <1>6, <2>1 DEF Here
  <2>3. notices' = IF to = channel[self] THEN {<<"join", u>>} ELSE {}
    BY <1>1, <1>5, <1>7, <1>8, <2>1, SameKnownChannel DEF Notices
  <2> QED BY <2>2, <2>3
<1>9. CASE userOf[s] # None /\ u = self
  <2>1. to = at
    BY <1>1, <1>2, <1>9
  <2>2. channel' = channel /\ Present' = Present
    <3>1. channel[u] = to /\ u \in Present
      BY <1>2, <1>9, <2>1
    <3> QED BY <1>1, <1>6, <3>1
  <2>3. Here' = Here
    BY <1>1, <1>3, <2>2 DEF Here
  <2>4. notices' = {}
    BY <1>5, <1>9, <2>1 DEF Notices
  <2> QED BY <2>3, <2>4
<1>10. CASE userOf[s] # None /\ u # self
  <2>1. remembered[s] = at /\ at = channel[u] /\ u \in Present
    BY <1>1, <1>2, <1>10 DEF Recalled, Present, Range
  <2>2. /\ SameChannel(to, channel[self]) <=> to = channel[self]
        /\ SameChannel(at, channel[self]) <=> at = channel[self]
    BY <1>4, <1>1, <1>7, <2>1, SameKnownChannel
  <2>3. /\ Here' = IF to = channel[self] THEN Here \cup {u} ELSE Here \ {u}
        /\ u \in Here <=> at = channel[self]
    BY <1>4, <1>1, <1>3, <1>6, <1>10, <2>1 DEF Here
  <2>4. notices' = IF to = channel[self] /\ at # channel[self] THEN {<<"join", u>>}
                   ELSE IF to # channel[self] /\ at = channel[self] THEN {<<"leave", u>>} ELSE {}
    BY <1>5, <1>10, <2>1, <2>2 DEF Notices
  <2> QED BY <2>3, <2>4
<1> QED BY <1>8, <1>9, <1>10

\* What a lawful step announces.
LEMMA StepAnnounces ==
  ASSUME PictureInv, Next, lawful, synced, channel'[self] = channel[self]
  PROVE  notices' = {<<"join", u>> : u \in Here' \ Here} \cup {<<"leave", u>> : u \in Here \ Here'}
<1> DEFINE News == {<<"join", u>> : u \in Here' \ Here} \cup {<<"leave", u>> : u \in Here \ Here'}
<1> USE WorldAssumption DEF MapInv, MapTypes
<1>1. MapInv /\ Rooted /\ Housed /\ Recalled
  BY DEF PictureInv
<1>2. ASSUME UNCHANGED <<userVars, self>>, notices' = {} PROVE notices' = News
  <2>1. Here' = Here
    BY <1>2 DEF Here, Present, userVars
  <2> QED BY <1>2, <2>1
<1>3. ASSUME NEW i, NEW c, NEW p, NEW op, NEW to, ChannelState(i, c, p, op, to) PROVE notices' = News
  BY <1>2, <1>3 DEF ChannelState, appVars
<1>4. ASSUME NEW i, ChannelRemove(i) PROVE notices' = News
  BY <1>2, <1>4 DEF ChannelRemove, appVars
<1>5. \A u \in Present : channel[u] \in Known /\ channel[u] \in Chans /\ u \in Users
  BY <1>1, KnownByNumber DEF Housed
<1>6. ASSUME NEW s \in Sessions, NEW u \in Users,
             NEW actor \in Sessions \cup {Absent}, NEW i \in Ids \cup {Absent},
             self \in Present, LawfulUser(actor, i), UserState(s, u, actor, i)
      PROVE  notices' = News
  BY <1>1, <1>6, UserStateAnnounces
<1>7. ASSUME NEW s \in Sessions, NEW actor, self \in Present, UserRemove(s, actor)
      PROVE  notices' = News
  <2> DEFINE u == userOf[s]
  <2>1. /\ u # None /\ userOf' = [userOf EXCEPT ![s] = None]
        /\ UNCHANGED <<channel, self>>
    BY <1>7 DEF UserRemove
  <2>2. Present' = Present \ {u}
    <3>1. ASSUME NEW v, v \in Present' PROVE v \in Present \ {u}
      <4>1. PICK r \in Sessions : v = userOf'[r] /\ v # None
        BY <1>1, <2>1, <3>1 DEF Present, Range
      <4> QED BY <1>1, <2>1, <4>1 DEF Present, Range, ObjectsNumbered
    <3>2. ASSUME NEW v, v \in Present, v # u PROVE v \in Present'
      <4>1. PICK r \in Sessions : v = userOf[r] /\ v # None
        BY <1>1, <3>2 DEF Present, Range
      <4>2. v = userOf'[r]
        BY <1>1, <2>1, <3>2, <4>1
      <4> QED BY <1>1, <2>1, <4>1, <4>2 DEF Present, Range
    <3> QED BY <3>1, <3>2
  <2>3. u \in Present /\ remembered[s] = channel[u] /\ channel[u] \in Known /\ channel[u] # None
    BY <1>1, <1>5, <2>1 DEF Recalled, Present, Range, Known
  <2>4. channel[self] \in Known
    BY <1>5, <1>7
  <2>5. notices' = IF channel[u] = channel[self] THEN {<<"leave", u>>} ELSE {}
    <3>1. notices' = IF SameChannel(channel[u], channel[self]) THEN {<<"leave", u>>} ELSE {}
      BY <1>7, <2>3 DEF UserRemove
    <3> QED BY <1>1, <2>3, <2>4, <3>1, SameKnownChannel
  <2>6. Here' = Here \ {u} /\ (u \in Here <=> channel[u] = channel[self])
    BY <2>1, <2>2, <2>3 DEF Here
  <2> QED BY <2>5, <2>6
<1>8. Speaking \subseteq Sessions
  BY WorldAssumption DEF Speaking
<1> QED BY <1>3, <1>4, <1>6, <1>7, <1>8 DEF Next, Lawful, Serving, ServerSync

\* Joins and leaves are announced when, and only when, somebody comes to or goes
\* from the user's own channel: OnUserChange compares where a user is with where
\* it was remembered, and that was true.
THEOREM AnnouncementsAreRight == Spec => NoticesAreRight
<1>1. Init => PictureInv
  BY InitPicture
<1>2. PictureInv /\ [Next]_vars => PictureInv'
  BY StepKeepsPicture
<1>3. PictureInv /\ [Next]_vars =>
        [lawful /\ synced /\ channel'[self] = channel[self] =>
           notices' = {<<"join", u>> : u \in Here' \ Here} \cup {<<"leave", u>> : u \in Here \ Here'}]_vars
  BY StepAnnounces
<1> QED BY <1>1, <1>2, <1>3, PTL DEF Spec, NoticesAreRight
=============================================================================
