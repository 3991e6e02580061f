----------------------------- MODULE CryptWindow -----------------------------
(***************************************************************************)
(* The receive window of cryptState15.decrypt15. A packet carries only the *)
(* low byte of the IV it was encrypted with; the receiver guesses the rest *)
(* from the IV of the newest packet it has accepted, and a wrong guess     *)
(* fails authentication. The network loses, reorders and duplicates.       *)
(*                                                                         *)
(* An IV is a number, its bytes the digits: LowValues stands for the 256   *)
(* values of byte 0, HighValues for those of byte 1, and packet n is       *)
(* encrypted with FirstIV + n. AES-OCB is taken to be perfect: what one IV *)
(* sealed opens under that IV only.                                        *)
(***************************************************************************)
EXTENDS Integers

CONSTANTS
  LowValues,  \* 256 in the code
  HighValues, \* 256 in the code
  Late,       \* 30 in the code: how far back a late packet may be
  FirstIV,    \* the server nonce of CryptSetup
  MaxSent     \* bound: packets the server sends

ASSUME WindowAssumption ==
  /\ LowValues \in Nat /\ HighValues \in Nat \ {0} /\ FirstIV \in Nat /\ MaxSent \in Nat
  /\ Late \in 1 .. LowValues \div 2 /\ LowValues % 2 = 0

VARIABLES
  sent,      \* how many packets the server has encrypted
  decryptIV, \* cs.decryptIV
  history,   \* cs.history: byte 1 of the IV last accepted for each byte 0
  accepted,  \* history: the packets that decrypt15 has returned
  replayed   \* history: those it has returned more than once

window == <<sent, decryptIV, history, accepted, replayed>>

LowBytes == 0 .. LowValues - 1
Low(iv) == iv % LowValues
Byte1(iv) == (iv \div LowValues) % HighValues
IV(n) == FirstIV + n

\* IVs are little-endian numbers of sixteen bytes; none is reached a second time.
advanceIV(iv) == iv + 1
advanceIVHighBytes(iv) == iv + LowValues
backupIV(iv) == iv - 1

\* A ciphertext with its tag: the IV and what it hides.
ocb15Encrypt(iv, plaintext) == [iv |-> iv, plaintext |-> plaintext]

\* What a ciphertext opens to under an IV: with another IV the tag differs.
Unauthentic == 0
ocb15Decrypt(iv, sealed) == IF sealed.iv = iv THEN sealed.plaintext ELSE Unauthentic

\* encrypt15: packet n, with the low byte of its IV in clear before it.
encrypt15(n) == [low |-> Low(IV(n)), sealed |-> ocb15Encrypt(IV(n), n)]

WindowInit ==
  /\ sent = 0
  /\ decryptIV = FirstIV
  /\ history = [b \in LowBytes |-> 0]
  /\ accepted = {} /\ replayed = {}

-----------------------------------------------------------------------------
(* decrypt15                                                               *)

SetLow(iv, b) == iv - Low(iv) + b

\* The signed distance of two low bytes, the shorter way round.
Diff(b) ==
  LET d == b - Low(decryptIV) IN
  IF d < -(LowValues \div 2) THEN d + LowValues
  ELSE IF d > LowValues \div 2 THEN d - LowValues ELSE d

InOrder(b) == b = (Low(decryptIV) + 1) % LowValues

IsLate(b) == Diff(b) < 0 /\ Diff(b) > -Late
Guessable(b) == InOrder(b) \/ IsLate(b) \/ Diff(b) > 0

\* The IV a packet is tried with. For a late packet from before a wrap, the low
\* byte is set first and backupIV then takes one from it.
Guess(b) ==
  IF InOrder(b) THEN advanceIV(decryptIV)
  ELSE IF IsLate(b) /\ b > Low(decryptIV) THEN backupIV(SetLow(decryptIV, b))
  ELSE IF ~IsLate(b) /\ b < Low(decryptIV) THEN SetLow(advanceIVHighBytes(decryptIV), b)
  ELSE SetLow(decryptIV, b)

\* Mutant: the history is not looked at.
ReplayDetected_Never(b) == FALSE

\* An entry of zero counts as empty.
ReplayDetected(b) ==
  ~InOrder(b) /\ history[b] # 0 /\ history[b] = Byte1(Guess(b))

\* The packet that decrypt15 returns for a datagram, or Unauthentic.
decrypt15(p) ==
  IF ~Guessable(p.low) \/ ReplayDetected(p.low) THEN Unauthentic
  ELSE ocb15Decrypt(Guess(p.low), p.sealed)

Accepts(n) == decrypt15(encrypt15(n)) = n

-----------------------------------------------------------------------------

Send ==
  /\ sent < MaxSent
  /\ sent' = sent + 1
  /\ UNCHANGED <<decryptIV, history, accepted, replayed>>

\* Mutant: a late packet leaves its IV behind.
Receive_NoRestore(p) ==
  IF decrypt15(p) # Unauthentic
  THEN /\ history' = [history EXCEPT ![p.low] = Byte1(Guess(p.low))]
       /\ decryptIV' = Guess(p.low)
       /\ accepted' = accepted \cup {decrypt15(p)}
       /\ replayed' = replayed \cup ({decrypt15(p)} \cap accepted)
       /\ UNCHANGED sent
  ELSE UNCHANGED window

\* A datagram arrives. The history and the IV move only once the tag has been
\* found right, and a late packet puts the IV back.
Receive(p) ==
  IF decrypt15(p) # Unauthentic
  THEN /\ history' = [history EXCEPT ![p.low] = Byte1(Guess(p.low))]
       /\ decryptIV' = IF IsLate(p.low) /\ ~InOrder(p.low) THEN decryptIV ELSE Guess(p.low)
       /\ accepted' = accepted \cup {decrypt15(p)}
       /\ replayed' = replayed \cup ({decrypt15(p)} \cap accepted)
       /\ UNCHANGED sent
  ELSE UNCHANGED window

\* The network delivers a packet, or another copy of it.
Deliver == \E n \in 1 .. sent : Receive(encrypt15(n))

WindowNext == Send \/ Deliver

WindowSpec == WindowInit /\ [][WindowNext]_window

-----------------------------------------------------------------------------
(* Properties                                                              *)

\* The newest packet accepted, 0 before the first.
Newest == decryptIV - FirstIV

WindowTypeOK ==
  /\ sent \in 0 .. MaxSent
  /\ decryptIV \in Nat
  /\ history \in [LowBytes -> 0 .. HighValues - 1]
  /\ accepted \subseteq 1 .. sent /\ replayed \subseteq accepted

\* The IV the receiver remembers is that of the newest packet it accepted:
\* late packets and forgeries do not move it (udp15.go:267, 316-332).
RemembersNewest ==
  IF accepted = {} THEN Newest = 0
  ELSE Newest \in accepted /\ \A n \in accepted : n <= Newest

\* Whatever was lost, short of half the range of the low byte, the next packet that
\* arrives is accepted, also across a wrap (udp15.go:297-302).
KeepsUp == \A n \in 1 .. sent :
  n > Newest /\ n - Newest < LowValues \div 2 => Accepts(n)

\* A packet that is late but of the current block of low bytes is accepted, once.
LateInBlockAccepted == \A n \in 1 .. sent :
  /\ n < Newest /\ Newest - n < Late /\ n \notin accepted
  /\ IV(n) \div LowValues = decryptIV \div LowValues
  => Accepts(n)

\* The window follows what arrives: what was lost, late or forged costs no packet
\* that is within reach.
WindowFollows == RemembersNewest /\ KeepsUp /\ LateInBlockAccepted

\* No packet is returned twice, as long as byte 1 of its IV is not zero.
NoReplay == \A n \in replayed : Byte1(IV(n)) = 0

\* A captured packet is never accepted again (udp15_test.go:227-228).
NoReplayAtAll == replayed = {}

\* A late packet inside the window is accepted, also from before a wrap: "Late
\* packet (wrapped diff)" (udp15.go:290).
LateAccepted == \A n \in 1 .. sent :
  n < Newest /\ Newest - n < Late /\ n \notin accepted => Accepts(n)

=============================================================================
