----------------------------- MODULE WireFormat -----------------------------
(***************************************************************************)
(* How numbers and voice are written to bytes and read back: the varints   *)
(* of Mumble (package varint) and of protobuf, the audio packet of the 1.5 *)
(* protocol (udp15.go) and the older one. What arrives may be cut short.   *)
(*                                                                         *)
(* Numbers are those of TLC, below 2^31: the 64-bit form of the Mumble     *)
(* varint is read as unreadable, and is never written.                     *)
(***************************************************************************)
EXTENDS Integers, Sequences, FiniteSetsExt

\* What a reader has found: a value and how many bytes it took, 0 for none.
Found(value, read) == [value |-> value, read |-> read]
Nothing == Found(0, 0)

Rest(b, n) == SubSeq(b, n + 1, Len(b))

\* The n low bytes of a number, and the number of some bytes, most significant first.
BigEndian(v, n) == [i \in 1 .. n |-> (v \div 256 ^ (n - i)) % 256]
Number(b) == MapThenSumSet(LAMBDA i : b[i] * 256 ^ (Len(b) - i), DOMAIN b)

-----------------------------------------------------------------------------
(* Package varint                                                          *)

\* Numbers of one to four bytes mark their length in the first bits.
RECURSIVE Encode(_)
Encode(v) ==
  CASE v \in -4 .. -1     -> <<252 - v - 1>>
    [] v < -4             -> <<248>> \o Encode(-v)
    [] v \in 0 .. 127     -> <<v>>
    [] v \in 128 .. 2 ^ 14 - 1     -> BigEndian(v + 128 * 256, 2)
    [] v \in 2 ^ 14 .. 2 ^ 21 - 1  -> BigEndian(v + 192 * 256 ^ 2, 3)
    [] v \in 2 ^ 21 .. 2 ^ 28 - 1  -> <<224 + v \div 256 ^ 3>> \o BigEndian(v, 3)
    [] OTHER              -> <<240>> \o BigEndian(v, 4)

\* A number of so many bytes whose first has the given offset, if they are there.
Positive(b, n, offset) ==
  IF Len(b) < n THEN Nothing ELSE Found(Number(<<b[1] - offset>> \o SubSeq(b, 2, n)), n)

RECURSIVE Decode(_)
Decode(b) ==
  CASE b = <<>>             -> Nothing
    [] b[1] < 128           -> Found(b[1], 1)
    [] b[1] \in 128 .. 191  -> Positive(b, 2, 128)
    [] b[1] \in 192 .. 223  -> Positive(b, 3, 192)
    [] b[1] \in 224 .. 239  -> Positive(b, 4, 224)
    [] b[1] \in 240 .. 243  -> IF Len(b) < 5 THEN Nothing ELSE Found(Number(SubSeq(b, 2, 5)), 5)
    [] b[1] \in 244 .. 247  -> Nothing
    [] b[1] \in 248 .. 251  ->
         LET d == Decode(Tail(b)) IN IF d.read = 0 THEN Nothing ELSE Found(-d.value, d.read + 1)
    [] OTHER                -> Found(-(b[1] - 252) - 1, 1)

-----------------------------------------------------------------------------
(* Protobuf varints: seven bits a byte, least significant first            *)

pbEncodeVarint[v \in Nat] ==
  IF v < 128 THEN <<v>> ELSE <<(v % 128) + 128>> \o pbEncodeVarint[v \div 128]

\* Ten bytes hold 64 bits, of which the tenth has one.
pbDecodeVarint(b) ==
  LET ends == {i \in DOMAIN b : b[i] < 128}
      n == Min(ends)
  IN IF ends = {} \/ n > 10 \/ (n = 10 /\ b[10] > 1) THEN Nothing
     ELSE Found(MapThenSumSet(LAMBDA i : (b[i] % 128) * 128 ^ (i - 1), 1 .. n), n)

-----------------------------------------------------------------------------
(* MumbleUDP.Audio                                                         *)

Key(field, wire) == pbEncodeVarint[field * 8 + wire]

\* The terminator and empty data are left out when they say nothing; the sender's
\* session is the server's to add.
encodeUDPAudio(a) ==
  Key(1, 0) \o pbEncodeVarint[a.target] \o Key(4, 0) \o pbEncodeVarint[a.number]
  \o (IF a.data = <<>> THEN <<>> ELSE Key(5, 2) \o pbEncodeVarint[Len(a.data)] \o a.data)
  \o (IF a.final THEN Key(16, 0) \o pbEncodeVarint[1] ELSE <<>>)

Silence == [session |-> 0, context |-> 0, number |-> 0, data |-> <<>>, final |-> FALSE]

\* A field that the reader knows overrides what was there, others are skipped.
WithNumber(a, field, v) ==
  CASE field = 2  -> [a EXCEPT !.context = v]
    [] field = 3  -> [a EXCEPT !.session = v]
    [] field = 4  -> [a EXCEPT !.number = v]
    [] field = 16 -> [a EXCEPT !.final = v # 0]
    [] OTHER      -> a

\* Whatever stops the reader, it has what it read before. Positions and volume
\* adjustments (fields 6 and 7) are read past here.
RECURSIVE ReadFields(_, _)
ReadFields(b, a) ==
  LET key == pbDecodeVarint(b)
      rest == Rest(b, key.read)
      field == key.value \div 8
      wire == key.value % 8
      v == pbDecodeVarint(rest)
      there == CASE wire = 0 -> v.read
                 [] wire = 1 -> 8
                 [] wire = 2 -> v.read + v.value
                 [] wire = 5 -> 4
                 [] OTHER    -> Len(rest) + 1
      got == CASE wire = 0 -> WithNumber(a, field, v.value)
               [] wire = 2 /\ field = 5 -> [a EXCEPT !.data = SubSeq(rest, v.read + 1, there)]
               [] OTHER -> a
  IN IF key.read = 0 \/ there > Len(rest) \/ (wire \in {0, 2} /\ v.read = 0) THEN a
     ELSE ReadFields(Rest(rest, there), got)

decodeUDPAudio(b) == ReadFields(b, Silence)

-----------------------------------------------------------------------------
(* The older packet                                                        *)

\* Bit 13 of the length marks the last packet of a burst.
LastBit == 8192

encodeLegacyUDPAudio(format, target, number, data, final) ==
  <<format * 32 + target>> \o Encode(number)
  \o Encode(Len(data) + IF final THEN LastBit ELSE 0) \o data

\* The server puts the session of the sender behind the first byte.
Relayed(session, packet) == Encode(session) \o Tail(packet)

\* What is dispatched of a packet without its first byte; nothing of one that ends
\* too early. The length is one that encodeLegacyUDPAudio writes: for a negative varint
\* handleUDPTunnel returns (handlers.go:187), and this one has no such check.
handleLegacyUDPVoice(b) ==
  LET session == Decode(b)
      number == Decode(Rest(b, session.read))
      length == Decode(Rest(b, session.read + number.read))
      begin == session.read + number.read + length.read
      size == length.value - IF (length.value \div LastBit) % 2 = 1 THEN LastBit ELSE 0
  IN IF \E d \in {session, number, length} : d.read = 0 THEN {}
     ELSE IF size > Len(b) - begin THEN {}
     ELSE {[session |-> session.value, number |-> number.value,
            data |-> SubSeq(b, begin + 1, begin + size), final |-> size # length.value]}

=============================================================================
