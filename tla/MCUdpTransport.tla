--------------------------- MODULE MCUdpTransport ---------------------------
(* UdpTransport with two audio goroutines and both pingers, and its wire   *)
(* format on numbers about the places where its length changes.            *)
EXTENDS UdpTransport, Sequences, TLC

CONSTANTS s1, s2

MCSenders == {s1, s2}

-----------------------------------------------------------------------------

W == INSTANCE WireFormat

Edges == {2 ^ 7, 2 ^ 13, 2 ^ 14, 2 ^ 21, 2 ^ 28, 2 ^ 30}
Numbers == UNION {e - 2 .. e + 1 : e \in Edges} \cup 0 .. 5
Signed == Numbers \cup {-n : n \in Numbers}
Bytes == {0, 1, 127, 128, 200, 255}
Data == {<<>>} \cup {<<b>> : b \in Bytes} \cup {<<a, b>> : a, b \in Bytes}
Audio == [session : {0}, context : {0}, target : {0, 31}, number : Numbers, data : Data, final : BOOLEAN]

\* The bytes of an encoding that is cut short.
CutShort(b) == {SubSeq(b, 1, n) : n \in 0 .. Len(b) - 1}

\* What varint.Encode writes varint.Decode reads, whatever follows it, and reads
\* nothing of less (varint_test.go:25-46).
ASSUME VarintIsRead == \A n \in Signed :
  /\ \A more \in Data : W!Decode(W!Encode(n) \o more) = W!Found(n, Len(W!Encode(n)))
  /\ \A b \in CutShort(W!Encode(n)) : W!Decode(b) = W!Nothing

\* The same of the protobuf varint.
ASSUME PbVarintIsRead == \A n \in Numbers :
  /\ \A more \in Data : W!pbDecodeVarint(W!pbEncodeVarint[n] \o more) = W!Found(n, Len(W!pbEncodeVarint[n]))
  /\ \A b \in CutShort(W!pbEncodeVarint[n]) : W!pbDecodeVarint(b) = W!Nothing

\* What encodeUDPAudio writes decodeUDPAudio reads, but the target, which only the
\* server looks at. Of a packet cut short it never makes other voice, nor an end of
\* the burst that was not sent.
ASSUME AudioIsRead == \A a \in Audio :
  LET b == W!encodeUDPAudio(a) IN
  /\ LET d == W!decodeUDPAudio(b) IN \A f \in DOMAIN d : d[f] = a[f]
  /\ \A c \in CutShort(b) : LET d == W!decodeUDPAudio(c) IN
       d.number \in {0, a.number} /\ d.data \in {<<>>, a.data} /\ ~d.final

\* What encodeLegacyUDPAudio writes, and the server relays, is read whole or not at all.
ASSUME LegacyAudioIsRead == \A a \in [session : {1, 300}, number : Numbers, data : Data, final : BOOLEAN] :
  LET b == W!Relayed(a.session, W!encodeLegacyUDPAudio(4, 0, a.number, a.data, a.final)) IN
  /\ W!handleLegacyUDPVoice(b) = {a}
  /\ \A c \in CutShort(b) : W!handleLegacyUDPVoice(c) = {}
=============================================================================
