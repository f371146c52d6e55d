------------------------ MODULE MessageStreamProofs ------------------------
(***************************************************************************)
(* Proofs about the messages and the streams they travel in, for every     *)
(* input and every message: what the decoder says of any buffer, that it   *)
(* finds what the encoder wrote and accepts nothing else, that no byte of  *)
(* a connection is lost or read twice, that messages arrive in order and   *)
(* as they were sent, and that PaperSpoon takes from its Now Playing       *)
(* helper a whole picture or nothing.                                      *)
(***************************************************************************)
EXTENDS NowPlaying, SequenceTheorems, WellFoundedInduction, TLAPS

LEMMA PayloadBound ==
    V2_MAX_PAYLOAD_LEN \in Nat /\ V2_MAX_PAYLOAD_LEN <= 256 * 256 * 256
<1>. DEFINE most == 256 * 256 * 256
<1>1. most \in Nat
  BY SMT
<1>2. V2_MAX_PAYLOAD_LEN \in 16 .. most
  BY PayloadAssumption DEF V2_FRAME_PREFIX_LEN
<1>3. V2_MAX_PAYLOAD_LEN \in Nat /\ V2_MAX_PAYLOAD_LEN <= most
  <2>. HIDE DEF most
  <2> QED
    BY <1>1, <1>2, SMT
<1> QED
  BY <1>3

LEMMA Missing == \A has, needs \in Nat : has < needs => needs - has \in Nat \ {0}
  BY SMT

-----------------------------------------------------------------------------
(* Numbers.                                                                *)

LEMMA ByteBounds ==
    /\ \A n \in Nat : n <= 255 => n \in Byte
    /\ \A n \in Byte : n \in Nat /\ n <= 255
  BY SMT DEF Byte

LEMMA U32OfBytes ==
    \A bytes : U32(bytes, 9) =
        (bytes[9] * 256 + bytes[10]) * (256 * 256) + (bytes[11] * 256 + bytes[12])
<1>1. 9 + 1 = 10 /\ 9 + 2 = 11 /\ 11 + 1 = 12
  BY SMT
<1> QED
  BY <1>1, Zenon DEF U32, U16

LEMMA U32IsNat ==
    ASSUME NEW bytes, bytes[9] \in Nat, bytes[10] \in Nat, bytes[11] \in Nat, bytes[12] \in Nat
    PROVE  U32(bytes, 9) \in Nat
<1>1. bytes[9] * 256 + bytes[10] \in Nat /\ bytes[11] * 256 + bytes[12] \in Nat
  BY SMT
<1>2. \A high, low \in Nat : high * (256 * 256) + low \in Nat
  BY SMT
<1>3. (bytes[9] * 256 + bytes[10]) * (256 * 256) + (bytes[11] * 256 + bytes[12]) \in Nat
  BY <1>1, <1>2, Zenon
<1> QED
  BY <1>3, U32OfBytes, Zenon

LEMMA CompleteFields ==
    ASSUME NEW decoded, NEW type, NEW payload, NEW length,
           decoded = Complete(type, payload, length)
    PROVE  /\ decoded.result = "complete" /\ decoded.type = type
           /\ decoded.payload = payload /\ decoded.consumed = length
  BY DEF Complete

LEMMA Be16 ==
    ASSUME NEW n \in Nat, n <= 65535
    PROVE  /\ n \div 256 \in Byte /\ n % 256 \in Byte
           /\ (n \div 256) * 256 + (n % 256) = n
<1>1. n \div 256 \in Nat /\ n \div 256 <= 255
  BY SMT
<1>2. n % 256 \in Nat /\ n % 256 <= 255
  BY SMT
<1>3. (n \div 256) * 256 + (n % 256) = n
  BY SMT
<1> QED
  BY <1>1, <1>2, <1>3, ByteBounds

\* The bytes of a number of 32 bits, from the highest.
LEMMA Be32 ==
    ASSUME NEW n \in Nat, n \div (256 * 256 * 256) <= 255
    PROVE  LET b == be32(n)
           IN  /\ b[1] \in Byte /\ b[2] \in Byte /\ b[3] \in Byte /\ b[4] \in Byte
               /\ (b[1] * 256 + b[2]) * (256 * 256) + (b[3] * 256 + b[4]) = n
<1>. DEFINE high == n \div (256 * 256)
            low == n % (256 * 256)
<1>1. /\ high \in Nat /\ low \in Nat /\ low <= 65535
      /\ n = high * (256 * 256) + low
  BY SMT
<1>2. n \div (256 * 256 * 256) = high \div 256
  BY SMT
<1>3. (n \div 256) % 256 = low \div 256
  BY SMT
<1>4. n % 256 = low % 256
  BY SMT
<1>. HIDE DEF high, low
<1>5. high <= 65535
  BY <1>1, <1>2, SMT
<1>6. /\ (high \div 256) * 256 + (high % 256) = high
      /\ (low \div 256) * 256 + (low % 256) = low
      /\ high \div 256 \in Byte /\ high % 256 \in Byte
      /\ low \div 256 \in Byte /\ low % 256 \in Byte
  BY <1>1, <1>5, Be16
<1>7. be32(n) = <<high \div 256, high % 256, low \div 256, low % 256>>
  BY <1>2, <1>3, <1>4 DEF be32, high
<1> QED
  BY <1>1, <1>6, <1>7

-----------------------------------------------------------------------------
(* The decoder on any buffer.                                              *)

\* A message that is complete lies in the buffer and is no larger than the
\* largest; what is missing of an incomplete one is positive and never leads
\* beyond the largest: a reader that asks for it fills a bounded buffer, in
\* as many steps as there are bytes.
THEOREM DecoderIsBounded ==
    ASSUME NEW input, input \in Seq(Byte)
    PROVE  LET decoded == decode_v2_message(input)
           IN  /\ decoded.result \in {"complete", "incomplete", "invalid"}
               /\ decoded.result = "complete" =>
                      /\ decoded.consumed \in V2_HEADER_LEN .. Len(input)
                      /\ decoded.consumed <= V2_HEADER_LEN + V2_MAX_PAYLOAD_LEN
                      /\ Len(decoded.payload) = decoded.consumed - V2_HEADER_LEN
               /\ decoded.result = "incomplete" =>
                      /\ decoded.additional \in Nat \ {0}
                      /\ Len(input) + decoded.additional
                             <= V2_HEADER_LEN + V2_MAX_PAYLOAD_LEN
<1>. DEFINE length == U32(input, 9)
            total == V2_HEADER_LEN + length
<1>1. Len(input) \in Nat /\ V2_HEADER_LEN = 12 /\ V2_MAX_PAYLOAD_LEN \in Nat
  BY PayloadBound, input \in Seq(Byte) DEF V2_HEADER_LEN
<1>2. CASE Len(input) < V2_HEADER_LEN
  <2>1. decode_v2_message(input) = Incomplete(V2_HEADER_LEN - Len(input))
    BY <1>2 DEF decode_v2_message
  <2>2. V2_HEADER_LEN - Len(input) \in Nat \ {0}
    BY <1>1, <1>2, Missing
  <2>3. Len(input) + (V2_HEADER_LEN - Len(input)) <= V2_HEADER_LEN + V2_MAX_PAYLOAD_LEN
    BY <1>1, SMT
  <2> QED
    BY <2>1, <2>2, <2>3 DEF Incomplete
<1>3. CASE Len(input) >= V2_HEADER_LEN /\ ~ValidHeader(input)
  <2>1. decode_v2_message(input) = Invalid
    BY <1>1, <1>3, SMT DEF decode_v2_message
  <2> QED
    BY <2>1 DEF Invalid
<1>4. CASE Len(input) >= V2_HEADER_LEN /\ ValidHeader(input)
  <2>1. length \in Nat /\ length <= V2_MAX_PAYLOAD_LEN
    <3>1. \A i \in 9 .. 12 : i \in 1 .. Len(input)
      BY <1>1, <1>4, SMT
    <3>2. \A i \in 9 .. 12 : input[i] \in Byte
      BY <3>1, input \in Seq(Byte)
    <3>3. /\ 9 \in 9 .. 12 /\ 10 \in 9 .. 12 /\ 11 \in 9 .. 12 /\ 12 \in 9 .. 12
      BY SMT
    <3>4. /\ input[9] \in Nat /\ input[10] \in Nat
          /\ input[11] \in Nat /\ input[12] \in Nat
      BY <3>2, <3>3, ByteBounds, Zenon
    <3>7. length \in Nat
      BY <3>4, U32IsNat
    <3>5. length <= V2_MAX_PAYLOAD_LEN
      BY <1>4 DEF ValidHeader
    <3> QED
      BY <3>7, <3>5
  <2>2. ~(Len(input) < V2_HEADER_LEN)
    BY <1>1, <1>4, SMT
  <2>. HIDE DEF length
  <2>3. CASE Len(input) < total
    <3>1. decode_v2_message(input) = Incomplete(total - Len(input))
      BY <1>4, <2>2, <2>3 DEF decode_v2_message, length
    <3>2. /\ total - Len(input) \in Nat \ {0}
          /\ Len(input) + (total - Len(input)) <= V2_HEADER_LEN + V2_MAX_PAYLOAD_LEN
      BY <1>1, <2>1, <2>3, SMT
    <3> QED
      BY <3>1, <3>2 DEF Incomplete
  <2>4. CASE ~(Len(input) < total)
    <3>. DEFINE type == MessageTypes[input[6]]
                payload == SubSeq(input, V2_HEADER_LEN + 1, total)
    <3>1. decode_v2_message(input) = Complete(type, payload, total)
      BY <1>4, <2>2, <2>4 DEF decode_v2_message, length
    <3>2. /\ total \in V2_HEADER_LEN .. Len(input)
          /\ total <= V2_HEADER_LEN + V2_MAX_PAYLOAD_LEN
      BY <1>1, <2>1, <2>4, SMT
    <3>3. Len(payload) = total - V2_HEADER_LEN
      BY <1>1, <2>1, <3>2, input \in Seq(Byte), SMT
    <3>. HIDE DEF type, payload, total
    <3>4. /\ decode_v2_message(input).result = "complete"
          /\ decode_v2_message(input).consumed = total
          /\ decode_v2_message(input).payload = payload
      BY <3>1, CompleteFields
    <3> QED
      BY <3>2, <3>3, <3>4
  <2> QED
    BY <2>3, <2>4
<1> QED
  BY <1>1, <1>2, <1>3, <1>4, SMT

-----------------------------------------------------------------------------
(* What was encoded.                                                       *)

Types == {"Hello", "PointerDown", "PointerUp", "ViewportChanged", "Frame"}

LEMMA TypeHasValue ==
    ASSUME NEW type \in Types
    PROVE  /\ TypeValue(type) \in DOMAIN MessageTypes
           /\ MessageTypes[TypeValue(type)] = type
           /\ TypeValue(type) \in Byte
<1>1. \E v \in DOMAIN MessageTypes : MessageTypes[v] = type
  BY DEF Types, MessageTypes
<1>2. TypeValue(type) \in DOMAIN MessageTypes /\ MessageTypes[TypeValue(type)] = type
  BY <1>1 DEF TypeValue
<1>3. DOMAIN MessageTypes = 1 .. 5
  BY DEF MessageTypes
<1>4. \A v \in 1 .. 5 : v \in Byte
  BY SMT DEF Byte
<1> QED
  BY <1>2, <1>3, <1>4

LEMMA Joined ==
    ASSUME NEW s \in Seq(Byte), NEW t \in Seq(Byte)
    PROVE  /\ s \o t \in Seq(Byte)
           /\ Len(s \o t) = Len(s) + Len(t)
           /\ \A i \in 1 .. Len(s) : (s \o t)[i] = s[i]
           /\ \A i \in 1 .. Len(t) : (s \o t)[Len(s) + i] = t[i]
<1>. DEFINE m == Len(s)
            n == Len(t)
<1>1. m \in Nat /\ n \in Nat
  OBVIOUS
<1>2. /\ s \o t \in Seq(Byte) /\ Len(s \o t) = m + n
      /\ \A i \in 1 .. m + n : (s \o t)[i] = IF i <= m THEN s[i] ELSE t[i - m]
  BY ConcatProperties
<1>. HIDE DEF m, n
<1>3. ASSUME NEW i \in 1 .. m PROVE (s \o t)[i] = s[i]
  <2>1. i \in 1 .. m + n /\ i <= m
    BY <1>1, SMT
  <2> QED
    BY <1>2, <2>1, Zenon
<1>4. ASSUME NEW i \in 1 .. n PROVE (s \o t)[m + i] = t[i]
  <2>1. m + i \in 1 .. m + n /\ ~(m + i <= m) /\ (m + i) - m = i
    BY <1>1, SMT
  <2> QED
    BY <1>2, <2>1, Zenon
<1> QED
  BY <1>2, <1>3, <1>4 DEF m, n

\* The header, byte for byte.
LEMMA HeaderBytes ==
    ASSUME NEW type \in Types, NEW length \in Nat, length <= V2_MAX_PAYLOAD_LEN
    PROVE  LET h == V2Header(type, length)
           IN  /\ h \in Seq(Byte) /\ Len(h) = 12
               /\ h[1] = 80 /\ h[2] = 80 /\ h[3] = 70 /\ h[4] = 66
               /\ h[5] = V2_VERSION /\ h[6] = TypeValue(type)
               /\ h[7] = 0 /\ h[8] = 0
               /\ U32(h, 9) = length
<1>. DEFINE h == V2Header(type, length)
            b == be32(length)
            v == TypeValue(type)
<1>1. length \div (256 * 256 * 256) <= 255
  <2>. DEFINE most == 256 * 256 * 256
  <2>1. length <= most
    BY PayloadBound, SMT
  <2> QED
    BY <2>1, SMT
<1>2. /\ b[1] \in Byte /\ b[2] \in Byte /\ b[3] \in Byte /\ b[4] \in Byte
      /\ (b[1] * 256 + b[2]) * (256 * 256) + (b[3] * 256 + b[4]) = length
  BY <1>1, Be32
<1>3. b = <<b[1], b[2], b[3], b[4]>>
  BY DEF be32
<1>4. v \in Byte
  BY TypeHasValue
<1>5. h = <<80, 80, 70, 66, 2, v, 0, 0, b[1], b[2], b[3], b[4]>>
  BY DEF V2Header, V2_MAGIC, V2_VERSION
<1>6. 80 \in Byte /\ 70 \in Byte /\ 66 \in Byte /\ 2 \in Byte /\ 0 \in Byte
  BY SMT DEF Byte
<1>. HIDE DEF b, v, h
<1>7. h \in Seq(Byte) /\ Len(h) = 12
  BY <1>2, <1>4, <1>5, <1>6
<1>8. /\ h[1] = 80 /\ h[2] = 80 /\ h[3] = 70 /\ h[4] = 66 /\ h[5] = 2 /\ h[6] = v
      /\ h[7] = 0 /\ h[8] = 0
      /\ h[9] = b[1] /\ h[10] = b[2] /\ h[11] = b[3] /\ h[12] = b[4]
  BY <1>5
<1>9. U32(h, 9) = length
  BY <1>2, <1>8, U32OfBytes
<1> QED
  BY <1>7, <1>8, <1>9 DEF V2_VERSION, h, v

\* The decoder reads of any buffer that begins with a header what it says.
LEMMA HeaderIsRead ==
    ASSUME NEW type \in Types, NEW length \in Nat, length <= V2_MAX_PAYLOAD_LEN,
           NEW input, input \in Seq(Byte), Len(input) >= 12,
           \A i \in 1 .. 12 : input[i] = V2Header(type, length)[i]
    PROVE  /\ ValidHeader(input)
           /\ U32(input, 9) = length
           /\ MessageTypes[input[6]] = type
<1>. DEFINE h == V2Header(type, length)
            magic == SubSeq(input, 1, 4)
<1>1. /\ h[1] = 80 /\ h[2] = 80 /\ h[3] = 70 /\ h[4] = 66
      /\ h[5] = V2_VERSION /\ h[6] = TypeValue(type)
      /\ h[7] = 0 /\ h[8] = 0 /\ U32(h, 9) = length
  BY HeaderBytes
<1>. HIDE DEF h
<1>2. \A i \in 1 .. 12 : input[i] = h[i]
  BY DEF h
<1>3. /\ input[1] = 80 /\ input[2] = 80 /\ input[3] = 70 /\ input[4] = 66
      /\ input[5] = V2_VERSION /\ input[6] = TypeValue(type)
      /\ input[7] = 0 /\ input[8] = 0
  <2>1. /\ 1 \in 1 .. 12 /\ 2 \in 1 .. 12 /\ 3 \in 1 .. 12 /\ 4 \in 1 .. 12
        /\ 5 \in 1 .. 12 /\ 6 \in 1 .. 12 /\ 7 \in 1 .. 12 /\ 8 \in 1 .. 12
    BY SMT
  <2>2. /\ input[1] = h[1] /\ input[2] = h[2] /\ input[3] = h[3] /\ input[4] = h[4]
        /\ input[5] = h[5] /\ input[6] = h[6] /\ input[7] = h[7] /\ input[8] = h[8]
    BY <1>2, <2>1
  <2> QED
    BY <1>1, <2>2
<1>4. U32(input, 9) = length
  <2>1. input[9] = h[9] /\ input[10] = h[10] /\ input[11] = h[11] /\ input[12] = h[12]
    BY <1>2, SMT
  <2> QED
    BY <1>1, <2>1, U32OfBytes
<1>5. magic = V2_MAGIC
  <2>1. 80 \in Byte /\ 70 \in Byte /\ 66 \in Byte
    BY SMT DEF Byte
  <2>2. /\ V2_MAGIC \in Seq(Byte) /\ Len(V2_MAGIC) = 4
        /\ V2_MAGIC[1] = 80 /\ V2_MAGIC[2] = 80 /\ V2_MAGIC[3] = 70 /\ V2_MAGIC[4] = 66
    BY <2>1 DEF V2_MAGIC
  <2>3. \A i \in 1 .. 4 : i = 1 \/ i = 2 \/ i = 3 \/ i = 4
    BY SMT
  <2>4. \A i \in 1 .. 4 : input[i] = V2_MAGIC[i] /\ input[i] \in Byte
    <3>1. /\ input[1] = V2_MAGIC[1] /\ input[2] = V2_MAGIC[2]
          /\ input[3] = V2_MAGIC[3] /\ input[4] = V2_MAGIC[4]
          /\ input[1] \in Byte /\ input[2] \in Byte /\ input[3] \in Byte /\ input[4] \in Byte
      BY <1>3, <2>1, <2>2
    <3> QED
      BY <2>3, <3>1
  <2>5. /\ magic \in Seq(Byte) /\ Len(magic) = IF 1 <= 4 THEN 4 - 1 + 1 ELSE 0
        /\ \A i \in 1 .. 4 - 1 + 1 : magic[i] = input[1 + i - 1]
    <3>1. 1 \in Int /\ 4 \in Int
      BY SMT
    <3> QED
      BY <2>4, <3>1, SubSeqProperties
  <2>. HIDE DEF magic
  <2>6. Len(magic) = 4 /\ \A i \in 1 .. 4 : magic[i] = input[i]
    BY <2>5, SMT
  <2>7. magic \in Seq(Byte)
    BY <2>5
  <2> QED
    <3>1. \A i \in 1 .. Len(magic) : magic[i] = V2_MAGIC[i]
      BY <2>4, <2>6
    <3>2. Len(magic) = Len(V2_MAGIC) /\ V2_MAGIC \in Seq(Byte)
      BY <2>2, <2>6
    <3> QED
      BY <2>7, <3>1, <3>2, SeqEqual
<1>6. AllZero(input, 7, 8)
  <2>1. \A i \in 7 .. 8 : i = 7 \/ i = 8
    BY SMT
  <2> QED
    BY <1>3, <2>1 DEF AllZero
<1>7. input[6] \in DOMAIN MessageTypes /\ MessageTypes[input[6]] = type
  BY <1>3, TypeHasValue
<1> QED
  BY <1>3, <1>4, <1>5, <1>6, <1>7 DEF ValidHeader

\* Where the bytes of a message are, and those of what follows it.
LEMMA EncodedBytes ==
    ASSUME NEW type \in Types, NEW payload, payload \in Seq(Byte),
           Len(payload) <= V2_MAX_PAYLOAD_LEN
    PROVE  LET coded == encode_v2_message(type, payload)
           IN  /\ coded \in Seq(Byte)
               /\ Len(coded) = 12 + Len(payload)
               /\ \A i \in 1 .. 12 : coded[i] = V2Header(type, Len(payload))[i]
               /\ \A i \in 1 .. Len(payload) : coded[12 + i] = payload[i]
<1>. DEFINE h == V2Header(type, Len(payload))
<1>1. Len(payload) \in Nat
  BY payload \in Seq(Byte)
<1>2. h \in Seq(Byte) /\ Len(h) = 12 /\ 12 \in Nat
  BY <1>1, HeaderBytes
<1>. HIDE DEF h
<1>3. encode_v2_message(type, payload) = h \o payload
  BY DEF encode_v2_message, h
<1>5. /\ h \o payload \in Seq(Byte) /\ Len(h \o payload) = Len(h) + Len(payload)
      /\ \A i \in 1 .. Len(h) : (h \o payload)[i] = h[i]
      /\ \A i \in 1 .. Len(payload) : (h \o payload)[Len(h) + i] = payload[i]
  BY <1>2, Joined
<1>4. /\ h \o payload \in Seq(Byte) /\ Len(h \o payload) = 12 + Len(payload)
      /\ \A i \in 1 .. 12 : (h \o payload)[i] = h[i]
      /\ \A i \in 1 .. Len(payload) : (h \o payload)[12 + i] = payload[i]
  BY <1>2, <1>5
<1> QED
  BY <1>3, <1>4 DEF h

\* Decoding finds the message that was encoded and takes exactly its bytes,
\* whatever comes after it.
THEOREM EncodedIsDecoded ==
    ASSUME NEW type \in Types, NEW payload, payload \in Seq(Byte),
           Len(payload) <= V2_MAX_PAYLOAD_LEN, NEW rest, rest \in Seq(Byte)
    PROVE  decode_v2_message(encode_v2_message(type, payload) \o rest)
               = Complete(type, payload, V2_HEADER_LEN + Len(payload))
<1>. DEFINE coded == encode_v2_message(type, payload)
            input == coded \o rest
            length == Len(payload)
            total == V2_HEADER_LEN + length
            found == SubSeq(input, V2_HEADER_LEN + 1, total)
<1>1. length \in Nat /\ length <= V2_MAX_PAYLOAD_LEN /\ Len(rest) \in Nat
      /\ V2_HEADER_LEN = 12
  BY payload \in Seq(Byte), rest \in Seq(Byte) DEF V2_HEADER_LEN
<1>2. /\ coded \in Seq(Byte) /\ Len(coded) = 12 + length
      /\ \A i \in 1 .. 12 : coded[i] = V2Header(type, length)[i]
      /\ \A i \in 1 .. length : coded[12 + i] = payload[i]
  BY EncodedBytes
<1>. HIDE DEF coded
<1>3. /\ input \in Seq(Byte) /\ Len(input) = (12 + length) + Len(rest)
      /\ \A i \in 1 .. 12 + length : input[i] = coded[i]
  <2>1. /\ input \in Seq(Byte) /\ Len(input) = Len(coded) + Len(rest)
        /\ \A i \in 1 .. Len(coded) : input[i] = coded[i]
    BY <1>2, rest \in Seq(Byte), Joined, ZenonT(30)
  <2>. HIDE DEF input
  <2> QED
    BY <1>2, <2>1
<1>. HIDE DEF input
<1>4. Len(input) >= 12 /\ ~(Len(input) < V2_HEADER_LEN) /\ ~(Len(input) < total)
  BY <1>1, <1>3, SMT
<1>5. \A i \in 1 .. 12 : input[i] = V2Header(type, length)[i]
  <2>1. \A i \in 1 .. 12 : i \in 1 .. 12 + length
    BY <1>1, SMT
  <2> QED
    BY <1>2, <1>3, <2>1
<1>6. ValidHeader(input) /\ U32(input, 9) = length /\ MessageTypes[input[6]] = type
  <2>1. length \in Nat /\ length <= V2_MAX_PAYLOAD_LEN
    BY <1>1
  <2>2. input \in Seq(Byte) /\ Len(input) >= 12
    BY <1>3, <1>4
  <2>. HIDE DEF length
  <2> QED
    BY <2>1, <2>2, <1>5, HeaderIsRead, SMTT(60)
<1>7. \A i \in 1 .. length : input[12 + i] = payload[i]
  <2>1. \A i \in 1 .. length : 12 + i \in 1 .. 12 + length
    BY <1>1, SMT
  <2> QED
    BY <1>2, <1>3, <2>1
<1>8. found = payload
  <2>1. \A i \in 13 .. 12 + length : input[i] \in Byte
    <3>1. \A i \in 13 .. 12 + length : i \in 1 .. Len(input)
      BY <1>1, <1>3, SMT
    <3> QED
      BY <1>3, <3>1
  <2>2. found = SubSeq(input, 13, 12 + length) /\ 13 \in Int /\ 12 + length \in Int
    BY <1>1
  <2>. HIDE DEF found
  <2>3. /\ found \in Seq(Byte)
        /\ Len(found) = IF 13 <= 12 + length THEN 12 + length - 13 + 1 ELSE 0
        /\ \A i \in 1 .. 12 + length - 13 + 1 : found[i] = input[13 + i - 1]
    BY <2>1, <2>2, SubSeqProperties
  <2>4. Len(found) = length
    BY <1>1, <2>3, SMT
  <2>5. ASSUME NEW i \in 1 .. length PROVE found[i] = payload[i]
    <3>1. i \in 1 .. 12 + length - 13 + 1 /\ 13 + i - 1 = 12 + i
      BY <1>1, SMT
    <3> QED
      BY <1>7, <2>3, <3>1
  <2> QED
    BY <2>3, <2>4, <2>5, payload \in Seq(Byte), SeqEqual
<1>9. decode_v2_message(input) =
          Complete(MessageTypes[input[6]],
                   SubSeq(input, V2_HEADER_LEN + 1, V2_HEADER_LEN + U32(input, 9)),
                   V2_HEADER_LEN + U32(input, 9))
  <2>1. ~(Len(input) < V2_HEADER_LEN + U32(input, 9))
    BY <1>4, <1>6
  <2> QED
    BY <1>4, <1>6, <2>1 DEF decode_v2_message
<1>10. decode_v2_message(input) = Complete(type, payload, total)
  BY <1>6, <1>8, <1>9
<1> QED
  BY <1>10 DEF input, coded

\* A message that arrived in part is incomplete, never something else, and
\* the decoder asks for no byte of the message after it.
THEOREM CutIsIncomplete ==
    ASSUME NEW type \in Types, NEW payload, payload \in Seq(Byte),
           Len(payload) <= V2_MAX_PAYLOAD_LEN,
           NEW here \in 0 .. V2_HEADER_LEN + Len(payload) - 1
    PROVE  LET coded == encode_v2_message(type, payload)
               decoded == decode_v2_message(SubSeq(coded, 1, here))
           IN  decoded.result = "incomplete" /\ here + decoded.additional <= Len(coded)
<1>. DEFINE coded == encode_v2_message(type, payload)
            length == Len(payload)
            input == SubSeq(coded, 1, here)
            decoded == decode_v2_message(input)
<1>1. /\ length \in Nat /\ length <= V2_MAX_PAYLOAD_LEN /\ V2_HEADER_LEN = 12
      /\ here \in Nat /\ here < 12 + length
  <2>1. length \in Nat /\ length <= V2_MAX_PAYLOAD_LEN /\ V2_HEADER_LEN = 12
    BY payload \in Seq(Byte) DEF V2_HEADER_LEN
  <2> QED
    BY <2>1, SMT
<1>2. /\ coded \in Seq(Byte) /\ Len(coded) = 12 + length
      /\ \A i \in 1 .. 12 : coded[i] = V2Header(type, length)[i]
  BY EncodedBytes
<1>. HIDE DEF coded, length
<1>3. /\ input \in Seq(Byte) /\ Len(input) = here
      /\ \A i \in 1 .. here : input[i] = coded[i]
  <2>1. \A i \in 1 .. here : i \in 1 .. Len(coded)
    BY <1>1, <1>2, SMT
  <2>2. \A i \in 1 .. here : coded[i] \in Byte
    BY <1>2, <2>1
  <2>3. /\ input \in Seq(Byte) /\ Len(input) = IF 1 <= here THEN here - 1 + 1 ELSE 0
        /\ \A i \in 1 .. here - 1 + 1 : input[i] = coded[1 + i - 1]
    BY <1>1, <2>2, SubSeqProperties
  <2>4. (IF 1 <= here THEN here - 1 + 1 ELSE 0) = here
    BY <1>1, SMT
  <2>5. \A i \in 1 .. here : i \in 1 .. here - 1 + 1 /\ 1 + i - 1 = i
    BY <1>1, SMT
  <2>. HIDE DEF input
  <2> QED
    BY <2>3, <2>4, <2>5
<1>. HIDE DEF input
<1>4. CASE here < 12
  <2>1. decoded = Incomplete(12 - here)
    BY <1>1, <1>3, <1>4 DEF decode_v2_message
  <2>2. here + (12 - here) <= 12 + length
    BY <1>1, SMT
  <2>. HIDE DEF decoded
  <2>3. decoded.result = "incomplete" /\ decoded.additional = 12 - here
    BY <2>1 DEF Incomplete
  <2> QED
    BY <1>2, <2>2, <2>3 DEF coded, decoded, input
<1>5. CASE ~(here < 12)
  <2>1. Len(input) >= 12 /\ \A i \in 1 .. 12 : i \in 1 .. here
    BY <1>1, <1>3, <1>5, SMT
  <2>2. \A i \in 1 .. 12 : input[i] = V2Header(type, length)[i]
    BY <1>2, <1>3, <2>1
  <2>3. ValidHeader(input) /\ U32(input, 9) = length
    <3>1. length \in Nat /\ length <= V2_MAX_PAYLOAD_LEN
      BY <1>1
    <3>2. input \in Seq(Byte) /\ Len(input) >= 12
      BY <1>3, <2>1
    <3> QED
      BY <3>1, <3>2, <2>2, HeaderIsRead, SMTT(60)
  <2>4. decoded = Incomplete(12 + length - here)
    BY <1>1, <1>3, <1>5, <2>3 DEF decode_v2_message
  <2>5. here + (12 + length - here) <= 12 + length
    BY <1>1, SMT
  <2>. HIDE DEF decoded
  <2>6. decoded.result = "incomplete" /\ decoded.additional = 12 + length - here
    BY <2>4 DEF Incomplete
  <2> QED
    BY <1>2, <2>5, <2>6 DEF coded, decoded, input
<1> QED
  BY <1>4, <1>5

-----------------------------------------------------------------------------
(* Coordinates and sizes.                                                  *)

LEMMA Pairs ==
    ASSUME NEW a \in Byte, NEW b \in Byte, NEW c \in Byte, NEW d \in Byte
    PROVE  <<a, b>> \o <<c, d>> = <<a, b, c, d>>
<1>. DEFINE s == <<a, b>>
            t == <<c, d>>
            u == <<a, b, c, d>>
<1>1. /\ s \in Seq(Byte) /\ t \in Seq(Byte) /\ Len(s) = 2 /\ Len(t) = 2
      /\ u \in Seq(Byte) /\ Len(u) = 4
  OBVIOUS
<1>2. /\ s[1] = a /\ s[2] = b /\ t[1] = c /\ t[2] = d
      /\ u[1] = a /\ u[2] = b /\ u[3] = c /\ u[4] = d
  OBVIOUS
<1>. HIDE DEF s, t, u
<1>8. /\ s \o t \in Seq(Byte) /\ Len(s \o t) = Len(s) + Len(t)
      /\ \A i \in 1 .. Len(s) : (s \o t)[i] = s[i]
      /\ \A i \in 1 .. Len(t) : (s \o t)[Len(s) + i] = t[i]
  BY <1>1, Joined
<1>3. /\ s \o t \in Seq(Byte) /\ Len(s \o t) = 2 + 2
      /\ \A i \in 1 .. 2 : (s \o t)[i] = s[i]
      /\ \A i \in 1 .. 2 : (s \o t)[2 + i] = t[i]
  BY <1>1, <1>8
<1>4. /\ (s \o t)[1] = a /\ (s \o t)[2] = b
      /\ (s \o t)[3] = c /\ (s \o t)[4] = d
  BY <1>2, <1>3, SMT
<1>5. \A i \in 1 .. 4 : i = 1 \/ i = 2 \/ i = 3 \/ i = 4
  BY SMT
<1>6. \A i \in 1 .. 4 : (s \o t)[i] = u[i]
  BY <1>2, <1>4, <1>5
<1>7. Len(s \o t) = 4
  BY <1>3, SMT
<1> QED
  BY <1>1, <1>3, <1>6, <1>7, SeqEqual DEF s, t, u

LEMMA TwoNumbers ==
    ASSUME NEW m \in Nat, m <= 65535, NEW n \in Nat, n <= 65535
    PROVE  /\ Len(be16(m) \o be16(n)) = 4
           /\ U16(be16(m) \o be16(n), 1) = m
           /\ U16(be16(m) \o be16(n), 3) = n
<1>1. /\ m \div 256 \in Byte /\ m % 256 \in Byte /\ (m \div 256) * 256 + (m % 256) = m
      /\ n \div 256 \in Byte /\ n % 256 \in Byte /\ (n \div 256) * 256 + (n % 256) = n
  BY Be16
<1>. DEFINE bytes == <<m \div 256, m % 256, n \div 256, n % 256>>
<1>2. be16(m) \o be16(n) = bytes
  BY <1>1, Pairs DEF be16
<1>3. /\ Len(bytes) = 4 /\ bytes[1] = m \div 256 /\ bytes[2] = m % 256
      /\ bytes[3] = n \div 256 /\ bytes[4] = n % 256
  OBVIOUS
<1>. HIDE DEF bytes
<1>4. 1 + 1 = 2 /\ 3 + 1 = 4
  BY SMT
<1> QED
  BY <1>1, <1>2, <1>3, <1>4 DEF U16

\* A touch and a viewport arrive as they were sent, over the whole range of
\* 16 bits: a message, encoded, decodes to that message and no other.
THEOREM TouchesAndViewportsArrive ==
    ASSUME NEW m \in Nat, m <= 65535, NEW n \in Nat, n <= 65535
    PROVE  /\ \A contact \in {"PointerDown", "PointerUp"} :
                 LET message == [type |-> contact, x |-> m, y |-> n]
                 IN  decode_v2_payload(contact, PayloadOf(message)) = {message}
           /\ LET message == [type |-> "ViewportChanged", width |-> m, height |-> n]
              IN  decode_v2_payload("ViewportChanged", PayloadOf(message)) = {message}
<1>. DEFINE payload == be16(m) \o be16(n)
<1>1. Len(payload) = 4 /\ U16(payload, 1) = m /\ U16(payload, 3) = n
  BY TwoNumbers
<1>. HIDE DEF payload
<1>2. ASSUME NEW contact \in {"PointerDown", "PointerUp"}
      PROVE  LET message == [type |-> contact, x |-> m, y |-> n]
             IN  decode_v2_payload(contact, PayloadOf(message)) = {message}
  <2>. DEFINE message == [type |-> contact, x |-> m, y |-> n]
  <2>1. message.type = contact /\ message.x = m /\ message.y = n
    OBVIOUS
  <2>. HIDE DEF message
  <2>2. PayloadOf(message) = payload
    BY <2>1 DEF PayloadOf, PointerPayload, payload
  <2>3. decode_v2_payload(contact, payload) = decode_pointer(contact, payload)
    BY DEF decode_v2_payload
  <2>4. decode_pointer(contact, payload) = {[type |-> contact, x |-> m, y |-> n]}
    BY <1>1 DEF decode_pointer, require_exact_length, V2_POINTER_PAYLOAD_LEN
  <2> QED
    BY <2>2, <2>3, <2>4 DEF message
<1>3. LET message == [type |-> "ViewportChanged", width |-> m, height |-> n]
      IN  decode_v2_payload("ViewportChanged", PayloadOf(message)) = {message}
  <2>. DEFINE message == [type |-> "ViewportChanged", width |-> m, height |-> n]
  <2>1. message.type = "ViewportChanged" /\ message.width = m /\ message.height = n
    OBVIOUS
  <2>. HIDE DEF message
  <2>2. PayloadOf(message) = payload
    BY <2>1 DEF PayloadOf, ViewportPayload, payload
  <2>3. decode_v2_payload("ViewportChanged", payload) = decode_viewport(payload)
    BY DEF decode_v2_payload
  <2>4. decode_viewport(payload) = {[type |-> "ViewportChanged", width |-> m, height |-> n]}
    BY <1>1 DEF decode_viewport, require_exact_length, V2_VIEWPORT_PAYLOAD_LEN
  <2> QED
    BY <2>2, <2>3, <2>4 DEF message
<1> QED
  BY <1>2, <1>3

-----------------------------------------------------------------------------
(* A message has one encoding: what the decoder accepts is what the encoder *)
(* writes.                                                                  *)

\* Two bytes and their number determine each other.
LEMMA Be16Of ==
    ASSUME NEW a \in Byte, NEW b \in Byte
    PROVE  be16(a * 256 + b) = <<a, b>>
<1>1. a \in Nat /\ b \in Nat /\ b <= 255
  BY ByteBounds
<1>2. (a * 256 + b) \div 256 = a /\ (a * 256 + b) % 256 = b
  BY <1>1, SMT
<1> QED
  BY <1>2 DEF be16

LEMMA Be32Of ==
    ASSUME NEW a \in Byte, NEW b \in Byte, NEW c \in Byte, NEW d \in Byte
    PROVE  be32((a * 256 + b) * (256 * 256) + (c * 256 + d)) = <<a, b, c, d>>
<1>1. a \in Nat /\ b \in Nat /\ c \in Nat /\ d \in Nat /\ b <= 255 /\ c <= 255 /\ d <= 255
  BY ByteBounds
<1>. DEFINE high == a * 256 + b
            low == c * 256 + d
            n == high * (256 * 256) + low
<1>2. /\ high \in Nat /\ low \in Nat /\ low <= 65535
      /\ high \div 256 = a /\ high % 256 = b /\ low \div 256 = c /\ low % 256 = d
  BY <1>1, SMT
<1>. HIDE DEF high, low
<1>3. n \div (256 * 256 * 256) = high \div 256
  BY <1>2, SMT
<1>4. (n \div (256 * 256)) % 256 = high % 256
  <2>1. n \div (256 * 256) = high
    BY <1>2, SMT
  <2> QED
    BY <2>1
<1>5. (n \div 256) % 256 = low \div 256
  BY <1>2, SMT
<1>6. n % 256 = low % 256
  BY <1>2, SMT
<1>. HIDE DEF n
<1>7. be32(n) = <<a, b, c, d>>
  BY <1>2, <1>3, <1>4, <1>5, <1>6 DEF be32
<1> QED
  BY <1>7 DEF n, high, low

\* The type of a message and its value determine each other.
LEMMA ValueHasType ==
    ASSUME NEW v \in DOMAIN MessageTypes
    PROVE  MessageTypes[v] \in Types /\ TypeValue(MessageTypes[v]) = v
<1>1. DOMAIN MessageTypes = 1 .. 5
  BY DEF MessageTypes
<1>2. /\ MessageTypes[1] = "Hello" /\ MessageTypes[2] = "PointerDown"
      /\ MessageTypes[3] = "PointerUp" /\ MessageTypes[4] = "ViewportChanged"
      /\ MessageTypes[5] = "Frame"
  BY DEF MessageTypes
<1>3. \A u \in 1 .. 5 : u = 1 \/ u = 2 \/ u = 3 \/ u = 4 \/ u = 5
  BY SMT
<1>4. v \in 1 .. 5
  BY <1>1
<1>5. MessageTypes[v] \in Types
  BY <1>2, <1>3, <1>4 DEF Types
<1>6. \A u \in 1 .. 5 : MessageTypes[u] = MessageTypes[v] => u = v
  BY <1>2, <1>3, <1>4
<1> QED
  BY <1>1, <1>4, <1>5, <1>6, TypeHasValue

LEMMA FirstBytes ==
    ASSUME NEW s \in Seq(Byte), NEW n \in 0 .. Len(s)
    PROVE  /\ SubSeq(s, 1, n) \in Seq(Byte) /\ Len(SubSeq(s, 1, n)) = n
           /\ \A i \in 1 .. n : SubSeq(s, 1, n)[i] = s[i]
<1>1. n \in Nat /\ Len(s) \in Nat /\ n <= Len(s)
  OBVIOUS
<1>2. \A i \in 1 .. n : s[i] \in Byte
  BY <1>1
<1>3. /\ SubSeq(s, 1, n) \in Seq(Byte)
      /\ Len(SubSeq(s, 1, n)) = IF 1 <= n THEN n - 1 + 1 ELSE 0
      /\ \A i \in 1 .. n - 1 + 1 : SubSeq(s, 1, n)[i] = s[1 + i - 1]
  BY <1>1, <1>2, SubSeqProperties
<1> QED
  BY <1>1, <1>3

LEMMA Cut ==
    ASSUME NEW s \in Seq(Byte), NEW n \in 0 .. Len(s)
    PROVE  /\ SubSeq(s, n + 1, Len(s)) \in Seq(Byte)
           /\ Len(SubSeq(s, n + 1, Len(s))) = Len(s) - n
           /\ SubSeq(s, 1, n) \o SubSeq(s, n + 1, Len(s)) = s
<1>1. n \in Nat /\ Len(s) \in Nat /\ n <= Len(s)
  OBVIOUS
<1>2. \A i \in n + 1 .. Len(s) : s[i] \in Byte
  BY <1>1
<1>. DEFINE q == SubSeq(s, n + 1, Len(s))
<1>3. q \in Seq(Byte) /\ Len(q) = IF n + 1 <= Len(s) THEN Len(s) - (n + 1) + 1 ELSE 0
  BY <1>1, <1>2, SubSeqProperties
<1>4. SubSeq(s, 1, n) \o q = s
  <2>1. 1 \in 1 .. Len(s) + 1 /\ n \in 1 - 1 .. Len(s) /\ Len(s) \in n .. Len(s)
    BY <1>1
  <2>2. SubSeq(s, 1, n) \o q = SubSeq(s, 1, Len(s))
    BY <2>1, ConcatAdjacentSubSeq, Zenon
  <2>3. SubSeq(s, 1, Len(s)) = s
    BY SubSeqFull
  <2> QED
    BY <2>2, <2>3
<1>. HIDE DEF q
<1>5. Len(q) = Len(s) - n
  BY <1>1, <1>3
<1> QED
  BY <1>3, <1>4, <1>5 DEF q

LEMMA HeaderIsEncoded ==
    ASSUME NEW input, input \in Seq(Byte), Len(input) >= 12, ValidHeader(input)
    PROVE  V2Header(MessageTypes[input[6]], U32(input, 9)) = SubSeq(input, 1, 12)
<1>. DEFINE h == V2Header(MessageTypes[input[6]], U32(input, 9))
            first == SubSeq(input, 1, 12)
            magic == SubSeq(input, 1, 4)
<1>1. /\ first \in Seq(Byte) /\ Len(first) = 12 /\ \A i \in 1 .. 12 : first[i] = input[i]
      /\ \A i \in 1 .. 4 : magic[i] = input[i]
  <2>1. 12 \in 0 .. Len(input) /\ 4 \in 0 .. Len(input)
    BY input \in Seq(Byte)
  <2> QED
    BY <2>1, FirstBytes, input \in Seq(Byte)
<1>2. /\ input[1] = 80 /\ input[2] = 80 /\ input[3] = 70 /\ input[4] = 66
  <2>1. magic = V2_MAGIC
    BY DEF ValidHeader
  <2>2. V2_MAGIC[1] = 80 /\ V2_MAGIC[2] = 80 /\ V2_MAGIC[3] = 70 /\ V2_MAGIC[4] = 66
    BY DEF V2_MAGIC
  <2>. HIDE DEF magic
  <2>3. 1 \in 1 .. 4 /\ 2 \in 1 .. 4 /\ 3 \in 1 .. 4 /\ 4 \in 1 .. 4
    BY SMT
  <2> QED
    BY <1>1, <2>1, <2>2, <2>3
<1>3. input[5] = 2 /\ input[6] \in DOMAIN MessageTypes /\ input[7] = 0 /\ input[8] = 0
  <2>1. 7 \in 7 .. 8 /\ 8 \in 7 .. 8
    BY SMT
  <2> QED
    BY <2>1 DEF ValidHeader, V2_VERSION, AllZero
<1>4. TypeValue(MessageTypes[input[6]]) = input[6]
  BY <1>3, ValueHasType
<1>5. be32(U32(input, 9)) = <<input[9], input[10], input[11], input[12]>>
  <2>1. 9 \in 1 .. Len(input) /\ 10 \in 1 .. Len(input) /\ 11 \in 1 .. Len(input)
        /\ 12 \in 1 .. Len(input)
    BY input \in Seq(Byte)
  <2>2. input[9] \in Byte /\ input[10] \in Byte /\ input[11] \in Byte /\ input[12] \in Byte
    BY <2>1, input \in Seq(Byte)
  <2>3. be32((input[9] * 256 + input[10]) * (256 * 256) + (input[11] * 256 + input[12]))
            = <<input[9], input[10], input[11], input[12]>>
    <3>. DEFINE a == input[9]
                b == input[10]
                c == input[11]
                d == input[12]
    <3>1. a \in Byte /\ b \in Byte /\ c \in Byte /\ d \in Byte
      BY <2>2
    <3>. HIDE DEF a, b, c, d
    <3>2. be32((a * 256 + b) * (256 * 256) + (c * 256 + d)) = <<a, b, c, d>>
      BY <3>1, Be32Of
    <3> QED
      BY <3>2 DEF a, b, c, d
  <2> QED
    BY <2>3, U32OfBytes, Zenon
<1>6. h = <<80, 80, 70, 66, 2, input[6], 0, 0, input[9], input[10], input[11], input[12]>>
  BY <1>4, <1>5 DEF V2Header, V2_MAGIC, V2_VERSION
<1>. HIDE DEF h, first
<1>7. h \in Seq(Byte) /\ Len(h) = 12
  <2>1. 80 \in Byte /\ 70 \in Byte /\ 66 \in Byte /\ 2 \in Byte /\ 0 \in Byte
    BY SMT DEF Byte
  <2>2. 6 \in 1 .. 12 /\ 9 \in 1 .. 12 /\ 10 \in 1 .. 12 /\ 11 \in 1 .. 12 /\ 12 \in 1 .. 12
    BY SMT
  <2>3. \A i \in 1 .. 12 : input[i] \in Byte
    BY input \in Seq(Byte)
  <2>4. /\ input[6] \in Byte /\ input[9] \in Byte /\ input[10] \in Byte /\ input[11] \in Byte
        /\ input[12] \in Byte
    BY <2>2, <2>3
  <2> QED
    BY <1>6, <2>1, <2>4
<1>8. /\ h[1] = 80 /\ h[2] = 80 /\ h[3] = 70 /\ h[4] = 66 /\ h[5] = 2 /\ h[6] = input[6]
      /\ h[7] = 0 /\ h[8] = 0
      /\ h[9] = input[9] /\ h[10] = input[10] /\ h[11] = input[11] /\ h[12] = input[12]
  BY <1>6
<1>9. \A i \in 1 .. 12 : h[i] = input[i]
  <2>1. \A i \in 1 .. 12 : \/ i = 1 \/ i = 2 \/ i = 3 \/ i = 4 \/ i = 5 \/ i = 6
                           \/ i = 7 \/ i = 8 \/ i = 9 \/ i = 10 \/ i = 11 \/ i = 12
    BY SMT
  <2>2. /\ h[1] = input[1] /\ h[2] = input[2] /\ h[3] = input[3] /\ h[4] = input[4]
        /\ h[5] = input[5] /\ h[6] = input[6] /\ h[7] = input[7] /\ h[8] = input[8]
        /\ h[9] = input[9] /\ h[10] = input[10] /\ h[11] = input[11] /\ h[12] = input[12]
    BY <1>2, <1>3, <1>8
  <2> QED
    BY <2>1, <2>2, Zenon
<1>10. h = first
  <2>1. Len(h) = Len(first) /\ \A i \in 1 .. Len(h) : h[i] = first[i]
    BY <1>1, <1>7, <1>9, Zenon
  <2> QED
    BY <1>1, <1>7, <2>1, SeqEqual, Zenon
<1> QED
  BY <1>10 DEF h, first

\* A message that fills its buffer is the encoding of its payload.
LEMMA MessageIsEncoded ==
    ASSUME NEW input, input \in Seq(Byte),
           decode_v2_message(input).result = "complete",
           decode_v2_message(input).consumed = Len(input)
    PROVE  LET decoded == decode_v2_message(input)
           IN  /\ decoded.type \in Types /\ decoded.payload \in Seq(Byte)
               /\ encode_v2_message(decoded.type, decoded.payload) = input
<1>. DEFINE length == U32(input, 9)
            total == V2_HEADER_LEN + length
            type == MessageTypes[input[6]]
            payload == SubSeq(input, V2_HEADER_LEN + 1, total)
<1>1. V2_HEADER_LEN = 12 /\ Len(input) \in Nat
  BY input \in Seq(Byte) DEF V2_HEADER_LEN
<1>2. /\ ~(Len(input) < V2_HEADER_LEN) /\ ValidHeader(input)
      /\ decode_v2_message(input) = Complete(type, payload, total)
  BY DEF decode_v2_message, Incomplete, Invalid
<1>3. /\ decode_v2_message(input).type = type /\ decode_v2_message(input).payload = payload
      /\ decode_v2_message(input).consumed = total
  <2>. HIDE DEF type, payload, total
  <2> QED
    BY <1>2, CompleteFields, Zenon
<1>4. type \in Types
  BY <1>2, ValueHasType DEF ValidHeader
<1>5. total = Len(input) /\ 12 \in 0 .. Len(input) /\ Len(input) >= 12
  BY <1>1, <1>2, <1>3
<1>6. payload = SubSeq(input, 12 + 1, Len(input))
  BY <1>1, <1>5
<1>7. /\ payload \in Seq(Byte) /\ Len(payload) = Len(input) - 12
      /\ SubSeq(input, 1, 12) \o payload = input
  BY <1>5, <1>6, Cut, input \in Seq(Byte)
<1>8. length = Len(payload)
  <2>. DEFINE i9 == input[9]
              i10 == input[10]
              i11 == input[11]
              i12 == input[12]
  <2>1. length \in Nat
    <3>1. 9 \in 1 .. Len(input) /\ 10 \in 1 .. Len(input) /\ 11 \in 1 .. Len(input)
          /\ 12 \in 1 .. Len(input)
      BY <1>5
    <3>2. i9 \in Byte /\ i10 \in Byte /\ i11 \in Byte /\ i12 \in Byte
      BY <3>1, input \in Seq(Byte)
    <3>3. i9 \in Nat /\ i10 \in Nat /\ i11 \in Nat /\ i12 \in Nat
      BY <3>2, ByteBounds
    <3> QED
      BY <3>3, U32IsNat
  <2>. HIDE DEF length, payload
  <2> QED
    BY <1>1, <1>5, <1>7, <2>1
<1>9. V2Header(type, Len(payload)) = SubSeq(input, 1, 12)
  BY <1>2, <1>5, <1>8, HeaderIsEncoded
<1>10. encode_v2_message(type, payload) = input
  BY <1>7, <1>9 DEF encode_v2_message
<1>. HIDE DEF type, payload, total
<1> QED
  BY <1>3, <1>4, <1>7, <1>10

-----------------------------------------------------------------------------
(* A payload is put together from its pieces.                              *)

LEMMA PieceOf ==
    ASSUME NEW s \in Seq(Byte), NEW first \in Nat, first >= 1, NEW n \in Nat, n >= 1,
           first + n - 1 <= Len(s)
    PROVE  LET piece == SubSeq(s, first, first + n - 1)
           IN  /\ piece \in Seq(Byte) /\ Len(piece) = n
               /\ \A i \in 1 .. n : piece[i] = s[first + i - 1]
<1>. DEFINE last == first + n - 1
            piece == SubSeq(s, first, last)
<1>1. /\ Len(s) \in Nat /\ last \in Nat /\ first <= last
      /\ last - first + 1 = n
  BY SMT
<1>2. \A i \in first .. last : s[i] \in Byte
  BY <1>1
<1>. HIDE DEF last
<1>3. /\ piece \in Seq(Byte)
      /\ Len(piece) = IF first <= last THEN last - first + 1 ELSE 0
      /\ \A i \in 1 .. last - first + 1 : piece[i] = s[first + i - 1]
  BY <1>1, <1>2, SubSeqProperties
<1>. HIDE DEF piece
<1>4. piece \in Seq(Byte) /\ Len(piece) = n /\ \A i \in 1 .. n : piece[i] = s[first + i - 1]
  BY <1>1, <1>3
<1> QED
  BY <1>4 DEF piece, last

LEMMA TwoBytes ==
    ASSUME NEW s \in Seq(Byte), NEW i \in Nat, i >= 1, i + 1 <= Len(s)
    PROVE  be16(U16(s, i)) = SubSeq(s, i, i + 1)
<1>. DEFINE a == s[i]
            b == s[i + 1]
            piece == SubSeq(s, i, i + 1)
<1>1. a \in Byte /\ b \in Byte
  BY SMT
<1>2. /\ i + 2 - 1 = i + 1 /\ i + 1 - 1 = i
      /\ 2 \in Nat /\ 2 >= 1 /\ i + 2 - 1 <= Len(s)
  BY SMT
<1>3. piece \in Seq(Byte) /\ Len(piece) = 2 /\ piece[1] = a /\ piece[2] = b
  <2>1. LET q == SubSeq(s, i, i + 2 - 1)
        IN  q \in Seq(Byte) /\ Len(q) = 2 /\ \A k \in 1 .. 2 : q[k] = s[i + k - 1]
    BY <1>2, PieceOf, ZenonT(30)
  <2>2. piece \in Seq(Byte) /\ Len(piece) = 2 /\ \A k \in 1 .. 2 : piece[k] = s[i + k - 1]
    BY <1>2, <2>1
  <2>. HIDE DEF piece
  <2>3. 1 \in 1 .. 2 /\ 2 \in 1 .. 2
    BY SMT
  <2>4. piece[1] = s[i + 1 - 1] /\ piece[2] = s[i + 2 - 1]
    BY <2>2, <2>3, Zenon
  <2> QED
    BY <1>2, <2>2, <2>4
<1>4. U16(s, i) = a * 256 + b
  BY DEF U16
<1>. HIDE DEF a, b, piece
<1>5. be16(U16(s, i)) = <<a, b>>
  BY <1>1, <1>4, Be16Of
<1>6. piece = <<a, b>>
  BY <1>3
<1> QED
  BY <1>5, <1>6 DEF piece

LEMMA FourBytes ==
    ASSUME NEW s \in Seq(Byte), NEW i \in Nat, i >= 1, i + 3 <= Len(s)
    PROVE  SubSeq(s, i, i + 3) = <<s[i], s[i + 1], s[i + 2], s[i + 3]>>
<1>. DEFINE a == s[i]
            b == s[i + 1]
            c == s[i + 2]
            d == s[i + 3]
            piece == SubSeq(s, i, i + 3)
<1>2. /\ i + 4 - 1 = i + 3 /\ i + 3 - 1 = i + 2 /\ i + 2 - 1 = i + 1 /\ i + 1 - 1 = i
      /\ 4 \in Nat /\ 4 >= 1 /\ i + 4 - 1 <= Len(s)
  BY SMT
<1>3. /\ piece \in Seq(Byte) /\ Len(piece) = 4
      /\ piece[1] = a /\ piece[2] = b /\ piece[3] = c /\ piece[4] = d
  <2>1. LET q == SubSeq(s, i, i + 4 - 1)
        IN  q \in Seq(Byte) /\ Len(q) = 4 /\ \A k \in 1 .. 4 : q[k] = s[i + k - 1]
    BY <1>2, PieceOf, ZenonT(30)
  <2>2. piece \in Seq(Byte) /\ Len(piece) = 4 /\ \A k \in 1 .. 4 : piece[k] = s[i + k - 1]
    BY <1>2, <2>1
  <2>. HIDE DEF piece
  <2>3. 1 \in 1 .. 4 /\ 2 \in 1 .. 4 /\ 3 \in 1 .. 4 /\ 4 \in 1 .. 4
    BY SMT
  <2>4. /\ piece[1] = s[i + 1 - 1] /\ piece[2] = s[i + 2 - 1]
        /\ piece[3] = s[i + 3 - 1] /\ piece[4] = s[i + 4 - 1]
    BY <2>2, <2>3, Zenon
  <2> QED
    BY <1>2, <2>2, <2>4
<1>. HIDE DEF a, b, c, d, piece
<1>4. piece = <<a, b, c, d>>
  BY <1>3
<1> QED
  BY <1>4 DEF a, b, c, d, piece

LEMMA FourByteNumber ==
    ASSUME NEW s \in Seq(Byte), NEW i \in Nat, i >= 1, i + 3 <= Len(s)
    PROVE  be32(U32(s, i)) = SubSeq(s, i, i + 3)
<1>. DEFINE a == s[i]
            b == s[i + 1]
            c == s[i + 2]
            d == s[i + 3]
<1>1. a \in Byte /\ b \in Byte /\ c \in Byte /\ d \in Byte
  BY SMT
<1>2. i + 2 + 1 = i + 3
  BY SMT
<1>3. U32(s, i) = (a * 256 + b) * (256 * 256) + (c * 256 + d)
  BY <1>2 DEF U32, U16
<1>4. SubSeq(s, i, i + 3) = <<a, b, c, d>>
  BY FourBytes
<1>. HIDE DEF a, b, c, d
<1>5. be32((a * 256 + b) * (256 * 256) + (c * 256 + d)) = <<a, b, c, d>>
  BY <1>1, Be32Of
<1> QED
  BY <1>3, <1>4, <1>5

LEMMA NextPiece ==
    ASSUME NEW s \in Seq(Byte), NEW k \in Nat, NEW n \in Nat, k >= 1, k <= n, n <= Len(s)
    PROVE  SubSeq(s, 1, k) \o SubSeq(s, k + 1, n) = SubSeq(s, 1, n)
<1>1. 1 \in 1 .. Len(s) + 1 /\ k \in 1 - 1 .. Len(s) /\ n \in k .. Len(s)
  BY SMT
<1> QED
  BY <1>1, ConcatAdjacentSubSeq, Zenon

\* The payloads of a pointer and a viewport: two numbers of two bytes.
LEMMA NumbersAreEncoded ==
    ASSUME NEW payload, payload \in Seq(Byte), Len(payload) = 4
    PROVE  be16(U16(payload, 1)) \o be16(U16(payload, 3)) = payload
<1>1. 1 + 1 = 2 /\ 3 + 1 = 4 /\ 2 + 1 = 3
  BY SMT
<1>2. be16(U16(payload, 1)) = SubSeq(payload, 1, 2) /\ be16(U16(payload, 3)) = SubSeq(payload, 3, 4)
  <2>1. be16(U16(payload, 1)) = SubSeq(payload, 1, 1 + 1)
    BY TwoBytes, payload \in Seq(Byte)
  <2>2. be16(U16(payload, 3)) = SubSeq(payload, 3, 3 + 1)
    BY TwoBytes, payload \in Seq(Byte)
  <2> QED
    BY <1>1, <2>1, <2>2
<1>3. SubSeq(payload, 1, 2) \o SubSeq(payload, 2 + 1, 4) = SubSeq(payload, 1, 4)
  BY NextPiece, payload \in Seq(Byte)
<1>4. SubSeq(payload, 1, Len(payload)) = payload
  BY SubSeqFull, payload \in Seq(Byte)
<1>5. SubSeq(payload, 1, 2) \o SubSeq(payload, 3, 4) = SubSeq(payload, 1, 4)
  BY <1>1, <1>3
<1> QED
  BY <1>2, <1>4, <1>5

\* The header of a Hello's payload: the formats are the bits of the mask.
LEMMA MaskOfFormats ==
    ASSUME NEW bits, bits \in 1 .. 3
    PROVE  mask({f \in {"Mono1", "Gray8"} : (bits \div pixel_format_mask(f)) % 2 = 1}) = bits
<1>1. bits = 1 \/ bits = 2 \/ bits = 3
  BY SMT
<1>2. /\ (1 \div 1) % 2 = 1 /\ (1 \div 2) % 2 = 0
      /\ (2 \div 1) % 2 = 0 /\ (2 \div 2) % 2 = 1
      /\ (3 \div 1) % 2 = 1 /\ (3 \div 2) % 2 = 1
  BY SMT
<1>3. pixel_format_mask("Mono1") = 1 /\ pixel_format_mask("Gray8") = 2
  BY DEF pixel_format_mask
<1>. DEFINE formats == {f \in {"Mono1", "Gray8"} : (bits \div pixel_format_mask(f)) % 2 = 1}
<1>4. /\ "Mono1" \in formats <=> (bits \div 1) % 2 = 1
      /\ "Gray8" \in formats <=> (bits \div 2) % 2 = 1
  BY <1>3
<1>. HIDE DEF formats
<1>5. mask(formats) = bits
  BY <1>1, <1>2, <1>3, <1>4 DEF mask
<1> QED
  BY <1>5 DEF formats

LEMMA HelloIsEncoded ==
    ASSUME NEW payload, payload \in Seq(Byte), NEW m \in decode_hello(payload)
    PROVE  m.type = "Hello" /\ HelloPayload(m) = payload
<1>. DEFINE formats == {f \in {"Mono1", "Gray8"} :
                            (payload[2] \div pixel_format_mask(f)) % 2 = 1}
            hello == [type |-> "Hello", width |-> U16(payload, 5), height |-> U16(payload, 7),
                      formats |-> formats]
<1>1. /\ Len(payload) = 8 /\ payload[1] = V2_VERSION /\ payload[2] \in 1 .. 3
      /\ AllZero(payload, 3, 4) /\ m = hello
  BY DEF decode_hello, require_exact_length, V2_HELLO_PAYLOAD_LEN
<1>2. /\ m.type = "Hello" /\ m.width = U16(payload, 5) /\ m.height = U16(payload, 7)
      /\ m.formats = formats
  <2>. HIDE DEF formats
  <2> QED
    BY <1>1
<1>3. mask(m.formats) = payload[2]
  BY <1>1, <1>2, MaskOfFormats
<1>4. payload[3] = 0 /\ payload[4] = 0
  <2>1. 3 \in 3 .. 4 /\ 4 \in 3 .. 4
    BY SMT
  <2> QED
    BY <1>1, <2>1 DEF AllZero
<1>5. SubSeq(payload, 1, 4) = <<V2_VERSION, payload[2], 0, 0>>
  <2>1. 1 + 3 = 4 /\ 1 + 1 = 2 /\ 1 + 2 = 3
    BY SMT
  <2>2. SubSeq(payload, 1, 1 + 3) = <<payload[1], payload[1 + 1], payload[1 + 2], payload[1 + 3]>>
    BY <1>1, FourBytes, payload \in Seq(Byte)
  <2> QED
    BY <1>1, <1>4, <2>1, <2>2
<1>6. be16(U16(payload, 5)) = SubSeq(payload, 5, 6) /\ be16(U16(payload, 7)) = SubSeq(payload, 7, 8)
  <2>1. 5 + 1 = 6 /\ 7 + 1 = 8
    BY SMT
  <2>4. /\ 5 \in Nat /\ 5 >= 1 /\ 5 + 1 <= Len(payload)
        /\ 7 \in Nat /\ 7 >= 1 /\ 7 + 1 <= Len(payload)
    BY <1>1, SMT
  <2>2. be16(U16(payload, 5)) = SubSeq(payload, 5, 5 + 1)
    BY <2>4, TwoBytes, payload \in Seq(Byte)
  <2>3. be16(U16(payload, 7)) = SubSeq(payload, 7, 7 + 1)
    BY <2>4, TwoBytes, payload \in Seq(Byte)
  <2> QED
    BY <2>1, <2>2, <2>3
<1>7. /\ SubSeq(payload, 1, 4) \o SubSeq(payload, 5, 6) = SubSeq(payload, 1, 6)
      /\ SubSeq(payload, 1, 6) \o SubSeq(payload, 7, 8) = payload
  <2>1. 4 + 1 = 5 /\ 6 + 1 = 7
    BY SMT
  <2>2. SubSeq(payload, 1, 4) \o SubSeq(payload, 4 + 1, 6) = SubSeq(payload, 1, 6)
    BY <1>1, NextPiece, payload \in Seq(Byte)
  <2>3. SubSeq(payload, 1, 6) \o SubSeq(payload, 6 + 1, 8) = SubSeq(payload, 1, 8)
    BY <1>1, NextPiece, payload \in Seq(Byte)
  <2>4. SubSeq(payload, 1, Len(payload)) = payload
    BY SubSeqFull, payload \in Seq(Byte)
  <2> QED
    BY <1>1, <2>1, <2>2, <2>3, <2>4
<1>8. HelloPayload(m) = <<V2_VERSION, payload[2], 0, 0>> \o be16(U16(payload, 5))
                            \o be16(U16(payload, 7))
  BY <1>2, <1>3 DEF HelloPayload
<1>9. HelloPayload(m) = (SubSeq(payload, 1, 4) \o SubSeq(payload, 5, 6)) \o SubSeq(payload, 7, 8)
  BY <1>5, <1>6, <1>8, Zenon
<1> QED
  BY <1>2, <1>7, <1>9, Zenon

LEMMA FrameIsEncoded ==
    ASSUME NEW payload, payload \in Seq(Byte), NEW m \in decode_frame(payload)
    PROVE  m.type = "Frame" /\ FramePayload(m) = payload
<1>. DEFINE P(first, last) == SubSeq(payload, first, last)
            pixels == SubSeq(payload, V2_FRAME_PREFIX_LEN + 1, Len(payload))
            frame == [type |-> "Frame", id |-> <<U32(payload, 1), U32(payload, 5)>>,
                      width |-> U16(payload, 9), height |-> U16(payload, 11),
                      format |-> PixelFormats[payload[13]], pixels |-> pixels]
<1>1. /\ Len(payload) >= 16 /\ payload[13] \in DOMAIN PixelFormats
      /\ FrameReserved(payload) /\ m = frame
  BY DEF decode_frame, V2_FRAME_PREFIX_LEN
<1>2. /\ m.type = "Frame" /\ m.id = <<U32(payload, 1), U32(payload, 5)>>
      /\ m.width = U16(payload, 9) /\ m.height = U16(payload, 11)
      /\ m.format = PixelFormats[payload[13]]
      /\ m.pixels = SubSeq(payload, 17, Len(payload))
  <2>1. V2_FRAME_PREFIX_LEN + 1 = 17
    BY SMT DEF V2_FRAME_PREFIX_LEN
  <2>. HIDE DEF pixels
  <2>2. /\ m.type = "Frame" /\ m.id = <<U32(payload, 1), U32(payload, 5)>>
        /\ m.width = U16(payload, 9) /\ m.height = U16(payload, 11)
        /\ m.format = PixelFormats[payload[13]] /\ m.pixels = pixels
    BY <1>1
  <2> QED
    BY <2>1, <2>2 DEF pixels
<1>3. m.id[1] = U32(payload, 1) /\ m.id[2] = U32(payload, 5)
  BY <1>2
<1>4. pixel_format_value(m.format) = payload[13]
  <2>1. DOMAIN PixelFormats = 1 .. 2 /\ PixelFormats[1] = "Mono1" /\ PixelFormats[2] = "Gray8"
    BY DEF PixelFormats
  <2>2. \A v \in 1 .. 2 : v = 1 \/ v = 2
    BY SMT
  <2>3. \A v \in DOMAIN PixelFormats : PixelFormats[v] = m.format => v = payload[13]
    BY <1>1, <1>2, <2>1, <2>2
  <2>4. \E v \in DOMAIN PixelFormats : PixelFormats[v] = m.format
    BY <1>1, <1>2
  <2> QED
    BY <2>3, <2>4 DEF pixel_format_value
<1>5. payload[14] = 0 /\ payload[15] = 0 /\ payload[16] = 0
  <2>1. 14 \in 14 .. 16 /\ 15 \in 14 .. 16 /\ 16 \in 14 .. 16
    BY SMT
  <2> QED
    BY <1>1, <2>1 DEF FrameReserved, AllZero
<1>6. /\ Len(payload) \in Nat
      /\ 1 >= 1 /\ 1 + 3 <= Len(payload) /\ 5 >= 1 /\ 5 + 3 <= Len(payload)
      /\ 9 >= 1 /\ 9 + 1 <= Len(payload) /\ 11 >= 1 /\ 11 + 1 <= Len(payload)
      /\ 13 >= 1 /\ 13 + 3 <= Len(payload)
      /\ 1 \in Nat /\ 5 \in Nat /\ 9 \in Nat /\ 11 \in Nat /\ 13 \in Nat
  BY <1>1, payload \in Seq(Byte)
<1>7. /\ 1 + 3 = 4 /\ 5 + 3 = 8 /\ 9 + 1 = 10 /\ 11 + 1 = 12 /\ 13 + 3 = 16
      /\ 13 + 1 = 14 /\ 13 + 2 = 15
      /\ 4 + 1 = 5 /\ 8 + 1 = 9 /\ 10 + 1 = 11 /\ 12 + 1 = 13 /\ 16 + 1 = 17
  BY SMT
<1>8. be32(m.id[1]) = P(1, 4) /\ be32(m.id[2]) = P(5, 8)
  <2>1. be32(U32(payload, 1)) = SubSeq(payload, 1, 1 + 3)
    BY <1>6, FourByteNumber, payload \in Seq(Byte)
  <2>2. be32(U32(payload, 5)) = SubSeq(payload, 5, 5 + 3)
    BY <1>6, FourByteNumber, payload \in Seq(Byte)
  <2> QED
    BY <1>3, <1>7, <2>1, <2>2
<1>9. be16(m.width) = P(9, 10) /\ be16(m.height) = P(11, 12)
  <2>1. be16(U16(payload, 9)) = SubSeq(payload, 9, 9 + 1)
    BY <1>6, TwoBytes, payload \in Seq(Byte)
  <2>2. be16(U16(payload, 11)) = SubSeq(payload, 11, 11 + 1)
    BY <1>6, TwoBytes, payload \in Seq(Byte)
  <2> QED
    BY <1>2, <1>7, <2>1, <2>2
<1>10. <<pixel_format_value(m.format), 0, 0, 0>> = P(13, 16)
  <2>1. SubSeq(payload, 13, 13 + 3)
            = <<payload[13], payload[13 + 1], payload[13 + 2], payload[13 + 3]>>
    BY <1>6, FourBytes, payload \in Seq(Byte)
  <2> QED
    BY <1>4, <1>5, <1>7, <2>1
<1>11. m.pixels = P(17, Len(payload))
  BY <1>2
<1>12. P(1, 4) \o P(5, 8) \o P(9, 10) \o P(11, 12) \o P(13, 16) \o P(17, Len(payload)) = payload
  <2>1. \A k, n \in Nat : k >= 1 /\ k <= n /\ n <= Len(payload)
                              => P(1, k) \o P(k + 1, n) = P(1, n)
    BY NextPiece, payload \in Seq(Byte)
  <2>2. P(1, Len(payload)) = payload
    BY SubSeqFull, payload \in Seq(Byte)
  <2>. HIDE DEF P
  <2>3. /\ P(1, 4) \o P(5, 8) = P(1, 8)
        /\ P(1, 8) \o P(9, 10) = P(1, 10)
        /\ P(1, 10) \o P(11, 12) = P(1, 12)
        /\ P(1, 12) \o P(13, 16) = P(1, 16)
        /\ P(1, 16) \o P(17, Len(payload)) = P(1, Len(payload))
    <3>1. /\ 4 \in Nat /\ 8 \in Nat /\ 10 \in Nat /\ 12 \in Nat /\ 16 \in Nat
          /\ 4 >= 1 /\ 8 >= 1 /\ 10 >= 1 /\ 12 >= 1 /\ 16 >= 1
          /\ 4 <= 8 /\ 8 <= 10 /\ 10 <= 12 /\ 12 <= 16 /\ 16 <= Len(payload)
          /\ 8 <= Len(payload) /\ 10 <= Len(payload) /\ 12 <= Len(payload)
          /\ Len(payload) <= Len(payload)
      BY <1>1, <1>6
    <3>2. /\ P(1, 4) \o P(4 + 1, 8) = P(1, 8)
          /\ P(1, 8) \o P(8 + 1, 10) = P(1, 10)
          /\ P(1, 10) \o P(10 + 1, 12) = P(1, 12)
          /\ P(1, 12) \o P(12 + 1, 16) = P(1, 16)
          /\ P(1, 16) \o P(16 + 1, Len(payload)) = P(1, Len(payload))
      BY <1>6, <2>1, <3>1, Zenon
    <3> QED
      BY <1>7, <3>2
  <2> QED
    BY <2>2, <2>3, Zenon
<1>13. FramePayload(m) = P(1, 4) \o P(5, 8) \o P(9, 10) \o P(11, 12) \o P(13, 16)
                             \o P(17, Len(payload))
  <2>. HIDE DEF P
  <2> QED
    BY <1>8, <1>9, <1>10, <1>11, Zenon DEF FramePayload
<1> QED
  BY <1>2, <1>12, <1>13

LEMMA PayloadIsEncoded ==
    ASSUME NEW type \in Types, NEW payload, payload \in Seq(Byte),
           NEW m \in decode_v2_payload(type, payload)
    PROVE  m.type = type /\ PayloadOf(m) = payload
<1>1. CASE type = "Hello"
  <2>1. m \in decode_hello(payload)
    BY <1>1 DEF decode_v2_payload
  <2>2. m.type = "Hello" /\ HelloPayload(m) = payload
    BY <2>1, HelloIsEncoded
  <2> QED
    BY <1>1, <2>2 DEF PayloadOf
<1>2. CASE type = "ViewportChanged"
  <2>1. m \in decode_viewport(payload)
    BY <1>2 DEF decode_v2_payload
  <2>. DEFINE viewport == [type |-> "ViewportChanged", width |-> U16(payload, 1),
                           height |-> U16(payload, 3)]
  <2>2. Len(payload) = 4 /\ m = viewport
    BY <2>1 DEF decode_viewport, require_exact_length, V2_VIEWPORT_PAYLOAD_LEN
  <2>3. m.type = type /\ m.width = U16(payload, 1) /\ m.height = U16(payload, 3)
    BY <1>2, <2>2
  <2>4. PayloadOf(m) = be16(U16(payload, 1)) \o be16(U16(payload, 3))
    BY <1>2, <2>3 DEF PayloadOf, ViewportPayload
  <2> QED
    BY <2>2, <2>3, <2>4, NumbersAreEncoded
<1>3. CASE type \in {"PointerDown", "PointerUp"}
  <2>1. m \in decode_pointer(type, payload)
    BY <1>3 DEF decode_v2_payload
  <2>. DEFINE pointer == [type |-> type, x |-> U16(payload, 1), y |-> U16(payload, 3)]
  <2>2. Len(payload) = 4 /\ m = pointer
    BY <2>1 DEF decode_pointer, require_exact_length, V2_POINTER_PAYLOAD_LEN
  <2>3. m.type = type /\ m.x = U16(payload, 1) /\ m.y = U16(payload, 3)
    BY <2>2
  <2>4. PayloadOf(m) = be16(U16(payload, 1)) \o be16(U16(payload, 3))
    BY <1>3, <2>3 DEF PayloadOf, PointerPayload
  <2> QED
    BY <2>2, <2>3, <2>4, NumbersAreEncoded
<1>4. CASE type = "Frame"
  <2>1. m \in decode_frame(payload)
    BY <1>4 DEF decode_v2_payload
  <2>2. m.type = "Frame" /\ FramePayload(m) = payload
    BY <2>1, FrameIsEncoded
  <2> QED
    BY <1>4, <2>2 DEF PayloadOf
<1> QED
  BY <1>1, <1>2, <1>3, <1>4 DEF Types

\* A message has one encoding: whatever bytes the decoders accept as a whole
\* message, of any version of the writer, are those that the encoder of this
\* version writes for it.
THEOREM AcceptedIsEncoded ==
    ASSUME NEW input, input \in Seq(Byte),
           decode_v2_message(input).result = "complete",
           decode_v2_message(input).consumed = Len(input),
           NEW m \in decode_v2_payload(decode_v2_message(input).type,
                                       decode_v2_message(input).payload)
    PROVE  Encode(m) = input
<1>. DEFINE type == decode_v2_message(input).type
            payload == decode_v2_message(input).payload
<1>1. type \in Types /\ payload \in Seq(Byte) /\ encode_v2_message(type, payload) = input
  BY MessageIsEncoded
<1>. HIDE DEF type, payload
<1>2. m \in decode_v2_payload(type, payload)
  BY DEF type, payload
<1>3. m.type = type /\ PayloadOf(m) = payload
  BY <1>1, <1>2, PayloadIsEncoded
<1> QED
  BY <1>1, <1>3 DEF Encode

-----------------------------------------------------------------------------
(* The first message.                                                      *)

LEMMA JoinAssociates == \A s, t, u \in Seq(Byte) : s \o (t \o u) = (s \o t) \o u
<1> TAKE s, t, u \in Seq(Byte)
<1> QED
  BY ConcatAssociative

\* Every set of formats is told by its mask.
LEMMA FormatsOfMask ==
    ASSUME NEW formats, formats \subseteq {"Mono1", "Gray8"}, formats # {}
    PROVE  /\ mask(formats) \in 1 .. 3
           /\ {f \in {"Mono1", "Gray8"} :
                  (mask(formats) \div pixel_format_mask(f)) % 2 = 1} = formats
<1>1. /\ (1 \div 1) % 2 = 1 /\ (1 \div 2) % 2 = 0
      /\ (2 \div 1) % 2 = 0 /\ (2 \div 2) % 2 = 1
      /\ (3 \div 1) % 2 = 1 /\ (3 \div 2) % 2 = 1
      /\ 1 + 0 = 1 /\ 0 + 2 = 2 /\ 1 + 2 = 3
  BY SMT
<1>2. pixel_format_mask("Mono1") = 1 /\ pixel_format_mask("Gray8") = 2
  BY DEF pixel_format_mask
<1>3. CASE formats = {"Mono1"}
  <2>1. mask(formats) = 1
    BY <1>1, <1>2, <1>3 DEF mask
  <2> QED
    BY <1>1, <1>2, <1>3, <2>1
<1>4. CASE formats = {"Gray8"}
  <2>1. mask(formats) = 2
    BY <1>1, <1>2, <1>4 DEF mask
  <2> QED
    BY <1>1, <1>2, <1>4, <2>1
<1>5. CASE formats = {"Mono1", "Gray8"}
  <2>1. mask(formats) = 3
    BY <1>1, <1>2, <1>5 DEF mask
  <2> QED
    BY <1>1, <1>2, <1>5, <2>1
<1> QED
  BY <1>3, <1>4, <1>5

\* The payload of a Hello, whatever the bytes of its sizes are.
LEMMA HelloIsDecoded ==
    ASSUME NEW formats, formats \subseteq {"Mono1", "Gray8"}, formats # {},
           NEW sizes \in Seq(Byte), Len(sizes) = 4
    PROVE  decode_hello(<<V2_VERSION, mask(formats), 0, 0>> \o sizes) =
               {[type |-> "Hello", width |-> U16(sizes, 1), height |-> U16(sizes, 3),
                 formats |-> formats]}
<1>. DEFINE bits == mask(formats)
            head == <<V2_VERSION, bits, 0, 0>>
            payload == head \o sizes
            read == {f \in {"Mono1", "Gray8"} : (bits \div pixel_format_mask(f)) % 2 = 1}
<1>1. bits \in 1 .. 3
  BY FormatsOfMask
<1>2. read = formats
  BY FormatsOfMask
<1>. HIDE DEF bits
<1>3. /\ head \in Seq(Byte) /\ Len(head) = 4
      /\ head[1] = V2_VERSION /\ head[2] = bits /\ head[3] = 0 /\ head[4] = 0
  <2>1. V2_VERSION \in Byte /\ bits \in Byte /\ 0 \in Byte
    BY <1>1, SMT DEF Byte, V2_VERSION
  <2> QED
    BY <2>1
<1>. HIDE DEF head
<1>4. /\ Len(payload) = Len(head) + Len(sizes)
      /\ \A i \in 1 .. Len(head) : payload[i] = head[i]
      /\ \A i \in 1 .. Len(sizes) : payload[Len(head) + i] = sizes[i]
  BY <1>3, Joined, Zenon
<1>. HIDE DEF payload
<1>5. /\ Len(payload) = 4 + 4
      /\ \A i \in 1 .. 4 : payload[i] = head[i]
      /\ \A i \in 1 .. 4 : payload[4 + i] = sizes[i]
  BY <1>3, <1>4
<1>6. /\ Len(payload) = 8 /\ payload[1] = V2_VERSION /\ payload[2] = bits
      /\ payload[3] = 0 /\ payload[4] = 0
      /\ payload[5] = sizes[1] /\ payload[6] = sizes[2]
      /\ payload[7] = sizes[3] /\ payload[8] = sizes[4]
  BY <1>3, <1>5, SMT
<1>7. U16(payload, 5) = U16(sizes, 1) /\ U16(payload, 7) = U16(sizes, 3)
  <2>1. 1 + 1 = 2 /\ 3 + 1 = 4 /\ 5 + 1 = 6 /\ 7 + 1 = 8
    BY SMT
  <2> QED
    BY <1>6, <2>1 DEF U16
<1>8. AllZero(payload, 3, 4)
  <2>1. \A i \in 3 .. 4 : i = 3 \/ i = 4
    BY SMT
  <2> QED
    BY <1>6, <2>1 DEF AllZero
<1>9. decode_hello(payload) =
          {[type |-> "Hello", width |-> U16(payload, 5), height |-> U16(payload, 7),
            formats |-> read]}
  BY <1>1, <1>6, <1>8 DEF decode_hello, require_exact_length, V2_HELLO_PAYLOAD_LEN
<1>. HIDE DEF read
<1> QED
  BY <1>2, <1>7, <1>9 DEF payload, head, bits

\* A message, encoded, decodes to that message and no other.
Arrives(message) == decode_v2_payload(message.type, PayloadOf(message)) = {message}

LEMMA HelloOfNumbers ==
    ASSUME NEW m, be16(m) \in Seq(Byte), NEW n, be16(n) \in Seq(Byte),
           NEW formats, formats \subseteq {"Mono1", "Gray8"}, formats # {},
           Len(be16(m) \o be16(n)) = 4,
           U16(be16(m) \o be16(n), 1) = m, U16(be16(m) \o be16(n), 3) = n
    PROVE  Arrives([type |-> "Hello", width |-> m, height |-> n, formats |-> formats])
<1>. DEFINE message == [type |-> "Hello", width |-> m, height |-> n, formats |-> formats]
            bits == mask(formats)
            head == <<V2_VERSION, bits, 0, 0>>
            sizes == be16(m) \o be16(n)
<1>1. /\ message.type = "Hello" /\ message.width = m /\ message.height = n
      /\ message.formats = formats
  OBVIOUS
<1>2. head \in Seq(Byte)
  <2>1. bits \in 1 .. 3
    BY FormatsOfMask
  <2>. HIDE DEF bits
  <2>2. V2_VERSION \in Byte /\ bits \in Byte /\ 0 \in Byte
    BY <2>1, SMT DEF Byte, V2_VERSION
  <2> QED
    BY <2>2
<1>3. sizes \in Seq(Byte)
  BY Joined
<1>4. PayloadOf(message) = head \o sizes
  <2>. HIDE DEF message
  <2>1. PayloadOf(message) = (head \o be16(m)) \o be16(n)
    BY <1>1 DEF PayloadOf, HelloPayload
  <2>. HIDE DEF head
  <2> QED
    BY <1>2, <2>1, JoinAssociates
<1>5. decode_hello(head \o sizes) = {message}
  <2>1. Len(sizes) = 4 /\ U16(sizes, 1) = m /\ U16(sizes, 3) = n
    OBVIOUS
  <2>. HIDE DEF sizes
  <2>2. decode_hello(head \o sizes) =
            {[type |-> "Hello", width |-> U16(sizes, 1), height |-> U16(sizes, 3),
              formats |-> formats]}
    BY <1>3, <2>1, HelloIsDecoded
  <2> QED
    BY <2>1, <2>2
<1>6. decode_v2_payload("Hello", head \o sizes) = decode_hello(head \o sizes)
  BY DEF decode_v2_payload
<1>. HIDE DEF message, head, sizes
<1>7. decode_v2_payload("Hello", PayloadOf(message)) = {message}
  BY <1>4, <1>5, <1>6
<1> QED
  BY <1>1, <1>7 DEF message, Arrives

\* A number of 16 bits.
Word == 0 .. 65535

LEMMA WordsAreNumbers == \A n \in Word : n \in Nat /\ n <= 65535
  BY SMT DEF Word

\* A Hello arrives as it was sent: every size of 16 bits and every choice of
\* formats, encoded, decodes to that message and no other.
THEOREM HellosArrive ==
    ASSUME NEW m \in Word, NEW n \in Word,
           NEW formats, formats \subseteq {"Mono1", "Gray8"}, formats # {}
    PROVE  Arrives([type |-> "Hello", width |-> m, height |-> n, formats |-> formats])
<1>1. be16(m) \in Seq(Byte) /\ be16(n) \in Seq(Byte)
  <2>1. m \div 256 \in Byte /\ m % 256 \in Byte /\ n \div 256 \in Byte /\ n % 256 \in Byte
    BY WordsAreNumbers, Be16, SMT
  <2> QED
    BY <2>1 DEF be16
<1>2. /\ Len(be16(m) \o be16(n)) = 4
      /\ U16(be16(m) \o be16(n), 1) = m /\ U16(be16(m) \o be16(n), 3) = n
  <2>1. m \in Nat /\ m <= 65535 /\ n \in Nat /\ n <= 65535
    BY WordsAreNumbers
  <2> QED
    BY <2>1, TwoNumbers, SMT
<1> QED
  BY <1>1, <1>2, HelloOfNumbers

-----------------------------------------------------------------------------
(* The encodings of a sequence of messages, by induction on its length.    *)

LEMMA Least ==
    ASSUME NEW S, S \subseteq Nat, S # {}
    PROVE  \E n \in S : \A k \in S : ~(k < n)
<1>. DEFINE R == OpToRel(<, Nat)
<1>1. IsWellFoundedOn(R, Nat)
  BY NatLessThanWellFounded
<1>2. \E n \in S : \A k \in S : ~(<<k, n>> \in R)
  <2>. HIDE DEF R
  <2> QED
    BY <1>1, WFMin
<1>3. \A k, n \in Nat : k < n => <<k, n>> \in R
  BY DEF OpToRel
<1> QED
  BY <1>2, <1>3

\* Induction over the natural numbers, for a set.
LEMMA Induct ==
    ASSUME NEW S, 0 \in S, \A n \in Nat : n \in S => n + 1 \in S
    PROVE  Nat \subseteq S
<1>. DEFINE T == {n \in Nat : n \notin S}
<1>1. CASE T # {}
  <2>1. T \subseteq Nat
    OBVIOUS
  <2>2. PICK n \in T : \A k \in T : ~(k < n)
    <3>. HIDE DEF T
    <3> QED
      BY <1>1, <2>1, Least
  <2>3. n # 0 /\ n \in Nat
    BY <2>2
  <2>4. n - 1 \in Nat /\ n - 1 < n /\ (n - 1) + 1 = n
    BY <2>3
  <2>5. n - 1 \in S
    BY <2>2, <2>4
  <2> QED
    BY <2>2, <2>4, <2>5
<1> QED
  BY <1>1

\* f is the recursive function of Encodings for the first n messages.
Joins(messages, n, f) ==
    f = [i \in 0 .. n |-> IF i = 0 THEN <<>> ELSE f[i - 1] \o Encode(messages[i])]

LEMMA JoinsExists == \A messages : \A n \in Nat : \E f : Joins(messages, n, f)
<1> TAKE messages
<1>. DEFINE S == {n \in Nat : \E f : Joins(messages, n, f)}
            E(i) == Encode(messages[i])
<1>. HIDE DEF E
<1>1. 0 \in S
  <2>. DEFINE f == [i \in 0 .. 0 |-> <<>>]
  <2>1. \A i \in 0 .. 0 : i = 0
    OBVIOUS
  <2>2. f = [i \in 0 .. 0 |-> IF i = 0 THEN <<>> ELSE f[i - 1] \o E(i)]
    BY <2>1
  <2> QED
    BY <2>2 DEF Joins, E
<1>2. ASSUME NEW n \in Nat, n \in S
      PROVE  n + 1 \in S
  <2>1. PICK f : Joins(messages, n, f)
    BY <1>2
  <2>. DEFINE g == [i \in 0 .. n + 1 |-> IF i = 0 THEN <<>> ELSE f[i - 1] \o E(i)]
  <2>2. \A i \in 0 .. n : g[i] = f[i]
    <3>1. \A i \in 0 .. n : f[i] = IF i = 0 THEN <<>> ELSE f[i - 1] \o E(i)
      BY <2>1 DEF Joins, E
    <3> QED
      BY <3>1
  <2>3. \A i \in 0 .. n + 1 : i # 0 => i - 1 \in 0 .. n
    OBVIOUS
  <2>4. \A i \in 0 .. n + 1 : i # 0 => g[i - 1] = f[i - 1]
    <3>. HIDE DEF g
    <3> QED
      BY <2>2, <2>3
  <2>5. [i \in 0 .. n + 1 |-> IF i = 0 THEN <<>> ELSE f[i - 1] \o E(i)]
            = [i \in 0 .. n + 1 |-> IF i = 0 THEN <<>> ELSE g[i - 1] \o E(i)]
    <3>. HIDE DEF g
    <3> QED
      BY <2>4
  <2>6. Joins(messages, n + 1, g)
    BY <2>5 DEF Joins, E
  <2>. HIDE DEF g
  <2> QED
    BY <2>6
<1>. HIDE DEF S
<1>3. Nat \subseteq S
  BY <1>1, <1>2, Induct
<1> QED
  BY <1>3 DEF S

LEMMA JoinsUnique ==
    ASSUME NEW messages, NEW n \in Nat, NEW f, NEW g,
           Joins(messages, n, f), Joins(messages, n, g)
    PROVE  f = g
<1>. DEFINE S == {i \in Nat : i \in 0 .. n => f[i] = g[i]}
            E(i) == Encode(messages[i])
<1>. HIDE DEF E
<1>1. \A i \in 0 .. n : /\ f[i] = IF i = 0 THEN <<>> ELSE f[i - 1] \o E(i)
                        /\ g[i] = IF i = 0 THEN <<>> ELSE g[i - 1] \o E(i)
  BY DEF Joins, E
<1>2. 0 \in S
  BY <1>1
<1>3. ASSUME NEW i \in Nat, i \in S
      PROVE  i + 1 \in S
  <2> SUFFICES ASSUME i + 1 \in 0 .. n
               PROVE  f[i + 1] = g[i + 1]
    OBVIOUS
  <2>1. i \in 0 .. n /\ i + 1 # 0 /\ (i + 1) - 1 = i
    OBVIOUS
  <2>2. f[i] = g[i]
    BY <1>3, <2>1
  <2>3. /\ f[i + 1] = f[(i + 1) - 1] \o E(i + 1)
        /\ g[i + 1] = g[(i + 1) - 1] \o E(i + 1)
    BY <1>1, <2>1
  <2> QED
    BY <2>1, <2>2, <2>3
<1>4. Nat \subseteq S
  <2>. HIDE DEF S
  <2> QED
    BY <1>2, <1>3, Induct
<1>5. \A i \in 0 .. n : f[i] = g[i]
  BY <1>4
<1>6. /\ f = [i \in 0 .. n |-> f[i]]
      /\ g = [i \in 0 .. n |-> g[i]]
  BY DEF Joins
<1> QED
  BY <1>5, <1>6

LEMMA EncodingsIs ==
    ASSUME NEW messages, Len(messages) \in Nat, NEW f, Joins(messages, Len(messages), f)
    PROVE  Encodings(messages) = f[Len(messages)]
<1>. DEFINE g == CHOOSE g : Joins(messages, Len(messages), g)
<1>1. Encodings(messages) = g[Len(messages)]
  BY DEF Encodings, Joins
<1>2. Joins(messages, Len(messages), g)
  OBVIOUS
<1>. HIDE DEF g
<1>3. g = f
  BY <1>2, JoinsUnique
<1> QED
  BY <1>1, <1>3

LEMMA EncodingsEmpty == Encodings(<<>>) = <<>>
<1>1. Len(<<>>) = 0 /\ 0 \in Nat
  OBVIOUS
<1>2. PICK f : Joins(<<>>, 0, f)
  BY <1>1, JoinsExists, Zenon
<1>3. Encodings(<<>>) = f[0]
  BY <1>1, <1>2, EncodingsIs
<1>4. f[0] = <<>>
  BY <1>2 DEF Joins
<1> QED
  BY <1>3, <1>4

\* Another message handed on: its encoding follows those of the others.
LEMMA EncodingsAppend ==
    ASSUME NEW S, NEW messages \in Seq(S), NEW m \in S
    PROVE  Encodings(Append(messages, m)) = Encodings(messages) \o Encode(m)
<1>. DEFINE n == Len(messages)
            t == Append(messages, m)
<1>1. /\ n \in Nat /\ Len(t) = n + 1 /\ t[n + 1] = m /\ \A i \in 1 .. n : t[i] = messages[i]
  OBVIOUS
<1>. HIDE DEF t
<1>2. PICK g : Joins(t, n + 1, g)
  <2>1. n + 1 \in Nat
    BY <1>1
  <2> QED
    BY <2>1, JoinsExists, Zenon
<1>3. Encodings(t) = g[n + 1]
  <2>. HIDE DEF n
  <2> QED
    BY <1>1, <1>2, EncodingsIs
<1>4. \A i \in 0 .. n + 1 : g[i] = IF i = 0 THEN <<>> ELSE g[i - 1] \o Encode(t[i])
  BY <1>2 DEF Joins
<1>. DEFINE f == [i \in 0 .. n |-> g[i]]
<1>5. Joins(messages, n, f)
  <2>1. \A i \in 0 .. n : f[i] = g[i]
    OBVIOUS
  <2>2. \A i \in 0 .. n : i # 0 => i - 1 \in 0 .. n /\ i \in 1 .. n
    BY <1>1
  <2>3. \A i \in 0 .. n : g[i] = IF i = 0 THEN <<>> ELSE f[i - 1] \o Encode(messages[i])
    <3>. HIDE DEF f, n
    <3> QED
      BY <1>1, <1>4, <2>1, <2>2
  <2>4. [i \in 0 .. n |-> g[i]]
            = [i \in 0 .. n |-> IF i = 0 THEN <<>> ELSE f[i - 1] \o Encode(messages[i])]
    <3>. HIDE DEF f, n
    <3> QED
      BY <2>3
  <2> QED
    BY <2>4 DEF Joins
<1>6. f[n] = g[n]
  BY <1>1
<1>. HIDE DEF f
<1>7. Encodings(messages) = f[n]
  BY <1>1, <1>5, EncodingsIs
<1>8. g[n + 1] = g[n] \o Encode(m)
  <2>1. n + 1 \in 0 .. n + 1 /\ n + 1 # 0 /\ (n + 1) - 1 = n
    BY <1>1
  <2> QED
    BY <1>1, <1>4, <2>1
<1> QED
  BY <1>3, <1>6, <1>7, <1>8 DEF t
-----------------------------------------------------------------------------
(* The deadlines of NowPlaying.                                            *)

Overall == INITIAL_SNAPSHOT_TIMEOUT + ARTWORK_GRACE_PERIOD

\* The ticks in which the helper polled, clock - slow, are within its own
\* deadlines, as age knows them.
TimeInv ==
    /\ clock \in Nat /\ slow \in Nat /\ age \in Nat
    /\ artwork_deadline \in 0 .. Overall \cup {Never}
    /\ clock - slow <= Overall
    /\ loader = "start" => helper = "none"
    /\ helper \in {"none", "starting"} => clock <= slow /\ ~polled
    /\ helper = "polling" => clock - slow <= age
    /\ helper = "polling" /\ polled => age < Overall
    /\ loader \in {"idle", "start", "spawned", "waiting"} => response = "none"
    /\ loader \in {"idle", "start", "spawned"} => clock = 0 /\ slow = 0
    /\ PollingBeatsDeadline

-----------------------------------------------------------------------------
(* The response of the helper.                                             *)

\* What it has still to write, and what it has written of a response.
Answering(status, payload, left, done) ==
    LET length == be32(Len(payload))
    IN  \/ /\ left = <<HELPER_MAGIC, <<status>>, length, payload>>
           /\ done = <<>>
        \/ /\ left = <<<<status>>, length, payload>>
           /\ done = HELPER_MAGIC
        \/ /\ left = <<length, payload>>
           /\ done = HELPER_MAGIC \o <<status>>
        \/ /\ left = <<payload>>
           /\ done = HELPER_MAGIC \o <<status>> \o length
        \/ /\ left = <<>>
           /\ done = HELPER_MAGIC \o <<status>> \o length \o payload

\* The bytes of the helper are those of one response, and a response of
\* status 0 holds the picture it rendered.
HelperBytes ==
    reader = "helper" =>
        /\ encoded \in Seq(Nat) /\ stream \in Seq(Nat) /\ rendered \in Seq(Nat)
        /\ helper \in {"none", "starting", "polling", "rendering"}
              => out = <<>> /\ encoded = <<>> /\ stream = <<>>
        /\ helper = "writing" => out # <<>>
        /\ \/ out = <<>> /\ encoded = <<>> /\ stream = <<>>
           \/ \E payload \in Seq(Nat) :
                 \/ Answering(1, payload, out, encoded \o stream)
                 \/ /\ Answering(0, payload, out, encoded \o stream)
                    /\ payload = rendered /\ Len(payload) = ExpectedPixels

\* A frame is an answer that was read whole, and a group that was found gone
\* stays gone.
Cleanup ==
    /\ loader # "idle" => reader = "helper"
    /\ loader \in {"start", "spawned"} => phase = "idle"
    /\ loader = "start" => helper = "none"
    /\ loader \in {"idle", "start", "spawned", "waiting"} => response = "none"
    /\ loader \in {"idle", "start", "spawned", "waiting", "term", "grace", "check", "kill",
                   "wait", "rest", "gone"} => cleanup \in {"none", "failed"}
    /\ cleanup = "ok" => ~GroupExists
    /\ response = "frame" => phase = "done" /\ encoded[5] = 0
    /\ result = "frame" =>
          /\ loader = "returned" /\ cleanup = "ok" /\ response = "frame"
          /\ Len(Pixels) = ExpectedPixels
LEMMA TimeInit == Init => TimeInv
<1> SUFFICES ASSUME Init
             PROVE  TimeInv
  OBVIOUS
<1>1. Overall \in Nat
  BY NowPlayingAssumption DEF Overall
<1>2. /\ clock = 0 /\ slow = 0 /\ age = 0 /\ artwork_deadline = Never /\ ~polled
      /\ helper = "none" /\ response = "none"
  BY DEF Init
<1> QED
  BY <1>1, <1>2 DEF TimeInv, PollingBeatsDeadline

\* A poll that finds nothing ready leaves less than the whole deadline.
LEMMA TimePoll ==
    ASSUME TimeInv, NEW candidate \in {"none", "bare", "artwork"}, Poll(candidate)
    PROVE  TimeInv'
<1>. DEFINE deadline == IF candidate = "bare" THEN ArtworkDeadline ELSE artwork_deadline
<1>. USE NowPlayingAssumption
<1>1. /\ INITIAL_SNAPSHOT_TIMEOUT \in Nat /\ ARTWORK_GRACE_PERIOD \in Nat
      /\ Overall \in Nat
  BY DEF Overall
<1>2. deadline \in 0 .. Overall \cup {Never}
  BY <1>1 DEF TimeInv, ArtworkDeadline, Overall, Never
<1>3. /\ clock' = clock /\ slow' = slow /\ loader' = loader /\ response' = response
      /\ helper = "polling"
  BY DEF Poll, loaderVars, timeVars
<1>4. \/ helper' \in {"rendering", "writing"} /\ polled' = FALSE /\ artwork_deadline' = Never
         /\ age' = 0
      \/ /\ helper' = helper /\ polled' = TRUE /\ artwork_deadline' = deadline /\ age' = age
         /\ \/ deadline # Never /\ ~(age >= deadline)
            \/ deadline = Never /\ ~(age >= INITIAL_SNAPSHOT_TIMEOUT)
  BY DEF Poll, Respond, EndPolling
<1>. HIDE DEF deadline
<1>5. CASE helper' \in {"rendering", "writing"} /\ polled' = FALSE /\ artwork_deadline' = Never
           /\ age' = 0
  BY <1>1, <1>3, <1>5 DEF TimeInv, PollingBeatsDeadline
<1>6. CASE /\ helper' = helper /\ polled' = TRUE /\ artwork_deadline' = deadline /\ age' = age
           /\ \/ deadline # Never /\ ~(age >= deadline)
              \/ deadline = Never /\ ~(age >= INITIAL_SNAPSHOT_TIMEOUT)
  <2>1. age < Overall
    BY <1>1, <1>2, <1>6 DEF Overall, TimeInv, Never
  <2> QED
    BY <1>1, <1>2, <1>3, <1>6, <2>1 DEF TimeInv, PollingBeatsDeadline
<1> QED
  BY <1>4, <1>5, <1>6

LEMMA TimeTick ==
    ASSUME TimeInv, Tick
    PROVE  TimeInv'
<1>. USE NowPlayingAssumption
<1>1. Overall \in Nat /\ HELPER_RESPONSE_TIMEOUT \in Nat
  BY DEF Overall
<1>2. /\ clock' = clock + 1 /\ ~polled' /\ helper' = helper
      /\ age' = (IF helper = "polling" THEN age + 1 ELSE age)
      /\ slow' = (IF helper = "polling" /\ polled THEN slow ELSE slow + 1)
      /\ artwork_deadline' = artwork_deadline /\ loader' = loader /\ response' = response
      /\ loader = "waiting"
  BY DEF Tick, loaderVars
<1>3. /\ response = "none" /\ clock \in Nat /\ slow \in Nat /\ age \in Nat
      /\ clock - slow <= Overall
      /\ helper \in {"none", "starting"} => clock <= slow
      /\ helper = "polling" => clock - slow <= age
      /\ artwork_deadline \in 0 .. Overall \cup {Never}
  BY <1>2 DEF TimeInv
<1>4. CASE helper = "polling" /\ polled
  <2>1. age' = age + 1 /\ slow' = slow
    BY <1>2, <1>4, Zenon
  <2>2. age < Overall
    BY <1>4 DEF TimeInv
  <2> QED
    BY <1>1, <1>2, <1>3, <1>4, <2>1, <2>2 DEF TimeInv, PollingBeatsDeadline
<1>5. CASE ~(helper = "polling" /\ polled)
  <2>1. slow' = slow + 1 /\ (age' = age + 1 \/ (age' = age /\ helper # "polling"))
    BY <1>2, <1>5, Zenon
  <2> QED
    BY <1>1, <1>2, <1>3, <2>1 DEF TimeInv, PollingBeatsDeadline
<1> QED
  BY <1>4, <1>5

LEMMA TimeLoader ==
    ASSUME TimeInv, Loader
    PROVE  TimeInv'
<1>. USE NowPlayingAssumption
<1>. USE DEF TimeInv, PollingBeatsDeadline, Goto, snapshotVars, helperVars, timeVars, LoaderRest
<1>1. Overall \in Nat /\ HELPER_RESPONSE_TIMEOUT \in Nat
  BY DEF Overall
<1>2. CASE SpawnHelper
  BY <1>1, <1>2 DEF SpawnHelper
<1>3. CASE SpawnReader
  BY <1>1, <1>3 DEF SpawnReader
<1>4. CASE Receive
  BY <1>1, <1>4 DEF Receive, Answer
<1>5. CASE TimedOut
  BY <1>1, <1>5 DEF TimedOut, Overall
<1>6. CASE SendTerm \/ SendKill \/ SendKillToRest
  BY <1>1, <1>6 DEF SendTerm, SendKill, SendKillToRest, SignalGroup
<1>7. CASE Reap
  BY <1>1, <1>7 DEF Reap
<1>8. CASE GraceElapses \/ CheckGroup \/ GroupGone \/ JoinReader
  BY <1>1, <1>8 DEF GraceElapses, CheckGroup, GroupGone, JoinReader
<1> QED
  BY <1>2, <1>3, <1>4, <1>5, <1>6, <1>7, <1>8 DEF Loader

LEMMA TimeNext == TimeInv /\ [Next]_vars => TimeInv'
<1> SUFFICES ASSUME TimeInv, [Next]_vars
             PROVE  TimeInv'
  OBVIOUS
<1>1. Overall \in Nat /\ HELPER_RESPONSE_TIMEOUT \in Nat
  BY NowPlayingAssumption DEF Overall
<1>. DEFINE Rest == UNCHANGED <<clock, slow, age, artwork_deadline, polled, loader, response>>
<1>2. ASSUME Rest,
             \/ helper' = helper
             \/ helper # "none" /\ helper' \notin {"none", "starting", "polling"}
      PROVE  TimeInv'
  BY <1>1, <1>2 DEF TimeInv, PollingBeatsDeadline
<1>3. CASE NowPlayingUnchanged \/ HelperReader \/ UNCHANGED vars
  BY <1>2, <1>3 DEF NowPlayingUnchanged, HelperReader, DecodeHelperHeader, HelperPayloadRead,
       vars, loaderVars, helperVars, snapshotVars, timeVars
<1>4. CASE ProviderFails \/ Render \/ WritePiece
  BY <1>2, <1>4 DEF ProviderFails, Render, WritePiece, Respond, loaderVars, snapshotVars, timeVars
<1>5. CASE HelperDies \/ AdapterDies
  BY <1>2, <1>5 DEF HelperDies, Alive, AdapterDies, loaderVars, helperVars, snapshotVars, timeVars
<1>6. CASE StartProvider
  <2>1. /\ helper = "starting" /\ helper' = "polling"
        /\ clock' = clock /\ slow' = slow /\ age' = age /\ polled' = polled
        /\ artwork_deadline' = artwork_deadline /\ loader' = loader /\ response' = response
    BY <1>6 DEF StartProvider, loaderVars, snapshotVars, timeVars
  <2>2. ~polled
    BY <2>1 DEF TimeInv
  <2> QED
    BY <1>1, <2>1, <2>2 DEF TimeInv, PollingBeatsDeadline
<1> QED
  BY <1>3, <1>4, <1>5, <1>6, TimePoll, TimeTick, TimeLoader DEF Next, Helper

\* PaperSpoon gives up on the helper only when what is not polling took the
\* rest of its time, for every choice of the deadlines that leaves a rest.
THEOREM PollingKeepsItsDeadline == Spec => []PollingBeatsDeadline
<1>1. TimeInv => PollingBeatsDeadline
  BY DEF TimeInv
<1> QED
  BY <1>1, TimeInit, TimeNext, PTL DEF Spec

-----------------------------------------------------------------------------
(* A frame is returned when nothing of the group is left.                  *)

LEMMA CleanupInit == Init => Cleanup
  BY DEF Init, StreamInit, Sockets, Cleanup

\* What the helper and its adapter do without the loader: no process of a
\* group that is gone starts another.
LEMMA CleanupHelper ==
    ASSUME Cleanup, loader' = loader, response' = response, cleanup' = cleanup,
           result' = result, reader' = reader, phase' = phase, encoded' = encoded,
           loader = "start" => helper' = helper,
           ~GroupExists => ~GroupExists'
    PROVE  Cleanup'
  BY DEF Cleanup, Pixels, Suffix

LEMMA CleanupNext == Cleanup /\ [Next]_vars => Cleanup'
<1> SUFFICES ASSUME Cleanup, [Next]_vars
             PROVE  Cleanup'
  OBVIOUS
<1>1. CASE UNCHANGED vars
  BY <1>1, CleanupHelper DEF vars, streamVars, loaderVars, helperVars, groupVars, GroupExists,
     Alive
<1>2. CASE (Writer \/ SocketReader \/ ReadStep) /\ NowPlayingUnchanged
  <2>1. /\ loader' = loader /\ response' = response /\ cleanup' = cleanup /\ result' = result
        /\ helper' = helper /\ adapter' = adapter
    BY <1>2 DEF NowPlayingUnchanged, loaderVars, helperVars, groupVars
  <2>2. reader' = reader
    BY <1>2 DEF Writer, Write, WriteBreaksOff, WriteForeign, Put, Close, SocketReader, Begin,
       DecodeHeader, DecodeMessage, ReadStep, ReadSome, UnexpectedEof
  <2>3. ~GroupExists => ~GroupExists'
    BY <2>1 DEF GroupExists, Alive
  <2>4. CASE Writer
    <3>1. phase' = phase /\ encoded' = encoded
      BY <2>4 DEF Writer, Write, WriteBreaksOff, WriteForeign, Put, Close
    <3> QED
      BY <2>1, <2>2, <2>3, <3>1, CleanupHelper
  <2>5. CASE SocketReader
    <3>1. loader = "idle"
      BY <2>5 DEF SocketReader, Begin, DecodeHeader, DecodeMessage, Sockets, Cleanup
    <3> QED
      BY <2>1, <2>2, <3>1 DEF Cleanup
  <2>6. CASE ReadStep
    <3>1. phase # "done" /\ phase # "idle"
      BY <2>6 DEF ReadStep, ReadSome, UnexpectedEof
    <3> QED
      BY <2>1, <2>2, <2>3, <3>1 DEF Cleanup
  <2> QED
    BY <1>2, <2>4, <2>5, <2>6
<1>3. CASE Helper \/ HelperDies \/ AdapterDies
  <2>1. /\ loader' = loader /\ response' = response /\ cleanup' = cleanup /\ result' = result
        /\ reader' = reader /\ phase' = phase /\ encoded' = encoded
    BY <1>3 DEF Helper, HelperDies, AdapterDies, StartProvider, ProviderFails, Poll, Render,
       WritePiece, streamVars, loaderVars
  <2>2. Alive \/ adapter = "running"
    BY <1>3 DEF Helper, HelperDies, AdapterDies, StartProvider, ProviderFails, Poll, Render,
       WritePiece, Running
  <2>3. GroupExists
    BY <2>2 DEF GroupExists
  <2>4. loader = "start" => helper' = helper
    BY <1>3 DEF Cleanup, Helper, HelperDies, AdapterDies, StartProvider, ProviderFails, Poll,
       Render, WritePiece, Running, Alive, helperVars
  <2> QED
    BY <2>1, <2>3, <2>4, CleanupHelper
<1>4. CASE HelperReader
  <2>1. /\ loader' = loader /\ response' = response /\ cleanup' = cleanup /\ result' = result
        /\ helper' = helper /\ adapter' = adapter /\ reader' = reader
        /\ phase \in {"header", "payload"}
    BY <1>4 DEF HelperReader, DecodeHelperHeader, HelperPayloadRead, loaderVars, helperVars,
       groupVars
  <2>2. ~GroupExists => ~GroupExists'
    BY <2>1 DEF GroupExists, Alive
  <2> QED
    BY <2>1, <2>2 DEF Cleanup
<1>5. CASE Tick
  <2>1. ~GroupExists => ~GroupExists'
    BY <1>5 DEF Tick, groupVars, GroupExists, Alive
  <2> QED
    BY <1>5, <2>1, CleanupHelper DEF Tick, loaderVars, streamVars
<1>6. CASE SpawnHelper
  <2>1. /\ loader = "start" /\ loader' \in {"spawned", "returned"}
        /\ response' = response /\ cleanup' = cleanup /\ reader' = reader /\ phase' = phase
        /\ result' # "frame" /\ cleanup # "ok" /\ response = "none"
    BY <1>6 DEF SpawnHelper, Goto, streamVars, Cleanup
  <2> QED
    BY <2>1 DEF Cleanup
<1>7. CASE SpawnReader
  <2>1. /\ loader = "spawned" /\ loader' \in {"waiting", "term"}
        /\ response' = response /\ cleanup' = cleanup /\ reader' = reader
        /\ result' = result /\ result # "frame" /\ cleanup # "ok" /\ response = "none"
    BY <1>7 DEF SpawnReader, Goto, Cleanup
  <2> QED
    BY <2>1 DEF Cleanup
<1>8. CASE Receive \/ TimedOut
  <2>1. /\ loader = "waiting" /\ loader' = "term"
        /\ cleanup' = cleanup /\ reader' = reader /\ result' = result
        /\ result # "frame" /\ cleanup # "ok"
    BY <1>8 DEF Receive, TimedOut, Goto, Cleanup, streamVars
  <2>2. response' = "frame" => phase' = "done" /\ encoded'[5] = 0
    BY <1>8 DEF Receive, TimedOut, Answer, streamVars
  <2> QED
    BY <2>1, <2>2 DEF Cleanup
<1>9. CASE SendTerm \/ SendKill \/ SendKillToRest \/ GraceElapses \/ CheckGroup
  <2>1. /\ loader \in {"term", "kill", "rest", "grace", "check"}
        /\ loader' \in {"grace", "wait", "gone", "join", "kill", "rest"}
        /\ cleanup' \in {cleanup, "failed"}
        /\ reader' = reader /\ result' = result /\ response' = response
        /\ phase' = phase /\ encoded' = encoded
        /\ result # "frame" /\ cleanup # "ok"
    BY <1>9 DEF SendTerm, SendKill, SendKillToRest, SignalGroup, GraceElapses, CheckGroup, Goto,
       LoaderRest, streamVars, Cleanup
  <2> QED
    BY <2>1 DEF Cleanup
<1>10. CASE Reap
  <2>1. /\ loader \in {"grace", "wait"} /\ loader' = "check" /\ cleanup' = cleanup
        /\ reader' = reader /\ result' = result /\ response' = response
        /\ phase' = phase /\ encoded' = encoded
        /\ result # "frame" /\ cleanup # "ok"
    BY <1>10 DEF Reap, Goto, streamVars, Cleanup
  <2> QED
    BY <2>1 DEF Cleanup
<1>11. CASE GroupGone
  <2>1. /\ loader = "gone" /\ loader' = "join"
        /\ reader' = reader /\ result' = result /\ response' = response
        /\ phase' = phase /\ encoded' = encoded
        /\ result # "frame"
        /\ cleanup' = "ok" => ~GroupExists
        /\ helper' = helper /\ adapter' = adapter
    BY <1>11 DEF GroupGone, Goto, LoaderRest, streamVars, Cleanup, helperVars, groupVars
  <2>2. cleanup' = "ok" => ~GroupExists'
    BY <2>1 DEF GroupExists, Alive
  <2> QED
    BY <2>1, <2>2 DEF Cleanup
<1>12. CASE JoinReader
  <2>1. /\ loader = "join" /\ loader' = "returned" /\ cleanup' = cleanup
        /\ reader' = reader /\ response' = response
        /\ phase' = phase /\ encoded' = encoded
        /\ helper' = helper /\ adapter' = adapter
    BY <1>12 DEF JoinReader, Goto, streamVars, helperVars, groupVars
  <2>2. result' = "frame" => cleanup = "ok" /\ response = "frame" /\ Len(Pixels) = ExpectedPixels
    BY <1>12 DEF JoinReader
  <2>3. Pixels' = Pixels /\ GroupExists' = GroupExists
    BY <2>1 DEF Pixels, Suffix, GroupExists, Alive
  <2> QED
    BY <2>1, <2>2, <2>3 DEF Cleanup
<1> QED
  BY <1>1, <1>2, <1>3, <1>4, <1>5, <1>6, <1>7, <1>8, <1>9, <1>10, <1>11, <1>12 DEF Next, Loader
LEMMA HelperConstants ==
    /\ HELPER_MAGIC \in Seq(Nat) /\ Len(HELPER_MAGIC) = 4
    /\ ErrorText \in Seq(Nat)
    /\ \A candidate : /\ Picture(candidate) \in Seq(Nat)
                      /\ Len(Picture(candidate)) = ExpectedPixels
    /\ \A n \in Nat : be32(n) \in Seq(Nat) /\ Len(be32(n)) = 4
    /\ \A n \in Nat : <<n>> \in Seq(Nat) /\ Len(<<n>>) = 1
<1>1. HELPER_MAGIC \in Seq(Nat) /\ Len(HELPER_MAGIC) = 4
  BY DEF HELPER_MAGIC
<1>2. ErrorText \in Seq(Nat)
  BY DEF ErrorText
<1>3. ASSUME NEW candidate
      PROVE  /\ Picture(candidate) \in Seq(Nat)
             /\ Len(Picture(candidate)) = ExpectedPixels
  <2>1. ExpectedPixels \in Nat
    BY NowPlayingAssumption
  <2>2. \A i \in 1 .. ExpectedPixels :
            (IF candidate = "artwork" THEN 200 + i ELSE 10 + i) \in Nat
    BY <2>1
  <2> QED
    BY <2>1, <2>2 DEF Picture
<1>4. ASSUME NEW n \in Nat
      PROVE  be32(n) \in Seq(Nat) /\ Len(be32(n)) = 4
  <2>1. /\ n \div (256 * 256 * 256) \in Nat /\ (n \div (256 * 256)) % 256 \in Nat
        /\ (n \div 256) % 256 \in Nat /\ n % 256 \in Nat
    BY SMT
  <2> QED
    BY <2>1 DEF be32
<1>5. \A n \in Nat : <<n>> \in Seq(Nat) /\ Len(<<n>>) = 1
  OBVIOUS
<1> QED
  BY <1>1, <1>2, <1>3, <1>4, <1>5

LEMMA SplitSeq ==
    ASSUME NEW S, NEW s \in Seq(S), NEW n \in 1 .. Len(s)
    PROVE  /\ Prefix(s, n) \in Seq(S) /\ Suffix(s, n) \in Seq(S)
           /\ Prefix(s, n) \o Suffix(s, n) = s
<1>1. /\ Len(s) \in Nat /\ n \in Int /\ 1 \in Int /\ n + 1 \in Int
      /\ \A i \in 1 .. n : s[i] \in S
      /\ \A i \in n + 1 .. Len(s) : s[i] \in S
  OBVIOUS
<1>2. Prefix(s, n) \in Seq(S) /\ Suffix(s, n) \in Seq(S)
  BY <1>1, SubSeqProperties DEF Prefix, Suffix
<1>3. Prefix(s, n) \o Suffix(s, n) = SubSeq(s, 1, Len(s))
  BY <1>1, ConcatAdjacentSubSeq DEF Prefix, Suffix
<1>4. SubSeq(s, 1, Len(s)) = s
  BY SubSeqFull
<1> QED
  BY <1>2, <1>3, <1>4

LEMMA Associative ==
    \A s, t, u \in Seq(Nat) : s \o (t \o u) = (s \o t) \o u /\ t \o u \in Seq(Nat)
<1> TAKE s, t, u \in Seq(Nat)
<1>1. s \o (t \o u) = (s \o t) \o u
  BY ConcatAssociative, SMTT(60)
<1>2. t \o u \in Seq(Nat)
  BY ConcatProperties
<1> QED
  BY <1>1, <1>2

\* read_exact takes bytes from the front of the stream to the end of the buffer.
LEMMA ReadKeepsBytes ==
    \A e, s \in Seq(Nat) : \A n \in 1 .. Len(s) :
        /\ e \o Prefix(s, n) \in Seq(Nat) /\ Suffix(s, n) \in Seq(Nat)
        /\ (e \o Prefix(s, n)) \o Suffix(s, n) = e \o s
<1>1. ASSUME NEW e, e \in Seq(Nat), NEW s, s \in Seq(Nat), NEW n, n \in 1 .. Len(s)
      PROVE  /\ e \o Prefix(s, n) \in Seq(Nat) /\ Suffix(s, n) \in Seq(Nat)
             /\ (e \o Prefix(s, n)) \o Suffix(s, n) = e \o s
  <2>. DEFINE p == Prefix(s, n)
              q == Suffix(s, n)
  <2>1. p \in Seq(Nat) /\ q \in Seq(Nat)
    BY <1>1, SplitSeq
  <2>2. p \o q = s
    BY <1>1, SplitSeq
  <2>. HIDE DEF p, q
  <2>3. /\ e \o p \in Seq(Nat)
        /\ (e \o p) \o q = e \o (p \o q)
    BY <1>1, <2>1, Associative, Zenon
  <2> QED
    BY <2>1, <2>2, <2>3 DEF p, q
<1> QED
  BY <1>1

LEMMA PieceWritten ==
    ASSUME NEW status, NEW payload, NEW left, NEW done,
           Answering(status, payload, left, done), left # <<>>
    PROVE  Answering(status, payload, Tail(left), done \o Head(left))
<1>. DEFINE length == be32(Len(payload))
<1>1. <<>> \o HELPER_MAGIC = HELPER_MAGIC
  BY HelperConstants, ConcatEmptySeq
<1>. DEFINE code == <<status>>
<1>. HIDE DEF length, code
<1>2. ASSUME NEW a, NEW b, NEW c, NEW d
      PROVE  Head(<<a, b, c, d>>) = a /\ Tail(<<a, b, c, d>>) = <<b, c, d>>
  OBVIOUS
<1>3. ASSUME NEW a, NEW b, NEW c
      PROVE  Head(<<a, b, c>>) = a /\ Tail(<<a, b, c>>) = <<b, c>>
  OBVIOUS
<1>4. ASSUME NEW a, NEW b
      PROVE  Head(<<a, b>>) = a /\ Tail(<<a, b>>) = <<b>> /\ Head(<<b>>) = b /\ Tail(<<b>>) = <<>>
  OBVIOUS
<1>. DEFINE next == Tail(left)
            more == done \o Head(left)
<1>5. CASE left = <<HELPER_MAGIC, code, length, payload>> /\ done = <<>>
  <2>1. next = <<code, length, payload>> /\ more = HELPER_MAGIC
    BY <1>1, <1>2, <1>5
  <2>. HIDE DEF next, more
  <2>2. Answering(status, payload, next, more)
    BY <2>1 DEF Answering, length, code
  <2> QED
    BY <2>2 DEF next, more
<1>6. CASE left = <<code, length, payload>> /\ done = HELPER_MAGIC
  <2>1. next = <<length, payload>> /\ more = HELPER_MAGIC \o code
    BY <1>3, <1>6
  <2>. HIDE DEF next, more
  <2>2. Answering(status, payload, next, more)
    BY <2>1 DEF Answering, length, code
  <2> QED
    BY <2>2 DEF next, more
<1>7. CASE left = <<length, payload>> /\ done = HELPER_MAGIC \o code
  <2>1. next = <<payload>> /\ more = HELPER_MAGIC \o code \o length
    BY <1>4, <1>7
  <2>. HIDE DEF next, more
  <2>2. Answering(status, payload, next, more)
    BY <2>1 DEF Answering, length, code
  <2> QED
    BY <2>2 DEF next, more
<1>8. CASE left = <<payload>> /\ done = HELPER_MAGIC \o code \o length
  <2>1. next = <<>> /\ more = HELPER_MAGIC \o code \o length \o payload
    BY <1>4, <1>8
  <2>. HIDE DEF next, more
  <2>2. Answering(status, payload, next, more)
    BY <2>1 DEF Answering, length, code
  <2> QED
    BY <2>2 DEF next, more
<1> QED
  BY <1>5, <1>6, <1>7, <1>8 DEF Answering, length, code

LEMMA BytesInit == Init => HelperBytes
  BY EmptySeq DEF Init, StreamInit, HelperBytes

LEMMA BytesRespond ==
    ASSUME HelperBytes, helper \in {"none", "starting", "polling", "rendering"},
           encoded' = encoded, stream' = stream, reader' = reader,
           \/ Respond(1, ErrorText) /\ rendered' = rendered
           \/ \E candidate : Respond(0, Picture(candidate)) /\ rendered' = Picture(candidate)
    PROVE  HelperBytes'
<1> SUFFICES ASSUME reader = "helper"
             PROVE  HelperBytes'
  BY DEF HelperBytes
<1>1. encoded = <<>> /\ stream = <<>> /\ rendered \in Seq(Nat) /\ helper' = "writing"
  BY DEF HelperBytes, Respond
<1>2. encoded' \o stream' = <<>> /\ encoded' \in Seq(Nat) /\ stream' \in Seq(Nat)
  BY <1>1, EmptySeq, ConcatEmptySeq
<1>3. CASE Respond(1, ErrorText) /\ rendered' = rendered
  <2>1. Answering(1, ErrorText, out', encoded' \o stream')
    BY <1>2, <1>3 DEF Respond, Answering
  <2>2. out' # <<>>
    BY <1>3 DEF Respond
  <2> QED
    BY <1>1, <1>2, <1>3, <2>1, <2>2, HelperConstants DEF HelperBytes
<1>4. CASE \E candidate : Respond(0, Picture(candidate)) /\ rendered' = Picture(candidate)
  <2>1. PICK candidate : Respond(0, Picture(candidate)) /\ rendered' = Picture(candidate)
    BY <1>4
  <2>2. Answering(0, Picture(candidate), out', encoded' \o stream')
    BY <1>2, <2>1 DEF Respond, Answering
  <2>3. Picture(candidate) \in Seq(Nat) /\ Len(Picture(candidate)) = ExpectedPixels
    BY HelperConstants
  <2>4. out' # <<>>
    BY <2>1 DEF Respond
  <2> QED
    BY <1>1, <1>2, <2>1, <2>2, <2>3, <2>4 DEF HelperBytes
<1> QED
  BY <1>3, <1>4

\* Every piece of an answer is a sequence of numbers.
LEMMA PiecesAreNumbers ==
    ASSUME NEW status \in {0, 1}, NEW payload, payload \in Seq(Nat), NEW left, NEW done,
           Answering(status, payload, left, done), left # <<>>
    PROVE  Head(left) \in Seq(Nat)
<1>1. Len(payload) \in Nat /\ status \in Nat
  OBVIOUS
<1>2. be32(Len(payload)) \in Seq(Nat) /\ HELPER_MAGIC \in Seq(Nat) /\ <<status>> \in Seq(Nat)
  BY <1>1, HelperConstants
<1>3. Head(left) \in {HELPER_MAGIC, <<status>>, be32(Len(payload)), payload}
  BY DEF Answering
<1> QED
  BY <1>2, <1>3

LEMMA PieceAppended ==
    ASSUME encoded \in Seq(Nat), stream \in Seq(Nat), NEW piece, piece \in Seq(Nat)
    PROVE  /\ encoded \o (stream \o piece) = (encoded \o stream) \o piece
           /\ stream \o piece \in Seq(Nat)
  BY Associative, Zenon

LEMMA BytesWritePiece ==
    ASSUME HelperBytes, WritePiece
    PROVE  HelperBytes'
<1> SUFFICES ASSUME reader = "helper"
             PROVE  HelperBytes'
  BY DEF HelperBytes, WritePiece
<1>. DEFINE piece == Head(out)
<1>1. /\ encoded' = encoded /\ rendered' = rendered /\ stream' = stream \o piece
      /\ out' = Tail(out) /\ helper' \in {"parked", "writing"}
      /\ reader' = reader
  BY DEF WritePiece
<1>2. encoded \in Seq(Nat) /\ stream \in Seq(Nat) /\ rendered \in Seq(Nat)
  BY DEF HelperBytes
<1>3. ASSUME NEW status \in {0, 1}, NEW payload \in Seq(Nat),
             Answering(status, payload, out, encoded \o stream), out # <<>>
      PROVE  /\ Answering(status, payload, out', encoded' \o stream')
             /\ stream' \in Seq(Nat)
             /\ helper' = "writing" => out' # <<>>
  <2>1. piece \in Seq(Nat)
    BY <1>3, PiecesAreNumbers
  <2>2. Answering(status, payload, out', (encoded \o stream) \o piece)
    BY <1>1, <1>3, PieceWritten
  <2>3. encoded \o (stream \o piece) = (encoded \o stream) \o piece /\ stream \o piece \in Seq(Nat)
    BY <1>2, <2>1, PieceAppended
  <2>4. helper' = "writing" => out' # <<>>
    <3>1. helper' = "writing" => Len(out) # 1
      BY DEF WritePiece
    <3>2. \A a, b, c, d : /\ Tail(<<a, b, c, d>>) # <<>> /\ Tail(<<a, b, c>>) # <<>>
                          /\ Tail(<<a, b>>) # <<>> /\ Len(<<a>>) = 1
      OBVIOUS
    <3>3. \/ out = <<HELPER_MAGIC, <<status>>, be32(Len(payload)), payload>>
          \/ out = <<<<status>>, be32(Len(payload)), payload>>
          \/ out = <<be32(Len(payload)), payload>>
          \/ out = <<payload>>
      BY <1>3 DEF Answering
    <3>4. Len(out) # 1 => Tail(out) # <<>>
      BY <3>2, <3>3, Zenon
    <3> QED
      BY <1>1, <3>1, <3>4
  <2> QED
    BY <1>1, <2>2, <2>3, <2>4
<1>4. out # <<>>
  BY DEF HelperBytes, WritePiece
<1> QED
  <2>1. PICK payload \in Seq(Nat) :
               \/ Answering(1, payload, out, encoded \o stream)
               \/ /\ Answering(0, payload, out, encoded \o stream)
                  /\ payload = rendered /\ Len(payload) = ExpectedPixels
    BY <1>4 DEF HelperBytes
  <2>2. CASE Answering(1, payload, out, encoded \o stream)
    <3>1. Answering(1, payload, out', encoded' \o stream') /\ stream' \in Seq(Nat)
         /\ (helper' = "writing" => out' # <<>>)
      BY <1>3, <1>4, <2>2
    <3> QED
      BY <1>1, <1>2, <3>1 DEF HelperBytes
  <2>3. CASE /\ Answering(0, payload, out, encoded \o stream)
             /\ payload = rendered /\ Len(payload) = ExpectedPixels
    <3>1. Answering(0, payload, out', encoded' \o stream') /\ stream' \in Seq(Nat)
         /\ (helper' = "writing" => out' # <<>>)
      BY <1>3, <1>4, <2>3
    <3> QED
      BY <1>1, <1>2, <2>3, <3>1 DEF HelperBytes
  <2> QED
    BY <2>1, <2>2, <2>3

LEMMA BytesNext == Cleanup /\ HelperBytes /\ [Next]_vars => HelperBytes'
<1> SUFFICES ASSUME Cleanup, HelperBytes, [Next]_vars
             PROVE  HelperBytes'
  OBVIOUS
<1>1. ASSUME reader' = reader, encoded' = encoded, stream' = stream, out' = out,
             rendered' = rendered,
             \/ helper' = helper
             \/ helper # "none" /\ helper' \in {"zombie", "reaped"}
             \/ helper \in {"none", "starting"} /\ helper' \in {"starting", "polling"}
             \/ helper = "polling" /\ helper' = "rendering"
      PROVE  HelperBytes'
  BY <1>1 DEF HelperBytes
<1>2. CASE UNCHANGED vars
  BY <1>1, <1>2 DEF vars, streamVars, helperVars
<1>3. CASE (Writer \/ SocketReader \/ ReadStep) /\ NowPlayingUnchanged
  <2>. USE DEF NowPlayingUnchanged, helperVars
  <2>1. CASE Writer \/ SocketReader
    <3>1. reader' = reader /\ reader # "helper"
      BY <2>1 DEF Writer, Write, WriteBreaksOff, WriteForeign, Put, MayWrite, Close,
           SocketReader, Begin, DecodeHeader, DecodeMessage, Sockets
    <3> QED
      BY <3>1 DEF HelperBytes
  <2>2. CASE UnexpectedEof
    BY <1>1, <1>3, <2>2 DEF UnexpectedEof
  <2>3. ASSUME NEW n, n \in 1 .. Len(stream), ReadSome(n)
        PROVE  HelperBytes'
    <3> SUFFICES ASSUME reader = "helper"
                 PROVE  HelperBytes'
      BY <2>3 DEF HelperBytes, ReadSome
    <3>1. encoded \in Seq(Nat) /\ stream \in Seq(Nat)
      BY DEF HelperBytes
    <3>2. /\ encoded' \in Seq(Nat) /\ stream' \in Seq(Nat)
          /\ encoded' \o stream' = encoded \o stream
      <4>1. /\ encoded' = encoded \o Prefix(stream, n) /\ stream' = Suffix(stream, n)
            /\ n \in 1 .. Len(stream)
        BY <2>3 DEF ReadSome
      <4>2. /\ encoded \o Prefix(stream, n) \in Seq(Nat) /\ Suffix(stream, n) \in Seq(Nat)
            /\ (encoded \o Prefix(stream, n)) \o Suffix(stream, n) = encoded \o stream
        BY <3>1, <4>1, ReadKeepsBytes, Zenon
      <4> QED
        BY <4>1, <4>2
    <3>3. stream # <<>>
      BY <2>3
    <3>4. helper' = helper /\ out' = out /\ rendered' = rendered
      BY <1>3
    <3> QED
      BY <3>2, <3>3, <3>4 DEF HelperBytes
  <2> QED
    BY <1>3, <2>1, <2>2, <2>3 DEF ReadStep
<1>4. CASE StartProvider
  BY <1>1, <1>4 DEF StartProvider, streamVars
<1>5. CASE ProviderFails
  <2>1. /\ helper = "starting" /\ encoded' = encoded /\ stream' = stream /\ reader' = reader
        /\ Respond(1, ErrorText) /\ rendered' = rendered
    BY <1>5 DEF ProviderFails, streamVars
  <2> QED
    BY <2>1, BytesRespond
<1>6. ASSUME NEW candidate, Poll(candidate)
      PROVE  HelperBytes'
  <2>1. /\ helper = "polling" /\ encoded' = encoded /\ stream' = stream /\ reader' = reader
        /\ rendered' = rendered
    BY <1>6 DEF Poll, streamVars
  <2>2. \/ Respond(1, ErrorText)
        \/ helper' \in {"polling", "rendering"} /\ out' = out
    BY <1>6, <2>1 DEF Poll
  <2> QED
    BY <1>1, <2>1, <2>2, BytesRespond
<1>7. CASE Render
  <2>1. /\ helper = "rendering" /\ encoded' = encoded /\ stream' = stream /\ reader' = reader
    BY <1>7 DEF Render, streamVars
  <2>2. \/ Respond(1, ErrorText) /\ rendered' = rendered
        \/ Respond(0, Picture(best)) /\ rendered' = Picture(best)
    BY <1>7 DEF Render
  <2> QED
    BY <2>1, <2>2, BytesRespond
<1>8. CASE HelperDies \/ AdapterDies
  BY <1>1, <1>8 DEF HelperDies, AdapterDies, Alive, streamVars, helperVars
<1>9. CASE HelperReader
  BY <1>1, <1>9 DEF HelperReader, DecodeHelperHeader, HelperPayloadRead, helperVars
<1>10. CASE Tick
  BY <1>1, <1>10 DEF Tick, streamVars
<1>11. CASE SpawnHelper
  BY <1>1, <1>11 DEF SpawnHelper, Goto, streamVars, Cleanup
<1>12. CASE Reap
  BY <1>1, <1>12 DEF Reap, streamVars
<1>13. CASE SpawnReader \/ Receive \/ TimedOut \/ JoinReader
  BY <1>1, <1>13 DEF SpawnReader, Receive, TimedOut, JoinReader, streamVars, helperVars
<1>14. CASE SendTerm \/ SendKill \/ SendKillToRest \/ GraceElapses \/ CheckGroup \/ GroupGone
  BY <1>1, <1>14 DEF SendTerm, SendKill, SendKillToRest, GraceElapses, CheckGroup, GroupGone,
       LoaderRest, streamVars, helperVars
<1> QED
  BY <1>2, <1>3, <1>4, <1>5, <1>6, <1>7, <1>8, <1>9, <1>10, <1>11, <1>12, <1>13, <1>14,
     BytesWritePiece DEF Next, Helper, Loader

LEMMA Joining ==
    \A s, t \in Seq(Nat) :
        /\ s \o t \in Seq(Nat) /\ Len(s \o t) = Len(s) + Len(t)
        /\ \A i \in 1 .. Len(s) : (s \o t)[i] = s[i]
        /\ \A i \in 1 .. Len(t) : (s \o t)[Len(s) + i] = t[i]
<1> TAKE s, t \in Seq(Nat)
<1>1. s \o t \in Seq(Nat) /\ Len(s \o t) = Len(s) + Len(t)
  BY ConcatProperties
<1>2. ASSUME NEW i \in 1 .. Len(s)
      PROVE  (s \o t)[i] = s[i]
  OBVIOUS
<1>3. ASSUME NEW i \in 1 .. Len(t)
      PROVE  (s \o t)[Len(s) + i] = t[i]
  OBVIOUS
<1> QED
  BY <1>1, <1>2, <1>3

\* What follows h in a sequence that begins with it.
LEMMA AfterHeader ==
    ASSUME NEW h \in Seq(Nat), NEW p \in Seq(Nat)
    PROVE  SubSeq(h \o p, Len(h) + 1, Len(h) + Len(p)) = p
<1>. DEFINE m == Len(h)
            k == Len(p)
            x == h \o p
            y == SubSeq(x, m + 1, m + k)
<1>1. /\ x \in Seq(Nat) /\ Len(x) = m + k /\ m \in Nat /\ k \in Nat
      /\ \A i \in 1 .. k : x[m + i] = p[i]
  BY Joining
<1>. HIDE DEF m, k, x
<1>2. \A i \in m + 1 .. m + k : x[i] \in Nat
  <2>1. \A i \in m + 1 .. m + k : i \in 1 .. Len(x)
    BY <1>1
  <2> QED
    BY <1>1, <2>1
<1>3. /\ m + 1 \in Int /\ m + k \in Int /\ (m + k) - (m + 1) + 1 = k
      /\ m + 1 <= m + k <=> k # 0
      /\ \A i \in 1 .. k : m + 1 + i - 1 = m + i
  BY <1>1
<1>4. /\ y \in Seq(Nat) /\ Len(y) = IF m + 1 <= m + k THEN (m + k) - (m + 1) + 1 ELSE 0
      /\ \A i \in 1 .. (m + k) - (m + 1) + 1 : y[i] = x[m + 1 + i - 1]
  <2>. DEFINE from == m + 1
              upto == m + k
  <2>1. from \in Int /\ upto \in Int /\ \A i \in from .. upto : x[i] \in Nat
    BY <1>2, <1>3
  <2>. HIDE DEF from, upto
  <2>2. /\ SubSeq(x, from, upto) \in Seq(Nat)
        /\ Len(SubSeq(x, from, upto)) = IF from <= upto THEN upto - from + 1 ELSE 0
        /\ \A i \in 1 .. upto - from + 1 : SubSeq(x, from, upto)[i] = x[from + i - 1]
    BY <2>1, SubSeqProperties
  <2> QED
    BY <2>2 DEF from, upto
<1>. HIDE DEF y
<1>5. Len(y) = k
  BY <1>3, <1>4
<1>6. \A i \in 1 .. k : y[i] = p[i]
  BY <1>1, <1>3, <1>4
<1>7. y = p
  BY <1>4, <1>5, <1>6, SeqEqual DEF k
<1> QED
  BY <1>7 DEF x, y, m, k

\* The buffer is as long as header and payload: it holds both.
LEMMA BufferIsWhole ==
    ASSUME NEW h \in Seq(Nat), NEW p \in Seq(Nat), NEW e \in Seq(Nat), NEW s \in Seq(Nat),
           e \o s = h \o p, Len(e) = Len(h) + Len(p)
    PROVE  SubSeq(e, Len(h) + 1, Len(e)) = p
<1>1. Len(e \o s) = Len(e) + Len(s) /\ Len(h \o p) = Len(h) + Len(p)
  BY ConcatProperties
<1>2. Len(s) = 0
  BY <1>1
<1>3. e \o s = e
  <2>1. s = <<>>
    BY <1>2, EmptySeq
  <2> QED
    BY <2>1, ConcatEmptySeq
<1>4. SubSeq(h \o p, Len(h) + 1, Len(h) + Len(p)) = p
  BY AfterHeader
<1> QED
  BY <1>3, <1>4

\* The parts of an answer one after the other.
LEMMA FourParts ==
    ASSUME NEW a \in Seq(Nat), NEW b \in Seq(Nat), NEW c \in Seq(Nat), NEW d \in Seq(Nat),
           Len(a) = 4, Len(b) = 1, Len(c) = 4
    PROVE  /\ Len(a \o b) = 5
           /\ Len(a \o b \o c) = 9 /\ a \o b \o c \in Seq(Nat)
           /\ (a \o b \o c \o d)[5] = b[1]
<1>. DEFINE x == a \o b
            y == x \o c
            z == y \o d
<1>1. x \in Seq(Nat) /\ Len(x) = 5 /\ x[5] = b[1]
  <2>1. x \in Seq(Nat) /\ Len(x) = Len(a) + Len(b)
    BY Joining, Zenon
  <2>2. 1 \in 1 .. Len(b) /\ Len(a) + 1 = 5 /\ Len(a) + Len(b) = 5
    OBVIOUS
  <2>3. x[Len(a) + 1] = b[1]
    BY <2>2, Joining, Zenon
  <2> QED
    BY <2>1, <2>2, <2>3
<1>. HIDE DEF x
<1>2. y \in Seq(Nat) /\ Len(y) = 9 /\ y[5] = x[5]
  <2>1. y \in Seq(Nat) /\ Len(y) = Len(x) + Len(c)
    BY <1>1, Joining, Zenon
  <2>2. 5 \in 1 .. Len(x) /\ Len(x) + Len(c) = 9
    BY <1>1
  <2>3. y[5] = x[5]
    BY <1>1, <2>2, Joining, Zenon
  <2> QED
    BY <2>1, <2>2, <2>3
<1>. HIDE DEF y
<1>3. z[5] = y[5]
  <2>1. 5 \in 1 .. Len(y)
    BY <1>2
  <2> QED
    BY <1>2, <2>1, Joining, Zenon
<1> QED
  BY <1>1, <1>2, <1>3 DEF x, y

\* The length of a frame's buffer is that of no part of an answer but the last.
LEMMA LastPart ==
    ASSUME NEW a \in Seq(Nat), NEW b \in Seq(Nat), NEW c \in Seq(Nat), NEW d \in Seq(Nat),
           Len(a) = 4, Len(b) = 1, Len(c) = 4, NEW x \in Seq(Nat), Len(x) > 9
    PROVE  x # <<>> /\ x # a /\ x # a \o b /\ x # a \o b \o c
<1>1. Len(x) > Len(a) /\ Len(x) > Len(a \o b) /\ Len(x) > Len(a \o b \o c) /\ Len(x) > Len(<<>>)
  <2>1. Len(x) > Len(a) /\ Len(x) > Len(<<>>)
    OBVIOUS
  <2>2. Len(x) > Len(a \o b) /\ Len(x) > Len(a \o b \o c)
    BY FourParts
  <2> QED
    BY <2>1, <2>2
<1>2. \A y : Len(x) > Len(y) => x # y
  <2>1. ~(Len(x) > Len(x))
    OBVIOUS
  <2> QED
    BY <2>1, Zenon
<1> QED
  BY <1>1, <1>2, Zenon

\* A frame's buffer is longer than a header: of the ways an answer can be
\* under way it is the last.
LEMMA AnswerIsWhole ==
    ASSUME NEW e \in Seq(Nat), NEW s \in Seq(Nat), NEW status \in {0, 1},
           NEW payload \in Seq(Nat), NEW left, Len(e) > 9, Answering(status, payload, left, e \o s)
    PROVE  /\ e \o s = HELPER_MAGIC \o <<status>> \o be32(Len(payload)) \o payload
           /\ e[5] = status
<1>. DEFINE length == be32(Len(payload))
<1>1. /\ HELPER_MAGIC \in Seq(Nat) /\ Len(HELPER_MAGIC) = 4
      /\ <<status>> \in Seq(Nat) /\ Len(<<status>>) = 1
      /\ length \in Seq(Nat) /\ Len(length) = 4
  BY HelperConstants
<1>2. e \o s \in Seq(Nat) /\ Len(e \o s) > 9
  BY Joining
<1>. DEFINE code == <<status>>
            x == e \o s
<1>3. code[1] = status
  OBVIOUS
<1>4. \/ x = <<>> \/ x = HELPER_MAGIC \/ x = HELPER_MAGIC \o code
      \/ x = HELPER_MAGIC \o code \o length
      \/ x = HELPER_MAGIC \o code \o length \o payload
  BY DEF Answering
<1>5. x[5] = e[5]
  BY Joining
<1>. HIDE DEF code, x, length
<1>6. x \in Seq(Nat) /\ Len(x) > 9
  BY <1>2 DEF x
<1>7. /\ HELPER_MAGIC \in Seq(Nat) /\ Len(HELPER_MAGIC) = 4
      /\ code \in Seq(Nat) /\ Len(code) = 1 /\ length \in Seq(Nat) /\ Len(length) = 4
  BY <1>1 DEF code
<1>8. x = HELPER_MAGIC \o code \o length \o payload
  <2>1. /\ x # <<>> /\ x # HELPER_MAGIC /\ x # HELPER_MAGIC \o code
        /\ x # HELPER_MAGIC \o code \o length
    BY <1>6, <1>7, LastPart
  <2> QED
    BY <1>4, <2>1
<1>9. (HELPER_MAGIC \o code \o length \o payload)[5] = code[1]
  BY <1>7, FourParts
<1> QED
  BY <1>3, <1>5, <1>8, <1>9 DEF x, code, length

LEMMA FrameIsWhole == HelperBytes /\ Cleanup => LoadedFrameIsWhole
<1> SUFFICES ASSUME HelperBytes, Cleanup, result = "frame"
             PROVE  ~GroupExists /\ Pixels = rendered
  BY DEF LoadedFrameIsWhole
<1>1. /\ ~GroupExists /\ reader = "helper"
      /\ encoded[5] = 0 /\ Len(Pixels) = ExpectedPixels
  BY DEF Cleanup
<1>2. encoded \in Seq(Nat) /\ stream \in Seq(Nat) /\ ExpectedPixels \in Nat \ {0}
  BY <1>1, NowPlayingAssumption DEF HelperBytes
<1>3. Len(encoded) = 9 + ExpectedPixels
  BY <1>1, <1>2 DEF Pixels, Suffix, HELPER_HEADER_LEN
<1>4. encoded # <<>>
  BY <1>2, <1>3
<1>5. PICK payload \in Seq(Nat), status \in {0, 1} :
           /\ Answering(status, payload, out, encoded \o stream)
           /\ status = 0 => payload = rendered /\ Len(payload) = ExpectedPixels
  <2>1. PICK payload \in Seq(Nat) :
             \/ Answering(1, payload, out, encoded \o stream)
             \/ /\ Answering(0, payload, out, encoded \o stream)
                /\ payload = rendered /\ Len(payload) = ExpectedPixels
    BY <1>1, <1>4 DEF HelperBytes
  <2> QED
    BY <2>1
<1>6. Len(encoded) > 9
  BY <1>2, <1>3
<1>7. /\ encoded \o stream = HELPER_MAGIC \o <<status>> \o be32(Len(payload)) \o payload
      /\ encoded[5] = status
  BY <1>2, <1>5, <1>6, AnswerIsWhole
<1>8. payload = rendered /\ Len(payload) = ExpectedPixels
  BY <1>1, <1>5, <1>7
<1>9. Pixels = payload
  <2>. DEFINE h == HELPER_MAGIC \o <<status>> \o be32(Len(payload))
  <2>1. h \in Seq(Nat) /\ Len(h) = 9
    <3>. DEFINE length == be32(Len(payload))
    <3>3. Len(payload) \in Nat /\ status \in Nat
      OBVIOUS
    <3>1. /\ HELPER_MAGIC \in Seq(Nat) /\ Len(HELPER_MAGIC) = 4
          /\ <<status>> \in Seq(Nat) /\ Len(<<status>>) = 1
          /\ length \in Seq(Nat) /\ Len(length) = 4
      BY <3>3, HelperConstants, ZenonT(30)
    <3>. DEFINE code == <<status>>
    <3>. HIDE DEF length, code
    <3>2. HELPER_MAGIC \o code \o length \in Seq(Nat) /\ Len(HELPER_MAGIC \o code \o length) = 9
      BY <3>1, FourParts DEF code
    <3> QED
      BY <3>2 DEF length, code
  <2>2. encoded \o stream = h \o payload /\ Len(encoded) = 9 + Len(payload)
    BY <1>3, <1>7, <1>8
  <2>. HIDE DEF h
  <2>3. SubSeq(encoded, Len(h) + 1, Len(encoded)) = payload
    BY <1>2, <2>1, <2>2, BufferIsWhole
  <2> QED
    BY <2>1, <2>3 DEF Pixels, Suffix, HELPER_HEADER_LEN
<1> QED
  BY <1>1, <1>8, <1>9

\* A frame that load_now_playing_frame returns is the picture the helper
\* rendered, all of it, and helper and adapter are gone: for every size of the
\* picture, every deadline, and every way the signals fail.
THEOREM HelperLeavesNothing == Spec => []LoadedFrameIsWhole
<1>1. Cleanup /\ [Next]_vars => Cleanup'
  BY CleanupNext
<1>2. Cleanup /\ HelperBytes /\ [Next]_vars => HelperBytes'
  BY BytesNext
<1> QED
  BY CleanupInit, BytesInit, <1>1, <1>2, FrameIsWhole, PTL DEF Spec

-----------------------------------------------------------------------------
(* Every byte of the stream is accounted for.                              *)

Decoded == UNION {decode_v2_payload(type, payload) : type \in Types, payload \in Seq(Byte)}

\* Bytes are bytes, nothing is in the buffer between two messages, and the
\* encodings of what was handed on are the bytes it was decoded from.
Accounting ==
    reader \in Sockets =>
        /\ helper = "none"
        /\ encoded \in Seq(Byte) /\ stream \in Seq(Byte) /\ written \in Seq(Byte)
        /\ received \in Seq(Decoded) /\ Encodings(received) \in Seq(Byte)
        /\ phase = "idle" => encoded = <<>>
        /\ EveryByteAccounted

LEMMA JoinBytes == \A s, t \in Seq(Byte) : s \o t \in Seq(Byte)
<1> TAKE s, t \in Seq(Byte)
<1> QED
  BY ConcatProperties

\* read_exact takes bytes from the front of the stream to the end of the buffer.
LEMMA MoveBytes ==
    ASSUME encoded \in Seq(Byte), stream \in Seq(Byte), Encodings(received) \in Seq(Byte),
           NEW n, n \in 1 .. Len(stream)
    PROVE  /\ encoded \o Prefix(stream, n) \in Seq(Byte) /\ Suffix(stream, n) \in Seq(Byte)
           /\ (Encodings(received) \o (encoded \o Prefix(stream, n))) \o Suffix(stream, n)
                  = (Encodings(received) \o encoded) \o stream
<1>. DEFINE a == Encodings(received)
            e == encoded
            s == stream
<1>. DEFINE p == Prefix(s, n)
            q == Suffix(s, n)
<1>1. n \in 0 .. Len(s)
  OBVIOUS
<1>2. p \in Seq(Byte) /\ q \in Seq(Byte) /\ p \o q = s
  BY <1>1, FirstBytes, Cut DEF Prefix, Suffix
<1>3. a \in Seq(Byte) /\ e \in Seq(Byte) /\ s \in Seq(Byte)
  OBVIOUS
<1>. HIDE DEF p, q, a, e, s
<1>4. e \o p \in Seq(Byte) /\ a \o e \in Seq(Byte)
  BY <1>2, <1>3, JoinBytes, Zenon
<1>5. a \o (e \o p) = (a \o e) \o p
  <2>1. p \in Seq(Byte)
    BY <1>2
  <2> QED
    BY <1>3, <2>1, JoinAssociates, SMTT(60)
<1>6. (a \o e) \o (p \o q) = ((a \o e) \o p) \o q
  <2>. DEFINE x == a \o e
  <2>1. x \in Seq(Byte)
    BY <1>4
  <2>. HIDE DEF x
  <2>2. x \o (p \o q) = (x \o p) \o q
    BY <1>2, <2>1, JoinAssociates, Zenon
  <2> QED
    BY <2>2 DEF x
<1> QED
  BY <1>2, <1>4, <1>5, <1>6 DEF p, q, a, e, s

LEMMA AccountingInit == Init => Accounting
<1> SUFFICES ASSUME Init, reader \in Sockets
             PROVE  Accounting
  BY DEF Accounting
<1>1. /\ helper = "none" /\ encoded = <<>> /\ stream = <<>> /\ written = <<>> /\ received = <<>>
  BY DEF Init, StreamInit
<1>2. <<>> \in Seq(Byte) /\ <<>> \in Seq(Decoded) /\ <<>> \o <<>> = <<>>
  BY EmptySeq, ConcatEmptySeq
<1> QED
  BY <1>1, <1>2, EncodingsEmpty DEF Accounting, EveryByteAccounted

\* The writer puts bytes at the end.
LEMMA AccountingPut ==
    ASSUME Accounting, helper' = helper, NEW bytes, bytes \in Seq(Byte), Put(bytes)
    PROVE  Accounting'
<1> SUFFICES ASSUME reader \in Sockets
             PROVE  Accounting'
  BY DEF Accounting, Put
<1>. DEFINE before == Encodings(received)
<1>1. /\ encoded \in Seq(Byte) /\ stream \in Seq(Byte) /\ written \in Seq(Byte)
      /\ before \in Seq(Byte) /\ before \o encoded \o stream = written
  BY DEF Accounting, EveryByteAccounted
<1>. HIDE DEF before
<1>2. /\ stream \o bytes \in Seq(Byte) /\ written \o bytes \in Seq(Byte)
      /\ before \o encoded \in Seq(Byte)
  BY <1>1, JoinBytes, Zenon
<1>3. (before \o encoded) \o (stream \o bytes) = ((before \o encoded) \o stream) \o bytes
  <2>. DEFINE x == before \o encoded
  <2>1. x \in Seq(Byte)
    BY <1>2
  <2>. HIDE DEF x
  <2>2. x \o (stream \o bytes) = (x \o stream) \o bytes
    BY <1>1, <2>1, JoinAssociates, Zenon
  <2> QED
    BY <2>2 DEF x
<1>4. before \o encoded \o (stream \o bytes) = written \o bytes
  BY <1>1, <1>3, Zenon
<1> QED
  BY <1>2, <1>4 DEF Accounting, EveryByteAccounted, Put, before

LEMMA AccountingWriter ==
    ASSUME Accounting, Writer, NowPlayingUnchanged
    PROVE  Accounting'
<1>1. helper' = helper
  BY DEF NowPlayingUnchanged, helperVars
<1>2. ASSUME NEW m \in Messages
      PROVE  Encode(m) \in Seq(Byte)
  BY StreamAssumption
<1>3. ASSUME NEW m \in Messages, Write(m)
      PROVE  Accounting'
  BY <1>1, <1>2, <1>3, AccountingPut DEF Write
<1>4. ASSUME NEW m \in Messages, NEW n \in 0 .. Len(Encode(m)), WriteBreaksOff(m, n)
      PROVE  Accounting'
  <2>1. Prefix(Encode(m), n) \in Seq(Byte)
    BY <1>2, FirstBytes DEF Prefix
  <2> QED
    BY <1>1, <1>4, <2>1, AccountingPut DEF WriteBreaksOff
<1>5. ASSUME NEW m \in Messages, NEW i \in 1 .. Len(Encode(m)), NEW b \in ForeignBytes,
             WriteForeign(m, i, b)
      PROVE  Accounting'
  <2>1. b \in Byte
    BY StreamAssumption
  <2>2. [Encode(m) EXCEPT ![i] = b] \in Seq(Byte)
    BY <1>2, <2>1, ExceptSeq
  <2> QED
    BY <1>1, <1>5, <2>2, AccountingPut DEF WriteForeign
<1>6. CASE Close
  BY <1>1, <1>6 DEF Close, Accounting, EveryByteAccounted
<1> QED
  BY <1>3, <1>4, <1>5, <1>6 DEF Writer

\* A message is handed on: its encoding is the buffer.
LEMMA AccountingDecode ==
    ASSUME Accounting, DecodeMessage, helper' = helper
    PROVE  Accounting'
<1>. DEFINE decoded == decode_v2_message(encoded)
            typed == IF decoded.result = "complete" /\ decoded.consumed = Len(encoded)
                     THEN decode_v2_payload(decoded.type, decoded.payload) ELSE {}
            before == Encodings(received)
<1>1. /\ reader \in Sockets /\ reader' = reader /\ written' = written /\ stream' = stream
      /\ phase = "payload"
  BY DEF DecodeMessage, writerVars
<1>2. /\ encoded \in Seq(Byte) /\ stream \in Seq(Byte) /\ written \in Seq(Byte)
      /\ received \in Seq(Decoded) /\ before \in Seq(Byte)
      /\ before \o encoded \o stream = written
  BY <1>1 DEF Accounting, EveryByteAccounted
<1>3. \/ \E m \in typed : /\ received' = Append(received, m)
                          /\ phase' = "idle" /\ encoded' = <<>>
      \/ phase' = "failed" /\ encoded' = encoded /\ received' = received
  BY DEF DecodeMessage
<1>4. ASSUME NEW m \in typed, received' = Append(received, m), encoded' = <<>>
      PROVE  Accounting'
  <2>1. /\ decoded.result = "complete" /\ decoded.consumed = Len(encoded)
        /\ m \in decode_v2_payload(decoded.type, decoded.payload)
    BY <1>4
  <2>2. decoded.type \in Types /\ decoded.payload \in Seq(Byte)
    BY <1>2, <2>1, MessageIsEncoded
  <2>3. m \in Decoded
    <3>. HIDE DEF decoded
    <3> QED
      BY <2>1, <2>2 DEF Decoded
  <2>4. Encode(m) = encoded
    BY <1>2, <2>1, AcceptedIsEncoded
  <2>5. Encodings(received') = before \o encoded
    BY <1>2, <1>4, <2>3, <2>4, EncodingsAppend
  <2>. HIDE DEF before
  <2>6. received' \in Seq(Decoded)
    BY <1>2, <1>4, <2>3, AppendProperties
  <2>7. before \o encoded \in Seq(Byte) /\ <<>> \in Seq(Byte)
    BY <1>2, JoinBytes, EmptySeq
  <2>8. (before \o encoded) \o <<>> = before \o encoded
    BY <2>7, ConcatEmptySeq
  <2>9. Encodings(received') \o encoded' \o stream' = written'
    BY <1>1, <1>2, <1>4, <2>5, <2>8
  <2> QED
    BY <1>1, <1>2, <1>4, <2>5, <2>6, <2>7, <2>9 DEF Accounting, EveryByteAccounted
<1>5. CASE phase' = "failed" /\ encoded' = encoded /\ received' = received
  BY <1>1, <1>5 DEF Accounting, EveryByteAccounted
<1> QED
  BY <1>3, <1>4, <1>5

LEMMA AccountingRead ==
    ASSUME Accounting, NEW n, n \in 1 .. Len(stream), ReadSome(n), helper' = helper
    PROVE  Accounting'
<1> SUFFICES ASSUME reader \in Sockets
             PROVE  Accounting'
  BY DEF Accounting, ReadSome
<1>. DEFINE before == Encodings(received)
<1>1. /\ encoded \in Seq(Byte) /\ stream \in Seq(Byte) /\ written \in Seq(Byte)
      /\ before \in Seq(Byte) /\ before \o encoded \o stream = written
  BY DEF Accounting, EveryByteAccounted
<1>2. /\ encoded' = encoded \o Prefix(stream, n) /\ stream' = Suffix(stream, n)
      /\ received' = received /\ written' = written /\ reader' = reader
      /\ phase' = phase /\ phase # "idle"
  BY DEF ReadSome, writerVars
<1>. HIDE DEF before
<1>3. /\ encoded' \in Seq(Byte) /\ stream' \in Seq(Byte)
      /\ before \o encoded' \o stream' = before \o encoded \o stream
  <2>1. /\ encoded \o Prefix(stream, n) \in Seq(Byte) /\ Suffix(stream, n) \in Seq(Byte)
        /\ (Encodings(received) \o (encoded \o Prefix(stream, n))) \o Suffix(stream, n)
                  = (Encodings(received) \o encoded) \o stream
    BY <1>1, n \in 1 .. Len(stream), MoveBytes DEF before
  <2> QED
    BY <1>2, <2>1 DEF before
<1> QED
  BY <1>1, <1>2, <1>3 DEF Accounting, EveryByteAccounted, before

LEMMA AccountingNext == Cleanup /\ Accounting /\ [Next]_vars => Accounting'
<1> SUFFICES ASSUME Cleanup, Accounting, [Next]_vars
             PROVE  Accounting'
  OBVIOUS
<1>1. ASSUME UNCHANGED <<streamVars, helper>>
      PROVE  Accounting'
  BY <1>1 DEF streamVars, Accounting, EveryByteAccounted
<1>2. CASE UNCHANGED vars
  BY <1>1, <1>2 DEF vars, helperVars
<1>3. CASE (Writer \/ SocketReader \/ ReadStep) /\ NowPlayingUnchanged
  <2>1. helper' = helper
    BY <1>3 DEF NowPlayingUnchanged, helperVars
  <2>2. CASE Begin
    <3>1. /\ reader \in Sockets /\ reader' = reader /\ written' = written /\ stream' = stream
          /\ received' = received /\ phase = "idle" /\ phase' # "idle"
          /\ encoded' = encoded \/ encoded' = <<>>
      BY <2>2 DEF Begin, writerVars
    <3>2. encoded = <<>>
      BY <3>1 DEF Accounting
    <3> QED
      BY <2>1, <3>1, <3>2 DEF Accounting, EveryByteAccounted
  <2>3. CASE DecodeHeader \/ UnexpectedEof
    <3>1. /\ reader' = reader /\ written' = written /\ stream' = stream
          /\ received' = received /\ encoded' = encoded /\ phase' # "idle"
      BY <2>3 DEF DecodeHeader, UnexpectedEof, writerVars
    <3> QED
      BY <2>1, <3>1 DEF Accounting, EveryByteAccounted
  <2> QED
    BY <1>3, <2>1, <2>2, <2>3, AccountingWriter, AccountingDecode, AccountingRead
       DEF SocketReader, ReadStep
<1>4. ASSUME reader = "helper", reader' = reader
      PROVE  Accounting'
  BY <1>4 DEF Accounting, Sockets
<1>6. CASE Helper \/ HelperDies
  <2>1. helper # "none" /\ reader' = reader
    BY <1>6 DEF Helper, HelperDies, StartProvider, ProviderFails, Poll, Render, WritePiece,
       Running, Alive, streamVars
  <2>2. reader \notin Sockets
    BY <2>1 DEF Accounting
  <2> QED
    BY <2>1, <2>2 DEF Accounting
<1>7. CASE HelperReader
  <2>1. reader = "helper" /\ reader' = reader
    BY <1>7 DEF HelperReader, DecodeHelperHeader, HelperPayloadRead
  <2> QED
    BY <1>4, <2>1
<1>8. CASE AdapterDies
  BY <1>1, <1>8 DEF AdapterDies, helperVars
<1>9. CASE Tick
  BY <1>1, <1>9 DEF Tick
<1>10. CASE Loader
  <2>1. loader # "idle" /\ reader' = reader
    BY <1>10 DEF Loader, SpawnHelper, SpawnReader, Receive, TimedOut, SendTerm, SendKill,
       SendKillToRest, SignalGroup, GraceElapses, CheckGroup, GroupGone, JoinReader, Reap, Goto,
       LoaderRest, streamVars
  <2>2. reader = "helper"
    BY <2>1 DEF Cleanup
  <2> QED
    BY <1>4, <2>1, <2>2
<1> QED
  BY <1>2, <1>3, <1>6, <1>7, <1>8, <1>9, <1>10 DEF Next

\* Whatever is sent, in whatever pieces it arrives and wherever the writer
\* breaks off, what the reader handed on, encoded again, with its buffer and
\* the rest of the stream is what was written.
THEOREM BytesAreAccounted == Spec => []EveryByteAccounted
<1>1. Cleanup /\ [Next]_vars => Cleanup'
  BY CleanupNext
<1>2. Cleanup /\ Accounting /\ [Next]_vars => Accounting'
  BY AccountingNext
<1>3. Accounting => EveryByteAccounted
  BY DEF Accounting, EveryByteAccounted
<1> QED
  BY CleanupInit, AccountingInit, <1>1, <1>2, <1>3, PTL DEF Spec

-----------------------------------------------------------------------------
(* What is received was sent.                                              *)

\* A message of the protocol: bytes that decode to it and to nothing else.
Sendable(m) == m.type \in Types /\ PayloadOf(m) \in Seq(Byte) /\ Arrives(m)

Writable == {m \in Messages : Encodable(Len(PayloadOf(m)))}

FirstSent(k) == SubSeq(sent, 1, k)

\* From a writer of this version nothing is received that was not sent, no
\* message is left out, none comes twice and none out of its turn.
ReceivedWasSent ==
    reader \in Sockets /\ ~foreign =>
        \E k \in 0 .. Len(sent) : received = FirstSent(k)

\* The beginning of a message, or nothing.
Broken(bytes) ==
    \/ bytes = <<>>
    \/ \E m \in Writable : \E n \in 0 .. Len(Encode(m)) - 1 : bytes = SubSeq(Encode(m), 1, n)

\* What was written after the first k messages: the next one, or what the
\* writer broke off.
AfterSent(k, bytes) ==
    /\ k < Len(sent) => \E rest \in Seq(Byte) : bytes = Encode(sent[k + 1]) \o rest
    /\ k = Len(sent) => Broken(bytes) /\ (~closed => bytes = <<>>)

WrittenAfter(k) ==
    /\ Encodings(FirstSent(k)) \in Seq(Byte)
    /\ \E bytes \in Seq(Byte) :
          written = Encodings(FirstSent(k)) \o bytes /\ AfterSent(k, bytes)

Sending ==
    reader \in Sockets /\ ~foreign =>
        /\ sent \in Seq(Writable)
        /\ \A k \in 0 .. Len(sent) : WrittenAfter(k)
        /\ ReceivedWasSent

\* The decoder, at the beginning of a message of this version, finds that one.
LEMMA NextIsFound ==
    ASSUME NEW s, Sendable(s), Encodable(Len(PayloadOf(s))),
           NEW e \in Seq(Byte), NEW later \in Seq(Byte), NEW rest \in Seq(Byte),
           e \o later = Encode(s) \o rest,
           decode_v2_message(e).result = "complete",
           decode_v2_message(e).consumed = Len(e),
           NEW m \in decode_v2_payload(decode_v2_message(e).type, decode_v2_message(e).payload)
    PROVE  m = s
<1>. DEFINE type == decode_v2_message(e).type
            payload == decode_v2_message(e).payload
            own == PayloadOf(s)
<1>1. type \in Types /\ payload \in Seq(Byte) /\ encode_v2_message(type, payload) = e
  BY MessageIsEncoded
<1>2. Len(payload) <= V2_MAX_PAYLOAD_LEN
  <2>1. /\ Len(payload) = decode_v2_message(e).consumed - V2_HEADER_LEN
        /\ decode_v2_message(e).consumed <= V2_HEADER_LEN + V2_MAX_PAYLOAD_LEN
        /\ decode_v2_message(e).consumed \in V2_HEADER_LEN .. Len(e)
    BY DecoderIsBounded
  <2> QED
    BY <2>1, PayloadBound, SMT DEF V2_HEADER_LEN
<1>3. m \in decode_v2_payload(type, payload)
  OBVIOUS
<1>. HIDE DEF type, payload
<1>4. decode_v2_message(e \o later) = Complete(type, payload, V2_HEADER_LEN + Len(payload))
  BY <1>1, <1>2, EncodedIsDecoded
<1>5. decode_v2_message(Encode(s) \o rest) = Complete(s.type, own, V2_HEADER_LEN + Len(own))
  <2>1. s.type \in Types /\ own \in Seq(Byte) /\ Len(own) <= V2_MAX_PAYLOAD_LEN
    BY DEF Sendable, Encodable
  <2>2. Encode(s) = encode_v2_message(s.type, own)
    BY DEF Encode
  <2>. HIDE DEF own
  <2> QED
    BY <2>1, <2>2, EncodedIsDecoded
<1>6. type = s.type /\ payload = own
  <2>. DEFINE decoded == decode_v2_message(e \o later)
  <2>1. decoded = Complete(type, payload, V2_HEADER_LEN + Len(payload))
    BY <1>4
  <2>2. decoded = Complete(s.type, own, V2_HEADER_LEN + Len(own))
    BY <1>5
  <2>. HIDE DEF decoded, own
  <2>3. decoded.type = type /\ decoded.payload = payload
    BY <2>1, CompleteFields
  <2>4. decoded.type = s.type /\ decoded.payload = own
    BY <2>2, CompleteFields
  <2> QED
    BY <2>3, <2>4
<1>7. decode_v2_payload(s.type, own) = {s}
  BY DEF Sendable, Arrives
<1> QED
  BY <1>3, <1>6, <1>7

\* Nothing is found in part of a message.
LEMMA PartIsNotFound ==
    ASSUME \A m \in Messages : Sendable(m),
           NEW e \in Seq(Byte), NEW later \in Seq(Byte), Broken(e \o later)
    PROVE  decode_v2_message(e).result # "complete"
<1>1. CASE e \o later = <<>>
  <2>1. Len(e) = 0
    BY <1>1, ConcatProperties
  <2>2. decode_v2_message(e) = Incomplete(V2_HEADER_LEN - Len(e))
    BY <2>1 DEF decode_v2_message, V2_HEADER_LEN
  <2> QED
    BY <2>2 DEF Incomplete
<1>2. ASSUME NEW m \in Writable, NEW n \in 0 .. Len(Encode(m)) - 1,
             e \o later = SubSeq(Encode(m), 1, n)
      PROVE  decode_v2_message(e).result # "complete"
  <2>. DEFINE coded == Encode(m)
              own == PayloadOf(m)
              here == Len(e)
  <2>1. m.type \in Types /\ own \in Seq(Byte) /\ Len(own) <= V2_MAX_PAYLOAD_LEN
    BY DEF Sendable, Encodable, Writable
  <2>2. coded = encode_v2_message(m.type, own)
    BY DEF Encode
  <2>. HIDE DEF own
  <2>3. coded \in Seq(Byte) /\ Len(coded) = 12 + Len(own) /\ V2_HEADER_LEN = 12
    BY <2>1, <2>2, EncodedBytes DEF V2_HEADER_LEN
  <2>. HIDE DEF coded
  <2>4. n \in 0 .. Len(coded) /\ n \in Nat /\ n < Len(coded)
    BY <1>2, <2>3, SMT DEF coded
  <2>5. /\ Len(SubSeq(coded, 1, n)) = n
        /\ \A i \in 1 .. n : SubSeq(coded, 1, n)[i] = coded[i]
    BY <2>3, <2>4, FirstBytes
  <2>6. /\ Len(e \o later) = Len(e) + Len(later)
        /\ \A i \in 1 .. Len(e) : (e \o later)[i] = e[i]
    BY Joined
  <2>7. here \in Nat /\ here <= n
    BY <1>2, <2>4, <2>5, <2>6 DEF coded
  <2>8. SubSeq(coded, 1, here) = e
    <3>1. here \in 0 .. Len(coded)
      BY <2>4, <2>7, SMT
    <3>2. /\ SubSeq(coded, 1, here) \in Seq(Byte) /\ Len(SubSeq(coded, 1, here)) = here
          /\ \A i \in 1 .. here : SubSeq(coded, 1, here)[i] = coded[i]
      BY <2>3, <3>1, FirstBytes
    <3>3. \A i \in 1 .. here : i \in 1 .. n
      BY <2>4, <2>7, SMT
    <3>4. \A i \in 1 .. here : SubSeq(coded, 1, here)[i] = e[i]
      BY <1>2, <2>5, <2>6, <3>2, <3>3 DEF coded
    <3> QED
      BY <3>2, <3>4, SeqEqual
  <2>9. decode_v2_message(SubSeq(coded, 1, here)).result = "incomplete"
    <3>1. here \in 0 .. V2_HEADER_LEN + Len(own) - 1
      BY <2>1, <2>3, <2>4, <2>7, SMT
    <3> QED
      BY <2>1, <2>2, <3>1, CutIsIncomplete
  <2> QED
    BY <2>8, <2>9
<1> QED
  BY <1>1, <1>2 DEF Broken

\* One more of a sequence's elements.
LEMMA FirstAndNext ==
    ASSUME NEW S, NEW s \in Seq(S), NEW k \in 0 .. Len(s), k < Len(s)
    PROVE  SubSeq(s, 1, k + 1) = Append(SubSeq(s, 1, k), s[k + 1])
<1>. DEFINE a == SubSeq(s, 1, k)
            b == SubSeq(s, 1, k + 1)
            c == Append(a, s[k + 1])
<1>1. /\ Len(s) \in Nat /\ k \in Nat /\ k + 1 \in Nat /\ k + 1 <= Len(s)
      /\ k - 1 + 1 = k /\ (k + 1) - 1 + 1 = k + 1 /\ 1 <= k + 1
  BY SMT
<1>2. \A i \in 1 .. k + 1 : i \in 1 .. Len(s) /\ s[i] \in S /\ 1 + i - 1 = i
  BY <1>1, ElementOfSeq
<1>3. /\ b \in Seq(S) /\ Len(b) = k + 1 /\ \A i \in 1 .. k + 1 : b[i] = s[i]
  <2>1. /\ b \in Seq(S)
        /\ Len(b) = IF 1 <= k + 1 THEN (k + 1) - 1 + 1 ELSE 0
        /\ \A i \in 1 .. (k + 1) - 1 + 1 : b[i] = s[1 + i - 1]
    BY <1>1, <1>2, SubSeqProperties
  <2>. HIDE DEF b
  <2> QED
    BY <1>1, <1>2, <2>1
<1>4. /\ a \in Seq(S) /\ Len(a) = k /\ \A i \in 1 .. k : a[i] = s[i]
  <2>1. \A i \in 1 .. k : i \in 1 .. k + 1
    BY <1>1, SMT
  <2>2. \A i \in 1 .. k : s[i] \in S
    BY <1>2, <2>1
  <2>3. /\ a \in Seq(S)
        /\ Len(a) = IF 1 <= k THEN k - 1 + 1 ELSE 0
        /\ \A i \in 1 .. k - 1 + 1 : a[i] = s[1 + i - 1]
    BY <1>1, <2>2, SubSeqProperties
  <2>. HIDE DEF a
  <2>4. Len(a) = k
    BY <1>1, <2>3, SMT
  <2> QED
    BY <1>1, <1>2, <2>1, <2>3, <2>4
<1>5. s[k + 1] \in S
  BY <1>1, <1>2
<1>. HIDE DEF a, b
<1>6. /\ c \in Seq(S) /\ Len(c) = k + 1 /\ c[k + 1] = s[k + 1] /\ \A i \in 1 .. k : c[i] = s[i]
  BY <1>4, <1>5, AppendProperties
<1>. HIDE DEF c
<1>7. \A i \in 1 .. k + 1 : b[i] = c[i]
  <2>1. \A i \in 1 .. k + 1 : i \in 1 .. k \/ i = k + 1
    BY <1>1, SMT
  <2> QED
    BY <1>3, <1>6, <2>1
<1> QED
  BY <1>3, <1>6, <1>7, SeqEqual DEF a, b, c

LEMMA FirstOfAppend ==
    ASSUME NEW S, NEW s \in Seq(S), NEW m \in S
    PROVE  /\ SubSeq(Append(s, m), 1, Len(s) + 1) = Append(s, m)
           /\ \A k \in 0 .. Len(s) : SubSeq(Append(s, m), 1, k) = SubSeq(s, 1, k)
<1>. DEFINE n == Len(s)
            t == Append(s, m)
<1>1. /\ n \in Nat /\ t \in Seq(S) /\ Len(t) = n + 1
      /\ \A i \in 1 .. n : t[i] = s[i] /\ s[i] \in S
  BY AppendProperties
<1>. HIDE DEF n, t
<1>2. SubSeq(t, 1, n + 1) = t
  BY <1>1, SubSeqFull
<1>3. ASSUME NEW k \in 0 .. n PROVE SubSeq(t, 1, k) = SubSeq(s, 1, k)
  <2>1. k \in Nat /\ k <= n /\ k - 1 + 1 = k
    BY <1>1, SMT
  <2>2. \A i \in 1 .. k : i \in 1 .. n /\ 1 + i - 1 = i
    BY <1>1, <2>1, SMT
  <2>3. \A i \in 1 .. k : t[i] \in S /\ s[i] \in S /\ t[i] = s[i]
    BY <1>1, <2>2
  <2>4. /\ SubSeq(t, 1, k) \in Seq(S)
        /\ Len(SubSeq(t, 1, k)) = IF 1 <= k THEN k - 1 + 1 ELSE 0
        /\ \A i \in 1 .. k - 1 + 1 : SubSeq(t, 1, k)[i] = t[1 + i - 1]
    BY <2>1, <2>3, SubSeqProperties
  <2>5. /\ SubSeq(s, 1, k) \in Seq(S)
        /\ Len(SubSeq(s, 1, k)) = IF 1 <= k THEN k - 1 + 1 ELSE 0
        /\ \A i \in 1 .. k - 1 + 1 : SubSeq(s, 1, k)[i] = s[1 + i - 1]
    BY <2>1, <2>3, SubSeqProperties
  <2>6. Len(SubSeq(t, 1, k)) = k /\ Len(SubSeq(s, 1, k)) = k
    BY <2>1, <2>4, <2>5, SMT
  <2>7. \A i \in 1 .. k : SubSeq(t, 1, k)[i] = SubSeq(s, 1, k)[i]
    BY <2>1, <2>2, <2>3, <2>4, <2>5
  <2> QED
    BY <2>4, <2>5, <2>6, <2>7, SeqEqual
<1> QED
  BY <1>2, <1>3 DEF n, t

\* Whatever is written later comes after the messages that were sent.
LEMMA WrittenLater ==
    ASSUME NEW k \in 0 .. Len(sent), k < Len(sent), k < Len(sent'), WrittenAfter(k),
           sent[k + 1] \in Messages, sent'[k + 1] = sent[k + 1],
           FirstSent(k)' = FirstSent(k), NEW more \in Seq(Byte), written' = written \o more
    PROVE  WrittenAfter(k)'
<1>. DEFINE before == Encodings(FirstSent(k))
            next == Encode(sent[k + 1])
<1>1. PICK bytes \in Seq(Byte) : written = before \o bytes /\ AfterSent(k, bytes)
  BY DEF WrittenAfter
<1>2. before \in Seq(Byte) /\ next \in Seq(Byte)
  BY StreamAssumption DEF WrittenAfter
<1>3. PICK rest \in Seq(Byte) : bytes = next \o rest
  BY <1>1 DEF AfterSent
<1>4. Encodings(FirstSent(k))' = before /\ Encode(sent'[k + 1]) = next
  <2>1. Encodings(FirstSent(k)') = Encodings(FirstSent(k))
    OBVIOUS
  <2> QED
    BY <2>1
<1>. HIDE DEF before, next
<1>5. rest \o more \in Seq(Byte) /\ bytes \o more \in Seq(Byte)
  BY JoinBytes
<1>6. written' = before \o (bytes \o more)
  <2>1. before \o (bytes \o more) = (before \o bytes) \o more
    BY <1>2, JoinAssociates
  <2> QED
    BY <1>1, <2>1
<1>7. bytes \o more = next \o (rest \o more)
  <2>1. next \o (rest \o more) = (next \o rest) \o more
    BY <1>2, JoinAssociates
  <2> QED
    BY <1>3, <2>1
<1>8. AfterSent(k, bytes \o more)'
  <2>1. ~(k = Len(sent'))
    BY SMT
  <2> QED
    BY <1>4, <1>5, <1>7, <2>1 DEF AfterSent
<1> QED
  BY <1>2, <1>4, <1>5, <1>6, <1>8 DEF WrittenAfter

LEMMA SendingWrite ==
    ASSUME Sending, NEW m \in Messages, Write(m)
    PROVE  Sending'
<1> SUFFICES ASSUME reader \in Sockets, ~foreign
             PROVE  Sending'
  BY DEF Sending, Write, Put
<1>. DEFINE coded == Encode(m)
<1>0. PICK n : n = Len(sent)
  OBVIOUS
<1>1. /\ sent \in Seq(Writable) /\ m \in Writable /\ sent' = Append(sent, m)
      /\ \A k \in 0 .. n : WrittenAfter(k)
      /\ written' = written \o coded /\ received' = received /\ ~closed
      /\ reader' = reader /\ foreign' = foreign
  BY <1>0 DEF Sending, Write, MayWrite, Put, Writable
<1>2. /\ n \in Nat /\ sent' \in Seq(Writable) /\ Len(sent') = n + 1
      /\ \A i \in 1 .. n : sent'[i] = sent[i] /\ sent[i] \in Messages
      /\ sent'[n + 1] = m
  <2>1. /\ sent' \in Seq(Writable) /\ Len(sent') = n + 1
        /\ \A i \in 1 .. n : sent'[i] = sent[i]
        /\ sent'[n + 1] = m
    BY <1>0, <1>1, AppendProperties
  <2>2. n \in Nat /\ \A i \in 1 .. n : sent[i] \in Writable
    BY <1>0, <1>1, ElementOfSeq
  <2> QED
    BY <2>1, <2>2 DEF Writable
<1>3. /\ FirstSent(n + 1)' = sent' /\ FirstSent(n) = sent
      /\ \A k \in 0 .. n : FirstSent(k)' = FirstSent(k)
  BY <1>0, <1>1, FirstOfAppend, SubSeqFull DEF FirstSent
<1>4. coded \in Seq(Byte)
  BY StreamAssumption
<1>5. Encodings(sent) \in Seq(Byte) /\ written = Encodings(sent)
  <2>1. n \in 0 .. n /\ ~(n < n)
    BY <1>2, SMT
  <2>2. WrittenAfter(n)
    BY <1>1, <2>1
  <2>3. PICK bytes \in Seq(Byte) :
             written = Encodings(FirstSent(n)) \o bytes /\ AfterSent(n, bytes)
    BY <2>2 DEF WrittenAfter
  <2>4. bytes = <<>>
    BY <1>0, <1>1, <2>3 DEF AfterSent
  <2>5. Encodings(sent) \in Seq(Byte)
    BY <1>3, <2>2 DEF WrittenAfter
  <2> QED
    BY <1>3, <2>3, <2>4, <2>5, ConcatEmptySeq
<1>. HIDE DEF coded
<1>6. ASSUME NEW k \in 0 .. n, k < n PROVE WrittenAfter(k)'
  <2>1. k + 1 \in 1 .. n /\ k < n + 1
    BY <1>2, <1>6, SMT
  <2> QED
    BY <1>0, <1>1, <1>2, <1>3, <1>4, <1>6, <2>1, WrittenLater
<1>7. WrittenAfter(n)'
  <2>1. Encodings(FirstSent(n))' = Encodings(sent)
    <3>1. Encodings(FirstSent(n)') = Encodings(FirstSent(n))
      BY <1>2, <1>3
    <3> QED
      BY <1>3, <3>1
  <2>2. <<>> \in Seq(Byte) /\ coded = coded \o <<>>
    BY <1>4, EmptySeq, ConcatEmptySeq
  <2>3. AfterSent(n, coded)'
    <3>1. ~(n = n + 1) /\ n < n + 1
      BY <1>2, SMT
    <3>2. Encode(sent'[n + 1]) = coded
      BY <1>2 DEF coded
    <3> QED
      BY <1>2, <2>2, <3>1, <3>2 DEF AfterSent
  <2> QED
    BY <1>1, <1>4, <1>5, <2>1, <2>3 DEF WrittenAfter
<1>8. WrittenAfter(n + 1)'
  <2>1. Encodings(FirstSent(n + 1))' = Encodings(sent) \o coded
    <3>1. Encodings(sent') = Encodings(sent) \o coded
      BY <1>1, EncodingsAppend DEF coded
    <3>2. Encodings(FirstSent(n + 1)') = Encodings(sent')
      BY <1>3
    <3> QED
      BY <3>1, <3>2
  <2>2. /\ Encodings(sent) \o coded \in Seq(Byte) /\ <<>> \in Seq(Byte)
        /\ (Encodings(sent) \o coded) \o <<>> = Encodings(sent) \o coded
    BY <1>4, <1>5, JoinBytes, EmptySeq, ConcatEmptySeq
  <2>3. AfterSent(n + 1, <<>>)'
    <3>1. ~(n + 1 < n + 1)
      BY <1>2, SMT
    <3> QED
      BY <1>2, <3>1 DEF AfterSent, Broken
  <2> QED
    BY <1>1, <1>5, <2>1, <2>2, <2>3 DEF WrittenAfter
<1>9. \A k \in 0 .. Len(sent') : WrittenAfter(k)'
  <2>1. \A k \in 0 .. n + 1 : (k \in 0 .. n /\ k < n) \/ k = n \/ k = n + 1
    BY <1>2, SMT
  <2> QED
    BY <1>2, <1>6, <1>7, <1>8, <2>1
<1>10. ReceivedWasSent'
  <2>1. PICK k \in 0 .. n : received = FirstSent(k)
    BY <1>0 DEF Sending, ReceivedWasSent
  <2>2. k \in 0 .. n + 1
    BY <1>2, SMT
  <2> QED
    BY <1>1, <1>2, <1>3, <2>1, <2>2 DEF ReceivedWasSent
<1> QED
  BY <1>2, <1>9, <1>10 DEF Sending

LEMMA SendingBreaksOff ==
    ASSUME Sending, NEW m \in Messages, NEW l \in 0 .. Len(Encode(m)), WriteBreaksOff(m, l)
    PROVE  Sending'
<1> SUFFICES ASSUME reader \in Sockets, ~foreign
             PROVE  Sending'
  BY DEF Sending, WriteBreaksOff, Put
<1>. DEFINE n == Len(sent)
            part == SubSeq(Encode(m), 1, l)
<1>1. /\ sent \in Seq(Writable) /\ m \in Writable /\ sent' = sent
      /\ \A k \in 0 .. n : WrittenAfter(k)
      /\ written' = written \o part /\ received' = received /\ ~closed /\ closed'
      /\ reader' = reader /\ foreign' = foreign /\ l < Len(Encode(m))
  BY DEF Sending, WriteBreaksOff, MayWrite, Put, Writable, Prefix
<1>2. n \in Nat /\ \A i \in 1 .. n : sent[i] \in Messages
  <2>1. n \in Nat /\ \A i \in 1 .. n : sent[i] \in Writable
    BY <1>1, ElementOfSeq
  <2> QED
    BY <2>1 DEF Writable
<1>3. Encode(m) \in Seq(Byte) /\ part \in Seq(Byte)
  BY StreamAssumption, FirstBytes
<1>4. Broken(part)
  <2>1. l \in 0 .. Len(Encode(m)) - 1
    BY <1>1, <1>3
  <2> QED
    BY <1>1, <2>1 DEF Broken
<1>. HIDE DEF part, n
<1>5. \A k : FirstSent(k)' = FirstSent(k)
  BY <1>1 DEF FirstSent
<1>6. ASSUME NEW k \in 0 .. n PROVE WrittenAfter(k)'
  <2>1. CASE k < n
    <3>1. k + 1 \in 1 .. n
      BY <1>2, <2>1, SMT
    <3> QED
      BY <1>1, <1>2, <1>3, <1>5, <2>1, <3>1, WrittenLater DEF n
  <2>2. CASE k = n
    <3>1. PICK bytes \in Seq(Byte) :
               written = Encodings(FirstSent(k)) \o bytes /\ AfterSent(k, bytes)
      BY <1>1 DEF WrittenAfter
    <3>2. bytes = <<>>
      BY <1>1, <2>2, <3>1 DEF AfterSent, n
    <3>3. Encodings(FirstSent(k)) \in Seq(Byte)
      BY <1>1 DEF WrittenAfter
    <3>4. Encodings(FirstSent(k))' = Encodings(FirstSent(k))
      <4>1. Encodings(FirstSent(k)') = Encodings(FirstSent(k))
        BY <1>5
      <4> QED
        BY <4>1
    <3>5. written' = Encodings(FirstSent(k)) \o part
      BY <1>1, <3>1, <3>2, <3>3, ConcatEmptySeq
    <3>6. AfterSent(k, part)'
      <4>1. ~(k < n)
        BY <1>2, <2>2, SMT
      <4>2. Broken(part)'
        BY <1>4 DEF Broken
      <4> QED
        BY <1>1, <4>1, <4>2 DEF AfterSent, n
    <3> QED
      BY <1>3, <3>3, <3>4, <3>5, <3>6 DEF WrittenAfter
  <2>3. k < n \/ k = n
    BY <1>2, SMT
  <2> QED
    BY <2>1, <2>2, <2>3
<1>7. ReceivedWasSent'
  BY <1>1, <1>5 DEF Sending, ReceivedWasSent, FirstSent
<1> QED
  BY <1>1, <1>6, <1>7 DEF Sending, n

\* A message that is handed on is the one that is due.
LEMMA SendingDecode ==
    ASSUME \A m \in Messages : Sendable(m), Accounting, Sending, DecodeMessage
    PROVE  Sending'
<1> SUFFICES ASSUME reader \in Sockets, ~foreign
             PROVE  Sending'
  BY DEF Sending, DecodeMessage, writerVars
<1>. DEFINE n == Len(sent)
            decoded == decode_v2_message(encoded)
            typed == IF decoded.result = "complete" /\ decoded.consumed = Len(encoded)
                     THEN decode_v2_payload(decoded.type, decoded.payload) ELSE {}
            before == Encodings(received)
<1>1. /\ sent' = sent /\ written' = written /\ closed' = closed
      /\ reader' = reader /\ foreign' = foreign
      /\ sent \in Seq(Writable) /\ \A k \in 0 .. n : WrittenAfter(k)
  BY DEF DecodeMessage, writerVars, Sending
<1>2. /\ encoded \in Seq(Byte) /\ stream \in Seq(Byte) /\ before \in Seq(Byte)
      /\ before \o encoded \o stream = written
  BY DEF Accounting, EveryByteAccounted
<1>3. \A k : FirstSent(k)' = FirstSent(k) /\ (WrittenAfter(k) => WrittenAfter(k)')
  <2>1. ASSUME NEW k PROVE FirstSent(k)' = FirstSent(k)
    BY <1>1 DEF FirstSent
  <2>2. ASSUME NEW k, WrittenAfter(k) PROVE WrittenAfter(k)'
    <3>1. Encodings(FirstSent(k)') = Encodings(FirstSent(k))
      BY <2>1
    <3> QED
      BY <1>1, <2>2, <3>1 DEF WrittenAfter, AfterSent
  <2> QED
    BY <2>1, <2>2
<1>4. PICK k \in 0 .. n : received = FirstSent(k)
  BY DEF Sending, ReceivedWasSent
<1>5. PICK bytes \in Seq(Byte) : written = before \o bytes /\ AfterSent(k, bytes)
  BY <1>1, <1>4 DEF WrittenAfter
<1>6. encoded \o stream = bytes
  <2>1. before \o (encoded \o stream) = before \o bytes
    <3>1. before \o (encoded \o stream) = (before \o encoded) \o stream
      BY <1>2, JoinAssociates
    <3> QED
      BY <1>2, <1>5, <3>1
  <2>2. encoded \o stream \in Seq(Byte)
    BY <1>2, JoinBytes
  <2>3. \A s, t, u \in Seq(Byte) : s \o t = s \o u => t = u
    BY ConcatSimplifications
  <2>. HIDE DEF before
  <2> QED
    BY <1>2, <2>1, <2>2, <2>3
<1>7. \/ \E m \in typed : received' = Append(received, m)
      \/ received' = received
  BY DEF DecodeMessage
<1>8. n \in Nat /\ \A i \in 1 .. n : sent[i] \in Writable
  BY <1>1, ElementOfSeq
<1>9. ASSUME NEW m \in typed, received' = Append(received, m)
      PROVE  ReceivedWasSent'
  <2>1. /\ decoded.result = "complete" /\ decoded.consumed = Len(encoded)
        /\ m \in decode_v2_payload(decoded.type, decoded.payload)
    BY <1>9
  <2>. HIDE DEF n, before
  <2>2. k < n
    <3>1. CASE k = n
      <4>1. Broken(encoded \o stream)
        BY <1>5, <1>6, <3>1 DEF AfterSent, n
      <4> QED
        BY <1>2, <2>1, <4>1, PartIsNotFound
    <3> QED
      BY <1>8, <3>1, SMT
  <2>3. k + 1 \in 1 .. n
    BY <1>8, <2>2, SMT
  <2>4. m = sent[k + 1]
    <3>. DEFINE s == sent[k + 1]
    <3>1. s \in Messages /\ Encodable(Len(PayloadOf(s))) /\ Sendable(s)
      BY <1>8, <2>3 DEF Writable
    <3>2. PICK rest \in Seq(Byte) : bytes = Encode(s) \o rest
      BY <1>5, <2>2 DEF AfterSent, n
    <3>3. encoded \o stream = Encode(s) \o rest
      BY <1>6, <3>2
    <3>. HIDE DEF s
    <3>4. m = s
      BY <1>2, <2>1, <3>1, <3>3, NextIsFound
    <3> QED
      BY <3>4 DEF s
  <2>5. received' = FirstSent(k + 1)
    <3>1. SubSeq(sent, 1, k + 1) = Append(SubSeq(sent, 1, k), sent[k + 1])
      BY <1>1, <2>2, FirstAndNext DEF n
    <3> QED
      BY <1>4, <1>9, <2>4, <3>1 DEF FirstSent
  <2>6. k + 1 \in 0 .. n
    BY <2>3, SMT
  <2> QED
    BY <1>1, <1>3, <2>5, <2>6 DEF ReceivedWasSent, n
<1>10. ASSUME received' = received
       PROVE  ReceivedWasSent'
  BY <1>1, <1>3, <1>4, <1>10 DEF ReceivedWasSent
<1>11. ReceivedWasSent'
  BY <1>7, <1>9, <1>10
<1> QED
  BY <1>1, <1>3, <1>11 DEF Sending

\* A step that writes nothing and hands nothing on.
LEMMA SendingStays ==
    ASSUME Sending, UNCHANGED <<reader, sent, foreign, written, received>>,
           closed' = closed \/ closed'
    PROVE  Sending'
<1> SUFFICES ASSUME reader \in Sockets, ~foreign
             PROVE  Sending'
  BY DEF Sending
<1>1. ASSUME NEW k PROVE FirstSent(k)' = FirstSent(k)
  BY DEF FirstSent
<1>2. ASSUME NEW k, WrittenAfter(k) PROVE WrittenAfter(k)'
  <2>1. Encodings(FirstSent(k)') = Encodings(FirstSent(k))
    BY <1>1
  <2>2. ASSUME NEW bytes, AfterSent(k, bytes) PROVE AfterSent(k, bytes)'
    BY <2>2 DEF AfterSent
  <2> QED
    BY <1>2, <2>1, <2>2 DEF WrittenAfter
<1> QED
  BY <1>1, <1>2 DEF Sending, ReceivedWasSent

LEMMA SendingInit == Init => Sending
<1> SUFFICES ASSUME Init
             PROVE  Sending
  OBVIOUS
<1>1. sent = <<>> /\ written = <<>> /\ received = <<>> /\ Len(sent) = 0
  BY DEF Init, StreamInit
<1>2. 0 \in 0 .. 0 /\ \A k \in 0 .. 0 : k = 0
  BY SMT
<1>3. FirstSent(0) = <<>>
  BY <1>1, SubSeqEmpty DEF FirstSent
<1>4. <<>> \in Seq(Byte) /\ <<>> \o <<>> = <<>> /\ <<>> \in Seq(Writable)
  BY EmptySeq, ConcatEmptySeq
<1>5. AfterSent(0, <<>>)
  BY <1>1 DEF AfterSent, Broken
<1>6. WrittenAfter(0)
  BY <1>1, <1>3, <1>4, <1>5, EncodingsEmpty DEF WrittenAfter
<1>7. ReceivedWasSent
  BY <1>1, <1>2, <1>3 DEF ReceivedWasSent
<1> QED
  BY <1>1, <1>2, <1>4, <1>6, <1>7 DEF Sending

LEMMA SendingNext ==
    ASSUME \A m \in Messages : Sendable(m), Cleanup, Accounting, Sending, [Next]_vars
    PROVE  Sending'
<1>1. CASE UNCHANGED vars
  BY <1>1, SendingStays DEF vars, streamVars
<1>2. CASE Writer
  <2>1. ASSUME NEW m \in Messages, NEW i \in 1 .. Len(Encode(m)), NEW b \in ForeignBytes,
               WriteForeign(m, i, b)
        PROVE  Sending'
    BY <2>1 DEF WriteForeign, Sending
  <2>2. CASE Close
    BY <2>2, SendingStays DEF Close
  <2> QED
    BY <1>2, <2>1, <2>2, SendingWrite, SendingBreaksOff DEF Writer
<1>3. CASE SocketReader \/ ReadStep
  <2>1. CASE DecodeMessage
    BY <2>1, SendingDecode
  <2>2. CASE Begin \/ DecodeHeader \/ ReadStep
    BY <2>2, SendingStays DEF Begin, DecodeHeader, ReadStep, ReadSome, UnexpectedEof, writerVars
  <2> QED
    BY <1>3, <2>1, <2>2 DEF SocketReader
<1>4. ASSUME reader = "helper", reader' = reader
      PROVE  Sending'
  BY <1>4 DEF Sending, Sockets
<1>6. CASE Helper \/ HelperDies
  <2>1. helper # "none" /\ reader' = reader
    BY <1>6 DEF Helper, HelperDies, StartProvider, ProviderFails, Poll, Render, WritePiece,
       Running, Alive, streamVars
  <2>2. reader \notin Sockets
    BY <2>1 DEF Accounting
  <2> QED
    BY <2>1, <2>2 DEF Sending
<1>7. CASE HelperReader
  <2>1. reader = "helper" /\ reader' = reader
    BY <1>7 DEF HelperReader, DecodeHelperHeader, HelperPayloadRead
  <2> QED
    BY <1>4, <2>1
<1>8. CASE AdapterDies
  BY <1>8, SendingStays DEF AdapterDies, streamVars
<1>9. CASE Tick
  BY <1>9, SendingStays DEF Tick, streamVars
<1>10. CASE Loader
  <2>1. loader # "idle" /\ reader' = reader
    BY <1>10 DEF Loader, SpawnHelper, SpawnReader, Receive, TimedOut, SendTerm, SendKill,
       SendKillToRest, SignalGroup, GraceElapses, CheckGroup, GroupGone, JoinReader, Reap, Goto,
       LoaderRest, streamVars
  <2>2. reader = "helper"
    BY <2>1 DEF Cleanup
  <2> QED
    BY <1>4, <2>1, <2>2
<1> QED
  BY <1>1, <1>2, <1>3, <1>6, <1>7, <1>8, <1>9, <1>10 DEF Next

\* Whatever pieces a stream arrives in and wherever the writer breaks off, a
\* reader has received exactly the first of the messages that were sent, as
\* they were sent.  That messages are sendable is what HellosArrive,
\* TouchesAndViewportsArrive and, of frames, ScreenProofs say.
THEOREM MessagesArriveInOrder ==
    ASSUME \A m \in Messages : Sendable(m)
    PROVE  Spec => []ReceivedWasSent
<1>. DEFINE Inv == Cleanup /\ Accounting /\ Sending
<1>1. Init => Inv
  BY CleanupInit, AccountingInit, SendingInit
<1>2. Inv /\ [Next]_vars => Inv'
  BY CleanupNext, AccountingNext, SendingNext
<1>3. Inv => ReceivedWasSent
  BY DEF Sending, ReceivedWasSent
<1> QED
  BY <1>1, <1>2, <1>3, PTL DEF Spec
=============================================================================
