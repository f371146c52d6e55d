-------------------------------- MODULE Ppfb --------------------------------
(***************************************************************************)
(* The binary messages of PaperPad and PaperSpoon, PPFB version 2          *)
(* (crates/paper-protocol): a header of twelve bytes that names the type   *)
(* and the length of a payload, and five typed payloads.  A message is a   *)
(* record, its encoding a sequence of bytes.  Multi-byte numbers are big   *)
(* endian.  A frame ID has 64 bits: it is the pair of its 32-bit halves.   *)
(* That a decoder refuses is kept, why it does is not.                     *)
(***************************************************************************)
EXTENDS Integers, Sequences

CONSTANT V2_MAX_PAYLOAD_LEN  \* 16 MiB

Byte == 0 .. 255

V2_MAGIC == <<80, 80, 70, 66>>
V2_VERSION == 2
V2_HEADER_LEN == 12
V2_HELLO_PAYLOAD_LEN == 8
V2_POINTER_PAYLOAD_LEN == 4
V2_VIEWPORT_PAYLOAD_LEN == 4
V2_FRAME_PREFIX_LEN == 16

ASSUME PayloadAssumption ==
    V2_MAX_PAYLOAD_LEN \in V2_FRAME_PREFIX_LEN .. 256 * 256 * 256

\* The wire value of a type is its place.
MessageTypes == <<"Hello", "PointerDown", "PointerUp", "ViewportChanged", "Frame">>
TypeValue(type) == CHOOSE v \in DOMAIN MessageTypes : MessageTypes[v] = type

\* Formats by wire value.
PixelFormats == <<"Mono1", "Gray8">>
pixel_format_value(format) == CHOOSE v \in DOMAIN PixelFormats : PixelFormats[v] = format

-----------------------------------------------------------------------------
(* Numbers as bytes.  first is the index of the first byte.                *)

be16(n) == <<n \div 256, n % 256>>
be32(n) == <<n \div (256 * 256 * 256), (n \div (256 * 256)) % 256,
             (n \div 256) % 256, n % 256>>

U16(bytes, first) == bytes[first] * 256 + bytes[first + 1]
U32(bytes, first) == U16(bytes, first) * (256 * 256) + U16(bytes, first + 2)

AllZero(bytes, first, last) == \A i \in first .. last : bytes[i] = 0

-----------------------------------------------------------------------------
(* Frames: rows of packed bits, MSB first and 1 for black, or of bytes.    *)

mono1_stride(w) == (w + 7) \div 8
gray8_stride(w) == w
Stride(format, w) == IF format = "Mono1" THEN mono1_stride(w) ELSE gray8_stride(w)

validate_gray8_pixels(w, h, pixels) ==
    /\ w > 0 /\ h > 0
    /\ Len(pixels) = gray8_stride(w) * h

\* Unused low bits of a row's last byte are zero.
WhitePadding(w, h, pixels) ==
    w % 8 # 0 =>
        \A row \in 1 .. h : pixels[row * mono1_stride(w)] % (2^(8 - (w % 8))) = 0

validate_mono1_pixels(w, h, pixels) ==
    /\ w > 0 /\ h > 0
    /\ Len(pixels) = mono1_stride(w) * h
    /\ WhitePadding(w, h, pixels)

ValidPixels(format, w, h, pixels) ==
    \/ format = "Mono1" /\ validate_mono1_pixels(w, h, pixels)
    \/ format = "Gray8" /\ validate_gray8_pixels(w, h, pixels)

\* Mono1Frame::pixel and Gray8Frame::pixel, of a pixel inside the frame.
Mono1Pixel(w, pixels, x, y) ==
    (pixels[y * mono1_stride(w) + x \div 8 + 1] \div (2^(7 - (x % 8)))) % 2

Gray8Pixel(w, pixels, x, y) == pixels[y * gray8_stride(w) + x + 1]

-----------------------------------------------------------------------------
(* Encoding.                                                               *)

\* V2Header::new
Encodable(length) == length <= V2_MAX_PAYLOAD_LEN

V2Header(type, length) ==
    LET size == be32(length)
    IN  <<V2_MAGIC[1], V2_MAGIC[2], V2_MAGIC[3], V2_MAGIC[4], V2_VERSION, TypeValue(type),
          0, 0, size[1], size[2], size[3], size[4]>>

encode_v2_message(type, payload) == V2Header(type, Len(payload)) \o payload

pixel_format_mask(format) == IF format = "Mono1" THEN 1 ELSE 2

mask(formats) ==
    (IF "Mono1" \in formats THEN pixel_format_mask("Mono1") ELSE 0)
        + (IF "Gray8" \in formats THEN pixel_format_mask("Gray8") ELSE 0)

HelloPayload(m) ==
    <<V2_VERSION, mask(m.formats), 0, 0>> \o be16(m.width) \o be16(m.height)
ViewportPayload(m) == be16(m.width) \o be16(m.height)
PointerPayload(m) == be16(m.x) \o be16(m.y)
FramePayload(m) ==
    be32(m.id[1]) \o be32(m.id[2]) \o be16(m.width) \o be16(m.height)
        \o <<pixel_format_value(m.format), 0, 0, 0>> \o m.pixels

PayloadOf(m) ==
    CASE m.type = "Hello" -> HelloPayload(m)
      [] m.type = "ViewportChanged" -> ViewportPayload(m)
      [] m.type \in {"PointerDown", "PointerUp"} -> PointerPayload(m)
      [] m.type = "Frame" -> FramePayload(m)

Encode(m) == encode_v2_message(m.type, PayloadOf(m))

-----------------------------------------------------------------------------
(* Decoding of one message from the start of a buffer.                     *)

Incomplete(additional) == [result |-> "incomplete", additional |-> additional]
Invalid == [result |-> "invalid"]
Complete(type, payload, consumed) ==
    [result |-> "complete", type |-> type, payload |-> payload, consumed |-> consumed]

ValidHeader(input) ==
    /\ SubSeq(input, 1, 4) = V2_MAGIC
    /\ input[5] = V2_VERSION
    /\ input[6] \in DOMAIN MessageTypes
    /\ AllZero(input, 7, 8)
    /\ U32(input, 9) <= V2_MAX_PAYLOAD_LEN

decode_v2_message(input) ==
    IF Len(input) < V2_HEADER_LEN THEN Incomplete(V2_HEADER_LEN - Len(input))
    ELSE IF ~ValidHeader(input) THEN Invalid
    ELSE LET consumed == V2_HEADER_LEN + U32(input, 9)
         IN  IF Len(input) < consumed THEN Incomplete(consumed - Len(input))
             ELSE Complete(MessageTypes[input[6]],
                           SubSeq(input, V2_HEADER_LEN + 1, consumed), consumed)

-----------------------------------------------------------------------------
(* Decoding of a payload: the messages it may be, none or one.             *)

require_exact_length(payload, expected) == Len(payload) = expected

decode_hello(payload) ==
    IF /\ require_exact_length(payload, V2_HELLO_PAYLOAD_LEN)
       /\ payload[1] = V2_VERSION
       /\ payload[2] \in 1 .. 3
       /\ AllZero(payload, 3, 4)
    THEN {[type |-> "Hello", width |-> U16(payload, 5), height |-> U16(payload, 7),
           formats |-> {f \in {"Mono1", "Gray8"} :
                           (payload[2] \div pixel_format_mask(f)) % 2 = 1}]}
    ELSE {}

decode_pointer(phase, payload) ==
    IF require_exact_length(payload, V2_POINTER_PAYLOAD_LEN)
    THEN {[type |-> phase, x |-> U16(payload, 1), y |-> U16(payload, 3)]}
    ELSE {}

decode_viewport(payload) ==
    IF require_exact_length(payload, V2_VIEWPORT_PAYLOAD_LEN)
    THEN {[type |-> "ViewportChanged", width |-> U16(payload, 1), height |-> U16(payload, 3)]}
    ELSE {}

\* A slip: the reserved bytes of a frame are not looked at.
FrameReservedIgnored(payload) == TRUE

FrameReserved(payload) == AllZero(payload, 14, 16)

decode_frame(payload) ==
    IF /\ Len(payload) >= V2_FRAME_PREFIX_LEN
       /\ payload[13] \in DOMAIN PixelFormats
       /\ FrameReserved(payload)
       /\ ValidPixels(PixelFormats[payload[13]], U16(payload, 9), U16(payload, 11),
                      SubSeq(payload, V2_FRAME_PREFIX_LEN + 1, Len(payload)))
    THEN {[type |-> "Frame", id |-> <<U32(payload, 1), U32(payload, 5)>>,
           width |-> U16(payload, 9), height |-> U16(payload, 11),
           format |-> PixelFormats[payload[13]],
           pixels |-> SubSeq(payload, V2_FRAME_PREFIX_LEN + 1, Len(payload))]}
    ELSE {}

decode_v2_payload(type, payload) ==
    CASE type = "Hello" -> decode_hello(payload)
      [] type = "ViewportChanged" -> decode_viewport(payload)
      [] type \in {"PointerDown", "PointerUp"} -> decode_pointer(type, payload)
      [] type = "Frame" -> decode_frame(payload)
=============================================================================
