---------------------------- MODULE MessageStream ----------------------------
(***************************************************************************)
(* One direction of a TCP connection, byte by byte: one end writes         *)
(* messages, the other reads a header, learns from it how much is left,    *)
(* reads that and decodes it.  reader is PaperPad's reader thread          *)
(* (src/net/mod.rs, read_inbound_frame), PaperSpoon's session              *)
(* (tools/paperspoon/src/inbound.rs) or the thread that reads the answer   *)
(* of the Now Playing helper, which NowPlaying describes.  The other       *)
(* modules take from here that a message arrives whole or breaks off.      *)
(***************************************************************************)
EXTENDS Ppfb

CONSTANTS
    Messages,      \* what the writer may send
    MaxSent,       \* messages it sends
    ForeignBytes   \* what another version may have in place of a byte

ASSUME StreamAssumption ==
    /\ \A m \in Messages : Encode(m) \in Seq(Byte)
    /\ ForeignBytes \subseteq Byte

VARIABLES
    reader,    \* who reads: "paperpad", "paperspoon" or "helper"
    sent,      \* messages the writer sent whole
    foreign,   \* one of them was of another version
    written,   \* every byte written, for the properties
    stream,    \* bytes written and not yet read
    closed,    \* the writer has closed its end
    phase,     \* of the reader: "idle", "header", "payload", "done", "failed"
    encoded,   \* the buffer of the message being read
    wanted,    \* bytes that read_exact still waits for
    received   \* messages that were handed on

streamVars == <<reader, sent, foreign, written, stream, closed, phase, encoded, wanted, received>>
writerVars == <<sent, foreign, written, closed>>

Sockets == {"paperpad", "paperspoon"}

Prefix(s, n) == SubSeq(s, 1, n)
Suffix(s, n) == SubSeq(s, n + 1, Len(s))

StreamInit ==
    /\ sent = <<>> /\ foreign = FALSE
    /\ written = <<>> /\ stream = <<>> /\ closed = FALSE
    /\ phase = "idle" /\ encoded = <<>> /\ wanted = 0
    /\ received = <<>>

-----------------------------------------------------------------------------
(* The writer: write_all of one encoded message after another.             *)

\* PaperSpoon sends frames and PaperPad the rest.
MayWrite(m) ==
    /\ reader \in Sockets /\ ~closed
    /\ m.type = "Frame" <=> reader = "paperpad"
    /\ Len(sent) < MaxSent
    /\ Encodable(Len(PayloadOf(m)))

Put(bytes) ==
    /\ written' = written \o bytes
    /\ stream' = stream \o bytes
    /\ UNCHANGED <<reader, phase, encoded, wanted, received>>

Write(m) ==
    /\ MayWrite(m)
    /\ sent' = Append(sent, m)
    /\ Put(Encode(m))
    /\ UNCHANGED <<foreign, closed>>

\* write_all fails after n bytes, and the writer gives the connection up.
WriteBreaksOff(m, n) ==
    /\ MayWrite(m)
    /\ n < Len(Encode(m))
    /\ closed' = TRUE
    /\ Put(Prefix(Encode(m), n))
    /\ UNCHANGED <<sent, foreign>>

\* The writer is of another version: one byte is not what it should be.
WriteForeign(m, i, b) ==
    /\ MayWrite(m) /\ ~foreign
    /\ i \in 1 .. Len(Encode(m)) /\ Encode(m)[i] # b
    /\ foreign' = TRUE
    /\ sent' = Append(sent, m)
    /\ Put([Encode(m) EXCEPT ![i] = b])
    /\ UNCHANGED closed

Close ==
    /\ reader \in Sockets /\ ~closed
    /\ closed' = TRUE
    /\ UNCHANGED <<reader, sent, foreign, written, stream, phase, encoded, wanted, received>>

Writer ==
    \/ \E m \in Messages :
          \/ Write(m)
          \/ \E n \in 0 .. Len(Encode(m)) : WriteBreaksOff(m, n)
          \/ \E i \in 1 .. Len(Encode(m)), b \in ForeignBytes : WriteForeign(m, i, b)
    \/ Close

-----------------------------------------------------------------------------
(* The reader.                                                             *)

\* fill_buf returns: there are bytes, or nothing follows.
Begin ==
    /\ reader \in Sockets /\ phase = "idle"
    /\ \/ /\ stream # <<>>
          /\ phase' = "header" /\ encoded' = <<>> /\ wanted' = V2_HEADER_LEN
       \/ /\ stream = <<>> /\ closed
          /\ phase' = "done"
          /\ UNCHANGED <<encoded, wanted>>
    /\ UNCHANGED <<reader, writerVars, stream, received>>

\* One read of a read_exact.  A socket delivers any piece of what is there, the
\* helper's pipe what was written at a time.
ReadSome(n) ==
    /\ phase \in {"header", "payload"}
    /\ n <= wanted
    /\ reader = "helper" => n = wanted \/ n = Len(stream)
    /\ encoded' = encoded \o Prefix(stream, n)
    /\ stream' = Suffix(stream, n)
    /\ wanted' = wanted - n
    /\ UNCHANGED <<reader, writerVars, phase, received>>

UnexpectedEof ==
    /\ phase \in {"header", "payload"} /\ wanted > 0
    /\ stream = <<>> /\ closed
    /\ phase' = "failed"
    /\ UNCHANGED <<reader, writerVars, stream, encoded, wanted, received>>

\* A slip: the length of the header is asked for again.
AdditionalWithHeader(additional) == additional + V2_HEADER_LEN

Additional(additional) == additional

DecodeHeader ==
    /\ reader \in Sockets /\ phase = "header" /\ wanted = 0
    /\ LET decoded == decode_v2_message(encoded)
       IN  IF decoded.result = "invalid"
           THEN phase' = "failed" /\ UNCHANGED wanted
           ELSE /\ phase' = "payload"
                /\ wanted' = IF decoded.result = "incomplete"
                             THEN Additional(decoded.additional) ELSE 0
    /\ UNCHANGED <<reader, writerVars, stream, encoded, received>>

\* PaperPad takes frames; PaperSpoon a Hello first and only then, and no frame.
Expected(m) ==
    \/ reader = "paperpad" /\ m.type = "Frame"
    \/ reader = "paperspoon" /\ m.type # "Frame" /\ (m.type = "Hello" <=> received = <<>>)

DecodeMessage ==
    /\ reader \in Sockets /\ phase = "payload" /\ wanted = 0
    /\ LET decoded == decode_v2_message(encoded)
           typed == IF decoded.result = "complete" /\ decoded.consumed = Len(encoded)
                    THEN decode_v2_payload(decoded.type, decoded.payload) ELSE {}
       IN  \/ \E m \in typed :
                 /\ Expected(m)
                 /\ received' = Append(received, m)
                 /\ phase' = "idle" /\ encoded' = <<>>
           \/ /\ \A m \in typed : ~Expected(m)
              /\ phase' = "failed"
              /\ UNCHANGED <<encoded, received>>
    /\ UNCHANGED <<reader, writerVars, stream, wanted>>

ReadStep ==
    \/ \E n \in 1 .. Len(stream) : ReadSome(n)
    \/ UnexpectedEof

SocketReader == Begin \/ DecodeHeader \/ DecodeMessage

-----------------------------------------------------------------------------
(* Properties                                                              *)

\* The encodings of messages, one after the other.
Encodings(messages) ==
    LET upTo[n \in 0 .. Len(messages)] ==
            IF n = 0 THEN <<>> ELSE upTo[n - 1] \o Encode(messages[n])
    IN  upTo[Len(messages)]

\* No byte is lost, read twice or read into the wrong message: what was
\* handed on, encoded again, then the buffer, then what is left in the stream
\* are the bytes written.  So a message has one encoding, and whatever a
\* decoder accepts (reserved bytes, padding, formats) is what the encoder of
\* that message writes, even when the writer was of another version.
EveryByteAccounted ==
    reader \in Sockets => Encodings(received) \o encoded \o stream = written

\* A sequence of messages as this version sends it to the reader.
InOrder(messages) ==
    \/ reader = "paperpad" /\ \A i \in DOMAIN messages : messages[i].type = "Frame"
    \/ reader = "paperspoon" /\ \A i \in DOMAIN messages :
           messages[i].type # "Frame" /\ (messages[i].type = "Hello" <=> i = 1)

\* A reader never waits for bytes that belong to nothing, or stops at a
\* message of this version: what was sent whole is received, whatever the
\* pieces it arrives in and whether or not anything follows.
SentIsReceived == []<>(reader \in Sockets /\ ~foreign /\ InOrder(sent) => received = sent)
=============================================================================
