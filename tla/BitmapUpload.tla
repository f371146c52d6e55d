---------------------------- MODULE BitmapUpload ----------------------------
(***************************************************************************)
(* Drawing a Mono1 frame in PaperPad's X11 window (src/x11/framebuffer.rs, *)
(* backend.rs): its rows are repacked for the bit order, the byte order,   *)
(* the unit and the padding of the server, and sent as PutImage requests   *)
(* that are as large as the server allows.                                 *)
(***************************************************************************)
EXTENDS Picture

CONSTANT XServers  \* bitmap formats and request limits of servers

ASSUME BitmapUploadAssumption == \A server \in XServers : server.max_request \in Nat

VARIABLE xserver   \* the one PaperPad is connected to

PUT_IMAGE_REQUEST_HEADER_BYTES == 24
NoServer == <<>>

BitmapUploadInit == xserver = NoServer

\* BitmapFormat::new and X11BitmapAdapter::new
AdapterFor(server) ==
    /\ server.unit \in {8, 16, 32} /\ server.pad \in {8, 16, 32}
    /\ server.unit <= server.pad
    /\ server.max_request > PUT_IMAGE_REQUEST_HEADER_BYTES

\* Without an adapter frames are not drawn at all.
ConnectServer(server) ==
    /\ display = "none"
    /\ LayoutHeight > SYSTEM_UI_HEIGHT
    /\ xserver' = server
    /\ display' = IF AdapterFor(server) THEN "x11" ELSE "refused"
    /\ panel' = [p \in Points(Window) |-> Unknown]
    /\ UNCHANGED <<shown, cached, unexplained, drawings, faults>>

-----------------------------------------------------------------------------
(* Preparing.                                                              *)

row_stride(w) == (((w + xserver.pad - 1) \div xserver.pad) * xserver.pad) \div 8

\* A slip: the header is not subtracted.
maximum_data_bytes_whole == (xserver.max_request \div 4) * 4

maximum_data_bytes == ((xserver.max_request - PUT_IMAGE_REQUEST_HEADER_BYTES) \div 4) * 4

rows_per_chunk == Least(maximum_data_bytes \div row_stride(LayoutWidth), MAX_SIZE)

\* The bits of one unit of a row, by significance.
encode_unit(frame, row, first_pixel) ==
    [bit \in 0 .. xserver.unit - 1 |->
        LET column == first_pixel +
                (IF xserver.bit_order = "LSB" THEN bit ELSE xserver.unit - 1 - bit)
        IN  IF column < frame.width
            THEN Mono1Pixel(frame.width, frame.pixels, column, row) ELSE 0]

\* Byte index of a unit.
write_unit(bits, index) ==
    LET significance ==
            IF xserver.byte_order = "LSB" THEN index ELSE xserver.unit \div 8 - 1 - index
    IN  Octet([offset \in 0 .. 7 |-> bits[significance * 8 + 7 - offset]])

\* PreparedBitmap: the bytes of each row.
prepare(frame) ==
    [row \in 0 .. frame.height - 1 |->
        [i \in 0 .. row_stride(frame.width) - 1 |->
            LET unit_bytes == xserver.unit \div 8
            IN  write_unit(encode_unit(frame, row, (i \div unit_bytes) * xserver.unit),
                           i % unit_bytes)]]

\* The first rows of the chunks.
Chunks == {row \in 0 .. RemoteHeight - 1 : row % rows_per_chunk = 0}
ChunkRows(first) == first .. Least(first + rows_per_chunk, RemoteHeight) - 1

-----------------------------------------------------------------------------
(* The server: the core protocol's reading of an XYBitmap, and its limit.  *)

RequestLength(rows) ==
    PUT_IMAGE_REQUEST_HEADER_BYTES + ((rows * row_stride(LayoutWidth) + 3) \div 4) * 4

ServerAccepts(rows) == RequestLength(rows) <= xserver.max_request

ServerPixel(data, column) ==
    LET offset == column % xserver.unit
        bit == IF xserver.bit_order = "LSB" THEN offset ELSE xserver.unit - 1 - offset
        byte == IF xserver.byte_order = "LSB" THEN bit \div 8
                ELSE xserver.unit \div 8 - 1 - bit \div 8
    IN  (data[(column \div xserver.unit) * (xserver.unit \div 8) + byte] \div (2^(bit % 8))) % 2

-----------------------------------------------------------------------------
(* Uploading: chunks are sent until one cannot be; all that were sent are  *)
(* checked.  lost is the chunk that fails, "send" or "reject" how.         *)

Uploaded(how, lost) ==
    {first \in Chunks :
        /\ ServerAccepts(Cardinality(ChunkRows(first)))
        /\ how = "send" => first < lost
        /\ how = "reject" => first # lost}

RowOfChunk(row) == (row \div rows_per_chunk) * rows_per_chunk

\* The window after the chunks drew on it; other is what is seen elsewhere.
Blitted(bitmap, chunks, other) ==
    [p \in Points(Window) |->
        IF Contains(remote_viewport, p[1], p[2])
           /\ RowOfChunk(p[2] - remote_viewport.y) \in chunks
        THEN IF ServerPixel(bitmap[p[2] - remote_viewport.y], p[1] - remote_viewport.x) = 1
             THEN BLACK ELSE WHITE
        ELSE other[p]]

BlitResult(how, chunks) ==
    IF how # "none" THEN "fault" ELSE IF chunks = Chunks THEN "ok" ELSE "error"

\* Draw over other, with one chunk lost or none.
Blit(picture, other, how, lost) ==
    \E frame \in RemoteFrames(picture) :
        LET chunks == Uploaded(how, lost)
            result == BlitResult(how, chunks)
        IN  /\ panel' = Blitted(prepare(frame), chunks, other)
            /\ Drawn(picture, result)
            /\ shown' = IF result = "ok" THEN picture ELSE NoPicture

\* A row that does not fit a request is an error of prepare, by design.
MayBlit(how, lost) ==
    /\ MayDraw("x11") /\ rows_per_chunk > 0
    /\ how = "none" \/ faults < MaxFaults
    /\ how = "none" => lost = 0
    /\ lost \in Chunks

\* display_remote_frame: other formats are rejected.
DisplayFrame(picture, how, lost) ==
    /\ MayBlit(how, lost)
    /\ picture.format = "Mono1"
    /\ Blit(picture, panel, how, lost)
    /\ UNCHANGED xserver

\* redraw_cached_frame clears the viewport to the background first.
Cleared ==
    [p \in Points(Window) |->
        IF Contains(remote_viewport, p[1], p[2]) THEN WHITE ELSE panel[p]]

RedrawFrame(how, lost) ==
    /\ MayBlit(how, lost)
    /\ cached # NoPicture
    /\ Blit(cached, Cleared, how, lost)
    /\ UNCHANGED xserver
=============================================================================
