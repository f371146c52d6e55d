-------------------------- MODULE MCMessageStreams --------------------------
\* One message of each kind and one picture, with multi-byte numbers and a row
\* of bits that does not fill its byte.
EXTENDS NowPlaying

SmallMessages == {
    [type |-> "Hello", width |-> 258, height |-> 3, formats |-> {"Mono1", "Gray8"}],
    [type |-> "PointerUp", x |-> 1, y |-> 513],
    [type |-> "ViewportChanged", width |-> 2, height |-> 1],
    [type |-> "Frame", id |-> <<0, 258>>, width |-> 3, height |-> 2, format |-> "Mono1",
     pixels |-> <<160, 64>>],
    [type |-> "Frame", id |-> <<1, 2>>, width |-> 2, height |-> 2, format |-> "Gray8",
     pixels |-> <<255, 0, 3, 7>>]}
=============================================================================
