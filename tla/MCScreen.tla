------------------------------ MODULE MCScreen ------------------------------
\* Screen with small windows, and with kernels and servers of every layout.
EXTENDS Screen

Kernel(dx, dy, columns, rows, line, spare) ==
    [supported |-> TRUE, xoffset |-> dx, yoffset |-> dy, virtual_width |-> columns,
     virtual_height |-> rows, line_length |-> line, memory_len |-> line * rows + spare]

\* With both offsets, without, and one that cannot hold the visible page.
MCKernels ==
    {Kernel(2, 1, 19, 9, 20, 0), Kernel(0, 0, 17, 8, 17, 5), Kernel(3, 0, 19, 8, 19, 0),
     Kernel(0, 1, 9, 6, 12, -1)}
    \cup {[Kernel(0, 0, 17, 8, 17, 0) EXCEPT !.supported = FALSE]}

Server(byte, bit, unit, pad, limit) ==
    [byte_order |-> byte, bit_order |-> bit, unit |-> unit, pad |-> pad, max_request |-> limit]

MCXServers ==
    {Server("LSB", "LSB", 32, 32, 1000), Server("MSB", "MSB", 8, 8, 31),
     Server("LSB", "MSB", 16, 32, 32), Server("MSB", "LSB", 32, 32, 33),
     Server("LSB", "LSB", 32, 16, 100), Server("LSB", "LSB", 8, 8, 24)}

MCDrawnSizes == {<<7, 6>>, <<17, 6>>, <<18, 5>>}
MCExitGlyphs == {<<0, 0, 0>>, <<2, 0, 0>>, <<3, 0, 0>>}
=============================================================================
