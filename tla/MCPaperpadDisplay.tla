------------------------- MODULE MCPaperpadDisplay -------------------------
\* PaperpadDisplay on small instances.
EXTENDS PaperpadDisplay, TLC
=============================================================================
