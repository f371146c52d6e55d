------------------------- MODULE MCPaperspoonHost -------------------------
\* PaperspoonHost on small instances.
EXTENDS PaperspoonHost, TLC

\* The backends of PaperPad: X11 advertises Mono1, MXCFB both formats.
BackendFormats == {{"mono1"}, {"mono1", "gray8"}}

ViewportSymmetry == Permutations(Viewports \ Oversized)
=============================================================================
