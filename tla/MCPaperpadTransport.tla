------------------------ MODULE MCPaperpadTransport ------------------------
(***************************************************************************)
(* PaperpadTransport for TLC.  The viewports are model values that only    *)
(* equality tells apart, so the safety runs may permute them.              *)
(***************************************************************************)
EXTENDS PaperpadTransport, TLC

ViewportSymmetry == Permutations(Viewports)
=============================================================================
