------------------------------- MODULE MCZint -------------------------------
(* An instance of Zint: a mask with all sources, one without the frame.    *)
EXTENDS Zint
MCMasks == {Sources, {"lin", "dma"}}
=============================================================================
