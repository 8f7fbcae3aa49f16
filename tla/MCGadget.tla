------------------------------- MODULE MCGadget -------------------------------
(* The gadget's own delays, in ticks of 500 ms, for TLC.                    *)
EXTENDS Gadget

OwnDelays == <<6, 20>>
=============================================================================
