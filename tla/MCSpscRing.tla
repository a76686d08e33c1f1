----------------------------- MODULE MCSpscRing -----------------------------
(***************************************************************************)
(* A ring of four slots whose indices wrap around after eight, moved in    *)
(* chunks that may be larger than the ring's space.                        *)
(***************************************************************************)
EXTENDS SpscRing
=============================================================================
