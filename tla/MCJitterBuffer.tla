--------------------------- MODULE MCJitterBuffer ---------------------------
(***************************************************************************)
(* Every limit of the buffer scaled down so that short runs reach it.      *)
(***************************************************************************)
EXTENDS JitterBuffer
=============================================================================
