----------------------------- MODULE MCPcDecoder -----------------------------
(* A ring of three frames; up to two threads of the same decoder. *)
EXTENDS PcDecoder
CONSTANTS t1, t2
MCMinNum == -1
=============================================================================
