------------------------------ MODULE MCDemux ------------------------------
(* A recorder's demux and one that reads sections or a stream. *)
EXTENDS Demux
CONSTANTS rec, sec
MCNum == [d \in Demuxes |-> 0]
MCUses == [d \in Demuxes |-> IF d = rec THEN {"tp"} ELSE {"psi", "tp"}]
=============================================================================
