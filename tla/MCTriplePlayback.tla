------------------------ MODULE MCTriplePlayback ------------------------
(* TriplePlayback with two files, one after the other, so that a thread    *)
(* meets what the thread of the file before it left behind, and two        *)
(* positions sought in each, so that a seek can go wrong behind a seek.    *)
EXTENDS TriplePlayback
=============================================================================
