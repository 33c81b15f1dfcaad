---------------------------- MODULE MCOmxCodec ----------------------------
(* OmxCodec with two starts, of audio and video or of one of them behind   *)
(* the other, with a change of the video format at any time and a message. *)
EXTENDS OmxCodec
=============================================================================
