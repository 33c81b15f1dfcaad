---------------------------- MODULE MCTripleFile ----------------------------
(***************************************************************************)
(* What libtriple plays from a file: TripleFile, its bytes and positions,  *)
(* and Remux, the packets of a program stream.  A behaviour is one of      *)
(* them; the other stands still.                                           *)
(*                                                                         *)
(* TripleFile: a single recording, two files and three, one empty, of      *)
(* packets of two bytes; time stamps that wrap within the recording, or    *)
(* do not.  Remux: the buffers' true sizes; a recording larger than both   *)
(* with the longest packet there is, one with more than 80 kB between two  *)
(* packets, and one that ends with a packet.                               *)
(***************************************************************************)
EXTENDS TripleFile
VARIABLES
  view,       \* "file" or "packets"
  (* the variables of Remux *)
  rec, pos, pes, count, mInbuf, ret, mSpeed, mPc, goal, last, mPts, seam, skipped

MCLists == {<<6>>, <<4, 3>>, <<3, 0, 2>>}
MCPlaces == {0, 3, 8}
MCBases == {0, 9}
MCFalse == {3}

I(what, len) == [what |-> what, len |-> len]
MCRecordings ==
  {<<I("pack", 20), I("video", 40000), I("audio", 1840), I("other", 100),
     I("video", 65541), I("ac3", 3000), I("video", 60000), I("pack", 14),
     I("video", 60000), I("audio", 2000), I("video", 50000), I("code", 4)>>,
   <<I("video", 1000), I("garbage", 90000), I("audio", 500)>>,
   <<I("video", 30000), I("garbage", 3000), I("audio", 1000), I("video", 30000)>>}
Mux == INSTANCE Remux WITH
  Recordings <- MCRecordings, Places <- {0, 30500, 107000}, InBuf <- 1394, Written <- 200,
  inbuf <- mInbuf, speed <- mSpeed, pc <- mPc, pts <- mPts
muxvars == <<rec, pos, pes, count, mInbuf, ret, mSpeed, mPc, goal, last, mPts, seam,
  skipped>>

(* The view that stands still has one initial state. *)
MCInit ==
  /\ view \in {"file", "packets"} /\ Init /\ Mux!Init
  /\ view # "file" => kind = "ts" /\ list = <<6>> /\ pts.base = 0
  /\ view # "packets" => Len(rec) = 3
MCNext ==
  /\ UNCHANGED view
  /\ \/ view = "file" /\ Next /\ UNCHANGED muxvars
     \/ view = "packets" /\ Mux!Next /\ UNCHANGED vars
MCSpec == MCInit /\ [][MCNext]_<<view, vars, muxvars>> /\ Fairness

(* The type invariants of both views. *)
TypesOK == TypeOK /\ Mux!TypeOK

(* What is in the buffers is the recording, byte by byte and packet by     *)
(* packet, without a gap but where fast play and seeks make one.           *)
StreamArrives == StreamUnbroken /\ Mux!PacketsArrive
=============================================================================
