---------------------------- MODULE MCRecorder ----------------------------
(***************************************************************************)
(* Recording and live television.  A behaviour is one of                   *)
(*   Recorder, with a buffer of three units, reads of at most two and a    *)
(*     stream of five (the buffer fills, is emptied and is filled again,   *)
(*     so that a write is in progress while the tail behind it grows), of  *)
(*   TripleRecorder, with a buffer of six units: it is written from three  *)
(*     units on, in pieces of up to three, of                              *)
(*   Sound, with two volumes and one that nobody set, of                   *)
(*   DvbVideo, or of                                                       *)
(*   Sections, with tables that have a checksum and a time limit, neither, *)
(*     and no checksum, with filters of one and of three bytes, and with a *)
(*     negmask and without;                                                *)
(* the others stand still.                                                 *)
(***************************************************************************)
EXTENDS Recorder
CONSTANTS
  TBufSize, TMaxStream,                 \* of TripleRecorder
  Levels, Garbage,                      \* of Sound
  Ports, Timeouts, Wishes, Sections     \* of Sections
(* Volumes are numbers; one that is not initialised may be any.            *)
ASSUME SoundAssumption == Levels \subseteq Nat /\ Garbage \in Int
(* A filter has as many bytes as its masks, and no more than the driver    *)
(* takes; a section has at least as many, and its length.                  *)
ASSUME SectionsAssumption ==
  /\ Timeouts \subseteq Nat /\ 0 \in Timeouts
  /\ \A w \in Wishes :
       /\ DOMAIN w = {"filter", "mask", "negmask"}
       /\ w.filter \in Seq(Nat) /\ Len(w.filter) \in 1 .. 4
       /\ w.mask \in Seq({0, 1}) /\ Len(w.mask) = Len(w.filter)
       /\ w.negmask \in Seq({0, 1}) /\ Len(w.negmask) \in {0, Len(w.filter)}
  /\ \A s \in Sections : s.bytes \in Seq(Nat) /\ Len(s.bytes) >= 6
VARIABLES
  view,       \* "spark", "triple", "sound", "video" or "sections"
  (* the variables of TripleRecorder *)
  tcaller, texit_flag, trunning, tfd, tdmx, tpc, tbuffer, treceived, tfile, tfailed,
  (* the variables of Sound *)
  sbox, muted, volume, StreamType, clip, mixer, sdev, spc, sloc, asked,
  muteAsked, adrift, salone, smixed,
  (* the variables of DvbVideo *)
  vbox, fd, playstate, stillpicture, video_standby, stillp_mutex, vdev, vtodo,
  movie, disowned, vcrossed, relit,
  (* the variables of Sections *)
  port, flt, go, timer, queue, lostlock, reader, limit, wish, patience, got, changed

T == INSTANCE TripleRecorder WITH
  BufSize <- TBufSize, MaxStream <- TMaxStream,
  caller <- tcaller, exit_flag <- texit_flag, record_thread_running <- trunning,
  file_fd <- tfd, dmx <- tdmx, pc <- tpc, buffer <- tbuffer, received <- treceived,
  file <- tfile, failed <- tfailed
triplevars == <<tcaller, texit_flag, trunning, tfd, tdmx, tpc, tbuffer,
  treceived, tfile, tfailed>>

S == INSTANCE Sound WITH
  box <- sbox, dev <- sdev, pc <- spc, loc <- sloc, alone <- salone, mixed <- smixed
soundvars == <<sbox, muted, volume, StreamType, clip, mixer, sdev, spc, sloc, asked,
  muteAsked, adrift, salone, smixed>>

V == INSTANCE DvbVideo WITH
  box <- vbox, dev <- vdev, todo <- vtodo, crossed <- vcrossed
videovars == <<vbox, fd, playstate, stillpicture, video_standby, stillp_mutex, vdev,
  vtodo, movie, disowned, vcrossed, relit>>

Tids == {2, 112, 114}
Wish(f, m, n) == [filter |-> f, mask |-> m, negmask |-> n]
MCWishes ==
  UNION {{Wish(<<t>>, <<1>>, <<>>), Wish(<<t, 1, 0>>, <<1, 1, 0>>, <<>>),
          Wish(<<t, 1, 0>>, <<1, 0, 1>>, <<0, 0, 1>>)} : t \in Tids}
MCSections ==
  {[bytes |-> <<t, 1, 1, a, b, 0>>, good |-> g] : t \in Tids, a, b \in {0, 1}, g \in BOOLEAN}
Sect == INSTANCE Sections WITH
  lost <- lostlock
sectvars == <<port, flt, go, timer, queue, lostlock, reader, limit, wish, patience, got,
  changed>>

(* The views that stand still have one initial state each. *)
MCInit ==
  /\ view \in {"spark", "triple", "sound", "video", "sections"}
  /\ Init /\ T!Init /\ S!Init /\ V!Init /\ Sect!Init
  /\ view # "sound" => sbox = "triple" /\ StreamType = "mpeg"
  /\ view # "video" => vbox = "spark"
  /\ view # "sections" => port = "spark"
MCNext ==
  /\ UNCHANGED view
  /\ \/ view = "spark" /\ Next
          /\ UNCHANGED <<triplevars, soundvars, videovars, sectvars>>
     \/ view = "triple" /\ T!Next
          /\ UNCHANGED <<vars, soundvars, videovars, sectvars>>
     \/ view = "sound" /\ S!Next
          /\ UNCHANGED <<vars, triplevars, videovars, sectvars>>
     \/ view = "video" /\ V!Next
          /\ UNCHANGED <<vars, triplevars, soundvars, sectvars>>
     \/ view = "sections" /\ Sect!Next
          /\ UNCHANGED <<vars, triplevars, soundvars, videovars>>

MCSpec ==
  /\ MCInit /\ [][MCNext]_<<view, vars, triplevars, soundvars, videovars, sectvars>>
  /\ Fairness

(* The type invariants of all views. *)
TypesOK == TypeOK /\ T!TypeOK /\ S!TypeOK /\ V!TypeOK /\ Sect!TypeOK

(* File and buffer of libtriple's recorder are the stream, and in the end  *)
(* all of it is in the file.                                               *)
Unbroken == T!Unbroken

(* Volume and mute are what was asked for, on whatever device plays;       *)
(* device, picture and output are what the calls made them.                *)
DecodersFollow == S!SoundFollows /\ V!VideoFollows

(* Read brings the sections that were asked for, fails for want of them    *)
(* only where there is a time limit, and does not wait for ever.           *)
SectionsAreWanted == Sect!SectionsAreWanted
=============================================================================
