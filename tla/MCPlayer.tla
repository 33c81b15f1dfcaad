------------------------------ MODULE MCPlayer ------------------------------
(***************************************************************************)
(* Three views of the player of libeplayer3: EPlayer, its threads and      *)
(* flags, Tracks, what the play loop plays, and Writers, how that is       *)
(* written to a decoder.  A behaviour is one of the three; the others      *)
(* stand still.                                                            *)
(*                                                                         *)
(* EPlayer: two files, two play threads.  Tracks: two files, with a video  *)
(* stream and two audio streams, the second an AAC stream that turns up    *)
(* late, in two programs; two filters made for it.  Writers: two streams   *)
(* of two packets, of any writer, smaller than a PES packet, as large and  *)
(* larger; frames of PCM that fill less than a sub frame, or several.      *)
(***************************************************************************)
EXTENDS EPlayer
CONSTANTS
  (* of Tracks *)
  Audio, Video, Filtered, Late, Programs, MaxFilters,
  (* of Writers *)
  Codecs, Sizes, AacSizes, NalLists, FrameSizes, SubFrameLen,
  MaxStreams, MaxPackets, MaxDecoded
VARIABLES
  view,       \* "threads", "tracks" or "writers"
  (* the variables of Tracks *)
  file, opened, context, streams, discarded, tracks, audioTrack, videoTrack,
  audioStream, videoStream, seek_rel, seek_abs, tPlaying, tPaused,
  tBackWard, tAbort, user, loop, bof, held, reinit_audio, asked, late,
  relisted, untold,
  (* the variables of Writers *)
  wStreams, wPackets, writer, form, initialHeader, FrameHeaderSeen,
  restart_audio_resampling, swr, ready, breakBuffer, packet, left, plan, at,
  wDevice, taken, decoded, begin, torn, headless

MCPrograms == {{1, 10}, {2, 10}}
T == INSTANCE Tracks WITH
  avfc <- context, isPlaying <- tPlaying, isPaused <- tPaused,
  isBackWard <- tBackWard, abortPlayback <- tAbort
trackvars == <<file, opened, context, streams, discarded, tracks, audioTrack,
  videoTrack, audioStream, videoStream, seek_rel, seek_abs, tPlaying,
  tPaused, tBackWard, tAbort, user, loop, bof, held, reinit_audio, asked, late, relisted, untold>>

MCNals == {<<100>>, <<100, 70000>>, <<100, 200>>}
W == INSTANCE Writers WITH
  streams <- wStreams, packets <- wPackets, device <- wDevice
writervars == <<wStreams, wPackets, writer, form, initialHeader, FrameHeaderSeen,
  restart_audio_resampling, swr, ready, breakBuffer, packet, left, plan, at,
  wDevice, taken, decoded, begin, torn, headless>>

MCInit ==
  /\ view \in {"threads", "tracks", "writers"} /\ Init /\ T!Init /\ W!Init
  /\ view # "threads" => ~abortRequested
(* The writers rest when the bounds are reached. *)
WritersRest ==
  wStreams = MaxStreams /\ wPackets = MaxPackets /\ at = "idle" /\ UNCHANGED writervars
MCNext ==
  /\ UNCHANGED view
  /\ \/ view = "threads" /\ Next /\ UNCHANGED <<trackvars, writervars>>
     \/ view = "tracks" /\ T!Next /\ UNCHANGED <<vars, writervars>>
     \/ view = "writers" /\ (W!Next \/ WritersRest) /\ UNCHANGED <<vars, trackvars>>

MCSpec == MCInit /\ [][MCNext]_<<view, vars, trackvars, writervars>> /\ Fairness

(* The type invariants of the three views. *)
TypesOK == TypeOK /\ T!TypeOK /\ W!TypeOK

(* No track, filter or context is used that is gone, and the decoders are  *)
(* set up for the tracks whose packets they get.                           *)
TracksFollow == T!NothingStale /\ T!OutputFollowsTrack

(* What the user waits for comes: a seek that was asked for is carried     *)
(* out, and whoever waits for the end of a file sees it.                   *)
RequestsAreServed == []T!SeekIsServed /\ EndIsSeen

(* What is written to a decoder is the stream that its packets make up,    *)
(* its header first, with true lengths.                                    *)
StreamIsWritten == W!StreamIsWritten
=============================================================================
