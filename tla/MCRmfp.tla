------------------------------- MODULE MCRmfp -------------------------------
(***************************************************************************)
(* Two ports of cPlayback, Rmfp the azbox's and CPlayback that of the      *)
(* spark boxes, and the remote control that drives them, RemoteInput.  A   *)
(* behaviour is one of the three; the others stand still.                  *)
(*                                                                         *)
(* Rmfp: one parameter, one audio stream, and at most two where nobody     *)
(* counted.  CPlayback: fast forward, reverse, pause and normal speed.     *)
(* RemoteInput: two keys, and another remote control's.                    *)
(***************************************************************************)
EXTENDS Rmfp, Integers, Sequences
CONSTANTS
  Speeds,             \* of CPlayback
  Keys, Unknown       \* of RemoteInput
ASSUME SpeedsAssumption == Speeds \subseteq Int
VARIABLES
  view,       \* "azbox", "spark" or "remote"
  (* the variables of CPlayback *)
  pm, decoders_closed, init_jump, pdplaying, speed, pdeof, phase, arg,
  isPlaying, isPaused, isForwarding, isBackWard, media, vdec, vheld, aheld, todo,
  (* the variables of RemoteInput *)
  box, call, initialized, thread_running, inputThread, last_code, nodec, prev, held,
  events, fifo, down, stillborn, overtaken, restarted, orphan, gone

MCParams == {7}
MCSpeeds == {-2, 0, 1, 2}
Spark == INSTANCE CPlayback WITH playing <- pdplaying, eof <- pdeof
sparkvars == <<pm, decoders_closed, init_jump, pdplaying, speed, pdeof, phase, arg,
               isPlaying, isPaused, isForwarding, isBackWard, media, vdec, vheld,
               aheld, todo>>

Remote == INSTANCE RemoteInput WITH
  Boxes <- {"spark", "triple", "raspi"}, thread <- inputThread
remotevars == <<box, call, initialized, thread_running, inputThread, last_code, nodec, prev,
  held, events, fifo, down, stillborn, overtaken, restarted, orphan, gone>>

MCInit ==
  /\ view \in {"azbox", "spark", "remote"} /\ Init /\ Spark!Init /\ Remote!Init
  /\ view # "remote" => box = "spark"
MCNext ==
  /\ UNCHANGED view
  /\ \/ view = "azbox" /\ Next /\ UNCHANGED <<sparkvars, remotevars>>
     \/ view = "spark" /\ Spark!Next /\ UNCHANGED <<vars, remotevars>>
     \/ view = "remote" /\ Remote!Next /\ UNCHANGED <<vars, sparkvars>>
MCSpec == MCInit /\ [][MCNext]_<<view, vars, sparkvars, remotevars>> /\ Fairness

(* The type invariants of the three views. *)
TypesOK == TypeOK /\ Spark!TypeOK /\ Remote!TypeOK

(* Spark boxes: live television has its devices again when the file is     *)
(* closed.                                                                 *)
DevicesHandedOver == Spark!DevicesHandedOver

(* Keys go down and up as on the remote control, and who starts or stops   *)
(* its thread does not wait for what cannot come.                          *)
InputFollows == Remote!InputFollows

(* The calls do what they are for: on Azbox they return, and on spark      *)
(* boxes SetSpeed switches the direction, and makes the jump that          *)
(* SetPosition remembered.                                                 *)
CallsTakeEffect == CallsReturn /\ Spark!SpeedTakesEffect
=============================================================================
