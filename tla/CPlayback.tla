----------------------------- MODULE CPlayback -----------------------------
(***************************************************************************)
(* cPlayback of libspark over libeplayer3 (playback_libeplayer3.cpp) and   *)
(* the decoders it takes the devices from: VDec (video.cpp), of which only *)
(* the device and the still picture are modelled, and ADec (audio.cpp).    *)
(*                                                                         *)
(* The video device and the audio device can be held once each: by the     *)
(* decoder that shows live television or by the Output of the player.      *)
(* Open(PLAYMODE_FILE) or the first SetSpeed takes them from the decoders, *)
(* Close gives them back.  Two threads are at work: "movie" drives         *)
(* cPlayback, "gui" shows pictures, goes to standby and sets video modes.  *)
(* No lock is held anywhere.  Each thread has a script, the steps still to *)
(* do of the call it is in; a step is what another thread cannot disturb.  *)
(*                                                                         *)
(* Player is what EPlayer promises: its calls are atomic, and its play     *)
(* thread may carry out a seek or come to the end of the file between any  *)
(* two of them.                                                            *)
(***************************************************************************)
EXTENDS Integers, Sequences

CONSTANT Speeds     \* speeds the user asks for, all in the player's range

VARIABLES
  pm, decoders_closed, init_jump,   \* statics; a jump is remembered or not
  playing, speed, eof,              \* members of PBPrivate
  phase,            \* user: "closed", "opened", "started" or "failed"
  arg,              \* argument of SetSpeed, 0 when it is done with
  isPlaying, isPaused, isForwarding, isBackWard,     \* Player
  media,            \* the file: is it from the network, has it video?
  vdec,             \* VDec: descriptor open?, stillpicture, standby
  vheld, aheld,     \* who holds the video and the audio device
  todo              \* the steps each thread still has to do

statics == <<pm, decoders_closed, init_jump>>
private == <<playing, speed, eof>>
player == <<isPlaying, isPaused, isForwarding, isBackWard, media>>
device == <<vdec, vheld, aheld>>
vars == <<statics, private, phase, arg, player, device, todo>>

NoMedia == [http |-> FALSE, video |-> FALSE]
(* A film, one from the network, or music. *)
Media == [http : BOOLEAN, video : {TRUE}] \cup {NoMedia}
Callers == {"movie", "gui"}
At(t, s) == todo[t] # <<>> /\ Head(todo[t]) = s
Idle(t) == todo[t] = <<>>
(* The thread's step is done, and these steps come before the rest. *)
Then(t, steps) == todo' = [todo EXCEPT ![t] = steps \o Tail(@)]
(* A caller begins a call. *)
Call(t, steps) == Idle(t) /\ todo' = [todo EXCEPT ![t] = steps]

Init ==
  /\ pm = "TS" /\ decoders_closed = FALSE /\ init_jump = FALSE
  /\ playing = FALSE /\ speed = 0 /\ eof = FALSE
  /\ phase = "closed" /\ arg = 0
  /\ isPlaying = FALSE /\ isPaused = FALSE
  /\ isForwarding = FALSE /\ isBackWard = FALSE
  /\ media = NoMedia
  /\ vdec = [fd |-> TRUE, still |-> FALSE, standby |-> FALSE]
  /\ vheld = "vdec" /\ aheld = "adec"
  /\ todo = [t \in Callers |-> <<>>]

-----------------------------------------------------------------------------
(* VDec.                                                                   *)

VideoFrame == UNCHANGED <<statics, private, phase, arg, player, aheld>>

(* VDec::openDevice looks at fd, "racy, should be protected by a lock", ... *)
VdecOpen(t) ==
  /\ At(t, "vdec open")
  /\ Then(t, IF vdec.fd THEN <<>> ELSE <<"vdec opening">>)
  /\ UNCHANGED <<vdec, vheld>> /\ VideoFrame

(* ... and opens the device, which fails while someone else holds it.  Two *)
(* callers may both get here: the second fails and forgets the descriptor  *)
(* of the first.                                                           *)
VdecOpening(t) ==
  /\ At(t, "vdec opening")
  /\ vdec' = [vdec EXCEPT !.fd = vheld = "none"]
  /\ vheld' = CASE vheld = "none" -> "vdec" [] vdec.fd -> "lost" [] OTHER -> vheld
  /\ Then(t, <<>>)
  /\ VideoFrame

(* VDec::closeDevice; its Start ends a still picture. *)
VdecClosed == [vdec EXCEPT !.fd = FALSE, !.still = FALSE]
VdecClose(t) ==
  /\ At(t, "vdec close")
  /\ vdec' = VdecClosed
  /\ vheld' = IF vdec.fd THEN "none" ELSE vheld
  /\ Then(t, <<>>)
  /\ VideoFrame

(* VDec::Start and cVideo::StopPicture *)
VdecStart(t) ==
  /\ At(t, "vdec start")
  /\ vdec' = [vdec EXCEPT !.still = FALSE]
  /\ Then(t, <<>>)
  /\ UNCHANGED vheld /\ VideoFrame

(* VDec::ShowPicture is refused in standby; it closes and opens the device *)
(* (unless the file cannot be had) ...                                     *)
ShowPicture(t) ==
  /\ At(t, "show picture")
  /\ \/ ~vdec.standby /\ Then(t, <<"vdec close", "vdec open", "still">>)
     \/ Then(t, <<>>)
  /\ UNCHANGED <<vdec, vheld>> /\ VideoFrame

(* ... and shows the picture if that worked. *)
ShowStill(t) ==
  /\ At(t, "still")
  /\ vdec' = [vdec EXCEPT !.still = @ \/ vdec.fd]
  /\ Then(t, <<>>)
  /\ UNCHANGED vheld /\ VideoFrame

(* The last step of VDec::Standby. *)
SetStandby(t) ==
  /\ \E s \in {"standby on", "standby off"} :
       At(t, s) /\ vdec' = [vdec EXCEPT !.standby = (s = "standby on")]
  /\ Then(t, <<>>)
  /\ UNCHANGED vheld /\ VideoFrame

VideoCall ==
  /\ \E steps \in {<<"vdec start">>, <<"show picture">>, <<"vdec close", "standby on">>, <<"vdec open", "standby off">>} :
       Call("gui", steps)
  /\ UNCHANGED <<vdec, vheld>> /\ VideoFrame

VideoStep(t) ==
  \/ VdecOpen(t) \/ VdecOpening(t) \/ VdecClose(t) \/ VdecStart(t)
  \/ ShowPicture(t) \/ ShowStill(t) \/ SetStandby(t)

-----------------------------------------------------------------------------
(* Player and Output.                                                      *)

(* Output::Open takes both devices or none.  Its result is never looked at. *)
OutputOpen ==
  IF vheld = "none" /\ aheld = "none"
    THEN vheld' = "output" /\ aheld' = "output"
    ELSE UNCHANGED <<vheld, aheld>>
OutputClose ==
  /\ vheld' = IF vheld = "output" THEN "none" ELSE vheld
  /\ aheld' = IF aheld = "output" THEN "none" ELSE aheld

PlayerFlags(running, paused) ==
  /\ isPlaying' = running /\ isPaused' = paused
  /\ isForwarding' = FALSE /\ isBackWard' = FALSE

(* Player::Play: refused if it plays already; a device that will not start *)
(* or no thread to be had are errors.                                      *)
PlayerPlay(ret) ==
  \/ ~isPlaying /\ ret /\ PlayerFlags(TRUE, FALSE)
  \/ ~ret /\ UNCHANGED <<isPlaying, isPaused, isForwarding, isBackWard>>
  \/ ~isPlaying /\ ~ret /\ PlayerFlags(FALSE, FALSE)

CanPause == isPlaying /\ ~isPaused
PlayerPause ==
  IF CanPause THEN PlayerFlags(TRUE, TRUE)
              ELSE UNCHANGED <<isPlaying, isPaused, isForwarding, isBackWard>>

PlayerContinue ==
  IF isPlaying /\ (isPaused \/ isForwarding \/ isBackWard)
    THEN PlayerFlags(TRUE, FALSE)
    ELSE UNCHANGED <<isPlaying, isPaused, isForwarding, isBackWard>>

CanTrick == media.video /\ (~isPaused \/ isPlaying)
FastForward ==
  /\ isForwarding' = (isForwarding \/ (CanTrick /\ ~media.http /\ ~isBackWard))
  /\ UNCHANGED <<isPlaying, isPaused, isBackWard>>
FastBackward(on) ==
  /\ isBackWard' = IF CanTrick /\ ~isForwarding THEN on ELSE isBackWard
  /\ UNCHANGED <<isPlaying, isPaused, isForwarding>>

-----------------------------------------------------------------------------
(* The play loop (Input::Play).                                            *)

(* The end of the file, or an error. *)
EndOfFile ==
  /\ isPlaying /\ ~isPaused
  /\ PlayerFlags(FALSE, FALSE)
  /\ UNCHANGED <<statics, private, phase, arg, media, device, todo>>

-----------------------------------------------------------------------------
(* cPlayback: its calls, and their steps.                                  *)

Movie(step) == At("movie", step)
MovieCall(steps) == Call("movie", steps)
Go(steps) == Then("movie", steps)

Handover == <<"release", "vdec close">>
StopScript == <<"player stop", "output close", "player close">>
CloseScript == StopScript \o <<"reacquire">>

CallFrame == UNCHANGED <<statics, private, player, device>>

CallOpen ==
  /\ phase = "closed"
  /\ \/ MovieCall(<<"open TS">>)
     \/ MovieCall(Handover \o <<"open FILE">>)
  /\ UNCHANGED <<phase, arg>> /\ CallFrame
CallStart ==
  /\ phase = "opened" /\ MovieCall(<<"start">>)
  /\ UNCHANGED <<phase, arg>> /\ CallFrame
CallSetSpeed ==
  /\ phase = "started" /\ MovieCall(<<"set speed">>)
  /\ arg' \in Speeds
  /\ UNCHANGED phase /\ CallFrame
CallSetPosition ==
  /\ phase = "started" /\ MovieCall(<<"position">>)
  /\ UNCHANGED <<phase, arg>> /\ CallFrame
CallClose ==
  /\ phase # "closed" /\ MovieCall(CloseScript)
  /\ phase' = "closed"
  /\ UNCHANGED arg /\ CallFrame

(* GetPosition takes a player that no longer plays for the end of the file. *)
GetPosition ==
  /\ phase = "started" /\ Idle("movie")
  /\ playing /\ ~isPlaying /\ ~eof
  /\ eof' = TRUE
  /\ UNCHANGED <<statics, playing, speed, phase, arg, player, device,
                 todo>>

(* The decoders give up their devices: adec->closeDevice, and the flag. *)
Release ==
  /\ Movie("release")
  /\ aheld' = IF aheld = "adec" THEN "none" ELSE aheld
  /\ decoders_closed' = TRUE
  /\ Go(<<>>)
  /\ UNCHANGED <<pm, init_jump, private, phase, arg, player, vdec,
                 vheld>>

Opened ==
  /\ \/ Movie("open TS") /\ pm' = "TS"
     \/ Movie("open FILE") /\ pm' = "FILE"
  /\ speed' = 0 /\ phase' = "opened"
  /\ media' = NoMedia
  /\ init_jump' = FALSE
  /\ Go(<<>>)
  /\ UNCHANGED <<decoders_closed, playing, eof, arg, isPlaying, isPaused,
                 isForwarding, isBackWard, device>>

(* Start, up to Output::Open.  The file may turn out not to be playable,   *)
(* but not when the same file is started again at its end.                 *)
Start ==
  /\ Movie("start") \/ Movie("restart")
  /\ init_jump' = FALSE
  /\ \/ /\ Movie("start") /\ phase' = "failed" /\ Go(<<>>)
        /\ UNCHANGED <<playing, media>>
     \/ /\ phase' = "started"
        /\ media' \in Media
        /\ Movie("restart") => media' = media
        /\ IF pm = "TS" THEN Go(<<>>) /\ UNCHANGED playing
           ELSE Go(<<"output open", "start play">>) /\ playing' = TRUE
  /\ UNCHANGED <<pm, decoders_closed, speed, eof, arg, isPlaying, isPaused,
                 isForwarding, isBackWard, device>>

PlayStep ==
  /\ UNCHANGED <<statics, speed, eof, phase, arg, media>>
DevicesStay == UNCHANGED device

OpenOutput ==
  /\ Movie("output open")
  /\ OutputOpen /\ UNCHANGED vdec
  /\ Go(<<>>)
  /\ UNCHANGED <<isPlaying, isPaused, isForwarding, isBackWard, playing>> /\ PlayStep

(* Start plays and, unless the file comes from the network, pauses at once. *)
StartPlay ==
  /\ Movie("start play")
  /\ \E ret \in BOOLEAN :
       /\ PlayerPlay(ret)
       /\ Go(IF ret /\ ~media.http THEN <<"start pause">> ELSE <<>>)
  /\ UNCHANGED playing /\ PlayStep /\ DevicesStay
StartPause ==
  /\ Movie("start pause")
  /\ PlayerPause /\ playing' = CanPause
  /\ Go(<<>>)
  /\ PlayStep /\ DevicesStay

(* SetSpeed takes the devices from the decoders if nobody has, and plays. *)
SetSpeed ==
  /\ Movie("set speed")
  /\ Go(IF decoders_closed THEN <<"dispatch">>
        ELSE Handover \o <<"output open", "speed play", "dispatch">>)
  /\ UNCHANGED <<isPlaying, isPaused, isForwarding, isBackWard, playing>>
  /\ PlayStep /\ DevicesStay
SpeedPlay ==
  /\ Movie("speed play")
  /\ \E ret \in BOOLEAN : PlayerPlay(ret) /\ playing' = ret
  /\ Go(<<>>)
  /\ PlayStep /\ DevicesStay

(* What SetSpeed has the player do.  Fast play in the other direction is   *)
(* ended first.  To pause in reverse play it calls FastForward(0), which   *)
(* the player refuses.                                                     *)
SpeedStepsKeepDirection ==
  CASE arg > 1 -> <<"forward">>
    [] arg < 0 -> <<"backward">>
    [] arg = 0 -> IF isForwarding \/ ~isBackWard THEN <<"pause">> ELSE <<>>
    [] arg = 1 -> <<"continue">>
SpeedSteps ==
  CASE arg > 1 -> IF isBackWard THEN <<"reverse end", "forward">> ELSE <<"forward">>
    [] arg < 0 -> IF isForwarding THEN <<"continue", "backward">> ELSE <<"backward">>
    [] arg = 0 -> IF isForwarding \/ ~isBackWard THEN <<"pause">> ELSE <<>>
    [] arg = 1 -> <<"continue">>
Dispatch ==
  /\ Movie("dispatch")
  /\ IF playing THEN speed' = arg /\ Go(SpeedSteps \o <<"jump">>)
                ELSE Go(<<>>) /\ UNCHANGED speed
  /\ arg' = 0
  /\ UNCHANGED <<statics, playing, eof, phase, player, device>>

Command ==
  /\ \/ Movie("forward") /\ FastForward
     \/ Movie("backward") /\ FastBackward(TRUE)
     \/ Movie("reverse end") /\ FastBackward(FALSE)
     \/ Movie("pause") /\ PlayerPause
     \/ Movie("continue") /\ PlayerContinue
  /\ Go(<<>>)
  /\ UNCHANGED playing /\ PlayStep /\ DevicesStay

(* A jump remembered by SetPosition is made once SetSpeed has the file     *)
(* playing.                                                                *)
JumpStepsKept == IF init_jump THEN <<"jump position">> ELSE <<>>
JumpSteps == IF init_jump THEN <<"jump position", "jump done">> ELSE <<>>
Jump ==
  /\ Movie("jump")
  /\ Go(JumpSteps)
  /\ UNCHANGED <<statics, private, phase, arg, player, device>>
JumpDone ==
  /\ Movie("jump done")
  /\ init_jump' = FALSE
  /\ Go(<<>>)
  /\ UNCHANGED <<pm, decoders_closed, private, phase, arg, player, device>>

(* SetPosition: at the end of the file it is closed and started again;     *)
(* before it plays the jump is remembered; else Input::Seek is called.     *)
RestartScript == CloseScript \o <<"eof off", "restart", "restart speed">>
SetPosition ==
  /\ Movie("position") \/ Movie("jump position")
  /\ Go(IF eof THEN RestartScript ELSE <<>>)
  /\ init_jump' = (init_jump \/ (~eof /\ ~playing))
  /\ UNCHANGED <<pm, decoders_closed, private, phase, arg, player, device>>

EofOff ==
  /\ Movie("eof off")
  /\ eof' = FALSE
  /\ Go(<<>>)
  /\ UNCHANGED <<statics, playing, speed, phase, arg, player, device>>
RestartSpeed ==
  /\ Movie("restart speed")
  /\ arg' = speed
  /\ Go(<<"set speed">>)
  /\ UNCHANGED <<statics, private, phase, player, device>>

(* Stop and Close. *)
PlayerStop ==
  /\ Movie("player stop")
  /\ IF isPlaying THEN PlayerFlags(FALSE, FALSE)
     ELSE UNCHANGED <<isPlaying, isPaused, isForwarding, isBackWard>>
  /\ Go(<<>>)
  /\ UNCHANGED playing /\ PlayStep /\ DevicesStay
CloseOutput ==
  /\ Movie("output close")
  /\ OutputClose /\ UNCHANGED vdec
  /\ Go(<<>>)
  /\ UNCHANGED <<isPlaying, isPaused, isForwarding, isBackWard, playing>> /\ PlayStep
PlayerClose ==
  /\ Movie("player close")
  /\ PlayerFlags(FALSE, FALSE)
  /\ playing' = FALSE
  /\ Go(<<>>)
  /\ PlayStep /\ DevicesStay

ReacquireNothing == <<>>
ReacquireSteps == IF decoders_closed THEN <<"vdec open", "reacquired">> ELSE <<>>
(* The decoders open their devices again (adec->openDevice, then vdec). *)
Reacquire ==
  \/ /\ Movie("reacquire")
     /\ aheld' = IF decoders_closed /\ aheld = "none" THEN "adec" ELSE aheld
     /\ Go(ReacquireSteps)
     /\ UNCHANGED <<statics, private, phase, arg, player, vdec, vheld>>
  \/ /\ Movie("reacquired")
     /\ decoders_closed' = FALSE
     /\ Go(<<>>)
     /\ UNCHANGED <<pm, init_jump, private, phase, arg, player, device>>

PlaybackStep ==
  \/ Release \/ Opened \/ Start \/ OpenOutput \/ StartPlay \/ StartPause
  \/ SetSpeed \/ SpeedPlay \/ Dispatch \/ Command \/ Jump \/ JumpDone \/ SetPosition
  \/ EofOff \/ RestartSpeed \/ PlayerStop \/ CloseOutput
  \/ PlayerClose \/ Reacquire

Next ==
  \/ CallOpen \/ CallStart \/ CallSetSpeed \/ CallSetPosition \/ CallClose
  \/ GetPosition \/ VideoCall \/ PlaybackStep
  \/ \E t \in Callers : VideoStep(t)
  \/ EndOfFile

Spec == Init /\ [][Next]_vars

Step == {"vdec start", "vdec close", "vdec open", "vdec opening", "show picture", "still",
         "standby on", "standby off", "release", "reacquire", "reacquired", "open TS",
         "open FILE", "start", "restart", "output open", "start play", "start pause",
         "set speed", "speed play", "dispatch", "forward", "backward", "reverse end", "pause",
         "continue", "jump", "jump position", "jump done", "position", "eof off",
         "restart speed", "player stop", "output close", "player close"}
TypeOK ==
  /\ pm \in {"TS", "FILE"} /\ {decoders_closed, init_jump, playing, eof} \subseteq BOOLEAN
  /\ speed \in Speeds \cup {0} /\ arg \in Speeds \cup {0}
  /\ phase \in {"closed", "opened", "started", "failed"}
  /\ {isPlaying, isPaused, isForwarding, isBackWard} \subseteq BOOLEAN
  /\ media \in Media
  /\ vdec \in [fd : BOOLEAN, still : BOOLEAN, standby : BOOLEAN]
  /\ vheld \in {"none", "vdec", "output", "lost"} /\ aheld \in {"none", "adec", "output"}
  /\ todo \in [Callers -> Seq(Step)]

(***************************************************************************)
(* Properties.                                                             *)
(***************************************************************************)
Quiet == \A t \in Callers : Idle(t)

(* Open, SetSpeed, SetPosition at the end of a file, Close: whatever the   *)
(* order of the calls and whatever "gui" shows meanwhile, live television  *)
(* has both devices again when the file is closed; while the player has    *)
(* the sound its decoder has not, and a still picture has a device to be   *)
(* shown on.  Excepted: both threads found the video decoder closed and    *)
(* opened it ("racy", line 193 of video.cpp), and one descriptor is lost.  *)
DevicesHandedOver ==
  Quiet /\ vheld # "lost" =>
    /\ phase = "closed" => ~decoders_closed /\ aheld = "adec"
    /\ phase = "closed" /\ ~vdec.standby => vdec.fd
    /\ vdec.fd => vheld = "vdec"
    /\ vdec.still => vdec.fd
    /\ decoders_closed => aheld # "adec"

(* When SetSpeed has ordered fast play in one direction ("direction switch *)
(* ?", lines 246 and 251), a film that plays and can be played fast goes   *)
(* in that direction and not in the other, whatever it did before; and a   *)
(* jump that SetPosition remembered ("let's remember the initial jump      *)
(* position and later jump to it", line 371) has been made, once, when a   *)
(* call of SetSpeed comes to its end with the file playing.                *)
SpeedTakesEffect ==
  [][/\ Movie("forward") /\ Movie("jump")' /\ isPlaying /\ media.video /\ ~media.http
       => isForwarding' /\ ~isBackWard'
     /\ Movie("backward") /\ Movie("jump")' /\ isPlaying /\ media.video
       => isBackWard' /\ ~isForwarding'
     /\ Idle("movie")' /\ playing' => ~init_jump']_vars
=============================================================================
