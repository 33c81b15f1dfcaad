------------------------------ MODULE EPlayer ------------------------------
(***************************************************************************)
(* The Player of libeplayer3: the calls its user makes (player.cpp), the   *)
(* play threads that Player::Play creates and that run Input::Play         *)
(* (input.cpp), and the state of the two decoder devices (output.cpp).     *)
(*                                                                         *)
(* Player, Input and their threads share plain bool members; the only      *)
(* synchronisation is polling: a caller of Player::Stop waits until        *)
(* hasPlayThreadStarted and hasThreadStarted are false, and a play thread  *)
(* that comes to the end of the file calls Player::Stop itself.  A step of *)
(* the model is a stretch of code between two accesses to such members     *)
(* that another thread can disturb.                                        *)
(*                                                                         *)
(* The user keeps to the order in which cPlayback drives a Player          *)
(* (playback_libeplayer3.cpp): Open, then Output::Open and Play, then      *)
(* pause and trick modes, then Stop, Output::Close and Close.              *)
(***************************************************************************)
EXTENDS Integers, FiniteSets

CONSTANTS
  Threads,        \* identities for play threads
  User,           \* the thread that calls the Player
  MaxOpens        \* bound: how often the user opens a file

ASSUME EPlayerAssumption ==
  /\ IsFiniteSet(Threads) /\ User \notin Threads
  /\ MaxOpens \in Nat

VARIABLES
  isPlaying, isPaused, isForwarding, isBackWard, isSlowMotion,
  abortRequested, hasThreadStarted,     \* members of Player
  isHttp, hasVideo,                     \* kind of input: network, video track
  hasPlayThreadStarted, abortPlayback,  \* members of Input
  avfc,           \* Input::avfc: 0 for NULL, else the number of the Open
                  \*   that allocated it
  audio, video,   \* decoder devices
  pc,             \* where each thread is
  phase,          \* the user: "closed", "opened" or "started"
  opens,          \* how many files have been opened
  session,        \* the Open a play thread was created for
  stray,          \* has the user met a play thread it could not wait for,
                  \*   or its Stop the thread's own?
  fault           \* was an AVFormatContext used after it was closed?

flags == <<isPlaying, isPaused, isForwarding, isBackWard, isSlowMotion>>
media == <<isHttp, hasVideo>>
input == <<hasPlayThreadStarted, abortPlayback, avfc>>
device == <<audio, video>>
ghost == <<session, stray, fault>>
vars == <<flags, abortRequested, hasThreadStarted, media, input, device, pc,
          phase, opens, ghost>>

Actors == Threads \cup {User}
Goto(a, l) == pc' = [pc EXCEPT ![a] = l]
Alive(t) == pc[t] # "none"

Reading == {"loop", "read", "end"}
Announced(t) == pc[t] \in Reading \cup {"started", "ended"}

(* The user meets a play thread that it has no means to wait for: one that *)
(* has not announced itself yet, or has taken its announcement back.       *)
MeetsUnannounced == \E t \in Threads : Alive(t) /\ ~Announced(t)

Init ==
  /\ isPlaying = FALSE /\ isPaused = FALSE /\ isForwarding = FALSE
  /\ isBackWard = FALSE /\ isSlowMotion = FALSE
  /\ abortRequested \in BOOLEAN      \* never initialised before Open
  /\ hasThreadStarted = FALSE
  /\ isHttp = FALSE /\ hasVideo = FALSE
  /\ hasPlayThreadStarted = FALSE /\ abortPlayback = FALSE
  /\ avfc = 0      \* NULL or, until the first Open, not initialised
  /\ audio = "closed" /\ video = "closed"
  /\ pc = [a \in Actors |-> IF a = User THEN "idle" ELSE "none"]
  /\ phase = "closed" /\ opens = 0
  /\ session = [t \in Threads |-> 0]
  /\ stray = FALSE /\ fault = FALSE

-----------------------------------------------------------------------------
(* Output.  A command to a device that is not open does nothing.           *)

CmdAlways(dev, st) == st
Cmd(dev, st) == IF dev = "closed" THEN "closed" ELSE st
(* AUDIO_CONTINUE and VIDEO_CONTINUE resume what was paused. *)
ResumedStopped(dev) == IF dev = "stopped" THEN "playing" ELSE dev
Resumed(dev) == IF dev = "paused" THEN "playing" ELSE dev

(* Output::Open opens both devices or, when one cannot be had, none. *)
OutputOpen ==
  \/ audio' = "closed" /\ video' = "closed"
  \/ audio' = "stopped" /\ video' = "stopped"
OutputClose == audio' = "closed" /\ video' = "closed"
OutputPlay ==
  /\ audio' = Cmd(audio, "playing")
  /\ video' = IF hasVideo THEN Cmd(video, "playing") ELSE video
OutputStop == audio' = Cmd(audio, "stopped") /\ video' = Cmd(video, "stopped")

(* The state of the audio device after Output::Mute(b), and, for the calls *)
(* that end reverse play, after a Mute(false) that follows another command. *)
Mute(b) == Cmd(audio, IF b THEN "stopped" ELSE "playing")
Unmuted(dev) == IF isBackWard THEN Mute(FALSE) ELSE dev
OutputPause == video' = Cmd(video, "paused") /\ audio' = Unmuted(Cmd(audio, "paused"))
OutputContinue == video' = Resumed(video) /\ audio' = Unmuted(Resumed(audio))

-----------------------------------------------------------------------------
(* The user.                                                               *)

UserAt(l) == pc[User] = l

(* Input::Init: the file may turn out not to be playable.  Every file has  *)
(* an audio track, some have video.                                        *)
InputInit ==
  /\ abortPlayback' = FALSE
  /\ \/ avfc' = opens + 1 /\ phase' = "opened" /\ hasVideo' \in BOOLEAN
     \/ avfc' = 0 /\ hasVideo' = FALSE /\ UNCHANGED phase

(* Player::Open *)
Open ==
  /\ UserAt("idle") /\ phase = "closed" /\ opens < MaxOpens
  /\ abortRequested' = FALSE
  /\ isHttp' \in BOOLEAN
  /\ opens' = opens + 1
  /\ InputInit
  /\ UNCHANGED <<flags, hasThreadStarted, hasPlayThreadStarted, device,
                 pc, ghost>>

(* cPlayback::Start: Output::Open, before Player::Play. *)
Play ==
  /\ UserAt("idle") /\ phase = "opened"
  /\ OutputOpen
  /\ phase' = "started"
  /\ Goto(User, "play")
  /\ UNCHANGED <<flags, abortRequested, hasThreadStarted, media, input, opens,
                 ghost>>

(* Player::Play, when Output::Play cannot start a device. *)
PlayFails ==
  /\ UserAt("play") /\ audio # "closed"
  /\ video' \in {video, "playing"}
  /\ Goto(User, "idle")
  /\ UNCHANGED <<flags, abortRequested, hasThreadStarted, media, input, audio,
                 phase, opens, ghost>>

PlayFlags(running) ==
  /\ isPlaying' = running /\ isPaused' = FALSE /\ isForwarding' = FALSE
  /\ isBackWard' = FALSE /\ isSlowMotion' = FALSE
  /\ OutputPlay

(* Player::Play with a thread still there: no other one is created. *)
PlayStarts ==
  /\ UserAt("play") /\ ~isPlaying
  /\ hasThreadStarted
  /\ PlayFlags(TRUE)
  /\ Goto(User, "idle")
  /\ stray' = (stray \/ MeetsUnannounced)
  /\ UNCHANGED <<abortRequested, hasThreadStarted, media, input, phase, opens,
                 session, fault>>

(* Player::Play with pthread_create, which may fail. *)
PlayCreates ==
  /\ UserAt("play") /\ ~isPlaying
  /\ ~hasThreadStarted
  /\ stray' = (stray \/ MeetsUnannounced)
  /\ \/ /\ PlayFlags(TRUE)
        /\ \E t \in Threads :
             /\ ~Alive(t)
             /\ pc' = [pc EXCEPT ![User] = "idle", ![t] = "born"]
             /\ session' = [session EXCEPT ![t] = opens]
     \/ PlayFlags(FALSE) /\ Goto(User, "idle") /\ UNCHANGED session
  /\ UNCHANGED <<abortRequested, hasThreadStarted, media, input, phase, opens,
                 fault>>

(* Pause, Continue, FastForward, FastBackward and SlowMotion look at the   *)
(* flags first and change them, and the devices, in a second step.         *)
CanPause == isPlaying /\ ~isPaused
CanContinue == isPlaying /\ (isPaused \/ isForwarding \/ isBackWard \/ isSlowMotion)
CanForward == hasVideo /\ ~isHttp /\ ~isBackWard /\ (~isPaused \/ isPlaying)
CanBackward == hasVideo /\ ~isForwarding /\ (~isPaused \/ isPlaying)
CanSlow == hasVideo /\ ~isHttp /\ isPlaying

Control(op, guard) ==
  /\ UserAt("idle") /\ phase = "started" /\ guard
  /\ Goto(User, op)
  /\ UNCHANGED <<flags, abortRequested, hasThreadStarted, media, input, device,
                 phase, opens, ghost>>

AskControl ==
  \/ Control("pause", CanPause)
  \/ Control("continue", CanContinue)
  \/ Control("forward", CanForward)
  \/ Control("backward", CanBackward)
  \/ Control("reverse end", CanBackward)
  \/ Control("slow", CanSlow)

ControlFrame ==
  /\ Goto(User, "idle")
  /\ UNCHANGED <<abortRequested, hasThreadStarted, media, input, phase, opens,
                 ghost>>

Pause ==
  /\ UserAt("pause")
  /\ isPaused' = TRUE /\ isForwarding' = FALSE /\ isBackWard' = FALSE
  /\ isSlowMotion' = FALSE
  /\ OutputPause
  /\ UNCHANGED isPlaying
  /\ ControlFrame

Continue ==
  /\ UserAt("continue")
  /\ isPaused' = FALSE /\ isForwarding' = FALSE /\ isBackWard' = FALSE
  /\ isSlowMotion' = FALSE
  /\ OutputContinue
  /\ UNCHANGED isPlaying
  /\ ControlFrame

FastForward ==
  /\ UserAt("forward")
  /\ isForwarding' = TRUE
  /\ UNCHANGED <<isPlaying, isPaused, isBackWard, isSlowMotion, device>>
  /\ ControlFrame

(* FastBackward(speed), speed < 0, and FastBackward(0). *)
FastBackward ==
  /\ \/ UserAt("backward") /\ isBackWard' = TRUE /\ audio' = Mute(TRUE)
     \/ UserAt("reverse end") /\ isBackWard' = FALSE /\ UNCHANGED audio
  /\ UNCHANGED <<isPlaying, isPaused, isForwarding, isSlowMotion, video>>
  /\ ControlFrame

(* SlowMotion(repeats) with a repeat count that is known, or another. *)
SlowMotion ==
  /\ UserAt("slow")
  /\ IF isPaused /\ isPlaying
       THEN /\ isPaused' = FALSE /\ isForwarding' = FALSE /\ isBackWard' = FALSE
            /\ OutputContinue
            /\ isSlowMotion' \in BOOLEAN
       ELSE /\ isSlowMotion' \in {isSlowMotion, TRUE}
            /\ UNCHANGED <<isPaused, isForwarding, isBackWard, device>>
  /\ UNCHANGED isPlaying
  /\ ControlFrame

(* Player::RequestAbort, from whatever thread. *)
RequestAbort ==
  /\ ~abortRequested
  /\ abortRequested' = TRUE
  /\ UNCHANGED <<flags, hasThreadStarted, media, input, device, pc, phase,
                 opens, ghost>>

(* cPlayback::Stop begins: Player::Stop. *)
UserStop ==
  /\ UserAt("idle")
  /\ Goto(User, "stop")
  /\ UNCHANGED <<flags, abortRequested, hasThreadStarted, media, input, device,
                 phase, opens, ghost>>

(* Player::Close *)
PlayerClose ==
  /\ isPlaying' = FALSE /\ isPaused' = FALSE /\ isForwarding' = FALSE
  /\ isBackWard' = FALSE /\ isSlowMotion' = FALSE

(* ... and ends: Output::Close and Player::Close. *)
UserClose ==
  /\ UserAt("close")
  /\ Goto(User, "idle")
  /\ phase' = "closed"
  /\ OutputClose
  /\ PlayerClose
  /\ UNCHANGED <<abortRequested, hasThreadStarted, media, input, opens, ghost>>

-----------------------------------------------------------------------------
(* Player::Stop, called by the user and by play threads.  Two of them may  *)
(* both see isPlaying before either clears it.                             *)

StopTest(a) ==
  /\ pc[a] = "stop"
  /\ Goto(a, IF isPlaying THEN "stop flags" ELSE "stop wait")
  /\ stray' = (stray \/ IF a = User THEN MeetsUnannounced
                       ELSE UserAt("stop flags") /\ isPlaying)
  /\ UNCHANGED <<flags, abortRequested, hasThreadStarted, media, input, device,
                 phase, opens, session, fault>>

(* The flags are cleared; the decoders are stopped (a Mute(false) before   *)
(* it is overtaken by AUDIO_STOP); Input::Stop sets abortPlayback.         *)
StopFlags(a) ==
  /\ pc[a] = "stop flags"
  /\ abortRequested' = TRUE
  /\ isPlaying' = FALSE /\ isPaused' = FALSE /\ isForwarding' = FALSE
  /\ isBackWard' = FALSE /\ isSlowMotion' = FALSE
  /\ OutputStop
  /\ abortPlayback' = TRUE
  /\ Goto(a, "stop input")
  /\ UNCHANGED <<hasThreadStarted, media, hasPlayThreadStarted, avfc,
                 phase, opens, ghost>>

InputIdleAssumed == TRUE
InputIdle == ~hasPlayThreadStarted
(* Input::Stop: the wait for the play loop, and the look at avfc. *)
StopInput(a) ==
  /\ pc[a] = "stop input"
  /\ InputIdle
  /\ Goto(a, IF avfc # 0 THEN "stop avfc" ELSE "stop wait")
  /\ UNCHANGED <<flags, abortRequested, hasThreadStarted, media, input, device,
                 phase, opens, ghost>>

(* Input::Stop, with the mutex: the codecs and the input are closed. *)
StopAvfc(a) ==
  /\ pc[a] = "stop avfc"
  /\ avfc' = 0
  /\ fault' = (fault \/ avfc = 0 \/ \E t \in Threads : pc[t] = "read")
  /\ Goto(a, "stop wait")
  /\ UNCHANGED <<flags, abortRequested, hasThreadStarted, media,
                 hasPlayThreadStarted, abortPlayback, device, phase,
                 opens, session, stray>>

(* The last wait.  A play thread ends here, the user goes on to close. *)
ThreadGoneAssumed == TRUE
ThreadGone == ~hasThreadStarted
StopWait(a) ==
  /\ pc[a] = "stop wait"
  /\ ThreadGone
  /\ Goto(a, IF a = User THEN "close" ELSE "none")
  /\ UNCHANGED <<flags, abortRequested, hasThreadStarted, media, input, device,
                 phase, opens, ghost>>

Stop(a) == StopTest(a) \/ StopFlags(a) \/ StopInput(a) \/ StopAvfc(a) \/ StopWait(a)

-----------------------------------------------------------------------------
(* A play thread: Player::playthread and Input::Play.                      *)

(* What the thread tells Player about itself before it plays. *)
AtBegin == TRUE
Begin(t) ==
  /\ pc[t] = "born"
  /\ hasThreadStarted' = AtBegin
  /\ Goto(t, "started")
  /\ UNCHANGED <<flags, abortRequested, media, input, device, phase, opens, ghost>>

InputBegin(t) ==
  /\ pc[t] = "started"
  /\ hasPlayThreadStarted' = TRUE
  /\ Goto(t, "loop")
  /\ UNCHANGED <<flags, abortRequested, hasThreadStarted, media, abortPlayback,
                 avfc, device, phase, opens, ghost>>

KeepPlaying == isPlaying /\ ~abortRequested
LoopEnds(t) ==
  /\ pc[t] = "loop" /\ ~KeepPlaying
  /\ Goto(t, "end")
  /\ UNCHANGED <<flags, abortRequested, hasThreadStarted, media, input, device,
                 phase, opens, ghost>>

(* A pending seek is carried out, or, playing backward, a jump is made,    *)
(* and av_read_frame is called.  Paused, the thread only waits.            *)
LoopRead(t) ==
  /\ pc[t] = "loop" /\ KeepPlaying /\ ~isPaused
  /\ fault' = (fault \/ avfc = 0)
  /\ Goto(t, "read")
  /\ UNCHANGED <<flags, abortRequested, hasThreadStarted, media,
                 hasPlayThreadStarted, abortPlayback, avfc, device, phase,
                 opens, session, stray>>

(* av_read_frame: a packet, which is written to a decoder, or nothing yet. *)
ReadPacket(t) ==
  /\ pc[t] = "read"
  /\ Goto(t, "loop")
  /\ UNCHANGED <<flags, abortRequested, hasThreadStarted, media, input, device,
                 phase, opens, ghost>>

(* av_read_frame: end of file, an error, or interrupted by interrupt_cb. *)
ReadEnds(t) ==
  /\ pc[t] = "read"
  /\ Goto(t, "end")
  /\ UNCHANGED <<flags, abortRequested, hasThreadStarted, media, input, device,
                 phase, opens, ghost>>

(* Output::Clear or Flush; the play loop is over. *)
AtEnd == FALSE
InputEnd(t) ==
  /\ pc[t] = "end"
  /\ abortPlayback' = TRUE
  /\ hasPlayThreadStarted' = AtEnd
  /\ Goto(t, "ended")
  /\ UNCHANGED <<flags, abortRequested, hasThreadStarted, media, avfc,
                 device, phase, opens, ghost>>

(* Player::playthread takes its announcement back and calls Player::Stop. *)
AfterPlayNothing == "none"
AfterPlay == "stop"
Ended(t) ==
  /\ pc[t] = "ended"
  /\ hasThreadStarted' = FALSE
  /\ Goto(t, AfterPlay)
  /\ UNCHANGED <<flags, abortRequested, media, input, device, phase, opens, ghost>>

PlayThread(t) ==
  \/ Begin(t) \/ InputBegin(t) \/ LoopEnds(t) \/ LoopRead(t)
  \/ ReadPacket(t) \/ ReadEnds(t) \/ InputEnd(t) \/ Ended(t)

-----------------------------------------------------------------------------
UserCall ==
  \/ Open \/ Play \/ AskControl\/ UserStop
UserGoesOn ==
  \/ PlayFails \/ PlayStarts \/ PlayCreates \/ Pause \/ Continue \/ FastForward
  \/ FastBackward \/ SlowMotion \/ UserClose

Next ==
  \/ UserCall \/ UserGoesOn \/ RequestAbort
  \/ \E t \in Threads : PlayThread(t)
  \/ \E a \in Actors : Stop(a)

(* A thread that can run does, and a call that has begun goes on; the user *)
(* need not call anything.  A read returns in the end: interrupt_cb cuts   *)
(* it short once an abort is asked for.                                    *)
Fairness ==
  /\ WF_vars(UserGoesOn)
  /\ WF_vars(Stop(User))
  /\ \A t \in Threads : WF_vars(PlayThread(t) \/ Stop(t))

Spec == Init /\ [][Next]_vars
FairSpec == Spec /\ Fairness

-----------------------------------------------------------------------------
StopSteps == {"stop", "stop flags", "stop input", "stop avfc", "stop wait"}
Controls == {"pause", "continue", "forward", "backward", "reverse end", "slow"}
DeviceState == {"closed", "stopped", "playing", "paused"}

(* The shape of the state; the two decoders are opened and closed together *)
(* (Output::Open, Output::Close).                                          *)
Flags ==
  {isPlaying, isPaused, isForwarding, isBackWard, isSlowMotion, abortRequested,
   hasThreadStarted, hasPlayThreadStarted, abortPlayback, isHttp, hasVideo,
   stray, fault} \subseteq BOOLEAN
Places ==
  /\ pc \in [Actors -> {"idle", "play", "close", "none", "born", "started", "ended"}
                      \cup Reading \cup Controls \cup StopSteps]
  /\ pc[User] \in {"idle", "play", "close"} \cup Controls \cup StopSteps
  /\ \A t \in Threads :
       pc[t] \in {"none", "born", "started", "ended"} \cup Reading \cup StopSteps
  /\ phase \in {"closed", "opened", "started"}
Decoders ==
  /\ audio \in DeviceState /\ video \in DeviceState
  /\ audio = "closed" <=> video = "closed"
Files ==
  /\ opens \in 0..MaxOpens /\ avfc \in 0..opens
  /\ session \in [Threads -> 0..opens]
TypeOK == Flags /\ Places /\ Decoders /\ Files

(* When Player::Stop and Close have returned nothing plays: no thread is   *)
(* on its way to the file, the decoders are closed, and the context of a   *)
(* file that was played is gone, so that the next Open loses none.         *)
StoppedIsQuiet ==
  /\ ~isPlaying /\ ~hasThreadStarted /\ ~hasPlayThreadStarted
  /\ audio = "closed" /\ video = "closed"
  /\ \A t \in Threads : ~Announced(t) /\ pc[t] # "born"
  /\ (\E t \in Threads : session[t] = opens) => avfc = 0

(* A player that says it is playing has a play thread that was created for *)
(* the file now open and that will still act on the end of that file: it   *)
(* never plays without one, nor with the one of an earlier file; there is  *)
(* never more than one thread in the play loop, and the Stop that a play   *)
(* thread calls at the end of its file does not stop the next one; with    *)
(* the file closed there is none on its way to it; and the format context  *)
(* is never used once it is closed, never closed under a reader and never  *)
(* closed twice                                                            *)
(* (Input::Stop waits for the play loop, and the play thread's own         *)
(* Player::Stop sees isPlaying or finds avfc gone).  All this as long as   *)
(* the user meets no thread it cannot wait for.                            *)
ServedByItsThread ==
  ~stray =>
    /\ ~fault
    /\ isPlaying => \E t \in Threads :
         /\ session[t] = opens
         /\ Announced(t) \/ pc[t] \in {"born", "stop", "stop flags"}
    /\ \A t, u \in Threads : pc[t] \in Reading /\ pc[u] \in Reading => t = u
    /\ \A t \in Threads : pc[t] = "stop flags" => session[t] = opens
    /\ UserAt("idle") /\ phase = "closed" => StoppedIsQuiet

(* The picture stands still exactly while the player says it is paused,    *)
(* whatever trick modes come between (Pause, Continue, SlowMotion).        *)
PictureFollowsPause ==
  ~stray /\ isPlaying /\ UserAt("idle") /\ hasVideo /\ video # "closed" =>
     video = IF isPaused THEN "paused" ELSE "playing"

(* Player::Stop returns to the user, whatever the threads are doing; and   *)
(* the end of the file, or an abort, is seen: isPlaying becomes false,     *)
(* which cPlayback::GetPosition takes for the end of the file.             *)
EndIsSeen ==
  /\ pc[User] \in StopSteps ~> UserAt("idle")
  /\ (isPlaying /\ \E t \in Threads : pc[t] = "end") ~> ~isPlaying

(* After reverse play and other trick modes, normal play has sound:        *)
(* "reverse end" (player.cpp:271) ends the muting that reverse play began. *)
SoundReturns ==
  ~stray /\ isPlaying /\ UserAt("idle") /\ audio # "closed" =>
     isPaused \/ isForwarding \/ isBackWard \/ isSlowMotion \/ audio = "playing"
=============================================================================
