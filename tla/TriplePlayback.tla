-------------------------- MODULE TriplePlayback --------------------------
(***************************************************************************)
(* PBPrivate of libtriple/playback_td.cpp: one caller (Open, Start,        *)
(* SetSpeed, SetPosition, SetAPid, GetPosition, Close) and the play thread *)
(* that copies the file into the DVR device.                               *)
(*                                                                         *)
(* playstate is written by both without a lock: the caller asks for PLAY   *)
(* and STOP, the thread answers PAUSE when it finds the speed to be 0.     *)
(* inbufpos_mutex is held around every use of inbuf in the thread and in   *)
(* seek_to_pts.  currpos_mutex is taken inside of it by read_ts, and by    *)
(* itself by GetPosition and mp_seekSync; nobody rests with it but a       *)
(* thread that waits in read_ts for the file to grow (Spinning).           *)
(* The contents of inbuf are abstracted to the places of the               *)
(* file, one for every seek, that its bytes were read from.  Muting is     *)
(* left out, speed 2 stands for all above 1, and pthread_cond_wait returns *)
(* only when it was signalled.                                             *)
(***************************************************************************)
EXTENDS Integers, FiniteSets

CONSTANTS
  MaxStarts,      \* bound: how often a file is started
  MaxSeeks        \* bound: positions sought in one file

ASSUME TripleAssumption == MaxStarts \in Nat /\ MaxSeeks \in Nat

VARIABLES
  playstate, playback_speed,
  thread_started,
  filelist,               \* is a file listed?
  file, inbuf,            \* in_fd open, inbuf and pesbuf allocated
  inbufpos_mutex,         \* "free", "thread", or "leaked" by a thread that
                          \*   ended while it held it
  ptsKnown,               \* pts_start # -1
  endKnown,               \* pts_end and bytes_per_second
  apid,                   \* has an audio PID been chosen?
  dvr,                    \* is dvrfd open?
  source,                 \* what the demux takes: "channel" or "pvr"
  running,                \* demuxes and decoders that are started
  data,                   \* places of the file that inbuf holds bytes from
  place,                  \* the place of curr_pos
  pc,                     \* the play thread
  user, want, ret,        \* the caller; in SetSpeed, the speed asked for and
                          \*   where the caller goes on after it
  oldspeed,               \* local of SetPosition
  starts,
  rash,                   \* did a seek begin while the thread used inbuf?
  stopLost,               \* was STATE_STOP overwritten before it was seen?
  unserved                \* did the caller command devices without a thread?

state == <<playstate, playback_speed>>
ready == <<filelist, file, inbuf, ptsKnown, endKnown>>
device == <<dvr, source, running>>
buffer == <<data, place>>
caller == <<user, want, ret, oldspeed, starts>>
ghost == <<rash, stopLost, unserved>>
vars == <<state, thread_started, ready, inbufpos_mutex, apid, device, buffer,
          pc, caller, ghost>>

Devices == {"audioDemux", "videoDemux", "audioDecoder", "videoDecoder"}
Decoders == {"audioDecoder", "videoDecoder"}
InLoop == {"loop", "init", "speed", "pause", "read", "apid", "write", "retry"}
UsesInbuf == {"read", "write", "retry"}

Init ==
  /\ playstate \in {"STOP", "INIT", "PAUSE", "PLAY"}    \* not initialised
  /\ playback_speed = 0 /\ thread_started = FALSE
  /\ filelist = FALSE /\ file = FALSE /\ inbuf = FALSE
  /\ inbufpos_mutex = "free" /\ ptsKnown = FALSE /\ endKnown = FALSE
  /\ apid = FALSE /\ dvr = FALSE /\ source = "channel" /\ running = {}
  /\ data = {} /\ place = 0
  /\ pc = "none"
  /\ user = "closed" /\ want = 0 /\ ret = "idle" /\ oldspeed = 0 /\ starts = 0
  /\ rash = FALSE /\ stopLost = FALSE /\ unserved = FALSE

-----------------------------------------------------------------------------
(* The caller: Open, Start, then the controls, then Close.                 *)

Open ==
  /\ user = "closed"
  /\ thread_started' = FALSE /\ playback_speed' = 0
  /\ user' = "opened"
  /\ UNCHANGED <<playstate, ready, inbufpos_mutex, apid, device, buffer, pc,
                 want, ret, oldspeed, starts, ghost>>

(* Start, when the file cannot be had, or opened, or no sync found.  The   *)
(* caller then closes, which frees what has been read until then: the      *)
(* controls are for a Start that returned true.                            *)
StartFails ==
  /\ user = "opened" /\ starts < MaxStarts
  /\ starts' = starts + 1
  /\ user' = "failed"
  /\ apid' \in BOOLEAN
  /\ \/ /\ filelist' = FALSE /\ file' = FALSE /\ inbuf' \in {inbuf, TRUE}
        /\ UNCHANGED <<ptsKnown, endKnown>>
     \/ /\ filelist' = TRUE /\ file' \in BOOLEAN /\ inbuf' = TRUE
        /\ ptsKnown' \in BOOLEAN /\ endKnown' \in BOOLEAN
  /\ UNCHANGED <<state, thread_started, inbufpos_mutex, device, buffer, pc, want,
                 ret, oldspeed, ghost>>

(* Start, up to pthread_create, which may fail, and pthread_cond_wait.     *)
(* Reading the beginning of the file may or may not find a first PTS.      *)
Start ==
  /\ user = "opened" /\ starts < MaxStarts
  /\ starts' = starts + 1
  /\ filelist' = TRUE /\ file' = TRUE /\ inbuf' = TRUE
  /\ ptsKnown' \in BOOLEAN /\ endKnown' \in BOOLEAN
  /\ place' = 0 /\ data' \in {{}, {0}}
  /\ playback_speed' = 0
  /\ playstate' = IF ptsKnown' THEN "PAUSE" ELSE "INIT"
  /\ apid' \in BOOLEAN
  /\ \/ user' = "cond wait" /\ pc' = "born"
     \/ user' = "idle" /\ UNCHANGED pc
  /\ rash' = FALSE
  /\ UNCHANGED <<thread_started, inbufpos_mutex, device, want, ret, oldspeed,
                 stopLost, unserved>>

(* The caller starts devices, for which no cleanup handler may be to come. *)
Commanded == unserved' = (unserved \/ pc \notin InLoop \cup {"cleanup"})

(* SetSpeed: devices and playstate first, playback_speed afterwards. *)
EnterSetSpeed(speed, next) ==
  /\ user' = "set speed" /\ want' = speed /\ ret' = next

SetSpeed ==
  /\ user = "idle"
  /\ \E speed \in 0..2 : EnterSetSpeed(speed, "idle")
  /\ UNCHANGED <<state, thread_started, ready, inbufpos_mutex, apid, device,
                 buffer, pc, oldspeed, starts, ghost>>

SetSpeedPlay ==
  /\ user = "set speed"
  /\ IF want = 1 /\ playback_speed # 1
       THEN /\ playstate' = "PLAY"
            /\ running' = IF playback_speed = 0 THEN Devices
                                                ELSE running \cup Decoders
            /\ Commanded
       ELSE UNCHANGED <<playstate, running, unserved>>
  /\ user' = "store speed"
  /\ UNCHANGED <<playback_speed, thread_started, ready, inbufpos_mutex, apid, dvr,
                 source, buffer, pc, want, ret, oldspeed, starts, rash, stopLost>>

SetSpeedStore ==
  /\ user = "store speed"
  /\ playback_speed' = want
  /\ running' = IF want = 0 THEN running \cap {"videoDemux"} ELSE running
  /\ user' = ret
  /\ UNCHANGED <<playstate, thread_started, ready, inbufpos_mutex, apid, dvr,
                 source, buffer, pc, want, ret, oldspeed, starts, ghost>>

(* GetPosition: the end of a file that grows is guessed, or looked for     *)
(* under currpos_mutex, and the position of the file then put back.        *)
GetPosition ==
  /\ user = "idle"
  /\ \/ endKnown' \in {endKnown, TRUE} /\ UNCHANGED user
     \/ user' = "get position" /\ UNCHANGED endKnown
  /\ UNCHANGED <<state, thread_started, filelist, file, inbuf, ptsKnown,
                 inbufpos_mutex, apid, device, buffer, pc, want, ret, oldspeed,
                 starts, ghost>>

(* Both decoders and both demuxes are stopped and started again. *)
RestartDevices == running' = Devices
SetAPid ==
  /\ user = "idle"
  /\ apid' = TRUE
  /\ RestartDevices /\ Commanded
  /\ UNCHANGED <<state, thread_started, ready, inbufpos_mutex, dvr, source,
                 buffer, pc, caller, rash, stopLost>>

(* SetPosition asks for a pause, waits while playstate is PLAY, and seeks; *)
(* a relative one takes the present position from GetPosition.             *)
AskForPause == oldspeed' = playback_speed /\ EnterSetSpeed(0, "acknowledge")
SetPosition ==
  /\ user = "idle"
  /\ AskForPause
  /\ endKnown' \in {endKnown, TRUE}
  /\ UNCHANGED <<state, thread_started, filelist, file, inbuf, ptsKnown,
                 inbufpos_mutex, apid, device, buffer, pc, starts, ghost>>

(* read_ts has come to the end of the file in the middle of a fast-forward *)
(* read and waits for more of it, with both mutexes.                       *)
Spinning == inbufpos_mutex = "thread" /\ pc \in {"init", "read"}

(* GetPosition with currpos_mutex: one of the caller's, or the one that a  *)
(* relative SetPosition began with.                                        *)
GetPositionGoesOn ==
  /\ user = "get position" /\ ~Spinning
  /\ endKnown' \in {endKnown, TRUE}
  /\ \/ user' = "idle" /\ UNCHANGED <<want, ret, oldspeed>>
     \/ AskForPause
  /\ UNCHANGED <<state, thread_started, filelist, file, inbuf, ptsKnown,
                 inbufpos_mutex, apid, device, buffer, pc, starts, ghost>>

MaySeek == ptsKnown /\ endKnown /\ playstate = "PAUSE"
SetPositionGoesOn ==
  /\ user = "acknowledge" /\ playstate # "PLAY"
  /\ user' = IF playstate = "STOP" THEN "idle"
             ELSE IF MaySeek THEN "seek" ELSE "resume"
  /\ UNCHANGED <<state, thread_started, ready, inbufpos_mutex, apid, device,
                 buffer, pc, want, ret, oldspeed, starts, ghost>>

(* A try of seek_to_pts: mp_seekSync takes currpos_mutex and moves the     *)
(* file, or fails.                                                         *)
SeekSync ==
  /\ user = "seek" /\ ~Spinning
  /\ \/ /\ place < MaxSeeks
        /\ place' = place + 1
        /\ rash' = (rash \/ pc \in UsesInbuf)
        /\ user' = "fill"
     \/ user' = "resume" /\ UNCHANGED <<place, rash>>
  /\ UNCHANGED <<state, thread_started, ready, inbufpos_mutex, apid, device, data,
                 pc, want, ret, oldspeed, starts, stopLost, unserved>>

(* ... and inbuf is emptied and filled from there. *)
RefilledBehind == data \cup {place}
Refilled == {place}
SeekFill ==
  /\ user = "fill" /\ inbufpos_mutex = "free"
  /\ data' \in {{}, Refilled}
  /\ user' \in {"seek", "resume"}
  /\ UNCHANGED <<state, thread_started, ready, inbufpos_mutex, apid, device, place,
                 pc, want, ret, oldspeed, starts, ghost>>

Resume ==
  /\ user = "resume"
  /\ IF oldspeed # 0
       THEN EnterSetSpeed(oldspeed, "restart video")
       ELSE user' = "idle" /\ UNCHANGED <<want, ret>>
  /\ UNCHANGED <<state, thread_started, ready, inbufpos_mutex, apid, device,
                 buffer, pc, oldspeed, starts, ghost>>

RestartVideo ==
  /\ user = "restart video"
  /\ running' = running \cup {"videoDecoder"} /\ Commanded
  /\ user' = "idle"
  /\ UNCHANGED <<state, thread_started, ready, inbufpos_mutex, apid, dvr, source,
                 buffer, pc, want, ret, oldspeed, starts, rash, stopLost>>

(* Close, up to pthread_join. *)
Close ==
  /\ user \in {"idle", "failed"}
  /\ playstate' = "STOP"
  /\ user' = "join"
  /\ UNCHANGED <<playback_speed, thread_started, ready, inbufpos_mutex, apid,
                 device, buffer, pc, want, ret, oldspeed, starts, ghost>>

(* pthread_join returns, or there is no thread to wait for. *)
JoinedAssumed == TRUE
Joined == thread_started => pc = "gone"
CloseFinish ==
  /\ user = "join" /\ Joined
  /\ thread_started' = FALSE
  /\ pc' = IF pc = "gone" THEN "none" ELSE pc
  /\ filelist' = FALSE /\ file' = FALSE /\ inbuf' = FALSE
  /\ user' = "closed"
  /\ UNCHANGED <<state, ptsKnown, endKnown, inbufpos_mutex, apid, device, buffer,
                 want, ret, oldspeed, starts, ghost>>

-----------------------------------------------------------------------------
(* The play thread.                                                        *)

At(l) == pc = l
ThreadFrame == UNCHANGED <<ready, playback_speed, thread_started>>
CallerFrame == UNCHANGED <<caller, rash>>

(* The thread sets itself up and signals Start that it can return. *)
Signalled == "idle"
ThreadReady ==
  /\ At("born")
  /\ thread_started' = TRUE
  /\ dvr' = TRUE /\ source' = "pvr" /\ running' = running \cup {"videoDemux"}
  /\ user' = Signalled
  /\ pc' = "loop"
  /\ unserved' = FALSE
  /\ UNCHANGED <<state, ready, inbufpos_mutex, apid, buffer, want, ret, oldspeed,
                 starts, rash, stopLost>>

(* The DVR cannot be opened: the thread ends and signals nobody. *)
ThreadNoDvr ==
  /\ At("born")
  /\ thread_started' = TRUE
  /\ pc' = "gone"
  /\ UNCHANGED <<state, ready, inbufpos_mutex, apid, device, buffer, caller,
                 ghost>>

LoopTest ==
  /\ At("loop")
  /\ \/ playstate = "STOP" /\ pc' = "cleanup"
     \/ playstate = "INIT" /\ pc' = "init"
     \/ playstate \notin {"STOP", "INIT"} /\ pc' = "speed"
  /\ UNCHANGED <<playstate, inbufpos_mutex, apid, device, buffer, rash,
                 stopLost, unserved>>
  /\ ThreadFrame /\ CallerFrame

(* inbuf_read, with the mutex: end of file, data, or an error.  At a speed *)
(* above 1 read_ts leaves at the end of the file only when it has read     *)
(* nothing yet: it tries again for ever once it has, unless the file grows.*)
Read(next) ==
  /\ inbufpos_mutex = "free" \/ Spinning
  /\ \/ pc' = next /\ data' \in {data, data \cup {place}}
        /\ inbufpos_mutex' = "free"
     \/ pc' = "cleanup" /\ inbufpos_mutex' = "free" /\ UNCHANGED data
     \/ playback_speed > 1 /\ inbufpos_mutex' = "thread" /\ UNCHANGED pc
        /\ data' \in {data, data \cup {place}}

(* STATE_INIT: read until a first PTS is known. *)
InitRead ==
  /\ At("init")
  /\ ptsKnown' \in {ptsKnown, TRUE}
  /\ Read(IF ptsKnown' THEN "speed" ELSE "loop")
  /\ pc' \in {"cleanup", "init"} => ptsKnown' = ptsKnown
  /\ UNCHANGED <<state, thread_started, filelist, file, inbuf, endKnown, apid,
                 device, place, stopLost, unserved>>
  /\ CallerFrame

SpeedTest ==
  /\ At("speed")
  /\ pc' = IF playback_speed = 0 THEN "pause" ELSE "read"
  /\ UNCHANGED <<playstate, inbufpos_mutex, apid, device, buffer, stopLost,
                 unserved>>
  /\ ThreadFrame /\ CallerFrame

(* The pause is acknowledged, whatever playstate has become meanwhile. *)
AcknowledgedNot == playstate
Acknowledged == "PAUSE"
Pause ==
  /\ At("pause")
  /\ playstate' = Acknowledged
  /\ stopLost' = (stopLost \/ playstate = "STOP")
  /\ pc' = "loop"
  /\ UNCHANGED <<inbufpos_mutex, apid, device, buffer, unserved>>
  /\ ThreadFrame /\ CallerFrame

PlayRead ==
  /\ At("read")
  /\ Read("apid")
  /\ UNCHANGED <<playstate, apid, device, place, stopLost, unserved>>
  /\ ThreadFrame /\ CallerFrame

(* With no audio PID chosen, the first stream found is. *)
SelectAPid ==
  /\ At("apid")
  /\ \/ ~apid /\ apid' = TRUE /\ RestartDevices
     \/ UNCHANGED <<apid, running>>
  /\ pc' = "write"
  /\ UNCHANGED <<playstate, inbufpos_mutex, dvr, source, buffer, stopLost,
                 unserved>>
  /\ ThreadFrame /\ CallerFrame

(* write(dvrfd): all or part of inbuf goes, or there is less than a packet *)
(* to write.                                                               *)
Write ==
  /\ \/ At("write") /\ inbufpos_mutex = "free"
     \/ At("retry")
  /\ data' \in {data, {}}
  /\ inbufpos_mutex' = "free"
  /\ pc' = "loop"
  /\ UNCHANGED <<playstate, apid, device, place, stopLost, unserved>>
  /\ ThreadFrame /\ CallerFrame

(* EAGAIN is answered with another write until a stop is asked for. *)
MayRetry == playstate # "STOP"
WriteRetry ==
  /\ At("write") /\ inbufpos_mutex = "free"
  /\ MayRetry
  /\ inbufpos_mutex' = "thread"
  /\ pc' = "retry"
  /\ UNCHANGED <<playstate, apid, device, buffer, stopLost, unserved>>
  /\ ThreadFrame /\ CallerFrame

(* EAGAIN with a stop, or an error: the loop is left with the mutex held. *)
WriteFails ==
  /\ \/ At("write") /\ inbufpos_mutex = "free"
     \/ At("retry")
  /\ inbufpos_mutex' = "leaked"
  /\ pc' = "cleanup"
  /\ UNCHANGED <<playstate, apid, device, buffer, stopLost, unserved>>
  /\ ThreadFrame /\ CallerFrame

(* playthread_cleanup_handler *)
LeftRunningVideo == running \cap {"videoDemux", "videoDecoder"}
LeftRunning == {}
DvrLeftOpen == dvr
DvrAfter == FALSE
Cleanup ==
  /\ At("cleanup")
  /\ source' = "channel" /\ running' = LeftRunning /\ dvr' = DvrAfter
  /\ pc' = "gone"
  /\ UNCHANGED <<playstate, inbufpos_mutex, apid, buffer, stopLost, unserved>>
  /\ ThreadFrame /\ CallerFrame

-----------------------------------------------------------------------------
UserCall ==
  \/ Open \/ StartFails \/ Start \/ SetSpeed \/ GetPosition \/ SetAPid
  \/ SetPosition \/ Close
UserGoesOn ==
  \/ SetSpeedPlay \/ SetSpeedStore \/ GetPositionGoesOn \/ SetPositionGoesOn
  \/ SeekSync \/ SeekFill \/ Resume \/ RestartVideo \/ CloseFinish
Thread ==
  \/ ThreadReady \/ ThreadNoDvr \/ LoopTest \/ InitRead \/ SpeedTest \/ Pause
  \/ PlayRead \/ SelectAPid \/ Write \/ WriteRetry \/ WriteFails \/ Cleanup

Next == UserCall \/ UserGoesOn \/ Thread

(* A call that has begun goes on and the thread runs when it can; nobody   *)
(* need make another call.  A DVR that answers EAGAIN need never take the  *)
(* data, so that the thread leaves its retries for sure only when it stops *)
(* retrying; nor need a file grow at whose end read_ts spins.  A mutex that *)
(* is freed again and again is had at last.                                *)
Fairness ==
  /\ WF_vars(UserGoesOn) /\ SF_vars(GetPositionGoesOn)
  /\ WF_vars(Thread /\ (At("retry") => ~MayRetry) /\ ~Spinning)

Spec == Init /\ [][Next]_vars
FairSpec == Spec /\ Fairness

-----------------------------------------------------------------------------
(* The shape of the state; the DVR is open exactly while a thread is       *)
(* between its setup and its cleanup handler.                              *)
Flags ==
  /\ thread_started \in BOOLEAN /\ filelist \in BOOLEAN /\ file \in BOOLEAN
  /\ inbuf \in BOOLEAN /\ ptsKnown \in BOOLEAN /\ endKnown \in BOOLEAN
  /\ apid \in BOOLEAN /\ dvr \in BOOLEAN
  /\ rash \in BOOLEAN /\ stopLost \in BOOLEAN /\ unserved \in BOOLEAN
Positions ==
  /\ playstate \in {"STOP", "INIT", "PAUSE", "PLAY"}
  /\ inbufpos_mutex \in {"free", "thread", "leaked"}
  /\ pc \in {"none", "born", "cleanup", "gone"} \cup InLoop
  /\ user \in {"closed", "opened", "idle", "failed", "cond wait", "set speed",
               "store speed", "get position", "acknowledge", "seek", "fill",
               "resume", "restart video", "join"}
  /\ ret \in {"idle", "acknowledge", "restart video"}
Numbers ==
  /\ playback_speed \in 0..2 /\ want \in 0..2 /\ oldspeed \in 0..2
  /\ starts \in 0..MaxStarts /\ place \in 0..MaxSeeks
Places ==
  /\ data \subseteq 0..place
  /\ source \in {"channel", "pvr"} /\ running \subseteq Devices
DvrOpen == dvr <=> pc \in InLoop \cup {"cleanup"}
TypeOK == Flags /\ Positions /\ Numbers /\ Places /\ DvrOpen

(* While the play thread may read, write or close, the buffer is allocated *)
(* and the file open: Close frees them only behind the join, although      *)
(* thread_started is set by the thread and cleared by Open.                *)
BufferLives == pc \in InLoop => inbuf /\ file /\ filelist /\ thread_started

(* After Close, live television has its devices back: the demux takes the  *)
(* channel again, and nothing that playback started is still running,      *)
(* unless it was started when the thread had already ended by itself.      *)
ClosedIsQuiet ==
  user = "closed" =>
     source = "channel" /\ ~dvr /\ (~unserved => running = {})

(* What Open and Start acquire is given back by whoever may: the memory    *)
(* not under the thread, and the devices by the time Close returns.        *)
ReleasedInOrder == BufferLives /\ ClosedIsQuiet

(* As long as seeks begin while the thread is at rest, the buffer never    *)
(* holds bytes from before a seek together with bytes from behind it.      *)
OnePlace == ~rash => Cardinality(data) <= 1

(* "buffer is without locking, so we must only seek while in pause mode"   *)
(* (playback_td.cpp:792).  It is not so: playstate is also PAUSE when the  *)
(* speed went from 0 to 2, for which SetSpeed does not say PLAY, or when   *)
(* the thread's PAUSE came behind the caller's PLAY.                       *)
SeekWhilePaused == user \in {"seek", "fill"} => pc \notin UsesInbuf

(* Close returns, except when the thread overwrote the STOP that it had    *)
(* not seen, waits for the mutex that an earlier thread took along, or     *)
(* spins in read_ts at the end of a file that no longer grows.             *)
(* Every other call returns, GetPosition with its wait for currpos_mutex   *)
(* and SetPosition with its wait for the thread and its seek included,     *)
(* except when there is no thread any more, when the mutex is lost, while  *)
(* the DVR takes no data for ever, or, again, while read_ts spins for ever.*)
CallsReturn ==
  \/ <>[]Spinning
  \/ /\ user = "join" ~>
           user = "closed" \/ stopLost \/ inbufpos_mutex = "leaked"
     /\ \/ <>[](pc = "retry")
        \/ user \notin {"closed", "opened", "idle", "failed", "join"} ~>
             user = "idle" \/ pc \in {"none", "gone"}
               \/ inbufpos_mutex = "leaked"
=============================================================================
