----------------------------- MODULE PcDecoder -----------------------------
(***************************************************************************)
(* The decoders of generic-pc: VDec (video.cpp) or ADec (audio.cpp), as    *)
(* chosen at Init, with the thread that decodes; for video also the ring   *)
(* of frames, the still picture, and the renderer (glfb.cpp), which takes  *)
(* a frame out of the ring and uploads it after giving the lock up.        *)
(*                                                                         *)
(* The ring is protected by buf_m and the still picture by still_m, but    *)
(* the three places that empty the ring do not take buf_m: who has it then *)
(* goes on with the indices as they are or as they were.  Frames are       *)
(* numbered in the order in which they are made.  The user makes one call  *)
(* at a time.                                                              *)
(***************************************************************************)
EXTENDS Integers, FiniteSets

CONSTANTS
  MaxBufs,    \* VDEC_MAXBUFS
  Threads,    \* bound: threads that exist at a time
  MaxFrames,  \* bound: no decoding begins after so many frames
  MinNum      \* bound: how far buf_num is followed below zero

ASSUME PcAssumption ==
  /\ MaxBufs \in Nat /\ MaxBufs >= 2 /\ MaxFrames \in Nat /\ MinNum \in Int /\ MinNum < 0
  /\ IsFiniteSet(Threads) /\ Threads # {}
  /\ \A t \in Threads : t \notin {"free", "user", "render"}

MadeLimit == MaxFrames + Cardinality(Threads)
Slots == 0 .. MaxBufs - 1
Empty == [n |-> 0, pic |-> FALSE]
NoIndices == [num |-> 0, in |-> 0, out |-> 0]
Idle == [slot |-> 0, room |-> 0, reset |-> FALSE]

VARIABLES
  which,       \* "video" or "audio"
  th,          \* run(), by thread
  tid,         \* the thread that start() created last
  running,     \* thread_running of VDec, thread_started of ADec
  wanted,      \* has the user started and not stopped since?
  user,        \* "idle", "joining", "picture" (in ShowPicture), "drawing"
  stillpicture,
  still_m, buf_m,           \* who has the mutex, or "free"
  buf_num, buf_in, buf_out,
  buffers,     \* the frames in the ring
  seen,        \* the indices as the holder of buf_m found them
  render,      \* the renderer: "idle", "taking", "uploading"
  up,          \* the upload: slot, frames that may be inserted meanwhile, ring emptied?
  shown,       \* history: the number of the frame that was taken last
  made,        \* history: frames made
  raced,       \* history: the ring was emptied while somebody had buf_m
  missed       \* history: a Stop did not see the thread that was there

ring == <<buf_num, buf_in, buf_out, buffers>>
locks == <<still_m, buf_m, seen>>
rendering == <<render, up, shown>>
vars == <<which, th, tid, running, wanted, user, stillpicture, locks, ring, rendering,
          made, raced, missed>>

Alive(t) == th[t] \notin {"none", "ended"}
Live == {t \in Threads : Alive(t)}

Init ==
  /\ which \in {"video", "audio"}
  /\ th = [t \in Threads |-> "none"] /\ tid = CHOOSE t \in Threads : TRUE
  /\ running = FALSE /\ wanted = FALSE
  /\ user = "idle" /\ stillpicture = FALSE
  /\ still_m = "free" /\ buf_m = "free"
  /\ buf_num = 0 /\ buf_in = 0 /\ buf_out = 0
  /\ buffers = [i \in Slots |-> Empty]
  /\ seen = NoIndices
  /\ render = "idle" /\ up = Idle /\ shown = 0
  /\ made = 0 /\ raced = FALSE /\ missed = FALSE

Moves(t, from, to) == th[t] = from /\ th' = [th EXCEPT ![t] = to]

(* buf_num = buf_in = buf_out = 0, without buf_m. *)
EmptyRing ==
  /\ buf_num' = 0 /\ buf_in' = 0 /\ buf_out' = 0
  /\ raced' = (buf_m # "free")
  /\ up' = [up EXCEPT !.reset = (render = "uploading")]
  /\ UNCHANGED <<buffers, render, shown>>

-----------------------------------------------------------------------------
(* Start and Stop, which the user calls in turn.  The flag is set by the   *)
(* thread, not by Start, and only the Start of video looks at it.          *)
MayStart == which = "video" => ~running

Start(t) ==
  /\ user = "idle" /\ ~wanted
  /\ wanted' = TRUE
  /\ IF MayStart THEN ~Alive(t) /\ th' = [th EXCEPT ![t] = "begun"] /\ tid' = t
     ELSE UNCHANGED <<th, tid>>
  /\ UNCHANGED <<which, running, user, stillpicture, locks, ring, rendering, made, raced, missed>>

Stop ==
  /\ user = "idle"
  /\ wanted' = FALSE
  /\ running' = FALSE
  /\ user' = IF running THEN "joining" ELSE "idle"
  /\ missed' = (missed \/ (~running /\ Live # {}))
  /\ UNCHANGED <<which, th, tid, stillpicture, locks, ring, rendering, made, raced>>

Joined ==
  /\ user = "joining" /\ th[tid] = "ended"
  /\ user' = "idle"
  /\ th' = [th EXCEPT ![tid] = "none"]
  /\ UNCHANGED <<which, tid, running, wanted, stillpicture, locks, ring, rendering,
                 made, raced, missed>>

-----------------------------------------------------------------------------
(* run *)
Begin(t) ==
  /\ Moves(t, "begun", "flag")
  /\ IF which = "video" THEN EmptyRing ELSE UNCHANGED <<ring, rendering, raced>>
  /\ UNCHANGED <<which, tid, running, wanted, user, stillpicture, locks, made, missed>>

SetFlag(t) ==
  /\ Moves(t, "flag", "open")
  /\ running' = TRUE
  /\ UNCHANGED <<which, tid, wanted, user, stillpicture, locks, ring, rendering,
                 made, raced, missed>>

(* The input, the stream or the codec is found, or it is not. *)
OpenInput(t, found) ==
  /\ Moves(t, "open", IF found THEN "loop" ELSE "out")
  /\ UNCHANGED <<which, tid, running, wanted, user, stillpicture, locks, ring, rendering,
                 made, raced, missed>>

\* As GoesOn, but the thread does not look at the flag.
GoesOnAlways == TRUE

GoesOn == running

(* The loop ends when it is told to, or (audio) with the first error. *)
LoopEnd(t) ==
  /\ ~GoesOn \/ which = "audio"
  /\ Moves(t, "loop", "out")
  /\ UNCHANGED <<which, tid, running, wanted, user, stillpicture, locks, ring, rendering,
                 made, raced, missed>>

Decode(t) ==
  /\ GoesOn /\ which = "video" /\ made < MaxFrames
  /\ Moves(t, "loop", "frame")
  /\ UNCHANGED <<which, tid, running, wanted, user, stillpicture, locks, ring, rendering,
                 made, raced, missed>>

\* As Dropped, but the still picture is not looked at.
DroppedNot == FALSE

Dropped == stillpicture

(* A frame is dropped while a still picture is shown. *)
LockStill(t) ==
  /\ still_m = "free"
  /\ Moves(t, "frame", IF Dropped THEN "loop" ELSE "insert")
  /\ still_m' = IF Dropped THEN "free" ELSE t
  /\ UNCHANGED <<which, tid, running, wanted, user, stillpicture, buf_m, seen, ring, rendering,
                 made, raced, missed>>

Indices == [num |-> buf_num, in |-> buf_in, out |-> buf_out]

(* The slot is filled under buf_m ... *)
Fill(holder, pic) ==
  /\ buf_m = "free"
  /\ buf_m' = holder /\ seen' = Indices
  /\ made' = made + 1
  /\ buffers' = [buffers EXCEPT ![buf_in] = [n |-> made + 1, pic |-> pic]]
  /\ up' = [up EXCEPT !.room = IF render = "uploading" THEN @ - 1 ELSE 0]
  /\ UNCHANGED <<buf_num, buf_in, buf_out, render, shown>>

\* As Inserted, but of a full ring the newest frame goes.
InsertedFull(num, in, out) ==
  /\ buf_in' = (in + 1) % MaxBufs
  /\ buf_num' = IF num + 1 > MaxBufs - 1 THEN num ELSE num + 1
  /\ buf_out' = out

(* ... and counted; of a full ring the oldest frame goes. *)
Inserted(num, in, out) ==
  /\ buf_in' = (in + 1) % MaxBufs
  /\ IF num + 1 > MaxBufs - 1
     THEN buf_num' = num /\ buf_out' = (out + 1) % MaxBufs
     ELSE buf_num' = num + 1 /\ buf_out' = out

Count ==
  /\ buf_m' = "free" /\ seen' = NoIndices
  /\ \E num \in {buf_num, seen.num}, in \in {buf_in, seen.in}, out \in {buf_out, seen.out} :
       Inserted(num, in, out)
  /\ UNCHANGED <<buffers, rendering, made, raced>>

FillFrame(t) ==
  /\ Moves(t, "insert", "count")
  /\ Fill(t, FALSE)
  /\ UNCHANGED <<which, tid, running, wanted, user, stillpicture, still_m, raced, missed>>

CountFrame(t) ==
  /\ Moves(t, "count", "loop")
  /\ Count
  /\ still_m' = "free"
  /\ UNCHANGED <<which, tid, running, wanted, user, stillpicture, missed>>

(* The ring is emptied, but not of a still picture. *)
End(t) ==
  /\ still_m = "free"
  /\ Moves(t, "out", "ended")
  /\ IF which = "video" /\ ~stillpicture THEN EmptyRing ELSE UNCHANGED <<ring, rendering, raced>>
  /\ UNCHANGED <<which, tid, running, wanted, user, stillpicture, locks, made, missed>>

-----------------------------------------------------------------------------
(* ShowPicture, which may fail after the ring is emptied, and StopPicture. *)
ShowPicture ==
  /\ which = "video" /\ user = "idle" /\ still_m = "free" /\ made < MaxFrames
  /\ stillpicture' = TRUE
  /\ EmptyRing
  /\ user' = "picture"
  /\ UNCHANGED <<which, th, tid, running, wanted, locks, made, missed>>

PictureFails ==
  /\ user = "picture"
  /\ user' = "idle"
  /\ UNCHANGED <<which, th, tid, running, wanted, stillpicture, locks, ring, rendering,
                 made, raced, missed>>

FillPicture ==
  /\ user = "picture"
  /\ user' = "drawing"
  /\ Fill("user", TRUE)
  /\ UNCHANGED <<which, th, tid, running, wanted, stillpicture, still_m, raced, missed>>

CountPicture ==
  /\ user = "drawing"
  /\ user' = "idle"
  /\ Count
  /\ UNCHANGED <<which, th, tid, running, wanted, stillpicture, still_m, missed>>

StopPicture ==
  /\ which = "video" /\ user = "idle" /\ still_m = "free"
  /\ stillpicture' = FALSE
  /\ UNCHANGED <<which, th, tid, running, wanted, user, locks, ring, rendering,
                 made, raced, missed>>

-----------------------------------------------------------------------------
(* The renderer: getDecBuf, which looks whether there is a frame and then  *)
(* takes it, and the upload of the frame through the pointer it returned.  *)
GetDecBuf ==
  /\ which = "video" /\ render = "idle" /\ buf_m = "free"
  /\ buf_num # 0 /\ buf_num > MinNum
  /\ render' = "taking"
  /\ buf_m' = "render" /\ seen' = Indices
  /\ UNCHANGED <<which, th, tid, running, wanted, user, stillpicture, still_m, ring,
                 up, shown, made, raced, missed>>

Take ==
  /\ render = "taking"
  /\ \E num \in {buf_num, seen.num}, out \in {buf_out, seen.out} :
       /\ buf_num' = num - 1
       /\ buf_out' = (out + 1) % MaxBufs
       /\ shown' = buffers[out].n
       /\ up' = [slot |-> out, room |-> MaxBufs - num, reset |-> FALSE]
  /\ render' = "uploading"
  /\ buf_m' = "free" /\ seen' = NoIndices
  /\ UNCHANGED <<which, th, tid, running, wanted, user, stillpicture, still_m,
                 buf_in, buffers, made, raced, missed>>

UploadEnd ==
  /\ render = "uploading"
  /\ render' = "idle" /\ up' = Idle
  /\ UNCHANGED <<which, th, tid, running, wanted, user, stillpicture, locks, ring, shown,
                 made, raced, missed>>

-----------------------------------------------------------------------------
ThreadStep(t) ==
  \/ Begin(t) \/ SetFlag(t) \/ LoopEnd(t) \/ Decode(t) \/ LockStill(t)
  \/ \E found \in BOOLEAN : OpenInput(t, found)
  \/ FillFrame(t) \/ CountFrame(t) \/ End(t)
UserCall == (\E t \in Threads : Start(t)) \/ Stop \/ ShowPicture \/ StopPicture
UserStep == Joined \/ PictureFails \/ FillPicture \/ CountPicture
RenderStep == GetDecBuf \/ Take \/ UploadEnd

Next == (\E t \in Threads : ThreadStep(t)) \/ UserCall \/ UserStep \/ RenderStep

(* Reads give up after a while, so that the thread goes on; the mutexes    *)
(* are free again and again.                                               *)
Fairness ==
  /\ \A t \in Threads :
       /\ WF_vars(\/ Begin(t) \/ SetFlag(t) \/ LoopEnd(t) \/ CountFrame(t)
                  \/ \E found \in BOOLEAN : OpenInput(t, found))
       /\ SF_vars(LockStill(t) \/ FillFrame(t) \/ End(t))
  /\ WF_vars(UserStep)
  /\ WF_vars(Take \/ UploadEnd)

Spec == Init /\ [][Next]_vars /\ Fairness

(* The types; and the three indices agree, unless the ring was emptied     *)
(* while somebody had buf_m: only then can fewer than no frames be left.   *)
TypeOK ==
  /\ which \in {"video", "audio"}
  /\ th \in [Threads -> {"none", "begun", "flag", "open", "loop", "frame", "insert",
                         "count", "out", "ended"}]
  /\ tid \in Threads
  /\ {running, wanted, stillpicture, raced, missed} \subseteq BOOLEAN
  /\ user \in {"idle", "joining", "picture", "drawing"}
  /\ buf_in \in Slots /\ buf_out \in Slots
  /\ buf_num \in MinNum .. MaxBufs - 1 /\ (buf_num < 0 => raced)
  /\ ~raced /\ buf_m = "free" => (buf_in - buf_out - buf_num) % MaxBufs = 0
  /\ buffers \in [Slots -> [n : 0 .. MadeLimit, pic : BOOLEAN]]
  /\ still_m \in Threads \cup {"free"} /\ buf_m \in Threads \cup {"free", "user", "render"}
  /\ render \in {"idle", "taking", "uploading"} /\ up.slot \in Slots
  /\ shown \in 0 .. MadeLimit /\ made \in 0 .. MadeLimit

(* What the renderer takes is newer than what it took before, and is the   *)
(* still picture while there is one; and the slot it uploads from, with no *)
(* lock, is not written before the ring has gone round once, however the   *)
(* decoder, ShowPicture and the renderer take turns.  Except after the     *)
(* ring was emptied under the hands of the holder of buf_m, and if it is   *)
(* emptied while the upload runs.                                          *)
InOrder ==
  render = "taking" /\ render' = "uploading" /\ ~raced =>
    /\ shown' > shown
    /\ stillpicture => buffers[up'.slot].pic
NotWhileUploading ==
  render = "uploading" /\ buffers'[up.slot] # buffers[up.slot] =>
    up.room <= 0 \/ up.reset \/ raced
FramesInOrder == [][InOrder /\ NotWhileUploading]_vars

(* There is one decoder thread, and a Stop that joins it returns, unless   *)
(* an earlier Stop came before the thread had set the flag and missed it:  *)
(* then its flag undoes a later Stop.                                      *)
StopEnds ==
  /\ [](Cardinality(Live) > 1 => missed)
  /\ user = "joining" ~> user = "idle" \/ missed
=============================================================================
