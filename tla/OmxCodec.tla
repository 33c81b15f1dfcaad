----------------------------- MODULE OmxCodec -----------------------------
(***************************************************************************)
(* The decoders of raspi: AVDec's calls and the reader threads aDec and    *)
(* vDec (avdec.cpp), the message queues between (codec.c), and the two     *)
(* codec threads that feed the OMX pipeline (avcodec_omx.c).               *)
(*                                                                         *)
(* The video codec thread sets the pipeline up with its first packet and   *)
(* tears it down on a stop, a new channel or another codec.  It keeps      *)
(* omx_active_mutex from the teardown to the next setup; the audio codec   *)
(* thread holds it from its look at omx_active until it has dealt with one *)
(* item of its queue, the wait for that item included.                     *)
(*                                                                         *)
(* Left out: MSG_PAUSE, which nothing in the library sends; first_packet   *)
(* and the time stamps; the waits in omx_utils.c, for which see OmxPipeline.*)
(* A message here carries no data: codec_stop0 frees the data of every     *)
(* item as a packet's.                                                     *)
(***************************************************************************)
EXTENDS Integers, Sequences, SequencesExt

CONSTANTS
  Formats, AVC,   \* video codings, and the one AVDec begins with
  None,           \* no coding: the pipeline is not set up
  MaxStarts,      \* bound: how often decoders are started
  MaxMessages,    \* bound: messages sent
  MaxQueue        \* bound: a reader gets data for a queue shorter than this

ASSUME OmxAssumption ==
  /\ AVC \in Formats /\ None \notin Formats
  /\ MaxStarts \in Nat /\ MaxMessages \in Nat /\ MaxQueue \in Nat

Codecs == {"audio", "video"}

VARIABLES
  queue,          \* for each codec, from queue_head to queue_tail
  is_running,
  vcodectype,     \* codecs.vcodec.vcodectype
  format,         \* the static vcodectype of avdec.cpp
  dec,            \* do adec and vdec exist?
  dec_running,
  reader,         \* where aDec::run and vDec::run are
  user, stopping, \* the caller; the decoder that it stops
  omx_active,
  omx_active_mutex,
  coding,         \* local of the video codec thread: the pipeline's coding
  pipe,           \* what the pipeline was set up for
  renderer,       \* omx_pipeline_t.video_render.h: "null", "open" or "freed"
  thread, current,\* where the codec threads are, and the item in hand
  starts,         \* for each codec: how often its decoder was started
  sent,           \* messages sent
  stopLost        \* was a dec_running that Stop cleared set again?

callVars == <<user, stopping, format, starts, sent, dec>>
readVars == <<dec_running, reader, stopLost>>
queueVars == <<queue, is_running>>
omxVars == <<omx_active, omx_active_mutex, coding, pipe, renderer>>
codecVars == <<thread, current>>
vars == <<callVars, readVars, queueVars, vcodectype, omxVars, codecVars>>

(* An item of a queue; a packet and a new channel carry the number of the  *)
(* start they belong to, a message its own number.                         *)
Item(kind, no) == [kind |-> kind, no |-> no]
NoItem == Item("none", 0)

Init ==
  /\ queue = [c \in Codecs |-> <<>>] /\ is_running = [c \in Codecs |-> TRUE]
  /\ vcodectype = AVC /\ format \in Formats
  /\ dec = [c \in Codecs |-> FALSE] /\ dec_running = [c \in Codecs |-> FALSE]
  /\ reader = [c \in Codecs |-> "none"]
  /\ user = "idle" /\ stopping = "none"
  /\ omx_active = 0 /\ omx_active_mutex = "free" /\ coding = None
  /\ pipe = None /\ renderer = "null"
  /\ thread = [c \in Codecs |-> "lock"] /\ current = [c \in Codecs |-> NoItem]
  /\ starts = [c \in Codecs |-> 0] /\ sent = 0
  /\ stopLost = FALSE

-----------------------------------------------------------------------------
(* codec.c: packets are put in at the head, items are taken at the tail.   *)

(* codec_stop0 *)
EmptiedNot(c, item) == <<item>> \o queue[c]
Emptied(c, item) == <<item>>
StopQueue(c, item) ==
  /\ queue' = [queue EXCEPT ![c] = Emptied(c, item)]
  /\ is_running' = [is_running EXCEPT ![c] = FALSE]

(* codec_send_message *)
SendMessage(c, item) == queue' = [queue EXCEPT ![c] = Append(@, item)]

(* codec_queue_add_item *)
Accepted(c) == is_running[c]
AddItem(c, item) ==
  queue' = IF Accepted(c) THEN [queue EXCEPT ![c] = <<item>> \o @] ELSE queue

(* codec_queue_get_next_item *)
TakeItem(c) ==
  /\ queue[c] # <<>>
  /\ current' = [current EXCEPT ![c] = Last(queue[c])]
  /\ queue' = [queue EXCEPT ![c] = Front(@)]

-----------------------------------------------------------------------------
(* The caller: cAudio, cVideo and AVDec.                                   *)

SetFormat ==
  /\ user = "idle"
  /\ format' \in Formats
  /\ UNCHANGED <<user, stopping, starts, sent, dec, readVars, queueVars,
                 vcodectype, omxVars, codecVars>>

(* start_audio, start_video: the object is created and starts its thread. *)
StartDec(c) ==
  /\ user = "idle" /\ ~dec[c] /\ starts["audio"] + starts["video"] < MaxStarts
  /\ dec' = [dec EXCEPT ![c] = TRUE]
  /\ dec_running' = [dec_running EXCEPT ![c] = FALSE]
  /\ reader' = [reader EXCEPT ![c] = IF c = "video" THEN "born" ELSE "new channel"]
  /\ starts' = [starts EXCEPT ![c] = @ + 1]
  /\ UNCHANGED <<user, stopping, format, sent, stopLost, queueVars, vcodectype,
                 omxVars, codecVars>>

(* set_volume; set_aspect and pig *)
Message(c) ==
  /\ user = "idle" /\ dec[c] /\ sent < MaxMessages
  /\ sent' = sent + 1
  /\ SendMessage(c, Item("message", sent'))
  /\ UNCHANGED <<user, stopping, format, starts, dec, readVars, is_running,
                 vcodectype, omxVars, codecVars>>

(* stop_audio, stop_video: the destructor, in its three lines. *)
StopDec(c) ==
  /\ user = "idle" /\ dec[c]
  /\ StopQueue(c, Item("stop", 0))
  /\ user' = "flag" /\ stopping' = c
  /\ UNCHANGED <<format, starts, sent, dec, readVars, vcodectype, omxVars,
                 codecVars>>

StopFlag ==
  /\ user = "flag"
  /\ dec_running' = [dec_running EXCEPT ![stopping] = FALSE]
  /\ user' = "join"
  /\ UNCHANGED <<stopping, format, starts, sent, dec, reader, stopLost, queueVars,
                 vcodectype, omxVars, codecVars>>

JoinedAssumed == TRUE
Joined == reader[stopping] = "gone"
StopJoin ==
  /\ user = "join" /\ Joined
  /\ dec' = [dec EXCEPT ![stopping] = FALSE]
  /\ reader' = [reader EXCEPT ![stopping] = "none"]
  /\ dec_running' = [dec_running EXCEPT ![stopping] = FALSE]
  /\ user' = "idle" /\ stopping' = "none" /\ stopLost' = FALSE
  /\ UNCHANGED <<format, starts, sent, queueVars, vcodectype, omxVars, codecVars>>

-----------------------------------------------------------------------------
(* A reader thread: aDec::run, vDec::run.                                  *)

ReaderAt(c, l) == reader[c] = l
ReaderGoto(c, l) == reader' = [reader EXCEPT ![c] = l]

ReaderFormat ==
  /\ ReaderAt("video", "born")
  /\ vcodectype' = format
  /\ ReaderGoto("video", "new channel")
  /\ UNCHANGED <<callVars, dec_running, stopLost, queueVars, omxVars, codecVars>>

ReaderNewChannel(c) ==
  /\ ReaderAt(c, "new channel")
  /\ StopQueue(c, Item("new", starts[c]))
  /\ ReaderGoto(c, "ready")
  /\ UNCHANGED <<callVars, dec_running, stopLost, vcodectype, omxVars, codecVars>>

(* Video may be added from now on, audio when there is a pipeline. *)
ReaderReady(c) ==
  /\ ReaderAt(c, "ready")
  /\ is_running' = [is_running EXCEPT ![c] = (c = "video")]
  /\ ReaderGoto(c, "again")
  /\ UNCHANGED <<callVars, dec_running, stopLost, queue, vcodectype, omxVars,
                 codecVars>>

(* again: dec_running is set, also when Stop has cleared it before; then   *)
(* the demux is opened, which makes audio give up when it fails.           *)
ReaderAgain(c) ==
  /\ ReaderAt(c, "again")
  /\ dec_running' = [dec_running EXCEPT ![c] = TRUE]
  /\ stopLost' = (stopLost \/ (user = "join" /\ stopping = c))
  /\ ReaderGoto(c, "loop") \/ (c = "audio" /\ ReaderGoto(c, "gone"))
  /\ UNCHANGED <<callVars, queueVars, vcodectype, omxVars, codecVars>>

(* while (dec_running): a frame is read, which audio throws away when it   *)
(* is not wanted, or the demux has failed and is opened again.             *)
KeepReadingAlways(c) == TRUE
KeepReading(c) == dec_running[c]
ReaderLoop(c) ==
  /\ ReaderAt(c, "loop")
  /\ \/ ~KeepReading(c) /\ ReaderGoto(c, "gone")
     \/ /\ KeepReading(c) /\ Len(queue[c]) < MaxQueue
        /\ c = "audio" => is_running[c]
        /\ ReaderGoto(c, "add")
     \/ KeepReading(c) /\ ReaderGoto(c, "again")
  /\ UNCHANGED <<callVars, dec_running, stopLost, queueVars, vcodectype, omxVars,
                 codecVars>>

ReaderAdd(c) ==
  /\ ReaderAt(c, "add")
  /\ AddItem(c, Item("packet", starts[c]))
  /\ ReaderGoto(c, "loop")
  /\ UNCHANGED <<callVars, dec_running, stopLost, is_running, vcodectype, omxVars,
                 codecVars>>

Reader(c) ==
  \/ c = "video" /\ ReaderFormat
  \/ ReaderNewChannel(c) \/ ReaderReady(c) \/ ReaderAgain(c)
  \/ ReaderLoop(c) \/ ReaderAdd(c)

-----------------------------------------------------------------------------
(* The codec threads (avcodec_omx.c).                                      *)

At(c, l) == thread[c] = l
Goto(c, l) == thread' = [thread EXCEPT ![c] = l]
Holding(kinds, c) == current[c].kind \in kinds
PutAway(c) == current' = [current EXCEPT ![c] = NoItem]

(* acodec_omx_thread, next_packet: the mutex, and the wait on omx_active_cv *)
(* that gives the mutex up.                                                *)
MayFeedAlways == TRUE
MayFeed == omx_active = 1
AudioLock ==
  /\ At("audio", "lock") /\ omx_active_mutex = "free"
  /\ IF MayFeed THEN omx_active_mutex' = "audio" /\ Goto("audio", "get")
                ELSE Goto("audio", "wait") /\ UNCHANGED omx_active_mutex
  /\ UNCHANGED <<callVars, readVars, queueVars, vcodectype, omx_active,
                 coding, pipe, renderer, current>>

AudioTake ==
  /\ At("audio", "get")
  /\ TakeItem("audio")
  /\ Goto("audio", "act")
  /\ UNCHANGED <<callVars, readVars, is_running, vcodectype, omxVars>>

(* A stop marks the pipeline as restarting.  A new channel, the volume and *)
(* a packet, which goes to audio_render, leave it as it is.                *)
ReleasedUnlessStop == IF Holding({"stop"}, "audio") THEN "audio" ELSE "free"
Released == "free"
AudioAct ==
  /\ At("audio", "act")
  /\ omx_active' = IF Holding({"stop"}, "audio") THEN 2 ELSE omx_active
  /\ omx_active_mutex' = Released
  /\ PutAway("audio")
  /\ Goto("audio", "lock")
  /\ UNCHANGED <<callVars, readVars, queueVars, vcodectype, coding, pipe, renderer>>

Audio == AudioLock \/ AudioTake \/ AudioAct

(* vcodec_omx_thread begins with the mutex. *)
VideoLock ==
  /\ At("video", "lock") /\ omx_active_mutex = "free"
  /\ omx_active_mutex' = "video"
  /\ Goto("video", "get")
  /\ UNCHANGED <<callVars, readVars, queueVars, vcodectype, omx_active,
                 coding, pipe, renderer, current>>

VideoTake ==
  /\ At("video", "get") /\ Holding({"none"}, "video")
  /\ TakeItem("video")
  /\ Goto("video", "act")
  /\ UNCHANGED <<callVars, readVars, is_running, vcodectype, omxVars>>

(* A stop or a new channel, with a pipeline and without one. *)
MustRestart == omx_active # 0
VideoNewChannel ==
  /\ At("video", "act") /\ Holding({"stop", "new"}, "video")
  /\ PutAway("video")
  /\ Goto("video", IF MustRestart THEN "stop" ELSE "get")
  /\ coding' = IF omx_active = 0 THEN None ELSE coding
  /\ UNCHANGED <<callVars, readVars, queueVars, vcodectype, omx_active,
                 omx_active_mutex, pipe, renderer>>

(* The aspect and the size of the picture are handed to video_render       *)
(* (omx_set_display_region), also when there is no pipeline: before the    *)
(* first setup that is a null pointer, on which the program crashes, and   *)
(* behind a teardown a component that was freed, on which it may crash,    *)
(* end because of the error, or go on.                                     *)
VideoMessage ==
  /\ At("video", "act") /\ Holding({"message"}, "video")
  /\ \/ renderer # "null" /\ PutAway("video") /\ Goto("video", "get")
     \/ renderer # "open" /\ Goto("video", "crashed") /\ UNCHANGED current
  /\ UNCHANGED <<callVars, readVars, queueVars, vcodectype, omxVars>>

(* A packet, also one that was kept over a teardown: the pipeline is set   *)
(* up, or torn down when the coding has changed, or takes the packet.      *)
(* vcodectype is read without a lock, for the pipeline and again for       *)
(* coding.                                                                 *)
VideoPacket == At("video", "act") \/ At("video", "get")
VideoPipeline ==
  /\ VideoPacket /\ Holding({"packet"}, "video") /\ coding = None
  /\ pipe' = vcodectype /\ renderer' = "open"
  /\ Goto("video", "setup")
  /\ UNCHANGED <<callVars, readVars, queueVars, vcodectype, omx_active,
                 omx_active_mutex, coding, current>>

(* ... and the audio codec thread is allowed back in. *)
VideoSetup ==
  /\ At("video", "setup")
  /\ coding' = vcodectype
  /\ is_running' = [is_running EXCEPT !["audio"] = TRUE]
  /\ omx_active' = 1 /\ omx_active_mutex' = "free"
  /\ thread' = [thread EXCEPT !["video"] = "feed",
                              !["audio"] = IF @ = "wait" THEN "lock" ELSE @]
  /\ UNCHANGED <<callVars, readVars, queue, vcodectype, pipe, renderer, current>>

VideoChange ==
  /\ VideoPacket /\ Holding({"packet"}, "video") /\ coding # None
  /\ Goto("video", IF coding = vcodectype THEN "feed" ELSE "stop")
  /\ UNCHANGED <<callVars, readVars, queueVars, vcodectype, omxVars, current>>

VideoFeed ==
  /\ At("video", "feed")
  /\ PutAway("video")
  /\ Goto("video", "get")
  /\ UNCHANGED <<callVars, readVars, queueVars, vcodectype, omxVars>>

(* stop: the mutex is taken, the pipeline torn down. *)
AudioAwayAssumed == omx_active_mutex # "video"
AudioAway == omx_active_mutex = "free"
VideoStop ==
  /\ At("video", "stop") /\ AudioAway
  /\ omx_active_mutex' = "video"
  /\ coding' = None /\ pipe' = None /\ omx_active' = 0 /\ renderer' = "freed"
  /\ Goto("video", "get")
  /\ UNCHANGED <<callVars, readVars, queueVars, vcodectype, current>>

Video ==
  \/ VideoLock \/ VideoTake \/ VideoNewChannel \/ VideoMessage
  \/ VideoPipeline \/ VideoSetup \/ VideoChange \/ VideoFeed \/ VideoStop

-----------------------------------------------------------------------------
Call ==
  \/ SetFormat
  \/ \E c \in Codecs : StartDec(c) \/ Message(c) \/ StopDec(c)

(* The program has ended with the video codec thread, and nothing runs.    *)
Crashed == At("video", "crashed")

Next ==
  /\ ~Crashed
  /\ \/ Call \/ StopFlag \/ StopJoin
     \/ \E c \in Codecs : Reader(c)
     \/ Audio \/ Video

(* A call that has begun goes on and every thread runs; a mutex that is    *)
(* given back again and again is got in the end.  Nobody need call         *)
(* anything, and no packet need come from the demux.                       *)
Fairness ==
  /\ WF_vars(~Crashed /\ (StopFlag \/ StopJoin))
  /\ \A c \in Codecs : WF_vars(~Crashed /\ Reader(c))
  /\ WF_vars(~Crashed /\ (AudioTake \/ AudioAct)) /\ SF_vars(~Crashed /\ AudioLock)
  /\ WF_vars(Video) /\ SF_vars(VideoStop)

Spec == Init /\ [][Next]_vars
FairSpec == Spec /\ Fairness

-----------------------------------------------------------------------------
ItemKinds == {"packet", "message", "stop", "new"}
Items == [kind : ItemKinds, no : Nat]

(* omx_active_mutex is held by the thread whose place in the code says so. *)
MutexHeld ==
  /\ omx_active_mutex = "audio" <=> thread["audio"] \in {"get", "act"}
  /\ omx_active_mutex = "video" <=>
        omx_active = 0 /\ thread["video"] # "lock"
QueueShape == queue \in [Codecs -> Seq(Items)] /\ is_running \in [Codecs -> BOOLEAN]
CallShape ==
  /\ vcodectype \in Formats /\ format \in Formats /\ dec \in [Codecs -> BOOLEAN]
  /\ user \in {"idle", "flag", "join"} /\ stopping \in Codecs \cup {"none"}
  /\ starts \in [Codecs -> 0..MaxStarts] /\ sent \in 0..MaxMessages
ReaderShape ==
  /\ dec_running \in [Codecs -> BOOLEAN] /\ stopLost \in BOOLEAN
  /\ reader \in [Codecs -> {"none", "born", "new channel", "ready", "again",
                           "loop", "add", "gone"}]
PipeShape ==
  /\ omx_active \in 0..2 /\ omx_active_mutex \in {"free", "audio", "video"}
  /\ coding \in Formats \cup {None} /\ pipe \in Formats \cup {None}
  /\ renderer \in {"null", "open", "freed"} /\ (renderer = "open" <=> pipe # None)
ThreadShape ==
  /\ thread \in [Codecs -> {"lock", "wait", "get", "act", "setup", "feed", "stop",
                           "crashed"}]
  /\ thread["audio"] \in {"lock", "wait", "get", "act"}
  /\ thread["video"] \in {"lock", "get", "act", "setup", "feed", "stop", "crashed"}
  /\ current \in [Codecs -> Items \cup {NoItem}]
TypeOK == QueueShape /\ CallShape /\ ReaderShape /\ PipeShape /\ ThreadShape /\ MutexHeld

(* Once the reader of a start has announced its new channel, nothing of an *)
(* earlier start is queued any more: what a reader adds behind the stop    *)
(* that ends it, and what the video thread lets through by setting the     *)
(* audio codec's is_running, is gone by then (codec_stop0).                *)
NoStalePacket ==
  \A c \in Codecs : reader[c] \notin {"none", "born", "new channel"} =>
    \A i \in DOMAIN queue[c] :
      queue[c][i].kind = "packet" => queue[c][i].no = starts[c]

(* Nothing is fed to a pipeline that is not there: not by the audio        *)
(* thread, which touches what the video thread sets up and tears down, and *)
(* not by the video thread, which keeps a packet over a teardown.  And a   *)
(* packet of the running start is given to a pipeline that was set up for  *)
(* the coding of that start, though vcodectype is written by the reader    *)
(* and read twice by the codec thread, without a lock.  It is not one of   *)
(* an earlier start, or from behind the stop that ended it.                *)
(* What the video thread does with the messages for the picture is not so: *)
(* they go to a renderer that is not there, and the program may end.  But  *)
(* that is where the thread itself knows of no pipeline: its coding is     *)
(* unset, and it has the mutex.                                            *)
NoDeadFeed ==
  /\ NoStalePacket
  /\ At("audio", "act") /\ Holding({"packet", "message"}, "audio") => pipe # None
  /\ At("video", "feed") => pipe # None
  /\ At("video", "feed") /\ current["video"].no = starts["video"] => pipe = vcodectype
  /\ Crashed => coding = None /\ omx_active_mutex = "video"

(* stop_audio and stop_video return, unless the reader set dec_running     *)
(* again after they had cleared it, or the program has crashed.  And the   *)
(* video thread gets the mutex for its teardown, and with it the next      *)
(* channel begins, unless the audio thread sits on the mutex and waits for *)
(* an item.                                                                *)
AudioWaits == At("audio", "get") /\ queue["audio"] = <<>>
CallsGoOn ==
  /\ user # "idle" ~> (user = "idle" \/ stopLost \/ Crashed)
  /\ At("video", "stop") ~> (~At("video", "stop") \/ AudioWaits)

(* Of two messages the one that was sent first is taken first; they are    *)
(* put at the end of the queue (codec_send_message).                       *)
MessagesInOrder ==
  [][\A c \in Codecs : current[c] # current'[c] /\ current'[c].kind = "message" =>
       \A i \in DOMAIN queue'[c] :
         queue'[c][i].kind = "message" => queue'[c][i].no > current'[c].no]_vars
=============================================================================
