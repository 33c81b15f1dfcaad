----------------------------- MODULE OmxProofs -----------------------------
(***************************************************************************)
(* TLAPS proofs about OmxCodec, for any numbers of starts, messages and    *)
(* packets and any codings, about OmxPipeline, for any number of buffers   *)
(* and any components that report errors, and about both as MCOmx puts     *)
(* them side by side.                                                      *)
(*                                                                         *)
(* The video codec thread looks at vcodectype twice, without a lock, while *)
(* a reader may write it.  What makes the pipeline fit all the same is     *)
(* that no packet of the new start gets to the codec thread before the     *)
(* item of its new channel does: the invariant follows that item through   *)
(* the queue.                                                              *)
(***************************************************************************)
EXTENDS MCOmx, SequenceTheorems, TLAPS

(* The reader has not announced the channel of its start yet. *)
Fresh(c) == reader[c] \in {"born", "new channel"}

(* Every packet of a queue has one of these numbers. *)
PacketsIn(q, S) == \A i \in 1 .. Len(q) : q[i].kind = "packet" => q[i].no \in S

(* A packet is of the running start or an earlier one, and of an earlier   *)
(* one as long as the new channel is not announced.                        *)
Numbers(c) == {n \in Nat : n <= starts[c] /\ (Fresh(c) => n < starts[c])}
AllNumbered ==
  \A c \in Codecs :
    /\ current[c].kind = "packet" => current[c].no \in Numbers(c)
    /\ PacketsIn(queue[c], Numbers(c))

(* What omx_active and the place of the video codec thread say about the   *)
(* pipeline.                                                               *)
Pipeline ==
  /\ coding = None <=> omx_active = 0
  /\ coding # None => pipe # None
  /\ thread["video"] \in {"setup", "feed"} => pipe # None /\ current["video"].kind = "packet"
  /\ thread["video"] \in {"setup", "crashed"} => coding = None
  /\ thread["video"] \in {"feed", "stop"} => coding # None
  /\ thread["video"] = "lock" => omx_active = 0
  /\ current["video"].kind \in {"stop", "new"} => thread["video"] = "act"
  /\ omx_active_mutex = "audio" => omx_active # 0

(* vcodectype was written between the two looks at it. *)
Torn ==
  \/ thread["video"] = "setup" /\ pipe # vcodectype
  \/ coding # None /\ coding # pipe

(* All packets of a start are behind a stop or a new channel, which the    *)
(* codec thread takes first (it takes from the end).                       *)
Ahead(q, n) ==
  \E j \in 1 .. Len(q) :
    /\ q[j].kind \in {"stop", "new"}
    /\ \A i \in 1 .. Len(q) : q[i].kind = "packet" /\ q[i].no = n => i < j
Behind == Fresh("video") \/ Ahead(queue["video"], starts["video"])

(* A pipeline that does not fit gets none of the packets it does not fit. *)
TornDown ==
  /\ current["video"].kind = "packet" => current["video"].no # starts["video"]
  /\ thread["video"] = "stop" \/ current["video"].kind \in {"stop", "new"} \/ Behind
Coded ==
  /\ Torn => TornDown
  /\ At("video", "feed") /\ current["video"].no = starts["video"] => pipe = vcodectype

IInv == TypeOK /\ NoStalePacket /\ AllNumbered /\ Pipeline /\ Coded

(* A message for the picture goes on, or the program crashes. *)
Shown == VideoMessage /\ PutAway("video") /\ Goto("video", "get")
Crashes ==
  VideoMessage /\ renderer # "open" /\ Goto("video", "crashed") /\ UNCHANGED current
LEMMA MessageEnds == VideoMessage => Shown \/ Crashes
BY Zenon DEF VideoMessage, Shown, Crashes

-----------------------------------------------------------------------------
(* The ends of a queue. *)
LEMMA TakenQueue ==
  ASSUME NEW q \in Seq(Items), q # <<>>
  PROVE  /\ Front(q) \in Seq(Items) /\ Len(Front(q)) = Len(q) - 1
         /\ \A i \in 1 .. Len(q) - 1 : Front(q)[i] = q[i]
         /\ Len(q) \in DOMAIN q /\ Last(q) = q[Len(q)] /\ Last(q) \in Items
<1>1. Len(q) \in Nat \ {0}
  BY EmptySeq
<1>2. \A i \in 1 .. Len(q) - 1 : q[i] \in Items
  BY <1>1
<1>3. /\ SubSeq(q, 1, Len(q) - 1) \in Seq(Items) /\ Len(SubSeq(q, 1, Len(q) - 1)) = Len(q) - 1
      /\ \A i \in 1 .. Len(q) - 1 : SubSeq(q, 1, Len(q) - 1)[i] = q[i]
  <2> DEFINE n == Len(q) - 1
  <2>1. n \in Nat /\ \A i \in 1 .. n : q[i] \in Items
    BY <1>1, <1>2
  <2> HIDE DEF n
  <2>2. /\ SubSeq(q, 1, n) \in Seq(Items)
        /\ Len(SubSeq(q, 1, n)) = IF 1 <= n THEN n - 1 + 1 ELSE 0
        /\ \A i \in 1 .. n - 1 + 1 : SubSeq(q, 1, n)[i] = q[1 + i - 1]
    BY <2>1, SubSeqProperties
  <2>3. Len(SubSeq(q, 1, n)) = n /\ \A i \in 1 .. n : SubSeq(q, 1, n)[i] = q[i]
    BY <2>1, <2>2
  <2> QED
    BY <2>2, <2>3 DEF n
<1>4. Len(q) \in DOMAIN q /\ q[Len(q)] \in Items
  BY <1>1
<1> QED
  BY <1>3, <1>4 DEF Front, Last

LEMMA AddedQueue ==
  ASSUME NEW q \in Seq(Items), NEW item \in Items
  PROVE  /\ <<item>> \o q \in Seq(Items) /\ Len(<<item>> \o q) = Len(q) + 1
         /\ (<<item>> \o q)[1] = item
         /\ \A i \in 1 .. Len(q) : (<<item>> \o q)[i + 1] = q[i]
OBVIOUS

LEMMA SentQueue ==
  ASSUME NEW q \in Seq(Items), NEW item \in Items
  PROVE  /\ Append(q, item) \in Seq(Items) /\ Len(Append(q, item)) = Len(q) + 1
         /\ Append(q, item)[Len(q) + 1] = item
         /\ \A i \in 1 .. Len(q) : Append(q, item)[i] = q[i]
OBVIOUS

LEMMA ItemIsItem ==
  ASSUME NEW kind \in ItemKinds, NEW no \in Nat
  PROVE  Item(kind, no) \in Items /\ Item(kind, no).kind = kind /\ Item(kind, no).no = no
BY DEF Item, Items

-----------------------------------------------------------------------------
(* Queues hold items. *)
LEMMA QueueShapeStep ==
  ASSUME QueueShape, CallShape, [Next]_vars
  PROVE  QueueShape'
<1> USE OmxAssumption DEF OmxAssumption, QueueShape
<1>1. ASSUME NEW c \in Codecs, Message(c) PROVE QueueShape'
  <2>1. sent' \in Nat
    BY <1>1 DEF Message, CallShape
  <2>2. Item("message", sent') \in Items
    BY <2>1, ItemIsItem DEF ItemKinds
  <2>3. Append(queue[c], Item("message", sent')) \in Seq(Items)
    BY <2>2, SentQueue
  <2> QED
    BY <1>1, <2>3 DEF Message, SendMessage
<1>2. ASSUME NEW c \in Codecs, StopDec(c) PROVE QueueShape'
  <2>1. Item("stop", 0) \in Items
    BY ItemIsItem DEF ItemKinds
  <2> QED
    BY <1>2, <2>1 DEF StopDec, StopQueue, Emptied
<1>3. ASSUME NEW c \in Codecs, ReaderNewChannel(c) PROVE QueueShape'
  <2>1. Item("new", starts[c]) \in Items
    BY ItemIsItem DEF ItemKinds, CallShape
  <2>2. /\ queue' = [queue EXCEPT ![c] = <<Item("new", starts[c])>>]
        /\ is_running' = [is_running EXCEPT ![c] = FALSE]
    BY <1>3 DEF ReaderNewChannel, StopQueue, Emptied
  <2>3. <<Item("new", starts[c])>> \in Seq(Items)
    BY <2>1
  <2> QED
    BY <2>2, <2>3
<1>4. ASSUME NEW c \in Codecs, ReaderReady(c) PROVE QueueShape'
  BY <1>4 DEF ReaderReady
<1>5. ASSUME NEW c \in Codecs, ReaderAdd(c) PROVE QueueShape'
  <2>1. Item("packet", starts[c]) \in Items
    BY ItemIsItem DEF ItemKinds, CallShape
  <2>2. <<Item("packet", starts[c])>> \o queue[c] \in Seq(Items)
    BY <2>1, AddedQueue
  <2> QED
    BY <1>5, <2>2 DEF ReaderAdd, AddItem
<1>6. CASE AudioTake
  <2>1. /\ queue["audio"] # <<>> /\ "audio" \in Codecs
        /\ queue' = [queue EXCEPT !["audio"] = Front(queue["audio"])]
        /\ is_running' = is_running
    BY <1>6 DEF AudioTake, TakeItem, Codecs
  <2>2. Front(queue["audio"]) \in Seq(Items)
    BY <2>1, TakenQueue
  <2> QED
    BY <2>1, <2>2
<1>7. CASE VideoTake
  <2>1. /\ queue["video"] # <<>> /\ "video" \in Codecs
        /\ queue' = [queue EXCEPT !["video"] = Front(queue["video"])]
        /\ is_running' = is_running
    BY <1>7 DEF VideoTake, TakeItem, Codecs
  <2>2. Front(queue["video"]) \in Seq(Items)
    BY <2>1, TakenQueue
  <2> QED
    BY <2>1, <2>2
<1>8. CASE VideoSetup
  BY <1>8 DEF VideoSetup
<1>9. CASE \/ \E c \in Codecs : StartDec(c) \/ ReaderAgain(c) \/ ReaderLoop(c)
           \/ SetFormat \/ StopFlag \/ StopJoin \/ ReaderFormat \/ AudioLock
              \/ AudioAct \/ VideoLock \/ VideoNewChannel \/ VideoMessage \/
              VideoPipeline \/ VideoChange \/ VideoFeed \/ VideoStop \/
              UNCHANGED vars
  <2>1. UNCHANGED <<queue, is_running>>
    BY <1>9, Zenon DEF SetFormat, StartDec, StopFlag, StopJoin, ReaderFormat,
       ReaderAgain, ReaderLoop, AudioLock, AudioAct, VideoLock, VideoNewChannel,
       VideoMessage, VideoPipeline, VideoChange, VideoFeed, VideoStop, vars, callVars,
       readVars, queueVars, omxVars, codecVars
  <2> QED
    BY <2>1
<1> QED
  BY <1>1, <1>2, <1>3, <1>4, <1>5, <1>6, <1>7, <1>8, <1>9 DEF Next, Call, Reader, Audio,
     Video

(* The caller's part. *)
LEMMA CallShapeStep ==
  ASSUME CallShape, [Next]_vars
  PROVE  CallShape'
<1> USE OmxAssumption DEF OmxAssumption, CallShape
<1>1. CASE SetFormat
  BY <1>1 DEF SetFormat
<1>2. ASSUME NEW c \in Codecs, StartDec(c) PROVE CallShape'
  <2>1. starts' = [starts EXCEPT ![c] = @ + 1] /\ starts["audio"] + starts["video"] < MaxStarts
    BY <1>2 DEF StartDec
  <2>2. starts' \in [Codecs -> 0 .. MaxStarts]
    BY <2>1 DEF Codecs
  <2> QED
    BY <1>2, <2>2 DEF StartDec
<1>3. ASSUME NEW c \in Codecs, Message(c) PROVE CallShape'
  BY <1>3 DEF Message
<1>4. ASSUME NEW c \in Codecs, StopDec(c) PROVE CallShape'
  BY <1>4 DEF StopDec
<1>5. CASE StopFlag
  BY <1>5 DEF StopFlag
<1>6. CASE StopJoin
  BY <1>6 DEF StopJoin
<1>7. CASE ReaderFormat
  BY <1>7 DEF ReaderFormat, callVars
<1>8. CASE \/ \E c \in Codecs : ReaderNewChannel(c) \/ ReaderReady(c) \/ ReaderAgain(c) \/
                ReaderLoop(c) \/ ReaderAdd(c)
           \/ AudioLock \/ AudioTake \/ AudioAct \/ VideoLock \/ VideoTake \/
              VideoNewChannel \/ VideoMessage \/ VideoPipeline \/ VideoSetup
              \/ VideoChange \/ VideoFeed \/ VideoStop \/ UNCHANGED vars
  <2>1. UNCHANGED <<vcodectype, format, dec, user, stopping, starts, sent>>
    BY <1>8, Zenon DEF ReaderNewChannel, ReaderReady, ReaderAgain, ReaderLoop,
       ReaderAdd, AudioLock, AudioTake, AudioAct, VideoLock, VideoTake, VideoNewChannel,
       VideoMessage, VideoPipeline, VideoSetup, VideoChange, VideoFeed, VideoStop, vars,
       callVars, readVars, queueVars, omxVars, codecVars
  <2> QED
    BY <2>1
<1> QED
  BY <1>1, <1>2, <1>3, <1>4, <1>5, <1>6, <1>7, <1>8 DEF Next, Call, Reader, Audio, Video

(* The readers. *)
LEMMA ReaderShapeStep ==
  ASSUME ReaderShape, [Next]_vars
  PROVE  ReaderShape'
<1> USE DEF ReaderShape, ReaderGoto
<1>1. ASSUME NEW c \in Codecs, StartDec(c) PROVE ReaderShape'
  BY <1>1 DEF StartDec
<1>2. CASE StopFlag
  BY <1>2 DEF StopFlag
<1>3. CASE StopJoin
  BY <1>3 DEF StopJoin
<1>4. CASE ReaderFormat
  BY <1>4 DEF ReaderFormat
<1>5. ASSUME NEW c \in Codecs, ReaderNewChannel(c) PROVE ReaderShape'
  BY <1>5 DEF ReaderNewChannel
<1>6. ASSUME NEW c \in Codecs, ReaderReady(c) PROVE ReaderShape'
  BY <1>6 DEF ReaderReady
<1>7. ASSUME NEW c \in Codecs, ReaderAgain(c) PROVE ReaderShape'
  <2> DEFINE lost == user = "join" /\ stopping = c
  <2>1. stopLost' = (stopLost \/ lost) /\ (stopLost \/ lost) \in BOOLEAN
    BY <1>7, Zenon DEF ReaderAgain
  <2>2. /\ dec_running' = [dec_running EXCEPT ![c] = TRUE]
        /\ \E l \in {"loop", "gone"} : reader' = [reader EXCEPT ![c] = l]
    BY <1>7 DEF ReaderAgain
  <2>3. stopLost' \in BOOLEAN
    BY <2>1, Zenon
  <2> QED
    BY <2>2, <2>3
<1>8. ASSUME NEW c \in Codecs, ReaderLoop(c) PROVE ReaderShape'
  <2>1. \E l \in {"gone", "add", "again"} : reader' = [reader EXCEPT ![c] = l]
    BY <1>8 DEF ReaderLoop
  <2>2. dec_running' = dec_running /\ stopLost' = stopLost
    BY <1>8 DEF ReaderLoop
  <2> QED
    BY <2>1, <2>2
<1>9. ASSUME NEW c \in Codecs, ReaderAdd(c) PROVE ReaderShape'
  BY <1>9 DEF ReaderAdd
<1>10. CASE \/ \E c \in Codecs : Message(c) \/ StopDec(c)
            \/ SetFormat \/ AudioLock \/ AudioTake \/ AudioAct \/ VideoLock \/
               VideoTake \/ VideoNewChannel \/ VideoMessage \/ VideoPipeline
               \/ VideoSetup \/ VideoChange \/ VideoFeed \/ VideoStop \/
               UNCHANGED vars
  <2>1. UNCHANGED <<dec_running, reader, stopLost>>
    BY <1>10, Zenon DEF SetFormat, Message, StopDec, AudioLock, AudioTake, AudioAct,
       VideoLock, VideoTake, VideoNewChannel, VideoMessage, VideoPipeline, VideoSetup,
       VideoChange, VideoFeed, VideoStop, vars, callVars, readVars, queueVars, omxVars,
       codecVars
  <2> QED
    BY <2>1
<1> QED
  BY <1>1, <1>2, <1>3, <1>4, <1>5, <1>6, <1>7, <1>8, <1>9, <1>10 DEF Next, Call, Reader,
     Audio, Video

(* The pipeline and its mutex. *)
LEMMA PipeShapeStep ==
  ASSUME CallShape, PipeShape, [Next]_vars
  PROVE  PipeShape'
<1> USE DEF PipeShape
<1>1. CASE AudioLock
  BY <1>1 DEF AudioLock
<1>2. CASE AudioAct
  BY <1>2 DEF AudioAct, Released
<1>3. CASE VideoLock
  BY <1>3 DEF VideoLock
<1>4. CASE VideoNewChannel
  BY <1>4 DEF VideoNewChannel
<1>5. CASE VideoPipeline
  BY <1>5, OmxAssumption DEF VideoPipeline, CallShape, OmxAssumption
<1>6. CASE VideoSetup
  BY <1>6 DEF VideoSetup, CallShape
<1>7. CASE VideoStop
  BY <1>7 DEF VideoStop
<1>8. CASE \/ \E c \in Codecs : StartDec(c) \/ Message(c) \/ StopDec(c) \/ ReaderNewChannel(c)
                \/ ReaderReady(c) \/ ReaderAgain(c) \/ ReaderLoop(c) \/
                ReaderAdd(c)
           \/ SetFormat \/ StopFlag \/ StopJoin \/ ReaderFormat \/ AudioTake
              \/ VideoTake \/ VideoMessage \/ VideoChange \/ VideoFeed \/
              UNCHANGED vars
  <2>1. UNCHANGED <<omx_active, omx_active_mutex, coding, pipe, renderer>>
    BY <1>8, Zenon DEF SetFormat, StartDec, Message, StopDec, StopFlag, StopJoin,
       ReaderFormat, ReaderNewChannel, ReaderReady, ReaderAgain, ReaderLoop, ReaderAdd,
       AudioTake, VideoTake, VideoMessage, VideoChange, VideoFeed, vars, callVars,
       readVars, queueVars, omxVars, codecVars
  <2> QED
    BY <2>1
<1> QED
  BY <1>1, <1>2, <1>3, <1>4, <1>5, <1>6, <1>7, <1>8 DEF Next, Call, Reader, Audio, Video

(* The codec threads and their items in hand. *)
LEMMA ThreadShapeStep ==
  ASSUME QueueShape, ThreadShape, [Next]_vars
  PROVE  ThreadShape'
<1> USE DEF ThreadShape, Codecs, Goto, PutAway
<1>1. CASE AudioLock
  BY <1>1 DEF AudioLock
<1>2. CASE AudioTake
  <2>1. /\ queue["audio"] # <<>> /\ "audio" \in Codecs
        /\ current' = [current EXCEPT !["audio"] = Last(queue["audio"])]
        /\ thread' = [thread EXCEPT !["audio"] = "act"]
    BY <1>2 DEF AudioTake, TakeItem, Codecs
  <2>2. Last(queue["audio"]) \in Items
    BY <2>1, TakenQueue DEF QueueShape
  <2> QED
    BY <2>1, <2>2
<1>3. CASE AudioAct
  BY <1>3 DEF AudioAct, Released
<1>4. CASE VideoLock
  BY <1>4 DEF VideoLock
<1>5. CASE VideoTake
  <2>1. /\ queue["video"] # <<>> /\ "video" \in Codecs
        /\ current' = [current EXCEPT !["video"] = Last(queue["video"])]
        /\ thread' = [thread EXCEPT !["video"] = "act"]
    BY <1>5 DEF VideoTake, TakeItem, Codecs
  <2>2. Last(queue["video"]) \in Items
    BY <2>1, TakenQueue DEF QueueShape
  <2> QED
    BY <2>1, <2>2
<1>6. CASE VideoNewChannel
  BY <1>6 DEF VideoNewChannel
<1>7. CASE VideoMessage
  BY <1>7 DEF VideoMessage
<1>8. CASE VideoPipeline
  BY <1>8 DEF VideoPipeline
<1>9. CASE VideoSetup
  BY <1>9 DEF VideoSetup
<1>10. CASE VideoChange
  BY <1>10 DEF VideoChange
<1>11. CASE VideoFeed
  BY <1>11 DEF VideoFeed
<1>12. CASE VideoStop
  BY <1>12 DEF VideoStop
<1>13. CASE \/ \E c \in Codecs : StartDec(c) \/ Message(c) \/ StopDec(c) \/ ReaderNewChannel(c)
                 \/ ReaderReady(c) \/ ReaderAgain(c) \/ ReaderLoop(c) \/
                 ReaderAdd(c)
            \/ SetFormat \/ StopFlag \/ StopJoin \/ ReaderFormat \/
               UNCHANGED vars
  <2>1. UNCHANGED <<thread, current>>
    BY <1>13, Zenon DEF SetFormat, StartDec, Message, StopDec, StopFlag, StopJoin,
       ReaderFormat, ReaderNewChannel, ReaderReady, ReaderAgain, ReaderLoop, ReaderAdd,
       vars, callVars, readVars, queueVars, omxVars, codecVars
  <2> QED
    BY <2>1
<1> QED
  BY <1>1, <1>2, <1>3, <1>4, <1>5, <1>6, <1>7, <1>8, <1>9, <1>10, <1>11, <1>12, <1>13
     DEF Next, Call, Reader, Audio, Video

-----------------------------------------------------------------------------
(* What a step does to the queue, the reader and the item in hand of one   *)
(* codec: nothing, but for the ways named here.                            *)
Same(c) == queue'[c] = queue[c] /\ current'[c] = current[c]
Started(c) ==      \* a start
  Same(c) /\ starts'[c] = starts[c] + 1 /\ reader'[c] \in {"born", "new channel"}
Moved(c) ==        \* the reader goes on
  /\ Same(c) /\ starts'[c] = starts[c]
  /\ reader[c] = "none" => reader'[c] = "none"
  /\ Fresh(c)' <=> Fresh(c)
Replaced(c) ==     \* codec_stop0
  /\ current'[c] = current[c] /\ starts'[c] = starts[c] /\ (Fresh(c)' => Fresh(c))
  /\ \E item \in Items : item.kind \in {"stop", "new"} /\ queue'[c] = <<item>>
Messaged(c) ==
  /\ current'[c] = current[c] /\ starts'[c] = starts[c] /\ reader'[c] = reader[c]
  /\ \E item \in Items : item.kind = "message" /\ queue'[c] = Append(queue[c], item)
Added(c) ==
  /\ current'[c] = current[c] /\ starts'[c] = starts[c]
  /\ ~Fresh(c) /\ reader[c] # "none" /\ ~Fresh(c)'
  /\ queue'[c] = <<Item("packet", starts[c])>> \o queue[c]
Taken(c) ==
  /\ starts'[c] = starts[c] /\ reader'[c] = reader[c]
  /\ queue[c] # <<>> /\ current'[c] = Last(queue[c]) /\ queue'[c] = Front(queue[c])
Away(c) ==
  /\ starts'[c] = starts[c] /\ reader'[c] = reader[c]
  /\ queue'[c] = queue[c] /\ current'[c] = NoItem
Moves(c) ==
  \/ Same(c) /\ starts'[c] = starts[c] /\ reader'[c] = reader[c]
  \/ Started(c) \/ Moved(c) \/ Replaced(c) \/ Messaged(c) \/ Added(c) \/ Taken(c) \/ Away(c)

LEMMA CodecMoves ==
  ASSUME TypeOK, [Next]_vars, NEW c \in Codecs
  PROVE  Moves(c)
<1> USE DEF Moves, Same
<1>t. /\ QueueShape /\ CallShape /\ ReaderShape /\ ThreadShape
      /\ MaxStarts \in Nat /\ MaxMessages \in Nat
  BY OmxAssumption DEF TypeOK, OmxAssumption
<1>q. queue \in [Codecs -> Seq(Items)] /\ current \in [Codecs -> Items \cup {NoItem}]
      /\ starts \in [Codecs -> Nat] /\ sent \in Nat
  BY <1>t DEF QueueShape, CallShape, ThreadShape
<1>r. reader \in [Codecs -> {"none", "born", "new channel", "ready", "again", "loop", "add", "gone"}]
  BY <1>t DEF ReaderShape
<1>1. ASSUME NEW d \in Codecs, StartDec(d) PROVE Moves(c)
  <2>1. /\ queue' = queue /\ current' = current
        /\ starts' = [starts EXCEPT ![d] = @ + 1]
        /\ \E l \in {"born", "new channel"} : reader' = [reader EXCEPT ![d] = l]
    BY <1>1 DEF StartDec, queueVars, codecVars
  <2> QED
    BY <1>q, <1>r, <2>1 DEF Started
<1>2. ASSUME NEW d \in Codecs, Message(d) PROVE Moves(c)
  <2> DEFINE item == Item("message", sent + 1)
  <2>1. item \in Items /\ item.kind = "message"
    BY <1>q, ItemIsItem DEF ItemKinds
  <2>2. /\ queue' = [queue EXCEPT ![d] = Append(queue[d], item)]
        /\ current' = current /\ starts' = starts /\ reader' = reader
    BY <1>2, <1>q DEF Message, SendMessage, readVars, codecVars
  <2> HIDE DEF item
  <2> QED
    BY <1>q, <2>1, <2>2 DEF Messaged
<1>3. ASSUME NEW d \in Codecs, StopDec(d) PROVE Moves(c)
  <2> DEFINE item == Item("stop", 0)
  <2>1. item \in Items /\ item.kind = "stop"
    BY ItemIsItem DEF ItemKinds
  <2>2. /\ queue' = [queue EXCEPT ![d] = <<item>>]
        /\ current' = current /\ starts' = starts /\ reader' = reader
    BY <1>3 DEF StopDec, StopQueue, Emptied, readVars, codecVars
  <2> HIDE DEF item
  <2> QED
    BY <1>q, <2>1, <2>2 DEF Replaced, Fresh
<1>4. ASSUME NEW d \in Codecs, ReaderNewChannel(d) PROVE Moves(c)
  <2> DEFINE item == Item("new", starts[d])
  <2>1. item \in Items /\ item.kind = "new"
    BY <1>q, ItemIsItem DEF ItemKinds
  <2>2. /\ queue' = [queue EXCEPT ![d] = <<item>>]
        /\ current' = current /\ starts' = starts
        /\ reader' = [reader EXCEPT ![d] = "ready"]
    BY <1>4 DEF ReaderNewChannel, ReaderGoto, StopQueue, Emptied, callVars, codecVars
  <2> HIDE DEF item
  <2> QED
    BY <1>q, <1>r, <2>1, <2>2 DEF Replaced, Fresh
<1>5. ASSUME NEW d \in Codecs, NEW l,
             reader' = [reader EXCEPT ![d] = l], queue' = queue, current' = current, starts' = starts,
             \/ reader[d] = "born" /\ l = "new channel"
             \/ reader[d] \in {"ready", "again", "loop"} /\ l \in {"again", "loop", "add", "gone"}
             \/ reader[d] = "gone" /\ l = "none"
      PROVE  Moves(c)
  BY <1>q, <1>r, <1>5 DEF Moved, Fresh
<1>6. CASE StopJoin
  <2>1. /\ reader' = [reader EXCEPT ![stopping] = "none"] /\ reader[stopping] = "gone"
        /\ queue' = queue /\ current' = current /\ starts' = starts
    BY <1>6 DEF StopJoin, Joined, queueVars, codecVars
  <2>2. CASE stopping \in Codecs
    BY <1>5, <2>1, <2>2
  <2>3. CASE stopping \notin Codecs
    BY <1>r, <2>1, <2>3
  <2> QED
    BY <2>2, <2>3
<1>7. CASE ReaderFormat
  BY <1>5, <1>7 DEF ReaderFormat, ReaderAt, ReaderGoto, Codecs, callVars, queueVars, codecVars
<1>8. ASSUME NEW d \in Codecs, ReaderReady(d) PROVE Moves(c)
  BY <1>5, <1>8 DEF ReaderReady, ReaderAt, ReaderGoto, callVars, codecVars
<1>9. ASSUME NEW d \in Codecs, ReaderAgain(d) PROVE Moves(c)
  <2>1. PICK l \in {"loop", "gone"} : reader' = [reader EXCEPT ![d] = l]
    BY <1>9 DEF ReaderAgain, ReaderGoto
  <2>2. reader[d] = "again" /\ queue' = queue /\ current' = current /\ starts' = starts
    BY <1>9 DEF ReaderAgain, ReaderAt, callVars, queueVars, codecVars
  <2> QED
    BY <1>5, <2>1, <2>2
<1>10. ASSUME NEW d \in Codecs, ReaderLoop(d) PROVE Moves(c)
  <2>1. PICK l \in {"gone", "add", "again"} : reader' = [reader EXCEPT ![d] = l]
    BY <1>10 DEF ReaderLoop, ReaderGoto
  <2>2. reader[d] = "loop" /\ queue' = queue /\ current' = current /\ starts' = starts
    BY <1>10 DEF ReaderLoop, ReaderAt, callVars, queueVars, codecVars
  <2> QED
    BY <1>5, <2>1, <2>2
<1>11. ASSUME NEW d \in Codecs, ReaderAdd(d) PROVE Moves(c)
  <2>1. /\ reader[d] = "add" /\ reader' = [reader EXCEPT ![d] = "loop"]
        /\ current' = current /\ starts' = starts
        /\ \/ queue' = [queue EXCEPT ![d] = <<Item("packet", starts[d])>> \o queue[d]]
           \/ queue' = queue
    BY <1>11 DEF ReaderAdd, AddItem, ReaderAt, ReaderGoto, callVars, codecVars
  <2> QED
    BY <1>q, <1>r, <2>1 DEF Added, Moved, Fresh
<1>12. ASSUME NEW d \in Codecs, TakeItem(d), starts' = starts, reader' = reader PROVE Moves(c)
  BY <1>q, <1>12 DEF TakeItem, Taken
<1>13. CASE AudioTake \/ VideoTake
  BY <1>12, <1>13 DEF AudioTake, VideoTake, Codecs, callVars, readVars
<1>14. ASSUME NEW d \in Codecs, PutAway(d), queue' = queue, starts' = starts, reader' = reader
       PROVE  Moves(c)
  BY <1>q, <1>14 DEF PutAway, Away
<1>15. CASE AudioAct \/ VideoNewChannel \/ Shown \/ VideoFeed
  BY <1>14, <1>15 DEF AudioAct, VideoNewChannel, Shown, VideoMessage, VideoFeed, Codecs,
     callVars, readVars, queueVars
<1>16. CASE \/ SetFormat \/ StopFlag \/ AudioLock \/ VideoLock \/ VideoPipeline
            \/ VideoSetup \/ VideoChange \/ VideoStop \/ Crashes \/ UNCHANGED vars
  <2>1. UNCHANGED <<queue, current, starts, reader>>
    BY <1>16, Zenon DEF Crashes, VideoMessage, SetFormat, StopFlag, AudioLock, VideoLock, VideoPipeline,
       VideoSetup, VideoChange, VideoStop, vars, callVars, readVars, queueVars, codecVars
  <2> QED
    BY <2>1
<1> QED
  BY <1>1, <1>2, <1>3, <1>4, <1>6, <1>7, <1>8, <1>9, <1>10, <1>11, <1>13, <1>15, <1>16,
     MessageEnds DEF Next, Call, Reader, Audio, Video

(* What is put into a queue and taken out of it. *)
LEMMA PacketsMove ==
  ASSUME NEW S, NEW q \in Seq(Items), PacketsIn(q, S), NEW item \in Items
  PROVE  /\ item.kind # "packet" => PacketsIn(<<item>>, S) /\ PacketsIn(Append(q, item), S)
         /\ item.no \in S => PacketsIn(<<item>> \o q, S)
         /\ q # <<>> => /\ PacketsIn(Front(q), S)
                        /\ Last(q).kind = "packet" => Last(q).no \in S
<1>1. Len(q) \in Nat
  OBVIOUS
<1>2. ASSUME item.kind # "packet" PROVE PacketsIn(<<item>>, S) /\ PacketsIn(Append(q, item), S)
  <2>1. PacketsIn(<<item>>, S)
    BY <1>2 DEF PacketsIn
  <2>2. PacketsIn(Append(q, item), S)
    BY <1>1, <1>2, SentQueue DEF PacketsIn
  <2> QED
    BY <2>1, <2>2
<1>3. ASSUME item.no \in S PROVE PacketsIn(<<item>> \o q, S)
  <2> DEFINE p == <<item>> \o q
  <2>1. /\ Len(p) = Len(q) + 1 /\ p[1] = item
        /\ \A k \in 1 .. Len(q) : p[k + 1] = q[k]
    BY AddedQueue
  <2> HIDE DEF p
  <2>2. SUFFICES ASSUME NEW k \in 1 .. Len(p), k # 1, p[k].kind = "packet" PROVE p[k].no \in S
    BY <1>3, <2>1 DEF PacketsIn, p
  <2>3. k - 1 \in 1 .. Len(q) /\ k = (k - 1) + 1
    BY <1>1, <2>1, <2>2
  <2>4. p[k] = q[k - 1]
    BY <2>1, <2>3
  <2> QED
    BY <2>2, <2>3, <2>4 DEF PacketsIn
<1>4. ASSUME q # <<>> PROVE PacketsIn(Front(q), S) /\ (Last(q).kind = "packet" => Last(q).no \in S)
  <2>1. Len(q) \in 1 .. Len(q) /\ Last(q) = q[Len(q)]
    BY <1>1, <1>4, TakenQueue
  <2>2. /\ Len(Front(q)) = Len(q) - 1
        /\ \A k \in 1 .. Len(q) - 1 : Front(q)[k] = q[k]
    BY <1>4, TakenQueue
  <2>3. PacketsIn(Front(q), S)
    BY <1>1, <2>2 DEF PacketsIn
  <2> QED
    BY <2>1, <2>3 DEF PacketsIn
<1> QED
  BY <1>2, <1>3, <1>4

LEMMA PacketsStay ==
  ASSUME QueueShape, CallShape, NEW c \in Codecs, Moves(c),
         NEW S, PacketsIn(queue[c], S), Added(c) => starts[c] \in S
  PROVE  PacketsIn(queue'[c], S)
<1>1. queue[c] \in Seq(Items) /\ starts[c] \in Nat
  BY OmxAssumption DEF QueueShape, CallShape, OmxAssumption
<1>2. CASE Added(c)
  BY <1>1, <1>2, ItemIsItem, PacketsMove DEF Added, ItemKinds
<1>3. CASE Taken(c)
  <2>1. Item("packet", starts[c]) \in Items
    BY <1>1, ItemIsItem DEF ItemKinds
  <2> QED
    BY <1>1, <1>3, <2>1, PacketsMove DEF Taken
<1>4. CASE Messaged(c)
  BY <1>1, <1>4, PacketsMove DEF Messaged
<1>5. CASE Replaced(c)
  BY <1>1, <1>5, PacketsMove DEF Replaced
<1> QED
  BY <1>2, <1>3, <1>4, <1>5 DEF Moves, Same, Started, Moved, Away

(* What is queued when a queue is emptied is no packet. *)
LEMMA ReplacedStays ==
  ASSUME NEW c \in Codecs, Replaced(c), NEW S
  PROVE  PacketsIn(queue'[c], S)
<1>1. PICK item \in Items : item.kind \in {"stop", "new"} /\ queue'[c] = <<item>>
  BY DEF Replaced
<1>2. PacketsIn(<<item>>, S)
  BY <1>1 DEF PacketsIn
<1> QED
  BY <1>1, <1>2

(* Nothing stale is queued, and every packet has the number of a start. *)
NoneStale == \A c \in Codecs : reader[c] \notin {"none", "born", "new channel"} =>
               PacketsIn(queue[c], {starts[c]})
LEMMA NoneStaleMeans ==
  ASSUME QueueShape
  PROVE  NoneStale <=> NoStalePacket
<1>1. ASSUME NEW c \in Codecs PROVE DOMAIN queue[c] = 1 .. Len(queue[c])
  BY DEF QueueShape
<1> QED
  BY <1>1 DEF NoneStale, NoStalePacket, PacketsIn

LEMMA StaleStep ==
  ASSUME TypeOK, NoStalePacket, [Next]_vars
  PROVE  NoStalePacket'
<1>1. QueueShape /\ QueueShape' /\ CallShape
  BY QueueShapeStep DEF TypeOK
<1>2. NoneStale
  BY <1>1, NoneStaleMeans
<1>3. ASSUME NEW c \in Codecs, reader'[c] \notin {"none", "born", "new channel"}
      PROVE  PacketsIn(queue'[c], {starts'[c]})
  <2>1. Moves(c)
    BY CodecMoves
  <2>2. CASE Replaced(c)
    BY <2>2, ReplacedStays
  <2>3. CASE ~Replaced(c)
    <3>1. starts'[c] = starts[c] /\ reader[c] \notin {"none", "born", "new channel"}
      BY <1>3, <2>1, <2>3 DEF Moves, Started, Moved, Messaged, Added, Taken, Away, Fresh
    <3>2. PacketsIn(queue[c], {starts[c]})
      BY <1>2, <3>1 DEF NoneStale
    <3> QED
      BY <1>1, <2>1, <3>1, <3>2, PacketsStay
  <2> QED
    BY <2>2, <2>3
<1>4. ASSUME NEW c \in Codecs PROVE DOMAIN queue'[c] = 1 .. Len(queue'[c])
  <2>1. queue'[c] \in Seq(Items)
    BY <1>1 DEF QueueShape
  <2> QED
    BY <2>1
<1> QED
  BY <1>3, <1>4 DEF NoStalePacket, PacketsIn

LEMMA NumberedStep ==
  ASSUME TypeOK, AllNumbered, [Next]_vars
  PROVE  AllNumbered'
<1>1. QueueShape /\ CallShape
  BY DEF TypeOK
<1>2. ASSUME NEW c \in Codecs
      PROVE  /\ current'[c].kind = "packet" => current'[c].no \in Numbers(c)'
             /\ PacketsIn(queue'[c], Numbers(c)')
  <2>1. Moves(c) /\ queue[c] \in Seq(Items) /\ starts[c] \in Nat
    <3>1. queue[c] \in Seq(Items)
      BY <1>1 DEF QueueShape
    <3>2. starts[c] \in Nat
      BY <1>1, OmxAssumption DEF CallShape, OmxAssumption
    <3> QED
      BY <3>1, <3>2, CodecMoves
  <2>2. /\ current[c].kind = "packet" => current[c].no \in Numbers(c)
        /\ PacketsIn(queue[c], Numbers(c))
    BY DEF AllNumbered
  <2>3. Numbers(c) \subseteq Numbers(c)'
    <3>1. \/ starts'[c] = starts[c] /\ (Fresh(c)' => Fresh(c))
          \/ starts'[c] = starts[c] + 1
      BY <2>1 DEF Moves, Same, Started, Moved, Replaced, Messaged, Added, Taken, Away, Fresh
    <3> QED
      BY <2>1, <3>1 DEF Numbers
  <2>4. Added(c) => starts[c] \in Numbers(c)
    BY <2>1 DEF Added, Numbers
  <2>5. PacketsIn(queue'[c], Numbers(c)')
    <3>1. PacketsIn(queue'[c], Numbers(c))
      BY <1>1, <2>1, <2>2, <2>4, PacketsStay
    <3> QED
      BY <2>3, <3>1 DEF PacketsIn
  <2>6. \/ current'[c] = current[c] \/ current'[c] = NoItem
        \/ queue[c] # <<>> /\ current'[c] = Last(queue[c])
    BY <2>1 DEF Moves, Same, Started, Moved, Replaced, Messaged, Added, Taken, Away
  <2>7. NoItem.kind # "packet"
    BY DEF NoItem, Item
  <2>8. queue[c] # <<>> /\ Last(queue[c]).kind = "packet" => Last(queue[c]).no \in Numbers(c)
    <3>1. Item("message", 0) \in Items
      BY ItemIsItem DEF ItemKinds
    <3> QED
      BY <2>1, <2>2, <3>1, PacketsMove
  <2> QED
    BY <2>2, <2>3, <2>5, <2>6, <2>7, <2>8
<1> QED
  BY <1>2 DEF AllNumbered

-----------------------------------------------------------------------------
(* The calls and the readers leave the pipeline and the codec threads be.  *)
LEMMA OthersLeave ==
  ASSUME Call \/ StopFlag \/ StopJoin \/ (\E c \in Codecs : Reader(c)) \/ UNCHANGED vars
  PROVE  UNCHANGED <<omx_active, omx_active_mutex, coding, pipe, thread, current>>
BY Zenon DEF Call, SetFormat, StartDec, Message, StopDec, StopFlag, StopJoin, Reader,
   ReaderFormat, ReaderNewChannel, ReaderReady, ReaderAgain, ReaderLoop, ReaderAdd,
   vars, omxVars, codecVars

(* The mutex, omx_active and the pipeline go together. *)
LEMMA PipelineStep ==
  ASSUME TypeOK, Pipeline, [Next]_vars
  PROVE  MutexHeld' /\ Pipeline'
<1>t. ThreadShape /\ PipeShape /\ MutexHeld /\ QueueShape /\ vcodectype # None
  BY OmxAssumption DEF TypeOK, CallShape, OmxAssumption
<1>th. thread \in [Codecs -> {"lock", "wait", "get", "act", "setup", "feed", "stop",
                            "crashed"}]
  BY <1>t DEF ThreadShape
<1>cu. current \in [Codecs -> Items \cup {NoItem}] /\ NoItem.kind = "none"
  BY <1>t DEF ThreadShape, NoItem, Item
<1>1. CASE AudioLock
  <2>1. /\ UNCHANGED <<omx_active, coding, pipe, current>>
        /\ omx_active_mutex = "free"
        /\ \/ /\ omx_active = 1 /\ omx_active_mutex' = "audio"
              /\ thread' = [thread EXCEPT !["audio"] = "get"]
           \/ omx_active_mutex' = "free" /\ thread' = [thread EXCEPT !["audio"] = "wait"]
    BY <1>1 DEF AudioLock, MayFeed, Goto
  <2> QED
    BY <1>t, <1>th, <2>1 DEF MutexHeld, Pipeline, Codecs
<1>2. CASE AudioTake
  <2>1. /\ UNCHANGED <<omx_active, omx_active_mutex, coding, pipe>>
        /\ thread["audio"] = "get" /\ thread' = [thread EXCEPT !["audio"] = "act"]
        /\ current'["video"] = current["video"]
    BY <1>2, <1>cu DEF AudioTake, TakeItem, At, Goto, omxVars, Codecs
  <2> QED
    BY <1>t, <1>th, <2>1 DEF MutexHeld, Pipeline, Codecs
<1>3. CASE AudioAct
  <2>1. /\ UNCHANGED <<coding, pipe>> /\ omx_active' \in {2, omx_active}
        /\ omx_active_mutex' = "free"
        /\ thread["audio"] = "act" /\ thread' = [thread EXCEPT !["audio"] = "lock"]
        /\ current'["video"] = current["video"]
    BY <1>3, <1>cu DEF AudioAct, PutAway, Released, At, Goto, Codecs
  <2>2. omx_active # 0 /\ omx_active' # 0
    BY <1>t, <2>1 DEF MutexHeld, Pipeline
  <2> QED
    BY <1>t, <1>th, <2>1, <2>2 DEF MutexHeld, Pipeline, Codecs
<1>4. CASE VideoLock
  <2>1. /\ UNCHANGED <<omx_active, coding, pipe, current>>
        /\ omx_active_mutex = "free" /\ omx_active_mutex' = "video"
        /\ thread["video"] = "lock" /\ thread' = [thread EXCEPT !["video"] = "get"]
    BY <1>4 DEF VideoLock, At, Goto
  <2> QED
    BY <1>t, <1>th, <2>1 DEF MutexHeld, Pipeline, Codecs
<1>5. CASE VideoTake
  <2>1. /\ UNCHANGED <<omx_active, omx_active_mutex, coding, pipe>>
        /\ thread["video"] = "get" /\ thread' = [thread EXCEPT !["video"] = "act"]
    BY <1>5 DEF VideoTake, At, Goto, omxVars
  <2> QED
    BY <1>t, <1>th, <2>1 DEF MutexHeld, Pipeline, Codecs
<1>6. CASE VideoNewChannel
  <2>1. /\ UNCHANGED <<omx_active, omx_active_mutex, pipe>>
        /\ coding' = IF omx_active = 0 THEN None ELSE coding
        /\ thread["video"] = "act"
        /\ thread' = [thread EXCEPT !["video"] = IF omx_active # 0 THEN "stop" ELSE "get"]
        /\ current'["video"] = NoItem
    BY <1>6, <1>cu DEF VideoNewChannel, PutAway, MustRestart, At, Goto, Codecs
  <2> QED
    BY <1>t, <1>th, <1>cu, <2>1 DEF MutexHeld, Pipeline, Codecs
<1>7. CASE Shown \/ VideoFeed
  <2>1. /\ UNCHANGED <<omx_active, omx_active_mutex, coding, pipe>>
        /\ thread["video"] \in {"act", "feed"}
        /\ thread' = [thread EXCEPT !["video"] = "get"]
        /\ current'["video"] = NoItem
    BY <1>7, <1>cu DEF Shown, VideoMessage, VideoFeed, PutAway, At, Goto, omxVars, Codecs
  <2> QED
    BY <1>t, <1>th, <1>cu, <2>1 DEF MutexHeld, Pipeline, Codecs
<1>13. CASE Crashes
  <2>1. /\ UNCHANGED <<omx_active, omx_active_mutex, coding, pipe, current>>
        /\ thread["video"] = "act" /\ current["video"].kind = "message"
        /\ renderer # "open" /\ thread' = [thread EXCEPT !["video"] = "crashed"]
    BY <1>13 DEF Crashes, VideoMessage, Holding, At, Goto, omxVars
  <2>2. coding = None
    BY <1>t, <2>1 DEF PipeShape, Pipeline
  <2> QED
    BY <1>t, <1>th, <2>1, <2>2 DEF MutexHeld, Pipeline, Codecs
<1>8. CASE VideoPipeline
  <2>1. /\ UNCHANGED <<omx_active, omx_active_mutex, coding, current>>
        /\ pipe' = vcodectype /\ coding = None /\ current["video"].kind = "packet"
        /\ thread["video"] \in {"act", "get"}
        /\ thread' = [thread EXCEPT !["video"] = "setup"]
    BY <1>8 DEF VideoPipeline, VideoPacket, Holding, At, Goto
  <2> QED
    BY <1>t, <1>th, <2>1 DEF MutexHeld, Pipeline, Codecs
<1>9. CASE VideoSetup
  <2>1. /\ UNCHANGED <<pipe, current>> /\ coding' = vcodectype
        /\ omx_active' = 1 /\ omx_active_mutex' = "free" /\ thread["video"] = "setup"
        /\ thread' = [thread EXCEPT !["video"] = "feed",
                        !["audio"] = IF thread["audio"] = "wait" THEN "lock" ELSE thread["audio"]]
    BY <1>9, <1>th DEF VideoSetup, At, Codecs
  <2>2. omx_active_mutex = "video"
    BY <1>t, <2>1 DEF MutexHeld, Pipeline
  <2>3. /\ thread'["video"] = "feed"
        /\ thread'["audio"] = IF thread["audio"] = "wait" THEN "lock" ELSE thread["audio"]
    BY <1>th, <2>1 DEF Codecs
  <2>4. thread["audio"] \notin {"get", "act"}
    BY <1>t, <2>2 DEF MutexHeld
  <2>5. thread'["audio"] \notin {"get", "act"}
    BY <2>3, <2>4
  <2>6. MutexHeld'
    BY <2>1, <2>3, <2>5 DEF MutexHeld
  <2>7. Pipeline'
    BY <1>t, <2>1, <2>3 DEF Pipeline
  <2> QED
    BY <2>6, <2>7
<1>10. CASE VideoChange
  <2>1. /\ UNCHANGED <<omx_active, omx_active_mutex, coding, pipe, current>>
        /\ coding # None /\ current["video"].kind = "packet"
        /\ thread["video"] \in {"act", "get"}
        /\ \E l \in {"feed", "stop"} : thread' = [thread EXCEPT !["video"] = l]
    BY <1>10 DEF VideoChange, VideoPacket, Holding, At, Goto, omxVars
  <2> QED
    BY <1>t, <1>th, <2>1 DEF MutexHeld, Pipeline, Codecs
<1>11. CASE VideoStop
  <2>1. /\ omx_active_mutex = "free" /\ omx_active_mutex' = "video"
        /\ coding' = None /\ pipe' = None /\ omx_active' = 0 /\ current' = current
        /\ thread["video"] = "stop" /\ thread' = [thread EXCEPT !["video"] = "get"]
    BY <1>11 DEF VideoStop, AudioAway, At, Goto
  <2> QED
    BY <1>t, <1>th, <2>1 DEF MutexHeld, Pipeline, Codecs
<1>12. CASE Call \/ StopFlag \/ StopJoin \/ (\E c \in Codecs : Reader(c)) \/ UNCHANGED vars
  BY <1>t, <1>12, OthersLeave DEF MutexHeld, Pipeline
<1> QED
  BY <1>1, <1>2, <1>3, <1>4, <1>5, <1>6, <1>7, <1>8, <1>9, <1>10, <1>11, <1>12, <1>13,
     MessageEnds DEF Next, Audio, Video

-----------------------------------------------------------------------------
(* The item that keeps the new packets back stays where it is until it is  *)
(* taken, and a packet that is taken before it is not a new one.           *)
LEMMA AheadMoves ==
  ASSUME NEW n, NEW q \in Seq(Items), NEW item \in Items
  PROVE  /\ item.kind \in {"stop", "new"} => Ahead(<<item>>, n)
         /\ Ahead(q, n) /\ item.kind # "packet" => Ahead(Append(q, item), n)
         /\ Ahead(q, n) => Ahead(<<item>> \o q, n)
         /\ Ahead(q, n) /\ q # <<>> =>
               /\ Ahead(Front(q), n) \/ Last(q).kind \in {"stop", "new"}
               /\ Last(q).kind = "packet" => Last(q).no # n
<1>1. Len(q) \in Nat
  OBVIOUS
<1>2. ASSUME item.kind \in {"stop", "new"} PROVE Ahead(<<item>>, n)
  BY <1>2 DEF Ahead
<1> SUFFICES ASSUME Ahead(q, n)
             PROVE  /\ item.kind # "packet" => Ahead(Append(q, item), n)
                    /\ Ahead(<<item>> \o q, n)
                    /\ q # <<>> =>
                          /\ Ahead(Front(q), n) \/ Last(q).kind \in {"stop", "new"}
                          /\ Last(q).kind = "packet" => Last(q).no # n
  BY <1>2
<1>3. PICK j \in 1 .. Len(q) :
        /\ q[j].kind \in {"stop", "new"}
        /\ \A i \in 1 .. Len(q) : q[i].kind = "packet" /\ q[i].no = n => i < j
  BY DEF Ahead
<1>4. ASSUME item.kind # "packet" PROVE Ahead(Append(q, item), n)
  <2> DEFINE p == Append(q, item)
  <2>1. /\ Len(p) = Len(q) + 1 /\ p[Len(q) + 1] = item
        /\ \A k \in 1 .. Len(q) : p[k] = q[k]
    BY SentQueue
  <2> HIDE DEF p
  <2>2. j \in 1 .. Len(p) /\ p[j] = q[j]
    BY <1>1, <2>1
  <2>3. ASSUME NEW i \in 1 .. Len(p), p[i].kind = "packet", p[i].no = n PROVE i < j
    <3>1. i \in 1 .. Len(q)
      BY <1>1, <1>4, <2>1, <2>3
    <3>2. p[i] = q[i]
      BY <2>1, <3>1
    <3> QED
      BY <1>3, <2>3, <3>1, <3>2
  <2> QED
    BY <1>3, <2>2, <2>3 DEF Ahead, p
<1>5. Ahead(<<item>> \o q, n)
  <2> DEFINE p == <<item>> \o q
  <2>1. /\ Len(p) = Len(q) + 1 /\ p[1] = item
        /\ \A k \in 1 .. Len(q) : p[k + 1] = q[k]
    BY AddedQueue
  <2> HIDE DEF p
  <2>2. j + 1 \in 1 .. Len(p) /\ p[j + 1] = q[j]
    BY <1>1, <2>1
  <2>3. ASSUME NEW i \in 1 .. Len(p), p[i].kind = "packet", p[i].no = n PROVE i < j + 1
    <3>1. CASE i = 1
      BY <1>1, <3>1
    <3>2. CASE i # 1
      <4>1. i - 1 \in 1 .. Len(q) /\ i = (i - 1) + 1
        BY <1>1, <2>1, <3>2
      <4>2. p[i] = q[i - 1]
        BY <2>1, <4>1
      <4>3. i - 1 < j
        BY <1>3, <2>3, <4>1, <4>2
      <4> QED
        BY <1>1, <4>1, <4>3
    <3> QED
      BY <3>1, <3>2
  <2> QED
    BY <1>3, <2>2, <2>3 DEF Ahead, p
<1>6. ASSUME q # <<>>
      PROVE  /\ Ahead(Front(q), n) \/ Last(q).kind \in {"stop", "new"}
             /\ Last(q).kind = "packet" => Last(q).no # n
  <2>1. /\ Len(Front(q)) = Len(q) - 1 /\ Last(q) = q[Len(q)] /\ Len(q) \in 1 .. Len(q)
        /\ \A i \in 1 .. Len(q) - 1 : Front(q)[i] = q[i]
    BY <1>1, <1>6, TakenQueue
  <2>2. CASE j = Len(q)
    BY <1>3, <2>1, <2>2
  <2>3. CASE j # Len(q)
    <3>1. Ahead(Front(q), n)
      BY <1>1, <1>3, <2>1, <2>3 DEF Ahead
    <3>2. Last(q).kind = "packet" => Last(q).no # n
      BY <1>1, <1>3, <2>1
    <3> QED
      BY <3>1, <3>2
  <2> QED
    BY <2>2, <2>3
<1> QED
  BY <1>4, <1>5, <1>6

LEMMA BehindStays ==
  ASSUME QueueShape, CallShape, Behind, Moves("video")
  PROVE  Behind' \/ current'["video"].kind \in {"stop", "new"}
<1> DEFINE q == queue["video"]
           n == starts["video"]
<1>1. q \in Seq(Items) /\ n \in Nat
  <2>1. q \in Seq(Items)
    BY DEF QueueShape, Codecs
  <2>2. n \in Nat
    BY OmxAssumption DEF CallShape, OmxAssumption, Codecs
  <2> QED
    BY <2>1, <2>2
<1>2. Item("packet", n) \in Items
  BY <1>1, ItemIsItem DEF ItemKinds
<1>3. CASE Fresh("video")' \/ Ahead(queue'["video"], starts'["video"])
  BY <1>3 DEF Behind
<1>4. CASE Replaced("video")
  <2>1. PICK item \in Items : item.kind \in {"stop", "new"} /\ queue'["video"] = <<item>>
    BY <1>4 DEF Replaced
  <2>2. Ahead(<<item>>, n)
    BY <1>1, <2>1, AheadMoves
  <2>3. starts'["video"] = n
    BY <1>4 DEF Replaced
  <2> QED
    BY <1>3, <2>1, <2>2, <2>3
<1>5. CASE Fresh("video") /\ ~Replaced("video")
  BY <1>3, <1>5 DEF Moves, Same, Started, Moved, Messaged, Added, Taken, Away, Fresh
<1>6. CASE ~Fresh("video") /\ ~Replaced("video")
  <2>1. Ahead(q, n)
    BY <1>6 DEF Behind
  <2>2. CASE Messaged("video")
    <3>1. PICK item \in Items : item.kind = "message" /\ queue'["video"] = Append(q, item)
      BY <2>2 DEF Messaged
    <3>2. Ahead(Append(q, item), n)
      BY <1>1, <2>1, <3>1, AheadMoves
    <3>3. starts'["video"] = n
      BY <2>2 DEF Messaged
    <3> QED
      BY <1>3, <3>1, <3>2, <3>3
  <2>3. CASE Added("video")
    <3>1. Ahead(<<Item("packet", n)>> \o q, n)
      BY <1>1, <1>2, <2>1, AheadMoves
    <3>2. queue'["video"] = <<Item("packet", n)>> \o q /\ starts'["video"] = n
      BY <2>3 DEF Added
    <3> QED
      BY <1>3, <3>1, <3>2
  <2>4. CASE Taken("video")
    <3>1. /\ q # <<>> /\ current'["video"] = Last(q) /\ queue'["video"] = Front(q)
          /\ starts'["video"] = n
      BY <2>4 DEF Taken
    <3>2. Ahead(Front(q), n) \/ Last(q).kind \in {"stop", "new"}
      BY <1>1, <1>2, <2>1, <3>1, AheadMoves
    <3> QED
      BY <1>3, <3>1, <3>2
  <2> QED
    BY <1>3, <1>6, <2>1, <2>2, <2>3, <2>4 DEF Moves, Same, Started, Moved, Away, Fresh
<1> QED
  BY <1>4, <1>5, <1>6

LEMMA BehindTaken ==
  ASSUME QueueShape, CallShape, AllNumbered, Behind, Taken("video"),
         current'["video"].kind = "packet"
  PROVE  current'["video"].no # starts'["video"]
<1> DEFINE q == queue["video"]
           n == starts["video"]
<1>1. q \in Seq(Items) /\ n \in Nat
  <2>1. q \in Seq(Items)
    BY DEF QueueShape, Codecs
  <2>2. n \in Nat
    BY OmxAssumption DEF CallShape, OmxAssumption, Codecs
  <2> QED
    BY <2>1, <2>2
<1>2. Item("packet", n) \in Items
  BY <1>1, ItemIsItem DEF ItemKinds
<1>3. q # <<>> /\ current'["video"] = Last(q) /\ starts'["video"] = n
  BY DEF Taken
<1>4. CASE Fresh("video")
  <2>1. PacketsIn(q, Numbers("video"))
    BY DEF AllNumbered, Codecs
  <2>2. Last(q).no \in Numbers("video")
    BY <1>1, <1>2, <1>3, <2>1, PacketsMove
  <2> QED
    BY <1>1, <1>3, <1>4, <2>2 DEF Numbers
<1>5. CASE Ahead(q, n)
  <2>1. Last(q).kind = "packet" => Last(q).no # n
    BY <1>1, <1>2, <1>3, <1>5, AheadMoves
  <2> QED
    BY <1>3, <2>1
<1> QED
  BY <1>4, <1>5 DEF Behind

(* A step that does not touch the pipeline keeps what Coded says of it. *)
LEMMA CodedStays ==
  ASSUME TypeOK, AllNumbered, Pipeline, Coded, Moves("video"),
         UNCHANGED <<coding, pipe, vcodectype>>,
         thread'["video"] = thread["video"], current'["video"] = current["video"]
  PROVE  Coded'
<1> DEFINE cur == current["video"]
           n == starts["video"]
<1>1. QueueShape /\ CallShape
  BY DEF TypeOK
<1>2. n \in Nat /\ starts'["video"] \in {n, n + 1}
  <2>1. n \in Nat
    BY <1>1, OmxAssumption DEF CallShape, OmxAssumption, Codecs
  <2> QED
    BY <2>1 DEF Moves, Same, Started, Moved, Replaced, Messaged, Added, Taken, Away
<1>3. cur.kind = "packet" => cur.no \in Nat /\ cur.no <= n
  BY DEF AllNumbered, Numbers, Codecs
<1>4. cur.kind = "packet" /\ cur.no # n => cur.no # starts'["video"]
  BY <1>2, <1>3
<1>5. Torn' <=> Torn
  BY DEF Torn
<1>6. TornDown => TornDown'
  <2>1. Behind => Behind' \/ current'["video"].kind \in {"stop", "new"}
    BY <1>1, BehindStays
  <2> QED
    BY <1>4, <2>1 DEF TornDown
<1>7. At("video", "feed")' /\ current'["video"].no = starts'["video"] => pipe' = vcodectype'
  <2>1. SUFFICES ASSUME thread["video"] = "feed", cur.no = starts'["video"] PROVE pipe = vcodectype
    BY DEF At
  <2>2. cur.kind = "packet"
    BY <2>1 DEF Pipeline
  <2>3. cur.no = n
    BY <1>2, <1>3, <2>1, <2>2
  <2> QED
    BY <2>1, <2>3 DEF Coded, At
<1> QED
  BY <1>5, <1>6, <1>7 DEF Coded

LEMMA CodedStep ==
  ASSUME TypeOK, AllNumbered, Pipeline, Coded, [Next]_vars
  PROVE  Coded'
<1> DEFINE cur == current["video"]
           n == starts["video"]
<1>t. QueueShape /\ CallShape /\ ThreadShape /\ Moves("video")
  BY CodecMoves DEF TypeOK, Codecs
<1>th. thread \in [Codecs -> {"lock", "wait", "get", "act", "setup", "feed", "stop",
                            "crashed"}]
  BY <1>t DEF ThreadShape
<1>cu. current \in [Codecs -> Items \cup {NoItem}] /\ NoItem.kind = "none"
  BY <1>t DEF ThreadShape, NoItem, Item
<1>be. Behind => Behind' \/ current'["video"].kind \in {"stop", "new"}
  BY <1>t, BehindStays
<1>1. CASE Audio
  <2>1. UNCHANGED <<coding, pipe, vcodectype>>
    BY <1>1, Zenon DEF Audio, AudioLock, AudioTake, AudioAct, omxVars
  <2>2. thread'["video"] = thread["video"]
    BY <1>1, <1>th DEF Audio, AudioLock, AudioTake, AudioAct, Goto, Codecs
  <2>3. current'["video"] = current["video"]
    BY <1>1, <1>cu DEF Audio, AudioLock, AudioTake, AudioAct, TakeItem, PutAway, Codecs
  <2> QED
    BY <1>t, <2>1, <2>2, <2>3, CodedStays
<1>2. CASE /\ Call \/ StopFlag \/ StopJoin \/ (\E c \in Codecs : Reader(c)) \/ UNCHANGED vars
           /\ vcodectype' = vcodectype
  BY <1>t, <1>2, OthersLeave, CodedStays
<1>3. CASE ReaderFormat
  <2>1. UNCHANGED <<coding, pipe, thread, current, starts>>
    BY <1>3 DEF ReaderFormat, callVars, omxVars, codecVars
  <2>2. Fresh("video") /\ Fresh("video")'
    BY <1>t, <1>3 DEF ReaderFormat, ReaderAt, ReaderGoto, Fresh, TypeOK, ReaderShape, Codecs
  <2>3. cur.kind = "packet" => cur.no # n
    <3>1. n \in Nat
      BY <1>t, OmxAssumption DEF CallShape, OmxAssumption, Codecs
    <3> QED
      BY <2>2, <3>1 DEF AllNumbered, Numbers, Codecs
  <2>4. TornDown'
    BY <2>1, <2>2, <2>3 DEF TornDown, Behind
  <2>5. thread["video"] = "feed" => cur.kind = "packet"
    BY DEF Pipeline
  <2> QED
    BY <2>1, <2>3, <2>4, <2>5 DEF Coded, At
<1>4. CASE VideoLock
  <2>1. coding = None /\ coding' = coding /\ thread' = [thread EXCEPT !["video"] = "get"]
    BY <1>4 DEF VideoLock, At, Goto, Pipeline
  <2>2. thread'["video"] = "get"
    BY <1>th, <2>1 DEF Codecs
  <2> QED
    BY <2>1, <2>2 DEF Coded, Torn, At
<1>5. CASE VideoTake
  <2>1. /\ UNCHANGED <<coding, pipe, vcodectype>> /\ cur.kind = "none" /\ thread["video"] = "get"
        /\ thread' = [thread EXCEPT !["video"] = "act"]
    BY <1>5 DEF VideoTake, Holding, At, Goto, omxVars
  <2>2. thread'["video"] = "act"
    BY <1>th, <2>1 DEF Codecs
  <2>3. Taken("video")
    BY <1>5, <1>t, <1>cu DEF VideoTake, TakeItem, Taken, QueueShape, Codecs, callVars, readVars
  <2>4. Torn' => Behind
    BY <2>1, <2>2 DEF Coded, Torn, TornDown
  <2>5. Behind => TornDown'
    BY <1>t, <1>be, <2>3, BehindTaken DEF TornDown
  <2> QED
    BY <2>2, <2>4, <2>5 DEF Coded, At
<1>6. CASE VideoNewChannel
  <2>1. /\ coding' = IF omx_active = 0 THEN None ELSE coding
        /\ thread' = [thread EXCEPT !["video"] = IF omx_active # 0 THEN "stop" ELSE "get"]
        /\ current'["video"] = NoItem
    BY <1>6, <1>cu DEF VideoNewChannel, PutAway, MustRestart, At, Goto, Codecs
  <2>2. thread'["video"] = IF omx_active # 0 THEN "stop" ELSE "get"
    BY <1>th, <2>1 DEF Codecs
  <2> QED
    BY <1>cu, <2>1, <2>2 DEF Coded, Torn, TornDown, At
<1>15. CASE Crashes
  <2>1. /\ UNCHANGED <<coding, pipe>> /\ renderer # "open"
        /\ thread' = [thread EXCEPT !["video"] = "crashed"]
    BY <1>15 DEF Crashes, VideoMessage, Goto, omxVars
  <2>2. coding = None /\ thread'["video"] = "crashed"
    BY <1>th, <2>1 DEF TypeOK, PipeShape, Pipeline, Codecs
  <2> QED
    BY <2>1, <2>2 DEF Coded, Torn, At
<1>7. CASE Shown \/ VideoFeed
  <2>1. /\ UNCHANGED <<coding, pipe, vcodectype>>
        /\ cur.kind \in {"message", "packet"} /\ thread["video"] \in {"act", "feed"}
        /\ thread' = [thread EXCEPT !["video"] = "get"]
        /\ current'["video"] = NoItem
    BY <1>7, <1>cu DEF Shown, VideoMessage, VideoFeed, PutAway, Holding, At, Goto, omxVars, Codecs,
       Pipeline
  <2>2. thread'["video"] = "get"
    BY <1>th, <2>1 DEF Codecs
  <2>3. Torn' => Behind
    BY <2>1, <2>2 DEF Coded, Torn, TornDown
  <2> QED
    BY <1>be, <1>cu, <2>1, <2>2, <2>3 DEF Coded, TornDown, At
<1>8. CASE VideoPipeline
  <2>1. /\ pipe' = vcodectype /\ vcodectype' = vcodectype /\ coding' = None
        /\ thread' = [thread EXCEPT !["video"] = "setup"]
    BY <1>8 DEF VideoPipeline, Goto
  <2>2. thread'["video"] = "setup"
    BY <1>th, <2>1 DEF Codecs
  <2> QED
    BY <2>1, <2>2 DEF Coded, Torn, At
<1>9. ASSUME UNCHANGED <<pipe, vcodectype, current, starts>>, cur.kind = "packet",
             thread["video"] # "stop",
             \/ coding' = vcodectype /\ thread["video"] = "setup" /\ thread'["video"] = "feed"
             \/ /\ coding' = coding /\ coding # None /\ thread["video"] # "setup"
                /\ thread'["video"] = IF coding = vcodectype THEN "feed" ELSE "stop"
      PROVE  Coded'
  <2>3. Torn' => Torn
    BY <1>9 DEF Torn
  <2>4. Torn => cur.no # n /\ Behind
    BY <1>9 DEF Coded, TornDown
  <2>5. TornDown' \/ ~Torn'
    BY <1>be, <1>9, <2>3, <2>4 DEF TornDown
  <2>6. ~Torn /\ thread'["video"] = "feed" => pipe' = vcodectype'
    BY <1>9 DEF Torn
  <2> QED
    BY <1>9, <2>3, <2>4, <2>5, <2>6 DEF Coded, At
<1>10. CASE VideoSetup
  <2>1. /\ UNCHANGED <<pipe, vcodectype, current, starts>> /\ thread["video"] = "setup"
        /\ coding' = vcodectype
        /\ thread' = [thread EXCEPT !["video"] = "feed",
                        !["audio"] = IF @ = "wait" THEN "lock" ELSE @]
    BY <1>10 DEF VideoSetup, At, callVars
  <2>2. cur.kind = "packet" /\ thread'["video"] = "feed"
    BY <1>th, <2>1 DEF Pipeline, Codecs
  <2> QED
    BY <1>9, <2>1, <2>2
<1>11. CASE VideoChange
  <2>1. /\ UNCHANGED <<pipe, vcodectype, current, starts>> /\ thread["video"] \in {"act", "get"}
        /\ coding' = coding /\ coding # None /\ cur.kind = "packet"
        /\ thread' = [thread EXCEPT !["video"] = IF coding = vcodectype THEN "feed" ELSE "stop"]
    BY <1>11 DEF VideoChange, VideoPacket, Holding, At, Goto, callVars, omxVars
  <2>2. thread'["video"] = IF coding = vcodectype THEN "feed" ELSE "stop"
    BY <1>th, <2>1 DEF Codecs
  <2> QED
    BY <1>9, <2>1, <2>2
<1>12. CASE VideoStop
  <2>1. coding' = None /\ thread' = [thread EXCEPT !["video"] = "get"]
    BY <1>12 DEF VideoStop, Goto
  <2>2. thread'["video"] = "get"
    BY <1>th, <2>1 DEF Codecs
  <2> QED
    BY <2>1, <2>2 DEF Coded, Torn, At
<1>13. CASE \E c \in Codecs : \/ ReaderNewChannel(c) \/ ReaderReady(c) \/ ReaderAgain(c)
                             \/ ReaderLoop(c) \/ ReaderAdd(c)
  <2>1. vcodectype' = vcodectype
    BY <1>13, Zenon DEF ReaderNewChannel, ReaderReady, ReaderAgain, ReaderLoop, ReaderAdd
  <2>2. \E c \in Codecs : Reader(c)
    BY <1>13 DEF Reader
  <2> QED
    BY <1>2, <2>1, <2>2
<1>14. CASE Call \/ StopFlag \/ StopJoin \/ UNCHANGED vars
  <2>1. vcodectype' = vcodectype
    BY <1>14, Zenon DEF Call, SetFormat, StartDec, Message, StopDec, StopFlag, StopJoin, vars
  <2> QED
    BY <1>2, <1>14, <2>1
<1> QED
  BY <1>1, <1>3, <1>4, <1>5, <1>6, <1>7, <1>8, <1>12, <1>13, <1>14, <1>10,
     <1>11, <1>15, MessageEnds DEF Next, Reader, Video

-----------------------------------------------------------------------------
LEMMA InitIInv == Init => IInv
<1> SUFFICES ASSUME Init PROVE IInv
  OBVIOUS
<1> USE OmxAssumption DEF OmxAssumption, Init
<1>1. NoItem.kind = "none"
  BY DEF NoItem, Item
<1>2. QueueShape /\ CallShape /\ ReaderShape
  <2>1. QueueShape
    <3>1. <<>> \in Seq(Items)
      OBVIOUS
    <3>2. queue = [c \in Codecs |-> <<>>] /\ is_running = [c \in Codecs |-> TRUE]
      OBVIOUS
    <3> QED
      BY <3>1, <3>2 DEF QueueShape
  <2>2. CallShape
    BY DEF CallShape
  <2>3. ReaderShape
    BY DEF ReaderShape
  <2> QED
    BY <2>1, <2>2, <2>3
<1>3. PipeShape /\ ThreadShape /\ MutexHeld
  BY DEF PipeShape, ThreadShape, MutexHeld, Codecs
<1>4. NoStalePacket
  BY DEF NoStalePacket
<1>5. AllNumbered
  BY <1>1 DEF AllNumbered, PacketsIn
<1>6. Pipeline
  BY <1>1 DEF Pipeline, Codecs
<1>7. Coded
  BY DEF Coded, Torn, At, Codecs
<1> QED
  BY <1>2, <1>3, <1>4, <1>5, <1>6, <1>7 DEF IInv, TypeOK

LEMMA IInvStep ==
  ASSUME IInv, [Next]_vars
  PROVE  IInv'
<1>1. TypeOK /\ NoStalePacket /\ AllNumbered /\ Pipeline /\ Coded
  BY DEF IInv
<1>2. QueueShape' /\ CallShape' /\ ReaderShape' /\ PipeShape' /\ ThreadShape'
  BY <1>1, QueueShapeStep, CallShapeStep, ReaderShapeStep, PipeShapeStep,
     ThreadShapeStep DEF TypeOK
<1>3. MutexHeld' /\ Pipeline'
  BY <1>1, PipelineStep
<1>4. NoStalePacket' /\ AllNumbered' /\ Coded'
  BY <1>1, StaleStep, NumberedStep, CodedStep
<1> QED
  BY <1>2, <1>3, <1>4 DEF IInv, TypeOK

LEMMA Invariance == Spec => []IInv
<1>1. IInv /\ [Next]_vars => IInv'
  BY IInvStep
<1> QED
  BY <1>1, InitIInv, PTL DEF Spec

(* The state keeps its shape, and omx_active_mutex is held by the thread   *)
(* whose place in the code says so: the audio codec thread over one item   *)
(* of its queue, the video codec thread from a teardown to the next setup  *)
(* (avcodec_omx.c), for any number of starts, messages and packets.        *)
THEOREM OmxTypes == Spec => []TypeOK
<1>1. IInv => TypeOK
  BY DEF IInv
<1> QED
  BY <1>1, Invariance, PTL

(* Nothing is fed to a pipeline that is not there, no packet of an earlier *)
(* start is queued behind the next new channel, and a packet of the        *)
(* running start meets a pipeline of its own coding, though vcodectype is  *)
(* written by a reader thread and read twice by the codec thread without a *)
(* lock (codec_stop0, acodec_omx_thread, vcodec_omx_thread).  A message    *)
(* for the picture may go to a renderer that is not there, and the program *)
(* end of it, but where the thread's coding says that there is none, and   *)
(* with the mutex.                                                         *)
THEOREM NothingDeadIsFed == Spec => []NoDeadFeed
<1>1. IInv => NoDeadFeed
  <2> SUFFICES ASSUME IInv PROVE NoDeadFeed
    OBVIOUS
  <2>1. TypeOK /\ NoStalePacket /\ Pipeline /\ Coded
    BY DEF IInv
  <2>2. At("audio", "act") => pipe # None
    BY <2>1 DEF At, TypeOK, MutexHeld, Pipeline
  <2>3. At("video", "feed") => pipe # None
    BY <2>1 DEF At, Pipeline
  <2>4. Crashed => coding = None /\ omx_active_mutex = "video"
    BY <2>1 DEF Crashed, At, TypeOK, MutexHeld, Pipeline
  <2> QED
    BY <2>1, <2>2, <2>3, <2>4 DEF NoDeadFeed, Coded
<1> QED
  BY <1>1, Invariance, PTL

-----------------------------------------------------------------------------
(* OmxPipeline.  What a script is to do is known when it is made; what is  *)
(* left of it and what the components were told tell at every step which   *)
(* of its commands have been carried out.                                  *)

(* The ports and the components they belong to, and those with a tunnel.   *)
Owner(p) ==
  CASE p \in {"130", "131"} -> "decode"
    [] p \in {"10", "11", "12"} -> "scheduler"
    [] p = "90" -> "render"
    [] p \in {"100", "101"} -> "audio"
    [] p \in {"80", "81"} -> "clock"
Tunnels == {"131", "10", "11", "12", "90", "101", "80", "81"}
Ports == Tunnels \cup Omx!Fed

Kinds == {"state", "flush", "enable", "disable"}
Params == Ports \cup {"idle", "executing", "loaded"}
Commands == [kind : Kinds, param : Params]
Fits(c, k) == k.kind \in {"enable", "disable"} => k.param \in Ports /\ Owner(k.param) = c

(* The steps of scripts; those that open no port but these, and shut no    *)
(* tunnel down; those that open none at all.                               *)
Steps ==
  {s \in [op : {"begin", "finish", "fire", "alloc", "free", "untunnel"}, c : Omx!Components,
          cmd : [kind : Kinds \cup {"none"}, param : Params]] :
     /\ s.op \in {"begin", "finish", "fire"} => s.cmd \in Commands
     /\ Fits(s.c, s.cmd)
     /\ s.op = "alloc" => s.cmd.param \in Omx!Fed
     /\ s.op = "untunnel" => s.cmd.param \in Tunnels}
Enables(s) == s.op \in {"begin", "fire"} /\ s.cmd.kind = "enable"
Connecting(P) == {s \in Steps : s.op # "untunnel" /\ (Enables(s) => s.cmd.param \in P)}
Closing == {s \in Steps : ~Enables(s)}

(* Between the two halves of a command that is waited for there are at     *)
(* most buffers to be moved.                                               *)
OnlyMoves(s, m, n) == \A i \in m .. n : s[i].op \in {"alloc", "free"}
Opens(s, j, i) ==
  /\ s[j].op = "begin" /\ s[j].c = s[i].c /\ s[j].cmd = s[i].cmd
  /\ OnlyMoves(s, j + 1, i - 1)
Paired(s) == \A i \in 1 .. Len(s) : s[i].op = "finish" => \E j \in 1 .. i - 1 : Opens(s, j, i)
Good(A) == {s \in Seq(A) : Paired(s)}
Holds(s, x) == \E j \in 1 .. Len(s) : s[j] = x

-----------------------------------------------------------------------------
LEMMA Concatenated ==
  ASSUME NEW A, NEW s \in Seq(A), NEW t \in Seq(A)
  PROVE  /\ s \o t \in Seq(A) /\ Len(s \o t) = Len(s) + Len(t) /\ Len(s) \in Nat /\ Len(t) \in Nat
         /\ \A i \in 1 .. Len(s) : (s \o t)[i] = s[i]
         /\ \A i \in Len(s) + 1 .. Len(s) + Len(t) : (s \o t)[i] = t[i - Len(s)]
  OBVIOUS

LEMMA GoodConcatenated ==
  ASSUME NEW A
  PROVE  \A s, t \in Good(A) : s \o t \in Good(A)
<1> SUFFICES ASSUME NEW s \in Good(A), NEW t \in Good(A)
             PROVE  s \o t \in Good(A)
  OBVIOUS
<1> DEFINE r == s \o t
           n == Len(s)
<1>1. s \in Seq(A) /\ t \in Seq(A) /\ Paired(s) /\ Paired(t)
  BY DEF Good
<1>2. /\ r \in Seq(A) /\ Len(r) = n + Len(t) /\ n \in Nat /\ Len(t) \in Nat
      /\ \A i \in 1 .. n : r[i] = s[i]
      /\ \A i \in n + 1 .. n + Len(t) : r[i] = t[i - n]
  BY <1>1, Concatenated
<1> HIDE DEF r, n
<1>3. ASSUME NEW i \in 1 .. Len(r), r[i].op = "finish"
      PROVE  \E j \in 1 .. i - 1 : Opens(r, j, i)
  <2>1. CASE i <= n
    <3>1. i \in 1 .. n /\ r[i] = s[i]
      BY <1>2, <2>1
    <3>2. PICK j \in 1 .. i - 1 : Opens(s, j, i)
      BY <1>1, <1>3, <3>1 DEF Paired, n
    <3>3. j \in 1 .. n /\ r[j] = s[j] /\ \A m \in j + 1 .. i - 1 : r[m] = s[m]
      BY <1>2, <3>1
    <3> QED
      BY <3>1, <3>2, <3>3 DEF Opens, OnlyMoves
  <2>2. CASE i > n
    <3>1. i - n \in 1 .. Len(t) /\ r[i] = t[i - n]
      BY <1>2, <2>2
    <3>2. PICK k \in 1 .. (i - n) - 1 : Opens(t, k, i - n)
      BY <1>1, <1>3, <3>1 DEF Paired
    <3>3. k + n \in 1 .. i - 1 /\ r[k + n] = t[k] /\ (k + n) - n = k
      BY <1>2, <3>1
    <3>4. ASSUME NEW m \in (k + n) + 1 .. i - 1
          PROVE  r[m].op \in {"alloc", "free"}
      <4>1. m - n \in k + 1 .. (i - n) - 1 /\ r[m] = t[m - n]
        BY <1>2, <3>1
      <4> QED
        BY <3>2, <4>1 DEF Opens, OnlyMoves
    <3> QED
      BY <3>1, <3>2, <3>3, <3>4 DEF Opens, OnlyMoves
  <2> QED
    BY <1>2, <2>1, <2>2
<1> QED
  BY <1>2, <1>3 DEF Good, Paired, r

LEMMA HoldsConcatenated ==
  ASSUME NEW A, NEW s \in Seq(A), NEW t \in Seq(A), NEW x, Holds(s, x) \/ Holds(t, x)
  PROVE  Holds(s \o t, x)
<1>1. CASE Holds(s, x)
  BY <1>1, Concatenated DEF Holds
<1>2. CASE Holds(t, x)
  <2>1. PICK j \in 1 .. Len(t) : t[j] = x
    BY <1>2 DEF Holds
  <2>2. j + Len(s) \in Len(s) + 1 .. Len(s) + Len(t) /\ (j + Len(s)) - Len(s) = j
        /\ j + Len(s) \in 1 .. Len(s) + Len(t)
    BY Concatenated
  <2> QED
    BY <2>1, <2>2, Concatenated DEF Holds
<1> QED
  BY <1>1, <1>2

(* The pieces of scripts. *)
LEMMA Pieces ==
  ASSUME NEW P,
         NEW c \in Omx!Components, NEW kind \in Kinds, NEW param \in Params,
         Fits(c, Omx!Command(kind, param)), kind = "enable" => param \in P
  PROVE  /\ Omx!Do(c, kind, param) \in Good(Connecting(P))
         /\ Omx!Fire(c, kind, param) \in Good(Connecting(P))
         /\ Holds(Omx!Do(c, kind, param), Omx!Finish(c, kind, param))
<1> DEFINE A == Connecting(P)
           b == Omx!Begin(c, kind, param)
           f == Omx!Finish(c, kind, param)
           x == Omx!Step("fire", c, kind, param)
<1>1. b \in A /\ f \in A /\ x \in A
  BY DEF Omx!Begin, Omx!Finish, Omx!Step, Omx!Command, Connecting, Steps,
         Enables, Commands, Kinds, Fits
<1>2. b.op = "begin" /\ f.op = "finish" /\ x.op = "fire" /\ b.c = f.c /\ b.cmd = f.cmd
  BY DEF Omx!Begin, Omx!Finish, Omx!Step
<1> HIDE DEF A, b, f, x
<1>3. <<b, f>> \in Seq(A) /\ Len(<<b, f>>) = 2 /\ <<b, f>>[1] = b /\ <<b, f>>[2] = f
  BY <1>1
<1>4. Paired(<<b, f>>)
  <2>1. Opens(<<b, f>>, 1, 2)
    BY <1>2, <1>3 DEF Opens, OnlyMoves
  <2>2. 1 .. 2 = {1, 2} /\ 1 \in 1 .. 2 - 1
    OBVIOUS
  <2> QED
    BY <1>2, <1>3, <2>1, <2>2 DEF Paired
<1>5. <<x>> \in Good(A)
  <2>1. <<x>> \in Seq(A)
    BY <1>1
  <2>2. \A i \in 1 .. Len(<<x>>) : <<x>>[i] = x
    OBVIOUS
  <2> QED
    BY <1>2, <2>1, <2>2 DEF Good, Paired
<1>6. Holds(<<b, f>>, f)
  BY <1>3 DEF Holds
<1> QED
  BY <1>3, <1>4, <1>5, <1>6 DEF Good, Omx!Do, Omx!Fire, A, b, f, x

LEMMA BufferPieces ==
  ASSUME NEW P,
         NEW c \in Omx!Components, NEW param \in Omx!Fed, Owner(param) = c
  PROVE  /\ param \in P => Omx!WithBuffers(c, param) \in Good(Connecting(P))
         /\ Omx!WithoutBuffers(c, param) \in Good(Connecting(P))
<1>1. ASSUME NEW kind \in {"enable", "disable"}, NEW op \in {"alloc", "free"},
             kind = "enable" => param \in P
      PROVE  <<Omx!Begin(c, kind, param)>> \o <<Omx!Step(op, c, "none", param)>> \o <<Omx!Finish(c, kind, param)>>
               \in Good(Connecting(P))
  <2> DEFINE A == Connecting(P)
             b == Omx!Begin(c, kind, param)
             f == Omx!Finish(c, kind, param)
             x == Omx!Step(op, c, "none", param)
  <2>0. kind \in Kinds /\ param \in Params /\ param \in Ports /\ kind # "none"
    <3>1. kind = "enable" \/ kind = "disable"
      OBVIOUS
    <3>3. kind \in Kinds /\ kind # "none"
      BY <3>1 DEF Kinds
    <3> QED
      BY <3>3 DEF Ports, Params
  <2>1. Fits(c, Omx!Command(kind, param)) /\ Fits(c, Omx!Command("none", param))
    BY <1>1, <2>0 DEF Fits, Omx!Command
  <2>7. b \in A /\ f \in A
    BY <1>1, <2>0, <2>1 DEF Omx!Begin, Omx!Finish, Omx!Step, Omx!Command,
                            Connecting, Steps, Enables, Commands
  <2>8. x \in A
    BY <1>1, <2>0, <2>1 DEF Omx!Step, Omx!Command, Connecting, Steps, Enables
  <2>2. b.op = "begin" /\ f.op = "finish" /\ x.op = op /\ b.c = f.c /\ b.cmd = f.cmd
    BY DEF Omx!Begin, Omx!Finish, Omx!Step
  <2> HIDE DEF A, b, f, x
  <2> DEFINE s == <<b>> \o <<x>> \o <<f>>
  <2>3. s \in Seq(A) /\ Len(s) = 3 /\ s[1] = b /\ s[2] = x /\ s[3] = f
    <3>1. \A y \in A : <<y>> \in Seq(A) /\ Len(<<y>>) = 1 /\ <<y>>[1] = y
      OBVIOUS
    <3>2. /\ <<b>> \o <<x>> \in Seq(A) /\ Len(<<b>> \o <<x>>) = 2
          /\ (<<b>> \o <<x>>)[1] = b /\ (<<b>> \o <<x>>)[2] = x
      BY <2>7, <2>8, <3>1, Concatenated
    <3> QED
      BY <2>7, <3>1, <3>2, Concatenated
  <2> HIDE DEF s
  <2>4. Opens(s, 1, 3)
    <3>1. \A m \in 1 + 1 .. 3 - 1 : m = 2
      OBVIOUS
    <3> QED
      BY <2>2, <2>3, <3>1 DEF Opens, OnlyMoves
  <2>5. Paired(s)
    <3>1. 1 .. 3 = {1, 2, 3} /\ 1 \in 1 .. 3 - 1
      OBVIOUS
    <3> QED
      BY <2>2, <2>3, <2>4, <3>1 DEF Paired
  <2> QED
    BY <2>3, <2>5 DEF Good, A, b, f, x, s
<1> QED
  BY <1>1 DEF Omx!WithBuffers, Omx!WithoutBuffers, Omx!Alloc, Omx!Free

(* What may be said of a step of any script, and of all pieces at once.    *)
LEMMA AllPieces ==
  ASSUME NEW P, NEW G, G = Good(Connecting(P))
  PROVE  /\ \A s, t \in G : s \o t \in G
         /\ \A c \in Omx!Components, kind \in {"state", "flush"}, param \in Params :
              Omx!Do(c, kind, param) \in G
         /\ \A param \in Ports : /\ Omx!Do(Owner(param), "disable", param) \in G
                                 /\ Omx!Fire(Owner(param), "disable", param) \in G
         /\ \A param \in P \cap Ports : /\ Omx!Do(Owner(param), "enable", param) \in G
                                        /\ Omx!Fire(Owner(param), "enable", param) \in G
<1>1. \A s, t \in G : s \o t \in G
  BY GoodConcatenated
<1>2. ASSUME NEW c \in Omx!Components, NEW kind \in {"state", "flush"}, NEW param \in Params
      PROVE  Omx!Do(c, kind, param) \in G
  <2>1. kind \in Kinds /\ kind # "enable" /\ Fits(c, Omx!Command(kind, param))
    BY DEF Kinds, Fits, Omx!Command
  <2> QED
    BY <2>1, Pieces
<1>3. ASSUME NEW param \in Ports, NEW kind \in {"enable", "disable"}, kind = "enable" => param \in P
      PROVE  Omx!Do(Owner(param), kind, param) \in G /\ Omx!Fire(Owner(param), kind, param) \in G
  <2>1. kind \in Kinds /\ Fits(Owner(param), Omx!Command(kind, param)) /\ param \in Params
    BY DEF Kinds, Fits, Omx!Command, Params
  <2>2. Owner(param) \in Omx!Components
    BY DEF Owner, Ports, Tunnels, Omx!Fed, Omx!Components
  <2> QED
    BY <1>3, <2>1, <2>2, Pieces
<1> QED
  BY <1>1, <1>2, <1>3

SetupPorts == {"100", "80", "12", "81", "101", "130"}
LEMMA SetupIsGood == Omx!SetupScript \in Good(Connecting(SetupPorts))
<1> DEFINE G == Good(Connecting(SetupPorts))
<1>1. /\ \A s, t \in G : s \o t \in G
      /\ \A c \in Omx!Components, kind \in {"state", "flush"}, param \in Params :
           Omx!Do(c, kind, param) \in G
      /\ \A param \in SetupPorts \cap Ports : Omx!Fire(Owner(param), "enable", param) \in G
  BY AllPieces
<1>2. Omx!WithBuffers("audio", "100") \in G /\ Omx!WithBuffers("decode", "130") \in G
  BY BufferPieces DEF SetupPorts, Omx!Fed, Owner, Omx!Components
<1> HIDE DEF G
<1>3. /\ Omx!Do("audio", "state", "idle") \in G /\ Omx!Do("clock", "state", "idle") \in G
      /\ Omx!Do("scheduler", "state", "idle") \in G /\ Omx!Do("clock", "state", "executing") \in G
      /\ Omx!Do("decode", "state", "idle") \in G /\ Omx!Do("decode", "state", "executing") \in G
      /\ Omx!Do("audio", "state", "executing") \in G
  BY <1>1 DEF Omx!Components, Params
<1>4. /\ Omx!Fire("clock", "enable", "80") \in G /\ Omx!Fire("scheduler", "enable", "12") \in G
      /\ Omx!Fire("clock", "enable", "81") \in G /\ Omx!Fire("audio", "enable", "101") \in G
  BY <1>1 DEF SetupPorts, Ports, Tunnels, Owner
<1>5. Omx!SetupScript \in G
  BY <1>1, <1>2, <1>3, <1>4 DEF Omx!SetupScript
<1> QED
  BY <1>5 DEF G

LEMMA ConnectionsAreGood ==
  /\ Omx!DecoderScript \in Good(Connecting({"131", "10"}))
  /\ Omx!SchedulerScript \in Good(Connecting({"11", "90"}))
<1>1. Omx!DecoderScript \in Good(Connecting({"131", "10"}))
  <2> DEFINE G == Good(Connecting({"131", "10"}))
  <2>1. /\ \A s, t \in G : s \o t \in G
        /\ \A c \in Omx!Components, kind \in {"state", "flush"}, param \in Params :
             Omx!Do(c, kind, param) \in G
        /\ \A param \in {"131", "10"} \cap Ports : Omx!Do(Owner(param), "enable", param) \in G
    BY AllPieces
  <2> HIDE DEF G
  <2>2. /\ Omx!Do("decode", "enable", "131") \in G /\ Omx!Do("scheduler", "enable", "10") \in G
        /\ Omx!Do("scheduler", "state", "executing") \in G /\ Omx!Do("render", "state", "idle") \in G
    BY <2>1 DEF Omx!Components, Params, Ports, Tunnels, Owner
  <2>3. Omx!DecoderScript \in G
    BY <2>1, <2>2 DEF Omx!DecoderScript
  <2> QED
    BY <2>3 DEF G
<1>2. Omx!SchedulerScript \in Good(Connecting({"11", "90"}))
  <2> DEFINE G == Good(Connecting({"11", "90"}))
  <2>1. /\ \A s, t \in G : s \o t \in G
        /\ \A c \in Omx!Components, kind \in {"state", "flush"}, param \in Params :
             Omx!Do(c, kind, param) \in G
        /\ \A param \in {"11", "90"} \cap Ports : Omx!Do(Owner(param), "enable", param) \in G
    BY AllPieces
  <2> HIDE DEF G
  <2>2. /\ Omx!Do("scheduler", "enable", "11") \in G /\ Omx!Do("render", "enable", "90") \in G
        /\ Omx!Do("render", "state", "executing") \in G
    BY <2>1 DEF Omx!Components, Params, Ports, Tunnels, Owner
  <2>3. Omx!SchedulerScript \in G
    BY <2>1, <2>2 DEF Omx!SchedulerScript
  <2> QED
    BY <2>3 DEF G
<1> QED
  BY <1>1, <1>2

(* What the teardown does before the tunnels: it enables nothing and       *)
(* shuts no tunnel down, but disables the ports that may be enabled.       *)
Emptying == Omx!IdleScript \o Omx!FlushScript \o Omx!DisableScript
Disabled(p) == Omx!Finish(Owner(p), "disable", p)
LEMMA EmptyingIsGood ==
  /\ Emptying \in Good(Connecting({}))
  /\ \A p \in {"101", "12"} : Holds(Emptying, Disabled(p))
  /\ changed["scheduler"] = 2 => \A p \in {"11", "90", "10"} : Holds(Emptying, Disabled(p))
  /\ changed["decode"] = 2 => Holds(Emptying, Disabled("131"))
<1> DEFINE G == Good(Connecting({}))
<1>1. /\ \A s, t \in G : s \o t \in G
      /\ \A c \in Omx!Components, kind \in {"state", "flush"}, param \in Params :
           Omx!Do(c, kind, param) \in G
      /\ \A param \in Ports : /\ Omx!Do(Owner(param), "disable", param) \in G
                              /\ Omx!Fire(Owner(param), "disable", param) \in G
  BY AllPieces
<1>2. Omx!WithoutBuffers("audio", "100") \in G /\ Omx!WithoutBuffers("decode", "130") \in G
  BY BufferPieces DEF Omx!Fed, Owner, Omx!Components
<1>3. <<>> \in G
  BY DEF Good, Paired
<1>4. \A s, t \in G : \A x : Holds(s, x) \/ Holds(t, x) => Holds(s \o t, x)
  BY HoldsConcatenated DEF Good
<1>5. \A p \in Ports : Holds(Omx!Do(Owner(p), "disable", p), Disabled(p))
  <2>1. \A p \in Ports : Fits(Owner(p), Omx!Command("disable", p)) /\ p \in Params
    BY DEF Fits, Omx!Command, Params
  <2>2. \A p \in Ports : Owner(p) \in Omx!Components
    BY DEF Owner, Ports, Tunnels, Omx!Fed, Omx!Components
  <2>3. "disable" \in Kinds /\ "disable" # "enable"
    BY DEF Kinds
  <2> QED
    BY <2>1, <2>2, <2>3, Pieces DEF Disabled
<1> HIDE DEF G
<1>6. \A p \in Params : /\ Omx!Do("decode", "flush", p) \in G /\ Omx!Do("audio", "flush", p) \in G
                        /\ Omx!Do("scheduler", "flush", p) \in G /\ Omx!Do("render", "flush", p) \in G
                        /\ Omx!Do("clock", "flush", p) \in G
  BY <1>1 DEF Omx!Components
<1>7. Omx!FlushScript \in G
  <2>1. {"130", "100", "131", "10", "11", "90", "81", "12", "80", "101"} \subseteq Params
    BY DEF Params, Ports, Tunnels, Omx!Fed
  <2>2. /\ Omx!FlushTunnel("decode", "131", "scheduler", "10") \in G
        /\ Omx!FlushTunnel("scheduler", "11", "render", "90") \in G
        /\ Omx!FlushTunnel("clock", "81", "scheduler", "12") \in G
        /\ Omx!FlushTunnel("clock", "80", "audio", "101") \in G
    BY <1>1, <1>6, <2>1 DEF Omx!FlushTunnel
  <2>3. /\ Omx!Do("decode", "flush", "130") \in G /\ Omx!Do("audio", "flush", "100") \in G
        /\ Omx!Do("scheduler", "flush", "10") \in G
    BY <1>6, <2>1
  <2> QED
    BY <1>1, <2>2, <2>3 DEF Omx!FlushScript
<1>8. Omx!IdleScript \in G
  <2>1. \A c \in Omx!Components : Omx!Do(c, "state", "idle") \in G
    BY <1>1 DEF Params
  <2> QED
    BY <1>1, <1>3, <2>1 DEF Omx!IdleScript, Omx!When, Omx!Components
<1>9. /\ Omx!Do("scheduler", "disable", "11") \in G /\ Omx!Do("render", "disable", "90") \in G
      /\ Omx!Do("scheduler", "disable", "10") \in G /\ Omx!Do("decode", "disable", "131") \in G
      /\ Omx!Do("audio", "disable", "101") \in G /\ Omx!Do("scheduler", "disable", "12") \in G
      /\ Omx!Fire("clock", "disable", "80") \in G /\ Omx!Fire("clock", "disable", "81") \in G
  BY <1>1 DEF Ports, Tunnels, Owner
<1>10. /\ Holds(Omx!Do("scheduler", "disable", "11"), Disabled("11"))
       /\ Holds(Omx!Do("render", "disable", "90"), Disabled("90"))
       /\ Holds(Omx!Do("scheduler", "disable", "10"), Disabled("10"))
       /\ Holds(Omx!Do("decode", "disable", "131"), Disabled("131"))
       /\ Holds(Omx!Do("audio", "disable", "101"), Disabled("101"))
       /\ Holds(Omx!Do("scheduler", "disable", "12"), Disabled("12"))
  BY <1>5 DEF Ports, Tunnels, Owner
<1>11. /\ Omx!ClockScript \in G
       /\ Holds(Omx!ClockScript, Disabled("101")) /\ Holds(Omx!ClockScript, Disabled("12"))
  BY <1>1, <1>4, <1>9, <1>10 DEF Omx!ClockScript
<1> DEFINE sched == Omx!Do("scheduler", "disable", "11") \o Omx!Do("render", "disable", "90")
                      \o Omx!Do("scheduler", "disable", "10")
           a == Omx!WithoutBuffers("audio", "100")
           b == Omx!When(changed["scheduler"] = 2, sched)
           c == Omx!ClockScript
           d == Omx!When(changed["decode"] = 2, Omx!Do("decode", "disable", "131"))
           e == Omx!WithoutBuffers("decode", "130")
<1>12. /\ sched \in G
       /\ Holds(sched, Disabled("11")) /\ Holds(sched, Disabled("90"))
       /\ Holds(sched, Disabled("10"))
  BY <1>1, <1>4, <1>9, <1>10
<1> HIDE DEF sched
<1>13. /\ b \in G /\ d \in G
       /\ changed["scheduler"] = 2 => b = sched
       /\ changed["decode"] = 2 => d = Omx!Do("decode", "disable", "131")
  BY <1>3, <1>9, <1>12 DEF Omx!When
<1>14. Omx!DisableScript = a \o b \o c \o d \o e
  BY DEF Omx!DisableScript, sched
<1> HIDE DEF a, b, c, d, e
<1>15. /\ a \in G /\ c \in G /\ e \in G
       /\ Holds(c, Disabled("101")) /\ Holds(c, Disabled("12"))
  BY <1>2, <1>11 DEF a, c, e
<1>16. /\ a \o b \in G /\ a \o b \o c \in G /\ a \o b \o c \o d \in G
       /\ Omx!DisableScript \in G
  BY <1>1, <1>13, <1>14, <1>15
<1>17. \A x : Holds(b, x) \/ Holds(c, x) \/ Holds(d, x) => Holds(Omx!DisableScript, x)
  BY <1>4, <1>13, <1>14, <1>15, <1>16
<1>18. Omx!IdleScript \o Omx!FlushScript \in G
  BY <1>1, <1>7, <1>8
<1>19. /\ Emptying \in G
       /\ \A x : Holds(Omx!DisableScript, x) => Holds(Emptying, x)
  BY <1>1, <1>4, <1>16, <1>18 DEF Emptying
<1>20. /\ Holds(Omx!DisableScript, Disabled("101")) /\ Holds(Omx!DisableScript, Disabled("12"))
  BY <1>15, <1>17
<1>21. changed["scheduler"] = 2 =>
         /\ Holds(Omx!DisableScript, Disabled("11")) /\ Holds(Omx!DisableScript, Disabled("90"))
         /\ Holds(Omx!DisableScript, Disabled("10"))
  BY <1>12, <1>13, <1>17
<1>22. changed["decode"] = 2 => Holds(Omx!DisableScript, Disabled("131"))
  BY <1>10, <1>13, <1>17
<1> QED
  BY <1>19, <1>20, <1>21, <1>22 DEF G

(* Behind that, the tunnels are shut down and the components unloaded.     *)
LEMMA EndingIsGood ==
  Omx!UntunnelScript \in Good(Closing) /\ Omx!LoadedScript \in Good(Closing)
<1> DEFINE G == Good(Closing)
<1>1. \A s, t \in G : s \o t \in G
  BY GoodConcatenated
<1>2. ASSUME NEW c \in Omx!Components, NEW p \in Tunnels
      PROVE  Omx!Untunnel(c, p) \in G
  <2> DEFINE x == Omx!Step("untunnel", c, "none", p)
  <2>1. x \in Closing
    <3>1. p \in Params
      BY DEF Params, Ports
    <3> QED
      BY <3>1 DEF Closing, Steps, Omx!Step, Omx!Command, Fits, Enables
  <2>2. x.op # "finish"
    BY DEF Omx!Step
  <2> HIDE DEF x
  <2>3. <<x>> \in Seq(Closing)
    BY <2>1
  <2>4. \A i \in 1 .. Len(<<x>>) : <<x>>[i] = x
    OBVIOUS
  <2>5. <<x>> \in G
    BY <2>2, <2>3, <2>4 DEF Good, Paired
  <2> QED
    BY <2>5 DEF Omx!Untunnel, x
<1>3. ASSUME NEW c \in Omx!Components
      PROVE  Omx!Do(c, "state", "loaded") \in G
  <2>1. Omx!Do(c, "state", "loaded") \in Good(Connecting({}))
    BY AllPieces DEF Params
  <2>2. Connecting({}) \subseteq Closing
    BY DEF Connecting, Closing
  <2> QED
    BY <2>1, <2>2 DEF Good
<1> HIDE DEF G
<1>4. Omx!UntunnelScript \in G
  <2>1. /\ Omx!Untunnel("scheduler", "10") \in G /\ Omx!Untunnel("scheduler", "11") \in G
        /\ Omx!Untunnel("render", "90") \in G /\ Omx!Untunnel("clock", "81") \in G
        /\ Omx!Untunnel("scheduler", "12") \in G /\ Omx!Untunnel("clock", "80") \in G
        /\ Omx!Untunnel("audio", "101") \in G /\ Omx!Untunnel("decode", "131") \in G
    BY <1>2 DEF Omx!Components, Tunnels
  <2> QED
    BY <1>1, <2>1 DEF Omx!UntunnelScript
<1>5. Omx!LoadedScript \in G
  <2>1. /\ Omx!Do("decode", "state", "loaded") \in G /\ Omx!Do("scheduler", "state", "loaded") \in G
        /\ Omx!Do("audio", "state", "loaded") \in G /\ Omx!Do("clock", "state", "loaded") \in G
    BY <1>3 DEF Omx!Components
  <2> QED
    BY <1>1, <2>1 DEF Omx!LoadedScript
<1> QED
  BY <1>4, <1>5 DEF G

-----------------------------------------------------------------------------
(* The inductive invariant.  Ports that may be enabled or be about to be.  *)
Openable ==
  {p \in Ports : \/ p \in SetupPorts
                 \/ p \in {"131", "10"} /\ changed["decode"] = 2
                 \/ p \in {"11", "90"} /\ changed["scheduler"] = 2}
PipeTypes ==
  /\ mode \in {"down", "setup", "up", "teardown", "exited"}
  /\ cmd \in [Omx!Components -> Commands \cup {Omx!Nothing}]
  /\ pending \in [Omx!Components -> SUBSET Commands]
  /\ \A c \in Omx!Components : cmd[c] # Omx!Nothing => cmd[c] \in pending[c]
  /\ \A c \in Omx!Components : \A k \in pending[c] : Fits(c, k)
PipeFlags ==
  /\ populated \subseteq Omx!Fed /\ errored \subseteq Faulty
  /\ changed \in [{"decode", "scheduler"} -> 0 .. 2]
  /\ changed["scheduler"] # 0 => changed["decode"] = 2
  /\ get \in {"idle", "scan", "none", "waiting", "have", "decoder", "scheduler"}
  /\ buf_notempty \in BOOLEAN /\ inside \in 0 .. Buffers /\ emptied \in BOOLEAN
  /\ get \in {"have", "decoder", "scheduler"} => inside < Buffers
PipeScript ==
  /\ mode \in {"setup", "up"} => script \in Seq(Connecting(Openable))
  /\ mode = "teardown" => script \in Seq(Closing)
  /\ mode \in {"down", "exited"} => script = <<>>
PipeShut == \A p \in Ports \ Openable : Omx!Gone(p)

(* A command that is waited for: the component has it in hand or is done   *)
(* with it, and a port that was to be disabled is, with the other end of   *)
(* the clock's tunnel.                                                     *)
Shut(p) == Omx!Gone(p) /\ (p = "101" => Omx!Gone("80")) /\ (p = "12" => Omx!Gone("81"))
Underway(c, k) ==
  \/ cmd[c] = k
  \/ k \notin pending[c] /\ (k.kind = "disable" /\ errored = {} => Shut(k.param))
PipeWaits ==
  \A i \in 1 .. Len(script) : script[i].op = "finish" =>
    \/ \E j \in 1 .. i - 1 : Opens(script, j, i)
    \/ OnlyMoves(script, 1, i - 1) /\ Underway(script[i].c, script[i].cmd)

(* A tunnel is shut down behind the end of the command that disables its   *)
(* port, or the port is not enabled.                                       *)
Shuts(s, p) ==
  /\ s.op = "finish" /\ s.cmd.kind = "disable"
  /\ \/ s.cmd.param = p
     \/ s.cmd.param = "101" /\ p = "80"
     \/ s.cmd.param = "12" /\ p = "81"
PipeTunnels ==
  mode = "teardown" /\ errored = {} =>
    \A i \in 1 .. Len(script) : script[i].op = "untunnel" =>
      \/ Omx!Gone(script[i].cmd.param)
      \/ Omx!HalfConnected /\ script[i].cmd.param = "10"
      \/ \E j \in 1 .. i - 1 : Shuts(script[j], script[i].cmd.param)
PipeInv ==
  PipeTypes /\ PipeFlags /\ PipeScript /\ PipeShut /\ PipeWaits /\ PipeTunnels

(* Steps that leave the script and what the components were told alone.    *)
Idle ==
  \/ Omx!Packet \/ Omx!Scan \/ Omx!NoneFree \/ Omx!Retry \/ Omx!EmptyThisBuffer \/ Omx!DecoderStep
  \/ \E c \in {"decode", "scheduler"} : Omx!PortSettingsChanged(c)
  \/ UNCHANGED Omx!vars
Pop == Omx!BeginCommand \/ Omx!FinishCommand \/ Omx!FireCommand \/ Omx!MoveBuffers
Answer == \E c \in Omx!Components : Omx!Complete(c) \/ Omx!Error(c)
Connects ==
  \/ Omx!Connect("have", "decode", "decoder", Omx!DecoderScript)
  \/ Omx!Connect("decoder", "scheduler", "scheduler", Omx!SchedulerScript)

LEMMA StepKinds ==
  ASSUME PipeFlags, [Omx!Next]_Omx!vars
  PROVE  \/ Omx!Setup \/ Omx!Teardown \/ Connects \/ Omx!ScriptEnds \/ Omx!EndTunnel
         \/ Pop \/ Answer \/ Idle
<1>1. DOMAIN changed = {"decode", "scheduler"}
  BY DEF PipeFlags
<1> QED
  BY <1>1 DEF Omx!Next, Omx!VideoStep, Connects, Pop, Answer, Idle

LEMMA IdleKeeps ==
  ASSUME PipeFlags, Idle
  PROVE  /\ UNCHANGED <<mode, script, cmd, pending, enabled, populated, errored>>
         /\ \/ UNCHANGED changed
            \/ \E c \in {"decode", "scheduler"} :
                  /\ changed[c] = 0 /\ changed' = [changed EXCEPT ![c] = 1]
                  /\ c = "scheduler" => "10" \in enabled
<1>1. CASE Omx!Packet \/ Omx!Scan \/ Omx!NoneFree \/ Omx!Retry \/ Omx!EmptyThisBuffer
  BY <1>1 DEF Omx!Packet, Omx!Scan, Omx!NoneFree, Omx!Retry,
              Omx!EmptyThisBuffer, Omx!Goes, Omx!FeedFrame, Omx!talk
<1>2. CASE Omx!DecoderStep
  BY <1>2 DEF Omx!DecoderStep, Omx!Emptied, Omx!EmptyBufferDone, Omx!talk
<1>3. CASE \E c \in {"decode", "scheduler"} : Omx!PortSettingsChanged(c)
  BY <1>3 DEF Omx!PortSettingsChanged, Omx!talk
<1>4. CASE UNCHANGED Omx!vars
  BY <1>4 DEF Omx!vars, Omx!talk
<1> QED
  BY <1>1, <1>2, <1>3, <1>4 DEF Idle

LEMMA TypesKept ==
  ASSUME PipeInv, [Omx!Next]_Omx!vars
  PROVE  PipeTypes'
<1> USE DEF PipeTypes
<1>0. PipeTypes /\ PipeFlags /\ PipeScript
  BY DEF PipeInv
<1>9. Omx!Nothing \notin Commands /\ \A c \in Omx!Components : pending[c] \subseteq Commands
  BY <1>0 DEF Omx!Nothing, Commands, Kinds
<1>1. CASE Omx!Setup
  <2>1. /\ mode' = "setup" /\ cmd' = [c \in Omx!Components |-> Omx!Nothing]
        /\ pending' = [c \in Omx!Components |-> {}]
    BY <1>1 DEF Omx!Setup
  <2> QED
    BY <2>1
<1>2. CASE Omx!Teardown \/ Connects \/ Omx!ScriptEnds \/ Omx!EndTunnel
  <2>1. UNCHANGED <<cmd, pending>>
    BY <1>2 DEF Omx!Teardown, Connects, Omx!Connect, Omx!ScriptEnds,
                Omx!EndTunnel, Omx!talk, Omx!FeedFrame
  <2>2. mode' \in {"down", "setup", "up", "teardown", "exited"}
    BY <1>0, <1>2 DEF Omx!Teardown, Connects, Omx!Connect, Omx!ScriptEnds,
                      Omx!EndTunnel, Omx!FeedFrame
  <2> QED
    BY <1>0, <2>1, <2>2
<1>3. CASE Pop
  <2>1. script # <<>> /\ mode' = mode
    BY <1>3 DEF Pop, Omx!BeginCommand, Omx!FinishCommand, Omx!FireCommand,
                Omx!MoveBuffers, Omx!Now
  <2>2. Omx!Current \in Steps
    <3>1. script \in Seq(Steps)
      BY <1>0, <2>1 DEF PipeScript, Connecting, Closing
    <3> QED
      BY <2>1, <3>1 DEF Omx!Current
  <2>3. CASE Omx!BeginCommand \/ Omx!FireCommand
    <3>1. /\ Omx!Current.c \in Omx!Components /\ Omx!Current.cmd \in Commands /\ Fits(Omx!Current.c, Omx!Current.cmd)
          /\ pending' = [pending EXCEPT ![Omx!Current.c] = @ \cup {Omx!Current.cmd}]
          /\ cmd' = [cmd EXCEPT ![Omx!Current.c] = Omx!Current.cmd] \/ cmd' = cmd
      BY <2>2, <2>3 DEF Omx!BeginCommand, Omx!FireCommand, Omx!Now, Steps,
                        Omx!Current
    <3>2. \A c \in Omx!Components : pending'[c] = IF c = Omx!Current.c THEN pending[c] \cup {Omx!Current.cmd}
                                                              ELSE pending[c]
      BY <1>0, <3>1
    <3>3. \A c \in Omx!Components : cmd'[c] = cmd[c] \/ (c = Omx!Current.c /\ cmd'[c] = Omx!Current.cmd)
      BY <1>0, <3>1
    <3>4. pending' \in [Omx!Components -> SUBSET Commands]
      BY <1>0, <3>1
    <3>5. cmd' \in [Omx!Components -> Commands \cup {Omx!Nothing}]
      BY <1>0, <3>1
    <3> QED
      BY <1>0, <2>1, <3>1, <3>2, <3>3, <3>4, <3>5
  <2>4. CASE Omx!FinishCommand \/ Omx!MoveBuffers
    <3>1. UNCHANGED <<cmd, pending>>
      BY <2>4 DEF Omx!FinishCommand, Omx!MoveBuffers, Omx!talk
    <3> QED
      BY <1>0, <2>1, <3>1
  <2> QED
    BY <1>3, <2>3, <2>4 DEF Pop
<1>4. CASE Answer
  <2>1. PICK c \in Omx!Components : Omx!Complete(c) \/ Omx!Error(c)
    BY <1>4 DEF Answer
  <2>2. PICK k : /\ pending' = [pending EXCEPT ![c] = @ \ {k}]
                 /\ cmd' = IF cmd[c] = k THEN [cmd EXCEPT ![c] = Omx!Nothing] ELSE cmd
    BY <2>1 DEF Omx!Complete, Omx!Error, Omx!Awaited
  <2>3. mode' = mode
    BY <2>1 DEF Omx!Complete, Omx!Error
  <2>4. \A b \in Omx!Components : pending'[b] = IF b = c THEN pending[b] \ {k} ELSE pending[b]
    BY <1>0, <2>2
  <2>5. \A b \in Omx!Components : cmd'[b] = IF b = c /\ cmd[b] = k THEN Omx!Nothing ELSE cmd[b]
    BY <1>0, <2>2
  <2>6. pending' \in [Omx!Components -> SUBSET Commands]
    BY <1>0, <2>2, <2>4
  <2>7. cmd' \in [Omx!Components -> Commands \cup {Omx!Nothing}]
    BY <1>0, <2>2
  <2> QED
    BY <1>0, <2>3, <2>4, <2>5, <2>6, <2>7
<1>5. CASE Idle
  <2>1. UNCHANGED <<mode, cmd, pending>>
    BY <1>0, <1>5, IdleKeeps
  <2> QED
    BY <1>0, <2>1
<1> QED
  BY <1>0, <1>1, <1>2, <1>3, <1>4, <1>5, StepKinds

LEMMA FlagsKept ==
  ASSUME PipeInv, [Omx!Next]_Omx!vars
  PROVE  PipeFlags'
<1> USE DEF PipeFlags
<1>0. PipeTypes /\ PipeFlags /\ PipeScript /\ PipeShut
  BY DEF PipeInv
<1>1. CASE Omx!Setup
  <2>1. changed' = [c \in {"decode", "scheduler"} |-> 0]
    BY <1>0, <1>1 DEF Omx!Setup
  <2> QED
    BY <1>0, <1>1, <2>1 DEF Omx!Setup
<1>2. CASE Omx!Teardown \/ Omx!ScriptEnds \/ Omx!EndTunnel
  BY <1>0, <1>2 DEF Omx!Teardown, Omx!ScriptEnds, Omx!EndTunnel, Omx!talk,
                    Omx!feed
<1>3. CASE Connects
  <2>1. PICK c \in {"decode", "scheduler"} :
          /\ changed' = changed \/ (changed[c] = 1 /\ changed' = [changed EXCEPT ![c] = 2])
    BY <1>3 DEF Connects, Omx!Connect
  <2>2. /\ changed' \in [{"decode", "scheduler"} -> 0 .. 2]
        /\ changed'["scheduler"] # 0 => changed'["decode"] = 2
    BY <1>0, <2>1
  <2>3. /\ UNCHANGED <<populated, errored, buf_notempty, inside, emptied>>
        /\ get \in {"have", "decoder"} /\ get' \in {"decoder", "scheduler"}
    BY <1>3 DEF Connects, Omx!Connect, Omx!Goes, Omx!FeedFrame, Omx!talk
  <2> QED
    BY <1>0, <2>2, <2>3
<1>4. CASE Pop
  <2>1. script # <<>>
    BY <1>4 DEF Pop, Omx!BeginCommand, Omx!FinishCommand, Omx!FireCommand,
                Omx!MoveBuffers, Omx!Now
  <2>2. Omx!Current \in Steps
    <3>1. script \in Seq(Steps)
      BY <1>0, <2>1 DEF PipeScript, PipeTypes, Connecting, Closing
    <3> QED
      BY <2>1, <3>1 DEF Omx!Current
  <2>3. UNCHANGED <<errored, changed, get, buf_notempty>>
    BY <1>4 DEF Pop, Omx!BeginCommand, Omx!FinishCommand, Omx!FireCommand,
                Omx!MoveBuffers, Omx!feed
  <2>4. CASE Omx!MoveBuffers
    <3>1. populated' \subseteq Omx!Fed
      BY <1>0, <2>2, <2>4 DEF Omx!MoveBuffers, Omx!Now, Steps, Omx!Current
    <3>2. UNCHANGED <<inside, emptied>> \/ (inside' = 0 /\ emptied' = FALSE)
      BY <2>4 DEF Omx!MoveBuffers
    <3>3. inside \in Nat /\ (inside < Buffers => 0 < Buffers) /\ 0 \in 0 .. Buffers
      BY <1>0, PipelineAssumption DEF PipelineAssumption
    <3> QED
      BY <1>0, <2>3, <3>1, <3>2, <3>3
  <2>5. CASE Omx!BeginCommand \/ Omx!FinishCommand \/ Omx!FireCommand
    <3>1. UNCHANGED <<populated, inside, emptied>>
      BY <2>5 DEF Omx!BeginCommand, Omx!FinishCommand, Omx!FireCommand,
                  Omx!feed, Omx!talk
    <3> QED
      BY <1>0, <2>3, <3>1
  <2> QED
    BY <1>4, <2>4, <2>5 DEF Pop
<1>5. CASE Answer
  <2>1. PICK c \in Omx!Components : Omx!Complete(c) \/ Omx!Error(c)
    BY <1>5 DEF Answer
  <2>2. /\ UNCHANGED <<populated, changed, get, buf_notempty, inside, emptied>>
        /\ errored' = errored \/ (c \in Faulty /\ errored' = errored \cup {c})
    BY <2>1 DEF Omx!Complete, Omx!Error, Omx!feed
  <2> QED
    BY <1>0, <2>2
<1>6. CASE Idle
  <2>1. populated' = populated /\ errored' = errored
    BY <1>0, <1>6, IdleKeeps
  <2>2. /\ changed' \in [{"decode", "scheduler"} -> 0 .. 2]
        /\ changed'["scheduler"] # 0 => changed'["decode"] = 2
    <3>1. CASE changed' = changed
      BY <1>0, <3>1
    <3>2. ASSUME NEW c \in {"decode", "scheduler"}, changed[c] = 0,
                 changed' = [changed EXCEPT ![c] = 1], c = "scheduler" => "10" \in enabled
          PROVE  /\ changed' \in [{"decode", "scheduler"} -> 0 .. 2]
                 /\ changed'["scheduler"] # 0 => changed'["decode"] = 2
      <4>1. "10" \in enabled => changed["decode"] = 2
        BY <1>0 DEF PipeShut, Omx!Gone, Openable, SetupPorts, Ports, Tunnels
      <4> QED
        BY <1>0, <3>2, <4>1
    <3> QED
      BY <1>0, <1>6, <3>1, <3>2, IdleKeeps
  <2>3. /\ get' \in {"idle", "scan", "none", "waiting", "have", "decoder", "scheduler"}
        /\ buf_notempty' \in BOOLEAN /\ inside' \in 0 .. Buffers /\ emptied' \in BOOLEAN
        /\ get' \in {"have", "decoder", "scheduler"} => inside' < Buffers
    <3> USE <1>0, PipelineAssumption DEF PipelineAssumption
    <3>1. CASE Omx!Packet \/ Omx!NoneFree \/ Omx!Retry
      BY <3>1 DEF Omx!Packet, Omx!NoneFree, Omx!Retry, Omx!Goes
    <3>2. CASE Omx!Scan
      BY <3>2 DEF Omx!Scan, Omx!Goes
    <3>3. CASE Omx!EmptyThisBuffer
      BY <3>3 DEF Omx!EmptyThisBuffer, Omx!Goes
    <3>4. CASE Omx!DecoderStep
      <4>1. CASE Omx!Emptied
        BY <4>1 DEF Omx!Emptied
      <4>2. CASE Omx!EmptyBufferDone
        BY <4>2 DEF Omx!EmptyBufferDone
      <4> QED
        BY <3>4, <4>1, <4>2 DEF Omx!DecoderStep
    <3>5. CASE \E c \in {"decode", "scheduler"} : Omx!PortSettingsChanged(c)
      BY <3>5 DEF Omx!PortSettingsChanged, Omx!feed
    <3>6. CASE UNCHANGED Omx!vars
      BY <3>6 DEF Omx!vars, Omx!feed
    <3> QED
      BY <1>6, <3>1, <3>2, <3>3, <3>4, <3>5, <3>6 DEF Idle
  <2> QED
    BY <1>0, <2>1, <2>2, <2>3
<1> QED
  BY <1>0, <1>1, <1>2, <1>3, <1>4, <1>5, <1>6, StepKinds

(* The first step of a script, and the rest.                               *)
LEMMA HeadAndTail ==
  ASSUME NEW A, NEW s \in Seq(A), s # <<>>
  PROVE  /\ Len(s) \in Nat \ {0} /\ 1 \in 1 .. Len(s) /\ Head(s) = s[1] /\ s[1] \in A
         /\ Tail(s) \in Seq(A) /\ Len(Tail(s)) = Len(s) - 1
         /\ \A i \in 1 .. Len(s) - 1 : Tail(s)[i] = s[i + 1]
<1>1. Len(s) \in Nat \ {0}
  BY EmptySeq
<1> QED
  BY <1>1

LEMMA PopKeeps ==
  ASSUME PipeInv, Pop \/ (Omx!EndTunnel /\ mode' = mode)
  PROVE  /\ script # <<>> /\ script' = Tail(script) /\ script \in Seq(Steps)
         /\ mode' = mode /\ changed' = changed /\ errored' = errored
         /\ mode \in {"setup", "up", "teardown"} /\ Omx!Current = script[1]
         /\ mode # "teardown" => script[1] \in Connecting(Openable)
         /\ mode = "teardown" => script[1] \in Closing
<1>1. script # <<>> /\ errored' = errored /\ changed' = changed
  BY DEF Pop, Omx!BeginCommand, Omx!FinishCommand, Omx!FireCommand,
         Omx!MoveBuffers, Omx!EndTunnel, Omx!Now
<1>2. mode' = mode
  BY DEF Pop, Omx!BeginCommand, Omx!FinishCommand, Omx!FireCommand,
         Omx!MoveBuffers
<1>3. mode \in {"setup", "up", "teardown"}
  BY <1>1 DEF PipeInv, PipeTypes, PipeScript
<1>4. script' = Tail(script)
  BY <1>3 DEF Pop, Omx!BeginCommand, Omx!FinishCommand, Omx!FireCommand,
              Omx!MoveBuffers, Omx!EndTunnel
<1>5. /\ mode # "teardown" => script \in Seq(Connecting(Openable))
      /\ mode = "teardown" => script \in Seq(Closing)
  BY <1>3 DEF PipeInv, PipeScript
<1>6. script \in Seq(Steps)
  BY <1>5 DEF Connecting, Closing
<1> QED
  BY <1>1, <1>2, <1>3, <1>4, <1>5, <1>6, HeadAndTail DEF Omx!Current

LEMMA ScriptKept ==
  ASSUME PipeInv, [Omx!Next]_Omx!vars
  PROVE  PipeScript'
<1>0. PipeTypes /\ PipeFlags /\ PipeScript
  BY DEF PipeInv
<1>1. \A A, B : A \subseteq B => Seq(A) \subseteq Seq(B)
  OBVIOUS
<1>2. \A P, Q : P \subseteq Q => Connecting(P) \subseteq Connecting(Q)
  BY DEF Connecting
<1>3. CASE Omx!Setup
  <2>1. SetupPorts \subseteq Openable'
    BY DEF Openable, SetupPorts, Ports, Tunnels, Omx!Fed
  <2>2. mode' = "setup" /\ script' \in Seq(Connecting(SetupPorts))
    BY <1>3, SetupIsGood DEF Omx!Setup, Good
  <2> QED
    BY <1>1, <1>2, <2>1, <2>2 DEF PipeScript
<1>4. CASE Omx!Teardown
  <2>1. mode' = "teardown" /\ script' = Omx!TeardownScript
    BY <1>4 DEF Omx!Teardown
  <2>2. Connecting({}) \subseteq Closing
    BY DEF Connecting, Closing
  <2>3. Emptying \in Seq(Closing) /\ Omx!UntunnelScript \in Seq(Closing) /\ Omx!LoadedScript \in Seq(Closing)
    BY <1>1, <2>2, EmptyingIsGood, EndingIsGood DEF Good
  <2>4. Omx!TeardownScript = Emptying \o Omx!UntunnelScript \o Omx!LoadedScript
    BY DEF Omx!TeardownScript, Emptying
  <2>5. Omx!TeardownScript \in Seq(Closing)
    BY <2>3, <2>4, Concatenated
  <2> QED
    BY <2>1, <2>5 DEF PipeScript
<1>5. CASE Connects
  <2>0. mode = "up" /\ mode' = "up" /\ script = <<>>
    BY <1>5 DEF Connects, Omx!Connect, Omx!Goes, Omx!Feeding, Omx!FeedFrame
  <2>1. \/ script' = script
        \/ script' = Omx!DecoderScript /\ changed'["decode"] = 2
        \/ script' = Omx!SchedulerScript /\ changed'["scheduler"] = 2
    <3>1. DOMAIN changed = {"decode", "scheduler"}
      BY <1>0 DEF PipeFlags
    <3> QED
      BY <1>5, <3>1 DEF Connects, Omx!Connect
  <2>2. CASE script' = script
    BY <2>0, <2>2 DEF PipeScript
  <2>3. CASE script' = Omx!DecoderScript /\ changed'["decode"] = 2
    <3>1. {"131", "10"} \subseteq Openable'
      BY <2>3 DEF Openable, Ports, Tunnels
    <3>2. script' \in Seq(Connecting({"131", "10"}))
      BY <2>3, ConnectionsAreGood DEF Good
    <3> QED
      BY <1>1, <1>2, <2>0, <3>1, <3>2 DEF PipeScript
  <2>4. CASE script' = Omx!SchedulerScript /\ changed'["scheduler"] = 2
    <3>1. {"11", "90"} \subseteq Openable'
      BY <2>4 DEF Openable, Ports, Tunnels
    <3>2. script' \in Seq(Connecting({"11", "90"}))
      BY <2>4, ConnectionsAreGood DEF Good
    <3> QED
      BY <1>1, <1>2, <2>0, <3>1, <3>2 DEF PipeScript
  <2> QED
    BY <2>1, <2>2, <2>3, <2>4
<1>6. CASE Omx!ScriptEnds
  <2>1. script' = <<>>
    BY <1>6 DEF Omx!ScriptEnds
  <2> QED
    BY <2>1 DEF PipeScript
<1>7. CASE Omx!EndTunnel /\ mode' # mode
  <2>1. script' = <<>>
    BY <1>7 DEF Omx!EndTunnel
  <2> QED
    BY <2>1 DEF PipeScript
<1>8. CASE Pop \/ (Omx!EndTunnel /\ mode' = mode)
  <2>1. /\ script # <<>> /\ script' = Tail(script) /\ mode' = mode /\ Openable' = Openable
        /\ mode \in {"setup", "up", "teardown"}
    BY <1>8, PopKeeps DEF Openable
  <2> QED
    BY <1>0, <2>1, HeadAndTail DEF PipeScript
<1>9. CASE Answer \/ Idle
  <2>1. mode' = mode /\ script' = script
    BY <1>0, <1>9, IdleKeeps DEF Answer, Omx!Complete, Omx!Error
  <2>2. Openable' = Openable
    <3>1. CASE Answer
      BY <3>1 DEF Answer, Omx!Complete, Omx!Error, Openable
    <3>2. CASE Idle
      <4>1. \A c \in {"decode", "scheduler"} : changed'[c] = 2 <=> changed[c] = 2
        BY <1>0, <3>2, IdleKeeps DEF PipeFlags
      <4> QED
        BY <4>1 DEF Openable
    <3> QED
      BY <1>9, <3>1, <3>2
  <2> QED
    BY <1>0, <2>1, <2>2 DEF PipeScript
<1> QED
  BY <1>0, <1>3, <1>4, <1>5, <1>6, <1>7, <1>8, <1>9, StepKinds

(* A port is enabled only by a command that was sent.                      *)
LEMMA AnswerKeepsGone ==
  ASSUME PipeTypes, Answer, NEW p, Omx!Gone(p)
  PROVE  Omx!Gone(p)'
<1>1. PICK c \in Omx!Components : Omx!Complete(c) \/ Omx!Error(c)
  BY DEF Answer
<1>2. PICK k : /\ pending' = [pending EXCEPT ![c] = @ \ {k}]
               /\ \/ enabled' \subseteq enabled
                  \/ k \in pending[c] /\ k.kind = "enable" /\ enabled' = enabled \cup {k.param}
  <2>1. CASE Omx!Complete(c)
    <3>1. PICK k \in pending[c] :
            /\ pending' = [pending EXCEPT ![c] = @ \ {k}]
            /\ enabled' = CASE k.kind = "enable" -> enabled \cup {k.param}
                            [] k.kind = "disable" -> enabled \ {k.param}
                            [] OTHER -> enabled
      BY <2>1 DEF Omx!Complete
    <3> QED
      BY <3>1
  <2>2. CASE Omx!Error(c)
    BY <2>2 DEF Omx!Error
  <2> QED
    BY <1>1, <2>1, <2>2
<1>3. \A b \in Omx!Components : pending'[b] \subseteq pending[b]
  BY <1>2 DEF PipeTypes
<1>4. ~Omx!Sent("enable", p)'
  BY <1>3 DEF Omx!Gone, Omx!Sent
<1>5. p \notin enabled'
  <2>1. CASE enabled' \subseteq enabled
    BY <2>1 DEF Omx!Gone
  <2>2. CASE k \in pending[c] /\ k.kind = "enable" /\ enabled' = enabled \cup {k.param}
    <3>1. k \in Commands
      BY <2>2 DEF PipeTypes
    <3>2. k = Omx!Command("enable", k.param)
      BY <2>2, <3>1 DEF Commands, Omx!Command
    <3>3. k.param # p
      BY <2>2, <3>2 DEF Omx!Gone, Omx!Sent
    <3> QED
      BY <2>2, <3>3 DEF Omx!Gone
  <2> QED
    BY <1>2, <2>1, <2>2
<1> QED
  BY <1>4, <1>5 DEF Omx!Gone

LEMMA PopKeepsGone ==
  ASSUME PipeTypes, Pop \/ Omx!EndTunnel, NEW p, Omx!Gone(p),
         Enables(Omx!Current) => Omx!Current.cmd.param # p, Omx!Current \in Steps
  PROVE  Omx!Gone(p)'
<1>1. CASE Omx!FinishCommand \/ Omx!MoveBuffers \/ Omx!EndTunnel
  <2>1. UNCHANGED <<pending, enabled>>
    BY <1>1 DEF Omx!FinishCommand, Omx!MoveBuffers, Omx!EndTunnel, Omx!talk
  <2> QED
    BY <2>1 DEF Omx!Gone, Omx!Sent
<1>2. CASE Omx!BeginCommand \/ Omx!FireCommand
  <2>1. /\ pending' = [pending EXCEPT ![Omx!Current.c] = @ \cup {Omx!Current.cmd}]
        /\ enabled' = enabled /\ Omx!Current.op \in {"begin", "fire"}
    BY <1>2 DEF Omx!BeginCommand, Omx!FireCommand, Omx!Now, Omx!Current
  <2>2. Omx!Current.cmd # Omx!Command("enable", p)
    BY <2>1 DEF Enables, Omx!Command
  <2>3. \A c \in Omx!Components :
          Omx!Command("enable", p) \in pending'[c] => Omx!Command("enable", p) \in pending[c]
    BY <2>1, <2>2 DEF PipeTypes
  <2> QED
    BY <2>1, <2>3 DEF Omx!Gone, Omx!Sent
<1> QED
  BY <1>1, <1>2 DEF Pop

LEMMA ShutKept ==
  ASSUME PipeInv, [Omx!Next]_Omx!vars
  PROVE  PipeShut'
<1>0. PipeTypes /\ PipeFlags /\ PipeScript /\ PipeShut
  BY DEF PipeInv
<1> SUFFICES ASSUME NEW p \in Ports, p \notin Openable'
             PROVE  Omx!Gone(p)'
  BY DEF PipeShut
<1>1. CASE Omx!Setup
  BY <1>1 DEF Omx!Setup, Omx!Gone, Omx!Sent
<1>2. CASE ~Omx!Setup
  <2>1. \A c \in {"decode", "scheduler"} : changed[c] = 2 => changed'[c] = 2
    <3>1. CASE Omx!Teardown \/ Omx!ScriptEnds \/ Omx!EndTunnel \/ Pop \/ Answer
      BY <3>1 DEF Omx!Teardown, Omx!ScriptEnds, Omx!EndTunnel, Pop,
                  Omx!BeginCommand, Omx!FinishCommand, Omx!FireCommand,
                  Omx!MoveBuffers, Answer, Omx!Complete, Omx!Error
    <3>2. CASE Connects
      BY <1>0, <3>2 DEF Connects, Omx!Connect, PipeFlags
    <3>3. CASE Idle
      BY <1>0, <3>3, IdleKeeps DEF PipeFlags
    <3> QED
      BY <1>0, <1>2, <3>1, <3>2, <3>3, StepKinds
  <2>2. p \notin Openable
    BY <2>1 DEF Openable
  <2>3. Omx!Gone(p)
    BY <1>0, <2>2 DEF PipeShut
  <2>4. CASE Omx!Teardown \/ Omx!ScriptEnds \/ Connects \/ Idle
    <3>1. UNCHANGED <<pending, enabled>>
      BY <1>0, <2>4, IdleKeeps
         DEF Omx!Teardown, Omx!ScriptEnds, Connects, Omx!Connect, Omx!FeedFrame,
             Omx!talk
    <3> QED
      BY <2>3, <3>1 DEF Omx!Gone, Omx!Sent
  <2>5. CASE Answer
    BY <1>0, <2>3, <2>5, AnswerKeepsGone
  <2>6. CASE Omx!EndTunnel
    <3>1. UNCHANGED <<pending, enabled>>
      BY <2>6 DEF Omx!EndTunnel, Omx!talk
    <3> QED
      BY <2>3, <3>1 DEF Omx!Gone, Omx!Sent
  <2>7. CASE Pop
    <3>1. /\ Omx!Current = script[1]
          /\ script[1] \in Connecting(Openable) \/ script[1] \in Closing
      BY <2>7, PopKeeps
    <3>2. Omx!Current \in Steps /\ (Enables(Omx!Current) => Omx!Current.cmd.param # p)
      BY <2>2, <3>1 DEF Connecting, Closing
    <3> QED
      BY <1>0, <2>3, <2>7, <3>2, PopKeepsGone
  <2> QED
    BY <1>0, <1>2, <2>4, <2>5, <2>6, <2>7, StepKinds
<1> QED
  BY <1>1, <1>2

(* What is under way when a component answers.  It completes a command and *)
(* no other, a port is disabled when the command to do so is completed,    *)
(* and the audio's and the scheduler's end of a tunnel of the clock not    *)
(* before the clock's.                                                     *)
LEMMA CompletedPort ==
  ASSUME PipeTypes, NEW c \in Omx!Components, NEW k \in pending[c], Answer,
         Omx!MayComplete(c, k), k.kind = "disable", Omx!Command("enable", k.param) \notin pending[c],
         pending' = [pending EXCEPT ![c] = @ \ {k}], enabled' = enabled \ {k.param}
  PROVE  Shut(k.param)'
<1> DEFINE p == k.param
<1>1. p \in Ports /\ Owner(p) = c
  BY DEF PipeTypes, Fits
<1>2. \A b \in Omx!Components : Omx!Command("enable", p) \notin pending[b]
  <2>1. ASSUME NEW b \in Omx!Components, Omx!Command("enable", p) \in pending[b]
        PROVE  b = c
    BY <1>1, <2>1 DEF PipeTypes, Fits, Omx!Command
  <2> QED
    BY <2>1
<1>3. \A b \in Omx!Components : pending'[b] \subseteq pending[b]
  BY DEF PipeTypes
<1>4. Omx!Gone(p)'
  BY <1>2, <1>3 DEF Omx!Gone, Omx!Sent
<1>5. /\ p = "101" => Omx!Gone("80")
      /\ p = "12" => Omx!Gone("81")
  BY DEF Omx!MayComplete, Omx!Fed, Omx!Peer, Omx!Command
<1> QED
  BY <1>4, <1>5, AnswerKeepsGone DEF Shut

LEMMA UnderwayKept ==
  ASSUME PipeTypes, Answer, NEW c \in Omx!Components, NEW k \in Commands, Underway(c, k)
  PROVE  Underway(c, k)'
<1>1. PICK b \in Omx!Components : Omx!Complete(b) \/ Omx!Error(b)
  BY DEF Answer
<1>2. k.kind = "disable" /\ Shut(k.param) => Shut(k.param)'
  BY AnswerKeepsGone DEF Shut
<1>3. CASE Omx!Complete(b)
  <2>1. PICK x \in pending[b] :
          /\ Omx!MayComplete(b, x)
          /\ x.kind = "disable" => Omx!Command("enable", x.param) \notin pending[b]
          /\ pending' = [pending EXCEPT ![b] = @ \ {x}]
          /\ enabled' = CASE x.kind = "enable" -> enabled \cup {x.param}
                          [] x.kind = "disable" -> enabled \ {x.param}
                          [] OTHER -> enabled
          /\ cmd' = IF cmd[b] = x THEN [cmd EXCEPT ![b] = Omx!Nothing] ELSE cmd
    BY <1>3 DEF Omx!Complete, Omx!Awaited
  <2>2. errored' = errored
    BY <1>3 DEF Omx!Complete
  <2>3. CASE b = c /\ x = k
    <3>1. k \notin pending'[c]
      BY <2>1, <2>3 DEF PipeTypes
    <3>2. k.kind = "disable" => Shut(k.param)'
      <4>1. ASSUME k.kind = "disable"
            PROVE  Shut(k.param)'
        <5>1. enabled' = enabled \ {k.param}
          BY <2>1, <2>3, <4>1
        <5> QED
          BY <2>1, <2>3, <4>1, <5>1, CompletedPort
      <4> QED
        BY <4>1
    <3> QED
      BY <3>1, <3>2 DEF Underway
  <2>4. CASE ~(b = c /\ x = k)
    <3>1. cmd[c] = k => cmd'[c] = k
      BY <2>1, <2>4 DEF PipeTypes
    <3>2. k \notin pending[c] => k \notin pending'[c]
      BY <2>1 DEF PipeTypes
    <3> QED
      BY <1>2, <2>2, <3>1, <3>2 DEF Underway
  <2> QED
    BY <2>3, <2>4
<1>4. CASE Omx!Error(b)
  <2>1. /\ errored' # {} /\ pending' = [pending EXCEPT ![b] = @ \ {cmd[b]}]
        /\ cmd' = [cmd EXCEPT ![b] = Omx!Nothing]
    BY <1>4 DEF Omx!Error
  <2>2. CASE b = c
    <3>1. k \notin pending'[c]
      BY <2>1, <2>2 DEF PipeTypes, Underway
    <3> QED
      BY <2>1, <3>1 DEF Underway
  <2>3. CASE b # c
    <3>1. cmd'[c] = cmd[c] /\ pending'[c] = pending[c]
      BY <2>1, <2>3 DEF PipeTypes
    <3> QED
      BY <2>1, <3>1 DEF Underway
  <2> QED
    BY <2>2, <2>3
<1> QED
  BY <1>1, <1>3, <1>4

LEMMA WaitsKept ==
  ASSUME PipeInv, [Omx!Next]_Omx!vars
  PROVE  PipeWaits'
<1>0. PipeTypes /\ PipeFlags /\ PipeScript /\ PipeWaits
  BY DEF PipeInv
<1>1. ASSUME Paired(script')
      PROVE  PipeWaits'
  BY <1>1 DEF PipeWaits, Paired, Opens, OnlyMoves
<1>2. ASSUME script' = <<>>
      PROVE  PipeWaits'
  BY <1>2 DEF PipeWaits
<1>3. CASE Omx!Setup
  BY <1>1, <1>3, SetupIsGood DEF Omx!Setup, Good
<1>4. CASE Omx!Teardown
  <2>1. Connecting({}) \subseteq Closing
    BY DEF Connecting, Closing
  <2>2. Emptying \in Good(Closing)
    BY <2>1, EmptyingIsGood DEF Good
  <2>3. Emptying \o Omx!UntunnelScript \o Omx!LoadedScript \in Good(Closing)
    BY <2>2, EndingIsGood, GoodConcatenated
  <2> QED
    BY <1>1, <1>4, <2>3 DEF Omx!Teardown, Omx!TeardownScript, Emptying, Good
<1>5. CASE Connects
  <2>1. script' \in {<<>>, Omx!DecoderScript, Omx!SchedulerScript}
    BY <1>5 DEF Connects, Omx!Connect, Omx!Goes, Omx!Feeding
  <2> QED
    BY <1>1, <1>2, <2>1, ConnectionsAreGood DEF Good
<1>6. CASE Omx!ScriptEnds \/ (Omx!EndTunnel /\ mode' # mode)
  BY <1>2, <1>6 DEF Omx!ScriptEnds, Omx!EndTunnel
<1>7. CASE Answer
  <2>1. script' = script
    BY <1>7 DEF Answer, Omx!Complete, Omx!Error
  <2>2. ASSUME NEW i \in 1 .. Len(script), script[i].op = "finish"
        PROVE  script[i].c \in Omx!Components /\ script[i].cmd \in Commands
    <3>1. script \in Seq(Steps)
      BY <1>0 DEF PipeTypes, PipeScript, Connecting, Closing
    <3> QED
      BY <2>2, <3>1 DEF Steps
  <2> QED
    BY <1>0, <1>7, <2>1, <2>2, UnderwayKept DEF PipeWaits, Opens, OnlyMoves
<1>8. CASE Idle
  <2>1. UNCHANGED <<script, cmd, pending, enabled, errored>>
    BY <1>0, <1>8, IdleKeeps
  <2> QED
    BY <1>0, <2>1 DEF PipeWaits, Opens, OnlyMoves, Underway, Shut, Omx!Gone,
                      Omx!Sent
<1>9. CASE Pop \/ (Omx!EndTunnel /\ mode' = mode)
  <2>1. /\ script # <<>> /\ script' = Tail(script) /\ script \in Seq(Steps)
        /\ Omx!Current = script[1]
    BY <1>9, PopKeeps
  <2>2. /\ Len(script) \in Nat \ {0} /\ Len(script') = Len(script) - 1
        /\ \A i \in 1 .. Len(script') : script'[i] = script[i + 1]
    BY <2>1, HeadAndTail
  <2>3. ASSUME NEW i \in 1 .. Len(script'), NEW s, s = script'[i], s.op = "finish"
        PROVE  \/ \E j \in 1 .. i - 1 : Opens(script', j, i)
               \/ OnlyMoves(script', 1, i - 1) /\ Underway(s.c, s.cmd)'
    <3>1. i \in Nat /\ i + 1 \in 1 .. Len(script) /\ s = script[i + 1]
      BY <2>2, <2>3
    <3>2. \A n \in 1 .. i - 1 : script'[n] = script[n + 1]
      BY <2>2, <3>1
    <3>3. CASE \E j \in 1 .. (i + 1) - 1 : Opens(script, j, i + 1)
      <4>1. PICK j \in 1 .. i : Opens(script, j, i + 1)
        BY <3>1, <3>3
      <4>2. CASE j = 1
        <5>1. /\ script[1].op = "begin" /\ script[1].c = s.c
              /\ script[1].cmd = s.cmd
              /\ \A n \in 2 .. i : script[n].op \in {"alloc", "free"}
          BY <3>1, <4>1, <4>2 DEF Opens, OnlyMoves
        <5>2. cmd' = [cmd EXCEPT ![script[1].c] = script[1].cmd]
          BY <1>9, <2>1, <5>1
             DEF Pop, Omx!BeginCommand, Omx!FinishCommand, Omx!FireCommand,
                 Omx!MoveBuffers, Omx!EndTunnel, Omx!Now, Omx!Current
        <5>3. script[1].c \in Omx!Components
          BY <2>1, <2>2 DEF Steps
        <5>4. cmd'[s.c] = s.cmd
          BY <1>0, <5>1, <5>2, <5>3 DEF PipeTypes
        <5>5. OnlyMoves(script', 1, i - 1)
          BY <3>1, <3>2, <5>1 DEF OnlyMoves
        <5> QED
          BY <5>4, <5>5 DEF Underway
      <4>3. CASE j # 1
        <5>1. j - 1 \in 1 .. i - 1 /\ script'[j - 1] = script[j]
          BY <3>1, <3>2, <4>3
        <5>2. OnlyMoves(script', (j - 1) + 1, i - 1)
          BY <3>1, <3>2, <4>1, <4>3 DEF Opens, OnlyMoves
        <5>3. Opens(script', j - 1, i)
          BY <2>3, <3>1, <4>1, <5>1, <5>2 DEF Opens
        <5> QED
          BY <5>1, <5>3
      <4> QED
        BY <4>2, <4>3
    <3>4. CASE OnlyMoves(script, 1, (i + 1) - 1) /\ Underway(script[i + 1].c, script[i + 1].cmd)
      <4>1. \A n \in 1 .. i : script[n].op \in {"alloc", "free"}
        BY <3>1, <3>4 DEF OnlyMoves
      <4>2. script[1].op \in {"alloc", "free"} /\ OnlyMoves(script', 1, i - 1)
        BY <3>1, <3>2, <4>1 DEF OnlyMoves
      <4>3. UNCHANGED <<cmd, pending, enabled, errored>>
        BY <1>9, <2>1, <4>2
           DEF Pop, Omx!BeginCommand, Omx!FinishCommand, Omx!FireCommand,
               Omx!MoveBuffers, Omx!EndTunnel, Omx!Now, Omx!Current
      <4> QED
        BY <3>1, <3>4, <4>2, <4>3 DEF Underway, Shut, Omx!Gone, Omx!Sent
    <3> QED
      BY <1>0, <2>3, <3>1, <3>3, <3>4 DEF PipeWaits
  <2> QED
    BY <2>3 DEF PipeWaits, Opens, OnlyMoves
<1> QED
  BY <1>0, <1>3, <1>4, <1>5, <1>6, <1>7, <1>8, <1>9, StepKinds

(* The command that the video thread has waited for.                       *)
LEMMA WaitIsOver ==
  ASSUME PipeInv, Omx!FinishCommand
  PROVE  /\ Omx!Current.cmd \notin pending[Omx!Current.c]
         /\ Omx!Current.cmd.kind = "disable" /\ errored = {} => Shut(Omx!Current.cmd.param)
<1>1. /\ script # <<>> /\ script \in Seq(Steps) /\ Omx!Current = script[1]
  BY PopKeeps DEF Pop
<1>2. Len(script) \in Nat \ {0} /\ 1 \in 1 .. Len(script) /\ script[1] \in Steps
  BY <1>1, HeadAndTail
<1>3. script[1].op = "finish" /\ cmd[script[1].c] = Omx!Nothing
  BY <1>1 DEF Omx!FinishCommand, Omx!Now, Omx!Current
<1>4. Underway(script[1].c, script[1].cmd)
  <2>1. 1 .. 1 - 1 = {}
    OBVIOUS
  <2> QED
    BY <1>2, <1>3, <2>1 DEF PipeInv, PipeWaits
<1>5. script[1].cmd # Omx!Nothing
  BY <1>2, <1>3 DEF Steps, Commands, Kinds, Omx!Nothing
<1> QED
  BY <1>1, <1>3, <1>4, <1>5 DEF Underway

LEMMA TunnelsKept ==
  ASSUME PipeInv, [Omx!Next]_Omx!vars
  PROVE  PipeTunnels'
<1>0. PipeTypes /\ PipeFlags /\ PipeScript /\ PipeShut /\ PipeWaits /\ PipeTunnels
  BY DEF PipeInv
<1> SUFFICES ASSUME mode' = "teardown", errored' = {},
                    NEW i \in 1 .. Len(script'), script'[i].op = "untunnel",
                    NEW p, p = script'[i].cmd.param
             PROVE  \/ Omx!Gone(p)'
                    \/ Omx!HalfConnected' /\ p = "10"
                    \/ \E j \in 1 .. i - 1 : Shuts(script'[j], p)
  BY DEF PipeTunnels, Shuts
<1>1. CASE Omx!Teardown
  <2> DEFINE e == Emptying
             r == Omx!UntunnelScript \o Omx!LoadedScript
  <2>1. e \in Seq(Connecting({})) /\ e \in Seq(Closing) /\ r \in Seq(Closing)
    <3>1. e \in Seq(Connecting({})) /\ Omx!UntunnelScript \in Seq(Closing) /\ Omx!LoadedScript \in Seq(Closing)
      BY EmptyingIsGood, EndingIsGood DEF Good
    <3>2. Connecting({}) \subseteq Closing
      BY DEF Connecting, Closing
    <3> QED
      BY <3>1, <3>2, Concatenated
  <2>2. script' = e \o r
    <3>1. script' = Emptying \o Omx!UntunnelScript \o Omx!LoadedScript
      BY <1>1 DEF Omx!Teardown, Omx!TeardownScript, Emptying
    <3>2. Emptying \in Seq(Closing) /\ Omx!UntunnelScript \in Seq(Closing) /\ Omx!LoadedScript \in Seq(Closing)
      BY <2>1, EndingIsGood DEF Good
    <3> HIDE DEF e, r
    <3>3. \A x, y, z \in Seq(Closing) : x \o y \o z = x \o (y \o z)
      BY ConcatAssociative
    <3> QED
      BY <3>1, <3>2, <3>3 DEF e, r
  <2> HIDE DEF e, r
  <2>3. /\ Len(e) \in Nat /\ Len(r) \in Nat /\ Len(script') = Len(e) + Len(r)
        /\ \A n \in 1 .. Len(e) : script'[n] = e[n]
        /\ script' \in Seq(Closing)
    BY <2>1, <2>2, Concatenated
  <2>4. \A n \in 1 .. Len(e) : e[n].op # "untunnel"
    BY <2>1 DEF Connecting
  <2>5. i > Len(e)
    BY <2>3, <2>4
  <2>6. p \in Tunnels
    BY <2>3 DEF Closing, Steps
  <2>7. \A x : Holds(e, x) => \E j \in 1 .. i - 1 : script'[j] = x
    BY <2>3, <2>5 DEF Holds
  <2>8. UNCHANGED <<pending, enabled, changed>>
    BY <1>1 DEF Omx!Teardown, Omx!talk
  <2>9. \A x \in Ports : /\ Disabled(x).op = "finish" /\ Disabled(x).cmd.kind = "disable"
                         /\ Disabled(x).cmd.param = x
    BY DEF Disabled, Omx!Finish, Omx!Step, Omx!Command
  <2>10. {"101", "12", "11", "90", "10", "131"} \subseteq Ports
    BY DEF Ports, Tunnels
  <2>11. CASE p \in {"101", "80"}
    BY <2>7, <2>9, <2>10, <2>11, EmptyingIsGood DEF Shuts, e
  <2>12. CASE p \in {"12", "81"}
    BY <2>7, <2>9, <2>10, <2>12, EmptyingIsGood DEF Shuts, e
  <2>13. CASE p \in {"11", "90"}
    <3>1. CASE changed["scheduler"] = 2
      BY <2>7, <2>9, <2>10, <2>13, <3>1, EmptyingIsGood DEF Shuts, e
    <3>2. CASE changed["scheduler"] # 2
      <4>1. Omx!Gone(p)
        BY <1>0, <2>10, <2>13, <3>2 DEF PipeShut, Openable, SetupPorts
      <4> QED
        BY <2>8, <4>1 DEF Omx!Gone, Omx!Sent
    <3> QED
      BY <3>1, <3>2
  <2>14. CASE p = "10"
    <3>1. CASE changed["scheduler"] = 2
      BY <2>7, <2>9, <2>10, <2>14, <3>1, EmptyingIsGood DEF Shuts, e
    <3>2. CASE changed["scheduler"] # 2 /\ changed["decode"] = 2
      BY <2>8, <2>14, <3>2 DEF Omx!HalfConnected
    <3>3. CASE changed["decode"] # 2
      <4>1. Omx!Gone(p)
        BY <1>0, <2>10, <2>14, <3>3 DEF PipeShut, Openable, SetupPorts
      <4> QED
        BY <2>8, <4>1 DEF Omx!Gone, Omx!Sent
    <3> QED
      BY <3>1, <3>2, <3>3
  <2>15. CASE p = "131"
    <3>1. CASE changed["decode"] = 2
      BY <2>7, <2>9, <2>10, <2>15, <3>1, EmptyingIsGood DEF Shuts, e
    <3>2. CASE changed["decode"] # 2
      <4>1. Omx!Gone(p)
        BY <1>0, <2>10, <2>15, <3>2 DEF PipeShut, Openable, SetupPorts
      <4> QED
        BY <2>8, <4>1 DEF Omx!Gone, Omx!Sent
    <3> QED
      BY <3>1, <3>2
  <2> QED
    BY <2>6, <2>11, <2>12, <2>13, <2>14, <2>15 DEF Tunnels
<1>2. CASE Answer \/ Idle
  <2>1. mode' = mode /\ script' = script
    BY <1>0, <1>2, IdleKeeps DEF Answer, Omx!Complete, Omx!Error
  <2>2. errored = {} /\ (Omx!HalfConnected => Omx!HalfConnected')
    <3>1. CASE Answer
      BY <3>1 DEF Answer, Omx!Complete, Omx!Error, Omx!HalfConnected
    <3>2. CASE Idle
      BY <1>0, <3>2, IdleKeeps DEF Omx!HalfConnected, PipeFlags
    <3> QED
      BY <1>2, <3>1, <3>2
  <2>3. \A x : Omx!Gone(x) => Omx!Gone(x)'
    <3>1. CASE Answer
      BY <1>0, <3>1, AnswerKeepsGone
    <3>2. CASE Idle
      <4>1. UNCHANGED <<pending, enabled>>
        BY <1>0, <3>2, IdleKeeps
      <4> QED
        BY <4>1 DEF Omx!Gone, Omx!Sent
    <3> QED
      BY <1>2, <3>1, <3>2
  <2> QED
    BY <1>0, <2>1, <2>2, <2>3 DEF PipeTunnels
<1>3. CASE Pop \/ (Omx!EndTunnel /\ mode' = mode)
  <2>1. /\ script # <<>> /\ script' = Tail(script) /\ script \in Seq(Steps)
        /\ mode = "teardown" /\ changed' = changed /\ errored = {}
        /\ Omx!Current = script[1] /\ script[1] \in Closing
    BY <1>3, PopKeeps
  <2>2. /\ Len(script) \in Nat \ {0} /\ Len(script') = Len(script) - 1
        /\ \A n \in 1 .. Len(script') : script'[n] = script[n + 1]
        /\ script[1] \in Steps
    BY <2>1, HeadAndTail
  <2>3. i \in Nat /\ i + 1 \in 1 .. Len(script) /\ script'[i] = script[i + 1]
    BY <2>2
  <2>4. \A x : Omx!Gone(x) => Omx!Gone(x)'
    <3>1. Omx!Current \in Steps /\ ~Enables(Omx!Current)
      BY <2>1 DEF Closing
    <3> QED
      BY <1>0, <1>3, <3>1, PopKeepsGone
  <2>5. \/ Omx!Gone(p) \/ (Omx!HalfConnected /\ p = "10")
        \/ \E j \in 1 .. (i + 1) - 1 : Shuts(script[j], p)
    BY <1>0, <2>1, <2>3 DEF PipeTunnels
  <2>6. CASE Omx!Gone(p)
    BY <2>4, <2>6
  <2>7. CASE Omx!HalfConnected /\ p = "10"
    BY <2>1, <2>7 DEF Omx!HalfConnected
  <2>8. CASE \E j \in 1 .. (i + 1) - 1 : Shuts(script[j], p)
    <3>1. PICK j \in 1 .. i : Shuts(script[j], p)
      BY <2>3, <2>8
    <3>2. CASE j = 1
      <4>1. Omx!FinishCommand
        BY <1>3, <2>1, <3>1, <3>2
           DEF Shuts, Pop, Omx!BeginCommand, Omx!FireCommand, Omx!MoveBuffers,
               Omx!EndTunnel, Omx!Now, Omx!Current
      <4>2. Shut(script[1].cmd.param)
        BY <2>1, <3>1, <3>2, <4>1, WaitIsOver DEF Shuts
      <4>3. Omx!Gone(p)
        BY <3>1, <3>2, <4>2 DEF Shut, Shuts
      <4> QED
        BY <2>4, <4>3
    <3>3. CASE j # 1
      <4>1. j - 1 \in 1 .. i - 1 /\ script'[j - 1] = script[j]
        BY <2>2, <2>3, <3>3
      <4> QED
        BY <3>1, <4>1
    <3> QED
      BY <3>2, <3>3
  <2> QED
    BY <2>5, <2>6, <2>7, <2>8
<1>4. CASE Omx!Setup \/ Connects \/ Omx!ScriptEnds \/ (Omx!EndTunnel /\ mode' # mode)
  <2>1. CASE Omx!Setup
    BY <2>1 DEF Omx!Setup
  <2>2. CASE Connects
    BY <2>2 DEF Connects, Omx!Connect, Omx!Goes, Omx!Feeding, Omx!FeedFrame
  <2>3. CASE Omx!ScriptEnds
    BY <2>3 DEF Omx!ScriptEnds
  <2>4. CASE Omx!EndTunnel /\ mode' # mode
    BY <2>4 DEF Omx!EndTunnel
  <2> QED
    BY <1>4, <2>1, <2>2, <2>3, <2>4
<1> QED
  BY <1>0, <1>1, <1>2, <1>3, <1>4, StepKinds

LEMMA PipeInit == Omx!Init => PipeInv
<1> SUFFICES ASSUME Omx!Init PROVE PipeInv
  OBVIOUS
<1> USE DEF Omx!Init
<1>1. PipeTypes
  BY DEF PipeTypes
<1>2. PipeFlags
  <2>1. 0 \in 0 .. Buffers
    BY PipelineAssumption DEF PipelineAssumption
  <2>2. changed["scheduler"] = 0 /\ changed \in [{"decode", "scheduler"} -> 0 .. 2]
    OBVIOUS
  <2> QED
    BY <2>1, <2>2 DEF PipeFlags
<1>3. PipeScript /\ PipeShut /\ PipeWaits /\ PipeTunnels
  BY DEF PipeScript, PipeShut, PipeWaits, PipeTunnels, Omx!Gone, Omx!Sent
<1> QED
  BY <1>1, <1>2, <1>3 DEF PipeInv

LEMMA PipeStep ==
  ASSUME PipeInv, [Omx!Next]_Omx!vars
  PROVE  PipeInv'
BY TypesKept, FlagsKept, ScriptKept, ShutKept, WaitsKept, TunnelsKept
   DEF PipeInv

LEMMA PipeTyped == PipeInv => Omx!TypeOK
<1> SUFFICES ASSUME PipeInv PROVE Omx!TypeOK
  OBVIOUS
<1>1. PipeTypes /\ PipeFlags /\ PipeScript
  BY DEF PipeInv
<1>2. script \in Seq(Steps)
  <2>1. Connecting(Openable) \subseteq Steps /\ Closing \subseteq Steps
    BY DEF Connecting, Closing
  <2>2. \A A : A \subseteq Steps => Seq(A) \subseteq Seq(Steps)
    OBVIOUS
  <2>3. <<>> \in Seq(Steps)
    OBVIOUS
  <2> QED
    BY <1>1, <2>1, <2>2, <2>3 DEF PipeTypes, PipeScript
<1>3. \A n \in DOMAIN script : script[n].c \in Omx!Components
  BY <1>2 DEF Steps
<1> QED
  BY <1>1, <1>3 DEF PipeTypes, PipeFlags, Omx!TypeOK

LEMMA PipeSafe ==
  ASSUME PipeInv
  PROVE  /\ Omx!FinishCommand /\ Omx!Current.c \notin errored =>
              Omx!Current.cmd \notin pending[Omx!Current.c]
         /\ Omx!EndTunnel /\ errored = {} =>
              \/ Omx!Current.cmd.param \notin enabled
              \/ Omx!HalfConnected /\ Omx!Current.cmd.param = "10"
<1>1. Omx!FinishCommand => Omx!Current.cmd \notin pending[Omx!Current.c]
  BY WaitIsOver
<1>2. ASSUME Omx!EndTunnel, errored = {}
      PROVE  \/ Omx!Current.cmd.param \notin enabled
             \/ Omx!HalfConnected /\ Omx!Current.cmd.param = "10"
  <2>1. script # <<>> /\ Head(script).op = "untunnel" /\ Omx!Current = Head(script)
    BY <1>2 DEF Omx!EndTunnel, Omx!Now, Omx!Current
  <2>2. PipeTypes /\ PipeScript
    BY DEF PipeInv
  <2>3. mode = "teardown" /\ script \in Seq(Closing)
    <3>1. CASE mode \in {"setup", "up"}
      <4>1. script[1] \in Connecting(Openable) /\ Head(script) = script[1]
        BY <2>1, <2>2, <3>1, HeadAndTail DEF PipeScript
      <4> QED
        BY <2>1, <4>1 DEF Connecting
    <3> QED
      BY <2>1, <2>2, <3>1 DEF PipeTypes, PipeScript
  <2>4. 1 \in 1 .. Len(script) /\ Head(script) = script[1]
    BY <2>1, <2>3, HeadAndTail
  <2>5. 1 .. 1 - 1 = {}
    OBVIOUS
  <2> QED
    BY <1>2, <2>1, <2>3, <2>4, <2>5 DEF PipeInv, PipeTunnels, Omx!Gone
<1> QED
  BY <1>1, <1>2

-----------------------------------------------------------------------------
(* The composition: a step of MCOmx is a step of one half and leaves the   *)
(* other's variables alone.                                                *)
MCVars == <<half, vars, pipelinevars>>
LEMMA StepsOfViews ==
  ASSUME [MCNext]_MCVars
  PROVE  [Next]_vars /\ [Omx!Next]_(Omx!vars)
<1>1. [Next]_vars
  BY DEF MCNext, MCVars
<1>2. [Omx!Next]_(Omx!vars)
  BY DEF MCNext, MCVars, pipelinevars, Omx!vars, Omx!talk, Omx!feed
<1> QED
  BY <1>1, <1>2

ViewsInv == IInv /\ PipeInv
LEMMA ViewsInvariance == MCSpec => []ViewsInv
<1>1. MCInit => ViewsInv
  BY InitIInv, PipeInit DEF MCInit, ViewsInv
<1>2. ViewsInv /\ [MCNext]_MCVars => ViewsInv'
  BY StepsOfViews, IInvStep, PipeStep DEF ViewsInv
<1> QED
  BY <1>1, <1>2, PTL DEF MCSpec, MCVars

(* The variables of both halves keep to their types, omx_active_mutex is   *)
(* held by the thread whose place in the code says so, every step of a     *)
(* script is one of a component's, and a command that is waited for is     *)
(* still with the component that it was sent to.                           *)
THEOREM ViewsTyped == MCSpec => []TypesOK
<1>1. ViewsInv => TypesOK
  BY PipeTyped DEF ViewsInv, IInv, TypesOK
<1> QED
  BY <1>1, ViewsInvariance, PTL

(* omx_send_command_and_wait, and omx_teardown_pipeline down to its        *)
(* tunnels: when the wait is over, the component has carried that command  *)
(* out, whatever else it was sent and reports meanwhile; and a tunnel is   *)
(* shut down behind the disabling of its port, the clock's too, which      *)
(* nobody waits for.  For any order in which the components carry out what *)
(* they were sent, any of them in error, port settings that change at any  *)
(* time and any number of buffers; but for a component in error, and for   *)
(* port 10 of a pipeline that was connected in half.                       *)
THEOREM CommandsAreWaitedFor == MCSpec => CommandsAreDone
<1>1. ViewsInv /\ [MCNext]_MCVars =>
        [/\ Omx!FinishCommand /\ Omx!Current.c \notin errored =>
              Omx!Current.cmd \notin pending[Omx!Current.c]
         /\ Omx!EndTunnel /\ errored = {} =>
              \/ Omx!Current.cmd.param \notin enabled
              \/ Omx!HalfConnected /\ Omx!Current.cmd.param = "10"]_(Omx!vars)
  BY PipeSafe DEF ViewsInv
<1> QED
  BY <1>1, ViewsInvariance, PTL DEF MCSpec, MCVars, CommandsAreDone, Omx!CommandsAreDone
=============================================================================
