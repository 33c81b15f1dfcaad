------------------------------ MODULE Writers ------------------------------
(***************************************************************************)
(* The writers of libeplayer3 (writer/): how the packets of one stream     *)
(* become PES packets on a decoder's device.  Output has the writer of the *)
(* stream's codec set up (Init) and gives it the packets one by one, under *)
(* the mutex of the device; each writev may fail, and ends the call then.  *)
(*                                                                         *)
(* Bytes are counted, not spelled out: what is written of a packet is the  *)
(* interval <<from, to>> of its bytes.  For PCM, which is written after    *)
(* decoding, the intervals count the bytes that the decoder has put out.   *)
(***************************************************************************)
EXTENDS Integers, SequencesExt

CONSTANTS
  Codecs,      \* codecs of the streams
  Sizes,       \* sizes of packets, above MAX_PES_PACKET_SIZE too
  AacSizes,    \* sizes of AAC packets, with fewer than 2048 bytes
  NalLists,    \* lengths of the NAL units of a packet with lengths for marks
  FrameSizes,  \* bytes of a decoded frame
  SubFrameLen, \* bytes of samples in a PES packet (prepareClipPlay)
  MaxStreams,  \* bound: streams set up one after the other
  MaxPackets,  \* bound: packets of a stream
  MaxDecoded   \* bound: bytes decoded

MAX_PES_PACKET_SIZE == 65535
PrivateDataHeader == 9   \* InsertVideoPrivateDataHeader
AAC_HEADER_LENGTH == 7
NalLengthBytes == 4      \* as the avcC says
Flush == -1              \* what is left of a packet without data
NoPacket == [no |-> 0, size |-> 0, coded |-> FALSE, nals |-> <<>>]

VARIABLES
  streams, packets,        \* bounds: counts
  writer, form,            \* the writer set up, and what its stream looks like
  initialHeader, FrameHeaderSeen,
  restart_audio_resampling, swr, ready,   \* swr: set up?  ready: codec opened?
  breakBuffer,             \* the intervals that it holds
  packet, left,            \* Write's packet; how often it is decoded, or Flush
  plan,                    \* the PES packets Write is going to write
  at,                      \* the place in Write
  device,                  \* what the device got since it was cleared
  taken,                   \* history: the packets that Write said true of
  decoded, begin,          \* history: bytes decoded; so many at the last clear
  torn,                    \* history: was the break buffer overwritten?
  headless                 \* history: a failed write took the header along

setup == <<streams, writer, form>>
pcm == <<restart_audio_resampling, swr, ready, breakBuffer, left, decoded, begin, torn>>
header == <<initialHeader, FrameHeaderSeen, headless>>
vars == <<setup, packets, pcm, header, packet, plan, at, device, taken>>

-----------------------------------------------------------------------------
(* Which writer: the one that registered for the codec; other audio is     *)
(* decoded and written as PCM, other video taken for an MPEG2 stream.      *)
Registered ==
  [MP3 |-> "mp3", FLAC |-> "mp3", AC3 |-> "ac3", DTS |-> "dts", AAC |-> "aac",
   PCM_S16LE |-> "pcm", H263 |-> "h263", MPEG4 |-> "divx", WMV3 |-> "wmv",
   VC1 |-> "vc1", H264 |-> "h264", MPEG2TS |-> "mpeg2"]
GetWriter(codec, audio) ==
  IF codec \in DOMAIN Registered THEN Registered[codec]
  ELSE IF audio THEN "pcm" ELSE "mpeg2"

(* A PES packet: number and intervals of what it holds ("data", or "config"*)
(* with no data), the size that InsertPesHeader was told, bytes that were  *)
(* put in front of the data, those of them that were added to the length   *)
(* behind, a byte that is put behind the data, and the kind of header.     *)
Pes(no, data, told) ==
  [no |-> no, data |-> data, told |-> told, lead |-> 0, added |-> 0, tail |-> 0,
   pts |-> FALSE, pic |-> FALSE, config |-> FALSE, ends |-> FALSE]
Configuration(size) == [Pes(0, <<>>, size) EXCEPT !.lead = size, !.config = TRUE]

(* InsertPesHeader: three bytes behind the length, five for a time stamp,  *)
(* five for a picture start code; more than fits is written as "unbounded".*)
HeaderFields(pes) == 3 + (IF pes.pts THEN 5 ELSE 0) + (IF pes.pic THEN 5 ELSE 0)
InsertPesHeader(pes) ==
  HeaderFields(pes) + (IF pes.told > MAX_PES_PACKET_SIZE THEN 0 ELSE pes.told)
LengthField(pes) == (InsertPesHeader(pes) + pes.added) % 65536
DataBytes(pes) == SumFunction([i \in DOMAIN pes.data |-> pes.data[i][2] - pes.data[i][1]])
BytesBehind(pes) == HeaderFields(pes) + pes.lead + DataBytes(pes) + pes.tail

Smaller(a, b) == IF a < b THEN a ELSE b
PiecesOf(size) == (size + MAX_PES_PACKET_SIZE - 1) \div MAX_PES_PACKET_SIZE
Piece(size, i) ==
  <<(i - 1) * MAX_PES_PACKET_SIZE, Smaller(i * MAX_PES_PACKET_SIZE, size)>>

(* The loop of most writers: pieces of at most MAX_PES_PACKET_SIZE, the    *)
(* time stamp with the first of them only.                                 *)
OnlyFirst(i) == i = 1
Split(p) ==
  [i \in 1 .. PiecesOf(p.size) |->
     LET d == Piece(p.size, i)
     IN [Pes(p.no, <<d>>, d[2] - d[1]) EXCEPT !.pts = OnlyFirst(i)]]

Whole(p) == [Pes(p.no, << <<0, p.size>> >>, p.size) EXCEPT !.pts = TRUE]
FirstWith(s, lead, added) ==
  [i \in DOMAIN s |->
     IF i = 1 THEN [s[i] EXCEPT !.lead = lead, !.added = added] ELSE s[i]]

WriteMP3(p) == Split(p)
WriteAC3(p) == Split(p)
WriteMPEG2(p) == Split(p)
WriteDTS(p) == <<Whole(p)>>
WriteH263(p) == FirstWith(<<Whole(p)>>, PrivateDataHeader, PrivateDataHeader)

(* A record for the frame parser (17 bytes), and the stream's header in    *)
(* front of the first packet, are not counted.                             *)
ExtraData == 20
WriteDIVX(p) ==
  <<[Whole(p) EXCEPT !.pic = TRUE, !.config = initialHeader,
                     !.lead = 17 + IF initialHeader THEN ExtraData ELSE 0]>>

(* A packet of metadata; its flag is cleared when it has been written.     *)
WriteWMV(p) ==
  (IF initialHeader THEN <<[Configuration(36) EXCEPT !.ends = TRUE]>> ELSE <<>>)
    \o FirstWith(Split(p), PrivateDataHeader, PrivateDataHeader)

(* Metadata and the sequence header; the flag was cleared before.  A frame *)
(* gets a start code, until one is seen that has it already.               *)
WriteVC1(p, seen) ==
  (IF initialHeader THEN <<Configuration(40), Configuration(ExtraData)>> ELSE <<>>)
    \o FirstWith(Split(p), IF seen THEN 0 ELSE 4, 0)

(* Packets with start codes are written whole, with one byte more.  Of     *)
(* packets with lengths for marks each NAL unit is written with a start    *)
(* code of four bytes, counted as three; a unit that does not fit in ends  *)
(* the loop.  The flag is cleared when both headers have been written.     *)
WriteH264Stream(p) ==
  LET head == IF initialHeader THEN ExtraData ELSE 0
  IN <<[Pes(p.no, << <<0, p.size>> >>, head + p.size + 1) EXCEPT
          !.pts = TRUE, !.pic = TRUE, !.lead = head, !.tail = 1, !.config = initialHeader]>>
NalFrom(p, i) ==
  i * NalLengthBytes + SumFunctionOnSet(p.nals, 1 .. i - 1)
NalFits(p, i) == NalFrom(p, i) + p.nals[i] <= p.size
WholeNals(p) == {i \in DOMAIN p.nals : \A j \in 1 .. i : NalFits(p, j)}
WriteH264Nals(p) ==
  (IF initialHeader THEN <<Configuration(20), [Configuration(ExtraData) EXCEPT !.ends = TRUE]>>
   ELSE <<>>)
    \o [i \in WholeNals(p) |->
          [Pes(p.no, << <<NalFrom(p, i), NalFrom(p, i) + p.nals[i]>> >>, p.nals[i] + 3)
             EXCEPT !.lead = 4, !.pts = OnlyFirst(i)]]

(* The ADTS header is counted, and so long as the packet fits in one PES   *)
(* packet it is written once.                                              *)
WriteAAC(p) ==
  [i \in 1 .. PiecesOf(p.size + AAC_HEADER_LENGTH) |->
     LET d == Piece(p.size + AAC_HEADER_LENGTH, i)
     IN [Pes(p.no, << <<0, p.size>> >>, d[2] - d[1]) EXCEPT
           !.lead = AAC_HEADER_LENGTH, !.pts = OnlyFirst(i)]]

Plan(p, seen) ==
  CASE writer = "mp3" -> WriteMP3(p)
    [] writer = "ac3" -> WriteAC3(p)
    [] writer = "mpeg2" -> WriteMPEG2(p)
    [] writer = "dts" -> WriteDTS(p)
    [] writer = "h263" -> WriteH263(p)
    [] writer = "divx" -> WriteDIVX(p)
    [] writer = "wmv" -> WriteWMV(p)
    [] writer = "vc1" -> WriteVC1(p, seen)
    [] writer = "aac" -> WriteAAC(p)
    [] writer = "h264" -> IF form = "stream" THEN WriteH264Stream(p) ELSE WriteH264Nals(p)

-----------------------------------------------------------------------------
Init ==
  /\ streams = 0 /\ packets = 0 /\ writer = "none" /\ form = "none"
  /\ initialHeader = FALSE /\ FrameHeaderSeen = FALSE /\ headless = FALSE
  /\ restart_audio_resampling = FALSE /\ swr = FALSE /\ ready = FALSE
  /\ breakBuffer = <<>> /\ left = 0 /\ decoded = 0 /\ begin = 0 /\ torn = FALSE
  /\ packet = NoPacket /\ plan = <<>> /\ at = "idle" /\ device = <<>> /\ taken = {}

(* Output switches to a stream and clears the device; the writer's Init.   *)
(* It does not touch the break buffer, nor FrameHeaderSeen.                *)
Switch ==
  /\ at = "idle" /\ streams < MaxStreams
  /\ streams' = streams + 1 /\ packets' = 0
  /\ \E codec \in Codecs, audio \in BOOLEAN : writer' = GetWriter(codec, audio)
  /\ form' \in IF writer' = "h264" THEN {"stream", "nals", "bare"} ELSE {"stream"}
  /\ initialHeader' = TRUE /\ restart_audio_resampling' = TRUE
  /\ headless' = FALSE /\ device' = <<>> /\ taken' = {} /\ begin' = decoded /\ torn' = FALSE
  /\ ready' = FALSE
  /\ UNCHANGED <<FrameHeaderSeen, swr, breakBuffer, left, decoded, packet, plan, at>>

Returns(ok) ==
  /\ at' = "idle" /\ plan' = <<>> /\ packet' = NoPacket
  /\ taken' = IF ok THEN taken \cup {packet} ELSE taken

(* Write of all writers but PCM's, up to its first writev.  DIVX, VC1 and  *)
(* H264 with start codes clear the flag before they know of the write.     *)
HeaderSeen(p) ==
  writer = "vc1" /\ ((FrameHeaderSeen /\ ~initialHeader) \/ p.coded)
ClearsFirstAndWMV == writer \in {"divx", "vc1", "wmv"} \/ (writer = "h264" /\ form = "stream")
ClearsFirst == writer \in {"divx", "vc1"} \/ (writer = "h264" /\ form = "stream")
Write(p) ==
  /\ at = "idle" /\ writer \notin {"none", "pcm"}
  /\ IF form = "bare" THEN UNCHANGED <<packet, plan, at, header, taken>>
     ELSE /\ packet' = p /\ at' = "write"
          /\ plan' = Plan(p, HeaderSeen(p))
          /\ initialHeader' = (initialHeader /\ ~ClearsFirst)
          /\ FrameHeaderSeen' = IF writer = "vc1" THEN HeaderSeen(p) ELSE FrameHeaderSeen
          /\ UNCHANGED <<headless, taken>>
  /\ UNCHANGED <<setup, pcm, device>>

PacketsOf(no) ==
  CASE writer = "aac" -> [no : {no}, size : AacSizes, coded : {FALSE}, nals : {<<>>}]
    [] writer = "vc1" -> [no : {no}, size : Sizes, coded : BOOLEAN, nals : {<<>>}]
    [] writer = "h264" /\ form = "nals" ->
         {[no |-> no, nals |-> n, coded |-> FALSE,
           size |-> Len(n) * NalLengthBytes + SumFunction(n) - short] :
            n \in NalLists, short \in {0, 1}}
    [] OTHER -> [no : {no}, size : Sizes, coded : {FALSE}, nals : {<<>>}]
WritePacket ==
  /\ packets < MaxPackets /\ packets' = packets + 1
  /\ \E p \in PacketsOf(packets + 1) : Write(p)

(* One writev.  A header that was not written is tried again, if its flag  *)
(* is still there.                                                         *)
WriteDone ==
  /\ at = "write" /\ plan # <<>>
  /\ device' = Append(device, Head(plan))
  /\ initialHeader' = (initialHeader /\ ~Head(plan).ends)
  /\ plan' = Tail(plan)
  /\ UNCHANGED <<setup, packets, pcm, FrameHeaderSeen, headless, packet, at, taken>>

ConfigAhead == \E i \in DOMAIN plan : plan[i].config
WriteFails ==
  /\ at = "write" /\ plan # <<>> /\ writer # "pcm"
  /\ headless' = (headless \/ (ConfigAhead /\ ~initialHeader))
  /\ Returns(FALSE)
  /\ UNCHANGED <<setup, packets, pcm, initialHeader, FrameHeaderSeen, device>>

WriteEnds ==
  /\ at = "write" /\ plan = <<>> /\ writer # "pcm"
  /\ Returns(TRUE)
  /\ UNCHANGED <<setup, packets, pcm, header, device>>

-----------------------------------------------------------------------------
(* WriterPCM.                                                              *)

(* Write without a packet, when the play loop begins or has jumped.        *)
RestartResampling ==
  /\ at = "idle" /\ writer = "pcm" /\ ~restart_audio_resampling
  /\ restart_audio_resampling' = TRUE
  /\ UNCHANGED <<setup, packets, header, swr, ready, breakBuffer, left, decoded, begin,
                 torn, packet, plan, at, device, taken>>

(* The codec and the resampler are opened again if that was asked for.  If *)
(* the codec cannot be opened the packet is lost, and the next will find   *)
(* it closed; if the resampler cannot, both are tried again.  Flush gives  *)
(* a packet without data, to get what the decoder keeps.                   *)
WritePCM(flush) ==
  /\ at = "idle" /\ writer = "pcm"
  /\ LET again == restart_audio_resampling
         set == swr /\ ~again
     IN \/ /\ again
           /\ restart_audio_resampling' = FALSE /\ swr' = FALSE /\ ready' \in {ready, FALSE}
           /\ initialHeader' = TRUE
           /\ UNCHANGED <<packet, left, at>>
        \/ /\ ~set
           /\ restart_audio_resampling' = TRUE /\ swr' = TRUE /\ ready' = (again \/ ready)
           /\ initialHeader' = (initialHeader \/ again)
           /\ UNCHANGED <<packet, left, at>>
        \/ /\ restart_audio_resampling' = FALSE /\ swr' = TRUE /\ ready' = (again \/ ready)
           /\ initialHeader' = (initialHeader \/ again)
           /\ packet' = [NoPacket EXCEPT !.no = packets']
           /\ left' = IF flush THEN Flush ELSE 2
           /\ at' = "decode"
  /\ UNCHANGED <<setup, FrameHeaderSeen, headless, breakBuffer, decoded, begin, torn, plan,
                 device, taken>>
WriteSamples ==
  \/ packets < MaxPackets /\ packets' = packets + 1 /\ WritePCM(FALSE)
  \/ UNCHANGED packets /\ WritePCM(TRUE)

(* prepareClipPlay begins with an empty break buffer and a cleared device. *)
PreparedNot == breakBuffer
Prepared == <<>>
Kept(first) == IF first THEN Prepared ELSE breakBuffer

(* writePCM cuts what the break buffer holds and the new frame into pieces *)
(* of SubFrameLen and keeps the rest.  A frame that does not fill a piece  *)
(* together with what is kept is written over it, and as much is copied as *)
(* there is of both, from behind the end of the frame too.                 *)
HeldBytes(held) == SumFunction([i \in DOMAIN held |-> held[i][2] - held[i][1]])
PiecesIn(size) == size \div SubFrameLen
SubFrame(held, from, i) ==
  LET fill == HeldBytes(held)
      to == from + i * SubFrameLen - fill
  IN IF i = 1 THEN held \o << <<from, to>> >> ELSE << <<to - SubFrameLen, to>> >>
Rest(held, from, n) ==
  LET size == HeldBytes(held) + n
      rest == size % SubFrameLen
  IN IF size < SubFrameLen THEN << <<from, from + size>> >>
     ELSE IF rest = 0 THEN <<>> ELSE << <<from + n - rest, from + n>> >>

UsedUp == left \in {0, Flush}
Less(l) == IF l = Flush THEN {Flush} ELSE {l - 1, 0}

Decode(n) ==
  /\ at = "decode" /\ ready /\ decoded + n <= MaxDecoded
  /\ left' \in Less(left)
  /\ LET held == Kept(initialHeader)
         size == HeldBytes(held) + n
     IN /\ plan' = [i \in 1 .. PiecesIn(size) |->
                      [Pes(packet.no, SubFrame(held, decoded, i), 14 + SubFrameLen)
                         EXCEPT !.lead = 14, !.pts = TRUE]]
        /\ breakBuffer' = Rest(held, decoded, n)
        /\ torn' = ((torn /\ ~initialHeader) \/ (held # <<>> /\ size < SubFrameLen))
  /\ device' = IF initialHeader THEN <<>> ELSE device
  /\ begin' = IF initialHeader THEN decoded ELSE begin
  /\ initialHeader' = FALSE
  /\ decoded' = decoded + n
  /\ at' = "samples"
  /\ UNCHANGED <<setup, packets, FrameHeaderSeen, headless, restart_audio_resampling, swr,
                 ready, packet, taken>>

(* No frame yet, or no more.  Write says true when the packet is used up.  *)
DecodeNothing ==
  /\ at = "decode" /\ ready
  /\ left' \in Less(left)
  /\ IF left' \in {0, Flush} THEN Returns(TRUE) ELSE UNCHANGED <<at, plan, packet, taken>>
  /\ UNCHANGED <<setup, packets, header, restart_audio_resampling, swr, ready, breakBuffer,
                 decoded, begin, torn, device>>

DecodeFails ==
  /\ at = "decode"
  /\ restart_audio_resampling' = TRUE
  /\ Returns(left = Flush)
  /\ UNCHANGED <<setup, packets, header, swr, ready, breakBuffer, left, decoded, begin,
                 torn, device>>

SamplesDone ==
  /\ at = "samples" /\ plan # <<>>
  /\ device' = Append(device, Head(plan)) /\ plan' = Tail(plan)
  /\ UNCHANGED <<setup, packets, pcm, header, packet, at, taken>>

SamplesFail ==
  /\ at = "samples" /\ plan # <<>>
  /\ restart_audio_resampling' = TRUE /\ breakBuffer' = <<>>
  /\ Returns(UsedUp)
  /\ UNCHANGED <<setup, packets, header, swr, ready, left, decoded, begin, torn, device>>

(* The loop goes on while something is left; flushing, until no frame      *)
(* comes.                                                                  *)
SamplesEnd ==
  /\ at = "samples" /\ plan = <<>>
  /\ IF left = 0 THEN Returns(TRUE)
     ELSE at' = "decode" /\ UNCHANGED <<plan, packet, taken>>
  /\ UNCHANGED <<setup, packets, pcm, header, device>>

-----------------------------------------------------------------------------
Next ==
  \/ Switch \/ WritePacket \/ WriteDone \/ WriteFails \/ WriteEnds
  \/ RestartResampling \/ WriteSamples
  \/ \E n \in FrameSizes : Decode(n)
  \/ DecodeNothing \/ DecodeFails \/ SamplesDone \/ SamplesFail \/ SamplesEnd

Spec == Init /\ [][Next]_vars

-----------------------------------------------------------------------------
(* The shape of the state.  The loops that are left to themselves have a   *)
(* packet, and only writePCM uses the break buffer.                        *)
Writer == {"mp3", "ac3", "mpeg2", "dts", "h263", "divx", "wmv", "vc1", "h264", "aac", "pcm"}
TypeOK ==
  /\ streams \in 0 .. MaxStreams /\ packets \in 0 .. MaxPackets
  /\ writer \in Writer \cup {"none"} /\ form \in {"none", "stream", "nals", "bare"}
  /\ {initialHeader, FrameHeaderSeen, restart_audio_resampling, swr, ready, torn, headless}
       \subseteq BOOLEAN
  /\ at \in {"idle", "write", "decode", "samples"} /\ left \in {Flush, 0, 1, 2}
  /\ at = "write" => writer \notin {"none", "pcm"} /\ packet.no = packets
  /\ at \in {"decode", "samples"} => writer = "pcm" /\ ~restart_audio_resampling /\ swr
  /\ HeldBytes(breakBuffer) < SubFrameLen
  /\ 0 <= begin /\ begin <= decoded /\ decoded <= MaxDecoded

SamplesOf(pess) == FlattenSeq([i \in DOMAIN pess |-> pess[i].data])
DataPes == {i \in DOMAIN device : device[i].data # <<>>}
FirstOf(i) == \A j \in DataPes : j < i => device[j].no # device[i].no
Gap == IF form = "nals" THEN NalLengthBytes ELSE 0
LastByte(p) ==
  IF form # "nals" THEN p.size
  ELSE LET n == WholeNals(p) IN IF n = {} THEN 0 ELSE NalFrom(p, Max(n)) + p.nals[Max(n)]

(* The stream on the device is the stream of the packets.  Of each packet  *)
(* the pieces are written in order and without a gap, to the last byte if  *)
(* Write says so (of an H264 packet with lengths, to its last whole unit); *)
(* the first piece has the time stamp, and no other.  PCM is the decoded   *)
(* samples since the device was cleared, without a gap, and all of them    *)
(* but what waits in the break buffer: the rest of one stream, or from     *)
(* before a jump, never gets into the next.  Excepted is a break buffer    *)
(* that was overwritten by a short frame.                                  *)
PacketsWhole ==
  /\ \A i \in DataPes :
       LET from == device[i].data[1][1]
           before == {j \in DataPes : j < i /\ device[j].no = device[i].no}
       IN /\ \A j \in DataPes : j < i => device[j].no <= device[i].no
          /\ from = Gap + IF before = {} THEN 0 ELSE device[Max(before)].data[1][2]
          /\ device[i].pts = FirstOf(i)
  /\ \A p \in taken : LastByte(p) > 0 =>
       \E i \in DataPes : device[i].no = p.no /\ device[i].data[1][2] = LastByte(p)
SamplesWhole ==
  LET s == SamplesOf(device \o plan) \o IF initialHeader THEN <<>> ELSE breakBuffer
  IN /\ \A i \in 1 .. Len(s) - 1 : s[i][2] = s[i + 1][1]
     /\ s # <<>> => s[1][1] = begin
     /\ s # <<>> /\ at = "idle" /\ ~restart_audio_resampling /\ ~initialHeader =>
          s[Len(s)][2] = decoded
DataIsWhole ==
  CASE writer = "none" -> TRUE
    [] writer = "pcm" -> torn \/ SamplesWhole
    [] OTHER -> PacketsWhole

(* The decoder can tell what it gets.  The stream's header comes before    *)
(* the stream, also when a write fails, unless the writer had cleared its  *)
(* flag by then: that of DIVX, of VC1 and of H264 with start codes.  And   *)
(* the length of a PES packet is true, where it fits in 16 bits, unless    *)
(* the writer puts a start code or a record in front that it does not      *)
(* count: DIVX, VC1 and H264 with lengths.                                 *)
Headers == [divx |-> 1, wmv |-> 1, vc1 |-> 2, h264 |-> IF form = "nals" THEN 2 ELSE 1]
LosesHeader == writer \in {"divx", "vc1"} \/ (writer = "h264" /\ form = "stream")
HeaderFirst ==
  writer \in DOMAIN Headers /\ ~(headless /\ LosesHeader) =>
    \A i \in DataPes :
      Cardinality({j \in 1 .. i : device[j].config}) >= Headers[writer]
Counts(pes) == pes.data = <<>> \/ (writer \notin {"divx", "vc1"} /\ form # "nals")
LengthsTrue ==
  \A i \in DOMAIN device :
    Counts(device[i]) /\ BytesBehind(device[i]) <= 65535 =>
      LengthField(device[i]) = BytesBehind(device[i])
DecoderCanTell == HeaderFirst /\ LengthsTrue

(* What the device is given is the stream, and decodable as such. *)
StreamIsWritten == DataIsWhole /\ DecoderCanTell
=============================================================================
