------------------------------- MODULE Remux -------------------------------
(***************************************************************************)
(* read_mpeg of libtriple/playback_td.cpp: a recording that is a program   *)
(* stream (MPG, VDR) is read into pesbuf, its packets of audio and video   *)
(* are cut into transport packets, which go to inbuf and from there to the *)
(* decoder; a seek empties inbuf and goes on elsewhere.                    *)
(*                                                                         *)
(* A recording is a sequence of items, [what, len], and a place in it the  *)
(* number of a byte.  What pesbuf holds is a sequence of pieces of the     *)
(* recording: the seek leaves it alone, so that what was left of the old   *)
(* place is in front of the new one.  inbuf is counted in packets of 188   *)
(* bytes.  TripleFile has the files, the end of which is the end of the    *)
(* one file here.  No start code begins inside an item or where two pieces *)
(* meet.                                                                   *)
(*                                                                         *)
(* Not modelled: what is inside a transport packet and its counter, the    *)
(* list of audio streams, MPEG 1's pack header of 12 bytes, and the reads  *)
(* of a thread that waits for the first time stamp of a growing file.      *)
(***************************************************************************)
EXTENDS Integers, Sequences, SequencesExt, FiniteSetsExt

CONSTANTS
  Recordings,     \* sequences of items
  Places,         \* where seek_to_pts looks
  InBuf,          \* INBUF_SIZE / 188
  Written         \* how much the decoder takes at once, if not everything

PesSize == 80 * 1024
Whats == {"video", "audio", "ac3",   \* cut into packets
          "other",                   \* skipped by its length
          "pack", "code",            \* without a length: ba; b9, bc and the rest
          "garbage"}                 \* without a start code

VARIABLES
  rec,
  pos,            \* curr_pos
  pes,            \* pesbuf: pieces <<from, to>>
  count,
  inbuf,
  ret,
  speed,          \* 0 or 1
  pc,             \* "idle", "read", "scan" or "write"
  goal,           \* what Start or seek_to_pts fills inbuf to, 0 for the thread
  (* ghosts *)
  last,           \* the packet cut last
  pts,            \* the video packet pts_curr is from
  seam,           \* has another piece begun since `last`?
  skipped         \* was a packet left out inside of a piece?

file == <<pos, ret>>
buffers == <<pes, count, inbuf>>
control == <<speed, pc, goal>>
ghosts == <<last, pts, seam, skipped>>
vars == <<rec, file, buffers, control, ghosts>>

Min2(a, b) == IF a < b THEN a ELSE b
Begin(i) == FoldLeft(LAMBDA n, item : n + item.len, 0, SubSeq(rec, 1, i - 1))
Size == Begin(Len(rec) + 1)
Coded == {i \in DOMAIN rec : rec[i].what # "garbage"}
Cut == {i \in DOMAIN rec : rec[i].what \in {"video", "audio", "ac3"}}
CutAfter(i) == {k \in Cut : k > i}

(* pesbuf *)
Offset(j) == FoldLeft(LAMBDA n, p : n + p[2] - p[1], 0, SubSeq(pes, 1, j - 1))
pesbuf_pos == Offset(Len(pes) + 1)
Piece(o) == CHOOSE j \in DOMAIN pes : Offset(j) <= o /\ o < Offset(j + 1)
Codes ==
  {[at |-> Offset(j) + Begin(i) - pes[j][1], item |-> i] :
     <<j, i>> \in {p \in (DOMAIN pes) \X Coded :
                     pes[p[1]][1] <= Begin(p[2]) /\ Begin(p[2]) < pes[p[1]][2]}}

TypeOK ==
  /\ rec \in Recordings /\ pos \in 0 .. Size /\ ret \in 0 .. PesSize
  /\ \A j \in DOMAIN pes : pes[j][1] < pes[j][2] /\ pes[j][2] <= Size
  /\ pesbuf_pos <= PesSize /\ count \in 0 .. pesbuf_pos
  /\ inbuf \in 0 .. InBuf /\ speed \in {0, 1}
  /\ pc \in {"idle", "read", "scan", "write"} /\ goal \in 0 .. InBuf
  /\ last \in {0} \cup Cut /\ pts \in {0} \cup Cut
  /\ seam \in BOOLEAN /\ skipped \in BOOLEAN

(* Start fills half of inbuf. *)
Init ==
  /\ rec \in Recordings
  /\ pos = 0 /\ ret = 0 /\ pes = <<>> /\ count = 0 /\ inbuf = 0
  /\ speed = 0 /\ pc = "read" /\ goal = InBuf \div 2
  /\ last = 0 /\ pts = 0 /\ seam = FALSE /\ skipped = FALSE

-----------------------------------------------------------------------------
(* read_mpeg.                                                              *)

ToRead == Min2(PesSize - pesbuf_pos, (InBuf - inbuf) * 188)

Appended(from, to) ==
  IF from = to THEN pes
  ELSE IF pes # <<>> /\ Last(pes)[2] = from
         THEN [pes EXCEPT ![Len(pes)] = <<@[1], to>>]
         ELSE Append(pes, <<from, to>>)

Read ==
  /\ pc = "read"
  /\ ret' = Min2(ToRead, Size - pos)
  /\ pos' = pos + ret'
  /\ pes' = Appended(pos, pos')
  /\ count' = 0
  /\ pc' = "scan"
  /\ UNCHANGED <<rec, inbuf, speed, goal, ghosts>>

(* The start codes that mp_syncPES may find, and the first of them. *)
Ahead == {s \in Codes : s.at >= count /\ s.at < pesbuf_pos - 14}
Found == CHOOSE s \in Ahead : \A t \in Ahead : s.at <= t.at
Skips == count < pesbuf_pos - 10 /\ Ahead # {}

Parts(i) == (rec[i].len + 183) \div 184
Packet == rec[Found.item].what \notin {"pack", "code"}
Complete == Found.at + rec[Found.item].len < pesbuf_pos
(* There must be room for one more than the whole ones. *)
Fits == rec[Found.item].len \div 184 + 1 <= InBuf - inbuf

Crossed(o) == Piece(o) # Piece(count)

(* A header without a length: mp_syncPES finds what follows. *)
SkipHeader ==
  /\ pc = "scan" /\ Skips /\ ~Packet
  /\ count' = Found.at + IF rec[Found.item].what = "pack" THEN 14 ELSE 1
  /\ seam' = (seam \/ Crossed(count'))
  /\ UNCHANGED <<rec, file, pes, inbuf, control, last, pts, skipped>>

Stamped(i) == IF rec[i].what = "video" THEN i ELSE pts
InbufAfter(i) == inbuf + Parts(i)
CountAfter(i) == Found.at + rec[i].len

CutPacket ==
  /\ pc = "scan" /\ Skips /\ Packet /\ Complete /\ Fits
  /\ LET i == Found.item
         jumped == seam \/ Crossed(Found.at)
     IN  /\ count' = CountAfter(i)
         /\ pts' = Stamped(i)
         /\ IF i \in Cut
              THEN /\ inbuf' = InbufAfter(i)
                   /\ skipped' = (skipped \/ (~jumped /\ i # Min(CutAfter(last))))
                   /\ last' = i
                   /\ seam' = (Piece(count') # Piece(Found.at))
              ELSE /\ seam' = (jumped \/ Crossed(count'))
                   /\ UNCHANGED <<inbuf, last, skipped>>
  /\ UNCHANGED <<rec, file, pes, control>>

(* pesbuf from offset n on. *)
From(n) ==
  IF n >= pesbuf_pos THEN <<>>
  ELSE LET j == Piece(n)
       IN  <<<<pes[j][1] + n - Offset(j), pes[j][2]>>>> \o SubSeq(pes, j + 1, Len(pes))

\* As KeptFrom, but a packet that does not fit is dropped.
KeptBehind == IF Skips /\ Complete THEN CountAfter(Found.item) ELSE IF Skips THEN Found.at ELSE count

(* A packet that is not complete or does not fit waits at the front of     *)
(* pesbuf; so does what no start code was found in.                        *)
KeptFrom == IF Skips THEN Found.at ELSE count
Refills == inbuf < goal /\ ret > 0
Return ==
  /\ pc = "scan"
  /\ Skips => Packet /\ ~(Complete /\ Fits)
  /\ pes' = From(KeptFrom) /\ count' = 0
  /\ pts' = IF Skips THEN Stamped(Found.item) ELSE pts
  /\ seam' = (seam \/ (KeptFrom < pesbuf_pos /\ KeptFrom > 0 /\ Crossed(KeptFrom)))
  /\ pc' = IF Refills THEN "read" ELSE IF goal > 0 THEN "idle" ELSE "write"
  /\ goal' = IF Refills THEN goal ELSE 0
  /\ UNCHANGED <<rec, file, inbuf, speed, last, skipped>>

-----------------------------------------------------------------------------
(* The play thread and the seek.                                           *)

Play ==
  /\ pc = "idle" /\ speed = 1
  /\ pc' = "read"
  /\ UNCHANGED <<rec, file, buffers, speed, goal, ghosts>>

Write ==
  /\ pc = "write"
  /\ inbuf' \in {0, IF inbuf > Written THEN inbuf - Written ELSE 0}
  /\ pc' = "idle"
  /\ UNCHANGED <<rec, file, pes, count, speed, goal, ghosts>>

SetSpeed ==
  /\ pc = "idle"
  /\ speed' = 1 - speed
  /\ UNCHANGED <<rec, file, buffers, pc, goal, ghosts>>

(* mp_seekSync searches in blocks of 1024 bytes, of which 1020 are looked  *)
(* at; once it has kept three bytes of the last block, it is three bytes   *)
(* off.  What is not found in 128 kB is not looked for any more.           *)
Target(p) ==
  LET starts == {Begin(i) : i \in Coded} \cap (p .. p + 131072)
  IN  IF starts = {} THEN p
      ELSE IF Min(starts) - p < 1020 THEN Min(starts) ELSE Min(starts) + 3

(* One try of seek_to_pts. *)
Seek(p) ==
  /\ pc = "idle" /\ speed = 0 /\ p < Size
  /\ pos' = Target(p)
  /\ inbuf' = 0
  /\ seam' = (seam \/ pes = <<>>)
  /\ goal' = (InBuf * 8) \div 10 /\ pc' = "read"
  /\ UNCHANGED <<rec, ret, pes, count, speed, last, pts, skipped>>

Next ==
  \/ Read \/ SkipHeader \/ CutPacket \/ Return
  \/ Play \/ Write \/ SetSpeed
  \/ \E p \in Places : Seek(p)

-----------------------------------------------------------------------------
(* Every packet of audio and video is cut into packets once and in order,  *)
(* but where a seek joins two places; and pts_curr is from the last one    *)
(* that was cut, or the one behind it, which waits.                        *)
NothingSkipped ==
  /\ ~skipped
  /\ ~seam /\ pc # "scan" /\ pts > last => pts = Min(CutAfter(last))

Idle == pc = "idle" /\ speed = 1

(* Reading goes on as long as there is something to read, unless 80 kB     *)
(* without a start code have come: those are never dropped.                *)
ReadsOn == Idle /\ inbuf = 0 /\ ToRead = 0 => \A s \in Codes : s.at >= pesbuf_pos - 14

(* When all has been read and written, every packet has been cut but one   *)
(* that ends with the file: a packet is complete when a byte follows it.   *)
EndIsPlayed ==
  Idle /\ inbuf = 0 /\ pos = Size /\ ret = 0 /\ ~seam /\ ToRead > 0 =>
    \A i \in CutAfter(last) : Begin(i) + Min2(rec[i].len, 14) >= Size - 1 \/ Begin(i + 1) = Size

PacketsArrive == NothingSkipped /\ ReadsOn /\ EndIsPlayed
=============================================================================
