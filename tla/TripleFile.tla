----------------------------- MODULE TripleFile -----------------------------
(***************************************************************************)
(* How libtriple/playback_td.cpp finds its way through a recording: files  *)
(* that are played as one, the read that goes on in the next file,        *)
(* fast play with its skipped packets, the search for a packet to go on    *)
(* with after a seek, a last file that still grows (timeshift), and the    *)
(* 33-bit time stamps from which position and duration are computed.       *)
(*                                                                         *)
(* A byte is its number in the recording.  A packet has Pkt bytes and      *)
(* begins at every multiple of Pkt with the sync byte; each is video with  *)
(* a time stamp, one tick a byte.  The play thread and the calls of the    *)
(* user take turns under currpos_mutex; what becomes of a seek that does   *)
(* not wait for the thread is in TriplePlayback.                           *)
(***************************************************************************)
EXTENDS Integers, SequencesExt, FiniteSetsExt

CONSTANTS
  Lists,       \* the recordings: sequences of the sizes found by Start
  MaxSize,     \* bound: bytes of a recording that grows
  Places,      \* positions that seek_to_pts comes to
  Pkt,         \* bytes of a packet (188)
  InBuf,       \* INBUF_SIZE
  PesBuf,      \* PESBUF_SIZE
  Probe,       \* the limit of mp_seekSync
  Wrap,        \* the stamps' modulus (2^33)
  Bases,       \* stamps of the first packet
  GuessLimit,  \* growth for which the end is guessed (10 MB)
  False        \* bytes inside packets that look like sync bytes

Kinds == {"ts", "pes"}

ASSUME FileAssumption ==
  /\ Pkt \in Nat \ {0, 1} /\ InBuf % Pkt = 0 /\ PesBuf \in Nat
  /\ MaxSize < Wrap /\ Places \subseteq Nat /\ Bases \subseteq 0 .. Wrap - 1

VARIABLES
  kind,        \* filetype
  list,        \* filelist[].Size
  disk,        \* the true size of each file
  fs,          \* curr_fileno (no, from 1), the descriptor's offset (at), curr_pos (pos)
  inbuf,       \* bytes read and not yet written to the DVR
  speed,       \* playback_speed
  pc,          \* the thread: "idle", "fast" (inside read_ts), "eof", "error"
  fast,        \* the locals of read_ts at a higher speed
  pts,         \* pts_start (first), pts_curr (curr), pts_end (end), _pts_end (raw)
  lastSize,    \* last_size
  seen,        \* history: the packet that pts_curr is from
  gaps,        \* history: has inbuf packets that fast play picked?
  drift        \* history: has a failed seek moved the descriptor alone?

base == pts.base
vars == <<kind, list, disk, fs, inbuf, speed, pc, fast, pts, lastSize, seen, gaps, drift>>

-----------------------------------------------------------------------------
(* The recording. *)

Sum(s) == FoldLeft(+, 0, s)
Before(i) == Sum(SubSeq(list, 1, i - 1))
Single == Len(list) = 1
Size == IF Single THEN disk[1] ELSE Sum(list)       \* mf_getsize
Length == Before(Len(list)) + disk[Len(list)]       \* what is really there
Here(w) == Before(w.no) + w.at
Left(w) == disk[w.no] - w.at

Stamp(g) == (base + g) % Wrap
Looks(g) == g % Pkt = 0 \/ g \in False
LastPacket(len) == Max({0} \cup {g \in 0 .. len - Pkt : g % Pkt = 0})

\* As FileOf, but a position at the end of a file belongs to that file.
FileOfBefore(p) == {i \in DOMAIN list : p <= Before(i) + list[i]}

FileOf(p) == {i \in DOMAIN list : p < Before(i) + list[i]}

(* mf_lseek: the file that holds position p, by the sizes in the list; a   *)
(* single transport stream may have grown and is taken at its true size.   *)
Sought(p) ==
  IF Single /\ kind = "ts" THEN p <= Size ELSE FileOf(p) # {}

\* As Lseek, but always in the first file.
LseekFirst(w, p) == IF Sought(p) THEN [no |-> 1, at |-> p, pos |-> p] ELSE w

\* As Lseek, but curr_pos is the position within the file.
LseekLocal(w, p) ==
  IF ~Sought(p) THEN w
  ELSE LET i == IF Single /\ kind = "ts" THEN 1 ELSE Min(FileOf(p))
       IN  [no |-> i, at |-> p - Before(i), pos |-> p - Before(i)]

Lseek(w, p) ==
  IF ~Sought(p) THEN w
  ELSE LET i == IF Single /\ kind = "ts" THEN 1 ELSE Min(FileOf(p))
       IN  [no |-> i, at |-> p - Before(i), pos |-> p]

Min2(a, b) == IF a < b THEN a ELSE b
Advance(w, n) == [w EXCEPT !.at = @ + n, !.pos = @ + n]
Bytes(w, n) == [k \in 1 .. n |-> Here(w) + k - 1]

-----------------------------------------------------------------------------
NotFast == [toread |-> 0, done |-> 0, ret |-> 0, retry |-> TRUE, eof |-> TRUE]

Init ==
  /\ kind \in Kinds
  /\ list \in Lists
  /\ disk = list
  /\ fs = [no |-> 1, at |-> 0, pos |-> 0]
  /\ inbuf = << >>
  /\ speed = 0
  /\ pc = "idle"
  /\ fast = NotFast
  /\ \E b \in Bases :
       LET first == b
           end == (b + LastPacket(Sum(list))) % Wrap
       IN  pts = [base |-> b, first |-> first, curr |-> first,
                  end |-> IF Sum(list) <= InBuf THEN -1
                          ELSE IF first > end THEN end + Wrap ELSE end,
                  raw |-> 0]
  /\ lastSize = 0 /\ seen = 0
  /\ gaps = FALSE /\ drift = FALSE

(* A recording in progress: the last file gets longer. *)
Grow ==
  /\ Length < MaxSize
  /\ disk' = [disk EXCEPT ![Len(disk)] = @ + 1]
  /\ UNCHANGED <<kind, list, fs, inbuf, speed, pc, fast, pts, lastSize, seen, gaps, drift>>

(* The stamps of the packets in inbuf: pts_curr is the last of them. *)
Packets(buf) ==
  {i \in 1 .. Len(buf) - Pkt + 1 :
     buf[i] % Pkt = 0 /\ buf[i + Pkt - 1] = buf[i] + Pkt - 1}
Scan(buf) ==
  IF Packets(buf) = {} THEN UNCHANGED <<pts, seen>>
  ELSE /\ seen' = buf[Max(Packets(buf))]
       /\ pts' = [pts EXCEPT !.curr = Stamp(seen')]

-----------------------------------------------------------------------------
(* read_ts at normal speed, and read_mpeg: where a read returns nothing,   *)
(* curr_pos is looked up again, which may lead into the next file, and     *)
(* the read is repeated once.                                              *)
\* (history) curr_pos and the descriptor agree again, as an mf_lseek leaves them.
Resettled(moved) ==
  /\ drift' = (drift /\ ~moved)
  /\ gaps' = (gaps \/ (drift /\ moved /\ inbuf # << >>))

Refound(room) == IF Min2(room, Left(fs)) = 0 THEN Lseek(fs, fs.pos) ELSE fs

Read ==
  /\ pc = "idle" /\ (speed <= 1 \/ kind = "pes")
  /\ LET room == InBuf - Len(inbuf)
         w == Refound(room)
         n == Min2(room, Left(w))
     IN  /\ room > 0
         /\ inbuf' = inbuf \o Bytes(w, n)
         /\ fs' = Advance(w, n)
         /\ pc' = IF n = 0 THEN "eof" ELSE "idle"
         /\ Resettled(w # fs)
  /\ Scan(inbuf')
  /\ UNCHANGED <<kind, list, disk, speed, fast, lastSize>>

(* What follows the end of the file: nothing to write, and the next read. *)
ReadAgain ==
  /\ pc = "eof"
  /\ pc' = "idle"
  /\ UNCHANGED <<kind, list, disk, fs, inbuf, speed, fast, pts, lastSize, seen, gaps, drift>>

(* write(dvrfd) takes whole packets, all that there are or some of them. *)
Write ==
  /\ pc \in {"idle", "eof"} /\ speed # 0
  /\ \E k \in 1 .. Len(inbuf) \div Pkt :
       /\ inbuf' = SubSeq(inbuf, k * Pkt + 1, Len(inbuf))
       /\ gaps' = (gaps /\ inbuf' # << >>)
  /\ UNCHANGED <<kind, list, disk, fs, speed, pc, fast, pts, lastSize, seen, drift>>

SetSpeed(s) ==
  /\ speed # s
  /\ speed' = s
  /\ UNCHANGED <<kind, list, disk, fs, inbuf, pc, fast, pts, lastSize, seen, gaps, drift>>

-----------------------------------------------------------------------------
(* read_ts at a higher speed: chunk after chunk is read, of which packets  *)
(* are picked until inbuf is full.  retry and eof are set once for the     *)
(* call, so that a second end of a file is not looked behind, and the end  *)
(* of the last is only seen when nothing has been read before it: in both  *)
(* cases the loop goes on reading nothing.  A chunk is filled by several   *)
(* reads only where a file ends; each of them goes to the front of pesbuf, *)
(* and sync_ts is shown the length of the last.                            *)
Chunk == (PesBuf \div Pkt) * Pkt

FastBegin ==
  /\ pc = "idle" /\ speed > 1 /\ kind = "ts"
  /\ Len(inbuf) < InBuf
  /\ pc' = "fast"
  /\ fast' = [NotFast EXCEPT !.toread = InBuf - Len(inbuf)]
  /\ UNCHANGED <<kind, list, disk, fs, inbuf, speed, pts, lastSize, seen, gaps, drift>>

FastRead ==
  /\ pc = "fast" /\ fast.done < Chunk
  /\ LET n == Min2(Chunk - fast.done, Left(fs))
     IN  /\ n > 0
         /\ fs' = Advance(fs, n)
         /\ fast' = [fast EXCEPT !.done = @ + n, !.ret = n, !.eof = FALSE]
  /\ UNCHANGED <<kind, list, disk, inbuf, speed, pc, pts, lastSize, seen, gaps, drift>>

FastRetry ==
  /\ pc = "fast" /\ fast.done < Chunk
  /\ Left(fs) = 0 /\ fast.retry
  /\ fs' = Lseek(fs, fs.pos)
  /\ fast' = [fast EXCEPT !.retry = FALSE]
  /\ Resettled(fs' # fs)
  /\ UNCHANGED <<kind, list, disk, inbuf, speed, pc, pts, lastSize, seen>>

FastEnd ==
  /\ pc = "fast" /\ fast.done < Chunk
  /\ Left(fs) = 0 /\ ~fast.retry /\ fast.eof
  /\ pc' = "eof" /\ fast' = NotFast
  /\ UNCHANGED <<kind, list, disk, fs, inbuf, speed, pts, lastSize, seen, gaps, drift>>

(* sync_ts; a search that finds nothing ends the play thread. *)
Synced(first, len) ==
  {c \in 0 .. len - Pkt : Looks(first + c) /\ Looks(first + c + Pkt)}


(* Packet i of a chunk that began at g, with the c bytes in front of the   *)
(* first sync byte moved over; the last c bytes are there twice.           *)
PacketAt(g, c, i) ==
  [k \in 1 .. Pkt |-> LET b == i * Pkt + k - 1
                      IN  g + b + IF b < Chunk - c THEN c ELSE 0]

FastNoSync ==
  /\ pc = "fast" /\ fast.done = Chunk
  /\ fast.ret < Pkt + 1 \/ Synced(Here(fs) - fast.ret, fast.ret) = {}
  /\ pc' = "error" /\ fast' = NotFast
  /\ UNCHANGED <<kind, list, disk, fs, inbuf, speed, pts, lastSize, seen, gaps, drift>>

(* Packets of the chunk are copied, the video that is skipped left out; n  *)
(* is the last one looked at.  When inbuf is full, the file is set back to *)
(* where that one began.                                                   *)
FastPick ==
  /\ pc = "fast" /\ fast.done = Chunk
  /\ fast.ret >= Pkt + 1 /\ Synced(Here(fs) - fast.ret, fast.ret) # {}
  /\ \E n \in 0 .. (Chunk \div Pkt) - 1 :
       \E picked \in SUBSET (0 .. n) :
         LET c == Min(Synced(Here(fs) - fast.ret, fast.ret))
             full == Cardinality(picked) * Pkt >= fast.toread
             bytes == FoldLeft(LAMBDA s, i : s \o PacketAt(Here(fs) - Chunk, c, i), << >>,
                               SetToSortSeq(picked, <))
         IN  /\ IF full
                THEN /\ n \in picked /\ (Cardinality(picked) - 1) * Pkt < fast.toread
                     /\ fs' = Lseek(fs, fs.pos - (Chunk - n * Pkt))
                     /\ pc' = "idle"
                ELSE n = (Chunk \div Pkt) - 1 /\ UNCHANGED <<fs, pc>>
             /\ inbuf' = inbuf \o bytes
             /\ fast' = IF full THEN NotFast
                        ELSE [fast EXCEPT !.toread = @ - Len(bytes), !.done = 0]
             /\ drift' = (drift /\ ~(full /\ Sought(fs.pos - (Chunk - n * Pkt))))
             /\ gaps' = (inbuf' # << >>)
             /\ IF full THEN Scan(inbuf') ELSE UNCHANGED <<pts, seen>>
  /\ UNCHANGED <<kind, list, disk, speed, lastSize>>

-----------------------------------------------------------------------------
(* mp_seekSync, in a pause, and the emptying of inbuf behind it.           *)
SyncFound(w) ==
  {i \in w.at .. w.at + Probe :
     /\ i + Pkt < disk[w.no]
     /\ Looks(Before(w.no) + i) /\ Looks(Before(w.no) + i + Pkt)}

(* Where a seek to p may lead.  In a PES a start code is found in the first*)
(* buffer, or behind it and then overshot by the Pkt - 1 bytes that were   *)
(* kept of the buffer before, or not at all.                               *)
Targets(p) ==
  LET w == Lseek(fs, p)
  IN  IF kind = "ts"
      THEN {IF SyncFound(w) = {} THEN p ELSE p + Min(SyncFound(w)) - w.at}
      ELSE {p} \cup {g \in p .. p + Probe : g % Pkt \in {0, Pkt - 1}}

Seek(p) ==
  /\ pc \in {"idle", "eof"} /\ speed = 0
  /\ Sought(p)
  /\ \E q \in Targets(p) :
       /\ Sought(q)
       /\ fs' = Lseek(fs, q)
  /\ inbuf' = << >> /\ gaps' = FALSE /\ drift' = FALSE
  /\ pc' = "idle"
  /\ UNCHANGED <<kind, list, disk, speed, fast, pts, lastSize, seen>>

(* A position behind the end is refused, but the search goes on where the  *)
(* descriptor is, and cannot be undone.  The same happens to a packet that *)
(* is found behind the size in the list.  seek_to_pts leaves inbuf alone.  *)
SeekFails(p) ==
  /\ pc \in {"idle", "eof"} /\ speed = 0
  /\ LET w == Lseek(fs, p)
     IN  /\ ~Sought(p) \/ \E q \in Targets(p) : ~Sought(q)
         /\ \E n \in 0 .. Left(w) :
              /\ fs' = [w EXCEPT !.at = @ + n]
              /\ drift' = (n > 0 \/ (drift /\ ~Sought(p)))
         /\ gaps' = (inbuf # << >>)
  /\ UNCHANGED <<kind, list, disk, inbuf, speed, pc, fast, pts, lastSize, seen>>

(* GetPosition.  The end of a single transport stream is guessed from its  *)
(* growth, or looked up in its last bytes; the file is set back then.      *)
EndAfter(stamp) == IF stamp # -1 /\ pts.first > stamp THEN stamp + Wrap ELSE stamp

GetPosition ==
  /\ pc \in {"idle", "eof", "error"}
  /\ LET growth == Size - lastSize
         tail == Size - PesBuf
         found == LastPacket(Size) > tail + ((-tail) % Pkt)
     IN  IF ~Single \/ kind # "ts" THEN
            /\ pts' = [pts EXCEPT !.end = EndAfter(@)]
            /\ UNCHANGED <<fs, lastSize, gaps, drift>>
         ELSE IF growth > 0 /\ growth < GuessLimit /\ pts.raw > 0 THEN
            /\ pts' = [pts EXCEPT !.end = EndAfter(pts.raw + growth)]
            /\ UNCHANGED <<fs, lastSize, gaps, drift>>
         ELSE IF growth # 0 /\ tail > 0 THEN
            /\ fs' = Lseek(fs, fs.pos)
            /\ Resettled(TRUE)
            /\ IF found
               THEN /\ pts' = [pts EXCEPT !.end = EndAfter(Stamp(LastPacket(Size))),
                                          !.raw = Stamp(LastPacket(Size))]
                    /\ lastSize' = Size
               ELSE /\ pts' = [pts EXCEPT !.end = EndAfter(@)]
                    /\ UNCHANGED lastSize
         ELSE /\ pts' = [pts EXCEPT !.end = EndAfter(@)]
              /\ UNCHANGED <<fs, lastSize, gaps, drift>>
  /\ UNCHANGED <<kind, list, disk, inbuf, speed, pc, fast, seen>>

\* As Position, but the wrap of the stamps is forgotten.
PositionPlain == pts.curr - pts.first

Position ==
  IF pts.curr < pts.first THEN pts.curr + Wrap - pts.first ELSE pts.curr - pts.first
Duration == pts.end - pts.first

-----------------------------------------------------------------------------
Thread ==
  Read \/ ReadAgain \/ Write \/ FastBegin \/ FastRead \/ FastRetry \/ FastEnd
  \/ FastNoSync \/ FastPick
User ==
  \/ \E s \in 0 .. 2 : SetSpeed(s)
  \/ \E p \in Places : Seek(p) \/ SeekFails(p)
  \/ GetPosition

Next == Thread \/ User \/ Grow
Spec == Init /\ [][Next]_vars

(* The thread reads and writes in turn; nobody need make a call. *)
Fairness ==
  /\ WF_vars(Read) /\ WF_vars(ReadAgain) /\ WF_vars(Write)
  /\ WF_vars(FastBegin \/ FastRead \/ FastRetry \/ FastEnd \/ FastNoSync \/ FastPick)
FairSpec == Spec /\ Fairness

-----------------------------------------------------------------------------
(* The shape of the state.  inbuf may be overfilled by the rest of a       *)
(* packet: fast play copies whole packets behind an incomplete one.        *)
TypeOK ==
  /\ kind \in Kinds /\ list \in Lists /\ Len(disk) = Len(list)
  /\ fs.no \in DOMAIN disk /\ fs.at \in 0 .. disk[fs.no] /\ fs.pos \in 0 .. MaxSize
  /\ Len(inbuf) <= InBuf + Pkt - 1
  /\ \A i \in DOMAIN inbuf : inbuf[i] \in 0 .. Length - 1
  /\ speed \in 0 .. 2 /\ pc \in {"idle", "fast", "eof", "error"}
  /\ fast.done \in 0 .. Chunk /\ fast.toread <= InBuf
  /\ lastSize \in 0 .. MaxSize /\ seen \in 0 .. MaxSize
  /\ gaps \in BOOLEAN /\ drift \in BOOLEAN

(* curr_pos and the descriptor mean the same byte of the recording, across *)
(* files, empty ones among them, and a last file that grows; and at normal *)
(* speed inbuf is an unbroken piece of it that ends there.  Excepted is    *)
(* what follows a seek that failed behind the end (drift) or fast play.    *)
StreamUnbroken ==
  /\ ~drift => fs.pos = Here(fs)
  /\ ~gaps => \A i \in DOMAIN inbuf : inbuf[i] = inbuf[1] + i - 1
  /\ ~gaps /\ ~drift /\ inbuf # << >> /\ pc \in {"idle", "eof"} =>
       Last(inbuf) = Here(fs) - 1

(* Wherever the stamps wrap, the position is the distance of the packet    *)
(* last seen from the first, and the duration lies within the recording.   *)
TimeIsTrue ==
  /\ Position = seen
  /\ pts.end # -1 => 0 <= Duration /\ Duration <= Length

AtEnd(w) == Left(w) = 0 /\ \A i \in w.no + 1 .. Len(list) : list[i] = 0
Spinning == pc = "fast" /\ Left(fs) = 0 /\ ~fast.retry /\ ~fast.eof

(* A read answers "end of file" only where nothing that was listed is left.*)
(* Left alone at normal speed, the thread gets there; and fast play comes  *)
(* out of read_ts, unless it has met the end of a file a second time, or   *)
(* the last one's end after it had read something.                         *)
EndIsReached ==
  /\ [][pc # "eof" /\ pc' = "eof" => AtEnd(fs)']_vars
  /\ <>[](speed = 1) => <>(AtEnd(fs) \/ pc = "error" \/ Spinning)
  /\ pc = "fast" ~> pc # "fast" \/ Spinning
=============================================================================
