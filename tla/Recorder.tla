----------------------------- MODULE Recorder -----------------------------
(***************************************************************************)
(* cRecord of libspark/record.cpp: the caller's thread (Start, Stop), the  *)
(* record thread (RecData::RecordThread) and the asynchronous write that   *)
(* the C library performs on behalf of the record thread.                  *)
(*                                                                         *)
(* One buffer is used for both directions: dmx->Read appends at buf_pos    *)
(* while an aio_write of the first "queued" units is still running; only   *)
(* when it has finished is the rest of the buffer moved to the front and   *)
(* the next write submitted.  A unit of the model is a block of stream     *)
(* bytes, named by its position in the stream, so a lost, repeated or      *)
(* reordered block is visible in the file.                                 *)
(***************************************************************************)
EXTENDS Integers, Sequences

CONSTANTS
  BufSize,        \* bufsize, in units
  ReadSize,       \* readsize, the most one dmx->Read may return
  MaxStream,      \* bound: units the demux delivers in one recording
  ShortWrites,    \* may an aio write end with fewer units than asked for?
  SubmitFails     \* may aio_write refuse a request?

ASSUME RecorderAssumption ==
  /\ BufSize \in Nat \ {0}
  /\ ReadSize \in 1 .. BufSize
  /\ MaxStream \in Nat
  /\ ShortWrites \in BOOLEAN
  /\ SubmitFails \in BOOLEAN

VARIABLES
  caller,                 \* "idle", or "join": inside Stop, in pthread_join
  exit_flag, state,       \* RecData members of the same names
  record_thread_running,
  dmx,                    \* "null", "open" or "started"
  file_fd,                \* TRUE when it is an open descriptor
  buf_alloc, buf,         \* the buffer: allocated?, and the stream position
                          \*   each cell holds (0 where nothing was read)
  pc,                     \* where the record thread is
  buf_pos, queued,        \* locals of RecordThread
  overflow,
  aio,                    \* the control block a: status, nbytes, and done,
                          \*   the units already transferred to the file
  received,               \* units the demux has delivered so far
  file,                   \* what has been written to the file
  lost,                   \* did the demux drop data (EOVERFLOW)?
  cut                     \* was a write cut short or refused?

threadVars == <<pc, buf_pos, queued, overflow>>
callVars   == <<caller, record_thread_running, dmx, file_fd, buf_alloc>>
dataVars   == <<received, file, lost, cut>>
vars == <<caller, exit_flag, state, record_thread_running, dmx, file_fd,
          buf_alloc, buf, pc, buf_pos, queued, overflow, aio, received, file, lost,
          cut>>

Cell == 0 .. BufSize - 1
MinOf(a, b) == IF a < b THEN a ELSE b

(* The control block after memset: nothing submitted, nothing failed. *)
NoRequest == [status |-> "done", nbytes |-> 0, done |-> 0]

Init ==
  /\ caller = "idle" /\ exit_flag = "STOPPED" /\ state = "OK"
  /\ record_thread_running = FALSE /\ dmx = "null" /\ file_fd = FALSE
  /\ buf_alloc = FALSE /\ buf = [i \in Cell |-> 0]
  /\ pc = "none" /\ buf_pos = 0 /\ queued = 0 /\ overflow = FALSE
  /\ aio = NoRequest
  /\ received = 0 /\ file = <<>> /\ lost = FALSE /\ cut = FALSE

-----------------------------------------------------------------------------
(* The caller.                                                             *)

(* Open only sets the flag, which would end a recording in progress. *)
Open ==
  /\ caller = "idle"
  /\ exit_flag' = "STOPPED"
  /\ UNCHANGED <<callVars, state, buf, threadVars, aio, dataVars>>

(* Start(fd, ...) on a recorder that is stopped: the caller pairs Start    *)
(* with Stop.  The buffer or the thread may not be had, and then the       *)
(* demux and the buffer go away again but the descriptor stays recorded.   *)
Start ==
  /\ caller = "idle" /\ ~record_thread_running /\ ~file_fd
  /\ file_fd' = TRUE
  /\ file' = <<>> /\ received' = 0 /\ lost' = FALSE /\ cut' = FALSE
  /\ buf' = [i \in Cell |-> 0]
  /\ \/ /\ exit_flag' = "RUNNING" /\ record_thread_running' = TRUE
        /\ dmx' = "open" /\ buf_alloc' = TRUE
        /\ pc' = "begin" /\ buf_pos' = 0 /\ queued' = 0 /\ overflow' = FALSE
        /\ aio' = NoRequest
     \/ /\ exit_flag' = "FAILED_READ"
        /\ dmx' = "null" /\ buf_alloc' = FALSE
        /\ UNCHANGED <<record_thread_running, threadVars, aio>>
  /\ UNCHANGED <<caller, state>>

(* Stop, up to pthread_join: the flag is overwritten whatever it was. *)
StopRequest ==
  /\ caller = "idle"
  /\ exit_flag' = "STOPPED"
  /\ caller' = "join"
  /\ UNCHANGED <<state, record_thread_running, dmx, file_fd, buf_alloc, buf,
                 threadVars, aio, dataVars>>

JoinedAlways == TRUE
Joined == record_thread_running => pc = "exited"

(* Stop, after pthread_join: everything the thread used is released. *)
StopFinish ==
  /\ caller = "join"
  /\ Joined
  /\ caller' = "idle"
  /\ record_thread_running' = FALSE
  /\ pc' = "none"
  /\ buf_alloc' = FALSE /\ dmx' = "null" /\ file_fd' = FALSE
  /\ UNCHANGED <<exit_flag, state, buf, buf_pos, queued, overflow, aio, dataVars>>

-----------------------------------------------------------------------------
(* The record thread.                                                      *)

Begin ==
  /\ pc = "begin"
  /\ dmx' = "started"
  /\ pc' = "loop"
  /\ UNCHANGED <<caller, exit_flag, state, record_thread_running, file_fd,
                 buf_alloc, buf, buf_pos, queued, overflow, aio, dataVars>>

(* The while condition; when it is false dmx->Stop ends the filter. *)
KeepRunningUnlessFailed == exit_flag \notin {"FAILED_READ", "FAILED_FILE"}
KeepRunning == exit_flag = "RUNNING"

LoopTest ==
  /\ pc = "loop"
  /\ \/ /\ KeepRunning
        /\ pc' = "read"
        /\ UNCHANGED dmx
     \/ /\ ~KeepRunning
        /\ pc' = "runout" /\ dmx' = "open"
  /\ UNCHANGED <<caller, exit_flag, state, record_thread_running, file_fd,
                 buf_alloc, buf, buf_pos, queued, overflow, aio, dataVars>>

ToReadNoClamp == ReadSize
ToRead == MinOf(BufSize - buf_pos, ReadSize)

(* dmx->Read delivers s units (none: its 50 ms poll timed out). *)
ReadData ==
  /\ pc = "read" /\ buf_pos < BufSize
  /\ \E s \in 0 .. ToRead :
       /\ received + s <= MaxStream
       /\ buf' = [i \in Cell |-> IF i >= buf_pos /\ i < buf_pos + s
                                   THEN received + (i - buf_pos) + 1
                                   ELSE buf[i]]
       /\ buf_pos' = buf_pos + s
       /\ received' = received + s
  /\ overflow' = FALSE
  /\ pc' = "aio"
  /\ UNCHANGED <<callVars, exit_flag, state, queued, aio, file, lost, cut>>

(* EOVERFLOW is put up with only while the buffer was full just before. *)
ToleratedAny(err) == err \in {"EAGAIN", "EOVERFLOW"}
Tolerated(err) == err = "EAGAIN" \/ (err = "EOVERFLOW" /\ overflow)

(* dmx->Read fails. *)
ReadError ==
  /\ pc = "read" /\ buf_pos < BufSize
  /\ \E err \in {"EAGAIN", "EOVERFLOW", "other"} :
       /\ lost' = IF err = "EOVERFLOW" THEN TRUE ELSE lost
       /\ \/ /\ Tolerated(err)
             /\ pc' = "aio"
             /\ UNCHANGED <<exit_flag, state, dmx>>
          \/ /\ ~Tolerated(err)
             /\ exit_flag' = "FAILED_READ" /\ state' = "OVERFLOW"
             /\ pc' = "runout" /\ dmx' = "open"
  /\ UNCHANGED <<caller, record_thread_running, file_fd, buf_alloc, buf,
                 buf_pos, queued, overflow, aio, received, file, cut>>

(* The buffer is full: nothing is read, the condition is recorded. *)
BufferFull ==
  /\ pc = "read" /\ buf_pos >= BufSize
  /\ overflow' = TRUE /\ state' = "SLOW"
  /\ pc' = "aio"
  /\ UNCHANGED <<callVars, exit_flag, buf, buf_pos, queued, aio, dataVars>>

(* aio_error(&a) # EINPROGRESS *)
WriteOverNotAsked == TRUE
WriteOver == aio.status # "busy"

(* memmove(buf, buf + queued, buf_pos - queued) *)
ShiftedBufSkipped == buf
ShiftedBuf ==
  [i \in Cell |-> IF i < buf_pos - queued THEN buf[i + queued] ELSE buf[i]]

Shift ==
  /\ buf' = ShiftedBuf
  /\ buf_pos' = buf_pos - queued
  /\ queued' = buf_pos - queued

(* aio_write(&a) of the first n units.  A refused request leaves a control *)
(* block that is not in progress and whose return value is not negative.   *)
Submit(n) ==
  \/ /\ aio' = [status |-> "busy", nbytes |-> n, done |-> 0]
     /\ UNCHANGED cut
  \/ /\ SubmitFails
     /\ aio' = [status |-> "refused", nbytes |-> n, done |-> 0]
     /\ cut' = TRUE

(* The second half of the loop body: look at the previous write. *)
AioBusy ==
  /\ pc = "aio" /\ ~WriteOver
  /\ pc' = "loop"
  /\ UNCHANGED <<callVars, exit_flag, state, buf, buf_pos, queued, overflow,
                 aio, dataVars>>

AioFailed ==
  /\ pc = "aio" /\ aio.status = "error"
  /\ exit_flag' = "FAILED_FILE"
  /\ pc' = "runout" /\ dmx' = "open"
  /\ UNCHANGED <<caller, state, record_thread_running, file_fd, buf_alloc, buf,
                 buf_pos, queued, overflow, aio, dataVars>>

AioNext ==
  /\ pc = "aio" /\ WriteOver /\ aio.status # "error"
  /\ Shift
  /\ Submit(queued')
  /\ \/ /\ aio'.status = "busy"
        /\ pc' = "loop"
        /\ UNCHANGED <<exit_flag, dmx>>
     \/ /\ aio'.status = "refused"
        /\ exit_flag' = "FAILED_FILE"
        /\ pc' = "runout" /\ dmx' = "open"
  /\ UNCHANGED <<caller, state, record_thread_running, file_fd, buf_alloc,
                 overflow, received, file, lost>>

(* After the loop: write out what is still in the buffer.  The test for    *)
(* EINPROGRESS repeats every 50 ms, so the step waits for the write.       *)
RunOutFailed ==
  /\ pc = "runout" /\ aio.status = "error"
  /\ exit_flag' = "FAILED_FILE"
  /\ pc' = "exited"
  /\ UNCHANGED <<callVars, state, buf, buf_pos, queued, overflow, aio, dataVars>>

NothingQueued == queued = 0

RunOutDone ==
  /\ pc = "runout" /\ WriteOver /\ aio.status # "error"
  /\ NothingQueued
  /\ pc' = "exited"
  /\ UNCHANGED <<callVars, exit_flag, state, buf, buf_pos, queued, overflow,
                 aio, dataVars>>

(* The result of this aio_write is not looked at. *)
RunOutWrite ==
  /\ pc = "runout" /\ WriteOver /\ aio.status # "error"
  /\ ~NothingQueued
  /\ Shift
  /\ Submit(queued')
  /\ UNCHANGED <<callVars, exit_flag, state, pc, overflow, received, file, lost>>

-----------------------------------------------------------------------------
(* The asynchronous write, done by a thread of the C library (external).   *)

(* One more unit of the request is appended to the file (O_APPEND). *)
AioTransfer ==
  /\ aio.status = "busy" /\ aio.done < aio.nbytes
  /\ file' = Append(file, buf[aio.done])
  /\ aio' = [aio EXCEPT !.done = @ + 1]
  /\ UNCHANGED <<callVars, exit_flag, state, buf, threadVars, received, lost, cut>>

AioComplete ==
  /\ aio.status = "busy"
  /\ aio.done = aio.nbytes \/ ShortWrites
  /\ cut' = IF aio.done < aio.nbytes THEN TRUE ELSE cut
  /\ aio' = [aio EXCEPT !.status = "done"]
  /\ UNCHANGED <<callVars, exit_flag, state, buf, threadVars, received, file, lost>>

AioError ==
  /\ aio.status = "busy"
  /\ aio' = [aio EXCEPT !.status = "error"]
  /\ UNCHANGED <<callVars, exit_flag, state, buf, threadVars, dataVars>>

-----------------------------------------------------------------------------
Caller == Open \/ Start \/ StopRequest \/ StopFinish
Thread ==
  \/ Begin \/ LoopTest \/ ReadData \/ ReadError \/ BufferFull
  \/ AioBusy \/ AioFailed \/ AioNext
  \/ RunOutFailed \/ RunOutDone \/ RunOutWrite
Aio == AioTransfer \/ AioComplete \/ AioError

Next == Caller \/ Thread \/ Aio

(* The scheduler runs the record thread and the library's thread; a Stop   *)
(* that has begun goes on.  Nobody has to begin a recording or stop one.   *)
Fairness == WF_vars(Thread) /\ WF_vars(Aio) /\ WF_vars(StopFinish)

Spec == Init /\ [][Next]_vars
FairSpec == Spec /\ Fairness

-----------------------------------------------------------------------------
TypeOK ==
  /\ caller \in {"idle", "join"}
  /\ exit_flag \in {"RUNNING", "STOPPED", "FAILED_READ", "FAILED_FILE"}
  /\ state \in {"OK", "SLOW", "OVERFLOW"}
  /\ record_thread_running \in BOOLEAN
  /\ dmx \in {"null", "open", "started"}
  /\ file_fd \in BOOLEAN /\ buf_alloc \in BOOLEAN
  /\ buf \in [Cell -> Nat]
  /\ pc \in {"none", "begin", "loop", "read", "aio", "runout", "exited"}
  /\ buf_pos \in 0 .. BufSize /\ queued \in 0 .. BufSize
  /\ overflow \in BOOLEAN
  /\ aio \in [status : {"busy", "done", "refused", "error"},
              nbytes : 0 .. BufSize, done : 0 .. BufSize]
  /\ received \in 0 .. MaxStream
  /\ file \in Seq(Nat)
  /\ lost \in BOOLEAN /\ cut \in BOOLEAN

(* The file never holds a block twice or blocks out of order, whatever the *)
(* file system and the aio library do: the memmove of RecordThread and the *)
(* next aio_write never run over a write that is still using the buffer.   *)
FileInOrder ==
  \A i, j \in 1 .. Len(file) : i < j => file[i] < file[j]

(* As long as no write was cut short or refused, the file is an unbroken   *)
(* prefix of the stream: nothing is lost between the moving buf_pos of the *)
(* reads and the queued prefix of the writes.                              *)
FileIsPrefix ==
  /\ Len(file) <= received
  /\ ~cut => \A i \in 1 .. Len(file) : file[i] = i

(* Every block that was received is in the file or still in the buffer,    *)
(* behind what the current write has already transferred: the counts       *)
(* buf_pos and queued of the two users of the buffer never drift apart.    *)
BlocksAccounted ==
  record_thread_running /\ ~cut =>
    received = Len(file) + (buf_pos - aio.done)

(* "write out the unwritten buffer content" (record.cpp:333): when the     *)
(* thread has ended and no write failed, all that was received is in the   *)
(* file.  It is not so: the loop ends as soon as the last write was of     *)
(* nothing, also when a read has put data behind that write since.         *)
RunOutWritesAll ==
  pc = "exited" /\ aio.status # "error" => Len(file) = received

(* While a write is in progress the buffer is allocated, the descriptor is *)
(* open and the thread that owns them has not been joined, so Stop never   *)
(* frees or closes what the library's thread still uses.                   *)
AioOwnsBuffer ==
  aio.status = "busy" =>
    buf_alloc /\ file_fd /\ record_thread_running /\ pc # "exited"

(* Data that the demux dropped is reported: GetStatus never says OK after  *)
(* an overflow of the kernel buffer was put up with or ended the thread.   *)
OverflowReported == (overflow \/ lost) => state # "OK"

(* Nothing that was received disappears or is repeated, and nothing that   *)
(* was not without a word: the blocks are in the file in order, they are   *)
(* all accounted for, and a drop is reported.                              *)
NothingLost == FileInOrder /\ BlocksAccounted /\ OverflowReported

(* The write in progress sees stable data: no step of the record thread    *)
(* changes a cell that the library still has to transfer.                  *)
CellsStay ==
  aio.status = "busy" => \A i \in Cell :
    (aio.done <= i /\ i < aio.nbytes) => buf'[i] = buf[i]

(* The library has the part of the buffer it writes for itself: it is not  *)
(* freed, nor its file closed, and its contents stay.                      *)
WriteOwnsBuffer == [][AioOwnsBuffer' /\ CellsStay]_vars

(* A Stop that has begun comes to its end: the record thread notices the   *)
(* flag, and the run-out loop empties the buffer in finitely many writes.  *)
StopReturns == (caller = "join") ~> (caller = "idle")

(* The recorder implements the plain copy of StreamCopy. *)
phase ==
  IF pc = "none" THEN "off"
  ELSE IF pc # "exited" THEN "recording"
  ELSE IF Len(file) = received THEN "ended" ELSE "failed"

Copy == INSTANCE StreamCopy WITH phase <- phase, stored <- Len(file)
CopySpec == Copy!Spec
=============================================================================
