-------------------------- MODULE TripleRecorder --------------------------
(***************************************************************************)
(* cRecord of libtriple/record_td.cpp: the caller's thread (Start, Stop)   *)
(* and the record thread, which reads from the demux and writes to the     *)
(* file in turn, without the asynchronous writes of libspark's.            *)
(*                                                                         *)
(* The buffer is a sequence of units of the stream, each named by its      *)
(* position in it; buf_pos is its length.                                  *)
(***************************************************************************)
EXTENDS Integers, Sequences

CONSTANTS
  BufSize,        \* BUFSIZE, in units
  MaxStream       \* bound: units the demux delivers in one recording

VARIABLES
  caller,                 \* "idle", or "join": inside Stop, in pthread_join
  exit_flag,              \* RecData members
  record_thread_running, file_fd,
  dmx,                    \* "null", "open" or "started"
  pc,                     \* where the record thread is
  buffer,                 \* buf[0] to buf[buf_pos - 1]
  received,               \* units the demux has delivered so far
  file,                   \* what has been written to the file
  failed                  \* did a write of the run-out loop fail?

callVars == <<caller, record_thread_running, file_fd>>
dataVars == <<buffer, received, file, failed>>
vars == <<callVars, exit_flag, dmx, pc, dataVars>>

(* The units first to last of the stream. *)
Units(first, last) == [i \in 1 .. last + 1 - first |-> first + i - 1]

Init ==
  /\ caller = "idle" /\ exit_flag = "STOPPED"
  /\ record_thread_running = FALSE /\ file_fd = FALSE /\ dmx = "null"
  /\ pc = "none"
  /\ buffer = <<>> /\ received = 0 /\ file = <<>> /\ failed = FALSE

-----------------------------------------------------------------------------
(* The caller.                                                             *)

(* Open only sets the flag, which would end a recording in progress. *)
Open ==
  /\ caller = "idle"
  /\ exit_flag' = "STOPPED"
  /\ UNCHANGED <<callVars, dmx, pc, dataVars>>

(* Start on a recorder that is stopped.  The thread may not be had; or it  *)
(* finds no memory for its buffer, and its loop is over before it began.   *)
Start ==
  /\ caller = "idle" /\ ~record_thread_running /\ ~file_fd
  /\ file_fd' = TRUE
  /\ file' = <<>> /\ received' = 0 /\ buffer' = <<>> /\ failed' = FALSE
  /\ \/ /\ exit_flag' \in {"RUNNING", "FAILED_MEMORY"}
        /\ record_thread_running' = TRUE /\ dmx' = "open" /\ pc' = "begin"
     \/ /\ exit_flag' = "FAILED_READ" /\ dmx' = "null"
        /\ UNCHANGED <<record_thread_running, pc>>
  /\ UNCHANGED caller

(* Stop, up to pthread_join and behind it. *)
StopRequest ==
  /\ caller = "idle"
  /\ exit_flag' = "STOPPED" /\ caller' = "join"
  /\ UNCHANGED <<record_thread_running, file_fd, dmx, pc, dataVars>>

Joined == record_thread_running => pc = "exited"
StopFinish ==
  /\ caller = "join" /\ Joined
  /\ caller' = "idle" /\ record_thread_running' = FALSE /\ file_fd' = FALSE
  /\ dmx' = "null" /\ pc' = "none"
  /\ UNCHANGED <<exit_flag, dataVars>>

-----------------------------------------------------------------------------
(* RecordThread.                                                           *)

Begin ==
  /\ pc = "begin"
  /\ dmx' = "started" /\ pc' = "loop"
  /\ UNCHANGED <<callVars, exit_flag, dataVars>>

LoopTest ==
  /\ pc = "loop"
  /\ IF exit_flag = "RUNNING" THEN pc' = "read" /\ UNCHANGED dmx
                              ELSE pc' = "runout" /\ dmx' = "open"
  /\ UNCHANGED <<callVars, exit_flag, dataVars>>

(* The demux is asked for less than would fill the buffer, so that the     *)
(* branch "buffer full" is never taken; EAGAIN reads nothing.              *)
Room == (BufSize - 1) - Len(buffer)
Read ==
  /\ pc = "read"
  /\ received' \in received .. received + Room /\ received' <= MaxStream
  /\ buffer' = buffer \o Units(received + 1, received')
  /\ pc' = "write"
  /\ UNCHANGED <<callVars, exit_flag, dmx, file, failed>>

ReadError ==
  /\ pc = "read"
  /\ exit_flag' = "FAILED_READ" /\ pc' = "runout" /\ dmx' = "open"
  /\ UNCHANGED <<callVars, dataVars>>

(* From a third of the buffer on it is written, up to half of it at once.  *)
(* write may take less; what is left goes to the front.                    *)
ToWrite == {n \in 1 .. Len(buffer) : n <= BufSize \div 2}
RestKept(n) == buffer
Rest(n) == SubSeq(buffer, n + 1, Len(buffer))
Written(n) ==
  /\ file' = file \o SubSeq(buffer, 1, n)
  /\ buffer' = Rest(n)
  /\ UNCHANGED received

Write ==
  /\ pc = "write"
  /\ \/ /\ Len(buffer) <= BufSize \div 3
        /\ UNCHANGED dataVars
     \/ /\ Len(buffer) > BufSize \div 3
        /\ \E n \in ToWrite : Written(n)
        /\ UNCHANGED failed
  /\ pc' = "loop"
  /\ UNCHANGED <<callVars, exit_flag, dmx>>

(* A write that fails is not the end of its data: the run-out loop tries   *)
(* it again.                                                               *)
WriteError ==
  /\ pc = "write" /\ Len(buffer) > BufSize \div 3
  /\ exit_flag' = "FAILED_FILE" /\ pc' = "runout" /\ dmx' = "open"
  /\ UNCHANGED <<callVars, dataVars>>

NothingLeft == buffer = <<>>
RunOutDone ==
  /\ pc = "runout" /\ NothingLeft
  /\ pc' = "exited"
  /\ UNCHANGED <<callVars, exit_flag, dmx, dataVars>>

RunOutWrite ==
  /\ pc = "runout" /\ ~NothingLeft
  /\ \E n \in 1 .. Len(buffer) : Written(n)
  /\ UNCHANGED <<callVars, exit_flag, dmx, pc, failed>>

RunOutError ==
  /\ pc = "runout" /\ ~NothingLeft
  /\ exit_flag' = "FAILED_FILE" /\ failed' = TRUE
  /\ pc' = "exited"
  /\ UNCHANGED <<callVars, dmx, buffer, received, file>>

-----------------------------------------------------------------------------
Caller == Open \/ Start \/ StopRequest \/ StopFinish
Thread ==
  \/ Begin \/ LoopTest \/ Read \/ ReadError \/ Write \/ WriteError
  \/ RunOutDone \/ RunOutWrite \/ RunOutError

Next == Caller \/ Thread

Spec == Init /\ [][Next]_vars

-----------------------------------------------------------------------------
(* The shape of the state; the thread has its resources as long as it      *)
(* lives.                                                                  *)
TypeOK ==
  /\ caller \in {"idle", "join"}
  /\ exit_flag \in {"RUNNING", "STOPPED", "FAILED_READ", "FAILED_FILE", "FAILED_MEMORY"}
  /\ record_thread_running \in BOOLEAN /\ file_fd \in BOOLEAN /\ failed \in BOOLEAN
  /\ dmx \in {"null", "open", "started"}
  /\ pc \in {"none", "begin", "loop", "read", "write", "runout", "exited"}
  /\ buffer \in Seq(Nat) /\ file \in Seq(Nat) /\ received \in Nat
  /\ record_thread_running <=> pc # "none"
  /\ record_thread_running => file_fd /\ dmx # "null"

(* File and buffer together are the stream as it was received, through     *)
(* short and failed writes and every memmove, and when the thread has      *)
(* ended all of it is in the file, unless its last write failed.  The      *)
(* recording thread of libspark does not keep the latter (RunOutWritesAll).*)
Unbroken ==
  /\ Len(file) + Len(buffer) = received
  /\ \A i \in 1 .. Len(file) : file[i] = i
  /\ \A i \in 1 .. Len(buffer) : buffer[i] = Len(file) + i
  /\ pc = "exited" /\ ~failed => Len(file) = received

(* This recorder implements the plain copy of StreamCopy too. *)
phase ==
  CASE pc = "none" -> "off"
    [] pc = "exited" -> IF failed THEN "failed" ELSE "ended"
    [] OTHER -> "recording"

Copy == INSTANCE StreamCopy WITH phase <- phase, stored <- Len(file)
CopySpec == Copy!Spec
=============================================================================
