-------------------------- MODULE RecorderProofs --------------------------
(***************************************************************************)
(* Theorems about Recorder for every buffer size, read size and stream     *)
(* length, and whether or not writes are cut short or refused; about       *)
(* TripleRecorder, Sound, DvbVideo and Sections as MCRecorder instantiates *)
(* them, for every size, every set of volumes and every set of filters and *)
(* sections; and about their composition.                                  *)
(***************************************************************************)
EXTENDS MCRecorder, SequenceTheorems, TLAPS

(* The inductive invariant.  Control ties the resources to the thread,     *)
(* Counts orders the two counters of the buffer, Contents says which part  *)
(* of the stream the buffer holds and Written where the file ends in it.   *)
Control ==
  /\ record_thread_running <=> pc # "none"
  /\ record_thread_running => buf_alloc /\ file_fd
  /\ aio.status = "busy" => pc \notin {"none", "begin", "exited"}

Counts ==
  record_thread_running =>
    /\ aio.done <= aio.nbytes
    /\ aio.nbytes = queued
    /\ queued <= buf_pos
    /\ buf_pos <= received

Contents ==
  record_thread_running =>
    \A i \in Cell : i < buf_pos => buf[i] = received - buf_pos + i + 1

Written ==
  record_thread_running =>
    /\ Len(file) <= received - buf_pos + aio.done
    /\ \A k \in 1 .. Len(file) : file[k] <= received - buf_pos + aio.done
    /\ ~cut => /\ Len(file) = received - buf_pos + aio.done
               /\ aio.status # "refused"
               /\ aio.status = "done" => aio.done = aio.nbytes

IInv ==
  /\ TypeOK /\ Control /\ Counts /\ Contents /\ Written
  /\ FileInOrder /\ FileIsPrefix /\ OverflowReported

(* The Boolean variables, apart from the rest of TypeOK.                   *)
Flags ==
  /\ record_thread_running \in BOOLEAN /\ file_fd \in BOOLEAN
  /\ buf_alloc \in BOOLEAN /\ overflow \in BOOLEAN
  /\ lost \in BOOLEAN /\ cut \in BOOLEAN

-----------------------------------------------------------------------------
(* Init establishes the invariant. *)
LEMMA InitIInv == Init => IInv
<1> SUFFICES ASSUME Init PROVE IInv
  OBVIOUS
<1>1. Flags
  BY Zenon DEF Init, Flags
<1> USE RecorderAssumption DEF RecorderAssumption, Init, NoRequest
<1>2. TypeOK
  BY <1>1 DEF TypeOK, Cell, Flags
<1>3. Control /\ Counts /\ Contents /\ Written
  BY DEF Control, Counts, Contents, Written
<1>4. FileInOrder /\ FileIsPrefix /\ OverflowReported
  BY DEF FileInOrder, FileIsPrefix, OverflowReported
<1> QED
  BY <1>2, <1>3, <1>4 DEF IInv

(* The steps that change neither the buffer, its counters nor the file:    *)
(* only the control part has to be looked at.                              *)
QuietStep ==
  \/ Open \/ StopRequest \/ StopFinish \/ Begin \/ LoopTest \/ BufferFull
  \/ AioBusy \/ AioFailed \/ RunOutFailed \/ RunOutDone

(* Requests, waits, tests and failures preserve the invariant: the control *)
(* points and flags they change are the ones Control ties together.        *)
LEMMA QuietSteps == IInv /\ QuietStep => IInv'
<1> SUFFICES ASSUME IInv, QuietStep PROVE IInv'
  OBVIOUS
<1> USE DEF QuietStep, Open, StopRequest, StopFinish, Begin, LoopTest,
            BufferFull, AioBusy, AioFailed, RunOutFailed, RunOutDone,
            threadVars, callVars, dataVars
<1>0. TypeOK /\ Control /\ Counts /\ Contents /\ Written
      /\ FileInOrder /\ FileIsPrefix /\ OverflowReported
  BY DEF IInv
<1>1. Flags'
  BY <1>0, Zenon DEF TypeOK, Flags
<1>2. TypeOK'
  BY <1>0, <1>1, RecorderAssumption DEF TypeOK, Flags, Cell
<1>3. Control'
  BY <1>0 DEF TypeOK, Control, WriteOver, Joined
<1>4. Counts' /\ Contents' /\ Written'
  BY <1>0 DEF Counts, Contents, Written, Cell
<1>5. FileInOrder' /\ FileIsPrefix'
  BY <1>0 DEF FileInOrder, FileIsPrefix
<1>6. OverflowReported'
  BY <1>0 DEF OverflowReported
<1> QED
  BY <1>2, <1>3, <1>4, <1>5, <1>6 DEF IInv

(* A new recording starts with an empty file and an empty buffer, or does  *)
(* not start at all.                                                       *)
LEMMA StartStep == IInv /\ Start => IInv'
<1> SUFFICES ASSUME IInv, Start PROVE IInv'
  OBVIOUS
<1>0. TypeOK /\ Control /\ OverflowReported
  BY DEF IInv
<1>1. Flags'
  BY <1>0, Zenon DEF TypeOK, Flags, Start, threadVars
<1> USE RecorderAssumption DEF RecorderAssumption, Start, threadVars, NoRequest
<1>2. TypeOK'
  BY <1>0, <1>1 DEF TypeOK, Flags, Cell
<1>3. Control'
  BY <1>0 DEF TypeOK, Control
<1>4. Counts' /\ Contents' /\ Written'
  <2>1. CASE record_thread_running'
    <3>1. /\ buf_pos' = 0 /\ queued' = 0 /\ received' = 0 /\ file' = <<>>
          /\ aio' = [status |-> "done", nbytes |-> 0, done |-> 0]
      BY <2>1, <1>0 DEF TypeOK, Control
    <3> QED
      BY <3>1 DEF Counts, Contents, Written
  <2>2. CASE ~record_thread_running'
    BY <2>2 DEF Counts, Contents, Written
  <2> QED
    BY <2>1, <2>2
<1>5. FileInOrder' /\ FileIsPrefix'
  BY DEF FileInOrder, FileIsPrefix
<1>6. OverflowReported'
  BY <1>0 DEF OverflowReported
<1> QED
  BY <1>2, <1>3, <1>4, <1>5, <1>6 DEF IInv

(* A failing read touches no data; a dropped block is accounted to state.  *)
LEMMA ReadErrorStep == IInv /\ ReadError => IInv'
<1> SUFFICES ASSUME IInv, ReadError PROVE IInv'
  OBVIOUS
<1>0. TypeOK /\ Control /\ Counts /\ Contents /\ Written
      /\ FileInOrder /\ FileIsPrefix /\ OverflowReported
  BY DEF IInv
<1>1. Flags'
  <2>1. lost' \in BOOLEAN
    BY <1>0, Zenon DEF TypeOK, ReadError
  <2> QED
    BY <1>0, <2>1 DEF TypeOK, Flags, ReadError
<1> USE DEF ReadError
<1>2. TypeOK'
  BY <1>0, <1>1 DEF TypeOK, Flags, Cell
<1>3. Control' /\ Counts' /\ Contents' /\ Written'
  BY <1>0 DEF Control, Counts, Contents, Written, Cell
<1>4. FileInOrder' /\ FileIsPrefix'
  BY <1>0 DEF FileInOrder, FileIsPrefix
<1>5. OverflowReported'
  BY <1>0 DEF OverflowReported, Tolerated
<1> QED
  BY <1>2, <1>3, <1>4, <1>5 DEF IInv

(* A read puts the next blocks of the stream behind those in the buffer,   *)
(* above every cell a write can still be using.                            *)
LEMMA ReadDataStep == IInv /\ ReadData => IInv'
<1> SUFFICES ASSUME IInv, ReadData PROVE IInv'
  OBVIOUS
<1>0. TypeOK /\ Control /\ Counts /\ Contents /\ Written
      /\ FileInOrder /\ FileIsPrefix /\ OverflowReported
  BY DEF IInv
<1>1. Flags'
  BY <1>0, Zenon DEF TypeOK, Flags, ReadData, callVars
<1>2. PICK s \in 0 .. ToRead :
        /\ received + s <= MaxStream
        /\ buf' = [i \in Cell |-> IF i >= buf_pos /\ i < buf_pos + s
                                    THEN received + (i - buf_pos) + 1
                                    ELSE buf[i]]
        /\ buf_pos' = buf_pos + s
        /\ received' = received + s
  BY DEF ReadData
<1>3. s \in Nat /\ buf_pos + s <= BufSize
  BY <1>0, RecorderAssumption DEF RecorderAssumption, TypeOK, ToRead, MinOf
<1> USE RecorderAssumption DEF RecorderAssumption, ReadData, callVars
<1>4. TypeOK'
  <2>1. buf' \in [Cell -> Nat]
    BY <1>0, <1>2, <1>3 DEF TypeOK, Cell
  <2> QED
    BY <1>0, <1>1, <1>2, <1>3, <2>1 DEF TypeOK, Flags
<1>5. Control' /\ Counts'
  BY <1>0, <1>2, <1>3 DEF TypeOK, Control, Counts
<1>6. Contents'
  BY <1>0, <1>2, <1>3 DEF TypeOK, Counts, Contents, Cell
<1>7. Written'
  BY <1>0, <1>2, <1>3 DEF TypeOK, Written
<1>8. FileInOrder' /\ FileIsPrefix'
  BY <1>0, <1>2, <1>3 DEF TypeOK, FileInOrder, FileIsPrefix
<1>9. OverflowReported'
  BY <1>0 DEF OverflowReported
<1> QED
  BY <1>4, <1>5, <1>6, <1>7, <1>8, <1>9 DEF IInv

(* Moving the rest of the buffer to the front once a write is over, and    *)
(* submitting it, keeps the buffer and the file adjoining pieces of the    *)
(* stream.                                                                 *)
LEMMA ShiftSubmit ==
  ASSUME TypeOK, Counts, Contents, Written, record_thread_running,
         record_thread_running',
         WriteOver, aio.status # "error", Shift, Submit(queued'),
         UNCHANGED <<received, file>>
  PROVE  /\ buf' \in [Cell -> Nat]
         /\ buf_pos' \in 0 .. BufSize /\ queued' \in 0 .. BufSize
         /\ aio' \in [status : {"busy", "done", "refused", "error"},
                      nbytes : 0 .. BufSize, done : 0 .. BufSize]
         /\ Counts' /\ Contents' /\ Written'
<1> USE RecorderAssumption DEF RecorderAssumption, Shift
<1>1. /\ buf_pos - queued \in 0 .. BufSize
      /\ \A i \in Cell : i < buf_pos - queued => i + queued \in Cell
                                              /\ i + queued < buf_pos
  BY DEF TypeOK, Counts, Cell
<1>2. buf' \in [Cell -> Nat]
  BY <1>1 DEF TypeOK, ShiftedBuf
<1>3. aio' \in [status : {"busy", "done", "refused", "error"},
                nbytes : 0 .. BufSize, done : 0 .. BufSize]
  BY <1>1 DEF Submit
<1>4. Counts'
  BY <1>1 DEF TypeOK, Counts, Submit
<1>5. Contents'
  <2> SUFFICES ASSUME NEW i \in Cell, i < buf_pos'
               PROVE  buf'[i] = received' - buf_pos' + i + 1
    BY DEF Contents
  <2>1. buf'[i] = buf[i + queued]
    BY DEF ShiftedBuf
  <2>2. buf[i + queued] = received - buf_pos + (i + queued) + 1
    BY <1>1 DEF Contents
  <2> QED
    BY <2>1, <2>2 DEF TypeOK, Cell
<1>6. Written'
  BY DEF TypeOK, Counts, Written, Submit, WriteOver
<1> QED
  BY <1>1, <1>2, <1>3, <1>4, <1>5, <1>6

(* The two places that submit a write, in the loop and in the run-out,     *)
(* preserve the invariant.                                                 *)
LEMMA AioNextStep == IInv /\ (AioNext \/ RunOutWrite) => IInv'
<1> SUFFICES ASSUME IInv, AioNext \/ RunOutWrite PROVE IInv'
  OBVIOUS
<1> USE DEF AioNext, RunOutWrite, callVars
<1>0. TypeOK /\ Control /\ Counts /\ Contents /\ Written
      /\ FileInOrder /\ FileIsPrefix /\ OverflowReported
  BY DEF IInv
<1>1. record_thread_running /\ record_thread_running'
  BY <1>0 DEF TypeOK, Control
<1>2. /\ buf' \in [Cell -> Nat]
      /\ buf_pos' \in 0 .. BufSize /\ queued' \in 0 .. BufSize
      /\ aio' \in [status : {"busy", "done", "refused", "error"},
                   nbytes : 0 .. BufSize, done : 0 .. BufSize]
      /\ Counts' /\ Contents' /\ Written'
  BY <1>0, <1>1, ShiftSubmit
<1>3. Flags'
  <2>1. cut' \in BOOLEAN
    BY <1>0, Zenon DEF TypeOK, Submit
  <2> QED
    BY <1>0, <2>1 DEF TypeOK, Flags
<1>4. TypeOK'
  BY <1>0, <1>2, <1>3 DEF TypeOK, Flags
<1>5. Control'
  BY <1>0 DEF TypeOK, Control
<1>6. FileInOrder' /\ FileIsPrefix'
  BY <1>0 DEF FileInOrder, FileIsPrefix, Submit
<1>7. OverflowReported'
  BY <1>0 DEF OverflowReported
<1> QED
  BY <1>2, <1>4, <1>5, <1>6, <1>7 DEF IInv

(* The library appends the first cell it has not transferred yet: the      *)
(* block that follows the last one of the file, or a later one when some   *)
(* write before was cut short or refused.                                  *)
LEMMA AioTransferStep == IInv /\ AioTransfer => IInv'
<1> SUFFICES ASSUME IInv, AioTransfer PROVE IInv'
  OBVIOUS
<1>0. TypeOK /\ Control /\ Counts /\ Contents /\ Written
      /\ FileInOrder /\ FileIsPrefix /\ OverflowReported
  BY DEF IInv
<1> USE RecorderAssumption
        DEF RecorderAssumption, AioTransfer, callVars, threadVars
<1>1. record_thread_running
  BY <1>0 DEF TypeOK, Control
<1>2. /\ aio.done \in Nat /\ aio.done < buf_pos /\ aio.done \in Cell
      /\ aio'.done = aio.done + 1 /\ aio'.nbytes = aio.nbytes
      /\ aio'.status = "busy" /\ aio.done + 1 <= aio.nbytes
  BY <1>0, <1>1 DEF TypeOK, Counts, Cell
<1>3. buf[aio.done] = received - buf_pos + aio.done + 1
  BY <1>0, <1>1, <1>2 DEF Contents
<1>4. /\ Len(file') = Len(file) + 1
      /\ file'[Len(file) + 1] = received - buf_pos + aio.done + 1
      /\ \A k \in 1 .. Len(file) : file'[k] = file[k]
  BY <1>0, <1>3 DEF TypeOK, Cell
<1>5. TypeOK'
  <2>1. aio' \in [status : {"busy", "done", "refused", "error"},
                  nbytes : 0 .. BufSize, done : 0 .. BufSize]
    BY <1>0, <1>2 DEF TypeOK
  <2>2. file' \in Seq(Nat)
    BY <1>0, <1>2 DEF TypeOK
  <2> QED
    BY <1>0, <2>1, <2>2 DEF TypeOK, Cell
<1>6. Control' /\ Counts' /\ Contents'
  BY <1>0, <1>2 DEF TypeOK, Control, Counts, Contents
<1>7. Written'
  <2>1. /\ Len(file) \in Nat /\ received \in Int /\ buf_pos \in Int
        /\ received' = received /\ buf_pos' = buf_pos /\ cut' = cut
    BY <1>0 DEF TypeOK
  <2>2. Len(file') <= received' - buf_pos' + aio'.done
    BY <1>0, <1>1, <1>2, <1>4, <2>1 DEF Written
  <2>3. ASSUME NEW k \in 1 .. Len(file')
        PROVE  file'[k] <= received' - buf_pos' + aio'.done
    <3>1. CASE k \in 1 .. Len(file)
      <4>0. file \in Seq(Nat)
        BY <1>0 DEF TypeOK
      <4>1. file[k] \in Nat /\ file'[k] = file[k]
        <5> HIDE DEF AioTransfer, RecorderAssumption
        <5> QED
          BY <1>4, <3>1, <4>0
      <4> QED
        BY <1>0, <1>1, <1>2, <2>1, <3>1, <4>1 DEF Written
    <3>2. CASE k = Len(file) + 1
      BY <1>2, <1>4, <2>1, <3>2
    <3> QED
      BY <1>4, <2>1, <2>3, <3>1, <3>2
  <2>4. ASSUME ~cut' PROVE Len(file') = received' - buf_pos' + aio'.done
    BY <1>0, <1>1, <1>2, <1>4, <2>1, <2>4 DEF Written
  <2> QED
    BY <1>2, <2>2, <2>3, <2>4 DEF Written
<1>8. FileInOrder'
  <2> SUFFICES ASSUME NEW i \in 1 .. Len(file'), NEW j \in 1 .. Len(file'), i < j
               PROVE  file'[i] < file'[j]
    BY DEF FileInOrder
  <2>1. i \in 1 .. Len(file)
    BY <1>0, <1>4 DEF TypeOK
  <2>2. CASE j \in 1 .. Len(file)
    BY <1>0, <1>4, <2>1, <2>2 DEF FileInOrder
  <2>3. CASE j = Len(file) + 1
    BY <1>0, <1>1, <1>2, <1>4, <2>1, <2>3 DEF TypeOK, Written
  <2> QED
    BY <1>0, <1>4, <2>2, <2>3 DEF TypeOK
<1>9. FileIsPrefix'
  <2>1. Len(file') <= received'
    BY <1>0, <1>1, <1>2, <1>4 DEF TypeOK, Written, Counts
  <2>2. ASSUME ~cut', NEW i \in 1 .. Len(file') PROVE file'[i] = i
    BY <1>0, <1>1, <1>2, <1>4, <2>2 DEF TypeOK, Written, FileIsPrefix
  <2> QED
    BY <2>1, <2>2 DEF FileIsPrefix
<1>10. OverflowReported'
  BY <1>0 DEF OverflowReported
<1> QED
  BY <1>5, <1>6, <1>7, <1>8, <1>9, <1>10 DEF IInv

(* The end of a write, complete, short or failed, preserves the invariant: *)
(* a write that ends short is recorded in cut.                             *)
LEMMA AioEndStep == IInv /\ (AioComplete \/ AioError) => IInv'
<1> SUFFICES ASSUME IInv, AioComplete \/ AioError PROVE IInv'
  OBVIOUS
<1>0. TypeOK /\ Control /\ Counts /\ Contents /\ Written
      /\ FileInOrder /\ FileIsPrefix /\ OverflowReported
  BY DEF IInv
<1> USE RecorderAssumption DEF RecorderAssumption, AioComplete, AioError,
                               callVars, threadVars, dataVars
<1>1. Flags'
  <2>1. cut' \in BOOLEAN
    BY <1>0, Zenon DEF TypeOK
  <2> QED
    BY <1>0, <2>1 DEF TypeOK, Flags
<1>2. /\ aio'.done = aio.done /\ aio'.nbytes = aio.nbytes
      /\ aio'.status \in {"done", "error"}
  BY <1>0 DEF TypeOK
<1>3. ASSUME ~cut' PROVE ~cut /\ (aio'.status = "done" => aio.done = aio.nbytes)
  <2>1. CASE AioComplete
    <3>1. ~(aio.done < aio.nbytes) /\ ~cut
      BY <1>3, <2>1, Zenon DEF AioComplete
    <3>2. aio.done <= aio.nbytes
      BY <1>0, <2>1 DEF Counts, Control, TypeOK
    <3> QED
      BY <1>0, <3>1, <3>2 DEF TypeOK
  <2>2. CASE AioError
    <3>1. aio'.status = "error"
      BY <1>0, <2>2 DEF TypeOK
    <3>2. cut' = cut
      BY <2>2
    <3> QED
      BY <1>3, <3>1, <3>2
  <2> QED
    BY <2>1, <2>2
<1>4. TypeOK'
  BY <1>0, <1>1 DEF TypeOK, Flags, Cell
<1>5. Control' /\ Counts' /\ Contents'
  BY <1>0, <1>2 DEF TypeOK, Control, Counts, Contents
<1>6. Written'
  BY <1>0, <1>2, <1>3 DEF TypeOK, Written
<1>7. FileInOrder' /\ OverflowReported'
  <2>1. file' = file /\ lost' = lost /\ overflow' = overflow /\ state' = state
    OBVIOUS
  <2> QED
    BY <1>0, <2>1, Zenon DEF FileInOrder, OverflowReported
<1>8. FileIsPrefix'
  BY <1>0, <1>3 DEF FileIsPrefix
<1> QED
  BY <1>4, <1>5, <1>6, <1>7, <1>8 DEF IInv

(* Every step of the recorder preserves the invariant. *)
LEMMA NextIInv == IInv /\ [Next]_vars => IInv'
<1> SUFFICES ASSUME IInv, [Next]_vars PROVE IInv'
  OBVIOUS
<1>1. CASE QuietStep
  BY <1>1, QuietSteps
<1>2. CASE Start
  BY <1>2, StartStep
<1>3. CASE ReadError
  BY <1>3, ReadErrorStep
<1>4. CASE ReadData
  BY <1>4, ReadDataStep
<1>5. CASE AioNext \/ RunOutWrite
  BY <1>5, AioNextStep
<1>6. CASE AioTransfer
  BY <1>6, AioTransferStep
<1>7. CASE AioComplete \/ AioError
  BY <1>7, AioEndStep
<1>8. CASE UNCHANGED vars
  BY <1>8 DEF vars, IInv, TypeOK, Control, Counts, Contents, Written,
              FileInOrder, FileIsPrefix, OverflowReported, Cell
<1> QED
  BY <1>1, <1>2, <1>3, <1>4, <1>5, <1>6, <1>7, <1>8
     DEF Next, Caller, Thread, Aio, QuietStep

-----------------------------------------------------------------------------
(* The inductive invariant holds in every reachable state. *)
THEOREM Invariance == Spec => []IInv
<1>1. Init => IInv
  BY InitIInv
<1>2. IInv /\ [Next]_vars => IInv'
  BY NextIInv
<1> QED
  BY <1>1, <1>2, PTL DEF Spec

(* Every variable of the recorder keeps its type; in particular buf_pos    *)
(* and queued never leave the buffer, for any buffer and read size.        *)
THEOREM TypeCorrect == Spec => []TypeOK
<1>1. IInv => TypeOK
  BY DEF IInv
<1> QED
  BY <1>1, Invariance, PTL

(* RecordThread never writes a block twice or out of order, even if writes *)
(* are cut short, refused or fail.                                         *)
THEOREM NoBlockTwice == Spec => []FileInOrder
<1>1. IInv => FileInOrder
  BY DEF IInv
<1> QED
  BY <1>1, Invariance, PTL

(* As long as every write is accepted and completed, the file is an        *)
(* unbroken prefix of the stream.                                          *)
THEOREM PrefixOfStream == Spec => []FileIsPrefix
<1>1. IInv => FileIsPrefix
  BY DEF IInv
<1> QED
  BY <1>1, Invariance, PTL

(* Every block received is in the file or in the buffer.                   *)
THEOREM Conservation == Spec => []BlocksAccounted
<1>1. IInv => BlocksAccounted
  BY DEF IInv, TypeOK, Written, BlocksAccounted
<1> QED
  BY <1>1, Invariance, PTL

(* Stop never frees the buffer, or closes the file, under a write.         *)
THEOREM AioSafe == Spec => []AioOwnsBuffer
<1>1. IInv => AioOwnsBuffer
  BY DEF IInv, TypeOK, Control, AioOwnsBuffer
<1> QED
  BY <1>1, Invariance, PTL

(* A drop in the demux always shows in GetStatus.                          *)
THEOREM DropsReported == Spec => []OverflowReported
<1>1. IInv => OverflowReported
  BY DEF IInv
<1> QED
  BY <1>1, Invariance, PTL

(* No step of the program changes a cell a write in progress still needs:  *)
(* reads go above buf_pos, the memmove waits for the write.                *)
THEOREM WriteSeesStableData == Spec => [][CellsStay]_vars
<1>1. IInv /\ [Next]_vars => [CellsStay]_vars
  <2> USE DEF CellsStay
  <2> SUFFICES ASSUME IInv, Next, aio.status = "busy", NEW i \in Cell,
                      aio.done <= i, i < aio.nbytes
               PROVE  buf'[i] = buf[i]
    OBVIOUS
  <2>1. TypeOK /\ Control /\ Counts /\ record_thread_running
    BY DEF IInv, TypeOK, Control
  <2>2. CASE ReadData
    <3>1. i < buf_pos
      BY <2>1, RecorderAssumption
         DEF RecorderAssumption, TypeOK, Counts, Cell
    <3> QED
      BY <2>1, <2>2, <3>1, RecorderAssumption
         DEF RecorderAssumption, ReadData, TypeOK, Cell
  <2>3. CASE QuietStep \/ ReadError \/ Aio
    BY <2>3 DEF QuietStep, Open, StopRequest, StopFinish, Begin, LoopTest,
                BufferFull, AioBusy, AioFailed, RunOutFailed, RunOutDone,
                ReadError, Aio, AioTransfer, AioComplete, AioError
  <2>4. ~Start /\ ~AioNext /\ ~RunOutWrite
    BY <2>1 DEF Start, AioNext, RunOutWrite, WriteOver
  <2> QED
    BY <2>2, <2>3, <2>4 DEF Next, Caller, Thread, QuietStep
<1> QED
  BY <1>1, Invariance, PTL DEF Spec

(* What was received is in the file or in the buffer, and what was dropped *)
(* is reported.                                                            *)
THEOREM NothingIsLost == Spec => []NothingLost
<1> QED
  BY NoBlockTwice, Conservation, DropsReported, PTL DEF NothingLost

(* The library's thread has the buffer to itself for what it writes.       *)
THEOREM WriteUndisturbed == Spec => WriteOwnsBuffer
<1> QED
  BY AioSafe, WriteSeesStableData, PTL DEF WriteOwnsBuffer

-----------------------------------------------------------------------------
(* The threads, the shared buffer and the asynchronous writes implement    *)
(* the plain copy of StreamCopy.                                           *)
THEOREM ImplementsCopy == Spec => CopySpec
<1>1. Init => Copy!Init
  BY DEF Init, Copy!Init, phase
<1>2. IInv /\ IInv' /\ [Next]_vars => [Copy!Next]_(Copy!vars)
  <2> SUFFICES ASSUME IInv, IInv', [Next]_vars
               PROVE  Copy!Next \/ UNCHANGED <<phase, received, Len(file)>>
    BY DEF Copy!vars
  <2>0. TypeOK /\ TypeOK' /\ Control /\ Counts /\ Written /\ Counts' /\ FileIsPrefix
    BY DEF IInv
  <2>1. CASE Start
    BY <2>0, <2>1 DEF Start, threadVars, TypeOK, Control, phase, Copy!Next,
                      Copy!Begin, Copy!Refuse
  <2>2. CASE StopFinish
    BY <2>0, <2>2 DEF StopFinish, dataVars, Joined, TypeOK, Control, phase,
                 Copy!Next, Copy!Close
  <2>3. CASE ReadData
    BY <2>0, <2>3 DEF ReadData, TypeOK, phase, Copy!Next, Copy!Receive, ToRead
  <2>4. CASE AioTransfer
    BY <2>0, <2>4, AioTransferStep
       DEF AioTransfer, TypeOK, threadVars, callVars, Control, Counts, Written,
           phase, Copy!Next, Copy!Store
  <2>5. CASE RunOutFailed \/ RunOutDone
    BY <2>0, <2>5 DEF RunOutFailed, RunOutDone, dataVars, phase, Copy!Next,
                 Copy!Finish, Copy!GiveUp
  <2>6. CASE \/ Open \/ StopRequest \/ Begin \/ LoopTest \/ ReadError \/ BufferFull
             \/ AioBusy \/ AioFailed \/ AioNext \/ RunOutWrite
             \/ AioComplete \/ AioError
    BY <2>0, <2>6 DEF Open, StopRequest, Begin, LoopTest, ReadError, BufferFull,
                      AioBusy, AioFailed, AioNext, RunOutWrite, AioComplete,
                      AioError, callVars, threadVars, dataVars, phase
  <2>7. CASE UNCHANGED vars
    BY <2>7 DEF vars, phase
  <2> QED
    BY <2>1, <2>2, <2>3, <2>4, <2>5, <2>6, <2>7 DEF Next, Caller, Thread, Aio
<1> QED
  BY <1>1, <1>2, Invariance, PTL DEF Spec, CopySpec, Copy!Spec

-----------------------------------------------------------------------------
(* TripleRecorder, with a buffer and a stream of any length, and however   *)
(* write cuts its data to pieces.                                          *)
TripleInv == T!TypeOK /\ T!Unbroken

(* The Boolean variables, apart from the rest of TypeOK.                   *)
TripleFlags ==
  trunning \in BOOLEAN /\ tfd \in BOOLEAN /\ tfailed \in BOOLEAN

-----------------------------------------------------------------------------
(* Writing n units and moving the rest to the front leaves file and buffer *)
(* the same stream.                                                        *)
LEMMA WrittenKeeps ==
  ASSUME T!TypeOK, T!Unbroken, NEW n \in 1 .. Len(tbuffer), T!Written(n)
  PROVE  /\ tbuffer' \in Seq(Nat) /\ tfile' \in Seq(Nat) /\ treceived' \in Nat
         /\ Len(tfile') + Len(tbuffer') = treceived'
         /\ \A i \in 1 .. Len(tfile') : tfile'[i] = i
         /\ \A i \in 1 .. Len(tbuffer') : tbuffer'[i] = Len(tfile') + i
         /\ Len(tfile') = Len(tfile) + n
<1> DEFINE front == SubSeq(tbuffer, 1, n)
           back == SubSeq(tbuffer, n + 1, Len(tbuffer))
<1>1. tbuffer \in Seq(Nat) /\ tfile \in Seq(Nat) /\ treceived \in Nat /\ n \in Nat
      /\ 1 <= n /\ n <= Len(tbuffer) /\ Len(tbuffer) \in Nat /\ Len(tfile) \in Nat
  BY DEF T!TypeOK
<1>2. front \in Seq(Nat) /\ Len(front) = n /\ \A i \in 1 .. n : front[i] = tbuffer[i]
  BY <1>1
<1>3. /\ back \in Seq(Nat) /\ Len(back) = Len(tbuffer) - n
      /\ \A i \in 1 .. Len(tbuffer) - n : back[i] = tbuffer[n + i]
  BY <1>1
<1>4. tfile' = tfile \o front /\ tbuffer' = back /\ treceived' = treceived
  BY DEF T!Written, T!Rest
<1> HIDE DEF front, back
<1>5. /\ tfile' \in Seq(Nat) /\ Len(tfile') = Len(tfile) + n
      /\ \A i \in 1 .. Len(tfile) + n :
           tfile'[i] = IF i <= Len(tfile) THEN tfile[i] ELSE front[i - Len(tfile)]
  BY <1>1, <1>2, <1>4, ConcatProperties
<1>6. ASSUME NEW i \in 1 .. Len(tfile') PROVE tfile'[i] = i
  <2>1. CASE i <= Len(tfile)
    BY <1>1, <1>2, <1>4, <1>5, <2>1 DEF T!Unbroken
  <2>2. CASE i > Len(tfile)
    <3>1. tfile'[i] = front[i - Len(tfile)] /\ i - Len(tfile) \in 1 .. n
      BY <1>1, <1>5, <2>2
    <3>2. front[i - Len(tfile)] = tbuffer[i - Len(tfile)]
      BY <1>2, <3>1
    <3>3. i - Len(tfile) \in 1 .. Len(tbuffer)
      BY <1>1, <3>1
    <3>4. tbuffer[i - Len(tfile)] = Len(tfile) + (i - Len(tfile))
      BY <3>3 DEF T!Unbroken
    <3> QED
      BY <1>1, <3>1, <3>2, <3>4
  <2> QED
    BY <1>1, <1>5, <2>1, <2>2
<1>7. ASSUME NEW i \in 1 .. Len(tbuffer') PROVE tbuffer'[i] = Len(tfile') + i
  <2>1. tbuffer'[i] = tbuffer[n + i] /\ n + i \in 1 .. Len(tbuffer)
    BY <1>1, <1>3, <1>4
  <2>2. tbuffer[n + i] = Len(tfile) + (n + i)
    BY <2>1 DEF T!Unbroken
  <2> QED
    BY <1>1, <1>5, <2>1, <2>2
<1>8. Len(tfile') + Len(tbuffer') = treceived'
  <2>1. Len(tfile') = Len(tfile) + n /\ Len(tbuffer') = Len(tbuffer) - n
    BY <1>3, <1>4, <1>5
  <2>2. Len(tfile) + Len(tbuffer) = treceived
    BY DEF T!Unbroken
  <2>3. Len(tfile) \in Nat /\ Len(tbuffer) \in Nat /\ n \in Nat /\ treceived' = treceived
    BY <1>1, <1>4
  <2> QED
    BY <2>1, <2>2, <2>3
<1> QED
  BY <1>1, <1>3, <1>4, <1>5, <1>6, <1>7, <1>8

(* Reading appends the next units of the stream. *)
LEMMA ReadKeeps == TripleInv /\ T!Read => TripleInv'
<1> SUFFICES ASSUME TripleInv, T!Read PROVE TripleInv'
  OBVIOUS
<1>1. T!TypeOK /\ T!Unbroken /\ tbuffer \in Seq(Nat) /\ Len(tbuffer) \in Nat
      /\ treceived \in Nat /\ tfile \in Seq(Nat) /\ Len(tfile) \in Nat
  BY DEF TripleInv, T!TypeOK
<1>2. treceived' \in Nat /\ treceived \in Nat /\ treceived <= treceived'
  BY <1>1 DEF T!Read, T!Room
<1>0. treceived' - treceived \in Nat /\ (treceived' + 1) - (treceived + 1) = treceived' - treceived
  <2>1. \A a, b \in Nat : a <= b => b - a \in Nat /\ (b + 1) - (a + 1) = b - a
    OBVIOUS
  <2> QED
    BY <1>2, <2>1
<1> DEFINE more == T!Units(treceived + 1, treceived')
<1>3. more \in Seq(Nat) /\ Len(more) = treceived' - treceived
      /\ \A i \in 1 .. treceived' - treceived : more[i] = treceived + i
  <2> DEFINE k == treceived' - treceived
             f == [i \in 1 .. k |-> treceived + i]
  <2>1. k \in Nat /\ more = f
    <3>1. (treceived' + 1) - (treceived + 1) = k /\ k \in Nat
      BY <1>0
    <3>2. \A i \in 1 .. k : (treceived + 1) + i - 1 = treceived + i
      BY <1>2, <1>0
    <3>3. more = [i \in 1 .. k |-> (treceived + 1) + i - 1]
      BY <1>2, <1>0 DEF T!Units
    <3> QED
      BY <3>1, <3>2, <3>3
  <2>2. f \in [1 .. k -> Nat]
    BY <1>1
  <2>3. \A g \in [1 .. k -> Nat] : g \in Seq(Nat) /\ Len(g) = k
    BY <2>1
  <2>4. more \in Seq(Nat) /\ Len(more) = k
    BY <2>1, <2>2, <2>3
  <2>5. \A i \in 1 .. k : more[i] = treceived + i
    BY <2>1
  <2> QED
    BY <2>4, <2>5
<1>4. tbuffer' = tbuffer \o more /\ tfile' = tfile /\ tfailed' = tfailed /\ tpc' = "write"
      /\ tpc = "read"
  BY DEF T!Read
<1> HIDE DEF more
<1>51. /\ tbuffer \o more \in Seq(Nat) /\ Len(tbuffer \o more) = Len(tbuffer) + Len(more)
       /\ \A i \in 1 .. Len(tbuffer) + Len(more) :
            (tbuffer \o more)[i] = IF i <= Len(tbuffer) THEN tbuffer[i] ELSE more[i - Len(tbuffer)]
  BY <1>1, <1>3, ConcatProperties
<1>5. /\ tbuffer' \in Seq(Nat) /\ Len(tbuffer') = Len(tbuffer) + (treceived' - treceived)
      /\ \A i \in 1 .. Len(tbuffer) + (treceived' - treceived) :
           tbuffer'[i] = IF i <= Len(tbuffer) THEN tbuffer[i] ELSE more[i - Len(tbuffer)]
  BY <1>3, <1>4, <1>51
<1>6. ASSUME NEW i \in 1 .. Len(tbuffer') PROVE tbuffer'[i] = Len(tfile) + i
  <2>1. CASE i <= Len(tbuffer)
    BY <1>1, <1>2, <1>3, <1>4, <1>5, <2>1 DEF T!Unbroken
  <2>2. CASE i > Len(tbuffer)
    <3>0. i \in 1 .. Len(tbuffer) + (treceived' - treceived) /\ ~(i <= Len(tbuffer))
      BY <1>1, <1>5, <2>2
    <3>1. tbuffer'[i] = more[i - Len(tbuffer)]
      BY <1>5, <3>0
    <3>2. i - Len(tbuffer) \in 1 .. treceived' - treceived
      BY <1>1, <1>2, <1>5, <2>2
    <3>3. more[i - Len(tbuffer)] = treceived + (i - Len(tbuffer))
      BY <1>3, <3>2
    <3>4. treceived = Len(tfile) + Len(tbuffer) /\ Len(tfile) \in Nat /\ Len(tbuffer) \in Nat
      BY <1>1 DEF T!Unbroken
    <3> QED
      BY <3>1, <3>2, <3>3, <3>4
  <2> QED
    BY <1>1, <1>5, <2>1, <2>2
<1>7. T!Unbroken'
  <2>1. Len(tfile') + Len(tbuffer') = treceived'
    BY <1>1, <1>2, <1>4, <1>5 DEF T!Unbroken
  <2>2. \A i \in 1 .. Len(tfile') : tfile'[i] = i
    BY <1>1, <1>4 DEF T!Unbroken
  <2>3. \A i \in 1 .. Len(tbuffer') : tbuffer'[i] = Len(tfile') + i
    BY <1>4, <1>6
  <2> QED
    BY <1>4, <2>1, <2>2, <2>3 DEF T!Unbroken
<1>8. TripleFlags'
  BY <1>1, Zenon DEF T!Read, T!callVars, T!TypeOK, TripleFlags
<1>9. T!TypeOK'
  BY <1>1, <1>2, <1>4, <1>5, <1>8 DEF T!TypeOK, T!Read, T!callVars, TripleFlags
<1> QED
  BY <1>7, <1>9 DEF TripleInv

(* The steps that leave the data alone. *)
TripleQuiet ==
  \/ T!Open \/ T!StopRequest \/ T!StopFinish \/ T!Begin \/ T!LoopTest \/ T!ReadError \/ T!WriteError
  \/ T!RunOutDone \/ T!RunOutError
LEMMA TripleQuietSteps == TripleInv /\ TripleQuiet => TripleInv'
<1> SUFFICES ASSUME TripleInv, TripleQuiet PROVE TripleInv'
  OBVIOUS
<1> USE DEF TripleQuiet, T!Open, T!StopRequest, T!StopFinish, T!Begin,
            T!LoopTest, T!ReadError, T!WriteError, T!RunOutDone, T!RunOutError,
            T!callVars, T!dataVars
<1>1. TripleFlags'
  BY Zenon DEF TripleInv, T!TypeOK, TripleFlags
<1>2. tbuffer' = tbuffer /\ treceived' = treceived /\ tfile' = tfile
  OBVIOUS
<1>3. T!TypeOK'
  BY <1>1, <1>2 DEF TripleInv, T!TypeOK, TripleFlags, T!Joined
<1>4. T!Unbroken'
  BY <1>2 DEF TripleInv, T!TypeOK, T!Unbroken, T!NothingLeft
<1> QED
  BY <1>3, <1>4 DEF TripleInv

(* Start begins with an empty file and an empty buffer. *)
LEMMA TripleStartStep == TripleInv /\ T!Start => TripleInv'
<1> SUFFICES ASSUME TripleInv, T!Start PROVE TripleInv'
  OBVIOUS
<1>1. TripleFlags'
  BY Zenon DEF TripleInv, T!TypeOK, TripleFlags, T!Start
<1>2. T!TypeOK'
  BY <1>1 DEF TripleInv, T!TypeOK, TripleFlags, T!Start
<1>3. T!Unbroken'
  BY DEF TripleInv, T!TypeOK, T!Unbroken, T!Start
<1> QED
  BY <1>2, <1>3 DEF TripleInv

(* A write of the loop or of the run-out loop. *)
LEMMA TripleWriteSteps == TripleInv /\ (T!Write \/ T!RunOutWrite) => TripleInv'
<1> SUFFICES ASSUME TripleInv, T!Write \/ T!RunOutWrite PROVE TripleInv'
  OBVIOUS
<1>1. TripleFlags'
  BY Zenon DEF TripleInv, T!TypeOK, TripleFlags, T!Write, T!RunOutWrite,
               T!callVars, T!dataVars
<1>2. CASE T!Write /\ UNCHANGED T!dataVars
  BY <1>1, <1>2 DEF TripleInv, T!TypeOK, TripleFlags, T!Unbroken, T!Write,
                    T!callVars, T!dataVars
<1>3. CASE \E n \in 1 .. Len(tbuffer) : T!Written(n)
  <2>1. PICK n \in 1 .. Len(tbuffer) : T!Written(n)
    BY <1>3
  <2>2. T!TypeOK /\ T!Unbroken
    BY DEF TripleInv
  <2>3. tpc' = "loop" \/ tpc' = "runout"
    BY DEF T!Write, T!RunOutWrite
  <2>4. T!Unbroken'
    BY <2>1, <2>2, <2>3, WrittenKeeps DEF T!Unbroken
  <2>5. T!TypeOK'
    BY <1>1, <2>1, <2>2, WrittenKeeps
       DEF T!TypeOK, TripleFlags, T!Write, T!RunOutWrite, T!callVars
  <2> QED
    BY <2>4, <2>5 DEF TripleInv
<1> QED
  BY <1>2, <1>3 DEF T!Write, T!RunOutWrite, T!ToWrite

-----------------------------------------------------------------------------
(* Init establishes the invariant and every step keeps it. *)
LEMMA TripleInit == T!Init => TripleInv
<1> SUFFICES ASSUME T!Init PROVE TripleInv
  OBVIOUS
<1>1. TripleFlags
  BY Zenon DEF T!Init, TripleFlags
<1> QED
  BY <1>1 DEF T!Init, TripleInv, T!TypeOK, T!Unbroken, TripleFlags
LEMMA TripleStep == TripleInv /\ [T!Next]_T!vars => TripleInv'
<1>1. CASE UNCHANGED T!vars
  BY <1>1 DEF T!vars, T!callVars, T!dataVars, TripleInv, T!TypeOK, T!Unbroken
<1>2. CASE T!Next
  BY <1>2, ReadKeeps, TripleQuietSteps, TripleStartStep, TripleWriteSteps
     DEF T!Next, T!Caller, T!Thread, TripleQuiet
<1> QED
  BY <1>1, <1>2
LEMMA TripleInvariance == T!Spec => []TripleInv
BY TripleInit, TripleStep, PTL DEF T!Spec

(* File and buffer together are the stream that was received, and when the *)
(* thread has ended all of it is in the file unless its last write failed. *)
THEOREM StreamUnbroken == T!Spec => []T!Unbroken
<1>1. TripleInv => T!Unbroken
  BY DEF TripleInv
<1> QED
  BY <1>1, TripleInvariance, PTL

(* The recorder of libtriple implements the plain copy of StreamCopy.      *)
THEOREM TripleImplementsCopy == T!Spec => T!CopySpec
<1>1. T!Init => T!Copy!Init
  BY DEF T!Init, T!Copy!Init, T!phase
<1>2. TripleInv /\ TripleInv' /\ [T!Next]_T!vars => [T!Copy!Next]_(T!Copy!vars)
  <2> SUFFICES ASSUME TripleInv, TripleInv', [T!Next]_T!vars
               PROVE  T!Copy!Next \/ UNCHANGED <<T!phase, treceived, Len(tfile)>>
    BY DEF T!Copy!vars
  <2>1. CASE T!Start
    BY <2>1 DEF T!Start, TripleInv, T!TypeOK, T!phase, T!Copy!Next,
                T!Copy!Begin, T!Copy!Refuse
  <2>2. CASE T!StopFinish
    BY <2>2 DEF T!StopFinish, T!Joined, T!dataVars, TripleInv, T!TypeOK,
                T!phase, T!Copy!Next, T!Copy!Close
  <2>3. CASE T!Read
    <3>1. treceived' \in treceived .. TMaxStream
      BY <2>3 DEF T!Read
    <3> QED
      BY <2>3, <3>1 DEF T!Read, T!phase, T!Copy!Next, T!Copy!Receive
  <2>4. CASE \E n \in 1 .. Len(tbuffer) : (T!Write \/ T!RunOutWrite) /\ T!Written(n)
    <3>1. PICK n \in 1 .. Len(tbuffer) : (T!Write \/ T!RunOutWrite) /\ T!Written(n)
      BY <2>4
    <3>2. Len(tfile') = Len(tfile) + n
      BY <3>1, WrittenKeeps DEF TripleInv
    <3>3. Len(tfile') + Len(tbuffer') = treceived' /\ treceived' = treceived
      BY <3>1 DEF TripleInv, T!Unbroken, T!Written
    <3>4. Len(tfile') \in Len(tfile) + 1 .. treceived
      BY <3>2, <3>3 DEF TripleInv, T!TypeOK
    <3>5. T!phase = "recording" /\ T!phase' = "recording"
      BY <3>1 DEF T!Write, T!RunOutWrite, T!phase
    <3> QED
      BY <3>3, <3>4, <3>5 DEF T!Copy!Next, T!Copy!Store
  <2>5. CASE T!RunOutDone \/ T!RunOutError
    BY <2>5 DEF T!RunOutDone, T!RunOutError, T!NothingLeft, T!dataVars,
                TripleInv, T!TypeOK, T!Unbroken, T!phase, T!Copy!Next,
                T!Copy!Finish, T!Copy!GiveUp
  <2>6. CASE \/ T!Open \/ T!StopRequest \/ T!Begin \/ T!LoopTest \/ T!ReadError \/ T!WriteError
             \/ T!Write /\ UNCHANGED T!dataVars
    BY <2>6 DEF T!Open, T!StopRequest, T!Begin, T!LoopTest, T!ReadError,
                T!WriteError, T!Write, T!dataVars, T!phase
  <2>7. CASE UNCHANGED T!vars
    BY <2>7 DEF T!vars, T!dataVars, T!phase
  <2> QED
    BY <2>1, <2>2, <2>3, <2>4, <2>5, <2>6, <2>7
       DEF T!Next, T!Caller, T!Thread, T!Write, T!RunOutWrite, T!ToWrite
<1> QED
  BY <1>1, <1>2, TripleInvariance, PTL DEF T!Spec, T!CopySpec, T!Copy!Spec

-----------------------------------------------------------------------------
(* Sound, with any set of volumes and any value of the one that is not     *)
(* initialised.  The inductive invariant says of each thread's call what   *)
(* it has read and not yet written, and that nobody else has changed it    *)
(* since, unless two calls overlapped or it is known to be mixed.          *)

(* The decoder's scale, as a function of what it depends on. *)
LevelOf(b, type, v) ==
  CASE b = "triple" -> S!map_volume(v, 31)
    [] b = "azbox" -> S!map_volume(v, 63)
    [] b = "spark" -> S!map_volume(IF type = "mpeg" THEN (v * 30) \div 53 ELSE v, 63)
(* What the two threads can be at, and the locals of their calls. *)
VolumeSteps == {"volume", "mixwrite", "decwrite"}
MuteSteps == {"mute", "muteclip", "avs"}
GuiPlaces == {"idle", "rewrite"} \cup MuteSteps \cup VolumeSteps
PlayerPlaces == {"idle", "start", "again", "mixer", "probe"} \cup VolumeSteps
Everything == {"mute", "asked", "volume"}
Volumes == Levels \cup {Garbage}
SoundPlaces ==
  /\ spc \in [S!Threads -> GuiPlaces \cup PlayerPlaces]
  /\ spc["gui"] \in GuiPlaces /\ spc["player"] \in PlayerPlaces
Locals ==
  [enable : BOOLEAN, level : Volumes \cup S!Device, ret : {"none", "user", "avs", "idle"}]
SoundRecords == sloc \in [S!Threads -> Locals]
SoundLocals(t) ==
  /\ spc[t] = "volume" => sloc[t].level \in Volumes /\ sloc[t].ret \in {"avs", "idle"}
  /\ spc[t] \in VolumeSteps => sloc[t].ret # "none"
  /\ spc[t] \notin VolumeSteps \cup {"avs"} => sloc[t].ret = "none"
  /\ spc[t] = "avs" => sloc[t].ret \in {"none", "avs"}
  /\ spc[t] = "mixwrite" => sloc[t].level \in Volumes \cup {0}
  /\ spc[t] \in {"decwrite", "rewrite"} => sloc[t].level \in S!Device
  /\ spc[t] = "decwrite" => sloc[t].level # S!Unset
  /\ t = "player" => sloc[t].ret \in {"none", "idle"}
SoundDevice ==
  sdev \in [mute : {"on", "off", "unset"}, volume : S!Device,
            mixer : Volumes \cup {0, S!Unset}, avs : {0, 31, S!Unset}]

SoundFlags ==
  /\ sbox \in S!Boxes /\ muted \in BOOLEAN /\ volume \in Volumes
  /\ asked \in Levels \cup {S!Unset} /\ StreamType \in S!Types /\ clip \in BOOLEAN
  /\ mixer \in {"none", "probed", "unnumbered", "numbered"}
  /\ muteAsked \in BOOLEAN /\ adrift \in BOOLEAN
  /\ salone \subseteq S!Threads /\ smixed \subseteq Everything

(* The calls of a box are its own, and a clip has a mixer that the player  *)
(* asked for.                                                              *)
SoundBox ==
  /\ spc["gui"] \in {"muteclip", "avs"} \/ sloc["gui"].ret = "avs" => sbox = "triple"
  /\ mixer # "none" => clip
  /\ mixer = "probed" <=> spc["player"] = "probe"
  /\ spc["player"] = "mixer" => clip /\ mixer = "none"

(* Of two sections that overlap neither is alone, and as long as one of    *)
(* them lasts everything may be wrong.                                     *)
SoundOverlaps ==
  /\ salone \subseteq {t \in S!Threads : S!InSection(t)}
  /\ \A t \in S!Threads : S!InSection(t) /\ t \notin salone => smixed = Everything
  /\ (\A t \in S!Threads : S!InSection(t)) => salone = {}

(* What a section that is alone has read is still so. *)
SoundAlone(t) ==
  t \in salone =>
    /\ spc[t] = "volume" => sloc[t].level = volume
    /\ spc[t] = "mixwrite" => sloc[t].level = S!Muted(volume)
    /\ spc[t] = "decwrite" /\ spc["player"] # "again" => sloc[t].level = LevelOf(sbox, StreamType, volume)
    /\ spc[t] = "decwrite" /\ S!MixerInUse => spc["player"] \in {"probe", "again"}
    /\ spc[t] \in VolumeSteps /\ sloc[t].ret = "user" => asked = volume
    /\ spc[t] = "rewrite" => sloc[t].level = sdev.volume
    /\ spc[t] \in MuteSteps \/ sloc[t].ret = "avs" \/ spc[t] = "start" => sloc[t].enable = muted
    /\ spc[t] \in {"muteclip", "avs"} \/ sloc[t].ret = "avs" => sdev.mute = S!OnOff(muted)

(* Where nobody is about to set it anew: the volume is the one asked for,  *)
(* mixer and decoder have it, and mute is as asked.                        *)
Settled == \A t \in S!Threads : spc[t] \notin VolumeSteps
VolumeAsked == "asked" \notin smixed /\ asked # S!Unset => volume = asked
MixerHasIt ==
  "volume" \notin smixed /\ Settled /\ spc["player"] \in {"idle", "start"} /\ S!MixerInUse =>
    /\ sdev.mixer \in {0, volume}
    /\ muted /\ sbox = "triple" /\ spc["gui"] \notin {"mute", "muteclip"} => sdev.mixer = 0
DecoderHasIt ==
  /\ "volume" \notin smixed /\ Settled /\ ~adrift /\ sdev.volume # S!Unset
  /\ spc["player"] = "probe" \/ (~S!MixerInUse /\ spc["player"] # "again")
  => sdev.volume = LevelOf(sbox, StreamType, volume)
MuteAsAsked ==
  /\ "mute" \notin smixed /\ muteAsked
  /\ spc["gui"] \notin MuteSteps /\ sloc["gui"].ret # "avs"
  => /\ sdev.mute = S!OnOff(muted)
     /\ sbox = "triple" => sdev.avs = IF muted THEN 31 ELSE 0

SoundShape ==
  /\ SoundFlags /\ SoundPlaces /\ SoundDevice /\ SoundBox
  /\ SoundLocals("gui") /\ SoundLocals("player")
SoundSections == SoundOverlaps /\ SoundAlone("gui") /\ SoundAlone("player")
SoundSettles == VolumeAsked /\ MixerHasIt /\ DecoderHasIt /\ MuteAsAsked
SoundInv == SoundShape /\ SoundRecords /\ SoundSections /\ SoundSettles
(* The decoder's scale, and what it makes of a volume.                     *)
LEMMA LevelIs ==
  ASSUME sbox \in S!Boxes
  PROVE  /\ \A v : S!Level(v) = LevelOf(sbox, StreamType, v)
         /\ \A v \in Volumes : LevelOf(sbox, StreamType, v) \in 0 .. 63
<1>1. \A v \in Int : S!map_volume(v, 31) \in 0 .. 63 /\ S!map_volume(v, 63) \in 0 .. 63
  BY DEF S!map_volume
<1>2. \A v \in Int : (v * 30) \div 53 \in Int
  OBVIOUS
<1>3. \A v : S!Level(v) = LevelOf(sbox, StreamType, v)
  BY DEF S!Level, LevelOf, S!TripleLevel, S!AzboxLevel, S!SparkLevel, S!Boxes
<1>4. \A v \in Int : LevelOf(sbox, StreamType, v) \in 0 .. 63
  BY <1>1, <1>2 DEF LevelOf, S!Boxes
<1> QED
  BY <1>3, <1>4, SoundAssumption DEF Volumes

(* The locals of a call stay records when a step sets them.                *)
LEMMA LocalsSet ==
  ASSUME SoundRecords, NEW t \in S!Threads
  PROVE  /\ \A r \in Locals : [sloc EXCEPT ![t] = r] \in [S!Threads -> Locals]
         /\ \A l \in Volumes \cup S!Device, ret \in {"none", "user", "avs", "idle"} :
              [sloc EXCEPT ![t].level = l, ![t].ret = ret] \in [S!Threads -> Locals]
         /\ \A l \in Volumes \cup S!Device :
              [sloc EXCEPT ![t].level = l] \in [S!Threads -> Locals]
         /\ \A e \in BOOLEAN : [sloc EXCEPT ![t].enable = e] \in [S!Threads -> Locals]
         /\ [sloc EXCEPT ![t] = S!NoLocals] \in [S!Threads -> Locals]
<1>1. sloc[t] \in Locals /\ sloc \in [S!Threads -> Locals]
  BY DEF SoundRecords
<1>2. \A r \in Locals : [sloc EXCEPT ![t] = r] \in [S!Threads -> Locals]
  BY <1>1
<1>3. \A l \in Volumes \cup S!Device : [sloc[t] EXCEPT !.level = l] \in Locals
  BY <1>1 DEF Locals
<1>4. \A r \in Locals, ret \in {"none", "user", "avs", "idle"} : [r EXCEPT !.ret = ret] \in Locals
  BY DEF Locals
<1>5. \A e \in BOOLEAN : [sloc[t] EXCEPT !.enable = e] \in Locals
  BY <1>1 DEF Locals
<1>6. S!NoLocals \in Locals
  BY DEF Locals, S!NoLocals, S!Device
<1>7. \A l, ret : [sloc EXCEPT ![t].level = l, ![t].ret = ret] =
         [sloc EXCEPT ![t] = [[sloc[t] EXCEPT !.level = l] EXCEPT !.ret = ret]]
  BY <1>1
<1>8. \A l : [sloc EXCEPT ![t].level = l] = [sloc EXCEPT ![t] = [sloc[t] EXCEPT !.level = l]]
  BY <1>1
<1>9. \A e : [sloc EXCEPT ![t].enable = e] = [sloc EXCEPT ![t] = [sloc[t] EXCEPT !.enable = e]]
  BY <1>1
<1> QED
  BY <1>1, <1>2, <1>3, <1>4, <1>5, <1>6, <1>7, <1>8, <1>9

(* The locals of the two calls, step by step.                              *)
LEMMA SoundRecordsStep ==
  ASSUME SoundInv, S!Next
  PROVE  SoundRecords'
<1>0. SoundShape /\ SoundRecords /\ SoundSections /\ SoundSettles /\ sbox \in S!Boxes
  BY DEF SoundInv, SoundShape, SoundFlags
<1> USE LevelIs, SoundAssumption DEF S!Goto, S!Done, S!Leaves, S!Enters,
                                     S!Corrects, S!InSection, S!members,
                                     S!ghosts, S!overlaps, S!Threads,
                                     S!MixerInUse, S!Muted, S!OnOff, S!Unset,
                                     S!Types, S!Boxes
<1>1. ASSUME NEW v \in Levels, S!SetVolume(v) PROVE SoundRecords'
  <2> DEFINE l == IF S!MixerInUse THEN S!Muted(v) ELSE S!Level(v)
             r == IF sloc["gui"].ret = "none" THEN "user" ELSE sloc["gui"].ret
  <2>1. S!Level(v) \in 0 .. 63 /\ v \in Volumes
    BY <1>0 DEF Volumes
  <2>2. l \in Volumes \cup S!Device
    BY <2>1 DEF S!Device
  <2>3. sloc \in [S!Threads -> Locals] /\ "gui" \in S!Threads
    BY <1>0 DEF SoundRecords
  <2>4. r \in {"none", "user", "avs", "idle"}
    BY <2>3 DEF Locals
  <2>5. sloc' = [sloc EXCEPT !["gui"].level = l, !["gui"].ret = r]
    BY <1>1, <2>3 DEF S!SetVolume, S!setVolume
  <2>6. \A k \in Volumes \cup S!Device, ret \in {"none", "user", "avs", "idle"} :
          [sloc EXCEPT !["gui"].level = k, !["gui"].ret = ret] \in [S!Threads -> Locals]
    BY <1>0, <2>3, LocalsSet
  <2> HIDE LevelIs, SoundAssumption DEF l, r
  <2>7. [sloc EXCEPT !["gui"].level = l, !["gui"].ret = r] \in [S!Threads -> Locals]
    BY ONLY <2>2, <2>4, <2>6
  <2> QED
    BY ONLY <2>5, <2>7 DEF SoundRecords
<1>2. ASSUME NEW e \in BOOLEAN, S!SetMute(e) PROVE SoundRecords'
  BY <1>0, <1>2, LocalsSet
     DEF SoundRecords, SoundShape, SoundFlags, SoundPlaces, SoundDevice,
         SoundBox, SoundLocals, GuiPlaces, PlayerPlaces, VolumeSteps, MuteSteps,
         Volumes, Everything, Settled, S!Device, S!SetMute
<1>3. CASE S!TripleMute \/ S!AzboxMute
  BY <1>0, <1>3, LocalsSet
     DEF SoundRecords, SoundShape, SoundFlags, SoundPlaces, SoundDevice,
         SoundBox, SoundLocals, GuiPlaces, PlayerPlaces, VolumeSteps, MuteSteps,
         Volumes, Everything, Settled, S!Device, S!TripleMute, S!AzboxMute
<1>4. CASE S!MuteClip
  <2>1. volume \in Volumes \cup S!Device /\ "gui" \in S!Threads
    BY <1>0 DEF SoundShape, SoundFlags
  <2>2. sloc' = sloc \/ sloc' = [sloc EXCEPT !["gui"].level = volume, !["gui"].ret = "avs"]
    BY <1>4 DEF S!MuteClip, S!CallsSetVolume
  <2>3. \A k \in Volumes \cup S!Device, ret \in {"none", "user", "avs", "idle"} :
          [sloc EXCEPT !["gui"].level = k, !["gui"].ret = ret] \in [S!Threads -> Locals]
    BY <1>0, <2>1, LocalsSet
  <2> QED
    BY <1>0, <2>1, <2>2, <2>3 DEF SoundRecords
<1>5. CASE S!MuteAvs
  BY <1>0, <1>5, LocalsSet
     DEF SoundRecords, SoundShape, SoundFlags, SoundPlaces, SoundDevice,
         SoundBox, SoundLocals, GuiPlaces, PlayerPlaces, VolumeSteps, MuteSteps,
         Volumes, Everything, Settled, S!Device, S!MuteAvs
<1>6. CASE S!SparkMute
  <2>1. sdev.volume \in Volumes \cup S!Device /\ "gui" \in S!Threads
    BY <1>0 DEF SoundShape, SoundDevice
  <2>2. \/ sloc' = [sloc EXCEPT !["gui"] = S!NoLocals]
        \/ sloc' = [sloc EXCEPT !["gui"].level = sdev.volume]
    BY <1>6 DEF S!SparkMute
  <2>3. /\ [sloc EXCEPT !["gui"] = S!NoLocals] \in [S!Threads -> Locals]
        /\ \A k \in Volumes \cup S!Device :
             [sloc EXCEPT !["gui"].level = k] \in [S!Threads -> Locals]
    BY <1>0, <2>1, LocalsSet
  <2> QED
    BY <2>1, <2>2, <2>3 DEF SoundRecords
<1>7. CASE S!Rewrite
  BY <1>0, <1>7, LocalsSet
     DEF SoundRecords, SoundShape, SoundFlags, SoundPlaces, SoundDevice,
         SoundBox, SoundLocals, GuiPlaces, PlayerPlaces, VolumeSteps, MuteSteps,
         Volumes, Everything, Settled, S!Device, S!Rewrite
<1>8. CASE S!Start \/ S!Started
  <2>1. CASE S!Start
    BY <1>0, <2>1, LocalsSet
       DEF SoundRecords, SoundShape, SoundFlags, SoundPlaces, SoundDevice,
           SoundBox, SoundLocals, GuiPlaces, PlayerPlaces, VolumeSteps,
           MuteSteps, Volumes, Everything, Settled, S!Device, S!Start
  <2>2. CASE S!Started
    BY <1>0, <2>2, LocalsSet
       DEF SoundRecords, SoundShape, SoundFlags, SoundPlaces, SoundDevice,
           SoundBox, SoundLocals, GuiPlaces, PlayerPlaces, VolumeSteps,
           MuteSteps, Volumes, Everything, Settled, S!Device, S!Started
  <2> QED
    BY <1>8, <2>1, <2>2
<1>9. CASE S!Again
  BY <1>0, <1>9, LocalsSet
     DEF SoundRecords, SoundShape, SoundFlags, SoundPlaces, SoundDevice,
         SoundBox, SoundLocals, GuiPlaces, PlayerPlaces, VolumeSteps, MuteSteps,
         Volumes, Everything, Settled, S!Device, S!Again, S!CallsSetVolume
<1>10. CASE S!OpenClip \/ S!OpenMixer \/ S!Probe
  BY <1>0, <1>10, LocalsSet
     DEF SoundRecords, SoundShape, SoundFlags, SoundPlaces, SoundDevice,
         SoundBox, SoundLocals, GuiPlaces, PlayerPlaces, VolumeSteps, MuteSteps,
         Volumes, Everything, Settled, S!Device, S!OpenClip, S!OpenMixer,
         S!Probe
<1>11. CASE S!StopClip \/ S!closeDevice
  BY <1>0, <1>11, LocalsSet
     DEF SoundRecords, SoundShape, SoundFlags, SoundPlaces, SoundDevice,
         SoundBox, SoundLocals, GuiPlaces, PlayerPlaces, VolumeSteps, MuteSteps,
         Volumes, Everything, Settled, S!Device, S!StopClip, S!closeDevice,
         S!ClosesClip, S!ThenSets
<1>12. ASSUME NEW type \in S!Types, S!SetStreamType(type) PROVE SoundRecords'
  BY <1>0, <1>12, LocalsSet
     DEF SoundRecords, SoundShape, SoundFlags, SoundPlaces, SoundDevice,
         SoundBox, SoundLocals, GuiPlaces, PlayerPlaces, VolumeSteps, MuteSteps,
         Volumes, Everything, Settled, S!Device, S!SetStreamType
<1>13. ASSUME NEW t \in S!Threads, S!Volume(t) PROVE SoundRecords'
  <2> DEFINE v == sloc[t].level
             l == IF S!MixerInUse THEN S!Muted(v) ELSE S!Level(v)
             r == IF sloc[t].ret = "none" THEN "user" ELSE sloc[t].ret
  <2>1. v \in Volumes
    BY <1>0, <1>13 DEF S!Volume, SoundShape, SoundLocals
  <2>2. S!Level(v) \in 0 .. 63
    BY <1>0, <2>1
  <2>3. l \in Volumes \cup S!Device
    BY <2>1, <2>2 DEF S!Device
  <2>4. sloc \in [S!Threads -> Locals]
    BY <1>0 DEF SoundRecords
  <2>5. r \in {"none", "user", "avs", "idle"}
    BY <2>4 DEF Locals
  <2>6. sloc' = [sloc EXCEPT ![t].level = l, ![t].ret = r]
    BY <1>13, <2>4 DEF S!Volume, S!setVolume
  <2>7. \A k \in Volumes \cup S!Device, ret \in {"none", "user", "avs", "idle"} :
          [sloc EXCEPT ![t].level = k, ![t].ret = ret] \in [S!Threads -> Locals]
    BY <1>0, LocalsSet
  <2> HIDE LevelIs, SoundAssumption DEF l, r
  <2>8. [sloc EXCEPT ![t].level = l, ![t].ret = r] \in [S!Threads -> Locals]
    BY ONLY <2>3, <2>5, <2>7
  <2> QED
    BY ONLY <2>6, <2>8 DEF SoundRecords
<1>14. ASSUME NEW t \in S!Threads, S!MixWrite(t) PROVE SoundRecords'
  <2>1. sloc' = sloc \/ sloc' = [sloc EXCEPT ![t] = S!NoLocals]
    BY <1>14 DEF S!MixWrite, S!VolumeDone, S!Written
  <2> QED
    BY <1>0, <2>1, LocalsSet DEF SoundRecords
<1>15. ASSUME NEW t \in S!Threads, S!DecWrite(t) PROVE SoundRecords'
  <2>1. sloc' = sloc \/ sloc' = [sloc EXCEPT ![t] = S!NoLocals]
    BY <1>15 DEF S!DecWrite, S!VolumeDone, S!Written
  <2> QED
    BY <1>0, <2>1, LocalsSet DEF SoundRecords
<1> HIDE LevelIs, SoundAssumption DEF S!Goto, S!Done, S!Leaves, S!Enters,
                                      S!Corrects, S!InSection, S!members,
                                      S!ghosts, S!overlaps, S!Threads,
                                      S!MixerInUse, S!Muted, S!OnOff, S!Unset,
                                      S!Types, S!Boxes
<1> QED
  BY <1>1, <1>2, <1>3, <1>4, <1>5, <1>6, <1>7, <1>8, <1>9, <1>10, <1>11, <1>12, <1>13, <1>14, <1>15
     DEF S!Next, S!Mute, S!Player, S!TriplePrepareClipPlay,
         S!SparkPrepareClipPlay, S!AzboxPrepareClipPlay, S!TripleStopClip,
         S!SparkStopClip, S!AzboxStopClip

(* Where the calls are, and what they have at hand there.                  *)
LEMMA SoundShapeStep ==
  ASSUME SoundInv, S!Next
  PROVE  SoundShape'
<1>0. SoundShape /\ SoundRecords /\ SoundSections /\ SoundSettles /\ sbox \in S!Boxes
  BY DEF SoundInv, SoundShape, SoundFlags
<1> USE LevelIs, SoundAssumption DEF S!Goto, S!Done, S!Leaves, S!Enters,
                                     S!Corrects, S!InSection, S!members,
                                     S!ghosts, S!overlaps, S!Threads,
                                     S!MixerInUse, S!Muted, S!OnOff, S!Unset,
                                     S!Types, S!Boxes, SoundRecords, Locals,
                                     S!NoLocals, SoundShape, SoundFlags,
                                     SoundPlaces, SoundDevice, SoundBox,
                                     SoundLocals, GuiPlaces, PlayerPlaces,
                                     VolumeSteps, MuteSteps, Volumes,
                                     Everything, Settled, S!Device
<1>1. ASSUME NEW v \in Levels, S!SetVolume(v) PROVE SoundShape'
  BY <1>0, <1>1 DEF S!SetVolume, S!setVolume
<1>2. ASSUME NEW e \in BOOLEAN, S!SetMute(e) PROVE SoundShape'
  BY <1>0, <1>2 DEF S!SetMute
<1>3. CASE S!TripleMute \/ S!AzboxMute
  BY <1>0, <1>3 DEF S!TripleMute, S!AzboxMute
<1>4. CASE S!MuteClip
  BY <1>0, <1>4 DEF S!MuteClip, S!CallsSetVolume
<1>5. CASE S!MuteAvs
  BY <1>0, <1>5 DEF S!MuteAvs
<1>6. CASE S!SparkMute
  BY <1>0, <1>6 DEF S!SparkMute
<1>7. CASE S!Rewrite
  BY <1>0, <1>7 DEF S!Rewrite
<1>8. CASE S!Start \/ S!Started
  BY <1>0, <1>8 DEF S!Start, S!Started
<1>9. CASE S!Again
  BY <1>0, <1>9 DEF S!Again, S!CallsSetVolume
<1>10. CASE S!OpenClip \/ S!OpenMixer \/ S!Probe
  <2>1. SoundFlags'
    <3>1. /\ mixer' \in {"none", "probed", "unnumbered", "numbered"} /\ clip' \in BOOLEAN
          /\ UNCHANGED <<sbox, muted, volume, StreamType, asked, muteAsked, adrift, salone, smixed>>
      BY <1>0, <1>10 DEF S!OpenClip, S!OpenMixer, S!Probe
    <3> QED
      BY ONLY <1>0, <3>1 DEF SoundShape, SoundFlags
  <2>2. SoundPlaces'
    BY <1>0, <1>10 DEF S!OpenClip, S!OpenMixer, S!Probe
  <2>3. SoundDevice'
    BY <1>0, <1>10 DEF S!OpenClip, S!OpenMixer, S!Probe
  <2>4. SoundBox'
    BY <1>0, <1>10 DEF S!OpenClip, S!OpenMixer, S!Probe
  <2>5. SoundLocals("gui")'
    BY <1>0, <1>10 DEF S!OpenClip, S!OpenMixer, S!Probe
  <2>6. SoundLocals("player")'
    BY <1>0, <1>10 DEF S!OpenClip, S!OpenMixer, S!Probe
  <2> QED
    BY ONLY <2>1, <2>2, <2>3, <2>4, <2>5, <2>6 DEF SoundShape
<1>11. CASE S!StopClip \/ S!closeDevice
  <2>1. SoundFlags'
    BY <1>0, <1>11 DEF S!StopClip, S!closeDevice, S!ClosesClip, S!ThenSets
  <2>2. SoundPlaces'
    BY <1>0, <1>11 DEF S!StopClip, S!closeDevice, S!ClosesClip, S!ThenSets
  <2>3. SoundDevice'
    BY <1>0, <1>11 DEF S!StopClip, S!closeDevice, S!ClosesClip, S!ThenSets
  <2>4. SoundBox'
    BY <1>0, <1>11 DEF S!StopClip, S!closeDevice, S!ClosesClip, S!ThenSets
  <2>5. SoundLocals("gui")'
    BY <1>0, <1>11 DEF S!StopClip, S!closeDevice, S!ClosesClip, S!ThenSets
  <2>6. SoundLocals("player")'
    BY <1>0, <1>11 DEF S!StopClip, S!closeDevice, S!ClosesClip, S!ThenSets
  <2> QED
    BY ONLY <2>1, <2>2, <2>3, <2>4, <2>5, <2>6 DEF SoundShape
<1>12. ASSUME NEW type \in S!Types, S!SetStreamType(type) PROVE SoundShape'
  BY <1>0, <1>12 DEF S!SetStreamType
<1>13. ASSUME NEW t \in S!Threads, S!Volume(t) PROVE SoundShape'
  BY <1>0, <1>13 DEF S!Volume, S!setVolume
<1>14. ASSUME NEW t \in S!Threads, S!MixWrite(t) PROVE SoundShape'
  BY <1>0, <1>14 DEF S!MixWrite, S!VolumeDone, S!Written
<1>15. ASSUME NEW t \in S!Threads, S!DecWrite(t) PROVE SoundShape'
  <2>1. SoundFlags'
    <3>1. smixed' \subseteq smixed /\ salone' \subseteq salone /\ adrift' = FALSE
      BY <1>15 DEF S!DecWrite, S!VolumeDone, S!Written
    <3>2. UNCHANGED <<sbox, muted, volume, StreamType, clip, mixer, asked, muteAsked>>
      BY <1>15 DEF S!DecWrite, S!VolumeDone, S!Written
    <3>3. SoundFlags
      BY <1>0
    <3>4. smixed' \subseteq Everything /\ salone' \subseteq S!Threads
      BY ONLY <3>1, <3>3 DEF SoundFlags
    <3> QED
      BY ONLY <3>1, <3>2, <3>3, <3>4 DEF SoundFlags
  <2>2. SoundPlaces'
    BY <1>0, <1>15 DEF S!DecWrite, S!VolumeDone, S!Written
  <2>3. SoundDevice'
    BY <1>0, <1>15 DEF S!DecWrite, S!VolumeDone, S!Written
  <2>4. SoundBox'
    BY <1>0, <1>15 DEF S!DecWrite, S!VolumeDone, S!Written
  <2>5. SoundLocals("gui")'
    BY <1>0, <1>15 DEF S!DecWrite, S!VolumeDone, S!Written
  <2>6. SoundLocals("player")'
    BY <1>0, <1>15 DEF S!DecWrite, S!VolumeDone, S!Written
  <2> QED
    BY ONLY <2>1, <2>2, <2>3, <2>4, <2>5, <2>6 DEF SoundShape
<1> HIDE LevelIs, SoundAssumption DEF S!Goto, S!Done, S!Leaves, S!Enters,
                                      S!Corrects, S!InSection, S!members,
                                      S!ghosts, S!overlaps, S!Threads,
                                      S!MixerInUse, S!Muted, S!OnOff, S!Unset,
                                      S!Types, S!Boxes, SoundRecords, Locals,
                                      S!NoLocals, SoundShape, SoundFlags,
                                      SoundPlaces, SoundDevice, SoundBox,
                                      SoundLocals, GuiPlaces, PlayerPlaces,
                                      VolumeSteps, MuteSteps, Volumes,
                                      Everything, Settled, S!Device
<1> QED
  BY <1>1, <1>2, <1>3, <1>4, <1>5, <1>6, <1>7, <1>8, <1>9, <1>10, <1>11, <1>12, <1>13, <1>14, <1>15
     DEF S!Next, S!Mute, S!Player, S!TriplePrepareClipPlay,
         S!SparkPrepareClipPlay, S!AzboxPrepareClipPlay, S!TripleStopClip,
         S!SparkStopClip, S!AzboxStopClip

(* Calls that overlap have read what the other may set.                    *)
LEMMA SoundSectionsStep ==
  ASSUME SoundInv, S!Next
  PROVE  SoundSections'
<1>0. SoundShape /\ SoundRecords /\ SoundSections /\ SoundSettles /\ sbox \in S!Boxes
  BY DEF SoundInv, SoundShape, SoundFlags
<1> USE LevelIs, SoundAssumption DEF S!Goto, S!Done, S!Leaves, S!Enters,
                                     S!Corrects, S!InSection, S!members,
                                     S!ghosts, S!overlaps, S!Threads,
                                     S!MixerInUse, S!Muted, S!OnOff, S!Unset,
                                     S!Types, S!Boxes, SoundRecords, Locals,
                                     S!NoLocals, SoundShape, SoundFlags,
                                     SoundPlaces, SoundDevice, SoundBox,
                                     SoundLocals, GuiPlaces, PlayerPlaces,
                                     VolumeSteps, MuteSteps, Volumes,
                                     Everything, Settled, S!Device,
                                     SoundSections, SoundOverlaps, SoundAlone
<1>1. ASSUME NEW v \in Levels, S!SetVolume(v) PROVE SoundSections'
  BY <1>0, <1>1 DEF S!SetVolume, S!setVolume
<1>2. ASSUME NEW e \in BOOLEAN, S!SetMute(e) PROVE SoundSections'
  BY <1>0, <1>2 DEF S!SetMute
<1>3. CASE S!TripleMute \/ S!AzboxMute
  BY <1>0, <1>3 DEF S!TripleMute, S!AzboxMute
<1>4. CASE S!MuteClip
  BY <1>0, <1>4 DEF S!MuteClip, S!CallsSetVolume
<1>5. CASE S!MuteAvs
  BY <1>0, <1>5 DEF S!MuteAvs
<1>6. CASE S!SparkMute
  BY <1>0, <1>6 DEF S!SparkMute
<1>7. CASE S!Rewrite
  BY <1>0, <1>7 DEF S!Rewrite
<1>8. CASE S!Start \/ S!Started
  BY <1>0, <1>8 DEF S!Start, S!Started
<1>9. CASE S!Again
  BY <1>0, <1>9 DEF S!Again, S!CallsSetVolume
<1>10. CASE S!OpenClip \/ S!OpenMixer \/ S!Probe
  <2>1. CASE S!OpenClip
    BY <1>0, <2>1 DEF S!OpenClip
  <2>2. CASE S!OpenMixer
    BY <1>0, <2>2 DEF S!OpenMixer
  <2>3. CASE S!Probe
    BY <1>0, <2>3 DEF S!Probe
  <2> QED
    BY <1>10, <2>1, <2>2, <2>3
<1>11. CASE S!StopClip \/ S!closeDevice
  BY <1>0, <1>11 DEF S!StopClip, S!closeDevice, S!ClosesClip, S!ThenSets
<1>12. ASSUME NEW type \in S!Types, S!SetStreamType(type) PROVE SoundSections'
  BY <1>0, <1>12 DEF S!SetStreamType
<1>13. ASSUME NEW t \in S!Threads, S!Volume(t) PROVE SoundSections'
  BY <1>0, <1>13 DEF S!Volume, S!setVolume
<1>14. ASSUME NEW t \in S!Threads, S!MixWrite(t) PROVE SoundSections'
  BY <1>0, <1>14 DEF S!MixWrite, S!VolumeDone, S!Written
<1>15. ASSUME NEW t \in S!Threads, S!DecWrite(t) PROVE SoundSections'
  BY <1>0, <1>15 DEF S!DecWrite, S!VolumeDone, S!Written
<1> HIDE LevelIs, SoundAssumption DEF S!Goto, S!Done, S!Leaves, S!Enters,
                                      S!Corrects, S!InSection, S!members,
                                      S!ghosts, S!overlaps, S!Threads,
                                      S!MixerInUse, S!Muted, S!OnOff, S!Unset,
                                      S!Types, S!Boxes, SoundRecords, Locals,
                                      S!NoLocals, SoundShape, SoundFlags,
                                      SoundPlaces, SoundDevice, SoundBox,
                                      SoundLocals, GuiPlaces, PlayerPlaces,
                                      VolumeSteps, MuteSteps, Volumes,
                                      Everything, Settled, S!Device,
                                      SoundSections, SoundOverlaps, SoundAlone
<1> QED
  BY <1>1, <1>2, <1>3, <1>4, <1>5, <1>6, <1>7, <1>8, <1>9, <1>10, <1>11, <1>12, <1>13, <1>14, <1>15
     DEF S!Next, S!Mute, S!Player, S!TriplePrepareClipPlay,
         S!SparkPrepareClipPlay, S!AzboxPrepareClipPlay, S!TripleStopClip,
         S!SparkStopClip, S!AzboxStopClip

(* Volume, mixer, decoder and mute, when nobody is about to set them.      *)
LEMMA SoundSettlesStep ==
  ASSUME SoundInv, S!Next
  PROVE  SoundSettles'
<1>0. SoundShape /\ SoundRecords /\ SoundSections /\ SoundSettles /\ sbox \in S!Boxes
  BY DEF SoundInv, SoundShape, SoundFlags
<1> USE LevelIs, SoundAssumption DEF S!Goto, S!Done, S!Leaves, S!Enters,
                                     S!Corrects, S!InSection, S!members,
                                     S!ghosts, S!overlaps, S!Threads,
                                     S!MixerInUse, S!Muted, S!OnOff, S!Unset,
                                     S!Types, S!Boxes, SoundRecords, Locals,
                                     S!NoLocals, SoundShape, SoundFlags,
                                     SoundPlaces, SoundDevice, SoundBox,
                                     SoundLocals, GuiPlaces, PlayerPlaces,
                                     VolumeSteps, MuteSteps, Volumes,
                                     Everything, Settled, S!Device,
                                     SoundSections, SoundOverlaps, SoundAlone,
                                     SoundSettles, VolumeAsked, MixerHasIt,
                                     DecoderHasIt, MuteAsAsked
<1>1. ASSUME NEW v \in Levels, S!SetVolume(v) PROVE SoundSettles'
  BY <1>0, <1>1 DEF S!SetVolume, S!setVolume
<1>2. ASSUME NEW e \in BOOLEAN, S!SetMute(e) PROVE SoundSettles'
  BY <1>0, <1>2 DEF S!SetMute
<1>3. CASE S!TripleMute \/ S!AzboxMute
  BY <1>0, <1>3 DEF S!TripleMute, S!AzboxMute
<1>4. CASE S!MuteClip
  BY <1>0, <1>4 DEF S!MuteClip, S!CallsSetVolume
<1>5. CASE S!MuteAvs
  BY <1>0, <1>5 DEF S!MuteAvs
<1>6. CASE S!SparkMute
  BY <1>0, <1>6 DEF S!SparkMute
<1>7. CASE S!Rewrite
  BY <1>0, <1>7 DEF S!Rewrite
<1>8. CASE S!Start \/ S!Started
  BY <1>0, <1>8 DEF S!Start, S!Started
<1>9. CASE S!Again
  BY <1>0, <1>9 DEF S!Again, S!CallsSetVolume
<1>10. CASE S!OpenClip \/ S!OpenMixer \/ S!Probe
  BY <1>0, <1>10 DEF S!OpenClip, S!OpenMixer, S!Probe
<1>11. CASE S!StopClip \/ S!closeDevice
  BY <1>0, <1>11 DEF S!StopClip, S!closeDevice, S!ClosesClip, S!ThenSets
<1>12. ASSUME NEW type \in S!Types, S!SetStreamType(type) PROVE SoundSettles'
  BY <1>0, <1>12 DEF S!SetStreamType
<1>13. ASSUME NEW t \in S!Threads, S!Volume(t) PROVE SoundSettles'
  BY <1>0, <1>13 DEF S!Volume, S!setVolume
<1>14. ASSUME NEW t \in S!Threads, S!MixWrite(t) PROVE SoundSettles'
  BY <1>0, <1>14 DEF S!MixWrite, S!VolumeDone, S!Written
<1>15. ASSUME NEW t \in S!Threads, S!DecWrite(t) PROVE SoundSettles'
  BY <1>0, <1>15 DEF S!DecWrite, S!VolumeDone, S!Written
<1> HIDE LevelIs, SoundAssumption DEF S!Goto, S!Done, S!Leaves, S!Enters,
                                      S!Corrects, S!InSection, S!members,
                                      S!ghosts, S!overlaps, S!Threads,
                                      S!MixerInUse, S!Muted, S!OnOff, S!Unset,
                                      S!Types, S!Boxes, SoundRecords, Locals,
                                      S!NoLocals, SoundShape, SoundFlags,
                                      SoundPlaces, SoundDevice, SoundBox,
                                      SoundLocals, GuiPlaces, PlayerPlaces,
                                      VolumeSteps, MuteSteps, Volumes,
                                      Everything, Settled, S!Device,
                                      SoundSections, SoundOverlaps, SoundAlone,
                                      SoundSettles, VolumeAsked, MixerHasIt,
                                      DecoderHasIt, MuteAsAsked
<1> QED
  BY <1>1, <1>2, <1>3, <1>4, <1>5, <1>6, <1>7, <1>8, <1>9, <1>10, <1>11, <1>12, <1>13, <1>14, <1>15
     DEF S!Next, S!Mute, S!Player, S!TriplePrepareClipPlay,
         S!SparkPrepareClipPlay, S!AzboxPrepareClipPlay, S!TripleStopClip,
         S!SparkStopClip, S!AzboxStopClip

LEMMA SoundStep ==
  ASSUME SoundInv, [S!Next]_(S!vars)
  PROVE  SoundInv'
<1>1. CASE S!Next
  BY <1>1, SoundRecordsStep, SoundShapeStep, SoundSectionsStep, SoundSettlesStep
     DEF SoundInv
<1>2. CASE UNCHANGED S!vars
  <2> USE <1>2, LevelIs DEF SoundInv, S!vars, S!members, S!ghosts, S!overlaps
  <2>1. SoundRecords' /\ SoundShape'
    BY DEF SoundRecords, SoundShape, SoundFlags, SoundPlaces, SoundDevice,
           SoundBox, SoundLocals
  <2>2. SoundSections'
    BY DEF SoundSections, SoundOverlaps, SoundAlone, S!InSection, S!Muted,
           S!MixerInUse, SoundShape, SoundFlags
  <2>3. SoundSettles'
    BY DEF SoundSettles, VolumeAsked, MixerHasIt, DecoderHasIt, MuteAsAsked,
           Settled, S!MixerInUse, SoundShape, SoundFlags
  <2> QED
    BY <2>1, <2>2, <2>3
<1> QED
  BY <1>1, <1>2

LEMMA SoundInit ==
  ASSUME S!Init
  PROVE  SoundInv
<1> USE SoundAssumption DEF S!Init, S!Threads, S!Boxes, S!Types, S!Unset,
                            S!NoLocals, S!Device
<1>1. SoundRecords
  BY DEF SoundRecords, Locals
<1>2. SoundShape
  BY DEF SoundShape, SoundFlags, SoundPlaces, SoundDevice, SoundBox,
         SoundLocals, GuiPlaces, PlayerPlaces, VolumeSteps, MuteSteps, Volumes
<1>3. SoundSections
  BY DEF SoundSections, SoundOverlaps, SoundAlone, S!InSection
<1>4. SoundSettles
  BY DEF SoundSettles, VolumeAsked, MixerHasIt, DecoderHasIt, MuteAsAsked,
         Settled, S!MixerInUse
<1> QED
  BY <1>1, <1>2, <1>3, <1>4 DEF SoundInv

(* The inductive invariant is enough.                                      *)
LEMMA SoundSafe ==
  ASSUME SoundInv
  PROVE  S!TypeOK /\ S!SoundFollows
<1> USE DEF SoundInv, SoundShape, SoundFlags, SoundPlaces, SoundDevice,
            SoundLocals, S!Threads
<1>1. S!TypeOK
  BY DEF S!TypeOK, SoundRecords, Volumes, Everything, SoundBox
<1>2. ASSUME S!AtRest PROVE S!SoundFollows
  <2>1. spc["gui"] = "idle" /\ spc["player"] = "idle" /\ Settled /\ sloc["gui"].ret = "none"
    BY <1>2 DEF S!AtRest, Settled, VolumeSteps
  <2>2. sbox \in S!Boxes /\ SoundSettles
    OBVIOUS
  <2> QED
    BY ONLY <2>1, <2>2, LevelIs
       DEF S!SoundFollows, SoundSettles, VolumeAsked, MixerHasIt, DecoderHasIt,
           MuteAsAsked, MuteSteps, S!MixerInUse
<1> QED
  BY <1>1, <1>2 DEF S!SoundFollows

-----------------------------------------------------------------------------
(* DvbVideo.  The inductive invariant says in which order the steps that   *)
(* the calls of the three threads have before them may come, and what a    *)
(* call that no other crosses knows of the state it has read.              *)

(* What the calls of a thread are made of, with the box b. *)
Words(b, t) ==
  IF b = "spark"
    THEN {"unstill", "play", "stop", "halt", "close", "open", "opens"}
           \cup (CASE t = "gui" -> {"mark", "show", "unmark", "off", "on"}
                   [] t = "zap" -> {"freeze", "hold", "off", "standby", "wake", "awake"}
                   [] t = "movie" -> {"take", "give"})
    ELSE CASE t = "gui" -> {"lock", "mark", "show", "unlock", "unmark"}
           [] t = "zap" -> {"play", "stop", "lock", "blank", "unlock", "halt", "freeze", "hold",
                            "close", "off", "standby", "on", "open", "opens", "awake"}
           [] t = "movie" -> {}

(* In which order the steps of a script q come. *)
Before(x, y) ==
  /\ x \in {"play", "close"} => y # "unstill"
  /\ x = "close" => y # "play"
  /\ x = "off" => y # "off"
Order(b, t, q) ==
  /\ \A i \in 1 .. Len(q) :
       /\ q[i] \in {"freeze", "hold", "standby", "awake"} => i = Len(q)
       /\ q[i] \in (IF b = "spark" THEN {"mark", "show"} ELSE {"stop"}) => i = Len(q)
       /\ q[i] = "opens" => i = 1
       /\ q[i] = "standby" /\ i > 1 => q[i - 1] = "off"
       /\ q[i] = "off" =>
            i < Len(q) /\ q[i + 1] = (IF t = "zap" THEN "standby" ELSE "on")
  /\ \A i, j \in 1 .. Len(q) : i < j => Before(q[i], q[j])
Has(q, w) == \E i \in 1 .. Len(q) : q[i] = w
Script(b, t, q) ==
  /\ q \in Seq(Words(b, t))
  /\ Order(b, t, q)
  /\ b = "spark" /\ (Has(q, "mark") \/ Has(q, "show")) /\ ~Has(q, "close") => ~Has(q, "play")

VideoShape ==
  /\ vbox \in V!Boxes /\ fd \in BOOLEAN
  /\ playstate \in {"STOPPED", "PLAYING", "FREEZED"}
  /\ stillpicture \in BOOLEAN /\ video_standby \in BOOLEAN
  /\ stillp_mutex \in V!Threads \cup {"free"}
  /\ vdev \in [holder : {"nobody", "VDec", "player"}, output : BOOLEAN,
               shows : {"nothing", "black", "frozen", "stream", "picture"}]
  /\ movie \in BOOLEAN /\ (movie => vbox = "spark")
  /\ disowned \in BOOLEAN /\ vcrossed \in BOOLEAN /\ relit \in BOOLEAN
VideoScripts ==
  /\ DOMAIN vtodo = V!Threads
  /\ \A t \in V!Threads : Script(vbox, t, vtodo[t])

(* Only who holds the device shows anything. *)
VideoHeld ==
  /\ fd => vdev.holder = "VDec"
  /\ vdev.holder = "VDec" => fd \/ disowned
  /\ vdev.holder # "VDec" => vdev.shows = "nothing"

(* With libspark: a call that no other crosses knows what it has seen. *)
Seen(t) ==
  LET q == vtodo[t] IN
  /\ (Has(q, "play") \/ Has(q, "close")) /\ ~Has(q, "unstill") => ~stillpicture
  /\ Has(q, "halt") \/ Has(q, "hold") => ~stillpicture
  /\ (Has(q, "mark") \/ Has(q, "show")) /\ ~Has(q, "close") => playstate = "STOPPED"
  /\ Has(q, "opens") => ~fd
VideoSeen ==
  vbox = "spark" /\ ~vcrossed =>
    /\ \A t \in V!Threads : Seen(t)
    /\ ~fd => ~stillpicture
    /\ stillpicture /\ fd /\ ~Has(vtodo["gui"], "show") => vdev.shows = "picture"

(* The output is off between two steps of SetVideoSystem, and where the    *)
(* zapper is about to remember that it is in standby.                      *)
OnDue == Has(vtodo["gui"], "on") /\ ~Has(vtodo["gui"], "off")
AwakeDue ==
  Has(vtodo["zap"], "awake") /\ ~Has(vtodo["zap"], "wake") /\ ~Has(vtodo["zap"], "on")
VideoOutput ==
  /\ video_standby \/ V!Is("zap", "standby") => relit \/ ~vdev.output
  /\ ~video_standby /\ ~V!Is("zap", "standby") => vdev.output \/ OnDue
  /\ AwakeDue => vdev.output \/ OnDue
VideoInv ==
  VideoShape /\ VideoScripts /\ VideoHeld /\ V!StateKnown /\ VideoSeen /\ VideoOutput

(* What Then makes of a script. *)
LEMMA Rest ==
  ASSUME NEW W, NEW q \in Seq(W), q # <<>>
  PROVE  /\ <<>> \o Tail(q) = Tail(q)
         /\ Tail(q) \in Seq(W) /\ Len(Tail(q)) = Len(q) - 1
         /\ \A i \in 1 .. Len(q) - 1 : Tail(q)[i] = q[i + 1]
         /\ Len(q) \in Nat \ {0} /\ q[1] = Head(q) /\ Head(q) \in W
<1>1. Tail(q) \in Seq(W) /\ Len(Tail(q)) = Len(q) - 1 /\ Len(q) \in Nat \ {0}
  OBVIOUS
<1>2. <<>> \o Tail(q) = Tail(q)
  BY <1>1, EmptySeq, ConcatEmptySeq
<1> QED
  BY <1>1, <1>2

(* A step that replaces the first of a script.                             *)
LEMMA Replaced ==
  ASSUME NEW W, NEW q \in Seq(W), q # <<>>, NEW w \in W
  PROVE  /\ <<w>> \o Tail(q) \in Seq(W) /\ Len(<<w>> \o Tail(q)) = Len(q)
         /\ (<<w>> \o Tail(q))[1] = w
         /\ \A i \in 2 .. Len(q) : (<<w>> \o Tail(q))[i] = q[i]
  BY Rest

(* A script stays in order when its first step is done,                    *)
LEMMA ScriptTail ==
  ASSUME NEW b \in V!Boxes, NEW t \in V!Threads, NEW q, Script(b, t, q), q # <<>>
  PROVE  /\ Script(b, t, <<>> \o Tail(q))
         /\ \A w : Has(q, w) <=> w = Head(q) \/ Has(<<>> \o Tail(q), w)
<1> DEFINE r == Tail(q)
<1>1. /\ <<>> \o Tail(q) = r
      /\ r \in Seq(Words(b, t)) /\ Len(r) = Len(q) - 1
      /\ \A i \in 1 .. Len(q) - 1 : r[i] = q[i + 1]
      /\ Len(q) \in Nat \ {0} /\ q[1] = Head(q)
  BY Rest DEF Script
<1> HIDE DEF r
<1>2. Order(b, t, r)
  <2>1. \A i \in 1 .. Len(r) : i + 1 \in 1 .. Len(q) /\ r[i] = q[i + 1]
    BY <1>1
  <2>2. Order(b, t, q)
    BY DEF Script
  <2>5. ASSUME NEW i \in 1 .. Len(r), NEW j \in 1 .. Len(r), i < j PROVE Before(r[i], r[j])
    BY <1>1, <2>1, <2>2, <2>5 DEF Order
  <2> SUFFICES ASSUME NEW i \in 1 .. Len(r)
               PROVE  /\ r[i] \in {"freeze", "hold", "standby", "awake"} => i = Len(r)
                      /\ r[i] \in (IF b = "spark" THEN {"mark", "show"} ELSE {"stop"}) => i = Len(r)
                      /\ r[i] = "opens" => i = 1
                      /\ r[i] = "standby" /\ i > 1 => r[i - 1] = "off"
                      /\ r[i] = "off" =>
                           i < Len(r) /\ r[i + 1] = (IF t = "zap" THEN "standby" ELSE "on")
    BY <2>5 DEF Order
  <2>3. i + 1 \in 1 .. Len(q) /\ r[i] = q[i + 1] /\ (i > 1 => r[i - 1] = q[i])
    BY <1>1, <2>1
  <2>4. r[i] # "opens"
    BY <2>2, <2>3 DEF Order
  <2>6. r[i] = "off" => i < Len(r) /\ r[i + 1] = (IF t = "zap" THEN "standby" ELSE "on")
    <3> SUFFICES ASSUME r[i] = "off"
                 PROVE  i < Len(r) /\ r[i + 1] = (IF t = "zap" THEN "standby" ELSE "on")
      OBVIOUS
    <3>1. i + 1 < Len(q) /\ q[(i + 1) + 1] = (IF t = "zap" THEN "standby" ELSE "on")
      BY <2>2, <2>3 DEF Order
    <3>2. i + 1 \in 1 .. Len(r)
      BY <1>1, <3>1
    <3> QED
      BY <1>1, <2>1, <3>1, <3>2
  <2> QED
    BY <1>1, <2>2, <2>3, <2>4, <2>6 DEF Order
<1>3. \A w : Has(q, w) <=> w = Head(q) \/ Has(r, w)
  <2>1. ASSUME NEW w, NEW i \in 1 .. Len(q), q[i] = w PROVE w = Head(q) \/ Has(r, w)
    <3>1. i = 1 \/ (i - 1 \in 1 .. Len(r) /\ r[i - 1] = w)
      BY <1>1, <2>1
    <3> QED
      BY <1>1, <2>1, <3>1 DEF Has
  <2>2. ASSUME NEW w, NEW i \in 1 .. Len(r), r[i] = w PROVE Has(q, w)
    <3>1. i + 1 \in 1 .. Len(q) /\ q[i + 1] = w
      BY <1>1, <2>2
    <3> QED
      BY <3>1 DEF Has
  <2>3. Has(q, Head(q))
    BY <1>1 DEF Has
  <2> QED
    BY <2>1, <2>2, <2>3 DEF Has
<1>4. b = "spark" /\ (Has(r, "mark") \/ Has(r, "show")) /\ ~Has(r, "close") => ~Has(r, "play")
  <2> SUFFICES ASSUME b = "spark", Has(r, "mark") \/ Has(r, "show"), ~Has(r, "close"), Has(r, "play")
               PROVE  FALSE
    OBVIOUS
  <2>1. Head(q) = "close"
    BY <1>3 DEF Script
  <2>2. PICK i \in 1 .. Len(r) : r[i] = "play"
    BY DEF Has
  <2>3. i + 1 \in 1 .. Len(q) /\ 1 < i + 1 /\ q[i + 1] = "play" /\ q[1] = "close" /\ 1 \in 1 .. Len(q)
    BY <1>1, <2>1, <2>2
  <2>4. Before(q[1], q[i + 1])
    BY <2>3 DEF Script, Order
  <2> QED
    BY <2>3, <2>4 DEF Before
<1> QED
  BY <1>1, <1>2, <1>3, <1>4 DEF Script

(* and when a step decides what comes instead of it.                       *)
LEMMA ScriptReplaced ==
  ASSUME NEW b \in V!Boxes, NEW t \in V!Threads, NEW q, Script(b, t, q), q # <<>>,
         NEW w \in {"stop", "halt", "hold", "opens", "show"},
         \/ b = "spark" /\ Head(q) = "unstill" /\ w = "stop"
         \/ b = "spark" /\ Head(q) = "stop" /\ w = "halt"
         \/ Head(q) = "freeze" /\ w = "hold"
         \/ Head(q) = "open" /\ w = "opens"
         \/ b = "spark" /\ Head(q) = "mark" /\ w = "show"
  PROVE  /\ Script(b, t, <<w>> \o Tail(q))
         /\ Head(<<w>> \o Tail(q)) = w
         /\ \A x : Has(<<w>> \o Tail(q), x) <=> x = w \/ Has(<<>> \o Tail(q), x)
<1> DEFINE r == <<w>> \o Tail(q)
<1>1. /\ q \in Seq(Words(b, t)) /\ Len(q) \in Nat \ {0} /\ q[1] = Head(q)
      /\ Head(q) \in Words(b, t)
      /\ \A i \in 1 .. Len(q) - 1 : Tail(q)[i] = q[i + 1]
      /\ <<>> \o Tail(q) = Tail(q) /\ Len(Tail(q)) = Len(q) - 1
  BY Rest DEF Script
<1>2. w \in Words(b, t)
  BY <1>1 DEF Words, V!Boxes, V!Threads
<1>3. /\ r \in Seq(Words(b, t)) /\ Len(r) = Len(q) /\ r[1] = w
      /\ \A i \in 2 .. Len(q) : r[i] = q[i]
  BY <1>1, <1>2, Replaced
<1>4. Head(r) = w
  BY <1>3
<1> HIDE DEF r
<1>5. Order(b, t, r)
  <2> USE <1>1, <1>3
  <2>0. Order(b, t, q)
    BY DEF Script
  <2>1. ASSUME NEW i \in 1 .. Len(r), NEW j \in 1 .. Len(r), i < j PROVE Before(r[i], r[j])
    <3>1. j \in 2 .. Len(q) /\ r[j] = q[j]
      BY <2>1
    <3>2. CASE i = 1
      BY <3>1, <3>2 DEF Before
    <3>3. CASE i \in 2 .. Len(q)
      BY <2>0, <2>1, <3>1, <3>3 DEF Order
    <3> QED
      BY <3>2, <3>3
  <2>2. ASSUME NEW i \in 1 .. Len(r)
        PROVE  /\ r[i] \in {"freeze", "hold", "standby", "awake"} => i = Len(r)
               /\ r[i] \in (IF b = "spark" THEN {"mark", "show"} ELSE {"stop"}) => i = Len(r)
               /\ r[i] = "opens" => i = 1
    <3>1. CASE i = 1
      <4>1. 1 \in 1 .. Len(q) /\ r[i] = w /\ q[1] = Head(q)
        BY <3>1
      <4> QED
        BY <2>0, <3>1, <4>1 DEF Order
    <3>2. CASE i \in 2 .. Len(q)
      BY <2>0, <3>2 DEF Order
    <3>3. i = 1 \/ i \in 2 .. Len(q)
      OBVIOUS
    <3> QED
      BY ONLY <3>1, <3>2, <3>3
  <2>3. ASSUME NEW i \in 1 .. Len(r), r[i] = "standby", i > 1
        PROVE  r[i - 1] = "off"
    <3>0. i \in 1 .. Len(q) /\ q[i] = "standby" /\ i > 1
      BY <2>3
    <3>1. q[i] = "standby" /\ q[i - 1] = "off"
      BY <2>0, <3>0 DEF Order
    <3>2. i - 1 # 1
      BY <1>1, <3>1
    <3> QED
      BY <1>3, <2>3, <3>1, <3>2
  <2>4. ASSUME NEW i \in 1 .. Len(r), r[i] = "off"
        PROVE  i < Len(r) /\ r[i + 1] = (IF t = "zap" THEN "standby" ELSE "on")
    <3>1. i # 1 /\ i \in 1 .. Len(q) /\ q[i] = "off"
      BY <1>3, <2>4
    <3>2. i \in 1 .. Len(q) /\ i < Len(q) /\ q[i + 1] = (IF t = "zap" THEN "standby" ELSE "on")
      BY <2>0, <3>1 DEF Order
    <3> QED
      BY <3>2
  <2> QED
    BY <2>1, <2>2, <2>3, <2>4 DEF Order
<1>6. \A x : Has(r, x) <=> x = w \/ Has(Tail(q), x)
  <2>1. ASSUME NEW x, NEW i \in 1 .. Len(r), r[i] = x PROVE x = w \/ Has(Tail(q), x)
    <3>1. i = 1 \/ (i - 1 \in 1 .. Len(Tail(q)) /\ Tail(q)[i - 1] = x)
      BY <1>1, <1>3, <2>1
    <3> QED
      BY <1>3, <2>1, <3>1 DEF Has
  <2>2. ASSUME NEW x, NEW i \in 1 .. Len(Tail(q)), Tail(q)[i] = x PROVE Has(r, x)
    <3>1. i + 1 \in 1 .. Len(r) /\ r[i + 1] = x
      BY <1>1, <1>3, <2>2
    <3> QED
      BY <3>1 DEF Has
  <2>3. Has(r, w)
    BY <1>1, <1>3 DEF Has
  <2> QED
    BY <2>1, <2>2, <2>3 DEF Has
<1>7. \A x : Has(q, x) <=> x = Head(q) \/ Has(Tail(q), x)
  BY <1>1, ScriptTail
<1>8. b = "spark" /\ (Has(r, "mark") \/ Has(r, "show")) /\ ~Has(r, "close") => ~Has(r, "play")
  BY <1>6, <1>7 DEF Script
<1> QED
  BY <1>1, <1>3, <1>4, <1>5, <1>6, <1>8 DEF Script, r

(* Scripts that are put together. *)
LEMMA Appended ==
  ASSUME NEW W, NEW s \in Seq(W), NEW t \in Seq(W), NEW u \in Seq(W),
         Len(u) = Len(s) + Len(t),
         \A i \in 1 .. Len(s) : u[i] = s[i],
         \A i \in 1 .. Len(t) : u[Len(s) + i] = t[i]
  PROVE  s \o t = u
<1>1. s \o t \in Seq(W) /\ Len(s \o t) = Len(u)
  BY ConcatProperties
<1>2. ASSUME NEW i \in 1 .. Len(u) PROVE (s \o t)[i] = u[i]
  <2>1. (s \o t)[i] = IF i <= Len(s) THEN s[i] ELSE t[i - Len(s)]
    BY <1>2, ConcatProperties
  <2>2. i <= Len(s) => i \in 1 .. Len(s)
    BY <1>2
  <2>3. ~(i <= Len(s)) => i - Len(s) \in 1 .. Len(t) /\ Len(s) + (i - Len(s)) = i
    BY <1>2
  <2> QED
    BY <2>1, <2>2, <2>3
<1> QED
  BY <1>1, <1>2, SeqEqual

(* The scripts that calls are put together from, as sequences.             *)
LEMMA Join11 ==
  ASSUME NEW W, NEW a \in W, NEW b \in W
  PROVE  <<a>> \o <<b>> = <<a, b>>
<1> DEFINE s == <<a>>
           t == <<b>>
           u == <<a, b>>
<1>1. s \in Seq(W) /\ t \in Seq(W) /\ u \in Seq(W)
  OBVIOUS
<1>2. /\ Len(s) = 1 /\ Len(t) = 1 /\ Len(u) = 2
      /\ u[1] = s[1]
      /\ u[2] = t[1]
  OBVIOUS
<1> HIDE DEF s, t, u
<1>3. /\ Len(u) = Len(s) + Len(t)
      /\ \A i \in 1 .. Len(s) : u[i] = s[i]
      /\ \A i \in 1 .. Len(t) : u[Len(s) + i] = t[i]
  BY <1>2
<1>4. s \o t = u
  BY <1>1, <1>3, Appended
<1> QED
  BY <1>4 DEF s, t, u

LEMMA Join12 ==
  ASSUME NEW W, NEW a \in W, NEW b \in W, NEW c \in W
  PROVE  <<a>> \o <<b, c>> = <<a, b, c>>
<1> DEFINE s == <<a>>
           t == <<b, c>>
           u == <<a, b, c>>
<1>1. s \in Seq(W) /\ t \in Seq(W) /\ u \in Seq(W)
  OBVIOUS
<1>2. /\ Len(s) = 1 /\ Len(t) = 2 /\ Len(u) = 3
      /\ u[1] = s[1]
      /\ u[2] = t[1] /\ u[3] = t[2]
  OBVIOUS
<1> HIDE DEF s, t, u
<1>3. /\ Len(u) = Len(s) + Len(t)
      /\ \A i \in 1 .. Len(s) : u[i] = s[i]
      /\ \A i \in 1 .. Len(t) : u[Len(s) + i] = t[i]
  BY <1>2
<1>4. s \o t = u
  BY <1>1, <1>3, Appended
<1> QED
  BY <1>4 DEF s, t, u

LEMMA Join21 ==
  ASSUME NEW W, NEW a \in W, NEW b \in W, NEW c \in W
  PROVE  <<a, b>> \o <<c>> = <<a, b, c>>
<1> DEFINE s == <<a, b>>
           t == <<c>>
           u == <<a, b, c>>
<1>1. s \in Seq(W) /\ t \in Seq(W) /\ u \in Seq(W)
  OBVIOUS
<1>2. /\ Len(s) = 2 /\ Len(t) = 1 /\ Len(u) = 3
      /\ u[1] = s[1] /\ u[2] = s[2]
      /\ u[3] = t[1]
  OBVIOUS
<1> HIDE DEF s, t, u
<1>3. /\ Len(u) = Len(s) + Len(t)
      /\ \A i \in 1 .. Len(s) : u[i] = s[i]
      /\ \A i \in 1 .. Len(t) : u[Len(s) + i] = t[i]
  BY <1>2
<1>4. s \o t = u
  BY <1>1, <1>3, Appended
<1> QED
  BY <1>4 DEF s, t, u

LEMMA Join31 ==
  ASSUME NEW W, NEW a \in W, NEW b \in W, NEW c \in W, NEW d \in W
  PROVE  <<a, b, c>> \o <<d>> = <<a, b, c, d>>
<1> DEFINE s == <<a, b, c>>
           t == <<d>>
           u == <<a, b, c, d>>
<1>1. s \in Seq(W) /\ t \in Seq(W) /\ u \in Seq(W)
  OBVIOUS
<1>2. /\ Len(s) = 3 /\ Len(t) = 1 /\ Len(u) = 4
      /\ u[1] = s[1] /\ u[2] = s[2] /\ u[3] = s[3]
      /\ u[4] = t[1]
  OBVIOUS
<1> HIDE DEF s, t, u
<1>3. /\ Len(u) = Len(s) + Len(t)
      /\ \A i \in 1 .. Len(s) : u[i] = s[i]
      /\ \A i \in 1 .. Len(t) : u[Len(s) + i] = t[i]
  BY <1>2
<1>4. s \o t = u
  BY <1>1, <1>3, Appended
<1> QED
  BY <1>4 DEF s, t, u

LEMMA Join32 ==
  ASSUME NEW W, NEW a \in W, NEW b \in W, NEW c \in W, NEW d \in W, NEW e \in W
  PROVE  <<a, b, c>> \o <<d, e>> = <<a, b, c, d, e>>
<1> DEFINE s == <<a, b, c>>
           t == <<d, e>>
           u == <<a, b, c, d, e>>
<1>1. s \in Seq(W) /\ t \in Seq(W) /\ u \in Seq(W)
  OBVIOUS
<1>2. /\ Len(s) = 3 /\ Len(t) = 2 /\ Len(u) = 5
      /\ u[1] = s[1] /\ u[2] = s[2] /\ u[3] = s[3]
      /\ u[4] = t[1] /\ u[5] = t[2]
  OBVIOUS
<1> HIDE DEF s, t, u
<1>3. /\ Len(u) = Len(s) + Len(t)
      /\ \A i \in 1 .. Len(s) : u[i] = s[i]
      /\ \A i \in 1 .. Len(t) : u[Len(s) + i] = t[i]
  BY <1>2
<1>4. s \o t = u
  BY <1>1, <1>3, Appended
<1> QED
  BY <1>4 DEF s, t, u

LEMMA Join41 ==
  ASSUME NEW W, NEW a \in W, NEW b \in W, NEW c \in W, NEW d \in W, NEW e \in W
  PROVE  <<a, b, c, d>> \o <<e>> = <<a, b, c, d, e>>
<1> DEFINE s == <<a, b, c, d>>
           t == <<e>>
           u == <<a, b, c, d, e>>
<1>1. s \in Seq(W) /\ t \in Seq(W) /\ u \in Seq(W)
  OBVIOUS
<1>2. /\ Len(s) = 4 /\ Len(t) = 1 /\ Len(u) = 5
      /\ u[1] = s[1] /\ u[2] = s[2] /\ u[3] = s[3] /\ u[4] = s[4]
      /\ u[5] = t[1]
  OBVIOUS
<1> HIDE DEF s, t, u
<1>3. /\ Len(u) = Len(s) + Len(t)
      /\ \A i \in 1 .. Len(s) : u[i] = s[i]
      /\ \A i \in 1 .. Len(t) : u[Len(s) + i] = t[i]
  BY <1>2
<1>4. s \o t = u
  BY <1>1, <1>3, Appended
<1> QED
  BY <1>4 DEF s, t, u

(* The calls, written out.                                                 *)
LEMMA CallsAre ==
  /\ V!SparkStart = <<"unstill", "play">> /\ V!SparkClose = <<"unstill", "play", "close">>
  /\ \A on : V!SparkStandby(on) =
       IF on THEN <<"unstill", "play", "close", "off", "standby">> ELSE <<"wake", "open", "awake">>
  /\ V!SparkShowPicture = <<"unstill", "play", "close", "open", "mark">>
  /\ V!SparkStopPicture = <<"unmark", "stop">>
  /\ V!SparkSetVideoSystem \in {<<"off", "on">>, <<"stop", "off", "on", "unstill", "play">>}
  /\ V!SparkClose \o <<"take">> = <<"unstill", "play", "close", "take">>
  /\ <<"give">> \o V!SparkOpen = <<"give", "open">>
  /\ \A on : V!AzboxStandby(on) =
       IF on THEN <<"close", "off", "standby">> ELSE <<"on", "open", "awake">>
  /\ V!AzboxHalts = <<"lock", "blank", "unlock", "halt">>
<1> DEFINE W == V!Step
<1> HIDE DEF W
<1>1. /\ \A a, b \in W : <<a>> \o <<b>> = <<a, b>>
      /\ \A a, b, c \in W : <<a>> \o <<b, c>> = <<a, b, c>>
      /\ \A a, b, c \in W : <<a, b>> \o <<c>> = <<a, b, c>>
      /\ \A a, b, c, d \in W : <<a, b, c>> \o <<d>> = <<a, b, c, d>>
      /\ \A a, b, c, d, e \in W : <<a, b, c>> \o <<d, e>> = <<a, b, c, d, e>>
      /\ \A a, b, c, d, e \in W : <<a, b, c, d>> \o <<e>> = <<a, b, c, d, e>>
  BY Join11, Join12, Join21, Join31, Join32, Join41
<1>2. {"unstill", "play", "close", "off", "standby", "wake", "open", "awake", "mark", "unmark",
       "stop", "on", "take", "give", "lock", "blank", "unlock", "halt"} \subseteq W
  BY DEF W, V!Step
<1>3. /\ <<"unstill", "play">> \o <<"close">> = <<"unstill", "play", "close">>
      /\ <<"unstill", "play", "close">> \o <<"off", "standby">> =
           <<"unstill", "play", "close", "off", "standby">>
      /\ <<"wake">> \o <<"open">> = <<"wake", "open">>
      /\ <<"wake", "open">> \o <<"awake">> = <<"wake", "open", "awake">>
      /\ <<"unstill", "play", "close">> \o <<"open">> = <<"unstill", "play", "close", "open">>
      /\ <<"unstill", "play", "close", "open">> \o <<"mark">> =
           <<"unstill", "play", "close", "open", "mark">>
      /\ <<"unmark">> \o <<"stop">> = <<"unmark", "stop">>
      /\ <<"stop">> \o <<"off", "on">> = <<"stop", "off", "on">>
      /\ <<"stop", "off", "on">> \o <<"unstill", "play">> =
           <<"stop", "off", "on", "unstill", "play">>
      /\ <<"unstill", "play", "close">> \o <<"take">> = <<"unstill", "play", "close", "take">>
      /\ <<"give">> \o <<"open">> = <<"give", "open">>
      /\ <<"close">> \o <<"off", "standby">> = <<"close", "off", "standby">>
      /\ <<"on">> \o <<"open">> = <<"on", "open">>
      /\ <<"on", "open">> \o <<"awake">> = <<"on", "open", "awake">>
      /\ <<"lock", "blank", "unlock">> \o <<"halt">> = <<"lock", "blank", "unlock", "halt">>
  <2>1. <<"unstill", "play">> \o <<"close">> = <<"unstill", "play", "close">>
    BY <1>1, <1>2
  <2>2. <<"unstill", "play", "close">> \o <<"off", "standby">> = <<"unstill", "play", "close", "off", "standby">>
    BY <1>1, <1>2
  <2>3. <<"wake">> \o <<"open">> = <<"wake", "open">>
    BY <1>1, <1>2
  <2>4. <<"wake", "open">> \o <<"awake">> = <<"wake", "open", "awake">>
    BY <1>1, <1>2
  <2>5. <<"unstill", "play", "close">> \o <<"open">> = <<"unstill", "play", "close", "open">>
    BY <1>1, <1>2
  <2>6. <<"unstill", "play", "close", "open">> \o <<"mark">> = <<"unstill", "play", "close", "open", "mark">>
    BY <1>1, <1>2
  <2>7. <<"unmark">> \o <<"stop">> = <<"unmark", "stop">>
    BY <1>1, <1>2
  <2>8. <<"stop">> \o <<"off", "on">> = <<"stop", "off", "on">>
    BY <1>1, <1>2
  <2>9. <<"stop", "off", "on">> \o <<"unstill", "play">> = <<"stop", "off", "on", "unstill", "play">>
    BY <1>1, <1>2
  <2>10. <<"unstill", "play", "close">> \o <<"take">> = <<"unstill", "play", "close", "take">>
    BY <1>1, <1>2
  <2>11. <<"give">> \o <<"open">> = <<"give", "open">>
    BY <1>1, <1>2
  <2>12. <<"close">> \o <<"off", "standby">> = <<"close", "off", "standby">>
    BY <1>1, <1>2
  <2>13. <<"on">> \o <<"open">> = <<"on", "open">>
    BY <1>1, <1>2
  <2>14. <<"on", "open">> \o <<"awake">> = <<"on", "open", "awake">>
    BY <1>1, <1>2
  <2>15. <<"lock", "blank", "unlock">> \o <<"halt">> = <<"lock", "blank", "unlock", "halt">>
    BY <1>1, <1>2
  <2> QED
    BY ONLY <2>1, <2>2, <2>3, <2>4, <2>5, <2>6, <2>7, <2>8, <2>9, <2>10, <2>11, <2>12, <2>13, <2>14, <2>15
<1> QED
  BY ONLY <1>3 DEF V!SparkStart, V!SparkClose, V!SparkStandby,
                   V!SparkShowPicture, V!SparkStopPicture,
                   V!SparkSetVideoSystem, V!SparkOpen, V!AzboxStandby,
                   V!AzboxHalts, V!AzboxSetBlank, V!SparkStop, V!AzboxClose,
                   V!AzboxOpen

(* The calls of each thread, as scripts. *)
SparkZaps ==
  {<<"unstill", "play">>,
   <<"stop">>,
   <<"freeze">>,
   <<"unstill", "play", "close", "off", "standby">>,
   <<"wake", "open", "awake">>}
SparkGuis ==
  {<<"unstill", "play", "close", "open", "mark">>,
   <<"unmark", "stop">>,
   <<"stop", "off", "on", "unstill", "play">>,
   <<"off", "on">>}
SparkMovies ==
  {<<"unstill", "play", "close", "take">>,
   <<"give", "open">>}
AzboxZaps ==
  {<<"play">>,
   <<"stop">>,
   <<"freeze">>,
   <<"lock", "blank", "unlock">>,
   <<"close", "off", "standby">>,
   <<"on", "open", "awake">>}
AzboxGuis ==
  {<<"lock", "mark", "show", "unlock">>,
   <<"unmark">>}

(* Every call is a script in order.                                        *)
LEMMA ScriptsOfCalls ==
  /\ \A b \in V!Boxes, t \in V!Threads : Script(b, t, <<>>)
  /\ \A q \in SparkZaps : Script("spark", "zap", q)
  /\ \A q \in SparkGuis : Script("spark", "gui", q)
  /\ \A q \in SparkMovies : Script("spark", "movie", q)
  /\ \A q \in AzboxZaps : Script("azbox", "zap", q)
  /\ \A q \in AzboxGuis : Script("azbox", "gui", q)
  /\ Script("azbox", "zap", <<"lock", "blank", "unlock", "halt">>)
<1> USE DEF Script, Words, Order, Before, Has, V!Boxes, V!Threads
<1>0. \A b \in V!Boxes, t \in V!Threads : Script(b, t, <<>>)
  OBVIOUS
<1>1. \A q \in SparkZaps : Script("spark", "zap", q)
  <2>1. Script("spark", "zap", <<"unstill", "play">>)
    OBVIOUS
  <2>2. Script("spark", "zap", <<"stop">>)
    OBVIOUS
  <2>3. Script("spark", "zap", <<"freeze">>)
    OBVIOUS
  <2>4. Script("spark", "zap", <<"unstill", "play", "close", "off", "standby">>)
    OBVIOUS
  <2>5. Script("spark", "zap", <<"wake", "open", "awake">>)
    OBVIOUS
  <2> HIDE DEF Script
  <2> QED
    BY ONLY <2>1, <2>2, <2>3, <2>4, <2>5 DEF SparkZaps
<1>2. \A q \in SparkGuis : Script("spark", "gui", q)
  <2>1. Script("spark", "gui", <<"unstill", "play", "close", "open", "mark">>)
    OBVIOUS
  <2>2. Script("spark", "gui", <<"unmark", "stop">>)
    OBVIOUS
  <2>3. Script("spark", "gui", <<"stop", "off", "on", "unstill", "play">>)
    OBVIOUS
  <2>4. Script("spark", "gui", <<"off", "on">>)
    OBVIOUS
  <2> HIDE DEF Script
  <2> QED
    BY ONLY <2>1, <2>2, <2>3, <2>4 DEF SparkGuis
<1>3. \A q \in SparkMovies : Script("spark", "movie", q)
  <2>1. Script("spark", "movie", <<"unstill", "play", "close", "take">>)
    OBVIOUS
  <2>2. Script("spark", "movie", <<"give", "open">>)
    OBVIOUS
  <2> HIDE DEF Script
  <2> QED
    BY ONLY <2>1, <2>2 DEF SparkMovies
<1>4. \A q \in AzboxZaps : Script("azbox", "zap", q)
  <2>1. Script("azbox", "zap", <<"play">>)
    OBVIOUS
  <2>2. Script("azbox", "zap", <<"stop">>)
    OBVIOUS
  <2>3. Script("azbox", "zap", <<"freeze">>)
    OBVIOUS
  <2>4. Script("azbox", "zap", <<"lock", "blank", "unlock">>)
    OBVIOUS
  <2>5. Script("azbox", "zap", <<"close", "off", "standby">>)
    OBVIOUS
  <2>6. Script("azbox", "zap", <<"on", "open", "awake">>)
    OBVIOUS
  <2> HIDE DEF Script
  <2> QED
    BY ONLY <2>1, <2>2, <2>3, <2>4, <2>5, <2>6 DEF AzboxZaps
<1>5. \A q \in AzboxGuis : Script("azbox", "gui", q)
  <2>1. Script("azbox", "gui", <<"lock", "mark", "show", "unlock">>)
    OBVIOUS
  <2>2. Script("azbox", "gui", <<"unmark">>)
    OBVIOUS
  <2> HIDE DEF Script
  <2> QED
    BY ONLY <2>1, <2>2 DEF AzboxGuis
<1>6. Script("azbox", "zap", <<"lock", "blank", "unlock", "halt">>)
  OBVIOUS
<1> QED
  BY ONLY <1>0, <1>1, <1>2, <1>3, <1>4, <1>5, <1>6

(* What the order says of the first step and of those behind it.           *)
LEMMA ScriptOrder ==
  ASSUME NEW b \in V!Boxes, NEW t \in V!Threads, NEW q, Script(b, t, q), q # <<>>
  PROVE  LET r == <<>> \o Tail(q) IN
         /\ Head(q) \in Words(b, t)
         /\ Head(q) \in {"freeze", "hold", "standby", "awake"} => r = <<>>
         /\ b = "spark" /\ Head(q) \in {"mark", "show"} => r = <<>>
         /\ b = "azbox" /\ Head(q) = "stop" => r = <<>>
         /\ ~Has(r, "opens")
         /\ Head(q) \in {"play", "close"} => ~Has(r, "unstill")
         /\ Head(q) = "close" => ~Has(r, "play")
         /\ Head(q) = "off" => /\ r # <<>> /\ Head(r) = (IF t = "zap" THEN "standby" ELSE "on")
                               /\ ~Has(r, "off")
         /\ r # <<>> /\ Head(r) = "standby" => Head(q) = "off"
         /\ t = "zap" => ~(Has(q, "off") /\ Has(q, "awake"))
         /\ \A w : ~Has(<<>>, w)
<1> DEFINE r == <<>> \o Tail(q)
<1>1. /\ r \in Seq(Words(b, t)) /\ Len(r) = Len(q) - 1
      /\ \A i \in 1 .. Len(q) - 1 : r[i] = q[i + 1]
      /\ Len(q) \in Nat \ {0} /\ q[1] = Head(q) /\ Head(q) \in Words(b, t)
  BY Rest DEF Script
<1> HIDE DEF r
<1>2. Order(b, t, q)
  BY DEF Script
<1>3. Len(r) = 0 => r = <<>>
  BY <1>1, EmptySeq
<1>4. \A i \in 1 .. Len(r) : i + 1 \in 2 .. Len(q) /\ r[i] = q[i + 1] /\ Before(Head(q), r[i])
  <2> SUFFICES ASSUME NEW i \in 1 .. Len(r)
               PROVE  i + 1 \in 2 .. Len(q) /\ r[i] = q[i + 1] /\ Before(Head(q), r[i])
    OBVIOUS
  <2>1. i + 1 \in 2 .. Len(q) /\ r[i] = q[i + 1] /\ 1 \in 1 .. Len(q) /\ 1 < i + 1
        /\ i + 1 \in 1 .. Len(q)
    BY <1>1
  <2>2. Before(q[1], q[i + 1])
    BY <1>2, <2>1 DEF Order
  <2> QED
    BY <1>1, <2>1, <2>2
<1>5. ~Has(r, "opens")
  <2>1. ASSUME NEW i \in 1 .. Len(r), r[i] = "opens" PROVE FALSE
    <3>1. i + 1 \in 1 .. Len(q) /\ q[i + 1] = "opens" /\ i + 1 # 1
      BY <1>1, <1>4, <2>1
    <3> QED
      BY <1>2, <3>1 DEF Order
  <2> QED
    BY <2>1 DEF Has
<1>6. /\ Head(q) \in {"play", "close"} => ~Has(r, "unstill")
      /\ Head(q) = "close" => ~Has(r, "play")
      /\ Head(q) = "off" => ~Has(r, "off")
  BY <1>4 DEF Has, Before
<1>7. /\ Head(q) \in {"freeze", "hold", "standby", "awake"} => Len(q) = 1
      /\ Head(q) \in (IF b = "spark" THEN {"mark", "show"} ELSE {"stop"}) => Len(q) = 1
      /\ Head(q) = "off" => 1 < Len(q) /\ q[2] = (IF t = "zap" THEN "standby" ELSE "on")
  <2>1. 1 \in 1 .. Len(q) /\ q[1] = Head(q)
    BY <1>1
  <2>2. /\ q[1] \in {"freeze", "hold", "standby", "awake"} => 1 = Len(q)
        /\ q[1] \in (IF b = "spark" THEN {"mark", "show"} ELSE {"stop"}) => 1 = Len(q)
        /\ q[1] = "off" => 1 < Len(q) /\ q[1 + 1] = (IF t = "zap" THEN "standby" ELSE "on")
    BY <1>2, <2>1 DEF Order
  <2> QED
    BY ONLY <2>1, <2>2
<1>8. Head(q) = "off" => r # <<>> /\ Head(r) = (IF t = "zap" THEN "standby" ELSE "on")
  <2> SUFFICES ASSUME Head(q) = "off"
               PROVE  r # <<>> /\ Head(r) = (IF t = "zap" THEN "standby" ELSE "on")
    OBVIOUS
  <2>1. 1 \in 1 .. Len(r) /\ r[1] = q[1 + 1] /\ q[2] = (IF t = "zap" THEN "standby" ELSE "on")
    BY <1>1, <1>7
  <2> QED
    BY <1>1, <2>1
<1>9. r # <<>> /\ Head(r) = "standby" => Head(q) = "off"
  <2> SUFFICES ASSUME r # <<>>, Head(r) = "standby" PROVE Head(q) = "off"
    OBVIOUS
  <2>1. 2 \in 1 .. Len(q) /\ q[2] = "standby"
    BY <1>1, <1>3
  <2>2. q[2 - 1] = "off"
    BY <1>2, <2>1 DEF Order
  <2> QED
    BY <1>1, <2>2
<1>10. t = "zap" => ~(Has(q, "off") /\ Has(q, "awake"))
  <2> SUFFICES ASSUME t = "zap", NEW i \in 1 .. Len(q), q[i] = "off",
                      NEW j \in 1 .. Len(q), q[j] = "awake"
               PROVE  FALSE
    BY DEF Has
  <2>1. i < Len(q) /\ q[i + 1] = "standby" /\ j = Len(q)
    BY <1>2 DEF Order
  <2>2. i + 1 \in 1 .. Len(q)
    BY <1>1, <2>1
  <2>3. i + 1 = Len(q)
    BY <1>2, <2>1, <2>2 DEF Order
  <2> QED
    BY <2>1, <2>3
<1> QED
  BY <1>1, <1>3, <1>5, <1>6, <1>7, <1>8, <1>9, <1>10 DEF Has, V!Boxes, r

(* A call at its beginning has seen nothing, and changed nothing. *)
Fresh(q) ==
  /\ Has(q, "play") \/ Has(q, "close") => Has(q, "unstill")
  /\ Has(q, "mark") => Has(q, "close")
  /\ \A w \in {"halt", "hold", "show", "opens"} : ~Has(q, w)
FreshOutput(q) ==
  /\ Has(q, "awake") => Has(q, "wake") \/ Has(q, "on")
  /\ q # <<>> => Head(q) # "standby"
  /\ Has(q, "on") => Has(q, "off") \/ Has(q, "awake")

(* A call knows nothing of the state before its first step.                *)
LEMMA FreshCalls ==
  /\ \A q \in SparkZaps \cup SparkGuis \cup SparkMovies : Fresh(q) /\ FreshOutput(q)
  /\ \A q \in AzboxZaps \cup AzboxGuis : FreshOutput(q)
  /\ \A q \in SparkGuis \cup SparkMovies \cup AzboxGuis : ~Has(q, "awake")
<1> USE DEF Fresh, FreshOutput, Has
<1>1. /\ Fresh(<<"unstill", "play">>)
      /\ FreshOutput(<<"unstill", "play">>)
  OBVIOUS
<1>2. /\ Fresh(<<"stop">>)
      /\ FreshOutput(<<"stop">>)
  OBVIOUS
<1>3. /\ Fresh(<<"freeze">>)
      /\ FreshOutput(<<"freeze">>)
  OBVIOUS
<1>4. /\ Fresh(<<"unstill", "play", "close", "off", "standby">>)
      /\ FreshOutput(<<"unstill", "play", "close", "off", "standby">>)
  OBVIOUS
<1>5. /\ Fresh(<<"wake", "open", "awake">>)
      /\ FreshOutput(<<"wake", "open", "awake">>)
  OBVIOUS
<1>6. /\ Fresh(<<"unstill", "play", "close", "open", "mark">>)
      /\ FreshOutput(<<"unstill", "play", "close", "open", "mark">>)
      /\ ~Has(<<"unstill", "play", "close", "open", "mark">>, "awake")
  OBVIOUS
<1>7. /\ Fresh(<<"unmark", "stop">>)
      /\ FreshOutput(<<"unmark", "stop">>)
      /\ ~Has(<<"unmark", "stop">>, "awake")
  OBVIOUS
<1>8. /\ Fresh(<<"stop", "off", "on", "unstill", "play">>)
      /\ FreshOutput(<<"stop", "off", "on", "unstill", "play">>)
      /\ ~Has(<<"stop", "off", "on", "unstill", "play">>, "awake")
  OBVIOUS
<1>9. /\ Fresh(<<"off", "on">>)
      /\ FreshOutput(<<"off", "on">>)
      /\ ~Has(<<"off", "on">>, "awake")
  OBVIOUS
<1>10. /\ Fresh(<<"unstill", "play", "close", "take">>)
      /\ FreshOutput(<<"unstill", "play", "close", "take">>)
      /\ ~Has(<<"unstill", "play", "close", "take">>, "awake")
  OBVIOUS
<1>11. /\ Fresh(<<"give", "open">>)
      /\ FreshOutput(<<"give", "open">>)
      /\ ~Has(<<"give", "open">>, "awake")
  OBVIOUS
<1>12. /\ FreshOutput(<<"play">>)
  OBVIOUS
<1>13. /\ FreshOutput(<<"stop">>)
  OBVIOUS
<1>14. /\ FreshOutput(<<"freeze">>)
  OBVIOUS
<1>15. /\ FreshOutput(<<"lock", "blank", "unlock">>)
  OBVIOUS
<1>16. /\ FreshOutput(<<"close", "off", "standby">>)
  OBVIOUS
<1>17. /\ FreshOutput(<<"on", "open", "awake">>)
  OBVIOUS
<1>18. /\ FreshOutput(<<"lock", "mark", "show", "unlock">>)
      /\ ~Has(<<"lock", "mark", "show", "unlock">>, "awake")
  OBVIOUS
<1>19. /\ FreshOutput(<<"unmark">>)
      /\ ~Has(<<"unmark">>, "awake")
  OBVIOUS
<1> QED
  BY ONLY <1>1, <1>2, <1>3, <1>4, <1>5, <1>6, <1>7, <1>8, <1>9, <1>10, <1>11, <1>12, <1>13, <1>14, <1>15, <1>16, <1>17, <1>18, <1>19
     DEF SparkZaps, SparkGuis, SparkMovies, AzboxZaps, AzboxGuis

(* A call begins.                                                          *)
LEMMA VideoCall ==
  ASSUME VideoInv, NEW t \in V!Threads, NEW q, Script(vbox, t, q),
         vbox = "spark" => Fresh(q), FreshOutput(q), t = "gui" => ~Has(q, "awake"),
         vtodo[t] = <<>>, vtodo' = [vtodo EXCEPT ![t] = q],
         movie' \in BOOLEAN, movie' => vbox = "spark",
         UNCHANGED <<vbox, V!members, stillp_mutex, vdev, V!ghosts, vcrossed>>
  PROVE  VideoInv'
<1> USE DEF VideoInv, V!members, V!ghosts
<1>1. /\ vtodo'[t] = q
      /\ \A u \in V!Threads \ {t} : vtodo'[u] = vtodo[u]
      /\ DOMAIN vtodo' = V!Threads
  BY DEF VideoScripts
<1>2. \A w : ~Has(vtodo[t], w)
  BY DEF Has
<1>3. VideoShape' /\ VideoHeld' /\ V!StateKnown'
  BY DEF VideoShape, VideoHeld, V!StateKnown
<1>4. VideoScripts'
  BY <1>1 DEF VideoScripts
<1>5. VideoSeen'
  <2> SUFFICES ASSUME vbox = "spark", ~vcrossed PROVE VideoSeen'
    BY DEF VideoSeen
  <2>1. \A u \in V!Threads : Seen(u)'
    BY <1>1 DEF VideoSeen, Seen, Fresh
  <2>2. Has(vtodo["gui"], "show") => Has(vtodo'["gui"], "show")
    BY <1>1, <1>2 DEF V!Threads
  <2>3. ~Has(vtodo'["gui"], "show") => ~Has(vtodo["gui"], "show")
    BY <2>2
  <2> QED
    BY <2>1, <2>3 DEF VideoSeen
<1>6. VideoOutput'
  <2>1. V!Is("zap", "standby")' => V!Is("zap", "standby")
    BY <1>1 DEF V!Is, FreshOutput, V!Threads
  <2>2. V!Is("zap", "standby") => V!Is("zap", "standby")'
    BY <1>1 DEF V!Is, V!Threads
  <2>3. OnDue' <=> OnDue
    BY <1>1, <1>2 DEF OnDue, FreshOutput, V!Threads
  <2>4. AwakeDue' => AwakeDue
    BY <1>1 DEF AwakeDue, FreshOutput, V!Threads
  <2> QED
    BY <2>1, <2>2, <2>3, <2>4 DEF VideoOutput
<1> QED
  BY <1>3, <1>4, <1>5, <1>6

(* What a step leaves of the script of its thread. *)
LEMMA StepLeaves ==
  ASSUME VideoInv, NEW t \in V!Threads, V!Steps(t), UNCHANGED vbox
  PROVE  LET q == vtodo[t]
             r == <<>> \o Tail(q)
             x == Head(q)
         IN
         /\ q # <<>> /\ Script(vbox, t, q)
         /\ \A w : Has(q, w) <=> w = x \/ Has(r, w)
         /\ DOMAIN vtodo' = V!Threads
         /\ \A u \in V!Threads \ {t} : vtodo'[u] = vtodo[u]
         /\ Script(vbox, t, vtodo'[t])
         /\ \/ vtodo'[t] = r
            \/ /\ vbox = "azbox" /\ x = "stop" /\ r = <<>>
               /\ vtodo'[t] = <<"lock", "blank", "unlock", "halt">>
            \/ \E w \in {"stop", "halt", "hold", "opens", "show"} :
                 /\ vtodo'[t] = <<w>> \o Tail(q)
                 /\ Head(vtodo'[t]) = w
                 /\ \A y : Has(vtodo'[t], y) <=> y = w \/ Has(r, y)
                 /\ w = "stop" => vbox = "spark" /\ x = "unstill" /\ stillpicture
                 /\ w = "halt" => vbox = "spark" /\ x = "stop" /\ ~stillpicture
                 /\ w = "hold" => x = "freeze" /\ ~stillpicture
                 /\ w = "opens" => x = "open" /\ ~fd
                 /\ w = "show" => vbox = "spark" /\ x = "mark" /\ fd
<1> DEFINE q == vtodo[t]
           r == <<>> \o Tail(q)
<1>1. vbox \in V!Boxes /\ DOMAIN vtodo = V!Threads /\ Script(vbox, t, q)
  BY DEF VideoInv, VideoShape, VideoScripts
<1>2. q # <<>> /\ Head(q) \in V!Step
  BY DEF V!Steps, V!Is, V!Step, V!Unstill, V!Play, V!StopTest, V!FreezeTest,
         V!Halt, V!Hold, V!Lock, V!Unlock, V!Blank, V!Close, V!OpenTest,
         V!Opens, V!Take, V!Give, V!Mark, V!Show, V!Unmark, V!Output,
         V!StandbyDone
<1>3. /\ Script(vbox, t, r)
      /\ \A w : Has(q, w) <=> w = Head(q) \/ Has(r, w)
      /\ Head(q) \in Words(vbox, t)
      /\ vbox = "spark" /\ Head(q) \in {"mark", "show"} => r = <<>>
      /\ vbox = "azbox" /\ Head(q) = "stop" => r = <<>>
      /\ \A w : ~Has(<<>>, w)
  <2> HIDE DEF q
  <2>1. Script(vbox, t, r) /\ \A w : Has(q, w) <=> w = Head(q) \/ Has(r, w)
    BY <1>1, <1>2, ScriptTail
  <2>2. /\ Head(q) \in Words(vbox, t)
        /\ vbox = "spark" /\ Head(q) \in {"mark", "show"} => r = <<>>
        /\ vbox = "azbox" /\ Head(q) = "stop" => r = <<>>
        /\ \A w : ~Has(<<>>, w)
    BY <1>1, <1>2, ScriptOrder
  <2> QED
    BY <2>1, <2>2
<1>4. \/ V!Then(t, <<>>)
      \/ vbox = "azbox" /\ Head(q) = "stop" /\ V!Then(t, V!AzboxHalts)
      \/ \E w \in {"stop", "halt", "hold", "opens", "show"} :
           /\ V!Then(t, <<w>>)
           /\ w = "stop" => vbox = "spark" /\ Head(q) = "unstill" /\ stillpicture
           /\ w = "halt" => vbox = "spark" /\ Head(q) = "stop" /\ ~stillpicture
           /\ w = "hold" => Head(q) = "freeze" /\ ~stillpicture
           /\ w = "opens" => Head(q) = "open" /\ ~fd
           /\ w = "show" => vbox = "spark" /\ Head(q) = "mark" /\ fd
  <2>1. CASE V!Unstill(t)
    <3>1. vbox = "spark"
      BY <1>1, <1>3, <2>1 DEF V!Unstill, V!Is, Words, V!Boxes, V!Threads
    <3> QED
      BY <2>1, <3>1 DEF V!Unstill, V!Is, V!SparkStop
  <2>2. CASE V!StopTest(t)
    BY <1>1, <2>2 DEF V!StopTest, V!Is, V!Refused, V!SparkHalts, V!Boxes
  <2>3. CASE V!FreezeTest(t)
    BY <2>3 DEF V!FreezeTest, V!Is, V!Refused
  <2>4. CASE V!OpenTest(t)
    BY <2>4 DEF V!OpenTest, V!Is
  <2>5. CASE V!Mark(t)
    BY <2>5 DEF V!Mark, V!Is
  <2> QED
    BY <2>1, <2>2, <2>3, <2>4, <2>5
       DEF V!Steps, V!Play, V!Halt, V!Hold, V!Lock, V!Unlock, V!Blank, V!Close,
           V!Opens, V!Take, V!Give, V!Show, V!Unmark, V!Output, V!StandbyDone
<1>5. /\ DOMAIN vtodo' = V!Threads
      /\ \A u \in V!Threads \ {t} : vtodo'[u] = vtodo[u]
  BY <1>1, <1>4 DEF V!Then
<1>6. \A steps : V!Then(t, steps) => vtodo'[t] = steps \o Tail(q)
  BY <1>1 DEF V!Then
<1> HIDE DEF q
<1>7. CASE V!Then(t, <<>>)
  BY <1>2, <1>3, <1>1, <1>5, <1>6, <1>7 DEF q
<1>8. CASE vbox = "azbox" /\ Head(q) = "stop" /\ V!Then(t, V!AzboxHalts)
  <2>1. r = <<>> /\ Tail(q) = <<>>
    BY <1>1, <1>2, <1>3, <1>8, Rest DEF Script
  <2>2. vtodo'[t] = <<"lock", "blank", "unlock", "halt">>
    <3>1. V!AzboxHalts = <<"lock", "blank", "unlock", "halt">>
      BY CallsAre
    <3>2. V!AzboxHalts \o <<>> = V!AzboxHalts
      <4>1. <<"lock", "blank", "unlock", "halt">> \in Seq(Words("azbox", "zap"))
        BY ScriptsOfCalls DEF Script
      <4> QED
        BY <3>1, <4>1, ConcatEmptySeq
    <3> QED
      BY <1>6, <1>8, <2>1, <3>1, <3>2
  <2>3. t = "zap"
    BY <1>3, <1>8 DEF Words, V!Threads
  <2> QED
    BY <1>1, <1>2, <1>3, <1>5, <1>8, <2>1, <2>2, <2>3, ScriptsOfCalls DEF q
<1>9. ASSUME NEW w \in {"stop", "halt", "hold", "opens", "show"}, V!Then(t, <<w>>),
             w = "stop" => vbox = "spark" /\ Head(q) = "unstill" /\ stillpicture,
             w = "halt" => vbox = "spark" /\ Head(q) = "stop" /\ ~stillpicture,
             w = "hold" => Head(q) = "freeze" /\ ~stillpicture,
             w = "opens" => Head(q) = "open" /\ ~fd,
             w = "show" => vbox = "spark" /\ Head(q) = "mark" /\ fd
      PROVE  /\ Script(vbox, t, vtodo'[t])
             /\ vtodo'[t] = <<w>> \o Tail(q)
             /\ Head(vtodo'[t]) = w
             /\ \A y : Has(vtodo'[t], y) <=> y = w \/ Has(r, y)
  <2>1. \/ vbox = "spark" /\ Head(q) = "unstill" /\ w = "stop"
        \/ vbox = "spark" /\ Head(q) = "stop" /\ w = "halt"
        \/ Head(q) = "freeze" /\ w = "hold"
        \/ Head(q) = "open" /\ w = "opens"
        \/ vbox = "spark" /\ Head(q) = "mark" /\ w = "show"
    BY <1>9
  <2>2. /\ Script(vbox, t, <<w>> \o Tail(q))
        /\ Head(<<w>> \o Tail(q)) = w
        /\ \A y : Has(<<w>> \o Tail(q), y) <=> y = w \/ Has(r, y)
    BY <1>1, <1>2, <2>1, ScriptReplaced
  <2>3. vtodo'[t] = <<w>> \o Tail(q)
    BY <1>6, <1>9
  <2> QED
    BY ONLY <2>2, <2>3
<1> QED
  <2>1. CASE \E w \in {"stop", "halt", "hold", "opens", "show"} :
           /\ V!Then(t, <<w>>)
           /\ w = "stop" => vbox = "spark" /\ Head(q) = "unstill" /\ stillpicture
           /\ w = "halt" => vbox = "spark" /\ Head(q) = "stop" /\ ~stillpicture
           /\ w = "hold" => Head(q) = "freeze" /\ ~stillpicture
           /\ w = "opens" => Head(q) = "open" /\ ~fd
           /\ w = "show" => vbox = "spark" /\ Head(q) = "mark" /\ fd
    BY <1>1, <1>2, <1>3, <1>5, <1>9, <2>1 DEF q
  <2> QED
    BY <1>4, <1>7, <1>8, <2>1

(* Of steps that cross none is forgotten, but by who closes the device. *)
LEMMA Crossing ==
  ASSUME VideoInv, NEW t \in V!Threads, vtodo[t] # <<>>, V!Crosses(t)
  PROVE  /\ ~vcrossed' => ~vcrossed \/ (Head(vtodo[t]) = "close" /\ ~stillpicture)
         /\ ~vcrossed' /\ Head(vtodo[t]) \in V!Changing =>
              \A u \in V!Threads \ {t}, w \in V!Changing : ~Has(vtodo[u], w)
<1>1. \A u \in V!Threads : DOMAIN vtodo[u] = 1 .. Len(vtodo[u])
  BY DEF VideoInv, VideoScripts, Script
<1> QED
  BY <1>1 DEF V!Crosses, V!Changes, V!Is, Has

(* The device has one holder, and shows what that one plays.               *)
LEMMA VideoShapeStep ==
  ASSUME VideoInv, NEW t \in V!Threads, V!Steps(t), V!Crosses(t), UNCHANGED <<vbox, movie>>
  PROVE  VideoShape' /\ VideoHeld'
<1>1. VideoShape /\ VideoHeld
  BY DEF VideoInv
<1>2. vcrossed' \in BOOLEAN
  BY <1>1 DEF V!Crosses, VideoShape
<1> USE <1>1, <1>2 DEF VideoShape, VideoHeld, V!members, V!ghosts
<1>3. CASE V!Unstill(t) \/ V!Unmark(t)
  <2>1. /\ stillpicture' = FALSE
        /\ UNCHANGED <<fd, playstate, video_standby, stillp_mutex, vdev, disowned, relit>>
    BY <1>3 DEF V!Unstill, V!Unmark
  <2> QED
    BY ONLY <1>1, <1>2, <2>1, UNCHANGED <<vbox, movie>>
<1>12. CASE V!Mark(t)
  <2>1. (fd \/ vbox = "azbox" \/ stillpicture) \in BOOLEAN
    OBVIOUS
  <2>2. stillpicture' \in BOOLEAN
    BY <1>12, <2>1 DEF V!Mark
  <2> QED
    BY <1>12, <2>2 DEF V!Mark
<1>10. CASE V!StopTest(t) \/ V!FreezeTest(t) \/ V!OpenTest(t) \/ V!Unlock(t)
  BY <1>10 DEF V!StopTest, V!FreezeTest, V!OpenTest, V!Unlock
<1>11. CASE V!StandbyDone(t)
  BY <1>11 DEF V!StandbyDone, V!Is
<1>4. CASE V!Play(t) \/ V!Halt(t) \/ V!Hold(t) \/ V!Blank(t) \/ V!Show(t)
  BY <1>4 DEF V!Play, V!Halt, V!Hold, V!Blank, V!Show, V!Shows
<1>5. CASE V!Lock(t)
  BY <1>5 DEF V!Lock
<1>6. CASE V!Close(t)
  BY <1>6 DEF V!Close
<1>7. CASE V!Opens(t)
  BY <1>7 DEF V!Opens
<1>8. CASE V!Take(t) \/ V!Give(t)
  BY <1>8 DEF V!Take, V!Give
<1>9. CASE V!Output(t)
  BY <1>9 DEF V!Output
<1> QED
  BY <1>3, <1>4, <1>5, <1>6, <1>7, <1>8, <1>9, <1>10, <1>11, <1>12 DEF V!Steps

(* playstate is the decoder's.                                             *)
LEMMA StateKnownStep ==
  ASSUME VideoInv, NEW t \in V!Threads, V!Steps(t), V!Crosses(t), UNCHANGED <<vbox, movie>>
  PROVE  V!StateKnown'
<1>1. /\ V!StateKnown /\ VideoShape /\ VideoHeld /\ vbox \in V!Boxes
      /\ vtodo[t] # <<>> /\ Head(vtodo[t]) \in Words(vbox, t)
      /\ ~vcrossed' => ~vcrossed \/ Head(vtodo[t]) = "close"
  <2>1. vtodo[t] # <<>> /\ Script(vbox, t, vtodo[t]) /\ vbox \in V!Boxes
    BY StepLeaves DEF VideoInv, VideoShape
  <2> QED
    BY <2>1, ScriptOrder, Crossing DEF VideoInv
<1>2. vbox = "spark" => Head(vtodo[t]) # "blank"
  BY <1>1 DEF Words, V!Threads
<1> USE <1>1, <1>2 DEF V!StateKnown, VideoShape, VideoHeld, V!members, V!ghosts,
                       V!Is, V!Boxes
<1>3. CASE V!Unstill(t) \/ V!StopTest(t) \/ V!FreezeTest(t) \/ V!Lock(t) \/ V!Unlock(t)
           \/ V!OpenTest(t) \/ V!Mark(t) \/ V!Unmark(t) \/ V!StandbyDone(t)
  BY <1>3 DEF V!Unstill, V!StopTest, V!FreezeTest, V!Lock, V!Unlock, V!OpenTest,
              V!Mark, V!Unmark, V!StandbyDone
<1>4. CASE V!Play(t) \/ V!Halt(t) \/ V!Hold(t) \/ V!Blank(t)
  BY <1>4 DEF V!Play, V!Halt, V!Hold, V!Blank, V!Shows
<1>5. CASE V!Show(t)
  <2>1. vbox = "spark" /\ ~vcrossed' => playstate = "STOPPED"
    <3>0. /\ Head(vtodo[t]) = "show" /\ Script(vbox, t, vtodo[t])
          /\ \A w : Has(vtodo[t], w) <=> w = "show" \/ Has(<<>> \o Tail(vtodo[t]), w)
      BY <1>5, StepLeaves DEF V!Show
    <3>1. vbox = "spark" => Has(vtodo[t], "show") /\ ~Has(vtodo[t], "close")
      BY <3>0, ScriptOrder
    <3> QED
      BY <1>5, <3>1 DEF V!Show, VideoInv, VideoSeen, Seen
  <2> QED
    BY <1>5, <2>1 DEF V!Show, V!Shows
<1>6. CASE V!Close(t)
  BY <1>6 DEF V!Close
<1>7. CASE V!Opens(t)
  BY <1>7 DEF V!Opens
<1>8. CASE V!Take(t) \/ V!Give(t)
  BY <1>8 DEF V!Take, V!Give
<1>9. CASE V!Output(t)
  BY <1>9 DEF V!Output
<1> QED
  BY <1>3, <1>4, <1>5, <1>6, <1>7, <1>8, <1>9 DEF V!Steps

(* A picture that is marked will be shown.                                 *)
LEMMA MarkShows ==
  ASSUME VideoInv, vbox = "spark", fd, NEW t \in V!Threads, V!Mark(t)
  PROVE  Has(vtodo'[t], "show")
<1>1. V!Then(t, <<"show">>) /\ vtodo[t] # <<>> /\ Head(vtodo[t]) = "mark"
  BY DEF V!Mark, V!Is
<1>2. Script(vbox, t, vtodo[t]) /\ vbox \in V!Boxes /\ DOMAIN vtodo = V!Threads
  BY DEF VideoInv, VideoScripts, VideoShape
<1>3. Has(<<"show">> \o Tail(vtodo[t]), "show")
  BY <1>1, <1>2, ScriptReplaced
<1> QED
  BY <1>1, <1>2, <1>3 DEF V!Then

(* What an uncrossed call has seen stays true until it acts on it.         *)
LEMMA VideoSeenStep ==
  ASSUME VideoInv, NEW t \in V!Threads, V!Steps(t), V!Crosses(t), UNCHANGED <<vbox, movie>>
  PROVE  VideoSeen'
<1> SUFFICES ASSUME vbox = "spark", ~vcrossed' PROVE VideoSeen'
  BY DEF VideoSeen
<1> DEFINE q == vtodo[t]
           r == <<>> \o Tail(q)
           x == Head(q)
           s == vtodo'[t]
<1>0. VideoShape
  BY DEF VideoInv
<1>1. /\ vbox \in V!Boxes /\ q # <<>> /\ Script(vbox, t, q)
      /\ \A w : Has(q, w) <=> w = x \/ Has(r, w)
      /\ \A u \in V!Threads \ {t} : vtodo'[u] = vtodo[u]
      /\ \/ s = r
         \/ \E w \in {"stop", "halt", "hold", "opens", "show"} :
              /\ \A y : Has(s, y) <=> y = w \/ Has(r, y)
              /\ w = "stop" => x = "unstill" /\ stillpicture
              /\ w = "halt" => x = "stop" /\ ~stillpicture
              /\ w = "hold" => x = "freeze" /\ ~stillpicture
              /\ w = "opens" => x = "open" /\ ~fd
              /\ w = "show" => x = "mark" /\ fd
  BY StepLeaves DEF VideoInv, VideoShape
<1>2. /\ x \in Words("spark", t)
      /\ x \in {"freeze", "hold", "standby", "awake", "mark", "show"} => r = <<>>
      /\ ~Has(r, "opens")
      /\ x \in {"play", "close"} => ~Has(r, "unstill")
      /\ x = "close" => ~Has(r, "play")
      /\ \A w : ~Has(<<>>, w)
      /\ (Has(q, "mark") \/ Has(q, "show")) /\ ~Has(q, "close") => ~Has(q, "play")
  <2> HIDE DEF q
  <2>2. /\ x \in Words("spark", t)
        /\ x \in {"freeze", "hold", "standby", "awake"} => r = <<>>
        /\ x \in {"mark", "show"} => r = <<>>
        /\ ~Has(r, "opens")
        /\ x \in {"play", "close"} => ~Has(r, "unstill")
        /\ x = "close" => ~Has(r, "play")
        /\ \A w : ~Has(<<>>, w)
    BY <1>1, ScriptOrder
  <2> QED
    BY <1>1, <2>2 DEF Script
<1>3. /\ ~vcrossed \/ (x = "close" /\ ~stillpicture)
      /\ x \in V!Changing => \A u \in V!Threads \ {t}, w \in V!Changing : ~Has(vtodo[u], w)
  BY <1>1, Crossing
<1>4. x \in {"blank", "lock", "unlock"} => FALSE
  BY <1>2 DEF Words, V!Threads
<1>5. ~vcrossed => /\ \A u \in V!Threads : Seen(u)
                   /\ ~fd => ~stillpicture
                   /\ stillpicture /\ fd /\ ~Has(vtodo["gui"], "show") => vdev.shows = "picture"
  BY DEF VideoInv, VideoSeen
<1>6. /\ x \notin V!Changing => UNCHANGED <<fd, playstate, stillpicture>> /\ vdev'.shows = vdev.shows
      /\ x = "unstill" => stillpicture' = FALSE /\ UNCHANGED <<fd, playstate, vdev>>
      /\ x = "play" => UNCHANGED <<fd, stillpicture>>
      /\ x = "halt" => playstate' = "STOPPED" /\ UNCHANGED <<fd, stillpicture>>
      /\ x = "hold" => UNCHANGED <<fd, stillpicture>>
      /\ x = "close" => fd' = FALSE /\ playstate' = "STOPPED" /\ UNCHANGED stillpicture
      /\ x = "opens" => playstate' = "STOPPED" /\ UNCHANGED stillpicture
      /\ x \in {"take", "give"} =>
           UNCHANGED <<fd, playstate, stillpicture>> /\ vdev'.shows = vdev.shows
      /\ x = "mark" => /\ stillpicture' <=> fd \/ stillpicture
                       /\ fd => Has(s, "show")
                       /\ UNCHANGED <<fd, playstate, vdev>>
      /\ x = "show" => /\ UNCHANGED <<fd, playstate, stillpicture>>
                       /\ fd => vdev'.shows = "picture"
      /\ x = "unmark" => stillpicture' = FALSE /\ UNCHANGED <<fd, playstate, vdev>>
  <2> USE DEF V!Is, V!members, V!ghosts, V!Changing, V!Step, V!Shows
  <2>1. CASE V!Unstill(t) \/ V!Unmark(t)
    BY <2>1 DEF V!Unstill, V!Unmark
  <2>2. CASE V!Play(t) \/ V!Halt(t) \/ V!Hold(t)
    BY <2>2 DEF V!Play, V!Halt, V!Hold
  <2>3. CASE V!StopTest(t) \/ V!FreezeTest(t) \/ V!OpenTest(t)
    BY <2>3 DEF V!StopTest, V!FreezeTest, V!OpenTest
  <2>4. CASE V!Lock(t) \/ V!Unlock(t) \/ V!Blank(t)
    BY <1>4, <2>4 DEF V!Lock, V!Unlock, V!Blank
  <2>5. CASE V!Close(t) \/ V!Opens(t)
    BY <2>5 DEF V!Close, V!Opens
  <2>6. CASE V!Take(t) \/ V!Give(t)
    BY <1>0, <2>6 DEF V!Take, V!Give, VideoShape
  <2>7. CASE V!Mark(t)
    <3>1. fd => Has(s, "show")
      BY <2>7, MarkShows
    <3> QED
      BY <2>7, <3>1 DEF V!Mark
  <2>8. CASE V!Show(t)
    BY <1>0, <2>8 DEF V!Show, VideoShape
  <2>9. CASE V!Output(t) \/ V!StandbyDone(t)
    BY <1>0, <2>9 DEF V!Output, V!StandbyDone, VideoShape
  <2> QED
    BY <2>1, <2>2, <2>3, <2>4, <2>5, <2>6, <2>7, <2>8, <2>9 DEF V!Steps
<1>7. x \in {"unstill", "play", "halt", "hold", "close", "opens", "take", "give", "mark", "show",
             "unmark"} \/ x \notin V!Changing
  BY <1>1, <1>2, <1>4, ScriptOrder DEF V!Changing, V!Step, Words, V!Threads
<1> HIDE DEF q, r, x, s
<1>8. Seen(t)'
  <2> USE <1>1, <1>2, <1>3, <1>5, <1>6 DEF Seen
  <2>1. CASE x \in {"unstill", "unmark"}
    BY <2>1 DEF s, q
  <2>6. CASE x = "play"
    BY <2>6 DEF s, q
  <2>2. CASE x \in {"halt", "hold", "close"}
    BY <2>2 DEF s, q
  <2>3. CASE x \in {"opens", "take", "give"}
    BY <2>3 DEF s, q
  <2>4. CASE x \in {"mark", "show"}
    BY <2>4 DEF s, q
  <2>5. CASE x \notin V!Changing
    BY <2>5 DEF s, q
  <2> QED
    BY <1>7, <2>1, <2>2, <2>3, <2>4, <2>5, <2>6
<1>9. \A u \in V!Threads \ {t} : Seen(u)'
  <2>1. CASE x \in V!Changing
    BY <1>1, <1>3, <2>1 DEF Seen, V!Changing, V!Step
  <2>2. CASE x \notin V!Changing
    <3>1. x # "close"
      BY <2>2 DEF V!Changing, V!Step
    <3> QED
      BY <1>1, <1>3, <1>5, <1>6, <2>2, <3>1 DEF Seen
  <2> QED
    BY <2>1, <2>2
<1>10. ~fd' => ~stillpicture'
  <2>1. CASE x = "close"
    <3>1. ~Has(q, "unstill") /\ Has(q, "close")
      BY <1>1, <1>2, <2>1
    <3>2. ~stillpicture
      BY <1>3, <1>5, <3>1 DEF Seen, q
    <3> QED
      BY <1>6, <2>1, <3>2
  <2>2. CASE x = "opens"
    <3>1. ~fd
      BY <1>1, <1>3, <1>5, <2>2 DEF Seen, q
    <3> QED
      BY <1>3, <1>5, <1>6, <2>2, <3>1
  <2>3. CASE x \notin {"close", "opens"}
    BY <1>3, <1>5, <1>6, <1>7, <2>3
  <2> QED
    BY <2>1, <2>2, <2>3
<1>11. stillpicture' /\ fd' /\ ~Has(vtodo'["gui"], "show") => vdev'.shows = "picture"
  <2>1. CASE x \in {"close", "unstill", "unmark"}
    BY <1>6, <2>1
  <2>2. CASE x = "opens"
    <3>1. ~fd
      BY <1>1, <1>3, <1>5, <2>2 DEF Seen, q
    <3> QED
      BY <1>3, <1>5, <1>6, <2>2, <3>1
  <2>3. CASE x \in {"play", "halt", "hold"}
    <3>1. ~stillpicture
      BY <1>1, <1>2, <1>3, <1>5, <2>3 DEF Seen, q
    <3> QED
      BY <1>6, <2>3, <3>1
  <2>4. CASE x \in {"mark", "show"}
    <3>1. t = "gui"
      BY <1>2, <2>4 DEF Words, V!Threads
    <3> QED
      BY <1>6, <2>4, <3>1 DEF s
  <2>5. CASE x \in {"take", "give"} \/ x \notin V!Changing
    <3>1. x # "close" /\ x # "show" /\ x # "unstill"
      BY <2>5 DEF V!Changing, V!Step
    <3>2. Has(vtodo["gui"], "show") => Has(vtodo'["gui"], "show")
      BY <1>1, <3>1 DEF s, q, V!Threads
    <3> QED
      BY <1>3, <1>5, <1>6, <2>5, <3>1, <3>2
  <2> QED
    BY <1>7, <2>1, <2>2, <2>3, <2>4, <2>5
<1> QED
  BY <1>8, <1>9, <1>10, <1>11 DEF VideoSeen

(* The first of the steps left is one of them.                             *)
LEMMA HeadIsHad ==
  ASSUME NEW b \in V!Boxes, NEW t \in V!Threads, NEW q, Script(b, t, q), q # <<>>
  PROVE  LET r == <<>> \o Tail(q) IN r # <<>> => Has(r, Head(r))
<1> DEFINE r == <<>> \o Tail(q)
<1>1. Script(b, t, r)
  BY ScriptTail
<1> HIDE DEF r
<1>2. ASSUME r # <<>> PROVE Len(r) \in Nat \ {0} /\ r[1] = Head(r)
  BY <1>1, <1>2 DEF Script
<1>3. r # <<>> => Has(r, Head(r))
  BY <1>2 DEF Has
<1> QED
  BY <1>3 DEF r

(* The scripts stay in order.                                              *)
LEMMA VideoScriptsStep ==
  ASSUME VideoInv, NEW t \in V!Threads, V!Steps(t), UNCHANGED vbox
  PROVE  VideoScripts'
<1>1. /\ DOMAIN vtodo' = V!Threads
      /\ \A u \in V!Threads \ {t} : vtodo'[u] = vtodo[u]
      /\ Script(vbox, t, vtodo'[t])
  BY StepLeaves
<1> QED
  BY <1>1 DEF VideoInv, VideoScripts

(* The output is off in standby and on otherwise.                          *)
LEMMA VideoOutputStep ==
  ASSUME VideoInv, NEW t \in V!Threads, V!Steps(t), V!Crosses(t), UNCHANGED <<vbox, movie>>
  PROVE  VideoOutput'
<1> DEFINE q == vtodo[t]
           r == <<>> \o Tail(q)
           x == Head(q)
           s == vtodo'[t]
           zap == V!Is("zap", "standby")
<1>0. VideoShape /\ VideoOutput
  BY DEF VideoInv
<1>1. /\ vbox \in V!Boxes /\ q # <<>> /\ Script(vbox, t, q)
      /\ \A w : Has(q, w) <=> w = x \/ Has(r, w)
      /\ \A u \in V!Threads \ {t} : vtodo'[u] = vtodo[u]
      /\ \/ s = r
         \/ s = <<"lock", "blank", "unlock", "halt">> /\ x = "stop" /\ r = <<>>
         \/ \E w \in {"stop", "halt", "hold", "opens", "show"} :
              /\ \A y : Has(s, y) <=> y = w \/ Has(r, y)
              /\ s # <<>> => Head(s) = w
              /\ x \in {"unstill", "stop", "freeze", "open", "mark"}
  BY <1>0, StepLeaves DEF VideoShape
<1>2. /\ x \in Words(vbox, t)
      /\ x \in {"freeze", "hold", "standby", "awake"} => r = <<>>
      /\ x = "off" => /\ r # <<>> /\ Head(r) = (IF t = "zap" THEN "standby" ELSE "on")
                      /\ ~Has(r, "off")
      /\ r # <<>> /\ Head(r) = "standby" => x = "off"
      /\ t = "zap" => ~(Has(q, "off") /\ Has(q, "awake"))
      /\ \A w : ~Has(<<>>, w)
  BY <1>1, ScriptOrder
<1>3. t = "zap" \/ t = "gui" \/ x \notin {"off", "on", "wake", "standby", "awake"}
  BY <1>2 DEF Words, V!Threads, V!Boxes
<1>4. t = "gui" => x \notin {"wake", "standby", "awake"}
  BY <1>2 DEF Words, V!Threads, V!Boxes
<1>5. s # <<>> /\ Head(s) = "standby" => x = "off" /\ s = r
  <2>1. Head(<<"lock", "blank", "unlock", "halt">>) # "standby"
    OBVIOUS
  <2> HIDE DEF q, r, x, s
  <2> QED
    BY <1>1, <1>2, <2>1
<1>6. \A w \in {"on", "off", "wake", "awake"} :
         Has(s, w) <=> Has(r, w)
  <2>1. \A w \in {"on", "off", "wake", "awake"} : ~Has(<<"lock", "blank", "unlock", "halt">>, w)
    BY DEF Has
  <2> QED
    BY <1>1, <1>2, <2>1
<1>7. /\ x \notin {"off", "on", "wake"} => vdev'.output = vdev.output /\ UNCHANGED relit
      /\ x = "off" => vdev'.output = FALSE /\ relit' = FALSE
      /\ x \in {"on", "wake"} => vdev'.output = TRUE /\ (relit' <=> video_standby \/ zap)
      /\ x \notin {"standby", "awake"} => UNCHANGED video_standby
      /\ x \in {"standby", "awake"} => (video_standby' <=> x = "standby")
  <2> USE <1>0 DEF V!Is, V!members, V!ghosts, V!Shows, VideoShape
  <2>1. CASE V!Unstill(t) \/ V!Unmark(t) \/ V!Mark(t)
    BY <2>1 DEF V!Unstill, V!Unmark, V!Mark
  <2>2. CASE V!Play(t) \/ V!Halt(t) \/ V!Hold(t) \/ V!Show(t) \/ V!Blank(t)
    BY <2>2 DEF V!Play, V!Halt, V!Hold, V!Show, V!Blank
  <2>3. CASE V!StopTest(t) \/ V!FreezeTest(t) \/ V!OpenTest(t)
    BY <2>3 DEF V!StopTest, V!FreezeTest, V!OpenTest
  <2>4. CASE V!Lock(t) \/ V!Unlock(t)
    BY <2>4 DEF V!Lock, V!Unlock
  <2>5. CASE V!Close(t) \/ V!Opens(t)
    BY <2>5 DEF V!Close, V!Opens
  <2>6. CASE V!Take(t) \/ V!Give(t)
    BY <2>6 DEF V!Take, V!Give
  <2>7. CASE V!Output(t)
    BY <2>7 DEF V!Output
  <2>8. CASE V!StandbyDone(t)
    BY <2>8 DEF V!StandbyDone
  <2> QED
    BY <2>1, <2>2, <2>3, <2>4, <2>5, <2>6, <2>7, <2>8 DEF V!Steps
<1>8. CASE t = "gui"
  <2>1. zap' <=> zap
    BY <1>1, <1>8 DEF V!Is, V!Threads
  <2>2. AwakeDue' <=> AwakeDue
    BY <1>1, <1>8 DEF AwakeDue, V!Threads
  <2>3. /\ OnDue <=> Has(q, "on") /\ ~Has(q, "off")
        /\ OnDue' <=> Has(r, "on") /\ ~Has(r, "off")
    BY <1>6, <1>8 DEF OnDue
  <2>4. x = "off" => OnDue'
    <3>1. x = "off" => Has(r, "on")
      BY <1>1, <1>2, <1>8, HeadIsHad
    <3> QED
      BY <1>2, <2>3, <3>1
  <2>5. x \notin {"off", "on"} => (OnDue' <=> OnDue)
    BY <1>1, <2>3
  <2> HIDE DEF zap, x
  <2> QED
    BY <1>0, <1>4, <1>7, <1>8, <2>1, <2>2, <2>4, <2>5
       DEF VideoOutput, VideoShape, zap
<1>9. CASE t = "zap"
  <2>1. OnDue' <=> OnDue
    BY <1>1, <1>9 DEF OnDue, V!Threads
  <2>2. zap <=> x = "standby"
    BY <1>1, <1>9 DEF V!Is
  <2>3. zap' <=> x = "off"
    <3>1. zap' <=> s # <<>> /\ Head(s) = "standby"
      BY <1>9 DEF V!Is
    <3>2. x = "off" => s = r
      BY <1>1
    <3> QED
      BY <1>2, <1>5, <1>9, <3>1, <3>2
  <2>4. /\ AwakeDue <=> Has(q, "awake") /\ ~Has(q, "wake") /\ ~Has(q, "on")
        /\ AwakeDue' <=> Has(r, "awake") /\ ~Has(r, "wake") /\ ~Has(r, "on")
    BY <1>6, <1>9 DEF AwakeDue
  <2>5. x \in {"standby", "off"} => ~AwakeDue'
    BY <1>1, <1>2, <1>9, <2>4
  <2>6. x = "awake" => AwakeDue /\ ~AwakeDue'
    BY <1>1, <1>2, <2>4
  <2>7. x \notin {"wake", "on", "awake"} => (AwakeDue' <=> AwakeDue)
    BY <1>1, <2>4
  <2> HIDE DEF zap, x
  <2>8. CASE x = "off"
    BY <1>0, <1>7, <2>1, <2>3, <2>5, <2>8 DEF VideoOutput, zap
  <2>9. CASE x = "standby"
    BY <1>0, <1>7, <2>1, <2>2, <2>3, <2>5, <2>9 DEF VideoOutput, VideoShape, zap
  <2>10. CASE x = "awake"
    BY <1>0, <1>7, <2>1, <2>2, <2>3, <2>6, <2>10
       DEF VideoOutput, VideoShape, zap
  <2>11. CASE x \in {"on", "wake"}
    BY <1>0, <1>7, <2>1, <2>2, <2>3, <2>11 DEF VideoOutput, VideoShape, zap
  <2>12. CASE x \notin {"off", "standby", "awake", "on", "wake"}
    BY <1>0, <1>7, <2>1, <2>2, <2>3, <2>7, <2>12
       DEF VideoOutput, VideoShape, zap
  <2> QED
    BY <2>8, <2>9, <2>10, <2>11, <2>12
<1>10. CASE t = "movie"
  <2>1. (zap' <=> zap) /\ (AwakeDue' <=> AwakeDue) /\ (OnDue' <=> OnDue)
    BY <1>1, <1>10 DEF V!Is, AwakeDue, OnDue, V!Threads
  <2> HIDE DEF zap, x
  <2> QED
    BY <1>0, <1>3, <1>7, <1>10, <2>1 DEF VideoOutput, zap
<1> QED
  BY <1>8, <1>9, <1>10 DEF V!Threads

LEMMA VideoStep ==
  ASSUME VideoInv, [V!Next]_(V!vars)
  PROVE  VideoInv'
<1>1. CASE V!Call
  <2>1. /\ vbox \in V!Boxes /\ movie \in BOOLEAN /\ (movie => vbox = "spark")
    BY DEF VideoInv, VideoShape
  <2> DEFINE Good(t, q) == /\ Script(vbox, t, q) /\ (vbox = "spark" => Fresh(q)) /\ FreshOutput(q)
                           /\ t = "gui" => ~Has(q, "awake")
  <2>2. ASSUME NEW t \in V!Threads, NEW spark, NEW azbox,
               vbox = "spark" => Good(t, spark), vbox = "azbox" => Good(t, azbox),
               V!Calls(t, spark, azbox)
        PROVE  VideoInv'
    BY <2>1, <2>2, VideoCall DEF V!Calls, V!Boxes
  <2>3. /\ vbox = "spark" => \A c \in SparkZaps : Good("zap", c)
        /\ vbox = "spark" => \A c \in SparkGuis : Good("gui", c)
        /\ vbox = "spark" => \A c \in SparkMovies : Good("movie", c)
        /\ vbox = "azbox" => \A c \in AzboxZaps : Good("zap", c)
        /\ vbox = "azbox" => \A c \in AzboxGuis : Good("gui", c)
    BY ScriptsOfCalls, FreshCalls
  <2>4. "zap" \in V!Threads /\ "gui" \in V!Threads /\ "movie" \in V!Threads
    BY DEF V!Threads
  <2> HIDE DEF Good
  <2>5. CASE V!Start \/ V!setBlank \/ \E b \in BOOLEAN : V!Stop(b) \/ V!Standby(b)
    <3>1. \A b \in BOOLEAN : /\ V!SparkStart \in SparkZaps /\ V!SparkStop(b) \in SparkZaps
                            /\ V!SparkStop(TRUE) \in SparkZaps
                            /\ V!SparkStandby(b) \in SparkZaps
                            /\ V!AzboxStart \in AzboxZaps /\ V!AzboxStop(b) \in AzboxZaps
                            /\ V!AzboxSetBlank \in AzboxZaps /\ V!AzboxStandby(b) \in AzboxZaps
      BY CallsAre DEF SparkZaps, AzboxZaps, V!SparkStop, V!AzboxStart,
                      V!AzboxStop, V!AzboxSetBlank
    <3> QED
      BY <2>2, <2>3, <2>4, <2>5, <3>1 DEF V!Start, V!setBlank, V!Stop, V!Standby
  <2>6. CASE V!ShowPicture \/ V!StopPicture
    <3>1. /\ V!SparkShowPicture \in SparkGuis /\ V!SparkStopPicture \in SparkGuis
          /\ V!AzboxShowPicture \in AzboxGuis /\ V!AzboxStopPicture \in AzboxGuis
      BY CallsAre DEF SparkGuis, AzboxGuis, V!AzboxShowPicture,
                      V!AzboxStopPicture
    <3> QED
      BY <2>2, <2>3, <2>4, <2>6, <3>1 DEF V!ShowPicture, V!StopPicture
  <2>7. CASE V!SetVideoSystem
    <3>1. V!SparkSetVideoSystem \in SparkGuis /\ vbox = "spark"
      BY <2>7, CallsAre DEF SparkGuis, V!SetVideoSystem
    <3> QED
      BY <2>2, <2>3, <2>4, <2>7, <3>1 DEF V!SetVideoSystem
  <2>8. CASE V!PlayerOpens \/ V!PlayerCloses
    <3>1. V!SparkClose \o <<"take">> \in SparkMovies /\ <<"give">> \o V!SparkOpen \in SparkMovies
      BY CallsAre DEF SparkMovies
    <3>2. vbox = "spark"
      BY <2>1, <2>8 DEF V!PlayerOpens, V!PlayerCloses
    <3>3. \A c \in SparkMovies : Good("movie", c)
      BY <2>3, <3>2
    <3>4. PICK c \in SparkMovies : /\ vtodo["movie"] = <<>> /\ vtodo' = [vtodo EXCEPT !["movie"] = c]
                                  /\ movie' \in BOOLEAN
                                  /\ UNCHANGED <<vbox, V!members, stillp_mutex, vdev, V!ghosts, vcrossed>>
      BY <2>8, <3>1 DEF V!PlayerOpens, V!PlayerCloses
    <3> QED
      BY <2>4, <3>2, <3>3, <3>4, VideoCall DEF Good
  <2> QED
    BY <1>1, <2>5, <2>6, <2>7, <2>8 DEF V!Call
<1>2. ASSUME NEW t \in V!Threads, V!Steps(t), V!Crosses(t), UNCHANGED <<vbox, movie>>
      PROVE  VideoInv'
  BY <1>2, VideoShapeStep, StateKnownStep, VideoSeenStep, VideoOutputStep, VideoScriptsStep
     DEF VideoInv
<1>3. CASE UNCHANGED V!vars
  BY <1>3 DEF V!vars, V!members, V!ghosts, VideoInv, VideoShape, VideoScripts,
              VideoHeld, V!StateKnown, VideoSeen, Seen, VideoOutput, OnDue,
              AwakeDue, V!Is
<1> QED
  BY <1>1, <1>2, <1>3 DEF V!Next

LEMMA VideoInit ==
  ASSUME V!Init
  PROVE  VideoInv
<1> USE DEF V!Init
<1>1. VideoShape /\ VideoHeld
  BY DEF VideoShape, VideoHeld, V!Boxes
<1>2. VideoScripts
  BY ScriptsOfCalls DEF VideoScripts
<1>3. \A w : \A t \in V!Threads : ~Has(vtodo[t], w)
  BY DEF Has
<1>4. VideoSeen /\ V!StateKnown
  BY <1>3 DEF VideoSeen, Seen, V!StateKnown
<1>5. VideoOutput
  BY <1>3 DEF VideoOutput, AwakeDue, V!Is, V!Threads
<1> QED
  BY <1>1, <1>2, <1>4, <1>5 DEF VideoInv

(* The inductive invariant is enough.                                      *)
LEMMA VideoSafe ==
  ASSUME VideoInv
  PROVE  V!TypeOK /\ V!VideoFollows
<1>1. V!TypeOK
  <2>1. ASSUME NEW t \in V!Threads, NEW i \in DOMAIN vtodo[t]
        PROVE  vtodo[t][i] \in V!Step
    <3>1. vtodo[t] \in Seq(Words(vbox, t)) /\ vbox \in V!Boxes
      BY DEF VideoInv, VideoScripts, VideoShape, Script
    <3>2. vtodo[t][i] \in Words(vbox, t)
      BY <2>1, <3>1
    <3>3. Words(vbox, t) \subseteq V!Step
      BY <3>1 DEF Words, V!Step, V!Boxes, V!Threads
    <3> QED
      BY <3>2, <3>3
  <2> QED
    BY <2>1 DEF VideoInv, VideoShape, VideoScripts, V!TypeOK
<1>2. ASSUME V!AtRest
      PROVE  V!DeviceOwned /\ V!StateKnown /\ V!PictureShown /\ V!OutputFollows
  <2>1. \A w : \A t \in V!Threads : ~Has(vtodo[t], w)
    BY <1>2 DEF V!AtRest, Has
  <2>2. ~V!Is("zap", "standby") /\ ~OnDue
    BY <1>2, <2>1 DEF V!AtRest, V!Is, OnDue, V!Threads
  <2>3. V!PictureShown
    BY <2>1 DEF VideoInv, VideoSeen, V!PictureShown, V!Threads
  <2> QED
    BY <2>2, <2>3 DEF VideoInv, VideoShape, VideoHeld, VideoOutput,
                      V!DeviceOwned, V!OutputFollows
<1> QED
  BY <1>1, <1>2 DEF V!VideoFollows

-----------------------------------------------------------------------------
(* Sections, with any filters, sections and time limits.                   *)

(* Padding leaves the bytes where they are.                                *)
LEMMA PadIs ==
  ASSUME NEW b, NEW n \in Nat
  PROVE  \A i \in 1 .. n : Sect!Pad(b, n)[i] = IF i \in DOMAIN b THEN b[i] ELSE 0
  BY DEF Sect!Pad

(* A wish, whose negmask may be missing. *)
LEMMA WishIs ==
  ASSUME NEW w \in Wishes
  PROVE  /\ Len(w.filter) \in 1 .. 4
         /\ w.filter \in Seq(Nat) /\ w.mask \in Seq({0, 1}) /\ Sect!Negated(w) \in Seq({0, 1})
         /\ Len(w.mask) = Len(w.filter) /\ Len(Sect!Negated(w)) = Len(w.filter)
         /\ DOMAIN w.filter = 1 .. Len(w.filter) /\ DOMAIN w.mask = 1 .. Len(w.filter)
         /\ DOMAIN Sect!Negated(w) = 1 .. Len(w.filter)
         /\ w # Sect!Nothing
<1>1. /\ Len(w.filter) \in 1 .. 4 /\ w.filter \in Seq(Nat)
      /\ w.mask \in Seq({0, 1}) /\ Len(w.mask) = Len(w.filter)
      /\ w.negmask \in Seq({0, 1}) /\ Len(w.negmask) \in {0, Len(w.filter)}
      /\ DOMAIN w = {"filter", "mask", "negmask"}
  BY SectionsAssumption
<1>2. DOMAIN Sect!Nothing = {"kind"}
  BY DEF Sect!Nothing
<1>3. Sect!Negated(w) \in Seq({0, 1}) /\ Len(Sect!Negated(w)) = Len(w.filter)
  <2>1. CASE w.negmask = <<>>
    <3>1. Sect!Negated(w) = [i \in 1 .. Len(w.filter) |-> 0]
      BY <2>1 DEF Sect!Negated, Sect!Pad
    <3> QED
      BY <1>1, <3>1
  <2>2. CASE w.negmask # <<>>
    <3>1. Len(w.negmask) # 0
      BY <1>1, <2>2
    <3> QED
      BY <1>1, <2>2, <3>1 DEF Sect!Negated
  <2> QED
    BY <2>1, <2>2
<1>4. w # Sect!Nothing
  BY <1>1, <1>2
<1>5. \A x : \A s \in Seq(x) : DOMAIN s = 1 .. Len(s)
  OBVIOUS
<1> QED
  BY <1>1, <1>3, <1>4, <1>5

(* The driver of DVB skips the length, and what is padded does not count. *)
LEMMA DvbMatches ==
  ASSUME NEW w \in Wishes, NEW bytes
  PROVE  Sect!Matches(4, Sect!Pad(w.filter, 4), Sect!Pad(w.mask, 4),
                      Sect!Pad(Sect!Negated(w), 4), bytes)
           <=> Sect!Matches(Len(w.filter), w.filter, w.mask, Sect!Negated(w), bytes)
<1> DEFINE n == Len(w.filter)
           neg == Sect!Negated(w)
           wide(m) == {i \in 1 .. 4 : Sect!Pad(w.mask, 4)[i] = 1 /\ Sect!Pad(neg, 4)[i] = m}
           counts(m) == {i \in 1 .. n : w.mask[i] = 1 /\ neg[i] = m}
<1>1. /\ n \in 1 .. 4 /\ DOMAIN w.filter = 1 .. n /\ DOMAIN w.mask = 1 .. n /\ DOMAIN neg = 1 .. n
  BY WishIs
<1> HIDE DEF n, neg
<1>2. \A i \in 1 .. 4 :
        /\ Sect!Pad(w.filter, 4)[i] = IF i \in 1 .. n THEN w.filter[i] ELSE 0
        /\ Sect!Pad(w.mask, 4)[i] = IF i \in 1 .. n THEN w.mask[i] ELSE 0
        /\ Sect!Pad(neg, 4)[i] = IF i \in 1 .. n THEN neg[i] ELSE 0
  BY <1>1, PadIs
<1>3. \A m : wide(m) = counts(m)
  BY <1>1, <1>2
<1>4. \A m : \A i \in counts(m) : Sect!Pad(w.filter, 4)[i] = w.filter[i]
  BY <1>1, <1>2
<1>5. Sect!Matches(4, Sect!Pad(w.filter, 4), Sect!Pad(w.mask, 4), Sect!Pad(neg, 4), bytes)
        <=> /\ \A i \in wide(0) : bytes[i] = Sect!Pad(w.filter, 4)[i]
            /\ wide(1) # {} => \E i \in wide(1) : bytes[i] # Sect!Pad(w.filter, 4)[i]
  BY ONLY DEF Sect!Matches, wide
<1>6. Sect!Matches(n, w.filter, w.mask, neg, bytes)
        <=> /\ \A i \in counts(0) : bytes[i] = w.filter[i]
            /\ counts(1) # {} => \E i \in counts(1) : bytes[i] # w.filter[i]
  BY ONLY DEF Sect!Matches, counts
<1> HIDE DEF wide, counts
<1>7. Sect!Matches(4, Sect!Pad(w.filter, 4), Sect!Pad(w.mask, 4), Sect!Pad(neg, 4), bytes)
        <=> Sect!Matches(n, w.filter, w.mask, neg, bytes)
  BY <1>3, <1>4, <1>5, <1>6
<1> QED
  BY <1>7 DEF n, neg

(* That of the Tripledragon is told to pass over it. *)
LEMMA TripleMatches ==
  ASSUME NEW w \in Wishes, NEW s \in Sections, NEW to
  PROVE  Sect!Matches(Sect!TripleFilter(w, to).length, Sect!Spread(w.filter), Sect!Spread(w.mask),
                      Sect!Spread(Sect!Negated(w)), s.bytes)
           <=> Sect!Matches(Len(w.filter), w.filter, w.mask, Sect!Negated(w), Sect!Behind(s.bytes))
<1> DEFINE n == Len(w.filter)
           neg == Sect!Negated(w)
           long == Sect!TripleFilter(w, to).length
           at(i) == IF i = 1 THEN 1 ELSE i + 2
           wide(m) == {i \in 1 .. long : Sect!Spread(w.mask)[i] = 1 /\ Sect!Spread(neg)[i] = m}
           counts(m) == {i \in 1 .. n : w.mask[i] = 1 /\ neg[i] = m}
<1>1. /\ n \in 1 .. 4 /\ DOMAIN w.filter = 1 .. n /\ DOMAIN w.mask = 1 .. n /\ DOMAIN neg = 1 .. n
      /\ w.filter \in Seq(Nat) /\ w.mask \in Seq({0, 1}) /\ neg \in Seq({0, 1})
      /\ Len(w.mask) = n /\ Len(neg) = n
  BY WishIs
<1>2. long \in Nat /\ n + 2 <= long /\ long <= 6
  <2>1. long = LET even == ((n + 3) \div 2) * 2 IN IF even > 6 THEN 6 ELSE even
    BY DEF Sect!TripleFilter, Sect!FilterSize
  <2>2. CASE n = 1
    <3>1. ((n + 3) \div 2) * 2 = 4
      BY ONLY <2>2
    <3> QED
      BY <2>1, <2>2, <3>1
  <2>3. CASE n = 2
    <3>1. ((n + 3) \div 2) * 2 = 4
      BY ONLY <2>3
    <3> QED
      BY <2>1, <2>3, <3>1
  <2>4. CASE n = 3
    <3>1. ((n + 3) \div 2) * 2 = 6
      BY ONLY <2>4
    <3> QED
      BY <2>1, <2>4, <3>1
  <2>5. CASE n = 4
    <3>1. ((n + 3) \div 2) * 2 = 6
      BY ONLY <2>5
    <3> QED
      BY <2>1, <2>5, <3>1
  <2>6. n = 1 \/ n = 2 \/ n = 3 \/ n = 4
    BY ONLY <1>1
  <2> QED
    BY <2>2, <2>3, <2>4, <2>5, <2>6
<1>3. ASSUME NEW W, NEW b \in Seq(W), Len(b) = n
      PROVE  \A i \in 1 .. 6 : Sect!Spread(b)[i] =
               IF i = 1 THEN b[1] ELSE IF i \in 4 .. n + 2 THEN b[i - 2] ELSE 0
  <2> DEFINE c == <<b[1], 0, 0>> \o Tail(b)
  <2>1. Tail(b) \in Seq(W \cup {0}) /\ Len(Tail(b)) = n - 1
        /\ \A i \in 1 .. n - 1 : Tail(b)[i] = b[i + 1]
    <3>0. n \in 1 .. 4 /\ Len(b) = n
      BY <1>1, <1>3
    <3> HIDE DEF n
    <3>1. b # <<>>
      BY ONLY <3>0
    <3>2. Len(b) \in Nat /\ DOMAIN b = 1 .. Len(b) /\ \A i \in 1 .. Len(b) : b[i] \in W
      BY <1>3
    <3>3. \A i \in 1 .. Len(b) : b[i] \in W \cup {0}
      BY <3>2
    <3>4. b = [i \in 1 .. Len(b) |-> b[i]]
      BY <1>3
    <3>5. b \in Seq(W \cup {0})
      BY ONLY <3>2, <3>3, <3>4, SeqDef
    <3> QED
      BY ONLY <3>1, <3>5, <1>3, HeadTailProperties
  <2>2. <<b[1], 0, 0>> \in Seq(W \cup {0})
    BY <1>1, <1>3
  <2>3. /\ c \in Seq(W \cup {0}) /\ Len(c) = n + 2
        /\ \A i \in 1 .. n + 2 : c[i] = IF i <= 3 THEN <<b[1], 0, 0>>[i] ELSE Tail(b)[i - 3]
    BY <2>1, <2>2, <1>1, ConcatProperties
  <2>4. DOMAIN c = 1 .. n + 2
    BY <2>3
  <2>5. \A i \in 1 .. n + 2 : c[i] =
          IF i = 1 THEN b[1] ELSE IF i \in 4 .. n + 2 THEN b[i - 2] ELSE 0
    <3>1. \A i \in 4 .. n + 2 : i - 3 \in 1 .. n - 1 /\ (i - 3) + 1 = i - 2
      BY <1>1
    <3> QED
      BY <1>1, <2>1, <2>3, <3>1
  <2> HIDE DEF c
  <2>6. \A i \in 1 .. 6 : Sect!Pad(c, 6)[i] = IF i \in DOMAIN c THEN c[i] ELSE 0
    BY PadIs
  <2>7. Sect!Spread(b) = Sect!Pad(c, 6)
    BY DEF Sect!Spread, Sect!FilterSize, c
  <2>8. \A i \in 1 .. 6 : i \in DOMAIN c => i \in 1 .. n + 2
    BY <2>4
  <2>9. \A i \in 1 .. 6 : i \notin DOMAIN c => i # 1 /\ i \notin 4 .. n + 2
    BY <1>1, <2>4
  <2>10. ASSUME NEW i \in 1 .. 6
         PROVE  Sect!Pad(c, 6)[i] =
                  IF i = 1 THEN b[1] ELSE IF i \in 4 .. n + 2 THEN b[i - 2] ELSE 0
    <3>1. CASE i \in DOMAIN c
      BY <2>5, <2>6, <2>8, <3>1
    <3>2. CASE i \notin DOMAIN c
      BY <2>6, <2>9, <3>2
    <3> QED
      BY <3>1, <3>2
  <2> QED
    BY <2>7, <2>10
<1>4. \A i \in 1 .. 6 :
        /\ Sect!Spread(w.filter)[i] =
             IF i = 1 THEN w.filter[1] ELSE IF i \in 4 .. n + 2 THEN w.filter[i - 2] ELSE 0
        /\ Sect!Spread(w.mask)[i] =
             IF i = 1 THEN w.mask[1] ELSE IF i \in 4 .. n + 2 THEN w.mask[i - 2] ELSE 0
        /\ Sect!Spread(neg)[i] =
             IF i = 1 THEN neg[1] ELSE IF i \in 4 .. n + 2 THEN neg[i - 2] ELSE 0
  BY <1>1, <1>3
<1>5. \A i \in 1 .. n : Sect!Behind(s.bytes)[i] = s.bytes[at(i)]
  <2> DEFINE b == s.bytes
             c == <<b[1]>> \o SubSeq(b, 4, Len(b))
  <2>1. b \in Seq(Nat) /\ Len(b) >= 6 /\ Len(b) \in Nat
    BY SectionsAssumption
  <2> HIDE DEF b
  <2>2. /\ SubSeq(b, 4, Len(b)) \in Seq(Nat) /\ Len(SubSeq(b, 4, Len(b))) = Len(b) - 3
        /\ \A i \in 1 .. Len(b) - 3 : SubSeq(b, 4, Len(b))[i] = b[i + 3]
    BY <2>1
  <2>3. \A i \in 1 .. Len(b) - 2 : c[i] =
          IF i <= 1 THEN <<b[1]>>[i] ELSE SubSeq(b, 4, Len(b))[i - 1]
    BY <2>1, <2>2, ConcatProperties
  <2>4. ASSUME NEW i \in 1 .. n PROVE c[i] = b[at(i)]
    <3> HIDE DEF c
    <3>0. n \in 1 .. 4 /\ i \in 1 .. n
      BY <1>1
    <3> HIDE DEF n
    <3>1. i \in 1 .. Len(b) - 2 /\ i \in Nat
      BY ONLY <3>0, <2>1
    <3>2. CASE i = 1
      <4>1. at(i) = 1
        BY <3>2
      <4>2. c[i] = <<b[1]>>[1]
        BY <2>3, <3>1, <3>2
      <4> QED
        BY <4>1, <4>2
    <3>3. CASE i # 1
      <4>1. at(i) = i + 2 /\ i - 1 \in 1 .. Len(b) - 3 /\ (i - 1) + 3 = i + 2 /\ ~(i <= 1)
        BY <2>1, <3>1, <3>3
      <4>2. c[i] = SubSeq(b, 4, Len(b))[i - 1]
        BY <2>3, <3>1, <4>1
      <4>3. SubSeq(b, 4, Len(b))[i - 1] = b[(i - 1) + 3]
        BY <2>2, <4>1
      <4> QED
        BY <4>1, <4>2, <4>3
    <3> QED
      BY <3>2, <3>3
  <2> QED
    BY <2>4 DEF Sect!Behind, b
<1> HIDE DEF n, neg, long
<1>6. \A m \in {0, 1} : \A i \in 1 .. n : i \in counts(m) => at(i) \in wide(m)
  BY <1>1, <1>2, <1>4
<1>7. \A m \in {0, 1} : \A j \in wide(m) : \E i \in counts(m) : j = at(i)
  <2> SUFFICES ASSUME NEW m \in {0, 1}, NEW j \in wide(m) PROVE \E i \in counts(m) : j = at(i)
    OBVIOUS
  <2>1. j = 1 \/ j \in 4 .. n + 2
    BY <1>1, <1>2, <1>4
  <2>2. CASE j = 1
    <3>1. 1 \in counts(m) /\ at(1) = 1
      BY <1>1, <1>2, <1>4, <2>2
    <3> QED
      BY <2>2, <3>1
  <2>3. CASE j \in 4 .. n + 2
    <3>1. j - 2 \in 1 .. n /\ j # 1 /\ j - 2 # 1 /\ j \in 1 .. 6
      BY <1>1, <2>3
    <3>2. at(j - 2) = j
      BY <1>1, <3>1
    <3>3. Sect!Spread(w.mask)[j] = w.mask[j - 2] /\ Sect!Spread(neg)[j] = neg[j - 2]
      BY <1>4, <2>3, <3>1
    <3>4. j - 2 \in counts(m)
      BY <3>1, <3>3
    <3> QED
      BY <3>2, <3>4
  <2> QED
    BY <2>1, <2>2, <2>3
<1>8. ASSUME NEW i \in 1 .. n PROVE Sect!Spread(w.filter)[at(i)] = w.filter[i]
  <2>1. CASE i = 1
    BY <1>4, <2>1
  <2>2. CASE i # 1
    <3>1. at(i) = i + 2 /\ i + 2 # 1 /\ i + 2 \in 1 .. 6 /\ i + 2 \in 4 .. n + 2
          /\ (i + 2) - 2 = i
      BY <1>1, <2>2
    <3>2. Sect!Spread(w.filter)[i + 2] = w.filter[(i + 2) - 2]
      BY <1>4, <3>1
    <3> QED
      BY <3>1, <3>2
  <2> QED
    BY <2>1, <2>2
<1>9. Sect!Matches(long, Sect!Spread(w.filter), Sect!Spread(w.mask), Sect!Spread(neg), s.bytes)
        <=> /\ \A i \in wide(0) : s.bytes[i] = Sect!Spread(w.filter)[i]
            /\ wide(1) # {} => \E i \in wide(1) : s.bytes[i] # Sect!Spread(w.filter)[i]
  BY ONLY DEF Sect!Matches, wide
<1>10. Sect!Matches(n, w.filter, w.mask, neg, Sect!Behind(s.bytes))
        <=> /\ \A i \in counts(0) : Sect!Behind(s.bytes)[i] = w.filter[i]
            /\ counts(1) # {} => \E i \in counts(1) : Sect!Behind(s.bytes)[i] # w.filter[i]
  BY ONLY DEF Sect!Matches, counts
<1>11. \A m : counts(m) \subseteq 1 .. n
  OBVIOUS
<1> HIDE DEF wide, counts, at
<1>12. Sect!Matches(long, Sect!Spread(w.filter), Sect!Spread(w.mask), Sect!Spread(neg), s.bytes)
        <=> Sect!Matches(n, w.filter, w.mask, neg, Sect!Behind(s.bytes))
  BY <1>5, <1>6, <1>7, <1>8, <1>9, <1>10, <1>11
<1> QED
  BY <1>12 DEF n, neg, long

(* The time limit of a filter is the caller's, or the table's own.         *)
LEMMA LimitIs ==
  ASSUME NEW w \in Wishes, NEW to \in Timeouts
  PROVE  /\ Sect!TableTimeout(Sect!Tid(w)) \in Nat
         /\ Sect!DvbTimeout(w, to) \in Nat /\ Sect!TripleTimeout(w, to) \in Nat
         /\ Sect!DvbTimeout(w, to) > 0 =>
              to > 0 \/ (Sect!TableTimeout(Sect!Tid(w)) > 0 /\ w.negmask = <<>>)
         /\ Sect!TripleTimeout(w, to) > 0 => to > 0 \/ Sect!TableTimeout(Sect!Tid(w)) > 0
<1>1. \A t : Sect!TableTimeout(t) \in Nat
  BY DEF Sect!TableTimeout
<1>2. to \in Nat
  BY SectionsAssumption
<1> QED
  BY <1>1, <1>2 DEF Sect!DvbTimeout, Sect!TripleTimeout

(* The filter of the driver is the one made of what was asked for last.    *)
Made ==
  /\ wish \in Wishes
  /\ \/ port = "triple" /\ flt = Sect!TripleFilter(wish, patience)
     \/ /\ port # "triple"
        /\ \E once \in BOOLEAN : flt = Sect!DvbFilter(wish, patience, once)

SectInv ==
  /\ port \in Ports /\ go \in BOOLEAN /\ lostlock \in BOOLEAN /\ changed \in BOOLEAN
  /\ timer \in {"off", "on", "expired"} /\ reader \in {"idle", "polling", "reading"}
  /\ queue \in {<<>>} \cup {<<s>> : s \in Sections}
  /\ limit \in Timeouts /\ patience \in Timeouts
  /\ \/ flt = Sect!NoFilter /\ go = FALSE /\ timer = "off" /\ queue = <<>>
     \/ Made
  /\ timer # "off" => flt.timeout > 0
  /\ queue # <<>> => Sect!Wanted(Head(queue))
  /\ Sect!ReadEnds

(* What the driver lets pass is what the caller has asked for.             *)
LEMMA MadeIs ==
  ASSUME Made, patience \in Timeouts
  PROVE  /\ flt.at \in {"behind", "whole"} /\ flt.timeout \in Nat /\ flt # Sect!NoFilter
         /\ \A s \in Sections : Sect!Passes(s) => Sect!Wanted(s)
         /\ flt.timeout > 0 =>
              \/ patience > 0
              \/ Sect!TableTimeout(Sect!Tid(wish)) > 0
                   /\ (wish.negmask = <<>> \/ port = "triple")
<1>1. wish \in Wishes /\ wish # Sect!Nothing
  BY WishIs DEF Made
<1>2. Sect!NoFilter.at = "none"
  BY DEF Sect!NoFilter
<1>3. CASE port = "triple" /\ flt = Sect!TripleFilter(wish, patience)
  <2>1. /\ flt.at = "whole" /\ flt.length = Sect!TripleFilter(wish, patience).length
        /\ flt.filter = Sect!Spread(wish.filter) /\ flt.mask = Sect!Spread(wish.mask)
        /\ flt.mode = Sect!Spread(Sect!Negated(wish)) /\ flt.crc = Sect!HasCrc(Sect!Tid(wish))
        /\ flt.timeout = Sect!TripleTimeout(wish, patience)
    BY <1>3 DEF Sect!TripleFilter
  <2>2. ASSUME NEW s \in Sections, Sect!Passes(s)
        PROVE  Sect!Wanted(s)
    <3>1. /\ Sect!Matches(flt.length, flt.filter, flt.mask, flt.mode, s.bytes)
          /\ flt.crc => s.good
      BY <2>1, <2>2 DEF Sect!Passes
    <3>2. Sect!Matches(Len(wish.filter), wish.filter, wish.mask, Sect!Negated(wish),
                       Sect!Behind(s.bytes))
      BY <1>1, <2>1, <3>1, TripleMatches
    <3> QED
      BY <1>1, <2>1, <3>1, <3>2 DEF Sect!Wanted
  <2> QED
    BY <1>1, <1>2, <1>3, <2>1, <2>2, LimitIs
<1>4. CASE port # "triple" /\ \E once \in BOOLEAN : flt = Sect!DvbFilter(wish, patience, once)
  <2>1. PICK once \in BOOLEAN : flt = Sect!DvbFilter(wish, patience, once)
    BY <1>4
  <2>2. /\ flt.at = "behind" /\ flt.length = 4
        /\ flt.filter = Sect!Pad(wish.filter, 4) /\ flt.mask = Sect!Pad(wish.mask, 4)
        /\ flt.mode = Sect!Pad(Sect!Negated(wish), 4) /\ flt.crc = Sect!HasCrc(Sect!Tid(wish))
        /\ flt.timeout = Sect!DvbTimeout(wish, patience)
    BY <2>1 DEF Sect!DvbFilter, Sect!FilterSize
  <2>3. ASSUME NEW s \in Sections, Sect!Passes(s)
        PROVE  Sect!Wanted(s)
    <3>1. /\ Sect!Matches(flt.length, flt.filter, flt.mask, flt.mode, Sect!Behind(s.bytes))
          /\ flt.crc => s.good
      BY <2>2, <2>3 DEF Sect!Passes
    <3>2. Sect!Matches(Len(wish.filter), wish.filter, wish.mask, Sect!Negated(wish),
                       Sect!Behind(s.bytes))
      BY <1>1, <2>2, <3>1, DvbMatches
    <3> QED
      BY <1>1, <2>2, <3>1, <3>2 DEF Sect!Wanted
  <2> QED
    BY <1>1, <1>2, <2>2, <2>3, LimitIs
<1> QED
  BY <1>3, <1>4 DEF Made

(* No filter is set, and nobody reads.                                     *)
LEMMA SectInit == Sect!Init => SectInv
<1> SUFFICES ASSUME Sect!Init PROVE SectInv
  OBVIOUS
<1>1. 0 \in Timeouts
  BY SectionsAssumption
<1> QED
  BY <1>1 DEF Sect!Init, SectInv, Sect!ReadEnds

(* sectionFilter. *)
LEMMA SectSets ==
  ASSUME SectInv, NEW w \in Wishes, NEW to \in Timeouts, NEW f, Sect!Sets(w, to, f),
         \/ port = "triple" /\ f = Sect!TripleFilter(w, to)
         \/ port # "triple" /\ \E once \in BOOLEAN : f = Sect!DvbFilter(w, to, once)
  PROVE  SectInv'
<1>1. /\ flt' = f /\ go' = TRUE /\ lostlock' = FALSE /\ queue' = <<>>
      /\ timer' = (IF f.timeout > 0 THEN "on" ELSE "off")
      /\ wish' = w /\ patience' = to
      /\ changed' = (changed \/ reader = "reading")
      /\ port' = port /\ reader' = reader /\ limit' = limit
  BY DEF Sect!Sets
<1>2. Made'
  BY <1>1 DEF Made
<1>3. timer' # "off" => flt'.timeout > 0
  BY <1>1
<1>4. changed' \in BOOLEAN
  BY <1>1
<1>5. Sect!ReadEnds'
  BY <1>1 DEF Sect!ReadEnds
<1>6. timer' \in {"off", "on", "expired"}
  BY <1>1
<1> QED
  BY <1>1, <1>2, <1>3, <1>4, <1>5, <1>6 DEF SectInv

(* The calls that leave the filter as it is. *)
LEMMA SectUser ==
  ASSUME SectInv, Sect!Stops \/ Sect!Start
  PROVE  SectInv'
<1>1. /\ flt' = flt /\ port' = port /\ wish' = wish /\ patience' = patience
      /\ reader' = reader /\ limit' = limit
      /\ changed' = (changed \/ reader = "reading")
      /\ go' \in BOOLEAN /\ lostlock' \in BOOLEAN
      /\ timer' \in {"off", "on"} /\ (timer' # "off" => flt.timeout > 0)
      /\ queue' \in {queue, <<>>}
  BY DEF Sect!Stops, Sect!Start, Sect!asked, SectInv
<1>2. (flt = Sect!NoFilter /\ go = FALSE /\ timer = "off" /\ queue = <<>>) =>
        go' = FALSE /\ timer' = "off" /\ queue' = <<>>
  BY DEF Sect!Stops, Sect!Start
<1>3. Made => Made'
  BY <1>1 DEF Made
<1>4. changed' \in BOOLEAN
  BY <1>1
<1>5. Sect!ReadEnds'
  BY <1>1 DEF Sect!ReadEnds
<1>6. \A s : Sect!Wanted(s)' <=> Sect!Wanted(s)
  BY <1>1 DEF Sect!Wanted
<1>7. queue' # <<>> => Sect!Wanted(Head(queue))'
  BY <1>1, <1>6 DEF SectInv
<1> QED
  BY <1>1, <1>2, <1>3, <1>4, <1>5, <1>7 DEF SectInv

(* The driver. *)
LEMMA SectDriver ==
  ASSUME SectInv, (\E s \in Sections : Sect!Arrives(s)) \/ Sect!Expires \/ Sect!LosesSignal
  PROVE  SectInv'
<1>1. /\ flt' = flt /\ port' = port /\ wish' = wish /\ patience' = patience
      /\ reader' = reader /\ limit' = limit /\ changed' = changed
  BY DEF Sect!Arrives, Sect!Expires, Sect!LosesSignal, Sect!asked, Sect!reading
<1>2. Made => Made'
  BY <1>1 DEF Made
<1>3. \A s : Sect!Wanted(s)' <=> Sect!Wanted(s)
  BY <1>1 DEF Sect!Wanted
<1>4. CASE \E s \in Sections : Sect!Arrives(s)
  <2>1. PICK s \in Sections : Sect!Arrives(s)
    BY <1>4
  <2>2. /\ go = TRUE /\ Sect!Passes(s) /\ queue' = <<s>> /\ timer' = "off"
        /\ go' = ~flt.oneshot /\ lostlock' = lostlock
    BY <2>1 DEF Sect!Arrives, SectInv
  <2>3. Made
    BY <2>2 DEF SectInv
  <2>4. Sect!Wanted(s)
    BY <2>2, <2>3, MadeIs DEF SectInv
  <2>5. queue' \in {<<>>} \cup {<<t>> : t \in Sections} /\ queue' # <<>> /\ Head(queue') = s
    BY <2>2
  <2>6. go' \in BOOLEAN
    BY <2>2
  <2>7. Sect!ReadEnds'
    BY <2>5 DEF Sect!ReadEnds, Sect!Ready
  <2> QED
    BY <1>1, <1>2, <1>3, <2>2, <2>3, <2>4, <2>5, <2>6, <2>7 DEF SectInv
<1>5. CASE Sect!Expires
  <2>1. /\ timer = "on" /\ timer' = "expired" /\ go' = FALSE
        /\ queue' = queue /\ lostlock' = lostlock
    BY <1>5 DEF Sect!Expires
  <2>2. Made
    BY <2>1 DEF SectInv
  <2>3. Sect!ReadEnds'
    BY <2>1 DEF Sect!ReadEnds, Sect!Ready
  <2> QED
    BY <1>1, <1>2, <1>3, <2>1, <2>2, <2>3 DEF SectInv
<1>6. CASE Sect!LosesSignal
  <2>1. lostlock' = TRUE /\ timer' = timer /\ go' = go /\ queue' = queue
    BY <1>6 DEF Sect!LosesSignal
  <2>2. Sect!ReadEnds'
    BY <1>1, <2>1 DEF SectInv, Sect!ReadEnds, Sect!Ready
  <2> QED
    BY <1>1, <1>2, <1>3, <2>1, <2>2 DEF SectInv
<1> QED
  BY <1>4, <1>5, <1>6

(* Read. *)
LEMMA SectReads ==
  ASSUME SectInv, (\E to \in Timeouts : Sect!ReadBegins(to)) \/ Sect!ReadGoesOn
  PROVE  SectInv'
<1>1. /\ flt' = flt /\ port' = port /\ wish' = wish /\ patience' = patience
      /\ go' = go /\ lostlock' = lostlock
  BY DEF Sect!ReadBegins, Sect!ReadGoesOn, Sect!PollReady, Sect!PollTimeout,
         Sect!ReadSection, Sect!ReadExpired, Sect!asked, Sect!driver
<1>2. Made => Made'
  BY <1>1 DEF Made
<1>3. \A s : Sect!Wanted(s)' <=> Sect!Wanted(s)
  BY <1>1 DEF Sect!Wanted
<1>4. ASSUME timer' \in {timer, "off"}, queue' \in {queue, <<>>},
             reader' \in {"idle", "polling", "reading"}, limit' \in Timeouts,
             changed' \in BOOLEAN, Sect!ReadEnds'
      PROVE  SectInv'
  <2>1. queue' # <<>> => Sect!Wanted(Head(queue))'
    BY <1>3, <1>4 DEF SectInv
  <2> QED
    BY <1>1, <1>2, <1>4, <2>1 DEF SectInv
<1>5. CASE \E to \in Timeouts : Sect!ReadBegins(to)
  <2>1. PICK to \in Timeouts : Sect!ReadBegins(to)
    BY <1>5
  <2>2. /\ limit' = to /\ changed' = FALSE /\ timer' = timer /\ queue' = queue
        /\ reader' = (IF Sect!PollTime(to) > 0 THEN "polling" ELSE "reading")
    BY <2>1 DEF Sect!ReadBegins, Sect!driver
  <2>3. to \in Nat
    BY SectionsAssumption
  <2>4. reader' = "reading" => to = 0 /\ port \notin {"spark", "azbox"}
    BY <2>2, <2>3 DEF Sect!PollTime, Sect!Exits, Sect!Emergency
  <2>5. Sect!ReadEnds'
    BY <1>1, <2>2, <2>4 DEF Sect!ReadEnds
  <2>6. reader' \in {"idle", "polling", "reading"}
    BY <2>2
  <2> QED
    BY <1>4, <2>2, <2>5, <2>6
<1>6. CASE Sect!PollReady
  <2>1. /\ limit' = limit /\ changed' = changed /\ timer' = timer /\ queue' = queue
        /\ reader' = "reading" /\ Sect!Ready
    BY <1>6 DEF Sect!PollReady, Sect!driver
  <2>2. Sect!ReadEnds'
    BY <2>1 DEF Sect!ReadEnds, Sect!Ready
  <2> QED
    BY <1>4, <2>1, <2>2 DEF SectInv
<1>7. CASE Sect!PollTimeout \/ Sect!ReadSection \/ Sect!ReadExpired
  <2>1. /\ limit' = limit /\ changed' = changed /\ reader' = "idle"
        /\ timer' \in {timer, "off"} /\ queue' \in {queue, <<>>}
    BY <1>7 DEF Sect!PollTimeout, Sect!ReadSection, Sect!ReadExpired,
                Sect!Returns, Sect!driver
  <2>2. Sect!ReadEnds'
    BY <2>1 DEF Sect!ReadEnds
  <2> QED
    BY <1>4, <2>1, <2>2 DEF SectInv
<1> QED
  BY <1>5, <1>6, <1>7 DEF Sect!ReadGoesOn

(* Every step of Sections.                                                 *)
LEMMA SectStep ==
  ASSUME SectInv, [Sect!Next]_(Sect!vars)
  PROVE  SectInv'
<1>1. CASE Sect!User
  <2>1. CASE Sect!Refused \/ Sect!Start \/ Sect!Stop
    BY <2>1, SectUser DEF Sect!Refused, Sect!Stop
  <2>2. CASE \E w \in Wishes, to \in Timeouts :
               \/ Sect!SparkSectionFilter(w, to) \/ Sect!AzboxSectionFilter(w, to)
               \/ Sect!PcSectionFilter(w, to) \/ Sect!RaspiSectionFilter(w, to)
               \/ Sect!TripleSectionFilter(w, to)
    <3>1. PICK w \in Wishes, to \in Timeouts :
               \/ Sect!SparkSectionFilter(w, to) \/ Sect!AzboxSectionFilter(w, to)
               \/ Sect!PcSectionFilter(w, to) \/ Sect!RaspiSectionFilter(w, to)
               \/ Sect!TripleSectionFilter(w, to)
      BY <2>2
    <3>2. CASE Sect!TripleSectionFilter(w, to)
      BY <3>2, SectSets DEF Sect!TripleSectionFilter
    <3>3. CASE Sect!SparkSectionFilter(w, to) \/ Sect!AzboxSectionFilter(w, to)
      <4>1. port # "triple" /\ Sect!Sets(w, to, Sect!DvbFilter(w, to, TRUE))
        BY <3>3 DEF Sect!SparkSectionFilter, Sect!AzboxSectionFilter
      <4> QED
        BY <4>1, SectSets
    <3>4. CASE Sect!PcSectionFilter(w, to) \/ Sect!RaspiSectionFilter(w, to)
      <4>1. port # "triple" /\ Sect!Sets(w, to, Sect!DvbFilter(w, to, FALSE))
        BY <3>4 DEF Sect!PcSectionFilter, Sect!RaspiSectionFilter
      <4> QED
        BY <4>1, SectSets
    <3> QED
      BY <3>1, <3>2, <3>3, <3>4
  <2> QED
    BY <1>1, <2>1, <2>2 DEF Sect!User
<1>2. CASE UNCHANGED Sect!vars
  <2>1. /\ port' = port /\ flt' = flt /\ go' = go /\ timer' = timer /\ queue' = queue
        /\ lostlock' = lostlock /\ wish' = wish /\ patience' = patience
        /\ reader' = reader /\ limit' = limit /\ got' = got /\ changed' = changed
    BY <1>2 DEF Sect!vars, Sect!driver, Sect!asked, Sect!reading
  <2>2. \A s : Sect!Wanted(s)' <=> Sect!Wanted(s)
    BY <2>1 DEF Sect!Wanted
  <2>3. (Made => Made') /\ (Sect!ReadEnds => Sect!ReadEnds')
    BY <2>1 DEF Made, Sect!ReadEnds, Sect!Ready
  <2> QED
    BY <2>1, <2>2, <2>3 DEF SectInv
<1> QED
  BY <1>1, <1>2, SectDriver, SectReads DEF Sect!Next

(* The driver's filter is well formed, and its timer has time.             *)
LEMMA SectTyped == SectInv => Sect!TypeOK
<1> SUFFICES ASSUME SectInv PROVE Sect!TypeOK
  OBVIOUS
<1>1. CASE flt = Sect!NoFilter /\ go = FALSE /\ timer = "off" /\ queue = <<>>
  <2>1. flt.at = "none" /\ flt.timeout = 0
    BY <1>1 DEF Sect!NoFilter
  <2> QED
    BY <1>1, <2>1 DEF SectInv, Sect!TypeOK
<1>2. CASE Made
  <2>1. flt.at \in {"behind", "whole"} /\ flt.timeout \in Nat /\ flt # Sect!NoFilter
    BY <1>2, MadeIs DEF SectInv
  <2> QED
    BY <2>1 DEF SectInv, Sect!TypeOK
<1> QED
  BY <1>1, <1>2 DEF SectInv

(* Read brings what was asked for, and fails only where it may.            *)
LEMMA SectSafe == SectInv => Sect!ReadIsRight
<1> SUFFICES ASSUME SectInv PROVE Sect!ReadIsRight
  OBVIOUS
<1>1. Sect!ReadSection => Sect!Wanted(got'.section)
  <2> SUFFICES ASSUME Sect!ReadSection PROVE Sect!Wanted(got'.section)
    OBVIOUS
  <2>1. queue # <<>> /\ got' = [kind |-> "section", section |-> Head(queue)]
    BY DEF Sect!ReadSection, Sect!Returns
  <2>2. got'.section = Head(queue)
    BY <2>1
  <2> QED
    BY <2>1, <2>2 DEF SectInv
<1>2. Sect!ReadExpired =>
        \/ patience > 0
        \/ Sect!TableTimeout(Sect!Tid(wish)) > 0 /\ (wish.negmask = <<>> \/ port = "triple")
  <2> SUFFICES ASSUME Sect!ReadExpired
               PROVE  \/ patience > 0
                      \/ Sect!TableTimeout(Sect!Tid(wish)) > 0
                           /\ (wish.negmask = <<>> \/ port = "triple")
    OBVIOUS
  <2>1. timer = "expired"
    BY DEF Sect!ReadExpired
  <2>2. Made /\ flt.timeout > 0
    BY <2>1 DEF SectInv
  <2> QED
    BY <2>2, MadeIs DEF SectInv
<1> QED
  BY <1>1, <1>2 DEF Sect!ReadIsRight

-----------------------------------------------------------------------------
(* The composition: a step of MCRecorder is a step of each view or leaves  *)
(* its variables alone.                                                    *)
MCVars == <<view, vars, triplevars, soundvars, videovars, sectvars>>
LEMMA StepsOfViews ==
  ASSUME [MCNext]_MCVars
  PROVE  /\ [Next]_vars /\ [T!Next]_T!vars /\ [S!Next]_(S!vars)
         /\ [V!Next]_(V!vars) /\ [Sect!Next]_(Sect!vars)
<1>1. [Next]_vars
  BY DEF MCNext, MCVars
<1>2. [T!Next]_T!vars
  BY DEF MCNext, MCVars, triplevars, T!vars, T!callVars, T!dataVars
<1>3. [S!Next]_(S!vars)
  BY DEF MCNext, MCVars, soundvars, S!vars, S!members, S!ghosts, S!overlaps
<1>4. [V!Next]_(V!vars)
  BY DEF MCNext, MCVars, videovars, V!vars, V!members, V!ghosts
<1>5. [Sect!Next]_(Sect!vars)
  BY DEF MCNext, MCVars, sectvars, Sect!vars, Sect!driver, Sect!asked,
         Sect!reading
<1> QED
  BY <1>1, <1>2, <1>3, <1>4, <1>5

ViewsInv == IInv /\ TripleInv /\ SoundInv /\ VideoInv /\ SectInv
LEMMA ViewsInvariance == MCSpec => []ViewsInv
<1>1. MCInit => ViewsInv
  BY InitIInv, TripleInit, SoundInit, VideoInit, SectInit DEF MCInit, ViewsInv
<1>2. ViewsInv /\ [MCNext]_MCVars => ViewsInv'
  BY StepsOfViews, NextIInv, TripleStep, SoundStep, VideoStep, SectStep
     DEF ViewsInv
<1> QED
  BY <1>1, <1>2, PTL DEF MCSpec, MCVars

(* The variables of every view keep to their types.                        *)
THEOREM ViewsTyped == MCSpec => []TypesOK
<1>1. ViewsInv => TypesOK
  BY SoundSafe, VideoSafe, SectTyped DEF ViewsInv, IInv, TripleInv, TypesOK
<1> QED
  BY <1>1, ViewsInvariance, PTL

(* File and buffer of libtriple's recorder are the stream, whatever write  *)
(* leaves over, and in the end all of it is in the file.                   *)
THEOREM TripleStreamUnbroken == MCSpec => []Unbroken
<1>1. ViewsInv => Unbroken
  BY DEF ViewsInv, TripleInv, Unbroken
<1> QED
  BY <1>1, ViewsInvariance, PTL

(* SetVolume, SetMute and the calls about clips: at rest volume and mute   *)
(* are what was asked for on whatever device plays, unless calls of the    *)
(* two threads overlapped.  Start, Stop, ShowPicture, Standby and the      *)
(* player's use of the device: device, picture and output are what the     *)
(* calls made them.                                                        *)
THEOREM DecodersAreFollowed == MCSpec => []DecodersFollow
<1>1. ViewsInv => DecodersFollow
  BY SoundSafe, VideoSafe DEF ViewsInv, DecodersFollow
<1> QED
  BY <1>1, ViewsInvariance, PTL

(* sectionFilter and Read: whatever filters are asked for and sections     *)
(* sent, Read brings a section that the last filter asks for, fails only   *)
(* where there is a time limit, and does not wait for ever.                *)
THEOREM SectionsAreRead == MCSpec => SectionsAreWanted
<1>1. ViewsInv /\ ViewsInv' /\ [MCNext]_MCVars
        => [Sect!ReadIsRight /\ Sect!ReadEnds']_(Sect!vars)
  BY SectSafe DEF ViewsInv, SectInv
<1> QED
  BY <1>1, ViewsInvariance, PTL
     DEF MCSpec, MCVars, SectionsAreWanted, Sect!SectionsAreWanted
=============================================================================
