-------------------------- MODULE PcDecoderProofs --------------------------
(***************************************************************************)
(* TLAPS proofs about PcDecoder, for rings of any size, any number of      *)
(* threads and any number of frames.                                       *)
(*                                                                         *)
(* The ring is emptied in three places without buf_m.  As long as that has *)
(* not happened under the hands of the one who has it, the indices and the *)
(* frames between them are what they should be: the invariant follows the  *)
(* order of the frames round the ring, and how many may still go in before *)
(* the slot that is being uploaded without a lock.                         *)
(***************************************************************************)
EXTENDS PcDecoder, FiniteSetTheorems, TLAPS

(* How far slot i is behind slot j, going round the ring. *)
Gap(i, j) == IF i >= j THEN i - j ELSE i - j + MaxBufs
Succ(i) == IF i = MaxBufs - 1 THEN 0 ELSE i + 1

Places ==
  /\ which \in {"video", "audio"} /\ tid \in Threads
  /\ th \in [Threads -> {"none", "begun", "flag", "open", "loop", "frame", "insert",
                         "count", "out", "ended"}]
  /\ user \in {"idle", "joining", "picture", "drawing"}
  /\ running \in BOOLEAN /\ wanted \in BOOLEAN /\ stillpicture \in BOOLEAN
  /\ raced \in BOOLEAN /\ missed \in BOOLEAN

(* Who has the mutexes is where the code holds them, and a thread that     *)
(* inserts a frame has seen that there is no still picture, and none comes *)
(* while it has still_m.                                                   *)
Mutexes ==
  /\ still_m \in Threads \cup {"free"} /\ buf_m \in Threads \cup {"free", "user", "render"}
  /\ render \in {"idle", "taking", "uploading"}
  /\ \A t \in Threads : th[t] \in {"insert", "count"} <=> still_m = t
  /\ \A t \in Threads : th[t] = "count" <=> buf_m = t
  /\ user = "drawing" <=> buf_m = "user"
  /\ render = "taking" <=> buf_m = "render"
  /\ still_m # "free" => ~stillpicture

(* The indices agree, and who has buf_m has seen them as they are, unless  *)
(* the ring was emptied in between.                                        *)
Agreed ==
  /\ buf_in \in Slots /\ buf_out \in Slots /\ buf_num \in MinNum .. MaxBufs - 1
  /\ seen \in [num : MinNum .. MaxBufs - 1, in : Slots, out : Slots]
  /\ ~raced => buf_num = Gap(buf_in, buf_out) /\ (buf_m # "free" => seen = Indices)
  /\ render = "taking" => /\ buf_num > MinNum /\ seen.num > MinNum
                          /\ ~raced => buf_num # 0

(* Who is about to make a frame; none is made once the limit is reached. *)
Hands == {t \in Threads : th[t] \in {"frame", "insert"}} \cup
         (IF user = "picture" THEN {"user"} ELSE {})
Numbers ==
  /\ made \in Nat /\ shown \in 0 .. made
  /\ buffers \in [Slots -> [n : Nat, pic : BOOLEAN]] /\ \A i \in Slots : buffers[i].n <= made
  /\ made + Cardinality(Hands) <= MadeLimit

(* The frames of the ring, and the one that is being counted, are newer    *)
(* than what was shown, in order, and pictures while there is a still one. *)
Filling == IF buf_m \in {"free", "render"} THEN 0 ELSE 1
InRing(i) == Gap(i, buf_out) < buf_num + Filling
Ordered ==
  ~raced => \A i \in Slots : InRing(i) =>
    /\ shown < buffers[i].n /\ (stillpicture => buffers[i].pic)
    /\ \A j \in Slots : Gap(i, buf_out) < Gap(j, buf_out) /\ InRing(j) =>
         buffers[i].n < buffers[j].n

(* As many frames as up.room go in before the slot of the upload. *)
Roomy ==
  /\ up \in [slot : Slots, room : Int, reset : BOOLEAN]
  /\ render = "uploading" /\ ~raced /\ ~up.reset =>
       up.room <= 0 \/ up.room = Gap(up.slot, buf_in) - Filling

(* There is the thread of the last Start, and none once Stop has joined it. *)
One == missed \/ (Live \subseteq {tid} /\ (~wanted /\ user # "joining" => Live = {}))

IInv == Places /\ Mutexes /\ Agreed /\ Numbers /\ Ordered /\ Roomy

-----------------------------------------------------------------------------
(* Going round the ring. *)
LEMMA RingArithmetic ==
  ASSUME NEW i \in Slots
  PROVE  (i + 1) % MaxBufs = Succ(i) /\ Succ(i) \in Slots
<1> USE PcAssumption DEF PcAssumption, Slots, Succ
<1>1. CASE i = MaxBufs - 1
  <2>1. i + 1 = MaxBufs /\ MaxBufs > 0
    BY <1>1
  <2>2. MaxBufs % MaxBufs = 0
    BY <2>1
  <2> QED
    BY <1>1, <2>1, <2>2
<1>2. CASE i # MaxBufs - 1
  <2>1. i + 1 \in 0 .. MaxBufs - 1
    BY <1>2
  <2>2. (i + 1) % MaxBufs = i + 1
    BY <2>1
  <2> QED
    BY <1>2, <2>1, <2>2
<1> QED
  BY <1>1, <1>2

LEMMA GapAgrees ==
  ASSUME NEW i \in Slots, NEW j \in Slots
  PROVE  (i - j - Gap(i, j)) % MaxBufs = 0
<1> USE PcAssumption DEF PcAssumption, Slots
<1>1. i - j - Gap(i, j) = 0 \/ i - j - Gap(i, j) = -MaxBufs
  BY DEF Gap
<1>2. 0 % MaxBufs = 0 /\ (-MaxBufs) % MaxBufs = 0
  OBVIOUS
<1> QED
  BY <1>1, <1>2

LEMMA GapMoves ==
  ASSUME NEW i \in Slots, NEW j \in Slots
  PROVE  /\ Gap(i, j) \in Slots /\ (Gap(i, j) = 0 <=> i = j)
         /\ i # j => Gap(i, Succ(j)) = Gap(i, j) - 1
         /\ Gap(j, j) = 0 /\ Gap(j, Succ(j)) = MaxBufs - 1
         /\ Gap(Succ(i), j) = IF Gap(i, j) = MaxBufs - 1 THEN 0 ELSE Gap(i, j) + 1
         /\ Gap(Succ(i), Succ(j)) = Gap(i, j)
BY PcAssumption DEF PcAssumption, Slots, Succ, Gap

LEMMA ThreadNames == \A t \in Threads : t \notin {"free", "user", "render"}
BY PcAssumption DEF PcAssumption

-----------------------------------------------------------------------------
(* What a step does to the ring, and to who is at it. *)
ringVars == <<buf_num, buf_in, buf_out, buffers, buf_m, seen, shown, made>>

Rests ==
  /\ UNCHANGED <<ringVars, raced>> /\ (stillpicture' => stillpicture)
  /\ \/ UNCHANGED <<render, up>>
     \/ render = "uploading" /\ render' = "idle" /\ up' = Idle
Empties == EmptyRing /\ UNCHANGED <<buf_m, seen, made>>
Fills ==
  \E holder \in Threads \cup {"user"}, pic \in BOOLEAN :
    Fill(holder, pic) /\ UNCHANGED <<raced, stillpicture>> /\ (~pic => ~stillpicture)
Counts == Count /\ buf_m \in Threads \cup {"user"} /\ stillpicture' = stillpicture

LEMMA RingMoves ==
  ASSUME Places, Mutexes, [Next]_vars
  PROVE  Rests \/ Empties \/ Fills \/ Counts \/ GetDecBuf \/ Take
<1> USE DEF ringVars
<1>1. ASSUME NEW t \in Threads, Begin(t) PROVE Rests \/ Empties
  BY <1>1 DEF Begin, Empties, Rests, locks, ring, rendering
<1>2. ASSUME NEW t \in Threads, End(t) PROVE Rests \/ Empties
  BY <1>2 DEF End, Empties, Rests, locks, ring, rendering
<1>3. CASE ShowPicture
  BY <1>3 DEF ShowPicture, Empties, locks
<1>4. ASSUME NEW t \in Threads, FillFrame(t) PROVE Fills
  <2>1. Fill(t, FALSE) /\ UNCHANGED <<raced, stillpicture>> /\ th[t] = "insert"
    BY <1>4 DEF FillFrame, Moves
  <2>2. ~stillpicture
    BY <2>1, ThreadNames DEF Mutexes
  <2> QED
    BY <2>1, <2>2 DEF Fills
<1>5. CASE FillPicture
  BY <1>5 DEF FillPicture, Fills
<1>6. ASSUME NEW t \in Threads, CountFrame(t) PROVE Counts
  BY <1>6 DEF CountFrame, Counts, Moves, Mutexes
<1>7. CASE CountPicture
  BY <1>7 DEF CountPicture, Counts, Mutexes
<1>8. CASE UploadEnd
  BY <1>8 DEF UploadEnd, Rests, locks, ring
<1>9. CASE StopPicture
  BY <1>9 DEF StopPicture, Rests, locks, ring, rendering
<1>10. CASE \/ \E t \in Threads : \/ Start(t) \/ SetFlag(t) \/ LoopEnd(t) \/ Decode(t)
                                  \/ LockStill(t) \/ \E found \in BOOLEAN : OpenInput(t, found)
            \/ Stop \/ Joined \/ PictureFails \/ UNCHANGED vars
  <2>1. UNCHANGED <<ringVars, raced, stillpicture, render, up>>
    BY <1>10, Zenon DEF Start, SetFlag, LoopEnd, Decode, LockStill, OpenInput, Stop, Joined,
       PictureFails, vars, locks, ring, rendering
  <2> QED
    BY <2>1 DEF Rests
<1> QED
  BY <1>1, <1>2, <1>3, <1>4, <1>5, <1>6, <1>7, <1>8, <1>9, <1>10
     DEF Next, ThreadStep, UserCall, UserStep, RenderStep

(* The indices. *)
LEMMA AgreedStep ==
  ASSUME Mutexes, Agreed, Rests \/ Empties \/ Fills \/ Counts \/ GetDecBuf \/ Take
  PROVE  Agreed'
<1> USE PcAssumption DEF PcAssumption
<1>t. /\ buf_in \in Slots /\ buf_out \in Slots /\ buf_num \in MinNum .. MaxBufs - 1
      /\ seen \in [num : MinNum .. MaxBufs - 1, in : Slots, out : Slots]
  BY DEF Agreed
<1>o. 0 \in Slots /\ 0 \in MinNum .. MaxBufs - 1 /\ MinNum < 0
  BY DEF Slots
<1>n. NoIndices \in [num : MinNum .. MaxBufs - 1, in : Slots, out : Slots]
  BY <1>o DEF NoIndices
<1>i. Indices \in [num : MinNum .. MaxBufs - 1, in : Slots, out : Slots]
  BY <1>t DEF Indices
<1>1. CASE Rests
  <2>1. /\ UNCHANGED <<buf_num, buf_in, buf_out, seen, buf_m, raced>>
        /\ render' = "taking" => render = "taking"
    BY <1>1 DEF Rests, ringVars
  <2> QED
    BY <2>1 DEF Agreed, Indices
<1>2. CASE Empties
  <2>1. /\ buf_num' = 0 /\ buf_in' = 0 /\ buf_out' = 0 /\ seen' = seen /\ buf_m' = buf_m
        /\ raced' = (buf_m # "free") /\ render' = render
    BY <1>2 DEF Empties, EmptyRing
  <2>2. Gap(0, 0) = 0
    BY <1>o, GapMoves
  <2>3. render = "taking" => buf_m # "free"
    BY DEF Mutexes
  <2> QED
    BY <1>o, <1>t, <2>1, <2>2, <2>3 DEF Agreed
<1>3. CASE Fills
  <2>1. /\ UNCHANGED <<buf_num, buf_in, buf_out, render, raced>> /\ seen' = Indices
        /\ buf_m = "free"
    BY <1>3 DEF Fills, Fill
  <2>2. render # "taking"
    BY <2>1 DEF Mutexes
  <2>3. Indices' = Indices
    BY <2>1 DEF Indices
  <2> QED
    BY <1>t, <1>i, <2>1, <2>2, <2>3 DEF Agreed
<1>4. CASE Counts
  <2>1. PICK num \in {buf_num, seen.num}, in \in {buf_in, seen.in}, out \in {buf_out, seen.out} :
          Inserted(num, in, out)
    BY <1>4 DEF Counts, Count
  <2>2. /\ num \in MinNum .. MaxBufs - 1 /\ in \in Slots /\ out \in Slots
        /\ ~raced => num = buf_num /\ in = buf_in /\ out = buf_out
    <3>1. buf_m # "free"
      BY <1>4, ThreadNames DEF Counts
    <3> QED
      BY <1>t, <2>1, <3>1 DEF Agreed, Indices
  <2>3. /\ buf_in' = Succ(in)
        /\ \/ num = MaxBufs - 1 /\ buf_num' = num /\ buf_out' = Succ(out)
           \/ num < MaxBufs - 1 /\ buf_num' = num + 1 /\ buf_out' = out
    BY <2>1, <2>2, RingArithmetic DEF Inserted
  <2>4. Succ(in) \in Slots /\ Succ(out) \in Slots
    BY <2>2, RingArithmetic
  <2>5. ~raced => buf_num' = Gap(buf_in', buf_out')
    <3>1. SUFFICES ASSUME ~raced PROVE buf_num' = Gap(buf_in', buf_out')
      OBVIOUS
    <3>2. num = Gap(in, out)
      BY <2>2, <3>1 DEF Agreed
    <3>3. CASE num = MaxBufs - 1
      <4>1. Gap(Succ(in), Succ(out)) = Gap(in, out)
        BY <2>2, GapMoves
      <4>2. buf_in' = Succ(in) /\ buf_num' = num /\ buf_out' = Succ(out)
        BY <2>2, <2>3, <3>3
      <4> QED
        BY <3>2, <4>1, <4>2
    <3>4. CASE num < MaxBufs - 1
      <4>1. Gap(Succ(in), out) = Gap(in, out) + 1
        BY <2>2, <3>2, <3>4, GapMoves
      <4> QED
        BY <2>2, <2>3, <3>2, <3>4, <4>1
    <3> QED
      BY <2>2, <3>3, <3>4
  <2>6. buf_m' = "free" /\ seen' = NoIndices /\ raced' = raced /\ render' = render
    BY <1>4 DEF Counts, Count, rendering
  <2>7. render # "taking"
    BY <1>4, ThreadNames DEF Counts, Mutexes
  <2> QED
    BY <1>n, <2>2, <2>3, <2>4, <2>5, <2>6, <2>7 DEF Agreed
<1>5. CASE GetDecBuf
  <2>1. /\ UNCHANGED <<buf_num, buf_in, buf_out, raced>> /\ seen' = Indices
        /\ buf_num # 0 /\ buf_num > MinNum
    BY <1>5 DEF GetDecBuf, ring
  <2>2. Indices' = Indices /\ Indices.num = buf_num
    BY <2>1 DEF Indices
  <2> QED
    BY <1>t, <1>i, <2>1, <2>2 DEF Agreed
<1>6. CASE Take
  <2>1. PICK num \in {buf_num, seen.num}, out \in {buf_out, seen.out} :
          buf_num' = num - 1 /\ buf_out' = (out + 1) % MaxBufs
    BY <1>6 DEF Take
  <2>2. /\ buf_in' = buf_in /\ buf_m' = "free" /\ seen' = NoIndices /\ raced' = raced
        /\ render = "taking" /\ render' = "uploading"
    BY <1>6 DEF Take
  <2>3. /\ num \in MinNum .. MaxBufs - 1 /\ out \in Slots /\ num > MinNum
        /\ ~raced => num = buf_num /\ out = buf_out /\ num # 0
    BY <1>t, <2>1, <2>2 DEF Agreed, Mutexes, Indices
  <2>4. buf_out' = Succ(out) /\ Succ(out) \in Slots
    BY <2>1, <2>3, RingArithmetic
  <2>5. ~raced => buf_num' = Gap(buf_in', buf_out')
    <3>1. SUFFICES ASSUME ~raced PROVE buf_num' = Gap(buf_in', buf_out')
      OBVIOUS
    <3>2. num = Gap(buf_in, out)
      BY <2>3, <3>1 DEF Agreed
    <3>3. buf_in # out
      BY <1>t, <2>3, <3>1, <3>2, GapMoves
    <3> QED
      BY <1>t, <2>1, <2>2, <2>3, <2>4, <3>2, <3>3, GapMoves
  <2>6. buf_num' \in MinNum .. MaxBufs - 1
    BY <2>1, <2>3
  <2> QED
    BY <1>t, <1>n, <2>2, <2>4, <2>5, <2>6 DEF Agreed
<1> QED
  BY <1>1, <1>2, <1>3, <1>4, <1>5, <1>6

(* The numbers of the frames. *)
LEMMA HandsCounted ==
  /\ IsFiniteSet(Hands) /\ Cardinality(Hands) \in 0 .. Cardinality(Threads) + 1
  /\ Cardinality(Threads) \in Nat
<1>1. IsFiniteSet(Threads) /\ Cardinality(Threads) \in Nat
  <2>1. IsFiniteSet(Threads)
    BY PcAssumption, Zenon DEF PcAssumption
  <2> QED
    BY <2>1, FS_CardinalityType
<1>2. IsFiniteSet(Threads \cup {"user"})
      /\ Cardinality(Threads \cup {"user"}) \in 0 .. Cardinality(Threads) + 1
  <2>1. /\ IsFiniteSet(Threads \cup {"user"})
        /\ Cardinality(Threads \cup {"user"}) =
             IF "user" \in Threads THEN Cardinality(Threads) ELSE Cardinality(Threads) + 1
    BY <1>1, FS_AddElement
  <2> QED
    BY <1>1, <2>1
<1>3. Hands \subseteq Threads \cup {"user"}
  BY DEF Hands
<1>4. /\ IsFiniteSet(Hands) /\ Cardinality(Hands) <= Cardinality(Threads \cup {"user"})
      /\ Cardinality(Hands) \in Nat
  BY <1>2, <1>3, FS_Subset, FS_CardinalityType
<1> QED
  BY <1>1, <1>2, <1>4

LEMMA HandsStep ==
  ASSUME Places, Mutexes, made \in Nat, made + Cardinality(Hands) <= MadeLimit, [Next]_vars
  PROVE  made' \in Nat /\ made' + Cardinality(Hands)' <= MadeLimit
<1> USE PcAssumption DEF PcAssumption, Places
<1>c. /\ IsFiniteSet(Hands) /\ Cardinality(Hands) \in Nat
      /\ Cardinality(Hands)' \in 0 .. Cardinality(Threads) + 1 /\ Cardinality(Threads) \in Nat
  <2>1. /\ IsFiniteSet(Hands) /\ Cardinality(Hands) \in Nat /\ Cardinality(Threads) \in Nat
    BY HandsCounted
  <2>2. (Cardinality(Hands) \in 0 .. Cardinality(Threads) + 1)'
    BY HandsCounted, PTL
  <2> QED
    BY <2>1, <2>2
<1>1. ASSUME NEW x \in Hands, Hands' = Hands \ {x}, made' = made + 1
      PROVE  made' \in Nat /\ made' + Cardinality(Hands)' <= MadeLimit
  <2>1. Cardinality(Hands)' = Cardinality(Hands) - 1
    BY <1>c, <1>1, FS_RemoveElement
  <2> QED
    BY <1>c, <1>1, <2>1 DEF MadeLimit
<1>2. ASSUME Hands' \subseteq Hands, made' = made
      PROVE  made' \in Nat /\ made' + Cardinality(Hands)' <= MadeLimit
  <2>1. Cardinality(Hands') <= Cardinality(Hands)
    BY <1>c, <1>2, FS_Subset
  <2> QED
    BY <1>c, <1>2, <2>1 DEF MadeLimit
<1>3. ASSUME made' = made, made < MaxFrames
      PROVE  made' \in Nat /\ made' + Cardinality(Hands)' <= MadeLimit
  BY <1>c, <1>3 DEF MadeLimit
<1>4. ASSUME NEW t \in Threads, FillFrame(t)
      PROVE  t \in Hands /\ Hands' = Hands \ {t} /\ made' = made + 1
  <2>1. th[t] = "insert" /\ th' = [th EXCEPT ![t] = "count"] /\ made' = made + 1 /\ user' = user
    BY <1>4 DEF FillFrame, Fill, Moves
  <2> QED
    BY <2>1, ThreadNames DEF Hands
<1>5. CASE FillPicture
  <2>1. user = "picture" /\ user' = "drawing" /\ made' = made + 1 /\ th' = th
    BY <1>5 DEF FillPicture, Fill
  <2>2. "user" \in Hands /\ Hands' = Hands \ {"user"}
    BY <2>1, ThreadNames DEF Hands
  <2> QED
    BY <1>1, <2>1, <2>2
<1>6. CASE ShowPicture \/ \E t \in Threads : Decode(t)
  BY <1>3, <1>6 DEF ShowPicture, Decode
<1>7. ASSUME NEW t \in Threads, NEW l, l \notin {"frame", "insert"},
             th' = [th EXCEPT ![t] = l] \/ th' = th, made' = made,
             user' = user \/ user' # "picture"
      PROVE  made' \in Nat /\ made' + Cardinality(Hands)' <= MadeLimit
  <2>1. Hands' \subseteq Hands
    BY <1>7 DEF Hands
  <2> QED
    BY <1>2, <1>7, <2>1
<1>8. ASSUME NEW t \in Threads, LockStill(t)
      PROVE  Hands' \subseteq Hands /\ made' = made
  <2>1. /\ th[t] = "frame" /\ \E l \in {"loop", "insert"} : th' = [th EXCEPT ![t] = l]
        /\ made' = made /\ user' = user
    BY <1>8 DEF LockStill, Moves
  <2> QED
    BY <2>1 DEF Hands
<1>9. ASSUME NEW t \in Threads,
             \/ Start(t) \/ Begin(t) \/ SetFlag(t) \/ LoopEnd(t)
             \/ CountFrame(t) \/ End(t) \/ \E found \in BOOLEAN : OpenInput(t, found)
      PROVE  made' \in Nat /\ made' + Cardinality(Hands)' <= MadeLimit
  <2>1. \E l \in {"begun", "flag", "open", "loop", "out", "ended"} :
          th' = [th EXCEPT ![t] = l] \/ th' = th
    BY <1>9 DEF Start, Begin, SetFlag, LoopEnd, CountFrame, End, OpenInput, Moves
  <2>2. made' = made /\ user' = user
    BY <1>9, Zenon DEF Start, Begin, SetFlag, LoopEnd, CountFrame, End, OpenInput, Count
  <2> QED
    BY <1>7, <2>1, <2>2
<1>10. CASE Joined
  <2>1. tid \in Threads /\ th' = [th EXCEPT ![tid] = "none"] /\ made' = made /\ user' = "idle"
    BY <1>10 DEF Joined
  <2>2. Hands' \subseteq Hands
    BY <2>1 DEF Hands
  <2> QED
    BY <1>2, <2>1, <2>2
<1>11. CASE \/ Stop \/ PictureFails \/ CountPicture \/ StopPicture \/ GetDecBuf \/ Take
            \/ UploadEnd \/ UNCHANGED vars
  <2>1. th' = th /\ made' = made
    BY <1>11, Zenon DEF Stop, PictureFails, CountPicture, StopPicture, GetDecBuf, Take,
       UploadEnd, Count, vars
  <2>2. user' = user \/ user' # "picture"
    BY <1>11 DEF Stop, PictureFails, CountPicture, StopPicture, GetDecBuf, Take, UploadEnd, vars
  <2> QED
    BY <1>7, <2>1, <2>2
<1> QED
  BY <1>1, <1>2, <1>4, <1>5, <1>6, <1>8, <1>9, <1>10, <1>11
     DEF Next, ThreadStep, UserCall, UserStep, RenderStep

LEMMA NumbersStep ==
  ASSUME Places, Mutexes, Agreed, Numbers, [Next]_vars
  PROVE  Numbers'
<1>t. made \in Nat /\ shown \in 0 .. made /\ buffers \in [Slots -> [n : Nat, pic : BOOLEAN]]
      /\ (\A i \in Slots : buffers[i].n <= made) /\ buf_in \in Slots
  BY DEF Numbers, Agreed
<1>1. Rests \/ Empties \/ Fills \/ Counts \/ GetDecBuf \/ Take
  BY RingMoves
<1>2. made' \in Nat /\ made' + Cardinality(Hands)' <= MadeLimit
  BY HandsStep DEF Numbers
<1>3. CASE Rests \/ Empties \/ Counts \/ GetDecBuf
  <2>1. UNCHANGED <<made, shown, buffers>>
    BY <1>3 DEF Rests, Empties, EmptyRing, Counts, Count, GetDecBuf, ringVars, ring, rendering
  <2> QED
    BY <1>2, <2>1 DEF Numbers
<1>4. CASE Fills
  <2>1. PICK pic \in BOOLEAN :
          /\ made' = made + 1 /\ shown' = shown
          /\ buffers' = [buffers EXCEPT ![buf_in] = [n |-> made + 1, pic |-> pic]]
    BY <1>4 DEF Fills, Fill
  <2>2. buffers' \in [Slots -> [n : Nat, pic : BOOLEAN]]
    BY <1>t, <2>1
  <2>3. \A i \in Slots : buffers'[i].n <= made'
    BY <1>t, <2>1
  <2> QED
    BY <1>t, <1>2, <2>1, <2>2, <2>3 DEF Numbers
<1>5. CASE Take
  <2>1. PICK out \in {buf_out, seen.out} : shown' = buffers[out].n
    BY <1>5 DEF Take
  <2>2. out \in Slots
    BY <2>1 DEF Agreed
  <2>3. buffers' = buffers /\ made' = made
    BY <1>5 DEF Take
  <2>4. shown' \in 0 .. made'
    BY <1>t, <2>1, <2>2, <2>3
  <2> QED
    BY <1>2, <2>3, <2>4 DEF Numbers
<1> QED
  BY <1>1, <1>3, <1>4, <1>5

(* The order of the frames.  What the renderer takes is the first of them. *)
LEMMA OrderedStep ==
  ASSUME Mutexes, Agreed, Numbers, Ordered, Agreed',
         Rests \/ Empties \/ Fills \/ Counts \/ GetDecBuf \/ Take
  PROVE  Ordered'
<1> SUFFICES ASSUME ~raced' PROVE Ordered'
  BY DEF Ordered
<1>t. /\ buf_in \in Slots /\ buf_out \in Slots /\ buf_num \in Int
      /\ buf_in' \in Slots /\ buf_out' \in Slots
      /\ made \in Nat /\ shown \in 0 .. made /\ buffers \in [Slots -> [n : Nat, pic : BOOLEAN]]
      /\ \A i \in Slots : buffers[i].n \in Nat /\ buffers[i].n <= made
      /\ MaxBufs \in Nat /\ MaxBufs >= 2 /\ Slots = 0 .. MaxBufs - 1
  <2>1. MaxBufs \in Nat /\ MaxBufs >= 2 /\ Slots = 0 .. MaxBufs - 1 /\ MinNum \in Int
    BY PcAssumption DEF PcAssumption, Slots
  <2>2. buf_in \in Slots /\ buf_out \in Slots /\ buf_num \in MinNum .. MaxBufs - 1
        /\ buf_in' \in Slots /\ buf_out' \in Slots
    BY DEF Agreed
  <2>3. made \in Nat /\ shown \in 0 .. made /\ buffers \in [Slots -> [n : Nat, pic : BOOLEAN]]
        /\ \A i \in Slots : buffers[i].n <= made
    BY DEF Numbers
  <2>4. \A i \in Slots : buffers[i].n \in Nat
    BY <2>3
  <2>5. buf_num \in Int
    BY <2>1, <2>2
  <2> QED
    BY <2>1, <2>2, <2>3, <2>4, <2>5
<1>o. ~raced => \A i \in Slots : InRing(i) =>
        /\ shown < buffers[i].n /\ (stillpicture => buffers[i].pic)
        /\ \A j \in Slots : Gap(i, buf_out) < Gap(j, buf_out) /\ InRing(j) =>
             buffers[i].n < buffers[j].n
  BY DEF Ordered
<1>1. CASE Empties
  <2>1. buf_num' = 0 /\ buf_m' = buf_m /\ raced' = (buf_m # "free") /\ buf_out' = 0
    BY <1>1 DEF Empties, EmptyRing
  <2>2. Filling' = 0
    BY <2>1 DEF Filling
  <2>3. \A i \in Slots : ~InRing(i)'
    <3>1. 0 \in Slots
      BY <1>t
    <3> QED
      BY <1>t, <2>1, <2>2, <3>1, GapMoves DEF InRing
  <2> QED
    BY <2>3 DEF Ordered
<1>2. CASE Rests \/ GetDecBuf
  <2>1. UNCHANGED <<buf_num, buf_out, buffers, shown, raced>>
    BY <1>2, Zenon DEF Rests, GetDecBuf, ringVars, ring
  <2>b. buf_m' = buf_m \/ (buf_m = "free" /\ buf_m' = "render")
    <3>1. CASE Rests
      BY <3>1 DEF Rests, ringVars
    <3>2. CASE GetDecBuf
      BY <3>2 DEF GetDecBuf
    <3> QED
      BY <1>2, <3>1, <3>2
  <2>p. stillpicture' => stillpicture
    BY <1>2, Zenon DEF Rests, GetDecBuf
  <2>2. Filling' = Filling
    BY <2>b DEF Filling
  <2>3. \A i \in Slots : InRing(i)' <=> InRing(i)
    BY <2>1, <2>2 DEF InRing
  <2> QED
    BY <1>o, <2>1, <2>p, <2>3 DEF Ordered
<1>3. CASE Fills
  <2>1. PICK holder \in Threads \cup {"user"}, pic \in BOOLEAN :
          /\ UNCHANGED <<buf_num, buf_in, buf_out, shown, raced, stillpicture>>
          /\ buf_m = "free" /\ buf_m' = holder
          /\ buffers' = [buffers EXCEPT ![buf_in] = [n |-> made + 1, pic |-> pic]]
          /\ stillpicture => pic
    BY <1>3 DEF Fills, Fill
  <2>2. Filling = 0 /\ Filling' = 1
    BY <2>1, ThreadNames DEF Filling
  <2>3. buf_num = Gap(buf_in, buf_out)
    BY <2>1 DEF Agreed
  <2>4. \A i \in Slots : InRing(i)' <=> InRing(i) \/ i = buf_in
    BY <1>t, <2>1, <2>2, <2>3 DEF InRing, Gap
  <2>5. ~InRing(buf_in)
    BY <1>t, <2>2, <2>3 DEF InRing
  <2>6. /\ buffers'[buf_in].n = made + 1 /\ buffers'[buf_in].pic = pic
        /\ \A i \in Slots : i # buf_in => buffers'[i] = buffers[i]
    BY <1>t, <2>1
  <2>7. \A i \in Slots : InRing(i) => Gap(i, buf_out) < Gap(buf_in, buf_out)
    BY <1>t, <2>2, <2>3 DEF InRing
  <2>8. ASSUME NEW i \in Slots, InRing(i)'
        PROVE  /\ shown < buffers'[i].n /\ (stillpicture => buffers'[i].pic)
               /\ \A j \in Slots : Gap(i, buf_out) < Gap(j, buf_out) /\ InRing(j)' =>
                    buffers'[i].n < buffers'[j].n
    <3>1. CASE i = buf_in
      <4>1. \A j \in Slots : ~(Gap(i, buf_out) < Gap(j, buf_out) /\ InRing(j)')
        <5>1. SUFFICES ASSUME NEW j \in Slots, Gap(i, buf_out) < Gap(j, buf_out), InRing(j)'
                       PROVE  FALSE
          OBVIOUS
        <5>2. Gap(i, buf_out) \in Slots /\ Gap(j, buf_out) \in Slots
          BY <1>t, GapMoves
        <5>3. InRing(j) \/ j = buf_in
          BY <2>4, <5>1
        <5> QED
          BY <1>t, <2>7, <3>1, <5>1, <5>2, <5>3
      <4> QED
        BY <1>t, <2>1, <2>6, <3>1, <4>1
    <3>2. CASE i # buf_in
      <4>1. InRing(i)
        BY <2>4, <2>8, <3>2
      <4>2. /\ shown < buffers[i].n /\ (stillpicture => buffers[i].pic)
            /\ \A j \in Slots : Gap(i, buf_out) < Gap(j, buf_out) /\ InRing(j) =>
                 buffers[i].n < buffers[j].n
        BY <1>o, <2>1, <4>1
      <4>3. buffers'[i] = buffers[i] /\ buffers[i].n < made + 1
        BY <1>t, <2>6, <3>2
      <4> QED
        BY <2>4, <2>6, <4>2, <4>3
    <3> QED
      BY <3>1, <3>2
  <2> QED
    BY <2>1, <2>8 DEF Ordered
<1>4. ASSUME NEW new \in Slots, buf_out' = new, new \in {buf_out, Succ(buf_out)},
             ~raced, stillpicture' = stillpicture, buffers' = buffers,
             \A i \in Slots : InRing(i)' =>
               InRing(i) /\ (new # buf_out => i # buf_out) /\ shown' < buffers[i].n
      PROVE  Ordered'
  <2>1. ASSUME NEW i \in Slots, InRing(i)', NEW j \in Slots, InRing(j)', Gap(i, new) < Gap(j, new)
        PROVE  Gap(i, buf_out) < Gap(j, buf_out)
    <3>1. CASE new = buf_out
      BY <2>1, <3>1
    <3>2. CASE new # buf_out
      <4>1. Gap(i, new) = Gap(i, buf_out) - 1 /\ Gap(j, new) = Gap(j, buf_out) - 1
        BY <1>t, <1>4, <2>1, <3>2, GapMoves
      <4>2. Gap(i, buf_out) \in Int /\ Gap(j, buf_out) \in Int
        BY <1>t DEF Gap
      <4> QED
        BY <2>1, <4>1, <4>2
    <3> QED
      BY <3>1, <3>2
  <2> QED
    BY <1>4, <1>o, <2>1 DEF Ordered
<1>5. CASE Counts
  <2>1. /\ UNCHANGED <<buffers, shown, raced, stillpicture>> /\ buf_m' = "free"
        /\ buf_m \in Threads \cup {"user"}
    BY <1>5 DEF Counts, Count, rendering
  <2>2. Filling = 1 /\ Filling' = 0 /\ buf_m # "free"
    BY <2>1, ThreadNames DEF Filling
  <2>3. buf_num = Gap(buf_in, buf_out) /\ seen = Indices
    BY <2>1, <2>2 DEF Agreed
  <2>4. Inserted(buf_num, buf_in, buf_out)
    BY <1>5, <2>3 DEF Counts, Count, Indices
  <2>5. \/ buf_num = MaxBufs - 1 /\ buf_num' = buf_num /\ buf_out' = Succ(buf_out)
        \/ buf_num' = buf_num + 1 /\ buf_out' = buf_out
    <3>1. (buf_out + 1) % MaxBufs = Succ(buf_out)
      BY <1>t, RingArithmetic
    <3>2. buf_num \in Slots
      BY <1>t, <2>3, GapMoves
    <3>3. CASE buf_num + 1 > MaxBufs - 1
      <4>1. buf_num' = buf_num /\ buf_out' = (buf_out + 1) % MaxBufs
        BY <2>4, <3>3, Zenon DEF Inserted
      <4>2. buf_num = MaxBufs - 1
        BY <1>t, <3>2, <3>3
      <4> QED
        BY <3>1, <4>1, <4>2
    <3>4. CASE ~(buf_num + 1 > MaxBufs - 1)
      BY <2>4, <3>4 DEF Inserted
    <3> QED
      BY <3>3, <3>4
  <2>6. ASSUME NEW i \in Slots, InRing(i)'
        PROVE  InRing(i) /\ (buf_out' # buf_out => i # buf_out) /\ shown' < buffers[i].n
    <3>1. InRing(i) /\ (buf_out' # buf_out => i # buf_out)
      <4>1. CASE buf_num' = buf_num + 1 /\ buf_out' = buf_out
        BY <1>t, <2>2, <2>6, <4>1 DEF InRing
      <4>2. CASE buf_num = MaxBufs - 1 /\ buf_num' = buf_num /\ buf_out' = Succ(buf_out)
        <5>1. InRing(i)
          <6>1. Gap(i, buf_out) \in 0 .. MaxBufs - 1
            BY <1>t, GapMoves
          <6> QED
            BY <1>t, <2>2, <4>2, <6>1 DEF InRing
        <5>2. i # buf_out
          BY <1>t, <2>2, <2>6, <4>2, GapMoves DEF InRing
        <5> QED
          BY <5>1, <5>2
      <4> QED
        BY <2>5, <4>1, <4>2
    <3> QED
      BY <1>o, <2>1, <3>1
  <2>7. buf_out' \in {buf_out, Succ(buf_out)}
    BY <2>5
  <2> QED
    BY <1>t, <1>4, <2>1, <2>6, <2>7
<1>6. CASE Take
  <2>1. /\ UNCHANGED <<buffers, raced, stillpicture>> /\ buf_m' = "free" /\ render = "taking"
    BY <1>6 DEF Take
  <2>2. buf_m = "render" /\ buf_num = Gap(buf_in, buf_out) /\ seen = Indices /\ buf_num # 0
    BY <2>1 DEF Agreed, Mutexes
  <2>3. Filling = 0 /\ Filling' = 0
    BY <2>1, <2>2 DEF Filling
  <2>4. buf_num' = buf_num - 1 /\ buf_out' = Succ(buf_out) /\ shown' = buffers[buf_out].n
    BY <1>t, <1>6, <2>2, RingArithmetic DEF Take, Indices
  <2>5. InRing(buf_out) /\ Gap(buf_out, buf_out) = 0
    <3>1. Gap(buf_in, buf_out) \in Slots /\ Gap(buf_out, buf_out) = 0
      BY <1>t, GapMoves
    <3> QED
      BY <1>t, <2>2, <2>3, <3>1 DEF InRing
  <2>6. ASSUME NEW i \in Slots, InRing(i)'
        PROVE  InRing(i) /\ i # buf_out /\ shown' < buffers[i].n
    <3>1. i # buf_out
      BY <1>t, <2>2, <2>3, <2>4, <2>6, GapMoves DEF InRing, Slots
    <3>2. Gap(i, Succ(buf_out)) = Gap(i, buf_out) - 1 /\ Gap(i, buf_out) \in Slots
          /\ Gap(i, buf_out) # 0
      BY <1>t, <3>1, GapMoves
    <3>3. InRing(i) /\ Gap(buf_out, buf_out) < Gap(i, buf_out)
      BY <1>t, <2>3, <2>4, <2>5, <2>6, <3>2 DEF InRing
    <3>4. buffers[buf_out].n < buffers[i].n
      BY <1>o, <1>t, <2>1, <2>5, <3>3
    <3> QED
      BY <2>4, <3>1, <3>3, <3>4
  <2> QED
    BY <1>t, <1>4, <2>1, <2>4, <2>6
<1> QED
  BY <1>1, <1>2, <1>3, <1>5, <1>6

(* The room that is left for the upload. *)
LEMMA RoomyStep ==
  ASSUME Mutexes, Agreed, Numbers, Roomy, Agreed',
         Rests \/ Empties \/ Fills \/ Counts \/ GetDecBuf \/ Take
  PROVE  Roomy'
<1>t. /\ buf_in \in Slots /\ buf_out \in Slots /\ buf_num \in Int
      /\ buf_in' \in Slots /\ buf_out' \in Slots
      /\ up \in [slot : Slots, room : Int, reset : BOOLEAN]
      /\ MaxBufs \in Nat /\ MaxBufs >= 2 /\ Slots = 0 .. MaxBufs - 1
  <2>1. MaxBufs \in Nat /\ MaxBufs >= 2 /\ Slots = 0 .. MaxBufs - 1 /\ MinNum \in Int
    BY PcAssumption DEF PcAssumption, Slots
  <2>2. buf_in \in Slots /\ buf_out \in Slots /\ buf_num \in MinNum .. MaxBufs - 1
        /\ buf_in' \in Slots /\ buf_out' \in Slots
    BY DEF Agreed
  <2>3. up \in [slot : Slots, room : Int, reset : BOOLEAN]
    BY DEF Roomy
  <2>4. buf_num \in Int
    BY <2>1, <2>2
  <2> QED
    BY <2>1, <2>2, <2>3, <2>4
<1>o. render = "uploading" /\ ~raced /\ ~up.reset =>
        up.room <= 0 \/ up.room = Gap(up.slot, buf_in) - Filling
  BY DEF Roomy
<1>1. CASE Rests
  <2>1. UNCHANGED <<buf_in, buf_m, raced>>
    BY <1>1 DEF Rests, ringVars
  <2>2. Filling' = Filling
    BY <2>1 DEF Filling
  <2>3. CASE UNCHANGED <<render, up>>
    BY <1>t, <1>o, <2>1, <2>2, <2>3 DEF Roomy
  <2>4. CASE render' = "idle" /\ up' = Idle
    <3>1. Idle \in [slot : Slots, room : Int, reset : BOOLEAN]
      BY <1>t DEF Idle
    <3> QED
      BY <2>4, <3>1 DEF Roomy
  <2> QED
    BY <1>1, <2>3, <2>4 DEF Rests
<1>2. CASE Empties
  <2>1. up' = [up EXCEPT !.reset = (render = "uploading")] /\ render' = render
    BY <1>2 DEF Empties, EmptyRing
  <2>2. up' \in [slot : Slots, room : Int, reset : BOOLEAN]
    BY <1>t, <2>1
  <2>3. render' = "uploading" => up'.reset
    BY <1>t, <2>1
  <2> QED
    BY <2>2, <2>3 DEF Roomy
<1>3. CASE Fills
  <2>1. /\ UNCHANGED <<buf_in, render, raced>>
        /\ buf_m = "free" /\ buf_m' \in Threads \cup {"user"}
        /\ up' = [up EXCEPT !.room = IF render = "uploading" THEN @ - 1 ELSE 0]
    BY <1>3 DEF Fills, Fill
  <2>2. Filling = 0 /\ Filling' = 1
    BY <2>1, ThreadNames DEF Filling
  <2>3. /\ up' \in [slot : Slots, room : Int, reset : BOOLEAN]
        /\ up'.slot = up.slot /\ up'.reset = up.reset
        /\ render = "uploading" => up'.room = up.room - 1
    BY <1>t, <2>1
  <2>4. ASSUME render = "uploading", ~raced, ~up.reset
        PROVE  up'.room <= 0 \/ up'.room = Gap(up'.slot, buf_in') - Filling'
    <3>1. up.room <= 0 \/ up.room = Gap(up.slot, buf_in)
      BY <1>o, <1>t, <2>2, <2>4 DEF Gap
    <3>2. up.room \in Int /\ up'.room = up.room - 1
      BY <1>t, <2>3, <2>4
    <3> QED
      BY <2>1, <2>2, <2>3, <3>1, <3>2
  <2> QED
    BY <2>1, <2>3, <2>4 DEF Roomy
<1>4. CASE Counts
  <2>1. /\ UNCHANGED <<render, up, raced>> /\ buf_m' = "free"
        /\ buf_m \in Threads \cup {"user"}
    BY <1>4 DEF Counts, Count, rendering
  <2>2. Filling = 1 /\ Filling' = 0 /\ buf_m # "free"
    BY <2>1, ThreadNames DEF Filling
  <2>3. ASSUME render = "uploading", ~raced, ~up.reset
        PROVE  up.room <= 0 \/ up.room = Gap(up.slot, buf_in')
    <3>1. seen = Indices
      BY <2>2, <2>3 DEF Agreed
    <3>2. Inserted(buf_num, buf_in, buf_out)
      BY <1>4, <3>1 DEF Counts, Count, Indices
    <3>3. buf_in' = (buf_in + 1) % MaxBufs
      BY <3>2, Zenon DEF Inserted
    <3>4. buf_in' = Succ(buf_in)
      BY <1>t, <3>3, RingArithmetic
    <3>5. up.room <= 0 \/ up.room = Gap(up.slot, buf_in) - 1
      BY <1>o, <2>2, <2>3
    <3>6. CASE up.slot = buf_in
      <4>1. Gap(up.slot, buf_in) = 0 /\ up.room \in Int
        BY <1>t, <3>6, GapMoves
      <4> QED
        BY <3>5, <4>1
    <3>7. CASE up.slot # buf_in
      <4>1. Gap(up.slot, buf_in') = Gap(up.slot, buf_in) - 1
        BY <1>t, <3>4, <3>7, GapMoves
      <4> QED
        BY <3>5, <4>1
    <3> QED
      BY <3>6, <3>7
  <2>4. Gap(up.slot, buf_in') \in Int
    BY <1>t DEF Gap
  <2>5. UNCHANGED up /\ UNCHANGED render /\ UNCHANGED raced
    BY <2>1
  <2> QED
    BY <1>t, <2>2, <2>3, <2>4, <2>5 DEF Roomy
<1>5. CASE GetDecBuf
  <2>1. UNCHANGED up /\ render' = "taking"
    BY <1>5 DEF GetDecBuf
  <2> QED
    BY <1>t, <2>1 DEF Roomy
<1>6. CASE Take
  <2>1. PICK num \in {buf_num, seen.num}, out \in {buf_out, seen.out} :
          up' = [slot |-> out, room |-> MaxBufs - num, reset |-> FALSE]
    BY <1>6 DEF Take
  <2>2. /\ UNCHANGED <<buf_in, raced>> /\ buf_m' = "free" /\ render = "taking"
    BY <1>6 DEF Take
  <2>3. buf_m = "render" /\ Filling' = 0
    BY <2>2 DEF Filling, Mutexes
  <2>4. num \in Int /\ out \in Slots
    <3>1. seen \in [num : MinNum .. MaxBufs - 1, in : Slots, out : Slots] /\ MinNum \in Int
      BY PcAssumption DEF Agreed, PcAssumption
    <3> QED
      BY <1>t, <2>1, <3>1
  <2>5. ASSUME ~raced PROVE MaxBufs - num = Gap(out, buf_in)
    <3>1. num = buf_num /\ out = buf_out /\ buf_num = Gap(buf_in, buf_out) /\ buf_num # 0
      BY <2>1, <2>2, <2>3, <2>5 DEF Agreed, Indices
    <3> QED
      BY <1>t, <3>1 DEF Gap
  <2>6. up' \in [slot : Slots, room : Int, reset : BOOLEAN]
    BY <1>t, <2>1, <2>4
  <2>7. ~raced => up'.room = Gap(up'.slot, buf_in')
    BY <2>1, <2>2, <2>5
  <2>8. Gap(up'.slot, buf_in') \in Int
    BY <1>t, <2>6 DEF Gap
  <2>9. raced' = raced
    BY <2>2
  <2> QED
    BY <2>3, <2>6, <2>7, <2>8, <2>9 DEF Roomy
<1> QED
  BY <1>1, <1>2, <1>3, <1>4, <1>5, <1>6

-----------------------------------------------------------------------------
(* Where the threads, the user and the renderer are, and the mutexes. *)
LEMMA PlacesStep ==
  ASSUME Places, [Next]_vars
  PROVE  Places'
<1> USE DEF Places
<1>1. ASSUME NEW t \in Threads, NEW u \in Threads,
             NEW l \in {"none", "begun", "flag", "open", "loop", "frame", "insert",
                       "count", "out", "ended"},
             th' = th \/ th' = [th EXCEPT ![t] = l], which' = which, tid' \in {tid, u},
             user' \in {"idle", "joining", "picture", "drawing"},
             running' \in BOOLEAN, wanted' \in BOOLEAN, stillpicture' \in BOOLEAN,
             raced' \in BOOLEAN, missed' \in BOOLEAN
      PROVE  Places'
  BY <1>1
<1>2. ASSUME NEW t \in Threads, Start(t) PROVE Places'
  BY <1>1, <1>2 DEF Start
<1>3. ASSUME NEW t \in Threads, Begin(t) \/ End(t) PROVE Places'
  <2>1. \/ Moves(t, "begun", "flag") \/ Moves(t, "out", "ended")
    BY <1>3 DEF Begin, End
  <2>2. UNCHANGED <<which, tid, running, wanted, user, stillpicture, missed>>
    BY <1>3 DEF Begin, End
  <2>3. raced' \in BOOLEAN
    BY <1>3 DEF Begin, End, EmptyRing
  <2> QED
    BY <2>1, <2>2, <2>3 DEF Moves
<1>4. ASSUME NEW t \in Threads, \/ SetFlag(t) \/ LoopEnd(t) \/ Decode(t) \/ LockStill(t)
                                \/ FillFrame(t) \/ CountFrame(t)
                                \/ \E found \in BOOLEAN : OpenInput(t, found)
      PROVE  Places'
  <2>1. \E l \in {"open", "loop", "frame", "insert", "count", "out"} :
          th' = [th EXCEPT ![t] = l]
    BY <1>4 DEF SetFlag, LoopEnd, Decode, LockStill, FillFrame, CountFrame, OpenInput, Moves
  <2>2. UNCHANGED <<which, tid, wanted, user, stillpicture, raced, missed>>
    BY <1>4, Zenon DEF SetFlag, LoopEnd, Decode, LockStill, FillFrame, CountFrame, OpenInput,
       Count
  <2>3. running' \in BOOLEAN
    BY <1>4, Zenon DEF SetFlag, LoopEnd, Decode, LockStill, FillFrame, CountFrame, OpenInput
  <2> QED
    BY <2>1, <2>2, <2>3
<1>5. CASE Stop
  BY <1>5 DEF Stop
<1>6. CASE Joined
  BY <1>6 DEF Joined
<1>7. CASE ShowPicture
  BY <1>7 DEF ShowPicture, EmptyRing
<1>8. CASE \/ StopPicture \/ PictureFails \/ FillPicture \/ CountPicture
           \/ GetDecBuf \/ Take \/ UploadEnd \/ UNCHANGED vars
  <2>1. UNCHANGED <<which, th, tid, running, wanted, raced, missed>>
    BY <1>8, Zenon DEF StopPicture, PictureFails, FillPicture, CountPicture, GetDecBuf, Take,
       UploadEnd, Count, vars
  <2>2. stillpicture' \in BOOLEAN
    BY <1>8, Zenon DEF StopPicture, PictureFails, FillPicture, CountPicture, GetDecBuf, Take,
       UploadEnd, vars
  <2>3. user' \in {"idle", "joining", "picture", "drawing"}
    BY <1>8, Zenon DEF StopPicture, PictureFails, FillPicture, CountPicture, GetDecBuf, Take,
       UploadEnd, vars
  <2> QED
    BY <2>1, <2>2, <2>3
<1> QED
  BY <1>2, <1>3, <1>4, <1>5, <1>6, <1>7, <1>8
     DEF Next, ThreadStep, UserCall, UserStep, RenderStep

LEMMA MutexesStep ==
  ASSUME Places, Mutexes, [Next]_vars
  PROVE  Mutexes'
<1> USE DEF Mutexes
<1>t. th \in [Threads -> {"none", "begun", "flag", "open", "loop", "frame", "insert",
                          "count", "out", "ended"}] /\ tid \in Threads
  BY DEF Places
<1>1. ASSUME NEW t \in Threads, NEW l, l \notin {"insert", "count"},
             th[t] \notin {"insert", "count"}, th' = [th EXCEPT ![t] = l] \/ th' = th,
             UNCHANGED <<still_m, buf_m, render, stillpicture>>,
             user' = user \/ (user # "drawing" /\ user' # "drawing")
      PROVE  Mutexes'
  <2>1. \A x \in Threads : /\ th'[x] \in {"insert", "count"} <=> th[x] \in {"insert", "count"}
                           /\ th'[x] = "count" <=> th[x] = "count"
    BY <1>t, <1>1
  <2>2. user' = "drawing" <=> user = "drawing"
    BY <1>1
  <2> QED
    BY <1>1, <2>1, <2>2
<1>2. ASSUME NEW t \in Threads, \/ Start(t) \/ Begin(t) \/ SetFlag(t) \/ LoopEnd(t)
                                \/ Decode(t) \/ End(t)
                                \/ \E found \in BOOLEAN : OpenInput(t, found)
      PROVE  Mutexes'
  <2>1. UNCHANGED <<still_m, buf_m, render, stillpicture>> /\ user' = user
    BY <1>2, Zenon DEF Start, Begin, SetFlag, LoopEnd, Decode, End, OpenInput, EmptyRing, locks,
       rendering
  <2>2. \/ th' = th
        \/ /\ th[t] \notin {"insert", "count"}
           /\ \E l \in {"begun", "flag", "open", "loop", "frame", "out", "ended"} :
                th' = [th EXCEPT ![t] = l]
    BY <1>2 DEF Start, Begin, SetFlag, LoopEnd, Decode, End, OpenInput, Moves, Alive
  <2>3. CASE th' = th
    BY <2>1, <2>3
  <2>4. CASE th[t] \notin {"insert", "count"}
    <3>1. PICK l \in {"begun", "flag", "open", "loop", "frame", "out", "ended"} :
            th' = [th EXCEPT ![t] = l] \/ th' = th
      BY <2>2
    <3>2. l \notin {"insert", "count"}
      OBVIOUS
    <3> QED
      BY <1>1, <2>1, <2>4, <3>1, <3>2, Zenon
  <2> QED
    BY <2>2, <2>3, <2>4
<1>3. CASE Joined
  <2>1. /\ UNCHANGED <<still_m, buf_m, render,
                       stillpicture>> /\ user = "joining" /\ user' = "idle"
        /\ th[tid] = "ended" /\ th' = [th EXCEPT ![tid] = "none"]
    BY <1>3 DEF Joined, locks, rendering
  <2> QED
    BY <1>1, <1>t, <2>1
<1>4. ASSUME NEW t \in Threads, LockStill(t) PROVE Mutexes'
  <2>1. UNCHANGED <<buf_m, render, stillpicture, user>>
    BY <1>4 DEF LockStill, rendering
  <2>2. /\ still_m = "free" /\ th[t] = "frame"
        /\ \/ th' = [th EXCEPT ![t] = "loop"] /\ still_m' = "free"
           \/ ~stillpicture /\ th' = [th EXCEPT ![t] = "insert"] /\ still_m' = t
    BY <1>4 DEF LockStill, Moves, Dropped
  <2>3. CASE th' = [th EXCEPT ![t] = "loop"] /\ still_m' = "free"
    BY <1>t, <2>1, <2>2, <2>3, ThreadNames
  <2>4. CASE ~stillpicture /\ th' = [th EXCEPT ![t] = "insert"] /\ still_m' = t
    <3>1. \A x \in Threads : th'[x] \in {"insert", "count"} <=> still_m' = x
      BY <1>t, <2>2, <2>4, ThreadNames
    <3>2. \A x \in Threads : th'[x] = "count" <=> buf_m' = x
      BY <1>t, <2>1, <2>2, <2>4
    <3> QED
      BY <2>1, <2>4, <3>1, <3>2
  <2> QED
    BY <2>2, <2>3, <2>4
<1>5. ASSUME NEW t \in Threads, FillFrame(t) PROVE Mutexes'
  <2>1. /\ UNCHANGED <<still_m, render, stillpicture, user>>
        /\ buf_m = "free" /\ buf_m' = t /\ th[t] = "insert" /\ th' = [th EXCEPT ![t] = "count"]
    BY <1>5 DEF FillFrame, Fill, Moves
  <2>2. \A x \in Threads : th'[x] \in {"insert", "count"} <=> still_m' = x
    BY <1>t, <2>1
  <2>3. \A x \in Threads : th'[x] = "count" <=> buf_m' = x
    BY <1>t, <2>1, ThreadNames
  <2>4. buf_m' \notin {"user", "render"}
    BY <2>1, ThreadNames
  <2> QED
    BY <2>1, <2>2, <2>3, <2>4
<1>6. ASSUME NEW t \in Threads, CountFrame(t) PROVE Mutexes'
  <2>1. /\ UNCHANGED <<render, stillpicture, user>> /\ still_m' = "free" /\ buf_m' = "free"
        /\ th[t] = "count" /\ th' = [th EXCEPT ![t] = "loop"]
    BY <1>6 DEF CountFrame, Count, Moves, rendering
  <2>2. still_m = t /\ buf_m = t
    BY <2>1
  <2>3. \A x \in Threads : th'[x] \notin {"insert", "count"}
    BY <1>t, <2>1, <2>2
  <2>4. buf_m \notin {"user", "render"}
    BY <2>2, ThreadNames
  <2> QED
    BY <2>1, <2>3, <2>4, ThreadNames
<1>7. CASE \/ Stop \/ ShowPicture \/ StopPicture \/ PictureFails \/ UNCHANGED vars
  <2>1. UNCHANGED <<th, still_m, buf_m, render>>
    BY <1>7, Zenon DEF Stop, ShowPicture, StopPicture, PictureFails, EmptyRing, vars, locks,
       rendering
  <2>2. user' = user \/ (user # "drawing" /\ user' # "drawing")
    <3>1. CASE Stop
      BY <3>1 DEF Stop
    <3>2. CASE ShowPicture \/ PictureFails
      BY <3>2 DEF ShowPicture, PictureFails
    <3>3. CASE StopPicture \/ UNCHANGED vars
      BY <3>3 DEF StopPicture, vars
    <3> QED
      BY <1>7, <3>1, <3>2, <3>3
  <2>3. still_m # "free" => stillpicture' = stillpicture
    BY <1>7, Zenon DEF Stop, ShowPicture, StopPicture, PictureFails, vars
  <2>4. still_m' # "free" => ~stillpicture'
    BY <2>1, <2>3, Zenon
  <2> QED
    BY <2>1, <2>2, <2>4
<1>8. CASE FillPicture
  <2>1. /\ UNCHANGED <<th, still_m, render, stillpicture>> /\ user' = "drawing"
        /\ buf_m = "free" /\ buf_m' = "user"
    BY <1>8 DEF FillPicture, Fill
  <2> QED
    BY <2>1, ThreadNames
<1>9. CASE CountPicture
  <2>1. /\ UNCHANGED <<th, still_m, render, stillpicture>> /\ user = "drawing" /\ user' = "idle"
        /\ buf_m' = "free"
    BY <1>9 DEF CountPicture, Count, rendering
  <2> QED
    BY <2>1, ThreadNames
<1>10. CASE GetDecBuf
  <2>1. /\ UNCHANGED <<th, still_m, user, stillpicture>> /\ render' = "taking"
        /\ buf_m = "free" /\ buf_m' = "render"
    BY <1>10 DEF GetDecBuf
  <2> QED
    BY <2>1, ThreadNames
<1>11. CASE Take
  <2>1. /\ UNCHANGED <<th, still_m, user, stillpicture>> /\ render = "taking"
        /\ render' = "uploading" /\ buf_m' = "free"
    BY <1>11 DEF Take
  <2> QED
    BY <2>1, ThreadNames
<1>12. CASE UploadEnd
  BY <1>12 DEF UploadEnd, locks
<1> QED
  BY <1>2, <1>3, <1>4, <1>5, <1>6, <1>7, <1>8, <1>9, <1>10, <1>11, <1>12
     DEF Next, ThreadStep, UserCall, UserStep, RenderStep

-----------------------------------------------------------------------------
LEMMA InitIInv == Init => IInv
<1> SUFFICES ASSUME Init PROVE IInv
  OBVIOUS
<1> USE PcAssumption DEF Init
<1>s. /\ 0 \in Slots /\ 0 \in MinNum .. MaxBufs - 1
      /\ NoIndices \in [num : MinNum .. MaxBufs - 1, in : Slots, out : Slots]
  BY DEF PcAssumption, Slots, NoIndices
<1>g. Gap(0, 0) = 0 /\ Filling = 0
  BY DEF Gap, Filling
<1>1. Places
  <2>1. Threads # {}
    BY Zenon DEF PcAssumption
  <2>2. (CHOOSE t \in Threads : TRUE) \in Threads
    BY <2>1, Zenon
  <2> QED
    BY <2>2 DEF Places
<1>2. Mutexes
  BY ThreadNames DEF Mutexes
<1>3. Agreed
  BY <1>s, <1>g DEF Agreed
<1>4. Numbers
  <2>1. Hands = {}
    BY DEF Hands
  <2>2. Cardinality(Hands) = 0 /\ Cardinality(Threads) \in Nat
    BY <2>1, FS_EmptySet, HandsCounted
  <2>3. MadeLimit \in Nat
    BY <2>2 DEF PcAssumption, MadeLimit
  <2>4. buffers \in [Slots -> [n : Nat, pic : BOOLEAN]] /\ \A i \in Slots : buffers[i].n <= made
    BY DEF Empty
  <2> QED
    BY <2>2, <2>3, <2>4 DEF Numbers
<1>5. Ordered
  <2>1. \A i \in Slots : ~InRing(i)
    <3>1. \A i \in Slots : Gap(i, 0) \in Slots
      BY <1>s, GapMoves
    <3> QED
      BY <1>g, <3>1 DEF InRing, Slots
  <2> QED
    BY <2>1 DEF Ordered
<1>6. Roomy
  BY <1>s DEF Roomy, Idle
<1> QED
  BY <1>1, <1>2, <1>3, <1>4, <1>5, <1>6 DEF IInv

LEMMA Invariance == Init /\ [][Next]_vars => []IInv
<1>1. Init => IInv
  BY InitIInv
<1>2. IInv /\ [Next]_vars => IInv'
  <2> SUFFICES ASSUME IInv, [Next]_vars PROVE IInv'
    OBVIOUS
  <2>1. Places /\ Mutexes /\ Agreed /\ Numbers /\ Ordered /\ Roomy
    BY DEF IInv
  <2>2. Rests \/ Empties \/ Fills \/ Counts \/ GetDecBuf \/ Take
    BY <2>1, RingMoves
  <2>3. Agreed'
    BY <2>1, <2>2, AgreedStep
  <2>4. Places' /\ Mutexes' /\ Numbers'
    BY <2>1, PlacesStep, MutexesStep, NumbersStep
  <2>5. Ordered' /\ Roomy'
    BY <2>1, <2>2, <2>3, OrderedStep, RoomyStep
  <2> QED
    BY <2>3, <2>4, <2>5 DEF IInv
<1> QED
  BY <1>1, <1>2, PTL

(* The types hold in every run of the decoder; the indices agree with each *)
(* other unless the ring was emptied under the hands of the holder of      *)
(* buf_m; and no more frames are made than the bound and one for each      *)
(* thread.                                                                 *)
THEOREM PcTypes == Spec => []TypeOK
<1>1. IInv => TypeOK
  <2> SUFFICES ASSUME IInv PROVE TypeOK
    OBVIOUS
  <2> USE DEF IInv
  <2>1. MaxBufs \in Nat /\ MaxBufs >= 2 /\ MinNum \in Int
    BY PcAssumption DEF PcAssumption
  <2>2. /\ which \in {"video", "audio"} /\ tid \in Threads
        /\ th \in [Threads -> {"none", "begun", "flag", "open", "loop", "frame", "insert",
                               "count", "out", "ended"}]
        /\ {running, wanted, stillpicture, raced, missed} \subseteq BOOLEAN
        /\ user \in {"idle", "joining", "picture", "drawing"}
    BY DEF Places
  <2>3. /\ buf_in \in Slots /\ buf_out \in Slots /\ buf_num \in MinNum .. MaxBufs - 1
        /\ ~raced => buf_num = Gap(buf_in, buf_out)
    BY DEF Agreed
  <2>4. ~raced => buf_num >= 0
    <3>1. Gap(buf_in, buf_out) \in Slots
      BY <2>3, GapMoves
    <3> QED
      BY <2>3, <3>1 DEF Slots
  <2>5. ~raced => (buf_in - buf_out - buf_num) % MaxBufs = 0
    BY <2>3, GapAgrees
  <2>6. /\ still_m \in Threads \cup {"free"} /\ buf_m \in Threads \cup {"free", "user", "render"}
        /\ render \in {"idle", "taking", "uploading"}
    BY DEF Mutexes
  <2>7. made \in 0 .. MadeLimit
    <3>1. Cardinality(Hands) \in Nat /\ Cardinality(Threads) \in Nat
      BY HandsCounted
    <3>2. MadeLimit \in Nat /\ made \in Nat /\ made + Cardinality(Hands) <= MadeLimit
      BY <3>1, PcAssumption DEF MadeLimit, PcAssumption, Numbers
    <3> QED
      BY <3>1, <3>2
  <2>8. /\ shown \in 0 .. MadeLimit
        /\ buffers \in [Slots -> [n : 0 .. MadeLimit, pic : BOOLEAN]]
    <3>1. /\ shown \in 0 .. made /\ buffers \in [Slots -> [n : Nat, pic : BOOLEAN]]
          /\ \A i \in Slots : buffers[i].n <= made
      BY DEF Numbers
    <3>2. MadeLimit \in Int
      BY HandsCounted, PcAssumption DEF MadeLimit, PcAssumption
    <3>3. \A i \in Slots : buffers[i] \in [n : 0 .. MadeLimit, pic : BOOLEAN]
      BY <2>7, <3>1, <3>2
    <3> QED
      BY <2>7, <3>1, <3>2, <3>3
  <2>9. up.slot \in Slots
    BY DEF Roomy
  <2>10. buf_num < 0 => raced
    BY <2>1, <2>3, <2>4
  <2> QED
    BY <2>2, <2>3, <2>5, <2>6, <2>7, <2>8, <2>9, <2>10 DEF TypeOK
<1> QED
  BY <1>1, Invariance, PTL DEF Spec

(* What the renderer takes is newer than what it took before, and is the   *)
(* still picture while there is one; and the slot that it uploads from     *)
(* without a lock is not written before the ring has gone round once.      *)
THEOREM FramesComeInOrder == Spec => FramesInOrder
<1>1. IInv /\ [Next]_vars => InOrder
  <2> SUFFICES ASSUME IInv, [Next]_vars, render = "taking", render' = "uploading", ~raced
               PROVE  shown' > shown /\ (stillpicture => buffers[up'.slot].pic)
    BY DEF InOrder
  <2>1. Rests \/ Empties \/ Fills \/ Counts \/ GetDecBuf \/ Take
    BY RingMoves DEF IInv
  <2>2. Take
    <3>1. ~Rests
      BY DEF Rests
    <3>2. ~Empties /\ ~Fills /\ ~GetDecBuf
      BY DEF Empties, EmptyRing, Fills, Fill, GetDecBuf
    <3>3. ~Counts
      BY DEF Counts, Count, rendering
    <3> QED
      BY <2>1, <3>1, <3>2, <3>3
  <2>3. buf_m = "render" /\ Filling = 0
    BY DEF IInv, Mutexes, Filling
  <2>4. /\ buf_in \in Slots /\ buf_out \in Slots /\ buf_num = Gap(buf_in, buf_out) /\ buf_num # 0
        /\ seen = Indices
    BY <2>3 DEF IInv, Agreed
  <2>5. InRing(buf_out)
    <3>1. Gap(buf_in, buf_out) \in Slots /\ Gap(buf_out, buf_out) = 0
      BY <2>4, GapMoves
    <3> QED
      BY <2>3, <2>4, <3>1, PcAssumption DEF InRing, Slots, PcAssumption
  <2>6. shown < buffers[buf_out].n /\ (stillpicture => buffers[buf_out].pic)
    BY <2>4, <2>5 DEF IInv, Ordered
  <2>7. shown' = buffers[buf_out].n /\ up'.slot = buf_out
    BY <2>2, <2>4 DEF Take, Indices
  <2>8. shown' \in Int /\ shown \in Int
    BY <2>4, <2>7 DEF IInv, Numbers
  <2> QED
    BY <2>6, <2>7, <2>8
<1>2. IInv /\ [Next]_vars => NotWhileUploading
  <2> SUFFICES ASSUME IInv, [Next]_vars, render = "uploading",
                      buffers'[up.slot] # buffers[up.slot], ~up.reset, ~raced
               PROVE  up.room <= 0
    BY DEF NotWhileUploading
  <2>1. Rests \/ Empties \/ Fills \/ Counts \/ GetDecBuf \/ Take
    BY RingMoves DEF IInv
  <2>2. Fills
    <3>1. Rests => buffers' = buffers
      BY DEF Rests, ringVars
    <3>2. Empties \/ Counts => buffers' = buffers
      BY DEF Empties, EmptyRing, Counts, Count
    <3>3. ~GetDecBuf /\ ~Take
      BY DEF GetDecBuf, Take
    <3> QED
      BY <2>1, <3>1, <3>2, <3>3
  <2>3. buf_m = "free" /\ \E frame : buffers' = [buffers EXCEPT ![buf_in] = frame]
    BY <2>2 DEF Fills, Fill
  <2>4. /\ up \in [slot : Slots, room : Int, reset : BOOLEAN] /\ buf_in \in Slots
        /\ buffers \in [Slots -> [n : Nat, pic : BOOLEAN]]
        /\ up.room <= 0 \/ up.room = Gap(up.slot, buf_in) - Filling
    BY DEF IInv, Roomy, Agreed, Numbers
  <2>5. up.slot = buf_in
    BY <2>3, <2>4
  <2>6. Gap(up.slot, buf_in) = 0 /\ Filling = 0
    BY <2>3, <2>4, <2>5, GapMoves DEF Filling
  <2> QED
    BY <2>4, <2>6
<1> QED
  BY <1>1, <1>2, Invariance, PTL DEF Spec, FramesInOrder

(* The part of StopEnds that is about safety: two threads decode at a time *)
(* only after a Stop came before the thread had set its flag, and missed   *)
(* it.                                                                     *)
THEOREM OneDecoder == Spec => [](Cardinality(Live) > 1 => missed)
<1>1. Init => Places /\ One
  <2>1. Init => IInv
    BY InitIInv
  <2>2. Init => Live = {}
    BY DEF Init, Live, Alive
  <2> QED
    BY <2>1, <2>2 DEF IInv, One
<1>2. Places /\ One /\ [Next]_vars => One'
  <2> SUFFICES ASSUME Places, One, [Next]_vars, ~missed' PROVE One'
    BY DEF One
  <2> USE DEF One, Live
  <2>t. th \in [Threads -> {"none", "begun", "flag", "open", "loop", "frame", "insert",
                            "count", "out", "ended"}] /\ tid \in Threads
    BY DEF Places
  <2>1. ASSUME NEW t \in Threads, Start(t) PROVE One'
    <3>1. /\ ~missed /\ missed' = missed /\ Live = {} /\ wanted' = TRUE
          /\ user' = user /\ user = "idle"
      BY <2>1 DEF Start
    <3>2. CASE MayStart
      <4>1. th' = [th EXCEPT ![t] = "begun"] /\ tid' = t
        BY <2>1, <3>2 DEF Start
      <4>2. Live' \subseteq {t}
        BY <2>t, <3>1, <4>1 DEF Alive
      <4> QED
        BY <3>1, <4>1, <4>2
    <3>3. CASE ~MayStart
      <4>1. th' = th /\ tid' = tid
        BY <2>1, <3>3 DEF Start
      <4>2. Live' = Live
        BY <4>1 DEF Alive
      <4> QED
        BY <3>1, <4>2
    <3> QED
      BY <3>2, <3>3
  <2>2. ASSUME NEW t \in Threads, ThreadStep(t) PROVE One'
    <3>1. /\ UNCHANGED <<tid, wanted, user, missed>>
          /\ \E l \in {"flag", "open", "loop", "frame", "insert", "count", "out", "ended"} :
               th' = [th EXCEPT ![t] = l]
          /\ Alive(t)
      <4>1. UNCHANGED <<tid, wanted, user, missed>>
        BY <2>2, Zenon DEF ThreadStep, Begin, SetFlag, LoopEnd, Decode, LockStill, OpenInput,
           FillFrame, CountFrame, End
      <4>2. \E l \in {"flag", "open", "loop", "frame", "insert", "count", "out", "ended"} :
              th' = [th EXCEPT ![t] = l]
        BY <2>2 DEF ThreadStep, Begin, SetFlag, LoopEnd, Decode, LockStill, OpenInput,
           FillFrame, CountFrame, End, Moves
      <4>3. Alive(t)
        BY <2>2 DEF ThreadStep, Begin, SetFlag, LoopEnd, Decode, LockStill, OpenInput,
           FillFrame, CountFrame, End, Moves, Alive
      <4> QED
        BY <4>1, <4>2, <4>3
    <3>2. Live' \subseteq Live
      BY <2>t, <3>1 DEF Alive
    <3> QED
      BY <3>1, <3>2
  <2>3. CASE Stop
    <3>1. /\ UNCHANGED <<th,
                         tid>> /\ wanted' = FALSE /\ missed' = (missed \/ (~running /\ Live # {}))
          /\ user' = IF running THEN "joining" ELSE "idle"
      BY <2>3 DEF Stop
    <3>2. Live' = Live
      BY <3>1 DEF Alive
    <3> QED
      BY <3>1, <3>2
  <2>4. CASE Joined
    <3>1. /\ UNCHANGED <<tid, wanted,
                         missed>> /\ th[tid] = "ended" /\ th' = [th EXCEPT ![tid] = "none"]
      BY <2>4 DEF Joined
    <3>2. Live = {}
      BY <3>1 DEF Alive
    <3>3. Live' = {}
      BY <2>t, <3>1, <3>2 DEF Alive
    <3> QED
      BY <3>3
  <2>5. CASE \/ ShowPicture \/ StopPicture \/ PictureFails \/ FillPicture \/ CountPicture
             \/ GetDecBuf \/ Take \/ UploadEnd \/ UNCHANGED vars
    <3>1. UNCHANGED <<th, tid, wanted, missed>>
      BY <2>5, Zenon DEF ShowPicture, StopPicture, PictureFails, FillPicture, CountPicture,
         GetDecBuf, Take, UploadEnd, vars
    <3>2. user' # "joining" => user # "joining"
      BY <2>5, Zenon DEF ShowPicture, StopPicture, PictureFails, FillPicture, CountPicture,
         GetDecBuf, Take, UploadEnd, vars
    <3>3. Live' = Live
      BY <3>1 DEF Alive
    <3> QED
      BY <3>1, <3>2, <3>3
  <2> QED
    BY <2>1, <2>2, <2>3, <2>4, <2>5 DEF Next, UserCall, UserStep, RenderStep
<1>3. One => (Cardinality(Live) > 1 => missed)
  <2> SUFFICES ASSUME Live \subseteq {tid} PROVE ~(Cardinality(Live) > 1)
    BY DEF One
  <2>1. IsFiniteSet({tid}) /\ Cardinality({tid}) = 1
    BY FS_Singleton
  <2>2. Cardinality(Live) <= 1 /\ Cardinality(Live) \in Nat
    BY <2>1, FS_Subset, FS_CardinalityType
  <2> QED
    BY <2>2
<1>4. IInv => Places
  BY DEF IInv
<1> QED
  BY <1>1, <1>2, <1>3, <1>4, Invariance, PTL DEF Spec

=============================================================================
