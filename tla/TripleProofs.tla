-------------------------- MODULE TripleProofs --------------------------
(***************************************************************************)
(* TLAPS proofs about TriplePlayback, for any number of files and seeks,   *)
(* and, in the second half, about Television, for any modes and outputs.   *)
(*                                                                         *)
(* The inductive invariant has four parts beside the types: Owner (who may *)
(* use the buffer, and where caller and thread can be at the same time),   *)
(* Released (what a thread that is not there has given back), Paused (what *)
(* SetPosition has established when it seeks) and Clean (whose bytes are   *)
(* in the buffer).  Each has a lemma with one step for every action.       *)
(*                                                                         *)
(* Television's has the types and TvControl (where each caller can be, and *)
(* with which local values), TvPicture (the mutex of the still picture and *)
(* what its holder writes) and TvScreen, what display, output and SCART    *)
(* pins are at each place of the calls that set them.  Most steps leave    *)
(* one of these alone: Mute and Quiet say so once for all such steps.      *)
(***************************************************************************)
EXTENDS MCTriple, FiniteSetTheorems, TLAPS

Alive == pc \in InLoop \cup {"cleanup"}

(* A thread that is alive has been announced and owns the file and the     *)
(* buffer; one that is about to begin has Start waiting for it; there is   *)
(* none before Start and none behind Close.                                *)
Owner ==
  /\ pc \in {"none", "born", "cleanup", "gone"} \cup InLoop
  /\ Alive => thread_started /\ inbuf /\ file /\ filelist
  /\ pc = "born" => user = "cond wait" /\ inbuf /\ file /\ filelist
  /\ user = "cond wait" => pc \in {"born", "gone"}
  /\ user \in {"closed", "opened", "failed"} => pc = "none"
  /\ ret \in {"idle", "acknowledge", "restart video"}

(* Without a thread the demux takes the channel and the DVR is closed, and *)
(* only a command that came too late has devices running.                  *)
Released == ~Alive => source = "channel" /\ ~dvr /\ (~unserved => running = {})

(* While SetPosition seeks, the speed is 0 and playstate is PAUSE, so that *)
(* a thread that is not yet using the buffer will not begin to.            *)
Paused ==
  /\ user \in {"acknowledge", "seek", "fill"} => playback_speed = 0
  /\ ret = "acknowledge" /\ user \in {"set speed", "store speed"} => want = 0
  /\ user \in {"seek", "fill"} => playstate = "PAUSE"
  /\ pc = "init" => playstate # "PAUSE"

(* All of the buffer is from the present place of the file or, between     *)
(* mp_seekSync and the refill, all of it is from the place before.         *)
Clean ==
  ~rash => /\ user # "fill" => data \subseteq {place}
           /\ user = "fill" => /\ data \subseteq {place - 1}
                              /\ pc \notin {"read", "init"}

IInv == TypeOK /\ Owner /\ Released /\ Paused /\ Clean

-----------------------------------------------------------------------------
(* The initial states satisfy the invariant: nothing exists yet. *)
LEMMA InitIInv == Init => IInv
<1> SUFFICES ASSUME Init
             PROVE  IInv
  OBVIOUS
<1>1. TypeOK
  <2>1. Flags
    BY Zenon DEF Init, Flags
  <2>2. Positions
    BY DEF Init, Positions, InLoop
  <2>4. Numbers
    BY TripleAssumption DEF TripleAssumption, Init, Numbers
  <2>3. Places /\ DvrOpen
    BY DEF Init, Places, DvrOpen, InLoop
  <2> QED
    BY <2>1, <2>2, <2>3, <2>4 DEF TypeOK
<1>2. Owner /\ Released /\ Paused /\ Clean
  BY DEF Init, Owner, Released, Paused, Clean, Alive, InLoop
<1> QED
  BY <1>1, <1>2 DEF IInv

(* Every step keeps the flags Boolean. *)
LEMMA FlagsStep ==
  ASSUME Flags, [Next]_vars
  PROVE  Flags'
<1> USE DEF vars, state, ready, device, buffer, caller, ghost, ThreadFrame,
            CallerFrame, At, Flags
<1>1. CASE Open
  BY <1>1, Zenon DEF Open
<1>2. CASE StartFails
  BY <1>2, Zenon DEF StartFails
<1>3. CASE Start
  BY <1>3, Zenon DEF Start
<1>4. CASE SetSpeed
  BY <1>4, Zenon DEF SetSpeed, EnterSetSpeed
<1>5. CASE GetPosition
  BY <1>5, Zenon DEF GetPosition
<1>5a. CASE GetPositionGoesOn
  BY <1>5a, Zenon DEF GetPositionGoesOn, AskForPause, EnterSetSpeed
<1>6. CASE SetAPid
  BY <1>6, Zenon DEF SetAPid, Commanded, RestartDevices
<1>7. CASE SetPosition
  BY <1>7, Zenon DEF SetPosition, AskForPause, EnterSetSpeed
<1>8. CASE Close
  BY <1>8, Zenon DEF Close
<1>9. CASE SetSpeedPlay
  BY <1>9, Zenon DEF SetSpeedPlay, Commanded
<1>10. CASE SetSpeedStore
  BY <1>10, Zenon DEF SetSpeedStore
<1>11. CASE SetPositionGoesOn
  BY <1>11, Zenon DEF SetPositionGoesOn, MaySeek
<1>12. CASE SeekSync
  BY <1>12, Zenon DEF SeekSync
<1>13. CASE SeekFill
  BY <1>13, Zenon DEF SeekFill, Refilled
<1>14. CASE Resume
  BY <1>14, Zenon DEF Resume, EnterSetSpeed
<1>15. CASE RestartVideo
  BY <1>15, Zenon DEF RestartVideo, Commanded
<1>16. CASE CloseFinish
  BY <1>16, Zenon DEF CloseFinish, Joined
<1>17. CASE ThreadReady
  BY <1>17, Zenon DEF ThreadReady, Signalled
<1>18. CASE ThreadNoDvr
  BY <1>18, Zenon DEF ThreadNoDvr
<1>19. CASE LoopTest
  BY <1>19, Zenon DEF LoopTest
<1>20. CASE InitRead
  BY <1>20, Zenon DEF InitRead, Read, Spinning
<1>21. CASE SpeedTest
  BY <1>21, Zenon DEF SpeedTest
<1>22. CASE Pause
  BY <1>22, Zenon DEF Pause, Acknowledged
<1>23. CASE PlayRead
  BY <1>23, Zenon DEF PlayRead, Read, Spinning
<1>24. CASE SelectAPid
  BY <1>24, Zenon DEF SelectAPid, RestartDevices
<1>25. CASE Write
  BY <1>25, Zenon DEF Write
<1>26. CASE WriteRetry
  BY <1>26, Zenon DEF WriteRetry, MayRetry
<1>27. CASE WriteFails
  BY <1>27, Zenon DEF WriteFails
<1>28. CASE Cleanup
  BY <1>28, Zenon DEF Cleanup, LeftRunning, DvrAfter
<1>29. CASE UNCHANGED vars
  BY <1>29
<1> QED
  BY <1>1, <1>2, <1>3, <1>4, <1>5, <1>5a, <1>6, <1>7, <1>8, <1>9, <1>10, <1>11,
     <1>12, <1>13, <1>14, <1>15, <1>16, <1>17, <1>18, <1>19, <1>20, <1>21, <1>22,
     <1>23, <1>24, <1>25, <1>26, <1>27, <1>28, <1>29
     DEF Next, UserCall, UserGoesOn, Thread

(* Caller, thread and the plain state stay within their values. *)
LEMMA PositionsStep ==
  ASSUME Positions, [Next]_vars
  PROVE  Positions'
<1> USE DEF vars, state, ready, device, buffer, caller, ghost, ThreadFrame,
            CallerFrame, At, Positions, InLoop
<1>1. CASE Open
  BY <1>1 DEF Open
<1>2. CASE StartFails
  BY <1>2 DEF StartFails
<1>3. CASE Start
  BY <1>3 DEF Start
<1>4. CASE SetSpeed
  BY <1>4 DEF SetSpeed, EnterSetSpeed
<1>5. CASE GetPosition
  BY <1>5 DEF GetPosition
<1>5a. CASE GetPositionGoesOn
  BY <1>5a DEF GetPositionGoesOn, AskForPause, EnterSetSpeed
<1>6. CASE SetAPid
  BY <1>6 DEF SetAPid, Commanded, RestartDevices
<1>7. CASE SetPosition
  BY <1>7 DEF SetPosition, AskForPause, EnterSetSpeed
<1>8. CASE Close
  BY <1>8 DEF Close
<1>9. CASE SetSpeedPlay
  BY <1>9 DEF SetSpeedPlay, Commanded
<1>10. CASE SetSpeedStore
  BY <1>10 DEF SetSpeedStore
<1>11. CASE SetPositionGoesOn
  BY <1>11 DEF SetPositionGoesOn, MaySeek
<1>12. CASE SeekSync
  BY <1>12 DEF SeekSync
<1>13. CASE SeekFill
  BY <1>13 DEF SeekFill, Refilled
<1>14. CASE Resume
  BY <1>14 DEF Resume, EnterSetSpeed
<1>15. CASE RestartVideo
  BY <1>15 DEF RestartVideo, Commanded
<1>16. CASE CloseFinish
  BY <1>16 DEF CloseFinish, Joined
<1>17. CASE ThreadReady
  BY <1>17 DEF ThreadReady, Signalled
<1>18. CASE ThreadNoDvr
  BY <1>18 DEF ThreadNoDvr
<1>19. CASE LoopTest
  BY <1>19 DEF LoopTest
<1>20. CASE InitRead
  BY <1>20 DEF InitRead, Read, Spinning
<1>21. CASE SpeedTest
  BY <1>21 DEF SpeedTest
<1>22. CASE Pause
  BY <1>22 DEF Pause, Acknowledged
<1>23. CASE PlayRead
  BY <1>23 DEF PlayRead, Read, Spinning
<1>24. CASE SelectAPid
  BY <1>24 DEF SelectAPid, RestartDevices
<1>25. CASE Write
  BY <1>25 DEF Write
<1>26. CASE WriteRetry
  BY <1>26 DEF WriteRetry, MayRetry
<1>27. CASE WriteFails
  BY <1>27 DEF WriteFails
<1>28. CASE Cleanup
  BY <1>28 DEF Cleanup, LeftRunning, DvrAfter
<1>29. CASE UNCHANGED vars
  BY <1>29
<1> QED
  BY <1>1, <1>2, <1>3, <1>4, <1>5, <1>5a, <1>6, <1>7, <1>8, <1>9, <1>10, <1>11,
     <1>12, <1>13, <1>14, <1>15, <1>16, <1>17, <1>18, <1>19, <1>20, <1>21, <1>22,
     <1>23, <1>24, <1>25, <1>26, <1>27, <1>28, <1>29
     DEF Next, UserCall, UserGoesOn, Thread

(* The speeds are among those that SetSpeed was asked for, and the counts  *)
(* stay within their bounds.                                               *)
LEMMA NumbersStep ==
  ASSUME Numbers, [Next]_vars
  PROVE  Numbers'
<1> USE DEF vars, state, ready, device, buffer, caller, ghost, ThreadFrame,
            CallerFrame, At, Numbers
<1>1. CASE Open
  BY <1>1, TripleAssumption DEF Open,
     TripleAssumption
<1>2. CASE StartFails
  BY <1>2, TripleAssumption DEF StartFails,
     TripleAssumption
<1>3. CASE Start
  <2>1. /\ playback_speed' = 0 /\ place' = 0
        /\ starts < MaxStarts /\ starts' = starts + 1
        /\ UNCHANGED <<want, oldspeed>>
    BY <1>3 DEF Start
  <2> QED
    BY <2>1, TripleAssumption DEF TripleAssumption
<1>4. CASE SetSpeed
  BY <1>4, TripleAssumption DEF SetSpeed, EnterSetSpeed,
     TripleAssumption
<1>5. CASE GetPosition
  BY <1>5, TripleAssumption DEF GetPosition,
     TripleAssumption
<1>5a. CASE GetPositionGoesOn
  <2>1. /\ oldspeed' \in {oldspeed, playback_speed} /\ want' \in {want, 0}
        /\ UNCHANGED <<playback_speed, starts, place>>
    BY <1>5a DEF GetPositionGoesOn, AskForPause, EnterSetSpeed
  <2> QED
    BY <2>1
<1>6. CASE SetAPid
  BY <1>6, TripleAssumption DEF SetAPid, Commanded, RestartDevices,
     TripleAssumption
<1>7. CASE SetPosition
  <2>1. /\ oldspeed' = playback_speed /\ want' = 0
        /\ UNCHANGED <<playback_speed, starts, place>>
    BY <1>7 DEF SetPosition, AskForPause, EnterSetSpeed
  <2> QED
    BY <2>1
<1>8. CASE Close
  BY <1>8, TripleAssumption DEF Close,
     TripleAssumption
<1>9. CASE SetSpeedPlay
  BY <1>9, TripleAssumption DEF SetSpeedPlay, Commanded,
     TripleAssumption
<1>10. CASE SetSpeedStore
  BY <1>10, TripleAssumption DEF SetSpeedStore,
     TripleAssumption
<1>11. CASE SetPositionGoesOn
  BY <1>11, TripleAssumption DEF SetPositionGoesOn, MaySeek,
     TripleAssumption
<1>12. CASE SeekSync
  BY <1>12, TripleAssumption DEF SeekSync,
     TripleAssumption
<1>13. CASE SeekFill
  BY <1>13, TripleAssumption DEF SeekFill, Refilled,
     TripleAssumption
<1>14. CASE Resume
  BY <1>14, TripleAssumption DEF Resume, EnterSetSpeed,
     TripleAssumption
<1>15. CASE RestartVideo
  BY <1>15, TripleAssumption DEF RestartVideo, Commanded,
     TripleAssumption
<1>16. CASE CloseFinish
  BY <1>16, TripleAssumption DEF CloseFinish, Joined,
     TripleAssumption
<1>17. CASE ThreadReady
  BY <1>17, TripleAssumption DEF ThreadReady, Signalled,
     TripleAssumption
<1>18. CASE ThreadNoDvr
  BY <1>18, TripleAssumption DEF ThreadNoDvr,
     TripleAssumption
<1>19. CASE LoopTest
  BY <1>19, TripleAssumption DEF LoopTest,
     TripleAssumption
<1>20. CASE InitRead
  BY <1>20, TripleAssumption DEF InitRead, Read, Spinning,
     TripleAssumption
<1>21. CASE SpeedTest
  BY <1>21, TripleAssumption DEF SpeedTest,
     TripleAssumption
<1>22. CASE Pause
  BY <1>22, TripleAssumption DEF Pause, Acknowledged,
     TripleAssumption
<1>23. CASE PlayRead
  BY <1>23, TripleAssumption DEF PlayRead, Read, Spinning,
     TripleAssumption
<1>24. CASE SelectAPid
  BY <1>24, TripleAssumption DEF SelectAPid, RestartDevices,
     TripleAssumption
<1>25. CASE Write
  BY <1>25, TripleAssumption DEF Write,
     TripleAssumption
<1>26. CASE WriteRetry
  BY <1>26, TripleAssumption DEF WriteRetry, MayRetry,
     TripleAssumption
<1>27. CASE WriteFails
  BY <1>27, TripleAssumption DEF WriteFails,
     TripleAssumption
<1>28. CASE Cleanup
  BY <1>28, TripleAssumption DEF Cleanup, LeftRunning, DvrAfter,
     TripleAssumption
<1>29. CASE UNCHANGED vars
  BY <1>29
<1> QED
  BY <1>1, <1>2, <1>3, <1>4, <1>5, <1>5a, <1>6, <1>7, <1>8, <1>9, <1>10, <1>11,
     <1>12, <1>13, <1>14, <1>15, <1>16, <1>17, <1>18, <1>19, <1>20, <1>21, <1>22,
     <1>23, <1>24, <1>25, <1>26, <1>27, <1>28, <1>29
     DEF Next, UserCall, UserGoesOn, Thread

(* The buffer only ever holds bytes from places that were reached. *)
LEMMA PlacesStep ==
  ASSUME Places, place \in Nat, [Next]_vars
  PROVE  Places'
<1> USE DEF vars, state, ready, device, buffer, caller, ghost, ThreadFrame,
            CallerFrame, At, Places, Devices, Decoders
<1>1. CASE Open
  BY <1>1 DEF Open
<1>2. CASE StartFails
  BY <1>2 DEF StartFails
<1>3. CASE Start
  <2>1. place' = 0 /\ data' \subseteq {0} /\ UNCHANGED <<source, running>>
    BY <1>3 DEF Start
  <2>2. 0 \in 0..0
    OBVIOUS
  <2> QED
    BY <2>1, <2>2
<1>4. CASE SetSpeed
  BY <1>4 DEF SetSpeed, EnterSetSpeed
<1>5. CASE GetPosition
  BY <1>5 DEF GetPosition
<1>5a. CASE GetPositionGoesOn
  BY <1>5a DEF GetPositionGoesOn, AskForPause, EnterSetSpeed
<1>6. CASE SetAPid
  BY <1>6 DEF SetAPid, Commanded, RestartDevices
<1>7. CASE SetPosition
  BY <1>7 DEF SetPosition, AskForPause, EnterSetSpeed
<1>8. CASE Close
  BY <1>8 DEF Close
<1>9. CASE SetSpeedPlay
  BY <1>9 DEF SetSpeedPlay, Commanded
<1>10. CASE SetSpeedStore
  BY <1>10 DEF SetSpeedStore
<1>11. CASE SetPositionGoesOn
  BY <1>11 DEF SetPositionGoesOn, MaySeek
<1>12. CASE SeekSync
  BY <1>12 DEF SeekSync
<1>13. CASE SeekFill
  BY <1>13 DEF SeekFill, Refilled
<1>14. CASE Resume
  BY <1>14 DEF Resume, EnterSetSpeed
<1>15. CASE RestartVideo
  BY <1>15 DEF RestartVideo, Commanded
<1>16. CASE CloseFinish
  BY <1>16 DEF CloseFinish, Joined
<1>17. CASE ThreadReady
  BY <1>17 DEF ThreadReady, Signalled
<1>18. CASE ThreadNoDvr
  BY <1>18 DEF ThreadNoDvr
<1>19. CASE LoopTest
  BY <1>19 DEF LoopTest
<1>20. CASE InitRead
  <2>1. data' \subseteq data \cup {place}
    BY <1>20 DEF InitRead, Read, Spinning
  <2>2. UNCHANGED <<place, source, running>>
    BY <1>20 DEF InitRead
  <2>3. place \in 0..place
    OBVIOUS
  <2> QED
    BY <2>1, <2>2, <2>3
<1>21. CASE SpeedTest
  BY <1>21 DEF SpeedTest
<1>22. CASE Pause
  BY <1>22 DEF Pause, Acknowledged
<1>23. CASE PlayRead
  <2>1. data' \subseteq data \cup {place}
    BY <1>23 DEF PlayRead, Read, Spinning
  <2>2. UNCHANGED <<place, source, running>>
    BY <1>23 DEF PlayRead
  <2>3. place \in 0..place
    OBVIOUS
  <2> QED
    BY <2>1, <2>2, <2>3
<1>24. CASE SelectAPid
  BY <1>24 DEF SelectAPid, RestartDevices
<1>25. CASE Write
  BY <1>25 DEF Write
<1>26. CASE WriteRetry
  BY <1>26 DEF WriteRetry, MayRetry
<1>27. CASE WriteFails
  BY <1>27 DEF WriteFails
<1>28. CASE Cleanup
  BY <1>28 DEF Cleanup, LeftRunning, DvrAfter
<1>29. CASE UNCHANGED vars
  BY <1>29
<1> QED
  BY <1>1, <1>2, <1>3, <1>4, <1>5, <1>5a, <1>6, <1>7, <1>8, <1>9, <1>10, <1>11,
     <1>12, <1>13, <1>14, <1>15, <1>16, <1>17, <1>18, <1>19, <1>20, <1>21, <1>22,
     <1>23, <1>24, <1>25, <1>26, <1>27, <1>28, <1>29
     DEF Next, UserCall, UserGoesOn, Thread

(* The DVR is opened and closed by the thread, at the ends of its loop. *)
LEMMA DvrStep ==
  ASSUME Owner, Positions, DvrOpen, [Next]_vars
  PROVE  DvrOpen'
<1> USE DEF vars, state, ready, device, buffer, caller, ghost, ThreadFrame,
            CallerFrame, At, Owner, Positions, DvrOpen, InLoop
<1>1. CASE Open
  BY <1>1 DEF Open
<1>2. CASE StartFails
  BY <1>2 DEF StartFails
<1>3. CASE Start
  <2>1. pc = "none" /\ pc' \in {"none", "born"}
    BY <1>3 DEF Start
  <2>2. dvr' = dvr
    BY <1>3 DEF Start
  <2> QED
    BY <2>1, <2>2
<1>4. CASE SetSpeed
  BY <1>4 DEF SetSpeed, EnterSetSpeed
<1>5. CASE GetPosition
  BY <1>5 DEF GetPosition
<1>5a. CASE GetPositionGoesOn
  BY <1>5a DEF GetPositionGoesOn, AskForPause, EnterSetSpeed
<1>6. CASE SetAPid
  BY <1>6 DEF SetAPid, Commanded, RestartDevices
<1>7. CASE SetPosition
  BY <1>7 DEF SetPosition, AskForPause, EnterSetSpeed
<1>8. CASE Close
  BY <1>8 DEF Close
<1>9. CASE SetSpeedPlay
  BY <1>9 DEF SetSpeedPlay, Commanded
<1>10. CASE SetSpeedStore
  BY <1>10 DEF SetSpeedStore
<1>11. CASE SetPositionGoesOn
  BY <1>11 DEF SetPositionGoesOn, MaySeek
<1>12. CASE SeekSync
  BY <1>12 DEF SeekSync
<1>13. CASE SeekFill
  BY <1>13 DEF SeekFill, Refilled
<1>14. CASE Resume
  BY <1>14 DEF Resume, EnterSetSpeed
<1>15. CASE RestartVideo
  BY <1>15 DEF RestartVideo, Commanded
<1>16. CASE CloseFinish
  BY <1>16 DEF CloseFinish, Joined
<1>17. CASE ThreadReady
  BY <1>17 DEF ThreadReady, Signalled
<1>18. CASE ThreadNoDvr
  BY <1>18 DEF ThreadNoDvr
<1>19. CASE LoopTest
  BY <1>19 DEF LoopTest
<1>20. CASE InitRead
  BY <1>20 DEF InitRead, Read, Spinning
<1>21. CASE SpeedTest
  BY <1>21 DEF SpeedTest
<1>22. CASE Pause
  BY <1>22 DEF Pause, Acknowledged
<1>23. CASE PlayRead
  BY <1>23 DEF PlayRead, Read, Spinning
<1>24. CASE SelectAPid
  BY <1>24 DEF SelectAPid, RestartDevices
<1>25. CASE Write
  BY <1>25 DEF Write
<1>26. CASE WriteRetry
  BY <1>26 DEF WriteRetry, MayRetry
<1>27. CASE WriteFails
  BY <1>27 DEF WriteFails
<1>28. CASE Cleanup
  BY <1>28 DEF Cleanup, LeftRunning, DvrAfter
<1>29. CASE UNCHANGED vars
  BY <1>29
<1> QED
  BY <1>1, <1>2, <1>3, <1>4, <1>5, <1>5a, <1>6, <1>7, <1>8, <1>9, <1>10, <1>11,
     <1>12, <1>13, <1>14, <1>15, <1>16, <1>17, <1>18, <1>19, <1>20, <1>21, <1>22,
     <1>23, <1>24, <1>25, <1>26, <1>27, <1>28, <1>29
     DEF Next, UserCall, UserGoesOn, Thread

(* No step takes the buffer or the file from a thread that is alive: only  *)
(* CloseFinish gives them back, and it waits for the thread.               *)
LEMMA OwnerStep ==
  ASSUME Owner, [Next]_vars
  PROVE  Owner'
<1> USE DEF vars, state, ready, device, buffer, caller, ghost, ThreadFrame,
            CallerFrame, At, Owner, Alive, InLoop
<1>1. CASE Open
  BY <1>1 DEF Open
<1>2. CASE StartFails
  BY <1>2 DEF StartFails
<1>3. CASE Start
  BY <1>3 DEF Start
<1>4. CASE SetSpeed
  BY <1>4 DEF SetSpeed, EnterSetSpeed
<1>5. CASE GetPosition
  BY <1>5 DEF GetPosition
<1>5a. CASE GetPositionGoesOn
  BY <1>5a DEF GetPositionGoesOn, AskForPause, EnterSetSpeed
<1>6. CASE SetAPid
  BY <1>6 DEF SetAPid, Commanded, RestartDevices
<1>7. CASE SetPosition
  BY <1>7 DEF SetPosition, AskForPause, EnterSetSpeed
<1>8. CASE Close
  BY <1>8 DEF Close
<1>9. CASE SetSpeedPlay
  BY <1>9 DEF SetSpeedPlay, Commanded
<1>10. CASE SetSpeedStore
  BY <1>10 DEF SetSpeedStore
<1>11. CASE SetPositionGoesOn
  BY <1>11 DEF SetPositionGoesOn, MaySeek
<1>12. CASE SeekSync
  BY <1>12 DEF SeekSync
<1>13. CASE SeekFill
  BY <1>13 DEF SeekFill, Refilled
<1>14. CASE Resume
  BY <1>14 DEF Resume, EnterSetSpeed
<1>15. CASE RestartVideo
  BY <1>15 DEF RestartVideo, Commanded
<1>16. CASE CloseFinish
  BY <1>16 DEF CloseFinish, Joined
<1>17. CASE ThreadReady
  BY <1>17 DEF ThreadReady, Signalled
<1>18. CASE ThreadNoDvr
  BY <1>18 DEF ThreadNoDvr
<1>19. CASE LoopTest
  BY <1>19 DEF LoopTest
<1>20. CASE InitRead
  BY <1>20 DEF InitRead, Read, Spinning
<1>21. CASE SpeedTest
  BY <1>21 DEF SpeedTest
<1>22. CASE Pause
  BY <1>22 DEF Pause, Acknowledged
<1>23. CASE PlayRead
  BY <1>23 DEF PlayRead, Read, Spinning
<1>24. CASE SelectAPid
  BY <1>24 DEF SelectAPid, RestartDevices
<1>25. CASE Write
  BY <1>25 DEF Write
<1>26. CASE WriteRetry
  BY <1>26 DEF WriteRetry, MayRetry
<1>27. CASE WriteFails
  BY <1>27 DEF WriteFails
<1>28. CASE Cleanup
  BY <1>28 DEF Cleanup, LeftRunning, DvrAfter
<1>29. CASE UNCHANGED vars
  BY <1>29
<1> QED
  BY <1>1, <1>2, <1>3, <1>4, <1>5, <1>5a, <1>6, <1>7, <1>8, <1>9, <1>10, <1>11,
     <1>12, <1>13, <1>14, <1>15, <1>16, <1>17, <1>18, <1>19, <1>20, <1>21, <1>22,
     <1>23, <1>24, <1>25, <1>26, <1>27, <1>28, <1>29
     DEF Next, UserCall, UserGoesOn, Thread

(* The cleanup handler is the only way out of the loop, and it gives back  *)
(* the devices.                                                            *)
LEMMA ReleasedStep ==
  ASSUME Owner, Released, [Next]_vars
  PROVE  Released'
<1> USE DEF vars, state, ready, device, buffer, caller, ghost, ThreadFrame,
            CallerFrame, At, Owner, Released, Alive, InLoop
<1>1. CASE Open
  BY <1>1 DEF Open
<1>2. CASE StartFails
  BY <1>2 DEF StartFails
<1>3. CASE Start
  BY <1>3 DEF Start
<1>4. CASE SetSpeed
  BY <1>4 DEF SetSpeed, EnterSetSpeed
<1>5. CASE GetPosition
  BY <1>5 DEF GetPosition
<1>5a. CASE GetPositionGoesOn
  BY <1>5a DEF GetPositionGoesOn, AskForPause, EnterSetSpeed
<1>6. CASE SetAPid
  BY <1>6 DEF SetAPid, Commanded, RestartDevices
<1>7. CASE SetPosition
  BY <1>7 DEF SetPosition, AskForPause, EnterSetSpeed
<1>8. CASE Close
  BY <1>8 DEF Close
<1>9. CASE SetSpeedPlay
  BY <1>9 DEF SetSpeedPlay, Commanded
<1>10. CASE SetSpeedStore
  BY <1>10 DEF SetSpeedStore
<1>11. CASE SetPositionGoesOn
  BY <1>11 DEF SetPositionGoesOn, MaySeek
<1>12. CASE SeekSync
  BY <1>12 DEF SeekSync
<1>13. CASE SeekFill
  BY <1>13 DEF SeekFill, Refilled
<1>14. CASE Resume
  BY <1>14 DEF Resume, EnterSetSpeed
<1>15. CASE RestartVideo
  BY <1>15 DEF RestartVideo, Commanded
<1>16. CASE CloseFinish
  BY <1>16 DEF CloseFinish, Joined
<1>17. CASE ThreadReady
  BY <1>17 DEF ThreadReady, Signalled
<1>18. CASE ThreadNoDvr
  BY <1>18 DEF ThreadNoDvr
<1>19. CASE LoopTest
  BY <1>19 DEF LoopTest
<1>20. CASE InitRead
  BY <1>20 DEF InitRead, Read, Spinning
<1>21. CASE SpeedTest
  BY <1>21 DEF SpeedTest
<1>22. CASE Pause
  BY <1>22 DEF Pause, Acknowledged
<1>23. CASE PlayRead
  BY <1>23 DEF PlayRead, Read, Spinning
<1>24. CASE SelectAPid
  BY <1>24 DEF SelectAPid, RestartDevices
<1>25. CASE Write
  BY <1>25 DEF Write
<1>26. CASE WriteRetry
  BY <1>26 DEF WriteRetry, MayRetry
<1>27. CASE WriteFails
  BY <1>27 DEF WriteFails
<1>28. CASE Cleanup
  BY <1>28 DEF Cleanup, LeftRunning, DvrAfter
<1>29. CASE UNCHANGED vars
  BY <1>29
<1> QED
  BY <1>1, <1>2, <1>3, <1>4, <1>5, <1>5a, <1>6, <1>7, <1>8, <1>9, <1>10, <1>11,
     <1>12, <1>13, <1>14, <1>15, <1>16, <1>17, <1>18, <1>19, <1>20, <1>21, <1>22,
     <1>23, <1>24, <1>25, <1>26, <1>27, <1>28, <1>29
     DEF Next, UserCall, UserGoesOn, Thread

(* SetPosition goes on to seek only in PAUSE with speed 0, and no step of  *)
(* the thread changes either.                                              *)
LEMMA PausedStep ==
  ASSUME Owner, Paused, [Next]_vars
  PROVE  Paused'
<1> USE DEF vars, state, ready, device, buffer, caller, ghost, ThreadFrame,
            CallerFrame, At, Owner, Paused, Alive, InLoop
<1>1. CASE Open
  BY <1>1 DEF Open
<1>2. CASE StartFails
  BY <1>2 DEF StartFails
<1>3. CASE Start
  BY <1>3 DEF Start
<1>4. CASE SetSpeed
  BY <1>4 DEF SetSpeed, EnterSetSpeed
<1>5. CASE GetPosition
  BY <1>5 DEF GetPosition
<1>5a. CASE GetPositionGoesOn
  BY <1>5a DEF GetPositionGoesOn, AskForPause, EnterSetSpeed
<1>6. CASE SetAPid
  BY <1>6 DEF SetAPid, Commanded, RestartDevices
<1>7. CASE SetPosition
  BY <1>7 DEF SetPosition, AskForPause, EnterSetSpeed
<1>8. CASE Close
  BY <1>8 DEF Close
<1>9. CASE SetSpeedPlay
  BY <1>9 DEF SetSpeedPlay, Commanded
<1>10. CASE SetSpeedStore
  BY <1>10 DEF SetSpeedStore
<1>11. CASE SetPositionGoesOn
  BY <1>11 DEF SetPositionGoesOn, MaySeek
<1>12. CASE SeekSync
  BY <1>12 DEF SeekSync
<1>13. CASE SeekFill
  BY <1>13 DEF SeekFill, Refilled
<1>14. CASE Resume
  BY <1>14 DEF Resume, EnterSetSpeed
<1>15. CASE RestartVideo
  BY <1>15 DEF RestartVideo, Commanded
<1>16. CASE CloseFinish
  BY <1>16 DEF CloseFinish, Joined
<1>17. CASE ThreadReady
  BY <1>17 DEF ThreadReady, Signalled
<1>18. CASE ThreadNoDvr
  BY <1>18 DEF ThreadNoDvr
<1>19. CASE LoopTest
  BY <1>19 DEF LoopTest
<1>20. CASE InitRead
  BY <1>20 DEF InitRead, Read, Spinning
<1>21. CASE SpeedTest
  BY <1>21 DEF SpeedTest
<1>22. CASE Pause
  BY <1>22 DEF Pause, Acknowledged
<1>23. CASE PlayRead
  BY <1>23 DEF PlayRead, Read, Spinning
<1>24. CASE SelectAPid
  BY <1>24 DEF SelectAPid, RestartDevices
<1>25. CASE Write
  BY <1>25 DEF Write
<1>26. CASE WriteRetry
  BY <1>26 DEF WriteRetry, MayRetry
<1>27. CASE WriteFails
  BY <1>27 DEF WriteFails
<1>28. CASE Cleanup
  BY <1>28 DEF Cleanup, LeftRunning, DvrAfter
<1>29. CASE UNCHANGED vars
  BY <1>29
<1> QED
  BY <1>1, <1>2, <1>3, <1>4, <1>5, <1>5a, <1>6, <1>7, <1>8, <1>9, <1>10, <1>11,
     <1>12, <1>13, <1>14, <1>15, <1>16, <1>17, <1>18, <1>19, <1>20, <1>21, <1>22,
     <1>23, <1>24, <1>25, <1>26, <1>27, <1>28, <1>29
     DEF Next, UserCall, UserGoesOn, Thread

(* Arithmetic of one step of the place. *)
LEMMA PlusMinus == \A p \in Nat : (p + 1) - 1 = p
OBVIOUS

(* A seek that finds the thread at rest keeps the bytes of two places      *)
(* apart: the thread does not read while SetPosition holds the pause, and  *)
(* the refill throws the old bytes away.                                   *)
LEMMA CleanStep ==
  ASSUME Owner, Paused, Clean, place \in Nat, [Next]_vars
  PROVE  Clean'
<1> USE DEF vars, state, ready, device, buffer, caller, ghost, ThreadFrame,
            CallerFrame, At, Owner, Paused, Clean, Alive, InLoop, UsesInbuf
<1>1. CASE Open
  BY <1>1 DEF Open
<1>2. CASE StartFails
  BY <1>2 DEF StartFails
<1>3. CASE Start
  BY <1>3 DEF Start
<1>4. CASE SetSpeed
  BY <1>4 DEF SetSpeed, EnterSetSpeed
<1>5. CASE GetPosition
  BY <1>5 DEF GetPosition
<1>5a. CASE GetPositionGoesOn
  BY <1>5a DEF GetPositionGoesOn, AskForPause, EnterSetSpeed
<1>6. CASE SetAPid
  BY <1>6 DEF SetAPid, Commanded, RestartDevices
<1>7. CASE SetPosition
  BY <1>7 DEF SetPosition, AskForPause, EnterSetSpeed
<1>8. CASE Close
  BY <1>8 DEF Close
<1>9. CASE SetSpeedPlay
  BY <1>9 DEF SetSpeedPlay, Commanded
<1>10. CASE SetSpeedStore
  BY <1>10 DEF SetSpeedStore
<1>11. CASE SetPositionGoesOn
  BY <1>11 DEF SetPositionGoesOn, MaySeek
<1>12. CASE SeekSync
  <2>1. CASE place' = place + 1 /\ user' = "fill"
    <3> SUFFICES ASSUME ~rash'
                 PROVE  data' \subseteq {place' - 1} /\ pc' \notin {"read", "init"}
      BY <2>1
    <3>1. ~rash /\ pc \notin UsesInbuf
      BY <1>12, <2>1 DEF SeekSync
    <3>2. user = "seek" /\ data' = data /\ pc' = pc
      BY <1>12 DEF SeekSync
    <3>3. data \subseteq {place} /\ pc # "init"
      BY <3>1, <3>2
    <3>4. place' - 1 = place
      BY <2>1, PlusMinus
    <3> QED
      BY <3>1, <3>2, <3>3, <3>4
  <2>2. CASE user' = "resume" /\ UNCHANGED <<place, rash>>
    BY <1>12, <2>2 DEF SeekSync
  <2> QED
    BY <1>12, <2>1, <2>2 DEF SeekSync
<1>13. CASE SeekFill
  BY <1>13 DEF SeekFill, Refilled
<1>14. CASE Resume
  BY <1>14 DEF Resume, EnterSetSpeed
<1>15. CASE RestartVideo
  BY <1>15 DEF RestartVideo, Commanded
<1>16. CASE CloseFinish
  BY <1>16 DEF CloseFinish, Joined
<1>17. CASE ThreadReady
  BY <1>17 DEF ThreadReady, Signalled
<1>18. CASE ThreadNoDvr
  BY <1>18 DEF ThreadNoDvr
<1>19. CASE LoopTest
  <2> SUFFICES ASSUME ~rash'
               PROVE  /\ user' # "fill" => data' \subseteq {place'}
                      /\ user' = "fill" => /\ data' \subseteq {place' - 1}
                                          /\ pc' \notin {"read", "init"}
    OBVIOUS
  <2>1. UNCHANGED <<rash, user, data, place>>
    BY <1>19 DEF LoopTest
  <2>3. ~rash
    BY <2>1
  <2>2. user = "fill" => pc' \notin {"read", "init"}
    BY <1>19 DEF LoopTest
  <2> QED
    BY <2>1, <2>2, <2>3
<1>20. CASE InitRead
  BY <1>20 DEF InitRead, Read, Spinning
<1>21. CASE SpeedTest
  BY <1>21 DEF SpeedTest
<1>22. CASE Pause
  BY <1>22 DEF Pause, Acknowledged
<1>23. CASE PlayRead
  BY <1>23 DEF PlayRead, Read, Spinning
<1>24. CASE SelectAPid
  BY <1>24 DEF SelectAPid, RestartDevices
<1>25. CASE Write
  BY <1>25 DEF Write
<1>26. CASE WriteRetry
  BY <1>26 DEF WriteRetry, MayRetry
<1>27. CASE WriteFails
  BY <1>27 DEF WriteFails
<1>28. CASE Cleanup
  BY <1>28 DEF Cleanup, LeftRunning, DvrAfter
<1>29. CASE UNCHANGED vars
  BY <1>29
<1> QED
  BY <1>1, <1>2, <1>3, <1>4, <1>5, <1>5a, <1>6, <1>7, <1>8, <1>9, <1>10, <1>11,
     <1>12, <1>13, <1>14, <1>15, <1>16, <1>17, <1>18, <1>19, <1>20, <1>21, <1>22,
     <1>23, <1>24, <1>25, <1>26, <1>27, <1>28, <1>29
     DEF Next, UserCall, UserGoesOn, Thread

-----------------------------------------------------------------------------
(* The inductive invariant holds in every behaviour. *)
THEOREM Invariance == Spec => []IInv
<1>1. IInv /\ [Next]_vars => IInv'
  <2> SUFFICES ASSUME IInv, [Next]_vars
               PROVE  IInv'
    OBVIOUS
  <2>1. place \in Nat
    BY TripleAssumption DEF IInv, TypeOK, Numbers, TripleAssumption
  <2> QED
    BY <2>1, FlagsStep, PositionsStep, NumbersStep, PlacesStep, DvrStep, OwnerStep, ReleasedStep,
       PausedStep, CleanStep DEF IInv, TypeOK
<1> QED
  BY InitIInv, <1>1, PTL DEF Spec

(* Every variable of the playback keeps its type, and the DVR is open      *)
(* exactly from the setup to the cleanup of a play thread.                 *)
THEOREM TypeCorrect == Spec => []TypeOK
BY Invariance, PTL DEF IInv

(* Close never frees the buffer or closes the file under the play thread.  *)
THEOREM BufferOutlivesThread == Spec => []BufferLives
<1>1. IInv => BufferLives
  BY DEF IInv, Owner, Alive, BufferLives
<1> QED
  BY Invariance, <1>1, PTL

(* After Close the demux takes the channel, and nothing is left running    *)
(* that was started while there was a thread.                              *)
THEOREM DevicesComeBack == Spec => []ClosedIsQuiet
<1>1. IInv => ClosedIsQuiet
  BY DEF IInv, Owner, Released, Alive, InLoop, ClosedIsQuiet
<1> QED
  BY Invariance, <1>1, PTL

(* Memory and devices are released in order: the buffer behind the thread, *)
(* the devices before Close is done.                                       *)
THEOREM ReleaseIsOrdered == Spec => []ReleasedInOrder
BY BufferOutlivesThread, DevicesComeBack, PTL DEF ReleasedInOrder

(* When seeks begin with the thread at rest, the buffer never mixes bytes  *)
(* from before and from behind a seek.                                     *)
THEOREM SeeksDoNotMix == Spec => []OnePlace
<1>1. IInv => OnePlace
  <2> SUFFICES ASSUME Clean, ~rash
               PROVE  Cardinality(data) <= 1
    BY DEF IInv, OnePlace
  <2>1. PICK p : data \subseteq {p}
    BY DEF Clean
  <2>2. data = {} \/ data = {p}
    BY <2>1
  <2>3. Cardinality({}) = 0 /\ Cardinality({p}) = 1
    BY FS_EmptySet, FS_Singleton
  <2> QED
    BY <2>2, <2>3
<1> QED
  BY Invariance, <1>1, PTL
-----------------------------------------------------------------------------
(* Television: the places of the calls that set display and pins, and the  *)
(* types, those of the local values included.                              *)
Aspect == {"switch", "size", "pin", "pinset"}
Spots == {"idle", "showlock", "show", "black", "write", "route", "stand", "start",
           "stop", "stopdo", "stopped", "changed", "watched"} \cup Aspect
GuiSets == vpc["gui"] \in Aspect \cup {"black", "write", "route", "stand"}
DogSets == vpc["dog"] \in Aspect \cup {"watched"}
Local == [ar : V!Shapes, size : {"none", "4x3", "16x9", "unknown"}, pin : {0, 6, 12},
          info : V!Shapes \cup {"none"}, blank : BOOLEAN,
          ret : {"idle", "route", "stopped", "watched"}]
VdecTyped ==
  vdec \in [pic_shown : BOOLEAN, playstate : {"STOPPED", "PLAYING", "FREEZED"},
       croppingMode : V!DispModes, outputformat : Outputs, scartvoltage : {-1, 6, 12},
       video_standby : BOOLEAN, _aspect : V!Aspects \cup {V!Keep},
       _mode : Modes \cup {V!Unset}, _v_info : V!Shapes \cup {"none"}]
DevTyped ==
  vdev \in [still : {"none", "picture", "black"}, source : {"demux", "memory"},
       outfmt : Outputs \cup {"unset", "off"}, route : {"unset", "enc", "vcr"},
       pin8 : {-1, 0, 1, 6, 12}, size : {"unset", "4x3", "16x9", "unknown"},
       disp : V!DispModes,
       scale : ({"off", "corner"} \cup V!Shapes) \X (Modes \cup {V!Unset})]
CallsTyped == vpc \in [V!Threads -> Spots] /\ vloc \in [V!Threads -> Local]
OthersTyped ==
  /\ stillp_mutex \in V!Threads \cup {"free"} /\ shape \in V!Shapes
  /\ blank_data \in BOOLEAN /\ pig \in BOOLEAN
  /\ overrun \in BOOLEAN /\ relit \in BOOLEAN
  /\ alone \subseteq V!Threads /\ mixed \subseteq {"display", "glimpse", "pin8"}
TvTypes == VdecTyped /\ DevTyped /\ CallsTyped /\ OthersTyped

(* Where each caller can be, and the values it has there. *)
TvControl ==
  /\ vpc["gui"] \in {"idle", "showlock", "show", "black", "write", "route", "stand"} \cup Aspect
  /\ vpc["gui"] \in Aspect => vloc["gui"].ret = "idle"
  /\ vpc["gui"] \in {"black", "write"} => vloc["gui"].ret = "route"
  /\ vloc["gui"].ret \in {"idle", "route"}
  /\ vpc["zap"] \in {"idle", "start", "stop", "stopdo", "stopped", "black", "write"}
  /\ vpc["zap"] \in {"black", "write"} => vloc["zap"].ret = "stopped"
  /\ vpc["dog"] \in {"idle", "changed", "watched"} \cup Aspect
  /\ vpc["dog"] \in Aspect \cup {"watched"} => vloc["dog"].ret = "watched"
  /\ vpc["dog"] # "idle" => vloc["dog"].info \in V!Shapes
  /\ vloc["dog"].ret \in {"idle", "watched"}
  /\ \A t \in {"gui", "dog"} : vpc[t] = "size" => vloc[t].size # "none"

(* The mutex of the still picture, and what its holder writes. *)
TvPicture ==
  /\ \A t \in V!Threads : vpc[t] = "write" => stillp_mutex = t
  /\ vpc["gui"] = "show" => stillp_mutex = "gui" /\ vdec.pic_shown
  /\ \A t \in V!Threads : vpc[t] = "write" => ~vdec.pic_shown
  /\ V!PictureStays

(* A call that is alone has not been overlapped; two that overlapped have  *)
(* left display and pins to the next.                                      *)
TvAlone ==
  /\ "gui" \in alone => GuiSets /\ ~DogSets
  /\ "dog" \in alone => DogSets /\ ~GuiSets
  /\ "zap" \notin alone
  /\ GuiSets \/ DogSets => alone # {} \/ {"display", "pin8"} \subseteq mixed

(* Size, mode and scaler are those of a shape of the stream: of the shape  *)
(* the decoder was last told of when nobody is at work, and else of the    *)
(* shape that the call at work has read, as far as it has got.             *)
Fits(ar) ==
  /\ vdev.size = V!Dsize(ar, vdec._aspect, vdec._mode)
  /\ vdec._mode # "unset" =>
       /\ vdev.disp = V!Dmode(ar, vdec._aspect, vdec._mode)
       /\ vdev.scale = IF V!Scaled(ar, vdec._aspect, vdec._mode)
                         THEN <<ar, vdec._mode>> ELSE V!Unscaled
Sized(ar) ==
  vdec._mode # "unset" =>
       /\ vdev.disp = V!Dmode(ar, vdec._aspect, vdec._mode)
       /\ vdev.scale = IF V!Scaled(ar, vdec._aspect, vdec._mode)
                         THEN <<ar, vdec._mode>> ELSE V!Unscaled
TvDisplay ==
  /\ vpc["gui"] \notin Aspect /\ ~DogSets /\ ~pig /\ mixed \cap {"display", "glimpse"} = {}
       /\ vdec._v_info # "none" => Fits(vdec._v_info)
  /\ \A t \in alone :
       /\ vpc[t] = "size" => /\ vloc[t].size = V!Dsize(vloc[t].ar, vdec._aspect, vdec._mode)
                             /\ ~pig => Sized(vloc[t].ar)
       /\ vpc[t] \in {"pin", "pinset", "watched"} /\ ~pig => Fits(vloc[t].ar)

(* The output is the route's, except between the two halves of Standby,    *)
(* when the GUI knows what it is to become.                                *)
Standing == vpc["gui"] = "stand"
TvOutput ==
  LET on == IF Standing THEN vloc["gui"].blank ELSE vdec.video_standby IN
  /\ vdev.route = "unset" => ~on
  /\ vdev.route # "unset" => vdev.route = (IF on THEN "vcr" ELSE "enc")
  /\ Standing => vdev.route # "unset"
  /\ vdev.route = "enc" => vdev.outfmt = vdec.outputformat
  /\ vdev.route = "vcr" => relit \/ vdev.outfmt = "off"

(* SCART pin 8: the route's when nobody is at work, and otherwise as far   *)
(* as the call has got that no other overlapped.                           *)
PinFits ==
  /\ vdev.route = "vcr" => vdev.pin8 = 1
  /\ vdev.route = "enc" => vdev.pin8 = vdec.scartvoltage
TvPin ==
  /\ vdec.scartvoltage = -1 => PinFits
  /\ \A t \in {"gui", "dog"} :
       vpc[t] = "pinset" => vdec.scartvoltage # -1 /\ vloc[t].pin \in {6, 12}
  /\ ~GuiSets /\ ~DogSets /\ "pin8" \notin mixed => PinFits
  /\ "gui" \in alone =>
       /\ vpc["gui"] \in {"black", "write", "route"} /\ "pin8" \notin mixed => PinFits
       /\ Standing => PinFits
  /\ \A t \in alone :
       /\ vpc[t] = "switch" /\ "pin8" \notin mixed => PinFits
       /\ vpc[t] \in {"size", "pin", "watched"} /\ "pin8" \notin mixed =>
            (vdev.route = "vcr" => vdev.pin8 = 1)
       /\ vpc[t] = "pinset" => ~vdec.video_standby /\ vloc[t].pin = vdec.scartvoltage
       /\ vpc[t] = "watched" /\ ~vdec.video_standby => PinFits

(* The types hold, one variable after the other. *)
LEMMA ModeKinds ==
  ASSUME NEW ar \in V!Shapes, NEW a \in V!Aspects \cup {V!Keep}, NEW m,
         NEW old \in {-1, 6, 12}
  PROVE  /\ V!Dmode(ar, a, m) \in V!DispModes
         /\ V!Dsize(ar, a, m) \in {"4x3", "16x9", "unknown"}
         /\ V!Voltage(a, old) \in {-1, 6, 12}
BY DEF V!Dmode, V!Dsize, V!DispModes, V!Voltage, V!Shapes, V!Aspects, V!Keep

LEMMA TwoLocals ==
  ASSUME CallsTyped, NEW t \in V!Threads, NEW x \in V!Shapes,
         NEW y \in {"idle", "route", "stopped", "watched"}
  PROVE  [vloc EXCEPT ![t].ar = x, ![t].ret = y] \in [V!Threads -> Local]
BY DEF CallsTyped, Local

LEMMA VdecKept ==
  ASSUME TvTypes, TvControl, V!Next
  PROVE  VdecTyped'
<1>1. ASSUME V!ShowPicture PROVE VdecTyped'
  BY <1>1 DEF V!ShowPicture, TvTypes, VdecTyped
<1>2. ASSUME V!ShowLock PROVE VdecTyped'
  BY ModeKinds, <1>2 DEF V!ShowLock, TvTypes, VdecTyped
<1>3. ASSUME V!ShowWrite PROVE VdecTyped'
  BY <1>3 DEF V!ShowWrite, TvTypes, VdecTyped
<1>4. ASSUME V!StopPicture PROVE VdecTyped'
  BY <1>4 DEF V!StopPicture, TvTypes, VdecTyped
<1>5. ASSUME NEW a \in V!Aspects \cup {V!Keep}, NEW m \in Modes \cup {V!Unset},
             V!SetAspect(a, m)
      PROVE  VdecTyped'
  BY <1>5 DEF V!SetAspect, V!setAspectRatio, V!Or, TvTypes, VdecTyped
<1>6. ASSUME V!Pig PROVE VdecTyped'
  BY <1>6 DEF V!Pig, TvTypes, VdecTyped
<1>7. ASSUME V!PigReset PROVE VdecTyped'
  BY <1>7 DEF V!PigReset, V!setAspectRatio, V!Or, TvTypes, VdecTyped
<1>8. ASSUME NEW f \in Outputs, V!SetVideoMode(f) PROVE VdecTyped'
  BY <1>8 DEF V!SetVideoMode, TvTypes, VdecTyped
<1>9. ASSUME NEW on \in BOOLEAN, V!Standby(on) PROVE VdecTyped'
  BY <1>9 DEF V!Standby, TvTypes, VdecTyped
<1>10. ASSUME V!Route PROVE VdecTyped'
  BY <1>10 DEF V!Route, TvTypes, VdecTyped
<1>11. ASSUME V!Stand PROVE VdecTyped'
  BY <1>11 DEF V!Stand, V!Threads, TvTypes, VdecTyped, CallsTyped, Local
<1>12. ASSUME V!setBlank PROVE VdecTyped'
  BY <1>12 DEF V!setBlank, TvTypes, VdecTyped
<1>13. ASSUME V!Start PROVE VdecTyped'
  BY <1>13 DEF V!Start, TvTypes, VdecTyped
<1>14. ASSUME V!StartDo PROVE VdecTyped'
  BY <1>14 DEF V!StartDo, TvTypes, VdecTyped
<1>15. ASSUME NEW blank \in BOOLEAN, V!Stop(blank) PROVE VdecTyped'
  BY <1>15 DEF V!Stop, TvTypes, VdecTyped
<1>16. ASSUME V!StopMark PROVE VdecTyped'
  BY <1>16 DEF V!StopMark, TvTypes, VdecTyped
<1>17. ASSUME V!StopDo PROVE VdecTyped'
  BY <1>17 DEF V!StopDo, TvTypes, VdecTyped
<1>18. ASSUME V!Stopped PROVE VdecTyped'
  BY <1>18 DEF V!Stopped, TvTypes, VdecTyped
<1>19. ASSUME V!VideoParamWatchdog PROVE VdecTyped'
  BY <1>19 DEF V!VideoParamWatchdog, TvTypes, VdecTyped
<1>20. ASSUME V!ParamsChanged PROVE VdecTyped'
  BY <1>20 DEF V!ParamsChanged, V!setAspectRatio, V!Or, TvTypes, VdecTyped
<1>21. ASSUME V!Watched PROVE VdecTyped'
  BY <1>21 DEF V!Watched, V!Seen, V!Threads, TvTypes, VdecTyped, CallsTyped,
               Local
<1>22. ASSUME V!ShapeChanges PROVE VdecTyped'
  BY <1>22 DEF V!ShapeChanges, TvTypes, VdecTyped
<1>23. ASSUME NEW t \in V!Threads, V!BlankLock(t) PROVE VdecTyped'
  BY <1>23 DEF V!BlankLock, TvTypes, VdecTyped
<1>24. ASSUME NEW t \in V!Threads, V!BlankWrite(t) PROVE VdecTyped'
  BY <1>24 DEF V!BlankWrite, TvTypes, VdecTyped
<1>25. ASSUME NEW t \in V!Threads, V!Switch(t) PROVE VdecTyped'
  <2>1. vloc[t].ar \in V!Shapes /\ vdec._aspect \in V!Aspects \cup {V!Keep}
        /\ vdec.scartvoltage \in {-1, 6, 12}
    BY TvTypes DEF TvTypes, CallsTyped, VdecTyped, Local
  <2>2. /\ V!Dmode(vloc[t].ar, vdec._aspect, vdec._mode) \in V!DispModes
        /\ V!Dsize(vloc[t].ar, vdec._aspect, vdec._mode) \in {"4x3", "16x9", "unknown"}
        /\ V!Voltage(vdec._aspect, vdec.scartvoltage) \in {-1, 6, 12}
    BY <2>1, ModeKinds
  <2> QED
    BY <2>1, <2>2, <1>25 DEF V!Switch, TvTypes, VdecTyped
<1>26. ASSUME NEW t \in V!Threads, V!SetSize(t) PROVE VdecTyped'
  BY <1>26 DEF V!SetSize, TvTypes, VdecTyped
<1>27. ASSUME NEW t \in V!Threads, V!PinTest(t) PROVE VdecTyped'
  BY <1>27 DEF V!PinTest, TvTypes, VdecTyped
<1>28. ASSUME NEW t \in V!Threads, V!PinSet(t) PROVE VdecTyped'
  BY <1>28 DEF V!PinSet, TvTypes, VdecTyped
<1> QED
  BY <1>1, <1>2, <1>3, <1>4, <1>5, <1>6, <1>7, <1>8, <1>9, <1>10, <1>11, <1>12,
     <1>13, <1>14, <1>15, <1>16, <1>17, <1>18, <1>19, <1>20, <1>21, <1>22, <1>23,
     <1>24, <1>25, <1>26, <1>27, <1>28
     DEF V!Next, V!Gui, V!Picture, V!Display, V!Power, V!Zapper, V!Watchdog,
         V!Shared

LEMMA DevKept ==
  ASSUME TvTypes, TvControl, V!Next
  PROVE  DevTyped'
<1>1. ASSUME V!ShowPicture PROVE DevTyped'
  BY <1>1 DEF V!ShowPicture, TvTypes, DevTyped
<1>2. ASSUME V!ShowLock PROVE DevTyped'
  BY <1>2 DEF V!ShowLock, TvTypes, DevTyped
<1>3. ASSUME V!ShowWrite PROVE DevTyped'
  BY <1>3 DEF V!ShowWrite, TvTypes, DevTyped
<1>4. ASSUME V!StopPicture PROVE DevTyped'
  BY <1>4 DEF V!StopPicture, V!SelectsDemux, TvTypes, DevTyped
<1>5. ASSUME NEW a \in V!Aspects \cup {V!Keep}, NEW m \in Modes \cup {V!Unset},
             V!SetAspect(a, m)
      PROVE  DevTyped'
  BY <1>5 DEF V!SetAspect, TvTypes, DevTyped
<1>6. ASSUME V!Pig PROVE DevTyped'
  BY <1>6 DEF V!Pig, V!DispModes, TvTypes, DevTyped
<1>7. ASSUME V!PigReset PROVE DevTyped'
  BY <1>7 DEF V!PigReset, V!setZoom, V!Unscaled, TvTypes, DevTyped, VdecTyped
<1>8. ASSUME NEW f \in Outputs, V!SetVideoMode(f) PROVE DevTyped'
  BY <1>8 DEF V!SetVideoMode, TvTypes, DevTyped
<1>9. ASSUME NEW on \in BOOLEAN, V!Standby(on) PROVE DevTyped'
  BY <1>9 DEF V!Standby, TvTypes, DevTyped
<1>10. ASSUME V!Route PROVE DevTyped'
  BY <1>10 DEF V!Route, V!routeVideo, TvTypes, DevTyped, VdecTyped
<1>11. ASSUME V!Stand PROVE DevTyped'
  BY <1>11 DEF V!Stand, TvTypes, DevTyped
<1>12. ASSUME V!setBlank PROVE DevTyped'
  BY <1>12 DEF V!setBlank, TvTypes, DevTyped
<1>13. ASSUME V!Start PROVE DevTyped'
  BY <1>13 DEF V!Start, TvTypes, DevTyped
<1>14. ASSUME V!StartDo PROVE DevTyped'
  BY <1>14 DEF V!StartDo, TvTypes, DevTyped
<1>15. ASSUME NEW blank \in BOOLEAN, V!Stop(blank) PROVE DevTyped'
  BY <1>15 DEF V!Stop, TvTypes, DevTyped
<1>16. ASSUME V!StopMark PROVE DevTyped'
  BY <1>16 DEF V!StopMark, TvTypes, DevTyped
<1>17. ASSUME V!StopDo PROVE DevTyped'
  BY <1>17 DEF V!StopDo, TvTypes, DevTyped
<1>18. ASSUME V!Stopped PROVE DevTyped'
  BY <1>18 DEF V!Stopped, TvTypes, DevTyped
<1>19. ASSUME V!VideoParamWatchdog PROVE DevTyped'
  BY <1>19 DEF V!VideoParamWatchdog, TvTypes, DevTyped
<1>20. ASSUME V!ParamsChanged PROVE DevTyped'
  BY <1>20 DEF V!ParamsChanged, TvTypes, DevTyped
<1>21. ASSUME V!Watched PROVE DevTyped'
  BY <1>21 DEF V!Watched, TvTypes, DevTyped
<1>22. ASSUME V!ShapeChanges PROVE DevTyped'
  BY <1>22 DEF V!ShapeChanges, TvTypes, DevTyped
<1>23. ASSUME NEW t \in V!Threads, V!BlankLock(t) PROVE DevTyped'
  BY <1>23 DEF V!BlankLock, TvTypes, DevTyped
<1>24. ASSUME NEW t \in V!Threads, V!BlankWrite(t) PROVE DevTyped'
  BY <1>24 DEF V!BlankWrite, V!SelectsDemux, TvTypes, DevTyped
<1>25. ASSUME NEW t \in V!Threads, V!Switch(t) PROVE DevTyped'
  <2>1. vloc[t].ar \in V!Shapes /\ vdec._aspect \in V!Aspects \cup {V!Keep}
        /\ vdec.scartvoltage \in {-1, 6, 12}
    BY TvTypes DEF TvTypes, CallsTyped, VdecTyped, Local
  <2>2. /\ V!Dmode(vloc[t].ar, vdec._aspect, vdec._mode) \in V!DispModes
        /\ V!Dsize(vloc[t].ar, vdec._aspect, vdec._mode) \in {"4x3", "16x9", "unknown"}
        /\ V!Voltage(vdec._aspect, vdec.scartvoltage) \in {-1, 6, 12}
    BY <2>1, ModeKinds
  <2> QED
    BY <2>1, <2>2, TvTypes, TvControl, <1>25
       DEF V!Switch, V!Displayed, V!Unscaled, V!Goto, V!picVars, V!lookVars,
           V!overlapVars, V!Threads, V!Shapes, V!Aspects, TvTypes, DevTyped,
           VdecTyped
<1>26. ASSUME NEW t \in V!Threads, V!SetSize(t) PROVE DevTyped'
  BY <1>26 DEF V!SetSize, TvControl, V!Threads, TvTypes, DevTyped, CallsTyped,
               Local
<1>27. ASSUME NEW t \in V!Threads, V!PinTest(t) PROVE DevTyped'
  BY <1>27 DEF V!PinTest, TvTypes, DevTyped
<1>28. ASSUME NEW t \in V!Threads, V!PinSet(t) PROVE DevTyped'
  BY <1>28 DEF V!PinSet, TvTypes, DevTyped, CallsTyped, Local
<1> QED
  BY <1>1, <1>2, <1>3, <1>4, <1>5, <1>6, <1>7, <1>8, <1>9, <1>10, <1>11, <1>12,
     <1>13, <1>14, <1>15, <1>16, <1>17, <1>18, <1>19, <1>20, <1>21, <1>22, <1>23,
     <1>24, <1>25, <1>26, <1>27, <1>28
     DEF V!Next, V!Gui, V!Picture, V!Display, V!Power, V!Zapper, V!Watchdog,
         V!Shared

LEMMA CallsKept ==
  ASSUME TvTypes, TvControl, V!Next
  PROVE  CallsTyped'
<1>1. ASSUME V!ShowPicture PROVE CallsTyped'
  BY <1>1 DEF V!ShowPicture, V!Goto, TvTypes, CallsTyped, Spots
<1>2. ASSUME V!ShowLock PROVE CallsTyped'
  BY <1>2 DEF V!ShowLock, V!Goto, TvTypes, CallsTyped, Spots
<1>3. ASSUME V!ShowWrite PROVE CallsTyped'
  BY <1>3 DEF V!ShowWrite, V!Goto, TvTypes, CallsTyped, Spots
<1>4. ASSUME V!StopPicture PROVE CallsTyped'
  BY <1>4 DEF V!StopPicture, TvTypes, CallsTyped
<1>5. ASSUME NEW a \in V!Aspects \cup {V!Keep}, NEW m \in Modes \cup {V!Unset},
             V!SetAspect(a, m)
      PROVE  CallsTyped'
  <2>1. vpc' = [vpc EXCEPT !["gui"] = "switch"]
        /\ vloc' = [vloc EXCEPT !["gui"].ar = shape, !["gui"].ret = "idle"]
    BY <1>5 DEF V!SetAspect, V!setAspectRatio, V!Goto
  <2>2. vpc' \in [V!Threads -> Spots]
    BY <2>1, TvTypes DEF TvTypes, CallsTyped, Spots, Aspect, V!Threads
  <2>3. vloc' \in [V!Threads -> Local]
    BY <2>1, TvTypes, TwoLocals DEF TvTypes, CallsTyped, OthersTyped, V!Threads
  <2> QED
    BY <2>2, <2>3 DEF CallsTyped
<1>6. ASSUME V!Pig PROVE CallsTyped'
  BY <1>6 DEF V!Pig, TvTypes, CallsTyped
<1>7. ASSUME V!PigReset PROVE CallsTyped'
  <2>1. vpc' = [vpc EXCEPT !["gui"] = "switch"]
        /\ vloc' = [vloc EXCEPT !["gui"].ar = shape, !["gui"].ret = "idle"]
    BY <1>7 DEF V!PigReset, V!setAspectRatio, V!Goto
  <2>2. vpc' \in [V!Threads -> Spots]
    BY <2>1, TvTypes DEF TvTypes, CallsTyped, Spots, Aspect, V!Threads
  <2>3. vloc' \in [V!Threads -> Local]
    BY <2>1, TvTypes, TwoLocals DEF TvTypes, CallsTyped, OthersTyped, V!Threads
  <2> QED
    BY <2>2, <2>3 DEF CallsTyped
<1>8. ASSUME NEW f \in Outputs, V!SetVideoMode(f) PROVE CallsTyped'
  BY <1>8 DEF V!SetVideoMode, TvTypes, CallsTyped
<1>9. ASSUME NEW on \in BOOLEAN, V!Standby(on) PROVE CallsTyped'
  <2>1. vpc' = [vpc EXCEPT !["gui"] = IF on THEN "black" ELSE "route"]
        /\ vloc' = [vloc EXCEPT !["gui"].ret = "route", !["gui"].blank = on]
    BY <1>9 DEF V!Standby, V!Goto
  <2>2. vpc' \in [V!Threads -> Spots]
    BY <2>1, TvTypes DEF TvTypes, CallsTyped, Spots, Aspect, V!Threads
  <2>3. vloc' \in [V!Threads -> Local]
    BY <2>1, TvTypes DEF TvTypes, CallsTyped, Local, V!Threads
  <2> QED
    BY <2>2, <2>3 DEF CallsTyped
<1>10. ASSUME V!Route PROVE CallsTyped'
  BY <1>10 DEF V!Route, V!Goto, TvTypes, CallsTyped, Spots
<1>11. ASSUME V!Stand PROVE CallsTyped'
  BY <1>11 DEF V!Stand, V!NoLocals, V!Goto, V!Shapes, TvTypes, CallsTyped,
               Local, Spots
<1>12. ASSUME V!setBlank PROVE CallsTyped'
  BY <1>12 DEF V!setBlank, V!Goto, V!Threads, TvTypes, CallsTyped, Local, Spots
<1>13. ASSUME V!Start PROVE CallsTyped'
  BY <1>13 DEF V!Start, V!Goto, TvTypes, CallsTyped, Spots
<1>14. ASSUME V!StartDo PROVE CallsTyped'
  BY <1>14 DEF V!StartDo, V!Goto, TvTypes, CallsTyped, Spots
<1>15. ASSUME NEW blank \in BOOLEAN, V!Stop(blank) PROVE CallsTyped'
  BY <1>15 DEF V!Stop, V!Goto, V!Threads, TvTypes, CallsTyped, Local, Spots
<1>16. ASSUME V!StopMark PROVE CallsTyped'
  BY <1>16 DEF V!StopMark, V!Goto, TvTypes, CallsTyped, Spots
<1>17. ASSUME V!StopDo PROVE CallsTyped'
  BY <1>17 DEF V!StopDo, V!Goto, V!Aspects, TvTypes, CallsTyped, Local, Spots
<1>18. ASSUME V!Stopped PROVE CallsTyped'
  BY <1>18 DEF V!Stopped, V!NoLocals, V!Goto, V!Shapes, TvTypes, CallsTyped,
               Local, Spots
<1>19. ASSUME V!VideoParamWatchdog PROVE CallsTyped'
  BY <1>19 DEF V!VideoParamWatchdog, V!Goto, V!Threads, TvTypes, CallsTyped,
               Local, Spots, OthersTyped
<1>20. ASSUME V!ParamsChanged PROVE CallsTyped'
  <2>1. vpc' = [vpc EXCEPT !["dog"] = "switch"]
        /\ vloc' = [vloc EXCEPT !["dog"].ar = shape, !["dog"].ret = "watched"]
    BY <1>20 DEF V!ParamsChanged, V!setAspectRatio, V!Goto
  <2>2. vpc' \in [V!Threads -> Spots]
    BY <2>1, TvTypes DEF TvTypes, CallsTyped, Spots, Aspect, V!Threads
  <2>3. vloc' \in [V!Threads -> Local]
    BY <2>1, TvTypes, TwoLocals DEF TvTypes, CallsTyped, OthersTyped, V!Threads
  <2> QED
    BY <2>2, <2>3 DEF CallsTyped
<1>21. ASSUME V!Watched PROVE CallsTyped'
  BY <1>21 DEF V!Watched, V!NoLocals, V!Goto, V!Shapes, TvTypes, CallsTyped,
               Local, Spots
<1>22. ASSUME V!ShapeChanges PROVE CallsTyped'
  BY <1>22 DEF V!ShapeChanges, TvTypes, CallsTyped
<1>23. ASSUME NEW t \in V!Threads, V!BlankLock(t) PROVE CallsTyped'
  BY <1>23 DEF V!BlankLock, V!Goto, TvTypes, CallsTyped, Local, Spots
<1>24. ASSUME NEW t \in V!Threads, V!BlankWrite(t) PROVE CallsTyped'
  BY <1>24 DEF V!BlankWrite, V!Goto, TvTypes, CallsTyped, Local, Spots
<1>25. ASSUME NEW t \in V!Threads, V!Switch(t) PROVE CallsTyped'
  <2>1. vloc[t].ar \in V!Shapes /\ vdec._aspect \in V!Aspects \cup {V!Keep}
        /\ vdec.scartvoltage \in {-1, 6, 12}
    BY TvTypes DEF TvTypes, CallsTyped, VdecTyped, Local
  <2>2. /\ V!Dmode(vloc[t].ar, vdec._aspect, vdec._mode) \in V!DispModes
        /\ V!Dsize(vloc[t].ar, vdec._aspect, vdec._mode) \in {"4x3", "16x9", "unknown"}
        /\ V!Voltage(vdec._aspect, vdec.scartvoltage) \in {-1, 6, 12}
    BY <2>1, ModeKinds
  <2> QED
    BY <2>1, <2>2, <1>25
       DEF V!Switch, V!Goto, TvTypes, CallsTyped, Local, Spots, Aspect
<1>26. ASSUME NEW t \in V!Threads, V!SetSize(t) PROVE CallsTyped'
  BY <1>26 DEF V!SetSize, V!Goto, TvTypes, CallsTyped, Spots, Aspect
<1>27. ASSUME NEW t \in V!Threads, V!PinTest(t) PROVE CallsTyped'
  <2>1. t \in {"gui", "dog"} /\ vloc[t].ret \in {"idle", "watched"}
    BY TvControl, TvTypes, <1>27
       DEF V!PinTest, TvControl, TvTypes, CallsTyped, Spots, V!Threads, Aspect
  <2>2. vpc' \in [V!Threads -> Spots]
    BY <2>1, TvTypes, <1>27
       DEF TvTypes, CallsTyped, Spots, Aspect, V!PinTest, V!AspectDone, V!Goto
  <2>3. V!NoLocals \in Local /\ vloc \in [V!Threads -> Local]
        /\ vdec.scartvoltage \in {-1, 6, 12}
    BY TvTypes DEF TvTypes, VdecTyped, CallsTyped, V!NoLocals, Local, V!Shapes
  <2>4. \/ vloc' = vloc \/ vloc' = [vloc EXCEPT ![t] = V!NoLocals]
        \/ vdec.scartvoltage > 0 /\ vloc' = [vloc EXCEPT ![t].pin = vdec.scartvoltage]
    BY <1>27 DEF V!PinTest, V!AspectDone, V!Awake
  <2>6. CASE vloc' = vloc
    BY <2>6, <2>3, <2>2 DEF CallsTyped
  <2>7. CASE vloc' = [vloc EXCEPT ![t] = V!NoLocals]
    BY <2>7, <2>3, <2>2 DEF CallsTyped
  <2>8. CASE vdec.scartvoltage > 0 /\ vloc' = [vloc EXCEPT ![t].pin = vdec.scartvoltage]
    BY <2>8, <2>3, <2>2 DEF CallsTyped, Local
  <2> QED
    BY <2>4, <2>6, <2>7, <2>8
<1>28. ASSUME NEW t \in V!Threads, V!PinSet(t) PROVE CallsTyped'
  <2>1. t \in {"gui", "dog"} /\ vloc[t].ret \in {"idle", "watched"}
    BY TvControl, TvTypes, <1>28
       DEF V!PinSet, TvControl, TvTypes, CallsTyped, Spots, V!Threads, Aspect
  <2>2. vpc' \in [V!Threads -> Spots]
    BY <2>1, TvTypes, <1>28
       DEF TvTypes, CallsTyped, Spots, Aspect, V!PinSet, V!AspectDone, V!Goto
  <2>3. V!NoLocals \in Local /\ vloc \in [V!Threads -> Local]
        /\ vdec.scartvoltage \in {-1, 6, 12}
    BY TvTypes DEF TvTypes, VdecTyped, CallsTyped, V!NoLocals, Local, V!Shapes
  <2>4. \/ vloc' = vloc \/ vloc' = [vloc EXCEPT ![t] = V!NoLocals]
        \/ vdec.scartvoltage > 0 /\ vloc' = [vloc EXCEPT ![t].pin = vdec.scartvoltage]
    BY <1>28 DEF V!PinSet, V!AspectDone
  <2>6. CASE vloc' = vloc
    BY <2>6, <2>3, <2>2 DEF CallsTyped
  <2>7. CASE vloc' = [vloc EXCEPT ![t] = V!NoLocals]
    BY <2>7, <2>3, <2>2 DEF CallsTyped
  <2>8. CASE vdec.scartvoltage > 0 /\ vloc' = [vloc EXCEPT ![t].pin = vdec.scartvoltage]
    BY <2>8, <2>3, <2>2 DEF CallsTyped, Local
  <2> QED
    BY <2>4, <2>6, <2>7, <2>8
<1> QED
  BY <1>1, <1>2, <1>3, <1>4, <1>5, <1>6, <1>7, <1>8, <1>9, <1>10, <1>11, <1>12,
     <1>13, <1>14, <1>15, <1>16, <1>17, <1>18, <1>19, <1>20, <1>21, <1>22, <1>23,
     <1>24, <1>25, <1>26, <1>27, <1>28
     DEF V!Next, V!Gui, V!Picture, V!Display, V!Power, V!Zapper, V!Watchdog,
         V!Shared

LEMMA OthersKept ==
  ASSUME TvTypes, TvControl, V!Next
  PROVE  OthersTyped'
<1>1. ASSUME V!ShowPicture PROVE OthersTyped'
  BY <1>1 DEF V!ShowPicture, V!picVars, V!lookVars, V!overlapVars, TvTypes,
              OthersTyped
<1>2. ASSUME V!ShowLock PROVE OthersTyped'
  BY <1>2 DEF V!ShowLock, V!lookVars, V!overlapVars, V!Threads, TvTypes,
              OthersTyped
<1>3. ASSUME V!ShowWrite PROVE OthersTyped'
  BY <1>3 DEF V!ShowWrite, V!lookVars, V!overlapVars, TvTypes, OthersTyped
<1>4. ASSUME V!StopPicture PROVE OthersTyped'
  BY <1>4 DEF V!StopPicture, V!lookVars, V!overlapVars, TvTypes, OthersTyped
<1>5. ASSUME NEW a \in V!Aspects \cup {V!Keep}, NEW m \in Modes \cup {V!Unset},
             V!SetAspect(a, m)
      PROVE  OthersTyped'
  BY <1>5 DEF V!SetAspect, V!setAspectRatio, V!Enters, V!picVars, V!lookVars,
              V!Threads, TvTypes, OthersTyped
<1>6. ASSUME V!Pig PROVE OthersTyped'
  BY <1>6 DEF V!Pig, V!picVars, V!overlapVars, TvTypes, OthersTyped
<1>7. ASSUME V!PigReset PROVE OthersTyped'
  BY <1>7 DEF V!PigReset, V!setAspectRatio, V!Enters, V!picVars, V!Threads,
              TvTypes, OthersTyped
<1>8. ASSUME NEW f \in Outputs, V!SetVideoMode(f) PROVE OthersTyped'
  BY <1>8 DEF V!SetVideoMode, V!picVars, V!overlapVars, TvTypes, OthersTyped,
              VdecTyped
<1>9. ASSUME NEW on \in BOOLEAN, V!Standby(on) PROVE OthersTyped'
  BY <1>9 DEF V!Standby, V!Enters, V!picVars, V!lookVars, V!Threads, TvTypes,
              OthersTyped
<1>10. ASSUME V!Route PROVE OthersTyped'
  BY <1>10 DEF V!Route, V!picVars, V!overlapVars, TvTypes, OthersTyped
<1>11. ASSUME V!Stand PROVE OthersTyped'
  BY <1>11 DEF V!Stand, V!Leaves, V!picVars, V!lookVars, TvTypes, OthersTyped
<1>12. ASSUME V!setBlank PROVE OthersTyped'
  BY <1>12 DEF V!setBlank, V!picVars, V!lookVars, V!overlapVars, TvTypes,
               OthersTyped
<1>13. ASSUME V!Start PROVE OthersTyped'
  BY <1>13 DEF V!Start, V!picVars, V!lookVars, V!overlapVars, TvTypes,
               OthersTyped
<1>14. ASSUME V!StartDo PROVE OthersTyped'
  BY <1>14 DEF V!StartDo, V!lookVars, V!overlapVars, TvTypes, OthersTyped
<1>15. ASSUME NEW blank \in BOOLEAN, V!Stop(blank) PROVE OthersTyped'
  BY <1>15 DEF V!Stop, V!picVars, V!lookVars, V!overlapVars, TvTypes,
               OthersTyped
<1>16. ASSUME V!StopMark PROVE OthersTyped'
  BY <1>16 DEF V!StopMark, V!picVars, V!lookVars, V!overlapVars, TvTypes,
               OthersTyped
<1>17. ASSUME V!StopDo PROVE OthersTyped'
  BY <1>17 DEF V!StopDo, V!lookVars, V!overlapVars, TvTypes, OthersTyped
<1>18. ASSUME V!Stopped PROVE OthersTyped'
  BY <1>18 DEF V!Stopped, V!picVars, V!lookVars, V!overlapVars, TvTypes,
               OthersTyped
<1>19. ASSUME V!VideoParamWatchdog PROVE OthersTyped'
  BY <1>19 DEF V!VideoParamWatchdog, V!picVars, V!lookVars, V!overlapVars,
               TvTypes, OthersTyped
<1>20. ASSUME V!ParamsChanged PROVE OthersTyped'
  BY <1>20 DEF V!ParamsChanged, V!setAspectRatio, V!Enters, V!picVars,
               V!lookVars, V!Threads, TvTypes, OthersTyped
<1>21. ASSUME V!Watched PROVE OthersTyped'
  BY <1>21 DEF V!Watched, V!LeavesDisplay, V!Leaves, V!picVars, V!lookVars,
               TvTypes, OthersTyped
<1>22. ASSUME V!ShapeChanges PROVE OthersTyped'
  BY <1>22 DEF V!ShapeChanges, V!picVars, V!lookVars, V!overlapVars, TvTypes,
               OthersTyped
<1>23. ASSUME NEW t \in V!Threads, V!BlankLock(t) PROVE OthersTyped'
  BY <1>23 DEF V!BlankLock, V!lookVars, V!overlapVars, TvTypes, OthersTyped
<1>24. ASSUME NEW t \in V!Threads, V!BlankWrite(t) PROVE OthersTyped'
  BY <1>24 DEF V!BlankWrite, V!lookVars, V!overlapVars, TvTypes, OthersTyped
<1>25. ASSUME NEW t \in V!Threads, V!Switch(t) PROVE OthersTyped'
  BY <1>25 DEF V!Switch, V!picVars, V!lookVars, V!overlapVars, TvTypes,
               OthersTyped
<1>26. ASSUME NEW t \in V!Threads, V!SetSize(t) PROVE OthersTyped'
  BY <1>26 DEF V!SetSize, V!picVars, V!lookVars, V!overlapVars, TvTypes,
               OthersTyped
<1>27. ASSUME NEW t \in V!Threads, V!PinTest(t) PROVE OthersTyped'
  BY <1>27 DEF V!PinTest, V!AspectDone, V!LeavesDisplay, V!Leaves, V!picVars,
               V!lookVars, V!overlapVars, TvTypes, OthersTyped
<1>28. ASSUME NEW t \in V!Threads, V!PinSet(t) PROVE OthersTyped'
  BY <1>28 DEF V!PinSet, V!AspectDone, V!LeavesDisplay, V!Leaves, V!picVars,
               V!lookVars, V!overlapVars, TvTypes, OthersTyped
<1> QED
  BY <1>1, <1>2, <1>3, <1>4, <1>5, <1>6, <1>7, <1>8, <1>9, <1>10, <1>11, <1>12,
     <1>13, <1>14, <1>15, <1>16, <1>17, <1>18, <1>19, <1>20, <1>21, <1>22, <1>23,
     <1>24, <1>25, <1>26, <1>27, <1>28
     DEF V!Next, V!Gui, V!Picture, V!Display, V!Power, V!Zapper, V!Watchdog,
         V!Shared

LEMMA TypesAreTypes == TvTypes <=> V!TypeOK /\ CallsTyped
BY DEF TvTypes, VdecTyped, DevTyped, CallsTyped, OthersTyped, V!TypeOK

(* A step leaves every caller at a place of its own. *)
LEMMA ControlKept ==
  ASSUME TvTypes, TvControl, V!Next
  PROVE  TvControl'
<1>1. ASSUME V!ShowPicture PROVE TvControl'
  BY <1>1 DEF V!ShowPicture, V!Goto, TvControl, Aspect
<1>2. ASSUME V!ShowLock PROVE TvControl'
  BY <1>2 DEF V!ShowLock, V!Goto, V!Threads, TvTypes, TvControl, CallsTyped,
              Aspect
<1>3. ASSUME V!ShowWrite PROVE TvControl'
  BY <1>3 DEF V!ShowWrite, V!Goto, TvControl, Aspect
<1>4. ASSUME V!StopPicture PROVE TvControl'
  BY <1>4 DEF V!StopPicture, TvControl
<1>5. ASSUME NEW a \in V!Aspects \cup {V!Keep}, NEW m \in Modes \cup {V!Unset},
             V!SetAspect(a, m)
      PROVE  TvControl'
  BY <1>5 DEF V!SetAspect, V!setAspectRatio, V!Goto, V!Threads, TvTypes,
              TvControl, CallsTyped, Aspect
<1>6. ASSUME V!Pig PROVE TvControl'
  BY <1>6 DEF V!Pig, TvControl
<1>7. ASSUME V!PigReset PROVE TvControl'
  BY <1>7 DEF V!PigReset, V!setAspectRatio, V!Goto, V!Threads, TvTypes,
              TvControl, CallsTyped, Aspect
<1>8. ASSUME NEW f \in Outputs, V!SetVideoMode(f) PROVE TvControl'
  BY <1>8 DEF V!SetVideoMode, TvControl
<1>9. ASSUME NEW on \in BOOLEAN, V!Standby(on) PROVE TvControl'
  BY <1>9 DEF V!Standby, V!Goto, V!Threads, TvTypes, TvControl, CallsTyped,
              Aspect
<1>10. ASSUME V!Route PROVE TvControl'
  BY <1>10 DEF V!Route, V!Goto, TvControl, Aspect
<1>11. ASSUME V!Stand PROVE TvControl'
  BY <1>11 DEF V!Stand, V!NoLocals, V!Goto, TvControl, Aspect
<1>12. ASSUME V!setBlank PROVE TvControl'
  BY <1>12 DEF V!setBlank, V!Goto, TvTypes, TvControl, CallsTyped
<1>13. ASSUME V!Start PROVE TvControl'
  BY <1>13 DEF V!Start, V!Goto, TvControl
<1>14. ASSUME V!StartDo PROVE TvControl'
  BY <1>14 DEF V!StartDo, V!Goto, TvControl
<1>15. ASSUME NEW blank \in BOOLEAN, V!Stop(blank) PROVE TvControl'
  BY <1>15 DEF V!Stop, V!Goto, TvControl
<1>16. ASSUME V!StopMark PROVE TvControl'
  BY <1>16 DEF V!StopMark, V!Goto, TvControl
<1>17. ASSUME V!StopDo PROVE TvControl'
  <2>1. CASE vloc["zap"].blank
    <3>1. /\ vpc' = [vpc EXCEPT !["zap"] = "black"]
          /\ vloc' = [vloc EXCEPT !["zap"].ret = "stopped"]
      BY <1>17, <2>1 DEF V!StopDo, V!Goto
    <3>2. /\ vpc'["zap"] = "black" /\ vloc'["zap"].ret = "stopped"
          /\ vpc'["gui"] = vpc["gui"] /\ vloc'["gui"] = vloc["gui"]
          /\ vpc'["dog"] = vpc["dog"] /\ vloc'["dog"] = vloc["dog"]
      BY <3>1, TvTypes DEF TvTypes, CallsTyped, V!Threads, Local
    <3> QED
      BY <3>2, TvControl DEF TvControl, Aspect
  <2>2. CASE ~vloc["zap"].blank
    BY <1>17, <2>2 DEF V!StopDo, V!Goto, V!Threads, TvTypes, TvControl,
                       CallsTyped
  <2> QED
    BY <2>1, <2>2
<1>18. ASSUME V!Stopped PROVE TvControl'
  BY <1>18 DEF V!Stopped, V!Goto, TvControl
<1>19. ASSUME V!VideoParamWatchdog PROVE TvControl'
  BY <1>19 DEF V!VideoParamWatchdog, V!Goto, TvTypes, TvControl, CallsTyped,
               OthersTyped, Aspect
<1>20. ASSUME V!ParamsChanged PROVE TvControl'
  BY <1>20 DEF V!ParamsChanged, V!setAspectRatio, V!Goto, V!Threads, TvTypes,
               TvControl, CallsTyped, Aspect
<1>21. ASSUME V!Watched PROVE TvControl'
  BY <1>21 DEF V!Watched, V!NoLocals, V!Goto, TvTypes, TvControl, CallsTyped,
               Aspect
<1>22. ASSUME V!ShapeChanges PROVE TvControl'
  BY <1>22 DEF V!ShapeChanges, TvControl
<1>23. ASSUME NEW t \in V!Threads, V!BlankLock(t) PROVE TvControl'
  BY <1>23 DEF V!BlankLock, V!Goto, V!Threads, TvTypes, TvControl, CallsTyped,
               Aspect
<1>24. ASSUME NEW t \in V!Threads, V!BlankWrite(t) PROVE TvControl'
  BY <1>24 DEF V!BlankWrite, V!Goto, TvControl, Aspect
<1>25. ASSUME NEW t \in V!Threads, V!Switch(t) PROVE TvControl'
  <2>1. V!Dsize(vloc[t].ar, vdec._aspect, vdec._mode) # "none"
    BY TvTypes, ModeKinds DEF TvTypes, CallsTyped, VdecTyped, Local
  <2> QED
    BY <2>1, <1>25 DEF V!Switch, V!Goto, TvTypes, TvControl, CallsTyped, Aspect
<1>26. ASSUME NEW t \in V!Threads, V!SetSize(t) PROVE TvControl'
  BY <1>26 DEF V!SetSize, V!Goto, TvControl, Aspect
<1>27. ASSUME NEW t \in V!Threads, V!PinTest(t) PROVE TvControl'
  <2>1. CASE vpc' = [vpc EXCEPT ![t] = "pinset"] /\ \E v : vloc' = [vloc EXCEPT ![t].pin = v]
    BY <2>1, TvTypes, TvControl, <1>27
       DEF V!PinTest, TvTypes, CallsTyped, Spots, V!Threads, TvControl, Aspect
  <2>2. CASE vpc' = [vpc EXCEPT ![t] = vloc[t].ret]
             /\ (vloc' = IF t = "dog" THEN vloc ELSE [vloc EXCEPT ![t] = V!NoLocals])
    BY <2>2, TvTypes, TvControl, <1>27
       DEF V!PinTest, TvTypes, CallsTyped, Spots, V!Threads, TvControl, Aspect,
           V!NoLocals
  <2> QED
    BY <2>1, <2>2, <1>27 DEF V!PinTest, V!AspectDone, V!Goto
<1>28. ASSUME NEW t \in V!Threads, V!PinSet(t) PROVE TvControl'
  BY <1>28 DEF V!PinSet, V!AspectDone, V!NoLocals, V!Goto, V!Threads, TvTypes,
               TvControl, CallsTyped
<1> QED
  BY <1>1, <1>2, <1>3, <1>4, <1>5, <1>6, <1>7, <1>8, <1>9, <1>10, <1>11, <1>12,
     <1>13, <1>14, <1>15, <1>16, <1>17, <1>18, <1>19, <1>20, <1>21, <1>22, <1>23,
     <1>24, <1>25, <1>26, <1>27, <1>28
     DEF V!Next, V!Gui, V!Picture, V!Display, V!Power, V!Zapper, V!Watchdog,
         V!Shared

(* A step of which the still picture knows nothing: those of the calls for *)
(* the display and the power are such.                                     *)
Mute ==
  /\ vdec'.pic_shown = vdec.pic_shown /\ vdev'.still = vdev.still /\ vdev'.source = vdev.source
  /\ UNCHANGED <<stillp_mutex, overrun>>
  /\ \A t \in V!Threads : vpc'[t] \in {"write", "show"} => vpc'[t] = vpc[t]

LEMMA MuteSteps ==
  ASSUME TvTypes, TvControl,
         V!Display \/ V!Power \/ V!Watchdog \/ V!ShapeChanges
           \/ \E t \in V!Threads : V!Switch(t) \/ V!SetSize(t) \/ V!PinTest(t) \/ V!PinSet(t)
  PROVE  Mute
<1>1. ASSUME NEW a \in V!Aspects \cup {V!Keep}, NEW m \in Modes \cup {V!Unset},
             V!SetAspect(a, m)
      PROVE  Mute
  BY <1>1 DEF V!SetAspect, V!setAspectRatio, V!Goto, V!picVars, Mute
<1>2. ASSUME V!Pig PROVE Mute
  BY <1>2 DEF V!Pig, V!picVars, Mute
<1>3. ASSUME V!PigReset PROVE Mute
  BY <1>3 DEF V!PigReset, V!setZoom, V!setAspectRatio, V!Goto, V!picVars, Mute
<1>4. ASSUME NEW f \in Outputs, V!SetVideoMode(f) PROVE Mute
  BY <1>4 DEF V!SetVideoMode, V!picVars, Mute
<1>5. ASSUME NEW on \in BOOLEAN, V!Standby(on) PROVE Mute
  BY <1>5 DEF V!Standby, V!Goto, V!picVars, Mute
<1>6. ASSUME V!Route PROVE Mute
  BY <1>6 DEF V!Route, V!routeVideo, V!Goto, V!picVars, Mute
<1>7. ASSUME V!Stand PROVE Mute
  BY <1>7 DEF V!Stand, V!Goto, V!picVars, Mute
<1>8. ASSUME V!VideoParamWatchdog PROVE Mute
  BY <1>8 DEF V!VideoParamWatchdog, V!Goto, V!picVars, Mute
<1>9. ASSUME V!ParamsChanged PROVE Mute
  BY <1>9 DEF V!ParamsChanged, V!setAspectRatio, V!Goto, V!picVars, Mute
<1>10. ASSUME V!Watched PROVE Mute
  BY <1>10 DEF V!Watched, V!Goto, V!picVars, Mute
<1>11. ASSUME V!ShapeChanges PROVE Mute
  BY <1>11 DEF V!ShapeChanges, V!picVars, Mute
<1>12. ASSUME NEW t \in V!Threads, V!Switch(t) PROVE Mute
  BY <1>12 DEF V!Switch, V!Displayed, V!Goto, V!picVars, V!Threads, Mute
<1>13. ASSUME NEW t \in V!Threads, V!SetSize(t) PROVE Mute
  BY <1>13 DEF V!SetSize, V!Goto, V!picVars, Mute
<1>14. ASSUME NEW t \in V!Threads, V!PinTest(t) PROVE Mute
  BY <1>14 DEF V!PinTest, V!AspectDone, V!Goto, V!picVars, V!Threads, TvTypes,
               TvControl, CallsTyped, Mute
<1>15. ASSUME NEW t \in V!Threads, V!PinSet(t) PROVE Mute
  BY <1>15 DEF V!PinSet, V!AspectDone, V!Goto, V!picVars, V!Threads, TvControl,
               Mute
<1> QED
  BY <1>1, <1>2, <1>3, <1>4, <1>5, <1>6, <1>7, <1>8, <1>9, <1>10, <1>11, <1>12,
     <1>13, <1>14, <1>15
     DEF V!Display, V!Power, V!Watchdog

(* The picture stays with the holder of the mutex. *)
LEMMA PictureKept ==
  ASSUME TvTypes, TvControl, TvPicture, V!Next
  PROVE  TvPicture'
<1>1. ASSUME V!ShowPicture PROVE TvPicture'
  BY <1>1 DEF V!ShowPicture, V!Goto, V!picVars, TvPicture, V!PictureStays
<1>2. ASSUME V!ShowLock PROVE TvPicture'
  <2>1. CASE stillp_mutex' = "gui"
    <3>1. /\ vpc' = [vpc EXCEPT !["gui"] = "show"] /\ stillp_mutex = "free"
          /\ vdec'.pic_shown = TRUE
      BY TvTypes, <1>2, <2>1 DEF V!ShowLock, V!Goto, TvTypes, VdecTyped
    <3>2. \A t \in V!Threads : vpc'[t] # "write"
      BY <3>1, TvTypes, TvPicture DEF TvTypes, CallsTyped, V!Threads, TvPicture
    <3> QED
      BY <3>1, <3>2, <2>1 DEF TvPicture, V!PictureStays
  <2>2. CASE UNCHANGED <<vdec, stillp_mutex>>
    BY <1>2, <2>2 DEF V!ShowLock, V!Goto, TvTypes, CallsTyped, TvPicture,
                      V!PictureStays
  <2> QED
    BY <2>1, <2>2, <1>2 DEF V!ShowLock
<1>3. ASSUME V!ShowWrite PROVE TvPicture'
  BY <1>3 DEF V!ShowWrite, V!Goto, V!Threads, TvTypes, CallsTyped, TvPicture,
              V!PictureStays
<1>4. ASSUME V!StopPicture PROVE TvPicture'
  BY <1>4 DEF V!StopPicture, V!SelectsDemux, TvPicture, V!PictureStays
<1>5. ASSUME V!setBlank PROVE TvPicture'
  BY <1>5 DEF V!setBlank, V!Goto, V!picVars, TvPicture, V!PictureStays
<1>6. ASSUME V!Start PROVE TvPicture'
  BY <1>6 DEF V!Start, V!Goto, V!picVars, TvPicture, V!PictureStays
<1>7. ASSUME V!StartDo PROVE TvPicture'
  BY <1>7 DEF V!StartDo, V!Goto, TvTypes, VdecTyped, TvPicture, V!PictureStays
<1>8. ASSUME NEW blank \in BOOLEAN, V!Stop(blank) PROVE TvPicture'
  BY <1>8 DEF V!Stop, V!Goto, V!Threads, TvPicture, V!PictureStays
<1>9. ASSUME V!StopMark PROVE TvPicture'
  BY <1>9 DEF V!StopMark, V!Goto, V!picVars, TvPicture, V!PictureStays
<1>10. ASSUME V!StopDo PROVE TvPicture'
  BY <1>10 DEF V!StopDo, V!Goto, V!Threads, TvTypes, CallsTyped, DevTyped,
               TvPicture, V!PictureStays
<1>11. ASSUME V!Stopped PROVE TvPicture'
  BY <1>11 DEF V!Stopped, V!Goto, V!picVars, TvPicture, V!PictureStays
<1>12. ASSUME NEW t \in V!Threads, V!BlankLock(t) PROVE TvPicture'
  BY <1>12 DEF V!BlankLock, V!PictureShown, V!Goto, V!Threads, TvTypes,
               TvControl, CallsTyped, TvPicture, V!PictureStays
<1>13. ASSUME NEW t \in V!Threads, V!BlankWrite(t) PROVE TvPicture'
  BY <1>13 DEF V!BlankWrite, V!SelectsDemux, V!Goto, V!Threads, TvTypes,
               TvControl, CallsTyped, TvPicture, V!PictureStays
<1>14. ASSUME Mute PROVE TvPicture'
  BY TvPicture, <1>14 DEF Mute, TvPicture, V!PictureStays, V!Threads
<1> QED
  BY <1>1, <1>2, <1>3, <1>4, <1>5, <1>6, <1>7, <1>8, <1>9, <1>10, <1>11, <1>12,
     <1>13, <1>14, TvTypes, TvControl, MuteSteps
     DEF V!Next, V!Gui, V!Picture, V!Zapper, V!Shared

(* A step that neither display nor output notices, such as those of the    *)
(* still picture and of the zapper.                                        *)
Quiet ==
  /\ \A t \in {"gui", "dog"} :
       \A l \in Aspect \cup {"stand", "watched"} : vpc'[t] = l <=> vpc[t] = l
  /\ vpc'["gui"] \in {"black", "write", "route"} <=> vpc["gui"] \in {"black", "write", "route"}
  /\ \A t \in {"gui", "dog"} :
       /\ vloc'[t].ar = vloc[t].ar /\ vloc'[t].size = vloc[t].size
       /\ vloc'[t].pin = vloc[t].pin /\ vloc'[t].blank = vloc[t].blank
  /\ UNCHANGED <<pig, relit, alone, mixed>>
  /\ vdec'.outputformat = vdec.outputformat /\ vdec'.scartvoltage = vdec.scartvoltage
  /\ vdec'.video_standby = vdec.video_standby /\ vdec'._aspect = vdec._aspect
  /\ vdec'._mode = vdec._mode /\ vdec'._v_info = vdec._v_info
  /\ vdev'.outfmt = vdev.outfmt /\ vdev'.route = vdev.route /\ vdev'.pin8 = vdev.pin8
  /\ vdev'.size = vdev.size /\ vdev'.disp = vdev.disp /\ vdev'.scale = vdev.scale

LEMMA QuietSteps ==
  ASSUME TvTypes, TvControl,
         V!Picture \/ V!Zapper \/ V!VideoParamWatchdog \/ V!ShapeChanges
           \/ \E t \in V!Threads : V!BlankLock(t) \/ V!BlankWrite(t)
  PROVE  Quiet
<1>1. ASSUME V!ShowPicture PROVE Quiet
  BY <1>1 DEF V!ShowPicture, V!Goto, V!lookVars, V!overlapVars, Aspect, Quiet
<1>2. ASSUME V!ShowLock PROVE Quiet
  <2>1. /\ vpc["gui"] = "showlock"
        /\ vpc' = [vpc EXCEPT !["gui"] = "show"] \/ vpc' = [vpc EXCEPT !["gui"] = "idle"]
        /\ UNCHANGED <<vdev, vloc, pig, relit, alone, mixed>>
        /\ vdec' = vdec \/ vdec' = [vdec EXCEPT !.pic_shown = TRUE, !.playstate = "FREEZED"]
    BY <1>2 DEF V!ShowLock, V!Goto, V!lookVars, V!overlapVars
  <2>2. /\ vpc'["gui"] \in {"show", "idle"} /\ vpc'["dog"] = vpc["dog"]
    BY <2>1, TvTypes DEF TvTypes, CallsTyped, V!Threads
  <2>3. /\ vdec'.outputformat = vdec.outputformat /\ vdec'.scartvoltage = vdec.scartvoltage
        /\ vdec'.video_standby = vdec.video_standby /\ vdec'._aspect = vdec._aspect
        /\ vdec'._mode = vdec._mode /\ vdec'._v_info = vdec._v_info
    BY <2>1, TvTypes DEF TvTypes, VdecTyped
  <2> QED
    BY <2>1, <2>2, <2>3 DEF Quiet, Aspect
<1>3. ASSUME V!ShowWrite PROVE Quiet
  BY <1>3 DEF V!ShowWrite, V!Goto, V!lookVars, V!overlapVars, Aspect, Quiet
<1>4. ASSUME V!StopPicture PROVE Quiet
  BY <1>4 DEF V!StopPicture, V!SelectsDemux, V!lookVars, V!overlapVars, Quiet
<1>5. ASSUME V!setBlank PROVE Quiet
  BY <1>5 DEF V!setBlank, V!Goto, V!lookVars, V!overlapVars, Quiet
<1>6. ASSUME V!Start PROVE Quiet
  BY <1>6 DEF V!Start, V!Goto, V!lookVars, V!overlapVars, Quiet
<1>7. ASSUME V!StartDo PROVE Quiet
  BY <1>7 DEF V!StartDo, V!Goto, V!lookVars, V!overlapVars, Quiet
<1>8. ASSUME NEW blank \in BOOLEAN, V!Stop(blank) PROVE Quiet
  BY <1>8 DEF V!Stop, V!Goto, V!lookVars, V!overlapVars, Quiet
<1>9. ASSUME V!StopMark PROVE Quiet
  BY <1>9 DEF V!StopMark, V!Goto, V!lookVars, V!overlapVars, Quiet
<1>10. ASSUME V!StopDo PROVE Quiet
  BY <1>10 DEF V!StopDo, V!Goto, V!lookVars, V!overlapVars, V!Threads, TvTypes,
               CallsTyped, DevTyped, Quiet
<1>11. ASSUME V!Stopped PROVE Quiet
  BY <1>11 DEF V!Stopped, V!Goto, V!lookVars, V!overlapVars, Quiet
<1>12. ASSUME V!VideoParamWatchdog PROVE Quiet
  BY <1>12 DEF V!VideoParamWatchdog, V!Goto, V!lookVars, V!overlapVars, Aspect,
               Quiet
<1>13. ASSUME V!ShapeChanges PROVE Quiet
  BY <1>13 DEF V!ShapeChanges, V!lookVars, V!overlapVars, Quiet
<1>14. ASSUME NEW t \in V!Threads, V!BlankLock(t) PROVE Quiet
  BY <1>14 DEF V!BlankLock, V!Goto, V!lookVars, V!overlapVars, V!Threads,
               TvTypes, TvControl, CallsTyped, Aspect, Quiet
<1>15. ASSUME NEW t \in V!Threads, V!BlankWrite(t) PROVE Quiet
  BY <1>15 DEF V!BlankWrite, V!SelectsDemux, V!Goto, V!lookVars, V!overlapVars,
               TvControl, Aspect, Quiet
<1> QED
  BY <1>1, <1>2, <1>3, <1>4, <1>5, <1>6, <1>7, <1>8, <1>9, <1>10, <1>11, <1>12,
     <1>13, <1>14, <1>15
     DEF V!Picture, V!Zapper

(* Display, output and pins together: a quiet step keeps them. *)
TvScreen == TvAlone /\ TvDisplay /\ TvOutput /\ TvPin
LEMMA QuietKeeps ==
  ASSUME TvTypes, TvControl, TvScreen, Quiet
  PROVE  TvScreen'
<1>1. GuiSets' <=> GuiSets
  BY DEF Quiet, GuiSets, Aspect
<1>2. DogSets' <=> DogSets
  BY DEF Quiet, DogSets, Aspect
<1>3. alone \subseteq {"gui", "dog"}
  BY DEF TvTypes, OthersTyped, TvScreen, TvAlone, V!Threads
<1>4. TvAlone'
  BY <1>1, <1>2 DEF Quiet, TvScreen, TvAlone
<1>5. vpc'["gui"] \in Aspect <=> vpc["gui"] \in Aspect
  BY DEF Quiet, Aspect
<1>6. \A ar : Fits(ar)' <=> Fits(ar)
  BY DEF Quiet, Fits
<1>7. \A ar : Sized(ar)' <=> Sized(ar)
  BY DEF Quiet, Sized
<1>8. TvDisplay'
  BY <1>2, <1>3, <1>5, <1>6, <1>7 DEF Quiet, TvScreen, TvDisplay, Aspect
<1>9. TvOutput'
  BY DEF Quiet, TvScreen, TvOutput, Standing
<1>10. PinFits' <=> PinFits
  BY DEF Quiet, PinFits
<1>11. TvPin'
  BY <1>1, <1>2, <1>3, <1>10 DEF Quiet, TvScreen, TvPin, Standing, Aspect
<1> QED
  BY <1>4, <1>8, <1>9, <1>11 DEF TvScreen

(* The other steps, for each part. *)
LEMMA SettingThreads ==
  ASSUME TvTypes, TvControl
  PROVE  /\ "gui" \in V!Setting <=> GuiSets
         /\ "dog" \in V!Setting <=> DogSets
         /\ "zap" \notin V!Setting
         /\ V!Setting = {} <=> ~GuiSets /\ ~DogSets
<1>1. /\ "gui" \in V!Setting <=> GuiSets
      /\ "dog" \in V!Setting <=> DogSets
      /\ "zap" \notin V!Setting
  BY DEF TvTypes, TvControl, CallsTyped, GuiSets, DogSets, V!Setting, V!Threads,
         Aspect
<1>2. V!Setting \subseteq {"gui", "zap", "dog"}
  BY DEF V!Setting, V!Threads
<1> QED
  BY <1>1, <1>2

LEMMA AloneKept ==
  ASSUME TvTypes, TvControl, TvScreen,
         V!Display \/ V!Power \/ V!ParamsChanged \/ V!Watched
           \/ \E t \in V!Threads : V!Switch(t) \/ V!SetSize(t) \/ V!PinTest(t) \/ V!PinSet(t)
  PROVE  TvAlone'
<1>1. ASSUME NEW a \in V!Aspects \cup {V!Keep}, NEW m \in Modes \cup {V!Unset},
             V!SetAspect(a, m)
      PROVE  TvAlone'
  BY SettingThreads, <1>1
     DEF V!SetAspect, V!setAspectRatio, V!Enters, V!Goto, V!Threads, TvTypes,
         CallsTyped, Aspect, TvAlone, GuiSets, DogSets
<1>2. ASSUME V!Pig PROVE TvAlone'
  BY <1>2 DEF V!Pig, V!overlapVars, TvScreen, TvAlone, GuiSets, DogSets
<1>3. ASSUME V!PigReset PROVE TvAlone'
  BY SettingThreads, <1>3
     DEF V!PigReset, V!setAspectRatio, V!Enters, V!Goto, V!Threads, TvTypes,
         CallsTyped, Aspect, TvAlone, GuiSets, DogSets
<1>4. ASSUME NEW f \in Outputs, V!SetVideoMode(f) PROVE TvAlone'
  BY <1>4 DEF V!SetVideoMode, V!overlapVars, TvScreen, TvAlone, GuiSets, DogSets
<1>5. ASSUME NEW on \in BOOLEAN, V!Standby(on) PROVE TvAlone'
  BY SettingThreads, <1>5
     DEF V!Standby, V!Enters, V!Goto, V!Threads, TvTypes, CallsTyped, TvAlone,
         GuiSets, DogSets
<1>6. ASSUME V!Route PROVE TvAlone'
  BY <1>6 DEF V!Route, V!Goto, V!overlapVars, TvScreen, TvAlone, GuiSets,
              DogSets
<1>7. ASSUME V!Stand PROVE TvAlone'
  BY <1>7 DEF V!Stand, V!Leaves, V!Goto, TvTypes, CallsTyped, OthersTyped,
              Aspect, TvScreen, TvAlone, GuiSets, DogSets
<1>8. ASSUME V!ParamsChanged PROVE TvAlone'
  BY SettingThreads, <1>8
     DEF V!ParamsChanged, V!setAspectRatio, V!Enters, V!Goto, V!Threads,
         TvTypes, CallsTyped, Aspect, TvAlone, GuiSets, DogSets
<1>9. ASSUME V!Watched PROVE TvAlone'
  BY <1>9 DEF V!Watched, V!LeavesDisplay, V!Leaves, V!Goto, TvTypes, CallsTyped,
              OthersTyped, Aspect, TvScreen, TvAlone, GuiSets, DogSets
<1>10. ASSUME NEW t \in V!Threads, V!Switch(t) PROVE TvAlone'
  BY <1>10 DEF V!Switch, V!Goto, V!overlapVars, V!Threads, Aspect, TvScreen,
               TvAlone, GuiSets, DogSets
<1>11. ASSUME NEW t \in V!Threads, V!SetSize(t) PROVE TvAlone'
  BY <1>11 DEF V!SetSize, V!Goto, V!overlapVars, Aspect, TvScreen, TvAlone,
               GuiSets, DogSets
<1>12. ASSUME NEW t \in V!Threads, V!PinTest(t) PROVE TvAlone'
  BY <1>12 DEF V!PinTest, V!AspectDone, V!LeavesDisplay, V!Leaves, V!Goto,
               V!overlapVars, V!Threads, TvTypes, TvControl, CallsTyped, Aspect,
               TvScreen, TvAlone, GuiSets, DogSets
<1>13. ASSUME NEW t \in V!Threads, V!PinSet(t) PROVE TvAlone'
  BY <1>13 DEF V!PinSet, V!AspectDone, V!LeavesDisplay, V!Leaves, V!Goto,
               V!overlapVars, V!Threads, TvTypes, TvControl, CallsTyped, Aspect,
               TvScreen, TvAlone, GuiSets, DogSets
<1> QED
  BY <1>1, <1>2, <1>3, <1>4, <1>5, <1>6, <1>7, <1>8, <1>9, <1>10, <1>11, <1>12, <1>13
     DEF V!Display, V!Power

LEMMA OutputKept ==
  ASSUME TvTypes, TvControl, TvScreen,
         V!Display \/ V!Power \/ V!ParamsChanged \/ V!Watched
           \/ \E t \in V!Threads : V!Switch(t) \/ V!SetSize(t) \/ V!PinTest(t) \/ V!PinSet(t)
  PROVE  TvOutput'
<1>1. ASSUME NEW a \in V!Aspects \cup {V!Keep}, NEW m \in Modes \cup {V!Unset},
             V!SetAspect(a, m)
      PROVE  TvOutput'
  BY <1>1 DEF V!SetAspect, V!setAspectRatio, V!Goto, V!lookVars, TvScreen,
              TvOutput, Standing
<1>2. ASSUME V!Pig PROVE TvOutput'
  BY <1>2 DEF V!Pig, TvScreen, TvOutput, Standing
<1>3. ASSUME V!PigReset PROVE TvOutput'
  BY <1>3 DEF V!PigReset, V!setZoom, V!setAspectRatio, V!Goto, TvScreen,
              TvOutput, Standing
<1>4. ASSUME NEW f \in Outputs, V!SetVideoMode(f) PROVE TvOutput'
  BY <1>4 DEF V!SetVideoMode, TvScreen, TvOutput, Standing
<1>5. ASSUME NEW on \in BOOLEAN, V!Standby(on) PROVE TvOutput'
  BY <1>5 DEF V!Standby, V!Goto, V!lookVars, TvScreen, TvOutput, Standing
<1>6. ASSUME V!Route PROVE TvOutput'
  BY <1>6 DEF V!Route, V!routeVideo, V!Goto, V!Threads, TvTypes, CallsTyped,
              TvOutput, Standing
<1>7. ASSUME V!Stand PROVE TvOutput'
  BY <1>7 DEF V!Stand, V!Goto, V!lookVars, TvTypes, CallsTyped, TvScreen,
              TvOutput, Standing
<1>8. ASSUME V!ParamsChanged PROVE TvOutput'
  BY <1>8 DEF V!ParamsChanged, V!setAspectRatio, V!Goto, V!lookVars, V!Threads,
              TvTypes, CallsTyped, TvScreen, TvOutput, Standing
<1>9. ASSUME V!Watched PROVE TvOutput'
  BY <1>9 DEF V!Watched, V!Goto, V!lookVars, TvScreen, TvOutput, Standing
<1>10. ASSUME NEW t \in V!Threads, V!Switch(t) PROVE TvOutput'
  BY <1>10 DEF V!Switch, V!Displayed, V!Goto, V!lookVars, V!Threads, TvScreen,
               TvOutput, Standing
<1>11. ASSUME NEW t \in V!Threads, V!SetSize(t) PROVE TvOutput'
  BY <1>11 DEF V!SetSize, V!Goto, V!lookVars, TvScreen, TvOutput, Standing
<1>12. ASSUME NEW t \in V!Threads, V!PinTest(t) PROVE TvOutput'
  BY <1>12 DEF V!PinTest, V!AspectDone, V!Goto, V!lookVars, V!Threads, TvTypes,
               CallsTyped, TvScreen, TvOutput, Standing, Local
<1>13. ASSUME NEW t \in V!Threads, V!PinSet(t) PROVE TvOutput'
  BY <1>13 DEF V!PinSet, V!AspectDone, V!Goto, V!lookVars, V!Threads, TvControl,
               TvScreen, TvOutput, Standing
<1> QED
  BY <1>1, <1>2, <1>3, <1>4, <1>5, <1>6, <1>7, <1>8, <1>9, <1>10, <1>11, <1>12, <1>13
     DEF V!Display, V!Power

LEMMA DisplayKept ==
  ASSUME TvTypes, TvControl, TvScreen,
         V!Display \/ V!Power \/ V!ParamsChanged \/ V!Watched
           \/ \E t \in V!Threads : V!Switch(t) \/ V!SetSize(t) \/ V!PinTest(t) \/ V!PinSet(t)
  PROVE  TvDisplay'
<1>1. ASSUME NEW a \in V!Aspects \cup {V!Keep}, NEW m \in Modes \cup {V!Unset},
             V!SetAspect(a, m)
      PROVE  TvDisplay'
  BY <1>1 DEF V!SetAspect, V!setAspectRatio, V!Enters, V!Goto, V!Threads,
              TvTypes, CallsTyped, Aspect, TvDisplay
<1>2. ASSUME V!Pig PROVE TvDisplay'
  BY <1>2 DEF V!Pig, V!overlapVars, TvScreen, TvDisplay
<1>3. ASSUME V!PigReset PROVE TvDisplay'
  BY <1>3 DEF V!PigReset, V!setAspectRatio, V!Enters, V!Goto, V!Threads,
              TvTypes, CallsTyped, Aspect, TvDisplay
<1>4. ASSUME NEW f \in Outputs, V!SetVideoMode(f) PROVE TvDisplay'
  BY <1>4 DEF V!SetVideoMode, V!overlapVars, TvScreen, DogSets, TvDisplay, Fits,
              Sized
<1>5. ASSUME NEW on \in BOOLEAN, V!Standby(on) PROVE TvDisplay'
  BY <1>5 DEF V!Standby, V!Enters, V!Goto, V!lookVars, Aspect, TvScreen,
              DogSets, TvDisplay, Fits
<1>6. ASSUME V!Route PROVE TvDisplay'
  BY <1>6 DEF V!Route, V!routeVideo, V!Goto, V!overlapVars, Aspect, TvScreen,
              DogSets, TvDisplay, Fits, Sized
<1>7. ASSUME V!Stand PROVE TvDisplay'
  BY <1>7 DEF V!Stand, V!Leaves, V!lookVars, V!Threads, TvTypes, OthersTyped,
              Aspect, TvScreen, TvAlone, GuiSets, TvDisplay, Fits
<1>8. ASSUME V!ParamsChanged PROVE TvDisplay'
  BY <1>8 DEF V!ParamsChanged, V!setAspectRatio, V!Enters, V!Goto, V!Threads,
              TvTypes, CallsTyped, Aspect, DogSets, TvDisplay
<1>9. ASSUME V!Watched PROVE TvDisplay'
  BY <1>9 DEF V!Watched, V!Seen, V!LeavesDisplay, V!Leaves, V!lookVars,
              V!Threads, TvTypes, OthersTyped, TvScreen, TvAlone, DogSets,
              TvDisplay, Fits
<1>10. ASSUME NEW t \in V!Threads, V!Switch(t) PROVE TvDisplay'
  BY TvTypes, TvControl, TvScreen, SettingThreads, <1>10
     DEF V!Switch, V!Displayed, V!Voltage, V!Unscaled, V!Goto, V!picVars,
         V!lookVars, V!overlapVars, V!Threads, V!Shapes, V!Aspects, V!Unset,
         TvTypes, TvControl, CallsTyped, OthersTyped, Aspect, TvScreen, TvAlone,
         GuiSets, DogSets, TvDisplay, Sized
<1>11. ASSUME NEW t \in V!Threads, V!SetSize(t) PROVE TvDisplay'
  BY <1>11 DEF V!SetSize, V!Goto, V!lookVars, V!overlapVars, V!Threads, TvTypes,
               TvControl, OthersTyped, Aspect, TvScreen, TvAlone, GuiSets,
               DogSets, TvDisplay, Fits, Sized
<1>12. ASSUME NEW t \in V!Threads, V!PinTest(t) PROVE TvDisplay'
  BY TvTypes, <1>12 DEF V!PinTest, V!AspectDone, V!LeavesDisplay, V!Leaves,
                        V!Goto, V!lookVars, V!overlapVars, V!Threads, TvTypes,
                        TvControl, CallsTyped, OthersTyped, Aspect, TvScreen,
                        TvAlone, GuiSets, DogSets, TvDisplay, Fits, Local
<1>13. ASSUME NEW t \in V!Threads, V!PinSet(t) PROVE TvDisplay'
  BY TvScreen, SettingThreads, <1>13
     DEF V!PinSet, V!AspectDone, V!LeavesDisplay, V!Leaves, V!Goto, V!lookVars,
         V!overlapVars, V!Threads, V!Aspects, V!Keep, TvTypes, TvControl,
         CallsTyped, OthersTyped, TvScreen, TvAlone, GuiSets, DogSets,
         TvDisplay, Fits
<1> QED
  BY <1>1, <1>2, <1>3, <1>4, <1>5, <1>6, <1>7, <1>8, <1>9, <1>10, <1>11, <1>12, <1>13
     DEF V!Display, V!Power

LEMMA LeavesPin ==
  ASSUME NEW t, NEW seen, V!LeavesDisplay(t, seen)
  PROVE  /\ alone' = alone \ {t}
         /\ "pin8" \notin mixed' =>
              "pin8" \notin mixed \/ (t \in alone /\ ~vdec.video_standby)
<1>1. alone' = alone \ {t}
  BY DEF V!LeavesDisplay, V!Leaves
<1>2. ASSUME "pin8" \in mixed, t \notin alone \/ vdec.video_standby
      PROVE  "pin8" \in mixed'
  <2>1. CASE vdec.video_standby
    BY <1>2, <2>1 DEF V!LeavesDisplay, V!Leaves
  <2>2. CASE t \notin alone
    BY <1>2, <2>2 DEF V!LeavesDisplay, V!Leaves
  <2> QED
    BY <1>2, <2>1, <2>2
<1>3. ASSUME "pin8" \notin mixed', "pin8" \in mixed
      PROVE  t \in alone /\ ~vdec.video_standby
  <2>1. ~(t \notin alone)
    BY <1>2, <1>3
  <2>2. ~vdec.video_standby
    BY <1>2, <1>3
  <2> QED
    BY <2>1, <2>2
<1> QED
  BY <1>1, <1>3

LEMMA PinKept ==
  ASSUME TvTypes, TvControl, TvScreen,
         V!Display \/ V!Power \/ V!ParamsChanged \/ V!Watched
           \/ \E t \in V!Threads : V!Switch(t) \/ V!SetSize(t) \/ V!PinTest(t) \/ V!PinSet(t)
  PROVE  TvPin'
<1>1. ASSUME NEW a \in V!Aspects \cup {V!Keep}, NEW m \in Modes \cup {V!Unset},
             V!SetAspect(a, m)
      PROVE  TvPin'
  BY SettingThreads, <1>1
     DEF V!SetAspect, V!setAspectRatio, V!Enters, V!Goto, V!Threads, TvTypes,
         CallsTyped, TvScreen, TvPin, PinFits, Standing
<1>2. ASSUME V!Pig PROVE TvPin'
  BY <1>2 DEF V!Pig, V!overlapVars, TvScreen, GuiSets, DogSets, TvPin, PinFits,
              Standing
<1>3. ASSUME V!PigReset PROVE TvPin'
  BY SettingThreads, <1>3
     DEF V!PigReset, V!setZoom, V!setAspectRatio, V!Enters, V!Goto, V!Threads,
         TvTypes, CallsTyped, TvScreen, TvPin, PinFits, Standing
<1>4. ASSUME NEW f \in Outputs, V!SetVideoMode(f) PROVE TvPin'
  BY <1>4 DEF V!SetVideoMode, V!overlapVars, TvScreen, GuiSets, DogSets, TvPin,
              PinFits, Standing
<1>5. ASSUME NEW on \in BOOLEAN, V!Standby(on) PROVE TvPin'
  BY SettingThreads, <1>5
     DEF V!Standby, V!Enters, V!Goto, V!Threads, TvTypes, CallsTyped, TvScreen,
         TvPin, PinFits, Standing
<1>6. ASSUME V!Route PROVE TvPin'
  BY <1>6 DEF V!Route, V!routeVideo, V!Goto, V!overlapVars, TvScreen, TvPin,
              PinFits
<1>7. ASSUME V!Stand PROVE TvPin'
  BY <1>7 DEF V!Stand, V!Leaves, V!Goto, V!Threads, TvTypes, OthersTyped,
              TvScreen, TvAlone, GuiSets, TvPin, PinFits, Standing
<1>8. ASSUME V!ParamsChanged PROVE TvPin'
  BY SettingThreads, <1>8
     DEF V!ParamsChanged, V!setAspectRatio, V!Enters, V!Goto, V!Threads,
         TvTypes, CallsTyped, TvScreen, TvPin, PinFits
<1>9. ASSUME V!Watched PROVE TvPin'
  <2>1. /\ vpc["dog"] = "watched" /\ vdev' = vdev
        /\ vpc' = [vpc EXCEPT !["dog"] = "idle"] /\ vloc' = [vloc EXCEPT !["dog"] = V!NoLocals]
        /\ vdec' = [vdec EXCEPT !._v_info = V!Seen]
    BY <1>9 DEF V!Watched, V!Goto
  <2>2. /\ vpc'["gui"] = vpc["gui"] /\ vpc'["dog"] = "idle" /\ vloc'["gui"] = vloc["gui"]
        /\ vdec'.scartvoltage = vdec.scartvoltage /\ vdec'.video_standby = vdec.video_standby
    BY <2>1, TvTypes DEF TvTypes, CallsTyped, VdecTyped, V!Threads
  <2>3. /\ alone' = alone \ {"dog"}
        /\ "pin8" \notin mixed' =>
             "pin8" \notin mixed \/ ("dog" \in alone /\ ~vdec.video_standby)
    BY <1>9, LeavesPin DEF V!Watched
  <2>4. PinFits' <=> PinFits
    BY <2>1, <2>2 DEF PinFits
  <2>5. DogSets /\ ~DogSets' /\ (GuiSets' <=> GuiSets)
    BY <2>1, <2>2 DEF DogSets, GuiSets, Aspect
  <2>6. alone' = {} \/ alone' = {"gui"}
    BY <2>3, TvTypes, TvScreen
       DEF TvTypes, OthersTyped, V!Threads, TvScreen, TvAlone
  <2>7. ASSUME ~GuiSets, "pin8" \notin mixed' PROVE PinFits
    <3>1. "dog" \in alone
      BY <2>3, <2>5, <2>7, TvTypes, TvScreen
         DEF TvScreen, TvAlone, TvTypes, OthersTyped, V!Threads
    <3>2. CASE ~vdec.video_standby
      BY <2>1, <3>1, <3>2, TvScreen DEF TvScreen, TvPin
    <3>3. CASE vdec.video_standby
      <4>1. vdev.route # "enc"
        BY <2>7, <3>3, TvScreen DEF TvScreen, TvOutput, Standing, GuiSets
      <4>2. "pin8" \notin mixed
        BY <2>3, <2>7, <3>3
      <4> QED
        BY <2>1, <3>1, <4>1, <4>2, TvScreen DEF TvScreen, TvPin, PinFits
    <3> QED
      BY <3>2, <3>3
  <2>8. alone' = {}
    BY <2>5, <2>6, <2>3, TvScreen DEF TvScreen, TvAlone
  <2> QED
    BY <2>2, <2>4, <2>5, <2>7, <2>8, TvScreen DEF TvScreen, TvPin
<1>10. ASSUME NEW t \in V!Threads, V!Switch(t) PROVE TvPin'
  BY TvTypes, <1>10 DEF V!Switch, V!Displayed, V!Voltage, V!Goto, V!overlapVars,
                        V!Threads, TvTypes, TvControl, CallsTyped, OthersTyped,
                        Aspect, TvScreen, TvAlone, GuiSets, DogSets, TvPin,
                        PinFits, Standing
<1>11. ASSUME NEW t \in V!Threads, V!SetSize(t) PROVE TvPin'
  BY <1>11 DEF V!SetSize, V!Goto, V!overlapVars, Aspect, TvScreen, GuiSets,
               DogSets, TvPin, PinFits, Standing
<1>12. ASSUME NEW t \in V!Threads, V!PinTest(t) PROVE TvPin'
  <2>1. t \in {"gui", "dog"}
    BY TvTypes, TvControl, <1>12
       DEF V!PinTest, TvTypes, TvControl, CallsTyped, V!Threads, Aspect
  <2>2. /\ alone \subseteq {"gui", "dog"}
        /\ ("gui" \in alone => ~DogSets) /\ ("dog" \in alone => ~GuiSets)
    BY TvTypes, TvScreen DEF TvTypes, OthersTyped, TvScreen, TvAlone, V!Threads
  <2>3. vdev' = vdev /\ vdec' = vdec /\ (PinFits' <=> PinFits) /\ vpc[t] = "pin"
    BY <1>12 DEF V!PinTest, PinFits
  <2>4. CASE vpc'[t] = "pinset"
    <3>1. /\ vpc' = [vpc EXCEPT ![t] = "pinset"]
          /\ vloc' = [vloc EXCEPT ![t].pin = vdec.scartvoltage]
          /\ UNCHANGED <<alone, mixed>> /\ vdec.scartvoltage > 0 /\ ~vdec.video_standby
      BY <2>1, <2>4, <1>12, TvTypes, TvControl
         DEF V!PinTest, V!AspectDone, V!Goto, V!Awake, V!overlapVars, TvTypes,
             TvControl, CallsTyped, V!Threads, Aspect
    <3>2. /\ vloc'[t].pin = vdec.scartvoltage /\ vdec.scartvoltage \in {6, 12}
          /\ \A s \in {"gui", "dog"} \ {t} : vpc'[s] = vpc[s] /\ vloc'[s] = vloc[s]
      BY <2>1, <3>1, TvTypes
         DEF TvTypes, CallsTyped, VdecTyped, Local, V!Threads
    <3>3. (GuiSets' <=> GuiSets) /\ (DogSets' <=> DogSets)
      BY <2>1, <2>3, <2>4, <3>2 DEF GuiSets, DogSets, Aspect
    <3> QED
      BY <2>1, <2>2, <2>3, <2>4, <3>1, <3>2, <3>3, TvScreen
         DEF TvScreen, TvPin, Standing
  <2>5. CASE t = "gui" /\ vpc'["gui"] = "idle"
    <3>0. V!LeavesDisplay("gui", vdec._v_info)
      BY <2>5, <1>12, TvTypes
         DEF V!PinTest, V!AspectDone, V!Goto, TvTypes, CallsTyped, V!Threads
    <3>1. /\ vpc["gui"] = "pin" /\ vdec' = vdec
          /\ vpc'["dog"] = vpc["dog"] /\ vloc'["dog"] = vloc["dog"]
          /\ alone' = alone \ {"gui"}
          /\ "pin8" \notin mixed' =>
               "pin8" \notin mixed \/ ("gui" \in alone /\ ~vdec.video_standby)
      BY <3>0, <2>5, <1>12, TvTypes, TvControl, LeavesPin
         DEF V!PinTest, V!AspectDone, V!Goto, TvTypes, CallsTyped, V!Threads,
             V!NoLocals
    <3>2. GuiSets /\ ~GuiSets' /\ (DogSets' <=> DogSets)
      BY <2>5, <3>1 DEF GuiSets, DogSets, Aspect
    <3>3. alone' = {}
      BY <2>2, <3>1, <3>2
    <3>4. ~(vdec.scartvoltage > 0 /\ ~vdec.video_standby)
      BY <2>5, <1>12, TvTypes
         DEF V!PinTest, V!Goto, V!Awake, TvTypes, CallsTyped, V!Threads
    <3>5. vdec.video_standby \/ vdec.scartvoltage = -1
      BY <3>4, TvTypes DEF TvTypes, VdecTyped
    <3>6. "pin8" \notin mixed' => PinFits
      <4>1. ASSUME "gui" \in alone, ~vdec.video_standby PROVE PinFits
        BY <4>1, <3>5, TvScreen DEF TvScreen, TvPin
      <4>2. ASSUME "pin8" \notin mixed PROVE PinFits
        <5>1. "gui" \in alone
          BY <4>2, <2>2, <3>2, TvScreen DEF TvScreen, TvAlone
        <5>2. vdev.route = "vcr" => vdev.pin8 = 1
          BY <5>1, <4>2, <2>3, <2>5, TvScreen DEF TvScreen, TvPin
        <5>3. vdec.video_standby => vdev.route # "enc"
          BY <2>3, <2>5, TvScreen DEF TvScreen, TvOutput, Standing
        <5> QED
          BY <5>2, <5>3, <3>5, TvScreen DEF TvScreen, TvPin, PinFits
      <4> QED
        BY <4>1, <4>2, <3>1
    <3> QED
      BY <2>3, <2>5, <3>1, <3>2, <3>3, <3>6, TvScreen DEF TvScreen, TvPin
  <2>6. CASE t = "dog" /\ vpc'["dog"] = "watched"
    <3>1. /\ vpc'["gui"] = vpc["gui"] /\ vloc'["gui"] = vloc["gui"]
          /\ UNCHANGED <<alone, mixed>>
          /\ ~(vdec.scartvoltage > 0 /\ ~vdec.video_standby)
      BY <2>6, <1>12, TvTypes
         DEF V!PinTest, V!AspectDone, V!Goto, V!Awake, V!overlapVars, TvTypes,
             CallsTyped, V!Threads
    <3>2. vdec.video_standby \/ vdec.scartvoltage = -1
      BY <3>1, TvTypes DEF TvTypes, VdecTyped
    <3>3. (GuiSets' <=> GuiSets) /\ DogSets' /\ DogSets
      BY <2>3, <2>6, <3>1 DEF GuiSets, DogSets, Aspect
    <3> QED
      BY <2>2, <2>3, <2>6, <3>1, <3>2, <3>3, TvScreen
         DEF TvScreen, TvPin, Standing
  <2> QED
    BY <2>1, <2>4, <2>5, <2>6, <1>12, TvTypes, TvControl
       DEF V!PinTest, V!AspectDone, V!Goto, TvTypes, TvControl, CallsTyped,
           V!Threads, Aspect
<1>13. ASSUME NEW t \in V!Threads, V!PinSet(t) PROVE TvPin'
  <2>1. t \in {"gui", "dog"}
    BY TvTypes, TvControl, <1>13
       DEF V!PinSet, TvTypes, TvControl, CallsTyped, V!Threads, Aspect
  <2>2. /\ alone \subseteq {"gui", "dog"}
        /\ ("gui" \in alone => ~DogSets) /\ ("dog" \in alone => ~GuiSets)
    BY TvTypes, TvScreen DEF TvTypes, OthersTyped, TvScreen, TvAlone, V!Threads
  <2>3. /\ vdec' = vdec /\ vpc[t] = "pinset"
        /\ vdev'.route = vdev.route /\ vdev'.pin8 = vloc[t].pin
    BY <1>13, TvTypes DEF V!PinSet, TvTypes, DevTyped
  <2>4. vdec.scartvoltage # -1
    BY <2>1, <2>3, TvScreen DEF TvScreen, TvPin
  <2>7. ASSUME t \in alone
        PROVE  /\ ~vdec.video_standby /\ PinFits'
               /\ vdev.route # "vcr"
    <3>1. ~vdec.video_standby /\ vloc[t].pin = vdec.scartvoltage
      BY <2>3, <2>7, TvScreen DEF TvScreen, TvPin
    <3>2. vpc["gui"] # "stand"
      BY <2>1, <2>2, <2>3, <2>7 DEF GuiSets, DogSets, Aspect
    <3>3. vdev.route # "vcr"
      BY <3>1, <3>2, TvScreen DEF TvScreen, TvOutput, Standing
    <3> QED
      BY <2>3, <3>1, <3>3 DEF PinFits
  <2>5. CASE t = "gui" /\ vpc'["gui"] = "idle"
    <3>0. V!LeavesDisplay("gui", vdec._v_info)
      BY <2>5, <1>13, TvTypes
         DEF V!PinSet, V!AspectDone, V!Goto, TvTypes, CallsTyped, V!Threads
    <3>1. /\ vpc["gui"] = "pinset" /\ vdec' = vdec
          /\ vpc'["dog"] = vpc["dog"] /\ vloc'["dog"] = vloc["dog"]
          /\ alone' = alone \ {"gui"}
          /\ "pin8" \notin mixed' =>
               "pin8" \notin mixed \/ ("gui" \in alone /\ ~vdec.video_standby)
      BY <3>0, <2>5, <1>13, TvTypes, TvControl, LeavesPin
         DEF V!PinSet, V!AspectDone, V!Goto, TvTypes, CallsTyped, V!Threads,
             V!NoLocals
    <3>2. GuiSets /\ ~GuiSets' /\ (DogSets' <=> DogSets)
      BY <2>5, <3>1 DEF GuiSets, DogSets, Aspect
    <3>3. alone' = {}
      BY <2>2, <3>1, <3>2
    <3>4. "pin8" \notin mixed' => "gui" \in alone
      BY <2>2, <3>1, <3>2, TvScreen DEF TvScreen, TvAlone
    <3> QED
      BY <2>3, <2>4, <2>5, <2>7, <3>1, <3>2, <3>3, <3>4, TvScreen
         DEF TvScreen, TvPin
  <2>6. CASE t = "dog" /\ vpc'["dog"] = "watched"
    <3>1. /\ vpc'["gui"] = vpc["gui"] /\ vloc'["gui"] = vloc["gui"]
          /\ UNCHANGED <<alone, mixed>>
      BY <2>6, <1>13, TvTypes
         DEF V!PinSet, V!AspectDone, V!Goto, V!overlapVars, TvTypes, CallsTyped,
             V!Threads
    <3>3. (GuiSets' <=> GuiSets) /\ DogSets' /\ DogSets
      BY <2>3, <2>6, <3>1 DEF GuiSets, DogSets, Aspect
    <3> QED
      BY <2>2, <2>3, <2>4, <2>6, <2>7, <3>1, <3>3, TvScreen
         DEF TvScreen, TvPin, Standing
  <2> QED
    BY <2>1, <2>5, <2>6, <1>13, TvTypes, TvControl
       DEF V!PinSet, V!AspectDone, V!Goto, TvTypes, TvControl, CallsTyped,
           V!Threads, Aspect
<1> QED
  BY <1>1, <1>2, <1>3, <1>4, <1>5, <1>6, <1>7, <1>8, <1>9, <1>10, <1>11, <1>12, <1>13
     DEF V!Display, V!Power

-----------------------------------------------------------------------------
(* The invariant, and what it says of the screen. *)
TvInv == TvTypes /\ TvControl /\ TvPicture /\ TvScreen

LEMMA TvInit == V!Init => TvInv
<1> SUFFICES ASSUME V!Init
             PROVE  TvInv
  OBVIOUS
<1>1. VdecTyped /\ DevTyped /\ OthersTyped
  BY OutputsAssumption
     DEF OutputsAssumption, V!Init, VdecTyped, DevTyped, OthersTyped,
         V!Unscaled, V!Unset, V!Keep, V!DispModes, V!Threads, V!Shapes,
         V!Aspects
<1>2. V!NoLocals \in Local
  BY DEF V!NoLocals, Local, V!Shapes
<1>3. CallsTyped
  BY <1>2 DEF V!Init, CallsTyped, Spots
<1>4. /\ \A t \in V!Threads : vpc[t] = "idle" /\ vloc[t] = V!NoLocals
      /\ {"gui", "zap", "dog"} = V!Threads
  BY DEF V!Init, V!Threads
<1>5. TvControl
  BY <1>4 DEF TvControl, V!NoLocals, Aspect
<1>6. TvPicture
  BY <1>4 DEF V!Init, TvPicture, V!PictureStays
<1>7. TvScreen
  <2>1. ~GuiSets /\ ~DogSets
    BY <1>4 DEF GuiSets, DogSets, Aspect
  <2>2. /\ alone = {} /\ vdec._v_info = "none" /\ vdec.video_standby = FALSE
        /\ vdev.route = "unset" /\ vpc["gui"] = "idle" /\ vpc["dog"] = "idle"
    BY <1>4 DEF V!Init
  <2>3. TvAlone
    BY <2>1, <2>2 DEF TvAlone
  <2>4. TvDisplay
    BY <2>2 DEF TvDisplay
  <2>5. TvOutput
    BY <2>2 DEF TvOutput, Standing
  <2>6. TvPin
    BY <2>2 DEF TvPin, PinFits
  <2> QED
    BY <2>3, <2>4, <2>5, <2>6 DEF TvScreen
<1> QED
  BY <1>1, <1>3, <1>5, <1>6, <1>7 DEF TvInv, TvTypes

LEMMA TvStep ==
  ASSUME TvInv, [V!Next]_(V!vars)
  PROVE  TvInv'
<1>1. CASE V!Next
  <2>1. TvTypes'
    BY <1>1, VdecKept, DevKept, CallsKept, OthersKept DEF TvInv, TvTypes
  <2>2. TvControl' /\ TvPicture'
    BY <1>1, ControlKept, PictureKept DEF TvInv
  <2>3. ASSUME Quiet PROVE TvScreen'
    BY <2>3, QuietKeeps DEF TvInv
  <2>4. ASSUME V!Display \/ V!Power \/ V!ParamsChanged \/ V!Watched
               \/ \E t \in V!Threads : V!Switch(t) \/ V!SetSize(t) \/ V!PinTest(t) \/ V!PinSet(t)
        PROVE  TvScreen'
    <3>1. TvAlone' /\ TvDisplay'
      BY <2>4, AloneKept, DisplayKept DEF TvInv
    <3>2. TvOutput' /\ TvPin'
      BY <2>4, OutputKept, PinKept DEF TvInv
    <3> QED
      BY <3>1, <3>2 DEF TvScreen
  <2>5. TvScreen'
    BY <1>1, <2>3, <2>4, QuietSteps
       DEF TvInv, V!Next, V!Gui, V!Watchdog, V!Shared
  <2> QED
    BY <2>1, <2>2, <2>5 DEF TvInv
<1>2. CASE UNCHANGED V!vars
  <2>1. TvTypes'
    BY <1>2 DEF TvInv, V!vars, TvTypes, VdecTyped, DevTyped, CallsTyped,
                OthersTyped
  <2>2. TvControl' /\ TvPicture'
    BY <1>2 DEF TvInv, V!vars, TvControl, TvPicture, V!PictureStays
  <2>3. Quiet
    BY <1>2 DEF V!vars, Quiet
  <2>4. TvScreen'
    BY <2>3, QuietKeeps DEF TvInv
  <2> QED
    BY <2>1, <2>2, <2>4 DEF TvInv
<1> QED
  BY <1>1, <1>2

(* It is stronger than what is promised. *)
LEMMA TvSafe == TvInv => V!TypeOK /\ V!ScreenFollows
<1> SUFFICES ASSUME TvInv
             PROVE  V!TypeOK /\ V!ScreenFollows
  OBVIOUS
<1>1. V!TypeOK
  BY TypesAreTypes DEF TvInv
<1>2. V!PictureStays
  BY DEF TvInv, TvPicture
<1>3. V!DisplayFollows
  <2> SUFFICES ASSUME V!Setting = {}, vpc["dog"] = "idle", vdec._v_info = shape, ~pig,
                      mixed \cap {"display", "glimpse"} = {}
               PROVE  /\ vdev.size = V!Dsize(shape, vdec._aspect, vdec._mode)
                      /\ vdec._mode # V!Unset =>
                           vdev = V!Displayed(vdev, shape, vdec._aspect, vdec._mode)
    BY DEF V!DisplayFollows
  <2>1. ~GuiSets /\ ~DogSets
    BY SettingThreads DEF TvInv
  <2>2. shape # "none"
    BY DEF TvInv, TvTypes, OthersTyped, V!Shapes
  <2>3. Fits(shape)
    BY <2>1, <2>2 DEF TvInv, TvScreen, TvDisplay, GuiSets
  <2>4. ASSUME vdec._mode # V!Unset
        PROVE  vdev = V!Displayed(vdev, shape, vdec._aspect, vdec._mode)
    <3>1. vdev = [vdev EXCEPT !.disp = vdev.disp, !.scale = vdev.scale]
      BY DEF TvInv, TvTypes, DevTyped
    <3> QED
      BY <2>3, <2>4, <3>1 DEF Fits, V!Displayed, V!Unset
  <2> QED
    BY <2>3, <2>4 DEF Fits
<1>4. V!OutputFollows
  <2> SUFFICES ASSUME V!Setting = {}, "pin8" \notin mixed, vdev.route # "unset"
               PROVE  IF vdec.video_standby
                        THEN /\ vdev.route = "vcr" /\ vdev.pin8 = 1
                             /\ relit \/ vdev.outfmt = "off"
                        ELSE /\ vdev.route = "enc" /\ vdev.pin8 = vdec.scartvoltage
                             /\ vdev.outfmt = vdec.outputformat
    BY DEF V!OutputFollows
  <2>1. ~GuiSets /\ ~DogSets
    BY SettingThreads DEF TvInv
  <2>2. PinFits
    BY <2>1 DEF TvInv, TvScreen, TvPin
  <2> QED
    BY <2>1, <2>2 DEF TvInv, TvScreen, TvOutput, Standing, PinFits, GuiSets
<1> QED
  BY <1>1, <1>2, <1>3, <1>4 DEF V!ScreenFollows

-----------------------------------------------------------------------------
(* The run's behaviours: playback and television take turns. *)
MCVars == <<view, calls, vars, tvvars>>
LEMMA StepsOfViews ==
  ASSUME [MCNext]_MCVars
  PROVE  [Next]_vars /\ [V!Next]_(V!vars)
<1>1. [Next]_vars
  BY DEF MCNext, MCVars
<1>2. [V!Next]_(V!vars)
  BY DEF MCNext, MCVars, tvvars, V!vars, PictureNext, DisplayNext, V!Next, V!Gui
<1> QED
  BY <1>1, <1>2

LEMMA TvInvariance == MCSpec => []TvInv
<1>1. MCInit => TvInv
  BY TvInit DEF MCInit
<1>2. TvInv /\ [MCNext]_MCVars => TvInv'
  BY StepsOfViews, TvStep
<1> QED
  BY <1>1, <1>2, PTL DEF MCSpec, MCVars

(* Television leaves the playback thread alone, so TypeCorrect applies. *)
LEMMA PlaybackOfViews == MCSpec => Spec
<1>1. MCInit => Init
  BY DEF MCInit
<1>2. [MCNext]_MCVars => [Next]_vars
  BY StepsOfViews
<1> QED
  BY <1>1, <1>2, PTL DEF MCSpec, MCVars, Spec

(* Playback's variables, the driver's and those of the calls of cVideo     *)
(* have their types, -1 for a pin 8 never set and the locals of every      *)
(* caller included.                                                        *)
THEOREM ViewsTyped == MCSpec => []TypesOK
<1>1. TvInv => V!TypeOK
  BY TvSafe
<1> QED
  BY <1>1, TvInvariance, PlaybackOfViews, TypeCorrect, PTL DEF TypesOK

(* libtriple's cVideo (video_td.cpp), whatever the GUI, the zapper and the *)
(* watchdog thread do at the same time: while nobody holds its mutex, the  *)
(* decoder has the still picture if it is said to be shown (and was not    *)
(* started over it), and the demux if it is not; once the watchdog has     *)
(* seen the stream's shape, size, mode and scaler are those it asks for;   *)
(* and standby has switched output and pin 8 over, and back.               *)
THEOREM ScreenIsFollowed == MCSpec => []ScreenFollows
<1>1. TvInv => ScreenFollows
  BY TvSafe DEF ScreenFollows
<1> QED
  BY <1>1, TvInvariance, PTL
=============================================================================
