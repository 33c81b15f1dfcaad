---------------------------- MODULE EPlayerProofs ----------------------------
(***************************************************************************)
(* TLAPS proofs about EPlayer, for any number of files and threads.        *)
(*                                                                         *)
(* As long as the user meets no thread it cannot wait for (~stray) there   *)
(* is one play thread at a time, and the two ways into Player::Stop        *)
(* exclude each other.  The invariant says so for every position of user   *)
(* and thread.                                                             *)
(***************************************************************************)
EXTENDS EPlayer, TLAPS

(* The thread is on its way to the file, in its loop or at its end; or it  *)
(* is in the part of its own Stop that acts on the player.                 *)
Near(t) == pc[t] = "born" \/ Announced(t)
Stopping(t) == pc[t] \in {"stop flags", "stop input", "stop avfc"}
(* The user is between Play and the test of its Stop. *)
UserPlays == pc[User] \in {"idle", "stop"} \cup Controls

(* Without Output::Open the devices are closed. *)
Devices == phase # "started" => audio = "closed" /\ video = "closed"

(* One thread at a time, and the flags say what it does. *)
Alone == \A t, u \in Threads : Alive(t) /\ Alive(u) => t = u
Announcements ==
  /\ hasThreadStarted <=> \E t \in Threads : Announced(t)
  /\ hasPlayThreadStarted <=> \E t \in Threads : pc[t] \in Reading

(* Where the thread is, and what that says about user, file and context. *)
Thread(t) ==
  /\ Near(t) \/ Stopping(t) =>
       session[t] = opens /\ phase = "started" /\ pc[User] \notin {"play", "close"}
  /\ Near(t) /\ UserPlays => isPlaying
  /\ pc[t] = "born" \/ Stopping(t) => UserPlays
  /\ pc[t] = "stop" /\ isPlaying => session[t] = opens
  /\ pc[t] \in {"stop input", "stop avfc", "stop wait"} => ~isPlaying
  /\ pc[t] = "stop flags" => isPlaying
  /\ pc[t] = "read" => avfc # 0 /\ pc[User] \notin {"stop avfc", "stop wait"}
  /\ pc[t] = "stop avfc" => avfc # 0

(* Where the user is. *)
Caller ==
  /\ isPlaying =>
       /\ phase = "started" /\ avfc # 0 /\ (UserPlays \/ UserAt("stop flags"))
       /\ \E t \in Threads : session[t] = opens /\ (Near(t) \/ pc[t] \in {"stop", "stop flags"})
  /\ UserAt("stop flags") => isPlaying
  /\ UserAt("play") => phase = "started"
  /\ pc[User] \in {"stop input", "stop avfc"} => phase = "started"
  /\ UserAt("stop avfc") => avfc # 0
  /\ phase = "opened" \/ UserAt("play") => avfc # 0 /\ \A t \in Threads : session[t] # opens

(* The context of a file that had a thread is there no longer than one of  *)
(* the two is about to close it.                                           *)
Context ==
  (\E t \in Threads : session[t] = opens) /\ avfc # 0 =>
    \/ isPlaying \/ pc[User] \in {"stop input", "stop avfc"}
    \/ \E t \in Threads : pc[t] \in {"stop input", "stop avfc"}

(* The picture is as PictureFollowsPause says also while a call is made. *)
Picture ==
  isPlaying /\ (UserPlays \/ UserAt("stop flags")) /\ hasVideo /\ video # "closed" =>
    video = IF isPaused THEN "paused" ELSE "playing"

Core ==
  /\ ~fault /\ Alone /\ Announcements /\ Caller /\ Context /\ Picture
  /\ \A t \in Threads : Thread(t)
IInv == TypeOK /\ Devices /\ (~stray => Core)

-----------------------------------------------------------------------------
(* Every step keeps the flags Boolean. *)
LEMMA FlagsStep ==
  ASSUME TypeOK, [Next]_vars
  PROVE  Flags'
<1> USE DEF TypeOK, Flags, vars, flags, media, input, device, ghost
<1>1. CASE Open
  BY <1>1, Zenon DEF Open, InputInit
<1>2. CASE Play
  BY <1>2, Zenon DEF Play, OutputOpen
<1>3. CASE AskControl
  BY <1>3, Zenon DEF AskControl, Control
<1>4. CASE UserStop
  BY <1>4, Zenon DEF UserStop
<1>5. CASE PlayFails
  BY <1>5, Zenon DEF PlayFails
<1>6. CASE PlayStarts
  BY <1>6, Zenon DEF PlayStarts, PlayFlags, OutputPlay
<1>7. CASE PlayCreates
  BY <1>7, Zenon DEF PlayCreates, PlayFlags, OutputPlay
<1>8. CASE Pause
  BY <1>8, Zenon DEF Pause, ControlFrame, OutputPause
<1>9. CASE Continue
  BY <1>9, Zenon DEF Continue, ControlFrame, OutputContinue
<1>10. CASE FastForward
  BY <1>10, Zenon DEF FastForward, ControlFrame
<1>11. CASE FastBackward
  BY <1>11, Zenon DEF FastBackward, ControlFrame
<1>12. CASE SlowMotion
  BY <1>12, Zenon DEF SlowMotion, ControlFrame, OutputContinue
<1>13. CASE UserClose
  BY <1>13, Zenon DEF UserClose, OutputClose, PlayerClose
<1>14. CASE RequestAbort
  BY <1>14, Zenon DEF RequestAbort
<1>15. ASSUME NEW t \in Threads, Begin(t) PROVE Flags'
  BY <1>15, Zenon DEF Begin, AtBegin
<1>16. ASSUME NEW t \in Threads, InputBegin(t) PROVE Flags'
  BY <1>16, Zenon DEF InputBegin
<1>17. ASSUME NEW t \in Threads, LoopEnds(t) PROVE Flags'
  BY <1>17, Zenon DEF LoopEnds
<1>18. ASSUME NEW t \in Threads, LoopRead(t) PROVE Flags'
  <2>1. fault' = (fault \/ avfc = 0) /\ (fault \/ avfc = 0) \in BOOLEAN
    BY <1>18, Zenon DEF LoopRead
  <2> QED
    BY <1>18, <2>1, Zenon DEF LoopRead
<1>19. ASSUME NEW t \in Threads, ReadPacket(t) PROVE Flags'
  BY <1>19, Zenon DEF ReadPacket
<1>20. ASSUME NEW t \in Threads, ReadEnds(t) PROVE Flags'
  BY <1>20, Zenon DEF ReadEnds
<1>21. ASSUME NEW t \in Threads, InputEnd(t) PROVE Flags'
  BY <1>21, Zenon DEF InputEnd, AtEnd
<1>22. ASSUME NEW t \in Threads, Ended(t) PROVE Flags'
  BY <1>22, Zenon DEF Ended, AfterPlay
<1>23. ASSUME NEW a \in Actors, StopTest(a) PROVE Flags'
  <2> DEFINE met == IF a = User THEN MeetsUnannounced ELSE UserAt("stop flags") /\ isPlaying
  <2>1. stray' = (stray \/ met) /\ (stray \/ met) \in BOOLEAN
    BY <1>23, Zenon DEF StopTest
  <2> QED
    BY <1>23, <2>1, Zenon DEF StopTest
<1>24. ASSUME NEW a \in Actors, StopFlags(a) PROVE Flags'
  BY <1>24, Zenon DEF StopFlags, OutputStop
<1>25. ASSUME NEW a \in Actors, StopInput(a) PROVE Flags'
  BY <1>25, Zenon DEF StopInput
<1>26. ASSUME NEW a \in Actors, StopAvfc(a) PROVE Flags'
  <2> DEFINE used == avfc = 0 \/ \E t \in Threads : pc[t] = "read"
  <2>1. fault' = (fault \/ used) /\ (fault \/ used) \in BOOLEAN
    BY <1>26, Zenon DEF StopAvfc
  <2> QED
    BY <1>26, <2>1, Zenon DEF StopAvfc
<1>27. ASSUME NEW a \in Actors, StopWait(a) PROVE Flags'
  BY <1>27, Zenon DEF StopWait
<1>28. CASE UNCHANGED vars
  BY <1>28, Zenon
<1> QED
  BY <1>1, <1>2, <1>3, <1>4, <1>5, <1>6, <1>7, <1>8, <1>9, <1>10, <1>11, 
     <1>12, <1>13, <1>14, <1>15, <1>16, <1>17, <1>18, <1>19, <1>20, <1>21, 
     <1>22, <1>23, <1>24, <1>25, <1>26, <1>27, <1>28
     DEF Next, UserCall, UserGoesOn, PlayThread, Stop

(* User and threads stay in the program. *)
LEMMA PlacesStep ==
  ASSUME TypeOK, [Next]_vars
  PROVE  Places'
<1> USE EPlayerAssumption DEF EPlayerAssumption, TypeOK, Places, Goto, UserAt, Actors, Reading,
    Controls, StopSteps, vars, flags, media, input, device, ghost
<1>1. CASE Open
  BY <1>1 DEF Open, InputInit
<1>2. CASE Play
  BY <1>2 DEF Play, OutputOpen
<1>3. CASE AskControl
  BY <1>3 DEF AskControl, Control
<1>4. CASE UserStop
  BY <1>4 DEF UserStop
<1>5. CASE PlayFails
  BY <1>5 DEF PlayFails
<1>6. CASE PlayStarts
  BY <1>6 DEF PlayStarts, PlayFlags, OutputPlay
<1>7. CASE PlayCreates
  BY <1>7 DEF PlayCreates, PlayFlags, OutputPlay
<1>8. CASE Pause
  BY <1>8 DEF Pause, ControlFrame, OutputPause
<1>9. CASE Continue
  BY <1>9 DEF Continue, ControlFrame, OutputContinue
<1>10. CASE FastForward
  BY <1>10 DEF FastForward, ControlFrame
<1>11. CASE FastBackward
  BY <1>11 DEF FastBackward, ControlFrame
<1>12. CASE SlowMotion
  BY <1>12 DEF SlowMotion, ControlFrame, OutputContinue
<1>13. CASE UserClose
  BY <1>13 DEF UserClose, OutputClose, PlayerClose
<1>14. CASE RequestAbort
  BY <1>14 DEF RequestAbort
<1>15. ASSUME NEW t \in Threads, Begin(t) PROVE Places'
  BY <1>15 DEF Begin, AtBegin
<1>16. ASSUME NEW t \in Threads, InputBegin(t) PROVE Places'
  BY <1>16 DEF InputBegin
<1>17. ASSUME NEW t \in Threads, LoopEnds(t) PROVE Places'
  BY <1>17 DEF LoopEnds
<1>18. ASSUME NEW t \in Threads, LoopRead(t) PROVE Places'
  BY <1>18 DEF LoopRead
<1>19. ASSUME NEW t \in Threads, ReadPacket(t) PROVE Places'
  BY <1>19 DEF ReadPacket
<1>20. ASSUME NEW t \in Threads, ReadEnds(t) PROVE Places'
  BY <1>20 DEF ReadEnds
<1>21. ASSUME NEW t \in Threads, InputEnd(t) PROVE Places'
  BY <1>21 DEF InputEnd, AtEnd
<1>22. ASSUME NEW t \in Threads, Ended(t) PROVE Places'
  BY <1>22 DEF Ended, AfterPlay
<1>23. ASSUME NEW a \in Actors, StopTest(a) PROVE Places'
  BY <1>23 DEF StopTest
<1>24. ASSUME NEW a \in Actors, StopFlags(a) PROVE Places'
  BY <1>24 DEF StopFlags, OutputStop
<1>25. ASSUME NEW a \in Actors, StopInput(a) PROVE Places'
  BY <1>25 DEF StopInput
<1>26. ASSUME NEW a \in Actors, StopAvfc(a) PROVE Places'
  BY <1>26 DEF StopAvfc
<1>27. ASSUME NEW a \in Actors, StopWait(a) PROVE Places'
  BY <1>27 DEF StopWait
<1>28. CASE UNCHANGED vars
  BY <1>28
<1> QED
  BY <1>1, <1>2, <1>3, <1>4, <1>5, <1>6, <1>7, <1>8, <1>9, <1>10, <1>11, 
     <1>12, <1>13, <1>14, <1>15, <1>16, <1>17, <1>18, <1>19, <1>20, <1>21, 
     <1>22, <1>23, <1>24, <1>25, <1>26, <1>27, <1>28
     DEF Next, UserCall, UserGoesOn, PlayThread, Stop

(* The decoders are open both or closed both. *)
LEMMA DecodersStep ==
  ASSUME TypeOK, [Next]_vars
  PROVE  Decoders'
<1> USE DEF TypeOK, Decoders, DeviceState, Cmd, Mute, Unmuted, Resumed, vars, flags, media,
    input, device, ghost
<1>1. CASE Open
  BY <1>1 DEF Open, InputInit
<1>2. CASE Play
  BY <1>2 DEF Play, OutputOpen
<1>3. CASE AskControl
  BY <1>3 DEF AskControl, Control
<1>4. CASE UserStop
  BY <1>4 DEF UserStop
<1>5. CASE PlayFails
  BY <1>5 DEF PlayFails
<1>6. CASE PlayStarts
  BY <1>6 DEF PlayStarts, PlayFlags, OutputPlay
<1>7. CASE PlayCreates
  BY <1>7 DEF PlayCreates, PlayFlags, OutputPlay
<1>8. CASE Pause
  BY <1>8 DEF Pause, ControlFrame, OutputPause
<1>9. CASE Continue
  BY <1>9 DEF Continue, ControlFrame, OutputContinue
<1>10. CASE FastForward
  BY <1>10 DEF FastForward, ControlFrame
<1>11. CASE FastBackward
  BY <1>11 DEF FastBackward, ControlFrame
<1>12. CASE SlowMotion
  BY <1>12 DEF SlowMotion, ControlFrame, OutputContinue
<1>13. CASE UserClose
  BY <1>13 DEF UserClose, OutputClose, PlayerClose
<1>14. CASE RequestAbort
  BY <1>14 DEF RequestAbort
<1>15. ASSUME NEW t \in Threads, Begin(t) PROVE Decoders'
  BY <1>15 DEF Begin, AtBegin
<1>16. ASSUME NEW t \in Threads, InputBegin(t) PROVE Decoders'
  BY <1>16 DEF InputBegin
<1>17. ASSUME NEW t \in Threads, LoopEnds(t) PROVE Decoders'
  BY <1>17 DEF LoopEnds
<1>18. ASSUME NEW t \in Threads, LoopRead(t) PROVE Decoders'
  BY <1>18 DEF LoopRead
<1>19. ASSUME NEW t \in Threads, ReadPacket(t) PROVE Decoders'
  BY <1>19 DEF ReadPacket
<1>20. ASSUME NEW t \in Threads, ReadEnds(t) PROVE Decoders'
  BY <1>20 DEF ReadEnds
<1>21. ASSUME NEW t \in Threads, InputEnd(t) PROVE Decoders'
  BY <1>21 DEF InputEnd, AtEnd
<1>22. ASSUME NEW t \in Threads, Ended(t) PROVE Decoders'
  BY <1>22 DEF Ended, AfterPlay
<1>23. ASSUME NEW a \in Actors, StopTest(a) PROVE Decoders'
  BY <1>23 DEF StopTest
<1>24. ASSUME NEW a \in Actors, StopFlags(a) PROVE Decoders'
  BY <1>24 DEF StopFlags, OutputStop
<1>25. ASSUME NEW a \in Actors, StopInput(a) PROVE Decoders'
  BY <1>25 DEF StopInput
<1>26. ASSUME NEW a \in Actors, StopAvfc(a) PROVE Decoders'
  BY <1>26 DEF StopAvfc
<1>27. ASSUME NEW a \in Actors, StopWait(a) PROVE Decoders'
  BY <1>27 DEF StopWait
<1>28. CASE UNCHANGED vars
  BY <1>28
<1> QED
  BY <1>1, <1>2, <1>3, <1>4, <1>5, <1>6, <1>7, <1>8, <1>9, <1>10, <1>11, 
     <1>12, <1>13, <1>14, <1>15, <1>16, <1>17, <1>18, <1>19, <1>20, <1>21, 
     <1>22, <1>23, <1>24, <1>25, <1>26, <1>27, <1>28
     DEF Next, UserCall, UserGoesOn, PlayThread, Stop

(* Files are counted. *)
LEMMA FilesStep ==
  ASSUME TypeOK, [Next]_vars
  PROVE  Files'
<1> USE EPlayerAssumption DEF EPlayerAssumption, TypeOK, Files, vars, flags, media, input,
    device, ghost
<1>1. CASE Open
  BY <1>1 DEF Open, InputInit
<1>2. CASE Play
  BY <1>2 DEF Play, OutputOpen
<1>3. CASE AskControl
  BY <1>3 DEF AskControl, Control
<1>4. CASE UserStop
  BY <1>4 DEF UserStop
<1>5. CASE PlayFails
  BY <1>5 DEF PlayFails
<1>6. CASE PlayStarts
  BY <1>6 DEF PlayStarts, PlayFlags, OutputPlay
<1>7. CASE PlayCreates
  BY <1>7 DEF PlayCreates, PlayFlags, OutputPlay
<1>8. CASE Pause
  BY <1>8 DEF Pause, ControlFrame, OutputPause
<1>9. CASE Continue
  BY <1>9 DEF Continue, ControlFrame, OutputContinue
<1>10. CASE FastForward
  BY <1>10 DEF FastForward, ControlFrame
<1>11. CASE FastBackward
  BY <1>11 DEF FastBackward, ControlFrame
<1>12. CASE SlowMotion
  BY <1>12 DEF SlowMotion, ControlFrame, OutputContinue
<1>13. CASE UserClose
  BY <1>13 DEF UserClose, OutputClose, PlayerClose
<1>14. CASE RequestAbort
  BY <1>14 DEF RequestAbort
<1>15. ASSUME NEW t \in Threads, Begin(t) PROVE Files'
  BY <1>15 DEF Begin, AtBegin
<1>16. ASSUME NEW t \in Threads, InputBegin(t) PROVE Files'
  BY <1>16 DEF InputBegin
<1>17. ASSUME NEW t \in Threads, LoopEnds(t) PROVE Files'
  BY <1>17 DEF LoopEnds
<1>18. ASSUME NEW t \in Threads, LoopRead(t) PROVE Files'
  BY <1>18 DEF LoopRead
<1>19. ASSUME NEW t \in Threads, ReadPacket(t) PROVE Files'
  BY <1>19 DEF ReadPacket
<1>20. ASSUME NEW t \in Threads, ReadEnds(t) PROVE Files'
  BY <1>20 DEF ReadEnds
<1>21. ASSUME NEW t \in Threads, InputEnd(t) PROVE Files'
  BY <1>21 DEF InputEnd, AtEnd
<1>22. ASSUME NEW t \in Threads, Ended(t) PROVE Files'
  BY <1>22 DEF Ended, AfterPlay
<1>23. ASSUME NEW a \in Actors, StopTest(a) PROVE Files'
  BY <1>23 DEF StopTest
<1>24. ASSUME NEW a \in Actors, StopFlags(a) PROVE Files'
  BY <1>24 DEF StopFlags, OutputStop
<1>25. ASSUME NEW a \in Actors, StopInput(a) PROVE Files'
  BY <1>25 DEF StopInput
<1>26. ASSUME NEW a \in Actors, StopAvfc(a) PROVE Files'
  <2>1. avfc' = 0 /\ opens' = opens /\ session' = session
    BY <1>26, Zenon DEF StopAvfc
  <2> QED
    BY <2>1
<1>27. ASSUME NEW a \in Actors, StopWait(a) PROVE Files'
  BY <1>27 DEF StopWait
<1>28. CASE UNCHANGED vars
  BY <1>28
<1> QED
  BY <1>1, <1>2, <1>3, <1>4, <1>5, <1>6, <1>7, <1>8, <1>9, <1>10, <1>11, 
     <1>12, <1>13, <1>14, <1>15, <1>16, <1>17, <1>18, <1>19, <1>20, <1>21, 
     <1>22, <1>23, <1>24, <1>25, <1>26, <1>27, <1>28
     DEF Next, UserCall, UserGoesOn, PlayThread, Stop

-----------------------------------------------------------------------------
(* What a step leaves where it was. *)
LEMMA UserMoves ==
  ASSUME TypeOK, NEW l, Goto(User, l)
  PROVE  pc'[User] = l /\ \A t \in Threads : pc'[t] = pc[t]
BY EPlayerAssumption DEF EPlayerAssumption, TypeOK, Places, Goto, Actors

LEMMA ThreadMoves ==
  ASSUME TypeOK, Core, NEW t \in Threads, Alive(t), NEW l, Goto(t, l)
  PROVE  /\ pc'[t] = l /\ pc'[User] = pc[User]
         /\ \A u \in Threads : u # t => pc[u] = "none" /\ pc'[u] = "none"
<1>1. pc'[t] = l /\ pc'[User] = pc[User] /\ \A u \in Threads : u # t => pc'[u] = pc[u]
  BY EPlayerAssumption DEF EPlayerAssumption, TypeOK, Places, Goto, Actors
<1>2. \A u \in Threads : u # t => pc[u] = "none"
  BY DEF Core, Alone, Alive
<1> QED
  BY <1>1, <1>2

(* A file is opened when nothing plays. *)
LEMMA OpenCore ==
  ASSUME TypeOK, Core, ~stray', Open
  PROVE  Core'
<1>1. ~isPlaying /\ UserAt("idle") /\ UserPlays /\ phase = "closed"
  BY DEF Core, Caller, Open, UserAt, UserPlays
<1>2. /\ \A t \in Threads : ~Near(t) /\ ~Stopping(t)
      /\ ~fault' /\ pc' = pc
  BY <1>1 DEF Core, Thread, Open, ghost
<1>3. /\ \A t \in Threads : session'[t] # opens'
      /\ phase' = "opened" => avfc' # 0
      /\ phase' \in {"closed", "opened"}
  BY <1>1, EPlayerAssumption DEF EPlayerAssumption, TypeOK, Files, Open, InputInit, ghost
<1>4. UserPlays' /\ ~isPlaying'
  BY <1>1, <1>2 DEF UserPlays, Open, flags
<1> USE DEF Core, Open, UserAt, flags, media, input, device, ghost
<1>5. ~fault'
  BY <1>1, <1>2, <1>3, <1>4
<1>6. Alone'
  BY <1>1, <1>2, <1>3, <1>4 DEF Alone, Alive
<1>7. Announcements'
  BY <1>1, <1>2, <1>3, <1>4 DEF Announcements, Announced, Reading
<1>8. Caller'
  BY <1>1, <1>2, <1>3, <1>4 DEF Caller, UserPlays, Near, Announced, Reading
<1>9. Context'
  BY <1>1, <1>2, <1>3, <1>4 DEF Context
<1>10. Picture'
  BY <1>1, <1>2, <1>3, <1>4 DEF Picture, UserPlays
<1>11. ASSUME NEW u \in Threads PROVE Thread(u)'
  BY <1>1, <1>2, <1>3, <1>4 DEF Thread, UserPlays, Near, Stopping, Announced, Reading
<1> QED
  BY <1>5, <1>6, <1>7, <1>8, <1>9, <1>10, <1>11

(* Play: the devices, before anything runs. *)
LEMMA PlayCore ==
  ASSUME TypeOK, Core, ~stray', Play
  PROVE  Core'
<1>1. ~isPlaying /\ UserAt("idle") /\ phase = "opened"
  BY DEF Core, Caller, Play, UserAt
<1>2. /\ \A t \in Threads : ~Near(t) /\ ~Stopping(t)
      /\ pc'[User] = "play" /\ \A t \in Threads : pc'[t] = pc[t]
  BY <1>1, UserMoves DEF Core, Thread, Play
<1> USE DEF Core, Play, UserAt, flags, media, input, device, ghost
<1>3. ~fault'
  BY <1>1, <1>2
<1>4. Alone'
  BY <1>1, <1>2 DEF Alone, Alive
<1>5. Announcements'
  BY <1>1, <1>2 DEF Announcements, Announced, Reading
<1>6. Caller'
  BY <1>1, <1>2 DEF Caller, UserPlays, Near, Announced, Reading
<1>7. Context'
  BY <1>1, <1>2 DEF Context
<1>8. Picture'
  BY <1>1, <1>2 DEF Picture, UserPlays
<1>9. ASSUME NEW u \in Threads PROVE Thread(u)'
  BY <1>1, <1>2 DEF Thread, UserPlays, Near, Stopping, Announced, Reading
<1> QED
  BY <1>3, <1>4, <1>5, <1>6, <1>7, <1>8, <1>9

(* Output::Play fails: nothing runs. *)
LEMMA PlayFailsCore ==
  ASSUME TypeOK, Core, ~stray', PlayFails
  PROVE  Core'
<1>1. ~isPlaying /\ UserAt("play") /\ phase = "started"
  BY DEF Core, Caller, PlayFails, UserAt, UserPlays, Controls
<1>2. /\ \A t \in Threads : ~Near(t) /\ ~Stopping(t) /\ session[t] # opens
      /\ pc'[User] = "idle" /\ \A t \in Threads : pc'[t] = pc[t]
  BY <1>1, UserMoves DEF Core, Thread, Caller, PlayFails, UserAt
<1> USE DEF Core, PlayFails, UserAt, flags, media, input, device, ghost
<1>3. ~fault'
  BY <1>1, <1>2
<1>4. Alone'
  BY <1>1, <1>2 DEF Alone, Alive
<1>5. Announcements'
  BY <1>1, <1>2 DEF Announcements, Announced, Reading
<1>6. Caller'
  BY <1>1, <1>2 DEF Caller, UserPlays, Near, Announced, Reading
<1>7. Context'
  BY <1>1, <1>2 DEF Context
<1>8. Picture'
  BY <1>1, <1>2 DEF Picture, UserPlays
<1>9. ASSUME NEW u \in Threads PROVE Thread(u)'
  BY <1>1, <1>2 DEF Thread, UserPlays, Near, Stopping, Announced, Reading
<1> QED
  BY <1>3, <1>4, <1>5, <1>6, <1>7, <1>8, <1>9

(* There is no thread to be met by Play, or the user could not wait for it. *)
LEMMA PlayStartsNever == TypeOK /\ Core => ~PlayStarts
BY DEF Core, Announcements, Thread, Near, PlayStarts, UserAt

(* The new thread is the only one, and of this file. *)
LEMMA PlayCreatesCore ==
  ASSUME TypeOK, Core, ~stray', PlayCreates
  PROVE  Core'
<1>1. UserAt("play") /\ phase = "started" /\ avfc # 0 /\ ~isPlaying /\ ~hasThreadStarted
  BY DEF Core, Caller, PlayCreates, UserAt
<1>2. \A t \in Threads : pc[t] = "none"
  <2>1. ~MeetsUnannounced
    BY Zenon DEF PlayCreates
  <2> QED
    BY <1>1, <2>1, Zenon DEF Core, Announcements, MeetsUnannounced, Alive
<1>3. /\ avfc' = avfc /\ opens' = opens /\ phase' = phase /\ ~fault'
      /\ hasThreadStarted' = hasThreadStarted /\ hasPlayThreadStarted' = hasPlayThreadStarted
      /\ hasVideo' = hasVideo
  BY Zenon DEF PlayCreates, media, input, Core
<1>4. ~hasPlayThreadStarted /\ \A t \in Threads : session[t] # opens
  BY <1>1, <1>2 DEF Core, Announcements, Caller, Reading
<1> USE DEF Alone, Alive, Announcements, Announced, Reading, Caller, Context, Picture, Thread,
            UserAt, UserPlays, Near, Stopping
<1>5. CASE PlayFlags(TRUE) /\ \E t \in Threads :
             /\ pc' = [pc EXCEPT ![User] = "idle", ![t] = "born"]
             /\ session' = [session EXCEPT ![t] = opens]
  <2>1. PICK t \in Threads : /\ pc' = [pc EXCEPT ![User] = "idle", ![t] = "born"]
                             /\ session' = [session EXCEPT ![t] = opens]
    BY <1>5
  <2>2. /\ pc'[User] = "idle" /\ pc'[t] = "born" /\ session'[t] = opens
        /\ \A u \in Threads : u # t => pc'[u] = "none"
    BY <2>1, <1>2, EPlayerAssumption DEF EPlayerAssumption, TypeOK, Places, Files, Actors
  <2>3. /\ isPlaying' /\ ~isPaused'
        /\ video' = IF hasVideo THEN Cmd(video, "playing") ELSE video
    BY <1>5 DEF PlayFlags, OutputPlay
  <2>4. Alone'
    BY <2>2
  <2>5. Announcements'
    BY <2>2, <1>1, <1>3, <1>4
  <2>6. Caller'
    BY <2>2, <2>3, <1>1, <1>3
  <2>7. Context'
    BY <2>3
  <2>8. Picture'
    BY <2>3, <1>3 DEF Cmd
  <2>9. ASSUME NEW u \in Threads PROVE Thread(u)'
    BY <2>2, <2>3, <1>1, <1>3
  <2> QED
    BY <2>4, <2>5, <2>6, <2>7, <2>8, <2>9, <1>3 DEF Core
<1>6. CASE PlayFlags(FALSE) /\ Goto(User, "idle") /\ UNCHANGED session
  <2>1. ~isPlaying'
    BY <1>6 DEF PlayFlags
  <2>2. pc'[User] = "idle" /\ \A t \in Threads : pc'[t] = "none" /\ session'[t] # opens
    BY <1>6, <1>2, <1>4, UserMoves
  <2>3. Alone' /\ Announcements'
    BY <2>2, <1>1, <1>3, <1>4
  <2>4. Caller' /\ Context' /\ Picture'
    BY <2>1, <2>2, <1>1, <1>3
  <2>5. ASSUME NEW u \in Threads PROVE Thread(u)'
    BY <2>2
  <2> QED
    BY <2>3, <2>4, <2>5, <1>3 DEF Core
<1> QED
  BY <1>5, <1>6 DEF PlayCreates

(* The calls that change flags and devices while the file plays. *)
Controlled == Pause \/ Continue \/ FastForward \/ FastBackward \/ SlowMotion

LEMMA ControlledPicture == TypeOK /\ Picture /\ Controlled => Picture' /\ isPlaying' = isPlaying
<1> SUFFICES ASSUME TypeOK, Picture, Controlled PROVE Picture' /\ isPlaying' = isPlaying
  OBVIOUS
<1>1. UserPlays
  BY DEF Controlled, Pause, Continue, FastForward, FastBackward, SlowMotion, UserPlays, UserAt,
         Controls
<1> USE <1>1 DEF Picture, ControlFrame, media
<1>2. CASE Pause
  BY <1>2 DEF Pause, OutputPause, Cmd
<1>3. CASE Continue
  BY <1>3 DEF Continue, OutputContinue, Resumed
<1>4. CASE FastForward
  BY <1>4 DEF FastForward, device
<1>5. CASE FastBackward
  BY <1>5 DEF FastBackward
<1>6. CASE SlowMotion
  BY <1>6 DEF SlowMotion, OutputContinue, Resumed, device
<1> QED
  BY <1>2, <1>3, <1>4, <1>5, <1>6 DEF Controlled

(* Nothing else is disturbed by them. *)
LEMMA ControlledCore ==
  ASSUME TypeOK, Core, ~stray', Controlled
  PROVE  Core'
<1>1. pc[User] \in Controls /\ ControlFrame
  BY DEF Controlled, Pause, Continue, FastForward, FastBackward, SlowMotion, UserAt, Controls
<1>2. isPlaying' = isPlaying /\ Picture'
  BY ControlledPicture DEF Core
<1>3. pc'[User] = "idle" /\ \A t \in Threads : pc'[t] = pc[t]
  BY <1>1, UserMoves DEF ControlFrame
<1>4. UserPlays /\ UserPlays'
  BY <1>1, <1>3 DEF UserPlays
<1>5. pc[User] \notin {"stop flags", "stop input", "stop avfc", "stop wait", "play", "close"}
  BY <1>1 DEF Controls
<1> USE DEF Core, ControlFrame, UserAt, flags, media, input, device, ghost
<1>6. ~fault'
  BY <1>1, <1>2, <1>3, <1>4, <1>5
<1>7. Alone'
  BY <1>1, <1>2, <1>3, <1>4, <1>5 DEF Alone, Alive
<1>8. Announcements'
  BY <1>1, <1>2, <1>3, <1>4, <1>5 DEF Announcements, Announced, Reading
<1>9. Caller'
  BY <1>1, <1>2, <1>3, <1>4, <1>5 DEF Caller, UserPlays, Near, Announced, Reading
<1>10. Context'
  BY <1>1, <1>2, <1>3, <1>4, <1>5 DEF Context
<1>11. Picture'
  BY <1>2
<1>12. ASSUME NEW u \in Threads PROVE Thread(u)'
  BY <1>1, <1>2, <1>3, <1>4, <1>5 DEF Thread, UserPlays, Near, Stopping, Announced, Reading
<1> QED
  BY <1>6, <1>7, <1>8, <1>9, <1>10, <1>11, <1>12

(* Nor by what the user asks and wants to do. *)
LEMMA AskCore ==
  ASSUME TypeOK, Core, ~stray', AskControl \/ UserStop
  PROVE  Core'
<1>1. UserAt("idle") /\ \E l \in Controls \cup {"stop"} : Goto(User, l)
  BY DEF AskControl, UserStop, Control, Controls
<1>2. /\ UNCHANGED <<flags, hasThreadStarted, media, input, device, phase, opens, ghost>>
  BY DEF AskControl, UserStop, Control
<1>3. /\ pc'[User] \in Controls \cup {"stop"}
      /\ \A t \in Threads : pc'[t] = pc[t]
  BY <1>1, UserMoves
<1>4. UserPlays /\ UserPlays'
  BY <1>1, <1>3 DEF UserPlays, UserAt
<1>5. pc'[User] \notin {"stop flags", "stop input", "stop avfc", "stop wait", "play", "close"}
  BY <1>3 DEF Controls
<1> USE DEF Core, UserAt, flags, media, input, device, ghost
<1>6. ~fault'
  BY <1>1, <1>2, <1>3, <1>4, <1>5
<1>7. Alone'
  BY <1>1, <1>2, <1>3, <1>4, <1>5 DEF Alone, Alive
<1>8. Announcements'
  BY <1>1, <1>2, <1>3, <1>4, <1>5 DEF Announcements, Announced, Reading
<1>9. Caller'
  BY <1>1, <1>2, <1>3, <1>4, <1>5 DEF Caller, UserPlays, Near, Announced, Reading
<1>10. Context'
  BY <1>1, <1>2, <1>3, <1>4, <1>5 DEF Context
<1>11. Picture'
  BY <1>1, <1>2, <1>3, <1>4, <1>5 DEF Picture, UserPlays
<1>12. ASSUME NEW u \in Threads PROVE Thread(u)'
  BY <1>1, <1>2, <1>3, <1>4, <1>5 DEF Thread, UserPlays, Near, Stopping, Announced, Reading
<1> QED
  BY <1>6, <1>7, <1>8, <1>9, <1>10, <1>11, <1>12

(* Close: the thread is behind its file. *)
LEMMA UserCloseCore ==
  ASSUME TypeOK, Core, ~stray', UserClose
  PROVE  Core'
<1>1. UserAt("close") /\ ~isPlaying /\ ~isPlaying' /\ phase' = "closed"
  BY DEF Core, Caller, UserAt, UserPlays, Controls, UserClose, PlayerClose
<1>2. /\ pc'[User] = "idle" /\ \A t \in Threads : pc'[t] = pc[t]
      /\ \A t \in Threads : ~Near(t) /\ ~Stopping(t) /\ pc[t] # "read"
  BY <1>1, UserMoves DEF UserClose, Core, Thread, UserAt, Near, Announced, Reading
<1> USE DEF Core, UserClose, UserAt, media, input, ghost
<1>3. ~fault'
  BY <1>1, <1>2
<1>4. Alone'
  BY <1>1, <1>2 DEF Alone, Alive
<1>5. Announcements'
  BY <1>1, <1>2 DEF Announcements, Announced, Reading
<1>6. Caller'
  BY <1>1, <1>2 DEF Caller, UserPlays, Near, Announced, Reading
<1>7. Context'
  BY <1>1, <1>2 DEF Context
<1>8. Picture'
  BY <1>1, <1>2 DEF Picture, UserPlays
<1>9. ASSUME NEW u \in Threads PROVE Thread(u)'
  BY <1>1, <1>2 DEF Thread, UserPlays, Near, Stopping, Announced, Reading
<1> QED
  BY <1>3, <1>4, <1>5, <1>6, <1>7, <1>8, <1>9

-----------------------------------------------------------------------------
(* Player::Stop. *)

(* The user's Stop: a thread that is there is announced, or the step is stray. *)
LEMMA UserStopTestCore ==
  ASSUME TypeOK, Core, ~stray', StopTest(User)
  PROVE  Core'
<1>1. UserAt("stop") /\ UserPlays /\ Goto(User, IF isPlaying THEN "stop flags" ELSE "stop wait")
  BY DEF StopTest, UserAt, UserPlays
<1>2. \A t \in Threads : pc[t] = "none" \/ Announced(t)
  BY Zenon DEF StopTest, MeetsUnannounced, Alive
<1>3. /\ pc'[User] = IF isPlaying THEN "stop flags" ELSE "stop wait"
      /\ \A t \in Threads : pc'[t] = pc[t]
  BY <1>1, UserMoves
<1>4. UNCHANGED <<isPlaying, isPaused, hasThreadStarted, hasPlayThreadStarted, avfc, hasVideo,
                  video,
                  phase, opens, session, fault>>
  BY Zenon DEF StopTest, flags, media, input, device, ghost
<1> USE DEF Core, UserAt
<1>5. ~fault'
  BY <1>1, <1>2, <1>3, <1>4
<1>6. Alone'
  BY <1>1, <1>2, <1>3, <1>4 DEF Alone, Alive
<1>7. Announcements'
  BY <1>1, <1>2, <1>3, <1>4 DEF Announcements, Announced, Reading
<1>8. Caller'
  BY <1>1, <1>2, <1>3, <1>4 DEF Caller, UserPlays, Near, Announced, Reading, Controls
<1>9. Context'
  BY <1>1, <1>2, <1>3, <1>4 DEF Context
<1>10. Picture'
  BY <1>1, <1>2, <1>3, <1>4 DEF Picture, UserPlays
<1>11. ASSUME NEW u \in Threads PROVE Thread(u)'
  BY <1>1, <1>2, <1>3, <1>4 DEF Thread, UserPlays, Near, Stopping, Announced, Reading, Controls
<1> QED
  BY <1>5, <1>6, <1>7, <1>8, <1>9, <1>10, <1>11

(* ... the flags *)
LEMMA UserStopFlagsCore ==
  ASSUME TypeOK, Core, ~stray', StopFlags(User)
  PROVE  Core'
<1>1. UserAt("stop flags") /\ isPlaying /\ phase = "started"
  BY DEF StopFlags, UserAt, Core, Caller
<1>2. /\ pc'[User] = "stop input" /\ \A t \in Threads : pc'[t] = pc[t]
      /\ \A t \in Threads : pc[t] # "born" /\ ~Stopping(t)
  BY <1>1, UserMoves DEF StopFlags, Core, Thread, UserPlays, UserAt, Controls
<1>3. /\ ~isPlaying'
      /\ UNCHANGED <<hasThreadStarted, hasPlayThreadStarted, avfc, phase, opens, session, fault>>
  BY Zenon DEF StopFlags, flags, media, input, device, ghost
<1> USE DEF Core, UserAt
<1>4. ~fault'
  BY <1>1, <1>2, <1>3
<1>5. Alone'
  BY <1>1, <1>2, <1>3 DEF Alone, Alive
<1>6. Announcements'
  BY <1>1, <1>2, <1>3 DEF Announcements, Announced, Reading
<1>7. Caller'
  BY <1>1, <1>2, <1>3 DEF Caller, UserPlays, Near, Announced, Reading, Controls
<1>8. Context'
  BY <1>1, <1>2, <1>3 DEF Context
<1>9. Picture'
  BY <1>1, <1>2, <1>3 DEF Picture, UserPlays
<1>10. ASSUME NEW u \in Threads PROVE Thread(u)'
  BY <1>1, <1>2, <1>3 DEF Thread, UserPlays, Near, Stopping, Announced, Reading, Controls
<1> QED
  BY <1>4, <1>5, <1>6, <1>7, <1>8, <1>9, <1>10

(* ... the wait for the play loop *)
LEMMA UserStopInputCore ==
  ASSUME TypeOK, Core, ~stray', StopInput(User)
  PROVE  Core'
<1>1. UserAt("stop input") /\ ~isPlaying /\ phase = "started"
  BY DEF StopInput, UserAt, Core, Caller, UserPlays, Controls
<1>2. /\ pc'[User] = IF avfc # 0 THEN "stop avfc" ELSE "stop wait"
      /\ \A t \in Threads : pc'[t] = pc[t]
  BY UserMoves DEF StopInput
<1>3. \A t \in Threads : pc[t] # "born" /\ ~Stopping(t) /\ pc[t] \notin Reading
  BY <1>1 DEF StopInput, InputIdle, Core, Thread, Announcements, UserPlays, UserAt, Controls
<1>4. UNCHANGED <<isPlaying, hasThreadStarted, hasPlayThreadStarted, avfc, phase, opens,
                  session, fault>>
  BY Zenon DEF StopInput, flags, media, input, device, ghost
<1> USE DEF Core, UserAt
<1>5. ~fault'
  BY <1>1, <1>2, <1>3, <1>4
<1>6. Alone'
  BY <1>1, <1>2, <1>3, <1>4 DEF Alone, Alive
<1>7. Announcements'
  BY <1>1, <1>2, <1>3, <1>4 DEF Announcements, Announced, Reading
<1>8. Caller'
  BY <1>1, <1>2, <1>3, <1>4 DEF Caller, UserPlays, Near, Announced, Reading, Controls
<1>9. Context'
  BY <1>1, <1>2, <1>3, <1>4 DEF Context
<1>10. Picture'
  BY <1>1, <1>2, <1>3, <1>4 DEF Picture, UserPlays
<1>11. ASSUME NEW u \in Threads PROVE Thread(u)'
  BY <1>1, <1>2, <1>3, <1>4 DEF Thread, UserPlays, Near, Stopping, Announced, Reading, Controls
<1> QED
  BY <1>5, <1>6, <1>7, <1>8, <1>9, <1>10, <1>11

(* ... the context *)
LEMMA UserStopAvfcCore ==
  ASSUME TypeOK, Core, ~stray', StopAvfc(User)
  PROVE  Core'
<1>1. UserAt("stop avfc") /\ ~isPlaying /\ phase = "started" /\ avfc # 0
  BY DEF StopAvfc, UserAt, Core, Caller, UserPlays, Controls
<1>2. pc'[User] = "stop wait" /\ \A t \in Threads : pc'[t] = pc[t]
  BY UserMoves DEF StopAvfc
<1>3. \A t \in Threads : pc[t] # "born" /\ ~Stopping(t) /\ pc[t] # "read"
  BY <1>1 DEF Core, Thread, UserPlays, UserAt, Controls
<1>4. ~fault'
  BY <1>1, <1>3, Zenon DEF StopAvfc, Core
<1>5. /\ avfc' = 0
      /\ UNCHANGED <<isPlaying, hasThreadStarted, hasPlayThreadStarted, phase, opens, session>>
  BY Zenon DEF StopAvfc, flags, media, input, device, ghost
<1> USE DEF Core, UserAt
<1>6. ~fault'
  BY <1>1, <1>2, <1>3, <1>4, <1>5
<1>7. Alone'
  BY <1>1, <1>2, <1>3, <1>4, <1>5 DEF Alone, Alive
<1>8. Announcements'
  BY <1>1, <1>2, <1>3, <1>4, <1>5 DEF Announcements, Announced, Reading
<1>9. Caller'
  BY <1>1, <1>2, <1>3, <1>4, <1>5 DEF Caller, UserPlays, Near, Announced, Reading, Controls
<1>10. Context'
  BY <1>1, <1>2, <1>3, <1>4, <1>5 DEF Context
<1>11. Picture'
  BY <1>1, <1>2, <1>3, <1>4, <1>5 DEF Picture, UserPlays
<1>12. ASSUME NEW u \in Threads PROVE Thread(u)'
  BY <1>1, <1>2, <1>3, <1>4, <1>5 DEF Thread, UserPlays, Near, Stopping, Announced, Reading,
     Controls
<1> QED
  BY <1>6, <1>7, <1>8, <1>9, <1>10, <1>11, <1>12

(* ... and the wait for the thread. *)
LEMMA UserStopWaitCore ==
  ASSUME TypeOK, Core, ~stray', StopWait(User)
  PROVE  Core'
<1>1. UserAt("stop wait") /\ ~isPlaying
  BY DEF StopWait, UserAt, Core, Caller, UserPlays, Controls
<1>2. pc'[User] = "close" /\ \A t \in Threads : pc'[t] = pc[t]
  BY UserMoves DEF StopWait
<1>3. \A t \in Threads : ~Near(t) /\ ~Stopping(t)
  BY <1>1 DEF StopWait, ThreadGone, Core, Thread, Announcements, Near, UserPlays, UserAt, Controls
<1>4. UNCHANGED <<isPlaying, hasThreadStarted, hasPlayThreadStarted, avfc, phase, opens,
                  session, fault>>
  BY Zenon DEF StopWait, flags, media, input, device, ghost
<1> USE DEF Core, UserAt
<1>5. ~fault'
  BY <1>1, <1>2, <1>3, <1>4
<1>6. Alone'
  BY <1>1, <1>2, <1>3, <1>4 DEF Alone, Alive
<1>7. Announcements'
  BY <1>1, <1>2, <1>3, <1>4 DEF Announcements, Announced, Reading
<1>8. Caller'
  BY <1>1, <1>2, <1>3, <1>4 DEF Caller, UserPlays, Near, Announced, Reading, Controls
<1>9. Context'
  BY <1>1, <1>2, <1>3, <1>4 DEF Context
<1>10. Picture'
  BY <1>1, <1>2, <1>3, <1>4 DEF Picture, UserPlays
<1>11. ASSUME NEW u \in Threads PROVE Thread(u)'
  BY <1>1, <1>2, <1>3, <1>4 DEF Thread, UserPlays, Near, Stopping, Announced, Reading, Controls
<1> QED
  BY <1>5, <1>6, <1>7, <1>8, <1>9, <1>10, <1>11

(* A play thread's Stop: it sees isPlaying for its own file. *)
LEMMA ThreadStopTestCore ==
  ASSUME TypeOK, Core, ~stray', NEW t \in Threads, StopTest(t)
  PROVE  Core'
<1>1. pc[t] = "stop" /\ Alive(t)
  BY DEF StopTest, Alive
<1>2. PICK l : Goto(t, l) /\ l = IF isPlaying THEN "stop flags" ELSE "stop wait"
  BY Zenon DEF StopTest
<1>3. /\ isPlaying => pc'[t] = "stop flags"
      /\ ~isPlaying => pc'[t] = "stop wait"
      /\ pc'[User] = pc[User]
      /\ \A u \in Threads : u # t => pc[u] = "none" /\ pc'[u] = "none"
  <2>1. /\ pc'[t] = l /\ pc'[User] = pc[User]
        /\ \A u \in Threads : u # t => pc[u] = "none" /\ pc'[u] = "none"
    <3>1. Goto(t, l)
      BY <1>2
    <3> QED
      BY <1>1, <3>1, ThreadMoves
  <2> QED
    BY <1>2, <2>1
<1>4. isPlaying => UserPlays /\ phase = "started" /\ session[t] = opens
  BY <1>1, EPlayerAssumption, Zenon DEF EPlayerAssumption, StopTest, Core, Caller, Thread
<1>5. UNCHANGED <<isPlaying, isPaused, hasThreadStarted, hasPlayThreadStarted, avfc, hasVideo,
                  video,
                  phase, opens, session, fault>>
  BY Zenon DEF StopTest, flags, media, input, device, ghost
<1> USE DEF Core, UserAt
<1>6. ~fault'
  BY <1>1, <1>2, <1>3, <1>4, <1>5
<1>7. Alone'
  BY <1>1, <1>2, <1>3, <1>4, <1>5 DEF Alone, Alive
<1>8. Announcements'
  BY <1>1, <1>2, <1>3, <1>4, <1>5 DEF Announcements, Announced, Reading
<1>9. Caller'
  BY <1>1, <1>2, <1>3, <1>4, <1>5 DEF Caller, UserPlays, Near, Announced, Reading, Controls
<1>10. Context'
  BY <1>1, <1>2, <1>3, <1>4, <1>5 DEF Context
<1>11. Picture'
  BY <1>1, <1>2, <1>3, <1>4, <1>5 DEF Picture, UserPlays
<1>12. ASSUME NEW u \in Threads PROVE Thread(u)'
  BY <1>1, <1>2, <1>3, <1>4, <1>5 DEF Thread, UserPlays, Near, Stopping, Announced, Reading,
     Controls
<1> QED
  BY <1>6, <1>7, <1>8, <1>9, <1>10, <1>11, <1>12

(* ... the flags *)
LEMMA ThreadStopFlagsCore ==
  ASSUME TypeOK, Core, ~stray', NEW t \in Threads, StopFlags(t)
  PROVE  Core'
<1>1. pc[t] = "stop flags" /\ Alive(t) /\ Goto(t, "stop input")
  BY DEF StopFlags, Alive
<1>2. /\ pc'[t] = "stop input" /\ pc'[User] = pc[User]
      /\ \A u \in Threads : u # t => pc[u] = "none" /\ pc'[u] = "none"
  BY <1>1, ThreadMoves
<1>3. isPlaying /\ UserPlays /\ phase = "started" /\ session[t] = opens
  BY <1>1 DEF Core, Thread, Stopping
<1>4. /\ ~isPlaying'
      /\ UNCHANGED <<hasThreadStarted, hasPlayThreadStarted, avfc, phase, opens, session, fault>>
  BY Zenon DEF StopFlags, flags, media, input, device, ghost
<1> USE DEF Core, UserAt
<1>5. ~fault'
  BY <1>1, <1>2, <1>3, <1>4
<1>6. Alone'
  BY <1>1, <1>2, <1>3, <1>4 DEF Alone, Alive
<1>7. Announcements'
  BY <1>1, <1>2, <1>3, <1>4 DEF Announcements, Announced, Reading
<1>8. Caller'
  BY <1>1, <1>2, <1>3, <1>4 DEF Caller, UserPlays, Near, Announced, Reading, Controls
<1>9. Context'
  BY <1>1, <1>2, <1>3, <1>4 DEF Context
<1>10. Picture'
  BY <1>1, <1>2, <1>3, <1>4 DEF Picture, UserPlays
<1>11. ASSUME NEW u \in Threads PROVE Thread(u)'
  BY <1>1, <1>2, <1>3, <1>4 DEF Thread, UserPlays, Near, Stopping, Announced, Reading, Controls
<1> QED
  BY <1>5, <1>6, <1>7, <1>8, <1>9, <1>10, <1>11

(* ... the wait for the play loop, which it has left *)
LEMMA ThreadStopInputCore ==
  ASSUME TypeOK, Core, ~stray', NEW t \in Threads, StopInput(t)
  PROVE  Core'
<1>1. pc[t] = "stop input" /\ Alive(t)
  BY DEF StopInput, Alive
<1>2. PICK l : Goto(t, l) /\ l = IF avfc # 0 THEN "stop avfc" ELSE "stop wait"
  BY Zenon DEF StopInput
<1>3. /\ avfc # 0 => pc'[t] = "stop avfc"
      /\ avfc = 0 => pc'[t] = "stop wait"
      /\ pc'[User] = pc[User]
      /\ \A u \in Threads : u # t => pc[u] = "none" /\ pc'[u] = "none"
  <2>1. /\ pc'[t] = l /\ pc'[User] = pc[User]
        /\ \A u \in Threads : u # t => pc[u] = "none" /\ pc'[u] = "none"
    <3>1. Goto(t, l)
      BY <1>2
    <3> QED
      BY <1>1, <3>1, ThreadMoves
  <2> QED
    BY <1>2, <2>1
<1>4. ~isPlaying /\ UserPlays /\ phase = "started" /\ session[t] = opens
  BY <1>1 DEF Core, Thread, Stopping
<1>5. UNCHANGED <<isPlaying, hasThreadStarted, hasPlayThreadStarted, avfc, phase, opens,
                  session, fault>>
  BY Zenon DEF StopInput, flags, media, input, device, ghost
<1> USE DEF Core, UserAt
<1>6. ~fault'
  BY <1>1, <1>2, <1>3, <1>4, <1>5
<1>7. Alone'
  BY <1>1, <1>2, <1>3, <1>4, <1>5 DEF Alone, Alive
<1>8. Announcements'
  BY <1>1, <1>2, <1>3, <1>4, <1>5 DEF Announcements, Announced, Reading
<1>9. Caller'
  BY <1>1, <1>2, <1>3, <1>4, <1>5 DEF Caller, UserPlays, Near, Announced, Reading, Controls
<1>10. Context'
  BY <1>1, <1>2, <1>3, <1>4, <1>5 DEF Context
<1>11. Picture'
  BY <1>1, <1>2, <1>3, <1>4, <1>5 DEF Picture, UserPlays
<1>12. ASSUME NEW u \in Threads PROVE Thread(u)'
  BY <1>1, <1>2, <1>3, <1>4, <1>5 DEF Thread, UserPlays, Near, Stopping, Announced, Reading,
     Controls
<1> QED
  BY <1>6, <1>7, <1>8, <1>9, <1>10, <1>11, <1>12

(* ... the context, which nobody else uses *)
LEMMA ThreadStopAvfcCore ==
  ASSUME TypeOK, Core, ~stray', NEW t \in Threads, StopAvfc(t)
  PROVE  Core'
<1>1. pc[t] = "stop avfc" /\ Alive(t) /\ Goto(t, "stop wait")
  BY DEF StopAvfc, Alive
<1>2. /\ pc'[t] = "stop wait" /\ pc'[User] = pc[User]
      /\ \A u \in Threads : u # t => pc[u] = "none" /\ pc'[u] = "none"
  BY <1>1, ThreadMoves
<1>3. ~isPlaying /\ UserPlays /\ phase = "started" /\ session[t] = opens /\ avfc # 0
  BY <1>1 DEF Core, Thread, Stopping
<1>4. ~fault /\ \A u \in Threads : pc[u] # "read"
  BY <1>1, <1>2 DEF Core
<1>5. ~fault'
  BY <1>3, <1>4, Zenon DEF StopAvfc
<1>6. /\ avfc' = 0
      /\ UNCHANGED <<isPlaying, hasThreadStarted, hasPlayThreadStarted, phase, opens, session>>
  BY Zenon DEF StopAvfc, flags, media, input, device, ghost
<1> USE DEF Core, UserAt
<1>7. ~fault'
  BY <1>1, <1>2, <1>3, <1>4, <1>5, <1>6
<1>8. Alone'
  BY <1>1, <1>2, <1>3, <1>4, <1>5, <1>6 DEF Alone, Alive
<1>9. Announcements'
  BY <1>1, <1>2, <1>3, <1>4, <1>5, <1>6 DEF Announcements, Announced, Reading
<1>10. Caller'
  BY <1>1, <1>2, <1>3, <1>4, <1>5, <1>6 DEF Caller, UserPlays, Near, Announced, Reading, Controls
<1>11. Context'
  BY <1>1, <1>2, <1>3, <1>4, <1>5, <1>6 DEF Context
<1>12. Picture'
  BY <1>1, <1>2, <1>3, <1>4, <1>5, <1>6 DEF Picture, UserPlays
<1>13. ASSUME NEW u \in Threads PROVE Thread(u)'
  BY <1>1, <1>2, <1>3, <1>4, <1>5, <1>6 DEF Thread, UserPlays, Near, Stopping, Announced,
     Reading, Controls
<1> QED
  BY <1>7, <1>8, <1>9, <1>10, <1>11, <1>12, <1>13

(* ... and nothing to wait for: it ends. *)
LEMMA ThreadStopWaitCore ==
  ASSUME TypeOK, Core, ~stray', NEW t \in Threads, StopWait(t)
  PROVE  Core'
<1>1. pc[t] = "stop wait" /\ Alive(t) /\ Goto(t, "none")
  BY EPlayerAssumption DEF StopWait, Alive, EPlayerAssumption
<1>2. /\ pc'[t] = "none" /\ pc'[User] = pc[User]
      /\ \A u \in Threads : u # t => pc[u] = "none" /\ pc'[u] = "none"
  BY <1>1, ThreadMoves
<1>3. ~isPlaying
  BY <1>1 DEF Core, Thread
<1>4. UNCHANGED <<isPlaying, hasThreadStarted, hasPlayThreadStarted, avfc, phase, opens,
                  session, fault>>
  BY Zenon DEF StopWait, flags, media, input, device, ghost
<1> USE DEF Core, UserAt
<1>5. ~fault'
  BY <1>1, <1>2, <1>3, <1>4
<1>6. Alone'
  BY <1>1, <1>2, <1>3, <1>4 DEF Alone, Alive
<1>7. Announcements'
  BY <1>1, <1>2, <1>3, <1>4 DEF Announcements, Announced, Reading
<1>8. Caller'
  BY <1>1, <1>2, <1>3, <1>4 DEF Caller, UserPlays, Near, Announced, Reading, Controls
<1>9. Context'
  BY <1>1, <1>2, <1>3, <1>4 DEF Context
<1>10. Picture'
  BY <1>1, <1>2, <1>3, <1>4 DEF Picture, UserPlays
<1>11. ASSUME NEW u \in Threads PROVE Thread(u)'
  BY <1>1, <1>2, <1>3, <1>4 DEF Thread, UserPlays, Near, Stopping, Announced, Reading, Controls
<1> QED
  BY <1>5, <1>6, <1>7, <1>8, <1>9, <1>10, <1>11

-----------------------------------------------------------------------------
(* The play thread. *)

(* It announces itself. *)
LEMMA BeginCore ==
  ASSUME TypeOK, Core, ~stray', NEW t \in Threads, Begin(t)
  PROVE  Core'
<1>1. pc[t] = "born" /\ Alive(t) /\ Goto(t, "started")
  BY DEF Begin, Alive
<1>2. /\ pc'[t] = "started" /\ pc'[User] = pc[User]
      /\ \A u \in Threads : u # t => pc[u] = "none" /\ pc'[u] = "none"
  BY <1>1, ThreadMoves
<1>3. /\ hasThreadStarted'
      /\ UNCHANGED <<isPlaying, isPaused, hasPlayThreadStarted, avfc, hasVideo, video, phase,
                     opens,
                     session, fault>>
  BY Zenon DEF Begin, AtBegin, flags, media, input, device, ghost
<1> USE DEF Core, UserAt
<1>4. ~fault'
  BY <1>1, <1>2, <1>3
<1>5. Alone'
  BY <1>1, <1>2, <1>3 DEF Alone, Alive
<1>6. Announcements'
  BY <1>1, <1>2, <1>3 DEF Announcements, Announced, Reading
<1>7. Caller'
  BY <1>1, <1>2, <1>3 DEF Caller, UserPlays, Near, Announced, Reading, Controls
<1>8. Context'
  BY <1>1, <1>2, <1>3 DEF Context
<1>9. Picture'
  BY <1>1, <1>2, <1>3 DEF Picture, UserPlays
<1>10. ASSUME NEW u \in Threads PROVE Thread(u)'
  BY <1>1, <1>2, <1>3 DEF Thread, UserPlays, Near, Stopping, Announced, Reading, Controls
<1> QED
  BY <1>4, <1>5, <1>6, <1>7, <1>8, <1>9, <1>10

(* The play loop begins *)
LEMMA InputBeginCore ==
  ASSUME TypeOK, Core, ~stray', NEW t \in Threads, InputBegin(t)
  PROVE  Core'
<1>1. pc[t] = "started" /\ Alive(t) /\ Goto(t, "loop")
  BY DEF InputBegin, Alive
<1>2. /\ pc'[t] = "loop" /\ pc'[User] = pc[User]
      /\ \A u \in Threads : u # t => pc[u] = "none" /\ pc'[u] = "none"
  BY <1>1, ThreadMoves
<1>3. /\ hasPlayThreadStarted'
      /\ UNCHANGED <<isPlaying, isPaused, hasThreadStarted, avfc, hasVideo, video, phase, opens,
                     session, fault>>
  BY Zenon DEF InputBegin, flags, media, input, device, ghost
<1> USE DEF Core, UserAt
<1>4. ~fault'
  BY <1>1, <1>2, <1>3
<1>5. Alone'
  BY <1>1, <1>2, <1>3 DEF Alone, Alive
<1>6. Announcements'
  BY <1>1, <1>2, <1>3 DEF Announcements, Announced, Reading
<1>7. Caller'
  BY <1>1, <1>2, <1>3 DEF Caller, UserPlays, Near, Announced, Reading, Controls
<1>8. Context'
  BY <1>1, <1>2, <1>3 DEF Context
<1>9. Picture'
  BY <1>1, <1>2, <1>3 DEF Picture, UserPlays
<1>10. ASSUME NEW u \in Threads PROVE Thread(u)'
  BY <1>1, <1>2, <1>3 DEF Thread, UserPlays, Near, Stopping, Announced, Reading, Controls
<1> QED
  BY <1>4, <1>5, <1>6, <1>7, <1>8, <1>9, <1>10

(* ... ends *)
LEMMA LoopEndsCore ==
  ASSUME TypeOK, Core, ~stray', NEW t \in Threads, LoopEnds(t)
  PROVE  Core'
<1>1. pc[t] = "loop" /\ Alive(t) /\ Goto(t, "end")
  BY DEF LoopEnds, Alive
<1>2. /\ pc'[t] = "end" /\ pc'[User] = pc[User]
      /\ \A u \in Threads : u # t => pc[u] = "none" /\ pc'[u] = "none"
  BY <1>1, ThreadMoves
<1>3. UNCHANGED <<isPlaying, isPaused, hasThreadStarted, hasPlayThreadStarted, avfc, hasVideo,
                  video,
                  phase, opens, session, fault>>
  BY Zenon DEF LoopEnds, flags, media, input, device, ghost
<1> USE DEF Core, UserAt
<1>4. ~fault'
  BY <1>1, <1>2, <1>3
<1>5. Alone'
  BY <1>1, <1>2, <1>3 DEF Alone, Alive
<1>6. Announcements'
  BY <1>1, <1>2, <1>3 DEF Announcements, Announced, Reading
<1>7. Caller'
  BY <1>1, <1>2, <1>3 DEF Caller, UserPlays, Near, Announced, Reading, Controls
<1>8. Context'
  BY <1>1, <1>2, <1>3 DEF Context
<1>9. Picture'
  BY <1>1, <1>2, <1>3 DEF Picture, UserPlays
<1>10. ASSUME NEW u \in Threads PROVE Thread(u)'
  BY <1>1, <1>2, <1>3 DEF Thread, UserPlays, Near, Stopping, Announced, Reading, Controls
<1> QED
  BY <1>4, <1>5, <1>6, <1>7, <1>8, <1>9, <1>10

(* ... or reads: the player plays, and the context is there. *)
LEMMA LoopReadCore ==
  ASSUME TypeOK, Core, ~stray', NEW t \in Threads, LoopRead(t)
  PROVE  Core'
<1>1. pc[t] = "loop" /\ Alive(t) /\ Goto(t, "read")
  BY DEF LoopRead, Alive
<1>2. /\ pc'[t] = "read" /\ pc'[User] = pc[User]
      /\ \A u \in Threads : u # t => pc[u] = "none" /\ pc'[u] = "none"
  BY <1>1, ThreadMoves
<1>3. isPlaying /\ ~fault /\ avfc # 0 /\ pc[User] \notin {"stop avfc", "stop wait"}
  BY DEF LoopRead, KeepPlaying, Core, Caller, UserPlays, UserAt, Controls
<1>4. ~fault'
  BY <1>3, Zenon DEF LoopRead
<1>5. UNCHANGED <<isPlaying, isPaused, hasThreadStarted, hasPlayThreadStarted, avfc, hasVideo,
                  video,
                  phase, opens, session>>
  BY Zenon DEF LoopRead, flags, media, input, device, ghost
<1> USE DEF Core, UserAt
<1>6. ~fault'
  BY <1>1, <1>2, <1>3, <1>4, <1>5
<1>7. Alone'
  BY <1>1, <1>2, <1>3, <1>4, <1>5 DEF Alone, Alive
<1>8. Announcements'
  BY <1>1, <1>2, <1>3, <1>4, <1>5 DEF Announcements, Announced, Reading
<1>9. Caller'
  BY <1>1, <1>2, <1>3, <1>4, <1>5 DEF Caller, UserPlays, Near, Announced, Reading, Controls
<1>10. Context'
  BY <1>1, <1>2, <1>3, <1>4, <1>5 DEF Context
<1>11. Picture'
  BY <1>1, <1>2, <1>3, <1>4, <1>5 DEF Picture, UserPlays
<1>12. ASSUME NEW u \in Threads PROVE Thread(u)'
  BY <1>1, <1>2, <1>3, <1>4, <1>5 DEF Thread, UserPlays, Near, Stopping, Announced, Reading,
     Controls
<1> QED
  BY <1>6, <1>7, <1>8, <1>9, <1>10, <1>11, <1>12

(* A packet *)
LEMMA ReadPacketCore ==
  ASSUME TypeOK, Core, ~stray', NEW t \in Threads, ReadPacket(t)
  PROVE  Core'
<1>1. pc[t] = "read" /\ Alive(t) /\ Goto(t, "loop")
  BY DEF ReadPacket, Alive
<1>2. /\ pc'[t] = "loop" /\ pc'[User] = pc[User]
      /\ \A u \in Threads : u # t => pc[u] = "none" /\ pc'[u] = "none"
  BY <1>1, ThreadMoves
<1>3. UNCHANGED <<isPlaying, isPaused, hasThreadStarted, hasPlayThreadStarted, avfc, hasVideo,
                  video,
                  phase, opens, session, fault>>
  BY Zenon DEF ReadPacket, flags, media, input, device, ghost
<1> USE DEF Core, UserAt
<1>4. ~fault'
  BY <1>1, <1>2, <1>3
<1>5. Alone'
  BY <1>1, <1>2, <1>3 DEF Alone, Alive
<1>6. Announcements'
  BY <1>1, <1>2, <1>3 DEF Announcements, Announced, Reading
<1>7. Caller'
  BY <1>1, <1>2, <1>3 DEF Caller, UserPlays, Near, Announced, Reading, Controls
<1>8. Context'
  BY <1>1, <1>2, <1>3 DEF Context
<1>9. Picture'
  BY <1>1, <1>2, <1>3 DEF Picture, UserPlays
<1>10. ASSUME NEW u \in Threads PROVE Thread(u)'
  BY <1>1, <1>2, <1>3 DEF Thread, UserPlays, Near, Stopping, Announced, Reading, Controls
<1> QED
  BY <1>4, <1>5, <1>6, <1>7, <1>8, <1>9, <1>10

(* ... or none. *)
LEMMA ReadEndsCore ==
  ASSUME TypeOK, Core, ~stray', NEW t \in Threads, ReadEnds(t)
  PROVE  Core'
<1>1. pc[t] = "read" /\ Alive(t) /\ Goto(t, "end")
  BY DEF ReadEnds, Alive
<1>2. /\ pc'[t] = "end" /\ pc'[User] = pc[User]
      /\ \A u \in Threads : u # t => pc[u] = "none" /\ pc'[u] = "none"
  BY <1>1, ThreadMoves
<1>3. UNCHANGED <<isPlaying, isPaused, hasThreadStarted, hasPlayThreadStarted, avfc, hasVideo,
                  video,
                  phase, opens, session, fault>>
  BY Zenon DEF ReadEnds, flags, media, input, device, ghost
<1> USE DEF Core, UserAt
<1>4. ~fault'
  BY <1>1, <1>2, <1>3
<1>5. Alone'
  BY <1>1, <1>2, <1>3 DEF Alone, Alive
<1>6. Announcements'
  BY <1>1, <1>2, <1>3 DEF Announcements, Announced, Reading
<1>7. Caller'
  BY <1>1, <1>2, <1>3 DEF Caller, UserPlays, Near, Announced, Reading, Controls
<1>8. Context'
  BY <1>1, <1>2, <1>3 DEF Context
<1>9. Picture'
  BY <1>1, <1>2, <1>3 DEF Picture, UserPlays
<1>10. ASSUME NEW u \in Threads PROVE Thread(u)'
  BY <1>1, <1>2, <1>3 DEF Thread, UserPlays, Near, Stopping, Announced, Reading, Controls
<1> QED
  BY <1>4, <1>5, <1>6, <1>7, <1>8, <1>9, <1>10

(* The play loop is over: no other thread is in it. *)
LEMMA InputEndCore ==
  ASSUME TypeOK, Core, ~stray', NEW t \in Threads, InputEnd(t)
  PROVE  Core'
<1>1. pc[t] = "end" /\ Alive(t) /\ Goto(t, "ended")
  BY DEF InputEnd, Alive
<1>2. /\ pc'[t] = "ended" /\ pc'[User] = pc[User]
      /\ \A u \in Threads : u # t => pc[u] = "none" /\ pc'[u] = "none"
  BY <1>1, ThreadMoves
<1>3. /\ ~hasPlayThreadStarted'
      /\ UNCHANGED <<isPlaying, isPaused, hasThreadStarted, avfc, hasVideo, video, phase, opens,
                     session, fault>>
  BY Zenon DEF InputEnd, AtEnd, flags, media, input, device, ghost
<1> USE DEF Core, UserAt
<1>4. ~fault'
  BY <1>1, <1>2, <1>3
<1>5. Alone'
  BY <1>1, <1>2, <1>3 DEF Alone, Alive
<1>6. Announcements'
  BY <1>1, <1>2, <1>3 DEF Announcements, Announced, Reading
<1>7. Caller'
  BY <1>1, <1>2, <1>3 DEF Caller, UserPlays, Near, Announced, Reading, Controls
<1>8. Context'
  BY <1>1, <1>2, <1>3 DEF Context
<1>9. Picture'
  BY <1>1, <1>2, <1>3 DEF Picture, UserPlays
<1>10. ASSUME NEW u \in Threads PROVE Thread(u)'
  BY <1>1, <1>2, <1>3 DEF Thread, UserPlays, Near, Stopping, Announced, Reading, Controls
<1> QED
  BY <1>4, <1>5, <1>6, <1>7, <1>8, <1>9, <1>10

(* The thread takes its announcement back. *)
LEMMA EndedCore ==
  ASSUME TypeOK, Core, ~stray', NEW t \in Threads, Ended(t)
  PROVE  Core'
<1>1. pc[t] = "ended" /\ Alive(t) /\ Goto(t, "stop")
  BY DEF Ended, Alive, AfterPlay
<1>2. /\ pc'[t] = "stop" /\ pc'[User] = pc[User]
      /\ \A u \in Threads : u # t => pc[u] = "none" /\ pc'[u] = "none"
  BY <1>1, ThreadMoves
<1>3. /\ ~hasThreadStarted'
      /\ UNCHANGED <<isPlaying, isPaused, hasPlayThreadStarted, avfc, hasVideo, video, phase,
                     opens,
                     session, fault>>
  BY Zenon DEF Ended, flags, media, input, device, ghost
<1> USE DEF Core, UserAt
<1>4. ~fault'
  BY <1>1, <1>2, <1>3
<1>5. Alone'
  BY <1>1, <1>2, <1>3 DEF Alone, Alive
<1>6. Announcements'
  BY <1>1, <1>2, <1>3 DEF Announcements, Announced, Reading
<1>7. Caller'
  BY <1>1, <1>2, <1>3 DEF Caller, UserPlays, Near, Announced, Reading, Controls
<1>8. Context'
  BY <1>1, <1>2, <1>3 DEF Context
<1>9. Picture'
  BY <1>1, <1>2, <1>3 DEF Picture, UserPlays
<1>10. ASSUME NEW u \in Threads PROVE Thread(u)'
  BY <1>1, <1>2, <1>3 DEF Thread, UserPlays, Near, Stopping, Announced, Reading, Controls
<1> QED
  BY <1>4, <1>5, <1>6, <1>7, <1>8, <1>9, <1>10

(* An abort request, or a stutter. *)
LEMMA StillCore ==
  ASSUME TypeOK, Core, ~stray', RequestAbort \/ UNCHANGED vars
  PROVE  Core'
<1>1. UNCHANGED <<isPlaying, isPaused, hasThreadStarted, hasPlayThreadStarted, avfc, hasVideo,
                  video,
                  pc, phase, opens, session, fault>>
  BY Zenon DEF RequestAbort, vars, flags, media, input, device, ghost
<1> USE DEF Core, UserAt
<1>2. ~fault'
  BY <1>1
<1>3. Alone'
  BY <1>1 DEF Alone, Alive
<1>4. Announcements'
  BY <1>1 DEF Announcements, Announced, Reading
<1>5. Caller'
  BY <1>1 DEF Caller, UserPlays, Near, Announced, Reading, Controls
<1>6. Context'
  BY <1>1 DEF Context
<1>7. Picture'
  BY <1>1 DEF Picture, UserPlays
<1>8. ASSUME NEW u \in Threads PROVE Thread(u)'
  BY <1>1 DEF Thread, UserPlays, Near, Stopping, Announced, Reading, Controls
<1> QED
  BY <1>2, <1>3, <1>4, <1>5, <1>6, <1>7, <1>8

-----------------------------------------------------------------------------
(* What a step does to the devices while the file is not started: nothing. *)
LEMMA DevicesStep ==
  ASSUME TypeOK, Devices, [Next]_vars
  PROVE  Devices'
<1> USE DEF Devices, Cmd, Mute, Unmuted, Resumed, vars, flags, media, input, device, ghost
<1>1. CASE Open
  BY <1>1 DEF Open, InputInit
<1>2. CASE Play
  BY <1>2 DEF Play, OutputOpen
<1>3. CASE AskControl
  BY <1>3 DEF AskControl, Control
<1>4. CASE UserStop
  BY <1>4 DEF UserStop
<1>5. CASE PlayFails
  BY <1>5 DEF PlayFails
<1>6. CASE PlayStarts
  BY <1>6 DEF PlayStarts, PlayFlags, OutputPlay
<1>7. CASE PlayCreates
  BY <1>7 DEF PlayCreates, PlayFlags, OutputPlay
<1>8. CASE Pause
  BY <1>8 DEF Pause, ControlFrame, OutputPause
<1>9. CASE Continue
  BY <1>9 DEF Continue, ControlFrame, OutputContinue
<1>10. CASE FastForward
  BY <1>10 DEF FastForward, ControlFrame
<1>11. CASE FastBackward
  BY <1>11 DEF FastBackward, ControlFrame
<1>12. CASE SlowMotion
  BY <1>12 DEF SlowMotion, ControlFrame, OutputContinue
<1>13. CASE UserClose
  BY <1>13 DEF UserClose, OutputClose, PlayerClose
<1>14. CASE RequestAbort
  BY <1>14 DEF RequestAbort
<1>15. ASSUME NEW t \in Threads, Begin(t) PROVE Devices'
  BY <1>15, Zenon DEF Begin
<1>16. ASSUME NEW t \in Threads, InputBegin(t) PROVE Devices'
  BY <1>16, Zenon DEF InputBegin
<1>17. ASSUME NEW t \in Threads, LoopEnds(t) PROVE Devices'
  BY <1>17, Zenon DEF LoopEnds
<1>18. ASSUME NEW t \in Threads, LoopRead(t) PROVE Devices'
  BY <1>18, Zenon DEF LoopRead
<1>19. ASSUME NEW t \in Threads, ReadPacket(t) PROVE Devices'
  BY <1>19, Zenon DEF ReadPacket
<1>20. ASSUME NEW t \in Threads, ReadEnds(t) PROVE Devices'
  BY <1>20, Zenon DEF ReadEnds
<1>21. ASSUME NEW t \in Threads, InputEnd(t) PROVE Devices'
  BY <1>21, Zenon DEF InputEnd
<1>22. ASSUME NEW t \in Threads, Ended(t) PROVE Devices'
  BY <1>22, Zenon DEF Ended
<1>23. ASSUME NEW a \in Actors, StopTest(a) PROVE Devices'
  BY <1>23, Zenon DEF StopTest
<1>24. ASSUME NEW a \in Actors, StopFlags(a) PROVE Devices'
  BY <1>24 DEF StopFlags, OutputStop
<1>25. ASSUME NEW a \in Actors, StopInput(a) PROVE Devices'
  BY <1>25, Zenon DEF StopInput
<1>26. ASSUME NEW a \in Actors, StopAvfc(a) PROVE Devices'
  BY <1>26, Zenon DEF StopAvfc
<1>27. ASSUME NEW a \in Actors, StopWait(a) PROVE Devices'
  BY <1>27, Zenon DEF StopWait
<1>28. CASE UNCHANGED vars
  BY <1>28
<1> QED
  BY <1>1, <1>2, <1>3, <1>4, <1>5, <1>6, <1>7, <1>8, <1>9, <1>10, <1>11,
     <1>12, <1>13, <1>14, <1>15, <1>16, <1>17, <1>18, <1>19, <1>20, <1>21,
     <1>22, <1>23, <1>24, <1>25, <1>26, <1>27, <1>28
     DEF Next, UserCall, UserGoesOn, PlayThread, Stop

(* A stray meeting is not forgotten. *)
LEMMA StrayStays ==
  ASSUME [Next]_vars, ~stray'
  PROVE  ~stray
BY Zenon DEF vars, ghost, Next, UserCall, UserGoesOn, PlayThread, Stop, Open, Play, AskControl,
   Control,
     UserStop, PlayFails, PlayStarts, PlayCreates, Pause, Continue, FastForward, FastBackward,
     SlowMotion, ControlFrame, UserClose, RequestAbort, Begin, InputBegin, LoopEnds, LoopRead, ReadPacket,
     ReadEnds, InputEnd, Ended, StopTest, StopFlags, StopInput, StopAvfc, StopWait

(* Every step of user and threads keeps the core of the invariant. *)
LEMMA CoreStep ==
  ASSUME TypeOK, Core, ~stray', [Next]_vars
  PROVE  Core'
<1>1. CASE Open
  BY <1>1, OpenCore
<1>2. CASE Play
  BY <1>2, PlayCore
<1>3. CASE AskControl \/ UserStop
  BY <1>3, AskCore
<1>4. CASE PlayFails
  BY <1>4, PlayFailsCore
<1>5. CASE PlayStarts
  BY <1>5, PlayStartsNever
<1>6. CASE PlayCreates
  BY <1>6, PlayCreatesCore
<1>7. CASE Controlled
  BY <1>7, ControlledCore
<1>8. CASE UserClose
  BY <1>8, UserCloseCore
<1>9. CASE RequestAbort \/ UNCHANGED vars
  BY <1>9, StillCore
<1>10. CASE Stop(User)
  BY <1>10, UserStopTestCore, UserStopFlagsCore, UserStopInputCore, UserStopAvfcCore,
     UserStopWaitCore
     DEF Stop
<1>11. ASSUME NEW t \in Threads, Stop(t) PROVE Core'
  BY <1>11, ThreadStopTestCore, ThreadStopFlagsCore, ThreadStopInputCore, ThreadStopAvfcCore,
     ThreadStopWaitCore DEF Stop
<1>12. ASSUME NEW t \in Threads, PlayThread(t) PROVE Core'
  BY <1>12, BeginCore, InputBeginCore, LoopEndsCore, LoopReadCore, ReadPacketCore, ReadEndsCore,
     InputEndCore, EndedCore DEF PlayThread
<1> QED
  BY <1>1, <1>2, <1>3, <1>4, <1>5, <1>6, <1>7, <1>8, <1>9, <1>10, <1>11, <1>12
     DEF Next, UserCall, UserGoesOn, Controlled, Actors

LEMMA InitIInv == Init => IInv
<1> SUFFICES ASSUME Init PROVE IInv
  OBVIOUS
<1>1. pc[User] = "idle" /\ \A t \in Threads : pc[t] = "none"
  BY EPlayerAssumption DEF EPlayerAssumption, Init, Actors
<1>2. Flags
  BY Zenon DEF Init, Flags
<1>3. Places
  BY <1>1, EPlayerAssumption DEF EPlayerAssumption, Init, Places, Actors
<1>4. Decoders /\ Devices
  BY DEF Init, Decoders, DeviceState, Devices
<1>5. Files
  BY EPlayerAssumption DEF EPlayerAssumption, Init, Files
<1>6. ~fault /\ Alone /\ Announcements
  BY <1>1 DEF Init, Alone, Alive, Announcements, Announced, Reading
<1>7. Caller /\ Context /\ Picture
  BY <1>1 DEF Init, Caller, UserAt, Context, Picture
<1>8. ASSUME NEW t \in Threads PROVE Thread(t)
  BY <1>1, <1>8 DEF Thread, Near, Stopping, Announced, Reading
<1> QED
  BY <1>2, <1>3, <1>4, <1>5, <1>6, <1>7, <1>8 DEF IInv, TypeOK, Core

LEMMA Invariance == Spec => []IInv
<1>1. IInv /\ [Next]_vars => IInv'
  <2> SUFFICES ASSUME IInv, [Next]_vars PROVE IInv'
    OBVIOUS
  <2>1. TypeOK'
    BY FlagsStep, PlacesStep, DecodersStep, FilesStep DEF IInv, TypeOK
  <2>2. Devices'
    BY DevicesStep DEF IInv
  <2>3. ASSUME ~stray' PROVE Core'
    BY <2>3, StrayStays, CoreStep DEF IInv
  <2> QED
    BY <2>1, <2>2, <2>3 DEF IInv
<1> QED
  BY InitIInv, <1>1, PTL DEF Spec

-----------------------------------------------------------------------------
(* Flags, places, decoders and files stay in their ranges, and the two     *)
(* decoders are opened and closed together (Output::Open, Output::Close).  *)
THEOREM EPlayerTypes == Spec => []TypeOK
<1>1. IInv => TypeOK
  BY DEF IInv
<1> QED
  BY Invariance, <1>1, PTL

(* A file that plays is served by its own play thread, one thread at most  *)
(* is in the play loop, the Stop at the end of a file stops no other file, *)
(* Stop and Close leave nothing behind that plays, and the format context  *)
(* is neither used after it is closed nor closed under a reader            *)
(* (Player::Play and Stop, Input::Play and Stop): with any number of       *)
(* threads and files, as long as the user meets no thread it cannot wait   *)
(* for.                                                                    *)
THEOREM Served == Spec => []ServedByItsThread
<1>1. IInv => ServedByItsThread
  <2> SUFFICES ASSUME IInv, ~stray PROVE
        /\ ~fault
        /\ isPlaying => \E t \in Threads :
             /\ session[t] = opens
             /\ Announced(t) \/ pc[t] \in {"born", "stop", "stop flags"}
        /\ \A t, u \in Threads : pc[t] \in Reading /\ pc[u] \in Reading => t = u
        /\ \A t \in Threads : pc[t] = "stop flags" => session[t] = opens
        /\ UserAt("idle") /\ phase = "closed" => StoppedIsQuiet
    BY Zenon DEF ServedByItsThread
  <2>1. Core
    BY DEF IInv
  <2>2. ~fault
    BY <2>1 DEF Core
  <2>3. isPlaying => \E t \in Threads :
          /\ session[t] = opens
          /\ Announced(t) \/ pc[t] \in {"born", "stop", "stop flags"}
    BY <2>1 DEF Core, Caller, Near
  <2>4. \A t, u \in Threads : pc[t] \in Reading /\ pc[u] \in Reading => t = u
    BY <2>1 DEF Core, Alone, Alive, Reading
  <2>5. \A t \in Threads : pc[t] = "stop flags" => session[t] = opens
    BY <2>1 DEF Core, Thread, Stopping
  <2>6. ASSUME UserAt("idle"), phase = "closed" PROVE StoppedIsQuiet
    <3>1. ~isPlaying /\ UserPlays
      BY <2>1, <2>6 DEF Core, Caller, UserPlays, UserAt
    <3>2. \A t \in Threads : ~Near(t) /\ ~Stopping(t)
      BY <2>1, <2>6 DEF Core, Thread
    <3>3. audio = "closed" /\ video = "closed"
      BY <2>6 DEF IInv, Devices
    <3>4. ~hasThreadStarted /\ ~hasPlayThreadStarted
      BY <2>1, <3>2 DEF Core, Announcements, Near, Announced, Reading
    <3>5. (\E t \in Threads : session[t] = opens) => avfc = 0
      BY <2>1, <2>6, <3>1, <3>2 DEF Core, Context, UserAt, Stopping
    <3> QED
      BY <3>1, <3>2, <3>3, <3>4, <3>5 DEF StoppedIsQuiet, Near
  <2> QED
    BY <2>2, <2>3, <2>4, <2>5, <2>6
<1> QED
  BY Invariance, <1>1, PTL

(* The picture stands still exactly while the player says it is paused     *)
(* (Player::Pause, Continue and SlowMotion).                               *)
THEOREM PictureStands == Spec => []PictureFollowsPause
<1>1. IInv => PictureFollowsPause
  BY DEF IInv, Core, Picture, UserPlays, UserAt, PictureFollowsPause
<1> QED
  BY Invariance, <1>1, PTL
=============================================================================
