------------------------------- MODULE DvbVideo -------------------------------
(***************************************************************************)
(* cVideo and VDec of libspark/video.cpp and azbox/video.cpp: who has the  *)
(* decoder's device, what it shows, and whether the output is on.          *)
(* Three threads call: the GUI (still pictures, the video system), the     *)
(* zapper (Start, Stop, standby) and, with libspark, the movie player,     *)
(* which closes the device, opens it itself, and gives it back.            *)
(*                                                                         *)
(* A call is a script of steps; each reads or writes the members, or is    *)
(* one request to a driver, so that other threads get in between.  Some    *)
(* steps put further ones in front of the script.  The device can be       *)
(* opened by one only: the next is told EBUSY.                             *)
(***************************************************************************)
EXTENDS Integers, Sequences

Threads == {"gui", "zap", "movie"}
Boxes == {"spark", "azbox"}

VARIABLES
  box,
  fd,             \* is VDec's descriptor set?
  playstate, stillpicture, video_standby,
  stillp_mutex,   \* azbox only
  dev,            \* who holds the device, what it shows; is the output on?
  todo,           \* of each thread: the steps its call has left
  movie,          \* does the movie player have the decoders?
  (* ghosts *)
  disowned,       \* was fd overwritten while the device was open?
  crossed,        \* did calls of two threads change device or members at once?
  relit           \* was the output switched on in standby?

members == <<fd, playstate, stillpicture, video_standby>>
ghosts == <<disowned, relit>>
vars == <<box, members, stillp_mutex, dev, todo, movie, ghosts, crossed>>

Step == {"unstill", "play", "stop", "freeze", "halt", "hold", "close", "open", "opens",
         "off", "on", "wake", "standby", "awake", "mark", "show", "unmark",
         "take", "give", "lock", "unlock", "blank"}
TypeOK ==
  /\ box \in Boxes /\ fd \in BOOLEAN
  /\ playstate \in {"STOPPED", "PLAYING", "FREEZED"}
  /\ stillpicture \in BOOLEAN /\ video_standby \in BOOLEAN
  /\ stillp_mutex \in Threads \cup {"free"}
  /\ dev \in [holder : {"nobody", "VDec", "player"}, output : BOOLEAN,
              shows : {"nothing", "black", "frozen", "stream", "picture"}]
  /\ DOMAIN todo = Threads
  /\ \A t \in Threads : \A i \in DOMAIN todo[t] : todo[t][i] \in Step
  /\ movie \in BOOLEAN
  /\ disowned \in BOOLEAN /\ crossed \in BOOLEAN /\ relit \in BOOLEAN

(* azbox does not initialise stillpicture. *)
Init ==
  /\ box \in Boxes
  /\ fd = TRUE /\ playstate = "STOPPED" /\ video_standby = FALSE
  /\ stillpicture \in IF box = "azbox" THEN BOOLEAN ELSE {FALSE}
  /\ stillp_mutex = "free"
  /\ dev = [holder |-> "VDec", shows |-> "nothing", output |-> TRUE]
  /\ todo = [t \in Threads |-> <<>>] /\ movie = FALSE
  /\ disowned = FALSE /\ crossed = FALSE /\ relit = FALSE

-----------------------------------------------------------------------------
(* The calls, as scripts.                                                  *)

SparkStart == <<"unstill", "play">>
SparkStop(blank) == <<IF blank THEN "stop" ELSE "freeze">>
SparkCloseOnly == <<"close">>
SparkClose == SparkStart \o <<"close">>
SparkOpen == <<"open">>
SparkStandby(on) ==
  IF on THEN SparkClose \o <<"off", "standby">> ELSE <<"wake">> \o SparkOpen \o <<"awake">>
SparkShowPicture == SparkClose \o SparkOpen \o <<"mark">>
SparkStopPicture == <<"unmark">> \o SparkStop(TRUE)
(* The mode itself, all that azbox sets, is left out. *)
SparkSetVideoSystem ==
  LET switch == <<"off", "on">> IN
  IF playstate = "PLAYING" THEN SparkStop(TRUE) \o switch \o SparkStart ELSE switch

AzboxStart == <<"play">>
AzboxStop(blank) == <<IF blank THEN "stop" ELSE "freeze">>
AzboxSetBlank == <<"lock", "blank", "unlock">>
AzboxClose == <<"close">>
AzboxOpen == <<"open">>
AzboxStandby(on) ==
  IF on THEN AzboxClose \o <<"off", "standby">> ELSE <<"on">> \o AzboxOpen \o <<"awake">>
AzboxShowPicture == <<"lock", "mark", "show", "unlock">>
AzboxStopPicture == <<"unmark">>

Calls(t, spark, azbox) ==
  /\ todo[t] = <<>>
  /\ todo' = [todo EXCEPT ![t] = IF box = "spark" THEN spark ELSE azbox]
  /\ UNCHANGED <<box, members, stillp_mutex, dev, movie, ghosts, crossed>>

Start == Calls("zap", SparkStart, AzboxStart)
Stop(blank) == Calls("zap", SparkStop(blank), AzboxStop(blank))
setBlank == Calls("zap", SparkStop(TRUE), AzboxSetBlank)
Standby(on) == Calls("zap", SparkStandby(on), AzboxStandby(on))

(* There is no picture in standby, and with azbox none without a device.   *)
ShowPicture ==
  /\ ~video_standby /\ (box = "azbox" => fd)
  /\ Calls("gui", SparkShowPicture, AzboxShowPicture)
StopPicture == Calls("gui", SparkStopPicture, AzboxStopPicture)
SetVideoSystem == box = "spark" /\ Calls("gui", SparkSetVideoSystem, <<>>)

(* cPlayback of libspark: the player opens the device that VDec closes. *)
PlayerOpens ==
  /\ box = "spark" /\ ~movie /\ todo["movie"] = <<>>
  /\ todo' = [todo EXCEPT !["movie"] = SparkClose \o <<"take">>]
  /\ movie' = TRUE
  /\ UNCHANGED <<box, members, stillp_mutex, dev, ghosts, crossed>>
PlayerCloses ==
  /\ movie /\ todo["movie"] = <<>>
  /\ todo' = [todo EXCEPT !["movie"] = <<"give">> \o SparkOpen]
  /\ movie' = FALSE
  /\ UNCHANGED <<box, members, stillp_mutex, dev, ghosts, crossed>>

-----------------------------------------------------------------------------
(* The steps.                                                              *)

Is(t, step) == todo[t] # <<>> /\ Head(todo[t]) = step
Then(t, steps) == todo' = [todo EXCEPT ![t] = steps \o Tail(@)]
Shows(what) == IF fd THEN [dev EXCEPT !.shows = what] ELSE dev

(* Start of libspark does StopPicture implicitly; that of azbox does not,  *)
(* so that Stop will be refused behind it.                                 *)
Unstill(t) ==
  /\ Is(t, "unstill")
  /\ stillpicture' = FALSE
  /\ Then(t, IF stillpicture THEN SparkStop(TRUE) ELSE <<>>)
  /\ UNCHANGED <<fd, playstate, video_standby, stillp_mutex, dev, ghosts>>
Play(t) ==
  /\ Is(t, "play")
  /\ playstate' = "PLAYING" /\ dev' = Shows("stream")
  /\ Then(t, <<>>)
  /\ UNCHANGED <<fd, stillpicture, video_standby, stillp_mutex, ghosts>>

(* Stop looks for a still picture first; then azbox writes a black one,    *)
(* which does not look again.                                              *)
SparkHalts == <<"halt">>
AzboxHalts == AzboxSetBlank \o <<"halt">>
Refused == stillpicture
StopTest(t) ==
  /\ Is(t, "stop")
  /\ Then(t, IF Refused THEN <<>> ELSE IF box = "spark" THEN SparkHalts ELSE AzboxHalts)
  /\ UNCHANGED <<members, stillp_mutex, dev, ghosts>>
FreezeTest(t) ==
  /\ Is(t, "freeze")
  /\ Then(t, IF Refused THEN <<>> ELSE <<"hold">>)
  /\ UNCHANGED <<members, stillp_mutex, dev, ghosts>>
Halt(t) ==
  /\ Is(t, "halt")
  /\ playstate' = "STOPPED" /\ dev' = Shows("black")
  /\ Then(t, <<>>)
  /\ UNCHANGED <<fd, stillpicture, video_standby, stillp_mutex, ghosts>>
Hold(t) ==
  /\ Is(t, "hold")
  /\ playstate' = "FREEZED"
  /\ dev' = IF dev.shows = "stream" THEN Shows("frozen") ELSE dev
  /\ Then(t, <<>>)
  /\ UNCHANGED <<fd, stillpicture, video_standby, stillp_mutex, ghosts>>

Lock(t) ==
  /\ Is(t, "lock") /\ stillp_mutex = "free" /\ stillp_mutex' = t
  /\ Then(t, <<>>)
  /\ UNCHANGED <<members, dev, ghosts>>
Unlock(t) ==
  /\ Is(t, "unlock") /\ stillp_mutex' = "free"
  /\ Then(t, <<>>)
  /\ UNCHANGED <<members, dev, ghosts>>
Blank(t) ==
  /\ Is(t, "blank")
  /\ dev' = Shows("black")
  /\ Then(t, <<>>)
  /\ UNCHANGED <<members, stillp_mutex, ghosts>>

Close(t) ==
  /\ Is(t, "close")
  /\ fd' = FALSE /\ playstate' = "STOPPED"
  /\ dev' = IF fd THEN [dev EXCEPT !.holder = "nobody", !.shows = "nothing"] ELSE dev
  /\ Then(t, <<>>)
  /\ UNCHANGED <<stillpicture, video_standby, stillp_mutex, ghosts>>

(* openDevice: "this fd checking is racy, should be protected by a lock".  *)
(* It tries ten times; the tenth failure goes into fd all the same.        *)
OpenTest(t) ==
  /\ Is(t, "open")
  /\ Then(t, IF fd THEN <<>> ELSE <<"opens">>)
  /\ UNCHANGED <<members, stillp_mutex, dev, ghosts>>
Opens(t) ==
  /\ Is(t, "opens")
  /\ fd' = (dev.holder = "nobody") /\ playstate' = "STOPPED"
  /\ dev' = [dev EXCEPT !.holder = IF @ = "nobody" THEN "VDec" ELSE @]
  /\ disowned' = (disowned \/ fd)
  /\ Then(t, <<>>)
  /\ UNCHANGED <<stillpicture, video_standby, stillp_mutex, relit>>

(* The movie player's own descriptor: Output opens it if it can. *)
Take(t) ==
  /\ Is(t, "take")
  /\ dev' = [dev EXCEPT !.holder = IF @ = "nobody" THEN "player" ELSE @]
  /\ Then(t, <<>>)
  /\ UNCHANGED <<members, stillp_mutex, ghosts>>
Give(t) ==
  /\ Is(t, "give")
  /\ dev' = [dev EXCEPT !.holder = IF @ = "player" THEN "nobody" ELSE @]
  /\ Then(t, <<>>)
  /\ UNCHANGED <<members, stillp_mutex, ghosts>>

(* A picture is marked before it is shown. *)
Mark(t) ==
  /\ Is(t, "mark")
  /\ stillpicture' = (fd \/ box = "azbox" \/ stillpicture)
  /\ Then(t, IF fd /\ box = "spark" THEN <<"show">> ELSE <<>>)
  /\ UNCHANGED <<fd, playstate, video_standby, stillp_mutex, dev, ghosts>>
Show(t) ==
  /\ Is(t, "show")
  /\ dev' = Shows("picture")
  /\ Then(t, <<>>)
  /\ UNCHANGED <<members, stillp_mutex, ghosts>>
Unmark(t) ==
  /\ Is(t, "unmark")
  /\ stillpicture' = FALSE
  /\ Then(t, <<>>)
  /\ UNCHANGED <<fd, playstate, video_standby, stillp_mutex, dev, ghosts>>

(* hdmi_out of libspark, and the SCART input of azbox. *)
Output(t) ==
  /\ \/ Is(t, "off") /\ dev' = [dev EXCEPT !.output = FALSE] /\ relit' = FALSE
     \/ (Is(t, "on") \/ Is(t, "wake")) /\ dev' = [dev EXCEPT !.output = TRUE]
          /\ relit' = (video_standby \/ Is("zap", "standby"))
  /\ Then(t, <<>>)
  /\ UNCHANGED <<members, stillp_mutex, disowned>>
StandbyDone(t) ==
  /\ Is(t, "standby") \/ Is(t, "awake")
  /\ video_standby' = Is(t, "standby")
  /\ Then(t, <<>>)
  /\ UNCHANGED <<fd, playstate, stillpicture, stillp_mutex, dev, ghosts>>

-----------------------------------------------------------------------------
Call ==
  \/ Start \/ setBlank
  \/ \E b \in BOOLEAN : Stop(b) \/ Standby(b)
  \/ ShowPicture \/ StopPicture \/ SetVideoSystem
  \/ PlayerOpens \/ PlayerCloses
Steps(t) ==
  \/ Unstill(t) \/ Play(t) \/ StopTest(t) \/ FreezeTest(t) \/ Halt(t) \/ Hold(t)
  \/ Lock(t) \/ Unlock(t) \/ Blank(t)
  \/ Close(t) \/ OpenTest(t) \/ Opens(t) \/ Take(t) \/ Give(t)
  \/ Mark(t) \/ Show(t) \/ Unmark(t)
  \/ Output(t) \/ StandbyDone(t)

(* Whoever closes the device undisturbed, and without a picture left       *)
(* marked, makes up for what crossed.                                      *)
Changing == Step \ {"stop", "freeze", "open", "lock", "unlock", "off", "on", "wake",
                    "standby", "awake"}
Changes(t) == \E i \in DOMAIN todo[t] : todo[t][i] \in Changing
Crosses(t) ==
  crossed' =
    IF Head(todo[t]) \in Changing /\ \E u \in Threads \ {t} : Changes(u) THEN TRUE
    ELSE crossed /\ ~(Is(t, "close") /\ ~stillpicture)

Next == Call \/ \E t \in Threads : Steps(t) /\ Crosses(t) /\ UNCHANGED <<box, movie>>
Spec == Init /\ [][Next]_vars

-----------------------------------------------------------------------------
(* Properties.                                                             *)

AtRest == \A t \in Threads : todo[t] = <<>>

(* VDec has the device that fd says it has, "racy" as the test before the  *)
(* open is, unless the open that lost the race has overwritten fd.         *)
DeviceOwned == ~disowned => (fd <=> dev.holder = "VDec")

(* What the decoder does is what playstate says, as long as VDec has it;   *)
(* with azbox a black or still picture stops the decoder without a word.   *)
StateKnown ==
  fd /\ ~crossed =>
    /\ dev.shows = "stream" => playstate = "PLAYING"
    /\ playstate = "PLAYING" /\ box = "spark" => dev.shows = "stream"

(* libspark: a still picture that is marked is on the screen, whatever was *)
(* closed, opened, started, stopped and switched in between.               *)
PictureShown == box = "spark" /\ stillpicture /\ fd /\ ~crossed => dev.shows = "picture"

(* The output is off in standby, unless another video system was set then, *)
(* and always on outside of it.                                            *)
OutputFollows ==
  /\ video_standby => relit \/ ~dev.output
  /\ ~video_standby => dev.output

(* The four together, when no call is under way. *)
VideoFollows == AtRest => DeviceOwned /\ StateKnown /\ PictureShown /\ OutputFollows
=============================================================================
