------------------------------ MODULE Television ------------------------------
(***************************************************************************)
(* cVideo and VDec of libtriple/video_td.cpp: the still picture and its    *)
(* mutex, the display's size, mode and scaler, and the way into standby    *)
(* and back.  Three threads call: the GUI, the zapper (Start, Stop,        *)
(* setBlank) and the input thread, which runs VideoParamWatchdog.  Only    *)
(* the still picture has a mutex; all else is shared without one.          *)
(*                                                                         *)
(* A step reads or writes the shared members and devices between two calls *)
(* that another thread may get in between.  The stream shows pictures of   *)
(* one of two shapes, "narrow" (v_ar < 3) and "wide".                      *)
(***************************************************************************)
EXTENDS Integers

CONSTANTS
  Modes,          \* DISPLAY_AR_MODE_* the user chooses from
  Outputs         \* analogue output formats: "RGBC", "YBR"

Threads == {"gui", "zap", "dog"}
Shapes == {"narrow", "wide"}
Aspects == {1, 3}                       \* 4:3 and 16:9, as cVideo numbers them
DispModes == {"norm", "letterbox", "scale"}
Keep == -1                              \* "do not change" of setAspectRatio
Unset == "unset"                        \* the same of a mode

VARIABLES
  vdec,           \* members of VDec and the statics of its functions
  stillp_mutex,   \* its holder, or "free"
  dev,            \* what the decoder and the SCART switch were told
  shape,          \* of the pictures the stream brings
  pc, loc,        \* of each thread: where it is, and its locals
  blank_data,     \* is there a black picture to show?
  pig,            \* is the picture reduced to a corner?
  (* ghosts *)
  overrun,        \* was the decoder started or stopped under a still picture?
  relit,          \* was a video mode set in standby?
  alone,          \* threads whose call no other one's has overlapped
  mixed           \* what overlapping calls may have left wrong

picVars == <<stillp_mutex, overrun>>
lookVars == <<pig, relit>>
overlapVars == <<alone, mixed>>
vars == <<vdec, stillp_mutex, dev, shape, pc, loc, blank_data, pig, overrun,
          relit, alone, mixed>>

NoLocals == [ar |-> "narrow", size |-> "none", pin |-> 0, info |-> "none",
             blank |-> FALSE, ret |-> "idle"]

TypeOK ==
  /\ vdec \in [pic_shown : BOOLEAN, playstate : {"STOPPED", "PLAYING", "FREEZED"},
       croppingMode : DispModes, outputformat : Outputs, scartvoltage : {-1, 6, 12},
       video_standby : BOOLEAN, _aspect : Aspects \cup {Keep},
       _mode : Modes \cup {Unset}, _v_info : Shapes \cup {"none"}]
  /\ stillp_mutex \in Threads \cup {"free"}
  /\ dev \in [still : {"none", "picture", "black"}, source : {"demux", "memory"},
       outfmt : Outputs \cup {"unset", "off"}, route : {"unset", "enc", "vcr"},
       pin8 : {-1, 0, 1, 6, 12}, size : {"unset", "4x3", "16x9", "unknown"},
       disp : DispModes, scale : ({"off", "corner"} \cup Shapes) \X (Modes \cup {Unset})]
  /\ shape \in Shapes
  /\ DOMAIN pc = Threads /\ DOMAIN loc = Threads
  /\ blank_data \in BOOLEAN /\ pig \in BOOLEAN
  /\ overrun \in BOOLEAN /\ relit \in BOOLEAN
  /\ alone \subseteq Threads /\ mixed \subseteq {"display", "glimpse", "pin8"}

(* Nothing has been told to the output yet; the pins' 0 stands for that    *)
(* and 1 for "follow the VCR".                                             *)
Unscaled == <<"off", Unset>>
Init ==
  /\ vdec = [pic_shown |-> FALSE, playstate |-> "STOPPED", croppingMode |-> "norm",
       outputformat |-> "RGBC", scartvoltage |-> -1, video_standby |-> FALSE,
       _aspect |-> Keep, _mode |-> Unset, _v_info |-> "none"]
  /\ stillp_mutex = "free"
  /\ dev = [still |-> "none", source |-> "demux", outfmt |-> "unset",
       route |-> "unset", pin8 |-> 0, size |-> "unset", disp |-> "norm",
       scale |-> Unscaled]
  /\ shape \in Shapes
  /\ pc = [t \in Threads |-> "idle"] /\ loc = [t \in Threads |-> NoLocals]
  /\ blank_data \in BOOLEAN
  /\ pig = FALSE /\ overrun = FALSE /\ relit = FALSE
  /\ alone = {} /\ mixed = {}

Goto(t, l) == pc' = [pc EXCEPT ![t] = l]

(* Calls that set display or pins.  One that begins while another is under *)
(* way takes from both that they are alone.  A call that has seen another  *)
(* shape than the watchdog leaves a "glimpse": should the stream change    *)
(* back before the watchdog looks, nobody corrects the display.            *)
Setting == {t \in Threads : pc[t] \in {"switch", "size", "pin", "pinset",
                                       "watched", "black", "write", "route", "stand"}
                            /\ loc[t].ret # "stopped"}
Enters(t) ==
  /\ alone' = IF Setting = {} THEN {t} ELSE {}
  /\ mixed' = IF Setting = {} THEN mixed ELSE mixed \cup {"display", "pin8"}
Leaves(t, what) ==
  /\ alone' = alone \ {t}
  /\ mixed' = IF t \in alone THEN mixed \ what ELSE mixed
LeavesDisplay(t, seen) ==
  LET what == {"display"} \cup (IF vdec.video_standby THEN {} ELSE {"pin8"}) IN
  IF loc[t].ar = seen
    THEN Leaves(t, what \cup {"glimpse"})
    ELSE /\ alone' = alone \ {t}
         /\ mixed' = (IF t \in alone THEN mixed \ what ELSE mixed) \cup {"glimpse"}

-----------------------------------------------------------------------------
(* The still picture.                                                      *)

(* ShowPicture, up to its mutex: the picture may not be there, or it is    *)
(* converted, which takes its time.                                        *)
ShowPicture ==
  /\ pc["gui"] = "idle"
  /\ Goto("gui", "showlock")
  /\ UNCHANGED <<vdec, dev, shape, loc, blank_data, picVars, lookVars, overlapVars>>

(* Behind the mutex; the converted file may not open or not be read. *)
ShowLock ==
  /\ pc["gui"] = "showlock" /\ stillp_mutex = "free"
  /\ \/ /\ stillp_mutex' = "gui" /\ Goto("gui", "show")
        /\ vdec' = [vdec EXCEPT !.pic_shown = TRUE, !.playstate = "FREEZED"]
     \/ Goto("gui", "idle") /\ UNCHANGED <<vdec, stillp_mutex>>
  /\ UNCHANGED <<dev, shape, loc, blank_data, lookVars, overrun, overlapVars>>

ShowWrite ==
  /\ pc["gui"] = "show"
  /\ dev' = [dev EXCEPT !.still = "picture", !.source = "memory"]
  /\ stillp_mutex' = "free" /\ Goto("gui", "idle")
  /\ overrun' = FALSE
  /\ UNCHANGED <<vdec, shape, loc, blank_data, lookVars, overlapVars>>

SelectsDemux(d) == [d EXCEPT !.source = "demux"]
StopPicture ==
  /\ pc["gui"] = "idle" /\ stillp_mutex = "free"
  /\ dev' = SelectsDemux(dev)
  /\ vdec' = [vdec EXCEPT !.pic_shown = FALSE]
  /\ overrun' = FALSE
  /\ UNCHANGED <<stillp_mutex, shape, pc, loc, blank_data, lookVars, overlapVars>>

(* setBlank: behind the mutex it looks whether a picture is shown, then    *)
(* writes the black one.  ret says who called.                             *)
AnyPicture == FALSE
PictureShown == vdec.pic_shown
BlankLock(t) ==
  /\ pc[t] = "black" /\ stillp_mutex = "free"
  /\ IF PictureShown \/ ~blank_data
       THEN Goto(t, loc[t].ret) /\ UNCHANGED stillp_mutex
       ELSE Goto(t, "write") /\ stillp_mutex' = t
  /\ UNCHANGED <<vdec, dev, shape, loc, blank_data, lookVars, overrun, overlapVars>>

BlankWrite(t) ==
  /\ pc[t] = "write"
  /\ dev' = SelectsDemux([dev EXCEPT !.still = "black"])
  /\ stillp_mutex' = "free" /\ Goto(t, loc[t].ret)
  /\ UNCHANGED <<vdec, shape, loc, blank_data, lookVars, overrun, overlapVars>>

-----------------------------------------------------------------------------
(* The zapper.                                                             *)

setBlank ==
  /\ pc["zap"] = "idle"
  /\ Goto("zap", "black") /\ loc' = [loc EXCEPT !["zap"].ret = "stopped"]
  /\ UNCHANGED <<vdec, dev, shape, blank_data, picVars, lookVars, overlapVars>>

(* Start does nothing when the decoder plays, as far as playstate knows,   *)
(* and asks nobody whether a picture is shown.                             *)
Start ==
  /\ pc["zap"] = "idle" /\ vdec.playstate # "PLAYING"
  /\ vdec' = [vdec EXCEPT !.playstate = "PLAYING"]
  /\ Goto("zap", "start")
  /\ UNCHANGED <<dev, shape, loc, blank_data, picVars, lookVars, overlapVars>>

StartDo ==
  /\ pc["zap"] = "start"
  /\ dev' = [dev EXCEPT !.still = "none"]
  /\ overrun' = (overrun \/ dev.still = "picture")
  /\ Goto("zap", "idle")
  /\ UNCHANGED <<vdec, stillp_mutex, shape, loc, blank_data, lookVars, overlapVars>>

(* Stop does not stop a still picture; but it has let go of the mutex when *)
(* it stops the decoder.                                                   *)
Stop(blank) ==
  /\ pc["zap"] = "idle" /\ stillp_mutex = "free" /\ ~vdec.pic_shown
  /\ Goto("zap", "stop")
  /\ loc' = [loc EXCEPT !["zap"].blank = blank]
  /\ UNCHANGED <<vdec, dev, shape, blank_data, picVars, lookVars, overlapVars>>

StopMark ==
  /\ pc["zap"] = "stop"
  /\ vdec' = [vdec EXCEPT !.playstate =
                IF loc["zap"].blank THEN "STOPPED" ELSE "FREEZED"]
  /\ Goto("zap", "stopdo")
  /\ UNCHANGED <<dev, shape, loc, blank_data, picVars, lookVars, overlapVars>>

StopDo ==
  /\ pc["zap"] = "stopdo"
  /\ IF loc["zap"].blank
       THEN /\ dev' = [dev EXCEPT !.still = "none"]
            /\ overrun' = (overrun \/ dev.still = "picture")
            /\ Goto("zap", "black") /\ loc' = [loc EXCEPT !["zap"].ret = "stopped"]
       ELSE Goto("zap", "idle") /\ UNCHANGED <<dev, overrun, loc>>
  /\ UNCHANGED <<vdec, stillp_mutex, shape, blank_data, lookVars, overlapVars>>

Stopped ==
  /\ pc["zap"] = "stopped"
  /\ Goto("zap", "idle") /\ loc' = [loc EXCEPT !["zap"] = NoLocals]
  /\ UNCHANGED <<vdec, dev, shape, blank_data, picVars, lookVars, overlapVars>>

-----------------------------------------------------------------------------
(* setAspectRatio.                                                         *)

Or(new, old, keep) == IF new = keep THEN old ELSE new

(* Its beginning: it reads the stream's shape and takes over the values    *)
(* that are to be changed.                                                 *)
setAspectRatio(t, aspect, mode, ret) ==
  /\ vdec' = [vdec EXCEPT !._aspect = Or(aspect, @, Keep), !._mode = Or(mode, @, Unset)]
  /\ loc' = [loc EXCEPT ![t].ar = shape, ![t].ret = ret]
  /\ Goto(t, "switch") /\ Enters(t)

(* PANSCAN and PANSCAN2 scale a picture that is not of the screen's shape. *)
Scaled(ar, aspect, mode) ==
  mode \in {"panscan", "panscan2"} /\ <<ar, aspect>> \in {<<"narrow", 3>>, <<"wide", 1>>}
Dmode(ar, aspect, mode) ==
  IF Scaled(ar, aspect, mode) THEN "scale"
  ELSE IF mode = "letterbox" THEN "letterbox" ELSE "norm"
Dsize(ar, aspect, mode) ==
  IF mode = "none" THEN IF ar = "narrow" THEN "4x3" ELSE "16x9"
  ELSE IF Scaled(ar, aspect, mode) THEN "unknown"
  ELSE CASE aspect = 1 -> "4x3" [] aspect = 3 -> "16x9" [] OTHER -> "unknown"
Voltage(aspect, old) == CASE aspect = 1 -> 12 [] aspect = 3 -> 6 [] OTHER -> old

(* setCroppingMode, and with a mode the scaler. *)
Displayed(d, ar, aspect, mode) ==
  IF mode = Unset THEN d
  ELSE [d EXCEPT !.disp = Dmode(ar, aspect, mode),
                 !.scale = IF Scaled(ar, aspect, mode) THEN <<ar, mode>> ELSE Unscaled]

Switch(t) ==
  /\ pc[t] = "switch"
  /\ LET ar == loc[t].ar  a == vdec._aspect  m == vdec._mode IN
       /\ vdec' = [vdec EXCEPT !.scartvoltage = Voltage(a, @),
                     !.croppingMode = IF m = Unset THEN @ ELSE Dmode(ar, a, m)]
       /\ dev' = Displayed(dev, ar, a, m)
       /\ loc' = [loc EXCEPT ![t].size = Dsize(ar, a, m)]
  /\ Goto(t, "size")
  /\ UNCHANGED <<shape, blank_data, picVars, lookVars, overlapVars>>

SetSize(t) ==
  /\ pc[t] = "size"
  /\ dev' = [dev EXCEPT !.size = loc[t].size]
  /\ Goto(t, "pin")
  /\ UNCHANGED <<vdec, shape, loc, blank_data, picVars, lookVars, overlapVars>>

(* SCART pin 8 is left alone in standby.  The watchdog is not done before  *)
(* it has noted what it saw.                                               *)
AspectDone(t) ==
  /\ Goto(t, loc[t].ret)
  /\ IF t = "dog" THEN UNCHANGED <<loc, overlapVars>>
     ELSE loc' = [loc EXCEPT ![t] = NoLocals] /\ LeavesDisplay(t, vdec._v_info)
Awake == ~vdec.video_standby
PinTest(t) ==
  /\ pc[t] = "pin"
  /\ IF vdec.scartvoltage > 0 /\ Awake
       THEN /\ Goto(t, "pinset")
            /\ loc' = [loc EXCEPT ![t].pin = vdec.scartvoltage]
            /\ UNCHANGED overlapVars
       ELSE AspectDone(t)
  /\ UNCHANGED <<vdec, dev, shape, blank_data, picVars, lookVars>>

PinSet(t) ==
  /\ pc[t] = "pinset"
  /\ dev' = [dev EXCEPT !.pin8 = loc[t].pin]
  /\ AspectDone(t)
  /\ UNCHANGED <<vdec, shape, blank_data, picVars, lookVars>>

-----------------------------------------------------------------------------
(* The input thread's watchdog, and the stream.                            *)

ShapeChanges ==
  /\ shape' \in Shapes \ {shape}
  /\ UNCHANGED <<vdec, dev, pc, loc, blank_data, picVars, lookVars, overlapVars>>

(* VideoParamWatchdog remembers the parameters it has looked at. *)
VideoParamWatchdog ==
  /\ pc["dog"] = "idle" /\ vdec._v_info # shape
  /\ Goto("dog", "changed")
  /\ loc' = [loc EXCEPT !["dog"].info = shape]
  /\ UNCHANGED <<vdec, dev, shape, blank_data, picVars, lookVars, overlapVars>>

ParamsChanged ==
  /\ pc["dog"] = "changed"
  /\ setAspectRatio("dog", Keep, Unset, "watched")
  /\ UNCHANGED <<dev, shape, blank_data, picVars, lookVars>>

SeenNow == shape
Seen == loc["dog"].info
Watched ==
  /\ pc["dog"] = "watched"
  /\ vdec' = [vdec EXCEPT !._v_info = Seen]
  /\ Goto("dog", "idle") /\ loc' = [loc EXCEPT !["dog"] = NoLocals]
  /\ LeavesDisplay("dog", loc["dog"].info)
  /\ UNCHANGED <<dev, shape, blank_data, picVars, lookVars>>

-----------------------------------------------------------------------------
(* The GUI's other calls.                                                  *)

SetAspect(aspect, mode) ==
  /\ pc["gui"] = "idle" /\ <<aspect, mode>> # <<Keep, Unset>>
  /\ setAspectRatio("gui", aspect, mode, "idle")
  /\ UNCHANGED <<dev, shape, blank_data, picVars, lookVars>>

(* Pig reduces the picture to a corner.  Its reset is setZoom(-1), which   *)
(* at the zoom of 100, the only one there is, restores the cropping mode,  *)
(* and setAspectRatio.                                                     *)
Pig ==
  /\ pc["gui"] = "idle"
  /\ dev' = [dev EXCEPT !.disp = "scale", !.scale = <<"corner", Unset>>]
  /\ pig' = TRUE
  /\ UNCHANGED <<vdec, shape, pc, loc, blank_data, picVars, relit, overlapVars>>

setZoom(d) == [d EXCEPT !.disp = vdec.croppingMode, !.scale = Unscaled]
PigReset ==
  /\ pc["gui"] = "idle"
  /\ dev' = setZoom(dev) /\ pig' = FALSE
  /\ setAspectRatio("gui", Keep, Unset, "idle")
  /\ UNCHANGED <<shape, blank_data, picVars, relit>>

(* SetVideoMode sets the format in standby as well, where it switches the  *)
(* output on again.                                                        *)
SetVideoMode(f) ==
  /\ pc["gui"] = "idle"
  /\ vdec' = [vdec EXCEPT !.outputformat = f]
  /\ dev' = [dev EXCEPT !.outfmt = f]
  /\ relit' = vdec.video_standby
  /\ UNCHANGED <<shape, pc, loc, blank_data, pig, picVars, overlapVars>>

(* Standby(on): black picture, output off, SCART to the VCR, and only then *)
(* video_standby, so that the watchdog may set pin 8 in between.           *)
Standby(on) ==
  /\ pc["gui"] = "idle"
  /\ Goto("gui", IF on THEN "black" ELSE "route")
  /\ loc' = [loc EXCEPT !["gui"].ret = "route", !["gui"].blank = on]
  /\ Enters("gui")
  /\ UNCHANGED <<vdec, dev, shape, blank_data, picVars, lookVars>>

routeVideoOnly(d, on) ==
  IF on THEN [d EXCEPT !.pin8 = 1, !.route = "vcr"] ELSE [d EXCEPT !.route = "enc"]
routeVideo(d, on) ==
  IF on THEN [d EXCEPT !.pin8 = 1, !.route = "vcr"]
        ELSE [d EXCEPT !.pin8 = vdec.scartvoltage, !.route = "enc"]
Route ==
  /\ pc["gui"] = "route"
  /\ LET on == loc["gui"].blank IN
       dev' = routeVideo([dev EXCEPT !.outfmt =
                            IF on THEN "off" ELSE vdec.outputformat], on)
  /\ Goto("gui", "stand")
  /\ relit' = FALSE
  /\ UNCHANGED <<vdec, shape, loc, blank_data, pig, picVars, overlapVars>>

Stand ==
  /\ pc["gui"] = "stand"
  /\ vdec' = [vdec EXCEPT !.video_standby = loc["gui"].blank]
  /\ Goto("gui", "idle") /\ loc' = [loc EXCEPT !["gui"] = NoLocals]
  /\ Leaves("gui", {"pin8"})
  /\ UNCHANGED <<dev, shape, blank_data, picVars, lookVars>>

-----------------------------------------------------------------------------
Picture == ShowPicture \/ ShowLock \/ ShowWrite \/ StopPicture
Display ==
  \/ \E a \in Aspects \cup {Keep}, m \in Modes \cup {Unset} : SetAspect(a, m)
  \/ Pig \/ PigReset
  \/ \E f \in Outputs : SetVideoMode(f)
Power == (\E on \in BOOLEAN : Standby(on)) \/ Route \/ Stand
Gui == Picture \/ Display \/ Power
Zapper ==
  \/ setBlank \/ Start \/ StartDo
  \/ \E blank \in BOOLEAN : Stop(blank)
  \/ StopMark \/ StopDo \/ Stopped
Watchdog == VideoParamWatchdog \/ ParamsChanged \/ Watched
Shared(t) ==
  \/ BlankLock(t) \/ BlankWrite(t)
  \/ Switch(t) \/ SetSize(t) \/ PinTest(t) \/ PinSet(t)

Next == Gui \/ Zapper \/ Watchdog \/ ShapeChanges \/ \E t \in Threads : Shared(t)
Spec == Init /\ [][Next]_vars

-----------------------------------------------------------------------------
(* Properties.                                                             *)

(* While a picture is shown it is neither blanked nor does the decoder     *)
(* read from the demux, however setBlank, Stop and Standby of the other    *)
(* threads fall, unless the zapper starts the decoder or stops it in the   *)
(* gap Stop leaves; and without a picture the decoder reads from the       *)
(* demux ("the mutex ensures proper ordering").                            *)
PictureStays ==
  stillp_mutex = "free" =>
    /\ vdec.pic_shown /\ ~overrun => dev.still = "picture" /\ dev.source = "memory"
    /\ ~vdec.pic_shown => dev.source = "demux"

(* Once the watchdog has seen the stream's shape, size, mode and scaler    *)
(* are those that shape asks for, whoever set them last and whatever       *)
(* changed on the way.                                                     *)
DisplayFollows ==
  Setting = {} /\ pc["dog"] = "idle" /\ vdec._v_info = shape
    /\ ~pig /\ mixed \cap {"display", "glimpse"} = {} =>
      /\ dev.size = Dsize(shape, vdec._aspect, vdec._mode)
      /\ vdec._mode # Unset => dev = Displayed(dev, shape, vdec._aspect, vdec._mode)

(* In standby the output is off, unless a video mode was set, and SCART    *)
(* follows the VCR; after it, they are as they were asked for meanwhile.   *)
OutputFollows ==
  Setting = {} /\ "pin8" \notin mixed /\ dev.route # "unset" =>
    IF vdec.video_standby
      THEN /\ dev.route = "vcr" /\ dev.pin8 = 1
           /\ relit \/ dev.outfmt = "off"
      ELSE /\ dev.route = "enc" /\ dev.pin8 = vdec.scartvoltage
           /\ dev.outfmt = vdec.outputformat

(* The screen shows the still picture as long as it is shown, a stream in  *)
(* the size and mode its shape and the user ask for, and nothing at all in *)
(* standby, whatever the three threads do at once.                         *)
ScreenFollows == PictureStays /\ DisplayFollows /\ OutputFollows
=============================================================================
