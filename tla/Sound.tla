-------------------------------- MODULE Sound --------------------------------
(***************************************************************************)
(* cAudio of libtriple/audio_td.cpp, libspark/audio.cpp and                *)
(* azbox/audio.cpp: volume and mute of the decoder, and the sound device   *)
(* for clips, whose mixer takes the volume as long as a clip is open.      *)
(*                                                                         *)
(* Two threads call: volume and mute are the GUI's, the player opens and   *)
(* closes clips and starts the decoder.  Nothing is locked: a step reads or  *)
(* writes members and devices between two calls that the other thread may  *)
(* get in between.  Both channels of setVolume are the same ("always the   *)
(* same anyways").                                                         *)
(***************************************************************************)
EXTENDS Integers

CONSTANTS
  Levels,         \* the volumes that are set
  Garbage         \* the volume that no constructor initialises

Threads == {"gui", "player"}
Boxes == {"triple", "spark", "azbox"}
Types == {"mpeg", "other"}      \* AUDIO_FMT_MPEG and the rest
Unset == -1                     \* a device nobody has told anything

VARIABLES
  box,
  muted, volume,  \* members
  StreamType,     \* spark only
  clip,           \* clipfd # -1
  mixer,          \* mixer_fd and mixer_num
  dev,            \* mute, volume and mixer levels, the SCART switch's volume
  pc, loc,        \* of each thread
  (* ghosts *)
  asked,          \* the last volume of the user
  muteAsked,      \* has SetMute been called?
  adrift,         \* was a mixer in use given up without a word to the decoder?
  alone, mixed    \* sections that no other overlaps, what overlaps left wrong

members == <<muted, volume, StreamType, clip, mixer>>
ghosts == <<asked, muteAsked, adrift>>
overlaps == <<alone, mixed>>
vars == <<box, members, dev, pc, loc, ghosts, overlaps>>

Device == {Unset} \cup 0 .. 63
TypeOK ==
  /\ box \in Boxes /\ muted \in BOOLEAN
  /\ volume \in Levels \cup {Garbage} /\ asked \in Levels \cup {Unset}
  /\ StreamType \in Types /\ clip \in BOOLEAN
  /\ mixer \in {"none", "probed", "unnumbered", "numbered"}
  /\ mixer # "none" => clip
  /\ dev.mute \in {"on", "off", "unset"} /\ dev.volume \in Device
  /\ dev.mixer \in Levels \cup {0, Garbage, Unset} /\ dev.avs \in {0, 31, Unset}
  /\ DOMAIN pc = Threads /\ DOMAIN loc = Threads
  /\ muteAsked \in BOOLEAN /\ adrift \in BOOLEAN
  /\ alone \subseteq Threads /\ mixed \subseteq {"mute", "asked", "volume"}

NoLocals == [enable |-> FALSE, level |-> 0, ret |-> "none"]

(* The constructor of libtriple mutes the decoder, without remembering it. *)
Init ==
  /\ box \in Boxes
  /\ muted = FALSE /\ volume \in {Garbage} /\ StreamType \in Types
  /\ clip = FALSE /\ mixer = "none"
  /\ dev = [mute |-> IF box = "triple" THEN "on" ELSE "unset", volume |-> Unset,
            mixer |-> Unset, avs |-> IF box = "triple" THEN 31 ELSE Unset]
  /\ pc = [t \in Threads |-> "idle"] /\ loc = [t \in Threads |-> NoLocals]
  /\ asked = Unset /\ muteAsked = FALSE /\ adrift = FALSE
  /\ alone = {} /\ mixed = {}

Goto(t, l) == pc' = [pc EXCEPT ![t] = l]
Done(t) == Goto(t, "idle") /\ loc' = [loc EXCEPT ![t] = NoLocals]

(* A section is a call's part between its first and its last write.  One   *)
(* that overlaps one of the other thread may leave everything wrong; what  *)
(* an undisturbed one writes afterwards is right again.                    *)
InSection(t) == pc[t] \in {"mute", "muteclip", "avs", "start", "volume", "mixwrite",
                           "decwrite", "rewrite"}
Enters(t) ==
  IF \E u \in Threads \ {t} : InSection(u)
    THEN alone' = {} /\ mixed' = {"mute", "asked", "volume"}
    ELSE alone' = alone \cup {t} /\ UNCHANGED mixed
Corrects(t, what) == mixed' = IF t \in alone THEN mixed \ what ELSE mixed
Leaves(t) == alone' = alone \ {t}

-----------------------------------------------------------------------------
(* setVolume, which SetMute, clips and SetStreamType call as well.         *)

map_volume(v, steps) ==
  LET vol == IF v % 256 > 100 THEN 100 ELSE v % 256 IN steps - (vol * steps) \div 100
TripleLevel(v) == map_volume(v, 31)
AzboxLevel(v) == map_volume(v, 63)
(* MPEG is decoded louder than AC3. *)
SparkLevel(v) ==
  map_volume(IF StreamType = "mpeg" THEN (v * 30) \div 53 ELSE v, 63)
Level(v) ==
  CASE box = "triple" -> TripleLevel(v)
    [] box = "azbox" -> AzboxLevel(v)
    [] box = "spark" -> SparkLevel(v)

MixerInUse == clip /\ mixer # "none"
Muted(v) == IF muted THEN 0 ELSE v

(* v is remembered, then goes to the mixer or to the decoder. *)
setVolume(t, v) ==
  /\ volume' = v
  /\ Goto(t, IF MixerInUse THEN "mixwrite" ELSE "decwrite")
  /\ loc' = [loc EXCEPT ![t].level = IF MixerInUse THEN Muted(v) ELSE Level(v),
                        ![t].ret = IF @ = "none" THEN "user" ELSE @]

(* setVolume(volume, volume), in the middle (ret = "avs") or at the end of *)
(* another call: the volume is read here.                                  *)
CallsSetVolume(t, ret) ==
  /\ Goto(t, "volume")
  /\ loc' = [loc EXCEPT ![t].level = volume, ![t].ret = ret]
Volume(t) ==
  /\ pc[t] = "volume"
  /\ setVolume(t, loc[t].level)
  /\ UNCHANGED <<box, muted, StreamType, clip, mixer, dev, ghosts, overlaps>>

VolumeDone(t) ==
  IF loc[t].ret = "avs" THEN Goto(t, "avs") /\ UNCHANGED <<loc, alone>>
                        ELSE Done(t) /\ Leaves(t)
Written(t) == {"volume"} \cup IF loc[t].ret = "user" THEN {"asked"} ELSE {}

(* A mixer whose number is not known, or not yet, does not take it. *)
MixWrite(t) ==
  /\ pc[t] = "mixwrite"
  /\ IF mixer = "numbered"
       THEN dev' = [dev EXCEPT !.mixer = loc[t].level] /\ Corrects(t, Written(t))
       ELSE UNCHANGED dev /\ mixed' = mixed \cup {"volume"}
  /\ VolumeDone(t)
  /\ UNCHANGED <<box, members, ghosts>>

DecWrite(t) ==
  /\ pc[t] = "decwrite"
  /\ dev' = [dev EXCEPT !.volume = loc[t].level]
  /\ adrift' = FALSE
  /\ VolumeDone(t) /\ Corrects(t, Written(t))
  /\ UNCHANGED <<box, members, asked, muteAsked>>

SetVolume(v) ==
  /\ pc["gui"] = "idle"
  /\ asked' = v
  /\ setVolume("gui", v) /\ Enters("gui")
  /\ UNCHANGED <<box, muted, StreamType, clip, mixer, dev, muteAsked, adrift>>

-----------------------------------------------------------------------------
(* SetMute and Start.                                                      *)

OnOff(b) == IF b THEN "on" ELSE "off"
SetMute(enable) ==
  /\ pc["gui"] = "idle"
  /\ muted' = enable /\ muteAsked' = TRUE
  /\ Goto("gui", "mute") /\ loc' = [loc EXCEPT !["gui"].enable = enable]
  /\ Enters("gui")
  /\ UNCHANGED <<box, volume, StreamType, clip, mixer, dev, asked, adrift>>

(* libtriple tells the decoder, the mixer of a clip and the SCART switch. *)
TripleMute ==
  /\ box = "triple" /\ pc["gui"] = "mute"
  /\ dev' = [dev EXCEPT !.mute = OnOff(loc["gui"].enable)]
  /\ Goto("gui", "muteclip")
  /\ UNCHANGED <<box, members, loc, ghosts, overlaps>>
MuteClip ==
  /\ pc["gui"] = "muteclip"
  /\ IF clip \/ mixer # "none"
       THEN CallsSetVolume("gui", "avs")
       ELSE Goto("gui", "avs") /\ UNCHANGED loc
  /\ UNCHANGED <<box, members, dev, ghosts, overlaps>>
MuteAvs ==
  /\ pc["gui"] = "avs"
  /\ dev' = [dev EXCEPT !.avs = IF loc["gui"].enable THEN 31 ELSE 0]
  /\ Done("gui") /\ Leaves("gui") /\ Corrects("gui", {"mute"})
  /\ UNCHANGED <<box, members, ghosts>>

AzboxMute ==
  /\ box = "azbox" /\ pc["gui"] = "mute"
  /\ dev' = [dev EXCEPT !.mute = OnOff(loc["gui"].enable)]
  /\ Done("gui") /\ Leaves("gui") /\ Corrects("gui", {"mute"})
  /\ UNCHANGED <<box, members, ghosts>>

(* libspark writes what is remembered, and to unmute the volume it reads. *)
SparkMute ==
  /\ box = "spark" /\ pc["gui"] = "mute"
  /\ dev' = [dev EXCEPT !.mute = OnOff(muted)]
  /\ Corrects("gui", {"mute"})
  /\ IF loc["gui"].enable
       THEN Done("gui") /\ Leaves("gui")
       ELSE /\ Goto("gui", "rewrite") /\ loc' = [loc EXCEPT !["gui"].level = dev.volume]
            /\ UNCHANGED alone
  /\ UNCHANGED <<box, members, ghosts>>
Rewrite ==
  /\ pc["gui"] = "rewrite"
  /\ dev' = [dev EXCEPT !.volume = loc["gui"].level]
  /\ Done("gui") /\ Leaves("gui")
  /\ UNCHANGED <<box, members, ghosts, mixed>>

(* libtriple's Start mutes the decoder again if need be. *)
Start ==
  /\ box = "triple" /\ pc["player"] = "idle"
  /\ Goto("player", "start") /\ loc' = [loc EXCEPT !["player"].enable = muted]
  /\ Enters("player")
  /\ UNCHANGED <<box, members, dev, ghosts>>
Started ==
  /\ pc["player"] = "start"
  /\ dev' = [dev EXCEPT !.mute = OnOff(loc["player"].enable)]
  /\ Done("player") /\ Leaves("player")
  /\ UNCHANGED <<box, members, ghosts, mixed>>

-----------------------------------------------------------------------------
(* The player: stream types and clips.                                     *)

(* The volume is set anew for a type that is new. *)
SetStreamType(type) ==
  /\ box = "spark" /\ pc["player"] = "idle"
  /\ StreamType' = type
  /\ IF type # StreamType THEN Goto("player", "again") ELSE UNCHANGED pc
  /\ UNCHANGED <<box, muted, volume, clip, mixer, dev, loc, ghosts, overlaps>>

(* The call of setVolume(volume, volume) at the end of a call. *)
Again ==
  /\ pc["player"] = "again"
  /\ CallsSetVolume("player", "idle") /\ Enters("player")
  /\ UNCHANGED <<box, members, dev, ghosts>>

(* PrepareClipPlay: the device, then its mixer, if there is one, and then  *)
(* which of its controls; each may fail.                                   *)
OpenClip ==
  /\ pc["player"] = "idle" /\ ~clip
  /\ mixer' = "none"
  /\ \/ clip' = TRUE /\ Goto("player", "mixer")
     \/ UNCHANGED <<clip, pc>>
  /\ UNCHANGED <<box, muted, volume, StreamType, dev, loc, ghosts, overlaps>>
OpenMixer ==
  /\ pc["player"] = "mixer"
  /\ \/ mixer' = "probed" /\ Goto("player", "probe")
     \/ UNCHANGED mixer /\ Goto("player", "idle")
  /\ UNCHANGED <<box, muted, volume, StreamType, clip, dev, loc, ghosts, overlaps>>
Probe ==
  /\ pc["player"] = "probe"
  /\ \/ mixer' = "none" /\ Goto("player", "idle")
     \/ mixer' \in {"unnumbered", "numbered"} /\ Goto("player", "again")
  /\ UNCHANGED <<box, muted, volume, StreamType, clip, dev, loc, ghosts, overlaps>>
TriplePrepareClipPlay == box = "triple" /\ (OpenClip \/ OpenMixer \/ Probe)
SparkPrepareClipPlay == box = "spark" /\ (OpenClip \/ OpenMixer \/ Probe)
AzboxPrepareClipPlay == box = "azbox" /\ (OpenClip \/ OpenMixer \/ Probe)

(* StopClip: the decoder gets the volume again that the mixer had. *)
ClosesClip == clip' = FALSE /\ mixer' = "none" /\ dev' = [dev EXCEPT !.mixer = Unset]
ThenNothing == "idle"
ThenSets == "again"
StopClip ==
  /\ pc["player"] = "idle" /\ clip
  /\ ClosesClip
  /\ Goto("player", ThenSets)
  /\ UNCHANGED <<box, muted, volume, StreamType, loc, ghosts, overlaps>>
TripleStopClip == box = "triple" /\ StopClip
SparkStopClip == box = "spark" /\ StopClip
AzboxStopClip == box = "azbox" /\ StopClip

(* The playback of libspark closes the decoder's device, and the clip.     *)
closeDevice ==
  /\ box = "spark" /\ pc["player"] = "idle"
  /\ ClosesClip
  /\ adrift' = (adrift \/ MixerInUse)
  /\ UNCHANGED <<box, muted, volume, StreamType, pc, loc, asked, muteAsked,
                 overlaps>>

-----------------------------------------------------------------------------
Mute ==
  \/ TripleMute \/ MuteClip \/ MuteAvs
  \/ AzboxMute
  \/ SparkMute \/ Rewrite
Player ==
  \/ Start \/ Started
  \/ \E type \in Types : SetStreamType(type)
  \/ Again
  \/ TriplePrepareClipPlay \/ SparkPrepareClipPlay \/ AzboxPrepareClipPlay
  \/ TripleStopClip \/ SparkStopClip \/ AzboxStopClip
  \/ closeDevice

Next ==
  \/ \E v \in Levels : SetVolume(v)
  \/ \E enable \in BOOLEAN : SetMute(enable)
  \/ Mute
  \/ \E t \in Threads : Volume(t) \/ MixWrite(t) \/ DecWrite(t)
  \/ Player
Spec == Init /\ [][Next]_vars

-----------------------------------------------------------------------------
(* Properties.                                                             *)

AtRest == \A t \in Threads : pc[t] = "idle"

(* Whatever the two threads did, and however their calls fell together:    *)
(* the volume is the one last asked for, decoder or mixer, whichever plays, *)
(* has it, in the decoder's own scale, and mute is what was asked for, on  *)
(* the mixer as well.  Excepted is what overlapping calls left, until the  *)
(* next call that is not disturbed, a mixer that was being probed, and a   *)
(* decoder that was not told that the mixer is gone.                       *)
SoundFollows ==
  AtRest =>
    /\ "asked" \notin mixed /\ asked # Unset => volume = asked
    /\ "volume" \notin mixed /\ MixerInUse =>
         dev.mixer \in {0, volume} /\ (muted /\ box = "triple" => dev.mixer = 0)
    /\ "volume" \notin mixed /\ ~MixerInUse /\ ~adrift /\ dev.volume # Unset =>
         dev.volume = Level(volume)
    /\ "mute" \notin mixed /\ muteAsked =>
         dev.mute = OnOff(muted) /\ (box = "triple" => dev.avs = IF muted THEN 31 ELSE 0)
=============================================================================
