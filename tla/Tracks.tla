------------------------------- MODULE Tracks -------------------------------
(***************************************************************************)
(* The tracks, programs and seeks of libeplayer3: the Manager's tables     *)
(* (manager.cpp), which UpdateTracks fills from the streams of the file    *)
(* (input.cpp), the tracks the play loop takes packets of, the streams     *)
(* Output has its writers set up for (output.cpp), and the seek request    *)
(* that the caller leaves for the play loop.                               *)
(*                                                                         *)
(* One user, who drives a Player as cPlayback does, and the play loop of   *)
(* the file that is open; how that thread is created and waited for is in  *)
(* EPlayer, and both are taken to be as they should be.  A pointer to a    *)
(* Track or a stream is a PID with the number of the file it is of.        *)
(***************************************************************************)
EXTENDS Naturals

CONSTANTS
  Audio,       \* PIDs of audio streams
  Video,       \* PIDs of video streams
  Filtered,    \* the audio PIDs that need a bit stream filter (AAC)
  Late,        \* PIDs of streams that turn up while the file is read
  Programs,    \* sets of PIDs: the programs of the file
  MaxOpens,    \* bound: files opened
  MaxFilters   \* bound: filters made for a track

Pids == Audio \cup Video
Null == [file |-> 0, pid |-> 0]
Pointers == [file : 1 .. MaxOpens, pid : Pids] \cup {Null}
NoTracks == [p \in Pids |-> [known |-> FALSE, hidden |-> FALSE, filter |-> 0]]
NoRequest == [who |-> "none", file |-> 0]
Nothing == [request |-> "none", pid |-> 0, filter |-> 0]

VARIABLES
  file,          \* the number of the file opened last
  opened,        \* has the user opened it and not stopped since?
  avfc,          \* is Input's format context open?
  streams,       \* its streams found so far
  discarded,     \* streams that ffmpeg is not to deliver
  tracks,        \* the Manager's tables; filter is the number of the bsfc
  audioTrack, videoTrack,      \* members of Input
  audioStream, videoStream,    \* members of Output
  seek_rel, seek_abs,          \* seek_avts_rel and _abs: whose request, of which file
  isPlaying, isPaused, isBackWard, abortPlayback,
  user,          \* the step of the call the user is in
  loop,          \* the place of the play loop
  bof,           \* its local of that name
  held,          \* its locals: the request it read; PID and filter of a packet
  reinit_audio,
  asked,         \* history: how long the user's seek has been pending
  late,          \* history: did the user's call meet the end of the file?
  relisted,      \* history: were the tracks updated while a filter was in use?
  untold         \* history: was audioTrack or videoTrack changed and Output not
                 \*   told, or while the loop had a packet of the track before?

table == <<file, opened, avfc, streams, discarded, tracks>>
taken == <<audioTrack, videoTrack, audioStream, videoStream>>
request == <<seek_rel, seek_abs, asked>>
flags == <<isPlaying, isPaused, isBackWard, abortPlayback>>
locals == <<bof, held, reinit_audio>>
ghost == <<late, relisted, untold>>
vars == <<table, taken, request, flags, user, loop, locals, ghost>>

Init ==
  /\ file = 0 /\ opened = FALSE /\ avfc = FALSE
  /\ streams = {} /\ discarded = {} /\ tracks = NoTracks
  /\ audioTrack = Null /\ videoTrack = Null /\ audioStream = Null /\ videoStream = Null
  /\ seek_rel = NoRequest /\ seek_abs = NoRequest /\ asked = "none"
  /\ isPlaying = FALSE /\ isPaused = FALSE /\ isBackWard = FALSE /\ abortPlayback = FALSE
  /\ user = "idle" /\ loop = "none" /\ bof = FALSE /\ held = Nothing /\ reinit_audio = 0
  /\ late = FALSE /\ relisted = FALSE /\ untold = FALSE

-----------------------------------------------------------------------------
(* The Manager.                                                            *)

(* addTrack for each stream: a track that is there already is overwritten, *)
(* and its filter closed for a new one; none is hidden any more.           *)
Added(t, pids) ==
  [p \in Pids |->
     IF p \in pids THEN [known |-> TRUE, hidden |-> FALSE,
                         filter |-> IF p \in Filtered THEN t[p].filter + 1 ELSE 0]
     ELSE t[p]]

GetTrack(t, f, p) == IF t[p].known THEN [file |-> f, pid |-> p] ELSE Null

(* UpdateTracks takes the first track where none is taken. *)
Least(S) == CHOOSE p \in S : \A q \in S : p <= q
Adopt(track, t, f, pids) ==
  IF track = Null /\ pids # {} THEN GetTrack(t, f, Least(pids)) ELSE track

(* selectProgram: the tracks of other programs are hidden and their        *)
(* streams discarded; each that remains is switched to, the last one last. *)
Hidden(t, program) == [p \in Pids |-> [t[p] EXCEPT !.hidden = p \notin program]]
Remaining(t, kind) == {p \in kind : t[p].known /\ ~t[p].hidden}
SwitchTo(pids, f, otherwise) ==
  IF pids = {} THEN otherwise
  ELSE [file |-> f, pid |-> CHOOSE p \in pids : \A q \in pids : q <= p]

-----------------------------------------------------------------------------
(* The user.                                                               *)

Calls(at) == user = at
UserGoes(at) == user' = at

InitTracksKept == <<audioTrack, videoTrack>>
InitTracks == <<Null, Null>>

(* cPlayback::Start.  Player::Open deletes the old tracks, and Input::Init *)
(* takes the streams it finds at once.  With PLAYMODE_TS nothing more is   *)
(* done until SetSpeed; otherwise a program is chosen, if the file has     *)
(* any, or the audio PID that a file is restarted with, and it is played.  *)
Start ==
  /\ Calls("idle") /\ ~opened /\ loop = "none" /\ file < MaxOpens
  /\ file' = file + 1 /\ opened' = TRUE /\ avfc' = TRUE /\ abortPlayback' = FALSE
  /\ streams' = Pids \ Late
  /\ LET new == Added(NoTracks, streams')
         a == Adopt(InitTracks[1], new, file', streams' \cap Audio)
         v == Adopt(InitTracks[2], new, file', streams' \cap Video)
     IN \/ /\ isPlaying' \in BOOLEAN
           /\ tracks' = new /\ discarded' = {} /\ audioTrack' = a /\ videoTrack' = v
        \/ /\ isPlaying' = TRUE
           /\ \E program \in Programs :
                LET t == Hidden(new, program) IN
                  /\ tracks' = t
                  /\ discarded' = {p \in Pids : t[p].known /\ t[p].hidden}
                  /\ audioTrack' = SwitchTo(Remaining(t, Audio), file', a)
                  /\ videoTrack' = SwitchTo(Remaining(t, Video), file', v)
        \/ /\ isPlaying' = TRUE
           /\ tracks' = new /\ discarded' = {} /\ videoTrack' = v
           /\ \E p \in Audio : audioTrack' = GetTrack(new, file', p)
  /\ loop' = IF isPlaying' THEN "loop" ELSE "none"
  /\ audioStream' = audioTrack' /\ videoStream' = videoTrack'
  /\ isPaused' \in {FALSE, isPlaying'} /\ isBackWard' = FALSE
  /\ asked' = "none"
  /\ bof' = FALSE /\ held' = Nothing /\ reinit_audio' = 0
  /\ late' = FALSE /\ relisted' = FALSE /\ untold' = FALSE
  /\ UNCHANGED <<seek_rel, seek_abs, user>>

(* The first SetSpeed with PLAYMODE_TS: Player::Play. *)
Play ==
  /\ Calls("idle") /\ opened /\ avfc /\ ~isPlaying /\ loop = "none"
  /\ isPlaying' = TRUE /\ isPaused' = FALSE /\ isBackWard' = FALSE
  /\ loop' = "loop"
  /\ UNCHANGED <<table, taken, request, abortPlayback, user, locals, ghost>>

(* SetSpeed: pause, go on, go backward. *)
SetSpeed ==
  /\ Calls("idle") /\ isPlaying
  /\ \/ isPaused' = TRUE /\ isBackWard' = FALSE
     \/ isPaused' = FALSE /\ isBackWard' = FALSE
     \/ videoTrack # Null /\ isBackWard' = TRUE /\ UNCHANGED isPaused
  /\ UNCHANGED <<table, taken, request, isPlaying, abortPlayback, user, loop, locals, ghost>>

(* cPlayback::SetAPid: the Manager is asked for the track, Input takes its *)
(* packets from now on, and Output is switched to its stream; of a video   *)
(* track that Output was not told of it still hears nothing.               *)
InWork == loop \in {"filter", "audio", "reinit"}
SetAPid(p) ==
  /\ Calls("idle") /\ opened
  /\ audioTrack' = GetTrack(tracks, file, p)
  /\ untold' = (InWork \/ videoStream # videoTrack)
  /\ UserGoes("switch")
  /\ late' = ~avfc
  /\ UNCHANGED <<table, videoTrack, audioStream, videoStream, request, flags, loop,
                 locals, relisted>>

(* Output::SwitchAudio looks into the stream if it is another one. *)
SwitchAudio ==
  /\ Calls("switch")
  /\ audioStream' = audioTrack
  /\ UserGoes("idle") /\ late' = FALSE
  /\ UNCHANGED <<table, audioTrack, videoTrack, videoStream, request, flags, loop,
                 locals, relisted, untold>>

(* FindAllPids and GetChapters begin UpdateTracks if the file goes on. *)
List ==
  /\ Calls("idle") /\ opened
  /\ \A p \in Pids : tracks[p].filter < MaxFilters
  /\ UserGoes(IF abortPlayback THEN "idle" ELSE "update")
  /\ UNCHANGED <<table, taken, request, flags, loop, locals, ghost>>

UpdateTracks ==
  /\ Calls("update")
  /\ tracks' = Added(tracks, streams)
  /\ audioTrack' = Adopt(audioTrack, tracks', file, streams \cap Audio)
  /\ videoTrack' = Adopt(videoTrack, tracks', file, streams \cap Video)
  /\ untold' = (untold \/ <<audioTrack, videoTrack>>' # <<audioTrack, videoTrack>>)
  /\ relisted' = (relisted \/ held.filter # 0)
  /\ UserGoes("idle") /\ late' = FALSE
  /\ UNCHANGED <<file, opened, avfc, streams, discarded, audioStream, videoStream,
                 request, flags, loop, locals>>

(* GetDuration, for GetPosition: isPlaying and avfc are tested, and then   *)
(* the context is read.                                                    *)
AskDuration ==
  /\ Calls("idle") /\ isPlaying /\ avfc
  /\ UserGoes("duration")
  /\ UNCHANGED <<table, taken, request, flags, loop, locals, ghost>>
GetDuration ==
  /\ Calls("duration")
  /\ UserGoes("idle") /\ late' = FALSE
  /\ UNCHANGED <<table, taken, request, flags, loop, locals, relisted, untold>>

(* Player::Seek: a request of the other kind is withdrawn.  One that the   *)
(* loop has read and is about to take back is lost under it.               *)
Mine == [who |-> "user", file |-> file]
Seek(kind) ==
  /\ Calls("idle") /\ isPlaying
  /\ seek_rel' = IF kind = "rel" THEN Mine ELSE NoRequest
  /\ seek_abs' = IF kind = "abs" THEN Mine ELSE NoRequest
  /\ asked' = IF loop = "seek" /\ held.request = kind THEN "none" ELSE "pending"
  /\ UNCHANGED <<table, taken, flags, user, loop, locals, ghost>>

(* cPlayback::Stop: Player::Stop waits for the thread and has the file     *)
(* closed, if it was playing; Output::Close forgets the streams.           *)
Stop ==
  /\ Calls("idle")
  /\ UserGoes(IF isPlaying THEN "stop" ELSE "close")
  /\ isPlaying' = FALSE /\ isPaused' = FALSE /\ isBackWard' = FALSE
  /\ abortPlayback' = (abortPlayback \/ isPlaying)
  /\ UNCHANGED <<table, taken, request, loop, locals, ghost>>
StopEnd ==
  /\ Calls("stop") \/ Calls("close")
  /\ loop = "none"
  /\ opened' = FALSE
  /\ avfc' = (avfc /\ Calls("close"))
  /\ audioStream' = Null /\ videoStream' = Null
  /\ UserGoes("idle")
  /\ UNCHANGED <<file, streams, discarded, tracks, audioTrack, videoTrack, request,
                 flags, loop, locals, ghost>>

-----------------------------------------------------------------------------
(* The play loop (Input::Play) and the Stop of its thread.                 *)

At(place) == loop = place
Goto(place) == loop' = place

LoopEnds ==
  /\ At("loop") /\ ~isPlaying
  /\ Goto("end")
  /\ UNCHANGED <<table, taken, request, flags, user, locals, ghost>>

(* What is to be done before the next packet is read: a request is carried *)
(* out, a relative one first; playing backward, a jump every 300 ms, until *)
(* the beginning is reached; or nothing.                                   *)
WantedUnlessBackward ==
  CASE seek_rel # NoRequest -> "rel"
    [] seek_rel = NoRequest /\ seek_abs # NoRequest /\ ~isBackWard -> "abs"
    [] OTHER -> "none"
Wanted == CASE seek_rel # NoRequest -> "rel"
            [] seek_rel = NoRequest /\ seek_abs # NoRequest -> "abs"
            [] OTHER -> "none"
Look ==
  /\ At("loop") /\ isPlaying /\ ~isPaused
  /\ \/ /\ Wanted # "none"
        /\ held' = [held EXCEPT !.request = Wanted]
        /\ Goto("seek") /\ UNCHANGED bof
     \/ /\ Wanted = "none" /\ isBackWard
        /\ Goto(IF bof THEN "loop" ELSE "jump") /\ UNCHANGED <<held, bof>>
     \/ /\ Wanted = "none"
        /\ Goto("read") /\ bof' = FALSE /\ UNCHANGED held
  /\ UNCHANGED <<table, taken, request, flags, user, reinit_audio, ghost>>

Pending == asked \in {"pending", "passed"}
JumpBack ==
  /\ At("jump")
  /\ seek_rel' = [who |-> "thread", file |-> file]
  /\ asked' = IF Pending /\ seek_rel.who = "user" THEN "none" ELSE asked
  /\ Goto("loop")
  /\ UNCHANGED <<table, taken, seek_abs, flags, user, locals, ghost>>

(* The request is taken back.  Whether there is a place to go to (a bit    *)
(* rate, a time stamp of the decoder), and whether ffmpeg goes there, is   *)
(* not ours to say.                                                        *)
SeekFile ==
  /\ At("seek")
  /\ IF held.request = "rel" THEN seek_rel' = NoRequest /\ UNCHANGED seek_abs
                             ELSE seek_abs' = NoRequest /\ UNCHANGED seek_rel
  /\ asked' = IF Pending /\ "user" \notin {seek_rel'.who, seek_abs'.who}
                THEN "none" ELSE asked
  /\ bof' \in {bof, isBackWard}
  /\ held' = Nothing
  /\ Goto("read")
  /\ UNCHANGED <<table, taken, flags, user, reinit_audio, ghost>>

(* av_read_frame: a packet, or nothing yet, or the end; it may find new    *)
(* streams.                                                                *)
ReadFrame ==
  /\ At("read")
  /\ streams' \in {streams, Pids}
  /\ \/ \E p \in streams \ discarded : held' = [held EXCEPT !.pid = p] /\ Goto("packet")
     \/ UNCHANGED held /\ loop' \in {"loop", "end"}
  /\ asked' = CASE asked = "pending" -> "passed" [] asked = "passed" -> "overdue"
                [] OTHER -> asked
  /\ UNCHANGED <<file, opened, avfc, discarded, tracks, taken, seek_rel, seek_abs,
                 flags, user, bof, reinit_audio, ghost>>

(* Whose packet is it?  Video is written; audio may go through a filter;   *)
(* others are dropped.                                                     *)
Packet ==
  /\ At("packet")
  /\ IF audioTrack.pid = held.pid
       THEN /\ held' = [held EXCEPT !.filter = tracks[held.pid].filter]
            /\ Goto(IF held'.filter # 0 THEN "filter" ELSE "audio")
       ELSE held' = Nothing /\ Goto("loop")
  /\ UNCHANGED <<table, taken, request, flags, user, bof, reinit_audio, ghost>>

(* The first packet that a filter has converted is counted, and the next,  *)
(* which ends the count of one.                                            *)
Filter ==
  /\ At("filter")
  /\ reinit_audio' \in {reinit_audio, IF reinit_audio < 2 THEN reinit_audio + 1 ELSE 2}
  /\ held' = [held EXCEPT !.filter = 0]
  /\ relisted' = FALSE
  /\ Goto("audio")
  /\ UNCHANGED <<table, taken, request, flags, user, bof, late, untold>>

(* The AAC header is programmed again by a switch to no stream and back;   *)
(* and the packet is written.                                              *)
AudioPacket ==
  /\ At("audio")
  /\ IF reinit_audio = 1 THEN audioStream' = Null /\ Goto("reinit") /\ UNCHANGED held
     ELSE UNCHANGED audioStream /\ Goto("loop") /\ held' = Nothing
  /\ UNCHANGED <<table, audioTrack, videoTrack, videoStream, request, flags, user, bof,
                 reinit_audio, ghost>>

SwitchedBackNever == audioStream
SwitchedBack == [file |-> file, pid |-> held.pid]
Reinit ==
  /\ At("reinit")
  /\ audioStream' = SwitchedBack
  /\ held' = Nothing /\ Goto("loop")
  /\ UNCHANGED <<table, audioTrack, videoTrack, videoStream, request, flags, user, bof,
                 reinit_audio, ghost>>

(* Input::Play ends, and the thread calls Player::Stop. *)
PlayEnds ==
  /\ At("end")
  /\ abortPlayback' = TRUE
  /\ held' = Nothing
  /\ Goto("close")
  /\ UNCHANGED <<table, taken, request, isPlaying, isPaused, isBackWard, user, bof,
                 reinit_audio, ghost>>
ThreadStops ==
  /\ At("close")
  /\ avfc' = FALSE
  /\ isPlaying' = FALSE /\ isPaused' = FALSE /\ isBackWard' = FALSE
  /\ late' = (late \/ user # "idle")
  /\ Goto("none")
  /\ UNCHANGED <<file, opened, streams, discarded, tracks, taken, request,
                 abortPlayback, user, locals, relisted, untold>>

-----------------------------------------------------------------------------
UserCall ==
  \/ Start \/ Play \/ SetSpeed \/ List \/ AskDuration \/ Stop
  \/ \E p \in Audio : SetAPid(p)
  \/ \E kind \in {"rel", "abs"} : Seek(kind)
UserGoesOn == SwitchAudio \/ UpdateTracks \/ GetDuration \/ StopEnd
PlayLoop ==
  \/ LoopEnds \/ Look \/ JumpBack \/ SeekFile \/ ReadFrame \/ Packet \/ Filter
  \/ AudioPacket \/ Reinit \/ PlayEnds \/ ThreadStops

Next == UserCall \/ UserGoesOn \/ PlayLoop

Spec == Init /\ [][Next]_vars

-----------------------------------------------------------------------------
(* The shape of the state; while the loop runs the file is open, and it    *)
(* reads only what the file has.                                           *)
TypeOK ==
  /\ file \in 0 .. MaxOpens /\ streams \subseteq Pids /\ discarded \subseteq streams
  /\ {opened, avfc, isPlaying, isPaused, isBackWard, abortPlayback, bof, late, relisted,
      untold} \subseteq BOOLEAN
  /\ tracks \in [Pids -> [known : BOOLEAN, hidden : BOOLEAN, filter : 0 .. MaxFilters]]
  /\ {audioTrack, videoTrack, audioStream, videoStream} \subseteq Pointers
  /\ {seek_rel, seek_abs} \subseteq [who : {"none", "user", "thread"}, file : 0 .. MaxOpens]
  /\ user \in {"idle", "switch", "update", "duration", "stop", "close"}
  /\ held \in [request : {"none", "rel", "abs"}, pid : Pids \cup {0}, filter : 0 .. MaxFilters]
  /\ reinit_audio \in 0 .. 2
  /\ asked \in {"none", "pending", "passed", "overdue"}
  /\ loop # "none" => avfc /\ file > 0
  /\ held.pid # 0 => held.pid \in streams

(* Nothing is used that is gone.  The play loop never looks at a track of  *)
(* an earlier file (Init forgets them, before the loop can run), and its   *)
(* filter is closed under it only by an update of the tracks.  The user's  *)
(* calls find streams and context as they left them, unless the file comes *)
(* to its end during the call, or, for SetAPid, which looks at no flag,    *)
(* has come to its end.                                                    *)
Stale(pointer) == pointer # Null /\ pointer.file # file
NothingStale ==
  /\ At("packet") => ~Stale(videoTrack) /\ ~Stale(audioTrack)
  /\ At("filter") => held.filter = tracks[held.pid].filter \/ relisted
  /\ Calls("update") \/ Calls("duration") => avfc \/ late
  /\ Calls("switch") /\ audioTrack \notin {audioStream, Null} => avfc \/ late

(* The decoders are set up for the streams whose packets are written to    *)
(* them, and ffmpeg delivers these, whatever switches, updates and the new *)
(* AAC header come between.  The two cases of "untold" are excepted: the   *)
(* loop switches back to the track of its packet while the user switches   *)
(* to another, and UpdateTracks takes a first track without a word to      *)
(* Output.                                                                 *)
OutputFollowsTrack ==
  isPlaying /\ user # "switch" /\ ~At("reinit") /\ ~untold =>
    audioStream = audioTrack /\ videoStream = videoTrack

(* A seek that the user asks for is carried out before the second packet   *)
(* from then on is read, also backward, where the loop makes jumps of its  *)
(* own; except one that the loop takes back or overwrites in the moment it *)
(* comes.                                                                  *)
SeekIsServed == asked # "overdue"
=============================================================================
