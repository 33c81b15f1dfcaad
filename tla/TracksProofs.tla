---------------------------- MODULE TracksProofs ----------------------------
(***************************************************************************)
(* TLAPS proofs about Tracks, for any streams, programs, numbers of files  *)
(* and of filters.  The parts of the invariant are about different         *)
(* variables: what is used exists (Present), what Output is set up for is  *)
(* what the play loop delivers (Following), and whose a seek request is    *)
(* and where it has got to (Requested, Served).                            *)
(***************************************************************************)
EXTENDS MCPlayer, WellFoundedInduction, FiniteSetTheorems, TLAPS

(* A track is of the file now open. *)
OfFile(track) == track = T!Null \/ track = [file |-> file, pid |-> track.pid]

(* Nobody uses what is gone: a filter that is in use is the track's unless *)
(* the tracks were updated under it, and the user's calls have the context *)
(* unless the file came to its end.                                        *)
Present ==
  /\ OfFile(audioTrack) /\ OfFile(videoTrack)
  /\ T!At("filter") =>
       held.filter # 0 /\ (relisted \/ held.filter = tracks[held.pid].filter)
  /\ opened /\ ~tAbort => context
  /\ T!At("close") => tAbort
  /\ user \in {"switch", "update", "duration"} => context \/ late

(* Output has the streams of the tracks, from Start to the end of Stop,    *)
(* except while a switch is under way; and a packet in work is of the      *)
(* track.                                                                  *)
Following ==
  /\ tPlaying => opened
  /\ user \in {"stop", "close"} => ~tPlaying
  /\ opened /\ ~untold => videoStream = videoTrack
  /\ opened /\ ~untold /\ user # "switch" /\ ~T!At("reinit") => audioStream = audioTrack
  /\ T!InWork /\ ~untold => audioTrack = [file |-> file, pid |-> held.pid]
  /\ streams \subseteq T!Pids /\ (T!At("packet") => held.pid # 0)

(* A request is the user's or, after a jump, the loop's; the loop reads a  *)
(* packet only when it has seen to its own jump, so that a user's request  *)
(* that one packet has passed is the one that comes next.                  *)
Requested ==
  /\ seek_rel.who \in {"none", "user", "thread"} /\ seek_abs.who \in {"none", "user"}
  /\ seek_rel.who = "none" <=> seek_rel = T!NoRequest
  /\ seek_abs.who = "none" <=> seek_abs = T!NoRequest
  /\ ~(seek_rel.who = "user" /\ seek_abs.who = "user")
  /\ seek_rel.who = "thread" =>
       loop \in {"loop", "none", "end", "close"} \/ (T!At("seek") /\ held.request = "rel")
  /\ T!At("seek") => held.request \in {"rel", "abs"}
Served ==
  /\ asked \in {"none", "pending", "passed"}
  /\ T!Pending => seek_rel.who = "user" \/ seek_abs.who = "user"
  /\ asked = "passed" =>
       /\ loop \notin {"read", "jump"} /\ seek_rel.who # "thread"
       /\ T!At("seek") => \/ held.request = "rel" /\ seek_rel.who = "user"
                          \/ held.request = "abs" /\ seek_abs.who = "user"

(* The locals of the loop are a record of three fields. *)
Shape == held = [request |-> held.request, pid |-> held.pid, filter |-> held.filter]

IInv == Shape /\ Present /\ Following /\ Requested /\ Served

(* The loop's locals keep their three fields. *)
LEMMA ShapeStep ==
  ASSUME Shape, [T!Next]_T!vars
  PROVE  Shape'
<1> USE DEF Shape, T!Nothing
<1>1. CASE UNCHANGED held
  BY <1>1
<1>2. CASE T!Start \/ T!Look \/ T!SeekFile \/ T!ReadFrame
  BY <1>2 DEF T!Start, T!Look, T!SeekFile, T!ReadFrame
<1>3. CASE T!Packet \/ T!Filter \/ T!AudioPacket \/ T!Reinit \/ T!PlayEnds
  BY <1>3 DEF T!Packet, T!Filter, T!AudioPacket, T!Reinit, T!PlayEnds
<1> QED
  BY <1>1, <1>2, <1>3
     DEF T!Next, T!UserCall, T!UserGoesOn, T!PlayLoop, T!Play, T!SetSpeed,
         T!List, T!AskDuration, T!Stop, T!SwitchAudio, T!UpdateTracks,
         T!GetDuration, T!StopEnd, T!LoopEnds, T!JumpBack, T!ThreadStops,
         T!SetAPid, T!Seek, T!vars, T!locals

(* What is used exists: most of all when the file is opened anew, when the *)
(* tracks are updated, and when the thread closes the file.                *)
LEMMA PresentStep ==
  ASSUME Shape, Present, [T!Next]_T!vars
  PROVE  Present'
<1> USE DEF Shape, Present, OfFile, T!Null, T!Nothing, T!table, T!taken,
            T!request, T!flags, T!locals, T!ghost, T!Calls, T!UserGoes, T!At,
            T!Goto
<1>1. CASE T!Start
  BY <1>1 DEF T!Start, T!GetTrack, T!Adopt, T!SwitchTo, T!InitTracks
<1>2. CASE T!Play \/ T!SetSpeed \/ T!List \/ T!AskDuration
  BY <1>2 DEF T!Play, T!SetSpeed, T!List, T!AskDuration
<1>3. ASSUME NEW p \in Audio, T!SetAPid(p) PROVE Present'
  BY <1>3 DEF T!SetAPid, T!GetTrack
<1>4. ASSUME NEW kind \in {"rel", "abs"}, T!Seek(kind) PROVE Present'
  BY <1>4 DEF T!Seek
<1>5. CASE T!SwitchAudio \/ T!GetDuration
  BY <1>5 DEF T!SwitchAudio, T!GetDuration
<1>6. CASE T!UpdateTracks
  BY <1>6 DEF T!UpdateTracks, T!Adopt, T!GetTrack
<1>7. CASE T!Stop
  BY <1>7 DEF T!Stop
<1>8. CASE T!StopEnd
  BY <1>8 DEF T!StopEnd
<1>9. CASE T!LoopEnds \/ T!Look \/ T!JumpBack \/ T!SeekFile
  BY <1>9 DEF T!LoopEnds, T!Look, T!JumpBack, T!SeekFile
<1>10. CASE T!ReadFrame
  BY <1>10 DEF T!ReadFrame
<1>11. CASE T!Packet
  BY <1>11 DEF T!Packet
<1>12. CASE T!Filter
  BY <1>12 DEF T!Filter
<1>13. CASE T!AudioPacket
  BY <1>13 DEF T!AudioPacket
<1>14. CASE T!Reinit
  BY <1>14 DEF T!Reinit, T!SwitchedBack
<1>15. CASE T!PlayEnds \/ T!ThreadStops
  BY <1>15 DEF T!PlayEnds, T!ThreadStops
<1>16. CASE UNCHANGED T!vars
  BY <1>16 DEF T!vars
<1> QED
  BY <1>1, <1>2, <1>3, <1>4, <1>5, <1>6, <1>7, <1>8, <1>9, <1>10, <1>11, <1>12,
     <1>13, <1>14, <1>15, <1>16
     DEF T!Next, T!UserCall, T!UserGoesOn, T!PlayLoop

(* Output has the streams of the tracks: Start sets both, SwitchAudio and  *)
(* the new AAC header one of them, and what else changes a track says so   *)
(* in "untold".                                                            *)
LEMMA FollowingStep ==
  ASSUME Shape, Present, Following, 0 \notin T!Pids, [T!Next]_T!vars
  PROVE  Following'
<1> USE DEF Shape, Present, OfFile, Following, T!InWork, T!Null, T!Nothing,
            T!table, T!taken, T!request, T!flags, T!locals, T!ghost, T!Calls,
            T!UserGoes, T!At, T!Goto
<1>1. CASE T!Start
  BY <1>1 DEF T!Start, T!GetTrack, T!Adopt, T!SwitchTo, T!InitTracks
<1>2. CASE T!Play \/ T!SetSpeed \/ T!List \/ T!AskDuration
  BY <1>2 DEF T!Play, T!SetSpeed, T!List, T!AskDuration
<1>3. ASSUME NEW p \in Audio, T!SetAPid(p) PROVE Following'
  BY <1>3 DEF T!SetAPid, T!GetTrack
<1>4. ASSUME NEW kind \in {"rel", "abs"}, T!Seek(kind) PROVE Following'
  BY <1>4 DEF T!Seek
<1>5. CASE T!SwitchAudio \/ T!GetDuration
  BY <1>5 DEF T!SwitchAudio, T!GetDuration
<1>6. CASE T!UpdateTracks
  BY <1>6 DEF T!UpdateTracks, T!Adopt, T!GetTrack
<1>7. CASE T!Stop
  BY <1>7 DEF T!Stop
<1>8. CASE T!StopEnd
  BY <1>8 DEF T!StopEnd
<1>9. CASE T!LoopEnds \/ T!Look \/ T!JumpBack \/ T!SeekFile
  BY <1>9 DEF T!LoopEnds, T!Look, T!JumpBack, T!SeekFile
<1>10. CASE T!ReadFrame
  BY <1>10 DEF T!ReadFrame
<1>11. CASE T!Packet
  BY <1>11 DEF T!Packet
<1>12. CASE T!Filter
  BY <1>12 DEF T!Filter
<1>13. CASE T!AudioPacket
  BY <1>13 DEF T!AudioPacket
<1>14. CASE T!Reinit
  BY <1>14 DEF T!Reinit, T!SwitchedBack
<1>15. CASE T!PlayEnds \/ T!ThreadStops
  BY <1>15 DEF T!PlayEnds, T!ThreadStops
<1>16. CASE UNCHANGED T!vars
  BY <1>16 DEF T!vars
<1> QED
  BY <1>1, <1>2, <1>3, <1>4, <1>5, <1>6, <1>7, <1>8, <1>9, <1>10, <1>11, <1>12,
     <1>13, <1>14, <1>15, <1>16
     DEF T!Next, T!UserCall, T!UserGoesOn, T!PlayLoop

(* Whose a request is. *)
LEMMA RequestedStep ==
  ASSUME Shape, Requested, [T!Next]_T!vars
  PROVE  Requested'
<1> USE DEF Shape, Requested, T!NoRequest, T!Nothing, T!request, T!locals, T!At,
            T!Goto
<1>1. CASE UNCHANGED <<seek_rel, seek_abs, asked, held, loop>>
  BY <1>1
<1>2. CASE T!Start
  BY <1>2 DEF T!Start
<1>3. CASE T!Play \/ T!LoopEnds \/ T!PlayEnds \/ T!ThreadStops
  BY <1>3 DEF T!Play, T!LoopEnds, T!PlayEnds, T!ThreadStops
<1>4. ASSUME NEW kind \in {"rel", "abs"}, T!Seek(kind) PROVE Requested'
  BY <1>4 DEF T!Seek, T!Mine
<1>5. CASE T!Look
  BY <1>5 DEF T!Look, T!Wanted
<1>6. CASE T!JumpBack
  BY <1>6 DEF T!JumpBack, T!Pending
<1>7. CASE T!SeekFile
  BY <1>7 DEF T!SeekFile, T!Pending
<1>8. CASE T!ReadFrame
  BY <1>8 DEF T!ReadFrame
<1>9. CASE T!Packet \/ T!Filter \/ T!AudioPacket \/ T!Reinit
  BY <1>9 DEF T!Packet, T!Filter, T!AudioPacket, T!Reinit
<1> QED
  BY <1>1, <1>2, <1>3, <1>4, <1>5, <1>6, <1>7, <1>8, <1>9
     DEF T!Next, T!UserCall, T!UserGoesOn, T!PlayLoop, T!SetSpeed, T!List,
         T!AskDuration, T!Stop, T!StopEnd, T!SwitchAudio, T!UpdateTracks,
         T!GetDuration, T!SetAPid, T!vars

(* Where the user's request has got to. *)
LEMMA ServedStep ==
  ASSUME Shape, Requested, Served, [T!Next]_T!vars
  PROVE  Served'
<1> USE DEF Shape, Requested, Served, T!Pending, T!NoRequest, T!Nothing,
            T!request, T!locals, T!At, T!Goto
<1>1. CASE UNCHANGED <<seek_rel, seek_abs, asked, held, loop>>
  BY <1>1
<1>2. CASE T!Start
  BY <1>2 DEF T!Start
<1>3. CASE T!Play \/ T!LoopEnds \/ T!PlayEnds \/ T!ThreadStops
  BY <1>3 DEF T!Play, T!LoopEnds, T!PlayEnds, T!ThreadStops
<1>4. ASSUME NEW kind \in {"rel", "abs"}, T!Seek(kind) PROVE Served'
  BY <1>4 DEF T!Seek, T!Mine
<1>5. CASE T!Look
  BY <1>5 DEF T!Look, T!Wanted
<1>6. CASE T!JumpBack
  BY <1>6 DEF T!JumpBack, T!Pending
<1>7. CASE T!SeekFile
  BY <1>7 DEF T!SeekFile, T!Pending
<1>8. CASE T!ReadFrame
  BY <1>8 DEF T!ReadFrame
<1>9. CASE T!Packet \/ T!Filter \/ T!AudioPacket \/ T!Reinit
  BY <1>9 DEF T!Packet, T!Filter, T!AudioPacket, T!Reinit
<1> QED
  BY <1>1, <1>2, <1>3, <1>4, <1>5, <1>6, <1>7, <1>8, <1>9
     DEF T!Next, T!UserCall, T!UserGoesOn, T!PlayLoop, T!SetSpeed, T!List,
         T!AskDuration, T!Stop, T!StopEnd, T!SwitchAudio, T!UpdateTracks,
         T!GetDuration, T!SetAPid, T!vars

(* The invariant holds at first, and from then on. *)
LEMMA InitIInv == T!Init => IInv
BY DEF T!Init, IInv, Shape, Present, OfFile, Following, Requested, Served,
       T!Pending, T!At, T!InWork, T!Null, T!Nothing, T!NoRequest

LEMMA Invariance ==
  ASSUME 0 \notin T!Pids
  PROVE  T!Spec => []IInv
<1>1. IInv /\ [T!Next]_T!vars => IInv'
  BY ShapeStep, PresentStep, FollowingStep, RequestedStep, ServedStep DEF IInv
<1> QED
  BY InitIInv, <1>1, PTL DEF T!Spec

-----------------------------------------------------------------------------
(* The play loop and the user's calls use no track, filter or context that *)
(* is gone (Input::Play, UpdateTracks, GetDuration, Output::SwitchAudio):  *)
(* for any streams and programs, late streams, numbers of files and of     *)
(* filters.                                                                *)
THEOREM NothingStaleIsUsed == T!Spec => []T!NothingStale
<1>1. Shape /\ Present /\ [T!Next]_T!vars => (Shape /\ Present)'
  BY ShapeStep, PresentStep
<1>2. T!Init => Shape /\ Present
  BY InitIInv DEF IInv
<1>3. Present => T!NothingStale
  BY DEF Present, OfFile, T!NothingStale, T!Stale, T!At, T!Calls, T!Null
<1> QED
  BY <1>1, <1>2, <1>3, PTL DEF T!Spec

(* What the play loop takes packets of is what Output has its writers set  *)
(* up for (Input::Play, SwitchAudio, UpdateTracks, Output::Open and Stop), *)
(* also after the AAC header is programmed anew.  No stream has the PID 0  *)
(* (input.cpp:553 to 564).                                                 *)
THEOREM OutputFollows ==
  ASSUME 0 \notin T!Pids
  PROVE  T!Spec => []T!OutputFollowsTrack
<1>1. IInv => T!OutputFollowsTrack
  BY DEF IInv, Following, T!OutputFollowsTrack, T!At
<1> QED
  BY <1>1, Invariance, PTL

(* The run's invariant: so it is with the other views of the player        *)
(* beside, which leave the variables of Tracks alone.                      *)
THEOREM TracksAreFollowed ==
  ASSUME 0 \notin T!Pids
  PROVE  MCSpec => []TracksFollow
<1>1. MCInit => IInv
  BY InitIInv DEF MCInit
<1>2. IInv /\ [MCNext]_<<view, vars, trackvars, writervars>> => IInv'
  <2> SUFFICES ASSUME IInv, [MCNext]_<<view, vars, trackvars, writervars>> PROVE IInv'
    OBVIOUS
  <2>1. [T!Next]_T!vars
    BY DEF MCNext, trackvars, WritersRest, T!vars, T!table, T!taken, T!request,
           T!flags, T!locals, T!ghost
  <2> QED
    BY <2>1, ShapeStep, PresentStep, FollowingStep, RequestedStep, ServedStep
       DEF IInv
<1>3. IInv => TracksFollow
  BY DEF IInv, Present, Following, OfFile, TracksFollow, T!OutputFollowsTrack,
         T!NothingStale, T!Stale, T!At, T!Calls, T!Null
<1> QED
  BY <1>1, <1>2, <1>3, PTL DEF MCSpec

(* A seek of the user is carried out before the second packet is read,     *)
(* also in reverse play, whose jumps use the same variable (Player::Seek,  *)
(* Input::Seek, Input::Play).                                              *)
THEOREM SeeksAreServed == T!Spec => []T!SeekIsServed
<1>1. Shape /\ Requested /\ Served /\ [T!Next]_T!vars => (Shape /\ Requested /\ Served)'
  BY ShapeStep, RequestedStep, ServedStep
<1>2. T!Init => Shape /\ Requested /\ Served
  BY InitIInv DEF IInv
<1>3. Served => T!SeekIsServed
  BY DEF Served, T!SeekIsServed
<1> QED
  BY <1>1, <1>2, <1>3, PTL DEF T!Spec
-----------------------------------------------------------------------------
(* PIDs are positive, there are finitely many streams, and a file and a    *)
(* filter can be opened.                                                   *)
Assumed ==
  /\ T!Pids \subseteq Nat \ {0} /\ IsFiniteSet(T!Pids)
  /\ MaxOpens \in Nat /\ MaxFilters \in Nat /\ MaxFilters > 0

(* The parts of TypeOK, made inductive. *)
Switches ==
  {opened, context, tPlaying, tPaused, tBackWard, tAbort, bof, late, relisted,
   untold} \subseteq BOOLEAN
Opened ==
  /\ file \in 0 .. MaxOpens
  /\ user \in {"idle", "switch", "update", "duration", "stop", "close"}
  /\ asked \in {"none", "pending", "passed", "overdue"}
  /\ {seek_rel, seek_abs} \subseteq [who : {"none", "user", "thread"}, file : 0 .. MaxOpens]
  /\ loop # "none" => context /\ file > 0
  /\ opened \/ user \in {"switch", "update"} => file > 0
Tables ==
  /\ streams \subseteq T!Pids /\ discarded \subseteq streams
  /\ tracks \in [T!Pids -> [known : BOOLEAN, hidden : BOOLEAN, filter : 0 .. MaxFilters]]
  /\ T!Calls("update") => \A p \in T!Pids : tracks[p].filter < MaxFilters
Held ==
  /\ held \in [request : {"none", "rel", "abs"}, pid : T!Pids \cup {0},
                filter : 0 .. MaxFilters]
  /\ reinit_audio \in 0 .. 2
  /\ held.pid # 0 => held.pid \in streams
  /\ T!InWork \/ T!At("packet") => held.pid # 0
Taken ==
  /\ audioTrack \in T!Pointers /\ videoTrack \in T!Pointers
  /\ audioStream \in T!Pointers /\ videoStream \in T!Pointers

(* The first and the last of some PIDs. *)
LEMMA LeastExists ==
  ASSUME NEW S \in SUBSET Nat, S # {}
  PROVE  \E p \in S : \A q \in S : p <= q
<1>1. \E x \in S : \A y \in S : ~(<<y, x>> \in OpToRel(<, Nat))
  BY NatLessThanWellFounded, WFMin
<1>2. \E x \in S : \A y \in S : ~(y < x)
  BY <1>1 DEF OpToRel
<1> QED
  BY <1>2

(* Of finitely many: by a smallest subset that has none. *)
LEMMA GreatestExists ==
  ASSUME NEW S \in SUBSET Nat, S # {}, IsFiniteSet(S)
  PROVE  \E p \in S : \A q \in S : q <= p
<1> DEFINE HasMax(U) == \E p \in U : \A q \in U : q <= p
           Bad == {n \in Nat : \E U \in SUBSET S :
                                 U # {} /\ ~HasMax(U) /\ Cardinality(U) = n}
<1>1. Cardinality(S) \in Nat
  BY FS_CardinalityType
<1>2. SUFFICES ASSUME ~HasMax(S) PROVE FALSE
  OBVIOUS
<1>3. Cardinality(S) \in Bad
  BY <1>1, <1>2
<1>4. PICK n \in Bad : \A m \in Bad : n <= m
  BY <1>3, LeastExists
<1>5. PICK U \in SUBSET S : U # {} /\ ~HasMax(U) /\ Cardinality(U) = n
  BY <1>4
<1>6. PICK x \in U : TRUE
  BY <1>5
<1>7. Cardinality(U \ {x}) = n - 1 /\ n - 1 \in Nat
  <2>1. IsFiniteSet(U) /\ Cardinality(U) \in Nat
    BY <1>5, FS_Subset
  <2>2. IsFiniteSet(U \ {x}) /\ Cardinality(U \ {x}) = Cardinality(U) - 1
    BY <1>6, <2>1, FS_RemoveElement
  <2>3. Cardinality(U \ {x}) \in Nat
    BY <2>2, FS_CardinalityType
  <2> QED
    BY <1>5, <2>1, <2>2, <2>3
<1>8. U \ {x} = {} \/ HasMax(U \ {x})
  <2>1. n - 1 \notin Bad
    BY <1>4, <1>7
  <2> QED
    BY <1>7, <2>1
<1>9. CASE U \ {x} = {}
  BY <1>5, <1>6, <1>9
<1>10. CASE HasMax(U \ {x})
  <2>1. PICK p \in U \ {x} : \A q \in U \ {x} : q <= p
    BY <1>10
  <2>2. CASE p <= x
    <3>1. \A q \in U : q <= x
      BY <2>1, <2>2
    <3> QED
      BY <1>5, <1>6, <3>1
  <2>3. CASE ~(p <= x)
    <3>1. \A q \in U : q <= p
      BY <1>6, <2>1, <2>3
    <3> QED
      BY <1>5, <2>1, <3>1
  <2> QED
    BY <2>2, <2>3
<1> QED
  BY <1>8, <1>9, <1>10

(* What UpdateTracks and selectProgram take is a track of the file. *)
LEMMA AdoptType ==
  ASSUME Assumed, NEW track \in T!Pointers, NEW t, NEW f \in 1 .. MaxOpens, NEW pids \in SUBSET T!Pids
  PROVE  T!Adopt(track, t, f, pids) \in T!Pointers
<1>1. CASE pids = {}
  BY <1>1 DEF T!Adopt
<1>2. CASE pids # {}
  <2>1. \E p \in pids : \A q \in pids : p <= q
    BY <1>2, LeastExists DEF Assumed
  <2>2. T!Least(pids) \in pids
    BY <2>1 DEF T!Least
  <2> QED
    BY <2>2 DEF T!Adopt, T!GetTrack, T!Pointers
<1> QED
  BY <1>1, <1>2

LEMMA SwitchToType ==
  ASSUME Assumed, NEW f \in 1 .. MaxOpens, NEW pids \in SUBSET T!Pids, NEW track \in T!Pointers
  PROVE  T!SwitchTo(pids, f, track) \in T!Pointers
<1>1. CASE pids = {}
  BY <1>1 DEF T!SwitchTo
<1>2. CASE pids # {}
  <2>1. \E p \in pids : \A q \in pids : q <= p
    <3>1. IsFiniteSet(pids) /\ pids \in SUBSET Nat
      BY FS_Subset DEF Assumed
    <3> QED
      BY <1>2, <3>1, GreatestExists
  <2>2. (CHOOSE p \in pids : \A q \in pids : q <= p) \in pids
    BY <2>1
  <2> QED
    BY <1>2, <2>2 DEF T!SwitchTo, T!Pointers
<1> QED
  BY <1>1, <1>2


(* One lemma for each part. *)
LEMMA SwitchesStep ==
  ASSUME Switches, [T!Next]_T!vars
  PROVE  Switches'
<1> USE DEF Switches
<1>1. CASE UNCHANGED <<opened, context, T!flags, bof, late, relisted, untold>>
  BY <1>1 DEF T!flags
<1>2. CASE T!Start \/ T!Play \/ T!SetSpeed \/ T!Stop
  BY <1>2 DEF T!Start, T!Play, T!SetSpeed, T!Stop, T!table, T!flags, T!locals,
              T!ghost
<1>3. ASSUME NEW p \in Audio, T!SetAPid(p) PROVE Switches'
  BY <1>3 DEF T!SetAPid, T!table, T!flags, T!locals
<1>4. CASE T!SwitchAudio \/ T!UpdateTracks \/ T!GetDuration \/ T!StopEnd
  BY <1>4 DEF T!SwitchAudio, T!UpdateTracks, T!GetDuration, T!StopEnd, T!table,
              T!flags, T!locals, T!ghost
<1>5. CASE T!Look \/ T!SeekFile \/ T!Filter \/ T!PlayEnds \/ T!ThreadStops
  BY <1>5 DEF T!Look, T!SeekFile, T!Filter, T!PlayEnds, T!ThreadStops, T!table,
              T!flags, T!locals, T!ghost
<1> QED
  BY <1>1, <1>2, <1>3, <1>4, <1>5
     DEF T!Next, T!UserCall, T!UserGoesOn, T!PlayLoop, T!List, T!AskDuration,
         T!Seek, T!LoopEnds, T!JumpBack, T!ReadFrame, T!Packet, T!AudioPacket,
         T!Reinit, T!vars, T!table, T!locals, T!ghost

LEMMA OpenedStep ==
  ASSUME Assumed, Opened, [T!Next]_T!vars
  PROVE  Opened'
<1> USE DEF Assumed, Opened, T!NoRequest, T!table, T!request, T!Calls,
            T!UserGoes, T!At, T!Goto
<1>1. CASE UNCHANGED <<file, opened, context, T!request, user, loop>>
  BY <1>1
<1>2. CASE T!Start
  <2>1. /\ file' = file + 1 /\ file < MaxOpens /\ context' /\ asked' = "none"
        /\ UNCHANGED <<seek_rel, seek_abs, user>>
    BY <1>2 DEF T!Start
  <2> QED
    BY <2>1
<1>3. CASE T!Play
  BY <1>3 DEF T!Play
<1>4. CASE T!List \/ T!AskDuration \/ T!Stop \/ T!SwitchAudio \/ T!UpdateTracks \/ T!GetDuration
  BY <1>4 DEF T!List, T!AskDuration, T!Stop, T!SwitchAudio, T!UpdateTracks,
              T!GetDuration
<1>5. CASE T!StopEnd
  BY <1>5 DEF T!StopEnd
<1>6. ASSUME NEW p \in Audio, T!SetAPid(p) PROVE Opened'
  BY <1>6 DEF T!SetAPid
<1>7. ASSUME NEW kind \in {"rel", "abs"}, T!Seek(kind) PROVE Opened'
  BY <1>7 DEF T!Seek, T!Mine
<1>8. CASE T!LoopEnds \/ T!Look \/ T!Packet \/ T!Filter \/ T!AudioPacket \/ T!Reinit \/ T!PlayEnds
  BY <1>8 DEF T!LoopEnds, T!Look, T!Packet, T!Filter, T!AudioPacket, T!Reinit,
              T!PlayEnds
<1>9. CASE T!JumpBack \/ T!SeekFile
  BY <1>9 DEF T!JumpBack, T!SeekFile, T!Pending
<1>10. CASE T!ReadFrame \/ T!ThreadStops
  BY <1>10 DEF T!ReadFrame, T!ThreadStops
<1> QED
  BY <1>1, <1>2, <1>3, <1>4, <1>5, <1>6, <1>7, <1>8, <1>9, <1>10
     DEF T!Next, T!UserCall, T!UserGoesOn, T!PlayLoop, T!SetSpeed, T!vars

LEMMA TablesStep ==
  ASSUME Assumed, Tables, [T!Next]_T!vars
  PROVE  Tables'
<1> USE DEF Assumed, Tables, T!table, T!Calls, T!UserGoes
<1>1. CASE UNCHANGED <<streams, discarded, tracks, user>>
  BY <1>1
<1>2. CASE T!Start
  <2> DEFINE new == T!Added(T!NoTracks, streams')
  <2>1. new \in [T!Pids -> [known : BOOLEAN, hidden : BOOLEAN, filter : 0 .. MaxFilters]]
    BY DEF T!Added, T!NoTracks
  <2>2. \A p \in T!Pids : new[p].known => p \in streams'
    BY DEF T!Added, T!NoTracks
  <2>3. /\ streams' \subseteq T!Pids /\ user' = "idle"
        /\ \/ tracks' = new /\ discarded' = {}
           \/ \E program \in Programs :
                /\ tracks' = T!Hidden(new, program)
                /\ discarded' = {p \in T!Pids : tracks'[p].known /\ tracks'[p].hidden}
    BY <1>2 DEF T!Start
  <2>4. ASSUME NEW program
        PROVE  /\ T!Hidden(new, program)
                    \in [T!Pids -> [known : BOOLEAN, hidden : BOOLEAN,
                                   filter : 0 .. MaxFilters]]
               /\ \A p \in T!Pids : T!Hidden(new, program)[p].known = new[p].known
    BY <2>1 DEF T!Hidden
  <2> HIDE DEF new
  <2>5. CASE tracks' = new /\ discarded' = {}
    BY <2>1, <2>3, <2>5
  <2>6. ASSUME NEW program, tracks' = T!Hidden(new, program),
               discarded' = {p \in T!Pids : tracks'[p].known /\ tracks'[p].hidden}
        PROVE  Tables'
    <3>1. discarded' \subseteq streams'
      BY <2>2, <2>4, <2>6
    <3> QED
      BY <2>3, <2>4, <2>6, <3>1
  <2> QED
    BY <2>3, <2>5, <2>6
<1>3. CASE T!List
  BY <1>3 DEF T!List
<1>4. CASE T!UpdateTracks
  BY <1>4 DEF T!UpdateTracks, T!Added
<1>5. CASE T!AskDuration \/ T!Stop \/ T!SwitchAudio \/ T!GetDuration \/ T!StopEnd
  BY <1>5 DEF T!AskDuration, T!Stop, T!SwitchAudio, T!GetDuration, T!StopEnd
<1>6. ASSUME NEW p \in Audio, T!SetAPid(p) PROVE Tables'
  BY <1>6 DEF T!SetAPid
<1>7. CASE T!ReadFrame
  BY <1>7 DEF T!ReadFrame
<1> QED
  BY <1>1, <1>2, <1>3, <1>4, <1>5, <1>6, <1>7
     DEF T!Next, T!UserCall, T!UserGoesOn, T!PlayLoop, T!Play, T!SetSpeed,
         T!Seek, T!LoopEnds, T!Look, T!JumpBack, T!SeekFile, T!Packet, T!Filter,
         T!AudioPacket, T!Reinit, T!PlayEnds, T!ThreadStops, T!vars

LEMMA HeldStep ==
  ASSUME Assumed, Tables, Held, [T!Next]_T!vars
  PROVE  Held'
<1> USE DEF Assumed, Tables, Held, T!InWork, T!Nothing, T!table, T!locals, T!At,
            T!Goto
<1>1. CASE UNCHANGED <<held, reinit_audio, loop, streams>>
  BY <1>1
<1>2. CASE T!Start
  <2>1. held' = T!Nothing /\ reinit_audio' = 0 /\ loop' \in {"loop", "none"}
    BY <1>2 DEF T!Start
  <2> QED
    BY <2>1
<1>3. CASE T!Play
  BY <1>3 DEF T!Play
<1>4. CASE T!LoopEnds \/ T!Look \/ T!JumpBack \/ T!SeekFile
  BY <1>4 DEF T!LoopEnds, T!Look, T!Wanted, T!JumpBack, T!SeekFile
<1>5. CASE T!ReadFrame
  BY <1>5 DEF T!ReadFrame
<1>6. CASE T!Packet
  BY <1>6 DEF T!Packet
<1>7. CASE T!Filter
  BY <1>7 DEF T!Filter
<1>8. CASE T!AudioPacket \/ T!Reinit \/ T!PlayEnds \/ T!ThreadStops
  BY <1>8 DEF T!AudioPacket, T!Reinit, T!PlayEnds, T!ThreadStops
<1> QED
  BY <1>1, <1>2, <1>3, <1>4, <1>5, <1>6, <1>7, <1>8
     DEF T!Next, T!UserCall, T!UserGoesOn, T!PlayLoop, T!SetSpeed, T!List,
         T!AskDuration, T!Stop, T!SetAPid, T!Seek, T!SwitchAudio,
         T!UpdateTracks, T!GetDuration, T!StopEnd, T!vars

LEMMA TakenStep ==
  ASSUME Assumed, Opened, Tables, Held, Taken, [T!Next]_T!vars
  PROVE  Taken'
<1>1. T!Null \in T!Pointers /\ Audio \subseteq T!Pids /\ Video \subseteq T!Pids
  BY DEF T!Pointers, T!Pids
<1>2. \A t, p : file \in 1 .. MaxOpens /\ p \in T!Pids => T!GetTrack(t, file, p) \in T!Pointers
  BY <1>1 DEF T!GetTrack, T!Pointers
<1>3. CASE UNCHANGED T!taken
  BY <1>3 DEF Taken, T!taken
<1>4. CASE T!Start
  <2> DEFINE new == T!Added(T!NoTracks, streams')
             a == T!Adopt(T!InitTracks[1], new, file', streams' \cap Audio)
             v == T!Adopt(T!InitTracks[2], new, file', streams' \cap Video)
  <2>1. file' \in 1 .. MaxOpens
    BY <1>4 DEF T!Start, Opened, Assumed
  <2>2. a \in T!Pointers /\ v \in T!Pointers
    BY <1>1, <2>1, AdoptType DEF T!InitTracks
  <2>3. \A t : /\ T!SwitchTo(T!Remaining(t, Audio), file', a) \in T!Pointers
               /\ T!SwitchTo(T!Remaining(t, Video), file', v) \in T!Pointers
    <3>1. \A t : T!Remaining(t, Audio) \subseteq T!Pids /\ T!Remaining(t, Video) \subseteq T!Pids
      BY <1>1 DEF T!Remaining
    <3> HIDE DEF a, v
    <3> QED
      BY <2>1, <2>2, <3>1, SwitchToType
  <2>4. \A p \in Audio : T!GetTrack(new, file', p) \in T!Pointers
    BY <1>1, <2>1 DEF T!GetTrack, T!Pointers
  <2>5. audioStream' = audioTrack' /\ videoStream' = videoTrack'
    BY <1>4 DEF T!Start
  <2>6. \/ audioTrack' = a /\ videoTrack' = v
        \/ \E t : /\ audioTrack' = T!SwitchTo(T!Remaining(t, Audio), file', a)
                  /\ videoTrack' = T!SwitchTo(T!Remaining(t, Video), file', v)
        \/ videoTrack' = v /\ \E p \in Audio : audioTrack' = T!GetTrack(new, file', p)
    BY <1>4 DEF T!Start
  <2> HIDE DEF a, v, new
  <2> QED
    BY <2>2, <2>3, <2>4, <2>5, <2>6 DEF Taken
<1>5. ASSUME NEW p \in Audio, T!SetAPid(p) PROVE Taken'
  BY <1>1, <1>2, <1>5 DEF T!SetAPid, Taken, Opened, Assumed
<1>6. CASE T!SwitchAudio \/ T!StopEnd \/ T!AudioPacket
  BY <1>1, <1>6 DEF T!SwitchAudio, T!StopEnd, T!AudioPacket, Taken, T!taken
<1>7. CASE T!UpdateTracks
  <2>1. file \in 1 .. MaxOpens
    BY <1>7 DEF T!UpdateTracks, Opened, Assumed, T!Calls
  <2> QED
    BY <1>1, <1>7, <2>1, AdoptType DEF T!UpdateTracks, Taken
<1>8. CASE T!Reinit
  <2>1. file \in 1 .. MaxOpens /\ held.pid \in T!Pids
    BY <1>8 DEF T!Reinit, Opened, Tables, Held, Assumed, T!At, T!InWork
  <2> QED
    BY <1>8, <2>1 DEF T!Reinit, T!SwitchedBack, T!Pointers, Taken
<1> QED
  BY <1>3, <1>4, <1>5, <1>6, <1>7, <1>8
     DEF T!Next, T!UserCall, T!UserGoesOn, T!PlayLoop, T!Play, T!SetSpeed,
         T!List, T!AskDuration, T!Stop, T!Seek, T!GetDuration, T!LoopEnds,
         T!Look, T!JumpBack, T!SeekFile, T!ReadFrame, T!Packet, T!Filter,
         T!PlayEnds, T!ThreadStops, T!vars

(* The tables, the tracks and streams taken, the request and the flags are *)
(* what they are declared to be (manager.h, input.h, output.h); and while  *)
(* the thread runs the file is open, and a packet is of a stream of it.    *)
THEOREM TracksTypes ==
  ASSUME Assumed
  PROVE  T!Spec => []T!TypeOK
<1> DEFINE Types == Switches /\ Opened /\ Tables /\ Held /\ Taken
<1>1. T!Init => Types
  <2> SUFFICES ASSUME T!Init PROVE Types
    OBVIOUS
  <2>1. Switches
    BY DEF T!Init, Switches
  <2>2. Opened
    BY DEF T!Init, Assumed, Opened, T!NoRequest
  <2>3. Tables
    BY DEF T!Init, Assumed, Tables, T!NoTracks, T!Calls
  <2>4. Held
    BY DEF T!Init, Assumed, Held, T!Nothing, T!InWork, T!At
  <2>5. Taken
    BY DEF T!Init, Taken, T!Pointers
  <2> QED
    BY <2>1, <2>2, <2>3, <2>4, <2>5
<1>2. Types /\ [T!Next]_T!vars => Types'
  BY SwitchesStep, OpenedStep, TablesStep, HeldStep, TakenStep
<1>3. Types => T!TypeOK
  BY DEF Switches, Opened, Tables, Held, Taken, T!TypeOK
<1> QED
  BY <1>1, <1>2, <1>3, PTL DEF T!Spec
=============================================================================
