------------------------------ MODULE MCTriple ------------------------------
(***************************************************************************)
(* The Tripledragon: a behaviour is one of TriplePlayback, with two files  *)
(* of two seeks each, or one of Television.  Of the latter, "picture" is   *)
(* the GUI's still picture against the zapper, for any number of calls,    *)
(* and "display" is the GUI's other calls, MaxCalls of them, against the   *)
(* watchdog and the stream.                                                *)
(***************************************************************************)
EXTENDS TriplePlayback
CONSTANTS Modes, Outputs, MaxCalls
ASSUME MaxCallsAssumption == MaxCalls \in Nat
\* the format the decoder starts with
ASSUME OutputsAssumption == "RGBC" \in Outputs
VARIABLES
  view,       \* "playback", "picture" or "display"
  calls,      \* of the GUI, in "display"
  (* the variables of Television *)
  vdec, stillp_mutex, vdev, shape, vpc, vloc, blank_data, pig, overrun,
  relit, alone, mixed

V == INSTANCE Television WITH dev <- vdev, pc <- vpc, loc <- vloc

tvvars == <<vdec, stillp_mutex, vdev, shape, vpc, vloc, blank_data, pig, overrun,
            relit, alone, mixed>>

MCInit ==
  /\ view \in {"playback", "picture", "display"} /\ calls = 0
  /\ Init /\ V!Init
  /\ view # "picture" => ~blank_data
  /\ view # "display" => shape = "narrow"
  /\ view # "playback" => playstate = "STOP"

(* Every call of the GUI begins where it has none under way. *)
Counted ==
  IF vpc["gui"] = "idle" THEN calls < MaxCalls /\ calls' = calls + 1
                         ELSE UNCHANGED calls
PictureNext ==
  /\ V!Picture \/ V!Power \/ V!Zapper \/ \E t \in V!Threads : V!Shared(t)
  /\ UNCHANGED calls
DisplayNext ==
  \/ (V!Display \/ V!Power) /\ Counted
  \/ (V!Watchdog \/ V!ShapeChanges \/ \E t \in V!Threads : V!Shared(t))
       /\ UNCHANGED calls

MCNext ==
  /\ UNCHANGED view
  /\ \/ view = "playback" /\ Next /\ UNCHANGED <<tvvars, calls>>
     \/ view = "picture" /\ PictureNext /\ UNCHANGED vars
     \/ view = "display" /\ DisplayNext /\ UNCHANGED vars

MCSpec == MCInit /\ [][MCNext]_<<view, calls, vars, tvvars>> /\ Fairness

(* The type invariants of both. *)
TypesOK == TypeOK /\ V!TypeOK

(* The screen shows what it was asked to, and asked of the stream. *)
ScreenFollows == V!ScreenFollows
=============================================================================
