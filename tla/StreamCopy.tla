---------------------------- MODULE StreamCopy ----------------------------
(***************************************************************************)
(* What a recording promises, without buffers, threads or asynchronous     *)
(* writes: the file is a growing copy of the stream that was received, in  *)
(* order and without a hole, and a recording that ends well has stored     *)
(* everything it received.                                                 *)
(***************************************************************************)
EXTENDS Naturals

CONSTANT MaxStream      \* units one recording can receive

VARIABLES
  phase,                \* "off", "recording", "ended" (writer gone) or "failed"
  received,             \* units received from the demux in this recording
  stored                \* units in the file

vars == <<phase, received, stored>>

Init == phase = "off" /\ received = 0 /\ stored = 0

Begin ==
  /\ phase = "off"
  /\ phase' = "recording" /\ received' = 0 /\ stored' = 0

(* A recording that cannot be set up leaves an empty file. *)
Refuse ==
  /\ phase = "off"
  /\ received' = 0 /\ stored' = 0
  /\ UNCHANGED phase

Receive ==
  /\ phase = "recording"
  /\ received' \in received .. MaxStream
  /\ UNCHANGED <<phase, stored>>

Store ==
  /\ phase = "recording"
  /\ stored' \in stored + 1 .. received
  /\ UNCHANGED <<phase, received>>

(* A recording may end as a success only when nothing is left to store. *)
Finish ==
  /\ phase = "recording" /\ stored = received
  /\ phase' = "ended"
  /\ UNCHANGED <<received, stored>>

GiveUp ==
  /\ phase = "recording"
  /\ phase' = "failed"
  /\ UNCHANGED <<received, stored>>

Close ==
  /\ phase \in {"off", "ended", "failed"}
  /\ phase' = "off"
  /\ UNCHANGED <<received, stored>>

Next == Begin \/ Refuse \/ Receive \/ Store \/ Finish \/ GiveUp \/ Close

Spec == Init /\ [][Next]_vars
=============================================================================
