------------------------------- MODULE MCOmx -------------------------------
(***************************************************************************)
(* The two halves of the raspi decoders: OmxCodec, its threads and queues, *)
(* and OmxPipeline, the commands to the components by which the video      *)
(* codec thread sets up and tears down what OmxCodec calls the pipe.  A    *)
(* behaviour is one of either; the other stands still.                     *)
(*                                                                         *)
(* OmxCodec: two starts, of audio and video or of one of them behind the   *)
(* other, with a change of the video format at any time and a message.     *)
(* OmxPipeline: few buffers, and some of the components report an error.   *)
(***************************************************************************)
EXTENDS OmxCodec
CONSTANTS
  Buffers, Faulty                             \* of OmxPipeline
VARIABLES
  half,       \* "codec" or "pipeline"
  (* the variables of OmxPipeline *)
  mode, script, cmd, pending, enabled, populated, changed, get, buf_notempty,
  inside, emptied, errored

Omx == INSTANCE OmxPipeline

(* Only components report errors. *)
ASSUME PipelineAssumption == Buffers \in Nat /\ Faulty \subseteq Omx!Components

pipelinevars == <<mode, script, cmd, pending, enabled, populated, changed, get,
                  buf_notempty, inside, emptied, errored>>

MCInit ==
  /\ half \in {"codec", "pipeline"} /\ Init /\ Omx!Init
  /\ half = "pipeline" => format = AVC
MCNext ==
  /\ UNCHANGED half
  /\ \/ half = "codec" /\ Next /\ UNCHANGED pipelinevars
     \/ half = "pipeline" /\ Omx!Next /\ UNCHANGED vars

(* OmxCodec's fairness where it runs; the pipeline's actions are not       *)
(* enabled where it does not.                                              *)
Runs == half = "codec" /\ ~Crashed
CodecFairness ==
  /\ WF_vars(Runs /\ (StopFlag \/ StopJoin))
  /\ \A c \in Codecs : WF_vars(Runs /\ Reader(c))
  /\ WF_vars(Runs /\ (AudioTake \/ AudioAct)) /\ SF_vars(Runs /\ AudioLock)
  /\ WF_vars(Runs /\ Video) /\ SF_vars(Runs /\ VideoStop)
MCSpec ==
  /\ MCInit /\ [][MCNext]_<<half, vars, pipelinevars>>
  /\ CodecFairness /\ Omx!Fairness

(* The type invariants of both halves. *)
TypesOK == TypeOK /\ Omx!TypeOK

(* Commands that were waited for are done, and ports are disabled before   *)
(* their tunnels are shut down.                                            *)
CommandsAreDone == Omx!CommandsAreDone

(* The pipeline gets set up and torn down, and a free buffer is found.     *)
PipelineGoesOn == Omx!PipelineGoesOn
=============================================================================
