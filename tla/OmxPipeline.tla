---------------------------- MODULE OmxPipeline ----------------------------
(***************************************************************************)
(* The OMX pipeline of raspi (omx_utils.c): how the video codec thread     *)
(* sets it up, connects it while it feeds packets (avcodec_omx.c), and     *)
(* tears it down, by commands that the components carry out in threads of  *)
(* their own and report back through omx_event_handler; and how it waits   *)
(* for a free input buffer (get_next_buffer, omx_empty_buffer_done).       *)
(*                                                                         *)
(* A script holds the steps the video thread has still to do.  do_deinter- *)
(* lace is always 0, so image_fx takes no part.  The components are        *)
(* external: they carry out the commands they were sent in any order, but  *)
(* those of one port as they were sent; a port is enabled when it has its  *)
(* buffers and disabled when they are freed; the decoder is idle when it   *)
(* has given its buffers back; and both ends of a clock tunnel behave as   *)
(* the note on line 1033 of omx_utils.c says.                              *)
(***************************************************************************)
EXTENDS Naturals, Sequences

CONSTANTS
  Buffers,        \* input buffers of video_decode
  Faulty          \* bound: components that report an error once

Components == {"decode", "scheduler", "render", "audio", "clock"}
Fed == {"130", "100"}          \* ports with buffers
Nothing == [kind |-> "none", param |-> "none"]
Command(kind, param) == [kind |-> kind, param |-> param]

VARIABLES
  mode,           \* "down", "setup", "up", "teardown" or "exited"
  script,         \* the steps the video thread has still to do
  cmd,            \* the command whose completion is waited for, by component
  pending,        \* commands sent to a component that it has not completed
  enabled,        \* ports that are enabled
  populated,      \* ports that have their buffers
  changed,        \* port_settings_changed of decode and scheduler
  get,            \* get_next_buffer and feed: "idle", "scan", "none", "waiting",
                  \*   "have", "decoder", "scheduler"
  buf_notempty,
  inside,         \* number of buffers decode has
  emptied,        \* it has emptied a buffer and not yet reported that
  errored         \* components that reported an error

talk == <<cmd, pending, enabled, populated>>
feed == <<get, buf_notempty, inside, emptied>>
vars == <<mode, script, talk, changed, feed, errored>>

Init ==
  /\ mode = "down" /\ script = <<>>
  /\ cmd = [c \in Components |-> Nothing]
  /\ pending = [c \in Components |-> {}]
  /\ enabled = {} /\ populated = {}
  /\ changed = [c \in {"decode", "scheduler"} |-> 0]
  /\ get = "idle" /\ buf_notempty = TRUE /\ inside = 0 /\ emptied = FALSE
  /\ errored = {}

-----------------------------------------------------------------------------
(* Scripts.                                                                *)

Step(op, c, kind, param) == [op |-> op, c |-> c, cmd |-> Command(kind, param)]
(* omx_send_command_and_wait0, omx_send_command_and_wait1 and both; a      *)
(* command that nobody waits for; buffers; the end of a tunnel.            *)
Begin(c, kind, param) == Step("begin", c, kind, param)
Finish(c, kind, param) == Step("finish", c, kind, param)
Do(c, kind, param) == <<Begin(c, kind, param), Finish(c, kind, param)>>
Fire(c, kind, param) == <<Step("fire", c, kind, param)>>
Alloc(c, port) == <<Step("alloc", c, "none", port)>>
Free(c, port) == <<Step("free", c, "none", port)>>
Untunnel(c, port) == <<Step("untunnel", c, "none", port)>>
When(condition, steps) == IF condition THEN steps ELSE <<>>

WithBuffers(c, port) ==
  <<Begin(c, "enable", port)>> \o Alloc(c, port) \o <<Finish(c, "enable", port)>>
WithoutBuffers(c, port) ==
  <<Begin(c, "disable", port)>> \o Free(c, port) \o <<Finish(c, "disable", port)>>

(* Of omx_init_component only the result, all ports disabled, matters. *)
SetupScript ==
  Do("audio", "state", "idle") \o WithBuffers("audio", "100")
  \o Do("clock", "state", "idle")
  \o Fire("clock", "enable", "80") \o Fire("scheduler", "enable", "12")
  \o Fire("clock", "enable", "81") \o Fire("audio", "enable", "101")
  \o Do("scheduler", "state", "idle") \o Do("clock", "state", "executing")
  \o Do("decode", "state", "idle") \o WithBuffers("decode", "130")
  \o Do("decode", "state", "executing") \o Do("audio", "state", "executing")

DecoderScript ==
  Do("decode", "enable", "131") \o Do("scheduler", "enable", "10")
  \o Do("scheduler", "state", "executing") \o Do("render", "state", "idle")

SchedulerScript ==
  Do("scheduler", "enable", "11") \o Do("render", "enable", "90")
  \o Do("render", "state", "executing")

IdleScript ==
  Do("decode", "state", "idle") \o Do("clock", "state", "idle")
  \o When(changed["decode"] = 2, Do("scheduler", "state", "idle"))
  \o When(changed["scheduler"] = 2, Do("render", "state", "idle"))
  \o Do("audio", "state", "idle")

FlushTunnel(c, port, d, sink) == Do(c, "flush", port) \o Do(d, "flush", sink)
FlushScript ==
  Do("decode", "flush", "130") \o Do("audio", "flush", "100")
  \o FlushTunnel("decode", "131", "scheduler", "10")
  \o FlushTunnel("scheduler", "11", "render", "90")
  \o FlushTunnel("clock", "81", "scheduler", "12")
  \o Do("scheduler", "flush", "10")
  \o FlushTunnel("clock", "80", "audio", "101")

\* As ClockScript, but nobody waits for the other end either, ...
ClockScriptFired ==
  Fire("clock", "disable", "80") \o Fire("audio", "disable", "101")
  \o Fire("clock", "disable", "81") \o Fire("scheduler", "disable", "12")
\* ... or for the clock's end before the other is disabled.
ClockScriptWaits ==
  Do("clock", "disable", "80") \o Do("audio", "disable", "101")
  \o Do("clock", "disable", "81") \o Do("scheduler", "disable", "12")
(* "The clock disable doesn't complete until after the video scheduler     *)
(* port is disabled": the clock's end is not waited for.                   *)
ClockScript ==
  Fire("clock", "disable", "80") \o Do("audio", "disable", "101")
  \o Fire("clock", "disable", "81") \o Do("scheduler", "disable", "12")

DisableScript ==
  WithoutBuffers("audio", "100")
  \o When(changed["scheduler"] = 2,
          Do("scheduler", "disable", "11") \o Do("render", "disable", "90")
          \o Do("scheduler", "disable", "10"))
  \o ClockScript
  \o When(changed["decode"] = 2, Do("decode", "disable", "131"))
  \o WithoutBuffers("decode", "130")

UntunnelScript ==
  Untunnel("scheduler", "10") \o Untunnel("scheduler", "11") \o Untunnel("render", "90")
  \o Untunnel("clock", "81") \o Untunnel("scheduler", "12")
  \o Untunnel("clock", "80") \o Untunnel("audio", "101") \o Untunnel("decode", "131")

LoadedScript ==
  Do("decode", "state", "loaded") \o Do("scheduler", "state", "loaded")
  \o Do("audio", "state", "loaded") \o Do("clock", "state", "loaded")

TeardownScript ==
  IdleScript \o FlushScript \o DisableScript \o UntunnelScript \o LoadedScript

-----------------------------------------------------------------------------
(* The video codec thread.                                                 *)

Now(op) == script # <<>> /\ Head(script).op = op
Current == Head(script)

(* The first packet sets the pipeline up; its components are new. *)
Setup ==
  /\ mode = "down"
  /\ mode' = "setup" /\ script' = SetupScript
  /\ cmd' = [c \in Components |-> Nothing]
  /\ changed' = [c \in DOMAIN changed |-> 0]
  /\ buf_notempty' = TRUE
  /\ pending' = [c \in Components |-> {}] /\ enabled' = {} /\ populated' = {}
  /\ errored' = {}
  /\ UNCHANGED <<get, inside, emptied>>

BeginCommand ==
  /\ Now("begin")
  /\ cmd' = [cmd EXCEPT ![Current.c] = Current.cmd]
  /\ pending' = [pending EXCEPT ![Current.c] = @ \cup {Current.cmd}]
  /\ script' = Tail(script)
  /\ UNCHANGED <<mode, enabled, populated, changed, feed, errored>>

FinishCommand ==
  /\ Now("finish") /\ cmd[Current.c] = Nothing
  /\ script' = Tail(script)
  /\ UNCHANGED <<mode, talk, changed, feed, errored>>

FireCommand ==
  /\ Now("fire")
  /\ pending' = [pending EXCEPT ![Current.c] = @ \cup {Current.cmd}]
  /\ script' = Tail(script)
  /\ UNCHANGED <<mode, cmd, enabled, populated, changed, feed, errored>>

(* omx_alloc_buffers and omx_free_buffers; these take back what is inside. *)
MoveBuffers ==
  /\ Now("alloc") \/ Now("free")
  /\ populated' = IF Now("alloc") THEN populated \cup {Current.cmd.param}
                                  ELSE populated \ {Current.cmd.param}
  /\ IF Now("free") /\ Current.c = "decode" THEN inside' = 0 /\ emptied' = FALSE
     ELSE UNCHANGED <<inside, emptied>>
  /\ script' = Tail(script)
  /\ UNCHANGED <<mode, cmd, pending, enabled, changed, get, buf_notempty, errored>>

(* Before the last tunnel, if the input port is still enabled, exit(1). *)
EndTunnel ==
  /\ Now("untunnel")
  /\ IF Current.cmd.param = "131" /\ "130" \in enabled
     THEN mode' = "exited" /\ script' = <<>>
     ELSE mode' = mode /\ script' = Tail(script)
  /\ UNCHANGED <<talk, changed, feed, errored>>

ScriptEnds ==
  /\ script = <<>> /\ mode \in {"setup", "teardown"}
  /\ mode' = IF mode = "setup" THEN "up" ELSE "down"
  /\ UNCHANGED <<script, talk, changed, feed, errored>>

Feeding == mode = "up" /\ script = <<>>
Goes(from, to) == Feeding /\ get = from /\ get' = to
FeedFrame == UNCHANGED <<mode, talk, errored>>

Packet ==
  /\ Goes("idle", "scan")
  /\ UNCHANGED <<script, changed, buf_notempty, inside, emptied>> /\ FeedFrame

(* get_next_buffer looks for a buffer; from "scan" to "waiting" it holds   *)
(* buf_mutex.                                                              *)
Scan ==
  /\ Goes("scan", IF inside < Buffers THEN "have" ELSE "none")
  /\ UNCHANGED <<script, changed, buf_notempty, inside, emptied>> /\ FeedFrame
NoneFree ==
  /\ Goes("none", "waiting")
  /\ buf_notempty' = FALSE
  /\ UNCHANGED <<script, changed, inside, emptied>> /\ FeedFrame
Retry ==
  /\ Goes("waiting", "scan") /\ buf_notempty
  /\ UNCHANGED <<script, changed, buf_notempty, inside, emptied>> /\ FeedFrame

(* With the buffer in hand, tunnels are set up where port settings have    *)
(* changed ...                                                             *)
Connect(from, c, to, steps) ==
  /\ Goes(from, to)
  /\ IF changed[c] = 1 THEN changed' = [changed EXCEPT ![c] = 2] /\ script' = steps
                       ELSE UNCHANGED <<changed, script>>
  /\ UNCHANGED <<buf_notempty, inside, emptied>> /\ FeedFrame

(* ... and the buffer is given to the decoder. *)
EmptyThisBuffer ==
  /\ Goes("scheduler", "idle")
  /\ inside' = inside + 1
  /\ UNCHANGED <<script, changed, buf_notempty, emptied>> /\ FeedFrame

(* A stop, a new channel or another codec. *)
Teardown ==
  /\ Feeding /\ get = "idle"
  /\ mode' = "teardown" /\ script' = TeardownScript
  /\ UNCHANGED <<talk, changed, feed, errored>>

-----------------------------------------------------------------------------
(* The components, and their callbacks.                                    *)

Peer(port) == CASE port = "80" -> "101" [] port = "81" -> "12"
                [] port = "101" -> "80" [] port = "12" -> "81"
Sent(kind, port) == \E c \in Components : Command(kind, port) \in pending[c]
Gone(port) == port \notin enabled /\ ~Sent("enable", port)

MayComplete(c, k) ==
  CASE k.kind = "enable" /\ k.param \in Fed -> k.param \in populated
    [] k.kind = "disable" /\ k.param \in Fed -> k.param \notin populated
    [] k.kind = "disable" /\ k.param \in {"80", "81"} -> Gone(Peer(k.param)) \/ Sent("disable", Peer(k.param))
    [] k.kind = "disable" /\ k.param \in {"101", "12"} -> Gone(Peer(k.param))
    [] k = Command("state", "idle") /\ c = "decode" -> inside = 0 /\ ~emptied
    [] OTHER -> TRUE

\* As Awaited, but not compared with the command that was completed.
AwaitedAny(c, k) == TRUE
Awaited(c, k) == cmd[c] = k

(* OMX_EventCmdComplete *)
Complete(c) ==
  /\ \E k \in pending[c] :
       /\ MayComplete(c, k)
       /\ k.kind = "disable" => Command("enable", k.param) \notin pending[c]
       /\ pending' = [pending EXCEPT ![c] = @ \ {k}]
       /\ enabled' = CASE k.kind = "enable" -> enabled \cup {k.param}
                       [] k.kind = "disable" -> enabled \ {k.param}
                       [] OTHER -> enabled
       /\ cmd' = IF Awaited(c, k) THEN [cmd EXCEPT ![c] = Nothing] ELSE cmd
  /\ UNCHANGED <<mode, script, populated, changed, feed, errored>>

(* OMX_EventError: the component gives a command up, which counts as       *)
(* completed.                                                              *)
Error(c) ==
  /\ cmd[c] # Nothing /\ c \in Faulty \ errored
  /\ errored' = errored \cup {c}
  /\ cmd' = [cmd EXCEPT ![c] = Nothing]
  /\ pending' = [pending EXCEPT ![c] = @ \ {cmd[c]}]
  /\ UNCHANGED <<mode, script, enabled, populated, changed, feed>>

(* OMX_EventPortSettingsChanged *)
PortSettingsChanged(c) ==
  /\ mode = "up" /\ changed[c] = 0
  /\ c = "scheduler" => "10" \in enabled
  /\ changed' = [changed EXCEPT ![c] = 1]
  /\ UNCHANGED <<mode, script, talk, feed, errored>>

(* The decoder empties a buffer and then reports it.  buf_notempty is      *)
(* looked at without buf_mutex, and set with it.                           *)
Emptied ==
  /\ inside > 0 /\ ~emptied
  /\ inside' = inside - 1 /\ emptied' = TRUE
  /\ UNCHANGED <<mode, script, talk, changed, get, buf_notempty, errored>>
EmptyBufferDone ==
  /\ emptied
  /\ buf_notempty \/ get # "none"
  /\ emptied' = FALSE /\ buf_notempty' = TRUE
  /\ UNCHANGED <<mode, script, talk, changed, get, inside, errored>>

-----------------------------------------------------------------------------
VideoStep ==
  \/ BeginCommand \/ FinishCommand \/ FireCommand \/ MoveBuffers \/ EndTunnel
  \/ ScriptEnds \/ Scan \/ NoneFree \/ Retry \/ EmptyThisBuffer
  \/ Connect("have", "decode", "decoder", DecoderScript)
  \/ Connect("decoder", "scheduler", "scheduler", SchedulerScript)
DecoderStep == Emptied \/ EmptyBufferDone

Next ==
  \/ Setup \/ Packet \/ Teardown \/ VideoStep \/ DecoderStep
  \/ \E c \in Components : Complete(c) \/ Error(c)
  \/ \E c \in DOMAIN changed : PortSettingsChanged(c)

(* The video thread goes on where it can, and of the components, while     *)
(* there are commands that can be completed, one completes one; the        *)
(* decoder empties its buffers.                                            *)
Fairness ==
  /\ WF_vars(VideoStep) /\ WF_vars(DecoderStep)
  /\ WF_vars(\E c \in Components : Complete(c))

Spec == Init /\ [][Next]_vars /\ Fairness

TypeOK ==
  /\ mode \in {"down", "setup", "up", "teardown", "exited"}
  /\ \A i \in DOMAIN script : script[i].c \in Components
  /\ DOMAIN cmd = Components /\ DOMAIN pending = Components
  /\ \A c \in Components : cmd[c] # Nothing => cmd[c] \in pending[c]
  /\ populated \subseteq Fed /\ errored \subseteq Faulty
  /\ changed \in [{"decode", "scheduler"} -> 0 .. 2]
  /\ get \in {"idle", "scan", "none", "waiting", "have", "decoder", "scheduler"}
  /\ buf_notempty \in BOOLEAN /\ inside \in 0 .. Buffers /\ emptied \in BOOLEAN

(***************************************************************************)
(* Properties.                                                             *)
(***************************************************************************)
(* "omx_send_command_and_wait() waits for completion" (line 1062): when it *)
(* returns the component has completed that command, whatever else the     *)
(* component was sent and reports meanwhile, unless it reported an error.  *)
(* "Ports need to be disabled before tunnels are shut down" (line 1059):   *)
(* they are, those of the clock too, for which nobody waits, unless there  *)
(* was an error, and but for port 10 of a pipeline that is torn down       *)
(* between the port settings of the decoder and those of the scheduler.    *)
HalfConnected == changed["decode"] = 2 /\ changed["scheduler"] # 2
CommandsAreDone ==
  [][/\ FinishCommand /\ Current.c \notin errored => Current.cmd \notin pending[Current.c]
     /\ EndTunnel /\ errored = {} =>
          \/ Current.cmd.param \notin enabled
          \/ HalfConnected /\ Current.cmd.param = "10"]_vars

(* A buffer that was emptied after the search for one and reported before  *)
(* buf_notempty was cleared: get_next_buffer waits though all are free.    *)
WakeUpMissed == get = "waiting" /\ ~buf_notempty /\ inside = 0 /\ ~emptied

Busy == mode \in {"setup", "teardown"} \/ get = "waiting"

(* Setting up and tearing down come to their end, though the clock's ports *)
(* wait for those at the other end, and a free buffer is found, but for    *)
(* the case above and a component in error.                                *)
PipelineGoesOn ==
  Busy ~> ~Busy \/ WakeUpMissed \/ errored # {}
=============================================================================
