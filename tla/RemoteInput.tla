---------------------------- MODULE RemoteInput ----------------------------
(***************************************************************************)
(* The thread that makes a remote control an input device:                 *)
(* libspark/lirmp_input.cpp turns the frames that IRMP decodes into keys,  *)
(* libtriple/lt_dfbinput.cpp the events of DirectFB, and raspi/init.cpp    *)
(* copies those of all devices into a FIFO; and the calls that start it    *)
(* and stop it.                                                            *)
(*                                                                         *)
(* External are the kernel, for which a key is down from its press to its  *)
(* release or the device's end, and IRMP: a frame is a repetition if the   *)
(* last one, less than 150 ms ago, had the same code (irmp.c 3488-3494,    *)
(* in static variables that survive the thread).  Two timeouts of select   *)
(* are longer than that.                                                   *)
(*                                                                         *)
(* Not modelled: a second shutdown on Raspberry Pi, which deletes `thread` *)
(* twice; the FIFO when it is full.                                        *)
(***************************************************************************)
EXTENDS Naturals, Sequences, FiniteSets

CONSTANTS
  Boxes,          \* of "spark", "triple", "raspi"
  Keys,           \* the keys that key_map and the switch know
  Unknown         \* another remote's, or one they do not know

MaxEvents == 2         \* bound: events that nobody has read
Codes == Keys \cup {Unknown}

VARIABLES
  box,
  call,           \* "idle", "starting" or "joining"
  initialized,
  thread_running, \* 0, 1, and 2 on spark boxes; `running` on Raspberry Pi
  thread,         \* "none", "opening", "test", "select", "read", "ended", "astray"
  last_code,      \* {} is -1
  nodec,
  prev,           \* what IRMP decoded last, {} for nothing
  held, events,   \* triple and raspi: what is pressed, and not read
  fifo,           \* raspi: out_fd >= 0
  down,           \* the keys down for whoever reads the device
  (* ghosts *)
  stillborn,      \* the thread ended before it was running and did not say so
  overtaken,      \* stop came before the thread was running
  restarted,      \* the thread was started after IRMP had decoded a frame
  orphan,         \* a key was repeated that was not down
  gone            \* raspi: keys whose device vanished while they were down

control == <<call, initialized>>
ghosts == <<stillborn, overtaken, restarted, orphan, gone>>
remote == <<last_code, nodec, prev, held, events, fifo, down>>
vars == <<box, control, thread_running, thread, remote, ghosts>>

Event == [key : Codes, press : BOOLEAN]

TypeOK ==
  /\ box \in Boxes /\ call \in {"idle", "starting", "joining"} /\ initialized \in BOOLEAN
  /\ thread_running \in 0 .. 2
  /\ thread \in {"none", "opening", "test", "select", "read", "ended", "astray"}
  /\ last_code \subseteq Keys /\ Cardinality(last_code) <= 1 /\ nodec \in 0 .. 2
  /\ prev \subseteq Codes /\ held \subseteq Codes /\ down \subseteq Codes
  /\ fifo \in BOOLEAN /\ (box # "raspi" => fifo)
  /\ gone \subseteq Codes /\ events \in Seq(Event) /\ Len(events) <= MaxEvents
  /\ {stillborn, overtaken, restarted, orphan} \subseteq BOOLEAN

Init ==
  /\ box \in Boxes /\ call = "idle" /\ initialized = FALSE
  /\ thread_running = 0 /\ thread = "none"
  /\ last_code = {} /\ nodec = 0 /\ prev = {} /\ held = {} /\ events = <<>> /\ fifo = TRUE
  /\ down = {}
  /\ stillborn = FALSE /\ overtaken = FALSE /\ restarted = FALSE /\ orphan = FALSE
  /\ gone = {}

-----------------------------------------------------------------------------
(* The calls.                                                              *)

(* lircd is there, or pthread_create failed. *)
InitWithoutThread ==
  /\ box # "raspi" /\ call = "idle" /\ ~initialized
  /\ initialized' = TRUE
  /\ thread_running' \in {thread_running, 0}
  /\ UNCHANGED <<box, call, thread, remote, ghosts>>

(* start_input_thread waits for the thread, the constructor of Input does  *)
(* not.                                                                    *)
InitApi ==
  /\ call = "idle" /\ ~initialized
  /\ box = "raspi" => thread = "none"
  /\ call' = IF box = "raspi" THEN "idle" ELSE "starting"
  /\ initialized' = (box = "raspi")
  /\ thread' = "opening"
  /\ last_code' = {} /\ nodec' = 0 /\ held' = {} /\ events' = <<>>
  /\ stillborn' = FALSE /\ restarted' = (prev # {})
  /\ UNCHANGED <<box, thread_running, prev, fifo, down, overtaken, orphan, gone>>

Started ==
  /\ call = "starting" /\ thread_running # 0
  /\ call' = "idle" /\ initialized' = TRUE
  /\ thread_running' = IF thread_running = 2 THEN 0 ELSE thread_running
  /\ UNCHANGED <<box, thread, remote, ghosts>>

Shutdown ==
  /\ call = "idle" /\ initialized
  /\ initialized' = FALSE
  /\ thread_running' = 0
  /\ call' = IF box # "raspi" /\ thread_running = 0 THEN "idle" ELSE "joining"
  /\ overtaken' = (thread = "opening")
  /\ UNCHANGED <<box, thread, remote, stillborn, restarted, orphan, gone>>

Joined ==
  /\ call = "joining" /\ thread = "ended"
  /\ call' = "idle"
  /\ UNCHANGED <<box, initialized, thread_running, thread, remote, ghosts>>

-----------------------------------------------------------------------------
(* The thread.                                                             *)

(* /dev/uinput cannot be opened: only libspark tells. *)
NoUinput ==
  /\ box # "raspi" /\ thread = "opening"
  /\ thread' = "ended"
  /\ thread_running' = IF box = "spark" THEN 2 ELSE thread_running
  /\ stillborn' = (box # "spark")
  /\ UNCHANGED <<box, control, remote, overtaken, restarted, orphan, gone>>

(* UI_DEV_CREATE or, in libspark, open("/dev/lirc") fails. *)
NoDevice ==
  /\ box # "raspi" /\ thread = "opening"
  /\ thread' = "ended" /\ stillborn' = TRUE
  /\ UNCHANGED <<box, control, thread_running, remote, overtaken, restarted, orphan, gone>>

(* Raspberry Pi goes on without the FIFO when it cannot be opened. *)
Run ==
  /\ thread = "opening"
  /\ thread_running' = 1 /\ thread' = "test"
  /\ fifo' \in (IF box = "raspi" THEN BOOLEAN ELSE {fifo})
  /\ UNCHANGED <<box, control, last_code, nodec, prev, held, events, down, ghosts>>

Test ==
  /\ thread = "test" /\ thread_running # 0
  /\ thread' = "select"
  /\ UNCHANGED <<box, control, thread_running, remote, ghosts>>

(* The end of a uinput device releases its keys, that of the FIFO's writer *)
(* does not.                                                               *)
EndDevice == thread' = "ended" /\ down' = IF box = "raspi" THEN down ELSE {}

Leave ==
  /\ thread = "test" /\ thread_running = 0
  /\ EndDevice
  /\ UNCHANGED <<box, control, thread_running, last_code, nodec, prev, held, events, fifo,
                 ghosts>>

-----------------------------------------------------------------------------
(* libspark.                                                               *)

(* select or read fails: the loop ends, thread_running stays. *)
LircFails ==
  /\ box = "spark" /\ thread = "select"
  /\ EndDevice
  /\ UNCHANGED <<box, control, thread_running, last_code, nodec, prev, held, events, fifo,
                 ghosts>>

ReleaseSoon == 1
ReleaseAfter == 2

(* 100 ms without an edge; the silence still goes through irmp_ISR. *)
Quiet ==
  /\ box = "spark" /\ thread = "select"
  /\ thread' = "read"
  /\ nodec' = IF nodec < 2 THEN nodec + 1 ELSE nodec
  /\ IF nodec' >= ReleaseAfter
       THEN down' = down \ last_code /\ last_code' = {}
       ELSE UNCHANGED <<down, last_code>>
  /\ UNCHANGED <<box, control, thread_running, prev, held, events, fifo, ghosts>>

Edge ==
  /\ box = "spark" /\ thread = "select"
  /\ thread' = "read"
  /\ UNCHANGED <<box, control, thread_running, remote, ghosts>>

PressOnly(code, again) == down \cup (IF again THEN {} ELSE {code})
(* The keys down when `code` has been written, `value` being 1 + again:    *)
(* the last key is released, a press is one, a repetition is passed on.    *)
Written(code, again) == (down \ (last_code \ {code})) \cup (IF again THEN {} ELSE {code})

Decoded(code, again) ==
  /\ box = "spark" /\ thread = "read"
  /\ again => prev = {code} /\ nodec < 2
  /\ prev' = {code} /\ nodec' = 0
  /\ IF code \in Keys
       THEN /\ down' = Written(code, again) /\ last_code' = {code}
            /\ orphan' = (orphan \/ (again /\ code \notin down))
       ELSE UNCHANGED <<down, last_code, orphan>>
  /\ thread' = "test"
  /\ UNCHANGED <<box, control, thread_running, held, events, fifo, stillborn,
                 overtaken, restarted, gone>>

NothingDecoded ==
  /\ box = "spark" /\ thread = "read"
  /\ thread' = "test"
  /\ UNCHANGED <<box, control, thread_running, remote, ghosts>>

-----------------------------------------------------------------------------
(* libtriple and Raspberry Pi.                                             *)

Reads == box # "spark" /\ thread \in {"test", "select", "read"}
Passed == IF box = "triple" THEN Keys ELSE Codes

(* Somebody presses or releases a key. *)
Touch(k) ==
  /\ Reads /\ Len(events) < MaxEvents /\ k \notin gone
  /\ events' = Append(events, [key |-> k, press |-> k \notin held])
  /\ held' = IF k \in held THEN held \ {k} ELSE held \cup {k}
  /\ UNCHANGED <<box, control, thread_running, thread, last_code, nodec, prev, fifo, down,
                 ghosts>>

(* The wait ends with an event or after 250 ms, on Raspberry Pi 100 ms. *)
Wake ==
  /\ box # "spark" /\ thread = "select"
  /\ thread' = IF events = <<>> THEN "test" ELSE "read"
  /\ UNCHANGED <<box, control, thread_running, remote, ghosts>>

(* libtriple reads until nothing is left, Raspberry Pi one of each device, *)
(* which is lost when there is no FIFO to write it to.                     *)
Pass ==
  /\ box # "spark" /\ thread = "read" /\ events # <<>>
  /\ LET e == Head(events)
     IN down' = IF e.key \notin Passed \/ ~fifo THEN down
                ELSE IF e.press THEN down \cup {e.key} ELSE down \ {e.key}
  /\ events' = Tail(events)
  /\ thread' \in (IF box = "raspi" THEN {"read", "test"} ELSE {"read"})
  /\ UNCHANGED <<box, control, thread_running, last_code, nodec, prev, held, fifo, ghosts>>

PassedAll ==
  /\ box # "spark" /\ thread = "read" /\ events = <<>>
  /\ thread' = "test"
  /\ UNCHANGED <<box, control, thread_running, remote, ghosts>>

(* ENODEV: what the device had to say is lost.  The loop steps on from the *)
(* element of in_fds that it has just erased: it may come to the next one, *)
(* to the end, or astray, where the program ends or the thread goes on     *)
(* with what is no device, and not back to its test.                       *)
Without(q, k) ==
  LET rest[n \in 0 .. Len(q)] ==
        IF n = 0 THEN <<>>
        ELSE IF q[n].key = k THEN rest[n - 1] ELSE Append(rest[n - 1], q[n])
  IN  rest[Len(q)]
Vanish(k) ==
  /\ box = "raspi" /\ thread = "read" /\ k \notin gone
  /\ gone' = gone \cup {k} /\ held' = held \ {k}
  /\ events' = Without(events, k)
  /\ thread' \in {"read", "test", "astray"}
  /\ UNCHANGED <<box, control, thread_running, last_code, nodec, prev, fifo, down,
                 stillborn, overtaken, restarted, orphan>>

-----------------------------------------------------------------------------
Next ==
  \/ InitWithoutThread \/ InitApi \/ Started \/ Shutdown \/ Joined
  \/ NoUinput \/ NoDevice \/ Run \/ Test \/ Leave
  \/ LircFails \/ Quiet \/ Edge \/ NothingDecoded
  \/ \E code \in Codes, again \in BOOLEAN : Decoded(code, again)
  \/ Wake \/ Pass \/ PassedAll
  \/ \E k \in Codes : Touch(k) \/ Vanish(k)

-----------------------------------------------------------------------------
(* The start waits for the thread to say that it runs, the stop for its    *)
(* end: neither waits for what will not come, but for a thread that gave   *)
(* up without a word, one that had not begun its loop, and one that went   *)
(* astray when a device of Raspberry Pi vanished.                          *)
NobodyWaits ==
  /\ call = "starting" /\ thread = "ended" => thread_running # 0 \/ stillborn
  /\ call = "joining" /\ thread # "ended" =>
        (thread_running = 0 /\ thread # "astray") \/ overtaken \/ gone # {}

(* libspark makes up the releases that a remote control does not send: one *)
(* key at a time is down, until two waits of 100 ms have passed without an *)
(* edge after the last frame of any remote, and what is repeated is down,  *)
(* unless IRMP remembers a frame of before the thread's start.             *)
OneKeyAtATime ==
  box = "spark" => /\ down \subseteq last_code /\ (orphan => restarted)
                   /\ (thread = "test" /\ nodec = 2 => down = {})

(* libtriple loses no press and no release on the way.  Raspberry Pi loses *)
(* all of them when its FIFO could not be opened, those of a device that   *)
(* vanished, and everything if that leads its thread astray, but no other. *)
EventsArrive ==
  Reads /\ fifo => \A k \in Passed \ gone :
             LET mine == {i \in DOMAIN events : events[i].key = k}
             IN k \in held <=> IF mine = {} THEN k \in down
                              ELSE \E i \in mine : events[i].press /\ \A j \in mine : j <= i

InputFollows == NobodyWaits /\ OneKeyAtATime /\ EventsArrive
=============================================================================
