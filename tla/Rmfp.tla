-------------------------------- MODULE Rmfp --------------------------------
(***************************************************************************)
(* cPlayback of the azbox (azbox/playback.cpp), a wrapper around the       *)
(* program rmfp_player.  Commands go to the player through CMD_FILE, with  *)
(* a parameter in IN_FILE, and its answers come back in OUT_FILE; a thread *)
(* (run_rmfp) starts the player and reads what it prints.                  *)
(*                                                                         *)
(* Two threads call: "main", and "poll", which asks for the position.  The *)
(* player is external: it is modelled from what the code says and expects  *)
(* of it.  It takes a command, then the parameter, and answers in one or   *)
(* two files; it does not overwrite an OUT_FILE that is there.             *)
(*                                                                         *)
(* Commands and answers are of this call or of an earlier one: "age" is    *)
(* "now" until the next call of rmfp_command begins, and then "old".       *)
(***************************************************************************)
EXTENDS Naturals

CONSTANTS
  Params,     \* parameters of commands that are not answered
  Streams,    \* audio streams of the file
  MaxCount    \* bound: the count read from a buffer nobody wrote to

ASSUME RmfpAssumption ==
  Params \subseteq Nat /\ Streams \in Nat /\ MaxCount \in Nat \ {0} /\ Streams <= MaxCount

Callers == {"main", "poll"}
NoParam == 99
None == [kind |-> "none", param |-> NoParam, age |-> "old"]
Command(kind, param) == [kind |-> kind, param |-> param, age |-> "now"]
Commands ==
  [kind : {"none", "quit", "key", "set", "count", "byid", "222"},
   param : Params \cup 0 .. MaxCount - 1 \cup {NoParam}, age : {"now", "old"}]

Answered(c) == c.kind \in {"count", "byid", "222"}
Parts(c) == IF c.kind = "byid" THEN 2 ELSE 1

VARIABLES
  playing, eof, open_success, thread_started,   \* members of PBPrivate
  mutex,      \* rmfp_cmd_mutex: its holder, or "free"
  cmdFile,    \* CMD_FILE: a command, or None
  inFile,     \* IN_FILE: a parameter
  outFile,    \* OUT_FILE: a part of an answer (of which command), or None
  step,       \* of rmfp_command, by caller: "none", "lock", "in", "cmd", "wait", "second"
  command,    \* the command of the caller
  answer,     \* what the caller has read: None, or the command it answers
  clean,      \* history: did the player owe nothing when the call began?
  main,       \* the call main is in: "idle", "starting", "quit", "joining", "do", "count", "byid"
  count, aid, \* audio_count and aid of FindAllPids
  thread,     \* run_rmfp: "none", "created", "running", "ended"
  player,     \* the process: "none", "starting", "playing"
  work,       \* the command the player works on, or None
  left        \* parts of the answer it has still to write

members == <<playing, eof, open_success, thread_started>>
calling == <<mutex, step, command, answer, clean>>
finding == <<count, aid>>
process == <<thread, player, work, left>>
vars == <<members, calling, finding, process, cmdFile, inFile, outFile, main>>

Init ==
  /\ playing = 0 /\ eof = FALSE /\ open_success = FALSE /\ thread_started = FALSE
  /\ mutex = "free"
  /\ cmdFile = None /\ inFile = NoParam /\ outFile = None
  /\ step = [c \in Callers |-> "none"]
  /\ command = [c \in Callers |-> None]
  /\ answer = [c \in Callers |-> None]
  /\ clean = [c \in Callers |-> FALSE]
  /\ main = "idle" /\ count = 0 /\ aid = 0
  /\ thread = "none" /\ player = "none" /\ work = None /\ left = 0

-----------------------------------------------------------------------------
(* rmfp_command.  A call issues a command; the caller's step is then       *)
(* "lock" until it has the mutex, or "none" again when it returns.         *)
Issue(c, cmd) ==
  /\ step' = [step EXCEPT ![c] = "lock"]
  /\ command' = [command EXCEPT ![c] = cmd]
  /\ answer' = [answer EXCEPT ![c] = None]
  /\ UNCHANGED <<mutex, clean>>

Aged(cmd) == [cmd EXCEPT !.age = "old"]

\* As MayLock, but the mutex is given up before the answer has come.
MayLockAlways(c) == step[c] = "lock" /\ \A d \in Callers : step[d] \notin {"in", "cmd"}

MayLock(c) == step[c] = "lock" /\ mutex = "free"

(* unlink(OUT_FILE) *)
Unlinked == None

Begin(c) ==
  /\ MayLock(c)
  /\ mutex' = c
  /\ step' = [step EXCEPT ![c] = IF command[c].param = NoParam THEN "cmd" ELSE "in"]
  /\ clean' = [clean EXCEPT ![c] = cmdFile = None /\ work = None]
  /\ outFile' = Unlinked
  /\ cmdFile' = Aged(cmdFile) /\ work' = Aged(work)
  /\ UNCHANGED <<command, answer, inFile, main, members, finding, thread, player, left>>

(* 222 is not waited for: the call returns. *)
TryLockFails ==
  /\ step["poll"] = "lock" /\ mutex # "free"
  /\ step' = [step EXCEPT !["poll"] = "none"]
  /\ UNCHANGED <<mutex, command, answer, clean, cmdFile, inFile, outFile, main,
                 members, finding, process>>

WriteIn(c) ==
  /\ step[c] = "in"
  /\ inFile' = command[c].param
  /\ step' = [step EXCEPT ![c] = "cmd"]
  /\ UNCHANGED <<mutex, command, answer, clean, cmdFile, outFile, main,
                 members, finding, process>>

Leave(c) ==
  /\ step' = [step EXCEPT ![c] = "none"]
  /\ mutex' = "free"

WriteCmd(c) ==
  /\ step[c] = "cmd"
  /\ cmdFile' = command[c]
  /\ IF Answered(command[c]) THEN step' = [step EXCEPT ![c] = "wait"] /\ UNCHANGED mutex
     ELSE Leave(c)
  /\ UNCHANGED <<command, answer, clean, inFile, outFile, main, members, finding, process>>

(* OUT_FILE is read and removed.  A second part is looked for, but not for *)
(* long; the code that waits for it has no way to know if there is one.    *)
ReadOut(c) ==
  /\ step[c] = "wait" /\ outFile # None
  /\ answer' = [answer EXCEPT ![c] = outFile]
  /\ outFile' = None
  /\ step' = [step EXCEPT ![c] = "second"]
  /\ UNCHANGED <<mutex, command, clean, cmdFile, inFile, main, members, finding, process>>

ReadSecond(c) ==
  /\ step[c] = "second"
  /\ outFile' = None
  /\ answer' = IF outFile # None /\ outFile.age = "old"
               THEN [answer EXCEPT ![c] = outFile] ELSE answer
  /\ Leave(c)
  /\ UNCHANGED <<command, clean, cmdFile, inFile, main, members, finding, process>>

\* As TimeOut, but the mutex is not given back.
TimeOutLocked(c) ==
  /\ step[c] = "wait" /\ outFile = None
  /\ step' = [step EXCEPT ![c] = "none"]
  /\ UNCHANGED <<mutex, command, answer, clean, cmdFile, inFile, outFile, main,
                 members, finding, process>>

(* Five seconds without an answer; the command stays where it is. *)
TimeOut(c) ==
  /\ step[c] = "wait" /\ outFile = None
  /\ Leave(c)
  /\ UNCHANGED <<command, answer, clean, cmdFile, inFile, outFile, main,
                 members, finding, process>>

-----------------------------------------------------------------------------
(* The calls.  Main closes before it opens again, and starts once.         *)
Ready == main = "idle" /\ step["main"] = "none"

(* /proc/player is busy for ten seconds, or the files are cleared away. *)
Open(free) ==
  /\ Ready /\ ~open_success /\ thread = "none"
  /\ open_success' = free
  /\ IF free THEN cmdFile' = None /\ inFile' = NoParam /\ outFile' = None
     ELSE UNCHANGED <<cmdFile, inFile, outFile>>
  /\ UNCHANGED <<playing, eof, thread_started, calling, main, finding, process>>

(* pthread_create may fail; Start waits for the thread all the same. *)
Start(created) ==
  /\ Ready /\ open_success /\ thread = "none"
  /\ eof' = FALSE
  /\ thread' = IF created THEN "created" ELSE "none"
  /\ main' = "starting"
  /\ UNCHANGED <<playing, open_success, thread_started, calling, finding,
                 player, work, left, cmdFile, inFile, outFile>>

StartEnd ==
  /\ main = "starting" /\ playing # 0
  /\ playing' = IF playing = 2 THEN 0 ELSE playing
  /\ main' = "idle"
  /\ UNCHANGED <<eof, open_success, thread_started, calling, finding, process,
                 cmdFile, inFile, outFile>>

Close ==
  /\ Ready /\ (open_success \/ thread_started)
  /\ IF thread_started
     THEN Issue("main", Command("quit", NoParam)) /\ main' = "quit" /\ UNCHANGED open_success
     ELSE open_success' = FALSE /\ UNCHANGED <<calling, main>>
  /\ UNCHANGED <<playing, eof, thread_started, finding, process, cmdFile, inFile, outFile>>

CloseWritten ==
  /\ main = "quit" /\ step["main"] = "none"
  /\ main' = "joining"
  /\ UNCHANGED <<members, calling, finding, process, cmdFile, inFile, outFile>>

Joined == main = "joining" /\ thread = "ended"

CloseEnd ==
  /\ Joined
  /\ thread' = "none"
  /\ playing' = 0 /\ thread_started' = FALSE /\ open_success' = FALSE
  /\ main' = "idle"
  /\ UNCHANGED <<eof, calling, finding, player, work, left, cmdFile, inFile, outFile>>

(* SetAPid, SelectSubtitles: whether the player runs or not.  SetPosition  *)
(* and the trick speeds of SetSpeed are the same while it plays.           *)
Set(p) ==
  /\ Ready
  /\ Issue("main", Command("set", p)) /\ main' = "do"
  /\ UNCHANGED <<members, finding, process, cmdFile, inFile, outFile>>

(* SetSpeed: pause and play *)
Key ==
  /\ Ready /\ playing # 0
  /\ Issue("main", Command("key", NoParam)) /\ main' = "do"
  /\ UNCHANGED <<members, finding, process, cmdFile, inFile, outFile>>

DoEnd ==
  /\ main = "do" /\ step["main"] = "none"
  /\ main' = "idle"
  /\ UNCHANGED <<members, calling, finding, process, cmdFile, inFile, outFile>>

(* FindAllPids, and FindAllSubs, which has the same steps.  Whether an     *)
(* answer has come is not looked at: without one the count is what was in  *)
(* the buffer.                                                             *)
FindAllPids ==
  /\ Ready
  /\ Issue("main", Command("count", NoParam)) /\ main' = "count"
  /\ UNCHANGED <<members, finding, process, cmdFile, inFile, outFile>>

Counts == IF answer["main"].kind = "count" THEN {Streams} ELSE 0 .. MaxCount

\* As AskNext, but one stream more is asked for.
AskNextOneMore(n, i) ==
  IF i <= n THEN Issue("main", Command("byid", i)) /\ main' = "byid" /\ count' = n /\ aid' = i
  ELSE main' = "idle" /\ count' = 0 /\ aid' = 0 /\ UNCHANGED calling

AskNext(n, i) ==
  IF i < n THEN Issue("main", Command("byid", i)) /\ main' = "byid" /\ count' = n /\ aid' = i
  ELSE main' = "idle" /\ count' = 0 /\ aid' = 0 /\ UNCHANGED calling

FindNext ==
  /\ main \in {"count", "byid"} /\ step["main"] = "none"
  /\ IF main = "count" THEN \E n \in Counts : AskNext(n, 0) ELSE AskNext(count, aid + 1)
  /\ UNCHANGED <<members, process, cmdFile, inFile, outFile>>

(* At the end of the file, or when nothing plays, the player is not asked. *)
GetPosition ==
  /\ step["poll"] = "none"
  /\ ~eof /\ playing # 0
  /\ Issue("poll", Command("222", NoParam))
  /\ UNCHANGED <<members, main, finding, process, cmdFile, inFile, outFile>>

-----------------------------------------------------------------------------
(* run_rmfp *)
ThreadBegin(forked) ==
  /\ thread = "created"
  /\ thread_started' = TRUE
  /\ thread' = "running"
  /\ player' = IF forked THEN "starting" ELSE "none"
  /\ UNCHANGED <<playing, eof, open_success, calling, main, finding, work, left,
                 cmdFile, inFile, outFile>>

(* "Playback has started...", "End of file..." *)
ThreadReads(end) ==
  /\ thread = "running" /\ player # "none"
  /\ player' = "playing"
  /\ playing' = 1
  /\ eof' = (eof \/ end)
  /\ UNCHANGED <<open_success, thread_started, calling, main, finding, thread, work, left,
                 cmdFile, inFile, outFile>>

ThreadEnd ==
  /\ thread = "running" /\ player = "none"
  /\ playing' = IF playing = 0 THEN 2 ELSE 0
  /\ eof' = TRUE
  /\ thread' = "ended"
  /\ UNCHANGED <<open_success, thread_started, calling, main, finding, player, work, left,
                 cmdFile, inFile, outFile>>

(* rmfp_player *)
PlayerTakes ==
  /\ player = "playing" /\ work = None /\ cmdFile # None
  /\ cmdFile' = None
  /\ IF cmdFile.kind = "quit"
     THEN player' = "none" /\ UNCHANGED <<work, left>>
     ELSE /\ work' = IF Answered(cmdFile)
                     THEN [cmdFile EXCEPT !.param = IF cmdFile.param = NoParam THEN @ ELSE inFile]
                     ELSE None
          /\ left' = IF Answered(cmdFile) THEN Parts(cmdFile) ELSE 0
          /\ UNCHANGED player
  /\ UNCHANGED <<members, calling, main, finding, thread, inFile, outFile>>

PlayerAnswers ==
  /\ player = "playing" /\ work # None
  /\ outFile' = IF outFile = None THEN work ELSE outFile
  /\ left' = left - 1
  /\ work' = IF left = 1 THEN None ELSE work
  /\ UNCHANGED <<members, calling, main, finding, thread, player, cmdFile, inFile>>

PlayerExits ==
  /\ player # "none"
  /\ player' = "none" /\ work' = None /\ left' = 0
  /\ UNCHANGED <<members, calling, main, finding, thread, cmdFile, inFile, outFile>>

-----------------------------------------------------------------------------
CommandStep(c) ==
  WriteIn(c) \/ WriteCmd(c) \/ ReadOut(c) \/ ReadSecond(c) \/ TimeOut(c)
MainCall ==
  \/ \E ok \in BOOLEAN : Open(ok) \/ Start(ok)
  \/ Close \/ Key \/ FindAllPids
  \/ \E p \in Params : Set(p)
MainStep == StartEnd \/ CloseWritten \/ CloseEnd \/ DoEnd \/ FindNext
ThreadStep == (\E forked \in BOOLEAN : ThreadBegin(forked)) \/ ThreadEnd
PlayerStep == PlayerTakes \/ PlayerAnswers

Next ==
  \/ \E c \in Callers : Begin(c) \/ CommandStep(c)
  \/ TryLockFails \/ GetPosition \/ MainCall \/ MainStep \/ ThreadStep
  \/ \E end \in BOOLEAN : ThreadReads(end)
  \/ PlayerStep \/ PlayerExits

(* A call goes on, and comes by the mutex when it is free again and again; *)
(* the thread and the player run; a player that was started says so or     *)
(* exits.                                                                  *)
Fairness ==
  /\ \A c \in Callers : WF_vars(CommandStep(c)) /\ SF_vars(Begin(c))
  /\ WF_vars(MainStep) /\ WF_vars(ThreadStep) /\ WF_vars(PlayerStep)
  /\ WF_vars(player = "starting" /\ (ThreadReads(FALSE) \/ PlayerExits))

Spec == Init /\ [][Next]_vars /\ Fairness

TypeOK ==
  /\ playing \in 0 .. 2 /\ eof \in BOOLEAN
  /\ open_success \in BOOLEAN /\ thread_started \in BOOLEAN
  /\ mutex \in Callers \cup {"free"}
  /\ {cmdFile, outFile, work} \subseteq Commands
  /\ inFile \in Params \cup 0 .. MaxCount - 1 \cup {NoParam}
  /\ step \in [Callers -> {"none", "lock", "in", "cmd", "wait", "second"}]
  /\ command \in [Callers -> Commands] /\ answer \in [Callers -> Commands]
  /\ clean \in [Callers -> BOOLEAN]
  /\ main \in {"idle", "starting", "quit", "joining", "do", "count", "byid"}
  /\ count \in 0 .. MaxCount /\ aid \in 0 .. MaxCount - 1
  /\ thread \in {"none", "created", "running", "ended"}
  /\ player \in {"none", "starting", "playing"}
  /\ left \in 0 .. 2

(***************************************************************************)
(* Properties.                                                             *)
(***************************************************************************)
(* "the mutex makes sure that commands are not interspersed" (line 106):   *)
(* an answer that rmfp_command returns with is the one to its own command, *)
(* with its own parameter, whatever an earlier call that timed out or left *)
(* early has left behind, unless the player still owed something to that   *)
(* one when this one began.                                                *)
AnswerIsOwn ==
  \A c \in Callers : clean[c] /\ answer[c] # None => answer[c] = command[c]

(* The thread came to its end between two looks of Start at playing, or    *)
(* was never created: Start waits for ever.                                *)
StartMissed == main = "starting" /\ playing = 0 /\ thread \in {"none", "ended"}

(* GetPosition wrote its command over the QUIT that the player had not yet *)
(* taken: Close waits for a player that does not end.                      *)
QuitOverwritten == main = "joining" /\ player # "none" /\ cmdFile.kind # "quit"

(* Every call returns, though answers are late, get lost or belong to      *)
(* others, the player exits or does not start, and the position is asked   *)
(* for all the time, but for the two cases above.                          *)
CallsReturn ==
  /\ main = "starting" ~> main = "idle" \/ StartMissed
  /\ main \in {"quit", "joining"} ~> main = "idle" \/ QuitOverwritten
  /\ main \in {"do", "count", "byid"} ~> main = "idle"
=============================================================================
