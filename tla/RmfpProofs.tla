----------------------------- MODULE RmfpProofs -----------------------------
(***************************************************************************)
(* TLAPS proofs about Rmfp, for any parameters and numbers of streams;     *)
(* about RemoteInput and CPlayback as MCRmfp instantiates them, for any    *)
(* keys and any speeds; and about their composition.                       *)
(*                                                                         *)
(* Rmfp's commands are exchanged in files, which an earlier call may have  *)
(* left behind: the invariant says whose they are, for every step of       *)
(* rmfp_command and of the player.                                         *)
(***************************************************************************)
EXTENDS MCRmfp, FiniteSets, FiniteSetTheorems, SequenceTheorems, TLAPS

(* Something is left to answer of a command that is answered, and of no    *)
(* other.                                                                  *)
Owed ==
  /\ work = None \/ Answered(work)
  /\ work = None <=> left = 0

Holding == {"in", "cmd", "wait", "second"}

(* Who is in the middle of a command has the mutex; no answer is there     *)
(* before one was read; and no command is older than the call it is of.    *)
Call(c) ==
  /\ step[c] \in Holding <=> mutex = c
  /\ step[c] \in {"lock", "in", "cmd", "wait"} => answer[c] = None
  /\ step[c] # "none" => command[c].age = "now"

(* When the player owed nothing as the call began, what lies in the files  *)
(* and what the player works on is the call's own, and the parameter is    *)
(* there before the command.                                               *)
Own(c) ==
  /\ step[c] \in {"in", "cmd"} => cmdFile = None /\ work = None /\ outFile = None
  /\ cmdFile \in {None, command[c]} /\ work \in {None, command[c]}
  /\ outFile \in {None, command[c]}
  /\ step[c] = "in" => command[c].param # NoParam
  /\ step[c] = "cmd" \/ cmdFile # None => command[c].param \in {NoParam, inFile}

(* The thread that asks for the position sends no parameter. *)
PollPlain == step["poll"] # "none" => command["poll"].param = NoParam

Callings ==
  /\ PollPlain /\ AnswerIsOwn
  /\ \A c \in Callers : Call(c) /\ (clean[c] /\ mutex = c => Own(c))

IInv == TypeOK /\ Owed /\ Callings

-----------------------------------------------------------------------------
(* Commands are records with a kind, a parameter and an age. *)
LEMMA NoneIsCommand == None \in Commands
BY DEF None, Commands

LEMMA CommandIsCommand ==
  ASSUME NEW kind \in {"quit", "key", "set", "count", "byid", "222"},
         NEW p \in Params \cup 0 .. MaxCount - 1 \cup {NoParam}
  PROVE  /\ Command(kind, p) \in Commands
         /\ Command(kind, p).age = "now" /\ Command(kind, p).param = p
         /\ Command(kind, p).kind = kind
BY DEF Command, Commands

LEMMA CommandParam ==
  ASSUME NEW cmd \in Commands
  PROVE  cmd.param \in Params \cup 0 .. MaxCount - 1 \cup {NoParam}
BY DEF Commands

LEMMA AgedIsCommand ==
  ASSUME NEW cmd \in Commands
  PROVE  /\ Aged(cmd) \in Commands /\ Aged(cmd).kind = cmd.kind
         /\ cmd = None => Aged(cmd) = None
BY DEF Aged, Commands, None

(* What Issue does to the caller, and to the other one. *)
LEMMA IssueTypes ==
  ASSUME TypeOK, NEW c \in Callers, NEW cmd \in Commands, Issue(c, cmd)
  PROVE  /\ step' \in [Callers -> {"none", "lock", "in", "cmd", "wait", "second"}]
         /\ command' \in [Callers -> Commands] /\ answer' \in [Callers -> Commands]
         /\ mutex' = mutex /\ clean' = clean
         /\ step'[c] = "lock" /\ command'[c] = cmd /\ answer'[c] = None
         /\ \A d \in Callers : d # c =>
              step'[d] = step[d] /\ command'[d] = command[d] /\ answer'[d] = answer[d]
BY NoneIsCommand DEF TypeOK, Issue

(* A new call disturbs no other. *)
LEMMA IssueCallings ==
  ASSUME TypeOK, Callings, NEW c \in Callers, NEW cmd \in Commands, Issue(c, cmd),
         step[c] = "none", cmd.age = "now", c = "poll" => cmd.param = NoParam,
         UNCHANGED <<cmdFile, inFile, outFile, work>>
  PROVE  Callings'
<1>1. /\ mutex' = mutex /\ clean' = clean /\ mutex # c
      /\ step'[c] = "lock" /\ command'[c] = cmd /\ answer'[c] = None
      /\ \A d \in Callers : d # c =>
           step'[d] = step[d] /\ command'[d] = command[d] /\ answer'[d] = answer[d]
  BY IssueTypes DEF Callings, Call, Holding
<1>2. PollPlain'
  BY <1>1 DEF Callings, PollPlain, Callers
<1>3. AnswerIsOwn'
  BY <1>1 DEF Callings, AnswerIsOwn
<1>4. ASSUME NEW d \in Callers PROVE Call(d)'
  BY <1>1 DEF Callings, Call, Holding
<1>5. ASSUME NEW d \in Callers, clean'[d], mutex' = d PROVE Own(d)'
  BY <1>1, <1>5 DEF Callings, Own
<1> QED
  BY <1>2, <1>3, <1>4, <1>5 DEF Callings

(* Nor does a step that leaves calls and files alone. *)
LEMMA StillCallings ==
  ASSUME Callings, UNCHANGED <<calling, cmdFile, inFile, outFile, work>>
  PROVE  Callings'
BY DEF Callings, PollPlain, AnswerIsOwn, Call, Own, calling

-----------------------------------------------------------------------------
(* rmfp_command, step by step. *)

(* The mutex is taken: of what was left behind nothing is of this call. *)
LEMMA BeginCallings ==
  ASSUME TypeOK, Owed, Callings, NEW c \in Callers, Begin(c)
  PROVE  Callings'
<1>1. /\ step[c] = "lock" /\ mutex = "free" /\ mutex' = c
      /\ step'[c] = IF command[c].param = NoParam THEN "cmd" ELSE "in"
      /\ \A d \in Callers : d # c => step'[d] = step[d] /\ clean'[d] = clean[d]
      /\ clean'[c] = (cmdFile = None /\ work = None)
      /\ command' = command /\ answer' = answer /\ inFile' = inFile
      /\ outFile' = None /\ cmdFile' = Aged(cmdFile) /\ work' = Aged(work)
  BY DEF Begin, MayLock, Unlinked, TypeOK
<1>2. answer[c] = None
  BY <1>1 DEF Callings, Call
<1>3. PollPlain'
  BY <1>1 DEF Callings, PollPlain, Callers
<1>4. AnswerIsOwn'
  BY <1>1, <1>2 DEF Callings, AnswerIsOwn
<1>5. ASSUME NEW d \in Callers PROVE Call(d)'
  BY <1>1, <1>2 DEF Callings, Call, Holding, Callers
<1>6. ASSUME NEW d \in Callers, clean'[d], mutex' = d PROVE Own(d)'
  <2>1. d = c /\ cmdFile' = None /\ work' = None /\ outFile' = None
    BY <1>1, <1>6, AgedIsCommand DEF TypeOK
  <2> QED
    BY <1>1, <2>1 DEF Own
<1> QED
  BY <1>3, <1>4, <1>5, <1>6 DEF Callings

(* The parameter, and then the command, are written. *)
LEMMA WriteInCallings ==
  ASSUME TypeOK, Callings, NEW c \in Callers, WriteIn(c)
  PROVE  Callings'
<1>1. /\ step[c] = "in" /\ step'[c] = "cmd"
      /\ \A d \in Callers : d # c => step'[d] = step[d]
      /\ inFile' = command[c].param
      /\ UNCHANGED <<mutex, command, answer, clean, cmdFile, outFile, work>>
  BY DEF WriteIn, TypeOK, process
<1>2. mutex = c
  BY <1>1 DEF Callings, Call, Holding
<1>3. PollPlain'
  BY <1>1 DEF Callings, PollPlain, Callers
<1>4. AnswerIsOwn'
  BY <1>1 DEF Callings, AnswerIsOwn
<1>5. ASSUME NEW d \in Callers PROVE Call(d)'
  BY <1>1 DEF Callings, Call, Holding
<1>6. ASSUME NEW d \in Callers, clean'[d], mutex' = d PROVE Own(d)'
  BY <1>1, <1>2, <1>6 DEF Callings, Own
<1> QED
  BY <1>3, <1>4, <1>5, <1>6 DEF Callings

(* The call waits for an answer only if there will be one. *)
LEMMA WriteCmdCallings ==
  ASSUME TypeOK, Callings, NEW c \in Callers, WriteCmd(c)
  PROVE  Callings'
<1>1. /\ step[c] = "cmd" /\ cmdFile' = command[c]
      /\ \/ step'[c] = "wait" /\ mutex' = mutex
         \/ step'[c] = "none" /\ mutex' = "free"
      /\ \A d \in Callers : d # c => step'[d] = step[d]
      /\ UNCHANGED <<command, answer, clean, inFile, outFile, work>>
  <2>1. CASE Answered(command[c])
    BY <2>1 DEF WriteCmd, TypeOK, process
  <2>2. CASE ~Answered(command[c])
    BY <2>2 DEF WriteCmd, Leave, TypeOK, process
  <2> QED
    BY <2>1, <2>2
<1>2. mutex = c
  BY <1>1 DEF Callings, Call, Holding
<1>3. PollPlain'
  BY <1>1 DEF Callings, PollPlain, Callers
<1>4. AnswerIsOwn'
  BY <1>1 DEF Callings, AnswerIsOwn
<1>5. ASSUME NEW d \in Callers PROVE Call(d)'
  BY <1>1, <1>2 DEF Callings, Call, Holding, Callers
<1>6. ASSUME NEW d \in Callers, clean'[d], mutex' = d PROVE Own(d)'
  BY <1>1, <1>2, <1>6 DEF Callings, Own, Callers
<1> QED
  BY <1>3, <1>4, <1>5, <1>6 DEF Callings

(* What is read is what lies there, and that is the call's own. *)
LEMMA ReadOutCallings ==
  ASSUME TypeOK, Callings, NEW c \in Callers, ReadOut(c)
  PROVE  Callings'
<1>1. /\ step[c] = "wait" /\ step'[c] = "second"
      /\ answer'[c] = outFile /\ outFile' = None
      /\ \A d \in Callers : d # c => step'[d] = step[d] /\ answer'[d] = answer[d]
      /\ UNCHANGED <<mutex, command, clean, cmdFile, inFile, work>>
  BY DEF ReadOut, TypeOK, process
<1>2. mutex = c
  BY <1>1 DEF Callings, Call, Holding
<1>3. PollPlain'
  BY <1>1 DEF Callings, PollPlain, Callers
<1>4. AnswerIsOwn'
  BY <1>1, <1>2 DEF Callings, AnswerIsOwn, Own
<1>5. ASSUME NEW d \in Callers PROVE Call(d)'
  BY <1>1 DEF Callings, Call, Holding
<1>6. ASSUME NEW d \in Callers, clean'[d], mutex' = d PROVE Own(d)'
  BY <1>1, <1>2, <1>6 DEF Callings, Own
<1> QED
  BY <1>3, <1>4, <1>5, <1>6 DEF Callings

(* A second part from an earlier call would be taken for this one's: when  *)
(* the player owed nothing there is none.                                  *)
LEMMA ReadSecondCallings ==
  ASSUME TypeOK, Callings, NEW c \in Callers, ReadSecond(c)
  PROVE  Callings'
<1>1. /\ step[c] = "second" /\ step'[c] = "none" /\ mutex' = "free"
      /\ answer'[c] \in {answer[c], outFile}
      /\ \A d \in Callers : d # c => step'[d] = step[d] /\ answer'[d] = answer[d]
      /\ UNCHANGED <<command, clean>>
  BY DEF ReadSecond, Leave, TypeOK
<1>2. mutex = c
  BY <1>1 DEF Callings, Call, Holding
<1>3. PollPlain'
  BY <1>1 DEF Callings, PollPlain, Callers
<1>4. AnswerIsOwn'
  BY <1>1, <1>2 DEF Callings, AnswerIsOwn, Own
<1>5. ASSUME NEW d \in Callers PROVE Call(d)'
  BY <1>1, <1>2 DEF Callings, Call, Holding, Callers
<1> QED
  BY <1>1, <1>3, <1>4, <1>5 DEF Callings, Callers

(* A call returns without an answer. *)
LEMMA NoAnswerCallings ==
  ASSUME TypeOK, Callings, NEW c \in Callers, TimeOut(c)
  PROVE  Callings'
<1>1. /\ step[c] = "wait" /\ step'[c] = "none" /\ mutex' = "free"
      /\ \A d \in Callers : d # c => step'[d] = step[d]
      /\ UNCHANGED <<command, answer, clean>>
  BY DEF TimeOut, Leave, TypeOK
<1>2. mutex = c
  BY <1>1 DEF Callings, Call, Holding
<1>3. PollPlain' /\ AnswerIsOwn'
  BY <1>1 DEF Callings, PollPlain, AnswerIsOwn, Callers
<1>4. ASSUME NEW d \in Callers PROVE Call(d)'
  BY <1>1, <1>2 DEF Callings, Call, Holding, Callers
<1> QED
  BY <1>1, <1>3, <1>4 DEF Callings, Callers

LEMMA TryLockFailsCallings ==
  ASSUME TypeOK, Callings, TryLockFails
  PROVE  Callings'
<1>1. /\ step["poll"] = "lock" /\ step'["poll"] = "none" /\ step'["main"] = step["main"]
      /\ UNCHANGED <<mutex, command, answer, clean, cmdFile, inFile, outFile, work>>
  BY DEF TryLockFails, TypeOK, Callers, process
<1>2. PollPlain' /\ AnswerIsOwn'
  BY <1>1 DEF Callings, PollPlain, AnswerIsOwn
<1>3. ASSUME NEW d \in Callers PROVE Call(d)'
  BY <1>1 DEF Callings, Call, Holding, Callers
<1>4. ASSUME NEW d \in Callers, clean'[d], mutex' = d PROVE Own(d)'
  BY <1>1, <1>4 DEF Callings, Own, Call, Holding, Callers
<1> QED
  BY <1>2, <1>3, <1>4 DEF Callings

-----------------------------------------------------------------------------
(* The other steps that touch the files. *)

(* Open clears them away; the only call that may be under way is a poll's. *)
LEMMA OpenCallings ==
  ASSUME TypeOK, Callings, NEW free \in BOOLEAN, Open(free)
  PROVE  Callings'
<1>1. /\ step["main"] = "none" /\ UNCHANGED <<calling, work>>
      /\ \/ UNCHANGED <<cmdFile, inFile, outFile>>
         \/ cmdFile' = None /\ inFile' = NoParam /\ outFile' = None
  BY DEF Open, Ready, process
<1>2. PollPlain' /\ AnswerIsOwn' /\ \A c \in Callers : Call(c)'
  BY <1>1 DEF Callings, PollPlain, AnswerIsOwn, Call, calling
<1>3. ASSUME NEW c \in Callers, clean[c], mutex = c PROVE Own(c)'
  <2>1. c = "poll" /\ command[c].param = NoParam
    BY <1>1, <1>3 DEF Callings, PollPlain, Call, Holding, Callers
  <2> QED
    BY <1>1, <1>3, <2>1 DEF Callings, Own, calling
<1> QED
  BY <1>1, <1>2, <1>3 DEF Callings, calling

(* The player takes the command with the parameter it finds. *)
LEMMA PlayerTakesCallings ==
  ASSUME TypeOK, Callings, PlayerTakes
  PROVE  Callings'
<1>1. /\ UNCHANGED <<calling, inFile,
                     outFile>> /\ cmdFile # None /\ work = None /\ cmdFile' = None
      /\ \/ work' = None
         \/ work' = [cmdFile EXCEPT !.param = IF cmdFile.param = NoParam THEN @ ELSE inFile]
  BY DEF PlayerTakes
<1>2. PollPlain' /\ AnswerIsOwn' /\ \A c \in Callers : Call(c)'
  BY <1>1 DEF Callings, PollPlain, AnswerIsOwn, Call, calling
<1>3. ASSUME NEW c \in Callers, clean[c], mutex = c PROVE Own(c)'
  <2>1. cmdFile = command[c] /\ command[c].param \in {NoParam, inFile} /\ command[c] \in Commands
    BY <1>1, <1>3 DEF Callings, Own, TypeOK
  <2>2. work' \in {None, command[c]}
    BY <1>1, <2>1 DEF Commands
  <2> QED
    BY <1>1, <1>3, <2>2 DEF Callings, Own, calling
<1> QED
  BY <1>1, <1>2, <1>3 DEF Callings, calling

(* It answers what it works on, or exits. *)
LEMMA PlayerCallings ==
  ASSUME TypeOK, Callings, PlayerAnswers \/ PlayerExits
  PROVE  Callings'
<1>1. /\ UNCHANGED <<calling, cmdFile, inFile>>
      /\ outFile' \in {outFile, work} /\ work' \in {None, work}
      /\ outFile' = outFile \/ work # None
  BY DEF PlayerAnswers, PlayerExits
<1>2. PollPlain' /\ AnswerIsOwn' /\ \A c \in Callers : Call(c)'
  BY <1>1 DEF Callings, PollPlain, AnswerIsOwn, Call, calling
<1>3. ASSUME NEW c \in Callers, clean[c], mutex = c PROVE Own(c)'
  BY <1>1, <1>3 DEF Callings, Own, calling
<1> QED
  BY <1>1, <1>2, <1>3 DEF Callings, calling

-----------------------------------------------------------------------------
(* The types. *)
LEMMA TypesStep ==
  ASSUME TypeOK, Owed, [Next]_vars
  PROVE  TypeOK' /\ Owed'
<1> USE NoneIsCommand, RmfpAssumption DEF RmfpAssumption, TypeOK, Owed, vars, members, calling,
    finding, process
<1>1. ASSUME NEW c \in Callers, Begin(c) PROVE TypeOK' /\ Owed'
  <2>1. /\ Aged(cmdFile) \in Commands /\ Aged(work) \in Commands /\ Aged(work).kind = work.kind
        /\ work = None => Aged(work) = None
    BY AgedIsCommand
  <2>2. step' \in [Callers -> {"none", "lock", "in", "cmd", "wait", "second"}]
    BY <1>1 DEF Begin
  <2>3. clean' \in [Callers -> BOOLEAN]
    BY <1>1 DEF Begin
  <2>4. UNCHANGED <<playing, eof, open_success, thread_started, inFile, command, answer, main,
                    count, aid,
                    thread, player, left>>
    BY <1>1, Zenon DEF Begin
  <2>5. mutex' = c /\ outFile' = None /\ cmdFile' = Aged(cmdFile) /\ work' = Aged(work)
    BY <1>1 DEF Begin, Unlinked
  <2>6. Owed'
    BY <2>1, <2>4, <2>5 DEF Answered, None
  <2> QED
    BY <2>1, <2>2, <2>3, <2>4, <2>5, <2>6
<1>2. ASSUME NEW c \in Callers, WriteIn(c) PROVE TypeOK' /\ Owed'
  BY <1>2, CommandParam DEF WriteIn
<1>3. ASSUME NEW c \in Callers, WriteCmd(c) PROVE TypeOK' /\ Owed'
  BY <1>3 DEF WriteCmd, Leave
<1>4. ASSUME NEW c \in Callers, ReadOut(c) PROVE TypeOK' /\ Owed'
  BY <1>4 DEF ReadOut
<1>5. ASSUME NEW c \in Callers, ReadSecond(c) PROVE TypeOK' /\ Owed'
  BY <1>5 DEF ReadSecond, Leave
<1>6. ASSUME NEW c \in Callers, TimeOut(c) PROVE TypeOK' /\ Owed'
  BY <1>6 DEF TimeOut, Leave
<1>7. CASE TryLockFails
  BY <1>7 DEF TryLockFails, Callers
<1>8. CASE GetPosition
  <2>1. Command("222", NoParam) \in Commands
    BY CommandIsCommand
  <2>2. Issue("poll", Command("222", NoParam)) /\ UNCHANGED <<members, finding, process,
                                                              cmdFile, inFile, outFile>>
    BY <1>8 DEF GetPosition
  <2>3. main' \in {main, "idle"}
    BY <1>8 DEF GetPosition
  <2> HIDE DEF Issue
  <2> QED
    BY <2>1, <2>2, <2>3, IssueTypes DEF Callers
<1>9. ASSUME NEW free \in BOOLEAN, Open(free) PROVE TypeOK' /\ Owed'
  BY <1>9 DEF Open
<1>10. ASSUME NEW created \in BOOLEAN, Start(created) PROVE TypeOK' /\ Owed'
  BY <1>10 DEF Start
<1>11. CASE Close
  <2>1. CASE thread_started
    <3>1. Command("quit", NoParam) \in Commands
      BY CommandIsCommand
    <3>2. /\ Issue("main", Command("quit", NoParam)) /\ main' = "quit"
          /\ UNCHANGED <<members, finding, process, cmdFile, inFile, outFile>>
      BY <1>11, <2>1 DEF Close
    <3> QED
      BY <3>1, <3>2, IssueTypes DEF Callers
  <2>2. CASE ~thread_started
    BY <1>11, <2>2 DEF Close
  <2> QED
    BY <2>1, <2>2
<1>12. CASE Key
  <2>1. Command("key", NoParam) \in Commands
    BY CommandIsCommand
  <2>2. Issue("main", Command("key", NoParam)) /\ UNCHANGED <<members, finding, process,
                                                              cmdFile, inFile, outFile>>
    BY <1>12 DEF Key
  <2>3. main' \in {main, "do"}
    BY <1>12 DEF Key
  <2> HIDE DEF Issue
  <2> QED
    BY <2>1, <2>2, <2>3, IssueTypes DEF Callers
<1>13. CASE FindAllPids
  <2>1. Command("count", NoParam) \in Commands
    BY CommandIsCommand
  <2>2. Issue("main", Command("count", NoParam)) /\ UNCHANGED <<members, finding, process,
                                                                cmdFile, inFile, outFile>>
    BY <1>13 DEF FindAllPids
  <2>3. main' \in {main, "count"}
    BY <1>13 DEF FindAllPids
  <2> HIDE DEF Issue
  <2> QED
    BY <2>1, <2>2, <2>3, IssueTypes DEF Callers
<1>14. ASSUME NEW p \in Params, Set(p) PROVE TypeOK' /\ Owed'
  BY <1>14, IssueTypes, CommandIsCommand DEF Set, Callers
<1>15. CASE StartEnd
  BY <1>15 DEF StartEnd
<1>16. CASE CloseWritten
  BY <1>16 DEF CloseWritten
<1>17. CASE CloseEnd
  <2>1. /\ thread' = "none" /\ playing' = 0 /\ thread_started' = FALSE /\ open_success' = FALSE
        /\ main' = "idle"
        /\ UNCHANGED <<eof, calling, finding, player, work, left, cmdFile, inFile, outFile>>
    BY <1>17 DEF CloseEnd
  <2>2. eof' \in BOOLEAN /\ open_success' \in BOOLEAN /\ thread_started' \in BOOLEAN
    BY <2>1, Zenon
  <2>3. main' \in {"idle"} /\ thread' \in {"none"}
    BY <2>1
  <2> QED
    BY <2>1, <2>2, <2>3
<1>18. CASE DoEnd
  BY <1>18 DEF DoEnd
<1>19. CASE FindNext
  <2>1. PICK n \in 0 .. MaxCount, i \in Nat : AskNext(n, i)
    BY <1>19 DEF FindNext, Counts
  <2>2. UNCHANGED <<members, process, cmdFile, inFile, outFile>>
    BY <1>19 DEF FindNext
  <2>3. CASE i < n
    BY <2>1, <2>2, <2>3, IssueTypes, CommandIsCommand DEF AskNext, Callers
  <2>4. CASE ~(i < n)
    BY <2>1, <2>2, <2>4 DEF AskNext
  <2> QED
    BY <2>3, <2>4
<1>20. ASSUME NEW forked \in BOOLEAN, ThreadBegin(forked) PROVE TypeOK' /\ Owed'
  BY <1>20 DEF ThreadBegin
<1>21. CASE ThreadEnd
  BY <1>21 DEF ThreadEnd
<1>22. ASSUME NEW end \in BOOLEAN, ThreadReads(end) PROVE TypeOK' /\ Owed'
  BY <1>22 DEF ThreadReads
<1>23. CASE PlayerTakes
  <2>1. CASE cmdFile.kind = "quit" \/ ~Answered(cmdFile)
    BY <1>23, <2>1 DEF PlayerTakes
  <2>2. CASE cmdFile.kind # "quit" /\ Answered(cmdFile)
    <3> DEFINE w == [cmdFile EXCEPT !.param = IF cmdFile.param = NoParam THEN @ ELSE inFile]
    <3>1. w \in Commands /\ w.kind = cmdFile.kind
      BY DEF Commands
    <3>2. work' = w /\ left' = Parts(cmdFile)
      BY <1>23, <2>2 DEF PlayerTakes
    <3>3. work' # None /\ Answered(work')
      BY <2>2, <3>1, <3>2 DEF Answered, None
    <3>4. left' \in 1 .. 2
      BY <3>2 DEF Parts
    <3>5. UNCHANGED <<members, calling, main, finding, thread, player, inFile,
                      outFile>> /\ cmdFile' = None
      BY <1>23, <2>2 DEF PlayerTakes
    <3> HIDE DEF w
    <3> QED
      BY <3>1, <3>2, <3>3, <3>4, <3>5
  <2> QED
    BY <2>1, <2>2
<1>24. CASE PlayerAnswers
  BY <1>24 DEF PlayerAnswers
<1>25. CASE PlayerExits
  BY <1>25 DEF PlayerExits
<1>26. CASE UNCHANGED vars
  BY <1>26
<1> QED
  BY <1>1, <1>2, <1>3, <1>4, <1>5, <1>6, <1>7, <1>8, <1>9, <1>10, <1>11,
     <1>12, <1>13, <1>14, <1>15, <1>16, <1>17, <1>18, <1>19, <1>20, <1>21,
     <1>22, <1>23, <1>24, <1>25, <1>26
     DEF Next, CommandStep, MainCall, MainStep, ThreadStep, PlayerStep

LEMMA CallingsStep ==
  ASSUME TypeOK, Owed, Callings, [Next]_vars
  PROVE  Callings'
<1> USE CommandIsCommand DEF Ready, Callers
<1>1. ASSUME NEW c \in Callers, Begin(c) \/ CommandStep(c) PROVE Callings'
  BY <1>1, BeginCallings, WriteInCallings, WriteCmdCallings, ReadOutCallings, ReadSecondCallings,
     NoAnswerCallings DEF CommandStep
<1>2. CASE TryLockFails
  BY <1>2, TryLockFailsCallings
<1>3. CASE GetPosition
  BY <1>3, IssueCallings DEF GetPosition, process
<1>4. ASSUME NEW free \in BOOLEAN, Open(free) PROVE Callings'
  BY <1>4, OpenCallings
<1>5. CASE Close
  <2>1. CASE thread_started
    BY <1>5, <2>1, IssueCallings DEF Close, process
  <2>2. CASE ~thread_started
    BY <1>5, <2>2, StillCallings DEF Close, process
  <2> QED
    BY <2>1, <2>2
<1>6. CASE Key
  BY <1>6, IssueCallings DEF Key, process
<1>7. CASE FindAllPids
  BY <1>7, IssueCallings DEF FindAllPids, process
<1>8. ASSUME NEW p \in Params, Set(p) PROVE Callings'
  BY <1>8, IssueCallings DEF Set, process
<1>9. CASE FindNext
  <2>1. PICK n \in 0 .. MaxCount, i \in Nat : AskNext(n, i)
    BY <1>9, RmfpAssumption DEF RmfpAssumption, FindNext, Counts, TypeOK
  <2>2. step["main"] = "none" /\ UNCHANGED <<cmdFile, inFile, outFile, work>>
    BY <1>9 DEF FindNext, process
  <2>3. CASE i < n
    <3>1. i \in 0 .. MaxCount - 1 /\ Issue("main", Command("byid", i))
      BY <2>1, <2>3, RmfpAssumption DEF RmfpAssumption, AskNext
    <3> QED
      BY <2>2, <3>1, IssueCallings
  <2>4. CASE ~(i < n)
    BY <2>1, <2>2, <2>4, StillCallings DEF AskNext
  <2> QED
    BY <2>3, <2>4
<1>10. CASE PlayerTakes
  BY <1>10, PlayerTakesCallings
<1>11. CASE PlayerAnswers \/ PlayerExits
  BY <1>11, PlayerCallings
<1>12. CASE \/ \E created \in BOOLEAN : Start(created)
           \/ \E forked \in BOOLEAN : ThreadBegin(forked)
           \/ \E end \in BOOLEAN : ThreadReads(end)
           \/ StartEnd \/ CloseWritten \/ CloseEnd \/ DoEnd \/ ThreadEnd \/ UNCHANGED vars
  <2>1. UNCHANGED <<calling, cmdFile, inFile, outFile, work>>
    BY <1>12 DEF Start, StartEnd, CloseWritten, CloseEnd, DoEnd, ThreadBegin, ThreadEnd,
       ThreadReads,
                 vars, process
  <2> QED
    BY <2>1, StillCallings
<1> QED
  BY <1>1, <1>2, <1>3, <1>4, <1>5, <1>6, <1>7, <1>8, <1>9, <1>10, <1>11, <1>12
     DEF Next, MainCall, MainStep, ThreadStep, PlayerStep

LEMMA InitIInv == Init => IInv
<1> SUFFICES ASSUME Init PROVE IInv
  OBVIOUS
<1>1. TypeOK
  <2>1. /\ step \in [Callers -> {"none", "lock", "in", "cmd", "wait", "second"}]
        /\ command \in [Callers -> Commands] /\ answer \in [Callers -> Commands]
        /\ clean \in [Callers -> BOOLEAN]
    BY NoneIsCommand DEF Init
  <2>2. count \in 0 .. MaxCount /\ aid \in 0 .. MaxCount - 1
    BY RmfpAssumption DEF RmfpAssumption, Init
  <2>3. {cmdFile, outFile, work} \subseteq Commands
    BY NoneIsCommand DEF Init
  <2>4. inFile \in Params \cup 0 .. MaxCount - 1 \cup {NoParam}
    BY DEF Init
  <2>5. playing \in 0 .. 2 /\ left \in 0 .. 2
    BY DEF Init
  <2> QED
    BY <2>1, <2>2, <2>3, <2>4, <2>5 DEF Init, TypeOK
<1>2. Owed
  BY DEF Init, Owed
<1>3. Callings
  BY DEF Init, Callings, PollPlain, AnswerIsOwn, Call, Own, Holding, Callers
<1> QED
  BY <1>1, <1>2, <1>3 DEF IInv

LEMMA Invariance == Spec => []IInv
<1>1. IInv /\ [Next]_vars => IInv'
  BY TypesStep, CallingsStep DEF IInv
<1> QED
  BY InitIInv, <1>1, PTL DEF Spec

-----------------------------------------------------------------------------
(* Members, mutex, files and the calls' steps stay in their ranges, the    *)
(* parts of an answer that are left among them (rmfp_command, run_rmfp).   *)
THEOREM RmfpTypes == Spec => []TypeOK
<1>1. IInv => TypeOK
  BY DEF IInv
<1> QED
  BY Invariance, <1>1, PTL

(* "the mutex makes sure that commands are not interspersed" (line 106 of  *)
(* azbox/playback.cpp): the answer rmfp_command returns with is the one to *)
(* its own command and parameter, unless the player still owed something   *)
(* when the call began: for any parameters, numbers of streams, late       *)
(* answers, exits of the player and calls of the two threads.              *)
THEOREM AnswersAreOwn == Spec => []AnswerIsOwn
<1>1. IInv => AnswerIsOwn
  BY DEF IInv, Callings
<1> QED
  BY Invariance, <1>1, PTL

-----------------------------------------------------------------------------
(* RemoteInput, as MCRmfp instantiates it.                                 *)
Dead == {"none", "ended"}
Loop == {"test", "select", "read"}
RemoteTypes ==
  /\ box \in {"spark", "triple", "raspi"} /\ call \in {"idle", "starting", "joining"}
  /\ thread_running \in 0 .. 2 /\ inputThread \in Dead \cup Loop \cup {"opening", "astray"}
  /\ last_code = {} \/ \E k \in Keys : last_code = {k}
  /\ nodec \in 0 .. 2
  /\ prev \subseteq Remote!Codes /\ held \subseteq Remote!Codes
  /\ fifo \in BOOLEAN /\ (box # "raspi" => fifo)
  /\ down \subseteq Remote!Codes /\ gone \subseteq Remote!Codes
  /\ events \in Seq(Remote!Event) /\ Len(events) <= 2
RemoteFlags ==
  /\ initialized \in BOOLEAN /\ stillborn \in BOOLEAN /\ overtaken \in BOOLEAN
  /\ restarted \in BOOLEAN /\ orphan \in BOOLEAN

(* Who starts the thread waits for it as long as it has said nothing; who  *)
(* stops it has cleared thread_running, which it does not set again unless *)
(* it had not begun; and without a thread thread_running is 0, but on      *)
(* Raspberry Pi.  A thread goes astray when a device vanishes.             *)
RemoteThread ==
  /\ inputThread = "astray" => box = "raspi" /\ gone # {}
  /\ call = "starting" =>
       /\ box # "raspi"
       /\ inputThread \in Loop => thread_running # 0
       /\ inputThread = "ended" => thread_running # 0 \/ stillborn
       /\ inputThread = "opening" => thread_running = 0
  /\ call = "joining" =>
       /\ thread_running = 0 \/ overtaken \/ inputThread = "ended"
       /\ inputThread = "opening" => overtaken
  /\ box # "raspi" =>
       /\ inputThread = "opening" => call = "starting"
       /\ thread_running = 2 => inputThread = "ended"
       /\ call = "idle" /\ (~initialized \/ thread_running = 0) =>
            inputThread \in Dead /\ thread_running = 0
       /\ call = "joining" => thread_running = 0

(* IRMP remembers the last frame; what it remembers of this thread's time  *)
(* is down until the release.                                              *)
RemoteKeys ==
  /\ box = "spark" => down \subseteq last_code /\ (nodec = 2 => down = {})
  /\ (orphan => restarted) /\ (restarted => prev # {})
  /\ inputThread \in {"none", "opening"} => down = {}
  /\ box # "raspi" /\ inputThread = "ended" => down = {}
  /\ inputThread = "opening" => held = {} /\ events = <<>>
  /\ box = "spark" /\ inputThread \notin Dead /\ ~restarted /\ nodec < 2 =>
       prev \cap Keys \subseteq down
RemoteInv ==
  RemoteTypes /\ RemoteFlags /\ RemoteThread /\ RemoteKeys /\ Remote!EventsArrive

(* What Without leaves of a queue of at most two events. *)
LEMMA WithoutIs ==
  ASSUME NEW W, NEW q \in Seq(W), Len(q) <= 2, NEW k
  PROVE  LET r == Remote!Without(q, k) IN
         /\ r \in Seq(W) /\ Len(r) <= 2
         /\ \A c : c # k =>
              LET mine == {i \in DOMAIN q : q[i].key = c}
                  kept == {i \in DOMAIN r : r[i].key = c}
              IN  /\ kept = {} <=> mine = {}
                  /\ (\E i \in kept : r[i].press /\ \A j \in kept : j <= i)
                       <=> (\E i \in mine : q[i].press /\ \A j \in mine : j <= i)
<1> DEFINE one == IF q[1].key = k THEN <<>> ELSE <<q[1]>>
           two == IF q[2].key = k THEN one ELSE Append(one, q[2])
           walk(g) == [n \in 0 .. Len(q) |->
                         IF n = 0 THEN <<>>
                         ELSE IF q[n].key = k THEN g[n - 1] ELSE Append(g[n - 1], q[n])]
           rest == CHOOSE g : g = walk(g)
           r == Remote!Without(q, k)
<1>1. r = rest[Len(q)]
  BY DEF Remote!Without
<1>2. Len(q) \in {0, 1, 2} /\ DOMAIN q = 1 .. Len(q) /\ \A i \in 1 .. Len(q) : q[i] \in W
  <2>1. Len(q) \in Nat /\ DOMAIN q = 1 .. Len(q) /\ \A i \in 1 .. Len(q) : q[i] \in W
    OBVIOUS
  <2> QED
    BY <2>1
<1>3. rest = walk(rest)
  <2> DEFINE f == [n \in 0 .. Len(q) |-> IF n = 0 THEN <<>> ELSE IF n = 1 THEN one ELSE two]
  <2>1. f = walk(f)
    <3>1. ASSUME NEW n \in 0 .. Len(q)
          PROVE  f[n] = walk(f)[n]
      <4>1. CASE n = 0
        BY <1>2, <4>1
      <4>2. CASE n = 1
        <5>1. f[1] = one /\ f[0] = <<>> /\ 1 - 1 = 0
          BY <1>2, <4>2
        <5>2. Append(<<>>, q[1]) = <<q[1]>>
          BY <1>2, <4>2
        <5> QED
          BY <1>2, <4>2, <5>1, <5>2
      <4>3. CASE n = 2
        <5>1. f[2] = two /\ f[1] = one /\ 2 - 1 = 1
          BY <1>2, <4>3
        <5> QED
          BY <1>2, <4>3, <5>1
      <4> QED
        BY <1>2, <4>1, <4>2, <4>3
    <3> QED
      BY <3>1
  <2> QED
    BY <2>1
<1> HIDE DEF rest, r
<1>4. \A n \in 0 .. Len(q) : rest[n] =
        IF n = 0 THEN <<>>
        ELSE IF q[n].key = k THEN rest[n - 1] ELSE Append(rest[n - 1], q[n])
  BY <1>3
<1>11. rest[0] = <<>>
  BY <1>2, <1>4
<1>5. Len(q) >= 1 => rest[1] = one
  <2>1. SUFFICES ASSUME Len(q) >= 1 PROVE rest[1] = one
    OBVIOUS
  <2>2. rest[1] = IF q[1].key = k THEN <<>> ELSE Append(<<>>, q[1])
    <3>1. 1 \in 0 .. Len(q) /\ 1 - 1 = 0
      BY <1>2, <2>1
    <3>2. rest[1] = IF q[1].key = k THEN rest[1 - 1] ELSE Append(rest[1 - 1], q[1])
      BY <1>4, <3>1
    <3> QED
      BY <1>11, <3>1, <3>2
  <2>3. Append(<<>>, q[1]) = <<q[1]>>
    BY <1>2, <2>1
  <2> QED
    BY <2>2, <2>3
<1>6. Len(q) = 2 => rest[2] = two
  <2>1. SUFFICES ASSUME Len(q) = 2 PROVE rest[2] = two
    OBVIOUS
  <2>2. rest[2] = IF q[2].key = k THEN rest[1] ELSE Append(rest[1], q[2])
    BY <1>2, <1>4, <2>1
  <2> QED
    BY <1>2, <1>5, <2>1, <2>2
<1>7. CASE Len(q) = 0
  <2>1. r = <<>> /\ q = <<>>
    BY <1>1, <1>11, <1>7
  <2> QED
    BY <2>1 DEF r
<1>8. CASE Len(q) = 1
  <2>1. q = <<q[1]>> /\ q[1] \in W
    BY <1>2, <1>8
  <2>2. r = one
    BY <1>1, <1>5, <1>8
  <2> QED
    BY <2>1, <2>2 DEF r
<1>9. CASE Len(q) = 2
  <2>1. q = <<q[1], q[2]>> /\ q[1] \in W /\ q[2] \in W
    BY <1>2, <1>9
  <2>2. r = two
    BY <1>1, <1>6, <1>9
  <2>3. CASE q[1].key = k /\ q[2].key = k
    <3>1. r = <<>>
      BY <2>2, <2>3
    <3> QED
      BY <2>1, <2>3, <3>1 DEF r
  <2>4. CASE q[1].key = k /\ q[2].key # k
    <3>1. r = <<q[2]>>
      BY <2>1, <2>2, <2>4
    <3> QED
      BY <2>1, <2>4, <3>1 DEF r
  <2>5. CASE q[1].key # k /\ q[2].key = k
    <3>1. r = <<q[1]>>
      BY <2>1, <2>2, <2>5
    <3> QED
      BY <2>1, <2>5, <3>1 DEF r
  <2>6. CASE q[1].key # k /\ q[2].key # k
    <3>1. r = q
      BY <2>1, <2>2, <2>6
    <3> QED
      BY <2>1, <2>6, <3>1 DEF r
  <2> QED
    BY <2>3, <2>4, <2>5, <2>6
<1> QED
  BY <1>2, <1>7, <1>8, <1>9

LEMMA RemoteInit == Remote!Init => RemoteInv
<1> SUFFICES ASSUME Remote!Init PROVE RemoteInv
  OBVIOUS
<1>1. <<>> \in Seq(Remote!Event) /\ Len(<<>>) = 0
  OBVIOUS
<1> USE DEF Remote!Init, Dead, Loop
<1>2. RemoteTypes
  BY <1>1 DEF RemoteTypes
<1>3. RemoteFlags
  BY DEF RemoteFlags
<1>12. RemoteThread
  BY DEF RemoteThread
<1>4. RemoteKeys /\ Remote!EventsArrive
  BY DEF RemoteKeys, Remote!EventsArrive, Remote!Reads
<1> QED
  BY <1>2, <1>3, <1>12, <1>4 DEF RemoteInv

(* The calls, and the thread's start and end. *)
RemoteControls ==
  \/ Remote!InitWithoutThread \/ Remote!InitApi \/ Remote!Started \/ Remote!Shutdown
  \/ Remote!Joined \/ Remote!NoUinput \/ Remote!NoDevice \/ Remote!Run \/ Remote!Test
  \/ Remote!Leave \/ Remote!LircFails
LEMMA RemoteControlStep ==
  ASSUME RemoteInv, RemoteControls
  PROVE  RemoteInv'
<1> USE DEF Dead, Loop, Remote!control, Remote!remote, Remote!ghosts, Remote!EndDevice
<1>0. RemoteTypes /\ RemoteFlags /\ RemoteThread /\ RemoteKeys /\ Remote!EventsArrive
  BY DEF RemoteInv
<1>1. CASE Remote!InitWithoutThread \/ Remote!Started \/ Remote!Shutdown \/ Remote!Joined
  <2>1. /\ inputThread' = inputThread /\ UNCHANGED <<box, last_code, nodec, prev, held, events>>
        /\ UNCHANGED <<fifo, down>>
        /\ UNCHANGED <<stillborn, restarted, orphan, gone>>
    BY <1>1 DEF Remote!InitWithoutThread, Remote!Started, Remote!Shutdown, Remote!Joined
  <2>2. RemoteTypes'
    BY <1>0, <1>1, <2>1 DEF RemoteTypes, Remote!InitWithoutThread, Remote!Started, Remote!Shutdown,
                            Remote!Joined
  <2>3. RemoteFlags'
    BY <1>0, <1>1, <2>1 DEF RemoteFlags, Remote!InitWithoutThread, Remote!Started, Remote!Shutdown,
                            Remote!Joined
  <2>4. RemoteThread'
    BY <1>0, <1>1, <2>1 DEF RemoteTypes, RemoteFlags, RemoteThread, Remote!InitWithoutThread,
                            Remote!Started, Remote!Shutdown, Remote!Joined
  <2>5. RemoteKeys' /\ Remote!EventsArrive'
    BY <1>0, <2>1 DEF RemoteKeys, Remote!EventsArrive, Remote!Reads, Remote!Passed
  <2> QED
    BY <2>2, <2>3, <2>4, <2>5 DEF RemoteInv
<1>2. CASE Remote!InitApi
  <2> USE <1>2 DEF Remote!InitApi
  <2>1. <<>> \in Seq(Remote!Event) /\ Len(<<>>) = 0
    OBVIOUS
  <2>2. RemoteTypes' /\ RemoteFlags'
    <3>1. initialized' \in BOOLEAN /\ restarted' \in BOOLEAN
      OBVIOUS
    <3>2. RemoteFlags'
      BY <1>0, <3>1 DEF RemoteFlags
    <3>3. call' \in {"idle", "starting", "joining"}
      OBVIOUS
    <3> QED
      BY <1>0, <2>1, <3>2, <3>3 DEF RemoteTypes
  <2>3. RemoteThread'
    BY <1>0 DEF RemoteTypes, RemoteThread
  <2>4. down = {}
    BY <1>0 DEF RemoteTypes, RemoteThread, RemoteKeys
  <2>5. RemoteKeys'
    BY <1>0, <2>4 DEF RemoteKeys
  <2>6. Remote!EventsArrive'
    BY DEF Remote!EventsArrive, Remote!Reads
  <2> QED
    BY <2>2, <2>3, <2>5, <2>6 DEF RemoteInv
<1>3. CASE Remote!NoUinput \/ Remote!NoDevice
  <2>1. /\ inputThread = "opening" /\ inputThread' = "ended" /\ box # "raspi"
        /\ UNCHANGED <<box, call, initialized, last_code, nodec, prev, held, events>>
        /\ UNCHANGED <<fifo, down>>
        /\ UNCHANGED <<overtaken, restarted, orphan, gone>>
    BY <1>3 DEF Remote!NoUinput, Remote!NoDevice
  <2>2. RemoteTypes' /\ RemoteFlags'
    <3>1. stillborn' \in BOOLEAN
      BY <1>3 DEF Remote!NoUinput, Remote!NoDevice
    <3>2. thread_running' \in {2, thread_running}
      BY <1>3 DEF Remote!NoUinput, Remote!NoDevice
    <3> QED
      BY <1>0, <2>1, <3>1, <3>2 DEF RemoteTypes, RemoteFlags
  <2>3. RemoteThread'
    BY <1>0, <1>3, <2>1 DEF RemoteTypes, RemoteThread, Remote!NoUinput, Remote!NoDevice
  <2>4. RemoteKeys' /\ Remote!EventsArrive'
    BY <1>0, <2>1 DEF RemoteKeys, Remote!EventsArrive, Remote!Reads
  <2> QED
    BY <2>2, <2>3, <2>4 DEF RemoteInv
<1>4. CASE Remote!Run
  <2> USE <1>4 DEF Remote!Run
  <2>1. RemoteTypes' /\ RemoteFlags'
    BY <1>0 DEF RemoteTypes, RemoteFlags
  <2>2. RemoteThread'
    BY <1>0 DEF RemoteTypes, RemoteThread
  <2>3. RemoteKeys'
    BY <1>0 DEF RemoteKeys
  <2>4. Remote!EventsArrive'
    <3>1. held' = {} /\ events' = <<>> /\ down' = {}
      BY <1>0 DEF RemoteKeys
    <3>2. DOMAIN events' = {}
      BY <3>1
    <3> QED
      BY <3>1, <3>2 DEF Remote!EventsArrive
  <2> QED
    BY <2>1, <2>2, <2>3, <2>4 DEF RemoteInv
<1>5. CASE Remote!Test
  <2> USE <1>5 DEF Remote!Test
  <2>1. RemoteTypes' /\ RemoteFlags'
    BY <1>0 DEF RemoteTypes, RemoteFlags
  <2>2. RemoteThread'
    BY <1>0 DEF RemoteTypes, RemoteThread
  <2>3. RemoteKeys'
    BY <1>0 DEF RemoteKeys
  <2>4. Remote!EventsArrive'
    BY <1>0 DEF Remote!EventsArrive, Remote!Reads, Remote!Passed
  <2> QED
    BY <2>1, <2>2, <2>3, <2>4 DEF RemoteInv
<1>6. CASE Remote!Leave \/ Remote!LircFails
  <2>1. /\ inputThread \in Loop /\ inputThread' = "ended"
        /\ down' = (IF box = "raspi" THEN down ELSE {})
        /\ \/ inputThread = "test" /\ thread_running = 0
           \/ box = "spark"
        /\ UNCHANGED <<box, call, initialized, thread_running, last_code, nodec, prev, held, events>>
        /\ UNCHANGED <<fifo, stillborn, overtaken, restarted, orphan, gone>>
    BY <1>6 DEF Remote!Leave, Remote!LircFails
  <2>2. RemoteTypes' /\ RemoteFlags'
    BY <1>0, <2>1 DEF RemoteTypes, RemoteFlags
  <2>3. RemoteThread'
    BY <1>0, <2>1 DEF RemoteTypes, RemoteThread
  <2>4. RemoteKeys' /\ Remote!EventsArrive'
    BY <1>0, <2>1 DEF RemoteKeys, Remote!EventsArrive, Remote!Reads
  <2> QED
    BY <2>2, <2>3, <2>4 DEF RemoteInv
<1> QED
  BY <1>1, <1>2, <1>3, <1>4, <1>5, <1>6 DEF RemoteControls

(* The steps of the loop leave calls and flags alone. *)
LEMMA LoopThread ==
  ASSUME RemoteThread, RemoteTypes, inputThread \in Loop,
         \/ inputThread' \in Loop
         \/ inputThread' = "astray" /\ box = "raspi" /\ gone' # {},
         UNCHANGED <<box, call, initialized, thread_running, stillborn, overtaken>>
  PROVE  RemoteThread'
BY DEF RemoteThread, RemoteTypes, Dead, Loop

LEMMA SparkLoop ==
  ASSUME RemoteInv,
         \/ Remote!Quiet \/ Remote!Edge \/ Remote!NothingDecoded
         \/ \E code \in Remote!Codes, again \in BOOLEAN : Remote!Decoded(code, again)
  PROVE  RemoteInv'
<1> USE DEF Dead, Loop, Remote!control, Remote!remote, Remote!ghosts
<1>0. RemoteTypes /\ RemoteFlags /\ RemoteThread /\ RemoteKeys /\ Remote!EventsArrive
  BY DEF RemoteInv
<1>1. /\ box = "spark" /\ inputThread \in Loop /\ inputThread' \in Loop
      /\ UNCHANGED <<box, call, initialized, thread_running, held, events>>
      /\ UNCHANGED <<fifo, stillborn, overtaken, restarted, gone>>
  BY DEF Remote!Quiet, Remote!Edge, Remote!NothingDecoded, Remote!Decoded
<1>2. RemoteThread' /\ Remote!EventsArrive'
  BY <1>0, <1>1, LoopThread DEF Remote!EventsArrive, Remote!Reads
<1>3. RemoteTypes' /\ RemoteFlags' /\ RemoteKeys' => RemoteInv'
  BY <1>2 DEF RemoteInv
<1>4. CASE Remote!Edge \/ Remote!NothingDecoded
  <2>1. UNCHANGED <<last_code, nodec, prev, down, orphan>>
    BY <1>4 DEF Remote!Edge, Remote!NothingDecoded
  <2> QED
    BY <1>0, <1>1, <1>3, <2>1 DEF RemoteTypes, RemoteFlags, RemoteKeys
<1>5. CASE Remote!Quiet
  <2>1. /\ nodec' = (IF nodec < 2 THEN nodec + 1 ELSE nodec)
        /\ prev' = prev /\ orphan' = orphan
        /\ nodec' >= 2 => down' = down \ last_code /\ last_code' = {}
        /\ ~(nodec' >= 2) => down' = down /\ last_code' = last_code
    BY <1>5 DEF Remote!Quiet, Remote!ReleaseAfter
  <2>2. nodec \in 0 .. 2 /\ nodec' \in 0 .. 2 /\ (nodec' < 2 => nodec < 2) /\ (nodec' >= 2 <=> nodec' = 2)
        /\ (nodec' = 2 <=> ~(nodec' < 2))
    BY <1>0, <2>1 DEF RemoteTypes
  <2>3. nodec' = 2 => down' = {}
    BY <1>0, <1>1, <2>1, <2>2 DEF RemoteKeys
  <2>4. RemoteTypes' /\ RemoteFlags'
    BY <1>0, <1>1, <2>1, <2>2 DEF RemoteTypes, RemoteFlags
  <2>5. RemoteKeys'
    BY <1>0, <1>1, <2>1, <2>2, <2>3 DEF RemoteKeys
  <2> QED
    BY <1>3, <2>4, <2>5
<1>6. ASSUME NEW code \in Remote!Codes, NEW again \in BOOLEAN, Remote!Decoded(code, again)
      PROVE  RemoteInv'
  <2>1. /\ prev' = {code} /\ nodec' = 0 /\ (again => prev = {code} /\ nodec < 2)
    BY <1>6 DEF Remote!Decoded
  <2>2. CASE code \in Keys
    <3>1. /\ down' = (down \ (last_code \ {code})) \cup (IF again THEN {} ELSE {code})
          /\ last_code' = {code} /\ orphan' = (orphan \/ (again /\ code \notin down))
      BY <1>6, <2>2 DEF Remote!Decoded, Remote!Written
    <3>2. down \subseteq last_code
      BY <1>0, <1>1 DEF RemoteKeys
    <3>3. ~restarted /\ again => code \in down
      BY <1>0, <1>1, <2>1, <2>2 DEF RemoteKeys
    <3>4. down' \subseteq {code} /\ (~restarted => code \in down')
      BY <3>1, <3>2, <3>3
    <3>5. RemoteTypes' /\ RemoteFlags'
      <4>1. orphan' \in BOOLEAN
        BY <3>1
      <4> QED
        BY <1>0, <1>1, <2>1, <2>2, <3>1, <3>4, <4>1 DEF RemoteTypes, RemoteFlags, Remote!Codes
    <3>6. orphan' => restarted'
      BY <1>0, <1>1, <3>1, <3>3 DEF RemoteKeys
    <3>7. RemoteKeys'
      BY <1>0, <1>1, <2>1, <3>1, <3>4, <3>6 DEF RemoteKeys
    <3> QED
      BY <1>3, <3>5, <3>7
  <2>3. CASE code \notin Keys
    <3>1. UNCHANGED <<down, last_code, orphan>>
      BY <1>6, <2>3 DEF Remote!Decoded
    <3> QED
      BY <1>0, <1>1, <1>3, <2>1, <2>3, <3>1 DEF RemoteTypes, RemoteFlags, RemoteKeys
  <2> QED
    BY <2>2, <2>3
<1> QED
  BY <1>4, <1>5, <1>6

LEMMA OtherLoops ==
  ASSUME RemoteInv,
         \/ Remote!Wake \/ Remote!Pass \/ Remote!PassedAll
         \/ \E k \in Remote!Codes : Remote!Touch(k) \/ Remote!Vanish(k)
  PROVE  RemoteInv'
<1> USE DEF Dead, Loop, Remote!control, Remote!remote, Remote!ghosts, Remote!Reads
<1>0. RemoteTypes /\ RemoteFlags /\ RemoteThread /\ RemoteKeys /\ Remote!EventsArrive
  BY DEF RemoteInv
<1>1. /\ box # "spark" /\ inputThread \in Loop
      /\ \/ inputThread' \in Loop
         \/ inputThread' = "astray" /\ box = "raspi" /\ gone' # {}
      /\ UNCHANGED <<box, call, initialized, thread_running, last_code, nodec, prev>>
      /\ UNCHANGED <<fifo, stillborn, overtaken, restarted, orphan>>
  BY DEF Remote!Wake, Remote!Pass, Remote!PassedAll, Remote!Touch, Remote!Vanish
<1>2. RemoteThread' /\ RemoteKeys' /\ RemoteFlags'
  BY <1>0, <1>1, LoopThread DEF RemoteKeys, RemoteFlags
<1>3. RemoteTypes' /\ Remote!EventsArrive' => RemoteInv'
  BY <1>2 DEF RemoteInv
<1>4. fifo => \A k \in Remote!Passed \ gone :
        LET mine == {i \in DOMAIN events : events[i].key = k}
        IN k \in held <=> IF mine = {} THEN k \in down
                         ELSE \E i \in mine : events[i].press /\ \A j \in mine : j <= i
  BY <1>0, <1>1 DEF Remote!EventsArrive
<1>5. events \in Seq(Remote!Event) /\ Len(events) \in 0 .. 2 /\ DOMAIN events = 1 .. Len(events)
  <2>1. events \in Seq(Remote!Event) /\ Len(events) <= 2
    BY <1>0 DEF RemoteTypes
  <2>2. \A W : \A q \in Seq(W) : Len(q) \in Nat /\ DOMAIN q = 1 .. Len(q)
    OBVIOUS
  <2>3. Len(events) \in Nat /\ DOMAIN events = 1 .. Len(events)
    BY <2>1, <2>2
  <2> QED
    BY <2>1, <2>3
<1>6. Remote!Passed' = Remote!Passed /\ Remote!Passed \subseteq Remote!Codes
  BY <1>1 DEF Remote!Passed, Remote!Codes
<1>7. CASE Remote!Wake \/ Remote!PassedAll
  <2>1. UNCHANGED <<held, events, down, gone>>
    BY <1>7 DEF Remote!Wake, Remote!PassedAll
  <2> QED
    BY <1>0, <1>1, <1>3, <1>6, <2>1 DEF RemoteTypes, Remote!EventsArrive
<1>8. CASE Remote!Pass
  <2> DEFINE e == events[1]
  <2>1. /\ events # <<>> /\ events' = Tail(events) /\ held' = held /\ gone' = gone
        /\ down' = IF e.key \notin Remote!Passed \/ ~fifo THEN down
                   ELSE IF e.press THEN down \cup {e.key} ELSE down \ {e.key}
    <3>1. /\ events # <<>> /\ events' = Tail(events) /\ held' = held /\ gone' = gone
          /\ down' = LET h == Head(events)
                     IN  IF h.key \notin Remote!Passed \/ ~fifo THEN down
                         ELSE IF h.press THEN down \cup {h.key} ELSE down \ {h.key}
      BY <1>8 DEF Remote!Pass
    <3>2. Head(events) = e
      BY <1>5
    <3> QED
      BY ONLY <3>1, <3>2
  <2>2. Len(events) \in 1 .. 2 /\ e \in Remote!Event
    BY <1>5, <2>1
  <2>3. /\ events' \in Seq(Remote!Event) /\ Len(events') = Len(events) - 1
        /\ \A i \in 1 .. Len(events) - 1 : events'[i] = events[i + 1]
        /\ DOMAIN events' = 1 .. Len(events) - 1
    BY <1>5, <2>1
  <2>4. e.key \in Remote!Codes
    BY <2>2 DEF Remote!Event
  <2> HIDE DEF e
  <2>5. RemoteTypes'
    BY <1>0, <1>1, <2>1, <2>2, <2>3, <2>4 DEF RemoteTypes
  <2>6. ASSUME fifo, NEW k \in Remote!Passed \ gone
        PROVE  LET mine == {i \in DOMAIN events' : events'[i].key = k}
               IN k \in held <=> IF mine = {} THEN k \in down'
                                ELSE \E i \in mine : events'[i].press /\ \A j \in mine : j <= i
    <3> DEFINE old == {i \in DOMAIN events : events[i].key = k}
               new == {i \in DOMAIN events' : events'[i].key = k}
    <3>1. k \in held <=> IF old = {} THEN k \in down
                         ELSE \E i \in old : events[i].press /\ \A j \in old : j <= i
      BY <1>4, <2>6
    <3>2. CASE Len(events) = 1
      <4>1. new = {} /\ DOMAIN events = {1}
        BY <1>5, <2>3, <3>2
      <4>2. k \in held <=> k \in down'
        BY <2>1, <2>6, <3>1, <4>1 DEF e
      <4> QED
        BY <4>1, <4>2
    <3>3. CASE Len(events) = 2
      <4>1. DOMAIN events' = {1} /\ events'[1] = events[2] /\ DOMAIN events = {1, 2}
        BY <1>5, <2>3, <3>3
      <4>2. CASE events[2].key = k
        <5>1. new = {1} /\ 2 \in old /\ old \subseteq {1, 2}
          BY <4>1, <4>2
        <5>2. (\E i \in old : events[i].press /\ \A j \in old : j <= i) <=> events[2].press
          BY <5>1
        <5>3. (\E i \in new : events'[i].press /\ \A j \in new : j <= i) <=> events[2].press
          BY <4>1, <5>1
        <5> QED
          BY <3>1, <5>1, <5>2, <5>3
      <4>3. CASE events[2].key # k
        <5>1. new = {} /\ old = IF e.key = k THEN {1} ELSE {}
          BY <4>1, <4>3 DEF e
        <5>2. k \in held <=> k \in down'
          BY <2>1, <2>6, <3>1, <5>1 DEF e
        <5> QED
          BY <5>1, <5>2
      <4> QED
        BY <4>2, <4>3
    <3> QED
      BY <2>2, <3>2, <3>3
  <2>7. Remote!EventsArrive'
    BY <1>1, <1>6, <2>1, <2>6 DEF Remote!EventsArrive
  <2> QED
    BY <1>3, <2>5, <2>7
<1>9. ASSUME NEW c \in Remote!Codes, Remote!Touch(c)
      PROVE  RemoteInv'
  <2> DEFINE e == [key |-> c, press |-> c \notin held]
             n == Len(events)
  <2>1. /\ n < 2 /\ c \notin gone /\ events' = Append(events, e)
        /\ held' = (IF c \in held THEN held \ {c} ELSE held \cup {c})
        /\ down' = down /\ gone' = gone
    BY <1>9 DEF Remote!Touch, Remote!MaxEvents
  <2>2. e \in Remote!Event
    BY DEF Remote!Event
  <2>3. n \in 0 .. 1
    BY <1>5, <2>1
  <2>4. /\ events' \in Seq(Remote!Event) /\ Len(events') = n + 1 /\ DOMAIN events' = 1 .. n + 1
        /\ events'[n + 1] = e /\ \A i \in 1 .. n : events'[i] = events[i]
    BY <1>5, <2>1, <2>2
  <2>5. RemoteTypes'
    BY <1>0, <1>1, <2>1, <2>3, <2>4 DEF RemoteTypes
  <2>6. ASSUME fifo, NEW k \in Remote!Passed \ gone
        PROVE  LET mine == {i \in DOMAIN events' : events'[i].key = k}
               IN k \in held' <=> IF mine = {} THEN k \in down
                                 ELSE \E i \in mine : events'[i].press /\ \A j \in mine : j <= i
    <3> DEFINE old == {i \in DOMAIN events : events[i].key = k}
               new == {i \in DOMAIN events' : events'[i].key = k}
    <3>1. k \in held <=> IF old = {} THEN k \in down
                         ELSE \E i \in old : events[i].press /\ \A j \in old : j <= i
      BY <1>4, <2>6
    <3>2. e.key = c /\ (e.press <=> c \notin held)
      OBVIOUS
    <3> HIDE DEF e, n
    <3>3. CASE k = c
      <4>1. n + 1 \in new /\ \A j \in new : j <= n + 1
        BY <2>3, <2>4, <3>2, <3>3
      <4>2. (\E i \in new : events'[i].press /\ \A j \in new : j <= i) <=> e.press
        <5>1. \A i \in new : (\A j \in new : j <= i) => i = n + 1
          BY <2>3, <2>4, <4>1
        <5> QED
          BY <2>4, <4>1, <5>1
      <4>3. k \in held' <=> k \notin held
        BY <2>1, <3>3
      <4> QED
        BY <3>2, <3>3, <4>1, <4>2, <4>3
    <3>4. CASE k # c
      <4>1. new = old
        BY <1>5, <2>3, <2>4, <3>2, <3>4 DEF n
      <4>2. \A i \in old : events'[i] = events[i]
        BY <1>5, <2>4 DEF n
      <4>3. k \in held' <=> k \in held
        BY <2>1, <3>4
      <4> QED
        BY <3>1, <4>1, <4>2, <4>3
    <3> QED
      BY <3>3, <3>4
  <2>7. Remote!EventsArrive'
    BY <1>1, <1>6, <2>1, <2>6 DEF Remote!EventsArrive
  <2> QED
    BY <1>3, <2>5, <2>7
<1>10. ASSUME NEW c \in Remote!Codes, Remote!Vanish(c)
       PROVE  RemoteInv'
  <2>1. /\ gone' = gone \cup {c} /\ held' = held \ {c} /\ down' = down
        /\ events' = Remote!Without(events, c)
    BY <1>10 DEF Remote!Vanish
  <2>2. Len(events) <= 2
    BY <1>5
  <2>3. events' \in Seq(Remote!Event) /\ Len(events') <= 2
    BY <1>5, <2>1, <2>2, WithoutIs
  <2>4. RemoteTypes'
    BY <1>0, <1>1, <2>1, <2>3 DEF RemoteTypes
  <2>5. ASSUME fifo, NEW k \in Remote!Passed \ gone'
        PROVE  LET mine == {i \in DOMAIN events' : events'[i].key = k}
               IN k \in held' <=> IF mine = {} THEN k \in down'
                                 ELSE \E i \in mine : events'[i].press /\ \A j \in mine : j <= i
    <3> DEFINE old == {i \in DOMAIN events : events[i].key = k}
               new == {i \in DOMAIN events' : events'[i].key = k}
    <3>1. k # c /\ k \in Remote!Passed \ gone
      BY <2>1
    <3>2. k \in held <=> IF old = {} THEN k \in down
                         ELSE \E i \in old : events[i].press /\ \A j \in old : j <= i
      BY <1>4, <2>5, <3>1
    <3>3. /\ new = {} <=> old = {}
          /\ (\E i \in new : events'[i].press /\ \A j \in new : j <= i)
               <=> (\E i \in old : events[i].press /\ \A j \in old : j <= i)
      <4>1. LET r == Remote!Without(events, c) IN
            /\ {i \in DOMAIN r : r[i].key = k} = {} <=> {i \in DOMAIN events : events[i].key = k} = {}
            /\ (\E i \in {i \in DOMAIN r : r[i].key = k} :
                  r[i].press /\ \A j \in {j \in DOMAIN r : r[j].key = k} : j <= i)
                 <=> (\E i \in {i \in DOMAIN events : events[i].key = k} :
                        /\ events[i].press
                        /\ \A j \in {j \in DOMAIN events : events[j].key = k} : j <= i)
        BY <1>5, <2>2, <3>1, WithoutIs, Zenon
      <4> QED
        BY <2>1, <4>1
    <3> HIDE DEF old, new
    <3>4. k \in held' <=> IF new = {} THEN k \in down'
                         ELSE \E i \in new : events'[i].press /\ \A j \in new : j <= i
      BY <2>1, <3>1, <3>2, <3>3
    <3> QED
      BY <3>4 DEF new
  <2>6. Remote!EventsArrive'
    BY <1>1, <1>6, <2>5 DEF Remote!EventsArrive
  <2> QED
    BY <1>3, <2>4, <2>6
<1> QED
  BY <1>7, <1>8, <1>9, <1>10

LEMMA RemoteStep ==
  ASSUME RemoteInv, [Remote!Next]_(Remote!vars)
  PROVE  RemoteInv'
<1>1. CASE UNCHANGED Remote!vars
  BY <1>1 DEF Remote!vars, Remote!control, Remote!remote, Remote!ghosts, RemoteInv, RemoteTypes,
              RemoteFlags, RemoteThread, RemoteKeys, Remote!EventsArrive, Remote!Reads, Remote!Passed
<1> QED
  BY <1>1, RemoteControlStep, SparkLoop, OtherLoops DEF Remote!Next, RemoteControls

LEMMA RemoteSafe == RemoteInv => Remote!TypeOK /\ Remote!InputFollows
<1> SUFFICES ASSUME RemoteInv PROVE Remote!TypeOK /\ Remote!InputFollows
  OBVIOUS
<1>0. \A s : Remote!Cardinality(s) = Cardinality(s)
  BY DEF Remote!Cardinality, Cardinality
<1>1. Remote!Cardinality(last_code) <= 1 /\ last_code \subseteq Keys
  <2>1. \A k : Cardinality({k}) = 1
    BY FS_Singleton
  <2>2. Cardinality({}) = 0
    BY FS_EmptySet
  <2>3. Cardinality(last_code) \in {0, 1}
    BY <2>1, <2>2 DEF RemoteInv, RemoteTypes
  <2> QED
    BY <1>0, <2>3 DEF RemoteInv, RemoteTypes
<1>2. Remote!TypeOK
  <2>1. {stillborn, overtaken, restarted, orphan} \subseteq BOOLEAN /\ initialized \in BOOLEAN
    BY DEF RemoteInv, RemoteFlags
  <2> QED
    BY <1>1, <2>1 DEF RemoteInv, RemoteTypes, Remote!TypeOK, Remote!MaxEvents, Dead, Loop
<1>3. Remote!NobodyWaits
  BY DEF RemoteInv, RemoteThread, RemoteTypes, Remote!NobodyWaits, Dead, Loop
<1>4. Remote!OneKeyAtATime
  BY DEF RemoteInv, RemoteKeys, Remote!OneKeyAtATime
<1> QED
  BY <1>2, <1>3, <1>4 DEF RemoteInv, Remote!InputFollows

-----------------------------------------------------------------------------
(* CPlayback, as MCRmfp instantiates it.                                   *)
(* The steps of the two threads: what comes behind one of them, and which  *)
(* of them is never the last.                                              *)
Begun == {"player stop", "output close", "player close", "release", "vdec open", "vdec opening"}
Behind(x) ==
  CASE x = "player stop" -> "output close"
    [] x = "output close" -> "player close"
    [] x = "player close" -> "reacquire"
    [] x = "release" -> "vdec close"
    [] x \in {"vdec open", "vdec opening"} -> "reacquired"
Led == Begun \cup {"reacquire", "vdec close", "reacquired"}
Closing ==
  {"player stop", "output close", "player close", "reacquire", "vdec open", "vdec opening",
   "reacquired", "release", "vdec close", "open TS", "open FILE"}
MovieWords ==
  Closing \cup {"start", "restart", "output open", "start play", "start pause", "set speed",
    "speed play", "dispatch", "forward", "backward", "reverse end", "pause", "continue", "jump",
    "jump position", "jump done", "position", "eof off", "restart speed"}
GuiWords ==
  {"vdec start", "show picture", "vdec close", "vdec open", "vdec opening", "still",
   "standby on", "standby off"}
StepWords(t) == IF t = "movie" THEN MovieWords ELSE GuiWords
Link(t, x, y) ==
  IF t = "movie" THEN IF x \in Begun THEN y = Behind(x) ELSE y \notin Led
  ELSE /\ x = "vdec close" => y \in {"vdec open", "standby on"}
       /\ y = "standby off" => x \in {"vdec open", "vdec opening"}
LeadsOn(t) == IF t = "movie" THEN Begun ELSE {"vdec close"}
Linked(t, q) ==
  /\ q \in Seq(StepWords(t))
  /\ \A i \in 1 .. Len(q) - 1 : Link(t, q[i], q[i + 1])
  /\ q # <<>> => q[Len(q)] \notin LeadsOn(t)

(* The first step of a script, and the scripts of a closed file, where the *)
(* player gives the devices back or takes them.                            *)
First(q) == IF q = <<>> THEN "idle" ELSE Head(q)
MovieAt == First(todo["movie"])
GuiAt == First(todo["gui"])
Ends == {"reacquire", "reacquired", "open TS", "open FILE"}
ClosedScript(q) ==
  /\ \A i \in 1 .. Len(q) : q[i] \in Closing /\ (q[i] = "open TS" => i = 1)
  /\ q # <<>> => q[Len(q)] \in Ends

SparkTypes ==
  /\ pm \in {"TS", "FILE"} /\ speed \in Speeds \cup {0} /\ arg \in Speeds \cup {0}
  /\ phase \in {"closed", "opened", "started", "failed"}
  /\ media \in Spark!Media
SparkFlags ==
  /\ decoders_closed \in BOOLEAN /\ init_jump \in BOOLEAN /\ pdplaying \in BOOLEAN
  /\ pdeof \in BOOLEAN /\ isPlaying \in BOOLEAN /\ isPaused \in BOOLEAN
  /\ isForwarding \in BOOLEAN /\ isBackWard \in BOOLEAN
SparkScripts ==
  /\ todo = [t \in Spark!Callers |-> todo[t]]
  /\ \A t \in Spark!Callers : Linked(t, todo[t])
SparkClosed ==
  phase = "closed" =>
    /\ ClosedScript(todo["movie"])
    /\ decoders_closed => MovieAt \notin {"idle", "open TS"}

(* The sound is the decoder's unless the decoders are closed; Output has   *)
(* both devices or none, and none when the decoders take them back.        *)
Reopening == MovieAt \in {"vdec open", "vdec opening", "reacquired"}
SparkSound ==
  /\ aheld \in {"none", "adec", "output"}
  /\ aheld = "output" <=> vheld = "output"
  /\ decoders_closed = FALSE => aheld = "adec"
  /\ decoders_closed /\ ~Reopening => aheld # "adec"
  /\ Reopening => decoders_closed /\ aheld = "adec"
  /\ MovieAt \in {"player close", "reacquire"} => aheld # "output"
  /\ MovieAt = "vdec close" => decoders_closed

(* The picture: who has closed the decoder will open it again, or it is in *)
(* standby.                                                                *)
Available == vdec.fd \/ (decoders_closed /\ MovieAt # "reacquired")
SparkPicture ==
  /\ vdec \in [fd : BOOLEAN, still : BOOLEAN, standby : BOOLEAN]
  /\ vheld \in {"none", "vdec", "output", "lost"}
  /\ vheld = "lost" => vdec.fd = FALSE
  /\ vheld # "lost" =>
       /\ vdec.fd <=> vheld = "vdec"
       /\ vdec.still => vdec.fd
       /\ Available \/ vdec.standby \/ GuiAt \in {"vdec open", "vdec opening", "standby on"}
       /\ GuiAt = "standby off" => Available
SparkInv ==
  SparkTypes /\ SparkFlags /\ SparkScripts /\ SparkClosed /\ SparkSound /\ SparkPicture

(* The words of the scripts. *)
LEMMA WordsAre ==
  /\ "idle" \notin MovieWords /\ "idle" \notin GuiWords
BY DEF MovieWords, GuiWords, Closing

(* What is left of a script behind its first step. *)
LEMMA LeftOf ==
  ASSUME NEW W, NEW q \in Seq(W), q # <<>>
  PROVE  LET r == <<>> \o Tail(q) IN
         /\ r \in Seq(W) /\ Len(r) = Len(q) - 1 /\ Len(q) \in Nat \ {0}
         /\ \A i \in 1 .. Len(q) - 1 : r[i] = q[i + 1]
         /\ q[1] = Head(q) /\ Head(q) \in W
         /\ r = <<>> <=> Len(q) = 1
         /\ r # <<>> => Head(r) = q[2]
<1> DEFINE r == <<>> \o Tail(q)
<1>1. Tail(q) \in Seq(W) /\ Len(Tail(q)) = Len(q) - 1 /\ Len(q) \in Nat \ {0}
      /\ \A i \in 1 .. Len(q) - 1 : Tail(q)[i] = q[i + 1]
  BY HeadTailProperties, EmptySeq
<1>2. r = Tail(q)
  BY <1>1, ConcatEmptySeq
<1>3. q[1] = Head(q) /\ Head(q) \in W
  BY HeadTailProperties
<1>4. r = <<>> <=> Len(q) = 1
  BY <1>1, <1>2, EmptySeq
<1>5. r # <<>> => Head(r) = q[2]
  <2> SUFFICES ASSUME r # <<>> PROVE Head(r) = q[2]
    OBVIOUS
  <2>1. Len(q) # 1 /\ 1 \in 1 .. Len(q) - 1
    BY <1>1, <1>4
  <2>2. r[1] = q[1 + 1]
    BY <1>1, <1>2, <2>1
  <2>3. Head(r) = r[1]
    BY <1>1, <1>2, HeadTailProperties
  <2> QED
    BY <2>2, <2>3
<1> QED
  BY <1>1, <1>2, <1>3, <1>4, <1>5

(* A script from which the first step is taken. *)
LEMMA Onward ==
  ASSUME NEW t \in {"movie", "gui"}, NEW q, Linked(t, q), q # <<>>
  PROVE  LET r == <<>> \o Tail(q) IN
         /\ Linked(t, r) /\ Head(q) \in StepWords(t)
         /\ r = <<>> => Head(q) \notin LeadsOn(t)
         /\ r # <<>> => Head(r) \in StepWords(t) /\ Link(t, Head(q), Head(r))
         /\ ClosedScript(q) =>
              /\ ClosedScript(r) /\ Head(q) \in Closing
              /\ r = <<>> => Head(q) \in Ends
              /\ r # <<>> => Head(r) # "open TS"
<1> DEFINE r == <<>> \o Tail(q)
<1>1. /\ r \in Seq(StepWords(t)) /\ Len(r) = Len(q) - 1 /\ Len(q) \in Nat \ {0}
      /\ \A i \in 1 .. Len(q) - 1 : r[i] = q[i + 1]
      /\ q[1] = Head(q) /\ Head(q) \in StepWords(t)
      /\ r = <<>> <=> Len(q) = 1
      /\ r # <<>> => Head(r) = q[2]
  BY LeftOf DEF Linked
<1> HIDE DEF r
<1>2. /\ \A i \in 1 .. Len(q) - 1 : Link(t, q[i], q[i + 1])
      /\ q[Len(q)] \notin LeadsOn(t)
  BY DEF Linked
<1>3. r # <<>> => Len(q) - 1 \in Nat \ {0} /\ r[Len(r)] = q[Len(q)] /\ Head(r) = r[1]
  <2> SUFFICES ASSUME r # <<>>
               PROVE  Len(q) - 1 \in Nat \ {0} /\ r[Len(r)] = q[Len(q)] /\ Head(r) = r[1]
    OBVIOUS
  <2>1. Len(q) - 1 \in 1 .. Len(q) - 1 /\ Len(q) - 1 \in Nat \ {0} /\ (Len(q) - 1) + 1 = Len(q)
    BY <1>1
  <2>2. r[Len(r)] = q[Len(q)]
    BY <1>1, <2>1
  <2>3. Head(r) = r[1]
    BY <1>1, HeadTailProperties
  <2> QED
    BY <2>1, <2>2, <2>3
<1>4. Linked(t, r)
  <2>1. ASSUME NEW i \in 1 .. Len(r) - 1 PROVE Link(t, r[i], r[i + 1])
    <3>1. i \in 1 .. Len(q) - 1 /\ i + 1 \in 1 .. Len(q) - 1
      BY <1>1, <2>1
    <3> QED
      BY <1>1, <1>2, <3>1
  <2> QED
    BY <1>1, <1>2, <1>3, <2>1 DEF Linked
<1>5. r # <<>> => Head(r) \in StepWords(t) /\ Link(t, Head(q), Head(r))
  <2> SUFFICES ASSUME r # <<>> PROVE Head(r) \in StepWords(t) /\ Link(t, Head(q), Head(r))
    OBVIOUS
  <2>1. 1 \in 1 .. Len(q) - 1
    BY <1>3
  <2>2. Link(t, q[1], q[1 + 1])
    BY <1>2, <2>1
  <2>3. Head(r) \in StepWords(t)
    BY <1>1, HeadTailProperties
  <2> QED
    BY <1>1, <2>2, <2>3
<1>6. ASSUME ClosedScript(q)
      PROVE  /\ ClosedScript(r) /\ Head(q) \in Closing
             /\ r = <<>> => Head(q) \in Ends
             /\ r # <<>> => Head(r) # "open TS"
  <2>1. /\ \A i \in 1 .. Len(q) : q[i] \in Closing /\ (q[i] = "open TS" => i = 1)
        /\ q[Len(q)] \in Ends
    BY <1>6 DEF ClosedScript
  <2>2. ASSUME NEW i \in 1 .. Len(r) PROVE r[i] \in Closing /\ r[i] # "open TS"
    <3>1. i \in 1 .. Len(q) - 1 /\ i + 1 \in 1 .. Len(q) /\ i + 1 # 1
      BY <1>1, <2>2
    <3> QED
      BY <1>1, <2>1, <3>1
  <2>3. ClosedScript(r)
    BY <1>3, <2>1, <2>2 DEF ClosedScript
  <2>4. Head(q) \in Closing
    <3>1. 1 \in 1 .. Len(q)
      BY <1>1
    <3> QED
      BY <1>1, <2>1, <3>1
  <2>5. r = <<>> => Head(q) \in Ends
    BY <1>1, <2>1
  <2>6. r # <<>> => Head(r) # "open TS"
    <3> SUFFICES ASSUME r # <<>> PROVE Head(r) # "open TS"
      OBVIOUS
    <3>1. 1 \in 1 .. Len(r)
      BY <1>1, <1>3
    <3> QED
      BY <1>3, <2>2, <3>1
  <2> QED
    BY <2>3, <2>4, <2>5, <2>6
<1> QED
  BY <1>1, <1>2, <1>4, <1>5, <1>6 DEF r

(* A script that begins with s instead of its first step. *)
LEMMA Instead ==
  ASSUME NEW t \in {"movie", "gui"}, NEW q, Linked(t, q), q # <<>>,
         NEW s \in Seq(StepWords(t)), s # <<>>,
         \A i \in 1 .. Len(s) - 1 : Link(t, s[i], s[i + 1]),
         s[Len(s)] \in LeadsOn(t) => Head(q) \in LeadsOn(t),
         \A y \in StepWords(t) : Link(t, Head(q), y) => Link(t, s[Len(s)], y)
  PROVE  LET r == s \o Tail(q) IN
         /\ Linked(t, r) /\ r # <<>> /\ Head(r) = s[1] /\ Head(q) \in StepWords(t)
         /\ ClosedScript(q) => Head(q) \in Closing
         /\ /\ ClosedScript(q) /\ (s[Len(s)] \in Ends \/ Head(q) \notin Ends)
            /\ \A i \in 1 .. Len(s) : s[i] \in Closing /\ s[i] # "open TS"
            => ClosedScript(r)
<1> DEFINE u == Tail(q)
           r == s \o u
<1>1. /\ u \in Seq(StepWords(t)) /\ Len(u) = Len(q) - 1 /\ Len(q) \in Nat \ {0}
      /\ \A i \in 1 .. Len(q) - 1 : u[i] = q[i + 1]
  BY HeadTailProperties, EmptySeq DEF Linked
<1>2. q[1] = Head(q) /\ Head(q) \in StepWords(t) /\ Len(s) \in Nat \ {0}
  BY HeadTailProperties, EmptySeq DEF Linked
<1> HIDE DEF u
<1>3. r \in Seq(StepWords(t)) /\ Len(r) = Len(s) + (Len(q) - 1)
  BY <1>1, ConcatProperties
<1>4. /\ \A i \in 1 .. Len(s) : r[i] = s[i]
      /\ \A i \in 1 .. Len(q) - 1 : r[Len(s) + i] = q[i + 1]
  <2>1. \A i \in 1 .. Len(s) + Len(u) : r[i] = IF i <= Len(s) THEN s[i] ELSE u[i - Len(s)]
    BY <1>1, ConcatProperties
  <2>2. ASSUME NEW i \in 1 .. Len(s) PROVE r[i] = s[i]
    <3>1. i \in 1 .. Len(s) + Len(u) /\ i <= Len(s)
      BY <1>1, <1>2, <2>2
    <3> QED
      BY <2>1, <3>1
  <2>3. ASSUME NEW i \in 1 .. Len(q) - 1 PROVE r[Len(s) + i] = q[i + 1]
    <3>1. Len(s) + i \in 1 .. Len(s) + Len(u) /\ ~(Len(s) + i <= Len(s))
          /\ (Len(s) + i) - Len(s) = i
      BY <1>1, <1>2, <2>3
    <3> QED
      BY <1>1, <2>1, <3>1
  <2> QED
    BY <2>2, <2>3
<1> HIDE DEF r
<1>5. /\ \A i \in 1 .. Len(q) - 1 : Link(t, q[i], q[i + 1])
      /\ q[Len(q)] \notin LeadsOn(t) /\ \A i \in 1 .. Len(q) : q[i] \in StepWords(t)
  BY <1>1 DEF Linked
<1>6. /\ Len(q) = 1 => r[Len(r)] = s[Len(s)] /\ q[Len(q)] = Head(q)
      /\ Len(q) # 1 => r[Len(r)] = q[Len(q)]
  <2>1. CASE Len(q) = 1
    BY <1>2, <1>3, <1>4, <2>1
  <2>2. CASE Len(q) # 1
    <3>1. Len(q) - 1 \in 1 .. Len(q) - 1 /\ Len(s) + (Len(q) - 1) = Len(r) /\ (Len(q) - 1) + 1 = Len(q)
      BY <1>1, <1>3, <2>2
    <3> QED
      BY <1>4, <2>2, <3>1
  <2> QED
    BY <2>1, <2>2
<1>7. ASSUME NEW i \in 1 .. Len(r) - 1 PROVE Link(t, r[i], r[i + 1])
  <2>1. CASE i < Len(s)
    <3>1. i \in 1 .. Len(s) - 1 /\ i \in 1 .. Len(s) /\ i + 1 \in 1 .. Len(s)
      BY <1>2, <1>7, <2>1
    <3> QED
      BY <1>4, <3>1
  <2>2. CASE i = Len(s)
    <3>1. i \in 1 .. Len(s) /\ 1 \in 1 .. Len(q) - 1 /\ 2 \in 1 .. Len(q)
      BY <1>1, <1>2, <1>3, <1>7, <2>2
    <3>2. r[i] = s[Len(s)] /\ r[Len(s) + 1] = q[1 + 1]
      BY <1>4, <2>2, <3>1
    <3>3. Link(t, q[1], q[1 + 1]) /\ q[2] \in StepWords(t)
      BY <1>5, <3>1
    <3> QED
      BY <1>2, <2>2, <3>2, <3>3
  <2>3. CASE i > Len(s)
    <3> DEFINE j == i - Len(s)
    <3>1. j \in 1 .. Len(q) - 1 /\ j + 1 \in 1 .. Len(q) - 1 /\ Len(s) + j = i
          /\ Len(s) + (j + 1) = i + 1
      BY <1>1, <1>2, <1>3, <1>7, <2>3
    <3> HIDE DEF j
    <3>3. r[Len(s) + j] = q[j + 1] /\ r[Len(s) + (j + 1)] = q[(j + 1) + 1]
      BY <1>4, <3>1
    <3>2. r[i] = q[j + 1] /\ r[i + 1] = q[(j + 1) + 1]
      BY <3>1, <3>3
    <3> QED
      BY <1>5, <3>1, <3>2
  <2> QED
    BY <1>2, <1>7, <2>1, <2>2, <2>3
<1>8. Linked(t, r)
  BY <1>2, <1>3, <1>5, <1>6, <1>7 DEF Linked
<1>9. r # <<>> /\ Head(r) = s[1]
  <2>1. Len(r) \in Nat \ {0} /\ 1 \in 1 .. Len(s)
    BY <1>1, <1>2, <1>3
  <2>2. r # <<>>
    BY <1>3, <2>1, EmptySeq
  <2>3. Head(r) = r[1]
    BY <1>3, <2>2, HeadTailProperties
  <2> QED
    BY <1>4, <2>1, <2>2, <2>3
<1>10. ASSUME ClosedScript(q) PROVE Head(q) \in Closing
  <2>1. 1 \in 1 .. Len(q)
    BY <1>1
  <2> QED
    BY <1>2, <1>10, <2>1 DEF ClosedScript
<1>11. ASSUME ClosedScript(q), s[Len(s)] \in Ends \/ Head(q) \notin Ends,
              \A i \in 1 .. Len(s) : s[i] \in Closing /\ s[i] # "open TS"
       PROVE  ClosedScript(r)
  <2>1. /\ \A i \in 1 .. Len(q) : q[i] \in Closing /\ (q[i] = "open TS" => i = 1)
        /\ q[Len(q)] \in Ends
    BY <1>11 DEF ClosedScript
  <2>2. ASSUME NEW i \in 1 .. Len(r) PROVE r[i] \in Closing /\ r[i] # "open TS"
    <3>1. CASE i <= Len(s)
      <4>1. i \in 1 .. Len(s)
        BY <1>2, <1>3, <2>2, <3>1
      <4> QED
        BY <1>4, <1>11, <4>1
    <3>2. CASE i > Len(s)
      <4>1. /\ i - Len(s) \in 1 .. Len(q) - 1 /\ Len(s) + (i - Len(s)) = i
            /\ (i - Len(s)) + 1 \in 1 .. Len(q) /\ (i - Len(s)) + 1 # 1
        BY <1>1, <1>2, <1>3, <2>2, <3>2
      <4>2. r[i] = q[(i - Len(s)) + 1]
        BY <1>4, <4>1
      <4> QED
        BY <2>1, <4>1, <4>2
    <3>3. i \in Int /\ Len(s) \in Int
      BY <1>2, <2>2
    <3>4. i <= Len(s) \/ i > Len(s)
      BY <3>3
    <3> QED
      BY <3>1, <3>2, <3>4
  <2> QED
    BY <1>6, <1>11, <2>1, <2>2 DEF ClosedScript
<1> QED
  BY <1>2, <1>8, <1>9, <1>10, <1>11 DEF r, u

(* The player takes its next step. *)
LEMMA MovieGoes ==
  ASSUME SparkScripts, NEW w, Spark!At("movie", w), Spark!Then("movie", <<>>)
  PROVE  /\ SparkScripts' /\ GuiAt' = GuiAt /\ MovieAt = w /\ w \in MovieWords
         /\ w \in Begun => MovieAt' = Behind(w)
         /\ w \notin Begun => MovieAt' \notin Led
         /\ ClosedScript(todo["movie"]) =>
              /\ ClosedScript(todo["movie"])' /\ w \in Closing /\ MovieAt' # "open TS"
              /\ w \notin Ends => MovieAt' # "idle"
<1> DEFINE q == todo["movie"]
           r == <<>> \o Tail(q)
<1>1. q # <<>> /\ Head(q) = w /\ Linked("movie", q) /\ Linked("gui", todo["gui"])
  BY DEF Spark!At, SparkScripts, Spark!Callers
<1>2. todo' = [todo EXCEPT !["movie"] = r] /\ todo = [t \in {"movie", "gui"} |-> todo[t]]
  BY DEF Spark!Then, SparkScripts, Spark!Callers
<1>3. /\ Linked("movie", r) /\ w \in StepWords("movie")
      /\ r = <<>> => w \notin LeadsOn("movie")
      /\ r # <<>> => Head(r) \in StepWords("movie") /\ Link("movie", w, Head(r))
      /\ ClosedScript(q) =>
           /\ ClosedScript(r) /\ w \in Closing
           /\ r = <<>> => w \in Ends
           /\ r # <<>> => Head(r) # "open TS"
  BY <1>1, Onward
<1> HIDE DEF q, r
<1>4. todo'["movie"] = r /\ todo'["gui"] = todo["gui"] /\ todo' = [t \in {"movie", "gui"} |-> todo'[t]]
  BY <1>2
<1>5. SparkScripts'
  BY <1>1, <1>3, <1>4 DEF SparkScripts, Spark!Callers
<1>6. MovieAt' = First(r) /\ GuiAt' = GuiAt /\ MovieAt = w
  BY <1>1, <1>4 DEF MovieAt, GuiAt, First, q
<1>7. /\ w \in MovieWords
      /\ w \in Begun => MovieAt' = Behind(w)
      /\ w \notin Begun => MovieAt' \notin Led
  <2>1. w \in MovieWords /\ "idle" \notin Led
    BY <1>3 DEF StepWords, Led, Begun
  <2>2. r = <<>> => w \notin Begun /\ MovieAt' = "idle"
    BY <1>3, <1>6 DEF LeadsOn, First
  <2>3. r # <<>> => /\ w \in Begun => MovieAt' = Behind(w)
                    /\ w \notin Begun => MovieAt' \notin Led
    BY <1>3, <1>6 DEF Link, First
  <2> QED
    BY <2>1, <2>2, <2>3
<1>8. "open TS" # "idle"
  OBVIOUS
<1>9. ClosedScript(q) =>
        /\ ClosedScript(r) /\ w \in Closing /\ MovieAt' # "open TS"
        /\ w \notin Ends => MovieAt' # "idle"
  <2>1. r # <<>> => MovieAt' = Head(r) /\ Head(r) \in MovieWords
    BY <1>3, <1>6 DEF First, StepWords
  <2>2. r = <<>> => MovieAt' = "idle"
    BY <1>6 DEF First
  <2> QED
    BY <1>3, <1>8, <2>1, <2>2, WordsAre
<1> QED
  BY <1>4, <1>5, <1>6, <1>7, <1>9 DEF q

(* The player finds more to do. *)
LEMMA MovieTurns ==
  ASSUME SparkScripts, NEW w, Spark!At("movie", w),
         NEW s \in Seq(MovieWords), s # <<>>, Spark!Then("movie", s),
         \A i \in 1 .. Len(s) - 1 : Link("movie", s[i], s[i + 1]),
         w \in Begun => s[Len(s)] \in Begun /\ Behind(s[Len(s)]) = Behind(w),
         w \notin Begun => s[Len(s)] \notin Begun
  PROVE  /\ SparkScripts' /\ GuiAt' = GuiAt /\ MovieAt = w /\ MovieAt' = s[1]
         /\ ClosedScript(todo["movie"]) => w \in Closing
         /\ /\ ClosedScript(todo["movie"]) /\ (s[Len(s)] \in Ends \/ w \notin Ends)
            /\ \A i \in 1 .. Len(s) : s[i] \in Closing /\ s[i] # "open TS"
            => ClosedScript(todo["movie"])'
<1> DEFINE q == todo["movie"]
           r == s \o Tail(q)
<1>1. q # <<>> /\ Head(q) = w /\ Linked("movie", q) /\ Linked("gui", todo["gui"])
  BY DEF Spark!At, SparkScripts, Spark!Callers
<1>2. todo' = [todo EXCEPT !["movie"] = r] /\ todo = [t \in {"movie", "gui"} |-> todo[t]]
  BY DEF Spark!Then, SparkScripts, Spark!Callers
<1>3. /\ s \in Seq(StepWords("movie"))
      /\ s[Len(s)] \in LeadsOn("movie") => Head(q) \in LeadsOn("movie")
      /\ \A y \in StepWords("movie") : Link("movie", Head(q), y) => Link("movie", s[Len(s)], y)
  BY <1>1 DEF StepWords, LeadsOn, Link
<1>4. /\ Linked("movie", r) /\ r # <<>> /\ Head(r) = s[1]
      /\ ClosedScript(q) => w \in Closing
      /\ /\ ClosedScript(q) /\ (s[Len(s)] \in Ends \/ w \notin Ends)
         /\ \A i \in 1 .. Len(s) : s[i] \in Closing /\ s[i] # "open TS"
         => ClosedScript(r)
  BY <1>1, <1>3, Instead
<1> HIDE DEF q, r
<1>5. todo'["movie"] = r /\ todo'["gui"] = todo["gui"] /\ todo' = [t \in {"movie", "gui"} |-> todo'[t]]
  BY <1>2
<1>6. SparkScripts'
  BY <1>1, <1>4, <1>5 DEF SparkScripts, Spark!Callers
<1>7. MovieAt' = s[1] /\ GuiAt' = GuiAt /\ MovieAt = w
  BY <1>1, <1>4, <1>5 DEF MovieAt, GuiAt, First, q
<1> QED
  BY <1>4, <1>5, <1>6, <1>7 DEF q

(* The interface takes its next step, or finds more to do. *)
LEMMA GuiGoes ==
  ASSUME SparkScripts, NEW w, Spark!At("gui", w), Spark!Then("gui", <<>>)
  PROVE  /\ SparkScripts' /\ MovieAt' = MovieAt /\ GuiAt = w /\ w \in GuiWords
         /\ todo["movie"]' = todo["movie"]
         /\ w = "vdec close" => GuiAt' \in {"vdec open", "standby on"}
         /\ GuiAt' = "standby off" => w \in {"vdec open", "vdec opening"}
<1> DEFINE q == todo["gui"]
           r == <<>> \o Tail(q)
<1>1. q # <<>> /\ Head(q) = w /\ Linked("gui", q) /\ Linked("movie", todo["movie"])
  BY DEF Spark!At, SparkScripts, Spark!Callers
<1>2. todo' = [todo EXCEPT !["gui"] = r] /\ todo = [t \in {"movie", "gui"} |-> todo[t]]
  BY DEF Spark!Then, SparkScripts, Spark!Callers
<1>3. /\ Linked("gui", r) /\ w \in StepWords("gui")
      /\ r = <<>> => w \notin LeadsOn("gui")
      /\ r # <<>> => Head(r) \in StepWords("gui") /\ Link("gui", w, Head(r))
  BY <1>1, Onward
<1> HIDE DEF q, r
<1>4. todo'["gui"] = r /\ todo'["movie"] = todo["movie"] /\ todo' = [t \in {"movie", "gui"} |-> todo'[t]]
  BY <1>2
<1>5. SparkScripts'
  BY <1>1, <1>3, <1>4 DEF SparkScripts, Spark!Callers
<1>6. GuiAt' = First(r) /\ MovieAt' = MovieAt /\ GuiAt = w
  BY <1>1, <1>4 DEF MovieAt, GuiAt, First, q
<1>7. w \in GuiWords
  BY <1>3 DEF StepWords
<1>8. r = <<>> => w # "vdec close" /\ GuiAt' = "idle"
  BY <1>3, <1>6 DEF LeadsOn, First
<1>9. r # <<>> => /\ w = "vdec close" => GuiAt' \in {"vdec open", "standby on"}
                  /\ GuiAt' = "standby off" => w \in {"vdec open", "vdec opening"}
  BY <1>3, <1>6 DEF Link, First
<1> QED
  BY <1>4, <1>5, <1>6, <1>7, <1>8, <1>9

LEMMA GuiTurns ==
  ASSUME SparkScripts, NEW w, Spark!At("gui", w),
         NEW s \in Seq(GuiWords), s # <<>>, Spark!Then("gui", s),
         \A i \in 1 .. Len(s) - 1 : Link("gui", s[i], s[i + 1]),
         s[Len(s)] \in {"vdec opening", "still"}, s[Len(s)] = "still" => w = "show picture",
         w # "vdec close"
  PROVE  /\ SparkScripts' /\ MovieAt' = MovieAt /\ GuiAt = w /\ GuiAt' = s[1]
         /\ todo["movie"]' = todo["movie"]
<1> DEFINE q == todo["gui"]
           r == s \o Tail(q)
<1>1. q # <<>> /\ Head(q) = w /\ Linked("gui", q) /\ Linked("movie", todo["movie"])
  BY DEF Spark!At, SparkScripts, Spark!Callers
<1>2. todo' = [todo EXCEPT !["gui"] = r] /\ todo = [t \in {"movie", "gui"} |-> todo[t]]
  BY DEF Spark!Then, SparkScripts, Spark!Callers
<1>3. /\ s \in Seq(StepWords("gui"))
      /\ s[Len(s)] \in LeadsOn("gui") => Head(q) \in LeadsOn("gui")
      /\ \A y \in StepWords("gui") : Link("gui", Head(q), y) => Link("gui", s[Len(s)], y)
  BY <1>1 DEF StepWords, LeadsOn, Link
<1>4. Linked("gui", r) /\ r # <<>> /\ Head(r) = s[1]
  BY <1>1, <1>3, Instead
<1> HIDE DEF q, r
<1>5. todo'["gui"] = r /\ todo'["movie"] = todo["movie"] /\ todo' = [t \in {"movie", "gui"} |-> todo'[t]]
  BY <1>2
<1>6. SparkScripts'
  BY <1>1, <1>4, <1>5 DEF SparkScripts, Spark!Callers
<1>7. GuiAt' = s[1] /\ MovieAt' = MovieAt /\ GuiAt = w
  BY <1>1, <1>4, <1>5 DEF MovieAt, GuiAt, First, q
<1> QED
  BY <1>5, <1>6, <1>7

(* Scripts that are put together. *)
LEMMA Appended ==
  ASSUME NEW W, NEW s \in Seq(W), NEW t \in Seq(W), NEW u \in Seq(W),
         Len(u) = Len(s) + Len(t),
         \A i \in 1 .. Len(s) : u[i] = s[i],
         \A i \in 1 .. Len(t) : u[Len(s) + i] = t[i]
  PROVE  s \o t = u
<1>1. s \o t \in Seq(W) /\ Len(s \o t) = Len(u)
  BY ConcatProperties
<1>2. ASSUME NEW i \in 1 .. Len(u) PROVE (s \o t)[i] = u[i]
  <2>1. (s \o t)[i] = IF i <= Len(s) THEN s[i] ELSE t[i - Len(s)]
    BY <1>2, ConcatProperties
  <2>2. i <= Len(s) => i \in 1 .. Len(s)
    BY <1>2
  <2>3. ~(i <= Len(s)) => i - Len(s) \in 1 .. Len(t) /\ Len(s) + (i - Len(s)) = i
    BY <1>2
  <2> QED
    BY <2>1, <2>2, <2>3
<1> QED
  BY <1>1, <1>2, SeqEqual

LEMMA Join11 ==
  ASSUME NEW W, NEW a \in W, NEW b \in W
  PROVE  <<a>> \o <<b>> = <<a, b>>
<1> DEFINE s == <<a>>
           t == <<b>>
           u == <<a, b>>
<1>1. s \in Seq(W) /\ t \in Seq(W) /\ u \in Seq(W)
  OBVIOUS
<1>2. /\ Len(s) = 1 /\ Len(t) = 1 /\ Len(u) = 2
      /\ u[1] = s[1]
      /\ u[2] = t[1]
  OBVIOUS
<1> HIDE DEF s, t, u
<1>3. /\ Len(u) = Len(s) + Len(t)
      /\ \A i \in 1 .. Len(s) : u[i] = s[i]
      /\ \A i \in 1 .. Len(t) : u[Len(s) + i] = t[i]
  BY <1>2
<1>4. s \o t = u
  BY <1>1, <1>3, Appended
<1> QED
  BY <1>4 DEF s, t, u

LEMMA Join21 ==
  ASSUME NEW W, NEW a \in W, NEW b \in W, NEW c \in W
  PROVE  <<a, b>> \o <<c>> = <<a, b, c>>
<1> DEFINE s == <<a, b>>
           t == <<c>>
           u == <<a, b, c>>
<1>1. s \in Seq(W) /\ t \in Seq(W) /\ u \in Seq(W)
  OBVIOUS
<1>2. /\ Len(s) = 2 /\ Len(t) = 1 /\ Len(u) = 3
      /\ u[1] = s[1] /\ u[2] = s[2]
      /\ u[3] = t[1]
  OBVIOUS
<1> HIDE DEF s, t, u
<1>3. /\ Len(u) = Len(s) + Len(t)
      /\ \A i \in 1 .. Len(s) : u[i] = s[i]
      /\ \A i \in 1 .. Len(t) : u[Len(s) + i] = t[i]
  BY <1>2
<1>4. s \o t = u
  BY <1>1, <1>3, Appended
<1> QED
  BY <1>4 DEF s, t, u

LEMMA Join23 ==
  ASSUME NEW W, NEW a \in W, NEW b \in W, NEW c \in W, NEW d \in W, NEW e \in W
  PROVE  <<a, b>> \o <<c, d, e>> = <<a, b, c, d, e>>
<1> DEFINE s == <<a, b>>
           t == <<c, d, e>>
           u == <<a, b, c, d, e>>
<1>1. s \in Seq(W) /\ t \in Seq(W) /\ u \in Seq(W)
  OBVIOUS
<1>2. /\ Len(s) = 2 /\ Len(t) = 3 /\ Len(u) = 5
      /\ u[1] = s[1] /\ u[2] = s[2]
      /\ u[3] = t[1] /\ u[4] = t[2] /\ u[5] = t[3]
  OBVIOUS
<1> HIDE DEF s, t, u
<1>3. /\ Len(u) = Len(s) + Len(t)
      /\ \A i \in 1 .. Len(s) : u[i] = s[i]
      /\ \A i \in 1 .. Len(t) : u[Len(s) + i] = t[i]
  BY <1>2
<1>4. s \o t = u
  BY <1>1, <1>3, Appended
<1> QED
  BY <1>4 DEF s, t, u

LEMMA Join31 ==
  ASSUME NEW W, NEW a \in W, NEW b \in W, NEW c \in W, NEW d \in W
  PROVE  <<a, b, c>> \o <<d>> = <<a, b, c, d>>
<1> DEFINE s == <<a, b, c>>
           t == <<d>>
           u == <<a, b, c, d>>
<1>1. s \in Seq(W) /\ t \in Seq(W) /\ u \in Seq(W)
  OBVIOUS
<1>2. /\ Len(s) = 3 /\ Len(t) = 1 /\ Len(u) = 4
      /\ u[1] = s[1] /\ u[2] = s[2] /\ u[3] = s[3]
      /\ u[4] = t[1]
  OBVIOUS
<1> HIDE DEF s, t, u
<1>3. /\ Len(u) = Len(s) + Len(t)
      /\ \A i \in 1 .. Len(s) : u[i] = s[i]
      /\ \A i \in 1 .. Len(t) : u[Len(s) + i] = t[i]
  BY <1>2
<1>4. s \o t = u
  BY <1>1, <1>3, Appended
<1> QED
  BY <1>4 DEF s, t, u

LEMMA Join43 ==
  ASSUME NEW W, NEW a \in W, NEW b \in W, NEW c \in W, NEW d \in W, NEW e \in W, NEW f \in W, NEW g \in W
  PROVE  <<a, b, c, d>> \o <<e, f, g>> = <<a, b, c, d, e, f, g>>
<1> DEFINE s == <<a, b, c, d>>
           t == <<e, f, g>>
           u == <<a, b, c, d, e, f, g>>
<1>1. s \in Seq(W) /\ t \in Seq(W) /\ u \in Seq(W)
  OBVIOUS
<1>2. /\ Len(s) = 4 /\ Len(t) = 3 /\ Len(u) = 7
      /\ u[1] = s[1] /\ u[2] = s[2] /\ u[3] = s[3] /\ u[4] = s[4]
      /\ u[5] = t[1] /\ u[6] = t[2] /\ u[7] = t[3]
  OBVIOUS
<1> HIDE DEF s, t, u
<1>3. /\ Len(u) = Len(s) + Len(t)
      /\ \A i \in 1 .. Len(s) : u[i] = s[i]
      /\ \A i \in 1 .. Len(t) : u[Len(s) + i] = t[i]
  BY <1>2
<1>4. s \o t = u
  BY <1>1, <1>3, Appended
<1> QED
  BY <1>4 DEF s, t, u

(* The scripts of the player's calls. *)
LEMMA ScriptsAre ==
  /\ Spark!Handover \o <<"open FILE">> = <<"release", "vdec close", "open FILE">>
  /\ Spark!Handover \o <<"output open", "speed play", "dispatch">> =
       <<"release", "vdec close", "output open", "speed play", "dispatch">>
  /\ Spark!CloseScript = <<"player stop", "output close", "player close", "reacquire">>
  /\ Spark!RestartScript = <<"player stop", "output close", "player close", "reacquire",
                             "eof off", "restart", "restart speed">>
  /\ arg \in Int => Spark!SpeedSteps \o <<"jump">> \in
       {<<"jump">>} \cup {<<x, "jump">> : x \in {"forward", "backward", "pause", "continue"}}
         \cup {<<"reverse end", "forward", "jump">>, <<"continue", "backward", "jump">>}
<1>1. Spark!Handover \o <<"open FILE">> = <<"release", "vdec close", "open FILE">>
  <2>1. "release" \in MovieWords /\ "vdec close" \in MovieWords
        /\ "open FILE" \in MovieWords
    BY DEF MovieWords, Closing
  <2>2. \A a, b, c \in MovieWords : <<a, b>> \o <<c>> = <<a, b, c>>
    BY Join21
  <2>3. <<"release", "vdec close">> \o <<"open FILE">> = <<"release", "vdec close", "open FILE">>
    BY <2>1, <2>2
  <2> QED
    BY <2>3 DEF Spark!Handover
<1>2. Spark!Handover \o <<"output open", "speed play", "dispatch">> =
        <<"release", "vdec close", "output open", "speed play", "dispatch">>
  <2>1. "release" \in MovieWords /\ "vdec close" \in MovieWords
        /\ "output open" \in MovieWords /\ "speed play" \in MovieWords
        /\ "dispatch" \in MovieWords
    BY DEF MovieWords, Closing
  <2>2. \A a, b, c, d, e \in MovieWords : <<a, b>> \o <<c, d, e>> = <<a, b, c, d, e>>
    BY Join23
  <2>4. \A c, d, e \in MovieWords :
          <<"release", "vdec close">> \o <<c, d, e>> = <<"release", "vdec close", c, d, e>>
    BY <2>1, <2>2
  <2>3. <<"release", "vdec close">> \o <<"output open", "speed play", "dispatch">> =
          <<"release", "vdec close", "output open", "speed play", "dispatch">>
    BY <2>1, <2>4
  <2> QED
    BY <2>3 DEF Spark!Handover
<1>3. Spark!CloseScript = <<"player stop", "output close", "player close", "reacquire">>
  <2>1. "player stop" \in MovieWords /\ "output close" \in MovieWords
        /\ "player close" \in MovieWords /\ "reacquire" \in MovieWords
    BY DEF MovieWords, Closing
  <2>2. \A a, b, c, d \in MovieWords : <<a, b, c>> \o <<d>> = <<a, b, c, d>>
    BY Join31
  <2>3. <<"player stop", "output close", "player close">> \o <<"reacquire">> =
          <<"player stop", "output close", "player close", "reacquire">>
    BY <2>1, <2>2
  <2> QED
    BY <2>3 DEF Spark!CloseScript, Spark!StopScript
<1>4. Spark!RestartScript = <<"player stop", "output close", "player close", "reacquire",
                              "eof off", "restart", "restart speed">>
  <2>1. "player stop" \in MovieWords /\ "output close" \in MovieWords
        /\ "player close" \in MovieWords /\ "reacquire" \in MovieWords
        /\ "eof off" \in MovieWords /\ "restart" \in MovieWords
        /\ "restart speed" \in MovieWords
    BY DEF MovieWords, Closing
  <2>2. \A a, b, c, d, e, f, g \in MovieWords :
          <<a, b, c, d>> \o <<e, f, g>> = <<a, b, c, d, e, f, g>>
    <3> TAKE a, b, c, d, e, f, g \in MovieWords
    <3> QED
      BY Join43
  <2>4. \A d, e, f, g \in MovieWords :
          <<"player stop", "output close", "player close", d>> \o <<e, f, g>> =
            <<"player stop", "output close", "player close", d, e, f, g>>
    BY <2>1, <2>2
  <2>5. \A f, g \in MovieWords :
          <<"player stop", "output close", "player close", "reacquire">>
            \o <<"eof off", f, g>> =
          <<"player stop", "output close", "player close", "reacquire", "eof off", f, g>>
    BY <2>1, <2>4
  <2>3. <<"player stop", "output close", "player close", "reacquire">>
          \o <<"eof off", "restart", "restart speed">> =
        <<"player stop", "output close", "player close", "reacquire",
          "eof off", "restart", "restart speed">>
    BY <2>1, <2>5
  <2> QED
    BY <1>3, <2>3 DEF Spark!RestartScript
<1>5. ASSUME arg \in Int
      PROVE  Spark!SpeedSteps \o <<"jump">> \in
               {<<"jump">>} \cup {<<x, "jump">> : x \in {"forward", "backward", "pause", "continue"}}
                 \cup {<<"reverse end", "forward", "jump">>, <<"continue", "backward", "jump">>}
  <2>1. "jump" \in MovieWords /\ "forward" \in MovieWords /\ "backward" \in MovieWords
        /\ "pause" \in MovieWords /\ "continue" \in MovieWords
        /\ "reverse end" \in MovieWords
    BY DEF MovieWords, Closing
  <2>2. /\ \A a, b \in MovieWords : <<a>> \o <<b>> = <<a, b>>
        /\ \A a, b, c \in MovieWords : <<a, b>> \o <<c>> = <<a, b, c>>
    BY Join11, Join21
  <2>9. \A w \in MovieWords : <<w>> \in Seq(MovieWords)
    OBVIOUS
  <2>3. <<"jump">> \in Seq(MovieWords)
    BY <2>1, <2>9
  <2>4. <<>> \o <<"jump">> = <<"jump">>
    BY <2>3, ConcatEmptySeq
  <2>5. \A x \in {"forward", "backward", "pause", "continue"} : <<x>> \o <<"jump">> = <<x, "jump">>
    BY <2>1, <2>2
  <2>6. /\ <<"reverse end", "forward">> \o <<"jump">> = <<"reverse end", "forward", "jump">>
        /\ <<"continue", "backward">> \o <<"jump">> = <<"continue", "backward", "jump">>
    BY <2>1, <2>2
  <2>7. Spark!SpeedSteps \in {<<>>, <<"forward">>, <<"backward">>, <<"pause">>, <<"continue">>,
                              <<"reverse end", "forward">>, <<"continue", "backward">>}
    <3>1. arg > 1 \/ arg < 0 \/ arg = 0 \/ arg = 1
      BY <1>5
    <3> QED
      BY <3>1 DEF Spark!SpeedSteps
  <2> DEFINE S == Spark!SpeedSteps
  <2> HIDE DEF S
  <2>8. S \in {<<>>, <<"reverse end", "forward">>, <<"continue", "backward">>}
        \/ \E x \in {"forward", "backward", "pause", "continue"} : S = <<x>>
    BY <2>7 DEF S
  <2> QED
    BY <2>4, <2>5, <2>6, <2>8 DEF S
<1> QED
  BY <1>1, <1>2, <1>3, <1>4, <1>5

(* A script that ends with a step that leads no further. *)
Whole(s) ==
  /\ s \in Seq(MovieWords) /\ s # <<>> /\ s[Len(s)] \notin Begun
  /\ \A i \in 1 .. Len(s) - 1 : Link("movie", s[i], s[i + 1])

LEMMA Whole2 ==
  ASSUME NEW a \in MovieWords, NEW b \in MovieWords,
         Link("movie", a, b),
         b \notin Begun
  PROVE  Whole(<<a, b>>)
<1> DEFINE s == <<a, b>>
<1>1. s \in Seq(MovieWords) /\ s # <<>>
  OBVIOUS
<1>2. Len(s) = 2 /\ s[1] = a /\ s[2] = b
  OBVIOUS
<1> HIDE DEF s
<1>3. \A i \in 1 .. Len(s) - 1 : Link("movie", s[i], s[i + 1])
  <2> SUFFICES ASSUME NEW i \in 1 .. Len(s) - 1 PROVE Link("movie", s[i], s[i + 1])
    OBVIOUS
  <2>1. i = 1
    BY <1>2
  <2> QED
    BY <1>2, <2>1
<1> QED
  BY <1>1, <1>2, <1>3 DEF Whole, s

LEMMA Whole3 ==
  ASSUME NEW a \in MovieWords, NEW b \in MovieWords, NEW c \in MovieWords,
         Link("movie", a, b), Link("movie", b, c),
         c \notin Begun
  PROVE  Whole(<<a, b, c>>)
<1> DEFINE s == <<a, b, c>>
<1>1. s \in Seq(MovieWords) /\ s # <<>>
  OBVIOUS
<1>2. Len(s) = 3 /\ s[1] = a /\ s[2] = b /\ s[3] = c
  OBVIOUS
<1> HIDE DEF s
<1>3. \A i \in 1 .. Len(s) - 1 : Link("movie", s[i], s[i + 1])
  <2> SUFFICES ASSUME NEW i \in 1 .. Len(s) - 1 PROVE Link("movie", s[i], s[i + 1])
    OBVIOUS
  <2>1. i = 1 \/ i = 2
    BY <1>2
  <2> QED
    BY <1>2, <2>1
<1> QED
  BY <1>1, <1>2, <1>3 DEF Whole, s

LEMMA Whole4 ==
  ASSUME NEW a \in MovieWords, NEW b \in MovieWords, NEW c \in MovieWords,
         NEW d \in MovieWords,
         Link("movie", a, b), Link("movie", b, c), Link("movie", c, d),
         d \notin Begun
  PROVE  Whole(<<a, b, c, d>>)
<1> DEFINE s == <<a, b, c, d>>
<1>1. s \in Seq(MovieWords) /\ s # <<>>
  OBVIOUS
<1>2. Len(s) = 4 /\ s[1] = a /\ s[2] = b /\ s[3] = c /\ s[4] = d
  OBVIOUS
<1> HIDE DEF s
<1>3. \A i \in 1 .. Len(s) - 1 : Link("movie", s[i], s[i + 1])
  <2> SUFFICES ASSUME NEW i \in 1 .. Len(s) - 1 PROVE Link("movie", s[i], s[i + 1])
    OBVIOUS
  <2>1. i = 1 \/ i = 2 \/ i = 3
    BY <1>2
  <2> QED
    BY <1>2, <2>1
<1> QED
  BY <1>1, <1>2, <1>3 DEF Whole, s

LEMMA Whole5 ==
  ASSUME NEW a \in MovieWords, NEW b \in MovieWords, NEW c \in MovieWords,
         NEW d \in MovieWords, NEW e \in MovieWords,
         Link("movie", a, b), Link("movie", b, c), Link("movie", c, d),
         Link("movie", d, e),
         e \notin Begun
  PROVE  Whole(<<a, b, c, d, e>>)
<1> DEFINE s == <<a, b, c, d, e>>
<1>1. s \in Seq(MovieWords) /\ s # <<>>
  OBVIOUS
<1>2. Len(s) = 5 /\ s[1] = a /\ s[2] = b /\ s[3] = c /\ s[4] = d /\ s[5] = e
  OBVIOUS
<1> HIDE DEF s
<1>3. \A i \in 1 .. Len(s) - 1 : Link("movie", s[i], s[i + 1])
  <2> SUFFICES ASSUME NEW i \in 1 .. Len(s) - 1 PROVE Link("movie", s[i], s[i + 1])
    OBVIOUS
  <2>1. i = 1 \/ i = 2 \/ i = 3 \/ i = 4
    BY <1>2
  <2> QED
    BY <1>2, <2>1
<1> QED
  BY <1>1, <1>2, <1>3 DEF Whole, s

LEMMA Whole7 ==
  ASSUME NEW a \in MovieWords, NEW b \in MovieWords, NEW c \in MovieWords,
         NEW d \in MovieWords, NEW e \in MovieWords, NEW f \in MovieWords, NEW g \in MovieWords,
         Link("movie", a, b), Link("movie", b, c), Link("movie", c, d),
         Link("movie", d, e), Link("movie", e, f), Link("movie", f, g),
         g \notin Begun
  PROVE  Whole(<<a, b, c, d, e, f, g>>)
<1> DEFINE s == <<a, b, c, d, e, f, g>>
<1>1. s \in Seq(MovieWords) /\ s # <<>>
  OBVIOUS
<1>2. Len(s) = 7 /\ s[1] = a /\ s[2] = b /\ s[3] = c /\ s[4] = d /\ s[5] = e /\ s[6] = f /\ s[7] = g
  OBVIOUS
<1> HIDE DEF s
<1>3. \A i \in 1 .. Len(s) - 1 : Link("movie", s[i], s[i + 1])
  <2> SUFFICES ASSUME NEW i \in 1 .. Len(s) - 1 PROVE Link("movie", s[i], s[i + 1])
    OBVIOUS
  <2>1. i = 1 \/ i = 2 \/ i = 3 \/ i = 4 \/ i = 5 \/ i = 6
    BY <1>2
  <2> QED
    BY <1>2, <2>1
<1> QED
  BY <1>1, <1>2, <1>3 DEF Whole, s

LEMMA WholeScripts ==
  /\ Whole(<<"open TS">>)
  /\ Whole(<<"release", "vdec close", "open FILE">>)
  /\ Whole(<<"start">>)
  /\ Whole(<<"set speed">>)
  /\ Whole(<<"position">>)
  /\ Whole(<<"player stop", "output close", "player close", "reacquire">>)
  /\ Whole(<<"player stop", "output close", "player close", "reacquire", "eof off",
           "restart", "restart speed">>)
  /\ Whole(<<"output open", "start play">>)
  /\ Whole(<<"start pause">>)
  /\ Whole(<<"dispatch">>)
  /\ Whole(<<"release", "vdec close", "output open", "speed play", "dispatch">>)
  /\ Whole(<<"jump position", "jump done">>)
  /\ Whole(<<"vdec open", "reacquired">>)
  /\ Whole(<<"jump">>)
  /\ Whole(<<"reverse end", "forward", "jump">>)
  /\ Whole(<<"continue", "backward", "jump">>)
  /\ \A x \in {"forward", "backward", "pause", "continue"} : Whole(<<x, "jump">>)
<1>1. Whole(<<"open TS">>)
  BY DEF Whole, Link, Behind, Begun, Led, MovieWords, Closing
<1>2. Whole(<<"release", "vdec close", "open FILE">>)
  <2>1. "release" \in MovieWords /\ "vdec close" \in MovieWords
        /\ "open FILE" \in MovieWords
    BY DEF MovieWords, Closing
  <2>2. Link("movie", "release", "vdec close") /\ Link("movie", "vdec close", "open FILE")
        /\ "open FILE" \notin Begun
    BY DEF Link, Behind, Begun, Led
  <2> QED
    BY <2>1, <2>2, Whole3
<1>3. Whole(<<"start">>)
  BY DEF Whole, Link, Behind, Begun, Led, MovieWords, Closing
<1>4. Whole(<<"set speed">>)
  BY DEF Whole, Link, Behind, Begun, Led, MovieWords, Closing
<1>5. Whole(<<"position">>)
  BY DEF Whole, Link, Behind, Begun, Led, MovieWords, Closing
<1>6. Whole(<<"player stop", "output close", "player close", "reacquire">>)
  <2>1. "player stop" \in MovieWords /\ "output close" \in MovieWords
        /\ "player close" \in MovieWords /\ "reacquire" \in MovieWords
    BY DEF MovieWords, Closing
  <2>2. Link("movie", "player stop", "output close")
        /\ Link("movie", "output close", "player close")
        /\ Link("movie", "player close", "reacquire") /\ "reacquire" \notin Begun
    BY DEF Link, Behind, Begun, Led
  <2> QED
    BY <2>1, <2>2, Whole4
<1>7. Whole(<<"player stop", "output close", "player close", "reacquire",
              "eof off", "restart", "restart speed">>)
  <2>1. "player stop" \in MovieWords /\ "output close" \in MovieWords
        /\ "player close" \in MovieWords /\ "reacquire" \in MovieWords
        /\ "eof off" \in MovieWords /\ "restart" \in MovieWords
        /\ "restart speed" \in MovieWords
    BY DEF MovieWords, Closing
  <2>2. Link("movie", "player stop", "output close")
        /\ Link("movie", "output close", "player close")
        /\ Link("movie", "player close", "reacquire")
        /\ Link("movie", "reacquire", "eof off") /\ Link("movie", "eof off", "restart")
        /\ Link("movie", "restart", "restart speed") /\ "restart speed" \notin Begun
    BY DEF Link, Behind, Begun, Led
  <2> QED
    BY <2>1, <2>2, Whole7
<1>8. Whole(<<"output open", "start play">>)
  <2>1. "output open" \in MovieWords /\ "start play" \in MovieWords
    BY DEF MovieWords, Closing
  <2>2. Link("movie", "output open", "start play") /\ "start play" \notin Begun
    BY DEF Link, Behind, Begun, Led
  <2> QED
    BY <2>1, <2>2, Whole2
<1>9. Whole(<<"start pause">>)
  BY DEF Whole, Link, Behind, Begun, Led, MovieWords, Closing
<1>10. Whole(<<"dispatch">>)
  BY DEF Whole, Link, Behind, Begun, Led, MovieWords, Closing
<1>11. Whole(<<"release", "vdec close", "output open", "speed play", "dispatch">>)
  <2>1. "release" \in MovieWords /\ "vdec close" \in MovieWords
        /\ "output open" \in MovieWords /\ "speed play" \in MovieWords
        /\ "dispatch" \in MovieWords
    BY DEF MovieWords, Closing
  <2>2. Link("movie", "release", "vdec close") /\ Link("movie", "vdec close", "output open")
        /\ Link("movie", "output open", "speed play")
        /\ Link("movie", "speed play", "dispatch") /\ "dispatch" \notin Begun
    BY DEF Link, Behind, Begun, Led
  <2> QED
    BY <2>1, <2>2, Whole5
<1>12. Whole(<<"jump position", "jump done">>)
  <2>1. "jump position" \in MovieWords /\ "jump done" \in MovieWords
    BY DEF MovieWords, Closing
  <2>2. Link("movie", "jump position", "jump done") /\ "jump done" \notin Begun
    BY DEF Link, Behind, Begun, Led
  <2> QED
    BY <2>1, <2>2, Whole2
<1>13. Whole(<<"vdec open", "reacquired">>)
  <2>1. "vdec open" \in MovieWords /\ "reacquired" \in MovieWords
    BY DEF MovieWords, Closing
  <2>2. Link("movie", "vdec open", "reacquired") /\ "reacquired" \notin Begun
    BY DEF Link, Behind, Begun, Led
  <2> QED
    BY <2>1, <2>2, Whole2
<1>14. Whole(<<"jump">>)
  BY DEF Whole, Link, Behind, Begun, Led, MovieWords, Closing
<1>15. Whole(<<"reverse end", "forward", "jump">>)
  <2>1. "reverse end" \in MovieWords /\ "forward" \in MovieWords /\ "jump" \in MovieWords
    BY DEF MovieWords, Closing
  <2>2. Link("movie", "reverse end", "forward") /\ Link("movie", "forward", "jump")
        /\ "jump" \notin Begun
    BY DEF Link, Behind, Begun, Led
  <2> QED
    BY <2>1, <2>2, Whole3
<1>16. Whole(<<"continue", "backward", "jump">>)
  <2>1. "continue" \in MovieWords /\ "backward" \in MovieWords /\ "jump" \in MovieWords
    BY DEF MovieWords, Closing
  <2>2. Link("movie", "continue", "backward") /\ Link("movie", "backward", "jump")
        /\ "jump" \notin Begun
    BY DEF Link, Behind, Begun, Led
  <2> QED
    BY <2>1, <2>2, Whole3
<1>17. \A x \in {"forward", "backward", "pause", "continue"} : Whole(<<x, "jump">>)
  <2> SUFFICES ASSUME NEW x \in {"forward", "backward", "pause", "continue"}
               PROVE  Whole(<<x, "jump">>)
    OBVIOUS
  <2>1. /\ x \in MovieWords /\ "jump" \in MovieWords /\ Link("movie", x, "jump")
        /\ "jump" \notin Begun
    BY DEF Link, Behind, Begun, Led, MovieWords, Closing
  <2> QED
    BY <2>1, Whole2
<1> QED
  BY ONLY <1>1, <1>2, <1>3, <1>4, <1>5, <1>6, <1>7, <1>8, <1>9, <1>10, <1>11, <1>12, <1>13, <1>14, <1>15, <1>16, <1>17

(* A call of the player, and one of the interface. *)
LEMMA MovieCalled ==
  ASSUME SparkScripts, NEW s, Whole(s), Spark!Call("movie", s)
  PROVE  /\ SparkScripts' /\ GuiAt' = GuiAt /\ MovieAt = "idle" /\ MovieAt' = s[1]
         /\ todo["movie"]' = s
<1>1. todo["movie"] = <<>> /\ Linked("gui", todo["gui"])
  BY DEF Spark!Call, Spark!Idle, SparkScripts, Spark!Callers
<1>2. todo' = [todo EXCEPT !["movie"] = s] /\ todo = [t \in {"movie", "gui"} |-> todo[t]]
  BY DEF Spark!Call, SparkScripts, Spark!Callers
<1>3. Linked("movie", s) /\ s # <<>> /\ Head(s) = s[1]
  BY DEF Whole, Linked, StepWords, LeadsOn
<1>4. todo'["movie"] = s /\ todo'["gui"] = todo["gui"] /\ todo' = [t \in {"movie", "gui"} |-> todo'[t]]
  BY <1>2
<1>5. SparkScripts'
  BY <1>1, <1>3, <1>4 DEF SparkScripts, Spark!Callers
<1>6. MovieAt' = s[1] /\ GuiAt' = GuiAt /\ MovieAt = "idle"
  BY <1>1, <1>3, <1>4 DEF MovieAt, GuiAt, First
<1> QED
  BY <1>4, <1>5, <1>6

LEMMA GuiOne ==
  ASSUME NEW a \in GuiWords, a \notin LeadsOn("gui")
  PROVE  Linked("gui", <<a>>) /\ <<a>> # <<>> /\ Head(<<a>>) = a
<1> DEFINE z == <<a>>
<1>1. z \in Seq(GuiWords)
  OBVIOUS
<1>3. Len(z) = 1 /\ z[1] = a /\ z # <<>> /\ Head(z) = a
  OBVIOUS
<1> HIDE DEF z
<1>4. \A k \in 1 .. Len(z) - 1 : Link("gui", z[k], z[k + 1])
  <2>1. 1 .. Len(z) - 1 = {}
    BY <1>3
  <2> QED
    BY <2>1
<1>2. Linked("gui", z)
  BY <1>1, <1>3, <1>4 DEF Linked, StepWords
<1> QED
  BY <1>2, <1>3 DEF z

LEMMA GuiTwo ==
  ASSUME NEW a \in GuiWords, NEW b \in GuiWords, Link("gui", a, b),
         b \notin LeadsOn("gui")
  PROVE  Linked("gui", <<a, b>>) /\ <<a, b>> # <<>> /\ Head(<<a, b>>) = a
<1> DEFINE z == <<a, b>>
<1>1. z \in Seq(GuiWords)
  OBVIOUS
<1>4. Len(z) = 2 /\ z[1] = a /\ z[2] = b /\ z # <<>> /\ Head(z) = a
  OBVIOUS
<1> HIDE DEF z
<1>2. \A k \in 1 .. Len(z) - 1 : Link("gui", z[k], z[k + 1])
  <2> SUFFICES ASSUME NEW k \in 1 .. Len(z) - 1 PROVE Link("gui", z[k], z[k + 1])
    OBVIOUS
  <2>1. k = 1
    BY <1>4
  <2> QED
    BY <1>4, <2>1
<1>3. Linked("gui", z)
  BY <1>1, <1>2, <1>4 DEF Linked, StepWords
<1> QED
  BY <1>3, <1>4 DEF z

LEMMA GuiCalled ==
  ASSUME SparkScripts, NEW s, Spark!Call("gui", s),
         s \in {<<"vdec start">>, <<"show picture">>, <<"vdec close", "standby on">>,
                <<"vdec open", "standby off">>}
  PROVE  /\ SparkScripts' /\ MovieAt' = MovieAt /\ GuiAt = "idle" /\ GuiAt' # "standby off"
         /\ todo["movie"]' = todo["movie"]
<1>1. todo["gui"] = <<>> /\ Linked("movie", todo["movie"])
  BY DEF Spark!Call, Spark!Idle, SparkScripts, Spark!Callers
<1>2. todo' = [todo EXCEPT !["gui"] = s] /\ todo = [t \in {"movie", "gui"} |-> todo[t]]
  BY DEF Spark!Call, SparkScripts, Spark!Callers
<1>3. Linked("gui", s) /\ s # <<>> /\ Head(s) # "standby off"
  <2>3. /\ "vdec start" \in GuiWords /\ "show picture" \in GuiWords /\ "vdec close" \in GuiWords
        /\ "standby on" \in GuiWords /\ "vdec open" \in GuiWords /\ "standby off" \in GuiWords
        /\ Link("gui", "vdec close", "standby on") /\ Link("gui", "vdec open", "standby off")
        /\ \A x \in {"vdec start", "show picture", "standby on", "standby off"} : x \notin LeadsOn("gui")
    BY DEF GuiWords, Link, LeadsOn
  <2>4. CASE s = <<"vdec start">>
    BY GuiOne, <2>3, <2>4
  <2>5. CASE s = <<"show picture">>
    BY GuiOne, <2>3, <2>5
  <2>6. CASE s = <<"vdec close", "standby on">>
    BY GuiTwo, <2>3, <2>6
  <2>7. CASE s = <<"vdec open", "standby off">>
    BY GuiTwo, <2>3, <2>7
  <2> QED
    BY <2>4, <2>5, <2>6, <2>7
<1>4. todo'["gui"] = s /\ todo'["movie"] = todo["movie"] /\ todo' = [t \in {"movie", "gui"} |-> todo'[t]]
  BY <1>2
<1>5. SparkScripts'
  BY <1>1, <1>3, <1>4 DEF SparkScripts, Spark!Callers
<1>6. GuiAt' = Head(s) /\ MovieAt' = MovieAt /\ GuiAt = "idle"
  BY <1>1, <1>3, <1>4 DEF MovieAt, GuiAt, First
<1> QED
  BY <1>3, <1>4, <1>5, <1>6

(* Scripts, and who has what, after a step. *)
SparkHeld == SparkScripts /\ SparkClosed /\ SparkSound /\ SparkPicture

(* What the player does while it neither takes nor gives the devices. *)
Within ==
  {"output close", "player close", "reacquire", "vdec close", "vdec open", "vdec opening",
   "reacquired"}
LEMMA PlainHeads ==
  ASSUME SparkInv, GuiAt' = GuiAt, MovieAt \notin Led, MovieAt' \notin Within,
         UNCHANGED <<decoders_closed, vdec, vheld, aheld>>
  PROVE  SparkSound' /\ SparkPicture'
<1>1. /\ ~Reopening /\ ~Reopening' /\ MovieAt' \notin {"player close", "reacquire", "vdec close"}
      /\ MovieAt # "reacquired" /\ MovieAt' # "reacquired"
  BY DEF Reopening, Led, Begun, Within
<1>2. SparkSound'
  BY <1>1 DEF SparkInv, SparkSound
<1>3. SparkPicture'
  BY <1>1 DEF SparkInv, SparkPicture, Available
<1> QED
  BY <1>2, <1>3

LEMMA PlainMove ==
  ASSUME SparkInv, NEW w \in MovieWords \ Led, Spark!At("movie", w),
         NEW s, Spark!Then("movie", s), s = <<>> \/ (Whole(s) /\ s[1] \notin Within),
         phase' # "closed" \/ (phase' = phase /\ w \notin Closing)
  PROVE  /\ SparkScripts' /\ SparkClosed' /\ GuiAt' = GuiAt /\ MovieAt = w
         /\ MovieAt' \notin Within
<1>1. SparkScripts /\ SparkClosed
  BY DEF SparkInv
<1>2. CASE s = <<>>
  <2>1. /\ SparkScripts' /\ GuiAt' = GuiAt /\ MovieAt = w /\ MovieAt' \notin Led
        /\ ClosedScript(todo["movie"]) => w \in Closing
    BY <1>1, <1>2, MovieGoes DEF Led
  <2>2. MovieAt' \notin Within
    BY <2>1 DEF Within, Led, Begun
  <2>3. SparkClosed'
    BY <1>1, <2>1 DEF SparkClosed
  <2> QED
    BY <2>1, <2>2, <2>3
<1>3. CASE s # <<>>
  <2>1. /\ s \in Seq(MovieWords) /\ s # <<>> /\ s[Len(s)] \notin Begun /\ w \notin Begun
        /\ \A i \in 1 .. Len(s) - 1 : Link("movie", s[i], s[i + 1])
    BY <1>3 DEF Whole, Led
  <2>2. /\ SparkScripts' /\ GuiAt' = GuiAt /\ MovieAt = w /\ MovieAt' = s[1]
        /\ ClosedScript(todo["movie"]) => w \in Closing
    BY <1>1, <2>1, MovieTurns
  <2>3. SparkClosed'
    BY <1>1, <2>2 DEF SparkClosed
  <2> QED
    BY <1>3, <2>2, <2>3
<1> QED
  BY <1>2, <1>3

LEMMA PlainStep ==
  ASSUME SparkInv, NEW w \in MovieWords \ Led, Spark!At("movie", w),
         NEW s, Spark!Then("movie", s), s = <<>> \/ (Whole(s) /\ s[1] \notin Within),
         phase' # "closed" \/ (phase' = phase /\ w \notin Closing),
         UNCHANGED <<decoders_closed, vdec, vheld, aheld>>
  PROVE  SparkHeld'
<1>1. SparkScripts' /\ SparkClosed' /\ GuiAt' = GuiAt /\ MovieAt \notin Led /\ MovieAt' \notin Within
  BY PlainMove
<1>2. SparkSound' /\ SparkPicture'
  BY <1>1, PlainHeads
<1> QED
  BY <1>1, <1>2 DEF SparkHeld

(* The plain types of the player's variables. *)
LEMMA SparkTypesStep ==
  ASSUME SparkTypes, SparkFlags, [Spark!Next]_(Spark!vars)
  PROVE  SparkTypes' /\ SparkFlags'
<1>1. CASE Spark!CallOpen
  BY <1>1 DEF SparkTypes, SparkFlags, Spark!CallOpen, Spark!CallFrame,
              Spark!statics, Spark!private, Spark!player
<1>2. CASE Spark!CallStart
  BY <1>2 DEF SparkTypes, SparkFlags, Spark!CallStart, Spark!CallFrame,
              Spark!statics, Spark!private, Spark!player
<1>3. CASE Spark!CallSetSpeed
  BY <1>3 DEF SparkTypes, SparkFlags, Spark!CallSetSpeed, Spark!CallFrame,
              Spark!statics, Spark!private, Spark!player
<1>4. CASE Spark!CallSetPosition
  BY <1>4 DEF SparkTypes, SparkFlags, Spark!CallSetPosition, Spark!CallFrame,
              Spark!statics, Spark!private, Spark!player
<1>5. CASE Spark!CallClose
  BY <1>5 DEF SparkTypes, SparkFlags, Spark!CallClose, Spark!CallFrame,
              Spark!statics, Spark!private, Spark!player
<1>6. CASE Spark!GetPosition
  BY <1>6 DEF SparkTypes, SparkFlags, Spark!GetPosition, Spark!statics,
              Spark!player
<1>7. CASE Spark!VideoCall
  BY <1>7 DEF SparkTypes, SparkFlags, Spark!VideoCall, Spark!VideoFrame,
              Spark!statics, Spark!private, Spark!player
<1>8. CASE Spark!Release
  BY <1>8 DEF SparkTypes, SparkFlags, Spark!Release, Spark!private, Spark!player
<1>9. CASE Spark!Opened
  BY <1>9 DEF SparkTypes, SparkFlags, Spark!Opened, Spark!NoMedia, Spark!Media
<1>10. CASE Spark!Start
  BY <1>10 DEF SparkTypes, SparkFlags, Spark!Start, Spark!Media
<1>11. CASE Spark!OpenOutput
  BY <1>11 DEF SparkTypes, SparkFlags, Spark!OpenOutput, Spark!PlayStep,
               Spark!statics
<1>12. CASE Spark!StartPlay
  <2>1. SparkTypes'
    BY <1>12 DEF SparkTypes, Spark!StartPlay, Spark!PlayStep, Spark!DevicesStay,
                 Spark!statics, Spark!PlayerPlay, Spark!PlayerFlags
  <2>2. pdplaying' \in BOOLEAN
    BY <1>12 DEF SparkFlags, Spark!StartPlay, Spark!PlayStep, Spark!DevicesStay,
                 Spark!statics, Spark!PlayerPlay, Spark!PlayerFlags
  <2>3. /\ UNCHANGED <<decoders_closed, init_jump, pdeof>>
        /\ isPlaying' \in BOOLEAN /\ isPaused' \in BOOLEAN
        /\ isForwarding' \in BOOLEAN /\ isBackWard' \in BOOLEAN
    BY <1>12 DEF SparkFlags, Spark!StartPlay, Spark!PlayStep, Spark!DevicesStay,
                 Spark!statics, Spark!PlayerPlay, Spark!PlayerFlags
  <2> QED
    BY <2>1, <2>2, <2>3 DEF SparkFlags
<1>13. CASE Spark!StartPause
  <2>1. SparkTypes'
    BY <1>13 DEF SparkTypes, Spark!StartPause, Spark!PlayStep, Spark!statics,
                 Spark!PlayerPause, Spark!PlayerFlags, Spark!CanPause
  <2>2. pdplaying' \in BOOLEAN
    BY <1>13 DEF SparkFlags, Spark!StartPause, Spark!PlayStep, Spark!statics,
                 Spark!PlayerPause, Spark!PlayerFlags, Spark!CanPause
  <2>3. /\ UNCHANGED <<decoders_closed, init_jump, pdeof>>
        /\ isPlaying' \in BOOLEAN /\ isPaused' \in BOOLEAN
        /\ isForwarding' \in BOOLEAN /\ isBackWard' \in BOOLEAN
    BY <1>13 DEF SparkFlags, Spark!StartPause, Spark!PlayStep, Spark!statics,
                 Spark!PlayerPause, Spark!PlayerFlags, Spark!CanPause
  <2> QED
    BY <2>1, <2>2, <2>3 DEF SparkFlags
<1>14. CASE Spark!SetSpeed
  BY <1>14 DEF SparkTypes, SparkFlags, Spark!SetSpeed, Spark!PlayStep,
               Spark!statics
<1>15. CASE Spark!SpeedPlay
  <2>1. SparkTypes'
    BY <1>15 DEF SparkTypes, Spark!SpeedPlay, Spark!PlayStep, Spark!statics,
                 Spark!PlayerPlay, Spark!PlayerFlags
  <2>2. pdplaying' \in BOOLEAN
    BY <1>15 DEF SparkFlags, Spark!SpeedPlay, Spark!PlayStep, Spark!statics,
                 Spark!PlayerPlay, Spark!PlayerFlags
  <2>3. /\ UNCHANGED <<decoders_closed, init_jump, pdeof>>
        /\ isPlaying' \in BOOLEAN /\ isPaused' \in BOOLEAN
        /\ isForwarding' \in BOOLEAN /\ isBackWard' \in BOOLEAN
    BY <1>15 DEF SparkFlags, Spark!SpeedPlay, Spark!PlayStep, Spark!statics,
                 Spark!PlayerPlay, Spark!PlayerFlags
  <2> QED
    BY <2>1, <2>2, <2>3 DEF SparkFlags
<1>16. CASE Spark!Dispatch
  BY <1>16 DEF SparkTypes, SparkFlags, Spark!Dispatch, Spark!statics,
               Spark!player
<1>17. CASE Spark!Command
  <2>1. SparkTypes'
    BY <1>17 DEF SparkTypes, Spark!Command, Spark!PlayStep, Spark!statics,
                 Spark!FastForward, Spark!FastBackward, Spark!PlayerPause,
                 Spark!PlayerContinue, Spark!PlayerFlags
  <2>2. UNCHANGED <<decoders_closed, init_jump, pdplaying, pdeof>>
    BY <1>17 DEF SparkFlags, Spark!Command, Spark!PlayStep, Spark!statics,
                 Spark!FastForward, Spark!FastBackward, Spark!PlayerPause,
                 Spark!PlayerContinue, Spark!PlayerFlags
  <2>3. isPlaying' \in BOOLEAN /\ isPaused' \in BOOLEAN
    BY <1>17 DEF SparkFlags, Spark!Command, Spark!PlayStep, Spark!statics,
                 Spark!FastForward, Spark!FastBackward, Spark!PlayerPause,
                 Spark!PlayerContinue, Spark!PlayerFlags
  <2>4. isForwarding' \in BOOLEAN /\ isBackWard' \in BOOLEAN
    BY <1>17 DEF SparkFlags, Spark!Command, Spark!PlayStep, Spark!statics,
                 Spark!FastForward, Spark!FastBackward, Spark!PlayerPause,
                 Spark!PlayerContinue, Spark!PlayerFlags
  <2> QED
    BY <2>1, <2>2, <2>3, <2>4 DEF SparkFlags
<1>18. CASE Spark!Jump
  BY <1>18 DEF SparkTypes, SparkFlags, Spark!Jump, Spark!statics, Spark!private,
               Spark!player
<1>19. CASE Spark!JumpDone
  BY <1>19 DEF SparkTypes, SparkFlags, Spark!JumpDone, Spark!private,
               Spark!player
<1>20. CASE Spark!SetPosition
  <2>1. SparkTypes'
    BY <1>20 DEF SparkTypes, Spark!SetPosition, Spark!private, Spark!player
  <2>2. UNCHANGED <<decoders_closed, pdplaying, pdeof, isPlaying, isPaused, isForwarding,
                    isBackWard>>
    BY <1>20 DEF SparkFlags, Spark!SetPosition, Spark!private, Spark!player
  <2>3. init_jump' \in BOOLEAN
    BY <1>20 DEF SparkFlags, Spark!SetPosition, Spark!private, Spark!player
  <2> QED
    BY <2>1, <2>2, <2>3 DEF SparkFlags
<1>21. CASE Spark!EofOff
  BY <1>21 DEF SparkTypes, SparkFlags, Spark!EofOff, Spark!statics, Spark!player
<1>22. CASE Spark!RestartSpeed
  BY <1>22 DEF SparkTypes, SparkFlags, Spark!RestartSpeed, Spark!statics,
               Spark!private, Spark!player
<1>23. CASE Spark!PlayerStop
  BY <1>23 DEF SparkTypes, SparkFlags, Spark!PlayerStop, Spark!PlayStep,
               Spark!statics, Spark!PlayerFlags
<1>24. CASE Spark!CloseOutput
  BY <1>24 DEF SparkTypes, SparkFlags, Spark!CloseOutput, Spark!PlayStep,
               Spark!statics
<1>25. CASE Spark!PlayerClose
  BY <1>25 DEF SparkTypes, SparkFlags, Spark!PlayerClose, Spark!PlayStep,
               Spark!statics, Spark!PlayerFlags
<1>26. CASE Spark!Reacquire
  BY <1>26 DEF SparkTypes, SparkFlags, Spark!Reacquire, Spark!statics,
               Spark!private, Spark!player
<1>27. CASE Spark!EndOfFile
  BY <1>27 DEF SparkTypes, SparkFlags, Spark!EndOfFile, Spark!statics,
               Spark!private, Spark!PlayerFlags
<1>28. ASSUME NEW t \in Spark!Callers, Spark!VideoStep(t) PROVE SparkTypes' /\ SparkFlags'
  <2>1. UNCHANGED <<Spark!statics, Spark!private, phase, arg, Spark!player, aheld>>
    BY <1>28 DEF Spark!VideoStep, Spark!VdecOpen, Spark!VdecOpening,
                 Spark!VdecClose, Spark!VdecStart, Spark!ShowPicture,
                 Spark!ShowStill, Spark!SetStandby, Spark!VideoFrame
  <2> QED
    BY <2>1 DEF SparkTypes, SparkFlags, Spark!statics, Spark!private,
                Spark!player
<1>29. CASE UNCHANGED Spark!vars
  BY <1>29 DEF SparkTypes, SparkFlags, Spark!vars, Spark!statics, Spark!private,
               Spark!player
<1> QED
  BY <1>1, <1>2, <1>3, <1>4, <1>5, <1>6, <1>7, <1>8, <1>9, <1>10, <1>11, <1>12, <1>13, <1>14, <1>15, <1>16, <1>17, <1>18, <1>19, <1>20, <1>21, <1>22, <1>23, <1>24, <1>25, <1>26, <1>27, <1>28, <1>29
     DEF Spark!Next, Spark!PlaybackStep

(* The steps that leave the devices where they are, or have Output take    *)
(* them.                                                                   *)
LEMMA PlainSteps ==
  ASSUME SparkInv,
         \/ Spark!Opened \/ Spark!Start \/ Spark!StartPlay \/ Spark!StartPause
         \/ Spark!SetSpeed \/ Spark!SpeedPlay \/ Spark!Dispatch \/ Spark!Command
         \/ Spark!Jump \/ Spark!JumpDone \/ Spark!SetPosition \/ Spark!EofOff
         \/ Spark!RestartSpeed
  PROVE  SparkHeld'
<1> DEFINE Calm == UNCHANGED <<decoders_closed, vdec, vheld, aheld>>
           Fits(w, s) == /\ w \in MovieWords \ Led /\ Spark!At("movie", w) /\ Spark!Then("movie", s)
                         /\ s = <<>> \/ (Whole(s) /\ s[1] \notin Within)
<1> USE DEF Spark!Movie, Spark!Go, Spark!device
<1>0. ASSUME NEW w, NEW s, Fits(w, s), Calm,
             phase' # "closed" \/ (phase' = phase /\ w \notin Closing)
      PROVE  SparkHeld'
  BY <1>0, PlainStep
<1>20. {"open TS", "open FILE", "start", "restart", "start play", "start pause", "set speed",
       "speed play", "dispatch", "forward", "backward", "reverse end", "pause", "continue",
       "jump", "jump done", "position", "jump position", "eof off", "restart speed"}
        \subseteq MovieWords \ Led
  BY DEF MovieWords, Closing, Led, Begun
<1>21. /\ \A w \in {"start", "restart", "start play", "start pause", "set speed",
           "speed play", "dispatch", "forward", "backward", "reverse end", "pause", "continue",
           "jump", "jump done", "position", "jump position", "eof off", "restart speed"} :
           w \notin Closing
      /\ "output open" \notin Within /\ "start pause" \notin Within /\ "dispatch" \notin Within
      /\ "release" \notin Within /\ "jump" \notin Within /\ "reverse end" \notin Within
      /\ "continue" \notin Within /\ "forward" \notin Within /\ "backward" \notin Within
      /\ "pause" \notin Within /\ "jump position" \notin Within /\ "player stop" \notin Within
      /\ "set speed" \notin Within
  BY DEF Closing, Within
<1> HIDE DEF Calm, Fits
<1>1. CASE Spark!Opened
  <2>1. /\ Spark!At("movie", "open TS") \/ Spark!At("movie", "open FILE")
        /\ Spark!Then("movie", <<>>) /\ phase' # "closed" /\ Calm
    BY <1>1 DEF Spark!Opened, Calm
  <2>2. Fits("open TS", <<>>) \/ Fits("open FILE", <<>>)
    BY <1>20, <2>1 DEF Fits
  <2> QED
    BY <1>0, <2>1, <2>2
<1>2. CASE Spark!Start
  <2>1. /\ Spark!At("movie", "start") \/ Spark!At("movie", "restart")
        /\ Spark!Then("movie", <<>>) \/ Spark!Then("movie", <<"output open", "start play">>)
        /\ phase' # "closed" /\ Calm
    BY <1>2 DEF Spark!Start, Calm
  <2>2. Whole(<<"output open", "start play">>) /\ <<"output open", "start play">>[1] \notin Within
    BY <1>21, WholeScripts
  <2>3. \E w, s : Fits(w, s)
    BY <1>20, <2>1, <2>2 DEF Fits
  <2> QED
    BY <1>0, <2>1, <2>3
<1>3. CASE Spark!StartPlay
  <2>1. /\ Spark!At("movie", "start play")
        /\ Spark!Then("movie", <<>>) \/ Spark!Then("movie", <<"start pause">>)
        /\ phase' = phase /\ Calm
    BY <1>3 DEF Spark!StartPlay, Spark!PlayStep, Spark!statics, Spark!DevicesStay, Calm
  <2>2. Whole(<<"start pause">>) /\ <<"start pause">>[1] \notin Within
    BY <1>21, WholeScripts
  <2>3. Fits("start play", <<>>) \/ Fits("start play", <<"start pause">>)
    BY <1>20, <2>1, <2>2 DEF Fits
  <2> QED
    BY <1>0, <1>21, <2>1, <2>3
<1>4. CASE Spark!StartPause
  <2>1. Spark!At("movie", "start pause") /\ Spark!Then("movie", <<>>) /\ phase' = phase /\ Calm
    BY <1>4 DEF Spark!StartPause, Spark!PlayStep, Spark!statics, Spark!DevicesStay, Calm
  <2>2. Fits("start pause", <<>>)
    BY <1>20, <2>1 DEF Fits
  <2> QED
    BY <1>0, <1>21, <2>1, <2>2
<1>5. CASE Spark!SetSpeed
  <2>1. /\ Spark!At("movie", "set speed") /\ phase' = phase /\ Calm
        /\ \/ Spark!Then("movie", <<"dispatch">>)
           \/ Spark!Then("movie", <<"release", "vdec close", "output open", "speed play", "dispatch">>)
    BY <1>5, ScriptsAre DEF Spark!SetSpeed, Spark!PlayStep, Spark!statics, Spark!DevicesStay, Calm
  <2>2. Whole(<<"dispatch">>) /\ <<"dispatch">>[1] \notin Within
    BY <1>21, WholeScripts
  <2>3. /\ Whole(<<"release", "vdec close", "output open", "speed play", "dispatch">>)
        /\ <<"release", "vdec close", "output open", "speed play", "dispatch">>[1] \notin Within
    BY <1>21, WholeScripts
  <2>4. \E s : Fits("set speed", s)
    BY <1>20, <2>1, <2>2, <2>3 DEF Fits
  <2> QED
    BY <1>0, <1>21, <2>1, <2>4
<1>6. CASE Spark!SpeedPlay
  <2>1. Spark!At("movie", "speed play") /\ Spark!Then("movie", <<>>) /\ phase' = phase /\ Calm
    BY <1>6 DEF Spark!SpeedPlay, Spark!PlayStep, Spark!statics, Spark!DevicesStay, Calm
  <2>2. Fits("speed play", <<>>)
    BY <1>20, <2>1 DEF Fits
  <2> QED
    BY <1>0, <1>21, <2>1, <2>2
<1>7. CASE Spark!Dispatch
  <2>1. /\ Spark!At("movie", "dispatch") /\ phase' = phase /\ Calm
        /\ \/ Spark!Then("movie", <<>>)
           \/ Spark!Then("movie", Spark!SpeedSteps \o <<"jump">>)
    BY <1>7 DEF Spark!Dispatch, Spark!statics, Calm
  <2> DEFINE s == Spark!SpeedSteps \o <<"jump">>
  <2> HIDE DEF s
  <2>2. arg \in Int
    BY SpeedsAssumption DEF SparkInv, SparkTypes
  <2>3. s \in {<<"jump">>} \cup {<<x, "jump">> : x \in {"forward", "backward", "pause", "continue"}}
          \cup {<<"reverse end", "forward", "jump">>, <<"continue", "backward", "jump">>}
    BY <2>2, ScriptsAre DEF s
  <2>4. \/ s = <<"jump">> \/ s = <<"reverse end", "forward", "jump">>
        \/ s = <<"continue", "backward", "jump">>
        \/ \E x \in {"forward", "backward", "pause", "continue"} : s = <<x, "jump">>
    BY <2>3
  <2>5. ASSUME s = <<"jump">> PROVE Whole(s) /\ s[1] \notin Within
    <3>1. Whole(<<"jump">>) /\ <<"jump">>[1] \notin Within
      BY <1>21, WholeScripts
    <3> QED
      BY <2>5, <3>1
  <2>6. ASSUME s = <<"reverse end", "forward", "jump">>
        PROVE  Whole(s) /\ s[1] \notin Within
    <3>1. /\ Whole(<<"reverse end", "forward", "jump">>)
          /\ <<"reverse end", "forward", "jump">>[1] \notin Within
      BY <1>21, WholeScripts
    <3> QED
      BY <2>6, <3>1
  <2>7. ASSUME s = <<"continue", "backward", "jump">>
        PROVE  Whole(s) /\ s[1] \notin Within
    <3>1. /\ Whole(<<"continue", "backward", "jump">>)
          /\ <<"continue", "backward", "jump">>[1] \notin Within
      BY <1>21, WholeScripts
    <3> QED
      BY <2>7, <3>1
  <2>8. ASSUME NEW x \in {"forward", "backward", "pause", "continue"}, s = <<x, "jump">>
        PROVE  Whole(s) /\ s[1] \notin Within
    <3>1. Whole(<<x, "jump">>) /\ <<x, "jump">>[1] = x
      BY WholeScripts
    <3>2. x \notin Within
      BY <1>21
    <3> QED
      BY <2>8, <3>1, <3>2
  <2>9. Whole(s) /\ s[1] \notin Within
    BY <2>4, <2>5, <2>6, <2>7, <2>8
  <2>10. Fits("dispatch", <<>>) \/ Fits("dispatch", s)
    BY <1>20, <2>1, <2>9 DEF Fits, s
  <2> QED
    BY <1>0, <1>21, <2>1, <2>10
<1>8. CASE Spark!Command
  <2>1. PICK w \in {"forward", "backward", "reverse end", "pause", "continue"} :
          Spark!At("movie", w) /\ Spark!Then("movie", <<>>) /\ phase' = phase /\ Calm
    BY <1>8 DEF Spark!Command, Spark!PlayStep, Spark!statics, Spark!DevicesStay, Calm
  <2>2. Fits(w, <<>>) /\ w \notin Closing
    BY <1>20, <1>21, <2>1 DEF Fits
  <2> QED
    BY <1>0, <2>1, <2>2
<1>9. CASE Spark!Jump
  <2>1. /\ Spark!At("movie", "jump") /\ phase' = phase /\ Calm
        /\ Spark!Then("movie", <<>>) \/ Spark!Then("movie", <<"jump position", "jump done">>)
    BY <1>9 DEF Spark!Jump, Spark!JumpSteps, Spark!statics, Calm
  <2>2. Whole(<<"jump position", "jump done">>) /\ <<"jump position", "jump done">>[1] \notin Within
    BY <1>21, WholeScripts
  <2>3. Fits("jump", <<>>) \/ Fits("jump", <<"jump position", "jump done">>)
    BY <1>20, <2>1, <2>2 DEF Fits
  <2> QED
    BY <1>0, <1>21, <2>1, <2>3
<1>10. CASE Spark!JumpDone
  <2>1. Spark!At("movie", "jump done") /\ Spark!Then("movie", <<>>) /\ phase' = phase /\ Calm
    BY <1>10 DEF Spark!JumpDone, Calm
  <2>2. Fits("jump done", <<>>)
    BY <1>20, <2>1 DEF Fits
  <2> QED
    BY <1>0, <1>21, <2>1, <2>2
<1>11. CASE Spark!SetPosition
  <2>1. PICK w \in {"position", "jump position"} :
          /\ Spark!At("movie", w) /\ phase' = phase /\ Calm
          /\ \/ Spark!Then("movie", <<>>)
             \/ Spark!Then("movie", <<"player stop", "output close", "player close", "reacquire",
                                      "eof off", "restart", "restart speed">>)
    BY <1>11, ScriptsAre DEF Spark!SetPosition, Calm
  <2>2. /\ Whole(<<"player stop", "output close", "player close", "reacquire",
                   "eof off", "restart", "restart speed">>)
        /\ <<"player stop", "output close", "player close", "reacquire",
             "eof off", "restart", "restart speed">>[1] \notin Within
    BY <1>21, WholeScripts
  <2>3. (\E s : Fits(w, s)) /\ w \notin Closing
    BY <1>20, <1>21, <2>1, <2>2 DEF Fits
  <2> QED
    BY <1>0, <2>1, <2>3
<1>12. CASE Spark!EofOff
  <2>1. Spark!At("movie", "eof off") /\ Spark!Then("movie", <<>>) /\ phase' = phase /\ Calm
    BY <1>12 DEF Spark!EofOff, Spark!statics, Calm
  <2>2. Fits("eof off", <<>>)
    BY <1>20, <2>1 DEF Fits
  <2> QED
    BY <1>0, <1>21, <2>1, <2>2
<1>13. CASE Spark!RestartSpeed
  <2>1. /\ Spark!At("movie", "restart speed") /\ Spark!Then("movie", <<"set speed">>)
        /\ phase' = phase /\ Calm
    BY <1>13 DEF Spark!RestartSpeed, Spark!statics, Calm
  <2>2. Whole(<<"set speed">>) /\ <<"set speed">>[1] \notin Within
    BY <1>21, WholeScripts
  <2>3. Fits("restart speed", <<"set speed">>)
    BY <1>20, <2>1, <2>2 DEF Fits
  <2> QED
    BY <1>0, <1>21, <2>1, <2>3
<1> QED
  BY <1>1, <1>2, <1>3, <1>4, <1>5, <1>6, <1>7, <1>8, <1>9, <1>10, <1>11, <1>12, <1>13

(* The calls, and what the play thread does. *)
LEMMA CallSteps ==
  ASSUME SparkInv,
         \/ Spark!CallOpen \/ Spark!CallStart \/ Spark!CallSetSpeed \/ Spark!CallSetPosition
         \/ Spark!CallClose \/ Spark!GetPosition \/ Spark!EndOfFile
  PROVE  SparkHeld'
<1> DEFINE Calm == UNCHANGED <<decoders_closed, vdec, vheld, aheld>>
<1> USE DEF Spark!MovieCall, Spark!CallFrame, Spark!statics, Spark!device
<1> DEFINE opening == <<"release", "vdec close", "open FILE">>
           closing == <<"player stop", "output close", "player close", "reacquire">>
<1>0. ASSUME NEW s, Whole(s), s[1] \notin Within, Spark!Call("movie", s), Calm,
             phase' = "closed" => /\ ClosedScript(s)
                                  /\ phase = "closed" \/ s[1] \notin {"idle", "open TS"}
      PROVE  SparkHeld'
  <2>1. /\ SparkScripts' /\ GuiAt' = GuiAt /\ MovieAt = "idle" /\ MovieAt' = s[1]
        /\ todo["movie"]' = s
    BY <1>0, MovieCalled DEF SparkInv
  <2>2. "idle" \notin Led /\ Calm
    BY <1>0 DEF Led, Begun
  <2>3. SparkSound' /\ SparkPicture'
    BY <1>0, <2>1, <2>2, PlainHeads
  <2>4. SparkClosed'
    BY <1>0, <2>1 DEF SparkInv, SparkClosed
  <2> QED
    BY <2>1, <2>3, <2>4 DEF SparkHeld
<1>1. /\ "open TS" \notin Within /\ "release" \notin Within /\ "start" \notin Within
      /\ "set speed" \notin Within /\ "position" \notin Within /\ "player stop" \notin Within
  BY DEF Within
<1>2. ClosedScript(<<"open TS">>)
  <2> DEFINE s == <<"open TS">>
  <2>1. Len(s) = 1 /\ s[1] = "open TS"
    OBVIOUS
  <2>3. Len(s) = 1
    OBVIOUS
  <2> HIDE DEF s
  <2>2. \A i \in 1 .. Len(s) : i = 1
    BY ONLY <2>3
  <2>4. ClosedScript(s)
    BY <2>1, <2>2 DEF ClosedScript, Closing, Ends
  <2> QED
    BY <2>4 DEF s
<1>3. ClosedScript(opening)
  <2>1. Len(opening) = 3 /\ opening[1] = "release" /\ opening[2] = "vdec close"
        /\ opening[3] = "open FILE"
    OBVIOUS
  <2>3. Len(opening) = 3
    OBVIOUS
  <2> HIDE DEF opening
  <2>2. \A i \in 1 .. Len(opening) : i = 1 \/ i = 2 \/ i = 3
    BY ONLY <2>3
  <2> QED
    BY <2>1, <2>2 DEF ClosedScript, Closing, Ends
<1>4. ClosedScript(closing)
  <2>1. Len(closing) = 4 /\ closing[1] = "player stop" /\ closing[2] = "output close"
        /\ closing[3] = "player close" /\ closing[4] = "reacquire"
    OBVIOUS
  <2>3. Len(closing) = 4
    OBVIOUS
  <2> HIDE DEF closing
  <2>2. \A i \in 1 .. Len(closing) : i = 1 \/ i = 2 \/ i = 3 \/ i = 4
    BY ONLY <2>3
  <2> QED
    BY <2>1, <2>2 DEF ClosedScript, Closing, Ends
<1> HIDE DEF Calm
<1>5. CASE Spark!CallOpen
  <2>1. /\ Spark!Call("movie", <<"open TS">>) \/ Spark!Call("movie", opening)
        /\ phase = "closed" /\ Calm
    BY <1>5, ScriptsAre DEF Spark!CallOpen, Calm
  <2>2. CASE Spark!Call("movie", <<"open TS">>)
    <3>1. Whole(<<"open TS">>) /\ <<"open TS">>[1] \notin Within
      BY <1>1, WholeScripts
    <3> QED
      BY <1>0, <1>2, <2>1, <2>2, <3>1
  <2>3. CASE Spark!Call("movie", opening)
    <3>1. Whole(opening) /\ opening[1] \notin Within
      BY <1>1, WholeScripts
    <3> HIDE DEF opening
    <3> QED
      BY <1>0, <1>3, <2>1, <2>3, <3>1
  <2> QED
    BY <2>1, <2>2, <2>3
<1>6. CASE Spark!CallStart
  <2>1. Spark!Call("movie", <<"start">>) /\ phase' # "closed" /\ Calm
    BY <1>6 DEF Spark!CallStart, Calm
  <2>2. Whole(<<"start">>) /\ <<"start">>[1] \notin Within
    BY <1>1, WholeScripts
  <2> QED
    BY <1>0, <2>1, <2>2
<1>7. CASE Spark!CallSetSpeed
  <2>1. Spark!Call("movie", <<"set speed">>) /\ phase' # "closed" /\ Calm
    BY <1>7 DEF Spark!CallSetSpeed, Calm
  <2>2. Whole(<<"set speed">>) /\ <<"set speed">>[1] \notin Within
    BY <1>1, WholeScripts
  <2> QED
    BY <1>0, <2>1, <2>2
<1>8. CASE Spark!CallSetPosition
  <2>1. Spark!Call("movie", <<"position">>) /\ phase' # "closed" /\ Calm
    BY <1>8 DEF Spark!CallSetPosition, Calm
  <2>2. Whole(<<"position">>) /\ <<"position">>[1] \notin Within
    BY <1>1, WholeScripts
  <2> QED
    BY <1>0, <2>1, <2>2
<1>9. CASE Spark!CallClose
  <2>1. Spark!Call("movie", closing) /\ Calm
    BY <1>9, ScriptsAre DEF Spark!CallClose, Calm
  <2>2. Whole(closing) /\ closing[1] \notin Within /\ closing[1] \notin {"idle", "open TS"}
    BY <1>1, WholeScripts
  <2> HIDE DEF closing
  <2> QED
    BY <1>0, <1>4, <2>1, <2>2
<1>10. ASSUME Spark!GetPosition \/ Spark!EndOfFile PROVE SparkHeld'
  <2>1. UNCHANGED <<todo, phase, decoders_closed, vdec, vheld, aheld>>
    BY <1>10 DEF Spark!GetPosition, Spark!EndOfFile
  <2> QED
    BY <2>1 DEF SparkInv, SparkHeld, SparkScripts, SparkClosed, SparkSound, SparkPicture,
         Reopening, Available, MovieAt, GuiAt
<1> QED
  BY <1>5, <1>6, <1>7, <1>8, <1>9, <1>10

(* The steps of the player that give or take the devices. *)
LEMMA DeviceSteps ==
  ASSUME SparkInv,
         \/ Spark!Release \/ Spark!OpenOutput \/ Spark!PlayerStop \/ Spark!CloseOutput
         \/ Spark!PlayerClose \/ Spark!Reacquire
  PROVE  SparkHeld'
<1> USE DEF Spark!Movie, Spark!Go, Spark!device
<1>1. SparkScripts /\ SparkClosed /\ SparkSound /\ SparkPicture /\ decoders_closed \in BOOLEAN
  BY DEF SparkInv, SparkFlags
<1>2. ASSUME NEW w, Spark!At("movie", w), Spark!Then("movie", <<>>),
             w \notin Ends \/ w = "reacquire" \/ w = "reacquired"
      PROVE  /\ SparkScripts' /\ GuiAt' = GuiAt /\ MovieAt = w
             /\ w \in Begun => MovieAt' = Behind(w)
             /\ w \notin Begun => MovieAt' \notin Led
             /\ phase' = phase /\ (w \notin Ends \/ ~decoders_closed') => SparkClosed'
  <2>1. /\ SparkScripts' /\ GuiAt' = GuiAt /\ MovieAt = w
        /\ w \in Begun => MovieAt' = Behind(w)
        /\ w \notin Begun => MovieAt' \notin Led
        /\ ClosedScript(todo["movie"]) =>
             /\ ClosedScript(todo["movie"])' /\ w \in Closing /\ MovieAt' # "open TS"
             /\ w \notin Ends => MovieAt' # "idle"
    BY <1>1, <1>2, MovieGoes
  <2>2. phase' = phase /\ (w \notin Ends \/ ~decoders_closed') => SparkClosed'
    BY <1>1, <2>1 DEF SparkClosed
  <2> QED
    BY <2>1, <2>2
<1>3. /\ "release" \in Begun \ Ends /\ Behind("release") = "vdec close"
      /\ "player stop" \in Begun \ Ends /\ Behind("player stop") = "output close"
      /\ "output close" \in Begun \ Ends /\ Behind("output close") = "player close"
      /\ "player close" \in Begun \ Ends /\ Behind("player close") = "reacquire"
      /\ "output open" \notin Ends \cup Begun /\ "reacquire" \notin Begun /\ "reacquired" \notin Begun
  BY DEF Begun, Ends, Behind
<1>4. CASE Spark!Release
  <2>1. /\ Spark!At("movie", "release") /\ Spark!Then("movie", <<>>)
        /\ phase' = phase /\ vdec' = vdec /\ vheld' = vheld /\ decoders_closed' = TRUE
        /\ aheld' = IF aheld = "adec" THEN "none" ELSE aheld
    BY <1>4 DEF Spark!Release
  <2>2. /\ SparkScripts' /\ SparkClosed' /\ GuiAt' = GuiAt
        /\ MovieAt = "release" /\ MovieAt' = "vdec close"
    BY <1>2, <1>3, <2>1
  <2>3. SparkSound'
    BY <1>1, <2>1, <2>2 DEF SparkSound, Reopening
  <2>4. SparkPicture'
    BY <1>1, <2>1, <2>2 DEF SparkPicture, Available
  <2> QED
    BY <2>2, <2>3, <2>4 DEF SparkHeld
<1>5. CASE Spark!OpenOutput
  <2>1. /\ Spark!At("movie", "output open") /\ Spark!Then("movie", <<>>)
        /\ phase' = phase /\ vdec' = vdec /\ decoders_closed' = decoders_closed
        /\ IF vheld = "none" /\ aheld = "none" THEN vheld' = "output" /\ aheld' = "output"
           ELSE vheld' = vheld /\ aheld' = aheld
    BY <1>5 DEF Spark!OpenOutput, Spark!OutputOpen, Spark!PlayStep, Spark!statics
  <2>2. /\ SparkScripts' /\ SparkClosed' /\ GuiAt' = GuiAt
        /\ MovieAt = "output open" /\ MovieAt' \notin Led
    BY <1>2, <1>3, <2>1
  <2>3. SparkSound'
    BY <1>1, <2>1, <2>2 DEF SparkSound, Reopening, Led, Begun
  <2>4. SparkPicture'
    BY <1>1, <2>1, <2>2 DEF SparkPicture, Available, Led, Begun
  <2> QED
    BY <2>2, <2>3, <2>4 DEF SparkHeld
<1>6. CASE Spark!PlayerStop
  <2>1. /\ Spark!At("movie", "player stop") /\ Spark!Then("movie", <<>>)
        /\ UNCHANGED <<phase, vdec, vheld, aheld, decoders_closed>>
    BY <1>6 DEF Spark!PlayerStop, Spark!PlayStep, Spark!statics, Spark!DevicesStay
  <2>2. /\ SparkScripts' /\ SparkClosed' /\ GuiAt' = GuiAt
        /\ MovieAt = "player stop" /\ MovieAt' = "output close"
    BY <1>2, <1>3, <2>1
  <2>3. SparkSound'
    BY <1>1, <2>1, <2>2 DEF SparkSound, Reopening
  <2>4. SparkPicture'
    BY <1>1, <2>1, <2>2 DEF SparkPicture, Available
  <2> QED
    BY <2>2, <2>3, <2>4 DEF SparkHeld
<1>7. CASE Spark!CloseOutput
  <2>1. /\ Spark!At("movie", "output close") /\ Spark!Then("movie", <<>>)
        /\ UNCHANGED <<phase, vdec, decoders_closed>>
        /\ vheld' = IF vheld = "output" THEN "none" ELSE vheld
        /\ aheld' = IF aheld = "output" THEN "none" ELSE aheld
    BY <1>7 DEF Spark!CloseOutput, Spark!OutputClose, Spark!PlayStep, Spark!statics
  <2>2. /\ SparkScripts' /\ SparkClosed' /\ GuiAt' = GuiAt
        /\ MovieAt = "output close" /\ MovieAt' = "player close"
    BY <1>2, <1>3, <2>1
  <2>3. SparkSound'
    BY <1>1, <2>1, <2>2 DEF SparkSound, Reopening
  <2>4. SparkPicture'
    BY <1>1, <2>1, <2>2 DEF SparkPicture, Available
  <2> QED
    BY <2>2, <2>3, <2>4 DEF SparkHeld
<1>8. CASE Spark!PlayerClose
  <2>1. /\ Spark!At("movie", "player close") /\ Spark!Then("movie", <<>>)
        /\ UNCHANGED <<phase, vdec, vheld, aheld, decoders_closed>>
    BY <1>8 DEF Spark!PlayerClose, Spark!PlayStep, Spark!statics, Spark!DevicesStay
  <2>2. /\ SparkScripts' /\ SparkClosed' /\ GuiAt' = GuiAt
        /\ MovieAt = "player close" /\ MovieAt' = "reacquire"
    BY <1>2, <1>3, <2>1
  <2>3. SparkSound'
    BY <1>1, <2>1, <2>2 DEF SparkSound, Reopening
  <2>4. SparkPicture'
    BY <1>1, <2>1, <2>2 DEF SparkPicture, Available
  <2> QED
    BY <2>2, <2>3, <2>4 DEF SparkHeld
<1>9. CASE Spark!Reacquire
  <2>1. \/ /\ Spark!At("movie", "reacquire")
           /\ aheld' = IF decoders_closed /\ aheld = "none" THEN "adec" ELSE aheld
           /\ decoders_closed => Spark!Then("movie", <<"vdec open", "reacquired">>)
           /\ ~decoders_closed => Spark!Then("movie", <<>>)
           /\ UNCHANGED <<phase, vdec, vheld, decoders_closed>>
        \/ /\ Spark!At("movie", "reacquired") /\ Spark!Then("movie", <<>>)
           /\ decoders_closed' = FALSE
           /\ UNCHANGED <<phase, vdec, vheld, aheld>>
    BY <1>9 DEF Spark!Reacquire, Spark!ReacquireSteps, Spark!statics
  <2>2. ASSUME Spark!At("movie", "reacquire"), ~decoders_closed, Spark!Then("movie", <<>>),
               aheld' = aheld, UNCHANGED <<phase, vdec, vheld, decoders_closed>>
        PROVE  SparkHeld'
    <3>1. /\ SparkScripts' /\ SparkClosed' /\ GuiAt' = GuiAt
          /\ MovieAt = "reacquire" /\ MovieAt' \notin Led
      BY <1>2, <1>3, <2>2
    <3>2. SparkSound'
      BY <1>1, <2>2, <3>1 DEF SparkSound, Reopening, Led, Begun
    <3>3. SparkPicture'
      BY <1>1, <2>2, <3>1 DEF SparkPicture, Available, Led, Begun
    <3> QED
      BY <3>1, <3>2, <3>3 DEF SparkHeld
  <2>3. ASSUME Spark!At("movie", "reacquired"), Spark!Then("movie", <<>>),
               decoders_closed' = FALSE, UNCHANGED <<phase, vdec, vheld, aheld>>
        PROVE  SparkHeld'
    <3>1. /\ SparkScripts' /\ SparkClosed' /\ GuiAt' = GuiAt
          /\ MovieAt = "reacquired" /\ MovieAt' \notin Led
      BY <1>2, <1>3, <2>3
    <3>2. SparkSound'
      BY <1>1, <2>3, <3>1 DEF SparkSound, Reopening, Led, Begun
    <3>3. SparkPicture'
      BY <1>1, <2>3, <3>1 DEF SparkPicture, Available, Led, Begun
    <3> QED
      BY <3>1, <3>2, <3>3 DEF SparkHeld
  <2>4. ASSUME Spark!At("movie", "reacquire"), decoders_closed,
               Spark!Then("movie", <<"vdec open", "reacquired">>),
               aheld' = IF aheld = "none" THEN "adec" ELSE aheld,
               UNCHANGED <<phase, vdec, vheld, decoders_closed>>
        PROVE  SparkHeld'
    <3> DEFINE s == <<"vdec open", "reacquired">>
    <3>1. Whole(s) /\ Len(s) = 2 /\ s[1] = "vdec open" /\ s[2] = "reacquired"
      BY WholeScripts
    <3> HIDE DEF s
    <3>2. Spark!Then("movie", s)
      BY <2>4 DEF s
    <3>3. \A i \in 1 .. Len(s) : s[i] \in Closing /\ s[i] # "open TS"
      <4>2. Len(s) = 2
        BY <3>1
      <4>1. \A i \in 1 .. Len(s) : i = 1 \/ i = 2
        BY ONLY <4>2
      <4> QED
        BY <3>1, <4>1 DEF Closing
    <3>4. /\ SparkScripts' /\ GuiAt' = GuiAt /\ MovieAt = "reacquire" /\ MovieAt' = s[1]
          /\ ClosedScript(todo["movie"]) => ClosedScript(todo["movie"])'
      <4>1. /\ s \in Seq(MovieWords) /\ s # <<>> /\ s[Len(s)] \notin Begun
            /\ \A i \in 1 .. Len(s) - 1 : Link("movie", s[i], s[i + 1])
            /\ s[Len(s)] \in Ends
        BY <3>1 DEF Whole, Ends
      <4> QED
        BY <1>1, <1>3, <2>4, <3>2, <3>3, <4>1, MovieTurns
    <3>5. SparkClosed'
      BY <1>1, <2>4, <3>1, <3>4 DEF SparkClosed
    <3>6. SparkSound'
      BY <1>1, <2>4, <3>1, <3>4 DEF SparkSound, Reopening
    <3>7. SparkPicture'
      BY <1>1, <2>4, <3>1, <3>4 DEF SparkPicture, Available
    <3> QED
      BY <3>4, <3>5, <3>6, <3>7 DEF SparkHeld
  <2> QED
    BY <1>1, <2>1, <2>2, <2>3, <2>4
<1> QED
  BY <1>4, <1>5, <1>6, <1>7, <1>8, <1>9

(* What the two threads do with the video decoder. *)
LEMMA MovieVideo ==
  ASSUME SparkInv, Spark!VideoStep("movie")
  PROVE  SparkHeld'
<1>1. SparkScripts /\ SparkClosed /\ SparkSound /\ SparkPicture /\ decoders_closed \in BOOLEAN
  BY DEF SparkInv, SparkFlags
<1>2. ASSUME NEW w, Spark!At("movie", w), Spark!Then("movie", <<>>)
      PROVE  /\ SparkScripts' /\ GuiAt' = GuiAt /\ MovieAt = w /\ w \in MovieWords
             /\ w \in Begun => MovieAt' = Behind(w)
             /\ w \notin Begun => MovieAt' \notin Led
             /\ UNCHANGED <<phase, decoders_closed>> /\ w \notin Ends => SparkClosed'
  <2>1. /\ SparkScripts' /\ GuiAt' = GuiAt /\ MovieAt = w /\ w \in MovieWords
        /\ w \in Begun => MovieAt' = Behind(w)
        /\ w \notin Begun => MovieAt' \notin Led
        /\ ClosedScript(todo["movie"]) =>
             /\ ClosedScript(todo["movie"])' /\ w \in Closing /\ MovieAt' # "open TS"
             /\ w \notin Ends => MovieAt' # "idle"
    BY <1>1, <1>2, MovieGoes
  <2>2. UNCHANGED <<phase, decoders_closed>> /\ w \notin Ends => SparkClosed'
    BY <1>1, <2>1 DEF SparkClosed
  <2> QED
    BY <2>1, <2>2
<1>3. /\ "vdec open" \in Begun \ Ends /\ Behind("vdec open") = "reacquired"
      /\ "vdec opening" \in Begun \ Ends /\ Behind("vdec opening") = "reacquired"
      /\ "vdec close" \notin Begun \cup Ends
      /\ {"vdec start", "show picture", "still", "standby on", "standby off"} \cap MovieWords = {}
  BY DEF Begun, Ends, Behind, MovieWords, Closing
<1>4. UNCHANGED <<phase, decoders_closed, aheld>>
  BY DEF Spark!VideoStep, Spark!VdecOpen, Spark!VdecOpening, Spark!VdecClose, Spark!VdecStart,
     Spark!ShowPicture, Spark!ShowStill, Spark!SetStandby, Spark!VideoFrame, Spark!statics
<1>5. ASSUME NEW w \in {"vdec start", "show picture", "still", "standby on", "standby off"},
             Spark!At("movie", w)
      PROVE  FALSE
  <2>1. todo["movie"] # <<>> /\ Head(todo["movie"]) = w /\ todo["movie"] \in Seq(MovieWords)
    BY <1>1, <1>5 DEF Spark!At, SparkScripts, Linked, StepWords, Spark!Callers
  <2>2. w \in MovieWords
    BY <2>1, HeadTailProperties
  <2> QED
    BY <1>3, <1>5, <2>2
<1>6. CASE Spark!VdecOpen("movie")
  <2>1. /\ Spark!At("movie", "vdec open") /\ vdec' = vdec /\ vheld' = vheld
        /\ \/ vdec.fd /\ Spark!Then("movie", <<>>)
           \/ ~vdec.fd /\ Spark!Then("movie", <<"vdec opening">>)
    BY <1>6 DEF Spark!VdecOpen
  <2>2. CASE vdec.fd /\ Spark!Then("movie", <<>>)
    <3>1. /\ SparkScripts' /\ SparkClosed' /\ GuiAt' = GuiAt
          /\ MovieAt = "vdec open" /\ MovieAt' = "reacquired"
      BY <1>2, <1>3, <1>4, <2>1, <2>2
    <3>2. SparkSound'
      BY <1>1, <1>4, <2>1, <3>1 DEF SparkSound, Reopening
    <3>3. SparkPicture'
      BY <1>1, <1>4, <2>1, <2>2, <3>1 DEF SparkPicture, Available
    <3> QED
      BY <3>1, <3>2, <3>3 DEF SparkHeld
  <2>3. CASE ~vdec.fd /\ Spark!Then("movie", <<"vdec opening">>)
    <3> DEFINE s == <<"vdec opening">>
    <3>1. \A x \in MovieWords : <<x>> \in Seq(MovieWords) /\ <<x>> # <<>>
      OBVIOUS
    <3>2. "vdec opening" \in MovieWords
      BY DEF MovieWords, Closing
    <3>3. s \in Seq(MovieWords) /\ s # <<>>
      BY <3>1, <3>2
    <3>4. Len(s) = 1 /\ s[1] = "vdec opening"
      OBVIOUS
    <3>5. Spark!Then("movie", s)
      BY <2>3
    <3> HIDE DEF s
    <3>6. \A i \in 1 .. Len(s) : i = 1
      <4>1. Len(s) = 1
        BY <3>4
      <4> QED
        BY ONLY <4>1
    <3>7. 1 .. Len(s) - 1 = {}
      <4>1. Len(s) = 1
        BY <3>4
      <4> QED
        BY ONLY <4>1
    <3>8. /\ \A i \in 1 .. Len(s) - 1 : Link("movie", s[i], s[i + 1])
          /\ s[Len(s)] \in Begun /\ Behind(s[Len(s)]) = Behind("vdec open")
          /\ \A i \in 1 .. Len(s) : s[i] \in Closing /\ s[i] # "open TS"
      BY <1>3, <3>4, <3>6, <3>7 DEF Closing
    <3>9. /\ SparkScripts' /\ GuiAt' = GuiAt /\ MovieAt = "vdec open" /\ MovieAt' = "vdec opening"
          /\ ClosedScript(todo["movie"]) => ClosedScript(todo["movie"])'
      BY <1>1, <1>3, <2>1, <3>3, <3>4, <3>5, <3>8, MovieTurns
    <3>10. SparkClosed'
      BY <1>1, <1>4, <3>9 DEF SparkClosed
    <3>11. SparkSound'
      BY <1>1, <1>4, <2>1, <3>9 DEF SparkSound, Reopening
    <3>12. SparkPicture'
      BY <1>1, <1>4, <2>1, <3>9 DEF SparkPicture, Available
    <3> QED
      BY <3>9, <3>10, <3>11, <3>12 DEF SparkHeld
  <2> QED
    BY <2>1, <2>2, <2>3
<1>7. CASE Spark!VdecOpening("movie")
  <2>1. /\ Spark!At("movie", "vdec opening") /\ Spark!Then("movie", <<>>)
        /\ vdec' = [vdec EXCEPT !.fd = vheld = "none"]
        /\ vheld' = CASE vheld = "none" -> "vdec" [] vdec.fd -> "lost" [] OTHER -> vheld
    BY <1>7 DEF Spark!VdecOpening
  <2>2. /\ SparkScripts' /\ SparkClosed' /\ GuiAt' = GuiAt
        /\ MovieAt = "vdec opening" /\ MovieAt' = "reacquired"
    BY <1>2, <1>3, <1>4, <2>1
  <2>3. aheld = "adec" /\ decoders_closed /\ vheld # "output"
    BY <1>1, <2>2 DEF SparkSound, Reopening
  <2>4. /\ vheld' \in {"none", "vdec", "output", "lost"} /\ vheld' # "output"
        /\ vheld = "none" => vheld' = "vdec"
        /\ vheld = "lost" => vheld' = "lost"
        /\ vheld # "none" => vheld' = "lost"
    BY <1>1, <2>1, <2>3 DEF SparkPicture
  <2>5. SparkSound'
    BY <1>1, <1>4, <2>2, <2>3, <2>4 DEF SparkSound, Reopening
  <2>6. /\ vdec' \in [fd : BOOLEAN, still : BOOLEAN, standby : BOOLEAN]
        /\ (vdec').fd = (vheld = "none") /\ (vdec').still = vdec.still
        /\ (vdec').standby = vdec.standby
    BY <1>1, <2>1 DEF SparkPicture
  <2>7. SparkPicture'
    BY <1>1, <1>4, <2>2, <2>3, <2>4, <2>6 DEF SparkPicture, Available
  <2> QED
    BY <2>2, <2>5, <2>7 DEF SparkHeld
<1>8. CASE Spark!VdecClose("movie")
  <2>1. /\ Spark!At("movie", "vdec close") /\ Spark!Then("movie", <<>>)
        /\ vdec' = [vdec EXCEPT !.fd = FALSE, !.still = FALSE]
        /\ vheld' = IF vdec.fd THEN "none" ELSE vheld
    BY <1>8 DEF Spark!VdecClose, Spark!VdecClosed
  <2>2. /\ SparkScripts' /\ SparkClosed' /\ GuiAt' = GuiAt
        /\ MovieAt = "vdec close" /\ MovieAt' \notin Led
    BY <1>2, <1>3, <1>4, <2>1
  <2>3. decoders_closed
    BY <1>1, <2>2 DEF SparkSound
  <2>4. /\ vdec' \in [fd : BOOLEAN, still : BOOLEAN, standby : BOOLEAN]
        /\ (vdec').fd = FALSE /\ (vdec').still = FALSE /\ (vdec').standby = vdec.standby
    BY <1>1, <2>1 DEF SparkPicture
  <2>5. /\ vheld' \in {"none", "vdec", "output", "lost"} /\ (vheld' = "output" <=> vheld = "output")
        /\ vheld' # "vdec" /\ (vheld = "lost" <=> vheld' = "lost")
    BY <1>1, <2>1 DEF SparkPicture
  <2>6. SparkSound'
    BY <1>1, <1>4, <2>2, <2>3, <2>5 DEF SparkSound, Reopening, Led, Begun
  <2>7. MovieAt' # "reacquired"
    BY <2>2 DEF Led
  <2>8. SparkPicture'
    BY <1>1, <1>4, <2>2, <2>3, <2>4, <2>5, <2>7 DEF SparkPicture, Available
  <2> QED
    BY <2>2, <2>6, <2>8 DEF SparkHeld
<1>9. ASSUME Spark!VdecStart("movie") \/ Spark!ShowPicture("movie") \/ Spark!ShowStill("movie")
               \/ Spark!SetStandby("movie")
      PROVE  FALSE
  <2>1. \E w \in {"vdec start", "show picture", "still", "standby on", "standby off"} :
          Spark!At("movie", w)
    BY <1>9 DEF Spark!VdecStart, Spark!ShowPicture, Spark!ShowStill, Spark!SetStandby
  <2> QED
    BY <1>5, <2>1
<1> QED
  BY <1>6, <1>7, <1>8, <1>9 DEF Spark!VideoStep

LEMMA GuiVideo ==
  ASSUME SparkInv, Spark!VideoStep("gui")
  PROVE  SparkHeld'
<1>1. SparkScripts /\ SparkClosed /\ SparkSound /\ SparkPicture /\ decoders_closed \in BOOLEAN
  BY DEF SparkInv, SparkFlags
<1>2. UNCHANGED <<phase, decoders_closed, aheld>>
  BY DEF Spark!VideoStep, Spark!VdecOpen, Spark!VdecOpening, Spark!VdecClose, Spark!VdecStart,
     Spark!ShowPicture, Spark!ShowStill, Spark!SetStandby, Spark!VideoFrame, Spark!statics
<1>3. ASSUME SparkScripts', MovieAt' = MovieAt, todo["movie"]' = todo["movie"],
             vheld' = "output" <=> vheld = "output", SparkPicture'
      PROVE  SparkHeld'
  <2>1. SparkClosed'
    BY <1>1, <1>2, <1>3 DEF SparkClosed
  <2>2. SparkSound'
    BY <1>1, <1>2, <1>3 DEF SparkSound, Reopening
  <2> QED
    BY <1>3, <2>1, <2>2 DEF SparkHeld
<1>4. ASSUME NEW w, Spark!At("gui", w), Spark!Then("gui", <<>>)
      PROVE  /\ SparkScripts' /\ MovieAt' = MovieAt /\ GuiAt = w /\ w \in GuiWords
             /\ todo["movie"]' = todo["movie"]
             /\ w = "vdec close" => GuiAt' \in {"vdec open", "standby on"}
             /\ GuiAt' = "standby off" => w \in {"vdec open", "vdec opening"}
  BY <1>1, <1>4, GuiGoes
<1>5. CASE Spark!VdecOpen("gui")
  <2>1. /\ Spark!At("gui", "vdec open") /\ vdec' = vdec /\ vheld' = vheld
        /\ \/ vdec.fd /\ Spark!Then("gui", <<>>)
           \/ ~vdec.fd /\ Spark!Then("gui", <<"vdec opening">>)
    BY <1>5 DEF Spark!VdecOpen
  <2>2. CASE vdec.fd /\ Spark!Then("gui", <<>>)
    <3>1. SparkScripts' /\ MovieAt' = MovieAt /\ GuiAt = "vdec open" /\ todo["movie"]' = todo["movie"]
      BY <1>4, <2>1, <2>2
    <3>2. SparkPicture'
      BY <1>1, <1>2, <2>1, <2>2, <3>1 DEF SparkPicture, Available
    <3> QED
      BY <1>3, <2>1, <3>1, <3>2
  <2>3. CASE ~vdec.fd /\ Spark!Then("gui", <<"vdec opening">>)
    <3> DEFINE s == <<"vdec opening">>
    <3>1. \A x \in GuiWords : <<x>> \in Seq(GuiWords) /\ <<x>> # <<>>
      OBVIOUS
    <3>2. "vdec opening" \in GuiWords
      BY DEF GuiWords
    <3>3. s \in Seq(GuiWords) /\ s # <<>>
      BY <3>1, <3>2
    <3>4. Len(s) = 1 /\ s[1] = "vdec opening"
      OBVIOUS
    <3>5. Spark!Then("gui", s)
      BY <2>3
    <3> HIDE DEF s
    <3>6. 1 .. Len(s) - 1 = {}
      <4>1. Len(s) = 1
        BY <3>4
      <4> QED
        BY ONLY <4>1
    <3>7. \A i \in 1 .. Len(s) - 1 : Link("gui", s[i], s[i + 1])
      BY <3>6
    <3>8. /\ SparkScripts' /\ MovieAt' = MovieAt /\ GuiAt = "vdec open" /\ GuiAt' = "vdec opening"
          /\ todo["movie"]' = todo["movie"]
      <4>1. s[Len(s)] = "vdec opening" /\ "vdec opening" # "still" /\ "vdec open" # "vdec close"
        BY <3>4
      <4> QED
        BY <1>1, <2>1, <3>3, <3>4, <3>5, <3>7, <4>1, GuiTurns
    <3>9. SparkPicture'
      BY <1>1, <1>2, <2>1, <3>8 DEF SparkPicture, Available
    <3> QED
      BY <1>3, <2>1, <3>8, <3>9
  <2> QED
    BY <2>1, <2>2, <2>3
<1>6. CASE Spark!VdecOpening("gui")
  <2>1. /\ Spark!At("gui", "vdec opening") /\ Spark!Then("gui", <<>>)
        /\ vdec' = [vdec EXCEPT !.fd = vheld = "none"]
        /\ vheld' = CASE vheld = "none" -> "vdec" [] vdec.fd -> "lost" [] OTHER -> vheld
    BY <1>6 DEF Spark!VdecOpening
  <2>2. SparkScripts' /\ MovieAt' = MovieAt /\ GuiAt = "vdec opening" /\ todo["movie"]' = todo["movie"]
    BY <1>4, <2>1
  <2>3. /\ vdec' \in [fd : BOOLEAN, still : BOOLEAN, standby : BOOLEAN]
        /\ (vdec').fd = (vheld = "none") /\ (vdec').still = vdec.still
        /\ (vdec').standby = vdec.standby
    BY <1>1, <2>1 DEF SparkPicture
  <2>4. /\ vheld' \in {"none", "vdec", "output", "lost"}
        /\ vheld = "none" => vheld' = "vdec"
        /\ vheld = "lost" => vheld' = "lost"
        /\ vheld = "vdec" => vheld' = "lost"
        /\ vheld = "output" => vheld' = "output"
    BY <1>1, <2>1 DEF SparkPicture
  <2>5. vheld' = "output" <=> vheld = "output"
    BY <1>1, <2>4 DEF SparkPicture
  <2>6. vheld = "output" => decoders_closed /\ MovieAt # "reacquired"
    BY <1>1 DEF SparkSound, Reopening
  <2>7. SparkPicture'
    BY <1>1, <1>2, <2>2, <2>3, <2>4, <2>6 DEF SparkPicture, Available
  <2> QED
    BY <1>3, <2>2, <2>5, <2>7
<1>7. CASE Spark!VdecClose("gui")
  <2>1. /\ Spark!At("gui", "vdec close") /\ Spark!Then("gui", <<>>)
        /\ vdec' = [vdec EXCEPT !.fd = FALSE, !.still = FALSE]
        /\ vheld' = IF vdec.fd THEN "none" ELSE vheld
    BY <1>7 DEF Spark!VdecClose, Spark!VdecClosed
  <2>2. /\ SparkScripts' /\ MovieAt' = MovieAt /\ todo["movie"]' = todo["movie"]
        /\ GuiAt' \in {"vdec open", "standby on"}
    BY <1>4, <2>1
  <2>3. /\ vdec' \in [fd : BOOLEAN, still : BOOLEAN, standby : BOOLEAN]
        /\ (vdec').fd = FALSE /\ (vdec').still = FALSE /\ (vdec').standby = vdec.standby
    BY <1>1, <2>1 DEF SparkPicture
  <2>4. /\ vheld' \in {"none", "vdec", "output", "lost"} /\ (vheld' = "output" <=> vheld = "output")
        /\ vheld' # "vdec" /\ (vheld = "lost" <=> vheld' = "lost")
    BY <1>1, <2>1 DEF SparkPicture
  <2>5. SparkPicture'
    BY <1>1, <1>2, <2>2, <2>3, <2>4 DEF SparkPicture, Available
  <2> QED
    BY <1>3, <2>2, <2>4, <2>5
<1>8. CASE Spark!VdecStart("gui")
  <2>1. /\ Spark!At("gui", "vdec start") /\ Spark!Then("gui", <<>>)
        /\ vdec' = [vdec EXCEPT !.still = FALSE] /\ vheld' = vheld
    BY <1>8 DEF Spark!VdecStart
  <2>2. /\ SparkScripts' /\ MovieAt' = MovieAt /\ todo["movie"]' = todo["movie"]
        /\ GuiAt = "vdec start" /\ GuiAt' # "standby off"
    <3>1. "vdec start" \notin {"vdec open", "vdec opening"}
      OBVIOUS
    <3> QED
      BY <1>4, <2>1, <3>1
  <2>3. /\ vdec' \in [fd : BOOLEAN, still : BOOLEAN, standby : BOOLEAN]
        /\ (vdec').fd = vdec.fd /\ (vdec').still = FALSE /\ (vdec').standby = vdec.standby
    BY <1>1, <2>1 DEF SparkPicture
  <2>4. SparkPicture'
    BY <1>1, <1>2, <2>1, <2>2, <2>3 DEF SparkPicture, Available
  <2> QED
    BY <1>3, <2>1, <2>2, <2>4
<1>9. CASE Spark!ShowPicture("gui")
  <2>1. /\ Spark!At("gui", "show picture") /\ vdec' = vdec /\ vheld' = vheld
        /\ \/ Spark!Then("gui", <<"vdec close", "vdec open", "still">>)
           \/ Spark!Then("gui", <<>>)
    BY <1>9 DEF Spark!ShowPicture
  <2>2. /\ SparkScripts' /\ MovieAt' = MovieAt /\ todo["movie"]' = todo["movie"]
        /\ GuiAt = "show picture" /\ GuiAt' # "standby off"
    <3>1. CASE Spark!Then("gui", <<>>)
      <4>1. "show picture" \notin {"vdec open", "vdec opening"}
        OBVIOUS
      <4> QED
        BY <1>4, <2>1, <3>1, <4>1
    <3>2. CASE Spark!Then("gui", <<"vdec close", "vdec open", "still">>)
      <4> DEFINE s == <<"vdec close", "vdec open", "still">>
      <4>1. \A x, y, z \in GuiWords : <<x, y, z>> \in Seq(GuiWords) /\ <<x, y, z>> # <<>>
        OBVIOUS
      <4>2. "vdec close" \in GuiWords /\ "vdec open" \in GuiWords /\ "still" \in GuiWords
        BY DEF GuiWords
      <4>3. s \in Seq(GuiWords) /\ s # <<>>
        BY <4>1, <4>2
      <4>4. Len(s) = 3 /\ s[1] = "vdec close" /\ s[2] = "vdec open" /\ s[3] = "still"
        OBVIOUS
      <4>5. Spark!Then("gui", s)
        BY <3>2
      <4> HIDE DEF s
      <4>6. \A i \in 1 .. Len(s) - 1 : i = 1 \/ i = 2
        <5>1. Len(s) = 3
          BY <4>4
        <5> QED
          BY ONLY <5>1
      <4>7. Link("gui", "vdec close", "vdec open") /\ Link("gui", "vdec open", "still")
        BY DEF Link
      <4>8. \A i \in 1 .. Len(s) - 1 : Link("gui", s[i], s[i + 1])
        <5> SUFFICES ASSUME NEW i \in 1 .. Len(s) - 1 PROVE Link("gui", s[i], s[i + 1])
          OBVIOUS
        <5>1. CASE i = 1
          <6>1. i + 1 = 2
            BY ONLY <5>1
          <6> QED
            BY <4>4, <4>7, <5>1, <6>1
        <5>2. CASE i = 2
          <6>1. i + 1 = 3
            BY ONLY <5>2
          <6> QED
            BY <4>4, <4>7, <5>2, <6>1
        <5> QED
          BY <4>6, <5>1, <5>2
      <4>9. s[Len(s)] = "still"
        BY <4>4
      <4>10. /\ SparkScripts' /\ MovieAt' = MovieAt /\ GuiAt = "show picture"
             /\ GuiAt' = "vdec close" /\ todo["movie"]' = todo["movie"]
        BY <1>1, <2>1, <4>3, <4>4, <4>5, <4>8, <4>9, GuiTurns
      <4> QED
        BY <4>10
    <3> QED
      BY <2>1, <3>1, <3>2
  <2>3. SparkPicture'
    BY <1>1, <1>2, <2>1, <2>2 DEF SparkPicture, Available
  <2> QED
    BY <1>3, <2>1, <2>2, <2>3
<1>10. CASE Spark!ShowStill("gui")
  <2>1. /\ Spark!At("gui", "still") /\ Spark!Then("gui", <<>>)
        /\ vdec' = [vdec EXCEPT !.still = @ \/ vdec.fd] /\ vheld' = vheld
    BY <1>10 DEF Spark!ShowStill
  <2>2. /\ SparkScripts' /\ MovieAt' = MovieAt /\ todo["movie"]' = todo["movie"]
        /\ GuiAt = "still" /\ GuiAt' # "standby off"
    <3>1. "still" \notin {"vdec open", "vdec opening"}
      OBVIOUS
    <3> QED
      BY <1>4, <2>1, <3>1
  <2>3. /\ vdec' \in [fd : BOOLEAN, still : BOOLEAN, standby : BOOLEAN]
        /\ (vdec').fd = vdec.fd /\ ((vdec').still <=> vdec.still \/ vdec.fd)
        /\ (vdec').standby = vdec.standby
    BY <1>1, <2>1 DEF SparkPicture
  <2>4. SparkPicture'
    BY <1>1, <1>2, <2>1, <2>2, <2>3 DEF SparkPicture, Available
  <2> QED
    BY <1>3, <2>1, <2>2, <2>4
<1>11. CASE Spark!SetStandby("gui")
  <2>1. PICK w \in {"standby on", "standby off"} :
          /\ Spark!At("gui", w) /\ Spark!Then("gui", <<>>)
          /\ vdec' = [vdec EXCEPT !.standby = (w = "standby on")] /\ vheld' = vheld
    BY <1>11 DEF Spark!SetStandby
  <2>2. /\ SparkScripts' /\ MovieAt' = MovieAt /\ todo["movie"]' = todo["movie"]
        /\ GuiAt = w /\ GuiAt' # "standby off"
    BY <1>4, <2>1
  <2>3. /\ vdec' \in [fd : BOOLEAN, still : BOOLEAN, standby : BOOLEAN]
        /\ (vdec').fd = vdec.fd /\ (vdec').still = vdec.still
        /\ (vdec').standby = (w = "standby on")
    BY <1>1, <2>1 DEF SparkPicture
  <2>4. SparkPicture'
    BY <1>1, <1>2, <2>1, <2>2, <2>3 DEF SparkPicture, Available
  <2> QED
    BY <1>3, <2>1, <2>2, <2>4
<1> QED
  BY <1>5, <1>6, <1>7, <1>8, <1>9, <1>10, <1>11 DEF Spark!VideoStep

LEMMA GuiCalls ==
  ASSUME SparkInv, Spark!VideoCall
  PROVE  SparkHeld'
<1>1. SparkScripts /\ SparkClosed /\ SparkSound /\ SparkPicture
  BY DEF SparkInv
<1>2. UNCHANGED <<phase, decoders_closed, aheld, vdec, vheld>>
  BY DEF Spark!VideoCall, Spark!VideoFrame, Spark!statics
<1>3. /\ SparkScripts' /\ MovieAt' = MovieAt /\ GuiAt = "idle" /\ GuiAt' # "standby off"
      /\ todo["movie"]' = todo["movie"]
  BY <1>1, GuiCalled DEF Spark!VideoCall
<1>4. SparkPicture'
  BY <1>1, <1>2, <1>3 DEF SparkPicture, Available
<1>5. SparkClosed' /\ SparkSound'
  BY <1>1, <1>2, <1>3 DEF SparkClosed, SparkSound, Reopening
<1> QED
  BY <1>3, <1>4, <1>5 DEF SparkHeld

(* The invariant of cPlayback and the decoders. *)
LEMMA SparkStep ==
  ASSUME SparkInv, [Spark!Next]_(Spark!vars)
  PROVE  SparkInv'
<1>1. SparkTypes' /\ SparkFlags'
  BY SparkTypesStep DEF SparkInv
<1>2. SparkHeld'
  <2>1. ASSUME NEW t \in Spark!Callers, Spark!VideoStep(t) PROVE SparkHeld'
    BY <2>1, MovieVideo, GuiVideo DEF Spark!Callers
  <2>2. CASE UNCHANGED Spark!vars
    BY <2>2 DEF Spark!vars, Spark!statics, Spark!device, SparkInv, SparkHeld, SparkScripts,
       SparkClosed, SparkSound, SparkPicture, Reopening, Available, MovieAt, GuiAt
  <2>3. CASE Spark!PlaybackStep
    BY <2>3, PlainSteps, DeviceSteps DEF Spark!PlaybackStep
  <2> QED
    BY <2>1, <2>2, <2>3, CallSteps, GuiCalls DEF Spark!Next
<1> QED
  BY <1>1, <1>2 DEF SparkInv, SparkHeld

LEMMA SparkInit ==
  ASSUME Spark!Init
  PROVE  SparkInv
<1> USE DEF Spark!Init
<1>1. SparkTypes /\ SparkFlags
  BY DEF SparkTypes, SparkFlags, Spark!NoMedia, Spark!Media
<1>2. todo = [t \in Spark!Callers |-> <<>>] /\ todo["movie"] = <<>> /\ todo["gui"] = <<>>
  BY DEF Spark!Callers
<1>3. SparkScripts
  <2>1. ASSUME NEW t \in Spark!Callers PROVE Linked(t, todo[t])
    BY <1>2 DEF Linked
  <2> QED
    BY <1>2, <2>1 DEF SparkScripts
<1>4. MovieAt = "idle" /\ GuiAt = "idle"
  BY <1>2 DEF MovieAt, GuiAt, First
<1>5. SparkClosed
  <2>1. ClosedScript(<<>>)
    BY DEF ClosedScript
  <2> QED
    BY <1>2, <2>1 DEF SparkClosed
<1>6. SparkSound /\ SparkPicture
  BY <1>4 DEF SparkSound, SparkPicture, Reopening, Available
<1> QED
  BY <1>1, <1>3, <1>5, <1>6 DEF SparkInv

LEMMA SparkSafe ==
  ASSUME SparkInv
  PROVE  Spark!TypeOK /\ Spark!DevicesHandedOver
<1>1. SparkTypes /\ SparkFlags /\ SparkScripts /\ SparkClosed /\ SparkSound /\ SparkPicture
  BY DEF SparkInv
<1>2. Spark!TypeOK
  <2>1. todo \in [Spark!Callers -> Seq(Spark!Step)]
    <3>1. ASSUME NEW t \in Spark!Callers PROVE todo[t] \in Seq(Spark!Step)
      <4>1. todo[t] \in Seq(StepWords(t))
        BY <1>1, <3>1 DEF SparkScripts, Linked
      <4>2. MovieWords \subseteq Spark!Step
        BY DEF MovieWords, Closing, Spark!Step
      <4>3. GuiWords \subseteq Spark!Step
        BY DEF GuiWords, Spark!Step
      <4>4. StepWords(t) \subseteq Spark!Step
        BY <4>2, <4>3 DEF StepWords
      <4> QED
        BY <4>1, <4>4
    <3> QED
      BY <1>1, <3>1 DEF SparkScripts
  <2>2. /\ {decoders_closed, init_jump, pdplaying, pdeof} \subseteq BOOLEAN
        /\ {isPlaying, isPaused, isForwarding, isBackWard} \subseteq BOOLEAN
    BY <1>1 DEF SparkFlags
  <2>3. /\ vdec \in [fd : BOOLEAN, still : BOOLEAN, standby : BOOLEAN]
        /\ vheld \in {"none", "vdec", "output", "lost"} /\ aheld \in {"none", "adec", "output"}
    BY <1>1 DEF SparkPicture, SparkSound
  <2>4. /\ pm \in {"TS", "FILE"} /\ speed \in Speeds \cup {0} /\ arg \in Speeds \cup {0}
        /\ phase \in {"closed", "opened", "started", "failed"} /\ media \in Spark!Media
    BY <1>1 DEF SparkTypes
  <2> QED
    BY <2>1, <2>2, <2>3, <2>4 DEF Spark!TypeOK
<1>3. ASSUME Spark!Quiet, vheld # "lost"
      PROVE  /\ phase = "closed" => ~decoders_closed /\ aheld = "adec"
             /\ phase = "closed" /\ ~vdec.standby => vdec.fd
             /\ vdec.fd => vheld = "vdec"
             /\ vdec.still => vdec.fd
             /\ decoders_closed => aheld # "adec"
  <2>1. MovieAt = "idle" /\ GuiAt = "idle"
    BY <1>3 DEF Spark!Quiet, Spark!Idle, Spark!Callers, MovieAt, GuiAt, First
  <2>2. phase = "closed" => ~decoders_closed
    BY <1>1, <2>1 DEF SparkClosed
  <2>3. /\ decoders_closed = FALSE => aheld = "adec"
        /\ decoders_closed => aheld # "adec"
    BY <1>1, <2>1 DEF SparkSound, Reopening
  <2>4. /\ vdec.fd <=> vheld = "vdec"
        /\ vdec.still => vdec.fd
        /\ vdec.fd \/ decoders_closed \/ vdec.standby
    BY <1>1, <1>3, <2>1 DEF SparkPicture, Available
  <2>5. decoders_closed \in BOOLEAN
    BY <1>1 DEF SparkFlags
  <2> QED
    BY <2>2, <2>3, <2>4, <2>5
<1> QED
  BY <1>2, <1>3 DEF Spark!DevicesHandedOver

-----------------------------------------------------------------------------
(* The composition: a step of MCRmfp is a step of each view or leaves its  *)
(* variables alone.                                                        *)
MCVars == <<view, vars, sparkvars, remotevars>>
LEMMA StepsOfViews ==
  ASSUME [MCNext]_MCVars
  PROVE  /\ [Next]_vars /\ [Spark!Next]_(Spark!vars) /\ [Remote!Next]_(Remote!vars)
<1>1. [Next]_vars
  BY DEF MCNext, MCVars
<1>2. [Spark!Next]_(Spark!vars)
  BY DEF MCNext, MCVars, sparkvars, Spark!vars, Spark!statics, Spark!private, Spark!player,
         Spark!device
<1>3. [Remote!Next]_(Remote!vars)
  BY DEF MCNext, MCVars, remotevars, Remote!vars, Remote!control, Remote!remote, Remote!ghosts
<1> QED
  BY <1>1, <1>2, <1>3

ViewsInv == IInv /\ SparkInv /\ RemoteInv
LEMMA ViewsInvariance == MCSpec => []ViewsInv
<1>1. MCInit => ViewsInv
  BY InitIInv, SparkInit, RemoteInit DEF MCInit, ViewsInv
<1>2. IInv /\ [Next]_vars => IInv'
  BY TypesStep, CallingsStep DEF IInv
<1>3. ViewsInv /\ [MCNext]_MCVars => ViewsInv'
  BY <1>2, StepsOfViews, SparkStep, RemoteStep DEF ViewsInv
<1> QED
  BY <1>1, <1>3, PTL DEF MCSpec, MCVars

(* The variables of the three views keep to their types, and every script  *)
(* of cPlayback is made of its steps.                                      *)
THEOREM ViewsTyped == MCSpec => []TypesOK
<1>1. ViewsInv => TypesOK
  BY SparkSafe, RemoteSafe DEF ViewsInv, IInv, TypesOK
<1> QED
  BY <1>1, ViewsInvariance, PTL

(* Open, Start, SetSpeed, SetPosition and Close of cPlayback, ShowPicture, *)
(* Standby and SetVideoSystem of the decoder: whenever both threads are at *)
(* rest, live television has both devices again if the file is closed, and *)
(* the player's sound is not the decoder's; for any speeds, any order of   *)
(* calls and of the threads' steps, unless a descriptor was lost ("racy",  *)
(* line 193 of video.cpp).                                                 *)
THEOREM DevicesReturn == MCSpec => []DevicesHandedOver
<1>1. ViewsInv => DevicesHandedOver
  BY SparkSafe DEF ViewsInv, DevicesHandedOver
<1> QED
  BY <1>1, ViewsInvariance, PTL

(* The input threads, and their start and stop: neither waits for what     *)
(* will not come, unless the thread gave up without a word, was stopped    *)
(* before its loop, or went astray when a device of Raspberry Pi vanished; *)
(* libspark has one key down at a time, and none once two waits passed     *)
(* without an edge; libtriple loses no press and no release, and Raspberry *)
(* Pi none but those of a device that vanished, or all if it has no FIFO   *)
(* or goes astray.  For any keys and any order of frames, waits, reads,    *)
(* starts and stops.                                                       *)
THEOREM InputIsFollowed == MCSpec => []InputFollows
<1>1. ViewsInv => InputFollows
  BY RemoteSafe DEF ViewsInv, InputFollows
<1> QED
  BY <1>1, ViewsInvariance, PTL
=============================================================================
