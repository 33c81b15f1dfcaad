------------------------------- MODULE Demux -------------------------------
(***************************************************************************)
(* cDemux, the demultiplexer of the five ports of the library, and the two *)
(* calls of cRecord that change the PIDs of a running recording.  The port *)
(* is chosen at Init: "spark" (libspark/dmx.cpp), "azbox", "pc" and "raspi"*)
(* (near copies of each other) or "triple" (libtriple/dmx_td.cpp).         *)
(*                                                                         *)
(* Descriptors are numbers that the kernel hands out again after a close.  *)
(* Each object has one user, who opens, filters, closes and deletes it,    *)
(* and may have a reader, a thread that calls Read.  The two halves of     *)
(* Close and those of Read are steps of their own; the other calls are     *)
(* one step each.                                                          *)
(***************************************************************************)
EXTENDS Naturals, FiniteSets, SequencesExt

CONSTANTS
  Backends,    \* the ports looked at
  Demuxes,     \* cDemux objects
  Num,         \* the unit each is constructed for
  Uses,        \* the channel types each is opened with: "psi", "tp", "av"
  Recorders,   \* the objects that PIDs are added to
  Readers,     \* the objects that a second thread reads from
  Sources,     \* the frontends (spark: one demux device each)
  Apids,       \* the audio PIDs of a recording
  VideoPid,    \* its video PID
  MaxFd,       \* bound: descriptors of the process
  MaxListed    \* bound: entries of pesfds

Pids == Apids \cup {VideoPid}
Fds == 1 .. MaxFd
NoFd == 0
NoSource == 9
MaxTs == 1          \* MAX_TS_COUNT of libtriple
MeasureDevice == 2

ASSUME DemuxAssumption ==
  /\ Backends \subseteq {"spark", "azbox", "pc", "raspi", "triple"}
  /\ Num \in [Demuxes -> 0 .. 2]
  /\ Uses \in [Demuxes -> SUBSET {"psi", "tp", "av"}]
  /\ Recorders \subseteq Demuxes /\ Readers \subseteq Demuxes
  /\ Sources \subseteq 0 .. 2 /\ 0 \in Sources
  /\ IsFiniteSet(Apids) /\ VideoPid \notin Apids
  /\ MaxFd \in Nat /\ MaxListed \in Nat

VARIABLES
  backend,
  type,      \* dmx_type
  fd,
  last,      \* last_source (spark)
  listed,    \* pesfds: sequence of [pid, fd]
  measure,   \* P->measure (triple)
  ctl,       \* the object's user: "idle", "closing", "deleting", "waiting", "deleted"
  reader,    \* its reader: "idle", "entered", "polling", "ready", "stuck", "wild"
  polled,    \* the reader's ufds.fd
  emptied,   \* history: what the reader's poll saw may be gone, see Emptied
  source,    \* dmx_source (spark), by unit
  tpCount,   \* dmx_tp_count (triple)
  files      \* the kernel's side of every descriptor

settings == <<type, measure, ctl>>
reading == <<reader, polled>>
globals == <<backend, source, tpCount>>
vars == <<settings, reading, globals, fd, last, listed, emptied, files>>

Unopened == [open |-> FALSE, dev |-> 0, pids |-> {}]
Opened(dev) == [Unopened EXCEPT !.open = TRUE, !.dev = dev]

(* open() takes the lowest number that is free. *)
FreeFds(f) == {n \in Fds : ~f[n].open}
LowestFree(f) == CHOOSE n \in FreeFds(f) : \A m \in FreeFds(f) : n <= m

Init ==
  /\ backend \in Backends
  /\ type = [d \in Demuxes |-> "invalid"]
  /\ fd = [d \in Demuxes |-> NoFd]
  /\ last = [d \in Demuxes |-> NoSource]
  /\ listed = [d \in Demuxes |-> << >>]
  /\ measure = [d \in Demuxes |-> FALSE]
  /\ ctl = [d \in Demuxes |-> "idle"]
  /\ reader = [d \in Demuxes |-> "idle"]
  /\ polled = [d \in Demuxes |-> NoFd]
  /\ emptied = [d \in Demuxes |-> FALSE]
  /\ source = [u \in 0 .. 2 |-> 0]
  /\ tpCount = 0
  /\ files = [n \in Fds |-> Unopened]

On(ports, d) == backend \in ports /\ ctl[d] = "idle"
PidsOf(list) == {list[i].pid : i \in DOMAIN list}

(***************************************************************************)
(* What the calls that filter work on: the files, and of the object the    *)
(* descriptor, the source it was opened for and the list of PIDs.  Each    *)
(* operator is one call; ChangePids makes several in one step.             *)
(***************************************************************************)
Image(d) == [files |-> files, fd |-> fd[d], last |-> last[d], listed |-> listed[d]]

(* A filter that is stopped or set anew loses the data it has, and so does *)
(* a file that is closed: whoever has polled that number may find none.    *)
Emptied(n) ==
  [e \in Demuxes |-> emptied[e] \/ (reader[e] = "ready" /\ fd[e] = n)]

Commit(d, image) ==
  /\ files' = image.files
  /\ fd' = [fd EXCEPT ![d] = image.fd]
  /\ last' = [last EXCEPT ![d] = image.last]
  /\ listed' = [listed EXCEPT ![d] = image.listed]
  /\ emptied' = [Emptied(image.fd) EXCEPT ![d] =
                   @ \/ /\ reader[d] \in {"polling", "ready"}
                        /\ image.fd # NoFd
                        /\ image.last # last[d] \/ fd[d] = NoFd]
  /\ UNCHANGED <<settings, reading, globals>>

Shut(f, n) == IF n = NoFd THEN f ELSE [f EXCEPT ![n] = Unopened]

\* As SparkDevice, but the old descriptor is not closed.
SparkDeviceLeaks(d, image, ok) ==
  LET dev == source[Num[d]]
      n == LowestFree(image.files)
  IN  IF image.last = dev /\ image.fd # NoFd THEN image
      ELSE IF ok /\ FreeFds(image.files) # {}
      THEN [image EXCEPT !.files[n] = Opened(dev), !.fd = n, !.last = dev]
      ELSE [image EXCEPT !.fd = NoFd]

\* As SparkDevice, but an open descriptor stays whatever the source is.
SparkDeviceKept(d, image, ok) ==
  LET dev == source[Num[d]]
      n == LowestFree(image.files)
  IN  IF image.fd # NoFd \/ ~ok \/ FreeFds(image.files) = {} THEN image
      ELSE [image EXCEPT !.files[n] = Opened(dev), !.fd = n, !.last = dev]

(* _open of libspark: the descriptor stays while the source is the one it  *)
(* was opened for; else it is closed and the new source's device opened.   *)
SparkDevice(d, image, ok) ==
  LET dev == source[Num[d]]
      rest == Shut(image.files, image.fd)
      n == LowestFree(rest)
  IN  IF image.last = dev /\ image.fd # NoFd THEN image
      ELSE IF ok /\ FreeFds(rest) # {}
      THEN [image EXCEPT !.files = [rest EXCEPT ![n] = Opened(dev)],
                         !.fd = n, !.last = dev]
      ELSE [image EXCEPT !.files = rest, !.fd = NoFd]

(* An ioctl that changes the PIDs; on a bad descriptor it does nothing. *)
SetPids(image, pids, ok) ==
  IF image.fd = NoFd \/ ~ok THEN image
  ELSE [image EXCEPT !.files[image.fd].pids = pids]

Filtered(image) == IF image.fd = NoFd THEN {} ELSE image.files[image.fd].pids

(* addPid: the entry is made whether or not the driver accepts the PID;    *)
(* its fd field is a dummy on these ports.                                 *)
DvbAdd(image, p, ok) ==
  SetPids([image EXCEPT !.listed = Append(@, [pid |-> p, fd |-> NoFd])],
          Filtered(image) \cup {p}, ok)

SparkAdd(d, image, p, ok) == DvbAdd(SparkDevice(d, image, ok), p, ok)

(* addPid of libtriple: a descriptor for each PID, kept only on success. *)
TripleAdd(image, p, ok) ==
  LET n == LowestFree(image.files)
  IN  IF ~ok \/ FreeFds(image.files) = {} THEN image
      ELSE [image EXCEPT
              !.files[n] = [Opened(image.files[image.fd].dev) EXCEPT !.pids = {p}],
              !.listed = Append(@, [pid |-> p, fd |-> n])]

Add(d, image, p, ok) ==
  CASE backend = "spark" -> SparkAdd(d, image, p, ok)
    [] backend = "triple" -> IF measure[d] THEN image ELSE TripleAdd(image, p, ok)
    [] OTHER -> DvbAdd(image, p, ok)

(* removePid: the first entry with that PID goes.  The PID is handed to    *)
(* the driver by value where addPid hands it by reference, so the ioctl    *)
(* may well be refused: the entry goes all the same.                       *)
SharedRemove(image, p, ok) ==
  SetPids([image EXCEPT !.listed = RemoveFirstMatch(@, LAMBDA e : e.pid = p)],
          Filtered(image) \ {p}, ok)

TripleRemove(image, p) ==
  LET i == SelectInSeq(image.listed, LAMBDA e : e.pid = p)
  IN  [image EXCEPT !.files = Shut(@, image.listed[i].fd), !.listed = RemoveAt(@, i)]

RemovePidFrom(image, p, ok) ==
  IF p \notin PidsOf(image.listed) THEN image
  ELSE IF backend = "triple" THEN TripleRemove(image, p)
  ELSE SharedRemove(image, p, ok)

(***************************************************************************)
(* Open.  The ports other than libspark open the device here; their user   *)
(* closes before it opens again, and libspark's at least before it changes *)
(* the type, with which the device is opened later.                        *)
(***************************************************************************)
SparkOpen(d, t) ==
  /\ On({"spark"}, d)
  /\ fd[d] = NoFd \/ type[d] = t
  /\ type' = [type EXCEPT ![d] = t]
  /\ UNCHANGED <<measure, ctl, reading, globals, fd, last, listed, emptied, files>>

OpenDevice(d, dev, ok) ==
  /\ fd[d] = NoFd
  /\ IF ok /\ FreeFds(files) # {}
     THEN LET n == LowestFree(files)
          IN  /\ files' = [files EXCEPT ![n] = Opened(dev)]
              /\ fd' = [fd EXCEPT ![d] = n]
     ELSE UNCHANGED <<files, fd>>
  /\ UNCHANGED <<ctl, reading, backend, source, last, listed, emptied>>

AzboxOpen(d, t, ok) ==
  /\ On({"azbox"}, d)
  /\ OpenDevice(d, 0, ok)
  /\ type' = IF fd'[d] = NoFd THEN type ELSE [type EXCEPT ![d] = t]
  /\ UNCHANGED <<measure, tpCount>>

PcOpen(d, t, ok) ==
  /\ On({"pc", "raspi"}, d)
  /\ OpenDevice(d, 0, ok)
  /\ type' = [type EXCEPT ![d] = t]
  /\ UNCHANGED <<measure, tpCount>>

\* As TripleOpen, without the limit on transport streams.
TripleOpenAny(d, t, sized, ok) ==
  /\ On({"triple"}, d) /\ t = "tp"
  /\ tpCount' = tpCount + 1
  /\ OpenDevice(d, tpCount + 1, ok)
  /\ type' = [type EXCEPT ![d] = t]
  /\ UNCHANGED measure

(* libtriple: one transport stream at a time, besides the measurement of   *)
(* unit 0 (recognised by its buffer size).  The count goes up before the   *)
(* device is opened and stays up when that fails.                          *)
TripleOpen(d, t, sized, ok) ==
  /\ On({"triple"}, d)
  /\ IF t = "tp" /\ ~(Num[d] = 0 /\ sized)
     THEN IF tpCount >= MaxTs
          THEN /\ fd[d] = NoFd
               /\ type' = [type EXCEPT ![d] = "invalid"]
               /\ UNCHANGED <<measure, ctl, reading, globals, fd, last, listed, emptied, files>>
          ELSE /\ tpCount' = tpCount + 1
               /\ OpenDevice(d, tpCount + 1, ok)
               /\ type' = IF fd'[d] = NoFd THEN type ELSE [type EXCEPT ![d] = t]
               /\ UNCHANGED measure
     ELSE /\ measure' = [measure EXCEPT ![d] = @ \/ t = "tp"]
          /\ OpenDevice(d, IF t = "tp" THEN MeasureDevice ELSE Num[d], ok)
          /\ type' = IF fd'[d] = NoFd THEN type ELSE [type EXCEPT ![d] = t]
          /\ UNCHANGED tpCount

(***************************************************************************)
(* Close: the kernel's side first, then fd = -1 and the count.  On a       *)
(* descriptor that is not open it returns early and leaves the list.       *)
(***************************************************************************)
ShutListed(d) == {listed[d][i].fd : i \in DOMAIN listed[d]}

Shutdown(d) ==
  /\ files' = [n \in Fds |->
                 IF n = fd[d] \/ (backend = "triple" /\ n \in ShutListed(d))
                 THEN Unopened ELSE files[n]]
  /\ listed' = [listed EXCEPT ![d] = << >>]
  /\ emptied' = Emptied(fd[d])

Close(d) ==
  /\ ctl[d] = "idle" /\ fd[d] # NoFd
  /\ Shutdown(d)
  /\ ctl' = [ctl EXCEPT ![d] = "closing"]
  /\ UNCHANGED <<type, measure, reading, globals, fd, last>>

CloseEnd(d) ==
  /\ ctl[d] \in {"closing", "deleting"}
  /\ fd' = [fd EXCEPT ![d] = NoFd]
  /\ ctl' = [ctl EXCEPT ![d] = IF @ = "closing" THEN "idle" ELSE "waiting"]
  /\ tpCount' = IF backend = "triple" /\ type[d] = "tp" /\ ~measure[d] /\ tpCount > 0
                THEN tpCount - 1 ELSE tpCount
  /\ UNCHANGED <<type, measure, reading, backend, source, last, listed, emptied, files>>

(* The destructor: Close, and (spark) wait for Read to give up its mutex.  *)
(* The user of another port has ended its reader before.                   *)
Delete(d) ==
  /\ ctl[d] = "idle"
  /\ backend # "spark" => reader[d] = "idle"
  /\ IF fd[d] = NoFd
     THEN /\ ctl' = [ctl EXCEPT ![d] = "waiting"]
          /\ UNCHANGED <<files, listed, emptied>>
     ELSE /\ ctl' = [ctl EXCEPT ![d] = "deleting"]
          /\ Shutdown(d)
  /\ UNCHANGED <<type, measure, reading, globals, fd, last>>

Locked(d) == reader[d] \in {"polling", "ready", "stuck"}

DeleteEnd(d) ==
  /\ ctl[d] = "waiting"
  /\ ~Locked(d)
  /\ ctl' = [ctl EXCEPT ![d] = "deleted"]
  /\ UNCHANGED <<type, measure, reading, globals, fd, last, listed, emptied, files>>

(* The constructor: an object in the place of a deleted one. *)
New(d) ==
  /\ ctl[d] = "deleted" /\ reader[d] \in {"idle", "wild"}
  /\ ctl' = [ctl EXCEPT ![d] = "idle"]
  /\ type' = [type EXCEPT ![d] = "invalid"]
  /\ last' = [last EXCEPT ![d] = NoSource]
  /\ listed' = [listed EXCEPT ![d] = << >>]
  /\ measure' = [measure EXCEPT ![d] = FALSE]
  /\ reader' = [reader EXCEPT ![d] = "idle"]
  /\ emptied' = [emptied EXCEPT ![d] = FALSE]
  /\ UNCHANGED <<polled, globals, fd, files>>

(* Start and Stop: the driver stops a filter that runs, to start it anew.  *)
StartOrStop(d) ==
  /\ ctl[d] = "idle" /\ fd[d] # NoFd
  /\ emptied' = Emptied(fd[d])
  /\ UNCHANGED <<settings, reading, globals, fd, last, listed, files>>

(***************************************************************************)
(* The filters.                                                            *)
(***************************************************************************)
(* sectionFilter; a section filter has one PID. *)
SectionFilter(d, p, ok) ==
  /\ ctl[d] = "idle" /\ type[d] = "psi"
  /\ LET image == IF backend = "spark" THEN SparkDevice(d, Image(d), ok) ELSE Image(d)
     IN  Commit(d, SetPids(image, {p}, ok))

(* pesFilter.  A transport stream gets its first PID here: libtriple makes *)
(* it the first entry of the list, the others do not list it.              *)
SparkPesFilter(d, p, ok) ==
  /\ On({"spark"}, d) /\ type[d] # "invalid"
  /\ LET image == SparkDevice(d, Image(d), ok)
     IN  Commit(d, IF type[d] = "psi" THEN image ELSE SetPids(image, {p}, ok))

AzboxPesFilter(d, p, ok) ==
  /\ On({"azbox"}, d) /\ type[d] \notin {"invalid", "psi"}
  /\ Commit(d, SetPids(Image(d), {p}, ok))

(* Without a decoder (HAL_nodec) nothing is filtered for one, ... *)
PcPesFilter(d, p, ok, nodec) ==
  /\ On({"pc"}, d) /\ type[d] \notin {"invalid", "psi"}
  /\ Commit(d, IF type[d] = "av" /\ nodec THEN Image(d) ELSE SetPids(Image(d), {p}, ok))

(* ... and on the raspi never for the clock. *)
RaspiPesFilter(d, p, ok, pcr) ==
  /\ On({"raspi"}, d) /\ type[d] \notin {"invalid", "psi"}
  /\ Commit(d, IF type[d] = "av" /\ pcr THEN Image(d) ELSE SetPids(Image(d), {p}, ok))

TriplePesFilter(d, p, ok) ==
  /\ On({"triple"}, d) /\ fd[d] # NoFd
  /\ Commit(d, IF type[d] = "tp" /\ ~measure[d] THEN TripleAdd(Image(d), p, ok)
               ELSE SetPids(Image(d), {p}, ok))

AddPid(d, p, ok) ==
  /\ ctl[d] = "idle" /\ type[d] = "tp" /\ d \in Recorders
  /\ Len(listed[d]) < MaxListed
  /\ backend = "triple" => fd[d] # NoFd
  /\ Commit(d, Add(d, Image(d), p, ok))

RemovePid(d, p, ok) ==
  /\ ctl[d] = "idle" /\ type[d] = "tp"
  /\ p \in PidsOf(listed[d])
  /\ Commit(d, RemovePidFrom(Image(d), p, ok))

SetSource(u, s) ==
  /\ backend = "spark"
  /\ source' = [source EXCEPT ![u] = s]
  /\ UNCHANGED <<settings, reading, backend, tpCount, fd, last, listed, emptied, files>>

(***************************************************************************)
(* cRecord::ChangePids and AddPid.  Both look at a copy of the list, and   *)
(* ChangePids passes over its first entry; refused are the PIDs the driver *)
(* does not take.  On an empty list the walk starts behind the end of the  *)
(* vector: a recording of at least one listed PID is assumed.              *)
(***************************************************************************)
Dropped(image, p, wanted, refused) ==
  IF p \in wanted THEN image ELSE RemovePidFrom(image, p, p \notin refused)
Added(d, image, p, seen, refused) ==
  IF p \in PidsOf(seen) THEN image ELSE Add(d, image, p, p \notin refused)

Walks(d, seen, wanted, refused) ==
  LET order == SetToSeq(wanted)
      dropped[i \in 0 .. Len(seen)] ==
        IF i = 0 THEN Image(d)
                 ELSE Dropped(dropped[i - 1], seen[i].pid, wanted, refused)
      added[i \in 0 .. Len(order)] ==
        IF i = 0 THEN dropped[Len(seen)]
                 ELSE Added(d, added[i - 1], order[i], seen, refused)
  IN  added[Len(order)]

\* As ChangedPids, but the walk begins at the first entry.
ChangedPidsFromFirst(d, wanted, refused) == Walks(d, listed[d], wanted, refused)

ChangedPids(d, wanted, refused) == Walks(d, Tail(listed[d]), wanted, refused)

ChangePids(d, wanted, refused) ==
  /\ ctl[d] = "idle" /\ type[d] = "tp" /\ ~measure[d] /\ d \in Recorders
  /\ listed[d] # << >>
  /\ backend = "triple" => fd[d] # NoFd
  /\ Len(listed[d]) + Cardinality(wanted) <= MaxListed + 1
  /\ Commit(d, ChangedPids(d, wanted, refused))

RecordAddPid(d, p, ok) ==
  /\ p \notin PidsOf(listed[d])
  /\ AddPid(d, p, ok)

(***************************************************************************)
(* Read.  libspark tests the descriptor, takes the mutex, and after the    *)
(* poll looks whether the descriptor is still the number it polled; the    *)
(* other ports do neither.                                                 *)
(***************************************************************************)
ReadMoves(d, to) ==
  /\ reader' = [reader EXCEPT ![d] = to]
  /\ polled' = IF to = "idle" THEN [polled EXCEPT ![d] = NoFd] ELSE polled
  /\ emptied' = IF to = "idle" THEN [emptied EXCEPT ![d] = FALSE] ELSE emptied
  /\ UNCHANGED <<settings, globals, fd, last, listed, files>>

SparkReadBegin(d) ==
  /\ backend = "spark" /\ reader[d] = "idle" /\ ctl[d] \in {"idle", "closing"}
  /\ fd[d] # NoFd
  /\ ReadMoves(d, "entered")

(* Taking the mutex of an object that was deleted meanwhile is undefined. *)
SparkReadLock(d) ==
  /\ reader[d] = "entered"
  /\ reader' = [reader EXCEPT ![d] = IF ctl[d] = "deleted" THEN "wild" ELSE "polling"]
  /\ polled' = [polled EXCEPT ![d] = fd[d]]
  /\ UNCHANGED <<settings, globals, fd, last, listed, emptied, files>>

ReadBegin(d) ==
  /\ backend # "spark" /\ reader[d] = "idle" /\ ctl[d] \in {"idle", "closing"}
  /\ fd[d] # NoFd
  /\ ReadMoves(d, "polling")

\* As ReadPoll, but a changed descriptor is polled again.
ReadPollRetries(d, data) ==
  /\ reader[d] = "polling"
  /\ ReadMoves(d, IF backend = "spark" /\ fd[d] # polled[d] THEN "polling"
                  ELSE IF data THEN "ready" ELSE "idle")

(* The poll ends: with data, or (timeout, error, changed number) without. *)
ReadPoll(d, data) ==
  /\ reader[d] = "polling"
  /\ ReadMoves(d, IF data /\ (backend = "spark" => fd[d] = polled[d]) THEN "ready" ELSE "idle")

(* read() on whatever is the object's descriptor now; one that is closed   *)
(* is refused.  Sections are read from a blocking descriptor (libtriple:   *)
(* streams as well), so the read blocks when there is no section any more. *)
(* A read that Close's DMX_STOP and close() enclose blocks, too.  pc,      *)
(* raspi and triple do not even poll when they are given no timeout.       *)
Blocking(d) == type[d] = "psi" \/ (backend = "triple" /\ ~measure[d])
MayBlock(d) ==
  Blocking(d) /\ (emptied[d] \/ backend \in {"pc", "raspi", "triple"})

ReadData(d) ==
  /\ reader[d] = "ready"
  /\ \/ ReadMoves(d, "idle")
     \/ MayBlock(d) /\ ReadMoves(d, "stuck")

ReadUnblocked(d) ==
  /\ reader[d] = "stuck"
  /\ ReadMoves(d, "idle")

(***************************************************************************)
(* The specification.                                                      *)
(***************************************************************************)
Filters(d, p, ok) ==
  \/ SectionFilter(d, p, ok)
  \/ SparkPesFilter(d, p, ok)
  \/ AzboxPesFilter(d, p, ok)
  \/ \E skip \in BOOLEAN : PcPesFilter(d, p, ok, skip) \/ RaspiPesFilter(d, p, ok, skip)
  \/ TriplePesFilter(d, p, ok)

(* cRecord::Start filters the video PID first and then adds the audio PIDs, *)
(* each of them once, so its calls are RecordAddPid steps as well.          *)
Opens(d, t, ok) ==
  \/ AzboxOpen(d, t, ok)
  \/ PcOpen(d, t, ok)
  \/ \E sized \in BOOLEAN : TripleOpen(d, t, sized, ok)

UserStep(d) ==
  \/ \E t \in Uses[d] : SparkOpen(d, t) \/ \E ok \in BOOLEAN : Opens(d, t, ok)
  \/ Close(d) \/ Delete(d) \/ New(d) \/ StartOrStop(d)
  \/ \E ok \in BOOLEAN : listed[d] = << >> /\ Filters(d, VideoPid, ok)
  \/ \E p \in Apids, ok \in BOOLEAN : RecordAddPid(d, p, ok) \/ RemovePid(d, p, ok)
  \/ \E wanted, refused \in SUBSET Apids : ChangePids(d, wanted, refused)

CloseOn(d) == CloseEnd(d) \/ DeleteEnd(d)

ReaderStep(d) ==
  \/ ReadBegin(d)
  \/ SparkReadBegin(d)
  \/ SparkReadLock(d)
  \/ \E data \in BOOLEAN : ReadPoll(d, data)
  \/ ReadData(d)
  \/ ReadUnblocked(d)

Next ==
  \/ \E d \in Demuxes : UserStep(d) \/ CloseOn(d)
  \/ \E d \in Readers : ReaderStep(d)
  \/ \E d \in Demuxes, s \in Sources : SetSource(Num[d], s)

(* A call that has begun goes on; a poll ends by its timeout.  Nobody says *)
(* that a section ever comes for a read that blocks.                       *)
Fairness ==
  \A d \in Demuxes :
    /\ WF_vars(CloseOn(d))
    /\ WF_vars(SparkReadLock(d) \/ (\E data \in BOOLEAN : ReadPoll(d, data)) \/ ReadData(d))

Spec == Init /\ [][Next]_vars /\ Fairness

TypeOK ==
  /\ backend \in Backends
  /\ type \in [Demuxes -> {"invalid", "psi", "tp", "av"}]
  /\ fd \in [Demuxes -> Fds \cup {NoFd}]
  /\ last \in [Demuxes -> Sources \cup {NoSource}]
  /\ \A d \in Demuxes : listed[d] \in Seq([pid : Pids, fd : Fds \cup {NoFd}])
  /\ measure \in [Demuxes -> BOOLEAN]
  /\ ctl \in [Demuxes -> {"idle", "closing", "deleting", "waiting", "deleted"}]
  /\ reader \in [Demuxes -> {"idle", "entered", "polling", "ready", "stuck", "wild"}]
  /\ polled \in [Demuxes -> Fds \cup {NoFd}]
  /\ emptied \in [Demuxes -> BOOLEAN]
  /\ source \in [0 .. 2 -> Sources]
  /\ tpCount \in Nat
  /\ files \in [Fds -> [open : BOOLEAN, dev : 0 .. 2, pids : SUBSET Pids]]

(***************************************************************************)
(* Properties.                                                             *)
(***************************************************************************)
Owns(d, n) ==
  /\ ctl[d] \notin {"closing", "deleting"}
  /\ n = fd[d] \/ (backend = "triple" /\ n \in ShutListed(d))

(* No descriptor is lost and none is shared, though the kernel hands the   *)
(* numbers out again, _open changes them behind the user's back, and a     *)
(* failed open leaves the object without one: every open file belongs to   *)
(* one object, and an object's number is that of an open file unless its   *)
(* Close is half done.                                                     *)
DescriptorsOwned ==
  /\ \A n \in Fds : files[n].open => \E d \in Demuxes : Owns(d, n)
  /\ \A n \in Fds : \A d, e \in Demuxes : Owns(d, n) /\ Owns(e, n) => d = e
  /\ \A d \in Demuxes : ctl[d] = "idle" /\ fd[d] # NoFd => files[fd[d]].open

(* "always use the demux device that is attached to the correct source"    *)
(* (libspark/dmx.cpp:46): whatever call gives a descriptor a new PID, the  *)
(* descriptor is one of the device of the unit's source at that moment.    *)
FilterOnCurrentSource ==
  [][\A d \in Demuxes :
       backend = "spark" /\ ctl[d] = "idle" /\ fd'[d] # NoFd
         /\ ~(files'[fd'[d]].pids \subseteq
                (IF fd[d] = NoFd THEN {} ELSE files[fd[d]].pids))
       => files'[fd'[d]].dev = source[Num[d]]]_vars

(* libtriple: the drivers do one transport stream at a time, and the list  *)
(* of PIDs is what is recorded: every entry is an open descriptor of its   *)
(* own with that PID on the device of the object, and no PID is listed     *)
(* twice if the driver took the video PID, the first.                      *)
OneTransportStream ==
  LET streams == {d \in Demuxes : /\ type[d] = "tp" /\ fd[d] # NoFd
                                  /\ ctl[d] = "idle" /\ ~measure[d]}
  IN  backend = "triple" => Cardinality(streams) <= MaxTs /\ Cardinality(streams) <= tpCount

ListIsRecorded ==
  \A d \in Demuxes : backend = "triple" /\ ctl[d] = "idle" =>
    /\ listed[d] # << >> /\ listed[d][1].pid = VideoPid =>
         Cardinality(PidsOf(listed[d])) = Len(listed[d])
    /\ \A i \in DOMAIN listed[d] :
         files[listed[d][i].fd].open
           /\ files[listed[d][i].fd].pids = {listed[d][i].pid}
           /\ files[listed[d][i].fd].dev = files[fd[d]].dev

(* No open, close, failed open or change of source leaves a descriptor, a  *)
(* transport stream or an entry of the list that is not accounted for.     *)
StreamsAccounted == DescriptorsOwned /\ OneTransportStream /\ ListIsRecorded

(* libtriple: when the video PID is the first of the list, ChangePids      *)
(* leaves the video PID and exactly the audio PIDs wanted, if the driver   *)
(* takes the new ones and there are descriptors for them.                  *)
ChangeIsExact ==
  [][\A d \in Demuxes, wanted, refused \in SUBSET Apids :
       /\ backend = "triple"
       /\ listed[d] # << >> /\ listed[d][1].pid = VideoPid
       /\ wanted \cap refused \subseteq PidsOf(listed[d])
       /\ Cardinality(wanted \ PidsOf(listed[d])) <= Cardinality(FreeFds(files))
       /\ ChangePids(d, wanted, refused)
       => PidsOf(listed'[d]) = {VideoPid} \cup wanted]_vars

(* A filter is set where it was asked for, and none is lost or left.       *)
FiltersAreRight == FilterOnCurrentSource /\ ChangeIsExact

(* The destructor comes to its end: the Close it begins with makes Read    *)
(* give up its mutex, whether its poll ends before or after.  Not so when  *)
(* Read is between its poll and its read, or its descriptor is opened anew *)
(* under the same number while it polls: then a Close, Start, Stop or      *)
(* filter takes away the data that it saw, and a read of a section blocks. *)
DestructorEnds ==
  \A d \in Demuxes :
    ctl[d] \in {"deleting", "waiting"} ~> (ctl[d] = "deleted" \/ reader[d] = "stuck")
=============================================================================
