# A TLA+ model of libstb-hal

libstb-hal gives one C++ interface (`include/*_hal.h`) to the demultiplexers,
decoders, playback and recording of several set-top boxes and of a PC. This
directory holds TLA+ models of the parts of it that carry state and
concurrency, TLC configurations that check them on small instances, and proofs,
checked by TLAPS, of what holds for every value of the constants.

All line numbers refer to the sources in `src/`.

## 1. Inventory

### Parts of the system

| part | code | state | operations | model |
|---|---|---|---|---|
| Recorder, spark | `libspark/record.cpp` | `exit_flag`, `state`, the buffer with `buf_pos` and `queued`, one aio control block | Open, Start, Stop, ChangePids, the record thread | `Recorder`, ChangePids in `Demux` |
| Recorder, Tripledragon | `libtriple/record_td.cpp` | one buffer, synchronous writes | Start, Stop, ChangePids, the thread | `TripleRecorder`, ChangePids in `Demux` |
| Player engine | `libeplayer3/player.cpp` | `isPlaying`, `isPaused`, `isForwarding`, `isBackWard`, `isSlowMotion`, `abortRequested`, `hasThreadStarted` | Open, Play, Pause, Continue, Stop, trick modes, Seek, track calls, Close, the play thread | `EPlayer`; seeks and tracks in `Tracks` |
| Input | `libeplayer3/input.cpp` | `hasPlayThreadStarted`, `abortPlayback`, `avfc`, tracks, seek request | Init, Play, Stop, Seek, UpdateTracks, Switch... | `EPlayer` (Init, Play, Stop), `Tracks` (the play loop) |
| Output | `libeplayer3/output.cpp` | two device descriptors, what the decoders do, the streams of the writers | Open, Close, Play, Stop, Pause, Continue, Mute, Switch..., Write | `EPlayer` (devices), `Tracks` (streams), `Writers` (Write) |
| Track manager | `libeplayer3/manager.cpp` | tracks, programs | add, find, clear | `Tracks` |
| Writers | `libeplayer3/writer/` | header flags, resampler, break buffer | Init, Write; PES and codec headers | `Writers` |
| cPlayback over libeplayer3 | `libspark/playback_libeplayer3.cpp` | `playing`, `speed`, `init_jump` | Open, Start, Stop, SetSpeed, SetPosition, GetPosition | `CPlayback`; its Start and Stop are also the user of `EPlayer` |
| Playback, Tripledragon | `libtriple/playback_td.cpp` | `playstate`, `playback_speed`, `thread_started`, `inbuf`, `inbufpos_mutex`, `pesbuf`, positions and time stamps | Open, Start, SetSpeed, SetPosition, GetPosition, SetAPid, Close, the play thread | `TriplePlayback`, `TripleFile`, `Remux` |
| Playback, azbox | `azbox/playback.cpp` | pipes to an external player | commands with a five second timeout | `Rmfp` |
| Demux | `*/dmx.cpp`, `libtriple/dmx_td.cpp` | descriptor, source, filters, count of transport streams | Open, Close, Start, Stop, Read, filters | `Demux` (descriptors, sources, PIDs), `Sections` (section filters and Read) |
| Video, spark and azbox | `libspark/video.cpp`, `azbox/video.cpp` | descriptor, play state, still picture, standby | Start, Stop, ShowPicture, setBlank, Standby, SetVideoSystem | `DvbVideo`; libspark's with the player in `CPlayback` |
| Video, Tripledragon | `libtriple/video_td.cpp` | still picture and its mutex, size, mode, scaler, SCART, standby | the same, aspect and PIG, the watchdog | `Television` |
| Audio | `libspark/audio.cpp`, `azbox/audio.cpp`, `libtriple/audio_td.cpp` | volume, mute, stream type, clip and mixer | setVolume, SetMute, Start, PrepareClipPlay, StopClip | `Sound`, and `CPlayback` (the descriptor) |
| Decoders of generic-pc | `generic-pc/video.cpp`, `audio.cpp` | a ring of decoded frames, flags of the threads | Start, Stop, ShowPicture, getDecBuf, the threads | `PcDecoder` |
| Decoders of raspi | `raspi/avdec.cpp`, `codec.c`, `avcodec_omx.c` | two objects with reader threads, two queues, `is_running`, `omx_active` and its mutex | start, stop, format, volume, aspect, two readers, two codec threads | `OmxCodec` |
| OMX components of raspi | `raspi/omx_utils.c` | commands, buffers, port settings | setup, teardown, buffers, callbacks | `OmxPipeline` |
| Input devices | `libspark/lirmp_input.cpp`, `libtriple/lt_dfbinput.cpp`, `raspi/init.cpp` | a flag, a thread, the key that is down | start, stop, forward keys | `RemoteInput` |
| Graphics, initialisation, capabilities, proc files, CA stub, tools | `*/glfb.cpp`, `*/init*.cpp`, `*/hardware_caps.c`, `common/`, `tools/` | hardly any | single calls | the renderer of generic-pc in `PcDecoder`, the rest not modelled |

`PROJECT.json` lists every part with its files and the reason where nothing is
modelled.

### How the parts interact

* *Objects and threads share plain members.* There is hardly any locking:
  `Player` and `Input` poll each other's booleans, `PBPrivate` (Tripledragon)
  shares `playstate` and `playback_speed` with its thread, the recorders share
  `exit_flag`, the video and audio objects of all ports are called by the user
  interface, the zapper and the players at once. A mutex protects single
  resources (`avfc`, `inbuf`, the still picture).
* *Threads announce themselves.* The flag that says a thread exists is set by
  the thread (`player.cpp:61`, `playback_td.cpp:397`, `generic-pc/audio.cpp:389`,
  `raspi/init.cpp`), not by its creator; every Stop that reads it depends on it.
* *Three parties in a recording*: the caller, the record thread and the C
  library's thread that carries out `aio_write`. The last two use one buffer.
  The Tripledragon's recorder has two.
* *Demux and decoders are lent to playback* and must be given back to live
  television: the play thread's cleanup handler does it on the Tripledragon.
* *Requests are left in variables*: a seek, a stop, a speed, a track is written
  by one thread, read and cleared by another; a second request between the two
  is lost.
* *Queues* carry stop, new channel, messages and packets from the callers and
  readers of raspi to its codec threads; messages and packets enter at opposite
  ends.
* *Failure* comes from devices that cannot be opened, reads and writes that
  fail, are short or say EAGAIN, threads that cannot be created, drivers that
  do not answer, and files that end. Nothing is persistent, there is no crash
  recovery to model.

### What makes the parts correct

* Recorders: the file is the stream, in order, without repetition; nothing that
  was received is lost unless an error is reported; the buffer outlives the
  write in progress; Stop returns.
* Player engine: one reader per file; the format context is never used or
  closed twice; a thread ends only its own file; flags and devices agree; Stop
  returns; the end of the file is seen.
* Tracks and writers: the decoder is set up for the track whose packets it
  gets; a seek is carried out; what is written is the packets, whole and in
  order, headers first.
* Playback on the Tripledragon: the buffer and the file outlive the thread, a
  seek never mixes data of two places, the devices come back, calls return. The
  stream goes on unbroken over the boundaries of files, packets and seeks, and
  position and duration are those of the stream.
* Decoders of raspi: nothing is fed to a pipeline that is torn down or set up
  for another format; nothing of an earlier start is decoded in a later one;
  stopping returns; a restart is not held up for ever. A command that is waited
  for has been carried out when the wait ends.
* Demux: the count of transport streams is that of the open ones, filters work
  on the source that was set, a change of PIDs leaves exactly the new ones, a
  Read brings a section that was asked for and ends where that is promised.
* Video and audio: the screen shows the still picture as long as it is set and
  nothing in standby; size and mode are the stream's; volume and mute are those
  last asked for, on whatever device plays.
* Playback, azbox: an answer belongs to its command; calls return.
* Playback, spark: the devices of live television come back; the speed that was
  asked for is the speed.
* Decoders of generic-pc: frames are shown in order; Stop ends the thread.
* Input devices: keys go down and up as on the remote control.

## 2. The modules

Several modules that share no state are checked by one run: an `MC` module
EXTENDS one of them and instantiates the others, and a behaviour is one *view*
of them, chosen in the initial state, while the others stand still. Interleaving
their steps would add states and no behaviours. `MCRecorder` has five views,
`MCPlayer`, `MCRmfp` and `MCTriple` three, `MCOmx` and `MCTripleFile` two.

Where the code does something that the reader would call wrong, and no comment
or test says otherwise, the model does it too. A ghost variable is set where it
happens (`stray`, `stopLost`, `rash`, `untold`, `mixed`, `crossed`, ...), and the
properties say what holds in all other executions, or what holds in spite of it.

### StreamCopy

What a recording promises: `stored`, a growing count of units, follows
`received`, and a recording that ends well has stored all of it.

### Recorder (`libspark/record.cpp`)

Three processes interleave: the caller (`Open`, `Start`, `StopRequest`,
`StopFinish`: the two halves of Stop around `pthread_join`), the record thread
(`Begin`, `LoopTest`, `ReadData`, `ReadError`, `BufferFull`, `AioBusy`,
`AioFailed`, `AioNext`, and behind the loop `RunOutFailed`, `RunOutDone`,
`RunOutWrite`), and the library's writer (`AioTransfer`, `AioComplete`,
`AioError`). `pc` is the place in `RecordThread`.

A unit of the model is a block of the stream, named by its position, so the
contents of `buf` and `file` show every lost, repeated or reordered block. The
memmove and the next `aio_write` are one step, as nobody else touches the
buffer between them; `AioTransfer` takes one unit at a time, so that a memmove
that ran over a write in progress would be seen. A refused `aio_write` and a
short write are choices of the environment (`SubmitFails`, `ShortWrites`). The
ghost `cut` remembers that one of them happened, `lost` that the demux dropped
data. The demux delivers at most what fits; its 50 ms poll may deliver nothing.

* `NothingLost`: the blocks are in the file in order (`FileInOrder`), all
  accounted for (`BlocksAccounted`), and a drop is reported (`OverflowReported`).
* `WriteOwnsBuffer`: buffer and file outlive the write in progress, and the cells
  still to be transferred do not change.
* `StopReturns`, and the refinement `CopySpec`.

`RunOutWritesAll` states the comment at line 333 ("write out the unwritten
buffer content"). The code does not keep it, see section 5.

`Copy` maps the recorder to `StreamCopy`: the phase is "recording" until the
thread has left its run-out loop, and then "ended" if everything is in the file,
"failed" if not. The recorder has no variable that tells the two apart (file
errors never reach `GetStatus`), so the mapping decides by the file itself;
what the refinement says is that the file grows only in the recording phase,
unit by unit and never beyond what was received, whatever Stop, the write in
progress and the errors do.

### TripleRecorder (`libtriple/record_td.cpp`)

The same promise kept by simpler means: the thread reads, writes what is more
than half of the buffer, and moves the rest to the front. `Unbroken` says that
file and buffer together are the stream, through short and failed writes, and
that a thread that has ended has everything in the file unless its last write
failed: what libspark's run-out loop does not achieve. A write that failed in
the loop ends it, and the run-out loop tries again. The branch for a full
buffer can never be taken, as one unit less than the room is asked for.
`GetStatus` of this port is a dummy and is left out.

### EPlayer (`libeplayer3/player.cpp`, `input.cpp`, `output.cpp`)

The user calls Player as `cPlayback` does (Open; Output::Open and Play; controls;
Stop, Output::Close, Close), and up to `|Threads|` play threads run
`Player::playthread` and `Input::Play`. A step is a stretch between two
accesses to shared members: a control tests its flags in one step (`AskControl`)
and acts in another (`Pause`, `Continue`, ...); `Player::Stop` is five steps
(`StopTest`, `StopFlags`, `StopInput`, `StopAvfc`, `StopWait`), taken by the user
and by a play thread that comes to its end. `avfc` carries the number of the
Open that allocated it. `RequestAbort` may come from any thread at any time.

The flag `stray` marks the executions in which the user has met a thread that
Player cannot know of. The thread sets `hasThreadStarted` itself
(`player.cpp:61`) and takes it back one line before it calls Stop
(`player.cpp:63-64`), and two Stops may both pass the test at 208. In these
windows a Stop does not wait, a Play creates a second thread, and an old
thread's Stop can end the next file. The model includes all these executions;
the properties say what holds while `stray` is FALSE. Without that condition
TLC shows `ServedByItsThread` violated.

* `ServedByItsThread`: who plays has the thread of the file now open, there is
  one reader, the Stop that a thread calls at its end stops no other file, a
  closed player is quiet, and the context is not used or closed after its end.
* `PictureFollowsPause`: the picture stands still exactly while `isPaused`.
* `EndIsSeen` (in the run's `RequestsAreServed`): a thread whose file has ended
  takes its flags back, so that `GetPosition` of the layer above sees the end; and
  a Stop that waits for it returns.

### Tracks (`libeplayer3/manager.cpp`, `input.cpp`, `output.cpp`)

One user and the play loop of the open file, whose thread is taken to be as
`EPlayer` shows it outside of `stray`. The tables of the Manager, the tracks the
loop takes packets of, the streams Output's writers are set up for, and the seek
request. A pointer to a track or stream is its PID with the number of its file,
so that one that outlives its file is seen.

* `NothingStale`: the loop never looks at a track of an earlier file, its filter
  is closed under it only by `UpdateTracks` (`relisted`), and the user's calls
  find the context, unless the file ends meanwhile or has ended (`late`).
* `OutputFollowsTrack`: the decoders are set up for the tracks whose packets they
  get. Excepted is `untold`: the loop's switch back while the user switches, and
  a first track that UpdateTracks takes without telling Output. A SetAPid makes
  good the latter for audio, but tells Output nothing of a late video stream: that
  was found when the invariant would not go through the prover.
* `SeekIsServed`: a seek is carried out before the second packet from then on.
  A request that comes between the loop's reading and clearing of it is lost;
  one left over at the end of a file is carried out in the next.

Left out: the mute of reverse play that `SwitchAudio`'s AUDIO_PLAY undoes,
teletext and subtitle tracks (their play is compiled out), metadata.

### Writers (`libeplayer3/writer/`)

How the packets of one stream become PES packets, for each writer: bytes are
counted, headers are records. Each `writev` may fail.

* `StreamIsWritten`: the pieces of a packet come in order, without a gap, to the
  last byte; the first has the time stamp; PCM is the decoded samples without a
  gap, all but what waits in the break buffer, also over a flush and a change of
  the stream. The stream's header comes first, and lengths are true.

Named exceptions: a PCM frame that with the break buffer is smaller than a sub
frame is copied over it (`torn`); DIVX, VC1 and H264 with start codes clear
`initialHeader` before the write, so that a failed one loses the header
(`headless`), while WMV and H264 with lengths clear it behind; DIVX, VC1 and H264
with lengths put bytes in front that the length of the PES packet does not count.
The length of an "unbounded" packet is 3, 8 or 13 rather than 0 (`pes.cpp:56`).
Left out: the contents of codec headers, the ADTS length, packets that mix start
codes and lengths, a resampler that cannot be allocated.

### TriplePlayback (`libtriple/playback_td.cpp`)

One caller and one play thread. `SetSpeed` is three steps (entry; devices and
`playstate`; `playback_speed`), since the thread reads both variables without a
lock; `SetPosition` is a call of it, the wait at 705, the tries of
`seek_to_pts`, the resume. The thread's loop is one action per access
(`LoopTest`, `InitRead`, `SpeedTest`, `Pause`, `PlayRead`, `SelectAPid`, `Write`,
`WriteRetry`, `WriteFails`), then `Cleanup`.

What `inbuf` holds is abstracted to `data`, the set of places of the file that
its bytes were read from; every seek begins a new place. `running` is the set of
demuxes and decoders that are started. `inbufpos_mutex` is "free", held by the
thread during retries and at the end of a fast-forwarded file (`Spinning`), or
"leaked" by a thread that left its loop with it. `GetPosition`, also the one a
relative `SetPosition` begins with, waits for `currpos_mutex`
(`GetPositionGoesOn`), which the thread has for a whole read.

* `ReleasedInOrder`: the buffer outlives the thread (`BufferLives`), and after
  Close live television has its devices (`ClosedIsQuiet`).
* `OnePlace`: the buffer never holds bytes from both sides of a seek.
* `CallsReturn`.

Five things the code does are shown in the state and named in the properties,
because what follows from them is the code's behaviour and not the model's:

* `stopLost`: the thread's `playstate = STATE_PAUSE` (451) overwrites a STOP it
  has not seen; it never ends and the join (220) does not return.
* "leaked": an error of `write`, or EAGAIN with a stop (487-490), leaves the
  loop with the static `inbufpos_mutex` locked; the next playback's thread and
  a seek wait for it for ever.
* `Spinning`: above speed 1, `read_ts` that has read a part of what it wants and
  is at the end of the file tries again for ever (1036-1058), with both mutexes.
  The join of Close, GetPosition and a seek wait until the file grows.
* `rash`: a seek began while the thread was in a read or write (see section 5).
* `unserved`: the caller started devices when no thread was left whose cleanup
  handler would stop them.

Also: `Start` waits on a condition variable that a thread which cannot open the
DVR never signals (399-404), and `SetPosition` spins if the thread ended by
itself with `playstate` PLAY. `CallsReturn` excludes them by name, and makes no
claim of an execution that is `Spinning` from some time on.

### TripleFile (`libtriple/playback_td.cpp`)

The data side of the Tripledragon's playback: which byte of the recording is
read next. A byte is its number. `mf_open`, `mf_close`, `mf_lseek`, `read_ts` (normal
and fast), `read_mpeg` as a read, `sync_ts`, `mp_seekSync`, `seek_to_pts`'s search
and the functions of time are operators and actions; time stamps wrap at `Wrap`.

* `StreamUnbroken`: what is written is the recording's bytes in order, from a
  packet's first byte on, but for the gaps fast play makes.
* `TimeIsTrue`: position and duration are those of the packet last seen.
* `EndIsReached`: a thread that reads comes to the end of the recording, except
  in `Spinning`: fast play at the end of the file (1041-1058) goes round for ever
  with its mutexes held.

Seen on the way and kept in the model: a seek beyond the end moves the
descriptor and not `curr_pos` (`drift`; the header comment at 1448-1451 says
otherwise), `sync_ts` reports the length of the last read, a last file of size 0
is never opened, and `pts_curr` slightly before `pts_start` gives a position of
26.5 hours. `sync_ts` tests one byte more than it was given when `count + 188` is
`len`; here that byte is the recording's next one, in the code it is what the
buffer holds there. What fast play's hang does to the callers is in `TriplePlayback`.

### Remux (`libtriple/playback_td.cpp`)

`read_mpeg` for a program stream: `pesbuf` is searched for start codes, packets of
audio and video are cut into transport packets for `inbuf`. A recording is a
sequence of items with their lengths; `pesbuf` is a sequence of intervals of it.

* `PacketsArrive`: every packet is cut once and in order; reading goes on as long
  as there is something to read; at the end every packet has been cut.

Named exceptions: a seek empties `inbuf` and not `pesbuf`, so that old packets come
first and one may be glued of two places (`seam`); 80 kB without a start code are
never dropped, though the log says so, and reading stops; a packet that ends with
the file is never cut. Left out: what is inside a transport packet, MPEG 1's pack
header, `STATE_INIT`'s reads.

### OmxCodec (`raspi/avdec.cpp`, `codec.c`, `avcodec_omx.c`)

Five actors: one caller (`SetFormat`, `StartDec`, `Message`, and a destructor in
its three lines `StopDec`, `StopFlag`, `StopJoin`), the reader threads
`aDec::run` and `vDec::run` (`ReaderFormat` to `ReaderAdd`), and the codec
threads (`AudioLock`, `AudioTake`, `AudioAct`; `VideoLock` to `VideoStop`).
`thread` and `reader` are their places in the code. `queue[c]` is the list from
`queue_head` to `queue_tail`: packets are put in at the head, messages at the
tail, and items are taken from the tail. The ghost `pipe` is the format the OMX
pipeline was set up for; `coding` is the video thread's own idea of it, read
from `vcodectype` a second time (`VideoPipeline`, `VideoSetup`). `renderer` is the
component that messages for the picture go to, null before the first setup and
freed by a teardown. A step between
two accesses to shared data that only one thread makes is joined to its
neighbour: opening the demux again and the test of `dec_running` before it, or
decoding a frame.

* `NoDeadFeed`: nothing is fed to a pipeline that is not there or set up for
  another coding, and no packet of an earlier start is decoded. The messages for
  the picture keep to no such rule: aspect and PIG (avcodec_omx.c:242-268) go to
  `renderer` also when there is none, a null pointer (the program crashes) or a
  freed component (it may crash, end, or go on). `Crashed` is that end of the
  program; the property says that it comes only where the video thread itself
  knows of no pipeline.
* `CallsGoOn`: stops return and the next channel begins. `stopLost` marks that the
  reader has set `dec_running` (avdec.cpp:354, 541) after the destructor cleared
  it (147, 162): the reader goes on, and the join need not return. `AudioWaits`
  is the audio thread that holds `omx_active_mutex` in its wait for an item (79):
  as long as no audio comes, the video thread cannot tear its pipeline down.
  Both are excepted by name, and so is a program that has `Crashed`.

Assumed: the caller's calls do not overlap, the format is set before the first
start, and messages carry no data (see the hazards: `codec_stop0` frees a
message's data as if it were a packet's). Left out: `codec_pause`, `codec_resume`
and `codec_flush_queue`, which nothing calls, time stamps, and memory that
cannot be allocated.

### OmxPipeline (`raspi/omx_utils.c`, `avcodec_omx.c`)

What `OmxCodec` has as one step, "set up the pipe" or "tear it down", is here the
sequence of commands the video thread sends to five components and waits for
(`script`, taken from `omx_setup_pipeline`, `omx_teardown_pipeline` and the part
of `vcodec_omx_thread` that connects the tunnels after a port-settings change).
Components complete commands in their own threads: in any order, but those of
one port as they were sent. `get` follows `get_next_buffer` and
`omx_empty_buffer_done` over the full and empty input buffers.

Shown by the model and named in `CommandsAreDone` and `PipelineGoesOn`:

* `WakeUpMissed`: `get_next_buffer` finds all buffers full (440), the callback
  returns one and signals, and then 451 clears `buf_notempty` and waits.
* `HalfConnected`: a teardown between the two port-settings changes leaves port
  10 enabled when its tunnel is shut down, contrary to the comment at 1059.
* "exited": the program ends if port 130 is still enabled at the next setup.

The component that reports an error gives up the command awaited of it; an
unrelated error event, which the code also takes for a completion, is left out.
The decoder is assumed to go on emptying buffers and to return all of them
before it is idle. The camera's pipeline, which nothing calls, and `image_fx`,
which `do_deinterlace` (always 0) leaves out, are not modelled.

### Demux (`*/dmx.cpp`, `libtriple/dmx_td.cpp`, ChangePids of the recorders)

One module for five ports: `backend` is chosen at Init, and guards name the ports
in which a line exists. Descriptors are small numbers that the kernel hands out
again after a close, so that a read through a number that meanwhile belongs to
another object is seen. `source` with `last` is the reopening of libspark's
demux (`dmx.cpp:168`), `tpCount` libtriple's limit of one transport stream.

* `StreamsAccounted`: `tpCount` is the number of open streams.
* `FiltersAreRight`: what is filtered comes from the source that is set, and
  reopening does not put another file behind a number that is being read
  (`FilterOnCurrentSource`); after ChangePids the demux filters the PIDs asked
  for (`ChangeIsExact`), if there are descriptors for those to be added: the
  result of addPid is not looked at. The comment "the first PID is the video pid"
  (`record.cpp:194`) holds on libtriple only; elsewhere `pesFilter` does not list
  its PID, so the walk from the second entry never finds the first audio PID
  among those that stay.
* `DestructorEnds`, except where a reader is "stuck" in a read of a descriptor
  that gets no more data. `emptied` marks that the data its poll saw may be gone:
  a Close, a Start, a Stop or a filter (`StartOrStop`) came between poll and read,
  or the descriptor was opened anew meanwhile. pc, raspi and triple also
  read without a poll when they are given no timeout (`MayBlock`).

### Sections (`*/dmx.cpp`, `libtriple/dmx_td.cpp`)

What `sectionFilter` asks the driver for, and how a Read of sections ends, in the
five ports. A filter is the table id and some bytes behind the length; the driver
is external and may lose the signal.

* `SectionsAreWanted`: a Read brings a section that the last filter asked for, in
  the caller's terms; it fails for want of sections only where a limit was asked
  for or the table has one; and it does not wait for ever in `read` on libspark
  and azbox. There the poll ends after 60 seconds; the other ports rest on the
  driver's timer, which is over with the first section. Excepted is a filter
  that was changed between poll and read.

libtriple gives a table's default timeout also to a filter with a negmask,
contrary to the comment in the other ports (`libspark/dmx.cpp:444-447`): the
property names it. Left out: the bandwidth measurement (`dmx_td.cpp:274-315`),
negative timeouts, POLLERR and POLLHUP.

### Rmfp (`azbox/playback.cpp`)

`rmfp_command` in its steps, called by "main" and by "poll", which asks for the
position; the thread `run_rmfp`; the player as an external process that takes
commands from one file, parameters from a second and answers into a third.
Commands and answers carry their age: of this call or of an earlier one.

* `AnswerIsOwn`: an answer that is read belongs to the command of the caller, if
  the player owed nothing when the call began.
* `CallsReturn` (in `CallsTakeEffect`): except `StartMissed` (332: thread not
  created, or a player that ends between two looks at `playing`) and
  `QuitOverwritten` (GetPosition's 222 over Close's QUIT: the join waits).

A command that is not answered may be overwritten, and mixed with another's
parameter, in spite of the comment at 106. `FindAllPids` ignores a timed-out reply
and reads an uninitialised buffer: its count is any number up to `MaxCount`.

### CPlayback (`libspark/playback_libeplayer3.cpp`, `video.cpp`, `audio.cpp`)

The layer above the player and the decoders whose devices it borrows. Each of
two threads has a script, the steps still to do of the call it is in; "movie"
drives cPlayback, "gui" shows pictures, sets standby and video modes.

* `DevicesHandedOver`: when a file is closed live television has its devices
  again; the exceptions are a descriptor lost by two openDevice calls at once
  (`video.cpp:193`, `vheld` "lost"), and a gui that opened the decoder during the
  film.
* `SpeedTakesEffect` (in `CallsTakeEffect`): SetSpeed gives the direction asked
  for and makes the jump that SetPosition remembered.

Followed faithfully and not claimed to be right: `eof` survives Close and Open,
so that SetPosition of the next file restarts it; at the end of a file from
PLAYMODE_FILE, Close reopens the live decoders and Start's Output::Open, whose
result is ignored, fails; SetSpeed(0) in reverse is ignored; `init_jump` loses
`absolute`.

### DvbVideo (`libspark/video.cpp`, `azbox/video.cpp`)

The decoder's device, which one descriptor at a time may have, between the GUI,
the zapper and the movie player. `VideoFollows` is, at rest:

* `DeviceOwned`: `fd` says who has the device, unless the loser of two opens (the
  comment calls the test racy) has overwritten it with its EBUSY (`disowned`);
* `StateKnown`, `PictureShown`: `playstate` and the still picture are what the
  decoder does, through closes, opens, starts and stops (`crossed`: a Start of
  one thread within another's ShowPicture);
* `OutputFollows`: the output is off in standby and on outside of it, except
  `relit`, a SetVideoSystem that switches HDMI on again.

azbox's static `stillpicture` (65) is shadowed by a member that nothing
initialises; its Start does not clear it, and setBlank or Stop(true) may blank a
picture just shown, contrary to the comment at `azbox/video.cpp:434-437`. The
picture's part of the property is therefore about libspark only. Aspect, PIG and
the sizes are left out.

### Television (`libtriple/video_td.cpp`)

GUI, zapper and the input thread with `VideoParamWatchdog` on the Tripledragon;
only the still picture has a mutex. `ScreenFollows` is

* `PictureStays`: a still picture stays while others stop, blank and go into
  standby, except `overrun`: Stop gives the mutex back before it stops, and Start
  never asks;
* `DisplayFollows`: size, mode and scaler are those of the shape seen last,
  except where two calls overlapped (`mixed`), and a shape that changed and
  changed back between two looks of the watchdog ("glimpse");
* `OutputFollows`: standby turns SCART and DACs off and on again; a SetVideoMode
  in standby re-enables them (`relit`), and the watchdog may set pin 8 while
  `video_standby` is not yet set.

Left out: boxes without SCART, devices that cannot be opened, `SetSyncMode`.

### Sound (`libtriple/audio_td.cpp`, `libspark/audio.cpp`, `azbox/audio.cpp`)

Volume and mute between the decoder and a clip's mixer, two threads, no lock.
`SoundFollows`: at rest, volume and mute are what was asked for last, on whatever
plays. Excepted are calls that overlapped (`mixed`: StopClip, SetMute and Start
set the volume they read before), a mixer that is being probed, a volume of
before any call, and `adrift`: libspark's closeDevice drops clip and mixer without
telling the decoder. SetMute on libspark and azbox leaves a clip's mixer alone;
the property claims it for libtriple only. Left out: bypass, Stop, the data of
clips, and libspark's getVolume, which returns members that are never set.

### RemoteInput (`libspark/lirmp_input.cpp`, `libtriple/lt_dfbinput.cpp`, `raspi/init.cpp`)

The input thread of three ports and the calls that start and stop it; the kernel's
view of the keys and IRMP's idea of a repetition are external. `InputFollows` is

* `OneKeyAtATime`: libspark makes up the releases a remote control does not send;
  one key at a time is down, until two waits of 100 ms have passed without an
  edge after the last frame;
* `EventsArrive`: libtriple loses no press and no release. raspi loses them all
  when its FIFO could not be opened (`fifo`; init.cpp:117-119 goes on without it)
  and those of a device that vanished (`gone`); no other;
* `NobodyWaits`: start and stop do not wait for what cannot come, but
  `stillborn` (the thread gives up without setting `thread_running`),
  `overtaken` (raspi's destructor before the thread sets `running`), and a raspi
  thread that is "astray".

When a device of raspi vanishes, the loop erases the element it stands on and
steps on from it (init.cpp:174, 165), which is undefined: `Vanish` goes on to the
next device, to the test, or astray, where the thread never comes back or the
program has ended. A foreign remote control's frames and edges that IRMP does not
decode keep a key down, and a second press before the release is no second press
for the kernel: modelled, and not excluded by the property. A full FIFO and
raspi's second shutdown are left out.

### PcDecoder (`generic-pc/video.cpp`, `audio.cpp`, `glfb.cpp`)

VDec or ADec with its thread; for video the ring of `MaxBufs` frames, the still
picture and the renderer. `raced` marks that one of the three unlocked resets of
the ring (297-299, 540-542, 694-696) came between another thread's reads and
writes of the indices: `buf_num` may then be negative and old frames come again.

* `FramesInOrder`: frames are shown in the order in which they were made, and a
  slot is not written while it is uploaded, before the ring has gone round once.
* `StopEnds`: a Stop ends the thread, except `missed`, a Stop before the thread
  has set its flag (558, audio 389), which does not join it.

## 3. Runs

| run | module, configuration | distinct states | what it shows |
|---|---|---|---|
| `recorder` | `MCRecorder` | 1.38 million | `NothingLost`, `WriteOwnsBuffer`, `StopReturns`, refinement of `StreamCopy` (`CopySpec`); `Unbroken` (`TripleRecorder`); `DecodersFollow` (`Sound`, `DvbVideo`); `SectionsAreWanted` (`Sections`) |
| `recorder_runout` | `MCRecorder`, `MCRecorderRunOut.cfg` | | `RunOutWritesAll` violated |
| `eplayer` | `MCPlayer` | 957 thousand | `ServedByItsThread`, `PictureFollowsPause` (`EPlayer`), `TracksFollow` (`Tracks`), `StreamIsWritten` (`Writers`), `RequestsAreServed` |
| `eplayer_sound` | `MCEPlayer`, `MCEPlayerSound.cfg` | | `SoundReturns` violated |
| `triple_playback` | `MCTriple` | 2.18 million | `ReleasedInOrder`, `OnePlace`, `CallsReturn` (`TriplePlayback`), `ScreenFollows` (`Television`) |
| `triple_seek` | `MCTriplePlayback`, `MCTripleSeek.cfg` | | `SeekWhilePaused` violated |
| `triple_file` | `MCTripleFile` | 203 thousand | `StreamArrives` (`TripleFile`, `Remux`), `TimeIsTrue`, `EndIsReached` |
| `omx_codec` | `MCOmx` | 447 thousand | `NoDeadFeed`, `CallsGoOn` (`OmxCodec`); `CommandsAreDone`, `PipelineGoesOn` (`OmxPipeline`) |
| `omx_messages` | `MCOmxCodec`, `MCOmxMessages.cfg` | | `MessagesInOrder` violated |
| `demux` | `MCDemux` | 392 thousand | `StreamsAccounted`, `FiltersAreRight`, `DestructorEnds` |
| `rmfp` | `MCRmfp` | 695 thousand | `AnswerIsOwn` (`Rmfp`), `DevicesHandedOver` (`CPlayback`), `CallsTakeEffect` (both), `InputFollows` (`RemoteInput`) |
| `pc_decoder` | `MCPcDecoder` | 1.0 million | `FramesInOrder`, `StopEnds` |

The properties are stated in words above their definitions. Each passing run
also checks the type invariants of its modules. Every property of a passing run
has a mutant in `PROJECT.json`: a definition of the model changed as a plausible
bug would change it (a join that is not waited for, a memmove left out, a test
that is not made), for which TLC must find the property violated; a property
made of several modules' parts has one for most of them.

### Bounds

* `recorder`, `Recorder`: a buffer of three units, reads of up to two, a stream
  of five. The buffer fills, is emptied partly while a tail grows behind the
  write, and is filled again; with two writes of different length behind each
  other every relation between `queued`, `buf_pos` and the end of the buffer
  occurs. The theorems hold for all sizes.
* `TripleRecorder`: a buffer of six, written from three on in pieces of up to
  three, and a stream of seven, so that it wraps; the theorems hold for all sizes.
* `Sound`: the volumes 53 and 100, whose decoder levels differ, and 300 where
  nobody set one. `DvbVideo` needs no bound.
* `Sections`: tables 2 (checksum, own limit), 112 (neither) and 114 (no checksum),
  filters of one and three bytes, with and without a negmask, no limit and one
  second, one section queued by the driver.
* `eplayer`, `EPlayer`: two files and two threads, so that the second file meets
  the first file's thread; a third thread would need a third creation in the
  window of the first two, which adds no new pair of racing steps.
* `Tracks`: two files, a video and two audio streams, of which one is AAC and
  turns up late, two programs, two filters made for it.
* `Writers`: two streams of two packets of any writer; sizes below, at and above
  a PES packet's 65535; H264 packets with whole and cut units; PCM frames of less
  than a sub frame and of more, two sub frames decoded.
* `triple_playback`: two starts, so that the second thread meets what the first
  left (the mutex, `playstate`, the devices), and two places sought in each
  file, so that a seek can go wrong behind a seek. The safety theorems hold for
  any number of both.
* `Television`: the still picture against the zapper for any number of calls;
  three calls of the GUI against the watchdog and the stream, which is any two
  that overlap with a third before or behind them; two display modes, two output
  formats, two shapes.
* `triple_file`, `TripleFile`: recordings of one file, of two and of three with a
  boundary on a packet, inside one and a file of size 0; packets of two bytes, an
  `inbuf` of two packets, stamps that wrap at 12 while the recording has up to 7
  bytes.
* `Remux`: the true sizes of both buffers; a recording larger than both, with the
  longest packet there is, one with more than 80 kB between two packets, one that
  ends with a packet; the decoder takes everything or 200 packets; seeks to three
  places, one inside a packet.
* `omx_codec`, `OmxCodec`: two starts, so that either decoder is restarted or both
  run, one message, and readers that get a packet only for an empty queue (a
  reader that has one in hand adds it to whatever is queued by then, so a queue
  holds a stop or a new channel with a packet and a message around it). With a
  queue of two, or with three starts and no message, TLC finds no violation of
  the invariants either; those instances take longer than a run should.
* `OmxPipeline`: one input buffer (`Buffers`; full and empty are all that
  `get_next_buffer` tells apart), and the decoder may report one error (`Faulty`).
* `demux`: a recorder's object and one for sections with a reader of its own, two
  sources, a video PID and two audio PIDs, five descriptors (both objects open,
  with a PID each, and one to be reused), two listed PIDs.
* `rmfp`: a command with one parameter that is not answered, one audio stream,
  counts up to two where the buffer is uninitialised; speeds -2, 0, 1 and 2.
* `RemoteInput`: two keys and one of another remote control, two events unread.
* `pc_decoder`: three buffers (the test is `buf_num` against the size less one,
  so both a full and a partly full ring occur), two threads (the second is
  created when the first was missed), three frames.

### Fairness

* `Recorder`: the record thread and the library's writer run (`WF`), a Stop that
  has begun goes on behind the join. No call need be made. The demux read has a
  timeout of 50 ms, so the thread cannot be blocked in it.
* `EPlayer`: a call that has begun goes on; each thread that can run does.
  `av_read_frame` returns: `interrupt_cb` cuts it short once `abortRequested`
  or `abortPlayback` is set. The polling loops have no other condition.
* `TriplePlayback`: the same, except that a DVR that says EAGAIN may do so for
  ever: the retry loop is fair only when the code leaves it, that is after a
  STOP. Nor need a file grow at whose end `read_ts` spins. GetPosition gets
  `currpos_mutex` in the end if it is given back again and again (`SF`).
* `TripleFile`: the play thread goes on; no call need be made.
* `OmxCodec`: a destructor that has begun goes on, every thread runs. A mutex is
  got in the end by a thread that asks for it while it is given back again and
  again (`SF` on `AudioLock` and `VideoStop`): POSIX does not promise it, but
  neither thread works without it. No packet need arrive. Behind a crash nothing
  runs.
* `OmxPipeline`: the video thread goes on, components complete what they can
  complete, the decoder empties what it is given.
* `Demux`: a call that has begun goes on, and so does a reader that has data.
* `Rmfp`: calls, the thread and the player go on, and who waits for
  `rmfp_cmd_mutex` gets it in the end (`SF` on `Begin`).
* `PcDecoder`: the threads, the caller and the renderer go on; a mutex is got in
  the end (`SF`).

The other modules have safety properties only. What they say of waiting
(`ReadEnds`, `NobodyWaits`, `ReadsOn`, `SeekIsServed`) is stated as a state that must
not be reached: somebody waits, and what would end it cannot come any more, or
is overdue.

The deadlock check is off where the system really may stop: a Start whose thread
cannot open the DVR, objects that are deleted, a player that waits for a command
that was overwritten, a pipeline that lost a wake-up or whose program has ended, a
program that has crashed, a decoder after its last frame, a recording that has
been read to its end.

## 4. Proofs

Eight modules hold proofs, each beside the component or the composition it is
about: `RecorderProofs`, `TripleProofs`, `EPlayerProofs`, `TracksProofs`,
`RmfpProofs`, `OmxProofs`, `DemuxProofs` and `PcDecoderProofs`. Each proves, for
every value of the constants, that an invariant which is inductive holds, and
from it the properties. Where a run checks several views, its module proves them
for the composition (`MCSpec`): a step of it is a step of one view or leaves that
view's variables alone (`StepsOfViews`), and the invariant is the conjunction of
the views'. The inductive invariants were first checked by TLC, on the bounds of
the component's run.

The assumptions are those of the modules: bounds are natural numbers, a buffer
has at least one unit (a ring at least two slots) and reads are no larger than
it, the names of threads are not those of other actors, volumes and speeds are
integers (`SoundAssumption`, `SpeedsAssumption`), a filter has as many bytes as its
masks, a section at least as many as the longest filter (`SectionsAssumption`), the
box has the output format that Television begins with (`OutputsAssumption`), an
object has one of three devices and audio PIDs are finitely many
(`DemuxAssumption`), only components report errors (`PipelineAssumption`).

*Recorder.* `TypeOK` and the properties are not inductive. `IInv` adds
`Control` (at each `pc`: which resources exist, whether a write can be in
progress), `Counts` (`aio.done <= aio.nbytes = queued <= buf_pos` while a
recording exists), `Contents` (the cells from `aio.done` to `buf_pos` hold the
last received units, in order) and `Written` (where the file ends in relation to
the cells that are still to be transferred, also after a hole). The key is that
`queued` units leave the front of the buffer only when the write over them has
ended. Proved from it: `NothingLost` with its three parts, `FileIsPrefix`,
`WriteOwnsBuffer`, and the refinement `Spec => CopySpec`.

*TripleRecorder* (in `RecorderProofs`). `TripleInv` is `TypeOK /\ Unbroken`, which
is inductive: buffer and file are the stream at every step, because reads go
behind the buffer's end and what a write took is removed from its front. Proved
from it: `Unbroken`, and the refinement of `StreamCopy`, in which the phase "ended"
is decided by the thread's last write.

*Sound* (in `RecorderProofs`). `SoundFollows` speaks of threads at rest. `SoundInv`
says of a call under way what it has read and not yet written (`SoundAlone`: it is
still so, as long as the call is alone), that of two calls that overlap neither is
alone and everything is `mixed` until they end (`SoundOverlaps`), and of the
volume, the mixer, the decoder and mute each when it is as asked for (`Settles`).

*DvbVideo* (in `RecorderProofs`). A thread's call is a script of steps. Which words
a script has and in which order (`VideoScripts`) is proved once for all scripts
that calls make and is kept by taking the first step off; what a call has seen
(`VideoSeen`: who is about to show a picture has stopped the decoder) and when
the output is off (`VideoOutput`) is said in terms of what the script still holds.
Proved with *Sound*: `DecodersFollow`.

*Sections* (in `RecorderProofs`). `SectInv` says that the driver's filter is the one
made of the last wish (`Made`) and that a queued section is wanted; the lemmas say
what the masks make of a section. Proved: `SectionsAreWanted`.

*TriplePlayback.* `IInv` adds `Owner` (the thread's life against the
caller's: `thread_started` is TRUE whenever a thread is past its first step, and
a file is released only when there is none), `Released` (no thread, no devices),
`Paused` (what the stages of a seek imply about `playstate` and the thread) and
`Clean` (while nothing was rash, the buffer is of one place, and between a
seek and the refilling the thread adds nothing). Proved: `TypeOK`,
`ReleasedInOrder` with its two parts, `OnePlace`.

*Television* (in `TripleProofs`). Three callers and no lock but the picture's.
`TvPicture` adds to `PictureStays` who has the mutex and that nothing is written
while a picture is shown; `TvAlone` says that of two calls that overlap neither is
alone and that both leave the display to the next; `TvDisplay` and `TvPin` say how
far a call that is alone has got with size, mode, scaler and SCART pin, and
`TvOutput` what holds between the halves of Standby. Proved: `ScreenFollows`.

*EPlayer.* What the properties say of the user at rest must be said for every
place where the user and a thread may be. `IInv` is `TypeOK`, `Devices` and, while
nobody is `stray`, `Core`: `Alone` (one thread that is not at its end),
`Announcements` (each flag is TRUE exactly while some thread is in the region it
stands for), `Thread` (at each place of a thread: its session is the open file,
and which places of the user go with it), `Caller` (the same from the user's
side), `Context` (a context that had a thread is there no longer than somebody is
about to close it) and `Picture`. The two ways into `Player::Stop` exclude each
other because the second finds `isPlaying` or `avfc` gone. Proved:
`ServedByItsThread`, `PictureFollowsPause`, `TypeOK`.

*Tracks.* `IInv` is `Shape` (the fields of the loop's locals), `Present` (every
track is of the file now open, a filter in use is its track's unless `relisted`,
and the context is there while the file is open and not aborted), `Following`
(`videoStream = videoTrack`, and `audioStream = audioTrack` but for the middle of
a switch or of a new AAC header, from Start to the end of Stop and not only while
the file plays; an audio packet in work is of `audioTrack`), `Requested` (a request
is the user's or, in `seek_rel`, the loop's own, which the loop sees to before it
reads on) and `Served` (a request that one packet has passed is the one the loop
takes next). Proved: `NothingStale` and `OutputFollowsTrack`, together `TracksFollow`
(given that no stream has PID 0, which UpdateTracks sees to), `SeekIsServed`, and
`TypeOK` (given finitely many PIDs, as the code's lists are finite). The last needs
that a finite set of PIDs has a least and a greatest member, which is proved by a
smallest counterexample.

*Rmfp.* `IInv` is `TypeOK`, `Owed` (the player has something left to answer exactly
while it works) and `Callings`: who is between the first and the last step of a
command has the mutex, and if the player owed nothing when the call began, each
of the three files and the player's work is empty or of this call (`Own`), and
the parameter is written before the command. Proved: `AnswerIsOwn`, `TypeOK`.

*CPlayback* (in `RmfpProofs`). Scripts again, of which it is enough to know which
step comes behind which (`Linked`): behind "player stop" the whole way to
"reacquire", behind "vdec open" the end of it. `SparkClosed` says that the script
of a closed file ends by taking the devices back or giving them away,
`SparkSound` that sound and picture are given to the player together, and
`SparkPicture` that the decoder is open, or lent, or in standby, or about to be
one of them, unless a descriptor was lost. Proved: `DevicesHandedOver`.

*RemoteInput* (in `RmfpProofs`). `RemoteThread` says what `thread_running` and the
thread's place, also astray, imply for one who waits, `RemoteKeys` that what is
down is what IRMP remembers of this thread's time. Proved: `InputFollows` with its
three parts.

*OmxCodec.* `vcodectype` is read twice without a lock, so that the pipeline may be
set up for one coding and the packets be of another. `IInv` is `TypeOK`,
`NoStalePacket`, `AllNumbered` (no queue holds a packet of a start to come, nor
one of the running start before its reader has announced the channel), `Pipeline`
(what `omx_active` and the place of the video thread, also where it crashes, say
about the pipeline) and `Coded`: when the two reads differ, no packet of the
running start is at hand, and in the queue a stop or a new channel is ahead of all
of them (`TornDown`). The lemmas say what taking, adding and sending do to a
queue. Proved: `NoDeadFeed`, `TypeOK`.

*OmxPipeline* (in `OmxProofs`). What a script may hold is proved once, of the pieces
that `omx_setup_pipeline` and the others are put together from: every wait is
behind the sending of its command with nothing but buffers between them
(`Paired`), a teardown enables nothing, and it disables each port that may be
enabled (`EmptyingIsGood`). `PipeInv` says that the script is still such a rest
(`PipeScript`), that a port for which nothing was sent is neither enabled nor about
to be (`PipeShut`), that a command whose wait comes next is with its component or
carried out, and then, if it disables a port, the other end of a clock tunnel is
shut too (`PipeWaits`), and that ahead of a tunnel's end there is such a wait, or
the port is shut (`PipeTunnels`). That nobody waits for the clock's ends is made
good by the wait for the other ends. Proved: `CommandsAreDone`, an action property,
and with *OmxCodec* `TypesOK`.

*Demux.* A call that filters works on an image of the open files and of its
object. `Sound` says what an image may be: the files of the other objects are as
they were, an open file has one owner, the list of libtriple names open
descriptors of the object's own device, one to a PID, and libspark's descriptor is
of the last source. It is proved of each call that it makes of a `Sound` image a
`Sound` image; ChangePids is many calls in one step, and its two walks are
followed to the end by looking at the least step that would break it
(`LeastNumber`). `DInv` says that the image of every object that nobody is closing
is `Sound`, and that on libtriple at most one object carries the transport
stream, which is counted. Proved: `TypeOK`, `StreamsAccounted`, and `FiltersAreRight`
with both parts. The proof of `ChangeIsExact` showed that it needs enough free
descriptors for the PIDs to be added: without them the code's addPid fails, and
record.cpp does not look at its result. The property now says so; on the run's
instance there are always enough.

*PcDecoder.* The indices go round the ring. `Gap(i, j)`, how far slot `i` is behind
slot `j`, replaces the remainder, and four lemmas say how it moves. `IInv` is
`Places`, `Mutexes` (who has a mutex is where the code holds it; a thread that
inserts has seen that there is no still picture), `Agreed` (unless `raced`,
`buf_num` is the gap between the indices, and the holder of `buf_m` has seen them
as they are), `Numbers` (frames made and about to be made stay within the
bound), `Ordered` (the frames in the ring and the one being counted are newer
than what was shown, in order, and pictures while there is one) and `Roomy`
(`up.room` is the number of frames until the slot of the upload comes round). A
step is one of six moves of the ring (`RingMoves`), so that the proofs of `Agreed`,
`Ordered` and `Roomy` have six cases and not twenty. Proved: `FramesInOrder` with
its two parts, `TypeOK`, and of `StopEnds` the part about safety (`OneDecoder`,
from `One`).

### Only model-checked

* Every liveness property (`StopReturns`, `EndIsSeen`, `EndIsReached`, `CallsReturn`,
  `CallsGoOn`, `CallsTakeEffect`, `PipelineGoesOn`, `DestructorEnds`, `StopEnds`):
  fairness and ENABLED are beyond the prover. Of `RequestsAreServed` the safety
  part, `SeekIsServed`, is proved.
* `Writers` (`StreamIsWritten`) and `TripleFile` with `Remux` (`StreamArrives`,
  `TimeIsTrue`): what they say is about sums of lengths over sequences of pieces.
  The sums are folds of the community modules, whose recursion the prover does
  not unfold, and the pieces are computed with `%` and `\div` of variables, for
  which the SMT solver has next to nothing. For the same reason the types of
  `MCPlayer` and `MCTripleFile` as a whole stay with TLC; those of `EPlayer` and
  `Tracks` are proved.
* No module about which something is proved has a RECURSIVE operator. The recursive
  functions in it (the walks of ChangePids, `RemoteInput`'s `Without`) are reasoned
  about by the least step that would break a claim, or, where they are as short as
  a queue of two, step by step.

## 5. Where code and comments disagree

* *The tail of a recording* (`recorder_runout`). The run-out loop ends when
  `queued` is 0. If the write in progress at Stop was an empty one (the buffer
  was empty when it was submitted) and a read has put data into the buffer
  since, that data, up to `bufsize/16` bytes, is not written.
* *Sound after reverse play* (`eplayer_sound`). `FastBackward(0)`, "reverse end",
  clears `isBackWard` without `Mute(false)`; afterwards no call unmutes.
* *Seeking while the thread runs* (`triple_seek`). "we must only seek while in
  pause mode" is tested by `playstate == STATE_PAUSE`, which is also true after
  `SetSpeed(2)` from a pause.
* *Messages in reverse* (`omx_messages`). `codec_send_message` says "End to end of
  queue", and appends at `queue_tail`, the end that items are taken from: of two
  messages sent before the codec thread looks, as while it waits for the
  pipeline, the later is carried out first and the earlier one's volume or
  aspect stays.

Others are named in section 2 where the model follows the code: the timeout of a
filter with a negmask (`Sections`), the port left enabled (`OmxPipeline`), the
picture blanked (`DvbVideo`), the position of a seek beyond the end
(`TripleFile`), "Bytes deleted" that are not (`Remux`).

## 6. What is left

Proofs: the lengths in `Writers`, `TripleFile` and `Remux`, with sums written as
recursive functions, as the walks of `Demux` are, and a theory of them.

### Not modelled

* `libspark/playback.cpp`: in no build of the repository, replaced by
  `playback_libeplayer3.cpp`.
* `libspark/irmp.c`: third-party; `RemoteInput` takes from it when a frame is a
  repetition.
* Drawing and scaling (`glfb.cpp` of raspi, `clutterfb.cpp`, GetScreenImage): pure
  functions of a picture, and calls of GL and Clutter.
* Video and audio of raspi: wrappers that call `avdec.cpp`, which `OmxCodec`
  models from there on. Playback of generic-pc: empty functions.
* The bits of codec headers, tables of capabilities and frontend settings,
  single ioctls without state, proc files, `common/`, the CA stub, the tools.
* Parts of modelled components: what is left out of each is said in section 2
  and in the component's note in `PROJECT.json`.
