------------------------------ MODULE Sections ------------------------------
(***************************************************************************)
(* Section filters of cDemux (libspark/dmx.cpp, libtriple/dmx_td.cpp,      *)
(* azbox/dmx.cpp, generic-pc/dmx.cpp, raspi/dmx.cpp): what sectionFilter   *)
(* asks the driver for, and how a Read of sections ends.                   *)
(*                                                                         *)
(* A caller's filter is a sequence of bytes: the table id, and what comes  *)
(* behind the length, which no filter looks at.  A byte of the mask is 1   *)
(* where the filter's byte counts, one of the negmask is 1 where it must   *)
(* not be met; bits are not told apart.  The driver is external: one that  *)
(* has lost the signal delivers no more sections, and its timer is dead,   *)
(* until a filter is set or started again.                                 *)
(***************************************************************************)
EXTENDS Integers, Sequences

CONSTANTS
  Ports,
  Wishes,         \* what is asked for: [filter, mask, negmask], NULL is <<>>
  Timeouts,       \* of sectionFilter and Read, 0 among them
  Sections        \* what is sent: [bytes, good], its CRC being right

FilterSize == 4        \* DMX_FILTER_SIZE, FILTER_LENGTH - 2
Emergency == 60000

VARIABLES
  port,
  flt,            \* the driver's filter
  go,             \* is it started?
  timer,          \* "off", "on" or "expired"
  queue,          \* the sections not read (bound: one)
  lost,           \* was the signal lost since the start?
  reader,         \* "idle", "polling" or "reading"
  limit,          \* the timeout of this Read
  (* ghosts *)
  wish,           \* the filter asked for last
  patience,       \* the timeout asked for with it
  got,            \* what the last Read has brought
  changed         \* was the filter changed between poll and read?

driver == <<flt, go, timer, queue, lost>>
asked == <<wish, patience>>
reading == <<reader, limit, got, changed>>
vars == <<port, driver, asked, reading>>

Pad(bytes, n) == [i \in 1 .. n |-> IF i \in DOMAIN bytes THEN bytes[i] ELSE 0]
NoFilter == [at |-> "none", length |-> 0, filter |-> <<>>, mask |-> <<>>, mode |-> <<>>,
             timeout |-> 0, crc |-> FALSE, oneshot |-> FALSE]
Nothing == [kind |-> "nothing"]

TypeOK ==
  /\ port \in Ports /\ flt.at \in {"none", "behind", "whole"} /\ flt.timeout \in Nat
  /\ go \in BOOLEAN /\ timer \in {"off", "on", "expired"}
  /\ queue \in {<<>>} \cup {<<s>> : s \in Sections}
  /\ lost \in BOOLEAN /\ changed \in BOOLEAN
  /\ reader \in {"idle", "polling", "reading"} /\ limit \in Timeouts
  /\ patience \in Timeouts
  /\ go => flt # NoFilter
  /\ timer = "on" => flt.timeout > 0

Init ==
  /\ port \in Ports
  /\ flt = NoFilter /\ go = FALSE /\ timer = "off" /\ queue = <<>> /\ lost = FALSE
  /\ reader = "idle" /\ limit = 0 /\ got = Nothing /\ changed = FALSE
  /\ wish = Nothing /\ patience = 0

-----------------------------------------------------------------------------
(* What sectionFilter makes of a wish.                                     *)

(* The longest time between two sections of a table, in milliseconds. *)
TableTimeout(tid) ==
  CASE tid \in {0, 78} -> 2000
    [] tid = 1 -> 6000
    [] tid = 2 -> 1500
    [] tid \in {3, 64, 66, 70, 79} -> 10000
    [] tid = 65 -> 15000
    [] tid = 74 -> 11000
    [] tid \in {112, 115} -> 30000
    [] OTHER -> 0
HasCrc(tid) == tid \notin {112, 113, 114, 126}
Once(tid) == tid \in {112, 115}

Tid(w) == w.filter[1]
Negated(w) == IF w.negmask = <<>> THEN Pad(<<>>, Len(w.filter)) ELSE w.negmask

(* "The users of negmask [...] really want no timeout if timeout == 0";    *)
(* libtriple does not know them.                                           *)
DvbTimeout(w, to) == IF to = 0 /\ w.negmask = <<>> THEN TableTimeout(Tid(w)) ELSE to
TripleTimeout(w, to) == IF to = 0 THEN TableTimeout(Tid(w)) ELSE to

(* The DVB driver skips the length itself. *)
DvbFilter(w, to, once) ==
  [at |-> "behind", length |-> FilterSize,
   filter |-> Pad(w.filter, FilterSize), mask |-> Pad(w.mask, FilterSize),
   mode |-> Pad(Negated(w), FilterSize), timeout |-> DvbTimeout(w, to),
   crc |-> HasCrc(Tid(w)), oneshot |-> once /\ Once(Tid(w))]

(* The driver of the Tripledragon filters whole sections, and an even      *)
(* number of bytes.                                                        *)
Flat(bytes) == Pad(bytes, FilterSize + 2)
Spread(bytes) == Pad(<<bytes[1], 0, 0>> \o Tail(bytes), FilterSize + 2)
TripleFilter(w, to) ==
  LET even == ((Len(w.filter) + 3) \div 2) * 2
  IN  [at |-> "whole",
       length |-> IF even > FilterSize + 2 THEN FilterSize + 2 ELSE even,
       filter |-> Spread(w.filter), mask |-> Spread(w.mask),
       mode |-> Spread(Negated(w)), timeout |-> TripleTimeout(w, to),
       crc |-> HasCrc(Tid(w)), oneshot |-> FALSE]

(* The driver is stopped; setting a filter starts it, unless it is refused. *)
Sets(w, to, f) ==
  /\ flt' = f /\ go' = TRUE /\ lost' = FALSE /\ queue' = <<>>
  /\ timer' = IF f.timeout > 0 THEN "on" ELSE "off"
  /\ wish' = w /\ patience' = to
  /\ changed' = (changed \/ reader = "reading")
  /\ UNCHANGED <<port, reader, limit, got>>

SparkSectionFilter(w, to) == port = "spark" /\ Sets(w, to, DvbFilter(w, to, TRUE))
AzboxSectionFilter(w, to) == port = "azbox" /\ Sets(w, to, DvbFilter(w, to, TRUE))
PcSectionFilter(w, to) == port = "pc" /\ Sets(w, to, DvbFilter(w, to, FALSE))
RaspiSectionFilter(w, to) == port = "raspi" /\ Sets(w, to, DvbFilter(w, to, FALSE))
TripleSectionFilter(w, to) == port = "triple" /\ Sets(w, to, TripleFilter(w, to))

Stops ==
  /\ go' = FALSE /\ timer' = "off"
  /\ changed' = (changed \/ reader = "reading")
  /\ UNCHANGED <<port, flt, queue, lost, asked, reader, limit, got>>
Refused == Stops
Stop == Stops

(* Start of a filter that is set starts it anew, timer and all. *)
Start ==
  /\ flt # NoFilter
  /\ go' = TRUE /\ lost' = FALSE /\ queue' = <<>>
  /\ timer' = IF flt.timeout > 0 THEN "on" ELSE "off"
  /\ changed' = (changed \/ reader = "reading")
  /\ UNCHANGED <<port, flt, asked, reader, limit, got>>

-----------------------------------------------------------------------------
(* The driver.                                                             *)

Matches(n, filter, mask, mode, bytes) ==
  LET counts(m) == {i \in 1 .. n : mask[i] = 1 /\ mode[i] = m}
  IN  /\ \A i \in counts(0) : bytes[i] = filter[i]
      /\ counts(1) # {} => \E i \in counts(1) : bytes[i] # filter[i]

Behind(bytes) == <<bytes[1]>> \o SubSeq(bytes, 4, Len(bytes))
Passes(s) ==
  /\ Matches(flt.length, flt.filter, flt.mask, flt.mode,
             IF flt.at = "behind" THEN Behind(s.bytes) ELSE s.bytes)
  /\ flt.crc => s.good

(* The first section ends the timer's time. *)
Arrives(s) ==
  /\ go /\ ~lost /\ queue = <<>> /\ Passes(s)
  /\ queue' = <<s>> /\ timer' = "off" /\ go' = ~flt.oneshot
  /\ UNCHANGED <<port, flt, lost, asked, reading>>
Expires ==
  /\ timer = "on" /\ ~lost
  /\ timer' = "expired" /\ go' = FALSE
  /\ UNCHANGED <<port, flt, queue, lost, asked, reading>>
LosesSignal ==
  /\ go /\ ~lost /\ lost' = TRUE
  /\ UNCHANGED <<port, flt, go, timer, queue, asked, reading>>

-----------------------------------------------------------------------------
(* Read: a poll, unless there is no timeout, and then read().              *)

(* "If the frontend loses and regains lock, the demuxer often will not     *)
(* return from read(), so as a 'emergency exit' [...] set a (long) timeout *)
(* here": libspark and azbox poll for a minute.                            *)
NoExit == {}
Exits == {"spark", "azbox"}
PollTime(to) == IF to = 0 /\ port \in Exits THEN Emergency ELSE to

ReadBegins(to) ==
  /\ reader = "idle" /\ limit' = to
  /\ reader' = IF PollTime(to) > 0 THEN "polling" ELSE "reading"
  /\ got' = Nothing /\ changed' = FALSE
  /\ UNCHANGED <<port, driver, asked>>

Ready == queue # <<>> \/ timer = "expired"
PollReady ==
  /\ reader = "polling" /\ Ready
  /\ reader' = "reading"
  /\ UNCHANGED <<port, driver, asked, limit, got, changed>>

Returns(what) == reader' = "idle" /\ got' = what /\ UNCHANGED <<limit, changed>>

(* The poll may end with its time whatever the driver's timer has left.    *)
(* The emergency exit is an error, a timeout that was asked for is not.    *)
PollTimeout ==
  /\ reader = "polling" /\ ~Ready
  /\ Returns([kind |-> IF limit = 0 THEN "exit" ELSE "nothing"])
  /\ UNCHANGED <<port, driver, asked>>

ReadSection ==
  /\ reader = "reading" /\ queue # <<>>
  /\ Returns([kind |-> "section", section |-> Head(queue)]) /\ queue' = <<>>
  /\ UNCHANGED <<port, flt, go, timer, lost, asked>>
ReadExpired ==
  /\ reader = "reading" /\ queue = <<>> /\ timer = "expired"
  /\ Returns([kind |-> "expired"]) /\ timer' = "off"
  /\ UNCHANGED <<port, flt, go, queue, lost, asked>>

-----------------------------------------------------------------------------
User ==
  \/ \E w \in Wishes, to \in Timeouts :
       \/ SparkSectionFilter(w, to) \/ AzboxSectionFilter(w, to)
       \/ PcSectionFilter(w, to) \/ RaspiSectionFilter(w, to)
       \/ TripleSectionFilter(w, to)
  \/ Refused \/ Start \/ Stop
ReadGoesOn == PollReady \/ PollTimeout \/ ReadSection \/ ReadExpired

Next ==
  \/ User
  \/ (\E s \in Sections : Arrives(s)) \/ Expires \/ LosesSignal
  \/ (\E to \in Timeouts : ReadBegins(to)) \/ ReadGoesOn

Spec == Init /\ [][Next]_vars

-----------------------------------------------------------------------------
(* Properties.                                                             *)

(* What a Read brings is a section that was asked for by the last filter   *)
(* that the driver has taken, in the caller's terms, with a right checksum *)
(* if its table has one; and it fails for want of sections only where a    *)
(* time limit was asked for, or the table's own one may be meant: on the   *)
(* Tripledragon also where the caller had a negmask.                       *)
Wanted(s) ==
  /\ wish # Nothing
  /\ Matches(Len(wish.filter), wish.filter, wish.mask, Negated(wish), Behind(s.bytes))
  /\ HasCrc(Tid(wish)) => s.good
ReadIsRight ==
  /\ ReadSection => Wanted(got'.section)
  /\ ReadExpired =>
       \/ patience > 0
       \/ TableTimeout(Tid(wish)) > 0 /\ (wish.negmask = <<>> \/ port = "triple")

(* A Read that waits in read() does not wait for ever.  With libspark and  *)
(* azbox it has found a section, or the end of the driver's time, even if  *)
(* the signal is lost and nobody asked for a limit, unless the filter was  *)
(* changed between poll and read; on the other ports a Read without a      *)
(* limit rests on the driver's timer alone, which is over with the first   *)
(* section.                                                                *)
ReadEnds ==
  reader = "reading" /\ ~changed /\ (limit = 0 => port \in {"spark", "azbox"}) => Ready

SectionsAreWanted == [][ReadIsRight /\ ReadEnds']_vars
=============================================================================
