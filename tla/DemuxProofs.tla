---------------------------- MODULE DemuxProofs ----------------------------
(***************************************************************************)
(* TLAPS proofs about Demux, for any ports, objects, units, sources, PIDs  *)
(* and numbers of descriptors.  A call that filters works on an image of   *)
(* the files and of its object; what is proved of a call is that it makes  *)
(* of a Sound image a Sound image, so that ChangePids, which makes many    *)
(* calls in one step, is an induction over its two walks.  The inductive   *)
(* invariant DInv says that the image of an object nobody closes is Sound. *)
(*                                                                         *)
(* Induction over data has no rule of its own here: a claim about all      *)
(* steps of a walk is proved by looking at the least step that breaks it   *)
(* (LeastNumber, from the well-foundedness of the naturals).               *)
(***************************************************************************)
EXTENDS Demux, WellFoundedInduction, SequenceTheorems, FiniteSetTheorems, TLAPS

(* Numbers, sequences and sets. *)
LEMMA LeastNumber ==
  ASSUME NEW T, T \subseteq Nat, T # {}
  PROVE  \E n \in T : \A m \in T : n <= m
<1> DEFINE R == OpToRel(<, Nat)
<1>1. IsWellFoundedOn(R, Nat)
  BY NatLessThanWellFounded
<1>2. PICK n \in T : \A m \in T : ~(<<m, n>> \in R)
  BY <1>1, WFMin
<1>3. \A m \in T : m < n => <<m, n>> \in R
  BY DEF OpToRel
<1>4. \A m \in T : ~(m < n)
  BY <1>2, <1>3
<1> HIDE DEF R
<1> QED
  BY <1>4

LEMMA LeastIn ==
  ASSUME NEW I, I \subseteq Nat, I # {}
  PROVE  Min(I) \in I
BY LeastNumber DEF Min

(* What RemoveAt leaves, and what SelectInSeq and RemoveFirstMatch find.   *)
LEMMA RemovedAt ==
  ASSUME NEW E, NEW s \in Seq(E), NEW i \in 1 .. Len(s)
  PROVE  /\ RemoveAt(s, i) \in Seq(E)
         /\ Len(RemoveAt(s, i)) = Len(s) - 1
         /\ \A j \in 1 .. Len(s) - 1 :
              RemoveAt(s, i)[j] = IF j < i THEN s[j] ELSE s[j + 1]
<1> DEFINE a == SubSeq(s, 1, i - 1)
           b == SubSeq(s, i + 1, Len(s))
<1>1. a \in Seq(E) /\ Len(a) = i - 1 /\ \A j \in 1 .. i - 1 : a[j] = s[j]
  BY SubSeqProperties
<1>2. b \in Seq(E) /\ Len(b) = Len(s) - i /\ \A j \in 1 .. Len(s) - i : b[j] = s[i + j]
  BY SubSeqProperties
<1>4. RemoveAt(s, i) = a \o b
  BY DEF RemoveAt
<1> HIDE DEF a, b
<1>3. /\ a \o b \in Seq(E) /\ Len(a \o b) = Len(s) - 1
      /\ \A j \in 1 .. Len(s) - 1 : (a \o b)[j] = IF j <= i - 1 THEN a[j] ELSE b[j - (i - 1)]
  <2>1. Len(a) + Len(b) = Len(s) - 1
    BY <1>1, <1>2
  <2>2. /\ a \o b \in Seq(E) /\ Len(a \o b) = Len(a) + Len(b)
        /\ \A j \in 1 .. Len(a) + Len(b) :
             (a \o b)[j] = IF j <= Len(a) THEN a[j] ELSE b[j - Len(a)]
    BY <1>1, <1>2, ConcatProperties
  <2> QED
    BY <1>1, <2>1, <2>2
<1>5. ASSUME NEW j \in 1 .. Len(s) - 1
      PROVE  (a \o b)[j] = IF j < i THEN s[j] ELSE s[j + 1]
  <2>1. CASE j < i
    BY <1>1, <1>3, <2>1
  <2>2. CASE ~(j < i)
    <3>1. j - (i - 1) \in 1 .. Len(s) - i /\ i + (j - (i - 1)) = j + 1
      BY <2>2
    <3> QED
      BY <1>2, <1>3, <2>2, <3>1
  <2> QED
    BY <2>1, <2>2
<1> QED
  BY <1>3, <1>4, <1>5

FirstWith(list, p) == SelectInSeq(list, LAMBDA e : e.pid = p)
LEMMA FoundFirst ==
  ASSUME NEW E, NEW s \in Seq(E), NEW p, \E i \in 1 .. Len(s) : s[i].pid = p
  PROVE  FirstWith(s, p) \in 1 .. Len(s) /\ s[FirstWith(s, p)].pid = p
<1> DEFINE I == {i \in 1 .. Len(s) : s[i].pid = p}
<1>1. Min(I) \in I
  <2>1. I \subseteq Nat /\ I # {}
    OBVIOUS
  <2> QED
    BY <2>1, LeastIn
<1>2. FirstWith(s, p) = Min(I)
  BY <1>1 DEF FirstWith, SelectInSeq
<1> HIDE DEF I
<1>3. Min(I) \in 1 .. Len(s) /\ s[Min(I)].pid = p
  BY <1>1 DEF I
<1> QED
  BY <1>2, <1>3

WithoutFirst(list, p) == RemoveFirstMatch(list, LAMBDA e : e.pid = p)
LEMMA RemovedFirst ==
  ASSUME NEW E, NEW s \in Seq(E), NEW p
  PROVE  WithoutFirst(s, p) \in Seq(E)
<1>1. CASE \E i \in 1 .. Len(s) : s[i].pid = p
  <2>1. FirstWith(s, p) \in 1 .. Len(s)
    BY <1>1, FoundFirst
  <2>2. WithoutFirst(s, p) = RemoveAt(s, FirstWith(s, p))
    BY <1>1 DEF WithoutFirst, RemoveFirstMatch, FirstWith
  <2> QED
    BY <2>1, <2>2, RemovedAt
<1>2. CASE ~\E i \in 1 .. Len(s) : s[i].pid = p
  BY <1>2 DEF WithoutFirst, RemoveFirstMatch
<1> QED
  BY <1>1, <1>2

(* SetToSeq lists every element, once. *)
LEMMA Ordered ==
  ASSUME NEW S, IsFiniteSet(S)
  PROVE  /\ SetToSeq(S) \in [1 .. Cardinality(S) -> S]
         /\ \A i, j \in 1 .. Cardinality(S) : SetToSeq(S)[i] = SetToSeq(S)[j] => i = j
         /\ \A x \in S : \E i \in 1 .. Cardinality(S) : SetToSeq(S)[i] = x
<1>1. PICK f \in Bijection(1 .. Cardinality(S), S) : TRUE
  BY FS_CardinalityType DEF ExistsBijection
<1>2. \E g \in [1 .. Cardinality(S) -> S] : IsInjective(g)
  BY <1>1 DEF Bijection, Injection
<1>3. SetToSeq(S) \in [1 .. Cardinality(S) -> S] /\ IsInjective(SetToSeq(S))
  BY <1>2 DEF SetToSeq
<1>4. SetToSeq(S) \in Surjection(1 .. Cardinality(S), S)
  <2>1. SetToSeq(S) \in Injection(1 .. Cardinality(S), S)
    BY <1>3 DEF Injection, IsInjective
  <2>2. Cardinality(S) \in Nat
    BY FS_CardinalityType
  <2>3. 1 \in Int /\ Cardinality(S) \in Int
        /\ (IF 1 > Cardinality(S) THEN 0 ELSE Cardinality(S) - 1 + 1) = Cardinality(S)
    BY <2>2
  <2>4. Cardinality(1 .. Cardinality(S)) = Cardinality(S)
    BY <2>3, FS_Interval
  <2> QED
    BY <2>1, <2>4, FS_Injection
<1> QED
  BY <1>3, <1>4 DEF IsInjective, Surjection
-----------------------------------------------------------------------------
(* The images, and what is said of them. *)
File == [open : BOOLEAN, dev : 0 .. 2, pids : SUBSET Pids]
Entry == [pid : Pids, fd : Fds \cup {NoFd}]
Images == [files : [Fds -> File], fd : Fds \cup {NoFd}, last : Sources \cup {NoSource},
           listed : Seq(Entry)]
ListFds(list) == {list[i].fd : i \in DOMAIN list}

(* libtriple's list: every entry is an open descriptor of its own, of the  *)
(* object's device, with that PID; the video PID can only be the first,    *)
(* and if it is, no PID is listed twice.                                   *)
Recorded(image) ==
  backend = "triple" =>
    /\ \A i \in 1 .. Len(image.listed) :
         LET n == image.listed[i].fd IN
         /\ n \in Fds /\ n # image.fd /\ image.files[n].open
         /\ image.files[n].pids = {image.listed[i].pid}
         /\ image.files[n].dev = image.files[image.fd].dev
    /\ \A i, j \in 1 .. Len(image.listed) : image.listed[i].fd = image.listed[j].fd => i = j
    /\ image.listed # << >> => image.fd # NoFd
    /\ \A i \in 1 .. Len(image.listed) : i # 1 => image.listed[i].pid # VideoPid
    /\ image.listed # << >> /\ image.listed[1].pid = VideoPid =>
         \A i, j \in 1 .. Len(image.listed) : image.listed[i].pid = image.listed[j].pid => i = j

(* libspark: the open descriptor is of the device of the last source. *)
Current(image) ==
  backend = "spark" /\ image.fd # NoFd => image.files[image.fd].dev = image.last

(* What a call may make of an object's image, given what the others own.   *)
Others(d) == {n \in Fds : \E e \in Demuxes \ {d} : Owns(e, n)}
Mine(image, n) == n = image.fd \/ (backend = "triple" /\ n \in ListFds(image.listed))
Sound(d, image) ==
  /\ image \in Images
  /\ \A n \in Others(d) : image.files[n] = files[n] /\ ~Mine(image, n)
  /\ \A n \in Fds : image.files[n].open => Mine(image, n) \/ n \in Others(d)
  /\ image.fd # NoFd => image.files[image.fd].open
  /\ backend = "triple" => image.fd = fd[d]
  /\ Recorded(image) /\ Current(image)
  /\ backend = "spark" /\ image.fd # NoFd
       /\ ~(image.files[image.fd].pids \subseteq Filtered(Image(d)))
       => image.files[image.fd].dev = source[Num[d]]

DTypes ==
  /\ TypeOK
  /\ listed \in [Demuxes -> Seq(Entry)]

(* open() takes a free number. *)
LEMMA LowestIsFree ==
  ASSUME NEW f, FreeFds(f) # {}
  PROVE  LowestFree(f) \in Fds /\ ~f[LowestFree(f)].open
<1>1. FreeFds(f) \subseteq Nat
  BY DemuxAssumption DEF DemuxAssumption, FreeFds, Fds
<1>2. LowestFree(f) \in FreeFds(f)
  BY <1>1, LeastNumber DEF LowestFree
<1> QED
  BY <1>2 DEF FreeFds

(* What is recorded does not depend on what the object itself filters. *)
LEMMA RecordedSame ==
  ASSUME NEW old, NEW new, Recorded(old), old.fd # NoFd, new.fd = old.fd, new.listed = old.listed,
         \A n \in Fds : n # old.fd => new.files[n] = old.files[n],
         new.files[old.fd].dev = old.files[old.fd].dev
  PROVE  Recorded(new)
<1>1. ASSUME backend = "triple", NEW i \in 1 .. Len(new.listed)
      PROVE  /\ new.listed[i].fd \in Fds /\ new.listed[i].fd # new.fd
             /\ new.files[new.listed[i].fd].open
             /\ new.files[new.listed[i].fd].pids = {new.listed[i].pid}
             /\ new.files[new.listed[i].fd].dev = new.files[new.fd].dev
  <2>1. i \in 1 .. Len(old.listed)
    BY <1>1
  <2>2. /\ old.listed[i].fd \in Fds /\ old.listed[i].fd # old.fd
        /\ old.files[old.listed[i].fd].open
        /\ old.files[old.listed[i].fd].pids = {old.listed[i].pid}
        /\ old.files[old.listed[i].fd].dev = old.files[old.fd].dev
    BY <1>1, <2>1, Zenon DEF Recorded
  <2> QED
    BY <2>2
<1>2. backend = "triple" =>
        /\ \A i, j \in 1 .. Len(new.listed) : new.listed[i].fd = new.listed[j].fd => i = j
        /\ new.listed # << >> => new.fd # NoFd
        /\ \A i \in 1 .. Len(new.listed) : i # 1 => new.listed[i].pid # VideoPid
        /\ new.listed # << >> /\ new.listed[1].pid = VideoPid =>
             \A i, j \in 1 .. Len(new.listed) : new.listed[i].pid = new.listed[j].pid => i = j
  BY DEF Recorded
<1> QED
  BY <1>1, <1>2, Zenon DEF Recorded

(* The calls an image is made of keep it sound.                            *)
LEMMA SoundPids ==
  ASSUME DTypes, NEW d \in Demuxes, NEW image, Sound(d, image), NEW pids \in SUBSET Pids, NEW ok,
         backend = "spark" /\ image.fd # NoFd =>
           pids \subseteq Filtered(image) \/ image.last = source[Num[d]]
  PROVE  Sound(d, SetPids(image, pids, ok))
<1>1. CASE image.fd = NoFd \/ ~ok
  BY <1>1 DEF SetPids
<1>2. CASE image.fd # NoFd /\ ok
  <2> DEFINE im == SetPids(image, pids, ok)
  <2>1. im = [image EXCEPT !.files[image.fd].pids = pids]
    BY <1>2 DEF SetPids
  <2>2. image \in Images /\ image.fd \in Fds
    BY <1>2 DEF Sound, Images
  <2>3. /\ im \in Images /\ im.fd = image.fd /\ im.last = image.last /\ im.listed = image.listed
        /\ im.files = [image.files EXCEPT ![image.fd].pids = pids]
    <3>1. [image.files EXCEPT ![image.fd].pids = pids] \in [Fds -> File]
      <4>1. image.files \in [Fds -> File]
        BY <2>2 DEF Images
      <4> QED
        BY <2>2, <4>1 DEF File
    <3> QED
      BY <2>1, <2>2, <3>1 DEF Images
  <2> HIDE DEF im
  <2>4. /\ \A n \in Fds : n # image.fd => im.files[n] = image.files[n]
        /\ im.files[im.fd].open = image.files[im.fd].open
        /\ im.files[im.fd].dev = image.files[im.fd].dev
        /\ im.files[im.fd].pids = pids
    BY <2>2, <2>3 DEF Images, File
  <2>5. \A n : Mine(im, n) <=> Mine(image, n)
    BY <2>3 DEF Mine
  <2>6. \A n \in Others(d) : im.files[n] = files[n] /\ ~Mine(im, n)
    BY <2>4, <2>5 DEF Sound, Mine, Others
  <2>7. \A n \in Fds : im.files[n].open => Mine(im, n) \/ n \in Others(d)
    BY <2>4, <2>3, <2>5 DEF Sound
  <2>8. Recorded(im)
    <3>1. Recorded(image)
      BY DEF Sound
    <3> QED
      BY <3>1, <1>2, <2>3, <2>4, RecordedSame
  <2>9. Current(im)
    BY <2>3, <2>4 DEF Sound, Current
  <2>10. backend = "spark" /\ ~(pids \subseteq Filtered(Image(d)))
         => im.files[im.fd].dev = source[Num[d]]
    BY <2>3, <2>4, <1>2 DEF Sound, Current, Filtered
  <2> QED
    BY <1>2, <2>3, <2>4, <2>6, <2>7, <2>8, <2>9, <2>10 DEF Sound, im
<1> QED
  BY <1>1, <1>2

(* _open of libspark: the device of the source of this moment. *)
LEMMA SoundDevice ==
  ASSUME DTypes, NEW d \in Demuxes, NEW image, Sound(d, image), NEW ok, backend = "spark",
         \A m \in Others(d) : files[m].open
  PROVE  /\ Sound(d, SparkDevice(d, image, ok))
         /\ SparkDevice(d, image, ok).fd # NoFd => SparkDevice(d, image, ok).last = source[Num[d]]
         /\ Filtered(SparkDevice(d, image, ok)) \subseteq Filtered(image)
<1> DEFINE dev == source[Num[d]]
           rest == Shut(image.files, image.fd)
           n == LowestFree(rest)
           im == SparkDevice(d, image, ok)
<1>0. /\ image \in Images /\ dev \in Sources /\ dev \in 0 .. 2
      /\ image.files \in [Fds -> File] /\ NoFd \notin Fds
  <2>1. Num[d] \in 0 .. 2 /\ source \in [0 .. 2 -> Sources] /\ Sources \subseteq 0 .. 2
    BY DemuxAssumption DEF DTypes, TypeOK, DemuxAssumption
  <2>2. dev \in Sources /\ dev \in 0 .. 2
    BY <2>1
  <2>3. image \in Images /\ image.files \in [Fds -> File]
    BY DEF Sound, Images
  <2> QED
    BY <2>2, <2>3, DemuxAssumption DEF DemuxAssumption, Fds, NoFd
<1>1. /\ rest \in [Fds -> File]
      /\ \A m \in Fds : m # image.fd => rest[m] = image.files[m]
      /\ \A m \in Fds : m = image.fd => rest[m] = Unopened
  BY <1>0 DEF Shut, Images, File, Unopened
<1>2. CASE image.last = dev /\ image.fd # NoFd
  BY <1>2 DEF SparkDevice
<1>3. CASE ~(image.last = dev /\ image.fd # NoFd) /\ ok /\ FreeFds(rest) # {}
  <2>1. n \in Fds /\ ~rest[n].open
    BY <1>3, LowestIsFree
  <2>2. im = [image EXCEPT !.files = [rest EXCEPT ![n] = Opened(dev)], !.fd = n, !.last = dev]
    BY <1>3 DEF SparkDevice
  <2>3. Opened(dev) \in File /\ Opened(dev).open /\ Opened(dev).dev = dev /\ Opened(dev).pids = {}
    BY <1>0 DEF Opened, Unopened, File
  <2>4. /\ im.files = [rest EXCEPT ![n] = Opened(dev)] /\ im.fd = n /\ im.last = dev
        /\ im.listed = image.listed /\ im \in Images
    BY <1>0, <1>1, <2>1, <2>2, <2>3 DEF Images
  <2> HIDE DEF im, rest, n, dev
  <2>5. /\ im.files[n] = Opened(dev)
        /\ \A m \in Fds : m # n => im.files[m] = rest[m]
    BY <1>1, <2>1, <2>4
  <2>6. ASSUME NEW m \in Others(d) PROVE im.files[m] = files[m] /\ ~Mine(im, m)
    <3>1. m # image.fd /\ image.files[m] = files[m] /\ m \in Fds
      BY <2>6 DEF Sound, Mine, Others
    <3>2. files[m].open
      BY <2>6
    <3> QED
      BY <1>1, <2>1, <2>4, <2>5, <3>1, <3>2 DEF Mine
  <2>7. ASSUME NEW m \in Fds, im.files[m].open PROVE Mine(im, m) \/ m \in Others(d)
    <3>1. CASE m = n
      BY <3>1, <2>4 DEF Mine
    <3>2. CASE m # n
      BY <1>1, <2>5, <2>7, <3>2 DEF Sound, Mine, Unopened
    <3> QED
      BY <3>1, <3>2
  <2>8. Recorded(im) /\ Current(im) /\ Filtered(im) = {}
    BY <1>0, <2>1, <2>3, <2>4, <2>5 DEF Recorded, Current, Filtered
  <2> QED
    BY <1>0, <2>1, <2>3, <2>4, <2>5, <2>6, <2>7, <2>8 DEF Sound, im, dev
<1>4. CASE ~(image.last = dev /\ image.fd # NoFd) /\ ~(ok /\ FreeFds(rest) # {})
  <2>2. im = [image EXCEPT !.files = rest, !.fd = NoFd]
    BY <1>4 DEF SparkDevice
  <2>4. /\ im.files = rest /\ im.fd = NoFd /\ im.last = image.last
        /\ im.listed = image.listed /\ im \in Images
    BY <1>0, <1>1, <2>2 DEF Images
  <2> HIDE DEF im, rest, n, dev
  <2>6. ASSUME NEW m \in Others(d) PROVE im.files[m] = files[m] /\ ~Mine(im, m)
    <3>1. m # image.fd /\ image.files[m] = files[m] /\ m \in Fds
      BY <2>6 DEF Sound, Mine, Others
    <3> QED
      BY <1>0, <1>1, <2>4, <3>1 DEF Mine
  <2>7. ASSUME NEW m \in Fds, im.files[m].open PROVE Mine(im, m) \/ m \in Others(d)
    BY <1>1, <2>4, <2>7 DEF Sound, Mine, Unopened
  <2>8. Recorded(im) /\ Current(im) /\ Filtered(im) = {}
    BY <2>4 DEF Recorded, Current, Filtered
  <2> QED
    BY <1>0, <2>4, <2>6, <2>7, <2>8 DEF Sound, im
<1> QED
  BY <1>2, <1>3, <1>4

(* The other ports' list says nothing about descriptors. *)
LEMMA SoundList ==
  ASSUME NEW d \in Demuxes, NEW image, Sound(d, image), backend # "triple",
         NEW list \in Seq(Entry)
  PROVE  /\ Sound(d, [image EXCEPT !.listed = list])
         /\ [image EXCEPT !.listed = list].fd = image.fd
         /\ [image EXCEPT !.listed = list].last = image.last
         /\ Filtered([image EXCEPT !.listed = list]) = Filtered(image)
<1> DEFINE im == [image EXCEPT !.listed = list]
<1>1. /\ im \in Images /\ im.fd = image.fd /\ im.last = image.last /\ im.files = image.files
      /\ im.listed = list
  BY DEF Sound, Images
<1> HIDE DEF im
<1>2. \A n : Mine(im, n) <=> Mine(image, n)
  BY <1>1 DEF Mine
<1>3. Recorded(im) /\ (Current(im) <=> Current(image)) /\ Filtered(im) = Filtered(image)
  BY <1>1 DEF Recorded, Current, Filtered
<1>4. Sound(d, im)
  BY <1>1, <1>2, <1>3 DEF Sound
<1> QED
  BY <1>1, <1>3, <1>4 DEF im

LEMMA FilteredPids ==
  ASSUME NEW d, NEW image, Sound(d, image)
  PROVE  Filtered(image) \subseteq Pids
<1>1. image \in Images
  BY DEF Sound
<1>2. image.fd # NoFd => image.files[image.fd] \in File
  BY <1>1 DEF Images
<1> QED
  BY <1>2 DEF Filtered, File

LEMMA SoundDvbAdd ==
  ASSUME DTypes, NEW d \in Demuxes, NEW image, Sound(d, image), backend # "triple",
         NEW p \in Pids, NEW ok,
         backend = "spark" /\ image.fd # NoFd => image.last = source[Num[d]]
  PROVE  Sound(d, DvbAdd(image, p, ok))
<1> DEFINE list == Append(image.listed, [pid |-> p, fd |-> NoFd])
<1>1. list \in Seq(Entry)
  <2>1. image.listed \in Seq(Entry) /\ [pid |-> p, fd |-> NoFd] \in Entry
    BY DEF Sound, Images, Entry
  <2> QED
    BY <2>1, AppendProperties
<1> HIDE DEF list
<1>2. /\ Sound(d, [image EXCEPT !.listed = list])
      /\ [image EXCEPT !.listed = list].fd = image.fd
      /\ [image EXCEPT !.listed = list].last = image.last
  BY <1>1, SoundList
<1>3. Filtered(image) \cup {p} \in SUBSET Pids
  BY FilteredPids
<1>4. Sound(d, SetPids([image EXCEPT !.listed = list], Filtered(image) \cup {p}, ok))
  BY <1>2, <1>3, SoundPids
<1>5. DvbAdd(image, p, ok) = SetPids([image EXCEPT !.listed = list], Filtered(image) \cup {p}, ok)
  BY DEF DvbAdd, list
<1> QED
  BY <1>4, <1>5

LEMMA SoundSharedRemove ==
  ASSUME DTypes, NEW d \in Demuxes, NEW image, Sound(d, image), backend # "triple", NEW p, NEW ok
  PROVE  Sound(d, SharedRemove(image, p, ok))
<1> DEFINE list == WithoutFirst(image.listed, p)
<1>1. list \in Seq(Entry)
  <2>1. image.listed \in Seq(Entry)
    BY DEF Sound, Images
  <2> QED
    BY <2>1, RemovedFirst
<1>5. SharedRemove(image, p, ok)
        = SetPids([image EXCEPT !.listed = list], Filtered(image) \ {p}, ok)
  BY DEF SharedRemove, WithoutFirst
<1> HIDE DEF list
<1>2. /\ Sound(d, [image EXCEPT !.listed = list])
      /\ Filtered([image EXCEPT !.listed = list]) = Filtered(image)
  BY <1>1, SoundList
<1>3. Filtered(image) \ {p} \in SUBSET Pids
  BY FilteredPids
<1>4. Sound(d, SetPids([image EXCEPT !.listed = list], Filtered(image) \ {p}, ok))
  BY <1>2, <1>3, SoundPids
<1> QED
  BY <1>4, <1>5

(* libtriple: a descriptor of its own for the new entry, ... *)
LEMMA SoundTripleAdd ==
  ASSUME DTypes, NEW d \in Demuxes, NEW image, Sound(d, image), backend = "triple",
         image.fd # NoFd, NEW p \in Pids, NEW ok,
         \A m \in Others(d) : files[m].open,
         \/ image.listed = << >>
         \/ /\ p # VideoPid
            /\ image.listed[1].pid = VideoPid => p \notin PidsOf(image.listed)
  PROVE  /\ Sound(d, TripleAdd(image, p, ok))
         /\ PidsOf(TripleAdd(image, p, ok).listed) \subseteq PidsOf(image.listed) \cup {p}
<1> DEFINE n == LowestFree(image.files)
           im == TripleAdd(image, p, ok)
           list == image.listed
           entry == [pid |-> p, fd |-> n]
           file == [Opened(image.files[image.fd].dev) EXCEPT !.pids = {p}]
<1>0. /\ image \in Images /\ image.files \in [Fds -> File] /\ NoFd \notin Fds
      /\ image.fd \in Fds /\ list \in Seq(Entry) /\ Len(list) \in Nat
      /\ image.files[image.fd].open
  <2>1. image \in Images
    BY DEF Sound
  <2>2. /\ image.files \in [Fds -> File] /\ image.fd \in Fds \cup {NoFd} /\ list \in Seq(Entry)
    BY <2>1 DEF Images
  <2> QED
    BY <2>1, <2>2, DemuxAssumption DEF DemuxAssumption, Fds, NoFd, Sound
<1>1. CASE ~ok \/ FreeFds(image.files) = {}
  BY <1>1 DEF TripleAdd
<1>2. CASE ok /\ FreeFds(image.files) # {}
  <2>1. n \in Fds /\ ~image.files[n].open
    BY <1>2, LowestIsFree
  <2>2. im = [image EXCEPT !.files[n] = file, !.listed = Append(list, entry)]
    BY <1>2 DEF TripleAdd
  <2>3. file \in File /\ file.open /\ file.pids = {p} /\ file.dev = image.files[image.fd].dev
    BY <1>0 DEF Opened, Unopened, File
  <2>4. entry \in Entry /\ entry.pid = p /\ entry.fd = n
    BY <2>1 DEF Entry
  <2> HIDE DEF file, entry, list, n
  <2>5. /\ Append(list, entry) \in Seq(Entry) /\ Len(Append(list, entry)) = Len(list) + 1
        /\ \A i \in 1 .. Len(list) : Append(list, entry)[i] = list[i]
        /\ Append(list, entry)[Len(list) + 1] = entry
    BY <1>0, <2>4, AppendProperties
  <2>6. /\ im.files = [image.files EXCEPT ![n] = file] /\ im.fd = image.fd
        /\ im.last = image.last /\ im.listed = Append(list, entry) /\ im \in Images
    <3>1. [image.files EXCEPT ![n] = file] \in [Fds -> File]
      BY <1>0, <2>1, <2>3
    <3>2. im = [image EXCEPT !.files = [image.files EXCEPT ![n] = file],
                             !.listed = Append(list, entry)]
      BY <1>0, <2>2 DEF Images
    <3> QED
      BY <1>0, <2>5, <3>1, <3>2 DEF Images
  <2> HIDE DEF im
  <2>7. im.files[n] = file /\ \A m \in Fds : m # n => im.files[m] = image.files[m]
    BY <1>0, <2>1, <2>6
  <2>8. n # image.fd /\ \A i \in 1 .. Len(list) : list[i].fd # n
    BY <1>0, <2>1 DEF Sound, Recorded, list
  <2>9. /\ Len(im.listed) = Len(list) + 1 /\ im.listed[Len(list) + 1] = entry
        /\ \A i \in 1 .. Len(list) : im.listed[i] = list[i]
        /\ DOMAIN im.listed = 1 .. Len(list) + 1 /\ DOMAIN list = 1 .. Len(list)
    BY <1>0, <2>5, <2>6
  <2>10. /\ \A m : Mine(im, m) <=> Mine(image, m) \/ m = n
         /\ PidsOf(im.listed) = PidsOf(list) \cup {p}
    <3>1. ListFds(im.listed) = ListFds(list) \cup {n}
      BY <1>0, <2>4, <2>9 DEF ListFds
    <3>2. PidsOf(im.listed) = PidsOf(list) \cup {p}
      BY <1>0, <2>4, <2>9 DEF PidsOf
    <3> QED
      BY <2>6, <3>1, <3>2 DEF Mine, list
  <2>11. ASSUME NEW m \in Others(d) PROVE im.files[m] = files[m] /\ ~Mine(im, m)
    <3>1. m \in Fds /\ image.files[m] = files[m] /\ ~Mine(image, m) /\ files[m].open
      BY <2>11 DEF Sound, Others
    <3> QED
      BY <2>1, <2>7, <2>10, <3>1
  <2>12. ASSUME NEW m \in Fds, im.files[m].open PROVE Mine(im, m) \/ m \in Others(d)
    BY <2>7, <2>10, <2>12 DEF Sound
  <2>13. Recorded(im)
    <3>1. /\ \A i \in 1 .. Len(list) :
               /\ list[i].fd \in Fds /\ list[i].fd # image.fd /\ image.files[list[i].fd].open
               /\ image.files[list[i].fd].pids = {list[i].pid}
               /\ image.files[list[i].fd].dev = image.files[image.fd].dev
          /\ \A i, j \in 1 .. Len(list) : list[i].fd = list[j].fd => i = j
          /\ \A i \in 1 .. Len(list) : i # 1 => list[i].pid # VideoPid
          /\ list # << >> /\ list[1].pid = VideoPid =>
               \A i, j \in 1 .. Len(list) : list[i].pid = list[j].pid => i = j
      BY DEF Sound, Recorded, list
    <3>2. ASSUME NEW i \in 1 .. Len(list) + 1
          PROVE  /\ im.listed[i].fd \in Fds /\ im.listed[i].fd # im.fd
                 /\ im.files[im.listed[i].fd].open
                 /\ im.files[im.listed[i].fd].pids = {im.listed[i].pid}
                 /\ im.files[im.listed[i].fd].dev = im.files[im.fd].dev
      <4>1. CASE i \in 1 .. Len(list)
        BY <1>0, <2>6, <2>7, <2>8, <2>9, <3>1, <4>1
      <4>2. CASE i = Len(list) + 1
        BY <1>0, <2>1, <2>3, <2>4, <2>6, <2>7, <2>8, <2>9, <4>2
      <4> QED
        BY <1>0, <4>1, <4>2
    <3>3. ASSUME NEW i \in 1 .. Len(list) + 1, NEW j \in 1 .. Len(list) + 1,
                 im.listed[i].fd = im.listed[j].fd
          PROVE  i = j
      BY <1>0, <2>4, <2>8, <2>9, <3>1, <3>3
    <3>4. list = << >> \/ (p # VideoPid /\ (list[1].pid = VideoPid => p \notin PidsOf(list)))
      BY DEF list
    <3>5. ASSUME NEW i \in 1 .. Len(list) + 1, i # 1
          PROVE  im.listed[i].pid # VideoPid
      <4>1. CASE list = << >>
        BY <4>1, <3>5
      <4>2. CASE list # << >>
        BY <1>0, <2>4, <2>9, <3>1, <3>4, <3>5, <4>2
      <4> QED
        BY <4>1, <4>2
    <3>6. ASSUME im.listed[1].pid = VideoPid,
                 NEW i \in 1 .. Len(list) + 1, NEW j \in 1 .. Len(list) + 1,
                 im.listed[i].pid = im.listed[j].pid
          PROVE  i = j
      <4>1. CASE list = << >>
        BY <4>1
      <4>2. CASE list # << >>
        <5>1. Len(list) >= 1
          BY <1>0, <4>2
        <5>2. list[1].pid = VideoPid
          BY <1>0, <2>9, <3>6, <5>1
        <5>3. \A k \in 1 .. Len(list) : list[k].pid # p
          BY <1>0, <2>9, <3>4, <4>2, <5>2 DEF PidsOf
        <5> QED
          BY <1>0, <2>4, <2>9, <3>1, <3>6, <4>2, <5>2, <5>3
      <4> QED
        BY <4>1, <4>2
    <3> QED
      BY <1>0, <2>6, <2>9, <3>2, <3>3, <3>5, <3>6 DEF Recorded
  <2> QED
    BY <1>0, <2>6, <2>7, <2>8, <2>10, <2>11, <2>12, <2>13
       DEF Sound, Current, im, list
<1> QED
  BY <1>1, <1>2

(* ... which goes with it. *)
LEMMA SoundTripleRemove ==
  ASSUME DTypes, NEW d \in Demuxes, NEW image, Sound(d, image), backend = "triple",
         NEW p, p # VideoPid, p \in PidsOf(image.listed)
  PROVE  /\ Sound(d, TripleRemove(image, p))
         /\ PidsOf(TripleRemove(image, p).listed) \subseteq PidsOf(image.listed)
<1> DEFINE list == image.listed
           i == FirstWith(list, p)
           im == TripleRemove(image, p)
           n == list[i].fd
           rest == RemoveAt(list, i)
<1>0. /\ image \in Images /\ image.files \in [Fds -> File] /\ NoFd \notin Fds
      /\ list \in Seq(Entry) /\ Len(list) \in Nat /\ DOMAIN list = 1 .. Len(list)
  <2>1. image \in Images
    BY DEF Sound
  <2>2. /\ image.files \in [Fds -> File] /\ list \in Seq(Entry)
    BY <2>1 DEF Images
  <2> QED
    BY <2>1, <2>2, DemuxAssumption DEF DemuxAssumption, Fds, NoFd
<1>1. i \in 1 .. Len(list) /\ list[i].pid = p
  <2>1. \E j \in 1 .. Len(list) : list[j].pid = p
    BY <1>0 DEF PidsOf
  <2> QED
    BY <1>0, <2>1, FoundFirst
<1>2. im = [image EXCEPT !.files = Shut(image.files, n), !.listed = rest]
  BY DEF TripleRemove, FirstWith
<1>3. /\ \A j \in 1 .. Len(list) :
           /\ list[j].fd \in Fds /\ list[j].fd # image.fd /\ image.files[list[j].fd].open
           /\ image.files[list[j].fd].pids = {list[j].pid}
           /\ image.files[list[j].fd].dev = image.files[image.fd].dev
      /\ \A j, k \in 1 .. Len(list) : list[j].fd = list[k].fd => j = k
      /\ list # << >> => image.fd # NoFd
      /\ \A j \in 1 .. Len(list) : j # 1 => list[j].pid # VideoPid
      /\ list # << >> /\ list[1].pid = VideoPid =>
           \A j, k \in 1 .. Len(list) : list[j].pid = list[k].pid => j = k
  BY DEF Sound, Recorded
<1> HIDE DEF i, n, list
<1>4. /\ rest \in Seq(Entry) /\ Len(rest) = Len(list) - 1
      /\ \A j \in 1 .. Len(list) - 1 : rest[j] = IF j < i THEN list[j] ELSE list[j + 1]
  BY <1>0, <1>1, RemovedAt
<1> HIDE DEF rest
<1>5. n \in Fds /\ n # image.fd /\ n # NoFd
  BY <1>0, <1>1, <1>3 DEF n
<1>6. /\ im.files = [image.files EXCEPT ![n] = Unopened] /\ im.fd = image.fd
      /\ im.last = image.last /\ im.listed = rest /\ im \in Images
  <2>1. [image.files EXCEPT ![n] = Unopened] \in [Fds -> File]
    <3>1. Unopened \in File
      BY DEF Unopened, File
    <3> QED
      BY <1>0, <3>1
  <2> QED
    BY <1>0, <1>2, <1>4, <1>5, <2>1 DEF Shut, Images
<1> HIDE DEF im
<1>7. im.files[n] = Unopened /\ \A m \in Fds : m # n => im.files[m] = image.files[m]
  BY <1>0, <1>5, <1>6
<1>8. DOMAIN rest = 1 .. Len(list) - 1
  BY <1>4
(* where in the old list an entry of the new one was *)
<1> DEFINE Was(j) == IF j < i THEN j ELSE j + 1
<1>9. \A j \in 1 .. Len(list) - 1 :
        Was(j) \in 1 .. Len(list) /\ Was(j) # i /\ rest[j] = list[Was(j)]
  BY <1>0, <1>1, <1>4
<1>10. \A j, k \in 1 .. Len(list) - 1 : Was(j) = Was(k) => j = k
  BY <1>0, <1>1
<1>11. \A k \in 1 .. Len(list) : k = i \/ \E j \in 1 .. Len(list) - 1 : k = Was(j)
  <2> SUFFICES ASSUME NEW k \in 1 .. Len(list), k # i
               PROVE  \E j \in 1 .. Len(list) - 1 : k = Was(j)
    OBVIOUS
  <2>1. CASE k < i
    <3>1. k \in 1 .. Len(list) - 1 /\ k = Was(k)
      BY <1>0, <1>1, <2>1
    <3> QED
      BY <3>1
  <2>2. CASE k > i
    <3>1. k - 1 \in 1 .. Len(list) - 1 /\ k = Was(k - 1)
      BY <1>0, <1>1, <2>2
    <3> QED
      BY <3>1
  <2> QED
    BY <1>0, <1>1, <2>1, <2>2
<1>12. \A j \in 1 .. Len(list) - 1 : j # 1 => Was(j) # 1
  BY <1>0, <1>1
<1> HIDE DEF Was
<1>13. PidsOf(rest) \subseteq PidsOf(list)
  BY <1>0, <1>8, <1>9 DEF PidsOf
<1>14. \A m : Mine(image, m) => Mine(im, m) \/ m = n
  <2>1. ListFds(list) \subseteq ListFds(rest) \cup {n}
    <3>1. ASSUME NEW k \in 1 .. Len(list), k # i
          PROVE  \E j \in 1 .. Len(list) - 1 : list[k].fd = rest[j].fd
      BY <1>9, <1>11, <3>1
    <3> QED
      BY <1>0, <1>8, <3>1 DEF ListFds, n
  <2> QED
    BY <1>6, <2>1 DEF Mine, list
<1>15. \A m : Mine(im, m) => Mine(image, m)
  <2>1. ListFds(rest) \subseteq ListFds(list)
    BY <1>0, <1>8, <1>9 DEF ListFds
  <2> QED
    BY <1>6, <2>1 DEF Mine, list
<1>16. Mine(image, n)
  BY <1>0, <1>1 DEF Mine, ListFds, n, list
<1>17. ASSUME NEW m \in Others(d) PROVE im.files[m] = files[m] /\ ~Mine(im, m)
  <2>1. m \in Fds /\ image.files[m] = files[m] /\ ~Mine(image, m)
    BY <1>17 DEF Sound, Others
  <2> QED
    BY <1>7, <1>15, <1>16, <2>1
<1>18. ASSUME NEW m \in Fds, im.files[m].open PROVE Mine(im, m) \/ m \in Others(d)
  <2>1. m # n
    BY <1>7, <1>18 DEF Unopened
  <2> QED
    BY <1>7, <1>14, <1>18, <2>1 DEF Sound
<1>19. Recorded(im)
  <2>1. ASSUME NEW j \in 1 .. Len(list) - 1
        PROVE  /\ rest[j].fd \in Fds /\ rest[j].fd # im.fd /\ im.files[rest[j].fd].open
               /\ im.files[rest[j].fd].pids = {rest[j].pid}
               /\ im.files[rest[j].fd].dev = im.files[im.fd].dev
    <3>1. Was(j) \in 1 .. Len(list) /\ Was(j) # i /\ rest[j] = list[Was(j)]
      BY <1>9
    <3>2. list[Was(j)].fd # n
      BY <1>1, <1>3, <3>1 DEF n
    <3>3. image.fd \in Fds
      BY <1>0, <1>3, <3>1 DEF Images
    <3> QED
      BY <1>3, <1>5, <1>6, <1>7, <3>1, <3>2, <3>3
  <2>2. \A j, k \in 1 .. Len(list) - 1 : rest[j].fd = rest[k].fd => j = k
    BY <1>3, <1>9, <1>10
  <2>3. \A j \in 1 .. Len(list) - 1 : j # 1 => rest[j].pid # VideoPid
    BY <1>3, <1>9, <1>12
  <2>4. ASSUME rest # << >>, rest[1].pid = VideoPid
        PROVE  \A j, k \in 1 .. Len(list) - 1 : rest[j].pid = rest[k].pid => j = k
    <3>1. Len(list) - 1 >= 1 /\ list # << >>
      BY <1>0, <1>4, <2>4
    <3>2. 1 \in 1 .. Len(list) - 1
      BY <1>0, <3>1
    <3>3. list[Was(1)].pid = VideoPid /\ Was(1) \in 1 .. Len(list)
      BY <1>9, <2>4, <3>2
    <3>4. list[1].pid = VideoPid
      BY <1>3, <3>3
    <3> QED
      BY <1>3, <1>9, <1>10, <3>1, <3>4
  <2>5. list # << >>
    BY <1>0, <1>1
  <2> QED
    BY <1>3, <1>4, <1>6, <2>1, <2>2, <2>3, <2>4, <2>5 DEF Recorded
<1>20. image.fd # NoFd => im.files[im.fd] = image.files[image.fd]
  BY <1>0, <1>5, <1>6, <1>7 DEF Images
<1> QED
  BY <1>0, <1>6, <1>13, <1>17, <1>18, <1>19, <1>20 DEF Sound, Current, im, list

-----------------------------------------------------------------------------
(* The calls by which ChangePids and the users change an image.            *)
LEMMA SoundRemove ==
  ASSUME DTypes, NEW d \in Demuxes, NEW image, Sound(d, image), NEW p, NEW ok,
         backend = "triple" => p # VideoPid
  PROVE  /\ Sound(d, RemovePidFrom(image, p, ok))
         /\ backend = "triple" =>
              PidsOf(RemovePidFrom(image, p, ok).listed) \subseteq PidsOf(image.listed)
<1>1. CASE p \notin PidsOf(image.listed)
  BY <1>1 DEF RemovePidFrom
<1>2. CASE p \in PidsOf(image.listed) /\ backend = "triple"
  <2>1. RemovePidFrom(image, p, ok) = TripleRemove(image, p)
    BY <1>2 DEF RemovePidFrom
  <2> QED
    BY <1>2, <2>1, SoundTripleRemove
<1>3. CASE p \in PidsOf(image.listed) /\ backend # "triple"
  <2>1. RemovePidFrom(image, p, ok) = SharedRemove(image, p, ok)
    BY <1>3 DEF RemovePidFrom
  <2> QED
    BY <1>3, <2>1, SoundSharedRemove
<1> QED
  BY <1>1, <1>2, <1>3

LEMMA SoundAdd ==
  ASSUME DTypes, NEW d \in Demuxes, NEW image, Sound(d, image), NEW p \in Pids, NEW ok,
         \A m \in Others(d) : files[m].open,
         backend = "triple" =>
           /\ image.fd # NoFd
           /\ \/ image.listed = << >>
              \/ /\ p # VideoPid
                 /\ image.listed[1].pid = VideoPid => p \notin PidsOf(image.listed)
  PROVE  /\ Sound(d, Add(d, image, p, ok))
         /\ backend = "triple" =>
              PidsOf(Add(d, image, p, ok).listed) \subseteq PidsOf(image.listed) \cup {p}
<1>1. CASE backend = "spark"
  <2>1. Add(d, image, p, ok) = DvbAdd(SparkDevice(d, image, ok), p, ok)
    BY <1>1 DEF Add, SparkAdd
  <2> QED
    BY <1>1, <2>1, SoundDevice, SoundDvbAdd
<1>2. CASE backend = "triple" /\ ~measure[d]
  <2>1. Add(d, image, p, ok) = TripleAdd(image, p, ok)
    BY <1>2 DEF Add
  <2> QED
    BY <1>2, <2>1, SoundTripleAdd
<1>3. CASE backend = "triple" /\ measure[d]
  <2>1. Add(d, image, p, ok) = image
    BY <1>3 DEF Add
  <2> QED
    BY <2>1
<1>4. CASE backend \notin {"spark", "triple"}
  <2>1. Add(d, image, p, ok) = DvbAdd(image, p, ok)
    BY <1>4 DEF Add
  <2> QED
    BY <1>4, <2>1, SoundDvbAdd
<1> QED
  BY <1>1, <1>2, <1>3, <1>4

(* A walk of n steps is a function: its steps follow from each other.      *)
Drops(w, d, list, wanted, refused, n) ==
  w = [i \in 0 .. n |->
         IF i = 0 THEN Image(d) ELSE Dropped(w[i - 1], list[i].pid, wanted, refused)]
Adds(w, d, base, order, seen, refused, n) ==
  w = [i \in 0 .. n |->
         IF i = 0 THEN base ELSE Added(d, w[i - 1], order[i], seen, refused)]

LEMMA DroppingExists ==
  ASSUME NEW d, NEW list, NEW wanted, NEW refused, NEW n \in Nat
  PROVE  \E w : Drops(w, d, list, wanted, refused, n)
<1> DEFINE Step(w, i) == IF i = 0 THEN Image(d) ELSE Dropped(w[i - 1], list[i].pid, wanted, refused)
           Fails == {k \in Nat : ~\E w : w = [i \in 0 .. k |-> Step(w, i)]}
<1>1. SUFFICES Fails = {}
  BY <1>1 DEF Drops
<1>2. SUFFICES ASSUME Fails # {}
               PROVE  FALSE
  BY <1>2
<1>3. PICK k \in Fails : \A m \in Fails : k <= m
  <2>1. Fails \subseteq Nat
    OBVIOUS
  <2> QED
    BY <1>2, <2>1, LeastNumber
<1>4. k # 0
  <2>1. [i \in 0 .. 0 |-> Image(d)] = [i \in 0 .. 0 |-> Step([j \in 0 .. 0 |-> Image(d)], i)]
    OBVIOUS
  <2> QED
    BY <2>1
<1>5. k - 1 \in Nat /\ k - 1 \notin Fails
  BY <1>3, <1>4
<1>6. PICK w : w = [i \in 0 .. k - 1 |-> Step(w, i)]
  BY <1>5
<1> DEFINE x == [i \in 0 .. k |-> IF i < k THEN w[i] ELSE Step(w, k)]
<1>7. x = [i \in 0 .. k |-> Step(x, i)]
  <2>1. ASSUME NEW i \in 0 .. k PROVE x[i] = Step(x, i)
    <3>1. i # 0 => x[i - 1] = w[i - 1]
      BY <1>5
    <3>2. CASE i < k
      BY <1>5, <1>6, <3>1, <3>2
    <3>3. CASE i = k
      BY <1>4, <1>5, <3>1, <3>3
    <3> QED
      BY <1>5, <3>2, <3>3
  <2> QED
    BY <2>1
<1> QED
  BY <1>3, <1>7

LEMMA AddingExists ==
  ASSUME NEW d, NEW base, NEW order, NEW seen, NEW refused, NEW n \in Nat
  PROVE  \E w : Adds(w, d, base, order, seen, refused, n)
<1> DEFINE Step(w, i) == IF i = 0 THEN base ELSE Added(d, w[i - 1], order[i], seen, refused)
           Fails == {k \in Nat : ~\E w : w = [i \in 0 .. k |-> Step(w, i)]}
<1>1. SUFFICES Fails = {}
  BY <1>1 DEF Adds
<1>2. SUFFICES ASSUME Fails # {}
               PROVE  FALSE
  BY <1>2
<1>3. PICK k \in Fails : \A m \in Fails : k <= m
  <2>1. Fails \subseteq Nat
    OBVIOUS
  <2> QED
    BY <1>2, <2>1, LeastNumber
<1>4. k # 0
  <2>1. [i \in 0 .. 0 |-> base] = [i \in 0 .. 0 |-> Step([j \in 0 .. 0 |-> base], i)]
    OBVIOUS
  <2> QED
    BY <2>1
<1>5. k - 1 \in Nat /\ k - 1 \notin Fails
  <2>1. k \in Nat /\ k - 1 \in Nat /\ ~(k <= k - 1)
    BY <1>3, <1>4
  <2> QED
    BY <1>3, <2>1
<1>6. PICK w : w = [i \in 0 .. k - 1 |-> Step(w, i)]
  BY <1>5
<1> DEFINE x == [i \in 0 .. k |-> IF i < k THEN w[i] ELSE Step(w, k)]
<1>7. x = [i \in 0 .. k |-> Step(x, i)]
  <2>1. ASSUME NEW i \in 0 .. k PROVE x[i] = Step(x, i)
    <3>1. i # 0 => x[i - 1] = w[i - 1]
      BY <1>5
    <3>2. CASE i < k
      BY <1>5, <1>6, <3>1, <3>2
    <3>3. CASE i = k
      BY <1>4, <1>5, <3>1, <3>3
    <3> QED
      BY <1>5, <3>2, <3>3
  <2> QED
    BY <2>1
<1> QED
  BY <1>3, <1>7

(* The walks of ChangePids, with what they have made of the image so far.  *)
WalkOf(d, wanted, refused, dropped, added) ==
  LET seen == Tail(listed[d])
      order == SetToSeq(wanted)
  IN  /\ Drops(dropped, d, seen, wanted, refused, Len(seen))
      /\ Adds(added, d, dropped[Len(seen)], order, seen, refused, Len(order))
      /\ ChangedPids(d, wanted, refused) = added[Len(order)]
      /\ \A i \in 0 .. Len(seen) : Sound(d, dropped[i])
      /\ \A i \in 0 .. Len(order) : Sound(d, added[i])

(* The least step of a walk that is not Sound is none. *)
LEMMA WalksSound ==
  ASSUME DTypes, NEW d \in Demuxes, Sound(d, Image(d)), listed[d] # << >>,
         NEW wanted \in SUBSET Apids, NEW refused,
         backend = "triple" => fd[d] # NoFd,
         \A m \in Others(d) : files[m].open
  PROVE  \E dropped, added : WalkOf(d, wanted, refused, dropped, added)
<1> DEFINE seen == Tail(listed[d])
           order == SetToSeq(wanted)
           dropped[i \in 0 .. Len(seen)] ==
             IF i = 0 THEN Image(d)
                      ELSE Dropped(dropped[i - 1], seen[i].pid, wanted, refused)
           added[i \in 0 .. Len(order)] ==
             IF i = 0 THEN dropped[Len(seen)]
                      ELSE Added(d, added[i - 1], order[i], seen, refused)
<1>1. ChangedPids(d, wanted, refused) = added[Len(order)]
  BY DEF ChangedPids, Walks
<1>2. /\ listed[d] \in Seq(Entry) /\ seen \in Seq(Entry) /\ Len(seen) = Len(listed[d]) - 1
      /\ Len(seen) \in Nat /\ DOMAIN seen = 1 .. Len(seen)
      /\ DOMAIN listed[d] = 1 .. Len(listed[d])
      /\ \A i \in 1 .. Len(seen) : seen[i] = listed[d][i + 1]
  <2>1. listed[d] \in Seq(Entry)
    BY DEF DTypes
  <2> QED
    BY <2>1, HeadTailProperties
<1>3. /\ order \in [1 .. Cardinality(wanted) -> wanted]
      /\ \A i, j \in 1 .. Cardinality(wanted) : order[i] = order[j] => i = j
      /\ Cardinality(wanted) \in Nat
  <2>1. IsFiniteSet(wanted)
    BY DemuxAssumption, FS_Subset DEF DemuxAssumption
  <2> QED
    BY <2>1, Ordered, FS_CardinalityType
<1>4. Len(order) = Cardinality(wanted)
  BY <1>3
<1> HIDE DEF order
<1>5. dropped = [i \in 0 .. Len(seen) |->
                   IF i = 0 THEN Image(d)
                            ELSE Dropped(dropped[i - 1], seen[i].pid, wanted, refused)]
  <2> HIDE DEF seen
  <2>1. \E w : Drops(w, d, seen, wanted, refused, Len(seen))
    BY <1>2, DroppingExists
  <2> QED
    BY <2>1 DEF dropped, Drops
<1> HIDE DEF dropped
<1>6. added = [i \in 0 .. Len(order) |->
                   IF i = 0 THEN dropped[Len(seen)]
                            ELSE Added(d, added[i - 1], order[i], seen, refused)]
  <2> HIDE DEF seen
  <2> DEFINE base == dropped[Len(seen)]
  <2>1. \E w : Adds(w, d, base, order, seen, refused, Len(order))
    <3> HIDE DEF base
    <3>1. Len(order) \in Nat
      BY <1>3, <1>4
    <3> QED
      BY <3>1, AddingExists
  <2> QED
    BY <2>1 DEF added, Adds
<1> HIDE DEF added, seen
<1>7. /\ PidsOf(listed[d]) = PidsOf(seen) \cup {listed[d][1].pid}
      /\ \A i \in 1 .. Len(seen) : backend = "triple" => seen[i].pid # VideoPid
  <2>1. \A i \in 1 .. Len(listed[d]) :
          i = 1 \/ (i - 1 \in 1 .. Len(seen) /\ listed[d][i] = seen[i - 1])
    BY <1>2
  <2>2. /\ 1 \in 1 .. Len(listed[d])
        /\ \A i \in 1 .. Len(seen) : i + 1 \in 1 .. Len(listed[d]) /\ i + 1 # 1
    BY <1>2
  <2>3. PidsOf(listed[d]) = PidsOf(seen) \cup {listed[d][1].pid}
    <3>1. ASSUME NEW i \in 1 .. Len(listed[d])
          PROVE  listed[d][i].pid \in PidsOf(seen) \cup {listed[d][1].pid}
      <4>1. CASE i = 1
        BY <4>1
      <4>2. CASE i # 1
        <5>1. i - 1 \in DOMAIN seen /\ listed[d][i].pid = seen[i - 1].pid
          BY <1>2, <2>1, <4>2
        <5> QED
          BY <5>1 DEF PidsOf
      <4> QED
        BY <4>1, <4>2
    <3>2. ASSUME NEW i \in 1 .. Len(seen)
          PROVE  seen[i].pid \in PidsOf(listed[d])
      <4>1. i + 1 \in DOMAIN listed[d] /\ seen[i].pid = listed[d][i + 1].pid
        BY <1>2, <2>2
      <4> QED
        BY <4>1 DEF PidsOf
    <3>3. listed[d][1].pid \in PidsOf(listed[d])
      BY <1>2, <2>2 DEF PidsOf
    <3>4. PidsOf(listed[d]) \subseteq PidsOf(seen) \cup {listed[d][1].pid}
      BY <1>2, <3>1 DEF PidsOf
    <3>5. PidsOf(seen) \subseteq PidsOf(listed[d])
      BY <1>2, <3>2 DEF PidsOf
    <3> QED
      BY <3>3, <3>4, <3>5
  <2>4. backend = "triple" => \A i \in 1 .. Len(listed[d]) : i # 1 => listed[d][i].pid # VideoPid
    BY DEF Sound, Recorded, Image
  <2> QED
    BY <1>2, <2>2, <2>3, <2>4
(* The first walk, step by step. *)
<1> DEFINE DropOK(i) == /\ Sound(d, dropped[i])
                        /\ backend = "triple" =>
                             PidsOf(dropped[i].listed) \subseteq PidsOf(listed[d])
           DropBad == {i \in 0 .. Len(seen) : ~DropOK(i)}
<1>8. DropOK(0)
  BY <1>2, <1>5 DEF Image
<1>9. ASSUME NEW i \in 1 .. Len(seen), DropOK(i - 1)
      PROVE  DropOK(i)
  <2>1. dropped[i] = Dropped(dropped[i - 1], seen[i].pid, wanted, refused)
    BY <1>2, <1>5
  <2> QED
    BY <1>7, <1>9, <2>1, SoundRemove DEF Dropped
<1> HIDE DEF DropOK
<1>10. DropBad = {}
  <2> SUFFICES ASSUME DropBad # {}
               PROVE  FALSE
    OBVIOUS
  <2>1. DropBad \subseteq Nat
    BY <1>2
  <2>2. PICK k \in DropBad : \A m \in DropBad : k <= m
    BY <2>1, LeastNumber
  <2>3. k # 0 /\ k \in 0 .. Len(seen)
    BY <1>8, <2>2
  <2>4. k - 1 \notin DropBad /\ k - 1 \in 0 .. Len(seen) /\ k \in 1 .. Len(seen)
    BY <1>2, <2>2, <2>3
  <2> QED
    BY <1>9, <2>2, <2>4
<1>11. DropOK(Len(seen))
  BY <1>2, <1>10
(* The second walk: what it has added is wanted, each PID once. *)
<1> DEFINE Late(i) == {order[j] : j \in 1 .. i}
           AddOK(i) == /\ Sound(d, added[i])
                       /\ backend = "triple" =>
                            PidsOf(added[i].listed) \subseteq PidsOf(listed[d]) \cup Late(i)
           AddBad == {i \in 0 .. Len(order) : ~AddOK(i)}
<1>12. AddOK(0)
  <2>1. added[0] = dropped[Len(seen)]
    BY <1>3, <1>4, <1>6
  <2> QED
    BY <1>11, <2>1 DEF DropOK
<1>13. ASSUME NEW i \in 1 .. Len(order), AddOK(i - 1)
       PROVE  AddOK(i)
  <2>1. added[i] = Added(d, added[i - 1], order[i], seen, refused)
    BY <1>3, <1>4, <1>6
  <2>2. order[i] \in wanted /\ order[i] \in Pids /\ order[i] # VideoPid
    BY <1>3, <1>4, DemuxAssumption DEF DemuxAssumption, Pids
  <2>3. /\ Late(i) = Late(i - 1) \cup {order[i]}
        /\ order[i] \notin Late(i - 1) /\ VideoPid \notin Late(i - 1)
    <3>1. \A j : j \in 1 .. i <=> j \in 1 .. i - 1 \/ j = i
      BY <1>3, <1>4
    <3>2. Late(i) = Late(i - 1) \cup {order[i]}
      BY <3>1
    <3>3. order[i] \notin Late(i - 1)
      BY <1>3, <1>4
    <3>4. VideoPid \notin Late(i - 1)
      BY <1>3, <1>4, DemuxAssumption DEF DemuxAssumption
    <3> QED
      BY <3>2, <3>3, <3>4
  <2> DEFINE image == added[i - 1]
  <2>4. /\ Sound(d, image)
        /\ backend = "triple" =>
             PidsOf(image.listed) \subseteq PidsOf(listed[d]) \cup Late(i - 1)
    BY <1>13
  <2> HIDE DEF image, Late
  <2>5. CASE order[i] \in PidsOf(seen)
    BY <2>1, <2>3, <2>4, <2>5 DEF Added, image
  <2>6. CASE order[i] \notin PidsOf(seen)
    <3>1. added[i] = Add(d, image, order[i], order[i] \notin refused)
      BY <2>1, <2>6 DEF Added, image
    <3>2. ASSUME backend = "triple"
          PROVE  /\ image.fd # NoFd
                 /\ \/ image.listed = << >>
                    \/ /\ order[i] # VideoPid
                       /\ image.listed[1].pid = VideoPid => order[i] \notin PidsOf(image.listed)
      <4>1. image.fd # NoFd
        BY <2>4, <3>2 DEF Sound
      <4>2. ASSUME image.listed # << >>, image.listed[1].pid = VideoPid,
                   order[i] \in PidsOf(image.listed)
            PROVE  FALSE
        <5>1. VideoPid \in PidsOf(image.listed)
          <6>1. image.listed \in Seq(Entry)
            BY <2>4 DEF Sound, Images
          <6>2. 1 \in DOMAIN image.listed
            BY <4>2, <6>1
          <6> QED
            BY <4>2, <6>2 DEF PidsOf
        <5>2. VideoPid \notin PidsOf(seen)
          BY <1>2, <1>7, <3>2 DEF PidsOf
        <5>3. listed[d][1].pid = VideoPid
          BY <1>7, <2>3, <2>4, <3>2, <5>1, <5>2
        <5>4. order[i] = listed[d][1].pid
          BY <1>7, <2>3, <2>4, <2>6, <3>2, <4>2
        <5> QED
          BY <2>2, <5>3, <5>4
      <4> QED
        BY <2>2, <4>1, <4>2
    <3>3. /\ Sound(d, added[i])
          /\ backend = "triple" =>
               PidsOf(added[i].listed) \subseteq PidsOf(image.listed) \cup {order[i]}
      <4> DEFINE p == order[i]
                 ok == order[i] \notin refused
      <4>1. p \in Pids /\ added[i] = Add(d, image, p, ok)
        BY <2>2, <3>1
      <4>2. backend = "triple" =>
              /\ image.fd # NoFd
              /\ \/ image.listed = << >>
                 \/ /\ p # VideoPid
                    /\ image.listed[1].pid = VideoPid => p \notin PidsOf(image.listed)
        BY <3>2
      <4> HIDE DEF p, ok
      <4>3. /\ Sound(d, Add(d, image, p, ok))
            /\ backend = "triple" =>
                 PidsOf(Add(d, image, p, ok).listed) \subseteq PidsOf(image.listed) \cup {p}
        BY <2>4, <4>1, <4>2, SoundAdd
      <4> QED
        BY <4>1, <4>3 DEF p
    <3> QED
      BY <2>3, <2>4, <3>3
  <2> QED
    BY <2>5, <2>6
<1> HIDE DEF AddOK
<1>14. AddBad = {}
  <2> SUFFICES ASSUME AddBad # {}
               PROVE  FALSE
    OBVIOUS
  <2>1. AddBad \subseteq Nat
    BY <1>3, <1>4
  <2>2. PICK k \in AddBad : \A m \in AddBad : k <= m
    BY <2>1, LeastNumber
  <2>3. k # 0 /\ k \in 0 .. Len(order)
    BY <1>12, <2>2
  <2>4. k - 1 \notin AddBad /\ k - 1 \in 0 .. Len(order) /\ k \in 1 .. Len(order)
    BY <1>3, <1>4, <2>2, <2>3
  <2> QED
    BY <1>13, <2>2, <2>4
<1>15. \A i \in 0 .. Len(seen) : Sound(d, dropped[i])
  BY <1>10 DEF DropOK
<1>16. \A i \in 0 .. Len(order) : Sound(d, added[i])
  BY <1>14 DEF AddOK
<1>17. WalkOf(d, wanted, refused, dropped, added)
  BY <1>1, <1>5, <1>6, <1>15, <1>16, Zenon DEF WalkOf, Drops, Adds, seen, order
<1> QED
  BY <1>17

LEMMA SoundWalks ==
  ASSUME DTypes, NEW d \in Demuxes, Sound(d, Image(d)), listed[d] # << >>,
         NEW wanted \in SUBSET Apids, NEW refused,
         backend = "triple" => fd[d] # NoFd,
         \A m \in Others(d) : files[m].open
  PROVE  Sound(d, ChangedPids(d, wanted, refused))
<1>1. PICK dropped, added : WalkOf(d, wanted, refused, dropped, added)
  BY WalksSound
<1>2. Len(SetToSeq(wanted)) \in 0 .. Len(SetToSeq(wanted))
  <2>1. IsFiniteSet(wanted)
    BY DemuxAssumption, FS_Subset DEF DemuxAssumption
  <2>2. Cardinality(wanted) \in Nat /\ SetToSeq(wanted) \in [1 .. Cardinality(wanted) -> wanted]
    BY <2>1, Ordered, FS_CardinalityType
  <2>3. Len(SetToSeq(wanted)) = Cardinality(wanted)
    BY <2>2
  <2> QED
    BY <2>2, <2>3
<1> QED
  BY <1>1, <1>2 DEF WalkOf

-----------------------------------------------------------------------------
(* The inductive invariant.  Of each object: one that is gone has no       *)
(* descriptor, one whose Close is half done has an empty list and its old  *)
(* number, and any other has an open descriptor or none, a list that says  *)
(* what is recorded, and (libspark) the device of its last source.         *)
Half(d) == ctl[d] \in {"closing", "deleting"}

ObjectInv(d) ==
  /\ ctl[d] \in {"waiting", "deleted"} => fd[d] = NoFd
  /\ Half(d) => fd[d] # NoFd /\ listed[d] = << >>
  /\ ~Half(d) => /\ fd[d] # NoFd => files[fd[d]].open
                 /\ Recorded(Image(d)) /\ Current(Image(d))

(* libtriple: the object that has the transport stream is the only one,    *)
(* and counted.                                                            *)
Carrying(d) == type[d] = "tp" /\ fd[d] # NoFd /\ ~measure[d]
OneStream ==
  backend = "triple" =>
    /\ \A d, e \in Demuxes : Carrying(d) /\ Carrying(e) => d = e
    /\ \A d \in Demuxes : Carrying(d) => tpCount > 0

Objects == DescriptorsOwned /\ \A d \in Demuxes : ObjectInv(d)
DInv == DTypes /\ Objects /\ OneStream

(* The list of an object says the same while nobody touches its files. *)
LEMMA RecordedCarries ==
  ASSUME NEW old \in Images, NEW new, Recorded(old), new.fd = old.fd, new.listed = old.listed,
         \A n \in Fds : Mine(old, n) => new.files[n] = old.files[n]
  PROVE  Recorded(new)
<1>1. ASSUME backend = "triple", NEW i \in 1 .. Len(new.listed)
      PROVE  /\ new.listed[i].fd \in Fds /\ new.listed[i].fd # new.fd
             /\ new.files[new.listed[i].fd].open
             /\ new.files[new.listed[i].fd].pids = {new.listed[i].pid}
             /\ new.files[new.listed[i].fd].dev = new.files[new.fd].dev
  <2> DEFINE n == old.listed[i].fd
  <2>1. i \in DOMAIN old.listed /\ i \in 1 .. Len(old.listed)
    <3>1. old.listed \in Seq(Entry)
      BY DEF Images
    <3> QED
      BY <1>1, <3>1
  <2>2. n \in Fds /\ n # old.fd /\ old.files[n].open
        /\ old.files[n].pids = {old.listed[i].pid} /\ old.files[n].dev = old.files[old.fd].dev
    BY <1>1, <2>1, Zenon DEF Recorded
  <2>3. old.fd \in Fds /\ old.fd # NoFd
    <3>1. old.listed # << >>
      BY <2>1
    <3> QED
      BY <1>1, <3>1 DEF Recorded, Images
  <2>4. Mine(old, n) /\ Mine(old, old.fd)
    BY <1>1, <2>1 DEF Mine, ListFds
  <2> HIDE DEF n
  <2>5. new.files[n] = old.files[n] /\ new.files[old.fd] = old.files[old.fd]
    BY <2>2, <2>3, <2>4
  <2> QED
    BY <2>2, <2>5 DEF n
<1>2. backend = "triple" =>
        /\ \A i, j \in 1 .. Len(new.listed) : new.listed[i].fd = new.listed[j].fd => i = j
        /\ new.listed # << >> => new.fd # NoFd
        /\ \A i \in 1 .. Len(new.listed) : i # 1 => new.listed[i].pid # VideoPid
        /\ new.listed # << >> /\ new.listed[1].pid = VideoPid =>
             \A i, j \in 1 .. Len(new.listed) : new.listed[i].pid = new.listed[j].pid => i = j
  BY DEF Recorded
<1> QED
  BY <1>1, <1>2, Zenon DEF Recorded

LEMMA ImageTyped ==
  ASSUME DTypes, NEW d \in Demuxes
  PROVE  /\ Image(d) \in Images
         /\ \A n : ~Half(d) => (Owns(d, n) <=> Mine(Image(d), n))
<1>1. Image(d) \in Images
  BY DEF DTypes, TypeOK, Image, Images, File, Entry
<1>2. \A n : ~Half(d) => (Owns(d, n) <=> Mine(Image(d), n))
  BY DEF Half, Owns, Mine, Image, ShutListed, ListFds
<1> QED
  BY <1>1, <1>2

(* What an object owns is open; and it begins each call with a Sound image. *)
LEMMA OthersOpen ==
  ASSUME DTypes, Objects, NEW d \in Demuxes
  PROVE  \A m \in Others(d) : files[m].open
<1> SUFFICES ASSUME NEW m \in Fds, NEW e \in Demuxes, Owns(e, m)
             PROVE  files[m].open
  BY DEF Others
<1>1. ObjectInv(e) /\ ~Half(e)
  BY DEF Objects, Owns, Half
<1>2. CASE m = fd[e]
  <2>1. m # NoFd
    BY DEF Fds, NoFd
  <2> QED
    BY <1>1, <1>2, <2>1 DEF ObjectInv
<1>3. CASE m # fd[e]
  <2>1. backend = "triple" /\ \E i \in DOMAIN listed[e] : m = listed[e][i].fd
    BY <1>3 DEF Owns, ShutListed
  <2>2. PICK i \in DOMAIN listed[e] : m = listed[e][i].fd
    BY <2>1
  <2>3. i \in 1 .. Len(listed[e])
    BY <2>2 DEF DTypes
  <2> QED
    BY <1>1, <2>1, <2>2, <2>3 DEF ObjectInv, Recorded, Image
<1> QED
  BY <1>2, <1>3

LEMMA SoundNow ==
  ASSUME DTypes, Objects, NEW d \in Demuxes, ctl[d] = "idle"
  PROVE  Sound(d, Image(d))
<1>1. ~Half(d) /\ ObjectInv(d)
  BY DEF Half, Objects
<1>2. /\ Image(d) \in Images /\ \A n : Owns(d, n) <=> Mine(Image(d), n)
  BY <1>1, ImageTyped
<1>3. Image(d).files = files /\ Image(d).fd = fd[d] /\ Image(d).last = last[d]
  BY DEF Image
<1>4. ASSUME NEW n \in Others(d) PROVE ~Owns(d, n)
  BY <1>4 DEF Others, Objects, DescriptorsOwned
<1>5. ASSUME NEW n \in Fds, files[n].open PROVE Owns(d, n) \/ n \in Others(d)
  BY <1>5 DEF Others, Objects, DescriptorsOwned
<1>6. fd[d] # NoFd => Image(d).files[fd[d]].pids \subseteq Filtered(Image(d))
  BY <1>3 DEF Filtered
<1> QED
  BY <1>1, <1>2, <1>3, <1>4, <1>5, <1>6 DEF Sound, ObjectInv

(* A step that changes one object keeps the ownership of all of them, when *)
(* it leaves the files of the others alone.                                *)
LEMMA OwnedKept ==
  ASSUME DTypes, Objects, NEW d \in Demuxes, backend' = backend, ObjectInv(d)',
         \A e \in Demuxes \ {d} : /\ fd'[e] = fd[e] /\ listed'[e] = listed[e]
                                  /\ last'[e] = last[e] /\ ctl'[e] = ctl[e],
         \A n \in Others(d) : files'[n] = files[n] /\ ~Owns(d, n)',
         \A n \in Fds : files'[n].open => Owns(d, n)' \/ n \in Others(d)
  PROVE  Objects'
<1>1. ASSUME NEW e \in Demuxes \ {d}
      PROVE  /\ \A n : Owns(e, n)' <=> Owns(e, n)
             /\ \A n \in Fds : Owns(e, n) => n \in Others(d)
  BY <1>1 DEF Owns, ShutListed, Others
<1>2. ASSUME NEW e \in Demuxes \ {d} PROVE ObjectInv(e)'
  <2>1. ObjectInv(e) /\ Image(e) \in Images /\ (Half(e)' <=> Half(e))
    BY <1>2, ImageTyped DEF Objects, Half
  <2>2. \A n \in Fds : ~Half(e) /\ Mine(Image(e), n) => files'[n] = files[n]
    BY <1>1, <1>2, ImageTyped
  <2>3. ~Half(e) => (fd[e] # NoFd => fd[e] \in Fds /\ files'[fd[e]] = files[fd[e]])
    BY <1>2, <2>2 DEF DTypes, TypeOK, Mine, Image
  <2> DEFINE new == [files |-> files', fd |-> fd'[e], last |-> last'[e], listed |-> listed'[e]]
  <2>4. new.fd = Image(e).fd /\ new.listed = Image(e).listed /\ new.last = Image(e).last
        /\ new.files = files' /\ Image(e).files = files /\ Image(e).fd = fd[e]
    BY <1>2 DEF Image
  <2>5. Image(e)' = new
    BY DEF Image
  <2> HIDE DEF new
  <2>6. ~Half(e) => Recorded(new)
    <3> SUFFICES ASSUME ~Half(e)
                 PROVE  Recorded(new)
      OBVIOUS
    <3>1. Recorded(Image(e))
      BY <2>1 DEF ObjectInv
    <3>2. \A n \in Fds : Mine(Image(e), n) => new.files[n] = Image(e).files[n]
      BY <2>2, <2>4
    <3> QED
      BY <2>1, <2>4, <3>1, <3>2, RecordedCarries
  <2>7. ~Half(e) => Recorded(Image(e))'
    BY <2>5, <2>6 DEF Recorded
  <2>8. ~Half(e) => Current(Image(e))'
    <3>1. ~Half(e) => Current(new)
      BY <2>1, <2>3, <2>4 DEF ObjectInv, Current
    <3> QED
      BY <2>5, <3>1 DEF Current
  <2> QED
    BY <1>2, <2>1, <2>3, <2>7, <2>8 DEF ObjectInv
<1>3. DescriptorsOwned'
  <2>1. ASSUME NEW n \in Fds, files'[n].open PROVE \E e \in Demuxes : Owns(e, n)'
    BY <1>1, <2>1 DEF Others
  <2>2. ASSUME NEW n \in Fds, NEW e \in Demuxes, NEW f \in Demuxes, Owns(e, n)', Owns(f, n)'
        PROVE  e = f
    <3>1. CASE e = d \/ f = d
      BY <1>1, <2>2, <3>1
    <3>2. CASE e # d /\ f # d
      BY <1>1, <2>2, <3>2 DEF Objects, DescriptorsOwned
    <3> QED
      BY <3>1, <3>2
  <2>3. ASSUME NEW e \in Demuxes, ctl'[e] = "idle", fd'[e] # NoFd PROVE files'[fd'[e]].open
    <3>1. ObjectInv(e)'
      BY <1>2
    <3> QED
      BY <2>3, <3>1 DEF ObjectInv, Half
  <2> QED
    BY <2>1, <2>2, <2>3 DEF DescriptorsOwned
<1> QED
  BY <1>2, <1>3 DEF Objects

(* The marks stay Boolean. *)
LEMMA EmptiedTyped ==
  ASSUME NEW n
  PROVE  Emptied(n) \in [Demuxes -> BOOLEAN]
<1>1. \A e \in Demuxes : (emptied[e] \/ (reader[e] = "ready" /\ fd[e] = n)) \in BOOLEAN
  BY Zenon
<1> QED
  BY <1>1, Zenon DEF Emptied

(* A call that leaves a Sound image keeps the invariant. *)
LEMMA CommitKeeps ==
  ASSUME DInv, NEW d \in Demuxes, ctl[d] = "idle", NEW image, Sound(d, image), Commit(d, image)
  PROVE  DInv'
<1>1. /\ files' = image.files /\ fd' = [fd EXCEPT ![d] = image.fd]
      /\ last' = [last EXCEPT ![d] = image.last]
      /\ listed' = [listed EXCEPT ![d] = image.listed]
      /\ emptied' \in [Demuxes -> BOOLEAN]
      /\ type' = type /\ measure' = measure /\ ctl' = ctl /\ reader' = reader
      /\ polled' = polled /\ backend' = backend /\ source' = source /\ tpCount' = tpCount
  <2> DEFINE marks == Emptied(image.fd)
             here == \/ marks[d]
                     \/ /\ reader[d] \in {"polling", "ready"} /\ image.fd # NoFd
                        /\ image.last # last[d] \/ fd[d] = NoFd
  <2>1. marks \in [Demuxes -> BOOLEAN]
    BY EmptiedTyped
  <2>2. emptied' = [marks EXCEPT ![d] = here]
    BY Zenon DEF Commit
  <2>3. here \in BOOLEAN
    BY Zenon
  <2> HIDE DEF marks, here
  <2>4. emptied' \in [Demuxes -> BOOLEAN]
    BY <2>1, <2>2, <2>3
  <2> QED
    BY <2>4 DEF Commit, settings, reading, globals
<1>2. /\ image.files \in [Fds -> File] /\ image.fd \in Fds \cup {NoFd}
      /\ image.last \in Sources \cup {NoSource} /\ image.listed \in Seq(Entry)
  BY DEF Sound, Images
<1>3. /\ files' \in [Fds -> File] /\ fd' \in [Demuxes -> Fds \cup {NoFd}]
      /\ last' \in [Demuxes -> Sources \cup {NoSource}] /\ listed' \in [Demuxes -> Seq(Entry)]
  BY <1>1, <1>2 DEF DInv, DTypes, TypeOK
<1>4. DTypes'
  BY <1>1, <1>3 DEF DInv, DTypes, TypeOK, File, Entry
<1>5. /\ fd'[d] = image.fd /\ last'[d] = image.last /\ listed'[d] = image.listed
      /\ \A e \in Demuxes \ {d} : /\ fd'[e] = fd[e] /\ listed'[e] = listed[e]
                                  /\ last'[e] = last[e] /\ ctl'[e] = ctl[e]
  BY <1>1 DEF DInv, DTypes, TypeOK
<1>6. \A n : Owns(d, n)' <=> Mine(image, n)
  BY <1>1, <1>5 DEF Owns, Mine, ShutListed, ListFds
<1>7. ObjectInv(d)'
  <2> DEFINE new == [files |-> files', fd |-> fd'[d], last |-> last'[d], listed |-> listed'[d]]
  <2>1. Image(d)' = new
    BY DEF Image
  <2>2. new.files = image.files /\ new.fd = image.fd /\ new.last = image.last
        /\ new.listed = image.listed
    BY <1>1, <1>5
  <2> HIDE DEF new
  <2>3. Recorded(new) /\ Current(new)
    BY <2>2 DEF Sound, Recorded, Current
  <2>4. Recorded(Image(d))' /\ Current(Image(d))'
    BY <1>1, <2>1, <2>3 DEF Recorded, Current
  <2>5. fd'[d] # NoFd => files'[fd'[d]].open
    BY <1>1, <1>5 DEF Sound
  <2> QED
    BY <1>1, <2>4, <2>5 DEF ObjectInv, Half
<1>8. Objects'
  <2>1. \A n \in Others(d) : files'[n] = files[n] /\ ~Owns(d, n)'
    BY <1>1, <1>6 DEF Sound
  <2>2. \A n \in Fds : files'[n].open => Owns(d, n)' \/ n \in Others(d)
    BY <1>1, <1>6 DEF Sound
  <2> QED
    BY <1>1, <1>5, <1>7, <2>1, <2>2, OwnedKept DEF DInv
<1>9. OneStream'
  <2>1. backend = "triple" => fd' = fd
    BY <1>1 DEF Sound, DInv, DTypes, TypeOK
  <2> QED
    BY <1>1, <2>1 DEF DInv, OneStream, Carrying
<1> QED
  BY <1>4, <1>8, <1>9 DEF DInv

-----------------------------------------------------------------------------
(* The calls that filter change the object's image, and keep it sound.     *)
Committed(d) == ctl[d] = "idle" /\ \E image : Sound(d, image) /\ Commit(d, image)

LEMMA FiltersSound ==
  ASSUME DInv, NEW d \in Demuxes, NEW p \in Pids, NEW ok \in BOOLEAN,
         listed[d] = << >>, Filters(d, p, ok)
  PROVE  Committed(d)
<1>1. ctl[d] = "idle"
  BY DEF Filters, SectionFilter, SparkPesFilter, AzboxPesFilter, PcPesFilter,
         RaspiPesFilter, TriplePesFilter, On
<1>2. DTypes /\ Objects /\ Sound(d, Image(d)) /\ \A m \in Others(d) : files[m].open
  BY <1>1, SoundNow, OthersOpen DEF DInv
<1> DEFINE opened == SparkDevice(d, Image(d), ok)
<1>3. ASSUME NEW q \in BOOLEAN, backend # "spark"
      PROVE  Sound(d, SetPids(Image(d), {p}, q))
  BY <1>2, <1>3, SoundPids
<1>4. ASSUME backend = "spark"
      PROVE  Sound(d, opened) /\ Sound(d, SetPids(opened, {p}, ok))
  <2>1. Sound(d, opened) /\ (opened.fd # NoFd => opened.last = source[Num[d]])
    BY <1>2, <1>4, SoundDevice
  <2> HIDE DEF opened
  <2>2. Sound(d, SetPids(opened, {p}, ok))
    BY <1>2, <2>1, SoundPids
  <2> QED
    BY <2>1, <2>2
<1>5. CASE SectionFilter(d, p, ok)
  BY <1>1, <1>3, <1>4, <1>5, Zenon DEF Committed, SectionFilter
<1>6. CASE SparkPesFilter(d, p, ok)
  BY <1>1, <1>4, <1>6, Zenon DEF Committed, SparkPesFilter, On
<1>7. CASE AzboxPesFilter(d, p, ok)
  BY <1>1, <1>3, <1>7, Zenon DEF Committed, AzboxPesFilter, On
<1>8. CASE \E skip \in BOOLEAN : PcPesFilter(d, p, ok, skip)
  BY <1>1, <1>2, <1>3, <1>8, Zenon DEF Committed, PcPesFilter, On
<1>9. CASE \E skip \in BOOLEAN : RaspiPesFilter(d, p, ok, skip)
  BY <1>1, <1>2, <1>3, <1>9, Zenon DEF Committed, RaspiPesFilter, On
<1>10. CASE TriplePesFilter(d, p, ok)
  <2>1. backend = "triple" /\ fd[d] # NoFd
    BY <1>10 DEF TriplePesFilter, On
  <2>2. Sound(d, TripleAdd(Image(d), p, ok))
    <3>1. Image(d).fd # NoFd /\ Image(d).listed = << >>
      BY <2>1 DEF Image
    <3> QED
      BY <1>2, <2>1, <3>1, SoundTripleAdd
  <2>3. Sound(d, SetPids(Image(d), {p}, ok))
    BY <1>3, <2>1
  <2> QED
    BY <1>1, <1>10, <2>2, <2>3, Zenon DEF Committed, TriplePesFilter
<1> QED
  BY <1>5, <1>6, <1>7, <1>8, <1>9, <1>10 DEF Filters

LEMMA PidsSound ==
  ASSUME DInv, NEW d \in Demuxes,
         \/ \E p \in Apids, ok \in BOOLEAN : RecordAddPid(d, p, ok) \/ RemovePid(d, p, ok)
         \/ \E wanted, refused \in SUBSET Apids : ChangePids(d, wanted, refused)
  PROVE  Committed(d)
<1>1. ctl[d] = "idle"
  BY DEF RecordAddPid, AddPid, RemovePid, ChangePids
<1>2. DTypes /\ Objects /\ Sound(d, Image(d)) /\ \A m \in Others(d) : files[m].open
  BY <1>1, SoundNow, OthersOpen DEF DInv
<1>3. Image(d).fd = fd[d] /\ Image(d).listed = listed[d]
  BY DEF Image
<1>4. ASSUME NEW p \in Apids, NEW ok \in BOOLEAN, RecordAddPid(d, p, ok)
      PROVE  Committed(d)
  <2>1. p \in Pids /\ p # VideoPid
    BY DemuxAssumption DEF DemuxAssumption, Pids
  <2>2. p \notin PidsOf(listed[d]) /\ (backend = "triple" => fd[d] # NoFd)
        /\ Commit(d, Add(d, Image(d), p, ok))
    BY <1>4 DEF RecordAddPid, AddPid
  <2>3. Sound(d, Add(d, Image(d), p, ok))
    BY <1>2, <1>3, <2>1, <2>2, SoundAdd
  <2> QED
    BY <1>1, <2>2, <2>3 DEF Committed
<1>5. ASSUME NEW p \in Apids, NEW ok \in BOOLEAN, RemovePid(d, p, ok)
      PROVE  Committed(d)
  <2>1. p # VideoPid
    BY DemuxAssumption DEF DemuxAssumption
  <2>2. Sound(d, RemovePidFrom(Image(d), p, ok))
    BY <1>2, <2>1, SoundRemove
  <2> QED
    BY <1>1, <1>5, <2>2, Zenon DEF Committed, RemovePid
<1>6. ASSUME NEW wanted \in SUBSET Apids, NEW refused \in SUBSET Apids,
             ChangePids(d, wanted, refused)
      PROVE  Committed(d)
  <2>1. Sound(d, ChangedPids(d, wanted, refused))
    BY <1>2, <1>6, SoundWalks DEF ChangePids
  <2> QED
    BY <1>1, <1>6, <2>1, Zenon DEF Committed, ChangePids
<1> QED
  BY <1>4, <1>5, <1>6

(* What Open does to the object that had no descriptor.                    *)
LEMMA OpenDeviceKeeps ==
  ASSUME DInv, NEW d \in Demuxes, ctl[d] = "idle", NEW dev \in 0 .. 2, NEW ok,
         OpenDevice(d, dev, ok), backend # "spark"
  PROVE  /\ Objects'
         /\ files' \in [Fds -> File] /\ fd' \in [Demuxes -> Fds \cup {NoFd}]
         /\ fd[d] = NoFd /\ \A e \in Demuxes \ {d} : fd'[e] = fd[e]
<1> DEFINE n == LowestFree(files)
<1>1. /\ fd[d] = NoFd /\ backend' = backend /\ ctl' = ctl /\ last' = last /\ listed' = listed
      /\ DTypes /\ Objects /\ ObjectInv(d) /\ files \in [Fds -> File]
      /\ fd \in [Demuxes -> Fds \cup {NoFd}]
  BY DEF OpenDevice, DInv, Objects, DTypes, TypeOK, File
<1>2. ~Half(d) /\ Image(d).listed = listed[d] /\ Image(d).fd = fd[d]
  BY DEF Half, Image
<1>3. backend = "triple" => listed[d] = << >>
  BY <1>1, <1>2 DEF ObjectInv, Recorded
<1>4. ObjectInv(d)' <=> (fd'[d] # NoFd => files'[fd'[d]].open)
  <2>1. ~Half(d)' /\ ctl'[d] = "idle"
    BY <1>1 DEF Half
  <2>2. backend' = "triple" => listed'[d] = << >>
    BY <1>1, <1>3
  <2>3. Recorded(Image(d))' /\ Current(Image(d))'
    <3>1. Image(d).listed' = listed'[d]
      BY DEF Image
    <3>2. Current(Image(d))'
      BY <1>1 DEF Current
    <3>3. backend' = "triple" => Len(listed'[d]) = 0
      BY <2>2
    <3> QED
      BY <2>2, <3>1, <3>2, <3>3 DEF Recorded
  <2> QED
    BY <2>1, <2>3 DEF ObjectInv
<1>5. CASE ok /\ FreeFds(files) # {}
  <2>1. files' = [files EXCEPT ![n] = Opened(dev)] /\ fd' = [fd EXCEPT ![d] = n]
    BY <1>5 DEF OpenDevice
  <2>2. n \in Fds /\ ~files[n].open /\ n # NoFd
    BY <1>5, LowestIsFree DEF Fds, NoFd
  <2> HIDE DEF n
  <2>3. Opened(dev) \in File /\ Opened(dev).open
    BY DEF Opened, Unopened, File
  <2>4. files' \in [Fds -> File] /\ files'[n].open
    <3>1. [files EXCEPT ![n] = Opened(dev)] \in [Fds -> File]
      BY <1>1, <2>3
    <3> QED
      BY <1>1, <2>1, <2>2, <2>3, <3>1
  <2>5. /\ fd' \in [Demuxes -> Fds \cup {NoFd}] /\ fd'[d] = n
        /\ \A e \in Demuxes \ {d} : fd'[e] = fd[e]
    BY <1>1, <2>1, <2>2
  <2>6. ObjectInv(d)'
    BY <1>4, <2>4, <2>5
  <2>7. ASSUME NEW m \in Others(d) PROVE files'[m] = files[m] /\ ~Owns(d, m)'
    <3>1. m \in Fds /\ files[m].open /\ m # n
      BY <1>1, <2>2, <2>7, OthersOpen DEF Others
    <3>2. ~Owns(d, m)'
      BY <1>1, <1>3, <2>5, <3>1 DEF Owns, ShutListed
    <3> QED
      BY <1>1, <2>1, <3>1, <3>2
  <2>8. ASSUME NEW m \in Fds, files'[m].open PROVE Owns(d, m)' \/ m \in Others(d)
    <3>1. CASE m = n
      BY <1>1, <2>5, <3>1 DEF Owns
    <3>2. CASE m # n
      <4>1. files[m].open
        BY <1>1, <2>1, <2>8, <3>2
      <4>2. ~Owns(d, m)
        BY <1>1, <1>3, <3>2 DEF Owns, ShutListed, Fds, NoFd
      <4> QED
        BY <1>1, <4>1, <4>2 DEF Objects, DescriptorsOwned, Others
    <3> QED
      BY <3>1, <3>2
  <2> QED
    BY <1>1, <2>4, <2>5, <2>6, <2>7, <2>8, OwnedKept
<1>6. CASE ~(ok /\ FreeFds(files) # {})
  <2>1. files' = files /\ fd' = fd
    BY <1>6 DEF OpenDevice
  <2>2. Objects'
    BY <1>1, <2>1 DEF Objects, DescriptorsOwned, Owns, ShutListed, ObjectInv,
                      Half, Recorded, Current, Image
  <2> QED
    BY <1>1, <2>1, <2>2
<1> QED
  BY <1>5, <1>6

(* Open. *)
LEMMA OpensKeep ==
  ASSUME DInv, NEW d \in Demuxes, NEW t \in {"psi", "tp", "av"}, NEW ok \in BOOLEAN,
         Opens(d, t, ok)
  PROVE  DInv'
<1>1. DTypes /\ Objects /\ OneStream /\ TypeOK /\ measure \in [Demuxes -> BOOLEAN]
      /\ type \in [Demuxes -> {"invalid", "psi", "tp", "av"}] /\ tpCount \in Nat
  BY DEF DInv, DTypes, TypeOK
(* On a port other than libtriple the count has no meaning. *)
<1>2. ASSUME NEW dev \in 0 .. 2, ctl[d] = "idle", OpenDevice(d, dev, ok), backend # "spark",
             type' \in [Demuxes -> {"invalid", "psi", "tp", "av"}],
             measure' \in [Demuxes -> BOOLEAN], tpCount' \in Nat, OneStream'
      PROVE  DInv'
  <2>1. Objects' /\ files' \in [Fds -> File] /\ fd' \in [Demuxes -> Fds \cup {NoFd}]
    BY <1>2, OpenDeviceKeeps
  <2>2. DTypes'
    BY <1>1, <1>2, <2>1 DEF OpenDevice, DTypes, TypeOK, reading, File
  <2> QED
    BY <1>2, <2>1, <2>2 DEF DInv
<1>3. CASE AzboxOpen(d, t, ok) \/ PcOpen(d, t, ok)
  <2>1. /\ backend \notin {"spark", "triple"} /\ ctl[d] = "idle" /\ OpenDevice(d, 0, ok)
        /\ backend' = backend
        /\ measure' = measure /\ tpCount' = tpCount
        /\ type' = type \/ type' = [type EXCEPT ![d] = t]
    BY <1>3 DEF AzboxOpen, PcOpen, On, OpenDevice
  <2>2. type' \in [Demuxes -> {"invalid", "psi", "tp", "av"}]
    BY <1>1, <2>1
  <2>3. OneStream'
    BY <2>1 DEF OneStream
  <2> QED
    BY <1>1, <1>2, <2>1, <2>2, <2>3
<1>4. ASSUME NEW sized \in BOOLEAN, TripleOpen(d, t, sized, ok) PROVE DInv'
  <2>1. backend = "triple" /\ ctl[d] = "idle"
    BY <1>4 DEF TripleOpen, On
  <2>2. CASE t = "tp" /\ ~(Num[d] = 0 /\ sized) /\ tpCount >= MaxTs
    <3>1. /\ type' = [type EXCEPT ![d] = "invalid"] /\ fd[d] = NoFd
          /\ measure' = measure /\ ctl' = ctl /\ reader' = reader /\ polled' = polled
          /\ backend' = backend /\ source' = source /\ tpCount' = tpCount /\ fd' = fd
          /\ last' = last /\ listed' = listed /\ emptied' = emptied /\ files' = files
      BY <1>4, <2>2 DEF TripleOpen, settings, reading, globals
    <3>2. type' \in [Demuxes -> {"invalid", "psi", "tp", "av"}]
      BY <1>1, <3>1
    <3>3. DTypes'
      BY <1>1, <3>1, <3>2 DEF DTypes, TypeOK
    <3>4. Objects'
      BY <1>1, <3>1 DEF Objects, DescriptorsOwned, Owns, ShutListed, ObjectInv,
                        Half, Recorded, Current, Image
    <3>5. OneStream'
      BY <1>1, <3>1 DEF OneStream, Carrying
    <3> QED
      BY <3>3, <3>4, <3>5 DEF DInv
  <2>3. CASE t = "tp" /\ ~(Num[d] = 0 /\ sized) /\ ~(tpCount >= MaxTs)
    <3>1. /\ tpCount' = tpCount + 1 /\ OpenDevice(d, tpCount + 1, ok) /\ measure' = measure
          /\ type' = IF fd'[d] = NoFd THEN type ELSE [type EXCEPT ![d] = t]
      BY <1>4, <2>3 DEF TripleOpen
    <3>2. tpCount = 0 /\ tpCount + 1 \in 0 .. 2 /\ tpCount' = 1
      BY <1>1, <2>3, <3>1 DEF MaxTs
    <3>3. \A e \in Demuxes : ~Carrying(e)
      BY <1>1, <2>1, <3>2 DEF OneStream
    <3>4. \A e \in Demuxes \ {d} : fd'[e] = fd[e] /\ type'[e] = type[e]
      BY <1>1, <2>1, <3>1, <3>2, OpenDeviceKeeps
    <3>5. type' \in [Demuxes -> {"invalid", "psi", "tp", "av"}]
      BY <1>1, <3>1
    <3>6. OneStream'
      BY <3>1, <3>2, <3>3, <3>4 DEF OneStream, Carrying
    <3> QED
      BY <1>1, <1>2, <2>1, <3>1, <3>2, <3>5, <3>6
  <2>4. CASE ~(t = "tp" /\ ~(Num[d] = 0 /\ sized))
    <3> DEFINE dev == IF t = "tp" THEN MeasureDevice ELSE Num[d]
    <3>1. /\ measure' = [measure EXCEPT ![d] = @ \/ t = "tp"] /\ OpenDevice(d, dev, ok)
          /\ type' = IF fd'[d] = NoFd THEN type ELSE [type EXCEPT ![d] = t]
          /\ tpCount' = tpCount
      BY <1>4, <2>4 DEF TripleOpen
    <3>2. dev \in 0 .. 2
      <4>1. MeasureDevice \in 0 .. 2 /\ Num[d] \in 0 .. 2
        BY DemuxAssumption DEF DemuxAssumption, MeasureDevice
      <4> QED
        BY <4>1
    <3> HIDE DEF dev
    <3>3. \A e \in Demuxes \ {d} : fd'[e] = fd[e] /\ type'[e] = type[e] /\ measure'[e] = measure[e]
      BY <1>1, <2>1, <3>1, <3>2, OpenDeviceKeeps
    <3>4. type' \in [Demuxes -> {"invalid", "psi", "tp", "av"}] /\ measure' \in [Demuxes -> BOOLEAN]
      <4>1. (measure[d] \/ t = "tp") \in BOOLEAN
        OBVIOUS
      <4> QED
        BY <1>1, <3>1, <4>1
    <3>5. ~Carrying(d)'
      <4>1. CASE fd'[d] = NoFd
        BY <4>1 DEF Carrying
      <4>2. CASE fd'[d] # NoFd /\ t = "tp"
        BY <1>1, <3>1, <4>2 DEF Carrying
      <4>3. CASE fd'[d] # NoFd /\ t # "tp"
        <5>1. type'[d] = t
          BY <1>1, <3>1, <4>3
        <5> QED
          BY <4>3, <5>1 DEF Carrying
      <4> QED
        BY <4>1, <4>2, <4>3
    <3>6. OneStream'
      <4>1. \A e \in Demuxes : Carrying(e)' => Carrying(e)
        BY <3>3, <3>5 DEF Carrying
      <4>2. backend' = backend
        BY <3>1 DEF OpenDevice
      <4> QED
        BY <1>1, <3>1, <4>1, <4>2 DEF OneStream
    <3> QED
      BY <1>1, <1>2, <2>1, <3>1, <3>2, <3>4, <3>6
  <2> QED
    BY <2>2, <2>3, <2>4
<1> QED
  BY <1>3, <1>4 DEF Opens

LEMMA SparkOpenKeeps ==
  ASSUME DInv, NEW d \in Demuxes, NEW t \in {"psi", "tp", "av"}, SparkOpen(d, t)
  PROVE  DInv'
<1>1. /\ type' = [type EXCEPT ![d] = t] /\ backend = "spark"
      /\ measure' = measure /\ ctl' = ctl /\ reader' = reader /\ polled' = polled
      /\ backend' = backend /\ source' = source /\ tpCount' = tpCount /\ fd' = fd
      /\ last' = last /\ listed' = listed /\ emptied' = emptied /\ files' = files
  BY DEF SparkOpen, On, reading, globals
<1>2. DTypes'
  <2>1. type' \in [Demuxes -> {"invalid", "psi", "tp", "av"}]
    BY <1>1 DEF DInv, DTypes, TypeOK
  <2> QED
    BY <1>1, <2>1 DEF DInv, DTypes, TypeOK
<1>3. Objects'
  BY <1>1 DEF DInv, Objects, DescriptorsOwned, Owns, ShutListed, ObjectInv,
              Half, Recorded, Current, Image
<1> QED
  BY <1>1, <1>2, <1>3 DEF DInv, OneStream

(* Close, and the destructor on an open descriptor: the first half.        *)
LEMMA ShutdownKeeps ==
  ASSUME DInv, NEW d \in Demuxes, NEW to \in {"closing", "deleting"},
         ctl[d] = "idle", fd[d] # NoFd, Shutdown(d), ctl' = [ctl EXCEPT ![d] = to],
         UNCHANGED <<type, measure, reading, globals, fd, last>>
  PROVE  DInv'
<1>1. DTypes /\ Objects /\ OneStream /\ TypeOK /\ files \in [Fds -> File]
      /\ ctl \in [Demuxes -> {"idle", "closing", "deleting", "waiting", "deleted"}]
      /\ listed \in [Demuxes -> Seq(Entry)]
  BY DEF DInv, DTypes, TypeOK, File
<1>2. /\ type' = type /\ measure' = measure /\ reader' = reader /\ polled' = polled
      /\ backend' = backend /\ source' = source /\ tpCount' = tpCount /\ fd' = fd
      /\ last' = last /\ emptied' \in [Demuxes -> BOOLEAN]
  BY EmptiedTyped DEF reading, globals, Shutdown
<1>3. /\ files' = [n \in Fds |-> IF Owns(d, n) THEN Unopened ELSE files[n]]
      /\ listed' = [listed EXCEPT ![d] = << >>]
  BY DEF Shutdown, Owns
<1>4. files' \in [Fds -> File]
  <2>1. Unopened \in File
    BY DEF Unopened, File
  <2> QED
    BY <1>1, <1>3, <2>1
<1>5. /\ ctl' \in [Demuxes -> {"idle", "closing", "deleting", "waiting", "deleted"}]
      /\ ctl'[d] = to /\ listed' \in [Demuxes -> Seq(Entry)] /\ listed'[d] = << >>
      /\ \A e \in Demuxes \ {d} : ctl'[e] = ctl[e] /\ listed'[e] = listed[e]
  BY <1>1, <1>3
<1>6. DTypes'
  BY <1>1, <1>2, <1>4, <1>5 DEF DTypes, TypeOK, File, Entry
<1>7. Half(d)' /\ ObjectInv(d)'
  BY <1>2, <1>5 DEF Half, ObjectInv
<1>8. ASSUME NEW n \in Others(d) PROVE files'[n] = files[n] /\ ~Owns(d, n)'
  <2>1. n \in Fds /\ ~Owns(d, n)
    BY <1>1, <1>8 DEF Others, Objects, DescriptorsOwned
  <2> QED
    BY <1>3, <1>5, <2>1 DEF Owns
<1>9. ASSUME NEW n \in Fds, files'[n].open PROVE n \in Others(d)
  <2>1. ~Owns(d, n) /\ files[n].open
    BY <1>3, <1>9 DEF Unopened
  <2> QED
    BY <1>1, <2>1 DEF Others, Objects, DescriptorsOwned
<1>10. Objects'
  BY <1>1, <1>2, <1>5, <1>7, <1>8, <1>9, OwnedKept
<1>11. OneStream'
  BY <1>1, <1>2 DEF OneStream, Carrying
<1> QED
  BY <1>6, <1>10, <1>11 DEF DInv

(* The second half, which also takes the transport stream off the count.   *)
LEMMA CloseEndKeeps ==
  ASSUME DInv, NEW d \in Demuxes, CloseEnd(d)
  PROVE  DInv'
<1>1. DTypes /\ Objects /\ OneStream /\ TypeOK /\ fd \in [Demuxes -> Fds \cup {NoFd}]
      /\ ctl \in [Demuxes -> {"idle", "closing", "deleting", "waiting", "deleted"}]
      /\ tpCount \in Nat /\ ObjectInv(d) /\ Half(d)
  BY DEF DInv, DTypes, TypeOK, Objects, CloseEnd, Half
<1>2. /\ type' = type /\ measure' = measure /\ reader' = reader /\ polled' = polled
      /\ backend' = backend /\ source' = source /\ listed' = listed
      /\ last' = last /\ emptied' = emptied /\ files' = files
      /\ fd' = [fd EXCEPT ![d] = NoFd]
      /\ tpCount' = IF backend = "triple" /\ type[d] = "tp" /\ ~measure[d] /\ tpCount > 0
                    THEN tpCount - 1 ELSE tpCount
  BY DEF CloseEnd, reading
<1>3. /\ ctl' \in [Demuxes -> {"idle", "closing", "deleting", "waiting", "deleted"}]
      /\ ctl'[d] \in {"idle", "waiting"}
      /\ \A e \in Demuxes \ {d} : ctl'[e] = ctl[e]
  BY <1>1 DEF CloseEnd
<1>4. /\ fd' \in [Demuxes -> Fds \cup {NoFd}] /\ fd'[d] = NoFd
      /\ \A e \in Demuxes \ {d} : fd'[e] = fd[e]
  BY <1>1, <1>2
<1>5. tpCount' \in Nat
  BY <1>1, <1>2
<1>6. DTypes'
  BY <1>1, <1>2, <1>3, <1>4, <1>5 DEF DTypes, TypeOK
<1>7. listed[d] = << >> /\ fd[d] # NoFd
  BY <1>1 DEF ObjectInv
<1>8. ObjectInv(d)'
  <2>1. Image(d).fd' = NoFd /\ Image(d).listed' = << >> /\ Len(Image(d).listed') = 0
    BY <1>2, <1>4, <1>7 DEF Image
  <2>2. Recorded(Image(d))' /\ Current(Image(d))'
    BY <2>1 DEF Recorded, Current
  <2> QED
    BY <1>3, <1>4, <2>2 DEF ObjectInv, Half
<1>9. Objects'
  <2>1. \A n \in Fds : ~Owns(d, n)
    BY <1>1 DEF Owns, Half
  <2>2. \A n \in Others(d) : files'[n] = files[n] /\ ~Owns(d, n)'
    BY <1>2, <1>4, <1>7 DEF Others, Owns, ShutListed, Fds, NoFd
  <2>3. \A n \in Fds : files'[n].open => n \in Others(d)
    BY <1>1, <1>2, <2>1 DEF Others, Objects, DescriptorsOwned
  <2> QED
    BY <1>1, <1>2, <1>3, <1>4, <1>8, <2>2, <2>3, OwnedKept
<1>10. OneStream'
  <2> SUFFICES ASSUME backend = "triple"
               PROVE  OneStream'
    BY <1>2 DEF OneStream
  <2>1. \A e \in Demuxes : Carrying(e)' => e # d /\ Carrying(e)
    BY <1>2, <1>4 DEF Carrying
  <2>2. CASE type[d] = "tp" /\ ~measure[d]
    <3>1. Carrying(d)
      BY <1>7, <2>2 DEF Carrying
    <3>2. \A e \in Demuxes : ~Carrying(e)'
      BY <1>1, <2>1, <3>1 DEF OneStream
    <3> QED
      BY <3>2 DEF OneStream
  <2>3. CASE ~(type[d] = "tp" /\ ~measure[d])
    <3>1. tpCount' = tpCount
      BY <1>2, <2>3
    <3> QED
      BY <1>1, <1>2, <2>1, <3>1 DEF OneStream
  <2> QED
    BY <2>2, <2>3
<1> QED
  BY <1>6, <1>9, <1>10 DEF DInv

(* The destructor of an object that is not open, its end, and the          *)
(* constructor.                                                            *)
LEMMA RestKeeps ==
  ASSUME DInv, NEW d \in Demuxes, fd[d] = NoFd,
         ctl' = [ctl EXCEPT ![d] = ctl'[d]], ctl'[d] \in {"idle", "waiting", "deleted"},
         fd' = fd, files' = files, backend' = backend, tpCount' = tpCount,
         \A e \in Demuxes \ {d} : /\ listed'[e] = listed[e] /\ last'[e] = last[e]
                                  /\ type'[e] = type[e] /\ measure'[e] = measure[e],
         listed'[d] \in {listed[d], << >>}, ~Half(d), DTypes'
  PROVE  DInv'
<1>1. DTypes /\ Objects /\ OneStream /\ ObjectInv(d)
      /\ ctl \in [Demuxes -> {"idle", "closing", "deleting", "waiting", "deleted"}]
  BY DEF DInv, DTypes, TypeOK, Objects
<1>2. \A e \in Demuxes \ {d} : ctl'[e] = ctl[e]
  BY <1>1
<1>3. backend = "triple" => listed[d] = << >>
  <2>1. Image(d).fd = NoFd /\ Image(d).listed = listed[d]
    BY DEF Image
  <2> QED
    BY <1>1, <2>1 DEF ObjectInv, Recorded
<1>4. ObjectInv(d)'
  <2>1. Image(d).fd' = NoFd /\ Image(d).listed' = listed'[d]
    BY DEF Image
  <2>2. backend' = "triple" => listed'[d] = << >> /\ Len(listed'[d]) = 0
    BY <1>3
  <2>3. Recorded(Image(d))' /\ Current(Image(d))'
    BY <2>1, <2>2 DEF Recorded, Current
  <2> QED
    BY <2>3 DEF ObjectInv, Half
<1>5. \A n \in Others(d) : ~Owns(d, n)'
  BY <1>3 DEF Others, Owns, ShutListed, Fds, NoFd
<1>6. \A n \in Fds : ~Owns(d, n)
  BY <1>3 DEF Owns, ShutListed, Fds, NoFd
<1>7. \A n \in Fds : files'[n].open => n \in Others(d)
  BY <1>1, <1>6 DEF Others, Objects, DescriptorsOwned
<1>8. Objects'
  BY <1>1, <1>2, <1>4, <1>5, <1>7, OwnedKept
<1>9. OneStream'
  <2>1. \A e \in Demuxes : Carrying(e)' => Carrying(e)
    BY DEF Carrying
  <2> QED
    BY <1>1, <2>1 DEF OneStream
<1> QED
  BY <1>8, <1>9 DEF DInv

LEMMA LifeKeeps ==
  ASSUME DInv, NEW d \in Demuxes, Close(d) \/ Delete(d) \/ DeleteEnd(d) \/ New(d)
  PROVE  DInv'
<1>1. DTypes /\ ObjectInv(d) /\ TypeOK
      /\ ctl \in [Demuxes -> {"idle", "closing", "deleting", "waiting", "deleted"}]
  BY DEF DInv, DTypes, TypeOK, Objects
<1>2. CASE Close(d)
  BY <1>2, ShutdownKeeps DEF Close
<1>3. CASE Delete(d) /\ fd[d] # NoFd
  BY <1>3, ShutdownKeeps DEF Delete
<1>4. CASE Delete(d) /\ fd[d] = NoFd
  <2>1. /\ ctl' = [ctl EXCEPT ![d] = "waiting"] /\ ctl[d] = "idle"
        /\ type' = type /\ measure' = measure /\ reader' = reader /\ polled' = polled
        /\ backend' = backend /\ source' = source /\ tpCount' = tpCount /\ fd' = fd
        /\ last' = last /\ listed' = listed /\ emptied' = emptied /\ files' = files
    BY <1>4 DEF Delete, reading, globals
  <2>2. DTypes'
    BY <1>1, <2>1 DEF DTypes, TypeOK
  <2> QED
    BY <1>1, <1>4, <2>1, <2>2, RestKeeps DEF Half
<1>5. CASE DeleteEnd(d)
  <2>1. /\ ctl' = [ctl EXCEPT ![d] = "deleted"] /\ ctl[d] = "waiting"
        /\ type' = type /\ measure' = measure /\ reader' = reader /\ polled' = polled
        /\ backend' = backend /\ source' = source /\ tpCount' = tpCount /\ fd' = fd
        /\ last' = last /\ listed' = listed /\ emptied' = emptied /\ files' = files
    BY <1>5 DEF DeleteEnd, reading, globals
  <2>2. DTypes' /\ fd[d] = NoFd
    BY <1>1, <2>1 DEF DTypes, TypeOK, ObjectInv
  <2> QED
    BY <1>1, <2>1, <2>2, RestKeeps DEF Half
<1>6. CASE New(d)
  <2>1. /\ ctl' = [ctl EXCEPT ![d] = "idle"] /\ ctl[d] = "deleted"
        /\ type' = [type EXCEPT ![d] = "invalid"] /\ last' = [last EXCEPT ![d] = NoSource]
        /\ listed' = [listed EXCEPT ![d] = << >>] /\ measure' = [measure EXCEPT ![d] = FALSE]
        /\ reader' = [reader EXCEPT ![d] = "idle"] /\ emptied' = [emptied EXCEPT ![d] = FALSE]
        /\ polled' = polled /\ backend' = backend /\ source' = source /\ tpCount' = tpCount
        /\ fd' = fd /\ files' = files
    BY <1>6 DEF New, globals
  <2>2. listed' \in [Demuxes -> Seq(Entry)]
    BY <1>1, <2>1 DEF DTypes
  <2>3. fd[d] = NoFd
    BY <1>1, <2>1 DEF ObjectInv
  <2>4. DTypes'
    BY <1>1, <2>1, <2>2 DEF DTypes, TypeOK, Entry
  <2>5. \A e \in Demuxes \ {d} : /\ listed'[e] = listed[e] /\ last'[e] = last[e]
                                   /\ type'[e] = type[e] /\ measure'[e] = measure[e]
    BY <1>1, <2>1 DEF DTypes, TypeOK
  <2>6. ctl' = [ctl EXCEPT ![d] = ctl'[d]] /\ ctl'[d] = "idle" /\ listed'[d] = << >> /\ ~Half(d)
    BY <1>1, <2>1 DEF DTypes, Half
  <2> QED
    BY <2>1, <2>3, <2>4, <2>5, <2>6, RestKeeps
<1> QED
  BY <1>2, <1>3, <1>4, <1>5, <1>6

(* A reader's steps, Start, Stop and a change of source touch no descriptor. *)
LEMMA QuietKeeps ==
  ASSUME DInv,
         fd' = fd, files' = files, backend' = backend, tpCount' = tpCount, listed' = listed,
         last' = last, type' = type, measure' = measure, ctl' = ctl, DTypes'
  PROVE  DInv'
<1>1. Objects'
  BY DEF DInv, Objects, DescriptorsOwned, Owns, ShutListed, ObjectInv, Half,
         Recorded, Current, Image
<1> QED
  BY <1>1 DEF DInv, OneStream, Carrying

LEMMA ReaderKeeps ==
  ASSUME DInv, NEW d \in Demuxes, ReaderStep(d)
  PROVE  DInv' /\ fd' = fd /\ files' = files /\ ctl' = ctl /\ backend' = backend
<1>1. DTypes /\ TypeOK
  BY DEF DInv, DTypes
<1> DEFINE Read ==
      /\ reader' \in [Demuxes -> {"idle", "entered", "polling", "ready", "stuck", "wild"}]
      /\ polled' \in [Demuxes -> Fds \cup {NoFd}] /\ emptied' \in [Demuxes -> BOOLEAN]
      /\ fd' = fd /\ files' = files /\ backend' = backend /\ tpCount' = tpCount
      /\ listed' = listed /\ last' = last /\ type' = type /\ measure' = measure /\ ctl' = ctl
      /\ source' = source
<1>2. Read
  <2>1. ASSUME NEW to \in {"idle", "entered", "polling", "ready", "stuck", "wild"}, ReadMoves(d, to)
        PROVE  Read
    BY <1>1, <2>1 DEF ReadMoves, TypeOK, settings, globals
  <2>2. CASE SparkReadLock(d)
    BY <1>1, <2>2 DEF SparkReadLock, TypeOK, settings, globals
  <2> QED
    BY <2>1, <2>2 DEF ReaderStep, ReadBegin, SparkReadBegin, ReadPoll, ReadData,
                      ReadUnblocked
<1>3. DTypes'
  BY <1>1, <1>2 DEF DTypes, TypeOK
<1> QED
  BY <1>2, <1>3, QuietKeeps

LEMMA StartOrStopKeeps ==
  ASSUME DInv, NEW d \in Demuxes, StartOrStop(d)
  PROVE  DInv'
<1>1. /\ type' = type /\ measure' = measure /\ ctl' = ctl /\ reader' = reader
      /\ polled' = polled /\ backend' = backend /\ source' = source /\ tpCount' = tpCount
      /\ fd' = fd /\ last' = last /\ listed' = listed /\ files' = files
      /\ emptied' \in [Demuxes -> BOOLEAN]
  BY EmptiedTyped DEF StartOrStop, settings, reading, globals
<1>2. DTypes'
  BY <1>1 DEF DInv, DTypes, TypeOK
<1> QED
  BY <1>1, <1>2, QuietKeeps

LEMMA SourceKeeps ==
  ASSUME DInv, NEW u \in 0 .. 2, NEW s \in Sources, SetSource(u, s)
  PROVE  DInv'
<1>1. /\ source' = [source EXCEPT ![u] = s]
      /\ type' = type /\ measure' = measure /\ ctl' = ctl /\ reader' = reader
      /\ polled' = polled /\ backend' = backend /\ tpCount' = tpCount /\ fd' = fd
      /\ last' = last /\ listed' = listed /\ emptied' = emptied /\ files' = files
  BY DEF SetSource, settings, reading
<1>2. DTypes'
  BY <1>1 DEF DInv, DTypes, TypeOK
<1> QED
  BY <1>1, <1>2, QuietKeeps

-----------------------------------------------------------------------------
(* The invariant holds in every state. *)
LEMMA InitInv == Init => DInv
<1> SUFFICES ASSUME Init
             PROVE  DInv
  OBVIOUS
<1>1. /\ backend \in Backends
      /\ type = [d \in Demuxes |-> "invalid"] /\ fd = [d \in Demuxes |-> NoFd]
      /\ last = [d \in Demuxes |-> NoSource] /\ listed = [d \in Demuxes |-> << >>]
      /\ measure = [d \in Demuxes |-> FALSE] /\ ctl = [d \in Demuxes |-> "idle"]
      /\ reader = [d \in Demuxes |-> "idle"] /\ polled = [d \in Demuxes |-> NoFd]
      /\ emptied = [d \in Demuxes |-> FALSE] /\ source = [u \in 0 .. 2 |-> 0] /\ tpCount = 0
      /\ files = [n \in Fds |-> Unopened]
  BY DEF Init
<1>2. DTypes
  <2>1. Unopened \in File /\ 0 \in Sources
    BY DemuxAssumption DEF DemuxAssumption, Unopened, File
  <2>2. listed \in [Demuxes -> Seq(Entry)] /\ files \in [Fds -> File]
    BY <1>1, <2>1
  <2>3. \A d \in Demuxes : listed[d] \in Seq([pid : Pids, fd : Fds \cup {NoFd}])
    BY <2>2 DEF Entry
  <2> QED
    BY <1>1, <2>1, <2>2, <2>3 DEF DTypes, TypeOK, File
<1>3. \A n \in Fds : ~files[n].open /\ n # NoFd
  BY <1>1 DEF Unopened, Fds, NoFd
<1>4. \A d \in Demuxes, n \in Fds : ~Owns(d, n)
  BY <1>1, <1>3 DEF Owns, ShutListed
<1>5. \A d \in Demuxes : ObjectInv(d)
  <2> SUFFICES ASSUME NEW d \in Demuxes
               PROVE  ObjectInv(d)
    OBVIOUS
  <2>1. Image(d).fd = NoFd /\ Image(d).listed = << >> /\ Len(Image(d).listed) = 0
    BY <1>1 DEF Image
  <2>2. Recorded(Image(d)) /\ Current(Image(d))
    BY <2>1 DEF Recorded, Current
  <2> QED
    BY <1>1, <2>2 DEF ObjectInv, Half
<1>6. Objects
  BY <1>1, <1>3, <1>4, <1>5 DEF Objects, DescriptorsOwned
<1>7. OneStream
  BY <1>1 DEF OneStream, Carrying
<1> QED
  BY <1>2, <1>6, <1>7 DEF DInv

LEMMA NextInv == DInv /\ [Next]_vars => DInv'
<1> SUFFICES ASSUME DInv, [Next]_vars
             PROVE  DInv'
  OBVIOUS
<1>1. ASSUME NEW d \in Demuxes, UserStep(d) PROVE DInv'
  <2>1. Uses[d] \subseteq {"psi", "tp", "av"}
    BY DemuxAssumption DEF DemuxAssumption
  <2>2. ASSUME NEW t \in Uses[d], SparkOpen(d, t) \/ \E ok \in BOOLEAN : Opens(d, t, ok)
        PROVE  DInv'
    <3>1. t \in {"psi", "tp", "av"}
      BY <2>1
    <3> QED
      BY <2>2, <3>1, SparkOpenKeeps, OpensKeep
  <2>3. CASE Close(d) \/ Delete(d) \/ New(d)
    BY <2>3, LifeKeeps
  <2>3a. CASE StartOrStop(d)
    BY <2>3a, StartOrStopKeeps
  <2>4. CASE \E ok \in BOOLEAN : listed[d] = << >> /\ Filters(d, VideoPid, ok)
    BY <2>4, FiltersSound, CommitKeeps DEF Pids, Committed
  <2>5. CASE \/ \E p \in Apids, ok \in BOOLEAN : RecordAddPid(d, p, ok) \/ RemovePid(d, p, ok)
             \/ \E wanted, refused \in SUBSET Apids : ChangePids(d, wanted, refused)
    BY <2>5, PidsSound, CommitKeeps DEF Committed
  <2> QED
    BY <1>1, <2>2, <2>3, <2>3a, <2>4, <2>5 DEF UserStep
<1>2. ASSUME NEW d \in Demuxes, CloseOn(d) PROVE DInv'
  BY <1>2, CloseEndKeeps, LifeKeeps DEF CloseOn
<1>3. ASSUME NEW d \in Readers, ReaderStep(d) PROVE DInv'
  BY <1>3, ReaderKeeps, DemuxAssumption DEF DemuxAssumption
<1>4. ASSUME NEW d \in Demuxes, NEW s \in Sources, SetSource(Num[d], s) PROVE DInv'
  <2>1. Num[d] \in 0 .. 2
    BY DemuxAssumption DEF DemuxAssumption
  <2> QED
    BY <1>4, <2>1, SourceKeeps
<1>5. CASE UNCHANGED vars
  <2>1. /\ type' = type /\ measure' = measure /\ ctl' = ctl /\ reader' = reader
        /\ polled' = polled /\ backend' = backend /\ source' = source /\ tpCount' = tpCount
        /\ fd' = fd /\ last' = last /\ listed' = listed /\ emptied' = emptied /\ files' = files
    BY <1>5 DEF vars, settings, reading, globals
  <2>2. DTypes'
    BY <2>1 DEF DInv, DTypes, TypeOK
  <2> QED
    BY <2>1, <2>2, QuietKeeps
<1> QED
  BY <1>1, <1>2, <1>3, <1>4, <1>5 DEF Next

LEMMA Invariance == Spec => []DInv
<1> QED
  BY InitInv, NextInv, PTL DEF Spec

(* Every variable of the five ports has its type, the list of PIDs among   *)
(* them. *)
THEOREM TypeCorrect == Spec => []TypeOK
<1>1. DInv => TypeOK
  BY DEF DInv, DTypes
<1> QED
  BY <1>1, Invariance, PTL

(* PIDs that differ are counted by the length of the list.                 *)
LEMMA PidsCounted ==
  ASSUME NEW s \in Seq(Entry), \A i, j \in 1 .. Len(s) : s[i].pid = s[j].pid => i = j
  PROVE  Cardinality(PidsOf(s)) = Len(s)
<1> DEFINE f == [i \in 1 .. Len(s) |-> s[i].pid]
<1>1. DOMAIN s = 1 .. Len(s) /\ Len(s) \in Nat
  OBVIOUS
<1>2. f \in Bijection(1 .. Len(s), PidsOf(s))
  BY <1>1 DEF PidsOf, Bijection, Injection, Surjection, IsInjective
<1>3. ExistsBijection(1 .. Len(s), PidsOf(s))
  BY <1>2 DEF ExistsBijection
<1>4. IsFiniteSet(1 .. Len(s)) /\ Cardinality(1 .. Len(s)) = Len(s)
  <2>1. 1 \in Int /\ Len(s) \in Int /\ (IF 1 > Len(s) THEN 0 ELSE Len(s) - 1 + 1) = Len(s)
    BY <1>1
  <2> QED
    BY <2>1, FS_Interval
<1> QED
  BY <1>3, <1>4, FS_Bijection

(* No open, close, failed open, filter or change of PIDs or of source      *)
(* leaves a descriptor without its owner or with two, a second transport   *)
(* stream, or an entry of libtriple's list that is not what is recorded.   *)
THEOREM StreamsAreAccounted == Spec => []StreamsAccounted
<1>1. DInv => DescriptorsOwned
  BY DEF DInv, Objects
<1>2. DInv => OneTransportStream
  <2> SUFFICES ASSUME DInv, backend = "triple"
               PROVE  OneTransportStream
    BY DEF OneTransportStream
  <2> DEFINE streams == {d \in Demuxes : /\ type[d] = "tp" /\ fd[d] # NoFd
                                         /\ ctl[d] = "idle" /\ ~measure[d]}
  <2>1. tpCount \in Nat
    BY DEF DInv, DTypes, TypeOK
  <2>2. \A d \in streams : Carrying(d)
    BY DEF Carrying
  <2>3. \A d, e \in streams : d = e
    BY <2>2 DEF DInv, OneStream
  <2>4. streams # {} => tpCount > 0
    BY <2>2 DEF DInv, OneStream
  <2>5. streams = {} \/ \E d : streams = {d}
    BY <2>3
  <2>6. OneTransportStream <=> Cardinality(streams) <= 1 /\ Cardinality(streams) <= tpCount
    BY DEF OneTransportStream, MaxTs
  <2> HIDE DEF streams
  <2>7. Cardinality(streams) = 0 \/ (Cardinality(streams) = 1 /\ tpCount > 0)
    BY <2>4, <2>5, FS_EmptySet, FS_Singleton
  <2> QED
    BY <2>1, <2>6, <2>7
<1>3. DInv => ListIsRecorded
  <2> SUFFICES ASSUME DInv, NEW d \in Demuxes, backend = "triple", ctl[d] = "idle"
               PROVE  /\ listed[d] # << >> /\ listed[d][1].pid = VideoPid =>
                           Cardinality(PidsOf(listed[d])) = Len(listed[d])
                      /\ \A i \in DOMAIN listed[d] :
                           /\ files[listed[d][i].fd].open
                           /\ files[listed[d][i].fd].pids = {listed[d][i].pid}
                           /\ files[listed[d][i].fd].dev = files[fd[d]].dev
    BY DEF ListIsRecorded
  <2>1. Recorded(Image(d)) /\ listed[d] \in Seq(Entry)
    BY DEF DInv, DTypes, Objects, ObjectInv, Half
  <2>2. DOMAIN listed[d] = 1 .. Len(listed[d])
    BY <2>1
  <2>3. Image(d).listed = listed[d] /\ Image(d).files = files /\ Image(d).fd = fd[d]
    BY DEF Image
  <2>4. listed[d] # << >> /\ listed[d][1].pid = VideoPid =>
          Cardinality(PidsOf(listed[d])) = Len(listed[d])
    BY <2>1, <2>3, PidsCounted DEF Recorded
  <2> QED
    BY <2>1, <2>2, <2>3, <2>4 DEF Recorded
<1> QED
  BY <1>1, <1>2, <1>3, Invariance, PTL DEF StreamsAccounted

(* A filter that is set, is set on the device of the source of that        *)
(* moment.                                                                 *)
FilterStep(d) ==
  backend = "spark" /\ ctl[d] = "idle" /\ fd'[d] # NoFd
    /\ ~(files'[fd'[d]].pids \subseteq
           (IF fd[d] = NoFd THEN {} ELSE files[fd[d]].pids))
  => files'[fd'[d]].dev = source[Num[d]]

LEMMA CommitFilters ==
  ASSUME DInv, NEW d \in Demuxes, Committed(d), NEW e \in Demuxes
  PROVE  FilterStep(e)
<1> PICK image : Sound(d, image) /\ Commit(d, image)
  BY DEF Committed
<1>1. files' = image.files /\ fd' = [fd EXCEPT ![d] = image.fd]
  BY DEF Commit
<1>2. CASE e = d
  <2>1. fd'[d] = image.fd
    BY <1>1 DEF DInv, DTypes, TypeOK
  <2>2. Filtered(Image(d)) = IF fd[d] = NoFd THEN {} ELSE files[fd[d]].pids
    BY DEF Filtered, Image
  <2> QED
    BY <1>1, <1>2, <2>1, <2>2 DEF Sound, FilterStep
<1>3. CASE e # d
  <2>1. fd'[e] = fd[e] /\ fd[e] \in Fds \cup {NoFd}
    BY <1>1, <1>3 DEF DInv, DTypes, TypeOK
  <2>2. ctl[e] = "idle" /\ fd[e] # NoFd => fd[e] \in Others(d)
    BY <1>3, <2>1 DEF Others, Owns
  <2>3. ctl[e] = "idle" /\ fd[e] # NoFd => files'[fd[e]] = files[fd[e]]
    BY <1>1, <2>2 DEF Sound
  <2> QED
    BY <2>1, <2>3 DEF FilterStep
<1> QED
  BY <1>2, <1>3

(* libspark: whatever call gives a descriptor a new PID, it is one of the  *)
(* device of the source the unit has at that moment: _open has closed one  *)
(* of another device before.                                               *)
THEOREM FiltersFollowSource == Spec => FilterOnCurrentSource
<1>1. ASSUME DInv, [Next]_vars, NEW d \in Demuxes
      PROVE  FilterStep(d)
  <2> SUFFICES ASSUME backend = "spark", ctl[d] = "idle"
               PROVE  FilterStep(d)
    BY DEF FilterStep
  <2>1. CASE /\ fd'[d] = fd[d] \/ fd'[d] = NoFd
             /\ fd[d] # NoFd => files'[fd[d]] = files[fd[d]] \/ files'[fd[d]].pids = {}
    BY <2>1 DEF FilterStep
  <2>2. fd \in [Demuxes -> Fds \cup {NoFd}] /\ Unopened.pids = {}
    BY <1>1 DEF DInv, DTypes, TypeOK, Unopened
  <2>3. ASSUME NEW e \in Demuxes, UserStep(e) PROVE FilterStep(d)
    <3>1. Uses[e] \subseteq {"psi", "tp", "av"}
      BY DemuxAssumption DEF DemuxAssumption
    <3>2. CASE \E t \in Uses[e] : SparkOpen(e, t)
      BY <2>1, <3>2 DEF SparkOpen
    <3>3. CASE \E t \in Uses[e], ok \in BOOLEAN : Opens(e, t, ok)
      BY <3>3 DEF Opens, AzboxOpen, PcOpen, TripleOpen, On
    <3>4. CASE Close(e) \/ Delete(e)
      <4>1. /\ fd' = fd
            /\ \/ files' = files
               \/ files' = [n \in Fds |->
                              IF n = fd[e] \/ (backend = "triple" /\ n \in ShutListed(e))
                              THEN Unopened ELSE files[n]]
        BY <3>4 DEF Close, Delete, Shutdown
      <4> QED
        BY <2>1, <2>2, <4>1
    <3>5. CASE New(e)
      BY <2>1, <3>5 DEF New
    <3>5a. CASE StartOrStop(e)
      BY <2>1, <3>5a DEF StartOrStop
    <3>6. CASE \E ok \in BOOLEAN : listed[e] = << >> /\ Filters(e, VideoPid, ok)
      BY <1>1, <3>6, FiltersSound, CommitFilters DEF Pids
    <3>7. CASE \/ \E p \in Apids, ok \in BOOLEAN : RecordAddPid(e, p, ok) \/ RemovePid(e, p, ok)
               \/ \E wanted, refused \in SUBSET Apids : ChangePids(e, wanted, refused)
      BY <1>1, <3>7, PidsSound, CommitFilters
    <3> QED
      BY <2>3, <3>2, <3>3, <3>4, <3>5, <3>5a, <3>6, <3>7 DEF UserStep
  <2>4. ASSUME NEW e \in Demuxes, CloseOn(e) PROVE FilterStep(d)
    <3>1. files' = files /\ (fd' = fd \/ fd' = [fd EXCEPT ![e] = NoFd])
      BY <2>4 DEF CloseOn, CloseEnd, DeleteEnd
    <3> QED
      BY <2>1, <2>2, <3>1
  <2>5. ASSUME NEW e \in Readers, ReaderStep(e) PROVE FilterStep(d)
    BY <1>1, <2>1, <2>5, ReaderKeeps, DemuxAssumption DEF DemuxAssumption
  <2>6. ASSUME NEW e \in Demuxes, NEW s \in Sources, SetSource(Num[e], s) PROVE FilterStep(d)
    BY <2>1, <2>6 DEF SetSource
  <2>7. CASE UNCHANGED vars
    BY <2>1, <2>7 DEF vars
  <2> QED
    BY <1>1, <2>3, <2>4, <2>5, <2>6, <2>7 DEF Next
<1>2. DInv /\ [Next]_vars => \A d \in Demuxes : FilterStep(d)
  BY <1>1
<1>3. [][\A d \in Demuxes : FilterStep(d)]_vars => FilterOnCurrentSource
  BY PTL DEF FilterOnCurrentSource, FilterStep
<1> QED
  BY <1>2, <1>3, Invariance, PTL DEF Spec

-----------------------------------------------------------------------------
(* libtriple: what one call makes of a list that begins with the video     *)
(* PID, and of the descriptors that are free.                              *)
Leads(list) == list \in Seq(Entry) /\ list # << >> /\ list[1].pid = VideoPid

LEMMA RemoveIsExact ==
  ASSUME NEW d, NEW image, Sound(d, image), backend = "triple", Leads(image.listed),
         NEW p, p # VideoPid, NEW ok, NEW new, new = RemovePidFrom(image, p, ok)
  PROVE  /\ Leads(new.listed) /\ PidsOf(new.listed) = PidsOf(image.listed) \ {p}
         /\ FreeFds(image.files) \subseteq FreeFds(new.files)
<1>1. CASE p \notin PidsOf(image.listed)
  BY <1>1 DEF RemovePidFrom
<1>2. CASE p \in PidsOf(image.listed)
  <2> DEFINE list == image.listed
             i == FirstWith(list, p)
             rest == RemoveAt(list, i)
  <2>1. list \in Seq(Entry) /\ Len(list) \in Nat /\ DOMAIN list = 1 .. Len(list)
        /\ list # << >> /\ list[1].pid = VideoPid /\ 1 \in 1 .. Len(list)
        /\ image.files \in [Fds -> File]
    <3>1. list \in Seq(Entry) /\ list # << >> /\ list[1].pid = VideoPid
      BY DEF Leads
    <3>2. image.files \in [Fds -> File]
      BY DEF Sound, Images
    <3> QED
      BY <3>1, <3>2
  <2>2. i \in 1 .. Len(list) /\ list[i].pid = p
    <3>1. \E j \in 1 .. Len(list) : list[j].pid = p
      BY <1>2, <2>1 DEF PidsOf
    <3> QED
      BY <2>1, <3>1, FoundFirst
  <2>3. /\ rest \in Seq(Entry) /\ Len(rest) = Len(list) - 1
        /\ \A j \in 1 .. Len(list) - 1 : rest[j] = IF j < i THEN list[j] ELSE list[j + 1]
    BY <2>1, <2>2, RemovedAt
  <2>4. new.listed = rest /\ new.files = Shut(image.files, list[i].fd)
    BY <1>2, <2>1 DEF RemovePidFrom, TripleRemove, FirstWith, Sound, Images
  <2>5. \A j, k \in 1 .. Len(list) : list[j].pid = list[k].pid => j = k
    BY <2>1 DEF Sound, Recorded
  <2> HIDE DEF list, i, rest
  <2>6. i # 1 /\ rest[1] = list[1] /\ rest # << >>
    <3>1. i # 1
      BY <2>1, <2>2
    <3>2. Len(rest) >= 1 /\ 1 \in 1 .. Len(list) - 1 /\ 1 < i
      BY <2>1, <2>2, <2>3, <3>1
    <3> QED
      BY <2>3, <3>1, <3>2
  <2>7. DOMAIN rest = 1 .. Len(list) - 1
    BY <2>3
  <2>8. ASSUME NEW j \in 1 .. Len(list) - 1
        PROVE  rest[j].pid \in PidsOf(list) \ {p}
    <3>1. PICK k \in 1 .. Len(list) : k # i /\ rest[j] = list[k]
      <4>1. j \in 1 .. Len(list) /\ j + 1 \in 1 .. Len(list)
        BY <2>1
      <4>2. CASE j < i
        BY <2>3, <4>1, <4>2
      <4>3. CASE ~(j < i)
        <5>1. j + 1 # i
          BY <2>1, <2>2, <4>3
        <5> QED
          BY <2>3, <4>1, <4>3, <5>1
      <4> QED
        BY <4>2, <4>3
    <3>2. list[k].pid # p
      BY <2>2, <2>5, <3>1
    <3> QED
      BY <2>1, <3>1, <3>2 DEF PidsOf
  <2>9. ASSUME NEW k \in 1 .. Len(list), list[k].pid # p
        PROVE  list[k].pid \in PidsOf(rest)
    <3>1. PICK j \in 1 .. Len(list) - 1 : rest[j] = list[k]
      <4>1. CASE k < i
        <5>1. k \in 1 .. Len(list) - 1
          BY <2>1, <2>2, <4>1
        <5> QED
          BY <2>3, <4>1, <5>1
      <4>2. CASE ~(k < i)
        <5>1. k # i
          BY <2>2, <2>9
        <5>2. k - 1 \in 1 .. Len(list) - 1 /\ ~(k - 1 < i) /\ (k - 1) + 1 = k
          BY <2>1, <2>2, <4>2, <5>1
        <5> QED
          BY <2>3, <5>2
      <4> QED
        BY <4>1, <4>2
    <3> QED
      BY <2>7, <3>1 DEF PidsOf
  <2>10. PidsOf(rest) = PidsOf(list) \ {p}
    <3>1. PidsOf(rest) \subseteq PidsOf(list) \ {p}
      BY <2>7, <2>8 DEF PidsOf
    <3>2. PidsOf(list) \ {p} \subseteq PidsOf(rest)
      BY <2>1, <2>9 DEF PidsOf
    <3> QED
      BY <3>1, <3>2
  <2>11. FreeFds(image.files) \subseteq FreeFds(Shut(image.files, list[i].fd))
    BY <2>1 DEF FreeFds, Shut, Unopened
  <2> QED
    BY <2>1, <2>3, <2>4, <2>6, <2>10, <2>11 DEF Leads, list
<1> QED
  BY <1>1, <1>2

LEMMA FreeFinite == \A f : IsFiniteSet(FreeFds(f)) /\ Cardinality(FreeFds(f)) \in Nat
<1>1. IsFiniteSet(Fds)
  <2>1. 1 \in Int /\ MaxFd \in Int
    BY DemuxAssumption DEF DemuxAssumption
  <2> QED
    BY <2>1, FS_Interval DEF Fds
<1>2. \A f : FreeFds(f) \subseteq Fds
  BY DEF FreeFds
<1> QED
  BY <1>1, <1>2, FS_Subset, FS_CardinalityType

TripleAdded(image, p) ==
  LET n == LowestFree(image.files)
  IN  [image EXCEPT
         !.files[n] = [Opened(image.files[image.fd].dev) EXCEPT !.pids = {p}],
         !.listed = Append(@, [pid |-> p, fd |-> n])]

LEMMA AddIsExact ==
  ASSUME NEW d, NEW image, Sound(d, image), Leads(image.listed),
         NEW p \in Pids, FreeFds(image.files) # {}, NEW new, new = TripleAdded(image, p)
  PROVE  /\ Leads(new.listed)
         /\ PidsOf(new.listed) = PidsOf(image.listed) \cup {p}
         /\ Cardinality(FreeFds(new.files)) >= Cardinality(FreeFds(image.files)) - 1
<1> DEFINE n == LowestFree(image.files)
           e == [pid |-> p, fd |-> n]
           file == [Opened(image.files[image.fd].dev) EXCEPT !.pids = {p}]
<1>1. n \in Fds
  BY LowestIsFree
<1>2. image \in Images /\ image.files \in [Fds -> File]
  BY DEF Sound, Images
<1>3. new.files = [image.files EXCEPT ![n] = file] /\ new.listed = Append(image.listed, e)
  BY <1>2 DEF TripleAdded, Images
<1>4. e \in Entry /\ file.open
  BY <1>1 DEF Entry, Opened, Unopened
<1>5. image.listed \in Seq(Entry) /\ image.listed # << >> /\ image.listed[1].pid = VideoPid
      /\ Len(image.listed) \in Nat /\ Len(image.listed) >= 1
  <2>1. image.listed \in Seq(Entry) /\ image.listed # << >> /\ image.listed[1].pid = VideoPid
    BY DEF Leads
  <2> QED
    BY <2>1
<1>6. e.pid = p
  OBVIOUS
<1> HIDE DEF n, e, file
<1>7. /\ new.listed \in Seq(Entry) /\ Len(new.listed) = Len(image.listed) + 1
      /\ \A i \in 1 .. Len(image.listed) : new.listed[i] = image.listed[i]
      /\ new.listed[Len(image.listed) + 1] = e
  <2>1. /\ Append(image.listed, e) \in Seq(Entry)
        /\ Len(Append(image.listed, e)) = Len(image.listed) + 1
        /\ \A i \in 1 .. Len(image.listed) : Append(image.listed, e)[i] = image.listed[i]
        /\ Append(image.listed, e)[Len(image.listed) + 1] = e
    BY <1>4, <1>5, AppendProperties
  <2> QED
    BY <1>3, <2>1
<1>8. DOMAIN new.listed = 1 .. Len(image.listed) + 1 /\ DOMAIN image.listed = 1 .. Len(image.listed)
  BY <1>5, <1>7
<1>9. PidsOf(new.listed) = PidsOf(image.listed) \cup {p}
  <2>1. \A i : i \in DOMAIN new.listed <=> i \in DOMAIN image.listed \/ i = Len(image.listed) + 1
    BY <1>5, <1>8
  <2> QED
    BY <1>6, <1>7, <1>8, <2>1 DEF PidsOf
<1>10. FreeFds(new.files) = FreeFds(image.files) \ {n}
  BY <1>1, <1>2, <1>3, <1>4 DEF FreeFds
<1>11. Leads(new.listed)
  <2>1. 1 \in 1 .. Len(image.listed) /\ new.listed # << >>
    BY <1>5, <1>7
  <2> QED
    BY <1>5, <1>7, <2>1 DEF Leads
<1>12. Cardinality(FreeFds(new.files)) >= Cardinality(FreeFds(image.files)) - 1
  <2> DEFINE free == FreeFds(image.files)
  <2>1. IsFiniteSet(free) /\ Cardinality(free) \in Nat
    BY FreeFinite
  <2>2. Cardinality(free \ {n}) = IF n \in free THEN Cardinality(free) - 1 ELSE Cardinality(free)
    BY <2>1, FS_RemoveElement
  <2> QED
    BY <1>10, <2>1, <2>2
<1> QED
  BY <1>9, <1>11, <1>12

(* What the two walks make of it.                                          *)
LEMMA WalksExact ==
  ASSUME DInv, NEW d \in Demuxes, NEW wanted \in SUBSET Apids, NEW refused \in SUBSET Apids,
         backend = "triple", Leads(listed[d]), ChangePids(d, wanted, refused),
         wanted \cap refused \subseteq PidsOf(listed[d]),
         Cardinality(wanted \ PidsOf(listed[d])) <= Cardinality(FreeFds(files))
  PROVE  PidsOf(listed'[d]) = {VideoPid} \cup wanted
<1> DEFINE seen == Tail(listed[d])
           order == SetToSeq(wanted)
           old == PidsOf(seen)
<1>1. /\ ctl[d] = "idle" /\ listed[d] # << >> /\ fd[d] # NoFd /\ ~measure[d]
      /\ Commit(d, ChangedPids(d, wanted, refused))
  BY DEF ChangePids
<1>2. DTypes /\ Objects /\ Sound(d, Image(d)) /\ \A m \in Others(d) : files[m].open
  BY <1>1, SoundNow, OthersOpen DEF DInv
<1>3. PICK dropped, added : WalkOf(d, wanted, refused, dropped, added)
  BY <1>1, <1>2, WalksSound
<1>4. /\ Drops(dropped, d, seen, wanted, refused, Len(seen))
      /\ Adds(added, d, dropped[Len(seen)], order, seen, refused, Len(order))
      /\ ChangedPids(d, wanted, refused) = added[Len(order)]
      /\ \A i \in 0 .. Len(seen) : Sound(d, dropped[i])
      /\ \A i \in 0 .. Len(order) : Sound(d, added[i])
  BY <1>3, Zenon DEF WalkOf
<1>5. /\ listed[d] \in Seq(Entry) /\ seen \in Seq(Entry) /\ Len(seen) = Len(listed[d]) - 1
      /\ Len(seen) \in Nat /\ DOMAIN seen = 1 .. Len(seen)
      /\ DOMAIN listed[d] = 1 .. Len(listed[d]) /\ 1 \in 1 .. Len(listed[d])
      /\ \A i \in 1 .. Len(seen) : seen[i] = listed[d][i + 1]
  <2>1. listed[d] \in Seq(Entry)
    BY <1>2 DEF DTypes
  <2> QED
    BY <1>1, <2>1, HeadTailProperties
<1>6. /\ IsFiniteSet(wanted) /\ Cardinality(wanted) \in Nat /\ Len(order) = Cardinality(wanted)
      /\ \A i \in 1 .. Len(order) : order[i] \in wanted
      /\ \A i, j \in 1 .. Len(order) : order[i] = order[j] => i = j
      /\ \A p \in wanted : \E i \in 1 .. Len(order) : order[i] = p
  <2>1. IsFiniteSet(wanted)
    BY DemuxAssumption, FS_Subset DEF DemuxAssumption
  <2>2. Cardinality(wanted) \in Nat /\ order \in [1 .. Cardinality(wanted) -> wanted]
        /\ (\A i, j \in 1 .. Cardinality(wanted) : order[i] = order[j] => i = j)
        /\ \A p \in wanted : \E i \in 1 .. Cardinality(wanted) : order[i] = p
    BY <2>1, Ordered, FS_CardinalityType
  <2>3. Len(order) = Cardinality(wanted)
    BY <2>2
  <2> QED
    BY <2>1, <2>2, <2>3
<1>7. VideoPid \notin wanted /\ wanted \subseteq Pids
  BY DemuxAssumption DEF DemuxAssumption, Pids
<1> HIDE DEF seen, order
<1>8. PidsOf(listed[d]) = old \cup {VideoPid} /\ VideoPid \notin old
  <2>1. ASSUME NEW i \in 1 .. Len(listed[d]) PROVE listed[d][i].pid \in old \cup {VideoPid}
    <3>1. CASE i = 1
      BY <3>1 DEF Leads
    <3>2. CASE i # 1
      <4>1. i - 1 \in DOMAIN seen /\ listed[d][i] = seen[i - 1]
        BY <1>5, <3>2
      <4> QED
        BY <4>1 DEF PidsOf
    <3> QED
      BY <3>1, <3>2
  <2>2. ASSUME NEW i \in 1 .. Len(seen)
        PROVE  seen[i].pid \in PidsOf(listed[d]) /\ seen[i].pid # VideoPid
    <3>1. i + 1 \in 1 .. Len(listed[d]) /\ seen[i] = listed[d][i + 1] /\ i + 1 # 1
      BY <1>5
    <3>2. listed[d][i + 1].pid # VideoPid
      BY <1>2, <3>1 DEF Sound, Recorded, Image
    <3> QED
      BY <1>5, <3>1, <3>2 DEF PidsOf
  <2>3. VideoPid \in PidsOf(listed[d])
    BY <1>5 DEF Leads, PidsOf
  <2>4. old \subseteq PidsOf(listed[d]) /\ VideoPid \notin old
    BY <1>5, <2>2 DEF PidsOf
  <2>5. PidsOf(listed[d]) \subseteq old \cup {VideoPid}
    BY <1>5, <2>1 DEF PidsOf
  <2> QED
    BY <2>3, <2>4, <2>5
(* The first walk. *)
<1> DEFINE Gone(i) == {seen[j].pid : j \in 1 .. i} \ wanted
           Kept(i) == /\ Leads(dropped[i].listed)
                      /\ PidsOf(dropped[i].listed) = PidsOf(listed[d]) \ Gone(i)
                      /\ FreeFds(files) \subseteq FreeFds(dropped[i].files)
           Lost == {i \in 0 .. Len(seen) : ~Kept(i)}
<1>9. Kept(0)
  <2>1. dropped[0] = Image(d)
    BY <1>4, <1>5 DEF Drops
  <2>2. Gone(0) = {}
    OBVIOUS
  <2> QED
    BY <2>1, <2>2 DEF Image
<1>10. ASSUME NEW i \in 1 .. Len(seen), Kept(i - 1)
       PROVE  Kept(i)
  <2> DEFINE p == seen[i].pid
             image == dropped[i - 1]
  <2>1. dropped[i] = Dropped(image, p, wanted, refused) /\ Sound(d, image)
    <3>1. i \in 0 .. Len(seen) /\ i # 0 /\ i - 1 \in 0 .. Len(seen)
      BY <1>5
    <3> QED
      BY <1>4, <3>1 DEF Drops
  <2>2. p # VideoPid
    BY <1>5, <1>8 DEF PidsOf
  <2>3. Gone(i) = Gone(i - 1) \cup ({p} \ wanted)
    <3>1. \A j : j \in 1 .. i <=> j \in 1 .. i - 1 \/ j = i
      BY <1>5
    <3> QED
      BY <3>1
  <2>4. /\ Leads(image.listed) /\ PidsOf(image.listed) = PidsOf(listed[d]) \ Gone(i - 1)
        /\ FreeFds(files) \subseteq FreeFds(image.files)
    BY <1>10
  <2> HIDE DEF p, image, Gone
  <2>5. CASE p \in wanted
    BY <2>1, <2>3, <2>4, <2>5 DEF Dropped
  <2>6. CASE p \notin wanted
    <3> DEFINE new == RemovePidFrom(image, p, p \notin refused)
    <3>1. dropped[i] = new
      BY <2>1, <2>6 DEF Dropped
    <3>2. /\ Leads(new.listed) /\ PidsOf(new.listed) = PidsOf(image.listed) \ {p}
          /\ FreeFds(image.files) \subseteq FreeFds(new.files)
      BY <2>1, <2>2, <2>4, RemoveIsExact
    <3> HIDE DEF new
    <3> QED
      BY <2>3, <2>4, <2>6, <3>1, <3>2
  <2> QED
    BY <2>5, <2>6
<1> HIDE DEF Kept
<1>11. Lost = {}
  <2> SUFFICES ASSUME Lost # {}
               PROVE  FALSE
    OBVIOUS
  <2>1. Lost \subseteq Nat
    BY <1>5
  <2>2. PICK k \in Lost : \A m \in Lost : k <= m
    BY <2>1, LeastNumber
  <2>3. k # 0 /\ k \in 0 .. Len(seen)
    BY <1>9, <2>2
  <2>4. k - 1 \notin Lost /\ k - 1 \in 0 .. Len(seen) /\ k \in 1 .. Len(seen)
    BY <1>5, <2>2, <2>3
  <2> QED
    BY <1>10, <2>2, <2>4
<1> DEFINE base == dropped[Len(seen)]
<1>12. /\ Leads(base.listed) /\ PidsOf(base.listed) = {VideoPid} \cup (old \cap wanted)
       /\ FreeFds(files) \subseteq FreeFds(base.files)
  <2>1. Kept(Len(seen))
    BY <1>5, <1>11
  <2>2. Gone(Len(seen)) = old \ wanted
    BY <1>5 DEF PidsOf
  <2> HIDE DEF Gone, old
  <2> QED
    BY <1>7, <1>8, <2>1, <2>2 DEF Kept
(* The second walk: what it adds, and the descriptors it leaves. *)
<1> HIDE DEF old
<1> DEFINE Late(i) == {order[j] : j \in 1 .. i} \ old
           free(i) == FreeFds(added[i].files)
           Made(i) == /\ Leads(added[i].listed)
                      /\ PidsOf(added[i].listed) = PidsOf(base.listed) \cup Late(i)
                      /\ IsFiniteSet(Late(i))
                      /\ Cardinality(free(i)) + Cardinality(Late(i))
                           >= Cardinality(wanted \ old)
           Short == {i \in 0 .. Len(order) : ~Made(i)}
<1>13. \A f : IsFiniteSet(FreeFds(f)) /\ Cardinality(FreeFds(f)) \in Nat
  BY FreeFinite
<1>14. wanted \ PidsOf(listed[d]) = wanted \ old /\ IsFiniteSet(wanted \ old)
       /\ Cardinality(wanted \ old) \in Nat /\ refused \cap (wanted \ old) = {}
  <2>1. wanted \ PidsOf(listed[d]) = wanted \ old
    BY <1>7, <1>8
  <2>2. refused \cap (wanted \ old) = {}
    BY <1>7, <1>8
  <2>3. IsFiniteSet(wanted \ old)
    BY <1>6, FS_Subset
  <2> QED
    BY <2>1, <2>2, <2>3, FS_CardinalityType
<1>15. Made(0)
  <2>1. added[0] = base
    BY <1>4, <1>6 DEF Adds
  <2>2. Late(0) = {}
    OBVIOUS
  <2>3. Cardinality(FreeFds(base.files)) >= Cardinality(FreeFds(files))
    BY <1>12, <1>13, FS_Subset
  <2>4. IsFiniteSet({}) /\ Cardinality({}) = 0
    BY FS_EmptySet
  <2>5. Cardinality(FreeFds(base.files)) + 0 >= Cardinality(wanted \ old)
    <3>1. Cardinality(wanted \ old) <= Cardinality(FreeFds(files))
      BY <1>14
    <3>2. Cardinality(FreeFds(files)) \in Nat /\ Cardinality(FreeFds(base.files)) \in Nat
      BY <1>13
    <3> HIDE DEF base
    <3> QED
      BY <1>14, <2>3, <3>1, <3>2
  <2> HIDE DEF base, Late
  <2> QED
    BY <1>12, <2>1, <2>2, <2>4, <2>5
<1>16. ASSUME NEW i \in 1 .. Len(order), Made(i - 1)
       PROVE  Made(i)
  <2> DEFINE p == order[i]
             image == added[i - 1]
             before == Late(i - 1)
             after == Late(i)
  <2>1. added[i] = Added(d, image, p, seen, refused) /\ Sound(d, image) /\ p \in wanted
    <3>1. i \in 0 .. Len(order) /\ i # 0 /\ i - 1 \in 0 .. Len(order)
      BY <1>6
    <3> QED
      BY <1>4, <1>6, <3>1 DEF Adds
  <2>2. after = before \cup ({p} \ old)
    <3>1. \A j : j \in 1 .. i <=> j \in 1 .. i - 1 \/ j = i
      BY <1>6
    <3> QED
      BY <3>1
  <2>3. p \notin before /\ before \subseteq wanted \ old
    BY <1>6
  <2>4. /\ Leads(image.listed) /\ PidsOf(image.listed) = PidsOf(base.listed) \cup before
        /\ IsFiniteSet(before) /\ Cardinality(before) \in Nat
        /\ Cardinality(FreeFds(image.files)) + Cardinality(before) >= Cardinality(wanted \ old)
    BY <1>16, FS_CardinalityType
  <2>5. Made(i) <=> /\ Leads(added[i].listed)
                    /\ PidsOf(added[i].listed) = PidsOf(base.listed) \cup after
                    /\ IsFiniteSet(after)
                    /\ Cardinality(FreeFds(added[i].files)) + Cardinality(after)
                         >= Cardinality(wanted \ old)
    OBVIOUS
  <2> HIDE DEF p, image, before, after, Late, Made, base
  <2>6. CASE p \in old
    <3>1. added[i] = image /\ after = before
      BY <2>1, <2>2, <2>6 DEF Added, old
    <3> QED
      BY <2>4, <2>5, <3>1
  <2>7. CASE p \notin old
    <3>1. p \notin refused /\ p \in Pids /\ p \in wanted \ old
      BY <1>7, <1>14, <2>1, <2>7
    <3>2. added[i] = Add(d, image, p, p \notin refused)
      BY <2>1, <2>7 DEF Added, old
    <3>3. FreeFds(image.files) # {}
      <4>1. Cardinality(before \cup {p}) = Cardinality(before) + 1
        BY <2>3, <2>4, FS_AddElement
      <4>2. Cardinality(before \cup {p}) <= Cardinality(wanted \ old)
        <5>1. before \cup {p} \subseteq wanted \ old
          BY <2>3, <3>1
        <5> QED
          BY <1>14, <5>1, FS_Subset
      <4>3. Cardinality(FreeFds(image.files)) # 0
        BY <1>13, <1>14, <2>4, <4>1, <4>2
      <4> QED
        BY <4>3, FS_EmptySet
    <3>5. /\ Leads(added[i].listed)
          /\ PidsOf(added[i].listed) = PidsOf(image.listed) \cup {p}
          /\ Cardinality(FreeFds(added[i].files)) >= Cardinality(FreeFds(image.files)) - 1
      <4> DEFINE new == added[i]
      <4>1. Sound(d, image) /\ Leads(image.listed) /\ p \in Pids
        BY <2>1, <2>4, <3>1
      <4>2. new = TripleAdded(image, p)
        BY <1>1, <3>1, <3>2, <3>3 DEF Add, TripleAdd, TripleAdded
      <4> HIDE DEF new
      <4>3. /\ Leads(new.listed)
            /\ PidsOf(new.listed) = PidsOf(image.listed) \cup {p}
            /\ Cardinality(FreeFds(new.files)) >= Cardinality(FreeFds(image.files)) - 1
        BY <3>3, <4>1, <4>2, AddIsExact
      <4> QED
        BY <4>3 DEF new
    <3>7. after = before \cup {p}
      BY <2>2, <2>7
    <3>8. IsFiniteSet(after) /\ Cardinality(after) = Cardinality(before) + 1
      BY <2>3, <2>4, <3>7, FS_AddElement
    <3>9. Cardinality(FreeFds(added[i].files)) + Cardinality(after) >= Cardinality(wanted \ old)
      BY <1>13, <1>14, <2>4, <3>5, <3>8
    <3>10. PidsOf(added[i].listed) = PidsOf(base.listed) \cup after
      BY <2>4, <3>5, <3>7
    <3> QED
      BY <2>5, <3>5, <3>8, <3>9, <3>10
  <2> QED
    BY <2>6, <2>7
<1> HIDE DEF Made
<1>17. Short = {}
  <2> SUFFICES ASSUME Short # {}
               PROVE  FALSE
    OBVIOUS
  <2>1. Short \subseteq Nat
    BY <1>6
  <2>2. PICK k \in Short : \A m \in Short : k <= m
    BY <2>1, LeastNumber
  <2>3. k # 0 /\ k \in 0 .. Len(order)
    BY <1>15, <2>2
  <2>4. k - 1 \notin Short /\ k - 1 \in 0 .. Len(order) /\ k \in 1 .. Len(order)
    BY <1>6, <2>2, <2>3
  <2> QED
    BY <1>16, <2>2, <2>4
<1>18. Made(Len(order))
  BY <1>6, <1>17
<1>19. Late(Len(order)) = wanted \ old
  BY <1>6
<1>20. listed'[d] = added[Len(order)].listed
  BY <1>1, <1>2, <1>4 DEF Commit, DTypes
<1> HIDE DEF Late, base
<1> QED
  BY <1>12, <1>18, <1>19, <1>20 DEF Made

(* FiltersFollowSource, and of libtriple's ChangePids: a list that begins  *)
(* with the video PID comes to hold it and exactly the audio PIDs wanted,  *)
(* whatever order they are dropped and added in.                           *)
THEOREM FiltersAreSet == Spec => FiltersAreRight
<1>1. DInv /\ [Next]_vars =>
        \A d \in Demuxes, wanted, refused \in SUBSET Apids :
          /\ backend = "triple"
          /\ listed[d] # << >> /\ listed[d][1].pid = VideoPid
          /\ wanted \cap refused \subseteq PidsOf(listed[d])
          /\ Cardinality(wanted \ PidsOf(listed[d])) <= Cardinality(FreeFds(files))
          /\ ChangePids(d, wanted, refused)
          => PidsOf(listed'[d]) = {VideoPid} \cup wanted
  BY WalksExact DEF Leads, DInv, DTypes
<1>2. Spec => ChangeIsExact
  BY <1>1, Invariance, PTL DEF Spec, ChangeIsExact
<1> QED
  BY <1>2, FiltersFollowSource DEF FiltersAreRight
=============================================================================
