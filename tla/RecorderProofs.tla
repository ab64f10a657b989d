--------------------------- MODULE RecorderProofs ---------------------------
(***************************************************************************)
(* TLAPS proofs about the recorder (Recorder), for every size of the ring  *)
(* and every length of the past and the clip: that the feed is there while *)
(* a recording is written, and, step by step, that the files are what      *)
(* Recording promises.                                                     *)
(*                                                                         *)
(* The frames on their way into a file stand in a line: the last one in    *)
(* the file, the one in the writer's hands, the ring, the one in the       *)
(* feed's hands.  ChainInv says that each may follow the one before it,    *)
(* and what the feed remembers of the last one.                            *)
(***************************************************************************)
EXTENDS Recorder, SequenceTheorems, WellFoundedInduction, TLAPS

Frames  == [n : Nat, key : BOOLEAN]
FeedPcs == {"none", "top", "wait", "alloc", "freeIdle", "freeOther", "other", "push"}
FeedRec == [pc : FeedPcs, last : Nat, needKey : BOOLEAN, f : Frames, evict : BOOLEAN]
WrRec   == [pc : {"none", "loop", "mux", "close", "done"}, kind : Kinds, stopAt : Int,
            e : Frames, failed : BOOLEAN]
CtlRec  == [pc : {"free", "evict", "open", "ring", "go", "drain"}, kind : Kinds]

RecTypes ==
    /\ seq \in Nat /\ front \in Frames
    /\ ring \in Seq(Frames) /\ part \in Seq(Frames)
    /\ feed \in FeedRec /\ wr \in WrRec /\ ctl \in CtlRec

(* A start holds s_ctl from its look at s_active to its end, and the feed  *)
(* leaves under s_ctl; a writer that is alone has s_active set, and a file *)
(* is followed only while its writer is alone.                             *)
CtlInv ==
    /\ ctl.pc \in {"ring", "go"} => feedRunning /\ wr.pc = "none"
    /\ feedRunning <=> feed.pc # "none"
    /\ active => feedRunning
    /\ wr.pc # "none" => active /\ ~rivals
    /\ wr.pc = "none" => part = <<>>

(* The feed is never ahead of the store. *)
FrontInv ==
    /\ front # NoFrame => front.n = seq
    /\ feed.pc # "none" => feed.last <= seq
    /\ feed.pc = "push" => feed.f.n = feed.last

(* The frame b may stand after a, and a is as good as the feed's last one. *)
Joins(a, b) == b.key \/ b.n = a.n + 1 \/ slips \cap (a.n .. b.n - 1) # {}
Near(a) == a.n = feed.last \/ slips \cap (a.n .. feed.last) # {}

(* A writer that passes frames over: only keyframes, or nothing any more.  *)
Excused == wr.failed \/ wr.kind = "lapse"

(* The last frame the writer took. *)
LastIn == part[Len(part)]
HasCur == wr.pc = "mux" \/ part # <<>>
Cur    == IF wr.pc = "mux" THEN wr.e ELSE LastIn

(* Number n was fed to the ring before. *)
Old(n) ==
    /\ n <= seq
    /\ feed.pc # "none" => n <= feed.last
    /\ feed.pc = "push" => n < feed.last

RingInv ==
    /\ ~buf => ring = <<>>
    /\ Len(ring) <= RingFrames
    /\ \A i \in 1 .. Len(ring) : Old(ring[i].n)
    /\ \A i, j \in 1 .. Len(ring) : i < j => ring[i].n < ring[j].n
    /\ \A i \in 1 .. Len(ring) : i < Len(ring) => Joins(ring[i], ring[i + 1])

CurInv ==
    /\ wr.pc = "mux" /\ part # <<>> =>
         LastIn.n < wr.e.n /\ (Excused \/ Joins(LastIn, wr.e))
    /\ HasCur =>
         /\ Old(Cur.n)
         /\ \A i \in 1 .. Len(ring) : Cur.n < ring[i].n
         /\ ring # <<>> => Excused \/ Joins(Cur, ring[1])

(* What the next frame will stand after. *)
TailInv ==
    buf =>
      /\ feed.pc \notin {"none", "push"} /\ ~feed.needKey =>
            /\ ring # <<>> => Near(ring[Len(ring)])
            /\ ring = <<>> /\ HasCur => Excused \/ Near(Cur)
      /\ feed.pc = "push" =>
            /\ ring # <<>> => Joins(ring[Len(ring)], feed.f)
            /\ ring = <<>> /\ HasCur => Excused \/ Joins(Cur, feed.f)

ChainInv == RingInv /\ CurInv /\ TailInv

BaseInv == RecTypes /\ CtlInv /\ FrontInv
RecInv  == BaseInv /\ ChainInv

----------------------------------------------------------------------------
(* The operators of the ring.                                              *)

(* A set of numbers that is not empty has a least member. *)
LEMMA LeastIs ==
    ASSUME NEW S \in SUBSET Nat, S # {}
    PROVE  Least(S) \in S /\ \A j \in S : Least(S) <= j
<1>1. IsWellFoundedOn(OpToRel(<, Nat), Nat)
  BY NatLessThanWellFounded
<1>2. \E x \in S : \A y \in S : ~(<<y, x>> \in OpToRel(<, Nat))
  BY <1>1, WFMin
<1>3. PICK x \in S : \A y \in S : ~(<<y, x>> \in OpToRel(<, Nat))
  BY <1>2
<1>4. \A y \in S : ~(y < x)
  BY <1>3 DEF OpToRel
<1>5. \A y \in S : x <= y
  BY <1>4
<1> QED
  BY <1>5 DEF Least

(* DropFirst leaves the end of a sequence. *)
LEMMA DropFirstIs ==
    ASSUME NEW R, NEW r \in Seq(R), NEW n \in 0..Len(r)
    PROVE  /\ DropFirst(r, n) \in Seq(R) /\ Len(DropFirst(r, n)) = Len(r) - n
           /\ \A i \in 1..(Len(r) - n) : i + n \in 1..Len(r) /\ DropFirst(r, n)[i] = r[i + n]
<1>1. Len(r) \in Nat /\ n \in Nat
  OBVIOUS
<1>2. n + 1 \in 1..(Len(r) + 1) /\ Len(r) \in (n + 1) - 1..Len(r)
  BY <1>1
<1> QED
  BY <1>1, <1>2, SubSeqProperties DEF DropFirst

(* drop_oldest_group and the past of a clip leave an end of the ring; what *)
(* the former leaves begins on a keyframe.                                 *)
LEMMA DropGroupIs ==
    ASSUME NEW r \in Seq(Frames), r # <<>>
    PROVE  \E k \in 1 .. Len(r) :
             /\ DropGroup(r) = DropFirst(r, k)
             /\ k < Len(r) => r[k + 1].key
<1> DEFINE S == GroupStarts(r) \ {1}
<1>1. Len(r) \in Nat /\ Len(r) > 0
  OBVIOUS
<1>2. S \subseteq 2 .. Len(r) + 1 /\ Len(r) + 1 \in S
  BY <1>1 DEF GroupStarts
<1>3. S \in SUBSET Nat /\ S # {}
  BY <1>1, <1>2
<1>4. Least(S) \in S
  BY <1>3, LeastIs
<1>5. Least(S) \in 2 .. Len(r) + 1 /\ (Least(S) # Len(r) + 1 => r[Least(S)].key)
  BY <1>2, <1>4 DEF GroupStarts
<1> DEFINE k == Least(S) - 1
<1>6. k \in 1 .. Len(r) /\ k + 1 = Least(S)
  BY <1>1, <1>5
<1>7. DropGroup(r) = DropFirst(r, k)
  BY DEF DropGroup
<1>8. k < Len(r) => r[k + 1].key
  BY <1>1, <1>5, <1>6
<1> QED
  BY <1>6, <1>7, <1>8

LEMMA PastIs ==
    ASSUME NEW r \in Seq(Frames)
    PROVE  \E k \in 0 .. Len(r) : Past(r) = DropFirst(r, k)
<1> DEFINE S == {i \in 1 .. Len(r) : r[i].key /\ seq - r[i].n <= Pre}
<1>1. Len(r) \in Nat
  OBVIOUS
<1>2. CASE S = {}
  <2>1. Past(r) = <<>>
    BY <1>2 DEF Past
  <2>2. DropFirst(r, Len(r)) = <<>>
    BY <1>1, SubSeqEmpty DEF DropFirst
  <2> QED
    BY <1>1, <2>1, <2>2
<1>3. CASE S # {}
  <2>1. S \in SUBSET Nat
    BY <1>1
  <2>2. Least(S) \in 1 .. Len(r)
    BY <1>3, <2>1, LeastIs
  <2>3. Past(r) = DropFirst(r, Least(S) - 1)
    BY <1>3 DEF Past
  <2>4. Least(S) - 1 \in 0 .. Len(r)
    BY <1>1, <2>2
  <2> QED
    BY <2>3, <2>4
<1> QED
  BY <1>2, <1>3

(* frame_ring_push either keeps the frame behind what is left of the ring, *)
(* or leaves the frame out; what is left is all of it, or begins on a      *)
(* keyframe; and an empty ring that gave up frames takes only a keyframe.  *)
LEMMA PushIs ==
    ASSUME NEW r \in Seq(Frames), NEW f, NEW evict, Len(r) <= RingFrames
    PROVE  \E k \in 0 .. Len(r) :
             /\ 0 < k /\ k < Len(r) => r[k + 1].key
             /\ \/ /\ ~Push(r, f, evict).kept
                   /\ Push(r, f, evict).ring = DropFirst(r, k)
                \/ /\ Push(r, f, evict).kept
                   /\ Push(r, f, evict).ring = Append(DropFirst(r, k), f)
                   /\ Len(r) - k < RingFrames
                   /\ 0 < k /\ k = Len(r) => f.key
<1> DEFINE p == Push(r, f, evict)
<1> DEFINE room == IF Len(r) < RingFrames THEN r ELSE DropGroup(r)
<1>1. Len(r) \in Nat /\ RingFrames \in Nat /\ RingFrames > 0
  BY RecorderAssumption
<1>2. DropFirst(r, 0) = r
  BY <1>1, SubSeqFull DEF DropFirst
<1>3. PICK k \in 0 .. Len(r) :
        /\ room = DropFirst(r, k)
        /\ 0 < k /\ k < Len(r) => r[k + 1].key
        /\ Len(r) - k < RingFrames
        /\ k = 0 => Len(r) < RingFrames
  <2>1. CASE Len(r) < RingFrames
    BY <1>1, <1>2, <2>1
  <2>2. CASE ~(Len(r) < RingFrames)
    <3>1. r # <<>>
      BY <1>1, <2>2
    <3>2. PICK k \in 1 .. Len(r) : /\ DropGroup(r) = DropFirst(r, k)
                                   /\ k < Len(r) => r[k + 1].key
      BY <3>1, DropGroupIs
    <3>3. k \in 0 .. Len(r) /\ k # 0 /\ Len(r) - k < RingFrames /\ room = DropFirst(r, k)
      BY <1>1, <2>2, <3>2
    <3> QED
      BY <3>2, <3>3
  <2> QED
    BY <2>1, <2>2
<1>4. k = Len(r) => room = <<>>
  <2>1. DropFirst(r, Len(r)) = <<>>
    BY <1>1, SubSeqEmpty DEF DropFirst
  <2> QED
    BY <1>3, <2>1
<1>5. CASE Len(r) = RingFrames /\ ~evict
  <2>1. p.kept = FALSE /\ p.ring = r
    BY <1>5 DEF Push
  <2> QED
    BY <1>1, <1>2, <2>1
<1>6. CASE ~(Len(r) = RingFrames /\ ~evict) /\ evict /\ room = <<>> /\ ~f.key
  <2>1. p.kept = FALSE /\ p.ring = room
    BY <1>6 DEF Push
  <2> QED
    BY <1>3, <2>1
<1>7. CASE ~(Len(r) = RingFrames /\ ~evict) /\ ~(evict /\ room = <<>> /\ ~f.key)
  <2>1. p.kept = TRUE /\ p.ring = Append(room, f)
    BY <1>7 DEF Push
  <2>2. ASSUME 0 < k, k = Len(r) PROVE f.key
    <3>1. ~(Len(r) < RingFrames) => evict
      BY <1>1, <1>7
    <3>2. CASE Len(r) < RingFrames
      <4>1. room = r /\ Len(room) = Len(r)
        BY <3>2
      <4>2. r = <<>>
        BY <1>4, <2>2, <4>1
      <4> QED
        BY <2>2, <4>2
    <3> QED
      BY <1>4, <1>7, <2>2, <3>1, <3>2
  <2> QED
    BY <1>3, <2>1, <2>2
<1> QED
  BY <1>5, <1>6, <1>7
----------------------------------------------------------------------------
(* Types.                                                                  *)

LEMMA Values ==
    /\ NoFrame \in Frames /\ NoFrame.n = 0
    /\ NoFeed \in FeedRec /\ NoFeed.pc = "none"
    /\ NoWriter \in WrRec /\ NoWriter.pc = "none"
    /\ Nobody \in CtlRec /\ Nobody.pc = "free"
<1>1. FALSE \in BOOLEAN /\ TRUE \in BOOLEAN /\ 0 \in Nat /\ -1 \in Int
  OBVIOUS
<1>2. NoFrame \in Frames /\ NoFrame.n = 0
  BY <1>1 DEF NoFrame, Frames
<1>3. NoFeed \in FeedRec /\ NoFeed.pc = "none"
  BY <1>1, <1>2 DEF NoFeed, FeedRec, FeedPcs
<1>4. NoWriter \in WrRec /\ NoWriter.pc = "none"
  BY <1>1, <1>2 DEF NoWriter, WrRec, Kinds
<1>5. Nobody \in CtlRec /\ Nobody.pc = "free"
  BY DEF Nobody, CtlRec, Kinds
<1> QED
  BY <1>2, <1>3, <1>4, <1>5

LEMMA NewFeedIs ==
    ASSUME seq \in Nat
    PROVE  NewFeed \in FeedRec /\ NewFeed.pc = "top" /\ NewFeed.last = seq /\ NewFeed.needKey
<1>1. FALSE \in BOOLEAN /\ TRUE \in BOOLEAN
  OBVIOUS
<1> QED
  BY <1>1, Values DEF NewFeed, FeedRec, FeedPcs

LEMMA FrameIs == ASSUME NEW f \in Frames PROVE f.n \in Nat
BY DEF Frames

(* The end of a file that gained a frame, or begins with it. *)
LEMMA AfterOne ==
    ASSUME NEW R, NEW q \in Seq(R), NEW m \in R, NEW p, p = <<m>> \/ p = Append(q, m)
    PROVE  p \in Seq(R) /\ p # <<>> /\ p[Len(p)] = m
<1>1. CASE p = <<m>>
  BY <1>1
<1>2. CASE p = Append(q, m)
  <2>1. Len(q) \in Nat /\ Len(p) = Len(q) + 1
    BY <1>2
  <2> QED
    BY <1>2, <2>1
<1> QED
  BY <1>1, <1>2

LEMMA InitRec == Init => RecInv
<1> SUFFICES ASSUME Init PROVE RecInv
  OBVIOUS
<1>1. /\ seq = 0 /\ front = NoFrame /\ ring = <<>> /\ part = <<>> /\ feed = NoFeed
      /\ wr = NoWriter /\ ctl = Nobody /\ ~active /\ ~buf /\ ~feedRunning /\ ~rivals
  BY DEF Init
<1>2. RecTypes
  <2>1. ring \in Seq(Frames) /\ part \in Seq(Frames) /\ seq \in Nat
    BY <1>1
  <2> QED
    BY <1>1, <2>1, Values DEF RecTypes
<1>3. CtlInv /\ FrontInv
  BY <1>1, Values DEF CtlInv, FrontInv
<1>4. Len(ring) = 0
  BY <1>1
<1>5. ChainInv
  BY <1>1, <1>4, Values, RecorderAssumption DEF ChainInv, RingInv, CurInv, TailInv, HasCur
<1> QED
  BY <1>2, <1>3, <1>5 DEF RecInv, BaseInv

(* The store, and the callers that leave the line of frames as it is. *)
LEMMA StayBase ==
    ASSUME BaseInv,
           \/ Publish \/ CodecSwitch \/ Pressure
           \/ \E k \in Kinds : StartTake(k)
           \/ StartEvicted \/ StartRefused \/ StartNoTask \/ RecordStop \/ StopSegments
           \/ StopSegmentsDone \/ MarkEvent \/ ExtendEvent
    PROVE  /\ BaseInv' /\ seq' \in Nat /\ seq' >= seq
           /\ UNCHANGED <<buf, ring, slips, part, wr, feed>>
<1> USE DEF BaseInv
<1>1. CASE Publish
  <2>1. /\ seq' = seq + 1
        /\ UNCHANGED <<active, buf, ring, slips, part, wr, rivals, feed, feedRunning, ctl>>
    BY <1>1 DEF Publish, control, memory, feeding, callers, writing
  <2>2. PICK key \in BOOLEAN : front' = [n |-> seq + 1, key |-> key]
    BY <1>1 DEF Publish
  <2>3. seq \in Nat /\ seq' \in Nat /\ seq' >= seq
    BY <2>1 DEF RecTypes
  <2>4. front' \in Frames /\ front'.n = seq'
    BY <2>1, <2>2, <2>3 DEF Frames
  <2>5. RecTypes'
    BY <2>1, <2>3, <2>4 DEF RecTypes
  <2>6. CtlInv'
    BY <2>1 DEF CtlInv
  <2>7. FrontInv'
    <3>1. feed.last \in Nat
      BY DEF RecTypes, FeedRec
    <3> QED
      BY <2>1, <2>3, <2>4, <3>1 DEF FrontInv
  <2> QED
    BY <2>1, <2>3, <2>5, <2>6, <2>7
<1>2. CASE CodecSwitch
  <2>1. /\ seq' = seq + 1 /\ front' = NoFrame
        /\ UNCHANGED <<active, buf, ring, slips, part, wr, rivals, feed, feedRunning, ctl>>
    BY <1>2 DEF CodecSwitch, control, memory, feeding, callers, writing
  <2>2. seq \in Nat /\ seq' \in Nat /\ seq' >= seq /\ feed.last \in Nat
    BY <2>1 DEF RecTypes, FeedRec
  <2>3. RecTypes'
    BY <2>1, <2>2, Values DEF RecTypes
  <2>4. CtlInv' /\ FrontInv'
    BY <2>1, <2>2 DEF CtlInv, FrontInv
  <2> QED
    BY <2>1, <2>2, <2>3, <2>4
<1>3. CASE \/ Pressure
           \/ \E k \in Kinds : StartTake(k)
           \/ StartEvicted \/ StartRefused \/ StartNoTask \/ RecordStop \/ StopSegments
           \/ StopSegmentsDone \/ MarkEvent \/ ExtendEvent
  <2>1. UNCHANGED <<seq, front, buf, ring, slips, part, wr, rivals, feed, feedRunning>>
    BY <1>3 DEF Pressure, StartTake, StartEvicted, StartRefused, StartNoTask, RecordStop,
                StopSegments, StopSegmentsDone, MarkEvent, ExtendEvent, store, control, memory,
                feeding, callers, writing
  <2>2. active' = active \/ (StartNoTask /\ active' = FALSE)
    BY <1>3 DEF Pressure, StartTake, StartEvicted, StartRefused, StartNoTask, RecordStop,
                StopSegments, StopSegmentsDone, MarkEvent, ExtendEvent, control
  <2>3. /\ ctl' \in CtlRec
        /\ ctl'.pc \in {"ring", "go"} => feedRunning /\ wr.pc = "none"
    <3>1. ctl \in CtlRec /\ CtlInv
      BY DEF RecTypes
    <3>2. CASE UNCHANGED ctl
      BY <3>1, <3>2 DEF CtlInv
    <3>3. ASSUME NEW k \in Kinds, StartTake(k)
          PROVE  ctl' \in CtlRec /\ ctl'.pc \notin {"ring", "go"}
      BY <3>1, <3>3 DEF StartTake, CtlRec
    <3>4. CASE StartEvicted
      <4>1. ctl' = [ctl EXCEPT !.pc = "open"]
        BY <3>4 DEF StartEvicted
      <4> QED
        BY <3>1, <4>1 DEF CtlRec
    <3>5. CASE ctl' = Nobody
      BY <3>5, Values
    <3>6. CASE StopSegments
      BY <3>6, Values DEF StopSegments, CtlRec
    <3> QED
      BY <1>3, <3>2, <3>3, <3>4, <3>5, <3>6
         DEF Pressure, StartRefused, StartNoTask, RecordStop, StopSegmentsDone, MarkEvent,
             ExtendEvent, callers
  <2>4. StartNoTask => wr.pc = "none"
    BY DEF StartNoTask, CtlInv
  <2>5. seq \in Nat /\ seq >= seq
    BY DEF RecTypes
  <2>6. RecTypes' /\ CtlInv' /\ FrontInv'
    BY <2>1, <2>2, <2>3, <2>4 DEF RecTypes, CtlInv, FrontInv
  <2> QED
    BY <2>1, <2>5, <2>6
<1> QED
  BY <1>1, <1>2, <1>3

LEMMA Numbers ==
    ASSUME RecTypes
    PROVE  /\ seq \in Nat /\ feed.last \in Nat /\ Len(ring) \in Nat /\ Len(part) \in Nat
           /\ front.n \in Nat /\ feed.f.n \in Nat /\ wr.e.n \in Nat
           /\ \A i \in 1 .. Len(ring) : ring[i] \in Frames /\ ring[i].n \in Nat
           /\ part # <<>> => LastIn \in Frames /\ LastIn.n \in Nat
           /\ HasCur => Cur \in Frames /\ Cur.n \in Nat
<1>1. seq \in Nat /\ feed.last \in Nat /\ feed.f \in Frames /\ wr.e \in Frames /\ front \in Frames
  BY DEF RecTypes, FeedRec, WrRec
<1>2. /\ ring \in Seq(Frames) /\ part \in Seq(Frames)
  BY DEF RecTypes
<1>3. Len(ring) \in Nat /\ Len(part) \in Nat /\ \A i \in 1 .. Len(ring) : ring[i] \in Frames
  BY <1>2
<1>4. part # <<>> => LastIn \in Frames
  BY <1>2 DEF LastIn
<1>5. HasCur => Cur \in Frames
  BY <1>1, <1>4 DEF HasCur, Cur
<1> QED
  BY <1>1, <1>3, <1>4, <1>5, FrameIs

(* Time may pass. *)
LEMMA StayChain ==
    ASSUME RecTypes, ChainInv, seq' \in Nat, seq' >= seq,
           UNCHANGED <<buf, ring, slips, part, wr, feed>>
    PROVE  ChainInv'
<1> USE DEF ChainInv
<1>1. \A n \in Nat : Old(n) => Old(n)'
  BY Numbers DEF Old
<1>2. RingInv'
  BY <1>1, Numbers DEF RingInv, Joins
<1>3. LastIn' = LastIn /\ Cur' = Cur /\ HasCur' = HasCur /\ Excused' = Excused
  BY DEF LastIn, Cur, HasCur, Excused
<1>4. CurInv'
  BY <1>1, <1>3, Numbers DEF CurInv, Joins
<1>5. TailInv'
  BY <1>3 DEF TailInv, Joins, Near
<1> QED
  BY <1>2, <1>4, <1>5

(* The feed goes on without a frame: it has seen no more than the store    *)
(* holds, and where it forgets where it was it waits for a keyframe,       *)
(* unless there is no ring.                                                *)
LEMMA FeedMoves ==
    ASSUME RecTypes, FrontInv, ChainInv, UNCHANGED <<seq, ring, slips, part, wr>>,
           feed' \in FeedRec, feed'.pc # "push",
           feed'.pc # "none" => \/ feed'.last = seq
                                \/ feed.pc # "none" /\ feed'.last = feed.last,
           ~buf' => ring = <<>>,
           \/ ~buf'
           \/ feed'.pc = "none"
           \/ feed'.needKey
           \/ /\ buf /\ feed.pc \notin {"none", "push"} /\ ~feed.needKey
              /\ feed'.last = feed.last
    PROVE  ChainInv'
<1> USE DEF ChainInv
<1>1. \A n \in Nat : Old(n) => Old(n)'
  <2> SUFFICES ASSUME NEW n \in Nat, Old(n) PROVE Old(n)'
    OBVIOUS
  <2> QED
    BY DEF Old
<1>2. RingInv'
  BY <1>1, Numbers DEF RingInv, Joins
<1>3. LastIn' = LastIn /\ Cur' = Cur /\ HasCur' = HasCur /\ Excused' = Excused
  BY DEF LastIn, Cur, HasCur, Excused
<1>4. CurInv'
  BY <1>1, <1>3, Numbers DEF CurInv, Joins
<1>5. TailInv'
  BY <1>3 DEF TailInv, Near
<1> QED
  BY <1>2, <1>4, <1>5

(* The feed without a frame, and the switch of the dashcam. *)
LEMMA FeedRec1 ==
    ASSUME RecInv,
           \/ FeedLeave \/ FeedTop \/ FeedTimeout \/ FeedNoRing \/ FeedAlloc \/ FeedOther
           \/ FeedBack \/ \E on \in BOOLEAN : SetDashcam(on)
    PROVE  RecInv'
<1> USE DEF RecInv, BaseInv
<1>0. feed \in FeedRec /\ seq \in Nat /\ ctl \in CtlRec
  BY DEF RecTypes
<1> DEFINE Moved == /\ feed' \in FeedRec /\ feed'.pc # "push"
                    /\ feed'.pc # "none" => \/ feed'.last = seq
                                            \/ feed.pc # "none" /\ feed'.last = feed.last
                    /\ \/ ~buf'
                       \/ feed'.pc = "none"
                       \/ feed'.needKey
                       \/ /\ buf /\ feed.pc \notin {"none", "push"} /\ ~feed.needKey
                          /\ feed'.last = feed.last
<1> DEFINE Kept == /\ UNCHANGED <<seq, front, ring, slips, part, wr, rivals, ctl, active>>
                   /\ buf => buf'
                   /\ feedRunning' <=> feed'.pc # "none"
                   /\ feedRunning' = feedRunning \/ feedRunning' = TRUE
                      \/ (ctl.pc = "free" /\ ~active)
<1>1. Moved /\ Kept => RecInv'
  <2> SUFFICES ASSUME Moved, Kept PROVE RecInv'
    OBVIOUS
  <2>1. RecTypes'
    BY DEF RecTypes
  <2>2. CtlInv'
    BY DEF CtlInv
  <2>3. FrontInv'
    BY Numbers DEF FrontInv
  <2>4. ~buf' => ring = <<>>
    BY DEF ChainInv, RingInv
  <2>5. ChainInv'
    BY <2>4, FeedMoves
  <2> QED
    BY <2>1, <2>2, <2>3, <2>5
<1>2. feedRunning <=> feed.pc # "none"
  BY DEF CtlInv
<1>3. CASE FeedLeave
  BY <1>1, <1>3, Values DEF FeedLeave, store, control, memory, writing
<1>4. CASE FeedTop
  <2>1. Kept
    BY <1>0, <1>2, <1>4 DEF FeedTop, FeedAt, FeedRec, store, control, memory, callers, writing
  <2>2. feed.pc = "top" /\ feed' = [feed EXCEPT !.pc = "wait", !.needKey = feed.needKey \/ resync]
        /\ buf' = buf
    BY <1>4 DEF FeedTop, FeedAt, memory
  <2>3. Moved
    <3>1. (feed.needKey \/ resync) \in BOOLEAN
      OBVIOUS
    <3> QED
      BY <1>0, <2>2, <3>1 DEF FeedRec, FeedPcs
  <2> QED
    BY <1>1, <2>1, <2>3
<1>5. CASE FeedTimeout
  <2>1. feed.pc = "wait" /\ buf' = buf
        /\ \/ feed' = [feed EXCEPT !.pc = "freeIdle", !.needKey = TRUE]
           \/ feed' = [feed EXCEPT !.pc = "top"]
    BY <1>5 DEF FeedTimeout, FeedAt, memory
  <2>2. Moved
    BY <1>0, <2>1 DEF FeedRec, FeedPcs
  <2>3. feed'.pc # "none"
    BY <1>0, <2>1 DEF FeedRec
  <2>4. Kept
    BY <1>2, <1>5, <2>1, <2>3 DEF FeedTimeout, store, control, memory, callers, writing
  <2> QED
    BY <1>1, <2>2, <2>4
<1>6. CASE FeedNoRing
  <2>1. feed.pc = "wait" /\ ~buf' /\ ~buf
        /\ \/ feed' = [feed EXCEPT !.pc = "top", !.last = seq]
           \/ feed' = [feed EXCEPT !.pc = "alloc"]
    BY <1>6 DEF FeedNoRing, FeedAt, memory
  <2>2. Moved /\ feed'.pc # "none"
    BY <1>0, <2>1 DEF FeedRec, FeedPcs
  <2>3. Kept
    BY <1>2, <1>6, <2>1, <2>2 DEF FeedNoRing, store, control, memory, callers, writing
  <2> QED
    BY <1>1, <2>2, <2>3
<1>7. CASE FeedAlloc
  <2>1. feed.pc = "alloc" /\ (buf => buf')
        /\ feed' = [feed EXCEPT !.pc = "top", !.needKey = TRUE, !.last = seq]
    BY <1>7 DEF FeedAlloc, FeedAt
  <2>2. Moved /\ feed'.pc # "none"
    BY <1>0, <2>1 DEF FeedRec, FeedPcs
  <2>3. Kept
    BY <1>2, <1>7, <2>1, <2>2 DEF FeedAlloc, store, control, callers, writing
  <2> QED
    BY <1>1, <2>2, <2>3
<1>8. CASE FeedOther
  <2>1. feed.pc = "wait" /\ buf' = buf /\ buf
        /\ feed' = [feed EXCEPT !.pc = IF active THEN "top" ELSE "freeOther"]
    BY <1>8 DEF FeedOther, FeedAt, memory
  <2>2. Moved /\ feed'.pc # "none"
    BY <1>0, <2>1 DEF FeedRec, FeedPcs
  <2>3. Kept
    BY <1>2, <1>8, <2>1, <2>2 DEF FeedOther, store, memory, callers, writing
  <2> QED
    BY <1>1, <2>2, <2>3
<1>9. CASE FeedBack
  <2>1. feed.pc = "other" /\ buf' = buf
        /\ feed' = [feed EXCEPT !.pc = "top", !.needKey = TRUE, !.last = seq]
    BY <1>9 DEF FeedBack, FeedAt, memory
  <2>2. Moved /\ feed'.pc # "none"
    BY <1>0, <2>1 DEF FeedRec, FeedPcs
  <2>3. Kept
    BY <1>2, <1>9, <2>1, <2>2 DEF FeedBack, store, control, memory, callers, writing
  <2> QED
    BY <1>1, <2>2, <2>3
<1>10. ASSUME NEW on \in BOOLEAN, SetDashcam(on) PROVE RecInv'
  <2>1. /\ UNCHANGED <<seq, front, ring, slips, part, wr, rivals, ctl, active, buf>>
        /\ feedRunning' = (feedRunning \/ on)
        /\ feed' = IF on /\ ~feedRunning THEN NewFeed ELSE feed
    BY <1>10 DEF SetDashcam, store, control, memory, writing
  <2>2. CASE on /\ ~feedRunning
    <3>1. Moved /\ feed'.pc # "none"
      BY <1>0, <2>1, <2>2, NewFeedIs
    <3>2. Kept
      BY <2>1, <2>2, <3>1
    <3> QED
      BY <1>1, <3>1, <3>2
  <2>3. CASE ~(on /\ ~feedRunning)
    <3>1. UNCHANGED feed /\ (feedRunning' <=> feedRunning)
      BY <2>1, <2>3
    <3>2. RecTypes' /\ FrontInv' /\ CtlInv'
      BY <2>1, <3>1 DEF RecTypes, FrontInv, CtlInv
    <3>3. ChainInv'
      BY <1>0, <2>1, <3>1, StayChain
    <3> QED
      BY <3>2, <3>3
  <2> QED
    BY <2>2, <2>3
<1> QED
  BY <1>3, <1>4, <1>5, <1>6, <1>7, <1>8, <1>9, <1>10

(* The ring is freed, by the feed or by somebody who decided to before. *)
LEMMA FreeRec == ASSUME RecInv, RingFreed \/ FeedFree PROVE RecInv'
<1> USE DEF RecInv, BaseInv
<1>1. /\ buf' = FALSE /\ ring' = <<>>
      /\ UNCHANGED <<seq, front, slips, part, wr, rivals, ctl, active, feedRunning>>
  BY DEF RingFreed, FeedFree, RingFree, store, control, feeding, callers, writing
<1>2. feed \in FeedRec /\ seq \in Nat
  BY DEF RecTypes
<1>3. /\ feed' \in FeedRec /\ feed'.last = feed.last /\ feed'.f = feed.f
      /\ (feed'.pc = "push" <=> feed.pc = "push") /\ (feed'.pc = "none" <=> feed.pc = "none")
  BY <1>2 DEF RingFreed, FeedFree, FeedAt, feeding, FeedRec, FeedPcs
<1>4. ring' \in Seq(Frames) /\ Len(ring') = 0
  BY <1>1
<1>5. RecTypes' /\ CtlInv' /\ FrontInv'
  BY <1>1, <1>3, <1>4 DEF RecTypes, CtlInv, FrontInv
<1>6. RingInv'
  BY <1>1, <1>4, RecorderAssumption DEF RingInv
<1>7. CurInv'
  <2>1. LastIn' = LastIn /\ Cur' = Cur /\ HasCur' = HasCur /\ Excused' = Excused
    BY <1>1 DEF LastIn, Cur, HasCur, Excused
  <2>2. \A n \in Nat : Old(n) => Old(n)'
    BY <1>1, <1>3 DEF Old
  <2> QED
    BY <1>1, <1>4, <2>1, <2>2, Numbers DEF ChainInv, CurInv, Joins
<1>8. TailInv'
  BY <1>1 DEF TailInv
<1> QED
  BY <1>5, <1>6, <1>7, <1>8 DEF ChainInv

(* Nobody has a frame of a file that is followed: the ring alone counts.   *)
LEMMA NoFile ==
    ASSUME RecTypes, RingInv, TailInv, ~HasCur', seq' = seq, ~buf' => ring = <<>>,
           UNCHANGED <<ring, slips, feed>>, buf' => buf \/ ring = <<>>
    PROVE  ChainInv'
<1>1. RingInv'
  BY DEF RingInv, Old, Joins
<1>2. CurInv'
  BY DEF CurInv, HasCur
<1>3. TailInv'
  BY DEF TailInv, Near, Joins
<1> QED
  BY <1>1, <1>2, <1>3 DEF ChainInv

(* feed_ensure, and the file is no longer followed: a ring that was not    *)
(* there is empty, and a new feed waits for a keyframe.                    *)
LEMMA EnsureChain ==
    ASSUME RecTypes, FrontInv, CtlInv, ChainInv, FeedEnsure, ~HasCur', seq' = seq
    PROVE  /\ ChainInv' /\ feed' \in FeedRec /\ feed'.pc # "none" /\ feedRunning'
           /\ feed'.last <= seq
           /\ feed'.pc = "push" => feed'.f.n = feed'.last
<1>1. /\ buf' = TRUE /\ feedRunning' = TRUE /\ UNCHANGED <<ring, slips>>
      /\ feed' = IF feedRunning THEN feed ELSE NewFeed
  BY DEF FeedEnsure
<1>2. feed \in FeedRec /\ seq \in Nat /\ (feedRunning <=> feed.pc # "none")
  BY DEF RecTypes, CtlInv
<1>3. CASE ~feedRunning
  <2>1. feed' \in FeedRec /\ feed'.pc = "top" /\ feed'.last = seq /\ feed'.needKey
    BY <1>1, <1>2, <1>3, NewFeedIs
  <2>2. RingInv'
    <3>1. \A n \in Nat : Old(n) => Old(n)'
      BY <1>2, <2>1 DEF Old
    <3> QED
      BY <1>1, <3>1, Numbers DEF ChainInv, RingInv, Joins
  <2>3. CurInv'
    BY DEF CurInv, HasCur
  <2>4. TailInv'
    BY <2>1 DEF TailInv
  <2> QED
    BY <1>1, <1>2, <2>1, <2>2, <2>3, <2>4 DEF ChainInv
<1>4. CASE feedRunning
  <2>1. feed' = feed
    BY <1>1, <1>4
  <2>2. ~buf => ring = <<>>
    BY DEF ChainInv, RingInv
  <2>3. ChainInv'
    BY <1>1, <2>1, <2>2, NoFile DEF ChainInv
  <2> QED
    BY <1>1, <1>2, <1>4, <2>1, <2>3 DEF FrontInv
<1> QED
  BY <1>3, <1>4

LEMMA EnsureRec == ASSUME RecInv, StartOpen \/ StartFails PROVE RecInv'
<1> USE DEF RecInv, BaseInv
<1>1. /\ ctl.pc = "open" /\ UNCHANGED <<seq, front, active>>
      /\ wr' = NoWriter /\ part' = <<>>
      /\ FeedEnsure \/ UNCHANGED <<memory, feeding>>
  BY DEF StartOpen, StartFails, TakeOver, store
<1>2. wr'.pc = "none" /\ ~HasCur' /\ part' \in Seq(Frames) /\ wr' \in WrRec
  BY <1>1, Values DEF HasCur
<1>3. /\ ctl' \in CtlRec
      /\ \/ ctl'.pc = "free"
         \/ ctl'.pc = "ring" /\ FeedEnsure
  <2>1. CASE StartFails
    BY <2>1, Values DEF StartFails
  <2>2. CASE StartOpen
    <3>1. ctl \in CtlRec
      BY DEF RecTypes
    <3> QED
      BY <2>2, <3>1 DEF StartOpen, CtlRec
  <2> QED
    BY <2>1, <2>2
<1>4. CASE FeedEnsure
  <2>1. /\ ChainInv' /\ feed' \in FeedRec /\ feed'.pc # "none" /\ feedRunning'
        /\ feed'.last <= seq
        /\ feed'.pc = "push" => feed'.f.n = feed'.last
    BY <1>1, <1>2, <1>4, EnsureChain
  <2>2. ring' = ring
    BY <1>4 DEF FeedEnsure
  <2>3. RecTypes'
    BY <1>1, <1>2, <1>3, <2>1, <2>2 DEF RecTypes
  <2>4. CtlInv' /\ FrontInv'
    BY <1>1, <1>2, <1>3, <2>1 DEF CtlInv, FrontInv
  <2> QED
    BY <2>1, <2>3, <2>4
<1>5. CASE UNCHANGED <<memory, feeding>> /\ ctl'.pc = "free"
  <2>1. UNCHANGED <<buf, ring, feed, feedRunning, slips>>
    BY <1>5 DEF memory, feeding
  <2>2. RecTypes' /\ CtlInv' /\ FrontInv'
    BY <1>1, <1>2, <1>3, <1>5, <2>1 DEF RecTypes, CtlInv, FrontInv
  <2>3. ~buf' => ring = <<>>
    BY <2>1 DEF ChainInv, RingInv
  <2>4. ChainInv'
    BY <1>1, <1>2, <2>1, <2>3, NoFile DEF ChainInv
  <2> QED
    BY <2>2, <2>4
<1> QED
  BY <1>1, <1>3, <1>4, <1>5

(* The feed takes the newest frame, or finds none. *)
LEMMA FrameRec == ASSUME RecInv, FeedFrame PROVE RecInv'
<1> USE DEF RecInv, BaseInv
<1>1. /\ feed.pc = "wait" /\ seq # feed.last /\ buf
      /\ UNCHANGED <<seq, front, active, buf, ring, part, wr, rivals, ctl, feedRunning>>
  BY DEF FeedFrame, FeedAt, store, control, memory, callers, writing
<1>2. /\ feed \in FeedRec /\ seq \in Nat /\ front \in Frames /\ feed.last \in Nat
      /\ feed.last < seq
  BY <1>1 DEF RecTypes, FrontInv, FeedRec
<1>3. LastIn' = LastIn /\ Cur' = Cur /\ HasCur' = HasCur /\ Excused' = Excused
  BY <1>1 DEF LastIn, Cur, HasCur, Excused
<1>4. CtlInv' <=> feed'.pc # "none"
  BY <1>1 DEF CtlInv
<1>5. ASSUME slips \subseteq slips', NEW a, NEW b PROVE Joins(a, b) => Joins(a, b)'
  BY <1>5 DEF Joins
<1>6. CASE front = NoFrame
  <2>1. /\ feed' = [feed EXCEPT !.pc = "top", !.last = seq]
        /\ slips' = IF feed.needKey THEN slips ELSE slips \cup {seq}
    BY <1>6 DEF FeedFrame
  <2>2. feed' \in FeedRec /\ feed'.pc = "top" /\ feed'.last = seq /\ feed'.needKey = feed.needKey
    BY <1>2, <2>1 DEF FeedRec, FeedPcs
  <2>3. RecTypes' /\ FrontInv'
    BY <1>1, <1>2, <2>2 DEF RecTypes, FrontInv
  <2>4. slips \subseteq slips' /\ (~feed.needKey => seq \in slips')
    BY <2>1
  <2>5. \A n \in Nat : Old(n) => Old(n)'
    BY <1>1, <1>2, <2>2 DEF Old
  <2>6. RingInv'
    BY <1>1, <1>5, <2>4, <2>5, Numbers DEF ChainInv, RingInv
  <2>7. CurInv'
    BY <1>1, <1>3, <1>5, <2>4, <2>5, Numbers DEF ChainInv, CurInv
  <2>8. TailInv'
    <3>1. ASSUME NEW a \in Frames, Old(a.n), ~feed.needKey PROVE Near(a)'
      <4>1. seq \in slips' \cap (a.n .. feed'.last)
        BY <1>2, <2>2, <2>4, <3>1, FrameIs DEF Old
      <4> QED
        BY <1>1, <4>1, <2>2 DEF Near
    <3>2. ring # <<>> => Len(ring) \in 1 .. Len(ring)
      BY DEF RecTypes
    <3>3. ring # <<>> /\ ~feed.needKey => Near(ring[Len(ring)])'
      BY <1>1, <3>1, <3>2, Numbers DEF ChainInv, RingInv
    <3>4. HasCur /\ ~feed.needKey => Near(Cur)'
      BY <1>3, <3>1, Numbers DEF ChainInv, CurInv
    <3> QED
      BY <1>1, <1>3, <2>2, <3>3, <3>4 DEF TailInv
  <2> QED
    BY <1>4, <2>2, <2>3, <2>6, <2>7, <2>8 DEF ChainInv
<1>7. CASE front # NoFrame
  <2> DEFINE need == feed.needKey \/ front.n - feed.last > 1
  <2> DEFINE skip == need /\ ~front.key
  <2>1. /\ slips' = slips
        /\ feed' = [feed EXCEPT !.pc = IF skip THEN "top" ELSE "push",
                                !.last = front.n, !.needKey = need,
                                !.f = IF skip THEN NoFrame ELSE front,
                                !.evict = ~active /\ (front.key \/ ~need)]
    BY <1>7 DEF FeedFrame
  <2>2. front.n = seq
    BY <1>7 DEF FrontInv
  <2>3. /\ feed' \in FeedRec /\ feed'.last = seq
        /\ feed'.pc = IF skip THEN "top" ELSE "push"
        /\ feed'.needKey = need
        /\ feed'.f = IF skip THEN NoFrame ELSE front
    <3>1. need \in BOOLEAN /\ (~active /\ (front.key \/ ~need)) \in BOOLEAN
      OBVIOUS
    <3>2. (IF skip THEN NoFrame ELSE front) \in Frames
      BY <1>2, Values
    <3> HIDE DEF need, skip
    <3> QED
      BY <1>2, <2>1, <2>2, <3>1, <3>2 DEF FeedRec, FeedPcs
  <2>4. RecTypes'
    BY <1>1, <2>3 DEF RecTypes
  <2>5. FrontInv'
    <3> HIDE DEF need, skip
    <3> QED
      BY <1>1, <1>2, <1>7, <2>2, <2>3 DEF FrontInv
  <2>6. \A n \in Nat : Old(n) => Old(n)' /\ n <= feed.last
    <3> HIDE DEF need, skip
    <3> QED
      BY <1>1, <1>2, <2>3 DEF Old
  <2>7. RingInv'
    BY <1>1, <1>5, <2>1, <2>6, Numbers DEF ChainInv, RingInv
  <2>8. CurInv'
    BY <1>1, <1>3, <1>5, <2>1, <2>6, Numbers DEF ChainInv, CurInv
  <2>9. TailInv'
    <3>1. CASE skip
      BY <2>3, <3>1 DEF TailInv
    <3>2. CASE ~skip
      <4>1. feed'.pc = "push" /\ feed'.f = front
        BY <2>3, <3>2
      <4>2. ASSUME NEW a \in Frames, Old(a.n), ~feed.needKey => Near(a)
            PROVE  Joins(a, front)'
        <5>1. CASE front.key
          BY <1>1, <5>1 DEF Joins
        <5>2. CASE ~need
          <6>1. seq - 1 = feed.last /\ a.n \in Nat /\ Near(a)
            BY <1>2, <2>2, <4>2, <5>2, FrameIs
          <6>2. seq = feed.last + 1
            BY <1>2, <6>1
          <6> QED
            BY <1>1, <1>2, <2>1, <2>2, <6>1, <6>2 DEF Joins, Near
        <5> QED
          BY <3>2, <5>1, <5>2
      <4>3. ring # <<>> => Len(ring) \in 1 .. Len(ring)
        BY DEF RecTypes
      <4>4. ring # <<>> => Joins(ring[Len(ring)], front)'
        BY <1>1, <4>2, <4>3, Numbers DEF ChainInv, RingInv, TailInv
      <4>5. ring = <<>> /\ HasCur => Excused \/ Joins(Cur, front)'
        BY <1>1, <1>3, <4>2, Numbers DEF ChainInv, CurInv, TailInv
      <4> HIDE DEF need, skip
      <4> QED
        BY <1>1, <1>3, <4>1, <4>4, <4>5 DEF TailInv, Joins
    <3> QED
      BY <3>1, <3>2
  <2> QED
    BY <1>4, <2>3, <2>4, <2>5, <2>7, <2>8, <2>9 DEF ChainInv
<1> QED
  BY <1>6, <1>7

(* The end of the ring is as good a ring. *)
LEMMA SuffixIs ==
    ASSUME RecTypes, RingInv, NEW k \in 0 .. Len(ring)
    PROVE  LET s == DropFirst(ring, k) IN
           /\ s \in Seq(Frames) /\ Len(s) \in Nat /\ Len(s) = Len(ring) - k
           /\ Len(s) <= RingFrames
           /\ \A i \in 1 .. Len(s) : /\ s[i] \in Frames /\ s[i].n \in Nat /\ Old(s[i].n)
                                     /\ i + k \in 1 .. Len(ring) /\ s[i] = ring[i + k]
           /\ \A i, j \in 1 .. Len(s) : i < j => s[i].n < s[j].n
           /\ \A i \in 1 .. Len(s) : i < Len(s) => Joins(s[i], s[i + 1])
<1> DEFINE s == DropFirst(ring, k)
<1>1. ring \in Seq(Frames) /\ Len(ring) \in Nat /\ RingFrames \in Nat
  BY RecorderAssumption DEF RecTypes
<1>2. /\ s \in Seq(Frames) /\ Len(s) = Len(ring) - k
      /\ \A i \in 1 .. (Len(ring) - k) : i + k \in 1 .. Len(ring) /\ s[i] = ring[i + k]
  BY <1>1, DropFirstIs
<1> HIDE DEF s
<1>3. Len(s) \in Nat /\ Len(s) <= RingFrames
  BY <1>1, <1>2 DEF RingInv
<1>4. \A i \in 1 .. Len(s) : /\ s[i] \in Frames /\ s[i].n \in Nat /\ Old(s[i].n)
                             /\ i + k \in 1 .. Len(ring) /\ s[i] = ring[i + k]
  BY <1>2, Numbers DEF RingInv
<1>5. ASSUME NEW i \in 1 .. Len(s), NEW j \in 1 .. Len(s), i < j PROVE s[i].n < s[j].n
  <2>1. i + k < j + k
    BY <1>1, <1>3, <1>5
  <2> QED
    BY <1>4, <2>1 DEF RingInv
<1>6. ASSUME NEW i \in 1 .. Len(s), i < Len(s) PROVE Joins(s[i], s[i + 1])
  <2>1. i + 1 \in 1 .. Len(s) /\ i + k < Len(ring) /\ (i + 1) + k = (i + k) + 1
    BY <1>1, <1>2, <1>3, <1>6
  <2> QED
    BY <1>4, <2>1 DEF RingInv
<1> QED
  BY <1>2, <1>3, <1>4, <1>5, <1>6 DEF s

(* What the writer took stands before the end of a ring that is whole, or  *)
(* begins on a keyframe.                                                   *)
LEMMA CurBefore ==
    ASSUME RecTypes, RingInv, CurInv, HasCur, NEW k \in 0 .. Len(ring),
           0 < k /\ k < Len(ring) => ring[k + 1].key
    PROVE  /\ \A i \in 1 .. Len(DropFirst(ring, k)) : Cur.n < DropFirst(ring, k)[i].n
           /\ k < Len(ring) => Excused \/ Joins(Cur, DropFirst(ring, k)[1])
<1> DEFINE s == DropFirst(ring, k)
<1>1. /\ Len(s) \in Nat /\ Len(s) = Len(ring) - k /\ Len(ring) \in Nat
      /\ \A i \in 1 .. Len(s) : i + k \in 1 .. Len(ring) /\ s[i] = ring[i + k]
  BY SuffixIs, Numbers
<1> HIDE DEF s
<1>2. \A i \in 1 .. Len(s) : Cur.n < s[i].n
  BY <1>1 DEF CurInv
<1>3. ASSUME k < Len(ring) PROVE Excused \/ Joins(Cur, s[1])
  <2>1. 1 \in 1 .. Len(s) /\ s[1] = ring[1 + k]
    BY <1>1, <1>3
  <2>2. CASE k = 0
    <3>1. ring # <<>> /\ s[1] = ring[1]
      BY <1>3, <2>1, <2>2
    <3> QED
      BY <3>1 DEF CurInv
  <2>3. CASE k # 0
    <3>1. 1 + k = k + 1 /\ 0 < k
      BY <2>3
    <3>2. s[1].key
      BY <1>3, <2>1, <3>1
    <3> QED
      BY <3>2 DEF Joins
  <2> QED
    BY <2>2, <2>3
<1> QED
  BY <1>2, <1>3 DEF s

(* The feed pushes its frame. *)
LEMMA PushRec == ASSUME RecInv, FeedPush PROVE RecInv'
<1> USE DEF RecInv, BaseInv
<1> DEFINE p == Push(ring, feed.f, feed.evict)
<1> DEFINE kept == buf /\ p.kept
<1>1. /\ feed.pc = "push" /\ ring' = (IF buf THEN p.ring ELSE ring)
      /\ feed' = [feed EXCEPT !.pc = "top", !.f = NoFrame, !.evict = FALSE, !.needKey = ~kept]
      /\ UNCHANGED <<seq, front, active, buf, part, wr, rivals, ctl, feedRunning, slips>>
  BY DEF FeedPush, FeedAt, store, control, callers, writing
<1> HIDE DEF kept, p
<1>2. feed \in FeedRec /\ feed.f \in Frames /\ feed.f.n = feed.last /\ feed.last \in Nat
  BY <1>1 DEF RecTypes, FeedRec, FrontInv
<1>3. /\ feed' \in FeedRec /\ feed'.pc = "top" /\ feed'.last = feed.last
      /\ feed'.needKey = ~kept
  <2>1. (~kept) \in BOOLEAN /\ FALSE \in BOOLEAN
    OBVIOUS
  <2> QED
    BY <1>1, <1>2, <2>1, Values DEF FeedRec, FeedPcs
<1>4. CtlInv' /\ FrontInv'
  BY <1>1, <1>3 DEF CtlInv, FrontInv
<1>5. LastIn' = LastIn /\ Cur' = Cur /\ HasCur' = HasCur /\ Excused' = Excused
  BY <1>1 DEF LastIn, Cur, HasCur, Excused
<1>6. \A n \in Nat : Old(n) => Old(n)' /\ n < feed.last
  BY <1>1, <1>3 DEF Old
<1>7. \A n \in Nat : n <= feed.last => Old(n)'
  BY <1>1, <1>2, <1>3, Numbers DEF Old, FrontInv
<1>8. CASE ~buf
  <2>1. ring' = ring /\ feed'.needKey
    BY <1>1, <1>3, <1>8 DEF kept
  <2>2. ChainInv'
    BY <1>1, <1>3, <1>8, <2>1, FeedMoves DEF ChainInv, RingInv
  <2>3. RecTypes'
    BY <1>1, <1>3, <2>1 DEF RecTypes
  <2> QED
    BY <1>4, <2>2, <2>3
<1>9. CASE buf
  <2>1. ring \in Seq(Frames) /\ Len(ring) <= RingFrames /\ Len(ring) \in Nat /\ RingFrames \in Nat
    BY RecorderAssumption DEF RecTypes, ChainInv, RingInv
  <2>2. PICK k \in 0 .. Len(ring) :
          /\ 0 < k /\ k < Len(ring) => ring[k + 1].key
          /\ \/ ~p.kept /\ p.ring = DropFirst(ring, k)
             \/ /\ p.kept
                /\ p.ring = Append(DropFirst(ring, k), feed.f)
                /\ Len(ring) - k < RingFrames
                /\ 0 < k /\ k = Len(ring) => feed.f.key
    BY <2>1, PushIs DEF p
  <2> DEFINE s == DropFirst(ring, k)
  <2>3. /\ s \in Seq(Frames) /\ Len(s) \in Nat /\ Len(s) = Len(ring) - k
        /\ Len(s) <= RingFrames
        /\ \A i \in 1 .. Len(s) : /\ s[i] \in Frames /\ s[i].n \in Nat /\ Old(s[i].n)
                                  /\ i + k \in 1 .. Len(ring) /\ s[i] = ring[i + k]
        /\ \A i, j \in 1 .. Len(s) : i < j => s[i].n < s[j].n
        /\ \A i \in 1 .. Len(s) : i < Len(s) => Joins(s[i], s[i + 1])
    BY SuffixIs DEF ChainInv
  <2>4. HasCur => /\ \A i \in 1 .. Len(s) : Cur.n < s[i].n
                  /\ k < Len(ring) => Excused \/ Joins(Cur, s[1])
                  /\ Cur \in Frames /\ Cur.n \in Nat /\ Old(Cur.n)
    BY <2>2, CurBefore, Numbers DEF ChainInv, CurInv
  <2> HIDE DEF s
  <2>5. CASE ~p.kept
    <3>1. ring' = s /\ feed'.needKey
      BY <1>1, <1>3, <1>9, <2>2, <2>5 DEF kept, s
    <3>2. RecTypes'
      BY <1>1, <1>3, <2>3, <3>1 DEF RecTypes
    <3>3. RingInv'
      BY <1>1, <1>6, <1>9, <2>3, <3>1 DEF RingInv, Joins
    <3>4. s # <<>> => k < Len(ring)
      BY <2>1, <2>3
    <3>5. CurInv'
      <4>1. wr.pc = "mux" /\ part # <<>> =>
              LastIn.n < wr.e.n /\ (Excused \/ Joins(LastIn, wr.e))
        BY DEF ChainInv, CurInv
      <4> QED
        BY <1>1, <1>5, <1>6, <2>4, <3>1, <3>4, <4>1 DEF CurInv, Joins
    <3>6. TailInv'
      BY <1>3, <3>1 DEF TailInv
    <3> QED
      BY <1>4, <3>2, <3>3, <3>5, <3>6 DEF ChainInv
  <2>6. CASE p.kept
    <3> DEFINE m == Len(s)
    <3>1. ring' = Append(s, feed.f) /\ ~feed'.needKey
      BY <1>1, <1>3, <1>9, <2>2, <2>6 DEF kept, s
    <3>2. /\ ring' \in Seq(Frames) /\ ring' # <<>> /\ Len(ring') = m + 1
          /\ \A i \in 1 .. m : ring'[i] = s[i]
          /\ ring'[m + 1] = feed.f
      BY <1>2, <2>3, <3>1
    <3>3. \A i \in 1 .. (m + 1) : i \in 1 .. m \/ i = m + 1
      BY <2>3
    <3>4. m + 1 <= RingFrames
      BY <2>1, <2>2, <2>3, <2>6
    <3>5. RecTypes'
      BY <1>1, <1>3, <3>2 DEF RecTypes
    <3>6. \A i \in 1 .. m : s[i].n < feed.f.n
      BY <1>2, <1>6, <2>3
    <3>7. m > 0 => Joins(s[m], feed.f)
      <4> SUFFICES ASSUME m > 0 PROVE Joins(s[m], feed.f)
        OBVIOUS
      <4>1. m \in 1 .. Len(s) /\ m + k = Len(ring) /\ ring # <<>>
        BY <2>1, <2>3
      <4>2. s[m] = ring[Len(ring)]
        BY <2>3, <4>1
      <4> QED
        BY <1>1, <1>9, <4>1, <4>2 DEF ChainInv, TailInv
    <3> HIDE DEF m
    <3>8. RingInv'
      <4>1. \A i \in 1 .. (m + 1) : ring'[i].n \in Nat /\ ring'[i].n <= feed.last
        <5>1. \A i \in 1 .. m : s[i].n \in Nat
          BY <2>3 DEF m
        <5>2. \A i \in 1 .. m : ring'[i].n \in Nat /\ ring'[i].n <= feed.last
          BY <1>2, <3>2, <3>6, <5>1
        <5>3. ring'[m + 1].n \in Nat /\ ring'[m + 1].n <= feed.last
          BY <1>2, <3>2
        <5> QED
          BY <3>3, <5>2, <5>3
      <4>2. \A i, j \in 1 .. (m + 1) : i < j => ring'[i].n < ring'[j].n
        <5> SUFFICES ASSUME NEW i \in 1 .. (m + 1), NEW j \in 1 .. (m + 1), i < j
                     PROVE  ring'[i].n < ring'[j].n
          OBVIOUS
        <5>1. i \in 1 .. m
          BY <2>3 DEF m
        <5>2. CASE j \in 1 .. m
          BY <2>3, <3>2, <5>1, <5>2 DEF m
        <5>3. CASE j = m + 1
          BY <3>2, <3>6, <5>1, <5>3
        <5> QED
          BY <3>3, <5>2, <5>3
      <4>3. \A i \in 1 .. (m + 1) : i < m + 1 => Joins(ring'[i], ring'[i + 1])
        <5> SUFFICES ASSUME NEW i \in 1 .. (m + 1), i < m + 1
                     PROVE  Joins(ring'[i], ring'[i + 1])
          OBVIOUS
        <5>1. i \in 1 .. m /\ m > 0
          BY <2>3 DEF m
        <5>2. CASE i < m
          <6>1. i + 1 \in 1 .. m
            BY <2>3, <5>1, <5>2 DEF m
          <6>2. Joins(s[i], s[i + 1])
            BY <2>3, <5>1, <5>2 DEF m
          <6> QED
            BY <3>2, <5>1, <6>1, <6>2
        <5>3. CASE i = m
          BY <3>2, <3>7, <5>1, <5>3
        <5>a. m \in Nat
          BY <2>3 DEF m
        <5>4. i < m \/ i = m
          BY <5>1, <5>a
        <5> QED
          BY <5>2, <5>3, <5>4
      <4>4. \A i \in 1 .. Len(ring') : Old(ring[i].n)'
        BY <1>7, <3>2, <4>1
      <4> QED
        BY <1>1, <1>9, <3>2, <3>4, <4>2, <4>3, <4>4 DEF RingInv, Joins
    <3>9. CurInv'
      <4>1. wr.pc = "mux" /\ part # <<>> =>
              LastIn.n < wr.e.n /\ (Excused \/ Joins(LastIn, wr.e))
        BY DEF ChainInv, CurInv
      <4>2. ASSUME HasCur PROVE \A i \in 1 .. (m + 1) : Cur.n < ring'[i].n
        BY <1>2, <1>6, <2>4, <3>2, <3>3, <4>2 DEF m
      <4>3. ASSUME HasCur PROVE Excused \/ Joins(Cur, ring'[1])
        <5>1. CASE m > 0
          <6>1. k < Len(ring) /\ 1 \in 1 .. m
            BY <2>1, <2>3, <5>1 DEF m
          <6> QED
            BY <2>4, <3>2, <4>3, <6>1
        <5>2. CASE ~(m > 0)
          <6>1. m = 0 /\ k = Len(ring) /\ ring'[1] = feed.f
            BY <2>1, <2>3, <3>2, <5>2 DEF m
          <6>2. CASE k > 0
            BY <2>2, <2>6, <6>1, <6>2 DEF Joins
          <6>3. CASE ~(k > 0)
            <7>1. ring = <<>>
              BY <2>1, <6>1, <6>3
            <7> QED
              BY <1>1, <1>9, <4>3, <6>1, <7>1 DEF ChainInv, TailInv
          <6> QED
            BY <6>2, <6>3
        <5> QED
          BY <5>1, <5>2
      <4> QED
        BY <1>1, <1>5, <1>6, <2>4, <3>2, <4>1, <4>2, <4>3 DEF CurInv, Joins
    <3>10. TailInv'
      <4>1. ring'[Len(ring')] = feed.f
        BY <3>2
      <4> QED
        BY <1>2, <1>3, <3>2, <4>1 DEF TailInv, Near
    <3> QED
      BY <1>4, <3>5, <3>8, <3>9, <3>10 DEF ChainInv
  <2> QED
    BY <2>5, <2>6
<1> QED
  BY <1>8, <1>9

(* The ring gives up its first frames while no file is followed.           *)
LEMMA ShrinkChain ==
    ASSUME RecTypes, ChainInv, ~HasCur', NEW k \in 0 .. Len(ring),
           ring' = DropFirst(ring, k), UNCHANGED <<seq, buf, slips, feed>>
    PROVE  ring' \in Seq(Frames) /\ ChainInv'
<1> DEFINE s == DropFirst(ring, k)
<1>1. /\ s \in Seq(Frames) /\ Len(s) \in Nat /\ Len(s) = Len(ring) - k
      /\ Len(s) <= RingFrames
      /\ \A i \in 1 .. Len(s) : /\ s[i] \in Frames /\ s[i].n \in Nat /\ Old(s[i].n)
                                /\ i + k \in 1 .. Len(ring) /\ s[i] = ring[i + k]
      /\ \A i, j \in 1 .. Len(s) : i < j => s[i].n < s[j].n
      /\ \A i \in 1 .. Len(s) : i < Len(s) => Joins(s[i], s[i + 1])
  BY SuffixIs DEF ChainInv
<1> HIDE DEF s
<1>2. Len(ring) \in Nat
  BY Numbers
<1>3. ~buf => s = <<>>
  <2>1. ~buf => Len(ring) = 0
    BY DEF ChainInv, RingInv
  <2>2. Len(s) = Len(ring) - k /\ Len(s) \in Nat /\ s \in Seq(Frames)
    BY <1>1
  <2>3. ASSUME Len(ring) = 0 PROVE Len(s) = 0
    <3>1. k = 0
      BY <2>3
    <3>2. Len(s) = 0 - 0
      BY <2>2, <2>3, <3>1
    <3> QED
      BY <3>2
  <2>4. Len(s) = 0 => s = <<>>
    BY <2>2
  <2> QED
    BY <2>1, <2>3, <2>4
<1>4. s # <<>> => /\ ring # <<>> /\ Len(s) \in 1 .. Len(s) /\ s[Len(s)] = ring[Len(ring)]
  <2> SUFFICES ASSUME s # <<>>
               PROVE  ring # <<>> /\ Len(s) \in 1 .. Len(s) /\ s[Len(s)] = ring[Len(ring)]
    OBVIOUS
  <2>1. Len(s) \in 1 .. Len(s)
    BY <1>1
  <2>2. Len(s) + k = Len(ring) /\ Len(ring) > 0
    BY <1>1, <1>2, <2>1
  <2> QED
    BY <1>1, <2>1, <2>2
<1>5. ring' = s
  BY DEF s
<1>6. RingInv'
  BY <1>1, <1>3, <1>5 DEF RingInv, Joins, Old
<1>7. CurInv'
  BY DEF CurInv, HasCur
<1>8. TailInv'
  BY <1>4, <1>5 DEF ChainInv, TailInv, Near, Joins
<1> QED
  BY <1>1, <1>5, <1>6, <1>7, <1>8 DEF ChainInv

(* A start clears the ring, or keeps the past for a clip; then its writer  *)
(* begins with an empty file, or is one more of several.                   *)
LEMMA StartRec == ASSUME RecInv, StartRing \/ StartGo PROVE RecInv'
<1> USE DEF RecInv, BaseInv
<1>1. ctl \in CtlRec /\ ring \in Seq(Frames) /\ Len(ring) \in Nat
  BY DEF RecTypes
<1>2. CASE StartRing
  <2>1. /\ ctl.pc = "ring" /\ ring' \in {Past(ring), <<>>} /\ ctl' = [ctl EXCEPT !.pc = "go"]
        /\ UNCHANGED <<seq, front, active, buf, slips, part, wr, rivals, feed, feedRunning>>
    BY <1>2 DEF StartRing, store, control, writing
  <2>2. wr.pc = "none" /\ ~HasCur' /\ feedRunning
    BY <2>1 DEF CtlInv, HasCur
  <2>3. DropFirst(ring, Len(ring)) = <<>>
    BY <1>1, SubSeqEmpty DEF DropFirst
  <2>4. PICK k \in 0 .. Len(ring) : ring' = DropFirst(ring, k)
    BY <1>1, <2>1, <2>3, PastIs
  <2>5. ring' \in Seq(Frames) /\ ChainInv'
    BY <2>1, <2>2, <2>4, ShrinkChain
  <2>6. ctl' \in CtlRec /\ ctl'.pc = "go"
    BY <1>1, <2>1 DEF CtlRec
  <2>7. RecTypes' /\ CtlInv' /\ FrontInv'
    BY <2>1, <2>2, <2>5, <2>6 DEF RecTypes, CtlInv, FrontInv
  <2> QED
    BY <2>5, <2>7
<1>3. CASE StartGo
  <2>1. /\ ctl.pc = "go" /\ ctl' = Nobody /\ active' = TRUE
        /\ wr' = IF rivals THEN wr ELSE [NoWriter EXCEPT !.pc = "loop", !.kind = ctl.kind]
        /\ UNCHANGED <<seq, front, buf, ring, slips, feed, feedRunning, part, rivals>>
    BY <1>3 DEF StartGo, store, memory, feeding
  <2>2. feedRunning /\ part = <<>> /\ wr.pc = "none"
    BY <2>1 DEF CtlInv
  <2>3. wr' \in WrRec /\ wr'.pc = (IF rivals THEN "none" ELSE "loop")
    <3>1. ctl.kind \in Kinds /\ wr \in WrRec
      BY <1>1 DEF CtlRec, RecTypes
    <3> QED
      BY <2>1, <2>2, <3>1, Values DEF WrRec
  <2>4. ~HasCur'
    BY <2>1, <2>2, <2>3 DEF HasCur
  <2>5. RecTypes'
    BY <2>1, <2>3, Values DEF RecTypes
  <2>6. CtlInv' /\ FrontInv'
    BY <2>1, <2>2, <2>3, Values DEF CtlInv, FrontInv
  <2>7. ~buf => ring = <<>>
    BY DEF ChainInv, RingInv
  <2>8. ChainInv'
    BY <2>1, <2>4, <2>7, NoFile DEF ChainInv
  <2> QED
    BY <2>5, <2>6, <2>8
<1> QED
  BY <1>2, <1>3

(* Writers that share the file: they take frames, set flags and end.       *)
LEMMA RivalRec == ASSUME RecInv, RivalTakes \/ RivalSignals \/ RivalEnds PROVE RecInv'
<1> USE DEF RecInv, BaseInv
<1>0. /\ rivals
      /\ UNCHANGED <<seq, front, buf, slips, part, wr, ctl, feed, feedRunning>>
      /\ active' => active
  <2>1. CASE RivalTakes \/ RivalSignals
    BY <2>1 DEF RivalTakes, RivalSignals, store, control, memory, feeding, callers, writing
  <2>2. CASE RivalEnds
    <3>1. rivals /\ ~active'
      BY <2>2 DEF RivalEnds, FlagsCleared
    <3>2. UNCHANGED <<seq, front, buf, slips, part, wr, ctl, feed, feedRunning>>
      BY <2>2 DEF RivalEnds, store, memory, feeding, callers
    <3> QED
      BY <3>1, <3>2
  <2> QED
    BY <2>1, <2>2
<1>1. /\ rivals /\ wr.pc = "none" /\ ~HasCur /\ ring \in Seq(Frames) /\ Len(ring) \in Nat
  BY <1>0 DEF CtlInv, HasCur, RecTypes
<1>2. /\ UNCHANGED <<seq, front, buf, slips, part, wr, ctl, feed, feedRunning>>
      /\ active' => active
  BY <1>0
<1>3. ~HasCur'
  BY <1>1, <1>2 DEF HasCur
<1>4. PICK k \in 0 .. Len(ring) : ring' = DropFirst(ring, k)
  <2>1. CASE RivalTakes
    <3>1. ring # <<>> /\ ring' = Tail(ring)
      BY <2>1 DEF RivalTakes
    <3>2. 1 \in 0 .. Len(ring) /\ Tail(ring) = DropFirst(ring, 1)
      BY <1>1, <3>1, TailIsSubSeq DEF DropFirst
    <3> QED
      BY <3>1, <3>2
  <2>2. CASE RivalSignals \/ RivalEnds
    <3>1. ring' = ring
      BY <2>2 DEF RivalSignals, RivalEnds, memory
    <3>2. DropFirst(ring, 0) = ring
      BY <1>1, SubSeqFull DEF DropFirst
    <3> QED
      BY <1>1, <3>1, <3>2
  <2> QED
    BY <2>1, <2>2
<1>5. ring' \in Seq(Frames) /\ ChainInv'
  BY <1>2, <1>3, <1>4, ShrinkChain
<1>6. RecTypes' /\ CtlInv' /\ FrontInv'
  BY <1>1, <1>2, <1>5 DEF RecTypes, CtlInv, FrontInv
<1> QED
  BY <1>5, <1>6

(* The writer takes a frame off the ring. *)
LEMMA PopRec == ASSUME RecInv, WriterPop PROVE RecInv'
<1> USE DEF RecInv, BaseInv
<1>1. /\ wr.pc = "loop" /\ ring # <<>> /\ ring' = Tail(ring)
      /\ wr' = [wr EXCEPT !.pc = "mux", !.stopAt = StopAt, !.e = ring[1]]
      /\ UNCHANGED <<seq, front, active, buf, slips, part, rivals, ctl, feed, feedRunning>>
  BY DEF WriterPop, store, control, feeding, callers
<1> DEFINE n == Len(ring)
<1>2. /\ ring' \in Seq(Frames) /\ n \in Nat /\ n > 0 /\ Len(ring') = n - 1
      /\ \A i \in 1 .. (n - 1) : ring'[i] = ring[i + 1]
      /\ ring[1] \in Frames /\ ring[1].n \in Nat
  BY <1>1, HeadTailProperties, Numbers DEF RecTypes
<1>3. wr' \in WrRec /\ wr'.pc = "mux" /\ wr'.e = ring[1] /\ wr'.kind = wr.kind
      /\ wr'.failed = wr.failed
  <2>1. wr \in WrRec /\ StopAt \in Int
    BY DEF RecTypes, WrRec, StopAt
  <2> QED
    BY <1>1, <1>2, <2>1 DEF WrRec
<1>4. RecTypes' /\ CtlInv' /\ FrontInv'
  BY <1>1, <1>2, <1>3 DEF RecTypes, CtlInv, FrontInv
<1>5. RingInv /\ CurInv /\ TailInv
  BY DEF ChainInv
<1> HIDE DEF n
<1>6. 1 \in 1 .. n /\ \A i \in 1 .. (n - 1) : i + 1 \in 1 .. n /\ 1 < i + 1
  BY <1>2
<1>7. Cur' = ring[1] /\ HasCur' /\ LastIn' = LastIn /\ Excused' = Excused
  BY <1>1, <1>3 DEF Cur, HasCur, LastIn, Excused
<1>8. part # <<>> => HasCur /\ Cur = LastIn
  BY <1>1 DEF HasCur, Cur
<1>9. RingInv'
  <2>1. \A i \in 1 .. (n - 1) : Old(ring[i + 1].n)
    BY <1>5, <1>6 DEF RingInv, n
  <2>2. ASSUME NEW i \in 1 .. (n - 1), NEW j \in 1 .. (n - 1), i < j
        PROVE  ring'[i].n < ring'[j].n
    <3>1. i + 1 < j + 1
      BY <1>2, <2>2
    <3> QED
      BY <1>2, <1>5, <1>6, <3>1 DEF RingInv, n
  <2>3. ASSUME NEW i \in 1 .. (n - 1), i < n - 1 PROVE Joins(ring'[i], ring'[i + 1])
    <3>1. i + 1 \in 1 .. (n - 1) /\ i + 1 < n
      BY <1>2, <2>3
    <3>2. Joins(ring[i + 1], ring[(i + 1) + 1])
      BY <1>5, <1>6, <3>1 DEF RingInv, n
    <3> QED
      BY <1>2, <3>1, <3>2
  <2>4. n - 1 <= RingFrames
    BY <1>2, <1>5, RecorderAssumption DEF RingInv, n
  <2>5. buf
    BY <1>1, <1>5 DEF RingInv
  <2> QED
    BY <1>1, <1>2, <2>1, <2>2, <2>3, <2>4, <2>5 DEF RingInv, Joins, Old
<1>10. CurInv'
  <2>1. part # <<>> => LastIn.n < ring[1].n /\ (Excused \/ Joins(LastIn, ring[1]))
    BY <1>1, <1>5, <1>6, <1>8 DEF CurInv, n
  <2>2. Old(ring[1].n)
    BY <1>5, <1>6 DEF RingInv, n
  <2>3. \A i \in 1 .. (n - 1) : ring[1].n < ring'[i].n
    BY <1>2, <1>5, <1>6 DEF RingInv, n
  <2>4. ring' # <<>> => Joins(ring[1], ring'[1])
    <3> SUFFICES ASSUME ring' # <<>> PROVE Joins(ring[1], ring'[1])
      OBVIOUS
    <3>1. 1 < n /\ 1 \in 1 .. (n - 1)
      BY <1>2
    <3>2. ring'[1] = ring[1 + 1]
      BY <1>2, <3>1
    <3> QED
      BY <1>5, <1>6, <3>1, <3>2 DEF RingInv, n
  <2> QED
    BY <1>1, <1>2, <1>3, <1>7, <2>1, <2>2, <2>3, <2>4 DEF CurInv, Joins, Old
<1>11. TailInv'
  <2>1. ring' # <<>> => ring'[Len(ring')] = ring[n]
    <3> SUFFICES ASSUME ring' # <<>> PROVE ring'[Len(ring')] = ring[n]
      OBVIOUS
    <3>1. n - 1 \in 1 .. (n - 1) /\ (n - 1) + 1 = n
      BY <1>2
    <3> QED
      BY <1>2, <3>1
  <2>2. ring' = <<>> => ring[1] = ring[n]
    BY <1>2
  <2> QED
    BY <1>1, <1>5, <1>7, <2>1, <2>2 DEF TailInv, Near, Joins, n
<1> QED
  BY <1>4, <1>9, <1>10, <1>11 DEF ChainInv

(* The writer without a frame of the ring: it passes over, writes or loses *)
(* the one it has, and closes.                                             *)
LEMMA WriteRec ==
    ASSUME RecInv,
           WriterBreak \/ WriterSkip \/ WriterMux \/ WriterFails \/ WriterClose \/ WriterDone
    PROVE  RecInv'
<1> USE DEF RecInv, BaseInv
<1>0. /\ UNCHANGED <<seq, front, buf, ring, slips, rivals, ctl, feed, feedRunning>>
      /\ wr \in WrRec /\ wr.e \in Frames /\ part \in Seq(Frames)
  BY DEF WriterBreak, WriterSkip, WriterMux, WriterFails, WriterClose, WriterDone,
         store, control, memory, feeding, callers, RecTypes, WrRec
<1>1. RingInv' /\ RingInv /\ CurInv /\ TailInv /\ FrontInv'
  BY <1>0 DEF ChainInv, RingInv, Joins, Old, FrontInv
<1>2. ASSUME wr' \in WrRec, part' \in Seq(Frames),
             wr'.pc # "none" => wr.pc # "none" /\ active', active' => active,
             wr'.pc = "none" => part' = <<>>
      PROVE  RecTypes' /\ CtlInv'
  BY <1>0, <1>2 DEF RecTypes, CtlInv
<1>3. ASSUME HasCur', HasCur, Cur' = Cur \/ (Excused' /\ Cur'.n < Cur.n /\ Cur'.n \in Nat),
             Excused => Excused', wr'.pc # "mux"
      PROVE  CurInv' /\ TailInv'
  <2>1. Cur.n \in Nat /\ \A i \in 1 .. Len(ring) : ring[i].n \in Nat
    BY <1>3, Numbers
  <2>2. Old(Cur'.n)
    <3>1. \A a, b \in Nat : Old(b) /\ a < b => Old(a)
      BY Numbers DEF Old
    <3> QED
      BY <1>1, <1>3, <2>1, <3>1 DEF CurInv
  <2>3. \A i \in 1 .. Len(ring) : Cur'.n < ring[i].n
    BY <1>1, <1>3, <2>1 DEF CurInv
  <2>4. CurInv'
    BY <1>0, <1>1, <1>3, <2>2, <2>3 DEF CurInv, Old, Joins
  <2>5. TailInv'
    BY <1>0, <1>1, <1>3 DEF TailInv, Near, Joins
  <2> QED
    BY <2>4, <2>5
<1>4. CASE WriterBreak \/ WriterClose
  <2>1. /\ wr.pc \in {"loop", "close"} /\ UNCHANGED <<part, active>>
        /\ \/ wr' = [wr EXCEPT !.pc = "close", !.stopAt = StopAt]
           \/ wr' = [wr EXCEPT !.pc = "done"]
    BY <1>4 DEF WriterBreak, WriterClose, control
  <2>2. /\ wr' \in WrRec /\ wr'.pc \in {"close", "done"} /\ wr'.failed = wr.failed
        /\ wr'.kind = wr.kind
    <3>1. StopAt \in Int
      BY <1>0, Numbers DEF StopAt, WrRec
    <3> QED
      BY <1>0, <2>1, <3>1 DEF WrRec
  <2>3. Cur' = Cur /\ HasCur' = HasCur /\ Excused' = Excused
    BY <2>1, <2>2 DEF Cur, HasCur, Excused, LastIn
  <2>4. RecTypes' /\ CtlInv'
    BY <1>0, <1>2, <2>1, <2>2 DEF CtlInv
  <2>5. CASE HasCur
    BY <1>1, <1>3, <2>2, <2>3, <2>4, <2>5 DEF ChainInv
  <2>6. CASE ~HasCur
    BY <1>0, <1>1, <2>2, <2>3, <2>4, <2>6 DEF ChainInv, CurInv, TailInv, HasCur, Near, Joins
  <2> QED
    BY <2>5, <2>6
<1>5. CASE WriterSkip \/ WriterFails
  <2>1. /\ wr.pc = "mux" /\ UNCHANGED <<part, active>>
        /\ \/ /\ wr.failed \/ wr.kind = "lapse"
              /\ wr' = [wr EXCEPT !.pc = "loop", !.e = NoFrame]
           \/ wr' = [wr EXCEPT !.pc = "loop", !.e = NoFrame, !.failed = TRUE]
    BY <1>5 DEF WriterSkip, WriterFails, control
  <2>2. wr' \in WrRec /\ wr'.pc = "loop" /\ Excused'
    <3>1. TRUE \in BOOLEAN
      OBVIOUS
    <3> QED
      BY <1>0, <2>1, <3>1, Values DEF WrRec, Excused
  <2>3. RecTypes' /\ CtlInv'
    BY <1>0, <1>2, <2>1, <2>2 DEF CtlInv
  <2>4. CASE part # <<>>
    <3>1. HasCur' /\ HasCur /\ Cur = wr.e /\ Cur' = LastIn
      BY <2>1, <2>2, <2>4 DEF HasCur, Cur, LastIn
    <3>2. Cur'.n < Cur.n /\ Cur'.n \in Nat
      BY <1>1, <2>1, <2>4, <3>1, Numbers DEF CurInv
    <3> QED
      BY <1>1, <1>3, <2>2, <2>3, <3>1, <3>2 DEF ChainInv
  <2>5. CASE part = <<>>
    <3>1. ~HasCur'
      BY <2>1, <2>2, <2>5 DEF HasCur
    <3> QED
      BY <1>0, <1>1, <2>2, <2>3, <3>1 DEF ChainInv, CurInv, TailInv, HasCur, Near, Joins
  <2> QED
    BY <2>4, <2>5
<1>6. CASE WriterMux
  <2>1. /\ wr.pc = "mux" /\ active' = active
        /\ part' \in {<<wr.e>>, Append(part, wr.e)}
        /\ wr' = [wr EXCEPT !.pc = "loop", !.e = NoFrame]
    BY <1>6 DEF WriterMux
  <2>2. /\ wr' \in WrRec /\ wr'.pc = "loop" /\ wr'.failed = wr.failed /\ wr'.kind = wr.kind
    BY <1>0, <2>1, Values DEF WrRec
  <2>3. part' \in Seq(Frames) /\ part' # <<>> /\ part'[Len(part')] = wr.e
    <3>1. wr.e \in Frames /\ part \in Seq(Frames)
      BY <1>0 DEF RecTypes, WrRec
    <3> QED
      BY <2>1, <3>1, AfterOne
  <2>4. RecTypes' /\ CtlInv'
    BY <1>0, <1>2, <2>1, <2>2, <2>3 DEF CtlInv
  <2>5. HasCur' /\ HasCur /\ Cur' = Cur /\ Excused' = Excused
    BY <2>1, <2>2, <2>3 DEF HasCur, Cur, LastIn, Excused
  <2> QED
    BY <1>1, <1>3, <2>2, <2>4, <2>5 DEF ChainInv
<1>7. CASE WriterDone
  <2>1. wr' = NoWriter /\ part' = <<>> /\ active' = FALSE
    BY <1>7 DEF WriterDone, FlagsCleared
  <2>2. RecTypes' /\ CtlInv'
    <3>1. part' \in Seq(Frames)
      BY <2>1
    <3> QED
      BY <1>0, <1>2, <2>1, <3>1, Values DEF CtlInv
  <2>3. ~HasCur' /\ wr'.pc = "none"
    BY <2>1, Values DEF HasCur
  <2> QED
    BY <1>0, <1>1, <2>2, <2>3 DEF ChainInv, CurInv, TailInv, HasCur, Near, Joins
<1> QED
  BY <1>4, <1>5, <1>6, <1>7

----------------------------------------------------------------------------
LEMMA StepRec == RecInv /\ [Next]_vars => RecInv'
<1> SUFFICES ASSUME RecInv, [Next]_vars PROVE RecInv'
  OBVIOUS
<1>1. CASE UNCHANGED vars
  <2>1. UNCHANGED <<seq, front, active, buf, ring, slips, part, wr, rivals, feed, feedRunning, ctl>>
    BY <1>1 DEF vars, store, control, memory, feeding, callers, writing
  <2>2. RecTypes' /\ CtlInv' /\ FrontInv'
    BY <2>1 DEF RecInv, BaseInv, RecTypes, CtlInv, FrontInv
  <2>3. seq \in Nat /\ seq >= seq
    BY DEF RecInv, BaseInv, RecTypes
  <2> QED
    BY <2>1, <2>2, <2>3, StayChain DEF RecInv, BaseInv
<1>2. CASE \/ Publish \/ CodecSwitch \/ Pressure
           \/ \E k \in Kinds : StartTake(k)
           \/ StartEvicted \/ StartRefused \/ StartNoTask \/ RecordStop \/ StopSegments
           \/ StopSegmentsDone \/ MarkEvent \/ ExtendEvent
  BY <1>2, StayBase, StayChain DEF RecInv, BaseInv
<1> QED
  BY <1>1, <1>2, FeedRec1, FreeRec, EnsureRec, FrameRec, PushRec, StartRec, PopRec, WriteRec,
     RivalRec DEF Next, Source, Feed, Control, Writer

LEMMA RecInvariant == Spec => []RecInv
BY InitRec, StepRec, PTL DEF Spec

(* The feed task is there for as long as a recording is written: it leaves *)
(* under s_ctl only, which a start holds from its look to its last step.   *)
THEOREM FeedAlwaysServes == Spec => []FeedServes
<1>1. RecInv => FeedServes
  BY DEF RecInv, BaseInv, CtlInv, FeedServes
<1> QED
  BY <1>1, RecInvariant, PTL

(* What the writer has in its hands may stand after what is in the file.   *)
LEMMA MuxFollows ==
    ASSUME RecInv, WriterMux
    PROVE  UNCHANGED <<wr.pc # "none", slips, rivals>> /\ (Files!Put \/ Files!Cut)
<1> DEFINE f == wr.e
<1>1. /\ wr.pc = "mux" /\ ~wr.failed /\ (wr.kind = "lapse" => f.key)
      /\ \/ part' = <<f>> /\ f.key /\ part # <<>>
         \/ part' = Append(part, f)
      /\ wr' = [wr EXCEPT !.pc = "loop", !.e = NoFrame]
      /\ UNCHANGED <<slips, rivals>>
  BY DEF WriterMux, feeding
<1>2. part \in Seq(Frames) /\ f \in Frames /\ wr \in WrRec
  BY DEF RecInv, BaseInv, RecTypes, WrRec
<1>a. wr.pc # "none" /\ wr'.pc # "none"
  BY <1>1, <1>2 DEF WrRec
<1>b. UNCHANGED <<wr.pc # "none", slips, rivals>>
  BY <1>1, <1>a
<1>3. Files!Follows(f)
  <2> SUFFICES ASSUME part # <<>>
               PROVE  /\ f.n > LastIn.n
                      /\ \/ f.key \/ f.n = LastIn.n + 1
                         \/ slips \cap (LastIn.n .. f.n - 1) # {}
    BY DEF Files!Follows, LastIn
  <2>1. LastIn.n < f.n /\ (Excused \/ Joins(LastIn, f)) /\ LastIn.n \in Nat /\ f.n \in Nat
    BY <1>1, Numbers DEF RecInv, BaseInv, ChainInv, CurInv
  <2>2. Excused => f.key
    BY <1>1 DEF Excused
  <2> QED
    BY <2>1, <2>2 DEF Joins
<1> HIDE DEF f
<1>4. part' # <<>> /\ part'[Len(part')] = f
  BY <1>1, <1>2, AfterOne
<1>5. Files!Added = f
  BY <1>4 DEF Files!Added
<1>6. CASE part' = Append(part, f)
  BY <1>2, <1>3, <1>4, <1>5, <1>6, <1>a, <1>b DEF Files!Put
<1>7. CASE part' = <<f>> /\ f.key
  <2>1. Len(part') = 1
    BY <1>7
  <2> QED
    BY <1>3, <1>5, <1>7, <1>a, <1>b, <2>1 DEF Files!Cut
<1> QED
  BY <1>1, <1>6, <1>7, <1>b

(* The recorder implements Recording: while its writer is alone, the       *)
(* frames of a file are those the codec published, in their order, none    *)
(* twice, and where one was left out a keyframe follows.  A full ring, a   *)
(* freed ring, a restarted feed and a clip that begins in the past all     *)
(* keep it.  A start that goes on over a writer still at work, which       *)
(* stop_writer permits, ends the promise until the last of them has ended. *)
THEOREM FilesAlwaysPlay == Spec => FilesPlay
<1>1. Init => Files!Init
  BY Values DEF Init, Files!Init
<1>2. RecInv /\ [Next]_vars => [Files!Next]_<<wr.pc # "none", slips, rivals, part>>
  <2> SUFFICES ASSUME RecInv, [Next]_vars, ~UNCHANGED <<wr.pc # "none", slips, rivals, part>>
               PROVE  Files!Next
    OBVIOUS
  <2>0. /\ wr.pc # "none" => ~rivals
        /\ wr.pc = "none" => part = <<>>
        /\ wr \in WrRec /\ ctl \in CtlRec
    BY DEF RecInv, BaseInv, CtlInv, RecTypes
  <2>1. CASE StartGo
    <3>1. wr.pc = "none" /\ part = <<>>
      BY <2>1 DEF StartGo, RecInv, BaseInv, CtlInv
    <3>2. /\ UNCHANGED <<slips, rivals, part>>
          /\ wr' = IF rivals THEN wr ELSE [NoWriter EXCEPT !.pc = "loop", !.kind = ctl.kind]
      BY <2>1 DEF StartGo, feeding
    <3>3. ~rivals
      BY <3>2
    <3>4. wr'.pc = "loop"
      BY <3>2, <3>3, Values DEF WrRec
    <3> QED
      BY <3>1, <3>2, <3>3, <3>4 DEF Files!Next, Files!Begin
  <2>2. CASE WriterMux
    BY <2>2, MuxFollows DEF Files!Next
  <2>3. CASE WriterDone
    <3>1. wr.pc = "done" /\ wr' = NoWriter /\ part' = <<>> /\ UNCHANGED <<slips, rivals>>
      BY <2>3 DEF WriterDone, feeding
    <3>2. wr.pc # "none" /\ ~(wr'.pc # "none")
      BY <3>1, Values
    <3> QED
      BY <3>1, <3>2 DEF Files!Next, Files!End
  <2>4. CASE StartOpen \/ StartFails
    <3>1. /\ rivals' = (IF wr.pc = "none" THEN rivals ELSE TRUE) /\ wr' = NoWriter /\ part' = <<>>
          /\ UNCHANGED slips
      BY <2>4 DEF StartOpen, StartFails, TakeOver, FeedEnsure, feeding
    <3>2. ~(wr'.pc # "none")
      BY <3>1, Values
    <3>3. CASE wr.pc # "none"
      BY <2>0, <3>1, <3>2, <3>3 DEF Files!Next, Files!Share
    <3>4. CASE wr.pc = "none"
      BY <2>0, <3>1, <3>2, <3>4
    <3> QED
      BY <3>3, <3>4
  <2>5. CASE FeedFrame
    <3>1. slips \subseteq slips' /\ UNCHANGED <<wr, rivals, part>>
      BY <2>5 DEF FeedFrame, writing
    <3> QED
      BY <3>1 DEF Files!Next, Files!Slip
  <2>6. CASE RivalEnds
    <3>1. rivals /\ rivals' \in BOOLEAN /\ UNCHANGED <<wr, slips, part>>
      BY <2>6 DEF RivalEnds, feeding
    <3> QED
      BY <3>1 DEF Files!Next, Files!Unshare
  <2>7. CASE Publish \/ CodecSwitch \/ Pressure \/ RingFreed \/ RivalTakes \/ RivalSignals
    BY <2>7 DEF Publish, CodecSwitch, Pressure, RingFreed, RivalTakes, RivalSignals, feeding,
                writing
  <2>8. CASE \/ FeedTop \/ FeedLeave \/ FeedTimeout \/ FeedNoRing \/ FeedAlloc
             \/ FeedOther \/ FeedFree \/ FeedBack \/ FeedPush
    BY <2>8 DEF FeedTop, FeedLeave, FeedTimeout, FeedNoRing, FeedAlloc, FeedOther, FeedFree,
                FeedBack, FeedPush, writing
  <2>9. CASE \/ \E k \in Kinds : StartTake(k)
             \/ StartEvicted \/ StartRefused \/ StartRing \/ StartNoTask \/ RecordStop
             \/ StopSegments \/ StopSegmentsDone \/ MarkEvent \/ ExtendEvent
             \/ \E dash \in BOOLEAN : SetDashcam(dash)
    BY <2>9 DEF StartTake, StartEvicted, StartRefused, StartRing, StartNoTask, RecordStop,
                StopSegments, StopSegmentsDone, MarkEvent, ExtendEvent, SetDashcam, feeding,
                writing
  <2>10. CASE WriterBreak \/ WriterPop \/ WriterSkip \/ WriterFails \/ WriterClose
    <3>1. wr.pc # "none" /\ UNCHANGED <<slips, rivals, part>>
      BY <2>10 DEF WriterBreak, WriterPop, WriterSkip, WriterFails, WriterClose, feeding
    <3>2. wr'.pc # "none"
      BY <2>0, <2>10 DEF WriterBreak, WriterPop, WriterSkip, WriterFails, WriterClose, WrRec
    <3> QED
      BY <3>1, <3>2
  <2>11. CASE UNCHANGED vars
    BY <2>11 DEF vars, feeding, writing
  <2> QED
    BY <2>1, <2>2, <2>3, <2>4, <2>5, <2>6, <2>7, <2>8, <2>9, <2>10, <2>11
       DEF Next, Source, Feed, Control, Writer
<1> QED
  BY <1>1, <1>2, RecInvariant, PTL DEF Spec, FilesPlay, Files!Spec
=============================================================================
