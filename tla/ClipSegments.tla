---------------------------- MODULE ClipSegments ----------------------------
(***************************************************************************)
(* The dashcam on the card (kvm_record.c, dashcam.c): the writer keeps the *)
(* past as numbered segments and deletes the oldest, an event pins the     *)
(* segments its clip needs, and the converter reads them much later and    *)
(* gives the pin back.                                                     *)
(*                                                                         *)
(* A segment lasts one unit of time: segment n begins at n.                *)
(***************************************************************************)
EXTENDS Integers, Sequences, FiniteSets

CONSTANTS
    SegsMax,        \* SEGS_MAX
    SegPins,        \* SEG_PINS
    ClipJobs,       \* the length of the converter's queue
    ClipPre,        \* dashcam_pre_s, in segments
    ClipPost,       \* dashcam_post_s, in segments
    MaxSegs,        \* bound: segments opened
    MaxClips        \* bound: clips marked

ASSUME ClipSegmentsAssumption ==
    /\ {SegsMax, SegPins, ClipJobs, ClipPre, ClipPost, MaxSegs, MaxClips} \subseteq Nat
    /\ SegsMax > 2 /\ SegPins > 0

VARIABLES
    segFiles,       \* the files in the folder
    segTable,       \* s_segs: numbers, oldest first
    segNext,        \* s_seg_next
    segPins,        \* s_seg_pins, 0 = free
    segGone,        \* history: the segments that were deleted
    segWriter,      \* the dashcam's writer: "off", "writing", "failed", "ended"
    clip,           \* the clip being saved: s_event and s_event_first_seg
    clipJobs,       \* s_jobs
    clipConv,       \* the converter's job
    clipIds,        \* history: clips marked so far
    clipUnheld      \* history: clips that lost their hold for a known reason

segVars  == <<segFiles, segTable, segNext, segPins, segGone, segWriter>>
clipVars == <<clip, clipJobs, clipConv, clipIds, clipUnheld>>

NoClip == [id |-> 0, pc |-> "none", first |-> 0, end |-> 0]
NoJob  == [id |-> 0, first |-> 0, last |-> 0, at |-> 0, hole |-> FALSE]

(* The time: the segment being written began at it.                        *)
SegNow == segNext - 1

(* Every clip that still needs its segments.                               *)
LiveClips ==
    {c \in {[id |-> clip.id, first |-> clip.first, last |-> SegNow]}
           \cup {[id |-> j.id, first |-> j.first, last |-> j.last] :
                     j \in {clipConv} \cup {clipJobs[i] : i \in DOMAIN clipJobs}} : c.id # 0}

(* A clip without a pin gives back that of another with its first segment. *)
Robbed(c) == IF c.id \in clipUnheld THEN {d.id : d \in {e \in LiveClips : e.first = c.first}}
             ELSE {}

----------------------------------------------------------------------------
(* The table of segments and its pins.                                     *)

SegPinnedFrom(pins) ==
    LET used == {pins[i] : i \in DOMAIN pins} \ {0}
    IN  IF used = {} THEN segNext + 1 ELSE CHOOSE p \in used : \A q \in used : p <= q

(* record_unpin_segments: one pin with that value, if there is one.        *)
SegUnpin(pins, first) ==
    LET at == {i \in DOMAIN pins : pins[i] = first}
    IN  IF at = {} THEN pins
        ELSE [pins EXCEPT ![CHOOSE i \in at : \A j \in at : i <= j] = 0]

(* seg_pin: a free place, or the first one's.                              *)
SegPin(pins, first) ==
    LET free == {i \in DOMAIN pins : pins[i] = 0}
    IN  [pins EXCEPT ![IF free = {} THEN 1
                       ELSE CHOOSE i \in free : \A j \in free : i <= j] = first]

(* Mutant of SegMayGo: one segment too many goes.                          *)
SegMayGo_Pinned(table, pins, i) ==
    i < Len(table) /\ table[i] <= SegPinnedFrom(pins)

(* The first i segments are older than every pin; the last never goes.     *)
SegMayGo(table, pins, i) ==
    i < Len(table) /\ table[i] < SegPinnedFrom(pins)

(* seg_prune at time now: how many of the oldest go.  First those that a   *)
(* later one replaces in the window, then, pinned or not, what the table   *)
(* cannot take, then, on a full card, any number up to a pin.              *)
SegPruned(table, pins, now) ==
    LET old  == {i \in 1 .. Len(table) : SegMayGo(table, pins, i) /\ table[i + 1] <= now - ClipPre}
        kept == Len(table) - Cardinality(old)
        over == IF kept >= SegsMax - 1 THEN kept - (SegsMax - 2) ELSE 0
        cut  == Cardinality(old) + over
    IN  {cut} \cup {i \in cut + 1 .. Len(table) : SegMayGo(table, pins, i)}

(* Prune, then open the segments of more.                                  *)
SegPrune(pins, more) ==
    \E k \in SegPruned(segTable, pins, segNext) :
        LET gone == {segTable[i] : i \in 1 .. k}
        IN  /\ segTable' = SubSeq(segTable, k + 1, Len(segTable)) \o more
            /\ segFiles' = (segFiles \ gone) \cup {more[i] : i \in DOMAIN more}
            /\ segGone' = segGone \cup gone
            /\ clipUnheld' = clipUnheld \cup
                   {c.id : c \in {d \in LiveClips : /\ gone \cap (d.first .. d.last) # {}
                                                    /\ Len(segTable) >= SegsMax - 1}}
                   \cup (IF pins = segPins THEN {} ELSE Robbed(clip))

(* seg_finish_event and on_finished: the clip goes to the converter, or    *)
(* gives up its pin when the queue is full.                                *)
ClipFinish(last) ==
    /\ clip' = NoClip
    /\ IF Len(clipJobs) < ClipJobs
       THEN /\ clipJobs' = Append(clipJobs, [NoJob EXCEPT !.id = clip.id, !.first = clip.first,
                                                          !.last = last])
            /\ UNCHANGED segPins
       ELSE segPins' = SegUnpin(segPins, clip.first) /\ UNCHANGED clipJobs

----------------------------------------------------------------------------
(* The writer.                                                             *)

(* start() for the dashcam: strays go, a first segment is opened, and an    *)
(* event that came too late for the last writer is forgotten.              *)
SegStart ==
    /\ segWriter = "off" /\ segNext <= MaxSegs /\ clip.pc # "picked"
    /\ segNext' = segNext + 1
    /\ \/ /\ segWriter' = "writing"
          /\ clip' = NoClip
          /\ segTable' = Append(segTable, segNext)
          /\ segFiles' = (segFiles \cap {segTable[i] : i \in DOMAIN segTable}) \cup {segNext}
       \/ /\ segFiles' = segFiles \cap {segTable[i] : i \in DOMAIN segTable}
          /\ UNCHANGED <<segTable, segWriter, clip>>
    /\ UNCHANGED <<segPins, segGone, clipJobs, clipConv, clipIds, clipUnheld>>

(* A keyframe closes the segment: seg_ended, seg_prune, seg_open.  A clip  *)
(* whose time is over goes to the converter first.                         *)
SegSplit ==
    /\ segWriter = "writing" /\ segNext <= MaxSegs /\ segTable # <<>>
    /\ \/ clip.pc = "on" /\ segNext >= clip.end /\ ClipFinish(SegNow)
       \/ ~(clip.pc = "on" /\ segNext >= clip.end) /\ UNCHANGED <<clip, clipJobs, segPins>>
    /\ \/ segWriter' = "writing" /\ SegPrune(segPins', <<segNext>>)
       \/ segWriter' = "failed" /\ SegPrune(segPins', <<>>)
    /\ segNext' = segNext + 1
    /\ UNCHANGED <<clipConv, clipIds>>

(* A stop, a failed write, a card that leaves: the last segment ends, and  *)
(* a half-made clip is handed over.                                        *)
SegStop ==
    /\ segWriter \in {"writing", "failed"}
    /\ segWriter' = "ended"
    /\ IF segTable = <<>> THEN UNCHANGED <<clip, clipJobs, segPins, segTable, segFiles, segGone, clipUnheld>>
       ELSE /\ IF clip.pc = "on" THEN ClipFinish(segTable[Len(segTable)])
               ELSE UNCHANGED <<clip, clipJobs, segPins>>
            /\ SegPrune(segPins', <<>>)
    /\ UNCHANGED <<segNext, clipConv, clipIds>>

(* The rest of the writer: s_event goes, whoever set it meanwhile.         *)
SegOff ==
    /\ segWriter = "ended" /\ segWriter' = "off"
    /\ clip' = IF clip.pc = "on" THEN NoClip ELSE clip
    /\ UNCHANGED <<segFiles, segTable, segNext, segPins, segGone, clipJobs, clipConv, clipIds, clipUnheld>>

(* record_stop_segments after the writer has gone: the past on the card    *)
(* goes too, clips that wait included.                                     *)
SegForget ==
    /\ segWriter = "off" /\ clip.pc # "picked"
    /\ segFiles' = {} /\ segTable' = <<>>
    /\ segGone' = segGone \cup {segTable[i] : i \in DOMAIN segTable}
    /\ clipUnheld' = clipUnheld \cup {c.id : c \in LiveClips}
    /\ UNCHANGED <<segNext, segPins, segWriter, clip, clipJobs, clipConv, clipIds>>

----------------------------------------------------------------------------
(* Events.                                                                 *)

(* seg_mark_event under s_ctl: the first segment is chosen ...             *)
ClipPick ==
    /\ clip.pc = "none" /\ clipIds < MaxClips
    /\ segWriter # "off" /\ segTable # <<>>
    /\ LET past == {i \in DOMAIN segTable : segTable[i] <= SegNow - ClipPre}
           i    == IF past = {} THEN 1 ELSE CHOOSE k \in past : \A j \in past : j <= k
       IN  clip' = [id |-> clipIds + 1, pc |-> "picked", first |-> segTable[i],
                    end |-> SegNow + ClipPost]
    /\ clipIds' = clipIds + 1
    /\ UNCHANGED <<segVars, clipJobs, clipConv, clipUnheld>>

(* ... and, when a name for the file was found on the card, pinned.        *)
ClipPinned ==
    /\ clip.pc = "picked"
    /\ clip' = [clip EXCEPT !.pc = "on"]
    /\ segPins' = SegPin(segPins, clip.first)
    /\ clipUnheld' = clipUnheld
           \cup (IF clip.first \in segGone THEN {clip.id} ELSE {})
           \cup (IF \E i \in DOMAIN segPins : segPins[i] = 0 THEN {}
                 ELSE {c.id : c \in {d \in LiveClips : d.first = segPins[1]}})
    /\ UNCHANGED <<segFiles, segTable, segNext, segGone, segWriter, clipJobs, clipConv, clipIds>>

(* record_extend_event: another event while the clip is saved.             *)
ClipExtend ==
    /\ clip.pc = "on" /\ SegNow + ClipPost > clip.end
    /\ clip' = [clip EXCEPT !.end = SegNow + ClipPost]
    /\ UNCHANGED <<segVars, clipJobs, clipConv, clipIds, clipUnheld>>

----------------------------------------------------------------------------
(* The converter.                                                          *)

ClipTake ==
    /\ clipConv.id = 0 /\ clipJobs # <<>>
    /\ clipConv' = [Head(clipJobs) EXCEPT !.at = Head(clipJobs).first]
    /\ clipJobs' = Tail(clipJobs)
    /\ UNCHANGED <<segVars, clip, clipIds, clipUnheld>>

(* io_read goes to the next segment; one that is gone is passed over.      *)
ClipRead ==
    /\ clipConv.id # 0 /\ clipConv.at <= clipConv.last
    /\ clipConv' = [clipConv EXCEPT !.at = @ + 1, !.hole = @ \/ clipConv.at \in segGone \ segFiles]
    /\ UNCHANGED <<segVars, clip, clipJobs, clipIds, clipUnheld>>

(* io_rewind for the second pass, a retry, or join_segments.               *)
ClipRewind ==
    /\ clipConv.id # 0 /\ clipConv.at > clipConv.first
    /\ clipConv' = [clipConv EXCEPT !.at = clipConv.first]
    /\ UNCHANGED <<segVars, clip, clipJobs, clipIds, clipUnheld>>

(* Done, or no memory four times, or the card not writable.                *)
ClipEnd ==
    /\ clipConv.id # 0
    /\ segPins' = SegUnpin(segPins, clipConv.first)
    /\ clipConv' = NoJob
    /\ clipUnheld' = clipUnheld \cup Robbed(clipConv)
    /\ UNCHANGED <<segFiles, segTable, segNext, segGone, segWriter, clip, clipJobs, clipIds>>

----------------------------------------------------------------------------
ClipInit ==
    /\ segFiles \in {{}, {2}} /\ segTable = <<>> /\ segNext = 1 /\ segGone = {}
    /\ segPins = [i \in 1 .. SegPins |-> 0] /\ segWriter = "off"
    /\ clip = NoClip /\ clipJobs = <<>> /\ clipConv = NoJob
    /\ clipIds = 0 /\ clipUnheld = {}

ClipNext ==
    \/ SegStart \/ SegSplit \/ SegStop \/ SegOff \/ SegForget
    \/ ClipPick \/ ClipPinned \/ ClipExtend
    \/ ClipTake \/ ClipRead \/ ClipRewind \/ ClipEnd

ClipSpec == ClipInit /\ [][ClipNext]_<<segVars, clipVars>>

----------------------------------------------------------------------------
(* A clip is converted from all of its segments: none was deleted between  *)
(* the event and the reading, unless its hold was lost because there were  *)
(* more clips than pins, the table was full, the past was forgotten, the   *)
(* first segment went before it could be pinned, or a clip without a pin   *)
(* gave back this one's.                                                   *)
ClipWhole == clipConv.hole => clipConv.id \in clipUnheld

(* seg_pin's "four clips at once: the oldest loses its hold": the pin that *)
(* a new clip takes over when none is free is the oldest.                  *)
OldestLoses ==
    clip.pc = "picked" /\ (\A i \in DOMAIN segPins : segPins[i] # 0) =>
        \A i \in DOMAIN segPins : segPins[1] <= segPins[i]
=============================================================================
