------------------------------ MODULE Recorder ------------------------------
(***************************************************************************)
(* The recorder (kvm_record.c, frame_ring.c): a feed task puts published   *)
(* H.264 frames into a ring in PSRAM, a writer task takes them off and     *)
(* writes files.  Recordings, timelapses, clips and the dashcam's own      *)
(* writing are started under s_ctl; the feed, the dashcam's setting and a  *)
(* codec short of memory may each free the ring.                           *)
(*                                                                         *)
(* A frame is its number and whether it is a keyframe; the number is also  *)
(* its time.  Sizes are counted in frames.  Sound, subtitles and the       *)
(* screen's text follow the file and are left out.                         *)
(***************************************************************************)
EXTENDS Integers, Sequences

CONSTANTS
    RingFrames,     \* how many frames the ring takes
    Pre, Post,      \* dashcam_pre_s, dashcam_post_s
    EventMax,       \* EVENT_MAX_US
    MaxSeq          \* bound: how far the sequence number goes

ASSUME RecorderAssumption ==
    /\ RingFrames \in Nat \ {0} /\ MaxSeq \in Nat
    /\ Pre \in Nat /\ Post \in Nat /\ EventMax \in Nat

VARIABLES
    seq, payload, front,        \* the frame store: number, codec, front frame
    active, stop,               \* s_active, s_stop
    background, event,          \* s_background, s_event
    eventEnd, eventStart,       \* s_event_end_us, s_event_started_us
    dashcam, resync,            \* s_dashcam, s_feed_resync
    buf, ring,                  \* s_ring_buf is allocated; the ring's frames
    feedRunning, feed,          \* s_feed_running; the feed task's locals
    ctl,                        \* the holder of s_ctl: how far its start is
    freeing,                    \* somebody has decided to free the ring and will
    wr,                         \* the locals of a writer that is alone
    rivals,                     \* writers that share s_file, s_chunk, the flags
    part,                       \* the frames in the open file
    lost,                       \* history: s_frame was freed while in use
    slips                       \* history: numbers the feed jumped to without a frame

store   == <<seq, payload, front>>
control == <<active, stop, background, event, eventEnd, eventStart>>
memory  == <<buf, ring, lost>>
feeding == <<dashcam, resync, feedRunning, feed, slips>>
callers == <<ctl, freeing>>
writing == <<wr, part, rivals>>
vars    == <<store, control, memory, feeding, callers, writing>>

NoFrame  == [n |-> 0, key |-> FALSE]
Kinds    == {"rec", "lapse", "clip", "bg"}
NewFeed  == [pc |-> "top", last |-> seq, needKey |-> TRUE, f |-> NoFrame, evict |-> FALSE]
NoFeed   == [pc |-> "none", last |-> 0, needKey |-> TRUE, f |-> NoFrame, evict |-> FALSE]
NoWriter == [pc |-> "none", kind |-> "rec", stopAt |-> -1, e |-> NoFrame, failed |-> FALSE]
Nobody   == [pc |-> "free", kind |-> "rec"]

----------------------------------------------------------------------------
(* The ring of frames (frame_ring.c).                                      *)

(* Without its first n frames.                                             *)
DropFirst(r, n) == SubSeq(r, n + 1, Len(r))

(* The places a group of pictures begins, and the end of the ring.         *)
GroupStarts(r) == {i \in 1 .. Len(r) : r[i].key} \cup {Len(r) + 1}
Least(S) == CHOOSE i \in S : \A j \in S : i <= j

(* drop_oldest_group: the first frame and all up to the next keyframe.     *)
DropGroup(r) == DropFirst(r, Least(GroupStarts(r) \ {1}) - 1)

(* frame_ring_push: [kept, ring].  A full ring refuses, or gives up its    *)
(* oldest group; to keep the past, it then begins on a keyframe only.      *)
Push(r, f, evict) ==
    LET room == IF Len(r) < RingFrames THEN r ELSE DropGroup(r)
    IN  IF \/ Len(r) = RingFrames /\ ~evict
           \/ evict /\ room = <<>> /\ ~f.key
        THEN [kept |-> FALSE, ring |-> IF evict THEN room ELSE r]
        ELSE [kept |-> TRUE, ring |-> Append(room, f)]

(* The past a clip keeps: from the oldest keyframe within pre_s on.        *)
Past(r) == LET from == {i \in 1 .. Len(r) : r[i].key /\ seq - r[i].n <= Pre}
           IN  IF from = {} THEN <<>> ELSE DropFirst(r, Least(from) - 1)

RingFree ==
    /\ buf' = FALSE /\ ring' = <<>>
    /\ lost' = (wr.pc = "mux" /\ (lost \/ buf))

----------------------------------------------------------------------------
(* The frame store, as far as the recorder sees it.                        *)

(* Every picture of MJPEG is a keyframe.                                   *)
Publish ==
    /\ seq < MaxSeq
    /\ seq' = seq + 1
    /\ \E key \in BOOLEAN :
         (payload = "mjpeg" => key) /\ front' = [n |-> seq + 1, key |-> key]
    /\ UNCHANGED <<payload, control, memory, feeding, callers, writing>>

(* A codec switch empties the store and moves the number on.  Bound: the   *)
(* last number is a frame's.                                               *)
CodecSwitch ==
    /\ seq + 1 < MaxSeq
    /\ seq' = seq + 1 /\ front' = NoFrame
    /\ payload' = IF payload = "h264" THEN "mjpeg" ELSE "h264"
    /\ UNCHANGED <<control, memory, feeding, callers, writing>>

(* on_memory_pressure looks; RingFreed does the rest.                      *)
Pressure ==
    /\ ~freeing /\ ~active /\ buf
    /\ freeing' = TRUE
    /\ UNCHANGED <<store, control, memory, feeding, ctl, writing>>

(* ring_free, by whoever decided to before: a codec short of memory, the   *)
(* feed that has left, a dashcam switched off.  Bound: one at a time.      *)
RingFreed ==
    /\ freeing /\ freeing' = FALSE
    /\ RingFree
    /\ UNCHANGED <<store, control, feeding, ctl, writing>>

----------------------------------------------------------------------------
(* The feed task.                                                          *)

FeedAt(pc) == feed.pc = pc

(* Mutant of FeedLeave: decided without s_ctl.                             *)
FeedLeave_Unlocked ==
    /\ FeedAt("top") /\ ~active /\ ~dashcam
    /\ ~freeing
    /\ feedRunning' = FALSE /\ feed' = NoFeed /\ freeing' = TRUE
    /\ UNCHANGED <<store, control, memory, dashcam, resync, slips, ctl, writing>>

(* Nobody needs it: decided under s_ctl, the ring is freed afterwards.     *)
FeedLeave ==
    /\ FeedAt("top") /\ ~active /\ ~dashcam
    /\ ctl.pc = "free" /\ ~freeing
    /\ feedRunning' = FALSE /\ feed' = NoFeed /\ freeing' = TRUE
    /\ UNCHANGED <<store, control, memory, dashcam, resync, slips, ctl, writing>>

FeedTop ==
    /\ FeedAt("top") /\ (active \/ dashcam)
    /\ resync' = FALSE
    /\ feed' = [feed EXCEPT !.pc = "wait", !.needKey = @ \/ resync]
    /\ UNCHANGED <<store, control, memory, dashcam, feedRunning, slips, callers, writing>>

(* Half a second without a frame; maybe no codec runs at all.              *)
FeedTimeout ==
    /\ FeedAt("wait") /\ seq = feed.last
    /\ feed' = IF ~active /\ buf /\ payload # "h264"
               THEN [feed EXCEPT !.pc = "freeIdle", !.needKey = TRUE]
               ELSE [feed EXCEPT !.pc = "top"]
    /\ UNCHANGED <<store, control, memory, dashcam, resync, feedRunning, slips, callers, writing>>

(* No ring: wait for H.264 and for a codec that just failed for memory.    *)
FeedNoRing ==
    /\ FeedAt("wait") /\ seq # feed.last /\ ~buf
    /\ \/ feed' = [feed EXCEPT !.pc = "top", !.last = seq]
       \/ /\ payload = "h264" /\ (dashcam \/ active)
          /\ feed' = [feed EXCEPT !.pc = "alloc"]
    /\ UNCHANGED <<store, control, memory, dashcam, resync, feedRunning, slips, callers, writing>>

(* Take the ring under s_ctl; the dashcam goes off if there is none.       *)
FeedAlloc ==
    /\ FeedAt("alloc") /\ ctl.pc = "free"
    /\ \/ (dashcam \/ active) /\ buf' = TRUE /\ UNCHANGED dashcam
       \/ ~buf /\ dashcam' = FALSE /\ UNCHANGED buf
    /\ feed' = [feed EXCEPT !.pc = "top", !.needKey = TRUE, !.last = seq]
    /\ UNCHANGED <<store, control, ring, lost, resync, feedRunning, slips, callers, writing>>

(* A frame of another codec ends a recording; without one the ring goes.   *)
FeedOther ==
    /\ FeedAt("wait") /\ seq # feed.last /\ buf
    /\ front # NoFrame /\ payload # "h264"
    /\ stop' = (stop \/ active)
    /\ feed' = [feed EXCEPT !.pc = IF active THEN "top" ELSE "freeOther"]
    /\ UNCHANGED <<store, active, background, event, eventEnd, eventStart, memory,
                   dashcam, resync, feedRunning, slips, callers, writing>>

FeedFree ==
    /\ FeedAt("freeIdle") \/ FeedAt("freeOther")
    /\ RingFree
    /\ feed' = [feed EXCEPT !.pc = IF FeedAt("freeIdle") THEN "top" ELSE "other"]
    /\ UNCHANGED <<store, control, dashcam, resync, feedRunning, slips, callers, writing>>

(* Not a viewer any more until H.264 is back or nobody wants it.           *)
FeedBack ==
    /\ FeedAt("other") /\ (payload = "h264" \/ ~(dashcam \/ active))
    /\ feed' = [feed EXCEPT !.pc = "top", !.needKey = TRUE, !.last = seq]
    /\ UNCHANGED <<store, control, memory, dashcam, resync, feedRunning, slips, callers, writing>>

(* Acquire the newest frame, notice a gap, wait for a keyframe after one.  *)
FeedFrame ==
    /\ FeedAt("wait") /\ seq # feed.last /\ buf
    /\ \/ /\ front = NoFrame
          /\ feed' = [feed EXCEPT !.pc = "top", !.last = seq]
          /\ slips' = IF feed.needKey THEN slips ELSE slips \cup {seq}
       \/ /\ front # NoFrame /\ payload = "h264"
          /\ LET need == feed.needKey \/ front.n - feed.last > 1
             IN  feed' = [feed EXCEPT !.pc = IF need /\ ~front.key THEN "top" ELSE "push",
                                      !.last = front.n, !.needKey = need,
                                      !.f = IF need /\ ~front.key THEN NoFrame ELSE front,
                                      !.evict = ~active /\ (front.key \/ ~need)]
          /\ UNCHANGED slips
    /\ UNCHANGED <<store, control, memory, dashcam, resync, feedRunning, callers, writing>>

(* Mutant of FeedPush: a frame that did not fit is forgotten.              *)
FeedPush_NoResync ==
    /\ FeedAt("push")
    /\ LET p == Push(ring, feed.f, feed.evict)
       IN  /\ ring' = IF buf THEN p.ring ELSE ring
           /\ feed' = [feed EXCEPT !.pc = "top", !.f = NoFrame, !.evict = FALSE,
                                   !.needKey = FALSE]
    /\ UNCHANGED <<store, control, buf, lost, dashcam, resync, feedRunning, slips, callers, writing>>

(* Into the ring, under s_ring_mu.                                         *)
FeedPush ==
    /\ FeedAt("push")
    /\ LET p == Push(ring, feed.f, feed.evict)
           kept == buf /\ p.kept
       IN  /\ ring' = IF buf THEN p.ring ELSE ring
           /\ feed' = [feed EXCEPT !.pc = "top", !.f = NoFrame, !.evict = FALSE,
                                   !.needKey = ~kept]
    /\ UNCHANGED <<store, control, buf, lost, dashcam, resync, feedRunning, slips, callers, writing>>

----------------------------------------------------------------------------
(* Control: start, stop, clips, the dashcam's setting.                     *)

(* kvm_record_blocked.                                                     *)
Blocked ==
    \/ background /\ event
    \/ active /\ ~background
    \/ payload # "h264"

(* start() takes s_ctl.  An operator's recording takes the writer from the *)
(* dashcam and waits for it in stop_writer, when it is still writing; a    *)
(* clip of a dashcam that writes to the card is MarkEvent.                 *)
StartTake(k) ==
    /\ ctl.pc = "free" /\ ~Blocked
    /\ k = "bg" => ~active
    /\ k = "clip" => ~background
    /\ ctl' = [pc |-> IF background THEN "evict" ELSE "open", kind |-> k]
    /\ stop' = (stop \/ (background /\ active))
    /\ UNCHANGED <<store, active, background, event, eventEnd, eventStart, memory,
                   feeding, freeing, writing>>

(* stop_writer returns, whether the dashcam's writer has ended or not: it  *)
(* gives up after fifteen seconds, and a token that an earlier writer gave *)
(* late lets it through at once.  So s_writer_done decides nothing here.   *)
StartEvicted ==
    /\ ctl.pc = "evict"
    /\ ctl' = [ctl EXCEPT !.pc = "open"]
    /\ UNCHANGED <<store, control, memory, feeding, freeing, writing>>

(* A start overwrites s_chunk, s_file and what is counted of them, whoever *)
(* uses them: a writer that is still at work has its file no longer alone. *)
TakeOver ==
    /\ rivals' = IF wr.pc = "none" THEN rivals ELSE TRUE
    /\ wr' = NoWriter /\ part' = <<>>

(* feed_ensure: a ring, and the feed task if it is not running.            *)
FeedEnsure ==
    /\ buf' = TRUE
    /\ feedRunning' = TRUE
    /\ feed' = IF feedRunning THEN feed ELSE NewFeed
    /\ UNCHANGED <<ring, lost, dashcam, resync, slips>>

StartOpen ==
    /\ ctl.pc = "open"
    /\ FeedEnsure
    /\ background' = (ctl.kind = "bg")
    /\ ctl' = [ctl EXCEPT !.pc = "ring"]
    /\ TakeOver
    /\ UNCHANGED <<store, active, stop, event, eventEnd, eventStart, freeing>>

(* The card is full, or takes no folder.                                   *)
StartRefused ==
    /\ ctl.pc = "open"
    /\ ctl' = Nobody
    /\ UNCHANGED <<store, control, memory, feeding, freeing, writing>>

(* There is no memory, or the file cannot be made: the feed, if it was     *)
(* started for this, stays and leaves by itself.                           *)
StartFails ==
    /\ ctl.pc = "open"
    /\ ctl' = Nobody
    /\ \/ FeedEnsure /\ background' = FALSE
       \/ UNCHANGED <<memory, feeding, background>>
    /\ TakeOver
    /\ UNCHANGED <<store, active, stop, event, eventEnd, eventStart, freeing>>

(* Under s_ring_mu: a clip keeps the past, anything else starts from now.  *)
StartRing ==
    /\ ctl.pc = "ring"
    /\ \/ ctl.kind = "clip" /\ ring' = Past(ring) /\ UNCHANGED resync
       \/ ctl.kind # "clip" /\ ring' = <<>> /\ resync' = TRUE
    /\ ctl' = [ctl EXCEPT !.pc = "go"]
    /\ UNCHANGED <<store, control, buf, lost, dashcam, feedRunning, feed, slips,
                   freeing, writing>>

(* The flags, then the writer task: alone, or one more of several.         *)
StartGo ==
    /\ ctl.pc = "go" /\ ctl' = Nobody
    /\ event' = (ctl.kind = "clip")
    /\ eventStart' = IF ctl.kind = "clip" THEN seq ELSE 0
    /\ eventEnd' = IF ctl.kind = "clip" THEN seq + Post ELSE 0
    /\ stop' = FALSE /\ active' = TRUE
    /\ wr' = IF rivals THEN wr ELSE [NoWriter EXCEPT !.pc = "loop", !.kind = ctl.kind]
    /\ UNCHANGED <<store, background, memory, feeding, freeing, part, rivals>>

StartNoTask ==
    /\ ctl.pc = "go" /\ ctl' = Nobody
    /\ event' = FALSE /\ background' = FALSE /\ stop' = FALSE /\ active' = FALSE
    /\ UNCHANGED <<store, eventEnd, eventStart, memory, feeding, freeing, writing>>

(* kvm_record_stop leaves the dashcam's writing alone; a card that leaves  *)
(* (on_card_leaving) stops it too.  Neither takes s_ctl.                   *)
RecordStop ==
    /\ active /\ ~stop
    /\ stop' = TRUE
    /\ UNCHANGED <<store, active, background, event, eventEnd, eventStart, memory, feeding,
                   callers, writing>>

(* record_stop_segments holds s_ctl until the writer has closed, or for    *)
(* fifteen seconds.                                                        *)
StopSegments ==
    /\ ctl.pc = "free" /\ background /\ active
    /\ stop' = TRUE
    /\ ctl' = [Nobody EXCEPT !.pc = "drain"]
    /\ UNCHANGED <<store, active, background, event, eventEnd, eventStart, memory, feeding,
                   freeing, writing>>

StopSegmentsDone ==
    /\ ctl.pc = "drain" /\ ctl' = Nobody
    /\ UNCHANGED <<store, control, memory, feeding, freeing, writing>>

(* seg_mark_event: a clip of what the dashcam writes to the card.          *)
MarkEvent ==
    /\ ctl.pc = "free" /\ active /\ background /\ ~event
    /\ event' = TRUE /\ eventStart' = seq /\ eventEnd' = seq + Post
    /\ UNCHANGED <<store, active, stop, background, memory, feeding, callers, writing>>

(* kvm_record_event during a clip: it runs longer, up to a limit.          *)
ExtendEvent ==
    /\ active /\ event
    /\ LET end == IF seq + Post > eventStart + EventMax THEN eventStart + EventMax
                  ELSE seq + Post
       IN  end > eventEnd /\ eventEnd' = end
    /\ UNCHANGED <<store, active, stop, background, event, eventStart, memory, feeding,
                   callers, writing>>

(* record_set_dashcam under s_ctl; the ring is freed after it is given     *)
(* back.                                                                   *)
SetDashcam(on) ==
    /\ ctl.pc = "free" /\ dashcam # on
    /\ dashcam' = on
    /\ feedRunning' = (feedRunning \/ on)
    /\ feed' = IF on /\ ~feedRunning THEN NewFeed ELSE feed
    /\ \/ (on \/ active) /\ UNCHANGED freeing
       \/ ~on /\ ~active /\ ~freeing /\ freeing' = TRUE
    /\ UNCHANGED <<store, control, memory, resync, slips, ctl, writing>>

----------------------------------------------------------------------------
(* The writer task.                                                        *)

(* Where the recording ends, -1 for nowhere yet: at a stop or a clip's     *)
(* end.  The length limit of the others may be reached at any frame.       *)
EndAt(stopAt) ==
    IF stopAt >= 0 THEN stopAt
    ELSE IF event /\ ~background THEN eventEnd ELSE -1

StopAt == IF stop /\ wr.stopAt < 0 THEN seq ELSE wr.stopAt

(* The oldest frame is after the end, or none came after a stop.           *)
WriterBreak ==
    /\ wr.pc = "loop"
    /\ \/ ring # <<>> /\ EndAt(StopAt) >= 0 /\ ring[1].n > EndAt(StopAt)
       \/ ring = <<>> /\ StopAt >= 0
       \/ ring # <<>> /\ StopAt < 0 /\ wr.kind \in {"rec", "lapse"} /\ part # <<>>
    /\ wr' = [wr EXCEPT !.pc = "close", !.stopAt = StopAt]
    /\ UNCHANGED <<store, control, memory, feeding, callers, part, rivals>>

WriterPop ==
    /\ wr.pc = "loop" /\ ring # <<>>
    /\ ~(EndAt(StopAt) >= 0 /\ ring[1].n > EndAt(StopAt))
    /\ ring' = Tail(ring) /\ lost' = FALSE
    /\ wr' = [wr EXCEPT !.pc = "mux", !.stopAt = StopAt, !.e = ring[1]]
    /\ UNCHANGED <<store, control, buf, feeding, callers, part, rivals>>

(* A frame that is passed over: after a failed write, or because a         *)
(* timelapse takes due keyframes only.                                     *)
WriterSkip ==
    /\ wr.pc = "mux" /\ (wr.failed \/ wr.kind = "lapse")
    /\ wr' = [wr EXCEPT !.pc = "loop", !.e = NoFrame] /\ lost' = FALSE
    /\ UNCHANGED <<store, control, buf, ring, feeding, callers, part, rivals>>

(* The dashcam's clip on the card ends with the segment its time falls in. *)
ClipDone == background /\ event /\ wr.e.n >= eventEnd

(* Into the file; a new file only on a keyframe, and for the clip's end.   *)
WriterMux ==
    /\ wr.pc = "mux" /\ ~wr.failed
    /\ wr.kind = "lapse" => wr.e.key
    /\ LET mayCut == wr.e.key /\ part # <<>>
       IN  \E cut \in (IF mayCut /\ ClipDone THEN {TRUE}
                       ELSE IF mayCut /\ wr.kind # "clip" THEN BOOLEAN ELSE {FALSE}) :
             /\ part' = IF cut THEN <<wr.e>> ELSE Append(part, wr.e)
             /\ event' = (event /\ ~(cut /\ ClipDone))
             /\ eventEnd' = IF cut /\ ClipDone THEN 0 ELSE eventEnd
    /\ eventStart' = IF event' THEN eventStart ELSE 0
    /\ wr' = [wr EXCEPT !.pc = "loop", !.e = NoFrame] /\ lost' = FALSE
    /\ UNCHANGED <<store, active, stop, background, buf, ring, feeding, callers, rivals>>

(* The card is full, fails, or has no next file.                           *)
WriterFails ==
    /\ wr.pc = "mux" /\ ~wr.failed
    /\ stop' = TRUE
    /\ wr' = [wr EXCEPT !.pc = "loop", !.e = NoFrame, !.failed = TRUE]
    /\ lost' = FALSE
    /\ UNCHANGED <<store, active, background, event, eventEnd, eventStart, buf, ring, feeding,
                   callers, part, rivals>>

(* The file is closed; a half-made clip of segments is handed over.        *)
WriterClose ==
    /\ wr.pc = "close"
    /\ wr' = [wr EXCEPT !.pc = "done"]
    /\ event' = (event /\ ~background)
    /\ eventEnd' = IF background THEN 0 ELSE eventEnd
    /\ eventStart' = IF background THEN 0 ELSE eventStart
    /\ UNCHANGED <<store, active, stop, background, memory, feeding, callers, part, rivals>>

(* What a writer clears as it ends, before its callback and its token.     *)
FlagsCleared ==
    /\ event' = FALSE /\ eventEnd' = 0 /\ eventStart' = 0
    /\ active' = FALSE /\ background' = FALSE

(* s_stop stays set in the code, and no writer that is alone reads it      *)
(* before the next start clears it.                                        *)
WriterDone ==
    /\ wr.pc = "done" /\ FlagsCleared
    /\ wr' = NoWriter /\ part' = <<>> /\ stop' = FALSE
    /\ UNCHANGED <<store, memory, feeding, callers, rivals>>

----------------------------------------------------------------------------
(* Two writers or more, each with the other's file, chunk and flags.  What *)
(* they write is not followed, what they do to the ring and the flags is.  *)

RivalTakes ==
    /\ rivals /\ ring # <<>> /\ ring' = Tail(ring)
    /\ UNCHANGED <<store, control, buf, lost, feeding, callers, writing>>

(* A write fails, or a clip of segments is over.                           *)
RivalSignals ==
    /\ rivals
    /\ \/ stop' = TRUE /\ UNCHANGED <<event, eventEnd, eventStart>>
       \/ event /\ event' = FALSE /\ eventEnd' = 0 /\ eventStart' = 0 /\ UNCHANGED stop
    /\ UNCHANGED <<store, active, background, memory, feeding, callers, writing>>

(* One of them ends, though others go on, and with the last the sharing:   *)
(* a start under way has its file and chunk taken from it, too.            *)
RivalEnds ==
    /\ rivals /\ FlagsCleared /\ stop' = FALSE
    /\ rivals' \in IF ctl.pc \in {"ring", "go"} THEN {TRUE} ELSE BOOLEAN
    /\ UNCHANGED <<store, memory, feeding, callers, wr, part>>

----------------------------------------------------------------------------
Init ==
    /\ seq = 0 /\ payload = "h264" /\ front = NoFrame
    /\ active = FALSE /\ stop = FALSE /\ background = FALSE
    /\ event = FALSE /\ eventEnd = 0 /\ eventStart = 0
    /\ dashcam = FALSE /\ resync = FALSE
    /\ buf = FALSE /\ ring = <<>> /\ lost = FALSE
    /\ feedRunning = FALSE /\ feed = NoFeed /\ slips = {}
    /\ ctl = Nobody /\ freeing = FALSE
    /\ wr = NoWriter /\ part = <<>> /\ rivals = FALSE

Source  == Publish \/ CodecSwitch \/ Pressure \/ RingFreed
Feed    == \/ FeedTop \/ FeedLeave \/ FeedTimeout \/ FeedNoRing \/ FeedAlloc
           \/ FeedOther \/ FeedFree \/ FeedBack \/ FeedFrame \/ FeedPush
Control == \/ \E k \in Kinds : StartTake(k)
           \/ StartEvicted \/ StartOpen \/ StartRefused \/ StartFails
           \/ StartRing \/ StartGo \/ StartNoTask
           \/ RecordStop \/ StopSegments \/ StopSegmentsDone \/ MarkEvent \/ ExtendEvent
           \/ \E on \in BOOLEAN : SetDashcam(on)
Writer  == \/ WriterBreak \/ WriterPop \/ WriterSkip \/ WriterMux \/ WriterFails
           \/ WriterClose \/ WriterDone \/ RivalTakes \/ RivalSignals \/ RivalEnds

Next == Source \/ Feed \/ Control \/ Writer

Spec == Init /\ [][Next]_vars

----------------------------------------------------------------------------
(* A start never finds a feed that is about to end: as long as s_active    *)
(* says that a recording is written the feed task is there, also when      *)
(* writers share the file.                                                 *)
FeedServes == active => feedRunning /\ feed.pc # "none"

(* The files are what Recording promises, as long as a writer is alone: a  *)
(* start that goes on over a writer still at work breaks the promise for   *)
(* both files, and it is kept again once the last of these writers ended.  *)
Files == INSTANCE Recording WITH on <- wr.pc # "none", tape <- part, shared <- rivals
FilesPlay == Files!Spec

(* No start goes on over a writer that is still at work.                   *)
OneWriter == ~rivals

(* The ring and its scratch frame stay while the writer uses them.         *)
RingStays == ~(wr.pc = "mux" /\ lost)

(* A file begins on a keyframe.                                            *)
StartsOnKey == part # <<>> => part[1].key
=============================================================================
