--------------------------- MODULE FrameDelivery ---------------------------
(***************************************************************************)
(* From the frame store to a sender that keeps an H.264 reference chain:   *)
(* video_frame_publish waking the waiters, video_frame_wait_new, and the   *)
(* send loop of a WebRTC session (tx_task in kvm_webrtc.c), which skips    *)
(* frames and must then wait for a keyframe.                               *)
(*                                                                         *)
(* A publish moves the sequence number on under the store's mutex and then *)
(* visits the waiter slots one by one; a waiter claims a slot, empties its *)
(* semaphore, looks at the number again and sleeps.  A codec switch        *)
(* empties the store and moves the number on without waking anybody; the   *)
(* H.264 encoder is kept through it with its reference frame.  With a task *)
(* of its own the encoder may publish once into the emptied store.         *)
(***************************************************************************)
EXTENDS Integers

CONSTANTS
    Viewers,        \* tasks that wait for frames and send them
    WaiterSlots,    \* WAITER_SLOTS
    Pipelined,      \* ~CAPTURE_DIRECT_ENCODE: the encoder has its own task
    MaxSeq          \* bound: how far the sequence number goes

ASSUME DeliveryAssumption ==
    WaiterSlots \in Nat /\ Pipelined \in BOOLEAN /\ MaxSeq \in Nat

Waiting == 1 .. WaiterSlots         \* s_waiters

VARIABLES
    seq,            \* s.seq
    codec,          \* the codec the store is installed for, or "none"
    front,          \* the front frame, or NoFrame
    reference,      \* the last frame the H.264 encoder put out, 0 before the first
    enc,            \* the encode under way: "idle", "key", "delta" or "jpeg"
    installed,      \* history: the number the last install gave
    at, give,       \* the slot a publish visits; it was found in use
    used, sem,      \* s_waiters[].used and .sem
    pc, slot, seen, \* each viewer: place, its waiter slot, last_seq
    frame, needKey, \* the frame held; need_key
    sent,           \* history: the last H.264 frame sent to the peer
    passed          \* history: a frame was passed over without a gap being seen

pub    == <<seq, codec, front, reference, enc, installed, at, give>>
slots  == <<used, sem>>
viewer == <<pc, slot, seen, frame, needKey, sent, passed>>
vars   == <<pub, slots, viewer>>

NoFrame == [seq |-> 0, key |-> FALSE, codec |-> "none", ref |-> 0]

Go(v, from, to) == pc[v] = from /\ pc' = [pc EXCEPT ![v] = to]

----------------------------------------------------------------------------
(* The encoder and the capture loop.                                       *)

(* A frame is begun: an IDR when the encoder is new, else as it was asked  *)
(* for, as it is overdue, or as the GOP has it.                            *)
EncodeBegin ==
    /\ codec # "none" /\ enc = "idle" /\ at = 0
    /\ seq < MaxSeq
    /\ enc' \in (IF codec = "mjpeg" THEN {"jpeg"}
                 ELSE IF reference = 0 THEN {"key"} ELSE {"key", "delta"})
    /\ UNCHANGED <<seq, codec, front, reference, installed, at, give, slots, viewer>>

(* video_frame_publish up to the end of the locked part.  In an emptied    *)
(* store the front slot has no buffer: nobody can acquire it.              *)
Publish ==
    /\ enc # "idle"
    /\ seq' = seq + 1
    /\ front' = IF codec = "none" THEN NoFrame
                ELSE [seq |-> seq + 1, codec |-> codec, key |-> enc # "delta",
                      ref |-> IF enc = "delta" THEN reference ELSE 0]
    /\ reference' = IF enc = "jpeg" THEN reference ELSE seq + 1
    /\ enc' = "idle"
    /\ at' = IF WaiterSlots > 0 THEN 1 ELSE 0
    /\ UNCHANGED <<codec, installed, give, slots, viewer>>

(* ... then slot by slot: is it in use? *)
PublishLook ==
    /\ at > 0 /\ ~give
    /\ IF used[at]
         THEN give' = TRUE /\ UNCHANGED at
         ELSE at' = (IF at < WaiterSlots THEN at + 1 ELSE 0) /\ UNCHANGED give
    /\ UNCHANGED <<seq, codec, front, reference, enc, installed, slots, viewer>>

(* ... then wake whoever has it by now. *)
PublishGive ==
    /\ at > 0 /\ give
    /\ sem' = [sem EXCEPT ![at] = TRUE]
    /\ give' = FALSE
    /\ at' = IF at < WaiterSlots THEN at + 1 ELSE 0
    /\ UNCHANGED <<seq, codec, front, reference, enc, installed, used, viewer>>

(* video_frame_quiesce: nobody holds a frame.  The loop does not encode    *)
(* here; a separate encode task may.                                       *)
Quiesce ==
    /\ codec # "none"
    /\ IF codec = "h264" /\ Pipelined THEN TRUE ELSE enc = "idle" /\ at = 0
    /\ \A v \in Viewers : pc[v] # "send"
    /\ codec' = "none" /\ front' = NoFrame
    /\ UNCHANGED <<seq, reference, enc, installed, at, give, slots, viewer>>

(* video_frame_install, after the old codec's task has ended. *)
Install ==
    /\ codec = "none" /\ enc = "idle" /\ at = 0
    /\ seq < MaxSeq
    /\ codec' \in {"mjpeg", "h264"}
    /\ seq' = seq + 1 /\ installed' = seq + 1
    /\ UNCHANGED <<front, reference, enc, at, give, slots, viewer>>

----------------------------------------------------------------------------
(* video_frame_wait_new(last_seq, 500) in viewer v.                        *)

WaitCall(v) ==
    /\ Go(v, "call", IF seq # seen[v] THEN "got" ELSE "claim")
    /\ UNCHANGED <<pub, slots, slot, seen, frame, needKey, sent, passed>>

(* Under s_waiters_mu: the first slot not in use. *)
WaitClaim(v) ==
    /\ Go(v, "claim", "drain")
    /\ \E i \in Waiting :
         /\ ~used[i] /\ \A j \in Waiting : j < i => used[j]
         /\ used' = [used EXCEPT ![i] = TRUE]
         /\ slot' = [slot EXCEPT ![v] = i]
    /\ UNCHANGED <<pub, sem, seen, frame, needKey, sent, passed>>

(* More waiters than slots: poll. *)
WaitPoll(v) ==
    /\ Go(v, "claim", "poll")
    /\ \A i \in Waiting : used[i]
    /\ UNCHANGED <<pub, slots, slot, seen, frame, needKey, sent, passed>>

WaitPolled(v) ==
    /\ Go(v, "poll", IF seq # seen[v] THEN "got" ELSE "call")
    /\ UNCHANGED <<pub, slots, slot, seen, frame, needKey, sent, passed>>

(* A give left for the slot's last owner is taken away ... *)
WaitDrain(v) ==
    /\ Go(v, "drain", "recheck")
    /\ sem' = [sem EXCEPT ![slot[v]] = FALSE]
    /\ UNCHANGED <<pub, used, slot, seen, frame, needKey, sent, passed>>

(* Mutant of WaitRecheck: the number is not looked at again.               *)
WaitRecheck_Blind(v) ==
    /\ Go(v, "recheck", "block")
    /\ UNCHANGED <<pub, slots, slot, seen, frame, needKey, sent, passed>>

(* ... and the number looked at again. *)
WaitRecheck(v) ==
    /\ Go(v, "recheck", IF seq = seen[v] THEN "block" ELSE "leave")
    /\ UNCHANGED <<pub, slots, slot, seen, frame, needKey, sent, passed>>

WaitWoken(v) ==
    /\ Go(v, "block", "leave")
    /\ sem[slot[v]]
    /\ sem' = [sem EXCEPT ![slot[v]] = FALSE]
    /\ UNCHANGED <<pub, used, slot, seen, frame, needKey, sent, passed>>

WaitTimeout(v) ==
    /\ Go(v, "block", "leave")
    /\ ~sem[slot[v]]
    /\ UNCHANGED <<pub, slots, slot, seen, frame, needKey, sent, passed>>

(* Mutant of WaitLeave: the slot stays in use.                             *)
WaitLeave_KeepsSlot(v) ==
    /\ Go(v, "leave", IF seq # seen[v] THEN "got" ELSE "call")
    /\ slot' = [slot EXCEPT ![v] = 0]
    /\ UNCHANGED <<pub, slots, seen, frame, needKey, sent, passed>>

WaitLeave(v) ==
    /\ Go(v, "leave", IF seq # seen[v] THEN "got" ELSE "call")
    /\ used' = [used EXCEPT ![slot[v]] = FALSE]
    /\ slot' = [slot EXCEPT ![v] = 0]
    /\ UNCHANGED <<pub, sem, seen, frame, needKey, sent, passed>>

----------------------------------------------------------------------------
(* tx_task with one session.                                               *)

(* A session reaches ST_MEDIA. *)
SessionStart(v) ==
    /\ Go(v, "idle", "call")
    /\ seen' = [seen EXCEPT ![v] = seq]
    /\ needKey' = [needKey EXCEPT ![v] = TRUE]
    /\ sent' = [sent EXCEPT ![v] = 0] /\ passed' = [passed EXCEPT ![v] = FALSE]
    /\ UNCHANGED <<pub, slots, slot, frame>>

SessionEnd(v) ==
    /\ Go(v, "call", "idle")
    /\ UNCHANGED <<pub, slots, slot, seen, frame, needKey, sent, passed>>

(* Mutant of Acquire: a gap of one frame is not noticed.                   *)
Acquire_ShortGap(v) ==
    /\ front # NoFrame
    /\ Go(v, "got", IF front.codec = "h264" THEN "send" ELSE "call")
    /\ seen' = [seen EXCEPT ![v] = seq]
    /\ IF front.codec = "h264"
         THEN /\ frame' = [frame EXCEPT ![v] = front]
              /\ needKey' = [needKey EXCEPT
                    ![v] = @ \/ (seen[v] # 0 /\ seq - seen[v] > 2)]
         ELSE UNCHANGED <<frame, needKey>>
    /\ UNCHANGED <<pub, slots, slot, sent, passed>>

(* video_frame_acquire succeeds.  A gap in the numbers means a frame was   *)
(* skipped; a frame of another codec is let go at once.                    *)
Acquire(v) ==
    /\ front # NoFrame
    /\ Go(v, "got", IF front.codec = "h264" THEN "send" ELSE "call")
    /\ seen' = [seen EXCEPT ![v] = seq]
    /\ IF front.codec = "h264"
         THEN /\ frame' = [frame EXCEPT ![v] = front]
              /\ needKey' = [needKey EXCEPT
                    ![v] = @ \/ (seen[v] # 0 /\ seq - seen[v] > 1)]
         ELSE UNCHANGED <<frame, needKey>>
    /\ UNCHANGED <<pub, slots, slot, sent, passed>>

(* It fails: "a codec change set the slot aside".  The task sleeps a tick ... *)
AcquireFails(v) ==
    /\ front = NoFrame
    /\ Go(v, "got", "nap")
    /\ UNCHANGED <<pub, slots, slot, seen, frame, needKey, sent, passed>>

(* ... and goes on from the number of that moment. *)
Resume(v) ==
    /\ Go(v, "nap", "call")
    /\ seen' = [seen EXCEPT ![v] = seq]
    /\ passed' = [passed EXCEPT ![v] = @ \/ reference # sent[v]]
    /\ UNCHANGED <<pub, slots, slot, frame, needKey, sent>>

Sendable(v) == needKey[v] => frame[v].key

Send(v) ==
    /\ Go(v, "send", "call")
    /\ Sendable(v)
    /\ needKey' = [needKey EXCEPT ![v] = FALSE]
    /\ sent' = [sent EXCEPT ![v] = frame[v].seq]
    /\ passed' = [passed EXCEPT ![v] = @ /\ ~frame[v].key]
    /\ frame' = [frame EXCEPT ![v] = NoFrame]
    /\ UNCHANGED <<pub, slots, slot, seen>>

(* The link could not take all of it, or the chain is broken and this is   *)
(* no keyframe: a keyframe is asked for.                                   *)
SendNothing(v) ==
    /\ Go(v, "send", "call")
    /\ needKey' = [needKey EXCEPT ![v] = TRUE]
    /\ frame' = [frame EXCEPT ![v] = NoFrame]
    /\ UNCHANGED <<pub, slots, slot, seen, sent, passed>>

----------------------------------------------------------------------------
Init ==
    /\ seq = 0 /\ codec = "none" /\ front = NoFrame /\ reference = 0
    /\ enc = "idle" /\ installed = 0 /\ at = 0 /\ give = FALSE
    /\ used = [i \in Waiting |-> FALSE] /\ sem = [i \in Waiting |-> FALSE]
    /\ pc = [v \in Viewers |-> "idle"]
    /\ slot = [v \in Viewers |-> 0]
    /\ seen = [v \in Viewers |-> 0]
    /\ frame = [v \in Viewers |-> NoFrame]
    /\ needKey = [v \in Viewers |-> FALSE]
    /\ sent = [v \in Viewers |-> 0]
    /\ passed = [v \in Viewers |-> FALSE]

Writer == EncodeBegin \/ Publish \/ PublishLook \/ PublishGive \/ Quiesce \/ Install

Wait(v) ==
    \/ WaitCall(v) \/ WaitClaim(v) \/ WaitPoll(v) \/ WaitPolled(v) \/ WaitDrain(v)
    \/ WaitRecheck(v) \/ WaitWoken(v) \/ WaitTimeout(v) \/ WaitLeave(v)

Session(v) ==
    \/ SessionStart(v) \/ SessionEnd(v) \/ Acquire(v) \/ AcquireFails(v)
    \/ Resume(v) \/ Send(v) \/ SendNothing(v)

Next == Writer \/ \E v \in Viewers : Wait(v) \/ Session(v)

Spec == Init /\ [][Next]_vars

----------------------------------------------------------------------------
(* Properties.                                                             *)

Frames == [seq : Nat, key : BOOLEAN, codec : {"none", "mjpeg", "h264"}, ref : Nat]

PubOK ==
    /\ seq \in Nat /\ codec \in {"none", "mjpeg", "h264"}
    /\ front \in Frames /\ reference \in Nat /\ installed \in Nat
    /\ enc \in {"idle", "key", "delta", "jpeg"}
    /\ at \in 0 .. WaiterSlots /\ give \in BOOLEAN

SlotsOK ==
    /\ used \in [Waiting -> BOOLEAN] /\ sem \in [Waiting -> BOOLEAN]
    /\ slot \in [Viewers -> 0 .. WaiterSlots]

ViewerOK ==
    /\ pc \in [Viewers -> {"idle", "call", "claim", "poll", "drain", "recheck",
                           "block", "leave", "got", "nap", "send"}]
    /\ seen \in [Viewers -> Nat] /\ frame \in [Viewers -> Frames]
    /\ needKey \in [Viewers -> BOOLEAN] /\ sent \in [Viewers -> Nat]
    /\ passed \in [Viewers -> BOOLEAN]

TypeOK == PubOK /\ SlotsOK /\ ViewerOK

HasSlot(v) == pc[v] \in {"drain", "recheck", "block", "leave"}

(* A waiter slot has one owner, and it is in use exactly while it has one: *)
(* no viewer is woken in another's place, and no slot is lost.             *)
SlotsApart ==
    /\ \A i \in Waiting : used[i] <=> \E v \in Viewers : HasSlot(v) /\ slot[v] = i
    /\ \A v, u \in Viewers : HasSlot(v) /\ HasSlot(u) /\ slot[v] = slot[u] => v = u

(* Nobody sleeps through a frame: a viewer that is asleep although a frame *)
(* it has not seen is up for sending has been woken, or the publish has    *)
(* still to come to its slot (video_frame.c, the comments on s_waiters and *)
(* in video_frame_wait_new).                                               *)
NoLostWakeup ==
    \A v \in Viewers : pc[v] = "block" /\ front # NoFrame /\ front.seq # seen[v]
        => sem[slot[v]] \/ (at > 0 /\ at <= slot[v])

(* A difference frame is sent only to a peer that was sent the frame it    *)
(* refers to.                                                              *)
InChain(v) ==
    pc[v] = "send" /\ Sendable(v) /\ ~frame[v].key => frame[v].ref = sent[v]

(* The gap test keeps the chain through skipped frames, failed sends, a    *)
(* held frame and codec switches, unless a frame went by in the tick after *)
(* a failed acquire.                                                       *)
ChainKept == \A v \in Viewers : ~passed[v] => InChain(v)

(* "a skipped delta breaks the chain" (kvm_webrtc.c): then a keyframe must *)
(* come first, always.                                                     *)
ChainAlways == \A v \in Viewers : InChain(v)
=============================================================================
