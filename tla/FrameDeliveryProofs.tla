------------------------ MODULE FrameDeliveryProofs ------------------------
(***************************************************************************)
(* Proofs about FrameDelivery, for any number of viewers, waiter slots and *)
(* frames.                                                                 *)
(***************************************************************************)
EXTENDS FrameDelivery, TLAPS

(* The front frame is the newest; the H.264 encoder's reference is the     *)
(* front frame while H.264 runs and has published.                         *)
FrontInv ==
    /\ reference <= seq /\ installed <= seq
    /\ front # NoFrame => /\ front.seq = seq /\ front.codec = codec /\ codec # "none"
                          /\ installed < seq
                          /\ codec = "h264" => reference = seq
    /\ enc = "jpeg" => codec = "mjpeg"
    /\ enc \in {"key", "delta"} => codec # "mjpeg"
    /\ codec = "none" => front = NoFrame

SlotInv ==
    /\ SlotsApart
    /\ \A v \in Viewers : HasSlot(v) => slot[v] \in Waiting

(* Either v has sent the encoder's reference, or the next frame it could   *)
(* send shows a gap or comes right after what it has seen.                 *)
Away(v) ==
    \/ sent[v] = reference
    \/ seen[v] < reference
    \/ codec # "h264"
    \/ seen[v] < installed

(* The front frame, if it is the next one for v, refers to frame s. *)
Fits(v, s) ==
    front # NoFrame /\ front.codec = "h264" /\ ~front.key /\ front.seq = seen[v] + 1
        => front.ref = s

(* A viewer that is not sending, and one that is. *)
Resting(v) ==
    pc[v] \notin {"idle", "send"} /\ ~needKey[v] /\ ~passed[v]
        => Away(v) /\ Fits(v, sent[v])

Sending(v) ==
    pc[v] = "send" =>
        /\ frame[v].seq = seen[v] /\ 0 < seen[v] /\ seen[v] <= reference
        /\ Fits(v, seen[v])
        /\ ~needKey[v] /\ ~passed[v] /\ ~frame[v].key => frame[v].ref = sent[v]

Seen(v) ==
    /\ seen[v] <= seq
    /\ pc[v] = "got" => seen[v] < seq
    /\ pc[v] # "idle" /\ ~needKey[v] => seen[v] > 0

ChainInv == \A v \in Viewers : Seen(v) /\ Resting(v) /\ Sending(v)

DeliveryInv == TypeOK /\ FrontInv /\ SlotInv /\ NoLostWakeup /\ ChainInv

LEMMA InitDelivery == Init => DeliveryInv
<1> SUFFICES ASSUME Init PROVE DeliveryInv
  OBVIOUS
<1>1. NoFrame \in Frames
  BY DEF NoFrame, Frames
<1>2. PubOK
  <2>1. at \in 0 .. WaiterSlots
    BY DeliveryAssumption DEF Init
  <2>2. give \in BOOLEAN
    BY DEF Init
  <2> QED
    BY <1>1, <2>1, <2>2 DEF Init, PubOK
<1>3. SlotsOK
  BY DeliveryAssumption DEF Init, SlotsOK, Waiting
<1>4. ViewerOK
  BY <1>1 DEF Init, ViewerOK
<1>5. FrontInv
  BY DEF Init, FrontInv
<1>6. SlotInv /\ NoLostWakeup
  BY DEF Init, SlotInv, SlotsApart, HasSlot, NoLostWakeup
<1>7. ChainInv
  <2>1. seq = 0 /\ \A v \in Viewers : pc[v] = "idle" /\ seen[v] = 0
    BY DEF Init
  <2>2. ASSUME NEW v \in Viewers PROVE Seen(v)
    BY <2>1 DEF Seen
  <2>3. ASSUME NEW v \in Viewers PROVE Resting(v) /\ Sending(v)
    BY <2>1 DEF Resting, Sending
  <2> QED
    BY <2>2, <2>3 DEF ChainInv
<1> QED
  BY <1>2, <1>3, <1>4, <1>5, <1>6, <1>7 DEF DeliveryInv, TypeOK

(* The encoder, the publish and the codec switch. *)
LEMMA WriterDelivery ==
    ASSUME DeliveryInv, Writer
    PROVE  DeliveryInv'
<1> USE DEF DeliveryInv, TypeOK
<1>1. UNCHANGED <<used, viewer>>
  BY DEF Writer, EncodeBegin, Publish, PublishLook, PublishGive, Quiesce, Install, slots
<1>2. ViewerOK'
  BY <1>1 DEF viewer, ViewerOK
<1>3. SlotInv'
  BY <1>1 DEF viewer, SlotInv, SlotsApart, HasSlot
<1>4. CASE EncodeBegin
  <2>1. PubOK' /\ SlotsOK'
    BY <1>4 DEF EncodeBegin, PubOK, SlotsOK, slots, viewer
  <2>2. FrontInv'
    BY <1>4 DEF EncodeBegin, FrontInv, PubOK
  <2>3. NoLostWakeup'
    BY <1>4 DEF EncodeBegin, NoLostWakeup, slots, viewer
  <2>4. ChainInv'
    BY <1>4 DEF EncodeBegin, ChainInv, Seen, Resting, Sending, Away, Fits, viewer
  <2> QED
    BY <1>2, <1>3, <2>1, <2>2, <2>3, <2>4
<1>5. CASE Publish
  <2> DEFINE new == [seq |-> seq + 1, codec |-> codec, key |-> enc # "delta",
                     ref |-> IF enc = "delta" THEN reference ELSE 0]
  <2>1. new \in Frames /\ NoFrame \in Frames
    BY DEF Frames, NoFrame, PubOK
  <2>2. PubOK' /\ SlotsOK'
    BY <1>5, <2>1, DeliveryAssumption DEF Publish, PubOK, SlotsOK, slots, viewer
  <2>3. FrontInv'
    BY <1>5, <2>1 DEF Publish, FrontInv, PubOK
  <2>4. NoLostWakeup'
    BY <1>5, DeliveryAssumption DEF Publish, NoLostWakeup, SlotInv, HasSlot, Waiting, slots,
       viewer, SlotsOK
  <2>6. ASSUME front' # NoFrame, front'.codec = "h264", ~front'.key
        PROVE  codec = "h264" /\ front'.ref = reference /\ front'.seq = seq + 1
    <3>1. codec # "none" /\ front' = new
      BY <1>5, <2>6 DEF Publish
    <3>2. enc = "delta"
      BY <2>6, <3>1
    <3> QED
      BY <2>6, <3>1, <3>2
  <2>5. ASSUME NEW v \in Viewers PROVE Seen(v)' /\ Resting(v)' /\ Sending(v)'
    <3>1. Seen(v) /\ Resting(v) /\ Sending(v)
      BY DEF ChainInv
    <3>2. seen[v] \in Nat /\ seq \in Nat /\ reference \in Nat
      BY DEF ViewerOK, PubOK
    <3>3. Seen(v)'
      BY <1>5, <3>1, <3>2 DEF Publish, Seen, viewer
    <3>4. Resting(v)'
      <4> SUFFICES ASSUME pc[v] \notin {"idle", "send"}, ~needKey[v], ~passed[v]
                   PROVE  Away(v)' /\ Fits(v, sent[v])'
        BY <1>1 DEF Resting, viewer
      <4>1. Away(v) /\ seen[v] <= seq /\ reference <= seq /\ installed <= seq
        BY <3>1 DEF Resting, Seen, FrontInv
      <4>2. Away(v)'
        BY <1>1, <1>5, <3>2, <4>1 DEF Publish, Away, viewer, FrontInv
      <4>3. Fits(v, sent[v])'
        <5> SUFFICES ASSUME codec = "h264", seen[v] = seq
                     PROVE  reference = sent[v]
          BY <1>1, <2>6, <3>2 DEF Fits, viewer
        <5> QED
          BY <3>2, <4>1 DEF Away, PubOK
      <4> QED
        BY <4>2, <4>3
    <3>5. Sending(v)'
      <4> SUFFICES ASSUME pc[v] = "send"
                   PROVE  /\ frame[v].seq = seen[v] /\ 0 < seen[v] /\ seen[v] <= reference'
                          /\ Fits(v, seen[v])'
                          /\ ~needKey[v] /\ ~passed[v] /\ ~frame[v].key
                                => frame[v].ref = sent[v]
        BY <1>1 DEF Sending, viewer
      <4>1. seen[v] <= reference /\ reference <= seq
        BY <3>1 DEF Sending, FrontInv
      <4>2. seen[v] <= reference'
        BY <1>5, <3>2, <4>1 DEF Publish
      <4>3. Fits(v, seen[v])'
        <5> SUFFICES ASSUME codec = "h264", seen[v] = seq
                     PROVE  reference = seen[v]
          BY <1>1, <2>6, <3>2 DEF Fits, viewer
        <5> QED
          BY <3>2, <4>1
      <4> QED
        BY <3>1, <4>2, <4>3 DEF Sending
    <3> QED
      BY <3>3, <3>4, <3>5
  <2> QED
    BY <1>2, <1>3, <2>2, <2>3, <2>4, <2>5 DEF ChainInv
<1>6. CASE PublishLook
  <2>1. PubOK' /\ SlotsOK'
    <3>1. at' \in 0 .. WaiterSlots
      BY <1>6, DeliveryAssumption DEF PublishLook, PubOK
    <3>2. give' \in BOOLEAN
      BY <1>6 DEF PublishLook, PubOK
    <3> QED
      BY <1>6, <3>1, <3>2 DEF PublishLook, PubOK, SlotsOK, slots, viewer
  <2>2. FrontInv'
    BY <1>6 DEF PublishLook, FrontInv
  <2>3. NoLostWakeup'
    <3> SUFFICES ASSUME NEW v \in Viewers, pc[v] = "block", front # NoFrame,
                        front.seq # seen[v], ~sem[slot[v]]
                 PROVE  at' > 0 /\ at' <= slot[v]
      BY <1>6 DEF PublishLook, NoLostWakeup, slots, viewer
    <3>1. at > 0 /\ at <= slot[v] /\ slot[v] \in Waiting /\ used[slot[v]]
      BY DEF NoLostWakeup, SlotInv, SlotsApart, HasSlot
    <3> QED
      BY <1>6, <3>1, DeliveryAssumption DEF PublishLook, PubOK, Waiting
  <2>4. ChainInv'
    BY <1>6 DEF PublishLook, ChainInv, Seen, Resting, Sending, Away, Fits, viewer
  <2> QED
    BY <1>2, <1>3, <2>1, <2>2, <2>3, <2>4
<1>7. CASE PublishGive
  <2>1. at \in Waiting
    BY <1>7, DeliveryAssumption DEF PublishGive, PubOK, Waiting
  <2>2. PubOK' /\ SlotsOK'
    <3>1. at' \in 0 .. WaiterSlots
      BY <1>7, DeliveryAssumption DEF PublishGive, PubOK
    <3>2. sem' \in [Waiting -> BOOLEAN]
      BY <1>7 DEF PublishGive, SlotsOK
    <3> QED
      BY <1>7, <3>1, <3>2 DEF PublishGive, PubOK, SlotsOK, viewer
  <2>3. FrontInv'
    BY <1>7 DEF PublishGive, FrontInv
  <2>4. NoLostWakeup'
    <3> SUFFICES ASSUME NEW v \in Viewers, pc[v] = "block", front # NoFrame,
                        front.seq # seen[v], ~sem'[slot[v]]
                 PROVE  at' > 0 /\ at' <= slot[v]
      BY <1>7 DEF PublishGive, NoLostWakeup, viewer
    <3>1. slot[v] \in Waiting
      BY DEF SlotInv, HasSlot
    <3>2. at # slot[v] /\ ~sem[slot[v]]
      BY <1>7, <2>1, <3>1 DEF PublishGive, SlotsOK
    <3>3. at > 0 /\ at <= slot[v]
      BY <3>2 DEF NoLostWakeup
    <3> QED
      BY <1>7, <3>1, <3>2, <3>3, DeliveryAssumption DEF PublishGive, PubOK, Waiting
  <2>5. ChainInv'
    BY <1>7 DEF PublishGive, ChainInv, Seen, Resting, Sending, Away, Fits, viewer
  <2> QED
    BY <1>2, <1>3, <2>2, <2>3, <2>4, <2>5
<1>8. CASE Quiesce
  <2>1. PubOK' /\ SlotsOK'
    BY <1>8 DEF Quiesce, PubOK, SlotsOK, slots, viewer, Frames, NoFrame
  <2>2. FrontInv'
    BY <1>8 DEF Quiesce, FrontInv, PubOK
  <2>3. NoLostWakeup'
    BY <1>8 DEF Quiesce, NoLostWakeup
  <2>4. ChainInv'
    BY <1>8 DEF Quiesce, ChainInv, Seen, Resting, Sending, Away, Fits, viewer
  <2> QED
    BY <1>2, <1>3, <2>1, <2>2, <2>3, <2>4
<1>9. CASE Install
  <2>1. PubOK' /\ SlotsOK'
    BY <1>9 DEF Install, PubOK, SlotsOK, slots, viewer
  <2>2. front = NoFrame
    BY <1>9 DEF Install, FrontInv
  <2>3. FrontInv'
    BY <1>9, <2>2 DEF Install, FrontInv, PubOK
  <2>4. NoLostWakeup'
    BY <1>9, <2>2 DEF Install, NoLostWakeup
  <2>5. ChainInv'
    BY <1>9, <2>2 DEF Install, ChainInv, Seen, Resting, Sending, Away, Fits, viewer, PubOK,
       ViewerOK
  <2> QED
    BY <1>2, <1>3, <2>1, <2>3, <2>4, <2>5
<1> QED
  BY <1>4, <1>5, <1>6, <1>7, <1>8, <1>9 DEF Writer

(* What one viewer does leaves the others' chains alone. *)
LEMMA OthersKept ==
    ASSUME ChainInv, NEW v \in Viewers, ViewerOK, UNCHANGED pub,
           \E p : pc' = [pc EXCEPT ![v] = p],
           \E n : seen' = [seen EXCEPT ![v] = n],
           \E f : frame' = [frame EXCEPT ![v] = f],
           \E k : needKey' = [needKey EXCEPT ![v] = k],
           \E n : sent' = [sent EXCEPT ![v] = n],
           \E b : passed' = [passed EXCEPT ![v] = b],
           Seen(v)' /\ Resting(v)' /\ Sending(v)'
    PROVE  ChainInv'
<1> SUFFICES ASSUME NEW u \in Viewers, u # v PROVE Seen(u)' /\ Resting(u)' /\ Sending(u)'
  BY DEF ChainInv
<1>1. /\ pc'[u] = pc[u] /\ seen'[u] = seen[u] /\ frame'[u] = frame[u]
      /\ needKey'[u] = needKey[u] /\ sent'[u] = sent[u] /\ passed'[u] = passed[u]
  BY DEF ViewerOK
<1> QED
  BY <1>1 DEF ChainInv, Seen, Resting, Sending, Away, Fits, pub

(* video_frame_wait_new: nothing but the place, the slot and the semaphore *)
(* moves.                                                                  *)
LEMMA WaitDelivery ==
    ASSUME DeliveryInv, NEW v \in Viewers, Wait(v)
    PROVE  DeliveryInv'
<1> USE DEF DeliveryInv, TypeOK
<1>1. UNCHANGED <<pub, seen, frame, needKey, sent, passed>>
  BY DEF Wait, WaitCall, WaitClaim, WaitPoll, WaitPolled, WaitDrain, WaitRecheck, WaitWoken,
     WaitTimeout, WaitLeave
<1>2. PICK p \in {"call", "claim", "poll", "drain", "recheck", "block", "leave", "got"} :
        pc' = [pc EXCEPT ![v] = p] /\ (p = "got" => seq # seen[v])
  BY DEF Wait, WaitCall, WaitClaim, WaitPoll, WaitPolled, WaitDrain, WaitRecheck, WaitWoken,
     WaitTimeout, WaitLeave, Go
<1>3. pc[v] \notin {"idle", "send"}
  BY DEF Wait, WaitCall, WaitClaim, WaitPoll, WaitPolled, WaitDrain, WaitRecheck, WaitWoken,
     WaitTimeout, WaitLeave, Go
<1>4. PubOK' /\ FrontInv'
  BY <1>1 DEF pub, PubOK, FrontInv
<1>5. ViewerOK'
  BY <1>1, <1>2 DEF ViewerOK
<1>6. ChainInv'
  <2>1. Seen(v)' /\ Resting(v)' /\ Sending(v)'
    BY <1>1, <1>2, <1>3 DEF ChainInv, Seen, Resting, Sending, Away, Fits, pub, ViewerOK, PubOK
  <2>2. /\ seen' = [seen EXCEPT ![v] = seen[v]] /\ frame' = [frame EXCEPT ![v] = frame[v]]
        /\ needKey' = [needKey EXCEPT ![v] = needKey[v]]
        /\ sent' = [sent EXCEPT ![v] = sent[v]] /\ passed' = [passed EXCEPT ![v] = passed[v]]
    BY <1>1 DEF ViewerOK
  <2> QED
    BY <1>1, <1>2, <2>1, <2>2, OthersKept
<1>7. CASE WaitCall(v) \/ WaitPoll(v) \/ WaitPolled(v)
  <2>1. UNCHANGED <<used, sem, slot>> /\ ~HasSlot(v) /\ p \notin {"drain", "recheck", "block", "leave"}
    BY <1>2, <1>7 DEF WaitCall, WaitPoll, WaitPolled, Go, slots, HasSlot, ViewerOK
  <2>2. SlotsOK'
    BY <2>1 DEF SlotsOK
  <2>3. \A u \in Viewers : HasSlot(u)' <=> HasSlot(u)
    BY <1>2, <2>1 DEF HasSlot, ViewerOK
  <2>4. SlotInv'
    BY <2>1, <2>3 DEF SlotInv, SlotsApart
  <2>5. NoLostWakeup'
    BY <1>1, <1>2, <2>1 DEF NoLostWakeup, pub, ViewerOK
  <2> QED
    BY <1>4, <1>5, <1>6, <2>2, <2>4, <2>5
<1>8. CASE WaitClaim(v)
  <2>1. PICK i \in Waiting : /\ ~used[i] /\ used' = [used EXCEPT ![i] = TRUE]
                             /\ slot' = [slot EXCEPT ![v] = i]
    BY <1>8 DEF WaitClaim
  <2>2. UNCHANGED sem /\ ~HasSlot(v) /\ pc' = [pc EXCEPT ![v] = "drain"]
    BY <1>8 DEF WaitClaim, Go, HasSlot
  <2>3. SlotsOK'
    BY <2>1, <2>2, DeliveryAssumption DEF SlotsOK, Waiting
  <2>4. \A u \in Viewers : u # v => (HasSlot(u)' <=> HasSlot(u)) /\ slot'[u] = slot[u]
    BY <2>1, <2>2 DEF HasSlot, ViewerOK, SlotsOK
  <2>5. HasSlot(v)' /\ slot'[v] = i
    BY <2>1, <2>2 DEF HasSlot, ViewerOK, SlotsOK
  <2>6. SlotInv'
    <3>1. \A u \in Viewers : HasSlot(u) => slot[u] # i
      BY <2>1 DEF SlotInv, SlotsApart
    <3>2. \A j \in Waiting : used'[j] <=> (j = i \/ used[j])
      BY <2>1 DEF SlotsOK
    <3>3. \A j \in Waiting : used'[j] <=> \E u \in Viewers : HasSlot(u)' /\ slot'[u] = j
      BY <2>2, <2>4, <2>5, <3>1, <3>2 DEF SlotInv, SlotsApart
    <3>4. \A x, u \in Viewers : HasSlot(x)' /\ HasSlot(u)' /\ slot'[x] = slot'[u] => x = u
      BY <2>2, <2>4, <2>5, <3>1 DEF SlotInv, SlotsApart
    <3> QED
      BY <2>4, <2>5, <3>3, <3>4 DEF SlotInv, SlotsApart
  <2>7. NoLostWakeup'
    BY <1>1, <2>1, <2>2 DEF NoLostWakeup, pub, ViewerOK, SlotsOK
  <2> QED
    BY <1>4, <1>5, <1>6, <2>3, <2>6, <2>7
<1>9. CASE WaitDrain(v) \/ WaitRecheck(v) \/ WaitWoken(v) \/ WaitTimeout(v)
  <2>1. /\ UNCHANGED <<used, slot>> /\ HasSlot(v) /\ p \in {"recheck", "block", "leave"}
        /\ p = "block" => seq = seen[v]
        /\ sem' = sem \/ sem' = [sem EXCEPT ![slot[v]] = FALSE]
    BY <1>2, <1>9 DEF WaitDrain, WaitRecheck, WaitWoken, WaitTimeout, Go, slots, HasSlot,
       ViewerOK
  <2>2. slot[v] \in Waiting
    BY <2>1 DEF SlotInv
  <2>3. SlotsOK'
    BY <2>1, <2>2 DEF SlotsOK
  <2>4. \A u \in Viewers : HasSlot(u)' <=> HasSlot(u)
    BY <1>2, <2>1 DEF HasSlot, ViewerOK
  <2>5. SlotInv'
    BY <2>1, <2>4 DEF SlotInv, SlotsApart
  <2>6. NoLostWakeup'
    <3> SUFFICES ASSUME NEW u \in Viewers, pc'[u] = "block", front # NoFrame,
                        front.seq # seen[u]
                 PROVE  sem'[slot[u]] \/ (at > 0 /\ at <= slot[u])
      BY <1>1, <2>1 DEF NoLostWakeup, pub
    <3>1. u # v /\ pc[u] = "block"
      BY <1>2, <2>1 DEF ViewerOK, FrontInv
    <3>2. slot[u] # slot[v]
      BY <2>1, <3>1 DEF SlotInv, SlotsApart, HasSlot
    <3>3. slot[u] \in Waiting
      BY <3>1 DEF SlotInv, HasSlot
    <3>4. sem'[slot[u]] = sem[slot[u]]
      BY <2>1, <2>2, <3>2, <3>3 DEF SlotsOK
    <3> QED
      BY <3>1, <3>4 DEF NoLostWakeup
  <2> QED
    BY <1>4, <1>5, <1>6, <2>3, <2>5, <2>6
<1>10. CASE WaitLeave(v)
  <2>1. /\ UNCHANGED sem /\ HasSlot(v) /\ p \in {"got", "call"}
        /\ used' = [used EXCEPT ![slot[v]] = FALSE]
        /\ slot' = [slot EXCEPT ![v] = 0]
    BY <1>2, <1>10 DEF WaitLeave, Go, HasSlot, ViewerOK
  <2>2. slot[v] \in Waiting
    BY <2>1 DEF SlotInv
  <2>3. SlotsOK'
    BY <2>1, <2>2, DeliveryAssumption DEF SlotsOK
  <2>4. \A u \in Viewers : u # v => (HasSlot(u)' <=> HasSlot(u)) /\ slot'[u] = slot[u]
    BY <1>2, <2>1 DEF HasSlot, ViewerOK, SlotsOK
  <2>5. ~HasSlot(v)'
    BY <1>2, <2>1 DEF HasSlot, ViewerOK
  <2>6. SlotInv'
    <3>1. \A u \in Viewers : u # v /\ HasSlot(u) => slot[u] # slot[v]
      BY <2>1 DEF SlotInv, SlotsApart
    <3>2. \A j \in Waiting : used'[j] <=> (j # slot[v] /\ used[j])
      BY <2>1, <2>2 DEF SlotsOK
    <3>3. \A j \in Waiting : used'[j] <=> \E u \in Viewers : HasSlot(u)' /\ slot'[u] = j
      BY <2>1, <2>4, <2>5, <3>1, <3>2 DEF SlotInv, SlotsApart
    <3> QED
      BY <2>4, <2>5, <3>3 DEF SlotInv, SlotsApart
  <2>7. NoLostWakeup'
    BY <1>1, <1>2, <2>1 DEF NoLostWakeup, pub, ViewerOK, SlotsOK
  <2> QED
    BY <1>4, <1>5, <1>6, <2>3, <2>6, <2>7
<1> QED
  BY <1>7, <1>8, <1>9, <1>10 DEF Wait

(* tx_task: nothing but the session's own state moves. *)
LEMMA SessionDelivery ==
    ASSUME DeliveryInv, NEW v \in Viewers, Session(v)
    PROVE  DeliveryInv'
<1> USE DEF DeliveryInv, TypeOK
<1>1. UNCHANGED <<pub, slots, slot>>
  BY DEF Session, SessionStart, SessionEnd, Acquire, AcquireFails, Resume, Send, SendNothing
<1>2. PICK p \in {"idle", "call", "nap", "send"} : pc' = [pc EXCEPT ![v] = p]
  BY DEF Session, SessionStart, SessionEnd, Acquire, AcquireFails, Resume, Send, SendNothing,
     Go
<1>3. ~HasSlot(v)
  BY DEF Session, SessionStart, SessionEnd, Acquire, AcquireFails, Resume, Send, SendNothing,
     Go, HasSlot
<1>4. PubOK' /\ FrontInv' /\ SlotsOK'
  BY <1>1 DEF pub, slots, PubOK, FrontInv, SlotsOK
<1>5. SlotInv'
  <2>1. \A u \in Viewers : HasSlot(u)' <=> HasSlot(u)
    BY <1>2, <1>3 DEF HasSlot, ViewerOK
  <2> QED
    BY <1>1, <2>1 DEF SlotInv, SlotsApart, slots
<1>6. /\ pc' \in [Viewers -> {"idle", "call", "claim", "poll", "drain", "recheck",
                             "block", "leave", "got", "nap", "send"}]
      /\ pc'[v] = p /\ \A u \in Viewers : u # v => pc'[u] = pc[u]
  BY <1>2 DEF ViewerOK
<1>7. ASSUME NEW n \in Nat, seen' = [seen EXCEPT ![v] = n] PROVE NoLostWakeup'
  <2>1. ASSUME NEW u \in Viewers, pc'[u] = "block"
        PROVE  u # v /\ pc[u] = "block" /\ seen'[u] = seen[u]
    BY <1>6, <1>7, <2>1 DEF ViewerOK
  <2> QED
    BY <1>1, <2>1 DEF NoLostWakeup, pub, slots
<1>8. /\ seen[v] \in Nat /\ seq \in Nat /\ sent[v] \in Nat /\ frame[v] \in Frames
      /\ front \in Frames /\ NoFrame \in Frames
  BY DEF ViewerOK, PubOK, Frames, NoFrame
<1>9. needKey[v] \in BOOLEAN /\ passed[v] \in BOOLEAN /\ frame[v].key \in BOOLEAN
  BY <1>8, Zenon DEF ViewerOK, Frames
<1>10. /\ seen' = [seen EXCEPT ![v] = seen'[v]] /\ frame' = [frame EXCEPT ![v] = frame'[v]]
       /\ needKey' = [needKey EXCEPT ![v] = needKey'[v]]
       /\ sent' = [sent EXCEPT ![v] = sent'[v]] /\ passed' = [passed EXCEPT ![v] = passed'[v]]
       /\ seen'[v] \in Nat /\ frame'[v] \in Frames /\ needKey'[v] \in BOOLEAN
       /\ sent'[v] \in Nat /\ passed'[v] \in BOOLEAN
  <2>1. CASE SessionStart(v)
    BY <2>1, <1>8, <1>9 DEF SessionStart, ViewerOK
  <2>2. CASE SessionEnd(v) \/ AcquireFails(v)
    BY <2>2, <1>8, <1>9 DEF SessionEnd, AcquireFails, ViewerOK
  <2>3. CASE Acquire(v)
    <3>1. CASE front.codec = "h264"
      BY <2>3, <3>1, <1>8, <1>9 DEF Acquire, ViewerOK
    <3>2. CASE front.codec # "h264"
      BY <2>3, <3>2, <1>8, <1>9 DEF Acquire, ViewerOK
    <3> QED
      BY <3>1, <3>2
  <2>4. CASE Resume(v)
    BY <2>4, <1>8, <1>9 DEF Resume, ViewerOK
  <2>5. CASE Send(v)
    BY <2>5, <1>8, <1>9 DEF Send, ViewerOK, Frames
  <2>6. CASE SendNothing(v)
    BY <2>6, <1>8, <1>9 DEF SendNothing, ViewerOK
  <2> QED
    BY <2>1, <2>2, <2>3, <2>4, <2>5, <2>6 DEF Session
<1>11. ViewerOK' /\ NoLostWakeup'
  <2>1. /\ seen' \in [Viewers -> Nat] /\ frame' \in [Viewers -> Frames]
        /\ sent' \in [Viewers -> Nat]
    BY <1>10 DEF ViewerOK
  <2>2. needKey' \in [Viewers -> BOOLEAN] /\ passed' \in [Viewers -> BOOLEAN]
    BY <1>10 DEF ViewerOK
  <2> QED
    BY <1>6, <1>7, <1>10, <2>1, <2>2 DEF ViewerOK
<1>12. Seen(v) /\ Resting(v) /\ Sending(v)
  BY DEF ChainInv
<1>13. Seen(v)' /\ Resting(v)' /\ Sending(v)'
  <2> USE <1>1, <1>6, <1>8, <1>12 DEF pub
  <2>1. CASE SessionStart(v)
    <3>1. pc'[v] = "call" /\ seen'[v] = seq /\ needKey'[v]
      BY <2>1 DEF SessionStart, Go, ViewerOK
    <3> QED
      BY <3>1 DEF Seen, Resting, Sending
  <2>2. CASE SessionEnd(v)
    <3>1. pc'[v] = "idle" /\ UNCHANGED seen
      BY <2>2 DEF SessionEnd, Go, ViewerOK
    <3> QED
      BY <3>1 DEF Seen, Resting, Sending
  <2>3. CASE AcquireFails(v)
    <3>1. pc'[v] = "nap" /\ pc[v] = "got" /\ UNCHANGED <<seen, frame, needKey, sent, passed>>
      BY <2>3 DEF AcquireFails, Go, ViewerOK
    <3> QED
      BY <3>1 DEF Seen, Resting, Sending, Away, Fits
  <2>4. CASE Acquire(v)
    <3>1. /\ pc[v] = "got" /\ seen'[v] = seq /\ UNCHANGED <<sent, passed>>
          /\ front # NoFrame /\ front.seq = seq /\ front.codec = codec /\ seen[v] < seq
      BY <2>4 DEF Acquire, Go, ViewerOK, FrontInv, Seen
    <3>2. CASE codec = "h264"
      <4>1. /\ pc'[v] = "send" /\ frame'[v] = front
            /\ needKey'[v] = (needKey[v] \/ (seen[v] # 0 /\ seq - seen[v] > 1))
        BY <2>4, <3>1, <3>2 DEF Acquire, Go, ViewerOK
      <4>2. Seen(v)' /\ Resting(v)'
        BY <3>1, <4>1 DEF Seen, Resting
      <4>3. ASSUME ~needKey'[v], ~passed[v], ~front.key PROVE front.ref = sent[v]
        <5>1. ~needKey[v]
          BY <4>1, <4>3
        <5>2. seen[v] > 0
          BY <3>1, <5>1 DEF Seen
        <5>3. ~(seen[v] # 0 /\ seq - seen[v] > 1)
          BY <4>1, <4>3
        <5>4. seq = seen[v] + 1
          BY <3>1, <5>2, <5>3
        <5> QED
          BY <3>1, <3>2, <4>3, <5>1, <5>4 DEF Resting, Fits
      <4>4. Sending(v)'
        <5>1. reference = seq
          BY <3>1, <3>2 DEF FrontInv
        <5>2. Fits(v, seen[v])'
          BY <3>1 DEF Fits
        <5> QED
          BY <3>1, <4>1, <4>3, <5>1, <5>2 DEF Sending
      <4> QED
        BY <4>2, <4>4
    <3>3. CASE codec # "h264"
      <4>1. pc'[v] = "call" /\ UNCHANGED needKey
        BY <2>4, <3>1, <3>3 DEF Acquire, Go, ViewerOK
      <4> QED
        BY <3>1, <3>3, <4>1 DEF Seen, Resting, Sending, Away, Fits
    <3> QED
      BY <3>2, <3>3
  <2>5. CASE Resume(v)
    <3>1. /\ pc[v] = "nap" /\ pc'[v] = "call" /\ seen'[v] = seq /\ UNCHANGED <<needKey, sent>>
          /\ ~passed'[v] => reference = sent[v]
      BY <2>5 DEF Resume, Go, ViewerOK
    <3>2. front # NoFrame => front.seq = seq
      BY DEF FrontInv
    <3> QED
      BY <3>1, <3>2 DEF Seen, Resting, Sending, Away, Fits
  <2>6. CASE Send(v)
    <3>1. /\ pc[v] = "send" /\ pc'[v] = "call" /\ sent'[v] = frame[v].seq
          /\ UNCHANGED seen
      BY <2>6 DEF Send, Go, ViewerOK
    <3>2. sent'[v] = seen[v] /\ 0 < seen[v] /\ seen[v] <= reference /\ Fits(v, seen[v])
      BY <3>1 DEF Sending
    <3>3. Seen(v)' /\ Sending(v)'
      BY <3>1, <3>2 DEF Seen, Sending
    <3>4. reference \in Nat
      BY DEF PubOK
    <3>5. Away(v)' /\ Fits(v, sent[v])'
      BY <3>1, <3>2, <3>4 DEF Away, Fits
    <3> QED
      BY <3>3, <3>5 DEF Resting
  <2>7. CASE SendNothing(v)
    <3>1. pc[v] = "send" /\ pc'[v] = "call" /\ needKey'[v] /\ UNCHANGED seen
      BY <2>7 DEF SendNothing, Go, ViewerOK
    <3> QED
      BY <3>1 DEF Seen, Resting, Sending
  <2> QED
    BY <2>1, <2>2, <2>3, <2>4, <2>5, <2>6, <2>7 DEF Session
<1>14. ChainInv'
  BY <1>1, <1>2, <1>10, <1>13, OthersKept
<1> QED
  BY <1>4, <1>5, <1>11, <1>14

(* The inductive invariant. *)
THEOREM DeliveryInvariant == Spec => []DeliveryInv
<1>1. DeliveryInv /\ [Next]_vars => DeliveryInv'
  <2> SUFFICES ASSUME DeliveryInv, [Next]_vars PROVE DeliveryInv'
    OBVIOUS
  <2>1. CASE UNCHANGED vars
    <3> USE <2>1 DEF vars, pub, slots, viewer, DeliveryInv, TypeOK
    <3>1. TypeOK'
      BY DEF PubOK, SlotsOK, ViewerOK
    <3>2. FrontInv' /\ SlotInv' /\ NoLostWakeup'
      BY DEF FrontInv, SlotInv, SlotsApart, HasSlot, NoLostWakeup
    <3>3. ChainInv'
      BY DEF ChainInv, Seen, Resting, Sending, Away, Fits
    <3> QED
      BY <3>1, <3>2, <3>3
  <2>2. CASE Writer
    BY <2>2, WriterDelivery
  <2>3. CASE \E v \in Viewers : Wait(v) \/ Session(v)
    BY <2>3, WaitDelivery, SessionDelivery
  <2> QED
    BY <2>1, <2>2, <2>3 DEF Next
<1> QED
  BY <1>1, InitDelivery, PTL DEF Spec

(* Type correctness. *)
THEOREM DeliveryTypeCorrect == Spec => []TypeOK
<1>1. DeliveryInv => TypeOK
  BY DEF DeliveryInv
<1> QED
  BY <1>1, DeliveryInvariant, PTL

(* A waiter slot has one owner and is in use exactly while it has one,     *)
(* with any number of viewers and slots.                                   *)
THEOREM SlotsStayApart == Spec => []SlotsApart
<1>1. DeliveryInv => SlotsApart
  BY DEF DeliveryInv, SlotInv
<1> QED
  BY <1>1, DeliveryInvariant, PTL

(* Nobody sleeps through a frame. *)
THEOREM NobodySleepsOn == Spec => []NoLostWakeup
<1>1. DeliveryInv => NoLostWakeup
  BY DEF DeliveryInv
<1> QED
  BY <1>1, DeliveryInvariant, PTL

(* The gap test keeps the reference chain of every session, unless a frame *)
(* went by in the tick after a failed acquire.                             *)
THEOREM ChainStaysKept == Spec => []ChainKept
<1>1. DeliveryInv => ChainKept
  <2> SUFFICES ASSUME DeliveryInv, NEW v \in Viewers, ~passed[v], pc[v] = "send",
                      Sendable(v), ~frame[v].key
               PROVE  frame[v].ref = sent[v]
    BY DEF ChainKept, InChain
  <2>1. Sending(v)
    BY DEF DeliveryInv, ChainInv
  <2>2. ~needKey[v]
    BY DEF Sendable
  <2> QED
    BY <2>1, <2>2 DEF Sending
<1> QED
  BY <1>1, DeliveryInvariant, PTL
=============================================================================
