-------------------------- MODULE FrameStoreProofs --------------------------
(***************************************************************************)
(* Proofs about FrameStore, for every finite set of readers, any number of *)
(* slots, and with or without a separate encode task.                      *)
(***************************************************************************)
EXTENDS FrameStore, FiniteSetTheorems, TLAPS

(* The loop is between two switches, or waiting to begin one. *)
Live == pc \in {"run", "write", "convert", "quiesce"}

Holders(i) == {r \in Readers : held[r] # Nothing /\ held[r].slot = i}

(* The store belongs to the running codec until it is emptied, and whoever *)
(* holds a frame holds one of that codec's.                                *)
StorePart ==
    /\ \A i \in Slots : buf[i] \in {payload, "none"}
    /\ payload = IF Live THEN codec ELSE "none"
    /\ \A r \in Readers : held[r] # Nothing =>
         /\ held[r].slot \in Slots
         /\ held[r].data = payload /\ held[r].payload = payload
         /\ payload # "none"

(* The running codec has its buffers, and the loop writes a slot that      *)
(* nobody holds and nobody can acquire.                                    *)
LoopPart ==
    /\ pc \in {"write", "convert", "quiesce"} => codec # "none"
    /\ pc = "quiesce" => from = codec
    /\ payload # "none" => payload \in mem
    /\ payload = "mjpeg" => jpeg
    /\ pc \in {"close", "join"} /\ from = "h264" => "h264" \in mem
    /\ pc = "convert" => yuv \in Yuv
    /\ pc = "write" => OnLoop /\ wslot \in Slots /\ ref[wslot] = 0 /\ wslot # front

(* The encode task is there only while H.264's buffers are. *)
TaskPart ==
    /\ enc # "none" =>
         /\ Pipelined
         /\ IF Live THEN codec = "h264" ELSE pc \in {"close", "join"} /\ from = "h264"
    /\ enc \in {"job", "write", "return"} => ejob \in Yuv
    /\ enc = "write" => eslot \in Slots /\ ref[eslot] = 0 /\ eslot # front

StoreInv == TypeOK /\ RefsCounted /\ StorePart /\ LoopPart /\ TaskPart

(* Whoever holds a slot is counted in it. *)
LEMMA HeldCounted ==
    ASSUME TypeOK, RefsCounted, NEW r \in Readers, held[r] # Nothing,
           held[r].slot \in Slots
    PROVE  ref[held[r].slot] > 0
<1> DEFINE i == held[r].slot
<1>1. Holders(i) \subseteq Readers /\ r \in Holders(i)
  BY DEF Holders
<1>2. IsFiniteSet(Holders(i))
  BY <1>1, FS_Subset, StoreAssumption
<1>3. Cardinality(Holders(i)) # 0
  BY <1>1, <1>2, FS_EmptySet
<1>4. ref[i] = Cardinality(Holders(i)) /\ ref[i] \in Nat
  BY DEF RefsCounted, Holders, TypeOK, StoreOK
<1> QED
  BY <1>3, <1>4

LEMMA InitStore == Init => StoreInv
<1> SUFFICES ASSUME Init PROVE StoreInv
  OBVIOUS
<1>1. StoreOK
  BY StoreAssumption DEF Init, StoreOK, Slots, None
<1>2. CodecsOK /\ HeldOK
  BY Zenon DEF Init, CodecsOK, HeldOK, Nothing, None
<1>3. LoopOK
  BY DEF Init, LoopOK, Codecs
<1>6. TaskOK
  <2>1. broken \in BOOLEAN
    BY DEF Init
  <2> QED
    BY <2>1 DEF Init, TaskOK
<1>4. RefsCounted
  <2>1. \A i \in Slots : Holders(i) = {}
    BY DEF Holders, Init
  <2> QED
    BY <2>1, FS_EmptySet DEF Init, RefsCounted, Holders
<1>5. StorePart /\ LoopPart /\ TaskPart
  BY DEF Init, StorePart, LoopPart, TaskPart, Live
<1> QED
  BY <1>1, <1>2, <1>3, <1>4, <1>5, <1>6 DEF StoreInv, TypeOK

(* A step that touches neither the references nor the readers. *)
LEMMA RefsKept == ASSUME RefsCounted, UNCHANGED <<ref, held>> PROVE RefsCounted'
BY DEF RefsCounted

(* The readers. *)
LEMMA ReaderStore ==
    ASSUME StoreInv, NEW r \in Readers, Acquire(r) \/ Release(r)
    PROVE  StoreInv'
<1> USE DEF StoreInv, TypeOK
<1>1. CASE Acquire(r)
  <2>1. front \in Slots
    BY <1>1 DEF Acquire, StoreOK, None
  <2> DEFINE new == [slot |-> front, data |-> buf[front], payload |-> payload]
  <2>2. /\ held' = [held EXCEPT ![r] = new]
        /\ ref' = [ref EXCEPT ![front] = @ + 1]
        /\ held[r] = Nothing /\ new # Nothing
    BY <1>1, <2>1 DEF Acquire, Nothing, None, Slots
  <2>3. StoreOK' /\ HeldOK'
    BY <1>1, <2>1, <2>2 DEF Acquire, StoreOK, HeldOK
  <2>4. CodecsOK' /\ LoopOK' /\ TaskOK'
    BY <1>1 DEF Acquire, codecs, loop, task, queues, CodecsOK, LoopOK, TaskOK
  <2>5. RefsCounted'
    <3> SUFFICES ASSUME NEW i \in Slots PROVE ref'[i] = Cardinality(Holders(i)')
      BY DEF RefsCounted, Holders
    <3>1. ref[i] = Cardinality(Holders(i)) /\ ref[i] \in Nat
      BY DEF RefsCounted, Holders, StoreOK
    <3>2. Holders(i) \subseteq Readers /\ IsFiniteSet(Holders(i))
      BY FS_Subset, StoreAssumption DEF Holders
    <3>3. CASE i = front
      <4>1. Holders(i)' = Holders(i) \cup {r} /\ r \notin Holders(i)
        BY <2>2, <3>3 DEF Holders, HeldOK
      <4>2. Cardinality(Holders(i)') = Cardinality(Holders(i)) + 1
        BY <3>2, <4>1, FS_AddElement
      <4> QED
        BY <2>1, <2>2, <3>1, <3>3, <4>2 DEF StoreOK
    <3>4. CASE i # front
      <4>1. Holders(i)' = Holders(i)
        BY <2>2, <3>4 DEF Holders, HeldOK
      <4> QED
        BY <2>2, <3>1, <3>4, <4>1 DEF StoreOK
    <3> QED
      BY <3>3, <3>4
  <2>6. StorePart'
    BY <1>1, <2>1, <2>2 DEF Acquire, loop, StorePart, Live, HeldOK
  <2>7. LoopPart' /\ TaskPart'
    BY <1>1, <2>1, <2>2 DEF Acquire, codecs, loop, task, LoopPart, TaskPart, OnLoop, Live,
       StoreOK
  <2> QED
    BY <2>3, <2>4, <2>5, <2>6, <2>7
<1>2. CASE Release(r)
  <2> DEFINE k == held[r].slot
  <2>1. k \in Slots /\ ref[k] > 0
    BY <1>2, HeldCounted DEF Release, StorePart
  <2>2. /\ held' = [held EXCEPT ![r] = Nothing]
        /\ ref' = [ref EXCEPT ![k] = @ - 1]
        /\ held[r] # Nothing
    BY <1>2, <2>1 DEF Release, StoreOK
  <2>3. StoreOK' /\ HeldOK'
    <3>1. ref' \in [Slots -> Nat]
      BY <2>1, <2>2 DEF StoreOK
    <3>2. HeldOK'
      BY <2>2 DEF HeldOK, Nothing
    <3> QED
      BY <1>2, <3>1, <3>2 DEF Release, StoreOK
  <2>4. CodecsOK' /\ LoopOK' /\ TaskOK'
    BY <1>2 DEF Release, codecs, loop, task, queues, CodecsOK, LoopOK, TaskOK
  <2>5. RefsCounted'
    <3> SUFFICES ASSUME NEW i \in Slots PROVE ref'[i] = Cardinality(Holders(i)')
      BY DEF RefsCounted, Holders
    <3>1. ref[i] = Cardinality(Holders(i)) /\ ref[i] \in Nat
      BY DEF RefsCounted, Holders, StoreOK
    <3>2. Holders(i) \subseteq Readers /\ IsFiniteSet(Holders(i))
      BY FS_Subset, StoreAssumption DEF Holders
    <3>3. CASE i = k
      <4>1. Holders(i)' = Holders(i) \ {r} /\ r \in Holders(i)
        BY <2>2, <3>3 DEF Holders, HeldOK
      <4> QED
        BY <2>2, <3>1, <3>2, <3>3, <4>1, FS_RemoveElement DEF StoreOK
    <3>4. CASE i # k
      <4>1. Holders(i)' = Holders(i)
        BY <2>2, <3>4 DEF Holders, HeldOK
      <4> QED
        BY <2>2, <3>1, <3>4, <4>1 DEF StoreOK
    <3> QED
      BY <3>3, <3>4
  <2>6. StorePart'
    BY <1>2, <2>2 DEF Release, loop, StorePart, Live, HeldOK
  <2>7. LoopPart' /\ TaskPart'
    BY <1>2, <2>1, <2>2 DEF Release, codecs, loop, task, LoopPart, TaskPart, OnLoop, Live,
       StoreOK
  <2> QED
    BY <2>3, <2>4, <2>5, <2>6, <2>7
<1> QED
  BY <1>1, <1>2

(* The encode task. *)
LEMMA TaskStore ==
    ASSUME StoreInv, EncTask
    PROVE  StoreInv'
<1> USE DEF StoreInv, TypeOK
<1>1. UNCHANGED <<slots, buf, ref, payload, held, codecs, loop>>
  BY DEF EncTask, JobTake, JobBegin, JobSkip, JobPublish, JobFail, JobReturn, Publish, store
<1>2. HeldOK' /\ CodecsOK' /\ LoopOK' /\ RefsCounted'
  BY <1>1, RefsKept DEF HeldOK, CodecsOK, LoopOK, codecs, loop
<1>3. StorePart'
  BY <1>1 DEF StorePart, Live, loop
<1>4. CASE UNCHANGED <<len, front>>
  <2>1. StoreOK' /\ LoopPart'
    BY <1>1, <1>4 DEF StoreOK, LoopPart, OnLoop, codecs, loop
  <2>2. CASE JobTake
    <3>1. Head(jobs) \in Yuv \cup {Sentinel}
      BY <2>2 DEF JobTake, TaskOK
    <3>2. TaskOK'
      BY <2>2, <3>1 DEF JobTake, TaskOK, Sentinel
    <3>3. TaskPart'
      BY <1>1, <1>4, <2>2, <3>1 DEF JobTake, TaskPart, Live, loop, Sentinel, None, Yuv
    <3> QED
      BY <1>2, <1>3, <2>1, <3>2, <3>3
  <2>3. CASE JobBegin
    <3>1. TaskOK'
      BY <2>3 DEF JobBegin, TaskOK, queues
    <3>2. TaskPart'
      BY <1>1, <1>4, <2>3 DEF JobBegin, BeginWrite, Writable, TaskPart, Live, loop
    <3> QED
      BY <1>2, <1>3, <2>1, <3>1, <3>2
  <2>4. CASE JobSkip
    <3>1. broken' \in BOOLEAN
      BY <2>4 DEF JobSkip, TaskOK
    <3>2. TaskOK'
      BY <2>4, <3>1 DEF JobSkip, TaskOK, queues
    <3>3. TaskPart'
      BY <1>1, <1>4, <2>4 DEF JobSkip, TaskPart, Live, loop
    <3> QED
      BY <1>2, <1>3, <2>1, <3>2, <3>3
  <2>5. CASE JobFail
    <3>1. TaskOK' /\ TaskPart'
      BY <1>1, <1>4, <2>5 DEF JobFail, TaskOK, queues, TaskPart, Live, loop
    <3> QED
      BY <1>2, <1>3, <2>1, <3>1
  <2>6. CASE JobReturn
    <3>1. TaskOK' /\ TaskPart'
      BY <1>1, <1>4, <2>6 DEF JobReturn, TaskOK, TaskPart, Live, loop
    <3> QED
      BY <1>2, <1>3, <2>1, <3>1
  <2>7. CASE JobPublish
    BY <1>4, <2>7 DEF JobPublish, Publish, TaskPart
  <2> QED
    BY <2>2, <2>3, <2>4, <2>5, <2>6, <2>7 DEF EncTask
<1>5. CASE JobPublish
  <2>1. eslot \in Slots
    BY <1>5 DEF JobPublish, TaskPart
  <2>2. StoreOK'
    BY <1>1, <1>5, <2>1 DEF JobPublish, Publish, StoreOK
  <2>3. LoopPart'
    BY <1>1, <1>5 DEF JobPublish, LoopPart, TaskPart, OnLoop, Live, codecs, loop
  <2>4. TaskOK' /\ TaskPart'
    BY <1>1, <1>5 DEF JobPublish, TaskOK, queues, TaskPart, Live, loop
  <2> QED
    BY <1>2, <1>3, <2>2, <2>3, <2>4
<1> QED
  BY <1>4, <1>5 DEF EncTask, JobTake, JobBegin, JobSkip, JobFail, JobReturn, store

(* The loop's frames. *)
LEMMA FrameStep ==
    ASSUME StoreInv,
           \/ EncodeBegin \/ EncodePublish \/ EncodeDrop
           \/ ConvertBegin \/ ConvertSend \/ ConvertDrop
    PROVE  StoreInv'
<1> USE DEF StoreInv, TypeOK
<1>1. UNCHANGED <<slots, buf, ref, payload, held, codecs, task, codec, from, to>>
  BY DEF EncodeBegin, EncodePublish, EncodeDrop, ConvertBegin, ConvertSend, ConvertDrop,
     Publish, store
<1>2. HeldOK' /\ CodecsOK' /\ RefsCounted'
  BY <1>1, RefsKept DEF HeldOK, CodecsOK, codecs
<1>3. Live /\ Live'
  BY DEF EncodeBegin, EncodePublish, EncodeDrop, ConvertBegin, ConvertSend, ConvertDrop, Live
<1>4. StorePart'
  BY <1>1, <1>3 DEF StorePart
<1>5. CASE EncodeBegin
  <2>1. StoreOK' /\ TaskOK' /\ LoopOK'
    BY <1>5 DEF EncodeBegin, store, task, queues, StoreOK, TaskOK, LoopOK
  <2>2. LoopPart'
    BY <1>1, <1>5 DEF EncodeBegin, BeginWrite, Writable, LoopPart, OnLoop, codecs, store
  <2>3. TaskPart'
    BY <1>1, <1>3, <1>5 DEF EncodeBegin, TaskPart, task, store
  <2> QED
    BY <1>2, <1>4, <2>1, <2>2, <2>3
<1>6. CASE EncodePublish
  <2>1. wslot \in Slots /\ enc = "none"
    BY <1>3, <1>6 DEF EncodePublish, LoopPart, TaskPart, OnLoop
  <2>2. StoreOK' /\ TaskOK' /\ LoopOK'
    BY <1>6, <2>1 DEF EncodePublish, Publish, task, queues, StoreOK, TaskOK, LoopOK
  <2>3. LoopPart'
    BY <1>1, <1>6 DEF EncodePublish, LoopPart, codecs
  <2>4. TaskPart'
    BY <2>1, <1>6 DEF EncodePublish, TaskPart, task
  <2> QED
    BY <1>2, <1>4, <2>2, <2>3, <2>4
<1>7. CASE EncodeDrop
  <2>1. StoreOK' /\ TaskOK' /\ LoopOK'
    BY <1>7 DEF EncodeDrop, store, task, queues, StoreOK, TaskOK, LoopOK
  <2>2. LoopPart' /\ TaskPart'
    BY <1>1, <1>3, <1>7 DEF EncodeDrop, LoopPart, TaskPart, codecs, task, store
  <2> QED
    BY <1>2, <1>4, <2>1, <2>2
<1>8. CASE ConvertBegin
  <2>1. Head(freeYuv) \in Yuv /\ Tail(freeYuv) \in Seq(Yuv)
    BY <1>8 DEF ConvertBegin, TaskOK
  <2>2. StoreOK' /\ TaskOK' /\ LoopOK'
    BY <1>8, <2>1 DEF ConvertBegin, store, task, StoreOK, TaskOK, LoopOK
  <2>3. LoopPart' /\ TaskPart'
    BY <1>1, <1>3, <1>8, <2>1 DEF ConvertBegin, LoopPart, TaskPart, codecs, task, store
  <2> QED
    BY <1>2, <1>4, <2>2, <2>3
<1>9. CASE ConvertSend \/ ConvertDrop
  <2>1. yuv \in Yuv
    BY <1>9 DEF ConvertSend, ConvertDrop, LoopPart
  <2>2. jobs' \in Seq(Yuv \cup {Sentinel}) /\ freeYuv' \in Seq(Yuv)
    BY <1>9, <2>1 DEF ConvertSend, ConvertDrop, TaskOK
  <2>3. StoreOK' /\ TaskOK' /\ LoopOK'
    BY <1>9, <2>2 DEF ConvertSend, ConvertDrop, store, task, StoreOK, TaskOK, LoopOK
  <2>4. LoopPart' /\ TaskPart'
    BY <1>1, <1>3, <1>9 DEF ConvertSend, ConvertDrop, LoopPart, TaskPart, codecs, task, store
  <2> QED
    BY <1>2, <1>4, <2>3, <2>4
<1> QED
  BY <1>5, <1>6, <1>7, <1>8, <1>9

(* The switch up to the point where the old codec is closed; the buffers   *)
(* given away.                                                             *)
LEMMA CloseStep ==
    ASSUME StoreInv,
           \/ SwitchBegin \/ EncoderFallback \/ Quiesce \/ QuiesceTimeout
           \/ CloseJpeg \/ CloseSend \/ CloseH264 \/ ReleaseIdle
    PROVE  StoreInv'
<1> USE DEF StoreInv, TypeOK
<1>1. UNCHANGED <<ref, held, codec, wslot, yuv, eslot, broken>>
  BY DEF SwitchBegin, EncoderFallback, Quiesce, QuiesceTimeout, CloseJpeg, CloseSend,
     CloseH264, ReleaseIdle, store, task, loop
<1>2. HeldOK' /\ RefsCounted'
  BY <1>1, RefsKept DEF HeldOK
<1>3. CASE SwitchBegin
  <2>1. to' \in Codecs /\ to' # codec
    BY <1>3 DEF SwitchBegin, Wanted, Codecs
  <2>2. StoreOK' /\ CodecsOK' /\ TaskOK' /\ LoopOK'
    BY <1>3, <2>1 DEF SwitchBegin, store, codecs, task, queues, StoreOK, CodecsOK, TaskOK,
       LoopOK
  <2>3. StorePart'
    BY <1>1, <1>3 DEF SwitchBegin, store, StorePart, Live
  <2>4. LoopPart' /\ TaskPart'
    BY <1>1, <1>3 DEF SwitchBegin, store, codecs, task, LoopPart, TaskPart, StorePart, Live
  <2> QED
    BY <1>2, <2>2, <2>3, <2>4
<1>4. CASE EncoderFallback
  <2>1. StoreOK' /\ TaskOK' /\ LoopOK'
    BY <1>4 DEF EncoderFallback, store, task, queues, StoreOK, TaskOK, LoopOK, Codecs
  <2>2. CodecsOK'
    BY <1>4, Zenon DEF EncoderFallback, CodecsOK
  <2>3. StorePart'
    BY <1>1, <1>4 DEF EncoderFallback, store, StorePart, Live
  <2>4. LoopPart' /\ TaskPart'
    BY <1>1, <1>4 DEF EncoderFallback, store, task, LoopPart, TaskPart, StorePart, Live
  <2> QED
    BY <1>2, <2>1, <2>2, <2>3, <2>4
<1>5. CASE Quiesce
  <2>1. \A r \in Readers : held[r] = Nothing
    BY <1>5, HeldCounted DEF Quiesce, StorePart, StoreOK
  <2>2. StoreOK'
    BY <1>1, <1>5, StoreAssumption DEF Quiesce, StoreOK
  <2>3. CodecsOK' /\ TaskOK' /\ LoopOK'
    BY <1>5 DEF Quiesce, codecs, task, queues, CodecsOK, TaskOK, LoopOK
  <2>4. StorePart'
    BY <1>1, <1>5, <2>1 DEF Quiesce, StorePart, Live
  <2>5. LoopPart' /\ TaskPart'
    BY <1>1, <1>5 DEF Quiesce, codecs, task, LoopPart, TaskPart, StorePart, Live, None, Slots
  <2> QED
    BY <1>2, <2>2, <2>3, <2>4, <2>5
<1>6. CASE QuiesceTimeout
  <2>1. StoreOK' /\ TaskOK' /\ LoopOK'
    BY <1>6 DEF QuiesceTimeout, store, task, queues, StoreOK, TaskOK, LoopOK
  <2>2. CodecsOK'
    BY <1>6, Zenon DEF QuiesceTimeout, CodecsOK
  <2>3. StorePart'
    BY <1>1, <1>6 DEF QuiesceTimeout, store, StorePart, Live
  <2>4. LoopPart' /\ TaskPart'
    BY <1>1, <1>6 DEF QuiesceTimeout, store, task, LoopPart, TaskPart, StorePart, Live
  <2> QED
    BY <1>2, <2>1, <2>2, <2>3, <2>4
<1>7. CASE CloseJpeg
  <2>1. StoreOK' /\ TaskOK' /\ LoopOK'
    BY <1>7 DEF CloseJpeg, store, task, queues, StoreOK, TaskOK, LoopOK
  <2>2. CodecsOK'
    BY <1>7, Zenon DEF CloseJpeg, CodecsOK
  <2>3. StorePart'
    BY <1>1, <1>7 DEF CloseJpeg, store, StorePart, Live
  <2>4. LoopPart' /\ TaskPart'
    BY <1>1, <1>7 DEF CloseJpeg, store, task, LoopPart, TaskPart, StorePart, Live
  <2> QED
    BY <1>2, <2>1, <2>2, <2>3, <2>4
<1>8. CASE CloseSend
  <2>1. StoreOK' /\ CodecsOK' /\ LoopOK'
    BY <1>8 DEF CloseSend, store, codecs, StoreOK, CodecsOK, LoopOK
  <2>2. TaskOK'
    BY <1>8 DEF CloseSend, task, TaskOK
  <2>3. StorePart'
    BY <1>1, <1>8 DEF CloseSend, store, StorePart, Live
  <2>4. LoopPart' /\ TaskPart'
    BY <1>1, <1>8 DEF CloseSend, store, codecs, task, LoopPart, TaskPart, StorePart, Live
  <2> QED
    BY <1>2, <2>1, <2>2, <2>3, <2>4
<1>9. CASE CloseH264
  <2>1. StoreOK' /\ CodecsOK' /\ LoopOK'
    BY <1>9 DEF CloseH264, store, StoreOK, CodecsOK, LoopOK
  <2>2. TaskOK'
    BY <1>1, <1>9 DEF CloseH264, TaskOK
  <2>3. pc \in {"close", "join"} /\ payload = "none"
    BY <1>9 DEF CloseH264, StorePart, Live
  <2>4. StorePart'
    BY <1>1, <1>9, <2>3 DEF CloseH264, store, StorePart, Live
  <2>5. LoopPart' /\ TaskPart'
    BY <1>1, <1>9, <2>3 DEF CloseH264, store, LoopPart, TaskPart, Live
  <2> QED
    BY <1>2, <2>1, <2>2, <2>4, <2>5
<1>10. CASE ReleaseIdle
  <2>1. StoreOK' /\ CodecsOK' /\ LoopOK' /\ TaskOK'
    BY <1>10 DEF ReleaseIdle, store, loop, task, queues, StoreOK, CodecsOK, LoopOK, TaskOK
  <2>2. StorePart' /\ TaskPart'
    BY <1>1, <1>10 DEF ReleaseIdle, store, loop, task, StorePart, TaskPart, Live
  <2>3. LoopPart'
    BY <1>1, <1>10 DEF ReleaseIdle, store, loop, LoopPart, OnLoop, StoreOK, Codecs
  <2> QED
    BY <1>2, <2>1, <2>2, <2>3
<1> QED
  BY <1>3, <1>4, <1>5, <1>6, <1>7, <1>8, <1>9, <1>10

(* A codec comes up on an emptied store that nobody reads. *)
LEMMA OpenedStore ==
    ASSUME StoreInv, NEW c \in Codecs, Opened(c),
           pc \in {"open", "fallback", "back"}, pc' = "run",
           UNCHANGED <<from, to, wslot, yuv, held>>,
           h264ok' \in BOOLEAN
    PROVE  StoreInv'
<1> USE DEF StoreInv, TypeOK
<1>1. payload = "none" /\ \A r \in Readers : held[r] = Nothing
  BY DEF StorePart, Live
<1>2. enc = "none"
  BY DEF TaskPart, Live
<1>3. StoreOK'
  <2>1. slots' \in 0 .. JpegSlots
    BY StoreAssumption DEF Opened, Install
  <2> QED
    BY <2>1 DEF Opened, Install, StoreOK
<1>4. LoopOK' /\ HeldOK'
  BY DEF Opened, LoopOK, HeldOK
<1>5. CodecsOK'
  <2>1. mem' \subseteq Codecs
    BY DEF Opened, CodecsOK
  <2>2. jpeg' \in BOOLEAN
    BY DEF Opened
  <2> QED
    BY <2>1, <2>2, Zenon DEF CodecsOK
<1>6. TaskOK'
  <2>1. CASE c = "h264" /\ Pipelined
    <3>1. freeYuv' \in Seq(Yuv)
      BY <2>1, StoreAssumption DEF Opened, Yuv
    <3> QED
      BY <2>1, <3>1 DEF Opened, TaskOK
  <2>2. CASE ~(c = "h264" /\ Pipelined)
    BY <2>2 DEF Opened, TaskOK
  <2> QED
    BY <2>1, <2>2
<1>7. RefsCounted'
  <2>1. \A i \in Slots : Holders(i)' = {}
    BY <1>1 DEF Holders
  <2> QED
    BY <2>1, FS_EmptySet DEF Opened, Install, RefsCounted, Holders
<1>8. StorePart'
  BY <1>1 DEF Opened, Install, StorePart, Live, Codecs
<1>9. LoopPart'
  BY DEF Opened, Install, LoopPart, Codecs
<1>10. TaskPart'
  BY <1>2 DEF Opened, TaskPart, Live
<1> QED
  BY <1>3, <1>4, <1>5, <1>6, <1>7, <1>8, <1>9, <1>10

(* Nothing came up. *)
LEMMA RefusedStore ==
    ASSUME StoreInv,
           pc \in {"open", "fallback", "back"}, mem' \in {mem, mem \ {"mjpeg"}},
           UNCHANGED <<store, jpeg, from, to, wslot, yuv, task, queues, held>>,
           h264ok' \in BOOLEAN,
           \/ pc' \in {"fallback", "back"} /\ codec' = codec
           \/ pc' = "run" /\ codec' = "none"
    PROVE  StoreInv'
<1> USE DEF StoreInv, TypeOK
<1>1. payload = "none" /\ enc = "none"
  BY DEF StorePart, TaskPart, Live
<1>2. StoreOK' /\ LoopOK' /\ HeldOK'
  BY DEF store, StoreOK, LoopOK, HeldOK
<1>3. TaskOK'
  BY DEF task, queues, TaskOK
<1>4. CodecsOK'
  <2>1. mem' \subseteq Codecs
    BY DEF CodecsOK
  <2> QED
    BY <2>1, Zenon DEF CodecsOK
<1>5. RefsCounted'
  BY RefsKept DEF store
<1>6. StorePart'
  BY <1>1 DEF store, StorePart, Live
<1>7. LoopPart' /\ TaskPart'
  BY <1>1 DEF store, task, LoopPart, TaskPart
<1> QED
  BY <1>2, <1>3, <1>4, <1>5, <1>6, <1>7

LEMMA OpenStep ==
    ASSUME StoreInv,
           \/ OpenTo \/ OpenToFails \/ OpenFallback \/ OpenFallbackFails
           \/ OpenBack \/ OpenNone
    PROVE  StoreInv'
<1>1. to \in Codecs /\ from \in Codecs \cup {"none"}
  BY DEF StoreInv, TypeOK, LoopOK
<1>2. h264ok \in BOOLEAN
  BY Zenon DEF StoreInv, TypeOK, CodecsOK
<1>3. CASE OpenTo
  BY <1>1, <1>2, <1>3, OpenedStore DEF OpenTo
<1>4. CASE OpenFallback
  BY <1>2, <1>4, OpenedStore DEF OpenFallback, Codecs
<1>5. CASE OpenBack
  BY <1>1, <1>2, <1>5, OpenedStore DEF OpenBack
<1>6. CASE OpenToFails
  BY <1>2, <1>6, RefusedStore DEF OpenToFails, OpenFails
<1>7. CASE OpenFallbackFails
  BY <1>2, <1>7, RefusedStore DEF OpenFallbackFails, OpenFails
<1>8. CASE OpenNone
  BY <1>2, <1>8, RefusedStore DEF OpenNone
<1> QED
  BY <1>3, <1>4, <1>5, <1>6, <1>7, <1>8

(* The inductive invariant: the store belongs to one codec at a time, and  *)
(* video_frame_quiesce stands between two of them.                         *)
THEOREM StoreInvariant == Spec => []StoreInv
<1>1. StoreInv /\ [Next]_vars => StoreInv'
  <2> SUFFICES ASSUME StoreInv, [Next]_vars PROVE StoreInv'
    OBVIOUS
  <2>1. CASE UNCHANGED vars
    <3>1. UNCHANGED <<ref, held>>
      BY <2>1 DEF vars, store
    <3>2. TypeOK'
      BY <2>1 DEF vars, store, codecs, loop, task, queues, StoreInv, TypeOK, StoreOK,
         CodecsOK, LoopOK, TaskOK, HeldOK
    <3>3. StorePart' /\ LoopPart' /\ TaskPart'
      BY <2>1 DEF vars, store, codecs, loop, task, StoreInv, StorePart, LoopPart, TaskPart,
         Live, OnLoop
    <3> QED
      BY <3>1, <3>2, <3>3, RefsKept DEF StoreInv
  <2>2. CASE Loop
    BY <2>2, FrameStep, CloseStep, OpenStep DEF Loop, Switch
  <2>3. CASE EncTask
    BY <2>3, TaskStore
  <2>4. CASE ReleaseIdle
    BY <2>4, CloseStep
  <2>5. CASE \E r \in Readers : Acquire(r) \/ Release(r)
    BY <2>5, ReaderStore
  <2> QED
    BY <2>1, <2>2, <2>3, <2>4, <2>5 DEF Next
<1> QED
  BY <1>1, InitStore, PTL DEF Spec

(* Type correctness of the store, the codecs, the loop and the task. *)
THEOREM StoreTypeCorrect == Spec => []TypeOK
<1>1. StoreInv => TypeOK
  BY DEF StoreInv
<1> QED
  BY <1>1, StoreInvariant, PTL

(* A reader sends from memory that is still the codec's, that no encoder   *)
(* writes, and that is tagged with what it holds: for any number of        *)
(* readers and slots, with and without the encode task.                    *)
THEOREM HeldStaysIntact == Spec => []HeldIntact
<1>1. StoreInv => HeldIntact
  <2> SUFFICES ASSUME StoreInv, NEW r \in Readers, held[r] # Nothing
               PROVE  /\ held[r].data \in mem
                      /\ <<held[r].data, held[r].slot>> \notin Writing
                      /\ held[r].payload = held[r].data
    BY DEF HeldIntact
  <2>1. held[r].data \in mem /\ held[r].payload = held[r].data
    BY DEF StoreInv, StorePart, LoopPart
  <2>2. held[r].slot \in Slots /\ ref[held[r].slot] > 0
    BY HeldCounted DEF StoreInv, StorePart
  <2>3. pc = "write" => wslot # held[r].slot
    BY <2>2 DEF StoreInv, LoopPart
  <2>4. enc = "write" => eslot # held[r].slot
    BY <2>2 DEF StoreInv, TaskPart
  <2> QED
    BY <2>1, <2>3, <2>4 DEF Writing
<1> QED
  BY <1>1, StoreInvariant, PTL

(* No encoder writes memory that was freed or given away. *)
THEOREM WritesStayLive == Spec => []WritesLive
<1>1. StoreInv => WritesLive
  <2> SUFFICES ASSUME StoreInv PROVE WritesLive
    OBVIOUS
  <2>1. pc = "write" => codec \in mem
    BY DEF StoreInv, StorePart, LoopPart, Live
  <2>2. enc = "write" => "h264" \in mem
    BY DEF StoreInv, StorePart, LoopPart, TaskPart, Live
  <2> QED
    BY <2>1, <2>2 DEF WritesLive, Writing
<1> QED
  BY <1>1, StoreInvariant, PTL

(* The reference counts are the readers'. *)
THEOREM RefsStayCounted == Spec => []RefsCounted
<1>1. StoreInv => RefsCounted
  BY DEF StoreInv
<1> QED
  BY <1>1, StoreInvariant, PTL

(* A front frame that can be acquired is the running codec's and is tagged *)
(* as such, also after a switch that was refused.                          *)
THEOREM FrontStaysTagged == Spec => []FrontTagged
<1>1. StoreInv => FrontTagged
  BY DEF StoreInv, TypeOK, StoreOK, StorePart, LoopPart, FrontTagged, None
<1> QED
  BY <1>1, StoreInvariant, PTL

----------------------------------------------------------------------------
(* H.264's input buffers.  q and f are the two queues, a and b the buffers *)
(* in the loop's and in the task's hands: each buffer is in one place.     *)
Job == Yuv \cup {Sentinel}

AllOnce(q)  == \A i, j \in 1..Len(q) : q[i] \in Yuv /\ q[i] = q[j] => i = j
Lacks(q, a) == \A i \in 1..Len(q) : q[i] \in Yuv => q[i] # a
Has(q, y)   == \E i \in 1..Len(q) : q[i] = y

Once(q, f, a, b) ==
    /\ AllOnce(q) /\ AllOnce(f)
    /\ \A i \in 1..Len(q) : Lacks(f, q[i])
    /\ Lacks(q, a) /\ Lacks(q, b) /\ Lacks(f, a) /\ Lacks(f, b)
    /\ a \in Yuv => a # b
    /\ \A y \in Yuv : y = a \/ y = b \/ Has(q, y) \/ Has(f, y)

YuvPart ==
    /\ pc # "convert" => yuv = None
    /\ enc \notin {"none", "ended"} =>
         /\ enc = "idle" => ejob = None
         /\ Once(jobs, freeYuv, yuv, ejob)

YuvInv == StoreInv /\ YuvPart

LEMMA NoneIsNot == None \notin Yuv /\ Sentinel = None
BY StoreAssumption DEF None, Yuv, Sentinel

LEMMA OnceSwap ==
    ASSUME NEW q \in Seq(Job), NEW f \in Seq(Job), NEW a, NEW b, Once(q, f, a, b)
    PROVE  Once(f, q, a, b) /\ Once(q, f, b, a)
<1>1. \A i \in 1..Len(f) : Lacks(q, f[i])
  BY DEF Once, Lacks
<1> QED
  BY <1>1 DEF Once

(* A buffer in hand goes into a queue.                                     *)
LEMMA OnceAdd ==
    ASSUME NEW q \in Seq(Job), NEW f \in Seq(Job), NEW a \in Job, NEW b \in Job, Once(q, f, a, b)
    PROVE  Once(Append(q, a), f, None, b)
<1> DEFINE p == Append(q, a)
           n == Len(q)
<1>1. /\ n \in Nat /\ Len(p) = n + 1 /\ p[n + 1] = a /\ \A i \in 1..n : p[i] = q[i]
  OBVIOUS
<1> HIDE DEF p, n
<1>2. \A i \in 1..Len(p) : i = n + 1 \/ i \in 1..n
  BY <1>1
<1>i. n + 1 \in 1..Len(p) /\ \A i \in 1..n : i \in 1..Len(p)
  BY <1>1
<1>3. AllOnce(p)
  <2>1. \A i, j \in 1..n : q[i] \in Yuv /\ q[i] = q[j] => i = j
    BY DEF Once, AllOnce, n
  <2>2. \A i \in 1..n : q[i] \in Yuv => q[i] # a
    BY DEF Once, Lacks, n
  <2> QED
    BY <1>1, <1>2, <2>1, <2>2 DEF AllOnce
<1>4. \A i \in 1..Len(p) : Lacks(f, p[i])
  <2>1. \A i \in 1..n : Lacks(f, q[i])
    BY DEF Once, n
  <2>2. Lacks(f, a)
    BY DEF Once
  <2> QED
    BY <1>1, <1>2, <2>1, <2>2
<1>5. Lacks(p, None) /\ Lacks(f, None)
  BY NoneIsNot DEF Lacks
<1>6. Lacks(p, b)
  <2>1. \A i \in 1..n : q[i] \in Yuv => q[i] # b
    BY DEF Once, Lacks, n
  <2>2. a \in Yuv => a # b
    BY DEF Once
  <2> QED
    BY <1>1, <1>2, <2>1, <2>2 DEF Lacks
<1>7. \A y \in Yuv : y = None \/ y = b \/ Has(p, y) \/ Has(f, y)
  <2>1. \A y \in Yuv : y = a \/ y = b \/ Has(q, y) \/ Has(f, y)
    BY DEF Once
  <2>2. Has(p, a) /\ \A y : Has(q, y) => Has(p, y)
    BY <1>1, <1>i DEF Has, n
  <2> QED
    BY <2>1, <2>2
<1> QED
  BY <1>3, <1>4, <1>5, <1>6, <1>7, NoneIsNot DEF Once, p

(* The first of a queue is taken into an empty hand.                       *)
LEMMA OnceTake ==
    ASSUME NEW q \in Seq(Job), NEW f \in Seq(Job), NEW b \in Job, Once(q, f, None, b), q # <<>>
    PROVE  Once(Tail(q), f, Head(q), b)
<1> DEFINE p == Tail(q)
           n == Len(q)
           a == Head(q)
<1>1. /\ n \in Nat \ {0} /\ Len(p) = n - 1 /\ a = q[1] /\ \A i \in 1..Len(p) : p[i] = q[i + 1]
  OBVIOUS
<1> HIDE DEF p, n, a
<1>2. /\ \A i \in 1..Len(p) : i \in Int /\ i + 1 \in 1..n /\ i + 1 # 1
      /\ 1 \in 1..n
      /\ \A i \in 1..n : i = 1 \/ (i - 1 \in 1..Len(p) /\ i = (i - 1) + 1)
  BY <1>1
<1>q. /\ \A i, j \in 1..n : q[i] \in Yuv /\ q[i] = q[j] => i = j
      /\ \A i \in 1..n : Lacks(f, q[i])
      /\ \A i \in 1..n : q[i] \in Yuv => q[i] # b
  BY DEF Once, AllOnce, Lacks, n
<1>3. AllOnce(p)
  <2> SUFFICES ASSUME NEW i \in 1..Len(p), NEW j \in 1..Len(p), p[i] \in Yuv, p[i] = p[j] PROVE i = j
    BY DEF AllOnce
  <2>1. i + 1 = j + 1
    BY <1>1, <1>2, <1>q
  <2> QED
    BY <1>2, <2>1
<1>4. (\A i \in 1..Len(p) : Lacks(f, p[i])) /\ Lacks(f, a)
  BY <1>1, <1>2, <1>q
<1>5. Lacks(p, a)
  <2> SUFFICES ASSUME NEW i \in 1..Len(p), p[i] \in Yuv, p[i] = a PROVE FALSE
    BY DEF Lacks
  <2> QED
    BY <1>1, <1>2, <1>q
<1>6. Lacks(p, b) /\ (a \in Yuv => a # b)
  BY <1>1, <1>2, <1>q DEF Lacks
<1>7. \A y \in Yuv : y = a \/ y = b \/ Has(p, y) \/ Has(f, y)
  <2>1. \A y \in Yuv : y = b \/ Has(q, y) \/ Has(f, y)
    BY NoneIsNot DEF Once
  <2>2. ASSUME NEW y, Has(q, y) PROVE y = a \/ Has(p, y)
    <3>1. PICK i \in 1..n : q[i] = y
      BY <2>2 DEF Has, n
    <3>2. CASE i = 1
      BY <1>1, <3>1, <3>2
    <3>3. CASE i # 1
      <4>1. i - 1 \in 1..Len(p) /\ p[i - 1] = q[i]
        BY <1>1, <1>2, <3>3
      <4> QED
        BY <3>1, <4>1 DEF Has
    <3> QED
      BY <3>2, <3>3
  <2> QED
    BY <2>1, <2>2
<1>8. AllOnce(f) /\ Lacks(f, b)
  BY DEF Once
<1>9. Once(p, f, a, b)
  BY <1>3, <1>4, <1>5, <1>6, <1>7, <1>8 DEF Once
<1> QED
  BY <1>9 DEF p, a

(* A queue has room for the buffer in hand.                                *)
LEMMA OnceRoom ==
    ASSUME NEW f \in Seq(Yuv), NEW b \in Yuv, AllOnce(f), Lacks(f, b) PROVE Len(f) < YuvBufs
<1>0. YuvBufs \in Nat \ {0} /\ Len(f) \in Nat
  BY StoreAssumption
<1> DEFINE S == 1..Len(f)
           T == Yuv \ {b}
<1>1. IsFiniteSet(S) /\ Cardinality(S) = Len(f)
  BY <1>0, FS_Interval
<1>2. IsFiniteSet(Yuv) /\ Cardinality(Yuv) = YuvBufs
  <2>1. 0 \in Int /\ YuvBufs - 1 \in Int /\ ~(0 > YuvBufs - 1) /\ (YuvBufs - 1) - 0 + 1 = YuvBufs
    BY <1>0
  <2>2. PICK m \in Int : m = YuvBufs - 1
    BY <2>1
  <2>3. IsFiniteSet(0..m) /\ Cardinality(0..m) = IF 0 > m THEN 0 ELSE m - 0 + 1
    BY FS_Interval
  <2> QED
    BY <1>0, <2>1, <2>2, <2>3 DEF Yuv
<1>3. IsFiniteSet(T) /\ Cardinality(T) = YuvBufs - 1
  BY <1>2, FS_RemoveElement
<1>4. \A i \in S : f[i] \in T
  BY DEF Lacks
<1>5. \A i, j \in S : f[i] = f[j] => i = j
  BY DEF AllOnce
<1>6. f \in [S -> T]
  <2>1. DOMAIN f = S /\ f = [i \in S |-> f[i]]
    OBVIOUS
  <2> QED
    BY <1>4, <2>1
<1> HIDE DEF S, T
<1>7. ~(Cardinality(T) < Cardinality(S))
  BY <1>1, <1>3, <1>5, <1>6, FS_PigeonHole
<1> QED
  BY <1>0, <1>1, <1>3, <1>7

LEMMA OnceCount ==
    ASSUME NEW q \in Seq(Job), NEW y \in Yuv, AllOnce(q)
    PROVE  Cardinality({i \in 1..Len(q) : q[i] = y}) = IF Has(q, y) THEN 1 ELSE 0
<1> DEFINE S == {i \in 1..Len(q) : q[i] = y}
<1>1. CASE Has(q, y)
  <2>1. PICK i \in 1..Len(q) : q[i] = y
    BY <1>1 DEF Has
  <2>2. S = {i}
    BY <2>1 DEF AllOnce
  <2> QED
    BY <1>1, <2>2, FS_Singleton
<1>2. CASE ~Has(q, y)
  <2>1. S = {}
    BY <1>2 DEF Has
  <2> QED
    BY <1>2, <2>1, FS_EmptySet
<1> QED
  BY <1>1, <1>2

LEMMA OnceIs == ASSUME YuvInv PROVE YuvOnce
<1> SUFFICES ASSUME enc \notin {"none", "ended"}, NEW y \in Yuv
             PROVE  Cardinality({i \in 1 .. Len(jobs) : jobs[i] = y})
                      + Cardinality({i \in 1 .. Len(freeYuv) : freeYuv[i] = y})
                      + (IF yuv = y THEN 1 ELSE 0) + (IF ejob = y THEN 1 ELSE 0) = 1
  BY DEF YuvOnce
<1>1. Once(jobs, freeYuv, yuv, ejob) /\ jobs \in Seq(Job) /\ freeYuv \in Seq(Job)
  <2>1. jobs \in Seq(Job) /\ freeYuv \in Seq(Yuv)
    BY DEF YuvInv, StoreInv, TypeOK, TaskOK, Job
  <2>2. freeYuv \in Seq(Job)
    BY <2>1 DEF Job
  <2> QED
    BY <2>1, <2>2 DEF YuvInv, YuvPart
<1>2. /\ Cardinality({i \in 1 .. Len(jobs) : jobs[i] = y}) = IF Has(jobs, y) THEN 1 ELSE 0
      /\ Cardinality({i \in 1 .. Len(freeYuv) : freeYuv[i] = y}) = IF Has(freeYuv, y) THEN 1 ELSE 0
  BY <1>1, OnceCount DEF Once
<1>3. /\ ~(Has(jobs, y) /\ Has(freeYuv, y)) /\ ~(Has(jobs, y) /\ yuv = y) /\ ~(Has(jobs, y) /\ ejob = y)
      /\ ~(Has(freeYuv, y) /\ yuv = y) /\ ~(Has(freeYuv, y) /\ ejob = y) /\ ~(yuv = y /\ ejob = y)
  BY <1>1 DEF Once, Lacks, Has
<1>4. y = yuv \/ y = ejob \/ Has(jobs, y) \/ Has(freeYuv, y)
  BY <1>1 DEF Once
<1> QED
  BY <1>2, <1>3, <1>4

(* The buffers stay where they are.                                        *)
LEMMA YuvKept ==
    ASSUME YuvPart, UNCHANGED <<yuv, jobs, freeYuv, ejob>>,
           pc' = pc \/ (pc # "convert" /\ pc' # "convert"),
           \/ enc' = enc
           \/ enc \in {"job", "write", "return"} /\ enc' \in {"write", "return"}
    PROVE  YuvPart'
BY DEF YuvPart

LEMMA YuvTypes ==
    ASSUME StoreInv
    PROVE  jobs \in Seq(Job) /\ freeYuv \in Seq(Yuv) /\ freeYuv \in Seq(Job) /\ yuv \in Job /\ ejob \in Job
<1>1. jobs \in Seq(Job) /\ freeYuv \in Seq(Yuv) /\ ejob \in Job
  BY DEF StoreInv, TypeOK, TaskOK, Job, Sentinel
<1>2. yuv \in Job
  BY DEF StoreInv, TypeOK, LoopOK, Job, Sentinel
<1>3. freeYuv \in Seq(Job)
  BY <1>1 DEF Job
<1> QED
  BY <1>1, <1>2, <1>3

(* The loop fills a buffer and hands it over, or gives it back.            *)
LEMMA ConvertYuv == ASSUME YuvInv, ConvertBegin \/ ConvertSend \/ ConvertDrop PROVE YuvPart'
<1> USE DEF YuvInv
<1>0. /\ jobs \in Seq(Job) /\ freeYuv \in Seq(Yuv) /\ freeYuv \in Seq(Job)
      /\ yuv \in Job /\ ejob \in Job /\ UNCHANGED <<enc, ejob>>
  BY YuvTypes DEF ConvertBegin, ConvertSend, ConvertDrop, task
<1>1. enc \notin {"none", "ended"} => (enc = "idle" => ejob = None) /\ Once(jobs, freeYuv, yuv, ejob)
  BY DEF YuvPart
<1>2. CASE ConvertBegin
  <2>1. /\ freeYuv # <<>> /\ yuv' = Head(freeYuv) /\ freeYuv' = Tail(freeYuv) /\ pc' = "convert"
        /\ jobs' = jobs /\ yuv = None
    BY <1>2 DEF ConvertBegin, YuvPart
  <2>2. ASSUME enc \notin {"none", "ended"} PROVE Once(jobs', freeYuv', yuv', ejob')
    <3>1. Once(freeYuv, jobs, None, ejob)
      BY <1>0, <1>1, <2>1, <2>2, OnceSwap
    <3>2. Once(Tail(freeYuv), jobs, Head(freeYuv), ejob)
      BY <1>0, <2>1, <3>1, OnceTake
    <3>3. Tail(freeYuv) \in Seq(Job)
      BY <1>0, <2>1
    <3>4. Once(jobs, Tail(freeYuv), Head(freeYuv), ejob)
      BY <1>0, <3>2, <3>3, OnceSwap
    <3> QED
      BY <1>0, <2>1, <3>4
  <2> QED
    BY <1>0, <1>1, <2>1, <2>2 DEF YuvPart
<1>3. CASE ConvertSend
  <2>1. jobs' = Append(jobs, yuv) /\ yuv' = None /\ pc' = "run" /\ freeYuv' = freeYuv
    BY <1>3 DEF ConvertSend
  <2>2. ASSUME enc \notin {"none", "ended"} PROVE Once(jobs', freeYuv', yuv', ejob')
    <3>1. Once(Append(jobs, yuv), freeYuv, None, ejob)
      BY <1>0, <1>1, <2>2, OnceAdd
    <3> QED
      BY <1>0, <2>1, <3>1
  <2> QED
    BY <1>0, <1>1, <2>1, <2>2 DEF YuvPart
<1>4. CASE ConvertDrop
  <2>1. freeYuv' = Append(freeYuv, yuv) /\ yuv' = None /\ pc' = "run" /\ jobs' = jobs
    BY <1>4 DEF ConvertDrop
  <2>2. ASSUME enc \notin {"none", "ended"} PROVE Once(jobs', freeYuv', yuv', ejob')
    <3>1. Once(freeYuv, jobs, yuv, ejob)
      BY <1>0, <1>1, <2>2, OnceSwap
    <3>2. Once(Append(freeYuv, yuv), jobs, None, ejob)
      BY <1>0, <3>1, OnceAdd
    <3>3. Append(freeYuv, yuv) \in Seq(Job)
      BY <1>0
    <3>4. Once(jobs, Append(freeYuv, yuv), None, ejob)
      BY <1>0, <3>2, <3>3, OnceSwap
    <3> QED
      BY <1>0, <2>1, <3>4
  <2> QED
    BY <1>0, <1>1, <2>1, <2>2 DEF YuvPart
<1> QED
  BY <1>2, <1>3, <1>4

(* The task takes one, encodes it and returns it: there is always room.    *)
LEMMA TaskYuv == ASSUME YuvInv, EncTask PROVE YuvPart'
<1> USE DEF YuvInv
<1>0. /\ jobs \in Seq(Job) /\ freeYuv \in Seq(Yuv) /\ freeYuv \in Seq(Job)
      /\ yuv \in Job /\ ejob \in Job
  BY YuvTypes
<1>1. enc \notin {"none", "ended"} => (enc = "idle" => ejob = None) /\ Once(jobs, freeYuv, yuv, ejob)
  BY DEF YuvPart
<1>2. pc # "convert" => yuv = None
  BY DEF YuvPart
<1>3. CASE JobBegin \/ JobSkip \/ JobPublish \/ JobFail
  <2>1. UNCHANGED <<yuv, jobs, freeYuv, ejob, pc>> /\ enc \in {"job", "write"} /\ enc' \in {"write", "return"}
    BY <1>3 DEF JobBegin, JobSkip, JobPublish, JobFail, loop, queues
  <2> QED
    BY <2>1, YuvKept
<1>4. CASE JobTake
  <2>1. /\ enc = "idle" /\ jobs # <<>> /\ jobs' = Tail(jobs) /\ ejob' = Head(jobs)
        /\ enc' = (IF Head(jobs) = Sentinel THEN "ended" ELSE "job")
        /\ UNCHANGED <<yuv, freeYuv, pc>>
    BY <1>4 DEF JobTake, loop
  <2>2. Once(jobs, freeYuv, None, yuv)
    BY <1>0, <1>1, <2>1, OnceSwap
  <2>3. Once(Tail(jobs), freeYuv, Head(jobs), yuv)
    BY <1>0, <2>1, <2>2, OnceTake
  <2>4. Tail(jobs) \in Seq(Job)
    BY <1>0, <2>1
  <2>5. Once(jobs', freeYuv', yuv', ejob')
    BY <1>0, <2>1, <2>3, <2>4, OnceSwap
  <2> QED
    BY <1>2, <2>1, <2>5 DEF YuvPart
<1>5. CASE JobReturn
  <2>1. enc = "return" /\ enc' = "idle" /\ ejob' = None /\ UNCHANGED <<yuv, jobs, pc>>
    BY <1>5 DEF JobReturn, loop
  <2>2. ejob \in Yuv /\ Once(jobs, freeYuv, yuv, ejob)
    BY <1>1, <2>1 DEF StoreInv, TaskPart
  <2>3. Len(freeYuv) < YuvBufs
    BY <1>0, <2>2, OnceRoom DEF Once
  <2>4. freeYuv' = Append(freeYuv, ejob) /\ Append(freeYuv, ejob) \in Seq(Job)
    BY <1>0, <1>5, <2>3 DEF JobReturn
  <2>5. Once(freeYuv, jobs, ejob, yuv)
    BY <1>0, <2>2, OnceSwap
  <2>6. Once(Append(freeYuv, ejob), jobs, None, yuv)
    BY <1>0, <2>5, OnceAdd
  <2>7. Once(jobs, Append(freeYuv, ejob), yuv, None)
    BY <1>0, <2>4, <2>6, OnceSwap
  <2> QED
    BY <1>2, <2>1, <2>4, <2>7 DEF YuvPart
<1> QED
  BY <1>3, <1>4, <1>5 DEF EncTask

(* h264_open puts every buffer into the queue of free ones.                *)
LEMMA OpenedYuv ==
    ASSUME YuvInv, NEW c \in Codecs, Opened(c), enc = "none", pc # "convert", pc' # "convert", yuv' = yuv
    PROVE  YuvPart'
<1>1. yuv = None
  BY DEF YuvInv, YuvPart
<1>2. CASE c = "h264" /\ Pipelined
  <2> DEFINE f == [i \in 1..YuvBufs |-> i - 1]
  <2>1. enc' = "idle" /\ ejob' = None /\ jobs' = <<>> /\ freeYuv' = f
    BY <1>2 DEF Opened
  <2>2. YuvBufs \in Nat /\ Len(f) = YuvBufs /\ \A i \in 1..YuvBufs : f[i] = i - 1
    BY StoreAssumption
  <2>3. Len(<<>>) = 0 /\ \A i \in 1..0 : FALSE
    OBVIOUS
  <2> HIDE DEF f
  <2>4. AllOnce(f) /\ Lacks(f, None)
    BY <2>2, NoneIsNot DEF AllOnce, Lacks
  <2>5. \A y \in Yuv : Has(f, y)
    <3> SUFFICES ASSUME NEW y \in Yuv PROVE Has(f, y)
      OBVIOUS
    <3>1. y + 1 \in 1..YuvBufs /\ (y + 1) - 1 = y
      BY <2>2 DEF Yuv
    <3> QED
      BY <2>2, <3>1 DEF Has
  <2>6. AllOnce(<<>>) /\ Lacks(<<>>, None) /\ \A i \in 1..Len(<<>>) : FALSE
    BY <2>3 DEF AllOnce, Lacks
  <2>7. Once(<<>>, f, None, None)
    BY <2>4, <2>5, <2>6, NoneIsNot DEF Once
  <2> QED
    BY <1>1, <2>1, <2>7 DEF YuvPart
<1>3. CASE ~(c = "h264" /\ Pipelined)
  <2>1. enc' = "none"
    BY <1>3 DEF Opened
  <2> QED
    BY <1>1, <2>1 DEF YuvPart
<1> QED
  BY <1>2, <1>3

LEMMA LoopYuv == ASSUME YuvInv, Loop PROVE YuvPart'
<1> USE DEF YuvInv
<1>1. CASE ConvertBegin \/ ConvertSend \/ ConvertDrop
  BY <1>1, ConvertYuv
<1>2. CASE EncodeBegin \/ EncodePublish \/ EncodeDrop \/ SwitchBegin \/ EncoderFallback
  <2>1. UNCHANGED <<yuv, jobs, freeYuv, ejob, enc>> /\ pc # "convert" /\ pc' # "convert"
    BY <1>2 DEF EncodeBegin, EncodePublish, EncodeDrop, SwitchBegin, EncoderFallback, task, queues
  <2> QED
    BY <2>1, YuvKept
<1>3. CASE Quiesce \/ QuiesceTimeout \/ CloseJpeg
  <2>1. UNCHANGED <<yuv, jobs, freeYuv, ejob, enc>> /\ pc # "convert" /\ pc' # "convert"
    BY <1>3 DEF Quiesce, QuiesceTimeout, CloseJpeg, task, queues
  <2> QED
    BY <2>1, YuvKept
<1>4. CASE CloseSend
  <2>1. /\ jobs' = Append(jobs, Sentinel) /\ UNCHANGED <<yuv, freeYuv, ejob, enc>>
        /\ pc' = "join" /\ yuv = None
    BY <1>4 DEF CloseSend, task, YuvPart
  <2>2. enc \notin {"none", "ended"} => (enc = "idle" => ejob = None) /\ Once(jobs, freeYuv, yuv, ejob)
    BY DEF YuvPart
  <2>3. Once(jobs, freeYuv, yuv, ejob) => Once(Append(jobs, Sentinel), freeYuv, None, ejob)
    <3>1. jobs \in Seq(Job) /\ freeYuv \in Seq(Job) /\ yuv \in Job /\ ejob \in Job /\ yuv = Sentinel
      BY <2>1, YuvTypes, NoneIsNot
    <3> QED
      BY <3>1, OnceAdd
  <2> QED
    BY <2>1, <2>2, <2>3 DEF YuvPart
<1>5. CASE CloseH264
  BY <1>5 DEF CloseH264, YuvPart
<1>6. CASE OpenToFails \/ OpenFallbackFails \/ OpenNone
  <2>1. UNCHANGED <<yuv, jobs, freeYuv, ejob, enc>> /\ pc # "convert" /\ pc' # "convert"
    BY <1>6 DEF OpenToFails, OpenFallbackFails, OpenNone, OpenFails, task, queues
  <2> QED
    BY <2>1, YuvKept
<1>7. CASE OpenTo \/ OpenFallback \/ OpenBack
  <2>1. pc \in {"open", "fallback", "back"} /\ pc' = "run" /\ yuv' = yuv
    BY <1>7 DEF OpenTo, OpenFallback, OpenBack
  <2>2. enc = "none"
    BY <2>1 DEF StoreInv, TaskPart, Live
  <2>3. PICK c \in Codecs : Opened(c)
    <3>1. to \in Codecs /\ from \in Codecs \cup {"none"} /\ "mjpeg" \in Codecs
      BY DEF StoreInv, TypeOK, LoopOK, Codecs
    <3> QED
      BY <1>7, <3>1 DEF OpenTo, OpenFallback, OpenBack
  <2> QED
    BY <2>1, <2>2, <2>3, OpenedYuv
<1> QED
  BY <1>1, <1>2, <1>3, <1>4, <1>5, <1>6, <1>7 DEF Loop, Switch

(* No input buffer of the H.264 encoder is lost or used twice: neither a   *)
(* failed conversion, a full queue, a broken encoder nor a refused switch  *)
(* leaves the loop or h264_encode_task without one.                        *)
THEOREM YuvStaysOnce == Spec => []YuvOnce
<1>1. Init => YuvPart
  BY DEF Init, YuvPart
<1>2. StoreInv /\ YuvPart /\ [Next]_vars => YuvPart'
  <2> SUFFICES ASSUME StoreInv, YuvPart, [Next]_vars PROVE YuvPart'
    OBVIOUS
  <2>1. YuvInv
    BY DEF YuvInv
  <2>2. CASE ReleaseIdle \/ UNCHANGED vars \/ \E r \in Readers : Acquire(r) \/ Release(r)
    <3>1. UNCHANGED <<yuv, jobs, freeYuv, ejob, enc, pc>>
      BY <2>2 DEF ReleaseIdle, Acquire, Release, vars, loop, task, queues
    <3> QED
      BY <3>1, YuvKept
  <2> QED
    BY <2>1, <2>2, LoopYuv, TaskYuv DEF Next
<1>3. StoreInv /\ YuvPart => YuvOnce
  BY OnceIs DEF YuvInv
<1> QED
  BY <1>1, <1>2, <1>3, StoreInvariant, PTL DEF Spec
=============================================================================
