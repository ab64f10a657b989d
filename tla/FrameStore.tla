----------------------------- MODULE FrameStore -----------------------------
(***************************************************************************)
(* The frame store (video_frame.c) and the codec that fills it.            *)
(*                                                                         *)
(* One writer - the capture loop, or on boards before revision 3.0 the     *)
(* H.264 encode task - encodes into a slot nobody reads and publishes it;  *)
(* any number of readers hold references to published slots while they     *)
(* send.  The loop swaps codecs under them (codec_switch): empty the store *)
(* once nobody holds a slot, close the old codec, which frees or gives     *)
(* away its buffers, open the new one, fall back when that fails.          *)
(*                                                                         *)
(* Every operation of the store holds its mutex, so each is one step.  A   *)
(* buffer is known by the codec it belongs to and its slot number.         *)
(***************************************************************************)
EXTENDS Integers, Sequences, FiniteSets

CONSTANTS
    Readers,        \* tasks that acquire frames
    Pipelined,      \* ~CAPTURE_DIRECT_ENCODE: H.264 has its own task
    JpegSlots,      \* VIDEO_SLOT_COUNT
    H264Slots,      \* H264_SLOTS
    YuvBufs         \* H264_YUV_BUFS

ASSUME StoreAssumption ==
    /\ IsFiniteSet(Readers)
    /\ Pipelined \in BOOLEAN
    /\ JpegSlots \in Nat \ {0} /\ H264Slots \in 1 .. JpegSlots
    /\ YuvBufs \in Nat \ {0}

None   == -1
Codecs == {"mjpeg", "h264"}
Slots  == 0 .. JpegSlots - 1
Yuv    == 0 .. YuvBufs - 1

VARIABLES
    \* the store, s
    slots, buf, len, ref, front, payload,
    \* the codecs: which buffers are theirs, is the JPEG engine open,
    \* is H.264 still on offer
    mem, jpeg, h264ok,
    \* the capture loop
    codec, pc, from, to, wslot, yuv,
    \* the H.264 encode task and its queues
    enc, ejob, eslot, broken, jobs, freeYuv,
    \* the readers
    held

store  == <<slots, buf, len, ref, front, payload>>
codecs == <<mem, jpeg, h264ok>>
loop   == <<codec, pc, from, to, wslot, yuv>>
task   == <<enc, ejob, eslot, broken>>
queues == <<jobs, freeYuv>>
vars   == <<store, codecs, loop, task, queues, held>>

Nothing == [slot |-> None, data |-> "none", payload |-> "none"]
Sentinel == None            \* the job that ends the encode task

----------------------------------------------------------------------------
(* The store's own operations.                                             *)

(* video_frame_install *)
Install(c) ==
    LET n == IF c = "mjpeg" THEN JpegSlots ELSE H264Slots IN
    /\ slots' = n
    /\ buf' = [i \in Slots |-> IF i < n THEN c ELSE "none"]
    /\ len' = [i \in Slots |-> 0]
    /\ ref' = [i \in Slots |-> 0]
    /\ front' = None
    /\ payload' = c

(* video_frame_begin_write: a slot nobody reads that is not the front ... *)
Writable(i) == i < slots /\ buf[i] # "none" /\ ref[i] = 0 /\ i # front

(* ... the first of them.  It gives up when there is none in a second. *)
BeginWrite(i) ==
    /\ Writable(i)
    /\ \A j \in Slots : Writable(j) => i <= j

(* video_frame_publish *)
Publish(i) ==
    /\ len' = [len EXCEPT ![i] = 1]
    /\ front' = i
    /\ UNCHANGED <<slots, buf, ref, payload>>

(* video_frame_acquire *)
Acquire(r) ==
    /\ held[r] = Nothing
    /\ front >= 0 /\ buf[front] # "none" /\ len[front] > 0
    /\ ref' = [ref EXCEPT ![front] = @ + 1]
    /\ held' = [held EXCEPT ![r] = [slot |-> front, data |-> buf[front],
                                    payload |-> payload]]
    /\ UNCHANGED <<slots, buf, len, front, payload, codecs, loop, task, queues>>

(* Mutant of Release: only a reference to the front slot is given back.    *)
Release_FrontOnly(r) ==
    /\ held[r] # Nothing
    /\ LET i == held[r].slot IN
         ref' = [ref EXCEPT ![i] = IF @ > 0 /\ i = front THEN @ - 1 ELSE @]
    /\ held' = [held EXCEPT ![r] = Nothing]
    /\ UNCHANGED <<slots, buf, len, front, payload, codecs, loop, task, queues>>

(* video_frame_release *)
Release(r) ==
    /\ held[r] # Nothing
    /\ LET i == held[r].slot IN
         ref' = [ref EXCEPT ![i] = IF @ > 0 THEN @ - 1 ELSE @]
    /\ held' = [held EXCEPT ![r] = Nothing]
    /\ UNCHANGED <<slots, buf, len, front, payload, codecs, loop, task, queues>>

----------------------------------------------------------------------------
(* Encoding on the loop itself: MJPEG, and H.264 with direct encode.       *)

OnLoop == codec = "mjpeg" \/ (codec = "h264" /\ ~Pipelined)

EncodeBegin ==
    /\ pc = "run" /\ OnLoop
    /\ \E i \in Slots : BeginWrite(i) /\ wslot' = i
    /\ pc' = "write"
    /\ UNCHANGED <<store, codecs, codec, from, to, yuv, task, queues, held>>

EncodePublish ==
    /\ pc = "write"
    /\ Publish(wslot)
    /\ pc' = "run" /\ wslot' = None
    /\ UNCHANGED <<codecs, codec, from, to, yuv, task, queues, held>>

(* The encode failed, or MJPEG came out byte-identical to the front. *)
EncodeDrop ==
    /\ pc = "write"
    /\ pc' = "run" /\ wslot' = None
    /\ UNCHANGED <<store, codecs, codec, from, to, yuv, task, queues, held>>

----------------------------------------------------------------------------
(* H.264 with its own task: the loop converts, the task encodes.           *)

ConvertBegin ==
    /\ pc = "run" /\ codec = "h264" /\ Pipelined
    /\ ~broken
    /\ freeYuv # <<>>
    /\ yuv' = Head(freeYuv) /\ freeYuv' = Tail(freeYuv)
    /\ pc' = "convert"
    /\ UNCHANGED <<store, codecs, codec, from, to, wslot, task, jobs, held>>

ConvertSend ==
    /\ pc = "convert"
    /\ Len(jobs) < YuvBufs
    /\ jobs' = Append(jobs, yuv)
    /\ yuv' = None /\ pc' = "run"
    /\ UNCHANGED <<store, codecs, codec, from, to, wslot, task, freeYuv, held>>

(* Mutant of ConvertDrop: the YUV buffer is not given back.                *)
ConvertDrop_Lost ==
    /\ pc = "convert"
    /\ yuv' = None /\ pc' = "run"
    /\ UNCHANGED <<store, codecs, codec, from, to, wslot, task, queues, held>>

(* The conversion failed, or the job queue stayed full. *)
ConvertDrop ==
    /\ pc = "convert"
    /\ freeYuv' = Append(freeYuv, yuv)
    /\ yuv' = None /\ pc' = "run"
    /\ UNCHANGED <<store, codecs, codec, from, to, wslot, task, jobs, held>>

JobTake ==
    /\ enc = "idle" /\ jobs # <<>>
    /\ jobs' = Tail(jobs)
    /\ ejob' = Head(jobs)
    /\ enc' = IF Head(jobs) = Sentinel THEN "ended" ELSE "job"
    /\ UNCHANGED <<store, codecs, loop, eslot, broken, freeYuv, held>>

JobBegin ==
    /\ enc = "job"
    /\ ~broken
    /\ \E i \in Slots : BeginWrite(i) /\ eslot' = i
    /\ enc' = "write"
    /\ UNCHANGED <<store, codecs, loop, ejob, broken, queues, held>>

(* No slot in time, the store is empty, a restart is parking the pipeline, *)
(* or the encoder is broken - possibly from now on.                        *)
JobSkip ==
    /\ enc = "job"
    /\ broken' \in {broken, TRUE}
    /\ enc' = "return"
    /\ UNCHANGED <<store, codecs, loop, ejob, eslot, queues, held>>

JobPublish ==
    /\ enc = "write"
    /\ Publish(eslot)
    /\ enc' = "return" /\ eslot' = None
    /\ UNCHANGED <<codecs, loop, ejob, broken, queues, held>>

JobFail ==
    /\ enc = "write"
    /\ enc' = "return" /\ eslot' = None
    /\ UNCHANGED <<store, codecs, loop, ejob, broken, queues, held>>

(* The YUV buffer goes back to the loop. *)
JobReturn ==
    /\ enc = "return"
    /\ freeYuv' = IF Len(freeYuv) < YuvBufs THEN Append(freeYuv, ejob) ELSE freeYuv
    /\ enc' = "idle" /\ ejob' = None
    /\ UNCHANGED <<store, codecs, loop, eslot, broken, jobs, held>>

----------------------------------------------------------------------------
(* codec_switch.                                                           *)

Wanted == IF h264ok THEN Codecs ELSE {"mjpeg"}

(* The setting asks for the other codec, the H.264 encoder could not be    *)
(* built, or no codec runs and the loop tries again.                       *)
SwitchBegin ==
    /\ pc = "run"
    /\ \E c \in Wanted \ {codec} :
         /\ to' = c
         /\ from' = codec
         /\ pc' = IF codec = "none" THEN "open" ELSE "quiesce"
    /\ UNCHANGED <<store, codecs, codec, wslot, yuv, task, queues, held>>

EncoderFallback ==
    /\ pc = "run" /\ codec = "h264"
    /\ Pipelined => broken
    /\ h264ok' = FALSE
    /\ to' = "mjpeg" /\ from' = codec
    /\ pc' = "quiesce"
    /\ UNCHANGED <<store, mem, jpeg, codec, wslot, yuv, task, queues, held>>

(* Mutant of Quiesce: the store is emptied under the readers.              *)
Quiesce_NoWait ==
    /\ pc = "quiesce"
    /\ front' = None /\ payload' = "none"
    /\ buf' = [i \in Slots |-> "none"] /\ len' = [i \in Slots |-> 0]
    /\ slots' = 0
    /\ pc' = "close"
    /\ UNCHANGED <<ref, codecs, codec, from, to, wslot, yuv, task, queues, held>>

(* video_frame_quiesce finds nobody holding a slot and empties the store.  *)
Quiesce ==
    /\ pc = "quiesce"
    /\ \A i \in Slots : ref[i] = 0
    /\ front' = None /\ payload' = "none"
    /\ buf' = [i \in Slots |-> "none"] /\ len' = [i \in Slots |-> 0]
    /\ slots' = 0
    /\ pc' = "close"
    /\ UNCHANGED <<ref, codecs, codec, from, to, wslot, yuv, task, queues, held>>

(* Mutant of QuiesceTimeout: the tag of the frames is gone although the    *)
(* old codec stays.                                                        *)
QuiesceTimeout_DropsTag ==
    /\ pc = "quiesce"
    /\ \E i \in Slots : ref[i] > 0
    /\ payload' = "none"
    /\ h264ok' = (h264ok /\ to # "h264")
    /\ pc' = "run"
    /\ UNCHANGED <<slots, buf, len, ref, front, mem, jpeg, codec, from, to,
                   wslot, yuv, task, queues, held>>

(* ... or a reader holds on past the five seconds, and the old codec stays. *)
(* The loop reads a refused switch to H.264 as a lack of memory.           *)
QuiesceTimeout ==
    /\ pc = "quiesce"
    /\ \E i \in Slots : ref[i] > 0
    /\ h264ok' = (h264ok /\ to # "h264")
    /\ pc' = "run"
    /\ UNCHANGED <<store, mem, jpeg, codec, from, to, wslot, yuv,
                   task, queues, held>>

(* mjpeg_close deletes the engine and keeps the buffers. *)
CloseJpeg ==
    /\ pc = "close" /\ from = "mjpeg"
    /\ jpeg' = FALSE
    /\ pc' = "open"
    /\ UNCHANGED <<store, mem, h264ok, codec, from, to, wslot, yuv,
                   task, queues, held>>

(* Mutant of CloseSend: the sentinel is not sent.                          *)
CloseSend_Nothing ==
    /\ pc = "close" /\ from = "h264" /\ Pipelined
    /\ pc' = "join"
    /\ UNCHANGED <<store, codecs, codec, from, to, wslot, yuv, task, queues, held>>

(* h264_close: tell the encode task to end ... *)
CloseSend ==
    /\ pc = "close" /\ from = "h264" /\ Pipelined
    /\ Len(jobs) < YuvBufs
    /\ jobs' = Append(jobs, Sentinel)
    /\ pc' = "join"
    /\ UNCHANGED <<store, codecs, codec, from, to, wslot, yuv, task, freeYuv, held>>

(* Mutant of CloseH264: the buffers are freed while the task still runs.   *)
CloseH264_NoJoin ==
    /\ from = "h264"
    /\ pc = IF Pipelined THEN "join" ELSE "close"
    /\ jobs' = <<>> /\ freeYuv' = <<>>
    /\ mem' = mem \ {"h264"}
    /\ pc' = "open"
    /\ UNCHANGED <<store, jpeg, h264ok, codec, from, to, wslot, yuv,
                   task, held>>

(* ... wait for it, and only then free the buffers. *)
CloseH264 ==
    /\ from = "h264"
    /\ IF Pipelined THEN pc = "join" /\ enc = "ended" ELSE pc = "close"
    /\ enc' = "none" /\ ejob' = None
    /\ jobs' = <<>> /\ freeYuv' = <<>>
    /\ mem' = mem \ {"h264"}
    /\ pc' = "open"
    /\ UNCHANGED <<store, jpeg, h264ok, codec, from, to, wslot, yuv,
                   eslot, broken, held>>

(* open() of codec c succeeds.  Opening H.264 may cost MJPEG its kept      *)
(* buffers.                                                                *)
Opened(c) ==
    /\ mem' \in {mem \cup {c}, {c}}
    /\ jpeg' = (c = "mjpeg")
    /\ Install(c)
    /\ codec' = c
    /\ IF c = "h264" /\ Pipelined
         THEN /\ enc' = "idle" /\ ejob' = None /\ eslot' = None
              /\ jobs' = <<>> /\ freeYuv' = [i \in 1 .. YuvBufs |-> i - 1]
         ELSE UNCHANGED <<enc, ejob, eslot, jobs, freeYuv>>
    /\ UNCHANGED broken

(* open() of codec c fails; MJPEG's kept buffers may be gone with it. *)
OpenFails ==
    /\ mem' \in {mem, mem \ {"mjpeg"}}
    /\ UNCHANGED <<store, jpeg, codec, task, queues>>

OpenTo ==
    /\ pc = "open"
    /\ Opened(to)
    /\ pc' = "run"
    /\ UNCHANGED <<h264ok, from, to, wslot, yuv, held>>

(* MJPEG is the fallback; there is none for MJPEG itself but the codec     *)
(* that ran before.                                                        *)
OpenToFails ==
    /\ pc = "open"
    /\ OpenFails
    /\ pc' = IF to = "mjpeg" THEN "back" ELSE "fallback"
    /\ UNCHANGED <<h264ok, from, to, wslot, yuv, held>>

OpenFallback ==
    /\ pc = "fallback"
    /\ Opened("mjpeg")
    /\ h264ok' = (h264ok /\ from # "mjpeg")
    /\ pc' = "run"
    /\ UNCHANGED <<from, to, wslot, yuv, held>>

OpenFallbackFails ==
    /\ pc = "fallback"
    /\ OpenFails
    /\ pc' = "back"
    /\ UNCHANGED <<h264ok, from, to, wslot, yuv, held>>

(* The codec that ran before is tried last. *)
OpenBack ==
    /\ pc = "back" /\ from # "none" /\ from # to
    /\ Opened(from)
    /\ h264ok' = (h264ok /\ to # "h264")
    /\ pc' = "run"
    /\ UNCHANGED <<from, to, wslot, yuv, held>>

(* Nothing runs; the loop keeps trying.  A switch from a running codec     *)
(* that ends here takes H.264 off the table.                               *)
OpenNone ==
    /\ pc = "back"
    /\ IF from # "none" /\ from # to THEN mem' \in {mem, mem \ {"mjpeg"}}
                                     ELSE UNCHANGED mem
    /\ codec' = "none"
    /\ h264ok' = (h264ok /\ ~(from # "none" /\ to = "h264"))
    /\ pc' = "run"
    /\ UNCHANGED <<store, jpeg, from, to, wslot, yuv, task, queues, held>>

(* The recorder takes MJPEG's kept buffers while the engine is closed      *)
(* (capture_mjpeg_release_buffers).                                        *)
ReleaseIdle ==
    /\ ~jpeg
    /\ mem' = mem \ {"mjpeg"}
    /\ UNCHANGED <<store, jpeg, h264ok, loop, task, queues, held>>

----------------------------------------------------------------------------
(* capture_loop_run starts by opening a codec with no codec before it. *)
Init ==
    /\ slots = 0 /\ front = None /\ payload = "none"
    /\ buf = [i \in Slots |-> "none"]
    /\ len = [i \in Slots |-> 0] /\ ref = [i \in Slots |-> 0]
    /\ mem = {} /\ jpeg = FALSE /\ h264ok = TRUE
    /\ codec = "none" /\ pc = "run" /\ from = "none" /\ to = "mjpeg"
    /\ wslot = None /\ yuv = None
    /\ enc = "none" /\ ejob = None /\ eslot = None /\ broken = FALSE
    /\ jobs = <<>> /\ freeYuv = <<>>
    /\ held = [r \in Readers |-> Nothing]

Switch ==
    \/ Quiesce \/ QuiesceTimeout \/ CloseJpeg \/ CloseSend \/ CloseH264
    \/ OpenTo \/ OpenToFails \/ OpenFallback \/ OpenFallbackFails
    \/ OpenBack \/ OpenNone

Loop ==
    \/ EncodeBegin \/ EncodePublish \/ EncodeDrop
    \/ ConvertBegin \/ ConvertSend \/ ConvertDrop
    \/ SwitchBegin \/ EncoderFallback \/ Switch

EncTask ==
    \/ JobTake \/ JobBegin \/ JobSkip \/ JobPublish \/ JobFail \/ JobReturn

Next ==
    \/ Loop \/ EncTask \/ ReleaseIdle
    \/ \E r \in Readers : Acquire(r) \/ Release(r)

Spec == Init /\ [][Next]_vars

(* The tasks are scheduled.  Nothing is assumed of the readers: a switch   *)
(* that waits for one gives up by itself.                                  *)
FairSpec == Spec /\ WF_vars(Switch) /\ WF_vars(EncTask)

----------------------------------------------------------------------------
(* Properties.                                                             *)

StoreOK ==
    /\ slots \in 0 .. JpegSlots /\ front \in Slots \cup {None}
    /\ buf \in [Slots -> Codecs \cup {"none"}]
    /\ len \in [Slots -> {0, 1}] /\ ref \in [Slots -> Nat]
    /\ payload \in Codecs \cup {"none"}

CodecsOK ==
    /\ mem \subseteq Codecs
    /\ jpeg \in BOOLEAN /\ h264ok \in BOOLEAN

LoopOK ==
    /\ codec \in Codecs \cup {"none"}
    /\ pc \in {"run", "write", "convert", "quiesce", "close", "join", "open",
               "fallback", "back"}
    /\ from \in Codecs \cup {"none"} /\ to \in Codecs
    /\ wslot \in Slots \cup {None} /\ yuv \in Yuv \cup {None}

TaskOK ==
    /\ enc \in {"none", "idle", "job", "write", "return", "ended"}
    /\ ejob \in Yuv \cup {None} /\ eslot \in Slots \cup {None}
    /\ broken \in BOOLEAN
    /\ jobs \in Seq(Yuv \cup {Sentinel}) /\ freeYuv \in Seq(Yuv)

HeldOK ==
    held \in [Readers -> [slot : Slots \cup {None},
                          data : Codecs \cup {"none"},
                          payload : Codecs \cup {"none"}]]

TypeOK == StoreOK /\ CodecsOK /\ LoopOK /\ TaskOK /\ HeldOK

(* The buffers an encoder is writing now. *)
Writing ==
    (IF pc = "write" THEN {<<codec, wslot>>} ELSE {})
        \cup (IF enc = "write" THEN {<<"h264", eslot>>} ELSE {})

(* A reader sends from memory that is still the codec's, that no encoder   *)
(* writes meanwhile, and that is tagged with the format it holds, through  *)
(* every switch, refused switch and fallback.                              *)
HeldIntact ==
    \A r \in Readers : held[r] # Nothing =>
        /\ held[r].data \in mem
        /\ <<held[r].data, held[r].slot>> \notin Writing
        /\ held[r].payload = held[r].data

(* An encoder never writes memory that was freed or given away: close      *)
(* waits for the encode task first.                                        *)
WritesLive == \A b \in Writing : b[1] \in mem

(* The reference counts are the readers', so a switch never finds the      *)
(* store free while someone sends, nor busy for ever.                      *)
RefsCounted ==
    \A i \in Slots :
        ref[i] = Cardinality({r \in Readers : held[r] # Nothing /\ held[r].slot = i})

(* While the encode task is there, each of its input buffers is in one     *)
(* place: free, queued, being filled, or being encoded.                    *)
YuvOnce ==
    enc \notin {"none", "ended"} =>
        \A y \in Yuv :
            Cardinality({i \in 1 .. Len(jobs) : jobs[i] = y})
              + Cardinality({i \in 1 .. Len(freeYuv) : freeYuv[i] = y})
              + (IF yuv = y THEN 1 ELSE 0) + (IF ejob = y THEN 1 ELSE 0) = 1

(* What is published can be read: a front frame with a live buffer is one  *)
(* the running codec wrote, tagged as that codec's.                        *)
FrontTagged ==
    front >= 0 /\ buf[front] # "none" => buf[front] = payload /\ payload \in mem

(* A codec switch always comes to an end: neither a slow reader nor the    *)
(* encode task blocks the loop for good.                                   *)
SwitchEnds == pc \in {"quiesce", "close", "join", "open"} ~> pc = "run"
=============================================================================
