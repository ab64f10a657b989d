---------------------------- MODULE CaptureRing ----------------------------
(***************************************************************************)
(* The CSI frame-buffer ring of the video pipeline.                        *)
(*                                                                         *)
(* The CSI receiver's DMA free-runs: at the end of every frame its         *)
(* interrupt asks cam_on_get_new for the next buffer and then hands the    *)
(* finished one to cam_on_done (capture_hw.c).  The capture loop           *)
(* (capture_loop.c) takes the newest finished buffer, or - "early encode"  *)
(* - the one the DMA is still filling, and reads it for the whole encode.  *)
(* Three indices under fb_lock keep the two apart.  The frame gate closes  *)
(* the bridge as each frame lands and the loop opens it again.             *)
(*                                                                         *)
(* Each callback is one step, because each takes fb_lock once; the loop    *)
(* may run between the two unless SameCore says that the interrupt and the *)
(* loop share a core, as they do in this firmware (both are on core 0).    *)
(***************************************************************************)
EXTENDS Integers

CONSTANTS
    FbCount,        \* CAPTURE_FB_COUNT: 3 with direct encode, else 2
    EarlyEncode,    \* CAPTURE_EARLY_ENCODE
    YuvSwap,        \* CAPTURE_YUV_SWAP: the M5Stack's byte reorder
    SemMax,         \* the limit of csi_done_sem, 32 in the code
    SameCore        \* the loop cannot run inside the interrupt

ASSUME FbCountAssumption == FbCount \in Nat /\ FbCount >= 2
ASSUME SemMaxAssumption  == SemMax \in Nat \ {0}
ASSUME BuildAssumption   == /\ EarlyEncode \in BOOLEAN
                            /\ YuvSwap \in BOOLEAN
                            /\ ~(EarlyEncode /\ YuvSwap)
                            /\ SameCore \in BOOLEAN

Slots == 0 .. FbCount - 1
None  == -1                  \* "-1" of the three indices; for the DMA: drop_fb
Off   == -2                  \* the receiver is stopped or was never built
Index == Slots \cup {None}

VARIABLES
    write, ready, held,      \* write_fb_idx, ready_fb_idx, held_fb_idx
    dma,                     \* the buffer the DMA fills: a slot, None, or Off
    isr, fin,                \* the interrupt's progress; the finished buffer
    sem,                     \* csi_done_sem
    gateOn, gateClosed,      \* s_gate_on, s_gate_closed
    s_on,                    \* the static of early_gate
    pc,                      \* where the capture loop is
    w,                       \* write_fb_idx as read before the lock
    src,                     \* the slot the loop reads
    early, earlyNext,        \* early, early_next
    taken,                   \* the frame coming in is not newer than early_data_us
    datum                    \* data_us still names the frame coming in

ring == <<write, ready, held>>
hw   == <<dma, isr, fin>>
gate == <<gateOn, gateClosed, s_on>>
loop == <<pc, w, src, early, earlyNext>>
times == <<taken, datum>>
vars == <<ring, hw, sem, gate, loop, times>>

Labels == {"top", "wait", "rebuild", "gate", "turn", "text", "textRead",
           "area", "areaRead", "pick", "time", "early", "hold",
           "park", "lead", "read", "after", "release"}

----------------------------------------------------------------------------
(* The interrupt.                                                          *)

Free == Slots \ {write, ready, held}

(* Mutant of IsPick: the newest complete slot is not spared.               *)
IsPick_TakesReady(p) ==
    LET open == Slots \ {write, held} IN
    IF open = {} THEN p = None ELSE p \in open /\ \A k \in open : p <= k

(* Mutant of IsPick: the search stops one slot short.                      *)
IsPick_OneShort(p) ==
    LET open == Free \ {FbCount - 1} IN
    IF open = {} THEN p = None ELSE p \in open /\ \A k \in open : p <= k

(* The slot cam_on_get_new picks: the first one that is not being filled,  *)
(* not the newest complete one and not held; drop_fb when there is none.   *)
IsPick(p) ==
    IF Free = {} THEN p = None
                 ELSE p \in Free /\ \A k \in Free : p <= k

(* cam_on_get_new at the end of a frame: the DMA moves on.  A frame ends   *)
(* only while the bridge is open.                                          *)
CamGetNew ==
    /\ dma # Off
    /\ isr = "idle"
    /\ ~gateClosed
    /\ \E p \in Index : IsPick(p) /\ write' = p /\ dma' = p
    /\ fin' = dma
    /\ isr' = "done"
    /\ taken' = FALSE
    /\ datum' = FALSE
    /\ UNCHANGED <<ready, held, sem, gate, loop>>

(* Mutant of CamOnDone: it returns early once it has closed the gate.      *)
CamOnDone_GateNoGive ==
    /\ isr = "done"
    /\ isr' = "idle"
    /\ ready' = IF fin \in Slots THEN fin ELSE ready
    /\ gateClosed' = (gateClosed \/ (gateOn /\ fin \in Slots))
    /\ sem' = IF ~gateClosed' /\ sem < SemMax THEN sem + 1 ELSE sem
    /\ UNCHANGED <<write, held, dma, fin, gateOn, s_on, loop, times>>

(* cam_on_done for the buffer that was just finished.  A dropped frame     *)
(* changes no index, but it gives the semaphore like any other.            *)
CamOnDone ==
    /\ isr = "done"
    /\ isr' = "idle"
    /\ IF fin \in Slots
         THEN /\ ready' = fin
              /\ gateClosed' = (gateClosed \/ gateOn)
         ELSE UNCHANGED <<ready, gateClosed>>
    /\ sem' = IF sem < SemMax THEN sem + 1 ELSE sem
    /\ UNCHANGED <<write, held, dma, fin, gateOn, s_on, loop, taken, datum>>

----------------------------------------------------------------------------
(* The capture loop: rebuilding the receiver.                              *)

At(l) == pc = l /\ (SameCore => isr = "idle")

(* csi_destroy: esp_cam_ctlr_stop returns with the channel disabled.       *)
CsiDestroy == isr = "idle" /\ dma' = Off /\ UNCHANGED <<isr, fin>>

ResetRing == write' = None /\ ready' = None /\ held' = None

(* A mode switch asked for by the monitor: capture_hw_apply_mode up to     *)
(* csi_create.                                                             *)
ApplyMode ==
    /\ At("top")
    /\ CsiDestroy
    /\ ResetRing
    /\ sem' = 0
    /\ pc' = "rebuild"
    /\ datum' = FALSE /\ taken' = FALSE
    /\ UNCHANGED <<gate, w, src, early, earlyNext>>

(* capture_hw_hdmi_recover up to csi_create; when the bridge's lock cannot *)
(* be had it returns with the receiver gone and the ring as it was.        *)
HdmiRecover ==
    /\ At("wait")
    /\ sem = 0
    /\ CsiDestroy
    /\ datum' = FALSE /\ taken' = FALSE
    /\ \/ ResetRing /\ pc' = "rebuild"
       \/ UNCHANGED ring /\ pc' = "top"
    /\ UNCHANGED <<sem, gate, w, src, early, earlyNext>>

(* What csi_create does to the gate; on the M5Stack it depends on the size *)
(* of the mode.                                                            *)
CreateGate ==
    /\ gateOn' \in (IF YuvSwap THEN BOOLEAN ELSE {FALSE})
    /\ gateClosed' = FALSE
    /\ UNCHANGED s_on

(* csi_create and esp_cam_ctlr_start; the start asks for a first buffer.   *)
CsiStart ==
    /\ At("rebuild")
    /\ CreateGate
    /\ \E p \in Index : IsPick(p) /\ write' = p /\ dma' = p
    /\ pc' = "top"
    /\ UNCHANGED <<ready, held, isr, fin, sem, w, src, early, earlyNext, times>>

(* Either call fails: the receiver stays down until the next attempt.      *)
CsiFail ==
    /\ At("rebuild")
    /\ CreateGate \/ UNCHANGED gate
    /\ pc' = "top"
    /\ UNCHANGED <<ring, hw, sem, w, src, early, earlyNext, times>>

----------------------------------------------------------------------------
(* The capture loop: waiting for a frame.                                  *)

BeginWait ==
    /\ At("top")
    /\ pc' = "wait"
    /\ earlyNext' = FALSE
    /\ UNCHANGED <<ring, hw, sem, gate, w, src, early, times>>

(* Right after an early encode a frame is coming in that was not encoded:  *)
(* no wait.  Both ways drain the semaphore.                                *)
SkipWait ==
    /\ At("top")
    /\ EarlyEncode /\ earlyNext
    /\ write >= 0 /\ ~taken
    /\ earlyNext' = FALSE
    /\ sem' = 0
    /\ pc' = "gate"
    /\ UNCHANGED <<ring, hw, gate, w, src, early, times>>

TakeFrame ==
    /\ At("wait")
    /\ sem > 0
    /\ sem' = 0
    /\ pc' = "gate"
    /\ UNCHANGED <<ring, hw, gate, w, src, early, earlyNext, times>>

(* No frame for two seconds and nothing to recover: no signal, a mode the  *)
(* link cannot carry, or the last recovery was less than 8 s ago.          *)
WaitTimeout ==
    /\ At("wait")
    /\ sem = 0
    /\ pc' = "top"
    /\ UNCHANGED <<ring, hw, sem, gate, w, src, early, earlyNext, times>>

(* Mutant of GateOpen: the bridge is not opened.                           *)
GateOpen_Never ==
    /\ At("gate")
    /\ pc' = "turn"
    /\ UNCHANGED <<ring, hw, sem, gate, w, src, early, earlyNext, times>>

(* capture_hw_frame_gate_open *)
GateOpen ==
    /\ At("gate")
    /\ gateClosed' = FALSE
    /\ pc' = "turn"
    /\ UNCHANGED <<ring, hw, sem, gateOn, s_on, w, src, early, earlyNext, times>>

(* The ways a turn ends without the frame: nothing complete yet, a codec   *)
(* switch, too hot, over the frame rate limit.  Otherwise it is looked at  *)
(* with nobody watching, or encoded.                                       *)
TakeTurn ==
    /\ At("turn")
    /\ pc' \in (IF ready < 0 THEN {"top"} ELSE {"top", "text", "pick"})
    /\ UNCHANGED <<ring, hw, sem, gate, w, src, early, earlyNext, times>>

----------------------------------------------------------------------------
(* capture_screentext_idle and then regions_idle: hold the newest frame,   *)
(* read it, let go.                                                        *)

IdleSkip(from, to) ==
    /\ At(from)
    /\ pc' = to
    /\ UNCHANGED <<ring, hw, sem, gate, w, src, early, earlyNext, times>>

IdleHold(from, to) ==
    /\ At(from)
    /\ held' = ready
    /\ src' = ready
    /\ pc' = to
    /\ UNCHANGED <<write, ready, hw, sem, gate, w, early, earlyNext, times>>

IdleRelease(from, to) ==
    /\ At(from)
    /\ held' = None
    /\ pc' = to
    /\ UNCHANGED <<write, ready, hw, sem, gate, w, src, early, earlyNext, times>>

Idle ==
    \/ IdleSkip("text", "area")
    \/ IdleHold("text", "textRead")
    \/ IdleRelease("textRead", "area")
    \/ IdleSkip("area", "top")
    \/ IdleHold("area", "areaRead")
    \/ IdleRelease("areaRead", "top")

----------------------------------------------------------------------------
(* The encode.                                                             *)

(* early_gate(want), which calls capture_hw_frame_gate_set on a change.    *)
EarlyGate(want) ==
    IF want = s_on
      THEN UNCHANGED gate
      ELSE /\ s_on' = want
           /\ gateOn' = want
           /\ gateClosed' = (gateClosed /\ want)

(* The slot coming in, read without fb_lock ...                           *)
PickEarly ==
    /\ At("pick")
    /\ EarlyEncode
    /\ \E want \in BOOLEAN : EarlyGate(want)
    /\ w' = write
    /\ pc' = "time"
    /\ UNCHANGED <<ring, hw, sem, src, early, earlyNext, times>>

(* ... and the time of the frame coming in, which may be another by then:  *)
(* early_start_us and the test that it was not encoded already.            *)
StartEarly ==
    /\ At("time")
    /\ w >= 0 /\ ~taken
    /\ datum' = TRUE
    /\ pc' = "early"
    /\ UNCHANGED <<ring, hw, sem, gate, w, src, early, earlyNext, taken>>

NotEarly ==
    /\ At("time")
    /\ pc' = "hold"
    /\ UNCHANGED <<ring, hw, sem, gate, w, src, early, earlyNext, times>>

PickWhole ==
    /\ At("pick")
    /\ IF EarlyEncode THEN \E want \in BOOLEAN : EarlyGate(want)
                      ELSE UNCHANGED gate
    /\ pc' = "hold"
    /\ UNCHANGED <<ring, hw, sem, w, src, early, earlyNext, times>>

(* Under fb_lock: slot w is still the frame coming in, or just landed.     *)
HoldEarly ==
    /\ At("early")
    /\ IF write = w \/ ready = w
         THEN /\ held' = w
              /\ src' = w
              /\ early' = TRUE
              /\ taken' = datum
              /\ pc' = "park"
         ELSE /\ pc' = "hold"
              /\ UNCHANGED <<held, src, early, taken>>
    /\ UNCHANGED <<write, ready, hw, sem, gate, w, earlyNext, datum>>

(* Mutant of HoldReady: the slot is read without being held.               *)
HoldReady_NotHeld ==
    /\ At("hold")
    /\ src' = ready
    /\ pc' = IF ready < 0 THEN "top" ELSE "park"
    /\ UNCHANGED <<ring, hw, sem, gate, w, early, earlyNext, times>>

(* Under fb_lock: the newest complete frame.                               *)
HoldReady ==
    /\ At("hold")
    /\ held' = ready
    /\ src' = ready
    /\ pc' = IF ready < 0 THEN "top" ELSE "park"
    /\ UNCHANGED <<write, ready, hw, sem, gate, w, early, earlyNext, times>>

(* capture_park_frame_begin lets the frame through ...                     *)
ParkBegin ==
    /\ At("park")
    /\ pc' = IF early THEN "lead" ELSE "read"
    /\ UNCHANGED <<ring, hw, sem, gate, w, src, early, earlyNext, times>>

(* ... or a restart is coming.                                             *)
ParkRefused ==
    /\ At("park")
    /\ held' = None
    /\ early' = FALSE
    /\ pc' = "top"
    /\ UNCHANGED <<write, ready, hw, sem, gate, w, src, earlyNext, times>>

(* The loop waits until the first lines of the early frame are in the      *)
(* buffer, for a frame period at most: the encode starts either way.       *)
LeadWait ==
    /\ At("lead")
    /\ pc' = "read"
    /\ UNCHANGED <<ring, hw, sem, gate, w, src, early, earlyNext, times>>

(* The byte reorder failed: the turn ends with held_fb_idx still set.      *)
SwapFailed ==
    /\ At("read")
    /\ YuvSwap
    /\ pc' = "top"
    /\ UNCHANGED <<ring, hw, sem, gate, w, src, early, earlyNext, times>>

EncodeWhole ==
    /\ At("read")
    /\ ~early
    /\ pc' = "release"
    /\ UNCHANGED <<ring, hw, sem, gate, w, src, early, earlyNext, times>>

(* Mutant of EncodeEarly: the readers look at the frame in any case.       *)
EncodeEarly_NotLanded ==
    /\ At("read")
    /\ early
    /\ pc' = "after"
    /\ UNCHANGED <<ring, hw, sem, gate, w, src, early, earlyNext, times>>

(* The encode ends, behind the DMA or ahead of it; the readers look at the *)
(* frame only if it has landed.                                            *)
EncodeEarly ==
    /\ At("read")
    /\ early
    /\ pc' = IF write # src THEN "after" ELSE "release"
    /\ UNCHANGED <<ring, hw, sem, gate, w, src, early, earlyNext, times>>

ReadersDone ==
    /\ At("after")
    /\ pc' = "release"
    /\ UNCHANGED <<ring, hw, sem, gate, w, src, early, earlyNext, times>>

Release ==
    /\ At("release")
    /\ held' = None
    /\ early' = FALSE
    /\ earlyNext' = early
    /\ gateClosed' = (gateClosed /\ ~early)
    /\ pc' = "top"
    /\ UNCHANGED <<write, ready, hw, sem, gateOn, s_on, w, src, times>>

----------------------------------------------------------------------------
(* Capture starts with the receiver built and its first buffer asked for.  *)
Init ==
    /\ write = 0 /\ ready = None /\ held = None
    /\ dma = 0 /\ isr = "idle" /\ fin = None
    /\ sem = 0
    /\ gateOn \in (IF YuvSwap THEN BOOLEAN ELSE {FALSE})
    /\ gateClosed = FALSE /\ s_on = FALSE
    /\ pc = "top" /\ w = None /\ src = None
    /\ early = FALSE /\ earlyNext = FALSE
    /\ taken = FALSE /\ datum = FALSE

Loop ==
    \/ ApplyMode \/ HdmiRecover \/ CsiStart \/ CsiFail
    \/ BeginWait \/ SkipWait \/ TakeFrame \/ WaitTimeout
    \/ GateOpen \/ TakeTurn \/ Idle
    \/ PickEarly \/ StartEarly \/ NotEarly \/ PickWhole
    \/ HoldEarly \/ HoldReady
    \/ ParkBegin \/ ParkRefused \/ LeadWait \/ SwapFailed
    \/ EncodeWhole \/ EncodeEarly \/ ReadersDone \/ Release

Next == CamGetNew \/ CamOnDone \/ Loop

Spec == Init /\ [][Next]_vars

(* The source keeps sending, the interrupt is served, and the loop runs    *)
(* between interrupts: strong fairness, since an interrupt keeps it off    *)
(* the core only for as long as it lasts.                                  *)
FairSpec ==
    /\ Spec
    /\ WF_vars(CamGetNew) /\ WF_vars(CamOnDone) /\ SF_vars(Loop)

----------------------------------------------------------------------------
(* Properties.                                                             *)

IndexOK ==
    /\ write \in Index /\ ready \in Index /\ held \in Index
    /\ dma \in Index \cup {Off}
    /\ isr \in {"idle", "done"} /\ fin \in Index
    /\ sem \in 0 .. SemMax
    /\ pc \in Labels
    /\ w \in Index /\ src \in Index

FlagsOK ==
    /\ gateOn \in BOOLEAN /\ gateClosed \in BOOLEAN /\ s_on \in BOOLEAN
    /\ early \in BOOLEAN /\ earlyNext \in BOOLEAN
    /\ taken \in BOOLEAN /\ datum \in BOOLEAN

TypeOK == IndexOK /\ FlagsOK

(* The loop is reading the pixels of slot src. *)
Reading == pc \in {"textRead", "areaRead", "read", "after"}

(* Everything that reads a frame as a whole - the screen-text, flat and    *)
(* region readers, the snapshot, a codec given a complete frame, and the   *)
(* readers that run after an early encode found its frame landed - reads a *)
(* slot the DMA is not writing (capture_priv.h, the comment on fb_lock).   *)
WholeFrame ==
    pc \in {"textRead", "areaRead", "after"} \/ (pc = "read" /\ ~early)
        => src \in Slots /\ dma # src

(* The DMA never enters the slot that is being read: a slot it has left,   *)
(* or was not in, stays out of its reach until the read is over, also when *)
(* the read began on the frame coming in (early encode).                   *)
NoOverwrite == [][Reading /\ dma # src => dma' # src]_vars

(* With a third buffer the receiver never drops two frames in a row, so a  *)
(* just-completed frame is there when the encoder finishes                 *)
(* (capture_priv.h, the comment on CAPTURE_FB_COUNT).                      *)
NoTwoDrops ==
    [][FbCount >= 3 /\ dma = None /\ isr = "idle" /\ isr' = "done"
            => dma' # None]_vars

(* A closed bridge is always opened again, or the receiver is rebuilt: no  *)
(* frame waits behind the gate for ever.                                   *)
GateReopens == gateClosed /\ dma # Off ~> ~gateClosed \/ dma = Off

(* While the receiver stays up the loop keeps getting frames ...           *)
LoopTurns == <>[](dma # Off) => []<>(pc = "turn")

(* ... and frames keep landing in the ring, whatever the loop holds: "keep *)
(* the latest, skip the rest" (capture_priv.h, the comment on fb_lock).    *)
RingFills == <>[](dma # Off) => []<>(isr = "done" /\ fin \in Slots)
=============================================================================
