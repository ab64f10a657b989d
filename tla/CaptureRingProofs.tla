------------------------- MODULE CaptureRingProofs -------------------------
(***************************************************************************)
(* Proofs about CaptureRing, for every ring depth of at least two and every *)
(* build.  The inductive invariant RingInv says where the DMA, the newest  *)
(* frame and the loop's slot can be relative to each other.                *)
(***************************************************************************)
EXTENDS CaptureRing, TLAPS

(* The loop owns slot src, through held_fb_idx. *)
Holding == pc \in {"textRead", "areaRead", "park", "lead", "read", "after", "release"}

(* The turns on which a frame has completed. *)
HaveReady == pc \in {"text", "textRead", "area", "pick", "time", "early", "hold"}

(* write_fb_idx is the buffer the DMA fills, and a stopped receiver has no *)
(* interrupt pending.                                                      *)
DmaInv ==
    /\ dma # Off => dma = write
    /\ dma = Off => isr = "idle"
    /\ pc = "rebuild" => dma = Off

(* The newest complete frame, and the one about to become it, are not the  *)
(* buffer the DMA fills.                                                   *)
ReadyInv ==
    /\ ready \in Slots => ready # dma
    /\ isr = "done" /\ fin \in Slots => fin # dma
    /\ HaveReady => ready \in Slots

(* What the loop holds, and that a frame taken whole was complete. *)
HoldInv ==
    /\ Holding => src \in Slots /\ held = src
    /\ pc = "time" => EarlyEncode
    /\ pc = "early" => w \in Slots /\ EarlyEncode
    /\ early => EarlyEncode /\ pc \in {"park", "lead", "read", "after", "release"}
    /\ pc \in {"textRead", "areaRead", "after"} => dma # src
    /\ pc \in {"park", "read"} /\ ~early => dma # src
    /\ pc \in {"lead", "after"} => early

RingInv == TypeOK /\ DmaInv /\ ReadyInv /\ HoldInv

(* The facts about the constants that every step needs. *)
LEMMA Constants ==
    /\ None \notin Slots /\ Off \notin Index /\ None \in Index
    /\ Slots \subseteq Int /\ Slots \subseteq Index
    /\ \A i \in Index : (i >= 0 \/ ~(i < 0)) => i \in Slots
    /\ SemMax \in Nat /\ SemMax > 0 /\ 0 \in Slots
    /\ EarlyEncode \in BOOLEAN /\ YuvSwap \in BOOLEAN
    /\ SameCore \in BOOLEAN
    /\ ~(EarlyEncode /\ YuvSwap)
BY FbCountAssumption, SemMaxAssumption, BuildAssumption DEF Slots, None, Off, Index

(* The initial state. *)
LEMMA InitInv == Init => RingInv
<1> SUFFICES ASSUME Init PROVE RingInv
  OBVIOUS
<1>1. gateOn \in BOOLEAN
  BY Constants DEF Init
<1>2. IndexOK
  BY Constants DEF Init, IndexOK, Labels, Index
<1>5. FlagsOK
  BY <1>1 DEF Init, FlagsOK
<1>3. DmaInv /\ ReadyInv
  BY Constants DEF Init, DmaInv, ReadyInv, HaveReady
<1>4. HoldInv
  BY DEF Init, HoldInv, Holding
<1> QED
  BY <1>2, <1>3, <1>4, <1>5 DEF RingInv, TypeOK

(* A pick is in no way the slot that is filled, complete or held. *)
LEMMA PickApart ==
    ASSUME NEW p \in Index, IsPick(p)
    PROVE  p \in Slots => p # write /\ p # ready /\ p # held
BY Constants DEF IsPick, Free

(* The end of a frame. *)
LEMMA GetNewInv == RingInv /\ CamGetNew => RingInv'
<1> SUFFICES ASSUME RingInv, CamGetNew PROVE RingInv'
  OBVIOUS
<1> PICK p \in Index : IsPick(p) /\ write' = p /\ dma' = p
  BY DEF CamGetNew
<1>1. p \in Slots => p # write /\ p # ready /\ p # held
  BY PickApart
<1>2. IndexOK'
  BY Constants DEF CamGetNew, RingInv, TypeOK, IndexOK, DmaInv, gate, loop, Index
<1>7. FlagsOK'
  BY DEF CamGetNew, RingInv, TypeOK, FlagsOK, gate, loop
<1>3. DmaInv'
  BY Constants DEF CamGetNew, RingInv, TypeOK, IndexOK, DmaInv, gate, loop
<1>4. ReadyInv'
  BY <1>1, Constants DEF CamGetNew, RingInv, TypeOK, IndexOK, DmaInv, ReadyInv, HaveReady,
       gate, loop
<1>5. HoldInv'
  BY <1>1, Constants DEF CamGetNew, RingInv, TypeOK, IndexOK, HoldInv, Holding, gate, loop
<1> QED
  BY <1>2, <1>3, <1>4, <1>5, <1>7 DEF RingInv, TypeOK

(* A finished buffer becomes the newest one. *)
LEMMA OnDoneInv == RingInv /\ CamOnDone => RingInv'
<1> SUFFICES ASSUME RingInv, CamOnDone PROVE RingInv'
  OBVIOUS
<1>1. IndexOK'
  BY Constants DEF CamOnDone, RingInv, TypeOK, IndexOK, loop, Index
<1>4. FlagsOK'
  BY DEF CamOnDone, RingInv, TypeOK, FlagsOK, loop
<1>2. DmaInv' /\ ReadyInv' /\ HoldInv'
  BY Constants DEF CamOnDone, RingInv, TypeOK, IndexOK, DmaInv, ReadyInv, HoldInv, HaveReady,
       Holding, loop
<1> QED
  BY <1>1, <1>2, <1>4 DEF RingInv, TypeOK

(* Rebuilding the receiver: the ring is reset only while the DMA is off. *)
LEMMA RebuildInv == RingInv /\ (ApplyMode \/ HdmiRecover \/ CsiStart \/ CsiFail) => RingInv'
<1> SUFFICES ASSUME RingInv, ApplyMode \/ HdmiRecover \/ CsiStart \/ CsiFail PROVE RingInv'
  OBVIOUS
<1> USE Constants DEF RingInv, TypeOK, At
<1>1. CASE ApplyMode
  <2>1. IndexOK'
    BY <1>1 DEF ApplyMode, CsiDestroy, ResetRing, gate, IndexOK, Index, Labels
  <2>2. FlagsOK'
    BY <1>1 DEF ApplyMode, CsiDestroy, ResetRing, gate, FlagsOK
  <2>3. DmaInv' /\ ReadyInv'
    BY <1>1 DEF ApplyMode, CsiDestroy, ResetRing, gate, IndexOK, DmaInv, ReadyInv, HaveReady
  <2>4. HoldInv'
    BY <1>1 DEF ApplyMode, CsiDestroy, ResetRing, gate, IndexOK, DmaInv, ReadyInv, HoldInv,
         Holding, HaveReady
  <2> QED
    BY <2>1, <2>2, <2>3, <2>4
<1>2. CASE HdmiRecover
  <2>1. IndexOK'
    BY <1>2 DEF HdmiRecover, CsiDestroy, ResetRing, ring, gate, IndexOK, Index, Labels
  <2>2. FlagsOK'
    BY <1>2 DEF HdmiRecover, CsiDestroy, ResetRing, ring, gate, FlagsOK
  <2>3. DmaInv' /\ ReadyInv'
    BY <1>2 DEF HdmiRecover, CsiDestroy, ResetRing, ring, gate, IndexOK, DmaInv, ReadyInv,
         HaveReady
  <2>4. HoldInv'
    BY <1>2 DEF HdmiRecover, CsiDestroy, ResetRing, ring, gate, IndexOK, DmaInv, ReadyInv,
         HoldInv, Holding, HaveReady
  <2> QED
    BY <2>1, <2>2, <2>3, <2>4
<1>3. CASE CsiStart
  <2>1. IndexOK'
    BY <1>3 DEF CsiStart, CreateGate, IsPick, Free, times, IndexOK, Index, Labels
  <2>2. FlagsOK'
    BY <1>3 DEF CsiStart, CreateGate, IsPick, Free, times, FlagsOK
  <2>3. DmaInv' /\ ReadyInv'
    BY <1>3 DEF CsiStart, CreateGate, IsPick, Free, times, IndexOK, DmaInv, ReadyInv, HaveReady
  <2>4. HoldInv'
    BY <1>3 DEF CsiStart, CreateGate, IsPick, Free, times, IndexOK, DmaInv, ReadyInv, HoldInv,
         Holding, HaveReady
  <2> QED
    BY <2>1, <2>2, <2>3, <2>4
<1>4. CASE CsiFail
  <2>1. IndexOK'
    BY <1>4 DEF CsiFail, CreateGate, ring, hw, gate, times, IndexOK, Index, Labels
  <2>2. FlagsOK'
    BY <1>4 DEF CsiFail, CreateGate, ring, hw, gate, times, FlagsOK
  <2>3. DmaInv' /\ ReadyInv'
    BY <1>4 DEF CsiFail, CreateGate, ring, hw, gate, times, IndexOK, DmaInv, ReadyInv, HaveReady
  <2>4. HoldInv'
    BY <1>4 DEF CsiFail, CreateGate, ring, hw, gate, times, IndexOK, DmaInv, ReadyInv,
         HoldInv, Holding, HaveReady
  <2> QED
    BY <2>1, <2>2, <2>3, <2>4
<1> QED
  BY <1>1, <1>2, <1>3, <1>4

(* Waiting for a frame moves no index. *)
LEMMA WaitInv ==
    ASSUME RingInv,
           \/ BeginWait \/ SkipWait \/ TakeFrame
           \/ WaitTimeout \/ GateOpen \/ TakeTurn
    PROVE  RingInv'
<1> USE Constants DEF RingInv, TypeOK, At
<1>1. CASE BeginWait
  <2>1. IndexOK'
    BY <1>1 DEF BeginWait, ring, hw, gate, times, IndexOK, Index, Labels
  <2>2. FlagsOK'
    BY <1>1 DEF BeginWait, ring, hw, gate, times, FlagsOK
  <2>3. DmaInv' /\ ReadyInv'
    BY <1>1 DEF BeginWait, ring, hw, gate, times, IndexOK, DmaInv, ReadyInv, HaveReady
  <2>4. HoldInv'
    BY <1>1 DEF BeginWait, ring, hw, gate, times, IndexOK, DmaInv, ReadyInv, HoldInv, Holding,
         HaveReady
  <2> QED
    BY <2>1, <2>2, <2>3, <2>4
<1>2. CASE SkipWait
  <2>1. IndexOK'
    BY <1>2 DEF SkipWait, ring, hw, gate, times, IndexOK, Index, Labels
  <2>2. FlagsOK'
    BY <1>2 DEF SkipWait, ring, hw, gate, times, FlagsOK
  <2>3. DmaInv' /\ ReadyInv'
    BY <1>2 DEF SkipWait, ring, hw, gate, times, IndexOK, DmaInv, ReadyInv, HaveReady
  <2>4. HoldInv'
    BY <1>2 DEF SkipWait, ring, hw, gate, times, IndexOK, DmaInv, ReadyInv, HoldInv, Holding,
         HaveReady
  <2> QED
    BY <2>1, <2>2, <2>3, <2>4
<1>3. CASE TakeFrame
  <2>1. IndexOK'
    BY <1>3 DEF TakeFrame, ring, hw, gate, times, IndexOK, Index, Labels
  <2>2. FlagsOK'
    BY <1>3 DEF TakeFrame, ring, hw, gate, times, FlagsOK
  <2>3. DmaInv' /\ ReadyInv'
    BY <1>3 DEF TakeFrame, ring, hw, gate, times, IndexOK, DmaInv, ReadyInv, HaveReady
  <2>4. HoldInv'
    BY <1>3 DEF TakeFrame, ring, hw, gate, times, IndexOK, DmaInv, ReadyInv, HoldInv, Holding,
         HaveReady
  <2> QED
    BY <2>1, <2>2, <2>3, <2>4
<1>4. CASE WaitTimeout
  <2>1. IndexOK'
    BY <1>4 DEF WaitTimeout, ring, hw, gate, times, IndexOK, Index, Labels
  <2>2. FlagsOK'
    BY <1>4 DEF WaitTimeout, ring, hw, gate, times, FlagsOK
  <2>3. DmaInv' /\ ReadyInv'
    BY <1>4 DEF WaitTimeout, ring, hw, gate, times, IndexOK, DmaInv, ReadyInv, HaveReady
  <2>4. HoldInv'
    BY <1>4 DEF WaitTimeout, ring, hw, gate, times, IndexOK, DmaInv, ReadyInv, HoldInv,
         Holding, HaveReady
  <2> QED
    BY <2>1, <2>2, <2>3, <2>4
<1>5. CASE GateOpen
  <2>1. IndexOK'
    BY <1>5 DEF GateOpen, ring, hw, gate, times, IndexOK, Index, Labels
  <2>2. FlagsOK'
    BY <1>5 DEF GateOpen, ring, hw, gate, times, FlagsOK
  <2>3. DmaInv' /\ ReadyInv'
    BY <1>5 DEF GateOpen, ring, hw, gate, times, IndexOK, DmaInv, ReadyInv, HaveReady
  <2>4. HoldInv'
    BY <1>5 DEF GateOpen, ring, hw, gate, times, IndexOK, DmaInv, ReadyInv, HoldInv, Holding,
         HaveReady
  <2> QED
    BY <2>1, <2>2, <2>3, <2>4
<1>6. CASE TakeTurn
  <2>1. IndexOK'
    BY <1>6 DEF TakeTurn, ring, hw, gate, times, IndexOK, Index, Labels
  <2>2. FlagsOK'
    BY <1>6 DEF TakeTurn, ring, hw, gate, times, FlagsOK
  <2>3. DmaInv' /\ ReadyInv'
    BY <1>6 DEF TakeTurn, ring, hw, gate, times, IndexOK, DmaInv, ReadyInv, HaveReady
  <2>4. HoldInv'
    BY <1>6 DEF TakeTurn, ring, hw, gate, times, IndexOK, DmaInv, ReadyInv, HoldInv, Holding,
         HaveReady
  <2> QED
    BY <2>1, <2>2, <2>3, <2>4
<1> QED
  BY <1>1, <1>2, <1>3, <1>4, <1>5, <1>6

(* Holding, reading and releasing the newest frame with nobody watching. *)
LEMMA IdleInv == RingInv /\ (Idle) => RingInv'
<1> SUFFICES ASSUME RingInv, Idle PROVE RingInv'
  OBVIOUS
<1> USE Constants DEF RingInv, TypeOK, At
<1>1. CASE Idle
  <2>1. IndexOK'
    BY <1>1 DEF Idle, IdleSkip, IdleHold, IdleRelease, ring, hw, gate, times, IndexOK, Index,
         Labels
  <2>2. FlagsOK'
    BY <1>1 DEF Idle, IdleSkip, IdleHold, IdleRelease, ring, hw, gate, times, FlagsOK
  <2>3. DmaInv' /\ ReadyInv'
    BY <1>1 DEF Idle, IdleSkip, IdleHold, IdleRelease, ring, hw, gate, times, IndexOK, DmaInv,
         ReadyInv, HaveReady
  <2>4. HoldInv'
    BY <1>1 DEF Idle, IdleSkip, IdleHold, IdleRelease, ring, hw, gate, times, IndexOK, DmaInv,
         ReadyInv, HoldInv, Holding, HaveReady
  <2> QED
    BY <2>1, <2>2, <2>3, <2>4
<1> QED
  BY <1>1

(* Choosing the frame to encode and taking hold of it. *)
LEMMA PickInv ==
    ASSUME RingInv,
           \/ PickEarly \/ PickWhole \/ HoldEarly
           \/ HoldReady \/ StartEarly \/ NotEarly
    PROVE  RingInv'
<1> USE Constants DEF RingInv, TypeOK, At
<1>1. CASE PickEarly
  <2>1. IndexOK'
    BY <1>1 DEF PickEarly, EarlyGate, ring, hw, gate, times, IndexOK, Index, Labels
  <2>2. FlagsOK'
    BY <1>1 DEF PickEarly, EarlyGate, ring, hw, gate, times, FlagsOK
  <2>3. DmaInv' /\ ReadyInv'
    BY <1>1 DEF PickEarly, EarlyGate, ring, hw, gate, times, IndexOK, DmaInv, ReadyInv,
         HaveReady
  <2>4. HoldInv'
    BY <1>1 DEF PickEarly, EarlyGate, ring, hw, gate, times, IndexOK, DmaInv, ReadyInv,
         HoldInv, Holding, HaveReady
  <2> QED
    BY <2>1, <2>2, <2>3, <2>4
<1>2. CASE PickWhole
  <2>1. IndexOK'
    BY <1>2 DEF PickWhole, EarlyGate, ring, hw, gate, times, IndexOK, Index, Labels
  <2>2. FlagsOK'
    BY <1>2 DEF PickWhole, EarlyGate, ring, hw, gate, times, FlagsOK
  <2>3. DmaInv' /\ ReadyInv'
    BY <1>2 DEF PickWhole, EarlyGate, ring, hw, gate, times, IndexOK, DmaInv, ReadyInv,
         HaveReady
  <2>4. HoldInv'
    BY <1>2 DEF PickWhole, EarlyGate, ring, hw, gate, times, IndexOK, DmaInv, ReadyInv,
         HoldInv, Holding, HaveReady
  <2> QED
    BY <2>1, <2>2, <2>3, <2>4
<1>3. CASE HoldEarly
  <2>1. IndexOK'
    BY <1>3 DEF HoldEarly, EarlyGate, ring, hw, gate, times, IndexOK, Index, Labels
  <2>2. FlagsOK'
    BY <1>3 DEF HoldEarly, EarlyGate, ring, hw, gate, times, FlagsOK
  <2>3. DmaInv' /\ ReadyInv'
    BY <1>3 DEF HoldEarly, EarlyGate, ring, hw, gate, times, IndexOK, DmaInv, ReadyInv,
         HaveReady
  <2>4. HoldInv'
    BY <1>3 DEF HoldEarly, EarlyGate, ring, hw, gate, times, IndexOK, DmaInv, ReadyInv,
         HoldInv, Holding, HaveReady
  <2> QED
    BY <2>1, <2>2, <2>3, <2>4
<1>4. CASE HoldReady
  <2>1. IndexOK'
    BY <1>4 DEF HoldReady, EarlyGate, ring, hw, gate, times, IndexOK, Index, Labels
  <2>2. FlagsOK'
    BY <1>4 DEF HoldReady, EarlyGate, ring, hw, gate, times, FlagsOK
  <2>3. DmaInv' /\ ReadyInv'
    BY <1>4 DEF HoldReady, EarlyGate, ring, hw, gate, times, IndexOK, DmaInv, ReadyInv,
         HaveReady
  <2>4. HoldInv'
    BY <1>4 DEF HoldReady, EarlyGate, ring, hw, gate, times, IndexOK, DmaInv, ReadyInv,
         HoldInv, Holding, HaveReady
  <2> QED
    BY <2>1, <2>2, <2>3, <2>4
<1>5. CASE StartEarly
  <2>1. IndexOK'
    BY <1>5 DEF StartEarly, ring, hw, gate, times, IndexOK, Index, Labels
  <2>2. FlagsOK'
    BY <1>5 DEF StartEarly, ring, hw, gate, times, FlagsOK
  <2>3. DmaInv' /\ ReadyInv'
    BY <1>5 DEF StartEarly, ring, hw, gate, times, IndexOK, DmaInv, ReadyInv, HaveReady
  <2>4. HoldInv'
    BY <1>5 DEF StartEarly, ring, hw, gate, times, IndexOK, DmaInv, ReadyInv, HoldInv,
         Holding, HaveReady
  <2> QED
    BY <2>1, <2>2, <2>3, <2>4
<1>6. CASE NotEarly
  <2>1. IndexOK'
    BY <1>6 DEF NotEarly, ring, hw, gate, times, IndexOK, Index, Labels
  <2>2. FlagsOK'
    BY <1>6 DEF NotEarly, ring, hw, gate, times, FlagsOK
  <2>3. DmaInv' /\ ReadyInv'
    BY <1>6 DEF NotEarly, ring, hw, gate, times, IndexOK, DmaInv, ReadyInv, HaveReady
  <2>4. HoldInv'
    BY <1>6 DEF NotEarly, ring, hw, gate, times, IndexOK, DmaInv, ReadyInv, HoldInv, Holding,
         HaveReady
  <2> QED
    BY <2>1, <2>2, <2>3, <2>4
<1> QED
  BY <1>1, <1>2, <1>3, <1>4, <1>5, <1>6

(* The encode itself, up to letting go of the slot. *)
LEMMA EncodeInv ==
    ASSUME RingInv,
           \/ ParkBegin \/ ParkRefused \/ LeadWait \/ SwapFailed
           \/ EncodeWhole \/ EncodeEarly \/ ReadersDone \/ Release
    PROVE  RingInv'
<1> USE Constants DEF RingInv, TypeOK, At
<1>1. CASE ParkBegin
  <2>1. IndexOK'
    BY <1>1 DEF ParkBegin, ring, hw, gate, times, IndexOK, Index, Labels
  <2>2. FlagsOK'
    BY <1>1 DEF ParkBegin, ring, hw, gate, times, FlagsOK
  <2>3. DmaInv' /\ ReadyInv'
    BY <1>1 DEF ParkBegin, ring, hw, gate, times, IndexOK, DmaInv, ReadyInv, HaveReady
  <2>4. HoldInv'
    BY <1>1 DEF ParkBegin, ring, hw, gate, times, IndexOK, DmaInv, ReadyInv, HoldInv, Holding,
         HaveReady
  <2> QED
    BY <2>1, <2>2, <2>3, <2>4
<1>2. CASE ParkRefused
  <2>1. IndexOK'
    BY <1>2 DEF ParkRefused, ring, hw, gate, times, IndexOK, Index, Labels
  <2>2. FlagsOK'
    BY <1>2 DEF ParkRefused, ring, hw, gate, times, FlagsOK
  <2>3. DmaInv' /\ ReadyInv'
    BY <1>2 DEF ParkRefused, ring, hw, gate, times, IndexOK, DmaInv, ReadyInv, HaveReady
  <2>4. HoldInv'
    BY <1>2 DEF ParkRefused, ring, hw, gate, times, IndexOK, DmaInv, ReadyInv, HoldInv,
         Holding, HaveReady
  <2> QED
    BY <2>1, <2>2, <2>3, <2>4
<1>3. CASE LeadWait
  <2>1. IndexOK'
    BY <1>3 DEF LeadWait, ring, hw, gate, times, IndexOK, Index, Labels
  <2>2. FlagsOK'
    BY <1>3 DEF LeadWait, ring, hw, gate, times, FlagsOK
  <2>3. DmaInv' /\ ReadyInv'
    BY <1>3 DEF LeadWait, ring, hw, gate, times, IndexOK, DmaInv, ReadyInv, HaveReady
  <2>4. HoldInv'
    BY <1>3 DEF LeadWait, ring, hw, gate, times, IndexOK, DmaInv, ReadyInv, HoldInv, Holding,
         HaveReady
  <2> QED
    BY <2>1, <2>2, <2>3, <2>4
<1>4. CASE SwapFailed
  <2>1. IndexOK'
    BY <1>4 DEF SwapFailed, ring, hw, gate, times, IndexOK, Index, Labels
  <2>2. FlagsOK'
    BY <1>4 DEF SwapFailed, ring, hw, gate, times, FlagsOK
  <2>3. DmaInv' /\ ReadyInv'
    BY <1>4 DEF SwapFailed, ring, hw, gate, times, IndexOK, DmaInv, ReadyInv, HaveReady
  <2>4. HoldInv'
    BY <1>4 DEF SwapFailed, ring, hw, gate, times, IndexOK, DmaInv, ReadyInv, HoldInv,
         Holding, HaveReady
  <2> QED
    BY <2>1, <2>2, <2>3, <2>4
<1>5. CASE EncodeWhole
  <2>1. IndexOK'
    BY <1>5 DEF EncodeWhole, ring, hw, gate, times, IndexOK, Index, Labels
  <2>2. FlagsOK'
    BY <1>5 DEF EncodeWhole, ring, hw, gate, times, FlagsOK
  <2>3. DmaInv' /\ ReadyInv'
    BY <1>5 DEF EncodeWhole, ring, hw, gate, times, IndexOK, DmaInv, ReadyInv, HaveReady
  <2>4. HoldInv'
    BY <1>5 DEF EncodeWhole, ring, hw, gate, times, IndexOK, DmaInv, ReadyInv, HoldInv,
         Holding, HaveReady
  <2> QED
    BY <2>1, <2>2, <2>3, <2>4
<1>6. CASE EncodeEarly
  <2>1. IndexOK'
    BY <1>6 DEF EncodeEarly, ring, hw, gate, times, IndexOK, Index, Labels
  <2>2. FlagsOK'
    BY <1>6 DEF EncodeEarly, ring, hw, gate, times, FlagsOK
  <2>3. DmaInv' /\ ReadyInv'
    BY <1>6 DEF EncodeEarly, ring, hw, gate, times, IndexOK, DmaInv, ReadyInv, HaveReady
  <2>4. HoldInv'
    BY <1>6 DEF EncodeEarly, ring, hw, gate, times, IndexOK, DmaInv, ReadyInv, HoldInv,
         Holding, HaveReady
  <2> QED
    BY <2>1, <2>2, <2>3, <2>4
<1>7. CASE ReadersDone
  <2>1. IndexOK'
    BY <1>7 DEF ReadersDone, ring, hw, gate, times, IndexOK, Index, Labels
  <2>2. FlagsOK'
    BY <1>7 DEF ReadersDone, ring, hw, gate, times, FlagsOK
  <2>3. DmaInv' /\ ReadyInv'
    BY <1>7 DEF ReadersDone, ring, hw, gate, times, IndexOK, DmaInv, ReadyInv, HaveReady
  <2>4. HoldInv'
    BY <1>7 DEF ReadersDone, ring, hw, gate, times, IndexOK, DmaInv, ReadyInv, HoldInv,
         Holding, HaveReady
  <2> QED
    BY <2>1, <2>2, <2>3, <2>4
<1>8. CASE Release
  <2>1. IndexOK'
    BY <1>8 DEF Release, ring, hw, gate, times, IndexOK, Index, Labels
  <2>2. FlagsOK'
    BY <1>8 DEF Release, ring, hw, gate, times, FlagsOK
  <2>3. DmaInv' /\ ReadyInv'
    BY <1>8 DEF Release, ring, hw, gate, times, IndexOK, DmaInv, ReadyInv, HaveReady
  <2>4. HoldInv'
    BY <1>8 DEF Release, ring, hw, gate, times, IndexOK, DmaInv, ReadyInv, HoldInv, Holding,
         HaveReady
  <2> QED
    BY <2>1, <2>2, <2>3, <2>4
<1> QED
  BY <1>1, <1>2, <1>3, <1>4, <1>5, <1>6, <1>7, <1>8

(* RingInv is an invariant of the ring. *)
THEOREM RingInvariant == Spec => []RingInv
<1>1. RingInv /\ [Next]_vars => RingInv'
  <2> SUFFICES ASSUME RingInv, [Next]_vars PROVE RingInv'
    OBVIOUS
  <2>1. CASE UNCHANGED vars
    BY <2>1 DEF vars, ring, hw, gate, loop, times, RingInv, TypeOK, IndexOK, FlagsOK,
       DmaInv, ReadyInv, HoldInv, Holding, HaveReady
  <2>2. CASE Next
    BY <2>2, GetNewInv, OnDoneInv, RebuildInv, WaitInv, IdleInv, PickInv, EncodeInv
       DEF Next, Loop
  <2> QED
    BY <2>1, <2>2
<1> QED
  BY <1>1, InitInv, PTL DEF Spec

(* Every index names a slot or none, and every flag is one. *)
THEOREM TypeCorrect == Spec => []TypeOK
<1>1. RingInv => TypeOK
  BY DEF RingInv
<1> QED
  BY <1>1, RingInvariant, PTL

(* A reader of a whole frame never shares its slot with the DMA: the       *)
(* comment on fb_lock, for every ring depth.                               *)
THEOREM ReadsWholeFrames == Spec => []WholeFrame
<1>1. RingInv => WholeFrame
  BY DEF RingInv, HoldInv, Holding, WholeFrame
<1> QED
  BY <1>1, RingInvariant, PTL

(* The DMA's buffer changes only by a pick, or when the receiver is taken  *)
(* down by the loop itself.                                                *)
LEMMA DmaMoves ==
    ASSUME RingInv, [Next]_vars
    PROVE  \/ dma' = dma \/ dma' = Off
           \/ pc = "rebuild"
           \/ \E p \in Index : IsPick(p) /\ dma' = p
<1>1. CASE UNCHANGED vars
  BY <1>1 DEF vars, hw
<1>2. CASE CamGetNew
  BY <1>2 DEF CamGetNew
<1>3. CASE CamOnDone
  BY <1>3 DEF CamOnDone
<1>4. CASE ApplyMode \/ HdmiRecover
  BY <1>4 DEF ApplyMode, HdmiRecover, CsiDestroy
<1>5. CASE CsiStart
  BY <1>5 DEF CsiStart, At
<1>6. CASE \/ CsiFail \/ BeginWait \/ SkipWait \/ TakeFrame \/ WaitTimeout
           \/ GateOpen \/ TakeTurn \/ Idle
  BY <1>6 DEF CsiFail, BeginWait, SkipWait, TakeFrame, WaitTimeout, GateOpen,
     TakeTurn, Idle, IdleSkip, IdleHold, IdleRelease, hw
<1>7. CASE \/ PickEarly \/ StartEarly \/ NotEarly \/ PickWhole \/ HoldEarly \/ HoldReady \/ ParkBegin
           \/ ParkRefused \/ LeadWait \/ SwapFailed
           \/ EncodeWhole \/ EncodeEarly \/ ReadersDone \/ Release
  BY <1>7 DEF PickEarly, StartEarly, NotEarly, PickWhole, HoldEarly, HoldReady, ParkBegin,
       ParkRefused,
     LeadWait, SwapFailed, EncodeWhole, EncodeEarly, ReadersDone,
     Release, hw
<1> QED
  BY <1>1, <1>2, <1>3, <1>4, <1>5, <1>6, <1>7 DEF Next, Loop

(* The DMA never enters the slot that is being read. *)
THEOREM NeverOverwrites == Spec => NoOverwrite
<1>1. RingInv /\ [Next]_vars => [Reading /\ dma # src => dma' # src]_vars
  <2> SUFFICES ASSUME RingInv, [Next]_vars, Reading, dma # src
               PROVE  dma' # src
    OBVIOUS
  <2>1. src \in Slots /\ held = src /\ pc # "rebuild"
    BY DEF RingInv, HoldInv, Holding, Reading
  <2>2. CASE dma' = dma \/ dma' = Off
    BY <2>1, <2>2, Constants
  <2>3. CASE \E p \in Index : IsPick(p) /\ dma' = p
    BY <2>1, <2>3, PickApart
  <2> QED
    BY <2>1, <2>2, <2>3, DmaMoves
<1> QED
  BY <1>1, RingInvariant, PTL DEF Spec, NoOverwrite

(* With three buffers or more a dropped frame is followed by one that is   *)
(* kept.                                                                   *)
THEOREM NeverDropsTwice == Spec => NoTwoDrops
<1> DEFINE A == FbCount >= 3 /\ dma = None /\ isr = "idle" /\ isr' = "done"
                    => dma' # None
<1>1. RingInv /\ [Next]_vars => [A]_vars
  <2> SUFFICES ASSUME RingInv, [Next]_vars, FbCount >= 3, dma = None,
                      isr = "idle", isr' = "done"
               PROVE  dma' # None
    OBVIOUS
  <2>1. write = None
    BY Constants DEF RingInv, DmaInv
  <2>2. Free # {}
    <3>1. 0 \in Slots /\ 1 \in Slots /\ 2 \in Slots
      BY FbCountAssumption DEF Slots
    <3> QED
      BY <2>1, <3>1, Constants DEF Free
  <2>3. CamGetNew
    <3>1. ~ UNCHANGED vars /\ ~ CamOnDone
      BY DEF vars, hw, CamOnDone
    <3>2. ~ Loop
      BY DEF Loop, ApplyMode, HdmiRecover, CsiDestroy, CsiStart, CsiFail, BeginWait,
         SkipWait, TakeFrame, WaitTimeout, GateOpen, TakeTurn, Idle, IdleSkip,
         IdleHold, IdleRelease, PickEarly, StartEarly, NotEarly, PickWhole, HoldEarly,
         HoldReady, ParkBegin,
         ParkRefused, LeadWait, SwapFailed, EncodeWhole, EncodeEarly,
         ReadersDone, Release, hw
    <3> QED
      BY <3>1, <3>2 DEF Next
  <2> QED
    BY <2>2, <2>3, Constants DEF CamGetNew, IsPick, Free
<1> QED
  BY <1>1, RingInvariant, PTL DEF Spec, NoTwoDrops
=============================================================================
