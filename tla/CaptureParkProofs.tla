------------------------- MODULE CaptureParkProofs -------------------------
(***************************************************************************)
(* Proofs about CapturePark, for every finite set of frame tasks and every *)
(* set of callers.  The counter is tied to the tasks it counts, so that    *)
(* reading zero means that nobody is inside the bracket.                   *)
(***************************************************************************)
EXTENDS CapturePark, FiniteSetTheorems, TLAPS

(* The workers between capture_park_frame_begin and _end. *)
InFlight == {t \in Workers : at[t] \in {"counted", "dma"}}

(* s_frames_busy counts them. *)
CountInv == busy = Cardinality(InFlight)

(* s_parking is never taken back. *)
FlagInv == \A c \in Callers : caller[c] # "idle" => parking

(* A caller that left the wait in time left nobody behind. *)
LeftInv == \A c \in Callers : caller[c] \in {"leaving", "down"} /\ polls[c] < MaxPolls
                                 => \A t \in Workers : at[t] # "dma"

ParkInv == TypeOK /\ CountInv /\ FlagInv /\ LeftInv

(* The tasks that can be in flight are finitely many. *)
LEMMA WorkersFinite == IsFiniteSet(Workers)
BY ParkTasksAssumption, FS_AddElement DEF Workers

LEMMA InFlightFinite == IsFiniteSet(InFlight) /\ Cardinality(InFlight) \in Nat
<1>1. InFlight \subseteq Workers
  BY DEF InFlight
<1> QED
  BY <1>1, WorkersFinite, FS_Subset, FS_CardinalityType

LEMMA InitPark == Init => ParkInv
<1> SUFFICES ASSUME Init PROVE ParkInv
  OBVIOUS
<1>1. TypeOK
  <2>1. polls \in [Callers -> 0 .. MaxPolls]
    BY MaxPollsAssumption DEF Init
  <2>2. busy \in Nat
    BY DEF Init
  <2> QED
    BY <2>1, <2>2, Zenon DEF Init, TypeOK
<1>2. InFlight = {}
  BY DEF Init, InFlight
<1>3. CountInv
  BY <1>2, FS_EmptySet DEF Init, CountInv
<1>4. FlagInv /\ LeftInv
  BY DEF Init, FlagInv, LeftInv
<1> QED
  BY <1>1, <1>3, <1>4 DEF ParkInv

(* One frame's bracket in task t. *)
LEMMA WorkerPark ==
    ASSUME ParkInv, NEW t \in Workers, Worker(t)
    PROVE  ParkInv'
<1> USE DEF ParkInv
<1>1. CASE FrameCount(t)
  <2>1. InFlight' = InFlight \cup {t} /\ t \notin InFlight
    BY <1>1 DEF FrameCount, Step, InFlight, TypeOK
  <2>2. CountInv'
    BY <1>1, <2>1, InFlightFinite, FS_AddElement DEF FrameCount, CountInv
  <2>3. TypeOK'
    BY <1>1 DEF FrameCount, Step, TypeOK
  <2>4. FlagInv' /\ LeftInv'
    BY <1>1 DEF FrameCount, Step, TypeOK, FlagInv, LeftInv
  <2> QED
    BY <2>2, <2>3, <2>4
<1>2. CASE FrameStart(t)
  <2>1. InFlight' = InFlight
    BY <1>2 DEF FrameStart, Step, InFlight, TypeOK
  <2>2. TypeOK' /\ CountInv'
    BY <1>2, <2>1 DEF FrameStart, Step, TypeOK, CountInv
  <2>3. FlagInv' /\ LeftInv'
    BY <1>2 DEF FrameStart, FlagInv, LeftInv
  <2> QED
    BY <2>2, <2>3
<1>3. CASE FrameRefused(t) \/ FrameEnd(t)
  <2>1. InFlight' = InFlight \ {t} /\ t \in InFlight
    BY <1>3 DEF FrameRefused, FrameEnd, Step, InFlight, TypeOK
  <2>2. Cardinality(InFlight') = Cardinality(InFlight) - 1 /\ Cardinality(InFlight) > 0
    BY <2>1, InFlightFinite, FS_RemoveElement, FS_EmptySet
  <2>3. CountInv' /\ busy' \in Nat
    BY <1>3, <2>2, InFlightFinite DEF FrameRefused, FrameEnd, CountInv
  <2>4. TypeOK'
    BY <1>3, <2>3 DEF FrameRefused, FrameEnd, Step, TypeOK
  <2>5. FlagInv' /\ LeftInv'
    BY <1>3 DEF FrameRefused, FrameEnd, Step, TypeOK, FlagInv, LeftInv
  <2> QED
    BY <2>3, <2>4, <2>5
<1> QED
  BY <1>1, <1>2, <1>3 DEF Worker

(* The loop rebuilding the receiver takes no part in the count. *)
LEMMA RebuildPark ==
    ASSUME ParkInv, CsiDown \/ CsiUp
    PROVE  ParkInv'
<1>1. InFlight' = InFlight
  BY DEF ParkInv, CsiDown, CsiUp, Step, InFlight, TypeOK, Workers
<1>2. CountInv' /\ FlagInv'
  BY <1>1 DEF ParkInv, CsiDown, CsiUp, CountInv, FlagInv
<1>3. TypeOK' /\ LeftInv'
  BY DEF ParkInv, CsiDown, CsiUp, Step, TypeOK, LeftInv, Workers
<1> QED
  BY <1>2, <1>3 DEF ParkInv

(* A caller's steps. *)
LEMMA CallerPark ==
    ASSUME ParkInv, NEW c \in Callers, Restart(c)
    PROVE  ParkInv'
<1> USE DEF ParkInv
<1>1. InFlight' = InFlight /\ busy' = busy /\ at' = at
  BY DEF Restart, Park, Quiesce, Poll, WaitOver, RealRestart, InFlight
<1>2. CountInv'
  BY <1>1 DEF CountInv
<1>3. CASE Park(c) \/ Quiesce(c)
  BY <1>2, <1>3 DEF Park, Quiesce, TypeOK, FlagInv, LeftInv
<1>4. CASE Poll(c)
  BY <1>2, <1>4, MaxPollsAssumption DEF Poll, TypeOK, FlagInv, LeftInv
<1>5. CASE WaitOver(c)
  <2>1. polls[c] < MaxPolls => \A t \in Workers : at[t] # "dma"
    <3> SUFFICES ASSUME polls[c] < MaxPolls PROVE \A t \in Workers : at[t] # "dma"
      OBVIOUS
    <3>1. Cardinality(InFlight) = 0
      BY <1>5, InFlightFinite, MaxPollsAssumption DEF WaitOver, CountInv, TypeOK
    <3>2. InFlight = {}
      BY <3>1, InFlightFinite, FS_EmptySet
    <3> QED
      BY <3>2 DEF InFlight
  <2> QED
    BY <1>2, <1>5, <2>1 DEF WaitOver, TypeOK, FlagInv, LeftInv
<1>6. CASE RealRestart(c)
  BY <1>2, <1>6 DEF RealRestart, TypeOK, FlagInv, LeftInv
<1> QED
  BY <1>3, <1>4, <1>5, <1>6 DEF Restart

(* ParkInv is an invariant. *)
THEOREM ParkInvariant == Spec => []ParkInv
<1>1. ParkInv /\ [Next]_vars => ParkInv'
  <2> SUFFICES ASSUME ParkInv, [Next]_vars PROVE ParkInv'
    OBVIOUS
  <2>1. CASE UNCHANGED vars
    BY <2>1 DEF vars, ParkInv, TypeOK, CountInv, FlagInv, LeftInv, InFlight
  <2> QED
    BY <2>1, WorkerPark, RebuildPark, CallerPark DEF Next
<1> QED
  BY <1>1, InitPark, PTL DEF Spec

(* A restart that did not time out cuts off no frame, whatever the number  *)
(* of tasks, callers and polls.                                            *)
THEOREM CutsOffNoFrame == Spec => []NoFrameCutOff
<1>1. ParkInv => NoFrameCutOff
  BY DEF ParkInv, LeftInv, NoFrameCutOff
<1> QED
  BY <1>1, ParkInvariant, PTL
=============================================================================
