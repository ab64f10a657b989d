---------------------------- MODULE CapturePark ----------------------------
(***************************************************************************)
(* Parking the video pipeline before a software restart.                   *)
(*                                                                         *)
(* esp_restart is wrapped (capture.c): the caller sets s_parking, stops    *)
(* the CSI receiver, waits - 300 ms at most - until no task has a frame's  *)
(* DMA in flight, and restarts.  The tasks that start such DMA, the        *)
(* capture loop and, on boards before revision 3.0, the H.264 encode task, *)
(* bracket each frame with capture_park_frame_begin and _end: count, then  *)
(* look at the flag.  The loop also rebuilds the CSI receiver, for a mode  *)
(* change or a recovery, and asks nobody.                                  *)
(***************************************************************************)
EXTENDS Integers, FiniteSets

CONSTANTS
    CamTask,        \* the capture loop, "cam"
    EncTasks,       \* the other tasks that bracket frames: {h264enc} or {}
    Callers,        \* tasks that may call esp_restart
    MaxPolls        \* polls of s_frames_busy before giving up, 30

ASSUME ParkTasksAssumption == IsFiniteSet(EncTasks) /\ CamTask \notin EncTasks
ASSUME MaxPollsAssumption  == MaxPolls \in Nat

Workers == EncTasks \cup {CamTask}

VARIABLES
    parking,        \* s_parking
    busy,           \* s_frames_busy
    csi,            \* the receiver: "run" while its DMA writes PSRAM, else "off"
    at,             \* where each worker is
    caller,         \* where each caller of esp_restart is
    polls           \* how often each caller has waited 10 ms

vars == <<parking, busy, csi, at, caller, polls>>

Down == \E c \in Callers : caller[c] = "down"

----------------------------------------------------------------------------
(* A worker's frame.                                                       *)

Step(t, from, to) == at[t] = from /\ at' = [at EXCEPT ![t] = to]

(* capture_park_frame_begin: first the count ... *)
FrameCount(t) ==
    /\ ~Down
    /\ Step(t, "idle", "counted")
    /\ busy' = busy + 1
    /\ UNCHANGED <<parking, csi, caller, polls>>

(* Mutant of FrameStart: the flag is not looked at after the count. *)
FrameStart_NoLook(t) ==
    /\ ~Down
    /\ Step(t, "counted", "dma")
    /\ UNCHANGED <<parking, busy, csi, caller, polls>>

(* ... then the flag. *)
FrameStart(t) ==
    /\ ~Down
    /\ ~parking
    /\ Step(t, "counted", "dma")
    /\ UNCHANGED <<parking, busy, csi, caller, polls>>

FrameRefused(t) ==
    /\ ~Down
    /\ parking
    /\ Step(t, "counted", "idle")
    /\ busy' = busy - 1
    /\ UNCHANGED <<parking, csi, caller, polls>>

(* capture_park_frame_end, also on the turn whose byte reorder failed. *)
FrameEnd(t) ==
    /\ ~Down
    /\ Step(t, "dma", "idle")
    /\ busy' = busy - 1
    /\ UNCHANGED <<parking, csi, caller, polls>>

(* The loop takes the receiver down for a mode change or a recovery ... *)
CsiDown ==
    /\ ~Down
    /\ Step(CamTask, "idle", "rebuild")
    /\ csi' = "off"
    /\ UNCHANGED <<parking, busy, caller, polls>>

(* ... and starts it again, or fails to. *)
CsiUp ==
    /\ ~Down
    /\ Step(CamTask, "rebuild", "idle")
    /\ csi' \in {"run", "off"}
    /\ UNCHANGED <<parking, busy, caller, polls>>

----------------------------------------------------------------------------
(* __wrap_esp_restart in task c.                                           *)

Park(c) ==
    /\ ~Down
    /\ caller[c] = "idle"
    /\ parking' = TRUE
    /\ caller' = [caller EXCEPT ![c] = "parking"]
    /\ UNCHANGED <<busy, csi, at, polls>>

(* capture_hw_quiesce *)
Quiesce(c) ==
    /\ ~Down
    /\ caller[c] = "parking"
    /\ csi' = "off"
    /\ caller' = [caller EXCEPT ![c] = "waiting"]
    /\ UNCHANGED <<parking, busy, at, polls>>

(* One turn of the wait: a frame is in flight and there is time left. *)
Poll(c) ==
    /\ ~Down
    /\ caller[c] = "waiting"
    /\ polls[c] < MaxPolls /\ busy > 0
    /\ polls' = [polls EXCEPT ![c] = @ + 1]
    /\ UNCHANGED <<parking, busy, csi, at, caller>>

(* Mutant of WaitOver: the wait has no end of its own. *)
WaitOver_Patient(c) ==
    /\ ~Down
    /\ caller[c] = "waiting"
    /\ busy <= 0
    /\ caller' = [caller EXCEPT ![c] = "leaving"]
    /\ UNCHANGED <<parking, busy, csi, at, polls>>

(* The wait is over; 20 ms later the chip restarts. *)
WaitOver(c) ==
    /\ ~Down
    /\ caller[c] = "waiting"
    /\ polls[c] >= MaxPolls \/ busy <= 0
    /\ caller' = [caller EXCEPT ![c] = "leaving"]
    /\ UNCHANGED <<parking, busy, csi, at, polls>>

RealRestart(c) ==
    /\ ~Down
    /\ caller[c] = "leaving"
    /\ caller' = [caller EXCEPT ![c] = "down"]
    /\ UNCHANGED <<parking, busy, csi, at, polls>>

----------------------------------------------------------------------------
Init ==
    /\ parking = FALSE
    /\ busy = 0
    /\ csi = "run"
    /\ at = [t \in Workers |-> "idle"]
    /\ caller = [c \in Callers |-> "idle"]
    /\ polls = [c \in Callers |-> 0]

Worker(t) == FrameCount(t) \/ FrameStart(t) \/ FrameRefused(t) \/ FrameEnd(t)

Restart(c) == Park(c) \/ Quiesce(c) \/ Poll(c) \/ WaitOver(c) \/ RealRestart(c)

Next ==
    \/ \E t \in Workers : Worker(t)
    \/ CsiDown \/ CsiUp
    \/ \E c \in Callers : Restart(c)

Spec == Init /\ [][Next]_vars

(* Whoever has entered __wrap_esp_restart is scheduled; nothing is assumed *)
(* of the workers, and nobody has to call it.                              *)
FairSpec ==
    /\ Spec
    /\ \A c \in Callers :
         WF_vars(Quiesce(c) \/ Poll(c) \/ WaitOver(c) \/ RealRestart(c))

----------------------------------------------------------------------------
(* Properties.                                                             *)

TypeOK ==
    /\ parking \in BOOLEAN
    /\ busy \in Nat
    /\ csi \in {"run", "off"}
    /\ at \in [Workers -> {"idle", "counted", "dma", "rebuild"}]
    /\ caller \in [Callers -> {"idle", "parking", "waiting", "leaving", "down"}]
    /\ polls \in [Callers -> 0 .. MaxPolls]

(* A restart that did not run out of patience cuts off no encoder or PPA   *)
(* transfer: whoever counts its frame after the flag was set sees the      *)
(* flag, and whoever counted before is waited for (capture.c, the comment  *)
(* on __wrap_esp_restart).                                                 *)
NoFrameCutOff ==
    \A c \in Callers : caller[c] = "down" /\ polls[c] < MaxPolls
                         => \A t \in Workers : at[t] # "dma"

(* "Every software restart parks the capture DMA first" (capture.c). *)
RestartParksDma == Down => csi = "off"

(* A restart that was asked for happens, whatever the pipeline does. *)
RestartHappens == parking ~> Down
=============================================================================
