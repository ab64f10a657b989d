------------------------ MODULE FirmwareUpdateProofs ------------------------
(***************************************************************************)
(* TLAPS proofs about the firmware update and its trial (FirmwareUpdate),  *)
(* for any images, with or without a fetcher, and any number of tries.     *)
(***************************************************************************)
EXTENDS FirmwareUpdate, TLAPS

Steps == {"none", "checked", "start", "open", "write", "arm", "switch"}
Jobs  == [image : Images \cup {NoImage}, trial : BOOLEAN]

FwTypes ==
    /\ ota \in [Slots -> States] /\ newest \in Slots /\ run \in Slots
    /\ at \in [Writers -> Steps]

(* Before the web server there is nobody to ask, and off nothing runs. *)
EarlyInv ==
    /\ app \in {"off", "guard", "starting"} =>
          ~web /\ ~restart /\ \A w \in Writers : at[w] = "none"
    /\ app = "off" => ~hung /\ ~onTrial /\ handler = "idle"

(* Who is in the web server's handler. *)
HandlerInv ==
    /\ at["upload"] # "none" => handler = "upload"
    /\ at["upload"] \in {"none", "write", "arm", "switch"}
    /\ handler \in {"keep", "kept", "rollback"} => onTrial
    /\ onTrial \/ timer \/ timeout = "rollback" => app = "up"

BaseInv == FwTypes /\ EarlyInv /\ HandlerInv /\ TrialTimed

----------------------------------------------------------------------------
LEMMA SlotIs == ASSUME run \in Slots PROVE Spare \in Slots /\ Spare # run
BY DEF Slots, Spare

LEMMA WriterIs ==
    /\ "upload" \in Writers /\ "upload" \notin Fetchers
    /\ \A w \in Fetchers : w \in Writers /\ w \in {"console", "mqtt"}
BY UpdateAssumption DEF Writers

LEMMA InitBase == Init => BaseInv
BY SlotIs, WriterIs DEF Init, BaseInv, FwTypes, EarlyInv, HandlerInv, TrialTimed, Slots, States,
     Steps

(* A reset with nothing written to flash.                                  *)
Resets == Crash \/ PowerCut \/ WatchdogReset \/ Restart \/ AskedRestart

LEMMA StepTypes == ASSUME FwTypes, [Next]_vars PROVE FwTypes'
<1> USE DEF FwTypes
<1>1. CASE Resets
  BY <1>1 DEF Resets, Crash, PowerCut, WatchdogReset, Restart, AskedRestart, Down, NoWriters,
     flash, Steps
<1>2. CASE Boot
  <2>1. \A s \in Slots : 1 - s \in Slots
    BY DEF Slots
  <2>2. Reverted \in [Slots -> States] /\ Loaded(Reverted) \in Slots
    BY <2>1 DEF Reverted, States, Loaded, Active, Slots
  <2>3. ota' \in [Slots -> States]
    BY <1>2, <2>2 DEF Boot, States
  <2> QED
    BY <1>2, <2>2, <2>3 DEF Boot, writer
<1>3. CASE GuardSwap \/ BootSlotPost
  BY <1>3, SlotIs DEF GuardSwap, BootSlotPost, Switch, Down, NoWriters, States, Steps, boot, writer
<1>4. CASE Hang
  BY <1>4 DEF Hang, NoWriters, flash, Steps
<1>5. CASE GuardPass \/ Healthy \/ ServerStart \/ ServerFails \/ TakeRequest \/ TrialBegin
           \/ TrialNoTimer
  BY <1>5 DEF GuardPass, Healthy, ServerStart, ServerFails, TakeRequest, TrialBegin,
     TrialNoTimer, flash, writer
<1>6. CASE Confirm \/ KeepMark \/ RollbackMark \/ TimeoutMark
  BY <1>6 DEF Confirm, KeepMark, RollbackMark, TimeoutMark, MarkInvalid, States, boot, writer
<1>7. CASE KeepPost \/ KeepFails \/ KeepStop \/ RollbackPost \/ Timeout
  BY <1>7 DEF KeepPost, KeepFails, KeepStop, RollbackPost, Timeout, flash, boot, writer
<1>8. CASE Write
  <2>1. UNCHANGED run
    BY <1>8 DEF Write, UploadPost, InstallCheck, InstallStart, InstallOpen, InstallBegin,
       WriteEnd, Arm, SwitchOver, GiveUp, boot
  <2>2. ota' \in [Slots -> States] /\ newest' \in Slots
    BY <1>8, SlotIs DEF Write, UploadPost, InstallCheck, InstallStart, InstallOpen, InstallBegin,
       WriteEnd, Arm, SwitchOver, GiveUp, flash, Switch, States
  <2>3. at' \in [Writers -> Steps]
    BY <1>8, WriterIs DEF Write, UploadPost, InstallCheck, InstallStart, InstallOpen, InstallBegin,
       WriteEnd, Arm, SwitchOver, GiveUp, Finished, Steps
  <2> QED
    BY <2>1, <2>2, <2>3
<1>9. CASE UNCHANGED vars
  BY <1>9 DEF vars, flash, boot, writer
<1> QED
  BY <1>1, <1>2, <1>3, <1>4, <1>5, <1>6, <1>7, <1>8, <1>9
     DEF Next, Mishap, StartUp, EndTrial, Resets

(* What a reset leaves.                                                    *)
LEMMA ResetIs ==
    ASSUME Resets
    PROVE  /\ app' = "off" /\ ~web' /\ ~hung' /\ ~onTrial' /\ ~rolledBack' /\ ~restart'
           /\ ~timer'
           /\ timeout' = "idle" /\ handler' = "idle" /\ at' = [w \in Writers |-> "none"]
           /\ UNCHANGED <<flash, run, served, wanted, muddled>>
BY DEF Resets, Crash, PowerCut, WatchdogReset, Restart, AskedRestart, Down, NoWriters, Alive

(* A writer works only after the web server was started.                   *)
LEMMA WriteUp ==
    ASSUME EarlyInv, Write
    PROVE  app \notin {"off", "guard", "starting"} /\ UNCHANGED boot
<1>1. CASE \E i \in Images, t \in BOOLEAN :
             UploadPost(i, t) \/ \E w \in Fetchers : InstallCheck(w, i, t)
  BY <1>1, WriterIs DEF EarlyInv, UploadPost, InstallCheck, Serving, Alive
<1>2. CASE \E w \in Fetchers : InstallStart(w) \/ InstallOpen(w) \/ InstallBegin(w)
  BY <1>2, WriterIs DEF EarlyInv, InstallStart, InstallOpen, InstallBegin
<1>3. CASE \E w \in Writers : WriteEnd(w) \/ Arm(w) \/ SwitchOver(w) \/ GiveUp(w)
  BY <1>3 DEF EarlyInv, WriteEnd, Writing, Arm, SwitchOver, GiveUp
<1> QED
  BY <1>1, <1>2, <1>3 DEF Write

LEMMA StepBase == ASSUME BaseInv, [Next]_vars PROVE BaseInv'
<1> USE DEF BaseInv
<1>0. FwTypes'
  BY StepTypes
<1>1. EarlyInv'
  <2> USE DEF EarlyInv
  <2>1. CASE Resets
    BY <2>1, ResetIs
  <2>2. CASE Boot
    BY <2>2 DEF Boot, writer
  <2>3. CASE GuardSwap
    BY <2>3 DEF GuardSwap, Down, NoWriters
  <2>4. CASE Hang
    BY <2>4 DEF Hang, NoWriters, Alive
  <2>5. CASE GuardPass \/ Healthy \/ ServerStart \/ ServerFails \/ TakeRequest \/ TrialBegin
             \/ TrialNoTimer \/ Confirm
    BY <2>5 DEF GuardPass, Healthy, ServerStart, ServerFails, TakeRequest, TrialBegin,
       TrialNoTimer, Confirm, trial, writer
  <2>6. CASE KeepPost \/ KeepMark \/ KeepFails \/ KeepStop \/ RollbackPost \/ RollbackMark
             \/ Timeout \/ TimeoutMark \/ BootSlotPost
    BY <2>6 DEF HandlerInv, KeepPost, KeepMark, KeepFails, KeepStop, RollbackPost, RollbackMark,
       Timeout, TimeoutMark, BootSlotPost, Serving, Alive, boot, trial, writer
  <2>7. CASE Write
    BY <2>7, WriteUp DEF boot
  <2>8. CASE UNCHANGED vars
    BY <2>8 DEF vars, boot, trial, writer
  <2> QED
    BY <2>1, <2>2, <2>3, <2>4, <2>5, <2>6, <2>7, <2>8
       DEF Next, Mishap, StartUp, EndTrial, Resets
<1>2. HandlerInv' /\ TrialTimed'
  <2> USE DEF HandlerInv, TrialTimed
  <2>1. CASE Resets
    BY <2>1, ResetIs, WriterIs
  <2>2. CASE Boot
    BY <2>2 DEF Boot, trial, writer
  <2>3. CASE GuardSwap
    BY <2>3, WriterIs DEF GuardSwap, Down, NoWriters
  <2>4. CASE Hang
    BY <2>4, WriterIs DEF Hang, NoWriters
  <2>5. CASE GuardPass \/ Healthy \/ ServerStart \/ ServerFails \/ TakeRequest \/ TrialBegin
             \/ TrialNoTimer \/ Confirm
    BY <2>5 DEF GuardPass, Healthy, ServerStart, ServerFails, TakeRequest, TrialBegin,
       TrialNoTimer, Confirm, trial, writer
  <2>6. CASE KeepPost \/ KeepMark \/ KeepFails \/ KeepStop \/ RollbackPost \/ RollbackMark
             \/ Timeout \/ TimeoutMark \/ BootSlotPost
    BY <2>6 DEF KeepPost, KeepMark, KeepFails, KeepStop, RollbackPost, RollbackMark, Timeout,
       TimeoutMark, BootSlotPost, HandlerFree, Serving, Alive, boot, trial, writer
  <2>7. CASE \E i \in Images, t \in BOOLEAN : UploadPost(i, t)
    BY <2>7, WriterIs DEF FwTypes, UploadPost, HandlerFree, boot, trial
  <2>8. CASE \/ \E i \in Images, t \in BOOLEAN, w \in Fetchers : InstallCheck(w, i, t)
             \/ \E w \in Fetchers : InstallStart(w) \/ InstallOpen(w) \/ InstallBegin(w)
    <3>1. UNCHANGED <<handler, trial, restart, boot>> /\ at'["upload"] = at["upload"]
      BY <2>8, WriterIs DEF FwTypes, InstallCheck, InstallStart, InstallOpen, InstallBegin
    <3> QED
      BY <3>1 DEF trial, boot
  <2>9. CASE \E w \in Writers : WriteEnd(w) \/ Arm(w)
    <3>1. /\ UNCHANGED <<handler, trial, restart, boot>>
          /\ at'["upload"] = at["upload"]
             \/ (at["upload"] # "none" /\ at'["upload"] \in {"arm", "switch"})
      BY <2>9, WriterIs DEF FwTypes, WriteEnd, Writing, Arm
    <3> QED
      BY <3>1 DEF trial, boot
  <2>10. CASE \E w \in Writers : SwitchOver(w) \/ GiveUp(w)
    <3>1. PICK w \in Writers : SwitchOver(w) \/ GiveUp(w)
      BY <2>10
    <3>2. /\ UNCHANGED <<trial, boot>> /\ Finished(w) /\ at[w] # "none"
          /\ restart' = TRUE \/ restart' = restart
      BY <3>1 DEF SwitchOver, GiveUp
    <3>3. at' = [at EXCEPT ![w] = "none"]
      BY <3>2 DEF Finished
    <3>4. CASE w = "upload"
      BY <3>2, <3>3, <3>4, WriterIs DEF Finished, FwTypes, trial, boot
    <3>5. CASE w # "upload"
      <4>1. UNCHANGED handler /\ at'["upload"] = at["upload"]
        BY <3>2, <3>3, <3>5, WriterIs DEF Finished, FwTypes
      <4> QED
        BY <3>2, <4>1 DEF trial, boot
    <3> QED
      BY <3>4, <3>5
  <2>11. CASE UNCHANGED vars
    BY <2>11 DEF vars, boot, trial, writer
  <2> QED
    BY <2>1, <2>2, <2>3, <2>4, <2>5, <2>6, <2>7, <2>8, <2>9, <2>10, <2>11
       DEF Next, Mishap, StartUp, EndTrial, Write, Resets
<1> QED
  BY <1>0, <1>1, <1>2

LEMMA BaseAlways == Spec => []BaseInv
BY InitBase, StepBase, PTL DEF Spec

(* A trial always has an end: while one runs its watchdog does, and the    *)
(* timer does or whatever it or the operator began is under way.           *)
THEOREM TrialStaysTimed == Spec => []TrialTimed
<1>1. BaseInv => TrialTimed
  BY DEF BaseInv
<1> QED
  BY <1>1, BaseAlways, PTL

----------------------------------------------------------------------------
(* What the flash says of the images.  A slot that is new was switched to  *)
(* last, in the boot that is about to end; at most one is pending, and an  *)
(* image that is confirmed or put on trial is.                             *)
StateInv ==
    /\ ota[run] = "pending" => ota[Spare] # "pending"
    /\ \A s \in Slots : ota[s] = "new" =>
          newest = s /\ (app # "off" => s = Spare /\ (hung \/ restart))
    /\ app \in {"trial", "mark"} => ota[run] = "pending"
    /\ app = "guard" /\ ota[Spare] = "pending" => slot[Spare] = Torn

(* How the bootloader changes them.                                        *)
LEMMA BootIs ==
    ASSUME FwTypes, StateInv, app = "off", Boot
    PROVE  /\ run' \in Slots /\ slot[run'] # Torn /\ app' = "guard"
           /\ UNCHANGED <<slot, newest, request, web, hung, trial, restart, handler, fetch,
                          writer, hist>>
           /\ \A s \in Slots :
                /\ ota'[s] = IF ota[s] = "new" THEN "pending"
                             ELSE IF ota[s] = "pending" THEN "aborted" ELSE ota[s]
                /\ ota[s] = "new" => run' = s \/ slot[s] = Torn
<1>1. \A s \in Slots : Reverted[s] = IF ota[s] = "pending" THEN "aborted" ELSE ota[s]
  BY DEF Reverted
<1>2. Active(Reverted) \in Slots /\ Loaded(Reverted) \in {Active(Reverted), 1 - Active(Reverted)}
  BY DEF FwTypes, Active, Loaded, Slots
<1>3. \A s \in Slots : 1 - s \in Slots
  BY DEF Slots
<1>4. ASSUME NEW s \in Slots, ota[s] = "new"
      PROVE  Active(Reverted) = s
  <2>1. newest = s
    BY <1>4 DEF StateInv
  <2>2. Startable(Reverted, s)
    BY <1>1, <1>4 DEF Startable
  <2> QED
    BY <2>1, <2>2 DEF Active
<1>5. Loaded(Reverted) = Active(Reverted) \/ slot[Active(Reverted)] = Torn
  BY DEF Loaded
<1>6. /\ run' = Loaded(Reverted) /\ slot[Loaded(Reverted)] # Torn /\ app' = "guard"
      /\ ota' = [Reverted EXCEPT ![Active(Reverted)] = IF @ = "new" THEN "pending" ELSE @]
      /\ UNCHANGED <<slot, newest, request, web, hung, trial, restart, handler, fetch,
                     writer, hist>>
  BY DEF Boot
<1>7. DOMAIN Reverted = Slots
  BY DEF Reverted
<1>8. ASSUME NEW s \in Slots
      PROVE  ota'[s] = IF ota[s] = "new" THEN "pending"
                       ELSE IF ota[s] = "pending" THEN "aborted" ELSE ota[s]
  <2>1. CASE s = Active(Reverted)
    BY <1>1, <1>6, <1>7, <2>1
  <2>2. CASE s # Active(Reverted)
    <3>1. ota[s] # "new"
      BY <1>4, <2>2
    <3>2. ota'[s] = Reverted[s]
      BY <1>6, <1>7, <2>2
    <3> QED
      BY <1>1, <3>1, <3>2
  <2> QED
    BY <2>1, <2>2
<1> QED
  BY <1>2, <1>3, <1>4, <1>5, <1>6, <1>8

LEMMA MarkIs ==
    ASSUME FwTypes PROVE Marked \in Slots
BY DEF FwTypes, Marked, Slots

LEMMA StepState == ASSUME BaseInv, StateInv, [Next]_vars PROVE StateInv'
<1> USE DEF BaseInv
<1>0. run \in Slots /\ Spare \in Slots /\ Spare # run /\ \A s \in Slots : s = run \/ s = Spare
  BY SlotIs DEF FwTypes, Slots, Spare
<1>1. CASE Resets
  BY <1>1, ResetIs DEF StateInv, flash, Spare
<1>2. CASE Boot
  <2>1. app = "off" /\ ~hung /\ ~restart
    BY <1>2 DEF Boot, EarlyInv
  <2>2. Spare' \in Slots /\ Spare' # run'
    BY <1>2, <2>1, BootIs DEF Spare, Slots
  <2> QED
    BY <1>0, <1>2, <2>1, <2>2, BootIs DEF StateInv
<1>3. CASE GuardSwap
  BY <1>0, <1>3 DEF GuardSwap, Down, Switch, StateInv, FwTypes, Spare
<1>4. CASE Hang
  BY <1>4 DEF Hang, StateInv, flash, Spare
<1>5. CASE GuardPass \/ Healthy \/ ServerStart \/ ServerFails \/ TakeRequest \/ TrialBegin
           \/ TrialNoTimer
  BY <1>5 DEF GuardPass, Healthy, ServerStart, ServerFails, TakeRequest, TrialBegin,
     TrialNoTimer, Alive, StateInv, flash, Spare
<1>6. CASE Confirm \/ KeepMark \/ RollbackMark \/ TimeoutMark
  <2>1. /\ UNCHANGED <<slot, newest, run, hung>> /\ app' = "up"
        /\ app \notin {"off", "guard"} /\ (restart' = restart \/ restart')
    BY <1>6 DEF Confirm, KeepMark, RollbackMark, TimeoutMark, boot, HandlerInv
  <2>2. \A s \in Slots : ota'[s] \in {ota[s], "valid", "invalid"}
    BY <1>6, MarkIs DEF FwTypes, Confirm, KeepMark, RollbackMark, TimeoutMark, MarkInvalid
  <2> QED
    BY <1>0, <2>1, <2>2 DEF StateInv, Spare
<1>7. CASE KeepPost \/ KeepFails \/ KeepStop \/ RollbackPost \/ Timeout
  BY <1>7 DEF KeepPost, KeepFails, KeepStop, RollbackPost, Timeout, StateInv, flash, boot, Spare
<1>8. CASE BootSlotPost
  <2>1. /\ UNCHANGED <<slot, run, app, hung>> /\ app \notin {"off", "guard"} /\ restart'
        /\ newest' = Spare /\ ota' = [ota EXCEPT ![Spare] = "new"]
    BY <1>8 DEF BootSlotPost, Switch, Serving, EarlyInv, boot
  <2> QED
    BY <1>0, <2>1 DEF FwTypes, StateInv, Spare
<1>9. CASE Write
  <2>1. UNCHANGED boot /\ app \notin {"off", "guard"}
    BY <1>9, WriteUp
  <2>2. \/ UNCHANGED <<ota, newest, restart>>
        \/ restart' /\ newest' = Spare /\ ota' = [ota EXCEPT ![Spare] = "new"]
    BY <1>9 DEF Write, UploadPost, InstallCheck, InstallStart, InstallOpen, InstallBegin,
       WriteEnd, Arm, SwitchOver, GiveUp, Switch, flash
  <2> QED
    BY <1>0, <2>1, <2>2 DEF FwTypes, StateInv, boot, Spare
<1>10. CASE UNCHANGED vars
  BY <1>10 DEF vars, flash, boot, StateInv, Spare
<1> QED
  BY <1>1, <1>2, <1>3, <1>4, <1>5, <1>6, <1>7, <1>8, <1>9, <1>10
     DEF Next, Mishap, StartUp, EndTrial, Resets

----------------------------------------------------------------------------
(* A writer that has the slot: the running image is confirmed, one writer  *)
(* at a time is past its transfer, none during a trial; unless two crossed *)
(* each other, the trial armed is the one that was asked for.              *)
Ahead == {"start", "open", "write", "arm", "switch"}

PenInv ==
    /\ job \in [Writers -> Jobs] /\ version \in Images \cup {NoImage}
    /\ \A w \in Writers :
         /\ at[w] \in {"write", "arm", "switch"} => ota[run] # "pending"
         /\ at[w] \in {"arm", "switch"} => app = "up" /\ ~onTrial
         /\ ~crossed /\ w # "upload" /\ at[w] \in Ahead => trialS = job[w].trial
         /\ ~crossed /\ at[w] = "switch" /\ job[w].trial => request = slot[Spare]
    /\ \A u, w \in Writers :
         at[u] \in {"arm", "switch"} /\ at[w] \in {"arm", "switch"} => u = w

(* What is in the slots and on its way there; the running slot is whole.   *)
ImageInv ==
    /\ slot \in [Slots -> Images \cup {Torn}] /\ served \subseteq Images
    /\ app # "off" => slot[run] # Torn
    /\ \A w \in Writers :
         /\ at[w] # "none" => job[w].image \in Images
         /\ at[w] = "start" => version \in Images

(* The image on trial is pending, until it was kept or a restart is due;   *)
(* marked bad, there is another one to start.                              *)
TrialInv ==
    onTrial =>
      /\ ota[run] = "pending" \/ restart \/ handler = "kept" \/ hung
      /\ ota[Spare] # "pending"
      /\ ota[run] \notin {"pending", "valid"} => Startable(ota, Spare)

(* The request for a trial is there until the image it is for looks.       *)
WantInv ==
    /\ wanted \in [Slots -> BOOLEAN]
    /\ \A s \in Slots : wanted[s] =>
         /\ ota[s] # "valid"
         /\ ota[s] = "new" => request = slot[s] \/ slot[s] = Torn
         /\ ota[s] = "new" /\ app # "off" =>
              /\ app = "up" /\ ota[run] # "pending" /\ ~onTrial
              /\ \A w \in Writers : at[w] \notin {"arm", "switch"}
    /\ wanted[run] /\ ota[run] = "pending" /\ app \in {"guard", "starting", "confirm"} =>
         request = slot[run]
    /\ app = "mark" => ~wanted[run]

HonourInv == StateInv /\ PenInv /\ ImageInv /\ TrialInv /\ WantInv

LEMMA InitHonour == Init => HonourInv
<1> SUFFICES ASSUME Init PROVE HonourInv
  OBVIOUS
<1>1. NoJob \in Jobs
  BY DEF NoJob, Jobs
<1>2. PenInv
  <2>1. job \in [Writers -> Jobs] /\ version \in Images \cup {NoImage}
    BY <1>1 DEF Init
  <2>2. \A w \in Writers : at[w] = "none"
    BY DEF Init
  <2> QED
    BY <2>1, <2>2 DEF PenInv, Ahead
<1>3. StateInv /\ TrialInv
  BY DEF Init, StateInv, TrialInv, Slots, Spare
<1>4. WantInv
  BY DEF Init, WantInv, Slots
<1>5. ImageInv
  BY UpdateAssumption DEF Init, ImageInv, Slots
<1> QED
  BY <1>2, <1>3, <1>4, <1>5 DEF HonourInv

(* The steps that leave the writers at work alone, or end them all.        *)
Others ==
    \/ GuardPass \/ Healthy \/ ServerStart \/ ServerFails \/ TakeRequest \/ TrialBegin
    \/ TrialNoTimer \/ Confirm \/ EndTrial

LEMMA StepPen == ASSUME BaseInv, HonourInv, [Next]_vars PROVE PenInv'
<1> USE DEF BaseInv, HonourInv
<1>0. NoJob \in Jobs /\ run \in Slots /\ Spare \in Slots /\ Spare # run
  BY SlotIs DEF NoJob, Jobs, FwTypes
<1>1. CASE Resets \/ GuardSwap \/ Hang
  <2>1. NoWriters
    BY <1>1 DEF Resets, Crash, PowerCut, WatchdogReset, Restart, AskedRestart, GuardSwap, Hang, Down
  <2> QED
    BY <1>0, <2>1 DEF NoWriters, PenInv, Ahead
<1>2. CASE Boot
  <2>1. \A w \in Writers : at'[w] = "none"
    BY <1>2 DEF Boot, EarlyInv, writer
  <2>2. UNCHANGED <<job, version>>
    BY <1>2 DEF Boot, writer, fetch
  <2> QED
    BY <2>1, <2>2 DEF PenInv, Ahead
<1>3. CASE Others
  <2>1. UNCHANGED <<at, job, crossed, version, trialS, slot, run>>
    BY <1>3 DEF Others, EndTrial, GuardPass, Healthy, ServerStart, ServerFails, TakeRequest,
       TrialBegin, TrialNoTimer, Confirm, KeepPost, KeepMark, KeepFails, KeepStop,
       RollbackPost, RollbackMark, Timeout, TimeoutMark, BootSlotPost, flash, boot, fetch, writer
  <2>2. ota[run] # "pending" => ota'[run] # "pending"
    BY <1>0, <1>3 DEF Others, EndTrial, GuardPass, Healthy, ServerStart, ServerFails, TakeRequest,
       TrialBegin, TrialNoTimer, Confirm, KeepPost, KeepMark, KeepFails, KeepStop,
       RollbackPost, RollbackMark, Timeout, TimeoutMark, BootSlotPost, flash, MarkInvalid, Switch,
       FwTypes
  <2>3. app = "up" => app' = "up" /\ request' = request /\ (onTrial' => onTrial)
    BY <1>3 DEF Others, EndTrial, GuardPass, Healthy, ServerStart, ServerFails, TakeRequest,
       TrialBegin, TrialNoTimer, Confirm, KeepPost, KeepMark, KeepFails, KeepStop,
       RollbackPost, RollbackMark, Timeout, TimeoutMark, BootSlotPost, flash, boot, trial
  <2> QED
    BY <2>1, <2>2, <2>3 DEF PenInv, Spare
<1>4. CASE Write
  <2> USE DEF PenInv
  <2>0. UNCHANGED <<run, app, onTrial, Spare>> /\ ota'[run] = ota[run] /\ at \in [Writers -> Steps]
    BY <1>0, <1>4, WriteUp DEF Write, UploadPost, InstallCheck, InstallStart, InstallOpen,
       InstallBegin, WriteEnd, Arm, SwitchOver, GiveUp, Switch, flash, boot, trial, FwTypes, Spare
  <2>1. ASSUME NEW i \in Images, NEW t \in BOOLEAN, UploadPost(i, t)
        PROVE  PenInv'
    <3>1. /\ at' = [at EXCEPT !["upload"] = "write"] /\ ota[run] # "pending"
          /\ job' = [job EXCEPT !["upload"] = [image |-> i, trial |-> t]]
          /\ UNCHANGED <<request, version, trialS>>
          /\ crossed' = (crossed \/ \E u \in Writers \ {"upload"} : at[u] # "none")
      BY <2>1 DEF UploadPost, Erase, fetch
    <3>2. job' \in [Writers -> Jobs]
      BY <3>1 DEF Jobs
    <3> QED
      BY <2>0, <3>1, <3>2, WriterIs DEF Ahead
  <2>2. ASSUME NEW i \in Images, NEW t \in BOOLEAN, NEW w \in Fetchers, InstallCheck(w, i, t)
        PROVE  PenInv'
    <3>1. /\ at' = [at EXCEPT ![w] = "checked"]
          /\ job' = [job EXCEPT ![w] = [image |-> i, trial |-> t]]
          /\ UNCHANGED <<slot, request, version, trialS, crossed>>
      BY <2>2 DEF InstallCheck, flash, fetch
    <3>2. job' \in [Writers -> Jobs]
      BY <3>1 DEF Jobs
    <3> QED
      BY <2>0, <3>1, <3>2, WriterIs DEF Ahead
  <2>3. ASSUME NEW w \in Fetchers, InstallStart(w)
        PROVE  PenInv'
    <3>1. /\ at' = [at EXCEPT ![w] = "start"] /\ at[w] = "checked"
          /\ version' = job[w].image /\ trialS' = job[w].trial
          /\ crossed' = (crossed \/ \E u \in Fetchers \ {w} : at[u] # "none")
          /\ UNCHANGED <<slot, request, job>>
      BY <2>3 DEF InstallStart, flash
    <3>2. version' \in Images \cup {NoImage} /\ w \in Writers
      BY <3>1, WriterIs DEF Jobs
    <3>3. \A u \in Writers : u \in Fetchers \/ u = "upload"
      BY DEF Writers
    <3> QED
      BY <2>0, <3>1, <3>2, <3>3 DEF Ahead
  <2>4. ASSUME NEW w \in Fetchers, InstallOpen(w)
        PROVE  PenInv'
    <3>1. /\ at' = [at EXCEPT ![w] = "open"] /\ at[w] = "start"
          /\ job' = [job EXCEPT ![w].image = version]
          /\ UNCHANGED <<slot, request, version, trialS, crossed>>
      BY <2>4 DEF InstallOpen, flash
    <3>2. /\ job' \in [Writers -> Jobs] /\ w \in Writers
          /\ \A u \in Writers : job'[u].trial = job[u].trial
      BY <3>1, WriterIs DEF Jobs
    <3> QED
      BY <2>0, <3>1, <3>2 DEF Ahead
  <2>5. ASSUME NEW w \in Fetchers, InstallBegin(w)
        PROVE  PenInv'
    <3>1. /\ at' = [at EXCEPT ![w] = "write"] /\ at[w] = "open" /\ ota[run] # "pending"
          /\ UNCHANGED <<request, job, version, trialS>>
          /\ crossed' = (crossed \/ \E u \in Writers \ {w} : at[u] # "none")
      BY <2>5 DEF InstallBegin, Erase
    <3> QED
      BY <2>0, <3>1, WriterIs DEF Ahead
  <2>6. ASSUME NEW w \in Writers, WriteEnd(w)
        PROVE  PenInv'
    <3>1. /\ at' = [at EXCEPT ![w] = "arm"] /\ at[w] = "write" /\ app = "up"
          /\ \A u \in Writers : at[u] \notin {"arm", "switch"}
          /\ UNCHANGED <<request, job, version, trialS, crossed>>
          /\ ~hung /\ ~restart /\ handler # "kept"
      BY <2>6 DEF WriteEnd, Writing, Alive, fetch
    <3>2. ~onTrial
      BY <3>1 DEF TrialInv
    <3> QED
      BY <2>0, <3>1, <3>2 DEF Ahead
  <2>7. ASSUME NEW w \in Writers, Arm(w)
        PROVE  PenInv'
    <3>1. /\ at' = [at EXCEPT ![w] = "switch"] /\ at[w] = "arm"
          /\ request' = IF TrialOf(w) THEN slot[Spare] ELSE NoImage
          /\ UNCHANGED <<slot, job, version, trialS, crossed>>
      BY <2>7 DEF Arm, fetch
    <3>2. ~crossed => TrialOf(w) = job[w].trial
      BY <3>1 DEF TrialOf, Ahead
    <3> QED
      BY <2>0, <3>1, <3>2 DEF Ahead
  <2>8. ASSUME NEW w \in Writers, SwitchOver(w) \/ GiveUp(w)
        PROVE  PenInv'
    <3>1. at[w] \in Ahead /\ Finished(w) /\ UNCHANGED <<slot, request, crossed>>
      BY <2>8 DEF SwitchOver, GiveUp, flash, Ahead
    <3>2. /\ at' = [at EXCEPT ![w] = "none"] /\ job' = [job EXCEPT ![w] = NoJob]
      BY <3>1 DEF Finished
    <3>3. job' \in [Writers -> Jobs] /\ version' \in Images \cup {NoImage}
      BY <1>0, <3>1, <3>2 DEF Finished, fetch
    <3>4. \A u \in Writers : u # w /\ u # "upload" /\ at[u] \in Ahead => trialS' = trialS
      <4>1. \A u \in Writers : u # "upload" => u \in Fetchers
        BY DEF Writers
      <4> QED
        BY <3>1, <4>1 DEF Finished, fetch, Ahead
    <3> QED
      BY <2>0, <3>1, <3>2, <3>3, <3>4 DEF Ahead
  <2> QED
    BY <1>4, <2>1, <2>2, <2>3, <2>4, <2>5, <2>6, <2>7, <2>8 DEF Write
<1>5. CASE UNCHANGED vars
  BY <1>5 DEF vars, flash, boot, trial, fetch, writer, PenInv, Spare
<1> QED
  BY <1>1, <1>2, <1>3, <1>4, <1>5 DEF Next, Mishap, StartUp, Others, Resets

(* What a writer's step does to what the bootloader reads.                 *)
LEMMA WriteIs ==
    ASSUME BaseInv, HonourInv, Write
    PROVE  /\ UNCHANGED <<boot, trial, served, muddled>>
           /\ app \notin {"off", "guard", "starting"} /\ ~hung
           /\ \/ UNCHANGED <<slot, ota, newest, request, restart, wanted>>
              \/ /\ slot' = [slot EXCEPT ![Spare] = Torn] /\ ota[run] # "pending"
                 /\ UNCHANGED <<ota, newest, request, restart, wanted>>
              \/ /\ \E w \in Writers : at[w] = "write" /\ slot' = [slot EXCEPT ![Spare] = job[w].image]
                 /\ ~restart /\ UNCHANGED <<ota, newest, request, restart, wanted>>
              \/ /\ \E w \in Writers : at[w] = "arm"
                 /\ UNCHANGED <<slot, ota, newest, restart, wanted>>
              \/ /\ \E w \in Writers : at[w] = "switch" /\ at' = [at EXCEPT ![w] = "none"]
                      /\ wanted' = [wanted EXCEPT ![Spare] = job[w].trial /\ ~crossed]
                 /\ restart' /\ slot[Spare] # Torn /\ newest' = Spare
                 /\ ota' = [ota EXCEPT ![Spare] = "new"] /\ UNCHANGED <<slot, request>>
<1>1. UNCHANGED boot /\ app \notin {"off", "guard", "starting"}
  BY WriteUp DEF BaseInv
<1>2. CASE \E i \in Images, t \in BOOLEAN :
             UploadPost(i, t) \/ \E w \in Fetchers : InstallCheck(w, i, t)
  BY <1>1, <1>2 DEF UploadPost, InstallCheck, Erase, Serving, Alive, flash, hist
<1>3. CASE \E w \in Fetchers : InstallStart(w) \/ InstallOpen(w) \/ InstallBegin(w)
  BY <1>1, <1>3 DEF InstallStart, InstallOpen, InstallBegin, Erase, Alive, flash, hist
<1>4. CASE \E w \in Writers : WriteEnd(w) \/ Arm(w) \/ GiveUp(w)
  BY <1>1, <1>4 DEF WriteEnd, Writing, Arm, GiveUp, Alive, flash, hist
<1>5. CASE \E w \in Writers : SwitchOver(w)
  BY <1>1, <1>5 DEF SwitchOver, Switch, Finished, Alive
<1> QED
  BY <1>2, <1>3, <1>4, <1>5 DEF Write

LEMMA StepTrial == ASSUME BaseInv, HonourInv, [Next]_vars PROVE TrialInv'
<1> USE DEF BaseInv, HonourInv
<1>0. run \in Slots /\ Spare \in Slots /\ Spare # run /\ \A s \in Slots : s = run \/ s = Spare
  BY SlotIs DEF FwTypes, Slots, Spare
<1>1. CASE Resets \/ GuardSwap
  BY <1>1, ResetIs DEF GuardSwap, Down, TrialInv
<1>2. CASE Boot
  BY <1>2 DEF Boot, EarlyInv, trial, TrialInv
<1>3. CASE Hang
  BY <1>3 DEF Hang, flash, TrialInv, Spare, Startable
<1>4. CASE GuardPass \/ Healthy \/ ServerStart \/ ServerFails \/ TakeRequest \/ TrialBegin
           \/ TrialNoTimer
  BY <1>4 DEF GuardPass, Healthy, ServerStart, ServerFails, TakeRequest, TrialBegin,
     TrialNoTimer, flash, trial, StateInv, TrialInv, Spare, Startable
<1>5. CASE Confirm
  BY <1>5 DEF Confirm, HandlerInv, trial, TrialInv
<1>6. CASE KeepMark
  <2>1. /\ handler' = "kept" /\ ota' = [ota EXCEPT ![Marked] = "valid"] /\ UNCHANGED <<run, onTrial>>
    BY <1>6 DEF KeepMark, boot, trial
  <2>2. Marked \in {run, Spare}
    BY <1>0, MarkIs
  <2> QED
    BY <1>0, <2>1, <2>2 DEF FwTypes, TrialInv, Spare, Startable
<1>7. CASE RollbackMark \/ TimeoutMark
  <2>1. restart' /\ (MarkInvalid \/ UNCHANGED ota) /\ UNCHANGED <<run, app, onTrial, hung>>
    BY <1>7 DEF RollbackMark, TimeoutMark, boot, trial
  <2>2. Marked \in {run, Spare} /\ (Marked = run => 1 - Marked = Spare)
                                /\ (Marked = Spare => 1 - Marked = run)
    BY <1>0, MarkIs DEF Spare, Slots
  <2>3. onTrial => app # "off"
    BY DEF HandlerInv
  <2>4. onTrial => ota[run] # "new"
    BY <1>0, <2>3 DEF StateInv
  <2>5. CASE UNCHANGED ota
    BY <2>1, <2>5 DEF TrialInv, Spare, Startable
  <2>6. CASE MarkInvalid
    BY <1>0, <2>1, <2>2, <2>4, <2>6 DEF MarkInvalid, FwTypes, TrialInv, Spare, Startable
  <2> QED
    BY <2>1, <2>5, <2>6
<1>8. CASE KeepPost \/ KeepFails \/ KeepStop \/ RollbackPost \/ Timeout
  BY <1>8 DEF KeepPost, KeepFails, KeepStop, RollbackPost, Timeout, HandlerFree, flash, boot, trial,
     TrialInv, Spare, Startable
<1>9. CASE BootSlotPost
  <2>1. restart' /\ ota' = [ota EXCEPT ![Spare] = "new"] /\ UNCHANGED <<run, onTrial>>
    BY <1>9 DEF BootSlotPost, Switch, boot, trial
  <2> QED
    BY <1>0, <2>1 DEF FwTypes, TrialInv, Spare, Startable
<1>10. CASE Write
  <2>1. UNCHANGED <<run, hung, onTrial>>
    BY <1>10, WriteIs DEF boot, trial
  <2>2. onTrial => UNCHANGED <<ota, restart>>
    BY <1>10, WriteIs DEF PenInv
  <2>3. handler = "kept" => handler' = "kept"
    BY <1>10, WriterIs DEF Write, UploadPost, InstallCheck, InstallStart, InstallOpen, InstallBegin,
       WriteEnd, Arm, SwitchOver, GiveUp, Finished, HandlerFree, HandlerInv
  <2> QED
    BY <2>1, <2>2, <2>3 DEF TrialInv, Spare, Startable
<1>11. CASE UNCHANGED vars
  BY <1>11 DEF vars, flash, boot, trial, TrialInv, Spare, Startable
<1> QED
  BY <1>1, <1>2, <1>3, <1>4, <1>5, <1>6, <1>7, <1>8, <1>9, <1>10, <1>11
     DEF Next, Mishap, StartUp, EndTrial, Resets

LEMMA StepWant == ASSUME BaseInv, HonourInv, [Next]_vars PROVE WantInv'
<1> USE DEF BaseInv, HonourInv
<1>0. run \in Slots /\ Spare \in Slots /\ Spare # run /\ \A s \in Slots : s = run \/ s = Spare
  BY SlotIs DEF FwTypes, Slots, Spare
<1>1. CASE Resets
  BY <1>1, ResetIs DEF flash, WantInv
<1>2. CASE Boot
  <2>1. app = "off"
    BY <1>2 DEF Boot
  <2>2. UNCHANGED wanted /\ \A s \in Slots : ota'[s] \notin {"new"}
    BY <1>2, <2>1, BootIs DEF hist
  <2> QED
    BY <1>2, <2>1, <2>2, BootIs DEF WantInv
<1>3. CASE GuardSwap
  <2>1. /\ app' = "off" /\ UNCHANGED <<slot, request, run, wanted>> /\ app = "guard" /\ ~hung
        /\ ota' = [ota EXCEPT ![Spare] = "new"]
        /\ ota[Spare] \in {"new", "valid", "pending"} /\ slot[Spare] # Torn
    BY <1>3 DEF GuardSwap, GuardSwaps, Switch, Down, Alive
  <2>2. ota[Spare] \notin {"new", "pending"}
    BY <1>0, <2>1 DEF StateInv, EarlyInv
  <2>3. ~wanted[Spare]
    BY <1>0, <2>1, <2>2 DEF WantInv
  <2> QED
    BY <1>0, <2>1, <2>3 DEF FwTypes, WantInv
<1>4. CASE Hang
  BY <1>4 DEF Hang, NoWriters, flash, hist, WantInv
<1>5. CASE GuardPass \/ Healthy \/ ServerStart \/ ServerFails
  BY <1>5 DEF GuardPass, Healthy, ServerStart, ServerFails, flash, trial, writer, hist, WantInv
<1>6. CASE TakeRequest
  <2>1. /\ app = "confirm" /\ UNCHANGED <<slot, ota, run, wanted>> /\ app' \in {"up", "trial", "mark"}
        /\ app' = "mark" => ota[run] = "pending" /\ request # slot[run]
    BY <1>6 DEF TakeRequest, hist
  <2>2. \A s \in Slots : wanted[s] => ota[s] # "new"
    BY <2>1 DEF WantInv
  <2> QED
    BY <1>0, <2>1, <2>2 DEF WantInv
<1>7. CASE TrialBegin
  <2>1. app = "trial" /\ app' = "up" /\ UNCHANGED <<slot, ota, request, run, wanted>>
    BY <1>7 DEF TrialBegin, flash
  <2>2. \A s \in Slots : wanted[s] => ota[s] # "new"
    BY <2>1 DEF WantInv
  <2> QED
    BY <1>0, <2>1, <2>2 DEF WantInv
<1>8. CASE TrialNoTimer
  <2>1. /\ app = "trial" /\ app' = "mark" /\ UNCHANGED <<slot, ota, request, run>>
        /\ wanted' = [wanted EXCEPT ![run] = FALSE]
    BY <1>8 DEF TrialNoTimer, flash
  <2>2. \A s \in Slots : wanted[s] => ota[s] # "new"
    BY <2>1 DEF WantInv
  <2> QED
    BY <1>0, <2>1, <2>2 DEF WantInv
<1>9. CASE Confirm
  <2>1. /\ app = "mark" /\ app' = "up" /\ UNCHANGED <<slot, request, run, wanted, onTrial, at>>
        /\ ota' \in {ota, [ota EXCEPT ![Marked] = "valid"]}
    BY <1>9 DEF Confirm, trial, hist, writer
  <2>2. ota[run] = "pending" /\ ota[Spare] # "pending" /\ ~wanted[run]
    BY <2>1 DEF StateInv, WantInv
  <2>3. \A s \in Slots : wanted[s] => ota[s] # "new"
    BY <2>1 DEF WantInv
  <2>4. ~wanted[Marked]
    <3>1. Marked = run \/ (Marked = Spare /\ ota[Spare] \in {"new", "valid"})
      BY <1>0, <2>2 DEF Marked, FwTypes, Spare, Slots
    <3> QED
      BY <1>0, <2>2, <2>3, <3>1 DEF WantInv
  <2>5. \A s \in Slots : wanted[s] => ota'[s] = ota[s]
    BY <1>0, <2>1, <2>4, MarkIs DEF FwTypes
  <2> QED
    BY <1>0, <2>1, <2>3, <2>5 DEF WantInv
<1>10. CASE KeepMark
  <2>1. /\ handler = "keep" /\ UNCHANGED <<slot, request, run, app, onTrial, at>> /\ ~hung
        /\ ota' = [ota EXCEPT ![Marked] = "valid"]
        /\ wanted' = [wanted EXCEPT ![run] = FALSE]
    BY <1>10 DEF KeepMark, Serving, Alive, boot, trial, writer
  <2>2. onTrial /\ app = "up"
    BY <2>1 DEF HandlerInv
  <2>3. \A s \in Slots : wanted[s] => ota[s] # "new"
    BY <2>2 DEF WantInv
  <2>4. wanted[Spare] => Marked = run
    <3>1. SUFFICES ASSUME wanted[Spare], Marked = Spare PROVE FALSE
      BY <1>0, MarkIs
    <3>2. ota[Spare] \notin {"new", "pending", "valid"}
      BY <1>0, <2>2, <2>3, <3>1 DEF TrialInv, WantInv
    <3>3. newest = run /\ ota[run] \notin {"new", "pending", "valid"}
      BY <1>0, <3>1, <3>2 DEF Marked, FwTypes, Spare, Slots
    <3> QED
      BY <2>2, <3>2, <3>3 DEF TrialInv, Startable
  <2>5. \A s \in Slots : wanted'[s] => wanted[s] /\ s = Spare /\ ota'[s] = ota[s]
    BY <1>0, <2>1, <2>4 DEF FwTypes, WantInv
  <2>6. wanted' \in [Slots -> BOOLEAN]
    BY <2>1 DEF WantInv
  <2> QED
    BY <1>0, <2>1, <2>2, <2>3, <2>5, <2>6 DEF WantInv
<1>11. CASE RollbackMark \/ TimeoutMark
  <2>1. /\ UNCHANGED <<slot, request, run, app, onTrial, at, wanted>> /\ app = "up"
        /\ ota' = ota \/ ota' = [ota EXCEPT ![Marked] = "invalid"]
    BY <1>11 DEF RollbackMark, TimeoutMark, MarkInvalid, HandlerInv, boot, trial, writer, hist
  <2>2. \A s \in Slots : ota'[s] \in {ota[s], "invalid"}
    BY <2>1, MarkIs DEF FwTypes
  <2> QED
    BY <1>0, <2>1, <2>2 DEF WantInv
<1>12. CASE KeepPost \/ KeepFails \/ KeepStop \/ RollbackPost \/ Timeout
  BY <1>12 DEF KeepPost, KeepFails, KeepStop, RollbackPost, Timeout, flash, boot, trial, writer,
     hist, WantInv
<1>13. CASE BootSlotPost
  <2>1. /\ UNCHANGED <<slot, request, run, app, onTrial, at>> /\ app # "off"
        /\ ota' = [ota EXCEPT ![Spare] = "new"]
        /\ wanted' = [wanted EXCEPT ![Spare] = FALSE]
    BY <1>13 DEF BootSlotPost, Switch, Serving, Alive, boot, trial, writer
  <2>2. wanted' \in [Slots -> BOOLEAN]
    BY <2>1 DEF WantInv
  <2>3. \A s \in Slots : wanted'[s] => wanted[s] /\ s = run /\ ota'[s] = ota[s]
    BY <1>0, <2>1 DEF FwTypes, WantInv
  <2>4. ota[run] # "new"
    BY <1>0, <2>1 DEF StateInv
  <2> QED
    BY <1>0, <2>1, <2>2, <2>3, <2>4 DEF WantInv
<1>14. CASE Write
  <2>0. UNCHANGED <<run, app, onTrial>> /\ app \notin {"off", "guard", "starting"} /\ ~hung
    BY <1>14, WriteIs DEF boot, trial
  <2>1. \A s \in Slots : wanted[s] /\ ota[s] = "new" =>
             s = Spare /\ restart /\ \A w \in Writers : at[w] \notin {"arm", "switch"}
    BY <2>0 DEF WantInv, StateInv
  <2>2. CASE UNCHANGED <<ota, wanted>>
    <3>1. (\E s \in Slots : wanted[s] /\ ota[s] = "new") =>
            /\ slot'[Spare] = slot[Spare] \/ slot'[Spare] = Torn
            /\ request' = request
            /\ \A w \in Writers : at'[w] \notin {"arm", "switch"}
      <4> SUFFICES ASSUME NEW s \in Slots, wanted[s], ota[s] = "new"
                   PROVE  /\ slot'[Spare] = slot[Spare] \/ slot'[Spare] = Torn
                          /\ request' = request
                          /\ \A w \in Writers : at'[w] \notin {"arm", "switch"}
        OBVIOUS
      <4>1. restart /\ \A w \in Writers : at[w] \notin {"arm", "switch"}
        BY <2>1
      <4>2. request' = request /\ (slot'[Spare] = slot[Spare] \/ slot'[Spare] = Torn)
        BY <1>0, <1>14, <4>1, WriteIs DEF ImageInv
      <4>3. \A w \in Writers : at'[w] \notin {"arm", "switch"}
        BY <1>14, <4>1, WriterIs DEF Write, UploadPost, InstallCheck, InstallStart, InstallOpen,
           InstallBegin, WriteEnd, Arm, SwitchOver, GiveUp, Finished, FwTypes
      <4> QED
        BY <4>2, <4>3
    <3>2. app = "confirm" => request' = request /\ slot'[run] = slot[run]
      BY <1>0, <1>14, WriteIs DEF PenInv, ImageInv
    <3> QED
      BY <1>0, <2>0, <2>1, <2>2, <3>1, <3>2 DEF WantInv
  <2>3. ASSUME NEW w \in Writers, SwitchOver(w)
        PROVE  WantInv'
    <3>1. /\ at[w] = "switch" /\ at' = [at EXCEPT ![w] = "none"]
          /\ wanted' = [wanted EXCEPT ![Spare] = job[w].trial /\ ~crossed]
          /\ ota' = [ota EXCEPT ![Spare] = "new"] /\ UNCHANGED <<slot, request>>
      BY <2>3 DEF SwitchOver, Switch, Finished
    <3>2. /\ app = "up" /\ ota[run] # "pending" /\ ~onTrial
          /\ wanted'[Spare] => request = slot[Spare]
          /\ \A u \in Writers : at'[u] \notin {"arm", "switch"}
      BY <1>0, <3>1 DEF PenInv, WantInv, FwTypes
    <3>3. wanted' \in [Slots -> BOOLEAN]
      BY <3>1 DEF WantInv
    <3>4. wanted'[run] = wanted[run] /\ ota'[run] = ota[run] /\ ota'[Spare] = "new"
      BY <1>0, <3>1 DEF WantInv, FwTypes
    <3>5. ota[run] # "new"
      BY <1>0, <2>0 DEF StateInv
    <3> QED
      BY <1>0, <2>0, <3>1, <3>2, <3>3, <3>4, <3>5 DEF WantInv
  <2>4. UNCHANGED <<ota, wanted>> \/ \E w \in Writers : SwitchOver(w)
    BY <1>14 DEF Write, UploadPost, InstallCheck, InstallStart, InstallOpen, InstallBegin,
       WriteEnd, Arm, GiveUp, flash, hist
  <2> QED
    BY <2>2, <2>3, <2>4
<1>15. CASE UNCHANGED vars
  BY <1>15 DEF vars, flash, boot, trial, writer, hist, WantInv
<1> QED
  BY <1>1, <1>2, <1>3, <1>4, <1>5, <1>6, <1>7, <1>8, <1>9, <1>10, <1>11, <1>12, <1>13, <1>14, <1>15
     DEF Next, Mishap, StartUp, EndTrial, Resets

LEMMA StepImage == ASSUME BaseInv, HonourInv, [Next]_vars PROVE ImageInv'
<1> USE DEF BaseInv, HonourInv
<1>0. run \in Slots /\ Spare \in Slots /\ Spare # run
  BY SlotIs DEF FwTypes
<1>1. CASE Resets
  BY <1>1, ResetIs DEF flash, ImageInv
<1>2. CASE Boot
  <2>1. app = "off"
    BY <1>2 DEF Boot
  <2> QED
    BY <1>2, <2>1, BootIs DEF ImageInv, hist, writer, fetch
<1>3. CASE GuardSwap
  BY <1>3 DEF GuardSwap, Down, NoWriters, ImageInv
<1>4. CASE Hang
  BY <1>4 DEF Hang, NoWriters, flash, hist, ImageInv
<1>5. CASE Others
  <2>1. UNCHANGED <<slot, run, at, job, version>> /\ app # "off"
    BY <1>5 DEF Others, EndTrial, GuardPass, Healthy, ServerStart, ServerFails, TakeRequest,
       TrialBegin, TrialNoTimer, Confirm, KeepPost, KeepMark, KeepFails, KeepStop, RollbackPost,
       RollbackMark, Timeout, TimeoutMark, BootSlotPost, Serving, Alive, flash, boot, fetch, writer
  <2>2. served' \in {served, served \cup {slot[run]}}
    BY <1>5 DEF Others, EndTrial, GuardPass, Healthy, ServerStart, ServerFails, TakeRequest,
       TrialBegin, TrialNoTimer, Confirm, KeepPost, KeepMark, KeepFails, KeepStop, RollbackPost,
       RollbackMark, Timeout, TimeoutMark, BootSlotPost, hist
  <2>3. slot[run] \in Images
    BY <1>0, <2>1 DEF ImageInv
  <2> QED
    BY <2>1, <2>2, <2>3 DEF ImageInv
<1>6. CASE Write
  <2>0. UNCHANGED <<run, app, served>> /\ app # "off"
    BY <1>6, WriteIs DEF boot
  <2>1. slot' \in [Slots -> Images \cup {Torn}] /\ slot'[run] = slot[run]
    BY <1>0, <1>6, WriteIs DEF ImageInv
  <2>2. ASSUME NEW w \in Writers
        PROVE  /\ at'[w] # "none" => job'[w].image \in Images
               /\ at'[w] = "start" => version' \in Images
    <3> USE DEF FwTypes, PenInv, ImageInv
    <3>1. CASE \E i \in Images, t \in BOOLEAN :
                 UploadPost(i, t) \/ \E v \in Fetchers : InstallCheck(v, i, t)
      BY <2>2, <3>1, WriterIs DEF UploadPost, InstallCheck, fetch
    <3>2. CASE \E v \in Fetchers : InstallStart(v) \/ InstallOpen(v) \/ InstallBegin(v)
      BY <2>2, <3>2, WriterIs DEF InstallStart, InstallOpen, InstallBegin, Jobs
    <3>3. CASE \E v \in Writers : WriteEnd(v) \/ Arm(v)
      BY <2>2, <3>3 DEF WriteEnd, Writing, Arm, fetch
    <3>4. ASSUME NEW v \in Writers, SwitchOver(v) \/ GiveUp(v)
          PROVE  /\ at'[w] # "none" => job'[w].image \in Images
                 /\ at'[w] = "start" => version' \in Images
      <4>1. Finished(v)
        BY <3>4 DEF SwitchOver, GiveUp
      <4>2. at' = [at EXCEPT ![v] = "none"] /\ job' = [job EXCEPT ![v] = NoJob]
        BY <4>1 DEF Finished
      <4>3. at["upload"] # "start"
        BY DEF HandlerInv
      <4> QED
        BY <2>2, <4>1, <4>2, <4>3 DEF Finished, fetch, Writers
    <3> QED
      BY <1>6, <3>1, <3>2, <3>3, <3>4 DEF Write
  <2> QED
    BY <2>0, <2>1, <2>2 DEF ImageInv
<1>7. CASE UNCHANGED vars
  BY <1>7 DEF vars, flash, boot, fetch, writer, hist, ImageInv
<1> QED
  BY <1>1, <1>2, <1>3, <1>4, <1>5, <1>6, <1>7 DEF Next, Mishap, StartUp, Others, Resets

LEMMA HonourAlways == Spec => [](BaseInv /\ HonourInv)
<1>1. Init => BaseInv /\ HonourInv
  BY InitBase, InitHonour
<1>2. BaseInv /\ HonourInv /\ [Next]_vars => (BaseInv /\ HonourInv)'
  <2> SUFFICES ASSUME BaseInv, HonourInv, [Next]_vars PROVE BaseInv' /\ HonourInv'
    OBVIOUS
  <2>1. BaseInv'
    BY StepBase
  <2>2. StateInv'
    BY StepState DEF HonourInv
  <2> QED
    BY <2>1, <2>2, StepPen, StepImage, StepTrial, StepWant DEF HonourInv
<1> QED
  BY <1>1, <1>2, PTL DEF Spec

(* An image that was asked to be on trial, and whose update ran alone, is  *)
(* not confirmed before somebody kept it, whoever else installs, switches, *)
(* restarts or crashes in between.                                         *)
THEOREM TrialStaysHonoured == Spec => []TrialHonoured
<1>1. HonourInv => TrialHonoured
  BY DEF HonourInv, WantInv, TrialHonoured
<1> QED
  BY <1>1, HonourAlways, PTL

----------------------------------------------------------------------------
(* Where the device stands with its two images, unless `muddled`.          *)

(* The bootloader starts this slot when the other one cannot be. *)
Fallback(s) == ota[s] = "valid" \/ (s = 0 /\ ota[s] \in {"none", "aborted", "invalid"})

(* The running image is the one to come back to. *)
Settled ==
    /\ Fallback(run) /\ (ota[run] = "valid" \/ ota[Spare] # "valid")
    /\ slot[run] \in served
    /\ newest = Spare => ota[Spare] # "valid"
    /\ onTrial => handler = "kept"

(* It is not confirmed, or was marked bad; the other one is. *)
Fresh ==
    /\ ota[run] = "pending" \/ (ota[run] = "invalid" /\ (app = "off" \/ onTrial))
    /\ newest = run /\ Fallback(Spare) /\ slot[Spare] \in served

(* Rolled back, and the operator asked for the other slot before the       *)
(* restart: the old image is new once more ...                             *)
Leaving ==
    /\ ota[run] = "invalid" /\ ota[Spare] = "new" /\ newest = Spare
    /\ slot[run] \in served /\ slot[Spare] \in served
    /\ request = NoImage /\ (app = "off" \/ onTrial)

(* ... and has to be confirmed again. *)
Returned ==
    /\ ota[run] = "pending" /\ ota[Spare] = "invalid" /\ newest = run
    /\ slot[run] \in served /\ slot[Spare] \in served
    /\ request = NoImage /\ ~onTrial /\ app # "trial"

Home == Settled \/ Fresh \/ Leaving \/ Returned

(* A trial that was not muddled: nobody writes, its image has served, and  *)
(* a keep and a rollback exclude each other.                               *)
TrialHome ==
    /\ app \in {"confirm", "trial", "mark"} \/ onTrial => slot[run] \in served
    /\ app = "trial" \/ onTrial => request = NoImage
    /\ onTrial => \A w \in Writers : at[w] = "none"
    /\ onTrial /\ ota[run] = "invalid" => rolledBack \/ hung
    /\ timer \/ timeout = "rollback" => onTrial
    /\ timeout = "rollback" => rolledBack
    /\ handler = "rollback" => rolledBack \/ hung
    /\ handler \in {"keep", "kept"} => ~rolledBack
    /\ handler = "keep" => ota[run] = "pending"
    /\ handler = "kept" => ota[run] = "valid"

HomeInv == muddled \/ (Home /\ TrialHome)
AllInv  == BaseInv /\ HonourInv /\ HomeInv

(* What the next boot starts.                                              *)
LEMMA NextBoot ==
    ASSUME BaseInv, HonourInv
    PROVE  /\ Settled => Loaded(Reverted) =
                            IF ota[Spare] = "new" /\ slot[Spare] # Torn THEN Spare ELSE run
           /\ Fresh \/ Leaving => Loaded(Reverted) = Spare
           /\ Returned => Loaded(Reverted) = 0
<1>0. /\ run \in Slots /\ Spare \in Slots /\ Spare # run /\ newest \in {run, Spare}
      /\ 1 - run = Spare /\ 1 - Spare = run /\ (run = 0 \/ Spare = 0)
  BY SlotIs DEF BaseInv, FwTypes, Slots, Spare
<1>1. \A s \in Slots : Reverted[s] = IF ota[s] = "pending" THEN "aborted" ELSE ota[s]
  BY DEF Reverted
<1>2. \A s \in Slots : Startable(Reverted, s) <=> ota[s] \in {"new", "valid"}
  BY <1>1 DEF Startable
<1>3. Torn \notin served
  BY UpdateAssumption DEF HonourInv, ImageInv
<1>4. /\ ota[run] = "new" => newest = run
      /\ ota[Spare] = "new" => newest = Spare
  BY <1>0 DEF HonourInv, StateInv
<1> HIDE DEF Spare
<1>5. ASSUME Settled
      PROVE  Loaded(Reverted) = IF ota[Spare] = "new" /\ slot[Spare] # Torn THEN Spare ELSE run
  <2>1. CASE ota[Spare] = "new"
    <3>1. Active(Reverted) = Spare
      BY <1>0, <1>2, <1>4, <2>1 DEF Active
    <3> QED
      BY <1>0, <2>1, <3>1 DEF Loaded
  <2>2. CASE ota[Spare] # "new"
    <3>1. Active(Reverted) = run
      BY <1>0, <1>2, <1>5, <2>2 DEF Active, Settled, Fallback
    <3> QED
      BY <1>3, <1>5, <2>2, <3>1 DEF Loaded, Settled
  <2> QED
    BY <2>1, <2>2
<1>6. ASSUME Fresh \/ Leaving
      PROVE  Loaded(Reverted) = Spare
  <2>1. Active(Reverted) = Spare
    BY <1>0, <1>2, <1>6 DEF Active, Fresh, Leaving, Fallback
  <2> QED
    BY <1>3, <1>6, <2>1 DEF Loaded, Fresh, Leaving
<1>7. ASSUME Returned
      PROVE  Loaded(Reverted) = 0
  <2>1. Active(Reverted) = 0
    BY <1>0, <1>2, <1>7 DEF Active, Returned
  <2> QED
    BY <1>0, <1>3, <1>7, <2>1 DEF Loaded, Returned
<1> QED
  BY <1>5, <1>6, <1>7

LEMMA InitHome == Init => HomeInv
BY UpdateAssumption DEF Init, HomeInv, Home, TrialHome, Settled, Fallback, Slots, Spare

LEMMA BootHome == ASSUME AllInv, ~muddled, Boot PROVE Home' /\ TrialHome'
<1> USE DEF AllInv
<1>0. /\ run \in Slots /\ Spare \in Slots /\ Spare # run /\ (run = 0 \/ Spare = 0)
      /\ 1 - run = Spare /\ 1 - Spare = run
  BY SlotIs DEF BaseInv, FwTypes, Slots, Spare
<1>1. /\ run' = Loaded(Reverted) /\ app = "off" /\ app' = "guard" /\ ~onTrial
      /\ UNCHANGED <<slot, newest, request, hung, onTrial, rolledBack, timer, timeout, handler,
                     at, served>>
  BY DEF Boot, trial, writer, hist, BaseInv, EarlyInv
<1>2. \A s \in Slots : ota'[s] = IF ota[s] = "new" THEN "pending"
                                  ELSE IF ota[s] = "pending" THEN "aborted" ELSE ota[s]
  BY <1>1, BootIs DEF BaseInv, HonourInv
<1>3. TrialHome'
  BY <1>1 DEF HomeInv, TrialHome, BaseInv, EarlyInv
<1>4. Spare' = 1 - run'
  BY DEF Spare
<1>5. newest \in {run, Spare} /\ (ota[Spare] = "new" => newest = Spare)
  BY <1>0 DEF HonourInv, StateInv, BaseInv, FwTypes, Slots
<1> HIDE DEF Spare
<1>6. CASE Settled /\ run' = run
  <2>1. Spare' = Spare
    BY <1>0, <1>4, <1>6
  <2> QED
    BY <1>0, <1>1, <1>2, <1>3, <1>6, <2>1 DEF Home, Settled, Fallback
<1>7. CASE Settled /\ run' = Spare /\ ota[Spare] = "new"
  <2>1. Spare' = run
    BY <1>0, <1>4, <1>7
  <2> QED
    BY <1>0, <1>1, <1>2, <1>3, <1>5, <1>7, <2>1 DEF Home, Settled, Fresh, Fallback
<1>8. CASE Fresh /\ run' = Spare
  <2>1. Spare' = run
    BY <1>0, <1>4, <1>8
  <2> QED
    BY <1>0, <1>1, <1>2, <1>3, <1>8, <2>1 DEF Home, Settled, Fresh, Fallback
<1>9. CASE Leaving /\ run' = Spare
  <2>1. Spare' = run
    BY <1>0, <1>4, <1>9
  <2> QED
    BY <1>0, <1>1, <1>2, <1>3, <1>9, <2>1 DEF Home, Leaving, Returned
<1>10. CASE Returned /\ run' = 0
  <2>1. Spare' \in {run, Spare} /\ Spare' # run' /\ run' \in {run, Spare}
    BY <1>0, <1>4, <1>10 DEF Slots
  <2> QED
    BY <1>0, <1>1, <1>2, <1>3, <1>10, <2>1 DEF Home, Settled, Returned, Fallback
<1> QED
  BY <1>1, <1>6, <1>7, <1>8, <1>9, <1>10, NextBoot DEF HomeInv, Home

LEMMA StepHome == ASSUME AllInv, [Next]_vars PROVE HomeInv'
<1> USE DEF AllInv
<1> SUFFICES ASSUME ~muddled' PROVE Home' /\ TrialHome'
  BY DEF HomeInv
<1>0. /\ run \in Slots /\ Spare \in Slots /\ Spare # run /\ ota \in [Slots -> States]
      /\ 1 - run = Spare /\ 1 - Spare = run
  BY SlotIs DEF BaseInv, FwTypes, Slots, Spare
<1>m. ~muddled
  BY DEF Next, Boot, Mishap, Crash, PowerCut, Hang, WatchdogReset, Restart, AskedRestart,
     StartUp, GuardSwap, GuardPass, Healthy, ServerStart, ServerFails, TakeRequest, TrialBegin,
     TrialNoTimer, Confirm, EndTrial, KeepPost, KeepMark, KeepFails, KeepStop, RollbackPost,
     RollbackMark, Timeout, TimeoutMark, BootSlotPost, Write, UploadPost, InstallCheck,
     InstallStart, InstallOpen, InstallBegin, WriteEnd, Arm, SwitchOver, GiveUp, hist, vars
<1>h. Home /\ TrialHome
  BY <1>m DEF HomeInv
<1>t. onTrial => app = "up"
  BY DEF BaseInv, HandlerInv
<1>1. CASE Resets
  BY <1>1, <1>h, ResetIs DEF flash, Spare, Home, TrialHome, Settled, Fallback, Fresh, Leaving, Returned
<1>2. CASE Boot
  BY <1>2, <1>m, BootHome
<1>3. CASE GuardSwap
  <2>1. /\ app' = "off" /\ ~onTrial' /\ ~timer' /\ timeout' = "idle" /\ handler' = "idle"
        /\ UNCHANGED <<slot, run, served>> /\ app = "guard" /\ ota[run] # "pending"
        /\ ota' = [ota EXCEPT ![Spare] = "new"] /\ newest' = Spare
    BY <1>3 DEF GuardSwap, Switch, Down
  <2>2. Settled
    BY <1>h, <1>t, <2>1 DEF Home, Fresh, Leaving, Returned
  <2>3. TrialHome'
    BY <2>1 DEF TrialHome
  <2>4. ota'[run] = ota[run] /\ ota'[Spare] = "new" /\ UNCHANGED Spare
    BY <1>0, <2>1 DEF Spare
  <2> QED
    BY <2>1, <2>2, <2>3, <2>4 DEF Home, Settled, Fallback
<1>4. CASE Hang
  <2>1. /\ UNCHANGED <<slot, ota, newest, request, run, app, onTrial, handler, served>>
        /\ hung' /\ ~rolledBack' /\ ~timer' /\ timeout' = "idle"
        /\ \A w \in Writers : at'[w] = "none"
    BY <1>4 DEF Hang, NoWriters, flash, hist
  <2> QED
    BY <1>h, <2>1 DEF Spare, Home, TrialHome, Settled, Fallback, Fresh, Leaving, Returned
<1>5. CASE GuardPass \/ Healthy \/ ServerStart \/ ServerFails
  <2>1. /\ UNCHANGED <<slot, ota, newest, request, run, hung, trial, handler, at>>
        /\ app # "off" /\ app' # "off" /\ app' \notin {"trial", "mark"} /\ served \subseteq served'
        /\ app' = "confirm" => slot[run] \in served'
    BY <1>5 DEF GuardPass, Healthy, ServerStart, ServerFails, Alive, flash, writer, hist
  <2> QED
    BY <1>h, <2>1 DEF trial, Spare, Home, TrialHome, Settled, Fallback, Fresh, Leaving, Returned
<1>6. CASE TakeRequest
  <2>1. /\ UNCHANGED <<slot, ota, newest, run, hung, trial, handler, at, served>>
        /\ app = "confirm" /\ app' \in {"up", "trial", "mark"} /\ request' = NoImage
        /\ app' = "trial" => request = slot[run]
    BY <1>6 DEF TakeRequest, writer, hist
  <2>2. NoImage \notin served
    BY UpdateAssumption DEF HonourInv, ImageInv
  <2> QED
    BY <1>h, <2>1, <2>2 DEF trial, Spare, Home, TrialHome, Settled, Fallback, Fresh, Leaving, Returned
<1>7. CASE TrialBegin
  <2>1. /\ UNCHANGED <<slot, ota, newest, request, run, hung, rolledBack, timeout, handler, at, served>>
        /\ app = "trial" /\ app' = "up" /\ onTrial' /\ \A w \in Writers : at[w] = "none"
    BY <1>7 DEF TrialBegin, flash, writer
  <2>2. ota[run] = "pending" /\ ~onTrial /\ handler \notin {"keep", "kept", "rollback"}
        /\ timeout # "rollback"
    BY <2>1 DEF HonourInv, StateInv, BaseInv, HandlerInv
  <2>3. Fresh
    BY <1>h, <2>1, <2>2 DEF Home, Settled, Fallback, Leaving, Returned
  <2> QED
    BY <1>h, <2>1, <2>2, <2>3 DEF Spare, Home, TrialHome, Fallback, Fresh
<1>8. CASE TrialNoTimer
  <2>1. /\ UNCHANGED <<slot, ota, newest, request, run, hung, trial, handler, at, served>>
        /\ app = "trial" /\ app' = "mark"
    BY <1>8 DEF TrialNoTimer, flash, writer
  <2> QED
    BY <1>h, <2>1 DEF trial, Spare, Home, TrialHome, Settled, Fallback, Fresh, Leaving, Returned
<1>9. CASE Confirm
  <2>1. /\ UNCHANGED <<slot, newest, request, run, hung, trial, handler, at, served>>
        /\ app = "mark" /\ app' = "up" /\ ota' \in {ota, [ota EXCEPT ![Marked] = "valid"]}
    BY <1>9 DEF Confirm, writer, hist
  <2>2. ota[run] = "pending" /\ ~onTrial /\ handler \notin {"keep", "kept", "rollback"}
    BY <2>1 DEF HonourInv, StateInv, BaseInv, HandlerInv
  <2>3. newest = run /\ Marked = run
    BY <1>h, <2>1, <2>2 DEF Home, Settled, Fallback, Fresh, Leaving, Returned, Marked
  <2>4. ota' = ota \/ (ota'[run] = "valid" /\ ota'[Spare] = ota[Spare])
    BY <1>0, <2>1, <2>3
  <2>5. TrialHome'
    BY <1>h, <2>1, <2>2 DEF trial, TrialHome
  <2>6. CASE ota' = ota
    BY <1>h, <2>1, <2>2, <2>5, <2>6 DEF trial, Spare, Home, Settled, Fallback, Fresh, Leaving, Returned
  <2>7. CASE ota'[run] = "valid" /\ ota'[Spare] = ota[Spare]
    <3>1. Settled'
      BY <1>0, <1>h, <2>1, <2>2, <2>3, <2>7 DEF trial, Spare, TrialHome, Settled, Fallback
    <3> QED
      BY <2>5, <3>1 DEF Home
  <2> QED
    BY <2>4, <2>6, <2>7
<1>10. CASE KeepPost
  <2>1. /\ UNCHANGED <<slot, ota, newest, request, run, app, hung, trial, at, served>>
        /\ onTrial /\ ~rolledBack /\ ~hung /\ handler = "idle" /\ handler' = "keep"
    BY <1>10 DEF KeepPost, HandlerFree, Serving, Alive, flash, boot, writer, hist
  <2>2. ota[run] = "pending" /\ Fresh
    BY <1>h, <2>1 DEF Home, TrialHome, Settled, Fresh, Leaving, Returned
  <2> QED
    BY <1>h, <2>1, <2>2 DEF trial, Spare, Home, TrialHome, Fallback, Fresh
<1>11. CASE KeepMark
  <2>1. /\ UNCHANGED <<slot, newest, request, run, app, hung, trial, at, served>>
        /\ handler = "keep" /\ handler' = "kept" /\ ota' = [ota EXCEPT ![Marked] = "valid"]
    BY <1>11 DEF KeepMark, boot, writer
  <2>2. onTrial /\ ota[run] = "pending"
    BY <1>h, <2>1 DEF TrialHome, BaseInv, HandlerInv
  <2>3. Fresh
    BY <1>h, <2>2 DEF Home, Settled, Fallback, Leaving, Returned
  <2>4. Marked = run
    BY <2>2, <2>3 DEF Marked, Fresh
  <2>5. ota'[run] = "valid" /\ ota'[Spare] = ota[Spare]
    BY <1>0, <2>1, <2>4
  <2>6. Settled'
    BY <1>0, <1>h, <2>1, <2>2, <2>3, <2>5 DEF trial, Spare, TrialHome, Settled, Fresh, Fallback
  <2> QED
    BY <1>h, <2>1, <2>2, <2>5, <2>6 DEF trial, Home, TrialHome
<1>12. CASE KeepFails
  <2>1. /\ UNCHANGED <<slot, ota, newest, request, run, app, hung, trial, at, served>>
        /\ handler = "keep" /\ handler' = "idle"
    BY <1>12 DEF KeepFails, flash, boot, writer, hist
  <2> QED
    BY <1>h, <2>1 DEF trial, Spare, Home, TrialHome, Settled, Fallback, Fresh, Leaving, Returned
<1>13. CASE KeepStop
  <2>1. /\ UNCHANGED <<slot, ota, newest, request, run, app, hung, rolledBack, timeout, at, served>>
        /\ handler = "kept" /\ handler' = "idle" /\ ~timer' /\ ~onTrial'
    BY <1>13 DEF KeepStop, flash, boot, writer, hist
  <2>2. ota[run] = "valid" /\ ~rolledBack /\ timeout # "rollback" /\ app = "up"
    BY <1>h, <1>t, <2>1 DEF TrialHome, BaseInv, HandlerInv
  <2> QED
    BY <1>h, <2>1, <2>2 DEF Spare, Home, TrialHome, Settled, Fallback, Fresh, Leaving, Returned
<1>14. CASE RollbackPost
  <2>1. /\ UNCHANGED <<slot, ota, newest, request, run, app, hung, onTrial, timeout, at, served>>
        /\ onTrial /\ handler = "idle" /\ handler' = "rollback" /\ rolledBack' /\ ~timer'
    BY <1>14 DEF RollbackPost, HandlerFree, flash, boot, writer, hist
  <2> QED
    BY <1>h, <2>1 DEF Spare, Home, TrialHome, Settled, Fallback, Fresh, Leaving, Returned
<1>15. CASE Timeout
  <2>1. /\ UNCHANGED <<slot, ota, newest, request, run, app, hung, onTrial, handler, at, served>>
        /\ timer /\ timeout' = "rollback" /\ rolledBack' /\ ~timer'
        /\ handler \notin {"keep", "kept"}
    BY <1>15 DEF Timeout, flash, boot, writer
  <2> QED
    BY <1>h, <2>1 DEF Spare, Home, TrialHome, Settled, Fallback, Fresh, Leaving, Returned
<1>16. CASE RollbackMark \/ TimeoutMark
  <2>1. /\ UNCHANGED <<slot, newest, request, run, app, hung, onTrial, rolledBack, timer, at, served>>
        /\ MarkInvalid \/ UNCHANGED ota
        /\ handler = "rollback" \/ timeout = "rollback"
        /\ handler' \in {handler, "idle"} /\ timeout' \in {timeout, "idle"} /\ ~hung
    BY <1>16 DEF RollbackMark, TimeoutMark, Serving, Alive, boot, trial, writer, hist
  <2>2. onTrial /\ rolledBack /\ handler \notin {"keep", "kept"}
    BY <1>h, <2>1 DEF TrialHome, BaseInv, HandlerInv
  <2>3. Fresh \/ Leaving
    BY <1>h, <2>2 DEF Home, Settled, Returned
  <2>4. CASE UNCHANGED ota
    BY <1>h, <2>1, <2>2, <2>3, <2>4 DEF Spare, Home, TrialHome, Fallback, Fresh, Leaving
  <2>5. CASE MarkInvalid
    <3>1. ota[run] = "pending" /\ newest = run
      <4>1. ota[run] = "invalid" => Marked = Spare
        BY <1>0, <2>3 DEF Marked, Fresh, Leaving
      <4> QED
        BY <1>0, <2>3, <2>5, <4>1 DEF MarkInvalid, Startable, Fresh, Leaving
    <3>2. Marked = run
      BY <3>1 DEF Marked
    <3>3. ota'[run] = "invalid" /\ ota'[Spare] = ota[Spare]
      BY <1>0, <2>5, <3>2 DEF MarkInvalid
    <3>4. Fresh'
      BY <2>1, <2>2, <2>3, <3>1, <3>3 DEF Spare, Fresh, Leaving, Fallback
    <3>5. TrialHome'
      BY <1>h, <2>1, <2>2, <3>3 DEF TrialHome
    <3> QED
      BY <3>4, <3>5 DEF Home
  <2> QED
    BY <2>1, <2>4, <2>5
<1>17. CASE BootSlotPost
  <2>1. /\ UNCHANGED <<slot, request, run, app, hung, trial, handler, at, served>>
        /\ app # "off" /\ handler = "idle" /\ ota[run] # "pending" /\ ota[Spare] # "invalid"
        /\ ota' = [ota EXCEPT ![Spare] = "new"] /\ newest' = Spare
    BY <1>17 DEF BootSlotPost, HandlerFree, Switch, Serving, Alive, boot, writer
  <2>2. ota'[run] = ota[run] /\ ota'[Spare] = "new" /\ UNCHANGED Spare
    BY <1>0, <2>1 DEF Spare
  <2>3. TrialHome'
    BY <1>h, <2>1, <2>2 DEF trial, TrialHome
  <2>4. CASE Settled
    BY <2>1, <2>2, <2>3, <2>4 DEF trial, Home, Settled, Fallback
  <2>5. CASE Fresh \/ Leaving
    <3>1. onTrial /\ ota[run] = "invalid" /\ slot[Spare] \in served
      BY <2>1, <2>5 DEF Fresh, Leaving
    <3>2. slot[run] \in served /\ request = NoImage
      BY <1>h, <3>1 DEF TrialHome
    <3>3. Leaving'
      BY <2>1, <2>2, <3>1, <3>2 DEF trial, Leaving
    <3> QED
      BY <2>3, <3>3 DEF Home
  <2> QED
    BY <1>h, <2>1, <2>4, <2>5 DEF Home, Returned
<1>18. CASE Write
  <2>1. ~onTrial
    BY <1>18, <1>h DEF Write, UploadPost, InstallCheck, InstallStart, InstallOpen, InstallBegin,
       WriteEnd, Writing, Arm, SwitchOver, GiveUp, TrialHome, Writers
  <2>2. UNCHANGED <<run, app, hung, onTrial, rolledBack, timer, timeout, served>> /\ app # "off"
    BY <1>18, WriteIs DEF boot, trial
  <2>3. handler' \notin {"keep", "kept", "rollback"}
    <3>1. handler \notin {"keep", "kept", "rollback"}
      BY <2>1 DEF BaseInv, HandlerInv
    <3> QED
      BY <1>18, <3>1 DEF Write, UploadPost, InstallCheck, InstallStart, InstallOpen, InstallBegin,
         WriteEnd, Arm, SwitchOver, GiveUp, Finished
  <2>4. CASE UNCHANGED <<slot, ota, newest, request>>
    BY <1>h, <2>1, <2>2, <2>3, <2>4
       DEF Spare, Home, TrialHome, Settled, Fallback, Fresh, Leaving, Returned
  <2>5. CASE ~UNCHANGED <<slot, ota, newest, request>>
    <3>1. /\ ota[run] # "pending"
          /\ UNCHANGED <<ota, newest>> \/ (ota' = [ota EXCEPT ![Spare] = "new"] /\ newest' = Spare)
          /\ slot'[run] = slot[run]
      <4>1. slot \in [Slots -> Images \cup {Torn}]
        BY DEF HonourInv, ImageInv
      <4> QED
        BY <1>0, <1>18, <2>5, <4>1, WriteIs DEF HonourInv, PenInv
    <3>2. Settled
      BY <1>h, <2>1, <2>2, <3>1 DEF Home, Fresh, Leaving, Returned
    <3>3. /\ UNCHANGED Spare /\ ota'[run] = ota[run]
          /\ \/ newest' = newest /\ ota'[Spare] = ota[Spare]
             \/ ota'[Spare] = "new"
      BY <1>0, <2>2, <3>1 DEF Spare
    <3>4. Settled'
      <4>1. /\ Fallback(run)' /\ (ota'[run] = "valid" \/ ota'[Spare] # "valid")
            /\ newest' = Spare => ota'[Spare] # "valid"
        BY <2>2, <3>2, <3>3 DEF Settled, Fallback
      <4> QED
        BY <2>1, <2>2, <3>1, <3>2, <3>3, <4>1 DEF Settled
    <3>5. app \notin {"trial", "mark"}
      BY <3>1 DEF HonourInv, StateInv
    <3>6. TrialHome'
      BY <1>h, <2>1, <2>2, <2>3, <3>1, <3>5 DEF TrialHome
    <3> QED
      BY <3>4, <3>6 DEF Home
  <2> QED
    BY <2>4, <2>5
<1>19. CASE UNCHANGED vars
  <2>1. UNCHANGED <<slot, ota, newest, request, run, app, hung, trial, handler, at, served>>
    BY <1>19 DEF vars, flash, boot, writer, hist
  <2> QED
    BY <1>h, <2>1 DEF trial, Spare, Home, TrialHome, Settled, Fallback, Fresh, Leaving, Returned
<1> QED
  BY <1>1, <1>2, <1>3, <1>4, <1>5, <1>6, <1>7, <1>8, <1>9, <1>10, <1>11, <1>12, <1>13, <1>14,
     <1>15, <1>16, <1>17, <1>18, <1>19
     DEF Next, Mishap, StartUp, EndTrial, Resets

LEMMA AllAlways == Spec => []AllInv
<1>1. Init => HomeInv
  BY InitHome
<1>2. AllInv /\ [Next]_vars => HomeInv'
  BY StepHome
<1> QED
  BY <1>1, <1>2, HonourAlways, PTL DEF Spec, AllInv

(* While a trial runs and was not kept, a reset of any kind, the timer's,  *)
(* the watchdog's, a crash or a power cut, starts the other image.         *)
THEOREM TrialAlwaysGoesBack == Spec => []GoesBack
<1>1. AllInv => GoesBack
  <2> SUFFICES ASSUME AllInv, onTrial, ~muddled, handler # "kept" PROVE Loaded(Reverted) # run
    BY DEF GoesBack
  <2>1. Fresh \/ Leaving
    BY DEF AllInv, HomeInv, Home, Settled, Returned
  <2>2. Loaded(Reverted) = Spare
    BY <2>1, NextBoot DEF AllInv
  <2> QED
    BY <2>2, SlotIs DEF AllInv, BaseInv, FwTypes
<1> QED
  BY <1>1, AllAlways, PTL

(* Wherever an update, a trial or the boot guard was interrupted, the next *)
(* reset or the one after it starts an image whose web server was up.      *)
THEOREM DeviceComesBack == Spec => []ComesBack
<1>1. AllInv => ComesBack
  <2> SUFFICES ASSUME AllInv, ~muddled PROVE ComesBack
    BY DEF ComesBack
  <2>0. /\ run \in Slots /\ Spare \in Slots /\ Spare # run /\ (run = 0 \/ Spare = 0)
        /\ 1 - run = Spare /\ 1 - Spare = run
    BY SlotIs DEF AllInv, BaseInv, FwTypes, Slots, Spare
  <2>1. Torn \notin served
    BY UpdateAssumption DEF AllInv, HonourInv, ImageInv
  <2> HIDE DEF Spare
  <2>2. CASE Settled /\ ota[Spare] = "new" /\ slot[Spare] # Torn
    <3> DEFINE second == [Reverted EXCEPT ![Spare] = "aborted"]
    <3>1. Loaded(Reverted) = Spare
      BY <2>2, NextBoot DEF AllInv
    <3>2. Reverted[Spare] = "new" /\ second[Spare] = "aborted"
          /\ (second[run] = "valid" \/ (run = 0 /\ second[run] \notin {"new", "valid"}))
      BY <2>0, <2>2 DEF Reverted, Settled, Fallback
    <3>3. newest = Spare
      BY <2>0, <2>2 DEF AllInv, HonourInv, StateInv
    <3> HIDE DEF second
    <3>4. Active(second) = run
      BY <2>0, <3>2, <3>3 DEF Active, Startable
    <3>5. Loaded(second) = run
      BY <2>1, <2>2, <3>4 DEF Loaded, Settled
    <3>6. slot[Loaded(second)] \in served
      BY <2>2, <3>5 DEF Settled
    <3> QED
      BY <2>2, <3>1, <3>2, <3>6 DEF ComesBack, second
  <2>3. CASE Settled /\ ~(ota[Spare] = "new" /\ slot[Spare] # Torn)
    <3>1. Loaded(Reverted) = run
      BY <2>3, NextBoot DEF AllInv
    <3> QED
      BY <2>3, <3>1 DEF ComesBack, Settled
  <2>4. CASE Fresh \/ Leaving
    <3>1. Loaded(Reverted) = Spare
      BY <2>4, NextBoot DEF AllInv
    <3> QED
      BY <2>4, <3>1 DEF ComesBack, Fresh, Leaving
  <2>5. CASE Returned
    <3>1. Loaded(Reverted) = 0
      BY <2>5, NextBoot DEF AllInv
    <3> QED
      BY <2>0, <2>5, <3>1 DEF ComesBack, Returned
  <2> QED
    BY <2>2, <2>3, <2>4, <2>5 DEF AllInv, HomeInv, Home
<1> QED
  BY <1>1, AllAlways, PTL
=============================================================================
