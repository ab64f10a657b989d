--------------------------- MODULE FirmwareUpdate ---------------------------
(***************************************************************************)
(* Two app slots, an update written to the spare one, the trial it may be  *)
(* on, and the boot guard.                                                 *)
(*                                                                         *)
(* An image reaches the spare slot by upload, on the web server's task, or *)
(* by a fetch on a task of its own, which the console or MQTT starts.  It  *)
(* boots as pending; the next reset takes it back unless it was confirmed, *)
(* by itself once the web server is up, or, on trial, by the operator      *)
(* before a timer.  The device may crash, hang or lose power at any step.  *)
(*                                                                         *)
(* The bootloader and esp_ota_ops are external: each slot has one state,   *)
(* the one switched to last is tried first, and a slot without a whole     *)
(* image is passed over.                                                   *)
(***************************************************************************)
EXTENDS Integers

CONSTANTS
    Images,     \* what may be installed
    Shipped,    \* the image the device came with
    Fetchers,   \* who may start a fetch: "console", "mqtt"
    Tries       \* BOOT_GUARD_TRIES

Slots   == {0, 1}
Torn    == "torn"       \* no whole image
NoImage == "none"

ASSUME UpdateAssumption ==
    /\ Shipped \in Images /\ Torn \notin Images /\ NoImage \notin Images
    /\ Fetchers \subseteq {"console", "mqtt"}
    /\ Tries \in Nat \ {0}

Writers == Fetchers \cup {"upload"}

VARIABLES
    \* flash: the slots, their states, the slot switched to last, the trial
    \* asked for in NVS
    slot, ota, newest, request,
    \* RTC memory
    tries, swapped,
    \* this boot: whether a crash led to it (until the guard has looked),
    \* which slot, how far, whether the web server answers, whether
    \* everything hangs
    crashed, run, app, web, hung,
    \* ota_trial.c: s_deadline_us # 0, s_rolled_back, the timer, the RTC
    \* watchdog, the timer's callback; a restart that is due
    onTrial, rolledBack, timer, watchdog, timeout, restart,
    \* the web server's handler
    handler,
    \* fw_install.c: FW_INSTALL_RUNNING, s_version, s_trial_s
    busy, version, trialS,
    \* the writers: where they are, what was asked, whether another one wrote
    \* in between
    at, job, spoilt,
    \* history: two writers at once in this boot; images that have served;
    \* slots whose image was asked to be on trial; whether ever the guard or
    \* the operator switched away from an image not confirmed yet, a trial
    \* began with a writer at work, or its timer ran out amid a keep
    crossed, served, wanted, muddled

flash  == <<slot, ota, newest, request>>
guard  == <<tries, swapped>>
boot   == <<crashed, run, app, web, hung>>
trial  == <<onTrial, rolledBack, timer, watchdog, timeout>>
fetch  == <<busy, version, trialS>>
writer == <<at, job, spoilt, crossed>>
hist   == <<served, wanted, muddled>>
vars   == <<flash, guard, boot, trial, restart, handler, fetch, writer, hist>>

Spare   == 1 - run
Alive   == app # "off" /\ ~hung
Serving == Alive /\ web
NoJob   == [image |-> NoImage, trial |-> FALSE]

----------------------------------------------------------------------------
(* The bootloader (external).                                              *)

(* A pending image was reset before it was confirmed. *)
Reverted == [s \in Slots |-> IF ota[s] = "pending" THEN "aborted" ELSE ota[s]]

Startable(states, s) == states[s] \in {"new", "valid"}

(* The slot tried first, and the one that starts. *)
Active(states) ==
    IF Startable(states, newest) THEN newest
    ELSE IF Startable(states, 1 - newest) THEN 1 - newest ELSE 0

Loaded(states) == LET a == Active(states) IN IF slot[a] # Torn THEN a ELSE 1 - a

Boot ==
    /\ app = "off"
    /\ slot[Loaded(Reverted)] # Torn
    /\ LET a == Active(Reverted) IN
         ota' = [Reverted EXCEPT ![a] = IF @ = "new" THEN "pending" ELSE @]
    /\ run' = Loaded(Reverted)
    /\ app' = "guard"
    /\ UNCHANGED <<slot, newest, request, guard, crashed, web, hung, trial, restart,
                   handler, fetch, writer, hist>>

(* esp_ota_set_boot_partition checks the image. *)
Switch(s) ==
    /\ slot[s] # Torn
    /\ ota' = [ota EXCEPT ![s] = "new"]
    /\ newest' = s

(* The entry esp_ota_mark_app_valid_cancel_rollback and                    *)
(* esp_ota_mark_app_invalid_rollback change: not the running slot's but    *)
(* the one that is ahead.                                                  *)
Marked ==
    IF ota[newest] \in {"new", "pending", "valid"} THEN newest ELSE 1 - newest

MarkInvalid ==
    /\ Startable(ota, 1 - Marked) /\ slot[1 - Marked] # Torn
    /\ ota' = [ota EXCEPT ![Marked] = "invalid"]

(* No writer at work. *)
NoWriters ==
    /\ busy' = FALSE /\ version' = NoImage /\ trialS' = FALSE
    /\ at' = [w \in Writers |-> "none"] /\ job' = [w \in Writers |-> NoJob]
    /\ spoilt' = [w \in Writers |-> FALSE]

(* A reset: whatever is not in flash or RTC memory is gone. *)
Down(why) ==
    /\ app' = "off" /\ crashed' = (why = "crash")
    /\ web' = FALSE /\ hung' = FALSE
    /\ onTrial' = FALSE /\ rolledBack' = FALSE /\ timer' = FALSE
    /\ watchdog' = FALSE /\ timeout' = "idle" /\ restart' = FALSE
    /\ handler' = "idle" /\ crossed' = FALSE
    /\ NoWriters
    /\ UNCHANGED <<run, served, wanted>>

----------------------------------------------------------------------------
(* What may happen at any time.                                            *)

Crash == Alive /\ Down("crash") /\ UNCHANGED <<flash, guard, muddled>>

(* RTC memory comes up as noise: the magic word is gone. *)
PowerCut ==
    /\ app # "off"
    /\ Down("power")
    /\ tries' = 0 /\ swapped' = FALSE
    /\ UNCHANGED <<flash, muddled>>

(* Nothing runs any more: what is in RAM no longer matters, but for what   *)
(* the properties look at.  (Outside a trial only a power cut ends it,     *)
(* which is PowerCut.)                                                     *)
Hang ==
    /\ Alive /\ onTrial
    /\ hung' = TRUE
    /\ web' = FALSE /\ restart' = FALSE
    /\ rolledBack' = FALSE /\ timer' = FALSE /\ timeout' = "idle"
    /\ NoWriters
    /\ UNCHANGED <<flash, guard, crashed, run, app, onTrial, watchdog, handler, crossed,
                   hist>>

WatchdogReset == hung /\ watchdog /\ Down("crash") /\ UNCHANGED <<flash, guard, muddled>>

(* kvm_web_restart_soon, or the end of a fetch.                            *)
Restart == Alive /\ restart /\ Down("soft") /\ UNCHANGED <<flash, guard, muddled>>

(* A restart somebody asks for.                                            *)
AskedRestart == Alive /\ app = "up" /\ Down("soft") /\ UNCHANGED <<flash, guard, muddled>>

----------------------------------------------------------------------------
(* Starting up.                                                            *)

(* boot_guard_check: a crash counts, any other reset starts the count      *)
(* again.                                                                  *)
Counted == IF crashed THEN tries + 1 ELSE 0

(* The other slot gets a turn, once, if its image is not known to be bad.  *)
GuardSwaps ==
    /\ Counted >= Tries /\ ~swapped
    /\ ota[Spare] \in {"new", "valid", "pending"} /\ slot[Spare] # Torn

GuardSwap ==
    /\ Alive /\ app = "guard"
    /\ GuardSwaps
    /\ Switch(Spare)
    /\ swapped' = TRUE /\ tries' = 0
    /\ muddled' = (muddled \/ ota[run] = "pending")
    /\ Down("soft")
    /\ UNCHANGED <<slot, request>>

(* (The count stops at Tries here; in the code more makes no difference.)  *)
GuardPass ==
    /\ Alive /\ app = "guard"
    /\ ~GuardSwaps
    /\ tries' = IF Counted > Tries THEN Tries ELSE Counted
    /\ app' = "starting" /\ crashed' = FALSE
    /\ UNCHANGED <<flash, swapped, run, web, hung, trial, restart, handler,
                   fetch, writer, hist>>

(* boot_guard_healthy: up for a minute.                                    *)
Healthy ==
    /\ Alive /\ app = "up"
    /\ tries' = 0 /\ swapped' = FALSE
    /\ UNCHANGED <<flash, crashed, run, app, web, hung, trial, restart, handler, fetch,
                   writer, hist>>

(* app_main up to the web server, which answers from here on ...           *)
ServerStart ==
    /\ Alive /\ app = "starting"
    /\ app' = "confirm" /\ web' = TRUE
    /\ served' = served \cup {slot[run]}
    /\ UNCHANGED <<flash, guard, crashed, run, hung, trial, restart, handler, fetch,
                   writer, wanted, muddled>>

(* Mutant of ServerFails: the image is confirmed all the same.             *)
ServerFails_Confirms ==
    /\ Alive /\ app = "starting"
    /\ app' = "mark"
    /\ UNCHANGED <<flash, guard, crashed, run, web, hung, trial, restart, handler, fetch,
                   writer, hist>>

(* ... or does not: the image stays as it is.                              *)
ServerFails ==
    /\ Alive /\ app = "starting"
    /\ app' = "up"
    /\ UNCHANGED <<flash, guard, crashed, run, web, hung, trial, restart, handler,
                   fetch, writer, hist>>

(* take_request: read, and forgotten either way.                           *)
TakeRequest ==
    /\ Alive /\ app = "confirm"
    /\ app' = IF ota[run] # "pending" THEN "up"
              ELSE IF request = slot[run] THEN "trial" ELSE "mark"
    /\ request' = NoImage
    /\ UNCHANGED <<slot, ota, newest, guard, crashed, run, web, hung, trial, restart,
                   handler, fetch, writer, hist>>

(* kvm_ota_trial_begin                                                     *)
TrialBegin ==
    /\ Alive /\ app = "trial"
    /\ app' = "up"
    /\ onTrial' = TRUE /\ timer' = TRUE /\ watchdog' = TRUE
    /\ muddled' = (muddled \/ \E w \in Writers : at[w] # "none")
    /\ UNCHANGED <<flash, guard, crashed, run, web, hung, rolledBack, timeout,
                   restart, handler, fetch, writer, served, wanted>>

(* Without a timer there is no trial.                                      *)
TrialNoTimer ==
    /\ Alive /\ app = "trial"
    /\ app' = "mark"
    /\ wanted' = [wanted EXCEPT ![run] = FALSE]
    /\ UNCHANGED <<flash, guard, crashed, run, web, hung, trial, restart, handler,
                   fetch, writer, served, muddled>>

(* confirm_ota_image: esp_ota_mark_app_valid_cancel_rollback marks the     *)
(* slot that would be started (external), and may fail.                    *)
Confirm ==
    /\ Alive /\ app = "mark"
    /\ app' = "up"
    /\ ota' \in {ota, [ota EXCEPT ![Marked] = "valid"]}
    /\ UNCHANGED <<slot, newest, request, guard, crashed, run, web, hung, trial,
                   restart, handler, fetch, writer, hist>>

----------------------------------------------------------------------------
(* Ending a trial.                                                         *)

HandlerFree == handler = "idle" /\ \A w \in Fetchers \ {"mqtt"} : at[w] # "checked"

(* kvm_ota_trial_keep: looked at ...                                       *)
KeepPost ==
    /\ Serving /\ HandlerFree
    /\ onTrial /\ ~rolledBack
    /\ handler' = "keep"
    /\ UNCHANGED <<flash, guard, boot, trial, restart, fetch, writer, hist>>

(* ... marked ...                                                          *)
KeepMark ==
    /\ Serving /\ handler = "keep"
    /\ ota' = [ota EXCEPT ![Marked] = "valid"]
    /\ wanted' = [wanted EXCEPT ![run] = FALSE]
    /\ handler' = "kept"
    /\ UNCHANGED <<slot, newest, request, guard, boot, trial, restart, fetch, writer, served,
                   muddled>>

KeepFails ==
    /\ Serving /\ handler = "keep"
    /\ handler' = "idle"
    /\ UNCHANGED <<flash, guard, boot, trial, restart, fetch, writer, hist>>

(* ... and the clock stopped.                                              *)
KeepStop ==
    /\ Serving /\ handler = "kept"
    /\ timer' = FALSE /\ watchdog' = FALSE /\ onTrial' = FALSE
    /\ handler' = "idle"
    /\ UNCHANGED <<flash, guard, boot, rolledBack, timeout, restart, fetch, writer, hist>>

(* kvm_ota_trial_rollback, from the console or the timer: decided, then    *)
(* marked or not - the bootloader takes an unconfirmed image back anyway.  *)
RollbackPost ==
    /\ Serving /\ HandlerFree
    /\ onTrial
    /\ rolledBack' = TRUE /\ timer' = FALSE
    /\ handler' = "rollback"
    /\ UNCHANGED <<flash, guard, boot, onTrial, watchdog, timeout, restart, fetch, writer,
                   hist>>

(* Mutant of RollbackMark: no restart unless it could be marked.           *)
RollbackMark_NoRestart ==
    /\ Serving /\ handler = "rollback"
    /\ \/ MarkInvalid /\ restart' = TRUE
       \/ UNCHANGED <<ota, restart>>
    /\ handler' = "idle"
    /\ UNCHANGED <<slot, newest, request, guard, boot, trial, fetch, writer, hist>>

RollbackMark ==
    /\ Serving /\ handler = "rollback"
    /\ MarkInvalid \/ UNCHANGED ota
    /\ restart' = TRUE
    /\ handler' = "idle"
    /\ UNCHANGED <<slot, newest, request, guard, boot, trial, fetch, writer, hist>>

(* on_timeout                                                              *)
Timeout ==
    /\ Alive /\ timer
    /\ rolledBack' = TRUE /\ timer' = FALSE
    /\ timeout' = "rollback"
    /\ muddled' = (muddled \/ handler \in {"keep", "kept"})
    /\ UNCHANGED <<flash, guard, boot, onTrial, watchdog, restart, handler, fetch, writer,
                   served, wanted>>

TimeoutMark ==
    /\ Alive /\ timeout = "rollback"
    /\ MarkInvalid \/ UNCHANGED ota
    /\ restart' = TRUE
    /\ timeout' = "idle"
    /\ UNCHANGED <<slot, newest, request, guard, boot, onTrial, rolledBack, timer, watchdog,
                   handler, fetch, writer, hist>>

(* api_system_boot_slot_post: the other slot next, if nobody marked it bad. *)
BootSlotPost ==
    /\ Serving /\ HandlerFree
    /\ ota[Spare] \notin {"invalid", "aborted"}
    /\ Switch(Spare)
    /\ wanted' = [wanted EXCEPT ![Spare] = FALSE]
    /\ muddled' = (muddled \/ ota[run] = "pending")
    /\ restart' = TRUE
    /\ UNCHANGED <<slot, request, guard, boot, trial, handler, fetch, writer, served>>

----------------------------------------------------------------------------
(* Writing an image.                                                       *)

(* esp_ota_begin refuses while the running image is pending (external) and *)
(* erases the slot; two writers of different images spoil each other's.    *)
Writing(w) == at[w] = "write"

(* The trial the update is to be on: a fetch looks at the shared s_trial_s. *)
TrialOf(w) == IF w = "upload" THEN job[w].trial ELSE trialS

Erase(w, i) ==
    /\ ota[run] # "pending"
    /\ slot' = [slot EXCEPT ![Spare] = Torn]
    /\ spoilt' = [v \in Writers |->
         IF v = w THEN \E u \in Writers \ {w} : Writing(u) /\ job[u].image # i
         ELSE spoilt[v] \/ (Writing(v) /\ job[v].image # i)]
    /\ crossed' = (crossed \/ \E u \in Writers \ {w} : at[u] # "none")

(* Mutant of UploadPost: not refused during a trial.                       *)
UploadPost_OnTrial(i, t) ==
    /\ Serving /\ HandlerFree
    /\ Erase("upload", i)
    /\ handler' = "upload"
    /\ at' = [at EXCEPT !["upload"] = "write"]
    /\ job' = [job EXCEPT !["upload"] = [image |-> i, trial |-> t]]
    /\ UNCHANGED <<ota, newest, request, guard, boot, trial, restart, fetch, hist>>

(* api_system_update_post: refused during a trial.                         *)
UploadPost(i, t) ==
    /\ Serving /\ HandlerFree
    /\ ~onTrial
    /\ Erase("upload", i)
    /\ handler' = "upload"
    /\ at' = [at EXCEPT !["upload"] = "write"]
    /\ job' = [job EXCEPT !["upload"] = [image |-> i, trial |-> t]]
    /\ UNCHANGED <<ota, newest, request, guard, boot, trial, restart, fetch, hist>>

(* fw_install_start: the console's (on the handler) or MQTT's, which never *)
(* asks for a trial.  Looked at first ...                                  *)
InstallCheck(w, i, t) ==
    /\ Alive /\ at[w] = "none"
    /\ w = "console" => Serving /\ HandlerFree
    /\ w = "mqtt" => app = "up" /\ ~t
    /\ ~busy /\ ~onTrial
    /\ at' = [at EXCEPT ![w] = "checked"]
    /\ job' = [job EXCEPT ![w] = [image |-> i, trial |-> t]]
    /\ UNCHANGED <<flash, guard, boot, trial, restart, handler, fetch, spoilt, crossed, hist>>

(* ... then set, and a task started for it, which reads the version ...    *)
InstallStart(w) ==
    /\ Alive /\ at[w] = "checked"
    /\ version' = job[w].image /\ trialS' = job[w].trial
    /\ busy' = TRUE
    /\ at' = [at EXCEPT ![w] = "start"]
    /\ crossed' = (crossed \/ \E u \in Fetchers \ {w} : at[u] # "none")
    /\ UNCHANGED <<flash, guard, boot, trial, restart, handler, job, spoilt, hist>>

InstallOpen(w) ==
    /\ Alive /\ at[w] = "start"
    /\ job' = [job EXCEPT ![w].image = version]
    /\ busy' = TRUE
    /\ at' = [at EXCEPT ![w] = "open"]
    /\ UNCHANGED <<flash, guard, boot, trial, restart, handler, version, trialS, spoilt,
                   crossed, hist>>

(* ... and, with the connection open, begins.                              *)
InstallBegin(w) ==
    /\ Alive /\ at[w] = "open"
    /\ Erase(w, job[w].image)
    /\ busy' = TRUE
    /\ at' = [at EXCEPT ![w] = "write"]
    /\ UNCHANGED <<ota, newest, request, guard, boot, trial, restart, handler, job, version,
                   trialS, hist>>

(* All of it is there and esp_ota_end finds it whole.  A transfer takes    *)
(* longer than confirm_ota_image, than the last steps of another writer,   *)
(* of a handler or of the timer, and than the restart they lead to.        *)
WriteEnd(w) ==
    /\ Alive /\ app = "up" /\ Writing(w)
    /\ ~spoilt[w]
    /\ ~restart /\ timeout = "idle" /\ handler \in {"idle", "upload"}
    /\ \A u \in Writers : at[u] \notin {"arm", "switch"}
    /\ slot' = [slot EXCEPT ![Spare] = job[w].image]
    /\ at' = [at EXCEPT ![w] = "arm"]
    /\ UNCHANGED <<ota, newest, request, guard, boot, trial, restart, handler, fetch, job,
                   spoilt, crossed, hist>>

(* Mutant of Arm: an error of nvs_set is ignored.                          *)
Arm_Unsaved(w) ==
    /\ Alive /\ at[w] = "arm"
    /\ TrialOf(w) => slot[Spare] # Torn
    /\ request' \in {request, IF TrialOf(w) THEN slot[Spare] ELSE NoImage}
    /\ at' = [at EXCEPT ![w] = "switch"]
    /\ UNCHANGED <<slot, ota, newest, guard, boot, trial, restart, handler, fetch, job,
                   spoilt, crossed, hist>>

(* kvm_ota_trial_arm: before the switch, for the image in the slot, whose  *)
(* description must be readable.                                           *)
Arm(w) ==
    /\ Alive /\ at[w] = "arm"
    /\ TrialOf(w) => slot[Spare] # Torn
    /\ request' = IF TrialOf(w) THEN slot[Spare] ELSE NoImage
    /\ at' = [at EXCEPT ![w] = "switch"]
    /\ UNCHANGED <<slot, ota, newest, guard, boot, trial, restart, handler, fetch, job,
                   spoilt, crossed, hist>>

(* (s_version and s_trial_s keep what they hold; nobody reads it again.)    *)
Finished(w) ==
    /\ at' = [at EXCEPT ![w] = "none"]
    /\ job' = [job EXCEPT ![w] = NoJob]
    /\ spoilt' = [spoilt EXCEPT ![w] = FALSE]
    /\ IF w = "upload" THEN handler' = "idle" /\ UNCHANGED fetch
       ELSE /\ UNCHANGED handler
            /\ busy' = FALSE
            /\ IF \E u \in Fetchers \ {w} : at[u] \notin {"none", "checked"}
               THEN UNCHANGED <<version, trialS>>
               ELSE version' = NoImage /\ trialS' = FALSE

(* esp_ota_set_boot_partition, and a restart soon after.                   *)
SwitchOver(w) ==
    /\ Alive /\ at[w] = "switch"
    /\ Switch(Spare)
    /\ wanted' = [wanted EXCEPT ![Spare] = job[w].trial /\ ~crossed]
    /\ restart' = TRUE
    /\ Finished(w)
    /\ UNCHANGED <<slot, request, guard, boot, trial, crossed, served, muddled>>

(* Any step of a writer may fail: the connection, the flash, the check.    *)
GiveUp(w) ==
    /\ Alive /\ at[w] \in {"start", "open", "write", "arm", "switch"}
    /\ Finished(w)
    /\ UNCHANGED <<flash, guard, boot, trial, restart, crossed, hist>>

----------------------------------------------------------------------------
(* Flashed by cable.                                                       *)
Init ==
    /\ slot = [s \in Slots |-> IF s = 0 THEN Shipped ELSE Torn]
    /\ ota = [s \in Slots |-> "none"]
    /\ newest = 0 /\ request = NoImage
    /\ tries = 0 /\ swapped = FALSE
    /\ crashed = FALSE /\ run = 0 /\ app = "off" /\ web = FALSE /\ hung = FALSE
    /\ onTrial = FALSE /\ rolledBack = FALSE /\ timer = FALSE /\ watchdog = FALSE
    /\ timeout = "idle" /\ restart = FALSE /\ handler = "idle"
    /\ busy = FALSE /\ version = NoImage /\ trialS = FALSE
    /\ at = [w \in Writers |-> "none"] /\ job = [w \in Writers |-> NoJob]
    /\ spoilt = [w \in Writers |-> FALSE] /\ crossed = FALSE
    /\ served = {slot[s] : s \in Slots} \ {Torn}
    /\ wanted = [s \in Slots |-> FALSE] /\ muddled = FALSE

Mishap == Crash \/ PowerCut \/ Hang

StartUp ==
    \/ GuardSwap \/ GuardPass \/ Healthy \/ ServerStart \/ ServerFails
    \/ TakeRequest \/ TrialBegin \/ TrialNoTimer \/ Confirm

EndTrial ==
    \/ KeepPost \/ KeepMark \/ KeepFails \/ KeepStop
    \/ RollbackPost \/ RollbackMark \/ Timeout \/ TimeoutMark \/ BootSlotPost

Write ==
    \/ \E i \in Images, t \in BOOLEAN :
         UploadPost(i, t) \/ \E w \in Fetchers : InstallCheck(w, i, t)
    \/ \E w \in Fetchers : InstallStart(w) \/ InstallOpen(w) \/ InstallBegin(w)
    \/ \E w \in Writers : WriteEnd(w) \/ Arm(w) \/ SwitchOver(w) \/ GiveUp(w)

Next ==
    \/ Boot \/ Mishap \/ WatchdogReset \/ Restart \/ AskedRestart \/ StartUp \/ EndTrial
    \/ Write

Spec == Init /\ [][Next]_vars

----------------------------------------------------------------------------
(* Properties.                                                             *)

States == {"none", "new", "pending", "valid", "invalid", "aborted"}

FlashOK ==
    /\ slot \in [Slots -> Images \cup {Torn}] /\ ota \in [Slots -> States]
    /\ newest \in Slots /\ request \in Images \cup {NoImage}
    /\ tries \in 0 .. Tries /\ swapped \in BOOLEAN

BootOK ==
    /\ crashed \in BOOLEAN /\ run \in Slots
    /\ app \in {"off", "guard", "starting", "confirm", "trial", "mark", "up"}
    /\ web \in BOOLEAN /\ hung \in BOOLEAN

TrialOK ==
    /\ onTrial \in BOOLEAN /\ rolledBack \in BOOLEAN /\ timer \in BOOLEAN
    /\ watchdog \in BOOLEAN /\ restart \in BOOLEAN
    /\ timeout \in {"idle", "rollback"}
    /\ handler \in {"idle", "upload", "keep", "kept", "rollback"}

WriterOK ==
    /\ busy \in BOOLEAN /\ version \in Images \cup {NoImage} /\ trialS \in BOOLEAN
    /\ at \in [Writers -> {"none", "checked", "start", "open", "write", "arm", "switch"}]
    /\ job \in [Writers -> [image : Images \cup {NoImage}, trial : BOOLEAN]]
    /\ spoilt \in [Writers -> BOOLEAN] /\ crossed \in BOOLEAN
    /\ served \subseteq Images /\ wanted \in [Slots -> BOOLEAN]
    /\ muddled \in BOOLEAN

(* Every variable keeps its type; the flash states are those of            *)
(* esp_ota_img_states_t.                                                   *)
TypeOK == FlashOK /\ BootOK /\ TrialOK /\ WriterOK

(* "The worst outcome of a bad upload is one reboot back into what was     *)
(* running before": whatever was interrupted where, the next reset, or the *)
(* one after it, starts an image whose web server has been up.  (Not after *)
(* one of the accidents `muddled` stands for: the guard, say, counts the   *)
(* old image's crashes against a new one, and then neither slot is good.)  *)
ComesBack ==
    muddled \/
    LET first  == Loaded(Reverted)
        second == [Reverted EXCEPT ![first] = "aborted"]
    IN  \/ slot[first] \in served
        \/ /\ slot[first] # Torn
           /\ Reverted[first] = "new"
           /\ slot[Loaded(second)] \in served

(* "If nobody does within the time given, the device goes back to the      *)
(* previous image": while a trial runs and nobody is keeping it, a reset   *)
(* of any kind starts the other slot.                                      *)
GoesBack ==
    onTrial /\ ~muddled /\ handler # "kept" => Loaded(Reverted) # run

(* "An update asked to be on trial must not start without one": an image   *)
(* that was asked to be on trial, and whose update ran alone, is not valid *)
(* until it was kept.                                                      *)
TrialHonoured == \A s \in Slots : wanted[s] => ota[s] # "valid"

(* A trial cannot go on for ever: while it runs the watchdog does, and, if *)
(* not everything hangs, so does the timer, or its callback, a rollback, a *)
(* keep or a restart is under way.                                         *)
TrialTimed ==
    onTrial =>
      /\ watchdog
      /\ \/ hung \/ timer \/ timeout = "rollback" \/ restart
         \/ handler \in {"rollback", "kept"}
=============================================================================
