# A TLA+ model of ESP-KVM

ESP-KVM is firmware for an ESP32-P4 that turns it into a network KVM: it
captures a computer's HDMI output, encodes it (MJPEG or H.264), serves it to
browsers over HTTP, WebSocket and WebRTC, types and clicks over USB, emulates a
USB drive, presses the power button, records, notifies and updates itself.  It
runs as a few dozen FreeRTOS tasks and interrupt handlers on two cores that
share buffers, flags and counters.

This directory models the part everything else hangs on, the way of a video
frame from the HDMI receiver to a viewer with the protocols around it; what
decides whether the device can still be reached after an update; and the
services that run beside them with tasks, queues or files of their own:
recorder, virtual media, keyboard and mouse, schedule, runbooks, power button,
profiles, alerts and WebRTC sessions.  There are TLA+ modules, TLC
configurations that check them on small instances, and TLAPS proofs, for every
instance, of the safety of the video pipeline, the firmware update, the
recorder, the profiles, and each of the services.

    tlc -workers 2 -config MCRing_direct.cfg CaptureRing     # any run below
    tlapm CaptureRingProofs.tla                              # any *Proofs module

## 1. Inventory

Paths are below `src/components/` unless they say otherwise.

### The video pipeline (`video_pipeline/`, `kvm_bridge/`, `tc358743/`, `lt6911/`)

| part | state | operations | talks to |
|---|---|---|---|
| CSI frame ring (`capture_hw.c`, `capture_priv.h`) | `write_fb_idx`, `ready_fb_idx`, `held_fb_idx` under a spinlock, `csi_done_sem`, the frame gate | `cam_on_get_new`, `cam_on_done` in the interrupt; `csi_create`, `csi_destroy`, `capture_ctx_reset_ring` | the loop, through the indices and the semaphore |
| capture loop (`capture_loop.c`) | the slot it holds, the codec, the cooldown of a recovery | a turn: mode request, wait, gate, screen text and areas, early or whole encode, release; codec switch | ring, store, codecs, monitor |
| parking (`capture.c`) | `s_parking`, `s_frames_busy` | `capture_park_frame_begin/_end`, `__wrap_esp_restart` | every task that encodes, every caller of a restart |
| frame store (`video_frame.c`) | slots with buffer, length, references; front; payload; sequence number | `begin_write`, `publish`, `acquire`, `release`, `quiesce`, `install` | codecs write; web, WebRTC, recorder, snapshot read |
| codecs (`capture_mjpeg.c`, `capture_h264.c`) | buffers, encoder handles, a job and a free queue, the encode task | open, close, encode, join, release of idle buffers | the loop, the store |
| waiter slots (`video_frame.c`) | 16 slots with a semaphore each | `video_frame_wait_new`, the gives of `publish` | all senders |
| mode monitor (`capture_hw.c`) | candidate and hits, the silence count, nudges; four unlocked words shared with the loop | `capture_monitor_task`, `capture_hw_apply_mode`, `capture_hw_hdmi_recover` | bridge, loop |
| bridge drivers | chip registers behind `tc_mu` | timings, hotplug, CEC, reset | hardware |

Hard here: an interrupt and a task share three indices; a restart must find
every DMA at rest; buffers are freed under readers; a switch can fail at every
step; wakeups race the check they answer; the mode request is four words without
a lock.  Correct means: whoever reads a frame as a whole reads all of one frame;
no encoder writes freed memory; nobody sleeps through a frame; a difference frame follows its reference; a source that settles is captured; what
waits ends.

### Everything else

| component | state and operations | hard | correct means |
|---|---|---|---|
| `kvm_webrtc` | session table, one send task, ICE, DTLS, SCTP, NACK ring | one task for all sessions, frames that drop out, sessions that end in the middle of a send | the chain of references per session, no use of an ended session |
| `kvm_record` | a feed and a writer with a ring of frames between them; dashcam clips and segments; TS to MP4 | a full ring, a card that pauses or goes, events during a clip | a file never shows a difference frame without its reference; a clip has what it promises |
| `kvm_storage` | who has the card: the file system, the USB host, an upload; the rescue image; the read-ahead | ejecting in use, re-reading, two tasks that select | what the target reads is the medium that is there; one writer |
| `kvm_hid` | report queue, pressed keys, mass-storage commands, jiggler | a connection that dies with a key down, a queue that is full | every key is released |
| `kvm_config` | settings in NVS with subscribers, profiles, capabilities, thermal steps | a power cut while saving, callbacks that save | a setting read is one that was written; thermal steps do not flap |
| `kvm_web`, `src/main` (boot guard) | HTTP workers, login sessions, certificates, ACME, URL fetch, firmware install, update on trial, crash count | trial over a restart, watchdog against timer, limits on logins | an unconfirmed image goes back, a confirmed one stays |
| `kvm_net` | Ethernet, WiFi station or access point, tunnels | failover while both come and go | the device stays reachable |
| `kvm_mqtt` | a client pointer under a mutex, discovery, commands | teardown against publish | no publish on a client that is gone |
| `kvm_notify` | queue, pending list, files on the card | retries, restarts, refusals | nothing lost or sent twice |
| `kvm_sched`, `kvm_runbook` | schedules, one run at a time, waits on screen text | cancel against end | at most one run; a job at most once a minute |
| `kvm_atx`, `kvm_cec` | one worker each that owns the line | presses that overlap, frames heard while sending | a press ends; frames are answered in order |
| `kvm_audio`, `kvm_regions`, `kvm_screentext`, `kvm_display`, `kvm_serial`, `kvm_rtc`, `kvm_log`, `kvm_netlog`, `kvm_agent`, `kvm_proto`, `kvm_board` | samples, watched areas, text, drawing, buffers, tables | little | mostly data |
| `src/main` (the rest) | start order, choice of link and profile | | |
| `fatfs`, `sdmmc`, `esp_driver_sdmmc`, `esp_tinyusb` | vendored drivers | | |

`PROJECT.json` lists the same components with their files and status, and under
`hazards` the places in the modelled code that a test would hardly reach, each
with the properties that watch it.

## 2. Modules

| module | models |
|---|---|
| `CaptureRing` | the CSI ring, the frame gate and a turn of the capture loop |
| `CapturePark` | a software restart against the tasks with DMA in flight |
| `FrameStore` | store, codecs, encode task, codec switch |
| `FrameDelivery` | publishing and waiting, and the send task's chain of references |
| `CaptureMode`, `MCMode` | monitor, mode requests, recovery, hotplug nudges; its signals for TLC |
| `FirmwareUpdate` | upload, fetch, the trial across the restart, confirmation, boot guard |
| `Recorder` | the recorder's feed, ring of frames and writer |
| `Recording` | what the recorder's files promise; `Recorder` is shown to implement it |
| `ClipSegments` | the dashcam's segments on the card and the clips cut from them |
| `VirtualMedia` | the card, the rescue image and the drive the target sees |
| `HidInput` | keyboard and mouse reports, release-all, control and the pointer lane |
| `Scheduler`, `Runbook`, `PowerButton` | jobs by the clock; one script at a time; the front panel's buttons |
| `Profiles`, `MCProfiles` | settings, profiles, the task that picks one; its devices for TLC |
| `Alerts` | alerts that wait in memory and on the card |
| `WebrtcSessions` | offers, slots, deadlines and the viewer count |
| `MCServices` | one instance for the services, see below |
| `CaptureRingProofs`, `CaptureParkProofs`, `FrameStoreProofs`, `FrameDeliveryProofs`, `FirmwareUpdateProofs`, `RecorderProofs`, `ProfilesProofs` | the proofs about the module they are named after |
| `ServicesProofs` | the proofs about `PowerButton`, `WebrtcSessions`, `VirtualMedia`, `Runbook`, `Scheduler`, `HidInput`, `ClipSegments` and `Alerts` |

Every definition that models code is listed with its lines in `PROJECT.json`
under `map`.  Operators named `Action_Something` and marked "Mutant of Action"
are deliberately wrong forms of an action; no specification uses them.  Putting
one in the action's place makes TLC find the property violated that
`PROJECT.json` pairs it with, so each property is known to be able to fail.

### CaptureRing

`write`, `ready`, `held` are the three indices of `capture_ctx_t`; `dma` is the
buffer the hardware fills (`None` for the drop buffer, `Off` for a stopped
receiver); `isr` and `fin` are the interrupt between picking the next buffer
(`CamGetNew`) and reporting the finished one (`CamOnDone`); `sem` counts
`csi_done_sem`.  The loop's actions follow a turn of `capture_task` in order, one
per critical section or blocking call: wait, gate, drain, the idle readers of
screen text and areas, the choice between early and whole encode, parking, the
wait for the lead, the encode, the readers after it, the release.  `ApplyMode`,
`HdmiRecover`, `CsiStart`, `CsiFail` rebuild the receiver.  The choice of an early
frame is three steps, as nothing holds the interrupt off between them: the slot is
read (`PickEarly`), then the times (`StartEarly`), then both are looked at under
`fb_lock` (`HoldEarly`).  Times are what the code compares of them: `taken` says
that the frame coming in is not newer than the one last encoded early, `datum` that
the time the loop has just read is still that of the frame coming in.

An early encode ends before or after its frame has landed: nothing in the code
makes it wait, and `EncodeEarly` only decides whether the readers may look
("If not, the readers skip this one", `capture_loop.c:659`).

Four constants are the builds: `FbCount`, `EarlyEncode`, `YuvSwap`, and
`SameCore`, whether the interrupt runs on the loop's core and so completes
before the loop goes on.

### CapturePark

`busy` is `s_frames_busy`, `parking` is `s_parking`, `at[t]` where each frame
task is, `caller[c]` where each restarting task is.  The capture task may be
rebuilding the receiver (`csi`).  A caller polls `MaxPolls` times and then goes
on, as the 300 ms of the code.

### FrameStore

`buf[i]` says whose memory a slot points at, `mem` whose memory is allocated;
a reader copies buffer and tag when it acquires and is checked against them as
long as it holds.  The loop converts into one of `YuvBufs` buffers and sends it
to the encode task, or encodes itself (`Pipelined` FALSE, or MJPEG).
`SwitchBegin` to `OpenNone` are `codec_switch` with every exit: quiesce times
out, the open fails, the fallback fails, the old codec fails to come back.

### FrameDelivery

The writer publishes in three steps, as the code does: the number and front
under the mutex, then each waiter slot in turn, looked at under the spinlock and
given outside it.  A viewer goes through `video_frame_wait_new` step by step and
then through `tx_task`'s handling of the frame.  `sent` is the last frame the
session sent, `passed` (history) that a frame went by between a failed acquire
and the resume.

### CaptureMode

The monitor's locals, the shared words and the loop's side, each word read and
written in a step of its own.  The source is external: it changes `MaxChanges`
times, and while it settles any reading may come, as often as it likes; a
receiver may also stop delivering.  Times (poll interval, 2 s timeout, 8 s
cooldown, 10/20/40 s of silence) are the order of events only: a timeout can
happen when no frame comes in now.  A codec is assumed to be running.

### FirmwareUpdate

`slot` is what the two app slots hold, `ota` their states in otadata, `newest`
the one switched to last, `request` the trial stored in NVS; `tries` and
`swapped` are `s_boot_guard` in RTC memory.  Everything else is RAM and is gone
after a reset.  `app` follows `app_main` from the guard over the web server to
the confirmation; the web server's handlers (`handler`), the timer's callback
(`timeout`) and the writers (`at`: the upload, and the task that fetches) run
beside it, each split where another one can come in between.  `Crash`,
`PowerCut` and, on trial, `Hang` may strike anywhere.  The bootloader and
`esp_ota_ops` are external, from how the code uses them: a pending image that
is reset is aborted, a slot without a whole image is passed over,
`esp_ota_begin` refuses while the running image is pending.

Time appears as order only.  A transfer (`WriteEnd`) is taken to last longer
than a handler, the timer's callback, a restart that is due or the way from the
web server's start to the confirmation.

`served`, `wanted`, `crossed` and `muddled` are history.  `muddled` marks three
accidents after which `ComesBack` and `GoesBack` claim nothing: the guard or the
operator switched away from an image that was still pending, a trial began with
a writer already at work, the timer ran out in the middle of a keep.  What they
lead to is described in section 3.

### Recorder and Recording

`Recorder` has four actors: the source that publishes frames, the feed task, the
callers that start, stop and mark events under `s_ctl`, and the writer task.  The
feed goes through `feed_task` step by step: leave, wait, allocate, decide, push.
`ring` holds the frames of `frame_ring.c` and gives up whole groups of pictures;
`freeing` is somebody who has decided to free the ring (the feed, the setting, a
codec short of memory) and has not done so yet.  `wr` and `part` are the writer and
its file.

A start that finds the dashcam writing waits for it in `stop_writer`, which gives up
after fifteen seconds and also takes the token a writer gave late, after somebody
had stopped waiting for it (`kvm_record.c:1395`, `:1714`).  `StartEvicted` therefore
waits for nothing.  What such a start finds it overwrites (`TakeOver`): from there on
two writers share `s_file`, `s_chunk`, the flags and the ring.  What they write is
not followed, since the muxer's locals and the file no longer belong together;
`rivals` stands for any number of them, which take frames from the ring
(`RivalTakes`), stop and end clips (`RivalSignals`), and clear the flags when they
end, under the ones that go on (`RivalEnds`).  Writers that are started meanwhile
join them, also one whose start was still under way as the last of the others ended
and took its file and chunk along.  The flags a writer clears as it ends are cleared in one step.

`Recording` knows only that a writer is at work on its own, what is in its current
file, at which numbers the store was found empty, and whether writers share a file.
`FilesPlay` is its specification with `on <- wr.pc # "none"`, `tape <- part`,
`shared <- rivals`: every step of feed, ring, starts and writer is one of a file that
keeps the order and never shows a difference frame after a frame that was left out.
A file that a second writer breaks into is given up (`Share`), and no file is
promised anything until the last of them has ended (`Unshare`).

### ClipSegments

`segTable`, `segPins`, `segFiles` are `s_segs`, `s_seg_pins` and the folder.  The
writer opens a segment and prunes (`SegMayGo` is the condition of `seg_prune`),
an event pins its first segment, the clip ends some segments later and goes to
the converter's queue, and the converter reads the files one by one and unpins.
`clipUnheld` records the clips that lost their hold for a reason the code
accepts: no free pin, a full table, the past forgotten, the first segment gone
before it could be pinned.  A pin is a segment's number and nothing else, so a
clip without one, when it ends, gives back that of another clip with the same
first segment; `Robbed` are the clips this happens to, which count as having lost
their hold too.

### VirtualMedia

`msc` is the setting, `slot` the card in the slot, `card` the mounted one, `src`
what the target is served from and `ahead` what the read-ahead was filled from.
`apply_media_selection` and `kvm_storage_reread` run in two tasks (`job`), one
step per hold of `s_media_lock`.  `clash` marks a re-read that mounts at the same
moment as the watcher, which nothing prevents; `MediumBacked` says nothing after
it.

### HidInput

Reports have a number; `heldBy` is, per USB function, the report the target last
took that holds something down.  The worker peeks, merges plain moves, receives
and sends; `usb_hid_release_all` sends, or resets the full queue and sends again.
`lane` is `kvm_web_webrtc_input` between its look at the buttons and its send.
The model assumes that in the instant between the reset and the second send
other tasks do not fill the whole queue.  `torn` marks a reset that falls between
the worker's peek and its receive, which throws the release away.

### Scheduler, Runbook, PowerButton

The scheduler's task, the clock, the switch and restarts; a job is the set of
minutes it is due at.  The hour has `HourMinutes` minutes, so that it wraps.

A runbook is started by two callers in the steps of `runbook_start`; the task
goes through the steps of its script, each of which looks at `s_stop` while it
waits, or does not.  `rbRaced` marks two starts that both passed the unlocked
check.

`PowerButton` keeps `s_cfg`, the queue and `s_op_mtx`.  Power and reset are never
the same pin, because the settings refuse a pin that is in use.

### Profiles

One setting stands for those that profiles overlay.  A call that holds the
profiles' lock is a list of writes to flash (`todo`), and power may go between
any two, those of the two keys of one call included (`DoActive`, `DoManual`); the
readers without a lock see the middle of it.  The automatic task
follows `profile_auto.c`: look, settle, ask, switch, count, restart.  The CEC
name of a device is taken not to change.

### Alerts

The queue, the waiting list and the files on the card, with the card pulled and
the device restarted at any step.  A file is opened, which empties it, and then
written (`AddOpen` and `AddWrite`, `SaveOpen` and `SaveWrite`); in between card or
power may go or the write fail (`WriteFails`), and the open itself may fail: what
`card_write` returns is not looked at.  `card_load` reads the card back once, and
sets `s_card_loaded` before it does: `CardLoadCut` is the directory that does not
open or ends early and the file that does not read, with the card gone or failing
meanwhile.  The numbers of new files then begin within those on the card
(`Beyond`), and a new alert takes over the file of an old one (`Overwritten`).

`settled` and `stored` are history: which channel of which alert is done with, and
which the card ever held.  `excused` are the alerts that `AlertKept` lets go, and
its comment says which they are.  `MaxMishaps` bounds restarts and accidents of the
card together.

### WebrtcSessions

An offer goes through `take_slot` and the build of the session in the web
server's task, while the receive task moves sessions on, lets deadlines pass and
frees dead ones.  `viewers` is what the encoder is told.

### MCServices

The services share no state in these models, so their product would say no more
than each alone.  A behaviour of `MCServices` is a behaviour of one of them,
chosen at the start; the others stay in an initial state.  Where a service's one
property asks nothing more of a behaviour (`torn`, `rbRaced`) the behaviour ends.

## 3. Runs

| run | configuration | shows |
|---|---|---|
| `ring_direct` | 3 buffers, early encode, interrupt on the loop's core | `WholeFrame`, `NoOverwrite`: no reader of a whole frame shares its slot with the DMA. `NoTwoDrops`: with a third buffer two frames in a row are never dropped. `GateReopens`, `LoopTurns`, `RingFills`: the gate opens again, the loop comes round, frames land |
| `ring_swap` | 2 buffers, byte reorder that may fail, any interleaving | `WholeFrame`, `LoopTurns`: the same with the interrupt on the other core, and failed reorders do not stop the loop |
| `park` | the loop, one encode task, two restarting tasks | `NoFrameCutOff`: a restart that did not time out cuts off no frame. `RestartHappens` |
| `store` | 2 readers, 3 MJPEG and 2 H.264 slots, 2 YUV buffers, encode task | `HeldIntact`, `WritesLive`, `RefsCounted`, `YuvOnce`, `FrontTagged`, `SwitchEnds` |
| `delivery` | 2 viewers, 1 waiter slot, 4 frames, encode task | `SlotsApart`, `NoLostWakeup`, `ChainKept` |
| `mode` | a mode that fits, one too fast, one too large; one change | `ModeFollowed`, `LeftAlone` |
| `firmware` | two images, the upload and one fetch, any number of updates and resets | `ComesBack`: the next reset, or the one after it, starts an image whose web server has been up. `GoesBack`: any reset during a trial starts the previous image. `TrialHonoured`: an update asked to be on trial does not become valid unless it is kept. `TrialTimed`: a trial always has something that ends it |
| `record` | ring of 2 frames, frames 1 to 4, every kind of recording | `FeedServes`: while a recording is written its feed is there, however a start meets a feed that is leaving or a writer still at work. `FilesPlay`: the refinement of `Recording`, for files whose writer is alone |
| `services` | `MCServices`, one service per behaviour | see below |
| `mode_fits`, `hid_lane`, `hand_holds` | as `mode`, `services` | expected counterexamples, see below |

`TypeOK` is proved where there are proofs and is not among the properties of a
run.

The properties of `services`:

| property | says |
|---|---|
| `ClipWhole` | a clip is converted from all of its segments: none was pruned between the event and the reading |
| `MediumBacked` | what the target reads, the read-ahead included, comes from the card that is mounted |
| `RescueApart` | the rescue image is not served while it is being replaced |
| `ReleaseLifts` | once the queue has drained, nothing pressed before the last release-all is still down, with a full queue, a merge or a press in the worker's hands in between |
| `OnceAMinute` | with the scheduler at work no due job is missed and none runs twice in a minute |
| `StopTakes` | a stop that was accepted is not forgotten |
| `PressWhole` | a press lasts its time on its own pin, whenever the pins are moved; no other pin is down |
| `BootKeeps` | between calls, what is in effect is what a boot would make of flash, power cuts at any write included |
| `TwoRestarts` | the device restarts for a profile at most twice in a row |
| `OwnHolds` | a profile of one's own, chosen by hand, is not undone by the task |
| `AlertKept` | an alert the card held is delivered, or the card still has it for the channels it lacks; not if it was pushed out of a full list, cleared, cut off in its file by power, card or a failed write (the first or a retry's), or overwritten because the card was not read back or only in part |
| `ViewersTrue` | the encoder counts exactly the sessions there are, and a claimed slot stays claimed |

Three more runs are expected to end in a counterexample; each is a place where
the code does something other than it says.

| run | property | what happens |
|---|---|---|
| `mode_fits` | `FitsBuffers` | a recovery builds the receiver for any size it reads (`capture_hw.c:864`); `apply_mode` and init check it |
| `hid_lane` | `MovesOnlyMove` | "a move that comes late can shift the pointer, never press or release anything" (`http_server.c:3587`), but the buttons are read under the lock and sent after it (`:3602`): a button-up of the same socket in between, which is the shortest trace, or a takeover (`:3501`) lifts the button and the move presses it again |
| `hand_holds` | `HandHolds` | "a restart, or a profile chosen by hand, does not undo itself" (`profile_auto.c:10`), but the by-hand flag is read back only for a profile other than Default (`kvm_profiles.c:298`) |

More properties stand in the modules without a run of their own.  The code
violates them, which TLC shows when they are put into the configuration of the
module's run (`RingFills` into that of `ring_swap`; `ChainAlways` with one viewer and `MaxSeq` 5; `OldestLoses` with
`SegsMax` 5, `ClipJobs` 2 and `MaxClips` 4, since the code has as many places for jobs as pins; the services' into that of
`services`, without the end at `torn` or `rbRaced`):

| property | module | what happens |
|---|---|---|
| `RingFills` with two buffers | `CaptureRing` | a failed byte reorder ends the turn with the slot held (`capture_loop.c:632`); nothing lands from then on while the reorders fail |
| `RestartParksDma` | `CapturePark` | "Every software restart parks the capture DMA first" (`capture.c:352`), but a rebuild under way starts the receiver after the restart stopped it |
| `ChainAlways` | `FrameDelivery` | after a failed acquire `tx_task` resumes from the current number (`kvm_webrtc.c:755`); a frame that went by leaves no gap |
| `SilenceNudged` | `CaptureMode` | one valid reading between silent polls stops the silence count for good (`capture_hw.c:1097`) |
| `RingStays` | `Recorder` | `on_memory_pressure` decides before a recording is active and frees the ring, and the scratch frame, when the writer is already reading it (`kvm_record.c:1418`) |
| `StartsOnKey` | `Recorder` | the feed looks at `s_feed_resync` only at the top of its loop (`kvm_record.c:698`); a start that empties the ring while the feed waits for a frame gets that frame first, keyframe or not |
| `OneWriter` | `Recorder` | "The operator's recording takes the writer" (`kvm_record.c:1487`), and "only the writer task touches these once it runs" (`:117`), but `stop_writer` returns after fifteen seconds, or on a token given late, and the start opens its file over that of the writer still at work |
| `OldestLoses` | `ClipSegments` | "four clips at once: the oldest loses its hold" (`kvm_record.c:981`), but the pin that is overwritten is the first in the table, and a place freed by a finished clip went to a newer one |
| `SingleWriter` | `VirtualMedia` | an upload that runs when the whole card is handed over keeps writing; the recorder may start again between `fs_leaving` and `s_handed_over` |
| `ReleaseArrives` | `HidInput` | a reset of the queue between the worker's peek and receive throws the release away |
| `RunbookAlone` | `Runbook` | `runbook_start` looks and then sets without a lock; "One at a time" (`runbook.h:6`) |
| `LiveSpared` | `WebrtcSessions` | an offer within a tick of a close ends the other console's session although a dead slot is about to be freed |

More observations that carry no run:

- When a frame lands between `gate_open` and the choice of an early frame, the
  wait for the lead gives up and the encode starts on what the slot held before
  (`capture_loop.c:591`).
- An early encode that ends before its frame has landed may be followed by an
  encode of the frame before it, when the semaphore still has a count: the newest
  complete frame is then the older one (`capture_loop.c:569`).
- `early_gate` keeps its own static `s_on`, which stays set while `csi_create`
  resets the gate (`capture_loop.c:181`, `capture_hw.c:482`), so after a rebuild
  the gate stays off until early encoding stops and starts again; frames still
  flow.
- A viewer that holds a frame for five seconds makes `codec_switch` return the
  old codec (`capture_loop.c:219`), which takes H.264 off the table as a lack of
  memory would (`capture_loop.c:467`).
- `kvm_ota_trial_keep` looks at `s_rolled_back` and then marks the image
  (`ota_trial.c:172`, `:176`); a timer that runs out in between marks it invalid
  and restarts, and the operator has read "kept".
- `fw_install_start` looks before it sets (`fw_install.c:481`): the console and
  MQTT may both start a fetch, and the second one's `s_trial_s` counts for both.
  The trial is looked at there only: a fetch that starts between the web
  server's start and the trial's may erase the fallback in the moment between a
  rollback and its restart.
- The boot guard counts crashes of whatever ran (`main.c:505`).  If the old
  image crashed in the second before its restart into a new one, and often
  before, the new one is left at once and comes out aborted; one more reset of
  the old one, now pending, and neither slot is good.
- Clips: an event marked between the end of a clip's last segment and
  `s_event = false` is lost, and its pin stays; with no free pin the first one is
  overwritten; forgetting the past deletes segments of clips that wait; a clip
  does not end while no frames come.
- A failed acquire in the feed moves `last_seq` without asking for a keyframe
  (the `Slip` of `Recording`), as in the send task.
- Two tasks run `apply_media_selection` at once, and the re-read mounts without
  `s_media_lock`.
- Schedule: switched off and on again an hour later in the same minute misses
  the job; a scheduled restart fires again after the boot when the minute is not
  over, against "at most once a minute" (`kvm_sched.c:7`).  `OnceAMinute` counts
  between two restarts.
- Runbook: the steps that record, take a screenshot, toggle HDMI or wait out a
  timeout never look at `s_stop`.
- HID: a key-up that finds the queue full is dropped; a release is lost to a
  host that sleeps or stalls.
- Profiles: a value being stored while the profile changes lands in the other
  profile; a choice by hand in the instant the task is deciding is undone; a
  power cut between the restart count and `rst_cec` allows a third restart.
- Alerts: "With a writable card the list lives there too, so it survives a restart"
  (`kvm_notify.c:76`, `:17`), but an alert's file is emptied and written anew at each
  retry and what `card_write` returns is ignored (`:652`, `:721`), so a power cut, a
  pulled card or a full one then loses it; and `s_card_loaded` is set before
  `card_load`, which may find no directory or half of it (`:1211`, `:874`): the alerts
  not listed are not sent before the next restart, and new ones overwrite them.  A
  card that becomes writable between the check and `card_store` has older numbers
  overwritten too; a card pulled during a removal sends the alert again after a
  restart; the count of dropped alerts does not survive a restart.
- WebRTC: with every slot dead an offer is refused at once; an offer that runs
  late may end a session and still be refused; the comment at
  `kvm_webrtc.c:1048` names a state the claim no longer uses.

### Bounds

- `FbCount` 3 and 2 are the two builds.  `SemMax` 2 stands for 32: what matters
  is an empty, a filled and a full semaphore.
- `MaxPolls` 3 stands for 30 polls: time out, or not, after some frame ended.
- `JpegSlots`, `H264Slots`, `YuvBufs` are the code's; two readers can hold two
  slots, all that one can hold besides the front and the one being written.
- `WaiterSlots` 1 for 16 makes both the slot and the polling path happen with
  two viewers.  `MaxSeq` bounds the frames; four are enough for a frame sent, one
  missed, one after it, and a codec switch in between.
- `MaxChanges` 1: properties speak of a source that has changed for the last
  time, and while it settles the readings are arbitrary and unbounded, so what
  an earlier change leaves in the tasks is reached too.  `NudgeMax` 1 for 3: the
  count below and at its limit.
- `Tries` 2 for 4: a crash that does not count yet and one that does.  Two
  images, because what matters is whether two slots, or a slot and a request,
  hold the same one.  `Fetchers` is the console only; MQTT starts the same task,
  without a trial.
- `record`: a ring of 2 fills and gives up a group; `Pre` 2, `Post` 1, `EventMax`
  2 let an event begin before the ring does, end, and hit its limit; `MaxSeq` 4
  frames are a group, a drop, and a keyframe after it; the last number is not a
  codec switch's.
- Clips: `SegsMax` 4 and `MaxSegs` 5 fill the table once, `SegPins` 2 with
  `MaxClips` 3 overflow the pins, `ClipJobs` 1 fills the queue.
- HID: `HidDepth` 2 is full with two reports; `MaxReports` 3, and 4 in
  `hid_lane`, where a press, its release (a button-up or a takeover's) and a late move
  are needed.
- Schedule: an hour of 3 minutes and 7 minutes wrap twice.  `AtxPins` 3 allow
  pins to move and to swap; `AtxDepth` 2.
- Profiles: one of one's own beside Default, two calls, `RestartsMax` 2 as in
  the code.  Alerts: `WaitMax` 1, `AlertDepth` 1, two alerts, two mishaps, so a
  list overflows and a card goes across a restart; `MaxIds` 3 numbers of files.
- WebRTC: `SessionsMax` 2 as in the code, `MaxOffers` 4.

### Fairness

- ring: the interrupt is served; the loop's steps are strongly fair, since an
  interrupt holds it off only for as long as it takes.
- park: only the restarting tasks are fair.  A worker may hang, the restart
  still happens.
- store: the switch and the encode task.  Readers may hold a frame for ever.
- mode: both tasks run, a source that no longer changes settles, the cooldown
  passes.  Polling, building the receiver and taking `tc_mu` in a recovery are
  strongly fair: they may fail any number of times, not for ever.
- delivery, firmware, record, services: safety only.

Deadlock is checked everywhere except in `CapturePark`, where the device is gone
after the restart, and in `record`, `services`, `hid_lane` and `hand_holds`, where
the bounded inputs run out.

## 4. Proofs

For every value of the constants that satisfies the modules' named assumptions:

| theorem | states | assumes |
|---|---|---|
| `TypeCorrect`, `ReadsWholeFrames`, `NeverOverwrites`, `NeverDropsTwice` | `TypeOK`, `WholeFrame`, `NoOverwrite`, `NoTwoDrops` of the ring | two buffers or more, a semaphore that counts to one or more |
| `CutsOffNoFrame` | `NoFrameCutOff` of the restart | finitely many encode tasks |
| `StoreTypeCorrect`, `HeldStaysIntact`, `WritesStayLive`, `RefsStayCounted`, `FrontStaysTagged`, `YuvStaysOnce` | `TypeOK`, `HeldIntact`, `WritesLive`, `RefsCounted`, `FrontTagged`, `YuvOnce` of the store | `StoreAssumption` |
| `DeliveryTypeCorrect`, `SlotsStayApart`, `NobodySleepsOn`, `ChainStaysKept` | `TypeOK`, `SlotsApart`, `NoLostWakeup`, `ChainKept` of the delivery | `DeliveryAssumption` |
| `TrialStaysTimed`, `TrialStaysHonoured`, `TrialAlwaysGoesBack`, `DeviceComesBack` | `TrialTimed`, `TrialHonoured`, `GoesBack`, `ComesBack` of the update | a torn slot and an empty one hold no image; at least one try |
| `FeedAlwaysServes` | `FeedServes` of the recorder | `RecorderAssumption` |
| `FilesAlwaysPlay` | `FilesPlay`: `Recorder` implements `Recording` | the same |
| `ReleaseAlwaysLifts` | `ReleaseLifts` of keyboard and mouse | a queue that holds one report or more |
| `PressStaysWhole` | `PressWhole` of the power button | a queue that holds one press or more |
| `ViewersStayTrue` | `ViewersTrue` of the sessions | one slot or more |
| `MediumStaysBacked`, `RescueStaysApart` | `MediumBacked`, `RescueApart` of virtual media | |
| `StopAlwaysTakes` | `StopTakes` of the runbook | every step looks at `s_stop` or does not |
| `ClipsStayWhole` | `ClipWhole` of the dashcam | a table of three segments or more, one pin or more |
| `AlertsStayKept` | `AlertKept` of the alerts | a list, a queue, a numbering and a set of channels that are not empty |
| `ProfilesStaySound`, `RestartsStayFew`, `OwnChoiceHolds`, `BootAlwaysKeeps` | `ProfInv`, `TwoRestarts`, `OwnHolds`, `BootKeeps` of the profiles | the default is a value; devices, rules and what flash held at first have their types |
| `JobsRunOnceAMinute` | `OnceAMinute` of the schedule | an hour of two minutes or more, a list of jobs |

None of the properties is inductive by itself.  The invariants that are:

- `RingInv`: `write` is where the DMA is; the newest frame, and the one the
  interrupt is about to report, are elsewhere; what the loop reads is `held`.
  The pick of the interrupt avoids all three, so no step brings DMA and reader
  together.
- `ParkInv`: the counter is the number of tasks in the bracket.  Zero read after
  the flag is set therefore means nobody is inside, and nobody enters any more.
- `StoreInv`: every reference is a reader's; until the store is emptied it
  belongs to the running codec, whose memory is allocated; the encode task
  exists only as long as H.264's buffers.  A switch frees memory only once the
  references are gone, so neither readers nor writers can lose theirs.  `YuvPart`
  replaces the sum of `YuvOnce` by what induction can carry: the two queues and the
  two hands share no buffer, none is in a queue twice, and each is somewhere.  That
  the task finds room when it returns a buffer is the pigeonhole principle.
- `DeliveryInv`: while a viewer is in the chain, either it has sent the
  encoder's reference or the next frame shows a gap.  `NoLostWakeup` is part of
  it: a give comes after the number, and the recheck after the drain.
- `FirmwareUpdateProofs` has three layers, each resting on the one before.
  `BaseInv` says which of the program's flags can be set where in a boot, and
  that a trial has its timer or somebody who is ending it.  `HonourInv` follows
  an image that was asked to be tried: until somebody keeps it, either its
  request is still in NVS, or it is on trial, or its slot is no longer one the
  bootloader would take for valid; at most one writer is past `esp_ota_begin`
  (`PenInv`).  `HomeInv` names the four phases a device outside the accidents is
  in (`Settled` on an image that works, `Fresh` on a new one, `Leaving` for one,
  `Returned` from one) and what each says about otadata, so that from each the
  image the next two resets start is known.  The theorems hold for any set of
  fetchers, where the run has the console's alone.
- `RecInv` of the recorder speaks of the file only while its writer is alone, of the
  ring and the feed also while writers share.  `CtlInv` and `FrontInv` tie the control lock, the
  feed's place and the front frame together, which gives `FeedServes`.  For the
  refinement, `ChainInv` says that the frames in the ring are in order and each
  joins the one before (`RingInv`), that the writer's current frame joins the
  first of them (`CurInv`), and that the feed's next one joins the last
  (`TailInv`).  Dropping whole groups keeps this only because what is left begins
  with a keyframe (lemmas about `RingPush` and the index of the next keyframe,
  by a least element and no recursion).
- `HidInv`: reports in the queue and in the worker's hands carry rising numbers;
  after a release-all either its report is still in the queue or in hand
  (`Queued`), or nothing older is held (`Lifted`).  `HandInv` and `Peeked` say
  what the worker may hold between its peek and its receive.
- `AtxInv`: the pin that is down is the one the worker holds the lock for.
  `SessInv`: the viewer count is the number of slots in a counted state, and a
  claimed slot is the one of the offer under way.  `MediaInv` ties the source
  and the read-ahead to the card through every step of a selection.  `BookInv`:
  unless two starts raced, one task runs, and once a stop is accepted `s_stop`
  stays set until that task is gone.  `SchedInv`: `lastMin` is the last minute
  looked at, and the jobs carried out are those before the index under way.
- `ClipInv` of the dashcam: the table is in order and everything deleted is older
  (`TableInv`); every clip has a number of its own (`ClipNoInv`); the clips that
  kept their hold can be given different pins, each with the clip's first segment
  (`Backed`), and none of their segments was deleted (`Clean`).  `Backed` says that
  such pins exist, not which: `record_unpin_segments` may clear the pin of another
  clip with the same first segment, and then the two change places.  It is what
  bounds `seg_prune`, which takes the oldest up to the lowest pin.  The proof found
  the exchange that fails, a clip without a pin that gives one back (`Robbed`):
  with one pin and three clips `ClipWhole` does not hold without it.
- `AlertInv`: an alert may be in the list more than once, and on the card, under one
  number (`card_load` reads back files the list already knows), and the copies may
  differ, or a file be torn.  `Tied` says how little: for an alert that still matters, every copy with
  the same number is of that alert, and a channel that one copy has yet to reach
  the others have too, unless it is settled.  So whichever copy is removed, or
  written over another, nothing that is owed is forgotten.  `NumberInv` keeps new
  numbers beyond those in the list and, where the card was read back to its end, those
  on the card; where it was not, the alert whose file is taken over is excused.
- `ProfInv` of the profiles has four parts beside the types.  `LockInv` lists the
  nineteen lists of writes a holder of the profiles' lock can have left, and for
  each what flash still lacks: one slot (`SameBut`), the choice (`SameChoice`) or
  nothing; and the choice in flash is always of a profile that flash holds, which
  is why a deletion clears the choice first.  `ValueInv`: unless the profile
  changed under a call that was storing a value, the overlay is the active
  profile's, or its loading is still to come.  Together they give `BootKeeps`.
  `RowInv`: the count in flash is never behind the restarts in a row, a restart
  that is decided included, and is kept for the source attached.  `HandInv`: while
  a choice of one's own stands, flash has it, and the task is not past the point
  where it reads `s_manual`, or everything is about to be erased.

Each of these was first checked by TLC as an invariant of the run's instance.

Only model-checked, and why:

- all liveness (`GateReopens`, `LoopTurns`, `RingFills`, `RestartHappens`,
  `SwitchEnds`, `ModeFollowed`, `LeftAlone`), which is out of the prover's reach.

## 5. Left out, and the plan

Left out of the modelled parts: pixels, bit rates and quality, the contents of
messages and logs; wall-clock times; the wedge detector of the encoder
(an encode succeeds or fails); the viewer and upload counts; the NACK ring and
audio of WebRTC.

Not modelled:

- Sign-in, certificates and the rest of `kvm_web`: handlers that read or pass on,
  and security code, which is outside the aim of this project.
- `kvm_net`, `kvm_mqtt`: clients of external libraries with a little state of
  their own.
- `kvm_cec`, `kvm_serial`, `kvm_rtc`, `kvm_audio`, `kvm_regions`, `kvm_screentext`,
  `kvm_display`, `kvm_log`, `kvm_netlog`, `kvm_agent`, `kvm_proto`, `kvm_board`:
  bus timing, samples, pixels, drawing, buffers and tables.
- The byte layout of TS and MP4, ciphers, SDP, SCTP, image arithmetic, register
  programming of the bridges, thermal steps, web push, script parsing.
- `fatfs`, `sdmmc`, `esp_driver_sdmmc`, `esp_tinyusb`: vendored.  They and the
  tables of settings, strings and fonts are about half of the lines under `src/`.

Next, in this order:

1. Link failover and the MQTT client's teardown; SCTP's retransmission, composed
   with `WebrtcSessions`.
2. `FrameStore` implements a store that publishes and holds whole frames;
   `CaptureRing` one that keeps the latest and skips the rest.
