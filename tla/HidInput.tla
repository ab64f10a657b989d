------------------------------ MODULE HidInput ------------------------------
(***************************************************************************)
(* Keyboard and mouse on their way to the target (usb_hid.c, jiggler.c,    *)
(* and the control socket of http_server.c).  The web server's task, the   *)
(* runbook, the jiggler and the WebRTC pointer lane put reports in one     *)
(* queue; the worker takes them out, folds plain motion together and gives *)
(* each to its USB endpoint; the target sleeps, wakes, comes and goes.     *)
(*                                                                         *)
(* Keyboard, media keys and gamepad are one function, "key": none of them  *)
(* is ever merged.  A report the endpoint accepts counts as taken; one it  *)
(* refuses because the host stalls for longer than the wait is lost.  All  *)
(* the sockets belong to one sign-in and point in absolute coordinates,    *)
(* which leaves the relative function to the jiggler.  Not modelled: the   *)
(* re-attach timer (its detach is TargetGone), who may open a socket.      *)
(***************************************************************************)
EXTENDS Integers, Sequences

CONSTANTS
    HidDepth,       \* HID_QUEUE_DEPTH
    Tabs,           \* the control sockets, not 0
    MaxReports      \* bound on the reports sent

ASSUME HidAssumption ==
    HidDepth \in Nat \ {0} /\ MaxReports \in Nat /\ 0 \notin Tabs

VARIABLES
    hidQ,           \* s_hid_q
    hidSent,        \* the reports sent so far; a report's id is its number
    worker,         \* hid_worker: [pc, acc]
    target,         \* "gone", "up", "asleep"; tud_mounted is target # "gone"
    heldBy,         \* what the target thinks is down: the last report to say so, or 0
    stuck,          \* functions whose last report the endpoint refused
    control,        \* s_ws_fd, 0 for -1
    wsButtons,      \* s_ws_buttons
    lane,           \* kvm_web_webrtc_input: [pc, down]
    releaser,       \* usb_hid_release_all, per task: [pc, clear]
    barrier,        \* history: id of the last release-all that entered the queue
    torn,           \* history: a reset came between the worker's peek and receive
    dropped,        \* history: a report found the queue full
    ctlDown         \* history: the controlling socket's last report held a button

hidVars == <<hidQ, hidSent, worker, target, heldBy, stuck, control, wsButtons, lane,
             releaser, barrier, torn, dropped, ctlDown>>

Functions  == {"key", "abs", "rel"}
Releasers  == {"httpd", "runbook"}
Report(fn, down) == [fn |-> fn, down |-> down, solo |-> FALSE, id |-> hidSent + 1]
Nothing    == [fn |-> "none", down |-> FALSE, solo |-> FALSE, id |-> 0]

Spare == hidSent < MaxReports

(* enqueue: a report that finds the queue full is dropped.  While another  *)
(* task is between its reset and its second send the queue is empty but    *)
(* for what is sent in that instant, far less than HID_QUEUE_DEPTH.        *)
Enqueue(m) ==
    /\ Spare
    /\ (\E r \in Releasers : releaser[r].pc = "again") => Len(hidQ) < HidDepth - 1
    /\ hidSent' = hidSent + 1
    /\ IF Len(hidQ) < HidDepth
         THEN hidQ' = Append(hidQ, m) /\ UNCHANGED dropped
         ELSE dropped' = TRUE /\ UNCHANGED hidQ

HttpdFree == releaser["httpd"].pc = "idle"

----------------------------------------------------------------------------
(* usb_hid_release_all.                                                    *)

StartRelease(r, clear) ==
    releaser' = [releaser EXCEPT ![r] = [pc |-> "send", clear |-> clear]]

ReleaseIn(r) ==
    /\ hidQ' = Append(hidQ, Report("all", FALSE))
    /\ hidSent' = hidSent + 1
    /\ barrier' = hidSent + 1
    /\ releaser' = [releaser EXCEPT ![r] = [pc |-> "idle", clear |-> FALSE]]
    /\ wsButtons' = IF releaser[r].clear THEN FALSE ELSE wsButtons
    /\ UNCHANGED <<worker, target, heldBy, stuck, control, lane, torn, dropped, ctlDown>>

(* Mutant of ReleaseSend: sent like any other report, dropped when full.   *)
ReleaseSend_Dropped(r) ==
    /\ releaser[r].pc = "send"
    /\ \/ Len(hidQ) < HidDepth /\ ReleaseIn(r)
       \/ /\ Len(hidQ) = HidDepth
          /\ releaser' = [releaser EXCEPT ![r] = [pc |-> "idle", clear |-> FALSE]]
          /\ barrier' = hidSent
          /\ UNCHANGED <<hidQ, hidSent, worker, target, heldBy, stuck, control,
                         wsButtons, lane, torn, dropped, ctlDown>>

(* On a full queue the backlog is thrown away first.                       *)
ReleaseSend(r) ==
    /\ releaser[r].pc = "send"
    /\ \/ Len(hidQ) < HidDepth /\ ReleaseIn(r)
       \/ /\ Len(hidQ) = HidDepth
          /\ hidQ' = <<>>
          /\ torn' = (torn \/ worker.pc = "take")
          /\ releaser' = [releaser EXCEPT ![r].pc = "again"]
          /\ UNCHANGED <<hidSent, worker, target, heldBy, stuck, control, wsButtons, lane,
                         barrier, dropped, ctlDown>>

ReleaseAgain(r) == releaser[r].pc = "again" /\ ReleaseIn(r)

----------------------------------------------------------------------------
(* The senders.                                                            *)

(* ws_input_handler: the holder's input, or anybody's while control is     *)
(* free, which claims it.                                                  *)
WsInput(c, fn, down) ==
    /\ HttpdFree /\ control \in {0, c}
    /\ control' = c
    /\ Enqueue(Report(fn, down))
    /\ wsButtons' = IF fn = "key" THEN wsButtons ELSE down
    /\ ctlDown' = IF fn = "key" THEN ctlDown ELSE down
    /\ UNCHANGED <<worker, target, heldBy, stuck, lane, releaser, barrier, torn>>

(* WS_C2D_TAKEOVER.  Demoting another socket lifts what it held.           *)
WsTakeover(c) ==
    /\ HttpdFree /\ Spare /\ control # c
    /\ control' = c
    /\ IF control # 0
         THEN StartRelease("httpd", TRUE) /\ ctlDown' = FALSE
         ELSE UNCHANGED <<releaser, ctlDown>>
    /\ UNCHANGED <<hidQ, hidSent, worker, target, heldBy, stuck, wsButtons, lane, barrier,
                   torn, dropped>>

(* WS_C2D_RELEASE_ALL.                                                     *)
WsRelease ==
    /\ HttpdFree /\ Spare /\ control # 0
    /\ StartRelease("httpd", TRUE) /\ ctlDown' = FALSE
    /\ UNCHANGED <<hidQ, hidSent, worker, target, heldBy, stuck, control, wsButtons, lane,
                   barrier, torn, dropped>>

(* http_sess_close_cb, of the socket in control.                           *)
SessionClose ==
    /\ HttpdFree /\ Spare /\ control # 0
    /\ control' = 0
    /\ StartRelease("httpd", FALSE) /\ ctlDown' = FALSE
    /\ UNCHANGED <<hidQ, hidSent, worker, target, heldBy, stuck, wsButtons, lane, barrier,
                   torn, dropped>>

(* A runbook's keys, and the release it ends with.                         *)
RunbookKey(down) ==
    /\ releaser["runbook"].pc = "idle"
    /\ Enqueue(Report("key", down))
    /\ UNCHANGED <<worker, target, heldBy, stuck, control, wsButtons, lane, releaser,
                   barrier, torn, ctlDown>>

RunbookEnds ==
    /\ releaser["runbook"].pc = "idle" /\ Spare
    /\ StartRelease("runbook", FALSE)
    /\ UNCHANGED <<hidQ, hidSent, worker, target, heldBy, stuck, control, wsButtons, lane,
                   barrier, torn, dropped, ctlDown>>

(* The jiggler, at a target that is there and awake.                       *)
Nudge ==
    /\ target = "up"
    /\ Enqueue([Report("rel", FALSE) EXCEPT !.solo = TRUE])
    /\ UNCHANGED <<worker, target, heldBy, stuck, control, wsButtons, lane, releaser,
                   barrier, torn, ctlDown>>

(* kvm_web_webrtc_input: the buttons are read under the lock, and the move *)
(* is sent after it.                                                       *)
LaneRead ==
    /\ lane.pc = "idle" /\ control # 0 /\ Spare
    /\ lane' = [pc |-> "move", down |-> wsButtons]
    /\ UNCHANGED <<hidQ, hidSent, worker, target, heldBy, stuck, control, wsButtons,
                   releaser, barrier, torn, dropped, ctlDown>>

LaneMove ==
    /\ lane.pc = "move"
    /\ Enqueue(Report("abs", lane.down))
    /\ lane' = [pc |-> "idle", down |-> FALSE]
    /\ UNCHANGED <<worker, target, heldBy, stuck, control, wsButtons, releaser, barrier,
                   torn, ctlDown>>

----------------------------------------------------------------------------
(* hid_worker.                                                             *)

(* merge_mouse: motion only, and only with no button held.                 *)
Mergeable(acc, m) ==
    /\ acc.fn = m.fn
    /\ ~acc.solo /\ ~m.solo
    /\ acc.down = m.down
    /\ ~acc.down

WorkerTake ==
    /\ worker.pc = "idle" /\ hidQ # <<>>
    /\ hidQ' = Tail(hidQ)
    /\ worker' = IF target = "gone" THEN worker
                 ELSE [pc  |-> IF Head(hidQ).fn \in {"abs", "rel"} THEN "peek" ELSE "emit",
                       acc |-> Head(hidQ)]
    /\ UNCHANGED <<hidSent, target, heldBy, stuck, control, wsButtons, lane, releaser,
                   barrier, torn, dropped, ctlDown>>

WorkerPeek ==
    /\ worker.pc = "peek"
    /\ worker' = IF hidQ # <<>> /\ Mergeable(worker.acc, Head(hidQ))
                   THEN [pc |-> "take", acc |-> Head(hidQ)]
                   ELSE [worker EXCEPT !.pc = "emit"]
    /\ UNCHANGED <<hidQ, hidSent, target, heldBy, stuck, control, wsButtons, lane,
                   releaser, barrier, torn, dropped, ctlDown>>

(* The peeked report is received and forgotten.                            *)
WorkerMerge ==
    /\ worker.pc = "take"
    /\ hidQ' = IF hidQ = <<>> THEN <<>> ELSE Tail(hidQ)
    /\ worker' = [worker EXCEPT !.pc = "peek"]
    /\ UNCHANGED <<hidSent, target, heldBy, stuck, control, wsButtons, lane, releaser,
                   barrier, torn, dropped, ctlDown>>

(* send_release_all reports nothing held on every function.                *)
Emits(m) == IF m.fn = "all" THEN Functions ELSE {m.fn}

(* dispatch: input wakes a sleeping target that lets itself be woken, a    *)
(* release-all does not.  hid_emit: the endpoint takes a report or, the    *)
(* host stalled or asleep, refuses it twice.                               *)
WorkerEmit(lost) ==
    LET m == worker.acc
        awake == target' = "up"
    IN  /\ worker.pc = "emit"
        /\ target' \in IF target = "asleep" /\ m.fn # "all" THEN {"asleep", "up"} ELSE {target}
        /\ lost \subseteq Emits(m)
        /\ ~awake => lost = Emits(m)
        /\ heldBy' = [f \in Functions |->
                        IF f \in Emits(m) \ lost
                          THEN IF m.down THEN m.id ELSE 0
                          ELSE heldBy[f]]
        /\ stuck' = (stuck \ Emits(m)) \cup (IF target = "gone" THEN {} ELSE lost)
        /\ worker' = [pc |-> "idle", acc |-> Nothing]
        /\ UNCHANGED <<hidQ, hidSent, control, wsButtons, lane, releaser, barrier, torn,
                       dropped, ctlDown>>

----------------------------------------------------------------------------
(* External: the target.  Gone, it forgets what was held.                  *)

TargetSleeps ==
    /\ target = "up" /\ target' = "asleep"
    /\ UNCHANGED <<hidQ, hidSent, worker, heldBy, stuck, control, wsButtons, lane, releaser,
                   barrier, torn, dropped, ctlDown>>

TargetWakes ==
    /\ target \in {"asleep", "gone"} /\ target' = "up"
    /\ UNCHANGED <<hidQ, hidSent, worker, heldBy, stuck, control, wsButtons, lane, releaser,
                   barrier, torn, dropped, ctlDown>>

TargetGone ==
    /\ target # "gone" /\ target' = "gone"
    /\ heldBy' = [f \in Functions |-> 0]
    /\ stuck' = {}
    /\ UNCHANGED <<hidQ, hidSent, worker, control, wsButtons, lane, releaser, barrier,
                   torn, dropped, ctlDown>>

----------------------------------------------------------------------------
HidInit ==
    /\ hidQ = <<>> /\ hidSent = 0
    /\ worker = [pc |-> "idle", acc |-> Nothing]
    /\ target = "up"
    /\ heldBy = [f \in Functions |-> 0] /\ stuck = {}
    /\ control = 0 /\ wsButtons = FALSE
    /\ lane = [pc |-> "idle", down |-> FALSE]
    /\ releaser = [r \in Releasers |-> [pc |-> "idle", clear |-> FALSE]]
    /\ barrier = 0 /\ torn = FALSE /\ dropped = FALSE /\ ctlDown = FALSE

HidNext ==
    \/ \E r \in Releasers : ReleaseSend(r) \/ ReleaseAgain(r)
    \/ \E c \in Tabs, fn \in {"key", "abs"}, down \in BOOLEAN : WsInput(c, fn, down)
    \/ \E c \in Tabs : WsTakeover(c)
    \/ WsRelease \/ SessionClose
    \/ \E down \in BOOLEAN : RunbookKey(down)
    \/ RunbookEnds \/ Nudge \/ LaneRead \/ LaneMove
    \/ WorkerTake \/ WorkerPeek \/ WorkerMerge
    \/ \E lost \in SUBSET Functions : WorkerEmit(lost)
    \/ TargetSleeps \/ TargetWakes \/ TargetGone

HidSpec == HidInit /\ [][HidNext]_hidVars

----------------------------------------------------------------------------
(* Everything sent has been dealt with.                                    *)
Drained ==
    /\ hidQ = <<>> /\ worker.pc = "idle" /\ lane.pc = "idle"
    /\ \A r \in Releasers : releaser[r].pc = "idle"

(* Once the queue has drained, nothing that was pressed before the last    *)
(* release-all is held on the target, on any function whose last report    *)
(* the endpoint took: not when the release found the queue full, when the  *)
(* target went away under it, or when the press was still in the worker's  *)
(* hands.  The one way round it is a reset that falls between the worker's *)
(* peek and its receive, which then throws the release away.               *)
ReleaseLifts ==
    Drained /\ ~torn =>
        \A f \in Functions \ stuck : heldBy[f] = 0 \/ heldBy[f] > barrier

(* What the comment in usb_hid_release_all asks for: the release is never  *)
(* the message that gets dropped.                                          *)
ReleaseArrives ==
    Drained => \A f \in Functions \ stuck : heldBy[f] = 0 \/ heldBy[f] > barrier

(* What the comment on kvm_web_webrtc_input says: a pointer move over the  *)
(* data channel never presses anything.  With no report lost or dropped, a *)
(* pointer button is down only when the socket in control holds it.        *)
MovesOnlyMove ==
    Drained /\ stuck = {} /\ ~dropped /\ ~torn /\ target = "up" =>
        (heldBy["abs"] # 0 => ctlDown)
=============================================================================
