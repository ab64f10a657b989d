---------------------------- MODULE CaptureMode ----------------------------
(***************************************************************************)
(* Following the source's video mode.                                      *)
(*                                                                         *)
(* capture_monitor_task polls the bridge and, when it has read the same    *)
(* size twice, asks the capture loop for a switch through four unlocked    *)
(* words: pending_hres, pending_vres, mode_change_pending and a give of    *)
(* csi_done_sem.  The loop rebuilds the CSI receiver for what it finds     *)
(* there; when no frame comes for two seconds it recovers by itself, with  *)
(* one reading of its own.  While nothing comes in, the monitor offers the *)
(* source a fresh hotplug now and then.                                    *)
(*                                                                         *)
(* Each of the shared words is read and written in a step of its own.  The *)
(* source and the bridge are external: the source changes as it likes,     *)
(* MaxChanges times, and while it settles a reading may be nonsense.       *)
(***************************************************************************)
EXTENDS Integers

CONSTANTS
    Signals,        \* what the source may send: records [h, v, fast]
    MaxH, MaxV,     \* CAPTURE_MAX_H_RES, CAPTURE_MAX_V_RES
    KnowsDdc5v,     \* the bridge can read the source's +5 V
    NudgeMax,       \* HDMI_NUDGE_MAX
    MaxChanges      \* bound: how often the source changes

ASSUME ModeAssumption ==
    /\ MaxH \in Nat /\ MaxV \in Nat
    /\ Signals \subseteq [h : Nat, v : Nat, fast : BOOLEAN]
    /\ KnowsDdc5v \in BOOLEAN /\ NudgeMax \in Nat /\ MaxChanges \in Nat

NoSignal == [h |-> 0, v |-> 0, fast |-> FALSE]

VARIABLES
    \* the source: what it sends, whether it has settled, its +5 V, whether
    \* the receiver has stopped delivering, how often it has changed
    src, settling, power, stalled, changes,
    \* the monitor: candidate, candidate_hits, had_signal, quiet_since >= 0,
    \* nudges, had_ddc5v; where it is
    cand, hits, had, counting, nudges, hadDdc, mpc,
    \* shared: signal_present, mode_too_fast, pending_hres and _vres,
    \* mode_change_pending, a give of csi_done_sem
    present, tooFast, pendH, pendV, pending, sem,
    \* the loop: place, want_h and want_v, hres and vres, is the receiver
    \* running, does the loop have tc_mu, is the recovery cooling down
    lpc, wantH, wantV, hres, vres, csi, lock, cool

source  == <<src, settling, power, stalled, changes>>
quiet   == <<counting, nudges, hadDdc>>
monitor == <<cand, hits, had, quiet, mpc>>
verdict == <<present, tooFast>>
request == <<pendH, pendV, pending, sem>>
loop    == <<lpc, wantH, wantV, hres, vres, csi, lock, cool>>
vars    == <<source, monitor, verdict, request, loop>>

(* The valid readings the bridge may give now: while a source changes mode *)
(* the counters read as nonsense, here as any of the modes.                *)
Valid ==
    IF settling THEN Signals
    ELSE IF src = NoSignal THEN {} ELSE {src}

Silent == settling \/ src = NoSignal

(* Frames come in: the receiver is up, for the size the source sends, at a *)
(* rate the lanes carry.                                                   *)
Delivering ==
    /\ csi /\ ~stalled
    /\ src # NoSignal /\ ~src.fast
    /\ src.h = hres /\ src.v = vres

----------------------------------------------------------------------------
(* The source.                                                             *)

(* A new mode, a lost picture, the power; or a hiccup that leaves the      *)
(* receiver without frames.                                                *)
SourceChange ==
    /\ changes < MaxChanges
    /\ changes' = changes + 1
    /\ src' \in Signals \cup {NoSignal}
    /\ power' \in (IF src' = NoSignal THEN BOOLEAN ELSE {TRUE})
    /\ settling' = TRUE
    /\ stalled' \in (IF src' = NoSignal THEN {TRUE} ELSE {stalled, TRUE})
    /\ UNCHANGED <<monitor, verdict, request, loop>>

Settle ==
    /\ settling
    /\ settling' = FALSE
    /\ UNCHANGED <<src, power, stalled, changes, monitor, verdict, request, loop>>

----------------------------------------------------------------------------
(* One poll of capture_monitor_task.  When tc_mu cannot be had or the      *)
(* bridge does not answer, nothing changes.                                *)

Polling == mpc = "poll" /\ ~lock

Ddc5v == power \/ ~KnowsDdc5v

(* The count starts again on a lost picture and on a change of the +5 V.   *)
Restarts == had \/ Ddc5v # hadDdc

PollSilent ==
    /\ Polling /\ Silent
    /\ present' = FALSE
    /\ hits' = 0
    /\ had' = FALSE
    /\ tooFast' = (tooFast /\ ~had)
    /\ hadDdc' = Ddc5v
    /\ counting' = (counting \/ Restarts)
    /\ nudges' = IF Restarts THEN 0 ELSE nudges
    /\ UNCHANGED <<source, cand, mpc, request, loop>>

(* ... and a hotplug is due: ten seconds of silence, then twenty, then     *)
(* forty.  What it makes of the source is the source's affair.             *)
PollNudge ==
    /\ Polling /\ Silent
    /\ ~Restarts
    /\ KnowsDdc5v /\ Ddc5v /\ counting /\ nudges < NudgeMax
    /\ present' = FALSE
    /\ hits' = 0
    /\ nudges' = nudges + 1
    /\ UNCHANGED <<source, cand, had, counting, hadDdc, mpc, tooFast, request, loop>>

(* Too fast for the lanes?  A rate read as 0 keeps the last verdict, which *)
(* happens only while the source settles; a mode that fits after one that  *)
(* did not asks for a restart first.                                       *)
Verdict(fast) ==
    \/ /\ fast \/ ~tooFast \/ ~had
       /\ tooFast' = fast
       /\ mpc' = "differs"
    \/ /\ ~fast /\ tooFast /\ had
       /\ mpc' = "fitH"
       /\ UNCHANGED tooFast
    \/ /\ settling
       /\ mpc' = "differs"
       /\ UNCHANGED tooFast

(* A valid reading counts from the second time on.  (candidate_hits stops  *)
(* at 3 in the code, where 2 and 3 mean the same.)                         *)
PollValid ==
    /\ Polling
    /\ \E r \in Valid :
         IF cand = [h |-> r.h, v |-> r.v] /\ hits > 0
           THEN hits' = 2 /\ Verdict(r.fast) /\ UNCHANGED cand
           ELSE hits' = 1 /\ cand' = [h |-> r.h, v |-> r.v] /\ UNCHANGED <<mpc, tooFast>>
    /\ present' = TRUE
    /\ counting' = FALSE /\ nudges' = 0 /\ hadDdc' = TRUE
    /\ UNCHANGED <<source, had, request, loop>>

(* The picture is back, or the size is not the one the receiver has.       *)
Differs ==
    /\ mpc = "differs"
    /\ had' = TRUE
    /\ mpc' = IF ~had \/ ((cand.h # hres \/ cand.v # vres) /\ ~pending)
                THEN "modeH" ELSE "poll"
    /\ UNCHANGED <<source, cand, hits, quiet, verdict, request, loop>>

(* The request, word by word.                                              *)
Word(from, to) ==
    /\ mpc = from /\ mpc' = to
    /\ UNCHANGED <<source, cand, hits, had, quiet, present, loop>>

PostH(from, to) ==
    Word(from, to) /\ pendH' = cand.h /\ UNCHANGED <<tooFast, pendV, pending, sem>>

PostV(from, to) ==
    Word(from, to) /\ pendV' = cand.v /\ UNCHANGED <<tooFast, pendH, pending, sem>>

PostPending(from, to) ==
    Word(from, to) /\ pending' = TRUE /\ UNCHANGED <<tooFast, pendH, pendV, sem>>

(* After the request of Verdict its verdict is stored.                     *)
PostGive(from, to) ==
    /\ Word(from, to)
    /\ sem' = TRUE
    /\ tooFast' = (tooFast /\ from # "fitGive")
    /\ UNCHANGED <<pendH, pendV, pending>>

Post ==
    \/ PostH("fitH", "fitV") \/ PostV("fitV", "fitPending")
    \/ PostPending("fitPending", "fitGive") \/ PostGive("fitGive", "differs")
    \/ PostH("modeH", "modeV") \/ PostV("modeV", "modePending")
    \/ PostPending("modePending", "modeGive") \/ PostGive("modeGive", "poll")

----------------------------------------------------------------------------
(* The loop: a request of the monitor's.                                   *)

Go(from, to) ==
    /\ lpc = from /\ lpc' = to
    /\ UNCHANGED <<monitor, verdict>>

Top ==
    /\ Go("top", IF pending THEN "wantH" ELSE "wait")
    /\ UNCHANGED <<source, request, wantH, wantV, hres, vres, csi, lock, cool>>

WantH ==
    /\ Go("wantH", "wantV")
    /\ wantH' = pendH
    /\ UNCHANGED <<source, request, wantV, hres, vres, csi, lock, cool>>

WantV ==
    /\ Go("wantV", "clear")
    /\ wantV' = pendV
    /\ UNCHANGED <<source, request, wantH, hres, vres, csi, lock, cool>>

Clear ==
    /\ Go("clear", "apply")
    /\ pending' = FALSE
    /\ UNCHANGED <<source, pendH, pendV, sem, wantH, wantV, hres, vres, csi, lock, cool>>

(* capture_hw_apply_mode: a mode larger than the buffers is refused.       *)
InRange(h, v) == h <= MaxH /\ v <= MaxV

ApplyRefused ==
    /\ Go("apply", "top")
    /\ ~InRange(wantH, wantV)
    /\ cool' = FALSE
    /\ wantH' = 0 /\ wantV' = 0          \* out of scope
    /\ UNCHANGED <<source, request, hres, vres, csi, lock>>

ApplyMode ==
    /\ Go("apply", "hres")
    /\ InRange(wantH, wantV)
    /\ csi' = FALSE
    /\ sem' = FALSE
    /\ cool' = FALSE
    /\ UNCHANGED <<source, pendH, pendV, pending, wantH, wantV, hres, vres, lock>>

(* capture_ctx_reset_ring, then csi_create and the start.                  *)
SetHres ==
    /\ Go("hres", "vres")
    /\ hres' = wantH
    /\ UNCHANGED <<source, request, wantH, wantV, vres, csi, lock, cool>>

SetVres ==
    /\ Go("vres", "create")
    /\ vres' = wantV
    /\ wantH' = 0 /\ wantV' = 0          \* out of scope
    /\ UNCHANGED <<source, request, hres, csi, lock, cool>>

Create ==
    /\ Go("create", "top")
    /\ csi' = TRUE
    /\ stalled' \in (IF src = NoSignal THEN {TRUE}
                     ELSE IF settling THEN BOOLEAN ELSE {FALSE})
    /\ UNCHANGED <<src, settling, power, changes, request, wantH, wantV, hres, vres,
                   lock, cool>>

CreateFails ==
    /\ Go("create", "top")
    /\ UNCHANGED <<source, request, wantH, wantV, hres, vres, csi, lock, cool>>

----------------------------------------------------------------------------
(* The loop: waiting for a frame, and recovering.                          *)

(* A frame, or the monitor's give. *)
Turn ==
    /\ Go("wait", "top")
    /\ sem \/ Delivering
    /\ sem' = FALSE
    /\ cool' = FALSE
    /\ UNCHANGED <<source, pendH, pendV, pending, wantH, wantV, hres, vres, csi, lock>>

(* Nothing for two seconds: no signal is a normal state, a mode that is    *)
(* too fast was reported, and eight seconds lie between two recoveries.    *)
TimedOut == ~sem /\ ~Delivering

WaitOn ==
    /\ Go("wait", "top")
    /\ TimedOut
    /\ ~present \/ tooFast \/ cool
    /\ UNCHANGED <<source, request, wantH, wantV, hres, vres, csi, lock, cool>>

CoolOver ==
    /\ cool
    /\ cool' = FALSE
    /\ UNCHANGED <<source, monitor, verdict, request, lpc, wantH, wantV, hres, vres, csi,
                   lock>>

(* Mutant of Recover: a mode that is too fast is not waited out.           *)
Recover_TooFast ==
    /\ Go("wait", "recover")
    /\ TimedOut
    /\ present /\ ~cool
    /\ csi' = FALSE
    /\ cool' = TRUE
    /\ UNCHANGED <<source, request, wantH, wantV, hres, vres, lock>>

(* Mutant of Recover: the test of the cooldown is the wrong way round.     *)
Recover_Cooling ==
    /\ Go("wait", "recover")
    /\ TimedOut
    /\ present /\ ~tooFast /\ cool
    /\ csi' = FALSE
    /\ cool' = TRUE
    /\ UNCHANGED <<source, request, wantH, wantV, hres, vres, lock>>

(* capture_hw_hdmi_recover *)
Recover ==
    /\ Go("wait", "recover")
    /\ TimedOut
    /\ present /\ ~tooFast /\ ~cool
    /\ csi' = FALSE
    /\ cool' = TRUE
    /\ UNCHANGED <<source, request, wantH, wantV, hres, vres, lock>>

RecoverBusy ==
    /\ Go("recover", "top")
    /\ UNCHANGED <<source, request, wantH, wantV, hres, vres, csi, lock, cool>>

(* With tc_mu: a hotplug or a reset of the chip, up to five seconds for    *)
(* the picture to come ...                                                 *)
RecoverLock ==
    /\ Go("recover", "read")
    /\ lock' = TRUE
    /\ UNCHANGED <<source, request, wantH, wantV, hres, vres, csi, cool>>

(* ... and one reading.                                                    *)
RecoverRead ==
    /\ Go("read", "hres")
    /\ \/ Silent /\ wantH' = hres /\ wantV' = vres
       \/ \E r \in Valid : wantH' = r.h /\ wantV' = r.v
    /\ lock' = FALSE
    /\ UNCHANGED <<source, request, hres, vres, csi, cool>>

----------------------------------------------------------------------------
(* capture_hw_init_start: the receiver starts in the mode the source       *)
(* sends, or at the maximum.                                               *)
Init ==
    /\ src \in Signals \cup {NoSignal} /\ settling = FALSE
    /\ power \in (IF src = NoSignal THEN BOOLEAN ELSE {TRUE})
    /\ stalled = (src = NoSignal) /\ changes = 0
    /\ present = (src # NoSignal /\ InRange(src.h, src.v))
    /\ hres = IF present THEN src.h ELSE MaxH
    /\ vres = IF present THEN src.v ELSE MaxV
    /\ cand = [h |-> 0, v |-> 0] /\ hits = 0 /\ had = present
    /\ counting = ~had /\ nudges = 0 /\ hadDdc = FALSE
    /\ mpc = "poll"
    /\ tooFast = FALSE
    /\ pendH = 0 /\ pendV = 0 /\ pending = FALSE /\ sem = FALSE
    /\ lpc = "top" /\ wantH = 0 /\ wantV = 0
    /\ csi = TRUE /\ lock = FALSE /\ cool = FALSE

Poll == PollSilent \/ PollValid

Monitor == Differs \/ Post

Loop ==
    \/ Top \/ WantH \/ WantV \/ Clear \/ ApplyRefused \/ ApplyMode
    \/ SetHres \/ SetVres \/ Create \/ CreateFails
    \/ Turn \/ WaitOn \/ Recover \/ RecoverBusy \/ RecoverLock \/ RecoverRead

Next ==
    \/ SourceChange \/ Settle \/ Poll \/ PollNudge \/ Monitor \/ Loop \/ CoolOver

Spec == Init /\ [][Next]_vars

(* Both tasks are scheduled, a source that stops changing settles, and     *)
(* time passes; a poll does not fail for ever (the loop gives tc_mu back), *)
(* nor does building the receiver or taking tc_mu for a recovery.          *)
FairSpec ==
    /\ Spec
    /\ WF_vars(Settle) /\ SF_vars(Poll) /\ WF_vars(Monitor)
    /\ WF_vars(Loop) /\ SF_vars(Create) /\ SF_vars(RecoverLock) /\ WF_vars(CoolOver)

(* ... and a hotplug that stays due is given.                              *)
NudgeSpec == FairSpec /\ SF_vars(PollNudge)

----------------------------------------------------------------------------
(* Properties.                                                             *)

Hs == {s.h : s \in Signals} \cup {0, MaxH}
Vs == {s.v : s \in Signals} \cup {0, MaxV}

SourceOK ==
    /\ src \in Signals \cup {NoSignal} /\ changes \in 0 .. MaxChanges
    /\ settling \in BOOLEAN /\ power \in BOOLEAN /\ stalled \in BOOLEAN

MonitorOK ==
    /\ cand \in [h : Hs, v : Vs] /\ hits \in 0 .. 2
    /\ had \in BOOLEAN /\ counting \in BOOLEAN /\ hadDdc \in BOOLEAN
    /\ nudges \in 0 .. NudgeMax
    /\ mpc \in {"poll", "differs", "fitH", "fitV", "fitPending", "fitGive",
                "modeH", "modeV", "modePending", "modeGive"}
    /\ present \in BOOLEAN /\ tooFast \in BOOLEAN

LoopOK ==
    /\ pendH \in Hs /\ pendV \in Vs /\ pending \in BOOLEAN /\ sem \in BOOLEAN
    /\ lpc \in {"top", "wait", "wantH", "wantV", "clear", "apply", "hres", "vres",
                "create", "recover", "read"}
    /\ wantH \in Hs /\ wantV \in Vs /\ hres \in Hs /\ vres \in Vs
    /\ csi \in BOOLEAN /\ lock \in BOOLEAN /\ cool \in BOOLEAN

TypeOK == SourceOK /\ MonitorOK /\ LoopOK

(* Whatever was lost, torn or misread on the way - a request overwritten   *)
(* while the loop takes it, a picture gone and back between two polls, a   *)
(* failed rebuild, a nonsense reading, a verdict of too fast - once the    *)
(* source stays with a mode that fits, its frames come in for good.        *)
ModeFollowed ==
    <>[](src # NoSignal /\ InRange(src.h, src.v) /\ ~src.fast) => <>[]Delivering

(* "No signal is a normal state, not a fault" (capture_loop.c), and a mode *)
(* that is too fast is said once and waited out (capture_hw.c): neither    *)
(* has the loop recover for ever.                                          *)
LeftAlone ==
    <>[](src = NoSignal \/ src.fast) => <>[](lpc \notin {"recover", "read"})

(* "The buffers are sized for CAPTURE_MAX; a bigger mode [...] would be    *)
(* written past them" (capture_hw.c): the receiver never runs in one.      *)
FitsBuffers == csi => InRange(hres, vres)

(* A source that is on and sends no picture is offered its hotplugs: "ten  *)
(* seconds of silence, then twenty, then forty" (capture_hw.c).            *)
SilenceNudged ==
    KnowsDdc5v /\ <>[](src = NoSignal /\ power) => <>[](nudges = NudgeMax)
=============================================================================
