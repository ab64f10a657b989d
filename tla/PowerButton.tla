---------------------------- MODULE PowerButton -----------------------------
(***************************************************************************)
(* The front-panel buttons (kvm_atx.c): a queue of commands, the task that *)
(* presses a pin for each, and kvm_atx_apply, which takes the pins into    *)
(* use again whenever one of the settings changes.                         *)
(*                                                                         *)
(* A wiring says which pin is which button; the settings may move them,    *)
(* swap them or turn the part off.  A pin is down while it presses.  Left  *)
(* out: the two LEDs (read only) and the lengths of the presses.           *)
(***************************************************************************)
EXTENDS Integers, Sequences

CONSTANTS
    AtxPins,        \* the pins a wiring can use
    AtxDepth        \* length of s_cmd_q

ASSUME AtxAssumption == AtxDepth \in Nat \ {0} /\ 0 \notin AtxPins

VARIABLES
    atxSet,         \* the settings: a wiring or Off
    atxCfg,         \* s_cfg: a wiring or Off
    atxQ,           \* s_cmd_q
    apply,          \* kvm_atx_apply in the settings' task: [pc, want]
    press,          \* atx_task: [pc, cmd, pin]
    atxDown,        \* the pins that are down
    opHeld,         \* s_op_mtx: who holds it
    cut            \* history: a press ended before its time, or began on a wrong pin

atxVars == <<atxSet, atxCfg, atxQ, apply, press, atxDown, opHeld, cut>>

Commands  == {"click", "hold", "reset"}
Off       == [power |-> 0, reset |-> 0]
Wirings   == {w \in [power : AtxPins, reset : AtxPins] : w.power # w.reset} \cup {Off}
PinOf(w, cmd) == IF cmd = "reset" THEN w.reset ELSE w.power
PinsOf(w) == {w.power, w.reset} \ {0}
NoPress   == [pc |-> "idle", cmd |-> "click", pin |-> 0]
NoApply   == [pc |-> "idle", want |-> Off]

----------------------------------------------------------------------------
(* queue_cmd: refused while off, dropped when the queue is full.           *)
QueueCmd ==
    /\ atxCfg # Off /\ Len(atxQ) < AtxDepth
    /\ \E c \in Commands : atxQ' = Append(atxQ, c)
    /\ UNCHANGED <<atxSet, atxCfg, apply, press, atxDown, opHeld, cut>>

(* A setting changes, and kvm_atx_apply reads them all.                    *)
SetAtx ==
    /\ apply.pc = "idle"
    /\ \E w \in Wirings : atxSet' = w /\ apply' = [pc |-> "wait", want |-> w]
    /\ UNCHANGED <<atxCfg, atxQ, press, atxDown, opHeld, cut>>

(* Mutant of ApplyTake: the press in flight is not waited for.             *)
ApplyTake_NoWait ==
    /\ apply.pc = "wait"
    /\ apply' = [apply EXCEPT !.pc = "release"]
    /\ UNCHANGED <<atxSet, atxCfg, atxQ, press, atxDown, opHeld, cut>>

ApplyTake ==
    /\ apply.pc = "wait" /\ opHeld = "none"
    /\ opHeld' = "apply"
    /\ apply' = [apply EXCEPT !.pc = "release"]
    /\ UNCHANGED <<atxSet, atxCfg, atxQ, press, atxDown, cut>>

(* The pins used so far become inputs.                                     *)
ApplyRelease ==
    /\ apply.pc = "release"
    /\ atxDown' = atxDown \ PinsOf(atxCfg)
    /\ cut' = (cut \/ (press.pc = "hold" /\ press.pin \in PinsOf(atxCfg)))
    /\ atxCfg' = Off
    /\ apply' = [apply EXCEPT !.pc = "configure"]
    /\ UNCHANGED <<atxSet, atxQ, press, opHeld>>

(* The new ones become outputs at their idle level; a pin that cannot be   *)
(* set up leaves the part off.                                             *)
ApplyConfigure ==
    /\ apply.pc = "configure"
    /\ atxCfg' \in {apply.want, Off}
    /\ atxDown' = atxDown \ PinsOf(apply.want)
    /\ cut' = (cut \/ (press.pc = "hold" /\ press.pin \in PinsOf(apply.want)))
    /\ opHeld' = IF opHeld = "apply" THEN "none" ELSE opHeld
    /\ apply' = NoApply
    /\ UNCHANGED <<atxSet, atxQ, press>>

(* atx_task: the command is taken off the queue before the lock.           *)
PressReceive ==
    /\ press.pc = "idle" /\ atxQ # <<>>
    /\ press' = [press EXCEPT !.pc = "wait", !.cmd = Head(atxQ)]
    /\ atxQ' = Tail(atxQ)
    /\ UNCHANGED <<atxSet, atxCfg, apply, atxDown, opHeld, cut>>

PressTake ==
    /\ press.pc = "wait" /\ opHeld = "none"
    /\ opHeld' = "press"
    /\ press' = [press EXCEPT !.pc = "snapshot"]
    /\ UNCHANGED <<atxSet, atxCfg, atxQ, apply, atxDown, cut>>

(* Turned off since it was queued: dropped.                                *)
PressSnapshot ==
    /\ press.pc = "snapshot"
    /\ IF atxCfg = Off
         THEN press' = NoPress /\ opHeld' = "none"
         ELSE /\ press' = [press EXCEPT !.pc = "drive", !.pin = PinOf(atxCfg, press.cmd)]
              /\ UNCHANGED opHeld
    /\ UNCHANGED <<atxSet, atxCfg, atxQ, apply, atxDown, cut>>

PressDrive ==
    /\ press.pc = "drive"
    /\ atxDown' = atxDown \cup {press.pin}
    /\ cut' = (cut \/ atxCfg = Off \/ press.pin # PinOf(atxCfg, press.cmd))
    /\ press' = [press EXCEPT !.pc = "hold"]
    /\ UNCHANGED <<atxSet, atxCfg, atxQ, apply, opHeld>>

PressRelease ==
    /\ press.pc = "hold"
    /\ atxDown' = atxDown \ {press.pin}
    /\ press' = [press EXCEPT !.pc = "settle"]
    /\ UNCHANGED <<atxSet, atxCfg, atxQ, apply, opHeld, cut>>

PressSettle ==
    /\ press.pc = "settle"
    /\ opHeld' = "none" /\ press' = NoPress
    /\ UNCHANGED <<atxSet, atxCfg, atxQ, apply, atxDown, cut>>

----------------------------------------------------------------------------
AtxInit ==
    /\ atxSet = Off /\ atxCfg = Off /\ atxQ = <<>> /\ apply = NoApply /\ press = NoPress
    /\ atxDown = {} /\ opHeld = "none" /\ cut = FALSE

AtxNext ==
    \/ QueueCmd \/ SetAtx \/ ApplyTake \/ ApplyRelease \/ ApplyConfigure
    \/ PressReceive \/ PressTake \/ PressSnapshot \/ PressDrive \/ PressRelease \/ PressSettle

AtxSpec == AtxInit /\ [][AtxNext]_atxVars

----------------------------------------------------------------------------
(* atx_task and kvm_atx_apply: a press once begun lasts its time, on the   *)
(* pin that is its button in the wiring in use, whenever the settings move *)
(* the pins; no other pin is ever down.  "a reconfigure never resets a     *)
(* GPIO that the worker is mid-hold on".                                   *)
PressWhole ==
    /\ ~cut
    /\ atxDown = IF press.pc = "hold" THEN {press.pin} ELSE {}
=============================================================================
