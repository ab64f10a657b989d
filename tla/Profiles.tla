------------------------------ MODULE Profiles ------------------------------
(***************************************************************************)
(* Settings and device profiles: kvm_settings.c (a setting's value, the    *)
(* overlay of the active profile, what flash holds), kvm_profiles.c and    *)
(* profile_match.c (the profiles, which one is active and whether by       *)
(* hand), profile_auto.c (the task that picks the profile of the attached  *)
(* device and restarts for it).                                            *)
(*                                                                         *)
(* One setting stands for those a profile may hold and that take effect at *)
(* boot.  A call that holds the profiles' lock is the list `todo' of what  *)
(* it still has to do, one write to flash at a time: power can go between  *)
(* any two, and the readers that take no lock see what is done so far.     *)
(* A device shows nothing, the system guessed from USB, or that and its    *)
(* CEC name, which does not change.  Names of profiles, presets, the       *)
(* welcome questions, strings and JSON are left out; flash writes succeed. *)
(***************************************************************************)
EXTENDS Integers, Sequences

CONSTANTS
    ProfilesMax,    \* KVM_PROFILES_MAX
    Values,         \* the values of the setting
    Def,            \* its default
    Devices,        \* what can be attached: [cec, os]
    Rules,          \* the match of a profile: [cec, os]
    Earlier,        \* the profiles an earlier life left: a set of functions
    RestartsMax,    \* restarts for a profile in a row
    MaxCalls        \* bound on the console's calls

ASSUME ProfilesAssumption ==
    /\ Def \in Values /\ ProfilesMax \in Nat /\ RestartsMax \in Nat /\ MaxCalls \in Nat
    /\ Devices \subseteq [cec : STRING, os : STRING]
    /\ Rules \subseteq [cec : STRING, os : STRING]
    /\ Earlier \subseteq [1..ProfilesMax -> [used : BOOLEAN, set : Values \cup {-1},
                                            rule : [cec : STRING, os : STRING]]]

VARIABLES
    base, over,     \* s_values, s_over (NoVal: s_over_set is false)
    prof,           \* s_p
    active, byHand, \* s_active, s_manual
    seenFp,         \* s_seen_fp
    nv,             \* flash: [base, prof, active, byHand, seen, restarts, cec]
    todo,           \* what the holder of the profiles' lock has left to do
    web,            \* the console's call outside that lock: [pc, v]
    auto,           \* the task of profile_auto.c: [pc, last, still, acted, same, id]
    bootVal, bootProf,  \* s_boot_val, s_boot_profile
    dev,            \* environment: the device attached
    calls,          \* the console's calls so far
    strayed,        \* history: the overlay was loaded while a call was storing a value
    hand,           \* history: the last choice by hand, made while the task was not at work
    undone,         \* history: the choices by hand the task changed for the same device
    inRow           \* history: restarts for a profile since a person or calm came in

keepVars == <<base, over, prof, active, byHand, seenFp, todo, web>>
profVars == <<keepVars, nv, auto, bootVal, bootProf, dev, calls, strayed, hand, undone, inRow>>

Slots   == 1..ProfilesMax
NoVal   == -1
Nobody  == [cec |-> "", os |-> ""]
Unused  == [used |-> FALSE, set |-> NoVal, rule |-> Nobody]
NoHand  == [fp |-> Nobody, id |-> 0]
WebIdle == [pc |-> "idle", v |-> Def]
AutoIdle == [pc |-> "idle", last |-> Nobody, still |-> 0, acted |-> Nobody, same |-> FALSE, id |-> 0]
Fresh   == [base |-> Def, prof |-> [i \in Slots |-> Unused], active |-> 0, byHand |-> FALSE,
            seen |-> Nobody, restarts |-> 0, cec |-> ""]
Looks(d) == {Nobody, [d EXCEPT !.cec = ""], d}

LockFree == todo = <<>>

(* A restart decided before the reset is not one of the next row.          *)
StartAgain == IF auto.pc \in {"cec", "restart"} THEN -1 ELSE 0

EffOf(b, o) == IF o = NoVal THEN b ELSE o
Eff     == EffOf(base, over)

(* kvm_prof_rule_score and kvm_prof_pick: CEC counts two, USB one.         *)
Score(r, look) ==
    IF (r.cec # "" /\ r.cec # look.cec) \/ (r.os # "" /\ r.os # look.os) THEN 0
    ELSE (IF r.cec = "" THEN 0 ELSE 2) + (IF r.os = "" THEN 0 ELSE 1)

ScoreOf(i, look) == IF prof[i].used THEN Score(prof[i].rule, look) ELSE 0

Pick(look) ==
    LET fits == {i \in Slots : ScoreOf(i, look) > 0}
    IN  IF fits = {} THEN 0
        ELSE CHOOSE i \in fits : \A j \in fits :
                \/ ScoreOf(i, look) > ScoreOf(j, look)
                \/ ScoreOf(i, look) = ScoreOf(j, look) /\ i <= j

(* profiles_init, and the values as kvm_settings_init loads them: what a   *)
(* boot makes of flash.                                                    *)
BootActive(n) == IF n.active # 0 /\ n.prof[n.active].used THEN n.active ELSE 0
BootOver(n)   == IF BootActive(n) = 0 THEN NoVal ELSE n.prof[BootActive(n)].set
BootEff(n)    == EffOf(n.base, BootOver(n))

Booted(n) ==
    /\ base' = n.base /\ over' = BootOver(n) /\ prof' = n.prof
    /\ active' = BootActive(n) /\ byHand' = (BootActive(n) # 0 /\ n.byHand)
    /\ seenFp' = Nobody /\ todo' = <<>> /\ web' = WebIdle /\ auto' = AutoIdle
    /\ bootVal' = BootEff(n) /\ bootProf' = BootActive(n)
    /\ strayed' = FALSE

----------------------------------------------------------------------------
(* Under the profiles' lock.  A step of todo is a record with its kind.    *)
Switch(id, h) == [do |-> "switch", id |-> id, hand |-> h]
Overlay  == [do |-> "overlay", id |-> 0, hand |-> FALSE]
Active   == [do |-> "active", id |-> 0, hand |-> FALSE]
Hold     == [do |-> "hold", id |-> 0, hand |-> FALSE]
Save(id) == [do |-> "save", id |-> id, hand |-> FALSE]
Drop(id) == [do |-> "drop", id |-> id, hand |-> FALSE]
Erase    == [do |-> "erase", id |-> 0, hand |-> FALSE]

(* The task has looked at s_manual, or is about to.                        *)
Deciding == auto.pc \in {"ask", "pick", "select"}

Doing(kind) ==
    /\ todo # <<>> /\ Head(todo).do = kind
    /\ todo' = Tail(todo)
    /\ UNCHANGED <<auto, bootVal, bootProf, dev, calls, undone>>

(* switch_to: s_active first ...                                           *)
DoSwitch ==
    /\ Doing("switch")
    /\ active' = Head(todo).id /\ byHand' = Head(todo).hand
    /\ hand' = NoHand
    /\ UNCHANGED <<base, over, prof, seenFp, nv, web, strayed, inRow>>

(* ... then settings_overlay_load, under the settings' lock.               *)
DoOverlay ==
    /\ Doing("overlay")
    /\ over' = IF active = 0 THEN NoVal ELSE prof[active].set
    /\ strayed' = (strayed \/ web.pc = "store")
    /\ UNCHANGED <<base, prof, active, byHand, seenFp, nv, web, hand, inRow>>

(* save_active: write_active's first key, which is not written when it has *)
(* the value already ...                                                   *)
DoActive ==
    /\ todo # <<>> /\ Head(todo) = Active /\ nv.active # active
    /\ nv' = [nv EXCEPT !.active = active]
    /\ UNCHANGED <<keepVars, auto, bootVal, bootProf, dev, calls, strayed, hand, undone, inRow>>

(* ... and its second.                                                     *)
DoManual ==
    /\ Doing("active") /\ nv.active = active
    /\ nv' = [nv EXCEPT !.byHand = byHand]
    /\ UNCHANGED <<base, over, prof, active, byHand, seenFp, web, strayed, hand, inRow>>

(* hold_for_this_device, the last write of a choice by hand.               *)
DoHold ==
    /\ Doing("hold")
    /\ nv' = IF seenFp = Nobody THEN nv ELSE [nv EXCEPT !.seen = seenFp]
    /\ hand' = IF Deciding THEN NoHand ELSE [fp |-> seenFp, id |-> active]
    /\ UNCHANGED <<base, over, prof, active, byHand, seenFp, web, strayed, inRow>>

DoSave ==
    /\ Doing("save")
    /\ nv' = [nv EXCEPT !.prof[Head(todo).id] = prof[Head(todo).id]]
    /\ UNCHANGED <<base, over, prof, active, byHand, seenFp, web, strayed, hand, inRow>>

DoDrop ==
    /\ Doing("drop")
    /\ prof' = [prof EXCEPT ![Head(todo).id] = Unused]
    /\ UNCHANGED <<base, over, active, byHand, seenFp, nv, web, strayed, hand, inRow>>

(* profiles_reset's nvs_erase_all.                                         *)
DoErase ==
    /\ Doing("erase")
    /\ nv' = [Fresh EXCEPT !.base = nv.base]
    /\ hand' = NoHand /\ inRow' = StartAgain
    /\ UNCHANGED <<base, over, prof, active, byHand, seenFp, web, strayed>>

----------------------------------------------------------------------------
(* The console's calls, one at a time in the web server's task.            *)
Call == web.pc = "idle" /\ LockFree /\ calls < MaxCalls /\ calls' = calls + 1

CallUnchanged ==
    UNCHANGED <<base, over, active, byHand, seenFp, nv, web, auto, bootVal, bootProf, dev,
                strayed, hand, undone, inRow>>

(* kvm_profiles_create: empty, with a value of its own, or a copy of the   *)
(* active one.                                                             *)
CreateProfile(rule, v, select) ==
    /\ Call
    /\ \E i \in Slots :
         /\ ~prof[i].used /\ \A j \in 1..(i - 1) : prof[j].used
         /\ prof' = [prof EXCEPT ![i] = [used |-> TRUE, set |-> v, rule |-> rule]]
         /\ todo' = <<Save(i)>> \o
                    (IF select THEN <<Switch(i, TRUE), Overlay, Active, Hold>> ELSE <<>>)
    /\ CallUnchanged

OwnValues == Values \cup {NoVal} \cup (IF active = 0 THEN {} ELSE {prof[active].set})

UpdateProfile(i, rule, v) ==
    /\ Call /\ prof[i].used
    /\ prof' = [prof EXCEPT ![i].set = v, ![i].rule = rule]
    /\ todo' = <<Save(i)>> \o (IF i = active THEN <<Overlay>> ELSE <<>>)
    /\ CallUnchanged

(* Mutant of DeleteProfile: the profile goes before the choice of it.      *)
DeleteProfile_EraseFirst(i) ==
    /\ Call /\ prof[i].used
    /\ todo' = <<Drop(i), Save(i)>> \o
               (IF i = active THEN <<Switch(0, FALSE), Overlay, Active>> ELSE <<>>)
    /\ UNCHANGED prof /\ CallUnchanged

DeleteProfile(i) ==
    /\ Call /\ prof[i].used
    /\ todo' = (IF i = active THEN <<Switch(0, FALSE), Overlay, Active>> ELSE <<>>) \o
               <<Drop(i), Save(i)>>
    /\ UNCHANGED prof /\ CallUnchanged

Usable(id) == id = 0 \/ (id \in Slots /\ prof[id].used)

(* kvm_profiles_select.                                                    *)
Selecting(id, h) ==
    IF id = active /\ h = byHand THEN <<>>
    ELSE <<Switch(id, h)>> \o (IF id # active THEN <<Overlay>> ELSE <<>>) \o <<Active>> \o
         (IF h THEN <<Hold>> ELSE <<>>)

SelectByHand(id) ==
    /\ Call /\ Usable(id)
    /\ Selecting(id, TRUE) # <<>>
    /\ todo' = Selecting(id, TRUE)
    /\ UNCHANGED prof /\ CallUnchanged

(* kvm_setting_set_int, under the settings' lock: where the value goes is  *)
(* decided by the profile active now.                                      *)
SetValue(v) ==
    /\ web.pc = "idle" /\ calls < MaxCalls /\ calls' = calls + 1
    /\ web' = IF Eff = v THEN WebIdle
              ELSE [pc |-> IF active = 0 THEN "persist" ELSE "store", v |-> v]
    /\ IF active = 0 THEN base' = v /\ UNCHANGED over
       ELSE over' = (IF Eff = v THEN over ELSE v) /\ UNCHANGED base
    /\ strayed' = (strayed \/ \E k \in DOMAIN todo : todo[k].do = "overlay")
    /\ UNCHANGED <<prof, active, byHand, seenFp, nv, todo, auto, bootVal, bootProf, dev,
                   hand, undone, inRow>>

WebUnchanged ==
    UNCHANGED <<active, byHand, seenFp, auto, bootVal, bootProf, dev, calls, strayed,
                undone, inRow>>

PersistValue ==
    /\ web.pc = "persist"
    /\ nv' = [nv EXCEPT !.base = web.v]
    /\ web' = WebIdle
    /\ UNCHANGED <<base, over, prof, todo, hand>> /\ WebUnchanged

(* profiles_store: into the profile that is active by now.                 *)
StoreValue ==
    /\ web.pc = "store" /\ LockFree
    /\ IF active = 0 THEN UNCHANGED <<prof, todo>>
       ELSE prof' = [prof EXCEPT ![active].set = web.v] /\ todo' = <<Save(active)>>
    /\ web' = WebIdle
    /\ UNCHANGED <<base, over, nv, hand>> /\ WebUnchanged

(* kvm_settings_reset: the settings' flash, the profiles, the values.      *)
ResetFlash ==
    /\ Call
    /\ nv' = [nv EXCEPT !.base = Def]
    /\ web' = [WebIdle EXCEPT !.pc = "profiles"]
    /\ UNCHANGED <<base, over, prof, active, byHand, seenFp, todo, auto, bootVal, bootProf, dev,
                   strayed, hand, undone, inRow>>

ResetProfiles ==
    /\ web.pc = "profiles" /\ LockFree
    /\ prof' = Fresh.prof /\ active' = 0 /\ byHand' = FALSE
    /\ todo' = <<Erase>>
    /\ web' = [web EXCEPT !.pc = "values"]
    /\ UNCHANGED <<base, over, seenFp, nv, auto, bootVal, bootProf, dev, calls, strayed,
                   hand, undone, inRow>>

ResetValues ==
    /\ web.pc = "values" /\ LockFree
    /\ base' = Def /\ over' = NoVal
    /\ web' = WebIdle
    /\ UNCHANGED <<prof, nv, todo, hand>> /\ WebUnchanged

----------------------------------------------------------------------------
(* profile_auto.c.  "still" is 0, then 1 from SETTLE_S and 2 from          *)
(* RESTART_STILL_S seconds on.                                             *)
AutoAt(pc) == auto.pc = pc /\ UNCHANGED <<calls, dev, strayed, web>>

AutoUnchanged == UNCHANGED <<base, over, prof, active, byHand>>

(* One second: look, and note what was seen.                               *)
AutoTick(look) ==
    /\ AutoAt("idle") /\ LockFree
    /\ \E i \in Slots : prof[i].used
    /\ seenFp' = look
    /\ IF look # auto.last
         THEN auto' = [auto EXCEPT !.last = look, !.still = 0]
         ELSE LET s == IF auto.still = 2 THEN 2 ELSE auto.still + 1
              IN  IF look # Nobody /\ look # auto.acted
                  THEN auto' = [auto EXCEPT !.still = s, !.acted = look, !.pc = "ask"]
                  ELSE auto' = [auto EXCEPT !.still = s, !.pc = "values"]
    /\ UNCHANGED <<nv, todo, bootVal, bootProf, hand, undone, inRow>> /\ AutoUnchanged

(* kvm_profiles_device_settled.  restarts_new_source starts the count      *)
(* again; s_manual is read without the lock.                               *)
NewSource(look) == look.cec # "" /\ nv.cec # "" /\ nv.cec # look.cec

(* Mutant of AutoAsk: every device that settles is taken for a new one.    *)
AutoAsk_Afresh ==
    /\ AutoAt("ask")
    /\ auto' = [auto EXCEPT !.pc = "pick", !.same = FALSE]
    /\ hand' = IF nv.seen = auto.last THEN hand ELSE NoHand
    /\ nv' = [nv EXCEPT !.seen = auto.last,
                        !.restarts = IF NewSource(auto.last) THEN 0 ELSE @]
    /\ UNCHANGED <<seenFp, todo, bootVal, bootProf, undone, inRow>> /\ AutoUnchanged

AutoAsk ==
    /\ AutoAt("ask")
    /\ LET same == nv.seen = auto.last
       IN  /\ auto' = IF same /\ byHand THEN [auto EXCEPT !.pc = "values"]
                      ELSE [auto EXCEPT !.pc = "pick", !.same = same]
           /\ hand' = IF same THEN hand ELSE NoHand
    /\ nv' = [nv EXCEPT !.seen = auto.last,
                        !.restarts = IF NewSource(auto.last) THEN 0 ELSE @]
    /\ UNCHANGED <<seenFp, todo, bootVal, bootProf, undone, inRow>> /\ AutoUnchanged

AutoPick ==
    /\ AutoAt("pick") /\ LockFree
    /\ LET id == Pick(auto.last)
       IN  auto' = IF auto.same /\ id = active
                   THEN [auto EXCEPT !.pc = "values", !.same = FALSE]
                   ELSE [auto EXCEPT !.pc = "select", !.id = id]
    /\ UNCHANGED <<seenFp, nv, todo, bootVal, bootProf, hand, undone, inRow>> /\ AutoUnchanged

AutoSelect ==
    /\ AutoAt("select") /\ LockFree
    /\ todo' = IF Usable(auto.id) THEN Selecting(auto.id, FALSE) ELSE <<>>
    /\ undone' = undone \cup
                 (IF Usable(auto.id) /\ auto.id # active /\ hand.fp = auto.last
                  THEN {hand.id} ELSE {})
    /\ auto' = [auto EXCEPT !.pc = "values", !.same = FALSE, !.id = 0]
    /\ UNCHANGED <<seenFp, nv, bootVal, bootProf, hand, inRow>> /\ AutoUnchanged

(* A value moved by hand in the profile of the boot is not the task's to   *)
(* restart for, nor is a choice by hand.                                   *)
AutoValues ==
    /\ AutoAt("values") /\ LockFree
    /\ bootVal' = IF active = bootProf THEN Eff ELSE bootVal
    /\ auto' = [auto EXCEPT !.pc = IF auto.still = 2 /\ ~byHand /\ Eff # bootVal'
                                   THEN "allow" ELSE "idle"]
    /\ UNCHANGED <<seenFp, nv, todo, bootProf, hand, undone, inRow>> /\ AutoUnchanged

(* Mutant of AutoAllow: the count is read from 0 at every boot.            *)
AutoAllow_PerBoot ==
    /\ AutoAt("allow")
    /\ auto' = [auto EXCEPT !.pc = "cec"]
    /\ nv' = [nv EXCEPT !.restarts = 1]
    /\ UNCHANGED <<bootVal, bootProf, seenFp, todo, hand, undone, inRow>> /\ AutoUnchanged

(* kvm_profiles_restart_allowed: counted before the restart; refused, the  *)
(* values are taken as they are.                                           *)
AutoAllow ==
    /\ AutoAt("allow")
    /\ IF nv.restarts >= RestartsMax
         THEN /\ auto' = [auto EXCEPT !.pc = "idle"]
              /\ bootVal' = Eff /\ bootProf' = active
              /\ UNCHANGED nv
         ELSE /\ auto' = [auto EXCEPT !.pc = "cec"]
              /\ nv' = [nv EXCEPT !.restarts = @ + 1]
              /\ UNCHANGED <<bootVal, bootProf>>
    /\ UNCHANGED <<seenFp, todo, hand, undone, inRow>> /\ AutoUnchanged

AutoCec ==
    /\ AutoAt("cec") /\ LockFree
    /\ nv' = [nv EXCEPT !.cec = seenFp.cec]
    /\ auto' = [auto EXCEPT !.pc = "restart"]
    /\ UNCHANGED <<seenFp, todo, bootVal, bootProf, hand, undone, inRow>> /\ AutoUnchanged

AutoRestart ==
    /\ auto.pc = "restart"
    /\ Booted(nv)
    /\ inRow' = inRow + 1
    /\ UNCHANGED <<nv, dev, calls, hand, undone>>

(* kvm_profiles_uptime_ok, five minutes after a boot.                      *)
Calm ==
    /\ AutoAt("idle")
    /\ nv.restarts # 0
    /\ nv' = [nv EXCEPT !.restarts = 0]
    /\ inRow' = 0
    /\ UNCHANGED <<seenFp, auto, todo, bootVal, bootProf, hand, undone>> /\ AutoUnchanged

----------------------------------------------------------------------------
(* The environment.                                                        *)
ProfCrash ==
    /\ Booted(nv)
    /\ UNCHANGED <<nv, dev, calls, hand, undone, inRow>>

(* Not within a turn of the task, which is milliseconds: its restart would *)
(* be counted to the next device.                                          *)
Swap ==
    /\ auto.pc = "idle"
    /\ \E d \in Devices \ {dev} : dev' = d
    /\ inRow' = 0
    /\ UNCHANGED <<keepVars, nv, auto, bootVal, bootProf, calls, strayed, hand, undone>>

----------------------------------------------------------------------------
(* Flash as an earlier life left it.                                       *)
ProfInit ==
    \E p \in Earlier :
        LET n == [Fresh EXCEPT !.prof = p]
        IN  /\ nv = n
            /\ base = n.base /\ over = NoVal /\ prof = p /\ active = 0 /\ byHand = FALSE
            /\ seenFp = Nobody /\ todo = <<>> /\ web = WebIdle /\ auto = AutoIdle
            /\ bootVal = n.base /\ bootProf = 0
            /\ dev \in Devices
            /\ calls = 0 /\ strayed = FALSE /\ hand = NoHand /\ undone = {} /\ inRow = 0

ProfNext ==
    \/ DoSwitch \/ DoOverlay \/ DoActive \/ DoManual \/ DoHold \/ DoSave \/ DoDrop \/ DoErase
    \/ \E r \in Rules, v \in OwnValues, s \in BOOLEAN : CreateProfile(r, v, s)
    \/ \E i \in Slots, r \in Rules, v \in Values \cup {NoVal} : UpdateProfile(i, r, v)
    \/ \E i \in Slots : DeleteProfile(i)
    \/ \E id \in 0..ProfilesMax : SelectByHand(id)
    \/ \E v \in Values : SetValue(v)
    \/ PersistValue \/ StoreValue \/ ResetFlash \/ ResetProfiles \/ ResetValues
    \/ \E look \in Looks(dev) : AutoTick(look)
    \/ AutoAsk \/ AutoPick \/ AutoSelect \/ AutoValues
    \/ AutoAllow \/ AutoCec \/ AutoRestart \/ Calm
    \/ ProfCrash \/ Swap

ProfSpec == ProfInit /\ [][ProfNext]_profVars

----------------------------------------------------------------------------
(* kvm_profiles.c, kvm_settings.c: between two calls, what is in effect is *)
(* what a boot would make of flash: the profile, whether by hand, and the  *)
(* value; power may go at any write.  Not when the profile changed under a *)
(* call that was storing a value.                                          *)
BootKeeps ==
    LockFree /\ web.pc = "idle" /\ ~strayed =>
        /\ prof = nv.prof /\ base = nv.base
        /\ active = BootActive(nv) /\ (active # 0 => byHand = nv.byHand)
        /\ Eff = BootEff(nv)

(* profile_auto.c's "never more than twice in a row": with one device      *)
(* attached and no calm in between.                                        *)
TwoRestarts == inRow <= RestartsMax

(* profile_auto.c's "so a restart, or a profile chosen by hand, does not   *)
(* undo itself": the task leaves a choice by hand alone until another      *)
(* device comes.                                                           *)
HandHolds == undone = {}

(* The same of a profile of one's own: only Default is ever given up.      *)
OwnHolds == undone \subseteq {0}
=============================================================================
