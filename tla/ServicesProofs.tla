--------------------------- MODULE ServicesProofs ---------------------------
(***************************************************************************)
(* Proofs about the services around the video pipeline: the power button,  *)
(* the WebRTC sessions, the virtual media, the runbooks, the schedule, the *)
(* keyboard and mouse, the dashcam on the card and the alerts.  Each part  *)
(* has the inductive invariant of its service and the theorems that        *)
(* follow.                                                                 *)
(***************************************************************************)
EXTENDS PowerButton, WebrtcSessions, VirtualMedia, Runbook, Scheduler, HidInput,
        ClipSegments, Alerts, FiniteSetTheorems, SequenceTheorems, TLAPS

----------------------------------------------------------------------------
(* PowerButton.  s_op_mtx is held by the task that presses or by the one   *)
(* that moves the pins, never by both, and the pin that is down is the     *)
(* button's in the wiring in use.                                          *)

AtxTypes ==
    /\ atxCfg \in Wirings /\ atxQ \in Seq(Commands)
    /\ apply \in [pc : {"idle", "wait", "release", "configure"}, want : Wirings]
    /\ press \in [pc : {"idle", "wait", "snapshot", "drive", "hold", "settle"},
                  cmd : Commands, pin : AtxPins \cup {0}]
    /\ opHeld \in {"none", "apply", "press"}
    /\ cut \in BOOLEAN

OpInv ==
    /\ press.pc \in {"snapshot", "drive", "hold", "settle"} <=> opHeld = "press"
    /\ apply.pc \in {"release", "configure"} <=> opHeld = "apply"

PinInv ==
    press.pc \in {"drive", "hold"} => atxCfg # Off /\ press.pin = PinOf(atxCfg, press.cmd)

AtxInv == AtxTypes /\ OpInv /\ PinInv /\ PressWhole

LEMMA InitAtx == AtxInit => AtxInv
<1> SUFFICES ASSUME AtxInit PROVE AtxInv
  OBVIOUS
<1>1. Off \in Wirings /\ "click" \in Commands
  BY DEF Wirings, Commands
<1>2. AtxTypes
  <2>1. atxQ \in Seq(Commands)
    BY DEF AtxInit
  <2>2. cut \in BOOLEAN
    BY DEF AtxInit
  <2> QED
    BY <1>1, <2>1, <2>2 DEF AtxInit, AtxTypes, NoApply, NoPress
<1> QED
  BY <1>2 DEF AtxInit, AtxInv, OpInv, PinInv, PressWhole, NoApply, NoPress

(* kvm_atx_apply and the settings. *)
LEMMA ApplyAtx ==
    ASSUME AtxInv, SetAtx \/ ApplyTake \/ ApplyRelease \/ ApplyConfigure
    PROVE  AtxInv'
<1> USE DEF AtxInv, AtxTypes, OpInv, PinInv, PressWhole
<1>1. CASE SetAtx
  BY <1>1 DEF SetAtx
<1>2. CASE ApplyTake
  BY <1>2 DEF ApplyTake
<1>3. CASE ApplyRelease
  <2>1. press.pc \notin {"drive", "hold"}
    BY <1>3 DEF ApplyRelease
  <2> QED
    BY <1>3, <2>1 DEF ApplyRelease, Wirings
<1>4. CASE ApplyConfigure
  <2>1. press.pc \notin {"drive", "hold"}
    BY <1>4 DEF ApplyConfigure
  <2>2. NoApply \in [pc : {"idle", "wait", "release", "configure"}, want : Wirings]
    BY DEF NoApply, Wirings
  <2> QED
    BY <1>4, <2>1, <2>2 DEF ApplyConfigure, NoApply, Wirings
<1> QED
  BY <1>1, <1>2, <1>3, <1>4

(* The queue and atx_task. *)
LEMMA PressAtx ==
    ASSUME AtxInv,
           \/ QueueCmd \/ PressReceive \/ PressTake \/ PressSnapshot \/ PressDrive
           \/ PressRelease \/ PressSettle
    PROVE  AtxInv'
<1> USE DEF AtxInv, AtxTypes, OpInv, PinInv, PressWhole
<1>1. CASE QueueCmd
  <2>1. atxQ' \in Seq(Commands)
    BY <1>1 DEF QueueCmd
  <2>2. UNCHANGED <<atxCfg, apply, press, atxDown, opHeld, cut>>
    BY <1>1 DEF QueueCmd
  <2> QED
    BY <2>1, <2>2
<1>2. CASE PressReceive
  <2>1. Head(atxQ) \in Commands
    BY <1>2 DEF PressReceive
  <2>2. atxQ' \in Seq(Commands)
    BY <1>2 DEF PressReceive
  <2>3. /\ press' = [press EXCEPT !.pc = "wait", !.cmd = Head(atxQ)] /\ press.pc = "idle"
        /\ UNCHANGED <<atxCfg, apply, atxDown, opHeld, cut>>
    BY <1>2 DEF PressReceive
  <2> QED
    BY <2>1, <2>2, <2>3
<1>3. CASE PressTake
  BY <1>3 DEF PressTake
<1>4. CASE PressSnapshot
  <2>1. NoPress \in [pc : {"idle"}, cmd : Commands, pin : {0}]
    BY DEF NoPress, Commands
  <2>2. atxCfg # Off => PinOf(atxCfg, press.cmd) \in AtxPins
    BY DEF Wirings, PinOf
  <2> QED
    BY <1>4, <2>1, <2>2 DEF PressSnapshot, NoPress
<1>5. CASE PressDrive
  BY <1>5 DEF PressDrive
<1>6. CASE PressRelease
  BY <1>6 DEF PressRelease
<1>7. CASE PressSettle
  <2>1. NoPress \in [pc : {"idle"}, cmd : Commands, pin : {0}]
    BY DEF NoPress, Commands
  <2> QED
    BY <1>7, <2>1 DEF PressSettle, NoPress
<1> QED
  BY <1>1, <1>2, <1>3, <1>4, <1>5, <1>6, <1>7

(* For any set of pins and any length of the queue, a press lasts its time *)
(* on its own pin and no other pin is down, whenever the settings move the *)
(* pins: kvm_atx_apply never gets s_op_mtx from under atx_task.            *)
THEOREM PressStaysWhole == AtxSpec => []PressWhole
<1>1. AtxInv /\ [AtxNext]_atxVars => AtxInv'
  <2> SUFFICES ASSUME AtxInv, [AtxNext]_atxVars PROVE AtxInv'
    OBVIOUS
  <2>1. CASE UNCHANGED atxVars
    BY <2>1 DEF atxVars, AtxInv, AtxTypes, OpInv, PinInv, PressWhole
  <2> QED
    BY <2>1, ApplyAtx, PressAtx DEF AtxNext
<1>2. AtxInv => PressWhole
  BY DEF AtxInv
<1> QED
  BY <1>1, <1>2, InitAtx, PTL DEF AtxSpec
----------------------------------------------------------------------------
(* WebrtcSessions.  The slots the encoder counts are those whose session   *)
(* is alive or dead and not yet freed; a claimed slot is the offer's.      *)

OfferStates == {"idle", "scan", "left", "wait", "refuse", "build", "publish"}
SlotStates  == {"free", "claimed", "ice", "dtls", "media", "dead"}
OfferRec    == [pc : OfferStates, slot : 0..SessionsMax, killed : BOOLEAN, late : BOOLEAN]
Viewing     == Live \cup {"dead"}

SessTypes ==
    /\ sess \in [SlotIds -> [st : SlotStates, id : Nat]]
    /\ nextSess \in Nat
    /\ offer \in OfferRec
    /\ viewers \in Int

Counted == In(Viewing)

ClaimInv ==
    /\ offer.pc \in {"build", "publish"} <=> offer.slot # 0
    /\ offer.slot # 0 => sess[offer.slot].st = "claimed"
    /\ \A i \in SlotIds : sess[i].st = "claimed" => offer.slot = i

SessInv == SessTypes /\ ClaimInv /\ ViewersTrue

(* The slots are finitely many. *)
LEMMA CountedFinite == IsFiniteSet(Counted) /\ Cardinality(Counted) \in Nat
<1>1. IsFiniteSet(SlotIds)
  BY SessionsAssumption, FS_Interval DEF SlotIds
<1>2. Counted \in SUBSET SlotIds
  BY DEF Counted, In
<1> QED
  BY <1>1, <1>2, FS_Subset, FS_CardinalityType

LEMMA IdleOffer == OfferIdle \in OfferRec /\ OfferIdle.pc = "idle" /\ OfferIdle.slot = 0
BY SessionsAssumption DEF OfferIdle, OfferRec, OfferStates

LEMMA InitSess == SessInit => SessInv
<1> SUFFICES ASSUME SessInit PROVE SessInv
  OBVIOUS
<1>1. SessTypes
  <2>1. FreeSlot \in [st : SlotStates, id : Nat]
    BY DEF FreeSlot, SlotStates
  <2> QED
    BY <2>1, IdleOffer DEF SessInit, SessTypes
<1>2. ClaimInv
  BY DEF SessInit, ClaimInv, OfferIdle, FreeSlot
<1>3. Counted = {}
  BY DEF SessInit, Counted, In, Live, Viewing, FreeSlot
<1> QED
  BY <1>1, <1>2, <1>3, FS_EmptySet DEF SessInit, SessInv, ViewersTrue, Counted, Viewing, OfferIdle

(* What a step that counts and frees nothing has to leave alone. *)
LEMMA SessKept ==
    ASSUME SessInv, ClaimInv', Counted' = Counted, viewers' = viewers,
           offer'.pc = "publish" <=> offer.pc = "publish"
    PROVE  ViewersTrue'
BY CountedFinite DEF SessInv, ViewersTrue, ClaimInv, Counted, Viewing

(* One slot changes its state. *)
LEMMA SlotStep ==
    ASSUME SessTypes, NEW i \in SlotIds, NEW st \in SlotStates,
           sess' = [sess EXCEPT ![i].st = st]
    PROVE  /\ sess' \in [SlotIds -> [st : SlotStates, id : Nat]]
           /\ \A j \in SlotIds : sess'[j].st = IF j = i THEN st ELSE sess[j].st
           /\ (st \in Viewing <=> sess[i].st \in Viewing) => Counted' = Counted
<1>1. sess' \in [SlotIds -> [st : SlotStates, id : Nat]]
  BY DEF SessTypes
<1>2. \A j \in SlotIds : sess'[j].st = IF j = i THEN st ELSE sess[j].st
  BY DEF SessTypes
<1> QED
  BY <1>1, <1>2 DEF Counted, In

(* session_kill leaves a claimed slot claimed only if it is not asked to   *)
(* end it; what was counted stays counted until it is freed.               *)
LEMMA KillStep ==
    ASSUME SessTypes, NEW i \in SlotIds, sess[i].st # "claimed", sess' = Killed(i)
    PROVE  /\ sess' \in [SlotIds -> [st : SlotStates, id : Nat]]
           /\ \A j \in SlotIds : sess'[j].st = "claimed" <=> sess[j].st = "claimed"
           /\ Counted' = Counted
<1> DEFINE st == IF sess[i].st \in {"free", "dead"} THEN sess[i].st ELSE "dead"
<1>1. sess' = [sess EXCEPT ![i].st = st]
  BY DEF Killed, SessTypes
<1>2. /\ st \in SlotStates /\ st # "claimed"
      /\ st \in Viewing <=> sess[i].st \in Viewing
  BY DEF SessTypes, SlotStates, Live, Viewing
<1> HIDE DEF st
<1>3. /\ sess' \in [SlotIds -> [st : SlotStates, id : Nat]]
      /\ \A j \in SlotIds : sess'[j].st = IF j = i THEN st ELSE sess[j].st
      /\ Counted' = Counted
  BY <1>1, <1>2, SlotStep
<1> QED
  BY <1>2, <1>3

(* An offer, up to the moment its session is built. *)
LEMMA OfferSess ==
    ASSUME SessInv,
           \/ OfferCome \/ TakeFree \/ TakeOldest \/ OfferLeft \/ OfferLate \/ OfferWoken
           \/ OfferRefused \/ OfferFails
    PROVE  SessInv'
<1> USE SessionsAssumption, IdleOffer DEF SessInv, OfferStates
<1>1. CASE OfferCome \/ OfferLeft \/ OfferLate \/ OfferWoken \/ OfferRefused
  <2>1. sess' = sess /\ nextSess' = nextSess /\ viewers' = viewers
    BY <1>1 DEF OfferCome, OfferLeft, OfferLate, OfferWoken, OfferRefused
  <2>2. /\ offer' \in OfferRec
        /\ offer.pc \notin {"build", "publish"} /\ offer'.pc \notin {"build", "publish"}
        /\ offer'.slot = 0
    <3>1. CASE OfferCome \/ OfferRefused
      BY <3>1 DEF OfferCome, OfferRefused, OfferRec
    <3>2. CASE OfferLeft \/ OfferWoken
      <4>1. PICK pc \in {"refuse", "wait", "scan"} : offer' = [offer EXCEPT !.pc = pc]
        BY <3>2 DEF OfferLeft, OfferWoken
      <4>2. offer.pc \in {"left", "wait"}
        BY <3>2 DEF OfferLeft, OfferWoken
      <4> QED
        BY <4>1, <4>2 DEF SessTypes, ClaimInv, OfferRec
    <3>3. CASE OfferLate
      BY <3>3 DEF OfferLate, SessTypes, ClaimInv, OfferRec
    <3> QED
      BY <1>1, <3>1, <3>2, <3>3
  <2>3. SessTypes' /\ ClaimInv' /\ Counted' = Counted
    BY <2>1, <2>2 DEF SessTypes, ClaimInv, Counted, In
  <2> QED
    BY <2>1, <2>2, <2>3, SessKept
<1>2. CASE TakeFree
  <2>1. PICK i \in In({"free"}) : /\ sess' = [sess EXCEPT ![i].st = "claimed"]
                                 /\ offer' = [OfferIdle EXCEPT !.pc = "build", !.slot = i]
    BY <1>2 DEF TakeFree
  <2>2. i \in SlotIds /\ sess[i].st = "free" /\ "claimed" \in SlotStates
    BY DEF In, SlotStates
  <2>3. /\ sess' \in [SlotIds -> [st : SlotStates, id : Nat]]
        /\ \A j \in SlotIds : sess'[j].st = IF j = i THEN "claimed" ELSE sess[j].st
        /\ Counted' = Counted
    <3>1. "claimed" \notin Viewing /\ "free" \notin Viewing
      BY DEF Viewing, Live
    <3> QED
      BY <2>1, <2>2, <3>1, SlotStep
  <2>4. offer.pc = "scan" /\ offer.slot = 0 /\ UNCHANGED <<nextSess, viewers>>
    BY <1>2 DEF TakeFree, ClaimInv, SessTypes
  <2>5. SessTypes'
    <3>1. offer' \in OfferRec
      <4>1. i \in 0..SessionsMax
        BY <2>2 DEF SlotIds
      <4> QED
        BY <2>1, <4>1 DEF OfferRec, OfferIdle
    <3> QED
      BY <2>3, <2>4, <3>1 DEF SessTypes
  <2>6. ClaimInv'
    BY <2>1, <2>2, <2>3, <2>4 DEF ClaimInv, SlotIds
  <2> QED
    BY <2>1, <2>3, <2>4, <2>5, <2>6, SessKept
<1>3. CASE TakeOldest
  <2>1. offer.pc = "scan" /\ offer.slot = 0 /\ UNCHANGED <<nextSess, viewers>>
    BY <1>3 DEF TakeOldest, ClaimInv, SessTypes
  <2>2. /\ offer' \in OfferRec
        /\ offer'.pc \in {"left", "refuse"} /\ offer'.slot = 0
    BY <1>3, <2>1 DEF TakeOldest, SessTypes, OfferRec
  <2>3. /\ sess' \in [SlotIds -> [st : SlotStates, id : Nat]]
        /\ \A j \in SlotIds : sess'[j].st = "claimed" <=> sess[j].st = "claimed"
        /\ Counted' = Counted
    <3>1. CASE sess' = sess
      BY <3>1 DEF SessTypes, Counted, In
    <3>2. CASE \E i \in In(Live) : sess' = Killed(i)
      BY <3>2, KillStep DEF In, Live
    <3> QED
      BY <1>3, <3>1, <3>2 DEF TakeOldest
  <2>4. SessTypes' /\ ClaimInv'
    BY <2>1, <2>2, <2>3 DEF SessTypes, ClaimInv
  <2> QED
    BY <2>1, <2>2, <2>3, <2>4, SessKept
<1>4. CASE OfferFails
  <2>1. offer.slot \in SlotIds /\ sess[offer.slot].st = "claimed" /\ "free" \in SlotStates
    BY <1>4 DEF OfferFails, ClaimInv, SessTypes, OfferRec, SlotIds, SlotStates
  <2>2. /\ sess' \in [SlotIds -> [st : SlotStates, id : Nat]]
        /\ \A j \in SlotIds : sess'[j].st = IF j = offer.slot THEN "free" ELSE sess[j].st
        /\ Counted' = Counted
    <3>1. "claimed" \notin Viewing /\ "free" \notin Viewing
      BY DEF Viewing, Live
    <3>2. sess' = [sess EXCEPT ![offer.slot].st = "free"]
      BY <1>4 DEF OfferFails
    <3>3. sess' \in [SlotIds -> [st : SlotStates, id : Nat]]
      BY <2>1, <3>2 DEF SessTypes
    <3>4. \A j \in SlotIds : sess'[j].st = IF j = offer.slot THEN "free" ELSE sess[j].st
      BY <2>1, <3>2 DEF SessTypes
    <3> QED
      BY <2>1, <3>1, <3>3, <3>4 DEF Counted, In
  <2>3. offer.pc = "build" /\ offer' = OfferIdle /\ UNCHANGED <<nextSess, viewers>>
    BY <1>4 DEF OfferFails
  <2>4. SessTypes' /\ ClaimInv'
    BY <2>1, <2>2, <2>3 DEF SessTypes, ClaimInv
  <2> QED
    BY <2>2, <2>3, <2>4, SessKept
<1> QED
  BY <1>1, <1>2, <1>3, <1>4

(* The session is counted, then it is there. *)
LEMMA PublishSess ==
    ASSUME SessInv, OfferBuilt \/ OfferPublish
    PROVE  SessInv'
<1> USE SessionsAssumption DEF SessInv, SessTypes, ClaimInv, OfferRec, OfferStates, OfferIdle, SlotIds, SlotStates, Live
<1>1. CASE OfferBuilt
  <2>1. SessTypes' /\ ClaimInv'
    BY <1>1 DEF OfferBuilt
  <2>2. Counted' = Counted
    BY <1>1 DEF OfferBuilt, Counted, In
  <2> QED
    <3>1. /\ offer.pc = "build" /\ offer'.pc = "publish" /\ viewers' = viewers + 1
      BY <1>1 DEF OfferBuilt
    <3>2. viewers = Cardinality(Counted)
      BY <3>1, CountedFinite DEF ViewersTrue, Counted, Viewing
    <3>3. viewers' = Cardinality(Counted') + 1
      BY <2>2, <3>1, <3>2
    <3> QED
      BY <2>1, <3>1, <3>3 DEF ViewersTrue, Counted, Viewing
<1>2. CASE OfferPublish
  <2>1. offer.slot \in SlotIds /\ sess[offer.slot].st = "claimed"
    BY <1>2 DEF OfferPublish
  <2>2. SessTypes' /\ ClaimInv'
    BY <1>2, <2>1 DEF OfferPublish
  <2>3. Counted' = Counted \cup {offer.slot} /\ offer.slot \notin Counted
    BY <1>2, <2>1 DEF OfferPublish, Counted, In, Live, Viewing
  <2>4. Cardinality(Counted') = Cardinality(Counted) + 1
    BY <2>3, CountedFinite, FS_AddElement
  <2> QED
    <3>1. offer.pc = "publish" /\ offer'.pc = "idle" /\ viewers' = viewers
      BY <1>2 DEF OfferPublish
    <3>2. viewers = Cardinality(Counted) + 1
      BY <3>1 DEF ViewersTrue, Counted, Viewing
    <3>3. viewers' = Cardinality(Counted') + 0
      BY <2>4, <3>1, <3>2, CountedFinite
    <3> QED
      BY <2>2, <3>1, <3>3 DEF ViewersTrue, Counted, Viewing
<1> QED
  BY <1>1, <1>2

(* Sessions that go on or end. *)
LEMMA DatagramSess ==
    ASSUME SessInv,
           \/ \E id \in 1..MaxOffers : Close(id)
           \/ \E i \in SlotIds : OnDatagram(i) \/ DatagramEnds(i)
           \/ SwitchWebrtc
    PROVE  SessInv'
<1> USE DEF SessInv
<1> DEFINE Moved == /\ sess' \in [SlotIds -> [st : SlotStates, id : Nat]]
                    /\ \A j \in SlotIds : sess'[j].st = "claimed" <=> sess[j].st = "claimed"
                    /\ Counted' = Counted
<1>1. ASSUME NEW id \in 1..MaxOffers, Close(id) PROVE Moved
  BY <1>1, KillStep DEF Close, ClaimInv, SlotIds
<1>2. ASSUME NEW i \in SlotIds, OnDatagram(i) PROVE Moved
  <2>1. PICK st \in {"dtls", "media"} : sess' = [sess EXCEPT ![i].st = st]
    BY <1>2 DEF OnDatagram
  <2>2. /\ sess[i].st \in Viewing \ {"claimed"} /\ st \in Viewing \ {"claimed"}
        /\ st \in SlotStates
    BY <1>2 DEF OnDatagram, Viewing, Live, SlotStates
  <2>3. /\ sess' \in [SlotIds -> [st : SlotStates, id : Nat]]
        /\ \A j \in SlotIds : sess'[j].st = IF j = i THEN st ELSE sess[j].st
        /\ Counted' = Counted
    BY <2>1, <2>2, SlotStep
  <2> QED
    BY <2>2, <2>3
<1>3. ASSUME NEW i \in SlotIds, DatagramEnds(i) PROVE Moved
  BY <1>3, KillStep DEF DatagramEnds, Live
<1>4. ASSUME SwitchWebrtc PROVE Moved
  BY <1>4 DEF SwitchWebrtc, SessTypes, Counted, In
<1>5. Moved
  BY <1>1, <1>2, <1>3, <1>4
<1>6. UNCHANGED <<nextSess, viewers, offer>>
  BY DEF Close, OnDatagram, DatagramEnds, SwitchWebrtc
<1>7. SessTypes' /\ ClaimInv'
  <2>1. offer.slot # 0 => offer.slot \in SlotIds
    BY SessionsAssumption DEF SessTypes, SlotIds, OfferRec
  <2> QED
    BY <1>5, <1>6, <2>1 DEF SessTypes, ClaimInv
<1> QED
  BY <1>5, <1>6, <1>7, SessKept

(* housekeeping frees what it uncounts. *)
LEMMA HousekeepingSess ==
    ASSUME SessInv, NEW ended \in SUBSET SlotIds, Housekeeping(ended)
    PROVE  SessInv'
<1> DEFINE out == In({"dead"}) \cup (IF gone THEN In(Live) ELSE {})
<1> USE DEF SessInv, SessTypes, ClaimInv
<1>1. out \in SUBSET Counted
  BY DEF Counted, In, Live, Viewing
<1>2. /\ sess' = [i \in SlotIds |->
                      IF i \in out THEN FreeSlot
                      ELSE IF i \in ended THEN [sess[i] EXCEPT !.st = "dead"] ELSE sess[i]]
      /\ ended \subseteq In(Live) /\ nextSess' = nextSess
      /\ viewers' = viewers - Cardinality(out) /\ offer' = offer
  BY DEF Housekeeping
<1>3. Counted' = Counted \ out
  BY <1>2 DEF Counted, In, Live, Viewing, FreeSlot
<1>4. IsFiniteSet(out) /\ Cardinality(out) \in Nat
  BY <1>1, CountedFinite, FS_Subset, FS_CardinalityType
<1>5. Cardinality(Counted') = Cardinality(Counted) - Cardinality(out)
  <2> HIDE DEF out
  <2>1. Counted \cap out = out
    BY <1>1
  <2>2. Cardinality(Counted \ out) = Cardinality(Counted) - Cardinality(Counted \cap out)
    BY CountedFinite, FS_Difference
  <2> QED
    BY <1>3, <2>1, <2>2
<1>6. SessTypes'
  <2>1. FreeSlot \in [st : SlotStates, id : Nat]
    BY DEF FreeSlot, SlotStates
  <2>2. viewers' \in Int
    BY <1>2, <1>4
  <2> QED
    BY <1>2, <2>1, <2>2 DEF In, Live, SlotStates
<1>7. ClaimInv'
  <2>1. \A i \in SlotIds : sess'[i].st = "claimed" <=> sess[i].st = "claimed"
    BY <1>2 DEF In, Live, FreeSlot
  <2>2. offer.slot # 0 => offer.slot \in SlotIds
    BY SessionsAssumption DEF SlotIds, OfferRec
  <2> QED
    BY <1>2, <2>1, <2>2
<1>8. ViewersTrue'
  <2> HIDE DEF out
  <2> QED
    BY <1>2, <1>4, <1>5, <1>7, CountedFinite DEF ViewersTrue, Counted, Viewing
<1> QED
  BY <1>6, <1>7, <1>8

(* For any number of sessions and offers, the encoder counts exactly the   *)
(* sessions there are, and a claimed slot stays with its offer, whatever   *)
(* ends sessions meanwhile.                                                *)
THEOREM ViewersStayTrue == SessSpec => []ViewersTrue
<1>1. SessInv /\ [SessNext]_sessVars => SessInv'
  <2> SUFFICES ASSUME SessInv, [SessNext]_sessVars PROVE SessInv'
    OBVIOUS
  <2>1. CASE UNCHANGED sessVars
    BY <2>1 DEF sessVars, SessInv, SessTypes, ClaimInv, ViewersTrue, In
  <2> QED
    BY <2>1, OfferSess, PublishSess, DatagramSess, HousekeepingSess DEF SessNext
<1>2. SessInv => ViewersTrue
  BY DEF SessInv
<1> QED
  BY <1>1, <1>2, InitSess, PTL DEF SessSpec
----------------------------------------------------------------------------
(* VirtualMedia.  The read-ahead belongs to a medium on the card.          *)

AheadInv == ~clash /\ ahead # Empty => src \in {"sd", "whole"}

MediaInv == MediumBacked /\ AheadInv /\ RescueApart

(* apply_media_selection and kvm_storage_reread, in either task. *)
LEMMA ApplyMedia ==
    ASSUME MediaInv, NEW t \in Tasks,
           \/ ApplyBegin(t) \/ RereadLeave(t) \/ RereadClose(t) \/ RereadMount(t)
           \/ ApplySelect(t) \/ ApplyHandover(t)
    PROVE  MediaInv'
<1> USE DEF MediaInv, MediumBacked, AheadInv, RescueApart
<1>1. CASE ApplyBegin(t) \/ RereadLeave(t)
  BY <1>1 DEF ApplyBegin, RereadLeave
<1>2. CASE RereadClose(t)
  BY <1>2 DEF RereadClose, MediaClosed, Empty
<1>3. CASE RereadMount(t)
  BY <1>3 DEF RereadMount
<1>4. CASE ApplySelect(t)
  <2>1. CASE job[t].image = "rescue" /\ SelectRescue
    BY <1>4, <2>1 DEF ApplySelect, SelectRescue, Empty
  <2>2. CASE SelectFile
    BY <1>4, <2>2 DEF ApplySelect, SelectFile, Empty
  <2>3. CASE SelectNone
    BY <1>4, <2>3 DEF ApplySelect, SelectNone, MediaClosed, Empty
  <2>4. CASE UNCHANGED <<src, ahead>>
    BY <1>4, <2>4 DEF ApplySelect
  <2> QED
    BY <1>4, <2>1, <2>2, <2>3, <2>4 DEF ApplySelect
<1>5. CASE ApplyHandover(t)
  BY <1>5 DEF ApplyHandover, Empty
<1> QED
  BY <1>1, <1>2, <1>3, <1>4, <1>5

(* The slot watcher, the target and the writers. *)
LEMMA OtherMedia ==
    ASSUME MediaInv,
           \/ \E i \in Images : SetImage(i)
           \/ \E c \in {1, 2} : CardIn(c)
           \/ CardOut \/ WatchMount \/ WatchGone \/ WatchUnmount
           \/ TargetRead \/ TargetWrite \/ TargetEject
           \/ RecordBegin \/ UploadBegin \/ UploadEnd \/ RescueBegin \/ RescueEnd
    PROVE  MediaInv'
<1> USE DEF MediaInv, MediumBacked, AheadInv, RescueApart
<1>1. CASE \/ \E i \in Images : SetImage(i)
           \/ \E c \in {1, 2} : CardIn(c)
           \/ CardOut \/ WatchGone \/ RecordBegin \/ UploadBegin \/ UploadEnd
  BY <1>1 DEF SetImage, CardIn, CardOut, WatchGone, RecordBegin, UploadBegin, UploadEnd
<1>2. CASE WatchMount
  BY <1>2 DEF WatchMount
<1>3. CASE WatchUnmount \/ TargetEject
  BY <1>3 DEF WatchUnmount, TargetEject, MediaClosed, Empty
<1>4. CASE TargetRead \/ TargetWrite
  BY <1>4 DEF TargetRead, TargetWrite
<1>5. CASE RescueBegin
  BY <1>5 DEF RescueBegin, MediaClosed, Empty
<1>6. CASE RescueEnd
  BY <1>6 DEF RescueEnd
<1> QED
  BY <1>1, <1>2, <1>3, <1>4, <1>5, <1>6

LEMMA MediaInvariant == MediaSpec => []MediaInv
<1>1. MediaInit => MediaInv
  BY DEF MediaInit, MediaInv, MediumBacked, AheadInv, RescueApart
<1>2. MediaInv /\ [MediaNext]_mediaVars => MediaInv'
  <2> SUFFICES ASSUME MediaInv, [MediaNext]_mediaVars PROVE MediaInv'
    OBVIOUS
  <2>1. CASE UNCHANGED mediaVars
    BY <2>1 DEF mediaVars, MediaInv, MediumBacked, AheadInv, RescueApart
  <2> QED
    BY <2>1, ApplyMedia, OtherMedia DEF MediaNext
<1> QED
  BY <1>1, <1>2, PTL DEF MediaSpec

(* What the target is served from the card, the read-ahead included, comes *)
(* from the card that is mounted, unless a re-read mounted the card at the *)
(* same time as the slot watcher.                                          *)
THEOREM MediumStaysBacked == MediaSpec => []MediumBacked
<1>1. MediaInv => MediumBacked
  BY DEF MediaInv
<1> QED
  BY <1>1, MediaInvariant, PTL

(* The rescue image is never served while kvm_storage_rescue_write is      *)
(* replacing it.                                                           *)
THEOREM RescueStaysApart == MediaSpec => []RescueApart
<1>1. MediaInv => RescueApart
  BY DEF MediaInv
<1> QED
  BY <1>1, MediaInvariant, PTL

----------------------------------------------------------------------------
(* Runbook.  Until two starts race, one caller or its run has s_running,   *)
(* s_stop and s_script to itself.                                          *)

RunStates == {"none", "begin", "step", "in", "busy", "end", "gone"}

BookTypes ==
    /\ start \in [Starters -> {"idle", "check", "publish", "running", "create"}]
    /\ runs \in [Starters -> [pc : RunStates, script : {0, 1, 2}, step : Nat, late : BOOLEAN]]
    /\ rbScript \in {0, 1, 2}
    /\ rbRunning \in BOOLEAN /\ rbStop \in BOOLEAN /\ asked \in BOOLEAN
    /\ rbRaced \in BOOLEAN /\ overrun \in BOOLEAN

(* The caller t has passed the check, or its run is not over. *)
Owns(t) == start[t] \in {"publish", "running", "create"} \/ runs[t].pc # "none"

(* ... and has set s_running. *)
Holds(t) == start[t] = "create" \/ runs[t].pc # "none"

AloneInv ==
    /\ \A t, o \in Starters : Owns(t) /\ Owns(o) => t = o
    /\ rbRunning <=> \E t \in Starters : Holds(t)
    /\ \A t \in Starters : start[t] \in {"publish", "running", "create"} => runs[t].pc = "none"

(* A stop that was accepted is seen by the step that begins after it. *)
StopInv ==
    /\ rbRunning /\ asked => rbStop
    /\ \A t \in Starters : runs[t].pc = "in" /\ runs[t].late => rbStop
    /\ \A t \in Starters : runs[t].pc = "busy" => ~runs[t].late
    /\ ~overrun

BookInv == BookTypes /\ (~rbRaced => AloneInv /\ StopInv)

LEMMA InitBook == BookInit => BookInv
<1> SUFFICES ASSUME BookInit PROVE BookInv
  OBVIOUS
<1>1. NoRun \in [pc : RunStates, script : {0, 1, 2}, step : Nat, late : BOOLEAN]
  BY DEF NoRun, RunStates
<1>2. BookTypes
  BY <1>1 DEF BookInit, BookTypes
<1>3. AloneInv /\ StopInv
  BY DEF BookInit, AloneInv, StopInv, Owns, Holds, NoRun
<1> QED
  BY <1>2, <1>3 DEF BookInv

(* runbook_start and runbook_stop. *)
LEMMA StartBook ==
    ASSUME BookInv, NEW t \in Starters,
           \/ RunbookStop \/ Called(t) \/ StartCheck(t) \/ StartPublish(t) \/ StartRunning(t)
           \/ StartCreate(t)
    PROVE  BookInv'
<1> USE DEF BookInv, BookTypes
<1>1. CASE RunbookStop
  BY <1>1 DEF RunbookStop, AloneInv, StopInv, Owns, Holds
<1>2. CASE Called(t)
  BY <1>2 DEF Called, AloneInv, StopInv, Owns, Holds
<1>3. CASE StartCheck(t)
  <2>1. CASE StartReturns(t) /\ UNCHANGED rbRaced
    BY <1>3, <2>1 DEF StartCheck, StartReturns, AloneInv, StopInv, Owns, Holds
  <2>2. CASE ~StartReturns(t)
    <3>1. BookTypes'
      <4>1. rbRaced' \in BOOLEAN
        BY <1>3, <2>2 DEF StartCheck
      <4> QED
        BY <1>3, <2>2, <4>1 DEF StartCheck
    <3>2. ~rbRaced' => AloneInv'
      <4> SUFFICES ASSUME ~rbRaced' PROVE AloneInv'
        OBVIOUS
      <4>1. \A o \in Starters : o # t => start[o] \notin {"publish", "running"}
        BY <1>3, <2>2 DEF StartCheck, OthersAt
      <4>2. ~rbRaced /\ ~rbRunning /\ AloneInv
        BY <1>3, <2>2 DEF StartCheck
      <4>3. \A o \in Starters : ~Holds(o)
        BY <4>2 DEF AloneInv
      <4>4. \A o \in Starters : o # t => ~Owns(o)
        BY <4>1, <4>3 DEF Owns, Holds
      <4>5. /\ start'[t] = "publish" /\ runs' = runs /\ rbRunning' = rbRunning
            /\ \A o \in Starters : o # t => start'[o] = start[o]
        BY <1>3, <2>2 DEF StartCheck
      <4> QED
        BY <4>2, <4>3, <4>4, <4>5 DEF AloneInv, Owns, Holds
    <3>3. ~rbRaced' => StopInv'
      BY <1>3, <2>2 DEF StartCheck, StopInv
    <3> QED
      BY <3>1, <3>2, <3>3
  <2> QED
    BY <1>3, <2>1, <2>2 DEF StartCheck, StartReturns
<1>4. CASE StartPublish(t)
  BY <1>4 DEF StartPublish, ScriptOf, AloneInv, StopInv, Owns, Holds
<1>5. CASE StartRunning(t)
  BY <1>5 DEF StartRunning, AloneInv, StopInv, Owns, Holds
<1>6. CASE StartCreate(t)
  <2>1. CASE rbRunning' = FALSE /\ rbScript' = 0 /\ UNCHANGED runs
    <3>1. /\ start[t] = "create"
          /\ \A o \in Starters : start'[o] = IF o = t THEN "idle" ELSE start[o]
          /\ UNCHANGED <<rbRaced, rbStop, asked, overrun>>
      BY <1>6 DEF StartCreate, StartReturns
    <3>2. BookTypes'
      BY <1>6, <2>1 DEF StartCreate, StartReturns
    <3>3. ~rbRaced' => AloneInv'
      BY <2>1, <3>1 DEF AloneInv, Owns, Holds
    <3>4. ~rbRaced' => StopInv'
      BY <2>1, <3>1 DEF StopInv
    <3> QED
      BY <3>2, <3>3, <3>4
  <2>2. CASE runs' = [runs EXCEPT ![t] = [NoRun EXCEPT !.pc = "begin"]]
    <3> DEFINE r == [NoRun EXCEPT !.pc = "begin"]
    <3>1. /\ r \in [pc : RunStates, script : {0, 1, 2}, step : Nat, late : BOOLEAN]
          /\ r.pc = "begin"
      BY DEF NoRun, RunStates
    <3>2. BookTypes'
      BY <1>6, <2>2, <3>1 DEF StartCreate, StartReturns
    <3>3. start[t] = "create" /\ runs[t].pc = "none"
      BY <1>6 DEF StartCreate
    <3>4. /\ \A o \in Starters : runs'[o] = IF o = t THEN r ELSE runs[o]
          /\ \A o \in Starters : start'[o] = IF o = t THEN "idle" ELSE start[o]
      BY <1>6, <2>2 DEF StartCreate, StartReturns
    <3>5. CASE UNCHANGED rbRunning
      <4> HIDE DEF r
      <4>1. UNCHANGED <<rbRaced, rbStop, asked, overrun>>
        BY <1>6 DEF StartCreate
      <4>2. ~rbRaced' => AloneInv'
        BY <3>1, <3>3, <3>4, <3>5, <4>1 DEF AloneInv, Owns, Holds
      <4>3. ~rbRaced' => StopInv'
        BY <3>1, <3>3, <3>4, <3>5, <4>1 DEF StopInv
      <4> QED
        BY <3>2, <4>2, <4>3
    <3> QED
      BY <1>6, <2>1, <3>5 DEF StartCreate
  <2> QED
    BY <1>6, <2>1, <2>2 DEF StartCreate
<1> QED
  BY <1>1, <1>2, <1>3, <1>4, <1>5, <1>6

(* run_task. *)
LEMMA RunBook ==
    ASSUME BookInv, NEW t \in Starters,
           \/ RunBegin(t) \/ RunStep(t) \/ RunLook(t) \/ RunStepEnds(t) \/ RunFree(t)
           \/ RunGone(t)
    PROVE  BookInv'
<1> USE DEF BookInv, BookTypes, RunStates
<1>1. CASE RunBegin(t)
  BY <1>1 DEF RunBegin, AloneInv, StopInv, Owns, Holds
<1>2. CASE RunStep(t)
  <2> DEFINE r == [runs[t] EXCEPT !.pc = "in", !.step = runs[t].step + 1, !.late = asked]
  <2>1. /\ r \in [pc : RunStates, script : {0, 1, 2}, step : Nat, late : BOOLEAN]
        /\ r.pc = "in" /\ r.late = asked
    <3>1. runs[t] \in [pc : RunStates, script : {0, 1, 2}, step : Nat, late : BOOLEAN]
      OBVIOUS
    <3>2. asked \in BOOLEAN /\ runs[t].step + 1 \in Nat
      BY <3>1
    <3> QED
      BY <3>1, <3>2
  <2>a. /\ runs' = [runs EXCEPT ![t] = r]
        /\ runs[t].pc = "step"
        /\ UNCHANGED <<start, rbRunning, rbStop, rbScript, rbRaced, overrun, asked>>
    BY <1>2 DEF RunStep
  <2> HIDE DEF r
  <2>2. /\ \A o \in Starters : runs'[o] = IF o = t THEN r ELSE runs[o]
        /\ runs' = [runs EXCEPT ![t] = r]
        /\ runs[t].pc = "step"
        /\ UNCHANGED <<start, rbRunning, rbStop, rbScript, rbRaced, overrun, asked>>
    BY <2>a
  <2>3. BookTypes'
    BY <2>1, <2>2
  <2>4. ~rbRaced' => AloneInv'
    BY <2>1, <2>2 DEF AloneInv, Owns, Holds
  <2>5. ~rbRaced' => StopInv'
    <3> SUFFICES ASSUME ~rbRaced PROVE StopInv'
      BY <2>2
    <3>1. rbRunning
      BY <2>2 DEF AloneInv, Holds
    <3> QED
      BY <2>1, <2>2, <3>1 DEF StopInv
  <2> QED
    BY <2>3, <2>4, <2>5
<1>3. CASE RunLook(t)
  BY <1>3 DEF RunLook, AloneInv, StopInv, Owns, Holds
<1>4. CASE RunStepEnds(t)
  <2>1. PICK pc \in {"step", "end"} : runs' = [runs EXCEPT ![t].pc = pc]
    BY <1>4 DEF RunStepEnds
  <2>2. /\ \A o \in Starters : o # t => runs'[o] = runs[o]
        /\ runs[t].pc # "none" /\ runs'[t].pc = pc /\ runs'[t].late = runs[t].late
        /\ UNCHANGED <<start, rbRunning, rbStop, rbScript, rbRaced, asked>>
    BY <1>4, <2>1 DEF RunStepEnds
  <2>3. overrun' \in BOOLEAN
    BY <1>4 DEF RunStepEnds
  <2>4. BookTypes'
    BY <2>1, <2>2, <2>3
  <2>5. ~rbRaced' => AloneInv'
    BY <2>1, <2>2 DEF AloneInv, Owns, Holds
  <2>6. ~rbRaced' => StopInv'
    <3> SUFFICES ASSUME ~rbRaced PROVE StopInv'
      BY <2>2
    <3>1. ~overrun'
      <4>1. ~(runs[t].pc = "busy" /\ runs[t].late) /\ ~overrun
        BY DEF StopInv
      <4>2. overrun' = (overrun \/ (runs[t].pc = "busy" /\ runs[t].late))
        BY <1>4 DEF RunStepEnds
      <4> QED
        BY <4>1, <4>2
    <3> QED
      BY <2>1, <2>2, <3>1 DEF StopInv
  <2> QED
    BY <2>4, <2>5, <2>6
<1>5. CASE RunFree(t)
  <2>1. /\ \A o \in Starters : o # t => runs'[o] = runs[o]
        /\ runs[t].pc # "none" /\ runs'[t].pc = "gone"
        /\ UNCHANGED <<start, rbRunning, rbStop, rbRaced, overrun, asked>>
    BY <1>5 DEF RunFree
  <2>2. BookTypes'
    BY <1>5 DEF RunFree
  <2>3. ~rbRaced' => AloneInv'
    BY <2>1 DEF AloneInv, Owns, Holds
  <2>4. ~rbRaced' => StopInv'
    BY <2>1 DEF StopInv
  <2> QED
    BY <2>2, <2>3, <2>4
<1>6. CASE RunGone(t)
  BY <1>6 DEF RunGone, NoRun, AloneInv, StopInv, Owns, Holds
<1> QED
  BY <1>1, <1>2, <1>3, <1>4, <1>5, <1>6

(* For every script, a stop that runbook_stop accepted ends the run at the *)
(* next step that looks for it, unless two starts raced.                   *)
THEOREM StopAlwaysTakes == BookSpec => []StopTakes
<1>1. BookInv /\ [BookNext]_bookVars => BookInv'
  <2> SUFFICES ASSUME BookInv, [BookNext]_bookVars PROVE BookInv'
    OBVIOUS
  <2>1. CASE UNCHANGED bookVars
    BY <2>1 DEF bookVars, BookInv, BookTypes, AloneInv, StopInv, Owns, Holds
  <2>2. CASE RunbookStop
    BY <2>2, StartBook DEF Starters
  <2> QED
    BY <2>1, <2>2, StartBook, RunBook DEF BookNext
<1>2. BookInv => StopTakes
  BY DEF BookInv, BookTypes, StopInv, StopTakes
<1> QED
  BY <1>1, <1>2, InitBook, PTL DEF BookSpec
----------------------------------------------------------------------------
(* Scheduler.  A walk of the jobs belongs to the minute the clock shows;   *)
(* with the scheduler at work since the minute before, the minute's number *)
(* is new until the look that starts its walk, and the walk leaves nothing *)
(* due behind it.                                                          *)

LastJob == Len(Jobs)

SchedTypes ==
    /\ minute \in Nat /\ evalAt \in 0..LastJob /\ steady \in 0..2
    /\ ticked \in BOOLEAN /\ schedOn \in BOOLEAN /\ fired \in SUBSET Nat

WalkInv ==
    /\ evalAt # 0 => Up /\ lastMin = Clock /\ ticked /\ \A j \in fired : j < evalAt
    /\ fired # {} => lastMin = Clock

SteadyInv ==
    /\ steady # 0 => AtWork
    /\ steady # 0 /\ ticked => lastMin = Clock
    /\ steady = 2 /\ ~ticked => lastMin # Clock
    /\ steady = 2 /\ ticked => \A j \in Due(minute) : evalAt = 0 \/ j < evalAt => j \in fired

SchedInv == SchedTypes /\ WalkInv /\ SteadyInv /\ OnceAMinute

(* The next minute has another number, as an hour has more than one. *)
LEMMA NextMinute ==
    ASSUME NEW m \in Nat PROVE (m + 1) % HourMinutes # m % HourMinutes
<1> DEFINE H == HourMinutes
<1> DEFINE p == m \div H
<1> DEFINE q == (m + 1) \div H
<1>1. H \in Nat /\ H > 1
  BY SchedulerAssumption
<1>2. p \in Int /\ q \in Int /\ m = H * p + (m % H) /\ m + 1 = H * q + ((m + 1) % H)
  BY <1>1
<1> SUFFICES ASSUME (m + 1) % H = m % H PROVE FALSE
  OBVIOUS
<1>3. m % H \in Int
  BY <1>1
<1> HIDE DEF H, p, q
<1>4. H * (q - p) = 1
  BY <1>1, <1>2, <1>3
<1>5. q - p <= 0 => H * (q - p) <= 0
  BY <1>1, <1>2
<1>6. q - p >= 1 => H * (q - p) >= H
  BY <1>1, <1>2
<1> QED
  BY <1>1, <1>2, <1>4, <1>5, <1>6

LEMMA InitSched == SchedInit => SchedInv
<1> SUFFICES ASSUME SchedInit PROVE SchedInv
  OBVIOUS
<1>1. LastJob \in Nat
  BY SchedulerAssumption DEF LastJob
<1>2. SchedTypes
  <2>1. ticked \in BOOLEAN /\ schedOn \in BOOLEAN
    BY DEF SchedInit
  <2> QED
    BY <1>1, <2>1 DEF SchedInit, SchedTypes
<1>3. WalkInv /\ OnceAMinute
  BY DEF SchedInit, WalkInv, OnceAMinute
<1>4. SteadyInv
  BY DEF SchedInit, SteadyInv, AtWork, Up
<1> QED
  BY <1>2, <1>3, <1>4 DEF SchedInv

(* A minute turns. *)
LEMMA TurnSched == SchedInv /\ MinuteTurns => SchedInv'
<1> SUFFICES ASSUME SchedInv, MinuteTurns PROVE SchedInv'
  OBVIOUS
<1> USE DEF SchedInv
<1>1. /\ minute < MaxMinutes /\ evalAt = 0 /\ (AtWork => ticked)
      /\ minute' = minute + 1 /\ ticked' = FALSE /\ fired' = {}
      /\ missed' = (missed \/ (steady = 2 /\ Due(minute) \ fired # {}))
      /\ steady' = IF ~AtWork THEN 0 ELSE IF steady = 2 THEN 2 ELSE steady + 1
      /\ UNCHANGED <<power, schedOn, lastMin, evalAt, twice>>
  BY DEF MinuteTurns
<1>2. SchedTypes'
  <2>1. ticked' \in BOOLEAN /\ schedOn' \in BOOLEAN
    BY <1>1 DEF SchedTypes
  <2>2. steady' \in 0..2
    BY <1>1 DEF SchedTypes
  <2> QED
    BY <1>1, <2>1, <2>2 DEF SchedTypes
<1>3. WalkInv'
  BY <1>1 DEF WalkInv
<1>4. steady = 2 => Due(minute) \ fired = {}
  BY <1>1 DEF SteadyInv, SchedTypes
<1>5. OnceAMinute'
  BY <1>1, <1>4 DEF OnceAMinute
<1>6. AtWork' = AtWork
  BY <1>1 DEF AtWork, Up
<1>7. steady' = 2 => lastMin' # Clock'
  <2> SUFFICES ASSUME steady' = 2 PROVE lastMin' # Clock'
    OBVIOUS
  <2>1. AtWork /\ steady # 0
    BY <1>1 DEF SchedTypes
  <2>2. lastMin = Clock
    BY <1>1, <2>1 DEF SteadyInv
  <2>3. Clock' # Clock
    BY <1>1, NextMinute DEF Clock, SchedTypes
  <2> QED
    BY <1>1, <2>2, <2>3
<1>8. SteadyInv'
  BY <1>1, <1>6, <1>7 DEF SteadyInv
<1> QED
  BY <1>2, <1>3, <1>5, <1>8

(* The task's look at the clock. *)
LEMMA TickSched == SchedInv /\ SchedTick => SchedInv'
<1> SUFFICES ASSUME SchedInv, SchedTick PROVE SchedInv'
  OBVIOUS
<1> USE DEF SchedInv
<1>1. /\ Up /\ evalAt = 0 /\ ticked' = TRUE
      /\ UNCHANGED <<minute, power, schedOn, fired, twice, missed, steady>>
      /\ Clock' = Clock /\ Up' = Up /\ AtWork' = AtWork /\ Due(minute)' = Due(minute)
  BY DEF SchedTick, Clock, Up, AtWork, Due, Matches
<1>2. OnceAMinute'
  BY <1>1 DEF OnceAMinute
<1>3. CASE schedOn /\ MinuteIsNew
  <2>1. lastMin' = Clock /\ evalAt' = 1 /\ lastMin # Clock
    BY <1>3 DEF SchedTick, MinuteIsNew
  <2>2. 1 \in 0..LastJob
    BY SchedulerAssumption DEF LastJob
  <2>3. fired = {}
    BY <2>1 DEF WalkInv
  <2>4. SchedTypes'
    BY <1>1, <2>1, <2>2 DEF SchedTypes
  <2>5. WalkInv'
    BY <1>1, <2>1, <2>3 DEF WalkInv
  <2>6. \A j \in Due(minute) : ~(j < 1)
    BY SchedulerAssumption DEF Due
  <2>7. SteadyInv'
    BY <1>1, <2>1, <2>6 DEF SteadyInv
  <2> QED
    BY <1>2, <2>4, <2>5, <2>7
<1>4. CASE ~(schedOn /\ MinuteIsNew)
  <2>1. UNCHANGED <<lastMin, evalAt>> /\ (schedOn => lastMin = Clock)
    BY <1>4 DEF SchedTick, MinuteIsNew
  <2>2. SchedTypes' /\ WalkInv'
    BY <1>1, <2>1 DEF SchedTypes, WalkInv
  <2>3. SteadyInv'
    BY <1>1, <2>1 DEF SteadyInv, AtWork
  <2> QED
    BY <1>2, <2>2, <2>3
<1> QED
  BY <1>3, <1>4

(* evaluate comes to the next job, having carried this one out if it was   *)
(* due.                                                                    *)
LEMMA WalkSched == SchedInv /\ (EvalSkip \/ Dispatch) => SchedInv'
<1> SUFFICES ASSUME SchedInv, EvalSkip \/ Dispatch PROVE SchedInv'
  OBVIOUS
<1> USE DEF SchedInv
<1>1. /\ evalAt # 0 /\ evalAt' = (IF evalAt = LastJob THEN 0 ELSE evalAt + 1)
      /\ UNCHANGED <<minute, ticked, power, schedOn, lastMin, missed, steady>>
      /\ Clock' = Clock /\ Up' = Up /\ AtWork' = AtWork /\ Due(minute)' = Due(minute)
  BY DEF EvalSkip, Dispatch, EvalNext, LastJob, Clock, Up, AtWork, Due, Matches
<1>2. LastJob \in Nat /\ DOMAIN Jobs = 1..LastJob
  BY SchedulerAssumption DEF LastJob
<1>3. /\ fired' \in {fired, fired \cup {evalAt}}
      /\ evalAt \in Due(minute) => evalAt \in fired'
      /\ evalAt \notin fired /\ ~twice'
  <2>1. evalAt \notin fired /\ ~twice
    BY <1>1 DEF WalkInv, OnceAMinute, SchedTypes
  <2>2. CASE EvalSkip
    BY <2>1, <2>2 DEF EvalSkip, Due
  <2>3. CASE Dispatch
    BY <2>1, <2>3 DEF Dispatch, Fire
  <2> QED
    BY <2>2, <2>3
<1>a. evalAt \in 1..LastJob
  BY <1>1, <1>2 DEF SchedTypes
<1>b. evalAt' \in 0..LastJob /\ (evalAt' # 0 => evalAt' = evalAt + 1)
  BY <1>1, <1>2, <1>a
<1>4. SchedTypes'
  <2>1. fired' \in SUBSET Nat
    BY <1>3, <1>a, <1>2 DEF SchedTypes
  <2> QED
    BY <1>1, <1>b, <2>1 DEF SchedTypes
<1>5. WalkInv'
  <2>1. \A j \in fired' : j \in Nat /\ j < evalAt + 1
    BY <1>1, <1>2, <1>3, <1>a DEF WalkInv, SchedTypes
  <2>2. lastMin = Clock /\ Up /\ ticked
    BY <1>1 DEF WalkInv
  <2> QED
    BY <1>1, <1>b, <2>1, <2>2 DEF WalkInv
<1>6. OnceAMinute'
  BY <1>1, <1>3 DEF OnceAMinute
<1>7. SteadyInv'
  <2>1. ASSUME steady = 2, ticked, NEW j \in Due(minute), evalAt' = 0 \/ j < evalAt'
        PROVE  j \in fired'
    <3>1. j \in 1..LastJob
      BY <1>2 DEF Due
    <3>2. j = evalAt \/ j < evalAt
      BY <1>1, <1>2, <1>a, <2>1, <3>1
    <3> QED
      BY <1>1, <1>3, <2>1, <3>2 DEF SteadyInv
  <2> QED
    BY <1>1, <2>1 DEF SteadyInv
<1> QED
  BY <1>4, <1>5, <1>6, <1>7

(* sched_enable, restarts and boots. *)
LEMMA OtherSched == SchedInv /\ (SetSched \/ DispatchRestart \/ SchedCrash \/ Boot) => SchedInv'
<1> SUFFICES ASSUME SchedInv, SetSched \/ DispatchRestart \/ SchedCrash \/ Boot
             PROVE  SchedInv'
  OBVIOUS
<1> USE DEF SchedInv
<1>0. LastJob \in Nat
  BY SchedulerAssumption DEF LastJob
<1>1. CASE SetSched
  <2>1. /\ Up /\ steady' = 0 /\ schedOn' \in BOOLEAN
        /\ UNCHANGED <<minute, ticked, power, lastMin, evalAt, fired, twice, missed>>
        /\ Clock' = Clock /\ Up' = Up
    BY <1>1 DEF SetSched, Clock, Up
  <2>2. SchedTypes'
    BY <2>1 DEF SchedTypes
  <2>3. WalkInv' /\ SteadyInv' /\ OnceAMinute'
    BY <2>1 DEF WalkInv, SteadyInv, OnceAMinute
  <2> QED
    BY <2>2, <2>3
<1>2. CASE DispatchRestart \/ SchedCrash
  <2>1. Restarted /\ ~twice'
    <3>1. evalAt # 0 => evalAt \notin fired
      BY <1>0 DEF WalkInv, SchedTypes
    <3>2. CASE DispatchRestart
      BY <3>1, <3>2 DEF DispatchRestart, OnceAMinute
    <3>3. CASE SchedCrash
      BY <3>3 DEF SchedCrash, OnceAMinute
    <3> QED
      BY <1>2, <3>2, <3>3
  <2>2. SchedTypes'
    BY <1>0, <2>1 DEF Restarted, SchedTypes
  <2>3. WalkInv' /\ SteadyInv' /\ OnceAMinute'
    BY <2>1 DEF Restarted, WalkInv, SteadyInv, OnceAMinute
  <2> QED
    BY <2>2, <2>3
<1>3. CASE Boot
  <2>1. /\ ~Up /\ Up'
        /\ UNCHANGED <<minute, ticked, schedOn, lastMin, evalAt, fired, twice, missed, steady>>
        /\ Clock' = Clock
    BY <1>3 DEF Boot, Clock, Up
  <2>2. SchedTypes' /\ OnceAMinute'
    BY <2>1 DEF SchedTypes, OnceAMinute
  <2>3. steady = 0
    BY <2>1 DEF SteadyInv, AtWork
  <2>4. WalkInv' /\ SteadyInv'
    BY <2>1, <2>3 DEF WalkInv, SteadyInv
  <2> QED
    BY <2>2, <2>4
<1> QED
  BY <1>1, <1>2, <1>3

(* For every list of jobs and every hour of two minutes or more, no job is *)
(* carried out twice in one minute of one uptime, and none that is due is  *)
(* passed over while the scheduler is at work.                             *)
THEOREM JobsRunOnceAMinute == SchedSpec => []OnceAMinute
<1>1. SchedInv /\ [SchedNext]_schedVars => SchedInv'
  <2> SUFFICES ASSUME SchedInv, [SchedNext]_schedVars PROVE SchedInv'
    OBVIOUS
  <2>1. CASE UNCHANGED schedVars
    BY <2>1 DEF schedVars, SchedInv, SchedTypes, WalkInv, SteadyInv, OnceAMinute, Up, AtWork,
                Clock, Due, Matches
  <2> QED
    BY <2>1, TurnSched, TickSched, WalkSched, OtherSched DEF SchedNext
<1>2. SchedInv => OnceAMinute
  BY DEF SchedInv
<1> QED
  BY <1>1, <1>2, InitSched, PTL DEF SchedSpec

----------------------------------------------------------------------------
(* HidInput.  A release-all is never lost on its way to the target.  The   *)
(* reports are numbered as they are sent and the queue keeps their order,  *)
(* so what stands behind a release was sent after it.  Lifting says where  *)
(* the last release is: about to be sent again, in the queue, in the       *)
(* worker's hands, or done with, in which case nothing older is held or on *)
(* its way.                                                                *)


Reports == [fn : Functions \cup {"all", "none"}, down : BOOLEAN, solo : BOOLEAN, id : Nat]

HidTypes ==
    /\ hidQ \in Seq(Reports) /\ hidSent \in Nat /\ barrier \in Nat
    /\ worker \in [pc : {"idle", "peek", "take", "emit"}, acc : Reports]
    /\ releaser \in [Releasers -> [pc : {"idle", "send", "again"}, clear : BOOLEAN]]
    /\ wsButtons \in BOOLEAN
    /\ lane \in [pc : {"idle", "move"}, down : BOOLEAN]

(* The queue is in the order of sending. *)
OrderInv ==
    /\ barrier <= hidSent
    /\ \A i \in 1..Len(hidQ) : hidQ[i].id <= hidSent
    /\ \A i, j \in 1..Len(hidQ) : i < j => hidQ[i].id < hidQ[j].id
    /\ \A i \in 1..Len(hidQ) : hidQ[i].fn = "all" => hidQ[i].down = FALSE

(* What the worker has in hand was sent before what is queued; a release   *)
(* is never merged; a target that is gone holds nothing.                   *)
HandInv ==
    /\ worker.acc.id <= hidSent
    /\ worker.pc \in {"peek", "emit"} => \A i \in 1..Len(hidQ) : hidQ[i].id > worker.acc.id
    /\ worker.pc = "take" => \A i \in 1..Len(hidQ) : hidQ[i].id >= worker.acc.id
    /\ worker.pc \in {"peek", "take"} => worker.acc.fn # "all"
    /\ worker.acc.fn = "all" => worker.acc.down = FALSE
    /\ target = "gone" => \A f \in Functions : heldBy[f] = 0

(* The report that was peeked is still there to be received. *)
Peeked == worker.pc = "take" => hidQ # <<>> /\ hidQ[1].fn # "all"

Again  == \E r \in Releasers : releaser[r].pc = "again"
Queued == \E i \in 1..Len(hidQ) : hidQ[i].fn = "all" /\ hidQ[i].id = barrier
InHand == worker.pc = "emit" /\ worker.acc.fn = "all" /\ worker.acc.id = barrier
Lifted ==
    /\ \A f \in Functions \ stuck : heldBy[f] = 0 \/ heldBy[f] > barrier
    /\ worker.pc # "idle" => worker.acc.id > barrier
    /\ \A i \in 1..Len(hidQ) : hidQ[i].id > barrier

Lifting == Again \/ Queued \/ InHand \/ Lifted

HidInv == HidTypes /\ OrderInv /\ HandInv /\ (~torn => Peeked /\ Lifting)

----------------------------------------------------------------------------
(* Sequences and records.                                                  *)

LEMMA AppendQ ==
    ASSUME NEW R, NEW q \in Seq(R), NEW m \in R
    PROVE  /\ Append(q, m) \in Seq(R) /\ Append(q, m) # <<>>
           /\ Len(q) \in Nat /\ Len(Append(q, m)) = Len(q) + 1
           /\ \A i \in 1..Len(q) : Append(q, m)[i] = q[i]
           /\ Append(q, m)[Len(q) + 1] = m
OBVIOUS

LEMMA TailQ ==
    ASSUME NEW R, NEW q \in Seq(R), q # <<>>
    PROVE  /\ Tail(q) \in Seq(R)
           /\ Len(q) \in Nat /\ Len(q) > 0 /\ Len(Tail(q)) = Len(q) - 1
           /\ \A i \in 1..(Len(q) - 1) : Tail(q)[i] = q[i + 1]
           /\ Head(q) = q[1] /\ q[1] \in R
OBVIOUS

LEMMA AReport ==
    ASSUME hidSent \in Nat, NEW fn \in Functions \cup {"all"}, NEW down \in BOOLEAN
    PROVE  /\ Report(fn, down) \in Reports
           /\ Report(fn, down).fn = fn /\ Report(fn, down).down = down
           /\ Report(fn, down).id = hidSent + 1
<1>1. hidSent + 1 \in Nat /\ FALSE \in BOOLEAN
  OBVIOUS
<1> QED
  BY <1>1 DEF Report, Reports

LEMMA NothingHeld == Nothing \in Reports /\ Nothing.id = 0 /\ Nothing.fn = "none"
<1>1. 0 \in Nat /\ FALSE \in BOOLEAN
  OBVIOUS
<1> QED
  BY <1>1 DEF Nothing, Reports

LEMMA ReportId == ASSUME NEW m \in Reports PROVE m.id \in Nat
BY DEF Reports

----------------------------------------------------------------------------
LEMMA InitHid == HidInit => HidInv
<1> SUFFICES ASSUME HidInit PROVE HidInv
  OBVIOUS
<1>1. HidTypes
  <2>1. hidQ \in Seq(Reports) /\ Len(hidQ) = 0
    BY DEF HidInit
  <2>2. wsButtons \in BOOLEAN /\ [pc |-> "idle", clear |-> FALSE]
                                   \in [pc : {"idle", "send", "again"}, clear : BOOLEAN]
    BY DEF HidInit
  <2>3. lane \in [pc : {"idle", "move"}, down : BOOLEAN]
    BY DEF HidInit
  <2>4. worker \in [pc : {"idle", "peek", "take", "emit"}, acc : Reports]
    BY NothingHeld DEF HidInit
  <2> QED
    BY <2>1, <2>2, <2>3, <2>4 DEF HidInit, HidTypes
<1>2. hidQ = <<>> /\ Len(hidQ) = 0 /\ hidSent = 0 /\ barrier = 0
  BY DEF HidInit
<1>3. OrderInv
  BY <1>2 DEF OrderInv
<1>4. HandInv
  BY <1>2, NothingHeld DEF HidInit, HandInv
<1>5. Peeked /\ Lifting
  BY <1>2 DEF HidInit, Peeked, Lifting, Lifted
<1> QED
  BY <1>1, <1>3, <1>4, <1>5 DEF HidInv

(* A report that enters the queue. *)
LEMMA AppendOrder ==
    ASSUME HidInv, NEW m \in Reports, m.id = hidSent + 1, m.fn = "all" => m.down = FALSE,
           hidQ' = Append(hidQ, m), hidSent' = hidSent + 1, barrier' \in Nat,
           barrier' <= hidSent', UNCHANGED <<worker, target, heldBy>>
    PROVE  /\ hidQ' \in Seq(Reports) /\ OrderInv' /\ HandInv'
           /\ Peeked => Peeked'
<1>1. hidQ \in Seq(Reports) /\ hidSent \in Nat /\ worker.acc.id \in Nat
  BY ReportId DEF HidInv, HidTypes
<1> DEFINE n == Len(hidQ)
<1>2. /\ hidQ' \in Seq(Reports) /\ hidQ' # <<>> /\ n \in Nat /\ Len(hidQ') = n + 1
      /\ \A i \in 1..n : hidQ'[i] = hidQ[i]
      /\ hidQ'[n + 1] = m
  BY <1>1, AppendQ
<1>3. \A i \in 1..n : hidQ[i] \in Reports /\ hidQ[i].id \in Nat
  BY <1>1, <1>2, ReportId
<1>4. OrderInv /\ HandInv
  BY DEF HidInv
<1>5. hidQ # <<>> => n > 0
  BY <1>1
<1> HIDE DEF n
<1>6. OrderInv'
  <2>1. \A i \in 1..n : hidQ[i].id <= hidSent /\ (hidQ[i].fn = "all" => hidQ[i].down = FALSE)
    BY <1>4 DEF OrderInv, n
  <2>2. \A i, j \in 1..n : i < j => hidQ[i].id < hidQ[j].id
    BY <1>4 DEF OrderInv, n
  <2>3. \A i \in 1..(n + 1) : i \in 1..n \/ i = n + 1
    BY <1>2
  <2>4. \A i \in 1..(n + 1) : hidQ'[i].id <= hidSent + 1
    BY <1>1, <1>2, <1>3, <2>1, <2>3
  <2>5. \A i, j \in 1..(n + 1) : i < j => hidQ'[i].id < hidQ'[j].id
    <3> SUFFICES ASSUME NEW i \in 1..(n + 1), NEW j \in 1..(n + 1), i < j
                 PROVE  hidQ'[i].id < hidQ'[j].id
      OBVIOUS
    <3>1. i \in 1..n
      BY <1>2
    <3>2. CASE j \in 1..n
      BY <1>2, <2>2, <3>1, <3>2
    <3>3. CASE j = n + 1
      BY <1>1, <1>2, <1>3, <2>1, <3>1, <3>3
    <3> QED
      BY <2>3, <3>2, <3>3
  <2>6. \A i \in 1..(n + 1) : hidQ'[i].fn = "all" => hidQ'[i].down = FALSE
    BY <1>2, <2>1, <2>3
  <2> QED
    BY <1>2, <2>4, <2>5, <2>6 DEF OrderInv
<1>7. HandInv'
  <2>1. worker.acc.id <= hidSent
    BY <1>4 DEF HandInv
  <2>2. \A i \in 1..(n + 1) : i \in 1..n \/ i = n + 1
    BY <1>2
  <2>3. ASSUME worker.pc \in {"peek", "emit"}, NEW i \in 1..(n + 1)
        PROVE  hidQ'[i].id > worker.acc.id
    BY <1>1, <1>2, <1>4, <2>1, <2>2, <2>3 DEF HandInv, n
  <2>4. ASSUME worker.pc = "take", NEW i \in 1..(n + 1)
        PROVE  hidQ'[i].id >= worker.acc.id
    BY <1>1, <1>2, <1>4, <2>1, <2>2, <2>4 DEF HandInv, n
  <2>5. worker.acc.id <= hidSent + 1
    BY <1>1, <2>1
  <2> QED
    BY <1>2, <1>4, <2>3, <2>4, <2>5 DEF HandInv
<1>8. Peeked => Peeked'
  BY <1>2, <1>5 DEF Peeked
<1> QED
  BY <1>2, <1>6, <1>7, <1>8

(* enqueue, for anything but a release. *)
LEMMA SentHid ==
    ASSUME HidInv, NEW m \in Reports, m.id = hidSent + 1, m.fn # "all", Enqueue(m),
           UNCHANGED <<worker, target, heldBy, stuck, releaser, barrier, torn>>,
           wsButtons' \in BOOLEAN, lane' \in [pc : {"idle", "move"}, down : BOOLEAN]
    PROVE  HidInv'
<1>1. hidSent \in Nat /\ barrier \in Nat /\ barrier <= hidSent /\ hidSent' = hidSent + 1
  BY DEF HidInv, HidTypes, OrderInv, Enqueue
<1>2. hidSent' \in Nat /\ barrier' \in Nat /\ barrier' <= hidSent'
  BY <1>1
<1>3. CASE hidQ' = hidQ
  <2>1. HidTypes'
    BY <1>2, <1>3 DEF HidInv, HidTypes
  <2>2. hidQ \in Seq(Reports) /\ Len(hidQ) \in Nat /\ worker.acc.id \in Nat
    BY ReportId DEF HidInv, HidTypes
  <2>3. \A i \in 1..Len(hidQ) : hidQ[i] \in Reports /\ hidQ[i].id \in Nat
    BY <2>2, ReportId
  <2>4. OrderInv' /\ HandInv'
    <3>1. OrderInv'
      BY <1>1, <1>2, <1>3, <2>2, <2>3 DEF HidInv, OrderInv
    <3>2. HandInv'
      BY <1>1, <1>2, <1>3, <2>2, <2>3 DEF HidInv, HandInv
    <3> QED
      BY <3>1, <3>2
  <2>5. ~torn' => Peeked' /\ Lifting'
    BY <1>3 DEF HidInv, Peeked, Lifting, Again, Queued, InHand, Lifted
  <2> QED
    BY <2>1, <2>4, <2>5 DEF HidInv
<1>4. CASE hidQ' = Append(hidQ, m)
  <2>1. hidQ' \in Seq(Reports) /\ OrderInv' /\ HandInv' /\ (Peeked => Peeked')
    BY <1>1, <1>2, <1>4, AppendOrder
  <2>2. HidTypes'
    BY <1>2, <2>1 DEF HidInv, HidTypes
  <2> DEFINE n == Len(hidQ)
  <2>3. /\ n \in Nat /\ Len(hidQ') = n + 1 /\ hidQ'[n + 1] = m
        /\ \A i \in 1..n : hidQ'[i] = hidQ[i]
    BY <1>4, AppendQ DEF HidInv, HidTypes
  <2>4. ASSUME Lifting PROVE Lifting'
    <3>1. CASE Again \/ InHand
      BY <3>1 DEF Lifting, Again, InHand
    <3>2. CASE Queued
      <4>1. PICK i \in 1..n : hidQ[i].fn = "all" /\ hidQ[i].id = barrier
        BY <3>2 DEF Queued
      <4>2. i \in 1..Len(hidQ') /\ hidQ'[i] = hidQ[i]
        BY <2>3
      <4> QED
        BY <4>1, <4>2 DEF Lifting, Queued
    <3>3. CASE Lifted
      <4>1. \A i \in 1..n : hidQ[i].id > barrier
        BY <3>3 DEF Lifted
      <4>2. hidQ'[n + 1].id > barrier
        BY <1>1, <2>3
      <4>3. \A i \in 1..Len(hidQ') : i \in 1..n \/ i = n + 1
        BY <2>3
      <4> HIDE DEF n
      <4>4. \A i \in 1..Len(hidQ') : hidQ'[i].id > barrier'
        BY <2>3, <4>1, <4>2, <4>3
      <4> QED
        BY <3>3, <4>4 DEF Lifting, Lifted
    <3> QED
      BY <2>4, <3>1, <3>2, <3>3 DEF Lifting
  <2> QED
    BY <2>1, <2>2, <2>4 DEF HidInv
<1> QED
  BY <1>3, <1>4 DEF Enqueue

(* A release that enters the queue. *)
LEMMA ReleaseInHid == ASSUME HidInv, NEW r \in Releasers, ReleaseIn(r) PROVE HidInv'
<1> DEFINE m == Report("all", FALSE)
<1>1. hidSent \in Nat /\ m \in Reports /\ m.fn = "all" /\ m.down = FALSE /\ m.id = hidSent + 1
  BY AReport DEF HidInv, HidTypes
<1>2. /\ hidQ' = Append(hidQ, m) /\ hidSent' = hidSent + 1 /\ barrier' = hidSent + 1
      /\ UNCHANGED <<worker, target, heldBy, stuck, control, lane, torn>>
  BY DEF ReleaseIn
<1> HIDE DEF m
<1>3. hidSent' \in Nat /\ barrier' \in Nat /\ barrier' <= hidSent'
  BY <1>1, <1>2
<1>4. hidQ' \in Seq(Reports) /\ OrderInv' /\ HandInv' /\ (Peeked => Peeked')
  BY <1>1, <1>2, <1>3, AppendOrder
<1>5. wsButtons' \in BOOLEAN
  BY DEF ReleaseIn, HidInv, HidTypes
<1>6. releaser' \in [Releasers -> [pc : {"idle", "send", "again"}, clear : BOOLEAN]]
  <2>1. [pc |-> "idle", clear |-> FALSE] \in [pc : {"idle", "send", "again"}, clear : BOOLEAN]
    OBVIOUS
  <2> QED
    BY <2>1 DEF ReleaseIn, HidInv, HidTypes
<1>7. HidTypes'
  BY <1>2, <1>3, <1>4, <1>5, <1>6 DEF HidInv, HidTypes
<1>8. Queued'
  <2>1. Len(hidQ) \in Nat /\ Len(hidQ') = Len(hidQ) + 1 /\ hidQ'[Len(hidQ) + 1] = m
    BY <1>1, <1>2, AppendQ DEF HidInv, HidTypes
  <2> QED
    BY <1>1, <1>2, <2>1 DEF Queued
<1> QED
  BY <1>2, <1>4, <1>7, <1>8 DEF HidInv, Lifting

(* usb_hid_release_all, the full queue thrown away first. *)
LEMMA ReleaseHid ==
    ASSUME HidInv, NEW r \in Releasers, ReleaseSend(r) \/ ReleaseAgain(r) PROVE HidInv'
<1>1. CASE ReleaseIn(r)
  BY <1>1, ReleaseInHid
<1>2. CASE ReleaseSend(r) /\ ~ReleaseIn(r)
  <2>1. /\ hidQ' = <<>> /\ torn' = (torn \/ worker.pc = "take")
        /\ releaser' = [releaser EXCEPT ![r].pc = "again"]
        /\ UNCHANGED <<hidSent, worker, target, heldBy, stuck, wsButtons, lane, barrier>>
    BY <1>2 DEF ReleaseSend
  <2>2. hidQ' \in Seq(Reports) /\ Len(hidQ') = 0
    BY <2>1
  <2>3. /\ releaser' \in [Releasers -> [pc : {"idle", "send", "again"}, clear : BOOLEAN]]
        /\ releaser'[r].pc = "again"
    BY <2>1 DEF HidInv, HidTypes
  <2>4. HidTypes'
    BY <2>1, <2>2, <2>3 DEF HidInv, HidTypes
  <2>5. OrderInv' /\ HandInv'
    BY <2>1, <2>2 DEF HidInv, OrderInv, HandInv
  <2>6. ~torn' => Peeked' /\ Lifting'
    BY <2>1, <2>3 DEF Peeked, Lifting, Again
  <2> QED
    BY <2>4, <2>5, <2>6 DEF HidInv
<1> QED
  BY <1>1, <1>2 DEF ReleaseAgain

(* A release is begun, or nothing of this changes. *)
LEMMA BegunHid ==
    ASSUME HidInv, UNCHANGED <<hidQ, hidSent, worker, target, heldBy, stuck, barrier, torn>>,
           wsButtons' \in BOOLEAN, lane' \in [pc : {"idle", "move"}, down : BOOLEAN],
           \/ UNCHANGED releaser
           \/ \E r \in Releasers, clear \in BOOLEAN :
                  releaser[r].pc = "idle" /\ StartRelease(r, clear)
    PROVE  HidInv'
<1>1. /\ releaser' \in [Releasers -> [pc : {"idle", "send", "again"}, clear : BOOLEAN]]
      /\ \A o \in Releasers : releaser[o].pc = "again" => releaser'[o].pc = "again"
  <2>1. CASE UNCHANGED releaser
    BY <2>1 DEF HidInv, HidTypes
  <2>2. ASSUME NEW r \in Releasers, NEW clear \in BOOLEAN,
               releaser[r].pc = "idle" /\ StartRelease(r, clear)
        PROVE  /\ releaser' \in [Releasers -> [pc : {"idle", "send", "again"}, clear : BOOLEAN]]
               /\ \A o \in Releasers : releaser[o].pc = "again" => releaser'[o].pc = "again"
    <3>1. [pc |-> "send", clear |-> clear] \in [pc : {"idle", "send", "again"}, clear : BOOLEAN]
      OBVIOUS
    <3> QED
      BY <2>2, <3>1 DEF StartRelease, HidInv, HidTypes
  <2> QED
    BY <2>1, <2>2
<1>2. HidTypes'
  BY <1>1 DEF HidInv, HidTypes
<1>3. OrderInv' /\ HandInv'
  BY DEF HidInv, OrderInv, HandInv
<1>4. ~torn' => Peeked' /\ Lifting'
  BY <1>1 DEF HidInv, Peeked, Lifting, Again, Queued, InHand, Lifted
<1> QED
  BY <1>2, <1>3, <1>4 DEF HidInv

(* The sockets, the runbook, the jiggler and the pointer lane. *)
LEMMA SenderHid ==
    ASSUME HidInv,
           \/ \E c \in Tabs, fn \in {"key", "abs"}, down \in BOOLEAN : WsInput(c, fn, down)
           \/ \E c \in Tabs : WsTakeover(c)
           \/ WsRelease \/ SessionClose
           \/ \E down \in BOOLEAN : RunbookKey(down)
           \/ RunbookEnds \/ Nudge \/ LaneRead \/ LaneMove
    PROVE  HidInv'
<1>1. /\ hidSent \in Nat /\ wsButtons \in BOOLEAN
      /\ lane \in [pc : {"idle", "move"}, down : BOOLEAN] /\ lane.down \in BOOLEAN
  BY DEF HidInv, HidTypes
<1>2. ASSUME NEW c \in Tabs, NEW fn \in {"key", "abs"}, NEW down \in BOOLEAN,
             WsInput(c, fn, down)
      PROVE  HidInv'
  <2>1. /\ Report(fn, down) \in Reports /\ Report(fn, down).fn # "all"
        /\ Report(fn, down).id = hidSent + 1
    BY <1>1, AReport DEF Functions
  <2>2. Enqueue(Report(fn, down)) /\ lane' = lane /\ wsButtons' \in {wsButtons, down}
    BY <1>2 DEF WsInput
  <2>3. wsButtons' \in BOOLEAN
    BY <1>1, <2>2
  <2>4. UNCHANGED <<worker, target, heldBy, stuck, releaser, barrier, torn>>
    BY <1>2 DEF WsInput
  <2> QED
    BY <1>1, <2>1, <2>2, <2>3, <2>4, SentHid
<1>3. ASSUME NEW down \in BOOLEAN, RunbookKey(down) PROVE HidInv'
  <2>1. /\ Report("key", down) \in Reports /\ Report("key", down).fn # "all"
        /\ Report("key", down).id = hidSent + 1
    BY <1>1, AReport DEF Functions
  <2> QED
    BY <1>1, <1>3, <2>1, SentHid DEF RunbookKey
<1>4. CASE Nudge
  <2> DEFINE m == [Report("rel", FALSE) EXCEPT !.solo = TRUE]
  <2>1. Report("rel", FALSE) \in Reports /\ Report("rel", FALSE).id = hidSent + 1
        /\ Report("rel", FALSE).fn = "rel"
    BY <1>1, AReport DEF Functions
  <2>2. m \in Reports /\ m.fn # "all" /\ m.id = hidSent + 1
    <3>1. TRUE \in BOOLEAN
      OBVIOUS
    <3> QED
      BY <2>1, <3>1 DEF Reports
  <2>3. Enqueue(m) /\ UNCHANGED <<worker, target, heldBy, stuck, releaser, barrier, torn,
                                   wsButtons, lane>>
    BY <1>4 DEF Nudge
  <2> HIDE DEF m
  <2> QED
    BY <1>1, <2>2, <2>3, SentHid
<1>5. CASE LaneMove
  <2>1. /\ Report("abs", lane.down) \in Reports /\ Report("abs", lane.down).fn # "all"
        /\ Report("abs", lane.down).id = hidSent + 1
    BY <1>1, AReport DEF Functions
  <2>2. lane' \in [pc : {"idle", "move"}, down : BOOLEAN]
    BY <1>5 DEF LaneMove
  <2> QED
    BY <1>1, <1>5, <2>1, <2>2, SentHid DEF LaneMove
<1>6. CASE LaneRead
  <2>1. lane' \in [pc : {"idle", "move"}, down : BOOLEAN]
    BY <1>1, <1>6 DEF LaneRead
  <2> QED
    BY <1>1, <1>6, <2>1, BegunHid DEF LaneRead
<1>7. CASE (\E c \in Tabs : WsTakeover(c)) \/ WsRelease \/ SessionClose
  <2>1. /\ UNCHANGED releaser \/ (HttpdFree /\ \E b \in BOOLEAN : StartRelease("httpd", b))
        /\ UNCHANGED <<hidQ, hidSent, worker, target, heldBy, stuck, barrier, torn>>
        /\ UNCHANGED <<wsButtons, lane>>
    <3>1. TRUE \in BOOLEAN /\ FALSE \in BOOLEAN
      OBVIOUS
    <3> QED
      BY <1>7, <3>1 DEF WsTakeover, WsRelease, SessionClose
  <2>2. "httpd" \in Releasers
    BY DEF Releasers
  <2> QED
    BY <1>1, <2>1, <2>2, BegunHid DEF HttpdFree
<1>8. CASE RunbookEnds
  <2>1. FALSE \in BOOLEAN /\ "runbook" \in Releasers
    BY DEF Releasers
  <2> QED
    BY <1>1, <1>8, <2>1, BegunHid DEF RunbookEnds
<1> QED
  BY <1>2, <1>3, <1>4, <1>5, <1>6, <1>7, <1>8

(* A report that leaves the queue. *)
LEMMA TailOrder ==
    ASSUME HidInv, hidQ # <<>>, hidQ' = Tail(hidQ), UNCHANGED <<hidSent, barrier>>
    PROVE  /\ hidQ' \in Seq(Reports) /\ OrderInv'
           /\ Len(hidQ) \in Nat /\ 1 \in 1..Len(hidQ)
           /\ Head(hidQ) = hidQ[1] /\ hidQ[1] \in Reports /\ hidQ[1].id \in Nat
           /\ \A i \in 1..Len(hidQ') : /\ i + 1 \in 1..Len(hidQ) /\ hidQ'[i] = hidQ[i + 1]
                                       /\ hidQ'[i].id \in Nat /\ hidQ'[i].id > hidQ[1].id
           /\ \A i \in 1..Len(hidQ) : i # 1 => i - 1 \in 1..Len(hidQ') /\ hidQ'[i - 1] = hidQ[i]
<1> DEFINE n == Len(hidQ)
<1>1. hidQ \in Seq(Reports) /\ OrderInv
  BY DEF HidInv, HidTypes
<1>2. /\ hidQ' \in Seq(Reports)
      /\ n \in Nat /\ n > 0 /\ Len(hidQ') = n - 1
      /\ \A i \in 1..(n - 1) : hidQ'[i] = hidQ[i + 1]
      /\ Head(hidQ) = hidQ[1] /\ hidQ[1] \in Reports
  BY <1>1, TailQ
<1>3. \A i \in 1..n : hidQ[i].id \in Nat
  BY <1>1, <1>2, ReportId
<1>4. /\ \A i \in 1..n : hidQ[i].id <= hidSent /\ (hidQ[i].fn = "all" => hidQ[i].down = FALSE)
      /\ \A i, j \in 1..n : i < j => hidQ[i].id < hidQ[j].id
      /\ barrier <= hidSent
  BY <1>1 DEF OrderInv
<1> HIDE DEF n
<1>5. \A i \in 1..(n - 1) : i + 1 \in 1..n /\ 1 < i + 1
  BY <1>2
<1>6. 1 \in 1..n
  BY <1>2
<1>7. \A i \in 1..(n - 1) : hidQ'[i].id \in Nat /\ hidQ'[i].id > hidQ[1].id
  <2> SUFFICES ASSUME NEW i \in 1..(n - 1) PROVE hidQ'[i].id \in Nat /\ hidQ'[i].id > hidQ[1].id
    OBVIOUS
  <2>1. i + 1 \in 1..n /\ 1 < i + 1 /\ hidQ'[i] = hidQ[i + 1]
    BY <1>2, <1>5
  <2>2. hidQ[1].id < hidQ[i + 1].id /\ hidQ[i + 1].id \in Nat /\ hidQ[1].id \in Nat
    BY <1>3, <1>4, <1>6, <2>1
  <2> QED
    BY <2>1, <2>2
<1>8. OrderInv'
  <2>1. \A i \in 1..(n - 1) : hidQ'[i].id <= hidSent /\ (hidQ'[i].fn = "all" => hidQ'[i].down = FALSE)
    BY <1>2, <1>4, <1>5
  <2>2. ASSUME NEW i \in 1..(n - 1), NEW j \in 1..(n - 1), i < j PROVE hidQ'[i].id < hidQ'[j].id
    <3>1. i + 1 < j + 1 /\ i + 1 \in 1..n /\ j + 1 \in 1..n
      BY <1>2, <1>5, <2>2
    <3> QED
      BY <1>2, <1>4, <3>1
  <2> QED
    BY <1>2, <1>4, <2>1, <2>2 DEF OrderInv
<1>9. \A i \in 1..n : i # 1 => i - 1 \in 1..(n - 1) /\ (i - 1) + 1 = i
  BY <1>2
<1>10. \A i \in 1..n : i # 1 => i - 1 \in 1..(n - 1) /\ hidQ'[i - 1] = hidQ[i]
  <2> SUFFICES ASSUME NEW i \in 1..n, i # 1
               PROVE  i - 1 \in 1..(n - 1) /\ hidQ'[i - 1] = hidQ[i]
    OBVIOUS
  <2>1. hidQ'[i - 1] = hidQ[(i - 1) + 1]
    BY <1>2, <1>9
  <2> QED
    BY <1>9, <2>1
<1> QED
  BY <1>2, <1>3, <1>5, <1>6, <1>7, <1>8, <1>10 DEF n

(* hid_worker takes a report; one taken with the target gone is dropped,   *)
(* and a target that is gone holds nothing.                                *)
LEMMA TakeHid == HidInv /\ WorkerTake => HidInv'
<1> SUFFICES ASSUME HidInv, WorkerTake PROVE HidInv'
  OBVIOUS
<1>1. /\ worker.pc = "idle" /\ hidQ # <<>> /\ hidQ' = Tail(hidQ)
      /\ UNCHANGED <<hidSent, target, heldBy, stuck, wsButtons, lane, releaser, barrier, torn>>
  BY DEF WorkerTake
<1>2. /\ hidQ' \in Seq(Reports) /\ OrderInv'
      /\ Len(hidQ) \in Nat /\ 1 \in 1..Len(hidQ)
      /\ Head(hidQ) = hidQ[1] /\ hidQ[1] \in Reports /\ hidQ[1].id \in Nat
      /\ \A i \in 1..Len(hidQ') : /\ i + 1 \in 1..Len(hidQ) /\ hidQ'[i] = hidQ[i + 1]
                                  /\ hidQ'[i].id \in Nat /\ hidQ'[i].id > hidQ[1].id
      /\ \A i \in 1..Len(hidQ) : i # 1 => i - 1 \in 1..Len(hidQ') /\ hidQ'[i - 1] = hidQ[i]
  BY <1>1, TailOrder
<1>3. /\ hidQ[1].id <= hidSent /\ (hidQ[1].fn = "all" => hidQ[1].down = FALSE)
  BY <1>2 DEF HidInv, OrderInv
<1>4. ASSUME Queued PROVE Queued' \/ (hidQ[1].fn = "all" /\ hidQ[1].id = barrier)
  <2>1. PICK i \in 1..Len(hidQ) : hidQ[i].fn = "all" /\ hidQ[i].id = barrier
    BY <1>4 DEF Queued
  <2>2. CASE i # 1
    BY <1>1, <1>2, <2>1, <2>2 DEF Queued
  <2> QED
    BY <2>1, <2>2
<1>5. ASSUME Lifted PROVE hidQ[1].id > barrier /\ \A i \in 1..Len(hidQ') : hidQ'[i].id > barrier
  BY <1>2, <1>5 DEF Lifted
<1>6. CASE target = "gone"
  <2>1. worker' = worker
    BY <1>6 DEF WorkerTake
  <2>2. HidTypes'
    BY <1>1, <1>2, <2>1 DEF HidInv, HidTypes
  <2>3. HandInv'
    BY <1>1, <2>1 DEF HidInv, HandInv
  <2>4. ASSUME ~torn PROVE Lifting'
    <3>1. CASE Again
      BY <1>1, <3>1 DEF Lifting, Again
    <3>2. CASE hidQ[1].fn = "all" /\ hidQ[1].id = barrier
      BY <1>1, <1>2, <1>6, <2>1, <3>2 DEF HidInv, HandInv, Lifting, Lifted
    <3>3. CASE Lifted
      BY <1>1, <1>5, <2>1, <3>3 DEF Lifting, Lifted
    <3> QED
      BY <1>1, <1>4, <2>4, <3>1, <3>2, <3>3 DEF HidInv, Lifting, InHand
  <2> QED
    BY <1>1, <1>2, <2>1, <2>2, <2>3, <2>4 DEF HidInv, Peeked
<1>7. CASE target # "gone"
  <2> DEFINE h == hidQ[1]
  <2>1. worker' = [pc |-> IF h.fn \in {"abs", "rel"} THEN "peek" ELSE "emit", acc |-> h]
    BY <1>2, <1>7 DEF WorkerTake
  <2>2. /\ worker'.acc = h /\ worker'.pc \in {"peek", "emit"}
        /\ worker'.pc = "peek" => h.fn # "all"
        /\ worker'.pc = "emit" <=> h.fn \notin {"abs", "rel"}
    BY <2>1
  <2>3. HidTypes'
    <3>1. worker' \in [pc : {"idle", "peek", "take", "emit"}, acc : Reports]
      BY <1>2, <2>1
    <3> QED
      BY <1>1, <1>2, <3>1 DEF HidInv, HidTypes
  <2> HIDE DEF h
  <2>4. HandInv'
    BY <1>1, <1>2, <1>3, <1>7, <2>2 DEF HandInv, h
  <2>5. ASSUME ~torn PROVE Lifting'
    <3>1. CASE Again
      BY <1>1, <3>1 DEF Lifting, Again
    <3>2. CASE hidQ[1].fn = "all" /\ hidQ[1].id = barrier
      BY <1>1, <2>2, <3>2 DEF Lifting, InHand, h
    <3>3. CASE Lifted
      BY <1>1, <1>5, <2>2, <3>3 DEF Lifting, Lifted, h
    <3> QED
      BY <1>1, <1>4, <2>5, <3>1, <3>2, <3>3 DEF HidInv, Lifting, InHand
  <2> QED
    BY <1>1, <1>2, <2>2, <2>3, <2>4, <2>5 DEF HidInv, Peeked
<1> QED
  BY <1>6, <1>7

(* It peeks for motion to merge, and receives what it peeked. *)
LEMMA MergeHid == HidInv /\ (WorkerPeek \/ WorkerMerge) => HidInv'
<1> SUFFICES ASSUME HidInv, WorkerPeek \/ WorkerMerge PROVE HidInv'
  OBVIOUS
<1>1. /\ hidQ \in Seq(Reports) /\ Len(hidQ) \in Nat
      /\ worker \in [pc : {"idle", "peek", "take", "emit"}, acc : Reports]
      /\ worker.acc.id \in Nat
  BY ReportId DEF HidInv, HidTypes
<1>2. UNCHANGED <<hidSent, target, heldBy, stuck, wsButtons, lane, releaser, barrier, torn>>
  BY DEF WorkerPeek, WorkerMerge
<1>3. CASE WorkerPeek /\ hidQ # <<>> /\ Mergeable(worker.acc, Head(hidQ))
  <2>1. /\ Len(hidQ) > 0 /\ Head(hidQ) = hidQ[1] /\ hidQ[1] \in Reports
        /\ 1 \in 1..Len(hidQ)
    BY <1>1, <1>3, TailQ
  <2> DEFINE h == hidQ[1]
  <2>2. /\ worker' = [pc |-> "take", acc |-> h] /\ hidQ' = hidQ /\ worker.pc = "peek"
        /\ h.fn = worker.acc.fn
    BY <1>3, <2>1 DEF WorkerPeek, Mergeable
  <2>3. worker'.pc = "take" /\ worker'.acc = h
    BY <2>2
  <2>4. HidTypes'
    <3>1. worker' \in [pc : {"idle", "peek", "take", "emit"}, acc : Reports]
      BY <2>1, <2>2
    <3> QED
      BY <1>2, <2>2, <3>1 DEF HidInv, HidTypes
  <2>5. OrderInv'
    BY <1>2, <2>2 DEF HidInv, OrderInv
  <2>6. h.fn # "all" /\ h.id <= hidSent /\ h.id > worker.acc.id /\ h.id \in Nat
    BY <2>1, <2>2, ReportId DEF HidInv, HandInv, OrderInv
  <2>7. \A i \in 1..Len(hidQ) : hidQ[i].id >= h.id
    <3> SUFFICES ASSUME NEW i \in 1..Len(hidQ) PROVE hidQ[i].id >= h.id
      OBVIOUS
    <3>1. hidQ[i] \in Reports /\ hidQ[i].id \in Nat
      BY <1>1, ReportId
    <3>2. i # 1 => hidQ[1].id < hidQ[i].id
      BY <1>1, <2>1 DEF HidInv, OrderInv
    <3> QED
      BY <2>6, <3>1, <3>2
  <2>8. HandInv'
    <3> HIDE DEF h
    <3> QED
      BY <1>2, <2>2, <2>3, <2>6, <2>7 DEF HidInv, HandInv
  <2>9. ASSUME ~torn PROVE Peeked' /\ Lifting'
    <3>1. Peeked'
      BY <1>3, <2>2, <2>6 DEF Peeked
    <3>2. Lifting'
      <4>1. Lifting /\ ~InHand
        BY <2>2, <2>9 DEF HidInv, InHand
      <4>2. Lifted => h.id > barrier
        BY <2>1 DEF Lifted
      <4> HIDE DEF h
      <4> QED
        BY <1>2, <2>2, <2>3, <4>1, <4>2 DEF Lifting, Again, Queued, Lifted
    <3> QED
      BY <3>1, <3>2
  <2> QED
    BY <1>2, <2>4, <2>5, <2>8, <2>9 DEF HidInv
<1>4. CASE WorkerPeek /\ ~(hidQ # <<>> /\ Mergeable(worker.acc, Head(hidQ)))
  <2>1. worker' = [worker EXCEPT !.pc = "emit"] /\ hidQ' = hidQ /\ worker.pc = "peek"
    BY <1>4 DEF WorkerPeek
  <2>2. /\ worker'.pc = "emit" /\ worker'.acc = worker.acc
        /\ worker' \in [pc : {"idle", "peek", "take", "emit"}, acc : Reports]
    BY <1>1, <2>1
  <2>3. HidTypes' /\ OrderInv'
    BY <1>2, <2>1, <2>2 DEF HidInv, HidTypes, OrderInv
  <2>4. HandInv'
    BY <1>2, <2>1, <2>2 DEF HidInv, HandInv
  <2>5. ~torn => Peeked' /\ Lifting'
    BY <1>2, <2>1, <2>2 DEF HidInv, Peeked, Lifting, Again, Queued, InHand, Lifted
  <2> QED
    BY <1>2, <2>3, <2>4, <2>5 DEF HidInv
<1>5. CASE WorkerMerge
  <2>1. /\ worker.pc = "take" /\ worker' = [worker EXCEPT !.pc = "peek"]
        /\ hidQ' = IF hidQ = <<>> THEN <<>> ELSE Tail(hidQ)
    BY <1>5 DEF WorkerMerge
  <2>2. /\ worker'.pc = "peek" /\ worker'.acc = worker.acc
        /\ worker' \in [pc : {"idle", "peek", "take", "emit"}, acc : Reports]
    BY <1>1, <2>1
  <2>3. CASE hidQ = <<>>
    <3>1. HidTypes' /\ OrderInv' /\ hidQ' = hidQ /\ Len(hidQ) = 0
      BY <1>2, <2>1, <2>2, <2>3 DEF HidInv, HidTypes, OrderInv
    <3>2. HandInv'
      BY <1>2, <2>1, <2>2, <3>1 DEF HidInv, HandInv
    <3>3. torn
      BY <2>1, <2>3 DEF HidInv, Peeked
    <3> QED
      BY <1>2, <3>1, <3>2, <3>3 DEF HidInv
  <2>4. CASE hidQ # <<>>
    <3>1. /\ hidQ' \in Seq(Reports) /\ OrderInv'
          /\ Len(hidQ) \in Nat /\ 1 \in 1..Len(hidQ)
          /\ Head(hidQ) = hidQ[1] /\ hidQ[1] \in Reports /\ hidQ[1].id \in Nat
          /\ \A i \in 1..Len(hidQ') : /\ i + 1 \in 1..Len(hidQ) /\ hidQ'[i] = hidQ[i + 1]
                                      /\ hidQ'[i].id \in Nat /\ hidQ'[i].id > hidQ[1].id
          /\ \A i \in 1..Len(hidQ) : i # 1 => i - 1 \in 1..Len(hidQ') /\ hidQ'[i - 1] = hidQ[i]
      BY <1>2, <2>1, <2>4, TailOrder
    <3>2. HidTypes'
      BY <1>2, <2>2, <3>1 DEF HidInv, HidTypes
    <3>3. hidQ[1].id >= worker.acc.id
      BY <2>1, <3>1 DEF HidInv, HandInv
    <3>4. \A i \in 1..Len(hidQ') : hidQ'[i].id > worker.acc.id
      BY <1>1, <3>1, <3>3
    <3>5. HandInv'
      BY <1>2, <2>1, <2>2, <3>4 DEF HidInv, HandInv
    <3>6. ASSUME ~torn PROVE Lifting'
      <4>1. Lifting /\ ~InHand /\ hidQ[1].fn # "all"
        BY <2>1, <3>6 DEF HidInv, InHand, Peeked
      <4>2. CASE Again
        BY <1>2, <4>2 DEF Lifting, Again
      <4>3. CASE Queued
        <5>1. PICK i \in 1..Len(hidQ) : hidQ[i].fn = "all" /\ hidQ[i].id = barrier
          BY <4>3 DEF Queued
        <5>2. i # 1
          BY <4>1, <5>1
        <5> QED
          BY <1>2, <3>1, <5>1, <5>2 DEF Lifting, Queued
      <4>4. CASE Lifted
        BY <1>2, <2>1, <2>2, <3>1, <4>4 DEF Lifting, Lifted
      <4> QED
        BY <4>1, <4>2, <4>3, <4>4 DEF Lifting
    <3>7. Peeked'
      BY <2>2 DEF Peeked
    <3> QED
      BY <1>2, <3>1, <3>2, <3>5, <3>6, <3>7 DEF HidInv
  <2> QED
    BY <2>3, <2>4
<1> QED
  BY <1>3, <1>4, <1>5

(* It gives what it has in hand to the endpoints.  A release lifts every   *)
(* function whose endpoint takes it; the others are stuck, or the target   *)
(* is gone.                                                                *)
LEMMA EmitHid == ASSUME HidInv, NEW lost \in SUBSET Functions, WorkerEmit(lost) PROVE HidInv'
<1> DEFINE m == worker.acc
<1>1. /\ worker.pc = "emit"
      /\ target' \in IF target = "asleep" /\ m.fn # "all" THEN {"asleep", "up"} ELSE {target}
      /\ target' # "up" => lost = Emits(m)
      /\ heldBy' = [f \in Functions |->
                      IF f \in Emits(m) \ lost THEN IF m.down THEN m.id ELSE 0 ELSE heldBy[f]]
      /\ stuck' = (stuck \ Emits(m)) \cup (IF target = "gone" THEN {} ELSE lost)
      /\ worker' = [pc |-> "idle", acc |-> Nothing]
      /\ UNCHANGED <<hidQ, hidSent, wsButtons, lane, releaser, barrier, torn>>
  BY DEF WorkerEmit
<1>2. worker'.pc = "idle" /\ worker'.acc = Nothing
  BY <1>1
<1>3. hidSent \in Nat /\ m.id \in Nat
  BY ReportId DEF HidInv, HidTypes
<1>4. HidTypes'
  <2>1. worker' \in [pc : {"idle", "peek", "take", "emit"}, acc : Reports]
    BY <1>1, NothingHeld
  <2> QED
    BY <1>1, <2>1 DEF HidInv, HidTypes
<1>5. OrderInv'
  BY <1>1 DEF HidInv, OrderInv
<1> HIDE DEF m
<1>6. ASSUME target = "gone", NEW f \in Functions PROVE heldBy[f] = 0 /\ heldBy'[f] = 0
  <2>1. heldBy[f] = 0
    BY <1>6 DEF HidInv, HandInv
  <2>2. f \notin Emits(m) \ lost
    BY <1>1, <1>6
  <2> QED
    BY <1>1, <2>1, <2>2
<1>7. target' = "gone" => target = "gone"
  BY <1>1
<1>8. HandInv'
  BY <1>1, <1>2, <1>3, <1>6, <1>7, NothingHeld DEF HandInv
<1>9. ASSUME ~torn PROVE Lifting'
  <2>1. CASE Again
    BY <1>1, <2>1 DEF Lifting, Again
  <2>2. CASE Queued
    BY <1>1, <2>2 DEF Lifting, Queued
  <2>3. CASE InHand
    <3>1. m.fn = "all" /\ m.id = barrier /\ m.down = FALSE /\ Emits(m) = Functions
      BY <2>3 DEF InHand, HidInv, HandInv, Emits, m
    <3>2. ASSUME NEW f \in Functions \ stuck' PROVE heldBy'[f] = 0
      <4>1. CASE target = "gone"
        BY <1>6, <4>1
      <4>2. CASE target # "gone"
        BY <1>1, <3>1, <3>2, <4>2
      <4> QED
        BY <4>1, <4>2
    <3>3. \A i \in 1..Len(hidQ) : hidQ[i].id > barrier
      BY <1>1, <3>1 DEF HidInv, HandInv, m
    <3> QED
      BY <1>1, <1>2, <3>2, <3>3 DEF Lifting, Lifted
  <2>4. CASE Lifted
    <3>1. m.id > barrier
      BY <1>1, <2>4 DEF Lifted, m
    <3>2. ASSUME NEW f \in Functions \ stuck' PROVE heldBy'[f] = 0 \/ heldBy'[f] > barrier
      <4>1. CASE target = "gone"
        BY <1>6, <4>1
      <4>2. CASE target # "gone" /\ f \in Emits(m) \ lost
        BY <1>1, <3>1, <4>2
      <4>3. CASE target # "gone" /\ f \notin Emits(m) \ lost
        <5>1. f \notin stuck /\ heldBy'[f] = heldBy[f]
          BY <1>1, <3>2, <4>3
        <5> QED
          BY <2>4, <5>1 DEF Lifted
      <4> QED
        BY <4>1, <4>2, <4>3
    <3> QED
      BY <1>1, <1>2, <2>4, <3>2 DEF Lifting, Lifted
  <2> QED
    BY <1>9, <2>1, <2>2, <2>3, <2>4 DEF HidInv, Lifting
<1> QED
  BY <1>1, <1>2, <1>4, <1>5, <1>8, <1>9 DEF HidInv, Peeked

(* The target sleeps, wakes and goes. *)
LEMMA TargetHid == HidInv /\ (TargetSleeps \/ TargetWakes \/ TargetGone) => HidInv'
<1> SUFFICES ASSUME HidInv, TargetSleeps \/ TargetWakes \/ TargetGone PROVE HidInv'
  OBVIOUS
<1>1. /\ UNCHANGED <<hidQ, hidSent, worker, wsButtons, lane, releaser, barrier, torn>>
      /\ \/ target' # "gone" /\ UNCHANGED <<heldBy, stuck>>
         \/ heldBy' = [f \in Functions |-> 0]
  BY DEF TargetSleeps, TargetWakes, TargetGone
<1>2. HidTypes' /\ OrderInv'
  BY <1>1 DEF HidInv, HidTypes, OrderInv
<1>3. HandInv'
  BY <1>1 DEF HidInv, HandInv
<1>4. ~torn => Peeked' /\ Lifting'
  BY <1>1 DEF HidInv, Peeked, Lifting, Again, Queued, InHand, Lifted
<1> QED
  BY <1>1, <1>2, <1>3, <1>4 DEF HidInv

(* For every depth of the queue and whatever the sockets, the runbook, the *)
(* jiggler and the pointer lane send around it: once all is drained, the   *)
(* last release-all has lifted what was pressed before it, on every        *)
(* function whose endpoint took its last report, unless a reset fell       *)
(* between the worker's peek and its receive.                              *)
THEOREM ReleaseAlwaysLifts == HidSpec => []ReleaseLifts
<1>1. HidInv /\ [HidNext]_hidVars => HidInv'
  <2> SUFFICES ASSUME HidInv, [HidNext]_hidVars PROVE HidInv'
    OBVIOUS
  <2>1. CASE UNCHANGED hidVars
    BY <2>1, BegunHid DEF hidVars, HidInv, HidTypes
  <2>2. CASE HidNext
    BY <2>2, ReleaseHid, SenderHid, TakeHid, MergeHid, EmitHid, TargetHid DEF HidNext
  <2> QED
    BY <2>1, <2>2
<1>2. HidInv => ReleaseLifts
  <2> SUFFICES ASSUME HidInv, Drained, ~torn PROVE Lifted
    BY DEF ReleaseLifts, Lifted
  <2>1. ~Again /\ ~InHand
    BY DEF Drained, Again, InHand
  <2>2. Len(hidQ) = 0
    BY DEF Drained
  <2>3. ~Queued
    BY <2>2 DEF Queued
  <2> QED
    BY <2>1, <2>3 DEF HidInv, Lifting
<1> QED
  BY <1>1, <1>2, InitHid, PTL DEF HidSpec

----------------------------------------------------------------------------
(* ClipSegments.  The clips that have been pinned, and for each that has   *)
(* not lost its hold a pin of its own with its first segment.              *)
ClipNos   == 0..MaxClips
Span(j)   == [id |-> j.id, first |-> j.first, last |-> j.last]
JobSet(q) == {q[i] : i \in DOMAIN q}

OnOf(c, conv, jobs, now) ==
    (IF c.pc = "on" THEN {[id |-> c.id, first |-> c.first, last |-> now]} ELSE {})
        \cup {Span(j) : j \in {k \in {conv} \cup JobSet(jobs) : k.id # 0}}

OnClips == OnOf(clip, clipConv, clipJobs, SegNow)

Backed(on, pins, lost) ==
    \E m \in [ClipNos -> DOMAIN pins] : \A c \in on : c.id \notin lost =>
        /\ pins[m[c.id]] = c.first
        /\ \A d \in on : d.id \notin lost /\ m[d.id] = m[c.id] => d.id = c.id

(* None of their segments was deleted.                                     *)
Clean(on, dead, lost) ==
    \A c \in on : c.id \in lost \/ \A g \in dead : ~(c.first <= g /\ g <= c.last)

JobRec  == [id : ClipNos, first : Nat, last : Nat, at : Nat, hole : BOOLEAN]
ClipRec == [id : ClipNos, pc : {"none", "picked", "on"}, first : Nat, end : Nat]

SegTypes ==
    /\ segTable \in Seq(Nat) /\ segNext \in Nat \ {0}
    /\ segPins \in [1..SegPins -> Nat] /\ segGone \subseteq Nat
ClipTypes ==
    /\ clip \in ClipRec /\ clipConv \in JobRec /\ clipJobs \in Seq(JobRec) /\ clipIds \in ClipNos

(* The table is in order, and what is gone is older.                       *)
InOrder(table, dead, n) ==
    /\ \A i, j \in 1..Len(table) : i < j => table[i] < table[j]
    /\ \A i \in 1..Len(table) : 0 < table[i] /\ table[i] < n
    /\ \A g \in dead : g < n /\ \A i \in 1..Len(table) : g < table[i]

TableInv == InOrder(segTable, segGone, segNext)

(* Every clip has a number of its own.                                     *)
JobOk(j) == j.id # 0 /\ j.id <= clipIds /\ j.first # 0 /\ j.last < segNext
ClipNoInv ==
    /\ clip.id <= clipIds /\ (clip.pc = "none" <=> clip.id = 0) /\ (clip.id # 0 => clip.first # 0)
    /\ \A i \in 1..Len(clipJobs) :
         /\ JobOk(clipJobs[i]) /\ clipJobs[i].id \notin {clip.id, clipConv.id} /\ ~clipJobs[i].hole
         /\ \A j \in 1..Len(clipJobs) : clipJobs[j].id = clipJobs[i].id => i = j
    /\ clipConv.id # 0 => /\ JobOk(clipConv) /\ clipConv.id # clip.id
                          /\ clipConv.first <= clipConv.at

PickedInv ==
    clip.pc = "picked" => clip.first \in segGone \/ \E i \in 1..Len(segTable) : segTable[i] = clip.first

ClipInv ==
    /\ SegTypes /\ ClipTypes /\ TableInv /\ ClipNoInv /\ PickedInv
    /\ Backed(OnClips, segPins, clipUnheld) /\ Clean(OnClips, segGone, clipUnheld)
    /\ ClipWhole

----------------------------------------------------------------------------
LEMMA LeastNo == ASSUME NEW S \in SUBSET Nat, S # {} PROVE \E x \in S : \A y \in S : x <= y
<1>1. PICK x \in S : \A y \in S : ~(<<y, x>> \in OpToRel(<, Nat))
  BY NatLessThanWellFounded, WFMin
<1>2. \A y \in S : ~(y < x)
  BY <1>1 DEF OpToRel
<1> QED
  BY <1>2

(* The first so many of a list, counted.                                   *)
LEMMA PrefixIs ==
    ASSUME NEW n \in Nat, NEW S \in SUBSET (1..n), \A i \in S : \A j \in 1..i : j \in S
    PROVE  /\ Cardinality(S) \in 0..n
           /\ \A i \in 1..Cardinality(S) : i \in S
<1>1. IsFiniteSet(1..n) /\ Cardinality(1..n) = n
  BY FS_Interval
<1>2. IsFiniteSet(S) /\ Cardinality(S) <= n /\ Cardinality(S) \in Nat
  BY <1>1, FS_Subset, FS_CardinalityType
<1>3. ASSUME NEW i \in 1..Cardinality(S), i \notin S PROVE FALSE
  <2>1. S \subseteq 1..(i - 1)
    BY <1>2, <1>3
  <2>2. IsFiniteSet(1..(i - 1)) /\ Cardinality(1..(i - 1)) = i - 1
    <3>1. PICK p \in Nat : p = i - 1
      BY <1>2
    <3>2. IsFiniteSet(1..p) /\ Cardinality(1..p) = p
      BY FS_Interval
    <3> QED
      BY <3>1, <3>2
  <2>3. Cardinality(S) <= i - 1
    BY <2>1, <2>2, FS_Subset
  <2> QED
    BY <1>2, <2>3
<1> QED
  BY <1>2, <1>3

LEMMA PinnedFromIs ==
    ASSUME segNext \in Nat, NEW pins \in [1..SegPins -> Nat]
    PROVE  /\ SegPinnedFrom(pins) \in Nat
           /\ \A i \in 1..SegPins : pins[i] # 0 => SegPinnedFrom(pins) <= pins[i]
<1> DEFINE used == {pins[i] : i \in DOMAIN pins} \ {0}
<1>1. used \in SUBSET Nat
  OBVIOUS
<1>2. SegPinnedFrom(pins) = IF used = {} THEN segNext + 1 ELSE CHOOSE p \in used : \A q \in used : p <= q
  BY DEF SegPinnedFrom
<1>3. \A i \in 1..SegPins : pins[i] # 0 => pins[i] \in used
  OBVIOUS
<1> HIDE DEF used
<1>4. CASE used = {}
  BY <1>2, <1>3, <1>4
<1>5. CASE used # {}
  <2>1. \E p \in used : \A q \in used : p <= q
    BY <1>1, <1>5, LeastNo
  <2>2. SegPinnedFrom(pins) \in used /\ \A q \in used : SegPinnedFrom(pins) <= q
    BY <1>2, <1>5, <2>1
  <2> QED
    BY <1>1, <1>3, <2>2
<1> QED
  BY <1>4, <1>5

(* seg_prune takes the oldest, and none that a pin holds unless the table  *)
(* is full.                                                                *)
LEMMA PruneIs ==
    ASSUME SegTypes, TableInv, NEW pins \in [1..SegPins -> Nat],
           NEW k \in SegPruned(segTable, pins, segNext)
    PROVE  /\ k \in 0..Len(segTable)
           /\ \/ Len(segTable) >= SegsMax - 1
              \/ \A i \in 1..k : segTable[i] < SegPinnedFrom(pins)
<1> DEFINE n    == Len(segTable)
           old  == {i \in 1 .. n : SegMayGo(segTable, pins, i) /\ segTable[i + 1] <= segNext - ClipPre}
           kept == n - Cardinality(old)
           over == IF kept >= SegsMax - 1 THEN kept - (SegsMax - 2) ELSE 0
           goes == Cardinality(old) + over
<1>0. n \in Nat /\ SegsMax \in Nat /\ SegsMax > 2 /\ ClipPre \in Nat /\ segNext \in Nat
  BY ClipSegmentsAssumption DEF SegTypes
<1>1. SegPinnedFrom(pins) \in Nat
  BY <1>0, PinnedFromIs
<1>2. k \in {goes} \cup {i \in goes + 1 .. n : SegMayGo(segTable, pins, i)}
  BY DEF SegPruned
<1>t. \A i \in 1..n : segTable[i] \in Nat
  BY DEF SegTypes
<1>3. \A i \in 1..n : \A j \in 1..i : SegMayGo(segTable, pins, i) => SegMayGo(segTable, pins, j)
  <2> SUFFICES ASSUME NEW i \in 1..n, NEW j \in 1..i, SegMayGo(segTable, pins, i)
               PROVE  SegMayGo(segTable, pins, j)
    OBVIOUS
  <2>1. i < n /\ segTable[i] < SegPinnedFrom(pins)
    BY DEF SegMayGo
  <2>2. j \in 1..n /\ segTable[j] <= segTable[i]
    BY <1>0, <1>t DEF TableInv, InOrder
  <2>3. j < n
    BY <1>0, <2>1
  <2>4. segTable[j] < SegPinnedFrom(pins)
    BY <1>1, <1>t, <2>1, <2>2
  <2> QED
    BY <2>3, <2>4 DEF SegMayGo
<1>4. \A i \in old : \A j \in 1..i : j \in old
  <2> SUFFICES ASSUME NEW i \in old, NEW j \in 1..i PROVE j \in old
    OBVIOUS
  <2>1. SegMayGo(segTable, pins, j)
    BY <1>3
  <2>2. i + 1 \in 1..n /\ j + 1 \in 1..n /\ j \in 1..n
    BY <1>0 DEF SegMayGo
  <2>3. segTable[j + 1] <= segTable[i + 1]
    BY <1>t, <2>2 DEF TableInv, InOrder
  <2> QED
    BY <1>0, <1>t, <2>1, <2>2, <2>3
<1>5. old \in SUBSET (1..n)
  OBVIOUS
<1> HIDE DEF old, n
<1>6. Cardinality(old) \in 0..n /\ \A i \in 1..Cardinality(old) : i \in old
  BY <1>0, <1>4, <1>5, PrefixIs
<1>7. kept \in 0..n /\ over \in 0..kept /\ goes \in 0..n
  BY <1>0, <1>6
<1>8. k \in 0..n
  BY <1>0, <1>2, <1>7
<1>9. CASE n >= SegsMax - 1
  BY <1>8, <1>9 DEF n
<1>10. CASE ~(n >= SegsMax - 1)
  <2>1. over = 0 /\ goes = Cardinality(old)
    BY <1>0, <1>6, <1>10
  <2>2. CASE k = goes
    <3>1. \A i \in 1..k : i \in old
      BY <1>6, <2>1, <2>2
    <3>2. \A i \in 1..k : SegMayGo(segTable, pins, i)
      BY <3>1 DEF old
    <3> QED
      BY <1>8, <3>2 DEF SegMayGo, n
  <2>3. CASE k # goes
    <3>1. SegMayGo(segTable, pins, k) /\ k \in 1..n
      BY <1>0, <1>2, <1>7, <2>3
    <3>2. \A i \in 1..k : SegMayGo(segTable, pins, i)
      BY <1>3, <3>1 DEF n
    <3> QED
      BY <1>8, <3>2 DEF SegMayGo, n
  <2> QED
    BY <2>2, <2>3
<1> QED
  BY <1>9, <1>10

(* Fewer clips, or more that lost their hold, need no more pins.           *)
LEMMA BackedLess ==
    ASSUME NEW on, NEW pins, NEW lost, Backed(on, pins, lost), NEW on2, NEW lost2,
           lost \subseteq lost2, \A c \in on2 : \E d \in on : d.id = c.id /\ d.first = c.first
    PROVE  Backed(on2, pins, lost2)
<1>1. PICK m \in [ClipNos -> DOMAIN pins] : \A c \in on : c.id \notin lost =>
        /\ pins[m[c.id]] = c.first
        /\ \A d \in on : d.id \notin lost /\ m[d.id] = m[c.id] => d.id = c.id
  BY DEF Backed
<1>2. ASSUME NEW c \in on2, c.id \notin lost2
      PROVE  /\ pins[m[c.id]] = c.first
             /\ \A d \in on2 : d.id \notin lost2 /\ m[d.id] = m[c.id] => d.id = c.id
  <2>1. PICK e \in on : e.id = c.id /\ e.first = c.first
    OBVIOUS
  <2>2. ASSUME NEW d \in on2, d.id \notin lost2, m[d.id] = m[c.id] PROVE d.id = c.id
    <3>1. PICK h \in on : h.id = d.id
      OBVIOUS
    <3> QED
      BY <1>1, <1>2, <2>1, <2>2, <3>1
  <2> QED
    BY <1>1, <1>2, <2>1, <2>2
<1> QED
  BY <1>2 DEF Backed

(* record_unpin_segments: the pin that goes back may be another clip's     *)
(* with the same first segment, which then has the one that stays.         *)
LEMMA BackedUnpin ==
    ASSUME NEW on, NEW pins \in [1..SegPins -> Nat], NEW lost, Backed(on, pins, lost),
           NEW c0 \in on, c0.id \in ClipNos, NEW on2, NEW lost2, lost \subseteq lost2,
           \A c \in on2 : c.id # c0.id /\ c.id \in ClipNos
                          /\ \E d \in on : d.id = c.id /\ d.first = c.first,
           c0.id \in lost => \A d \in on : d.first = c0.first => d.id \in lost2
    PROVE  Backed(on2, SegUnpin(pins, c0.first), lost2)
<1> DEFINE f  == c0.first
           at == {i \in DOMAIN pins : pins[i] = f}
<1>0. SegUnpin(pins, f) = IF at = {} THEN pins
                          ELSE [pins EXCEPT ![CHOOSE i \in at : \A j \in at : i <= j] = 0]
  BY DEF SegUnpin
<1>1. CASE at = {}
  <2>1. SegUnpin(pins, f) = pins
    BY <1>0, <1>1
  <2> QED
    BY <2>1, BackedLess
<1>2. CASE at # {}
  <2>1. at \in SUBSET Nat
    BY ClipSegmentsAssumption
  <2>2. \E i \in at : \A j \in at : i <= j
    BY <1>2, <2>1, LeastNo
  <2>3. PICK i \in at : SegUnpin(pins, f) = [pins EXCEPT ![i] = 0]
    BY <1>0, <1>2, <2>2
  <2> DEFINE new == [pins EXCEPT ![i] = 0]
  <2>4. i \in 1..SegPins /\ pins[i] = f /\ DOMAIN new = DOMAIN pins /\ DOMAIN pins = 1..SegPins
        /\ \A j \in 1..SegPins : j # i => new[j] = pins[j]
    OBVIOUS
  <2> HIDE DEF f, at, new
  <2>5. PICK m \in [ClipNos -> DOMAIN pins] : \A c \in on : c.id \notin lost =>
          /\ pins[m[c.id]] = c.first
          /\ \A d \in on : d.id \notin lost /\ m[d.id] = m[c.id] => d.id = c.id
    BY DEF Backed
  <2>6. CASE c0.id \in lost
    <3>1. ASSUME NEW c \in on2, c.id \notin lost2
          PROVE  /\ new[m[c.id]] = c.first
                 /\ \A d \in on2 : d.id \notin lost2 /\ m[d.id] = m[c.id] => d.id = c.id
      <4>1. PICK e \in on : e.id = c.id /\ e.first = c.first
        OBVIOUS
      <4>2. pins[m[c.id]] = c.first /\ c.first # f /\ m[c.id] \in 1..SegPins
        BY <2>4, <2>5, <2>6, <3>1, <4>1 DEF f
      <4>3. new[m[c.id]] = c.first
        BY <2>4, <4>2
      <4>4. ASSUME NEW d \in on2, d.id \notin lost2, m[d.id] = m[c.id] PROVE d.id = c.id
        <5>1. PICK h \in on : h.id = d.id
          OBVIOUS
        <5> QED
          BY <2>5, <3>1, <4>1, <4>4, <5>1
      <4> QED
        BY <4>3, <4>4
    <3>2. Backed(on2, new, lost2)
      BY <2>4, <3>1 DEF Backed
    <3> QED
      BY <2>3, <3>2 DEF new, f
  <2>7. CASE c0.id \notin lost
    <3> DEFINE w == [x \in ClipNos |-> IF m[x] = i THEN m[c0.id] ELSE m[x]]
    <3>1. w \in [ClipNos -> DOMAIN new]
      BY <2>4, <2>5
    <3>2. pins[m[c0.id]] = f /\ m[c0.id] \in 1..SegPins
      BY <2>4, <2>5, <2>7 DEF f
    <3>3. ASSUME NEW c \in on2, c.id \notin lost2
          PROVE  pins[m[c.id]] = c.first /\ m[c.id] # m[c0.id] /\ m[c.id] \in 1..SegPins
      <4>1. PICK e \in on : e.id = c.id /\ e.first = c.first
        OBVIOUS
      <4> QED
        BY <2>4, <2>5, <2>7, <3>3, <4>1
    <3>4. ASSUME NEW c \in on2, c.id \notin lost2, NEW d \in on2, d.id \notin lost2, m[d.id] = m[c.id]
          PROVE  d.id = c.id
      <4>1. PICK e \in on : e.id = c.id
        OBVIOUS
      <4>2. PICK h \in on : h.id = d.id
        OBVIOUS
      <4> QED
        BY <2>5, <3>4, <4>1, <4>2
    <3>5. ASSUME NEW c \in on2, c.id \notin lost2
          PROVE  /\ new[w[c.id]] = c.first
                 /\ \A d \in on2 : d.id \notin lost2 /\ w[d.id] = w[c.id] => d.id = c.id
      <4>1. new[w[c.id]] = c.first
        BY <2>4, <3>2, <3>3, <3>5
      <4>2. ASSUME NEW d \in on2, d.id \notin lost2, w[d.id] = w[c.id] PROVE d.id = c.id
        BY <3>3, <3>4, <3>5, <4>2
      <4> QED
        BY <4>1, <4>2
    <3> HIDE DEF w
    <3>6. Backed(on2, new, lost2)
      BY <3>1, <3>5 DEF Backed
    <3> QED
      BY <2>3, <3>6 DEF new, f
  <2> QED
    BY <2>6, <2>7
<1> QED
  BY <1>1, <1>2

(* seg_pin: a free pin, or the first one's.                                *)
LEMMA BackedPin ==
    ASSUME NEW on, NEW pins \in [1..SegPins -> Nat], NEW lost, Backed(on, pins, lost),
           NEW c0, c0.id \in ClipNos, NEW lost2, lost \subseteq lost2,
           \A c \in on : c.id # c0.id /\ c.id \in ClipNos /\ c.first # 0,
           (\A i \in DOMAIN pins : pins[i] # 0) =>
               \A d \in on \cup {c0} : d.first = pins[1] => d.id \in lost2
    PROVE  Backed(on \cup {c0}, SegPin(pins, c0.first), lost2)
<1> DEFINE free == {i \in DOMAIN pins : pins[i] = 0}
           k == IF free = {} THEN 1 ELSE CHOOSE i \in free : \A j \in free : i <= j
           new == [pins EXCEPT ![k] = c0.first]
<1>0. SegPin(pins, c0.first) = new
  BY DEF SegPin
<1>1. k \in 1..SegPins /\ (pins[k] = 0 \/ (k = 1 /\ \A i \in DOMAIN pins : pins[i] # 0))
  <2>1. CASE free = {}
    BY <2>1, ClipSegmentsAssumption
  <2>2. CASE free # {}
    <3>1. free \in SUBSET Nat
      BY ClipSegmentsAssumption
    <3>2. \E i \in free : \A j \in free : i <= j
      BY <2>2, <3>1, LeastNo
    <3>3. k \in free
      BY <2>2, <3>2
    <3> QED
      BY <3>3
  <2> QED
    BY <2>1, <2>2
<1> HIDE DEF k, free
<1>2. DOMAIN new = DOMAIN pins /\ DOMAIN pins = 1..SegPins /\ new[k] = c0.first
      /\ \A j \in 1..SegPins : j # k => new[j] = pins[j]
  BY <1>1
<1> HIDE DEF new
<1>3. PICK m \in [ClipNos -> DOMAIN pins] : \A c \in on : c.id \notin lost =>
        /\ pins[m[c.id]] = c.first
        /\ \A d \in on : d.id \notin lost /\ m[d.id] = m[c.id] => d.id = c.id
  BY DEF Backed
<1> DEFINE w == [m EXCEPT ![c0.id] = k]
<1>4. w \in [ClipNos -> DOMAIN new] /\ w[c0.id] = k /\ \A x \in ClipNos : x # c0.id => w[x] = m[x]
  BY <1>1, <1>2, <1>3
<1> HIDE DEF w
<1>5. ASSUME NEW c \in on, c.id \notin lost2
      PROVE  w[c.id] = m[c.id] /\ m[c.id] # k /\ new[m[c.id]] = c.first /\ m[c.id] \in 1..SegPins
  <2>1. w[c.id] = m[c.id] /\ pins[m[c.id]] = c.first /\ m[c.id] \in 1..SegPins /\ c.first # 0
    BY <1>2, <1>3, <1>4, <1>5
  <2>2. m[c.id] # k
    BY <1>1, <1>5, <2>1
  <2> QED
    BY <1>2, <2>1, <2>2
<1>6. ASSUME NEW c \in on \cup {c0}, c.id \notin lost2
      PROVE  /\ new[w[c.id]] = c.first
             /\ \A d \in on \cup {c0} : d.id \notin lost2 /\ w[d.id] = w[c.id] => d.id = c.id
  <2>1. CASE c \in on
    <3>1. new[w[c.id]] = c.first
      BY <1>5, <1>6, <2>1
    <3>2. ASSUME NEW d \in on \cup {c0}, d.id \notin lost2, w[d.id] = w[c.id] PROVE d.id = c.id
      BY <1>3, <1>4, <1>5, <1>6, <2>1, <3>2
    <3> QED
      BY <3>1, <3>2
  <2>2. CASE c = c0
    <3>1. new[w[c.id]] = c.first
      BY <1>2, <1>4, <2>2
    <3>2. ASSUME NEW d \in on \cup {c0}, d.id \notin lost2, w[d.id] = w[c.id] PROVE d.id = c.id
      BY <1>4, <1>5, <2>2, <3>2
    <3> QED
      BY <3>1, <3>2
  <2> QED
    BY <1>6, <2>1, <2>2
<1>7. Backed(on \cup {c0}, new, lost2)
  BY <1>4, <1>6 DEF Backed
<1> QED
  BY <1>0, <1>7

----------------------------------------------------------------------------
(* The table and the queue.                                                *)
LEMMA OrderCut ==
    ASSUME NEW s \in Seq(Nat), NEW dead \in SUBSET Nat, NEW n \in Nat, InOrder(s, dead, n),
           NEW k \in 0..Len(s)
    PROVE  LET t == SubSeq(s, k + 1, Len(s))
               g == dead \cup {s[i] : i \in 1..k}
           IN  /\ t \in Seq(Nat) /\ g \in SUBSET Nat /\ InOrder(t, g, n)
               /\ \A i \in 1..Len(s) : s[i] \in g \/ \E j \in 1..Len(t) : t[j] = s[i]
<1> DEFINE t == SubSeq(s, k + 1, Len(s))
           g == dead \cup {s[i] : i \in 1..k}
<1>1. t \in Seq(Nat) /\ Len(t) = Len(s) - k /\ \A i \in 1..Len(t) : t[i] = s[k + i]
  <2>1. CASE k = Len(s)
    BY <2>1, SubSeqProperties
  <2>2. CASE k < Len(s)
    BY <2>2, SubSeqProperties
  <2> QED
    BY <2>1, <2>2
<1>2. g \in SUBSET Nat
  <2>1. \A i \in 1..k : i \in 1..Len(s) /\ s[i] \in Nat
    OBVIOUS
  <2> QED
    BY <2>1
<1> HIDE DEF t
<1>3. \A i \in 1..Len(t) : k + i \in 1..Len(s)
  BY <1>1
<1>4. ASSUME NEW i \in 1..Len(t), NEW j \in 1..Len(t), i < j PROVE t[i] < t[j]
  <2>1. k + i \in 1..Len(s) /\ k + j \in 1..Len(s) /\ k + i < k + j
    BY <1>3, <1>4
  <2>2. s[k + i] < s[k + j]
    BY <2>1 DEF InOrder
  <2> QED
    BY <1>1, <2>2
<1>5. \A i \in 1..Len(t) : 0 < t[i] /\ t[i] < n
  BY <1>1, <1>3 DEF InOrder
<1>6. ASSUME NEW x \in g PROVE x < n /\ \A i \in 1..Len(t) : x < t[i]
  <2>1. CASE x \in dead
    BY <1>1, <1>3, <2>1 DEF InOrder
  <2>2. ASSUME NEW h \in 1..k, x = s[h] PROVE x < n /\ \A i \in 1..Len(t) : x < t[i]
    <3>1. h \in 1..Len(s) /\ \A i \in 1..Len(t) : h < k + i
      BY <1>1
    <3> QED
      BY <1>1, <1>3, <2>2, <3>1 DEF InOrder
  <2> QED
    BY <2>1, <2>2
<1>7. ASSUME NEW i \in 1..Len(s) PROVE s[i] \in g \/ \E j \in 1..Len(t) : t[j] = s[i]
  <2>1. CASE i <= k
    BY <2>1
  <2>2. CASE i > k
    <3>1. i - k \in 1..Len(t) /\ t[i - k] = s[i]
      BY <1>1, <2>2
    <3> QED
      BY <3>1
  <2> QED
    BY <2>1, <2>2
<1> HIDE DEF g
<1>8. InOrder(t, g, n)
  BY <1>4, <1>5, <1>6 DEF InOrder
<1> QED
  BY <1>1, <1>2, <1>7, <1>8 DEF t, g

LEMMA OrderAppend ==
    ASSUME NEW s \in Seq(Nat), NEW dead \in SUBSET Nat, NEW n \in Nat \ {0}, InOrder(s, dead, n)
    PROVE  /\ Append(s, n) \in Seq(Nat) /\ InOrder(Append(s, n), dead, n + 1)
           /\ \A i \in 1..Len(s) : i \in 1..Len(Append(s, n)) /\ Append(s, n)[i] = s[i]
<1> DEFINE t == Append(s, n)
<1>1. t \in Seq(Nat) /\ Len(t) = Len(s) + 1 /\ t[Len(t)] = n
      /\ \A i \in 1..Len(s) : i \in 1..Len(t) /\ t[i] = s[i]
  OBVIOUS
<1> HIDE DEF t
<1>2. \A i \in 1..Len(t) : i = Len(t) \/ i \in 1..Len(s)
  BY <1>1
<1>3. \A g \in dead : g \in Nat
  OBVIOUS
<1>4. \A i \in 1..Len(s) : s[i] \in Nat
  OBVIOUS
<1>5. \A i, j \in 1..Len(t) : i < j => t[i] < t[j]
  <2> SUFFICES ASSUME NEW i \in 1..Len(t), NEW j \in 1..Len(t), i < j PROVE t[i] < t[j]
    OBVIOUS
  <2>1. i \in 1..Len(s) /\ t[i] = s[i]
    BY <1>1, <1>2
  <2>2. CASE j = Len(t)
    BY <1>1, <2>1, <2>2 DEF InOrder
  <2>3. CASE j \in 1..Len(s)
    BY <1>1, <2>1, <2>3 DEF InOrder
  <2> QED
    BY <1>2, <2>2, <2>3
<1>6. \A i \in 1..Len(t) : 0 < t[i] /\ t[i] < n + 1
  <2> SUFFICES ASSUME NEW i \in 1..Len(t) PROVE 0 < t[i] /\ t[i] < n + 1
    OBVIOUS
  <2>1. CASE i = Len(t)
    BY <1>1, <2>1
  <2>2. CASE i \in 1..Len(s)
    <3>1. t[i] = s[i] /\ s[i] \in Nat /\ 0 < s[i] /\ s[i] < n
      BY <1>1, <1>4, <2>2 DEF InOrder
    <3> QED
      BY <3>1
  <2> QED
    BY <1>2, <2>1, <2>2
<1>7. ASSUME NEW g \in dead PROVE g < n + 1 /\ \A i \in 1..Len(t) : g < t[i]
  <2>1. g < n /\ \A i \in 1..Len(s) : g < s[i]
    BY DEF InOrder
  <2> QED
    BY <1>1, <1>2, <1>3, <2>1
<1>8. InOrder(t, dead, n + 1)
  BY <1>5, <1>6, <1>7 DEF InOrder
<1> QED
  BY <1>1, <1>8 DEF t

LEMMA OrderLater ==
    ASSUME NEW s \in Seq(Nat), NEW dead \in SUBSET Nat, NEW n \in Nat, InOrder(s, dead, n)
    PROVE  InOrder(s, dead, n + 1)
<1>1. \A i \in 1..Len(s) : s[i] \in Nat
  OBVIOUS
<1> QED
  BY <1>1 DEF InOrder

LEMMA JoinOne ==
    ASSUME NEW S, NEW s \in Seq(S), NEW e \in S PROVE s \o <<e>> = Append(s, e) /\ s \o <<>> = s
<1>1. <<e>> \in Seq(S) /\ Len(<<e>>) = 1 /\ <<e>>[1] = e
  OBVIOUS
<1>2. /\ s \o <<e>> \in Seq(S) /\ Len(s \o <<e>>) = Len(s) + 1
      /\ \A i \in 1..Len(s) + 1 : (s \o <<e>>)[i] = IF i <= Len(s) THEN s[i] ELSE <<e>>[i - Len(s)]
  BY <1>1, ConcatProperties
<1>3. /\ Append(s, e) \in Seq(S) /\ Len(Append(s, e)) = Len(s) + 1
      /\ \A i \in 1..Len(s) + 1 : Append(s, e)[i] = IF i <= Len(s) THEN s[i] ELSE e
  OBVIOUS
<1>4. \A i \in 1..Len(s) + 1 : ~(i <= Len(s)) => i - Len(s) = 1
  OBVIOUS
<1>5. \A i \in 1..Len(s) + 1 : (s \o <<e>>)[i] = Append(s, e)[i]
  BY <1>1, <1>2, <1>3, <1>4
<1>6. s \o <<e>> = Append(s, e)
  BY <1>2, <1>3, <1>5, SeqEqual
<1> QED
  BY <1>6, ConcatEmptySeq

LEMMA JobsAppend ==
    ASSUME NEW S, NEW q \in Seq(S), NEW e \in S PROVE JobSet(Append(q, e)) = JobSet(q) \cup {e}
<1>1. /\ DOMAIN Append(q, e) = 1..Len(q) + 1 /\ DOMAIN q = 1..Len(q) /\ Len(q) \in Nat
      /\ Append(q, e)[Len(q) + 1] = e /\ \A i \in 1..Len(q) : Append(q, e)[i] = q[i]
  OBVIOUS
<1>2. \A i \in 1..Len(q) + 1 : i = Len(q) + 1 \/ i \in 1..Len(q)
  BY <1>1
<1>3. Len(q) + 1 \in 1..Len(q) + 1 /\ \A i \in 1..Len(q) : i \in 1..Len(q) + 1
  BY <1>1
<1> QED
  BY <1>1, <1>2, <1>3 DEF JobSet

LEMMA JobsTail ==
    ASSUME NEW S, NEW q \in Seq(S), q # <<>> PROVE JobSet(q) = {Head(q)} \cup JobSet(Tail(q))
<1>1. /\ DOMAIN Tail(q) = 1..Len(q) - 1 /\ DOMAIN q = 1..Len(q) /\ Len(q) \in Nat \ {0}
      /\ Head(q) = q[1] /\ \A i \in 1..Len(q) - 1 : Tail(q)[i] = q[i + 1]
  OBVIOUS
<1>2. \A i \in 1..Len(q) : i = 1 \/ i - 1 \in 1..Len(q) - 1
  BY <1>1
<1>3. 1 \in 1..Len(q) /\ \A i \in 1..Len(q) - 1 : i + 1 \in 1..Len(q)
  BY <1>1
<1>4. \A i \in 1..Len(q) : i # 1 => q[i] = Tail(q)[i - 1]
  BY <1>1, <1>2
<1>5. ASSUME NEW x \in JobSet(q) PROVE x \in {Head(q)} \cup JobSet(Tail(q))
  <2>1. PICK i \in 1..Len(q) : x = q[i]
    BY <1>1 DEF JobSet
  <2>2. CASE i = 1
    BY <1>1, <2>1, <2>2
  <2>3. CASE i # 1
    BY <1>1, <1>2, <1>4, <2>1, <2>3 DEF JobSet
  <2> QED
    BY <2>2, <2>3
<1>6. ASSUME NEW x \in JobSet(Tail(q)) PROVE x \in JobSet(q)
  <2>1. PICK i \in 1..Len(q) - 1 : x = Tail(q)[i]
    BY <1>1 DEF JobSet
  <2>2. i + 1 \in DOMAIN q /\ x = q[i + 1]
    BY <1>1, <1>3, <2>1
  <2> QED
    BY <2>2 DEF JobSet
<1>7. Head(q) \in JobSet(q)
  BY <1>1, <1>3 DEF JobSet
<1> QED
  BY <1>5, <1>6, <1>7

----------------------------------------------------------------------------
(* The clips and what they follow from.                                    *)
Follow(on2, on, n) ==
    \A c \in on2 : \E d \in on : /\ d.id = c.id /\ d.first = c.first
                                 /\ c.last <= d.last \/ d.last = n - 1

LEMMA CleanStep ==
    ASSUME NEW on, NEW dead \in SUBSET Nat, NEW lost, Clean(on, dead, lost),
           NEW n \in Nat, \A g \in dead : g < n,
           NEW on2, NEW dead2, NEW lost2, lost \subseteq lost2, Follow(on2, on, n),
           \A c \in on : c.first \in Nat /\ c.last \in Nat,
           \A c \in on2 : c.first \in Nat /\ c.last \in Nat,
           \A c \in on2 : c.id \in lost2 \/ \A g \in dead2 \ dead : ~(c.first <= g /\ g <= c.last)
    PROVE  Clean(on2, dead2, lost2)
<1> SUFFICES ASSUME NEW c \in on2, c.id \notin lost2, NEW g \in dead2, c.first <= g /\ g <= c.last
             PROVE  FALSE
  BY DEF Clean
<1>1. PICK d \in on : d.id = c.id /\ d.first = c.first /\ (c.last <= d.last \/ d.last = n - 1)
  BY DEF Follow
<1>2. g \in dead
  OBVIOUS
<1>3. d.first <= g /\ g <= d.last
  BY <1>1, <1>2
<1> QED
  BY <1>1, <1>2, <1>3 DEF Clean

LEMMA OnIs ==
    ASSUME SegTypes, ClipTypes, ClipNoInv, NEW c \in OnClips
    PROVE  /\ c.id \in ClipNos /\ c.id # 0 /\ c.id <= clipIds
           /\ c.first \in Nat /\ c.first # 0 /\ c.last \in Nat
           /\ c \in LiveClips
<1>0. SegNow \in Nat
  BY DEF SegNow, SegTypes
<1>1. CASE clip.pc = "on" /\ c = [id |-> clip.id, first |-> clip.first, last |-> SegNow]
  <2>1. clip.id # 0 /\ clip.id <= clipIds /\ clip.first # 0
    BY <1>1 DEF ClipNoInv
  <2>2. c \in LiveClips
    BY <1>1, <2>1 DEF LiveClips
  <2> QED
    BY <1>0, <1>1, <2>1, <2>2 DEF ClipTypes, ClipRec
<1>2. ASSUME NEW j, j = clipConv \/ (\E i \in 1..Len(clipJobs) : j = clipJobs[i]), j.id # 0, c = Span(j)
      PROVE  /\ c.id \in ClipNos /\ c.id # 0 /\ c.id <= clipIds
             /\ c.first \in Nat /\ c.first # 0 /\ c.last \in Nat
             /\ c \in LiveClips
  <2>1. j \in JobRec /\ JobOk(j)
    BY <1>2 DEF ClipTypes, ClipNoInv
  <2>2. c.id = j.id /\ c.first = j.first /\ c.last = j.last
    BY <1>2 DEF Span
  <2>3. j \in {clipConv} \cup {clipJobs[i] : i \in DOMAIN clipJobs}
    BY <1>2 DEF ClipTypes
  <2>4. c \in LiveClips
    BY <1>2, <2>2, <2>3 DEF LiveClips, Span
  <2> QED
    BY <2>1, <2>2, <2>4 DEF JobRec, JobOk
<1>3. (clip.pc = "on" /\ c = [id |-> clip.id, first |-> clip.first, last |-> SegNow])
      \/ \E j \in {k \in {clipConv} \cup JobSet(clipJobs) : k.id # 0} : c = Span(j)
  BY DEF OnClips, OnOf
<1>4. DOMAIN clipJobs = 1..Len(clipJobs)
  BY DEF ClipTypes
<1> QED
  BY <1>1, <1>2, <1>3, <1>4 DEF JobSet

LEMMA OnTypes ==
    ASSUME NEW c \in ClipRec, NEW conv \in JobRec, NEW jobs \in Seq(JobRec), NEW now \in Nat,
           NEW x \in OnOf(c, conv, jobs, now)
    PROVE  x.id \in ClipNos /\ x.first \in Nat /\ x.last \in Nat
<1>1. CASE x = [id |-> c.id, first |-> c.first, last |-> now]
  BY <1>1 DEF ClipRec
<1>2. ASSUME NEW j \in {conv} \cup JobSet(jobs), x = Span(j)
      PROVE  x.id \in ClipNos /\ x.first \in Nat /\ x.last \in Nat
  <2>1. j \in JobRec
    BY DEF JobSet
  <2> QED
    BY <1>2, <2>1 DEF Span, JobRec
<1> QED
  BY <1>1, <1>2 DEF OnOf

LEMMA SubFollow ==
    ASSUME NEW on2, NEW on, on2 \subseteq on, \A c \in on : c.last \in Nat, NEW n
    PROVE  Follow(on2, on, n)
BY DEF Follow

(* The clip being saved stays or goes, the jobs stay.                      *)
LEMMA OnSame ==
    ASSUME SegTypes, ClipTypes, ClipNoInv, clipJobs' = clipJobs, Span(clipConv') = Span(clipConv),
           clip'.pc = "on" => clip.pc = "on" /\ clip'.id = clip.id /\ clip'.first = clip.first
    PROVE  Follow(OnClips', OnClips, segNext)
<1> SUFFICES ASSUME NEW c \in OnClips'
             PROVE  \E d \in OnClips : /\ d.id = c.id /\ d.first = c.first
                                       /\ c.last <= d.last \/ d.last = segNext - 1
  BY DEF Follow
<1>1. CASE clip'.pc = "on" /\ c = [id |-> clip'.id, first |-> clip'.first, last |-> SegNow']
  <2> DEFINE d == [id |-> clip.id, first |-> clip.first, last |-> SegNow]
  <2>1. d \in OnClips
    BY <1>1 DEF OnClips, OnOf
  <2>2. d.id = c.id /\ d.first = c.first /\ d.last = segNext - 1
    BY <1>1 DEF SegNow
  <2> QED
    BY <2>1, <2>2
<1>2. ASSUME NEW j, j \in {clipConv'} \cup JobSet(clipJobs), j.id # 0, c = Span(j) PROVE c \in OnClips
  <2>1. CASE j \in JobSet(clipJobs)
    BY <1>2, <2>1 DEF OnClips, OnOf
  <2>2. CASE j = clipConv'
    <3>1. c = Span(clipConv) /\ Span(clipConv).id = Span(j).id
      BY <1>2, <2>2
    <3>2. clipConv.id # 0
      BY <1>2, <3>1 DEF Span
    <3> QED
      BY <3>1, <3>2 DEF OnClips, OnOf
  <2> QED
    BY <1>2, <2>1, <2>2
<1>3. CASE c \in OnClips
  BY <1>3, OnIs
<1>4. (clip'.pc = "on" /\ c = [id |-> clip'.id, first |-> clip'.first, last |-> SegNow'])
      \/ \E j \in {k \in {clipConv'} \cup JobSet(clipJobs') : k.id # 0} : c = Span(j)
  BY DEF OnClips, OnOf
<1> QED
  BY <1>1, <1>2, <1>3, <1>4

(* Nothing is deleted and no pin moves.                                    *)
LEMMA OnKept ==
    ASSUME ClipInv, SegTypes', ClipTypes', Follow(OnClips', OnClips, segNext),
           segGone' = segGone, segPins' = segPins, clipUnheld \subseteq clipUnheld'
    PROVE  Backed(OnClips, segPins, clipUnheld)' /\ Clean(OnClips, segGone, clipUnheld)'
<1> USE DEF ClipInv
<1>1. \A c \in OnClips : c.first \in Nat /\ c.last \in Nat
  BY OnIs
<1>2. SegNow' \in Nat
  <2>1. segNext' \in Nat \ {0}
    BY DEF SegTypes
  <2>2. \A n \in Nat \ {0} : n - 1 \in Nat
    OBVIOUS
  <2> QED
    BY <2>1, <2>2 DEF SegNow
<1>3. \A c \in OnClips' : c.first \in Nat /\ c.last \in Nat
  BY <1>2, OnTypes DEF OnClips, ClipTypes
<1>4. segGone \in SUBSET Nat /\ segNext \in Nat /\ \A g \in segGone : g < segNext
  BY DEF SegTypes, TableInv, InOrder
<1>5. \A c \in OnClips' : \E d \in OnClips : d.id = c.id /\ d.first = c.first
  BY DEF Follow
<1>6. Backed(OnClips', segPins, clipUnheld')
  BY <1>5, BackedLess
<1>7. Clean(OnClips', segGone, clipUnheld')
  BY <1>1, <1>3, <1>4, CleanStep
<1> QED
  BY <1>6, <1>7

LEMMA StartClip == ASSUME ClipInv, SegStart PROVE ClipInv'
<1> USE DEF ClipInv
<1>1. /\ segNext' = segNext + 1 /\ clip.pc # "picked"
      /\ UNCHANGED <<segPins, segGone, clipJobs, clipConv, clipIds, clipUnheld>>
      /\ \/ clip' = NoClip /\ segTable' = Append(segTable, segNext)
         \/ clip' = clip /\ segTable' = segTable
  BY DEF SegStart
<1>2. segTable \in Seq(Nat) /\ segNext \in Nat \ {0} /\ segGone \in SUBSET Nat
  BY DEF SegTypes
<1>3. segTable' \in Seq(Nat) /\ TableInv'
  BY <1>1, <1>2, OrderAppend, OrderLater DEF TableInv
<1>4. SegTypes'
  BY <1>1, <1>2, <1>3 DEF SegTypes
<1>5. NoClip \in ClipRec /\ NoClip.id = 0 /\ NoClip.pc = "none"
  BY ClipSegmentsAssumption DEF NoClip, ClipRec, ClipNos
<1>6. ClipTypes'
  BY <1>1, <1>5 DEF ClipTypes
<1>7. \A j : JobOk(j) /\ j \in JobRec => JobOk(j)'
  BY <1>1, <1>2 DEF JobOk, JobRec
<1>8. ClipNoInv'
  <2>1. \A i \in 1..Len(clipJobs) : clipJobs[i] \in JobRec
    BY DEF ClipTypes
  <2>2. clip'.id <= clipIds' /\ (clip'.pc = "none" <=> clip'.id = 0) /\ (clip'.id # 0 => clip'.first # 0)
        /\ clip'.id \in {0, clip.id}
    BY <1>1, <1>5 DEF ClipNoInv, ClipTypes, ClipNos
  <2>3. \A i \in 1..Len(clipJobs) :
          /\ JobOk(clipJobs[i])' /\ clipJobs[i].id \notin {clip'.id, clipConv.id} /\ ~clipJobs[i].hole
          /\ \A j \in 1..Len(clipJobs) : clipJobs[j].id = clipJobs[i].id => i = j
    BY <1>1, <1>7, <2>1, <2>2 DEF ClipNoInv, JobOk
  <2>4. clipConv.id # 0 => /\ JobOk(clipConv)' /\ clipConv.id # clip'.id
                           /\ clipConv.first <= clipConv.at
    BY <1>1, <1>7, <2>2 DEF ClipNoInv, ClipTypes
  <2> QED
    BY <1>1, <2>2, <2>3, <2>4 DEF ClipNoInv
<1>9. PickedInv'
  BY <1>1, <1>5 DEF PickedInv
<1>10. Follow(OnClips', OnClips, segNext)
  BY <1>1, <1>5, OnSame
<1>11. Backed(OnClips, segPins, clipUnheld)' /\ Clean(OnClips, segGone, clipUnheld)'
  BY <1>1, <1>4, <1>6, <1>10, OnKept
<1>12. ClipWhole'
  BY <1>1 DEF ClipWhole
<1> QED
  BY <1>3, <1>4, <1>6, <1>8, <1>9, <1>11, <1>12

(* Events, and a clip that is given up.                                    *)
LEMMA EventClip == ASSUME ClipInv, SegOff \/ ClipPick \/ ClipExtend PROVE ClipInv'
<1> USE DEF ClipInv
<1>0. UNCHANGED <<segTable, segNext, segPins, segGone, clipJobs, clipConv, clipUnheld>>
  BY DEF SegOff, ClipPick, ClipExtend, segVars
<1>1. SegTypes' /\ TableInv' /\ ClipWhole'
  BY <1>0 DEF SegTypes, TableInv, ClipWhole
<1>2. NoClip \in ClipRec /\ NoClip.id = 0 /\ NoClip.pc = "none"
  BY ClipSegmentsAssumption DEF NoClip, ClipRec, ClipNos
<1>3. segNext \in Nat \ {0} /\ SegNow \in Nat /\ ClipPost \in Nat /\ ClipPre \in Nat /\ MaxClips \in Nat
  BY ClipSegmentsAssumption DEF SegTypes, SegNow
<1>4. /\ clipIds' \in ClipNos /\ clipIds <= clipIds' /\ clip' \in ClipRec
      /\ clip'.id <= clipIds' /\ (clip'.pc = "none" <=> clip'.id = 0) /\ (clip'.id # 0 => clip'.first # 0)
      /\ clip'.id \in {0, clip.id} \/ clip'.id = clipIds + 1
      /\ clip'.pc = "on" => clip.pc = "on" /\ clip'.id = clip.id /\ clip'.first = clip.first
      /\ PickedInv'
  <2>1. CASE SegOff
    <3>1. clip' = NoClip \/ clip' = clip
      BY <2>1 DEF SegOff
    <3>2. clipIds' = clipIds
      BY <2>1 DEF SegOff
    <3>3. PickedInv'
      BY <1>0, <1>2, <3>1 DEF PickedInv
    <3> QED
      BY <1>2, <3>1, <3>2, <3>3 DEF ClipTypes, ClipNoInv, ClipNos
  <2>2. CASE ClipPick
    <3> DEFINE past == {i \in DOMAIN segTable : segTable[i] <= SegNow - ClipPre}
               i    == IF past = {} THEN 1 ELSE CHOOSE k \in past : \A j \in past : j <= k
    <3>1. /\ clipIds < MaxClips /\ clipIds' = clipIds + 1 /\ segTable # <<>>
          /\ clip' = [id |-> clipIds + 1, pc |-> "picked", first |-> segTable[i], end |-> SegNow + ClipPost]
      BY <2>2 DEF ClipPick
    <3>2. i \in 1..Len(segTable)
      <4>1. CASE past = {}
        BY <3>1, <4>1 DEF SegTypes
      <4>2. CASE past # {}
        <5> DEFINE S == {Len(segTable) - h : h \in past}
        <5>1. Len(segTable) \in Nat /\ past \subseteq 1..Len(segTable)
          BY DEF SegTypes
        <5> HIDE DEF past
        <5>a. \A h \in past : h \in Nat /\ Len(segTable) - h \in Nat
          BY <5>1
        <5>b. \A h \in past : Len(segTable) - h \in S
          OBVIOUS
        <5>2. S \in SUBSET Nat /\ S # {}
          <6>1. S \in SUBSET Nat
            BY <5>a
          <6>2. S # {}
            BY <4>2, <5>b
          <6> QED
            BY <6>1, <6>2
        <5>3. PICK x \in S : \A y \in S : x <= y
          BY <5>2, LeastNo
        <5>4. PICK k \in past : x = Len(segTable) - k
          BY <5>3
        <5> HIDE DEF S
        <5>5. \A j \in past : j <= k
          <6>1. \A j \in past : Len(segTable) - k <= Len(segTable) - j
            BY <5>b, <5>3, <5>4
          <6> QED
            BY <5>1, <5>a, <6>1
        <5>6. i \in past
          BY <4>2, <5>4, <5>5
        <5> QED
          BY <5>1, <5>6
      <4> QED
        BY <4>1, <4>2
    <3> HIDE DEF i
    <3>3. segTable[i] \in Nat /\ segTable[i] # 0
      BY <3>2 DEF SegTypes, TableInv, InOrder
    <3>4. clipIds + 1 \in ClipNos /\ SegNow + ClipPost \in Nat /\ clipIds \in Nat
      BY <1>3, <3>1 DEF ClipTypes, ClipNos
    <3>5. clip' \in ClipRec
      BY <3>1, <3>3, <3>4 DEF ClipRec
    <3>6. PickedInv'
      BY <1>0, <3>1, <3>2 DEF PickedInv
    <3> QED
      BY <3>1, <3>3, <3>4, <3>5, <3>6
  <2>3. CASE ClipExtend
    <3>1. clip' = [clip EXCEPT !.end = SegNow + ClipPost] /\ clipIds' = clipIds /\ clip.pc = "on"
      BY <2>3 DEF ClipExtend
    <3>2. SegNow + ClipPost \in Nat
      BY <1>3
    <3>3. clip' \in ClipRec /\ clip'.id = clip.id /\ clip'.pc = clip.pc /\ clip'.first = clip.first
      BY <3>1, <3>2 DEF ClipTypes, ClipRec
    <3> QED
      BY <3>1, <3>3 DEF ClipTypes, ClipNoInv, PickedInv, ClipNos
  <2> QED
    BY <2>1, <2>2, <2>3
<1>5. ClipTypes'
  BY <1>0, <1>4 DEF ClipTypes
<1>6. clipIds \in Nat /\ \A i \in 1..Len(clipJobs) : clipJobs[i] \in JobRec
  BY DEF ClipTypes, ClipNos
<1>7. \A j \in JobRec : JobOk(j) => JobOk(j)' /\ j.id # clipIds + 1 /\ j.id # 0
  BY <1>0, <1>4, <1>6 DEF JobOk, JobRec, ClipNos
<1>8. ClipNoInv'
  <2>a. \A i \in 1..Len(clipJobs) :
          /\ JobOk(clipJobs[i]) /\ clipJobs[i].id \notin {clip.id, clipConv.id} /\ ~clipJobs[i].hole
          /\ \A j \in 1..Len(clipJobs) : clipJobs[j].id = clipJobs[i].id => i = j
    BY DEF ClipNoInv
  <2>b. clipConv.id # 0 => /\ JobOk(clipConv) /\ clipConv.id # clip.id
                           /\ clipConv.first <= clipConv.at
    BY DEF ClipNoInv
  <2>c. clipConv \in JobRec
    BY DEF ClipTypes
  <2>d. clip'.id = 0 \/ clip'.id = clip.id \/ clip'.id = clipIds + 1
    BY <1>4
  <2> HIDE DEF ClipInv
  <2>1. \A i \in 1..Len(clipJobs) :
          /\ JobOk(clipJobs[i])' /\ clipJobs[i].id \notin {clip'.id, clipConv.id} /\ ~clipJobs[i].hole
          /\ \A j \in 1..Len(clipJobs) : clipJobs[j].id = clipJobs[i].id => i = j
    <3> SUFFICES ASSUME NEW i \in 1..Len(clipJobs)
                 PROVE  /\ JobOk(clipJobs[i])'
                        /\ clipJobs[i].id \notin {clip'.id, clipConv.id} /\ ~clipJobs[i].hole
                        /\ \A j \in 1..Len(clipJobs) : clipJobs[j].id = clipJobs[i].id => i = j
      OBVIOUS
    <3>1. PICK x \in JobRec : x = clipJobs[i]
      BY <1>6
    <3>2. JobOk(x)' /\ x.id # clipIds + 1 /\ x.id # 0
      BY <1>7, <2>a, <3>1
    <3>3. JobOk(clipJobs[i])'
      BY <1>0, <3>1, <3>2 DEF JobOk
    <3> QED
      BY <2>a, <2>d, <3>1, <3>2, <3>3
  <2>2. clipConv.id # 0 => /\ JobOk(clipConv)' /\ clipConv.id # clip'.id
                           /\ clipConv.first <= clipConv.at
    <3>1. PICK x \in JobRec : x = clipConv
      BY <2>c
    <3>2. clipConv.id # 0 => JobOk(x)' /\ x.id # clipIds + 1 /\ x.id # 0
      BY <1>7, <2>b, <3>1
    <3>3. clipConv.id # 0 => JobOk(clipConv)'
      BY <1>0, <3>1, <3>2 DEF JobOk
    <3> QED
      BY <2>b, <2>d, <3>1, <3>2, <3>3
  <2> QED
    BY <1>0, <1>4, <2>1, <2>2 DEF ClipNoInv
<1>9. Follow(OnClips', OnClips, segNext)
  BY <1>0, <1>4, OnSame
<1>10. Backed(OnClips, segPins, clipUnheld)' /\ Clean(OnClips, segGone, clipUnheld)'
  BY <1>0, <1>1, <1>5, <1>9, OnKept
<1> QED
  BY <1>1, <1>4, <1>5, <1>8, <1>10

(* The converter takes a clip from the queue and reads it.                 *)
LEMMA ConvKept ==
    ASSUME ClipInv, UNCHANGED <<segTable, segNext, segPins, segGone, clip, clipIds, clipUnheld>>,
           ClipTypes', ClipNoInv', ClipWhole', OnClips' \subseteq OnClips
    PROVE  ClipInv'
<1> USE DEF ClipInv
<1>1. SegTypes' /\ TableInv' /\ PickedInv'
  BY DEF SegTypes, TableInv, PickedInv
<1>2. \A c \in OnClips : c.last \in Nat
  BY OnIs
<1>3. Follow(OnClips', OnClips, segNext)
  BY <1>2, SubFollow
<1>4. Backed(OnClips, segPins, clipUnheld)' /\ Clean(OnClips, segGone, clipUnheld)'
  BY <1>1, <1>3, OnKept
<1> QED
  BY <1>1, <1>4

LEMMA TakeClip == ASSUME ClipInv, ClipTake PROVE ClipInv'
<1> USE DEF ClipInv
<1> DEFINE h == Head(clipJobs)
<1>1. /\ clipConv.id = 0 /\ clipJobs # <<>>
      /\ clipConv' = [h EXCEPT !.at = h.first] /\ clipJobs' = Tail(clipJobs)
      /\ UNCHANGED <<segTable, segNext, segPins, segGone, clip, clipIds, clipUnheld>>
  BY DEF ClipTake, segVars
<1>2. clipJobs \in Seq(JobRec)
  BY DEF ClipTypes
<1>3. /\ h \in JobRec /\ h = clipJobs[1] /\ Len(clipJobs) \in Nat \ {0} /\ Tail(clipJobs) \in Seq(JobRec)
      /\ Len(Tail(clipJobs)) = Len(clipJobs) - 1
      /\ \A i \in 1..Len(clipJobs) - 1 : Tail(clipJobs)[i] = clipJobs[i + 1]
  BY <1>1, <1>2
<1>4. JobSet(clipJobs) = {h} \cup JobSet(Tail(clipJobs))
  BY <1>1, <1>2, JobsTail
<1> HIDE DEF h
<1>5. h.first \in Nat
  BY <1>3 DEF JobRec
<1>6. /\ clipConv' \in JobRec /\ clipConv'.id = h.id /\ clipConv'.first = h.first
      /\ clipConv'.last = h.last /\ clipConv'.at = h.first
  BY <1>1, <1>3, <1>5 DEF JobRec
<1>7. clipConv'.hole = h.hole
  BY <1>1, <1>3 DEF JobRec
<1>8. ClipTypes'
  <2>1. clip' \in ClipRec /\ clipIds' \in ClipNos
    BY <1>1 DEF ClipTypes
  <2>2. clipJobs' \in Seq(JobRec)
    BY <1>1, <1>3
  <2> QED
    BY <1>6, <2>1, <2>2 DEF ClipTypes
<1>9. \A i \in 1..Len(clipJobs) :
        /\ JobOk(clipJobs[i]) /\ clipJobs[i].id \notin {clip.id, clipConv.id} /\ ~clipJobs[i].hole
        /\ \A j \in 1..Len(clipJobs) : clipJobs[j].id = clipJobs[i].id => i = j
  BY DEF ClipNoInv
<1>10. clip.id <= clipIds /\ (clip.pc = "none" <=> clip.id = 0) /\ (clip.id # 0 => clip.first # 0)
  BY DEF ClipNoInv
<1> HIDE DEF ClipInv
<1>11. JobOk(h) /\ h.id # clip.id /\ ~h.hole
  BY <1>3, <1>9
<1>12. JobOk(clipConv)' /\ clipConv'.id # clip'.id /\ clipConv'.first <= clipConv'.at
  BY <1>1, <1>5, <1>6, <1>11 DEF JobOk
<1>13. ASSUME NEW i \in 1..Len(clipJobs')
       PROVE  /\ JobOk(clipJobs[i])' /\ clipJobs'[i].id \notin {clip'.id, clipConv'.id} /\ ~clipJobs'[i].hole
              /\ \A j \in 1..Len(clipJobs') : clipJobs'[j].id = clipJobs'[i].id => i = j
  <2>1. i \in 1..Len(clipJobs) - 1 /\ i + 1 \in 1..Len(clipJobs) /\ 1 \in 1..Len(clipJobs) /\ i + 1 # 1
    BY <1>1, <1>3
  <2>2. clipJobs'[i] = clipJobs[i + 1]
    BY <1>1, <1>3, <2>1
  <2>3. JobOk(clipJobs[i + 1]) /\ clipJobs[i + 1].id # clip.id /\ ~clipJobs[i + 1].hole
        /\ clipJobs[i + 1].id # clipJobs[1].id
    BY <1>9, <2>1
  <2>4. JobOk(clipJobs[i])'
    BY <1>1, <2>2, <2>3 DEF JobOk
  <2>5. ASSUME NEW j \in 1..Len(clipJobs'), clipJobs'[j].id = clipJobs'[i].id PROVE i = j
    <3>1. j \in 1..Len(clipJobs) - 1 /\ j + 1 \in 1..Len(clipJobs)
      BY <1>1, <1>3
    <3>2. clipJobs'[j] = clipJobs[j + 1]
      BY <1>1, <1>3, <3>1
    <3>3. i + 1 = j + 1
      BY <1>9, <2>1, <2>2, <2>5, <3>1, <3>2
    <3> QED
      BY <2>1, <3>1, <3>3
  <2> QED
    BY <1>1, <1>3, <1>6, <2>2, <2>3, <2>4, <2>5
<1>14. ClipNoInv'
  BY <1>1, <1>10, <1>12, <1>13 DEF ClipNoInv
<1>15. OnClips' \subseteq OnClips
  <2>1. Span(clipConv') = Span(h)
    BY <1>6 DEF Span
  <2> SUFFICES ASSUME NEW c \in OnClips' PROVE c \in OnClips
    OBVIOUS
  <2>2. (clip.pc = "on" /\ c = [id |-> clip.id, first |-> clip.first, last |-> SegNow])
        \/ \E j \in {k \in {clipConv'} \cup JobSet(Tail(clipJobs)) : k.id # 0} : c = Span(j)
    BY <1>1 DEF OnClips, OnOf, SegNow
  <2>3. ASSUME NEW j \in {k \in {clipConv'} \cup JobSet(Tail(clipJobs)) : k.id # 0}, c = Span(j)
        PROVE  \E k \in JobSet(clipJobs) : k.id # 0 /\ c = Span(k)
    BY <1>4, <1>6, <2>1, <2>3
  <2> QED
    BY <2>2, <2>3 DEF OnClips, OnOf
<1>16. ClipWhole'
  BY <1>7, <1>11 DEF ClipWhole
<1> QED
  BY <1>1, <1>8, <1>14, <1>15, <1>16, ConvKept

LEMMA ReadClip == ASSUME ClipInv, ClipRead \/ ClipRewind PROVE ClipInv'
<1> USE DEF ClipInv
<1>0. clipConv \in JobRec /\ clipConv.id # 0 /\ clipConv.id \in ClipNos /\ clipConv.first \in Nat
      /\ clipConv.last \in Nat /\ clipConv.at \in Nat
  BY DEF ClipTypes, JobRec, ClipRead, ClipRewind
<1>1. /\ clipJobs' = clipJobs
      /\ UNCHANGED <<segTable, segNext, segPins, segGone, clip, clipIds, clipUnheld>>
  BY DEF ClipRead, ClipRewind, segVars
<1>2. JobOk(clipConv) /\ clipConv.id # clip.id /\ clipConv.first <= clipConv.at
  BY <1>0 DEF ClipNoInv
<1>4. /\ clipConv' \in JobRec /\ clipConv'.id = clipConv.id /\ clipConv'.first = clipConv.first
      /\ clipConv'.last = clipConv.last /\ clipConv.first <= clipConv'.at
  <2>1. CASE ClipRead
    <3>1. PICK h \in BOOLEAN : clipConv' = [clipConv EXCEPT !.at = clipConv.at + 1, !.hole = h]
      <4>1. (clipConv.hole \/ clipConv.at \in segGone \ segFiles) \in BOOLEAN
        OBVIOUS
      <4> QED
        BY <2>1, <4>1 DEF ClipRead
    <3>2. clipConv.at + 1 \in Nat /\ clipConv.first <= clipConv.at + 1
      BY <1>0, <1>2
    <3> QED
      BY <1>0, <3>1, <3>2 DEF JobRec
  <2>2. CASE ClipRewind
    <3>1. clipConv' = [clipConv EXCEPT !.at = clipConv.first]
      BY <2>2 DEF ClipRewind
    <3> QED
      BY <1>0, <3>1 DEF JobRec
  <2> QED
    BY <2>1, <2>2
<1>5. clipConv'.hole => clipConv.hole \/ (clipConv.at \in segGone /\ clipConv.at <= clipConv.last)
  <2>1. CASE ClipRead
    <3>1. clipConv'.hole = (clipConv.hole \/ clipConv.at \in segGone \ segFiles)
      BY <1>0, <2>1 DEF ClipRead, JobRec
    <3>2. clipConv.at <= clipConv.last
      BY <2>1 DEF ClipRead
    <3> QED
      BY <3>1, <3>2
  <2>2. CASE ClipRewind
    <3>1. clipConv'.hole = clipConv.hole
      BY <1>0, <2>2 DEF ClipRewind, JobRec
    <3> QED
      BY <3>1
  <2> QED
    BY <2>1, <2>2
<1>6. ClipTypes'
  BY <1>1, <1>4 DEF ClipTypes
<1>7. ClipNoInv'
  <2>1. JobOk(clipConv)' /\ clipConv'.id # clip'.id /\ clipConv'.first <= clipConv'.at
    BY <1>1, <1>2, <1>4 DEF JobOk
  <2>2. \A i \in 1..Len(clipJobs) :
          /\ JobOk(clipJobs[i]) /\ clipJobs[i].id \notin {clip.id, clipConv.id} /\ ~clipJobs[i].hole
          /\ \A j \in 1..Len(clipJobs) : clipJobs[j].id = clipJobs[i].id => i = j
    BY DEF ClipNoInv
  <2>3. clip.id <= clipIds /\ (clip.pc = "none" <=> clip.id = 0) /\ (clip.id # 0 => clip.first # 0)
    BY DEF ClipNoInv
  <2>4. \A i \in 1..Len(clipJobs) : JobOk(clipJobs[i])'
    BY <1>1, <2>2 DEF JobOk
  <2> QED
    BY <1>1, <1>4, <2>1, <2>2, <2>3, <2>4 DEF ClipNoInv
<1>8. Span(clipConv') = Span(clipConv) /\ Span(clipConv) \in OnClips
  BY <1>0, <1>4 DEF Span, OnClips, OnOf
<1>9. OnClips' \subseteq OnClips
  <2> SUFFICES ASSUME NEW c \in OnClips' PROVE c \in OnClips
    OBVIOUS
  <2>2. (clip.pc = "on" /\ c = [id |-> clip.id, first |-> clip.first, last |-> SegNow])
        \/ \E j \in {k \in {clipConv'} \cup JobSet(clipJobs) : k.id # 0} : c = Span(j)
    BY <1>1 DEF OnClips, OnOf, SegNow
  <2>3. CASE c = Span(clipConv')
    BY <1>8, <2>3
  <2> QED
    BY <2>2, <2>3 DEF OnClips, OnOf
<1>10. ClipWhole'
  <2>1. CASE ~clipConv'.hole
    BY <2>1 DEF ClipWhole
  <2>2. CASE clipConv.hole
    BY <1>1, <1>4, <2>2 DEF ClipWhole
  <2>3. CASE clipConv.at \in segGone /\ clipConv.at <= clipConv.last
    <3>1. Span(clipConv).id = clipConv.id /\ Span(clipConv).first = clipConv.first
          /\ Span(clipConv).last = clipConv.last
      BY DEF Span
    <3>2. clipConv.id \in clipUnheld
      BY <1>2, <1>8, <2>3, <3>1 DEF Clean
    <3> QED
      BY <1>1, <1>4, <3>2 DEF ClipWhole
  <2> QED
    BY <1>5, <2>1, <2>2, <2>3
<1> QED
  BY <1>1, <1>6, <1>7, <1>9, <1>10, ConvKept

(* A pin is taken and given back.                                          *)
LEMMA PinTypes ==
    ASSUME NEW pins \in [1..SegPins -> Nat], NEW f \in Nat
    PROVE  SegPin(pins, f) \in [1..SegPins -> Nat] /\ SegUnpin(pins, f) \in [1..SegPins -> Nat]
<1>1. \A i : [pins EXCEPT ![i] = f] \in [1..SegPins -> Nat] /\ [pins EXCEPT ![i] = 0] \in [1..SegPins -> Nat]
  OBVIOUS
<1> QED
  BY <1>1 DEF SegPin, SegUnpin

LEMMA PinnedClip == ASSUME ClipInv, ClipPinned PROVE ClipInv'
<1> USE DEF ClipInv
<1> DEFINE c0 == [id |-> clip.id, first |-> clip.first, last |-> SegNow]
<1>1. /\ clip.pc = "picked" /\ clip' = [clip EXCEPT !.pc = "on"] /\ segPins' = SegPin(segPins, clip.first)
      /\ UNCHANGED <<segTable, segNext, segGone, clipJobs, clipConv, clipIds>>
  BY DEF ClipPinned
<1>2. /\ clipUnheld \subseteq clipUnheld'
      /\ clip.first \in segGone => clip.id \in clipUnheld'
      /\ (\A i \in DOMAIN segPins : segPins[i] # 0) =>
            \A d \in LiveClips : d.first = segPins[1] => d.id \in clipUnheld'
  BY DEF ClipPinned
<1>3. clip \in ClipRec /\ clip.id \in ClipNos /\ clip.first \in Nat
  BY DEF ClipTypes, ClipRec
<1>4. clip' \in ClipRec /\ clip'.pc = "on" /\ clip'.id = clip.id /\ clip'.first = clip.first
  BY <1>1, <1>3 DEF ClipRec
<1>5. clip.id # 0 /\ clip.first # 0
  BY <1>1 DEF ClipNoInv
<1>6. SegTypes'
  <2>1. segPins' \in [1..SegPins -> Nat]
    BY <1>1, <1>3, PinTypes DEF SegTypes
  <2> QED
    BY <1>1, <2>1 DEF SegTypes
<1>7. ClipTypes' /\ TableInv' /\ PickedInv' /\ ClipWhole'
  <2>1. ClipTypes'
    BY <1>1, <1>4 DEF ClipTypes
  <2>2. TableInv' /\ PickedInv'
    BY <1>1, <1>4 DEF TableInv, PickedInv
  <2>3. ClipWhole'
    BY <1>1, <1>2 DEF ClipWhole
  <2> QED
    BY <2>1, <2>2, <2>3
<1>8. ClipNoInv'
  <2>1. \A i \in 1..Len(clipJobs) :
          /\ JobOk(clipJobs[i]) /\ clipJobs[i].id \notin {clip.id, clipConv.id} /\ ~clipJobs[i].hole
          /\ \A j \in 1..Len(clipJobs) : clipJobs[j].id = clipJobs[i].id => i = j
    BY DEF ClipNoInv
  <2>2. clipConv.id # 0 => JobOk(clipConv) /\ clipConv.id # clip.id /\ clipConv.first <= clipConv.at
    BY DEF ClipNoInv
  <2>3. clip.id <= clipIds
    BY DEF ClipNoInv
  <2>4. (\A i \in 1..Len(clipJobs) : JobOk(clipJobs[i])') /\ (clipConv.id # 0 => JobOk(clipConv)')
    BY <1>1, <2>1, <2>2 DEF JobOk
  <2> HIDE DEF ClipInv
  <2> QED
    BY <1>1, <1>4, <1>5, <2>1, <2>2, <2>3, <2>4 DEF ClipNoInv
<1>9. OnClips' = OnClips \cup {c0}
  BY <1>1, <1>4 DEF OnClips, OnOf, SegNow
<1>10. \A c \in OnClips : /\ c.id \in ClipNos /\ c.first # 0 /\ c \in LiveClips
                          /\ c.id # c0.id
  <2>1. \A c \in OnClips : c.id \in ClipNos /\ c.first # 0 /\ c \in LiveClips
    BY OnIs
  <2>2. ASSUME NEW c \in OnClips PROVE c.id # clip.id
    <3>1. PICK j \in {k \in {clipConv} \cup JobSet(clipJobs) : k.id # 0} : c = Span(j)
      BY <1>1 DEF OnClips, OnOf
    <3>2. j.id # clip.id
      <4>1. DOMAIN clipJobs = 1..Len(clipJobs)
        BY DEF ClipTypes
      <4> QED
        BY <3>1, <4>1 DEF ClipNoInv, JobSet
    <3> QED
      BY <3>1, <3>2 DEF Span
  <2> QED
    BY <2>1, <2>2
<1>11. c0 \in LiveClips
  BY <1>5 DEF LiveClips
<1>12. c0.id = clip.id /\ c0.first = clip.first
  OBVIOUS
<1> HIDE DEF c0
<1>13. Backed(OnClips \cup {c0}, SegPin(segPins, c0.first), clipUnheld')
  <2>1. segPins \in [1..SegPins -> Nat] /\ Backed(OnClips, segPins, clipUnheld)
    BY DEF SegTypes
  <2>2. (\A i \in DOMAIN segPins : segPins[i] # 0) =>
            \A d \in OnClips \cup {c0} : d.first = segPins[1] => d.id \in clipUnheld'
    BY <1>2, <1>10, <1>11
  <2> HIDE DEF ClipInv
  <2> QED
    BY <1>2, <1>3, <1>10, <1>12, <2>1, <2>2, BackedPin
<1>14. Clean(OnClips \cup {c0}, segGone, clipUnheld')
  <2>1. ASSUME NEW c \in OnClips
        PROVE  c.id \in clipUnheld' \/ \A g \in segGone : ~(c.first <= g /\ g <= c.last)
    BY <1>2 DEF Clean
  <2>2. CASE clip.first \in segGone
    BY <1>2, <1>12, <2>1, <2>2 DEF Clean
  <2>3. CASE clip.first \notin segGone
    <3>1. PICK i \in 1..Len(segTable) : segTable[i] = clip.first
      BY <1>1, <2>3 DEF PickedInv
    <3>2. \A g \in segGone : g \in Nat /\ g < clip.first
      BY <3>1 DEF TableInv, InOrder, SegTypes
    <3>3. \A g \in segGone : ~(c0.first <= g /\ g <= c0.last)
      BY <1>3, <1>12, <3>2
    <3> QED
      BY <2>1, <3>3 DEF Clean
  <2> QED
    BY <2>2, <2>3
<1> QED
  BY <1>1, <1>6, <1>7, <1>8, <1>9, <1>12, <1>13, <1>14

LEMMA EndClip == ASSUME ClipInv, ClipEnd PROVE ClipInv'
<1> USE DEF ClipInv
<1> DEFINE c0 == Span(clipConv)
<1>1. /\ clipConv.id # 0 /\ clipConv' = NoJob /\ segPins' = SegUnpin(segPins, clipConv.first)
      /\ clipUnheld' = clipUnheld \cup Robbed(clipConv)
      /\ UNCHANGED <<segTable, segNext, segGone, clip, clipJobs, clipIds>>
  BY DEF ClipEnd
<1>2. clipConv \in JobRec /\ clipConv.id \in ClipNos /\ clipConv.first \in Nat
  BY DEF ClipTypes, JobRec
<1>3. NoJob \in JobRec /\ NoJob.id = 0
  BY ClipSegmentsAssumption DEF NoJob, JobRec, ClipNos
<1>4. ~NoJob.hole
  BY DEF NoJob
<1>5. c0.id = clipConv.id /\ c0.first = clipConv.first /\ c0 \in OnClips
  BY <1>1 DEF Span, OnClips, OnOf
<1>6. SegTypes'
  <2>1. segPins' \in [1..SegPins -> Nat]
    BY <1>1, <1>2, PinTypes DEF SegTypes
  <2> QED
    BY <1>1, <2>1 DEF SegTypes
<1>7. ClipTypes' /\ TableInv' /\ PickedInv' /\ ClipWhole'
  <2>1. ClipTypes'
    BY <1>1, <1>3 DEF ClipTypes
  <2>2. TableInv' /\ PickedInv'
    BY <1>1 DEF TableInv, PickedInv
  <2>3. ClipWhole'
    BY <1>1, <1>4 DEF ClipWhole
  <2> QED
    BY <2>1, <2>2, <2>3
<1>8. \A i \in 1..Len(clipJobs) :
        /\ JobOk(clipJobs[i]) /\ clipJobs[i].id \notin {clip.id, clipConv.id} /\ ~clipJobs[i].hole
        /\ \A j \in 1..Len(clipJobs) : clipJobs[j].id = clipJobs[i].id => i = j
  BY DEF ClipNoInv
<1>9. ClipNoInv'
  <2>3. clip.id <= clipIds /\ (clip.pc = "none" <=> clip.id = 0) /\ (clip.id # 0 => clip.first # 0)
    BY DEF ClipNoInv
  <2>4. \A i \in 1..Len(clipJobs) : JobOk(clipJobs[i])' /\ clipJobs[i].id # 0
    BY <1>1, <1>8 DEF JobOk
  <2> HIDE DEF ClipInv
  <2> QED
    BY <1>1, <1>3, <1>8, <2>3, <2>4 DEF ClipNoInv
<1>10. OnClips' \subseteq OnClips /\ \A c \in OnClips' : c.id # c0.id
  <2> SUFFICES ASSUME NEW c \in OnClips' PROVE c \in OnClips /\ c.id # clipConv.id
    BY <1>5
  <2>1. (clip.pc = "on" /\ c = [id |-> clip.id, first |-> clip.first, last |-> SegNow])
        \/ \E j \in JobSet(clipJobs) : j.id # 0 /\ c = Span(j)
    BY <1>1, <1>3 DEF OnClips, OnOf, SegNow
  <2>2. clipConv.id # clip.id
    BY <1>1 DEF ClipNoInv
  <2>3. \A j \in JobSet(clipJobs) : j.id # clipConv.id
    <3>1. DOMAIN clipJobs = 1..Len(clipJobs)
      BY DEF ClipTypes
    <3> QED
      BY <1>8, <3>1 DEF JobSet
  <2>4. c \in OnClips
    BY <2>1 DEF OnClips, OnOf
  <2> QED
    BY <2>1, <2>2, <2>3, <2>4 DEF Span
<1>11. \A c \in OnClips : c.id \in ClipNos /\ c \in LiveClips
  BY OnIs
<1>12. clipConv.id \in clipUnheld => \A d \in OnClips : d.first = clipConv.first => d.id \in clipUnheld'
  BY <1>1, <1>11 DEF Robbed
<1>13. clipUnheld \subseteq clipUnheld'
  BY <1>1
<1> HIDE DEF c0
<1>14. Backed(OnClips', SegUnpin(segPins, c0.first), clipUnheld')
  <2>1. segPins \in [1..SegPins -> Nat] /\ Backed(OnClips, segPins, clipUnheld)
    BY DEF SegTypes
  <2>2. \A c \in OnClips' : c.id # c0.id /\ c.id \in ClipNos
                            /\ \E d \in OnClips : d.id = c.id /\ d.first = c.first
    BY <1>10, <1>11
  <2> HIDE DEF ClipInv
  <2> QED
    BY <1>2, <1>5, <1>12, <1>13, <2>1, <2>2, BackedUnpin
<1>15. Clean(OnClips', segGone, clipUnheld')
  BY <1>10, <1>13 DEF Clean
<1> QED
  BY <1>1, <1>5, <1>6, <1>7, <1>9, <1>14, <1>15

(* The past on the card is forgotten.                                      *)
LEMMA ForgetClip == ASSUME ClipInv, SegForget PROVE ClipInv'
<1> USE DEF ClipInv
<1>1. /\ clip.pc # "picked" /\ segTable' = <<>>
      /\ segGone' = segGone \cup {segTable[i] : i \in DOMAIN segTable}
      /\ clipUnheld' = clipUnheld \cup {c.id : c \in LiveClips}
      /\ UNCHANGED <<segNext, segPins, clip, clipJobs, clipConv, clipIds>>
  BY DEF SegForget
<1>2. segTable \in Seq(Nat) /\ DOMAIN segTable = 1..Len(segTable) /\ Len(<<>>) = 0
  BY DEF SegTypes
<1>3. \A g \in segGone' : g \in Nat /\ g < segNext
  BY <1>1, <1>2 DEF SegTypes, TableInv, InOrder
<1>4. SegTypes'
  <2>1. segTable' \in Seq(Nat) /\ segGone' \subseteq Nat
    BY <1>1, <1>3
  <2> QED
    BY <1>1, <2>1 DEF SegTypes
<1>5. TableInv'
  <2>1. \A i \in 1..Len(segTable') : FALSE
    BY <1>1, <1>2
  <2> QED
    BY <1>1, <1>3, <2>1 DEF TableInv, InOrder
<1>6. ClipTypes' /\ PickedInv'
  BY <1>1 DEF ClipTypes, PickedInv
<1>7. ClipNoInv'
  <2>1. \A j : JobOk(j)' = JobOk(j)
    BY <1>1 DEF JobOk
  <2> QED
    BY <1>1 DEF ClipNoInv, JobOk
<1>8. ClipWhole' /\ clipUnheld \subseteq clipUnheld'
  BY <1>1 DEF ClipWhole
<1>9. OnClips' = OnClips
  BY <1>1 DEF OnClips, SegNow
<1>10. \A c \in OnClips : c.id \in clipUnheld'
  <2>1. \A c \in OnClips : c \in LiveClips
    BY OnIs
  <2> QED
    BY <1>1, <2>1
<1>11. Clean(OnClips', segGone', clipUnheld')
  BY <1>9, <1>10 DEF Clean
<1>12. Backed(OnClips', segPins', clipUnheld')
  BY <1>1, <1>8, <1>9, BackedLess
<1> QED
  BY <1>4, <1>5, <1>6, <1>7, <1>8, <1>11, <1>12

----------------------------------------------------------------------------
(* A segment ends: what becomes of the clip being saved ...                *)
ClipMoved ==
    /\ ClipTypes' /\ ClipNoInv' /\ segPins' \in [1..SegPins -> Nat]
    /\ Follow(OnClips', OnClips, segNext)
    /\ Backed(OnClips', segPins', clipUnheld')

LEMMA StayClip ==
    ASSUME ClipInv, UNCHANGED <<clip, clipJobs, segPins, clipConv, clipIds>>,
           segNext' \in {segNext, segNext + 1}, clipUnheld \subseteq clipUnheld'
    PROVE  ClipMoved
<1> USE DEF ClipInv
<1>1. ClipTypes' /\ segPins' \in [1..SegPins -> Nat]
  BY DEF ClipTypes, SegTypes
<1>2. segNext \in Nat /\ \A i \in 1..Len(clipJobs) : clipJobs[i] \in JobRec
  BY DEF SegTypes, ClipTypes
<1>3. \A j \in JobRec : JobOk(j) => JobOk(j)'
  BY <1>2 DEF JobOk, JobRec
<1>4. ClipNoInv'
  <2>1. \A i \in 1..Len(clipJobs) :
          /\ JobOk(clipJobs[i]) /\ clipJobs[i].id \notin {clip.id, clipConv.id} /\ ~clipJobs[i].hole
          /\ \A j \in 1..Len(clipJobs) : clipJobs[j].id = clipJobs[i].id => i = j
    BY DEF ClipNoInv
  <2>2. clipConv.id # 0 => JobOk(clipConv) /\ clipConv.id # clip.id /\ clipConv.first <= clipConv.at
    BY DEF ClipNoInv
  <2>3. clip.id <= clipIds /\ (clip.pc = "none" <=> clip.id = 0) /\ (clip.id # 0 => clip.first # 0)
    BY DEF ClipNoInv
  <2>4. clipConv \in JobRec
    BY DEF ClipTypes
  <2>5. \A i \in 1..Len(clipJobs) : JobOk(clipJobs[i])'
    <3> SUFFICES ASSUME NEW i \in 1..Len(clipJobs) PROVE JobOk(clipJobs[i])'
      OBVIOUS
    <3>1. PICK x \in JobRec : x = clipJobs[i]
      BY <1>2
    <3>2. JobOk(x)'
      BY <1>3, <2>1, <3>1
    <3> QED
      BY <3>1, <3>2 DEF JobOk
  <2>6. clipConv.id # 0 => JobOk(clipConv)'
    <3>1. PICK x \in JobRec : x = clipConv
      BY <2>4
    <3>2. clipConv.id # 0 => JobOk(x)'
      BY <1>3, <2>2, <3>1
    <3> QED
      BY <3>1, <3>2 DEF JobOk
  <2> HIDE DEF ClipInv
  <2> QED
    BY <2>1, <2>2, <2>3, <2>5, <2>6 DEF ClipNoInv
<1>5. Follow(OnClips', OnClips, segNext)
  BY OnSame
<1>6. \A c \in OnClips' : \E d \in OnClips : d.id = c.id /\ d.first = c.first
  BY <1>5 DEF Follow
<1>7. Backed(OnClips', segPins, clipUnheld')
  BY <1>6, BackedLess
<1> QED
  BY <1>1, <1>4, <1>5, <1>7 DEF ClipMoved

LEMMA FinishClip ==
    ASSUME ClipInv, NEW last \in Nat, last < segNext, clip.pc = "on", ClipFinish(last),
           UNCHANGED <<clipConv, clipIds>>, segNext' \in {segNext, segNext + 1},
           clipUnheld \subseteq clipUnheld', segPins' = segPins \/ Robbed(clip) \subseteq clipUnheld'
    PROVE  ClipMoved
<1> USE DEF ClipInv
<1> DEFINE new == [NoJob EXCEPT !.id = clip.id, !.first = clip.first, !.last = last]
           c0  == [id |-> clip.id, first |-> clip.first, last |-> SegNow]
<1>1. /\ clip' = NoClip
      /\ \/ clipJobs' = Append(clipJobs, new) /\ segPins' = segPins
         \/ clipJobs' = clipJobs /\ segPins' = SegUnpin(segPins, clip.first)
  BY DEF ClipFinish
<1>2. clip \in ClipRec /\ clip.id \in ClipNos /\ clip.first \in Nat /\ clip.id # 0 /\ clip.first # 0
      /\ clip.id <= clipIds
  <2>1. clip.id # 0 /\ clip.first # 0 /\ clip.id <= clipIds
    BY DEF ClipNoInv
  <2> QED
    BY <2>1 DEF ClipTypes, ClipRec
<1>3. NoClip \in ClipRec /\ NoClip.id = 0 /\ NoClip.pc = "none" /\ NoJob \in JobRec
  BY ClipSegmentsAssumption DEF NoClip, ClipRec, ClipNos, NoJob, JobRec
<1>4. ~NoJob.hole
  BY DEF NoJob
<1>5. /\ new \in JobRec /\ new.id = clip.id /\ new.first = clip.first /\ new.last = last
  BY <1>2, <1>3 DEF JobRec
<1>6. ~new.hole
  BY <1>3, <1>4 DEF JobRec
<1>7. clipJobs \in Seq(JobRec) /\ segPins \in [1..SegPins -> Nat] /\ segNext \in Nat
  BY DEF ClipTypes, SegTypes
<1> HIDE DEF new
<1>8. ClipTypes' /\ segPins' \in [1..SegPins -> Nat]
  <2>1. clipJobs' \in Seq(JobRec)
    BY <1>1, <1>5, <1>7
  <2>2. clipConv' \in JobRec /\ clipIds' \in ClipNos
    BY DEF ClipTypes
  <2>3. segPins' \in [1..SegPins -> Nat]
    BY <1>1, <1>2, <1>7, PinTypes
  <2> QED
    BY <1>1, <1>3, <2>1, <2>2, <2>3 DEF ClipTypes
<1>9. \A i \in 1..Len(clipJobs) :
        /\ JobOk(clipJobs[i]) /\ clipJobs[i].id \notin {clip.id, clipConv.id} /\ ~clipJobs[i].hole
        /\ \A j \in 1..Len(clipJobs) : clipJobs[j].id = clipJobs[i].id => i = j
  BY DEF ClipNoInv
<1>10. clipConv.id # 0 => JobOk(clipConv) /\ clipConv.id # clip.id /\ clipConv.first <= clipConv.at
  BY DEF ClipNoInv
<1>11. clipConv \in JobRec /\ clipIds \in Nat
  BY DEF ClipTypes, ClipNos
<1>12. \A j \in JobRec : j.id # 0 /\ j.id <= clipIds /\ j.first # 0 /\ j.last < segNext => JobOk(j)'
  BY <1>7 DEF JobOk, JobRec
<1>13. ClipNoInv'
  <2> HIDE DEF ClipInv
  <2>1. clipConv.id # 0 => JobOk(clipConv)'
    <3>1. PICK x \in JobRec : x = clipConv
      BY <1>11
    <3>2. clipConv.id # 0 => JobOk(x)'
      BY <1>10, <1>12, <3>1 DEF JobOk
    <3> QED
      BY <3>1, <3>2 DEF JobOk
  <2>2. \A i \in 1..Len(clipJobs') :
          \/ i \in 1..Len(clipJobs) /\ clipJobs'[i] = clipJobs[i]
          \/ i = Len(clipJobs) + 1 /\ clipJobs'[i] = new
    <3>1. CASE clipJobs' = clipJobs
      BY <3>1
    <3>2. CASE clipJobs' = Append(clipJobs, new)
      BY <1>5, <1>7, <3>2
    <3> QED
      BY <1>1, <3>1, <3>2
  <2>3. \A i \in 1..Len(clipJobs) : i # Len(clipJobs) + 1 /\ clipJobs[i] \in JobRec
    BY <1>7
  <2>4. new.id # clipConv.id /\ \A i \in 1..Len(clipJobs) : clipJobs[i].id # new.id
    BY <1>2, <1>5, <1>9, <1>10
  <2>5. ASSUME NEW i \in 1..Len(clipJobs')
        PROVE  /\ JobOk(clipJobs[i])' /\ clipJobs'[i].id \notin {0, clipConv.id} /\ ~clipJobs'[i].hole
               /\ \A j \in 1..Len(clipJobs') : clipJobs'[j].id = clipJobs'[i].id => i = j
    <3>1. PICK x : x = clipJobs'[i]
      OBVIOUS
    <3>2. x \in JobRec /\ x.id # 0 /\ x.id <= clipIds /\ x.first # 0 /\ x.last < segNext
      BY <1>2, <1>5, <1>9, <2>2, <2>3, <3>1 DEF JobOk
    <3>3. JobOk(clipJobs[i])'
      <4>1. JobOk(x)'
        BY <1>12, <3>2
      <4> QED
        BY <3>1, <4>1 DEF JobOk
    <3>4. x.id # clipConv.id
      BY <1>9, <2>2, <2>4, <3>1
    <3>5. ~x.hole
      BY <1>6, <1>9, <2>2, <3>1
    <3>6. ASSUME NEW j \in 1..Len(clipJobs'), clipJobs'[j].id = clipJobs'[i].id PROVE i = j
      BY <1>9, <2>2, <2>4, <3>6
    <3> QED
      BY <3>1, <3>2, <3>3, <3>4, <3>5, <3>6
  <2>6. 0 <= clipIds
    BY <1>11
  <2> QED
    BY <1>1, <1>3, <1>10, <2>1, <2>5, <2>6 DEF ClipNoInv
<1>14. c0 \in OnClips /\ c0.id = clip.id /\ c0.first = clip.first /\ c0.last = segNext - 1
  BY DEF OnClips, OnOf, SegNow
<1> HIDE DEF c0
<1>15. \A c \in OnClips : c.id \in ClipNos /\ c.last \in Nat /\ c \in LiveClips
  BY OnIs
<1>16. ASSUME NEW c \in OnClips'
       PROVE  c \in OnClips \/ (clipJobs' # clipJobs /\ c = Span(new))
  <2>1. PICK j \in {clipConv} \cup JobSet(clipJobs') : j.id # 0 /\ c = Span(j)
    BY <1>1, <1>3 DEF OnClips, OnOf
  <2>2. clipJobs' = clipJobs \/ (JobSet(clipJobs') = JobSet(clipJobs) \cup {new})
    <3>1. JobSet(Append(clipJobs, new)) = JobSet(clipJobs) \cup {new}
      BY <1>5, <1>7, JobsAppend
    <3> QED
      BY <1>1, <3>1
  <2>3. j \in {clipConv} \cup JobSet(clipJobs) \/ (clipJobs' # clipJobs /\ j = new)
    BY <2>1, <2>2
  <2> QED
    BY <2>1, <2>3 DEF OnClips, OnOf
<1>17. Span(new).id = c0.id /\ Span(new).first = c0.first
  BY <1>5, <1>14 DEF Span
<1>18. Follow(OnClips', OnClips, segNext)
  <2> SUFFICES ASSUME NEW c \in OnClips'
               PROVE  \E d \in OnClips : /\ d.id = c.id /\ d.first = c.first
                                         /\ c.last <= d.last \/ d.last = segNext - 1
    BY DEF Follow
  <2>1. CASE c \in OnClips
    BY <1>15, <2>1
  <2>2. CASE c = Span(new)
    BY <1>14, <1>17, <2>2
  <2> QED
    BY <1>16, <2>1, <2>2
<1>19. \A c \in OnClips' : \E d \in OnClips : d.id = c.id /\ d.first = c.first
  BY <1>18 DEF Follow
<1>20. Backed(OnClips', segPins', clipUnheld')
  <2>1. CASE segPins' = segPins
    BY <1>19, <2>1, BackedLess
  <2>2. CASE segPins' # segPins
    <3>1. clipJobs' = clipJobs /\ segPins' = SegUnpin(segPins, c0.first)
      BY <1>1, <1>14, <2>2
    <3>2. c0.id \in clipUnheld => \A d \in OnClips : d.first = c0.first => d.id \in clipUnheld'
      BY <1>14, <1>15, <2>2 DEF Robbed
    <3>3. ASSUME NEW c \in OnClips' PROVE c.id # c0.id /\ c.id \in ClipNos
      <4>1. PICK j \in {clipConv} \cup JobSet(clipJobs) : j.id # 0 /\ c = Span(j)
        BY <1>1, <1>3, <3>1 DEF OnClips, OnOf
      <4>2. DOMAIN clipJobs = 1..Len(clipJobs)
        BY <1>7
      <4>3. j.id # clip.id
        BY <1>9, <1>10, <4>1, <4>2 DEF JobSet
      <4> QED
        BY <1>14, <1>15, <1>19, <4>1, <4>3 DEF Span
    <3> HIDE DEF ClipInv
    <3>4. Backed(OnClips, segPins, clipUnheld)
      BY DEF ClipInv
    <3>5. Backed(OnClips', SegUnpin(segPins, c0.first), clipUnheld')
      <4>1. \A c \in OnClips' : c.id # c0.id /\ c.id \in ClipNos
                                /\ \E d \in OnClips : d.id = c.id /\ d.first = c.first
        BY <1>19, <3>3
      <4>2. c0 \in OnClips /\ c0.id \in ClipNos
        BY <1>14, <1>15
      <4> QED
        BY <1>7, <3>2, <3>4, <4>1, <4>2, BackedUnpin
    <3> QED
      BY <3>1, <3>5
  <2> QED
    BY <2>1, <2>2
<1> QED
  BY <1>8, <1>13, <1>18, <1>20 DEF ClipMoved

(* ... and which segments go.                                              *)
LEMMA PruneClip ==
    ASSUME ClipInv, ClipMoved, NEW more, SegPrune(segPins', more), clipConv' = clipConv,
           clip' = clip \/ clip'.pc # "picked",
           \/ more = <<>> /\ segNext' \in {segNext, segNext + 1}
           \/ more = <<segNext>> /\ segNext' = segNext + 1
    PROVE  ClipInv'
<1> USE DEF ClipInv
<1>1. /\ ClipTypes' /\ ClipNoInv' /\ segPins' \in [1..SegPins -> Nat]
      /\ Follow(OnClips', OnClips, segNext)
      /\ Backed(OnClips', segPins', clipUnheld')
  BY DEF ClipMoved
<1>2. PICK pins \in [1..SegPins -> Nat] : pins = segPins'
  BY <1>1
<1>3. PICK k \in SegPruned(segTable, pins, segNext) :
        /\ segTable' = SubSeq(segTable, k + 1, Len(segTable)) \o more
        /\ segGone' = segGone \cup {segTable[i] : i \in 1..k}
        /\ clipUnheld \subseteq clipUnheld'
        /\ Len(segTable) >= SegsMax - 1 =>
             \A d \in LiveClips : {segTable[i] : i \in 1..k} \cap (d.first..d.last) # {} => d.id \in clipUnheld'
  BY <1>2 DEF SegPrune
<1>4. /\ k \in 0..Len(segTable)
      /\ \/ Len(segTable) >= SegsMax - 1
         \/ \A i \in 1..k : segTable[i] < SegPinnedFrom(pins)
  BY PruneIs
<1>5. segTable \in Seq(Nat) /\ segNext \in Nat \ {0} /\ segGone \in SUBSET Nat /\ Len(segTable) \in Nat
      /\ InOrder(segTable, segGone, segNext)
  BY DEF SegTypes, TableInv
<1> DEFINE t == SubSeq(segTable, k + 1, Len(segTable))
<1>6. /\ t \in Seq(Nat) /\ segGone' \in SUBSET Nat /\ InOrder(t, segGone', segNext)
      /\ \A i \in 1..Len(segTable) : segTable[i] \in segGone' \/ \E j \in 1..Len(t) : t[j] = segTable[i]
  <2> DEFINE g == segGone \cup {segTable[i] : i \in 1..k}
  <2>1. /\ t \in Seq(Nat) /\ g \in SUBSET Nat /\ InOrder(t, g, segNext)
        /\ \A i \in 1..Len(segTable) : segTable[i] \in g \/ \E j \in 1..Len(t) : t[j] = segTable[i]
    BY <1>4, <1>5, OrderCut
  <2>2. segGone' = g
    BY <1>3
  <2> HIDE DEF t, g
  <2> QED
    BY <2>1, <2>2
<1>7. segTable' = t \o more
  BY <1>3
<1> HIDE DEF t
<1>8. /\ segTable' \in Seq(Nat) /\ InOrder(segTable', segGone', segNext') /\ segNext' \in Nat \ {0}
      /\ \A i \in 1..Len(t) : i \in 1..Len(segTable') /\ segTable'[i] = t[i]
  <2>1. CASE more = <<>> /\ segNext' \in {segNext, segNext + 1}
    <3>1. segTable' = t
      BY <1>6, <1>7, <2>1, ConcatEmptySeq
    <3>2. InOrder(t, segGone', segNext + 1)
      BY <1>5, <1>6, OrderLater
    <3>3. segNext' \in Nat \ {0}
      BY <1>5, <2>1
    <3>4. InOrder(t, segGone', segNext')
      BY <1>6, <2>1, <3>2
    <3> QED
      BY <1>6, <3>1, <3>3, <3>4
  <2>2. CASE more = <<segNext>> /\ segNext' = segNext + 1
    <3>1. segTable' = Append(t, segNext)
      BY <1>5, <1>6, <1>7, <2>2, JoinOne
    <3>2. /\ Append(t, segNext) \in Seq(Nat) /\ InOrder(Append(t, segNext), segGone', segNext + 1)
          /\ \A i \in 1..Len(t) : i \in 1..Len(Append(t, segNext)) /\ Append(t, segNext)[i] = t[i]
      BY <1>5, <1>6, OrderAppend
    <3>3. segNext' \in Nat \ {0}
      BY <1>5, <2>2
    <3> QED
      BY <2>2, <3>1, <3>2, <3>3
  <2> QED
    BY <2>1, <2>2
<1>9. SegTypes' /\ TableInv'
  BY <1>1, <1>6, <1>8 DEF SegTypes, TableInv
<1>10. PickedInv'
  <2> SUFFICES ASSUME clip'.pc = "picked"
               PROVE  clip'.first \in segGone' \/ \E i \in 1..Len(segTable') : segTable'[i] = clip'.first
    BY DEF PickedInv
  <2>1. clip.first \in segGone \/ \E i \in 1..Len(segTable) : segTable[i] = clip.first
    BY DEF PickedInv
  <2>2. clip.first \in segGone' \/ \E i \in 1..Len(t) : t[i] = clip.first
    BY <1>3, <1>6, <2>1
  <2> QED
    BY <1>8, <2>2
<1>11. ClipWhole'
  BY <1>3 DEF ClipWhole
<1>12. \A c \in OnClips : c.first \in Nat /\ c.first # 0 /\ c.last \in Nat /\ c \in LiveClips
  BY OnIs
<1>13. \A c \in OnClips' : c.id \in ClipNos /\ c.first \in Nat /\ c.last \in Nat
  <2>1. \A n \in Nat \ {0} : n - 1 \in Nat
    OBVIOUS
  <2>2. SegNow' \in Nat
    BY <1>8, <2>1 DEF SegNow
  <2> QED
    BY <1>1, <2>2, OnTypes DEF OnClips, ClipTypes
<1>14. ASSUME NEW c \in OnClips', c.id \notin clipUnheld', NEW g \in segGone' \ segGone,
              c.first <= g /\ g <= c.last
       PROVE  FALSE
  <2>1. PICK d \in OnClips : d.id = c.id /\ d.first = c.first /\ (c.last <= d.last \/ d.last = segNext - 1)
    BY <1>1 DEF Follow
  <2>2. PICK i \in 1..k : g = segTable[i]
    BY <1>3
  <2>3. i \in 1..Len(segTable) /\ g \in Nat /\ g < segNext
    BY <1>4, <1>5, <2>2 DEF InOrder
  <2>4. CASE Len(segTable) >= SegsMax - 1
    <3>1. g \in d.first..d.last
      BY <1>5, <1>12, <1>13, <1>14, <2>1, <2>3
    <3>2. {segTable[h] : h \in 1..k} \cap (d.first..d.last) # {}
      BY <2>2, <3>1
    <3> QED
      BY <1>3, <1>12, <1>14, <2>1, <2>4, <3>2
  <2>5. CASE \A h \in 1..k : segTable[h] < SegPinnedFrom(pins)
    <3>1. g < SegPinnedFrom(pins)
      BY <2>2, <2>5
    <3>2. PICK p \in 1..SegPins : pins[p] = c.first
      <4>1. PICK m \in [ClipNos -> DOMAIN pins] : \A e \in OnClips' : e.id \notin clipUnheld' =>
              pins[m[e.id]] = e.first
        BY <1>1, <1>2 DEF Backed
      <4> QED
        BY <1>13, <1>14, <4>1
    <3>3. SegPinnedFrom(pins) \in Nat /\ SegPinnedFrom(pins) <= c.first
      <4>1. c.first # 0
        BY <1>12, <2>1
      <4> QED
        BY <1>5, <3>2, <4>1, PinnedFromIs
    <3> QED
      BY <1>13, <1>14, <2>3, <3>1, <3>3
  <2> QED
    BY <1>4, <2>4, <2>5
<1>15. Clean(OnClips', segGone', clipUnheld')
  <2>1. Clean(OnClips, segGone, clipUnheld) /\ \A g \in segGone : g < segNext
    BY <1>5 DEF InOrder
  <2>2. \A c \in OnClips' : c.id \in clipUnheld' \/ \A g \in segGone' \ segGone : ~(c.first <= g /\ g <= c.last)
    BY <1>14
  <2> HIDE DEF ClipInv
  <2> QED
    BY <1>1, <1>3, <1>5, <1>12, <1>13, <2>1, <2>2, CleanStep
<1> QED
  BY <1>1, <1>9, <1>10, <1>11, <1>15

LEMMA PruneHeld ==
    ASSUME NEW more, SegPrune(segPins', more)
    PROVE  clipUnheld \subseteq clipUnheld' /\ (segPins' = segPins \/ Robbed(clip) \subseteq clipUnheld')
BY DEF SegPrune

LEMMA SplitClip == ASSUME ClipInv, SegSplit PROVE ClipInv'
<1>1. SegTypes /\ segNext \in Nat /\ SegNow \in Nat /\ SegNow < segNext
  BY DEF ClipInv, SegTypes, SegNow
<1>2. segNext' = segNext + 1 /\ UNCHANGED <<clipConv, clipIds>>
  BY DEF SegSplit
<1>3. PICK more : SegPrune(segPins', more) /\ (more = <<>> \/ more = <<segNext>>)
  BY DEF SegSplit
<1>4. clipUnheld \subseteq clipUnheld' /\ (segPins' = segPins \/ Robbed(clip) \subseteq clipUnheld')
  BY <1>3, PruneHeld
<1>5. NoClip.pc = "none"
  BY DEF NoClip
<1>6. CASE clip.pc = "on" /\ ClipFinish(SegNow)
  <2>1. ClipMoved
    BY <1>1, <1>2, <1>4, <1>6, FinishClip
  <2>2. clip'.pc # "picked"
    BY <1>5, <1>6 DEF ClipFinish
  <2> QED
    BY <1>2, <1>3, <2>1, <2>2, PruneClip
<1>7. CASE UNCHANGED <<clip, clipJobs, segPins>>
  <2>1. ClipMoved
    BY <1>2, <1>4, <1>7, StayClip
  <2> QED
    BY <1>2, <1>3, <1>7, <2>1, PruneClip
<1> QED
  BY <1>6, <1>7 DEF SegSplit

LEMMA SameClip ==
    ASSUME ClipInv, UNCHANGED <<segTable, segNext, segPins, segGone, clipVars>> PROVE ClipInv'
<1> USE DEF ClipInv, clipVars
<1>1. SegTypes' /\ TableInv' /\ PickedInv' /\ ClipWhole'
  BY DEF SegTypes, TableInv, PickedInv, ClipWhole
<1>2. ClipTypes'
  BY DEF ClipTypes
<1>3. ClipNoInv'
  BY DEF ClipNoInv, JobOk
<1>4. OnClips' = OnClips
  BY DEF OnClips, SegNow
<1> QED
  BY <1>1, <1>2, <1>3, <1>4

LEMMA StopClip == ASSUME ClipInv, SegStop PROVE ClipInv'
<1>1. UNCHANGED <<segNext, clipConv, clipIds>>
  BY DEF SegStop
<1>2. CASE segTable = <<>>
  <2>1. UNCHANGED <<segTable, segNext, segPins, segGone, clipVars>>
    BY <1>1, <1>2 DEF SegStop, clipVars
  <2> QED
    BY <2>1, SameClip
<1>3. CASE segTable # <<>>
  <2>1. SegPrune(segPins', <<>>)
    BY <1>3 DEF SegStop
  <2>2. clipUnheld \subseteq clipUnheld' /\ (segPins' = segPins \/ Robbed(clip) \subseteq clipUnheld')
    BY <2>1, PruneHeld
  <2>3. CASE clip.pc = "on"
    <3>1. ClipFinish(segTable[Len(segTable)])
      BY <1>3, <2>3 DEF SegStop
    <3>2. segTable[Len(segTable)] \in Nat /\ segTable[Len(segTable)] < segNext
      <4>1. Len(segTable) \in 1..Len(segTable) /\ segTable \in Seq(Nat)
        BY <1>3 DEF ClipInv, SegTypes
      <4> QED
        BY <4>1 DEF ClipInv, TableInv, InOrder
    <3>3. ClipMoved
      BY <1>1, <2>2, <2>3, <3>1, <3>2, FinishClip
    <3>4. clip'.pc # "picked"
      BY <3>1 DEF ClipFinish, NoClip
    <3> QED
      BY <1>1, <2>1, <3>3, <3>4, PruneClip
  <2>4. CASE clip.pc # "on"
    <3>1. UNCHANGED <<clip, clipJobs, segPins>>
      BY <1>3, <2>4 DEF SegStop
    <3>2. ClipMoved
      BY <1>1, <2>2, <3>1, StayClip
    <3> QED
      BY <1>1, <2>1, <3>1, <3>2, PruneClip
  <2> QED
    BY <2>3, <2>4
<1> QED
  BY <1>2, <1>3

LEMMA InitClip == ASSUME ClipInit PROVE ClipInv
<1> USE DEF ClipInit
<1>1. NoClip \in ClipRec /\ NoClip.id = 0 /\ NoClip.pc = "none" /\ NoJob \in JobRec /\ NoJob.id = 0
      /\ 0 \in ClipNos /\ 0 <= 0
  BY ClipSegmentsAssumption DEF NoClip, ClipRec, ClipNos, NoJob, JobRec
<1>2. ~NoJob.hole
  BY DEF NoJob
<1>3. SegTypes /\ ClipTypes
  <2>1. SegTypes
    BY DEF SegTypes
  <2>2. ClipTypes
    BY <1>1 DEF ClipTypes
  <2> QED
    BY <2>1, <2>2
<1>4. Len(<<>>) = 0 /\ \A i \in 1..0 : FALSE
  OBVIOUS
<1>5. TableInv
  BY <1>4 DEF TableInv, InOrder
<1>6. ClipNoInv
  BY <1>1, <1>4 DEF ClipNoInv
<1>7. PickedInv /\ ClipWhole
  BY <1>1, <1>2 DEF PickedInv, ClipWhole
<1>8. OnClips = {}
  <2>1. JobSet(clipJobs) = {}
    BY DEF JobSet
  <2> QED
    BY <1>1, <2>1 DEF OnClips, OnOf
<1>9. [i \in ClipNos |-> 1] \in [ClipNos -> DOMAIN segPins]
  BY ClipSegmentsAssumption
<1>10. Backed(OnClips, segPins, clipUnheld) /\ Clean(OnClips, segGone, clipUnheld)
  BY <1>8, <1>9 DEF Backed, Clean
<1> QED
  BY <1>3, <1>5, <1>6, <1>7, <1>10 DEF ClipInv

(* However many events come while clips wait, however the writer stops and *)
(* whatever seg_prune takes, the converter passes over no deleted segment  *)
(* of a clip that kept its hold.                                           *)
THEOREM ClipsStayWhole == ClipSpec => []ClipWhole
<1>1. ClipInit => ClipInv
  BY InitClip
<1>2. ClipInv /\ [ClipNext]_<<segVars, clipVars>> => ClipInv'
  <2> SUFFICES ASSUME ClipInv, [ClipNext]_<<segVars, clipVars>> PROVE ClipInv'
    OBVIOUS
  <2>1. CASE UNCHANGED <<segVars, clipVars>>
    BY <2>1, SameClip DEF segVars
  <2> QED
    BY <2>1, StartClip, SplitClip, StopClip, EventClip, ForgetClip, PinnedClip, TakeClip, ReadClip,
       EndClip DEF ClipNext
<1>3. ClipInv => ClipWhole
  BY DEF ClipInv
<1> QED
  BY <1>1, <1>2, <1>3, PTL DEF ClipSpec

----------------------------------------------------------------------------
(* Alerts.  What the list holds and what the card holds are tied by the    *)
(* file's number: of two copies of an alert that still matters, each knows *)
(* at most as many channels to be done as really are.                      *)

Entries  == [alert : Int, left : SUBSET ChanSet, id : 0..MaxIds]
FileRecs == [alert : Int, left : SUBSET ChanSet]
MailPcs  == {"receive", "on", "add", "store", "flush", "try", "save"}
Ent(w)   == {w[k] : k \in DOMAIN w}

AlertTypes ==
    /\ raised \in Nat /\ alertQ \in Seq(Nat \ {0}) /\ waiting \in Seq(Entries)
    /\ files \in [Ids -> FileRecs] /\ nextId \in 1..(MaxIds + 1)
    /\ mail \in [pc : MailPcs, ev : Int, chan : Nat, open : BOOLEAN] /\ mail.ev >= -1
    /\ stored \in SUBSET ((Nat \ {0}) \X ChanSet)

(* An alert that AlertKept still speaks of.                                *)
Alive(a, ex) == a >= 1 /\ a \notin ex

(* Where the task is and what it then knows of the list and the card.      *)
MailInv ==
    /\ mail.open => mail.pc \in {"store", "save"}
    /\ mail.pc \in {"try", "save"} => waiting # <<>>
    /\ mail.pc = "save" => waiting[1].id # 0
    /\ mail.pc \in {"add", "store"} => mail.ev >= 0
    /\ mail.pc = "store" => nextId > 1 /\ ~Alive(files[nextId - 1].alert, excused)
    /\ mail.pc = "store" /\ ~mail.open => mail.ev \in excused

NumberInv ==
    /\ \A e \in Ent(waiting) : e.id < nextId /\ (mail.pc = "store" => e.id < nextId - 1)
    /\ loaded /\ ~cutShort => \A i \in OnCard : i < nextId

(* Whatever left1 has to reach left2 has too, or it was settled.           *)
Within(a, left1, left2, st) == \A c \in left1 : c \in left2 \/ <<a, c>> \in st

FileIn(W, fs, st, ex) ==
    \A e \in W : e.id # 0 /\ Alive(fs[e.id].alert, ex) =>
        fs[e.id].alert = e.alert /\ Within(e.alert, fs[e.id].left, e.left, st)

Kin(W, st, ex) ==
    \A e, f \in W : e.id = f.id /\ e.id # 0 /\ Alive(e.alert, ex) =>
        f.alert = e.alert /\ Within(e.alert, e.left, f.left, st)

(* x is the file being written anew, which is torn meanwhile.              *)
FiledIn(W, fs, st, ex, x) ==
    \A e \in W : e.id # 0 /\ Alive(e.alert, ex) =>
        \/ fs[e.id] = None \/ e.id = x
        \/ fs[e.id].alert = e.alert /\ Within(e.alert, e.left, fs[e.id].left, st)

Tied(W, fs, st, ex, x) == FileIn(W, fs, st, ex) /\ Kin(W, st, ex) /\ FiledIn(W, fs, st, ex, x)

Saving == IF mail.open /\ mail.pc = "save" THEN waiting[1].id ELSE 0

TieInv == Tied(Ent(waiting), files, settled, excused, Saving)

OnFile(sto, fs, st, ex) ==
    \A s \in sto : s \in st \/ s[1] \in ex \/ \E i \in Ids : fs[i].alert = s[1] /\ s[2] \in fs[i].left

AlertInv == AlertTypes /\ MailInv /\ NumberInv /\ TieInv /\ AlertKept

----------------------------------------------------------------------------
LEMMA EntSeq ==
    ASSUME NEW w \in Seq(Entries)
    PROVE  /\ Ent(w) \in SUBSET Entries
           /\ IdsOf(w) = {e.id : e \in Ent(w)} /\ AlertsOf(w) = {e.alert : e \in Ent(w)}
           /\ w # <<>> => w[1] \in Ent(w) /\ Tail(w) \in Seq(Entries) /\ Ent(Tail(w)) \in SUBSET Ent(w)
           /\ \A n \in Entries : Append(w, n) \in Seq(Entries) /\ Ent(Append(w, n)) = Ent(w) \cup {n}
<1>1. Ent(w) \in SUBSET Entries
  BY DEF Ent
<1>2. IdsOf(w) = {e.id : e \in Ent(w)} /\ AlertsOf(w) = {e.alert : e \in Ent(w)}
  BY DEF IdsOf, AlertsOf, Ent
<1>3. ASSUME w # <<>>
      PROVE  w[1] \in Ent(w) /\ Tail(w) \in Seq(Entries) /\ Ent(Tail(w)) \in SUBSET Ent(w)
  <2>1. Len(w) \in Nat \ {0} /\ DOMAIN w = 1..Len(w)
    BY <1>3, EmptySeq
  <2>2. Tail(w) \in Seq(Entries) /\ Len(Tail(w)) = Len(w) - 1
    BY <1>3
  <2>3. \A k \in 1..Len(Tail(w)) : Tail(w)[k] = w[k + 1] /\ k + 1 \in DOMAIN w
    BY <1>3, <2>1, <2>2
  <2>4. DOMAIN Tail(w) = 1..Len(Tail(w))
    BY <2>2
  <2> QED
    BY <2>1, <2>2, <2>3, <2>4 DEF Ent
<1>4. ASSUME NEW n \in Entries
      PROVE  Append(w, n) \in Seq(Entries) /\ Ent(Append(w, n)) = Ent(w) \cup {n}
  <2>1. Append(w, n) \in Seq(Entries) /\ Len(Append(w, n)) = Len(w) + 1 /\ Len(w) \in Nat
    OBVIOUS
  <2>2. Append(w, n)[Len(w) + 1] = n /\ \A k \in 1..Len(w) : Append(w, n)[k] = w[k]
    OBVIOUS
  <2>3. DOMAIN Append(w, n) = 1..(Len(w) + 1) /\ DOMAIN w = 1..Len(w)
    BY <2>1
  <2> QED
    BY <2>1, <2>2, <2>3 DEF Ent
<1> QED
  BY <1>1, <1>2, <1>3, <1>4

LEMMA EntSub ==
    ASSUME NEW w \in Seq(Entries), NEW m \in 1..(Len(w) + 1), NEW n \in 0..Len(w)
    PROVE  SubSeq(w, m, n) \in Seq(Entries) /\ Ent(SubSeq(w, m, n)) \in SUBSET Ent(w)
<1>1. SubSeq(w, m, n) \in Seq(Entries) /\ Len(SubSeq(w, m, n)) = (IF m <= n THEN n - m + 1 ELSE 0)
  <2>1. \A k \in m..n : w[k] \in Entries
    OBVIOUS
  <2> QED
    BY <2>1
<1>2. DOMAIN SubSeq(w, m, n) = 1..Len(SubSeq(w, m, n))
  BY <1>1
<1>3. \A k \in 1..Len(SubSeq(w, m, n)) : SubSeq(w, m, n)[k] = w[m + k - 1] /\ m + k - 1 \in DOMAIN w
  BY <1>1
<1> QED
  BY <1>1, <1>2, <1>3 DEF Ent

(* What Kept keeps and Pushed pushes out were in the list.                 *)
LEMMA KeptPushed ==
    ASSUME NEW w \in Seq(Entries)
    PROVE  /\ Kept(w) \in Seq(Entries) /\ Ent(Kept(w)) \in SUBSET Ent(w)
           /\ Pushed(w) \in Seq(Entries) /\ Ent(Pushed(w)) \in SUBSET Ent(w)
<1> DEFINE n == IF Len(w) < WaitMax THEN Len(w) ELSE WaitMax
<1>1. n \in 0..Len(w) /\ Len(w) \in Nat
  BY AlertsAssumption
<1>2. Kept(w) = SubSeq(w, Len(w) - n + 1, Len(w))
  BY DEF Kept
<1> HIDE DEF n
<1>3. Len(w) - n + 1 \in 1..(Len(w) + 1) /\ Len(w) \in 0..Len(w)
  BY <1>1
<1>4. Kept(w) \in Seq(Entries) /\ Ent(Kept(w)) \in SUBSET Ent(w)
  BY <1>2, <1>3, EntSub
<1>5. Len(Kept(w)) = n
  BY <1>1, <1>2, <1>3
<1>6. Len(w) - n \in 0..Len(w) /\ 1 \in 1..(Len(w) + 1)
  BY <1>1
<1>7. Pushed(w) \in Seq(Entries) /\ Ent(Pushed(w)) \in SUBSET Ent(w)
  BY <1>5, <1>6, EntSub DEF Pushed
<1> QED
  BY <1>4, <1>7

LEMMA EntJoin ==
    ASSUME NEW w \in Seq(Entries), NEW v \in Seq(Entries)
    PROVE  w \o v \in Seq(Entries) /\ Ent(w \o v) \in SUBSET (Ent(w) \cup Ent(v))
<1>1. w \o v \in Seq(Entries) /\ Len(w \o v) = Len(w) + Len(v)
  OBVIOUS
<1>2. \A k \in 1..(Len(w) + Len(v)) : (w \o v)[k] = IF k <= Len(w) THEN w[k] ELSE v[k - Len(w)]
  OBVIOUS
<1>3. DOMAIN (w \o v) = 1..(Len(w) + Len(v)) /\ DOMAIN w = 1..Len(w) /\ DOMAIN v = 1..Len(v)
  BY <1>1
<1>4. \A k \in DOMAIN (w \o v) : k <= Len(w) => k \in DOMAIN w
  BY <1>3
<1>5. \A k \in DOMAIN (w \o v) : ~(k <= Len(w)) => k - Len(w) \in DOMAIN v
  BY <1>3
<1> QED
  BY <1>1, <1>2, <1>3, <1>4, <1>5 DEF Ent

LEMMA IdsIs == ASSUME NEW k \in 0..MaxIds, k # 0 PROVE k \in Ids
  BY AlertsAssumption DEF Ids

----------------------------------------------------------------------------
(* Copies that go, channels that are settled and alerts that no longer     *)
(* matter leave the rest tied.                                             *)
LEMMA TiedLess ==
    ASSUME NEW W, NEW fs, NEW st, NEW ex, NEW x, Tied(W, fs, st, ex, x),
           NEW V, NEW gs, NEW tt, NEW ey, NEW y, st \subseteq tt, ex \subseteq ey,
           \A f \in V : f.id # 0 => gs[f.id] = fs[f.id] \/ gs[f.id] = None,
           \A f \in V : \E e \in W :
               /\ f.id = e.id /\ f.alert = e.alert /\ f.left \subseteq e.left
               /\ e.alert >= 1 => Within(e.alert, e.left, f.left, tt),
           \A f \in V : f.id # 0 /\ f.id = x /\ Alive(f.alert, ey) => x = y
    PROVE  Tied(V, gs, tt, ey, y)
<1>0. None.alert = -1
  BY DEF None
<1>1. FileIn(V, gs, tt, ey)
  <2> SUFFICES ASSUME NEW f \in V, f.id # 0, Alive(gs[f.id].alert, ey)
               PROVE  gs[f.id].alert = f.alert /\ Within(f.alert, gs[f.id].left, f.left, tt)
    BY DEF FileIn
  <2>1. gs[f.id] # None
    BY <1>0 DEF Alive
  <2>2. gs[f.id] = fs[f.id]
    BY <2>1
  <2>3. PICK e \in W : /\ f.id = e.id /\ f.alert = e.alert /\ f.left \subseteq e.left
                       /\ e.alert >= 1 => Within(e.alert, e.left, f.left, tt)
    OBVIOUS
  <2>4. Alive(fs[e.id].alert, ex)
    BY <2>2, <2>3 DEF Alive
  <2>5. fs[e.id].alert = e.alert /\ Within(e.alert, fs[e.id].left, e.left, st)
    BY <2>3, <2>4 DEF Tied, FileIn
  <2>6. e.alert >= 1
    BY <2>4, <2>5 DEF Alive
  <2> QED
    BY <2>2, <2>3, <2>5, <2>6 DEF Within
<1>2. Kin(V, tt, ey)
  <2> SUFFICES ASSUME NEW f \in V, NEW g \in V, f.id = g.id, f.id # 0, Alive(f.alert, ey)
               PROVE  g.alert = f.alert /\ Within(f.alert, f.left, g.left, tt)
    BY DEF Kin
  <2>1. PICK e \in W : f.id = e.id /\ f.alert = e.alert /\ f.left \subseteq e.left
    OBVIOUS
  <2>2. PICK h \in W : /\ g.id = h.id /\ g.alert = h.alert /\ g.left \subseteq h.left
                       /\ h.alert >= 1 => Within(h.alert, h.left, g.left, tt)
    OBVIOUS
  <2>3. Alive(e.alert, ex)
    BY <2>1 DEF Alive
  <2>4. h.alert = e.alert /\ Within(e.alert, e.left, h.left, st)
    BY <2>1, <2>2, <2>3 DEF Tied, Kin
  <2>5. Within(e.alert, h.left, g.left, tt)
    BY <2>2, <2>3, <2>4 DEF Alive
  <2> QED
    BY <2>1, <2>2, <2>4, <2>5 DEF Within
<1>3. FiledIn(V, gs, tt, ey, y)
  <2> SUFFICES ASSUME NEW f \in V, f.id # 0, Alive(f.alert, ey), gs[f.id] # None, f.id # y
               PROVE  gs[f.id].alert = f.alert /\ Within(f.alert, f.left, gs[f.id].left, tt)
    BY DEF FiledIn
  <2>1. gs[f.id] = fs[f.id] /\ f.id # x
    OBVIOUS
  <2>2. PICK e \in W : f.id = e.id /\ f.alert = e.alert /\ f.left \subseteq e.left
    OBVIOUS
  <2>3. Alive(e.alert, ex)
    BY <2>2 DEF Alive
  <2>4. fs[e.id].alert = e.alert /\ Within(e.alert, e.left, fs[e.id].left, st)
    BY <2>1, <2>2, <2>3 DEF Tied, FiledIn
  <2> QED
    BY <2>1, <2>2, <2>4 DEF Within
<1> QED
  BY <1>1, <1>2, <1>3 DEF Tied

(* The case in which copies only go.                                       *)
LEMMA TiedSub ==
    ASSUME NEW W, NEW fs, NEW st, NEW ex, NEW x, Tied(W, fs, st, ex, x),
           NEW V \in SUBSET W, NEW gs, NEW ey, NEW y, ex \subseteq ey,
           \A f \in V : f.id # 0 => gs[f.id] = fs[f.id] \/ gs[f.id] = None,
           \A f \in V : f.id # 0 /\ f.id = x /\ Alive(f.alert, ey) => x = y
    PROVE  Tied(V, gs, st, ey, y)
<1>1. \A f \in V : \E e \in W : /\ f.id = e.id /\ f.alert = e.alert /\ f.left \subseteq e.left
                                /\ e.alert >= 1 => Within(e.alert, e.left, f.left, st)
  BY DEF Within
<1> QED
  BY <1>1, TiedLess

(* Files read back are tied to what waits.                                 *)
LEMMA TiedJoin ==
    ASSUME NEW W, NEW fs, NEW st, NEW ex, Tied(W, fs, st, ex, 0), NEW R,
           \A f \in R : /\ fs[f.id] # None /\ f.left = fs[f.id].left
                        /\ f.alert = IF fs[f.id] = Torn THEN NoAlert ELSE fs[f.id].alert
    PROVE  Tied(W \cup R, fs, st, ex, 0)
<1>0. Torn.alert = -2 /\ NoAlert = -1
  BY DEF Torn, NoAlert
<1>a. \A f \in R : Alive(f.alert, ex) \/ Alive(fs[f.id].alert, ex) => f.alert = fs[f.id].alert
  BY <1>0 DEF Alive
<1>1. FileIn(W \cup R, fs, st, ex)
  BY <1>a DEF Tied, FileIn, Within
<1>2. Kin(W \cup R, st, ex)
  <2> SUFFICES ASSUME NEW e \in W \cup R, NEW f \in W \cup R, e.id = f.id, e.id # 0, Alive(e.alert, ex)
               PROVE  f.alert = e.alert /\ Within(e.alert, e.left, f.left, st)
    BY DEF Kin
  <2>1. CASE e \in W /\ f \in W
    BY <2>1 DEF Tied, Kin
  <2>2. CASE e \in W /\ f \in R
    <3>1. fs[e.id].alert = e.alert /\ Within(e.alert, e.left, fs[e.id].left, st)
      BY <2>2 DEF Tied, FiledIn
    <3>2. f.alert = e.alert
      BY <3>1, <2>2, <1>a
    <3> QED
      BY <2>2, <3>1, <3>2
  <2>3. CASE e \in R
    <3>1. e.alert = fs[e.id].alert /\ Alive(fs[e.id].alert, ex)
      BY <2>3, <1>a
    <3>2. CASE f \in R
      <4>1. f.alert = fs[e.id].alert
        BY <1>a, <3>1, <3>2
      <4> QED
        BY <2>3, <3>1, <3>2, <4>1 DEF Within
    <3>3. CASE f \in W
      <4>1. fs[f.id].alert = f.alert /\ Within(f.alert, fs[f.id].left, f.left, st)
        BY <3>1, <3>3 DEF Tied, FileIn
      <4> QED
        BY <2>3, <3>1, <4>1
    <3> QED
      BY <3>2, <3>3
  <2> QED
    BY <2>1, <2>2, <2>3
<1>3. FiledIn(W \cup R, fs, st, ex, 0)
  BY <1>a DEF Tied, FiledIn, Within
<1> QED
  BY <1>1, <1>2, <1>3 DEF Tied

(* An alert without a file, or with one of its own.                        *)
OfItsOwn(n, W, gs, ex) ==
    \/ n.id = 0
    \/ /\ \A e \in W : e.id # n.id
       /\ \/ gs[n.id].alert = n.alert /\ gs[n.id].left = n.left
          \/ ~Alive(gs[n.id].alert, ex) /\ n.alert \in ex

LEMMA TiedFresh ==
    ASSUME NEW W, NEW fs, NEW st, NEW ex, Tied(W, fs, st, ex, 0), NEW gs, NEW n,
           \A e \in W : e.id # 0 => gs[e.id] = fs[e.id],
           OfItsOwn(n, W, gs, ex)
    PROVE  Tied(W \cup {n}, gs, st, ex, 0)
<1>1. FileIn(W \cup {n}, gs, st, ex)
  <2> SUFFICES ASSUME NEW e \in W \cup {n}, e.id # 0, Alive(gs[e.id].alert, ex)
               PROVE  gs[e.id].alert = e.alert /\ Within(e.alert, gs[e.id].left, e.left, st)
    BY DEF FileIn
  <2>1. CASE e \in W
    BY <2>1 DEF Tied, FileIn
  <2>2. CASE e = n
    BY <2>2 DEF Within, OfItsOwn
  <2> QED
    BY <2>1, <2>2
<1>2. Kin(W \cup {n}, st, ex)
  <2> SUFFICES ASSUME NEW e \in W \cup {n}, NEW f \in W \cup {n}, e.id = f.id, e.id # 0, Alive(e.alert, ex)
               PROVE  f.alert = e.alert /\ Within(e.alert, e.left, f.left, st)
    BY DEF Kin
  <2>1. CASE e \in W /\ f \in W
    BY <2>1 DEF Tied, Kin
  <2>2. CASE e = f
    BY <2>2 DEF Within
  <2> QED
    BY <2>1, <2>2 DEF OfItsOwn
<1>3. FiledIn(W \cup {n}, gs, st, ex, 0)
  <2> SUFFICES ASSUME NEW e \in W \cup {n}, e.id # 0, Alive(e.alert, ex), gs[e.id] # None
               PROVE  gs[e.id].alert = e.alert /\ Within(e.alert, e.left, gs[e.id].left, st)
    BY DEF FiledIn
  <2>1. CASE e \in W
    BY <2>1 DEF Tied, FiledIn
  <2>2. CASE e = n
    BY <2>2 DEF Alive, Within, OfItsOwn
  <2> QED
    BY <2>1, <2>2
<1> QED
  BY <1>1, <1>2, <1>3 DEF Tied

(* A list cut to its newest, with files of what went.                      *)
LEMMA CutTied ==
    ASSUME NEW W \in SUBSET Entries, NEW fs \in [Ids -> FileRecs], NEW st, NEW ex, NEW sto,
           Tied(W, fs, st, ex, 0), sto \in SUBSET ((Nat \ {0}) \X ChanSet), OnFile(sto, fs, st, ex),
           NEW k \in SUBSET W, NEW p \in Seq(Entries), Ent(p) \in SUBSET W,
           NEW G \in SUBSET IdsOf(p)
    PROVE  /\ CardRemove(fs, G) \in [Ids -> FileRecs]
           /\ \A i \in Ids : CardRemove(fs, G)[i] \in {None, fs[i]}
           /\ Tied(k, CardRemove(fs, G), st, ex \cup AlertsOf(p), 0)
           /\ OnFile(sto, CardRemove(fs, G), st, ex \cup AlertsOf(p))
<1> DEFINE gs == CardRemove(fs, G)
           ey == ex \cup AlertsOf(p)
<1>0. None \in FileRecs
  BY DEF None, FileRecs
<1>1. gs \in [Ids -> FileRecs]
  BY <1>0 DEF CardRemove
<1>2. \A i \in Ids : gs[i] \in {None, fs[i]}
  BY DEF CardRemove
<1>3. \A i \in Ids : gs[i] # fs[i] => i \in IdsOf(p)
  BY DEF CardRemove
<1>4. IdsOf(p) = {e.id : e \in Ent(p)} /\ AlertsOf(p) = {e.alert : e \in Ent(p)}
  BY EntSeq
<1> HIDE DEF gs, ey
<1>5. Tied(k, gs, st, ey, 0)
  <2>1. \A f \in k : f.id # 0 => gs[f.id] = fs[f.id] \/ gs[f.id] = None
    <3> SUFFICES ASSUME NEW f \in k, f.id # 0 PROVE gs[f.id] = fs[f.id] \/ gs[f.id] = None
      OBVIOUS
    <3>1. f.id \in 0..MaxIds
      BY DEF Entries
    <3> QED
      BY <3>1, <1>2, IdsIs
  <2>2. ex \subseteq ey
    BY DEF ey
  <2> QED
    BY <2>1, <2>2, TiedSub
<1>6. OnFile(sto, gs, st, ey)
  <2> SUFFICES ASSUME NEW s \in sto, s \notin st, s[1] \notin ey
               PROVE  \E i \in Ids : gs[i].alert = s[1] /\ s[2] \in gs[i].left
    BY DEF OnFile
  <2>1. s[1] \in Nat \ {0} /\ s[1] \notin ex
    BY DEF ey
  <2>2. PICK i \in Ids : fs[i].alert = s[1] /\ s[2] \in fs[i].left
    BY <2>1 DEF OnFile
  <2>3. i \notin IdsOf(p)
    <3> SUFFICES ASSUME i \in IdsOf(p) PROVE FALSE
      OBVIOUS
    <3>1. PICK e \in Ent(p) : e.id = i
      BY <1>4
    <3>2. Alive(fs[e.id].alert, ex) /\ e.id # 0 /\ e \in W
      BY <2>1, <2>2, <3>1 DEF Alive, Ids
    <3>3. e.alert = s[1]
      BY <2>2, <3>1, <3>2 DEF Tied, FileIn
    <3> QED
      BY <1>4, <3>1, <3>3 DEF ey
  <2>4. gs[i] = fs[i]
    BY <1>3, <2>3
  <2> QED
    BY <2>2, <2>4
<1> QED
  BY <1>1, <1>2, <1>5, <1>6 DEF gs, ey

----------------------------------------------------------------------------
(* Away from card_save_meta AlertKept is about the card alone.             *)
LEMMA KeptOnFile ==
    ASSUME AlertInv, mail.pc # "save" \/ ~mail.open
    PROVE  OnFile(stored, files, settled, excused) /\ Saving = 0
           /\ Tied(Ent(waiting), files, settled, excused, 0)
<1>1. OnFile(stored, files, settled, excused)
  BY DEF AlertInv, AlertKept, MailAt, OnFile
<1>2. Saving = 0
  BY DEF Saving
<1> QED
  BY <1>1, <1>2 DEF AlertInv, TieInv

LEMMA KeptFromFile ==
    ASSUME OnFile(stored, files, settled, excused)' PROVE AlertKept'
  BY DEF OnFile, AlertKept

(* The task's place and the rest of its record after a step.               *)
LEMMA IdleMail ==
    /\ MailIdle \in [pc : MailPcs, ev : Int, chan : Nat, open : BOOLEAN]
    /\ MailIdle.pc = "receive" /\ MailIdle.ev = -1 /\ ~MailIdle.open
    /\ [MailIdle EXCEPT !.pc = "flush"] \in [pc : MailPcs, ev : Int, chan : Nat, open : BOOLEAN]
    /\ [MailIdle EXCEPT !.pc = "flush"].pc = "flush" /\ [MailIdle EXCEPT !.pc = "flush"].ev = -1
    /\ ~[MailIdle EXCEPT !.pc = "flush"].open
<1>1. /\ MailIdle \in [pc : MailPcs, ev : Int, chan : Nat, open : BOOLEAN]
      /\ MailIdle.pc = "receive" /\ MailIdle.ev = -1
  BY DEF MailIdle, MailPcs, NoAlert
<1>2. MailIdle.open = FALSE
  BY DEF MailIdle
<1> DEFINE m == [MailIdle EXCEPT !.pc = "flush"]
<1>3. /\ m \in [pc : MailPcs, ev : Int, chan : Nat, open : BOOLEAN]
      /\ m.pc = "flush" /\ m.ev = -1 /\ m.open = FALSE
  BY <1>1, <1>2 DEF MailPcs
<1> QED
  BY <1>1, <1>2, <1>3

LEMMA AfterMail ==
    /\ AfterAdd \in [pc : MailPcs, ev : Int, chan : Nat, open : BOOLEAN]
    /\ AfterAdd.pc \in {"receive", "flush"} /\ AfterAdd.ev = -1 /\ ~AfterAdd.open
  BY IdleMail DEF AfterAdd

(* A step that leaves the task outside its writes and its tries.           *)
LEMMA AtRest ==
    ASSUME mail'.pc \in {"receive", "on", "flush"}, ~mail'.open
    PROVE  MailInv' /\ Saving' = 0
  BY DEF MailInv, Saving

(* A step that changes neither the list nor the card, and lets no alert    *)
(* matter again.                                                           *)
LEMMA SameLists ==
    ASSUME AlertInv, UNCHANGED <<waiting, files, nextId, loaded, cutShort, settled, stored>>,
           excused \subseteq excused', mail.pc # "save", mail'.pc \notin {"store", "save"}
    PROVE  NumberInv' /\ TieInv' /\ AlertKept'
<1>1. OnFile(stored, files, settled, excused) /\ Tied(Ent(waiting), files, settled, excused, 0)
  BY KeptOnFile
<1>2. OnFile(stored, files, settled, excused)'
  BY <1>1 DEF OnFile
<1>3. Tied(Ent(waiting), files, settled, excused', 0)
  BY <1>1, TiedSub
<1>4. Saving' = 0
  BY DEF Saving
<1>5. TieInv'
  BY <1>3, <1>4 DEF TieInv
<1>6. NumberInv'
  BY DEF AlertInv, NumberInv, OnCard
<1> QED
  BY <1>2, <1>5, <1>6, KeptFromFile

LEMMA SameMail ==
    ASSUME AlertInv, UNCHANGED <<waiting, files, nextId, loaded, cutShort, settled, stored, excused, mail>>,
           raised' \in Nat, alertQ' \in Seq(Nat \ {0})
    PROVE  AlertInv'
<1>1. AlertTypes'
  BY DEF AlertInv, AlertTypes
<1>2. MailInv'
  BY DEF AlertInv, MailInv
<1>3. NumberInv'
  BY DEF AlertInv, NumberInv, OnCard
<1>4. Saving' = Saving
  BY DEF Saving
<1>5. TieInv'
  BY <1>4 DEF AlertInv, TieInv
<1>6. AlertKept'
  BY DEF AlertInv, AlertKept, MailAt
<1> QED
  BY <1>1, <1>2, <1>3, <1>5, <1>6 DEF AlertInv

LEMMA RaiseAlerts == ASSUME AlertInv, Raise \/ RetryDue \/ CardBack \/ UNCHANGED alertVars PROVE AlertInv'
<1>1. raised \in Nat /\ alertQ \in Seq(Nat \ {0})
  BY DEF AlertInv, AlertTypes
<1>2. CASE Raise
  <2>1. raised' = raised + 1 /\ alertQ' \in {alertQ, Append(alertQ, raised')}
    BY <1>2 DEF Raise
  <2>2. raised' \in Nat \ {0}
    BY <1>1, <2>1
  <2>3. alertQ' \in Seq(Nat \ {0})
    BY <1>1, <2>1, <2>2
  <2>4. UNCHANGED <<waiting, files, nextId, loaded, cutShort, settled, stored, excused, mail>>
    BY <1>2 DEF Raise
  <2> QED
    BY <2>2, <2>3, <2>4, SameMail
<1>3. CASE RetryDue \/ CardBack \/ UNCHANGED alertVars
  <2>1. UNCHANGED <<waiting, files, nextId, loaded, cutShort, settled, stored, excused, mail, raised, alertQ>>
    BY <1>3 DEF RetryDue, CardBack, alertVars
  <2> QED
    BY <1>1, <2>1, SameMail
<1> QED
  BY <1>2, <1>3

LEMMA GoOnAlerts == ASSUME AlertInv, GoOn \/ AddNone \/ Flush PROVE AlertInv'
<1>1. UNCHANGED <<raised, alertQ, waiting, files, nextId, loaded, cutShort, settled, stored, excused>>
  BY DEF GoOn, AddNone, Flush
<1>2. mail.pc \in {"on", "add", "flush"}
  BY DEF GoOn, AddNone, Flush, MailAt
<1>3. ~mail.open /\ mail.ev \in Int /\ mail.ev >= -1
  BY <1>2 DEF AlertInv, AlertTypes, MailInv
<1>4. /\ mail' \in [pc : MailPcs, ev : Int, chan : Nat, open : BOOLEAN] /\ mail'.ev >= -1 /\ ~mail'.open
      /\ mail'.pc \in {"receive", "flush", "try", "add"}
      /\ mail'.pc = "try" => waiting # <<>>
      /\ mail'.pc = "add" => mail'.ev >= 0
  <2>0. mail \in [pc : MailPcs, ev : Int, chan : Nat, open : BOOLEAN]
    BY DEF AlertInv, AlertTypes
  <2>1. CASE GoOn
    <3>1. mail' = [mail EXCEPT !.pc = IF mail.ev = NoAlert THEN "flush" ELSE "add"]
      BY <2>1 DEF GoOn
    <3> QED
      BY <1>3, <2>0, <3>1 DEF MailPcs, NoAlert
  <2>2. CASE AddNone
    <3>1. mail' = AfterAdd
      BY <2>2 DEF AddNone
    <3> QED
      BY <3>1, AfterMail
  <2>3. CASE Flush
    <3>1. CASE waiting # <<>> /\ ~backoff
      <4>1. mail' = [mail EXCEPT !.pc = "try", !.chan = 1]
        BY <2>3, <3>1 DEF Flush
      <4> QED
        BY <1>3, <2>0, <3>1, <4>1 DEF MailPcs
    <3>2. CASE waiting = <<>> /\ pushedOut
      <4>1. mail' = [mail EXCEPT !.pc = "add", !.ev = DropReport]
        BY <2>3, <3>2 DEF Flush
      <4> QED
        <5>1. DropReport \in Int /\ DropReport = 0 /\ "add" \in MailPcs
          BY DEF MailPcs, DropReport
        <5>2. mail' \in [pc : MailPcs, ev : Int, chan : Nat, open : BOOLEAN]
          BY <2>0, <4>1, <5>1
        <5>3. mail'.ev = 0 /\ mail'.pc = "add"
          BY <2>0, <4>1, <5>1
        <5>4. mail'.open = mail.open
          BY <2>0, <4>1
        <5>5. 0 >= -1 /\ 0 >= 0
          OBVIOUS
        <5> QED
          BY <1>3, <5>2, <5>3, <5>4, <5>5
    <3>3. CASE ~(waiting # <<>> /\ ~backoff) /\ ~(waiting = <<>> /\ pushedOut)
      <4>1. mail' = MailIdle
        BY <2>3, <3>3 DEF Flush
      <4> QED
        BY <4>1, IdleMail
    <3> QED
      BY <3>1, <3>2, <3>3
  <2> QED
    BY <2>1, <2>2, <2>3
<1>5. AlertTypes'
  BY <1>1, <1>4 DEF AlertInv, AlertTypes
<1>6. MailInv'
  BY <1>1, <1>4 DEF MailInv
<1>7. NumberInv' /\ TieInv' /\ AlertKept'
  BY <1>1, <1>2, <1>4, SameLists
<1> QED
  BY <1>5, <1>6, <1>7 DEF AlertInv

----------------------------------------------------------------------------
(* The card or the power goes, or a write fails.                           *)
LEMMA MishapOnFile ==
    ASSUME AlertInv PROVE OnFile(stored, files, settled, excused \cup Writing)
<1> SUFFICES ASSUME NEW s \in stored, s \notin settled, s[1] \notin excused \cup Writing
             PROVE  \E i \in Ids : files[i].alert = s[1] /\ s[2] \in files[i].left
  BY DEF OnFile
<1>1. ~(mail.open /\ MailAt("save") /\ waiting[1].alert = s[1])
  <2> SUFFICES ASSUME mail.open, MailAt("save"), waiting[1].alert = s[1] PROVE FALSE
    OBVIOUS
  <2>1. Writing = {waiting[1].alert}
    BY DEF Writing, MailAt
  <2> QED
    BY <2>1
<1> QED
  BY <1>1 DEF AlertInv, AlertKept

LEMMA PulledAlerts == ASSUME AlertInv, CardPulled \/ WriteFails PROVE AlertInv'
<1>1. UNCHANGED <<raised, alertQ, waiting, files, nextId, loaded, cutShort, settled, stored>>
      /\ excused' = excused \cup Writing /\ mail' = [mail EXCEPT !.open = FALSE]
  BY DEF CardPulled, WriteFails
<1>2. /\ mail \in [pc : MailPcs, ev : Int, chan : Nat, open : BOOLEAN] /\ mail.ev >= -1
      /\ waiting \in Seq(Entries)
  BY DEF AlertInv, AlertTypes
<1>3. mail' \in [pc : MailPcs, ev : Int, chan : Nat, open : BOOLEAN] /\ mail'.ev = mail.ev
      /\ mail'.pc = mail.pc /\ ~mail'.open
  BY <1>1, <1>2
<1>4. AlertTypes'
  BY <1>1, <1>2, <1>3 DEF AlertInv, AlertTypes
<1>5. MailInv'
  <2>1. mail.pc = "store" /\ mail.open => Writing = {mail.ev}
    BY DEF Writing, MailAt
  <2>2. mail.pc = "store" => mail.ev \in excused'
    BY <1>1, <2>1 DEF AlertInv, MailInv
  <2>3. mail.pc = "store" => ~Alive(files[nextId - 1].alert, excused')
    BY <1>1 DEF AlertInv, MailInv, Alive
  <2> QED
    BY <1>1, <1>3, <2>2, <2>3 DEF AlertInv, MailInv
<1>6. NumberInv'
  BY <1>1, <1>3 DEF AlertInv, NumberInv, OnCard
<1>7. Tied(Ent(waiting), files, settled, excused', 0)
  <2>1. Tied(Ent(waiting), files, settled, excused, Saving)
    BY DEF AlertInv, TieInv
  <2>2. ASSUME NEW f \in Ent(waiting), f.id # 0, f.id = Saving, Alive(f.alert, excused')
        PROVE  FALSE
    <3>1. mail.open /\ mail.pc = "save" /\ f.id = waiting[1].id
      BY <2>2 DEF Saving
    <3>2. waiting[1] \in Ent(waiting)
      BY <1>2, <3>1, EntSeq DEF AlertInv, MailInv
    <3>3. Alive(f.alert, excused)
      BY <1>1, <2>2 DEF Alive
    <3>4. waiting[1].alert = f.alert
      BY <2>1, <2>2, <3>1, <3>2, <3>3 DEF Tied, Kin
    <3>5. Writing = {waiting[1].alert}
      BY <3>1 DEF Writing, MailAt
    <3> QED
      BY <1>1, <2>2, <3>4, <3>5 DEF Alive
  <2>3. excused \subseteq excused'
    BY <1>1
  <2> QED
    BY <2>1, <2>2, <2>3, TiedSub
<1>8. TieInv'
  <2>1. Saving' = 0
    BY <1>3 DEF Saving
  <2> QED
    BY <1>1, <1>7, <2>1 DEF TieInv
<1>9. AlertKept'
  BY <1>1, MishapOnFile, KeptFromFile
<1> QED
  BY <1>4, <1>5, <1>6, <1>8, <1>9 DEF AlertInv

LEMMA NoneTied == ASSUME NEW fs, NEW st, NEW ex PROVE Tied(Ent(<<>>), fs, st, ex, 0)
<1>1. Ent(<<>>) = {}
  BY DEF Ent
<1> QED
  BY <1>1 DEF Tied, FileIn, Kin, FiledIn

LEMMA RestartAlerts == ASSUME AlertInv, Restart PROVE AlertInv'
<1>1. /\ UNCHANGED <<raised, files, settled, stored>>
      /\ alertQ' = <<>> /\ waiting' = <<>> /\ nextId' = 1 /\ loaded' = FALSE
      /\ mail' = MailIdle /\ excused' = excused \cup Writing
  BY DEF Restart
<1>2. AlertTypes'
  <2>1. alertQ' \in Seq(Nat \ {0}) /\ waiting' \in Seq(Entries)
    BY <1>1
  <2>2. nextId' \in 1..(MaxIds + 1)
    BY <1>1, AlertsAssumption
  <2> QED
    BY <1>1, <2>1, <2>2, IdleMail DEF AlertInv, AlertTypes
<1>3. MailInv' /\ Saving' = 0
  BY <1>1, IdleMail, AtRest
<1>4. NumberInv'
  <2>1. Ent(waiting)' = {}
    BY <1>1 DEF Ent
  <2> QED
    BY <1>1, <2>1 DEF NumberInv
<1>5. TieInv'
  BY <1>1, <1>3, NoneTied DEF TieInv
<1>6. AlertKept'
  BY <1>1, MishapOnFile, KeptFromFile
<1> QED
  BY <1>2, <1>3, <1>4, <1>5, <1>6 DEF AlertInv

LEMMA ClearAlerts == ASSUME AlertInv, ClearAll PROVE AlertInv'
<1>1. /\ UNCHANGED <<raised, alertQ, nextId, loaded, cutShort, settled, stored>>
      /\ waiting' = <<>> /\ files' = CardRemove(files, IdsOf(waiting)) /\ mail' = MailIdle
      /\ excused' = excused \cup AlertsOf(waiting) /\ mail.pc = "on"
  BY DEF ClearAll, MailAt
<1>2. /\ waiting \in Seq(Entries) /\ files \in [Ids -> FileRecs]
      /\ stored \in SUBSET ((Nat \ {0}) \X ChanSet)
  BY DEF AlertInv, AlertTypes
<1>3. OnFile(stored, files, settled, excused) /\ Tied(Ent(waiting), files, settled, excused, 0)
  BY <1>1, KeptOnFile
<1>4. Ent(waiting) \in SUBSET Entries /\ {} \in SUBSET Ent(waiting)
  BY <1>2, EntSeq
<1>5. files' \in [Ids -> FileRecs] /\ (\A i \in Ids : files'[i] \in {None, files[i]})
      /\ OnFile(stored, files', settled, excused')
  BY <1>1, <1>2, <1>3, <1>4, CutTied
<1>6. AlertTypes'
  <2>1. waiting' \in Seq(Entries)
    BY <1>1
  <2> QED
    BY <1>1, <1>5, <2>1, IdleMail DEF AlertInv, AlertTypes
<1>7. MailInv' /\ Saving' = 0
  BY <1>1, IdleMail, AtRest
<1>8. NumberInv'
  <2>1. Ent(waiting)' = {}
    BY <1>1 DEF Ent
  <2>2. OnCard' \subseteq OnCard
    BY <1>5 DEF OnCard
  <2> QED
    BY <1>1, <2>1, <2>2 DEF AlertInv, NumberInv
<1>9. TieInv'
  BY <1>1, <1>7, NoneTied DEF TieInv
<1>10. AlertKept'
  BY <1>1, <1>5, KeptFromFile
<1> QED
  BY <1>6, <1>7, <1>8, <1>9, <1>10 DEF AlertInv

----------------------------------------------------------------------------
(* pending_add and card_load on a list that may be too long.               *)
LEMMA TakenIn ==
    ASSUME NEW all \in Seq(Entries), NEW fs \in [Ids -> FileRecs],
           NEW sto \in SUBSET ((Nat \ {0}) \X ChanSet),
           Tied(Ent(all), fs, settled, excused, 0), OnFile(sto, fs, settled, excused),
           NEW G \in SUBSET IdsOf(Pushed(all)),
           waiting' = Kept(all), files' = CardRemove(fs, G),
           excused' = excused \cup AlertsOf(Pushed(all))
    PROVE  /\ waiting' \in Seq(Entries) /\ files' \in [Ids -> FileRecs]
           /\ \A i \in Ids : files'[i] \in {None, fs[i]}
           /\ Ent(waiting') \in SUBSET Ent(all)
           /\ Tied(Ent(waiting'), files', settled, excused', 0)
           /\ OnFile(sto, files', settled, excused')
<1>1. Ent(all) \in SUBSET Entries
  BY EntSeq
<1>2. /\ waiting' \in Seq(Entries) /\ Ent(waiting') \in SUBSET Ent(all)
      /\ Pushed(all) \in Seq(Entries) /\ Ent(Pushed(all)) \in SUBSET Ent(all)
  BY KeptPushed
<1> QED
  BY <1>1, <1>2, CutTied

LEMMA InMemoryAlerts ==
    ASSUME AlertInv, NEW left \in SUBSET ChanSet, AddInMemory(left) PROVE AlertInv'
<1> DEFINE n   == [alert |-> mail.ev, left |-> left, id |-> 0]
           all == Append(waiting, n)
<1>1. /\ waiting' = Kept(all) /\ files' = CardRemove(files, IdsOf(Pushed(all)))
      /\ excused' = excused \cup AlertsOf(Pushed(all))
  BY DEF AddInMemory, TakeIn
<1>2. /\ UNCHANGED <<raised, alertQ, nextId, loaded, cutShort, settled, stored>>
      /\ mail' = AfterAdd /\ mail.pc = "add"
  BY DEF AddInMemory, MailAt
<1>3. /\ waiting \in Seq(Entries) /\ files \in [Ids -> FileRecs] /\ mail.ev \in Int
      /\ stored \in SUBSET ((Nat \ {0}) \X ChanSet) /\ nextId \in 1..(MaxIds + 1)
  BY DEF AlertInv, AlertTypes
<1>4. n \in Entries /\ n.id = 0
  BY <1>3, AlertsAssumption DEF Entries
<1> HIDE DEF n
<1>5. all \in Seq(Entries) /\ Ent(all) = Ent(waiting) \cup {n}
  BY <1>3, <1>4, EntSeq
<1> HIDE DEF all
<1>6. OnFile(stored, files, settled, excused) /\ Tied(Ent(waiting), files, settled, excused, 0)
  BY <1>2, KeptOnFile
<1>7. Tied(Ent(all), files, settled, excused, 0)
  <2>1. OfItsOwn(n, Ent(waiting), files, excused)
    BY <1>4 DEF OfItsOwn
  <2> QED
    BY <1>5, <1>6, <2>1, TiedFresh
<1>8. /\ waiting' \in Seq(Entries) /\ files' \in [Ids -> FileRecs]
      /\ \A i \in Ids : files'[i] \in {None, files[i]}
      /\ Ent(waiting') \in SUBSET Ent(all)
      /\ Tied(Ent(waiting'), files', settled, excused', 0)
      /\ OnFile(stored, files', settled, excused')
  BY <1>1, <1>3, <1>5, <1>6, <1>7, TakenIn
<1>9. AlertTypes'
  BY <1>2, <1>8, AfterMail DEF AlertInv, AlertTypes
<1>10. MailInv' /\ Saving' = 0
  BY <1>2, AfterMail, AtRest
<1>11. NumberInv'
  <2>1. OnCard' \subseteq OnCard
    BY <1>8 DEF OnCard
  <2>2. \A e \in Ent(waiting)' : e.id < nextId'
    BY <1>2, <1>3, <1>4, <1>5, <1>8 DEF AlertInv, NumberInv
  <2>3. mail'.pc # "store"
    BY <1>2, AfterMail
  <2> QED
    BY <1>2, <2>1, <2>2, <2>3 DEF AlertInv, NumberInv
<1>12. TieInv' /\ AlertKept'
  BY <1>2, <1>8, <1>10, KeptFromFile DEF TieInv
<1> QED
  BY <1>9, <1>10, <1>11, <1>12 DEF AlertInv

LEMMA OpenAlerts == ASSUME AlertInv, AddOpen PROVE AlertInv'
<1>1. /\ UNCHANGED <<raised, alertQ, waiting, loaded, cutShort, settled, stored>>
      /\ nextId \in Ids /\ nextId' = nextId + 1 /\ files' \in {files, [files EXCEPT ![nextId] = Torn]}
      /\ excused \cup Overwritten \subseteq excused' /\ mail.pc = "add"
  BY DEF AddOpen, MailAt
<1>2. /\ waiting \in Seq(Entries) /\ files \in [Ids -> FileRecs]
      /\ mail \in [pc : MailPcs, ev : Int, chan : Nat, open : BOOLEAN] /\ mail.ev >= -1
      /\ stored \in SUBSET ((Nat \ {0}) \X ChanSet) /\ nextId \in 1..(MaxIds + 1)
  BY DEF AlertInv, AlertTypes
<1>3. /\ mail' \in [pc : MailPcs, ev : Int, chan : Nat, open : BOOLEAN] /\ mail'.ev = mail.ev
      /\ mail'.pc = "store" /\ (~mail'.open => mail.ev \in excused')
  <2>1. CASE mail' = [mail EXCEPT !.pc = "store", !.open = TRUE]
    BY <1>2, <2>1 DEF MailPcs
  <2>2. CASE mail' = [mail EXCEPT !.pc = "store"] /\ mail.ev \in excused'
    BY <1>2, <2>2 DEF MailPcs
  <2>3. \/ mail' = [mail EXCEPT !.pc = "store", !.open = TRUE]
        \/ mail' = [mail EXCEPT !.pc = "store"] /\ mail.ev \in excused'
    BY DEF AddOpen
  <2> QED
    BY <2>1, <2>2, <2>3
<1>4. nextId' \in 1..(MaxIds + 1) /\ nextId' > 1 /\ nextId' - 1 = nextId
  BY <1>1, <1>2, AlertsAssumption DEF Ids
<1>5. files' \in [Ids -> FileRecs] /\ files'[nextId] \in {Torn, files[nextId]}
      /\ \A i \in Ids : i # nextId => files'[i] = files[i]
  <2>1. Torn \in FileRecs
    BY DEF Torn, FileRecs
  <2> QED
    BY <1>1, <1>2, <2>1
<1>6. AlertTypes'
  BY <1>1, <1>2, <1>3, <1>4, <1>5 DEF AlertInv, AlertTypes
<1>c. ~Alive(files'[nextId].alert, excused')
  <2>1. Torn.alert = -2 /\ None.alert = -1
    BY DEF Torn, None
  <2>2. CASE loaded /\ ~cutShort
    <3>1. files[nextId] = None
      BY <1>1, <1>2, <2>2 DEF AlertInv, NumberInv, OnCard, Ids
    <3> QED
      BY <1>5, <2>1, <3>1 DEF Alive
  <2>3. CASE ~(loaded /\ ~cutShort)
    <3>1. files[nextId].alert \in excused'
      BY <1>1, <2>3 DEF Overwritten
    <3> QED
      BY <1>5, <2>1, <3>1 DEF Alive
  <2> QED
    BY <2>2, <2>3
<1>7. MailInv'
  <2>1. mail.ev >= 0
    BY <1>1 DEF AlertInv, MailInv
  <2> QED
    BY <1>1, <1>3, <1>4, <1>c, <2>1 DEF MailInv
<1>8. NumberInv'
  <2>1. \A e \in Ent(waiting) : e.id \in Int /\ e.id < nextId
    <3>1. \A e \in Ent(waiting) : e.id < nextId
      BY DEF AlertInv, NumberInv
    <3>2. \A e \in Ent(waiting) : e.id \in 0..MaxIds
      BY <1>2, EntSeq DEF Entries
    <3> QED
      BY <3>1, <3>2
  <2>2. \A i \in OnCard' : i = nextId \/ i \in OnCard
    BY <1>5 DEF OnCard
  <2>3. loaded' /\ ~cutShort' => \A i \in OnCard' : i < nextId'
    BY <1>1, <1>2, <2>2 DEF AlertInv, NumberInv, OnCard, Ids
  <2> QED
    BY <1>1, <1>2, <1>4, <2>1, <2>3 DEF NumberInv
<1>9. OnFile(stored, files, settled, excused) /\ Tied(Ent(waiting), files, settled, excused, 0)
  BY <1>1, KeptOnFile
<1>10. TieInv'
  <2>1. \A f \in Ent(waiting) : f.id # 0 => files'[f.id] = files[f.id]
    <3> SUFFICES ASSUME NEW f \in Ent(waiting), f.id # 0 PROVE files'[f.id] = files[f.id]
      OBVIOUS
    <3>1. f.id \in 0..MaxIds
      BY <1>2, EntSeq DEF Entries
    <3>2. f.id \in Ids
      BY <3>1, IdsIs
    <3>3. f.id # nextId
      BY <1>2, <3>1 DEF AlertInv, NumberInv
    <3> QED
      BY <1>5, <3>2, <3>3
  <2>2. excused \subseteq excused'
    BY <1>1
  <2>3. Tied(Ent(waiting), files', settled, excused', 0)
    BY <1>9, <2>1, <2>2, TiedSub
  <2>4. Saving' = 0
    BY <1>3 DEF Saving
  <2> QED
    BY <1>1, <2>3, <2>4 DEF TieInv
<1>11. OnFile(stored, files', settled, excused')
  <2> SUFFICES ASSUME NEW s \in stored, s \notin settled, s[1] \notin excused'
               PROVE  \E i \in Ids : files'[i].alert = s[1] /\ s[2] \in files'[i].left
    BY DEF OnFile
  <2>1. PICK i \in Ids : files[i].alert = s[1] /\ s[2] \in files[i].left
    BY <1>1, <1>9 DEF OnFile
  <2>2. i # nextId
    <3> SUFFICES ASSUME i = nextId PROVE FALSE
      OBVIOUS
    <3>1. loaded /\ ~cutShort
      BY <1>1, <2>1 DEF Overwritten
    <3>2. files[i] # None
      <4>1. None.left = {}
        BY DEF None
      <4> QED
        BY <2>1, <4>1
    <3>3. i < nextId
      BY <3>1, <3>2 DEF AlertInv, NumberInv, OnCard
    <3> QED
      BY <1>2, <3>3
  <2> QED
    BY <1>5, <2>1, <2>2
<1>12. AlertKept'
  BY <1>1, <1>11, KeptFromFile
<1> QED
  BY <1>6, <1>7, <1>8, <1>10, <1>12 DEF AlertInv

LEMMA WriteAlerts ==
    ASSUME AlertInv, NEW left \in SUBSET ChanSet, AddWrite(left) PROVE AlertInv'
<1> DEFINE id  == nextId - 1
           n   == [alert |-> mail.ev, left |-> left, id |-> id]
           all == Append(waiting, n)
           rec == [alert |-> mail.ev, left |-> left]
           fs  == IF mail.open THEN [files EXCEPT ![id] = rec] ELSE files
           sto == IF mail.open THEN stored \cup (({mail.ev} \ {DropReport}) \X left) ELSE stored
<1>1. /\ waiting' = Kept(all) /\ files' = CardRemove(fs, IdsOf(Pushed(all)))
      /\ excused' = excused \cup AlertsOf(Pushed(all)) /\ stored' = sto
  BY DEF AddWrite, TakeIn
<1>2. /\ UNCHANGED <<raised, alertQ, nextId, loaded, cutShort, settled>>
      /\ mail' = AfterAdd /\ mail.pc = "store"
  BY DEF AddWrite, MailAt
<1>3. /\ waiting \in Seq(Entries) /\ files \in [Ids -> FileRecs] /\ mail.ev \in Int
      /\ stored \in SUBSET ((Nat \ {0}) \X ChanSet) /\ nextId \in 1..(MaxIds + 1)
  BY DEF AlertInv, AlertTypes
<1>4. /\ mail.ev >= 0 /\ nextId > 1 /\ ~Alive(files[id].alert, excused)
      /\ ~mail.open => mail.ev \in excused
  BY <1>2 DEF AlertInv, MailInv
<1>5. id \in Ids /\ id \in 0..MaxIds /\ id # 0
  BY <1>3, <1>4, AlertsAssumption DEF Ids
<1>6. n \in Entries /\ n.id = id /\ n.alert = mail.ev /\ n.left = left
  BY <1>3, <1>5 DEF Entries
<1>7. rec \in FileRecs /\ rec.alert = mail.ev /\ rec.left = left
  BY <1>3 DEF FileRecs
<1> HIDE DEF n, rec
<1>8. /\ fs \in [Ids -> FileRecs] /\ \A i \in Ids : i # id => fs[i] = files[i]
      /\ fs[id] = IF mail.open THEN rec ELSE files[id]
  <2>1. CASE mail.open
    BY <1>3, <1>5, <1>7, <2>1
  <2>2. CASE ~mail.open
    BY <1>3, <1>4, <2>2
  <2> QED
    BY <2>1, <2>2
<1>9. all \in Seq(Entries) /\ Ent(all) = Ent(waiting) \cup {n}
  BY <1>3, <1>6, EntSeq
<1> HIDE DEF all
<1>10. sto \in SUBSET ((Nat \ {0}) \X ChanSet)
       /\ \A s \in sto : s \in stored \/ (mail.open /\ s[1] = mail.ev /\ s[2] \in left)
  BY <1>3, <1>4 DEF DropReport
<1> HIDE DEF fs, sto
<1>11. OnFile(stored, files, settled, excused) /\ Tied(Ent(waiting), files, settled, excused, 0)
  BY <1>2, KeptOnFile
<1>12. OnFile(sto, fs, settled, excused)
  <2> SUFFICES ASSUME NEW s \in sto, s \notin settled, s[1] \notin excused
               PROVE  \E i \in Ids : fs[i].alert = s[1] /\ s[2] \in fs[i].left
    BY DEF OnFile
  <2>1. CASE mail.open /\ s[1] = mail.ev /\ s[2] \in left
    BY <1>5, <1>7, <1>8, <2>1
  <2>2. CASE s \in stored
    <3>1. PICK i \in Ids : files[i].alert = s[1] /\ s[2] \in files[i].left
      BY <1>11, <2>2 DEF OnFile
    <3>2. i # id
      <4>1. s[1] \in Nat \ {0}
        BY <1>3, <2>2
      <4> QED
        BY <1>4, <3>1, <4>1 DEF Alive
    <3> QED
      BY <1>8, <3>1, <3>2
  <2> QED
    BY <1>10, <2>1, <2>2
<1>13. Tied(Ent(all), fs, settled, excused, 0)
  <2>1. \A e \in Ent(waiting) : e.id # id /\ (e.id # 0 => fs[e.id] = files[e.id])
    <3> SUFFICES ASSUME NEW e \in Ent(waiting) PROVE e.id # id /\ (e.id # 0 => fs[e.id] = files[e.id])
      OBVIOUS
    <3>1. e.id \in 0..MaxIds
      BY <1>3, EntSeq DEF Entries
    <3>2. e.id < id
      BY <1>2 DEF AlertInv, NumberInv
    <3>3. e.id # id
      BY <1>5, <3>1, <3>2
    <3> QED
      BY <1>8, <3>1, <3>3, IdsIs
  <2>2. \/ fs[n.id].alert = n.alert /\ fs[n.id].left = n.left
        \/ ~Alive(fs[n.id].alert, excused) /\ n.alert \in excused
    BY <1>4, <1>6, <1>7, <1>8
  <2>3. OfItsOwn(n, Ent(waiting), fs, excused)
    BY <1>6, <2>1, <2>2 DEF OfItsOwn
  <2> QED
    BY <1>9, <1>11, <2>1, <2>3, TiedFresh
<1>14. /\ waiting' \in Seq(Entries) /\ files' \in [Ids -> FileRecs]
       /\ \A i \in Ids : files'[i] \in {None, fs[i]}
       /\ Ent(waiting') \in SUBSET Ent(all)
       /\ Tied(Ent(waiting'), files', settled, excused', 0)
       /\ OnFile(sto, files', settled, excused')
  BY <1>1, <1>8, <1>9, <1>10, <1>12, <1>13, TakenIn
<1>15. AlertTypes'
  BY <1>1, <1>2, <1>10, <1>14, AfterMail DEF AlertInv, AlertTypes
<1>16. MailInv' /\ Saving' = 0
  BY <1>2, AfterMail, AtRest
<1>17. NumberInv'
  <2>1. \A i \in OnCard' : i = id \/ i \in OnCard
    BY <1>8, <1>14 DEF OnCard
  <2>2. id < nextId
    BY <1>3
  <2>3. loaded' /\ ~cutShort' => \A i \in OnCard' : i < nextId'
    BY <1>2, <2>1, <2>2 DEF AlertInv, NumberInv
  <2>4. \A e \in Ent(waiting)' : e.id < nextId'
    BY <1>2, <1>6, <1>9, <1>14, <2>2 DEF AlertInv, NumberInv
  <2>5. mail'.pc # "store"
    BY <1>2, AfterMail
  <2> QED
    BY <2>3, <2>4, <2>5 DEF NumberInv
<1>18. TieInv' /\ AlertKept'
  BY <1>1, <1>2, <1>14, <1>16, KeptFromFile DEF TieInv
<1> QED
  BY <1>15, <1>16, <1>17, <1>18 DEF AlertInv

----------------------------------------------------------------------------
(* try_front and what follows it.                                          *)
LEMMA TryAlerts == ASSUME AlertInv, NEW waits \in BOOLEAN, TryChannel(waits) PROVE AlertInv'
<1>1. /\ UNCHANGED <<raised, alertQ, files, nextId, loaded, cutShort, stored, excused>>
      /\ mail' = [mail EXCEPT !.chan = @ + 1] /\ mail.pc = "try" /\ mail.chan \in DOMAIN Channels
  BY DEF TryChannel, MailAt
<1>2. /\ waiting \in Seq(Entries) /\ files \in [Ids -> FileRecs]
      /\ mail \in [pc : MailPcs, ev : Int, chan : Nat, open : BOOLEAN] /\ mail.ev >= -1
  BY DEF AlertInv, AlertTypes
<1>3. waiting # <<>> /\ ~mail.open
  BY <1>1 DEF AlertInv, MailInv
<1>4. /\ mail' \in [pc : MailPcs, ev : Int, chan : Nat, open : BOOLEAN] /\ mail'.ev = mail.ev
      /\ mail'.pc = "try" /\ mail'.open = mail.open
  BY <1>1, <1>2
<1> DEFINE c == Channels[mail.chan]
           q == [waiting[1] EXCEPT !.left = @ \ {c}]
<1>5. /\ waiting[1] \in Entries /\ 1 \in DOMAIN waiting /\ DOMAIN waiting = 1..Len(waiting)
  <2>1. Len(waiting) \in Nat \ {0} /\ DOMAIN waiting = 1..Len(waiting)
    BY <1>2, <1>3, EmptySeq
  <2> QED
    BY <1>2, <2>1
<1>6. /\ q \in Entries /\ q.id = waiting[1].id /\ q.alert = waiting[1].alert
      /\ q.left = waiting[1].left \ {c}
  BY <1>5 DEF Entries
<1> HIDE DEF q
<1>7. /\ waiting' \in Seq(Entries) /\ waiting' # <<>> /\ settled \subseteq settled'
      /\ Ent(waiting') \subseteq Ent(waiting) \cup {q}
      /\ q \in Ent(waiting') => q \in Ent(waiting) \/ waiting[1].alert < 1 \/ <<waiting[1].alert, c>> \in settled'
  <2>1. CASE UNCHANGED <<waiting, settled>>
    BY <1>2, <1>3, <2>1
  <2>2. CASE /\ waiting' = [waiting EXCEPT ![1].left = @ \ {c}]
             /\ settled' = settled \cup ({waiting[1].alert} \ {DropReport}) \X {c}
    <3>1. waiting' = [waiting EXCEPT ![1] = q]
      BY <2>2 DEF q
    <3>2. waiting' \in Seq(Entries) /\ Len(waiting') = Len(waiting) /\ DOMAIN waiting' = DOMAIN waiting
      BY <1>2, <1>5, <1>6, <3>1
    <3>3. \A k \in DOMAIN waiting : waiting'[k] = IF k = 1 THEN q ELSE waiting[k]
      BY <1>2, <1>5, <3>1
    <3>4. Ent(waiting') \subseteq Ent(waiting) \cup {q}
      BY <3>2, <3>3 DEF Ent
    <3>5. waiting' # <<>>
      BY <1>5, <3>2
    <3>6. waiting[1].alert < 1 \/ <<waiting[1].alert, c>> \in settled'
      <4>1. waiting[1].alert \in Int
        BY <1>5 DEF Entries
      <4> QED
        BY <2>2, <4>1 DEF DropReport
    <3> QED
      BY <2>2, <3>2, <3>4, <3>5, <3>6
  <2> QED
    BY <2>1, <2>2 DEF TryChannel
<1>8. AlertTypes'
  BY <1>1, <1>2, <1>4, <1>7 DEF AlertInv, AlertTypes
<1>9. MailInv'
  BY <1>3, <1>4, <1>7 DEF MailInv
<1>10. \A f \in Ent(waiting') : \E e \in Ent(waiting) :
          /\ f.id = e.id /\ f.alert = e.alert /\ f.left \subseteq e.left
          /\ e.alert >= 1 => Within(e.alert, e.left, f.left, settled')
  <2> SUFFICES ASSUME NEW f \in Ent(waiting')
               PROVE  \E e \in Ent(waiting) :
                         /\ f.id = e.id /\ f.alert = e.alert /\ f.left \subseteq e.left
                         /\ e.alert >= 1 => Within(e.alert, e.left, f.left, settled')
    OBVIOUS
  <2>1. CASE f \in Ent(waiting)
    BY <2>1 DEF Within
  <2>2. CASE f = q /\ f \notin Ent(waiting)
    <3>1. waiting[1] \in Ent(waiting)
      BY <1>2, <1>3, EntSeq
    <3>2. waiting[1].alert >= 1 => <<waiting[1].alert, c>> \in settled'
      <4>1. waiting[1].alert \in Int
        BY <1>5 DEF Entries
      <4> QED
        BY <1>7, <2>2, <4>1
    <3>3. waiting[1].alert >= 1 => Within(waiting[1].alert, waiting[1].left, f.left, settled')
      BY <1>6, <2>2, <3>2 DEF Within
    <3> QED
      BY <1>6, <2>2, <3>1, <3>3
  <2> QED
    BY <1>7, <2>1, <2>2
<1>11. NumberInv'
  BY <1>1, <1>4, <1>10 DEF AlertInv, NumberInv, OnCard
<1>12. OnFile(stored, files, settled, excused) /\ Tied(Ent(waiting), files, settled, excused, 0)
  BY <1>3, KeptOnFile
<1>13. Tied(Ent(waiting'), files, settled', excused, 0)
  BY <1>7, <1>10, <1>12, TiedLess
<1>14. Saving' = 0
  BY <1>4 DEF Saving
<1>15. TieInv'
  BY <1>1, <1>13, <1>14 DEF TieInv
<1>16. AlertKept'
  <2>1. OnFile(stored, files, settled', excused)
    BY <1>7, <1>12 DEF OnFile
  <2> QED
    BY <1>1, <2>1, KeptFromFile
<1> QED
  BY <1>8, <1>9, <1>11, <1>15, <1>16 DEF AlertInv

LEMMA PopAlerts == ASSUME AlertInv, PopFront PROVE AlertInv'
<1> DEFINE p == waiting[1]
<1>1. /\ UNCHANGED <<raised, alertQ, nextId, loaded, cutShort, settled, stored, excused>>
      /\ mail.pc = "try" /\ p.left = {} /\ waiting' = Tail(waiting)
      /\ files' = CardRemove(files, {p.id}) /\ mail' = [MailIdle EXCEPT !.pc = "flush"]
  BY DEF PopFront, Tried, MailAt
<1>2. /\ waiting \in Seq(Entries) /\ files \in [Ids -> FileRecs]
      /\ stored \in SUBSET ((Nat \ {0}) \X ChanSet)
  BY DEF AlertInv, AlertTypes
<1>3. waiting # <<>> /\ ~mail.open
  BY <1>1 DEF AlertInv, MailInv
<1>4. /\ p \in Ent(waiting) /\ waiting' \in Seq(Entries) /\ Ent(waiting') \in SUBSET Ent(waiting)
      /\ Ent(waiting) \in SUBSET Entries
  BY <1>1, <1>2, <1>3, EntSeq
<1> HIDE DEF p
<1>5. /\ files' \in [Ids -> FileRecs] /\ \A i \in Ids : files'[i] \in {None, files[i]}
      /\ \A i \in Ids : i # p.id => files'[i] = files[i]
  <2>1. None \in FileRecs
    BY DEF None, FileRecs
  <2> QED
    BY <1>1, <1>2, <2>1 DEF CardRemove
<1>6. AlertTypes'
  <2>1. mail' \in [pc : MailPcs, ev : Int, chan : Nat, open : BOOLEAN] /\ mail'.ev >= -1
    BY <1>1, IdleMail
  <2> QED
    BY <1>1, <1>4, <1>5, <2>1 DEF AlertInv, AlertTypes
<1>7. MailInv' /\ Saving' = 0
  BY <1>1, IdleMail, AtRest
<1>8. NumberInv'
  <2>1. OnCard' \subseteq OnCard
    BY <1>5 DEF OnCard
  <2>2. mail'.pc # "store"
    BY <1>1, IdleMail
  <2> QED
    BY <1>1, <1>4, <2>1, <2>2 DEF AlertInv, NumberInv
<1>9. OnFile(stored, files, settled, excused) /\ Tied(Ent(waiting), files, settled, excused, 0)
  BY <1>3, KeptOnFile
<1>10. TieInv'
  <2>1. \A f \in Ent(waiting') : f.id # 0 => files'[f.id] = files[f.id] \/ files'[f.id] = None
    <3> SUFFICES ASSUME NEW f \in Ent(waiting'), f.id # 0
                 PROVE  files'[f.id] = files[f.id] \/ files'[f.id] = None
      OBVIOUS
    <3>1. f.id \in 0..MaxIds
      BY <1>4 DEF Entries
    <3> QED
      BY <1>5, <3>1, IdsIs
  <2>2. Tied(Ent(waiting'), files', settled, excused, 0)
    BY <1>4, <1>9, <2>1, TiedSub
  <2> QED
    BY <1>1, <1>7, <2>2 DEF TieInv
<1>11. AlertKept'
  <2>1. OnFile(stored, files', settled, excused)
    <3> SUFFICES ASSUME NEW s \in stored, s \notin settled, s[1] \notin excused
                 PROVE  \E i \in Ids : files'[i].alert = s[1] /\ s[2] \in files'[i].left
      BY DEF OnFile
    <3>1. PICK i \in Ids : files[i].alert = s[1] /\ s[2] \in files[i].left
      BY <1>9 DEF OnFile
    <3>2. i # p.id
      <4> SUFFICES ASSUME i = p.id PROVE FALSE
        OBVIOUS
      <4>1. s = <<s[1], s[2]>> /\ s[1] \in Nat \ {0}
        BY <1>2
      <4>2. Alive(files[p.id].alert, excused) /\ p.id # 0
        BY <3>1, <4>1 DEF Alive, Ids
      <4>3. files[p.id].alert = p.alert /\ Within(p.alert, files[p.id].left, p.left, settled)
        BY <1>4, <1>9, <4>2 DEF Tied, FileIn
      <4>4. <<s[1], s[2]>> \in settled
        BY <1>1, <3>1, <4>3 DEF Within
      <4> QED
        BY <4>1, <4>4
    <3> QED
      BY <1>5, <3>1, <3>2
  <2> QED
    BY <1>1, <2>1, KeptFromFile
<1> QED
  BY <1>6, <1>7, <1>8, <1>10, <1>11 DEF AlertInv

LEMMA SaveOpenAlerts == ASSUME AlertInv, SaveOpen PROVE AlertInv'
<1> DEFINE p == waiting[1]
<1>1. /\ UNCHANGED <<raised, alertQ, waiting, nextId, loaded, cutShort, settled, stored, excused>>
      /\ mail.pc = "try"
  BY DEF SaveOpen, Tried, MailAt
<1>2. /\ waiting \in Seq(Entries) /\ files \in [Ids -> FileRecs]
      /\ mail \in [pc : MailPcs, ev : Int, chan : Nat, open : BOOLEAN] /\ mail.ev >= -1
      /\ stored \in SUBSET ((Nat \ {0}) \X ChanSet)
  BY DEF AlertInv, AlertTypes
<1>3. waiting # <<>> /\ ~mail.open
  BY <1>1 DEF AlertInv, MailInv
<1>4. p \in Ent(waiting) /\ Ent(waiting) \in SUBSET Entries
  BY <1>2, <1>3, EntSeq
<1>5. CASE mail' = MailIdle /\ UNCHANGED files
  <2>1. AlertTypes'
    BY <1>1, <1>5, IdleMail DEF AlertInv, AlertTypes
  <2>2. MailInv'
    BY <1>5, IdleMail, AtRest
  <2>3. NumberInv' /\ TieInv' /\ AlertKept'
    BY <1>1, <1>5, IdleMail, SameLists
  <2> QED
    BY <2>1, <2>2, <2>3 DEF AlertInv
<1>6. CASE /\ p.id # 0 /\ files' = [files EXCEPT ![p.id] = Torn]
           /\ mail' = [mail EXCEPT !.pc = "save", !.open = TRUE]
  <2>1. p.id \in Ids
    BY <1>4, <1>6, IdsIs DEF Entries
  <2>2. /\ files' \in [Ids -> FileRecs] /\ files'[p.id] = Torn
        /\ \A i \in Ids : i # p.id => files'[i] = files[i]
    <3>1. Torn \in FileRecs
      BY DEF Torn, FileRecs
    <3> QED
      BY <1>2, <1>6, <2>1, <3>1
  <2>3. /\ mail' \in [pc : MailPcs, ev : Int, chan : Nat, open : BOOLEAN] /\ mail'.ev = mail.ev
        /\ mail'.pc = "save" /\ mail'.open
    BY <1>2, <1>6 DEF MailPcs
  <2>4. AlertTypes'
    BY <1>1, <1>2, <2>2, <2>3 DEF AlertInv, AlertTypes
  <2>5. MailInv'
    BY <1>1, <1>3, <1>6, <2>3 DEF MailInv
  <2>6. NumberInv'
    <3>1. \A i \in OnCard' : i = p.id \/ i \in OnCard
      BY <2>2 DEF OnCard
    <3>2. p.id < nextId
      BY <1>4 DEF AlertInv, NumberInv
    <3>3. loaded' /\ ~cutShort' => \A i \in OnCard' : i < nextId'
      BY <1>1, <3>1, <3>2 DEF AlertInv, NumberInv
    <3> QED
      BY <1>1, <2>3, <3>3 DEF AlertInv, NumberInv
  <2>7. OnFile(stored, files, settled, excused) /\ Tied(Ent(waiting), files, settled, excused, 0)
    BY <1>3, KeptOnFile
  <2>8. Tied(Ent(waiting), files', settled, excused, p.id)
    <3>0. Torn.alert = -2
      BY DEF Torn
    <3>1. \A f \in Ent(waiting) : f.id # 0 /\ f.id # p.id => files'[f.id] = files[f.id]
      <4> SUFFICES ASSUME NEW f \in Ent(waiting), f.id # 0, f.id # p.id PROVE files'[f.id] = files[f.id]
        OBVIOUS
      <4>1. f.id \in 0..MaxIds
        BY <1>4 DEF Entries
      <4> QED
        BY <2>2, <4>1, IdsIs
    <3>2. FileIn(Ent(waiting), files', settled, excused)
      <4> SUFFICES ASSUME NEW f \in Ent(waiting), f.id # 0, Alive(files'[f.id].alert, excused)
                   PROVE  files'[f.id].alert = f.alert /\ Within(f.alert, files'[f.id].left, f.left, settled)
        BY DEF FileIn
      <4>1. f.id # p.id
        BY <2>2, <3>0 DEF Alive
      <4> QED
        BY <2>7, <3>1, <4>1 DEF Tied, FileIn
    <3>3. FiledIn(Ent(waiting), files', settled, excused, p.id)
      <4> SUFFICES ASSUME NEW f \in Ent(waiting), f.id # 0, Alive(f.alert, excused), f.id # p.id,
                          files'[f.id] # None
                   PROVE  files'[f.id].alert = f.alert /\ Within(f.alert, f.left, files'[f.id].left, settled)
        BY DEF FiledIn
      <4> QED
        BY <2>7, <3>1 DEF Tied, FiledIn
    <3> QED
      BY <2>7, <3>2, <3>3 DEF Tied
  <2>9. TieInv'
    <3>1. Saving' = p.id
      BY <1>1, <2>3 DEF Saving
    <3> QED
      BY <1>1, <2>8, <3>1 DEF TieInv
  <2>10. AlertKept'
    <3> SUFFICES ASSUME NEW s \in stored, s \notin settled, s[1] \notin excused
                 PROVE  \/ \E i \in Ids : files'[i].alert = s[1] /\ s[2] \in files'[i].left
                        \/ waiting[1].alert = s[1] /\ s[2] \in waiting[1].left
      BY <1>1, <2>3 DEF AlertKept, MailAt
    <3>1. PICK i \in Ids : files[i].alert = s[1] /\ s[2] \in files[i].left
      BY <2>7 DEF OnFile
    <3>2. CASE i # p.id
      BY <2>2, <3>1, <3>2
    <3>3. CASE i = p.id
      <4>1. s = <<s[1], s[2]>> /\ s[1] \in Nat \ {0}
        BY <1>2
      <4>2. Alive(files[p.id].alert, excused)
        BY <3>1, <3>3, <4>1 DEF Alive
      <4>3. files[p.id].alert = p.alert /\ Within(p.alert, files[p.id].left, p.left, settled)
        BY <1>4, <1>6, <2>7, <4>2 DEF Tied, FileIn
      <4>4. s[2] \in p.left \/ <<s[1], s[2]>> \in settled
        BY <3>1, <3>3, <4>3 DEF Within
      <4> QED
        BY <3>1, <3>3, <4>1, <4>3, <4>4
    <3> QED
      BY <3>2, <3>3
  <2> QED
    BY <2>4, <2>5, <2>6, <2>9, <2>10 DEF AlertInv
<1> QED
  BY <1>5, <1>6 DEF SaveOpen

LEMMA SaveWriteAlerts == ASSUME AlertInv, SaveWrite PROVE AlertInv'
<1> DEFINE p   == waiting[1]
           rec == [alert |-> p.alert, left |-> p.left]
<1>1. /\ UNCHANGED <<raised, alertQ, waiting, nextId, loaded, cutShort, settled, stored, excused>>
      /\ mail.pc = "save" /\ mail' = MailIdle
      /\ files' = IF mail.open THEN [files EXCEPT ![p.id] = rec] ELSE files
  BY DEF SaveWrite, MailAt
<1>2. /\ waiting \in Seq(Entries) /\ files \in [Ids -> FileRecs]
      /\ stored \in SUBSET ((Nat \ {0}) \X ChanSet)
  BY DEF AlertInv, AlertTypes
<1>3. waiting # <<>> /\ p.id # 0
  BY <1>1 DEF AlertInv, MailInv
<1>4. p \in Ent(waiting) /\ Ent(waiting) \in SUBSET Entries
  BY <1>2, <1>3, EntSeq
<1>5. p.id \in Ids /\ rec \in FileRecs /\ rec.alert = p.alert /\ rec.left = p.left
  BY <1>3, <1>4, IdsIs DEF Entries, FileRecs
<1> HIDE DEF rec
<1>6. /\ files' \in [Ids -> FileRecs] /\ \A i \in Ids : i # p.id => files'[i] = files[i]
      /\ mail.open => files'[p.id] = rec
      /\ ~mail.open => files' = files
  <2>1. CASE mail.open
    BY <1>1, <1>2, <1>5, <2>1
  <2>2. CASE ~mail.open
    BY <1>1, <1>2, <2>2
  <2> QED
    BY <2>1, <2>2
<1>7. AlertTypes'
  BY <1>1, <1>6, IdleMail DEF AlertInv, AlertTypes
<1>8. MailInv' /\ Saving' = 0
  BY <1>1, IdleMail, AtRest
<1>9. NumberInv'
  <2>1. \A i \in OnCard' : i = p.id \/ i \in OnCard
    BY <1>6 DEF OnCard
  <2>2. p.id < nextId
    BY <1>4 DEF AlertInv, NumberInv
  <2>3. mail'.pc # "store"
    BY <1>1, IdleMail
  <2> QED
    BY <1>1, <2>1, <2>2, <2>3 DEF AlertInv, NumberInv
<1>10. CASE ~mail.open
  <2>1. OnFile(stored, files, settled, excused) /\ Tied(Ent(waiting), files, settled, excused, 0)
    BY <1>10, KeptOnFile
  <2>2. files' = files
    BY <1>6, <1>10
  <2>3. TieInv' /\ AlertKept'
    BY <1>1, <1>8, <2>1, <2>2, KeptFromFile DEF TieInv
  <2> QED
    BY <1>7, <1>8, <1>9, <2>3 DEF AlertInv
<1>11. CASE mail.open
  <2>0. files'[p.id].alert = p.alert /\ files'[p.id].left = p.left
    BY <1>5, <1>6, <1>11
  <2>1. Tied(Ent(waiting), files, settled, excused, p.id)
    BY <1>1, <1>11 DEF AlertInv, TieInv, Saving
  <2>2. \A f \in Ent(waiting) : f.id # 0 /\ f.id # p.id => files'[f.id] = files[f.id]
    <3> SUFFICES ASSUME NEW f \in Ent(waiting), f.id # 0, f.id # p.id PROVE files'[f.id] = files[f.id]
      OBVIOUS
    <3>1. f.id \in 0..MaxIds
      BY <1>4 DEF Entries
    <3> QED
      BY <1>6, <3>1, IdsIs
  <2>3. FileIn(Ent(waiting), files', settled, excused)
    <3> SUFFICES ASSUME NEW f \in Ent(waiting), f.id # 0, Alive(files'[f.id].alert, excused)
                 PROVE  files'[f.id].alert = f.alert /\ Within(f.alert, files'[f.id].left, f.left, settled)
      BY DEF FileIn
    <3>1. CASE f.id # p.id
      BY <2>1, <2>2, <3>1 DEF Tied, FileIn
    <3>2. CASE f.id = p.id
      <4>1. Alive(p.alert, excused)
        BY <2>0, <3>2
      <4>2. f.alert = p.alert /\ Within(p.alert, p.left, f.left, settled)
        BY <1>3, <1>4, <2>1, <3>2, <4>1 DEF Tied, Kin
      <4> QED
        BY <2>0, <3>2, <4>2
    <3> QED
      BY <3>1, <3>2
  <2>4. FiledIn(Ent(waiting), files', settled, excused, 0)
    <3> SUFFICES ASSUME NEW f \in Ent(waiting), f.id # 0, Alive(f.alert, excused), files'[f.id] # None
                 PROVE  files'[f.id].alert = f.alert /\ Within(f.alert, f.left, files'[f.id].left, settled)
      BY DEF FiledIn
    <3>1. CASE f.id # p.id
      BY <2>1, <2>2, <3>1 DEF Tied, FiledIn
    <3>2. CASE f.id = p.id
      <4>1. p.alert = f.alert /\ Within(f.alert, f.left, p.left, settled)
        BY <1>4, <2>1, <3>2 DEF Tied, Kin
      <4> QED
        BY <2>0, <3>2, <4>1
    <3> QED
      BY <3>1, <3>2
  <2>5. TieInv'
    BY <1>1, <1>8, <2>1, <2>3, <2>4 DEF TieInv, Tied
  <2>6. AlertKept'
    <3>1. OnFile(stored, files', settled, excused)
      <4> SUFFICES ASSUME NEW s \in stored, s \notin settled, s[1] \notin excused
                   PROVE  \E i \in Ids : files'[i].alert = s[1] /\ s[2] \in files'[i].left
        BY DEF OnFile
      <4>1. s = <<s[1], s[2]>> /\ s[1] \in Nat \ {0}
        BY <1>2
      <4>2. CASE p.alert = s[1] /\ s[2] \in p.left
        BY <1>5, <2>0, <4>2
      <4>3. CASE \E i \in Ids : files[i].alert = s[1] /\ s[2] \in files[i].left
        <5>1. PICK i \in Ids : files[i].alert = s[1] /\ s[2] \in files[i].left
          BY <4>3
        <5>2. CASE i # p.id
          BY <1>6, <5>1, <5>2
        <5>3. CASE i = p.id
          <6>1. Alive(files[p.id].alert, excused)
            BY <4>1, <5>1, <5>3 DEF Alive
          <6>2. files[p.id].alert = p.alert /\ Within(p.alert, files[p.id].left, p.left, settled)
            BY <1>3, <1>4, <2>1, <6>1 DEF Tied, FileIn
          <6>3. s[2] \in p.left \/ <<s[1], s[2]>> \in settled
            BY <5>1, <5>3, <6>2 DEF Within
          <6> QED
            BY <1>5, <2>0, <4>1, <5>1, <5>3, <6>2, <6>3
        <5> QED
          BY <5>2, <5>3
      <4> QED
        BY <4>2, <4>3 DEF AlertInv, AlertKept
    <3> QED
      BY <1>1, <3>1, KeptFromFile
  <2> QED
    BY <1>7, <1>8, <1>9, <2>5, <2>6 DEF AlertInv
<1> QED
  BY <1>10, <1>11

----------------------------------------------------------------------------
(* card_load finds a number beyond every file it lists.                    *)
LEMMA FreeNumber ==
    ASSUME AlertTypes, NEW listed \in SUBSET OnCard
    PROVE  \E n \in 1..(MaxIds + 1) : /\ n >= nextId /\ \A i \in listed : n > i
                                      /\ n = nextId \/ n - 1 \in listed
<1>1. nextId \in 1..(MaxIds + 1) /\ MaxIds \in Nat
  BY AlertsAssumption DEF AlertTypes
<1>2. CASE \A i \in listed : i < nextId
  BY <1>1, <1>2 DEF OnCard, Ids
<1>3. CASE ~ \A i \in listed : i < nextId
  <2>1. PICK j \in listed : ~(j < nextId)
    BY <1>3
  <2> DEFINE S == {MaxIds - i : i \in listed}
  <2>2. S \in SUBSET Nat /\ S # {}
    BY <1>1, <2>1 DEF OnCard, Ids
  <2>3. PICK x \in S : \A y \in S : x <= y
    BY <2>2, LeastNo
  <2>4. PICK m \in listed : x = MaxIds - m
    BY <2>3
  <2>5. \A i \in listed : MaxIds - m <= MaxIds - i
    BY <2>3, <2>4
  <2>6. m \in 1..MaxIds /\ j \in 1..MaxIds /\ \A i \in listed : i \in 1..MaxIds
    BY DEF OnCard, Ids
  <2>7. \A i \in listed : i <= m
    BY <1>1, <2>5, <2>6
  <2>8. m + 1 \in 1..(MaxIds + 1) /\ m + 1 >= nextId /\ (m + 1) - 1 = m
    BY <1>1, <2>1, <2>6, <2>7
  <2>9. \A i \in listed : m + 1 > i
    BY <2>6, <2>7
  <2> QED
    BY <2>4, <2>8, <2>9
<1> QED
  BY <1>2, <1>3

LEMMA ReadBackIs ==
    ASSUME AlertTypes, NEW ids \in SUBSET OnCard, NEW ns \in Sorted(ids)
    PROVE  /\ ReadBack(ns) \in Seq(Entries)
           /\ \A f \in Ent(ReadBack(ns)) :
                 /\ f.id \in ids /\ files[f.id] # None /\ f.left = files[f.id].left
                 /\ f.alert = IF files[f.id] = Torn THEN NoAlert ELSE files[f.id].alert
<1>1. ids \subseteq 1..MaxIds
  BY DEF OnCard, Ids
<1>2. IsFiniteSet(ids)
  <2>1. IsFiniteSet(1..MaxIds)
    BY AlertsAssumption, FS_Interval
  <2> QED
    BY <1>1, <2>1, FS_Subset
<1>3. Cardinality(ids) \in Nat
  BY <1>2, FS_CardinalityType
<1>4. ns \in [1..Cardinality(ids) -> ids] /\ DOMAIN ns = 1..Cardinality(ids)
  BY DEF Sorted
<1>5. \A k \in DOMAIN ns : ns[k] \in Ids /\ ns[k] \in ids /\ files[ns[k]] # None /\ files[ns[k]] \in FileRecs
  BY <1>4 DEF OnCard, AlertTypes
<1> DEFINE g(k) == [alert |-> IF files[ns[k]] = Torn THEN NoAlert ELSE files[ns[k]].alert,
                    left |-> files[ns[k]].left, id |-> ns[k]]
<1>6. \A k \in DOMAIN ns : g(k) \in Entries
  <2> SUFFICES ASSUME NEW k \in DOMAIN ns PROVE g(k) \in Entries
    OBVIOUS
  <2>1. files[ns[k]].alert \in Int /\ files[ns[k]].left \in SUBSET ChanSet
    BY <1>5 DEF FileRecs
  <2>2. ns[k] \in 0..MaxIds
    BY <1>5 DEF Ids
  <2> QED
    BY <2>1, <2>2 DEF Entries, NoAlert
<1>7. ReadBack(ns) = [k \in 1..Cardinality(ids) |-> g(k)]
  BY <1>4 DEF ReadBack
<1>8. ReadBack(ns) \in Seq(Entries)
  <2>1. ReadBack(ns) \in [1..Cardinality(ids) -> Entries]
    BY <1>4, <1>6, <1>7
  <2> QED
    BY <1>3, <2>1
<1>9. ASSUME NEW f \in Ent(ReadBack(ns))
      PROVE  /\ f.id \in ids /\ files[f.id] # None /\ f.left = files[f.id].left
             /\ f.alert = IF files[f.id] = Torn THEN NoAlert ELSE files[f.id].alert
  <2>1. PICK k \in 1..Cardinality(ids) : f = g(k)
    BY <1>7 DEF Ent
  <2>2. f.id = ns[k] /\ f.left = files[ns[k]].left
        /\ f.alert = IF files[ns[k]] = Torn THEN NoAlert ELSE files[ns[k]].alert
    BY <2>1
  <2> QED
    BY <1>4, <1>5, <2>2
<1> QED
  BY <1>8, <1>9

LEMMA LoadAlerts ==
    ASSUME AlertInv, CardLoad \/ CardLoadCut, mail.pc = "receive", mail'.pc = "on", ~mail'.open,
           UNCHANGED <<settled, stored>>
    PROVE  /\ waiting' \in Seq(Entries) /\ files' \in [Ids -> FileRecs] /\ nextId' \in 1..(MaxIds + 1)
           /\ NumberInv' /\ TieInv' /\ AlertKept'
<1>1. PICK listed \in SUBSET OnCard :
         /\ nextId' = Beyond(listed) /\ cutShort' = (listed # OnCard)
         /\ \E read \in SUBSET listed, each \in BOOLEAN : ListBack(read, each)
  <2>1. CASE CardLoad
    <3>1. nextId' = Beyond(OnCard) /\ cutShort' = FALSE
      BY <2>1 DEF CardLoad
    <3>2. \E read \in SUBSET OnCard, each \in BOOLEAN : ListBack(read, each)
      BY <2>1 DEF CardLoad
    <3> QED
      BY <3>1, <3>2
  <2>2. CASE CardLoadCut
    <3>1. PICK listed \in SUBSET OnCard :
             /\ cutShort' = (listed # OnCard) /\ nextId' = Beyond(listed)
             /\ \E read \in SUBSET listed :
                  Cardinality(read) <= 2 * WaitMax /\ ListBack(read, FALSE)
      BY <2>2 DEF CardLoadCut
    <3>2. \E read \in SUBSET listed, each \in BOOLEAN : ListBack(read, each)
      BY <3>1
    <3> QED
      BY <3>1, <3>2
  <2> QED
    BY <2>1, <2>2
<1>2. PICK ids \in SUBSET listed, each \in BOOLEAN : ListBack(ids, each)
  BY <1>1
<1>a. PICK ns \in Sorted(ids) :
         /\ waiting' = Kept(waiting \o ReadBack(ns))
         /\ \E cleared \in SUBSET IdsOf(Pushed(waiting \o ReadBack(ns))) : files' = CardRemove(files, cleared)
         /\ excused' = excused \cup AlertsOf(Pushed(waiting \o ReadBack(ns)))
  BY <1>2 DEF ListBack
<1>3. AlertTypes /\ waiting \in Seq(Entries) /\ files \in [Ids -> FileRecs]
      /\ stored \in SUBSET ((Nat \ {0}) \X ChanSet) /\ nextId \in 1..(MaxIds + 1)
  BY DEF AlertInv, AlertTypes
<1> DEFINE R   == Ent(ReadBack(ns))
           all == waiting \o ReadBack(ns)
<1>4. /\ ReadBack(ns) \in Seq(Entries)
      /\ \A f \in R : /\ f.id \in listed /\ files[f.id] # None /\ f.left = files[f.id].left
                      /\ f.alert = IF files[f.id] = Torn THEN NoAlert ELSE files[f.id].alert
  BY <1>3, ReadBackIs
<1>5. all \in Seq(Entries) /\ Ent(all) \in SUBSET (Ent(waiting) \cup R)
  BY <1>3, <1>4, EntJoin
<1>6. OnFile(stored, files, settled, excused) /\ Tied(Ent(waiting), files, settled, excused, 0)
  BY KeptOnFile
<1> HIDE DEF R, all
<1>7. Tied(Ent(waiting) \cup R, files, settled, excused, 0)
  BY <1>4, <1>6, TiedJoin
<1>8. Tied(Ent(all), files, settled, excused, 0)
  BY <1>5, <1>7, TiedSub
<1>9. PICK cleared \in SUBSET IdsOf(Pushed(all)) :
         /\ waiting' = Kept(all) /\ files' = CardRemove(files, cleared)
         /\ excused' = excused \cup AlertsOf(Pushed(all))
  BY <1>a DEF all
<1>10. /\ waiting' \in Seq(Entries) /\ files' \in [Ids -> FileRecs]
       /\ \A i \in Ids : files'[i] \in {None, files[i]}
       /\ Ent(waiting') \in SUBSET Ent(all)
       /\ Tied(Ent(waiting'), files', settled, excused', 0)
       /\ OnFile(stored, files', settled, excused')
  BY <1>3, <1>5, <1>6, <1>8, <1>9, TakenIn
<1>11. nextId' \in 1..(MaxIds + 1) /\ nextId' >= nextId /\ \A i \in listed : nextId' > i
  BY <1>1, <1>3, FreeNumber DEF Beyond
<1>12. NumberInv'
  <2>1. \A i \in listed : i \in Int /\ i < nextId'
    BY <1>11 DEF OnCard, Ids
  <2>2. OnCard' \subseteq OnCard
    BY <1>10 DEF OnCard
  <2>3. \A e \in Ent(waiting) : e.id \in Int /\ e.id < nextId
    <3>1. \A e \in Ent(waiting) : e.id < nextId
      BY DEF AlertInv, NumberInv
    <3>2. \A e \in Ent(waiting) : e.id \in 0..MaxIds
      BY <1>3, EntSeq DEF Entries
    <3> QED
      BY <3>1, <3>2
  <2>4. \A e \in Ent(waiting) : e.id < nextId'
    BY <1>3, <1>11, <2>3
  <2>5. \A e \in R : e.id < nextId'
    BY <1>4, <2>1
  <2>6. \A e \in Ent(waiting') : e.id < nextId'
    BY <1>5, <1>10, <2>4, <2>5
  <2> QED
    BY <1>1, <2>1, <2>2, <2>6 DEF NumberInv
<1>13. Saving' = 0
  BY DEF Saving
<1>14. TieInv' /\ AlertKept'
  BY <1>10, <1>13, KeptFromFile DEF TieInv
<1> QED
  BY <1>10, <1>11, <1>12, <1>14

LEMMA ReceiveAlerts == ASSUME AlertInv, Receive PROVE AlertInv'
<1>1. /\ UNCHANGED <<raised, settled, stored>> /\ mail.pc = "receive"
  BY DEF Receive, MailAt
<1>2. /\ mail \in [pc : MailPcs, ev : Int, chan : Nat, open : BOOLEAN] /\ mail.ev >= -1 /\ ~mail.open
      /\ alertQ \in Seq(Nat \ {0})
  BY <1>1 DEF AlertInv, AlertTypes, MailInv
<1>3. /\ mail' \in [pc : MailPcs, ev : Int, chan : Nat, open : BOOLEAN] /\ mail'.ev >= -1
      /\ mail'.pc = "on" /\ ~mail'.open /\ alertQ' \in Seq(Nat \ {0})
  <2>1. CASE alertQ = <<>>
    <3>1. mail' = [mail EXCEPT !.pc = "on"] /\ alertQ' = alertQ
      BY <2>1 DEF Receive
    <3> QED
      BY <1>2, <3>1 DEF MailPcs
  <2>2. CASE alertQ # <<>>
    <3>1. mail' = [mail EXCEPT !.pc = "on", !.ev = Head(alertQ)] /\ alertQ' = Tail(alertQ)
      BY <2>2 DEF Receive
    <3>2. Head(alertQ) \in Nat \ {0} /\ Tail(alertQ) \in Seq(Nat \ {0})
      BY <1>2, <2>2
    <3>3. Head(alertQ) \in Int /\ Head(alertQ) >= -1
      BY <3>2
    <3> QED
      BY <1>2, <3>1, <3>2, <3>3 DEF MailPcs
  <2> QED
    BY <2>1, <2>2
<1>4. MailInv'
  BY <1>3, AtRest
<1>5. CASE UNCHANGED <<waiting, files, nextId, loaded, cutShort, excused>>
  <2>1. AlertTypes'
    BY <1>1, <1>3, <1>5 DEF AlertInv, AlertTypes
  <2>2. NumberInv' /\ TieInv' /\ AlertKept'
    BY <1>1, <1>3, <1>5, SameLists
  <2> QED
    BY <1>4, <2>1, <2>2 DEF AlertInv
<1>6. CASE CardLoad \/ CardLoadCut
  <2>1. /\ waiting' \in Seq(Entries) /\ files' \in [Ids -> FileRecs] /\ nextId' \in 1..(MaxIds + 1)
        /\ NumberInv' /\ TieInv' /\ AlertKept'
    BY <1>1, <1>3, <1>6, LoadAlerts
  <2>2. AlertTypes'
    BY <1>1, <1>3, <2>1 DEF AlertInv, AlertTypes
  <2> QED
    BY <1>4, <2>1, <2>2 DEF AlertInv
<1> QED
  BY <1>5, <1>6 DEF Receive

LEMMA InitAlerts == ASSUME AlertInit PROVE AlertInv
<1>1. /\ raised = 0 /\ alertQ = <<>> /\ waiting = <<>> /\ files = [i \in Ids |-> None]
      /\ nextId = 1 /\ loaded = FALSE /\ mail = MailIdle /\ stored = {}
  BY DEF AlertInit
<1>2. AlertTypes
  <2>1. None \in FileRecs
    BY DEF None, FileRecs
  <2>2. files \in [Ids -> FileRecs]
    BY <1>1, <2>1
  <2>3. nextId \in 1..(MaxIds + 1)
    BY <1>1, AlertsAssumption
  <2>4. alertQ \in Seq(Nat \ {0}) /\ waiting \in Seq(Entries)
    BY <1>1
  <2> QED
    BY <1>1, <2>2, <2>3, <2>4, IdleMail DEF AlertTypes
<1>3. MailInv /\ Saving = 0
  BY <1>1, IdleMail DEF MailInv, Saving
<1>4. Ent(waiting) = {}
  BY <1>1 DEF Ent
<1>5. NumberInv
  BY <1>1, <1>4 DEF NumberInv
<1>6. TieInv
  BY <1>3, <1>4 DEF TieInv, Tied, FileIn, Kin, FiledIn
<1>7. AlertKept
  BY <1>1 DEF AlertKept
<1> QED
  BY <1>2, <1>3, <1>5, <1>6, <1>7 DEF AlertInv

(* For each channel an alert in a file once written whole still had to     *)
(* reach, it is delivered, or the card still has it down for that channel  *)
(* (kvm_notify.c's card_store, card_save_meta, card_load and               *)
(* pending_pop_front), whatever restarts and pulled cards come between.    *)
(* Excepted are alerts pushed out of a full list or cleared when sending   *)
(* was switched off, an alert whose file, the first or the one for a       *)
(* retry, was cut off by power, card or a failed write, or never opened,   *)
(* and one whose number a later alert got as the card had not been read    *)
(* back, or not to the end of its directory.                               *)
THEOREM AlertsStayKept == AlertSpec => []AlertKept
<1>1. AlertInit => AlertInv
  BY InitAlerts
<1>2. AlertInv /\ [AlertNext]_alertVars => AlertInv'
  <2> SUFFICES ASSUME AlertInv, [AlertNext]_alertVars PROVE AlertInv'
    OBVIOUS
  <2> QED
    BY RaiseAlerts, GoOnAlerts, ClearAlerts, PulledAlerts, RestartAlerts, InMemoryAlerts, OpenAlerts,
       WriteAlerts, TryAlerts, PopAlerts, SaveOpenAlerts, SaveWriteAlerts, ReceiveAlerts DEF AlertNext
<1>3. AlertInv => AlertKept
  BY DEF AlertInv
<1> QED
  BY <1>1, <1>2, <1>3, PTL DEF AlertSpec
=============================================================================
