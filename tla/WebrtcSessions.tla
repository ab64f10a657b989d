--------------------------- MODULE WebrtcSessions ---------------------------
(***************************************************************************)
(* The WebRTC sessions' lives (kvm_webrtc.c): the web server's task        *)
(* answers an offer in several steps, waiting for a slot when all are      *)
(* taken, and closes sessions; the receive task takes the browsers'        *)
(* datagrams and keeps house.  s_mu guards the slots, s_freed counts the   *)
(* slots freed.                                                            *)
(*                                                                         *)
(* The server has one task, so there is one offer at a time and no close   *)
(* during it.  Whether a datagram belongs to a session, and how a          *)
(* handshake goes, is the browser's choice.  Sending is in FrameDelivery.  *)
(***************************************************************************)
EXTENDS Integers, FiniteSets

CONSTANTS
    SessionsMax,    \* MAX_SESSIONS
    MaxOffers       \* bound on the offers made

ASSUME SessionsAssumption == SessionsMax \in Nat \ {0} /\ MaxOffers \in Nat

VARIABLES
    sess,           \* s_sess: slot -> [st, id]; ids grow with created_us
    nextSess,       \* s_next_id
    freed,          \* s_freed
    offer,          \* kvm_webrtc_offer: [pc, slot, killed, late]
    viewers,        \* what video_frame_viewer_enter and _leave count
    gone,           \* WebRTC is switched off, or the device sends MJPEG
    spared          \* history: no offer ended a live session beside a dead one

sessVars == <<sess, nextSess, freed, offer, viewers, gone, spared>>

SlotIds   == 1..SessionsMax
FreeSlot  == [st |-> "free", id |-> 0]
OfferIdle == [pc |-> "idle", slot |-> 0, killed |-> FALSE, late |-> FALSE]
Live      == {"ice", "dtls", "media"}
In(states) == {i \in SlotIds : sess[i].st \in states}

(* session_kill.                                                           *)
Killed(i) == [sess EXCEPT ![i].st = IF @ \in {"free", "dead"} THEN @ ELSE "dead"]

----------------------------------------------------------------------------
(* kvm_webrtc_offer, as far as take_slot.                                  *)
OfferCome ==
    /\ offer.pc = "idle" /\ nextSess <= MaxOffers /\ ~gone
    /\ offer' = [OfferIdle EXCEPT !.pc = "scan"]
    /\ UNCHANGED <<sess, nextSess, freed, viewers, gone, spared>>

(* take_slot under the lock: the first free slot is claimed ...            *)
TakeFree ==
    /\ offer.pc = "scan"
    /\ \E i \in In({"free"}) :
         /\ \A j \in In({"free"}) : i <= j
         /\ sess' = [sess EXCEPT ![i].st = "claimed"]
         /\ offer' = [OfferIdle EXCEPT !.pc = "build", !.slot = i]
    /\ UNCHANGED <<nextSess, freed, viewers, gone, spared>>

(* ... and with none, the oldest session is ended, once.                   *)
TakeOldest ==
    /\ offer.pc = "scan" /\ In({"free"}) = {}
    /\ \/ /\ ~offer.killed /\ In(Live) # {}
          /\ \E i \in In(Live) :
               /\ \A j \in In(Live) : sess[i].id <= sess[j].id
               /\ sess' = Killed(i)
          /\ spared' = (spared /\ In({"dead"}) = {})
          /\ offer' = [offer EXCEPT !.pc = "left", !.killed = TRUE]
       \/ /\ offer.killed \/ In(Live) = {}
          /\ offer' = [offer EXCEPT !.pc = IF offer.killed THEN "left" ELSE "refuse"]
          /\ UNCHANGED <<sess, spared>>
    /\ UNCHANGED <<nextSess, freed, viewers, gone>>

OfferLeft ==
    /\ offer.pc = "left"
    /\ offer' = [offer EXCEPT !.pc = IF offer.late THEN "refuse" ELSE "wait"]
    /\ UNCHANGED <<sess, nextSess, freed, viewers, gone, spared>>

OfferLate ==
    /\ offer.pc \in {"scan", "left", "wait"} /\ ~offer.late
    /\ offer' = [offer EXCEPT !.late = TRUE, !.pc = IF @ = "wait" THEN "scan" ELSE @]
    /\ UNCHANGED <<sess, nextSess, freed, viewers, gone, spared>>

OfferWoken ==
    /\ offer.pc = "wait" /\ freed > 0
    /\ freed' = freed - 1
    /\ offer' = [offer EXCEPT !.pc = "scan"]
    /\ UNCHANGED <<sess, nextSess, viewers, gone, spared>>

OfferRefused ==
    /\ offer.pc = "refuse" /\ offer' = OfferIdle
    /\ UNCHANGED <<sess, nextSess, freed, viewers, gone, spared>>

(* Mutant of OfferBuilt: the viewer is counted once the session is there.  *)
OfferBuilt_Uncounted ==
    /\ offer.pc = "build"
    /\ offer' = [offer EXCEPT !.pc = "publish"]
    /\ UNCHANGED <<sess, nextSess, freed, viewers, gone, spared>>

(* The session is built outside the lock, and the encoder told, ...        *)
OfferBuilt ==
    /\ offer.pc = "build"
    /\ viewers' = viewers + 1
    /\ offer' = [offer EXCEPT !.pc = "publish"]
    /\ UNCHANGED <<sess, nextSess, freed, gone, spared>>

(* ... unless memory ran out or there is no address to answer with.        *)
OfferFails ==
    /\ offer.pc = "build"
    /\ sess' = [sess EXCEPT ![offer.slot].st = "free"]
    /\ offer' = OfferIdle
    /\ UNCHANGED <<nextSess, freed, viewers, gone, spared>>

OfferPublish ==
    /\ offer.pc = "publish"
    /\ sess' = [sess EXCEPT ![offer.slot] = [st |-> "ice", id |-> nextSess]]
    /\ nextSess' = nextSess + 1
    /\ offer' = OfferIdle
    /\ UNCHANGED <<freed, viewers, gone, spared>>

(* kvm_webrtc_close: a console that leaves.                                *)
Close(id) ==
    /\ offer.pc = "idle"
    /\ \E i \in SlotIds : sess[i].id = id /\ sess[i].st # "free" /\ sess' = Killed(i)
    /\ UNCHANGED <<nextSess, freed, offer, viewers, gone, spared>>

----------------------------------------------------------------------------
(* The receive task.  on_stun starts the handshake, dtls_step goes on with *)
(* it and dtls_done ends it.                                               *)
OnDatagram(i) ==
    /\ sess[i].st \in {"ice", "dtls"}
    /\ sess' = [sess EXCEPT ![i].st = IF @ = "ice" THEN "dtls" ELSE "media"]
    /\ UNCHANGED <<nextSess, freed, offer, viewers, gone, spared>>

(* The handshake failed or the browser closed it.                          *)
DatagramEnds(i) ==
    /\ sess[i].st \in Live /\ sess' = Killed(i)
    /\ UNCHANGED <<nextSess, freed, offer, viewers, gone, spared>>

(* housekeeping, one turn: the dead are freed; those that never connected, *)
(* stopped answering or whose sign-in ended are marked for the next turn.  *)
Housekeeping(ended) ==
    /\ ended \subseteq In(Live)
    /\ LET out == In({"dead"}) \cup (IF gone THEN In(Live) ELSE {})
       IN  /\ sess' = [i \in SlotIds |->
                          IF i \in out THEN FreeSlot
                          ELSE IF i \in ended THEN [sess[i] EXCEPT !.st = "dead"] ELSE sess[i]]
           /\ viewers' = viewers - Cardinality(out)
           /\ freed' = IF freed + Cardinality(out) > SessionsMax THEN SessionsMax
                       ELSE freed + Cardinality(out)
    /\ UNCHANGED <<nextSess, offer, gone, spared>>

SwitchWebrtc ==
    /\ gone' = ~gone
    /\ UNCHANGED <<sess, nextSess, freed, offer, viewers, spared>>

SessInit ==
    /\ sess = [i \in SlotIds |-> FreeSlot] /\ nextSess = 1 /\ freed = 0 /\ offer = OfferIdle
    /\ viewers = 0 /\ gone = FALSE /\ spared = TRUE

SessNext ==
    \/ OfferCome \/ TakeFree \/ TakeOldest \/ OfferLeft \/ OfferLate \/ OfferWoken
    \/ OfferRefused \/ OfferBuilt \/ OfferFails \/ OfferPublish
    \/ \E id \in 1..MaxOffers : Close(id)
    \/ \E i \in SlotIds : OnDatagram(i) \/ DatagramEnds(i)
    \/ \E ended \in SUBSET SlotIds : Housekeeping(ended)
    \/ SwitchWebrtc

SessSpec == SessInit /\ [][SessNext]_sessVars

----------------------------------------------------------------------------
(* kvm_webrtc.c: the encoder, which runs for its viewers, counts exactly   *)
(* the sessions from the moment each is about to be published to the       *)
(* moment it is freed, whoever ends it, and no slot is given away under an *)
(* offer that has claimed it.                                              *)
ViewersTrue ==
    /\ viewers = Cardinality(In(Live \cup {"dead"})) + (IF offer.pc = "publish" THEN 1 ELSE 0)
    /\ offer.slot # 0 => sess[offer.slot].st = "claimed"

(* take_slot's "When both are taken the oldest session is closed for the   *)
(* new one": no live session is ended while another slot only waits to be  *)
(* freed.                                                                  *)
LiveSpared == spared
=============================================================================
