---------------------------- MODULE VirtualMedia ----------------------------
(***************************************************************************)
(* The card and the drive the target sees (kvm_storage.c, main.c's         *)
(* apply_media_selection, usb_hid.c's MSC callbacks): a file on the card,  *)
(* the rescue partition, or the whole card, handed to the target to write. *)
(* The web task and the slot watcher both reconcile the drive with the     *)
(* settings, the target reads meanwhile, and the recorder, uploads and the *)
(* rescue image's upload write.  What is done under s_media_lock is one    *)
(* step.  The setup hotspot's kvm_storage_bus_suspend is left out.         *)
(***************************************************************************)
EXTENDS Integers

VARIABLES
    msc,            \* msc_image, "none" also for msc_enable off
    slot,           \* a card is in the slot (1, 2 tell cards apart; 0 is none)
    card,           \* s_card: the card that is mounted
    handed,         \* s_handed_over
    src,            \* s_media_src; "none" is s_media_open off
    ahead,          \* the read-ahead: [src, card] it was filled from
    rescue,         \* the partition: "erased", "image", "part"
    rescueWriting,  \* s_rescue_writing
    job,            \* apply_media_selection and kvm_storage_reread, per task
    prevImage,      \* prev_image
    recording,      \* the recorder writes to the card
    upload,         \* a file upload writes to the card
    clash           \* history: a mount without the lock met another one

mediaVars == <<msc, slot, card, handed, src, ahead, rescue, rescueWriting, job, prevImage,
               recording, upload, clash>>

Images == {"none", "file", "rescue", "whole"}
Tasks  == {"web", "watch"}
Idle   == [pc |-> "idle", image |-> "none"]
Empty  == [src |-> "none", card |-> 0]

(* kvm_storage_writable.                                                   *)
Writable == card # 0 /\ ~handed

(* media_close_locked.                                                     *)
MediaClosed == src' = "none" /\ ahead' = Empty

At(t, pc) == job[t].pc = pc
Goto(t, pc) == job' = [job EXCEPT ![t].pc = pc]

----------------------------------------------------------------------------
(* The operator's settings and the card in the slot.                       *)

SetImage(i) ==
    /\ At("web", "idle") /\ i # msc
    /\ msc' = i
    /\ job' = [job EXCEPT !["web"] = [pc |-> "begin", image |-> "none"]]
    /\ UNCHANGED <<slot, card, handed, src, ahead, rescue, rescueWriting, prevImage,
                   recording, upload, clash>>

CardIn(c) ==
    /\ slot = 0 /\ slot' = c
    /\ UNCHANGED <<msc, card, handed, src, ahead, rescue, rescueWriting, job, prevImage,
                   recording, upload, clash>>

CardOut ==
    /\ slot # 0 /\ slot' = 0
    /\ UNCHANGED <<msc, card, handed, src, ahead, rescue, rescueWriting, job, prevImage,
                   recording, upload, clash>>

----------------------------------------------------------------------------
(* apply_media_selection.                                                  *)

(* The setting is read; leaving the whole card, the card is re-read first. *)
ApplyBegin(t) ==
    /\ At(t, "begin")
    /\ LET reread == prevImage = "whole" /\ msc # "whole" /\ handed
       IN  /\ job' = [job EXCEPT ![t] = [pc |-> IF reread THEN "leave" ELSE "select",
                                         image |-> msc]]
           /\ prevImage' = IF reread THEN prevImage ELSE msc
    /\ UNCHANGED <<msc, slot, card, handed, src, ahead, rescue, rescueWriting,
                   recording, upload, clash>>

(* fs_leaving: the recorder closes its files.                              *)
RereadLeave(t) ==
    /\ At(t, "leave")
    /\ recording' = FALSE
    /\ Goto(t, "close")
    /\ UNCHANGED <<msc, slot, card, handed, src, ahead, rescue, rescueWriting, prevImage,
                   upload, clash>>

(* Mutant of RereadClose: the medium is left open.                         *)
RereadClose_Open(t) ==
    /\ At(t, "close")
    /\ handed' = FALSE /\ card' = 0
    /\ Goto(t, "mount")
    /\ UNCHANGED <<msc, slot, src, ahead, rescue, rescueWriting, prevImage,
                   recording, upload, clash>>

RereadClose(t) ==
    /\ At(t, "close")
    /\ handed' = FALSE /\ card' = 0
    /\ MediaClosed
    /\ Goto(t, "mount")
    /\ UNCHANGED <<msc, slot, rescue, rescueWriting, prevImage, recording, upload,
                   clash>>

(* kvm_storage_init mounts without the lock.  If the watcher has mounted   *)
(* the card meanwhile the driver may refuse, and s_card is cleared.        *)
RereadMount(t) ==
    /\ At(t, "mount")
    /\ card' \in {slot, 0}
    /\ clash' = (clash \/ card # 0)
    /\ prevImage' = job[t].image
    /\ Goto(t, "select")
    /\ UNCHANGED <<msc, slot, handed, src, ahead, rescue, rescueWriting, recording,
                   upload>>

(* Mutant of SelectRescue: not asked whether it is being written.          *)
SelectRescue_Writing ==
    /\ ahead' = Empty
    /\ src' = IF rescue = "erased" THEN "none" ELSE "flash"
    /\ UNCHANGED handed

(* kvm_storage_media_select_rescue; refused, the drive is ejected.         *)
SelectRescue ==
    /\ ahead' = Empty
    /\ src' = IF rescueWriting \/ rescue = "erased" THEN "none" ELSE "flash"
    /\ UNCHANGED handed

(* kvm_storage_media_select; a file that is not there ejects the drive.    *)
SelectFile ==
    /\ ahead' = Empty
    /\ \/ card # 0 /\ src' = "sd"
       \/ src' = "none"
    /\ UNCHANGED handed

SelectNone == MediaClosed /\ UNCHANGED handed

(* The last part: what the card's state is asked for comes before.         *)
ApplySelect(t) ==
    /\ At(t, "select")
    /\ \/ job[t].image = "rescue" /\ SelectRescue /\ Goto(t, "idle")
       \/ job[t].image = "file" /\ SelectFile /\ Goto(t, "idle")
       \/ job[t].image = "none" /\ SelectNone /\ Goto(t, "idle")
       \/ job[t].image = "whole" /\ card = 0 /\ SelectNone /\ Goto(t, "idle")
       \/ /\ job[t].image = "whole" /\ card # 0
          /\ Goto(t, "handover")
          /\ UNCHANGED <<src, ahead, handed>>
    /\ recording' = (recording /\ ~(job[t].image = "whole" /\ card # 0))
    /\ UNCHANGED <<msc, slot, card, rescue, rescueWriting, prevImage, upload, clash>>

(* kvm_storage_media_select_whole_sd after fs_leaving.                     *)
ApplyHandover(t) ==
    /\ At(t, "handover")
    /\ ahead' = Empty
    /\ src' = IF card # 0 THEN "whole" ELSE "none"
    /\ handed' = (handed \/ card # 0)
    /\ Goto(t, "idle")
    /\ UNCHANGED <<msc, slot, card, rescue, rescueWriting, prevImage, recording,
                   upload, clash>>

----------------------------------------------------------------------------
(* The slot watcher.                                                       *)

(* A card in an empty slot is mounted under the lock.                      *)
WatchMount ==
    /\ At("watch", "idle") /\ card = 0 /\ ~handed /\ slot # 0
    /\ card' = slot
    /\ clash' = (clash \/ \E t \in Tasks : At(t, "mount"))
    /\ Goto("watch", "begin")
    /\ UNCHANGED <<msc, slot, handed, src, ahead, rescue, rescueWriting, prevImage,
                   recording, upload>>

(* The card does not answer, or is another one: fs_leaving outside the     *)
(* lock ...                                                                *)
WatchGone ==
    /\ At("watch", "idle") /\ card # 0 /\ slot # card
    /\ recording' = FALSE
    /\ Goto("watch", "unmount")
    /\ UNCHANGED <<msc, slot, card, handed, src, ahead, rescue, rescueWriting, prevImage,
                   upload, clash>>

(* ... then the medium is closed and the card unmounted under it.          *)
WatchUnmount ==
    /\ At("watch", "unmount")
    /\ MediaClosed
    /\ handed' = FALSE /\ card' = 0
    /\ Goto("watch", "begin")
    /\ UNCHANGED <<msc, slot, rescue, rescueWriting, prevImage, recording, upload,
                   clash>>

----------------------------------------------------------------------------
(* The target.                                                             *)

(* kvm_storage_media_read of the card: from the read-ahead, or filling it. *)
TargetRead ==
    /\ src \in {"sd", "whole"} /\ ahead = Empty /\ slot # 0 /\ card = slot
    /\ ahead' = [src |-> src, card |-> card]
    /\ UNCHANGED <<msc, slot, card, handed, src, rescue, rescueWriting, job, prevImage,
                   recording, upload, clash>>

(* kvm_storage_media_write drops the read-ahead.                           *)
TargetWrite ==
    /\ ahead # Empty /\ ahead' = Empty
    /\ UNCHANGED <<msc, slot, card, handed, src, rescue, rescueWriting, job, prevImage,
                   recording, upload, clash>>

(* tud_msc_start_stop_cb: the host ejects; a handed card stays handed.     *)
TargetEject ==
    /\ src # "none" /\ MediaClosed
    /\ UNCHANGED <<msc, slot, card, handed, rescue, rescueWriting, job, prevImage,
                   recording, upload, clash>>

----------------------------------------------------------------------------
(* Who writes on the device's side.                                        *)

(* A recording or an upload begins where the card may be written; the      *)
(* recorder is told to stop, an upload is not.                             *)
RecordBegin ==
    /\ Writable /\ ~recording /\ recording' = TRUE
    /\ UNCHANGED <<msc, slot, card, handed, src, ahead, rescue, rescueWriting, job, prevImage,
                   upload, clash>>

UploadBegin ==
    /\ Writable /\ ~upload /\ upload' = TRUE
    /\ UNCHANGED <<msc, slot, card, handed, src, ahead, rescue, rescueWriting, job, prevImage,
                   recording, clash>>

UploadEnd ==
    /\ upload /\ upload' = FALSE
    /\ UNCHANGED <<msc, slot, card, handed, src, ahead, rescue, rescueWriting, job, prevImage,
                   recording, clash>>

(* kvm_storage_rescue_write_begin, to the erase; a failed erase ends it.   *)
RescueBegin ==
    /\ ~rescueWriting /\ rescueWriting' = TRUE
    /\ IF src = "flash" THEN MediaClosed ELSE UNCHANGED <<src, ahead>>
    /\ rescue' = "part"
    /\ UNCHANGED <<msc, slot, card, handed, job, prevImage, recording, upload, clash>>

(* The last piece is written, or the upload breaks off.                    *)
RescueEnd ==
    /\ rescueWriting /\ rescueWriting' = FALSE
    /\ rescue' \in {"erased", "part", "image"}
    /\ UNCHANGED <<msc, slot, card, handed, src, ahead, job, prevImage, recording,
                   upload, clash>>

----------------------------------------------------------------------------
MediaInit ==
    /\ msc = "none" /\ slot \in {0, 1} /\ card = 0 /\ handed = FALSE
    /\ src = "none" /\ ahead = Empty
    /\ rescue \in {"erased", "image"} /\ rescueWriting = FALSE
    /\ job = [t \in Tasks |-> Idle] /\ prevImage = "none"
    /\ recording = FALSE /\ upload = FALSE /\ clash = FALSE

MediaNext ==
    \/ \E i \in Images : SetImage(i)
    \/ \E c \in {1, 2} : CardIn(c)
    \/ CardOut
    \/ \E t \in Tasks : \/ ApplyBegin(t) \/ RereadLeave(t) \/ RereadClose(t) \/ RereadMount(t)
                        \/ ApplySelect(t) \/ ApplyHandover(t)
    \/ WatchMount \/ WatchGone \/ WatchUnmount
    \/ TargetRead \/ TargetWrite \/ TargetEject
    \/ RecordBegin \/ UploadBegin \/ UploadEnd \/ RescueBegin \/ RescueEnd

MediaSpec == MediaInit /\ [][MediaNext]_mediaVars

----------------------------------------------------------------------------
(* What the target is served from the card comes from the card that is     *)
(* mounted, the read-ahead included, whatever the watcher and the web task *)
(* unmount, re-read and select under it.  Apart from a re-read that mounts *)
(* the card at the same time as the watcher.                               *)
MediumBacked ==
    ~clash => /\ src \in {"sd", "whole"} => card # 0
              /\ ahead # Empty => ahead = [src |-> src, card |-> card]

(* The rescue image is never served while it is being replaced.            *)
RescueApart == rescueWriting => src # "flash"

(* "the firmware then keeps off the filesystem so there is a single        *)
(* writer": nobody here writes while the card is the target's.             *)
SingleWriter == handed /\ src = "whole" => ~upload /\ ~recording
=============================================================================
