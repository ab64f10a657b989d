------------------------------- MODULE Alerts -------------------------------
(***************************************************************************)
(* Alerts on their way out (kvm_notify.c): a queue any task may put an     *)
(* alert on, and the task that takes it into the list of waiting alerts,   *)
(* keeps a copy of each on the card, tries the oldest on every channel it  *)
(* still has to reach and takes up the list again after a restart.         *)
(*                                                                         *)
(* A channel is Telegram, the webhook or the browsers.  The files of an    *)
(* alert are its .txt, written anew from nothing each time: card and power *)
(* can go while it is being written, and the write can fail, which nobody  *)
(* notices.  What is then in the file counts as nothing.  The card may     *)
(* also go, or fail, while the alerts on it are read back.  The card that  *)
(* comes back is the one that went.  The retry times are a flag.  Left     *)
(* out: texts, screenshots and log tails, memory running out, finding a    *)
(* chat, and what raises an alert (poll_events).                           *)
(***************************************************************************)
EXTENDS Integers, Sequences, FiniteSets

CONSTANTS
    WaitMax,        \* PENDING_MAX
    AlertDepth,     \* the length of s_queue
    Channels,       \* a sequence, in the order try_front goes through it
    MaxAlerts,      \* bound on the alerts raised
    MaxIds,         \* bound on the numbers given to files
    MaxMishaps      \* bound on restarts and on the card's going or failing, together

ASSUME AlertsAssumption ==
    /\ WaitMax \in Nat \ {0} /\ AlertDepth \in Nat \ {0} /\ Len(Channels) \in Nat \ {0}
    /\ MaxAlerts \in Nat /\ MaxIds \in Nat \ {0} /\ MaxMishaps \in Nat

VARIABLES
    raised,         \* alerts raised so far
    alertQ,         \* s_queue
    waiting,        \* s_pending: a sequence of [alert, left, id]
    files,          \* the card's .notify: id -> [alert, left], Torn or None
    cardIn,         \* kvm_storage_writable
    nextId, loaded, \* s_next_id, s_card_loaded
    cutShort,       \* history: the card was read back, but some of its files not listed
    pushedOut,        \* s_dropped # 0
    backoff,        \* s_next_retry_us lies ahead
    mail,           \* the task: [pc, ev, chan, open]
    mishaps,        \* restarts and the card's accidents so far
    settled,        \* history: <<alert, channel>> sent, refused or switched off
    stored,         \* history: <<alert, channel>> in a first file written whole
    excused         \* history: alerts given up or lost in a way AlertKept names

alertVars == <<raised, alertQ, waiting, files, cardIn, nextId, loaded, cutShort, pushedOut, backoff,
               mail, mishaps, settled, stored, excused>>

None     == [alert |-> -1, left |-> {}]
Torn     == [alert |-> -2, left |-> {}]
DropReport   == 0           \* "Alerts dropped", an alert of the task's own
NoAlert  == -1
ChanSet  == {Channels[k] : k \in DOMAIN Channels}
Ids      == 1..MaxIds
MailIdle == [pc |-> "receive", ev |-> NoAlert, chan |-> 0, open |-> FALSE]

MailAt(pc)   == mail.pc = pc
OnCard   == {i \in Ids : files[i] # None}

(* card_remove, of the files with numbers in ids: nothing without a card.  *)
CardRemove(fs, ids) == IF cardIn THEN [i \in Ids |-> IF i \in ids THEN None ELSE fs[i]] ELSE fs

IdsOf(entries)    == {entries[k].id : k \in DOMAIN entries}
AlertsOf(entries) == {entries[k].alert : k \in DOMAIN entries}

(* The newest WaitMax of entries, and what was pushed out.                 *)
Kept(entries)   == SubSeq(entries, Len(entries) - (IF Len(entries) < WaitMax THEN Len(entries)
                                                   ELSE WaitMax) + 1, Len(entries))
Pushed(entries) == SubSeq(entries, 1, Len(entries) - Len(Kept(entries)))

----------------------------------------------------------------------------
(* kvm_notify_send, kvm_notify_send_clip: never blocks, a full queue drops *)
(* it.                                                                     *)
Raise ==
    /\ raised < MaxAlerts
    /\ raised' = raised + 1
    /\ alertQ' = IF Len(alertQ) < AlertDepth THEN Append(alertQ, raised') ELSE alertQ
    /\ UNCHANGED <<mishaps, waiting, files, cardIn, nextId, loaded, cutShort, pushedOut, backoff,
                   mail, settled, stored, excused>>

(* card_load: the alerts on the card follow what waits in memory, lowest   *)
(* number first, and new files are numbered from beyond them.              *)
Sorted(ids) == {ns \in [1..Cardinality(ids) -> ids] :
                   \A j, k \in DOMAIN ns : j < k => ns[j] < ns[k]}

ReadBack(ns) == [k \in DOMAIN ns |->
                    [alert |-> IF files[ns[k]] = Torn THEN NoAlert ELSE files[ns[k]].alert,
                     left |-> files[ns[k]].left, id |-> ns[k]]]

(* The number beyond the files listed, unless it is beyond them already.   *)
Beyond(listed) == CHOOSE n \in 1..(MaxIds + 1) :
                     /\ n >= nextId /\ \A i \in listed : n > i
                     /\ n = nextId \/ n - 1 \in listed

(* What was read joins the list; what that pushes out leaves the card,     *)
(* each file or, on a card that goes meanwhile, some of them.              *)
ListBack(read, each) ==
    \E ns \in Sorted(read) :
      LET all  == waiting \o ReadBack(ns)
          gone == IdsOf(Pushed(all))
      IN  /\ waiting' = Kept(all)
          /\ \E ids \in (IF each THEN {gone} ELSE SUBSET gone) : files' = CardRemove(files, ids)
          /\ pushedOut' = (pushedOut \/ Pushed(all) # <<>>)
          /\ excused' = excused \cup AlertsOf(Pushed(all))

(* Mutant of CardLoad: new files are numbered from 1 after a restart.      *)
CardLoad_KeepsNumber ==
    /\ loaded' = TRUE /\ cutShort' = FALSE /\ nextId' = nextId
    /\ ListBack(OnCard, TRUE)
    /\ UNCHANGED <<mishaps, cardIn>>

(* It takes at most twice PENDING_MAX of the files it lists.               *)
CardLoad ==
    /\ loaded' = TRUE /\ cutShort' = FALSE
    /\ nextId' = Beyond(OnCard)
    /\ \E read \in SUBSET OnCard :
         /\ read = OnCard \/ Cardinality(read) = 2 * WaitMax
         /\ ListBack(read, TRUE)
    /\ UNCHANGED <<mishaps, cardIn>>

(* The card goes or fails between the look at it and the last file: the    *)
(* directory does not open or ends early, files do not open or read.  It   *)
(* is not read again before the next restart all the same.                 *)
CardLoadCut ==
    /\ mishaps < MaxMishaps /\ mishaps' = mishaps + 1
    /\ cardIn' \in BOOLEAN
    /\ loaded' = TRUE
    /\ \E listed \in SUBSET OnCard :
         /\ cutShort' = (listed # OnCard)
         /\ nextId' = Beyond(listed)
         /\ \E read \in SUBSET listed :
              Cardinality(read) <= 2 * WaitMax /\ ListBack(read, FALSE)

(* task: wait for an alert or the poll, and read the card back once.       *)
Receive ==
    /\ MailAt("receive")
    /\ IF alertQ = <<>>
         THEN mail' = [mail EXCEPT !.pc = "on"] /\ UNCHANGED alertQ
         ELSE /\ mail' = [mail EXCEPT !.pc = "on", !.ev = Head(alertQ)]
              /\ alertQ' = Tail(alertQ)
    /\ IF ~loaded /\ cardIn THEN CardLoad \/ CardLoadCut
       ELSE UNCHANGED <<mishaps, waiting, files, cardIn, nextId, loaded, cutShort, pushedOut,
                        excused>>
    /\ UNCHANGED <<raised, backoff, settled, stored>>

(* Switched off: nothing is kept for later.                                *)
ClearAll ==
    /\ MailAt("on")
    /\ waiting' = <<>> /\ files' = CardRemove(files, IdsOf(waiting))
    /\ excused' = excused \cup AlertsOf(waiting)
    /\ pushedOut' = FALSE /\ backoff' = FALSE
    /\ mail' = MailIdle
    /\ UNCHANGED <<mishaps, raised, alertQ, cardIn, nextId, loaded, cutShort, settled, stored>>

GoOn ==
    /\ MailAt("on")
    /\ mail' = [mail EXCEPT !.pc = IF mail.ev = NoAlert THEN "flush" ELSE "add"]
    /\ UNCHANGED <<mishaps, raised, alertQ, waiting, files, cardIn, nextId, loaded, cutShort,
                   pushedOut, backoff, settled, stored, excused>>

(* pending_add: the list, at its limit, loses its oldest.                  *)
TakeIn(entry, fs) ==
    LET all == Append(waiting, entry)
    IN  /\ waiting' = Kept(all)
        /\ files' = CardRemove(fs, IdsOf(Pushed(all)))
        /\ pushedOut' = ((pushedOut /\ mail.ev # DropReport) \/ Pushed(all) # <<>>)
        /\ excused' = excused \cup AlertsOf(Pushed(all))

(* The report closes flush_pending, an alert precedes it.                  *)
AfterAdd == IF mail.ev = DropReport THEN MailIdle ELSE [MailIdle EXCEPT !.pc = "flush"]

(* A new alert may end the wait: the last try was long enough ago.         *)
MayRetry == backoff' \in IF mail.ev = DropReport THEN {backoff} ELSE {backoff, FALSE}

(* The alert whose number a new one gets, where the card was not read back *)
(* or its files not all listed.                                            *)
Overwritten == IF loaded /\ ~cutShort THEN {} ELSE {files[nextId].alert}

(* No channel is set up, or clips are not wanted.                          *)
AddNone ==
    /\ MailAt("add")
    /\ mail' = AfterAdd /\ MayRetry
    /\ pushedOut' = (pushedOut /\ mail.ev # DropReport)
    /\ UNCHANGED <<mishaps, raised, alertQ, waiting, files, cardIn, nextId, loaded, cutShort,
                   settled, stored, excused>>

(* card_store finds no card: the alert waits in memory.                    *)
AddInMemory(left) ==
    /\ MailAt("add") /\ ~cardIn
    /\ TakeIn([alert |-> mail.ev, left |-> left, id |-> 0], files)
    /\ mail' = AfterAdd /\ MayRetry
    /\ UNCHANGED <<mishaps, raised, alertQ, cardIn, nextId, loaded, cutShort, settled, stored>>

(* card_store opens the file, which may fail ...  The number is free, as   *)
(* far as the card was read back.                                          *)
AddOpen ==
    /\ MailAt("add") /\ cardIn /\ nextId \in Ids
    /\ nextId' = nextId + 1
    /\ \/ /\ files' = [files EXCEPT ![nextId] = Torn]
          /\ mail' = [mail EXCEPT !.pc = "store", !.open = TRUE]
          /\ excused' = excused \cup Overwritten
          /\ UNCHANGED mishaps
       \/ /\ mishaps < MaxMishaps /\ mishaps' = mishaps + 1
          /\ mail' = [mail EXCEPT !.pc = "store"]
          /\ excused' = excused \cup Overwritten \cup {mail.ev}
          /\ UNCHANGED files
    /\ UNCHANGED <<raised, alertQ, waiting, cardIn, loaded, cutShort, pushedOut, backoff, settled,
                   stored>>

(* ... and writes it.                                                      *)
AddWrite(left) ==
    /\ MailAt("store")
    /\ LET id    == nextId - 1
           saved == [files EXCEPT ![id] = [alert |-> mail.ev, left |-> left]]
       IN  /\ TakeIn([alert |-> mail.ev, left |-> left, id |-> id],
                     IF mail.open THEN saved ELSE files)
           /\ stored' = IF mail.open THEN stored \cup ({mail.ev} \ {DropReport}) \X left
                        ELSE stored
    /\ mail' = AfterAdd /\ MayRetry
    /\ UNCHANGED <<mishaps, raised, alertQ, cardIn, nextId, loaded, cutShort, settled>>

----------------------------------------------------------------------------
(* flush_pending.                                                          *)
Flush ==
    /\ MailAt("flush")
    /\ mail' = CASE waiting # <<>> /\ ~backoff -> [mail EXCEPT !.pc = "try", !.chan = 1]
                 [] waiting = <<>> /\ pushedOut  -> [mail EXCEPT !.pc = "add", !.ev = DropReport]
                 [] OTHER                      -> MailIdle
    /\ UNCHANGED <<mishaps, raised, alertQ, waiting, files, cardIn, nextId, loaded, cutShort,
                   pushedOut, backoff, settled, stored, excused>>

(* try_front, one channel: sent, refused or switched off it is settled, or *)
(* it has to wait.                                                         *)
TryChannel(waits) ==
    /\ MailAt("try") /\ mail.chan \in DOMAIN Channels
    /\ LET c == Channels[mail.chan]
           p == waiting[1]
       IN  IF c \notin p.left \/ waits THEN UNCHANGED <<waiting, settled>>
           ELSE /\ waiting' = [waiting EXCEPT ![1].left = @ \ {c}]
                /\ settled' = settled \cup ({p.alert} \ {DropReport}) \X {c}
    /\ mail' = [mail EXCEPT !.chan = @ + 1]
    /\ UNCHANGED <<mishaps, raised, alertQ, files, cardIn, nextId, loaded, cutShort, pushedOut,
                   backoff, stored, excused>>

Tried == MailAt("try") /\ mail.chan \notin DOMAIN Channels

(* Done everywhere: pending_pop_front.                                     *)
PopFront ==
    /\ Tried /\ waiting[1].left = {}
    /\ waiting' = Tail(waiting)
    /\ files' = CardRemove(files, {waiting[1].id})
    /\ backoff' = FALSE
    /\ mail' = [MailIdle EXCEPT !.pc = "flush"]
    /\ UNCHANGED <<mishaps, raised, alertQ, cardIn, nextId, loaded, cutShort, pushedOut, settled,
                   stored, excused>>

(* It has to wait: card_save_meta opens the file, or cannot ...            *)
SaveOpen ==
    /\ Tried /\ waiting[1].left # {}
    /\ LET id == waiting[1].id
       IN  \/ /\ id # 0 /\ cardIn
              /\ files' = [files EXCEPT ![id] = Torn]
              /\ mail' = [mail EXCEPT !.pc = "save", !.open = TRUE]
              /\ UNCHANGED <<backoff, mishaps>>
           \/ /\ IF id = 0 \/ ~cardIn THEN UNCHANGED mishaps
                 ELSE mishaps < MaxMishaps /\ mishaps' = mishaps + 1
              /\ mail' = MailIdle /\ backoff' = TRUE
              /\ UNCHANGED files
    /\ UNCHANGED <<raised, alertQ, waiting, cardIn, nextId, loaded, cutShort, pushedOut, settled,
                   stored, excused>>

(* ... and writes it.                                                      *)
SaveWrite ==
    /\ MailAt("save")
    /\ files' = IF mail.open
                THEN [files EXCEPT ![waiting[1].id] = [alert |-> waiting[1].alert,
                                                       left |-> waiting[1].left]]
                ELSE files
    /\ mail' = MailIdle /\ backoff' = TRUE
    /\ UNCHANGED <<mishaps, raised, alertQ, waiting, cardIn, nextId, loaded, cutShort, pushedOut,
                   settled, stored, excused>>

RetryDue ==
    /\ backoff /\ backoff' = FALSE
    /\ UNCHANGED <<mishaps, raised, alertQ, waiting, files, cardIn, nextId, loaded, cutShort,
                   pushedOut, mail, settled, stored, excused>>

----------------------------------------------------------------------------
(* The environment.  The alert whose file is open when the card or power   *)
(* goes, or when the write fails, may be lost with it.                     *)
Writing == IF ~mail.open THEN {}
           ELSE IF MailAt("store") THEN {mail.ev} ELSE {waiting[1].alert}

(* The card is full or failing: what card_write returns is not looked at.  *)
WriteFails ==
    /\ mail.open
    /\ mishaps < MaxMishaps /\ mishaps' = mishaps + 1
    /\ mail' = [mail EXCEPT !.open = FALSE]
    /\ excused' = excused \cup Writing
    /\ UNCHANGED <<raised, alertQ, waiting, files, cardIn, nextId, loaded, cutShort, pushedOut,
                   backoff, settled, stored>>

CardPulled ==
    /\ cardIn /\ cardIn' = FALSE
    /\ mishaps < MaxMishaps /\ mishaps' = mishaps + 1
    /\ mail' = [mail EXCEPT !.open = FALSE]
    /\ excused' = excused \cup Writing
    /\ UNCHANGED <<raised, alertQ, waiting, files, nextId, loaded, cutShort, pushedOut, backoff,
                   settled, stored>>

CardBack ==
    /\ ~cardIn /\ cardIn' = TRUE
    /\ UNCHANGED <<mishaps, raised, alertQ, waiting, files, nextId, loaded, cutShort, pushedOut,
                   backoff, mail, settled, stored, excused>>

Restart ==
    /\ mishaps < MaxMishaps /\ mishaps' = mishaps + 1
    /\ alertQ' = <<>> /\ waiting' = <<>>
    /\ nextId' = 1 /\ loaded' = FALSE /\ cutShort' = FALSE
    /\ pushedOut' = FALSE /\ backoff' = FALSE /\ mail' = MailIdle
    /\ excused' = excused \cup Writing
    /\ UNCHANGED <<raised, files, cardIn, settled, stored>>

AlertInit ==
    /\ raised = 0 /\ alertQ = <<>> /\ waiting = <<>> /\ files = [i \in Ids |-> None]
    /\ cardIn \in BOOLEAN /\ nextId = 1 /\ loaded = FALSE /\ cutShort = FALSE
    /\ pushedOut = FALSE /\ backoff = FALSE /\ mail = MailIdle
    /\ mishaps = 0 /\ settled = {} /\ stored = {} /\ excused = {}

AlertNext ==
    \/ Raise \/ Receive \/ ClearAll \/ GoOn \/ AddNone \/ AddOpen
    \/ \E left \in SUBSET ChanSet \ {{}} : AddInMemory(left) \/ AddWrite(left)
    \/ Flush \/ (\E waits \in BOOLEAN : TryChannel(waits)) \/ PopFront \/ SaveOpen \/ SaveWrite
    \/ RetryDue \/ WriteFails \/ CardPulled \/ CardBack \/ Restart

AlertSpec == AlertInit /\ [][AlertNext]_alertVars

----------------------------------------------------------------------------
(* How far kvm_notify.c's "With a writable card the list lives there too,  *)
(* so it survives a restart" is true: a channel an alert on the card still *)
(* had to reach was reached, or the card still has the alert down for it,  *)
(* whatever restarts came between and however often the card went and      *)
(* came.  Excused are alerts that were pushed out of a full list, cleared  *)
(* when sending was switched off, in a file that power, card or a failed   *)
(* write cut off while it was written, at first or anew for a retry, or in *)
(* a file whose number a later alert got as the card had not been read     *)
(* back, or not to the end of its directory.                               *)
AlertKept ==
    \A s \in stored :
        \/ s \in settled \/ s[1] \in excused
        \/ \E i \in Ids : files[i].alert = s[1] /\ s[2] \in files[i].left
        \/ (mail.open /\ MailAt("save") /\ waiting[1].alert = s[1] /\ s[2] \in waiting[1].left)
=============================================================================
