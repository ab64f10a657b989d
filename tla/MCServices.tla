----------------------------- MODULE MCServices -----------------------------
(***************************************************************************)
(* One instance for the services around the video pipeline.  They share no *)
(* state in these models, so their product would say no more than each of  *)
(* them alone: a behaviour takes one service, chosen at the start, and     *)
(* leaves the others as they were, in one of their initial states.         *)
(***************************************************************************)
EXTENDS ClipSegments, VirtualMedia, HidInput, Scheduler, Runbook, PowerButton, MCProfiles,
        Alerts, WebrtcSessions

VARIABLE svc        \* the service this behaviour is about

MCJobs     == <<[at |-> {0, 1}, action |-> "runbook"], [at |-> {2}, action |-> "restart"]>>
MCScript   == <<"look", "quick", "look">>
MCChannels == <<"telegram", "webhook">>

Services == {"clips", "media", "hid", "sched", "book", "atx", "profiles", "alerts", "webrtc"}

svcVars == <<svc, segVars, clipVars, mediaVars, hidVars, schedVars, bookVars, atxVars, profVars,
             alertVars, sessVars>>

Init ==
    /\ svc \in Services
    /\ ClipInit /\ MediaInit /\ HidInit /\ SchedInit /\ BookInit /\ AtxInit
    /\ ProfInit /\ AlertInit /\ SessInit
    /\ svc # "clips" => segFiles = {}
    /\ svc # "media" => slot = 0 /\ rescue = "erased"
    /\ svc # "profiles" => dev = CHOOSE d \in Devices : TRUE
    /\ svc # "alerts" => ~cardIn

(* Every service but one is left as it was.                                *)
OnlyClips == svc = "clips" /\ UNCHANGED <<svc, mediaVars, hidVars, schedVars, bookVars, atxVars, profVars,
                            alertVars, sessVars>>
OnlyMedia == svc = "media" /\ UNCHANGED <<svc, segVars, clipVars, hidVars, schedVars, bookVars, atxVars,
                            profVars, alertVars, sessVars>>
OnlyHid == svc = "hid" /\ UNCHANGED <<svc, segVars, clipVars, mediaVars, schedVars, bookVars, atxVars,
                          profVars, alertVars, sessVars>>
OnlySched == svc = "sched" /\ UNCHANGED <<svc, segVars, clipVars, mediaVars, hidVars, bookVars, atxVars,
                            profVars, alertVars, sessVars>>
OnlyBook == svc = "book" /\ UNCHANGED <<svc, segVars, clipVars, mediaVars, hidVars, schedVars, atxVars,
                           profVars, alertVars, sessVars>>
OnlyAtx == svc = "atx" /\ UNCHANGED <<svc, segVars, clipVars, mediaVars, hidVars, schedVars, bookVars,
                          profVars, alertVars, sessVars>>
OnlyProfiles == svc = "profiles" /\ UNCHANGED <<svc, segVars, clipVars, mediaVars, hidVars, schedVars, bookVars,
                               atxVars, alertVars, sessVars>>
OnlyAlerts == svc = "alerts" /\ UNCHANGED <<svc, segVars, clipVars, mediaVars, hidVars, schedVars, bookVars,
                             atxVars, profVars, sessVars>>
OnlyWebrtc == svc = "webrtc" /\ UNCHANGED <<svc, segVars, clipVars, mediaVars, hidVars, schedVars, bookVars,
                             atxVars, profVars, alertVars>>

(* Where a service's one property asks nothing more of a behaviour (two    *)
(* runbooks racing, a queue torn by a reset), the behaviour ends.          *)
Next ==
    \/ OnlyClips /\ ClipNext
    \/ OnlyMedia /\ MediaNext
    \/ OnlyHid /\ ~torn /\ HidNext
    \/ OnlySched /\ SchedNext
    \/ OnlyBook /\ ~rbRaced /\ BookNext
    \/ OnlyAtx /\ AtxNext
    \/ OnlyProfiles /\ ProfNext
    \/ OnlyAlerts /\ AlertNext
    \/ OnlyWebrtc /\ SessNext

Spec == Init /\ [][Next]_svcVars
=============================================================================
