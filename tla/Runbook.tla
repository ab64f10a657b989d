------------------------------ MODULE Runbook -------------------------------
(***************************************************************************)
(* The runbooks (runbook.c): runbook_start from the scheduler's task or a  *)
(* console's request (MQTT's task starts one as the scheduler does), the   *)
(* task that carries out the steps, runbook_stop.                          *)
(*                                                                         *)
(* A script is a list of steps that either look at s_stop (keys, text,     *)
(* pauses, waits: "look") or do not ("quick": record, screenshot, HDMI,    *)
(* timeout).  Not modelled: the text of a script and its parser.           *)
(***************************************************************************)
EXTENDS Integers, Sequences

CONSTANT Script     \* the steps of the runbook

ASSUME ScriptAssumption == \A i \in DOMAIN Script : Script[i] \in {"quick", "look"}

VARIABLES
    start,          \* runbook_start, per calling task
    rbRunning, rbStop, rbScript,    \* s_running, s_stop, s_script (0 is NULL)
    runs,           \* the runbook tasks, per the task that made them: [pc, script, step, late]
    asked,          \* history: a stop was accepted since s_running was set
    rbFreed,        \* history: scripts that were freed
    rbRaced,        \* history: two starts were past the check together
    overrun         \* history: a looking step begun after that stop ran to its end

bookVars == <<start, rbRunning, rbStop, rbScript, runs, asked, rbFreed, rbRaced, overrun>>

Starters == {"sched", "console"}
NoRun    == [pc |-> "none", script |-> 0, step |-> 0, late |-> FALSE]

----------------------------------------------------------------------------
Called(t) ==
    /\ start[t] = "idle"
    /\ start' = [start EXCEPT ![t] = "check"]
    /\ UNCHANGED <<rbRunning, rbStop, rbScript, runs, rbFreed, rbRaced, overrun, asked>>

StartReturns(t) == start' = [start EXCEPT ![t] = "idle"]

OthersAt(t, pc) == \E o \in Starters \ {t} : start[o] = pc

(* The check, with no lock held, and the script read and parsed, each of   *)
(* which may send the caller away.                                         *)
StartCheck(t) ==
    /\ start[t] = "check"
    /\ \/ StartReturns(t) /\ UNCHANGED rbRaced
       \/ /\ ~rbRunning
          /\ start' = [start EXCEPT ![t] = "publish"]
          /\ rbRaced' = (rbRaced \/ OthersAt(t, "publish") \/ OthersAt(t, "running"))
    /\ UNCHANGED <<rbRunning, rbStop, rbScript, runs, rbFreed, overrun, asked>>

(* A script is named for the task that read it.                            *)
ScriptOf(t) == IF t = "sched" THEN 1 ELSE 2

StartPublish(t) ==
    /\ start[t] = "publish"
    /\ rbScript' = ScriptOf(t) /\ rbStop' = FALSE
    /\ rbFreed' = rbFreed \ {ScriptOf(t)}
    /\ start' = [start EXCEPT ![t] = "running"]
    /\ UNCHANGED <<rbRunning, runs, rbRaced, overrun, asked>>

StartRunning(t) ==
    /\ start[t] = "running"
    /\ rbRunning' = TRUE /\ asked' = FALSE
    /\ start' = [start EXCEPT ![t] = "create"]
    /\ UNCHANGED <<rbStop, rbScript, runs, rbFreed, rbRaced, overrun>>

(* Mutant of StartCreate: the stop flag is cleared only now.               *)
StartCreate_LateClear(t) ==
    /\ start[t] = "create" /\ runs[t].pc = "none"
    /\ rbStop' = FALSE
    /\ runs' = [runs EXCEPT ![t] = [NoRun EXCEPT !.pc = "begin"]]
    /\ UNCHANGED <<rbRunning, rbScript, rbFreed>>
    /\ StartReturns(t)
    /\ UNCHANGED <<rbRaced, overrun, asked>>

(* The task is made, or there is no memory for it.  One run per caller: a  *)
(* bound that only matters once two starts have raced.                     *)
StartCreate(t) ==
    /\ start[t] = "create" /\ runs[t].pc = "none"
    /\ \/ /\ runs' = [runs EXCEPT ![t] = [NoRun EXCEPT !.pc = "begin"]]
          /\ UNCHANGED <<rbRunning, rbScript, rbFreed>>
       \/ /\ rbRunning' = FALSE /\ rbScript' = 0
          /\ rbFreed' = rbFreed \cup {ScriptOf(t)}
          /\ UNCHANGED runs
    /\ StartReturns(t)
    /\ UNCHANGED <<rbStop, rbRaced, overrun, asked>>

RunbookStop ==
    /\ rbRunning /\ ~rbStop
    /\ rbStop' = TRUE /\ asked' = TRUE
    /\ UNCHANGED <<start, rbRunning, rbScript, runs, rbFreed, rbRaced, overrun>>

(* run_task.                                                               *)
RunBegin(t) ==
    /\ runs[t].pc = "begin"
    /\ runs' = [runs EXCEPT ![t] = [pc |-> "step", script |-> rbScript, step |-> 0,
                                    late |-> FALSE]]
    /\ UNCHANGED <<start, rbRunning, rbStop, rbScript, rbFreed, rbRaced, overrun, asked>>

(* The next step begins.                                                   *)
RunStep(t) ==
    /\ runs[t].pc = "step" /\ runs[t].step < Len(Script)
    /\ runs' = [runs EXCEPT ![t] = [runs[t] EXCEPT !.pc = "in", !.step = runs[t].step + 1,
                                               !.late = asked]]
    /\ UNCHANGED <<start, rbRunning, rbStop, rbScript, rbFreed, rbRaced, overrun, asked>>

(* sleep_ms, wait_phrase and wait_area look at s_stop, at least when they  *)
(* begin; the other steps do not.                                          *)
RunLook(t) ==
    /\ runs[t].pc = "in" /\ Script[runs[t].step] = "look"
    /\ runs' = [runs EXCEPT ![t].pc = IF rbStop THEN "end" ELSE "busy"]
    /\ UNCHANGED <<start, rbRunning, rbStop, rbScript, rbFreed, rbRaced, overrun, asked>>

(* The step ends well or, a wait that times out or a recording refused, it *)
(* fails and the run with it.                                              *)
RunStepEnds(t) ==
    /\ \/ runs[t].pc = "busy"
       \/ runs[t].pc = "in" /\ Script[runs[t].step] = "quick"
    /\ overrun' = (overrun \/ (runs[t].pc = "busy" /\ runs[t].late))
    /\ \E pc \in {"step", "end"} : runs' = [runs EXCEPT ![t].pc = pc]
    /\ UNCHANGED <<start, rbRunning, rbStop, rbScript, rbFreed, rbRaced, asked>>

(* The keys are released, the status is set and the script freed: whatever *)
(* s_script points to by now.                                              *)
RunFree(t) ==
    /\ \/ runs[t].pc = "end"
       \/ runs[t].pc = "step" /\ runs[t].step = Len(Script)
    /\ rbFreed' = rbFreed \cup ({rbScript} \ {0})
    /\ rbScript' = 0
    /\ runs' = [runs EXCEPT ![t].pc = "gone"]
    /\ UNCHANGED <<start, rbRunning, rbStop, rbRaced, overrun, asked>>

RunGone(t) ==
    /\ runs[t].pc = "gone"
    /\ rbRunning' = FALSE
    /\ runs' = [runs EXCEPT ![t] = NoRun]
    /\ UNCHANGED <<start, rbStop, rbScript, rbFreed, rbRaced, overrun, asked>>

----------------------------------------------------------------------------
BookInit ==
    /\ start = [t \in Starters |-> "idle"]
    /\ rbRunning = FALSE /\ rbStop = FALSE /\ rbScript = 0
    /\ runs = [t \in Starters |-> NoRun]
    /\ asked = FALSE /\ rbFreed = {} /\ rbRaced = FALSE /\ overrun = FALSE

BookNext ==
    \/ RunbookStop
    \/ \E t \in Starters : \/ Called(t) \/ StartCheck(t) \/ StartPublish(t) \/ StartRunning(t)
                           \/ StartCreate(t) \/ RunBegin(t) \/ RunStep(t) \/ RunLook(t)
                           \/ RunStepEnds(t) \/ RunFree(t) \/ RunGone(t)

BookSpec == BookInit /\ [][BookNext]_bookVars

----------------------------------------------------------------------------
(* runbook.c: a stop that was accepted is not forgotten: no step that      *)
(* looks at s_stop, begun after it, runs to its end, unless two starts     *)
(* got past the check together and one cleared the flag of the other.      *)
StopTakes == rbRaced \/ ~overrun

(* runbook.h's "One at a time": no two runs, and none reads a script that  *)
(* was freed under it.                                                     *)
RunbookAlone ==
    /\ \A t, o \in Starters : runs[t].pc # "none" /\ runs[o].pc # "none" => t = o
    /\ \A t \in Starters : runs[t].pc \in {"step", "in", "busy"} => runs[t].script \notin rbFreed
=============================================================================
