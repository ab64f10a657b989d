----------------------------- MODULE Scheduler ------------------------------
(***************************************************************************)
(* The scheduler (kvm_sched.c, sched_cron.c): a task that looks at the     *)
(* clock about three times a minute and, once in every new minute, carries *)
(* out the jobs that are due in it.  The console can carry out a job too   *)
(* (kvm_sched_run).                                                        *)
(*                                                                         *)
(* A cron line is the set of minutes of the hour it names.  An action      *)
(* hands its work to another component and returns, except "restart" and   *)
(* a network switch, which end the program.  Not modelled: the zone and    *)
(* SNTP (the clock is right), the button on the box.                       *)
(***************************************************************************)
EXTENDS Integers, Sequences

CONSTANTS
    Jobs,           \* schedules_json: a sequence of [at : minutes, action]
    HourMinutes,    \* minutes in an hour
    MaxMinutes      \* bound on the time that passes

ASSUME SchedulerAssumption ==
    /\ HourMinutes \in Nat \ {0, 1} /\ MaxMinutes \in Nat
    /\ Jobs \in Seq([at : SUBSET Nat, action : STRING]) /\ Jobs # <<>>

VARIABLES
    minute,         \* the clock, in minutes
    ticked,         \* the scheduler has looked at the clock in this minute
    power,          \* the device is "up" or restarting ("down")
    schedOn,        \* sched_enable
    lastMin,        \* s_last_min
    evalAt,         \* evaluate: the job it has come to, 0 when idle
    fired,          \* history: the jobs carried out in this minute since the boot
    twice,          \* history: a job was carried out twice in one minute of one uptime
    missed,         \* history: a minute passed with a due job not carried out
    steady          \* history: minutes that began with the scheduler at work, up to 2

schedVars == <<minute, ticked, power, schedOn, lastMin, evalAt, fired, twice, missed, steady>>

Up       == power = "up"
Clock    == minute % HourMinutes

(* cron_match.                                                             *)
Matches(j, m) == m % HourMinutes \in Jobs[j].at
Due(m)   == {j \in DOMAIN Jobs : Matches(j, m)}
AtWork   == Up /\ schedOn
Ends(j)  == Jobs[j].action \in {"restart", "netswap"}

----------------------------------------------------------------------------
(* A minute is three looks long, so the task has looked at least once.     *)
MinuteTurns ==
    /\ minute < MaxMinutes
    /\ evalAt = 0
    /\ AtWork => ticked
    /\ minute' = minute + 1
    /\ ticked' = FALSE /\ fired' = {}
    /\ missed' = (missed \/ (steady = 2 /\ Due(minute) \ fired # {}))
    /\ steady' = IF ~AtWork THEN 0 ELSE IF steady = 2 THEN 2 ELSE steady + 1
    /\ UNCHANGED <<power, schedOn, lastMin, evalAt, twice>>

SetSched ==
    /\ Up /\ schedOn' = ~schedOn /\ steady' = 0
    /\ UNCHANGED <<minute, ticked, power, lastMin, evalAt, fired, twice, missed>>

(* Mutant of MinuteIsNew: the minute must be a later one.                  *)
MinuteIsNew_Later == Clock > lastMin

MinuteIsNew == Clock # lastMin

(* task: one look at the clock.                                            *)
SchedTick ==
    /\ Up /\ evalAt = 0
    /\ ticked' = TRUE
    /\ IF schedOn /\ MinuteIsNew
         THEN lastMin' = Clock /\ evalAt' = 1
         ELSE UNCHANGED <<lastMin, evalAt>>
    /\ UNCHANGED <<minute, power, schedOn, fired, twice, missed, steady>>

EvalNext == evalAt' = IF evalAt = Len(Jobs) THEN 0 ELSE evalAt + 1

Fire ==
    /\ fired' = fired \cup {evalAt}
    /\ twice' = (twice \/ evalAt \in fired)

(* evaluate: a job that is not due is passed over.                         *)
EvalSkip ==
    /\ evalAt # 0 /\ ~Matches(evalAt, minute)
    /\ EvalNext
    /\ UNCHANGED <<minute, ticked, power, schedOn, lastMin, fired, twice, missed, steady>>

(* dispatch: the work is handed on and evaluate goes on.                   *)
Dispatch ==
    /\ evalAt # 0 /\ Matches(evalAt, minute) /\ ~Ends(evalAt)
    /\ Fire /\ EvalNext
    /\ UNCHANGED <<minute, ticked, power, schedOn, lastMin, missed, steady>>

(* esp_restart.  The clock goes on, the rest is forgotten.                 *)
Restarted ==
    /\ power' = "down" /\ lastMin' = -1 /\ evalAt' = 0 /\ steady' = 0 /\ fired' = {}
    /\ UNCHANGED <<minute, ticked, schedOn, missed>>

DispatchRestart ==
    /\ evalAt # 0 /\ Matches(evalAt, minute) /\ Ends(evalAt)
    /\ twice' = (twice \/ evalAt \in fired)
    /\ Restarted

(* Any other restart: a job run from the console, an update, a crash, the  *)
(* power.                                                                  *)
SchedCrash == Up /\ Restarted /\ UNCHANGED twice

Boot ==
    /\ power = "down" /\ power' = "up"
    /\ UNCHANGED <<minute, ticked, schedOn, lastMin, evalAt, fired, twice, missed, steady>>

----------------------------------------------------------------------------
SchedInit ==
    /\ minute = 0 /\ ticked = FALSE /\ power = "up" /\ schedOn = TRUE /\ lastMin = -1
    /\ evalAt = 0 /\ fired = {} /\ twice = FALSE /\ missed = FALSE /\ steady = 1

SchedNext ==
    \/ MinuteTurns \/ SetSched \/ SchedTick \/ EvalSkip
    \/ Dispatch \/ DispatchRestart \/ SchedCrash \/ Boot

SchedSpec == SchedInit /\ [][SchedNext]_schedVars

----------------------------------------------------------------------------
(* kvm_sched.c's "at most once a minute, so a job cannot run twice", and   *)
(* not less: with the scheduler at work since the minute before, no minute *)
(* passes without each job that was due in it having been carried out, the *)
(* minute of the hour wrapping round; and between two restarts no job is   *)
(* carried out twice in one minute.                                        *)
OnceAMinute == ~missed /\ ~twice
=============================================================================
