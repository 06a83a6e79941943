------------------------------- MODULE Timer -------------------------------
(***************************************************************************)
(* The timer (timer.c), the M-mode trap handler that relays its interrupt  *)
(* (trapasm.s) and sysusleep: a list of sleeping alarms ordered by wake-up *)
(* time, and one comparator, mtcmp, shared by the alarms and the           *)
(* preemption tick. Interleaved here are the clock, the M-mode handler,    *)
(* which no S-mode code can mask, the S-mode handler and the threads.      *)
(*                                                                         *)
(* The scheduler is abstracted to "some ready thread runs next" (Threads   *)
(* has the details). A system call runs with interrupts disabled, so the   *)
(* S-mode handler runs only in U mode or while the hart looks for a thread *)
(* (tpc "sched").                                                          *)
(*                                                                         *)
(* Definitions marked "faulty variant" are no part of TimerNext: each is a *)
(* bug that one of the properties below rules out.                         *)
(***************************************************************************)
EXTENDS Integers, Sequences, FiniteSetsExt, Callers

CONSTANTS
  TICK_PERIOD,  \* TIMER_FREQ / TICK_FREQ
  UINT64_MAX,   \* largest value of a 64-bit counter
  TMAX,         \* bound: the clock stops here
  TIMER_FREQ,   \* clock ticks per MICRO microseconds
  MICRO,        \* 1000000 in sysusleep
  Us            \* arguments of usleep

ASSUME TimerAssumption ==
  /\ {TICK_PERIOD, UINT64_MAX, TMAX, TIMER_FREQ, MICRO} \subseteq Nat \ {0}
  /\ Us \subseteq Nat /\ NoThread \notin Thread
  /\ TMAX + TICK_PERIOD < UINT64_MAX

VARIABLES
  mtime, mtcmp,  \* the clock and its comparator
  mtie,          \* mie.MTIE: the M-mode timer interrupt is enabled
  stip,          \* mip.STIP: an S-mode timer interrupt is pending
  next_tick,
  sleep_list,    \* the alarms, named by the thread whose stack holds them
  twake,         \* al->twake
  st,            \* "ready", "run", "sleep" (in condition_wait) or "woken"
  tp,            \* the current thread (NoThread while tpc is "sched")
  tpc,           \* where tp is in sysusleep, "user", or "sched"
  tcnt,          \* argument of alarm_sleep
  hpc,           \* where timer_intr_handler is
  now            \* its local

clock == <<mtime, mtcmp, mtie, stip>>
alarms == <<next_tick, sleep_list, twake>>
threads == <<st, tp, tpc, tcnt>>
handler == <<hpc, now>>
TimerVars == <<clock, alarms, threads, handler>>

(* After timer_init: note that next_tick is still 0. *)
TimerInit ==
  /\ mtime = 0 /\ mtcmp = TICK_PERIOD /\ mtie = TRUE /\ stip = FALSE
  /\ next_tick = 0 /\ sleep_list = <<>>
  /\ twake = [t \in Thread |-> 0]
  /\ st = [t \in Thread |-> "ready"]
  /\ tp = NoThread /\ tpc = "sched" /\ tcnt = 0
  /\ hpc = "none" /\ now = 0
-----------------------------------------------------------------------------
(* Hardware: the clock, and the M-mode interrupt that _mmode_trap_entry     *)
(* turns into a pending S-mode interrupt, masking itself.                   *)
Tick ==
  /\ mtime < TMAX
  /\ mtime' = mtime + 1
  /\ UNCHANGED <<mtcmp, mtie, stip, alarms, threads, handler>>

MTimerIntr ==
  /\ mtie /\ mtime >= mtcmp
  /\ mtie' = FALSE /\ stip' = TRUE
  /\ UNCHANGED <<mtime, mtcmp, alarms, threads, handler>>

(* Faulty variant: the M-mode handler leaves its interrupt masked. *)
RearmMasked == mtie' = mtie /\ stip' = FALSE

(* The ecall of enable_mmode_timer_intr: clear STIP, set MTIE. *)
Rearm == mtie' = TRUE /\ stip' = FALSE

(* Faulty variant: no time order. *)
InsertAlarmLast(list, t) == Append(list, t)

(* The time order of alarm_sleep: before the first alarm that is not earlier. *)
InsertAlarm(list, t) ==
  LET after == {i \in 1 .. Len(list) : twake[t] <= twake[list[i]]}
      k == Min(after \cup {Len(list) + 1})
  IN SubSeq(list, 1, k - 1) \o <<t>> \o SubSeq(list, k, Len(list))
-----------------------------------------------------------------------------
(* sysusleep converts with a 64-bit product that can wrap, and alarm_init    *)
(* starts the alarm at the current time.                                     *)
Usleep(us) ==
  /\ hpc = "none" /\ tpc = "user"
  /\ tcnt' = ((us * TIMER_FREQ) % (UINT64_MAX + 1)) \div MICRO
  /\ twake' = [twake EXCEPT ![tp] = mtime]
  /\ tpc' = "alarm_sleep"
  /\ UNCHANGED <<clock, next_tick, sleep_list, st, tp, handler>>

(* alarm_sleep up to intr_disable: the wake-up time saturates, and one that  *)
(* has passed returns at once.                                               *)
AlarmSleep ==
  LET wake == Min({twake[tp] + tcnt, UINT64_MAX})
  IN /\ tpc = "alarm_sleep"
     /\ twake' = [twake EXCEPT ![tp] = wake]
     /\ tpc' = IF wake < mtime THEN "user" ELSE "insert"
     /\ tcnt' = 0
     /\ UNCHANGED <<clock, next_tick, sleep_list, st, tp, handler>>

(* Faulty variant: mtcmp is left to the next tick. *)
AlarmInsertNoUpdate ==
  /\ tpc = "insert"
  /\ sleep_list' = InsertAlarm(sleep_list, tp)
  /\ tpc' = "wait"
  /\ UNCHANGED <<clock, next_tick, twake, st, tp, tcnt, handler>>

(* The alarm enters the list; a new head before the next tick sets mtcmp. *)
AlarmInsert ==
  /\ tpc = "insert"
  /\ sleep_list' = InsertAlarm(sleep_list, tp)
  /\ IF Head(sleep_list') = tp /\ twake[tp] < next_tick
     THEN mtcmp' = twake[tp] /\ tpc' = "rearm"
     ELSE tpc' = "wait" /\ UNCHANGED mtcmp
  /\ UNCHANGED <<mtime, mtie, stip, next_tick, twake, st, tp, tcnt, handler>>

AlarmRearm ==
  /\ tpc = "rearm"
  /\ Rearm
  /\ tpc' = "wait"
  /\ UNCHANGED <<mtime, mtcmp, alarms, st, tp, tcnt, handler>>

(* condition_wait, still with interrupts disabled. *)
AlarmWait ==
  /\ tpc = "wait"
  /\ st' = [st EXCEPT ![tp] = "sleep"]
  /\ tp' = NoThread /\ tpc' = "sched"
  /\ UNCHANGED <<clock, alarms, tcnt, handler>>

(* suspend_self switches to a ready thread; a woken one leaves alarm_sleep  *)
(* and sysusleep, and its alarm is dead (reset).                            *)
Schedule(t) ==
  /\ hpc = "none" /\ tpc = "sched" /\ st[t] \in {"ready", "woken"}
  /\ st' = [st EXCEPT ![t] = "run"]
  /\ tp' = t /\ tpc' = "user"
  /\ twake' = [twake EXCEPT ![t] = 0]
  /\ UNCHANGED <<clock, next_tick, sleep_list, tcnt, handler>>
-----------------------------------------------------------------------------
(* timer_intr_handler, entered when the hart accepts the pending interrupt. *)
TimerIntr ==
  /\ stip /\ hpc = "none" /\ tpc \in {"user", "sched"}
  /\ hpc' = "handle" /\ now' = mtime
  /\ UNCHANGED <<clock, alarms, threads>>

(* Faulty variant: only the first alarm's time is tested. *)
DueFirst == {i \in 1 .. Len(sleep_list) : twake[Head(sleep_list)] <= now}

(* The alarms at the front of the list whose time has come. *)
Due == {i \in 1 .. Len(sleep_list) : \A j \in 1 .. i : twake[sleep_list[j]] <= now}

(* Broadcast them, advance next_tick by at most one period, set mtcmp. *)
TimerHandle ==
  LET due == {sleep_list[i] : i \in Due}
      rest == SubSeq(sleep_list, Cardinality(Due) + 1, Len(sleep_list))
  IN /\ hpc = "handle"
     /\ st' = [t \in Thread |-> IF t \in due /\ st[t] = "sleep" THEN "woken" ELSE st[t]]
     /\ sleep_list' = rest
     /\ next_tick' = IF next_tick < now THEN next_tick + TICK_PERIOD ELSE next_tick
     /\ mtcmp' = IF rest # <<>> /\ twake[Head(rest)] < next_tick'
                 THEN twake[Head(rest)] ELSE next_tick'
     /\ hpc' = "rearm" /\ now' = 0
     /\ UNCHANGED <<mtime, mtie, stip, twake, tp, tpc, tcnt>>

(* Its last ecall; intr_handler then yields if it interrupted U mode. *)
TimerRearm ==
  /\ hpc = "rearm"
  /\ Rearm
  /\ hpc' = "none"
  /\ IF tpc = "user"
     THEN st' = [st EXCEPT ![tp] = "ready"] /\ tp' = NoThread /\ tpc' = "sched"
     ELSE UNCHANGED <<st, tp, tpc>>
  /\ UNCHANGED <<mtime, mtcmp, alarms, tcnt, now>>

(* The bounded clock has stopped. *)
ClockEnds == mtime = TMAX /\ UNCHANGED TimerVars
-----------------------------------------------------------------------------
TimerNext ==
  \/ Tick \/ MTimerIntr
  \/ \E us \in Us : Usleep(us)
  \/ AlarmSleep \/ AlarmInsert \/ AlarmRearm \/ AlarmWait
  \/ \E t \in Thread : Schedule(t)
  \/ TimerIntr \/ TimerHandle \/ TimerRearm
  \/ ClockEnds

(* The clock runs, the hart executes, a pending interrupt is taken: a system *)
(* call ends, and in U mode or in the idle loop interrupts are enabled.      *)
TimerFairness ==
  /\ WF_TimerVars(Tick) /\ WF_TimerVars(MTimerIntr)
  /\ WF_TimerVars(AlarmSleep) /\ WF_TimerVars(AlarmInsert) /\ WF_TimerVars(AlarmRearm)
  /\ WF_TimerVars(AlarmWait) /\ SF_TimerVars(TimerIntr)
  /\ WF_TimerVars(TimerHandle) /\ WF_TimerVars(TimerRearm)

TimerSpec == TimerInit /\ [][TimerNext]_TimerVars /\ TimerFairness
-----------------------------------------------------------------------------
(* sleep_list holds exactly the alarms of threads that sleep (and of the     *)
(* thread about to call condition_wait), each once and in the order of their *)
(* wake-up times. An alarm is a local variable of sysusleep: one that stayed *)
(* on the list after its thread left would be a dangling pointer.            *)
SleepListExact ==
  /\ \A i, j \in 1 .. Len(sleep_list) : i < j =>
       sleep_list[i] # sleep_list[j] /\ twake[sleep_list[i]] <= twake[sleep_list[j]]
  /\ {sleep_list[i] : i \in 1 .. Len(sleep_list)} =
       {t \in Thread : st[t] = "sleep" \/ (t = tp /\ tpc \in {"rearm", "wait"})}

(* No wake-up is lost: when the clock reaches the first alarm (or the first  *)
(* tick, for an alarm set before it), an interrupt is pending or about to    *)
(* be, even though alarm_sleep's own ecall clears a pending one.             *)
NoLostTimer ==
  sleep_list # <<>> /\ hpc = "none" /\ tpc # "rearm"
    /\ mtime >= Max({twake[sleep_list[1]], TICK_PERIOD})
  => stip \/ (mtie /\ mtime >= mtcmp)

(* alarm_sleep does not return before its time. *)
NoEarlyWake == \A t \in Thread : st[t] = "woken" => mtime >= twake[t]

(* Every sleeper whose time comes is woken (the clock of the model stops at  *)
(* TMAX, so later alarms are left out).                                      *)
SleepEnds ==
  \A t \in Thread : (st[t] = "sleep" /\ twake[t] <= TMAX) ~> st[t] # "sleep"

(* The preemption tick never stops: a pending or past tick is followed by a  *)
(* later one until next_tick is ahead of the clock.                          *)
TicksCatchUp == <>[](next_tick >= mtime)
=============================================================================
