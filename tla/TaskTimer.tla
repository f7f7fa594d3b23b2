------------------------------ MODULE TaskTimer ------------------------------
(***************************************************************************)
(* The timer service for deferred scripts (src/kernel/tasktimer.c).  The   *)
(* shell arms tasks and polls tasktimer_tick from its idle loop; a task    *)
(* that fires runs a script, which may itself arm and cancel tasks.        *)
(*                                                                         *)
(* Time is the count of seconds of rtc_seconds.  It passes at any point,   *)
(* also between the two readings of the clock in tasktimer_schedule_at,    *)
(* but there by one second at most.  A task is known by its slot and its   *)
(* payload is left out: any script may do anything.                        *)
(***************************************************************************)
EXTENDS Integers, FiniteSets

CONSTANTS
  Timers,   \* TASKTIMER_MAX_TASKS
  Day,      \* seconds in a day
  Horizon   \* the last second that is looked at

ASSUME TimerAssumption ==
  /\ Timers \in Nat \ {0} /\ Day \in Nat \ {0} /\ Horizon \in Nat

VARIABLES
  due,      \* target_seconds of each slot, Unarmed when it is free
  fresh,    \* history: the slots that scripts of the present tick armed
  clock0,   \* rtc_seconds()
  lastPoll, \* g_last_poll
  nowTick,  \* the local `now` of tasktimer_tick
  scan,     \* the slot tasktimer_tick looks at, 0 outside of it
  script,   \* a script runs inside tasktimer_tick
  asking    \* tasktimer_schedule_at between its readings of the clock

timerVars ==
  <<due, fresh, clock0, lastPoll, nowTick, scan, script, asking>>

TimerSlot == 1 .. Timers
Unarmed   == -1
NoAsk     == [want |-> 0, seen |-> Unarmed]
Armed(s)  == due[s] # Unarmed

\* The shell at its prompt, or a script that a task runs.
CanArm == asking = NoAsk /\ (scan = 0 \/ script)

TimerInit ==
  /\ due = [s \in TimerSlot |-> Unarmed]
  /\ fresh = {} /\ clock0 = 0 /\ lastPoll = 0 /\ nowTick = 0
  /\ scan = 0 /\ script = FALSE /\ asking = NoAsk

\* A second passes.
Second ==
  /\ clock0 < Horizon
  /\ asking # NoAsk => clock0 = asking.seen
  /\ clock0' = clock0 + 1
  /\ UNCHANGED <<due, fresh, lastPoll, nowTick, scan, script, asking>>

\* find_free_slot and the assignments to it; with no free slot, TT_ERR_FULL.
Arm(target) ==
  LET free == {s \in TimerSlot : ~Armed(s)}
      s    == CHOOSE x \in free : \A y \in free : x <= y
  IN  IF free = {}
      THEN UNCHANGED <<due, fresh>>
      ELSE /\ due' = [due EXCEPT ![s] = target]
           /\ fresh' = IF scan = 0 THEN fresh ELSE fresh \cup {s}

\* A bug: an offset of 0 is accepted.
OffsetsFromZero == 0 .. Day

\* tasktimer_schedule_in; an offset of 0 is TT_ERR_TIME.
Offsets == 1 .. Day

ScheduleIn ==
  /\ CanArm
  /\ \E k \in Offsets : Arm(clock0 + k)
  /\ UNCHANGED <<clock0, lastPoll, nowTick, scan, script, asking>>

\* tasktimer_schedule_at: rtc_now, then rtc_seconds.
ScheduleAt ==
  /\ CanArm
  /\ \E w \in 0 .. Day - 1 : asking' = [want |-> w, seen |-> clock0]
  /\ UNCHANGED <<due, fresh, clock0, lastPoll, nowTick, scan, script>>

\* A bug: the present second counts as still to come.
TargetNow(now, ask) ==
  LET today == (now + ask.want) - (ask.seen % Day)
  IN  IF today < now THEN today + Day ELSE today

\* The moment of today, or of tomorrow if that is over.
TargetOf(now, ask) ==
  LET today == (now + ask.want) - (ask.seen % Day)
  IN  IF today <= now THEN today + Day ELSE today

ArmAt ==
  /\ asking # NoAsk
  /\ Arm(TargetOf(clock0, asking))
  /\ asking' = NoAsk
  /\ UNCHANGED <<clock0, lastPoll, nowTick, scan, script>>

\* tasktimer_cancel and tasktimer_clear.
CancelTimers ==
  /\ CanArm
  /\ \E gone \in {{s} : s \in TimerSlot} \cup {TimerSlot} :
       due' = [s \in TimerSlot |-> IF s \in gone THEN Unarmed ELSE due[s]]
  /\ UNCHANGED <<fresh, clock0, lastPoll, nowTick, scan, script, asking>>

\* tasktimer_tick, which does nothing twice in the same second.
TimerTick ==
  /\ scan = 0 /\ asking = NoAsk /\ clock0 # lastPoll
  /\ lastPoll' = clock0 /\ nowTick' = clock0
  /\ scan' = 1 /\ fresh' = {}
  /\ UNCHANGED <<due, clock0, script, asking>>

\* A bug: the last slot is left out.
ScanShort == IF scan + 1 >= Timers THEN 0 ELSE scan + 1

NextScan == IF scan = Timers THEN 0 ELSE scan + 1

\* fire: the slot is released before its script runs.
Fire ==
  /\ scan # 0 /\ ~script
  /\ Armed(scan) /\ due[scan] <= nowTick
  /\ due' = [due EXCEPT ![scan] = Unarmed]
  /\ script' = TRUE
  /\ UNCHANGED <<fresh, clock0, lastPoll, nowTick, scan, asking>>

Pass ==
  /\ scan # 0 /\ ~script
  /\ Armed(scan) => due[scan] > nowTick
  /\ scan' = NextScan
  /\ UNCHANGED <<due, fresh, clock0, lastPoll, nowTick, script, asking>>

ScriptEnds ==
  /\ script /\ asking = NoAsk
  /\ script' = FALSE /\ scan' = NextScan
  /\ UNCHANGED <<due, fresh, clock0, lastPoll, nowTick, asking>>

TimerNext ==
  \/ Second \/ ScheduleIn \/ ScheduleAt \/ ArmAt \/ CancelTimers
  \/ TimerTick \/ Fire \/ Pass \/ ScriptEnds

TimerSpec == TimerInit /\ [][TimerNext]_timerVars

\* Scripts end, and the idle loop of the shell calls tasktimer_tick every time
\* round.
TimerFairSpec ==
  /\ TimerSpec
  /\ WF_timerVars(ArmAt) /\ WF_timerVars(Fire \/ Pass)
  /\ SF_timerVars(ScriptEnds) /\ SF_timerVars(TimerTick)

-----------------------------------------------------------------------------
(* Properties.                                                             *)

\* Every variable holds a value of its type.
TimerTypeOK ==
  /\ due \in [TimerSlot -> {Unarmed} \cup 1 .. Horizon + Day]
  /\ fresh \subseteq TimerSlot
  /\ {clock0, lastPoll, nowTick} \subseteq 0 .. Horizon
  /\ scan \in 0 .. Timers /\ script \in BOOLEAN
  /\ asking \in [want : 0 .. Day - 1, seen : {Unarmed} \cup 0 .. Horizon]

\* "re-schedule something into another slot, which we don't want to re-evaluate
\* inside the same tick": a tick fires no task that a script armed during it,
\* although it takes no snapshot of the slots (tasktimer_tick).
FiresOnlyOlder == [][Fire => scan \notin fresh]_timerVars

\* A task asked for a time of day is armed for the next time it is that late,
\* also when the clock moves on, or past midnight, between the two readings,
\* which may make it a second late (tasktimer_schedule_at).
ArmedForTheHour ==
  [][\A s \in TimerSlot :
       asking # NoAsk /\ ~Armed(s) /\ Armed(s)' =>
         /\ due'[s] \in clock0 + 1 .. clock0 + Day
         /\ (due'[s] - asking.want) % Day \in {0, clock0 - asking.seen}]_timerVars

\* Every task that is due fires, or is cancelled.
DueFires ==
  \A s \in TimerSlot :
    Armed(s) /\ due[s] <= clock0 ~> ~(Armed(s) /\ due[s] <= clock0)

=============================================================================
