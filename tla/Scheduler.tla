------------------------------ MODULE Scheduler ------------------------------
(***************************************************************************)
(* The preemptive round-robin scheduler (src/kernel/sched.c) under the     *)
(* timer interrupt of src/kernel/pit.c.                                    *)
(*                                                                         *)
(* A context is a kernel stack with the position of the code that runs on  *)
(* it; the context of a task has the task's number.  `run` is the context  *)
(* on the processor, `cur` the task the scheduler believes in.  They agree *)
(* as long as every TCB holds the stack of its own task, which is what the *)
(* module is about: sched_tick switches with interrupts off, sched_yield,  *)
(* sched_sleep and sched_exit with interrupts on.                          *)
(*                                                                         *)
(* Page directories are left out, and a spawn, which kspin_lock protects   *)
(* from interrupts, is one step.  Task 0 (kernel_main) spawns, and neither *)
(* sleeps nor exits.                                                       *)
(***************************************************************************)
EXTENDS Integers, FiniteSets

CONSTANTS
  Slots,    \* SCHED_MAX_TASKS
  Quantum,  \* SCHED_TICK_QUANTUM
  Nap,      \* how many ticks a task sleeps
  Wrap,     \* how many ticks until pit_ms() starts again at 0
  Torn      \* whether the timer may strike inside sched_yield

ASSUME SchedAssumption ==
  /\ Slots \in Nat \ {0} /\ Quantum \in Nat \ {0}
  /\ Nap \in Nat /\ Wrap \in Nat \ {0} /\ Torn \in BOOLEAN

VARIABLES
  tstate,   \* the state of each TCB
  esp,      \* the context each TCB's saved stack pointer leads to
  until,    \* sleep_until_ms of each TCB
  cur,      \* g_current
  ticks,    \* g_tick_count
  clock,    \* pit_ms()
  run,      \* the context on the processor
  at,       \* where each context is in its code
  next      \* the local `next` of sched_yield in each context

schedVars == <<tstate, esp, until, cur, ticks, clock, run, at, next>>

Task == 0 .. Slots - 1

\* A bug: the search begins with task 0 every time.
PickFirst ==
  LET ready == {t \in Task : tstate[t] = "READY" \/ (tstate[t] = "SLEEPING" /\ clock >= until[t])}
  IN  CASE ready # {} -> CHOOSE t \in ready : \A u \in ready : t <= u
        [] ready = {} /\ tstate[cur] = "RUNNING" -> cur
        [] OTHER -> -1

\* pick_next: the first task after the current one, itself last, that is ready
\* or whose sleep is over; the current one if it alone can go on; -1 for NULL.
Eligible(t) ==
  tstate[t] = "READY" \/ (tstate[t] = "SLEEPING" /\ clock >= until[t])

PickNext ==
  LET Ahead(t) == IF t > cur THEN t - cur ELSE t - cur + Slots
      found    == {t \in Task : Eligible(t)}
  IN  CASE found # {} -> CHOOSE t \in found : \A u \in found : Ahead(t) <= Ahead(u)
        [] found = {} /\ tstate[cur] = "RUNNING" -> cur
        [] OTHER -> -1

\* The states after pick_next, which wakes the sleeper it returns.
Woken(t) ==
  IF t # -1 /\ tstate[t] = "SLEEPING" THEN [tstate EXCEPT ![t] = "READY"] ELSE tstate

\* A bug: the task that gives way stays marked as running.
DemotedNever(s, t) == s

\* A running task gives way; one that sleeps or has exited stays so.
Demoted(s, t) == IF s[t] = "RUNNING" THEN [s EXCEPT ![t] = "READY"] ELSE s

\* A bug: the stack pointer is saved after it was loaded.
SavedLate(o, n) ==
  /\ esp' = [esp EXCEPT ![o] = esp[n]]
  /\ run' = esp[n]

\* ctx_switch(&old->esp, next->esp).
CtxSwitch(o, n) ==
  /\ esp' = [esp EXCEPT ![o] = run]
  /\ run' = esp[n]

SchedInit ==
  /\ tstate = [t \in Task |-> IF t = 0 THEN "RUNNING" ELSE "DEAD"]
  /\ esp = [t \in Task |-> t]
  /\ until = [t \in Task |-> 0]
  /\ cur = 0 /\ run = 0
  /\ ticks = 0 /\ clock = 0
  /\ at = [t \in Task |-> "code"]
  /\ next = [t \in Task |-> -1]

\* sched_spawn: the first dead slot gets a stack that starts in its function.
Spawn ==
  /\ run = 0 /\ at[0] = "code"
  /\ \E t \in Task :
       /\ tstate[t] = "DEAD" /\ \A u \in 0 .. t - 1 : tstate[u] # "DEAD"
       /\ tstate' = [tstate EXCEPT ![t] = "READY"]
       /\ esp' = [esp EXCEPT ![t] = t]
       /\ at' = [at EXCEPT ![t] = "code"]
  /\ UNCHANGED <<until, cur, ticks, clock, run, next>>

\* pit_isr and sched_tick.
SchedTick ==
  /\ Torn \/ at[run] \in {"code", "halt"}
  /\ clock' = (clock + 1) % Wrap
  /\ ticks' = (ticks + 1) % Quantum
  /\ LET n == PickNext
     IN  IF ticks + 1 < Quantum
         THEN UNCHANGED <<tstate, esp, cur, run>>
         ELSE IF n \in {-1, cur}
         THEN /\ tstate' = Woken(n)
              /\ UNCHANGED <<esp, cur, run>>
         ELSE /\ tstate' = [Demoted(Woken(n), cur) EXCEPT ![n] = "RUNNING"]
              /\ cur' = n
              /\ CtxSwitch(cur, n)
  /\ UNCHANGED <<until, at, next>>

\* sched_sleep and sched_exit change the state of the current task and yield.
Sleep ==
  /\ run # 0 /\ at[run] = "code"
  /\ until' = [until EXCEPT ![cur] = clock + Nap]
  /\ tstate' = [tstate EXCEPT ![cur] = "SLEEPING"]
  /\ at' = [at EXCEPT ![run] = "yield"]
  /\ UNCHANGED <<esp, cur, ticks, clock, run, next>>

Exit ==
  /\ run # 0 /\ at[run] = "code"
  /\ tstate' = [tstate EXCEPT ![cur] = "ZOMBIE"]
  /\ at' = [at EXCEPT ![run] = "yield"]
  /\ UNCHANGED <<esp, until, cur, ticks, clock, run, next>>

\* sched_yield, first part: pick, and return if there is nobody else; sched_exit
\* then gives its slot up and halts.
YieldPick ==
  /\ at[run] \in {"code", "yield"}
  /\ LET n == PickNext
     IN  /\ tstate' = IF n \in {-1, cur} /\ tstate[cur] = "ZOMBIE"
                       THEN [tstate EXCEPT ![cur] = "DEAD"] ELSE Woken(n)
         /\ next' = [next EXCEPT ![run] = n]
         /\ at' = [at EXCEPT ![run] =
                     IF n \notin {-1, cur} THEN "demote"
                     ELSE IF tstate[cur] = "ZOMBIE" THEN "halt" ELSE "code"]
  /\ UNCHANGED <<esp, until, cur, ticks, clock, run>>

YieldDemote ==
  /\ at[run] = "demote"
  /\ tstate' = Demoted(tstate, cur)
  /\ at' = [at EXCEPT ![run] = "commit"]
  /\ UNCHANGED <<esp, until, cur, ticks, clock, run, next>>

\* next->state and g_current are set, and the stack is switched after that.
\* `old` is the task that was current before.
YieldCommit ==
  /\ at[run] = "commit"
  /\ tstate' = [tstate EXCEPT ![next[run]] = "RUNNING"]
  /\ cur' = next[run]
  /\ next' = [next EXCEPT ![run] = cur]
  /\ at' = [at EXCEPT ![run] = "switch"]
  /\ UNCHANGED <<esp, until, ticks, clock, run>>

YieldSwitch ==
  /\ at[run] = "switch"
  /\ CtxSwitch(next[run], cur)
  /\ at' = [at EXCEPT ![run] = IF tstate[next[run]] = "ZOMBIE" THEN "halt" ELSE "code"]
  /\ UNCHANGED <<tstate, until, cur, ticks, clock, next>>

SchedCall == YieldPick \/ YieldDemote \/ YieldCommit \/ YieldSwitch

SchedNext == Spawn \/ SchedTick \/ Sleep \/ Exit \/ SchedCall

SchedSpec == SchedInit /\ [][SchedNext]_schedVars

\* The timer keeps striking, and a yield that has begun goes on; what the tasks do
\* otherwise is theirs.
SchedFairSpec ==
  SchedSpec /\ WF_schedVars(SchedTick) /\ WF_schedVars(SchedCall /\ at[run] # "code")

-----------------------------------------------------------------------------
(* Properties.                                                             *)

\* Every variable holds a value of its type.
SchedTypeOK ==
  /\ tstate \in [Task -> {"DEAD", "READY", "RUNNING", "SLEEPING", "ZOMBIE"}]
  /\ esp \in [Task -> Task] /\ run \in Task /\ cur \in Task
  /\ until \in [Task -> 0 .. Wrap + Nap]
  /\ ticks \in 0 .. Quantum - 1 /\ clock \in 0 .. Wrap - 1
  /\ at \in [Task -> {"code", "yield", "demote", "commit", "switch", "halt"}]
  /\ next \in [Task -> Task \cup {-1}]

\* The switch resumes the task that the scheduler made current: every saved
\* stack pointer was written by its own task (sched_tick and sched_yield).
ResumedAsItself == [][run' # run => run' = cur']_schedVars

\* No task is lost: one that is marked running is the current one, so that
\* pick_next, which looks for READY, can find all the others again.
NoTaskLost == \A t \in Task : tstate[t] = "RUNNING" => t = cur

\* Round robin: a task that is ready gets the processor, whatever the others do.
ReadyRuns == \A t \in Task : tstate[t] = "READY" ~> run = t

\* "block for N milliseconds": a sleeper that does not exit runs again.
SleeperRuns == \A t \in Task : tstate[t] = "SLEEPING" ~> run = t

=============================================================================
