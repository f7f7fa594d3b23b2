---------------------------- MODULE Tasks_proofs ----------------------------
(***************************************************************************)
(* What holds of the scheduler, of the browser's two tasks, of the timer   *)
(* service and of the four components that MCTasks puts side by side, for  *)
(* any number of tasks, slots and timers, any quantum, any length of sleep,*)
(* of the day and of the clock.                                            *)
(***************************************************************************)
EXTENDS MCTasks, Tcp_proofs, Lemmas

-----------------------------------------------------------------------------
(* SCHEDULER                                                               *)

USE SchedAssumption

\* sched_yield has picked the task that it switches to, in every context.
Picked == \A t \in Task : at[t] \in {"demote", "commit", "switch"} => next[t] \in Task

\* Every TCB holds the stack of its own task, which is suspended in code that is
\* not sched_yield; the current task is the one that runs, except between the
\* assignment to g_current and the switch.
OwnStacks ==
  /\ \A t \in Task : esp[t] = t
  /\ \A t \in Task : t # run => at[t] \in {"code", "halt"}
  /\ IF at[run] = "switch" THEN next[run] = run ELSE cur = run

\* Once the current task has given way, none is marked running.
GaveWay == at[run] = "commit" => tstate[cur] # "RUNNING"

-----------------------------------------------------------------------------
(* What pick_next and the helpers return.                                  *)

\* pick_next returns a task or NULL.
LEMMA PickNextType ==
  ASSUME cur \in Task
  PROVE  PickNext \in Task \cup {-1}
<1> DEFINE Ahead(t) == IF t > cur THEN t - cur ELSE t - cur + Slots
           found    == {t \in Task : Eligible(t)}
<1>1. CASE found # {}
  <2>1. {Ahead(t) : t \in found} \in SUBSET Nat /\ {Ahead(t) : t \in found} # {}
    BY <1>1 DEF Task
  <2>2. \E t \in found : \A u \in found : Ahead(t) <= Ahead(u)
    <3> HIDE DEF Ahead, found
    <3>1. PICK m \in {Ahead(t) : t \in found} : \A n \in {Ahead(t) : t \in found} : m <= n
      BY <2>1, LeastNatural
    <3> QED BY <3>1
  <2> QED BY <1>1, <2>2 DEF PickNext
<1>2. CASE found = {}
  BY <1>2 DEF PickNext
<1> QED BY <1>1, <1>2

\* Waking the task that was picked marks none as running.
LEMMA WokenFacts ==
  ASSUME NEW n \in Task \cup {-1}, SchedTypeOK
  PROVE  /\ Woken(n) \in [Task -> {"DEAD", "READY", "RUNNING", "SLEEPING", "ZOMBIE"}]
         /\ \A t \in Task : Woken(n)[t] = "RUNNING" => tstate[t] = "RUNNING"
BY DEF Woken, SchedTypeOK

\* A task that gives way is not running, and no other begins to.
LEMMA DemotedFacts ==
  ASSUME NEW s \in [Task -> {"DEAD", "READY", "RUNNING", "SLEEPING", "ZOMBIE"}], NEW o \in Task
  PROVE  /\ Demoted(s, o) \in [Task -> {"DEAD", "READY", "RUNNING", "SLEEPING", "ZOMBIE"}]
         /\ Demoted(s, o)[o] # "RUNNING"
         /\ \A t \in Task : Demoted(s, o)[t] = "RUNNING" => s[t] = "RUNNING"
BY DEF Demoted

-----------------------------------------------------------------------------
(* Types, wherever the timer strikes.                                      *)

\* The initial state has its types.
LEMMA SchedInitType == SchedInit => SchedTypeOK /\ Picked
BY DEF SchedInit, SchedTypeOK, Picked, Task

\* The tick keeps them.
LEMMA TickType ==
  ASSUME SchedTypeOK, Picked, SchedTick
  PROVE  SchedTypeOK' /\ Picked'
<1> DEFINE n == PickNext
<1>1. n \in Task \cup {-1}
  BY PickNextType DEF SchedTypeOK
<1>2. clock' \in 0 .. Wrap - 1 /\ ticks' \in 0 .. Quantum - 1
  BY DEF SchedTick, SchedTypeOK
<1>3. UNCHANGED <<until, at, next>>
  BY DEF SchedTick
<1>4. /\ tstate' \in [Task -> {"DEAD", "READY", "RUNNING", "SLEEPING", "ZOMBIE"}]
      /\ esp' \in [Task -> Task] /\ run' \in Task /\ cur' \in Task
  <2>1. CASE ticks + 1 < Quantum
    BY <2>1 DEF SchedTick, SchedTypeOK
  <2>2. CASE ~(ticks + 1 < Quantum) /\ n \in {-1, cur}
    BY <1>1, <2>2, WokenFacts DEF SchedTick, SchedTypeOK
  <2>3. CASE ~(ticks + 1 < Quantum) /\ n \notin {-1, cur}
    <3>1. n \in Task /\ cur \in Task
      BY <1>1, <2>3 DEF SchedTypeOK
    <3>2. /\ tstate' = [Demoted(Woken(n), cur) EXCEPT ![n] = "RUNNING"]
          /\ cur' = n /\ CtxSwitch(cur, n)
      BY <2>3 DEF SchedTick
    <3>3. Demoted(Woken(n), cur) \in [Task -> {"DEAD", "READY", "RUNNING", "SLEEPING", "ZOMBIE"}]
      BY <3>1, WokenFacts, DemotedFacts
    <3> HIDE DEF n
    <3> QED BY <3>1, <3>2, <3>3 DEF CtxSwitch, SchedTypeOK
  <2> QED BY <2>1, <2>2, <2>3
<1> QED BY <1>2, <1>3, <1>4 DEF SchedTypeOK, Picked

\* Every step keeps them.
LEMMA SchedStepType ==
  ASSUME SchedTypeOK, Picked, [SchedNext]_schedVars
  PROVE  SchedTypeOK' /\ Picked'
<1>1. CASE Spawn
  BY <1>1 DEF Spawn, SchedTypeOK, Picked
<1>2. CASE SchedTick
  BY <1>2, TickType
<1>3. CASE Sleep
  <2>1. clock + Nap \in 0 .. Wrap + Nap
    BY DEF SchedTypeOK
  <2> QED BY <1>3, <2>1 DEF Sleep, SchedTypeOK, Picked
<1>4. CASE Exit
  BY <1>4 DEF Exit, SchedTypeOK, Picked
<1>5. CASE YieldPick
  <2> DEFINE n == PickNext
  <2>1. n \in Task \cup {-1}
    BY PickNextType DEF SchedTypeOK
  <2>2. Woken(n) \in [Task -> {"DEAD", "READY", "RUNNING", "SLEEPING", "ZOMBIE"}]
    BY <2>1, WokenFacts
  <2>3. /\ tstate' = IF n \in {-1, cur} /\ tstate[cur] = "ZOMBIE"
                       THEN [tstate EXCEPT ![cur] = "DEAD"] ELSE Woken(n)
        /\ next' = [next EXCEPT ![run] = n]
        /\ at' = [at EXCEPT ![run] =
                     IF n \notin {-1, cur} THEN "demote"
                     ELSE IF tstate[cur] = "ZOMBIE" THEN "halt" ELSE "code"]
        /\ UNCHANGED <<esp, until, cur, ticks, clock, run>>
    BY <1>5 DEF YieldPick
  <2> HIDE DEF n
  <2> QED BY <2>1, <2>2, <2>3 DEF SchedTypeOK, Picked
<1>6. CASE YieldDemote
  BY <1>6, DemotedFacts DEF YieldDemote, SchedTypeOK, Picked
<1>7. CASE YieldCommit
  <2>1. next[run] \in Task
    BY <1>7 DEF YieldCommit, SchedTypeOK, Picked
  <2> QED BY <1>7, <2>1 DEF YieldCommit, SchedTypeOK, Picked
<1>8. CASE YieldSwitch
  BY <1>8 DEF YieldSwitch, CtxSwitch, SchedTypeOK, Picked
<1>9. CASE UNCHANGED schedVars
  BY <1>9 DEF schedVars, SchedTypeOK, Picked
<1> QED BY <1>1, <1>2, <1>3, <1>4, <1>5, <1>6, <1>7, <1>8, <1>9
       DEF SchedNext, SchedCall

\* Type correctness, with or without the timer inside sched_yield.
THEOREM SchedTypeCorrect == SchedSpec => [](SchedTypeOK /\ Picked)
<1>1. SchedInit => SchedTypeOK /\ Picked
  BY SchedInitType
<1>2. SchedTypeOK /\ Picked /\ [SchedNext]_schedVars => (SchedTypeOK /\ Picked)'
  BY SchedStepType
<1> QED BY <1>1, <1>2, PTL DEF SchedSpec

-----------------------------------------------------------------------------
(* With the timer outside sched_yield.                                     *)

SchedInv == OwnStacks /\ GaveWay /\ NoTaskLost

\* Every step keeps the stacks with their tasks, and one task running at most.
LEMMA SchedStepInv ==
  ASSUME ~Torn, SchedTypeOK, Picked, SchedInv, [SchedNext]_schedVars
  PROVE  SchedInv'
<1> USE DEF SchedTypeOK, SchedInv
<1>1. CASE Spawn
  BY <1>1 DEF Spawn, OwnStacks, GaveWay, NoTaskLost
<1>2. CASE SchedTick
  <2> DEFINE n == PickNext
  <2>1. n \in Task \cup {-1}
    BY PickNextType
  <2>2. at[run] \in {"code", "halt"} /\ cur = run /\ UNCHANGED <<at, next>>
    BY <1>2 DEF SchedTick, OwnStacks
  <2>3. CASE ticks + 1 < Quantum
    BY <1>2, <2>2, <2>3 DEF SchedTick, OwnStacks, GaveWay, NoTaskLost
  <2>4. CASE ~(ticks + 1 < Quantum) /\ n \in {-1, cur}
    <3>1. tstate' = Woken(n) /\ UNCHANGED <<esp, cur, run>>
      BY <1>2, <2>4 DEF SchedTick
    <3>2. \A t \in Task : tstate'[t] = "RUNNING" => tstate[t] = "RUNNING"
      BY <2>1, <3>1, WokenFacts
    <3> QED BY <2>2, <3>1, <3>2 DEF OwnStacks, GaveWay, NoTaskLost
  <2>5. CASE ~(ticks + 1 < Quantum) /\ n \notin {-1, cur}
    <3>1. /\ n \in Task
          /\ tstate' = [Demoted(Woken(n), cur) EXCEPT ![n] = "RUNNING"]
          /\ cur' = n /\ CtxSwitch(cur, n)
      BY <1>2, <2>1, <2>5 DEF SchedTick
    <3>2. run' = n /\ \A t \in Task : esp'[t] = t
      BY <2>2, <3>1 DEF CtxSwitch, OwnStacks
    <3>3. at'[n] \in {"code", "halt"}
      BY <2>2, <2>5, <3>1 DEF OwnStacks
    <3>4. /\ Woken(n) \in [Task -> {"DEAD", "READY", "RUNNING", "SLEEPING", "ZOMBIE"}]
          /\ \A t \in Task : Woken(n)[t] = "RUNNING" => tstate[t] = "RUNNING"
      BY <2>1, WokenFacts
    <3>5. \A t \in Task : Demoted(Woken(n), cur)[t] # "RUNNING"
      BY <3>4, DemotedFacts DEF NoTaskLost
    <3>6. NoTaskLost'
      BY <3>1, <3>4, <3>5, DemotedFacts DEF NoTaskLost
    <3> HIDE DEF n
    <3> QED BY <2>2, <3>1, <3>2, <3>3, <3>6 DEF OwnStacks, GaveWay
  <2> QED BY <2>3, <2>4, <2>5
<1>3. CASE Sleep
  BY <1>3 DEF Sleep, OwnStacks, GaveWay, NoTaskLost
<1>4. CASE Exit
  BY <1>4 DEF Exit, OwnStacks, GaveWay, NoTaskLost
<1>5. CASE YieldPick
  <2> DEFINE n == PickNext
  <2>1. n \in Task \cup {-1}
    BY PickNextType
  <2>2. /\ at[run] \in {"code", "yield"}
        /\ tstate' = IF n \in {-1, cur} /\ tstate[cur] = "ZOMBIE"
                       THEN [tstate EXCEPT ![cur] = "DEAD"] ELSE Woken(n)
        /\ next' = [next EXCEPT ![run] = n]
        /\ at' = [at EXCEPT ![run] =
                     IF n \notin {-1, cur} THEN "demote"
                     ELSE IF tstate[cur] = "ZOMBIE" THEN "halt" ELSE "code"]
        /\ UNCHANGED <<esp, until, cur, ticks, clock, run>>
    BY <1>5 DEF YieldPick
  <2>3. \A t \in Task : tstate'[t] = "RUNNING" => tstate[t] = "RUNNING"
    BY <2>1, <2>2, WokenFacts
  <2> HIDE DEF n
  <2> QED BY <2>2, <2>3 DEF OwnStacks, GaveWay, NoTaskLost
<1>6. CASE YieldDemote
  BY <1>6, DemotedFacts DEF YieldDemote, OwnStacks, GaveWay, NoTaskLost
<1>7. CASE YieldCommit
  <2>1. next[run] \in Task /\ cur = run
    BY <1>7 DEF YieldCommit, Picked, OwnStacks
  <2>2. \A t \in Task : tstate[t] # "RUNNING"
    BY <1>7 DEF YieldCommit, GaveWay, NoTaskLost
  <2> QED BY <1>7, <2>1, <2>2 DEF YieldCommit, OwnStacks, GaveWay, NoTaskLost
<1>8. CASE YieldSwitch
  <2>1. next[run] = run /\ at[run] = "switch"
    BY <1>8 DEF YieldSwitch, OwnStacks
  <2>2. esp' = [esp EXCEPT ![run] = run] /\ run' = esp[cur] /\ esp[cur] = cur
    BY <1>8, <2>1 DEF YieldSwitch, CtxSwitch, OwnStacks
  <2>3. /\ UNCHANGED <<tstate, cur, next>>
        /\ at' = [at EXCEPT ![run] = IF tstate[run] = "ZOMBIE" THEN "halt" ELSE "code"]
    BY <1>8, <2>1 DEF YieldSwitch
  <2> QED BY <2>1, <2>2, <2>3 DEF OwnStacks, GaveWay, NoTaskLost
<1>9. CASE UNCHANGED schedVars
  BY <1>9 DEF schedVars, OwnStacks, GaveWay, NoTaskLost
<1> QED BY <1>1, <1>2, <1>3, <1>4, <1>5, <1>6, <1>7, <1>8, <1>9
       DEF SchedNext, SchedCall

\* The invariant holds whenever the timer leaves sched_yield alone.
LEMMA SchedInvHolds ==
  ASSUME ~Torn
  PROVE  SchedSpec => []SchedInv
<1>1. SchedInit => SchedInv
  BY DEF SchedInit, SchedInv, OwnStacks, GaveWay, NoTaskLost, Task
<1>2. SchedTypeOK /\ Picked /\ SchedInv /\ [SchedNext]_schedVars => SchedInv'
  BY SchedStepInv
<1> QED BY <1>1, <1>2, SchedTypeCorrect, PTL DEF SchedSpec

\* If the timer does not strike inside sched_yield, at most one task is marked
\* running, the current one: the search for READY tasks misses none.
THEOREM NoTaskIsLost ==
  ASSUME ~Torn
  PROVE  SchedSpec => []NoTaskLost
<1>1. SchedInv => NoTaskLost
  BY DEF SchedInv
<1> QED BY <1>1, SchedInvHolds, PTL

\* If the timer does not strike inside sched_yield, every switch resumes the task
\* that the scheduler has made current.
THEOREM TasksResumeAsThemselves ==
  ASSUME ~Torn
  PROVE  SchedSpec => ResumedAsItself
<1>1. SchedTypeOK /\ Picked /\ SchedInv /\ [SchedNext]_schedVars
        => [run' # run => run' = cur']_schedVars
  <2> SUFFICES ASSUME SchedTypeOK, Picked, SchedInv, SchedNext, run' # run
               PROVE  run' = cur'
    BY DEF schedVars
  <2>1. CASE SchedTick
    <3> DEFINE n == PickNext
    <3>1. n \in Task \cup {-1}
      BY PickNextType DEF SchedTypeOK
    <3>2. n \notin {-1, cur} /\ cur' = n /\ run' = esp[n]
      BY <2>1 DEF SchedTick, CtxSwitch
    <3> QED BY <3>1, <3>2 DEF SchedInv, OwnStacks
  <2>2. CASE YieldSwitch
    BY <2>2 DEF YieldSwitch, CtxSwitch, SchedInv, OwnStacks, SchedTypeOK
  <2>3. CASE Spawn \/ Sleep \/ Exit \/ YieldPick \/ YieldDemote \/ YieldCommit
    BY <2>3 DEF Spawn, Sleep, Exit, YieldPick, YieldDemote, YieldCommit
  <2> QED BY <2>1, <2>2, <2>3 DEF SchedNext, SchedCall
<1> QED BY <1>1, SchedTypeCorrect, SchedInvHolds, PTL DEF SchedSpec, ResumedAsItself

HIDE SchedAssumption

-----------------------------------------------------------------------------
(* BROWSER DECODE                                                          *)

\* The lock is held by the idle loop while it paints or by the worker while it
\* updates, never by both.
Painter == ui \in {"blit", "reblit"}
Updater == worker \in {"update", "updated", "unlock"}

OneHolder == (lock <=> Painter \/ Updater) /\ ~(Painter /\ Updater)

\* The worker is busy with the job that occupies the slot, so that no other is
\* submitted; the payload buffers of the two are the same only until the flip.
SlotTaken == worker # "poll" => slot = "RUNNING"
FlipOwed  == job.mine <=> ui = "flip"

\* The front picture is whole but between the two steps that copy a tile under the
\* lock; the back one is whole when a decoded picture waits to change places with it.
FrontWhole == "front" \in whole \/ (worker = "updated" /\ job.kind = "TILE")
BackWhole  == worker \in {"lock", "update"} /\ job.kind = "IMG" => "back" \in whole

BrInv == BrTypeOK /\ OneHolder /\ SlotTaken /\ FlipOwed /\ FrontWhole /\ BackWhole

\* The invariant holds initially.
LEMMA BrInitInv == BrInit => BrInv
<1> SUFFICES ASSUME BrInit PROVE BrInv
  OBVIOUS
<1>1. BrTypeOK
  BY DEF BrInit, BrTypeOK, Buffers, Kinds
<1>2. OneHolder /\ SlotTaken /\ FlipOwed
  BY DEF BrInit, OneHolder, Painter, Updater, SlotTaken, FlipOwed
<1>3. FrontWhole /\ BackWhole
  BY DEF BrInit, FrontWhole, BackWhole, Buffers
<1> QED BY <1>1, <1>2, <1>3 DEF BrInv

\* Steps of the idle loop keep the invariant.
LEMMA UiKeeps ==
  ASSUME BrInv, UiStep
  PROVE  BrInv'
<1>1. BrTypeOK'
  <2> USE DEF BrInv, BrTypeOK
  <2> DEFINE JobType == [kind : Kinds, mine : BOOLEAN, old : BOOLEAN]
  <2>0. \A k \in Kinds : [kind |-> k, mine |-> TRUE, old |-> FALSE] \in JobType
    OBVIOUS
  <2>1. CASE Flip        BY <2>1 DEF Flip
  <2>2. CASE PresentStage BY <2>2 DEF PresentStage
  <2>3. CASE BlitBegin    BY <2>3 DEF BlitBegin
  <2>4. CASE BlitEnd      BY <2>4 DEF BlitEnd
  <2>5. CASE Tick
    <3>1. /\ job' \in JobType
          /\ slot' \in {slot, "QUEUED"} /\ ui' \in {ui, "pump", "flip", "stage"}
      BY <2>5, <2>0 DEF Tick, Submit
    <3>2. UNCHANGED <<win, parse, whole, old, dirty, pending, frameend, haveFrame, lock, worker>>
      BY <2>5 DEF Tick
    <3> HIDE <2>5
    <3> QED BY <3>1, <3>2
  <2>6. CASE Reconnect    BY <2>6 DEF Reconnect
  <2>7. CASE Header
    <3>1. parse' \in {Receiving(k) : k \in Kinds}
      BY <2>7, Zenon DEF Header
    <3>2. UNCHANGED <<win, slot, job, whole, old, dirty, pending, frameend, haveFrame, lock, ui, worker>>
      BY <2>7 DEF Header
    <3> HIDE <2>7
    <3> QED BY <3>1, <3>2
  <2>8. CASE Payload
    <3>1. /\ parse' \in {parse, "IDLE"} \cup {Blocked(k) : k \in Kinds}
          /\ job' \in JobType
          /\ slot' \in {slot, "QUEUED"} /\ ui' \in {ui, "flip", "stage"}
      BY <2>8, <2>0 DEF Payload, Submit
    <3>2. UNCHANGED <<win, whole, old, dirty, pending, frameend, haveFrame, lock, worker>>
      BY <2>8 DEF Payload
    <3> HIDE <2>8
    <3> QED BY <3>1, <3>2
  <2>9. CASE FrameEnd     BY <2>9 DEF FrameEnd
  <2>10. CASE PumpEnd     BY <2>10 DEF PumpEnd
  <2>11. CASE Resize      BY <2>11 DEF Resize
  <2>12. CASE StreamReset BY <2>12 DEF StreamReset
  <2>13. CASE Open        BY <2>13 DEF Open
  <2> QED BY <2>1, <2>2, <2>3, <2>4, <2>5, <2>6, <2>7, <2>8, <2>9, <2>10, <2>11, <2>12, <2>13
          DEF UiStep, Painting
<1>2. (OneHolder /\ SlotTaken /\ FlipOwed /\ FrontWhole /\ BackWhole)'
  <2> USE DEF Kinds, Buffers
  <2> USE DEF BrInv, BrTypeOK, OneHolder, Painter, Updater, SlotTaken, FlipOwed, FrontWhole, BackWhole
  <2>1. CASE Flip        BY <2>1 DEF Flip
  <2>2. CASE PresentStage BY <2>2 DEF PresentStage
  <2>3. CASE BlitBegin    BY <2>3 DEF BlitBegin
  <2>4. CASE BlitEnd      BY <2>4 DEF BlitEnd
  <2>5. CASE Tick         BY <2>5 DEF Tick, Submit
  <2>6. CASE Reconnect    BY <2>6 DEF Reconnect
  <2>7. CASE Header       BY <2>7 DEF Header, Receiving, Blocked
  <2>8. CASE Payload      BY <2>8 DEF Payload, Submit, Receiving, Blocked
  <2>9. CASE FrameEnd     BY <2>9 DEF FrameEnd
  <2>10. CASE PumpEnd     BY <2>10 DEF PumpEnd
  <2>11. CASE Resize      BY <2>11 DEF Resize
  <2>12. CASE StreamReset BY <2>12 DEF StreamReset
  <2>13. CASE Open        BY <2>13 DEF Open
  <2> QED BY <2>1, <2>2, <2>3, <2>4, <2>5, <2>6, <2>7, <2>8, <2>9, <2>10, <2>11, <2>12, <2>13
          DEF UiStep, Painting
<1> QED BY <1>1, <1>2 DEF BrInv

\* Steps of the worker keep the invariant.
LEMMA WorkerKeeps ==
  ASSUME BrInv, WorkerStep
  PROVE  BrInv'
<1> USE DEF Kinds, Buffers, uiVars
<1> USE DEF BrInv, BrTypeOK, OneHolder, Painter, Updater, SlotTaken, FlipOwed, FrontWhole, BackWhole
<1>1. CASE Take         BY <1>1 DEF Take
<1>2. CASE Decode       BY <1>2 DEF Decode
<1>3. CASE WorkerLock   BY <1>3 DEF WorkerLock
<1>4. CASE Update       BY <1>4 DEF Update
<1>5. CASE Updated      BY <1>5 DEF Updated
<1>6. CASE WorkerUnlock BY <1>6 DEF WorkerUnlock
<1>7. CASE Flag         BY <1>7 DEF Flag
<1>8. CASE Done         BY <1>8 DEF Done
<1> QED BY <1>1, <1>2, <1>3, <1>4, <1>5, <1>6, <1>7, <1>8 DEF WorkerStep

LEMMA BrKeeps ==
  ASSUME BrInv, [BrNext]_brVars
  PROVE  BrInv'
<1>1. CASE UNCHANGED brVars
  BY <1>1 DEF brVars, BrInv, BrTypeOK, OneHolder, Painter, Updater, SlotTaken, FlipOwed, FrontWhole, BackWhole
<1> QED BY <1>1, UiKeeps, WorkerKeeps DEF BrNext

\* Types, and who may touch what: the picture lock has one holder, and the slot
\* and the payload buffers change hands as br_job_submit and the worker have it.
THEOREM BrHolds == BrSpec => []BrInv
BY BrInitInv, BrKeeps, PTL DEF BrSpec

\* br_blit paints from a picture that nobody is writing, wherever the timer switches
\* between the idle loop and the worker.
THEOREM PaintedPicturesAreWhole == BrSpec => []BlitsWhole
<1>1. BrInv => BlitsWhole
  BY DEF BrInv, BlitsWhole, OneHolder, Painter, Updater, FrontWhole
<1> QED BY <1>1, BrHolds, PTL

\* While the worker decodes a payload, the parser does not write into its buffer.
THEOREM PayloadsStayIntact == BrSpec => []PayloadIntact
<1>1. BrInv => PayloadIntact
  BY DEF BrInv, PayloadIntact, FlipOwed
<1> QED BY <1>1, BrHolds, PTL

-----------------------------------------------------------------------------
(* TASK TIMERS                                                             *)

USE TimerAssumption

\* A task that a script armed in this tick lies after the second that the tick
\* compares with, which is not after the present one.
FreshLater == nowTick <= clock0 /\ \A s \in fresh : Armed(s) => due[s] > nowTick

\* Between the readings of the clock at most a second passes.
AskedJustNow == asking # NoAsk => clock0 - asking.seen \in {0, 1} /\ asking.seen \in 0 .. Horizon

-----------------------------------------------------------------------------
(* Targets.                                                                *)

\* A remainder is less than the day.
LEMMA Remainder ==
  ASSUME NEW x \in Int
  PROVE  x % Day \in 0 .. Day - 1
OBVIOUS

\* The target of tasktimer_schedule_at lies within the next day.
LEMMA TargetWithin ==
  ASSUME NEW now \in Nat, NEW ask \in [want : 0 .. Day - 1, seen : {Unarmed} \cup 0 .. Horizon]
  PROVE  TargetOf(now, ask) \in now + 1 .. now + Day
<1>1. ask.want \in 0 .. Day - 1 /\ ask.seen \in Int
  BY DEF Unarmed
<1>2. ask.seen % Day \in 0 .. Day - 1
  BY <1>1, Remainder
<1> QED BY <1>1, <1>2 DEF TargetOf

\* Arming changes one free slot, if any.
LEMMA ArmedSlot ==
  ASSUME TimerTypeOK, NEW target \in clock0 + 1 .. clock0 + Day, Arm(target)
  PROVE  /\ due' \in [TimerSlot -> {Unarmed} \cup 1 .. Horizon + Day]
         /\ fresh' \subseteq TimerSlot
         /\ \A s \in TimerSlot : due'[s] = due[s] \/ (~Armed(s) /\ due'[s] = target)
         /\ \A s \in fresh' : s \in fresh \/ due'[s] = target
<1> DEFINE free == {s \in TimerSlot : ~Armed(s)}
           t == CHOOSE x \in free : \A y \in free : x <= y
<1>1. CASE free = {}
  BY <1>1 DEF Arm, TimerTypeOK
<1>2. CASE free # {}
  <2>1. due' = [due EXCEPT ![t] = target] /\ fresh' = IF scan = 0 THEN fresh ELSE fresh \cup {t}
    BY <1>2 DEF Arm
  <2>2. t \in free
    <3>1. free \in SUBSET Nat
      BY DEF TimerSlot
    <3> HIDE DEF free
    <3>2. \E x \in free : \A y \in free : x <= y
      BY <1>2, <3>1, LeastNatural
    <3> QED BY <3>2
  <2>3. target \in 1 .. Horizon + Day
    BY DEF TimerTypeOK
  <2> HIDE DEF t
  <2> QED BY <2>1, <2>2, <2>3 DEF TimerTypeOK
<1> QED BY <1>1, <1>2

-----------------------------------------------------------------------------
(* Types.                                                                  *)

\* Every step keeps the types, and what is known between two readings.
LEMMA TimerStepType ==
  ASSUME TimerTypeOK, AskedJustNow, [TimerNext]_timerVars
  PROVE  TimerTypeOK' /\ AskedJustNow'
<1> USE DEF TimerTypeOK, AskedJustNow
<1>1. CASE Second
  BY <1>1 DEF Second
<1>2. CASE ScheduleIn
  <2>1. PICK k \in 1 .. Day : Arm(clock0 + k)
    BY <1>2 DEF ScheduleIn, Offsets
  <2>2. clock0 + k \in clock0 + 1 .. clock0 + Day
    OBVIOUS
  <2> QED BY <1>2, <2>1, <2>2, ArmedSlot DEF ScheduleIn
<1>3. CASE ScheduleAt
  <2>1. PICK w \in 0 .. Day - 1 : asking' = [want |-> w, seen |-> clock0]
    BY <1>3 DEF ScheduleAt
  <2> QED BY <1>3, <2>1 DEF ScheduleAt
<1>4. CASE ArmAt
  <2>1. TargetOf(clock0, asking) \in clock0 + 1 .. clock0 + Day
    BY TargetWithin
  <2>2. NoAsk \in [want : 0 .. Day - 1, seen : {Unarmed} \cup 0 .. Horizon]
    BY DEF NoAsk
  <2> QED BY <1>4, <2>1, <2>2, ArmedSlot DEF ArmAt
<1>5. CASE CancelTimers
  <2>1. PICK gone \in {{s} : s \in TimerSlot} \cup {TimerSlot} :
          due' = [s \in TimerSlot |-> IF s \in gone THEN Unarmed ELSE due[s]]
    BY <1>5 DEF CancelTimers
  <2> QED BY <1>5, <2>1 DEF CancelTimers
<1>6. CASE TimerTick
  BY <1>6 DEF TimerTick
<1>7. CASE Fire
  BY <1>7 DEF Fire
<1>8. CASE Pass
  BY <1>8 DEF Pass, NextScan
<1>9. CASE ScriptEnds
  <2>1. NextScan \in 0 .. Timers
    BY DEF NextScan
  <2> QED BY <1>9, <2>1 DEF ScriptEnds
<1>10. CASE UNCHANGED timerVars
  BY <1>10 DEF timerVars
<1> QED BY <1>1, <1>2, <1>3, <1>4, <1>5, <1>6, <1>7, <1>8, <1>9, <1>10 DEF TimerNext

\* Type correctness, with what is known between two readings of the clock.
THEOREM TimerTypeCorrect == TimerSpec => [](TimerTypeOK /\ AskedJustNow)
<1>1. TimerInit => TimerTypeOK /\ AskedJustNow
  <2> SUFFICES ASSUME TimerInit PROVE TimerTypeOK /\ AskedJustNow
    OBVIOUS
  <2>1. NoAsk \in [want : 0 .. Day - 1, seen : {Unarmed} \cup 0 .. Horizon]
    BY DEF NoAsk
  <2>2. due \in [TimerSlot -> {Unarmed} \cup 1 .. Horizon + Day] /\ fresh = {}
    BY DEF TimerInit
  <2>3. clock0 = 0 /\ lastPoll = 0 /\ nowTick = 0 /\ scan = 0 /\ script = FALSE /\ asking = NoAsk
    BY DEF TimerInit
  <2>4. {clock0, lastPoll, nowTick} \subseteq 0 .. Horizon /\ scan \in 0 .. Timers
    BY <2>3
  <2>5. TimerTypeOK
    BY <2>1, <2>2, <2>3, <2>4 DEF TimerTypeOK
  <2> QED BY <2>3, <2>5 DEF AskedJustNow
<1>2. TimerTypeOK /\ AskedJustNow /\ [TimerNext]_timerVars => (TimerTypeOK /\ AskedJustNow)'
  BY TimerStepType
<1> QED BY <1>1, <1>2, PTL DEF TimerSpec

-----------------------------------------------------------------------------
(* What a tick fires.                                                      *)

\* Arming at a second to come keeps it that way for the scripts of the tick.
LEMMA ArmLater ==
  ASSUME TimerTypeOK, FreshLater, NEW target \in clock0 + 1 .. clock0 + Day,
         Arm(target), UNCHANGED <<clock0, nowTick>>
  PROVE  FreshLater'
<1>1. /\ \A s \in TimerSlot : due'[s] = due[s] \/ due'[s] = target
      /\ \A s \in fresh' : s \in fresh \/ due'[s] = target
      /\ fresh' \subseteq TimerSlot
  BY ArmedSlot
<1>2. target > nowTick
  BY DEF TimerTypeOK, FreshLater
<1> QED BY <1>1, <1>2 DEF FreshLater, Armed, TimerTypeOK

\* Every step keeps them later.
LEMMA FreshStep ==
  ASSUME TimerTypeOK, AskedJustNow, FreshLater, [TimerNext]_timerVars
  PROVE  FreshLater'
<1> USE DEF TimerTypeOK
<1>1. CASE Second
  BY <1>1 DEF Second, FreshLater, Armed
<1>2. CASE ScheduleIn
  <2>1. PICK k \in 1 .. Day : Arm(clock0 + k)
    BY <1>2 DEF ScheduleIn, Offsets
  <2>2. clock0 + k \in clock0 + 1 .. clock0 + Day
    OBVIOUS
  <2> QED BY <1>2, <2>1, <2>2, ArmLater DEF ScheduleIn
<1>3. CASE ArmAt
  <2>1. TargetOf(clock0, asking) \in clock0 + 1 .. clock0 + Day
    BY TargetWithin
  <2> QED BY <1>3, <2>1, ArmLater DEF ArmAt
<1>4. CASE CancelTimers
  <2>1. PICK gone \in {{s} : s \in TimerSlot} \cup {TimerSlot} :
          due' = [s \in TimerSlot |-> IF s \in gone THEN Unarmed ELSE due[s]]
    BY <1>4 DEF CancelTimers
  <2> QED BY <1>4, <2>1 DEF CancelTimers, FreshLater, Armed
<1>5. CASE TimerTick
  BY <1>5 DEF TimerTick, FreshLater
<1>6. CASE Fire
  BY <1>6 DEF Fire, FreshLater, Armed
<1>7. CASE ScheduleAt \/ Pass \/ ScriptEnds \/ UNCHANGED timerVars
  BY <1>7 DEF ScheduleAt, Pass, ScriptEnds, timerVars, FreshLater, Armed
<1> QED BY <1>1, <1>2, <1>3, <1>4, <1>5, <1>6, <1>7 DEF TimerNext

\* A tick fires no task that a script armed during it, however many slots there are
\* and however long the scripts take, although the tick reads the slots as it goes.
THEOREM TicksFireOnlyOlder == TimerSpec => FiresOnlyOlder
<1>1. TimerInit => FreshLater
  BY DEF TimerInit, FreshLater
<1>2. TimerTypeOK /\ AskedJustNow /\ FreshLater /\ [TimerNext]_timerVars => FreshLater'
  BY FreshStep
<1>3. TimerTypeOK /\ FreshLater => [Fire => scan \notin fresh]_timerVars
  BY DEF FreshLater, Fire, TimerTypeOK, Armed
<1> QED BY <1>1, <1>2, <1>3, TimerTypeCorrect, PTL DEF TimerSpec, FiresOnlyOlder

-----------------------------------------------------------------------------
(* Times of day.                                                           *)

\* The second at which a day began is a whole number of days.
LEMMA DayBegins ==
  ASSUME NEW x \in Int, NEW y \in 0 .. 1, NEW z \in {0, Day}
  PROVE  (((x + y) - (x % Day)) + z) % Day \in {0, y}
<1>1. x = Day * (x \div Day) + (x % Day) /\ x \div Day \in Int /\ x % Day \in 0 .. Day - 1
  OBVIOUS
<1> DEFINE d == x \div Day
           r == x % Day
<1>2. PICK q \in Int : ((x + y) - r) + z = Day * q + y
  <2>1. CASE z = 0
    <3> DEFINE p == Day * d
    <3>1. x = p + r /\ p \in Int /\ r \in Int /\ d \in Int
      BY <1>1
    <3> HIDE DEF p, r
    <3>2. ((x + y) - r) + z = p + y
      BY <2>1, <3>1
    <3> HIDE DEF d
    <3> QED BY <3>1, <3>2 DEF p
  <2>2. CASE z = Day
    <3> DEFINE p == Day * (d + 1)
    <3>1. x = (p - Day) + r /\ p \in Int /\ r \in Int /\ d \in Int
      <4>1. Day * (d + 1) = Day * d + Day /\ Day * d \in Int
        BY <1>1
      <4> QED BY <1>1, <4>1
    <3> HIDE DEF p, r
    <3>2. ((x + y) - r) + z = p + y
      BY <2>2, <3>1
    <3> HIDE DEF d
    <3>3. d + 1 \in Int
      BY <3>1
    <3>4. ((x + y) - r) + z = Day * (d + 1) + y
      BY <3>2, Zenon DEF p
    <3> QED BY <3>3, <3>4, Zenon
  <2> QED BY <2>1, <2>2
<1>3. (Day * q + y) % Day = y % Day
  OBVIOUS
<1>4. y % Day \in {0, y}
  OBVIOUS
<1> QED BY <1>2, <1>3, <1>4

\* A task asked for a time of day is armed for the next second that is that late in
\* its day, or for the one after if the clock moved on between the two readings,
\* also where that is midnight.
THEOREM TimesOfDayAreMet == TimerSpec => ArmedForTheHour
<1> DEFINE Met == \A s \in TimerSlot :
              asking # NoAsk /\ ~Armed(s) /\ Armed(s)' =>
                /\ due'[s] \in clock0 + 1 .. clock0 + Day
                /\ (due'[s] - asking.want) % Day \in {0, clock0 - asking.seen}
<1>1. TimerTypeOK /\ AskedJustNow /\ [TimerNext]_timerVars => [Met]_timerVars
  <2> SUFFICES ASSUME TimerTypeOK, AskedJustNow, TimerNext,
                      NEW s \in TimerSlot, asking # NoAsk, ~Armed(s), Armed(s)'
               PROVE  /\ due'[s] \in clock0 + 1 .. clock0 + Day
                      /\ (due'[s] - asking.want) % Day \in {0, clock0 - asking.seen}
    OBVIOUS
  <2>1. ArmAt
    <3>1. CASE Fire
      BY <3>1 DEF Fire, Armed, TimerTypeOK
    <3> QED BY <3>1 DEF TimerNext, Second, ScheduleIn, ScheduleAt, CancelTimers, CanArm, TimerTick,
                        Pass, ScriptEnds, Armed
  <2> DEFINE target == TargetOf(clock0, asking)
             w == asking.want
             x == asking.seen
             y == clock0 - x
             today == (clock0 + w) - (x % Day)
  <2>2. target \in clock0 + 1 .. clock0 + Day
    BY TargetWithin DEF TimerTypeOK
  <2>3. due'[s] = target
    <3>1. Arm(target)
      BY <2>1 DEF ArmAt
    <3> HIDE DEF target
    <3> QED BY <2>2, <3>1, ArmedSlot DEF Armed
  <2>4. x \in Int /\ y \in 0 .. 1 /\ clock0 = x + y /\ clock0 \in Int /\ w \in Int
    BY DEF AskedJustNow, TimerTypeOK
  <2>5. target = IF today <= clock0 THEN today + Day ELSE today
    BY DEF TargetOf
  <2>6. PICK z \in {0, Day} : target - w = ((x + y) - (x % Day)) + z
    <3> DEFINE r == x % Day
    <3>1. r \in Int
      BY <2>4
    <3> HIDE DEF target, x, y, w, r
    <3>2. today = (clock0 + w) - r
      BY DEF r
    <3> HIDE DEF today
    <3>3. target - w = ((x + y) - r) + (IF today <= clock0 THEN Day ELSE 0)
      BY <2>4, <2>5, <3>1, <3>2
    <3> QED BY <3>3 DEF r
  <2>7. (target - w) % Day \in {0, y}
    <3> HIDE DEF target, x, y, w
    <3> QED BY <2>4, <2>6, DayBegins
  <2> QED BY <2>2, <2>3, <2>7
<1> QED BY <1>1, TimerTypeCorrect, PTL DEF TimerSpec, ArmedForTheHour

HIDE TimerAssumption

-----------------------------------------------------------------------------
(* THE FOUR SIDE BY SIDE                                                   *)

LEMMA PartSteps ==
  /\ [TasksNext]_tasksVars => [SchedNext]_schedVars
  /\ [TasksNext]_tasksVars => [BrNext]_brVars
  /\ [TasksNext]_tasksVars => [TcpNext]_tcpVars
  /\ [TasksNext]_tasksVars => [TimerNext]_timerVars
BY DEF TasksNext, tasksVars

\* Every behaviour of the composition is one of each component: what is proved of
\* them holds of what TLC runs.
THEOREM PartsBehave == TasksSpec => SchedSpec /\ BrSpec /\ TcpSpec /\ TimerSpec
<1>1. TasksInit => SchedInit /\ BrInit /\ TcpInit /\ TimerInit
  BY DEF TasksInit
<1> QED BY <1>1, PartSteps, PTL DEF TasksSpec, SchedSpec, BrSpec, TcpSpec, TimerSpec

\* Task table, picture and payload buffers, connection slot and timer slots keep
\* their types, for any number of tasks and timers and a stream of any length.
THEOREM TasksTypeCorrect == TasksSpec => []TasksTypeOK
<1>1. SchedTypeOK /\ BrInv /\ TcpTypeOK /\ TimerTypeOK => TasksTypeOK
  BY DEF TasksTypeOK, BrInv
<1> QED BY <1>1, PartsBehave, SchedTypeCorrect, BrHolds, TcpTypeCorrect, TimerTypeCorrect, PTL
=============================================================================
