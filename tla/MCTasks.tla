------------------------------- MODULE MCTasks -------------------------------
(* Scheduler, BrowserDecode, Tcp and TaskTimer side by side for TLC.  They *)
(* share no state: a behaviour is one of one of them, and the others stay  *)
(* as they began.                                                          *)
EXTENDS Scheduler, BrowserDecode, Tcp, TaskTimer

VARIABLE part   \* the component of this behaviour

Parts == {"scheduler", "browser", "tcp", "timer"}

TasksInit ==
  part \in Parts /\ SchedInit /\ BrInit /\ TcpInit /\ TimerInit

TasksNext ==
  /\ part' = part
  /\ \/ /\ part = "scheduler" /\ SchedNext
        /\ UNCHANGED <<brVars, tcpVars, timerVars>>
     \/ /\ part = "browser" /\ BrNext
        /\ UNCHANGED <<schedVars, tcpVars, timerVars>>
     \/ /\ part = "tcp" /\ TcpNext
        /\ UNCHANGED <<schedVars, brVars, timerVars>>
     \/ /\ part = "timer" /\ TimerNext
        /\ UNCHANGED <<schedVars, brVars, tcpVars>>

tasksVars == <<part, schedVars, brVars, tcpVars, timerVars>>

Is(p) == part = p

\* The fairness of SchedFairSpec, BrFairSpec, TcpFairSpec and TimerFairSpec, each
\* for the behaviours of its component.
TasksSpec ==
  /\ TasksInit /\ [][TasksNext]_tasksVars
  /\ WF_schedVars(Is("scheduler") /\ SchedTick)
  /\ WF_schedVars(Is("scheduler") /\ SchedCall /\ at[run] # "code")
  /\ WF_brVars(Is("browser") /\ WorkerStep) /\ SF_brVars(Is("browser") /\ WorkerLock)
  /\ WF_brVars(Is("browser") /\ Painting)
  /\ SF_brVars(Is("browser") /\ Tick) /\ SF_brVars(Is("browser") /\ PumpEnd)
  /\ WF_tcpVars(Is("tcp") /\ PeerResends) /\ WF_tcpVars(Is("tcp") /\ RtxTick)
  /\ WF_tcpVars(Is("tcp") /\ Recv)
  /\ WF_timerVars(Is("timer") /\ ArmAt) /\ WF_timerVars(Is("timer") /\ (Fire \/ Pass))
  /\ SF_timerVars(Is("timer") /\ ScriptEnds) /\ SF_timerVars(Is("timer") /\ TimerTick)

\* Every variable of the four components holds a value of its type.
TasksTypeOK == SchedTypeOK /\ BrTypeOK /\ TcpTypeOK /\ TimerTypeOK
=============================================================================
