------------------------------ MODULE LinThread ------------------------------
(***************************************************************************)
(* Threads and futexes of a Linux program (src/kernel/lin_thread.c, called *)
(* from linuxsys.c).  They are not preempted: one thread runs in user      *)
(* mode, and a system call that waits, yields or exits puts the frame of   *)
(* another into place.                                                     *)
(*                                                                         *)
(* A register frame is reduced to the call it is inside and to the result  *)
(* that call will return.  The program stores 0 and 1 into a word of its   *)
(* own, and may wait for the word of another thread that the kernel        *)
(* clears when that thread exits; it calls futex wake after a store, and   *)
(* at most one thread joins another.  Compat selects the entry points for  *)
(* 32-bit programs, which also have a fork; there waitpid and nanosleep,   *)
(* which loop around a yield, and execve are left out.                     *)
(***************************************************************************)
EXTENDS Integers, FiniteSets

CONSTANTS
  LinSlots,  \* LIN_THREADS_MAX
  Compat     \* whether the program uses the 32-bit entry points

ASSUME LinAssumption == LinSlots \in Nat \ {0} /\ Compat \in BOOLEAN

VARIABLES
  thr,    \* g_threads
  live,   \* g_thread_live
  gcur,   \* g_current
  mem,    \* the futex words
  owes,   \* the words each thread has stored to and not called wake for
  spin,   \* the loop that futex wait is in: "no", "timed" or "forever"
  reply,  \* the last call that came back after a switch, and its result
  over    \* the process has ended

linVars == <<thr, live, gcur, mem, owes, spin, reply, over>>

Slot  == 0 .. LinSlots - 1
Main  == 0
Own   == 0      \* the program's word; the others are the words that threads clear
None  == -1

Free == [state |-> "FREE", addr |-> Own, val |-> 0, fork |-> FALSE,
         call |-> "start", rax |-> "0"]

Used(tab)  == {t \in Slot : tab[t].state # "FREE"}
User       == ~over /\ spin = "no"

LinInit ==
  /\ thr = [t \in Slot |-> IF t = Main THEN [Free EXCEPT !.state = "RUNNABLE"] ELSE Free]
  /\ live = 1 /\ gcur = Main
  /\ mem = [w \in Slot |-> 0]
  /\ owes = [t \in Slot |-> {}]
  /\ spin = "no" /\ over = FALSE
  /\ reply = [call |-> "start", rax |-> "0"]

Lowest(set) == CHOOSE t \in set : \A u \in set : t <= u

\* lin_pick_runnable, over a table.
Runnable(tab, skip) == {t \in Slot \ {skip} : tab[t].state = "RUNNABLE"}

\* lin_save_current: a 64-bit frame still holds the number of the call in rax,
\* a 32-bit one has its result apart.
Saved(tab, call) ==
  [tab EXCEPT ![gcur].call = call,
              ![gcur].rax = IF Compat THEN tab[gcur].rax ELSE "number"]

\* lin_switch_to.
SwitchTo(tab, t) ==
  /\ gcur' = t
  /\ reply' = [call |-> tab[t].call, rax |-> tab[t].rax]
  /\ thr' = tab

\* lin_thread_futex_wake: the first n waiters in the order of their slots.
Wakened(tab, w, n) ==
  LET waiting == {t \in Slot : tab[t].state = "BLOCKED" /\ tab[t].addr = w}
      woken   == {t \in waiting : Cardinality({u \in waiting : u < t}) < n}
  IN  [t \in Slot |-> IF t \in woken
                      THEN [tab[t] EXCEPT !.state = "RUNNABLE", !.rax = "0"]
                      ELSE tab[t]]

-----------------------------------------------------------------------------
\* The program stores into its word; it owes the waiters a wake.
Store ==
  /\ User
  /\ \E v \in {0, 1} : mem[Own] # v /\ mem' = [mem EXCEPT ![Own] = v]
  /\ owes' = [owes EXCEPT ![gcur] = @ \cup {Own}]
  /\ UNCHANGED <<thr, live, gcur, spin, reply, over>>

\* futex(FUTEX_WAKE): for all waiters after a store, for some otherwise.
FutexWake ==
  /\ User
  /\ \E n \in {1, LinSlots} :
       /\ n = LinSlots \/ owes[gcur] = {}
       /\ thr' = Wakened(thr, Own, n)
  /\ owes' = [owes EXCEPT ![gcur] = {}]
  /\ UNCHANGED <<live, gcur, mem, spin, reply, over>>

\* lin_thread_futex_wait with the value the program has just read or, for a
\* stale one, EAGAIN and nothing else; with no other thread to run it waits in
\* the kernel.  A thread pays its debts before it waits.
FutexWait ==
  /\ User /\ owes[gcur] = {}
  /\ \E w \in Slot :
       /\ w = Own \/ (w # gcur /\ mem[w] = 1 /\ \A t \in Slot : thr[t].state = "BLOCKED" => thr[t].addr # w)
       /\ LET tab == [Saved(thr, "wait") EXCEPT ![gcur].state = "BLOCKED",
                                                ![gcur].addr = w, ![gcur].val = mem[w]]
          IN  IF Runnable(tab, gcur) # {}
              THEN /\ SwitchTo(tab, Lowest(Runnable(tab, gcur)))
                   /\ UNCHANGED spin
              ELSE /\ thr' = tab /\ spin' \in {"timed", "forever"}
                   /\ UNCHANGED <<gcur, reply>>
  /\ UNCHANGED <<live, mem, owes, over>>

\* The deadline of the thread that waits in the kernel.
TimedOut ==
  /\ spin = "timed"
  /\ spin' = "no"
  /\ thr' = [thr EXCEPT ![gcur].state = "RUNNABLE"]
  /\ reply' = [call |-> "wait", rax |-> "ETIMEDOUT"]
  /\ UNCHANGED <<live, gcur, mem, owes, over>>

\* sched_yield, for a program with more than one thread.
LinYield ==
  /\ User /\ live >= 2 /\ Runnable(thr, gcur) # {}
  /\ LET tab == Saved(thr, "yield") IN SwitchTo(tab, Lowest(Runnable(tab, gcur)))
  /\ UNCHANGED <<live, mem, owes, spin, over>>

\* clone(CLONE_THREAD): the first free slot; its word holds the thread's number.
Clone ==
  /\ User
  /\ \E t \in Slot :
       /\ thr[t].state = "FREE" /\ \A u \in 0 .. t - 1 : thr[u].state # "FREE"
       /\ thr' = [thr EXCEPT ![t] = [Free EXCEPT !.state = "RUNNABLE"]]
       /\ mem' = [mem EXCEPT ![t] = 1]
  /\ live' = live + 1
  /\ UNCHANGED <<gcur, owes, spin, reply, over>>

\* lin_compat32_do_fork: the child is a thread of its own, and the parent stays
\* in the table.  The child goes first if its slot does; another thread is given
\* the number of the child.
LinFork ==
  /\ Compat /\ User /\ owes[gcur] = {}
  /\ \E t \in Slot :
       /\ thr[t].state = "FREE" /\ \A u \in 0 .. t - 1 : thr[u].state # "FREE"
       /\ thr' = [Saved(thr, "fork") EXCEPT
                    ![t] = [Free EXCEPT !.state = "RUNNABLE", !.fork = TRUE]]
       /\ gcur' = Lowest(Runnable(thr', gcur))
       /\ reply' = [call |-> thr'[gcur'].call, rax |-> IF gcur' = t THEN "0" ELSE "pid"]
  /\ live' = live + 1
  /\ UNCHANGED <<mem, owes, spin, over>>

\* A bug: the thread that goes is still counted.
LeaveUncounted(tab) ==
  /\ live' = live
  /\ owes' = [owes EXCEPT ![gcur] = {}]
  /\ spin' = spin
  /\ LET left == [tab EXCEPT ![gcur] = Free]
     IN  IF Runnable(left, None) # {}
         THEN SwitchTo(left, Lowest(Runnable(left, None))) /\ over' = FALSE
         ELSE thr' = left /\ over' = TRUE /\ UNCHANGED <<gcur, reply>>

\* A thread goes; another takes its place, or the process ends.
Leave(tab) ==
  /\ live' = live - 1
  /\ owes' = [owes EXCEPT ![gcur] = {}]
  /\ spin' = spin
  /\ LET left == [tab EXCEPT ![gcur] = Free]
     IN  IF Runnable(left, None) # {}
         THEN SwitchTo(left, Lowest(Runnable(left, None))) /\ over' = FALSE
         ELSE thr' = left /\ over' = TRUE /\ UNCHANGED <<gcur, reply>>

\* A bug: the word is cleared, and its waiter left asleep.
ClearTidSilent ==
  IF thr[gcur].fork
  THEN mem' = mem /\ Leave(thr)
  ELSE mem' = [mem EXCEPT ![gcur] = 0] /\ Leave(thr)

\* lin_thread_wake_clear_tid, which a child of fork does without.
ClearTid ==
  IF thr[gcur].fork
  THEN mem' = mem /\ Leave(thr)
  ELSE mem' = [mem EXCEPT ![gcur] = 0] /\ Leave(Wakened(thr, gcur, 1))

EndProcess ==
  /\ over' = TRUE
  /\ UNCHANGED <<thr, live, gcur, mem, owes, spin, reply>>

\* exit, or exit_group, in lin_thread_try_exit and lin_thread_compat32_fork_exit.
LinExit ==
  /\ User /\ owes[gcur] = {}
  /\ \E group \in BOOLEAN :
       IF ~group /\ live > 1 /\ gcur # Main
       THEN ClearTid
       ELSE IF thr[gcur].fork
       THEN mem' = mem /\ Leave(thr)
       ELSE EndProcess

\* lin_thread_handle_fault, of a thread that owes no wake.
LinFault ==
  /\ User /\ owes[gcur] = {}
  /\ IF live >= 2 /\ gcur # Main THEN ClearTid ELSE EndProcess

\* The next program: lin_thread_reset and lin_thread_ensure_boot.
NewProgram ==
  /\ over
  /\ thr' = [t \in Slot |-> IF t = Main THEN [Free EXCEPT !.state = "RUNNABLE"] ELSE Free]
  /\ live' = 1 /\ gcur' = Main
  /\ mem' = [w \in Slot |-> 0]
  /\ owes' = [t \in Slot |-> {}]
  /\ spin' = "no" /\ over' = FALSE
  /\ reply' = [call |-> "start", rax |-> "0"]

LinNext ==
  \/ Store \/ FutexWake \/ FutexWait \/ TimedOut \/ LinYield \/ Clone
  \/ LinFork \/ LinExit \/ LinFault \/ NewProgram

LinSpec == LinInit /\ [][LinNext]_linVars

-----------------------------------------------------------------------------
(* Properties.                                                             *)

\* Every variable holds a value of its type, and the count of live threads and
\* the current thread agree with the table (every path in lin_thread.c that
\* starts, ends or switches a thread).
LinTypeOK ==
  /\ thr \in [Slot -> [state : {"FREE", "RUNNABLE", "BLOCKED"}, addr : Slot,
                       val : {0, 1}, fork : BOOLEAN,
                       call : {"start", "wait", "yield", "fork"}, rax : {"0", "number"}]]
  /\ live = Cardinality(Used(thr)) /\ gcur \in Slot
  /\ mem \in [Slot -> {0, 1}] /\ owes \in [Slot -> SUBSET Slot]
  /\ spin \in {"no", "timed", "forever"} /\ over \in BOOLEAN
  /\ User => thr[gcur].state = "RUNNABLE"

\* No wake-up is lost: a thread sleeps on a word that has the value it waits to
\* see gone only if that is still so, or a wake is on its way; in particular
\* no thread goes on waiting for one that has exited.
NoLostWake ==
  \A t \in Slot :
    thr[t].state = "BLOCKED" /\ ~over =>
      \/ mem[thr[t].addr] = thr[t].val
      \/ \E u \in Slot : thr[t].addr \in owes[u]

\* "the parked parent gets the pid": the parent of a fork comes back with the
\* number of its child (the comment in lin_compat32_do_fork).
ForkReturnsPid == reply.call = "fork" => reply.rax = "pid"

=============================================================================
