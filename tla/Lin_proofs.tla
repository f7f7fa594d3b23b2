------------------------------ MODULE Lin_proofs ------------------------------
(***************************************************************************)
(* What holds of threads and futexes for any number of slots, with the     *)
(* 32-bit entry points and fork, and without; and of AF_UNIX links for any *)
(* number of links, descriptors and processes, any queue, and any number   *)
(* of forks.                                                               *)
(***************************************************************************)
EXTENDS LinThread, LinSockets, Lemmas, FiniteSetTheorems

-----------------------------------------------------------------------------
(* Threads and futexes.                                                    *)

USE LinAssumption

Calls  == {"start", "wait", "yield", "fork"}
ThrRec == [state : {"FREE", "RUNNABLE", "BLOCKED"}, addr : Slot, val : {0, 1},
           fork : BOOLEAN, call : Calls, rax : {"0", "number"}]
Table  == [Slot -> ThrRec]

Asleep(tab, t) == tab[t].state = "BLOCKED"

-----------------------------------------------------------------------------
(* Tables of threads.                                                      *)

\* There is a first slot, and finitely many.
LEMMA Slots ==
  /\ 0 \in Slot /\ Slot \in SUBSET Nat /\ IsFiniteSet(Slot) /\ Cardinality(Slot) = LinSlots
<1>1. LinSlots \in Nat /\ LinSlots # 0 /\ LinSlots - 1 \in Nat
  OBVIOUS
<1>2. IsFiniteSet(0 .. LinSlots - 1) /\ Cardinality(0 .. LinSlots - 1) = (LinSlots - 1) - 0 + 1
  BY <1>1, FS_Interval
<1> QED BY <1>1, <1>2 DEF Slot

\* The first runnable thread is one of them.
LEMMA LowestIn ==
  ASSUME NEW A \in SUBSET Slot, A # {}
  PROVE  Lowest(A) \in A
BY Slots, LeastNatural DEF Lowest

\* A blank record, and the record of a new thread.
LEMMA FreeType ==
  /\ Free \in ThrRec /\ Free.state = "FREE" /\ Free.fork = FALSE
  /\ \A f \in BOOLEAN :
       LET new == [Free EXCEPT !.state = "RUNNABLE", !.fork = f]
       IN  new \in ThrRec /\ new.state = "RUNNABLE" /\ new.fork = f
  /\ LET new == [Free EXCEPT !.state = "RUNNABLE"]
     IN  new \in ThrRec /\ new.state = "RUNNABLE" /\ ~new.fork
BY Slots DEF Free, ThrRec, Calls, Own

\* A thread that a wake has made runnable.
LEMMA Roused ==
  ASSUME NEW r \in ThrRec
  PROVE  LET new == [r EXCEPT !.state = "RUNNABLE", !.rax = "0"]
         IN  new \in ThrRec /\ new.state = "RUNNABLE" /\ new.fork = r.fork
BY DEF ThrRec

\* Saving a frame changes what the thread returns to.
LEMMA SavedFacts ==
  ASSUME NEW tab \in Table, gcur \in Slot, NEW call \in Calls
  PROVE  /\ Saved(tab, call) \in Table
         /\ \A t \in Slot : /\ Saved(tab, call)[t].state = tab[t].state
                            /\ Saved(tab, call)[t].addr = tab[t].addr
                            /\ Saved(tab, call)[t].val = tab[t].val
                            /\ Saved(tab, call)[t].fork = tab[t].fork
<1> DEFINE r == IF Compat THEN tab[gcur].rax ELSE "number"
<1>1. r \in {"0", "number"}
  BY DEF Table, ThrRec
<1>2. Saved(tab, call) = [tab EXCEPT ![gcur].call = call, ![gcur].rax = r]
  BY DEF Saved
<1> HIDE DEF r
<1>3. \A t \in Slot : Saved(tab, call)[t] =
        IF t = gcur THEN [tab[t] EXCEPT !.call = call, !.rax = r] ELSE tab[t]
  BY <1>2 DEF Table
<1>4. \A t \in Slot : tab[t] \in ThrRec
  BY DEF Table
<1>a. Saved(tab, call)[gcur] = [tab[gcur] EXCEPT !.call = call, !.rax = r]
  BY <1>3
<1>b. /\ Saved(tab, call)[gcur] \in ThrRec
      /\ Saved(tab, call)[gcur].state = tab[gcur].state
      /\ Saved(tab, call)[gcur].addr = tab[gcur].addr
      /\ Saved(tab, call)[gcur].val = tab[gcur].val
      /\ Saved(tab, call)[gcur].fork = tab[gcur].fork
  <2>1. tab[gcur] \in ThrRec
    BY <1>4
  <2> DEFINE new == [tab[gcur] EXCEPT !.call = call, !.rax = r]
  <2>2. /\ new \in ThrRec /\ new.state = tab[gcur].state /\ new.addr = tab[gcur].addr
        /\ new.val = tab[gcur].val /\ new.fork = tab[gcur].fork
    BY <1>1, <2>1 DEF ThrRec
  <2> HIDE DEF new
  <2>3. Saved(tab, call)[gcur] = new
    BY <1>a DEF new
  <2> QED BY <2>2, <2>3
<1>5. \A t \in Slot : Saved(tab, call)[t] \in ThrRec
  BY <1>3, <1>4, <1>b
<1>6. Saved(tab, call) = [t \in Slot |-> Saved(tab, call)[t]]
  BY <1>2 DEF Table
<1>7. Saved(tab, call) \in Table
  BY <1>5, <1>6 DEF Table
<1> QED BY <1>3, <1>b, <1>7

\* A wake makes sleepers on its word runnable, and does nothing to the rest.
LEMMA WakenedFacts ==
  ASSUME NEW tab \in Table, NEW w \in Slot, NEW n
  PROVE  /\ Wakened(tab, w, n) \in Table
         /\ \A t \in Slot : \/ Wakened(tab, w, n)[t] = tab[t]
                            \/ /\ Asleep(tab, t) /\ tab[t].addr = w
                               /\ Wakened(tab, w, n)[t].state = "RUNNABLE"
                               /\ Wakened(tab, w, n)[t].fork = tab[t].fork
<1> DEFINE woken(t) == [tab[t] EXCEPT !.state = "RUNNABLE", !.rax = "0"]
<1>1. \A t \in Slot : /\ woken(t) \in ThrRec
                      /\ woken(t).state = "RUNNABLE" /\ woken(t).fork = tab[t].fork
  BY Roused DEF Table
<1>2. \A t \in Slot : \/ Wakened(tab, w, n)[t] = tab[t]
                      \/ /\ tab[t].state = "BLOCKED" /\ tab[t].addr = w
                         /\ Wakened(tab, w, n)[t] = woken(t)
  BY DEF Wakened
<1>3. Wakened(tab, w, n) = [t \in Slot |-> Wakened(tab, w, n)[t]]
  BY DEF Wakened
<1> HIDE DEF woken
<1>4. Wakened(tab, w, n) \in Table
  BY <1>1, <1>2, <1>3 DEF Table
<1> QED BY <1>1, <1>2, <1>4 DEF Asleep

\* A wake for as many as there are slots leaves nobody asleep on the word.
LEMMA WakenedAll ==
  ASSUME NEW tab \in Table, NEW w \in Slot, NEW t \in Slot
  PROVE  ~(Asleep(Wakened(tab, w, LinSlots), t) /\ Wakened(tab, w, LinSlots)[t].addr = w)
<1> DEFINE waiting == {u \in Slot : tab[u].state = "BLOCKED" /\ tab[u].addr = w}
           before  == {u \in waiting : u < t}
<1>1. Cardinality(before) < LinSlots
  <2>1. before \in SUBSET (Slot \ {t})
    BY Slots
  <2>2. IsFiniteSet(Slot \ {t}) /\ Cardinality(Slot \ {t}) = LinSlots - 1
    BY Slots, FS_RemoveElement
  <2> HIDE DEF before
  <2>3. IsFiniteSet(before) /\ Cardinality(before) <= LinSlots - 1
    BY <2>1, <2>2, FS_Subset
  <2>4. Cardinality(before) \in Nat
    BY <2>3, FS_CardinalityType
  <2> QED BY <2>3, <2>4
<1>2. t \in waiting => Wakened(tab, w, LinSlots)[t] = [tab[t] EXCEPT !.state = "RUNNABLE", !.rax = "0"]
  BY <1>1 DEF Wakened
<1>3. t \notin waiting => Wakened(tab, w, LinSlots)[t] = tab[t]
  BY DEF Wakened
<1> QED BY <1>2, <1>3 DEF Asleep, Table, ThrRec

\* A wake for one wakes the only one.
LEMMA WakenedOne ==
  ASSUME NEW tab \in Table, NEW w \in Slot, NEW t \in Slot,
         \A x, y \in Slot : Asleep(tab, x) /\ Asleep(tab, y) /\ tab[x].addr = w /\ tab[y].addr = w => x = y
  PROVE  ~(Asleep(Wakened(tab, w, 1), t) /\ Wakened(tab, w, 1)[t].addr = w)
<1> DEFINE waiting == {u \in Slot : tab[u].state = "BLOCKED" /\ tab[u].addr = w}
<1>1. t \in waiting => Wakened(tab, w, 1)[t] = [tab[t] EXCEPT !.state = "RUNNABLE", !.rax = "0"]
  <2>1. t \in waiting => {u \in waiting : u < t} = {}
    <3>1. \A u \in Slot : ~(u < u)
      BY Slots
    <3> QED BY <3>1 DEF Asleep
  <2>2. Cardinality({}) = 0 /\ 0 < 1
    BY FS_EmptySet
  <2> QED BY <2>1, <2>2 DEF Wakened
<1>2. t \notin waiting => Wakened(tab, w, 1)[t] = tab[t]
  BY DEF Wakened
<1> QED BY <1>1, <1>2 DEF Asleep, Table, ThrRec

-----------------------------------------------------------------------------
(* Types and the count of threads.                                         *)

\* A thread that waits in the kernel is asleep, in a process that goes on.
Spinning == spin # "no" => ~over /\ thr[gcur].state = "BLOCKED"

\* The threads of a table are finitely many.
LEMMA UsedFinite ==
  ASSUME NEW tab
  PROVE  IsFiniteSet(Used(tab)) /\ Cardinality(Used(tab)) \in Nat
<1>1. Used(tab) \in SUBSET Slot
  BY DEF Used
<1> QED BY <1>1, Slots, FS_Subset, FS_CardinalityType

\* A table with the same slots in use has as many threads.
LEMMA UsedSame ==
  ASSUME NEW tab, NEW new, \A t \in Slot : tab[t].state = "FREE" <=> new[t].state = "FREE"
  PROVE  Used(new) = Used(tab)
BY DEF Used

\* One more thread.
LEMMA UsedMore ==
  ASSUME NEW tab \in Table, NEW t \in Slot, tab[t].state = "FREE",
         NEW r \in ThrRec, r.state # "FREE"
  PROVE  /\ [tab EXCEPT ![t] = r] \in Table
         /\ Cardinality(Used([tab EXCEPT ![t] = r])) = Cardinality(Used(tab)) + 1
<1> DEFINE new == [tab EXCEPT ![t] = r]
<1>1. new \in Table /\ \A u \in Slot : new[u] = IF u = t THEN r ELSE tab[u]
  BY DEF Table
<1> HIDE DEF new
<1>2. Used(new) = Used(tab) \cup {t} /\ t \notin Used(tab)
  BY <1>1 DEF Used
<1>3. Cardinality(Used(new)) = Cardinality(Used(tab)) + 1
  BY <1>2, UsedFinite, FS_AddElement
<1> QED BY <1>1, <1>3 DEF new

\* One thread less.
LEMMA UsedLess ==
  ASSUME NEW tab \in Table, NEW t \in Slot, tab[t].state # "FREE"
  PROVE  /\ [tab EXCEPT ![t] = Free] \in Table
         /\ Cardinality(Used([tab EXCEPT ![t] = Free])) = Cardinality(Used(tab)) - 1
<1> DEFINE new == [tab EXCEPT ![t] = Free]
<1>1. new \in Table /\ \A u \in Slot : new[u] = IF u = t THEN Free ELSE tab[u]
  BY FreeType DEF Table
<1> HIDE DEF new
<1>2. Used(new) = Used(tab) \ {t} /\ t \in Used(tab)
  BY <1>1, FreeType DEF Used
<1>3. Cardinality(Used(new)) = Cardinality(Used(tab)) - 1
  BY <1>2, UsedFinite, FS_RemoveElement
<1> QED BY <1>1, <1>3 DEF new

\* The table of a new program.
LEMMA FirstTable ==
  ASSUME NEW tab, tab = [t \in Slot |-> IF t = Main THEN [Free EXCEPT !.state = "RUNNABLE"] ELSE Free]
  PROVE  /\ tab \in Table /\ Cardinality(Used(tab)) = 1 /\ Main \in Slot
         /\ tab[Main].state = "RUNNABLE" /\ ~tab[Main].fork
         /\ \A t \in Slot : ~Asleep(tab, t)
<1> DEFINE new == [Free EXCEPT !.state = "RUNNABLE"]
<1>1. new \in ThrRec /\ new.state = "RUNNABLE" /\ ~new.fork
  BY FreeType
<1> HIDE DEF new
<1>2. tab = [t \in Slot |-> IF t = Main THEN new ELSE Free]
  BY DEF new
<1>3. tab \in Table /\ \A t \in Slot : tab[t] = IF t = Main THEN new ELSE Free
  BY <1>1, <1>2, FreeType DEF Table
<1>4. Used(tab) = {Main} /\ Main \in Slot
  BY <1>1, <1>3, FreeType, Slots DEF Used, Main
<1>5. Cardinality({Main}) = 1
  BY FS_Singleton
<1> QED BY <1>1, <1>3, <1>4, <1>5, FreeType DEF Asleep

\* The table of lin_thread_futex_wait, once the thread sleeps.
SleepTable(w) ==
  [Saved(thr, "wait") EXCEPT ![gcur].state = "BLOCKED", ![gcur].addr = w, ![gcur].val = mem[w]]

\* Going to sleep changes one thread.
LEMMA SleepFacts ==
  ASSUME LinTypeOK, NEW w \in Slot
  PROVE  /\ SleepTable(w) \in Table
         /\ SleepTable(w)[gcur].state = "BLOCKED" /\ SleepTable(w)[gcur].addr = w
         /\ SleepTable(w)[gcur].val = mem[w] /\ SleepTable(w)[gcur].fork = thr[gcur].fork
         /\ \A t \in Slot \ {gcur} : /\ SleepTable(w)[t].state = thr[t].state
                                     /\ SleepTable(w)[t].addr = thr[t].addr
                                     /\ SleepTable(w)[t].val = thr[t].val
                                     /\ SleepTable(w)[t].fork = thr[t].fork
<1> DEFINE sv == Saved(thr, "wait")
           r == [sv[gcur] EXCEPT !.state = "BLOCKED", !.addr = w, !.val = mem[w]]
           tab == SleepTable(w)
<1>1. /\ thr \in Table /\ gcur \in Slot /\ mem[w] \in {0, 1}
  BY DEF LinTypeOK, Table, ThrRec, Calls
<1>2. /\ sv \in Table
      /\ \A t \in Slot : /\ sv[t].state = thr[t].state /\ sv[t].addr = thr[t].addr
                         /\ sv[t].val = thr[t].val /\ sv[t].fork = thr[t].fork
  BY <1>1, SavedFacts, "wait" \in Calls DEF Calls
<1> HIDE DEF sv
<1>3. /\ r \in ThrRec /\ r.state = "BLOCKED" /\ r.addr = w /\ r.val = mem[w] /\ r.fork = thr[gcur].fork
  <2>1. sv[gcur] \in ThrRec
    BY <1>1, <1>2 DEF Table
  <2> QED BY <1>1, <1>2, <2>1 DEF ThrRec
<1>4. tab = [sv EXCEPT ![gcur] = r]
  BY <1>1, <1>2 DEF Table, SleepTable, sv
<1> HIDE DEF r
<1>5. tab \in Table /\ \A t \in Slot : tab[t] = IF t = gcur THEN r ELSE sv[t]
  BY <1>1, <1>2, <1>3, <1>4 DEF Table
<1> HIDE DEF tab
<1>6. /\ tab \in Table
      /\ tab[gcur].state = "BLOCKED" /\ tab[gcur].addr = w /\ tab[gcur].val = mem[w]
      /\ tab[gcur].fork = thr[gcur].fork
      /\ \A t \in Slot \ {gcur} : /\ tab[t].state = thr[t].state /\ tab[t].addr = thr[t].addr
                                  /\ tab[t].val = thr[t].val /\ tab[t].fork = thr[t].fork
  BY <1>1, <1>2, <1>3, <1>5
<1> QED BY <1>6 DEF tab

\* What LinTypeOK says, in the words of this module.
LEMMA Typed ==
  LinTypeOK <=>
    /\ thr \in Table /\ live = Cardinality(Used(thr)) /\ gcur \in Slot
    /\ mem \in [Slot -> {0, 1}] /\ owes \in [Slot -> SUBSET Slot]
    /\ spin \in {"no", "timed", "forever"} /\ over \in BOOLEAN
    /\ User => thr[gcur].state = "RUNNABLE"
BY DEF LinTypeOK, Table, ThrRec, Calls

\* A thread that goes leaves a table without it, and one that can run, or none.
LEMMA LeaveFacts ==
  ASSUME LinTypeOK, User, NEW tab \in Table,
         \A t \in Slot : tab[t].state = "FREE" <=> thr[t].state = "FREE", Leave(tab)
  PROVE  LET left == [tab EXCEPT ![gcur] = Free]
         IN  /\ thr' = left /\ left \in Table /\ live' = Cardinality(Used(left))
             /\ gcur' \in Slot /\ (~over' => left[gcur'].state = "RUNNABLE")
             /\ spin' = "no" /\ over' \in BOOLEAN
             /\ owes' = [owes EXCEPT ![gcur] = {}]
<1> DEFINE left == [tab EXCEPT ![gcur] = Free]
<1>1. live = Cardinality(Used(thr)) /\ gcur \in Slot /\ thr[gcur].state = "RUNNABLE" /\ spin = "no"
  BY DEF LinTypeOK, User
<1>2. Used(tab) = Used(thr) /\ tab[gcur].state # "FREE"
  BY <1>1, UsedSame
<1>3. left \in Table /\ Cardinality(Used(left)) = live - 1
  BY <1>1, <1>2, UsedLess
<1>4. /\ live' = live - 1 /\ owes' = [owes EXCEPT ![gcur] = {}] /\ spin' = spin
      /\ IF Runnable(left, None) # {}
         THEN SwitchTo(left, Lowest(Runnable(left, None))) /\ over' = FALSE
         ELSE thr' = left /\ over' = TRUE /\ UNCHANGED <<gcur, reply>>
  BY DEF Leave
<1> HIDE DEF left
<1>5. Runnable(left, None) # {} => /\ Lowest(Runnable(left, None)) \in Slot
                                   /\ left[Lowest(Runnable(left, None))].state = "RUNNABLE"
  <2>1. Runnable(left, None) \in SUBSET Slot
    BY DEF Runnable
  <2>2. Runnable(left, None) # {} => Lowest(Runnable(left, None)) \in Runnable(left, None)
    BY <2>1, LowestIn
  <2> QED BY <2>2 DEF Runnable
<1>6. /\ thr' = left /\ left \in Table /\ live' = Cardinality(Used(left))
      /\ gcur' \in Slot /\ (~over' => left[gcur'].state = "RUNNABLE")
      /\ spin' = "no" /\ over' \in BOOLEAN
      /\ owes' = [owes EXCEPT ![gcur] = {}]
  BY <1>1, <1>3, <1>4, <1>5 DEF SwitchTo
<1> QED BY <1>6 DEF left

\* The table that ClearTid hands to Leave has the same threads.
LEMMA ClearTidFacts ==
  ASSUME LinTypeOK, User, ClearTid
  PROVE  \/ mem' = mem /\ Leave(thr)
         \/ /\ mem' = [mem EXCEPT ![gcur] = 0] /\ Leave(Wakened(thr, gcur, 1))
            /\ Wakened(thr, gcur, 1) \in Table
            /\ \A t \in Slot : Wakened(thr, gcur, 1)[t].state = "FREE" <=> thr[t].state = "FREE"
<1>1. thr \in Table /\ gcur \in Slot
  BY Typed
<1>2. /\ Wakened(thr, gcur, 1) \in Table
      /\ \A t \in Slot : Wakened(thr, gcur, 1)[t].state = "FREE" <=> thr[t].state = "FREE"
  BY <1>1, WakenedFacts DEF Asleep
<1> QED BY <1>2 DEF ClearTid

\* Every step keeps the types and the count.
LEMMA LinStepType ==
  ASSUME LinTypeOK, Spinning, [LinNext]_linVars
  PROVE  LinTypeOK' /\ Spinning'
<1>0. /\ thr \in Table /\ live = Cardinality(Used(thr)) /\ gcur \in Slot
      /\ mem \in [Slot -> {0, 1}] /\ owes \in [Slot -> SUBSET Slot]
      /\ spin \in {"no", "timed", "forever"} /\ over \in BOOLEAN
      /\ User => thr[gcur].state = "RUNNABLE"
  BY Typed
<1>a. SUFFICES /\ thr' \in Table /\ live' = Cardinality(Used(thr')) /\ gcur' \in Slot
               /\ mem' \in [Slot -> {0, 1}] /\ owes' \in [Slot -> SUBSET Slot]
               /\ spin' \in {"no", "timed", "forever"} /\ over' \in BOOLEAN
               /\ ~over' /\ spin' = "no" => thr'[gcur'].state = "RUNNABLE"
               /\ Spinning'
  BY Typed DEF LinTypeOK, Table, ThrRec, Calls, User, Used
<1>b. Own \in Slot /\ Main \in Slot /\ 0 \in {0, 1} /\ 1 \in {0, 1}
  BY Slots DEF Own, Main
<1>1. CASE Store
  BY <1>0, <1>1, <1>b DEF Store, Spinning, User
<1>2. CASE FutexWake
  <2>1. PICK n \in {1, LinSlots} : thr' = Wakened(thr, Own, n)
    BY <1>2 DEF FutexWake
  <2>2. /\ thr' \in Table
        /\ \A t \in Slot : thr[t].state = "FREE" <=> thr'[t].state = "FREE"
        /\ thr[gcur].state = "RUNNABLE" => thr'[gcur].state = "RUNNABLE"
    BY <1>0, <1>b, <2>1, WakenedFacts DEF Asleep
  <2>3. Used(thr') = Used(thr)
    BY <2>2, UsedSame
  <2>4. /\ UNCHANGED <<live, gcur, mem, spin, over>> /\ User /\ owes' = [owes EXCEPT ![gcur] = {}]
    BY <1>2 DEF FutexWake
  <2> QED BY <1>0, <2>2, <2>3, <2>4 DEF Spinning, User
<1>3. CASE FutexWait
  <2>1. PICK w \in Slot :
          LET tab == SleepTable(w)
          IN  IF Runnable(tab, gcur) # {}
              THEN /\ SwitchTo(tab, Lowest(Runnable(tab, gcur)))
                   /\ UNCHANGED spin
              ELSE /\ thr' = tab /\ spin' \in {"timed", "forever"}
                   /\ UNCHANGED <<gcur, reply>>
    BY <1>3 DEF FutexWait, SleepTable
  <2> DEFINE tab == SleepTable(w)
  <2>2. /\ tab \in Table /\ tab[gcur].state = "BLOCKED"
        /\ \A t \in Slot \ {gcur} : tab[t].state = thr[t].state
    BY SleepFacts
  <2>3. IF Runnable(tab, gcur) # {}
        THEN SwitchTo(tab, Lowest(Runnable(tab, gcur))) /\ UNCHANGED spin
        ELSE thr' = tab /\ spin' \in {"timed", "forever"} /\ UNCHANGED <<gcur, reply>>
    BY <2>1
  <2> HIDE DEF tab
  <2>4. UNCHANGED <<live, mem, owes, over>> /\ User
    BY <1>3 DEF FutexWait
  <2>5. thr' = tab /\ Used(tab) = Used(thr)
    <3>1. \A t \in Slot : thr[t].state = "FREE" <=> tab[t].state = "FREE"
      BY <1>0, <2>2, <2>4
    <3>2. Used(tab) = Used(thr)
      BY <3>1, UsedSame
    <3> QED BY <2>3, <3>2 DEF SwitchTo
  <2>6. CASE Runnable(tab, gcur) # {}
    <3>1. Runnable(tab, gcur) \in SUBSET Slot
      BY DEF Runnable
    <3>2. gcur' \in Runnable(tab, gcur)
      BY <2>3, <2>6, <3>1, LowestIn DEF SwitchTo
    <3>3. gcur' \in Slot /\ thr'[gcur'].state = "RUNNABLE" /\ spin' = "no"
      BY <2>3, <2>4, <2>5, <2>6, <3>2 DEF Runnable, User
    <3> QED BY <1>0, <2>2, <2>4, <2>5, <3>3 DEF Spinning
  <2>7. CASE Runnable(tab, gcur) = {}
    BY <1>0, <2>2, <2>3, <2>4, <2>5, <2>7 DEF Spinning, User
  <2> QED BY <2>6, <2>7
<1>4. CASE TimedOut
  <2>1. /\ thr' = [thr EXCEPT ![gcur].state = "RUNNABLE"] /\ spin' = "no"
        /\ UNCHANGED <<live, gcur, mem, owes, over>> /\ thr[gcur].state = "BLOCKED"
    BY <1>4 DEF TimedOut, Spinning
  <2> DEFINE r == [thr[gcur] EXCEPT !.state = "RUNNABLE"]
  <2>2. r \in ThrRec /\ r.state = "RUNNABLE"
    <3>1. thr[gcur] \in ThrRec
      BY <1>0 DEF Table
    <3> QED BY <3>1 DEF ThrRec
  <2>3. thr' = [thr EXCEPT ![gcur] = r]
    BY <1>0, <2>1 DEF Table
  <2> HIDE DEF r
  <2>4. thr' \in Table /\ \A t \in Slot : thr'[t] = IF t = gcur THEN r ELSE thr[t]
    BY <1>0, <2>2, <2>3 DEF Table
  <2>5. \A t \in Slot : thr[t].state = "FREE" <=> thr'[t].state = "FREE"
    BY <2>1, <2>2, <2>4
  <2>6. Used(thr') = Used(thr)
    BY <2>5, UsedSame
  <2> QED BY <1>0, <2>1, <2>2, <2>4, <2>6 DEF Spinning
<1>5. CASE LinYield
  <2> DEFINE tab == Saved(thr, "yield")
  <2>1. User /\ Runnable(thr, gcur) # {} /\ SwitchTo(tab, Lowest(Runnable(tab, gcur)))
        /\ UNCHANGED <<live, mem, owes, spin, over>>
    BY <1>5 DEF LinYield
  <2>2. tab \in Table /\ \A t \in Slot : tab[t].state = thr[t].state
    BY <1>0, SavedFacts, "yield" \in Calls DEF Calls
  <2> HIDE DEF tab
  <2>3. Runnable(tab, gcur) = Runnable(thr, gcur) /\ Used(tab) = Used(thr)
    <3>1. Used(tab) = Used(thr)
      BY <2>2, UsedSame
    <3> QED BY <2>2, <3>1 DEF Runnable
  <2>4. gcur' \in Runnable(tab, gcur) /\ thr' = tab
    <3>1. Runnable(tab, gcur) \in SUBSET Slot
      BY DEF Runnable
    <3> QED BY <2>1, <2>3, <3>1, LowestIn DEF SwitchTo
  <2>5. gcur' \in Slot /\ thr'[gcur'].state = "RUNNABLE"
    BY <2>4 DEF Runnable
  <2> QED BY <1>0, <2>1, <2>2, <2>3, <2>4, <2>5 DEF Spinning, User
<1>6. CASE Clone
  <2>1. PICK t \in Slot :
          /\ thr[t].state = "FREE"
          /\ thr' = [thr EXCEPT ![t] = [Free EXCEPT !.state = "RUNNABLE"]]
          /\ mem' = [mem EXCEPT ![t] = 1]
    BY <1>6 DEF Clone
  <2> DEFINE r == [Free EXCEPT !.state = "RUNNABLE"]
  <2>2. r \in ThrRec /\ r.state = "RUNNABLE"
    BY FreeType
  <2>3. User /\ live' = live + 1 /\ UNCHANGED <<gcur, owes, spin, over>>
    BY <1>6 DEF Clone
  <2> HIDE DEF r
  <2>4. thr' = [thr EXCEPT ![t] = r]
    BY <2>1 DEF r
  <2>5. thr' \in Table /\ Cardinality(Used(thr')) = Cardinality(Used(thr)) + 1
    <3>1. [thr EXCEPT ![t] = r] \in Table /\ Cardinality(Used([thr EXCEPT ![t] = r])) = Cardinality(Used(thr)) + 1
      BY <1>0, <2>1, <2>2, UsedMore
    <3> QED BY <2>4, <3>1
  <2>6. thr'[gcur].state = "RUNNABLE"
    BY <1>0, <2>2, <2>3, <2>4 DEF Table
  <2> QED BY <1>0, <1>b, <2>1, <2>3, <2>5, <2>6 DEF Spinning, User
<1>7. CASE LinFork
  <2>1. PICK t \in Slot :
          /\ thr[t].state = "FREE"
          /\ thr' = [Saved(thr, "fork") EXCEPT
                       ![t] = [Free EXCEPT !.state = "RUNNABLE", !.fork = TRUE]]
          /\ gcur' = Lowest(Runnable(thr', gcur))
    BY <1>7 DEF LinFork
  <2> DEFINE r == [Free EXCEPT !.state = "RUNNABLE", !.fork = TRUE]
             sv == Saved(thr, "fork")
  <2>2. r \in ThrRec /\ r.state = "RUNNABLE"
    BY FreeType
  <2>3. sv \in Table /\ \A u \in Slot : sv[u].state = thr[u].state
    BY <1>0, SavedFacts, "fork" \in Calls DEF Calls
  <2>4. User /\ live' = live + 1 /\ UNCHANGED <<mem, owes, spin, over>>
    BY <1>7 DEF LinFork
  <2> HIDE DEF r, sv
  <2>5. thr' = [sv EXCEPT ![t] = r]
    BY <2>1 DEF r, sv
  <2>6. thr' \in Table /\ Cardinality(Used(thr')) = Cardinality(Used(thr)) + 1
    <3>1. Used(sv) = Used(thr)
      BY <2>3, UsedSame
    <3>2. [sv EXCEPT ![t] = r] \in Table /\ Cardinality(Used([sv EXCEPT ![t] = r])) = Cardinality(Used(sv)) + 1
      BY <2>1, <2>2, <2>3, UsedMore
    <3> QED BY <2>5, <3>1, <3>2
  <2>7. gcur' \in Slot /\ thr'[gcur'].state = "RUNNABLE"
    <3>1. Runnable(thr', gcur) \in SUBSET Slot
      BY DEF Runnable
    <3>2. thr'[t].state = "RUNNABLE" /\ t # gcur
      BY <1>0, <2>1, <2>2, <2>3, <2>4, <2>5 DEF Table
    <3>3. t \in Runnable(thr', gcur)
      BY <3>2 DEF Runnable
    <3>4. gcur' \in Runnable(thr', gcur)
      BY <2>1, <3>1, <3>3, LowestIn
    <3> QED BY <3>4 DEF Runnable
  <2> QED BY <1>0, <2>4, <2>6, <2>7 DEF Spinning, User
<1>8. CASE User /\ EndProcess
  BY <1>0, <1>8 DEF EndProcess, Spinning, User
<1>9. ASSUME User, NEW tab \in Table,
             \A t \in Slot : tab[t].state = "FREE" <=> thr[t].state = "FREE", Leave(tab),
             mem' \in [Slot -> {0, 1}]
      PROVE  /\ thr' \in Table /\ live' = Cardinality(Used(thr')) /\ gcur' \in Slot
             /\ mem' \in [Slot -> {0, 1}] /\ owes' \in [Slot -> SUBSET Slot]
             /\ spin' \in {"no", "timed", "forever"} /\ over' \in BOOLEAN
             /\ ~over' /\ spin' = "no" => thr'[gcur'].state = "RUNNABLE"
             /\ Spinning'
  <2> DEFINE left == [tab EXCEPT ![gcur] = Free]
  <2>1. /\ thr' = left /\ left \in Table /\ live' = Cardinality(Used(left))
        /\ gcur' \in Slot /\ (~over' => left[gcur'].state = "RUNNABLE")
        /\ spin' = "no" /\ over' \in BOOLEAN
        /\ owes' = [owes EXCEPT ![gcur] = {}]
    BY <1>9, LeaveFacts
  <2> HIDE DEF left
  <2> QED BY <1>0, <1>9, <2>1 DEF Spinning
<1>10. CASE User /\ ClearTid
  <2>1. CASE mem' = mem /\ Leave(thr)
    BY <1>0, <1>9, <1>10, <2>1
  <2>2. CASE /\ mem' = [mem EXCEPT ![gcur] = 0] /\ Leave(Wakened(thr, gcur, 1))
             /\ Wakened(thr, gcur, 1) \in Table
             /\ \A t \in Slot : Wakened(thr, gcur, 1)[t].state = "FREE" <=> thr[t].state = "FREE"
    <3>1. mem' \in [Slot -> {0, 1}]
      BY <1>0, <2>2
    <3> QED BY <1>9, <1>10, <2>2, <3>1
  <2> QED BY <1>10, <2>1, <2>2, ClearTidFacts
<1>11. CASE LinExit \/ LinFault
  <2>1. User /\ (ClearTid \/ EndProcess \/ (mem' = mem /\ Leave(thr)))
    BY <1>11 DEF LinExit, LinFault
  <2>2. CASE mem' = mem /\ Leave(thr)
    BY <1>0, <1>9, <2>1, <2>2
  <2> QED BY <2>1, <2>2, <1>8, <1>10
<1>12. CASE NewProgram
  <2>1. /\ thr' = [t \in Slot |-> IF t = Main THEN [Free EXCEPT !.state = "RUNNABLE"] ELSE Free]
        /\ live' = 1 /\ gcur' = Main /\ mem' = [w \in Slot |-> 0] /\ owes' = [t \in Slot |-> {}]
        /\ spin' = "no" /\ over' = FALSE
    BY <1>12 DEF NewProgram
  <2>2. thr' \in Table /\ Cardinality(Used(thr')) = 1 /\ thr'[Main].state = "RUNNABLE"
    BY <2>1, FirstTable
  <2> QED BY <1>b, <2>1, <2>2 DEF Spinning
<1>13. CASE UNCHANGED linVars
  BY <1>0, <1>13 DEF linVars, Spinning, User
<1> QED BY <1>1, <1>2, <1>3, <1>4, <1>5, <1>6, <1>7, <1>11, <1>12, <1>13 DEF LinNext

\* Type correctness; the count of live threads agrees with the table.
THEOREM LinTypeCorrect == LinSpec => [](LinTypeOK /\ Spinning)
<1>1. LinInit => LinTypeOK /\ Spinning
  <2> SUFFICES ASSUME LinInit PROVE LinTypeOK /\ Spinning
    OBVIOUS
  <2>1. thr \in Table /\ Cardinality(Used(thr)) = 1 /\ Main \in Slot /\ thr[Main].state = "RUNNABLE"
    BY FirstTable DEF LinInit
  <2>2. /\ live = 1 /\ gcur = Main /\ mem = [w \in Slot |-> 0] /\ owes = [t \in Slot |-> {}]
        /\ spin = "no" /\ over = FALSE
    BY DEF LinInit
  <2>3. mem \in [Slot -> {0, 1}] /\ owes \in [Slot -> SUBSET Slot]
    BY <2>2
  <2> QED BY <2>1, <2>2, <2>3, Typed DEF Spinning
<1>2. LinTypeOK /\ Spinning /\ [LinNext]_linVars => (LinTypeOK /\ Spinning)'
  BY LinStepType
<1> QED BY <1>1, <1>2, PTL DEF LinSpec

-----------------------------------------------------------------------------
(* Waking up.                                                              *)

\* The first thread stays to the end of the process; only the program's word is
\* owed a wake; who waits for another thread's word waits for its exit, alone.
WaitersOrdered ==
  /\ thr[Main].state # "FREE" /\ ~thr[Main].fork
  /\ \A u \in Slot : owes[u] \subseteq {Own}
  /\ \A t \in Slot : thr[t].state = "BLOCKED" /\ thr[t].addr # Own => thr[t].val = 1
  /\ \A t, u \in Slot :
       thr[t].state = "BLOCKED" /\ thr[u].state = "BLOCKED" /\ thr[t].addr = thr[u].addr /\ thr[t].addr # Own => t = u

\* A step after which no other thread sleeps than before, none of them on a word
\* that has changed unless a wake is owed, and no debt is dropped that one needs.
LEMMA FewerAsleep ==
  ASSUME WaitersOrdered, NoLostWake, ~over,
         thr'[Main].state # "FREE", ~thr'[Main].fork,
         \A u \in Slot : owes'[u] \subseteq {Own},
         \A t \in Slot : thr'[t].state = "BLOCKED" =>
           /\ thr[t].state = "BLOCKED" /\ thr'[t].addr = thr[t].addr /\ thr'[t].val = thr[t].val
           /\ \/ mem'[thr[t].addr] = mem[thr[t].addr]
              \/ mem'[thr[t].addr] = thr[t].val
              \/ \E v \in Slot : thr[t].addr \in owes'[v]
           /\ \A u \in Slot : thr[t].addr \in owes[u] => \E v \in Slot : thr[t].addr \in owes'[v]
  PROVE  WaitersOrdered' /\ NoLostWake'
<1>1. WaitersOrdered'
  BY DEF WaitersOrdered
<1>2. NoLostWake'
  BY DEF NoLostWake
<1> QED BY <1>1, <1>2

\* A thread that goes leaves nobody asleep on its word.
LEMMA LeaveWaits ==
  ASSUME LinTypeOK, WaitersOrdered, NoLostWake, User, owes[gcur] = {},
         gcur # Main \/ thr[gcur].fork,
         (mem' = mem /\ Leave(thr)) \/ (gcur # Main /\ ClearTid)
  PROVE  WaitersOrdered' /\ NoLostWake'
<1>0. /\ thr \in Table /\ gcur \in Slot /\ mem \in [Slot -> {0, 1}]
      /\ owes \in [Slot -> SUBSET Slot] /\ Main \in Slot /\ gcur # Main /\ Own = Main /\ ~over
  BY Typed, Slots DEF WaitersOrdered, Main, Own, User
<1>1. ASSUME NEW tab \in Table, Leave(tab),
             \A t \in Slot : tab[t].state = "FREE" <=> thr[t].state = "FREE",
             tab[Main] = thr[Main],
             \A t \in Slot : tab[t].state = "BLOCKED" =>
               tab[t] = thr[t] /\ mem'[tab[t].addr] = mem[tab[t].addr]
      PROVE  WaitersOrdered' /\ NoLostWake'
  <2> DEFINE left == [tab EXCEPT ![gcur] = Free]
  <2>1. thr' = left /\ owes' = [owes EXCEPT ![gcur] = {}]
    BY <1>1, LeaveFacts
  <2>2. \A t \in Slot : thr'[t] = IF t = gcur THEN Free ELSE tab[t]
    BY <1>0, <2>1 DEF Table
  <2>3. owes' = owes
    BY <1>0, <2>1
  <2>4. thr'[Main].state # "FREE" /\ ~thr'[Main].fork
    BY <1>0, <1>1, <2>2 DEF WaitersOrdered
  <2>5. \A t \in Slot : thr'[t].state = "BLOCKED" =>
          thr'[t] = thr[t] /\ mem'[thr[t].addr] = mem[thr[t].addr]
    BY <1>1, <2>2, FreeType
  <2> HIDE DEF left
  <2> QED BY <1>0, <2>3, <2>4, <2>5, FewerAsleep DEF WaitersOrdered
<1>2. CASE mem' = mem /\ Leave(thr)
  BY <1>0, <1>1, <1>2
<1>3. CASE /\ mem' = [mem EXCEPT ![gcur] = 0] /\ Leave(Wakened(thr, gcur, 1))
           /\ Wakened(thr, gcur, 1) \in Table
           /\ \A t \in Slot : Wakened(thr, gcur, 1)[t].state = "FREE" <=> thr[t].state = "FREE"
  <2> DEFINE tab == Wakened(thr, gcur, 1)
  <2>1. \A t \in Slot : \/ tab[t] = thr[t]
                        \/ thr[t].state = "BLOCKED" /\ tab[t].state = "RUNNABLE" /\ tab[t].fork = thr[t].fork
    BY <1>0, WakenedFacts DEF Asleep
  <2>2. \A t \in Slot : ~(tab[t].state = "BLOCKED" /\ tab[t].addr = gcur)
    <3>1. \A x, y \in Slot : Asleep(thr, x) /\ Asleep(thr, y) /\ thr[x].addr = gcur /\ thr[y].addr = gcur => x = y
      BY <1>0 DEF WaitersOrdered, Asleep
    <3> QED BY <1>0, <3>1, WakenedOne DEF Asleep
  <2> HIDE DEF tab
  <2>3. \A t \in Slot : tab[t].state = "BLOCKED" =>
          tab[t] = thr[t] /\ mem'[tab[t].addr] = mem[tab[t].addr]
    <3> SUFFICES ASSUME NEW t \in Slot, tab[t].state = "BLOCKED"
                 PROVE  tab[t] = thr[t] /\ mem'[tab[t].addr] = mem[tab[t].addr]
      OBVIOUS
    <3>1. tab[t] = thr[t] /\ tab[t].addr # gcur
      BY <2>1, <2>2
    <3>2. thr[t].addr \in Slot
      BY <1>0 DEF Table, ThrRec
    <3> QED BY <1>0, <1>3, <3>1, <3>2
  <2>4. thr'[Main].state # "FREE" /\ ~thr'[Main].fork
    <3>1. tab[Main].state # "FREE" /\ ~tab[Main].fork
      BY <1>0, <2>1 DEF WaitersOrdered
    <3>2. thr' = [tab EXCEPT ![gcur] = Free]
      BY <1>3, LeaveFacts DEF tab
    <3> QED BY <1>0, <1>3, <3>1, <3>2 DEF Table, tab
  <2>5. /\ owes' = owes
        /\ \A t \in Slot : thr'[t] = IF t = gcur THEN Free ELSE tab[t]
    <3>1. thr' = [tab EXCEPT ![gcur] = Free] /\ owes' = [owes EXCEPT ![gcur] = {}]
      BY <1>3, LeaveFacts DEF tab
    <3> QED BY <1>0, <1>3, <3>1 DEF Table, tab
  <2>6. \A t \in Slot : thr'[t].state = "BLOCKED" =>
          thr'[t] = thr[t] /\ mem'[thr[t].addr] = mem[thr[t].addr]
    BY <2>3, <2>5, FreeType
  <2> QED BY <1>0, <2>4, <2>5, <2>6, FewerAsleep DEF WaitersOrdered
<1> QED BY <1>2, <1>3, ClearTidFacts

\* Every step keeps a wake on its way to each sleeper whose word has changed.
LEMMA WaitStep ==
  ASSUME LinTypeOK, Spinning, WaitersOrdered, NoLostWake, [LinNext]_linVars
  PROVE  WaitersOrdered' /\ NoLostWake'
<1>0. /\ thr \in Table /\ gcur \in Slot /\ mem \in [Slot -> {0, 1}]
      /\ owes \in [Slot -> SUBSET Slot] /\ (User => thr[gcur].state = "RUNNABLE")
      /\ Main \in Slot /\ Own = Main
  BY Typed, Slots DEF Main, Own
<1>1. CASE Store
  <2>1. ~over /\ thr' = thr /\ owes' = [owes EXCEPT ![gcur] = @ \cup {Own}]
    BY <1>1 DEF Store, User
  <2>2. PICK v \in {0, 1} : mem' = [mem EXCEPT ![Own] = v]
    BY <1>1 DEF Store
  <2>3. /\ \A u \in Slot : owes'[u] \subseteq {Own} /\ owes[u] \subseteq owes'[u]
        /\ Own \in owes'[gcur]
    BY <1>0, <2>1 DEF WaitersOrdered
  <2>4. \A t \in Slot : \/ mem'[thr[t].addr] = mem[thr[t].addr]
                        \/ \E u \in Slot : thr[t].addr \in owes'[u]
    BY <1>0, <2>2, <2>3
  <2>5. thr'[Main].state # "FREE" /\ ~thr'[Main].fork
    BY <2>1 DEF WaitersOrdered
  <2> QED BY <1>0, <2>1, <2>3, <2>4, <2>5, FewerAsleep
<1>2. CASE FutexWake
  <2>1. PICK n \in {1, LinSlots} :
          (n = LinSlots \/ owes[gcur] = {}) /\ thr' = Wakened(thr, Own, n)
    BY <1>2 DEF FutexWake
  <2>2. ~over /\ mem' = mem /\ owes' = [owes EXCEPT ![gcur] = {}]
    BY <1>2 DEF FutexWake, User
  <2>3. \A t \in Slot : \/ thr'[t] = thr[t]
                        \/ thr'[t].state = "RUNNABLE" /\ thr'[t].fork = thr[t].fork
    BY <1>0, <2>1, WakenedFacts
  <2>4. thr'[Main].state # "FREE" /\ ~thr'[Main].fork
    BY <1>0, <2>3 DEF WaitersOrdered
  <2>5. \A u \in Slot : owes'[u] \subseteq {Own} /\ owes[u] \subseteq {Own}
    BY <1>0, <2>2 DEF WaitersOrdered
  <2>6. CASE owes[gcur] = {}
    <3>1. owes' = owes
      BY <1>0, <2>2, <2>6
    <3> QED BY <2>2, <2>3, <2>4, <2>5, <3>1, FewerAsleep
  <2>7. CASE n = LinSlots
    <3>1. \A t \in Slot : thr'[t].state = "BLOCKED" => thr'[t].addr # Own
      BY <1>0, <2>1, <2>7, WakenedAll DEF Asleep
    <3>2. \A t \in Slot : thr'[t].state = "BLOCKED" =>
            thr'[t] = thr[t] /\ \A u \in Slot : thr[t].addr \notin owes[u]
      BY <2>3, <2>5, <3>1
    <3> QED BY <2>2, <2>4, <2>5, <3>2, FewerAsleep
  <2> QED BY <2>1, <2>6, <2>7
<1>3. CASE FutexWait
  <2>1. PICK w \in Slot :
          /\ w = Own \/ (mem[w] = 1 /\ \A t \in Slot : thr[t].state = "BLOCKED" => thr[t].addr # w)
          /\ thr' = SleepTable(w)
    BY <1>3 DEF FutexWait, SleepTable, SwitchTo
  <2>2. ~over /\ over' = over /\ mem' = mem /\ owes' = owes
    BY <1>3 DEF FutexWait, User
  <2>3. /\ thr'[gcur].state = "BLOCKED" /\ thr'[gcur].addr = w /\ thr'[gcur].val = mem[w]
        /\ thr'[gcur].fork = thr[gcur].fork
        /\ \A t \in Slot \ {gcur} : /\ thr'[t].state = thr[t].state /\ thr'[t].addr = thr[t].addr
                                    /\ thr'[t].val = thr[t].val /\ thr'[t].fork = thr[t].fork
    BY <2>1, SleepFacts
  <2>4. WaitersOrdered'
    <3>1. thr'[Main].state # "FREE" /\ ~thr'[Main].fork
      BY <1>0, <2>3 DEF WaitersOrdered
    <3>2. \A u \in Slot : owes'[u] \subseteq {Own}
      BY <2>2 DEF WaitersOrdered
    <3>3. \A t \in Slot : thr'[t].state = "BLOCKED" /\ thr'[t].addr # Own => thr'[t].val = 1
      BY <2>1, <2>3 DEF WaitersOrdered
    <3>4. \A t, u \in Slot :
            thr'[t].state = "BLOCKED" /\ thr'[u].state = "BLOCKED"
              /\ thr'[t].addr = thr'[u].addr /\ thr'[t].addr # Own => t = u
      BY <2>1, <2>3 DEF WaitersOrdered
    <3> QED BY <3>1, <3>2, <3>3, <3>4 DEF WaitersOrdered
  <2>5. NoLostWake'
    BY <2>2, <2>3 DEF NoLostWake
  <2> QED BY <2>4, <2>5
<1>4. CASE TimedOut
  <2>1. ~over /\ mem' = mem /\ owes' = owes /\ thr' = [thr EXCEPT ![gcur].state = "RUNNABLE"]
    BY <1>4 DEF TimedOut, Spinning
  <2>2. \A t \in Slot \ {gcur} : thr'[t] = thr[t]
    BY <1>0, <2>1 DEF Table
  <2>3. thr'[gcur].state = "RUNNABLE" /\ thr'[gcur].fork = thr[gcur].fork
    <3>1. thr[gcur] \in ThrRec
      BY <1>0 DEF Table
    <3>2. thr'[gcur] = [thr[gcur] EXCEPT !.state = "RUNNABLE"]
      BY <1>0, <2>1 DEF Table
    <3> QED BY <3>1, <3>2 DEF ThrRec
  <2>4. thr'[Main].state # "FREE" /\ ~thr'[Main].fork
    BY <1>0, <2>2, <2>3 DEF WaitersOrdered
  <2>5. \A t \in Slot : thr'[t].state = "BLOCKED" => thr'[t] = thr[t]
    BY <2>2, <2>3
  <2> QED BY <2>1, <2>4, <2>5, FewerAsleep DEF WaitersOrdered
<1>5. CASE LinYield
  <2>1. ~over /\ mem' = mem /\ owes' = owes /\ thr' = Saved(thr, "yield")
    BY <1>5 DEF LinYield, User, SwitchTo
  <2>2. \A t \in Slot : /\ thr'[t].state = thr[t].state /\ thr'[t].addr = thr[t].addr
                        /\ thr'[t].val = thr[t].val /\ thr'[t].fork = thr[t].fork
    BY <1>0, <2>1, SavedFacts, "yield" \in Calls DEF Calls
  <2>3. thr'[Main].state # "FREE" /\ ~thr'[Main].fork
    BY <1>0, <2>2 DEF WaitersOrdered
  <2> QED BY <2>1, <2>2, <2>3, FewerAsleep DEF WaitersOrdered
<1>6. CASE Clone
  <2>1. PICK t \in Slot :
          /\ thr[t].state = "FREE"
          /\ thr' = [thr EXCEPT ![t] = [Free EXCEPT !.state = "RUNNABLE"]]
          /\ mem' = [mem EXCEPT ![t] = 1]
    BY <1>6 DEF Clone
  <2>2. ~over /\ owes' = owes /\ t # Main
    BY <1>6, <2>1 DEF Clone, User, WaitersOrdered
  <2> DEFINE r == [Free EXCEPT !.state = "RUNNABLE"]
  <2>3. r.state = "RUNNABLE"
    BY FreeType
  <2>4. \A u \in Slot : thr'[u] = IF u = t THEN r ELSE thr[u]
    BY <1>0, <2>1 DEF Table
  <2> HIDE DEF r
  <2>5. \A u \in Slot : thr'[u].state = "BLOCKED" =>
          /\ thr'[u] = thr[u]
          /\ mem'[thr[u].addr] = mem[thr[u].addr] \/ mem'[thr[u].addr] = thr[u].val
    <3> SUFFICES ASSUME NEW u \in Slot, thr'[u].state = "BLOCKED"
                 PROVE  /\ thr'[u] = thr[u]
                        /\ mem'[thr[u].addr] = mem[thr[u].addr] \/ mem'[thr[u].addr] = thr[u].val
      OBVIOUS
    <3>1. thr'[u] = thr[u] /\ thr[u].addr \in Slot
      BY <1>0, <2>3, <2>4 DEF Table, ThrRec
    <3>2. thr[u].addr = t => thr[u].val = 1
      BY <1>0, <2>2, <3>1 DEF WaitersOrdered
    <3> QED BY <1>0, <2>1, <3>1, <3>2
  <2>6. thr'[Main].state # "FREE" /\ ~thr'[Main].fork
    BY <1>0, <2>2, <2>4 DEF WaitersOrdered
  <2> QED BY <2>2, <2>5, <2>6, FewerAsleep DEF WaitersOrdered
<1>7. CASE LinFork
  <2>1. PICK t \in Slot :
          /\ thr[t].state = "FREE"
          /\ thr' = [Saved(thr, "fork") EXCEPT
                       ![t] = [Free EXCEPT !.state = "RUNNABLE", !.fork = TRUE]]
    BY <1>7 DEF LinFork
  <2>2. ~over /\ mem' = mem /\ owes' = owes /\ t # Main
    BY <1>7, <2>1 DEF LinFork, User, WaitersOrdered
  <2> DEFINE r == [Free EXCEPT !.state = "RUNNABLE", !.fork = TRUE]
             sv == Saved(thr, "fork")
  <2>3. r.state = "RUNNABLE"
    BY FreeType
  <2>4. sv \in Table /\ \A u \in Slot : /\ sv[u].state = thr[u].state /\ sv[u].addr = thr[u].addr
                                        /\ sv[u].val = thr[u].val /\ sv[u].fork = thr[u].fork
    BY <1>0, SavedFacts, "fork" \in Calls DEF Calls
  <2> HIDE DEF sv
  <2>5. \A u \in Slot : thr'[u] = IF u = t THEN r ELSE sv[u]
    BY <2>1, <2>4 DEF Table, sv
  <2> HIDE DEF r
  <2>6. thr'[Main].state # "FREE" /\ ~thr'[Main].fork
    BY <1>0, <2>2, <2>4, <2>5 DEF WaitersOrdered
  <2>7. \A u \in Slot : thr'[u].state = "BLOCKED" =>
          /\ thr[u].state = "BLOCKED" /\ thr'[u].addr = thr[u].addr /\ thr'[u].val = thr[u].val
    BY <2>3, <2>4, <2>5
  <2> QED BY <2>2, <2>6, <2>7, FewerAsleep DEF WaitersOrdered
<1>8. CASE EndProcess
  BY <1>8 DEF EndProcess, WaitersOrdered, NoLostWake
<1>9. CASE LinExit \/ LinFault
  <2>1. /\ User /\ owes[gcur] = {}
        /\ \/ EndProcess
           \/ gcur # Main /\ ClearTid
           \/ thr[gcur].fork /\ mem' = mem /\ Leave(thr)
    BY <1>9 DEF LinExit, LinFault
  <2> QED BY <1>8, <2>1, LeaveWaits
<1>10. CASE NewProgram
  <2>1. /\ thr' = [t \in Slot |-> IF t = Main THEN [Free EXCEPT !.state = "RUNNABLE"] ELSE Free]
        /\ owes' = [t \in Slot |-> {}]
    BY <1>10 DEF NewProgram
  <2>2. thr'[Main].state = "RUNNABLE" /\ ~thr'[Main].fork /\ \A t \in Slot : thr'[t].state # "BLOCKED"
    BY <2>1, FirstTable DEF Asleep
  <2> QED BY <2>1, <2>2 DEF WaitersOrdered, NoLostWake
<1>11. CASE UNCHANGED linVars
  BY <1>11 DEF linVars, WaitersOrdered, NoLostWake
<1> QED BY <1>1, <1>2, <1>3, <1>4, <1>5, <1>6, <1>7, <1>9, <1>10, <1>11 DEF LinNext

\* No wake-up is lost, for any number of threads, clones, forks, exits and faults.
THEOREM NoWakeIsLost == LinSpec => []NoLostWake
<1>1. LinInit => WaitersOrdered /\ NoLostWake
  <2> SUFFICES ASSUME LinInit PROVE WaitersOrdered /\ NoLostWake
    OBVIOUS
  <2>1. thr[Main].state = "RUNNABLE" /\ ~thr[Main].fork /\ \A t \in Slot : thr[t].state # "BLOCKED"
    BY FirstTable DEF LinInit, Asleep
  <2> QED BY <2>1 DEF LinInit, WaitersOrdered, NoLostWake
<1>2. LinTypeOK /\ Spinning /\ WaitersOrdered /\ NoLostWake /\ [LinNext]_linVars
        => (WaitersOrdered /\ NoLostWake)'
  BY WaitStep
<1> QED BY <1>1, <1>2, LinTypeCorrect, PTL DEF LinSpec

-----------------------------------------------------------------------------
(* AF_UNIX links.                                                          *)

HIDE LinAssumption

LinkRec == [used : BOOLEAN, peer : {NoPeer} \cup Link, refs : 0 .. RefMax + Fds]

\* A link that is not in use is blank.
UnusedBlank == \A l \in Link : ~links[l].used => links[l] = FreeLink

\* The descriptors, of whatever process, that refer to a link.
Holders(l) == {h \in used \X Fd : TableOf(h[1])[h[2]] = l}

\* The constants are positive numbers.
LEMMA Counts ==
  /\ Links \in Nat /\ Fds \in Nat /\ Procs \in Nat /\ Queue \in Nat /\ RefMax \in Nat
  /\ Links > 0 /\ Fds > 0 /\ Procs > 0 /\ Queue > 0 /\ RefMax > 0
<1>1. \A x \in {Links, Fds, Procs, Queue, RefMax} : x \in Nat /\ x > 0
  BY SocketAssumption
<1> QED BY <1>1

USE Counts

-----------------------------------------------------------------------------
(* Searches from the first slot on.                                        *)

\* The first member of a set is one of its members.
LEMMA FirstIn ==
  ASSUME NEW A \in SUBSET Nat, A # {}
  PROVE  First(A) \in A
BY LeastNatural DEF First

\* A set of two has a first and a second.
LEMMA FirstTwo ==
  ASSUME NEW A \in SUBSET Nat, IsFiniteSet(A), Cardinality(A) >= 2
  PROVE  /\ First(A) \in A
         /\ First(A \ {First(A)}) \in A
         /\ First(A \ {First(A)}) # First(A)
<1>1. A # {}
  BY FS_EmptySet
<1>2. First(A) \in A
  BY <1>1, FirstIn
<1>3. Cardinality(A \ {First(A)}) = Cardinality(A) - 1 /\ IsFiniteSet(A \ {First(A)})
  BY <1>2, FS_RemoveElement
<1>4. Cardinality(A) \in Nat
  BY FS_CardinalityType
<1>5. A \ {First(A)} # {}
  BY <1>3, <1>4, FS_EmptySet
<1>6. First(A \ {First(A)}) \in A \ {First(A)}
  BY <1>5, FirstIn
<1> QED BY <1>2, <1>6

\* Sets of links and of descriptors are finite.
LEMMA Finite ==
  /\ IsFiniteSet(Link) /\ IsFiniteSet(Fd) /\ IsFiniteSet(Proc)
  /\ Link \in SUBSET Nat /\ Fd \in SUBSET Nat /\ Proc \in SUBSET Nat
  /\ Cardinality(Fd) = Fds
<1>1. Links \in Nat /\ Fds \in Nat /\ Procs \in Nat
  BY Counts
<1>2. IsFiniteSet(1 .. Links) /\ IsFiniteSet(1 .. Fds) /\ IsFiniteSet(0 .. Procs - 1)
  BY <1>1, FS_Interval
<1>3. Cardinality(1 .. Fds) = Fds
  BY <1>1, FS_Interval
<1> QED BY <1>1, <1>2, <1>3 DEF Link, Fd, Proc

\* So is every subset of theirs.
LEMMA FiniteParts ==
  /\ IsFiniteSet(Unused) /\ Unused \in SUBSET Link
  /\ IsFiniteSet(FreeFd) /\ FreeFd \in SUBSET Fd
BY Finite, FS_Subset DEF Unused, FreeFd

-----------------------------------------------------------------------------
(* Types.                                                                  *)

\* link_alloc leaves a table of links.
LEMMA AllocatedType ==
  ASSUME NEW tab \in [Link -> LinkRec], NEW l \in Link,
         NEW p \in {NoPeer} \cup Link, NEW n \in 0 .. 1
  PROVE  Allocated(tab, l, p, n) \in [Link -> LinkRec]
<1>1. [used |-> TRUE, peer |-> p, refs |-> n] \in LinkRec
  BY DEF LinkRec
<1> QED BY <1>1 DEF Allocated

\* lin_unix_close leaves a table of links.
LEMMA ClosedType ==
  ASSUME NEW tab \in [Link -> LinkRec], NEW l \in Link
  PROVE  CloseSocket(tab, l) \in [Link -> LinkRec]
<1>1. Severed(tab, l) \in [Link -> LinkRec]
  BY DEF Severed, LinkRec, NoPeer
<1>2. FreeLink \in LinkRec
  BY DEF FreeLink, LinkRec, NoPeer
<1>3. Unref(Severed(tab, l), l) \in [Link -> LinkRec]
  <2> DEFINE s == Severed(tab, l)
  <2>1. s[l].refs > 1 => s[l].refs - 1 \in 0 .. RefMax + Fds
    BY <1>1 DEF LinkRec
  <2> HIDE DEF s
  <2>2. s[l].refs > 1 => [s[l] EXCEPT !.refs = @ - 1] \in LinkRec
    BY <1>1, <2>1 DEF LinkRec, s
  <2>3. Unref(s, l) \in [Link -> LinkRec]
    BY <1>1, <1>2, <2>2 DEF Unref, LinkRec, s
  <2> QED BY <2>3 DEF s
<1> QED BY <1>3 DEF CloseSocket

\* A copy of descriptors is counted at most once for each of them.
LEMMA BumpedType ==
  ASSUME links \in [Link -> LinkRec], \A l \in Link : links[l].refs < RefMax,
         NEW tab \in [Fd -> {NoSock} \cup Link]
  PROVE  Bumped(tab) \in [Link -> LinkRec]
<1> SUFFICES ASSUME NEW l \in Link PROVE Bumped(tab)[l] \in LinkRec
  BY DEF Bumped
<1> DEFINE c == Cardinality({f \in Fd : tab[f] = l})
<1>1. c \in 0 .. Fds
  BY Finite, FS_Subset, FS_CardinalityType
<1>2. Bumped(tab)[l] = IF links[l].used THEN [links[l] EXCEPT !.refs = @ + c] ELSE links[l]
  BY DEF Bumped
<1> HIDE DEF c
<1> QED BY <1>1, <1>2 DEF LinkRec

\* Every step keeps the types.
LEMMA SockStepType ==
  ASSUME SockTypeOK, [SockNext]_sockVars
  PROVE  SockTypeOK'
<1>0. /\ links \in [Link -> LinkRec]
      /\ queue \in Seq(Link) /\ Len(queue) <= Queue
      /\ fds \in [Fd -> {NoSock} \cup Link] /\ snap \in [Proc -> [Fd -> {NoSock} \cup Link]]
      /\ used \subseteq Proc /\ self \in used /\ served \in BOOLEAN
  BY DEF SockTypeOK, LinkRec
<1>a. SUFFICES /\ links' \in [Link -> LinkRec]
               /\ queue' \in Seq(Link) /\ Len(queue') <= Queue
               /\ fds' \in [Fd -> {NoSock} \cup Link] /\ snap' \in [Proc -> [Fd -> {NoSock} \cup Link]]
               /\ used' \subseteq Proc /\ self' \in used' /\ served' \in BOOLEAN
  BY DEF SockTypeOK, LinkRec
<1>b. \A tables \in [Proc -> [Fd -> {NoSock} \cup Link]], t \in Proc :
        Restored(tables, t) =>
          /\ self' = t /\ fds' \in [Fd -> {NoSock} \cup Link]
          /\ snap' \in [Proc -> [Fd -> {NoSock} \cup Link]]
  BY DEF Restored, Closed
<1>1. CASE SocketPair
  <2> DEFINE a == First(Unused)
             b == First(Unused \ {a})
             f == First(FreeFd)
             g == First(FreeFd \ {f})
  <2>1. a \in Link /\ b \in Link
    BY <1>1, FiniteParts, Finite, FirstTwo DEF SocketPair
  <2>2. /\ links' = Allocated(Allocated(links, a, b, 1), b, a, 1)
        /\ fds' = IF Cardinality(FreeFd) < 2 THEN fds ELSE [fds EXCEPT ![f] = a, ![g] = b]
        /\ UNCHANGED <<queue, snap, used, self, served>>
    BY <1>1 DEF SocketPair
  <2> HIDE DEF a, b, f, g
  <2>3. fds' \in [Fd -> {NoSock} \cup Link]
    BY <1>0, <2>1, <2>2
  <2>4. links' \in [Link -> LinkRec]
    BY <1>0, <2>1, <2>2, AllocatedType, 1 \in 0 .. 1
  <2> QED BY <1>0, <2>2, <2>3, <2>4
<1>2. CASE ConnectTo
  <2> DEFINE l == First(Unused)
  <2>1. l \in Link
    BY <1>2, FiniteParts, Finite, FirstIn DEF ConnectTo
  <2>2. /\ links' = Allocated(links, l, NoPeer, 0)
        /\ fds' = [fds EXCEPT ![First(FreeFd)] = l]
        /\ queue' = IF Len(queue) < Queue THEN Append(queue, l) ELSE queue
        /\ served' = TRUE /\ UNCHANGED <<snap, used, self>>
    BY <1>2 DEF ConnectTo
  <2> HIDE DEF l
  <2>3. links' \in [Link -> LinkRec]
    BY <1>0, <2>1, <2>2, AllocatedType, 0 \in 0 .. 1 DEF NoPeer
  <2>4. queue' \in Seq(Link) /\ Len(queue') <= Queue
    BY <1>0, <2>1, <2>2
  <2> QED BY <1>0, <2>1, <2>2, <2>3, <2>4
<1>3. CASE Accept
  <2>1. queue # <<>> /\ queue' = Tail(queue) /\ Head(queue) \in Link
    BY <1>0, <1>3 DEF Accept
  <2>2. queue' \in Seq(Link) /\ Len(queue') <= Queue
    BY <1>0, <2>1
  <2>3. fds' \in [Fd -> {NoSock} \cup Link]
    BY <1>0, <1>3, <2>1 DEF Accept
  <2> QED BY <1>0, <1>3, <2>2, <2>3 DEF Accept
<1>4. CASE CloseFd
  BY <1>0, <1>4, ClosedType DEF CloseFd
<1>5. CASE Switch
  <2>1. [snap EXCEPT ![self] = fds] \in [Proc -> [Fd -> {NoSock} \cup Link]]
    BY <1>0
  <2> QED BY <1>0, <1>b, <1>5, <2>1 DEF Switch
<1>6. CASE Fork
  <2> DEFINE t == First(Proc \ used)
  <2>0. Proc \ used # {} /\ Proc \ used \in SUBSET Nat
    BY <1>0, <1>6, Finite DEF Fork
  <2>1. t \in Proc
    BY <2>0, FirstIn
  <2>2. links' \in [Link -> LinkRec]
    BY <1>0, <1>6, BumpedType DEF Fork
  <2>3. [snap EXCEPT ![self] = fds, ![t] = fds] \in [Proc -> [Fd -> {NoSock} \cup Link]]
    BY <1>0
  <2>4. /\ used' = used \cup {t} /\ UNCHANGED <<queue, served>>
        /\ \E u \in used' \ {self} : Restored([snap EXCEPT ![self] = fds, ![t] = fds], u)
    BY <1>6 DEF Fork
  <2> HIDE DEF t
  <2> QED BY <1>0, <1>b, <2>1, <2>2, <2>3, <2>4
<1>7. CASE Leaves
  BY <1>0, <1>b, <1>7 DEF Leaves
<1>8. CASE UNCHANGED sockVars
  BY <1>0, <1>8 DEF sockVars
<1> QED BY <1>1, <1>2, <1>3, <1>4, <1>5, <1>6, <1>7, <1>8 DEF SockNext

\* Type correctness of links and descriptor tables.
THEOREM SockTypeCorrect == SockSpec => []SockTypeOK
<1>1. SockInit => SockTypeOK
  <2> SUFFICES ASSUME SockInit PROVE SockTypeOK
    OBVIOUS
  <2>1. FreeLink \in LinkRec
    BY DEF FreeLink, LinkRec
  <2>2. 0 \in Proc
    BY DEF Proc
  <2>3. queue \in Seq(Link) /\ Len(queue) <= Queue
    BY DEF SockInit
  <2> QED BY <2>1, <2>2, <2>3 DEF SockInit, SockTypeOK, LinkRec, Closed
<1>2. SockTypeOK /\ [SockNext]_sockVars => SockTypeOK'
  BY SockStepType
<1> QED BY <1>1, <1>2, PTL DEF SockSpec

-----------------------------------------------------------------------------
(* Peers.                                                                  *)

\* Nobody's link is blank while somebody refers to it as its peer.
PeerInv == UnusedBlank /\ PeersMutual

\* Closing a socket keeps the peers in pairs.
LEMMA ClosedPeers ==
  ASSUME SockTypeOK, PeerInv, NEW l \in Link, links' = CloseSocket(links, l)
  PROVE  PeerInv'
<1>0. links \in [Link -> LinkRec]
  BY DEF SockTypeOK, LinkRec
<1> DEFINE s == Severed(links, l)
<1>1. CASE ~links[l].used
  BY <1>1 DEF CloseSocket, PeerInv, UnusedBlank, PeersMutual
<1>2. CASE links[l].used
  <2>1. links' = Unref(s, l)
    BY <1>2 DEF CloseSocket
  <2>2. /\ s \in [Link -> LinkRec] /\ s[l].peer = NoPeer
        /\ \A k \in Link : s[k].used = links[k].used /\ s[k].refs = links[k].refs
        /\ \A k \in Link : s[k].peer = IF links[k].peer = l \/ k = l THEN NoPeer ELSE links[k].peer
    <3>1. CASE links[l].peer = NoPeer
      <4>1. s = links
        BY <3>1 DEF Severed
      <4>2. \A k \in Link : links[k].peer # l
        BY <1>0, <3>1 DEF PeerInv, PeersMutual, UnusedBlank, FreeLink, LinkRec, NoPeer, Link
      <4> QED BY <1>0, <3>1, <4>1, <4>2
    <3>2. CASE links[l].peer # NoPeer
      <4> DEFINE p == links[l].peer
      <4>1. p \in Link /\ p # l /\ links[p].used /\ links[p].peer = l
        BY <1>0, <1>2, <3>2 DEF PeerInv, PeersMutual, LinkRec
      <4>2. s = [links EXCEPT ![p].peer = NoPeer, ![l].peer = NoPeer]
        BY <3>2 DEF Severed
      <4>3. \A k \in Link : links[k].peer = l => k = p
        BY <1>0, <1>2, <3>2 DEF PeerInv, PeersMutual, UnusedBlank, FreeLink, LinkRec, NoPeer, Link
      <4> HIDE DEF p, s
      <4>4. s \in [Link -> LinkRec]
        BY <1>0, <4>1, <4>2 DEF LinkRec
      <4> QED BY <1>0, <4>1, <4>2, <4>3, <4>4 DEF LinkRec
    <3> QED BY <3>1, <3>2
  <2> HIDE DEF s
  <2>3. \A k \in Link : links'[k] = IF k # l THEN s[k]
                                    ELSE IF s[l].refs > 1 THEN [s[l] EXCEPT !.refs = @ - 1]
                                    ELSE FreeLink
    BY <2>1, <2>2 DEF Unref
  <2>4. links'[l].peer = NoPeer /\ (~links'[l].used => links'[l] = FreeLink)
    <3>1. s[l] \in LinkRec /\ s[l].used /\ s[l].peer = NoPeer
      BY <1>2, <2>2
    <3>2. CASE s[l].refs > 1
      <4>1. links'[l] = [s[l] EXCEPT !.refs = @ - 1]
        BY <2>3, <3>2
      <4>2. links'[l].used /\ links'[l].peer = NoPeer
        BY <3>1, <4>1 DEF LinkRec
      <4> QED BY <4>2
    <3>3. CASE ~(s[l].refs > 1)
      <4>1. links'[l] = FreeLink
        BY <2>3, <3>3
      <4> QED BY <4>1 DEF FreeLink
    <3> QED BY <3>2, <3>3
  <2>5. \A k \in Link \ {l} : ~links'[k].used => links'[k] = FreeLink
    <3> SUFFICES ASSUME NEW k \in Link, k # l, ~links'[k].used PROVE links'[k] = FreeLink
      OBVIOUS
    <3>1. links[k] = FreeLink
      BY <2>2, <2>3 DEF PeerInv, UnusedBlank
    <3>2. s[k].used = FALSE /\ s[k].peer = NoPeer /\ s[k].refs = 0
      BY <2>2, <3>1 DEF FreeLink
    <3>3. s[k] \in LinkRec
      BY <2>2
    <3>4. s[k] = FreeLink
      BY <3>2, <3>3 DEF FreeLink, LinkRec
    <3> QED BY <2>3, <3>4
  <2>6. PeersMutual'
    <3> SUFFICES ASSUME NEW k \in Link, links'[k].used, links'[k].peer # NoPeer
                 PROVE  LET p == links'[links'[k].peer]
                        IN  p.used /\ p.peer = k /\ links'[k].peer # k
      BY DEF PeersMutual
    <3>1. k # l
      BY <2>4
    <3>2. links'[k] = s[k] /\ links[k].used /\ s[k].peer = links[k].peer /\ links[k].peer # l
      BY <2>2, <2>3, <3>1
    <3> DEFINE q == links[k].peer
    <3>3. q \in Link /\ links[q].used /\ links[q].peer = k /\ q # k
      BY <1>0, <3>2 DEF PeerInv, PeersMutual, LinkRec
    <3>4. links'[q] = s[q] /\ s[q].used /\ s[q].peer = k
      BY <2>2, <2>3, <3>1, <3>2, <3>3
    <3> QED BY <3>2, <3>3, <3>4
  <2> QED BY <2>4, <2>5, <2>6 DEF PeerInv, UnusedBlank
<1> QED BY <1>1, <1>2

\* Every step keeps them in pairs.
LEMMA PeerStep ==
  ASSUME SockTypeOK, PeerInv, [SockNext]_sockVars
  PROVE  PeerInv'
<1>0. links \in [Link -> LinkRec]
  BY DEF SockTypeOK, LinkRec
<1>1. CASE SocketPair
  <2> DEFINE a == First(Unused)
             b == First(Unused \ {a})
  <2>1. a \in Unused /\ b \in Unused /\ a # b
    BY <1>1, FiniteParts, Finite, FirstTwo DEF SocketPair
  <2>2. links' = Allocated(Allocated(links, a, b, 1), b, a, 1)
    BY <1>1 DEF SocketPair
  <2> HIDE DEF a, b
  <2>3. \A k \in Link : links'[k] = IF k = a THEN [used |-> TRUE, peer |-> b, refs |-> 1]
                                    ELSE IF k = b THEN [used |-> TRUE, peer |-> a, refs |-> 1]
                                    ELSE links[k]
    BY <1>0, <2>1, <2>2 DEF Allocated, Unused
  <2>4. \A k \in Link : links[k].used /\ links[k].peer # NoPeer => links[k].peer \notin {a, b}
    BY <1>0, <2>1 DEF Unused, PeerInv, PeersMutual
  <2>5. PeersMutual'
    <3> SUFFICES ASSUME NEW k \in Link, links'[k].used, links'[k].peer # NoPeer
                 PROVE  LET p == links'[links'[k].peer]
                        IN  p.used /\ p.peer = k /\ links'[k].peer # k
      BY DEF PeersMutual
    <3>1. CASE k \in {a, b}
      BY <2>1, <2>3, <3>1 DEF Unused
    <3>2. CASE k \notin {a, b}
      <4>1. links'[k] = links[k] /\ links[k].peer \in Link
        BY <1>0, <2>3, <3>2 DEF LinkRec
      <4> QED BY <2>3, <2>4, <4>1 DEF PeerInv, PeersMutual
    <3> QED BY <3>1, <3>2
  <2> QED BY <2>3, <2>5 DEF PeerInv, UnusedBlank
<1>2. CASE ConnectTo
  <2> DEFINE a == First(Unused)
  <2>1. a \in Unused
    BY <1>2, FiniteParts, Finite, FirstIn DEF ConnectTo
  <2>2. links' = Allocated(links, a, NoPeer, 0)
    BY <1>2 DEF ConnectTo
  <2> HIDE DEF a
  <2>3. \A k \in Link : links'[k] = IF k = a THEN [used |-> TRUE, peer |-> NoPeer, refs |-> 0]
                                    ELSE links[k]
    BY <1>0, <2>1, <2>2 DEF Allocated, Unused
  <2>4. \A k \in Link : links[k].used /\ links[k].peer # NoPeer => links[k].peer # a
    BY <1>0, <2>1 DEF Unused, PeerInv, PeersMutual
  <2>5. PeersMutual'
    BY <1>0, <2>3, <2>4 DEF PeerInv, PeersMutual, LinkRec
  <2> QED BY <2>3, <2>5 DEF PeerInv, UnusedBlank
<1>3. CASE CloseFd
  <2>1. PICK f \in Fd : fds[f] # NoSock /\ links' = CloseSocket(links, fds[f])
    BY <1>3 DEF CloseFd
  <2>2. fds[f] \in Link
    BY <2>1 DEF SockTypeOK
  <2> QED BY <2>1, <2>2, ClosedPeers
<1>4. CASE Fork
  <2>1. \A k \in Link : links'[k] = IF links[k].used
                                    THEN [links[k] EXCEPT !.refs = @ + Cardinality({f \in Fd : fds[f] = k})]
                                    ELSE links[k]
    BY <1>4 DEF Fork, Bumped
  <2>2. \A k \in Link : links'[k].used = links[k].used /\ links'[k].peer = links[k].peer
    BY <1>0, <2>1 DEF LinkRec
  <2>3. \A k \in Link : links[k].used /\ links[k].peer # NoPeer => links[k].peer \in Link
    BY <1>0 DEF LinkRec
  <2>4. PeersMutual'
    BY <2>2, <2>3 DEF PeerInv, PeersMutual
  <2> QED BY <2>1, <2>2, <2>4 DEF PeerInv, UnusedBlank
<1>5. CASE links' = links
  BY <1>5 DEF PeerInv, UnusedBlank, PeersMutual
<1>6. Accept \/ Switch \/ Leaves \/ UNCHANGED sockVars => links' = links
  BY DEF Accept, Switch, Leaves, sockVars
<1> QED BY <1>1, <1>2, <1>3, <1>4, <1>5, <1>6 DEF SockNext

\* Peers come in pairs for any number of links, descriptors, processes and forks.
THEOREM PeersStayMutual == SockSpec => []PeersMutual
<1>1. SockInit => PeerInv
  BY DEF SockInit, PeerInv, UnusedBlank, PeersMutual, FreeLink
<1>2. SockTypeOK /\ PeerInv /\ [SockNext]_sockVars => PeerInv'
  BY PeerStep
<1>3. PeerInv => PeersMutual
  BY DEF PeerInv
<1> QED BY <1>1, <1>2, <1>3, SockTypeCorrect, PTL DEF SockSpec

-----------------------------------------------------------------------------
(* References.                                                             *)

\* In a program that has not called connect, no link is shared by an accept, and
\* every link counts the descriptors that refer to it.
RefInv ==
  ~served => queue = <<>> /\ \A l \in Link : Cardinality(Holders(l)) <= links[l].refs

\* The holders of a link are finitely many.
LEMMA HoldersFinite ==
  ASSUME SockTypeOK, NEW l
  PROVE  IsFiniteSet(Holders(l)) /\ Cardinality(Holders(l)) \in Nat
<1>1. IsFiniteSet(Proc \X Fd)
  BY Finite, FS_Product
<1>2. Holders(l) \in SUBSET (Proc \X Fd)
  BY DEF Holders, SockTypeOK
<1>3. IsFiniteSet(Holders(l))
  BY <1>1, <1>2, FS_Subset
<1> QED BY <1>3, FS_CardinalityType

\* Fewer holders are counted as fewer.
LEMMA FewerHolders ==
  ASSUME SockTypeOK, NEW l, NEW A \in SUBSET Holders(l)
  PROVE  IsFiniteSet(A) /\ Cardinality(A) <= Cardinality(Holders(l))
BY HoldersFinite, FS_Subset

\* A link that is not counted has no holder, and one that is held is in use.
LEMMA HeldIsUsed ==
  ASSUME SockTypeOK, UnusedBlank, RefInv, ~served, NEW l \in Link, Holders(l) # {}
  PROVE  links[l].used /\ links[l].refs >= 1
<1>1. Cardinality(Holders(l)) \in Nat /\ Cardinality(Holders(l)) # 0
  BY HoldersFinite, FS_EmptySet
<1>2. Cardinality(Holders(l)) <= links[l].refs /\ links[l].refs \in Nat
  BY DEF RefInv, SockTypeOK
<1>3. links[l].refs >= 1
  BY <1>1, <1>2
<1> QED BY <1>3 DEF UnusedBlank, FreeLink

\* The tables of descriptors are the same, thread by thread, after a switch.
LEMMA SwitchKeepsTables ==
  ASSUME SockTypeOK, NEW tables \in [Proc -> [Fd -> {NoSock} \cup Link]],
         NEW t \in Proc, Restored(tables, t)
  PROVE  \A x \in Proc : TableOf(x)' = tables[x]
BY DEF Restored, TableOf

\* A close takes one holder and one count.
LEMMA CloseKeepsRefs ==
  ASSUME SockTypeOK, PeerInv, RefInv, ~served, CloseFd
  PROVE  RefInv'
<1>0. links \in [Link -> LinkRec] /\ UNCHANGED <<queue, snap, used, self, served>>
  BY DEF SockTypeOK, LinkRec, CloseFd
<1>1. PICK f \in Fd : /\ fds[f] # NoSock
                      /\ links' = CloseSocket(links, fds[f])
                      /\ fds' = [fds EXCEPT ![f] = NoSock]
  BY DEF CloseFd
<1> DEFINE l == fds[f]
           h == <<self, f>>
<1>2. l \in Link /\ h \in Holders(l)
  BY <1>1 DEF SockTypeOK, Holders, TableOf
<1>3. links[l].used /\ links[l].refs >= 1
  BY <1>2, HeldIsUsed DEF PeerInv
<1>4. \A k \in Link : Holders(k)' = IF k = l THEN Holders(k) \ {h} ELSE Holders(k)
  <2> SUFFICES ASSUME NEW k \in Link
               PROVE  Holders(k)' = IF k = l THEN Holders(k) \ {h} ELSE Holders(k)
    OBVIOUS
  <2>1. \A x \in used, y \in Fd :
          TableOf(x)'[y] = IF x = self /\ y = f THEN NoSock ELSE TableOf(x)[y]
    BY <1>0, <1>1 DEF SockTypeOK, TableOf
  <2>2. \A g \in used \X Fd : g \in Holders(k)' <=> g \in Holders(k) /\ g # h
    BY <1>0, <1>2, <2>1 DEF Holders, NoSock, Link, TableOf
  <2>3. k # l => h \notin Holders(k)
    BY <1>2 DEF Holders, TableOf
  <2> QED BY <1>0, <2>2, <2>3 DEF Holders
<1>5. \A k \in Link : links'[k].refs = IF k # l THEN links[k].refs
                                       ELSE IF links[l].refs > 1 THEN links[l].refs - 1 ELSE 0
  <2> DEFINE s == Severed(links, l)
  <2>1. s \in [Link -> LinkRec] /\ \A k \in Link : s[k].refs = links[k].refs
    BY <1>0, <1>2 DEF Severed, LinkRec
  <2>2. links' = Unref(s, l)
    BY <1>1, <1>3 DEF CloseSocket
  <2> HIDE DEF s, l
  <2>3. \A k \in Link : links'[k] = IF k # l THEN s[k]
                                    ELSE IF s[l].refs > 1 THEN [s[l] EXCEPT !.refs = @ - 1]
                                    ELSE FreeLink
    BY <1>2, <2>1, <2>2 DEF Unref
  <2>4. s[l].refs > 1 => links'[l].refs = links[l].refs - 1
    BY <1>2, <2>1, <2>3 DEF LinkRec
  <2>5. ~(s[l].refs > 1) => links'[l].refs = 0
    <3>1. ~(s[l].refs > 1) => links'[l] = FreeLink
      BY <1>2, <2>3
    <3> QED BY <3>1 DEF FreeLink
  <2> QED BY <1>2, <2>1, <2>3, <2>4, <2>5
<1>6. Cardinality(Holders(l) \ {h}) = Cardinality(Holders(l)) - 1
  BY <1>2, HoldersFinite, FS_RemoveElement
<1>7. Cardinality(Holders(l)) <= links[l].refs /\ links[l].refs \in Nat
  BY <1>0, <1>2 DEF RefInv, LinkRec
<1>8. ASSUME NEW k \in Link
      PROVE  Cardinality(Holders(k)') <= links'[k].refs
  <2> HIDE DEF l, h
  <2>1. CASE k = l
    <3>1. Cardinality(Holders(k)') = Cardinality(Holders(l)) - 1
      BY <1>4, <1>6, <2>1
    <3> QED BY <1>5, <1>7, <2>1, <3>1, <1>2, HoldersFinite
  <2>2. CASE k # l
    BY <1>4, <1>5, <2>2 DEF RefInv
  <2> QED BY <2>1, <2>2
<1> QED BY <1>0, <1>8 DEF RefInv

\* A new pair has a count and a holder for each of its links, if any.
LEMMA PairKeepsRefs ==
  ASSUME SockTypeOK, PeerInv, RefInv, ~served, SocketPair
  PROVE  RefInv'
<1>0. links \in [Link -> LinkRec] /\ UNCHANGED <<queue, snap, used, self, served>>
  BY DEF SockTypeOK, LinkRec, SocketPair
<1> DEFINE a == First(Unused)
           b == First(Unused \ {a})
           f == First(FreeFd)
           g == First(FreeFd \ {f})
<1>1. a \in Unused /\ b \in Unused /\ a # b
  BY FiniteParts, Finite, FirstTwo DEF SocketPair
<1>2. /\ links' = Allocated(Allocated(links, a, b, 1), b, a, 1)
      /\ fds' = IF Cardinality(FreeFd) < 2 THEN fds ELSE [fds EXCEPT ![f] = a, ![g] = b]
  BY DEF SocketPair
<1>3. ~(Cardinality(FreeFd) < 2) => f \in FreeFd /\ g \in FreeFd /\ f # g
  <2>1. Cardinality(FreeFd) \in Nat
    BY FiniteParts, FS_CardinalityType
  <2> QED BY <2>1, FiniteParts, Finite, FirstTwo
<1> HIDE DEF a, b, f, g
<1>4. \A k \in Link : links'[k] = IF k = a THEN [used |-> TRUE, peer |-> b, refs |-> 1]
                                  ELSE IF k = b THEN [used |-> TRUE, peer |-> a, refs |-> 1]
                                  ELSE links[k]
  BY <1>0, <1>1, <1>2 DEF Allocated, Unused
<1>5. Holders(a) = {} /\ Holders(b) = {}
  BY <1>1, HeldIsUsed DEF Unused, PeerInv
<1>6. \A x \in used, y \in Fd :
        \/ TableOf(x)'[y] = TableOf(x)[y]
        \/ x = self /\ y = f /\ TableOf(x)'[y] = a
        \/ x = self /\ y = g /\ TableOf(x)'[y] = b
  <2>1. self' = self /\ snap' = snap
    BY <1>0
  <2>2. \A y \in Fd : fds'[y] = fds[y] \/ (y = f /\ fds'[y] = a) \/ (y = g /\ fds'[y] = b)
    BY <1>2, <1>3 DEF SockTypeOK, FreeFd
  <2> QED BY <2>1, <2>2 DEF TableOf
<1>7. ASSUME NEW k \in Link
      PROVE  Cardinality(Holders(k)') <= links'[k].refs
  <2>1. CASE k \in {a, b}
    <3> DEFINE h == <<self, IF k = a THEN f ELSE g>>
    <3>1. Holders(k)' \in SUBSET {h}
      BY <1>0, <1>1, <1>5, <1>6, <2>1 DEF Holders
    <3>2. IsFiniteSet({h}) /\ Cardinality({h}) = 1
      BY FS_Singleton
    <3>3. Cardinality(Holders(k)') <= 1
      BY <3>1, <3>2, FS_Subset
    <3>4. links'[k].refs = 1
      BY <1>4, <2>1
    <3> QED BY <3>3, <3>4
  <2>2. CASE k \notin {a, b}
    <3>1. Holders(k)' \in SUBSET Holders(k)
      BY <1>0, <1>6, <2>2 DEF Holders
    <3>2. Cardinality(Holders(k)') <= Cardinality(Holders(k))
      BY <3>1, FewerHolders
    <3>3. Cardinality(Holders(k)') \in Nat /\ Cardinality(Holders(k)) \in Nat
      BY <3>1, FewerHolders, HoldersFinite, FS_CardinalityType
    <3>4. links'[k] = links[k] /\ links[k].refs \in Nat
      BY <1>0, <1>4, <2>2 DEF LinkRec
    <3> QED BY <3>2, <3>3, <3>4 DEF RefInv
  <2> QED BY <2>1, <2>2
<1> QED BY <1>0, <1>7 DEF RefInv

\* A fork gives a link a holder for each descriptor of the parent's that refers to
\* it, and counts them.
LEMMA ForkKeepsRefs ==
  ASSUME SockTypeOK, PeerInv, RefInv, ~served, Fork
  PROVE  RefInv'
<1> DEFINE t == First(Proc \ used)
           tables == [snap EXCEPT ![self] = fds, ![t] = fds]
           Same(k) == {f \in Fd : fds[f] = k}
           New(k) == {h \in {t} \X Fd : fds[h[2]] = k}
<1>0. /\ links \in [Link -> LinkRec] /\ UNCHANGED <<queue, served>>
      /\ links' = Bumped(fds) /\ used' = used \cup {t}
      /\ fds \in [Fd -> {NoSock} \cup Link] /\ self \in used /\ used \subseteq Proc
  BY DEF SockTypeOK, LinkRec, Fork
<1>1. t \in Proc \ used
  <2>1. Proc \ used # {} /\ Proc \ used \in SUBSET Nat
    BY <1>0, Finite DEF Fork
  <2>2. First(Proc \ used) \in Proc \ used
    BY <2>1, FirstIn
  <2> QED BY <2>2
<1>2. PICK u \in used' \ {self} : Restored(tables, u)
  BY DEF Fork
<1> HIDE DEF t
<1>3. tables \in [Proc -> [Fd -> {NoSock} \cup Link]]
  BY <1>0 DEF SockTypeOK
<1>4. u \in Proc
  BY <1>0, <1>1, <1>2
<1>5. \A x \in used' : TableOf(x)' = IF x = t THEN fds ELSE TableOf(x)
  <2>1. \A x \in Proc : TableOf(x)' = tables[x]
    BY <1>2, <1>3, <1>4, SwitchKeepsTables
  <2>2. \A x \in Proc : tables[x] = IF x = t \/ x = self THEN fds ELSE snap[x]
    BY <1>0, <1>1 DEF SockTypeOK
  <2> HIDE DEF tables
  <2> QED BY <1>0, <1>1, <2>1, <2>2 DEF TableOf
<1>6. ASSUME NEW k \in Link
      PROVE  Cardinality(Holders(k)') <= links'[k].refs
  <2>1. Holders(k)' = Holders(k) \cup New(k)
    <3>1. \A h \in used' \X Fd : h \in Holders(k)' <=> h \in Holders(k) \cup New(k)
      BY <1>0, <1>1, <1>5 DEF Holders
    <3>2. Holders(k)' \subseteq used' \X Fd /\ Holders(k) \cup New(k) \subseteq used' \X Fd
      BY <1>0 DEF Holders
    <3> QED BY <3>1, <3>2
  <2>2. IsFiniteSet(Same(k)) /\ Cardinality(Same(k)) \in Nat
    BY Finite, FS_Subset, FS_CardinalityType
  <2>3. IsFiniteSet(New(k)) /\ Cardinality(New(k)) <= Cardinality(Same(k))
    <3> DEFINE copy == [f \in Same(k) |-> <<t, f>>]
    <3>1. copy \in Surjection(Same(k), New(k))
      BY DEF Surjection
    <3> HIDE DEF copy
    <3> QED BY <2>2, <3>1, FS_Surjection
  <2>4. Cardinality(Holders(k) \cup New(k)) <= Cardinality(Holders(k)) + Cardinality(Same(k))
    <3>1. IsFiniteSet(Holders(k) \cap New(k))
      BY <2>3, FS_Subset
    <3>2. /\ Cardinality(Holders(k)) \in Nat /\ Cardinality(New(k)) \in Nat
          /\ Cardinality(Holders(k) \cap New(k)) \in Nat /\ IsFiniteSet(Holders(k))
      BY <2>3, <3>1, HoldersFinite, FS_CardinalityType
    <3>3. Cardinality(Holders(k) \cup New(k))
            = Cardinality(Holders(k)) + Cardinality(New(k)) - Cardinality(Holders(k) \cap New(k))
      BY <2>3, <3>2, FS_Union
    <3> QED BY <2>2, <2>3, <3>2, <3>3
  <2>5. CASE links[k].used
    <3>1. links'[k] = [links[k] EXCEPT !.refs = @ + Cardinality(Same(k))]
      BY <1>0, <2>5 DEF Bumped
    <3>2. links'[k].refs = links[k].refs + Cardinality(Same(k))
      BY <1>0, <3>1 DEF LinkRec
    <3>3. Cardinality(Holders(k)) <= links[k].refs /\ links[k].refs \in Nat
      BY <1>0 DEF RefInv, LinkRec
    <3>4. Cardinality(Holders(k)) \in Nat /\ Cardinality(Holders(k) \cup New(k)) \in Nat
      BY <2>3, HoldersFinite, FS_Union, FS_CardinalityType
    <3> HIDE DEF Same, New
    <3> QED BY <2>1, <2>2, <2>4, <3>2, <3>3, <3>4
  <2>6. CASE ~links[k].used
    <3>1. Holders(k) = {}
      BY <2>6, HeldIsUsed DEF PeerInv
    <3>2. Same(k) = {}
      <4>1. \A f \in Same(k) : <<self, f>> \in Holders(k)
        BY <1>0 DEF Holders, TableOf
      <4> QED BY <3>1, <4>1
    <3>3. Holders(k)' = {}
      BY <2>1, <3>1, <3>2
    <3>4. links'[k].refs = 0
      BY <1>0, <2>6 DEF Bumped, PeerInv, UnusedBlank, FreeLink
    <3>5. Cardinality(Holders(k)') = 0
      BY <3>3, FS_EmptySet
    <3> QED BY <3>4, <3>5
  <2> QED BY <2>5, <2>6
<1> QED BY <1>0, <1>6 DEF RefInv

\* A switch moves no descriptor from one thread to another, and an exit takes some away.
LEMMA SwitchKeepsRefs ==
  ASSUME SockTypeOK, RefInv, ~served, Switch \/ Leaves \/ UNCHANGED sockVars
  PROVE  RefInv'
<1>0. /\ links \in [Link -> LinkRec] /\ UNCHANGED <<links, queue, served>>
      /\ used' \subseteq used /\ self \in used /\ used \subseteq Proc
  BY DEF SockTypeOK, LinkRec, Switch, Leaves, sockVars
<1>1. \A x \in used' : TableOf(x)' = TableOf(x)
  <2>1. CASE Switch
    <3> DEFINE tables == [snap EXCEPT ![self] = fds]
    <3>1. PICK u \in used \ {self} : Restored(tables, u)
      BY <2>1 DEF Switch
    <3>2. tables \in [Proc -> [Fd -> {NoSock} \cup Link]] /\ u \in Proc
      BY <1>0, <3>1 DEF SockTypeOK
    <3>3. \A x \in Proc : tables[x] = IF x = self THEN fds ELSE snap[x]
      BY <1>0 DEF SockTypeOK
    <3>4. \A x \in Proc : TableOf(x)' = tables[x]
      <4> HIDE DEF tables
      <4> QED BY <3>1, <3>2, SwitchKeepsTables
    <3> QED BY <1>0, <3>3, <3>4 DEF TableOf
  <2>2. CASE Leaves
    <3>1. PICK u \in used' : Restored(snap, u)
      BY <2>2 DEF Leaves
    <3>2. \A x \in Proc : TableOf(x)' = snap[x]
      BY <1>0, <3>1, SwitchKeepsTables DEF SockTypeOK
    <3>3. self \notin used'
      BY <2>2 DEF Leaves
    <3> QED BY <1>0, <3>2, <3>3 DEF TableOf
  <2>3. CASE UNCHANGED sockVars
    BY <2>3 DEF sockVars, TableOf
  <2> QED BY <2>1, <2>2, <2>3
<1>2. ASSUME NEW k \in Link
      PROVE  Cardinality(Holders(k)') <= links'[k].refs
  <2>1. Holders(k)' \in SUBSET Holders(k)
    BY <1>0, <1>1 DEF Holders
  <2>2. Cardinality(Holders(k)') <= Cardinality(Holders(k))
    BY <2>1, FewerHolders
  <2>3. Cardinality(Holders(k)') \in Nat /\ Cardinality(Holders(k)) \in Nat
    BY <2>1, FewerHolders, HoldersFinite, FS_CardinalityType
  <2>4. links'[k] = links[k] /\ links[k].refs \in Nat
    BY <1>0 DEF LinkRec
  <2> QED BY <2>2, <2>3, <2>4 DEF RefInv
<1> QED BY <1>0, <1>2 DEF RefInv

\* Every step keeps the counts.
LEMMA RefStep ==
  ASSUME SockTypeOK, PeerInv, RefInv, [SockNext]_sockVars
  PROVE  RefInv'
<1>1. CASE ~served
  <2>1. CASE ConnectTo
    BY <2>1 DEF ConnectTo, RefInv
  <2>2. ~Accept
    BY <1>1 DEF Accept, RefInv
  <2> QED BY <1>1, <2>1, <2>2, CloseKeepsRefs, PairKeepsRefs, ForkKeepsRefs, SwitchKeepsRefs
          DEF SockNext
<1>2. CASE served
  <2>1. served'
    BY <1>2 DEF SockNext, SocketPair, ConnectTo, Accept, CloseFd, Switch, Fork, Leaves, sockVars
  <2> QED BY <2>1 DEF RefInv
<1> QED BY <1>1, <1>2

\* A program with socket pairs and forks, however many, has no descriptor whose link
\* does not count it.
THEOREM OpenLinksStayLive == SockSpec => []OpenLinksLive
<1>1. SockInit => PeerInv /\ RefInv
  <2> SUFFICES ASSUME SockInit PROVE PeerInv /\ RefInv
    OBVIOUS
  <2>1. \A l \in Link : Holders(l) = {} /\ links[l].refs = 0
    BY DEF SockInit, Holders, TableOf, Closed, FreeLink, Link, NoSock, Proc
  <2>2. RefInv
    <3>1. Cardinality({}) = 0 /\ 0 <= 0
      BY FS_EmptySet
    <3>2. \A l \in Link : Cardinality(Holders(l)) = 0
      BY <2>1, <3>1
    <3>3. \A l \in Link : Cardinality(Holders(l)) <= links[l].refs
      BY <2>1, <3>1, <3>2
    <3> QED BY <3>3 DEF SockInit, RefInv
  <2> QED BY <2>2 DEF SockInit, PeerInv, UnusedBlank, PeersMutual, FreeLink
<1>2. SockTypeOK /\ PeerInv /\ RefInv /\ [SockNext]_sockVars => (PeerInv /\ RefInv)'
  BY PeerStep, RefStep
<1>3. RefInv => OpenLinksLive
  BY DEF RefInv, OpenLinksLive, Holders
<1> QED BY <1>1, <1>2, <1>3, SockTypeCorrect, PTL DEF SockSpec

=============================================================================
