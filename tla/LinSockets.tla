------------------------------ MODULE LinSockets ------------------------------
(***************************************************************************)
(* AF_UNIX sockets of a 32-bit Linux program: the links of                 *)
(* src/kernel/lin_unix.c, and the descriptors of src/kernel/linuxsys.c     *)
(* that refer to them.  There is one current descriptor table; a thread    *)
(* that is switched away leaves a copy of it behind, its snapshot, and the *)
(* table is loaded from the snapshot of the next (lin_thread.c).           *)
(*                                                                         *)
(* A descriptor is abstracted to the link of its socket.  There is one     *)
(* listening socket, of another path than those of X11 and PulseAudio.     *)
(* Which thread goes next is not modelled (see LinThread), nor are threads *)
(* that share the descriptors of their maker, execve, and what is written  *)
(* and read.  Every program starts anew (linux_seed_rootfs), so one is     *)
(* enough.                                                                 *)
(***************************************************************************)
EXTENDS Integers, Sequences, FiniteSets

CONSTANTS
  Links,    \* LIN_UNIX_LINK_MAX
  Fds,      \* LIN_FD_MAX, less the three of the terminal
  Procs,    \* LIN_THREADS_MAX
  Queue,    \* how many connections may be pending
  RefMax    \* bound on refcnt, which the children of forks leave behind

ASSUME SocketAssumption == {Links, Fds, Procs, Queue, RefMax} \subseteq Nat \ {0}

VARIABLES
  links,    \* g_unix_links
  queue,    \* pending of the listener
  fds,      \* g_lin_fds
  snap,     \* g_thr_fd_snap
  used,     \* the slots of g_threads in use
  self,     \* g_current
  served    \* history: connect has been called

sockVars == <<links, queue, fds, snap, used, self, served>>

Link == 1 .. Links
Fd   == 1 .. Fds
Proc == 0 .. Procs - 1

NoSock   == 0                           \* LFD_FREE
NoPeer   == 0
FreeLink == [used |-> FALSE, peer |-> NoPeer, refs |-> 0]
Closed   == [f \in Fd |-> NoSock]

SockInit ==
  /\ links = [l \in Link |-> FreeLink] /\ queue = <<>>
  /\ fds = Closed /\ snap = [t \in Proc |-> Closed]
  /\ used = {0} /\ self = 0 /\ served = FALSE

First(set) == CHOOSE x \in set : \A y \in set : x <= y
Unused     == {l \in Link : ~links[l].used}
FreeFd     == {f \in Fd : fds[f] = NoSock}

\* link_alloc.
Allocated(tab, l, peer, refs) ==
  [tab EXCEPT ![l] = [used |-> TRUE, peer |-> peer, refs |-> refs]]

-----------------------------------------------------------------------------
\* lin_unix_socketpair, and do_socketpair, which has nobody close the links if
\* there are no two descriptors for them.
SocketPair ==
  /\ Cardinality(Unused) >= 2
  /\ LET a == First(Unused)
         b == First(Unused \ {a})
         f == First(FreeFd)
         g == First(FreeFd \ {f})
     IN  /\ links' = Allocated(Allocated(links, a, b, 1), b, a, 1)
         /\ fds' = IF Cardinality(FreeFd) < 2 THEN fds
                   ELSE [fds EXCEPT ![f] = a, ![g] = b]
  /\ UNCHANGED <<queue, snap, used, self, served>>

\* lin_unix_connect: the socket is connected even when the queue is full.
ConnectTo ==
  /\ Unused # {} /\ FreeFd # {}
  /\ LET l == First(Unused)
     IN  /\ links' = Allocated(links, l, NoPeer, 0)
         /\ fds' = [fds EXCEPT ![First(FreeFd)] = l]
         /\ queue' = IF Len(queue) < Queue THEN Append(queue, l) ELSE queue
  /\ served' = TRUE
  /\ UNCHANGED <<snap, used, self>>

\* lin_unix_accept: a second socket on the link of the one that connected.
Accept ==
  /\ queue # <<>>
  /\ queue' = Tail(queue)
  /\ fds' = IF FreeFd = {} THEN fds
            ELSE [fds EXCEPT ![First(FreeFd)] = Head(queue)]
  /\ UNCHANGED <<links, snap, used, self, served>>

\* A bug: the peer is not told.
SeveredHalf(tab, l) ==
  IF tab[l].peer = NoPeer THEN tab ELSE [tab EXCEPT ![l].peer = NoPeer]

\* lin_unix_close: the peer is told first, then link_unref.
Severed(tab, l) ==
  IF tab[l].peer = NoPeer THEN tab
  ELSE [tab EXCEPT ![tab[l].peer].peer = NoPeer, ![l].peer = NoPeer]

Unref(tab, l) ==
  IF tab[l].refs > 1 THEN [tab EXCEPT ![l].refs = @ - 1]
  ELSE [tab EXCEPT ![l] = FreeLink]

CloseSocket(tab, l) == IF tab[l].used THEN Unref(Severed(tab, l), l) ELSE tab

CloseFd ==
  /\ \E f \in Fd :
       /\ fds[f] # NoSock
       /\ links' = CloseSocket(links, fds[f])
       /\ fds' = [fds EXCEPT ![f] = NoSock]
  /\ UNCHANGED <<queue, snap, used, self, served>>

-----------------------------------------------------------------------------
\* lin_compat32_restore loads the snapshot of the thread that comes; nobody reads
\* it again before the next lin_compat32_capture.
Restored(tables, t) ==
  /\ self' = t
  /\ fds' = tables[t]
  /\ snap' = [tables EXCEPT ![t] = Closed]

Switch ==
  /\ \E t \in used \ {self} : Restored([snap EXCEPT ![self] = fds], t)
  /\ UNCHANGED <<links, queue, used, served>>

\* A bug: the copies of fork are not counted.
BumpedNot(tab) == links

\* lin_fds_bump_socket_refs, over a table of descriptors.
Bumped(tab) ==
  [l \in Link |->
     IF links[l].used
     THEN [links[l] EXCEPT !.refs = @ + Cardinality({f \in Fd : tab[f] = l})]
     ELSE links[l]]

\* lin_thread_compat32_fork_spawn with lin_fds_fork_dup, and the switch after it.
Fork ==
  /\ used # Proc /\ \A l \in Link : links[l].refs < RefMax
  /\ LET t == First(Proc \ used)
     IN  /\ links' = Bumped(fds)
         /\ used' = used \cup {t}
         /\ \E u \in used' \ {self} : Restored([snap EXCEPT ![self] = fds, ![t] = fds], u)
  /\ UNCHANGED <<queue, served>>

\* A child goes, and closes nothing.
Leaves ==
  /\ self # 0
  /\ used' = used \ {self}
  /\ \E t \in used' : Restored(snap, t)
  /\ UNCHANGED <<links, queue, served>>

SockNext ==
  \/ SocketPair \/ ConnectTo \/ Accept \/ CloseFd
  \/ Switch \/ Fork \/ Leaves

SockSpec == SockInit /\ [][SockNext]_sockVars

-----------------------------------------------------------------------------
(* Properties.                                                             *)

\* The descriptor table of a thread.
TableOf(t) == IF t = self THEN fds ELSE snap[t]

\* Every variable holds a value of its type.
SockTypeOK ==
  LET Sock == {NoSock} \cup Link
  IN  /\ links \in [Link -> [used : BOOLEAN, peer : {NoPeer} \cup Link, refs : 0 .. RefMax + Fds]]
      /\ queue \in Seq(Link) /\ Len(queue) <= Queue
      /\ fds \in [Fd -> Sock] /\ snap \in [Proc -> [Fd -> Sock]]
      /\ used \subseteq Proc /\ self \in used /\ served \in BOOLEAN

\* The peers of links come in pairs, and a peer is in use, in whatever order
\* the sockets of however many processes are closed and their links allocated
\* again (lin_unix_close, link_unref).
PeersMutual ==
  \A l \in Link :
    links[l].used /\ links[l].peer # NoPeer =>
      LET p == links[links[l].peer] IN p.used /\ p.peer = l /\ links[l].peer # l

\* "Per-thread fd snapshots for fork(2) parent/child isolation": a program with
\* socket pairs and forks has no descriptor, in any process, whose link has been
\* freed or given to another; its link counts it (lin_fds_fork_dup, link_unref).
OpenLinksLive ==
  ~served =>
    \A l \in Link :
      LET holders == {h \in used \X Fd : TableOf(h[1])[h[2]] = l}
      IN  Cardinality(holders) <= links[l].refs

\* A link that some descriptor, in some process, is open on.
IsOpen(l) == \E t \in used, f \in Fd : TableOf(t)[f] = l

\* "Per-thread fd snapshots for fork(2) parent/child isolation": two ends that are
\* both still open, in whatever process, stay connected.  lin_unix_close severs a
\* link before link_unref counts its holders, so that closing one copy of a
\* descriptor cuts off the other.
StaysConnected ==
  [][\A l, p \in Link :
       links[l].peer = p /\ IsOpen(l)' /\ IsOpen(p)' => links'[l].peer = p]_sockVars

=============================================================================
