------------------------------- MODULE MCCalls -------------------------------
(* LinThread, LinSockets and Trash side by side for TLC.  They share no    *)
(* state: a behaviour is one of one of them, and the others stay as they   *)
(* began.                                                                  *)
EXTENDS LinThread, LinSockets, Trash

CONSTANTS f1, f2, c1, c2

VARIABLE part   \* the component of this behaviour

Parts == {"threads", "sockets", "trash"}

CallsInit ==
  part \in Parts /\ LinInit /\ SockInit /\ TrashInit

CallsNext ==
  /\ part' = part
  /\ \/ part = "threads" /\ LinNext /\ UNCHANGED <<sockVars, trashVars>>
     \/ part = "sockets" /\ SockNext /\ UNCHANGED <<linVars, trashVars>>
     \/ part = "trash" /\ TrashNext /\ UNCHANGED <<linVars, sockVars>>

callsVars == <<part, linVars, sockVars, trashVars>>

CallsSpec == CallsInit /\ [][CallsNext]_callsVars

\* Every variable of the three components holds a value of its type.
CallsTypeOK == LinTypeOK /\ SockTypeOK /\ TrashTypeOK
=============================================================================
