---------------------------- MODULE AtomicStore ----------------------------
(***************************************************************************)
(* What the NXFS metadata journal promises, with no journal in sight.      *)
(*                                                                         *)
(* A store maps sector numbers to contents.  The writes of one transaction *)
(* collect in `pend`.  They reach readers (`view`) and the state a crash   *)
(* would recover to (`durable`) together and completely, or not at all.    *)
(*                                                                         *)
(* A commit that fails, or that a crash interrupts, is in doubt: recovery  *)
(* may still deliver the whole transaction, never a part of it.            *)
(***************************************************************************)
CONSTANTS Lba,    \* sectors of the metadata area
          Val,    \* contents of a sector
          None    \* "no pending write for this sector"

VARIABLES view,    \* what the running system reads outside a transaction
          durable, \* what a crash at this moment would recover to
          pend     \* the open transaction: new contents per sector, or None

vars == <<view, durable, pend>>

Store   == [Lba -> Val]
Pending == [Lba -> Val \union {None}]
NoWrite == [l \in Lba |-> None]

Whole(f, p) == [l \in Lba |-> IF p[l] = None THEN f[l] ELSE p[l]]

Init ==
  /\ view \in Store
  /\ durable = view
  /\ pend = NoWrite

\* One more sector joins the open transaction.
Write ==
  /\ \E l \in Lba, v \in Val : pend' = [pend EXCEPT ![l] = v]
  /\ UNCHANGED <<view, durable>>

\* The transaction is given up.
Drop ==
  /\ pend' = NoWrite
  /\ UNCHANGED <<view, durable>>

\* The transaction takes effect, for readers and for recovery at once.
Commit ==
  /\ view' = Whole(view, pend)
  /\ durable' = Whole(view, pend)
  /\ pend' = NoWrite

\* Recovery would now deliver the transaction; readers do not see it yet,
\* and never will in this session if the commit reports an error.
Doubt ==
  /\ durable' = Whole(view, pend)
  /\ pend' \in {pend, NoWrite}
  /\ UNCHANGED view

\* A transaction in doubt is forgotten.
Settle ==
  /\ durable' = view
  /\ pend' \in {pend, NoWrite}
  /\ UNCHANGED view

\* A mount: readers see what recovery delivers.
Recover ==
  /\ view' = durable
  /\ pend' = NoWrite
  /\ UNCHANGED durable

Next == Write \/ Drop \/ Commit \/ Doubt \/ Settle \/ Recover

Spec == Init /\ [][Next]_vars
=============================================================================
