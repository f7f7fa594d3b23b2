-------------------------------- MODULE Trash --------------------------------
(***************************************************************************)
(* The recycle bin (src/drivers/trash.c): files of the working directory   *)
(* are copied to /sys/.trash, removed, and listed in an index that is kept *)
(* in memory and, a call at a time, on disk.  A call is several commits of *)
(* NXFS, each of which happens as a whole or not at all (Nxfs,             *)
(* NxfsJournal), and the machine may stop between any two of them.  The    *)
(* write of a file is two: it is emptied first.                            *)
(*                                                                         *)
(* A stored file is named after a slot and the name it had.  A payload is  *)
(* a value of its own, with which a file can be followed.  The wm_tick of  *)
(* a copy runs nothing here that touches the directory or the bin, there   *)
(* is one working directory, and deleting a file does not fail.            *)
(***************************************************************************)
EXTENDS Integers, Sequences, FiniteSets

CONSTANTS
  BinSize,    \* TRASH_MAX_ENTRIES
  FileName,   \* names of files in the working directory
  Content,    \* what the user's files hold
  Fails,      \* whether a copy fails, or another stream keeps the index from being written
  Cuts        \* whether the machine stops in the middle of a call

Absent == "absent"
Hollow == "hollow"                   \* an empty file

ASSUME TrashAssumption ==
  /\ BinSize \in Nat \ {0} /\ FileName # {}
  /\ {Absent, Hollow} \cap Content = {}
  /\ {Fails, Cuts} \subseteq BOOLEAN

VARIABLES
  home,    \* the working directory
  store,   \* /sys/.trash
  info,    \* trashinfo.dat: the storage names, which hold the original ones
  bin,     \* g_trash
  loaded,  \* g_loaded
  tcall,   \* the call under way: which, where, and for which slot and name
  kept,    \* history: the contents the user has not given up
  struck   \* history: a call was cut short or the index not saved

trashVars == <<home, store, info, bin, loaded, tcall, kept, struck>>

BinSlot == 0 .. BinSize - 1
NoEntry == <<>>
Stored  == BinSlot \X FileName       \* "tNN_name"
Idle    == [at |-> "idle", slot |-> 0, name |-> CHOOSE n \in FileName : TRUE]

TrashInit ==
  /\ home = [n \in FileName |-> Absent] /\ store = [k \in Stored |-> Absent]
  /\ info = <<>> /\ bin = [i \in BinSlot |-> NoEntry] /\ loaded = FALSE
  /\ tcall = Idle /\ kept = {} /\ struck = FALSE

\* load_index, the first time: the entries get the slots in their order.
Index ==
  IF loaded THEN bin
  ELSE [i \in BinSlot |-> IF i < Len(info) THEN info[i + 1] ELSE NoEntry]

\* save_index: the entries in use, in the order of their slots.
Occupied(b) == {i \in BinSlot : b[i] # NoEntry}
Rank(b, i)  == Cardinality({j \in Occupied(b) : j < i})
Lines(b)    == [k \in 1 .. Cardinality(Occupied(b)) |->
                 b[CHOOSE i \in Occupied(b) : Rank(b, i) = k - 1]]

At(place) == tcall.at = place
Goto(place) == tcall' = [tcall EXCEPT !.at = place]

\* save_index, whose callers ignore how it ends: nxfs_write_file empties the index
\* or, with another stream open, does nothing.
SaveBegin ==
  \/ info' = <<>> /\ Goto("save") /\ UNCHANGED struck
  \/ Fails /\ UNCHANGED info /\ tcall' = Idle /\ struck' = TRUE

-----------------------------------------------------------------------------
\* The user writes a new file.
UserWrites ==
  /\ At("idle")
  /\ \E n \in FileName, p \in Content \ kept :
       /\ home[n] = Absent
       /\ p \notin {store[k] : k \in Stored} \cup {home[m] : m \in FileName}
       /\ home' = [home EXCEPT ![n] = p]
       /\ kept' = kept \cup {p}
  /\ UNCHANGED <<store, info, bin, loaded, tcall, struck>>

\* trash_move_in fails: the command "trash-in" says so, and "dfile" and the
\* explorer delete the file outright.
Refused(n) ==
  /\ tcall' = Idle
  /\ \/ UNCHANGED <<home, kept>>
     \/ /\ home' = [home EXCEPT ![n] = Absent]
        /\ kept' = kept \ {home[n]}

\* A bug: a stored file of the same name is written over.
MoveInOver ==
  /\ At("idle")
  /\ loaded' = TRUE /\ bin' = Index
  /\ \E n \in FileName :
       /\ home[n] # Absent
       /\ LET free == {i \in BinSlot : bin'[i] = NoEntry}
              slot == CHOOSE i \in free : \A j \in free : i <= j
          IN  IF free # {}
              THEN /\ store' = [store EXCEPT ![<<slot, n>>] = Hollow]
                   /\ tcall' = [at |-> "copy", slot |-> slot, name |-> n]
                   /\ UNCHANGED <<home, kept>>
              ELSE Refused(n) /\ UNCHANGED store
  /\ UNCHANGED <<info, struck>>

\* trash_move_in: a free slot, and a new file named after it.
MoveIn ==
  /\ At("idle")
  /\ loaded' = TRUE /\ bin' = Index
  /\ \E n \in FileName :
       /\ home[n] # Absent
       /\ LET free == {i \in BinSlot : bin'[i] = NoEntry}
              slot == CHOOSE i \in free : \A j \in free : i <= j
          IN  IF free # {} /\ store[<<slot, n>>] = Absent
              THEN /\ store' = [store EXCEPT ![<<slot, n>>] = Hollow]
                   /\ tcall' = [at |-> "copy", slot |-> slot, name |-> n]
                   /\ UNCHANGED <<home, kept>>
              ELSE Refused(n) /\ UNCHANGED store
  /\ UNCHANGED <<info, struck>>

\* The copy of the payload, which is there as a whole at its end or, when a
\* read or an append fails, not at all.
Copy ==
  /\ At("copy")
  /\ LET k == <<tcall.slot, tcall.name>>
     IN  \/ /\ store' = [store EXCEPT ![k] = home[tcall.name]]
            /\ Goto("remove") /\ UNCHANGED <<home, kept>>
         \/ /\ Fails
            /\ store' = [store EXCEPT ![k] = Absent]
            /\ Refused(tcall.name)
  /\ UNCHANGED <<info, bin, loaded, struck>>

\* The original is deleted.
Remove ==
  /\ At("remove")
  /\ home' = [home EXCEPT ![tcall.name] = Absent]
  /\ Goto("list")
  /\ UNCHANGED <<store, info, bin, loaded, kept, struck>>

\* The entry, and save_index.
List ==
  /\ At("list")
  /\ bin' = [bin EXCEPT ![tcall.slot] = <<tcall.slot, tcall.name>>]
  /\ SaveBegin
  /\ UNCHANGED <<home, store, loaded, kept>>

\* The rest of save_index: the new contents, or an index that stays empty.
Save ==
  /\ At("save")
  /\ \/ info' = Lines(bin) /\ UNCHANGED struck
     \/ Fails /\ UNCHANGED info /\ struck' = TRUE
  /\ tcall' = Idle
  /\ UNCHANGED <<home, store, bin, loaded, kept>>

\* trash_restore, from the window of the bin: a new file under the old name.
Restore ==
  /\ At("idle")
  /\ \E i \in BinSlot :
       /\ bin[i] \in Stored /\ store[bin[i]] # Absent /\ home[bin[i][2]] = Absent
       /\ home' = [home EXCEPT ![bin[i][2]] = Hollow]
       /\ tcall' = [at |-> "copyback", slot |-> i, name |-> bin[i][2]]
  /\ UNCHANGED <<store, info, bin, loaded, kept, struck>>

\* A copy that fails leaves the empty file behind.
CopyBack ==
  /\ At("copyback")
  /\ \/ /\ home' = [home EXCEPT ![tcall.name] = store[bin[tcall.slot]]]
        /\ Goto("unstore")
     \/ Fails /\ tcall' = Idle /\ UNCHANGED home
  /\ UNCHANGED <<store, info, bin, loaded, kept, struck>>

Unstore ==
  /\ At("unstore")
  /\ store' = [store EXCEPT ![bin[tcall.slot]] = Absent]
  /\ Goto("unlist")
  /\ UNCHANGED <<home, info, bin, loaded, kept, struck>>

\* A bug: the entry is left in the index.
UnlistForgets ==
  /\ At("unlist")
  /\ SaveBegin
  /\ UNCHANGED <<home, store, bin, loaded, kept>>

Unlist ==
  /\ At("unlist")
  /\ bin' = [bin EXCEPT ![tcall.slot] = NoEntry]
  /\ SaveBegin
  /\ UNCHANGED <<home, store, loaded, kept>>

\* trash_empty: the stored files go one by one, then the index.
EmptyBegin ==
  /\ At("idle")
  /\ loaded' = TRUE /\ bin' = Index
  /\ Goto("empty")
  /\ UNCHANGED <<home, store, info, kept, struck>>

EmptyStep ==
  /\ At("empty")
  /\ LET i == CHOOSE x \in Occupied(bin) : \A y \in Occupied(bin) : x <= y
     IN  IF Occupied(bin) = {}
         THEN SaveBegin /\ UNCHANGED <<store, bin, kept>>
         ELSE /\ store' = [store EXCEPT ![bin[i]] = Absent]
              /\ bin' = [bin EXCEPT ![i] = NoEntry]
              /\ kept' = kept \ ({store[bin[i]]} \ {home[n] : n \in FileName})
              /\ UNCHANGED <<info, tcall, struck>>
  /\ UNCHANGED <<home, loaded>>

\* The machine stops, between calls or, with Cuts, in a call, and starts again.
Restart ==
  /\ Cuts \/ At("idle")
  /\ bin' = [i \in BinSlot |-> NoEntry] /\ loaded' = FALSE
  /\ struck' = (struck \/ ~At("idle"))
  /\ tcall' = Idle
  /\ UNCHANGED <<home, store, info, kept>>

TrashNext ==
  \/ UserWrites \/ MoveIn \/ Copy \/ Remove \/ List \/ Save
  \/ Restore \/ CopyBack \/ Unstore \/ Unlist \/ EmptyBegin \/ EmptyStep \/ Restart

TrashSpec == TrashInit /\ [][TrashNext]_trashVars

-----------------------------------------------------------------------------
(* Properties.                                                             *)

\* Every variable holds a value of its type.
TrashTypeOK ==
  /\ home \in [FileName -> Content \cup {Absent, Hollow}]
  /\ store \in [Stored -> Content \cup {Absent, Hollow}]
  /\ info \in Seq(Stored) /\ Len(info) <= BinSize
  /\ bin \in [BinSlot -> Stored \cup {NoEntry}] /\ {loaded, struck} \subseteq BOOLEAN
  /\ tcall.at \in {"idle", "copy", "remove", "list", "save", "copyback", "unstore", "unlist", "empty"}
  /\ kept \subseteq Content

\* Wherever the machine stops, and whatever fails, a move into the bin or back
\* leaves a whole copy of the file on disk (trash_move_in, trash_restore): only
\* an emptied bin and the outright deletion of Refused destroy one.  It need not
\* be a copy that the bin lists: see Restorable.
NothingLost ==
  \A p \in kept : (\E n \in FileName : home[n] = p) \/ (\E k \in Stored : store[k] = p)

\* The index lists every stored file once and nothing else, and memory and disk
\* agree on it, as long as no call was cut short or failed to save it, although a
\* restart gives the entries other slots than their names say (load_index,
\* save_index).  The index survives that; a later move need not: see
\* DeletedLandsInBin.
IndexMatchesStore ==
  At("idle") /\ ~struck =>
    /\ {k \in Stored : store[k] # Absent} = {info[i] : i \in 1 .. Len(info)}
    /\ \A i, j \in 1 .. Len(info) : info[i] = info[j] => i = j
    /\ info = Lines(Index)

\* "deleted files must land in the Recycle Bin (restorable)": between calls, what
\* the user has not given up is in the directory or listed by the bin.  A machine
\* that stops between the deletion of the original and the entry, or between the two
\* commits of save_index, leaves files that nothing lists.
Restorable ==
  At("idle") =>
    \A p \in kept :
      \/ \E n \in FileName : home[n] = p
      \/ \E i \in BinSlot : Index[i] \in Stored /\ store[Index[i]] = p

\* "deleted files must land in the Recycle Bin (restorable), not vanish": a file
\* that leaves the directory is in the bin.  The name of a free slot may be that of
\* a stored file whose entry has moved to another slot at a restart; trash_move_in
\* then fails, and its callers delete the file.
DeletedLandsInBin ==
  [][\A n \in FileName :
       home[n] \in Content /\ home'[n] # home[n] => \E k \in Stored : store'[k] = home[n]]_trashVars

=============================================================================
