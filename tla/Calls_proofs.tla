---------------------------- MODULE Calls_proofs ----------------------------
(***************************************************************************)
(* What the recycle bin never loses, for any number of slots, any names    *)
(* and any contents, wherever the machine stops and whatever the index     *)
(* says after that; that the index says what is in the bin as long as no   *)
(* call is cut short; and the types of the three components that MCCalls   *)
(* puts side by side.                                                      *)
(***************************************************************************)
EXTENDS MCCalls, Lin_proofs

USE TrashAssumption

Places == {"idle", "copy", "remove", "list", "save", "copyback", "unstore", "unlist", "empty"}

\* Where the one payload under way is, at each place of a call: what is about to
\* be written over is empty, and what is about to be deleted has its copy.
UnderWay ==
  LET k == <<tcall.slot, tcall.name>>
  IN  /\ At("copy") => store[k] = Hollow
      /\ At("remove") => store[k] = home[tcall.name]
      /\ At("copyback") => home[tcall.name] = Hollow
      /\ At("unstore") => home[tcall.name] = store[bin[tcall.slot]]

\* What the argument needs of the types; the index and the entries are not part of it.
Shapes ==
  /\ home = [n \in FileName |-> home[n]] /\ store = [k \in Stored |-> store[k]]
  /\ tcall \in [at : Places, slot : BinSlot, name : FileName]
  /\ kept \subseteq Content

TrashInv == Shapes /\ UnderWay /\ NothingLost

\* The first slot of a set is one of its slots.
LEMMA FirstSlot ==
  ASSUME NEW A \in SUBSET BinSlot, A # {}
  PROVE  (CHOOSE i \in A : \A j \in A : i <= j) \in A
<1>1. A \in SUBSET Nat
  BY DEF BinSlot
<1>2. \E i \in A : \A j \in A : i <= j
  BY <1>1, LeastNatural
<1> QED BY <1>2

\* A storage name is a slot and a name.
LEMMA StoredPairs ==
  /\ \A s \in BinSlot, n \in FileName : <<s, n>> \in Stored
  /\ \A k \in Stored : k[1] \in BinSlot /\ k[2] \in FileName /\ k = <<k[1], k[2]>>
BY DEF Stored

\* When no call is under way, or one that moves no payload.
LEMMA NothingUnderWay ==
  ASSUME tcall'.at \in {"idle", "save", "list", "unlist", "empty"}
  PROVE  UnderWay'
BY DEF UnderWay, At

\* An idle machine has the type of one.
LEMMA IdleShape == Idle \in [at : Places, slot : BinSlot, name : FileName] /\ Idle.at = "idle"
BY DEF Idle, Places, BinSlot

\* save_index leaves the call in its second half, or over.
LEMMA SaveShape ==
  ASSUME Shapes, SaveBegin
  PROVE  tcall' \in [at : Places, slot : BinSlot, name : FileName] /\ tcall'.at \in {"idle", "save"}
BY IdleShape DEF Shapes, SaveBegin, Goto, Places

\* A refusal ends the call; a file that goes with it was given up.
LEMMA RefusedKeeps ==
  ASSUME Shapes, NothingLost, NEW n \in FileName, Refused(n),
         store' = [k \in Stored |-> store'[k]],
         \A k \in Stored : store[k] \in Content => store'[k] = store[k]
  PROVE  TrashInv'
<1>1. tcall' = Idle
  BY DEF Refused
<1>2. Shapes'
  BY <1>1, IdleShape DEF Shapes, Refused
<1>3. NothingLost'
  <2> SUFFICES ASSUME NEW p \in kept'
               PROVE  (\E m \in FileName : home'[m] = p) \/ (\E k \in Stored : store'[k] = p)
    BY DEF NothingLost
  <2>1. p \in kept /\ p \in Content
    BY DEF Refused, Shapes
  <2>2. CASE \E k \in Stored : store[k] = p
    BY <2>1, <2>2
  <2>3. CASE \E m \in FileName : home[m] = p
    BY <2>3 DEF Refused, Shapes
  <2> QED BY <2>1, <2>2, <2>3 DEF NothingLost
<1> QED BY <1>1, <1>2, <1>3, IdleShape, NothingUnderWay DEF TrashInv

\* A step that writes over no payload loses none.
LEMMA NoneLost ==
  ASSUME NothingLost, kept \subseteq Content, kept' = kept,
         \A m \in FileName : home[m] \in Content => home'[m] = home[m],
         \A k \in Stored : store[k] \in Content => store'[k] = store[k]
  PROVE  NothingLost'
<1> SUFFICES ASSUME NEW p \in kept
             PROVE  (\E m \in FileName : home'[m] = p) \/ (\E k \in Stored : store'[k] = p)
  BY DEF NothingLost
<1>1. CASE \E m \in FileName : home[m] = p
  BY <1>1
<1>2. CASE \E k \in Stored : store[k] = p
  BY <1>2
<1> QED BY <1>1, <1>2 DEF NothingLost

\* Every step keeps what was not given up.
LEMMA TrashStep ==
  ASSUME TrashInv, [TrashNext]_trashVars
  PROVE  TrashInv'
<1>0. Shapes /\ UnderWay /\ NothingLost
  BY DEF TrashInv
<1>1. CASE UserWrites
  <2>1. PICK n \in FileName, p \in Content \ kept :
          home[n] = Absent /\ home' = [home EXCEPT ![n] = p] /\ kept' = kept \cup {p}
    BY <1>1 DEF UserWrites
  <2>2. UNCHANGED <<store, tcall>> /\ At("idle")
    BY <1>1 DEF UserWrites
  <2>3. Shapes'
    BY <1>0, <2>1, <2>2 DEF Shapes
  <2>4. \A m \in FileName : home[m] \in Content => home'[m] = home[m]
    BY <1>0, <2>1 DEF Shapes
  <2>5. home'[n] = p
    BY <1>0, <2>1 DEF Shapes
  <2>6. NothingLost'
    BY <1>0, <2>1, <2>2, <2>4, <2>5 DEF NothingLost, Shapes
  <2> QED BY <2>2, <2>3, <2>6, NothingUnderWay DEF TrashInv, At
<1>2. CASE MoveIn
  <2>1. PICK n \in FileName :
          LET free == {i \in BinSlot : bin'[i] = NoEntry}
              slot == CHOOSE i \in free : \A j \in free : i <= j
          IN  IF free # {} /\ store[<<slot, n>>] = Absent
              THEN /\ store' = [store EXCEPT ![<<slot, n>>] = Hollow]
                   /\ tcall' = [at |-> "copy", slot |-> slot, name |-> n]
                   /\ UNCHANGED <<home, kept>>
              ELSE Refused(n) /\ UNCHANGED store
    BY <1>2 DEF MoveIn
  <2> DEFINE free == {i \in BinSlot : bin'[i] = NoEntry}
             slot == CHOOSE i \in free : \A j \in free : i <= j
  <2>2. CASE free # {} /\ store[<<slot, n>>] = Absent
    <3>1. slot \in BinSlot
      BY <2>2, FirstSlot
    <3>2. /\ store' = [store EXCEPT ![<<slot, n>>] = Hollow]
          /\ tcall' = [at |-> "copy", slot |-> slot, name |-> n]
          /\ UNCHANGED <<home, kept>>
      BY <2>1, <2>2
    <3> HIDE DEF free, slot
    <3>3. Shapes'
      BY <1>0, <3>1, <3>2 DEF Shapes, Places
    <3>4. UnderWay'
      BY <1>0, <3>1, <3>2, StoredPairs DEF UnderWay, At, Shapes
    <3>5. \A k \in Stored : store[k] \in Content => store'[k] = store[k]
      BY <1>0, <2>2, <3>2 DEF Shapes
    <3>6. NothingLost'
      BY <1>0, <3>2, <3>5, NoneLost DEF Shapes
    <3> QED BY <3>3, <3>4, <3>6 DEF TrashInv
  <2>3. CASE ~(free # {} /\ store[<<slot, n>>] = Absent)
    <3>1. Refused(n) /\ store' = store
      BY <2>1, <2>3
    <3> HIDE DEF free, slot
    <3> QED BY <1>0, <3>1, RefusedKeeps DEF Shapes
  <2> QED BY <2>2, <2>3
<1>3. CASE Copy
  <2> DEFINE k == <<tcall.slot, tcall.name>>
  <2>1. k \in Stored /\ tcall.name \in FileName
    BY <1>0, StoredPairs DEF Shapes
  <2>2. store[k] = Hollow
    BY <1>0, <1>3 DEF Copy, UnderWay
  <2>3. CASE /\ store' = [store EXCEPT ![k] = home[tcall.name]]
             /\ Goto("remove") /\ UNCHANGED <<home, kept>>
    <3>1. /\ tcall' \in [at : Places, slot : BinSlot, name : FileName]
          /\ tcall'.at = "remove" /\ tcall'.slot = tcall.slot /\ tcall'.name = tcall.name
      BY <1>0, <2>3 DEF Shapes, Goto, Places
    <3> HIDE DEF k
    <3>2. \A x \in Stored : store[x] \in Content => store'[x] = store[x]
      BY <1>0, <2>1, <2>2, <2>3 DEF Shapes
    <3>3. Shapes' /\ store'[k] = home'[tcall.name]
      BY <1>0, <2>1, <2>3, <3>1 DEF Shapes
    <3>4. UnderWay'
      BY <3>1, <3>3 DEF UnderWay, At, k
    <3>5. NothingLost'
      BY <1>0, <2>3, <3>2, NoneLost DEF Shapes
    <3> QED BY <3>3, <3>4, <3>5 DEF TrashInv
  <2>4. CASE store' = [store EXCEPT ![k] = Absent] /\ Refused(tcall.name)
    <3> HIDE DEF k
    <3>1. \A x \in Stored : store[x] \in Content => store'[x] = store[x]
      BY <1>0, <2>1, <2>2, <2>4 DEF Shapes
    <3>2. store' = [x \in Stored |-> store'[x]]
      BY <1>0, <2>1, <2>4 DEF Shapes
    <3> QED BY <1>0, <2>1, <2>4, <3>1, <3>2, RefusedKeeps
  <2> QED BY <1>3, <2>3, <2>4 DEF Copy
<1>4. CASE Remove
  <2>1. /\ home' = [home EXCEPT ![tcall.name] = Absent]
        /\ UNCHANGED <<store, kept>> /\ Goto("list")
    BY <1>4 DEF Remove
  <2>2. /\ tcall' \in [at : Places, slot : BinSlot, name : FileName] /\ tcall'.at = "list"
        /\ <<tcall.slot, tcall.name>> \in Stored /\ tcall.name \in FileName
    BY <1>0, <2>1, StoredPairs DEF Shapes, Goto, Places
  <2>3. store[<<tcall.slot, tcall.name>>] = home[tcall.name]
    BY <1>0, <1>4 DEF Remove, UnderWay
  <2>4. Shapes'
    BY <1>0, <2>1, <2>2 DEF Shapes
  <2>5. \A m \in FileName : home'[m] = home[m] \/ m = tcall.name
    BY <1>0, <2>1 DEF Shapes
  <2>6. NothingLost'
    BY <1>0, <2>1, <2>2, <2>3, <2>5 DEF NothingLost
  <2> QED BY <2>2, <2>4, <2>6, NothingUnderWay DEF TrashInv
<1>5. CASE List \/ Unlist
  <2>1. SaveBegin /\ UNCHANGED <<home, store, kept>>
    BY <1>5 DEF List, Unlist
  <2> QED BY <1>0, <2>1, SaveShape, NothingUnderWay DEF TrashInv, Shapes, NothingLost
<1>6. CASE Save \/ Restart
  <2>1. tcall' = Idle /\ UNCHANGED <<home, store, kept>>
    BY <1>6 DEF Save, Restart
  <2> QED BY <1>0, <2>1, IdleShape, NothingUnderWay DEF TrashInv, Shapes, NothingLost
<1>7. CASE Restore
  <2>1. PICK i \in BinSlot :
          /\ bin[i] \in Stored /\ home[bin[i][2]] = Absent
          /\ home' = [home EXCEPT ![bin[i][2]] = Hollow]
          /\ tcall' = [at |-> "copyback", slot |-> i, name |-> bin[i][2]]
    BY <1>7 DEF Restore
  <2> DEFINE n == bin[i][2]
  <2>2. n \in FileName /\ UNCHANGED <<store, kept>>
    BY <1>7, <2>1, StoredPairs DEF Restore
  <2> HIDE DEF n
  <2>3. home' = [home EXCEPT ![n] = Hollow] /\ tcall' = [at |-> "copyback", slot |-> i, name |-> n]
    BY <2>1 DEF n
  <2>4. Shapes' /\ home'[n] = Hollow
    BY <1>0, <2>2, <2>3 DEF Shapes, Places
  <2>5. UnderWay'
    BY <2>3, <2>4 DEF UnderWay, At
  <2>6. \A m \in FileName : home[m] \in Content => home'[m] = home[m]
    BY <1>0, <2>1, <2>3 DEF Shapes, n
  <2>7. NothingLost'
    BY <1>0, <2>2, <2>6, NoneLost DEF Shapes
  <2> QED BY <2>4, <2>5, <2>7 DEF TrashInv
<1>8. CASE CopyBack
  <2>1. home[tcall.name] = Hollow /\ tcall.name \in FileName /\ UNCHANGED <<store, bin, kept>>
    BY <1>0, <1>8 DEF CopyBack, UnderWay, Shapes
  <2>2. CASE home' = [home EXCEPT ![tcall.name] = store[bin[tcall.slot]]] /\ Goto("unstore")
    <3>1. /\ tcall' \in [at : Places, slot : BinSlot, name : FileName]
          /\ tcall'.at = "unstore" /\ tcall'.slot = tcall.slot /\ tcall'.name = tcall.name
      BY <1>0, <2>2 DEF Shapes, Goto, Places
    <3>2. Shapes' /\ home'[tcall.name] = store[bin[tcall.slot]]
      BY <1>0, <2>1, <2>2, <3>1 DEF Shapes
    <3>3. UnderWay'
      BY <2>1, <3>1, <3>2 DEF UnderWay, At
    <3>4. \A m \in FileName : home[m] \in Content => home'[m] = home[m]
      BY <1>0, <2>1, <2>2 DEF Shapes
    <3>5. NothingLost'
      BY <1>0, <2>1, <3>4, NoneLost DEF Shapes
    <3> QED BY <3>2, <3>3, <3>5 DEF TrashInv
  <2>3. CASE tcall' = Idle /\ UNCHANGED home
    BY <1>0, <2>1, <2>3, IdleShape, NothingUnderWay DEF TrashInv, Shapes, NothingLost
  <2> QED BY <1>8, <2>2, <2>3 DEF CopyBack
<1>9. CASE Unstore
  <2>1. /\ home[tcall.name] = store[bin[tcall.slot]] /\ tcall.name \in FileName
        /\ store' = [store EXCEPT ![bin[tcall.slot]] = Absent]
        /\ Goto("unlist") /\ UNCHANGED <<home, kept>>
    BY <1>0, <1>9 DEF Unstore, UnderWay, Shapes
  <2>2. tcall' \in [at : Places, slot : BinSlot, name : FileName] /\ tcall'.at = "unlist"
    BY <1>0, <2>1 DEF Shapes, Goto, Places
  <2>3. Shapes'
    BY <1>0, <2>1, <2>2 DEF Shapes
  <2>4. \A k \in Stored : store'[k] = store[k] \/ k = bin[tcall.slot]
    BY <1>0, <2>1 DEF Shapes
  <2>5. NothingLost'
    BY <1>0, <2>1, <2>4 DEF NothingLost
  <2> QED BY <2>2, <2>3, <2>5, NothingUnderWay DEF TrashInv
<1>10. CASE EmptyBegin
  <2>1. Goto("empty") /\ UNCHANGED <<home, store, kept>>
    BY <1>10 DEF EmptyBegin
  <2>2. tcall' \in [at : Places, slot : BinSlot, name : FileName] /\ tcall'.at = "empty"
    BY <1>0, <2>1 DEF Shapes, Goto, Places
  <2> QED BY <1>0, <2>1, <2>2, NothingUnderWay DEF TrashInv, Shapes, NothingLost
<1>11. CASE EmptyStep
  <2> DEFINE held == Occupied(bin)
             i == CHOOSE x \in held : \A y \in held : x <= y
  <2>1. CASE held = {}
    <3>1. SaveBegin /\ UNCHANGED <<home, store, kept>>
      BY <1>11, <2>1 DEF EmptyStep
    <3> QED BY <1>0, <3>1, SaveShape, NothingUnderWay DEF TrashInv, Shapes, NothingLost
  <2>2. CASE held # {}
    <3>1. /\ store' = [store EXCEPT ![bin[i]] = Absent]
          /\ kept' = kept \ ({store[bin[i]]} \ {home[n] : n \in FileName})
          /\ UNCHANGED <<home, tcall>>
      BY <1>11, <2>2 DEF EmptyStep
    <3> HIDE DEF held, i
    <3>2. Shapes'
      BY <1>0, <3>1 DEF Shapes
    <3>3. \A k \in Stored : store'[k] = store[k] \/ k = bin[i]
      BY <1>0, <3>1 DEF Shapes
    <3>4. NothingLost'
      BY <1>0, <3>1, <3>3 DEF NothingLost
    <3> QED BY <1>11, <3>1, <3>2, <3>4, NothingUnderWay DEF TrashInv, EmptyStep, At
  <2> QED BY <2>1, <2>2
<1>12. CASE UNCHANGED trashVars
  BY <1>0, <1>12 DEF trashVars, TrashInv, Shapes, UnderWay, NothingLost, At
<1> QED BY <1>1, <1>2, <1>3, <1>4, <1>5, <1>6, <1>7, <1>8, <1>9, <1>10, <1>11, <1>12 DEF TrashNext

\* A move into the bin or back leaves a whole copy of the file on the disk, listed
\* or not, wherever the machine stops, with or without an index that was saved.
THEOREM NothingIsLost == TrashSpec => []NothingLost
<1>1. TrashInit => TrashInv
  BY IdleShape DEF TrashInit, TrashInv, Shapes, UnderWay, NothingLost, At
<1>2. TrashInv /\ [TrashNext]_trashVars => TrashInv'
  BY TrashStep
<1>3. TrashInv => NothingLost
  BY DEF TrashInv
<1> QED BY <1>1, <1>2, <1>3, PTL DEF TrashSpec

-----------------------------------------------------------------------------
(* The lines of the index.                                                 *)

BinRec == [BinSlot -> Stored \cup {NoEntry}]

LEMMA BinIs == BinSize \in Nat /\ BinSize > 0 /\ BinSlot \subseteq 0 .. BinSize /\ 0 \in BinSlot
BY DEF BinSlot

LEMMA StoredNotEmpty == NoEntry \notin Stored
BY DEF Stored, NoEntry

\* The occupied slots, and those of them that lie before another, are finitely many.
LEMMA RankType ==
  ASSUME NEW b, NEW i
  PROVE  /\ IsFiniteSet(Occupied(b)) /\ Cardinality(Occupied(b)) \in 0 .. BinSize
         /\ IsFiniteSet({j \in Occupied(b) : j < i}) /\ Rank(b, i) \in Nat
         /\ Rank(b, i) <= Cardinality(Occupied(b))
<1> DEFINE full == Occupied(b)
           before == {j \in full : j < i}
<1>1. IsFiniteSet(BinSlot) /\ Cardinality(BinSlot) = BinSize
  BY BinIs, FS_Interval DEF BinSlot
<1>2. full \in SUBSET BinSlot
  BY DEF Occupied
<1> HIDE DEF full
<1>3. IsFiniteSet(full) /\ Cardinality(full) <= BinSize
  BY <1>1, <1>2, FS_Subset
<1>4. before \in SUBSET full
  OBVIOUS
<1> HIDE DEF before
<1>5. IsFiniteSet(before) /\ Cardinality(before) <= Cardinality(full)
  BY <1>3, <1>4, FS_Subset
<1>6. Cardinality(full) \in Nat /\ Cardinality(before) \in Nat
  BY <1>3, <1>5, FS_CardinalityType
<1> QED BY <1>3, <1>5, <1>6, BinIs DEF Rank, full, before

LEMMA OccupiedCount ==
  ASSUME NEW b
  PROVE  Cardinality(Occupied(b)) \in 0 .. BinSize /\ \A i : Rank(b, i) \in Nat /\ Rank(b, i) <= Cardinality(Occupied(b))
BY RankType

\* From a slot to the next the rank grows by one if the slot is occupied.
LEMMA RankNext ==
  ASSUME NEW b, NEW i \in BinSlot
  PROVE  Rank(b, i + 1) = IF i \in Occupied(b) THEN Rank(b, i) + 1 ELSE Rank(b, i)
<1> DEFINE full == Occupied(b)
           before == {j \in full : j < i}
           upto == {j \in full : j < i + 1}
<1>1. full \subseteq BinSlot
  BY DEF Occupied
<1>2. Rank(b, i) = Cardinality(before) /\ Rank(b, i + 1) = Cardinality(upto) /\ IsFiniteSet(before)
  BY RankType DEF Rank
<1> HIDE DEF full
<1>3. \A j \in full : j < i + 1 <=> j < i \/ j = i
  BY <1>1 DEF BinSlot
<1>4. i \in full => upto = before \cup {i}
  BY <1>3
<1>5. i \notin full => upto = before
  BY <1>3
<1>6. i \notin before
  BY DEF BinSlot
<1> HIDE DEF before, upto
<1>7. Cardinality(before \cup {i}) = Cardinality(before) + 1
  BY <1>2, <1>6, FS_AddElement
<1> QED BY <1>2, <1>4, <1>5, <1>7 DEF full

LEMMA RankEnds ==
  ASSUME NEW b
  PROVE  Rank(b, 0) = 0 /\ Rank(b, BinSize) = Cardinality(Occupied(b))
<1>1. Occupied(b) \subseteq BinSlot
  BY DEF Occupied
<1>2. {j \in Occupied(b) : j < 0} = {}
  BY <1>1 DEF BinSlot
<1>3. {j \in Occupied(b) : j < BinSize} = Occupied(b)
  BY <1>1 DEF BinSlot
<1> QED BY <1>2, <1>3, FS_EmptySet DEF Rank

\* The rank tells the occupied slots apart.
LEMMA RankGrows ==
  ASSUME NEW b, NEW i \in Occupied(b), NEW j \in Occupied(b), i < j
  PROVE  Rank(b, i) < Rank(b, j)
<1> DEFINE full == Occupied(b)
           low  == {l \in full : l < i}
           high == {l \in full : l < j}
<1>1. full \subseteq Int
  BY DEF Occupied, BinSlot
<1>2. Rank(b, i) = Cardinality(low) /\ Rank(b, j) = Cardinality(high) /\ IsFiniteSet(low) /\ IsFiniteSet(high)
  BY RankType DEF Rank
<1> HIDE DEF full
<1>3. low \cup {i} \in SUBSET high /\ i \notin low
  BY <1>1 DEF full
<1> HIDE DEF low, high
<1>4. Cardinality(low \cup {i}) = Cardinality(low) + 1
  BY <1>2, <1>3, FS_AddElement
<1>5. Cardinality(low \cup {i}) <= Cardinality(high)
  BY <1>2, <1>3, FS_Subset
<1>6. Cardinality(low) \in Nat /\ Cardinality(high) \in Nat
  BY <1>2, FS_CardinalityType
<1> QED BY <1>2, <1>4, <1>5, <1>6

LEMMA RankTellsApart ==
  ASSUME NEW b, NEW i \in Occupied(b), NEW j \in Occupied(b), Rank(b, i) = Rank(b, j)
  PROVE  i = j
<1>1. i \in Int /\ j \in Int
  BY DEF Occupied, BinSlot
<1>2. CASE i < j
  <2>1. Rank(b, i) < Rank(b, j) /\ Rank(b, i) \in Nat
    BY <1>2, RankGrows, OccupiedCount
  <2> QED BY <2>1
<1>3. CASE j < i
  <2>1. Rank(b, j) < Rank(b, i) /\ Rank(b, i) \in Nat
    BY <1>3, RankGrows, OccupiedCount
  <2> QED BY <2>1
<1> QED BY <1>1, <1>2, <1>3

\* Every line is that of a slot.
LEMMA RankReached ==
  ASSUME NEW b, NEW k \in 1 .. Cardinality(Occupied(b))
  PROVE  \E i \in Occupied(b) : Rank(b, i) = k - 1
<1> DEFINE T == {i \in 0 .. BinSize : Rank(b, i) >= k}
<1>1. k \in Nat /\ Cardinality(Occupied(b)) \in Nat /\ k <= Cardinality(Occupied(b)) /\ k > 0
  BY OccupiedCount
<1>2. T \in SUBSET Nat /\ BinSize \in T
  BY <1>1, BinIs, RankEnds
<1>3. PICK m \in T : \A n \in T : m <= n
  <2> HIDE DEF T
  <2> QED BY <1>2, LeastNatural
<1>4. m # 0
  BY <1>1, <1>3, RankEnds
<1>5. m - 1 \in BinSlot /\ m - 1 \in 0 .. BinSize /\ (m - 1) + 1 = m
  BY <1>3, <1>4, BinIs DEF BinSlot
<1>6. ~(Rank(b, m - 1) >= k)
  BY <1>3, <1>5
<1> DEFINE l == m - 1
<1>7. Rank(b, m) = IF l \in Occupied(b) THEN Rank(b, l) + 1 ELSE Rank(b, l)
  BY <1>5, RankNext
<1>8. Rank(b, l) \in Nat /\ Rank(b, m) >= k
  BY <1>3, RankType
<1> HIDE DEF l
<1>9. l \in Occupied(b) /\ Rank(b, l) = k - 1
  BY <1>1, <1>6, <1>7, <1>8 DEF l
<1> QED BY <1>9

\* The lines are the entries, in the order of their slots.
LEMMA LinesAre ==
  ASSUME NEW b \in BinRec
  PROVE  /\ Lines(b) \in Seq(Stored) /\ Len(Lines(b)) = Cardinality(Occupied(b)) /\ Len(Lines(b)) \in 0 .. BinSize
         /\ \A k \in 1 .. Len(Lines(b)) : \E i \in Occupied(b) : Rank(b, i) = k - 1 /\ Lines(b)[k] = b[i]
         /\ \A i \in Occupied(b) : Rank(b, i) + 1 \in 1 .. Len(Lines(b)) /\ Lines(b)[Rank(b, i) + 1] = b[i]
<1> DEFINE n == Cardinality(Occupied(b))
           at(k) == CHOOSE i \in Occupied(b) : Rank(b, i) = k - 1
<1>1. n \in 0 .. BinSize /\ n \in Nat
  BY OccupiedCount, BinIs
<1>2. \A k \in 1 .. n : at(k) \in Occupied(b) /\ Rank(b, at(k)) = k - 1
  BY RankReached
<1>3. Lines(b) = [k \in 1 .. n |-> b[at(k)]]
  BY DEF Lines
<1> HIDE DEF at, n
<1>4. \A i \in Occupied(b) : i \in BinSlot /\ b[i] \in Stored
  BY DEF Occupied, BinRec
<1>5. Lines(b) \in [1 .. n -> Stored]
  BY <1>2, <1>3, <1>4
<1>6. Lines(b) \in Seq(Stored) /\ Len(Lines(b)) = n
  BY <1>1, <1>5
<1>7. \A k \in 1 .. n : Lines(b)[k] = b[at(k)]
  BY <1>3
<1>8. ASSUME NEW i \in Occupied(b)
      PROVE  Rank(b, i) + 1 \in 1 .. n /\ Lines(b)[Rank(b, i) + 1] = b[i]
  <2> DEFINE k == Rank(b, i) + 1
  <2>1. Rank(b, i) \in Nat /\ Rank(b, i + 1) = Rank(b, i) + 1 /\ Rank(b, i + 1) <= n
    BY <1>4, RankNext, RankType DEF n
  <2>2. k \in 1 .. n /\ Rank(b, i) = k - 1
    BY <1>1, <2>1
  <2> HIDE DEF k
  <2>3. at(k) \in Occupied(b) /\ Rank(b, at(k)) = Rank(b, i)
    BY <1>2, <2>2
  <2>4. at(k) = i
    BY <2>3, RankTellsApart
  <2> QED BY <1>7, <2>2, <2>4 DEF k
<1> QED BY <1>1, <1>2, <1>6, <1>7, <1>8 DEF n

\* Lines that tell entries apart come from entries that differ, and tell all of them.
Listed(b)   == {b[i] : i \in Occupied(b)}
Distinct(b) == \A i, j \in Occupied(b) : b[i] = b[j] => i = j
Injective(s) == \A i, j \in 1 .. Len(s) : s[i] = s[j] => i = j

LEMMA LinesTell ==
  ASSUME NEW b \in BinRec
  PROVE  /\ {Lines(b)[k] : k \in 1 .. Len(Lines(b))} = Listed(b)
         /\ Distinct(b) => Injective(Lines(b))
<1> DEFINE s == Lines(b)
<1>1. /\ \A k \in 1 .. Len(s) : \E i \in Occupied(b) : Rank(b, i) = k - 1 /\ s[k] = b[i]
      /\ \A i \in Occupied(b) : Rank(b, i) + 1 \in 1 .. Len(s) /\ s[Rank(b, i) + 1] = b[i]
  BY LinesAre
<1> HIDE DEF s
<1>2. {s[k] : k \in 1 .. Len(s)} = Listed(b)
  <2>1. ASSUME NEW k \in 1 .. Len(s) PROVE s[k] \in Listed(b)
    BY <1>1 DEF Listed
  <2>2. ASSUME NEW i \in Occupied(b) PROVE b[i] \in {s[k] : k \in 1 .. Len(s)}
    BY <1>1
  <2> QED BY <2>1, <2>2 DEF Listed
<1>3. ASSUME Distinct(b), NEW k \in 1 .. Len(s), NEW l \in 1 .. Len(s), s[k] = s[l]
      PROVE  k = l
  <2>1. PICK i \in Occupied(b) : Rank(b, i) = k - 1 /\ s[k] = b[i]
    BY <1>1
  <2>2. PICK j \in Occupied(b) : Rank(b, j) = l - 1 /\ s[l] = b[j]
    BY <1>1
  <2>3. i = j
    BY <1>3, <2>1, <2>2 DEF Distinct
  <2> QED BY <2>1, <2>2, <2>3
<1> QED BY <1>2, <1>3 DEF Injective, s

\* What load_index puts into the slots.
Unpacked(s) == [i \in BinSlot |-> IF i < Len(s) THEN s[i + 1] ELSE NoEntry]

LEMMA UnpackedIs ==
  ASSUME NEW s \in Seq(Stored), Len(s) <= BinSize
  PROVE  /\ Unpacked(s) \in BinRec /\ Occupied(Unpacked(s)) = 0 .. Len(s) - 1
         /\ Lines(Unpacked(s)) = s
         /\ Listed(Unpacked(s)) = {s[k] : k \in 1 .. Len(s)}
         /\ Injective(s) => Distinct(Unpacked(s))
<1> DEFINE b == Unpacked(s)
           n == Len(s)
<1>1. n \in Nat /\ \A k \in 1 .. n : s[k] \in Stored
  OBVIOUS
<1>2. \A i \in BinSlot : b[i] = IF i < n THEN s[i + 1] ELSE NoEntry
  BY DEF Unpacked
<1>3. \A i \in 0 .. n - 1 : i \in BinSlot /\ i + 1 \in 1 .. n /\ b[i] = s[i + 1] /\ b[i] \in Stored
  <2> SUFFICES ASSUME NEW i \in 0 .. n - 1
               PROVE  i \in BinSlot /\ i + 1 \in 1 .. n /\ b[i] = s[i + 1] /\ b[i] \in Stored
    OBVIOUS
  <2>1. i \in BinSlot /\ i < n /\ i + 1 \in 1 .. n
    BY <1>1, BinIs DEF BinSlot
  <2> HIDE DEF b, n
  <2> QED BY <1>1, <1>2, <2>1
<1>4. b \in BinRec
  <2>1. \A i \in BinSlot : i < n => i \in 0 .. n - 1
    BY <1>1 DEF BinSlot
  <2>2. \A i \in BinSlot : b[i] \in Stored \cup {NoEntry}
    <3> HIDE DEF b, n
    <3> QED BY <1>2, <1>3, <2>1
  <2>3. b = [i \in BinSlot |-> b[i]]
    BY DEF Unpacked
  <2> HIDE DEF b
  <2> QED BY <2>2, <2>3 DEF BinRec
<1> HIDE DEF b
<1>5. Occupied(b) = 0 .. n - 1
  <2>1. \A i \in BinSlot : i < n <=> i \in 0 .. n - 1
    BY <1>1 DEF BinSlot
  <2> HIDE DEF n
  <2> QED BY <1>2, <1>3, <2>1, StoredNotEmpty DEF Occupied
<1>6. Cardinality(Occupied(b)) = n
  <2> HIDE DEF n
  <2>1. Cardinality(0 .. n - 1) = n
    BY <1>1, FS_Interval
  <2> QED BY <1>5, <2>1
<1>7. \A i \in Occupied(b) : Rank(b, i) = i
  <2> SUFFICES ASSUME NEW i \in 0 .. n - 1 PROVE Rank(b, i) = i
    BY <1>5
  <2>1. {j \in 0 .. n - 1 : j < i} = 0 .. i - 1
    BY <1>1
  <2>2. Cardinality(0 .. i - 1) = i
    BY <1>1, FS_Interval
  <2> QED BY <1>5, <2>1, <2>2 DEF Rank
<1>8. Lines(b) = s
  <2> DEFINE t == Lines(b)
  <2>1. /\ t \in Seq(Stored) /\ Len(t) = n
        /\ \A k \in 1 .. Len(t) : \E i \in Occupied(b) : Rank(b, i) = k - 1 /\ t[k] = b[i]
    BY <1>4, <1>6, LinesAre
  <2> HIDE DEF t
  <2>2. \A k \in 1 .. n : t[k] = s[k]
    <3> SUFFICES ASSUME NEW k \in 1 .. n PROVE t[k] = s[k]
      OBVIOUS
    <3>1. PICK i \in Occupied(b) : Rank(b, i) = k - 1 /\ t[k] = b[i]
      BY <2>1
    <3>2. i = k - 1 /\ i + 1 = k /\ i \in 0 .. n - 1
      BY <1>1, <1>5, <1>7, <3>1
    <3>3. b[i] = s[i + 1]
      BY <1>3, <3>2
    <3> QED BY <3>1, <3>2, <3>3
  <2>3. t = s
    BY <2>1, <2>2
  <2> QED BY <2>3 DEF t
<1>9. Listed(b) = {s[k] : k \in 1 .. n}
  BY <1>4, <1>8, LinesTell
<1>10. Injective(s) => Distinct(b)
  <2> SUFFICES ASSUME Injective(s), NEW i \in 0 .. n - 1, NEW j \in 0 .. n - 1, b[i] = b[j]
               PROVE  i = j
    BY <1>5 DEF Distinct
  <2>1. i + 1 \in 1 .. n /\ j + 1 \in 1 .. n /\ s[i + 1] = s[j + 1]
    BY <1>3
  <2>2. i + 1 = j + 1
    BY <2>1 DEF Injective
  <2> QED BY <1>1, <2>2
<1> QED BY <1>4, <1>5, <1>8, <1>9, <1>10 DEF b, n

-----------------------------------------------------------------------------
(* The index and the store.                                                *)

Here    == <<tcall.slot, tcall.name>>
Stocked == {k \in Stored : store[k] # Absent}
Adding  == tcall.at \in {"copy", "remove", "list"}
Taking  == tcall.at \in {"copyback", "unstore", "unlist"}

\* The types, and what a call knows of its slot: it starts with an index in memory,
\* it copies a file that is there, and it takes out an entry that is there.
Shelf ==
  /\ TrashTypeOK
  /\ ~At("idle") => loaded
  /\ ~loaded => bin = [i \in BinSlot |-> NoEntry]
  /\ tcall.at \in {"copy", "remove"} => home[tcall.name] # Absent
  /\ At("list") => store[Here] # Absent
  /\ Taking => bin[tcall.slot] \in Stored

\* The entries differ, and name what is stored but for the file a call is about to
\* list or has just taken out; the index on disk is the one in memory until a call
\* saves it.
Indexed ==
  /\ Distinct(Index)
  /\ Adding => Here \notin Listed(Index) /\ bin[tcall.slot] = NoEntry
  /\ Stocked = IF Adding THEN Listed(Index) \cup {Here}
               ELSE IF At("unlist") THEN Listed(Index) \ {bin[tcall.slot]}
               ELSE Listed(Index)
  /\ tcall.at \notin {"save", "empty"} => info = Lines(Index)

IndexInv == TrashInv /\ Shelf /\ (~struck => Indexed)

\* An entry more.
LEMMA AddEntry ==
  ASSUME NEW b \in BinRec, NEW i \in BinSlot, NEW e \in Stored, b[i] = NoEntry, e \notin Listed(b), Distinct(b),
         NEW c, c = [b EXCEPT ![i] = e]
  PROVE  Distinct(c) /\ Listed(c) = Listed(b) \cup {e}
<1>1. c[i] = e /\ \A j \in BinSlot : j # i => c[j] = b[j]
  BY DEF BinRec
<1>2. Occupied(c) = Occupied(b) \cup {i} /\ i \notin Occupied(b)
  BY <1>1, StoredNotEmpty DEF Occupied
<1>3. \A j \in Occupied(b) : c[j] = b[j] /\ c[j] # e
  BY <1>1, <1>2 DEF Listed, Occupied
<1>4. Distinct(c)
  BY <1>1, <1>2, <1>3 DEF Distinct
<1>5. Listed(c) = Listed(b) \cup {e}
  <2>1. Listed(c) \subseteq Listed(b) \cup {e}
    BY <1>1, <1>2, <1>3 DEF Listed
  <2>2. \A j \in Occupied(b) : j \in Occupied(c) /\ c[j] = b[j]
    BY <1>2, <1>3
  <2>3. i \in Occupied(c) /\ c[i] = e
    BY <1>1, <1>2
  <2>4. Listed(b) \subseteq Listed(c) /\ e \in Listed(c)
    BY <2>2, <2>3, Zenon DEF Listed
  <2> QED BY <2>1, <2>4
<1> QED BY <1>4, <1>5

\* An entry less.
LEMMA DropEntry ==
  ASSUME NEW b \in BinRec, NEW i \in Occupied(b), Distinct(b),
         NEW c, c = [b EXCEPT ![i] = NoEntry]
  PROVE  Distinct(c) /\ Listed(c) = Listed(b) \ {b[i]}
<1>1. c[i] = NoEntry /\ \A j \in BinSlot : j # i => c[j] = b[j]
  BY DEF BinRec, Occupied
<1>2. Occupied(c) = Occupied(b) \ {i}
  BY <1>1 DEF Occupied
<1>3. \A j \in Occupied(c) : c[j] = b[j] /\ c[j] # b[i]
  BY <1>1, <1>2 DEF Distinct, Occupied
<1>4. Distinct(c)
  BY <1>2, <1>3 DEF Distinct
<1>5. Listed(c) = Listed(b) \ {b[i]}
  BY <1>1, <1>2, <1>3 DEF Listed, Occupied
<1> QED BY <1>4, <1>5

\* What load_index finds is a bin.
LEMMA IndexType ==
  ASSUME TrashTypeOK
  PROVE  /\ Index \in BinRec
         /\ loaded => Index = bin
         /\ ~loaded => Index = Unpacked(info)
BY UnpackedIs DEF Index, Unpacked, TrashTypeOK, BinRec

-----------------------------------------------------------------------------
(* The types, step by step.                                                *)

Data == Content \cup {Absent, Hollow}

LEMMA TypeParts ==
  TrashTypeOK <=> /\ home \in [FileName -> Data] /\ store \in [Stored -> Data]
                  /\ info \in Seq(Stored) /\ Len(info) <= BinSize
                  /\ bin \in BinRec /\ {loaded, struck} \subseteq BOOLEAN
                  /\ tcall.at \in Places /\ kept \subseteq Content
BY DEF TrashTypeOK, Data, BinRec, Places

\* save_index leaves the index as it is or empty.
LEMMA SaveType ==
  ASSUME TrashTypeOK, SaveBegin
  PROVE  info' \in Seq(Stored) /\ Len(info') <= BinSize /\ struck' \in BOOLEAN
<1>1. info \in Seq(Stored) /\ Len(info) <= BinSize /\ struck \in BOOLEAN
  BY TypeParts
<1>2. <<>> \in Seq(Stored) /\ Len(<<>>) <= BinSize
  BY BinIs
<1> QED BY <1>1, <1>2 DEF SaveBegin

LEMMA TypeStep ==
  ASSUME Shelf, Shapes, Shapes', TrashNext
  PROVE  TrashTypeOK'
<1> SUFFICES /\ home' \in [FileName -> Data] /\ store' \in [Stored -> Data]
             /\ info' \in Seq(Stored) /\ Len(info') <= BinSize
             /\ bin' \in BinRec /\ {loaded', struck'} \subseteq BOOLEAN
  BY DEF Shapes, TrashTypeOK, Data, BinRec, Places
<1>0. /\ home \in [FileName -> Data] /\ store \in [Stored -> Data]
      /\ info \in Seq(Stored) /\ Len(info) <= BinSize
      /\ bin \in BinRec /\ {loaded, struck} \subseteq BOOLEAN
  BY TypeParts DEF Shelf
<1>1. tcall.slot \in BinSlot /\ tcall.name \in FileName /\ Here \in Stored
  BY StoredPairs DEF Shapes, Here
<1>2. Absent \in Data /\ Hollow \in Data /\ Content \subseteq Data
  BY DEF Data
<1>3. Index \in BinRec /\ TrashTypeOK
  BY IndexType DEF Shelf
<1>4. CASE UserWrites
  BY <1>0, <1>2, <1>4 DEF UserWrites
<1>5. CASE MoveIn
  <2>1. bin' = Index /\ loaded' = TRUE /\ UNCHANGED <<info, struck>>
    BY <1>5 DEF MoveIn
  <2>2. store' = store \/ \E k : store' = [store EXCEPT ![k] = Hollow]
    BY <1>5 DEF MoveIn
  <2>3. home' = home \/ \E n : home' = [home EXCEPT ![n] = Absent]
    BY <1>5 DEF MoveIn, Refused
  <2> QED BY <1>0, <1>2, <1>3, <2>1, <2>2, <2>3
<1>6. CASE Copy
  <2>1. UNCHANGED <<info, bin, loaded, struck>>
    BY <1>6 DEF Copy
  <2>2. \E d \in Data : store' = [store EXCEPT ![Here] = d]
    BY <1>0, <1>1, <1>2, <1>6 DEF Copy, Here
  <2>3. home' = home \/ home' = [home EXCEPT ![tcall.name] = Absent]
    BY <1>6 DEF Copy, Refused
  <2> QED BY <1>0, <1>2, <2>1, <2>2, <2>3
<1>7. CASE Remove
  BY <1>0, <1>2, <1>7 DEF Remove
<1>8. CASE List
  <2>1. bin' = [bin EXCEPT ![tcall.slot] = Here] /\ UNCHANGED <<home, store, loaded>> /\ SaveBegin
    BY <1>8 DEF List, Here
  <2>2. bin' \in BinRec
    BY <1>0, <1>1, <2>1 DEF BinRec
  <2> QED BY <1>0, <1>3, <2>1, <2>2, SaveType
<1>9. CASE Save
  <2>1. Lines(bin) \in Seq(Stored) /\ Len(Lines(bin)) <= BinSize
    BY <1>0, LinesAre
  <2>2. UNCHANGED <<home, store, bin, loaded>> /\ info' \in {info, Lines(bin)} /\ struck' \in {struck, TRUE}
    BY <1>9 DEF Save
  <2> QED BY <1>0, <2>1, <2>2
<1>10. CASE Restore
  <2>1. UNCHANGED <<store, info, bin, loaded, struck>> /\ \E n : home' = [home EXCEPT ![n] = Hollow]
    BY <1>10 DEF Restore
  <2> QED BY <1>0, <1>2, <2>1
<1>11. CASE CopyBack
  <2>1. UNCHANGED <<store, info, bin, loaded, struck>>
    BY <1>11 DEF CopyBack
  <2>2. store[bin[tcall.slot]] \in Data
    BY <1>0, <1>11 DEF CopyBack, Shelf, Taking, At
  <2>3. home' = home \/ home' = [home EXCEPT ![tcall.name] = store[bin[tcall.slot]]]
    BY <1>11 DEF CopyBack
  <2> QED BY <1>0, <2>1, <2>2, <2>3
<1>12. CASE Unstore
  BY <1>0, <1>2, <1>12 DEF Unstore
<1>13. CASE Unlist
  <2>1. bin' = [bin EXCEPT ![tcall.slot] = NoEntry] /\ UNCHANGED <<home, store, loaded>> /\ SaveBegin
    BY <1>13 DEF Unlist
  <2>2. bin' \in BinRec
    BY <1>0, <2>1 DEF BinRec
  <2> QED BY <1>0, <1>3, <2>1, <2>2, SaveType
<1>14. CASE EmptyBegin
  BY <1>0, <1>3, <1>14 DEF EmptyBegin
<1>15. CASE EmptyStep
  <2> DEFINE i == CHOOSE x \in Occupied(bin) : \A y \in Occupied(bin) : x <= y
  <2>1. CASE Occupied(bin) = {}
    <3>1. SaveBegin /\ UNCHANGED <<home, store, bin, loaded>>
      BY <1>15, <2>1 DEF EmptyStep
    <3> QED BY <1>0, <1>3, <3>1, SaveType
  <2>2. CASE Occupied(bin) # {}
    <3>1. /\ store' = [store EXCEPT ![bin[i]] = Absent] /\ bin' = [bin EXCEPT ![i] = NoEntry]
          /\ UNCHANGED <<home, info, loaded, struck>>
      BY <1>15, <2>2 DEF EmptyStep
    <3> HIDE DEF i
    <3>2. bin' \in BinRec
      BY <1>0, <3>1 DEF BinRec
    <3> QED BY <1>0, <1>2, <3>1, <3>2
  <2> QED BY <2>1, <2>2
<1>16. CASE Restart
  <2>1. bin' = [i \in BinSlot |-> NoEntry] /\ loaded' = FALSE /\ UNCHANGED <<home, store, info>>
        /\ struck' \in BOOLEAN
    BY <1>0, <1>16 DEF Restart
  <2>2. bin' \in BinRec
    BY <2>1 DEF BinRec
  <2> QED BY <1>0, <2>1, <2>2
<1> QED BY <1>4, <1>5, <1>6, <1>7, <1>8, <1>9, <1>10, <1>11, <1>12, <1>13, <1>14, <1>15, <1>16 DEF TrashNext

\* What a call knows of its slot, kept by every step.
LEMMA ShelfStep ==
  ASSUME Shelf, TrashInv, TrashInv', TrashNext
  PROVE  Shelf'
<1>0. Shapes /\ Shapes' /\ UnderWay
  BY DEF TrashInv
<1>1. TrashTypeOK'
  BY <1>0, TypeStep
<1>2. /\ home \in [FileName -> Data] /\ store \in [Stored -> Data] /\ bin \in BinRec
      /\ tcall \in [at : Places, slot : BinSlot, name : FileName] /\ Here \in Stored
  BY <1>0, TypeParts, StoredPairs DEF Shelf, Shapes, Here
<1>3. /\ ~At("idle") => loaded
      /\ ~loaded => bin = [i \in BinSlot |-> NoEntry]
      /\ tcall.at \in {"copy", "remove"} => home[tcall.name] # Absent
      /\ At("list") => store[Here] # Absent
      /\ Taking => bin[tcall.slot] \in Stored
  BY DEF Shelf
<1> DEFINE Quiet == tcall'.at \in {"idle", "save", "empty"} /\ (~At("idle")' => loaded')
                    /\ (~loaded' => bin' = [i \in BinSlot |-> NoEntry])
<1>4. Quiet => Shelf'
  BY <1>1 DEF Shelf, At, Taking
<1>5. Idle.at = "idle"
  BY IdleShape
<1>6. SaveBegin /\ (~At("idle") => loaded) => tcall'.at \in {"idle", "save"}
  BY <1>2, <1>5 DEF SaveBegin, Goto
<1>7. CASE UserWrites \/ Save \/ Restart \/ EmptyBegin
  <2>1. CASE UserWrites
    BY <1>3, <1>4, <2>1 DEF UserWrites, At
  <2>2. CASE Save
    BY <1>3, <1>4, <1>5, <2>2 DEF Save, At
  <2>3. CASE Restart
    BY <1>4, <1>5, <2>3 DEF Restart, At
  <2>4. CASE EmptyBegin
    BY <1>2, <1>4, <2>4 DEF EmptyBegin, Goto
  <2> QED BY <1>7, <2>1, <2>2, <2>3, <2>4
<1>8. CASE MoveIn
  <2>1. loaded' = TRUE
    BY <1>8 DEF MoveIn
  <2>2. CASE tcall' = Idle
    BY <1>4, <1>5, <2>1, <2>2
  <2>3. CASE tcall' # Idle
    <3>1. \E n \in FileName : home[n] # Absent /\ home' = home /\ tcall'.name = n /\ tcall'.at = "copy"
      BY <1>8, <2>3 DEF MoveIn, Refused
    <3> QED BY <1>1, <2>1, <3>1 DEF Shelf, At, Taking
  <2> QED BY <2>2, <2>3
<1>9. CASE Copy
  <2>1. At("copy") /\ UNCHANGED <<bin, loaded>>
    BY <1>9 DEF Copy
  <2>2. CASE tcall' = Idle
    BY <1>3, <1>4, <1>5, <2>1, <2>2 DEF At
  <2>3. CASE tcall' # Idle
    <3>1. tcall'.at = "remove" /\ tcall'.name = tcall.name /\ home' = home
      BY <1>2, <1>9, <2>3 DEF Copy, Refused, Goto
    <3> QED BY <1>1, <1>3, <2>1, <3>1 DEF Shelf, At, Taking
  <2> QED BY <2>2, <2>3
<1>10. CASE Remove
  <2>1. At("remove") /\ tcall' = [tcall EXCEPT !.at = "list"] /\ UNCHANGED <<bin, loaded, store>>
    BY <1>10 DEF Remove, Goto
  <2>2. store[Here] # Absent
    BY <1>0, <1>3, <2>1 DEF UnderWay, Here, At
  <2>3. tcall'.at = "list" /\ Here' = Here
    BY <1>2, <2>1 DEF Here
  <2> QED BY <1>1, <1>3, <2>1, <2>2, <2>3 DEF Shelf, At, Taking
<1>11. CASE List \/ Unlist
  <2>1. SaveBegin /\ loaded
    BY <1>3, <1>11 DEF List, Unlist, At
  <2>2. loaded' = loaded
    BY <1>11 DEF List, Unlist
  <2> QED BY <1>4, <1>6, <2>1, <2>2
<1>12. CASE Restore
  <2>1. \E i \in BinSlot : bin[i] \in Stored /\ tcall' = [at |-> "copyback", slot |-> i, name |-> bin[i][2]]
    BY <1>12 DEF Restore
  <2>2. UNCHANGED <<bin, loaded>>
    BY <1>12 DEF Restore
  <2>3. loaded
    BY <1>3, <2>1, StoredNotEmpty
  <2>4. tcall'.at = "copyback" /\ bin'[tcall'.slot] \in Stored
    BY <2>1, <2>2
  <2> QED BY <1>1, <2>2, <2>3, <2>4 DEF Shelf, At, Taking
<1>13. CASE CopyBack \/ Unstore
  <2>1. Taking /\ ~At("idle") /\ UNCHANGED <<bin, loaded>>
    BY <1>13 DEF CopyBack, Unstore, At, Taking
  <2>2. CASE tcall' = Idle
    BY <1>3, <1>4, <1>5, <2>1, <2>2
  <2>3. CASE tcall' # Idle
    <3>1. tcall'.at \in {"unstore", "unlist"} /\ tcall'.slot = tcall.slot
      BY <1>2, <1>13, <2>3 DEF CopyBack, Unstore, Goto
    <3> QED BY <1>1, <1>3, <2>1, <3>1 DEF Shelf, At, Taking
  <2> QED BY <2>2, <2>3
<1>14. CASE EmptyStep
  <2>1. At("empty") /\ loaded /\ loaded' = loaded
    BY <1>3, <1>14 DEF EmptyStep, At
  <2>2. SaveBegin \/ tcall' = tcall
    BY <1>14 DEF EmptyStep
  <2> QED BY <1>4, <1>6, <2>1, <2>2 DEF At
<1> QED BY <1>7, <1>8, <1>9, <1>10, <1>11, <1>12, <1>13, <1>14 DEF TrashNext

-----------------------------------------------------------------------------
(* The index, step by step.                                                *)

\* A step that leaves the slots and the index on disk alone, by which no call begins
\* or ends that adds an entry.
LEMMA IndexStays ==
  ASSUME TrashTypeOK, bin' = Index, loaded', info' = info
  PROVE  Index' = Index
BY IndexType DEF Index

\* The step of each kind.
LEMMA IndexedStep ==
  ASSUME Shelf, Shelf', TrashInv, ~struck => Indexed, TrashNext, ~struck'
  PROVE  Indexed'
<1>0. /\ home \in [FileName -> Data] /\ store \in [Stored -> Data] /\ bin \in BinRec
      /\ tcall \in [at : Places, slot : BinSlot, name : FileName] /\ Here \in Stored
      /\ info \in Seq(Stored) /\ Len(info) <= BinSize /\ tcall.slot \in BinSlot
      /\ TrashTypeOK /\ UnderWay
  BY TypeParts, StoredPairs DEF TrashInv, Shelf, Shapes, Here
<1>1. /\ ~At("idle") => loaded
      /\ tcall.at \in {"copy", "remove"} => home[tcall.name] # Absent
      /\ At("list") => store[Here] # Absent
      /\ Taking => bin[tcall.slot] \in Stored
  BY DEF Shelf
<1>2. /\ Index \in BinRec
      /\ loaded => Index = bin
      /\ ~loaded => Index = Unpacked(info)
      /\ loaded' => Index' = bin'
      /\ ~loaded' => Index' = Unpacked(info')
  BY <1>0, IndexType DEF Index, Unpacked
<1>3. ~struck
  <2>1. struck' = struck \/ struck' = TRUE \/ struck' = (struck \/ ~At("idle"))
    BY DEF TrashNext, UserWrites, MoveIn, Copy, Remove, List, Save, Restore, CopyBack, Unstore, Unlist,
           EmptyBegin, EmptyStep, Restart, SaveBegin
  <2> QED BY <2>1
<1>4. /\ Distinct(Index)
      /\ Adding => Here \notin Listed(Index) /\ bin[tcall.slot] = NoEntry
      /\ Stocked = IF Adding THEN Listed(Index) \cup {Here}
                   ELSE IF At("unlist") THEN Listed(Index) \ {bin[tcall.slot]}
                   ELSE Listed(Index)
      /\ tcall.at \notin {"save", "empty"} => info = Lines(Index)
  BY <1>3 DEF Indexed
<1>5. Idle.at = "idle"
  BY IdleShape
\* A step after which no call adds or has taken out.
<1> DEFINE Settled == tcall'.at \notin {"copy", "remove", "list", "unlist"}
<1>6. ASSUME Settled, Index' = Index, info' = info, Stocked' = Listed(Index), info = Lines(Index)
      PROVE  Indexed'
  BY <1>4, <1>6 DEF Indexed, Adding, At
<1>7. ASSUME tcall'.at \in {"save", "empty"}, Distinct(Index'), Stocked' = Listed(Index')
      PROVE  Indexed'
  BY <1>7 DEF Indexed, Adding, At
<1>8. SaveBegin => tcall'.at = "save"
  BY <1>0 DEF SaveBegin, Goto
<1>9. CASE UserWrites
  <2>1. At("idle") /\ UNCHANGED <<store, info, bin, loaded, tcall>>
    BY <1>9 DEF UserWrites
  <2>2. Index' = Index /\ Stocked' = Stocked
    BY <2>1 DEF Index, Stocked
  <2> QED BY <1>4, <1>6, <2>1, <2>2 DEF At, Adding
<1>10. CASE MoveIn
  <2>1. At("idle") /\ bin' = Index /\ loaded' = TRUE /\ info' = info
    BY <1>10 DEF MoveIn
  <2>2. Index' = Index /\ info = Lines(Index) /\ Stocked = Listed(Index)
    BY <1>2, <1>4, <2>1 DEF At, Adding
  <2> DEFINE free == {i \in BinSlot : bin'[i] = NoEntry}
             slot == CHOOSE i \in free : \A j \in free : i <= j
  <2>3. PICK n \in FileName :
             IF free # {} /\ store[<<slot, n>>] = Absent
             THEN /\ store' = [store EXCEPT ![<<slot, n>>] = Hollow]
                  /\ tcall' = [at |-> "copy", slot |-> slot, name |-> n]
                  /\ UNCHANGED <<home, kept>>
             ELSE Refused(n) /\ UNCHANGED store
    BY <1>10 DEF MoveIn
  <2>4. CASE free # {} /\ store[<<slot, n>>] = Absent
    <3>1. slot \in free /\ slot \in BinSlot
      BY <2>4, FirstSlot
    <3>2. /\ store' = [store EXCEPT ![<<slot, n>>] = Hollow]
          /\ tcall' = [at |-> "copy", slot |-> slot, name |-> n]
      BY <2>3, <2>4
    <3>3. bin'[slot] = NoEntry
      BY <3>1
    <3> HIDE DEF free, slot
    <3> DEFINE k == <<slot, n>>
    <3>4. k \in Stored /\ Here' = k
      BY <3>1, <3>2, StoredPairs DEF Here
    <3>5. store' = [store EXCEPT ![k] = Hollow] /\ store[k] = Absent
      BY <2>4, <3>2
    <3> HIDE DEF k
    <3>6. Stocked' = Stocked \cup {k} /\ k \notin Stocked
      BY <1>0, <3>4, <3>5, TrashAssumption DEF Stocked, Absent, Hollow
    <3>7. tcall'.at = "copy" /\ tcall'.slot = slot
      BY <3>2
    <3> QED BY <1>4, <2>1, <2>2, <3>3, <3>4, <3>6, <3>7 DEF Indexed, Adding, At
  <2>5. CASE ~(free # {} /\ store[<<slot, n>>] = Absent)
    <3>1. Refused(n) /\ store' = store
      BY <2>3, <2>5
    <3>2. tcall' = Idle /\ Stocked' = Stocked
      BY <3>1 DEF Refused, Stocked
    <3> QED BY <1>5, <1>6, <2>1, <2>2, <3>2
  <2> QED BY <2>4, <2>5
<1>11. CASE Copy
  <2>1. At("copy") /\ UNCHANGED <<info, bin, loaded>>
    BY <1>11 DEF Copy
  <2>2. Index' = Index /\ Adding /\ info = Lines(Index)
    BY <1>4, <2>1 DEF Index, Adding, At
  <2>3. CASE store' = [store EXCEPT ![Here] = home[tcall.name]] /\ Goto("remove")
    <3>1. Stocked' = Stocked
      BY <1>0, <1>1, <1>4, <2>1, <2>2, <2>3 DEF Stocked, At
    <3>2. tcall'.at = "remove" /\ tcall'.slot = tcall.slot /\ Here' = Here
      BY <1>0, <2>3 DEF Goto, Here
    <3> QED BY <1>4, <2>1, <2>2, <3>1, <3>2 DEF Indexed, Adding, At
  <2>4. CASE store' = [store EXCEPT ![Here] = Absent] /\ tcall' = Idle
    <3>1. Stocked' = Stocked \ {Here}
      BY <1>0, <2>4 DEF Stocked
    <3>2. Stocked' = Listed(Index)
      BY <1>4, <2>2, <3>1
    <3> QED BY <1>5, <1>6, <2>1, <2>2, <2>4, <3>2
  <2> QED BY <1>11, <2>3, <2>4 DEF Copy, Refused, Here
<1>12. CASE Remove
  <2>1. At("remove") /\ UNCHANGED <<store, info, bin, loaded>> /\ Goto("list")
    BY <1>12 DEF Remove
  <2>2. Index' = Index /\ Adding /\ info = Lines(Index) /\ Stocked' = Stocked
    BY <1>4, <2>1 DEF Index, Adding, At, Stocked
  <2>3. tcall'.at = "list" /\ tcall'.slot = tcall.slot /\ Here' = Here
    BY <1>0, <2>1 DEF Goto, Here
  <2> QED BY <1>4, <2>1, <2>2, <2>3 DEF Indexed, Adding, At
<1>13. CASE List
  <2>1. /\ At("list") /\ bin' = [bin EXCEPT ![tcall.slot] = Here] /\ SaveBegin
        /\ loaded /\ loaded' /\ Stocked' = Stocked /\ Adding
    BY <1>1, <1>13 DEF List, Here, At, Stocked, Adding
  <2>2. Index = bin /\ Index' = bin'
    BY <1>2, <2>1
  <2>3. Distinct(bin') /\ Listed(bin') = Listed(bin) \cup {Here}
    BY <1>0, <1>4, <2>1, <2>2, AddEntry
  <2> QED BY <1>4, <1>7, <1>8, <2>1, <2>2, <2>3
<1>14. CASE Save
  <2>1. At("save") /\ info' = Lines(bin) /\ tcall' = Idle /\ UNCHANGED <<store, bin, loaded>>
    BY <1>14 DEF Save
  <2>2. Index = bin /\ Index' = bin' /\ Stocked' = Stocked /\ Stocked = Listed(Index)
    BY <1>1, <1>2, <1>4, <2>1 DEF At, Adding, Stocked
  <2>3. info' = Lines(Index')
    BY <2>1, <2>2
  <2> QED BY <1>4, <1>5, <2>1, <2>2, <2>3 DEF Indexed, Adding, At
<1>15. CASE Restore \/ CopyBack
  <2>1. /\ tcall.at \in {"idle", "copyback"} /\ UNCHANGED <<store, info, bin, loaded>>
        /\ tcall'.at \in {"idle", "copyback", "unstore"}
    BY <1>0, <1>5, <1>15 DEF Restore, CopyBack, Goto, At
  <2>2. Index' = Index /\ info = Lines(Index) /\ Stocked' = Stocked /\ Stocked = Listed(Index)
    BY <1>4, <2>1 DEF Index, Adding, At, Stocked
  <2> QED BY <1>6, <2>1, <2>2
<1>16. CASE Unstore
  <2> DEFINE k == bin[tcall.slot]
  <2>1. At("unstore") /\ store' = [store EXCEPT ![k] = Absent] /\ UNCHANGED <<info, bin, loaded>>
    BY <1>16 DEF Unstore
  <2>2. tcall'.at = "unlist" /\ tcall'.slot = tcall.slot /\ bin' = bin
    BY <1>0, <1>16 DEF Unstore, Goto
  <2>3. Index' = Index /\ info = Lines(Index) /\ Stocked = Listed(Index)
    BY <1>4, <2>1 DEF Index, Adding, At
  <2>4. bin'[tcall'.slot] = k
    BY <2>2
  <2> HIDE DEF k
  <2>5. Stocked' = Stocked \ {k}
    BY <1>0, <2>1 DEF Stocked
  <2> QED BY <1>4, <2>1, <2>2, <2>3, <2>4, <2>5 DEF Indexed, Adding, At
<1>17. CASE Unlist
  <2>1. /\ At("unlist") /\ bin' = [bin EXCEPT ![tcall.slot] = NoEntry] /\ SaveBegin
        /\ loaded /\ loaded' /\ Stocked' = Stocked
    BY <1>1, <1>17 DEF Unlist, At, Stocked
  <2>2. Index = bin /\ Index' = bin' /\ Stocked = Listed(bin) \ {bin[tcall.slot]}
    BY <1>2, <1>4, <2>1 DEF Adding, At
  <2>3. tcall.slot \in Occupied(bin)
    BY <1>0, <1>1, <2>1, StoredNotEmpty DEF Occupied, Taking, At
  <2>4. Distinct(bin') /\ Listed(bin') = Listed(bin) \ {bin[tcall.slot]}
    BY <1>0, <1>4, <2>1, <2>2, <2>3, DropEntry
  <2> QED BY <1>7, <1>8, <2>1, <2>2, <2>4
<1>18. CASE EmptyBegin
  <2>1. At("idle") /\ bin' = Index /\ loaded' /\ tcall'.at = "empty" /\ UNCHANGED <<store, info>>
    BY <1>0, <1>18 DEF EmptyBegin, Goto
  <2>2. Index' = Index /\ Stocked' = Stocked /\ Stocked = Listed(Index)
    BY <1>2, <1>4, <2>1 DEF At, Adding, Stocked
  <2> QED BY <1>4, <1>7, <2>1, <2>2
<1>19. CASE EmptyStep
  <2> DEFINE i == CHOOSE x \in Occupied(bin) : \A y \in Occupied(bin) : x <= y
             k == bin[i]
  <2>1. At("empty") /\ loaded /\ loaded' = loaded
    BY <1>1, <1>19 DEF EmptyStep, At
  <2>2. Index = bin /\ Index' = bin' /\ Stocked = Listed(bin) /\ Distinct(bin)
    BY <1>2, <1>4, <2>1 DEF Adding, At
  <2>3. CASE Occupied(bin) = {}
    <3>1. SaveBegin /\ UNCHANGED <<store, bin>>
      BY <1>19, <2>3 DEF EmptyStep
    <3>2. Stocked' = Stocked
      BY <3>1 DEF Stocked
    <3> QED BY <1>7, <1>8, <2>2, <3>1, <3>2
  <2>4. CASE Occupied(bin) # {}
    <3>1. /\ store' = [store EXCEPT ![k] = Absent] /\ bin' = [bin EXCEPT ![i] = NoEntry]
          /\ tcall' = tcall
      BY <1>19, <2>4 DEF EmptyStep
    <3>2. i \in Occupied(bin)
      <4>1. Occupied(bin) \in SUBSET BinSlot
        BY DEF Occupied
      <4> DEFINE A == Occupied(bin)
      <4> HIDE DEF A
      <4>2. A # {} => (CHOOSE x \in A : \A y \in A : x <= y) \in A
        BY <4>1, FirstSlot DEF A
      <4> QED BY <2>4, <4>2 DEF A
    <3> HIDE DEF i
    <3>3. Distinct(bin') /\ Listed(bin') = Listed(bin) \ {k}
      BY <1>0, <2>2, <3>1, <3>2, DropEntry
    <3> HIDE DEF k
    <3>4. Stocked' = Stocked \ {k}
      BY <1>0, <3>1 DEF Stocked
    <3> QED BY <1>7, <2>1, <2>2, <3>1, <3>3, <3>4 DEF At
  <2> QED BY <2>3, <2>4
<1>20. CASE Restart
  <2>1. At("idle") /\ ~loaded' /\ tcall' = Idle /\ UNCHANGED <<store, info>>
    BY <1>20 DEF Restart
  <2>2. Index' = Unpacked(info) /\ Stocked' = Stocked /\ Stocked = Listed(Index) /\ info = Lines(Index)
    BY <1>2, <1>4, <2>1 DEF Adding, At, Stocked
  <2>3. {info[n] : n \in 1 .. Len(info)} = Listed(Index) /\ Injective(info)
    BY <1>2, <1>4, <2>2, LinesTell
  <2>4. Listed(Index') = Listed(Index) /\ Distinct(Index') /\ info = Lines(Index')
    BY <1>0, <2>2, <2>3, UnpackedIs
  <2> QED BY <1>5, <2>1, <2>2, <2>4 DEF Indexed, Adding, At
<1> QED BY <1>9, <1>10, <1>11, <1>12, <1>13, <1>14, <1>15, <1>16, <1>17, <1>18, <1>19, <1>20 DEF TrashNext

LEMMA IndexStep ==
  ASSUME IndexInv, [TrashNext]_trashVars
  PROVE  IndexInv'
<1>1. TrashInv'
  BY TrashStep DEF IndexInv
<1>2. CASE TrashNext
  <2>1. Shelf'
    BY <1>1, <1>2, ShelfStep DEF IndexInv
  <2> QED BY <1>1, <1>2, <2>1, IndexedStep DEF IndexInv
<1>3. CASE UNCHANGED trashVars
  <2>1. Shelf'
    BY <1>3 DEF trashVars, IndexInv, Shelf, TrashTypeOK, At, Here, Taking
  <2>2. (~struck => Indexed)'
    BY <1>3 DEF trashVars, IndexInv, Indexed, Index, Adding, At, Here, Stocked
  <2> QED BY <1>1, <2>1, <2>2 DEF IndexInv
<1> QED BY <1>2, <1>3

LEMMA IndexInit == TrashInit => IndexInv
<1> SUFFICES ASSUME TrashInit PROVE IndexInv
  OBVIOUS
<1>1. TrashInv
  BY IdleShape DEF TrashInit, TrashInv, Shapes, UnderWay, NothingLost, At
<1>2. <<>> \in Seq(Stored) /\ Len(<<>>) = 0 /\ BinSize >= 0
  BY BinIs
<1>3. /\ At("idle") /\ info = <<>> /\ loaded = FALSE /\ bin = [i \in BinSlot |-> NoEntry]
      /\ store = [k \in Stored |-> Absent] /\ home = [n \in FileName |-> Absent] /\ kept = {} /\ struck = FALSE
  BY IdleShape DEF TrashInit, At
<1>4. bin \in BinRec
  BY <1>3 DEF BinRec
<1>5. TrashTypeOK
  BY <1>2, <1>3, <1>4, TypeParts DEF Data, Places, At
<1>6. Shelf
  BY <1>3, <1>5 DEF Shelf, At, Taking
<1>7. Index = Unpacked(<<>>)
  BY <1>3, <1>5, IndexType
<1>8. Injective(<<>>) /\ Listed(Index) = {} /\ Lines(Index) = <<>>
  <2>1. {<<>>[k] : k \in 1 .. Len(<<>>)} = {} /\ Injective(<<>>)
    BY DEF Injective
  <2> QED BY <1>2, <1>7, <2>1, UnpackedIs
<1>9. Distinct(Index) /\ Stocked = {}
  <2>1. Distinct(Index)
    BY <1>2, <1>7, <1>8, UnpackedIs
  <2> QED BY <1>3, <2>1 DEF Stocked
<1>10. Indexed
  BY <1>3, <1>8, <1>9 DEF Indexed, Adding, At
<1> QED BY <1>1, <1>6, <1>10 DEF IndexInv

LEMMA BinHolds == TrashSpec => []IndexInv
BY IndexInit, IndexStep, PTL DEF TrashSpec

\* Directory, bin and index keep their types for any number of slots, names and
\* contents: the index never has more lines than the bin has slots.
THEOREM TrashTypeCorrect == TrashSpec => []TrashTypeOK
<1>1. IndexInv => TrashTypeOK
  BY DEF IndexInv, Shelf
<1> QED BY <1>1, BinHolds, PTL

\* As long as no call was cut short and the index was saved each time, it lists what is
\* stored, once, before and after a restart, although a restart gives the entries
\* other slots than their names say.
THEOREM IndexIsRight == TrashSpec => []IndexMatchesStore
<1>1. IndexInv => IndexMatchesStore
  <2> SUFFICES ASSUME IndexInv, At("idle"), ~struck
               PROVE  /\ Stocked = {info[i] : i \in 1 .. Len(info)}
                      /\ Injective(info) /\ info = Lines(Index)
    BY DEF IndexMatchesStore, Stocked, Injective
  <2>1. Distinct(Index) /\ Stocked = Listed(Index) /\ info = Lines(Index)
    BY DEF IndexInv, Indexed, Adding, At
  <2>2. Index \in BinRec
    BY IndexType DEF IndexInv, Shelf
  <2> QED BY <2>1, <2>2, LinesTell
<1> QED BY <1>1, BinHolds, PTL

\* What is stored between calls is listed, so that what is not given up can be found.
LEMMA ListedIsFound ==
  ASSUME IndexInv, ~struck
  PROVE  Restorable
<1> SUFFICES ASSUME At("idle"), NEW p \in kept, ~(\E n \in FileName : home[n] = p)
             PROVE  \E i \in BinSlot : Index[i] \in Stored /\ store[Index[i]] = p
  BY DEF Restorable
<1>1. p \in Content /\ NothingLost
  BY DEF IndexInv, TrashInv, Shapes
<1>2. PICK k \in Stored : store[k] = p
  BY <1>1 DEF NothingLost
<1>3. k \in Stocked
  BY <1>1, <1>2 DEF Stocked
<1>4. Stocked = Listed(Index)
  BY DEF IndexInv, Indexed, Adding, At
<1>5. PICK i \in Occupied(Index) : Index[i] = k
  BY <1>3, <1>4 DEF Listed
<1>6. i \in BinSlot
  BY DEF Occupied
<1> QED BY <1>2, <1>5, <1>6

\* A machine that is only stopped between calls, and on which no copy and no index write
\* fails, keeps its bin restorable: what the user has not given up is in the
\* directory or listed, after any number of restarts.
THEOREM BinIsRestorable ==
  ASSUME ~Fails, ~Cuts
  PROVE  TrashSpec => []Restorable
<1>1. TrashInit => ~struck
  BY DEF TrashInit
<1>2. ~struck /\ [TrashNext]_trashVars => ~struck'
  <2> SUFFICES ASSUME ~struck, [TrashNext]_trashVars PROVE ~struck'
    OBVIOUS
  <2>1. SaveBegin => ~struck'
    BY DEF SaveBegin
  <2>2. Restart => ~struck'
    BY DEF Restart
  <2>3. Save \/ List \/ Unlist \/ EmptyBegin \/ EmptyStep => ~struck'
    BY <2>1 DEF Save, List, Unlist, EmptyBegin, EmptyStep
  <2>4. UserWrites \/ MoveIn \/ Remove \/ Restore \/ Unstore => ~struck'
    BY DEF UserWrites, MoveIn, Remove, Restore, Unstore
  <2>5. Copy \/ CopyBack => ~struck'
    BY DEF Copy, CopyBack
  <2> QED BY <2>2, <2>3, <2>4, <2>5 DEF TrashNext, trashVars
<1>3. IndexInv /\ ~struck => Restorable
  BY ListedIsFound
<1> QED BY <1>1, <1>2, <1>3, BinHolds, PTL DEF TrashSpec

-----------------------------------------------------------------------------
(* THE THREE SIDE BY SIDE                                                  *)

LEMMA CallSteps ==
  /\ [CallsNext]_callsVars => [LinNext]_linVars
  /\ [CallsNext]_callsVars => [SockNext]_sockVars
  /\ [CallsNext]_callsVars => [TrashNext]_trashVars
BY DEF CallsNext, callsVars

\* Every behaviour of the composition is one of each component: what is proved of
\* them holds of what TLC runs.
THEOREM CallsBehave == CallsSpec => LinSpec /\ SockSpec /\ TrashSpec
<1>1. CallsInit => LinInit /\ SockInit /\ TrashInit
  BY DEF CallsInit
<1> QED BY <1>1, CallSteps, PTL DEF CallsSpec, LinSpec, SockSpec, TrashSpec

\* Thread table, socket links and recycle bin keep their types, for any number of
\* threads, links, processes and slots.
THEOREM CallsTypeCorrect == CallsSpec => []CallsTypeOK
<1>1. LinTypeOK /\ SockTypeOK /\ TrashTypeOK => CallsTypeOK
  BY DEF CallsTypeOK
<1> QED BY <1>1, CallsBehave, LinTypeCorrect, SockTypeCorrect, TrashTypeCorrect, PTL
=============================================================================
