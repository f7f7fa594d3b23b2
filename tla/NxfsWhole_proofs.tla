--------------------------- MODULE NxfsWhole_proofs ---------------------------
(***************************************************************************)
(* What nxfs_check may rely on, and what it leaves: while no write fails,  *)
(* the live inodes of a volume are those in its tree, so the walk from the *)
(* root sees all that is in use, and the bitmaps it writes are exact; and  *)
(* while the power stays on as well, no block is lost.                     *)
(***************************************************************************)
EXTENDS Nxfs_proofs

-----------------------------------------------------------------------------
(* The invariant.                                                          *)

Kids(m, i) == ToSet(m.ino[i].kids)

\* Only files map blocks, and every live inode is in the tree.
Bare(m)   == \A i \in Ino : m.ino[i].type # "file" => Blank(m.ino[i])
Joined(m) == \A S \in SUBSET Ino : Closed(m, S) => \A i \in Ino : m.ino[i].type # "free" => i \in S

Settled == doubt = Nil /\ Bare(disk) /\ Joined(disk)

\* A deletion inside a deletion removes the entry of a child, a file once its
\* truncation is over; and a truncation is part of the call below it.
Linked ==
  /\ \A p \in 2 .. Len(job) : job[p].op = "deldir" =>
       job[p - 1].op \in {"delfile", "deldir"} /\ job[p - 1].dir = job[p].ino
  /\ \A p \in 2 .. Len(job) : job[p].op = "delfile" => p = 2 /\ job[1].op = "trunc"
  /\ At("trunc") /\ Len(job) > 1 => job[2].op \in {"begin", "delfile"} /\ job[2].ino = job[1].ino

\* What a directory that is being deleted still holds is in its snapshot, or is
\* being deleted.
Emptying ==
  ~open => \A p \in 1 .. Len(job) :
    /\ job[p].op = "deldir" => \A c \in Kids(disk, job[p].ino) :
                                 c \in ToSet(job[p].snap) \/ (p > 1 /\ c = job[p - 1].ino)
    /\ job[p].op = "delfile" => disk.ino[job[p].ino].type # "dir"

\* f is how deep the directories of m are; nxfs_check walks down to WalkMax.
Depths(m, f) ==
  /\ f \in [Ino -> 0 .. WalkMax] /\ f[Root] = 0
  /\ \A i \in Ino : \A c \in Kids(m, i) : f[c] = f[i] + 1

\* No directory is deeper than nxfs_check, if it is called, walks.
Flat == Checks => \E f \in [Ino -> 0 .. WalkMax] : Depths(disk, f)

\* The walk has seen some of the tree, with all the blocks of what it has seen; the
\* rest hangs on inodes that it has yet to visit.
Due(w) == {w[k].ino : k \in 1 .. Len(w)}
Met(f) == f.seenI \union Due(f.walk)
Walked(f) ==
  /\ Root \in Met(f)
  /\ \A S \in SUBSET Ino : Closed(disk, S) => Met(f) \subseteq S
  /\ \A i \in f.seenI : Kids(disk, i) \subseteq Met(f)
  /\ f.seenB = UNION {Blocks(disk, disk.ino[i]) : i \in f.seenI}
  /\ \E g \in [Ino -> 0 .. WalkMax] :
       Depths(disk, g) /\ \A k \in 1 .. Len(f.walk) : f.walk[k].depth = g[f.walk[k].ino]
Walking == At("check") /\ ~open => Walked(Top)

Nested == Linked /\ Emptying /\ Walking

Exact == Settled /\ Nested

-----------------------------------------------------------------------------
(* Trees.                                                                  *)

LEMMA KidsAre ==
  ASSUME NEW m \in Store, NEW i \in Ino
  PROVE  /\ Kids(m, i) \subseteq Ino
         /\ \A c : c \in Kids(m, i) <=> \E k \in 1 .. Len(m.ino[i].kids) : c = m.ino[i].kids[k]
         /\ m.ino[i].kids = <<>> => Kids(m, i) = {}
<1>1. m.ino[i].kids \in Seq(Ino)
  BY StoreParts
<1> QED BY <1>1 DEF Kids, ToSet

\* A kid of a sound volume is live and found by its name.
LEMMA KidIs ==
  ASSUME NEW m, NEW done, Sound(m, done), NEW i \in Ino, NEW c \in Kids(m, i)
  PROVE  /\ c \in Ino /\ c \notin {Root, i} /\ m.ino[c].type # "free" /\ m.ino[c].parent = i
         /\ m.ino[i].type = "dir" /\ Child(m, m.ino[i], m.ino[c].name) = c
<1>1. m \in Store /\ Tree(m) /\ m.ino[i] \in NodeRec
  BY StoreParts DEF Sound
<1>2. PICK k \in 1 .. Len(m.ino[i].kids) : c = m.ino[i].kids[k]
  BY <1>1, KidsAre
<1>3. c \in Ino /\ c \notin {Root, i} /\ m.ino[c].type # "free" /\ m.ino[c].parent = i
  BY <1>1, <1>2, KidsAre DEF Tree, Entries
<1>4. m.ino[i].type = "dir"
  <2>1. m.ino[i].kids # <<>>
    BY <1>2
  <2> QED BY <1>1, <2>1 DEF Tree
<1> DEFINE d == Child(m, m.ino[i], m.ino[c].name)
<1>5. /\ d # Nil => /\ m.ino[d].name = m.ino[c].name
                    /\ \E j \in 1 .. Len(m.ino[i].kids) : d = m.ino[i].kids[j]
      /\ d = Nil => \A j \in 1 .. Len(m.ino[i].kids) : m.ino[m.ino[i].kids[j]].name # m.ino[c].name
  BY <1>1, <1>4, ChildIs
<1> HIDE DEF d
<1>6. d # Nil
  BY <1>2, <1>5
<1>7. PICK j \in 1 .. Len(m.ino[i].kids) : d = m.ino[i].kids[j]
  BY <1>5, <1>6
<1>8. j = k
  BY <1>1, <1>2, <1>5, <1>6, <1>7 DEF Tree, NamedApart
<1> QED BY <1>2, <1>3, <1>4, <1>7, <1>8 DEF d

\* The same entries make the same tree.
LEMMA SameKids ==
  ASSUME NEW m, NEW n, \A i \in Ino : n.ino[i].kids = m.ino[i].kids, NEW S \in SUBSET Ino
  PROVE  Closed(n, S) <=> Closed(m, S)
BY DEF Closed

LEMMA SameShape ==
  ASSUME NEW m, NEW n, Bare(m), Joined(m),
         \A i \in Ino : /\ n.ino[i].type = m.ino[i].type /\ n.ino[i].kids = m.ino[i].kids
                        /\ \/ n.ino[i].type = "file" \/ Blank(n.ino[i])
                           \/ SameFile(n.ino[i], m.ino[i])
  PROVE  Bare(n) /\ Joined(n)
<1>1. Bare(n)
  BY DEF Bare, Blank, SameFile
<1>2. Joined(n)
  BY SameKids DEF Joined
<1> QED BY <1>1, <1>2

\* A new node hangs on a directory of the tree.
LEMMA CreateShape ==
  ASSUME NEW m, NEW done, Sound(m, done), Bare(m), Joined(m), NEW i \in Ino \ m.ibm, NEW dir \in Ino,
         NEW name \in Name, NEW type \in {"file", "dir"}, m.ino[dir].type = "dir",
         NEW n, n = Created(m, i, type, name, dir)
  PROVE  Bare(n) /\ Joined(n)
<1>1. m \in Store /\ Tree(m) /\ m.ino \in [Ino -> NodeRec] /\ m.ino[dir].kids \in Seq(Ino) /\ m.ino[dir] \in NodeRec
  BY StoreParts DEF Sound
<1>2. i # dir /\ m.ino[i].type = "free" /\ m.ino[i].kids = <<>>
  BY <1>1 DEF Tree
<1>3. /\ Blank(Node(type, name, dir)) /\ Node(type, name, dir).kids = <<>>
  BY NodeType
<1> DEFINE s == Append(m.ino[dir].kids, i)
<1>4. /\ n.ino[i] = Node(type, name, dir)
      /\ n.ino[dir] = [m.ino[dir] EXCEPT !.kids = s]
      /\ \A j \in Ino \ {i, dir} : n.ino[j] = m.ino[j]
  BY <1>1, <1>2 DEF Created, Store
<1>5. n.ino[dir].kids = s /\ SameNode(n.ino[dir], m.ino[dir])
  <2>1. s \in Seq(Ino)
    BY <1>1
  <2> HIDE DEF s
  <2> QED BY <1>1, <1>4, <2>1, NodeWithKids
<1>6. Bare(n)
  <2> SUFFICES ASSUME NEW j \in Ino, n.ino[j].type # "file" PROVE Blank(n.ino[j])
    BY DEF Bare
  <2>1. CASE j = i
    BY <1>3, <1>4, <2>1
  <2>2. CASE j = dir
    BY <1>5, <2>2 DEF Bare, Blank, SameNode, SameFile
  <2>3. CASE j \notin {i, dir}
    BY <1>4, <2>3 DEF Bare
  <2> QED BY <2>1, <2>2, <2>3
<1>7. \A c : c \in ToSet(n.ino[dir].kids) <=> c \in ToSet(m.ino[dir].kids) \/ c = i
  <2> DEFINE r == m.ino[dir].kids
  <2>1. r \in Seq(Ino)
    BY <1>1
  <2>2. n.ino[dir].kids = Append(r, i)
    BY <1>5
  <2> HIDE DEF r
  <2>3. \A c : c \in ToSet(Append(r, i)) <=> c \in ToSet(r) \/ c = i
    <3> DEFINE q == Append(r, i)
    <3>1. /\ q \in Seq(Ino) /\ Len(q) = Len(r) + 1 /\ Len(r) \in Nat
          /\ \A k \in 1 .. Len(r) : q[k] = r[k]
          /\ q[Len(r) + 1] = i
      BY <2>1
    <3> HIDE DEF q
    <3>2. /\ \A c : c \in ToSet(q) <=> \E k \in 1 .. Len(q) : c = q[k]
          /\ \A c : c \in ToSet(r) <=> \E k \in 1 .. Len(r) : c = r[k]
      BY <2>1, <3>1 DEF ToSet
    <3>3. \A k \in 1 .. Len(q) : k \in 1 .. Len(r) \/ k = Len(r) + 1
      BY <3>1
    <3>4. Len(r) + 1 \in 1 .. Len(q) /\ \A k \in 1 .. Len(r) : k \in 1 .. Len(q)
      BY <3>1
    <3>5. ASSUME NEW c \in ToSet(q) PROVE c \in ToSet(r) \/ c = i
      BY <3>1, <3>2, <3>3
    <3>6. ASSUME NEW c, c \in ToSet(r) \/ c = i PROVE c \in ToSet(q)
      BY <3>1, <3>2, <3>4, <3>6
    <3> QED BY <3>5, <3>6 DEF q
  <2> QED BY <2>2, <2>3 DEF r
<1>8. ToSet(m.ino[i].kids) = {}
  BY <1>2 DEF ToSet
<1>9. Joined(n)
  <2> SUFFICES ASSUME NEW S \in SUBSET Ino, Closed(n, S), NEW j \in Ino, n.ino[j].type # "free" PROVE j \in S
    BY DEF Joined
  <2>1. Closed(m, S)
    <3> SUFFICES ASSUME NEW k \in S PROVE ToSet(m.ino[k].kids) \subseteq S
      BY DEF Closed
    <3>1. ToSet(n.ino[k].kids) \subseteq S
      BY DEF Closed
    <3>2. CASE k = i
      BY <1>8, <3>2
    <3>3. CASE k = dir
      BY <1>7, <3>1, <3>3
    <3>4. CASE k \notin {i, dir}
      BY <1>4, <3>1, <3>4
    <3> QED BY <3>2, <3>3, <3>4
  <2>2. dir \in S
    BY <2>1 DEF Joined
  <2>3. i \in S
    BY <1>7, <2>2 DEF Closed
  <2>4. CASE j \in {i, dir}
    BY <2>2, <2>3, <2>4
  <2>5. CASE j \notin {i, dir}
    BY <1>4, <2>1, <2>5 DEF Joined
  <2> QED BY <2>4, <2>5
<1> QED BY <1>6, <1>9

\* What holds nothing can leave the tree without anything else leaving it.
LEMMA UnlinkShape ==
  ASSUME NEW m, NEW done, Sound(m, done), Bare(m), Joined(m), NEW dir \in Ino, NEW i \in Ino \ {Root, dir},
         m.ino[i].type # "free" => m.ino[i].parent = dir, m.ino[i].kids = <<>>,
         NEW n, n = Unlinked(m, dir, i)
  PROVE  /\ Bare(n) /\ Joined(n)
         /\ \A j \in Ino : Kids(n, j) \subseteq Kids(m, j)
         /\ i \notin Kids(n, dir)
<1>1. m \in Store /\ Tree(m) /\ m.ino \in [Ino -> NodeRec] /\ m.ino[dir].kids \in Seq(Ino) /\ m.ino[dir] \in NodeRec
  BY StoreParts DEF Sound
<1> DEFINE r == RemoveFirst(m.ino[dir].kids, i)
<1>2. /\ r \in Seq(Ino)
      /\ \A p \in 1 .. Len(r) : r[p] # i /\ \E q \in 1 .. Len(m.ino[dir].kids) : r[p] = m.ino[dir].kids[q]
      /\ \A q \in 1 .. Len(m.ino[dir].kids) : m.ino[dir].kids[q] # i => \E p \in 1 .. Len(r) : r[p] = m.ino[dir].kids[q]
  <2>1. \A p, q \in 1 .. Len(m.ino[dir].kids) : m.ino[dir].kids[p] = m.ino[dir].kids[q] => p = q
    BY <1>1, ListedOnce
  <2> QED BY <1>1, <2>1, RemoveFirstIs
<1> HIDE DEF r
<1>3. /\ n.ino[i] = FreeNode
      /\ n.ino[dir] = [m.ino[dir] EXCEPT !.kids = r]
      /\ \A j \in Ino \ {i, dir} : n.ino[j] = m.ino[j]
  BY <1>1 DEF Unlinked, Store, r
<1>4. n.ino[dir].kids = r /\ SameNode(n.ino[dir], m.ino[dir])
  BY <1>1, <1>2, <1>3, NodeWithKids
<1>5. Blank(FreeNode) /\ FreeNode.kids = <<>> /\ FreeNode.type = "free"
  BY Consts, NodeType DEF FreeNode
<1>6. ToSet(n.ino[i].kids) = {} /\ ToSet(m.ino[i].kids) = {}
  BY <1>3, <1>5 DEF ToSet
<1>7. \A c : c \in ToSet(n.ino[dir].kids) <=> c \in ToSet(m.ino[dir].kids) /\ c # i
  <2> DEFINE s == m.ino[dir].kids
  <2>1. /\ \A c : c \in ToSet(r) <=> \E p \in 1 .. Len(r) : c = r[p]
        /\ \A c : c \in ToSet(s) <=> \E q \in 1 .. Len(s) : c = s[q]
    <3>1. r \in Seq(Ino) /\ s \in Seq(Ino)
      BY <1>1, <1>2
    <3> HIDE DEF s
    <3> QED BY <3>1 DEF ToSet
  <2>2. ASSUME NEW c, c \in ToSet(r) PROVE c \in ToSet(s) /\ c # i
    <3>1. PICK p \in 1 .. Len(r) : c = r[p]
      BY <2>1, <2>2
    <3>2. r[p] # i /\ \E q \in 1 .. Len(s) : r[p] = s[q]
      BY <1>2
    <3> HIDE DEF s
    <3> QED BY <2>1, <3>1, <3>2
  <2>3. ASSUME NEW c, c \in ToSet(s), c # i PROVE c \in ToSet(r)
    <3>1. PICK q \in 1 .. Len(s) : c = s[q]
      BY <2>1, <2>3
    <3>2. \E p \in 1 .. Len(r) : r[p] = s[q]
      BY <1>2, <2>3, <3>1
    <3> HIDE DEF s
    <3> QED BY <2>1, <3>1, <3>2
  <2> QED BY <1>4, <2>2, <2>3
<1>8. Bare(n)
  <2> SUFFICES ASSUME NEW j \in Ino, n.ino[j].type # "file" PROVE Blank(n.ino[j])
    BY DEF Bare
  <2>1. CASE j = i
    BY <1>3, <1>5, <2>1
  <2>2. CASE j = dir
    BY <1>4, <2>2 DEF Bare, Blank, SameNode, SameFile
  <2>3. CASE j \notin {i, dir}
    BY <1>3, <2>3 DEF Bare
  <2> QED BY <2>1, <2>2, <2>3
<1>9. Joined(n)
  <2> SUFFICES ASSUME NEW S \in SUBSET Ino, Closed(n, S), NEW j \in Ino, n.ino[j].type # "free" PROVE j \in S
    BY DEF Joined
  <2> DEFINE T == S \union {i}
  <2>1. Closed(m, T)
    <3>1. Root \in T
      BY DEF Closed
    <3>2. ASSUME NEW k \in T PROVE ToSet(m.ino[k].kids) \subseteq T
      <4>1. CASE k = i
        BY <1>6, <4>1
      <4>2. CASE k # i
        <5>1. ToSet(n.ino[k].kids) \subseteq S /\ k \in Ino
          BY <3>2, <4>2 DEF Closed
        <5>2. CASE k = dir
          BY <1>7, <5>1, <5>2
        <5>3. CASE k # dir
          BY <1>3, <4>2, <5>1, <5>3
        <5> QED BY <5>2, <5>3
      <4> QED BY <4>1, <4>2
    <3> QED BY <3>1, <3>2 DEF Closed
  <2>2. T \in SUBSET Ino /\ j # i
    BY <1>3, <1>5
  <2>3. m.ino[j].type # "free"
    BY <1>3, <1>4, <2>2 DEF SameNode
  <2> HIDE DEF T
  <2>4. j \in T
    BY <2>1, <2>2, <2>3 DEF Joined
  <2> QED BY <2>2, <2>4 DEF T
<1>10. ASSUME NEW j \in Ino PROVE Kids(n, j) \subseteq Kids(m, j)
  <2>1. CASE j = i
    BY <1>6, <2>1 DEF Kids
  <2>2. CASE j = dir
    BY <1>7, <2>2 DEF Kids
  <2>3. CASE j \notin {i, dir}
    BY <1>3, <2>3 DEF Kids
  <2> QED BY <2>1, <2>2, <2>3
<1> QED BY <1>7, <1>8, <1>9, <1>10 DEF Kids

-----------------------------------------------------------------------------
(* Steps that leave no call in progress, or start one.                     *)

\* A commit that no write can fail.
LEMMA SureCommit ==
  ASSUME ~IoFails, NEW ok \in Results, NEW m, NEW s, TxCommit(m, s, ok)
  PROVE  ok = TRUE /\ disk' = m /\ view' = m /\ doubt' = Nil
<1>1. ok = TRUE
  BY DEF Results
<1> QED BY <1>1 DEF TxCommit

LEMMA SettledBy ==
  ASSUME NEW m, disk' = m, doubt' = Nil, Bare(m), Joined(m)
  PROVE  Settled'
BY DEF Settled, Bare, Joined, Closed

LEMMA SettledStill ==
  ASSUME Settled, disk' = disk, doubt' = doubt
  PROVE  Settled'
BY DEF Settled, Bare, Joined, Closed

LEMMA NestedEmpty ==
  ASSUME job' = <<>>
  PROVE  Nested'
<1>1. 1 .. Len(job') = {} /\ 2 .. Len(job') = {}
  OBVIOUS
<1>2. \A op : ~At(op)'
  BY DEF At
<1> QED BY <1>1, <1>2 DEF Nested, Linked, Emptying, Walking

LEMMA NestedOne ==
  ASSUME job' \in Seq(Frame), Len(job') = 1, job'[1].op \in {"trunc", "append", "create"}
  PROVE  Nested'
<1>1. 2 .. Len(job') = {} /\ \A p \in 1 .. Len(job') : p = 1
  OBVIOUS
<1>2. Head(job') = job'[1] /\ job' # <<>>
  BY HeadIs
<1>3. ~At("check")'
  BY <1>2 DEF At, Top
<1> QED BY <1>1, <1>3 DEF Nested, Linked, Emptying, Walking

\* What the stream commits has the shape of what is on the disk.
LEMMA AheadShape ==
  ASSUME Types, Stores, Streaming, ws.active, Bare(disk), Joined(disk), NEW d, SameEntry(d, ws.n)
  PROVE  LET m == [view EXCEPT !.ino[ws.ino] = d] IN Bare(m) /\ Joined(m)
<1> DEFINE m == [view EXCEPT !.ino[ws.ino] = d]
<1>1. /\ ws.ino \in Ino /\ view \in Store /\ disk \in Store /\ Sound(Ahead, written)
      /\ view.ino = disk.ino /\ disk.ino[ws.ino].type = "file" /\ ws.n.type = "file"
  BY StreamIs DEF Streaming
<1>2. disk.ino[ws.ino].kids = <<>> /\ ws.n.kids = <<>>
  <2>1. Tree(disk) /\ Tree(Ahead) /\ Ahead.ino[ws.ino] = ws.n
    BY <1>1, StreamIs DEF Stores, Sound
  <2> QED BY <1>1, <2>1 DEF Tree
<1>3. m.ino[ws.ino] = d /\ \A j \in Ino \ {ws.ino} : m.ino[j] = disk.ino[j]
  <2>1. view.ino \in [Ino -> NodeRec]
    BY <1>1, StoreParts
  <2> QED BY <1>1, <2>1 DEF Store
<1>4. \A j \in Ino : /\ m.ino[j].type = disk.ino[j].type /\ m.ino[j].kids = disk.ino[j].kids
                     /\ \/ m.ino[j].type = "file" \/ Blank(m.ino[j])
                        \/ SameFile(m.ino[j], disk.ino[j])
  BY <1>1, <1>2, <1>3 DEF SameEntry, SameFile
<1> HIDE DEF m
<1>5. Bare(m) /\ Joined(m)
  BY <1>4, SameShape
<1> QED BY <1>5 DEF m

LEMMA StreamExact ==
  ASSUME Plain, ~IoFails, Inv, Exact, AppendFull \/ EndCommit \/ EndAbort
  PROVE  Exact'
<1> USE DEF Inv, Exact
<1>1. CanCall /\ ws.active /\ job = <<>>
  BY CallFirst DEF AppendFull, EndCommit, EndAbort
<1>2. CASE AppendFull
  <2>1. disk' = disk /\ doubt' = doubt /\ job' = <<>>
    BY <1>1, <1>2 DEF AppendFull, TxAbort
  <2> QED BY <2>1, SettledStill, NestedEmpty
<1>3. CASE EndCommit
  <2> DEFINE m == [view EXCEPT !.ino[ws.ino] = ws.n]
  <2>1. PICK ok \in Results : TxCommit(m, sb, ok) /\ job' = <<>>
    BY <1>1, <1>3 DEF EndCommit
  <2>2. Bare(m) /\ Joined(m)
    <3>1. SameEntry(ws.n, ws.n)
      BY DEF SameEntry
    <3> QED BY <1>1, <3>1, AheadShape DEF Settled
  <2> HIDE DEF m
  <2>3. disk' = m /\ doubt' = Nil
    BY <2>1, SureCommit
  <2> QED BY <2>1, <2>2, <2>3, SettledBy, NestedEmpty
<1>4. CASE EndAbort
  <2> DEFINE t == Trunc(ws.ino)
  <2>1. disk' = disk /\ doubt' = doubt /\ job' = <<t>> \o job
    BY <1>4 DEF EndAbort, TxAbort, Push
  <2>2. t \in TruncFrame /\ t.op = "trunc"
    BY DEF Trunc, TruncFrame, Types, Stream
  <2> HIDE DEF t
  <2>3. job' \in Seq(Frame) /\ Len(job') = 1 /\ job'[1] = t
    BY <1>1, <2>1, <2>2 DEF Frame
  <2> QED BY <2>1, <2>2, <2>3, SettledStill, NestedOne
<1> QED BY <1>2, <1>3, <1>4

LEMMA AppendMapExact ==
  ASSUME Plain, ~IoFails, Inv, Exact, AppendMap
  PROVE  Exact'
<1> USE DEF Inv, Exact
<1>1. CanCall /\ ws.active /\ ws.n.size < FileMax
  BY DEF AppendMap
<1>2. PICK r \in Mappings(view, ws.n, ws.n.size + 1) :
        job' = <<[op |-> "append", blk |-> r.blk]>> \o job
  BY DEF AppendMap, Push
<1>3. disk' = disk /\ doubt' = doubt
  BY DEF AppendMap
<1>4. Settled'
  BY <1>3, SettledStill
<1>5. job = <<>>
  BY <1>1, CallFirst
<1>6. Inv'
  BY AppendMapKeeps
<1>7. job' \in Seq(Frame)
  BY <1>6 DEF Types
<1> DEFINE f == [op |-> "append", blk |-> r.blk]
<1>8. f.op = "append"
  OBVIOUS
<1> HIDE DEF f
<1>9. job' = <<f>>
  BY <1>2, <1>5 DEF f
<1>10. Len(job') = 1 /\ job'[1] = f
  BY <1>9
<1> QED BY <1>4, <1>7, <1>8, <1>10, NestedOne

LEMMA AppendDataExact ==
  ASSUME ~IoFails, Inv, Exact, AppendData
  PROVE  Exact'
<1> USE DEF Inv, Exact
<1> DEFINE d == [ws.n EXCEPT !.size = @ + 1]
           m == [view EXCEPT !.ino[ws.ino] = d]
<1>1. PICK wrote \in BOOLEAN, batch \in BOOLEAN, ok \in BOOLEAN :
        /\ At("append") /\ {wrote, ok} \subseteq Results
        /\ CASE ~wrote ->
                TxAbort(sb) /\ ws' = NoStream
             [] wrote /\ ~batch ->
                /\ ws' = [ws EXCEPT !.n = d]
                /\ UNCHANGED meta
             [] wrote /\ batch ->
                /\ TxCommit(m, sb, ok)
                /\ open' = ok
                /\ ws' = IF ok THEN [ws EXCEPT !.n = d] ELSE NoStream
        /\ Return(TRUE)
  BY DEF AppendData
<1>2. job # <<>> /\ Top.op = "append" /\ ws.active
  BY <1>1 DEF At, Appending
<1>3. job' = <<>>
  BY <1>1, <1>2, Returned
<1>4. wrote = TRUE /\ ok = TRUE /\ ok \in Results
  BY <1>1 DEF Results
<1>5. CASE batch
  <2>1. TxCommit(m, sb, ok)
    BY <1>1, <1>4, <1>5
  <2>2. SameEntry(d, ws.n)
    BY <1>2, StreamIs DEF SameEntry, NodeRec
  <2> HIDE DEF d
  <2>3. Bare(m) /\ Joined(m)
    BY <1>2, <2>2, AheadShape DEF Settled
  <2> HIDE DEF m
  <2>4. disk' = m /\ doubt' = Nil
    BY <1>4, <2>1, SureCommit
  <2> QED BY <1>3, <2>3, <2>4, SettledBy, NestedEmpty
<1>6. CASE ~batch
  <2>1. disk' = disk /\ doubt' = doubt
    BY <1>1, <1>4, <1>6 DEF meta
  <2> QED BY <1>3, <2>1, SettledStill, NestedEmpty
<1> QED BY <1>5, <1>6

LEMMA BeginExact ==
  ASSUME Inv, Exact, BeginStream
  PROVE  Exact'
<1> USE DEF Inv, Exact
<1>1. At("begin") /\ Return(TRUE) /\ disk' = disk /\ doubt' = doubt
  BY DEF BeginStream
<1>2. job # <<>> /\ Top = job[1] /\ Len(job) \in Nat /\ Len(job) > 0 /\ Top.op = "begin"
  BY <1>1, TopIs DEF At
<1>3. Len(job) = 1
  <2>1. 1 \in 1 .. Len(job) /\ job[1].op = "begin"
    BY <1>2
  <2> QED BY <2>1 DEF Beginning
<1>4. job' = <<>>
  BY <1>1, <1>2, <1>3, Returned
<1> QED BY <1>1, <1>4, SettledStill, NestedEmpty

LEMMA CreateExact ==
  ASSUME Plain, ~IoFails, Inv, Exact, CreateFails \/ CreateNode
  PROVE  Exact'
<1> USE DEF Inv, Exact
<1>1. At("create") /\ job # <<>> /\ Top.op = "create" /\ ~open
  BY DEF CreateFails, CreateNode, At, Stacked
<1>2. \E ok \in BOOLEAN : Return(ok)
  BY ResultsAre DEF CreateFails, CreateNode
<1>3. job' = <<>>
  BY <1>1, <1>2, Returned
<1>4. CASE CreateFails
  <2>1. disk' = disk /\ doubt' = doubt
    BY <1>4 DEF CreateFails
  <2> QED BY <1>3, <2>1, SettledStill, NestedEmpty
<1>5. CASE CreateNode
  <2> DEFINE dir == Top.dir
             name == Top.name
             s == Counted(0, -1)
  <2>1. PICK i \in Ino \ view.ibm, ok \in Results :
          /\ Creatable(dir, name)
          /\ TxCommit([view EXCEPT !.ibm = @ \union {i}, !.ino[i] = Node(Top.type, name, dir),
                                   !.ino[dir].kids = Append(@, i)], s, ok)
    BY <1>5 DEF CreateNode
  <2> DEFINE m == Created(disk, i, Top.type, name, dir)
  <2>2. view = disk /\ Sound(disk, written)
    BY <1>1 DEF Opened, Stores
  <2>3. dir \in Ino /\ name \in Name /\ Top.type \in {"file", "dir"}
    <3>1. Top \in CreateFrame
      BY <1>1, TopIs, FrameIs
    <3> QED BY <3>1 DEF CreateFrame
  <2>4. i \in Ino \ disk.ibm /\ disk.ino[dir].type = "dir"
    BY <2>1, <2>2 DEF Creatable
  <2>5. TxCommit(m, s, ok)
    BY <2>1, <2>2 DEF Created
  <2>6. Bare(m) /\ Joined(m)
    <3>1. \A n : n = m => Bare(n) /\ Joined(n)
      BY <2>2, <2>3, <2>4, CreateShape DEF Settled
    <3> QED BY <3>1
  <2> HIDE DEF m, s
  <2>7. disk' = m /\ doubt' = Nil
    BY <2>5, SureCommit
  <2> QED BY <1>3, <2>6, <2>7, SettledBy, NestedEmpty
<1> QED BY <1>4, <1>5

LEMMA CallCreateExact ==
  ASSUME Plain, ~IoFails, Inv, Exact, NEW dir \in Ino, NEW name \in Name, NEW type \in {"file", "dir"},
         CallCreate(dir, name, type)
  PROVE  Exact'
<1> USE DEF Inv, Exact
<1> DEFINE f == [op |-> "create", dir |-> dir, name |-> name, type |-> type]
           m == [view EXCEPT !.ino[ws.ino] = ws.n]
<1>1. PICK ok \in Results :
        /\ CanCall
        /\ IF ws.active
           THEN StreamSuspend(ok)
           ELSE ok /\ Creatable(dir, name) /\ UNCHANGED <<meta, ws>>
        /\ IF ok THEN job' = <<f>> \o job ELSE UNCHANGED job
  BY DEF CallCreate, Push
<1>2. job = <<>> /\ ok = TRUE
  BY <1>1, CallFirst DEF Results
<1>3. f \in CreateFrame /\ f.op = "create"
  BY DEF CreateFrame
<1> HIDE DEF f
<1>4. job' \in Seq(Frame) /\ Len(job') = 1 /\ job'[1] = f
  <2>1. job' = <<f>> /\ f \in Frame
    BY <1>1, <1>2, <1>3 DEF Frame
  <2> QED BY <2>1
<1>5. CASE ws.active
  <2>1. TxCommit(m, sb, ok)
    BY <1>1, <1>5 DEF StreamSuspend
  <2>2. Bare(m) /\ Joined(m)
    <3>1. SameEntry(ws.n, ws.n)
      BY DEF SameEntry
    <3> QED BY <1>5, <3>1, AheadShape DEF Settled
  <2> HIDE DEF m
  <2>3. disk' = m /\ doubt' = Nil
    BY <2>1, SureCommit
  <2> QED BY <1>3, <1>4, <2>2, <2>3, SettledBy, NestedOne
<1>6. CASE ~ws.active
  <2>1. disk' = disk /\ doubt' = doubt
    BY <1>1, <1>6 DEF meta
  <2> QED BY <1>3, <1>4, <2>1, SettledStill, NestedOne
<1> QED BY <1>5, <1>6

LEMMA RenameExact ==
  ASSUME Plain, ~IoFails, Inv, Exact, NEW dir \in Ino, NEW old \in Name, NEW new \in Name, Rename(dir, old, new)
  PROVE  Exact'
<1> USE DEF Inv, Exact
<1> DEFINE i == Resolve(view, dir, old)
           m == Renamed(disk, i, new)
<1>1. PICK ok \in Results :
        /\ CanCall /\ ~open /\ i # Nil
        /\ TxCommit([view EXCEPT !.ino[i].name = new], sb, ok) /\ job' = job
  BY DEF Rename
<1>2. job' = <<>>
  BY <1>1, CallFirst
<1>3. view = disk /\ Sound(disk, written) /\ disk \in Store
  BY <1>1 DEF Opened, Stores, Sound
<1>4. TxCommit(m, sb, ok)
  BY <1>1, <1>3 DEF Renamed
<1>5. i \in Ino
  BY <1>1, <1>3, ResolveIs
<1> HIDE DEF i
<1>6. \A j \in Ino : /\ m.ino[j].type = disk.ino[j].type /\ m.ino[j].kids = disk.ino[j].kids
                     /\ SameFile(m.ino[j], disk.ino[j])
  <2>1. disk.ino \in [Ino -> NodeRec] /\ disk.ino[i] \in NodeRec
    BY <1>3, <1>5, StoreParts
  <2>2. m.ino[i] = [disk.ino[i] EXCEPT !.name = new] /\ \A j \in Ino \ {i} : m.ino[j] = disk.ino[j]
    BY <1>3, <1>5, <2>1 DEF Renamed, Store
  <2>3. m.ino[i].kids = disk.ino[i].kids /\ SameFile(m.ino[i], disk.ino[i]) /\ m.ino[i].type = disk.ino[i].type
    BY <2>1, <2>2, NodeRenamed
  <2> QED BY <2>2, <2>3 DEF SameFile
<1>7. Bare(m) /\ Joined(m)
  <2> HIDE DEF m
  <2> QED BY <1>6, SameShape DEF Settled
<1> HIDE DEF m
<1>8. disk' = m /\ doubt' = Nil
  BY <1>4, SureCommit
<1> QED BY <1>2, <1>7, <1>8, SettledBy, NestedEmpty

\* After a mount the disk is as it was, for no commit was in doubt.
LEMMA CrashExact ==
  ASSUME Inv, Exact, Crash
  PROVE  Exact'
<1> USE DEF Inv, Exact
<1>1. disk' = disk /\ doubt' = Nil /\ job' = <<>>
  BY DEF Crash, Settled
<1> QED BY <1>1, SettledBy, NestedEmpty DEF Settled

-----------------------------------------------------------------------------
(* Truncations and deletions.                                              *)

LEMMA DeletionFrame ==
  ASSUME NEW f \in Frame, f.op \in {"delfile", "deldir"}
  PROVE  f.ino \in Ino /\ f.dir \in Ino /\ (f.op = "deldir" => f.snap \in Seq(Ino))
<1>1. f \in FileFrame \/ f \in DirFrame
  BY FrameIs
<1> QED BY <1>1 DEF FileFrame, DirFrame

LEMMA LinkedReturned ==
  ASSUME Types, Stacked, Linked, job # <<>>, NEW ok \in BOOLEAN, Return(ok)
  PROVE  Linked' /\ ~At("check")'
<1>1. job' \in Seq(Frame) /\ job \in Seq(Frame) /\ Len(job) \in Nat /\ Len(job) > 0
  BY Returned, TopIs DEF Types
<1>2. PICK d \in {1, 2} : Len(job') = Len(job) - d /\ \A p \in 1 .. Len(job') : job'[p] = job[p + d]
  BY Returned
<1>3. \A p \in 1 .. Len(job') : p + d \in 2 .. Len(job) /\ job'[p] = job[p + d]
  BY <1>1, <1>2
<1>4. \A p \in 1 .. Len(job') : job'[p].op \notin {"trunc", "check"}
  BY <1>3 DEF Stacked
<1>5. ~At("trunc")' /\ ~At("check")'
  <2> SUFFICES ASSUME job' # <<>>, Head(job').op \in {"trunc", "check"} PROVE FALSE
    BY DEF At, Top
  <2>1. 1 \in 1 .. Len(job') /\ Head(job') = job'[1]
    BY <1>1
  <2> QED BY <1>4, <2>1
<1>6. ASSUME NEW p \in 2 .. Len(job'), job'[p].op = "deldir"
      PROVE  job'[p - 1].op \in {"delfile", "deldir"} /\ job'[p - 1].dir = job'[p].ino
  <2>1. p + d \in 2 .. Len(job) /\ job'[p] = job[p + d]
    BY <1>1, <1>3
  <2>2. p - 1 \in 1 .. Len(job') /\ p - 1 + d = p + d - 1
    BY <1>1, <1>2
  <2>3. job'[p - 1] = job[p + d - 1]
    BY <1>2, <2>2
  <2> QED BY <1>6, <2>1, <2>3 DEF Linked
<1>7. ASSUME NEW p \in 2 .. Len(job') PROVE job'[p].op # "delfile"
  <2>1. p + d \in 2 .. Len(job) /\ job'[p] = job[p + d] /\ p + d # 2
    BY <1>1, <1>2, <1>3
  <2> QED BY <2>1 DEF Linked
<1> QED BY <1>5, <1>6, <1>7 DEF Linked

LEMMA ReturnedWell ==
  ASSUME Types, job # <<>>, Return(TRUE)
  PROVE  /\ job' \in Seq(Frame) /\ Len(job') = Len(job) - 1
         /\ \A p \in 1 .. Len(job') : job'[p] = job[p + 1] /\ p + 1 \in 2 .. Len(job) /\ p + 1 \in 1 .. Len(job)
<1>1. job \in Seq(Frame) /\ Len(job) \in Nat /\ Len(job) > 0
  BY TopIs DEF Types
<1>2. job' = Tail(job)
  BY DEF Return
<1> QED BY <1>1, <1>2

\* A call returns well: nothing was added to the directories that are being deleted,
\* and what it deleted is gone from the one below.
LEMMA EmptyingReturned ==
  ASSUME Types, Emptying, ~open, job # <<>>, Return(TRUE),
         \A p \in 2 .. Len(job) :
           /\ job[p].op = "deldir" => /\ Kids(disk', job[p].ino) \subseteq Kids(disk, job[p].ino)
                                      /\ p = 2 => job[1].ino \notin Kids(disk', job[p].ino)
           /\ job[p].op = "delfile" => \/ disk'.ino[job[p].ino].type = disk.ino[job[p].ino].type
                                       \/ disk'.ino[job[p].ino].type = "free"
  PROVE  Emptying'
<1> SUFFICES ASSUME NEW p \in 1 .. Len(job')
             PROVE  /\ job'[p].op = "deldir" =>
                         \A c \in Kids(disk', job'[p].ino) :
                           c \in ToSet(job'[p].snap) \/ (p > 1 /\ c = job'[p - 1].ino)
                    /\ job'[p].op = "delfile" => disk'.ino[job'[p].ino].type # "dir"
  BY DEF Emptying, Kids
<1>1. job'[p] = job[p + 1] /\ p + 1 \in 2 .. Len(job) /\ p + 1 \in 1 .. Len(job) /\ p \in Nat
  BY ReturnedWell
<1>2. ASSUME job'[p].op = "deldir", NEW c \in Kids(disk', job'[p].ino)
      PROVE  c \in ToSet(job'[p].snap) \/ (p > 1 /\ c = job'[p - 1].ino)
  <2>1. c \in Kids(disk, job[p + 1].ino)
    BY <1>1, <1>2
  <2>2. c \in ToSet(job[p + 1].snap) \/ c = job[p].ino
    <3>1. p + 1 - 1 = p
      BY <1>1
    <3> QED BY <1>1, <1>2, <2>1, <3>1 DEF Emptying
  <2>3. CASE p = 1
    <3>1. c # job[p].ino
      BY <1>1, <1>2, <2>3
    <3> QED BY <1>1, <2>2, <3>1
  <2>4. CASE p # 1
    <3>1. p - 1 \in 1 .. Len(job') /\ p - 1 + 1 = p
      BY <1>1, <2>4
    <3>2. job'[p - 1] = job[p]
      BY <3>1, ReturnedWell
    <3> QED BY <1>1, <2>2, <2>4, <3>2
  <2> QED BY <2>3, <2>4
<1>3. ASSUME job'[p].op = "delfile" PROVE disk'.ino[job'[p].ino].type # "dir"
  <2>1. disk.ino[job[p + 1].ino].type # "dir"
    BY <1>1, <1>3 DEF Emptying
  <2> QED BY <1>1, <1>3, <2>1
<1> QED BY <1>2, <1>3

\* The stream has the transaction, so nothing can be deleted.
LEMMA BusyExact ==
  ASSUME Inv, Exact, TruncBusy \/ UnlinkBusy
  PROVE  Exact'
<1> USE DEF Inv, Exact
<1>1. open /\ Return(FALSE) /\ UNCHANGED <<meta, ws, written>> /\ job # <<>>
  BY DEF TruncBusy, UnlinkBusy, Unlinking, At
<1>2. Linked' /\ ~At("check")'
  BY <1>1, LinkedReturned DEF Nested
<1>3. open' /\ disk' = disk /\ doubt' = doubt
  BY <1>1 DEF meta
<1>4. Settled'
  BY <1>3, SettledStill
<1> QED BY <1>2, <1>3, <1>4 DEF Nested, Emptying, Walking

\* file_truncate goes on with its next commit.
LEMMA TruncNested ==
  ASSUME Types, Nested, Stacked, At("trunc"), NEW f \in TruncFrame, f.ino = Top.ino,
         job' = [job EXCEPT ![1] = f], open' = open,
         \A i \in Ino : disk'.ino[i].type = disk.ino[i].type /\ disk'.ino[i].kids = disk.ino[i].kids
  PROVE  Nested'
<1>1. /\ job \in Seq(Frame) /\ Len(job) \in Nat /\ Len(job) > 0 /\ Top = job[1] /\ job[1].op = "trunc" 
      /\ f \in Frame /\ f.op = "trunc"
  BY TopIs DEF Types, At, Frame, TruncFrame
<1>2. /\ job' \in Seq(Frame) /\ Len(job') = Len(job) /\ job'[1] = f
      /\ \A p \in 2 .. Len(job) : job'[p] = job[p]
  BY <1>1
<1>3. job' # <<>> /\ Head(job') = f
  BY <1>1, <1>2
<1>4. ~At("check")'
  BY <1>1, <1>3 DEF At, Top
<1>5. Linked'
  <2>1. ASSUME NEW p \in 2 .. Len(job), job'[p].op = "deldir"
        PROVE  job'[p - 1].op \in {"delfile", "deldir"} /\ job'[p - 1].dir = job'[p].ino
    <3>1. job[p - 1].op \in {"delfile", "deldir"} /\ job[p - 1].dir = job[p].ino
      BY <1>2, <2>1 DEF Nested, Linked
    <3>2. p # 2
      BY <1>1, <3>1
    <3>3. p - 1 \in 2 .. Len(job)
      BY <1>1, <3>2
    <3> QED BY <1>2, <3>1, <3>3
  <2>2. ASSUME NEW p \in 2 .. Len(job), job'[p].op = "delfile" PROVE p = 2 /\ job'[1].op = "trunc"
    BY <1>1, <1>2, <2>2 DEF Nested, Linked
  <2>3. Len(job) > 1 => job'[2].op \in {"begin", "delfile"} /\ job'[2].ino = job'[1].ino
    <3> SUFFICES ASSUME Len(job) > 1 PROVE job'[2].op \in {"begin", "delfile"} /\ job'[2].ino = job'[1].ino
      OBVIOUS
    <3>1. 2 \in 2 .. Len(job)
      BY <1>1
    <3> QED BY <1>1, <1>2, <3>1 DEF Nested, Linked
  <2> QED BY <1>2, <2>1, <2>2, <2>3 DEF Linked
<1>6. Emptying'
  <2> SUFFICES ASSUME ~open, NEW p \in 2 .. Len(job), p \in 1 .. Len(job), job[p].op \in {"deldir", "delfile"}
               PROVE  /\ job[p].op = "deldir" =>
                           \A c \in Kids(disk', job[p].ino) :
                             c \in ToSet(job[p].snap) \/ (p > 1 /\ c = job'[p - 1].ino)
                      /\ job[p].op = "delfile" => disk'.ino[job[p].ino].type # "dir"
    <3>1. \A p \in 1 .. Len(job) : p = 1 \/ p \in 2 .. Len(job)
      BY <1>1
    <3> QED BY <1>1, <1>2, <3>1 DEF Emptying, Kids
  <2>1. job[p].ino \in Ino
    <3>1. job[p] \in Frame
      BY <1>1
    <3> QED BY <3>1, DeletionFrame
  <2>2. Kids(disk', job[p].ino) = Kids(disk, job[p].ino) /\ disk'.ino[job[p].ino].type = disk.ino[job[p].ino].type
    BY <2>1 DEF Kids
  <2>3. job'[p - 1].ino = job[p - 1].ino
    <3>1. p - 1 = 1 \/ p - 1 \in 2 .. Len(job)
      BY <1>1
    <3> QED BY <1>1, <1>2, <3>1
  <2> QED BY <2>2, <2>3 DEF Nested, Emptying
<1> QED BY <1>4, <1>5, <1>6 DEF Nested, Walking

LEMMA TruncClearExact ==
  ASSUME ~IoFails, Inv, Exact, TruncClear
  PROVE  Exact'
<1> USE DEF Inv, Exact
<1> DEFINE i == Top.ino
           n == view.ino[i]
           m == Emptied(disk, i)
           f == [Top EXCEPT !.cleared = TRUE, !.todo = Chain(view, n)]
<1>1. PICK ok \in Results :
        /\ At("trunc") /\ ~Top.cleared /\ ~open
        /\ TxCommit([view EXCEPT !.ino[Top.ino] =
                       [Node(n.type, n.name, n.parent) EXCEPT !.kids = n.kids]], sb, ok)
        /\ IF ok
           THEN job' = [job EXCEPT ![1].cleared = TRUE, ![1].todo = Chain(view, n)]
           ELSE Return(FALSE)
        /\ UNCHANGED <<open, ws, written>>
  BY DEF TruncClear
<1>2. ok = TRUE /\ job # <<>> /\ i \in Ino /\ Top \in TruncFrame
  BY <1>1, TruncIs DEF Results
<1>3. view = disk /\ Sound(disk, written) /\ disk \in Store
  BY <1>1 DEF Opened, Stores, Sound
<1>4. TxCommit(m, sb, ok)
  BY <1>1, <1>3 DEF Emptied
<1>5. /\ \A j \in Ino \ {i} : m.ino[j] = disk.ino[j]
      /\ SameEntry(m.ino[i], disk.ino[i]) /\ Blank(m.ino[i])
  <2>1. \A x : x = m => (\A j \in Ino \ {i} : x.ino[j] = disk.ino[j]) /\ SameEntry(x.ino[i], disk.ino[i])
    BY <1>2, <1>3, EmptySound
  <2>2. Blank(m.ino[i])
    <3>1. disk.ino[i] \in NodeRec /\ disk.ino \in [Ino -> NodeRec]
      BY <1>2, <1>3, StoreParts
    <3> DEFINE x == disk.ino[i]
               e == Node(x.type, x.name, x.parent)
               g == [e EXCEPT !.kids = x.kids]
    <3>2. m.ino[i] = g
      BY <1>2, <1>3, <3>1 DEF Emptied, Store
    <3>3. e \in NodeRec /\ Blank(e)
      <4>1. x.type \in {"free", "file", "dir"} /\ x.name \in Name \union {Nil} /\ x.parent \in Ino
        BY <3>1 DEF NodeRec
      <4> HIDE DEF x
      <4> QED BY <4>1, NodeType
    <3>4. x.kids \in Seq(Ino)
      BY <3>1 DEF NodeRec
    <3> HIDE DEF x, e
    <3>5. SameNode(g, e)
      BY <3>3, <3>4, NodeWithKids
    <3> HIDE DEF g
    <3> QED BY <3>2, <3>3, <3>5 DEF Blank, SameNode, SameFile
  <2> QED BY <2>1, <2>2
<1> HIDE DEF m
<1>6. \A j \in Ino : /\ m.ino[j].type = disk.ino[j].type /\ m.ino[j].kids = disk.ino[j].kids
                     /\ \/ m.ino[j].type = "file" \/ Blank(m.ino[j])
                        \/ SameFile(m.ino[j], disk.ino[j])
  BY <1>5 DEF SameEntry, SameFile
<1>7. Bare(m) /\ Joined(m)
  BY <1>6, SameShape DEF Settled
<1>8. disk' = m /\ doubt' = Nil
  BY <1>4, SureCommit
<1>9. f \in TruncFrame /\ f.ino = i
  <2>1. Chain(disk, disk.ino[i]) \in [Place -> Ptr]
    <3>1. disk.ino[i] \in NodeRec
      BY <1>2, <1>3, StoreParts
    <3> QED BY <1>3, <3>1, ChainType
  <2> QED BY <1>2, <1>3, <2>1 DEF TruncFrame
<1>10. job' = [job EXCEPT ![1] = f]
  <2>1. Top = job[1] /\ 1 \in DOMAIN job
    BY <1>2, TopIs DEF Types
  <2> QED BY <1>1, <1>2, <2>1
<1> HIDE DEF f
<1>11. Nested'
  BY <1>1, <1>6, <1>8, <1>9, <1>10, TruncNested
<1> QED BY <1>7, <1>8, <1>11, SettledBy

LEMMA TruncFreeExact ==
  ASSUME ~IoFails, Inv, Exact, TruncFree
  PROVE  Exact'
<1> USE DEF Inv, Exact
<1>1. PICK ok \in Results, k \in 0 .. FileMax + 1 :
        /\ At("trunc") /\ Top.cleared
        /\ LET now == {j \in Held(Top.todo) : j <= k}
           IN  /\ TxCommit(Free(view, {Top.todo[j] : j \in now}), Counted(Cardinality(now), 0), ok)
               /\ IF ok /\ now # Held(Top.todo)
                  THEN job' = [job EXCEPT ![1].todo =
                                 [j \in DOMAIN @ |-> IF j <= k THEN Nil ELSE @[j]]]
                  ELSE Return(ok)
        /\ UNCHANGED <<open, ws, written>>
  BY DEF TruncFree
<1> DEFINE todo == Top.todo
           now  == {j \in Held(todo) : j <= k}
           bs   == {todo[j] : j \in now}
           s    == Counted(Cardinality(now), 0)
           m    == Free(disk, bs)
           left == [j \in Place |-> IF j <= k THEN Nil ELSE todo[j]]
           f    == [Top EXCEPT !.todo = left]
<1>2. ok = TRUE /\ job # <<>> /\ Top \in TruncFrame
  BY <1>1, TruncIs DEF Results
<1>3. ~open /\ view = disk /\ todo \in [Place -> Ptr] /\ disk \in Store
  BY <1>1 DEF Truncating, Opened, Stores, Sound
<1>4. TxCommit(m, s, ok)
  BY <1>1, <1>3
<1>5. job' = [job EXCEPT ![1].todo = left] \/ Return(TRUE)
  <2>1. job[1].todo = todo /\ DOMAIN todo = Place
    BY <1>2, <1>3, TopIs
  <2> QED BY <1>1, <1>2, <2>1
<1>6. left \in [Place -> Ptr]
  BY <1>3 DEF Ptr
<1> HIDE DEF s, bs, left
<1>7. m.ino = disk.ino
  BY <1>3 DEF Free, Store
<1> HIDE DEF m
<1>8. \A j \in Ino : /\ m.ino[j].type = disk.ino[j].type /\ m.ino[j].kids = disk.ino[j].kids
                     /\ \/ m.ino[j].type = "file" \/ Blank(m.ino[j])
                        \/ SameFile(m.ino[j], disk.ino[j])
  BY <1>7 DEF SameFile
<1>9. Bare(m) /\ Joined(m)
  BY <1>8, SameShape DEF Settled
<1>10. disk' = m /\ doubt' = Nil
  BY <1>4, SureCommit
<1>11. CASE job' = [job EXCEPT ![1].todo = left]
  <2>1. f \in TruncFrame /\ f.ino = Top.ino
    BY <1>2, <1>6 DEF TruncFrame
  <2>2. job' = [job EXCEPT ![1] = f]
    <3>1. Top = job[1] /\ 1 \in DOMAIN job
      BY <1>2, TopIs DEF Types
    <3> QED BY <1>11, <3>1
  <2> HIDE DEF f
  <2>3. Nested'
    BY <1>1, <1>8, <1>10, <2>1, <2>2, TruncNested
  <2> QED BY <1>9, <1>10, <2>3, SettledBy
<1>12. CASE Return(TRUE)
  <2>1. Linked' /\ ~At("check")'
    BY <1>2, <1>12, LinkedReturned DEF Nested
  <2>2. Top = job[1] /\ job[1].op = "trunc"
    BY <1>1, <1>2, TopIs DEF At
  <2>3. \A p \in 2 .. Len(job) :
          /\ job[p].op = "deldir" => /\ Kids(disk', job[p].ino) \subseteq Kids(disk, job[p].ino)
                                     /\ p = 2 => job[1].ino \notin Kids(disk', job[p].ino)
          /\ job[p].op = "delfile" => \/ disk'.ino[job[p].ino].type = disk.ino[job[p].ino].type
                                      \/ disk'.ino[job[p].ino].type = "free"
    <3> SUFFICES ASSUME NEW p \in 2 .. Len(job), job[p].op = "deldir" PROVE p # 2
      BY <1>7, <1>10 DEF Kids
    <3>1. job[p - 1].op \in {"delfile", "deldir"}
      BY DEF Nested, Linked
    <3> QED BY <2>2, <3>1
  <2>4. Emptying'
    BY <1>2, <1>3, <1>12, <2>3, EmptyingReturned DEF Nested
  <2> QED BY <1>9, <1>10, <2>1, <2>4, SettledBy DEF Nested, Walking
<1> QED BY <1>5, <1>11, <1>12

\* What is unlinked holds nothing any more.
LEMMA UnlinkedIsEmpty ==
  ASSUME Inv, Exact, Unlinking, ~open
  PROVE  disk.ino[Top.ino].kids = <<>>
<1> USE DEF Inv, Exact
<1>1. At("delfile") \/ (At("deldir") /\ Top.snap = <<>>)
  BY DEF Unlinking
<1>2. /\ job # <<>> /\ Top = job[1] /\ Top.ino \in Ino
      /\ Len(job) \in Nat /\ Len(job) > 0
  BY <1>1, DeletionIs, TopIs
<1>3. disk \in Store /\ Tree(disk) /\ disk.ino[Top.ino].kids \in Seq(Ino)
  BY <1>2, StoreParts DEF Stores, Sound
<1>4. 1 \in 1 .. Len(job)
  BY <1>2
<1>5. CASE At("delfile")
  <2>1. disk.ino[Top.ino].type # "dir"
    BY <1>2, <1>4, <1>5 DEF Nested, Emptying, At
  <2> QED BY <1>2, <1>3, <2>1 DEF Tree
<1>6. CASE At("deldir") /\ Top.snap = <<>>
  <2>1. ToSet(Top.snap) = {}
    BY <1>6 DEF ToSet
  <2>2. Kids(disk, Top.ino) = {}
    <3>1. job[1].op = "deldir"
      BY <1>2, <1>6 DEF At
    <3>2. \A c \in Kids(disk, job[1].ino) : c \in ToSet(job[1].snap) \/ 1 > 1
      BY <1>4, <3>1 DEF Nested, Emptying
    <3> QED BY <1>2, <2>1, <3>2
  <2>3. Len(disk.ino[Top.ino].kids) = 0
    <3> SUFFICES ASSUME Len(disk.ino[Top.ino].kids) # 0 PROVE FALSE
      OBVIOUS
    <3>1. 1 \in 1 .. Len(disk.ino[Top.ino].kids)
      BY <1>3
    <3> QED BY <1>2, <1>3, <2>2, <3>1, KidsAre
  <2> QED BY <1>3, <2>3
<1> QED BY <1>1, <1>5, <1>6

LEMMA UnlinkExact ==
  ASSUME ~IoFails, Inv, Exact, Unlink
  PROVE  Exact'
<1> USE DEF Inv, Exact
<1> DEFINE i == Top.ino
           dir == Top.dir
           m == Unlinked(disk, dir, i)
           s == Counted(0, 1)
<1>1. PICK ok \in Results :
        /\ Unlinking /\ ~open
        /\ LET p == view.ino[Top.dir]
           IN  TxCommit([view EXCEPT !.ibm = @ \ {Top.ino},
                           !.ino[Top.ino] = FreeNode,
                           !.ino[Top.dir] = [p EXCEPT !.kids = RemoveFirst(@, Top.ino)]],
                        s, ok)
        /\ Return(ok)
  BY DEF Unlink
<1>2. ok = TRUE /\ (At("delfile") \/ At("deldir"))
  BY <1>1 DEF Unlinking, Results
<1>3. /\ job # <<>> /\ Top = job[1]
      /\ i \in Ino /\ dir \in Ino /\ i \notin {Root, dir}
      /\ disk.ino[i].type # "free" => disk.ino[i].parent = dir
  BY <1>2, DeletionIs
<1>4. view = disk /\ Sound(disk, written) /\ disk.ino[i].kids = <<>> /\ disk \in Store
  BY <1>1, UnlinkedIsEmpty DEF Opened, Stores, Sound
<1> HIDE DEF s
<1>5. TxCommit(m, s, ok)
  BY <1>1, <1>4 DEF Unlinked
<1>6. /\ Bare(m) /\ Joined(m) /\ \A j \in Ino : Kids(m, j) \subseteq Kids(disk, j)
      /\ i \notin Kids(m, dir)
      /\ \A j \in Ino : m.ino[j].type = disk.ino[j].type \/ m.ino[j].type = "free"
  <2>1. i \in Ino \ {Root, dir}
    BY <1>3
  <2>2. \A x : x = m => /\ Bare(x) /\ Joined(x) /\ \A j \in Ino : Kids(x, j) \subseteq Kids(disk, j)
                        /\ i \notin Kids(x, dir)
    BY <1>3, <1>4, <2>1, UnlinkShape DEF Settled
  <2>3. \A x : x = m => /\ \A j \in Ino \ {i, dir} : x.ino[j] = disk.ino[j]
                        /\ x.ino[i].type = "free" /\ SameNode(x.ino[dir], disk.ino[dir])
    BY <1>3, <1>4, <2>1, UnlinkSound
  <2> HIDE DEF m
  <2> QED BY <2>2, <2>3 DEF SameNode
<1> HIDE DEF m
<1>7. disk' = m /\ doubt' = Nil
  BY <1>5, SureCommit
<1>8. Linked' /\ ~At("check")'
  BY <1>1, <1>2, <1>3, LinkedReturned DEF Nested
<1>9. Emptying'
  <2>1. \A p \in 2 .. Len(job) :
          /\ job[p].op = "deldir" => /\ Kids(disk', job[p].ino) \subseteq Kids(disk, job[p].ino)
                                     /\ p = 2 => job[1].ino \notin Kids(disk', job[p].ino)
          /\ job[p].op = "delfile" => \/ disk'.ino[job[p].ino].type = disk.ino[job[p].ino].type
                                      \/ disk'.ino[job[p].ino].type = "free"
    <3> SUFFICES ASSUME NEW p \in 2 .. Len(job), job[p].op \in {"deldir", "delfile"}
                 PROVE  /\ job[p].op = "deldir" => /\ Kids(disk', job[p].ino) \subseteq Kids(disk, job[p].ino)
                                                   /\ p = 2 => job[1].ino \notin Kids(disk', job[p].ino)
                        /\ \/ disk'.ino[job[p].ino].type = disk.ino[job[p].ino].type
                           \/ disk'.ino[job[p].ino].type = "free"
      OBVIOUS
    <3>1. job[p].ino \in Ino
      <4>1. job[p] \in Frame
        BY <1>3, TopIs DEF Types
      <4> QED BY <4>1, DeletionFrame
    <3>2. p = 2 /\ job[p].op = "deldir" => job[p].ino = dir
      <4> SUFFICES ASSUME p = 2, job[p].op = "deldir" PROVE job[p].ino = dir
        OBVIOUS
      <4>1. job[p - 1].dir = job[p].ino /\ p - 1 = 1
        BY DEF Nested, Linked
      <4> QED BY <1>3, <4>1
    <3> QED BY <1>3, <1>6, <1>7, <3>1, <3>2 DEF Kids
  <2> QED BY <1>1, <1>2, <1>3, <2>1, EmptyingReturned DEF Nested
<1> QED BY <1>6, <1>7, <1>8, <1>9, SettledBy DEF Nested, Walking

\* The frames that delete what is in the directory dir.
Starts(f, dir) ==
  \/ f = <<>>
  \/ /\ Len(f) = 2
     /\ f[1].op = "trunc" /\ f[2].op = "delfile" /\ f[2].ino = f[1].ino
     /\ f[2].dir = dir /\ disk.ino[f[2].ino].type = "file"
  \/ /\ Len(f) = 1
     /\ f[1].op = "deldir" /\ f[1].dir = dir /\ f[1].snap = disk.ino[f[1].ino].kids
     /\ disk.ino[f[1].ino].type = "dir"

LEMMA FramesStart ==
  ASSUME view.ino = disk.ino, NEW dir, NEW name
  PROVE  Starts(FileFrames(dir, name), dir) /\ Starts(DirFrames(dir, name), dir)
<1> DEFINE i == Resolve(view, dir, name)
<1>1. Starts(FileFrames(dir, name), dir)
  <2>1. CASE FileFrames(dir, name) = <<>>
    BY <2>1 DEF Starts
  <2>2. CASE FileFrames(dir, name) = <<Trunc(i), DelFile(dir, i)>> /\ view.ino[i].type = "file"
    <3> DEFINE f == <<Trunc(i), DelFile(dir, i)>>
    <3>1. /\ Len(f) = 2 /\ f[1].op = "trunc" /\ f[2].op = "delfile" /\ f[2].ino = i /\ f[1].ino = i
          /\ f[2].dir = dir
      BY DEF Trunc, DelFile
    <3> HIDE DEF f
    <3> QED BY <2>2, <3>1 DEF Starts, f
  <2> QED BY <2>1, <2>2 DEF FileFrames
<1>2. Starts(DirFrames(dir, name), dir)
  <2>1. CASE DirFrames(dir, name) = <<>>
    BY <2>1 DEF Starts
  <2>2. CASE DirFrames(dir, name) = <<DelDir(dir, i)>> /\ view.ino[i].type = "dir"
    <3> DEFINE f == <<DelDir(dir, i)>>
    <3>1. Len(f) = 1 /\ f[1].op = "deldir" /\ f[1].dir = dir /\ f[1].ino = i /\ f[1].snap = disk.ino[i].kids
      BY DEF DelDir
    <3> HIDE DEF f
    <3> QED BY <2>2, <3>1 DEF Starts, f
  <2> QED BY <2>1, <2>2 DEF DirFrames
<1> QED BY <1>1, <1>2

\* A deletion starts below deletions of directories.
LEMMA StartsNested ==
  ASSUME NEW f \in Seq(Frame), NEW rest \in Seq(Frame), NEW dir, Starts(f, dir),
         job' = f \o rest, open' = open, disk' = disk,
         \A p \in 1 .. Len(rest) :
           /\ rest[p].op = "deldir"
           /\ p = 1 => rest[p].ino = dir
           /\ p > 1 => rest[p - 1].dir = rest[p].ino,
         ~open => \A p \in 1 .. Len(rest) : \A c \in Kids(disk, rest[p].ino) :
           \/ c \in ToSet(rest[p].snap)
           \/ p > 1 /\ c = rest[p - 1].ino
           \/ p = 1 /\ f # <<>> /\ c = f[Len(f)].ino
  PROVE  Nested'
<1> DEFINE l == Len(f)
<1>1. l \in Nat /\ Len(rest) \in Nat /\ l \in {0, 1, 2} /\ (f # <<>> => l > 0)
  BY DEF Starts
<1>2. /\ job' \in Seq(Frame) /\ Len(job') = l + Len(rest)
      /\ \A p \in 1 .. l : job'[p] = f[p]
      /\ \A p \in 1 .. Len(rest) : job'[p + l] = rest[p] /\ p + l \in 1 .. Len(job')
  BY <1>1
<1>3. \A p \in 1 .. Len(job') : p \in 1 .. l \/ (p - l \in 1 .. Len(rest) /\ job'[p] = rest[p - l])
  <2> SUFFICES ASSUME NEW p \in 1 .. Len(job'), ~(p \in 1 .. l) PROVE p - l \in 1 .. Len(rest) /\ job'[p] = rest[p - l]
    OBVIOUS
  <2>1. p - l \in 1 .. Len(rest) /\ p - l + l = p
    BY <1>1, <1>2
  <2> QED BY <1>2, <2>1
<1>4. /\ \A p \in 1 .. l : f[p].op \in {"trunc", "delfile", "deldir"}
      /\ l > 0 => f[l].op \in {"delfile", "deldir"} /\ f[l].dir = dir
      /\ \A p \in 1 .. l : f[p].op = "deldir" => p = 1 /\ l = 1 /\ f[p].snap = disk.ino[f[p].ino].kids
      /\ \A p \in 1 .. l : f[p].op = "delfile" => p = 2 /\ l = 2 /\ f[1].op = "trunc" /\ disk.ino[f[p].ino].type = "file"
      /\ \A p \in 1 .. l : f[p].op = "trunc" => p = 1 /\ l = 2 /\ f[2].op = "delfile" /\ f[2].ino = f[1].ino
  <2>1. CASE f = <<>>
    BY <2>1
  <2>2. CASE /\ Len(f) = 2
             /\ f[1].op = "trunc" /\ f[2].op = "delfile" /\ f[2].ino = f[1].ino
             /\ f[2].dir = dir /\ disk.ino[f[2].ino].type = "file"
    <3>1. \A p \in 1 .. l : p = 1 \/ p = 2
      BY <2>2
    <3> QED BY <2>2, <3>1
  <2>3. CASE /\ Len(f) = 1
             /\ f[1].op = "deldir" /\ f[1].dir = dir /\ f[1].snap = disk.ino[f[1].ino].kids
             /\ disk.ino[f[1].ino].type = "dir"
    <3>1. \A p \in 1 .. l : p = 1
      BY <2>3
    <3> QED BY <2>3, <3>1
  <2> QED BY <2>1, <2>2, <2>3 DEF Starts
<1> HIDE DEF l
<1>5. ASSUME NEW p \in 1 .. Len(job') PROVE job'[p].op \in {"trunc", "delfile", "deldir"}
  <2>1. CASE p \in 1 .. l
    BY <1>2, <1>4, <2>1
  <2>2. CASE p \notin 1 .. l
    BY <1>3, <2>2
  <2> QED BY <2>1, <2>2
<1>6. ~At("check")'
  <2> SUFFICES ASSUME job' # <<>>, Head(job').op = "check" PROVE FALSE
    BY DEF At, Top
  <2>1. 1 \in 1 .. Len(job') /\ Head(job') = job'[1]
    BY <1>2
  <2> QED BY <1>5, <2>1
<1>7. Linked'
  <2>1. ASSUME NEW p \in 2 .. Len(job'), job'[p].op = "deldir"
        PROVE  job'[p - 1].op \in {"delfile", "deldir"} /\ job'[p - 1].dir = job'[p].ino
    <3>1. p \in 1 .. Len(job') /\ p - 1 \in 1 .. Len(job') /\ p # 1
      BY <1>2
    <3>2. p \notin 1 .. l
      BY <1>2, <1>4, <2>1, <3>1
    <3>3. p - l \in 1 .. Len(rest) /\ job'[p] = rest[p - l]
      BY <1>3, <3>1, <3>2
    <3>4. CASE p - l = 1
      <4>1. p - 1 = l /\ l \in 1 .. l /\ l > 0
        BY <1>1, <3>1, <3>4
      <4>2. job'[p - 1] = f[l]
        BY <1>2, <4>1
      <4> QED BY <1>4, <3>3, <3>4, <4>1, <4>2
    <3>5. CASE p - l # 1
      <4> DEFINE q == p - l
      <4>a. q \in 1 .. Len(rest) /\ q # 1 /\ p \in Int /\ l \in Int /\ Len(rest) \in Nat
        BY <1>1, <3>3, <3>5
      <4>b. q - 1 \in 1 .. Len(rest) /\ q > 1
        <5> HIDE DEF q
        <5> QED BY <4>a
      <4>1. p - l - 1 \in 1 .. Len(rest) /\ p - l > 1 /\ p - l - 1 + l = p - 1
        BY <4>a, <4>b
      <4>2. job'[p - 1] = rest[p - l - 1]
        BY <1>2, <4>1
      <4> QED BY <3>3, <4>1, <4>2
    <3> QED BY <3>4, <3>5
  <2>2. ASSUME NEW p \in 2 .. Len(job'), job'[p].op = "delfile" PROVE p = 2 /\ job'[1].op = "trunc"
    <3>a. p \in 1 .. Len(job')
      BY <1>2
    <3>1. p \in 1 .. Len(job') /\ p \in 1 .. l
      BY <1>3, <2>2, <3>a
    <3>2. p = 2 /\ l = 2 /\ f[1].op = "trunc" /\ 1 \in 1 .. l
      BY <1>2, <1>4, <2>2, <3>1
    <3> QED BY <1>2, <3>2
  <2>3. ASSUME At("trunc")' PROVE job'[2].op \in {"begin", "delfile"} /\ job'[2].ino = job'[1].ino
    <3>1. 1 \in 1 .. Len(job') /\ job'[1].op = "trunc"
      BY <1>2, <2>3 DEF At, Top
    <3>2. 1 \in 1 .. l
      BY <1>3, <3>1
    <3>3. l = 2 /\ f[2].op = "delfile" /\ f[2].ino = f[1].ino
      BY <1>2, <1>4, <3>1, <3>2
    <3>4. 2 \in 1 .. l
      BY <3>3
    <3> QED BY <1>2, <3>2, <3>3, <3>4
  <2> QED BY <2>1, <2>2, <2>3 DEF Linked
<1>8. Emptying'
  <2> SUFFICES ASSUME ~open, NEW p \in 1 .. Len(job')
               PROVE  /\ job'[p].op = "deldir" =>
                           \A c \in Kids(disk, job'[p].ino) :
                             c \in ToSet(job'[p].snap) \/ (p > 1 /\ c = job'[p - 1].ino)
                      /\ job'[p].op = "delfile" => disk.ino[job'[p].ino].type # "dir"
    BY DEF Emptying, Kids
  <2>1. CASE p \in 1 .. l
    <3>1. job'[p] = f[p]
      BY <1>2, <2>1
    <3> QED BY <1>4, <2>1, <3>1 DEF Kids
  <2>2. CASE p \notin 1 .. l
    <3>1. p - l \in 1 .. Len(rest) /\ job'[p] = rest[p - l]
      BY <1>3, <2>2
    <3>2. ASSUME NEW c \in Kids(disk, job'[p].ino)
          PROVE  c \in ToSet(job'[p].snap) \/ (p > 1 /\ c = job'[p - 1].ino)
      <4>1. \/ c \in ToSet(rest[p - l].snap)
            \/ p - l > 1 /\ c = rest[p - l - 1].ino
            \/ p - l = 1 /\ f # <<>> /\ c = f[l].ino
        BY <3>1, <3>2 DEF l
      <4>2. CASE p - l > 1 /\ c = rest[p - l - 1].ino
        <5> DEFINE q == p - l
        <5>a. q \in 1 .. Len(rest) /\ q > 1 /\ p \in Int /\ l \in Nat /\ Len(rest) \in Nat
          BY <1>1, <3>1, <4>2
        <5>b. q - 1 \in 1 .. Len(rest)
          <6> HIDE DEF q
          <6> QED BY <5>a
        <5>1. p - l - 1 \in 1 .. Len(rest) /\ p - l - 1 + l = p - 1 /\ p > 1
          BY <5>a, <5>b
        <5>2. job'[p - 1] = rest[p - l - 1]
          BY <1>2, <5>1
        <5> QED BY <4>2, <5>1, <5>2
      <4>3. CASE p - l = 1 /\ f # <<>> /\ c = f[l].ino
        <5>1. p - 1 = l /\ l \in 1 .. l /\ p > 1
          BY <1>1, <4>3
        <5>2. job'[p - 1] = f[l]
          BY <1>2, <5>1
        <5> QED BY <4>3, <5>1, <5>2
      <4> QED BY <3>1, <4>1, <4>2, <4>3
    <3> QED BY <3>1, <3>2
  <2> QED BY <2>1, <2>2
<1> QED BY <1>6, <1>7, <1>8 DEF Nested, Walking

LEMMA CallDeleteExact ==
  ASSUME Plain, Inv, Exact, NEW dir \in Ino, NEW name \in Name, CallDelete(dir, name)
  PROVE  Exact'
<1> USE DEF Inv, Exact
<1>1. PICK f \in {FileFrames(dir, name), DirFrames(dir, name)} : job' = f \o job
  BY DEF CallDelete, Push
<1>2. CanCall /\ disk' = disk /\ doubt' = doubt /\ open' = open
  BY DEF CallDelete, meta
<1>3. job = <<>> /\ view.ino = disk.ino
  BY <1>2, CallFirst, ViewTree
<1>4. f \in Seq(Frame) /\ Starts(f, dir)
  BY <1>1, <1>3, FileFramesAre, DirFramesAre, FramesStart DEF DeleteFrames
<1>5. Len(job) = 0 /\ job \in Seq(Frame) /\ 1 .. Len(job) = {}
  BY <1>3
<1>6. Nested'
  BY <1>1, <1>2, <1>4, <1>5, StartsNested
<1> QED BY <1>2, <1>6, SettledStill

LEMMA CallBeginExact ==
  ASSUME Plain, Inv, Exact, NEW i \in Ino, CallBegin(i)
  PROVE  Exact'
<1> USE DEF Inv, Exact
<1> DEFINE t == Trunc(i)
           b == [op |-> "begin", ino |-> i]
<1>1. CanCall /\ job' = <<t, b>> \o job /\ disk' = disk /\ doubt' = doubt
  BY DEF CallBegin, Push, meta
<1>2. job = <<>>
  BY <1>1, CallFirst
<1>3. t.op = "trunc" /\ b.op = "begin" /\ b.ino = i /\ t.ino = i
  BY DEF Trunc
<1> HIDE DEF t, b
<1>4. Len(job') = 2 /\ job'[1] = t /\ job'[2] = b /\ job' # <<>> /\ Head(job') = t
  BY <1>1, <1>2
<1>5. (\A p \in 1 .. Len(job') : p = 1 \/ p = 2) /\ \A p \in 2 .. Len(job') : p = 2
  BY <1>4
<1>6. ~At("check")'
  BY <1>3, <1>4 DEF At, Top
<1> QED BY <1>1, <1>3, <1>4, <1>5, <1>6, SettledStill DEF Nested, Linked, Emptying, Walking

\* The child that comes next in the snapshot, if it is still there, is the one that
\* its name leads to.
LEMMA DelDirChildExact ==
  ASSUME Plain, Inv, Exact, DelDirChild
  PROVE  Exact'
<1> USE DEF Inv, Exact
<1> DEFINE h == Head(Top.snap)
           c == view.ino[h]
           dir == Top.ino
           f == CASE c.type = "file" -> FileFrames(dir, c.name)
                  [] c.type = "dir"  -> DirFrames(dir, c.name)
                  [] c.type = "free" -> <<>>
           rest == [job EXCEPT ![1].snap = Tail(@)]
           d == [Top EXCEPT !.snap = Tail(@)]
<1>1. At("deldir") /\ Top.snap # <<>> /\ job' = f \o rest /\ disk' = disk /\ doubt' = doubt /\ open' = open
  BY DEF DelDirChild, meta
<1>2. /\ job # <<>> /\ Top = job[1] /\ dir \in Ino /\ Top \in DirFrame /\ Top.op = "deldir"
      /\ \A p \in 1 .. Len(job) : job[p].op \in {"delfile", "deldir"}
      /\ job \in Seq(Frame) /\ Len(job) \in Nat /\ Len(job) > 0
  BY <1>1, DeletionIs, TopIs DEF At, Types
<1>3. /\ Top.snap \in Seq(Ino) /\ h \in Ino /\ Tail(Top.snap) \in Seq(Ino)
      /\ \A x \in ToSet(Top.snap) : x = h \/ x \in ToSet(Tail(Top.snap))
  <2>1. Top.snap \in Seq(Ino)
    BY <1>2 DEF DirFrame
  <2> DEFINE s == Top.snap
  <2>2. s \in Seq(Ino) /\ s # <<>>
    BY <1>1, <2>1
  <2> HIDE DEF s
  <2>3. Head(s) \in Ino /\ Tail(s) \in Seq(Ino)
    BY <2>2
  <2>4. ASSUME NEW x \in ToSet(s) PROVE x = Head(s) \/ x \in ToSet(Tail(s))
    <3>1. PICK k \in 1 .. Len(s) : x = s[k]
      BY <2>2 DEF ToSet
    <3>2. CASE k = 1
      BY <2>2, <3>1, <3>2
    <3>3. CASE k # 1
      <4> DEFINE t == Tail(s)
      <4>1. k - 1 \in 1 .. Len(t) /\ t[k - 1] = s[k]
        BY <2>2, <3>3
      <4>2. t \in Seq(Ino)
        BY <2>3
      <4> HIDE DEF t
      <4>3. x \in ToSet(t)
        BY <3>1, <4>1, <4>2 DEF ToSet
      <4> QED BY <4>3 DEF t
    <3> QED BY <3>2, <3>3
  <2> QED BY <2>1, <2>3, <2>4 DEF s
<1>4. d \in DirFrame /\ d.op = "deldir" /\ d.ino = dir /\ d.dir = Top.dir /\ d.snap = Tail(Top.snap)
  BY <1>2, <1>3 DEF DirFrame
<1>5. rest = [job EXCEPT ![1] = d]
  BY <1>2
<1> HIDE DEF d, h
<1>6. /\ rest \in Seq(Frame) /\ Len(rest) = Len(job)
      /\ \A p \in 1 .. Len(rest) : rest[p] = IF p = 1 THEN d ELSE job[p]
  <2>1. d \in Frame
    BY <1>4 DEF Frame
  <2> HIDE DEF rest
  <2> QED BY <1>2, <1>5, <2>1, FirstReplaced
<1> HIDE DEF rest
<1>7. view.ino = disk.ino /\ Sound(disk, written) /\ disk \in Store /\ c \in NodeRec
  <2>1. view.ino = disk.ino /\ Sound(disk, written) /\ disk \in Store
    BY ViewTree DEF Stores, Sound
  <2> QED BY <1>3, <2>1, StoreParts
<1>8. c.name \in Name \union {Nil} /\ c.type \in {"free", "file", "dir"}
  BY <1>7 DEF NodeRec
<1>9. h \in Kids(disk, dir) => f # <<>> /\ f[Len(f)].ino = h
  <2> SUFFICES ASSUME h \in Kids(disk, dir) PROVE f # <<>> /\ f[Len(f)].ino = h
    OBVIOUS
  <2>1. h # Root /\ c.type # "free" /\ Child(disk, disk.ino[dir], c.name) = h
    BY <1>2, <1>7, KidIs
  <2>2. Resolve(view, dir, c.name) = h
    <3>1. Resolve(disk, dir, c.name) = Child(disk, disk.ino[dir], c.name)
      BY <1>2, <1>7, <1>8, ResolveIs
    <3>2. Resolve(view, dir, c.name) = Resolve(disk, dir, c.name)
      BY <1>7 DEF Resolve, Child
    <3> QED BY <2>1, <3>1, <3>2
  <2>3. h # Nil
    BY <1>3, Consts
  <2>4. CASE c.type = "file"
    <3>1. f = <<Trunc(h), DelFile(dir, h)>>
      BY <2>2, <2>3, <2>4 DEF FileFrames
    <3> DEFINE g == <<Trunc(h), DelFile(dir, h)>>
    <3>2. Len(g) = 2 /\ g[2].ino = h /\ g # <<>>
      BY DEF DelFile
    <3> HIDE DEF f, g
    <3> QED BY <3>1, <3>2 DEF g
  <2>5. CASE c.type = "dir"
    <3>1. f = <<DelDir(dir, h)>>
      BY <2>1, <2>2, <2>3, <2>5 DEF DirFrames
    <3> DEFINE g == <<DelDir(dir, h)>>
    <3>2. Len(g) = 1 /\ g[1].ino = h /\ g # <<>>
      BY DEF DelDir
    <3> HIDE DEF f, g
    <3> QED BY <3>1, <3>2 DEF g
  <2> QED BY <1>8, <2>1, <2>4, <2>5
<1> HIDE DEF c
<1>10. f \in Seq(Frame) /\ Starts(f, dir)
  <2>1. Starts(<<>>, dir) /\ <<>> \in Seq(Frame)
    BY DEF Starts
  <2>2. /\ FileFrames(dir, c.name) \in Seq(Frame) /\ DirFrames(dir, c.name) \in Seq(Frame)
        /\ Starts(FileFrames(dir, c.name), dir) /\ Starts(DirFrames(dir, c.name), dir)
    BY <1>2, <1>7, <1>8, FileFramesAre, DirFramesAre, FramesStart DEF DeleteFrames
  <2> QED BY <1>8, <2>1, <2>2
<1> HIDE DEF f
<1>11. \A p \in 1 .. Len(rest) : /\ rest[p].op = "deldir"
                                 /\ p = 1 => rest[p].ino = dir
                                 /\ p > 1 => rest[p - 1].dir = rest[p].ino
  <2> SUFFICES ASSUME NEW p \in 2 .. Len(job) PROVE job[p].op = "deldir" /\ rest[p - 1].dir = job[p].ino
    <3>1. \A p \in 1 .. Len(rest) : p = 1 \/ (p \in 2 .. Len(job) /\ rest[p] = job[p])
      BY <1>2, <1>6
    <3>2. 1 \in 1 .. Len(rest) /\ rest[1] = d
      BY <1>2, <1>6
    <3> QED BY <1>4, <3>1, <3>2
  <2>1. job[p].op = "deldir"
    BY <1>2 DEF Nested, Linked
  <2>2. job[p - 1].dir = job[p].ino
    BY <2>1 DEF Nested, Linked
  <2>3. p - 1 \in 1 .. Len(rest)
    BY <1>2, <1>6
  <2>4. rest[p - 1].dir = job[p - 1].dir
    BY <1>2, <1>4, <1>6, <2>3
  <2> QED BY <2>1, <2>2, <2>4
<1>12. ASSUME ~open, NEW p \in 1 .. Len(rest), NEW x \in Kids(disk, rest[p].ino)
       PROVE  \/ x \in ToSet(rest[p].snap)
              \/ p > 1 /\ x = rest[p - 1].ino
              \/ p = 1 /\ f # <<>> /\ x = f[Len(f)].ino
  <2>1. p \in 1 .. Len(job) /\ rest[p].ino = job[p].ino /\ job[p].op = "deldir"
    BY <1>2, <1>4, <1>6, <1>11
  <2>2. x \in ToSet(job[p].snap) \/ (p > 1 /\ x = job[p - 1].ino)
    BY <1>12, <2>1 DEF Nested, Emptying
  <2>3. CASE p = 1
    <3>1. x \in ToSet(Top.snap) /\ rest[p] = d
      BY <1>2, <1>6, <2>2, <2>3
    <3>2. x = h \/ x \in ToSet(Tail(Top.snap))
      BY <1>3, <3>1
    <3>3. x \in Kids(disk, dir)
      BY <1>2, <1>12, <2>1, <2>3
    <3> QED BY <1>4, <1>9, <2>3, <3>1, <3>2, <3>3
  <2>4. CASE p # 1
    <3>1. p > 1 /\ p - 1 \in 1 .. Len(rest) /\ rest[p] = job[p]
      BY <1>2, <1>6, <2>1, <2>4
    <3>2. rest[p - 1].ino = job[p - 1].ino
      BY <1>2, <1>4, <1>6, <3>1
    <3> QED BY <2>2, <3>1, <3>2
  <2> QED BY <2>3, <2>4
<1>13. Nested'
  BY <1>1, <1>6, <1>10, <1>11, <1>12, StartsNested
<1> QED BY <1>1, <1>13, SettledStill

-----------------------------------------------------------------------------
(* nxfs_check.                                                             *)

LEMMA DueIs ==
  ASSUME NEW w \in Seq(Visit), w # <<>>
  PROVE  /\ Head(w) = w[1] /\ Tail(w) \in Seq(Visit) /\ Due(w) = {w[1].ino} \union Due(Tail(w))
         /\ \A k \in 1 .. Len(Tail(w)) : \E l \in 1 .. Len(w) : Tail(w)[k] = w[l]
<1> DEFINE t == Tail(w)
<1>1. /\ Head(w) = w[1] /\ t \in Seq(Visit) /\ Len(w) \in Nat /\ Len(w) > 0 /\ Len(t) = Len(w) - 1
      /\ \A k \in 1 .. Len(t) : t[k] = w[k + 1]
  OBVIOUS
<1> HIDE DEF t
<1>2. \A k \in 1 .. Len(t) : k + 1 \in 1 .. Len(w)
  BY <1>1
<1>3. \A l \in 1 .. Len(w) : l = 1 \/ (l - 1 \in 1 .. Len(t) /\ t[l - 1] = w[l])
  <2> SUFFICES ASSUME NEW l \in 1 .. Len(w), l # 1 PROVE l - 1 \in 1 .. Len(t) /\ t[l - 1] = w[l]
    OBVIOUS
  <2>1. l - 1 \in 1 .. Len(t) /\ l - 1 + 1 = l
    BY <1>1
  <2> QED BY <1>1, <2>1
<1>4. Due(w) = {w[1].ino} \union Due(t)
  <2>1. 1 \in 1 .. Len(w)
    BY <1>1
  <2>2. \A x : x \in Due(w) <=> \E k \in 1 .. Len(w) : x = w[k].ino
    BY DEF Due
  <2>3. \A x : x \in Due(t) <=> \E k \in 1 .. Len(t) : x = t[k].ino
    BY DEF Due
  <2>4. ASSUME NEW x \in Due(w) PROVE x = w[1].ino \/ x \in Due(t)
    BY <1>3, <2>2, <2>3
  <2>5. ASSUME NEW x, x = w[1].ino \/ x \in Due(t) PROVE x \in Due(w)
    BY <1>1, <1>2, <2>1, <2>2, <2>3, <2>5
  <2> QED BY <2>4, <2>5
<1> QED BY <1>1, <1>2, <1>4 DEF t

LEMMA DueJoined ==
  ASSUME NEW v \in Seq(Visit), NEW w \in Seq(Visit)
  PROVE  /\ v \o w \in Seq(Visit) /\ Due(v \o w) = Due(v) \union Due(w)
         /\ \A k \in 1 .. Len(v \o w) : \/ \E l \in 1 .. Len(v) : (v \o w)[k] = v[l]
                                        \/ \E l \in 1 .. Len(w) : (v \o w)[k] = w[l]
<1> DEFINE u == v \o w
<1>1. /\ u \in Seq(Visit) /\ Len(u) = Len(v) + Len(w) /\ Len(v) \in Nat /\ Len(w) \in Nat
      /\ \A k \in 1 .. Len(v) : u[k] = v[k] /\ k \in 1 .. Len(u)
      /\ \A k \in 1 .. Len(w) : u[k + Len(v)] = w[k] /\ k + Len(v) \in 1 .. Len(u)
  OBVIOUS
<1> HIDE DEF u
<1>2. \A k \in 1 .. Len(u) : k \in 1 .. Len(v) \/ (k - Len(v) \in 1 .. Len(w) /\ u[k] = w[k - Len(v)])
  <2> SUFFICES ASSUME NEW k \in 1 .. Len(u), k \notin 1 .. Len(v)
               PROVE  k - Len(v) \in 1 .. Len(w) /\ u[k] = w[k - Len(v)]
    OBVIOUS
  <2>1. k - Len(v) \in 1 .. Len(w) /\ k - Len(v) + Len(v) = k
    BY <1>1
  <2> QED BY <1>1, <2>1
<1>3. \A k \in 1 .. Len(u) : \/ \E l \in 1 .. Len(v) : u[k] = v[l]
                             \/ \E l \in 1 .. Len(w) : u[k] = w[l]
  BY <1>1, <1>2
<1>4. Due(u) = Due(v) \union Due(w)
  <2>1. /\ \A x : x \in Due(u) <=> \E k \in 1 .. Len(u) : x = u[k].ino
        /\ \A x : x \in Due(v) <=> \E k \in 1 .. Len(v) : x = v[k].ino
        /\ \A x : x \in Due(w) <=> \E k \in 1 .. Len(w) : x = w[k].ino
    BY DEF Due
  <2>2. ASSUME NEW x \in Due(u) PROVE x \in Due(v) \/ x \in Due(w)
    BY <1>3, <2>1
  <2>3. ASSUME NEW x, x \in Due(v) \/ x \in Due(w) PROVE x \in Due(u)
    <3>1. CASE x \in Due(v)
      <4>1. PICK k \in 1 .. Len(v) : x = v[k].ino
        BY <2>1, <3>1
      <4>2. k \in 1 .. Len(u) /\ u[k] = v[k]
        BY <1>1
      <4> QED BY <2>1, <4>1, <4>2
    <3>2. CASE x \in Due(w)
      <4>1. PICK k \in 1 .. Len(w) : x = w[k].ino
        BY <2>1, <3>2
      <4>2. k + Len(v) \in 1 .. Len(u) /\ u[k + Len(v)] = w[k]
        BY <1>1
      <4> QED BY <2>1, <4>1, <4>2
    <3> QED BY <2>3, <3>1, <3>2
  <2> QED BY <2>2, <2>3
<1> QED BY <1>1, <1>3, <1>4 DEF u

LEMMA DueVisits ==
  ASSUME NEW s \in Seq(Ino), NEW d \in Nat
  PROVE  /\ Visits(s, d) \in Seq(Visit) /\ Due(Visits(s, d)) = ToSet(s)
         /\ \A k \in 1 .. Len(Visits(s, d)) : Visits(s, d)[k].depth = d /\ Visits(s, d)[k].ino \in ToSet(s)
<1> DEFINE v == Visits(s, d)
<1>1. v \in Seq(Visit) /\ Len(v) = Len(s) /\ \A k \in 1 .. Len(s) : v[k] = [ino |-> s[k], depth |-> d]
  BY VisitsAre
<1> HIDE DEF v
<1>2. ASSUME NEW k \in 1 .. Len(s) PROVE v[k].ino = s[k] /\ v[k].depth = d
  <2>1. v[k] = [ino |-> s[k], depth |-> d]
    BY <1>1
  <2> QED BY <2>1
<1>3. \A x : x \in ToSet(s) <=> \E k \in 1 .. Len(s) : x = s[k]
  BY DEF ToSet
<1>4. Due(v) = ToSet(s)
  <2>1. \A x : x \in Due(v) <=> \E k \in 1 .. Len(v) : x = v[k].ino
    BY DEF Due
  <2>2. ASSUME NEW x \in Due(v) PROVE x \in ToSet(s)
    BY <1>1, <1>2, <1>3, <2>1
  <2>3. ASSUME NEW x \in ToSet(s) PROVE x \in Due(v)
    BY <1>1, <1>2, <1>3, <2>1
  <2> QED BY <2>2, <2>3
<1> QED BY <1>1, <1>2, <1>3, <1>4 DEF v

\* An inode that maps nothing has no blocks.
LEMMA BareBlocks ==
  ASSUME NEW m \in Store, Bare(m), NEW i \in Ino, m.ino[i].type # "file"
  PROVE  Blocks(m, m.ino[i]) = {}
<1>1. \A k \in Place : Slot(m, i, k) = Nil
  BY ChainBlank DEF Bare, Slot
<1> QED BY <1>1, SlotIsBlock

LEMMA WalkedStarts ==
  ASSUME Checks, Flat, NEW f, f.walk = Visits(<<Root>>, 0), f.seenI = {}, f.seenB = {}
  PROVE  Walked(f)
<1>1. PICK g \in [Ino -> 0 .. WalkMax] : Depths(disk, g)
  BY DEF Flat
<1> DEFINE s == <<Root>>
           v == Visits(s, 0)
<1>2. s \in Seq(Ino) /\ ToSet(s) = {Root}
  <2>1. Root \in Ino
    BY Consts
  <2> QED BY <2>1 DEF ToSet
<1> HIDE DEF s
<1>3. /\ v \in Seq(Visit) /\ Due(v) = {Root}
      /\ \A k \in 1 .. Len(v) : v[k].depth = 0 /\ v[k].ino = Root
  BY <1>2, DueVisits
<1> HIDE DEF v
<1>4. f.walk = v
  BY DEF v, s
<1>5. Met(f) = {Root}
  BY <1>3, <1>4 DEF Met
<1>6. \A k \in 1 .. Len(f.walk) : f.walk[k].depth = g[f.walk[k].ino]
  BY <1>1, <1>3, <1>4 DEF Depths
<1> QED BY <1>1, <1>5, <1>6 DEF Walked, Closed

LEMMA CallCheckExact ==
  ASSUME Plain, Inv, Exact, Flat, CallCheck
  PROVE  Exact'
<1> USE DEF Inv, Exact
<1> DEFINE v == Visits(<<Root>>, 0)
           f == [op |-> "check", walk |-> v, seenB |-> {}, seenI |-> {}, tick |-> FALSE]
<1>1. Checks /\ job = <<>> /\ job' = <<f>> \o job /\ UNCHANGED <<meta, ws, written>>
  BY DEF CallCheck, Push
<1>2. f.op = "check" /\ f.walk = v /\ f.seenB = {} /\ f.seenI = {}
  OBVIOUS
<1> HIDE DEF v, f
<1>3. Walked(f)
  BY <1>1, <1>2, WalkedStarts DEF v
<1>4. job' = <<f>>
  BY <1>1
<1>5. Len(job') = 1 /\ job'[1] = f /\ Head(job') = f
  BY <1>4
<1>6. disk' = disk /\ doubt' = doubt /\ open' = open
  BY <1>1 DEF meta
<1>7. Linked'
  <2>1. 2 .. Len(job') = {}
    BY <1>5
  <2>2. ~At("trunc")'
    BY <1>2, <1>5 DEF At, Top
  <2> QED BY <2>1, <2>2 DEF Linked
<1>8. Emptying'
  <2>1. \A p \in 1 .. Len(job') : job'[p].op = "check"
    BY <1>2, <1>5
  <2> QED BY <2>1 DEF Emptying
<1>9. Walked(f)'
  BY <1>3, <1>6 DEF Walked, Closed, Depths, Met, Due, Kids, Blocks, Chain, Mapped
<1>10. Walking'
  BY <1>5, <1>9 DEF Walking, Top
<1> QED BY <1>6, <1>7, <1>8, <1>10, SettledStill DEF Nested

\* A visit: the children of a directory are still due, and anything else has none.
Visited(f, h) ==
  LET i   == Head(f.walk).ino
      d   == Head(f.walk).depth
      n   == disk.ino[i]
      new == d <= WalkMax /\ i \notin f.seenI
  IN  /\ h.walk = (IF new /\ n.type = "dir" THEN Visits(n.kids, d + 1) \o Tail(f.walk) ELSE Tail(f.walk))
      /\ h.seenI = (IF new THEN f.seenI \union {i} ELSE f.seenI)
      /\ h.seenB = (IF new /\ n.type = "file" THEN f.seenB \union Blocks(disk, n) ELSE f.seenB)

LEMMA WalkedOn ==
  ASSUME Sound(disk, written), Bare(disk), NEW f \in CheckFrame, Walked(f), f.walk # <<>>,
         NEW h, Visited(f, h)
  PROVE  Walked(h)
<1> DEFINE i   == Head(f.walk).ino
           d   == Head(f.walk).depth
           n   == disk.ino[i]
           new == d <= WalkMax /\ i \notin f.seenI
<1>a. /\ h.walk = (IF new /\ n.type = "dir" THEN Visits(n.kids, d + 1) \o Tail(f.walk) ELSE Tail(f.walk))
      /\ h.seenI = (IF new THEN f.seenI \union {i} ELSE f.seenI)
      /\ h.seenB = (IF new /\ n.type = "file" THEN f.seenB \union Blocks(disk, n) ELSE f.seenB)
  BY DEF Visited
<1>b. i = Head(f.walk).ino /\ d = Head(f.walk).depth /\ (new <=> d <= WalkMax /\ i \notin f.seenI)
  OBVIOUS
<1> HIDE DEF i, d, new
<1> DEFINE w == f.walk
           t == Tail(w)
           K == Kids(disk, i)
<1>1. w \in Seq(Visit) /\ f.seenI \subseteq Ino /\ w # <<>>
  BY DEF CheckFrame
<1>2. /\ t \in Seq(Visit) /\ Due(w) = {i} \union Due(t) /\ i = w[1].ino /\ d = w[1].depth
      /\ \A k \in 1 .. Len(t) : \E l \in 1 .. Len(w) : t[k] = w[l]
  <2> HIDE DEF w
  <2>1. Head(w) = w[1] /\ Tail(w) \in Seq(Visit) /\ Due(w) = {w[1].ino} \union Due(Tail(w))
        /\ \A k \in 1 .. Len(Tail(w)) : \E l \in 1 .. Len(w) : Tail(w)[k] = w[l]
    BY <1>1, DueIs
  <2> QED BY <1>b, <2>1 DEF w
<1>3. 1 \in 1 .. Len(w) /\ w[1] \in Visit
  <2> HIDE DEF w
  <2> QED BY <1>1
<1>4. i \in Ino /\ d \in Nat
  BY <1>2, <1>3 DEF Visit
<1> HIDE DEF t
<1>5. h.walk = (IF new /\ n.type = "dir" THEN Visits(n.kids, d + 1) \o t ELSE t)
  BY <1>a DEF t
<1> HIDE DEF w
<1>6. Met(f) = f.seenI \union {i} \union Due(t)
  BY <1>2 DEF Met, w
<1>7. PICK g \in [Ino -> 0 .. WalkMax] :
        Depths(disk, g) /\ \A k \in 1 .. Len(w) : w[k].depth = g[w[k].ino]
  BY DEF Walked, w
<1>8. d = g[i] /\ d <= WalkMax
  <2>1. d = g[i]
    BY <1>2, <1>3, <1>7
  <2>2. g[i] \in 0 .. WalkMax
    BY <1>4
  <2> QED BY <1>4, <2>1, <2>2
<1>9. \A k \in 1 .. Len(t) : t[k].depth = g[t[k].ino]
  BY <1>2, <1>7
<1>10. /\ Root \in Met(f)
       /\ \A S \in SUBSET Ino : Closed(disk, S) => Met(f) \subseteq S
       /\ \A j \in f.seenI : Kids(disk, j) \subseteq Met(f)
       /\ f.seenB = UNION {Blocks(disk, disk.ino[j]) : j \in f.seenI}
  BY DEF Walked
<1>11. disk \in Store /\ Tree(disk)
  BY DEF Sound
<1>12. CASE i \in f.seenI
  <2>1. h.walk = t /\ h.seenI = f.seenI /\ h.seenB = f.seenB
    BY <1>a, <1>b, <1>5, <1>12
  <2>2. Met(h) = Met(f)
    BY <1>6, <1>12, <2>1 DEF Met
  <2>3. \E e \in [Ino -> 0 .. WalkMax] :
          Depths(disk, e) /\ \A k \in 1 .. Len(h.walk) : h.walk[k].depth = e[h.walk[k].ino]
    BY <1>7, <1>9, <2>1
  <2> QED BY <1>10, <2>1, <2>2, <2>3 DEF Walked
<1>13. CASE i \notin f.seenI
  <2>1. new /\ h.seenI = f.seenI \union {i}
    BY <1>a, <1>b, <1>8, <1>13
  <2>2. h.seenB = f.seenB \union Blocks(disk, n)
    <3>1. CASE n.type = "file"
      BY <1>a, <2>1, <3>1
    <3>2. CASE n.type # "file"
      BY <1>a, <1>4, <1>11, <2>1, <3>2, BareBlocks
    <3> QED BY <3>1, <3>2
  <2>3. /\ Due(h.walk) = K \union Due(t)
        /\ \A k \in 1 .. Len(h.walk) : h.walk[k].depth = g[h.walk[k].ino]
    <3>1. CASE n.type = "dir"
      <4> DEFINE v == Visits(n.kids, d + 1)
                 u == v \o t
      <4>1. n.kids \in Seq(Ino) /\ d + 1 \in Nat
        BY <1>4, <1>11, StoreParts
      <4>2. /\ v \in Seq(Visit) /\ Due(v) = ToSet(n.kids)
            /\ \A k \in 1 .. Len(v) : v[k].depth = d + 1 /\ v[k].ino \in ToSet(n.kids)
        BY <4>1, DueVisits
      <4>3. h.walk = u
        BY <1>5, <2>1, <3>1
      <4> HIDE DEF v
      <4>4. /\ Due(u) = Due(v) \union Due(t)
            /\ \A k \in 1 .. Len(u) : \/ \E l \in 1 .. Len(v) : u[k] = v[l]
                                      \/ \E l \in 1 .. Len(t) : u[k] = t[l]
        BY <1>2, <4>2, DueJoined
      <4> HIDE DEF u
      <4>5. K = ToSet(n.kids)
        BY DEF Kids
      <4>6. \A k \in 1 .. Len(v) : v[k].depth = g[v[k].ino]
        <5> SUFFICES ASSUME NEW k \in 1 .. Len(v) PROVE v[k].depth = g[v[k].ino]
          OBVIOUS
        <5>1. v[k].ino \in K /\ v[k].depth = d + 1
          BY <4>2, <4>5
        <5>2. g[v[k].ino] = g[i] + 1
          BY <1>4, <1>7, <5>1 DEF Depths
        <5> QED BY <1>8, <5>1, <5>2
      <4>7. \A k \in 1 .. Len(u) : u[k].depth = g[u[k].ino]
        BY <1>9, <4>4, <4>6
      <4> QED BY <4>2, <4>3, <4>4, <4>5, <4>7
    <3>2. CASE n.type # "dir"
      <4>1. h.walk = t
        BY <1>5, <3>2
      <4>2. K = {}
        BY <1>4, <1>11, <3>2, KidsAre DEF Tree
      <4> QED BY <1>9, <4>1, <4>2
    <3> QED BY <3>1, <3>2
  <2> HIDE DEF K
  <2>4. Met(h) = Met(f) \union K
    BY <1>6, <2>1, <2>3 DEF Met
  <2>5. \A S \in SUBSET Ino : Closed(disk, S) => Met(h) \subseteq S
    <3> SUFFICES ASSUME NEW S \in SUBSET Ino, Closed(disk, S) PROVE Met(h) \subseteq S
      OBVIOUS
    <3>1. Met(f) \subseteq S /\ i \in S
      BY <1>6, <1>10
    <3>2. K \subseteq S
      BY <3>1 DEF Closed, Kids, K
    <3> QED BY <2>4, <3>1, <3>2
  <2>6. \A j \in h.seenI : Kids(disk, j) \subseteq Met(h)
    BY <1>10, <2>1, <2>4 DEF K
  <2>7. h.seenB = UNION {Blocks(disk, disk.ino[j]) : j \in h.seenI}
    BY <1>10, <2>1, <2>2
  <2>8. \E e \in [Ino -> 0 .. WalkMax] :
          Depths(disk, e) /\ \A k \in 1 .. Len(h.walk) : h.walk[k].depth = e[h.walk[k].ino]
    BY <1>7, <2>3
  <2> QED BY <1>10, <2>4, <2>5, <2>6, <2>7, <2>8 DEF Walked
<1> QED BY <1>12, <1>13

\* Only the frame of a check changes.
LEMMA CheckNested ==
  ASSUME NEW f, f.op = "check", job' \in Seq(Frame), Len(job') = 1, job'[1] = f, ~open' => Walked(f)'
  PROVE  Nested'
<1>1. 1 .. Len(job') = {1} /\ 2 .. Len(job') = {} /\ job' # <<>>
  OBVIOUS
<1>2. Top' = f
  BY <1>1, HeadIs DEF Top
<1>3. Linked'
  <2>1. ~At("trunc")'
    BY <1>2 DEF At
  <2> QED BY <1>1, <2>1 DEF Linked
<1>4. Emptying'
  BY <1>1 DEF Emptying
<1>5. Walking'
  BY <1>2 DEF Walking
<1> QED BY <1>3, <1>4, <1>5 DEF Nested

\* The frame that a step of a check leaves.
LEMMA CheckFramed ==
  ASSUME Types, Stacked, At("check"), NEW f \in CheckFrame, job' = [job EXCEPT ![1] = f]
  PROVE  job' \in Seq(Frame) /\ Len(job') = 1 /\ job'[1] = f /\ f.op = "check"
<1>1. job # <<>> /\ Len(job) = 1 /\ job \in Seq(Frame)
  BY CheckIs DEF Types
<1>2. job' \in Seq(Frame)
  BY CheckGoesOn
<1>3. f.op = "check"
  BY DEF CheckFrame
<1> QED BY <1>1, <1>2, <1>3

LEMMA CheckWalkExact ==
  ASSUME Plain, Inv, Exact, CheckWalk
  PROVE  Exact'
<1> USE DEF Inv, Exact
<1>1. At("check")
  BY DEF CheckWalk
<1>2. Top \in CheckFrame /\ view.ino = disk.ino /\ (~open => view = disk) /\ Sound(disk, written)
  BY <1>1, CheckIs, ViewTree DEF Opened, Stores
<1> PICK h : h = Seen(Top)
  OBVIOUS
<1>3. /\ job' = [job EXCEPT ![1] = h] /\ h \in CheckFrame /\ Top.walk # <<>>
      /\ UNCHANGED <<meta, ws, written>>
  BY VisitIs
<1>4. disk' = disk /\ doubt' = doubt /\ open' = open
  BY <1>3 DEF meta
<1>5. ~open => Walked(h)
  <2> SUFFICES ASSUME ~open PROVE Walked(h)
    OBVIOUS
  <2>1. Walked(Top) /\ Bare(disk)
    BY <1>1 DEF Nested, Walking, Settled
  <2>2. Visited(Top, h)
    <3>1. view = disk
      BY <1>2
    <3> QED BY <3>1, VisitIs DEF Visited
  <2> QED BY <1>2, <1>3, <2>1, <2>2, WalkedOn
<1>6. ~open' => Walked(h)'
  BY <1>4, <1>5 DEF Walked, Closed, Depths, Met, Due, Kids, Blocks, Chain, Mapped
<1>7. Nested'
  <2>1. job' \in Seq(Frame) /\ Len(job') = 1 /\ job'[1] = h /\ h.op = "check"
    BY <1>1, <1>3, CheckFramed
  <2> QED BY <1>6, <2>1, CheckNested
<1> QED BY <1>4, <1>7, SettledStill

\* The walk is over: it has seen the tree, which is all that is live.
LEMMA WalkOver ==
  ASSUME Inv, Exact, At("check"), Top.walk = <<>>, ~open
  PROVE  /\ view = disk /\ Top.seenI = Reach(disk) /\ Top.seenI = disk.ibm /\ Top.seenB = InUse(disk)
         /\ Top.seenB \subseteq Blk
         /\ \A i \in Ino, k \in Place : Slot(disk, i, k) # Nil => Slot(disk, i, k) \in Top.seenB
<1> USE DEF Inv, Exact
<1>1. Walked(Top) /\ view = disk /\ disk \in Store /\ Tree(disk) /\ Bare(disk) /\ Joined(disk)
  BY DEF Nested, Walking, Settled, Opened, Stores, Sound
<1>2. Top.seenI \in SUBSET Ino /\ Top.seenB \subseteq Blk
  BY CheckIs DEF CheckFrame
<1>3. Met(Top) = Top.seenI
  <2>1. 1 .. Len(Top.walk) = {}
    OBVIOUS
  <2> QED BY <2>1 DEF Met, Due
<1>4. Closed(disk, Top.seenI)
  BY <1>1, <1>3 DEF Walked, Closed, Kids
<1>5. Top.seenI = Reach(disk)
  <2>1. \A S \in SUBSET Ino : Closed(disk, S) => Top.seenI \subseteq S
    BY <1>1, <1>3 DEF Walked
  <2> QED BY <1>2, <1>4, <2>1 DEF Reach
<1>6. Top.seenI = disk.ibm
  <2>1. \A i \in Ino : i \in disk.ibm => i \in Top.seenI
    BY <1>1, <1>2, <1>4 DEF Joined, Tree
  <2>2. disk.ibm \subseteq Ino /\ Reach(disk) \subseteq disk.ibm
    BY <1>1, StoreParts, ReachMarked
  <2> QED BY <1>5, <2>1, <2>2
<1>7. Top.seenB = InUse(disk)
  BY <1>1, <1>5 DEF Walked, InUse
<1>8. ASSUME NEW i \in Ino, NEW k \in Place, Slot(disk, i, k) # Nil PROVE Slot(disk, i, k) \in Top.seenB
  <2>1. disk.ino[i].type = "file"
    BY <1>1, <1>8, ChainBlank DEF Bare, Slot
  <2>2. i \in Top.seenI
    BY <1>1, <1>6, <2>1 DEF Tree
  <2>3. Slot(disk, i, k) \in Blocks(disk, disk.ino[i])
    BY <1>1, <1>8, SlotIsBlock
  <2> QED BY <1>1, <2>2, <2>3 DEF Walked
<1> QED BY <1>1, <1>2, <1>5, <1>6, <1>7, <1>8

\* Other block bitmaps with all that is mapped in them.
Remarked(m, n) == n \in Store /\ n.ino = m.ino /\ n.ind = m.ind /\ n.ibm = m.ibm /\ Marked(n)

LEMMA RemarkedIs ==
  ASSUME NEW m, NEW n, NEW done, Sound(m, done), Bare(m), Joined(m), Remarked(m, n)
  PROVE  /\ Sound(n, done) /\ Follows(m, n) /\ Bare(n) /\ Joined(n)
         /\ Reach(n) = Reach(m) /\ InUse(n) = InUse(m)
<1>1. m \in Store /\ n \in Store /\ n.ino = m.ino /\ n.ind = m.ind /\ n.ibm = m.ibm /\ Marked(n)
  BY DEF Remarked, Sound
<1>2. \A x : Chain(n, x) = Chain(m, x) /\ \A k : Mapped(n, x, k) = Mapped(m, x, k)
  BY <1>1, ChainSame
<1>3. \A i, k : Slot(n, i, k) = Slot(m, i, k)
  BY <1>1, <1>2 DEF Slot
<1>4. Tree(n)
  BY <1>1 DEF Sound, Tree, Entries, NamedApart
<1>5. Apart(n) /\ Filled(n, done)
  BY <1>1, <1>3 DEF Sound, Apart, Filled
<1>6. Follows(m, n)
  <2>1. Follows(m, m)
    BY <1>1, FollowsSelf
  <2> QED BY <1>1, <1>2, <2>1 DEF Follows
<1>7. Bare(n) /\ Joined(n) /\ Reach(n) = Reach(m)
  BY <1>1 DEF Bare, Joined, Reach, Closed
<1>8. \A x : Blocks(n, x) = Blocks(m, x)
  BY <1>2 DEF Blocks
<1>9. InUse(n) = InUse(m)
  BY <1>1, <1>7, <1>8 DEF InUse
<1> QED BY <1>1, <1>4, <1>5, <1>6, <1>7, <1>9 DEF Sound

\* What a repair writes: a bitmap that holds what the walk has seen of it.
LEMMA RepairIs ==
  ASSUME Inv, Exact, At("check"), Top.walk = <<>>, ~open, NEW B \in SUBSET Blk, Top.seenB \subseteq B
  PROVE  LET n == [disk EXCEPT !.bbm = B] IN Remarked(disk, n) /\ n.bbm = B
<1> DEFINE n == [disk EXCEPT !.bbm = B]
<1>1. disk \in Store
  BY DEF Inv, Stores, Sound
<1>2. n \in Store /\ n.ino = disk.ino /\ n.ind = disk.ind /\ n.ibm = disk.ibm /\ n.bbm = B
  BY <1>1 DEF Store
<1> HIDE DEF n
<1>3. \A x : Chain(n, x) = Chain(disk, x)
  BY <1>2, ChainSame
<1>4. Marked(n)
  <2> SUFFICES ASSUME NEW i \in Ino, NEW k \in Place, Slot(n, i, k) # Nil PROVE Slot(n, i, k) \in B
    BY <1>2 DEF Marked
  <2>1. Slot(n, i, k) = Slot(disk, i, k)
    BY <1>2, <1>3 DEF Slot
  <2> QED BY <2>1, WalkOver
<1>5. Remarked(disk, n) /\ n.bbm = B
  BY <1>2, <1>4 DEF Remarked
<1> QED BY <1>5 DEF n

LEMMA CheckDoneExact ==
  ASSUME Inv, Exact, CheckDone
  PROVE  Exact'
<1> USE DEF Inv, Exact
<1>1. At("check") /\ Return(TRUE) /\ disk' = disk /\ doubt' = doubt
  BY DEF CheckDone, meta
<1>2. job' = <<>>
  BY <1>1, CheckIs, Returned
<1> QED BY <1>1, <1>2, SettledStill, NestedEmpty

\* The counters of a bitmap have their type.
LEMMA TallyType ==
  ASSUME NEW m, m.bbm \subseteq Blk, m.ibm \subseteq Ino
  PROVE  Tally(m) \in Counters /\ [Loaded(Tally(m)) EXCEPT !.dirty = TRUE] \in Loads
<1>1. /\ Cardinality(Blk) - Cardinality(m.bbm) \in Int
      /\ Cardinality(Ino) - Cardinality(m.ibm) \in Int
  <2>1. /\ Cardinality(Blk) \in Nat /\ Cardinality(Ino) \in Nat
        /\ Cardinality(m.bbm) \in Nat /\ Cardinality(m.ibm) \in Nat
    BY Consts, FS_Subset, FS_CardinalityType
  <2> QED BY <2>1
<1>2. /\ (Cardinality(Blk) - Cardinality(m.bbm)) % Ctr \in 0 .. Ctr - 1
      /\ (Cardinality(Ino) - Cardinality(m.ibm)) % Ctr \in 0 .. Ctr - 1
  BY <1>1, Remainder
<1>3. Tally(m) \in Counters
  BY <1>2 DEF Tally, Counters
<1> HIDE DEF Tally
<1>4. \A c \in Counters : [Loaded(c) EXCEPT !.dirty = TRUE] \in Loads
  BY DEF Loaded, Counters, Loads
<1> QED BY <1>3, <1>4

LEMMA CheckRepairKeeps ==
  ASSUME Plain, ~IoFails, Inv, Exact, CheckRepair
  PROVE  /\ Inv' /\ Exact' /\ Follows(disk, disk')
         /\ disk'.ibm = Reach(disk') /\ disk'.bbm = InUse(disk') /\ sbDisk' = Tally(disk')
<1> USE DEF Inv, Exact
<1> DEFINE s == [Loaded(Tally(Shadow)) EXCEPT !.dirty = TRUE]
<1>1. PICK ok \in Results :
        /\ At("check") /\ Top.walk = <<>> /\ ~open
        /\ TxCommit(Shadow, s, ok) /\ Return(ok)
        /\ UNCHANGED <<open, ws, written>>
  BY DEF CheckRepair
<1>2. /\ view = disk /\ Top.seenI = Reach(disk) /\ Top.seenI = disk.ibm /\ Top.seenB = InUse(disk)
      /\ Top.seenB \subseteq Blk
  BY <1>1, WalkOver
<1> DEFINE n == [disk EXCEPT !.bbm = Top.seenB]
<1>3. Shadow = n
  <2>1. disk \in Store
    BY DEF Stores, Sound
  <2>2. Shadow = [disk EXCEPT !.bbm = Top.seenB, !.ibm = disk.ibm]
    BY <1>2 DEF Shadow
  <2> QED BY <2>1, <2>2 DEF Store
<1>4. Remarked(disk, n) /\ n.bbm = Top.seenB
  BY <1>1, <1>2, RepairIs
<1> HIDE DEF n
<1>5. /\ Sound(n, written) /\ Follows(disk, n) /\ Bare(n) /\ Joined(n)
      /\ Reach(n) = Reach(disk) /\ InUse(n) = InUse(disk)
  BY <1>4, RemarkedIs DEF Stores, Settled
<1>6. n.ibm = Reach(n) /\ n.bbm = InUse(n) /\ n.ibm = disk.ibm
  BY <1>2, <1>4, <1>5 DEF Remarked
<1> HIDE DEF s
<1>7. s \in Loads
  <2>1. n.bbm \subseteq Blk /\ n.ibm \subseteq Ino
    BY <1>4, StoreParts DEF Remarked
  <2> QED BY <1>3, <2>1, TallyType DEF s
<1>8. ok = TRUE /\ disk' = n /\ doubt' = Nil
  BY <1>1, <1>3, SureCommit
<1>9. ~At("create") /\ job' = <<>>
  BY <1>1, ResultsAre, CheckIs, Returned
<1>10. Stores' /\ Opened' /\ Streaming' /\ Follows(disk, disk') /\ (job' \in Seq(Frame) => Types')
  <2>1. TxCommit(n, s, ok) /\ ok \in BOOLEAN /\ open' = open /\ ws' = ws /\ written' = written
    BY <1>1, <1>3, ResultsAre
  <2> QED BY <1>1, <1>5, <1>7, <1>9, <2>1, QuietCommit
<1>11. Inv'
  BY <1>9, <1>10, EmptyStack
<1>12. Exact'
  BY <1>5, <1>8, <1>9, SettledBy, NestedEmpty
<1>13. sbDisk' = Tally(n)
  <2>1. s.dirty /\ s.fb = Tally(Shadow).fb /\ s.fi = Tally(Shadow).fi
    BY DEF s, Loaded
  <2>2. sbDisk' = [fb |-> s.fb, fi |-> s.fi]
    BY <1>1, <1>8, <2>1 DEF TxCommit
  <2>3. Tally(n) = [fb |-> Tally(n).fb, fi |-> Tally(n).fi]
    BY DEF Tally
  <2> QED BY <1>3, <2>1, <2>2, <2>3
<1> QED BY <1>6, <1>8, <1>10, <1>11, <1>12, <1>13

LEMMA CheckBatchKeeps ==
  ASSUME Plain, ~IoFails, Inv, Exact, CheckBatch
  PROVE  Inv' /\ Exact' /\ Follows(disk, disk')
<1> USE DEF Inv, Exact
<1>1. PICK bits \in SUBSET Blk, ok \in Results :
        /\ At("check") /\ Top.walk = <<>> /\ ~open
        /\ TxCommit([view EXCEPT !.bbm = (@ \ bits) \union (Top.seenB \intersect bits)], sb, ok)
        /\ IF ok THEN job' = [job EXCEPT ![1].tick = FALSE] ELSE Return(FALSE)
        /\ UNCHANGED <<open, ws, written>>
  BY DEF CheckBatch
<1> DEFINE B == (disk.bbm \ bits) \union (Top.seenB \intersect bits)
           n == [disk EXCEPT !.bbm = B]
<1>2. view = disk /\ Top.seenB \subseteq Blk /\ Top.seenB = InUse(disk) /\ disk \in Store /\ Top.seenI = Reach(disk)
  BY <1>1, WalkOver DEF Stores, Sound
<1>3. TxCommit(n, sb, ok)
  BY <1>1, <1>2
<1>4. B \in SUBSET Blk /\ Top.seenB \subseteq B
  <2>1. Top.seenB \subseteq disk.bbm
    <3>1. InUse(disk) \subseteq disk.bbm
      BY InvUsedIsMarked DEF UsedIsMarked
    <3> QED BY <1>2, <3>1
  <2>2. disk.bbm \subseteq Blk
    BY <1>2, StoreParts
  <2> QED BY <1>2, <2>1, <2>2
<1> HIDE DEF B
<1>5. Remarked(disk, n)
  BY <1>1, <1>4, RepairIs
<1> HIDE DEF n
<1>6. Sound(n, written) /\ Follows(disk, n) /\ Bare(n) /\ Joined(n)
  BY <1>5, RemarkedIs DEF Stores, Settled
<1>7. ok = TRUE /\ disk' = n /\ doubt' = Nil
  BY <1>3, SureCommit
<1> PICK f : f = [Top EXCEPT !.tick = FALSE]
  OBVIOUS
<1>8. /\ f \in CheckFrame /\ f.walk = Top.walk /\ f.seenI = Top.seenI /\ f.seenB = Top.seenB
      /\ job' = [job EXCEPT ![1] = f] /\ ~At("create")
  <2>1. Top \in CheckFrame /\ Top = job[1] /\ ~At("create")
    BY <1>1, CheckIs
  <2>2. job' = [job EXCEPT ![1] = [@ EXCEPT !.tick = FALSE]]
    BY <1>1, <1>7
  <2> QED BY <2>1, <2>2 DEF CheckFrame
<1>9. /\ job' \in Seq(Frame) /\ Truncating' /\ Appending' /\ Beginning' /\ Deleting' /\ Stacked'
  BY <1>1, <1>8, CheckGoesOn
<1>10. Stores' /\ Opened' /\ Streaming' /\ Follows(disk, disk') /\ (job' \in Seq(Frame) => Types')
  <2>1. sb \in Loads /\ ok \in BOOLEAN /\ open' = open /\ ws' = ws /\ written' = written
    BY <1>1, <1>7 DEF Types
  <2> QED BY <1>1, <1>3, <1>6, <1>8, <2>1, QuietCommit
<1>11. Settled'
  BY <1>6, <1>7, SettledBy
<1>12. Walked(f)'
  <2>1. Walked(Top)
    BY <1>1 DEF Nested, Walking
  <2>2. Walked(f)
    BY <1>8, <2>1 DEF Walked, Met
  <2>3. disk'.ino = disk.ino /\ disk'.ind = disk.ind
    BY <1>5, <1>7 DEF Remarked
  <2>4. \A x : Chain(disk', x) = Chain(disk, x)
    BY <2>3, ChainSame
  <2>5. \A x : Blocks(disk', x) = Blocks(disk, x)
    BY <2>4 DEF Blocks
  <2>6. \A i : Kids(disk', i) = Kids(disk, i)
    BY <2>3 DEF Kids
  <2>7. \A S : Closed(disk', S) = Closed(disk, S)
    BY <2>3 DEF Closed
  <2>8. \A g : Depths(disk', g) = Depths(disk, g)
    BY <2>6 DEF Depths
  <2> QED BY <2>2, <2>3, <2>5, <2>6, <2>7, <2>8 DEF Walked, Met, Due
<1>13. Nested'
  <2>1. job' \in Seq(Frame) /\ Len(job') = 1 /\ job'[1] = f /\ f.op = "check"
    BY <1>1, <1>8, CheckFramed
  <2> QED BY <1>12, <2>1, CheckNested
<1> QED BY <1>9, <1>10, <1>11, <1>13

-----------------------------------------------------------------------------
(* Every step.                                                             *)

LEMMA StepExact ==
  ASSUME Plain, ~IoFails, Inv, Exact, Step, ~Repairs
  PROVE  Exact'
<1>1. CASE TruncBusy \/ TruncClear \/ TruncFree
  BY <1>1, BusyExact, TruncClearExact, TruncFreeExact
<1>2. CASE BeginStream \/ AppendData
  BY <1>2, BeginExact, AppendDataExact
<1>3. CASE CreateFails \/ CreateNode
  BY <1>3, CreateExact
<1>4. CASE DelDirChild \/ UnlinkBusy \/ Unlink
  BY <1>4, DelDirChildExact, BusyExact, UnlinkExact
<1>5. CASE CheckWalk \/ CheckDone
  BY <1>5, CheckWalkExact, CheckDoneExact
<1> QED BY <1>1, <1>2, <1>3, <1>4, <1>5 DEF Step, Repairs

LEMMA CallExact ==
  ASSUME Plain, ~IoFails, Inv, Exact, Flat, Call
  PROVE  Exact'
<1>1. Name \union Dots = Name
  BY DEF Plain
<1>2. CASE \E i \in Ino : CallBegin(i)
  BY <1>2, CallBeginExact
<1>3. CASE AppendMap \/ AppendFull \/ EndCommit \/ EndAbort
  BY <1>3, AppendMapExact, StreamExact
<1>4. CASE \E dir \in Ino, name \in Name, type \in {"file", "dir"} : CallCreate(dir, name, type)
  BY <1>4, CallCreateExact
<1>5. CASE \E dir \in Ino, name \in Name \union Dots : CallDelete(dir, name)
  BY <1>1, <1>5, CallDeleteExact
<1>6. CASE \E dir \in Ino, old \in Name \union Dots, new \in Name : Rename(dir, old, new)
  BY <1>1, <1>6, RenameExact
<1> QED BY <1>2, <1>3, <1>4, <1>5, <1>6, CallCheckExact DEF Call

LEMMA StutterExact ==
  ASSUME Exact, UNCHANGED vars
  PROVE  Exact'
<1>1. disk' = disk /\ open' = open /\ doubt' = doubt /\ job' = job
  BY DEF vars
<1>2. Settled'
  BY <1>1, SettledStill DEF Exact
<1>3. Top' = Top /\ \A op : At(op)' = At(op)
  BY <1>1 DEF Top, At
<1>4. Linked' /\ Emptying'
  BY <1>1, <1>3 DEF Exact, Nested, Linked, Emptying, Kids
<1>5. Walked(Top)' = Walked(Top)
  BY <1>1 DEF Walked, Closed, Depths, Met, Due, Kids, Blocks, Chain, Mapped, Top
<1>6. Walking'
  BY <1>1, <1>3, <1>5 DEF Exact, Nested, Walking
<1> QED BY <1>2, <1>4, <1>6 DEF Exact, Nested

LEMMA InitExact == Init => Exact
<1> SUFFICES ASSUME Init PROVE Exact
  OBVIOUS
<1>1. disk = Formatted /\ doubt = Nil /\ job = <<>>
  BY DEF Init
<1>2. \A i \in Ino : /\ Blank(disk.ino[i]) /\ (i # Root => disk.ino[i].type = "free")
  BY <1>1, Consts, NodeType DEF Formatted, FreeNode
<1>3. Settled
  BY <1>1, <1>2 DEF Settled, Bare, Joined, Closed
<1>4. 1 .. Len(job) = {} /\ 2 .. Len(job) = {} /\ \A op : ~At(op)
  BY <1>1 DEF At
<1> QED BY <1>3, <1>4 DEF Exact, Nested, Linked, Emptying, Walking

LEMMA NextExact ==
  ASSUME Plain, ~IoFails, Inv, Exact, Flat, [Next]_vars
  PROVE  Inv' /\ Exact' /\ Follows(disk, disk')
<1>1. CASE Repairs
  BY <1>1, CheckRepairKeeps, CheckBatchKeeps DEF Repairs
<1>2. CASE ~Repairs
  <2>1. Inv' /\ Follows(disk, disk')
    BY <1>2, NextKeeps
  <2>2. Exact'
    BY <1>2, StepExact, CallExact, CrashExact, StutterExact DEF Next
  <2> QED BY <2>1, <2>2
<1> QED BY <1>1, <1>2

LEMMA AlwaysExact ==
  ASSUME Plain, ~IoFails
  PROVE  Spec /\ []Flat => [](Inv /\ Exact)
<1>1. Init => Inv /\ Exact
  BY InitInv, InitExact
<1>2. Inv /\ Exact /\ Flat /\ [Next]_vars => (Inv /\ Exact)'
  BY NextExact
<1> QED BY <1>1, <1>2, PTL DEF Spec

-----------------------------------------------------------------------------
(* The theorems.                                                           *)

\* Where no write fails and no directory is deeper than nxfs_check walks, the
\* repair of nxfs_check never frees an inode or a block that is in use: at any
\* moment, between its batches and after a crash among them too, whatever the
\* recoverable tree refers to is set in its bitmap (chk_walk_inode, nxfs_check).
THEOREM ARepairKeepsWhatIsInUse ==
  ASSUME Plain, ~IoFails
  PROVE  Spec /\ []Flat => []UsedIsMarked
<1>1. Inv /\ Exact => UsedIsMarked
  BY InvUsedIsMarked
<1> QED BY <1>1, AlwaysExact, PTL

\* And it is exact: the bitmaps it writes are those of the tree, so that every
\* leak is gone, and so are the counters of the superblock.
THEOREM ARepairIsExact ==
  ASSUME Plain, ~IoFails
  PROVE  Spec /\ []Flat => RepairExact
<1>1. Inv /\ Exact /\ [Next]_vars =>
        [CheckRepair /\ disk' # disk =>
           /\ disk'.ibm = Reach(disk') /\ disk'.bbm = InUse(disk') /\ sbDisk' = Tally(disk')]_vars
  BY CheckRepairKeeps
<1> QED BY <1>1, AlwaysExact, PTL DEF Spec, RepairExact

\* All that holds of a volume without nxfs_check holds with it: types, a tree at any
\* mount, no block in two files although freed blocks are handed out again, data
\* written before it counts, and streams that keep to their file;
THEOREM ACheckKeepsTheVolume ==
  ASSUME Plain, ~IoFails
  PROVE  Spec /\ []Flat => [](/\ TypeOK /\ TreeSound /\ NoSharing /\ OrderedData
                             /\ StreamWritesAside /\ StreamOwnsFile)
<1>1. Inv /\ Exact => /\ TypeOK /\ TreeSound /\ NoSharing /\ OrderedData
                     /\ StreamWritesAside /\ StreamOwnsFile
  BY InvTypeOK, InvTreeSound, InvNoSharing, InvOrderedData, InvStreamWritesAside, InvStreamOwnsFile
<1> QED BY <1>1, AlwaysExact, PTL

\* and a file only grows or is emptied.
THEOREM ACheckChangesNoFile ==
  ASSUME Plain, ~IoFails
  PROVE  Spec /\ []Flat => FilesGrowOrEmpty
<1>1. Inv /\ Exact /\ Flat /\ [Next]_vars =>
        [\A i \in Ino :
           LET n == disk.ino[i]
               m == disk'.ino[i]
           IN  n.type = "file" /\ m.type = "file" /\ m.size # 0 =>
                 /\ m.size >= n.size
                 /\ \A k \in 1 .. n.size : Mapped(disk', m, k) = Mapped(disk, n, k)]_vars
  BY NextExact DEF Follows
<1> QED BY <1>1, AlwaysExact, PTL DEF Spec, FilesGrowOrEmpty

-----------------------------------------------------------------------------
(* Leaks: what is marked is in some place of some inode, or is about to be *)
(* freed.                                                                  *)

Placed(m, spare) == \A b \in m.bbm : b \in spare \/ \E i \in Ino, k \in Place : b = Slot(m, i, k)

\* What the truncation in progress has yet to free.
Todo == IF At("trunc") /\ Top.cleared THEN {Top.todo[k] : k \in Place} ELSE {}

\* An inode that is given away maps nothing: not after its truncation, and never if
\* it was a directory.
Cleared ==
  ~open =>
    /\ \A p \in 1 .. Len(job) : job[p].op = "deldir" => disk.ino[job[p].ino].type # "file"
    /\ At("begin") \/ At("delfile") \/ (At("trunc") /\ Top.cleared) => Blank(disk.ino[Top.ino])

\* Behind the block that it is about to write, the stream maps nothing.
Empty(m, n, s) == \A k \in 1 .. FileMax : k > s => Mapped(m, n, k) = Nil
Trimmed ==
  ws.active => Empty(view, ws.n, IF At("append") THEN ws.n.size + 1 ELSE ws.n.size)

Tight ==
  /\ Cleared /\ Trimmed
  /\ Placed(disk, Todo)
  /\ ws.active => Placed(Ahead, {})

\* No more is marked, and what left its place is about to be freed.
LEMMA PlacedKept ==
  ASSUME NEW m, NEW n, NEW s, NEW t, Placed(m, s), m.bbm \subseteq Blk, n.bbm \subseteq m.bbm,
         \A b \in n.bbm : b \in s => b \in t,
         \A i \in Ino, k \in Place : Slot(m, i, k) \in {Slot(n, i, k), Nil} \union t
  PROVE  Placed(n, t)
<1> SUFFICES ASSUME NEW b \in n.bbm, b \notin t PROVE \E i \in Ino, k \in Place : b = Slot(n, i, k)
  BY DEF Placed
<1>1. PICK i \in Ino, k \in Place : b = Slot(m, i, k)
  BY DEF Placed
<1>2. b # Nil
  BY Consts
<1> QED BY <1>1, <1>2

\* Where no inode maps anything else.
LEMMA PlacedSame ==
  ASSUME NEW m, NEW n, NEW s, Placed(m, s), n.bbm \subseteq m.bbm, n.ind = m.ind,
         \A i \in Ino : SameFile(n.ino[i], m.ino[i])
  PROVE  Placed(n, s)
<1>1. \A i \in Ino : Chain(n, n.ino[i]) = Chain(m, m.ino[i])
  BY ChainSame DEF SameFile
<1> QED BY <1>1 DEF Placed, Slot

\* An inode that maps nothing before and after.
LEMMA PlacedBut ==
  ASSUME NEW m, NEW n, NEW s, Placed(m, s), m.bbm \subseteq Blk, n.bbm = m.bbm, n.ind = m.ind,
         NEW i, Blank(m.ino[i]),
         \A j \in Ino \ {i} : SameFile(n.ino[j], m.ino[j])
  PROVE  Placed(n, s)
<1>1. \A j \in Ino \ {i} : Chain(n, n.ino[j]) = Chain(m, m.ino[j])
  BY ChainSame DEF SameFile
<1>2. \A k \in Place : Slot(m, i, k) = Nil
  BY ChainBlank DEF Slot
<1>3. \A j \in Ino, k \in Place : Slot(m, j, k) \in {Slot(n, j, k), Nil} \union s
  BY <1>1, <1>2 DEF Slot
<1> QED BY <1>3, PlacedKept

\* A stream that has committed all it has.
LEMMA PlacedAhead ==
  ASSUME NEW m \in Store, NEW i \in Ino, NEW d \in NodeRec, Placed(m, {}),
         SameFile(d, m.ino[i])
  PROVE  Placed(With(m, i, d), {})
<1> DEFINE a == With(m, i, d)
<1>1. /\ a.bbm = m.bbm /\ a.ind = m.ind
      /\ a.ino[i] = d /\ \A j \in Ino \ {i} : a.ino[j] = m.ino[j]
  BY WithIs
<1> HIDE DEF a
<1>2. \A j \in Ino : SameFile(a.ino[j], m.ino[j])
  BY <1>1 DEF SameFile
<1>3. Placed(a, {})
  BY <1>1, <1>2, PlacedSame
<1> QED BY <1>3 DEF a

\* No call is in progress, or one that has emptied nothing.
Light == /\ ~At("begin") /\ ~At("delfile") /\ ~At("append") /\ ~(At("trunc") /\ Top.cleared)
         /\ ~open => \A p \in 1 .. Len(job) : job[p].op = "deldir" => disk.ino[job[p].ino].type # "file"

LEMMA TightBy ==
  ASSUME Light', NEW m, disk' = m, Placed(m, {}),
         ws'.active => Empty(view', ws'.n, ws'.n.size) /\ Placed(Ahead', {})
  PROVE  Tight'
<1>1. Cleared' /\ Todo' = {}
  BY DEF Light, Cleared, Todo
<1>2. Placed(disk, {})'
  BY DEF Placed, Slot, Chain, Mapped
<1>3. Trimmed'
  BY DEF Trimmed, Light, Empty, Mapped
<1>4. ws'.active => Placed(Ahead, {})'
  BY DEF Placed, Slot, Chain, Mapped
<1> QED BY <1>1, <1>2, <1>3, <1>4 DEF Tight

\* A step of the stack alone.
LEMMA TightStill ==
  ASSUME Tight, Light', UNCHANGED <<meta, ws>>, Todo = {}, ~At("append")
  PROVE  Tight'
<1>1. disk' = disk /\ view' = view /\ ws' = ws
  BY DEF meta
<1>2. Placed(disk, {})
  BY DEF Tight
<1>3. ws.active => Empty(view, ws.n, ws.n.size)
  BY DEF Tight, Trimmed
<1>4. Ahead' = Ahead
  BY <1>1 DEF Ahead
<1> QED BY <1>1, <1>2, <1>3, <1>4, TightBy DEF Tight

LEMMA LightEmpty ==
  ASSUME job' = <<>>
  PROVE  Light'
<1>1. 1 .. Len(job') = {}
  OBVIOUS
<1>2. \A op : ~At(op)'
  BY DEF At
<1> QED BY <1>1, <1>2 DEF Light

LEMMA LightOne ==
  ASSUME Len(job') = 1, job'[1].op \in {"create", "check"} \/ (job'[1].op = "trunc" /\ ~job'[1].cleared)
  PROVE  Light'
<1>1. \A p \in 1 .. Len(job') : p = 1
  OBVIOUS
<1>2. job' # <<>> => Top' = job'[1]
  BY HeadIs DEF Top
<1> QED BY <1>1, <1>2 DEF Light, At

\* Nothing that a step finds in progress is being freed.
LEMMA TodoNone ==
  ASSUME ~(At("trunc") /\ Top.cleared)
  PROVE  Todo = {}
BY DEF Todo

\* Mapping a block gives it, and its indirect block, a place of its own.
LEMMA PlacedGrown ==
  ASSUME NEW v \in Store, NEW i \in Ino, NEW n \in NodeRec, NEW k, k = n.size + 1, n.size < FileMax,
         Sound(With(v, i, n), Blk), Placed(With(v, i, n), {}), Empty(v, n, n.size),
         NEW r, Grown(v, n, k, r)
  PROVE  Placed(With(r.m, i, r.n), {}) /\ Empty(r.m, r.n, k)
<1> DEFINE a == With(v, i, n)
           e == With(r.m, i, r.n)
<1>1. k \in 1 .. FileMax /\ n.size \in 0 .. FileMax /\ n.size \in Nat
  BY FileMaxIs DEF NodeRec
<1>2. /\ r.m \in Store /\ r.n \in NodeRec
      /\ r.m.bbm = v.bbm \union {r.blk} \union ({r.n.ind1} \ {n.ind1})
      /\ r.n.ind1 # n.ind1 => n.ind1 = Nil
      /\ Mapped(r.m, r.n, k) = r.blk
      /\ \A l \in 1 .. FileMax : l # k => Mapped(r.m, r.n, l) = Mapped(v, n, l)
  BY DEF Grown
<1>3. /\ a \in Store /\ a.bbm = v.bbm /\ e \in Store /\ e.bbm = r.m.bbm
      /\ \A j \in Ino, l \in Place :
           \/ Slot(e, j, l) = Slot(a, j, l)
           \/ j = i /\ l = k
           \/ j = i /\ l = FileMax + 1 /\ r.n.ind1 # n.ind1
  BY AppendMapPlaces
<1>4. /\ \A l \in Place : Slot(a, i, l) = Chain(v, n)[l]
      /\ \A l \in Place : Slot(e, i, l) = Chain(r.m, r.n)[l]
  BY <1>2, WithIs
<1>5. k \in Place /\ FileMax + 1 \in Place
  BY <1>1, FileMaxIs DEF Place
<1>6. Slot(e, i, k) = r.blk /\ Slot(e, i, FileMax + 1) = r.n.ind1
  <2>1. /\ \A l \in 1 .. FileMax : Chain(r.m, r.n)[l] = Mapped(r.m, r.n, l)
        /\ Chain(r.m, r.n)[FileMax + 1] = r.n.ind1
    BY <1>2, ChainType
  <2> QED BY <1>1, <1>2, <1>4, <1>5, <2>1
<1>7. Slot(a, i, FileMax + 1) = n.ind1
  BY <1>4, <1>5, ChainType
<1>8. Slot(a, i, k) = Nil
  <2>1. Mapped(v, n, k) = Nil
    BY <1>1 DEF Empty
  <2>2. Chain(v, n)[k] = Mapped(v, n, k)
    BY <1>1, ChainType
  <2> QED BY <1>4, <1>5, <2>1, <2>2
<1>9. Empty(r.m, r.n, k)
  <2>1. \A l \in 1 .. FileMax : l > k => l # k /\ l > n.size
    BY <1>1
  <2> QED BY <1>2, <2>1 DEF Empty
<1> HIDE DEF a, e
<1>10. ASSUME NEW b \in e.bbm PROVE \E j \in Ino, l \in Place : b = Slot(e, j, l)
  <2>1. CASE b \in v.bbm
    <3>1. PICK j \in Ino, l \in Place : b = Slot(a, j, l)
      BY <1>3, <2>1 DEF Placed, a
    <3>2. b # Nil
      BY <2>1, StoreParts, Consts
    <3> QED BY <1>2, <1>3, <1>7, <1>8, <3>1, <3>2
  <2>2. CASE b = r.blk
    BY <1>5, <1>6, <2>2
  <2>3. CASE b = r.n.ind1
    BY <1>5, <1>6, <2>3
  <2> QED BY <1>2, <1>3, <1>10, <2>1, <2>2, <2>3
<1>11. Placed(e, {})
  BY <1>10 DEF Placed
<1> QED BY <1>9, <1>11 DEF e

\* What an append maps, as AppendMap has it.
LEMMA AppendGrown ==
  ASSUME Inv, AppendMap
  PROVE  \E r : /\ Grown(view, ws.n, ws.n.size + 1, r)
                /\ view' = r.m /\ ws' = [ws EXCEPT !.n = r.n]
                /\ job' = <<[op |-> "append", blk |-> r.blk]>> \o job
<1> USE DEF Inv
<1> DEFINE n == ws.n
           i == ws.ino
<1>1. CanCall /\ ws.active /\ n.size < FileMax
  BY DEF AppendMap
<1>2. PICK r \in Mappings(view, n, n.size + 1) :
        /\ view' = r.m /\ ws' = [ws EXCEPT !.n = r.n]
        /\ job' = <<[op |-> "append", blk |-> r.blk]>> \o job
  BY DEF AppendMap, Push
<1>3. /\ i \in Ino /\ n \in NodeRec /\ view \in Store /\ n.size \in Nat
      /\ Sound(Ahead, written) /\ Ahead.bbm = view.bbm /\ Ahead.ino[i] = n
  BY <1>1, StreamIs
<1>4. n.size + 1 \in 1 .. FileMax
  BY <1>1, <1>3, FileMaxIs
<1>5. n.ind1 # Nil => n.ind1 \in view.bbm
  <2>1. Ahead \in Store /\ Marked(Ahead)
    BY <1>3 DEF Sound
  <2>2. Slot(Ahead, i, FileMax + 1) = n.ind1 /\ FileMax + 1 \in Place
    BY <1>3, <2>1, ChainType, FileMaxIs DEF Slot, Place
  <2> QED BY <1>3, <2>1, <2>2 DEF Marked
<1> HIDE DEF n
<1>6. Grown(view, n, n.size + 1, r)
  BY <1>3, <1>4, <1>5, DirectGrown, IndirectGrown
<1> QED BY <1>2, <1>6 DEF n

LEMMA AppendMapTight ==
  ASSUME Plain, Inv, Tight, AppendMap
  PROVE  Tight'
<1> USE DEF Inv
<1>1. CanCall /\ ws.active /\ ws.n.size < FileMax /\ disk' = disk /\ open' = open
  BY DEF AppendMap
<1>2. job = <<>> /\ open
  BY <1>1, CallFirst DEF Opened, At
<1> PICK r : /\ Grown(view, ws.n, ws.n.size + 1, r)
             /\ view' = r.m /\ ws' = [ws EXCEPT !.n = r.n]
             /\ job' = <<[op |-> "append", blk |-> r.blk]>> \o job
  BY AppendGrown
<1>3. /\ ws.ino \in Ino /\ ws.n \in NodeRec /\ view \in Store /\ disk \in Store
      /\ Sound(Ahead, Blk)
  <2>1. written \subseteq Blk
    BY DEF Types
  <2> QED BY <1>1, <2>1, StreamIs, SoundMore
<1>4. Placed(Ahead, {}) /\ Empty(view, ws.n, ws.n.size) /\ Placed(disk, {})
  <2>1. ~At("append") /\ Todo = {}
    BY <1>2 DEF At, Todo
  <2> QED BY <1>1, <2>1 DEF Tight, Trimmed
<1>5. Placed(With(r.m, ws.ino, r.n), {}) /\ Empty(r.m, r.n, ws.n.size + 1)
  <2> DEFINE v == view
             i == ws.ino
             n == ws.n
             k == n.size + 1
  <2>1. /\ v \in Store /\ i \in Ino /\ n \in NodeRec /\ k = n.size + 1 /\ n.size < FileMax
        /\ Sound(With(v, i, n), Blk) /\ Placed(With(v, i, n), {}) /\ Empty(v, n, n.size)
        /\ Grown(v, n, k, r)
    BY <1>1, <1>3, <1>4 DEF Ahead
  <2> HIDE DEF v, i, n, k
  <2>2. Placed(With(r.m, i, r.n), {}) /\ Empty(r.m, r.n, k)
    BY <2>1, PlacedGrown
  <2> QED BY <2>2 DEF i, n, k
<1>6. ws'.ino = ws.ino /\ ws'.n = r.n /\ r.n.size = ws.n.size
  <2>1. r.n.size = ws.n.size
    BY DEF Grown
  <2> QED BY <2>1 DEF Types, Stream
<1> DEFINE f == [op |-> "append", blk |-> r.blk]
<1>7. f.op = "append"
  OBVIOUS
<1> HIDE DEF f
<1>8. job' = <<f>>
  BY <1>2 DEF f
<1>9. job' # <<>> /\ Head(job') = f
  BY <1>8
<1>10. At("append")' /\ Todo' = {}
  BY <1>7, <1>9 DEF At, Top, Todo
<1>11. Ahead' = With(r.m, ws.ino, r.n)
  BY <1>6 DEF Ahead
<1>12. Cleared'
  BY <1>1, <1>2 DEF Cleared
<1>13. Trimmed'
  BY <1>5, <1>6, <1>10 DEF Trimmed, Empty
<1>14. Placed(disk, Todo)'
  BY <1>1, <1>4, <1>10 DEF Placed, Slot
<1>15. Placed(Ahead, {})'
  BY <1>5, <1>11 DEF Placed, Slot
<1> QED BY <1>12, <1>13, <1>14, <1>15 DEF Tight

LEMMA StreamIdle ==
  ASSUME Types, Opened, CanCall
  PROVE  job = <<>> /\ Todo = {} /\ ~At("append") /\ (open <=> ws.active)
<1>1. job = <<>>
  BY CallFirst
<1> QED BY <1>1 DEF At, Todo, Opened

\* The last commit of a stream writes what it has mapped.
LEMMA PlacedFlush ==
  ASSUME Types, Stores, Streaming, ws.active, Placed(Ahead, {}), NEW d \in NodeRec, SameFile(d, ws.n)
          \/ (d.direct = ws.n.direct /\ d.ind1 = ws.n.ind1)
  PROVE  Placed(With(view, ws.ino, d), {})
<1>1. ws.ino \in Ino /\ ws.n \in NodeRec /\ view \in Store
  BY StreamIs
<1> DEFINE a == With(view, ws.ino, ws.n)
           e == With(view, ws.ino, d)
<1>2. /\ a.bbm = view.bbm /\ a.ind = view.ind
      /\ \A k \in Place : Slot(a, ws.ino, k) = Chain(view, ws.n)[k]
      /\ \A j \in Ino \ {ws.ino} : \A k \in Place : Slot(a, j, k) = Slot(view, j, k)
  BY <1>1, WithIs
<1>3. /\ e.bbm = view.bbm /\ e.ind = view.ind
      /\ \A k \in Place : Slot(e, ws.ino, k) = Chain(view, d)[k]
      /\ \A j \in Ino \ {ws.ino} : \A k \in Place : Slot(e, j, k) = Slot(view, j, k)
  BY <1>1, WithIs
<1>4. Chain(view, d) = Chain(view, ws.n)
  BY ChainSame DEF SameFile
<1> HIDE DEF a, e
<1>5. \A j \in Ino, k \in Place : Slot(e, j, k) = Slot(a, j, k)
  BY <1>2, <1>3, <1>4
<1>6. Placed(a, {})
  BY DEF a, Ahead
<1>7. Placed(e, {})
  BY <1>2, <1>3, <1>5, <1>6 DEF Placed
<1> QED BY <1>7 DEF e

\* After a commit of all that the stream has, the disk is what it was ahead to.
LEMMA TightCommitted ==
  ASSUME Types, Stores, Streaming, ws.active, Placed(Ahead, {}), NEW d \in NodeRec,
         d.direct = ws.n.direct, d.ind1 = ws.n.ind1, NEW s, Empty(view, ws.n, s),
         disk' = With(view, ws.ino, d), view' = disk', Light',
         ws'.active => ws'.ino = ws.ino /\ ws'.n = d /\ d.size = s
  PROVE  Tight'
<1> DEFINE m == With(view, ws.ino, d)
<1>1. ws.ino \in Ino /\ ws.n \in NodeRec /\ view \in Store
  BY StreamIs
<1>2. Placed(m, {})
  BY PlacedFlush
<1>3. m \in Store /\ m.ind = view.ind /\ m.ino[ws.ino] = d
  BY <1>1, WithIs
<1>4. m = disk'
  OBVIOUS
<1> HIDE DEF m
<1>5. With(m, ws.ino, d) = m
  BY <1>1, <1>3, WithSame
<1>6. Empty(m, d, s)
  BY <1>3, ChainSame DEF Empty
<1>7. ws'.active => Empty(view', ws'.n, ws'.n.size) /\ Placed(Ahead', {})
  BY <1>2, <1>4, <1>5, <1>6 DEF Ahead
<1> QED BY <1>2, <1>4, <1>7, TightBy

LEMMA NoStreamActive == NoStream.active = FALSE
BY DEF NoStream

LEMMA StreamTight ==
  ASSUME Plain, ~IoFails, Inv, Tight, AppendFull \/ EndCommit \/ EndAbort
  PROVE  Tight'
<1> USE DEF Inv
<1>1. CanCall /\ ws.active /\ ws' = NoStream
  BY DEF AppendFull, EndCommit, EndAbort
<1>2. job = <<>> /\ Todo = {} /\ ~At("append") /\ ~ws'.active
  BY <1>1, StreamIdle, NoStreamActive
<1>3. Placed(disk, {}) /\ Placed(Ahead, {}) /\ Empty(view, ws.n, ws.n.size)
  BY <1>1, <1>2 DEF Tight, Trimmed
<1>4. CASE AppendFull
  <2>1. disk' = disk /\ job' = <<>>
    BY <1>2, <1>4 DEF AppendFull, TxAbort
  <2> QED BY <1>2, <1>3, <2>1, LightEmpty, TightBy
<1>5. CASE EndCommit
  <2> DEFINE m == [view EXCEPT !.ino[ws.ino] = ws.n]
  <2>1. PICK ok \in Results : TxCommit(m, sb, ok) /\ job' = <<>>
    BY <1>2, <1>5 DEF EndCommit
  <2>2. m = Ahead
    BY DEF Ahead, With
  <2> HIDE DEF m
  <2>3. disk' = m
    BY <2>1, SureCommit
  <2> QED BY <1>2, <1>3, <2>1, <2>2, <2>3, LightEmpty, TightBy
<1>6. CASE EndAbort
  <2> DEFINE t == Trunc(ws.ino)
  <2>1. disk' = disk /\ job' = <<t>> \o job
    BY <1>6 DEF EndAbort, TxAbort, Push
  <2>2. t.op = "trunc" /\ ~t.cleared
    BY DEF Trunc
  <2> HIDE DEF t
  <2>3. Len(job') = 1 /\ job'[1] = t
    BY <1>2, <2>1
  <2> QED BY <1>2, <1>3, <2>1, <2>2, <2>3, LightOne, TightBy
<1> QED BY <1>4, <1>5, <1>6

LEMMA AppendDataTight ==
  ASSUME ~IoFails, Inv, Tight, AppendData
  PROVE  Tight'
<1> USE DEF Inv
<1> DEFINE d == [ws.n EXCEPT !.size = @ + 1]
           m == [view EXCEPT !.ino[ws.ino] = d]
<1>1. PICK wrote \in BOOLEAN, batch \in BOOLEAN, ok \in BOOLEAN :
        /\ At("append") /\ {wrote, ok} \subseteq Results
        /\ CASE ~wrote ->
                TxAbort(sb) /\ ws' = NoStream
             [] wrote /\ ~batch ->
                /\ ws' = [ws EXCEPT !.n = d]
                /\ UNCHANGED meta
             [] wrote /\ batch ->
                /\ TxCommit(m, sb, ok)
                /\ open' = ok
                /\ ws' = IF ok THEN [ws EXCEPT !.n = d] ELSE NoStream
        /\ Return(TRUE)
  BY DEF AppendData
<1>2. job # <<>> /\ Top.op = "append" /\ ws.active /\ ws.n.size < FileMax
  BY <1>1 DEF At, Appending
<1>3. job' = <<>>
  BY <1>1, <1>2, Returned
<1>4. wrote = TRUE /\ ok = TRUE /\ ok \in Results
  BY <1>1 DEF Results
<1>5. /\ ws.ino \in Ino /\ ws.n \in NodeRec /\ view \in Store /\ Sound(Ahead, written)
  BY <1>2, StreamIs
<1>6. d \in NodeRec /\ d.size = ws.n.size + 1 /\ d.direct = ws.n.direct /\ d.ind1 = ws.n.ind1
  <2>1. ws.n.size + 1 \in 0 .. FileMax
    <3>1. ws.n.size \in 0 .. FileMax
      BY <1>5 DEF NodeRec
    <3> QED BY <1>2, <3>1, FileMaxIs
  <2> QED BY <1>5, <2>1 DEF NodeRec
<1>7. Placed(Ahead, {}) /\ Empty(view, ws.n, d.size) /\ Placed(disk, {})
  <2>1. At("append") /\ Todo = {}
    BY <1>1 DEF At, Todo
  <2> QED BY <1>2, <1>6, <2>1 DEF Tight, Trimmed
<1> HIDE DEF d
<1>8. ws' = [ws EXCEPT !.n = d]
  BY <1>1, <1>4
<1>9. ws'.ino = ws.ino /\ ws'.n = d
  BY <1>8 DEF Types, Stream
<1>10. Light'
  BY <1>3, LightEmpty
<1>11. CASE batch
  <2>1. TxCommit(m, sb, ok)
    BY <1>1, <1>4, <1>11
  <2>2. m = With(view, ws.ino, d)
    BY DEF With
  <2> HIDE DEF m
  <2>3. disk' = m /\ view' = m
    <3>1. view' = disk'
      BY <2>1 DEF TxCommit
    <3> QED BY <1>4, <2>1, <3>1 DEF TxCommit
  <2> QED BY <1>2, <1>6, <1>7, <1>9, <1>10, <2>2, <2>3, TightCommitted
<1>12. CASE ~batch
  <2>1. disk' = disk /\ view' = view
    BY <1>1, <1>4, <1>12 DEF meta
  <2>2. Empty(view, d, d.size)
    BY <1>6, <1>7, ChainSame DEF Empty
  <2>3. Placed(With(view, ws.ino, d), {})
    BY <1>2, <1>6, <1>7, PlacedFlush
  <2>4. Ahead' = With(view, ws.ino, d)
    BY <1>9, <2>1 DEF Ahead
  <2> QED BY <1>7, <1>9, <1>10, <2>1, <2>2, <2>3, <2>4, TightBy
<1> QED BY <1>11, <1>12

\* stream_begin opens a file that is empty.
LEMMA BeginTight ==
  ASSUME Inv, Tight, BeginStream
  PROVE  Tight'
<1> USE DEF Inv
<1> DEFINE i == Top.ino
<1>1. /\ At("begin") /\ Return(TRUE) /\ disk' = disk /\ view' = view
      /\ ws' = [active |-> TRUE, suspended |-> FALSE, ino |-> i, n |-> view.ino[i]]
  BY DEF BeginStream
<1>2. job # <<>> /\ Top = job[1] /\ Len(job) \in Nat /\ Len(job) > 0 /\ Top.op = "begin" /\ Top \in Frame
  BY <1>1, TopIs DEF At
<1>3. Len(job) = 1 /\ ~ws.active
  <2>1. 1 \in 1 .. Len(job) /\ job[1].op = "begin"
    BY <1>2
  <2> QED BY <2>1 DEF Beginning
<1>4. job' = <<>>
  BY <1>1, <1>2, <1>3, Returned
<1>5. i \in Ino
  BY <1>2, FrameIs DEF BeginFrame
<1>6. ~open /\ view = disk /\ disk \in Store
  BY <1>3 DEF Opened, Stores, Sound
<1> DEFINE n == disk.ino[i]
<1>7. Blank(n) /\ n \in NodeRec
  BY <1>1, <1>5, <1>6, StoreParts DEF Tight, Cleared
<1>8. Placed(disk, {})
  <2>1. Todo = {}
    BY <1>1 DEF At, Todo
  <2> QED BY <2>1 DEF Tight
<1>9. n.size \in Nat
  BY <1>7, FileMaxIs DEF NodeRec
<1>10. ws'.ino = i /\ ws'.n = n
  BY <1>1, <1>6
<1>11. n = disk.ino[i]
  OBVIOUS
<1> HIDE DEF i, n
<1>12. Empty(disk, n, n.size)
  <2> SUFFICES ASSUME NEW k \in 1 .. FileMax PROVE Mapped(disk, n, k) = Nil
    BY DEF Empty
  <2>1. Chain(disk, n)[k] = Mapped(disk, n, k)
    BY <1>6, <1>7, ChainType
  <2>2. k \in Place
    BY FileMaxIs DEF Place
  <2> QED BY <1>7, <2>1, <2>2, ChainBlank
<1>13. Placed(With(disk, i, n), {})
  BY <1>5, <1>6, <1>7, <1>8, <1>11, PlacedAhead DEF SameFile
<1> QED BY <1>1, <1>4, <1>6, <1>8, <1>10, <1>12, <1>13, LightEmpty, TightBy DEF Ahead

LEMMA CreatePlaced ==
  ASSUME NEW m, NEW done, Sound(m, done), Bare(m), Placed(m, {}), NEW i \in Ino \ m.ibm, NEW dir \in Ino,
         NEW name \in Name, NEW type \in {"file", "dir"}, m.ino[dir].type = "dir",
         NEW n, n = Created(m, i, type, name, dir)
  PROVE  /\ Placed(n, {}) /\ n.bbm = m.bbm /\ n.ind = m.ind
         /\ \A j \in Ino \ {i, dir} : n.ino[j] = m.ino[j]
<1>1. /\ m \in Store /\ Tree(m) /\ m.ino \in [Ino -> NodeRec] /\ m.ino[dir].kids \in Seq(Ino)
      /\ m.ino[dir] \in NodeRec /\ m.bbm \subseteq Blk
  BY StoreParts DEF Sound
<1>2. i # dir /\ m.ino[i].type = "free"
  BY <1>1 DEF Tree
<1> DEFINE s == Append(m.ino[dir].kids, i)
<1>3. /\ n.ino[dir] = [m.ino[dir] EXCEPT !.kids = s]
      /\ \A j \in Ino \ {i, dir} : n.ino[j] = m.ino[j]
      /\ n.bbm = m.bbm /\ n.ind = m.ind
  BY <1>1, <1>2 DEF Created, Store
<1>4. SameFile(n.ino[dir], m.ino[dir])
  <2>1. s \in Seq(Ino)
    BY <1>1
  <2> HIDE DEF s
  <2> QED BY <1>1, <1>3, <2>1, NodeWithKids DEF SameNode
<1>5. \A j \in Ino \ {i} : SameFile(n.ino[j], m.ino[j])
  BY <1>3, <1>4 DEF SameFile
<1>6. Blank(m.ino[i])
  BY <1>2 DEF Bare
<1>7. Placed(n, {})
  BY <1>1, <1>3, <1>5, <1>6, PlacedBut
<1> QED BY <1>3, <1>7

LEMMA CreateTight ==
  ASSUME Plain, ~IoFails, Inv, Exact, Tight, CreateFails \/ CreateNode
  PROVE  Tight'
<1> USE DEF Inv, Exact
<1>1. At("create") /\ job # <<>> /\ Top.op = "create" /\ ~open
  BY DEF CreateFails, CreateNode, At, Stacked
<1>2. \E ok \in BOOLEAN : Return(ok)
  BY ResultsAre DEF CreateFails, CreateNode
<1>3. job' = <<>>
  BY <1>1, <1>2, Returned
<1>4. /\ Placed(disk, {}) /\ view = disk /\ Sound(disk, written) /\ disk \in Store
      /\ ws.active => Empty(view, ws.n, ws.n.size) /\ Placed(Ahead, {})
  <2>1. ~At("append") /\ Todo = {}
    BY <1>1 DEF At, Todo
  <2> QED BY <1>1, <2>1 DEF Tight, Trimmed, Opened, Stores, Sound
<1>5. ws'.active = ws.active /\ ws'.ino = ws.ino /\ ws'.n = ws.n
  <2>1. ws' = [ws EXCEPT !.suspended = FALSE]
    BY DEF CreateFails, CreateNode, StreamResume
  <2> QED BY <2>1 DEF Types, Stream
<1>6. CASE CreateFails
  <2>1. disk' = disk /\ view' = view
    BY <1>6 DEF CreateFails
  <2>2. Ahead' = Ahead
    BY <1>5, <2>1 DEF Ahead
  <2> QED BY <1>3, <1>4, <1>5, <2>1, <2>2, LightEmpty, TightBy
<1>7. CASE CreateNode
  <2> DEFINE dir == Top.dir
             name == Top.name
             s == Counted(0, -1)
  <2>1. PICK i \in Ino \ view.ibm, ok \in Results :
          /\ Creatable(dir, name)
          /\ TxCommit([view EXCEPT !.ibm = @ \union {i}, !.ino[i] = Node(Top.type, name, dir),
                                   !.ino[dir].kids = Append(@, i)], s, ok)
    BY <1>7 DEF CreateNode
  <2> DEFINE m == Created(disk, i, Top.type, name, dir)
  <2>2. dir \in Ino /\ name \in Name /\ Top.type \in {"file", "dir"}
    <3>1. Top \in CreateFrame
      BY <1>1, TopIs, FrameIs
    <3> QED BY <3>1 DEF CreateFrame
  <2>3. i \in Ino \ disk.ibm /\ disk.ino[dir].type = "dir"
    BY <1>4, <2>1 DEF Creatable
  <2>4. TxCommit(m, s, ok)
    BY <1>4, <2>1 DEF Created
  <2>5. /\ Placed(m, {}) /\ m.bbm = disk.bbm /\ m.ind = disk.ind
        /\ \A j \in Ino \ {i, dir} : m.ino[j] = disk.ino[j]
    <3>1. \A n : n = m => /\ Placed(n, {}) /\ n.bbm = disk.bbm /\ n.ind = disk.ind
                          /\ \A j \in Ino \ {i, dir} : n.ino[j] = disk.ino[j]
      BY <1>4, <2>2, <2>3, CreatePlaced DEF Settled
    <3> QED BY <3>1
  <2>6. m \in Store
    <3>1. Inv'
      BY <1>7, CreateNodeKeeps
    <3>2. disk' = m
      BY <2>1, <2>4, SureCommit
    <3> QED BY <3>1, <3>2 DEF Stores, Sound
  <2> HIDE DEF m, s, dir
  <2>7. disk' = m /\ view' = m
    <3>1. view' = disk'
      BY <2>4 DEF TxCommit
    <3> QED BY <2>1, <2>4, <3>1, SureCommit
  \* The stream's file is neither the new node nor the directory.
  <2>8. ws.active => m.ino[ws.ino] = ws.n /\ ws.ino \in Ino
    <3> SUFFICES ASSUME ws.active PROVE m.ino[ws.ino] = ws.n /\ ws.ino \in Ino
      OBVIOUS
    <3>1. ws.ino \in Ino /\ disk.ino[ws.ino].type = "file" /\ disk.ino[ws.ino] = ws.n
      BY <1>1 DEF Types, Stream, Streaming, Opened
    <3>2. disk.ino[i].type = "free"
      BY <1>4, <2>3 DEF Sound, Tree
    <3>3. ws.ino \in Ino \ {i, dir}
      BY <2>3, <3>1, <3>2
    <3> QED BY <2>5, <3>1, <3>3
  <2>9. ws.active => Empty(m, ws.n, ws.n.size)
    BY <1>4, <2>5, ChainSame DEF Empty
  <2>10. ws.active => With(m, ws.ino, ws.n) = m
    BY <2>6, <2>8, WithSame
  <2>11. ws'.active => Empty(view', ws'.n, ws'.n.size) /\ Placed(Ahead', {})
    BY <1>5, <2>5, <2>7, <2>9, <2>10 DEF Ahead
  <2> QED BY <1>3, <2>5, <2>7, <2>11, LightEmpty, TightBy
<1> QED BY <1>6, <1>7

LEMMA CallCreateTight ==
  ASSUME Plain, ~IoFails, Inv, Tight, NEW dir \in Ino, NEW name \in Name, NEW type \in {"file", "dir"},
         CallCreate(dir, name, type)
  PROVE  Tight'
<1> USE DEF Inv
<1> DEFINE f == [op |-> "create", dir |-> dir, name |-> name, type |-> type]
           m == [view EXCEPT !.ino[ws.ino] = ws.n]
<1>1. PICK ok \in Results :
        /\ CanCall
        /\ IF ws.active
           THEN StreamSuspend(ok)
           ELSE ok /\ Creatable(dir, name) /\ UNCHANGED <<meta, ws>>
        /\ IF ok THEN job' = <<f>> \o job ELSE UNCHANGED job
  BY DEF CallCreate, Push
<1>2. job = <<>> /\ ok = TRUE /\ Todo = {} /\ ~At("append")
  BY <1>1, StreamIdle DEF Results
<1>3. f.op = "create"
  OBVIOUS
<1> HIDE DEF f
<1>4. Light'
  <2>1. Len(job') = 1 /\ job'[1] = f
    BY <1>1, <1>2
  <2> QED BY <1>3, <2>1, LightOne
<1>5. CASE ws.active
  <2>1. TxCommit(m, sb, ok) /\ ws' = [ws EXCEPT !.suspended = TRUE]
    BY <1>1, <1>2, <1>5 DEF StreamSuspend
  <2>2. ws'.ino = ws.ino /\ ws'.n = ws.n
    BY <2>1 DEF Types, Stream
  <2>3. Placed(Ahead, {}) /\ Empty(view, ws.n, ws.n.size)
    BY <1>2, <1>5 DEF Tight, Trimmed
  <2>4. m = With(view, ws.ino, ws.n)
    BY DEF With
  <2> HIDE DEF m
  <2>5. disk' = m /\ view' = m
    <3>1. view' = disk'
      BY <2>1 DEF TxCommit
    <3> QED BY <2>1, <3>1, SureCommit
  <2>6. ws.n \in NodeRec
    BY <1>5, StreamIs
  <2> DEFINE d == ws.n
  <2>7. d = ws.n /\ d \in NodeRec /\ d.direct = ws.n.direct /\ d.ind1 = ws.n.ind1
    BY <2>6
  <2> HIDE DEF d
  <2>8. disk' = With(view, ws.ino, d) /\ view' = disk' /\ (ws'.active => ws'.ino = ws.ino /\ ws'.n = d /\ d.size = ws.n.size)
    BY <2>2, <2>4, <2>5, <2>7
  <2> QED BY <1>4, <1>5, <2>3, <2>7, <2>8, TightCommitted
<1>6. CASE ~ws.active
  <2>1. UNCHANGED <<meta, ws>>
    BY <1>1, <1>6
  <2> QED BY <1>2, <1>4, <2>1, TightStill
<1> QED BY <1>5, <1>6

\* A commit while nothing is open.
LEMMA TightQuiet ==
  ASSUME Types, Opened, ~open, ~At("create"), ws' = ws, Light', NEW m, disk' = m, Placed(m, {})
  PROVE  Tight'
<1>1. ~ws.active
  BY DEF Opened, Types, Stream
<1> QED BY <1>1, TightBy

LEMMA RenameTight ==
  ASSUME Plain, ~IoFails, Inv, Tight, NEW dir \in Ino, NEW old \in Name, NEW new \in Name, Rename(dir, old, new)
  PROVE  Tight'
<1> USE DEF Inv
<1> DEFINE i == Resolve(view, dir, old)
           m == Renamed(disk, i, new)
<1>1. PICK ok \in Results :
        /\ CanCall /\ ~open /\ i # Nil
        /\ TxCommit([view EXCEPT !.ino[i].name = new], sb, ok) /\ job' = job /\ ws' = ws
  BY DEF Rename
<1>2. job = <<>> /\ job' = <<>> /\ ~At("create") /\ Placed(disk, {})
  BY <1>1, StreamIdle DEF At, Tight
<1>3. view = disk /\ Sound(disk, written) /\ disk \in Store
  BY <1>1 DEF Opened, Stores, Sound
<1>4. TxCommit(m, sb, ok)
  BY <1>1, <1>3 DEF Renamed
<1>5. i \in Ino
  BY <1>1, <1>3, ResolveIs
<1> HIDE DEF i
<1>6. m.bbm = disk.bbm /\ m.ind = disk.ind /\ \A j \in Ino : SameFile(m.ino[j], disk.ino[j])
  <2>1. disk.ino \in [Ino -> NodeRec] /\ disk.ino[i] \in NodeRec
    BY <1>3, <1>5, StoreParts
  <2>2. /\ m.ino[i] = [disk.ino[i] EXCEPT !.name = new] /\ \A j \in Ino \ {i} : m.ino[j] = disk.ino[j]
        /\ m.bbm = disk.bbm /\ m.ind = disk.ind
    BY <1>3, <1>5, <2>1 DEF Renamed, Store
  <2>3. SameFile(m.ino[i], disk.ino[i])
    BY <2>1, <2>2, NodeRenamed
  <2> QED BY <2>2, <2>3 DEF SameFile
<1> HIDE DEF m
<1>7. Placed(m, {})
  BY <1>2, <1>6, PlacedSame
<1>8. disk' = m
  BY <1>4, SureCommit
<1> QED BY <1>1, <1>2, <1>7, <1>8, LightEmpty, TightQuiet

-----------------------------------------------------------------------------
(* No leaks: truncations and deletions.                                    *)

\* While nothing is appended.
LEMMA TightOf ==
  ASSUME Cleared', ~At("append")', NEW t, Todo' = t, NEW m, disk' = m, Placed(m, t),
         ws'.active => Empty(view', ws'.n, ws'.n.size) /\ Placed(Ahead', {})
  PROVE  Tight'
<1>1. Placed(disk, Todo)'
  BY DEF Placed, Slot, Chain, Mapped
<1>2. Trimmed'
  BY DEF Trimmed, Empty, Mapped
<1>3. ws'.active => Placed(Ahead, {})'
  BY DEF Placed, Slot, Chain, Mapped
<1> QED BY <1>1, <1>2, <1>3 DEF Tight

\* Whoever returns was the one to truncate or to append.
LEMMA ReturnedTop ==
  ASSUME Types, Stacked, job # <<>>, NEW ok \in BOOLEAN, Return(ok)
  PROVE  ~At("trunc")' /\ ~At("append")' /\ (job' # <<>> => Top' = job'[1] /\ 1 \in 1 .. Len(job'))
<1>1. job' \in Seq(Frame) /\ job \in Seq(Frame) /\ Len(job) \in Nat /\ Len(job) > 0
  BY Returned, TopIs DEF Types
<1>2. PICK d \in {1, 2} : Len(job') = Len(job) - d /\ \A p \in 1 .. Len(job') : job'[p] = job[p + d]
  BY Returned
<1>3. job' # <<>> => Top' = job'[1] /\ 1 \in 1 .. Len(job')
  BY <1>1, HeadIs DEF Top
<1>4. job' # <<>> => job'[1].op \notin {"trunc", "append"}
  <2> SUFFICES ASSUME job' # <<>> PROVE job'[1].op \notin {"trunc", "append"}
    OBVIOUS
  <2>1. 1 + d \in 2 .. Len(job) /\ job'[1] = job[1 + d]
    BY <1>1, <1>2, <1>3
  <2> QED BY <2>1 DEF Stacked
<1> QED BY <1>3, <1>4 DEF At

LEMMA BusyTight ==
  ASSUME Inv, Tight, TruncBusy \/ UnlinkBusy
  PROVE  Tight'
<1> USE DEF Inv
<1>1. open /\ Return(FALSE) /\ UNCHANGED <<meta, ws>> /\ job # <<>> /\ ~At("append") /\ ~(At("trunc") /\ Top.cleared)
  BY DEF TruncBusy, UnlinkBusy, Unlinking, At
<1>2. ~At("trunc")' /\ ~At("append")'
  BY <1>1, ReturnedTop
<1>3. open' /\ disk' = disk /\ view' = view /\ ws' = ws
  BY <1>1 DEF meta
<1>4. Cleared' /\ Todo' = {} /\ Todo = {}
  BY <1>1, <1>2, <1>3 DEF Cleared, Todo
<1>5. ws'.active => Empty(view', ws'.n, ws'.n.size) /\ Placed(Ahead', {})
  <2>1. Ahead' = Ahead
    BY <1>3 DEF Ahead
  <2> QED BY <1>1, <1>3, <2>1 DEF Tight, Trimmed
<1>6. Placed(disk, {})
  BY <1>4 DEF Tight
<1> QED BY <1>2, <1>3, <1>4, <1>5, <1>6, TightOf

\* While nothing is open, no stream is.
LEMMA NoneStreams ==
  ASSUME Types, Opened, ~open, ~At("create")
  PROVE  ~ws.active
BY DEF Opened, Types, Stream

\* file_truncate goes on with its next commit.
LEMMA TruncTight ==
  ASSUME Inv, Tight, ~open, open' = open, ws' = ws, At("trunc"), NEW f \in TruncFrame, f.cleared,
         job' = [job EXCEPT ![1] = f], NEW m, disk' = m,
         \A i \in Ino : m.ino[i].type = disk.ino[i].type /\ m.ino[i].parent = disk.ino[i].parent,
         Blank(m.ino[f.ino]), NEW t, t = {f.todo[k] : k \in Place}, Placed(m, t)
  PROVE  Tight'
<1> USE DEF Inv
<1>1. job' \in Seq(Frame) /\ Top' = f /\ At("trunc")'
  BY TruncGoesOn
<1>2. f.op = "trunc"
  BY DEF TruncFrame
<1>3. ~At("append")' /\ ~At("begin")' /\ ~At("delfile")' /\ Todo' = t
  BY <1>1, <1>2 DEF At, Todo
<1>4. ASSUME NEW p \in 1 .. Len(job'), job'[p].op = "deldir" PROVE disk'.ino[job'[p].ino].type # "file"
  <2>1. job \in Seq(Frame) /\ job # <<>>
    BY DEF Types, At
  <2>2. p \in 1 .. Len(job) /\ job'[p] = job[p] /\ job[p] \in Frame
    BY <1>2, <1>4, <2>1
  <2>3. job[p].ino \in Ino
    BY <1>4, <2>2, DeletionFrame
  <2>4. disk.ino[job[p].ino].type # "file"
    BY <1>4, <2>2 DEF Tight, Cleared
  <2> QED BY <2>2, <2>3, <2>4
<1>5. Cleared'
  <2>1. Blank(disk.ino[Top.ino])'
    BY <1>1 DEF Blank
  <2> QED BY <1>3, <1>4, <2>1 DEF Cleared
<1>6. ~ws'.active
  <2>1. ~At("create")
    BY DEF At
  <2> QED BY <2>1, NoneStreams
<1> QED BY <1>3, <1>5, <1>6, TightOf

LEMMA TruncClearTight ==
  ASSUME ~IoFails, Inv, Tight, TruncClear
  PROVE  Tight'
<1> USE DEF Inv
<1> DEFINE i == Top.ino
           n == view.ino[i]
           m == Emptied(disk, i)
           c == Chain(disk, disk.ino[i])
           f == [Top EXCEPT !.cleared = TRUE, !.todo = c]
           t == {c[k] : k \in Place}
<1>1. PICK ok \in Results :
        /\ At("trunc") /\ ~Top.cleared /\ ~open
        /\ TxCommit([view EXCEPT !.ino[Top.ino] =
                       [Node(n.type, n.name, n.parent) EXCEPT !.kids = n.kids]], sb, ok)
        /\ IF ok
           THEN job' = [job EXCEPT ![1].cleared = TRUE, ![1].todo = Chain(view, n)]
           ELSE Return(FALSE)
        /\ UNCHANGED <<open, ws, written>>
  BY DEF TruncClear
<1>2. ok = TRUE /\ job # <<>> /\ i \in Ino /\ Top \in TruncFrame
  BY <1>1, TruncIs DEF Results
<1>3. view = disk /\ Sound(disk, written) /\ disk \in Store /\ disk.ino[i] \in NodeRec /\ Placed(disk, {})
  <2>1. view = disk /\ Sound(disk, written) /\ disk \in Store
    BY <1>1 DEF Opened, Stores, Sound
  <2>2. Todo = {}
    BY <1>1 DEF Todo
  <2> QED BY <1>2, <2>1, <2>2, StoreParts DEF Tight
<1>4. TxCommit(m, sb, ok)
  BY <1>1, <1>3 DEF Emptied
<1>5. /\ \A j \in Ino \ {i} : m.ino[j] = disk.ino[j]
      /\ SameEntry(m.ino[i], disk.ino[i]) /\ m.bbm = disk.bbm /\ m.ind = disk.ind
  <2>1. \A x : x = m => /\ \A j \in Ino \ {i} : x.ino[j] = disk.ino[j]
                        /\ SameEntry(x.ino[i], disk.ino[i]) /\ x.bbm = disk.bbm /\ x.ind = disk.ind
    BY <1>2, <1>3, EmptySound
  <2> QED BY <2>1
<1>6. Blank(m.ino[i])
  <2> DEFINE x == disk.ino[i]
             e == Node(x.type, x.name, x.parent)
             g == [e EXCEPT !.kids = x.kids]
  <2>1. m.ino[i] = g
    <3>1. disk.ino \in [Ino -> NodeRec]
      BY <1>3, StoreParts
    <3> QED BY <1>2, <1>3, <3>1 DEF Emptied, Store
  <2>2. x.type \in {"free", "file", "dir"} /\ x.name \in Name \union {Nil} /\ x.parent \in Ino /\ x.kids \in Seq(Ino)
    BY <1>3 DEF NodeRec
  <2> HIDE DEF x
  <2>3. e \in NodeRec /\ Blank(e)
    BY <2>2, NodeType
  <2> HIDE DEF e
  <2>4. SameNode(g, e)
    BY <2>2, <2>3, NodeWithKids
  <2> HIDE DEF g
  <2> QED BY <2>1, <2>3, <2>4 DEF Blank, SameNode, SameFile
<1> HIDE DEF m
<1>7. c \in [Place -> Ptr]
  BY <1>3, ChainType
<1>8. f \in TruncFrame /\ f.ino = i /\ f.cleared /\ f.todo = c
  <2> HIDE DEF c
  <2> QED BY <1>2, <1>7 DEF TruncFrame
<1>9. job' = [job EXCEPT ![1] = f]
  <2>1. Top = job[1] /\ 1 \in DOMAIN job
    BY <1>2, TopIs DEF Types
  <2> QED BY <1>1, <1>2, <1>3, <2>1
<1>10. Placed(m, t)
  <2>1. \A k \in Place : Slot(disk, i, k) \in t
    BY DEF Slot
  <2>2. \A j \in Ino \ {i}, k \in Place : Slot(m, j, k) = Slot(disk, j, k)
    BY <1>5, ChainSame DEF Slot
  <2> HIDE DEF t
  <2>3. \A j \in Ino, k \in Place : Slot(disk, j, k) \in {Slot(m, j, k), Nil} \union t
    BY <2>1, <2>2
  <2>4. disk.bbm \subseteq Blk
    BY <1>3, StoreParts
  <2> QED BY <1>3, <1>5, <2>3, <2>4, PlacedKept
<1>11. t = {f.todo[k] : k \in Place}
  BY <1>8
<1> HIDE DEF f, t, c
<1>12. \A j \in Ino : m.ino[j].type = disk.ino[j].type /\ m.ino[j].parent = disk.ino[j].parent
  BY <1>5 DEF SameEntry
<1>13. disk' = m /\ ~open /\ open' = open /\ ws' = ws /\ At("trunc") /\ Blank(m.ino[f.ino])
  BY <1>1, <1>4, <1>6, <1>8, SureCommit
<1> QED BY <1>8, <1>9, <1>10, <1>11, <1>12, <1>13, TruncTight

LEMMA TruncFreeTight ==
  ASSUME ~IoFails, Inv, Exact, Tight, TruncFree
  PROVE  Tight'
<1> USE DEF Inv
<1>1. PICK ok \in Results, k \in 0 .. FileMax + 1 :
        /\ At("trunc") /\ Top.cleared
        /\ LET now == {j \in Held(Top.todo) : j <= k}
           IN  /\ TxCommit(Free(view, {Top.todo[j] : j \in now}), Counted(Cardinality(now), 0), ok)
               /\ IF ok /\ now # Held(Top.todo)
                  THEN job' = [job EXCEPT ![1].todo =
                                 [j \in DOMAIN @ |-> IF j <= k THEN Nil ELSE @[j]]]
                  ELSE Return(ok)
        /\ UNCHANGED <<open, ws, written>>
  BY DEF TruncFree
<1> DEFINE i    == Top.ino
           todo == Top.todo
           now  == {j \in Held(todo) : j <= k}
           bs   == {todo[j] : j \in now}
           s    == Counted(Cardinality(now), 0)
           m    == Free(disk, bs)
           left == [j \in Place |-> IF j <= k THEN Nil ELSE todo[j]]
           f    == [Top EXCEPT !.todo = left]
           t    == {left[j] : j \in Place}
<1>2. ok = TRUE /\ job # <<>> /\ Top \in TruncFrame
  BY <1>1, TruncIs DEF Results
<1>3. ~open /\ view = disk /\ todo \in [Place -> Ptr] /\ disk \in Store /\ disk.bbm \subseteq Blk
  <2>1. ~open /\ view = disk /\ todo \in [Place -> Ptr] /\ disk \in Store
    BY <1>1 DEF Truncating, Opened, Stores, Sound
  <2> QED BY <2>1, StoreParts
<1>4. Blank(disk.ino[i]) /\ Placed(disk, {todo[j] : j \in Place})
  <2>1. Blank(disk.ino[i])
    BY <1>1, <1>3 DEF Tight, Cleared
  <2>2. Todo = {todo[j] : j \in Place}
    BY <1>1 DEF Todo
  <2> QED BY <2>1, <2>2 DEF Tight
<1>5. TxCommit(m, s, ok)
  BY <1>1, <1>3
<1>6. job' = [job EXCEPT ![1].todo = left] \/ (Return(TRUE) /\ now = Held(todo))
  <2>1. job[1].todo = todo /\ DOMAIN todo = Place
    BY <1>2, <1>3, TopIs
  <2> QED BY <1>1, <1>2, <2>1
<1>7. left \in [Place -> Ptr]
  BY <1>3 DEF Ptr
<1>8. m.ino = disk.ino /\ m.ind = disk.ind /\ m.bbm = disk.bbm \ bs
  BY <1>3 DEF Free, Store
<1>9. \A b \in Blk, j \in Place : b = todo[j] => j \in Held(todo)
  BY <1>3, Consts DEF Held
<1>10. \A j \in Held(todo) : j \in Place /\ (j \in now => todo[j] \in bs) /\ (j \notin now => left[j] = todo[j])
  BY <1>3 DEF Held
<1> HIDE DEF s, bs, left
<1> HIDE DEF m
<1>11. \A j \in Ino, l \in Place : Slot(m, j, l) = Slot(disk, j, l)
  BY <1>8, ChainSame DEF Slot
<1>12. disk' = m
  BY <1>5, SureCommit
<1>13. m.bbm \subseteq disk.bbm /\ \A b \in m.bbm : b \in Blk /\ b \notin bs
  BY <1>3, <1>8
<1> DEFINE u == {todo[j] : j \in Place}
<1>14. CASE job' = [job EXCEPT ![1].todo = left]
  <2>1. f \in TruncFrame /\ f.todo = left /\ f.cleared /\ f.ino = i
    BY <1>1, <1>2, <1>7 DEF TruncFrame
  <2>2. job' = [job EXCEPT ![1] = f]
    <3>1. Top = job[1] /\ 1 \in DOMAIN job
      BY <1>2, TopIs DEF Types
    <3> QED BY <1>14, <3>1
  <2> HIDE DEF f
  <2>3. Placed(m, t)
    <3>1. \A b \in m.bbm : b \in u => b \in t
      <4> SUFFICES ASSUME NEW b \in m.bbm, b \in u PROVE b \in t
        OBVIOUS
      <4>1. PICK j \in Place : b = todo[j]
        OBVIOUS
      <4>2. j \in Held(todo) /\ j \notin now
        BY <1>9, <1>10, <1>13, <4>1
      <4> QED BY <1>10, <4>1, <4>2
    <3> HIDE DEF t
    <3>2. \A j \in Ino, l \in Place : Slot(disk, j, l) \in {Slot(m, j, l), Nil} \union t
      BY <1>11
    <3> HIDE DEF u
    <3>3. Placed(disk, u)
      BY <1>4 DEF u
    <3> QED BY <1>3, <1>13, <3>1, <3>2, <3>3, PlacedKept
  <2>4. t = {f.todo[j] : j \in Place}
    BY <2>1
  <2> HIDE DEF t
  <2>5. Blank(m.ino[f.ino]) /\ open' = open /\ ws' = ws /\ At("trunc")
    BY <1>1, <1>4, <1>8, <2>1
  <2>6. \A j \in Ino : m.ino[j].type = disk.ino[j].type /\ m.ino[j].parent = disk.ino[j].parent
    BY <1>8
  <2> QED BY <1>3, <1>12, <2>1, <2>2, <2>3, <2>4, <2>5, <2>6, TruncTight
<1>15. CASE Return(TRUE) /\ now = Held(todo)
  <2>1. Placed(m, {})
    <3>1. \A b \in m.bbm : b \in u => b \in {}
      <4> SUFFICES ASSUME NEW b \in m.bbm, b \in u PROVE FALSE
        OBVIOUS
      <4>1. PICK j \in Place : b = todo[j]
        OBVIOUS
      <4>2. j \in Held(todo)
        BY <1>9, <1>13, <4>1
      <4> QED BY <1>10, <1>13, <1>15, <4>1, <4>2
    <3>2. \A j \in Ino, l \in Place : Slot(disk, j, l) \in {Slot(m, j, l), Nil} \union {}
      BY <1>11
    <3> HIDE DEF u
    <3>3. Placed(disk, u)
      BY <1>4 DEF u
    <3> QED BY <1>3, <1>13, <3>1, <3>2, <3>3, PlacedKept
  <2>2. ~At("trunc")' /\ ~At("append")' /\ (job' # <<>> => Top' = job'[1] /\ 1 \in 1 .. Len(job'))
    BY <1>2, <1>15, ReturnedTop
  <2>3. /\ Len(job') = Len(job) - 1
        /\ \A p \in 1 .. Len(job') : job'[p] = job[p + 1] /\ p + 1 \in 2 .. Len(job) /\ p + 1 \in 1 .. Len(job)
    BY <1>2, <1>15, ReturnedWell
  <2>4. Cleared'
    <3>1. \A p \in 1 .. Len(job') : job'[p].op = "deldir" => disk'.ino[job'[p].ino].type # "file"
      BY <1>3, <1>8, <1>12, <2>3 DEF Tight, Cleared
    <3>2. ASSUME At("begin")' \/ At("delfile")' PROVE Top'.ino = i
      <4>1. job' # <<>>
        BY <3>2 DEF At
      <4>2. Top' = job[2] /\ Len(job) > 1
        <5>1. Top' = job'[1] /\ 1 \in 1 .. Len(job')
          BY <2>2, <4>1
        <5>2. job'[1] = job[1 + 1] /\ 1 + 1 \in 2 .. Len(job)
          BY <2>3, <5>1
        <5>3. Len(job) \in Nat
          BY <1>2, TopIs
        <5> QED BY <5>1, <5>2, <5>3
      <4>3. job[2].ino = job[1].ino /\ Top = job[1]
        BY <1>1, <1>2, <4>2, TopIs DEF Exact, Nested, Linked
      <4> QED BY <4>2, <4>3
    <3>3. At("begin")' \/ At("delfile")' => Blank(disk.ino[Top.ino])'
      BY <1>4, <1>8, <1>12, <3>2 DEF Blank
    <3> QED BY <2>2, <3>1, <3>3 DEF Cleared
  <2>5. ~ws'.active
    <3>1. ~At("create")
      BY <1>1 DEF At
    <3> QED BY <1>1, <1>3, <3>1, NoneStreams
  <2>6. Todo' = {}
    BY <2>2 DEF Todo
  <2> QED BY <1>12, <2>1, <2>2, <2>4, <2>5, <2>6, TightOf
<1> QED BY <1>6, <1>14, <1>15

LEMMA UnlinkTight ==
  ASSUME ~IoFails, Inv, Exact, Tight, Unlink
  PROVE  Tight'
<1> USE DEF Inv, Exact
<1> DEFINE i == Top.ino
           dir == Top.dir
           m == Unlinked(disk, dir, i)
           s == Counted(0, 1)
<1>1. PICK ok \in Results :
        /\ Unlinking /\ ~open
        /\ LET p == view.ino[Top.dir]
           IN  TxCommit([view EXCEPT !.ibm = @ \ {Top.ino},
                           !.ino[Top.ino] = FreeNode,
                           !.ino[Top.dir] = [p EXCEPT !.kids = RemoveFirst(@, Top.ino)]],
                        s, ok)
        /\ Return(ok) /\ ws' = ws
  BY DEF Unlink
<1>2. ok = TRUE /\ (At("delfile") \/ At("deldir"))
  BY <1>1 DEF Unlinking, Results
<1>3. /\ job # <<>> /\ Top = job[1] /\ Len(job) \in Nat /\ Len(job) > 0
      /\ i \in Ino /\ dir \in Ino /\ i \notin {Root, dir}
      /\ disk.ino[i].type # "free" => disk.ino[i].parent = dir
      /\ ~At("create") /\ ~At("trunc")
      /\ \A p \in 1 .. Len(job) : job[p].op \in {"delfile", "deldir"} /\ job[p].ino \in Ino
  <2>1. \A p \in 1 .. Len(job) : job[p].op \in {"delfile", "deldir"} /\ job[p] \in Frame
    BY <1>2, DeletionIs DEF Types
  <2>2. \A p \in 1 .. Len(job) : job[p].ino \in Ino
    BY <2>1, DeletionFrame
  <2> QED BY <1>2, <2>1, <2>2, DeletionIs, TopIs
<1>4. view = disk /\ Sound(disk, written) /\ disk.bbm \subseteq Blk
  <2>1. view = disk /\ Sound(disk, written) /\ disk \in Store
    BY <1>1 DEF Opened, Stores, Sound
  <2> QED BY <2>1, StoreParts
<1>5. Blank(disk.ino[i])
  <2>1. CASE At("delfile")
    BY <1>1, <2>1 DEF Tight, Cleared
  <2>2. CASE At("deldir")
    <3>1. 1 \in 1 .. Len(job) /\ job[1].op = "deldir"
      BY <1>3, <2>2 DEF At
    <3>2. disk.ino[i].type # "file"
      BY <1>1, <1>3, <3>1 DEF Tight, Cleared
    <3> QED BY <1>3, <3>2 DEF Settled, Bare
  <2> QED BY <1>2, <2>1, <2>2
<1> HIDE DEF s
<1>6. TxCommit(m, s, ok)
  BY <1>1, <1>4 DEF Unlinked
<1>7. /\ m.bbm = disk.bbm /\ m.ind = disk.ind
      /\ \A j \in Ino \ {i} : SameFile(m.ino[j], disk.ino[j])
      /\ \A j \in Ino : m.ino[j].type = disk.ino[j].type \/ m.ino[j].type = "free"
  <2>1. i \in Ino \ {Root, dir}
    BY <1>3
  <2>2. \A x : x = m => /\ \A j \in Ino \ {i, dir} : x.ino[j] = disk.ino[j]
                        /\ x.ino[i].type = "free" /\ SameNode(x.ino[dir], disk.ino[dir])
                        /\ x.bbm = disk.bbm /\ x.ind = disk.ind
    BY <1>3, <1>4, <2>1, UnlinkSound
  <2> HIDE DEF m
  <2> QED BY <2>2 DEF SameNode, SameFile
<1> HIDE DEF m
<1>8. disk' = m
  BY <1>6, SureCommit
<1>9. Placed(m, {})
  <2>1. Placed(disk, {})
    BY <1>3 DEF Tight, Todo
  <2> QED BY <1>3, <1>4, <1>5, <1>7, <2>1, PlacedBut
<1>10. /\ Len(job') = Len(job) - 1
       /\ \A p \in 1 .. Len(job') : job'[p] = job[p + 1] /\ p + 1 \in 2 .. Len(job) /\ p + 1 \in 1 .. Len(job)
  BY <1>1, <1>2, <1>3, ReturnedWell
<1>11. /\ ~At("trunc")' /\ ~At("append")' /\ (job' # <<>> => Top' = job'[1] /\ 1 \in 1 .. Len(job'))
  BY <1>1, <1>2, <1>3, ReturnedTop
<1>12. ~At("begin")' /\ ~At("delfile")'
  <2> SUFFICES ASSUME job' # <<>> PROVE Top'.op \notin {"begin", "delfile"}
    BY DEF At
  <2>1. Top' = job[2] /\ 2 \in 1 .. Len(job) /\ 2 \in 2 .. Len(job)
    BY <1>10, <1>11
  <2>2. job[1].op # "trunc"
    BY <1>3 DEF At
  <2> QED BY <1>3, <2>1, <2>2 DEF Nested, Linked
<1>13. Light'
  <2>1. ASSUME NEW p \in 1 .. Len(job'), job'[p].op = "deldir" PROVE disk'.ino[job'[p].ino].type # "file"
    <3>1. disk.ino[job'[p].ino].type # "file"
      BY <1>1, <1>10, <2>1 DEF Tight, Cleared
    <3>2. job'[p].ino \in Ino
      BY <1>3, <1>10
    <3> QED BY <1>7, <1>8, <3>1, <3>2
  <2> QED BY <1>11, <1>12, <2>1 DEF Light
<1> QED BY <1>1, <1>3, <1>8, <1>9, <1>13, TightQuiet

\* A deletion that starts has emptied nothing yet, and is of a directory or truncates.
LEMMA StartsLight ==
  ASSUME NEW f \in Seq(Frame), NEW rest \in Seq(Frame), NEW dir, Starts(f, dir), DeleteFrames(f),
         job' = f \o rest, disk' = disk, open' = open,
         \A p \in 1 .. Len(rest) : /\ rest[p].op = "deldir"
                                   /\ ~open => disk.ino[rest[p].ino].type # "file"
  PROVE  Light'
<1> DEFINE l == Len(f)
<1>1. l \in Nat /\ Len(rest) \in Nat
  OBVIOUS
<1>2. /\ job' \in Seq(Frame) /\ Len(job') = l + Len(rest)
      /\ \A p \in 1 .. Len(job') : job'[p] = IF p <= l THEN f[p] ELSE rest[p - l]
  BY <1>1
<1>3. /\ \A p \in 1 .. l : f[p].op = "deldir" => disk.ino[f[p].ino].type = "dir"
      /\ l > 0 => f[1].op = "deldir" \/ (f[1].op = "trunc" /\ ~f[1].cleared)
  <2>1. CASE f = <<>>
    BY <2>1
  <2>2. CASE Len(f) = 2 /\ f[1].op = "trunc" /\ f[2].op = "delfile"
    <3>1. (\A p \in 1 .. l : p = 1 \/ p = 2) /\ 1 \in 1 .. l
      BY <2>2
    <3> QED BY <2>2, <3>1 DEF DeleteFrames
  <2>3. CASE Len(f) = 1 /\ f[1].op = "deldir" /\ disk.ino[f[1].ino].type = "dir"
    <3>1. \A p \in 1 .. l : p = 1
      BY <2>3
    <3> QED BY <2>3, <3>1
  <2> QED BY <2>1, <2>2, <2>3 DEF Starts
<1> HIDE DEF l
<1>4. \A p \in 1 .. Len(job') : \/ p \in 1 .. l /\ job'[p] = f[p]
                                \/ p - l \in 1 .. Len(rest) /\ job'[p] = rest[p - l]
  BY <1>1, <1>2
<1>5. ASSUME job' # <<>> PROVE Top'.op = "deldir" \/ (Top'.op = "trunc" /\ ~Top'.cleared)
  <2>1. 1 \in 1 .. Len(job') /\ Top' = job'[1]
    BY <1>2, <1>5, HeadIs DEF Top
  <2>2. CASE l > 0
    <3>1. Top' = f[1]
      BY <1>1, <1>2, <2>1, <2>2
    <3> QED BY <1>3, <2>2, <3>1
  <2>3. CASE ~(l > 0)
    <3>1. 1 \notin 1 .. l
      BY <1>1, <2>3
    <3> QED BY <1>4, <2>1, <3>1
  <2> QED BY <2>2, <2>3
<1>6. ASSUME ~open, NEW p \in 1 .. Len(job'), job'[p].op = "deldir" PROVE disk.ino[job'[p].ino].type # "file"
  BY <1>3, <1>4, <1>6
<1> QED BY <1>5, <1>6 DEF Light, At

LEMMA CallDeleteTight ==
  ASSUME Plain, Inv, Tight, NEW dir \in Ino, NEW name \in Name, CallDelete(dir, name)
  PROVE  Tight'
<1> USE DEF Inv
<1>1. PICK f \in {FileFrames(dir, name), DirFrames(dir, name)} : job' = f \o job
  BY DEF CallDelete, Push
<1>2. CanCall /\ UNCHANGED <<meta, ws>> /\ disk' = disk /\ open' = open
  BY DEF CallDelete, meta
<1>3. job = <<>> /\ view.ino = disk.ino
  BY <1>2, CallFirst, ViewTree
<1>4. DeleteFrames(f) /\ Starts(f, dir)
  BY <1>1, <1>3, FileFramesAre, DirFramesAre, FramesStart
<1>5. job \in Seq(Frame) /\ 1 .. Len(job) = {} /\ Todo = {} /\ ~At("append")
  BY <1>3 DEF At, Todo
<1>6. f \in Seq(Frame)
  BY <1>4 DEF DeleteFrames
<1>7. Light'
  BY <1>1, <1>2, <1>4, <1>5, <1>6, StartsLight
<1> QED BY <1>2, <1>5, <1>7, TightStill

LEMMA CallBeginTight ==
  ASSUME Plain, Inv, Tight, NEW i \in Ino, CallBegin(i)
  PROVE  Tight'
<1> USE DEF Inv
<1> DEFINE t == Trunc(i)
           b == [op |-> "begin", ino |-> i]
<1>1. CanCall /\ job' = <<t, b>> \o job /\ UNCHANGED <<meta, ws>>
  BY DEF CallBegin, Push
<1>2. job = <<>>
  BY <1>1, CallFirst
<1>3. t.op = "trunc" /\ ~t.cleared /\ b.op = "begin"
  BY DEF Trunc
<1> HIDE DEF t, b
<1>4. Len(job') = 2 /\ job'[1] = t /\ job'[2] = b /\ job' # <<>> /\ Head(job') = t
  BY <1>1, <1>2
<1>5. \A p \in 1 .. Len(job') : p = 1 \/ p = 2
  BY <1>4
<1>6. Light'
  BY <1>3, <1>4, <1>5 DEF Light, At, Top
<1>7. Todo = {} /\ ~At("append")
  BY <1>2 DEF At, Todo
<1> QED BY <1>1, <1>6, <1>7, TightStill

\* A child is deleted on top of the directories that are being deleted.
LEMMA DelDirChildTight ==
  ASSUME Plain, Inv, Exact, Tight, DelDirChild
  PROVE  Tight'
<1> USE DEF Inv
<1> DEFINE h == Head(Top.snap)
           c == view.ino[h]
           dir == Top.ino
           f == CASE c.type = "file" -> FileFrames(dir, c.name)
                  [] c.type = "dir"  -> DirFrames(dir, c.name)
                  [] c.type = "free" -> <<>>
           rest == [job EXCEPT ![1].snap = Tail(@)]
           d == [Top EXCEPT !.snap = Tail(@)]
<1>1. /\ At("deldir") /\ Top.snap # <<>> /\ job' = f \o rest
      /\ UNCHANGED <<meta, ws>> /\ disk' = disk /\ open' = open
  BY DEF DelDirChild, meta
<1>2. /\ job # <<>> /\ Top = job[1] /\ dir \in Ino /\ Top \in DirFrame /\ Top.op = "deldir"
      /\ \A p \in 1 .. Len(job) : job[p].op \in {"delfile", "deldir"}
      /\ job \in Seq(Frame) /\ Len(job) \in Nat /\ Len(job) > 0
      /\ ~At("trunc") /\ ~At("append")
  BY <1>1, DeletionIs, TopIs DEF At, Types
<1>3. h \in Ino /\ Tail(Top.snap) \in Seq(Ino)
  <2> DEFINE s == Top.snap
  <2>1. s \in Seq(Ino) /\ s # <<>>
    BY <1>1, <1>2 DEF DirFrame
  <2> HIDE DEF s
  <2>2. Head(s) \in Ino /\ Tail(s) \in Seq(Ino)
    BY <2>1
  <2> QED BY <2>2 DEF s
<1>4. d \in DirFrame /\ d.op = "deldir" /\ d.ino = dir
  BY <1>2, <1>3 DEF DirFrame
<1>5. rest = [job EXCEPT ![1] = d]
  BY <1>2
<1> HIDE DEF d, h
<1>6. /\ rest \in Seq(Frame) /\ Len(rest) = Len(job)
      /\ \A p \in 1 .. Len(rest) : rest[p] = IF p = 1 THEN d ELSE job[p]
  <2>1. d \in Frame
    BY <1>4 DEF Frame
  <2> HIDE DEF rest
  <2> QED BY <1>2, <1>5, <2>1, FirstReplaced
<1> HIDE DEF rest
<1>7. view.ino = disk.ino /\ c.name \in Name \union {Nil} /\ c.type \in {"free", "file", "dir"}
  <2>1. view.ino = disk.ino /\ disk \in Store
    BY ViewTree DEF Stores, Sound
  <2>2. c \in NodeRec
    BY <1>3, <2>1, StoreParts
  <2> QED BY <2>1, <2>2 DEF NodeRec
<1> HIDE DEF c
<1>8. DeleteFrames(f) /\ Starts(f, dir)
  <2>1. DeleteFrames(<<>>) /\ Starts(<<>>, dir)
    BY DEF Starts, DeleteFrames
  <2>2. /\ DeleteFrames(FileFrames(dir, c.name)) /\ DeleteFrames(DirFrames(dir, c.name))
        /\ Starts(FileFrames(dir, c.name), dir) /\ Starts(DirFrames(dir, c.name), dir)
    BY <1>2, <1>7, FileFramesAre, DirFramesAre, FramesStart
  <2> QED BY <1>7, <2>1, <2>2
<1> HIDE DEF f
<1>9. \A p \in 1 .. Len(job) : job[p].op = "deldir"
  <2> SUFFICES ASSUME NEW p \in 1 .. Len(job), job[p].op = "delfile" PROVE FALSE
    BY <1>2
  <2>1. p \in 2 .. Len(job)
    BY <1>2
  <2>2. job[1].op = "trunc"
    BY <2>1 DEF Exact, Nested, Linked
  <2> QED BY <1>2, <2>2
<1>10. ASSUME NEW p \in 1 .. Len(rest)
       PROVE  rest[p].op = "deldir" /\ (~open => disk.ino[rest[p].ino].type # "file")
  <2>1. p \in 1 .. Len(job) /\ rest[p].ino = job[p].ino /\ rest[p].op = "deldir"
    BY <1>2, <1>4, <1>6, <1>9
  <2> QED BY <1>9, <2>1 DEF Tight, Cleared
<1>11. f \in Seq(Frame)
  BY <1>8 DEF DeleteFrames
<1>12. Light'
  BY <1>1, <1>6, <1>8, <1>10, <1>11, StartsLight
<1>13. Todo = {}
  BY <1>2 DEF Todo
<1> QED BY <1>1, <1>2, <1>12, <1>13, TightStill

-----------------------------------------------------------------------------
(* No leaks: nxfs_check, and every step.                                   *)

LEMMA CallCheckTight ==
  ASSUME Tight, CallCheck
  PROVE  Tight'
<1> DEFINE f == [op |-> "check", walk |-> Visits(<<Root>>, 0), seenB |-> {}, seenI |-> {}, tick |-> FALSE]
<1>1. job = <<>> /\ job' = <<f>> \o job /\ UNCHANGED <<meta, ws>>
  BY DEF CallCheck, Push
<1>2. f.op = "check"
  OBVIOUS
<1> HIDE DEF f
<1>3. Len(job') = 1 /\ job'[1] = f
  BY <1>1
<1>4. Todo = {} /\ ~At("append")
  BY <1>1 DEF At, Todo
<1> QED BY <1>1, <1>2, <1>3, <1>4, LightOne, TightStill

\* The walk changes nothing.
LEMMA CheckStillTight ==
  ASSUME Plain, Inv, Tight, CheckWalk \/ CheckDone
  PROVE  Tight'
<1> USE DEF Inv
<1>1. At("check") /\ UNCHANGED <<meta, ws>> /\ Todo = {} /\ ~At("append")
  BY DEF CheckWalk, CheckDone, At, Todo
<1>2. CASE CheckWalk
  <2>1. Top \in CheckFrame /\ view.ino = disk.ino /\ (~open => view = disk) /\ Sound(disk, written)
    BY <1>1, CheckIs, ViewTree DEF Opened, Stores
  <2> PICK h : h = Seen(Top)
    OBVIOUS
  <2>2. job' = [job EXCEPT ![1] = h] /\ h \in CheckFrame
    BY <1>2, <2>1, VisitIs
  <2>3. Len(job') = 1 /\ job'[1].op = "check"
    BY <1>1, <2>2, CheckFramed
  <2> QED BY <1>1, <2>3, LightOne, TightStill
<1>3. CASE CheckDone
  <2>1. job' = <<>>
    BY <1>1, <1>3, CheckIs, Returned DEF CheckDone
  <2> QED BY <1>1, <2>1, LightEmpty, TightStill
<1> QED BY <1>2, <1>3

\* A repair marks less, and all that is mapped.
LEMMA RepairTight ==
  ASSUME Plain, ~IoFails, Inv, Exact, Tight, Repairs
  PROVE  Tight'
<1> USE DEF Inv
<1>1. /\ At("check") /\ Top.walk = <<>> /\ ~open /\ ws' = ws
      /\ ~At("create") /\ Placed(disk, {})
  BY DEF Repairs, CheckBatch, CheckRepair, At, Tight, Todo
<1>2. view = disk /\ disk \in Store /\ Top.seenB \subseteq disk.bbm
  <2>1. view = disk /\ disk \in Store /\ Top.seenB = InUse(disk)
    BY <1>1, WalkOver DEF Stores, Sound
  <2>2. InUse(disk) \subseteq disk.bbm
    BY InvUsedIsMarked DEF UsedIsMarked
  <2> QED BY <2>1, <2>2
<1>3. /\ disk'.ino = disk.ino /\ disk'.ind = disk.ind /\ disk'.bbm \subseteq disk.bbm
      /\ Light'
  <2>1. CASE CheckRepair
    <3> DEFINE s == [Loaded(Tally(Shadow)) EXCEPT !.dirty = TRUE]
    <3>1. PICK ok \in Results : TxCommit(Shadow, s, ok) /\ Return(ok)
      BY <2>1 DEF CheckRepair
    <3> HIDE DEF s
    <3>2. disk' = Shadow
      BY <3>1, SureCommit
    <3>3. job' = <<>>
      BY <1>1, <3>1, ResultsAre, CheckIs, Returned
    <3>4. Light'
      BY <3>3, LightEmpty
    <3> QED BY <1>2, <3>2, <3>4 DEF Shadow, Store
  <2>2. CASE CheckBatch
    <3>1. PICK bits \in SUBSET Blk, ok \in Results :
            /\ TxCommit([view EXCEPT !.bbm = (@ \ bits) \union (Top.seenB \intersect bits)], sb, ok)
            /\ IF ok THEN job' = [job EXCEPT ![1].tick = FALSE] ELSE Return(FALSE)
      BY <2>2 DEF CheckBatch
    <3> DEFINE m == [view EXCEPT !.bbm = (@ \ bits) \union (Top.seenB \intersect bits)]
    <3>2. m.ino = disk.ino /\ m.ind = disk.ind /\ m.bbm \subseteq disk.bbm
      BY <1>2 DEF Store
    <3> HIDE DEF m
    <3>3. ok = TRUE /\ disk' = m
      BY <3>1, SureCommit DEF m
    <3> PICK f : f = [Top EXCEPT !.tick = FALSE]
      OBVIOUS
    <3>4. f \in CheckFrame /\ job' = [job EXCEPT ![1] = f]
      <4>1. Top \in CheckFrame /\ Top = job[1]
        BY <1>1, CheckIs
      <4>2. job' = [job EXCEPT ![1] = [@ EXCEPT !.tick = FALSE]]
        BY <3>1, <3>3
      <4> QED BY <4>1, <4>2 DEF CheckFrame
    <3>5. Len(job') = 1 /\ job'[1].op = "check"
      BY <1>1, <3>4, CheckFramed
    <3>6. Light'
      BY <3>5, LightOne
    <3> QED BY <3>2, <3>3, <3>6
  <2> QED BY <2>1, <2>2 DEF Repairs
<1> PICK n : n = disk'
  OBVIOUS
<1>4. Placed(n, {})
  <2>1. \A i \in Ino : SameFile(n.ino[i], disk.ino[i])
    BY <1>3 DEF SameFile
  <2> QED BY <1>1, <1>3, <2>1, PlacedSame
<1> QED BY <1>1, <1>3, <1>4, TightQuiet

LEMMA StepTight ==
  ASSUME Plain, ~IoFails, Inv, Exact, Tight, Step
  PROVE  Tight'
<1>1. CASE TruncBusy \/ TruncClear \/ TruncFree
  BY <1>1, BusyTight, TruncClearTight, TruncFreeTight
<1>2. CASE BeginStream \/ AppendData
  BY <1>2, BeginTight, AppendDataTight
<1>3. CASE CreateFails \/ CreateNode
  BY <1>3, CreateTight
<1>4. CASE DelDirChild \/ UnlinkBusy \/ Unlink
  BY <1>4, DelDirChildTight, BusyTight, UnlinkTight
<1>5. CASE CheckWalk \/ CheckDone \/ CheckBatch \/ CheckRepair
  BY <1>5, CheckStillTight, RepairTight DEF Repairs
<1> QED BY <1>1, <1>2, <1>3, <1>4, <1>5 DEF Step

LEMMA CallTight ==
  ASSUME Plain, ~IoFails, Inv, Exact, Tight, Call
  PROVE  Tight'
<1>1. Name \union Dots = Name
  BY DEF Plain
<1>2. CASE \E i \in Ino : CallBegin(i)
  BY <1>2, CallBeginTight
<1>3. CASE AppendMap \/ AppendFull \/ EndCommit \/ EndAbort
  BY <1>3, AppendMapTight, StreamTight
<1>4. CASE \E dir \in Ino, name \in Name, type \in {"file", "dir"} : CallCreate(dir, name, type)
  BY <1>4, CallCreateTight
<1>5. CASE \E dir \in Ino, name \in Name \union Dots : CallDelete(dir, name)
  BY <1>1, <1>5, CallDeleteTight
<1>6. CASE \E dir \in Ino, old \in Name \union Dots, new \in Name : Rename(dir, old, new)
  BY <1>1, <1>6, RenameTight
<1> QED BY <1>2, <1>3, <1>4, <1>5, <1>6, CallCheckTight DEF Call

LEMMA StutterTight ==
  ASSUME Tight, UNCHANGED vars
  PROVE  Tight'
<1>1. disk' = disk /\ view' = view /\ open' = open /\ ws' = ws /\ job' = job
  BY DEF vars
<1>2. Top' = Top /\ (\A op : At(op)' = At(op)) /\ Ahead' = Ahead
  BY <1>1 DEF Top, At, Ahead
<1>3. Todo' = Todo
  BY <1>2 DEF Todo
<1>4. Cleared' /\ Trimmed'
  BY <1>1, <1>2 DEF Tight, Cleared, Trimmed, Blank, Empty, Mapped
<1>5. Placed(disk, Todo)' /\ (ws'.active => Placed(Ahead, {})')
  BY <1>1, <1>2, <1>3 DEF Tight, Placed, Slot, Chain, Mapped
<1> QED BY <1>4, <1>5 DEF Tight

LEMMA InitTight == Init => Tight
<1> SUFFICES ASSUME Init PROVE Tight
  OBVIOUS
<1>1. disk.bbm = {} /\ job = <<>> /\ ~ws.active
  BY NoStreamActive DEF Init, Formatted
<1>2. 1 .. Len(job) = {} /\ \A op : ~At(op)
  BY <1>1 DEF At
<1> QED BY <1>1, <1>2 DEF Tight, Cleared, Trimmed, Placed

LEMMA NextTight ==
  ASSUME Plain, ~IoFails, ~Crashes, Inv, Exact, Tight, [Next]_vars
  PROVE  Tight'
<1>1. ~Crash
  BY DEF Crash
<1> QED BY <1>1, StepTight, CallTight, StutterTight DEF Next

LEMMA AlwaysTight ==
  ASSUME Plain, ~IoFails, ~Crashes
  PROVE  Spec /\ []Flat => [](Inv /\ Exact /\ Tight)
<1>1. Init => Tight
  BY InitTight
<1>2. Inv /\ Exact /\ Tight /\ [Next]_vars => Tight'
  BY NextTight
<1>3. Spec /\ []Flat => [](Inv /\ Exact)
  BY AlwaysExact
<1> QED BY <1>1, <1>2, <1>3, PTL DEF Spec

\* At rest, what is marked is in the tree.
LEMMA TightLeaksNothing ==
  ASSUME Inv, Exact, Tight
  PROVE  NothingLeaks
<1> USE DEF Inv, Exact
<1> SUFFICES ASSUME job = <<>>, ~open PROVE disk.ibm = Reach(disk) /\ disk.bbm = InUse(disk)
  BY DEF NothingLeaks
<1>1. disk \in Store /\ Tree(disk) /\ disk.ibm \subseteq Ino /\ disk.bbm \subseteq Blk
  BY StoreParts DEF Stores, Sound
<1>2. Reach(disk) \subseteq disk.ibm /\ InUse(disk) \subseteq disk.bbm
  BY InvUsedIsMarked DEF UsedIsMarked
<1>3. \A i \in Ino : disk.ino[i].type # "free" => i \in Reach(disk)
  BY DEF Settled, Joined, Reach
<1>4. disk.ibm \subseteq Reach(disk)
  BY <1>1, <1>3 DEF Tree
<1>5. ASSUME NEW b \in disk.bbm PROVE b \in InUse(disk)
  <2>1. Todo = {}
    BY DEF At, Todo
  <2>2. PICK i \in Ino, k \in Place : b = Slot(disk, i, k)
    BY <2>1 DEF Tight, Placed
  <2>3. b # Nil
    BY <1>1, Consts
  <2>4. disk.ino[i].type = "file"
    BY <2>2, <2>3, ChainBlank DEF Settled, Bare, Slot
  <2>5. i \in Reach(disk)
    BY <1>3, <2>4
  <2>6. b \in Blocks(disk, disk.ino[i])
    BY <1>1, <2>2, <2>3, SlotIsBlock
  <2> QED BY <2>5, <2>6 DEF InUse
<1> QED BY <1>2, <1>4, <1>5

\* While no write fails and the power stays on, nothing is lost: whenever no call is
\* in progress and no stream is open, the inodes and blocks that are marked are those
\* of the tree, whatever was created, written, dropped, truncated and deleted before.
THEOREM NoBlockIsLost ==
  ASSUME Plain, ~IoFails, ~Crashes
  PROVE  Spec /\ []Flat => []NothingLeaks
<1>1. Inv /\ Exact /\ Tight => NothingLeaks
  BY TightLeaksNothing
<1> QED BY <1>1, AlwaysTight, PTL

=============================================================================
